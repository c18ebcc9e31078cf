------------------------------ MODULE Resolver ------------------------------
(***************************************************************************)
(* The extension catalog, the resolution of components against it and the  *)
(* execution plan: catalog.ts, resolve.ts and plan.ts of kernel/compiler.  *)
(* Pure.  A component kind is <<family, name>>.                            *)
(***************************************************************************)
EXTENDS KernelValues

(***************************************************************************)
(* A catalog is a sequence of adapters [id, wellFormed, kinds, runtime]    *)
(* and one of providers [id, wellFormed, capability, runtimes].            *)
(***************************************************************************)
covers(adapter, kind, runtime) == adapter.runtime = runtime /\ kind \in adapter.kinds
provides(provider, capability, runtime) ==
  provider.capability = capability /\ runtime \in provider.runtimes

duplicateIds(catalog) ==
  ~ uniqueIds(catalog.adapters \o catalog.providers)

overlapping(catalog) ==
  \/ \E i, j \in DOMAIN catalog.adapters :
       /\ i < j
       /\ \E kind \in catalog.adapters[i].kinds :
            covers(catalog.adapters[j], kind, catalog.adapters[i].runtime)
  \/ \E i, j \in DOMAIN catalog.providers :
       /\ i < j
       /\ \E runtime \in catalog.providers[i].runtimes :
            provides(catalog.providers[j], catalog.providers[i].capability, runtime)

(* Faulty variant: overlaps are left to the order of the descriptors.      *)
catalogDiagnosticsOverlap(catalog) ==
  IF \/ \E i \in DOMAIN catalog.adapters : ~ catalog.adapters[i].wellFormed
     \/ \E i \in DOMAIN catalog.providers : ~ catalog.providers[i].wellFormed
  THEN {"CATALOG_INVALID"}
  ELSE {code \in {"CATALOG_DUPLICATE_ID"} : duplicateIds(catalog)}

(* The codes validateCatalog reports; each is an error, and a catalog with *)
(* any error is never used.  Malformed descriptors end the validation.     *)
catalogDiagnostics(catalog) ==
  IF \/ \E i \in DOMAIN catalog.adapters : ~ catalog.adapters[i].wellFormed
     \/ \E i \in DOMAIN catalog.providers : ~ catalog.providers[i].wellFormed
  THEN {"CATALOG_INVALID"}
  ELSE {code \in {"CATALOG_DUPLICATE_ID"} : duplicateIds(catalog)}
       \union {code \in {"CATALOG_OVERLAPPING_COVERAGE"} : overlapping(catalog)}

(***************************************************************************)
(* Resolution.  The IR of a component is [id, kind, preferences,           *)
(* capabilities, class, environments, requirements].                       *)
(***************************************************************************)
supports(catalog, kind, runtime) ==
  \E i \in DOMAIN catalog.adapters : covers(catalog.adapters[i], kind, runtime)

(* The preference that is selected, 0 when none has an adapter.            *)
selected(catalog, component) ==
  SelectInSeq(component.preferences, LAMBDA runtime : supports(catalog, component.kind, runtime))

(* Array.find: the first descriptor that matches.                          *)
adapterFor(catalog, kind, runtime) ==
  catalog.adapters[SelectInSeq(catalog.adapters, LAMBDA a : covers(a, kind, runtime))].id

providerFor(catalog, capability, runtime) ==
  LET i == SelectInSeq(catalog.providers, LAMBDA p : provides(p, capability, runtime))
  IN  IF i = 0 THEN Null ELSE catalog.providers[i].id

resolveComponent(catalog, component) ==
  LET i == selected(catalog, component)
      runtime == component.preferences[i]
  IN  IF i = 0
      THEN [status |-> "UNSUPPORTED", runtime |-> Null, adapter |-> Null, capabilities |-> <<>>]
      ELSE [status |-> "RESOLVED", runtime |-> runtime,
            adapter |-> adapterFor(catalog, component.kind, runtime),
            capabilities |-> [k \in DOMAIN component.capabilities |->
              providerFor(catalog, component.capabilities[k], runtime)]]

(* resolved.components, one per component of the IR.                       *)
resolveSystem(catalog, components) ==
  [c \in DOMAIN components |-> resolveComponent(catalog, components[c])]

(* resolved.unsupported, as <<component, capability, code>>.               *)
unsupportedItems(components, resolved) ==
  {<<c, Null, IF components[c].preferences = <<>> THEN "RESOLVE_NO_RUNTIME_PREFERENCE"
              ELSE "RESOLVE_NO_ADAPTER">> :
     c \in {d \in DOMAIN components : resolved[d].status = "UNSUPPORTED"}}
  \union
  UNION {{<<c, components[c].capabilities[k], "RESOLVE_NO_CAPABILITY_PROVIDER">> :
            k \in {n \in DOMAIN resolved[c].capabilities : resolved[c].capabilities[n] = Null}} :
           c \in DOMAIN components}

(* The warnings of the resolution, as <<code, component>>.                 *)
resolveDiagnostics(catalog, components, resolved) ==
  {<<item[3], item[1]>> : item \in unsupportedItems(components, resolved)}
  \union {<<"RESOLVE_PREFERENCE_FALLBACK", c>> :
            c \in {d \in DOMAIN components : selected(catalog, components[d]) > 1}}

(***************************************************************************)
(* The execution plan.                                                     *)
(***************************************************************************)

planSteps(components, resolved, contracts) ==
  LET planned == {c \in DOMAIN components : resolved[c].status = "RESOLVED"}
      bound(c) == {k \in DOMAIN resolved[c].capabilities : resolved[c].capabilities[k] # Null}
  IN  {[action |-> IF components[c].class = "EXTERNAL" THEN "CONNECT_EXTERNAL" ELSE "MATERIALIZE",
        component |-> c, with |-> resolved[c].adapter,
        contracts |-> {contract \in contracts : contract.provider = c}] : c \in planned}
      \union
      UNION {{[action |-> "BIND_CAPABILITY", component |-> c,
               capability |-> components[c].capabilities[k],
               with |-> resolved[c].capabilities[k]] : k \in bound(c)} : c \in planned}

(* An invariant of a type is enforced by whoever provides an operation of  *)
(* its domain; items of types and operations are one name space here.      *)
enforced(domains, contract) ==
  LET k == contract.domain
  IN  {i \in DOMAIN domains[k].invariants : \E item \in domains[k].invariants[i] :
         <<k, item>> \in contract.operations \/ item \notin DOMAIN domains[k].emits}

(* What the owning teams keep, and what evidence must later prove.         *)
ownerWork(components, domains, contracts) ==
  {[work |-> "COMPONENT", component |-> c, item |-> Null] :
     c \in {d \in DOMAIN components : components[d].class # "COMPILER_OWNED"}}
  \union UNION {{[work |-> "IMPLEMENT_OPERATION", component |-> x.provider, item |-> item] : item \in x.operations}
                  \union {[work |-> "ENFORCE_INVARIANT", component |-> x.provider, item |-> <<x.domain, i>>]
                            : i \in enforced(domains, x)}
                  : x \in contracts}

(* Faulty variant: nothing is to be proved of a connected component.       *)
proofObligationsOfMaterialized(components, resolved) ==
  UNION {{<<c, requirement>> : requirement \in components[c].requirements} :
           c \in {d \in DOMAIN components : resolved[d].status = "RESOLVED" /\ components[d].class # "EXTERNAL"}}

proofObligations(components, resolved) ==
  UNION {{<<c, requirement>> : requirement \in components[c].requirements} :
           c \in {d \in DOMAIN components : resolved[d].status = "RESOLVED"}}

=============================================================================
