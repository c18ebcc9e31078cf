------------------------------ MODULE Compiler ------------------------------
(***************************************************************************)
(* The stages of the kernel facade on one closed set of documents          *)
(* (facade.ts of kernel/compiler), as the command line calls it: the       *)
(* documents and the catalog, read from a file or built from the loaded    *)
(* extensions, are validated, components are resolved, policies are        *)
(* evaluated and a plan is made; the plan is later applied, any number of  *)
(* times, at instants the caller injects (materialize.ts).                 *)
(*                                                                         *)
(* A system is its definition with what it pins: components, baseline,     *)
(* decisions, Domain Contracts, design systems, and its integrations and   *)
(* environments.  A context that the set does not have is Null.            *)
(***************************************************************************)
EXTENDS Policy, ExtensionHost, SystemIR, NestAdapter, FiniteSets

CONSTANTS
  Inputs,     (* families of [system, context, catalog, extensions]: what  *)
              (* is compiled is a member of one of them                    *)
  Instant     (* the instants at which a plan may be applied               *)

VARIABLES
  input,      (* what is compiled                                          *)
  result,     (* the PlanResult, Null before the compilation               *)
  applied     (* ghost: when the plan was last applied, Null if never      *)

vars == <<input, result, applied>>

isList(items) == items \in Seq(Range(items))

(* What documents are once they have the form their schema requires, and   *)
(* their references resolve.                                               *)
isDesign(design) ==
  /\ isList(design.contexts)
  /\ IsFiniteSet(DOMAIN design.tokens) /\ Null \notin DOMAIN design.tokens
  /\ \A path \in DOMAIN design.tokens :
       LET token == design.tokens[path]
       IN  token = [type |-> token.type, value |-> token.value] /\ token.type # Null

isSystem(system) ==
  /\ isList(system.domains)
  /\ isList(system.baseline.requirements) /\ idSet(system.baseline.requirements) \subseteq Nat
  /\ \A i \in DOMAIN system.designs : isDesign(system.designs[i])
  /\ \A c \in DOMAIN system.components :
       LET component == system.components[c]
       IN  /\ isList(component.preferences)
           /\ \A k \in DOMAIN component.capabilities : component.capabilities[k] # Null
           /\ component.experience # Null => component.experience.design \in DOMAIN system.designs

isCatalog(catalog) ==
  /\ isList(catalog.adapters) /\ isList(catalog.providers)
  /\ \A i \in DOMAIN catalog.adapters : catalog.adapters[i].id # Null
  /\ \A i \in DOMAIN catalog.providers : catalog.providers[i].id # Null

isContext(context) ==
  /\ isList(context.layers) /\ isList(context.waivers)
  /\ \A i \in DOMAIN context.layers :
       LET layer == context.layers[i]
       IN  /\ layer.precedence \in Nat /\ layer.id \in Nat
           /\ isList(layer.rules)
           /\ \A n \in DOMAIN layer.rules : layer.rules[n].locked \in BOOLEAN /\ layer.rules[n].value # Null
  /\ \A i \in DOMAIN context.waivers :
       LET waiver == context.waivers[i]
       IN  waiver # Null /\ waiver.id \in Nat /\ waiver.expiresAt \in Nat

isManifests(files) ==
  /\ isList(files)
  /\ \A i \in DOMAIN files :
       files[i] # Null /\ files[i].id \in Seq(Nat) /\ files[i].capabilities \in Seq(Nat)

ASSUME InputsAssumption ==
  \A family \in Inputs : \A in \in family :
    /\ isSystem(in.system)
    /\ in.context # Null => isContext(in.context)
    /\ in.catalog # Null => isCatalog(in.catalog)
    /\ in.extensions # Null => isManifests(in.extensions)

ASSUME InstantAssumption == Instant \subseteq Nat

ASSUME NullAssumption ==
  /\ Null \notin Instant /\ Null \notin Seq(Nat)
  /\ Null \notin {"MANIFEST_INVALID", "ADAPTER_UNSUPPORTED_EXECUTION_MODE",
                  "ADAPTER_LOAD_FAILED", "ADAPTER_CONTRACT_VIOLATION"}

EMPTY_CATALOG == [adapters |-> <<>>, providers |-> <<>>]

(* What the command line passes when the host has no catalog: no catalog.  *)
INVALID_CATALOG == [adapters |-> <<[id |-> Null, wellFormed |-> FALSE]>>, providers |-> <<>>]

(* --extensions and --catalog are exclusive; without either the catalog is *)
(* empty and nothing resolves.                                             *)
catalogOf(in) ==
  IF in.extensions # Null
  THEN LET host == loadExtensions(in.extensions)
       IN  IF host.catalog = Null THEN INVALID_CATALOG ELSE host.catalog
  ELSE IF in.catalog = Null THEN EMPTY_CATALOG ELSE in.catalog

(* What is reported before anything is compiled; all of it is an error but *)
(* the warnings about the system.                                          *)
documentDiagnostics(in) ==
  (IF in.context = Null THEN {} ELSE validateEffectiveOrganizationContext(in.context))
  \union catalogDiagnostics(catalogOf(in))
  \union systemDiagnostics(in.system)

invalidities(in) == documentDiagnostics(in) \ SYSTEM_WARNINGS

notCompiled(status, codes) ==
  [status |-> status, diagnostics |-> codes, bindings |-> Null, resolved |-> Null, policy |-> Null, plan |-> Null]

(* The IR the policies are evaluated on.                                   *)
buildSystemIR(system) ==
  [components |-> system.components, integrations |-> system.integrations, environments |-> system.environments,
   bindings |-> buildDesignBindings(system.components, system.designs)]

planSystem(in, resolved, policy) ==
  LET contracts == projectApiContracts(in.system)
      components == in.system.components
  IN  [steps |-> planSteps(components, resolved, contracts),
       unsupported |-> unsupportedItems(components, resolved),
       unsupportedIntent |-> unsupportedIntent(in.system),
       sharedContracts |-> contracts,
       policy |-> policy,
       ownerWork |-> ownerWork(components, in.system.domains, contracts),
       proofObligations |-> proofObligations(components, resolved)]

(* Faulty variant: capabilities without provider do not make it partial.   *)
statusOfComponents(system, resolved, codes) ==
  CASE "POLICY_VIOLATION" \in codes -> "INVALID"
    [] /\ "POLICY_VIOLATION" \notin codes
       /\ \/ \E c \in DOMAIN resolved : resolved[c].status = "UNSUPPORTED"
          \/ unsupportedIntent(system) # {} -> "PARTIAL"
    [] OTHER -> "PLANNED"

(* hasErrors: of the codes a compilation can still raise, one is an error. *)
statusOf(system, resolved, codes) ==
  CASE "POLICY_VIOLATION" \in codes -> "INVALID"
    [] /\ "POLICY_VIOLATION" \notin codes
       /\ unsupportedItems(system.components, resolved) # {} \/ unsupportedIntent(system) # {} -> "PARTIAL"
    [] OTHER -> "PLANNED"

(* Faulty variant: the plan of an invalid compilation is handed out.       *)
planAlways(status, plan) == plan

planUnlessInvalid(status, plan) == IF status = "INVALID" THEN Null ELSE plan

compiled(in) ==
  LET catalog == catalogOf(in)
      ir == buildSystemIR(in.system)
      resolved == resolveSystem(catalog, ir.components)
      policy == IF in.context = Null THEN Null ELSE evaluatePolicies(in.context, ir, resolved)
      codes == {d[1] : d \in resolveDiagnostics(catalog, ir.components, resolved)}
               \union {i[2] : i \in unsupportedIntent(in.system)}
               \union documentDiagnostics(in)
               \union (IF policy = Null THEN {} ELSE policyDiagnostics(policy))
      status == statusOf(in.system, resolved, codes)
  IN  [status |-> status, diagnostics |-> codes, bindings |-> ir.bindings, resolved |-> resolved, policy |-> policy,
       plan |-> planUnlessInvalid(status, planSystem(in, resolved, policy))]

(* The facade: an exception of the token resolution goes through it and    *)
(* through the command, which then reports nothing.                        *)
facadePlan(in) ==
  IF invalidities(in) # {} THEN notCompiled("INVALID", documentDiagnostics(in))
  ELSE IF bindingsThrow(buildSystemIR(in.system).bindings) THEN notCompiled("THROWN", {})
  ELSE compiled(in)

(* The command line adds what the host reports; an error of the host makes *)
(* the result invalid, though it keeps its plan.                           *)
reported(in, planned) ==
  IF in.extensions = Null \/ planned.status = "THROWN" THEN planned
  ELSE LET found == loadExtensions(in.extensions).diagnostics
       IN  [planned EXCEPT !.diagnostics = @ \union found,
                           !.status = IF found \subseteq HOST_WARNINGS THEN @ ELSE "INVALID"]

Init ==
  /\ \E family \in Inputs : input \in family
  /\ result = Null
  /\ applied = Null

(* compile: pure, and one call.                                            *)
Compile ==
  /\ result = Null
  /\ result' = reported(input, facadePlan(input))
  /\ UNCHANGED <<input, applied>>

(* materialize: a plan that relies on an expired waiver is refused as a    *)
(* whole, and the command line does not apply an invalid result.           *)
Apply(executedAt) ==
  /\ result # Null
  /\ result.status \in {"PLANNED", "PARTIAL"}
  /\ expiredWaivers(result.policy, executedAt) = {}
  /\ applied' = executedAt
  /\ UNCHANGED <<input, result>>

Next == Compile \/ \E at \in Instant : Apply(at)

Spec == Init /\ [][Next]_vars

(* What an adapter is given of the contracts that its component provides.  *)
provided(domains, contracts) ==
  LET contract(x) == [context |-> domains[x.domain].context,
                      refers |-> x.operations \intersect {<<x.domain, o>> : o \in domains[x.domain].refers} # {}]
      sorted == SetToSeq(contracts)
  IN  [i \in DOMAIN sorted |-> contract(sorted[i])]

-----------------------------------------------------------------------------
(* Properties.                                                             *)

accepted == result # Null /\ result.resolved # Null
governed == accepted /\ input.context # Null
layersOf == input.context.layers

CTypeOK ==
  /\ applied \in Instant \union {Null}
  /\ result # Null =>
       /\ result.status \in {"PLANNED", "PARTIAL", "INVALID", "THROWN"}
       /\ result.status \in {"PLANNED", "PARTIAL"} => result.plan # Null
       /\ result.plan # Null => result.status # "INVALID" \/ "POLICY_VIOLATION" \notin result.diagnostics
       /\ result.resolved # Null =>
            \A c \in DOMAIN input.system.components :
              /\ result.resolved[c].status \in {"RESOLVED", "UNSUPPORTED"}
              /\ (result.resolved[c].adapter = Null) = (result.resolved[c].status = "UNSUPPORTED")

(* The rules a compilation went by are what their layers and waivers mean  *)
(* whatever the order they are listed in: a lock of lower precedence       *)
(* decides, else the layer of greatest precedence, and the last waiver     *)
(* replaces both (applyRule, applyWaiver, the check of `effective`).       *)
EffectiveIsReference ==
  governed => \A rule \in RuleId :
    LET working == input.context.effective[rule]
    IN  IF definitions(layersOf, rule) = {} THEN working = Null
        ELSE /\ working.value = inForce(layersOf, waiversOf(input.context.waivers, rule), rule)
             /\ working.locked = decisive(layersOf, rule).rule.locked

(* The trace of an effective rule explains it: one entry is in force, it   *)
(* names the source and the value, every layer that defines the rule and   *)
(* every waiver of it has exactly one entry, and a refused definition is   *)
(* never the one that counts.                                              *)
TraceExplains ==
  governed => \A rule \in {r \in RuleId : input.context.effective[r] # Null} :
    LET working == input.context.effective[rule]
        trace == working.trace
        current == {k \in DOMAIN trace : trace[k].outcome \in {"APPLIED", "WAIVED"}}
    IN  /\ \E k \in current : /\ current = {k}
                              /\ trace[k].value = working.value
                              /\ working.source = [type |-> trace[k].from, id |-> trace[k].id]
        /\ \A d \in definitions(layersOf, rule) :
             Cardinality({k \in DOMAIN trace : trace[k].from = "LAYER" /\ trace[k].id = d.layer.id}) = 1
        /\ \A w \in waiversOf(input.context.waivers, rule) :
             Cardinality({k \in DOMAIN trace : trace[k].from = "WAIVER" /\ trace[k].id = w.id}) = 1
        /\ Len(trace) = Cardinality(definitions(layersOf, rule))
                        + Cardinality(waiversOf(input.context.waivers, rule))

(* What realizes a component follows from its declared preferences alone:  *)
(* an earlier preference has no adapter, and reading the catalog in the    *)
(* opposite order gives the same adapter and the same providers.           *)
ResolutionIsDetermined ==
  accepted =>
    /\ \A c \in DOMAIN input.system.components :
         LET component == input.system.components[c]
             runtime == result.resolved[c].runtime
         IN  result.resolved[c].status = "RESOLVED" =>
               \E i \in DOMAIN component.preferences :
                 /\ component.preferences[i] = runtime
                 /\ \A j \in 1 .. i - 1 :
                      ~ supports(catalogOf(input), component.kind, component.preferences[j])
    /\ LET reversed == [adapters |-> Reverse(catalogOf(input).adapters),
                        providers |-> Reverse(catalogOf(input).providers)]
       IN  resolveSystem(reversed, input.system.components) = result.resolved

(* A plan never hides what it cannot do: every component has a step or is  *)
(* listed, every capability of a planned one is bound or listed, and       *)
(* PLANNED means nothing is missing.                                       *)
NothingDropped ==
  accepted /\ result.plan # Null =>
    LET plan == result.plan
        components == input.system.components
        planned == {s.component : s \in {t \in plan.steps : t.action # "BIND_CAPABILITY"}}
        listed == {u[1] : u \in {v \in plan.unsupported : v[2] = Null}}
    IN  /\ planned \union listed = DOMAIN components
        /\ planned \intersect listed = {}
        /\ \A c \in planned : \A k \in DOMAIN components[c].capabilities :
             LET capability == components[c].capabilities[k]
             IN  (\E s \in plan.steps : s.action = "BIND_CAPABILITY" /\ s.component = c
                                        /\ s.capability = capability)
                 # (\E u \in plan.unsupported : u[1] = c /\ u[2] = capability)
        /\ result.status = "PLANNED" => plan.unsupported = {} /\ plan.unsupportedIntent = {}

(* An operation that a component consumes is in the contract of the        *)
(* component it consumes it from, which names the consumer: what the       *)
(* contract set accepts is what the compiler projects                      *)
(* (crossValidateSystemDefinition against projectApiContract).             *)
ConsumersShareTheContract ==
  accepted /\ result.plan # Null =>
    \A c \in DOMAIN input.system.components : \A edge \in input.system.components[c].consumes :
      \A text \in edge.operations :
        \E contract \in result.plan.sharedContracts :
          /\ contract.provider = edge.component /\ c \in contract.consumers
          /\ resolveItem(input.system.domains, text) \in contract.operations

(* No domain intent is lost: an operation is in some shared contract, and  *)
(* then someone's work, or listed as unsupported; an event that a          *)
(* component waits for or that a shared operation emits is not listed; a   *)
(* provider enforces every invariant of its domain (ir.ts, planSystem).    *)
DomainIntentIsKept ==
  accepted /\ result.plan # Null =>
    LET plan == result.plan
        domains == input.system.domains
        unpublished == {u[1] : u \in {v \in plan.unsupportedIntent : v[2] = "IR_EVENT_UNPUBLISHED"}}
    IN  /\ \A item \in operationItems(domains) :
             (\E x \in plan.sharedContracts : item \in x.operations)
             # (<<item, "IR_OPERATION_UNIMPLEMENTED">> \in plan.unsupportedIntent)
        /\ \A component \in Range(input.system.components) : \A text \in component.subscribes :
             resolveItem(domains, text) \notin unpublished
        /\ \A x \in plan.sharedContracts :
             /\ \A item \in x.operations :
                  /\ [work |-> "IMPLEMENT_OPERATION", component |-> x.provider, item |-> item] \in plan.ownerWork
                  /\ \A e \in domains[x.domain].emits[item[2]] : <<x.domain, e>> \notin unpublished
             /\ \A i \in DOMAIN domains[x.domain].invariants :
                  [work |-> "ENFORCE_INVARIANT", component |-> x.provider, item |-> <<x.domain, i>>] \in plan.ownerWork

(* An accepted functional requirement ends somewhere: of every component   *)
(* it is allocated to it is to be proved, unless that component is listed  *)
(* as unsupported, and it is reported when there is none                   *)
(* (crossValidateSystemDefinition, planSystem).                            *)
RequirementsAreTraced ==
  accepted /\ result.plan # Null =>
    \A requirement \in acceptedRequirements(input.system.baseline) :
      LET allocated == {c \in DOMAIN input.system.components :
                          requirement \in input.system.components[c].requirements}
      IN  /\ allocated = {} => "SYSTEM_REQUIREMENT_UNCOVERED" \in result.diagnostics
          /\ \A c \in allocated :
               (<<c, requirement>> \in result.plan.proofObligations)
               # (\E u \in result.plan.unsupported : u[1] = c /\ u[2] = Null)

(* Whatever is applied is allowed at that instant: every subject of an     *)
(* interpreted rule has what the rule in force allows, and it has what the *)
(* layers allow unless the waiver in force has not expired.                *)
AppliedIsCompliant ==
  governed /\ applied # Null =>
    \A rule \in {r \in RuleId : definitions(layersOf, r) # {} /\ interpreted(r)} :
      LET waivers == waiversOf(input.context.waivers, rule)
          last == CHOOSE w \in waivers : \A v \in waivers : w.id >= v.id
      IN  \A s \in {x \in subjects(rule, buildSystemIR(input.system), result.resolved) : applicable(rule, x[2])} :
            /\ allowed(rule, inForce(layersOf, waivers, rule), s[2])
            /\ \/ allowed(rule, inForce(layersOf, {}, rule), s[2])
               \/ waivers # {} /\ last.expiresAt >= applied

(* What is planned can be done here: the adapter and the providers of a    *)
(* step belong to an extension that was loaded into this process under     *)
(* that id, for that kind and runtime, and what is applied was planned     *)
(* with every extension that says it runs in this process (host.ts:6-8).   *)
PlannedIsLoaded ==
  accepted /\ input.extensions # Null =>
    LET host == loadExtensions(input.extensions)
        loadable(e) == /\ e.mode = "TRUSTED_IN_PROCESS" /\ e.entry = "ADAPTER"
                       /\ e.identity = <<e.id, e.version>>
        steps == IF result.plan = Null THEN {} ELSE result.plan.steps
    IN  /\ \A s \in steps :
             LET component == input.system.components[s.component]
                 runtime == result.resolved[s.component].runtime
                 id == IF s.action = "BIND_CAPABILITY" THEN Front(s.with) ELSE s.with
                 e == extensionOf(host, id)
             IN  /\ e # Null /\ loadable(e) /\ e.runtime = runtime
                 /\ IF s.action = "BIND_CAPABILITY" THEN s.capability \in Range(e.capabilities)
                    ELSE component.kind \in e.kinds
        /\ applied # Null =>
             \A f \in Range(input.extensions) :
               f.parses /\ f.conforms /\ (f.mode = "TRUSTED_IN_PROCESS" => loadable(f) /\ extensionOf(host, f.id) = f)

(* A compilation that passes validation ends with an exception exactly     *)
(* when the overrides of a context that a component uses close a cycle of  *)
(* aliases; otherwise every token of the binding has the type the design   *)
(* system declares and a literal that is valid for it, however many        *)
(* aliases and overrides it went through (design-system.ts).               *)
TokensResolve ==
  result # Null /\ (result.status = "THROWN" \/ accepted) =>
    LET designed == {c \in DOMAIN input.system.components : input.system.components[c].experience # Null}
        design(c) == input.system.designs[input.system.components[c].experience.design]
        overrides(c) == overridesOf(design(c), input.system.components[c].experience.context)
        target(c, path) == aliasOf(IF path \in DOMAIN overrides(c) THEN overrides(c)[path]
                                   ELSE design(c).tokens[path].value)
        closed(c) == \E S \in (SUBSET DOMAIN design(c).tokens) \ {{}} : \A path \in S : target(c, path) \in S
    IN  /\ (result.status = "THROWN") = \E c \in designed : closed(c)
        /\ accepted => \A c \in designed :
             LET tokens == result.bindings[c].tokens
             IN  /\ DOMAIN tokens = DOMAIN design(c).tokens
                 /\ \A path \in DOMAIN tokens :
                      /\ tokens[path].type = design(c).tokens[path].type
                      /\ tokens[path].type \in tokens[path].value.fits

(* The searches for cycles find one exactly when there is one: in what the *)
(* requirements depend on, where every reported cycle is one of the        *)
(* baseline, and in the aliases of a design system (dependencyCycles,      *)
(* validateTokens).                                                        *)
CyclesAreReported ==
  LET requirements == input.system.baseline.requirements
      found == dependencyCycles(requirements)
      depends(a, b) == b \in dependsOn(requirements, a)
      edges(tokens, S) == \A path \in S : aliasOf(tokens[path].value) \in S
  IN  /\ (found # {}) = \E S \in (SUBSET idSet(requirements)) \ {{}} : \A a \in S : \E b \in S : depends(a, b)
      /\ \A cycle \in found : /\ Len(cycle) > 1 /\ cycle[1] = cycle[Len(cycle)]
                              /\ \A i \in 1 .. Len(cycle) - 1 : depends(cycle[i], cycle[i + 1])
      /\ \A d \in Range(input.system.designs) :
           ("DESIGN_TOKEN_ALIAS_CYCLE" \in validateTokens(d.tokens))
           = \E S \in (SUBSET DOMAIN d.tokens) \ {{}} : edges(d.tokens, S)

(* A project that the NestJS adapter generates for a planned step is a     *)
(* whole: every file that a file needs is generated too, and the entry     *)
(* point reaches, through imports, the controller and the handlers of      *)
(* every contract that the step cites; only the files of src/extension are *)
(* the owner's.  No path is planned twice (which planArtifacts refuses)    *)
(* exactly when no two of the contracts share a bounded context.           *)
ImportsResolve ==
  accepted /\ result.plan # Null =>
    \A step \in {s \in result.plan.steps : /\ s.action = "MATERIALIZE"
                                          /\ result.resolved[s.component].runtime = "nestjs"
                                          /\ validateIntent(input.system.components[s.component])} :
      LET artifacts == nestPlan(provided(input.system.domains, step.contracts))
          at(path) == artifacts[SelectInSeq(artifacts, LAMBDA a : a.path = path)]
          paths == {artifacts[i].path : i \in DOMAIN artifacts}
          contexts == {input.system.domains[x.domain].context : x \in step.contracts}
          reach[n \in Nat] == IF n = 0 THEN {mainFile}
                              ELSE reach[n - 1] \union UNION {at(path).imports : path \in reach[n - 1]}
      IN  /\ \A a \in Range(artifacts) : a.imports \subseteq paths
          /\ \A context \in contexts :
               {domainFile([context |-> context], "controller"), implementation([context |-> context])} \subseteq reach[4]
          /\ \A a \in Range(artifacts) : (a.ownership = "OWNER_SEEDED") = IsPrefix(<<"src", "extension">>, a.path)
          /\ (Cardinality(paths) = Len(artifacts)) = (Cardinality(contexts) = Cardinality(step.contracts))

=============================================================================
