------------------------------ MODULE SystemIR ------------------------------
(***************************************************************************)
(* The domain side of a System Definition: what the contract set requires  *)
(* of it (domain-contract.ts and system-definition.ts of kernel/contracts) *)
(* and what the compiler makes of it (ir.ts, domain-ir.ts and              *)
(* api-contract.ts of kernel/compiler).  Pure.                             *)
(*                                                                         *)
(* A system has components, identified by their position, and what it      *)
(* pins: a baseline, decisions, Domain Contracts in the order of the       *)
(* definition, design systems.  A Domain Contract is [id, context,         *)
(* revision, types, events, emits, refers, invariants, facets]; context is *)
(* its bounded context, emits gives the events of each operation, refers   *)
(* the operations that take or return a type of it, invariants the types   *)
(* each one applies to.  An item is <<contract, id>> as it is written,     *)
(* <<position of the contract, id>> once it is resolved.                   *)
(***************************************************************************)
EXTENDS Requirements, DesignTokens

acceptedRequirements(baseline) ==
  {r.id : r \in {x \in Range(baseline.requirements) : x.status = "ACCEPTED" /\ x.type = "FUNCTIONAL"}}

(* Both the contract set and the compiler keep the last of several pinned  *)
(* revisions of a contract (Map.set); 0 when there is none.                *)
pinned(domains, id) == Max({0} \union {k \in DOMAIN domains : domains[k].id = id})

resolveItem(domains, text) == <<pinned(domains, text[1]), text[2]>>

operationItems(domains) == UNION {{<<k, o>> : o \in DOMAIN domains[k].emits} : k \in DOMAIN domains}
eventItems(domains) == UNION {{<<k, e>> : e \in domains[k].events} : k \in DOMAIN domains}

isOperation(domains, text) == resolveItem(domains, text) \in operationItems(domains)
isEvent(domains, text) == resolveItem(domains, text) \in eventItems(domains)

-----------------------------------------------------------------------------
(* Validation.                                                             *)

validateDomainContract(domain) ==
  {code \in {"DOMAIN_UNKNOWN_EVENT"} : \E o \in DOMAIN domain.emits : ~ domain.emits[o] \subseteq domain.events}
  \union {code \in {"DOMAIN_UNKNOWN_TYPE"} :
            \E i \in DOMAIN domain.invariants : ~ domain.invariants[i] \subseteq domain.types}

storeOwners(components, store) == {c \in DOMAIN components : [store |-> store, access |-> "OWNER"] \in components[c].data}

validateSystemDefinition(components) ==
  LET consumed(c) == {edge.component : edge \in components[c].consumes}
      stores == UNION {{d.store : d \in components[c].data} : c \in DOMAIN components}
      known == stores \intersect DOMAIN components
  IN  {code \in {"SYSTEM_SELF_DEPENDENCY"} : \E c \in DOMAIN components : c \in consumed(c)}
      \union {code \in {"SYSTEM_UNKNOWN_COMPONENT"} :
                stores # known \/ \E c \in DOMAIN components : ~ consumed(c) \subseteq DOMAIN components}
      \union {code \in {"SYSTEM_DATA_OWNER_CONFLICT"} :
                \E s \in known : Cardinality(storeOwners(components, s)) > 1}
      \union {code \in {"SYSTEM_DATA_STORE_WITHOUT_OWNER"} : \E s \in known : storeOwners(components, s) = {}}

consumedOperations(component) == UNION {edge.operations : edge \in component.consumes}

unknownItem(system) ==
  \E c \in DOMAIN system.components :
    LET component == system.components[c]
    IN  \/ \E text \in component.implements \union consumedOperations(component) : ~ isOperation(system.domains, text)
        \/ \E text \in component.publishes \union component.subscribes : ~ isEvent(system.domains, text)

(* Faulty variant: any component may implement a consumed operation.       *)
operationWithoutProviderAnywhere(system) ==
  \E c \in DOMAIN system.components : \E edge \in system.components[c].consumes : \E text \in edge.operations :
    isOperation(system.domains, text) /\ \A p \in DOMAIN system.components : text \notin system.components[p].implements

operationWithoutProvider(system) ==
  \E c \in DOMAIN system.components : \E edge \in system.components[c].consumes : \E text \in edge.operations :
    /\ isOperation(system.domains, text)
    /\ edge.component \in DOMAIN system.components => text \notin system.components[edge.component].implements

(* Published: declared by a component, or emitted by an operation that a   *)
(* component implements.                                                   *)
published(system) ==
  UNION {{text \in component.publishes : isEvent(system.domains, text)}
         \union UNION {{<<text[1], e>> : e \in system.domains[pinned(system.domains, text[1])].emits[text[2]]}
                         : text \in {t \in component.implements : isOperation(system.domains, t)}}
           : component \in Range(system.components)}

eventWithoutProducer(system) ==
  \E c \in DOMAIN system.components : \E text \in system.components[c].subscribes :
    isEvent(system.domains, text) /\ text \notin published(system)

crossValidateSystemDefinition(system) ==
  LET allocated == UNION {component.requirements : component \in Range(system.components)}
      decided == UNION {component.decisions : component \in Range(system.components)}
  IN  {code \in {"SYSTEM_UNKNOWN_REQUIREMENT"} : ~ allocated \subseteq idSet(system.baseline.requirements)}
      \union {code \in {"SYSTEM_UNKNOWN_DECISION"} : ~ decided \subseteq idSet(system.decisions.decisions)}
      \union {code \in {"SYSTEM_UNKNOWN_DOMAIN_ITEM"} : unknownItem(system)}
      \union {code \in {"SYSTEM_OPERATION_WITHOUT_PROVIDER"} : operationWithoutProvider(system)}
      \union {code \in {"SYSTEM_EVENT_WITHOUT_PRODUCER"} : eventWithoutProducer(system)}
      \union {code \in {"SYSTEM_REQUIREMENT_UNCOVERED"} : ~ acceptedRequirements(system.baseline) \subseteq allocated}

unknownDesignContext(system) ==
  \E c \in DOMAIN system.components :
    LET experience == system.components[c].experience
    IN  experience # Null /\ experience.context \notin idSet(system.designs[experience.design].contexts)

systemDiagnostics(system) ==
  validateRequirementBaseline(system.baseline)
  \union validateDecisionSet(system.decisions)
  \union crossValidateDecisionSet(system.decisions, system.baseline)
  \union (UNION {validateDomainContract(domain) : domain \in Range(system.domains)})
  \union (UNION {validateDesignSystem(design) : design \in Range(system.designs)})
  \union validateSystemDefinition(system.components)
  \union {code \in {"SYSTEM_UNKNOWN_DESIGN_CONTEXT"} : unknownDesignContext(system)}
  \union crossValidateSystemDefinition(system)

SYSTEM_WARNINGS ==
  {"SYSTEM_DATA_STORE_WITHOUT_OWNER", "SYSTEM_REQUIREMENT_UNCOVERED",
   "REQUIREMENT_ACCEPTED_WITHOUT_CRITERIA", "DECISION_NO_ALTERNATIVE"}

-----------------------------------------------------------------------------
(* The bindings of the IR.                                                 *)

resolvedItems(domains, texts) == {resolveItem(domains, text) : text \in texts}

implementedBy(system, item) ==
  {c \in DOMAIN system.components : item \in resolvedItems(system.domains, system.components[c].implements)}

consumedBy(system, item) ==
  {c \in DOMAIN system.components : item \in resolvedItems(system.domains, consumedOperations(system.components[c]))}

emitters(domains, event) ==
  {item \in operationItems(domains) : item[1] = event[1] /\ event[2] \in domains[item[1]].emits[item[2]]}

(* Faulty variant: operations that emit an event do not publish it.        *)
publishedByDeclared(system, event) ==
  {c \in DOMAIN system.components : event \in resolvedItems(system.domains, system.components[c].publishes)}

publishedBy(system, event) ==
  {c \in DOMAIN system.components :
     \/ event \in resolvedItems(system.domains, system.components[c].publishes)
     \/ \E operation \in emitters(system.domains, event) : c \in implementedBy(system, operation)}

unsupportedIntent(system) ==
  {<<item, "IR_OPERATION_UNIMPLEMENTED">> :
     item \in {i \in operationItems(system.domains) : implementedBy(system, i) = {}}}
  \union {<<item, "IR_EVENT_UNPUBLISHED">> :
            item \in {i \in eventItems(system.domains) : publishedBy(system, i) = {}}}
  \union UNION {{<<<<k, facet>>, "IR_FACET_NOT_INTERPRETED">> : facet \in system.domains[k].facets}
                  : k \in DOMAIN system.domains}

(* One contract per domain and component that implements some of it.       *)
projectApiContract(system, k, provider) ==
  LET operations == {item \in operationItems(system.domains) : item[1] = k /\ provider \in implementedBy(system, item)}
  IN  [domain |-> k, provider |-> provider, operations |-> operations,
       consumers |-> (UNION {consumedBy(system, item) : item \in operations}) \ {provider}]

projectApiContracts(system) ==
  {contract \in {projectApiContract(system, k, c) : k \in DOMAIN system.domains, c \in DOMAIN system.components} :
     contract.operations # {}}

=============================================================================
