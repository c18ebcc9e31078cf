----------------------------- MODULE ContractSet -----------------------------
(***************************************************************************)
(* A closed set of contract revisions and what the kernel tells of it:     *)
(* authority.ts, registry.ts, identity.ts, contract-set.ts and             *)
(* evidence-record.ts of kernel/contracts, and the choice of the           *)
(* definition in force and its closure (facade.ts, closure.ts of           *)
(* kernel/compiler).                                                       *)
(*                                                                         *)
(* A document is a record.  `links` are the references of its spec, each   *)
(* with the role it plays there; `supersedes` stands for the references of *)
(* its metadata.  The content of a document stands for its digest, so that *)
(* equal digests are equal contents.  `component` and `compilation` are    *)
(* Null but for the records of engine/materializer.                        *)
(***************************************************************************)
EXTENDS KernelValues, FiniteSets, FiniteSetsExt

DECIDED_KINDS == {"RequirementBaseline", "DecisionSet", "SystemDefinition", "DomainContract", "DesignSystem"}
RECORD_KINDS == {"EvidenceRecord", "MaterializationRecord"}

(* The kind a role expects; Null: any.                                     *)
expectedKind ==
  [requirementBaseline |-> "RequirementBaseline", decisionSet |-> "DecisionSet",
   organizationContext |-> "EffectiveOrganizationContext", domainContract |-> "DomainContract",
   designSystem |-> "DesignSystem", materialized |-> "SystemDefinition",
   subject |-> Null, input |-> Null]

(* The roles whose contract an accepted dependent relies on.               *)
RELIED_ROLES == {"requirementBaseline", "decisionSet", "organizationContext", "domainContract", "designSystem"}

inForceStatus(kind) ==
  CASE kind \in DECIDED_KINDS -> "ACCEPTED"
    [] kind = "EffectiveOrganizationContext" -> "CURRENT"
    [] kind \in RECORD_KINDS -> "VALID"

(* Faulty variant: only a revision in force may be relied on.              *)
reliableStatusesInForce(kind) == {inForceStatus(kind)}

reliableStatuses(kind) ==
  {inForceStatus(kind)}
  \union (IF kind \in DECIDED_KINDS \union {"MaterializationRecord"} THEN {"SUPERSEDED"} ELSE {})

isInForce(d) == d.status = inForceStatus(d.kind)

-----------------------------------------------------------------------------
(* Identity (identity.ts, refs.ts).                                        *)

key(d) == <<d.kind, d.id, d.revision>>

(* Faulty variant: the lifecycle status is part of the digest.             *)
contentOfAll(d) == d

contentOf(d) == [d EXCEPT !.status = Null]

pinnedRef(d) == [kind |-> d.kind, id |-> d.id, revision |-> d.revision, digest |-> contentOf(d)]

specRefs(d) == {link.ref : link \in d.links}

collectRefs(d) == specRefs(d) \union (IF d.supersedes = Null THEN {} ELSE {d.supersedes})

(* indexContracts: the revision a reference names, if the set has it, and  *)
(* the greatest revision in force, 0 when there is none.                   *)
has(docs, ref) == \E d \in docs : key(d) = key(ref)
get(docs, ref) == IF has(docs, ref) THEN CHOOSE d \in docs : key(d) = key(ref) ELSE Null

inForceRevision(docs, kind, id) ==
  Max({0} \union {d.revision : d \in {e \in docs : e.kind = kind /\ e.id = id /\ isInForce(e)}})

-----------------------------------------------------------------------------
(* One document (validate.ts, authority.ts).                               *)

DECIDED == [ACCEPTED |-> "ACCEPTED", REJECTED |-> "REJECTED"]
UNDECIDED == {"DRAFT", "PROPOSED", "WITHDRAWN"}

decideActor(acceptance) ==
  CASE acceptance.actor = "HUMAN" -> {}
    [] acceptance.actor = "SYSTEM" ->
         IF acceptance.policy THEN {} ELSE {"AUTHORITY_SYSTEM_DECISION_WITHOUT_POLICY"}
    [] acceptance.actor = "AI_AGENT" -> {"AUTHORITY_AI_CANNOT_DECIDE"}
    [] OTHER -> {"AUTHORITY_ACTOR_CANNOT_DECIDE"}

authoritative(d) ==
  {c \in {"AUTHORITY_ACCEPTANCE_MISSING"} : d.status \in DOMAIN DECIDED /\ d.acceptance = Null}
  \union
  {c \in {"AUTHORITY_ACCEPTANCE_INCONSISTENT"} :
     /\ d.acceptance # Null
     /\ \/ d.status \in DOMAIN DECIDED /\ d.acceptance.decision # DECIDED[d.status]
        \/ d.status \in UNDECIDED}
  \union (IF d.acceptance = Null THEN {} ELSE decideActor(d.acceptance))

derived(d) ==
  {c \in {"AUTHORITY_DERIVED_NOT_COMPILED"} : d.actor # "COMPILER"}
  \union {c \in {"AUTHORITY_ACCEPTANCE_INCONSISTENT"} : d.acceptance # Null}

(* Evidence is that of an automated check: a HUMAN_REVIEW is not modelled. *)
verifyActor(actor) ==
  CASE actor = "CHECKER" -> {}
    [] actor = "AI_AGENT" -> {"AUTHORITY_AI_CANNOT_VERIFY"}
    [] OTHER -> {"AUTHORITY_ACTOR_CANNOT_VERIFY"}

applyActor(actor) ==
  CASE actor = "COMPILER" -> {}
    [] actor = "AI_AGENT" -> {"AUTHORITY_AI_CANNOT_APPLY"}
    [] OTHER -> {"AUTHORITY_ACTOR_CANNOT_APPLY"}

record(d) ==
  (IF d.kind = "MaterializationRecord" THEN applyActor(d.actor) ELSE verifyActor(d.actor))
  \union {c \in {"AUTHORITY_ACCEPTANCE_INCONSISTENT"} : d.acceptance # Null}

authorityDiagnostics(d) ==
  CASE d.kind \in DECIDED_KINDS -> authoritative(d)
    [] d.kind = "EffectiveOrganizationContext" -> derived(d)
    [] d.kind \in RECORD_KINDS -> record(d)

validateContract(d) ==
  {c \in {"CONTRACT_INVALID_SUPERSESSION"} :
     /\ d.supersedes # Null
     /\ \/ <<d.supersedes.kind, d.supersedes.id>> # <<d.kind, d.id>>
        \/ d.supersedes.revision >= d.revision}
  \union authorityDiagnostics(d)

-----------------------------------------------------------------------------
(* The set (contract-set.ts).  A diagnostic is a code and the document it  *)
(* is about.                                                               *)

refDiagnostics(docs, d) ==
  {<<IF has(docs, ref) THEN "REF_DIGEST_MISMATCH" ELSE "REF_UNRESOLVED", key(d)>> :
     ref \in {r \in collectRefs(d) : has(docs, r) => contentOf(get(docs, r)) # r.digest}}

(* Faulty variant: whatever was not rejected may be relied on.             *)
requireReliableUnlessRejected(dependent, dependency) ==
  dependent.status = "ACCEPTED" => dependency.status # "REJECTED"

requireReliable(dependent, dependency) ==
  dependent.status = "ACCEPTED" => dependency.status \in reliableStatuses(dependency.kind)

(* Faulty variant: a record speaks about its subject only.                 *)
newestCitedSubject(e) == {link.ref : link \in {l \in e.links : l.role = "subject"}}

newestCited(e) ==
  {r \in specRefs(e) : \A s \in specRefs(e) : s.kind = r.kind /\ s.id = r.id => r.revision >= s.revision}

evidenceStaleness(docs, e) ==
  {r \in newestCited(e) : inForceRevision(docs, r.kind, r.id) > r.revision}

isLatest(docs, d) ==
  \A e \in docs : e.kind = d.kind /\ e.id = d.id => e.revision <= d.revision

(* What a document says of the contracts it names.  Of the rules about     *)
(* items only those about components are kept; Change Requests are left    *)
(* out.                                                                    *)
crossValidate(docs, d) ==
  LET mismatched == {l \in d.links : expectedKind[l.role] \notin {Null, l.ref.kind}}
      found == {l \in d.links \ mismatched : has(docs, l.ref)}
  IN  {<<"REF_KIND_MISMATCH", key(d)>> : l \in mismatched}
      \union
      {<<"REF_NOT_ACCEPTED", key(d)>> :
         l \in {m \in found : m.role \in RELIED_ROLES /\ ~ requireReliable(d, get(docs, m.ref))}}
      \union
      {<<"REF_ITEM_UNRESOLVED", key(d)>> :
         l \in {m \in found : /\ m.role \in {"subject", "materialized"}
                              /\ d.component \notin {Null} \union get(docs, m.ref).items}}
      \union
      {<<"EVIDENCE_STALE", key(d)>> :
         r \in IF d.kind = "EvidenceRecord" /\ d.status = "VALID" /\ isLatest(docs, d)
               THEN evidenceStaleness(docs, d) ELSE {}}

systemsOf(docs) == {d.system : d \in docs} \ {Null}

(* Of two documents with one key the second is reported and left out; the  *)
(* set is invalid whichever it is.                                         *)
validateContractSet(docs) ==
  (UNION {{<<c, key(d)>> : c \in validateContract(d)} \union refDiagnostics(docs, d) \union crossValidate(docs, d)
            : d \in docs})
  \union {<<"REF_DUPLICATE_CONTRACT", key(d)>> :
            d \in {e \in docs : \E f \in docs : f # e /\ key(f) = key(e)}}
  \union (IF Cardinality(systemsOf(docs)) > 1 THEN {<<"REF_SYSTEM_MISMATCH", key(d)>> : d \in docs} ELSE {})

WARNINGS == {"EVIDENCE_STALE"}
errors(diagnostics) == {d \in diagnostics : d[1] \notin WARNINGS}
valid(docs) == errors(validateContractSet(docs)) = {}

-----------------------------------------------------------------------------
(* What is compiled (facade.ts, closure.ts).                               *)

selectDefinition(docs, wanted) ==
  {d \in docs : /\ d.kind = "SystemDefinition" /\ d.id = wanted
                /\ d.revision = inForceRevision(docs, "SystemDefinition", wanted)}

(* The documents reached from the definition through references of specs.  *)
closureDocuments(docs, definition) ==
  LET step[n \in Nat] ==
        IF n = 0 THEN {definition}
        ELSE LET reached == step[n - 1]
             IN  reached \union {get(docs, r) : r \in UNION {specRefs(d) : d \in reached}}
  IN  step[Cardinality(docs)] \ {definition}

buildClosure(docs, definition, catalog) ==
  [definition |-> pinnedRef(definition),
   entries |-> {pinnedRef(d) : d \in closureDocuments(docs, definition)},
   catalog |-> catalog]

(* compile: the closure of a valid set, Null when the result is INVALID.   *)
(* The IR, the resolution and the plan are functions of what the closure   *)
(* pins: its digest stands for theirs.                                     *)
compile(docs, wanted, catalog) ==
  IF valid(docs) /\ selectDefinition(docs, wanted) # {}
  THEN buildClosure(docs, CHOOSE d \in selectDefinition(docs, wanted) : TRUE, catalog)
  ELSE Null

=============================================================================
