----------------------------- MODULE ProofChain -----------------------------
(***************************************************************************)
(* The life of a set of contracts: people propose, decide and supersede    *)
(* revisions; `materialize` records what it applied, `verify` what it      *)
(* checked; `export` bundles it all (proof-chain.ts of kernel/compiler)    *)
(* and `verify-bundle` reads the bundle.                                   *)
(*                                                                         *)
(* Invocations are whole here: one component is materialized or not, its   *)
(* record and the one it supersedes change together (Materializer shows    *)
(* what happens in between).  A bundle is self-contained and export        *)
(* changes nothing else, so that nothing follows an export.                *)
(***************************************************************************)
EXTENDS ContractSet

CONSTANTS
  Template,             (* by id of contract: kind, system, items, and the *)
                        (* id its spec refers to in each role              *)
  Definition,           (* the id of the system definition                 *)
  Catalog,              (* the extension catalogs an invocation may have   *)
  Acceptor,             (* who states decisions: an actor, and whether     *)
                        (* under an approval policy                        *)
  MaxRevision,          (* bound on the revisions of a contract            *)
  MaxRecords,           (* bound on the materializations of a component    *)
  MaxMoves              (* bound on what people do to the documents        *)

ASSUME BoundsAssumption ==
  /\ Definition \in DOMAIN Template
  /\ \A by \in Acceptor : by = [actor |-> by.actor, policy |-> by.policy] /\ by.policy \in BOOLEAN
  /\ MaxRevision \in Nat /\ MaxRecords \in Nat /\ MaxMoves \in Nat

(* A contract names others in the roles it relies on.  A reference pins a  *)
(* digest, so that the first revisions cannot name each other in a circle. *)
ASSUME TemplateAssumption ==
  /\ IsFiniteSet(DOMAIN Template) /\ IsFiniteSet(Template[Definition].items)
  /\ \A id \in DOMAIN Template :
       /\ Template[id].kind \in DECIDED_KINDS \union {"EffectiveOrganizationContext"}
       /\ \A role \in DOMAIN Template[id].inputs :
            role \in RELIED_ROLES /\ Template[id].inputs[role] \in DOMAIN Template
  /\ \E rank \in [DOMAIN Template -> 0 .. Cardinality(DOMAIN Template)] :
       \A id \in DOMAIN Template : \A role \in DOMAIN Template[id].inputs :
         rank[Template[id].inputs[role]] < rank[id]

ASSUME NullAssumption ==
  Null \notin [decision : {"ACCEPTED", "REJECTED"},
              actor : {by.actor : by \in Acceptor} \union {"HUMAN"}, policy : BOOLEAN]

VARIABLES
  documents,   (* the contracts of the repository                          *)
  records,     (* MaterializationRecords of the workspace                  *)
  evidence,    (* EvidenceRecords of the evidence directory                *)
  bundle,      (* what was exported, Null before                           *)
  moves

vars == <<documents, records, evidence, bundle, moves>>

-----------------------------------------------------------------------------
(* People and their tools write documents.                                 *)

contract(id, revision, status, acceptance, actor, supersedes, links) ==
  [kind |-> Template[id].kind, id |-> id, revision |-> revision, status |-> status,
   acceptance |-> acceptance, actor |-> actor, supersedes |-> supersedes, system |-> Template[id].system,
   items |-> Template[id].items, links |-> links, component |-> Null, compilation |-> Null]

revisionsOf(id) == {d \in documents : d.id = id}
latestOf(id) == CHOOSE d \in revisionsOf(id) : \A e \in revisionsOf(id) : e.revision <= d.revision
isDerived(id) == Template[id].kind = "EffectiveOrganizationContext"
acceptedBy(by) == [decision |-> "ACCEPTED", actor |-> by.actor, policy |-> by.policy]

(* References to any revisions of the contracts the template names.        *)
linkings(id) ==
  {links \in SUBSET UNION {{[role |-> role, ref |-> pinnedRef(d)] : d \in revisionsOf(Template[id].inputs[role])}
                             : role \in DOMAIN Template[id].inputs} :
     \A role \in DOMAIN Template[id].inputs : \E l \in links : {m \in links : m.role = role} = {l}}

(* A change of a document is kept when the set it gives validates.         *)
Commit(docs) ==
  /\ bundle = Null
  /\ moves < MaxMoves /\ moves' = moves + 1
  /\ valid(docs)
  /\ documents' = docs
  /\ UNCHANGED <<records, evidence, bundle>>

(* A first revision is there; another one names the one before it.  A      *)
(* proposal nobody decided on is rewritten in place.                       *)
Propose(id) ==
  /\ ~ isDerived(id)
  /\ \E links \in linkings(id) :
       LET last == latestOf(id)
       IN  IF last.status = "PROPOSED"
           THEN Commit((documents \ {last}) \union {[last EXCEPT !.links = links]})
           ELSE /\ last.revision < MaxRevision
                /\ Commit(documents \union
                     {contract(id, last.revision + 1, "PROPOSED", Null, "HUMAN", pinnedRef(last), links)})

(* Acceptance is content: whoever pinned the proposal pins it no more.     *)
Decide(d, decision, by) ==
  /\ d.kind \in DECIDED_KINDS /\ d.status = "PROPOSED"
  /\ Commit((documents \ {d}) \union
       {[d EXCEPT !.status = decision,
                  !.acceptance = [acceptedBy(by) EXCEPT !.decision = decision]]})

(* The organization context is derived again.                              *)
Derive(id) ==
  /\ isDerived(id)
  /\ latestOf(id).revision < MaxRevision
  /\ Commit(documents \union
       {contract(id, latestOf(id).revision + 1, "CURRENT", Null, "COMPILER", pinnedRef(latestOf(id)), {})})

(* The status of a revision moves on, whatever becomes of the set: no rule *)
(* says which status SUPERSEDED may follow.                                *)
Retire(d) ==
  /\ bundle = Null
  /\ moves < MaxMoves /\ moves' = moves + 1
  /\ documents' = (documents \ {d}) \union {[d EXCEPT !.status = IF isDerived(d.id) THEN "STALE" ELSE "SUPERSEDED"]}
  /\ UNCHANGED <<records, evidence, bundle>>

Supersede(d) ==
  /\ d.kind \in DECIDED_KINDS
  /\ d.status \in {"PROPOSED", "ACCEPTED", "REJECTED"}
  /\ Retire(d)

BecomesStale(d) == isDerived(d.id) /\ d.status = "CURRENT" /\ Retire(d)

-----------------------------------------------------------------------------
(* materialize and verify.                                                 *)

recordsOf(component) == {r \in records : r.component = component}
latestRecord(component) == CHOOSE r \in recordsOf(component) : \A s \in recordsOf(component) : s.revision <= r.revision

(* One id per component and kind: the component's stands for it.           *)
recordOf(kind, component, revision, actor, supersedes, links, compilation) ==
  [kind |-> kind, id |-> component, revision |-> revision, status |-> "VALID", acceptance |-> Null,
   actor |-> actor, supersedes |-> supersedes, system |-> Template[Definition].system, items |-> {},
   links |-> links, component |-> component, compilation |-> compilation]

materializationRecord(component, closure) ==
  LET isFirst == recordsOf(component) = {}
      previous == latestRecord(component)
  IN  recordOf("MaterializationRecord", component,
               IF isFirst THEN 1 ELSE previous.revision + 1, "COMPILER",
               IF isFirst THEN Null ELSE pinnedRef(previous),
               {[role |-> "materialized", ref |-> closure.definition]}, closure)

(* Faulty variant: the previous record stays VALID.                        *)
supersededNever(r) == r

superseded(r) == [r EXCEPT !.status = "SUPERSEDED"]

(* Of the components of the definition, those that are applied; the others *)
(* conflict, are rejected or have no adapter.                              *)
Materialize(catalog, applied) ==
  LET closure == compile(documents, Definition, catalog)
      previous == {latestRecord(c) : c \in {x \in applied : recordsOf(x) # {}}}
  IN  /\ bundle = Null
      /\ closure # Null
      /\ applied # {} /\ applied \subseteq closure.definition.digest.items
      /\ \A c \in applied : Cardinality(recordsOf(c)) < MaxRecords
      /\ records' = (records \ previous) \union {superseded(r) : r \in previous}
                    \union {materializationRecord(c, closure) : c \in applied}
      /\ UNCHANGED <<documents, evidence, bundle, moves>>

evidenceOf(r) ==
  recordOf("EvidenceRecord", r.component, 1, "CHECKER", Null,
           {[role |-> "subject", ref |-> l.ref] : l \in r.links} \union {[role |-> "input", ref |-> pinnedRef(r)]},
           Null)

(* The evidence of a verified component replaces its earlier evidence.     *)
Verify(verified) ==
  /\ bundle = Null
  /\ verified # {}
  /\ \A c \in verified : recordsOf(c) # {}
  /\ evidence' = {e \in evidence : e.component \notin verified} \union {evidenceOf(latestRecord(c)) : c \in verified}
  /\ UNCHANGED <<documents, records, bundle, moves>>

-----------------------------------------------------------------------------
(* export and verify-bundle.                                               *)

(* Faulty variant: the revisions that only metadata names are left out.    *)
referenceClosureOfSpecs(roots, available) ==
  LET step[n \in Nat] ==
        IF n = 0 THEN roots
        ELSE LET reached == step[n - 1]
                 named == UNION {specRefs(d) : d \in reached}
             IN  reached \union {get(available, r) : r \in {s \in named : has(available, s)}}
  IN  step[Cardinality(available)]

referenceClosure(roots, available) ==
  LET step[n \in Nat] ==
        IF n = 0 THEN roots
        ELSE LET reached == step[n - 1]
                 named == UNION {collectRefs(d) : d \in reached}
             IN  reached \union {get(available, r) : r \in {s \in named : has(available, s)}}
  IN  step[Cardinality(available)]

exportProofChain(catalog) ==
  LET closure == compile(documents, Definition, catalog)
  IN  IF closure = Null THEN Null
      ELSE [definition |-> closure.definition, catalog |-> catalog, compilation |-> closure,
            contracts |-> {d \in referenceClosure({get(documents, closure.definition)} \union records \union evidence,
                                                  documents \union records \union evidence) :
                             d.kind \notin RECORD_KINDS},
            materializations |-> records, evidence |-> evidence]

Export(catalog) ==
  /\ bundle = Null
  /\ bundle' = exportProofChain(catalog)
  /\ bundle' # Null
  /\ UNCHANGED <<documents, records, evidence, moves>>

bundled(b) == b.contracts \union b.materializations \union b.evidence

describes(r, b) ==
  r.compilation = b.compilation /\ \A l \in r.links : l.ref.digest = b.definition.digest

proofDiagnostics(b) ==
  {c \in {"PROOF_REPLAY_MISMATCH"} : compile(b.contracts, b.definition.id, b.catalog) # b.compilation}
  \union {"PROOF_RECORD_MISMATCH" : r \in {s \in b.materializations : s.status = "VALID" /\ ~ describes(s, b)}}
  \union {"PROOF_EVIDENCE_UNLINKED" :
            e \in {f \in b.evidence : ~ \E l \in f.links : \E r \in b.materializations :
                                           l.role = "input" /\ key(l.ref) = key(r)}}

verifyProofChain(b) == errors(validateContractSet(bundled(b))) = {} /\ proofDiagnostics(b) = {}

-----------------------------------------------------------------------------
(* The first revisions are accepted, or current when they are derived.     *)
first[id \in DOMAIN Template] ==
  IF isDerived(id) THEN contract(id, 1, "CURRENT", Null, "COMPILER", Null, {})
  ELSE contract(id, 1, "ACCEPTED", acceptedBy([actor |-> "HUMAN", policy |-> FALSE]), "HUMAN", Null,
                {[role |-> role, ref |-> pinnedRef(first[Template[id].inputs[role]])]
                   : role \in DOMAIN Template[id].inputs})

Init ==
  /\ documents = {first[id] : id \in DOMAIN Template}
  /\ records = {} /\ evidence = {} /\ bundle = Null /\ moves = 0

Next ==
  \/ \E id \in DOMAIN Template : Propose(id) \/ Derive(id)
  \/ \E d \in documents : Supersede(d) \/ BecomesStale(d)
  \/ \E d \in documents, decision \in {"ACCEPTED", "REJECTED"}, by \in Acceptor : Decide(d, decision, by)
  \/ \E applied \in SUBSET Template[Definition].items :
       Verify(applied) \/ \E catalog \in Catalog : Materialize(catalog, applied)
  \/ \E catalog \in Catalog : Export(catalog)

Spec == Init /\ [][Next]_vars

-----------------------------------------------------------------------------
(* Properties.                                                             *)

(* A revision, a record and the evidence of a component exist once; the    *)
(* valid record of a component is its latest one, and every other one is   *)
(* named by the next (materializationRecord, verify.ts `evidence`).        *)
PTypeOK ==
  /\ moves \in 0 .. MaxMoves
  /\ \A d, e \in documents \union records \union evidence : key(d) = key(e) => d = e
  /\ \A r \in records :
       /\ (r.status = "VALID") = (r = latestRecord(r.component))
       /\ r.status = "SUPERSEDED" =>
            \E s \in recordsOf(r.component) : s.supersedes = pinnedRef(r) /\ s.revision = r.revision + 1
  /\ bundle # Null => bundle.definition.id = Definition

(* An acceptance by someone who may decide (authority.ts, decideActor).    *)
isDecided(content) ==
  /\ content.acceptance # Null /\ content.acceptance.decision = "ACCEPTED"
  /\ content.acceptance.actor = "HUMAN" \/ (content.acceptance.actor = "SYSTEM" /\ content.acceptance.policy)

compilations == {r.compilation : r \in records} \union (IF bundle = Null THEN {} ELSE {bundle.compilation})

undecidedPins(closure) ==
  {ref \in {closure.definition} \union closure.entries : ref.kind \in DECIDED_KINDS /\ ~ isDecided(ref.digest)}

(* What was compiled, materialized and exported rests on decisions: each   *)
(* authoritative contract it pins was accepted, by someone who may decide. *)
CompiledIsDecided == \A closure \in compilations : undecidedPins(closure) = {}

(* The only way for a content that nobody accepted into a compilation is a *)
(* revision that was superseded without a decision: the definition is      *)
(* decided, and an undecided contract it pins is such a revision or named  *)
(* by one, whatever was proposed, decided and superseded when              *)
(* (authority.ts, requireReliable, selectDefinition).                      *)
UndecidedWasSuperseded ==
  \A closure \in compilations :
    /\ closure.definition \notin undecidedPins(closure)
    /\ \A ref \in undecidedPins(closure) :
         \/ \E d \in documents : pinnedRef(d) = ref /\ d.status = "SUPERSEDED"
         \/ \E other \in undecidedPins(closure) : ref \in specRefs(other.digest)

(* A bundle that was exported verifies, unless a component was last        *)
(* materialized from another compilation: the bundled part of the          *)
(* repository is closed, valid and replays to the same digests             *)
(* (exportProofChain against verifyProofChain).                            *)
ExportVerifies ==
  bundle # Null =>
    (verifyProofChain(bundle) = \A r \in records : r.status = "VALID" => describes(r, bundle))

(* In a bundle that verifies, evidence is reported stale or it checked     *)
(* what the bundle is about: the record in force, made from the bundled    *)
(* compilation of the bundled definition (evidenceStaleness,               *)
(* verifyProofChain).                                                      *)
EvidenceIsAboutThis ==
  bundle # Null /\ verifyProofChain(bundle) =>
    \A e \in bundle.evidence :
      \/ <<"EVIDENCE_STALE", key(e)>> \in validateContractSet(bundled(bundle))
      \/ /\ newestCitedSubject(e) = {bundle.definition}
         /\ \E r \in bundle.materializations :
              /\ [role |-> "input", ref |-> pinnedRef(r)] \in e.links
              /\ r.component = e.component /\ r.status = "VALID" /\ r.compilation = bundle.compilation

(* A lifecycle change is not an edit: superseding a revision makes no      *)
(* valid set invalid and leaves what the definition in force compiles to   *)
(* as it is (contentOf, reliable statuses).                                *)
LifecycleIsNotContent ==
  [][\A d \in documents : Supersede(d) /\ valid(documents) =>
       /\ valid(documents')
       /\ \A catalog \in Catalog :
            ~ (d.id = Definition /\ d.status = "ACCEPTED") =>
              compile(documents', Definition, catalog) = compile(documents, Definition, catalog)]_vars

-----------------------------------------------------------------------------
(* The inductive invariants behind the theorems of ProofChainProofs.       *)

(* A document has the fields of a contract.                                *)
isContract(d) ==
  d = [kind |-> d.kind, id |-> d.id, revision |-> d.revision, status |-> d.status,
       acceptance |-> d.acceptance, actor |-> d.actor, supersedes |-> d.supersedes, system |-> d.system,
       items |-> d.items, links |-> d.links, component |-> d.component, compilation |-> d.compilation]

isReference(ref) ==
  ref = [kind |-> ref.kind, id |-> ref.id, revision |-> ref.revision, digest |-> ref.digest]

(* Every document is a revision of a contract of the template, named by    *)
(* its key, and every contract has one.                                    *)
isRevision(d) ==
  /\ isContract(d)
  /\ d.id \in DOMAIN Template /\ d.kind = Template[d.id].kind /\ d.system = Template[d.id].system
  /\ d.revision \in 1 .. MaxRevision + 1
  /\ d.kind \in DECIDED_KINDS => d.status \in {"PROPOSED", "ACCEPTED", "REJECTED", "SUPERSEDED"}
  /\ isDerived(d.id) => d.links = {}
  /\ \A l \in d.links : l.role \in RELIED_ROLES /\ isReference(l.ref)

DocumentsOK ==
  /\ \A d \in documents : isRevision(d)
  /\ \A d, e \in documents : key(d) = key(e) => d = e
  /\ \A id \in DOMAIN Template : revisionsOf(id) # {}

(* A contract in force was accepted by someone who may decide; one that    *)
(* was so accepted is in force or superseded, and still rests on the       *)
(* contents it named, none of them undecided but a superseded one.         *)
wasInForce(d) == d.kind \in DECIDED_KINDS => d.status \in {"ACCEPTED", "SUPERSEDED"}

restsOn(docs, l) ==
  \E e \in docs : key(e) = key(l.ref) /\ contentOf(e) = l.ref.digest /\ wasInForce(e)

Settled(docs, d) ==
  d.kind \in DECIDED_KINDS =>
    /\ d.status = "ACCEPTED" => isDecided(d)
    /\ isDecided(d) => wasInForce(d) /\ \A l \in d.links : restsOn(docs, l)

DecisionsSettled == \A d \in documents : Settled(documents, d)

(* The materializations of a component: the last one is VALID, and every   *)
(* other one is superseded by the one that follows it, and by no other.    *)
isHistory(rs) ==
  /\ \E last \in rs :
       /\ last.status = "VALID"
       /\ \A r \in rs \ {last} :
            /\ r.status = "SUPERSEDED" /\ r.revision < last.revision
            /\ \E s \in rs : s.supersedes = pinnedRef(r) /\ s.revision = r.revision + 1
  /\ \A r, s \in rs : r.revision = s.revision => r = s
  /\ \A r \in rs : r.supersedes # Null => \E s \in rs : r.supersedes = pinnedRef(s) /\ s.revision < r.revision

(* A record names the definition it was compiled from, which is still      *)
(* there, and a component of it.                                           *)
materialized(r) == [role |-> "materialized", ref |-> r.compilation.definition]

isRecord(r) ==
  /\ isContract(r) /\ r.kind = "MaterializationRecord" /\ r.id = r.component /\ r.revision \in Nat
  /\ r.actor = "COMPILER" /\ r.acceptance = Null /\ r.system = Template[Definition].system
  /\ r.links = {materialized(r)}
  /\ r.compilation.definition.kind = "SystemDefinition" /\ r.component \in r.compilation.definition.digest.items

RecordsOK ==
  \A r \in records : isRecord(r) /\ restsOn(documents, materialized(r)) /\ isHistory(recordsOf(r.component))

(* A component has one evidence, of the last check of it, which cites the  *)
(* record it checked and the definition of that record.                    *)
checks(e, r) ==
  e.links = {[role |-> "subject", ref |-> materialized(r).ref], [role |-> "input", ref |-> pinnedRef(r)]}

isEvidence(e) ==
  /\ isContract(e) /\ e.kind = "EvidenceRecord" /\ e.id = e.component /\ e.revision = 1 /\ e.status = "VALID"
  /\ e.actor = "CHECKER" /\ e.acceptance = Null /\ e.supersedes = Null
  /\ e.system = Template[Definition].system

EvidenceOK ==
  /\ \A e \in evidence : isEvidence(e) /\ \E r \in recordsOf(e.component) : checks(e, r)
  /\ \A e, f \in evidence : e.component = f.component => e = f

(* The bundle is what would be exported again.                             *)
BundleOK == bundle # Null => \E catalog \in Catalog : bundle = exportProofChain(catalog)

PCInv ==
  /\ moves \in 0 .. MaxMoves
  /\ IsFiniteSet(documents) /\ IsFiniteSet(records) /\ IsFiniteSet(evidence)
  /\ DocumentsOK
  /\ RecordsOK /\ EvidenceOK /\ BundleOK

=============================================================================
