-------------------------- MODULE ProofChainProofs --------------------------
(***************************************************************************)
(* What the life of a set of contracts guarantees, for every template of   *)
(* contracts and every bound of ProofChain: nothing undecided is compiled  *)
(* but what was superseded, and records are the revisions of their         *)
(* component.                                                              *)
(***************************************************************************)
EXTENDS ProofChain, Induction, FiniteSetTheorems

(***************************************************************************)
(* The first revisions.                                                    *)
(***************************************************************************)

(* Who accepts the first revisions.                                        *)
author == [actor |-> "HUMAN", policy |-> FALSE]

(* What the first revision of a contract is, given those it names.         *)
firstOf(f, id) ==
  IF isDerived(id) THEN contract(id, 1, "CURRENT", Null, "COMPILER", Null, {})
  ELSE contract(id, 1, "ACCEPTED", acceptedBy(author), "HUMAN", Null,
                {[role |-> role, ref |-> pinnedRef(f[Template[id].inputs[role]])]
                   : role \in DOMAIN Template[id].inputs})

(* It depends on those it names only.                                      *)
LEMMA FirstDepends ==
  ASSUME NEW f, NEW g, NEW id,
         \A role \in DOMAIN Template[id].inputs :
           f[Template[id].inputs[role]] = g[Template[id].inputs[role]]
  PROVE  firstOf(f, id) = firstOf(g, id)
BY DEF firstOf

(* `first` is well defined: a contract comes after those it names.         *)
LEMMA FirstExists ==
  \E f : f = [id \in DOMAIN Template |-> firstOf(f, id)]
<1>1. PICK rank \in [DOMAIN Template -> 0 .. Cardinality(DOMAIN Template)] :
        \A id \in DOMAIN Template : \A role \in DOMAIN Template[id].inputs :
          rank[Template[id].inputs[role]] < rank[id]
  BY TemplateAssumption
<1>2. PICK top : top = Cardinality(DOMAIN Template)
  OBVIOUS
<1> DEFINE Solves(f, n) == \A id \in DOMAIN Template : rank[id] < n => f[id] = firstOf(f, id)
           S == {n \in Nat : \E f : f = [id \in DOMAIN Template |-> f[id]] /\ Solves(f, n)}
<1>3. \A id \in DOMAIN Template : rank[id] \in Nat
  BY <1>1
<1>4. 0 \in S
  <2>1. \E f : f = [id \in DOMAIN Template |-> f[id]] /\ Solves(f, 0)
    <3> DEFINE f == [id \in DOMAIN Template |-> Null]
    <3>1. f = [id \in DOMAIN Template |-> f[id]] /\ Solves(f, 0)
      BY <1>3
    <3> QED
      BY <3>1
  <2> QED
    BY <2>1
<1>5. ASSUME NEW n \in Nat, n \in S PROVE n + 1 \in S
  <2>1. PICK f : f = [id \in DOMAIN Template |-> f[id]] /\ Solves(f, n)
    BY <1>5
  <2>2. PICK g : g = [id \in DOMAIN Template |-> firstOf(f, id)]
    OBVIOUS
  <2>3. ASSUME NEW id \in DOMAIN Template, rank[id] < n + 1 PROVE g[id] = firstOf(g, id)
    <3>1. ASSUME NEW role \in DOMAIN Template[id].inputs
          PROVE  g[Template[id].inputs[role]] = f[Template[id].inputs[role]]
      <4>1. Template[id].inputs[role] \in DOMAIN Template
        BY TemplateAssumption
      <4>2. rank[Template[id].inputs[role]] < n
        BY <1>1, <1>3, <2>3, <4>1
      <4> QED
        BY <2>1, <2>2, <4>1, <4>2
    <3> QED
      BY <2>2, <3>1, FirstDepends
  <2>4. g = [id \in DOMAIN Template |-> g[id]] /\ Solves(g, n + 1)
    BY <2>2, <2>3
  <2> HIDE DEF Solves
  <2> QED
    BY <2>4
<1>6. Nat \subseteq S
  <2> HIDE DEF S
  <2> QED
    BY <1>4, <1>5, SetInduction
<1>7. ASSUME \E n \in Nat : \A id \in DOMAIN Template : rank[id] < n
      PROVE  \E f : f = [id \in DOMAIN Template |-> firstOf(f, id)]
  <2>1. PICK n \in Nat : \A id \in DOMAIN Template : rank[id] < n
    BY <1>7
  <2>2. PICK f : f = [id \in DOMAIN Template |-> f[id]] /\ Solves(f, n)
    BY <1>6
  <2>3. \A id \in DOMAIN Template : f[id] = firstOf(f, id)
    BY <2>1, <2>2
  <2>4. f = [id \in DOMAIN Template |-> firstOf(f, id)]
    BY <2>2, <2>3
  <2> QED
    BY <2>4
<1>8. top \in Nat /\ \A id \in DOMAIN Template : rank[id] < top + 1
  <2>1. top \in Nat
    BY <1>2, TemplateAssumption, FS_CardinalityType
  <2> QED
    BY <1>1, <1>2, <2>1
<1> QED
  BY <1>7, <1>8

(* So that it is what its definition says.                                 *)
LEMMA FirstIs == \A id \in DOMAIN Template : first[id] = firstOf(first, id)
<1>1. first = [id \in DOMAIN Template |-> firstOf(first, id)]
  BY FirstExists, Zenon DEF first, firstOf, author
<1> QED
  BY <1>1

(***************************************************************************)
(* Documents and valid sets of them.                                       *)
(***************************************************************************)

(* The kinds of contract that are not records.                             *)
LEMMA Kinds ==
  ASSUME NEW d, isRevision(d)
  PROVE  /\ d.kind \in DECIDED_KINDS \union {"EffectiveOrganizationContext"}
         /\ isDerived(d.id) <=> d.kind = "EffectiveOrganizationContext"
         /\ isDerived(d.id) <=> d.kind \notin DECIDED_KINDS
BY TemplateAssumption DEF isRevision, isDerived, DECIDED_KINDS

(* A document with another status is the same content under the same key.  *)
LEMMA StatusIsNotContent ==
  ASSUME NEW d, isContract(d), NEW s, NEW e, e = [d EXCEPT !.status = s]
  PROVE  /\ isContract(e) /\ e.status = s
         /\ key(e) = key(d) /\ contentOf(e) = contentOf(d) /\ pinnedRef(e) = pinnedRef(d)
         /\ e.kind = d.kind /\ e.id = d.id /\ e.revision = d.revision
         /\ e.links = d.links /\ e.acceptance = d.acceptance /\ e.actor = d.actor
         /\ e.supersedes = d.supersedes /\ e.system = d.system /\ e.items = d.items
         /\ e.component = d.component /\ e.compilation = d.compilation
<1>1. isContract(e) /\ e.status = s
  BY DEF isContract
<1>2. /\ e.kind = d.kind /\ e.id = d.id /\ e.revision = d.revision
      /\ e.links = d.links /\ e.acceptance = d.acceptance /\ e.actor = d.actor
      /\ e.supersedes = d.supersedes /\ e.system = d.system /\ e.items = d.items
      /\ e.component = d.component /\ e.compilation = d.compilation
  BY DEF isContract
<1>3. contentOf(e) = contentOf(d)
  BY DEF isContract, contentOf
<1> QED
  BY <1>1, <1>2, <1>3 DEF key, pinnedRef

(* In a valid set nothing is reported but warnings.                        *)
LEMMA NothingReported ==
  ASSUME NEW docs, valid(docs), NEW code, NEW about, code \notin WARNINGS
  PROVE  <<code, about>> \notin validateContractSet(docs)
BY DEF valid, errors

(* What is reported of a set: of each document, of two that share a key,   *)
(* of documents of several systems.                                        *)
reportedOf(docs, d) ==
  {<<c, key(d)>> : c \in validateContract(d)} \union refDiagnostics(docs, d) \union crossValidate(docs, d)

reportedTwice(docs) ==
  {<<"REF_DUPLICATE_CONTRACT", key(d)>> : d \in {e \in docs : \E f \in docs : f # e /\ key(f) = key(e)}}

reportedMixed(docs) ==
  IF Cardinality(systemsOf(docs)) > 1 THEN {<<"REF_SYSTEM_MISMATCH", key(d)>> : d \in docs} ELSE {}

(* That is all that is reported.                                           *)
LEMMA Reported ==
  ASSUME NEW docs, NEW x
  PROVE  x \in validateContractSet(docs) <=>
           \/ \E d \in docs : x \in reportedOf(docs, d)
           \/ x \in reportedTwice(docs)
           \/ x \in reportedMixed(docs)
BY DEF validateContractSet, reportedOf, reportedTwice, reportedMixed

(* What is reported of a document is reported of the set ...               *)
LEMMA ReportedOfOne ==
  ASSUME NEW docs, NEW d \in docs
  PROVE  reportedOf(docs, d) \subseteq validateContractSet(docs)
BY Reported

(* ... and so is what is reported of several.                              *)
LEMMA ReportedOfAll ==
  ASSUME NEW docs
  PROVE  /\ reportedTwice(docs) \subseteq validateContractSet(docs)
         /\ reportedMixed(docs) \subseteq validateContractSet(docs)
BY Reported

(* The rules that a valid set keeps: what it names resolves to the content *)
(* that was pinned, is of the kind its role expects and has the component, *)
(* and an accepted document relies on reliable ones.                       *)
resolves(docs, ref) == has(docs, ref) /\ contentOf(get(docs, ref)) = ref.digest

linksWell(docs, d, l) ==
  /\ expectedKind[l.role] \in {Null, l.ref.kind}
  /\ l.role \in RELIED_ROLES => requireReliable(d, get(docs, l.ref))
  /\ l.role \in {"subject", "materialized"} => d.component \in {Null} \union get(docs, l.ref).items

isValidSet(docs) ==
  /\ \A d \in docs :
       /\ validateContract(d) \subseteq WARNINGS
       /\ \A ref \in collectRefs(d) : resolves(docs, ref)
       /\ \A l \in d.links : linksWell(docs, d, l)
  /\ \A d, e \in docs : key(d) = key(e) => d = e
  /\ docs # {} => ~ (Cardinality(systemsOf(docs)) > 1)

(* A valid set keeps the rules ...                                         *)
LEMMA ValidKeepsRules ==
  ASSUME NEW docs, valid(docs)
  PROVE  isValidSet(docs)
<1>1. ASSUME NEW d \in docs PROVE validateContract(d) \subseteq WARNINGS
  <2>1. \A c \in validateContract(d) : <<c, key(d)>> \in validateContractSet(docs)
    BY ReportedOfOne DEF reportedOf
  <2> QED
    BY <2>1, NothingReported
<1>2. ASSUME NEW d \in docs, NEW ref \in collectRefs(d) PROVE resolves(docs, ref)
  <2> SUFFICES ASSUME ~ resolves(docs, ref) PROVE FALSE
    OBVIOUS
  <2>1. ref \in {r \in collectRefs(d) : has(docs, r) => contentOf(get(docs, r)) # r.digest}
    BY DEF resolves
  <2>2. \E code \in {"REF_UNRESOLVED", "REF_DIGEST_MISMATCH"} : <<code, key(d)>> \in refDiagnostics(docs, d)
    BY <2>1 DEF refDiagnostics
  <2>3. \E code \in {"REF_UNRESOLVED", "REF_DIGEST_MISMATCH"} : <<code, key(d)>> \in validateContractSet(docs)
    BY <2>2, ReportedOfOne DEF reportedOf
  <2> QED
    BY <2>3, NothingReported DEF WARNINGS
<1>3. ASSUME NEW d \in docs, NEW l \in d.links PROVE linksWell(docs, d, l)
  <2> SUFFICES ASSUME ~ linksWell(docs, d, l) PROVE FALSE
    OBVIOUS
  <2>1. has(docs, l.ref)
    BY <1>2 DEF resolves, collectRefs, specRefs
  <2>2. \E code \in {"REF_KIND_MISMATCH", "REF_NOT_ACCEPTED", "REF_ITEM_UNRESOLVED"} :
          <<code, key(d)>> \in crossValidate(docs, d)
    <3>1. CASE expectedKind[l.role] \notin {Null, l.ref.kind}
      BY <3>1 DEF crossValidate
    <3>2. CASE /\ expectedKind[l.role] \in {Null, l.ref.kind}
               /\ l.role \in RELIED_ROLES /\ ~ requireReliable(d, get(docs, l.ref))
      <4>1. <<"REF_NOT_ACCEPTED", key(d)>> \in crossValidate(docs, d)
        BY <2>1, <3>2 DEF crossValidate
      <4> QED
        BY <4>1
    <3>3. CASE /\ expectedKind[l.role] \in {Null, l.ref.kind}
               /\ l.role \in {"subject", "materialized"} /\ d.component \notin {Null} \union get(docs, l.ref).items
      <4>1. <<"REF_ITEM_UNRESOLVED", key(d)>> \in crossValidate(docs, d)
        BY <2>1, <3>3 DEF crossValidate
      <4> QED
        BY <4>1
    <3> QED
      BY <3>1, <3>2, <3>3 DEF linksWell
  <2>3. \E code \in {"REF_KIND_MISMATCH", "REF_NOT_ACCEPTED", "REF_ITEM_UNRESOLVED"} :
          <<code, key(d)>> \in validateContractSet(docs)
    BY <2>2, ReportedOfOne DEF reportedOf
  <2> QED
    BY <2>3, NothingReported DEF WARNINGS
<1>4. ASSUME NEW d \in docs, NEW e \in docs, key(d) = key(e), d # e PROVE FALSE
  <2>1. d \in {x \in docs : \E f \in docs : f # x /\ key(f) = key(x)}
    BY <1>4
  <2>2. <<"REF_DUPLICATE_CONTRACT", key(d)>> \in reportedTwice(docs)
    BY <2>1 DEF reportedTwice
  <2> QED
    BY <2>2, ReportedOfAll, NothingReported DEF WARNINGS
<1>5. ASSUME NEW d \in docs, Cardinality(systemsOf(docs)) > 1 PROVE FALSE
  <2>1. <<"REF_SYSTEM_MISMATCH", key(d)>> \in reportedMixed(docs)
    BY <1>5 DEF reportedMixed
  <2> QED
    BY <2>1, ReportedOfAll, NothingReported DEF WARNINGS
<1> QED
  BY <1>1, <1>2, <1>3, <1>4, <1>5 DEF isValidSet

(* ... and a set that keeps the rules is valid.                            *)
LEMMA RulesMakeValid ==
  ASSUME NEW docs, isValidSet(docs)
  PROVE  valid(docs)
<1> SUFFICES ASSUME NEW x \in validateContractSet(docs), x[1] \notin WARNINGS PROVE FALSE
  BY DEF valid, errors
<1>1. ASSUME NEW d \in docs, x \in reportedOf(docs, d) PROVE FALSE
  <2>1. CASE x \in {<<c, key(d)>> : c \in validateContract(d)}
    BY <2>1 DEF isValidSet
  <2>2. CASE x \in refDiagnostics(docs, d)
    <3>1. {r \in collectRefs(d) : has(docs, r) => contentOf(get(docs, r)) # r.digest} = {}
      BY DEF isValidSet, resolves
    <3> QED
      BY <2>2, <3>1 DEF refDiagnostics
  <2>3. CASE x \in crossValidate(docs, d)
    <3>1. \A l \in d.links : linksWell(docs, d, l)
      BY DEF isValidSet
    <3>2. x[1] = "EVIDENCE_STALE"
      BY <2>3, <3>1 DEF crossValidate, linksWell
    <3> QED
      BY <3>2 DEF WARNINGS
  <2> QED
    BY <1>1, <2>1, <2>2, <2>3 DEF reportedOf
<1>2. x \notin reportedTwice(docs)
  BY DEF reportedTwice, isValidSet
<1>3. x \notin reportedMixed(docs)
  BY DEF reportedMixed, isValidSet
<1> QED
  BY <1>1, <1>2, <1>3, Reported

(* The only document with a key is the one a reference with it finds.      *)
LEMMA GetIs ==
  ASSUME NEW docs, NEW e \in docs, \A x \in docs : key(x) = key(e) => x = e,
         NEW ref, key(ref) = key(e)
  PROVE  has(docs, ref) /\ get(docs, ref) = e
<1>1. has(docs, ref)
  BY DEF has
<1>2. (CHOOSE d \in docs : key(d) = key(ref)) = e
  OBVIOUS
<1> QED
  BY <1>1, <1>2 DEF get

(* What a reference finds is in the set, under the key that was named.     *)
LEMMA GetFinds ==
  ASSUME NEW docs, NEW ref, has(docs, ref)
  PROVE  get(docs, ref) \in docs /\ key(get(docs, ref)) = key(ref)
BY DEF get, has

(* In a valid set an accepted document was accepted by someone who may     *)
(* decide and rests on what it names, and no other was so accepted.        *)
LEMMA ValidIsSettled ==
  ASSUME NEW docs, valid(docs), \A e \in docs : isRevision(e),
         NEW d \in docs, d.status # "SUPERSEDED"
  PROVE  Settled(docs, d)
<1> SUFFICES ASSUME d.kind \in DECIDED_KINDS
             PROVE  /\ d.status = "ACCEPTED" => isDecided(d)
                    /\ isDecided(d) => wasInForce(d) /\ \A l \in d.links : restsOn(docs, l)
  BY DEF Settled
<1>0. isValidSet(docs) /\ d.status \in {"PROPOSED", "ACCEPTED", "REJECTED"}
  BY ValidKeepsRules DEF isRevision
<1>1. authoritative(d) \subseteq WARNINGS
  <2>1. authorityDiagnostics(d) = authoritative(d)
    BY DEF authorityDiagnostics, DECIDED_KINDS, RECORD_KINDS
  <2> QED
    BY <1>0, <2>1 DEF isValidSet, validateContract
<1>2. ASSUME d.status = "ACCEPTED" PROVE isDecided(d)
  <2>1. d.acceptance # Null
    BY <1>1, <1>2 DEF authoritative, DECIDED, WARNINGS
  <2>2. d.status \in DOMAIN DECIDED /\ DECIDED[d.status] = "ACCEPTED"
    BY <1>2 DEF DECIDED
  <2>3. d.acceptance.decision = "ACCEPTED"
    BY <1>1, <2>1, <2>2 DEF authoritative, WARNINGS
  <2>4. decideActor(d.acceptance) \subseteq WARNINGS
    BY <1>1, <2>1 DEF authoritative
  <2>5. d.acceptance.actor = "HUMAN" \/ (d.acceptance.actor = "SYSTEM" /\ d.acceptance.policy)
    BY <2>4 DEF decideActor, WARNINGS
  <2> QED
    BY <2>1, <2>3, <2>5 DEF isDecided
<1>3. ASSUME isDecided(d) PROVE d.status = "ACCEPTED"
  <2>1. d.acceptance # Null /\ d.acceptance.decision = "ACCEPTED"
    BY <1>3 DEF isDecided
  <2>2. CASE d.status = "PROPOSED"
    BY <1>1, <2>1, <2>2 DEF authoritative, UNDECIDED, WARNINGS
  <2>3. CASE d.status = "REJECTED"
    <3>1. d.status \in DOMAIN DECIDED /\ DECIDED[d.status] = "REJECTED"
      BY <2>3 DEF DECIDED
    <3> QED
      BY <1>1, <2>1, <3>1 DEF authoritative, WARNINGS
  <2> QED
    BY <1>0, <2>2, <2>3
<1>4. ASSUME d.status = "ACCEPTED", NEW l \in d.links PROVE restsOn(docs, l)
  <2>1. PICK e : e = get(docs, l.ref)
    OBVIOUS
  <2>2. resolves(docs, l.ref) /\ linksWell(docs, d, l) /\ l.role \in RELIED_ROLES
    BY <1>0 DEF isValidSet, isRevision, collectRefs, specRefs
  <2>3. e \in docs /\ key(e) = key(l.ref) /\ contentOf(e) = l.ref.digest
    BY <2>1, <2>2, GetFinds DEF resolves
  <2>4. e.status \in reliableStatuses(e.kind)
    BY <1>4, <2>1, <2>2 DEF linksWell, requireReliable
  <2>5. wasInForce(e)
    <3>1. e.kind \in DECIDED_KINDS => reliableStatuses(e.kind) = {"ACCEPTED", "SUPERSEDED"}
      <4>1. e.kind \in DECIDED_KINDS => inForceStatus(e.kind) = "ACCEPTED"
        BY DEF inForceStatus, DECIDED_KINDS, RECORD_KINDS
      <4> QED
        BY <4>1 DEF reliableStatuses
    <3> QED
      BY <2>4, <3>1 DEF wasInForce
  <2> QED
    BY <2>3, <2>5 DEF restsOn
<1> QED
  BY <1>2, <1>3, <1>4 DEF wasInForce

(***************************************************************************)
(* The steps that write documents.                                         *)
(***************************************************************************)

(* A revision is added, a proposal is rewritten in place, or the status of *)
(* a revision moves on; the first two only if the set stays valid.         *)
Adds(new) ==
  /\ isRevision(new)
  /\ new.kind \in DECIDED_KINDS => new.status = "PROPOSED"
  /\ documents' = documents \union {new} /\ valid(documents')

Rewrites(d, new) ==
  /\ isRevision(new) /\ key(new) = key(d) /\ new.id = d.id
  /\ d.kind \in DECIDED_KINDS /\ d.status = "PROPOSED"
  /\ new.status \in {"PROPOSED", "ACCEPTED", "REJECTED"}
  /\ documents' = (documents \ {d}) \union {new} /\ valid(documents')

Retires(d, new) ==
  /\ isRevision(new) /\ key(new) = key(d) /\ new.id = d.id /\ new.kind = d.kind
  /\ contentOf(new) = contentOf(d) /\ new.links = d.links /\ new.acceptance = d.acceptance
  /\ d.kind \in DECIDED_KINDS => new.status = "SUPERSEDED"
  /\ documents' = (documents \ {d}) \union {new}

DocumentStep ==
  \/ documents' = documents
  \/ \E new : Adds(new)
  \/ \E d \in documents : \E new : Rewrites(d, new) \/ Retires(d, new)

(* Every contract has a latest revision.                                   *)
LEMMA LatestIsThere ==
  ASSUME DocumentsOK, NEW id \in DOMAIN Template
  PROVE  /\ latestOf(id) \in documents /\ latestOf(id).id = id
         /\ \A e \in documents : e.id = id => e.revision <= latestOf(id).revision
<1> DEFINE numbers == {d.revision : d \in revisionsOf(id)}
<1>1. numbers \in SUBSET Nat /\ numbers # {} /\ \A n \in numbers : n <= MaxRevision + 1
  BY BoundsAssumption DEF DocumentsOK, isRevision, revisionsOf
<1>2. PICK n \in numbers : \A m \in numbers : m <= n
  <2>1. MaxRevision + 1 \in Nat
    BY BoundsAssumption
  <2> HIDE DEF numbers
  <2> QED
    BY <1>1, <2>1, GreatestElement
<1>3. \E d \in revisionsOf(id) : \A e \in revisionsOf(id) : e.revision <= d.revision
  BY <1>2
<1>4. /\ latestOf(id) \in revisionsOf(id)
      /\ \A e \in revisionsOf(id) : e.revision <= latestOf(id).revision
  BY <1>3 DEF latestOf
<1> QED
  BY <1>4 DEF revisionsOf

(* The links of a new revision are references in the roles of its template. *)
LEMMA LinkingRoles ==
  ASSUME NEW id \in DOMAIN Template, NEW links \in linkings(id), NEW l \in links
  PROVE  l.role \in RELIED_ROLES /\ isReference(l.ref)
<1>1. PICK role \in DOMAIN Template[id].inputs, d \in documents :
        l = [role |-> role, ref |-> pinnedRef(d)]
  BY DEF linkings, revisionsOf
<1>2. l.role \in RELIED_ROLES
  BY <1>1, TemplateAssumption
<1>3. isReference(l.ref)
  BY <1>1 DEF isReference, pinnedRef
<1> QED
  BY <1>2, <1>3

(* The first revisions are revisions.                                      *)
LEMMA FirstIsRevision ==
  ASSUME NEW id \in DOMAIN Template
  PROVE  /\ isRevision(first[id]) /\ first[id].id = id /\ first[id].revision = 1
         /\ wasInForce(first[id])
<1>1. CASE isDerived(id)
  <2>1. first[id] = contract(id, 1, "CURRENT", Null, "COMPILER", Null, {})
    BY <1>1, FirstIs DEF firstOf
  <2> QED
    BY <1>1, <2>1, BoundsAssumption DEF contract, isRevision, isContract, isDerived, wasInForce, DECIDED_KINDS
<1>2. CASE ~ isDerived(id)
  <2> DEFINE links == {[role |-> role, ref |-> pinnedRef(first[Template[id].inputs[role]])]
                         : role \in DOMAIN Template[id].inputs}
  <2>1. first[id] = contract(id, 1, "ACCEPTED", acceptedBy(author), "HUMAN", Null, links)
    BY <1>2, FirstIs DEF firstOf
  <2>2. \A l \in links : l.role \in RELIED_ROLES /\ isReference(l.ref)
    BY TemplateAssumption DEF isReference, pinnedRef
  <2> HIDE DEF links
  <2> QED
    BY <1>2, <2>1, <2>2, BoundsAssumption DEF contract, isRevision, isContract, wasInForce
<1> QED
  BY <1>1, <1>2

(* The documents of the initial state are in order, and settled.           *)
LEMMA InitialDocuments ==
  ASSUME Init
  PROVE  DocumentsOK /\ DecisionsSettled
<1>1. \A d \in documents : \E id \in DOMAIN Template : d = first[id]
  BY DEF Init
<1>2. \A id \in DOMAIN Template : first[id] \in documents
  BY DEF Init
<1>3. DocumentsOK
  BY <1>1, <1>2, FirstIsRevision DEF DocumentsOK, revisionsOf, key
<1>4. ASSUME NEW id \in DOMAIN Template PROVE Settled(documents, first[id])
  <2>1. CASE isDerived(id)
    BY <2>1, FirstIsRevision, Kinds DEF Settled
  <2>2. CASE ~ isDerived(id)
    <3> DEFINE links == {[role |-> role, ref |-> pinnedRef(first[Template[id].inputs[role]])]
                           : role \in DOMAIN Template[id].inputs}
    <3>1. first[id] = contract(id, 1, "ACCEPTED", acceptedBy(author), "HUMAN", Null, links)
      BY <2>2, FirstIs DEF firstOf
    <3>2. isDecided(first[id])
      <4>1. first[id].acceptance = [decision |-> "ACCEPTED", actor |-> "HUMAN", policy |-> FALSE]
        BY <3>1 DEF contract, acceptedBy, author
      <4>2. [decision |-> "ACCEPTED", actor |-> "HUMAN", policy |-> FALSE] \in
              [decision : {"ACCEPTED", "REJECTED"},
               actor : {by.actor : by \in Acceptor} \union {"HUMAN"}, policy : BOOLEAN]
        OBVIOUS
      <4>3. [decision |-> "ACCEPTED", actor |-> "HUMAN", policy |-> FALSE] # Null
        BY <4>2, NullAssumption
      <4> QED
        BY <4>1, <4>3 DEF isDecided
    <3>3. ASSUME NEW l \in links PROVE restsOn(documents, l)
      <4>1. PICK role \in DOMAIN Template[id].inputs :
              l = [role |-> role, ref |-> pinnedRef(first[Template[id].inputs[role]])]
        OBVIOUS
      <4> DEFINE e == first[Template[id].inputs[role]]
      <4>2. Template[id].inputs[role] \in DOMAIN Template
        BY TemplateAssumption
      <4>3. e \in documents /\ wasInForce(e)
        BY <1>2, <4>2, FirstIsRevision
      <4>4. l.ref = pinnedRef(e)
        BY <4>1
      <4> HIDE DEF e
      <4>5. key(e) = key(l.ref) /\ contentOf(e) = l.ref.digest
        BY <4>4 DEF key, pinnedRef
      <4> QED
        BY <4>3, <4>5 DEF restsOn
    <3>4. first[id].links = links
      BY <3>1 DEF contract
    <3> HIDE DEF links
    <3> QED
      BY <3>2, <3>3, <3>4, FirstIsRevision DEF Settled
  <2> QED
    BY <2>1, <2>2
<1> QED
  BY <1>1, <1>3, <1>4 DEF DecisionsSettled

(* Every step that touches documents is one of the three.                  *)
LEMMA DocumentSteps ==
  ASSUME DocumentsOK, [Next]_vars
  PROVE  DocumentStep
<1>1. ASSUME NEW id \in DOMAIN Template, Propose(id) PROVE DocumentStep
  <2> DEFINE last == latestOf(id)
  <2>1. PICK links \in linkings(id) :
          IF last.status = "PROPOSED"
          THEN Commit((documents \ {last}) \union {[last EXCEPT !.links = links]})
          ELSE /\ last.revision < MaxRevision
               /\ Commit(documents \union
                    {contract(id, last.revision + 1, "PROPOSED", Null, "HUMAN", pinnedRef(last), links)})
    BY <1>1 DEF Propose
  <2>2. last \in documents /\ last.id = id /\ isRevision(last)
    BY LatestIsThere DEF DocumentsOK
  <2>3. \A l \in links : l.role \in RELIED_ROLES /\ isReference(l.ref)
    BY LinkingRoles
  <2>4. ~ isDerived(id) /\ last.kind \in DECIDED_KINDS
    BY <1>1, <2>2, Kinds DEF Propose
  <2> HIDE DEF last
  <2>5. CASE last.status = "PROPOSED"
    <3> DEFINE new == [last EXCEPT !.links = links]
    <3>1. documents' = (documents \ {last}) \union {new} /\ valid(documents')
      BY <2>1, <2>5 DEF Commit
    <3>2. /\ isContract(new) /\ new.kind = last.kind /\ new.id = last.id
          /\ new.revision = last.revision /\ new.status = last.status /\ new.links = links
          /\ new.system = last.system
      BY <2>2 DEF isRevision, isContract
    <3> HIDE DEF new
    <3>3. isRevision(new) /\ key(new) = key(last)
      BY <2>2, <2>3, <2>4, <3>2 DEF isRevision, key
    <3> QED
      BY <2>2, <2>4, <2>5, <3>1, <3>2, <3>3 DEF DocumentStep, Rewrites
  <2>6. CASE last.status # "PROPOSED"
    <3> DEFINE new == contract(id, last.revision + 1, "PROPOSED", Null, "HUMAN", pinnedRef(last), links)
    <3>1. documents' = documents \union {new} /\ valid(documents') /\ last.revision < MaxRevision
      BY <2>1, <2>6 DEF Commit
    <3>2. /\ isContract(new) /\ new.kind = Template[id].kind /\ new.id = id
          /\ new.revision = last.revision + 1 /\ new.status = "PROPOSED" /\ new.links = links
          /\ new.system = Template[id].system
      BY DEF contract, isContract
    <3>3. new.revision \in 1 .. MaxRevision + 1
      BY <2>2, <3>1, <3>2, BoundsAssumption DEF isRevision
    <3> HIDE DEF new
    <3>4. isRevision(new)
      BY <2>3, <2>4, <3>2, <3>3 DEF isRevision
    <3> QED
      BY <3>1, <3>2, <3>4 DEF DocumentStep, Adds
  <2> QED
    BY <2>5, <2>6
<1>2. ASSUME NEW id \in DOMAIN Template, Derive(id) PROVE DocumentStep
  <2> DEFINE last == latestOf(id)
             new == contract(id, last.revision + 1, "CURRENT", Null, "COMPILER", pinnedRef(last), {})
  <2>1. /\ documents' = documents \union {new} /\ valid(documents') /\ last.revision < MaxRevision
        /\ isDerived(id)
    BY <1>2 DEF Derive, Commit
  <2>2. last \in documents /\ isRevision(last)
    BY LatestIsThere DEF DocumentsOK
  <2> HIDE DEF last
  <2>3. /\ isContract(new) /\ new.kind = Template[id].kind /\ new.id = id
        /\ new.revision = last.revision + 1 /\ new.links = {} /\ new.system = Template[id].system
    BY DEF contract, isContract
  <2>4. new.revision \in 1 .. MaxRevision + 1
    BY <2>1, <2>2, <2>3, BoundsAssumption DEF isRevision
  <2>5. new.kind \notin DECIDED_KINDS
    BY <2>1, <2>3 DEF isDerived, DECIDED_KINDS
  <2> HIDE DEF new
  <2>6. isRevision(new)
    BY <2>3, <2>4, <2>5 DEF isRevision
  <2> QED
    BY <2>1, <2>5, <2>6 DEF DocumentStep, Adds
<1>3. ASSUME NEW d \in documents, NEW decision \in {"ACCEPTED", "REJECTED"}, NEW by,
             Decide(d, decision, by)
      PROVE  DocumentStep
  <2> DEFINE acceptance == [acceptedBy(by) EXCEPT !.decision = decision]
             new == [d EXCEPT !.status = decision, !.acceptance = acceptance]
  <2>1. /\ documents' = (documents \ {d}) \union {new} /\ valid(documents')
        /\ d.kind \in DECIDED_KINDS /\ d.status = "PROPOSED"
    BY <1>3 DEF Decide, Commit
  <2> HIDE DEF acceptance
  <2>3. isRevision(d)
    BY DEF DocumentsOK
  <2>4. /\ isContract(new) /\ new.kind = d.kind /\ new.id = d.id /\ new.revision = d.revision
        /\ new.status = decision /\ new.links = d.links /\ new.acceptance = acceptance
        /\ new.system = d.system
    <3> DEFINE stated == [d EXCEPT !.status = decision]
    <3>1. /\ isContract(stated) /\ stated.kind = d.kind /\ stated.id = d.id
          /\ stated.revision = d.revision /\ stated.status = decision /\ stated.links = d.links
          /\ stated.system = d.system
      BY <2>3, StatusIsNotContent DEF isRevision
    <3>2. new = [stated EXCEPT !.acceptance = acceptance]
      BY <2>3 DEF isRevision, isContract
    <3> HIDE DEF stated, new
    <3> QED
      BY <3>1, <3>2 DEF isContract
  <2> HIDE DEF new
  <2>5. isRevision(new) /\ key(new) = key(d)
    BY <2>3, <2>4 DEF isRevision, key
  <2> QED
    BY <2>1, <2>4, <2>5 DEF DocumentStep, Rewrites
<1>4. ASSUME NEW d \in documents, Supersede(d) \/ BecomesStale(d) PROVE DocumentStep
  <2> DEFINE status == IF isDerived(d.id) THEN "STALE" ELSE "SUPERSEDED"
             new == [d EXCEPT !.status = status]
  <2>1. documents' = (documents \ {d}) \union {new}
    BY <1>4 DEF Supersede, BecomesStale, Retire
  <2>2. isRevision(d) /\ (isDerived(d.id) <=> d.kind \notin DECIDED_KINDS)
    BY Kinds DEF DocumentsOK
  <2>4. d.kind \in DECIDED_KINDS => status = "SUPERSEDED"
    BY <2>2
  <2> HIDE DEF status
  <2>5. /\ isContract(new) /\ new.kind = d.kind /\ new.id = d.id /\ new.revision = d.revision
        /\ new.status = status /\ new.links = d.links /\ new.acceptance = d.acceptance
        /\ key(new) = key(d) /\ contentOf(new) = contentOf(d) /\ new.system = d.system
    BY <2>2, StatusIsNotContent DEF isRevision
  <2> HIDE DEF new
  <2>6. isRevision(new)
    BY <2>2, <2>4, <2>5 DEF isRevision
  <2> QED
    BY <2>1, <2>4, <2>5, <2>6 DEF DocumentStep, Retires
<1>5. ASSUME NEW applied, NEW catalog, Verify(applied) \/ Materialize(catalog, applied) \/ Export(catalog)
      PROVE  DocumentStep
  BY <1>5 DEF Verify, Materialize, Export, DocumentStep
<1>6. CASE UNCHANGED vars
  BY <1>6 DEF vars, DocumentStep
<1> QED
  BY <1>1, <1>2, <1>3, <1>4, <1>5, <1>6 DEF Next

(* Documents stay in order.                                                *)
LEMMA DocumentsStayOK ==
  ASSUME DocumentsOK, [Next]_vars
  PROVE  DocumentsOK'
<1>0. DocumentStep
  BY DocumentSteps
<1>1. CASE documents' = documents
  BY <1>1 DEF DocumentsOK, revisionsOf
<1>2. ASSUME NEW new, Adds(new) PROVE DocumentsOK'
  <2>1. \A d, e \in documents' : key(d) = key(e) => d = e
    BY <1>2, ValidKeepsRules DEF Adds, isValidSet
  <2>2. \A id \in DOMAIN Template : revisionsOf(id)' # {}
    BY <1>2 DEF Adds, DocumentsOK, revisionsOf
  <2> QED
    BY <1>2, <2>1, <2>2 DEF Adds, DocumentsOK
<1>3. ASSUME NEW d \in documents, NEW new, documents' = (documents \ {d}) \union {new},
             isRevision(new), key(new) = key(d), new.id = d.id
      PROVE  DocumentsOK'
  <2>1. \A x, y \in documents' : key(x) = key(y) => x = y
    BY <1>3 DEF DocumentsOK
  <2>2. \A id \in DOMAIN Template : revisionsOf(id)' # {}
    BY <1>3 DEF DocumentsOK, revisionsOf
  <2> QED
    BY <1>3, <2>1, <2>2 DEF DocumentsOK
<1> QED
  BY <1>0, <1>1, <1>2, <1>3 DEF DocumentStep, Rewrites, Retires

(* What was in force stays there, its content as it was.                   *)
LEMMA RestsOnStays ==
  ASSUME DocumentStep, NEW l, restsOn(documents, l)
  PROVE  restsOn(documents', l)
<1>1. ASSUME NEW d \in documents, NEW new, Rewrites(d, new) PROVE restsOn(documents', l)
  <2>1. ~ wasInForce(d) /\ documents' = (documents \ {d}) \union {new}
    BY <1>1 DEF Rewrites, wasInForce
  <2> QED
    BY <2>1 DEF restsOn
<1>2. ASSUME NEW d \in documents, NEW new, Retires(d, new) PROVE restsOn(documents', l)
  <2>1. /\ documents' = (documents \ {d}) \union {new} /\ key(new) = key(d)
        /\ contentOf(new) = contentOf(d) /\ wasInForce(new)
    BY <1>2 DEF Retires, wasInForce
  <2> QED
    BY <2>1 DEF restsOn
<1>3. ASSUME NEW new, Adds(new) PROVE restsOn(documents', l)
  BY <1>3 DEF Adds, restsOn
<1> QED
  BY <1>1, <1>2, <1>3 DEF DocumentStep

(* A revision that is superseded stays as it is.                           *)
LEMMA SupersededStays ==
  ASSUME DocumentStep, NEW d \in documents, d.kind \in DECIDED_KINDS, d.status = "SUPERSEDED"
  PROVE  \E e \in documents' : pinnedRef(e) = pinnedRef(d) /\ e.status = "SUPERSEDED"
<1>1. ASSUME NEW x \in documents, NEW new, Rewrites(x, new) PROVE d \in documents'
  BY <1>1 DEF Rewrites
<1>2. ASSUME NEW x \in documents, NEW new, Retires(x, new), x = d
      PROVE  new \in documents' /\ pinnedRef(new) = pinnedRef(d) /\ new.status = "SUPERSEDED"
  BY <1>2 DEF Retires, pinnedRef, key
<1>3. ASSUME NEW x \in documents, NEW new, Retires(x, new), x # d PROVE d \in documents'
  BY <1>3 DEF Retires
<1>4. ASSUME NEW new, Adds(new) PROVE d \in documents'
  BY <1>4 DEF Adds
<1> QED
  BY <1>1, <1>2, <1>3, <1>4 DEF DocumentStep

(* Decisions stay settled: what a revision rests on was in force when it   *)
(* was decided on, and may be superseded at most.                          *)
LEMMA DecisionsStaySettled ==
  ASSUME DocumentsOK, DecisionsSettled, [Next]_vars
  PROVE  DecisionsSettled'
<1>0. DocumentStep /\ DocumentsOK'
  BY DocumentSteps, DocumentsStayOK
<1>1. \A d \in documents : Settled(documents', d)
  BY <1>0, RestsOnStays DEF DecisionsSettled, Settled
<1>2. CASE documents' = documents
  BY <1>2 DEF DecisionsSettled
<1>3. ASSUME NEW new, Adds(new) PROVE DecisionsSettled'
  <2>1. Settled(documents', new)
    <3>1. CASE new.kind \in DECIDED_KINDS
      BY <1>0, <1>3, <3>1, ValidIsSettled DEF Adds, DocumentsOK
    <3>2. CASE new.kind \notin DECIDED_KINDS
      BY <3>2 DEF Settled
    <3> QED
      BY <3>1, <3>2
  <2> QED
    BY <1>1, <1>3, <2>1 DEF Adds, DecisionsSettled
<1>4. ASSUME NEW d \in documents, NEW new, Rewrites(d, new) PROVE DecisionsSettled'
  <2>1. documents' = (documents \ {d}) \union {new} /\ valid(documents') /\ new.status # "SUPERSEDED"
    BY <1>4 DEF Rewrites
  <2>2. Settled(documents', new)
    BY <1>0, <2>1, ValidIsSettled DEF DocumentsOK
  <2> QED
    BY <1>1, <2>1, <2>2 DEF DecisionsSettled
<1>5. ASSUME NEW d \in documents, NEW new, Retires(d, new) PROVE DecisionsSettled'
  <2>1. /\ documents' = (documents \ {d}) \union {new} /\ new.kind = d.kind
        /\ new.links = d.links /\ new.acceptance = d.acceptance
        /\ new.kind \in DECIDED_KINDS => new.status = "SUPERSEDED"
    BY <1>5 DEF Retires
  <2>2. Settled(documents', new)
    BY <1>1, <2>1 DEF Settled, wasInForce, isDecided
  <2> QED
    BY <1>1, <2>1, <2>2 DEF DecisionsSettled
<1> QED
  BY <1>0, <1>2, <1>3, <1>4, <1>5 DEF DocumentStep

(***************************************************************************)
(* What a compilation pins.                                                *)
(***************************************************************************)

(* One more round of following references.                                 *)
reach(docs, reached) == reached \union {get(docs, r) : r \in UNION {specRefs(d) : d \in reached}}

(* The documents reached from a definition, round by round.                *)
rounds(step, docs, S, definition) ==
  /\ step \in [Nat -> SUBSET S] /\ step[0] = {definition}
  /\ \A n \in Nat : step[n + 1] = reach(docs, step[n])

(* They stay within every set that holds the definition and, with a        *)
(* document, what its links resolve to.                                    *)
LEMMA ClosureSteps ==
  ASSUME NEW docs, NEW S, NEW definition \in S,
         \A d \in S : \A l \in d.links : get(docs, l.ref) \in S
  PROVE  \E step : /\ rounds(step, docs, S, definition)
                   /\ closureDocuments(docs, definition) = step[Cardinality(docs)] \ {definition}
<1> DEFINE next == [pair \in (SUBSET S) \X Nat |-> reach(docs, pair[1])]
<1>1. ASSUME NEW reached \in SUBSET S PROVE reach(docs, reached) \in SUBSET S
  BY DEF specRefs, reach
<1>2. next \in [(SUBSET S) \X Nat -> SUBSET S]
  BY <1>1
<1>3. \A reached \in SUBSET S, n \in Nat : next[<<reached, n>>] = reach(docs, reached)
  OBVIOUS
<1> HIDE DEF next
<1>4. PICK f \in [Nat -> SUBSET S] : Recurs(f, {definition}, next)
  <2>1. {definition} \in SUBSET S
    OBVIOUS
  <2> QED
    BY <1>2, <2>1, NatRecursion
<1>5. \A n \in Nat \ {0} : f[n] = reach(docs, f[n - 1])
  <2> SUFFICES ASSUME NEW n \in Nat \ {0} PROVE f[n] = reach(docs, f[n - 1])
    OBVIOUS
  <2>1. n - 1 \in Nat
    OBVIOUS
  <2>2. f[n - 1] \in SUBSET S
    BY <1>4, <2>1
  <2> QED
    BY <1>3, <1>4, <2>2 DEF Recurs
<1> DEFINE step == CHOOSE g : g = [n \in Nat |-> IF n = 0 THEN {definition} ELSE reach(docs, g[n - 1])]
<1>6. f = [n \in Nat |-> IF n = 0 THEN {definition} ELSE reach(docs, f[n - 1])]
  BY <1>4, <1>5 DEF Recurs
<1>7. step = [n \in Nat |-> IF n = 0 THEN {definition} ELSE reach(docs, step[n - 1])]
  BY <1>6
<1>8. closureDocuments(docs, definition) = step[Cardinality(docs)] \ {definition}
  BY DEF closureDocuments, reach
<1> HIDE DEF step
<1>9. step[0] = {definition}
  BY <1>7
<1>10. ASSUME NEW n \in Nat PROVE step[n + 1] = reach(docs, step[n])
  <2>1. n + 1 \in Nat /\ n + 1 # 0 /\ (n + 1) - 1 = n
    OBVIOUS
  <2>2. step[n + 1] = IF n + 1 = 0 THEN {definition} ELSE reach(docs, step[(n + 1) - 1])
    BY <1>7, <2>1, Zenon
  <2> QED
    BY <2>1, <2>2
<1>11. step \in [Nat -> SUBSET S]
  <2> DEFINE T == {n \in Nat : step[n] \in SUBSET S}
  <2>1. 0 \in T
    BY <1>9
  <2>2. ASSUME NEW n \in Nat, n \in T PROVE n + 1 \in T
    BY <1>1, <1>10, <2>2
  <2>3. Nat \subseteq T
    <3> HIDE DEF T
    <3> QED
      BY <2>1, <2>2, SetInduction
  <2> QED
    BY <1>7, <2>3
<1>12. rounds(step, docs, S, definition)
  BY <1>9, <1>10, <1>11 DEF rounds
<1> QED
  BY <1>8, <1>12

(* So that all that a definition reaches is in that set.                   *)
LEMMA ClosureIsReached ==
  ASSUME NEW docs, IsFiniteSet(docs), NEW S, NEW definition \in S,
         \A d \in S : \A l \in d.links : get(docs, l.ref) \in S
  PROVE  closureDocuments(docs, definition) \subseteq S
<1>1. PICK step : /\ rounds(step, docs, S, definition)
                  /\ closureDocuments(docs, definition) = step[Cardinality(docs)] \ {definition}
  BY ClosureSteps
<1>2. Cardinality(docs) \in Nat
  BY FS_CardinalityType
<1> QED
  BY <1>1, <1>2 DEF rounds

(* A pin names what it pins, and its digest keeps what was decided.        *)
LEMMA PinIs ==
  ASSUME NEW d, isContract(d)
  PROVE  /\ pinnedRef(d).kind = d.kind /\ pinnedRef(d).id = d.id /\ pinnedRef(d).revision = d.revision
         /\ key(pinnedRef(d)) = key(d)
         /\ pinnedRef(d).digest = contentOf(d)
         /\ pinnedRef(d).digest.acceptance = d.acceptance /\ pinnedRef(d).digest.items = d.items
BY DEF isContract, pinnedRef, contentOf, key

(* The selected definition is a revision in force.                         *)
LEMMA SelectedIsInForce ==
  ASSUME DocumentsOK, NEW wanted, NEW d \in selectDefinition(documents, wanted)
  PROVE  d \in documents /\ d.kind = "SystemDefinition" /\ d.id = wanted /\ isInForce(d)
<1> DEFINE current == {e \in documents : e.kind = "SystemDefinition" /\ e.id = wanted /\ isInForce(e)}
           numbers == {0} \union {e.revision : e \in current}
<1>1. /\ d \in documents /\ d.kind = "SystemDefinition" /\ d.id = wanted
      /\ d.revision = inForceRevision(documents, "SystemDefinition", wanted)
  BY DEF selectDefinition
<1>2. numbers \in SUBSET Nat /\ numbers # {} /\ \A n \in numbers : n <= MaxRevision + 1
  BY BoundsAssumption DEF DocumentsOK, isRevision
<1>3. \E n \in numbers : \A m \in numbers : m <= n
  <2>1. MaxRevision + 1 \in Nat
    BY BoundsAssumption
  <2> HIDE DEF numbers
  <2> QED
    BY <1>2, <2>1, GreatestElement
<1>4. inForceRevision(documents, "SystemDefinition", wanted) = Max(numbers)
  BY DEF inForceRevision
<1>5. Max(numbers) \in numbers
  <2>1. \E n \in numbers : \A m \in numbers : n >= m
    BY <1>2, <1>3
  <2> HIDE DEF numbers
  <2> QED
    BY <2>1 DEF Max
<1>6. d.revision # 0
  BY <1>1 DEF DocumentsOK, isRevision
<1>7. PICK e \in current : e.revision = d.revision
  BY <1>1, <1>4, <1>5, <1>6
<1>8. key(e) = key(d)
  BY <1>1, <1>7 DEF key
<1>9. e = d
  BY <1>1, <1>7, <1>8 DEF DocumentsOK
<1> QED
  BY <1>1, <1>7, <1>9

(* What a compilation is of: a definition in force of a valid set.         *)
LEMMA CompileIs ==
  ASSUME DocumentsOK, NEW catalog, compile(documents, Definition, catalog) # Null
  PROVE  /\ valid(documents)
         /\ \E d \in selectDefinition(documents, Definition) :
              compile(documents, Definition, catalog) = buildClosure(documents, d, catalog)
BY DEF compile

(* Every document that a definition reaches is named by another one.       *)
LEMMA ReachedIsNamed ==
  ASSUME NEW docs, IsFiniteSet(docs), NEW definition \in docs,
         \A d \in docs : \A l \in d.links : get(docs, l.ref) \in docs,
         NEW d \in closureDocuments(docs, definition)
  PROVE  /\ d \in docs
         /\ \E x \in {definition} \union closureDocuments(docs, definition) :
              x \in docs /\ \E l \in x.links : d = get(docs, l.ref)
<1>1. PICK step : /\ rounds(step, docs, docs, definition)
                  /\ closureDocuments(docs, definition) = step[Cardinality(docs)] \ {definition}
  BY ClosureSteps
<1>2. PICK last \in Nat : last = Cardinality(docs)
  BY FS_CardinalityType
<1> DEFINE Named(n) == \A e \in step[n] \ {definition} :
             \E x \in step[n] : \E l \in x.links : e = get(docs, l.ref)
           S == {n \in Nat : Named(n)}
<1>3. 0 \in S
  BY <1>1 DEF rounds
<1>4. ASSUME NEW n \in Nat, n \in S PROVE n + 1 \in S
  <2>1. step[n + 1] = step[n] \union {get(docs, r) : r \in UNION {specRefs(x) : x \in step[n]}}
    BY <1>1 DEF rounds, reach
  <2>2. Named(n)
    BY <1>4
  <2>3. ASSUME NEW e \in step[n + 1] \ {definition}
        PROVE  \E x \in step[n + 1] : \E l \in x.links : e = get(docs, l.ref)
    <3>1. CASE e \in step[n]
      BY <2>1, <2>2, <2>3, <3>1
    <3>2. CASE e \notin step[n]
      <4>1. PICK x \in step[n] : \E r \in specRefs(x) : e = get(docs, r)
        BY <2>1, <2>3, <3>2
      <4> QED
        BY <2>1, <4>1 DEF specRefs
    <3> QED
      BY <3>1, <3>2
  <2> QED
    BY <2>3
<1>5. Nat \subseteq S
  <2> HIDE DEF S
  <2> QED
    BY <1>3, <1>4, SetInduction
<1>6. Named(last)
  BY <1>2, <1>5
<1>7. closureDocuments(docs, definition) = step[last] \ {definition} /\ step[last] \subseteq docs
  BY <1>1, <1>2 DEF rounds
<1>8. PICK x \in step[last] : \E l \in x.links : d = get(docs, l.ref)
  BY <1>6, <1>7
<1> QED
  BY <1>7, <1>8

(* What UndecidedWasSuperseded says of one compilation.                    *)
Explained(docs, closure) ==
  /\ closure.definition \notin undecidedPins(closure)
  /\ \A ref \in undecidedPins(closure) :
       \/ \E d \in docs : pinnedRef(d) = ref /\ d.status = "SUPERSEDED"
       \/ \E other \in undecidedPins(closure) : ref \in specRefs(other.digest)

(* A contract pinned without a decision was superseded without one, or is  *)
(* named by a contract so pinned.                                          *)
LEMMA PinsAreExplained ==
  ASSUME DocumentsOK, DecisionsSettled, IsFiniteSet(documents),
         NEW catalog, NEW closure, closure = compile(documents, Definition, catalog), closure # Null
  PROVE  Explained(documents, closure)
<1>1. PICK definition \in selectDefinition(documents, Definition) :
        closure = buildClosure(documents, definition, catalog)
  BY CompileIs
<1>2. isValidSet(documents)
  BY CompileIs, ValidKeepsRules
<1>3. definition \in documents /\ definition.kind = "SystemDefinition" /\ isInForce(definition)
  BY SelectedIsInForce
<1>4. \A d \in documents : isRevision(d) /\ isContract(d) /\ Settled(documents, d)
  BY DEF DocumentsOK, isRevision, DecisionsSettled
<1>5. isDecided(definition)
  <2>1. inForceStatus("SystemDefinition") = "ACCEPTED" /\ "SystemDefinition" \in DECIDED_KINDS
    BY DEF inForceStatus, DECIDED_KINDS, RECORD_KINDS
  <2> QED
    BY <1>3, <1>4, <2>1 DEF isInForce, Settled
<1>6. \A d \in documents : isDecided(pinnedRef(d).digest) <=> isDecided(d)
  BY <1>4, PinIs DEF isDecided
<1>7. /\ closure.definition = pinnedRef(definition)
      /\ closure.entries = {pinnedRef(d) : d \in closureDocuments(documents, definition)}
  BY <1>1 DEF buildClosure
<1>8. closure.definition \notin undecidedPins(closure)
  BY <1>3, <1>5, <1>6, <1>7 DEF undecidedPins
<1>9. ASSUME NEW d \in documents, NEW l \in d.links
      PROVE  /\ get(documents, l.ref) \in documents /\ key(get(documents, l.ref)) = key(l.ref)
             /\ l.ref = pinnedRef(get(documents, l.ref))
  <2>1. PICK e : e = get(documents, l.ref)
    OBVIOUS
  <2>2. resolves(documents, l.ref)
    BY <1>2 DEF isValidSet, collectRefs, specRefs
  <2>3. e \in documents /\ key(e) = key(l.ref) /\ contentOf(e) = l.ref.digest
    BY <2>1, <2>2, GetFinds DEF resolves
  <2>4. isReference(l.ref)
    BY <1>4 DEF isRevision
  <2>5. l.ref = pinnedRef(e)
    BY <2>3, <2>4 DEF isReference, pinnedRef, key
  <2> QED
    BY <2>1, <2>3, <2>5
<1>10. ASSUME NEW ref \in undecidedPins(closure)
       PROVE  \/ \E d \in documents : pinnedRef(d) = ref /\ d.status = "SUPERSEDED"
              \/ \E other \in undecidedPins(closure) : ref \in specRefs(other.digest)
  <2>1. PICK d \in closureDocuments(documents, definition) : ref = pinnedRef(d)
    BY <1>7, <1>8, <1>10 DEF undecidedPins
  <2>2. ref.kind \in DECIDED_KINDS /\ ~ isDecided(ref.digest)
    BY <1>10 DEF undecidedPins
  <2>3. /\ d \in documents
        /\ \E x \in {definition} \union closureDocuments(documents, definition) :
             x \in documents /\ \E l \in x.links : d = get(documents, l.ref)
    BY <1>3, <1>9, ReachedIsNamed
  <2>4. PICK x \in {definition} \union closureDocuments(documents, definition) :
          x \in documents /\ \E l \in x.links : d = get(documents, l.ref)
    BY <2>3
  <2>5. PICK l \in x.links : d = get(documents, l.ref)
    BY <2>4
  <2>6. d.kind \in DECIDED_KINDS /\ ~ isDecided(d)
    BY <1>4, <1>6, <2>1, <2>2, <2>3, PinIs
  <2>7. x.kind \in DECIDED_KINDS
    BY <1>4, <2>4, Kinds DEF isRevision
  <2>8. CASE isDecided(x)
    <3>1. PICK e \in documents : key(e) = key(l.ref) /\ wasInForce(e)
      BY <1>4, <2>4, <2>7, <2>8 DEF Settled, restsOn
    <3>2. e = d
      BY <2>3, <2>4, <2>5, <3>1, <1>9 DEF DocumentsOK
    <3> QED
      BY <1>4, <2>1, <2>3, <2>6, <3>1, <3>2 DEF wasInForce, Settled
  <2>9. CASE ~ isDecided(x)
    <3>1. pinnedRef(x) \in undecidedPins(closure)
      BY <1>4, <1>6, <1>7, <2>4, <2>7, <2>9, PinIs DEF undecidedPins
    <3>2. l.ref = ref
      BY <1>9, <2>1, <2>4, <2>5
    <3>3. pinnedRef(x).digest.links = x.links
      BY <1>4, <2>4 DEF isContract, pinnedRef, contentOf
    <3>4. ref \in specRefs(pinnedRef(x).digest)
      BY <3>2, <3>3 DEF specRefs
    <3> QED
      BY <3>1, <3>4
  <2> QED
    BY <2>8, <2>9
<1> QED
  BY <1>8, <1>10 DEF Explained

(* What a compilation was once explained by, still explains it.            *)
LEMMA StaysExplained ==
  ASSUME DocumentsOK, [Next]_vars, NEW closure, Explained(documents, closure)
  PROVE  Explained(documents', closure)
<1> SUFFICES ASSUME NEW ref \in undecidedPins(closure),
                    NEW d \in documents, pinnedRef(d) = ref, d.status = "SUPERSEDED"
             PROVE  \E e \in documents' : pinnedRef(e) = ref /\ e.status = "SUPERSEDED"
  BY DEF Explained
<1>1. d.kind \in DECIDED_KINDS
  BY DEF undecidedPins, pinnedRef
<1> QED
  BY <1>1, DocumentSteps, SupersededStays

(***************************************************************************)
(* Records and evidence.                                                   *)
(***************************************************************************)

(* A record has the fields of a contract.                                  *)
LEMMA RecordIs ==
  ASSUME NEW kind, NEW component, NEW revision, NEW actor, NEW supersedes, NEW links, NEW compilation,
         NEW r, r = recordOf(kind, component, revision, actor, supersedes, links, compilation)
  PROVE  /\ isContract(r) /\ r.kind = kind /\ r.id = component /\ r.component = component
         /\ r.revision = revision /\ r.status = "VALID" /\ r.supersedes = supersedes
         /\ r.actor = actor /\ r.acceptance = Null /\ r.system = Template[Definition].system
         /\ r.links = links /\ r.compilation = compilation
BY DEF recordOf, isContract

(* The latest record of a component is the one that is VALID.              *)
LEMMA LatestRecord ==
  ASSUME RecordsOK, NEW c, recordsOf(c) # {}, NEW last, last = latestRecord(c)
  PROVE  /\ last \in recordsOf(c) /\ last.status = "VALID" /\ last.revision \in Nat
         /\ \A r \in recordsOf(c) \ {last} :
              /\ r.status = "SUPERSEDED" /\ r.revision < last.revision /\ r.revision \in Nat
              /\ \E s \in recordsOf(c) : s.supersedes = pinnedRef(r) /\ s.revision = r.revision + 1
         /\ \A r, s \in recordsOf(c) : r.revision = s.revision => r = s
         /\ \A r \in recordsOf(c) :
              r.supersedes # Null => \E s \in recordsOf(c) : r.supersedes = pinnedRef(s) /\ s.revision < r.revision
<1> DEFINE rs == recordsOf(c)
<1>1. \A r \in rs : r \in records /\ r.component = c
  BY DEF recordsOf
<1>2. isHistory(rs)
  BY <1>1 DEF RecordsOK
<1>3. \A r \in rs : r.revision \in Nat
  BY <1>1 DEF RecordsOK, isRecord
<1> HIDE DEF rs
<1>4. PICK l \in rs :
        /\ l.status = "VALID"
        /\ \A r \in rs \ {l} :
             /\ r.status = "SUPERSEDED" /\ r.revision < l.revision
             /\ \E s \in rs : s.supersedes = pinnedRef(r) /\ s.revision = r.revision + 1
  BY <1>2 DEF isHistory
<1>5. /\ \A r, s \in rs : r.revision = s.revision => r = s
      /\ \A r \in rs : r.supersedes # Null => \E s \in rs : r.supersedes = pinnedRef(s) /\ s.revision < r.revision
  BY <1>2 DEF isHistory
<1>6. \A s \in rs : s.revision <= l.revision
  BY <1>3, <1>4
<1>7. last \in rs /\ \A s \in rs : s.revision <= last.revision
  BY <1>4, <1>6 DEF latestRecord, rs
<1>8. last = l
  <2>1. last.revision <= l.revision /\ l.revision <= last.revision
    BY <1>4, <1>6, <1>7
  <2>2. last.revision = l.revision
    BY <1>3, <1>4, <1>7, <2>1
  <2> QED
    BY <1>4, <1>5, <1>7, <2>2
<1> QED
  BY <1>3, <1>4, <1>5, <1>8 DEF rs

(* What `materialize` records of a component.                              *)
LEMMA NewRecord ==
  ASSUME RecordsOK, NEW c, NEW closure, NEW m, m = materializationRecord(c, closure)
  PROVE  /\ m.component = c /\ m.status = "VALID" /\ m.compilation = closure
         /\ closure.definition.kind = "SystemDefinition" /\ c \in closure.definition.digest.items => isRecord(m)
         /\ recordsOf(c) = {} => m.supersedes = Null
         /\ recordsOf(c) # {} => /\ m.revision = latestRecord(c).revision + 1
                                 /\ m.supersedes = pinnedRef(latestRecord(c))
<1>1. /\ isContract(m) /\ m.kind = "MaterializationRecord" /\ m.id = c /\ m.component = c
      /\ m.status = "VALID" /\ m.compilation = closure /\ m.actor = "COMPILER" /\ m.acceptance = Null
      /\ m.system = Template[Definition].system
      /\ m.links = {[role |-> "materialized", ref |-> closure.definition]}
      /\ m.revision = IF recordsOf(c) = {} THEN 1 ELSE latestRecord(c).revision + 1
      /\ m.supersedes = IF recordsOf(c) = {} THEN Null ELSE pinnedRef(latestRecord(c))
  <2>1. PICK revision, supersedes, links :
          /\ m = recordOf("MaterializationRecord", c, revision, "COMPILER", supersedes, links, closure)
          /\ revision = IF recordsOf(c) = {} THEN 1 ELSE latestRecord(c).revision + 1
          /\ supersedes = IF recordsOf(c) = {} THEN Null ELSE pinnedRef(latestRecord(c))
          /\ links = {[role |-> "materialized", ref |-> closure.definition]}
    BY DEF materializationRecord
  <2> QED
    BY <2>1, RecordIs
<1>2. recordsOf(c) # {} => latestRecord(c).revision \in Nat
  BY LatestRecord
<1> QED
  BY <1>1, <1>2 DEF isRecord, materialized

(* A record that is superseded stays what it is but for its status.        *)
LEMMA SupersededIs ==
  ASSUME NEW r, isRecord(r)
  PROVE  /\ isRecord(superseded(r)) /\ superseded(r).status = "SUPERSEDED"
         /\ pinnedRef(superseded(r)) = pinnedRef(r) /\ materialized(superseded(r)) = materialized(r)
         /\ superseded(r).revision = r.revision /\ superseded(r).component = r.component
         /\ superseded(r).supersedes = r.supersedes /\ superseded(r).compilation = r.compilation
<1>1. PICK s : s = superseded(r)
  OBVIOUS
<1>2. s = [r EXCEPT !.status = "SUPERSEDED"] /\ isContract(r)
  BY <1>1 DEF superseded, isRecord
<1>3. /\ isContract(s) /\ s.status = "SUPERSEDED" /\ pinnedRef(s) = pinnedRef(r)
      /\ s.kind = r.kind /\ s.id = r.id /\ s.revision = r.revision /\ s.actor = r.actor
      /\ s.acceptance = r.acceptance /\ s.system = r.system /\ s.links = r.links
      /\ s.component = r.component /\ s.supersedes = r.supersedes /\ s.compilation = r.compilation
  BY <1>2, StatusIsNotContent
<1>4. materialized(s) = materialized(r)
  BY <1>3 DEF materialized
<1>5. isRecord(s)
  BY <1>3, <1>4 DEF isRecord
<1> QED
  BY <1>1, <1>3, <1>4, <1>5

(* A history goes on by a record that supersedes the last one.             *)
LEMMA HistoryGoesOn ==
  ASSUME NEW rs, NEW last \in rs, NEW m, NEW old, last.revision \in Nat,
         \A r \in rs \ {last} :
           /\ r.status = "SUPERSEDED" /\ r.revision < last.revision /\ r.revision \in Nat
           /\ \E s \in rs : s.supersedes = pinnedRef(r) /\ s.revision = r.revision + 1,
         \A r, s \in rs : r.revision = s.revision => r = s,
         \A r \in rs : r.supersedes # Null => \E s \in rs : r.supersedes = pinnedRef(s) /\ s.revision < r.revision,
         m.status = "VALID", m.revision = last.revision + 1, m.supersedes = pinnedRef(last),
         old.status = "SUPERSEDED", old.revision = last.revision, old.supersedes = last.supersedes,
         pinnedRef(old) = pinnedRef(last)
  PROVE  isHistory((rs \ {last}) \union {old, m})
<1> DEFINE new == (rs \ {last}) \union {old, m}
<1>1. \A r \in new \ {m} : r.status = "SUPERSEDED" /\ r.revision < m.revision
  OBVIOUS
<1>2. ASSUME NEW r \in new \ {m}
      PROVE  \E s \in new : s.supersedes = pinnedRef(r) /\ s.revision = r.revision + 1
  <2>1. CASE r = old
    BY <2>1
  <2>2. CASE r \in rs \ {last}
    <3>1. PICK s \in rs : s.supersedes = pinnedRef(r) /\ s.revision = r.revision + 1
      BY <2>2
    <3>2. CASE s = last
      BY <3>1, <3>2
    <3>3. CASE s # last
      BY <3>1, <3>3
    <3> QED
      BY <3>2, <3>3
  <2> QED
    BY <2>1, <2>2
<1>3. \A r, s \in new : r.revision = s.revision => r = s
  OBVIOUS
<1>4. ASSUME NEW r \in new, r.supersedes # Null
      PROVE  \E s \in new : r.supersedes = pinnedRef(s) /\ s.revision < r.revision
  <2>1. CASE r = m
    BY <2>1
  <2>2. ASSUME NEW x \in rs, x.supersedes = r.supersedes, x.revision = r.revision
        PROVE  \E s \in new : r.supersedes = pinnedRef(s) /\ s.revision < r.revision
    <3>1. PICK s \in rs : r.supersedes = pinnedRef(s) /\ s.revision < r.revision
      BY <1>4, <2>2
    <3>2. CASE s = last
      BY <3>1, <3>2
    <3>3. CASE s # last
      BY <3>1, <3>3
    <3> QED
      BY <3>2, <3>3
  <2>3. r = m \/ r = old \/ r \in rs
    OBVIOUS
  <2> HIDE DEF new
  <2> QED
    BY <2>1, <2>2, <2>3
<1>5. m \in new
  OBVIOUS
<1> HIDE DEF new
<1>6. isHistory(new)
  BY <1>1, <1>2, <1>3, <1>4, <1>5 DEF isHistory
<1> QED
  BY <1>6 DEF new

(* The records of a component after `materialize`.                         *)
LEMMA RecordsOf ==
  ASSUME RecordsOK, NEW applied, NEW closure,
         records' = (records \ {latestRecord(c) : c \in {x \in applied : recordsOf(x) # {}}})
                    \union {superseded(r) : r \in {latestRecord(c) : c \in {x \in applied : recordsOf(x) # {}}}}
                    \union {materializationRecord(c, closure) : c \in applied}
  PROVE  \A c : recordsOf(c)' =
           IF c \notin applied THEN recordsOf(c)
           ELSE IF recordsOf(c) = {} THEN {materializationRecord(c, closure)}
           ELSE (recordsOf(c) \ {latestRecord(c)})
                \union {superseded(latestRecord(c)), materializationRecord(c, closure)}
<1> DEFINE known == {x \in applied : recordsOf(x) # {}}
<1>1. ASSUME NEW c \in known
      PROVE  latestRecord(c) \in records /\ latestRecord(c).component = c /\ isRecord(latestRecord(c))
  BY LatestRecord DEF recordsOf, RecordsOK
<1>2. \A c \in known : superseded(latestRecord(c)).component = c
  BY <1>1, SupersededIs
<1>3. \A c \in applied : materializationRecord(c, closure).component = c
  BY NewRecord
<1>4. ASSUME NEW r
      PROVE  r \in records' <=>
               \/ r \in records /\ \A c \in known : r # latestRecord(c)
               \/ \E c \in known : r = superseded(latestRecord(c))
               \/ \E c \in applied : r = materializationRecord(c, closure)
  OBVIOUS
<1> SUFFICES ASSUME NEW c
             PROVE  recordsOf(c)' =
                      IF c \notin applied THEN recordsOf(c)
                      ELSE IF recordsOf(c) = {} THEN {materializationRecord(c, closure)}
                      ELSE (recordsOf(c) \ {latestRecord(c)})
                           \union {superseded(latestRecord(c)), materializationRecord(c, closure)}
  OBVIOUS
<1>5. recordsOf(c)' = {r \in records' : r.component = c}
  BY DEF recordsOf
<1>6. ASSUME NEW r
      PROVE  r \in recordsOf(c)' <=>
               \/ r \in recordsOf(c) /\ ~ (c \in known /\ r = latestRecord(c))
               \/ c \in known /\ r = superseded(latestRecord(c))
               \/ c \in applied /\ r = materializationRecord(c, closure)
  <2>1. r \in recordsOf(c) <=> r \in records /\ r.component = c
    BY DEF recordsOf
  <2>2. r \in recordsOf(c)' <=> r \in records' /\ r.component = c
    BY <1>5
  <2> HIDE DEF known
  <2> QED
    BY <1>1, <1>2, <1>3, <1>4, <2>1, <2>2
<1>7. CASE c \notin applied
  BY <1>6, <1>7
<1>8. CASE c \in applied /\ recordsOf(c) = {}
  BY <1>6, <1>8
<1>9. CASE c \in applied /\ recordsOf(c) # {}
  BY <1>6, <1>9
<1> QED
  BY <1>7, <1>8, <1>9

(* What a compilation is about is a definition in force.                   *)
LEMMA CompiledDefinition ==
  ASSUME DocumentsOK, NEW catalog, NEW closure, closure = compile(documents, Definition, catalog), closure # Null
  PROVE  /\ valid(documents)
         /\ \E d \in selectDefinition(documents, Definition) :
              /\ closure = buildClosure(documents, d, catalog) /\ closure.definition = pinnedRef(d)
              /\ d \in documents /\ d.kind = "SystemDefinition" /\ d.id = Definition /\ d.status = "ACCEPTED"
              /\ isContract(d)
<1>1. PICK d \in selectDefinition(documents, Definition) : closure = buildClosure(documents, d, catalog)
  BY CompileIs
<1>2. d \in documents /\ d.kind = "SystemDefinition" /\ d.id = Definition /\ isInForce(d)
  BY SelectedIsInForce
<1>3. inForceStatus("SystemDefinition") = "ACCEPTED"
  BY DEF inForceStatus, DECIDED_KINDS, RECORD_KINDS
<1>4. d.status = "ACCEPTED"
  BY <1>2, <1>3 DEF isInForce
<1>5. closure.definition = pinnedRef(d)
  BY <1>1 DEF buildClosure
<1>6. isContract(d)
  BY <1>2 DEF DocumentsOK, isRevision
<1> QED
  BY <1>1, <1>2, <1>4, <1>5, <1>6, CompileIs

(* `materialize` keeps the histories of all components.                    *)
LEMMA MaterializeKeepsRecords ==
  ASSUME DocumentsOK, RecordsOK, NEW catalog, NEW applied, Materialize(catalog, applied)
  PROVE  RecordsOK'
<1> DEFINE closure == compile(documents, Definition, catalog)
           known == {x \in applied : recordsOf(x) # {}}
           fine(r) == isRecord(r) /\ restsOn(documents, materialized(r))
<1>1. /\ records' = (records \ {latestRecord(c) : c \in known})
                    \union {superseded(r) : r \in {latestRecord(c) : c \in known}}
                    \union {materializationRecord(c, closure) : c \in applied}
      /\ closure # Null /\ applied \subseteq closure.definition.digest.items
      /\ documents' = documents
  BY DEF Materialize
<1>2. closure.definition.kind = "SystemDefinition" /\ \A l : l.ref = closure.definition => restsOn(documents, l)
  <2>1. PICK d \in documents : /\ closure.definition = pinnedRef(d)
                               /\ d.kind = "SystemDefinition" /\ d.status = "ACCEPTED" /\ isContract(d)
    BY <1>1, CompiledDefinition
  <2>2. wasInForce(d)
    BY <2>1 DEF wasInForce
  <2> HIDE DEF closure
  <2>3. /\ closure.definition.kind = "SystemDefinition"
        /\ key(closure.definition) = key(d) /\ closure.definition.digest = contentOf(d)
    BY <2>1, PinIs
  <2> QED
    BY <2>2, <2>3 DEF restsOn
<1> HIDE DEF closure
<1>3. ASSUME NEW r \in records' PROVE fine(r)
  <2>1. CASE r \in records
    BY <2>1 DEF RecordsOK
  <2>2. ASSUME NEW c \in known, r = superseded(latestRecord(c)) PROVE fine(r)
    <3>1. fine(latestRecord(c))
      BY LatestRecord DEF recordsOf, RecordsOK
    <3> QED
      BY <2>2, <3>1, SupersededIs
  <2>3. ASSUME NEW c \in applied, r = materializationRecord(c, closure) PROVE fine(r)
    <3>1. isRecord(r) /\ r.compilation = closure
      BY <1>1, <1>2, <2>3, NewRecord
    <3>2. materialized(r).ref = closure.definition
      BY <3>1 DEF materialized
    <3> QED
      BY <1>2, <3>1, <3>2
  <2> HIDE DEF fine
  <2> QED
    BY <1>1, <2>1, <2>2, <2>3
<1>4. \A c : recordsOf(c)' =
        IF c \notin applied THEN recordsOf(c)
        ELSE IF recordsOf(c) = {} THEN {materializationRecord(c, closure)}
        ELSE (recordsOf(c) \ {latestRecord(c)})
             \union {superseded(latestRecord(c)), materializationRecord(c, closure)}
  BY <1>1, RecordsOf
<1>5. ASSUME NEW c, recordsOf(c)' # {} PROVE isHistory(recordsOf(c)')
  <2>1. CASE c \notin applied
    <3>1. recordsOf(c)' = recordsOf(c)
      BY <1>4, <2>1
    <3>2. isHistory(recordsOf(c))
      BY <1>5, <3>1 DEF RecordsOK, recordsOf
    <3> QED
      BY <3>1, <3>2
  <2>2. CASE c \in applied /\ recordsOf(c) = {}
    <3>1. recordsOf(c)' = {materializationRecord(c, closure)}
      BY <1>4, <2>2
    <3>2. materializationRecord(c, closure).status = "VALID" /\ materializationRecord(c, closure).supersedes = Null
      BY <2>2, NewRecord
    <3> QED
      BY <3>1, <3>2 DEF isHistory
  <2>3. CASE c \in applied /\ recordsOf(c) # {}
    <3>1. PICK last, m, old : /\ last = latestRecord(c) /\ m = materializationRecord(c, closure)
                              /\ old = superseded(last)
      OBVIOUS
    <3>2. recordsOf(c)' = (recordsOf(c) \ {last}) \union {old, m}
      BY <1>4, <2>3, <3>1
    <3>3. /\ last \in recordsOf(c) /\ last.revision \in Nat
          /\ \A r \in recordsOf(c) \ {last} :
               /\ r.status = "SUPERSEDED" /\ r.revision < last.revision /\ r.revision \in Nat
               /\ \E s \in recordsOf(c) : s.supersedes = pinnedRef(r) /\ s.revision = r.revision + 1
          /\ \A r, s \in recordsOf(c) : r.revision = s.revision => r = s
          /\ \A r \in recordsOf(c) :
               r.supersedes # Null => \E s \in recordsOf(c) : r.supersedes = pinnedRef(s) /\ s.revision < r.revision
      BY <2>3, <3>1, LatestRecord
    <3>4. /\ old.status = "SUPERSEDED" /\ old.revision = last.revision /\ old.supersedes = last.supersedes
          /\ pinnedRef(old) = pinnedRef(last)
      BY <3>1, <3>3, SupersededIs DEF RecordsOK, recordsOf
    <3>5. m.status = "VALID" /\ m.revision = last.revision + 1 /\ m.supersedes = pinnedRef(last)
      BY <2>3, <3>1, NewRecord
    <3> QED
      BY <3>2, <3>3, <3>4, <3>5, HistoryGoesOn
  <2> QED
    BY <2>1, <2>2, <2>3
<1>6. \A r \in records' : recordsOf(r.component)' # {}
  BY DEF recordsOf
<1> QED
  BY <1>1, <1>3, <1>5, <1>6 DEF RecordsOK

(* `materialize` leaves the evidence what it checked.                      *)
LEMMA MaterializeKeepsEvidence ==
  ASSUME RecordsOK, EvidenceOK, NEW catalog, NEW applied, Materialize(catalog, applied)
  PROVE  EvidenceOK'
<1>1. PICK closure : closure = compile(documents, Definition, catalog)
  OBVIOUS
<1>2. \A c : recordsOf(c)' =
        IF c \notin applied THEN recordsOf(c)
        ELSE IF recordsOf(c) = {} THEN {materializationRecord(c, closure)}
        ELSE (recordsOf(c) \ {latestRecord(c)})
             \union {superseded(latestRecord(c)), materializationRecord(c, closure)}
  <2>1. records' = (records \ {latestRecord(c) : c \in {x \in applied : recordsOf(x) # {}}})
                   \union {superseded(r) : r \in {latestRecord(c) : c \in {x \in applied : recordsOf(x) # {}}}}
                   \union {materializationRecord(c, closure) : c \in applied}
    BY <1>1 DEF Materialize
  <2> QED
    BY <2>1, RecordsOf
<1>3. evidence' = evidence
  BY DEF Materialize
<1>4. ASSUME NEW e \in evidence PROVE \E r \in recordsOf(e.component)' : checks(e, r)
  <2>1. PICK r \in recordsOf(e.component) : checks(e, r)
    BY DEF EvidenceOK
  <2>2. CASE r \in recordsOf(e.component)'
    BY <2>1, <2>2
  <2>3. CASE r \notin recordsOf(e.component)'
    <3>1. r = latestRecord(e.component) /\ superseded(r) \in recordsOf(e.component)'
      BY <1>2, <2>1, <2>3
    <3>2. isRecord(r)
      BY <2>1 DEF recordsOf, RecordsOK
    <3>3. checks(e, superseded(r))
      BY <2>1, <3>2, SupersededIs DEF checks
    <3> QED
      BY <3>1, <3>3
  <2> QED
    BY <2>2, <2>3
<1>5. ASSUME NEW e \in evidence PROVE isEvidence(e)
  BY DEF EvidenceOK
<1>6. \A e, f \in evidence : e.component = f.component => e = f
  BY DEF EvidenceOK
<1>7. \A e \in evidence' : isEvidence(e) /\ \E r \in recordsOf(e.component)' : checks(e, r)
  BY <1>3, <1>4, <1>5
<1> QED
  BY <1>3, <1>6, <1>7 DEF EvidenceOK

(* `verify` replaces the evidence of what it checked.                      *)
LEMMA VerifyKeepsEvidence ==
  ASSUME RecordsOK, EvidenceOK, NEW verified, Verify(verified)
  PROVE  EvidenceOK'
<1>1. /\ evidence' = {e \in evidence : e.component \notin verified} \union {evidenceOf(latestRecord(c)) : c \in verified}
      /\ records' = records
  BY DEF Verify
<1>2. ASSUME NEW c \in verified, NEW e, e = evidenceOf(latestRecord(c))
      PROVE  isEvidence(e) /\ e.component = c /\ \E r \in recordsOf(c) : checks(e, r)
  <2>1. PICK r : r = latestRecord(c)
    OBVIOUS
  <2>2. r \in recordsOf(c)
    BY <2>1, LatestRecord DEF Verify
  <2>3. r.component = c /\ r.links = {materialized(r)}
    BY <2>2 DEF recordsOf, RecordsOK, isRecord
  <2>4. PICK links : /\ e = recordOf("EvidenceRecord", c, 1, "CHECKER", Null, links, Null)
                     /\ links = {[role |-> "subject", ref |-> l.ref] : l \in r.links}
                                \union {[role |-> "input", ref |-> pinnedRef(r)]}
    BY <1>2, <2>1, <2>3 DEF evidenceOf
  <2>5. links = {[role |-> "subject", ref |-> materialized(r).ref], [role |-> "input", ref |-> pinnedRef(r)]}
    BY <2>3, <2>4
  <2>6. isEvidence(e) /\ e.component = c /\ e.links = links
    BY <2>4, RecordIs DEF isEvidence
  <2> QED
    BY <2>2, <2>5, <2>6 DEF checks
<1>3. \A e \in evidence' : \/ e \in evidence /\ e.component \notin verified
                           \/ \E c \in verified : e = evidenceOf(latestRecord(c))
  BY <1>1
<1>4. ASSUME NEW e \in evidence' PROVE isEvidence(e) /\ \E r \in recordsOf(e.component) : checks(e, r)
  BY <1>2, <1>3 DEF EvidenceOK
<1>5. ASSUME NEW e \in evidence', NEW f \in evidence', e.component = f.component PROVE e = f
  BY <1>2, <1>3, <1>5 DEF EvidenceOK
<1>6. \A c : recordsOf(c)' = recordsOf(c)
  BY <1>1 DEF recordsOf
<1> QED
  BY <1>4, <1>5, <1>6 DEF EvidenceOK

(***************************************************************************)
(* The inductive invariant.                                                *)
(***************************************************************************)

(* A function on a finite set has finitely many values.                    *)
LEMMA FiniteImage ==
  ASSUME NEW S, IsFiniteSet(S), NEW f, DOMAIN f = S, f = [x \in S |-> f[x]]
  PROVE  IsFiniteSet({f[x] : x \in S})
<1>1. f \in Surjection(S, {f[x] : x \in S})
  BY DEF Surjection
<1> QED
  BY <1>1, FS_Surjection

(* It holds initially.                                                     *)
LEMMA InitOK ==
  ASSUME Init
  PROVE  PCInv /\ DecisionsSettled /\ UndecidedWasSuperseded
<1>1. DocumentsOK /\ DecisionsSettled
  BY InitialDocuments
<1>2. IsFiniteSet(documents)
  <2>1. PICK f : f = [id \in DOMAIN Template |-> first[id]]
    OBVIOUS
  <2>2. documents = {f[id] : id \in DOMAIN Template}
    BY <2>1 DEF Init
  <2> QED
    BY <2>1, <2>2, TemplateAssumption, FiniteImage
<1>3. records = {} /\ evidence = {} /\ bundle = Null /\ moves = 0
  BY DEF Init
<1>4. RecordsOK /\ EvidenceOK /\ UndecidedWasSuperseded /\ BundleOK /\ IsFiniteSet(records) /\ IsFiniteSet(evidence)
  BY <1>3, FS_EmptySet DEF RecordsOK, EvidenceOK, UndecidedWasSuperseded, compilations, BundleOK
<1> QED
  BY <1>1, <1>2, <1>3, <1>4, BoundsAssumption DEF PCInv

(* Steps write finitely many documents.                                    *)
LEMMA DocumentsStayFinite ==
  ASSUME IsFiniteSet(documents), DocumentStep
  PROVE  IsFiniteSet(documents')
<1>1. documents' = documents \/ \E new : documents' \in SUBSET (documents \union {new})
  BY DEF DocumentStep, Adds, Rewrites, Retires
<1>2. CASE documents' = documents
  BY <1>2
<1>3. ASSUME NEW new, documents' \in SUBSET (documents \union {new}) PROVE IsFiniteSet(documents')
  <2>1. IsFiniteSet(documents \union {new})
    BY FS_AddElement
  <2> QED
    BY <1>3, <2>1, FS_Subset
<1> QED
  BY <1>1, <1>2, <1>3

(* Records and evidence are finitely many, too.                            *)
LEMMA RecordsStayFinite ==
  ASSUME IsFiniteSet(records), NEW catalog, NEW applied \in SUBSET Template[Definition].items,
         Materialize(catalog, applied)
  PROVE  IsFiniteSet(records')
<1>1. PICK closure, previous :
        /\ previous = {latestRecord(c) : c \in {x \in applied : recordsOf(x) # {}}}
        /\ records' = (records \ previous) \union {superseded(r) : r \in previous}
                      \union {materializationRecord(c, closure) : c \in applied}
  BY DEF Materialize
<1>2. IsFiniteSet(applied) /\ IsFiniteSet({x \in applied : recordsOf(x) # {}})
  BY TemplateAssumption, FS_Subset
<1>3. IsFiniteSet(previous)
  <2> DEFINE recorded == {x \in applied : recordsOf(x) # {}}
  <2>1. IsFiniteSet(recorded) /\ previous = {latestRecord(c) : c \in recorded}
    BY <1>1, <1>2
  <2> HIDE DEF recorded
  <2>2. PICK f : f = [c \in recorded |-> latestRecord(c)]
    OBVIOUS
  <2>3. DOMAIN f = recorded /\ f = [c \in recorded |-> f[c]]
    BY <2>2
  <2>4. previous = {f[c] : c \in recorded}
    BY <2>1, <2>2
  <2> QED
    BY <2>1, <2>3, <2>4, FiniteImage
<1>4. IsFiniteSet({superseded(r) : r \in previous})
  <2>1. PICK f : f = [r \in previous |-> superseded(r)]
    OBVIOUS
  <2>2. {superseded(r) : r \in previous} = {f[r] : r \in previous}
    BY <2>1
  <2> QED
    BY <1>3, <2>1, <2>2, FiniteImage
<1>5. IsFiniteSet({materializationRecord(c, closure) : c \in applied})
  <2>1. PICK f : f = [c \in applied |-> materializationRecord(c, closure)]
    OBVIOUS
  <2>2. {materializationRecord(c, closure) : c \in applied} = {f[c] : c \in applied}
    BY <2>1
  <2> QED
    BY <1>2, <2>1, <2>2, FiniteImage
<1>6. IsFiniteSet(records \ previous)
  BY FS_Subset
<1> QED
  BY <1>1, <1>4, <1>5, <1>6, FS_Union

(* Evidence is renewed one by one of finitely many components.             *)
LEMMA EvidenceStaysFinite ==
  ASSUME IsFiniteSet(evidence), NEW verified \in SUBSET Template[Definition].items, Verify(verified)
  PROVE  IsFiniteSet(evidence')
<1>1. IsFiniteSet(verified)
  BY TemplateAssumption, FS_Subset
<1>2. IsFiniteSet({evidenceOf(latestRecord(c)) : c \in verified})
  <2>1. PICK f : f = [c \in verified |-> evidenceOf(latestRecord(c))]
    OBVIOUS
  <2>2. {evidenceOf(latestRecord(c)) : c \in verified} = {f[c] : c \in verified}
    BY <2>1
  <2> QED
    BY <1>1, <2>1, <2>2, FiniteImage
<1>3. IsFiniteSet({e \in evidence : e.component \notin verified})
  BY FS_Subset
<1> QED
  BY <1>2, <1>3, FS_Union DEF Verify

(* Every step is one of these: whatever is exported, nothing follows.      *)
LEMMA Steps ==
  ASSUME [Next]_vars
  PROVE  \/ bundle = Null /\ UNCHANGED <<records, evidence, bundle>> /\ moves < MaxMoves /\ moves' = moves + 1
         \/ bundle = Null /\ \E applied \in SUBSET Template[Definition].items, catalog \in Catalog :
                               Materialize(catalog, applied)
         \/ bundle = Null /\ \E verified \in SUBSET Template[Definition].items : Verify(verified)
         \/ bundle = Null /\ \E catalog \in Catalog : Export(catalog)
         \/ UNCHANGED vars
<1>1. ASSUME NEW id, Propose(id) \/ Derive(id)
      PROVE  bundle = Null /\ UNCHANGED <<records, evidence, bundle>> /\ moves < MaxMoves /\ moves' = moves + 1
  BY <1>1 DEF Propose, Derive, Commit
<1>2. ASSUME NEW d, Supersede(d) \/ BecomesStale(d)
      PROVE  bundle = Null /\ UNCHANGED <<records, evidence, bundle>> /\ moves < MaxMoves /\ moves' = moves + 1
  BY <1>2 DEF Supersede, BecomesStale, Retire
<1>3. ASSUME NEW d, NEW decision, NEW actor, Decide(d, decision, actor)
      PROVE  bundle = Null /\ UNCHANGED <<records, evidence, bundle>> /\ moves < MaxMoves /\ moves' = moves + 1
  BY <1>3 DEF Decide, Commit
<1>4. ASSUME NEW catalog, NEW applied, Materialize(catalog, applied) \/ Verify(applied) \/ Export(catalog)
      PROVE  bundle = Null
  BY <1>4 DEF Materialize, Verify, Export
<1> QED
  BY <1>1, <1>2, <1>3, <1>4 DEF Next

(* Every step keeps it.                                                    *)
LEMMA StepOK ==
  ASSUME PCInv, [Next]_vars
  PROVE  PCInv'
<1>1. /\ DocumentsOK /\ RecordsOK /\ EvidenceOK /\ moves \in 0 .. MaxMoves /\ BundleOK
      /\ IsFiniteSet(documents) /\ IsFiniteSet(records) /\ IsFiniteSet(evidence)
  BY DEF PCInv
<1>2. DocumentStep /\ DocumentsOK' /\ IsFiniteSet(documents')
  BY <1>1, DocumentSteps, DocumentsStayOK, DocumentsStayFinite
<1>3. ASSUME records' = records PROVE RecordsOK' /\ \A c : recordsOf(c)' = recordsOf(c)
  <2>1. \A c : recordsOf(c)' = recordsOf(c)
    BY <1>3 DEF recordsOf
  <2>2. \A l : restsOn(documents, l) => restsOn(documents', l)
    BY <1>2, RestsOnStays
  <2> QED
    BY <1>1, <1>3, <2>1, <2>2 DEF RecordsOK
<1>4. ASSUME records' = records, evidence' = evidence PROVE RecordsOK' /\ EvidenceOK'
  BY <1>1, <1>3, <1>4 DEF EvidenceOK
<1>5. CASE bundle = Null /\ UNCHANGED <<records, evidence, bundle>> /\ moves < MaxMoves /\ moves' = moves + 1
  BY <1>1, <1>2, <1>4, <1>5, BoundsAssumption DEF PCInv, BundleOK
<1>6. ASSUME bundle = Null, NEW applied \in SUBSET Template[Definition].items, NEW catalog,
             Materialize(catalog, applied)
      PROVE  PCInv'
  <2>1. RecordsOK' /\ EvidenceOK' /\ IsFiniteSet(records')
    BY <1>1, <1>6, MaterializeKeepsRecords, MaterializeKeepsEvidence, RecordsStayFinite
  <2>2. moves' = moves /\ bundle' = bundle /\ evidence' = evidence
    BY <1>6 DEF Materialize
  <2> QED
    BY <1>1, <1>2, <1>6, <2>1, <2>2 DEF PCInv, BundleOK
<1>7. ASSUME bundle = Null, NEW verified \in SUBSET Template[Definition].items, Verify(verified) PROVE PCInv'
  <2>1. moves' = moves /\ bundle' = bundle /\ records' = records
    BY <1>7 DEF Verify
  <2>2. RecordsOK' /\ EvidenceOK' /\ IsFiniteSet(evidence')
    BY <1>1, <1>3, <1>7, <2>1, VerifyKeepsEvidence, EvidenceStaysFinite
  <2> QED
    BY <1>1, <1>2, <1>7, <2>1, <2>2 DEF PCInv, BundleOK
<1>8. ASSUME NEW catalog \in Catalog, Export(catalog) PROVE PCInv'
  <2>1. /\ documents' = documents /\ records' = records /\ evidence' = evidence /\ moves' = moves
        /\ bundle' = exportProofChain(catalog)
    BY <1>8 DEF Export
  <2>2. bundle' = exportProofChain(catalog)'
    BY <2>1 DEF exportProofChain
  <2>3. BundleOK'
    BY <2>2 DEF BundleOK
  <2> QED
    BY <1>1, <1>2, <1>4, <2>1, <2>3 DEF PCInv
<1>9. CASE UNCHANGED vars
  <2>1. /\ documents' = documents /\ records' = records /\ evidence' = evidence /\ moves' = moves
        /\ bundle' = bundle
    BY <1>9 DEF vars
  <2>2. \A catalog : exportProofChain(catalog)' = exportProofChain(catalog)
    BY <2>1 DEF exportProofChain
  <2>3. BundleOK'
    BY <1>1, <2>1, <2>2 DEF BundleOK
  <2> QED
    BY <1>1, <1>2, <1>4, <2>1, <2>3 DEF PCInv
<1> QED
  BY <1>5, <1>6, <1>7, <1>8, <1>9, Steps

(* A bundle is exported of a definition in force.                          *)
isExportOf(b, catalog, d) ==
  /\ b.compilation = buildClosure(documents, d, catalog)
  /\ b.definition = pinnedRef(d) /\ b.compilation.definition = b.definition
  /\ d \in documents /\ d.kind = "SystemDefinition" /\ d.id = Definition /\ d.status = "ACCEPTED"
  /\ isContract(d)
  /\ b.contracts = {x \in referenceClosure({get(documents, pinnedRef(d))} \union records \union evidence,
                                           documents \union records \union evidence) :
                      x.kind \notin RECORD_KINDS}

(* It has the compilation, the records and the evidence.                   *)
LEMMA ExportIs ==
  ASSUME DocumentsOK, NEW catalog, NEW b, b = exportProofChain(catalog), b # Null
  PROVE  /\ b.compilation = compile(documents, Definition, catalog) /\ b.compilation # Null
         /\ b.catalog = catalog /\ b.materializations = records /\ b.evidence = evidence
         /\ \E d \in selectDefinition(documents, Definition) : isExportOf(b, catalog, d)
<1>1. PICK closure : closure = compile(documents, Definition, catalog)
  OBVIOUS
<1>2. closure # Null
  BY <1>1 DEF exportProofChain
<1>3. PICK roots : roots = {get(documents, closure.definition)} \union records \union evidence
  OBVIOUS
<1>4. b = [definition |-> closure.definition, catalog |-> catalog, compilation |-> closure,
           contracts |-> {d \in referenceClosure(roots, documents \union records \union evidence) :
                            d.kind \notin RECORD_KINDS},
           materializations |-> records, evidence |-> evidence]
  BY <1>1, <1>2, <1>3 DEF exportProofChain
<1>5. PICK d \in selectDefinition(documents, Definition) :
        /\ closure = buildClosure(documents, d, catalog) /\ closure.definition = pinnedRef(d)
        /\ d \in documents /\ d.kind = "SystemDefinition" /\ d.id = Definition /\ d.status = "ACCEPTED"
        /\ isContract(d)
  BY <1>1, <1>2, CompiledDefinition
<1>6. b.compilation = closure /\ b.definition = closure.definition /\ b.catalog = catalog
      /\ b.materializations = records /\ b.evidence = evidence
  BY <1>4
<1>7. b.contracts = {x \in referenceClosure(roots, documents \union records \union evidence) :
                       x.kind \notin RECORD_KINDS}
  BY <1>4
<1>8. b.contracts = {x \in referenceClosure({get(documents, pinnedRef(d))} \union records \union evidence,
                                            documents \union records \union evidence) :
                       x.kind \notin RECORD_KINDS}
  BY <1>3, <1>5, <1>7
<1>9. b.definition = pinnedRef(d) /\ b.compilation.definition = b.definition
      /\ b.compilation = buildClosure(documents, d, catalog)
  BY <1>5, <1>6
<1> QED
  BY <1>1, <1>2, <1>5, <1>6, <1>8, <1>9 DEF isExportOf

(* It says of the keys, records and bundle what PTypeOK does.              *)
LEMMA InvariantTypes ==
  ASSUME PCInv
  PROVE  PTypeOK
<1>0. DocumentsOK /\ RecordsOK /\ moves \in 0 .. MaxMoves /\ BundleOK
  BY DEF PCInv
<1>1. /\ \A d \in documents : isRevision(d)
      /\ \A d, e \in documents : key(d) = key(e) => d = e
      /\ \A r \in records : r.kind = "MaterializationRecord" /\ r.id = r.component
      /\ \A e \in evidence : e.kind = "EvidenceRecord" /\ e.id = e.component
      /\ \A e, f \in evidence : e.component = f.component => e = f
  BY DEF PCInv, DocumentsOK, RecordsOK, isRecord, EvidenceOK, isEvidence
<1>2. ASSUME NEW d \in documents \union records \union evidence, NEW e \in documents \union records \union evidence,
             key(d) = key(e)
      PROVE  d = e
  <2>1. d.kind = e.kind /\ d.id = e.id /\ d.revision = e.revision
    BY <1>2 DEF key
  <2>2. \A x \in documents : x.kind \notin {"MaterializationRecord", "EvidenceRecord"}
    BY <1>1, Kinds DEF DECIDED_KINDS
  <2>3. CASE d \in documents
    BY <1>1, <1>2, <2>1, <2>2, <2>3
  <2>4. CASE d \in evidence
    BY <1>1, <2>1, <2>2, <2>4
  <2>5. CASE d \in records
    <3>1. e \in records /\ d.component = e.component
      BY <1>1, <2>1, <2>2, <2>5
    <3>2. d \in recordsOf(d.component) /\ e \in recordsOf(d.component)
      BY <2>5, <3>1 DEF recordsOf
    <3> QED
      BY <1>0, <2>1, <3>2, LatestRecord
  <2> QED
    BY <2>3, <2>4, <2>5
<1>3. ASSUME NEW r \in records
      PROVE  /\ (r.status = "VALID") = (r = latestRecord(r.component))
             /\ r.status = "SUPERSEDED" =>
                  \E s \in recordsOf(r.component) : s.supersedes = pinnedRef(r) /\ s.revision = r.revision + 1
  <2>1. r \in recordsOf(r.component)
    BY DEF recordsOf
  <2>2. PICK last : last = latestRecord(r.component)
    OBVIOUS
  <2>3. /\ last.status = "VALID"
        /\ r # last => /\ r.status = "SUPERSEDED"
                       /\ \E s \in recordsOf(r.component) : s.supersedes = pinnedRef(r) /\ s.revision = r.revision + 1
    BY <1>0, <2>1, <2>2, LatestRecord
  <2> QED
    BY <2>2, <2>3
<1>4. bundle # Null => bundle.definition.id = Definition
  <2>1. ASSUME NEW catalog, bundle = exportProofChain(catalog), bundle # Null
        PROVE  bundle.definition.id = Definition
    <3>1. PICK b : b = bundle
      OBVIOUS
    <3>2. b = exportProofChain(catalog) /\ b # Null /\ DocumentsOK
      BY <1>0, <2>1, <3>1
    <3>3. PICK d \in selectDefinition(documents, Definition) : isExportOf(b, catalog, d)
      BY <3>2, ExportIs
    <3>4. b.definition = pinnedRef(d) /\ d.id = Definition
      BY <3>3 DEF isExportOf
    <3> QED
      BY <3>1, <3>4 DEF pinnedRef
  <2> QED
    BY <1>0, <2>1 DEF BundleOK
<1> QED
  BY <1>0, <1>2, <1>3, <1>4 DEF PTypeOK

(* UndecidedWasSuperseded, of each record and of the bundle.               *)
LEMMA ExplainedCompilations ==
  UndecidedWasSuperseded <=>
    /\ \A r \in records : Explained(documents, r.compilation)
    /\ bundle # Null => Explained(documents, bundle.compilation)
BY DEF UndecidedWasSuperseded, Explained, compilations

(* Every step keeps it so.                                                 *)
LEMMA CompiledStaysExplained ==
  ASSUME PCInv, DecisionsSettled, UndecidedWasSuperseded, [Next]_vars
  PROVE  UndecidedWasSuperseded'
<1>1. DocumentsOK /\ RecordsOK /\ IsFiniteSet(documents)
  BY DEF PCInv
<1> DEFINE fine(closure) == Explained(documents', closure)
<1>2. (\A r \in records : fine(r.compilation)) /\ (bundle # Null => fine(bundle.compilation))
  BY <1>1, ExplainedCompilations, StaysExplained
<1>3. ASSUME NEW catalog, compile(documents, Definition, catalog) # Null
      PROVE  fine(compile(documents, Definition, catalog))
  BY <1>1, <1>3, PinsAreExplained, StaysExplained
<1> HIDE DEF fine
<1>4. ASSUME NEW r \in records' PROVE fine(r.compilation)
  <2>1. CASE records' = records
    BY <1>2, <2>1
  <2>2. ASSUME NEW applied, NEW catalog, Materialize(catalog, applied) PROVE fine(r.compilation)
    <3> DEFINE closure == compile(documents, Definition, catalog)
               known == {x \in applied : recordsOf(x) # {}}
    <3>1. /\ closure # Null
          /\ records' = (records \ {latestRecord(c) : c \in known})
                        \union {superseded(s) : s \in {latestRecord(c) : c \in known}}
                        \union {materializationRecord(c, closure) : c \in applied}
      BY <2>2 DEF Materialize
    <3>2. fine(closure)
      BY <1>3, <3>1
    <3> HIDE DEF closure
    <3>3. CASE r \in records
      BY <1>2, <3>3
    <3>4. ASSUME NEW c \in known, r = superseded(latestRecord(c)) PROVE fine(r.compilation)
      <4>1. latestRecord(c) \in records
        BY <1>1, LatestRecord DEF recordsOf
      <4>2. r.compilation = latestRecord(c).compilation
        BY <1>1, <3>4, <4>1, SupersededIs DEF RecordsOK
      <4> QED
        BY <1>2, <4>1, <4>2
    <3>5. ASSUME NEW c \in applied, r = materializationRecord(c, closure) PROVE fine(r.compilation)
      <4>1. r.compilation = closure
        BY <1>1, <3>5, NewRecord
      <4> QED
        BY <3>2, <4>1
    <3> QED
      BY <3>1, <3>3, <3>4, <3>5
  <2> QED
    BY <2>1, <2>2, Steps DEF vars, Verify, Export
<1>5. bundle' # Null => fine(bundle'.compilation)
  <2>1. CASE bundle' = bundle
    BY <1>2, <2>1
  <2>2. ASSUME NEW catalog, Export(catalog) PROVE fine(bundle'.compilation)
    <3>1. compile(documents, Definition, catalog) # Null
          /\ bundle'.compilation = compile(documents, Definition, catalog)
      BY <2>2 DEF Export, exportProofChain
    <3> QED
      BY <1>3, <3>1
  <2> QED
    BY <2>1, <2>2, Steps DEF vars, Materialize, Verify
<1>6. UndecidedWasSuperseded' <=>
        (\A r \in records' : fine(r.compilation)) /\ (bundle' # Null => fine(bundle'.compilation))
  BY DEF UndecidedWasSuperseded, compilations, Explained, fine
<1> QED
  BY <1>4, <1>5, <1>6

(***************************************************************************)
(* Evidence in a bundle.                                                   *)
(***************************************************************************)

(* What a bundle has is its contracts, the records and the evidence.       *)
LEMMA BundleIs ==
  ASSUME PCInv, NEW b, b = bundle, b # Null
  PROVE  /\ b.materializations = records /\ b.evidence = evidence
         /\ \A x \in b.contracts : x.kind \notin RECORD_KINDS
         /\ b.compilation.definition = b.definition /\ b.definition.id = Definition
<1>1. DocumentsOK /\ BundleOK
  BY DEF PCInv
<1>2. PICK catalog \in Catalog : b = exportProofChain(catalog)
  BY <1>1 DEF BundleOK
<1>3. PICK d : isExportOf(b, catalog, d)
  BY <1>1, <1>2, ExportIs
<1>4. b.materializations = records /\ b.evidence = evidence
  BY <1>1, <1>2, ExportIs
<1>5. \A x \in b.contracts : x.kind \notin RECORD_KINDS
  BY <1>3 DEF isExportOf
<1>6. b.compilation.definition = b.definition /\ b.definition = pinnedRef(d) /\ d.id = Definition
  BY <1>3 DEF isExportOf
<1> QED
  BY <1>4, <1>5, <1>6 DEF pinnedRef

(* The revision of a component in force is that of its latest record.      *)
LEMMA RecordInForce ==
  ASSUME PCInv, NEW b, b = bundle, b # Null, NEW c, recordsOf(c) # {}
  PROVE  /\ inForceRevision(bundled(b), "MaterializationRecord", c) >= latestRecord(c).revision
         /\ inForceRevision(bundled(b), "MaterializationRecord", c) \in Nat
<1>1. RecordsOK /\ EvidenceOK
  BY DEF PCInv
<1>2. PICK last : last = latestRecord(c)
  OBVIOUS
<1>3. /\ last \in recordsOf(c) /\ last.status = "VALID" /\ last.revision \in Nat
      /\ \A r \in recordsOf(c) : r.status = "VALID" => r = last
  BY <1>1, <1>2, LatestRecord
<1> DEFINE current == {e \in bundled(b) : e.kind = "MaterializationRecord" /\ e.id = c /\ isInForce(e)}
<1>4. inForceStatus("MaterializationRecord") = "VALID"
  BY DEF inForceStatus, DECIDED_KINDS, RECORD_KINDS
<1>5. ASSUME NEW e \in current PROVE e = last
  <2>1. e \in records
    BY <1>1, BundleIs DEF bundled, RECORD_KINDS, EvidenceOK, isEvidence
  <2>2. e.component = c /\ e.status = "VALID"
    BY <1>1, <1>4, <2>1 DEF RecordsOK, isRecord, isInForce
  <2> QED
    BY <1>3, <2>1, <2>2 DEF recordsOf
<1>6. last \in current
  <2>0. last \in records /\ last.component = c
    BY <1>3 DEF recordsOf
  <2>1. last \in bundled(b) /\ last.kind = "MaterializationRecord" /\ last.id = c
    <3>1. isRecord(last)
      BY <1>1, <2>0 DEF RecordsOK
    <3>2. last \in bundled(b)
      BY <2>0, BundleIs DEF bundled
    <3> QED
      BY <2>0, <3>1, <3>2 DEF isRecord
  <2>2. isInForce(last)
    BY <1>3, <1>4, <2>1 DEF isInForce
  <2> QED
    BY <2>1, <2>2
<1>7. current = {last}
  BY <1>5, <1>6
<1>8. inForceRevision(bundled(b), "MaterializationRecord", c) = Max({0} \union {d.revision : d \in current})
  BY DEF inForceRevision
<1> HIDE DEF current
<1>9. {0} \union {d.revision : d \in current} = {0, last.revision}
  BY <1>7
<1>10. \E n \in {0, last.revision} : \A m \in {0, last.revision} : n >= m
  BY <1>3
<1>11. Max({0, last.revision}) \in {0, last.revision} /\ \A m \in {0, last.revision} : Max({0, last.revision}) >= m
  BY <1>10 DEF Max
<1> QED
  BY <1>2, <1>3, <1>8, <1>9, <1>11

(* Evidence of a superseded record is reported stale.                      *)
LEMMA SupersededIsStale ==
  ASSUME PCInv, NEW b, b = bundle, b # Null,
         NEW e \in evidence, NEW r \in recordsOf(e.component), checks(e, r), r.status # "VALID"
  PROVE  <<"EVIDENCE_STALE", key(e)>> \in validateContractSet(bundled(b))
<1> DEFINE docs == bundled(b)
<1>1. RecordsOK /\ EvidenceOK
  BY DEF PCInv
<1>2. isEvidence(e) /\ isRecord(r) /\ r.component = e.component
  BY <1>1 DEF RecordsOK, EvidenceOK, recordsOf
<1>3. e \in docs /\ isLatest(docs, e)
  <2>1. \A x \in docs : x.kind = "EvidenceRecord" => x.revision = 1
    BY <1>1, BundleIs DEF bundled, RecordsOK, isRecord, EvidenceOK, isEvidence, RECORD_KINDS
  <2>2. e.kind = "EvidenceRecord" /\ e.revision = 1
    BY <1>2 DEF isEvidence
  <2>3. isLatest(docs, e)
    BY <2>1, <2>2 DEF isLatest
  <2> QED
    BY <2>3, BundleIs DEF bundled
<1>4. pinnedRef(r) \in newestCited(e)
  <2>1. specRefs(e) = {materialized(r).ref, pinnedRef(r)}
    BY DEF checks, specRefs
  <2>2. materialized(r).ref.kind = "SystemDefinition"
    BY <1>2 DEF isRecord, materialized
  <2>3. pinnedRef(r).kind = "MaterializationRecord" /\ pinnedRef(r).revision \in Nat
    BY <1>2 DEF isRecord, pinnedRef
  <2> QED
    BY <2>1, <2>2, <2>3 DEF newestCited
<1>5. inForceRevision(docs, "MaterializationRecord", e.component) > r.revision
  <2>1. PICK last : last = latestRecord(e.component)
    OBVIOUS
  <2>2. last.revision \in Nat /\ r.revision \in Nat /\ r.revision < last.revision
    BY <1>1, <2>1, LatestRecord
  <2>3. /\ inForceRevision(docs, "MaterializationRecord", e.component) >= last.revision
        /\ inForceRevision(docs, "MaterializationRecord", e.component) \in Nat
    BY <2>1, RecordInForce
  <2> QED
    BY <2>2, <2>3
<1>6. pinnedRef(r) \in evidenceStaleness(docs, e)
  <2>1. pinnedRef(r).kind = "MaterializationRecord" /\ pinnedRef(r).id = e.component /\ pinnedRef(r).revision = r.revision
    BY <1>2 DEF isRecord, pinnedRef
  <2> QED
    BY <1>4, <1>5, <2>1 DEF evidenceStaleness
<1>7. e.kind = "EvidenceRecord" /\ e.status = "VALID"
  BY <1>2 DEF isEvidence
<1>8. <<"EVIDENCE_STALE", key(e)>> \in crossValidate(docs, e)
  <2> HIDE DEF docs
  <2> QED
    BY <1>3, <1>6, <1>7 DEF crossValidate
<1>9. <<"EVIDENCE_STALE", key(e)>> \in reportedOf(docs, e)
  BY <1>8 DEF reportedOf
<1> QED
  BY <1>3, <1>9, ReportedOfOne

(* In a bundle that verifies, evidence is stale or of what is bundled.     *)
LEMMA InvariantEvidence ==
  ASSUME PCInv
  PROVE  EvidenceIsAboutThis
<1> SUFFICES ASSUME bundle # Null, verifyProofChain(bundle), NEW e \in bundle.evidence,
                    <<"EVIDENCE_STALE", key(e)>> \notin validateContractSet(bundled(bundle))
             PROVE  /\ newestCitedSubject(e) = {bundle.definition}
                    /\ \E r \in bundle.materializations :
                         /\ [role |-> "input", ref |-> pinnedRef(r)] \in e.links
                         /\ r.component = e.component /\ r.status = "VALID" /\ r.compilation = bundle.compilation
  BY DEF EvidenceIsAboutThis
<1>1. PICK b : b = bundle
  OBVIOUS
<1>2. b.materializations = records /\ b.evidence = evidence /\ b.compilation.definition = b.definition
  BY <1>1, BundleIs
<1>3. PICK r \in recordsOf(e.component) : checks(e, r)
  BY <1>1, <1>2 DEF PCInv, EvidenceOK
<1>4. r \in records /\ r.component = e.component
  BY <1>3 DEF recordsOf
<1>5. r.status = "VALID"
  BY <1>1, <1>2, <1>3, SupersededIsStale
<1>6. describes(r, b)
  <2>1. "PROOF_RECORD_MISMATCH" \notin proofDiagnostics(b)
    BY <1>1 DEF verifyProofChain
  <2>2. {s \in b.materializations : s.status = "VALID" /\ ~ describes(s, b)} = {}
    BY <2>1 DEF proofDiagnostics
  <2> QED
    BY <1>2, <1>4, <1>5, <2>2
<1>7. r.compilation = b.compilation /\ materialized(r).ref = b.definition
  BY <1>2, <1>6 DEF describes, materialized
<1>8. newestCitedSubject(e) = {b.definition}
  <2>1. {l \in e.links : l.role = "subject"} = {[role |-> "subject", ref |-> b.definition]}
    BY <1>3, <1>7 DEF checks
  <2>2. newestCitedSubject(e) = {link.ref : link \in {[role |-> "subject", ref |-> b.definition]}}
    BY <2>1, Zenon DEF newestCitedSubject
  <2> QED
    BY <2>2
<1>9. [role |-> "input", ref |-> pinnedRef(r)] \in e.links
  BY <1>3 DEF checks
<1> QED
  BY <1>1, <1>2, <1>4, <1>5, <1>7, <1>8, <1>9

(***************************************************************************)
(* A lifecycle change is not an edit.                                      *)
(***************************************************************************)

(* A revision of a decided contract is superseded.                         *)
IsSuperseded(docs, d, n, docs2) ==
  /\ d \in docs /\ isContract(d) /\ d.kind \in DECIDED_KINDS
  /\ n = [d EXCEPT !.status = "SUPERSEDED"]
  /\ docs2 = (docs \ {d}) \union {n}

(* Each document before has one after it.                                  *)
after(d, n, x) == IF x = d THEN n ELSE x

(* Which is the same but for its status.                                   *)
LEMMA AfterIs ==
  ASSUME NEW docs, NEW d, NEW n, NEW docs2, IsSuperseded(docs, d, n, docs2), NEW x \in docs, NEW y,
         y = after(d, n, x)
  PROVE  /\ y \in docs2 /\ key(y) = key(x) /\ contentOf(y) = contentOf(x) /\ pinnedRef(y) = pinnedRef(x)
         /\ y.kind = x.kind /\ y.links = x.links /\ y.supersedes = x.supersedes /\ y.system = x.system
         /\ y.items = x.items /\ y.component = x.component
         /\ specRefs(y) = specRefs(x) /\ collectRefs(y) = collectRefs(x)
<1>1. CASE x = d
  <2>1. y = n
    BY <1>1 DEF after
  <2>2. /\ key(n) = key(d) /\ contentOf(n) = contentOf(d) /\ pinnedRef(n) = pinnedRef(d)
        /\ n.kind = d.kind /\ n.links = d.links /\ n.supersedes = d.supersedes /\ n.system = d.system
        /\ n.items = d.items /\ n.component = d.component
    BY StatusIsNotContent DEF IsSuperseded
  <2>3. specRefs(n) = specRefs(d) /\ collectRefs(n) = collectRefs(d)
    BY <2>2 DEF specRefs, collectRefs
  <2> QED
    BY <1>1, <2>1, <2>2, <2>3 DEF IsSuperseded
<1>2. CASE x # d
  <2>1. y = x /\ x \in docs2
    BY <1>2 DEF after, IsSuperseded
  <2> QED
    BY <2>1
<1> QED
  BY <1>1, <1>2

(* And each after it one before.                                           *)
LEMMA BeforeIs ==
  ASSUME NEW docs, NEW d, NEW n, NEW docs2, IsSuperseded(docs, d, n, docs2), NEW y \in docs2
  PROVE  \E x \in docs : y = after(d, n, x)
<1>1. CASE y = n
  BY <1>1 DEF IsSuperseded, after
<1>2. CASE y # n
  BY <1>2 DEF IsSuperseded, after
<1> QED
  BY <1>1, <1>2

(* A reference resolves to the revision after.                             *)
LEMMA AfterGet ==
  ASSUME NEW docs, NEW d, NEW n, NEW docs2, IsSuperseded(docs, d, n, docs2),
         \A x, y \in docs : key(x) = key(y) => x = y, NEW ref, has(docs, ref)
  PROVE  has(docs2, ref) /\ get(docs2, ref) = after(d, n, get(docs, ref))
<1>1. PICK e : e = get(docs, ref)
  OBVIOUS
<1>2. e \in docs /\ key(e) = key(ref)
  BY <1>1, GetFinds
<1>3. PICK f : f = after(d, n, e)
  OBVIOUS
<1>4. f \in docs2 /\ key(f) = key(ref)
  BY <1>2, <1>3, AfterIs
<1>5. ASSUME NEW y \in docs2, key(y) = key(f) PROVE y = f
  <2>1. PICK x \in docs : y = after(d, n, x)
    BY BeforeIs
  <2>2. key(x) = key(y)
    BY <2>1, AfterIs
  <2>3. x = e
    BY <1>2, <1>4, <1>5, <2>2
  <2> QED
    BY <1>3, <2>1, <2>3
<1>6. key(ref) = key(f)
  BY <1>4
<1> QED
  BY <1>1, <1>3, <1>4, <1>5, <1>6, GetIs

(* Superseding a revision makes no valid set invalid.                      *)
LEMMA SupersedingKeepsValid ==
  ASSUME NEW docs, NEW d, NEW n, NEW docs2, IsSuperseded(docs, d, n, docs2), valid(docs)
  PROVE  valid(docs2)
<1>1. isValidSet(docs)
  BY ValidKeepsRules
<1>2. \A x, y \in docs : key(x) = key(y) => x = y
  BY <1>1 DEF isValidSet
<1>3. d \in docs /\ n.status = "SUPERSEDED" /\ n.kind = d.kind /\ n.kind \in DECIDED_KINDS
      /\ n.acceptance = d.acceptance /\ n.id = d.id /\ n.revision = d.revision /\ n.supersedes = d.supersedes
  BY StatusIsNotContent DEF IsSuperseded
<1>4. validateContract(n) \subseteq validateContract(d)
  <2>1. authorityDiagnostics(n) = authoritative(n) /\ authorityDiagnostics(d) = authoritative(d)
    BY <1>3 DEF authorityDiagnostics, DECIDED_KINDS, RECORD_KINDS
  <2>2. authoritative(n) \subseteq authoritative(d)
    <3>1. n.status \notin DOMAIN DECIDED /\ n.status \notin UNDECIDED
      BY <1>3 DEF DECIDED, UNDECIDED
    <3> QED
      BY <1>3, <3>1 DEF authoritative
  <2>3. {c \in {"CONTRACT_INVALID_SUPERSESSION"} :
           /\ n.supersedes # Null
           /\ \/ <<n.supersedes.kind, n.supersedes.id>> # <<n.kind, n.id>>
              \/ n.supersedes.revision >= n.revision}
        = {c \in {"CONTRACT_INVALID_SUPERSESSION"} :
             /\ d.supersedes # Null
             /\ \/ <<d.supersedes.kind, d.supersedes.id>> # <<d.kind, d.id>>
                \/ d.supersedes.revision >= d.revision}
    BY <1>3
  <2> QED
    BY <2>1, <2>2, <2>3 DEF validateContract
<1>5. ASSUME NEW y \in docs2 PROVE validateContract(y) \subseteq WARNINGS
  <2>1. PICK x \in docs : y = after(d, n, x)
    BY BeforeIs
  <2>2. validateContract(x) \subseteq WARNINGS
    BY <1>1 DEF isValidSet
  <2> QED
    BY <1>4, <2>1, <2>2 DEF after
<1>6. ASSUME NEW y \in docs2, NEW ref \in collectRefs(y) PROVE resolves(docs2, ref)
  <2>1. PICK x \in docs : y = after(d, n, x)
    BY BeforeIs
  <2>2. ref \in collectRefs(x)
    BY <2>1, AfterIs
  <2>3. resolves(docs, ref)
    BY <1>1, <2>2 DEF isValidSet
  <2>4. has(docs2, ref) /\ get(docs2, ref) = after(d, n, get(docs, ref))
    BY <1>2, <2>3, AfterGet DEF resolves
  <2>5. get(docs, ref) \in docs
    BY <2>3, GetFinds DEF resolves
  <2>6. contentOf(get(docs2, ref)) = contentOf(get(docs, ref))
    BY <2>4, <2>5, AfterIs
  <2> QED
    BY <2>3, <2>4, <2>6 DEF resolves
<1>7. ASSUME NEW y \in docs2, NEW l \in y.links PROVE linksWell(docs2, y, l)
  <2>1. PICK x \in docs : y = after(d, n, x)
    BY BeforeIs
  <2>2. l \in x.links /\ y.component = x.component
    BY <2>1, AfterIs
  <2>3. linksWell(docs, x, l) /\ resolves(docs, l.ref)
    BY <1>1, <2>2 DEF isValidSet, collectRefs, specRefs
  <2>4. PICK e, f : e = get(docs, l.ref) /\ f = get(docs2, l.ref)
    OBVIOUS
  <2>5. e \in docs /\ f = after(d, n, e)
    BY <1>2, <2>3, <2>4, AfterGet, GetFinds DEF resolves
  <2>6. f.items = e.items /\ f.kind = e.kind
    BY <2>5, AfterIs
  <2>7. l.role \in RELIED_ROLES => requireReliable(y, f)
    <3>1. CASE y = n
      BY <1>3, <3>1 DEF requireReliable
    <3>2. CASE y # n /\ e = d
      <4>1. "SUPERSEDED" \in reliableStatuses(n.kind)
        BY <1>3 DEF reliableStatuses
      <4> QED
        BY <1>3, <2>5, <3>2, <4>1 DEF requireReliable, after
    <3>3. CASE y # n /\ e # d
      <4>1. y = x /\ f = e
        BY <2>1, <2>5, <3>3 DEF after
      <4> QED
        BY <2>3, <2>4, <4>1 DEF linksWell
    <3> QED
      BY <3>1, <3>2, <3>3
  <2> QED
    BY <2>2, <2>3, <2>4, <2>6, <2>7 DEF linksWell
<1>8. \A x, y \in docs2 : key(x) = key(y) => x = y
  <2>1. ASSUME NEW x \in docs2, NEW y \in docs2, key(x) = key(y) PROVE x = y
    <3>1. PICK p \in docs, q \in docs : x = after(d, n, p) /\ y = after(d, n, q)
      BY BeforeIs
    <3>2. key(p) = key(x) /\ key(q) = key(y)
      BY <3>1, AfterIs
    <3> QED
      BY <1>2, <2>1, <3>1, <3>2
  <2> QED
    BY <2>1
<1>9. systemsOf(docs2) = systemsOf(docs)
  <2>1. \A y \in docs2 : \E x \in docs : x.system = y.system
    BY BeforeIs, AfterIs
  <2>2. \A x \in docs : \E y \in docs2 : x.system = y.system
    BY AfterIs
  <2> QED
    BY <2>1, <2>2 DEF systemsOf
<1>10. docs # {} => ~ (Cardinality(systemsOf(docs)) > 1)
  BY <1>1 DEF isValidSet
<1>11. isValidSet(docs2)
  BY <1>3, <1>5, <1>6, <1>7, <1>8, <1>9, <1>10 DEF isValidSet
<1> QED
  BY <1>11, RulesMakeValid

(* Every document of a valid set links to documents of the set.            *)
LEMMA ValidIsClosed ==
  ASSUME NEW docs, valid(docs), NEW d \in docs, NEW l \in d.links
  PROVE  has(docs, l.ref) /\ get(docs, l.ref) \in docs
<1>1. resolves(docs, l.ref)
  BY ValidKeepsRules DEF isValidSet, collectRefs, specRefs
<1> QED
  BY <1>1, GetFinds DEF resolves

(* The same documents are reached, or what came after them.                *)
LEMMA SameRounds ==
  ASSUME NEW docs, NEW d, NEW n, NEW docs2, IsSuperseded(docs, d, n, docs2), valid(docs),
         NEW definition \in docs, definition # d,
         NEW step, rounds(step, docs, docs, definition),
         NEW step2, rounds(step2, docs2, docs2, definition)
  PROVE  \A k \in Nat : step2[k] = {after(d, n, x) : x \in step[k]}
<1>0. \A x, y \in docs : key(x) = key(y) => x = y
  BY ValidKeepsRules DEF isValidSet
<1> DEFINE image(reached) == {after(d, n, x) : x \in reached}
           T == {k \in Nat : step2[k] = image(step[k])}
<1>1. ASSUME NEW reached \in SUBSET docs PROVE reach(docs2, image(reached)) = image(reach(docs, reached))
  <2> DEFINE named == UNION {specRefs(x) : x \in reached}
  <2>1. named = UNION {specRefs(y) : y \in image(reached)}
    <3>1. \A x \in reached : specRefs(after(d, n, x)) = specRefs(x)
      BY AfterIs
    <3> QED
      BY <3>1
  <2>2. ASSUME NEW r \in named PROVE get(docs2, r) = after(d, n, get(docs, r))
    <3>1. PICK x \in reached : r \in specRefs(x)
      OBVIOUS
    <3>2. has(docs, r)
      BY <3>1, ValidIsClosed DEF specRefs
    <3> QED
      BY <1>0, <3>2, AfterGet
  <2>3. reach(docs2, image(reached)) = image(reached) \union {get(docs2, r) : r \in named}
    BY <2>1 DEF reach
  <2>4. reach(docs, reached) = reached \union {get(docs, r) : r \in named}
    BY DEF reach
  <2> HIDE DEF named
  <2>5. {get(docs2, r) : r \in named} = image({get(docs, r) : r \in named})
    BY <2>2
  <2> QED
    BY <2>3, <2>4, <2>5
<1>2. 0 \in T
  <2>1. step2[0] = {definition} /\ step[0] = {definition}
    BY DEF rounds
  <2>2. after(d, n, definition) = definition
    BY DEF after
  <2>3. image({definition}) = {definition}
    BY <2>2
  <2> QED
    BY <2>1, <2>3
<1>3. ASSUME NEW k \in Nat, k \in T PROVE k + 1 \in T
  <2>1. step[k] \in SUBSET docs /\ step[k + 1] = reach(docs, step[k]) /\ step2[k + 1] = reach(docs2, step2[k])
    BY DEF rounds
  <2>2. step2[k] = image(step[k])
    BY <1>3
  <2> HIDE DEF image
  <2>3. step2[k + 1] = image(step[k + 1])
    BY <1>1, <2>1, <2>2
  <2> QED
    BY <2>3
<1>4. Nat \subseteq T
  <2> HIDE DEF T
  <2> QED
    BY <1>2, <1>3, SetInduction
<1> QED
  BY <1>4

(* So that what is compiled of a definition is the same.                   *)
LEMMA SameClosure ==
  ASSUME NEW docs, IsFiniteSet(docs), NEW d, NEW n, NEW docs2, IsSuperseded(docs, d, n, docs2), valid(docs),
         NEW definition \in docs, definition # d, NEW catalog
  PROVE  buildClosure(docs2, definition, catalog) = buildClosure(docs, definition, catalog)
<1>0. \A x, y \in docs : key(x) = key(y) => x = y
  BY ValidKeepsRules DEF isValidSet
<1>1. valid(docs2) /\ definition \in docs2
  BY SupersedingKeepsValid DEF IsSuperseded
<1>2. PICK step : /\ rounds(step, docs, docs, definition)
                  /\ closureDocuments(docs, definition) = step[Cardinality(docs)] \ {definition}
  BY ValidIsClosed, ClosureSteps
<1>3. PICK step2 : /\ rounds(step2, docs2, docs2, definition)
                   /\ closureDocuments(docs2, definition) = step2[Cardinality(docs2)] \ {definition}
  BY <1>1, ValidIsClosed, ClosureSteps
<1>4. Cardinality(docs) \in Nat
  BY FS_CardinalityType
<1>5. Cardinality(docs2) = Cardinality(docs)
  <2>1. IsFiniteSet(docs \ {d}) /\ Cardinality(docs \ {d}) = Cardinality(docs) - 1
    BY FS_RemoveElement DEF IsSuperseded
  <2>2. n \notin docs \ {d}
    <3>1. d \in docs /\ key(n) = key(d)
      BY StatusIsNotContent DEF IsSuperseded
    <3> QED
      BY <1>0, <3>1
  <2>3. Cardinality((docs \ {d}) \union {n}) = (Cardinality(docs) - 1) + 1
    BY <2>1, <2>2, FS_AddElement
  <2> QED
    BY <1>4, <2>3 DEF IsSuperseded
<1>6. PICK reached : reached = step[Cardinality(docs)]
  OBVIOUS
<1>7. reached \in SUBSET docs
  BY <1>2, <1>4, <1>6 DEF rounds
<1>8. step2[Cardinality(docs)] = {after(d, n, x) : x \in reached}
  BY <1>2, <1>3, <1>4, <1>6, SameRounds
<1>9. closureDocuments(docs, definition) = reached \ {definition}
      /\ closureDocuments(docs2, definition) = {after(d, n, x) : x \in reached} \ {definition}
  BY <1>2, <1>3, <1>5, <1>6, <1>8
<1>10. ASSUME NEW x \in docs
       PROVE  pinnedRef(after(d, n, x)) = pinnedRef(x) /\ (after(d, n, x) = definition <=> x = definition)
  <2>1. pinnedRef(after(d, n, x)) = pinnedRef(x) /\ key(after(d, n, x)) = key(x)
    BY AfterIs
  <2>2. after(d, n, definition) = definition
    BY DEF after
  <2> QED
    BY <1>0, <2>1, <2>2
<1>11. {pinnedRef(y) : y \in {after(d, n, x) : x \in reached} \ {definition}}
       = {pinnedRef(x) : x \in reached \ {definition}}
  BY <1>7, <1>10
<1> QED
  BY <1>9, <1>11 DEF buildClosure

(* And the same definition is selected, unless it is the one superseded.   *)
LEMMA SameSelection ==
  ASSUME DocumentsOK, NEW d, NEW n, NEW docs2, IsSuperseded(documents, d, n, docs2),
         NEW wanted, ~ (d.id = wanted /\ d.status = "ACCEPTED")
  PROVE  /\ selectDefinition(docs2, wanted) = selectDefinition(documents, wanted)
         /\ d \notin selectDefinition(documents, wanted)
<1>1. inForceStatus("SystemDefinition") = "ACCEPTED"
  BY DEF inForceStatus, DECIDED_KINDS, RECORD_KINDS
<1>2. d \in documents /\ n.kind = d.kind /\ n.id = d.id /\ n.revision = d.revision /\ n.status = "SUPERSEDED"
      /\ docs2 = (documents \ {d}) \union {n}
  BY StatusIsNotContent DEF IsSuperseded
<1>3. d \notin selectDefinition(documents, wanted)
  <2> SUFFICES ASSUME d \in selectDefinition(documents, wanted) PROVE FALSE
    OBVIOUS
  <2>1. d.kind = "SystemDefinition" /\ d.id = wanted /\ isInForce(d)
    BY SelectedIsInForce
  <2> QED
    BY <1>1, <2>1 DEF isInForce
<1>4. inForceRevision(docs2, "SystemDefinition", wanted) = inForceRevision(documents, "SystemDefinition", wanted)
  <2> DEFINE current(docs) == {e \in docs : e.kind = "SystemDefinition" /\ e.id = wanted /\ isInForce(e)}
  <2>1. n \notin current(docs2)
    <3> SUFFICES ASSUME n.kind = "SystemDefinition", isInForce(n) PROVE FALSE
      OBVIOUS
    <3> QED
      BY <1>1, <1>2 DEF isInForce
  <2>2. d \notin current(documents)
    <3> SUFFICES ASSUME d.kind = "SystemDefinition", d.id = wanted, isInForce(d) PROVE FALSE
      OBVIOUS
    <3> QED
      BY <1>1 DEF isInForce
  <2>3. current(docs2) = current(documents)
    BY <1>2, <2>1, <2>2
  <2> QED
    BY <2>3 DEF inForceRevision
<1>5. n \notin selectDefinition(docs2, wanted)
  BY <1>2, <1>3, <1>4 DEF selectDefinition
<1>6. selectDefinition(docs2, wanted) = selectDefinition(documents, wanted)
  BY <1>2, <1>3, <1>4, <1>5 DEF selectDefinition
<1> QED
  BY <1>3, <1>6

(* Superseding leaves valid what is valid, and what is compiled as it is.  *)
LEMMA SupersedingIsNoEdit ==
  ASSUME PCInv, NEW d \in documents, Supersede(d), valid(documents)
  PROVE  /\ valid(documents')
         /\ \A catalog \in Catalog :
              ~ (d.id = Definition /\ d.status = "ACCEPTED") =>
                compile(documents', Definition, catalog) = compile(documents, Definition, catalog)
<1>1. DocumentsOK /\ IsFiniteSet(documents) /\ isRevision(d)
  BY DEF PCInv, DocumentsOK
<1>2. PICK n : n = [d EXCEPT !.status = "SUPERSEDED"]
  OBVIOUS
<1>3. IsSuperseded(documents, d, n, documents')
  <2>1. d.kind \in DECIDED_KINDS /\ ~ isDerived(d.id) /\ isContract(d)
    BY <1>1, Kinds DEF Supersede, isRevision
  <2>2. documents' = (documents \ {d}) \union {n}
    BY <1>2, <2>1 DEF Supersede, Retire
  <2> QED
    BY <1>2, <2>1, <2>2 DEF IsSuperseded
<1>4. valid(documents')
  BY <1>3, SupersedingKeepsValid
<1>5. ASSUME NEW catalog, ~ (d.id = Definition /\ d.status = "ACCEPTED")
      PROVE  compile(documents', Definition, catalog) = compile(documents, Definition, catalog)
  <2>1. /\ selectDefinition(documents', Definition) = selectDefinition(documents, Definition)
        /\ d \notin selectDefinition(documents, Definition)
    BY <1>1, <1>3, <1>5, SameSelection
  <2>2. CASE selectDefinition(documents, Definition) = {}
    BY <2>1, <2>2 DEF compile
  <2>3. CASE selectDefinition(documents, Definition) # {}
    <3>1. PICK e : e = CHOOSE x \in selectDefinition(documents, Definition) : TRUE
      OBVIOUS
    <3>2. e \in selectDefinition(documents, Definition)
      BY <2>3, <3>1
    <3>3. e \in documents /\ e # d
      BY <1>1, <2>1, <3>2, SelectedIsInForce
    <3>4. buildClosure(documents', e, catalog) = buildClosure(documents, e, catalog)
      BY <1>1, <1>3, <3>3, SameClosure
    <3>5. compile(documents, Definition, catalog) = buildClosure(documents, e, catalog)
      BY <2>3, <3>1 DEF compile
    <3>6. compile(documents', Definition, catalog) = buildClosure(documents', e, catalog)
      BY <1>4, <2>1, <2>3, <3>1 DEF compile
    <3> QED
      BY <3>4, <3>5, <3>6
  <2> QED
    BY <2>2, <2>3
<1> QED
  BY <1>4, <1>5

(***************************************************************************)
(* An exported bundle verifies.                                            *)
(***************************************************************************)

(* Sets that grow until they do not, and then no more, are all grown after *)
(* as many rounds as there are elements.                                   *)
LEMMA Saturates ==
  ASSUME NEW S, IsFiniteSet(S), NEW f \in [Nat -> SUBSET S], f[0] # {},
         \A n \in Nat : f[n] \subseteq f[n + 1],
         \A n \in Nat : f[n + 1] = f[n] => f[(n + 1) + 1] = f[n + 1]
  PROVE  \A n \in Nat : n >= Cardinality(S) => f[n] = f[Cardinality(S)]
<1> DEFINE size == Cardinality(S)
           T == {n \in Nat : f[n + 1] = f[n] \/ Cardinality(f[n]) >= n + 1}
           U == {n \in Nat : f[size + n] = f[size] /\ f[(size + n) + 1] = f[size + n]}
<1>1. size \in Nat
  BY FS_CardinalityType
<1>2. \A n \in Nat : IsFiniteSet(f[n]) /\ Cardinality(f[n]) \in Nat /\ Cardinality(f[n]) <= size
  <2> SUFFICES ASSUME NEW n \in Nat
               PROVE  IsFiniteSet(f[n]) /\ Cardinality(f[n]) \in Nat /\ Cardinality(f[n]) <= size
    OBVIOUS
  <2>1. f[n] \in SUBSET S
    OBVIOUS
  <2> QED
    BY <2>1, FS_Subset, FS_CardinalityType
<1>3. 0 \in T
  <2>1. Cardinality(f[0]) # 0
    BY <1>2, FS_EmptySet
  <2> QED
    BY <1>2, <2>1
<1>4. ASSUME NEW n \in Nat, n \in T PROVE n + 1 \in T
  <2>1. CASE f[n + 1] = f[n]
    BY <2>1
  <2>2. CASE f[n + 1] # f[n] /\ Cardinality(f[n]) >= n + 1
    <3>1. n + 1 \in Nat /\ f[n] \in SUBSET f[n + 1]
      OBVIOUS
    <3>2. IsFiniteSet(f[n + 1]) /\ Cardinality(f[n + 1]) \in Nat /\ Cardinality(f[n]) \in Nat
      BY <1>2, <3>1
    <3>3. Cardinality(f[n]) <= Cardinality(f[n + 1]) /\ Cardinality(f[n]) # Cardinality(f[n + 1])
      BY <2>2, <3>1, <3>2, FS_Subset
    <3>4. Cardinality(f[n + 1]) >= (n + 1) + 1
      BY <2>2, <3>2, <3>3
    <3> QED
      BY <3>1, <3>4
  <2> QED
    BY <1>4, <2>1, <2>2
<1>5. Nat \subseteq T
  <2> HIDE DEF T
  <2> QED
    BY <1>3, <1>4, SetInduction
<1>6. f[size + 1] = f[size]
  <2>1. Cardinality(f[size]) <= size /\ Cardinality(f[size]) \in Nat /\ size \in T
    BY <1>1, <1>2, <1>5
  <2> HIDE DEF size
  <2> QED
    BY <1>1, <2>1
<1> HIDE DEF size
<1>7. 0 \in U
  BY <1>1, <1>6
<1>8. ASSUME NEW n \in Nat, n \in U PROVE n + 1 \in U
  <2>1. size + n \in Nat /\ size + (n + 1) = (size + n) + 1
    BY <1>1
  <2>2. f[(size + n) + 1] = f[size] /\ f[((size + n) + 1) + 1] = f[(size + n) + 1]
    BY <1>8, <2>1
  <2> QED
    BY <2>1, <2>2
<1>9. Nat \subseteq U
  <2> HIDE DEF U
  <2> QED
    BY <1>7, <1>8, SetInduction
<1>10. ASSUME NEW n \in Nat, n >= size PROVE f[n] = f[size]
  <2>1. n - size \in Nat /\ n = size + (n - size)
    BY <1>1, <1>10
  <2>2. f[size + (n - size)] = f[size]
    BY <1>9, <2>1
  <2> QED
    BY <2>1, <2>2
<1> QED
  BY <1>10 DEF size

(* One more round of following references of specs and metadata.           *)
reachNamed(all, reached) ==
  reached \union {get(all, r) : r \in {s \in UNION {collectRefs(d) : d \in reached} : has(all, s)}}

(* The documents reached from roots, round by round.                       *)
namedRounds(step, all, roots) ==
  /\ step \in [Nat -> SUBSET all] /\ step[0] = roots
  /\ \A n \in Nat : step[n + 1] = reachNamed(all, step[n])

(* They stay within the set that is bundled from.                          *)
LEMMA ReferenceSteps ==
  ASSUME NEW all, NEW roots \in SUBSET all
  PROVE  \E step : /\ namedRounds(step, all, roots)
                   /\ referenceClosure(roots, all) = step[Cardinality(all)]
<1> DEFINE next == [pair \in (SUBSET all) \X Nat |-> reachNamed(all, pair[1])]
<1>1. ASSUME NEW reached \in SUBSET all PROVE reachNamed(all, reached) \in SUBSET all
  BY GetFinds DEF reachNamed
<1>2. next \in [(SUBSET all) \X Nat -> SUBSET all]
  BY <1>1
<1>3. \A reached \in SUBSET all, n \in Nat : next[<<reached, n>>] = reachNamed(all, reached)
  OBVIOUS
<1> HIDE DEF next
<1>4. PICK f \in [Nat -> SUBSET all] : Recurs(f, roots, next)
  BY <1>2, NatRecursion
<1>5. \A n \in Nat \ {0} : f[n] = reachNamed(all, f[n - 1])
  <2> SUFFICES ASSUME NEW n \in Nat \ {0} PROVE f[n] = reachNamed(all, f[n - 1])
    OBVIOUS
  <2>1. n - 1 \in Nat
    OBVIOUS
  <2>2. f[n - 1] \in SUBSET all
    BY <1>4, <2>1
  <2> QED
    BY <1>3, <1>4, <2>2 DEF Recurs
<1> DEFINE step == CHOOSE g : g = [n \in Nat |-> IF n = 0 THEN roots ELSE reachNamed(all, g[n - 1])]
<1>6. f = [n \in Nat |-> IF n = 0 THEN roots ELSE reachNamed(all, f[n - 1])]
  BY <1>4, <1>5 DEF Recurs
<1>7. step = [n \in Nat |-> IF n = 0 THEN roots ELSE reachNamed(all, step[n - 1])]
  BY <1>6
<1>8. referenceClosure(roots, all) = step[Cardinality(all)]
  BY DEF referenceClosure, reachNamed
<1> HIDE DEF step
<1>9. step[0] = roots
  BY <1>7
<1>10. ASSUME NEW n \in Nat PROVE step[n + 1] = reachNamed(all, step[n])
  <2>1. n + 1 \in Nat /\ n + 1 # 0 /\ (n + 1) - 1 = n
    OBVIOUS
  <2>2. step[n + 1] = IF n + 1 = 0 THEN roots ELSE reachNamed(all, step[(n + 1) - 1])
    BY <1>7, <2>1, Zenon
  <2> QED
    BY <2>1, <2>2
<1>11. step \in [Nat -> SUBSET all]
  <2> DEFINE T == {n \in Nat : step[n] \in SUBSET all}
  <2>1. 0 \in T
    BY <1>9
  <2>2. ASSUME NEW n \in Nat, n \in T PROVE n + 1 \in T
    BY <1>1, <1>10, <2>2
  <2>3. Nat \subseteq T
    <3> HIDE DEF T
    <3> QED
      BY <2>1, <2>2, SetInduction
  <2> QED
    BY <1>7, <2>3
<1>12. namedRounds(step, all, roots)
  BY <1>9, <1>10, <1>11 DEF namedRounds
<1> QED
  BY <1>8, <1>12

(* A part of a set that has what its documents name.                       *)
isClosedPart(part, all) ==
  part \subseteq all /\ \A d \in part : \A ref \in collectRefs(d) : has(all, ref) => get(all, ref) \in part

(* The closure of roots is such a part, and has the roots.                 *)
LEMMA ReferencesAreReached ==
  ASSUME NEW all, IsFiniteSet(all), NEW roots \in SUBSET all, roots # {}
  PROVE  roots \subseteq referenceClosure(roots, all) /\ isClosedPart(referenceClosure(roots, all), all)
<1>1. PICK step : namedRounds(step, all, roots) /\ referenceClosure(roots, all) = step[Cardinality(all)]
  BY ReferenceSteps
<1>2. step \in [Nat -> SUBSET all] /\ step[0] = roots /\ \A n \in Nat : step[n + 1] = reachNamed(all, step[n])
  BY <1>1 DEF namedRounds
<1>3. Cardinality(all) \in Nat
  BY FS_CardinalityType
<1>4. \A n \in Nat : step[n] \subseteq step[n + 1]
  BY <1>2 DEF reachNamed
<1>5. \A n \in Nat : step[n + 1] = step[n] => step[(n + 1) + 1] = step[n + 1]
  <2> SUFFICES ASSUME NEW n \in Nat, step[n + 1] = step[n] PROVE step[(n + 1) + 1] = step[n + 1]
    OBVIOUS
  <2>1. n + 1 \in Nat
    OBVIOUS
  <2>2. step[(n + 1) + 1] = reachNamed(all, step[n + 1]) /\ step[n + 1] = reachNamed(all, step[n])
    BY <1>2, <2>1
  <2> QED
    BY <2>2
<1>6. \A n \in Nat : n >= Cardinality(all) => step[n] = step[Cardinality(all)]
  BY <1>2, <1>4, <1>5, Saturates
<1>7. PICK C : C = step[Cardinality(all)]
  OBVIOUS
<1>8. reachNamed(all, C) = C
  <2>1. Cardinality(all) + 1 \in Nat /\ Cardinality(all) + 1 >= Cardinality(all)
    BY <1>3
  <2> QED
    BY <1>2, <1>3, <1>6, <1>7, <2>1
<1>9. roots \subseteq C
  <2> DEFINE T == {n \in Nat : roots \subseteq step[n]}
  <2>1. 0 \in T
    BY <1>2
  <2>2. ASSUME NEW n \in Nat, n \in T PROVE n + 1 \in T
    BY <1>4, <2>2
  <2>3. Nat \subseteq T
    <3> HIDE DEF T
    <3> QED
      BY <2>1, <2>2, SetInduction
  <2> QED
    BY <1>3, <1>7, <2>3
<1>10. C \subseteq all
  BY <1>2, <1>3, <1>7
<1>11. ASSUME NEW d \in C, NEW ref \in collectRefs(d), has(all, ref) PROVE get(all, ref) \in C
  <2>1. ref \in {s \in UNION {collectRefs(x) : x \in C} : has(all, s)}
    BY <1>11
  <2>2. get(all, ref) \in reachNamed(all, C)
    BY <2>1 DEF reachNamed
  <2> QED
    BY <1>8, <2>2
<1> QED
  BY <1>1, <1>7, <1>9, <1>10, <1>11 DEF isClosedPart

(* In such a part of a valid set, a reference finds what it did.           *)
LEMMA PartFinds ==
  ASSUME NEW all, isValidSet(all), NEW part, isClosedPart(part, all),
         NEW d \in part, NEW ref \in collectRefs(d)
  PROVE  /\ resolves(all, ref) /\ get(all, ref) \in part
         /\ has(part, ref) /\ get(part, ref) = get(all, ref)
<1>1. d \in all /\ resolves(all, ref)
  BY DEF isClosedPart, isValidSet
<1>2. PICK e : e = get(all, ref)
  OBVIOUS
<1>3. e \in part /\ key(ref) = key(e)
  BY <1>1, <1>2, GetFinds DEF isClosedPart, resolves
<1>4. \A x \in part : key(x) = key(e) => x = e
  BY <1>3 DEF isClosedPart, isValidSet
<1>5. has(part, ref) /\ get(part, ref) = e
  BY <1>3, <1>4, GetIs
<1> QED
  BY <1>1, <1>2, <1>3, <1>5

(* So that it is valid, too.                                               *)
LEMMA PartIsValid ==
  ASSUME NEW all, IsFiniteSet(all), isValidSet(all), NEW part, isClosedPart(part, all)
  PROVE  isValidSet(part)
<1>1. part \subseteq all
  BY DEF isClosedPart
<1>2. \A d \in part : validateContract(d) \subseteq WARNINGS
  BY <1>1 DEF isValidSet
<1>3. ASSUME NEW d \in part, NEW ref \in collectRefs(d) PROVE resolves(part, ref)
  BY PartFinds DEF resolves
<1>4. ASSUME NEW d \in part, NEW l \in d.links PROVE linksWell(part, d, l)
  <2>1. l.ref \in collectRefs(d)
    BY DEF collectRefs, specRefs
  <2>2. get(part, l.ref) = get(all, l.ref)
    BY <2>1, PartFinds
  <2>3. linksWell(all, d, l)
    BY <1>1 DEF isValidSet
  <2> QED
    BY <2>2, <2>3 DEF linksWell
<1>5. \A d, e \in part : key(d) = key(e) => d = e
  BY <1>1 DEF isValidSet
<1>6. part # {} => ~ (Cardinality(systemsOf(part)) > 1)
  <2>1. ~ (Cardinality(systemsOf(all)) > 1) \/ part = {}
    BY <1>1 DEF isValidSet
  <2>2. systemsOf(part) \in SUBSET systemsOf(all)
    BY <1>1 DEF systemsOf
  <2>3. IsFiniteSet(systemsOf(all))
    <3>1. PICK f : f = [d \in all |-> d.system]
      OBVIOUS
    <3>2. DOMAIN f = all /\ f = [d \in all |-> f[d]]
      BY <3>1
    <3>3. {d.system : d \in all} = {f[d] : d \in all}
      BY <3>1
    <3>4. IsFiniteSet({d.system : d \in all})
      BY <3>2, <3>3, FiniteImage
    <3>5. systemsOf(all) \in SUBSET {d.system : d \in all}
      BY DEF systemsOf
    <3> QED
      BY <3>4, <3>5, FS_Subset
  <2>4. Cardinality(systemsOf(part)) <= Cardinality(systemsOf(all))
    BY <2>2, <2>3, FS_Subset
  <2>5. Cardinality(systemsOf(part)) \in Nat /\ Cardinality(systemsOf(all)) \in Nat
    BY <2>2, <2>3, FS_Subset, FS_CardinalityType
  <2> QED
    BY <2>1, <2>4, <2>5
<1> QED
  BY <1>2, <1>3, <1>4, <1>5, <1>6 DEF isValidSet

(* And what a definition reaches in it is what it reached.                 *)
LEMMA PartReaches ==
  ASSUME NEW all, IsFiniteSet(all), isValidSet(all), NEW part, isClosedPart(part, all), NEW definition \in part
  PROVE  closureDocuments(part, definition) = closureDocuments(all, definition)
<1>1. definition \in all /\ part \in SUBSET all /\ IsFiniteSet(part)
  BY FS_Subset DEF isClosedPart
<1>2. ASSUME NEW d \in part, NEW r \in specRefs(d)
      PROVE  get(part, r) = get(all, r) /\ get(part, r) \in part
  BY PartFinds DEF collectRefs
<1>3. \A d \in all : \A l \in d.links : get(all, l.ref) \in all
  BY GetFinds DEF isValidSet, resolves, collectRefs, specRefs
<1>4. \A d \in part : \A l \in d.links : get(part, l.ref) \in part
  BY <1>2 DEF specRefs
<1>5. PICK step : /\ rounds(step, part, part, definition)
                  /\ closureDocuments(part, definition) = step[Cardinality(part)] \ {definition}
  BY <1>4, ClosureSteps
<1>6. PICK step2 : /\ rounds(step2, all, all, definition)
                   /\ closureDocuments(all, definition) = step2[Cardinality(all)] \ {definition}
  BY <1>1, <1>3, ClosureSteps
<1>7. /\ step \in [Nat -> SUBSET part] /\ step[0] = {definition}
      /\ \A n \in Nat : step[n + 1] = reach(part, step[n])
      /\ step2[0] = {definition} /\ \A n \in Nat : step2[n + 1] = reach(all, step2[n])
  BY <1>5, <1>6 DEF rounds
<1>8. ASSUME NEW reached \in SUBSET part PROVE reach(part, reached) = reach(all, reached)
  <2> DEFINE named == UNION {specRefs(d) : d \in reached}
  <2>1. \A r \in named : get(part, r) = get(all, r)
    BY <1>2
  <2>2. reach(part, reached) = reached \union {get(part, r) : r \in named}
        /\ reach(all, reached) = reached \union {get(all, r) : r \in named}
    BY DEF reach
  <2> HIDE DEF named
  <2> QED
    BY <2>1, <2>2
<1>9. \A n \in Nat : step[n] = step2[n]
  <2> DEFINE T == {n \in Nat : step[n] = step2[n]}
  <2>1. 0 \in T
    BY <1>7
  <2>2. ASSUME NEW n \in Nat, n \in T PROVE n + 1 \in T
    <3>1. step[n] \in SUBSET part
      BY <1>7
    <3> QED
      BY <1>7, <1>8, <2>2, <3>1
  <2>3. Nat \subseteq T
    <3> HIDE DEF T
    <3> QED
      BY <2>1, <2>2, SetInduction
  <2> QED
    BY <2>3
<1>10. step[Cardinality(all)] = step[Cardinality(part)]
  <2>1. \A n \in Nat : step[n] \subseteq step[n + 1]
    BY <1>7 DEF reach
  <2>2. \A n \in Nat : step[n + 1] = step[n] => step[(n + 1) + 1] = step[n + 1]
    <3> SUFFICES ASSUME NEW n \in Nat, step[n + 1] = step[n] PROVE step[(n + 1) + 1] = step[n + 1]
      OBVIOUS
    <3>1. step[(n + 1) + 1] = reach(part, step[n + 1]) /\ step[n + 1] = reach(part, step[n])
      BY <1>7
    <3> QED
      BY <3>1
  <2>3. step[0] # {}
    BY <1>7
  <2>4. \A n \in Nat : n >= Cardinality(part) => step[n] = step[Cardinality(part)]
    BY <1>1, <1>7, <2>1, <2>2, <2>3, Saturates
  <2>5. Cardinality(all) \in Nat /\ Cardinality(part) \in Nat /\ Cardinality(part) <= Cardinality(all)
    BY <1>1, FS_Subset, FS_CardinalityType
  <2> QED
    BY <2>4, <2>5
<1>11. Cardinality(all) \in Nat
  BY FS_CardinalityType
<1> QED
  BY <1>5, <1>6, <1>9, <1>10, <1>11

(* The definition that is selected of the documents is that of a part that *)
(* has it.                                                                 *)
LEMMA PartSelects ==
  ASSUME DocumentsOK, NEW part \in SUBSET documents, NEW wanted,
         NEW d \in selectDefinition(documents, wanted), d \in part
  PROVE  selectDefinition(part, wanted) = {d}
<1>1. d \in documents /\ d.kind = "SystemDefinition" /\ d.id = wanted /\ isInForce(d)
      /\ d.revision = inForceRevision(documents, "SystemDefinition", wanted)
  BY SelectedIsInForce DEF selectDefinition
<1> DEFINE current(docs) == {e \in docs : e.kind = "SystemDefinition" /\ e.id = wanted /\ isInForce(e)}
           numbers(docs) == {0} \union {e.revision : e \in current(docs)}
<1>2. /\ numbers(documents) \in SUBSET Nat /\ numbers(documents) # {}
      /\ \A n \in numbers(documents) : n <= MaxRevision + 1
  BY BoundsAssumption DEF DocumentsOK, isRevision
<1>3. \E n \in numbers(documents) : \A m \in numbers(documents) : m <= n
  <2>1. MaxRevision + 1 \in Nat
    BY BoundsAssumption
  <2> HIDE DEF numbers
  <2> QED
    BY <1>2, <2>1, GreatestElement
<1>4. numbers(part) \subseteq numbers(documents) /\ d.revision \in numbers(part)
  BY <1>1
<1>5. d.revision = Max(numbers(documents)) /\ inForceRevision(part, "SystemDefinition", wanted) = Max(numbers(part))
  BY <1>1 DEF inForceRevision
<1>6. inForceRevision(part, "SystemDefinition", wanted) = d.revision
  <2> HIDE DEF numbers, current
  <2>1. \A m \in numbers(documents) : m <= d.revision
    BY <1>2, <1>3, <1>5 DEF Max
  <2>2. \A m \in numbers(part) : d.revision >= m /\ m \in Nat
    BY <1>2, <1>4, <2>1
  <2>3. d.revision \in Nat
    BY <1>4, <2>2
  <2>4. \E n \in numbers(part) : \A m \in numbers(part) : n >= m
    BY <1>4, <2>2
  <2>5. Max(numbers(part)) \in numbers(part) /\ \A m \in numbers(part) : Max(numbers(part)) >= m
    BY <2>4 DEF Max
  <2>6. Max(numbers(part)) = d.revision
    BY <1>4, <2>2, <2>3, <2>5
  <2> QED
    BY <1>5, <2>6
<1>7. ASSUME NEW x \in part, x.kind = "SystemDefinition", x.id = wanted, x.revision = d.revision PROVE x = d
  <2>1. key(x) = key(d)
    BY <1>1, <1>7 DEF key
  <2> QED
    BY <1>1, <2>1 DEF DocumentsOK
<1> QED
  BY <1>1, <1>6, <1>7 DEF selectDefinition

(* A reference resolves to the only document with its key.                 *)
LEMMA ResolvesTo ==
  ASSUME NEW docs, \A x, y \in docs : key(x) = key(y) => x = y,
         NEW ref, NEW e \in docs, key(e) = key(ref), contentOf(e) = ref.digest
  PROVE  resolves(docs, ref) /\ get(docs, ref) = e
<1>1. has(docs, ref) /\ get(docs, ref) = e
  <2>1. \A x \in docs : key(x) = key(e) => x = e
    OBVIOUS
  <2>2. key(ref) = key(e)
    OBVIOUS
  <2> QED
    BY <2>1, <2>2, GetIs
<1> QED
  BY <1>1 DEF resolves

(* The set of all that a repository has.                                   *)
repository == documents \union records \union evidence

(* Of a record in it nothing is reported ...                               *)
LEMMA RecordIsValid ==
  ASSUME PCInv, NEW r \in records
  PROVE  /\ validateContract(r) = {}
         /\ \A ref \in collectRefs(r) : resolves(repository, ref)
         /\ \A l \in r.links : linksWell(repository, r, l)
         /\ r.component \in get(repository, materialized(r).ref).items
<1>1. RecordsOK /\ isRecord(r) /\ restsOn(documents, materialized(r))
  BY DEF PCInv, RecordsOK
<1>2. r.links = {materialized(r)} /\ specRefs(r) = {materialized(r).ref}
  BY <1>1 DEF isRecord, specRefs
<1>3. \A x, y \in repository : key(x) = key(y) => x = y
  BY InvariantTypes DEF PTypeOK, repository
<1>4. r.supersedes # Null =>
        \E s \in records : /\ r.supersedes = pinnedRef(s) /\ isRecord(s)
                           /\ s.component = r.component /\ s.revision < r.revision
  <2>1. r \in recordsOf(r.component) /\ isHistory(recordsOf(r.component))
    BY <1>1 DEF RecordsOK, recordsOf
  <2>2. r.supersedes # Null =>
          \E s \in recordsOf(r.component) : r.supersedes = pinnedRef(s) /\ s.revision < r.revision
    BY <2>1 DEF isHistory
  <2> QED
    BY <1>1, <2>2 DEF RecordsOK, recordsOf
<1>5. validateContract(r) = {}
  <2>1. authorityDiagnostics(r) = record(r)
    BY <1>1 DEF authorityDiagnostics, isRecord, DECIDED_KINDS, RECORD_KINDS
  <2>2. record(r) = {}
    <3>1. r.kind = "MaterializationRecord" /\ r.actor = "COMPILER" /\ r.acceptance = Null
      BY <1>1 DEF isRecord
    <3>2. applyActor("COMPILER") = {}
      BY DEF applyActor
    <3> QED
      BY <3>1, <3>2 DEF record
  <2>3. ASSUME r.supersedes # Null
        PROVE  /\ <<r.supersedes.kind, r.supersedes.id>> = <<r.kind, r.id>>
               /\ ~ (r.supersedes.revision >= r.revision)
    <3>1. PICK s \in records : /\ r.supersedes = pinnedRef(s) /\ isRecord(s)
                               /\ s.component = r.component /\ s.revision < r.revision
      BY <1>4, <2>3
    <3>2. r.supersedes.kind = s.kind /\ r.supersedes.id = s.id /\ r.supersedes.revision = s.revision
      BY <3>1 DEF pinnedRef
    <3>3. s.kind = r.kind /\ s.id = r.id /\ s.revision \in Nat /\ r.revision \in Nat
      BY <1>1, <3>1 DEF isRecord
    <3> QED
      BY <3>1, <3>2, <3>3
  <2> QED
    BY <2>1, <2>2, <2>3 DEF validateContract
<1>6. PICK e \in documents : key(e) = key(materialized(r).ref) /\ contentOf(e) = materialized(r).ref.digest
  BY <1>1 DEF restsOn
<1>7. e \in repository /\ isContract(e)
  BY <1>6 DEF repository, PCInv, DocumentsOK, isRevision
<1>8. resolves(repository, materialized(r).ref) /\ get(repository, materialized(r).ref) = e
  BY <1>3, <1>6, <1>7, ResolvesTo
<1>9. r.component \in e.items
  <2>1. contentOf(e).items = e.items
    BY <1>7 DEF isContract, contentOf
  <2>2. materialized(r).ref = r.compilation.definition
    BY DEF materialized
  <2> QED
    BY <1>1, <1>6, <2>1, <2>2 DEF isRecord
<1>10. ASSUME NEW ref \in collectRefs(r) PROVE resolves(repository, ref)
  <2>1. CASE ref = materialized(r).ref
    BY <1>8, <2>1
  <2>2. CASE ref # materialized(r).ref
    <3>1. r.supersedes # Null /\ ref = r.supersedes
      BY <1>2, <2>2 DEF collectRefs
    <3>2. PICK s \in records : ref = pinnedRef(s) /\ isRecord(s)
      BY <1>4, <3>1
    <3>3. s \in repository /\ key(s) = key(ref) /\ contentOf(s) = ref.digest
      BY <3>2 DEF repository, pinnedRef, key
    <3> QED
      BY <1>3, <3>3, ResolvesTo
  <2> QED
    BY <2>1, <2>2
<1>11. ASSUME NEW l \in r.links PROVE linksWell(repository, r, l)
  <2>1. l = materialized(r) /\ l.role = "materialized" /\ l.ref.kind = "SystemDefinition"
    BY <1>1, <1>2 DEF materialized, isRecord
  <2>2. expectedKind[l.role] = "SystemDefinition" /\ l.role \notin RELIED_ROLES
    BY <2>1 DEF expectedKind, RELIED_ROLES
  <2> QED
    BY <1>8, <1>9, <2>1, <2>2 DEF linksWell
<1> QED
  BY <1>5, <1>8, <1>9, <1>10, <1>11

(* ... and nothing but warnings of the evidence of one.                    *)
LEMMA EvidenceIsValid ==
  ASSUME PCInv, NEW e \in evidence
  PROVE  /\ validateContract(e) = {}
         /\ \A ref \in collectRefs(e) : resolves(repository, ref)
         /\ \A l \in e.links : linksWell(repository, e, l)
<1>1. EvidenceOK /\ isEvidence(e)
  BY DEF PCInv, EvidenceOK
<1>2. PICK r \in records : r.component = e.component /\ checks(e, r)
  BY <1>1 DEF EvidenceOK, recordsOf
<1>3. \A x, y \in repository : key(x) = key(y) => x = y
  BY InvariantTypes DEF PTypeOK, repository
<1>4. validateContract(e) = {}
  <2>1. authorityDiagnostics(e) = record(e)
    BY <1>1 DEF authorityDiagnostics, isEvidence, DECIDED_KINDS, RECORD_KINDS
  <2>2. record(e) = {}
    <3>1. e.kind = "EvidenceRecord" /\ e.actor = "CHECKER" /\ e.acceptance = Null
      BY <1>1 DEF isEvidence
    <3>2. verifyActor("CHECKER") = {}
      BY DEF verifyActor
    <3> QED
      BY <3>1, <3>2 DEF record
  <2>3. e.supersedes = Null
    BY <1>1 DEF isEvidence
  <2> QED
    BY <2>1, <2>2, <2>3 DEF validateContract
<1>5. collectRefs(e) = {materialized(r).ref, pinnedRef(r)}
  <2>1. specRefs(e) = {materialized(r).ref, pinnedRef(r)}
    BY <1>2 DEF checks, specRefs
  <2> QED
    BY <1>1, <2>1 DEF collectRefs, isEvidence
<1>6. resolves(repository, materialized(r).ref) /\ r.component \in get(repository, materialized(r).ref).items
  <2>1. materialized(r).ref \in collectRefs(r)
    BY RecordIsValid DEF collectRefs, specRefs, PCInv, RecordsOK, isRecord
  <2> QED
    BY <2>1, RecordIsValid
<1>7. resolves(repository, pinnedRef(r))
  <2>1. r \in repository /\ key(r) = key(pinnedRef(r)) /\ contentOf(r) = pinnedRef(r).digest
    BY DEF repository, pinnedRef, key
  <2> QED
    BY <1>3, <2>1, ResolvesTo
<1>8. ASSUME NEW l \in e.links PROVE linksWell(repository, e, l)
  <2>1. \/ l.role = "subject" /\ l.ref = materialized(r).ref
        \/ l.role = "input"
    BY <1>2 DEF checks
  <2>2. expectedKind[l.role] = Null /\ l.role \notin RELIED_ROLES
    BY <2>1 DEF expectedKind, RELIED_ROLES
  <2>3. l.role \in {"subject", "materialized"} => e.component \in {Null} \union get(repository, l.ref).items
    BY <1>2, <1>6, <2>1
  <2> QED
    BY <2>2, <2>3 DEF linksWell
<1> QED
  BY <1>4, <1>5, <1>6, <1>7, <1>8

(* So that all of it is valid when the documents are.                      *)
LEMMA RepositoryIsValid ==
  ASSUME PCInv, valid(documents), NEW definition \in documents, definition.id = Definition
  PROVE  isValidSet(repository) /\ IsFiniteSet(repository)
<1>1. isValidSet(documents) /\ DocumentsOK /\ RecordsOK /\ EvidenceOK
  BY ValidKeepsRules DEF PCInv
<1>2. IsFiniteSet(repository)
  <2>1. IsFiniteSet(documents) /\ IsFiniteSet(records) /\ IsFiniteSet(evidence)
    BY DEF PCInv
  <2>2. IsFiniteSet(documents \union records)
    BY <2>1, FS_Union
  <2> QED
    BY <2>1, <2>2, FS_Union DEF repository
<1>3. \A x, y \in repository : key(x) = key(y) => x = y
  BY InvariantTypes DEF PTypeOK, repository
<1>4. ASSUME NEW d \in documents
      PROVE  /\ validateContract(d) \subseteq WARNINGS
             /\ \A ref \in collectRefs(d) : resolves(repository, ref)
             /\ \A l \in d.links : linksWell(repository, d, l)
  <2>1. ASSUME NEW ref \in collectRefs(d)
        PROVE  resolves(repository, ref) /\ get(repository, ref) = get(documents, ref)
    <3>1. PICK e : e = get(documents, ref)
      OBVIOUS
    <3>2. resolves(documents, ref)
      BY <1>1 DEF isValidSet
    <3>3. e \in documents /\ key(e) = key(ref) /\ contentOf(e) = ref.digest
      BY <3>1, <3>2, GetFinds DEF resolves
    <3>4. e \in repository
      BY <3>3 DEF repository
    <3> QED
      BY <1>3, <3>1, <3>3, <3>4, ResolvesTo
  <2>2. ASSUME NEW l \in d.links PROVE linksWell(repository, d, l)
    <3>1. get(repository, l.ref) = get(documents, l.ref)
      BY <2>1 DEF collectRefs, specRefs
    <3>2. linksWell(documents, d, l)
      BY <1>1 DEF isValidSet
    <3> QED
      BY <3>1, <3>2 DEF linksWell
  <2>3. validateContract(d) \subseteq WARNINGS
    BY <1>1 DEF isValidSet
  <2> QED
    BY <2>1, <2>2, <2>3
<1>5. ASSUME NEW d \in repository
      PROVE  /\ validateContract(d) \subseteq WARNINGS
             /\ \A ref \in collectRefs(d) : resolves(repository, ref)
             /\ \A l \in d.links : linksWell(repository, d, l)
  <2>1. CASE d \in documents
    BY <1>4, <2>1
  <2>2. CASE d \in records
    BY <2>2, RecordIsValid
  <2>3. CASE d \in evidence
    BY <2>3, EvidenceIsValid
  <2> QED
    BY <2>1, <2>2, <2>3 DEF repository
<1>6. systemsOf(repository) = systemsOf(documents)
  <2>1. definition.system = Template[Definition].system
    BY <1>1 DEF DocumentsOK, isRevision
  <2>2. \A r \in records \union evidence : r.system = Template[Definition].system
    BY <1>1 DEF RecordsOK, isRecord, EvidenceOK, isEvidence
  <2> QED
    BY <2>1, <2>2 DEF systemsOf, repository
<1>7. ~ (Cardinality(systemsOf(repository)) > 1)
  BY <1>1, <1>6 DEF isValidSet
<1> QED
  BY <1>2, <1>3, <1>5, <1>7 DEF isValidSet

(* What is bundled is a part of it that has what its documents name.       *)
LEMMA BundleIsClosed ==
  ASSUME PCInv, valid(documents), NEW b, NEW catalog, NEW d, isExportOf(b, catalog, d),
         b.materializations = records, b.evidence = evidence
  PROVE  /\ isClosedPart(bundled(b), repository) /\ isClosedPart(b.contracts, documents)
         /\ d \in b.contracts
<1>1. d \in documents /\ isContract(d) /\ d.id = Definition
      /\ b.contracts = {x \in referenceClosure({get(documents, pinnedRef(d))} \union records \union evidence,
                                               documents \union records \union evidence) :
                          x.kind \notin RECORD_KINDS}
  BY DEF isExportOf
<1>2. isValidSet(documents) /\ isValidSet(repository) /\ IsFiniteSet(repository)
  BY <1>1, RepositoryIsValid, ValidKeepsRules
<1>3. get(documents, pinnedRef(d)) = d
  <2>1. key(pinnedRef(d)) = key(d)
    BY <1>1, PinIs
  <2> QED
    BY <1>1, <1>2, <2>1, GetIs DEF isValidSet
<1>4. PICK roots, reached : /\ roots = {d} \union records \union evidence
                            /\ reached = referenceClosure(roots, repository)
  OBVIOUS
<1>5. roots \subseteq reached /\ isClosedPart(reached, repository)
  <2>1. roots \in SUBSET repository /\ roots # {}
    BY <1>1, <1>4 DEF repository
  <2> QED
    BY <1>2, <1>4, <2>1, ReferencesAreReached
<1>6. b.contracts = {x \in reached : x.kind \notin RECORD_KINDS}
  BY <1>1, <1>3, <1>4 DEF repository
<1>7. \A x \in repository : x \in documents <=> x.kind \notin RECORD_KINDS
  <2>1. \A x \in documents : x.kind \notin RECORD_KINDS
    BY Kinds DEF PCInv, DocumentsOK, DECIDED_KINDS, RECORD_KINDS
  <2>2. \A x \in records \union evidence : x.kind \in RECORD_KINDS
    BY DEF PCInv, RecordsOK, isRecord, EvidenceOK, isEvidence, RECORD_KINDS
  <2> QED
    BY <2>1, <2>2 DEF repository
<1>8. b.contracts = {x \in reached : x \in documents}
  BY <1>5, <1>6, <1>7 DEF isClosedPart
<1>9. bundled(b) = reached
  BY <1>4, <1>5, <1>8 DEF bundled, isClosedPart, repository
<1>10. d \in b.contracts
  BY <1>1, <1>4, <1>5, <1>8
<1>11. ASSUME NEW x \in b.contracts, NEW ref \in collectRefs(x), has(documents, ref)
       PROVE  get(documents, ref) \in b.contracts
  <2>1. get(documents, ref) \in documents /\ key(ref) = key(get(documents, ref))
    BY <1>11, GetFinds
  <2>2. PICK e : e = get(documents, ref)
    OBVIOUS
  <2>3. e \in repository /\ \A y \in repository : key(y) = key(e) => y = e
    BY <1>2, <2>1, <2>2 DEF repository, isValidSet
  <2>4. has(repository, ref) /\ get(repository, ref) = e
    BY <2>1, <2>2, <2>3, GetIs
  <2>5. get(repository, ref) \in reached
    BY <1>5, <1>8, <2>4 DEF isClosedPart
  <2> QED
    BY <1>8, <2>1, <2>2, <2>4, <2>5
<1>12. isClosedPart(b.contracts, documents)
  BY <1>8, <1>11 DEF isClosedPart
<1> QED
  BY <1>5, <1>9, <1>10, <1>12

(* So that it replays, is valid and links its evidence.                    *)
LEMMA InvariantExport ==
  ASSUME PCInv
  PROVE  ExportVerifies
<1> SUFFICES ASSUME bundle # Null
             PROVE  verifyProofChain(bundle) <=> \A r \in records : r.status = "VALID" => describes(r, bundle)
  BY DEF ExportVerifies, verifyProofChain
<1>1. DocumentsOK /\ EvidenceOK /\ BundleOK /\ IsFiniteSet(documents)
  BY DEF PCInv
<1>2. PICK b : b = bundle
  OBVIOUS
<1>3. PICK catalog \in Catalog : b = exportProofChain(catalog)
  BY <1>1, <1>2 DEF BundleOK
<1>4. /\ b.compilation = compile(documents, Definition, catalog) /\ b.compilation # Null
      /\ b.catalog = catalog /\ b.materializations = records /\ b.evidence = evidence
  BY <1>1, <1>2, <1>3, ExportIs
<1>5. PICK d \in selectDefinition(documents, Definition) : isExportOf(b, catalog, d)
  BY <1>1, <1>2, <1>3, ExportIs
<1>6. /\ b.compilation = buildClosure(documents, d, catalog)
      /\ d \in documents /\ d.id = Definition /\ b.definition = pinnedRef(d)
  BY <1>5 DEF isExportOf
<1>7. valid(documents)
  BY <1>1, <1>4, CompileIs
<1>8. isClosedPart(bundled(b), repository) /\ isClosedPart(b.contracts, documents) /\ d \in b.contracts
  BY <1>4, <1>5, <1>7, BundleIsClosed
<1>9. valid(bundled(b))
  BY <1>6, <1>7, <1>8, RepositoryIsValid, PartIsValid, RulesMakeValid
<1>10. compile(b.contracts, b.definition.id, b.catalog) = b.compilation
  <2>1. isValidSet(documents)
    BY <1>7, ValidKeepsRules
  <2>2. valid(b.contracts)
    BY <1>1, <1>8, <2>1, PartIsValid, RulesMakeValid
  <2>3. selectDefinition(b.contracts, Definition) = {d}
    BY <1>1, <1>5, <1>8, PartSelects DEF isClosedPart
  <2>4. closureDocuments(b.contracts, d) = closureDocuments(documents, d)
    BY <1>1, <1>8, <2>1, PartReaches
  <2>5. buildClosure(b.contracts, d, catalog) = b.compilation
    BY <1>6, <2>4 DEF buildClosure
  <2>6. b.definition.id = Definition
    BY <1>6 DEF pinnedRef
  <2>7. (CHOOSE x \in {d} : TRUE) = d
    OBVIOUS
  <2> QED
    BY <1>4, <2>2, <2>3, <2>5, <2>6, <2>7 DEF compile
<1>11. ASSUME NEW e \in b.evidence
       PROVE  \E l \in e.links : \E r \in b.materializations : l.role = "input" /\ key(l.ref) = key(r)
  <2>1. PICK r \in recordsOf(e.component) : checks(e, r)
    BY <1>1, <1>4 DEF EvidenceOK
  <2>2. [role |-> "input", ref |-> pinnedRef(r)] \in e.links /\ key(pinnedRef(r)) = key(r)
    BY <2>1 DEF checks, pinnedRef, key
  <2> QED
    BY <1>4, <2>1, <2>2 DEF recordsOf
<1>12. proofDiagnostics(b) = {} <=> \A r \in b.materializations : r.status = "VALID" => describes(r, b)
  <2>1. {c \in {"PROOF_REPLAY_MISMATCH"} : compile(b.contracts, b.definition.id, b.catalog) # b.compilation} = {}
    BY <1>10
  <2>2. {f \in b.evidence : ~ \E l \in f.links : \E r \in b.materializations :
                                 l.role = "input" /\ key(l.ref) = key(r)} = {}
    BY <1>11
  <2> DEFINE mismatched == {s \in b.materializations : s.status = "VALID" /\ ~ describes(s, b)}
  <2>3. proofDiagnostics(b) = {"PROOF_RECORD_MISMATCH" : r \in mismatched}
    BY <2>1, <2>2 DEF proofDiagnostics
  <2>4. mismatched = {} <=> \A r \in b.materializations : r.status = "VALID" => describes(r, b)
    OBVIOUS
  <2> HIDE DEF mismatched
  <2> QED
    BY <2>3, <2>4
<1> QED
  BY <1>2, <1>4, <1>9, <1>12 DEF verifyProofChain, valid

(***************************************************************************)
(* The theorems.                                                           *)
(***************************************************************************)

(* Revisions exist once and every contract has one; the records of a       *)
(* component are its history, whatever is proposed, decided, materialized  *)
(* and verified.                                                           *)
THEOREM RecordsAreHistories == Spec => []PCInv
<1>1. Init => PCInv
  BY InitOK
<1>2. PCInv /\ [Next]_vars => PCInv'
  BY StepOK
<1> QED
  BY <1>1, <1>2, PTL DEF Spec

(* The documents, records and evidence of a repository have unique keys,   *)
(* and the valid record of a component is its latest.                      *)
THEOREM TypesCorrect == Spec => []PTypeOK
BY RecordsAreHistories, InvariantTypes, PTL

(* However contracts are proposed, decided and superseded, the definition  *)
(* that is compiled was decided by someone who may decide, and what it     *)
(* rests on was too, but for revisions superseded without a decision and   *)
(* what these name.                                                        *)
THEOREM UndecidedOnlyBySupersession == Spec => []UndecidedWasSuperseded
<1>1. Init => DecisionsSettled /\ UndecidedWasSuperseded
  BY InitOK
<1>2. PCInv /\ DecisionsSettled /\ UndecidedWasSuperseded /\ [Next]_vars
        => DecisionsSettled' /\ UndecidedWasSuperseded'
  BY DecisionsStaySettled, CompiledStaysExplained DEF PCInv
<1> QED
  BY <1>1, <1>2, RecordsAreHistories, PTL DEF Spec

(* Evidence in a bundle that verifies is reported stale, or checked the    *)
(* valid record of the bundled compilation of the bundled definition.      *)
THEOREM EvidenceIsOfTheBundle == Spec => []EvidenceIsAboutThis
BY RecordsAreHistories, InvariantEvidence, PTL

(* A bundle verifies as soon as it is exported, unless a component was     *)
(* last materialized from another compilation than the bundled one.        *)
THEOREM BundlesVerify == Spec => []ExportVerifies
BY RecordsAreHistories, InvariantExport, PTL

(* Superseding a revision makes no valid set invalid, and leaves what the  *)
(* definition in force compiles to as it is.                               *)
THEOREM LifecycleStaysLifecycle == Spec => LifecycleIsNotContent
<1>1. PCInv /\ [Next]_vars =>
        [\A d \in documents : Supersede(d) /\ valid(documents) =>
           /\ valid(documents')
           /\ \A catalog \in Catalog :
                ~ (d.id = Definition /\ d.status = "ACCEPTED") =>
                  compile(documents', Definition, catalog) = compile(documents, Definition, catalog)]_vars
  BY SupersedingIsNoEdit
<1> QED
  BY <1>1, RecordsAreHistories, PTL DEF Spec, LifecycleIsNotContent

=============================================================================
