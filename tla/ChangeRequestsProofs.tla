------------------------ MODULE ChangeRequestsProofs ------------------------
(* Proofs of the theorems about ChangeRequests.                            *)
EXTENDS ChangeRequests, Induction

(***************************************************************************)
(* A declared change makes a spec of a spec.                               *)
(***************************************************************************)

(* Inserting an element makes a sequence of a sequence.                    *)
LEMMA InsertType ==
  ASSUME NEW S, NEW s \in Seq(S), NEW i \in 1 .. Len(s) + 1, NEW e \in S
  PROVE  InsertAt(s, i, e) \in Seq(S)
<1>1. SubSeq(s, 1, i - 1) \in Seq(S) /\ SubSeq(s, i, Len(s)) \in Seq(S) /\ <<e>> \in Seq(S)
  OBVIOUS
<1> QED
  BY <1>1 DEF InsertAt

(* So does replacing one ...                                               *)
LEMMA ReplaceType ==
  ASSUME NEW S, NEW s \in Seq(S), NEW i \in 1 .. Len(s), NEW e \in S
  PROVE  ReplaceAt(s, i, e) \in Seq(S)
  BY DEF ReplaceAt

(* ... and removing one.                                                   *)
LEMMA RemoveType ==
  ASSUME NEW S, NEW s \in Seq(S), NEW i \in 1 .. Len(s)
  PROVE  RemoveAt(s, i) \in Seq(S)
<1>1. SubSeq(s, 1, i - 1) \in Seq(S) /\ SubSeq(s, i + 1, Len(s)) \in Seq(S)
  OBVIOUS
<1> QED
  BY <1>1 DEF RemoveAt

(* A change that can apply gives a spec.                                   *)
LEMMA ApplyChangeType ==
  ASSUME NEW spec \in SystemSpec, NEW change \in Edit
  PROVE  applyChange(spec, change) \in SystemSpec \union {Null}
<1>1. CASE change.within = "components"
  <2> SUFFICES ASSUME applyToArray(spec, change) # Null
               PROVE  applyToArray(spec, change) \in SystemSpec
    BY <1>1 DEF applyChange
  <2> DEFINE list == spec.components
             position == IF change.at = Null THEN Len(list) ELSE change.at
  <2>1. /\ list \in Seq(Value \union {Null}) /\ Len(list) \in Nat
        /\ change.at \in Nat \union {Null} /\ change.value \in Value \union {Null}
        /\ change.op \in {"ADD", "REPLACE", "REMOVE"}
    BY <1>1 DEF SystemSpec, Edit
  <2>2. position \in Nat /\ position <= IF change.op = "ADD" THEN Len(list) ELSE Len(list) - 1
    BY <2>1 DEF applyToArray
  <2>3. /\ change.op = "ADD" => InsertAt(list, position + 1, change.value) \in Seq(Value \union {Null})
        /\ change.op = "REPLACE" => ReplaceAt(list, position + 1, change.value) \in Seq(Value \union {Null})
        /\ change.op = "REMOVE" => RemoveAt(list, position + 1) \in Seq(Value \union {Null})
    <3> HIDE DEF list, position
    <3> QED
      BY <2>1, <2>2, InsertType, ReplaceType, RemoveType
  <2>4. applyToArray(spec, change) =
          [spec EXCEPT !.components =
             CASE change.op = "ADD" -> InsertAt(list, position + 1, change.value)
               [] change.op = "REPLACE" -> ReplaceAt(list, position + 1, change.value)
               [] change.op = "REMOVE" -> RemoveAt(list, position + 1)]
    BY DEF applyToArray
  <2> HIDE DEF position
  <2> QED
    BY <2>1, <2>3, <2>4 DEF SystemSpec
<1>2. CASE change.within = "members"
  <2>1. change.at \in Member /\ change.value \in Value \union {Null}
    BY <1>2 DEF Edit
  <2> QED
    BY <1>2, <2>1 DEF applyChange, applyToMember, SystemSpec
<1> QED
  BY <1>1, <1>2 DEF Edit

(* So does a list of them.                                                 *)
LEMMA ApplyChangesType ==
  ASSUME NEW spec \in SystemSpec \union {Null}, NEW changes \in Seq(Edit)
  PROVE  applyChanges(spec, changes) \in SystemSpec \union {Null}
<1> DEFINE X == SystemSpec \union {Null}
           step(s, n) == IF s = Null THEN Null ELSE applyChange(s, changes[n])
           next == [sn \in X \X Nat |-> IF sn[2] \in 1 .. Len(changes) THEN step(sn[1], sn[2]) ELSE Null]
           is(f) == f = [n \in 0 .. Len(changes) |-> IF n = 0 THEN spec ELSE step(f[n - 1], n)]
           after == CHOOSE f : is(f)
<1>1. Len(changes) \in Nat /\ \A n \in 1 .. Len(changes) : changes[n] \in Edit
  OBVIOUS
<1>2. next \in [X \X Nat -> X]
  BY <1>1, ApplyChangeType
<1>3. \A s \in X, n \in 1 .. Len(changes) : next[<<s, n>>] = step(s, n)
  BY <1>1
<1> HIDE DEF next
<1>4. PICK f \in [0 .. Len(changes) -> X] : Iterates(f, spec, next, Len(changes))
  BY <1>1, <1>2, FiniteRecursion
<1>5. is(f)
  BY <1>1, <1>3, <1>4 DEF Iterates
<1> HIDE DEF step
<1>6. is(after)
  BY <1>5
<1> HIDE DEF after
<1>7. after[0] \in X /\ \A n \in 1 .. Len(changes) : after[n - 1] \in X => after[n] \in X
  <2>1. after[0] \in X
    BY <1>1, <1>6
  <2>2. ASSUME NEW n \in 1 .. Len(changes), after[n - 1] \in X PROVE after[n] \in X
    <3>1. after[n] = step(after[n - 1], n)
      BY <1>1, <1>6
    <3> QED
      BY <1>1, <2>2, <3>1, ApplyChangeType DEF step
  <2> QED
    BY <2>1, <2>2
<1>8. \A n \in 0 .. Len(changes) : after[n] \in X
  <2> HIDE DEF X
  <2> QED
    BY <1>1, <1>7, ValuesStay
<1> QED
  BY <1>1, <1>8 DEF applyChanges, after, step

(***************************************************************************)
(* Types.                                                                  *)
(***************************************************************************)

(* The revisions are numbered from 1, and each has a spec.                 *)
LEMMA RevisionsType ==
  ASSUME TypeOK
  PROVE  /\ Len(revisions) \in Nat /\ DOMAIN revisions = 1 .. Len(revisions)
         /\ \A r \in DOMAIN revisions :
              r \in Nat /\ revisions[r] \in Revision /\ revisions[r].spec \in SystemSpec
<1>1. Len(revisions) \in Nat /\ DOMAIN revisions = 1 .. Len(revisions)
  BY DEF TypeOK
<1>2. \A r \in DOMAIN revisions : revisions[r] \in Revision
  BY DEF TypeOK
<1> QED
  BY <1>1, <1>2 DEF Revision

(* The applied changes are Change Requests, in order.                      *)
LEMMA AppliedType ==
  ASSUME TypeOK
  PROVE  /\ Len(applied) \in Nat /\ DOMAIN applied = 1 .. Len(applied)
         /\ \A n \in DOMAIN applied : applied[n] \in Change
  BY DEF TypeOK

(* One revision is in force at a time, and it is the one that is read.     *)
LEMMA InForceIsRead ==
  ASSUME NEW r \in Nat, isInForce(r)
  PROVE  inForceRevision = r
<1> DEFINE inForce == {s \in DOMAIN revisions : revisions[s].status = "ACCEPTED"}
<1>1. inForce = {r}
  BY DEF isInForce
<1>2. inForceRevision = CHOOSE s \in {r} : \A t \in {r} : t <= s
  BY <1>1 DEF inForceRevision
<1> QED
  BY <1>2

(* The first revision is in force and nothing is pinned or applied.        *)
LEMMA InitOK == Init => TypeOK /\ PinsExist /\ AppliedChain
<1> SUFFICES ASSUME Init PROVE TypeOK /\ PinsExist /\ AppliedChain
  OBVIOUS
<1>1. DOMAIN revisions = {1} /\ revisions[1].status = "ACCEPTED"
  BY DEF Init
<1>2. TypeOK
  BY InputAssumption DEF Init, TypeOK, Revision
<1>3. PinsExist
  BY DEF Init, PinsExist
<1>4. isInForce(1)
  BY <1>1 DEF isInForce
<1>5. AppliedChain
  BY <1>1, <1>4 DEF Init, AppliedChain
<1> QED
  BY <1>2, <1>3, <1>5

(* What pinning the revision in force gives.                               *)
LEMMA PinInForce ==
  ASSUME TypeOK, AppliedChain
  PROVE  /\ inForceRevision \in DOMAIN revisions /\ isInForce(inForceRevision)
         /\ pinnedRef(inForceRevision) \in Pin
         /\ pinnedRef(inForceRevision).revision = inForceRevision
<1>1. PICK r \in DOMAIN revisions : isInForce(r)
  BY DEF AppliedChain
<1>2. r \in Nat /\ revisions[r].spec \in SystemSpec
  BY <1>1, RevisionsType
<1>3. inForceRevision = r
  BY <1>1, <1>2, InForceIsRead
<1> QED
  BY <1>1, <1>2, <1>3 DEF pinnedRef, Pin

CRInv == TypeOK /\ PinsExist /\ AppliedChain

(* A step that leaves the revisions' statuses and the applied requests     *)
(* alone keeps the chain.                                                  *)
LEMMA ChainFrame ==
  ASSUME AppliedChain, applied' = applied, DOMAIN revisions \subseteq DOMAIN revisions',
         \A r \in DOMAIN revisions' :
           revisions'[r].status = "ACCEPTED" <=> r \in DOMAIN revisions /\ revisions[r].status = "ACCEPTED",
         \A n \in DOMAIN applied : requests'[applied[n]] = requests[applied[n]]
  PROVE  AppliedChain'
<1>1. \A r : isInForce(r) => isInForce(r)'
  BY DEF isInForce
<1>2. \A n \in DOMAIN applied : Applied(n)'
  BY <1>1 DEF AppliedChain, Applied
<1> QED
  BY <1>1, <1>2 DEF AppliedChain

(* A request that was applied is not one a step is about.                  *)
LEMMA AppliedIsFinal ==
  ASSUME CRInv, NEW c \in Change, requests[c] = Null \/ Unfinished(c)
  PROVE  \A n \in DOMAIN applied : applied[n] # c
  BY DEF CRInv, AppliedChain, Applied, Unfinished

(* A new request pins the revision in force and is not applied.            *)
LEMMA ProposeOK ==
  ASSUME CRInv, NEW c \in Change, NEW asked \in Request, Propose(c, asked)
  PROVE  CRInv'
<1> DEFINE proposal == [status |-> "PROPOSED", base |-> pinnedRef(inForceRevision), proposed |-> Null,
                        changes |-> asked.changes, classification |-> asked.classification,
                        components |-> asked.components, ownerWork |-> asked.ownerWork,
                        migration |-> asked.migration]
<1>1. /\ requests[c] = Null /\ requests' = [requests EXCEPT ![c] = proposal]
      /\ revisions' = revisions /\ applied' = applied /\ edits' = edits
  BY DEF Propose
<1>2. proposal \in ChangeRequest
  BY PinInForce, InputAssumption DEF CRInv, ChangeRequest, Asked, Status
<1>3. proposal.base.revision \in DOMAIN revisions /\ proposal.proposed = Null
  BY PinInForce DEF CRInv
<1> HIDE DEF proposal
<1>4. TypeOK'
  BY <1>1, <1>2 DEF CRInv, TypeOK
<1>5. PinsExist'
  BY <1>1, <1>3 DEF CRInv, TypeOK, PinsExist
<1>6. AppliedChain'
  BY <1>1, AppliedIsFinal, ChainFrame DEF CRInv, TypeOK
<1> QED
  BY <1>4, <1>5, <1>6 DEF CRInv

(* A revision that is written leaves the one in force as it is.            *)
LEMMA WriteOK ==
  ASSUME CRInv, NEW c \in Change, Write(c)
  PROVE  CRInv'
<1>1. PICK spec \in {applyChanges(requests[c].base.digest, requests[c].changes), requests[c].base.digest} \ {Null} :
        /\ revisions' = Append(revisions, [spec |-> spec, status |-> "PROPOSED"])
        /\ requests' = [requests EXCEPT ![c].proposed = [revision |-> Len(revisions) + 1, digest |-> spec]]
  BY DEF Write
<1>2. /\ Unfinished(c) /\ applied' = applied /\ edits' = edits
      /\ requests[c] \in ChangeRequest
  BY DEF Write, Unfinished, CRInv, TypeOK
<1>3. spec \in SystemSpec
  <2>1. requests[c].base.digest \in SystemSpec /\ requests[c].changes \in Seq(Edit)
    BY <1>2 DEF ChangeRequest, Pin
  <2> QED
    BY <1>1, <2>1, ApplyChangesType
<1>4. /\ Len(revisions) \in Nat /\ DOMAIN revisions = 1 .. Len(revisions)
      /\ revisions \in Seq(Revision)
  BY RevisionsType DEF CRInv, TypeOK
<1> DEFINE new == [spec |-> spec, status |-> "PROPOSED"]
           pin == [revision |-> Len(revisions) + 1, digest |-> spec]
<1>5. new \in Revision /\ pin \in Pin
  BY <1>3, <1>4 DEF Revision, Pin
<1>6. /\ revisions' \in Seq(Revision) /\ DOMAIN revisions' = 1 .. Len(revisions) + 1
      /\ \A r \in DOMAIN revisions : revisions'[r] = revisions[r]
      /\ revisions'[Len(revisions) + 1].status = "PROPOSED"
  BY <1>1, <1>4, <1>5
<1>7. /\ requests' = [requests EXCEPT ![c].proposed = pin]
      /\ requests'[c] \in ChangeRequest
      /\ requests'[c].base = requests[c].base /\ requests'[c].proposed = pin
  BY <1>1, <1>2, <1>5 DEF ChangeRequest, CRInv, TypeOK
<1> HIDE DEF pin, new
<1>8. TypeOK'
  BY <1>2, <1>6, <1>7 DEF CRInv, TypeOK
<1>9. PinsExist'
  <2>1. pin.revision \in DOMAIN revisions' /\ DOMAIN revisions \subseteq DOMAIN revisions'
    BY <1>4, <1>6 DEF pin
  <2> QED
    BY <1>2, <1>7, <2>1, NullAssumption DEF CRInv, TypeOK, PinsExist, Unfinished
<1>10. AppliedChain'
  <2>1. \A r \in DOMAIN revisions' : r \in DOMAIN revisions \/ r = Len(revisions) + 1
    BY <1>4, <1>6
  <2>2. \A r \in DOMAIN revisions' :
          revisions'[r].status = "ACCEPTED" <=> r \in DOMAIN revisions /\ revisions[r].status = "ACCEPTED"
    BY <1>4, <1>6, <2>1
  <2>3. DOMAIN revisions \subseteq DOMAIN revisions'
    BY <1>4, <1>6
  <2>4. \A n \in DOMAIN applied : requests'[applied[n]] = requests[applied[n]]
    BY <1>2, <1>7, AppliedIsFinal, AppliedType DEF CRInv, TypeOK
  <2> QED
    BY <1>2, <2>2, <2>3, <2>4, ChainFrame DEF CRInv
<1> QED
  BY <1>8, <1>9, <1>10 DEF CRInv

(* A request that is decided was not applied.                              *)
LEMMA DecideOK ==
  ASSUME CRInv, NEW c \in Change, NEW status \in Status, Decide(c, status)
  PROVE  CRInv'
<1>1. /\ Unfinished(c) /\ requests' = [requests EXCEPT ![c].status = status]
      /\ revisions' = revisions /\ applied' = applied /\ edits' = edits
      /\ requests[c] \in ChangeRequest
  BY DEF Decide, Unfinished, CRInv, TypeOK
<1>2. /\ requests'[c] \in ChangeRequest
      /\ requests'[c].base = requests[c].base /\ requests'[c].proposed = requests[c].proposed
  BY <1>1 DEF ChangeRequest, CRInv, TypeOK
<1>3. TypeOK'
  BY <1>1, <1>2 DEF CRInv, TypeOK
<1>4. PinsExist'
  BY <1>1, <1>2 DEF CRInv, TypeOK, PinsExist, Unfinished
<1>5. AppliedChain'
  BY <1>1, AppliedIsFinal, AppliedType, ChainFrame DEF CRInv, TypeOK
<1> QED
  BY <1>3, <1>4, <1>5 DEF CRInv

(* A request that is rebased was not applied; it pins the revision in      *)
(* force.                                                                  *)
LEMMA RebaseOK ==
  ASSUME CRInv, NEW c \in Change, Rebase(c)
  PROVE  CRInv'
<1> DEFINE pin == pinnedRef(inForceRevision)
<1>1. /\ Unfinished(c)
      /\ requests' = [requests EXCEPT ![c].base = pin, ![c].proposed = Null, ![c].status = "PROPOSED"]
      /\ revisions' = revisions /\ applied' = applied /\ edits' = edits
      /\ requests[c] \in ChangeRequest
  BY DEF Rebase, Unfinished, CRInv, TypeOK
<1>2. pin \in Pin /\ pin.revision \in DOMAIN revisions
  BY PinInForce DEF CRInv
<1> HIDE DEF pin
<1>3. requests'[c] \in ChangeRequest /\ requests'[c].base = pin /\ requests'[c].proposed = Null
  BY <1>1, <1>2 DEF ChangeRequest, CRInv, TypeOK, Status
<1>4. TypeOK'
  BY <1>1, <1>3 DEF CRInv, TypeOK
<1>5. PinsExist'
  BY <1>1, <1>2, <1>3 DEF CRInv, TypeOK, PinsExist
<1>6. AppliedChain'
  BY <1>1, AppliedIsFinal, AppliedType, ChainFrame DEF CRInv, TypeOK
<1> QED
  BY <1>4, <1>5, <1>6 DEF CRInv

(* The revision an accepted request proposes comes in force, and the       *)
(* request starts from the one that was.                                   *)
LEMMA ApplyOK ==
  ASSUME CRInv, NEW c \in Change, Apply(c)
  PROVE  CRInv'
<1>0. PICK r, q : r = inForceRevision /\ q = requests[c].proposed.revision
  OBVIOUS
<1>1. /\ Unfinished(c) /\ requests[c].proposed # Null /\ verifyChangeBase(requests[c], r) = {}
      /\ revisions' = [revisions EXCEPT ![r].status = "SUPERSEDED", ![q].status = "ACCEPTED"]
      /\ requests' = [requests EXCEPT ![c].status = "APPLIED"]
      /\ applied' = Append(applied, c) /\ edits' = edits
      /\ requests[c] \in ChangeRequest
  BY <1>0 DEF Apply, Unfinished, CRInv, TypeOK
<1>2. r \in DOMAIN revisions /\ isInForce(r) /\ requests[c].base.revision = r
  BY <1>0, <1>1, PinInForce DEF CRInv, verifyChangeBase
<1>3. q \in DOMAIN revisions
  BY <1>0, <1>1 DEF CRInv, PinsExist, Unfinished
<1>4. /\ DOMAIN revisions = 1 .. Len(revisions) /\ Len(revisions) \in Nat
      /\ \A s \in DOMAIN revisions : revisions[s] \in Revision
  BY RevisionsType DEF CRInv
<1>5. /\ DOMAIN revisions' = DOMAIN revisions
      /\ revisions' \in Seq(Revision)
      /\ revisions'[q].status = "ACCEPTED"
      /\ \A s \in DOMAIN revisions : s # q => revisions'[s].status # "ACCEPTED"
  <2> DEFINE superseded == [revisions EXCEPT ![r] = [revisions[r] EXCEPT !.status = "SUPERSEDED"]]
  <2>1. /\ DOMAIN superseded = DOMAIN revisions
        /\ superseded \in Seq(Revision)
        /\ \A s \in DOMAIN revisions : superseded[s] \in Revision /\ superseded[s].status # "ACCEPTED"
    BY <1>2, <1>4 DEF Revision, isInForce, CRInv, TypeOK
  <2>2. revisions' = [superseded EXCEPT ![q] = [superseded[q] EXCEPT !.status = "ACCEPTED"]]
    BY <1>1
  <2> HIDE DEF superseded
  <2> QED
    BY <1>3, <2>1, <2>2 DEF Revision
<1>6. isInForce(q)'
  BY <1>3, <1>5 DEF isInForce
<1>7. /\ requests'[c] \in ChangeRequest /\ requests'[c].status = "APPLIED"
      /\ requests'[c].base = requests[c].base /\ requests'[c].proposed = requests[c].proposed
      /\ \A d \in Change : d # c => requests'[d] = requests[d]
  BY <1>1 DEF CRInv, TypeOK, ChangeRequest, Status
<1>8. TypeOK'
  <2>2. applied' \in Seq(Change)
    BY <1>1 DEF CRInv, TypeOK
  <2>3. requests' \in [Change -> ChangeRequest \union {Null}]
    BY <1>1, <1>7 DEF CRInv, TypeOK
  <2> QED
    BY <1>1, <1>5, <2>2, <2>3 DEF CRInv, TypeOK
<1>9. PinsExist'
  BY <1>1, <1>5, <1>7 DEF CRInv, PinsExist, Unfinished
<1>10. /\ Len(applied) \in Nat /\ DOMAIN applied = 1 .. Len(applied)
       /\ \A n \in DOMAIN applied : applied[n] \in Change /\ applied[n] # c
  BY <1>1, AppliedType, AppliedIsFinal DEF CRInv
<1>11. /\ Len(applied') = Len(applied) + 1 /\ DOMAIN applied' = 1 .. Len(applied) + 1
       /\ applied'[Len(applied) + 1] = c
       /\ \A n \in DOMAIN applied : applied'[n] = applied[n]
  BY <1>1, <1>10 DEF CRInv, TypeOK
<1>12. ASSUME NEW n \in DOMAIN applied' PROVE Applied(n)'
  <2>1. CASE n = Len(applied) + 1
    <3>1. requests'[c] # Null
      BY <1>7, NullAssumption
    <3> QED
      BY <1>0, <1>1, <1>6, <1>7, <1>10, <1>11, <2>1, <3>1 DEF Applied
  <2>2. CASE n = Len(applied) /\ n \in DOMAIN applied
    <3>1. Applied(n) /\ requests'[applied[n]] = requests[applied[n]]
      BY <1>7, <1>10, <2>2 DEF CRInv, AppliedChain
    <3>2. requests[applied[n]].proposed.revision = r
      BY <1>2, <2>2, <3>1 DEF Applied, isInForce
    <3>3. /\ n # Len(applied') /\ applied'[n] = applied[n]
          /\ requests'[applied'[n + 1]].base.revision = r
      BY <1>2, <1>7, <1>10, <1>11, <2>2
    <3> QED
      BY <3>1, <3>2, <3>3 DEF Applied
  <2>3. CASE n < Len(applied) /\ n \in DOMAIN applied
    <3>1. n + 1 \in DOMAIN applied
      BY <1>10, <2>3
    <3>2. Applied(n) /\ requests'[applied[n]] = requests[applied[n]]
          /\ requests'[applied[n + 1]] = requests[applied[n + 1]]
      BY <1>7, <1>10, <2>3, <3>1 DEF CRInv, AppliedChain
    <3> QED
      BY <1>10, <1>11, <2>3, <3>1, <3>2 DEF Applied
  <2> QED
    BY <1>10, <1>11, <2>1, <2>2, <2>3
<1>13. AppliedChain'
  BY <1>3, <1>5, <1>6, <1>12 DEF AppliedChain
<1> QED
  BY <1>8, <1>9, <1>13 DEF CRInv

(* A correction leaves the numbers and the statuses of revisions as they   *)
(* are.                                                                    *)
LEMMA CorrectOK ==
  ASSUME CRInv, NEW change \in Correction, Correct(change)
  PROVE  CRInv'
<1> DEFINE r == inForceRevision
           spec == applyChange(revisions[r].spec, change)
<1>1. /\ edits < MaxEdits /\ edits' = edits + 1 /\ spec # Null
      /\ revisions' = [revisions EXCEPT ![r].spec = spec]
      /\ requests' = requests /\ applied' = applied
  BY DEF Correct
<1>2. r \in DOMAIN revisions /\ revisions[r] \in Revision /\ revisions[r].spec \in SystemSpec
  BY PinInForce, RevisionsType DEF CRInv
<1>3. spec \in SystemSpec
  BY <1>1, <1>2, InputAssumption, ApplyChangeType
<1> HIDE DEF r, spec
<1>4. /\ DOMAIN revisions' = DOMAIN revisions /\ revisions' \in Seq(Revision)
      /\ \A s \in DOMAIN revisions : revisions'[s].status = revisions[s].status
  <2>1. [revisions[r] EXCEPT !.spec = spec] \in Revision
    BY <1>2, <1>3 DEF Revision
  <2>2. revisions' = [revisions EXCEPT ![r] = [revisions[r] EXCEPT !.spec = spec]]
    BY <1>1
  <2>3. [revisions[r] EXCEPT !.spec = spec].status = revisions[r].status
    BY <1>2 DEF Revision
  <2> QED
    BY <1>2, <2>1, <2>2, <2>3 DEF CRInv, TypeOK
<1>5. TypeOK'
  BY <1>1, <1>4, InputAssumption DEF CRInv, TypeOK
<1>6. PinsExist'
  BY <1>1, <1>4 DEF CRInv, PinsExist
<1>7. AppliedChain'
  BY <1>1, <1>4, ChainFrame DEF CRInv
<1> QED
  BY <1>5, <1>6, <1>7 DEF CRInv

(* Whatever is proposed, decided, rebased, applied and corrected: the      *)
(* revisions are specs, one of them is in force, requests pin what was     *)
(* written, and applied requests start where the one before them ended.    *)
THEOREM ChangesAreAChain == Spec => []CRInv
<1>1. Init => CRInv
  BY InitOK DEF CRInv
<1>2. CRInv /\ [Next]_vars => CRInv'
  <2> SUFFICES ASSUME CRInv, [Next]_vars PROVE CRInv'
    OBVIOUS
  <2>1. CASE UNCHANGED vars
    BY <2>1 DEF CRInv, TypeOK, PinsExist, AppliedChain, Applied, isInForce, vars
  <2>2. CASE Next
    <3>1. \A c \in Change :
            /\ \A asked \in Request : Propose(c, asked) => CRInv'
            /\ \A status \in Status : Decide(c, status) => CRInv'
            /\ Write(c) \/ Rebase(c) \/ Apply(c) => CRInv'
      BY ProposeOK, DecideOK, WriteOK, RebaseOK, ApplyOK
    <3>2. \A change \in Correction : Correct(change) => CRInv'
      BY CorrectOK
    <3> QED
      BY <2>2, <3>1, <3>2 DEF Next, Status
  <2> QED
    BY <2>1, <2>2
<1> QED
  BY <1>1, <1>2, PTL DEF Spec

(***************************************************************************)
(* The applied changes, one after the other.                               *)
(***************************************************************************)

(* What a valid set says of a request in it: its pins are what was         *)
(* written, and its changes make the proposed spec of the base.            *)
LEMMA ValidRequest ==
  ASSUME TypeOK, setDiagnostics = {},
         NEW c \in Change, requests[c] # Null, requests[c].proposed # Null
  PROVE  /\ revisions[requests[c].base.revision].spec = requests[c].base.digest
         /\ applyChanges(revisions[requests[c].base.revision].spec, requests[c].changes)
              = revisions[requests[c].proposed.revision].spec
<1> DEFINE request == requests[c]
           at(pin) == revisions[pin.revision].spec
<1>1. changeDiagnostics(request) = {}
  BY DEF setDiagnostics
<1>2. \A pin \in {request.base, request.proposed} \ {Null} : at(pin) = pin.digest
  BY <1>1 DEF changeDiagnostics
<1>3. verifyChangeConsistency(request, at(request.base), at(request.proposed)) = {}
  BY <1>1 DEF changeDiagnostics
<1>4. applyChanges(at(request.base), request.changes) = at(request.proposed)
  BY <1>3 DEF verifyChangeConsistency
<1>5. request.base # Null
  BY NullAssumption DEF TypeOK, ChangeRequest
<1> QED
  BY <1>2, <1>4, <1>5

(* Replaying the applied changes in a valid set gives, after each of them, *)
(* the spec of the revision it proposed: its base is what the one before   *)
(* it proposed.                                                            *)
LEMMA ReplayedIsInForce ==
  ASSUME CRInv, setDiagnostics = {}, applied # <<>>
  PROVE  replayed = revisions[inForceRevision].spec
<1> DEFINE last == Len(applied)
           X == SystemSpec \union {Null}
           request(n) == requests[applied[n]]
           first == request(1).base.digest
           step(s, n) == applyChanges(s, request(n).changes)
           next == [sn \in X \X Nat |-> IF sn[2] \in 1 .. last THEN step(sn[1], sn[2]) ELSE Null]
           is(f) == f = [n \in 0 .. last |-> IF n = 0 THEN first ELSE step(f[n - 1], n)]
           after == CHOOSE f : is(f)
           proposed(n) == revisions[request(n).proposed.revision].spec
           expected(n) == IF n = 0 THEN first ELSE proposed(n)
<1>1. last \in Nat \ {0} /\ DOMAIN applied = 1 .. last
  BY AppliedType DEF CRInv, TypeOK
<1>2. ASSUME NEW n \in 1 .. last
      PROVE  /\ applied[n] \in Change /\ request(n) # Null /\ request(n).proposed # Null
             /\ request(n) \in ChangeRequest /\ Applied(n)
    BY <1>1, AppliedType DEF CRInv, AppliedChain, Applied, TypeOK
<1>3. \A s \in X, n \in 1 .. last : step(s, n) \in X
  BY <1>2, ApplyChangesType DEF ChangeRequest
<1>4. first \in X
  BY <1>1, <1>2 DEF ChangeRequest, Pin
<1>5. ASSUME NEW n \in 1 .. last
      PROVE  /\ revisions[request(n).base.revision].spec = request(n).base.digest
             /\ step(revisions[request(n).base.revision].spec, n) = proposed(n)
  BY <1>2, ValidRequest DEF CRInv
<1>6. ASSUME NEW n \in 1 .. last PROVE step(expected(n - 1), n) = expected(n)
  <2>1. CASE n = 1
    BY <1>5, <2>1
  <2>2. CASE n # 1
    <3>1. n - 1 \in 1 .. last /\ (n - 1) + 1 = n /\ n - 1 < last
      BY <1>1, <2>2
    <3>2. request(n).base.revision = request(n - 1).proposed.revision
      BY <1>2, <3>1 DEF Applied
    <3> QED
      BY <1>5, <2>2, <3>1, <3>2
  <2> QED
    BY <2>1, <2>2
<1>7. \E f : is(f)
  <2>1. next \in [X \X Nat -> X]
    BY <1>3
  <2>2. \A s \in X, n \in 1 .. last : next[<<s, n>>] = step(s, n)
    BY <1>1
  <2> HIDE DEF next
  <2>3. PICK f \in [0 .. last -> X] : Iterates(f, first, next, last)
    <3> HIDE DEF X, first
    <3> QED
      BY <1>1, <1>4, <2>1, FiniteRecursion
  <2>4. is(f)
    <3> HIDE DEF X, step, first
    <3>1. \A n \in 1 .. last : f[n - 1] \in X
      BY <1>1, <2>3
    <3>2. \A n \in 1 .. last : f[n] = step(f[n - 1], n)
      BY <2>2, <2>3, <3>1 DEF Iterates
    <3> QED
      BY <1>1, <2>3, <3>2 DEF Iterates
  <2> QED
    BY <2>4
<1>8. is(after)
  BY <1>7
<1> HIDE DEF after, step, expected, first
<1> DEFINE S == {n \in Nat : n <= last => after[n] = expected(n)}
<1>9. 0 \in S
  BY <1>1, <1>8 DEF expected
<1>10. ASSUME NEW n \in Nat, n \in S PROVE n + 1 \in S
  <2> SUFFICES ASSUME n + 1 <= last PROVE after[n + 1] = expected(n + 1)
    OBVIOUS
  <2>1. n + 1 \in 1 .. last /\ (n + 1) - 1 = n /\ after[n] = expected(n)
    BY <1>1, <1>10
  <2>2. after[n + 1] = step(after[n], n + 1)
    BY <1>1, <1>8, <2>1
  <2> QED
    BY <1>6, <2>1, <2>2
<1>11. last \in S
  <2> HIDE DEF S
  <2> QED
    BY <1>1, <1>9, <1>10, SetInduction
<1>12. after[last] = proposed(last)
  BY <1>1, <1>11 DEF expected
<1>13. request(last).proposed.revision = inForceRevision
  <2>1. isInForce(request(last).proposed.revision)
    <3>1. Applied(last)
      BY <1>1, <1>2
    <3> QED
      BY <3>1 DEF Applied
  <2>2. request(last).proposed.revision \in Nat
    BY <2>1, RevisionsType DEF CRInv, isInForce
  <2> QED
    BY <2>1, <2>2, InForceIsRead
<1> QED
  BY <1>12, <1>13 DEF replayed, after, step, first

(* However many requests there are, whatever they change and whoever       *)
(* decides, rebases and edits in between: in a valid set nothing that was  *)
(* applied is lost.                                                        *)
THEOREM AppliedSurvive == Spec => []AppliedChangesSurvive
<1>1. CRInv => AppliedChangesSurvive
  BY ReplayedIsInForce DEF AppliedChangesSurvive
<1> QED
  BY <1>1, ChangesAreAChain, PTL

=============================================================================
