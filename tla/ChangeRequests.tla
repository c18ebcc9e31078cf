--------------------------- MODULE ChangeRequests ---------------------------
(***************************************************************************)
(* Change Requests over the revisions of one System Definition:            *)
(* contracts/change-request.ts and the part of contract-set.ts about them  *)
(* (kernel/contracts).                                                     *)
(*                                                                         *)
(* The source has the rules; who follows them are the people of a system.  *)
(* Each action is a commit of theirs: it may leave the set invalid, and    *)
(* the property speaks of the sets that are valid.  A spec has members     *)
(* that are values and the array `components`; as its content stands for   *)
(* its digest, a pin has the spec it was taken of.  Acceptances are those  *)
(* of ContractSet and left out.                                            *)
(***************************************************************************)
EXTENDS KernelValues, FiniteSets

CONSTANTS
  Member,       (* the members of a spec, but the array                    *)
  Value,        (* what a member or an element may be                      *)
  Change,       (* names of Change Requests                                *)
  Request,      (* what a change may ask for                               *)
  FirstSpec,    (* the spec of revision 1                                  *)
  Correction,   (* edits an owner may make in place                        *)
  MaxRevisions, (* bound on the revisions of the definition                *)
  MaxEdits      (* bound on the edits in place                             *)

Status == {"DRAFT", "PROPOSED", "ACCEPTED", "REJECTED", "APPLIED", "WITHDRAWN"}
Classification == {"SAFE_AUTOMATIC", "REVIEW_REQUIRED", "MIGRATION_REQUIRED", "MANUAL_ONLY", "UNSUPPORTED"}
SystemSpec == [members : [Member -> Value \union {Null}], components : Seq(Value \union {Null})]
Edit == [op : {"ADD", "REPLACE", "REMOVE"}, within : {"members"}, at : Member, value : Value \union {Null}]
        \union
        [op : {"ADD", "REPLACE", "REMOVE"}, within : {"components"}, at : Nat \union {Null},
         value : Value \union {Null}]
OwnerWork == [id : STRING, component : Value \union {Null}]
Asked == [changes : Seq(Edit), classification : Classification, components : SUBSET Value,
          ownerWork : Seq(OwnerWork), migration : BOOLEAN]

Revision == [spec : SystemSpec, status : {"PROPOSED", "ACCEPTED", "SUPERSEDED"}]

(* The digest is the spec that was pinned.                                 *)
Pin == [revision : Nat, digest : SystemSpec]
ChangeRequest == [status : Status, base : Pin, proposed : Pin \union {Null}, changes : Seq(Edit),
                  classification : Classification, components : SUBSET Value,
                  ownerWork : Seq(OwnerWork), migration : BOOLEAN]

ASSUME InputAssumption ==
  /\ FirstSpec \in SystemSpec /\ Request \subseteq Asked /\ Correction \subseteq Edit
  /\ MaxRevisions \in Nat /\ MaxEdits \in Nat

ASSUME NullAssumption == Null \notin SystemSpec /\ Null \notin Pin /\ Null \notin ChangeRequest

VARIABLES
  revisions,    (* what was written of the definition: spec and status     *)
  requests,     (* the Change Requests                                     *)
  applied,      (* history: the applied changes, in order                  *)
  edits

vars == <<revisions, requests, applied, edits>>

-----------------------------------------------------------------------------
(* The rules.                                                              *)

(* One declared change; Null when it cannot apply.  `at` is a member, or a *)
(* position of the array counted from 0, Null for the pointer "-".  A      *)
(* segment that is no index counts as a position past the end.             *)
applyToArray(spec, change) ==
  LET list == spec.components
      position == IF change.at = Null THEN Len(list) ELSE change.at
      bound == IF change.op = "ADD" THEN Len(list) ELSE Len(list) - 1
  IN  IF position > bound \/ (change.at = Null /\ change.op # "ADD") THEN Null
      ELSE [spec EXCEPT !.components =
              CASE change.op = "ADD" -> InsertAt(list, position + 1, change.value)
                [] change.op = "REPLACE" -> ReplaceAt(list, position + 1, change.value)
                [] change.op = "REMOVE" -> RemoveAt(list, position + 1)]

applyToMember(spec, change) ==
  IF (change.op = "ADD") = (spec.members[change.at] # Null) THEN Null
  ELSE [spec EXCEPT !.members[change.at] = IF change.op = "REMOVE" THEN Null ELSE change.value]

applyChange(spec, change) ==
  CASE change.within = "components" -> applyToArray(spec, change)
    [] change.within = "members" -> applyToMember(spec, change)
    [] OTHER -> Null

(* In order, up to the first that cannot apply: then Null.                 *)
applyChanges(spec, changes) ==
  LET after[n \in 0 .. Len(changes)] ==
        IF n = 0 THEN spec
        ELSE IF after[n - 1] = Null THEN Null ELSE applyChange(after[n - 1], changes[n])
  IN  after[Len(changes)]

pinnedRef(revision) == [revision |-> revision, digest |-> revisions[revision].spec]

inForceRevision ==
  LET inForce == {r \in DOMAIN revisions : revisions[r].status = "ACCEPTED"}
  IN  CHOOSE r \in inForce : \A s \in inForce : s <= r

validateChangeRequest(request) ==
  (IF uniqueIds(request.ownerWork) THEN {} ELSE {"CONTRACT_DUPLICATE_ITEM_ID"})
  \union {c \in {"CHANGE_TARGET_MISMATCH"} :
            IF request.proposed # Null THEN request.proposed.revision <= request.base.revision
            ELSE request.status = "APPLIED"}
  \union {c \in {"CHANGE_UNSUPPORTED_CANNOT_PROCEED"} :
            request.classification = "UNSUPPORTED" /\ request.status \in {"ACCEPTED", "APPLIED"}}
  \union {c \in {"CHANGE_MIGRATION_MISSING"} :
            request.classification = "MIGRATION_REQUIRED" /\ ~ request.migration}
  \union {c \in {"CHANGE_OWNER_WORK_MISSING"} :
            request.classification = "MANUAL_ONLY" /\ request.ownerWork = <<>>}

crossValidateChangeRequest(request, base) ==
  LET components == {base.components[i] : i \in DOMAIN base.components}
      named == request.components
               \union {request.ownerWork[i].component : i \in DOMAIN request.ownerWork}
  IN  {c \in {"CHANGE_UNKNOWN_COMPONENT"} : ~ (named \ {Null} \subseteq components)}

verifyChangeConsistency(request, base, proposed) ==
  {c \in {"CHANGE_INCONSISTENT"} : applyChanges(base, request.changes) # proposed}

(* Faulty variant: any revision of the target will do.                     *)
verifyChangeBaseOfTarget(request, revision) == {}

verifyChangeBase(request, revision) ==
  {c \in {"CHANGE_BASE_STALE"} : request.base # pinnedRef(revision)}

(* What validateContractSet says about a Change Request.                   *)
changeDiagnostics(request) ==
  LET pins == {request.base, request.proposed} \ {Null}
      at(pin) == revisions[pin.revision].spec
  IN  validateChangeRequest(request)
      \union {"REF_DIGEST_MISMATCH" : pin \in {p \in pins : at(p) # p.digest}}
      \union crossValidateChangeRequest(request, at(request.base))
      \union (IF request.proposed = Null THEN {}
              ELSE verifyChangeConsistency(request, at(request.base), at(request.proposed)))
      \union {c \in {"CHANGE_BASE_STALE"} :
                /\ request.status \in {"DRAFT", "PROPOSED", "ACCEPTED"}
                /\ inForceRevision > request.base.revision}

setDiagnostics == UNION {changeDiagnostics(requests[c]) : c \in {d \in Change : requests[d] # Null}}

-----------------------------------------------------------------------------
(* The commits.                                                            *)

Init ==
  /\ revisions = <<[spec |-> FirstSpec, status |-> "ACCEPTED"]>>
  /\ requests = [c \in Change |-> Null]
  /\ applied = <<>>
  /\ edits = 0

Unfinished(c) == requests[c] # Null /\ requests[c].status \in {"PROPOSED", "ACCEPTED"}

(* A request on top of the definition in force.                            *)
Propose(c, request) ==
  /\ requests[c] = Null
  /\ requests' = [requests EXCEPT ![c] =
       [status |-> "PROPOSED", base |-> pinnedRef(inForceRevision), proposed |-> Null,
        changes |-> request.changes, classification |-> request.classification,
        components |-> request.components, ownerWork |-> request.ownerWork,
        migration |-> request.migration]]
  /\ UNCHANGED <<revisions, applied, edits>>

(* The revision it proposes is written, as its changes say or not.         *)
Write(c) ==
  /\ Unfinished(c) /\ requests[c].proposed = Null
  /\ Len(revisions) < MaxRevisions
  /\ \E spec \in {applyChanges(requests[c].base.digest, requests[c].changes), requests[c].base.digest} \ {Null} :
       /\ revisions' = Append(revisions, [spec |-> spec, status |-> "PROPOSED"])
       /\ requests' = [requests EXCEPT ![c].proposed = [revision |-> Len(revisions) + 1, digest |-> spec]]
  /\ UNCHANGED <<applied, edits>>

Decide(c, status) ==
  /\ Unfinished(c) /\ requests[c].status # status
  /\ requests' = [requests EXCEPT ![c].status = status]
  /\ UNCHANGED <<revisions, applied, edits>>

(* The same changes on top of the definition in force, to be decided anew. *)
Rebase(c) ==
  /\ Unfinished(c) /\ verifyChangeBase(requests[c], inForceRevision) # {}
  /\ requests' = [requests EXCEPT ![c].base = pinnedRef(inForceRevision),
                                  ![c].proposed = Null, ![c].status = "PROPOSED"]
  /\ UNCHANGED <<revisions, applied, edits>>

(* The proposed revision comes in force.                                   *)
Apply(c) ==
  /\ Unfinished(c) /\ requests[c].status = "ACCEPTED" /\ requests[c].proposed # Null
  /\ verifyChangeBase(requests[c], inForceRevision) = {}
  /\ revisions' = [revisions EXCEPT ![inForceRevision].status = "SUPERSEDED",
                                    ![requests[c].proposed.revision].status = "ACCEPTED"]
  /\ requests' = [requests EXCEPT ![c].status = "APPLIED"]
  /\ applied' = Append(applied, c)
  /\ UNCHANGED edits

(* The owner edits the revision in force in place.                         *)
Correct(change) ==
  /\ edits < MaxEdits
  /\ edits' = edits + 1
  /\ applyChange(revisions[inForceRevision].spec, change) # Null
  /\ revisions' = [revisions EXCEPT ![inForceRevision].spec = applyChange(@, change)]
  /\ UNCHANGED <<requests, applied>>

Next ==
  \/ \E c \in Change :
       \/ \E request \in Request : Propose(c, request)
       \/ \E status \in {"ACCEPTED", "REJECTED", "WITHDRAWN"} : Decide(c, status)
       \/ Write(c) \/ Rebase(c) \/ Apply(c)
  \/ \E change \in Correction : Correct(change)

Spec == Init /\ [][Next]_vars

-----------------------------------------------------------------------------
(* Properties.                                                             *)

(* The spec the applied changes give, one after the other, from the base   *)
(* of the first.                                                           *)
replayed ==
  LET after[n \in 0 .. Len(applied)] ==
        IF n = 0 THEN requests[applied[1]].base.digest
        ELSE applyChanges(after[n - 1], requests[applied[n]].changes)
  IN  after[Len(applied)]

(* Nothing that was applied is lost: in a set that is valid the definition *)
(* in force is what the applied changes give one after the other, whoever  *)
(* proposed them at the same time, rebased them, edited a revision in      *)
(* place or wrote another one than the changes say.                        *)
AppliedChangesSurvive ==
  setDiagnostics = {} /\ applied # <<>> => revisions[inForceRevision].spec = replayed

-----------------------------------------------------------------------------
(* The invariants behind the theorems of ChangeRequestsProofs.             *)

TypeOK ==
  /\ revisions \in Seq(Revision)
  /\ requests \in [Change -> ChangeRequest \union {Null}]
  /\ applied \in Seq(Change)
  /\ edits \in 0 .. MaxEdits

isInForce(r) ==
  r \in DOMAIN revisions /\ \A s \in DOMAIN revisions : revisions[s].status = "ACCEPTED" <=> s = r

(* A request pins revisions that were written.                             *)
PinsExist ==
  \A c \in Change : requests[c] # Null =>
    /\ requests[c].base.revision \in DOMAIN revisions
    /\ requests[c].proposed # Null => requests[c].proposed.revision \in DOMAIN revisions

(* Each applied change starts from the revision the one before it          *)
(* produced; the last one's is in force.                                   *)
Applied(n) ==
  LET request == requests[applied[n]]
  IN  /\ request # Null /\ request.status = "APPLIED" /\ request.proposed # Null
      /\ n = Len(applied) => isInForce(request.proposed.revision)
      /\ n < Len(applied) => requests[applied[n + 1]].base.revision = request.proposed.revision

AppliedChain ==
  /\ \E r \in DOMAIN revisions : isInForce(r)
  /\ \A n \in DOMAIN applied : Applied(n)

=============================================================================
