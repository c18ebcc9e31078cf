------------------------- MODULE MaterializerProofs -------------------------
(***************************************************************************)
(* What holds of Materializer for every value of its constants: its types, *)
(* what a decision rests on, that the records are valid, what follows for  *)
(* conflicts and for edits, what overlapping runs may do to one another,   *)
(* and that the materializer keeps the promise of AtomicWorkspace.         *)
(***************************************************************************)
EXTENDS Materializer, Induction

(* What planArtifacts returns for a valid adapter output is a plan.        *)
LEMMA PlanArtifactsType ==
  ASSUME NEW class, NEW arts \in Seq(Artifact), ~ protocolViolation(arts)
  PROVE  planArtifacts(class, arts) \in ArtifactPlan
<1> DEFINE has(path) == \E i \in DOMAIN arts : arts[i].path = path
           at(path) == CHOOSE j \in DOMAIN arts : arts[j].path = path
           item(path) == [ownership |-> IF class = "OWNER_MANAGED" THEN "OWNER_SEEDED"
                                        ELSE arts[at(path)].ownership,
                          digest |-> arts[at(path)].content]
<1>1. ASSUME NEW path \in Path, has(path)
      PROVE  item(path) \in PlannedArtifact
  <2>1. at(path) \in DOMAIN arts
    BY <1>1
  <2>2. arts[at(path)] \in Artifact
    BY <2>1
  <2>3. arts[at(path)].ownership \in ArtifactOwnership
    BY <2>1 DEF protocolViolation
  <2> QED
    BY <2>2, <2>3 DEF PlannedArtifact, Artifact, ArtifactOwnership
<1>2. planArtifacts(class, arts) = [path \in Path |-> IF has(path) THEN item(path) ELSE Null]
  BY DEF planArtifacts
<1> HIDE DEF has, item
<1> QED
  BY <1>1, <1>2 DEF ArtifactPlan

(* The plans an invocation works from.                                     *)
LEMMA PlanType ==
  ASSUME NEW q \in Request, NEW c \in Component
  PROVE  Plan[q][c] \in ArtifactPlan \union {Null}
<1> DEFINE result == PlanResult[q]
           step == result.steps[c]
<1>0. result \in PlanResults
  BY PlanResultAssumption
<1>1. Plan[q][c] = IF /\ materializes(result, c) /\ isLoaded(result, c)
                      /\ ~ rejects(result, c) /\ ~ protocolViolation(rendered(result, c))
                   THEN planArtifacts(step.class, rendered(result, c)) ELSE Null
  BY DEF Plan, planMaterialization
<1>2. CASE /\ materializes(result, c) /\ isLoaded(result, c)
           /\ ~ rejects(result, c) /\ ~ protocolViolation(rendered(result, c))
  <2>1. step \in Step
    BY <1>0, <1>2 DEF PlanResults, materializes
  <2>2. result.host[step.adapter] \in Loaded
    BY <1>0, <1>2, <2>1 DEF PlanResults, Step, isLoaded
  <2>3. rendered(result, c) \in Seq(Artifact)
    BY <2>2 DEF Loaded, rendered
  <2> QED
    BY <1>1, <1>2, <2>3, PlanArtifactsType
<1>3. CASE ~ (/\ materializes(result, c) /\ isLoaded(result, c)
              /\ ~ rejects(result, c) /\ ~ protocolViolation(rendered(result, c)))
  BY <1>1, <1>3
<1> QED
  BY <1>2, <1>3

(* The ownership rule always decides.                                      *)
LEMMA DecideWriteType ==
  ASSUME NEW a, NEW e, NEW l
  PROVE  decideWrite(a, e, l) \in WriteDecision
BY DEF decideWrite, WriteDecision

-----------------------------------------------------------------------------
(* The types and what each process knows of its own run.                   *)
IInv == TypeOK /\ LocalsOK

(* A working process has a typed plan for its component.                   *)
LEMMA ArtifactsType ==
  ASSUME IInv, NEW p \in Process, Working(p)
  PROVE  /\ request[p] \in Request
         /\ current[p] \in Component
         /\ artifacts(p) \in ArtifactPlan
         /\ planned(p) \subseteq Path
         /\ \A path \in planned(p) : artifacts(p)[path] \in PlannedArtifact
<1>1. Live(p)
  BY DEF Working, Live
<1>2. request[p] \in Request /\ current[p] \in Component /\ artifacts(p) # Null
  BY <1>1 DEF IInv, LocalsOK, LocalOK
<1>3. artifacts(p) \in ArtifactPlan
  BY <1>2, PlanType DEF artifacts
<1> QED
  BY <1>2, <1>3 DEF ArtifactPlan, planned

(* The record a process is about to store is well formed.                  *)
LEMMA RecordType ==
  ASSUME IInv, NEW p \in Process, Working(p), undecided(p) = {}
  PROVE  materializationRecord(p) \in Record
<1> DEFINE files == [path \in Path |->
                IF path \in planned(p)
                THEN [ownership |-> artifacts(p)[path].ownership,
                      digest |-> artifacts(p)[path].digest,
                      decision |-> decision[p][path]]
                ELSE Null]
<1>1. previous[p] \in Record \union {Null}
  BY DEF IInv, TypeOK
<1>2. baseRevision(p) < MaxRuns
  BY DEF IInv, LocalsOK, LocalOK
<1>3. baseRevision(p) + 1 \in Revision
  BY <1>1, <1>2, BoundsAssumption DEF Revision, Record, baseRevision
<1>4. (IF previous[p] = Null THEN Null ELSE pinnedRef(previous[p])) \in Pin \union {Null}
  BY <1>1 DEF Record, Pin, pinnedRef
<1>5. \A path \in planned(p) : decision[p][path] \in WriteDecision
  BY ArtifactsType DEF IInv, TypeOK, undecided
<1>6. files \in Inventory
  BY <1>5, ArtifactsType DEF Inventory, RecordedFile, PlannedArtifact
<1>7. request[p] \in Request
  BY ArtifactsType
<1> HIDE DEF files
<1>8. materializationRecord(p) =
        [revision |-> baseRevision(p) + 1,
         status |-> "VALID", request |-> request[p], files |-> files,
         supersedes |-> IF previous[p] = Null THEN Null ELSE pinnedRef(previous[p])]
  BY DEF materializationRecord, files
<1> QED
  BY <1>3, <1>4, <1>6, <1>7, <1>8 DEF Record

(* Superseding a record changes its status only.                           *)
LEMMA SupersededType ==
  ASSUME NEW record \in Record
  PROVE  /\ superseded(record) \in Record
         /\ superseded(record).status = "SUPERSEDED"
         /\ superseded(record).revision = record.revision
         /\ superseded(record).files = record.files
         /\ superseded(record).supersedes = record.supersedes
         /\ pinnedRef(superseded(record)) = pinnedRef(record)
BY DEF superseded, Record, pinnedRef

(* A process keeps what it knows when its own variables do not change.     *)
LEMMA LocalFrame ==
  ASSUME NEW q \in Process, LocalOK(q),
         pc'[q] = pc[q], request'[q] = request[q], todo'[q] = todo[q],
         current'[q] = current[q], previous'[q] = previous[q],
         decision'[q] = decision[q], written'[q] = written[q],
         raced'[q] = raced[q] \/ Working(q)
  PROVE  LocalOK(q)'
BY DEF LocalOK, Live, Working, Recording, artifacts, planned, undecided, conflicts, pending, baseRevision

(* Writing a record file keeps the store well typed and indexed.            *)
LEMMA PutRecordTyped ==
  ASSUME TypeOK, StoreIndexed, NEW c \in Component, NEW r \in Revision, NEW record \in Record,
         record.revision = r, PutRecord(c, r, record)
  PROVE  /\ store' \in [Component -> [Revision -> Record \union {Null}]]
         /\ broken' \in [Component -> SUBSET Revision]
         /\ StoreIndexed'
<1>1. CASE /\ store' = [store EXCEPT ![c][r] = record]
           /\ broken' = [broken EXCEPT ![c] = @ \ {r}]
  <2>1. store' \in [Component -> [Revision -> Record \union {Null}]]
    BY <1>1 DEF TypeOK
  <2>2. broken' \in [Component -> SUBSET Revision]
    BY <1>1 DEF TypeOK
  <2>3. \A d \in Component, s \in Revision :
          store'[d][s] = IF d = c /\ s = r THEN record ELSE store[d][s]
    BY <1>1 DEF TypeOK
  <2>4. StoreIndexed'
    BY <2>3 DEF StoreIndexed
  <2> QED
    BY <2>1, <2>2, <2>4
<1>2. CASE OpenRecordFile(c, r) /\ UNCHANGED store
  BY <1>2 DEF TypeOK, StoreIndexed, OpenRecordFile
<1> QED
  BY <1>1, <1>2 DEF PutRecord

(* What a write leaves in a file, and who is its author then.              *)
LEMMA WriteEffect ==
  ASSUME IInv, NEW p \in Process, Write(p)
  PROVE  \E path \in pending(p), content \in Content \union {Null, Torn} :
           /\ Working(p) /\ current[p] \in Component /\ path \in Path /\ path \in planned(p)
           /\ Least(pending(p), path) /\ isOpen(p, current[p], path)
           /\ artifacts(p)[path].digest \in Content
           /\ content \in settled(disk[current[p]][path], artifacts(p)[path].digest)
           /\ disk' = [disk EXCEPT ![current[p]][path] = content]
           /\ IF content = artifacts(p)[path].digest
              THEN author' = [author EXCEPT ![current[p]][path] = "compiler"]
              ELSE author' = author
           /\ written' = [written EXCEPT ![p] = @ \union {path}]
<1>1. Working(p) /\ pc[p] = "writing"
  BY DEF Write, Working
<1>2. /\ current[p] \in Component /\ planned(p) \subseteq Path
      /\ \A path \in planned(p) : artifacts(p)[path] \in PlannedArtifact
  BY <1>1, ArtifactsType
<1>3. PICK path \in pending(p) :
        /\ Least(pending(p), path)
        /\ LET digest == artifacts(p)[path].digest
           IN  \E content \in settled(disk[current[p]][path], digest) :
                 IF content = digest THEN Put(p, path, digest)
                 ELSE /\ disk' = [disk EXCEPT ![current[p]][path] = content]
                      /\ UNCHANGED author
        /\ written' = [written EXCEPT ![p] = @ \union {path}]
  BY DEF Write
<1>4. path \in planned(p) /\ path \in Path /\ artifacts(p)[path].digest \in Content
  BY <1>2 DEF pending, PlannedArtifact
<1> DEFINE digest == artifacts(p)[path].digest
<1>5. PICK content \in settled(disk[current[p]][path], digest) :
        IF content = digest THEN Put(p, path, digest)
        ELSE /\ disk' = [disk EXCEPT ![current[p]][path] = content]
             /\ UNCHANGED author
  BY <1>3
<1>6. disk[current[p]][path] \in Content \union {Null, Torn}
  BY <1>2, <1>4 DEF IInv, TypeOK
<1>7. content \in Content \union {Null, Torn}
  BY <1>4, <1>5, <1>6 DEF settled
<1>8. isOpen(p, current[p], path)
  BY <1>1, <1>3 DEF isOpen
<1>9. /\ disk' = [disk EXCEPT ![current[p]][path] = content]
      /\ IF content = digest
         THEN author' = [author EXCEPT ![current[p]][path] = "compiler"]
         ELSE author' = author
  BY <1>5 DEF Put
<1> HIDE DEF digest
<1> QED
  BY <1>1, <1>2, <1>3, <1>4, <1>5, <1>7, <1>8, <1>9 DEF digest

LEMMA WriteTyped ==
  ASSUME IInv, NEW p \in Process, Write(p)
  PROVE  TypeOK'
<1>1. PICK path \in pending(p), content \in Content \union {Null, Torn} :
        /\ current[p] \in Component /\ path \in Path
        /\ disk' = [disk EXCEPT ![current[p]][path] = content]
        /\ IF content = artifacts(p)[path].digest
           THEN author' = [author EXCEPT ![current[p]][path] = "compiler"]
           ELSE author' = author
        /\ written' = [written EXCEPT ![p] = @ \union {path}]
  BY WriteEffect
<1>2. disk' \in [Component -> [Path -> Content \union {Null, Torn}]]
  BY <1>1 DEF IInv, TypeOK
<1>3. author' \in [Component -> [Path -> {"none", "compiler", "owner"}]]
  <2>1. author \in [Component -> [Path -> {"none", "compiler", "owner"}]]
    BY DEF IInv, TypeOK
  <2>2. \/ author' = author
        \/ author' = [author EXCEPT ![current[p]][path] = "compiler"]
    BY <1>1
  <2> QED
    BY <1>1, <2>1, <2>2
<1>4. written' \in [Process -> SUBSET Path]
  BY <1>1 DEF IInv, TypeOK
<1> QED
  BY <1>2, <1>3, <1>4 DEF IInv, TypeOK, Write, bounds

(* Every behaviour of the materializer keeps its types, what each process  *)
(* knows of its own run, and the names of the record files.                *)
THEOREM TypeCorrect == Spec => []IInv
<1>1. Init => IInv
  <2> SUFFICES ASSUME Init PROVE IInv
    OBVIOUS
  <2>1. TypeOK
    BY BoundsAssumption DEF Init, TypeOK
  <2>2. LocalsOK
    BY DEF Init, LocalsOK, LocalOK, StoreIndexed, Live, Working, Recording
  <2> QED
    BY <2>1, <2>2 DEF IInv
<1>2. IInv /\ [Next]_vars => IInv'
  <2> SUFFICES ASSUME IInv, [Next]_vars PROVE IInv'
    OBVIOUS
  <2>0. TypeOK /\ LocalsOK
    BY DEF IInv
  <2>1. ASSUME NEW p \in Process, NEW q \in Request, Begin(p, q) PROVE IInv'
    <3>1. TypeOK'
      BY <2>0, <2>1, BoundsAssumption DEF TypeOK, Begin, plannedComponents, workspace, history
    <3>2. StoreIndexed'
      BY <2>0, <2>1 DEF LocalsOK, StoreIndexed, Begin, workspace
    <3>3. LocalOK(p)'
      BY <2>0, <2>1 DEF TypeOK, LocalsOK, LocalOK, Begin, Live, Working, Recording
    <3>4. ASSUME NEW o \in Process, o # p PROVE LocalOK(o)'
      BY <2>0, <2>1, <3>4, LocalFrame DEF TypeOK, LocalsOK, Begin
    <3> QED
      BY <3>1, <3>2, <3>3, <3>4 DEF IInv, LocalsOK
  <2>2. ASSUME NEW p \in Process, ReadInventory(p) PROVE IInv'
    <3>1. TypeOK'
      BY <2>0, <2>2, BoundsAssumption DEF TypeOK, ReadInventory, isLatest, workspace, history, bounds, Revision
    <3>2. StoreIndexed'
      BY <2>0, <2>2 DEF LocalsOK, StoreIndexed, ReadInventory, workspace
    <3>3. LocalOK(p)'
      <4>1. PICK c \in todo[p], r \in 0 .. MaxRuns :
              /\ isLatest(c, r) /\ r < MaxRuns
              /\ current' = [current EXCEPT ![p] = c]
              /\ previous' = [previous EXCEPT ![p] = IF r = 0 THEN Null ELSE store[c][r]]
              /\ todo' = [todo EXCEPT ![p] = @ \ {c}]
        BY <2>2 DEF ReadInventory
      <4>2. /\ pc[p] = "next" /\ pc'[p] = "decide"
            /\ request' = request /\ decision' = decision /\ written' = written
            /\ raced' = raced
        BY <2>0, <2>2 DEF ReadInventory, TypeOK
      <4>3. Live(p) /\ ~ Working(p)
        BY <4>2 DEF Live, Working
      <4>4. /\ request[p] \in Request /\ todo[p] \subseteq plannedComponents(request[p])
            /\ written[p] = {} /\ raced[p] = {} /\ decision[p] = [path \in Path |-> Undecided]
        BY <2>0, <4>3 DEF LocalsOK, LocalOK
      <4>5. c \in Component /\ Plan[request[p]][c] # Null
        BY <4>4 DEF plannedComponents
      <4>6. current'[p] = c /\ todo'[p] = todo[p] \ {c}
            /\ previous'[p] = IF r = 0 THEN Null ELSE store[c][r]
        BY <2>0, <4>1 DEF TypeOK
      <4>7. baseRevision(p)' < MaxRuns
        BY <2>0, <4>1, <4>5, <4>6, BoundsAssumption DEF LocalsOK, StoreIndexed, isLatest, Revision, baseRevision
      <4> QED
        BY <4>2, <4>4, <4>5, <4>6, <4>7 DEF LocalOK, Live, Working, Recording, artifacts
    <3>4. ASSUME NEW o \in Process, o # p PROVE LocalOK(o)'
      BY <2>0, <2>2, <3>4, LocalFrame DEF TypeOK, LocalsOK, ReadInventory
    <3> QED
      BY <3>1, <3>2, <3>3, <3>4 DEF IInv, LocalsOK
  <2>3. ASSUME NEW p \in Process, ReadFails(p) PROVE IInv'
    <3>1. TypeOK'
      BY <2>0, <2>3 DEF TypeOK, ReadFails, workspace, locals, history, bounds
    <3>2. StoreIndexed'
      BY <2>0, <2>3 DEF LocalsOK, StoreIndexed, ReadFails, workspace
    <3>3. LocalOK(p)'
      BY <2>0, <2>3 DEF TypeOK, LocalsOK, LocalOK, ReadFails, Live, Working, Recording, locals
    <3>4. ASSUME NEW o \in Process, o # p PROVE LocalOK(o)'
      BY <2>0, <2>3, <3>4, LocalFrame DEF TypeOK, LocalsOK, ReadFails, locals
    <3> QED
      BY <3>1, <3>2, <3>3, <3>4 DEF IInv, LocalsOK
  <2>4. ASSUME NEW p \in Process, Decide(p) PROVE IInv'
    <3>1. TypeOK'
      BY <2>0, <2>4, DecideWriteType DEF TypeOK, Decide, workspace, history, bounds, undecided, planned
    <3>2. StoreIndexed'
      BY <2>0, <2>4 DEF LocalsOK, StoreIndexed, Decide, workspace
    <3>3. LocalOK(p)'
      BY <2>0, <2>4 DEF TypeOK, LocalsOK, LocalOK, baseRevision, Decide, Live, Working, Recording, artifacts
    <3>4. ASSUME NEW o \in Process, o # p PROVE LocalOK(o)'
      BY <2>0, <2>4, <3>4, LocalFrame DEF TypeOK, LocalsOK, Decide
    <3> QED
      BY <3>1, <3>2, <3>3, <3>4 DEF IInv, LocalsOK
  <2>5. ASSUME NEW p \in Process, Conflict(p) PROVE IInv'
    <3>1. TypeOK'
      BY <2>0, <2>5 DEF TypeOK, Conflict, Leave, workspace, history, bounds, Undecided
    <3>2. StoreIndexed'
      BY <2>0, <2>5 DEF LocalsOK, StoreIndexed, Conflict, workspace
    <3>3. LocalOK(p)'
      BY <2>0, <2>5 DEF TypeOK, LocalsOK, LocalOK, Conflict, Leave, Live, Working, Recording
    <3>4. ASSUME NEW o \in Process, o # p PROVE LocalOK(o)'
      BY <2>0, <2>5, <3>4, LocalFrame DEF TypeOK, LocalsOK, Conflict, Leave
    <3> QED
      BY <3>1, <3>2, <3>3, <3>4 DEF IInv, LocalsOK
  <2>6. ASSUME NEW p \in Process, Apply(p) PROVE IInv'
    <3>1. TypeOK'
      BY <2>0, <2>6 DEF TypeOK, Apply, workspace, locals, history, bounds
    <3>2. StoreIndexed'
      BY <2>0, <2>6 DEF LocalsOK, StoreIndexed, Apply, workspace
    <3>3. LocalOK(p)'
      BY <2>0, <2>6 DEF TypeOK, LocalsOK, LocalOK, baseRevision, Apply, Live, Working, Recording, locals, undecided, conflicts, planned, artifacts
    <3>4. ASSUME NEW o \in Process, o # p PROVE LocalOK(o)'
      BY <2>0, <2>6, <3>4, LocalFrame DEF TypeOK, LocalsOK, Apply, locals
    <3> QED
      BY <3>1, <3>2, <3>3, <3>4 DEF IInv, LocalsOK
  <2>7. ASSUME NEW p \in Process, OpenFile(p) PROVE IInv'
    <3>0. PICK path \in pending(p) : Put(p, path, Torn)
      BY <2>7 DEF OpenFile
    <3>1. TypeOK'
      BY <2>0, <2>7, <3>0 DEF TypeOK, OpenFile, Put, locals, bounds
    <3>2. StoreIndexed'
      BY <2>0, <2>7 DEF LocalsOK, StoreIndexed, OpenFile
    <3>3. LocalOK(p)'
      BY <2>0, <2>7 DEF TypeOK, LocalsOK, LocalOK, baseRevision, OpenFile, Live, Working, Recording,
         locals, undecided, conflicts, planned, artifacts
    <3>4. ASSUME NEW o \in Process, o # p PROVE LocalOK(o)'
      BY <2>0, <2>7, <3>4, LocalFrame DEF TypeOK, LocalsOK, OpenFile, locals
    <3> QED
      BY <3>1, <3>2, <3>3, <3>4 DEF IInv, LocalsOK
  <2>8. ASSUME NEW p \in Process, Write(p) PROVE IInv'
    <3>0. /\ Working(p) /\ pc[p] = "writing"
          /\ \A path \in planned(p) : artifacts(p)[path] \in PlannedArtifact
      BY <2>8, ArtifactsType DEF Write, Working
    <3>1. TypeOK'
      BY <2>8, WriteTyped
    <3>2. StoreIndexed'
      BY <2>0, <2>8 DEF LocalsOK, StoreIndexed, Write
    <3>3. LocalOK(p)'
      BY <2>0, <2>8 DEF TypeOK, LocalsOK, LocalOK, baseRevision, Write, Live, Working, Recording,
         undecided, conflicts, planned, artifacts
    <3>4. ASSUME NEW o \in Process, o # p PROVE LocalOK(o)'
      BY <2>0, <2>8, <3>4, LocalFrame DEF TypeOK, LocalsOK, Write
    <3> QED
      BY <3>1, <3>2, <3>3, <3>4 DEF IInv, LocalsOK
  <2>9. ASSUME NEW p \in Process, OpenPrevious(p) PROVE IInv'
    <3>0. previous[p] # Null => previous[p].revision \in Revision
      BY <2>0 DEF TypeOK, Record
    <3>5. current[p] \in Component
      BY <2>0, <2>9 DEF LocalsOK, LocalOK, OpenPrevious, Working
    <3>6. ASSUME previous[p] = Null PROVE TypeOK'
      BY <2>0, <2>9, <3>6 DEF TypeOK, OpenPrevious, locals, history, bounds
    <3>7. ASSUME previous[p] # Null PROVE TypeOK'
      <4>1. broken' = [broken EXCEPT ![current[p]] = @ \union {previous[p].revision}]
        BY <2>9, <3>7 DEF OpenPrevious, OpenRecordFile
      <4>2. broken' \in [Component -> SUBSET Revision]
        BY <2>0, <3>0, <3>5, <3>7, <4>1 DEF TypeOK
      <4>3. pc' = [pc EXCEPT ![p] = "superseding"]
        BY <2>9, <3>7 DEF OpenPrevious
      <4>4. pc' \in [Process -> {"idle", "next", "decide", "write", "writing", "superseding", "store",
                                 "storing", "done", "failed"}]
        BY <2>0, <4>3 DEF TypeOK
      <4> QED
        BY <2>0, <2>9, <4>2, <4>4 DEF TypeOK, OpenPrevious, locals, history, bounds
    <3>1. TypeOK'
      BY <3>6, <3>7
    <3>2. StoreIndexed'
      BY <2>0, <2>9 DEF LocalsOK, StoreIndexed, OpenPrevious
    <3>3. LocalOK(p)'
      <4>1. /\ pc[p] = "write" /\ pending(p) = {}
            /\ pc'[p] \in {"store", "superseding"} /\ (pc'[p] = "superseding" => previous[p] # Null)
        BY <2>0, <2>9 DEF TypeOK, OpenPrevious
      <4>2. /\ request' = request /\ todo' = todo /\ current' = current /\ previous' = previous
            /\ decision' = decision /\ written' = written /\ raced' = raced
        BY <2>9 DEF OpenPrevious, locals
      <4>3. /\ undecided(p)' = undecided(p) /\ conflicts(p)' = conflicts(p) /\ pending(p)' = pending(p)
            /\ artifacts(p)' = artifacts(p) /\ baseRevision(p)' = baseRevision(p)
        BY <4>2 DEF undecided, conflicts, pending, planned, artifacts, baseRevision
      <4>4. LocalOK(p)
        BY <2>0 DEF LocalsOK
      <4> QED
        BY <4>1, <4>2, <4>3, <4>4 DEF LocalOK, Live, Working, Recording
    <3>4. ASSUME NEW o \in Process, o # p PROVE LocalOK(o)'
      <4>1. pc'[o] = pc[o]
        BY <2>0, <2>9, <3>4 DEF TypeOK, OpenPrevious
      <4> QED
        BY <2>0, <2>9, <4>1, LocalFrame DEF LocalsOK, OpenPrevious, locals
    <3> QED
      BY <3>1, <3>2, <3>3, <3>4 DEF IInv, LocalsOK
  <2>10. ASSUME NEW p \in Process, Supersede(p) PROVE IInv'
    <3>0. /\ superseded(previous[p]) \in Record
          /\ previous[p].revision \in Revision
          /\ superseded(previous[p]).revision = previous[p].revision
      <4>1. previous[p] \in Record
        BY <2>0, <2>10 DEF TypeOK, Supersede, LocalsOK, LocalOK
      <4> QED
        BY <4>1, SupersededType DEF Record
    <3>5. current[p] \in Component
      BY <2>0, <2>10 DEF LocalsOK, LocalOK, Supersede, Working
    <3>1. TypeOK' /\ StoreIndexed'
      <4>1. PutRecord(current[p], previous[p].revision, superseded(previous[p]))
        BY <2>10 DEF Supersede
      <4>2. store' \in [Component -> [Revision -> Record \union {Null}]]
            /\ broken' \in [Component -> SUBSET Revision] /\ StoreIndexed'
        BY <2>0, <3>0, <3>5, <4>1, PutRecordTyped DEF LocalsOK
      <4> QED
        BY <2>0, <2>10, <4>2 DEF TypeOK, Supersede, locals, history, bounds
    <3>3. LocalOK(p)'
      BY <2>0, <2>10 DEF TypeOK, LocalsOK, LocalOK, baseRevision, Supersede, Live, Working, Recording,
         locals, undecided, conflicts, pending, planned, artifacts
    <3>4. ASSUME NEW o \in Process, o # p PROVE LocalOK(o)'
      BY <2>0, <2>10, <3>4, LocalFrame DEF TypeOK, LocalsOK, Supersede, locals
    <3> QED
      BY <3>1, <3>3, <3>4 DEF IInv, LocalsOK
  <2>11. ASSUME NEW p \in Process, OpenRecord(p) PROVE IInv'
    <3>0. materializationRecord(p) \in Record
      BY <2>0, <2>11, RecordType DEF LocalsOK, LocalOK, OpenRecord, Working
    <3>1. TypeOK'
      BY <2>0, <2>11, <3>0 DEF TypeOK, OpenRecord, OpenRecordFile, locals, history, bounds, Record
    <3>2. StoreIndexed'
      BY <2>0, <2>11 DEF LocalsOK, StoreIndexed, OpenRecord
    <3>3. LocalOK(p)'
      BY <2>0, <2>11 DEF TypeOK, LocalsOK, LocalOK, baseRevision, OpenRecord, Live, Working, Recording,
         locals, undecided, conflicts, pending, planned, artifacts
    <3>4. ASSUME NEW o \in Process, o # p PROVE LocalOK(o)'
      BY <2>0, <2>11, <3>4, LocalFrame DEF TypeOK, LocalsOK, OpenRecord, locals
    <3> QED
      BY <3>1, <3>2, <3>3, <3>4 DEF IInv, LocalsOK
  <2>12. ASSUME NEW p \in Process, StoreRecord(p) PROVE IInv'
    <3>0. materializationRecord(p) \in Record /\ materializationRecord(p).revision \in Revision
      <4>1. materializationRecord(p) \in Record
        BY <2>0, <2>12, RecordType DEF LocalsOK, LocalOK, StoreRecord, Working
      <4> QED
        BY <4>1 DEF Record
    <3>5. current[p] \in Component /\ materializationRecord(p).revision \in Revision
      BY <2>0, <2>12, <3>0 DEF LocalsOK, LocalOK, StoreRecord, Working
    <3>1. TypeOK' /\ StoreIndexed'
      <4>1. PutRecord(current[p], materializationRecord(p).revision, materializationRecord(p))
        BY <2>12 DEF StoreRecord
      <4>2. store' \in [Component -> [Revision -> Record \union {Null}]]
            /\ broken' \in [Component -> SUBSET Revision] /\ StoreIndexed'
        BY <2>0, <3>0, <3>5, <4>1, PutRecordTyped DEF LocalsOK
      <4> QED
        BY <2>0, <2>12, <4>2 DEF TypeOK, StoreRecord, Leave, bounds, Undecided
    <3>3. LocalOK(p)'
      BY <2>0, <2>12 DEF TypeOK, LocalsOK, LocalOK, StoreRecord, Leave, Live, Working, Recording
    <3>4. ASSUME NEW o \in Process, o # p PROVE LocalOK(o)'
      BY <2>0, <2>12, <3>4, LocalFrame DEF TypeOK, LocalsOK, StoreRecord, Leave
    <3> QED
      BY <3>1, <3>3, <3>4 DEF IInv, LocalsOK
  <2>13. ASSUME NEW p \in Process, Finish(p) PROVE IInv'
    <3>1. TypeOK'
      BY <2>0, <2>13 DEF TypeOK, Finish, workspace, locals, history, bounds
    <3>2. StoreIndexed'
      BY <2>0, <2>13 DEF LocalsOK, StoreIndexed, Finish, workspace
    <3>3. LocalOK(p)'
      BY <2>0, <2>13 DEF TypeOK, LocalsOK, LocalOK, Finish, Live, Working, Recording, locals
    <3>4. ASSUME NEW o \in Process, o # p PROVE LocalOK(o)'
      BY <2>0, <2>13, <3>4, LocalFrame DEF TypeOK, LocalsOK, Finish, locals
    <3> QED
      BY <3>1, <3>2, <3>3, <3>4 DEF IInv, LocalsOK
  <2>14. ASSUME NEW p \in Process, Crash(p) PROVE IInv'
    <3>1. TypeOK'
      BY <2>0, <2>14, BoundsAssumption DEF TypeOK, Crash, Leave, workspace, Undecided, LocalsOK, LocalOK
    <3>2. StoreIndexed'
      BY <2>0, <2>14 DEF LocalsOK, StoreIndexed, Crash, workspace
    <3>3. LocalOK(p)'
      BY <2>0, <2>14 DEF TypeOK, LocalsOK, LocalOK, Crash, Leave, Live, Working, Recording
    <3>4. ASSUME NEW o \in Process, o # p PROVE LocalOK(o)'
      BY <2>0, <2>14, <3>4, LocalFrame DEF TypeOK, LocalsOK, Crash, Leave
    <3> QED
      BY <3>1, <3>2, <3>3, <3>4 DEF IInv, LocalsOK
  <2>15. ASSUME NEW c \in Component, NEW path \in Path, NEW content \in Content \union {Null},
                OwnerEdit(c, path, content)
         PROVE  IInv'
    <3>1. TypeOK'
      BY <2>0, <2>15, BoundsAssumption DEF TypeOK, OwnerEdit
    <3>2. StoreIndexed'
      BY <2>0, <2>15 DEF LocalsOK, StoreIndexed, OwnerEdit
    <3>3. ASSUME NEW o \in Process PROVE LocalOK(o)'
      <4>1. raced'[o] = raced[o] \/ decision[o][path] # Undecided
        BY <2>15 DEF OwnerEdit
      <4>2. raced'[o] = raced[o] \/ Working(o)
        BY <2>0, <4>1 DEF LocalsOK, LocalOK
      <4> QED
        BY <2>0, <2>15, <4>2, LocalFrame DEF LocalsOK, OwnerEdit
    <3> QED
      BY <3>1, <3>2, <3>3 DEF IInv, LocalsOK
  <2>16. CASE UNCHANGED vars
    <3>1. TypeOK'
      BY <2>0, <2>16 DEF TypeOK, vars, workspace, locals, history, bounds
    <3>2. StoreIndexed'
      BY <2>0, <2>16 DEF LocalsOK, StoreIndexed, vars, workspace
    <3>3. ASSUME NEW o \in Process PROVE LocalOK(o)'
      BY <2>0, <2>16, LocalFrame DEF LocalsOK, vars, locals
    <3> QED
      BY <3>1, <3>2, <3>3 DEF IInv, LocalsOK
  <2> QED
    BY <2>1, <2>2, <2>3, <2>4, <2>5, <2>6, <2>7, <2>8, <2>9, <2>10, <2>11, <2>12, <2>13,
       <2>14, <2>15, <2>16 DEF Next, Run
<1> QED
  BY <1>1, <1>2, PTL DEF Spec

-----------------------------------------------------------------------------
(* Every behaviour of materialize, with any number of overlapping and      *)
(* dying invocations, is well typed.                                       *)
THEOREM MaterializerTypes == Spec => []TypeOK
<1>1. IInv => TypeOK
  BY DEF IInv
<1> QED
  BY <1>1, TypeCorrect, PTL

(***************************************************************************)
(* One run at a time.                                                      *)
(***************************************************************************)

(* A step of a process changes the variables of that process only.         *)
Acts(p) == Run(p) \/ (\E q \in Request : Begin(p, q)) \/ Crash(p)

LEMMA OwnVariables ==
  ASSUME IInv, NEW p \in Process, Acts(p), NEW o \in Process, o # p
  PROVE  /\ pc'[o] = pc[o] /\ request'[o] = request[o] /\ todo'[o] = todo[o]
         /\ current'[o] = current[o] /\ previous'[o] = previous[o]
         /\ decision'[o] = decision[o] /\ written'[o] = written[o]
         /\ outcome'[o] = outcome[o] /\ raced'[o] = raced[o]
<1> USE DEF IInv, TypeOK
<1>1. CASE ReadInventory(p)
  BY <1>1 DEF ReadInventory
<1>2. CASE ReadFails(p)
  BY <1>2 DEF ReadFails, locals
<1>3. CASE Decide(p)
  BY <1>3 DEF Decide
<1>4. CASE Conflict(p)
  BY <1>4 DEF Conflict, Leave
<1>5. CASE Apply(p)
  BY <1>5 DEF Apply, locals
<1>6. CASE OpenFile(p)
  BY <1>6 DEF OpenFile, locals
<1>7. CASE Write(p)
  BY <1>7 DEF Write
<1>8. CASE OpenPrevious(p)
  <2>1. pc' = [pc EXCEPT ![p] = "store"] \/ pc' = [pc EXCEPT ![p] = "superseding"]
    BY <1>8 DEF OpenPrevious
  <2> QED
    BY <1>8, <2>1 DEF OpenPrevious, locals
<1>9. CASE Supersede(p)
  BY <1>9 DEF Supersede, locals
<1>10. CASE OpenRecord(p)
  BY <1>10 DEF OpenRecord, locals
<1>11. CASE StoreRecord(p)
  BY <1>11 DEF StoreRecord, Leave
<1>12. CASE Finish(p)
  BY <1>12 DEF Finish, locals
<1>13. CASE Crash(p)
  BY <1>13 DEF Crash, Leave
<1>14. ASSUME NEW q \in Request, Begin(p, q)
       PROVE  /\ pc'[o] = pc[o] /\ request'[o] = request[o] /\ todo'[o] = todo[o]
              /\ current'[o] = current[o] /\ previous'[o] = previous[o]
              /\ decision'[o] = decision[o] /\ written'[o] = written[o]
              /\ outcome'[o] = outcome[o] /\ raced'[o] = raced[o]
  BY <1>14 DEF Begin
<1> QED
  BY <1>1, <1>2, <1>3, <1>4, <1>5, <1>6, <1>7, <1>8, <1>9, <1>10, <1>11, <1>12, <1>13, <1>14
  DEF Acts, Run

(* Whoever acts is live, or starts; in isolation, when nobody is.          *)
LEMMA ActorsAreLive ==
  ASSUME IInv, NEW p \in Process, Acts(p)
  PROVE  Live(p) \/ (Isolated => Quiet)
<1>1. ASSUME Run(p) PROVE Live(p)
  BY <1>1 DEF Run, ReadInventory, ReadFails, Decide, Conflict, Apply, OpenFile, Write, OpenPrevious,
     Supersede, OpenRecord, StoreRecord, Finish, Live
<1> QED
  BY <1>1 DEF Acts, Begin, Crash

(* A step is one of a process, an edit of the owner, or none.              *)
LEMMA WhoActs ==
  ASSUME [Next]_vars
  PROVE  \/ \E p \in Process : Acts(p)
         \/ \E c \in Component, path \in Path, content \in Content \union {Null} :
              OwnerEdit(c, path, content)
         \/ UNCHANGED vars
BY DEF Next, Acts

(* What a run that reads the inventory finds and sets.                     *)
LEMMA ReadsInventory ==
  ASSUME IInv, NEW p \in Process, ReadInventory(p)
  PROVE  \E c \in Component, r \in 0 .. MaxRuns :
           /\ c \in todo[p] /\ Least(todo[p], c) /\ broken[c] = {} /\ isLatest(c, r) /\ r < MaxRuns
           /\ pc[p] = "next" /\ pc'[p] = "decide" /\ Live(p) /\ ~ Working(p)
           /\ current'[p] = c /\ todo'[p] = todo[p] \ {c}
           /\ previous'[p] = IF r = 0 THEN Null ELSE store[c][r]
           /\ previous'[p] # Null => r \in Revision /\ store[c][r] \in Record /\ previous'[p] = store[c][r]
           /\ workspace' = workspace /\ request' = request /\ decision' = decision /\ written' = written
           /\ outcome' = outcome /\ raced' = raced /\ history' = history /\ bounds' = bounds
           /\ request[p] \in Request /\ Plan[request[p]][c] # Null
           /\ decision[p] = [path \in Path |-> Undecided] /\ written[p] = {} /\ raced[p] = {}
<1>0. TypeOK /\ LocalOK(p)
  BY DEF IInv, LocalsOK
<1>1. PICK c \in todo[p], r \in 0 .. MaxRuns :
        /\ Least(todo[p], c) /\ broken[c] = {} /\ isLatest(c, r) /\ r < MaxRuns
        /\ current' = [current EXCEPT ![p] = c]
        /\ previous' = [previous EXCEPT ![p] = IF r = 0 THEN Null ELSE store[c][r]]
        /\ todo' = [todo EXCEPT ![p] = @ \ {c}]
  BY DEF ReadInventory
<1>2. /\ pc[p] = "next" /\ pc'[p] = "decide"
      /\ workspace' = workspace /\ request' = request /\ decision' = decision /\ written' = written
      /\ outcome' = outcome /\ raced' = raced /\ history' = history /\ bounds' = bounds
  BY <1>0 DEF ReadInventory, TypeOK
<1>3. Live(p) /\ ~ Working(p)
  BY <1>2 DEF Live, Working
<1>4. /\ request[p] \in Request /\ todo[p] \subseteq plannedComponents(request[p])
      /\ decision[p] = [path \in Path |-> Undecided] /\ written[p] = {} /\ raced[p] = {}
  BY <1>0, <1>3 DEF LocalOK
<1>5. c \in Component /\ Plan[request[p]][c] # Null
  BY <1>4 DEF plannedComponents
<1>6. /\ current'[p] = c /\ todo'[p] = todo[p] \ {c}
      /\ previous'[p] = IF r = 0 THEN Null ELSE store[c][r]
  BY <1>0, <1>1 DEF TypeOK
<1>7. previous'[p] # Null => r \in Revision /\ store[c][r] \in Record /\ previous'[p] = store[c][r]
  BY <1>0, <1>1, <1>5, <1>6 DEF isLatest, TypeOK
<1> QED
  BY <1>1, <1>2, <1>3, <1>4, <1>5, <1>6, <1>7

(* A process at work that does not read the inventory was at work on the   *)
(* same component, from the same record, and only its own decision or its  *)
(* own write changes what it has decided or written.                       *)
LEMMA StillWorking ==
  ASSUME IInv, [Next]_vars, NEW o \in Process, ~ ReadInventory(o), Working(o)'
  PROVE  /\ Working(o) /\ request'[o] = request[o] /\ current'[o] = current[o]
         /\ previous'[o] = previous[o]
         /\ Decide(o) \/ decision'[o] = decision[o]
         /\ Write(o) \/ written'[o] = written[o]
<1>0. TypeOK
  BY DEF IInv
<1>1. CASE UNCHANGED vars
  BY <1>1 DEF vars, locals, Working
<1>2. ASSUME NEW c \in Component, NEW path \in Path, NEW content \in Content \union {Null},
             OwnerEdit(c, path, content)
      PROVE  /\ Working(o) /\ request'[o] = request[o] /\ current'[o] = current[o]
             /\ previous'[o] = previous[o] /\ decision'[o] = decision[o] /\ written'[o] = written[o]
  BY <1>2 DEF OwnerEdit, Working
<1>3. ASSUME NEW p \in Process, p # o, Acts(p)
      PROVE  /\ Working(o) /\ request'[o] = request[o] /\ current'[o] = current[o]
             /\ previous'[o] = previous[o] /\ decision'[o] = decision[o] /\ written'[o] = written[o]
  BY <1>3, OwnVariables DEF Working
<1>4. CASE Decide(o)
  BY <1>4 DEF Decide, Working
<1>5. CASE Apply(o) \/ OpenFile(o) \/ Supersede(o) \/ OpenRecord(o)
  BY <1>5 DEF Apply, OpenFile, Supersede, OpenRecord, locals, Working
<1>6. CASE OpenPrevious(o)
  BY <1>6 DEF OpenPrevious, locals, Working
<1>7. CASE Write(o)
  BY <1>7 DEF Write, Working
<1>8. CASE ReadFails(o) \/ Conflict(o) \/ StoreRecord(o) \/ Finish(o) \/ Crash(o)
           \/ \E q \in Request : Begin(o, q)
  BY <1>0, <1>8 DEF ReadFails, Conflict, StoreRecord, Finish, Crash, Begin, TypeOK, Working
<1> QED
  BY <1>1, <1>2, <1>3, <1>4, <1>5, <1>6, <1>7, <1>8, WhoActs DEF Acts, Run

(* The records of the store change when a run supersedes the record it     *)
(* read and when it stores its own.                                        *)
Supersedes(p) ==
  /\ Supersede(p) /\ pc[p] = "superseding" /\ Working(p) /\ current[p] \in Component
  /\ previous[p] \in Record /\ previous[p] # Null /\ previous[p].revision \in Revision
  /\ store' = [store EXCEPT ![current[p]][previous[p].revision] = superseded(previous[p])]

Stores(p) ==
  /\ StoreRecord(p) /\ pc[p] = "storing" /\ Working(p) /\ current[p] \in Component
  /\ materializationRecord(p) \in Record /\ materializationRecord(p).revision \in Revision
  /\ store' = [store EXCEPT ![current[p]][materializationRecord(p).revision] =
                                 materializationRecord(p)]

LEMMA StoreWrites ==
  ASSUME IInv, [Next]_vars
  PROVE  store' = store \/ \E p \in Process : Supersedes(p) \/ Stores(p)
<1>0. TypeOK /\ LocalsOK
  BY DEF IInv
<1>1. ASSUME NEW p \in Process, Supersede(p), store' # store PROVE Supersedes(p)
  <2>1. pc[p] = "superseding" /\ Working(p)
    BY <1>1 DEF Supersede, Working
  <2>2. current[p] \in Component /\ previous[p] # Null /\ previous[p] \in Record
    BY <1>0, <2>1 DEF TypeOK, LocalsOK, LocalOK
  <2>3. previous[p].revision \in Revision
    BY <2>2 DEF Record
  <2>4. store' = [store EXCEPT ![current[p]][previous[p].revision] = superseded(previous[p])]
    BY <1>1 DEF Supersede, PutRecord
  <2> QED
    BY <1>1, <2>1, <2>2, <2>3, <2>4 DEF Supersedes
<1>2. ASSUME NEW p \in Process, StoreRecord(p), store' # store PROVE Stores(p)
  <2>1. pc[p] = "storing" /\ Working(p)
    BY <1>2 DEF StoreRecord, Working
  <2>2. current[p] \in Component /\ undecided(p) = {}
    BY <1>0, <2>1 DEF LocalsOK, LocalOK
  <2>3. materializationRecord(p) \in Record
    BY <2>1, <2>2, RecordType
  <2>4. materializationRecord(p).revision \in Revision
    BY <2>3 DEF Record
  <2>5. store' = [store EXCEPT ![current[p]][materializationRecord(p).revision] =
                                   materializationRecord(p)]
    BY <1>2 DEF StoreRecord, PutRecord
  <2> QED
    BY <1>2, <2>1, <2>2, <2>3, <2>4, <2>5 DEF Stores
<1>3. ASSUME NEW p \in Process, Acts(p), ~ Supersede(p), ~ StoreRecord(p) PROVE store' = store
  BY <1>3 DEF Acts, Run, Begin, ReadInventory, ReadFails, Decide, Conflict, Apply, OpenFile, Write,
     OpenPrevious, OpenRecord, Finish, Crash, workspace
<1>4. ASSUME NEW c \in Component, NEW path \in Path, NEW content \in Content \union {Null},
             OwnerEdit(c, path, content)
      PROVE  store' = store
  BY <1>4 DEF OwnerEdit
<1>5. CASE UNCHANGED vars
  BY <1>5 DEF vars, workspace
<1> QED
  BY <1>1, <1>2, <1>3, <1>4, <1>5, WhoActs

(* The place of a stored record, seen entry by entry.                      *)
LEMMA StoreEntries ==
  ASSUME IInv, NEW c \in Component, NEW r \in Revision, NEW record,
         store' = [store EXCEPT ![c][r] = record]
  PROVE  \A d \in Component, s \in Revision :
           store'[d][s] = IF d = c /\ s = r THEN record ELSE store[d][s]
BY DEF IInv, TypeOK

(* Isolated runs exclude one another.                                      *)
THEOREM RunsExclude ==
  ASSUME Isolated
  PROVE  Spec => []Exclusive
<1>1. Init => Exclusive
  BY DEF Init, Exclusive, Live
<1>2. IInv /\ Exclusive /\ [Next]_vars => Exclusive'
  <2> SUFFICES ASSUME IInv, Exclusive, [Next]_vars PROVE Exclusive'
    OBVIOUS
  <2>1. CASE UNCHANGED vars
    BY <2>1 DEF vars, Exclusive, Live
  <2>2. ASSUME NEW p \in Process, Acts(p) PROVE Exclusive'
    <3>1. \A o \in Process : o # p => pc'[o] = pc[o]
      BY <2>2, OwnVariables
    <3>2. \A o \in Process : o # p => ~ Live(o)
      BY <2>2, ActorsAreLive, Isolated DEF Exclusive, Quiet
    <3> QED
      BY <3>1, <3>2 DEF Exclusive, Live
  <2>3. ASSUME NEW c \in Component, NEW path \in Path, NEW content \in Content \union {Null},
               OwnerEdit(c, path, content)
        PROVE  Exclusive'
    BY <2>3 DEF OwnerEdit, Exclusive, Live
  <2> QED
    BY <2>1, <2>2, <2>3, WhoActs
<1> QED
  BY <1>1, <1>2, TypeCorrect, PTL DEF Spec

(* In isolation, all but the acting process are not live and stand still.  *)
LEMMA OthersStandStill ==
  ASSUME IInv, Exclusive, Isolated, NEW p \in Process, Acts(p), NEW o \in Process, o # p
  PROVE  /\ ~ Live(o) /\ ~ Live(o)' /\ ~ Working(o) /\ ~ Working(o)'
         /\ pc'[o] = pc[o] /\ request'[o] = request[o] /\ todo'[o] = todo[o]
         /\ current'[o] = current[o] /\ previous'[o] = previous[o]
         /\ decision'[o] = decision[o] /\ written'[o] = written[o]
         /\ outcome'[o] = outcome[o] /\ raced'[o] = raced[o]
<1>1. ~ Live(o)
  BY ActorsAreLive DEF Exclusive, Quiet
<1>2. /\ pc'[o] = pc[o] /\ request'[o] = request[o] /\ todo'[o] = todo[o]
      /\ current'[o] = current[o] /\ previous'[o] = previous[o]
      /\ decision'[o] = decision[o] /\ written'[o] = written[o]
      /\ outcome'[o] = outcome[o] /\ raced'[o] = raced[o]
  BY OwnVariables
<1> QED
  BY <1>1, <1>2 DEF Live, Working

(* The least element of a set of paths is one.                             *)
LEMMA LeastIsOne ==
  ASSUME NEW S \in SUBSET Path, NEW x \in Path, NEW y \in Path, Least(S, x), Least(S, y)
  PROVE  x = y
<1>1. x \in Nat /\ y \in Nat /\ x <= y /\ y <= x
  BY PathAssumption DEF Least
<1> QED
  BY <1>1

(* The decision of a process stays current while nothing it was taken on   *)
(* changes.                                                                *)
LEMMA DecisionFrame ==
  ASSUME NEW p \in Process, DecisionCurrent(p),
         pc'[p] = pc[p] \/ (pc[p] = "decide" /\ pc'[p] = "write"),
         request'[p] = request[p], current'[p] = current[p], previous'[p] = previous[p],
         decision'[p] = decision[p], written'[p] = written[p], disk' = disk
  PROVE  DecisionCurrent(p)'
BY DEF DecisionCurrent, planned, artifacts, lastWritten, isOpen, pending

(* In isolation no decision is stale when it is applied.                   *)
LEMMA DecisionsStayCurrent ==
  ASSUME Isolated
  PROVE  Spec => []DecisionsCurrent
<1>1. Init => DecisionsCurrent
  BY DEF Init, DecisionsCurrent, DecisionCurrent
<1>2. IInv /\ Exclusive /\ DecisionsCurrent /\ [Next]_vars => DecisionsCurrent'
  <2> SUFFICES ASSUME IInv, Exclusive, DecisionsCurrent, [Next]_vars,
                      NEW o \in Process
               PROVE  DecisionCurrent(o)'
    BY DEF DecisionsCurrent
  <2>0. TypeOK /\ LocalsOK /\ DecisionCurrent(o)
    BY DEF IInv, DecisionsCurrent
  <2>1. CASE UNCHANGED vars
    BY <2>0, <2>1, DecisionFrame DEF vars, workspace, locals
  <2>3. ASSUME NEW q \in Request, Begin(o, q) PROVE DecisionCurrent(o)'
    BY <2>0, <2>3 DEF Begin, TypeOK, DecisionCurrent
  <2>4. CASE ReadInventory(o)
    <3>1. pc[o] = "next" /\ decision' = decision
      BY <2>4 DEF ReadInventory
    <3>2. decision[o] = [path \in Path |-> Undecided]
      BY <2>0, <3>1 DEF LocalsOK, LocalOK, Working
    <3>3. \A path \in Path : decision'[o][path] = Undecided
      BY <3>1, <3>2
    <3> QED
      BY <3>3 DEF DecisionCurrent, planned
  <2>5. CASE Decide(o)
    <3>1. PICK path \in undecided(o) :
            decision' = [decision EXCEPT ![o][path] =
              decideWrite(artifacts(o)[path], disk[current[o]][path], lastWritten(o, path))]
      BY <2>5 DEF Decide
    <3>2. /\ pc[o] = "decide" /\ pc' = pc /\ disk' = disk /\ request' = request
          /\ current' = current /\ previous' = previous /\ written' = written
      BY <2>5 DEF Decide, workspace
    <3>3. /\ planned(o)' = planned(o) /\ artifacts(o)' = artifacts(o)
          /\ \A f \in Path : lastWritten(o, f)' = lastWritten(o, f)
      BY <3>2 DEF planned, artifacts, lastWritten
    <3>4. planned(o) \subseteq Path /\ undecided(o) \subseteq planned(o)
      BY DEF planned, undecided
    <3>5. \A f \in Path : decision'[o][f] =
            IF f = path THEN decideWrite(artifacts(o)[path], disk[current[o]][path], lastWritten(o, path))
            ELSE decision[o][f]
      BY <2>0, <3>1, <3>4 DEF TypeOK
    <3>6. \A f \in Path : ~ isOpen(o, current[o], f)
      BY <3>2 DEF isOpen
    <3> QED
      BY <2>0, <3>2, <3>3, <3>4, <3>5, <3>6 DEF DecisionCurrent
  <2>6. CASE Apply(o)
    <3>1. pc[o] = "decide" /\ pc'[o] = "write"
      BY <2>0, <2>6 DEF Apply, TypeOK
    <3> QED
      BY <2>0, <2>6, <3>1, DecisionFrame DEF Apply, workspace, locals
  <2>7. CASE OpenFile(o) \/ Write(o)
    <3>1. PICK path \in pending(o), content \in Content \union {Null, Torn} :
            /\ Least(pending(o), path)
            /\ disk' = [disk EXCEPT ![current[o]][path] = content]
            /\ OpenFile(o) => pc'[o] = "writing" /\ pending(o)' = pending(o) /\ written' = written
            /\ Write(o) => pc[o] = "writing" /\ written' = [written EXCEPT ![o] = @ \union {path}]
      <4>1. CASE OpenFile(o)
        <5>1. pc[o] = "write" /\ pc'[o] = "writing"
          BY <2>0, <4>1 DEF OpenFile, TypeOK
        <5>2. pending(o)' = pending(o) /\ written' = written
          BY <4>1 DEF OpenFile, locals, pending, planned, artifacts
        <5>3. ~ Write(o)
          BY <5>1 DEF Write
        <5> QED
          BY <4>1, <5>1, <5>2, <5>3 DEF OpenFile, Put
      <4>2. CASE Write(o)
        BY <2>0, <4>2, WriteEffect DEF Write, OpenFile
      <4> QED
        BY <2>7, <4>1, <4>2
    <3>2. /\ pc[o] \in {"write", "writing"} /\ request' = request
          /\ current' = current /\ previous' = previous /\ decision' = decision
      BY <2>7 DEF OpenFile, Write, locals
    <3>3. /\ planned(o)' = planned(o) /\ artifacts(o)' = artifacts(o)
          /\ \A f \in Path : lastWritten(o, f)' = lastWritten(o, f)
      BY <3>2 DEF planned, artifacts, lastWritten
    <3>4. planned(o) \subseteq Path /\ current[o] \in Component /\ path \in Path /\ pending(o) \subseteq Path
      BY <2>0, <3>2 DEF planned, pending, LocalsOK, LocalOK, Working
    <3>5. \A f \in Path : f # path => disk'[current[o]][f] = disk[current[o]][f]
      BY <2>0, <3>1, <3>4 DEF TypeOK
    <3>6. ASSUME NEW f \in Path, f \notin written'[o], ~ isOpen(o, current[o], f)'
          PROVE  f # path /\ f \notin written[o] /\ ~ isOpen(o, current[o], f)
      <4>1. CASE OpenFile(o)
        <5>1. pc[o] = "write"
          BY <4>1 DEF OpenFile
        <5>2. Least(pending(o), path)'
          BY <3>1, <4>1 DEF Least
        <5> QED
          BY <3>1, <3>2, <3>6, <4>1, <5>1, <5>2 DEF isOpen
      <4>2. CASE Write(o)
        <5>1. f # path /\ f \notin written[o]
          BY <2>0, <3>1, <3>6, <4>2 DEF TypeOK
        <5> QED
          BY <3>1, <3>4, <5>1, LeastIsOne DEF isOpen
      <4> QED
        BY <2>7, <4>1, <4>2
    <3>7. ASSUME NEW f \in planned(o), decision[o][f] # Undecided, f \notin written'[o],
                 ~ isOpen(o, current[o], f)'
          PROVE  decision[o][f] =
                   decideWrite(artifacts(o)[f], disk'[current[o]][f], lastWritten(o, f))
      <4>1. f # path /\ f \notin written[o] /\ ~ isOpen(o, current[o], f) /\ f \in Path
        BY <3>4, <3>6, <3>7
      <4> QED
        BY <2>0, <3>2, <3>5, <3>7, <4>1 DEF DecisionCurrent
    <3> QED
      BY <3>2, <3>3, <3>4, <3>7 DEF DecisionCurrent
  <2>8. CASE ReadFails(o) \/ Conflict(o) \/ OpenPrevious(o) \/ Supersede(o) \/ OpenRecord(o)
             \/ StoreRecord(o) \/ Finish(o) \/ Crash(o)
    <3>1. pc'[o] \notin {"decide", "write", "writing"}
      BY <2>0, <2>8 DEF TypeOK, ReadFails, Conflict, OpenPrevious, Supersede, OpenRecord, StoreRecord,
         Finish, Crash
    <3> QED
      BY <3>1 DEF DecisionCurrent
  <2>9. ASSUME NEW c \in Component, NEW path \in Path, NEW content \in Content \union {Null},
               OwnerEdit(c, path, content)
        PROVE  DecisionCurrent(o)'
    BY <2>9, Isolated DEF OwnerEdit, Quiet, Live, DecisionCurrent
  <2>10. ASSUME NEW p \in Process, p # o, Acts(p) PROVE DecisionCurrent(o)'
    BY <2>10, OthersStandStill, Isolated DEF Live, DecisionCurrent
  <2> QED
    BY <2>1, <2>3, <2>4, <2>5, <2>6, <2>7, <2>8, <2>9, <2>10, WhoActs DEF Acts, Run
<1> QED
  BY <1>1, <1>2, TypeCorrect, RunsExclude, PTL DEF Spec

-----------------------------------------------------------------------------
(***************************************************************************)
(* Nothing is overwritten silently.                                        *)
(***************************************************************************)

(* A record lists renderings of its own component and paths only.          *)
LEMMA NewRecordRendered ==
  ASSUME IInv, NEW p \in Process, Working(p)
  PROVE  Rendered(current[p], materializationRecord(p))
<1>1. \A path \in Path : materializationRecord(p).files[path] # Null =>
        path \in planned(p) /\ materializationRecord(p).files[path].digest = artifacts(p)[path].digest
  BY DEF materializationRecord
<1>2. \A path \in planned(p) : artifacts(p)[path].digest \in renderings(current[p], path)
  <2>1. request[p] \in Request /\ artifacts(p) = Plan[request[p]][current[p]]
    BY ArtifactsType DEF artifacts
  <2>2. Live(p)
    BY DEF Working, Live
  <2>3. artifacts(p) # Null
    BY <2>2 DEF IInv, LocalsOK, LocalOK
  <2> QED
    BY <2>1, <2>3 DEF renderings, planned
<1> QED
  BY <1>1, <1>2 DEF Rendered

(* The digests a stored record lists, and those of the record a run works  *)
(* from, are renderings of the component's plans.                          *)
THEOREM RecordsAreRendered == Spec => []RecordsRendered
<1>1. Init => RecordsRendered
  BY DEF Init, RecordsRendered, Working
<1>2. IInv /\ RecordsRendered /\ [Next]_vars => RecordsRendered'
  <2> SUFFICES ASSUME IInv, RecordsRendered, [Next]_vars PROVE RecordsRendered'
    OBVIOUS
  <2>1. ASSUME NEW c \in Component, NEW r \in Revision, store'[c][r] # Null
        PROVE  Rendered(c, store'[c][r])
    <3>1. CASE store' = store
      BY <2>1, <3>1 DEF RecordsRendered
    <3>2. ASSUME NEW p \in Process, Supersedes(p) PROVE Rendered(c, store'[c][r])
      <4>1. Rendered(current[p], superseded(previous[p]))
        BY <3>2, SupersededType DEF Supersedes, RecordsRendered, Rendered
      <4>2. store'[c][r] = store[c][r] \/ (c = current[p] /\ store'[c][r] = superseded(previous[p]))
        BY <3>2, StoreEntries DEF Supersedes
      <4> QED
        BY <2>1, <4>1, <4>2 DEF RecordsRendered
    <3>3. ASSUME NEW p \in Process, Stores(p) PROVE Rendered(c, store'[c][r])
      <4>1. Rendered(current[p], materializationRecord(p))
        BY <3>3, NewRecordRendered DEF Stores
      <4>2. store'[c][r] = store[c][r] \/ (c = current[p] /\ store'[c][r] = materializationRecord(p))
        BY <3>3, StoreEntries DEF Stores
      <4> QED
        BY <2>1, <4>1, <4>2 DEF RecordsRendered
    <3> QED
      BY <3>1, <3>2, <3>3, StoreWrites
  <2>2. ASSUME NEW o \in Process, Working(o)', previous'[o] # Null
        PROVE  Rendered(current'[o], previous'[o])
    <3>1. CASE ReadInventory(o)
      BY <2>2, <3>1, ReadsInventory, RecordAssumption DEF RecordsRendered
    <3>2. CASE ~ ReadInventory(o)
      BY <2>2, <3>2, StillWorking DEF RecordsRendered
    <3> QED
      BY <3>1, <3>2
  <2>3. \A c \in Component, r \in Revision : store'[c][r] # Null => Rendered(c, store'[c][r])
    BY <2>1
  <2>4. \A o \in Process : Working(o)' /\ previous'[o] # Null => Rendered(current'[o], previous'[o])
    BY <2>2
  <2> QED
    BY <2>3, <2>4 DEF RecordsRendered, Rendered
<1> QED
  BY <1>1, <1>2, TypeCorrect, PTL DEF Spec

(* A file about to be written is absent, or holds the content the record   *)
(* that was read lists for it, which is a rendering.                       *)
LEMMA PendingIsVouched ==
  ASSUME IInv, DecisionsCurrent, RecordsRendered,
         NEW p \in Process, pc[p] = "write", NEW path \in pending(p)
  PROVE  disk[current[p]][path] \notin OwnContent(current[p], path)
<1>1. Working(p) /\ path \in planned(p) /\ path \in Path
  BY DEF Working, pending, planned
<1>2. decision[p][path] \in WRITES /\ path \notin written[p]
  BY DEF pending
<1>3. decideWrite(artifacts(p)[path], disk[current[p]][path], lastWritten(p, path)) \in WRITES
  BY <1>1, <1>2 DEF DecisionsCurrent, DecisionCurrent, WRITES, Undecided, isOpen
<1>4. \/ disk[current[p]][path] = Null
      \/ lastWritten(p, path) # Null /\ disk[current[p]][path] = lastWritten(p, path)
  BY <1>3 DEF decideWrite, WRITES
<1>5. lastWritten(p, path) # Null => lastWritten(p, path) \in renderings(current[p], path)
  BY <1>1 DEF lastWritten, RecordsRendered, Rendered
<1> QED
  BY <1>4, <1>5, NullAssumption DEF OwnContent

-----------------------------------------------------------------------------
(***************************************************************************)
(* The records of a component form one chain.                              *)
(***************************************************************************)

(* In isolation the record a run read stays the latest until it stores its *)
(* own.                                                                    *)
THEOREM PreviousStaysLatest ==
  ASSUME Isolated
  PROVE  Spec => []PreviousIsLatest
<1>1. Init => PreviousIsLatest
  BY DEF Init, PreviousIsLatest, PreviousLatest, Working
<1>2. IInv /\ Exclusive /\ PreviousIsLatest /\ [Next]_vars => PreviousIsLatest'
  <2> SUFFICES ASSUME IInv, Exclusive, PreviousIsLatest, [Next]_vars, NEW o \in Process
               PROVE  PreviousLatest(o)'
    BY DEF PreviousIsLatest
  <2>0. TypeOK /\ LocalsOK /\ PreviousLatest(o) /\ LocalOK(o)
    BY DEF IInv, LocalsOK, PreviousIsLatest
  <2>1. CASE UNCHANGED vars
    BY <2>0, <2>1 DEF vars, workspace, locals, PreviousLatest, Working, baseRevision, openRecords
  <2>2. CASE ReadInventory(o)
    <3>1. PICK c \in Component, r \in 0 .. MaxRuns :
            /\ broken[c] = {} /\ isLatest(c, r) /\ pc'[o] = "decide" /\ current'[o] = c
            /\ previous'[o] = IF r = 0 THEN Null ELSE store[c][r]
            /\ previous'[o] # Null => r \in Revision /\ previous'[o] = store[c][r]
            /\ workspace' = workspace
      BY <2>2, ReadsInventory
    <3>2. store' = store /\ broken' = broken
      BY <3>1 DEF workspace
    <3>3. baseRevision(o)' = r
      BY <2>0, <3>1 DEF baseRevision, isLatest, LocalsOK, StoreIndexed
    <3>4. openRecords(o)' = {}
      BY <3>1 DEF openRecords
    <3> QED
      BY <3>1, <3>2, <3>3, <3>4 DEF PreviousLatest, isLatest
  <2>3. CASE Decide(o) \/ Apply(o) \/ OpenFile(o) \/ Write(o)
    <3>1. /\ store' = store /\ broken' = broken /\ current' = current /\ previous' = previous
          /\ Working(o)
      BY <2>3 DEF Decide, Apply, OpenFile, Write, workspace, locals, Working
    <3>2. pc[o] \in {"decide", "write", "writing"} /\ pc'[o] \in {"decide", "write", "writing"}
      BY <2>0, <2>3 DEF TypeOK, Decide, Apply, OpenFile, Write
    <3>3. openRecords(o) = {} /\ openRecords(o)' = {} /\ baseRevision(o)' = baseRevision(o)
      BY <3>1, <3>2 DEF openRecords, baseRevision
    <3> QED
      BY <2>0, <3>1, <3>2, <3>3 DEF PreviousLatest
  <2>4. CASE OpenPrevious(o) \/ Supersede(o) \/ OpenRecord(o)
    <3>1. /\ pc[o] \in {"write", "superseding", "store"} /\ Working(o)
          /\ current' = current /\ previous' = previous
      BY <2>0, <2>4 DEF TypeOK, OpenPrevious, Supersede, OpenRecord, locals, Working
    <3>2. current[o] \in Component /\ previous[o] \in Record \union {Null} /\ baseRevision(o) < MaxRuns
      BY <2>0, <3>1 DEF TypeOK, LocalOK
    <3>3. /\ broken[current[o]] = openRecords(o)
          /\ \A s \in Revision : s > baseRevision(o) => store[current[o]][s] = Null
          /\ previous[o] # Null => store[current[o]][baseRevision(o)] =
               IF pc[o] \in {"store", "storing"} THEN superseded(previous[o]) ELSE previous[o]
      BY <2>0, <3>1 DEF PreviousLatest
    <3>4. baseRevision(o)' = baseRevision(o)
      BY <3>1 DEF baseRevision
    <3>5. CASE OpenPrevious(o) /\ previous[o] = Null
      <4>1. /\ pc[o] = "write" /\ pc'[o] = "store" /\ broken' = broken /\ store' = store
        BY <2>0, <3>5 DEF TypeOK, OpenPrevious
      <4>2. openRecords(o) = {} /\ openRecords(o)' = {}
        BY <4>1 DEF openRecords
      <4> QED
        BY <3>1, <3>3, <3>4, <3>5, <4>1, <4>2 DEF PreviousLatest
    <3>6. CASE OpenPrevious(o) /\ previous[o] # Null
      <4>1. /\ pc[o] = "write" /\ pc'[o] = "superseding" /\ store' = store
            /\ broken' = [broken EXCEPT ![current[o]] = @ \union {previous[o].revision}]
        BY <2>0, <3>6 DEF TypeOK, OpenPrevious, OpenRecordFile
      <4>2. baseRevision(o) = previous[o].revision
        BY <3>6 DEF baseRevision
      <4>3. openRecords(o) = {} /\ openRecords(o)' = {baseRevision(o)}
        BY <3>4, <4>1 DEF openRecords
      <4>4. broken'[current[o]] = {baseRevision(o)}
        BY <2>0, <3>2, <3>3, <4>1, <4>2, <4>3 DEF TypeOK
      <4> QED
        BY <3>1, <3>3, <3>4, <3>6, <4>1, <4>3, <4>4 DEF PreviousLatest
    <3>7. CASE Supersede(o)
      <4>1. /\ pc[o] = "superseding" /\ pc'[o] = "store"
            /\ PutRecord(current[o], previous[o].revision, superseded(previous[o]))
        BY <2>0, <3>7 DEF TypeOK, Supersede
      <4>2. /\ previous[o] # Null /\ previous[o] \in Record
            /\ baseRevision(o) = previous[o].revision /\ previous[o].revision \in Revision
        BY <2>0, <3>2, <4>1 DEF LocalOK, baseRevision, Record
      <4>3. openRecords(o) = {baseRevision(o)} /\ openRecords(o)' = {}
        BY <4>1 DEF openRecords
      <4>4. /\ store' = [store EXCEPT ![current[o]][previous[o].revision] = superseded(previous[o])]
            /\ broken' = [broken EXCEPT ![current[o]] = @ \ {previous[o].revision}]
        BY <3>3, <4>1, <4>2, <4>3 DEF PutRecord
      <4>5. broken'[current[o]] = {}
        BY <2>0, <3>2, <3>3, <4>2, <4>3, <4>4 DEF TypeOK
      <4>6. \A s \in Revision : store'[current[o]][s] =
              IF s = baseRevision(o) THEN superseded(previous[o]) ELSE store[current[o]][s]
        BY <2>0, <3>2, <4>2, <4>4 DEF TypeOK
      <4>7. \A s \in Revision : s > baseRevision(o) => s # baseRevision(o)
        BY DEF Revision
      <4> QED
        BY <3>1, <3>3, <3>4, <4>1, <4>2, <4>3, <4>5, <4>6, <4>7 DEF PreviousLatest
    <3>8. CASE OpenRecord(o)
      <4>1. /\ pc[o] = "store" /\ pc'[o] = "storing" /\ store' = store
            /\ broken' = [broken EXCEPT ![current[o]] = @ \union {materializationRecord(o).revision}]
        BY <2>0, <3>8 DEF TypeOK, OpenRecord, OpenRecordFile
      <4>2. materializationRecord(o).revision = baseRevision(o) + 1
        BY DEF materializationRecord
      <4>3. openRecords(o) = {} /\ openRecords(o)' = {baseRevision(o) + 1}
        BY <3>4, <4>1 DEF openRecords
      <4>4. broken'[current[o]] = {baseRevision(o) + 1}
        BY <2>0, <3>2, <3>3, <4>1, <4>2, <4>3 DEF TypeOK
      <4> QED
        BY <3>1, <3>3, <3>4, <4>1, <4>3, <4>4 DEF PreviousLatest
    <3> QED
      BY <2>4, <3>5, <3>6, <3>7, <3>8
  <2>5. ASSUME NEW q \in Request, Begin(o, q) PROVE PreviousLatest(o)'
    BY <2>0, <2>5 DEF TypeOK, Begin, PreviousLatest, Working
  <2>6. CASE ReadFails(o) \/ Conflict(o) \/ StoreRecord(o) \/ Finish(o) \/ Crash(o)
    <3>1. ~ Working(o)'
      BY <2>0, <2>6 DEF TypeOK, Working, ReadFails, Conflict, StoreRecord, Finish, Crash
    <3> QED
      BY <3>1 DEF PreviousLatest
  <2>7. ASSUME NEW c \in Component, NEW path \in Path, NEW content \in Content \union {Null},
               OwnerEdit(c, path, content)
        PROVE  PreviousLatest(o)'
    BY <2>0, <2>7 DEF OwnerEdit, PreviousLatest, Working, baseRevision, openRecords
  <2>8. ASSUME NEW p \in Process, p # o, Acts(p) PROVE PreviousLatest(o)'
    BY <2>8, OthersStandStill, Isolated DEF PreviousLatest
  <2> QED
    BY <2>1, <2>2, <2>3, <2>4, <2>5, <2>6, <2>7, <2>8, WhoActs DEF Acts, Run
<1> QED
  BY <1>1, <1>2, TypeCorrect, RunsExclude, PTL DEF Spec

(* In isolation a run supersedes the record that is stored and adds its    *)
(* own where there is none.                                                *)
LEMMA StoreSteps ==
  ASSUME IInv, PreviousIsLatest, [Next]_vars
  PROVE  \/ store' = store
         \/ \E c \in Component, r \in Revision, record \in Record :
              /\ store[c][r] = record
              /\ store' = [store EXCEPT ![c][r] = superseded(record)]
         \/ \E p \in Process :
              /\ Stores(p)
              /\ store[current[p]][materializationRecord(p).revision] = Null
<1>1. ASSUME NEW p \in Process, Supersedes(p)
      PROVE  \E c \in Component, r \in Revision, record \in Record :
               store[c][r] = record /\ store' = [store EXCEPT ![c][r] = superseded(record)]
  <2>1. baseRevision(p) = previous[p].revision
    BY <1>1 DEF baseRevision, Supersedes
  <2>2. store[current[p]][previous[p].revision] = previous[p]
    BY <1>1, <2>1 DEF PreviousIsLatest, PreviousLatest, Supersedes
  <2> QED
    BY <1>1, <2>2 DEF Supersedes
<1>2. ASSUME NEW p \in Process, Stores(p)
      PROVE  store[current[p]][materializationRecord(p).revision] = Null
  <2>1. materializationRecord(p).revision = baseRevision(p) + 1
    BY DEF materializationRecord
  <2>2. baseRevision(p) \in Nat
    BY DEF IInv, baseRevision, TypeOK, Record, Revision
  <2>3. materializationRecord(p).revision > baseRevision(p)
    BY <2>1, <2>2
  <2>4. \A s \in Revision : s > baseRevision(p) => store[current[p]][s] = Null
    BY <1>2 DEF PreviousIsLatest, PreviousLatest, Stores
  <2> QED
    BY <1>2, <2>3, <2>4 DEF Stores
<1> QED
  BY <1>1, <1>2, StoreWrites

(* One run at a time: the identity of a stored record never changes, and a *)
(* superseded record stays superseded.                                     *)
THEOREM RecordsNeverChange ==
  ASSUME Isolated
  PROVE  Spec => RecordsImmutable
<1> DEFINE Same == \A c \in Component, r \in Revision :
       store[c][r] # Null =>
         /\ store'[c][r] # Null
         /\ pinnedRef(store'[c][r]) = pinnedRef(store[c][r])
         /\ store[c][r].status = "SUPERSEDED" => store'[c][r].status = "SUPERSEDED"
<1>1. IInv /\ PreviousIsLatest /\ [Next]_vars => [Same]_vars
  <2> SUFFICES ASSUME IInv, PreviousIsLatest, [Next]_vars PROVE Same
    OBVIOUS
  <2>0. store \in [Component -> [Revision -> Record \union {Null}]]
    BY DEF IInv, TypeOK
  <2>1. CASE store' = store
    BY <2>1
  <2>2. ASSUME NEW d \in Component, NEW s \in Revision, NEW record \in Record,
               store[d][s] = record, store' = [store EXCEPT ![d][s] = superseded(record)]
        PROVE  Same
    <3>1. \A c \in Component, r \in Revision : store'[c][r] =
            IF c = d /\ r = s THEN superseded(record) ELSE store[c][r]
      BY <2>0, <2>2
    <3>2. superseded(record) # Null
      BY SupersededType, RecordAssumption
    <3> QED
      BY <2>2, <3>1, <3>2, SupersededType
  <2>3. ASSUME NEW p \in Process, Stores(p),
               store[current[p]][materializationRecord(p).revision] = Null
        PROVE  Same
    <3>1. \A c \in Component, r \in Revision : store'[c][r] =
            IF c = current[p] /\ r = materializationRecord(p).revision
            THEN materializationRecord(p) ELSE store[c][r]
      BY <2>0, <2>3 DEF Stores
    <3> QED
      BY <2>3, <3>1
  <2> HIDE DEF Same
  <2> QED
    BY <2>1, <2>2, <2>3, StoreSteps
<1> QED
  BY <1>1, TypeCorrect, PreviousStaysLatest, PTL DEF Spec, RecordsImmutable

(* One run at a time: the stored revisions are 1 .. n, each supersedes the *)
(* one before it by its digest, and only the last can be VALID.            *)
THEOREM RecordsFormAChain ==
  ASSUME Isolated
  PROVE  Spec => []SupersessionChain
<1> DEFINE Link(records, r) ==
      records[r] # Null =>
        /\ records[r].revision = r
        /\ r = 1 => records[r].supersedes = Null
        /\ r > 1 => /\ records[r - 1] # Null
                    /\ records[r].supersedes = pinnedRef(records[r - 1])
                    /\ records[r - 1].status = "SUPERSEDED"
<1>0. SupersessionChain <=> \A c \in Component, r \in Revision : Link(store[c], r)
  BY DEF SupersessionChain
<1>1. Init => SupersessionChain
  BY DEF Init, SupersessionChain
<1>2. IInv /\ PreviousIsLatest /\ SupersessionChain /\ [Next]_vars => SupersessionChain'
  <2> SUFFICES ASSUME IInv, PreviousIsLatest, SupersessionChain, [Next]_vars,
                      NEW c \in Component, NEW r \in Revision
               PROVE  Link(store'[c], r)
    BY DEF SupersessionChain
  <2>0. store \in [Component -> [Revision -> Record \union {Null}]]
    BY DEF IInv, TypeOK
  <2>1. Link(store[c], r)
    BY <1>0
  <2>2. r \in Nat /\ r >= 1 /\ (r > 1 => r - 1 \in Revision)
    BY BoundsAssumption DEF Revision
  <2>3. CASE store' = store
    BY <2>1, <2>3
  <2>4. ASSUME NEW d \in Component, NEW s \in Revision, NEW record \in Record,
               store[d][s] = record, store' = [store EXCEPT ![d][s] = superseded(record)]
        PROVE  Link(store'[c], r)
    <3>1. \A e \in Component, t \in Revision : store'[e][t] =
            IF e = d /\ t = s THEN superseded(record) ELSE store[e][t]
      BY <2>0, <2>4
    <3>2. superseded(record) # Null /\ record # Null
      BY SupersededType, RecordAssumption
    <3>3. /\ superseded(record).revision = record.revision
          /\ superseded(record).supersedes = record.supersedes
          /\ superseded(record).status = "SUPERSEDED"
          /\ pinnedRef(superseded(record)) = pinnedRef(record)
      BY SupersededType
    <3>4. store'[c][r] = IF c = d /\ r = s THEN superseded(record) ELSE store[c][r]
      BY <3>1
    <3>5. r > 1 => store'[c][r - 1] = IF c = d /\ r - 1 = s THEN superseded(record) ELSE store[c][r - 1]
      BY <2>2, <3>1
    <3> QED
      BY <2>1, <2>4, <3>2, <3>3, <3>4, <3>5
  <2>5. ASSUME NEW p \in Process, Stores(p),
               store[current[p]][materializationRecord(p).revision] = Null
        PROVE  Link(store'[c], r)
    <3> DEFINE new == materializationRecord(p)
               top == baseRevision(p)
    <3>1. new.revision = top + 1 /\ new.supersedes = IF previous[p] = Null THEN Null ELSE pinnedRef(previous[p])
      BY DEF materializationRecord
    <3>2. previous[p] \in Record \union {Null}
      BY DEF IInv, TypeOK
    <3>3. top \in Nat /\ (previous[p] # Null => top \in Revision /\ top >= 1) /\ (previous[p] = Null => top = 0)
      BY <3>2, BoundsAssumption DEF baseRevision, Record, Revision
    <3>4. new \in Record /\ new # Null /\ top + 1 \in Revision
      BY <2>5, <3>1, RecordAssumption DEF Record, Stores
    <3>5. /\ \A t \in Revision : t > top => store[current[p]][t] = Null
          /\ previous[p] # Null => store[current[p]][top] = superseded(previous[p])
      BY <2>5 DEF PreviousIsLatest, PreviousLatest, Stores
    <3> HIDE DEF new, top
    <3>6. \A e \in Component, t \in Revision : store'[e][t] =
            IF e = current[p] /\ t = top + 1 THEN new ELSE store[e][t]
      BY <2>0, <2>5, <3>1, <3>4 DEF new, Stores
    <3>7. CASE c = current[p] /\ r = top + 1
      <4>1. store'[c][r] = new
        BY <3>6, <3>7
      <4>2. CASE previous[p] = Null
        BY <3>1, <3>3, <3>4, <3>7, <4>1, <4>2
      <4>3. CASE previous[p] # Null
        <5>1. r > 1 /\ r - 1 = top /\ top \in Revision /\ top # top + 1
          BY <3>3, <3>7, <4>3
        <5>2. store'[c][r - 1] = superseded(previous[p])
          BY <3>5, <3>6, <3>7, <4>3, <5>1
        <5>3. /\ superseded(previous[p]) \in Record
              /\ superseded(previous[p]).status = "SUPERSEDED"
              /\ pinnedRef(superseded(previous[p])) = pinnedRef(previous[p])
          BY <3>2, <4>3, SupersededType
        <5> QED
          BY <3>1, <3>4, <3>7, <4>1, <4>3, <5>1, <5>2, <5>3, RecordAssumption
      <4> QED
        BY <4>2, <4>3
    <3>8. CASE ~ (c = current[p] /\ r = top + 1)
      <4>1. store'[c][r] = store[c][r]
        BY <3>6, <3>8
      <4>2. CASE c = current[p] /\ r - 1 = top + 1
        <5>1. store[c][r] = Null
          BY <2>2, <3>3, <3>5, <4>2
        <5> QED
          BY <4>1, <5>1
      <4>3. CASE ~ (c = current[p] /\ r - 1 = top + 1)
        <5>1. r > 1 => store'[c][r - 1] = store[c][r - 1]
          BY <2>2, <3>6, <4>3
        <5> QED
          BY <2>1, <4>1, <5>1
      <4> QED
        BY <4>2, <4>3
    <3> QED
      BY <3>7, <3>8
  <2> HIDE DEF Link
  <2> QED
    BY <2>3, <2>4, <2>5, StoreSteps
<1> QED
  BY <1>1, <1>2, TypeCorrect, PreviousStaysLatest, PTL DEF Spec


(***************************************************************************)
(* Stored records are valid.                                               *)
(***************************************************************************)

(* A plan has safe paths only.                                             *)
LEMMA PlanIsSafe ==
  ASSUME NEW q \in Request, NEW c \in Component, Plan[q][c] # Null,
         NEW path \in Path, Plan[q][c][path] # Null
  PROVE  path \in SafePath
<1> DEFINE result == PlanResult[q]
           arts == rendered(result, c)
<1>1. /\ ~ protocolViolation(arts)
      /\ Plan[q][c] = planArtifacts(result.steps[c].class, arts)
  BY DEF Plan, planMaterialization
<1>2. \E i \in DOMAIN arts : arts[i].path = path
  <2> HIDE DEF result, arts
  <2> QED
    BY <1>1 DEF planArtifacts
<1> QED
  BY <1>1, <1>2 DEF protocolViolation

(* The record a process is about to store is sound.                        *)
LEMMA NewRecordSound ==
  ASSUME IInv, RecordsSound, NEW p \in Process, pc[p] = "storing"
  PROVE  Sound(current[p], materializationRecord(p))
<1> DEFINE files == materializationRecord(p).files
<1>1. Working(p) /\ Live(p) /\ SeedsRespected(p)
  BY DEF Working, Live, RecordsSound
<1>2. request[p] \in Request /\ current[p] \in Component /\ artifacts(p) # Null /\ conflicts(p) = {}
  BY <1>1 DEF IInv, LocalsOK, LocalOK
<1>3. \A path \in Path : files[path] # Null =>
        /\ path \in planned(p)
        /\ files[path].ownership = artifacts(p)[path].ownership
        /\ files[path].decision = decision[p][path]
  BY DEF materializationRecord
<1> HIDE DEF files
<1>4. \A path \in planned(p) : path \in SafePath /\ artifacts(p)[path].ownership \in ownerships(current[p], path)
  BY <1>2, PlanIsSafe DEF planned, artifacts, ownerships
<1>5. \A path \in planned(p) : decision[p][path] # "CONFLICT"
  BY <1>2 DEF conflicts
<1>6. \A path \in Path : files[path] # Null =>
        /\ path \in SafePath
        /\ files[path].decision # "CONFLICT"
        /\ files[path].decision \in {"UPDATE", "CONFLICT"} => files[path].ownership # "OWNER_SEEDED"
        /\ files[path].ownership \in ownerships(current[p], path)
  BY <1>1, <1>3, <1>4, <1>5 DEF SeedsRespected
<1>7. validateMaterializationRecord("APPLIED", files)
  BY <1>6 DEF validateMaterializationRecord
<1> QED
  BY <1>6, <1>7 DEF Sound, files

(* Superseding changes no file of a record.                                *)
LEMMA SupersededSound ==
  ASSUME NEW c, NEW record \in Record, Sound(c, record)
  PROVE  Sound(c, superseded(record))
<1>1. superseded(record).files = record.files
  BY SupersededType
<1> QED
  BY <1>1 DEF Sound

(* Records are sound, with or without isolation.                           *)
THEOREM RecordsAreSound == Spec => []RecordsSound
<1>1. Init => RecordsSound
  BY DEF Init, RecordsSound, SeedsRespected, Working
<1>2. IInv /\ RecordsSound /\ [Next]_vars => RecordsSound'
  <2> SUFFICES ASSUME IInv, RecordsSound, [Next]_vars PROVE RecordsSound'
    OBVIOUS
  <2>0. TypeOK
    BY DEF IInv
  <2>1. ASSUME NEW c \in Component, NEW r \in Revision, store'[c][r] # Null
        PROVE  Sound(c, store'[c][r])
    <3>1. CASE store' = store
      BY <2>1, <3>1 DEF RecordsSound
    <3>2. ASSUME NEW p \in Process, Supersedes(p) PROVE Sound(c, store'[c][r])
      <4>1. Sound(current[p], superseded(previous[p]))
        BY <3>2, SupersededSound DEF Supersedes, RecordsSound
      <4>2. store'[c][r] = store[c][r] \/ (c = current[p] /\ store'[c][r] = superseded(previous[p]))
        BY <3>2, StoreEntries DEF Supersedes
      <4> QED
        BY <2>1, <4>1, <4>2 DEF RecordsSound
    <3>3. ASSUME NEW p \in Process, Stores(p) PROVE Sound(c, store'[c][r])
      <4>1. Sound(current[p], materializationRecord(p))
        BY <3>3, NewRecordSound DEF Stores
      <4>2. store'[c][r] = store[c][r] \/ (c = current[p] /\ store'[c][r] = materializationRecord(p))
        BY <3>3, StoreEntries DEF Stores
      <4> QED
        BY <2>1, <4>1, <4>2 DEF RecordsSound
    <3> QED
      BY <3>1, <3>2, <3>3, StoreWrites
  <2>2. ASSUME NEW o \in Process, Working(o)'
        PROVE  /\ previous'[o] # Null => Sound(current'[o], previous'[o])
               /\ SeedsRespected(o)'
    <3>1. CASE ReadInventory(o)
      <4>1. previous'[o] # Null => Sound(current'[o], previous'[o])
        BY <3>1, ReadsInventory, RecordAssumption DEF RecordsSound
      <4>2. \A path \in Path : decision'[o][path] = Undecided
        BY <3>1, ReadsInventory
      <4>3. SeedsRespected(o)'
        BY <4>2 DEF SeedsRespected, planned, Undecided
      <4> QED
        BY <4>1, <4>3
    <3>2. CASE ~ ReadInventory(o)
      <4>1. /\ Working(o) /\ request'[o] = request[o] /\ current'[o] = current[o]
            /\ previous'[o] = previous[o] /\ (Decide(o) \/ decision'[o] = decision[o])
        BY <2>2, <3>2, StillWorking
      <4>2. SeedsRespected(o) /\ (previous[o] # Null => Sound(current[o], previous[o]))
        BY <4>1 DEF RecordsSound
      <4>3. planned(o)' = planned(o) /\ artifacts(o)' = artifacts(o)
        BY <4>1 DEF planned, artifacts
      <4>4. CASE Decide(o)
        <5>1. PICK path \in undecided(o) : decision' = [decision EXCEPT ![o][path] =
                decideWrite(artifacts(o)[path], disk[current[o]][path], lastWritten(o, path))]
          BY <4>4 DEF Decide
        <5>2. \A f \in planned(o) : decision'[o][f] = decision[o][f] \/
                /\ f = path
                /\ decision'[o][f] = decideWrite(artifacts(o)[path], disk[current[o]][path], lastWritten(o, path))
          BY <2>0, <5>1 DEF TypeOK, planned, undecided
        <5>3. artifacts(o)[path].ownership = "OWNER_SEEDED" =>
                decideWrite(artifacts(o)[path], disk[current[o]][path], lastWritten(o, path))
                  \notin {"UPDATE", "CONFLICT"}
          BY DEF decideWrite
        <5>4. SeedsRespected(o)'
          BY <4>1, <4>2, <4>3, <5>2, <5>3 DEF SeedsRespected
        <5> QED
          BY <4>1, <4>2, <5>4
      <4>5. CASE decision'[o] = decision[o]
        BY <4>1, <4>2, <4>3, <4>5 DEF SeedsRespected
      <4> QED
        BY <4>1, <4>4, <4>5
    <3> QED
      BY <3>1, <3>2
  <2>3. \A c \in Component, r \in Revision : store'[c][r] # Null => Sound(c, store'[c][r])
    BY <2>1
  <2>4. \A o \in Process : /\ Working(o)' /\ previous'[o] # Null => Sound(current'[o], previous'[o])
                           /\ SeedsRespected(o)'
    BY <2>2 DEF SeedsRespected
  <2> QED
    BY <2>3, <2>4 DEF RecordsSound, Sound
<1> QED
  BY <1>1, <1>2, TypeCorrect, PTL DEF Spec

(* Every stored record satisfies the rules of its kind, whatever the       *)
(* plans, and however invocations overlap and die.                         *)
THEOREM RecordsAreValid == Spec => []StoredRecordsValid
<1>1. RecordsSound => StoredRecordsValid
  BY DEF RecordsSound, Sound, StoredRecordsValid
<1> QED
  BY <1>1, RecordsAreSound, PTL

(***************************************************************************)
(* What a run writes stays in place until its record is stored.            *)
(***************************************************************************)

(* What a run does when it opens a file.                                   *)
LEMMA OpenEffect ==
  ASSUME IInv, NEW p \in Process, OpenFile(p)
  PROVE  \E path \in pending(p) :
           /\ Working(p) /\ Live(p) /\ current[p] \in Component /\ path \in Path /\ path \in planned(p)
           /\ decision[p][path] \in WRITES /\ path \notin written[p]
           /\ pc[p] = "write" /\ pc'[p] = "writing" /\ locals' = locals
           /\ Least(pending(p), path) /\ pending(p)' = pending(p) /\ pending(p) \subseteq Path
           /\ disk' = [disk EXCEPT ![current[p]][path] = Torn]
           /\ author' = [author EXCEPT ![current[p]][path] = "compiler"]
           /\ isOpen(p, current[p], path)'
<1>0. TypeOK /\ LocalOK(p)
  BY DEF IInv, LocalsOK
<1>1. PICK path \in pending(p) : Least(pending(p), path) /\ Put(p, path, Torn)
  BY DEF OpenFile
<1>2. pc[p] = "write" /\ pc'[p] = "writing" /\ locals' = locals
  BY <1>0 DEF OpenFile, TypeOK
<1>3. Working(p) /\ Live(p)
  BY <1>2 DEF Working, Live
<1>4. current[p] \in Component /\ planned(p) \subseteq Path /\ pending(p) \subseteq planned(p)
  BY <1>0, <1>3 DEF LocalOK, planned, pending
<1>5. pending(p)' = pending(p)
  BY <1>2 DEF pending, planned, artifacts, locals
<1>6. isOpen(p, current[p], path)'
  <2>1. pc'[p] = "writing" /\ Least(pending(p)', path)
    BY <1>1, <1>2, <1>5
  <2> QED
    BY <2>1 DEF isOpen
<1>7. decision[p][path] \in WRITES /\ path \notin written[p]
  BY DEF pending
<1> QED
  BY <1>1, <1>2, <1>3, <1>4, <1>5, <1>6, <1>7 DEF Put

(* A run that nobody disturbs finds its open file torn and writes it whole. *)
LEMMA WholeWrite ==
  ASSUME IInv, FilesInPlace, NEW p \in Process, Write(p)
  PROVE  \E path \in pending(p) :
           /\ Working(p) /\ current[p] \in Component /\ path \in Path /\ path \in planned(p)
           /\ decision[p][path] \in WRITES /\ Least(pending(p), path) /\ isOpen(p, current[p], path)
           /\ artifacts(p)[path].digest \in Content /\ disk[current[p]][path] = Torn
           /\ disk' = [disk EXCEPT ![current[p]][path] = artifacts(p)[path].digest]
           /\ author' = [author EXCEPT ![current[p]][path] = "compiler"]
           /\ written' = [written EXCEPT ![p] = @ \union {path}]
<1>1. PICK path \in pending(p), content \in Content \union {Null, Torn} :
        /\ Working(p) /\ current[p] \in Component /\ path \in Path /\ path \in planned(p)
        /\ Least(pending(p), path) /\ isOpen(p, current[p], path)
        /\ artifacts(p)[path].digest \in Content
        /\ content \in settled(disk[current[p]][path], artifacts(p)[path].digest)
        /\ disk' = [disk EXCEPT ![current[p]][path] = content]
        /\ IF content = artifacts(p)[path].digest
           THEN author' = [author EXCEPT ![current[p]][path] = "compiler"]
           ELSE author' = author
        /\ written' = [written EXCEPT ![p] = @ \union {path}]
  BY WriteEffect
<1>2. disk[current[p]][path] = Torn
  BY <1>1 DEF FilesInPlace, InPlace
<1>3. content = artifacts(p)[path].digest
  BY <1>1, <1>2 DEF settled
<1>4. decision[p][path] \in WRITES
  BY DEF pending
<1> QED
  BY <1>1, <1>2, <1>3, <1>4

(* At the end of the writes every planned file is in place.                *)
LEMMA WrittenIsInPlace ==
  ASSUME IInv, DecisionsCurrent, FilesInPlace,
         NEW p \in Process, pc[p] = "write", pending(p) = {}, NEW path \in planned(p)
  PROVE  ~ mismatch(disk[current[p]][path], artifacts(p)[path])
<1>1. Working(p)
  BY DEF Working
<1>2. artifacts(p)[path] \in PlannedArtifact /\ path \in Path
  BY <1>1, ArtifactsType
<1>3. artifacts(p)[path].digest # Null
  BY <1>2, NullAssumption DEF PlannedArtifact
<1>4. decision[p][path] # Undecided /\ decision[p][path] # "CONFLICT"
  BY <1>1 DEF IInv, LocalsOK, LocalOK, undecided, conflicts
<1>5. CASE path \in written[p]
  BY <1>3, <1>5 DEF FilesInPlace, InPlace, mismatch
<1>6. CASE path \notin written[p]
  <2>1. decision[p][path] \notin WRITES
    BY <1>6 DEF pending
  <2>2. ~ isOpen(p, current[p], path)
    BY DEF isOpen
  <2>3. decision[p][path] = decideWrite(artifacts(p)[path], disk[current[p]][path], lastWritten(p, path))
    BY <1>4, <1>6, <2>2 DEF DecisionsCurrent, DecisionCurrent
  <2> QED
    BY <1>3, <1>4, <2>1, <2>3 DEF decideWrite, mismatch, WRITES
<1> QED
  BY <1>5, <1>6

(* One run at a time: what a run has written is still there when it        *)
(* stores its record, and so is everything it decided to leave.            *)
THEOREM FilesStayInPlace ==
  ASSUME Isolated
  PROVE  Spec => []FilesInPlace
<1>1. Init => FilesInPlace
  BY DEF Init, FilesInPlace, InPlace, isOpen, Recording
<1>2. IInv /\ Exclusive /\ DecisionsCurrent /\ FilesInPlace /\ [Next]_vars => FilesInPlace'
  <2> SUFFICES ASSUME IInv, Exclusive, DecisionsCurrent, FilesInPlace, [Next]_vars, NEW o \in Process
               PROVE  InPlace(o)'
    BY DEF FilesInPlace
  <2>0. TypeOK /\ LocalOK(o) /\ InPlace(o)
    BY DEF IInv, LocalsOK, FilesInPlace
  <2>a. ASSUME written'[o] = {}, pc'[o] # "writing", ~ Recording(o)' PROVE InPlace(o)'
    BY <2>a DEF InPlace, isOpen
  <2>b. ASSUME ~ Working(o)', written'[o] = {} PROVE InPlace(o)'
    BY <2>a, <2>b DEF Working, Recording
  <2>1. CASE UNCHANGED vars
    BY <2>0, <2>1 DEF vars, workspace, locals, InPlace, planned, artifacts, isOpen, pending, Recording
  <2>2. ASSUME NEW q \in Request, Begin(o, q) PROVE InPlace(o)'
    <3>1. written'[o] = {} /\ pc'[o] = "next"
      BY <2>0, <2>2 DEF Begin, TypeOK, LocalOK, Live, Working
    <3> QED
      BY <2>b, <3>1 DEF Working
  <2>3. CASE ReadInventory(o) \/ ReadFails(o) \/ Decide(o) \/ Apply(o) \/ Finish(o)
    <3>1. written[o] = {} /\ written' = written /\ pc'[o] \in {"decide", "failed", "write", "done"}
      BY <2>0, <2>3 DEF ReadInventory, ReadFails, Decide, Apply, Finish, TypeOK, LocalOK, Working, locals
    <3> QED
      BY <2>a, <3>1 DEF Recording
  <2>4. CASE Conflict(o) \/ StoreRecord(o) \/ Crash(o)
    <3>1. written'[o] = {} /\ pc'[o] \in {"next", "failed"}
      BY <2>0, <2>4 DEF Conflict, StoreRecord, Crash, Leave, TypeOK
    <3> QED
      BY <2>b, <3>1 DEF Working
  <2>5. CASE OpenFile(o)
    <3>1. PICK path \in pending(o) :
            /\ current[o] \in Component /\ path \in Path /\ path \notin written[o]
            /\ pc'[o] = "writing" /\ locals' = locals
            /\ Least(pending(o), path) /\ pending(o)' = pending(o) /\ pending(o) \subseteq Path
            /\ disk' = [disk EXCEPT ![current[o]][path] = Torn]
      BY <2>5, OpenEffect
    <3>2. /\ request' = request /\ current' = current /\ decision' = decision /\ written' = written
      BY <3>1 DEF locals
    <3>3. \A f \in Path : disk'[current[o]][f] = IF f = path THEN Torn ELSE disk[current[o]][f]
      BY <2>0, <3>1 DEF TypeOK
    <3>4. ASSUME NEW f \in Path, isOpen(o, current[o], f)' PROVE disk'[current[o]][f] = Torn
      <4>1. Least(pending(o), f)
        BY <3>1, <3>4 DEF isOpen
      <4> QED
        BY <3>1, <3>3, <4>1, LeastIsOne
    <3>5. planned(o)' = planned(o) /\ artifacts(o)' = artifacts(o) /\ planned(o) \subseteq Path
      BY <3>2 DEF planned, artifacts
    <3>6. ~ Recording(o)'
      BY <3>1 DEF Recording
    <3>7. \A f \in written[o] : /\ f \in planned(o) /\ decision[o][f] \in WRITES
                                /\ disk'[current[o]][f] = artifacts(o)[f].digest
      BY <2>0, <3>1, <3>3, <3>5 DEF InPlace
    <3> QED
      BY <3>2, <3>4, <3>5, <3>6, <3>7 DEF InPlace
  <2>6. CASE Write(o)
    <3>1. PICK path \in pending(o) :
            /\ Working(o) /\ current[o] \in Component /\ path \in Path /\ path \in planned(o)
            /\ decision[o][path] \in WRITES
            /\ disk' = [disk EXCEPT ![current[o]][path] = artifacts(o)[path].digest]
            /\ written' = [written EXCEPT ![o] = @ \union {path}]
      BY <2>6, WholeWrite
    <3>2. /\ pc'[o] = "write" /\ request' = request /\ current' = current /\ decision' = decision
      BY <2>0, <2>6 DEF Write, TypeOK
    <3>3. /\ \A f \in Path : disk'[current[o]][f] =
               IF f = path THEN artifacts(o)[path].digest ELSE disk[current[o]][f]
          /\ written'[o] = written[o] \union {path} /\ written[o] \subseteq Path
      BY <2>0, <3>1 DEF TypeOK
    <3>4. planned(o)' = planned(o) /\ artifacts(o)' = artifacts(o)
      BY <3>2 DEF planned, artifacts
    <3>5. ~ Recording(o)' /\ \A f \in Path : ~ isOpen(o, current[o], f)'
      BY <3>2 DEF Recording, isOpen
    <3> QED
      BY <2>0, <3>1, <3>2, <3>3, <3>4, <3>5 DEF InPlace
  <2>7. CASE OpenPrevious(o) \/ Supersede(o) \/ OpenRecord(o)
    <3>1. /\ disk' = disk /\ request' = request /\ current' = current /\ written' = written
          /\ decision' = decision /\ pc'[o] # "writing"
      BY <2>0, <2>7 DEF OpenPrevious, Supersede, OpenRecord, locals, TypeOK
    <3>2. \A path \in planned(o) : ~ mismatch(disk[current[o]][path], artifacts(o)[path])
      <4>1. CASE OpenPrevious(o)
        BY <4>1, WrittenIsInPlace DEF OpenPrevious
      <4>2. CASE Supersede(o) \/ OpenRecord(o)
        BY <2>0, <4>2 DEF InPlace, Supersede, OpenRecord, Recording
      <4> QED
        BY <2>7, <4>1, <4>2
    <3>3. planned(o)' = planned(o) /\ artifacts(o)' = artifacts(o)
      BY <3>1 DEF planned, artifacts
    <3> QED
      BY <2>0, <3>1, <3>2, <3>3 DEF InPlace, isOpen
  <2>8. ASSUME NEW p \in Process, p # o, Acts(p) PROVE InPlace(o)'
    <3>1. ~ Live(o) /\ ~ Working(o) /\ ~ Working(o)' /\ written'[o] = written[o]
      BY <2>8, OthersStandStill, Isolated
    <3>2. written[o] = {}
      BY <2>0, <3>1 DEF LocalOK
    <3> QED
      BY <2>b, <3>1, <3>2
  <2>9. ASSUME NEW c \in Component, NEW path \in Path, NEW content \in Content \union {Null},
               OwnerEdit(c, path, content)
        PROVE  InPlace(o)'
    <3>1. ~ Working(o) /\ ~ Working(o)' /\ written' = written
      BY <2>9, Isolated DEF OwnerEdit, Quiet, Live, Working
    <3>2. written[o] = {}
      BY <2>0, <3>1 DEF LocalOK
    <3> QED
      BY <2>b, <3>1, <3>2
  <2> QED
    BY <2>1, <2>2, <2>3, <2>4, <2>5, <2>6, <2>7, <2>8, <2>9, WhoActs DEF Acts, Run
<1> QED
  BY <1>1, <1>2, TypeCorrect, RunsExclude, DecisionsStayCurrent, PTL DEF Spec

(* The steps that change a file.                                           *)
LEMMA DiskWrites ==
  ASSUME IInv, [Next]_vars
  PROVE  \/ disk' = disk
         \/ \E p \in Process : OpenFile(p) \/ Write(p)
         \/ \E c \in Component, path \in Path, content \in Content \union {Null} :
              OwnerEdit(c, path, content)
<1>1. ASSUME NEW p \in Process, Acts(p), ~ OpenFile(p), ~ Write(p) PROVE disk' = disk
  BY <1>1 DEF Acts, Run, Begin, ReadInventory, ReadFails, Decide, Conflict, Apply, OpenPrevious,
     Supersede, OpenRecord, StoreRecord, Finish, Crash, workspace
<1>2. CASE UNCHANGED vars
  BY <1>2 DEF vars, workspace
<1> QED
  BY <1>1, <1>2, WhoActs

(* One run at a time: the compiler never replaces a content of the owner,  *)
(* whatever the plans, the edits between runs and the crashes.             *)
THEOREM OwnerContentSurvives ==
  ASSUME Isolated
  PROVE  Spec => NoSilentOverwrite
<1> DEFINE Keeps == \A c \in Component, path \in Path :
                      /\ disk'[c][path] # disk[c][path]
                      /\ author'[c][path] = "compiler"
                      => disk[c][path] \notin OwnContent(c, path)
<1>1. IInv /\ DecisionsCurrent /\ RecordsRendered /\ FilesInPlace /\ [Next]_vars => [Keeps]_vars
  <2> SUFFICES ASSUME IInv, DecisionsCurrent, RecordsRendered, FilesInPlace, [Next]_vars,
                      NEW c \in Component, NEW path \in Path,
                      disk'[c][path] # disk[c][path], author'[c][path] = "compiler"
               PROVE  disk[c][path] \notin OwnContent(c, path)
    OBVIOUS
  <2>0. TypeOK
    BY DEF IInv
  <2>1. ASSUME NEW p \in Process, OpenFile(p)
        PROVE  disk[c][path] \notin OwnContent(c, path)
    <3>1. PICK f \in pending(p) :
            pc[p] = "write" /\ disk' = [disk EXCEPT ![current[p]][f] = Torn]
      BY <2>1, OpenEffect
    <3>2. c = current[p] /\ path = f
      BY <2>0, <3>1 DEF TypeOK
    <3> QED
      BY <3>1, <3>2, PendingIsVouched
  <2>2. ASSUME NEW p \in Process, Write(p)
        PROVE  disk[c][path] \notin OwnContent(c, path)
    <3>1. PICK f \in pending(p) :
            /\ disk[current[p]][f] = Torn
            /\ disk' = [disk EXCEPT ![current[p]][f] = artifacts(p)[f].digest]
      BY <2>2, WholeWrite
    <3>2. c = current[p] /\ path = f
      BY <2>0, <3>1 DEF TypeOK
    <3> QED
      BY <3>1, <3>2, RecordAssumption DEF OwnContent
  <2>3. ASSUME NEW d \in Component, NEW f \in Path, NEW content \in Content \union {Null},
               OwnerEdit(d, f, content)
        PROVE  FALSE
    BY <2>0, <2>3 DEF OwnerEdit, TypeOK
  <2> QED
    BY <2>1, <2>2, <2>3, DiskWrites
<1> QED
  BY <1>1, TypeCorrect, DecisionsStayCurrent, RecordsAreRendered, FilesStayInPlace, PTL
  DEF Spec, NoSilentOverwrite

(***************************************************************************)
(* Conflicts.                                                              *)
(***************************************************************************)

(* What a new record lists is what was planned.                            *)
LEMMA NewRecordLists ==
  ASSUME IInv, NEW p \in Process, Working(p), undecided(p) = {}, NEW path \in planned(p)
  PROVE  /\ materializationRecord(p).files[path] # Null
         /\ materializationRecord(p).files[path].digest = artifacts(p)[path].digest
         /\ materializationRecord(p).files[path].ownership = artifacts(p)[path].ownership
<1>1. path \in Path /\ artifacts(p)[path] \in PlannedArtifact
  BY ArtifactsType
<1>2. decision[p][path] \in WriteDecision
  BY <1>1 DEF IInv, TypeOK, undecided
<1>3. materializationRecord(p).files[path] =
        [ownership |-> artifacts(p)[path].ownership, digest |-> artifacts(p)[path].digest,
         decision |-> decision[p][path]]
  BY <1>1 DEF materializationRecord
<1>4. materializationRecord(p).files[path] \in RecordedFile
  BY <1>1, <1>2, <1>3 DEF RecordedFile, PlannedArtifact
<1> QED
  BY <1>3, <1>4, RecordAssumption

(* The record that is stored is the latest one, and every record file of   *)
(* the component is whole then.                                            *)
LEMMA NewRecordIsLatest ==
  ASSUME IInv, PreviousIsLatest, NEW p \in Process, StoreRecord(p),
         NEW c \in Component, c = current[p]
  PROVE  /\ broken'[c] = {}
         /\ \E r \in Revision :
              /\ isLatest(c, r)'
              /\ store'[c][r] = materializationRecord(p)
              /\ materializationRecord(p) \in Record
<1> DEFINE new == materializationRecord(p)
<1>0. TypeOK
  BY DEF IInv
<1>1. pc[p] = "storing" /\ Working(p) /\ undecided(p) = {}
  BY DEF StoreRecord, Working, IInv, LocalsOK, LocalOK
<1>2. new \in Record
  BY <1>1, RecordType
<1>3. new.revision \in Revision /\ new.revision = baseRevision(p) + 1
  BY <1>2 DEF Record, materializationRecord
<1>4. /\ \A s \in Revision : s > baseRevision(p) => store[c][s] = Null
      /\ broken[c] = {baseRevision(p) + 1}
  BY <1>1 DEF PreviousIsLatest, PreviousLatest, openRecords
<1>5. baseRevision(p) \in Nat
  BY DEF IInv, TypeOK, baseRevision, Record, Revision
<1> HIDE DEF new
<1>6. /\ store' = [store EXCEPT ![c][new.revision] = new]
      /\ broken' = [broken EXCEPT ![c] = @ \ {new.revision}]
  BY <1>3, <1>4 DEF StoreRecord, PutRecord, new
<1>7. \A s \in Revision : store'[c][s] = IF s = new.revision THEN new ELSE store[c][s]
  BY <1>0, <1>3, <1>6 DEF TypeOK
<1>8. broken'[c] = {}
  BY <1>0, <1>3, <1>4, <1>6 DEF TypeOK
<1>9. \A s \in Revision : s > new.revision => store'[c][s] = Null
  BY <1>3, <1>4, <1>5, <1>7, BoundsAssumption DEF Revision
<1>10. store'[c][new.revision] = new /\ new # Null
  BY <1>2, <1>3, <1>7, RecordAssumption
<1> QED
  BY <1>2, <1>3, <1>8, <1>9, <1>10 DEF isLatest, new

(* What accounts for a file stays when nothing about it changes.           *)
LEMMA KnownFrame ==
  ASSUME NEW c, NEW path, Known(c, path),
         disk'[c][path] = disk[c][path], author'[c][path] = author[c][path],
         store'[c] = store[c], interrupted[c] \subseteq interrupted'[c],
         BeingWritten(c, path) => BeingWritten(c, path)' \/ LeftBehind(c, path)'
  PROVE  Known(c, path)'
BY DEF Known, ListedNow, LeftBehind, isLatest

(* The files of a component whose plans agree are in place when its run    *)
(* comes to the records.                                                   *)
LEMMA RecordingIsInPlace ==
  ASSUME SteadyOwnership, SteadyPaths, IInv, FilesInPlace, NEW p \in Process, Recording(p),
         NEW path \in Path, "COMPILER_OWNED" \in ownerships(current[p], path)
  PROVE  /\ path \in planned(p) /\ disk[current[p]][path] = artifacts(p)[path].digest
         /\ current[p] \in Component /\ request[p] \in Request /\ artifacts(p) # Null
<1> DEFINE c == current[p]
<1>0. Working(p) /\ Live(p) /\ LocalOK(p)
  BY DEF Recording, Working, Live, IInv, LocalsOK
<1>1. c \in Component /\ request[p] \in Request /\ artifacts(p) # Null /\ artifacts(p) = Plan[request[p]][c]
  BY <1>0 DEF LocalOK, artifacts
<1>2. path \in planned(p)
  BY <1>1, SteadyPaths DEF SteadyPaths, ownerships, planned
<1>3. artifacts(p)[path].ownership = "COMPILER_OWNED"
  <2>1. artifacts(p)[path].ownership \in ownerships(c, path)
    BY <1>1, <1>2 DEF ownerships, planned
  <2> QED
    BY <1>1, <2>1, SteadyOwnership DEF SteadyOwnership
<1>4. disk[c][path] = artifacts(p)[path].digest
  BY <1>2, <1>3 DEF FilesInPlace, InPlace, mismatch
<1> QED
  BY <1>1, <1>2, <1>4

(* What a dying run has written, or found in place, is left behind.        *)
LEMMA DeadRunsAreRemembered ==
  ASSUME SteadyOwnership, SteadyPaths, IInv, FilesInPlace, NEW p \in Process, Crash(p),
         NEW c \in Component, NEW path \in Path, Known(c, path), "COMPILER_OWNED" \in ownerships(c, path)
  PROVE  Known(c, path)'
<1>0. TypeOK /\ LocalOK(p) /\ Live(p)
  BY DEF IInv, LocalsOK, Crash
<1>1. interrupted[c] \subseteq interrupted'[c]
  BY <1>0 DEF Crash, TypeOK
<1>2. disk' = disk /\ store' = store /\ author' = author
  BY DEF Crash, workspace
<1>3. ASSUME NEW o \in Process, o # p, current[o] = c, path \in written[o] \/ Recording(o)
      PROVE  BeingWritten(c, path)'
  <2>1. current'[o] = current[o] /\ written'[o] = written[o] /\ pc'[o] = pc[o]
    BY <1>3, OwnVariables DEF Acts
  <2> QED
    BY <1>3, <2>1 DEF BeingWritten, Recording
<1>4. ASSUME current[p] = c, path \in written[p] \/ Recording(p)
      PROVE  LeftBehind(c, path)'
  <2>1. Working(p)
    BY <1>0, <1>4 DEF LocalOK, Recording, Working
  <2>2. artifacts(p) # Null /\ request[p] \in Request /\ artifacts(p) = Plan[request[p]][c]
    BY <1>0, <1>4, <2>1 DEF LocalOK, artifacts
  <2>3. path \in planned(p) /\ disk[c][path] = artifacts(p)[path].digest
    <3>1. CASE path \in written[p]
      BY <1>4, <3>1 DEF FilesInPlace, InPlace
    <3>2. CASE Recording(p)
      BY <1>4, <3>2, RecordingIsInPlace, SteadyOwnership, SteadyPaths
    <3> QED
      BY <1>4, <3>1, <3>2
  <2>4. request[p] \in interrupted'[c]
    BY <1>0, <1>4, ComponentAssumption DEF Crash, TypeOK
  <2> QED
    BY <1>2, <2>2, <2>3, <2>4 DEF LeftBehind, planned
<1>5. BeingWritten(c, path) => BeingWritten(c, path)' \/ LeftBehind(c, path)'
  BY <1>3, <1>4 DEF BeingWritten
<1> QED
  BY <1>1, <1>2, <1>5, KnownFrame

(* One run at a time, plans that agree on the files and their owners: the  *)
(* content of a compiler-owned file that is not the owner's is known.      *)
THEOREM FilesAreAccountedFor ==
  ASSUME Isolated, SteadyOwnership, SteadyPaths
  PROVE  Spec => []FilesAccounted
<1>1. Init => FilesAccounted
  BY DEF Init, FilesAccounted, Known
<1>2. IInv /\ PreviousIsLatest /\ FilesInPlace /\ FilesAccounted /\ [Next]_vars => FilesAccounted'
  <2> SUFFICES ASSUME IInv, PreviousIsLatest, FilesInPlace, FilesAccounted, [Next]_vars,
                      NEW c \in Component, NEW path \in Path,
                      "COMPILER_OWNED" \in ownerships(c, path)
               PROVE  Known(c, path)'
    BY DEF FilesAccounted
  <2>0. TypeOK /\ LocalsOK /\ Known(c, path)
    BY DEF IInv, FilesAccounted
  <2>1. ASSUME NEW p \in Process,
               (\E q \in Request : Begin(p, q)) \/ ReadInventory(p) \/ ReadFails(p) \/ Decide(p)
               \/ Conflict(p) \/ Apply(p) \/ Finish(p)
        PROVE  Known(c, path)'
    <3>1. disk' = disk /\ store' = store /\ author' = author /\ interrupted' = interrupted
      BY <2>1 DEF Begin, ReadInventory, ReadFails, Decide, Conflict, Apply, Finish, workspace, history
    <3>2. written[p] = {} /\ ~ Recording(p)
      BY <2>0, <2>1 DEF Begin, ReadInventory, ReadFails, Decide, Conflict, Apply, Finish,
         LocalsOK, LocalOK, Live, Working, Recording
    <3>3. \A o \in Process : o # p =>
            pc'[o] = pc[o] /\ written'[o] = written[o] /\ current'[o] = current[o]
      BY <2>1, OwnVariables DEF Acts, Run
    <3>4. BeingWritten(c, path) => BeingWritten(c, path)'
      BY <3>2, <3>3 DEF BeingWritten, Recording
    <3> QED
      BY <2>0, <3>1, <3>4, KnownFrame
  <2>2. ASSUME NEW p \in Process, OpenFile(p) PROVE Known(c, path)'
    <3>1. PICK f \in pending(p) :
            /\ current[p] \in Component /\ f \in Path /\ pc[p] = "write" /\ locals' = locals
            /\ disk' = [disk EXCEPT ![current[p]][f] = Torn]
            /\ author' = [author EXCEPT ![current[p]][f] = "compiler"]
      BY <2>2, OpenEffect
    <3>2. /\ store' = store /\ interrupted' = interrupted /\ current' = current /\ written' = written
          /\ pc' = [pc EXCEPT ![p] = "writing"]
      BY <2>2, <3>1 DEF OpenFile, locals
    <3>3. CASE c = current[p] /\ path = f
      <4>1. disk'[c][path] = Torn
        BY <2>0, <3>1, <3>3 DEF TypeOK
      <4> QED
        BY <4>1 DEF Known
    <3>4. CASE ~ (c = current[p] /\ path = f)
      <4>1. disk'[c][path] = disk[c][path] /\ author'[c][path] = author[c][path]
        BY <2>0, <3>1, <3>4 DEF TypeOK
      <4>2. \A o \in Process : Recording(o) => Recording(o)'
        BY <2>0, <3>1, <3>2 DEF Recording, TypeOK
      <4>3. BeingWritten(c, path) => BeingWritten(c, path)'
        BY <3>2, <4>2 DEF BeingWritten
      <4> QED
        BY <2>0, <3>2, <4>1, <4>3, KnownFrame
    <3> QED
      BY <3>3, <3>4
  <2>3. ASSUME NEW p \in Process, Write(p) PROVE Known(c, path)'
    <3>1. PICK f \in pending(p) :
            /\ current[p] \in Component /\ f \in Path
            /\ disk' = [disk EXCEPT ![current[p]][f] = artifacts(p)[f].digest]
            /\ author' = [author EXCEPT ![current[p]][f] = "compiler"]
            /\ written' = [written EXCEPT ![p] = @ \union {f}]
      BY <2>3, WholeWrite
    <3>2. /\ store' = store /\ interrupted' = interrupted /\ current' = current
          /\ pc[p] = "writing" /\ pc' = [pc EXCEPT ![p] = "write"]
      BY <2>3 DEF Write
    <3>3. \A o \in Process : written[o] \subseteq written'[o] /\ (Recording(o) => Recording(o)')
      BY <2>0, <3>1, <3>2 DEF TypeOK, Recording
    <3>4. CASE c = current[p] /\ path = f
      BY <2>0, <3>1, <3>2, <3>4 DEF Known, BeingWritten, TypeOK
    <3>5. CASE ~ (c = current[p] /\ path = f)
      <4>1. disk'[c][path] = disk[c][path] /\ author'[c][path] = author[c][path]
        BY <2>0, <3>1, <3>5 DEF TypeOK
      <4>2. BeingWritten(c, path) => BeingWritten(c, path)'
        BY <3>2, <3>3 DEF BeingWritten
      <4> QED
        BY <2>0, <3>2, <4>1, <4>2, KnownFrame
    <3> QED
      BY <3>4, <3>5
  <2>4. ASSUME NEW p \in Process, OpenPrevious(p) \/ Supersede(p) \/ OpenRecord(p)
        PROVE  Known(c, path)'
    <3>1. /\ disk' = disk /\ author' = author /\ interrupted' = interrupted
          /\ written' = written /\ current' = current /\ Working(p)
      BY <2>4 DEF OpenPrevious, Supersede, OpenRecord, locals, history, Working
    <3>2. Recording(p)'
      BY <2>0, <2>4 DEF OpenPrevious, Supersede, OpenRecord, Recording, TypeOK
    <3>3. CASE c = current[p]
      BY <3>1, <3>2, <3>3 DEF Known, BeingWritten
    <3>4. CASE c # current[p]
      <4>1. store'[c] = store[c]
        BY <2>0, <2>4, <3>4 DEF OpenPrevious, Supersede, PutRecord, OpenRecord, TypeOK
      <4>2. \A o \in Process : o # p => pc'[o] = pc[o]
        BY <2>4, OwnVariables DEF Acts, Run
      <4>3. BeingWritten(c, path) => BeingWritten(c, path)'
        BY <3>1, <3>4, <4>2 DEF BeingWritten, Recording
      <4> QED
        BY <2>0, <3>1, <4>1, <4>3, KnownFrame
    <3> QED
      BY <3>3, <3>4
  <2>5. ASSUME NEW p \in Process, StoreRecord(p) PROVE Known(c, path)'
    <3>1. /\ pc[p] = "storing" /\ Working(p) /\ Live(p) /\ disk' = disk /\ author' = author
          /\ current[p] \in Component /\ undecided(p) = {}
      BY <2>0, <2>5 DEF StoreRecord, Working, Live, LocalsOK, LocalOK
    <3>2. CASE c # current[p]
      <4>1. store'[c] = store[c] /\ interrupted'[c] = interrupted[c]
        BY <2>0, <2>5, <3>2 DEF StoreRecord, PutRecord, TypeOK
      <4>2. \A o \in Process : o # p =>
              pc'[o] = pc[o] /\ written'[o] = written[o] /\ current'[o] = current[o]
        BY <2>5, OwnVariables DEF Acts, Run
      <4>3. BeingWritten(c, path) => BeingWritten(c, path)'
        BY <3>2, <4>2 DEF BeingWritten, Recording
      <4> QED
        BY <2>0, <3>1, <4>1, <4>3, KnownFrame
    <3>3. CASE c = current[p]
      <4>1. Recording(p)
        BY <3>1 DEF Recording
      <4>2. path \in planned(p) /\ disk[c][path] = artifacts(p)[path].digest
        BY <3>3, <4>1, RecordingIsInPlace, SteadyOwnership, SteadyPaths
      <4>3. PICK r \in Revision :
              /\ isLatest(c, r)'
              /\ store'[c][r] = materializationRecord(p)
              /\ materializationRecord(p) \in Record
        BY <2>5, <3>3, NewRecordIsLatest
      <4>4. ListedNow(c, path)'
        BY <3>1, <4>2, <4>3, NewRecordLists DEF ListedNow
      <4> QED
        BY <4>4 DEF Known
    <3> QED
      BY <3>2, <3>3
  <2>6. ASSUME NEW p \in Process, Crash(p) PROVE Known(c, path)'
    BY <2>0, <2>6, DeadRunsAreRemembered, SteadyOwnership, SteadyPaths
  <2>7. ASSUME NEW d \in Component, NEW f \in Path, NEW content \in Content \union {Null},
               OwnerEdit(d, f, content)
        PROVE  Known(c, path)'
    <3>1. /\ store' = store /\ interrupted' = interrupted /\ written' = written /\ current' = current
          /\ pc' = pc
          /\ disk' = [disk EXCEPT ![d][f] = content] /\ author' = [author EXCEPT ![d][f] = "owner"]
      BY <2>7 DEF OwnerEdit
    <3>2. CASE c = d /\ path = f
      BY <2>0, <3>1, <3>2 DEF Known, TypeOK
    <3>3. CASE ~ (c = d /\ path = f)
      <4>1. disk'[c][path] = disk[c][path] /\ author'[c][path] = author[c][path]
        BY <2>0, <3>1, <3>3 DEF TypeOK
      <4>2. BeingWritten(c, path) => BeingWritten(c, path)'
        BY <3>1 DEF BeingWritten, Recording
      <4> QED
        BY <2>0, <3>1, <4>1, <4>2, KnownFrame
    <3> QED
      BY <3>2, <3>3
  <2>8. CASE UNCHANGED vars
    <3>1. BeingWritten(c, path) => BeingWritten(c, path)'
      BY <2>8 DEF vars, locals, BeingWritten, Recording
    <3> QED
      BY <2>0, <2>8, <3>1, KnownFrame DEF vars, workspace, locals, history
  <2> QED
    BY <2>1, <2>2, <2>3, <2>4, <2>5, <2>6, <2>7, <2>8 DEF Next, Run
<1> QED
  BY <1>1, <1>2, TypeCorrect, PreviousStaysLatest, FilesStayInPlace, PTL DEF Spec

(* One run at a time, plans that agree on the files and their owners: a    *)
(* conflict is never the compiler's own doing, but for runs that died.     *)
THEOREM ConflictsAreForeign ==
  ASSUME Isolated, SteadyOwnership, SteadyPaths
  PROVE  Spec => []ConflictIsForeign
<1>1. IInv /\ Exclusive /\ DecisionsCurrent /\ PreviousIsLatest /\ FilesAccounted => ConflictIsForeign
  <2> SUFFICES ASSUME IInv, Exclusive, DecisionsCurrent, PreviousIsLatest, FilesAccounted,
                      NEW p \in Process, pc[p] = "decide", NEW path \in conflicts(p),
                      author[current[p]][path] # "owner", disk[current[p]][path] # Torn,
                      interrupted[current[p]] \subseteq {request[p]}
               PROVE  FALSE
    BY DEF ConflictIsForeign
  <2> DEFINE c == current[p]
             artifact == artifacts(p)[path]
  <2>1. Working(p) /\ Live(p)
    BY DEF Working, Live
  <2>2. /\ c \in Component /\ path \in planned(p) /\ path \in Path
        /\ artifacts(p) # Null /\ request[p] \in Request /\ written[p] = {}
    BY <2>1 DEF IInv, LocalsOK, LocalOK, conflicts, planned
  <2>3. decideWrite(artifact, disk[c][path], lastWritten(p, path)) = "CONFLICT"
    BY <2>2 DEF conflicts, DecisionsCurrent, DecisionCurrent, Undecided, isOpen
  <2>4. /\ disk[c][path] # Null
        /\ artifact.ownership # "OWNER_SEEDED"
        /\ disk[c][path] # artifact.digest
        /\ lastWritten(p, path) # Null => disk[c][path] # lastWritten(p, path)
    BY <2>3 DEF decideWrite
  <2>5. artifact \in PlannedArtifact /\ artifact # Null
    BY <2>1, <2>2, ArtifactsType, NullAssumption
  <2>6. "COMPILER_OWNED" \in ownerships(c, path)
    BY <2>2, <2>4, <2>5 DEF ownerships, artifacts, PlannedArtifact, ArtifactOwnership
  <2>7. Known(c, path)
    BY <2>2, <2>6 DEF FilesAccounted
  <2>8. ~ BeingWritten(c, path)
    <3> SUFFICES ASSUME NEW o \in Process, path \in written[o] \/ Recording(o) PROVE FALSE
      BY DEF BeingWritten
    <3>1. Live(o)
      BY DEF IInv, LocalsOK, LocalOK, Working, Recording, Live
    <3>2. o = p
      BY <2>1, <3>1 DEF Exclusive
    <3> QED
      BY <2>2, <3>2 DEF Recording
  <2>9. ~ LeftBehind(c, path)
    BY <2>4 DEF LeftBehind, artifacts
  <2>11. ~ ListedNow(c, path)
    <3> SUFFICES ASSUME NEW r \in Revision, isLatest(c, r), store[c][r].files[path] # Null,
                        store[c][r].files[path].digest = disk[c][path]
                 PROVE  FALSE
      BY DEF ListedNow
    <3>1. store[c][r] # Null /\ \A s \in Revision : s > r => store[c][s] = Null
      BY DEF isLatest, Revision
    <3>2. previous[p] \in Record \union {Null}
      BY DEF IInv, TypeOK
    <3>3. /\ \A s \in Revision : s > baseRevision(p) => store[c][s] = Null
          /\ previous[p] # Null => store[c][baseRevision(p)] = previous[p]
      BY <2>1 DEF PreviousIsLatest, PreviousLatest
    <3>4. previous[p] # Null => baseRevision(p) \in Revision
      BY <3>2 DEF baseRevision, Record
    <3>5. previous[p] = Null => baseRevision(p) = 0
      BY DEF baseRevision
    <3>6. previous[p] # Null /\ baseRevision(p) = r
      BY <3>1, <3>2, <3>3, <3>4, <3>5, BoundsAssumption DEF Revision
    <3>7. lastWritten(p, path) = disk[c][path]
      BY <3>3, <3>6 DEF lastWritten
    <3> QED
      BY <2>4, <3>7
  <2> QED
    BY <2>4, <2>7, <2>8, <2>9, <2>11 DEF Known
<1> QED
  BY <1>1, TypeCorrect, RunsExclude, DecisionsStayCurrent, PreviousStaysLatest,
     FilesAreAccountedFor, PTL

(***************************************************************************)
(* What is reported is so.                                                 *)
(***************************************************************************)

(* A component keeps what was delivered while its directory stands still.  *)
LEMMA DeliveredFrame ==
  ASSUME NEW p \in Process, NEW c \in Component, Delivered(p, c),
         disk'[c] = disk[c], store'[c] = store[c], broken'[c] = broken[c],
         request'[p] = request[p]
  PROVE  Delivered(p, c)'
BY DEF Delivered, isLatest, structural

(* Storing a record delivers its component.                                *)
LEMMA StoringDelivers ==
  ASSUME IInv, PreviousIsLatest, FilesInPlace, NEW p \in Process, StoreRecord(p),
         NEW c \in Component, c = current[p]
  PROVE  Delivered(p, c)'
<1> DEFINE new == materializationRecord(p)
<1>1. Recording(p) /\ Working(p) /\ undecided(p) = {}
  BY DEF StoreRecord, Recording, Working, IInv, LocalsOK, LocalOK
<1>2. disk' = disk /\ request' = request
  BY DEF StoreRecord
<1>3. PICK r \in Revision : isLatest(c, r)' /\ store'[c][r] = new /\ new \in Record
  BY NewRecordIsLatest
<1>4. broken'[c] = {} /\ new.request = request[p] /\ new.status = "VALID"
  BY NewRecordIsLatest DEF materializationRecord
<1>5. \A path \in Path : new.files[path] # Null => ~ mismatch(disk[c][path], new.files[path])
  <2> SUFFICES ASSUME NEW path \in Path, new.files[path] # Null
               PROVE  ~ mismatch(disk[c][path], new.files[path])
    OBVIOUS
  <2>1. path \in planned(p)
    BY DEF materializationRecord
  <2>2. ~ mismatch(disk[c][path], artifacts(p)[path])
    BY <1>1, <2>1 DEF FilesInPlace, InPlace
  <2>3. /\ new.files[path].digest = artifacts(p)[path].digest
        /\ new.files[path].ownership = artifacts(p)[path].ownership
    BY <1>1, <2>1, NewRecordLists
  <2> QED
    BY <2>2, <2>3 DEF mismatch
<1> HIDE DEF new
<1>6. structural(disk[c], new.files) = {}
  BY <1>5 DEF structural
<1> QED
  BY <1>2, <1>3, <1>4, <1>6 DEF Delivered, structural, mismatch

(* One run at a time: what a run has reported of its components is still   *)
(* so, and it reports of every one it is done with.                        *)
THEOREM OutcomesStayTrue ==
  ASSUME Isolated
  PROVE  Spec => []OutcomesKept
<1>1. Init => OutcomesKept
  BY DEF Init, OutcomesKept, OutcomeKept, Live
<1>2. IInv /\ Exclusive /\ PreviousIsLatest /\ FilesInPlace /\ OutcomesKept /\ [Next]_vars => OutcomesKept'
  <2> SUFFICES ASSUME IInv, Exclusive, PreviousIsLatest, FilesInPlace, OutcomesKept, [Next]_vars,
                      NEW o \in Process
               PROVE  OutcomeKept(o)'
    BY DEF OutcomesKept
  <2>0. TypeOK /\ LocalOK(o) /\ OutcomeKept(o)
    BY DEF IInv, LocalsOK, OutcomesKept
  <2>1. CASE UNCHANGED vars
    <3>1. \A c \in Component : Delivered(o, c) => Delivered(o, c)'
      BY <2>1, DeliveredFrame DEF vars, workspace, locals
    <3> QED
      BY <2>0, <2>1, <3>1 DEF vars, locals, OutcomeKept, Live, Working
  <2>2. ASSUME NEW q \in Request, Begin(o, q) PROVE OutcomeKept(o)'
    BY <2>0, <2>2 DEF Begin, TypeOK, OutcomeKept, Live, Working
  <2>3. CASE ReadFails(o) \/ Finish(o) \/ Crash(o)
    <3>1. ~ Live(o)'
      BY <2>0, <2>3 DEF ReadFails, Finish, Crash, TypeOK, Live
    <3> QED
      BY <3>1 DEF OutcomeKept
  <2>4. CASE ReadInventory(o)
    <3>1. PICK d \in todo[o] : current' = [current EXCEPT ![o] = d] /\ todo' = [todo EXCEPT ![o] = @ \ {d}]
      BY <2>4 DEF ReadInventory
    <3>2. /\ pc[o] = "next" /\ pc'[o] = "decide" /\ workspace' = workspace
          /\ request' = request /\ outcome' = outcome
      BY <2>0, <2>4 DEF ReadInventory, workspace, TypeOK
    <3>3. current'[o] = d /\ todo'[o] = todo[o] \ {d} /\ d \in Component
      BY <2>0, <3>1 DEF TypeOK
    <3>4. \A c \in Component : Delivered(o, c) => Delivered(o, c)'
      BY <3>2, DeliveredFrame DEF workspace
    <3> QED
      BY <2>0, <3>2, <3>3, <3>4 DEF OutcomeKept, Live, Working
  <2>5. CASE Decide(o) \/ Apply(o)
    <3>1. /\ pc[o] = "decide" /\ pc'[o] \in {"decide", "write"} /\ workspace' = workspace
          /\ request' = request /\ outcome' = outcome /\ current' = current /\ todo' = todo
      BY <2>0, <2>5 DEF Decide, Apply, workspace, locals, TypeOK
    <3>2. \A c \in Component : Delivered(o, c) => Delivered(o, c)'
      BY <3>1, DeliveredFrame DEF workspace
    <3> QED
      BY <2>0, <3>1, <3>2 DEF OutcomeKept, Live, Working
  <2>6. CASE Conflict(o)
    <3>1. /\ pc[o] = "decide" /\ pc'[o] = "next" /\ workspace' = workspace
          /\ request' = request /\ todo' = todo
          /\ outcome' = [outcome EXCEPT ![o][current[o]] = "CONFLICT"]
      BY <2>0, <2>6 DEF Conflict, workspace, TypeOK
    <3>2. \A c \in Component : outcome'[o][c] = IF c = current[o] THEN "CONFLICT" ELSE outcome[o][c]
      BY <2>0, <3>1 DEF TypeOK
    <3>3. \A c \in Component : Delivered(o, c) => Delivered(o, c)'
      BY <3>1, DeliveredFrame DEF workspace
    <3> QED
      BY <2>0, <3>1, <3>2, <3>3 DEF OutcomeKept, Live, Working
  <2>7. CASE OpenFile(o) \/ Write(o) \/ OpenPrevious(o) \/ Supersede(o) \/ OpenRecord(o)
    <3>1. /\ Working(o) /\ Live(o) /\ Working(o)' /\ Live(o)'
          /\ request' = request /\ outcome' = outcome /\ current' = current /\ todo' = todo
      BY <2>0, <2>7 DEF OpenFile, Write, OpenPrevious, Supersede, OpenRecord, locals, TypeOK, Live, Working
    <3>2. \A c \in Component : c # current[o] => disk'[c] = disk[c]
      <4>1. CASE OpenFile(o)
        BY <2>0, <4>1, OpenEffect DEF TypeOK
      <4>2. CASE Write(o)
        BY <2>0, <4>2, WholeWrite DEF TypeOK
      <4>3. CASE OpenPrevious(o) \/ Supersede(o) \/ OpenRecord(o)
        BY <4>3 DEF OpenPrevious, Supersede, OpenRecord
      <4> QED
        BY <2>7, <4>1, <4>2, <4>3
    <3>3. \A c \in Component : c # current[o] => store'[c] = store[c] /\ broken'[c] = broken[c]
      BY <2>0, <2>7 DEF OpenFile, Write, OpenPrevious, Supersede, OpenRecord, OpenRecordFile, PutRecord, TypeOK
    <3>4. \A c \in Component : c # current[o] /\ Delivered(o, c) => Delivered(o, c)'
      BY <3>1, <3>2, <3>3, DeliveredFrame
    <3> QED
      BY <2>0, <3>1, <3>4 DEF OutcomeKept
  <2>8. CASE StoreRecord(o)
    <3>1. /\ pc[o] = "storing" /\ pc'[o] = "next" /\ disk' = disk
          /\ request' = request /\ todo' = todo
          /\ outcome' = [outcome EXCEPT ![o][current[o]] = "APPLIED"]
      BY <2>0, <2>8 DEF StoreRecord, TypeOK
    <3>2. \A c \in Component : outcome'[o][c] = IF c = current[o] THEN "APPLIED" ELSE outcome[o][c]
      BY <2>0, <3>1 DEF TypeOK
    <3>3. \A c \in Component : c # current[o] => store'[c] = store[c] /\ broken'[c] = broken[c]
      BY <2>0, <2>8 DEF StoreRecord, OpenRecordFile, PutRecord, TypeOK
    <3>4. \A c \in Component : c # current[o] /\ Delivered(o, c) => Delivered(o, c)'
      BY <3>1, <3>3, DeliveredFrame
    <3>5. \A c \in Component : c = current[o] => Delivered(o, c)'
      BY <2>8, StoringDelivers
    <3> QED
      BY <2>0, <3>1, <3>2, <3>4, <3>5 DEF OutcomeKept, Live, Working
  <2>9. ASSUME NEW p \in Process, p # o, Acts(p) PROVE OutcomeKept(o)'
    BY <2>9, OthersStandStill, Isolated DEF OutcomeKept
  <2>10. ASSUME NEW c \in Component, NEW path \in Path, NEW content \in Content \union {Null},
                OwnerEdit(c, path, content)
         PROVE  OutcomeKept(o)'
    BY <2>10, Isolated DEF OwnerEdit, Quiet, Live, OutcomeKept
  <2> QED
    BY <2>1, <2>2, <2>3, <2>4, <2>5, <2>6, <2>7, <2>8, <2>9, <2>10, WhoActs DEF Acts, Run
<1> QED
  BY <1>1, <1>2, TypeCorrect, RunsExclude, PreviousStaysLatest, FilesStayInPlace, PTL DEF Spec

(* An invocation that can report MATERIALIZED plans every component that   *)
(* is to be materialized, and none is in conflict.                         *)
LEMMA MaterializedIsComplete ==
  ASSUME NEW p \in Process, request[p] \in Request, status(p) = "MATERIALIZED",
         NEW c \in Component, materializes(PlanResult[request[p]], c)
  PROVE  c \in plannedComponents(request[p]) /\ outcome[p][c] # "CONFLICT"
<1> DEFINE q == request[p]
           result == PlanResult[q]
<1>1. /\ result.status # "INVALID"
      /\ outcome[p][c] # "CONFLICT"
      /\ diagnostics(p) = {}
  BY DEF status
<1>2. ~ result.expired /\ planDiagnostics(result) = {}
  BY <1>1 DEF diagnostics
<1>3. isLoaded(result, c)
  BY <1>2 DEF planDiagnostics
<1>4. ~ rejects(result, c)
  BY <1>2, <1>3 DEF planDiagnostics
<1>5. ~ protocolViolation(rendered(result, c))
  BY <1>2, <1>3, <1>4 DEF planDiagnostics
<1>6. Plan[q][c] = planArtifacts(result.steps[c].class, rendered(result, c))
  BY <1>3, <1>4, <1>5 DEF Plan, planMaterialization
<1>7. rendered(result, c) \in Seq(Artifact)
  <2>1. result \in PlanResults
    BY PlanResultAssumption
  <2>2. result.steps[c] \in Step
    BY <2>1 DEF PlanResults, materializes
  <2>3. result.host[result.steps[c].adapter] \in Loaded
    BY <1>3, <2>1, <2>2 DEF PlanResults, Step, isLoaded
  <2> QED
    BY <2>3 DEF Loaded, rendered
<1>8. Plan[q][c] \in ArtifactPlan
  BY <1>5, <1>6, <1>7, PlanArtifactsType
<1>9. Plan[q][c] # Null
  BY <1>8, NullAssumption
<1> QED
  BY <1>1, <1>2, <1>9 DEF plannedComponents, refused

(* One run at a time: when an invocation reports MATERIALIZED every        *)
(* component of its plan is what its latest record says.                   *)
THEOREM ReportedIsInPlace ==
  ASSUME Isolated
  PROVE  Spec => MaterializedIsInPlace
<1> DEFINE Delivers == \A p \in Process :
       pc[p] = "next" /\ pc'[p] = "done" /\ status(p) = "MATERIALIZED" =>
         \A c \in Component : materializes(PlanResult[request[p]], c) =>
           \E r \in Revision :
             /\ isLatest(c, r) /\ broken[c] = {}
             /\ store[c][r].request = request[p]
             /\ store[c][r].status = "VALID"
             /\ structural(disk[c], store[c][r].files) = {}
<1>1. IInv /\ Exclusive /\ OutcomesKept /\ [Next]_vars => [Delivers]_vars
  <2> SUFFICES ASSUME IInv, Exclusive, OutcomesKept, Next,
                      NEW p \in Process, pc[p] = "next", pc'[p] = "done", status(p) = "MATERIALIZED",
                      NEW c \in Component, materializes(PlanResult[request[p]], c)
               PROVE  Delivered(p, c)
    BY DEF Delivered
  <2>0. TypeOK /\ LocalOK(p) /\ OutcomeKept(p) /\ Live(p) /\ ~ Working(p)
    BY DEF IInv, LocalsOK, OutcomesKept, Live, Working
  <2>1. Finish(p)
    <3>1. \A o \in Process : o # p => ~ Acts(o)
      BY <2>0, OwnVariables
    <3>2. \A d \in Component, f \in Path, content \in Content \union {Null} : ~ OwnerEdit(d, f, content)
      BY DEF OwnerEdit
    <3>3. ~ UNCHANGED vars
      BY DEF vars
    <3>4. ~ (\/ (\E q \in Request : Begin(p, q)) \/ ReadInventory(p) \/ ReadFails(p) \/ Decide(p)
             \/ Conflict(p) \/ Apply(p) \/ OpenFile(p) \/ Write(p) \/ OpenPrevious(p) \/ Supersede(p)
             \/ OpenRecord(p) \/ StoreRecord(p) \/ Crash(p))
      BY <2>0 DEF TypeOK, Begin, ReadInventory, ReadFails, Decide, Conflict, Apply, OpenFile, Write,
         OpenPrevious, Supersede, OpenRecord, StoreRecord, Crash
    <3> QED
      BY <3>1, <3>2, <3>3, <3>4, WhoActs DEF Acts, Run
  <2>2. todo[p] = {} /\ request[p] \in Request
    BY <2>0, <2>1 DEF Finish, LocalOK
  <2>3. c \in plannedComponents(request[p]) /\ outcome[p][c] # "CONFLICT"
    BY <2>2, MaterializedIsComplete
  <2>4. outcome[p][c] = "APPLIED"
    BY <2>0, <2>2, <2>3 DEF OutcomeKept, TypeOK
  <2> QED
    BY <2>0, <2>4 DEF OutcomeKept
<1> QED
  BY <1>1, TypeCorrect, RunsExclude, OutcomesStayTrue, PTL DEF Spec, MaterializedIsInPlace

(***************************************************************************)
(* Overlapping runs of one request.                                        *)
(***************************************************************************)

(* When all requests are the same, a file has one rendering.               *)
LEMMA OneRendering ==
  ASSUME SameRequest, NEW c, NEW path, NEW first \in renderings(c, path),
         NEW second \in renderings(c, path)
  PROVE  first = second
BY DEF SameRequest, renderings, Plan

(* What a process is about to write is a rendering.                        *)
LEMMA PlannedIsRendering ==
  ASSUME IInv, NEW p \in Process, Working(p), NEW path \in planned(p)
  PROVE  artifacts(p)[path].digest \in renderings(current[p], path)
<1>1. Live(p)
  BY DEF Working, Live
<1>2. request[p] \in Request /\ artifacts(p) # Null /\ path \in Path /\ artifacts(p)[path] # Null
  BY <1>1 DEF IInv, LocalsOK, LocalOK, planned
<1> QED
  BY <1>2 DEF renderings, artifacts

(* A file is opened and decided on by its own run.                         *)
LEMMA BecomesWriting ==
  ASSUME IInv, [Next]_vars, NEW p \in Process, pc[p] # "writing", pc'[p] = "writing"
  PROVE  OpenFile(p)
<1>0. TypeOK
  BY DEF IInv
<1>1. ~ UNCHANGED vars
  BY DEF vars
<1>2. \A d \in Component, f \in Path, content \in Content \union {Null} : ~ OwnerEdit(d, f, content)
  BY DEF OwnerEdit
<1>3. \A o \in Process : o # p => ~ Acts(o)
  BY OwnVariables
<1>4. ~ (\/ (\E q \in Request : Begin(p, q)) \/ ReadInventory(p) \/ ReadFails(p) \/ Decide(p)
         \/ Conflict(p) \/ Apply(p) \/ Write(p) \/ OpenPrevious(p) \/ Supersede(p)
         \/ OpenRecord(p) \/ StoreRecord(p) \/ Finish(p) \/ Crash(p))
  BY <1>0 DEF TypeOK, Begin, ReadInventory, ReadFails, Decide, Conflict, Apply, Write, OpenPrevious,
     Supersede, OpenRecord, StoreRecord, Finish, Crash
<1> QED
  BY <1>1, <1>2, <1>3, <1>4, WhoActs DEF Acts, Run

LEMMA BecomesDecided ==
  ASSUME IInv, [Next]_vars, NEW p \in Process, NEW path \in Path,
         decision[p][path] = Undecided, decision'[p][path] # Undecided
  PROVE  Decide(p)
<1>0. TypeOK
  BY DEF IInv
<1>1. ~ UNCHANGED vars
  BY DEF vars, locals
<1>2. \A d \in Component, f \in Path, content \in Content \union {Null} : ~ OwnerEdit(d, f, content)
  BY DEF OwnerEdit
<1>3. \A o \in Process : o # p => ~ Acts(o)
  BY OwnVariables
<1>4. ~ (\/ (\E q \in Request : Begin(p, q)) \/ ReadInventory(p) \/ ReadFails(p)
         \/ Conflict(p) \/ Apply(p) \/ OpenFile(p) \/ Write(p) \/ OpenPrevious(p) \/ Supersede(p)
         \/ OpenRecord(p) \/ StoreRecord(p) \/ Finish(p) \/ Crash(p))
  BY <1>0 DEF TypeOK, Begin, ReadInventory, ReadFails, Conflict, Apply, OpenFile, Write, OpenPrevious,
     Supersede, OpenRecord, StoreRecord, Finish, Crash, Leave, locals
<1> QED
  BY <1>1, <1>2, <1>3, <1>4, WhoActs DEF Acts, Run

(* The steps that change a file or its author, seen file by file.          *)
Opens(p, c, path) ==
  /\ OpenFile(p) /\ current[p] = c /\ isOpen(p, c, path)'
  /\ disk'[c][path] = Torn

Writes(p, c, path) ==
  /\ Write(p) /\ Working(p) /\ current[p] = c /\ path \in planned(p)
  /\ isOpen(p, c, path) /\ ~ isOpen(p, c, path)'
  /\ disk'[c][path] \in settled(disk[c][path], artifacts(p)[path].digest)
  /\ artifacts(p)[path].digest \in Content
  /\ disk'[c][path] = artifacts(p)[path].digest \/ author'[c][path] = author[c][path]

Edits(c, path) ==
  /\ \E content \in Content \union {Null} : OwnerEdit(c, path, content)
  /\ author'[c][path] = "owner" /\ disk'[c][path] # Torn

LEMMA FileSteps ==
  ASSUME IInv, [Next]_vars, NEW c \in Component, NEW path \in Path
  PROVE  \/ disk'[c][path] = disk[c][path] /\ author'[c][path] = author[c][path]
         \/ \E p \in Process : Opens(p, c, path) \/ Writes(p, c, path)
         \/ Edits(c, path)
<1>0. TypeOK
  BY DEF IInv
<1> DEFINE Same == disk'[c][path] = disk[c][path] /\ author'[c][path] = author[c][path]
<1>1. ASSUME NEW p \in Process, OpenFile(p) PROVE Same \/ Opens(p, c, path)
  <2>1. PICK f \in pending(p) :
          /\ current[p] \in Component /\ f \in Path /\ locals' = locals
          /\ disk' = [disk EXCEPT ![current[p]][f] = Torn]
          /\ author' = [author EXCEPT ![current[p]][f] = "compiler"]
          /\ isOpen(p, current[p], f)'
    BY <1>1, OpenEffect
  <2>2. CASE c = current[p] /\ path = f
    <3>1. disk'[c][path] = Torn
      BY <1>0, <2>1, <2>2 DEF TypeOK
    <3>2. isOpen(p, c, path)'
      BY <2>1, <2>2 DEF isOpen, locals
    <3> QED
      BY <1>1, <2>2, <3>1, <3>2 DEF Opens
  <2>3. CASE ~ (c = current[p] /\ path = f)
    BY <1>0, <2>1, <2>3 DEF TypeOK
  <2> QED
    BY <2>2, <2>3
<1>2. ASSUME NEW p \in Process, Write(p) PROVE Same \/ Writes(p, c, path)
  <2>1. PICK f \in pending(p), content \in Content \union {Null, Torn} :
          /\ Working(p) /\ current[p] \in Component /\ f \in Path /\ f \in planned(p)
          /\ Least(pending(p), f) /\ isOpen(p, current[p], f)
          /\ artifacts(p)[f].digest \in Content
          /\ content \in settled(disk[current[p]][f], artifacts(p)[f].digest)
          /\ disk' = [disk EXCEPT ![current[p]][f] = content]
          /\ IF content = artifacts(p)[f].digest
             THEN author' = [author EXCEPT ![current[p]][f] = "compiler"]
             ELSE author' = author
          /\ written' = [written EXCEPT ![p] = @ \union {f}]
    BY <1>2, WriteEffect
  <2>2. CASE c = current[p] /\ path = f
    <3>1. disk'[c][path] = content
      BY <1>0, <2>1, <2>2 DEF TypeOK
    <3>2. content = artifacts(p)[f].digest \/ author'[c][path] = author[c][path]
      BY <2>1
    <3>3. pc'[p] = "write"
      BY <1>0, <1>2 DEF Write, TypeOK
    <3>4. ~ isOpen(p, c, path)'
      BY <3>3 DEF isOpen
    <3> QED
      BY <1>2, <2>1, <2>2, <3>1, <3>2, <3>4 DEF Writes
  <2>3. CASE ~ (c = current[p] /\ path = f)
    <3>1. disk'[c][path] = disk[c][path]
      BY <1>0, <2>1, <2>3 DEF TypeOK
    <3>2. \/ author' = author
          \/ author' = [author EXCEPT ![current[p]][f] = "compiler"]
      BY <2>1
    <3>3. author'[c][path] = author[c][path]
      BY <1>0, <2>1, <2>3, <3>2 DEF TypeOK
    <3> QED
      BY <3>1, <3>3
  <2> QED
    BY <2>2, <2>3
<1>3. ASSUME NEW d \in Component, NEW f \in Path, NEW content \in Content \union {Null},
             OwnerEdit(d, f, content)
      PROVE  Same \/ Edits(c, path)
  <2>1. content # Torn
    BY RecordAssumption
  <2>2. /\ disk' = [disk EXCEPT ![d][f] = content]
        /\ author' = [author EXCEPT ![d][f] = "owner"]
    BY <1>3 DEF OwnerEdit
  <2>3. CASE d = c /\ f = path
    <3>1. disk'[c][path] = content /\ author'[c][path] = "owner"
      BY <1>0, <2>2, <2>3 DEF TypeOK
    <3> QED
      BY <1>3, <2>1, <2>3, <3>1 DEF Edits
  <2>4. CASE ~ (d = c /\ f = path)
    BY <1>0, <2>2, <2>4 DEF TypeOK
  <2> QED
    BY <2>3, <2>4
<1>4. ASSUME NEW p \in Process, Acts(p), ~ OpenFile(p), ~ Write(p) PROVE Same
  BY <1>4 DEF Acts, Run, Begin, ReadInventory, ReadFails, Decide, Conflict, Apply, OpenPrevious,
     Supersede, OpenRecord, StoreRecord, Finish, Crash, Leave, workspace, history
<1>5. CASE UNCHANGED vars
  BY <1>5 DEF vars, workspace, history
<1> QED
  BY <1>1, <1>2, <1>3, <1>4, <1>5, WhoActs

(* No file is lost, unless the owner removes it.                           *)
LEMMA NothingVanishes ==
  ASSUME IInv, [Next]_vars, NEW c \in Component, NEW path \in Path, Kept(c, path)
  PROVE  Kept(c, path)'
<1>1. CASE disk'[c][path] = disk[c][path] /\ author'[c][path] = author[c][path]
  BY <1>1 DEF Kept
<1>2. ASSUME NEW p \in Process, Opens(p, c, path) PROVE Kept(c, path)'
  BY <1>2, RecordAssumption DEF Opens, Kept
<1>3. ASSUME NEW p \in Process, Writes(p, c, path) PROVE Kept(c, path)'
  BY <1>3, RecordAssumption, NullAssumption DEF Writes, Kept, settled
<1>4. CASE Edits(c, path)
  BY <1>4 DEF Edits, Kept
<1> QED
  BY <1>1, <1>2, <1>3, <1>4, FileSteps

(* A file stays open until its writer has written it, or has died.         *)
LEMMA StaysOpen ==
  ASSUME IInv, [Next]_vars, NEW p \in Process, NEW c \in Component, NEW path \in Path,
         isOpen(p, c, path), crashes' = 0
  PROVE  isOpen(p, c, path)' \/ Write(p)
<1>0. TypeOK /\ pc[p] = "writing"
  BY DEF IInv, isOpen
<1>1. ASSUME pc'[p] = pc[p], request'[p] = request[p], current'[p] = current[p],
             decision'[p] = decision[p], written'[p] = written[p]
      PROVE  isOpen(p, c, path)'
  <2>1. pending(p)' = pending(p)
    BY <1>1 DEF pending, planned, artifacts
  <2> QED
    BY <1>1, <2>1 DEF isOpen
<1>2. CASE UNCHANGED vars
  BY <1>1, <1>2 DEF vars, locals
<1>3. ASSUME NEW d \in Component, NEW f \in Path, NEW content \in Content \union {Null},
             OwnerEdit(d, f, content)
      PROVE  isOpen(p, c, path)'
  BY <1>1, <1>3 DEF OwnerEdit
<1>4. ASSUME NEW o \in Process, o # p, Acts(o) PROVE isOpen(p, c, path)'
  BY <1>1, <1>4, OwnVariables
<1>5. ~ Crash(p)
  BY <1>0 DEF Crash, TypeOK
<1>6. ~ (\/ (\E q \in Request : Begin(p, q)) \/ ReadInventory(p) \/ ReadFails(p) \/ Decide(p)
         \/ Conflict(p) \/ Apply(p) \/ OpenFile(p) \/ OpenPrevious(p) \/ Supersede(p)
         \/ OpenRecord(p) \/ StoreRecord(p) \/ Finish(p))
  BY <1>0 DEF Begin, Live, ReadInventory, ReadFails, Decide, Conflict, Apply, OpenFile,
     OpenPrevious, Supersede, OpenRecord, StoreRecord, Finish
<1> QED
  BY <1>2, <1>3, <1>4, <1>5, <1>6, WhoActs DEF Acts, Run

(* Crashes are counted.                                                    *)
LEMMA CrashesOnlyGrow ==
  ASSUME IInv, [Next]_vars
  PROVE  crashes \in Nat /\ crashes' \in Nat /\ crashes <= crashes'
<1>0. crashes \in Nat
  BY BoundsAssumption DEF IInv, TypeOK
<1>1. crashes' = crashes \/ crashes' = crashes + 1
  BY DEF Next, Run, Begin, ReadInventory, ReadFails, Decide, Conflict, Apply, OpenFile, Write,
     OpenPrevious, Supersede, OpenRecord, StoreRecord, Finish, Crash, OwnerEdit, bounds, vars
<1> QED
  BY <1>0, <1>1

(* The files stay renderings, torn only by whoever is writing them.        *)
LEMMA StaysAgreed ==
  ASSUME SameRequest, IInv, [Next]_vars, NEW c \in Component, NEW path \in Path, Agreed(c, path)
  PROVE  Agreed(c, path)'
<1>0. renderings(c, path)' = renderings(c, path)
  BY DEF renderings
<1>1. CASE Edits(c, path)
  BY <1>1 DEF Edits, Agreed
<1>2. ASSUME NEW p \in Process, Opens(p, c, path) PROVE Agreed(c, path)'
  BY <1>2 DEF Opens, Agreed
<1>3. ASSUME NEW p \in Process, Writes(p, c, path) PROVE Agreed(c, path)'
  <2> DEFINE digest == artifacts(p)[path].digest
  <2>1. digest \in renderings(c, path) /\ digest # Torn
    BY <1>3, PlannedIsRendering, RecordAssumption DEF Writes
  <2>2. disk'[c][path] \in settled(disk[c][path], digest)
    BY <1>3 DEF Writes
  <2>3. disk'[c][path] = digest \/ author'[c][path] = author[c][path]
    BY <1>3 DEF Writes
  <2> HIDE DEF digest
  <2>4. CASE disk'[c][path] = digest
    BY <1>0, <2>1, <2>4 DEF Agreed
  <2>5. CASE disk'[c][path] # digest /\ disk[c][path] = Null
    BY <2>2, <2>5, RecordAssumption DEF Agreed, settled
  <2>6. CASE disk'[c][path] # digest /\ disk[c][path] # Null
    <3>1. disk[c][path] \notin {Torn, digest}
      BY <2>2, <2>6 DEF settled
    <3>2. disk[c][path] \notin renderings(c, path)
      BY <2>1, <3>1, OneRendering, SameRequest
    <3>3. author[c][path] = "owner"
      BY <2>6, <3>1, <3>2 DEF Agreed
    <3> QED
      BY <2>3, <2>6, <3>3 DEF Agreed
  <2> QED
    BY <2>4, <2>5, <2>6
<1>4. CASE disk'[c][path] = disk[c][path] /\ author'[c][path] = author[c][path]
  <2>1. disk'[c][path] \in renderings(c, path)' \union {Null, Torn} \/ author'[c][path] = "owner"
    BY <1>0, <1>4 DEF Agreed
  <2>2. ASSUME disk'[c][path] = Torn, crashes' = 0, author'[c][path] # "owner"
        PROVE  \E p \in Process : isOpen(p, c, path)'
    <3>1. ~ (crashes > 0)
      <4>1. crashes \in Nat /\ crashes <= 0
        BY <2>2, CrashesOnlyGrow
      <4> QED
        BY <4>1
    <3>2. PICK p \in Process : isOpen(p, c, path)
      BY <1>4, <2>2, <3>1 DEF Agreed
    <3>3. CASE Write(p)
      <4>1. PICK f \in pending(p), content \in Content \union {Null, Torn} :
              /\ current[p] \in Component /\ f \in Path /\ f \in planned(p)
              /\ Least(pending(p), f)
              /\ artifacts(p)[f].digest \in Content
              /\ content \in settled(disk[current[p]][f], artifacts(p)[f].digest)
              /\ disk' = [disk EXCEPT ![current[p]][f] = content]
        BY <3>3, WriteEffect
      <4>2. current[p] = c /\ Least(pending(p), path) /\ pending(p) \subseteq Path
        BY <3>2 DEF isOpen, pending, planned
      <4>3. f = path
        BY <4>1, <4>2, LeastIsOne
      <4>4. disk[c][path] = Torn
        BY <1>4, <2>2
      <4>5. content = artifacts(p)[f].digest
        BY <4>1, <4>2, <4>3, <4>4 DEF settled
      <4>6. disk'[c][path] = content
        BY <4>1, <4>2, <4>3 DEF IInv, TypeOK
      <4> QED
        BY <2>2, <4>1, <4>5, <4>6, RecordAssumption
    <3>4. CASE ~ Write(p)
      BY <2>2, <3>2, <3>4, StaysOpen
    <3> QED
      BY <3>3, <3>4
  <2>3. crashes' > 0 \/ crashes' = 0
    <3>1. crashes' \in Nat
      BY CrashesOnlyGrow
    <3> QED
      BY <3>1
  <2> QED
    BY <2>1, <2>2, <2>3 DEF Agreed
<1> QED
  BY <1>1, <1>2, <1>3, <1>4, FileSteps

(* A process that comes to its record can count on all that it lists.      *)
LEMMA NewRecordIsPresent ==
  ASSUME IInv, NEW p \in Process, Recording(p), Harmless(p)
  PROVE  Present(current[p], materializationRecord(p))
<1>1. Working(p) /\ pc[p] # "decide"
  BY DEF Recording, Working
<1>2. undecided(p) = {} /\ pending(p) = {}
  BY <1>1 DEF IInv, LocalsOK, LocalOK
<1>3. ASSUME NEW path \in planned(p) PROVE Kept(current[p], path)
  <2>1. decision[p][path] # Undecided
    BY <1>2 DEF undecided
  <2>2. decision[p][path] = "CREATE" => path \in written[p]
    BY <1>2 DEF pending, WRITES
  <2>3. Found(p, path)
    BY <2>1, <2>2 DEF Found
  <2> QED
    BY <1>1, <2>3 DEF Harmless
<1>4. \A path \in Path : materializationRecord(p).files[path] # Null => path \in planned(p)
  BY DEF materializationRecord
<1> QED
  BY <1>3, <1>4 DEF Present

(* The files stay as agreed, and what a record lists stays there.          *)
LEMMA StoreStaysKept ==
  ASSUME SameRequest, IInv, Converging, [Next]_vars
  PROVE  StoreKept'
<1>0. StoreKept /\ TypeOK
  BY DEF Converging, IInv
<1>1. \A c \in Component, path \in Path : Agreed(c, path)'
  BY <1>0, StaysAgreed, SameRequest DEF StoreKept
<1>2. ASSUME NEW c \in Component, NEW r \in Revision, store'[c][r] # Null
      PROVE  Present(c, store'[c][r])
  <2>1. CASE store' = store
    BY <1>0, <1>2, <2>1 DEF StoreKept
  <2>2. ASSUME NEW p \in Process, Supersedes(p) PROVE Present(c, store'[c][r])
    <3>1. store'[c][r] = store[c][r] \/ (c = current[p] /\ store'[c][r] = superseded(previous[p]))
      BY <2>2, StoreEntries DEF Supersedes
    <3>2. Present(current[p], previous[p])
      BY <2>2 DEF Supersedes, Converging, Harmless
    <3>3. superseded(previous[p]).files = previous[p].files
      BY <2>2, SupersededType DEF Supersedes
    <3> QED
      BY <1>0, <1>2, <3>1, <3>2, <3>3 DEF StoreKept, Present
  <2>3. ASSUME NEW p \in Process, Stores(p) PROVE Present(c, store'[c][r])
    <3>1. store'[c][r] = store[c][r] \/ (c = current[p] /\ store'[c][r] = materializationRecord(p))
      BY <2>3, StoreEntries DEF Stores
    <3>2. Present(current[p], materializationRecord(p))
      BY <2>3, NewRecordIsPresent DEF Stores, Recording, Converging
    <3> QED
      BY <1>0, <1>2, <3>1, <3>2 DEF StoreKept
  <2> QED
    BY <2>1, <2>2, <2>3, StoreWrites
<1>3. ASSUME NEW c \in Component, NEW r \in Revision, store'[c][r] # Null
      PROVE  \A path \in Path : store'[c][r].files[path] # Null => Kept(c, path)'
  <2>1. PICK record : record = store'[c][r]
    OBVIOUS
  <2>2. \A path \in Path : record.files[path] # Null => Kept(c, path)
    BY <1>2, <1>3, <2>1 DEF Present
  <2>3. \A path \in Path : record.files[path] # Null => Kept(c, path)'
    BY <2>2, NothingVanishes
  <2> QED
    BY <2>1, <2>3
<1> QED
  BY <1>1, <1>3 DEF StoreKept, Present

(* What a process counts on stays there.                                   *)
LEMMA StaysHarmless ==
  ASSUME IInv, Converging, [Next]_vars, NEW o \in Process
  PROVE  Harmless(o)'
<1> SUFFICES ASSUME Working(o)' PROVE Harmless(o)'
  BY DEF Harmless
<1>0. TypeOK /\ LocalOK(o) /\ Harmless(o) /\ StoreKept
  BY DEF IInv, LocalsOK, Converging
<1>1. CASE ReadInventory(o)
  <2>1. PICK c \in Component, r \in 0 .. MaxRuns :
          /\ current'[o] = c /\ isLatest(c, r) /\ pc'[o] = "decide"
          /\ previous'[o] # Null => r \in Revision /\ store[c][r] \in Record /\ previous'[o] = store[c][r]
          /\ decision' = decision /\ written' = written
          /\ decision[o] = [path \in Path |-> Undecided] /\ written[o] = {}
    BY <1>1, ReadsInventory
  <2>2. ASSUME previous'[o] # Null
        PROVE  \A path \in Path : previous'[o].files[path] # Null => Kept(c, path)'
    <3>1. PICK record : record = previous'[o]
      OBVIOUS
    <3>2. Present(c, record)
      BY <1>0, <2>1, <2>2, <3>1 DEF StoreKept
    <3>3. \A path \in Path : record.files[path] # Null => Kept(c, path)'
      BY <3>2, NothingVanishes DEF Present
    <3> QED
      BY <3>1, <3>3
  <2>3. \A path \in planned(o)' : ~ Found(o, path)'
    BY <2>1 DEF Found, planned, isOpen, Undecided
  <2> QED
    BY <2>1, <2>2, <2>3 DEF Harmless, Present
<1>2. CASE ~ ReadInventory(o)
  <2>1. /\ Working(o) /\ request'[o] = request[o] /\ current'[o] = current[o]
        /\ previous'[o] = previous[o]
        /\ Decide(o) \/ decision'[o] = decision[o]
        /\ Write(o) \/ written'[o] = written[o]
    BY <1>2, StillWorking
  <2>2. PICK c \in Component : c = current[o]
    BY <1>0, <2>1 DEF LocalOK
  <2>3. planned(o)' = planned(o) /\ planned(o) \subseteq Path
    BY <2>1 DEF planned, artifacts
  <2>4. ASSUME previous'[o] # Null
        PROVE  \A path \in Path : previous'[o].files[path] # Null => Kept(c, path)'
    <3>1. PICK record : record = previous'[o]
      OBVIOUS
    <3>2. Present(c, record)
      BY <1>0, <2>1, <2>2, <2>4, <3>1 DEF Harmless
    <3>3. \A path \in Path : record.files[path] # Null => Kept(c, path)'
      BY <3>2, NothingVanishes DEF Present
    <3> QED
      BY <3>1, <3>3
  <2>5. ASSUME NEW path \in planned(o), Found(o, path)' PROVE Kept(c, path)'
    <3>1. CASE Found(o, path)
      <4>1. Kept(c, path)
        BY <1>0, <2>1, <2>2, <3>1 DEF Harmless
      <4> QED
        BY <2>3, <4>1, NothingVanishes
    <3>2. CASE ~ Found(o, path) /\ Decide(o)
      <4>1. PICK f \in undecided(o) :
              decision' = [decision EXCEPT ![o][f] =
                decideWrite(artifacts(o)[f], disk[current[o]][f], lastWritten(o, f))]
        BY <3>2 DEF Decide
      <4>2. pc' = pc /\ pc[o] = "decide" /\ written' = written /\ disk' = disk
        BY <3>2 DEF Decide, workspace
      <4>3. f \in Path /\ ~ isOpen(o, current[o], path) /\ ~ isOpen(o, current[o], path)'
        BY <4>2 DEF undecided, planned, isOpen
      <4>4. /\ decision[o][path] \in {Undecided, "CREATE"} /\ path \notin written[o]
            /\ decision'[o][path] \notin {Undecided, "CREATE"}
        BY <2>1, <2>5, <3>2, <4>2, <4>3 DEF Found
      <4>5. /\ f = path
            /\ decision'[o][path] = decideWrite(artifacts(o)[f], disk[current[o]][f], lastWritten(o, f))
        BY <1>0, <2>3, <4>1, <4>3, <4>4 DEF TypeOK
      <4>6. disk[c][path] # Null
        BY <2>2, <4>4, <4>5 DEF decideWrite
      <4> QED
        BY <4>2, <4>6 DEF Kept
    <3>3. CASE ~ Found(o, path) /\ ~ Decide(o) /\ Write(o)
      <4>1. PICK f \in pending(o) :
              /\ f \in Path /\ isOpen(o, current[o], f)
              /\ written' = [written EXCEPT ![o] = @ \union {f}]
        BY <3>3, WriteEffect
      <4>2. pc'[o] = "write"
        BY <1>0, <3>3 DEF Write, TypeOK
      <4>3. ~ isOpen(o, current[o], path)'
        BY <4>2 DEF isOpen
      <4>4. path \in written'[o] /\ path \notin written[o]
        BY <2>1, <2>5, <3>3, <4>3 DEF Found
      <4>5. f = path
        BY <1>0, <4>1, <4>4 DEF TypeOK
      <4> QED
        BY <3>3, <4>1, <4>5 DEF Found
    <3>4. CASE ~ Found(o, path) /\ ~ Decide(o) /\ ~ Write(o)
      <4>1. isOpen(o, c, path)' /\ ~ isOpen(o, c, path)
        BY <2>1, <2>2, <2>5, <3>4 DEF Found
      <4>2. pending(o)' = pending(o) /\ Least(pending(o), path)
        BY <2>1, <3>4, <4>1 DEF pending, planned, artifacts, isOpen
      <4>3. pc'[o] = "writing" /\ pc[o] # "writing"
        BY <2>1, <2>2, <4>1, <4>2 DEF isOpen
      <4>4. OpenFile(o)
        BY <1>0, <1>2, <3>4, <4>3, BecomesWriting
      <4>5. PICK f \in pending(o) :
              /\ current[o] \in Component /\ f \in Path /\ Least(pending(o), f) /\ pending(o) \subseteq Path
              /\ disk' = [disk EXCEPT ![current[o]][f] = Torn]
        BY <4>4, OpenEffect
      <4>6. f = path
        BY <2>3, <4>2, <4>5, LeastIsOne
      <4>7. disk'[c][path] = Torn
        BY <1>0, <2>2, <4>5, <4>6 DEF TypeOK
      <4> QED
        BY <4>7, RecordAssumption DEF Kept
    <3> QED
      BY <3>1, <3>2, <3>3, <3>4
  <2> QED
    BY <2>1, <2>2, <2>3, <2>4, <2>5 DEF Harmless, Present
<1> QED
  BY <1>1, <1>2

(* Whatever the runs, their crashes and the edits of the owner: when all   *)
(* invocations make the same request, nothing they count on is lost.       *)
LEMMA RunsConverge ==
  ASSUME SameRequest
  PROVE  Spec => []Converging
<1>1. Init => Converging
  BY RecordAssumption DEF Init, Converging, StoreKept, Agreed, Harmless, Working
<1>2. IInv /\ Converging /\ [Next]_vars => Converging'
  BY SameRequest, StoreStaysKept, StaysHarmless DEF Converging
<1> QED
  BY <1>1, <1>2, TypeCorrect, PTL DEF Spec

(* Invocations that make the same request may overlap and die at any step, *)
(* and the owner may edit meanwhile: a file is torn only while a run is    *)
(* writing it or after a crash, and a file that a record lists has the     *)
(* digest of that record, unless it is torn or the owner's.                *)
THEOREM OverlappingRunsAgree ==
  ASSUME SameRequest
  PROVE  Spec => []SameRequestConverges
<1>1. RecordsRendered /\ Converging => SameRequestConverges
  <2> SUFFICES ASSUME RecordsRendered, Converging, NEW c \in Component, NEW path \in Path
               PROVE  /\ disk[c][path] = Torn =>
                           crashes > 0 \/ author[c][path] = "owner" \/ \E p \in Process : isOpen(p, c, path)
                      /\ \A r \in Revision :
                           store[c][r] # Null /\ store[c][r].files[path] # Null =>
                             \/ disk[c][path] \in {store[c][r].files[path].digest, Torn}
                             \/ author[c][path] = "owner"
    BY DEF SameRequestConverges
  <2>1. Agreed(c, path)
    BY DEF Converging, StoreKept
  <2>2. ASSUME NEW r \in Revision, store[c][r] # Null, store[c][r].files[path] # Null,
               author[c][path] # "owner"
        PROVE  disk[c][path] \in {store[c][r].files[path].digest, Torn}
    <3>1. store[c][r].files[path].digest \in renderings(c, path)
      BY <2>2 DEF RecordsRendered, Rendered
    <3>2. disk[c][path] # Null
      BY <2>2 DEF Converging, StoreKept, Present, Kept
    <3>3. disk[c][path] \in renderings(c, path) \union {Torn}
      BY <2>1, <2>2, <3>2 DEF Agreed
    <3> QED
      BY <3>1, <3>3, OneRendering, SameRequest
  <2> QED
    BY <2>1, <2>2 DEF Agreed
<1> QED
  BY <1>1, RecordsAreRendered, RunsConverge, SameRequest, PTL

(* ... and a run finds a conflict only with the owner, or with a file that *)
(* is torn when it reads it.                                               *)
THEOREM OnlyTheUnfinishedConflict ==
  ASSUME SameRequest
  PROVE  Spec => ConflictIsUnfinished
<1> DEFINE Unfinished == \A p \in Process, path \in Path :
       decision[p][path] = Undecided /\ decision'[p][path] = "CONFLICT" =>
         author[current[p]][path] = "owner" \/ disk[current[p]][path] = Torn
<1>1. IInv /\ Converging /\ [Next]_vars => [Unfinished]_vars
  <2> SUFFICES ASSUME IInv, Converging, [Next]_vars, NEW p \in Process, NEW path \in Path,
                      decision[p][path] = Undecided, decision'[p][path] = "CONFLICT"
               PROVE  author[current[p]][path] = "owner" \/ disk[current[p]][path] = Torn
    OBVIOUS
  <2>0. TypeOK
    BY DEF IInv
  <2>1. Decide(p)
    BY BecomesDecided DEF Undecided
  <2>2. PICK f \in undecided(p) :
          decision' = [decision EXCEPT ![p][f] =
            decideWrite(artifacts(p)[f], disk[current[p]][f], lastWritten(p, f))]
    BY <2>1 DEF Decide
  <2>3. f \in Path /\ f \in planned(p) /\ Working(p)
    BY <2>1 DEF undecided, planned, Decide, Working
  <2>4. f = path /\ decideWrite(artifacts(p)[path], disk[current[p]][path], lastWritten(p, path)) = "CONFLICT"
    BY <2>0, <2>2, <2>3 DEF TypeOK, Undecided
  <2>5. disk[current[p]][path] \notin {Null, artifacts(p)[path].digest}
    BY <2>4 DEF decideWrite
  <2>6. artifacts(p)[path].digest \in renderings(current[p], path)
    BY <2>3, <2>4, PlannedIsRendering
  <2>7. disk[current[p]][path] \notin renderings(current[p], path)
    BY <2>5, <2>6, OneRendering, SameRequest
  <2>8. current[p] \in Component
    BY <2>3 DEF IInv, LocalsOK, LocalOK
  <2>9. Agreed(current[p], path)
    BY <2>8 DEF Converging, StoreKept
  <2> QED
    BY <2>5, <2>7, <2>9 DEF Agreed
<1> QED
  BY <1>1, TypeCorrect, RunsConverge, SameRequest, PTL DEF Spec, ConflictIsUnfinished

-----------------------------------------------------------------------------
(***************************************************************************)
(* What the owner may lose.                                                *)
(***************************************************************************)

(* A run at work forgets no race.                                          *)
LEMMA RacesStayNoted ==
  ASSUME IInv, [Next]_vars, NEW o \in Process, ~ ReadInventory(o), Working(o)'
  PROVE  raced[o] \subseteq raced'[o]
<1>0. TypeOK
  BY DEF IInv
<1>1. CASE UNCHANGED vars
  BY <1>1 DEF vars, locals
<1>2. ASSUME NEW c \in Component, NEW path \in Path, NEW content \in Content \union {Null},
             OwnerEdit(c, path, content)
      PROVE  raced[o] \subseteq raced'[o]
  BY <1>2 DEF OwnerEdit
<1>3. ASSUME NEW p \in Process, p # o, Acts(p) PROVE raced[o] \subseteq raced'[o]
  BY <1>3, OwnVariables
<1>4. CASE Decide(o) \/ Apply(o) \/ OpenFile(o) \/ Write(o) \/ OpenPrevious(o) \/ Supersede(o)
           \/ OpenRecord(o)
  BY <1>4 DEF Decide, Apply, OpenFile, Write, OpenPrevious, Supersede, OpenRecord, locals
<1>5. ~ (ReadFails(o) \/ Conflict(o) \/ StoreRecord(o) \/ Finish(o) \/ Crash(o)
           \/ \E q \in Request : Begin(o, q))
  BY <1>0 DEF ReadFails, Conflict, StoreRecord, Finish, Crash, Begin, TypeOK, Working
<1> QED
  BY <1>1, <1>2, <1>3, <1>4, <1>5, WhoActs DEF Acts, Run

(* Nobody but the owner puts into a file what is not a rendering.          *)
LEMMA WritersRender ==
  ASSUME IInv, [Next]_vars, NEW c \in Component, NEW path \in Path,
         disk[c][path] \in renderings(c, path) \union {Null, Torn},
         disk'[c][path] \notin renderings(c, path) \union {Null, Torn}
  PROVE  \A p \in Process : current[p] = c /\ decision[p][path] # Undecided => path \in raced'[p]
<1>0. TypeOK
  BY DEF IInv
<1>1. ASSUME NEW p \in Process, Opens(p, c, path) PROVE FALSE
  BY <1>1 DEF Opens
<1>2. ASSUME NEW p \in Process, Writes(p, c, path) PROVE FALSE
  <2>1. artifacts(p)[path].digest \in renderings(c, path)
    BY <1>2, PlannedIsRendering DEF Writes
  <2> QED
    BY <1>2, <2>1 DEF Writes, settled
<1>3. ASSUME Edits(c, path), NEW p \in Process, current[p] = c, decision[p][path] # Undecided
      PROVE  path \in raced'[p]
  <2>1. PICK content \in Content \union {Null} : OwnerEdit(c, path, content)
    BY <1>3 DEF Edits
  <2> QED
    BY <1>3, <2>1 DEF OwnerEdit
<1> QED
  BY <1>1, <1>2, <1>3, FileSteps

(* A decision to write is taken on an absent file, or on the content the   *)
(* record that was read lists, which is a rendering.                       *)
LEMMA DecidedOnRendering ==
  ASSUME IInv, RecordsRendered, NEW p \in Process, Working(p), NEW path \in Path,
         decideWrite(artifacts(p)[path], disk[current[p]][path], lastWritten(p, path)) \in WRITES
  PROVE  disk[current[p]][path] \in renderings(current[p], path) \union {Null, Torn}
<1>1. \/ disk[current[p]][path] = Null
      \/ lastWritten(p, path) # Null /\ disk[current[p]][path] = lastWritten(p, path)
  BY DEF decideWrite, WRITES
<1>2. lastWritten(p, path) # Null => lastWritten(p, path) \in renderings(current[p], path)
  BY DEF lastWritten, RecordsRendered, Rendered
<1> QED
  BY <1>1, <1>2

(* Whatever the interleaving of runs, edits and crashes: a file about to   *)
(* be written holds nothing that only the owner can have put there, unless *)
(* the owner changed it after the run had decided on it.                   *)
LEMMA RacesAreNoted == Spec => []RacesNoted
<1>1. Init => RacesNoted
  <2>1. Init => \A p \in Process : ~ Working(p)
    BY DEF Init, Working
  <2> QED
    BY <2>1 DEF RacesNoted, RaceNoted
<1>2. IInv /\ RecordsRendered /\ RacesNoted /\ [Next]_vars => RacesNoted'
  <2> SUFFICES ASSUME IInv, RecordsRendered, RacesNoted, [Next]_vars, NEW o \in Process,
                      Working(o)', NEW path \in Path, path \in pending(o)', path \notin raced'[o]
               PROVE  disk'[current'[o]][path] \in renderings(current'[o], path) \union {Null, Torn}
    BY DEF RacesNoted, RaceNoted, renderings, pending, planned
  <2>0. TypeOK /\ LocalOK(o) /\ RaceNoted(o)
    BY DEF IInv, LocalsOK, RacesNoted
  <2>1. CASE ReadInventory(o)
    <3>1. decision'[o] = [f \in Path |-> Undecided]
      BY <2>1, ReadsInventory
    <3> QED
      BY <3>1 DEF pending, WRITES, Undecided
  <2>2. CASE ~ ReadInventory(o)
    <3>1. /\ Working(o) /\ request'[o] = request[o] /\ current'[o] = current[o]
          /\ Decide(o) \/ decision'[o] = decision[o]
          /\ Write(o) \/ written'[o] = written[o]
      BY <2>2, StillWorking
    <3>2. PICK c \in Component : c = current[o]
      BY <2>0, <3>1 DEF LocalOK
    <3>3. planned(o)' = planned(o)
      BY <3>1 DEF planned, artifacts
    <3>4. raced[o] \subseteq raced'[o]
      BY <2>2, RacesStayNoted
    <3>5. ASSUME disk[c][path] \in renderings(c, path) \union {Null, Torn}, decision[o][path] # Undecided
          PROVE  disk'[c][path] \in renderings(c, path) \union {Null, Torn}
      BY <3>2, <3>5, WritersRender
    <3>6. CASE path \in pending(o)
      <4>1. disk[c][path] \in renderings(c, path) \union {Null, Torn}
        BY <2>0, <3>1, <3>2, <3>4, <3>6 DEF RaceNoted
      <4>2. decision[o][path] # Undecided
        BY <3>6 DEF pending, WRITES, Undecided
      <4> QED
        BY <3>1, <3>2, <3>5, <4>1, <4>2
    <3>7. CASE path \notin pending(o) /\ Decide(o)
      <4>1. PICK f \in undecided(o) :
              decision' = [decision EXCEPT ![o][f] =
                decideWrite(artifacts(o)[f], disk[current[o]][f], lastWritten(o, f))]
        BY <3>7 DEF Decide
      <4>2. written' = written /\ disk' = disk
        BY <3>7 DEF Decide, workspace
      <4>3. f \in Path
        BY DEF undecided, planned
      <4>4. decision[o][path] \notin WRITES /\ decision'[o][path] \in WRITES
        BY <3>3, <3>7, <4>2 DEF pending
      <4>5. decideWrite(artifacts(o)[path], disk[current[o]][path], lastWritten(o, path)) \in WRITES
        BY <2>0, <4>1, <4>3, <4>4 DEF TypeOK
      <4> QED
        BY <3>1, <4>2, <4>5, DecidedOnRendering
    <3>8. CASE path \notin pending(o) /\ ~ Decide(o)
      <4>1. decision'[o][path] \in WRITES /\ path \in planned(o) /\ path \notin written'[o]
        BY <3>3 DEF pending
      <4>2. path \in written[o] /\ Write(o)
        BY <3>1, <3>8, <4>1 DEF pending
      <4>3. PICK f \in pending(o) : written' = [written EXCEPT ![o] = @ \union {f}]
        BY <4>2 DEF Write
      <4> QED
        BY <2>0, <4>1, <4>2, <4>3 DEF TypeOK
    <3> QED
      BY <3>6, <3>7, <3>8
  <2> QED
    BY <2>1, <2>2
<1> QED
  BY <1>1, <1>2, TypeCorrect, RecordsAreRendered, PTL DEF Spec

(* Any interleaving of runs, edits and crashes, overlaps included: what    *)
(* only the owner can have put in a file disappears under the compiler     *)
(* only when the owner changed that file after the run had decided on it.  *)
THEOREM EditsAreLostInTheWindowOnly == Spec => OnlyRacedEditsAreLost
<1> DEFINE Window == \A c \in Component, path \in Path :
       /\ disk[c][path] \in OwnContent(c, path)
       /\ disk'[c][path] # disk[c][path]
       /\ edits' = edits
       => \E p \in Process : current[p] = c /\ path \in pending(p) \intersect raced[p]
<1>1. IInv /\ RacesNoted /\ [Next]_vars => [Window]_vars
  <2> SUFFICES ASSUME IInv, RacesNoted, [Next]_vars, NEW c \in Component, NEW path \in Path,
                      disk[c][path] \in OwnContent(c, path), disk'[c][path] # disk[c][path],
                      edits' = edits
               PROVE  \E p \in Process : current[p] = c /\ path \in pending(p) \intersect raced[p]
    OBVIOUS
  <2>0. TypeOK
    BY DEF IInv
  <2>1. disk[c][path] \notin renderings(c, path) \union {Null, Torn}
    BY NullAssumption, RecordAssumption DEF OwnContent
  <2>2. ASSUME NEW p \in Process, Working(p), current[p] = c, path \in pending(p)
        PROVE  path \in raced[p]
    BY <2>1, <2>2 DEF RacesNoted, RaceNoted
  <2>3. ASSUME NEW p \in Process, OpenFile(p)
        PROVE  Working(p) /\ current[p] = c /\ path \in pending(p)
    <3>1. PICK f \in pending(p) :
            /\ Working(p) /\ current[p] \in Component /\ f \in Path
            /\ disk' = [disk EXCEPT ![current[p]][f] = Torn]
      BY <2>3, OpenEffect
    <3>2. c = current[p] /\ path = f
      BY <2>0, <3>1 DEF TypeOK
    <3> QED
      BY <3>1, <3>2
  <2>4. ASSUME NEW p \in Process, Write(p)
        PROVE  Working(p) /\ current[p] = c /\ path \in pending(p)
    <3>1. PICK f \in pending(p), content \in Content \union {Null, Torn} :
            /\ Working(p) /\ current[p] \in Component /\ f \in Path
            /\ disk' = [disk EXCEPT ![current[p]][f] = content]
      BY <2>4, WriteEffect
    <3>2. c = current[p] /\ path = f
      BY <2>0, <3>1 DEF TypeOK
    <3> QED
      BY <3>1, <3>2
  <2>5. ASSUME NEW d \in Component, NEW f \in Path, NEW content \in Content \union {Null},
               OwnerEdit(d, f, content)
        PROVE  FALSE
    <3>1. edits \in Nat /\ edits' = edits + 1
      BY <2>0, <2>5, BoundsAssumption DEF OwnerEdit, TypeOK
    <3> QED
      BY <3>1
  <2> QED
    BY <2>2, <2>3, <2>4, <2>5, DiskWrites
<1> QED
  BY <1>1, TypeCorrect, RacesAreNoted, PTL DEF Spec, OnlyRacedEditsAreLost

-----------------------------------------------------------------------------
(***************************************************************************)
(* Materializer implements AtomicWorkspace, for every value of its         *)
(* constants, one run at a time: with crashes, torn files and records, and *)
(* edits of the owner between the runs.                                    *)
(***************************************************************************)

(***************************************************************************)
(* The files and the inventory, as the promise sees them.  The facts about *)
(* them are state predicates, so that a step may use them of the state it  *)
(* leaves and of the one it reaches.                                       *)
(***************************************************************************)

(* A file that a run has opened or written counts as it was decided on.    *)
Seen(p, c, path) ==
  IF touched(p, c, path)
  THEN IF decision[p][path] = "CREATE" THEN Null ELSE lastWritten(p, path)
  ELSE disk[c][path]

(* A file that nobody touches is what is on the disk.                      *)
FilesSeen ==
  \A c \in Component, path \in Path :
    /\ \A p \in Process : touched(p, c, path) => before(c, path) = Seen(p, c, path)
    /\ (\A p \in Process : ~ touched(p, c, path)) => before(c, path) = disk[c][path]

(* The inventory is what the latest record lists.                          *)
ListedSeen ==
  \A c \in Component, r \in 0 .. MaxRuns : isLatest(c, r) =>
    \A path \in Path :
      listed(c, path) = IF r = 0 \/ store[c][r].files[path] = Null THEN Null
                        ELSE [ownership |-> store[c][r].files[path].ownership,
                              digest |-> store[c][r].files[path].digest]

(* At most one run is live, so that what is before its writes is its own.  *)
LEMMA FilesAreSeen == Exclusive => FilesSeen
<1> SUFFICES ASSUME Exclusive, NEW c \in Component, NEW path \in Path
             PROVE  /\ \A p \in Process : touched(p, c, path) => before(c, path) = Seen(p, c, path)
                    /\ (\A p \in Process : ~ touched(p, c, path)) => before(c, path) = disk[c][path]
  BY DEF FilesSeen
<1>1. ASSUME NEW p \in Process, touched(p, c, path)
      PROVE  before(c, path) = Seen(p, c, path)
  <2> DEFINE q == CHOOSE o \in Process : touched(o, c, path)
  <2>1. q \in Process /\ touched(q, c, path)
    BY <1>1
  <2>2. before(c, path) = IF decision[q][path] = "CREATE" THEN Null ELSE lastWritten(q, path)
    BY <1>1 DEF before
  <2> HIDE DEF q
  <2>3. q = p
    BY <1>1, <2>1 DEF Exclusive, touched, applying, Live
  <2> QED
    BY <1>1, <2>2, <2>3 DEF Seen
<1>2. (\A p \in Process : ~ touched(p, c, path)) => before(c, path) = disk[c][path]
  BY DEF before
<1> QED
  BY <1>1, <1>2

(* That is how `listed` is read off the store.                             *)
LEMMA InventoryIsSeen == ListedSeen
<1> SUFFICES ASSUME NEW c \in Component, NEW r \in 0 .. MaxRuns, isLatest(c, r), NEW path \in Path
             PROVE  listed(c, path) = IF r = 0 \/ store[c][r].files[path] = Null THEN Null
                                      ELSE [ownership |-> store[c][r].files[path].ownership,
                                            digest |-> store[c][r].files[path].digest]
  BY DEF ListedSeen
<1> DEFINE s == CHOOSE t \in 0 .. MaxRuns : isLatest(c, t)
<1>1. s \in 0 .. MaxRuns /\ isLatest(c, s)
  OBVIOUS
<1>2. s = r
  BY <1>1, BoundsAssumption DEF isLatest, Revision
<1>3. listed(c, path) = IF s = 0 \/ store[c][s].files[path] = Null THEN Null
                        ELSE [ownership |-> store[c][s].files[path].ownership,
                              digest |-> store[c][s].files[path].digest]
  BY DEF listed
<1> HIDE DEF s
<1> QED
  BY <1>2, <1>3

(* A store that stands still lists what it listed.                         *)
LEMMA ListedFrame ==
  ASSUME HasLatest, ListedSeen, ListedSeen', NEW c \in Component, store'[c] = store[c]
  PROVE  \A path \in Path : listed(c, path)' = listed(c, path)
<1>1. PICK r \in 0 .. MaxRuns : isLatest(c, r)
  BY DEF HasLatest
<1>2. isLatest(c, r)'
  BY <1>1 DEF isLatest
<1> QED
  BY <1>1, <1>2 DEF ListedSeen

(* A record that is superseded stays the latest and lists what it listed.  *)
LEMMA SupersedeKeeps ==
  ASSUME IInv, PreviousIsLatest, HasLatest, ListedSeen, ListedSeen',
         NEW p \in Process, Supersede(p), NEW c \in Component
  PROVE  /\ \A path \in Path : listed(c, path)' = listed(c, path)
         /\ \E r \in 0 .. MaxRuns : isLatest(c, r)'
<1>0. TypeOK /\ pc[p] = "superseding" /\ Working(p)
  BY DEF IInv, Supersede, Working
<1>1. PICK r \in 0 .. MaxRuns : isLatest(c, r)
  BY DEF HasLatest
<1>2. CASE store'[c] = store[c]
  <2>1. isLatest(c, r)'
    BY <1>1, <1>2 DEF isLatest
  <2> QED
    BY <1>2, <2>1, ListedFrame
<1>3. CASE store'[c] # store[c]
  <2>1. /\ previous[p] # Null /\ c = current[p]
        /\ store' = [store EXCEPT ![c][previous[p].revision] = superseded(previous[p])]
    <3>1. previous[p] # Null /\ current[p] \in Component
      BY <1>0 DEF IInv, LocalsOK, LocalOK
    <3>2. store' = [store EXCEPT ![current[p]][previous[p].revision] = superseded(previous[p])]
      BY <1>3 DEF Supersede, PutRecord
    <3> QED
      BY <1>0, <1>3, <3>1, <3>2 DEF TypeOK
  <2>2. /\ previous[p] \in Record /\ superseded(previous[p]) \in Record
        /\ superseded(previous[p]).files = previous[p].files
    BY <1>0, <2>1, SupersededType DEF TypeOK
  <2>3. /\ baseRevision(p) = previous[p].revision /\ baseRevision(p) \in Revision
        /\ store[c][baseRevision(p)] = previous[p]
        /\ \A s \in Revision : s > baseRevision(p) => store[c][s] = Null
    BY <1>0, <2>1, <2>2 DEF baseRevision, PreviousIsLatest, PreviousLatest, Record
  <2>4. \A s \in Revision : store'[c][s] =
          IF s = baseRevision(p) THEN superseded(previous[p]) ELSE store[c][s]
    BY <1>0, <2>1, <2>3 DEF TypeOK
  <2>5. superseded(previous[p]) # Null /\ previous[p] # Null
    BY <2>2, RecordAssumption
  <2>6. isLatest(c, baseRevision(p))
    BY <2>3, <2>5 DEF isLatest
  <2>7. PICK b : b = baseRevision(p)
    OBVIOUS
  <2>8. isLatest(c, b)'
    BY <2>3, <2>4, <2>5, <2>7, BoundsAssumption DEF isLatest, Revision
  <2>9. b \in 0 .. MaxRuns
    BY <2>3, <2>7, BoundsAssumption DEF Revision
  <2>10. store'[c][b].files = store[c][b].files
    BY <2>2, <2>3, <2>4, <2>7
  <2> QED
    BY <2>6, <2>7, <2>8, <2>9, <2>10 DEF ListedSeen
<1> QED
  BY <1>2, <1>3

(* Without overlaps every store has a latest record or none.               *)
LEMMA StoresHaveALatest ==
  ASSUME Isolated
  PROVE  Spec => []HasLatest
<1>1. Init => HasLatest
  BY BoundsAssumption DEF Init, HasLatest, isLatest
<1>2. IInv /\ PreviousIsLatest /\ HasLatest /\ ListedSeen /\ ListedSeen' /\ [Next]_vars => HasLatest'
  <2> SUFFICES ASSUME IInv, PreviousIsLatest, HasLatest, ListedSeen, ListedSeen', [Next]_vars,
                      NEW c \in Component
               PROVE  \E r \in 0 .. MaxRuns : isLatest(c, r)'
    BY DEF HasLatest
  <2>0. TypeOK
    BY DEF IInv
  <2>1. CASE store'[c] = store[c]
    BY <2>1 DEF HasLatest, isLatest
  <2>2. ASSUME NEW p \in Process, Supersedes(p) PROVE \E r \in 0 .. MaxRuns : isLatest(c, r)'
    BY <2>2, SupersedeKeeps DEF Supersedes
  <2>3. ASSUME NEW p \in Process, Stores(p), c = current[p]
        PROVE  \E r \in 0 .. MaxRuns : isLatest(c, r)'
    BY <2>3, NewRecordIsLatest, BoundsAssumption DEF Revision, Stores
  <2>4. ASSUME NEW p \in Process, Stores(p), c # current[p] PROVE store'[c] = store[c]
    BY <2>0, <2>4 DEF Stores, TypeOK
  <2> QED
    BY <2>1, <2>2, <2>3, <2>4, StoreWrites
<1> QED
  BY <1>1, <1>2, TypeCorrect, PreviousStaysLatest, InventoryIsSeen, PTL DEF Spec

(***************************************************************************)
(* The steps.                                                              *)
(***************************************************************************)

(* What holds in every state of a run that nobody else disturbs.           *)
Undisturbed ==
  /\ IInv /\ Exclusive /\ DecisionsCurrent /\ PreviousIsLatest
  /\ FilesInPlace /\ RecordsSound /\ HasLatest /\ FilesSeen /\ ListedSeen

(* The promise does not see a step that changes neither.                   *)
LEMMA SilentStep ==
  ASSUME \A c \in Component, path \in Path :
           before(c, path)' = before(c, path) /\ listed(c, path)' = listed(c, path)
  PROVE  [Promise!ANext]_(Promise!avars)
<1>1. [c \in Component |-> [path \in Path |-> before(c, path)]]' =
        [c \in Component |-> [path \in Path |-> before(c, path)]]
  OBVIOUS
<1>2. [c \in Component |-> [path \in Path |-> listed(c, path)]]' =
        [c \in Component |-> [path \in Path |-> listed(c, path)]]
  OBVIOUS
<1> QED
  BY <1>1, <1>2 DEF Promise!avars

(* What the promise sees of the files depends on the acting process only.  *)
LEMMA SeenByTheActor ==
  ASSUME Isolated, Undisturbed, Undisturbed', NEW p \in Process, Acts(p),
         NEW c \in Component, NEW path \in Path
  PROVE  before(c, path) = Seen(p, c, path) /\ before(c, path)' = Seen(p, c, path)'
<1>1. \A o \in Process : o # p => ~ Live(o) /\ ~ Live(o)'
  BY OthersStandStill, Isolated DEF Undisturbed
<1>2. \A o \in Process : o # p => ~ touched(o, c, path) /\ ~ touched(o, c, path)'
  BY <1>1 DEF touched, applying, Live
<1>3. before(c, path) = Seen(p, c, path)
  BY <1>2 DEF Undisturbed, FilesSeen, Seen
<1>4. FilesSeen'
  BY DEF Undisturbed
<1>5. before(c, path)' = Seen(p, c, path)'
  BY <1>2, <1>4 DEF FilesSeen, Seen
<1> QED
  BY <1>3, <1>5

(* What was written last is what the inventory lists.                      *)
LEMMA LastWrittenIsListed ==
  ASSUME Undisturbed, NEW p \in Process, Working(p), NEW c \in Component, c = current[p],
         NEW path \in Path, lastWritten(p, path) # Null
  PROVE  listed(c, path) # Null /\ listed(c, path).digest = lastWritten(p, path)
<1>0. TypeOK /\ PreviousLatest(p)
  BY DEF Undisturbed, IInv, PreviousIsLatest
<1>1. /\ previous[p] # Null /\ previous[p].files[path] # Null
      /\ lastWritten(p, path) = previous[p].files[path].digest
  BY DEF lastWritten
<1>2. /\ previous[p] \in Record /\ superseded(previous[p]) \in Record
      /\ superseded(previous[p]).files = previous[p].files
  BY <1>0, <1>1, SupersededType DEF TypeOK
<1>3. PICK r \in Revision : r = baseRevision(p)
  BY <1>1, <1>2 DEF baseRevision, Record
<1>4. /\ store[c][r] \in {previous[p], superseded(previous[p])}
      /\ \A s \in Revision : s > r => store[c][s] = Null
  BY <1>0, <1>1, <1>3 DEF PreviousLatest
<1>5. store[c][r] \in Record /\ store[c][r].files = previous[p].files
  BY <1>2, <1>4
<1>6. isLatest(c, r) /\ r \in 0 .. MaxRuns /\ r # 0
  BY <1>4, <1>5, RecordAssumption, BoundsAssumption DEF isLatest, Revision
<1>7. listed(c, path) = [ownership |-> store[c][r].files[path].ownership,
                         digest |-> store[c][r].files[path].digest]
  BY <1>1, <1>5, <1>6 DEF Undisturbed, ListedSeen
<1>8. previous[p].files[path] \in RecordedFile
  BY <1>1, <1>2 DEF Record, Inventory
<1>9. listed(c, path) \in PlannedArtifact
  BY <1>5, <1>7, <1>8 DEF RecordedFile, PlannedArtifact
<1> QED
  BY <1>1, <1>5, <1>7, <1>9, NullAssumption

(* A decision on an untouched file that is not applied yet is current.     *)
LEMMA UntouchedIsCurrent ==
  ASSUME Undisturbed, NEW p \in Process, NEW c \in Component, c = current[p],
         pc[p] \in {"write", "writing"},
         NEW path \in planned(p), ~ touched(p, c, path)
  PROVE  decision[p][path] = decideWrite(artifacts(p)[path], disk[c][path], lastWritten(p, path))
<1>1. Working(p) /\ pc[p] # "decide"
  BY DEF Working
<1>2. decision[p][path] # Undecided
  BY <1>1 DEF Undisturbed, IInv, LocalsOK, LocalOK, undecided
<1>3. path \notin written[p] /\ ~ isOpen(p, c, path)
  BY DEF touched, applying
<1> QED
  BY <1>2, <1>3 DEF Undisturbed, DecisionsCurrent, DecisionCurrent

(* A run applies its plan to files it may replace or keep only.            *)
LEMMA AppliedIsVouched ==
  ASSUME Undisturbed, NEW p \in Process, NEW c \in Component, applying(p, c),
         NEW path \in planned(p), artifacts(p)[path].ownership = "COMPILER_OWNED",
         Seen(p, c, path) # Null
  PROVE  \/ Seen(p, c, path) = artifacts(p)[path].digest
         \/ listed(c, path) # Null /\ Seen(p, c, path) = listed(c, path).digest
<1>0. /\ TypeOK /\ LocalOK(p) /\ Working(p) /\ pc[p] # "decide" /\ c = current[p]
      /\ path \in Path
  BY DEF Undisturbed, IInv, LocalsOK, applying, Working, planned
<1>1. ASSUME lastWritten(p, path) # Null, Seen(p, c, path) = lastWritten(p, path)
      PROVE  listed(c, path) # Null /\ Seen(p, c, path) = listed(c, path).digest
  BY <1>0, <1>1, LastWrittenIsListed
<1>2. CASE touched(p, c, path)
  BY <1>1, <1>2 DEF Seen
<1>3. CASE ~ touched(p, c, path) /\ pc[p] \in {"write", "writing"}
  <2>1. decision[p][path] = decideWrite(artifacts(p)[path], disk[c][path], lastWritten(p, path))
    BY <1>0, <1>3, UntouchedIsCurrent
  <2>2. decision[p][path] # "CONFLICT"
    BY <1>0 DEF LocalOK, conflicts
  <2>3. Seen(p, c, path) = disk[c][path]
    BY <1>3 DEF Seen
  <2> QED
    BY <1>1, <2>1, <2>2, <2>3 DEF decideWrite
<1>4. CASE ~ touched(p, c, path) /\ pc[p] \notin {"write", "writing"}
  <2>1. Recording(p)
    BY <1>0, <1>4 DEF Working, Recording
  <2>2. ~ mismatch(disk[c][path], artifacts(p)[path])
    BY <1>0, <2>1 DEF Undisturbed, FilesInPlace, InPlace
  <2> QED
    BY <1>4, <2>2 DEF Seen, mismatch
<1> QED
  BY <1>2, <1>3, <1>4

(* What a run touches it had decided to write: it is planned, and a seeded *)
(* file was absent.                                                        *)
LEMMA TouchedIsWritten ==
  ASSUME Undisturbed, NEW p \in Process, NEW c \in Component, NEW path \in Path,
         touched(p, c, path)
  PROVE  /\ path \in planned(p) /\ decision[p][path] \in WRITES
         /\ artifacts(p)[path].ownership = "OWNER_SEEDED" => Seen(p, c, path) = Null
<1>1. Working(p) /\ c = current[p]
  BY DEF touched, applying, Working
<1>2. path \in planned(p) /\ decision[p][path] \in WRITES
  BY <1>1 DEF touched, isOpen, Least, pending, Undisturbed, FilesInPlace, InPlace
<1>3. artifacts(p)[path].ownership = "OWNER_SEEDED" => decision[p][path] = "CREATE"
  BY <1>1, <1>2 DEF Undisturbed, RecordsSound, SeedsRespected, WRITES
<1> QED
  BY <1>2, <1>3 DEF Seen

(* Steps that touch no file, and touch none before or after.               *)
LEMMA PlainStep ==
  ASSUME Isolated, Undisturbed, Undisturbed', NEW p \in Process,
         (\E q \in Request : Begin(p, q)) \/ ReadInventory(p) \/ ReadFails(p) \/ Decide(p)
         \/ Conflict(p) \/ Apply(p) \/ Finish(p)
         \/ (Crash(p) /\ \A c \in Component : ~ applying(p, c))
  PROVE  [Promise!ANext]_(Promise!avars)
<1>0. TypeOK /\ LocalOK(p)
  BY DEF Undisturbed, IInv, LocalsOK
<1>1. Acts(p)
  BY DEF Acts, Run
<1>2. disk' = disk /\ store' = store
  BY DEF Begin, ReadInventory, ReadFails, Decide, Conflict, Apply, Finish, Crash, workspace
<1>3. \A c \in Component, path \in Path : ~ touched(p, c, path)
  BY DEF Begin, ReadInventory, ReadFails, Decide, Conflict, Apply, Finish, Live, touched, applying
<1>4. pc'[p] \in {"next", "decide", "write", "failed", "done"}
  BY <1>0 DEF TypeOK, Begin, ReadInventory, ReadFails, Decide, Conflict, Apply, Finish, Crash
<1>5. pc'[p] = "write" => written'[p] = {}
  BY <1>0 DEF TypeOK, LocalOK, Begin, ReadInventory, ReadFails, Decide, Conflict, Apply, Finish, Crash, locals
<1>6. \A c \in Component, path \in Path : ~ touched(p, c, path)'
  BY <1>4, <1>5 DEF touched, applying, isOpen
<1>7. \A c \in Component, path \in Path : before(c, path)' = before(c, path)
  <2> SUFFICES ASSUME NEW c \in Component, NEW path \in Path PROVE before(c, path)' = before(c, path)
    OBVIOUS
  <2>1. before(c, path) = Seen(p, c, path) /\ before(c, path)' = Seen(p, c, path)'
    BY <1>1, Isolated, SeenByTheActor
  <2> QED
    BY <1>2, <1>3, <1>6, <2>1 DEF Seen
<1>8. \A c \in Component, path \in Path : listed(c, path)' = listed(c, path)
  BY <1>2, ListedFrame DEF Undisturbed
<1> QED
  BY <1>7, <1>8, SilentStep

(* Opening a file hides it ...                                             *)
LEMMA OpenStep ==
  ASSUME Isolated, Undisturbed, Undisturbed', NEW p \in Process, OpenFile(p)
  PROVE  [Promise!ANext]_(Promise!avars)
<1>0. TypeOK /\ IInv
  BY DEF Undisturbed, IInv
<1>1. Acts(p) /\ store' = store
  BY DEF Acts, Run, OpenFile
<1>2. PICK file \in pending(p) :
        /\ Working(p) /\ current[p] \in Component /\ file \in Path /\ file \in planned(p)
        /\ decision[p][file] \in WRITES /\ file \notin written[p]
        /\ pc[p] = "write" /\ pc'[p] = "writing" /\ locals' = locals
        /\ Least(pending(p), file) /\ pending(p)' = pending(p) /\ pending(p) \subseteq Path
        /\ disk' = [disk EXCEPT ![current[p]][file] = Torn]
        /\ isOpen(p, current[p], file)'
  BY <1>0, OpenEffect
<1>3. /\ current' = current /\ previous' = previous /\ decision' = decision /\ written' = written
  BY <1>2 DEF locals
<1>4. ASSUME NEW c \in Component, NEW path \in Path PROVE Seen(p, c, path)' = Seen(p, c, path)
  <2>1. CASE c = current[p] /\ path = file
    <3>1. touched(p, c, path)' /\ ~ touched(p, c, path)
      BY <1>2, <1>3, <2>1 DEF touched, applying, isOpen
    <3>2. decision[p][path] = decideWrite(artifacts(p)[path], disk[c][path], lastWritten(p, path))
      BY <1>2, <2>1, <3>1, UntouchedIsCurrent
    <3>3. disk[c][path] = IF decision[p][path] = "CREATE" THEN Null ELSE lastWritten(p, path)
      BY <1>2, <2>1, <3>2 DEF decideWrite, WRITES
    <3> QED
      BY <1>3, <3>1, <3>3 DEF Seen, lastWritten
  <2>2. CASE ~ (c = current[p] /\ path = file)
    <3>1. disk'[c][path] = disk[c][path]
      BY <1>0, <1>2, <2>2 DEF TypeOK
    <3>2. ~ isOpen(p, c, path) /\ ~ isOpen(p, c, path)'
      <4>1. ASSUME isOpen(p, c, path)' PROVE FALSE
        <5>1. c = current[p] /\ Least(pending(p), path)
          BY <1>2, <1>3, <4>1 DEF isOpen
        <5> QED
          BY <1>2, <2>2, <5>1, LeastIsOne
      <4> QED
        BY <1>2, <4>1 DEF isOpen
    <3>3. touched(p, c, path)' <=> touched(p, c, path)
      BY <1>2, <1>3, <3>2 DEF touched, applying
    <3> QED
      BY <1>3, <3>1, <3>3 DEF Seen, lastWritten
  <2> QED
    BY <2>1, <2>2
<1>5. \A c \in Component, path \in Path : before(c, path)' = before(c, path)
  BY <1>1, <1>4, Isolated, SeenByTheActor
<1>6. \A c \in Component, path \in Path : listed(c, path)' = listed(c, path)
  BY <1>1, ListedFrame DEF Undisturbed
<1> QED
  BY <1>5, <1>6, SilentStep

(* ... and so does writing it, until the record is stored.                 *)
LEMMA WriteStep ==
  ASSUME Isolated, Undisturbed, Undisturbed', NEW p \in Process, Write(p)
  PROVE  [Promise!ANext]_(Promise!avars)
<1>0. TypeOK /\ IInv /\ FilesInPlace
  BY DEF Undisturbed, IInv
<1>1. Acts(p) /\ store' = store
  BY DEF Acts, Run, Write
<1>2. PICK file \in pending(p) :
        /\ Working(p) /\ current[p] \in Component /\ file \in Path /\ file \in planned(p)
        /\ decision[p][file] \in WRITES /\ Least(pending(p), file) /\ isOpen(p, current[p], file)
        /\ disk' = [disk EXCEPT ![current[p]][file] = artifacts(p)[file].digest]
        /\ written' = [written EXCEPT ![p] = @ \union {file}]
  BY <1>0, WholeWrite
<1>3. /\ pc[p] = "writing" /\ pc'[p] = "write" /\ current' = current /\ previous' = previous
      /\ decision' = decision
  BY <1>0 DEF Write, TypeOK
<1>4. ASSUME NEW c \in Component, NEW path \in Path PROVE Seen(p, c, path)' = Seen(p, c, path)
  <2>1. written'[p] = written[p] \union {file}
    BY <1>0, <1>2 DEF TypeOK
  <2>2. ~ isOpen(p, c, path)'
    BY <1>3 DEF isOpen
  <2>3. CASE c = current[p] /\ path = file
    <3>1. touched(p, c, path) /\ touched(p, c, path)'
      BY <1>2, <1>3, <2>1, <2>3 DEF touched, applying
    <3> QED
      BY <1>3, <3>1 DEF Seen, lastWritten
  <2>4. CASE ~ (c = current[p] /\ path = file)
    <3>1. disk'[c][path] = disk[c][path]
      BY <1>0, <1>2, <2>4 DEF TypeOK
    <3>2. ~ isOpen(p, c, path)
      <4>1. ASSUME isOpen(p, c, path) PROVE FALSE
        <5>1. c = current[p] /\ Least(pending(p), path) /\ pending(p) \subseteq Path
          BY <4>1 DEF isOpen, pending, planned
        <5> QED
          BY <1>2, <2>4, <5>1, LeastIsOne
      <4> QED
        BY <4>1
    <3>3. touched(p, c, path)' <=> touched(p, c, path)
      BY <1>3, <2>1, <2>2, <2>4, <3>2 DEF touched, applying
    <3> QED
      BY <1>3, <3>1, <3>3 DEF Seen, lastWritten
  <2> QED
    BY <2>3, <2>4
<1>5. \A c \in Component, path \in Path : before(c, path)' = before(c, path)
  BY <1>1, <1>4, Isolated, SeenByTheActor
<1>6. \A c \in Component, path \in Path : listed(c, path)' = listed(c, path)
  BY <1>1, ListedFrame DEF Undisturbed
<1> QED
  BY <1>5, <1>6, SilentStep

(* The previous record is superseded, and the new one opened, unseen.      *)
LEMMA RecordStep ==
  ASSUME Isolated, Undisturbed, Undisturbed', NEW p \in Process,
         OpenPrevious(p) \/ Supersede(p) \/ OpenRecord(p)
  PROVE  [Promise!ANext]_(Promise!avars)
<1>0. TypeOK
  BY DEF Undisturbed, IInv
<1>1. Acts(p)
  BY DEF Acts, Run
<1>2. /\ disk' = disk /\ current' = current /\ previous' = previous /\ decision' = decision
      /\ written' = written
      /\ pc[p] \in {"write", "superseding", "store"} /\ pc'[p] \in {"superseding", "store", "storing"}
  BY <1>0 DEF OpenPrevious, Supersede, OpenRecord, TypeOK, locals
<1>3. ASSUME NEW c \in Component, NEW path \in Path PROVE Seen(p, c, path)' = Seen(p, c, path)
  BY <1>2 DEF Seen, touched, applying, isOpen, lastWritten
<1>4. \A c \in Component, path \in Path : before(c, path)' = before(c, path)
  BY <1>1, <1>3, Isolated, SeenByTheActor
<1>5. \A c \in Component, path \in Path : listed(c, path)' = listed(c, path)
  <2>1. CASE Supersede(p)
    BY <2>1, SupersedeKeeps DEF Undisturbed
  <2>2. CASE OpenPrevious(p) \/ OpenRecord(p)
    <3>1. store' = store
      BY <2>2 DEF OpenPrevious, OpenRecord
    <3> QED
      BY <3>1, ListedFrame DEF Undisturbed
  <2> QED
    BY <2>1, <2>2
<1> QED
  BY <1>4, <1>5, SilentStep

(* When the record is stored, the files and the inventory change together, *)
(* as the promise says.                                                    *)
LEMMA StoreStep ==
  ASSUME Isolated, Undisturbed, Undisturbed', NEW p \in Process, StoreRecord(p),
         NEW c \in Component, c = current[p], NEW plan \in ArtifactPlan, plan = artifacts(p)
  PROVE  Promise!Materialize(c, plan)
<1>0. IInv /\ TypeOK /\ LocalOK(p) /\ Exclusive
  BY DEF Undisturbed, IInv, LocalsOK
<1>1. /\ pc[p] = "storing" /\ pc'[p] = "next" /\ Working(p) /\ Recording(p) /\ Acts(p)
      /\ undecided(p) = {} /\ applying(p, c) /\ disk' = disk
  BY <1>0 DEF StoreRecord, Working, Recording, LocalOK, TypeOK, Acts, Run, applying
<1>2. planned(p) \subseteq Path /\ \A path \in planned(p) : plan[path] \in PlannedArtifact
  BY <1>0, <1>1, ArtifactsType
<1>3. \A path \in Path : plan[path] # Null <=> path \in planned(p)
  BY DEF planned
<1>4. \A d \in Component, path \in Path :
        before(d, path) = Seen(p, d, path) /\ before(d, path)' = disk[d][path]
  <2> SUFFICES ASSUME NEW d \in Component, NEW path \in Path
               PROVE  before(d, path) = Seen(p, d, path) /\ before(d, path)' = disk[d][path]
    OBVIOUS
  <2>1. before(d, path) = Seen(p, d, path) /\ before(d, path)' = Seen(p, d, path)'
    BY <1>1, Isolated, SeenByTheActor
  <2>2. ~ touched(p, d, path)'
    BY <1>1 DEF touched, applying
  <2> QED
    BY <1>1, <2>1, <2>2 DEF Seen
<1>5. ASSUME NEW path \in Path, plan[path] # Null, plan[path].ownership = "COMPILER_OWNED",
              before(c, path) # Null
      PROVE  \/ before(c, path) = plan[path].digest
             \/ listed(c, path) # Null /\ before(c, path) = listed(c, path).digest
  BY <1>1, <1>3, <1>4, <1>5, AppliedIsVouched
<1>6. ASSUME NEW path \in planned(p) PROVE ~ mismatch(disk[c][path], plan[path])
  BY <1>1, <1>6 DEF Undisturbed, FilesInPlace, InPlace
<1>7. ASSUME NEW path \in Path
      PROVE  disk[c][path] =
                IF plan[path] = Null \/ (plan[path].ownership = "OWNER_SEEDED" /\ before(c, path) # Null)
                THEN before(c, path) ELSE plan[path].digest
  <2>1. CASE plan[path] = Null
    <3>1. ~ touched(p, c, path)
      BY <1>3, <2>1, TouchedIsWritten
    <3> QED
      BY <1>4, <2>1, <3>1 DEF Seen
  <2>2. CASE plan[path] # Null /\ plan[path].ownership = "OWNER_SEEDED"
    <3>1. CASE touched(p, c, path)
      <4>1. before(c, path) = Null
        BY <1>4, <2>2, <3>1, TouchedIsWritten
      <4>2. path \in written[p]
        BY <1>1, <3>1 DEF touched, isOpen
      <4>3. disk[c][path] = plan[path].digest
        BY <4>2 DEF Undisturbed, FilesInPlace, InPlace
      <4> QED
        BY <2>2, <4>1, <4>3
    <3>2. CASE ~ touched(p, c, path)
      <4>1. before(c, path) = disk[c][path] /\ disk[c][path] # Null
        BY <1>3, <1>4, <1>6, <2>2, <3>2 DEF Seen, mismatch
      <4> QED
        BY <2>2, <4>1
    <3> QED
      BY <3>1, <3>2
  <2>3. CASE plan[path] # Null /\ plan[path].ownership # "OWNER_SEEDED"
    BY <1>2, <1>3, <1>6, <2>3 DEF mismatch, PlannedArtifact, ArtifactOwnership
  <2> QED
    BY <2>1, <2>2, <2>3
<1>8. ASSUME NEW d \in Component, d # c, NEW path \in Path
      PROVE  before(d, path) = disk[d][path] /\ listed(d, path)' = listed(d, path)
  <2>1. before(d, path) = disk[d][path]
    BY <1>4, <1>8 DEF Seen, touched, applying
  <2>2. store'[d] = store[d]
    BY <1>0, <1>8 DEF StoreRecord, PutRecord, TypeOK
  <2> QED
    BY <2>1, <2>2, ListedFrame DEF Undisturbed
<1>9. ASSUME NEW path \in Path PROVE listed(c, path)' = plan[path]
  <2>1. PICK r \in Revision : isLatest(c, r)' /\ store'[c][r] = materializationRecord(p)
    BY <1>0, NewRecordIsLatest DEF Undisturbed
  <2>2. r \in 0 .. MaxRuns /\ r # 0
    BY BoundsAssumption DEF Revision
  <2>3. listed(c, path)' = IF materializationRecord(p).files[path] = Null THEN Null
                           ELSE [ownership |-> materializationRecord(p).files[path].ownership,
                                 digest |-> materializationRecord(p).files[path].digest]
    BY <2>1, <2>2 DEF Undisturbed, ListedSeen
  <2>4. CASE path \in planned(p)
    BY <1>0, <1>1, <1>2, <2>3, <2>4, NewRecordLists DEF PlannedArtifact
  <2>5. CASE path \notin planned(p)
    <3>1. materializationRecord(p).files[path] = Null
      BY <2>5 DEF materializationRecord
    <3> QED
      BY <1>3, <2>3, <2>5, <3>1
  <2> QED
    BY <2>4, <2>5
<1>10. Promise!Materialize(c, plan)
  <2> DEFINE files == [d \in Component |-> [path \in Path |-> before(d, path)]]
             inventory == [d \in Component |-> [path \in Path |-> listed(d, path)]]
             nextFiles == [d \in Component |-> [path \in Path |-> before(d, path)']]
             nextInventory == [d \in Component |-> [path \in Path |-> listed(d, path)']]
  <2>1. nextFiles = [files EXCEPT ![c] = [path \in Path |->
           IF plan[path] = Null \/ (plan[path].ownership = "OWNER_SEEDED" /\ files[c][path] # Null)
           THEN files[c][path] ELSE plan[path].digest]]
    <3> DEFINE dir == [path \in Path |->
                         IF plan[path] = Null \/ (plan[path].ownership = "OWNER_SEEDED" /\ files[c][path] # Null)
                         THEN files[c][path] ELSE plan[path].digest]
    <3>1. nextFiles[c] = dir
      <4>1. files[c] = [path \in Path |-> before(c, path)]
            /\ nextFiles[c] = [path \in Path |-> before(c, path)']
        OBVIOUS
      <4>2. \A path \in Path : files[c][path] = before(c, path)
        BY <4>1
      <4>3. ASSUME NEW path \in Path PROVE before(c, path)' = dir[path]
        <5>1. before(c, path)' = disk[c][path]
          BY <1>4
        <5> QED
          BY <1>7, <4>2, <5>1
      <4> HIDE DEF files, nextFiles
      <4> QED
        BY <4>1, <4>3
    <3>2. \A d \in Component : d # c => nextFiles[d] = files[d]
      BY <1>4, <1>8
    <3> HIDE DEF dir
    <3>3. nextFiles = [files EXCEPT ![c] = dir]
      BY <3>1, <3>2
    <3> QED
      BY <3>3 DEF dir
  <2>2. nextInventory = [inventory EXCEPT ![c] = plan]
    <3>1. nextInventory[c] = plan
      <4>1. \A path \in Path : nextInventory[c][path] = plan[path]
        BY <1>9
      <4>2. plan = [path \in Path |-> plan[path]]
        BY DEF ArtifactPlan
      <4> QED
        BY <4>1, <4>2
    <3>2. \A d \in Component : d # c => nextInventory[d] = inventory[d]
      BY <1>8
    <3> QED
      BY <3>1, <3>2
  <2>3. \A path \in Path :
          plan[path] # Null /\ plan[path].ownership = "COMPILER_OWNED" /\ files[c][path] # Null
            => files[c][path] \in {plan[path].digest} \union
                 (IF inventory[c][path] = Null THEN {} ELSE {inventory[c][path].digest})
    BY <1>5
  <2> QED
    BY <2>1, <2>2, <2>3
    DEF Promise!Materialize, Promise!Applicable, Promise!LeftAlone, Promise!Vouched
<1> QED
  BY <1>10

(* A run that dies shows the files it has written, and torn the one it was *)
(* writing.                                                                *)
LEMMA CrashStep ==
  ASSUME Isolated, Undisturbed, Undisturbed', NEW p \in Process, Crash(p),
         NEW c \in Component, applying(p, c), NEW plan \in ArtifactPlan, plan = artifacts(p)
  PROVE  Promise!Interrupted(c, plan)
<1>0. IInv /\ TypeOK /\ LocalOK(p)
  BY DEF Undisturbed, IInv, LocalsOK
<1>1. /\ pc'[p] = "failed" /\ disk' = disk /\ store' = store /\ Acts(p) /\ Working(p)
      /\ c = current[p]
  BY <1>0 DEF Crash, TypeOK, Acts, workspace, applying, Working
<1>2. \A path \in Path : plan[path] # Null <=> path \in planned(p)
  BY DEF planned
<1>3. \A d \in Component, path \in Path :
        before(d, path) = Seen(p, d, path) /\ before(d, path)' = disk[d][path]
  <2> SUFFICES ASSUME NEW d \in Component, NEW path \in Path
               PROVE  before(d, path) = Seen(p, d, path) /\ before(d, path)' = disk[d][path]
    OBVIOUS
  <2>1. before(d, path) = Seen(p, d, path) /\ before(d, path)' = Seen(p, d, path)'
    BY <1>1, Isolated, SeenByTheActor
  <2>2. ~ touched(p, d, path)'
    BY <1>1 DEF touched, applying
  <2> QED
    BY <1>1, <2>1, <2>2 DEF Seen
<1> DEFINE done == {path \in Path : touched(p, c, path)}
<1>4. PICK torn \in Path \union {Null} :
        \A path \in Path : touched(p, c, path) =>
          disk[c][path] = IF path = torn THEN Torn ELSE plan[path].digest
  <2>1. ASSUME NEW path \in Path, path \in written[p]
        PROVE  disk[c][path] = plan[path].digest /\ ~ isOpen(p, c, path)
    BY <1>1, <2>1 DEF Undisturbed, FilesInPlace, InPlace, isOpen, Least, pending
  <2>2. ASSUME NEW path \in Path, isOpen(p, c, path) PROVE disk[c][path] = Torn
    BY <1>1, <2>2 DEF Undisturbed, FilesInPlace, InPlace
  <2>3. CASE \E file \in Path : isOpen(p, c, file)
    <3>1. PICK file \in Path : isOpen(p, c, file)
      BY <2>3
    <3>2. ASSUME NEW path \in Path, isOpen(p, c, path) PROVE path = file
      <4>1. Least(pending(p), path) /\ Least(pending(p), file) /\ pending(p) \subseteq Path
        BY <3>1, <3>2 DEF isOpen, pending, planned
      <4> QED
        BY <4>1, LeastIsOne
    <3> WITNESS file \in Path \union {Null}
    <3> QED
      BY <2>1, <2>2, <3>1, <3>2 DEF touched
  <2>4. CASE ~ \E file \in Path : isOpen(p, c, file)
    <3> WITNESS Null \in Path \union {Null}
    <3> QED
      BY <2>1, <2>4, NullAssumption DEF touched
  <2> QED
    BY <2>3, <2>4
<1>5. ASSUME NEW path \in Path, touched(p, c, path)
      PROVE  plan[path] # Null /\ ~ (plan[path].ownership = "OWNER_SEEDED" /\ before(c, path) # Null)
  BY <1>2, <1>3, <1>5, TouchedIsWritten
<1>6. ASSUME NEW path \in Path
      PROVE  disk[c][path] = IF path \in done
                             THEN IF path = torn THEN Torn ELSE plan[path].digest
                             ELSE before(c, path)
  BY <1>3, <1>4, <1>6 DEF Seen
<1>7. ASSUME NEW d \in Component, d # c, NEW path \in Path PROVE before(d, path) = disk[d][path]
  BY <1>1, <1>3, <1>7 DEF Seen, touched, applying
<1>8. \A d \in Component, path \in Path : listed(d, path)' = listed(d, path)
  BY <1>1, ListedFrame DEF Undisturbed
<1>9. ASSUME NEW path \in Path, plan[path] # Null, plan[path].ownership = "COMPILER_OWNED",
              before(c, path) # Null
      PROVE  \/ before(c, path) = plan[path].digest
             \/ listed(c, path) # Null /\ before(c, path) = listed(c, path).digest
  BY <1>1, <1>2, <1>3, <1>9, AppliedIsVouched
<1> HIDE DEF done
<1> DEFINE files == [d \in Component |-> [path \in Path |-> before(d, path)]]
           inventory == [d \in Component |-> [path \in Path |-> listed(d, path)]]
           nextFiles == [d \in Component |-> [path \in Path |-> before(d, path)']]
           nextInventory == [d \in Component |-> [path \in Path |-> listed(d, path)']]
           dir == [path \in Path |-> IF path \in done
                                     THEN IF path = torn THEN Torn ELSE plan[path].digest
                                     ELSE files[c][path]]
<1>10. nextFiles = [files EXCEPT ![c] = dir]
  <2>1. nextFiles[c] = dir
    <3>1. files[c] = [path \in Path |-> before(c, path)]
          /\ nextFiles[c] = [path \in Path |-> before(c, path)']
      OBVIOUS
    <3>2. \A path \in Path : files[c][path] = before(c, path)
      BY <3>1
    <3>3. ASSUME NEW path \in Path PROVE before(c, path)' = dir[path]
      <4>1. before(c, path)' = disk[c][path]
        BY <1>3
      <4> QED
        BY <1>6, <3>2, <4>1
    <3> HIDE DEF files, nextFiles
    <3> QED
      BY <3>1, <3>3
  <2>2. \A d \in Component : d # c => nextFiles[d] = files[d]
    BY <1>3, <1>7
  <2> HIDE DEF dir
  <2> QED
    BY <2>1, <2>2
<1>11. nextInventory = inventory
  BY <1>8
<1>12. done \subseteq {path \in Path :
         ~ (plan[path] = Null \/ (plan[path].ownership = "OWNER_SEEDED" /\ files[c][path] # Null))}
  BY <1>5 DEF done
<1>13. \A path \in Path :
         plan[path] # Null /\ plan[path].ownership = "COMPILER_OWNED" /\ files[c][path] # Null
           => files[c][path] \in {plan[path].digest} \union
                (IF inventory[c][path] = Null THEN {} ELSE {inventory[c][path].digest})
  BY <1>9
<1>14. \E t \in Path \union {Null}, D \in SUBSET {path \in Path :
          ~ (plan[path] = Null \/ (plan[path].ownership = "OWNER_SEEDED" /\ files[c][path] # Null))} :
         nextFiles = [files EXCEPT ![c] = [path \in Path |->
           IF path \in D THEN IF path = t THEN Torn ELSE plan[path].digest ELSE files[c][path]]]
  <2> HIDE DEF files, nextFiles
  <2> QED
    BY <1>10, <1>12
<1> QED
  BY <1>11, <1>13, <1>14
  DEF Promise!Interrupted, Promise!Applicable, Promise!LeftAlone, Promise!Vouched

(* Between runs the owner edits what the promise sees.                     *)
LEMMA EditStep ==
  ASSUME Isolated, Undisturbed, Undisturbed',
         NEW c \in Component, NEW file \in Path, NEW content \in Content \union {Null},
         OwnerEdit(c, file, content)
  PROVE  Promise!Edit(c, file, content)
<1>0. TypeOK
  BY DEF Undisturbed, IInv
<1>1. disk' = [disk EXCEPT ![c][file] = content] /\ store' = store /\ pc' = pc
  BY DEF OwnerEdit
<1>2. \A o \in Process : ~ Live(o)
  BY Isolated DEF OwnerEdit, Quiet
<1>3. \A o \in Process, d \in Component, path \in Path :
        ~ touched(o, d, path) /\ ~ touched(o, d, path)'
  BY <1>1, <1>2 DEF touched, applying, Live
<1>4. FilesSeen /\ FilesSeen'
  BY DEF Undisturbed
<1>5. \A d \in Component, path \in Path :
        before(d, path) = disk[d][path] /\ before(d, path)' = disk'[d][path]
  BY <1>3, <1>4 DEF FilesSeen
<1>6. \A d \in Component, path \in Path : listed(d, path)' = listed(d, path)
  BY <1>1, ListedFrame DEF Undisturbed
<1>7. \A d \in Component, path \in Path :
        before(d, path)' = IF d = c /\ path = file THEN content ELSE before(d, path)
  BY <1>0, <1>1, <1>5 DEF TypeOK
<1>8. [d \in Component |-> [path \in Path |-> before(d, path)']] =
        [[d \in Component |-> [path \in Path |-> before(d, path)]] EXCEPT ![c][file] = content]
  BY <1>7
<1>9. [d \in Component |-> [path \in Path |-> listed(d, path)']] =
        [d \in Component |-> [path \in Path |-> listed(d, path)]]
  BY <1>6
<1> QED
  BY <1>8, <1>9 DEF Promise!Edit

(* A process that applies a plan applies one of the plans.                 *)
LEMMA AppliedPlan ==
  ASSUME IInv, NEW p \in Process, Working(p)
  PROVE  \E c \in Component, plan \in ArtifactPlan :
           /\ c = current[p] /\ plan = artifacts(p)
           /\ plan \in {Plan[qc[1]][qc[2]] : qc \in {d \in Request \X Component : Plan[d[1]][d[2]] # Null}}
<1>1. /\ request[p] \in Request /\ current[p] \in Component
      /\ artifacts(p) \in ArtifactPlan /\ artifacts(p) # Null
  BY ArtifactsType, NullAssumption
<1>2. PICK c \in Component : c = current[p]
  BY <1>1
<1>3. PICK plan \in ArtifactPlan : plan = artifacts(p)
  BY <1>1
<1> DEFINE qc == <<request[p], c>>
<1>4. qc \in Request \X Component /\ Plan[qc[1]][qc[2]] = plan /\ plan # Null
  BY <1>1, <1>2, <1>3 DEF artifacts
<1> QED
  BY <1>2, <1>3, <1>4

(* One run at a time, whatever the crashes, the torn files and the edits   *)
(* between the runs, Materializer implements AtomicWorkspace.              *)
THEOREM MaterializerImplementsPromise ==
  ASSUME Isolated
  PROVE  Spec => ImplementsPromise
<1>1. Init => Promise!AInit
  <2> SUFFICES ASSUME Init PROVE Promise!AInit
    OBVIOUS
  <2>1. \A c \in Component, path \in Path : before(c, path) = Null
    <3>1. \A p \in Process, c \in Component, path \in Path : ~ touched(p, c, path)
      BY DEF Init, touched, applying
    <3> QED
      BY <3>1 DEF Init, before
  <2>2. ASSUME NEW c \in Component, NEW path \in Path PROVE listed(c, path) = Null
    <3>1. 0 \in 0 .. MaxRuns /\ isLatest(c, 0)
      BY BoundsAssumption DEF Init, isLatest
    <3> QED
      BY <3>1, InventoryIsSeen DEF ListedSeen
  <2> QED
    BY <2>1, <2>2 DEF Promise!AInit
<1>2. Undisturbed /\ Undisturbed' /\ [Next]_vars => [Promise!ANext]_(Promise!avars)
  <2> SUFFICES ASSUME Undisturbed, Undisturbed', [Next]_vars
               PROVE  [Promise!ANext]_(Promise!avars)
    OBVIOUS
  <2>0. IInv
    BY DEF Undisturbed
  <2>1. ASSUME NEW p \in Process, NEW q \in Request, Begin(p, q)
        PROVE  [Promise!ANext]_(Promise!avars)
    BY <2>1, PlainStep, Isolated
  <2>2. ASSUME NEW p \in Process, Run(p)
        PROVE  [Promise!ANext]_(Promise!avars)
    <3>1. CASE ReadInventory(p) \/ ReadFails(p) \/ Decide(p) \/ Conflict(p) \/ Apply(p) \/ Finish(p)
      BY <3>1, PlainStep, Isolated
    <3>2. CASE OpenFile(p)
      BY <3>2, OpenStep, Isolated
    <3>3. CASE Write(p)
      BY <3>3, WriteStep, Isolated
    <3>4. CASE OpenPrevious(p) \/ Supersede(p) \/ OpenRecord(p)
      BY <3>4, RecordStep, Isolated
    <3>5. CASE StoreRecord(p)
      <4>1. Working(p)
        BY <3>5 DEF StoreRecord, Working
      <4>2. PICK c \in Component, plan \in ArtifactPlan :
              /\ c = current[p] /\ plan = artifacts(p)
              /\ plan \in {Plan[qc[1]][qc[2]] : qc \in {d \in Request \X Component : Plan[d[1]][d[2]] # Null}}
        BY <2>0, <4>1, AppliedPlan
      <4>3. Promise!Materialize(c, plan)
        BY <3>5, <4>2, StoreStep, Isolated
      <4> QED
        BY <4>2, <4>3 DEF Promise!ANext
    <3> QED
      BY <2>2, <3>1, <3>2, <3>3, <3>4, <3>5 DEF Run
  <2>3. ASSUME NEW p \in Process, Crash(p)
        PROVE  [Promise!ANext]_(Promise!avars)
    <3>1. CASE \A c \in Component : ~ applying(p, c)
      BY <2>3, <3>1, PlainStep, Isolated
    <3>2. CASE \E c \in Component : applying(p, c)
      <4>1. PICK c \in Component : applying(p, c)
        BY <3>2
      <4>2. Working(p) /\ c = current[p]
        BY <4>1 DEF applying, Working
      <4>3. PICK plan \in ArtifactPlan :
              /\ plan = artifacts(p)
              /\ plan \in {Plan[qc[1]][qc[2]] : qc \in {d \in Request \X Component : Plan[d[1]][d[2]] # Null}}
        BY <2>0, <4>2, AppliedPlan
      <4>4. Promise!Interrupted(c, plan)
        BY <2>3, <4>1, <4>3, CrashStep, Isolated
      <4> QED
        BY <4>3, <4>4 DEF Promise!ANext
    <3> QED
      BY <3>1, <3>2
  <2>4. ASSUME NEW c \in Component, NEW path \in Path, NEW content \in Content \union {Null},
               OwnerEdit(c, path, content)
        PROVE  [Promise!ANext]_(Promise!avars)
    <3>1. Promise!Edit(c, path, content)
      BY <2>4, EditStep, Isolated
    <3> QED
      BY <3>1 DEF Promise!ANext
  <2>5. CASE UNCHANGED vars
    <3>1. \A c \in Component, path \in Path : listed(c, path)' = listed(c, path)
      BY <2>5, ListedFrame DEF Undisturbed, vars, workspace
    <3>2. \A c \in Component, path \in Path : before(c, path)' = before(c, path)
      BY <2>5 DEF vars, workspace, locals, before, touched, applying, isOpen, pending, planned,
         artifacts, lastWritten
    <3> QED
      BY <3>1, <3>2, SilentStep
  <2> QED
    BY <2>1, <2>2, <2>3, <2>4, <2>5 DEF Next
<1>3. Spec => []Undisturbed
  BY TypeCorrect, RunsExclude, DecisionsStayCurrent, PreviousStaysLatest, FilesStayInPlace,
     RecordsAreSound, StoresHaveALatest, FilesAreSeen, InventoryIsSeen, Isolated,
     PTL DEF Undisturbed
<1> QED
  BY <1>1, <1>2, <1>3, PTL DEF Spec, ImplementsPromise, Promise!ASpec

=============================================================================
