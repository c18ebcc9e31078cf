---------------------------- MODULE Materializer ----------------------------
(***************************************************************************)
(* `materialize` of engine/materializer/src/materialize.ts, as the command *)
(* line runs it: every process is one invocation of `foundation            *)
(* materialize` on the same workspace.  Each file system call that another *)
(* process or the owner can observe is one step, so runs, owner edits and  *)
(* crashes interleave between any two of them; writeFileSync is two steps, *)
(* the truncation of the file and its writing, and whoever reads between   *)
(* them finds the file torn.                                               *)
(*                                                                         *)
(* A component directory is a function from paths to contents and a record *)
(* store: one file per revision under .foundation/records/.                *)
(***************************************************************************)
EXTENDS Ownership

CONSTANTS
  Component,     (* component ids, numbered in the order of the plan       *)
  Adapter,       (* adapter ids                                            *)
  Version,       (* adapter versions                                       *)
  Request,       (* invocations the operator may make                      *)
  PlanResult,    (* what the kernel and the host give to each invocation   *)
  Process,       (* concurrent invocations                                 *)
  Torn,          (* a file truncated, or holding bytes of two writers      *)
  Isolated,      (* TRUE: one run at a time, the owner edits between runs  *)
  MaxRuns,       (* bound on the invocations, hence on revisions           *)
  MaxEdits,      (* bound on the owner's edits                             *)
  MaxCrashes     (* bound on the crashes                                   *)

(* A step of the execution plan (kernel/compiler/src/plan.ts), an adapter  *)
(* of the extension host, and what one invocation works from.              *)
Step == [action : {"MATERIALIZE", "CONNECT_EXTERNAL"}, adapter : Adapter,
         version : Version, class : OwnershipClass]
Loaded == [version : Version, rejects : SUBSET Component,
           renders : [Component -> Seq(Artifact)]]
PlanResults == [status : {"PLANNED", "PARTIAL", "INVALID"}, expired : BOOLEAN,
                steps : [Component -> Step \union {Null}],
                host : [Adapter -> Loaded \union {Null}]]

ASSUME ComponentAssumption == Component \subseteq Nat /\ Null \notin Component
ASSUME BoundsAssumption == MaxRuns \in Nat /\ MaxEdits \in Nat /\ MaxCrashes \in Nat
ASSUME FlagsAssumption == Isolated \in BOOLEAN
ASSUME PlanResultAssumption == PlanResult \in [Request -> PlanResults] /\ Null \notin Request

(***************************************************************************)
(* PLAN of the adapters (planMaterialization), without I/O.                *)
(***************************************************************************)
materializes(result, c) ==
  result.steps[c] # Null /\ result.steps[c].action = "MATERIALIZE"

isLoaded(result, c) ==
  LET step == result.steps[c]
  IN  result.host[step.adapter] # Null /\ result.host[step.adapter].version = step.version

rejects(result, c) == c \in result.host[result.steps[c].adapter].rejects

rendered(result, c) == result.host[result.steps[c].adapter].renders[c]

planMaterialization(result) ==
  [c \in Component |->
     IF /\ materializes(result, c)
        /\ isLoaded(result, c)
        /\ ~ rejects(result, c)
        /\ ~ protocolViolation(rendered(result, c))
     THEN planArtifacts(result.steps[c].class, rendered(result, c))
     ELSE Null]

(* The diagnostics of planMaterialization, as <<code, component>>.         *)
planDiagnostics(result) ==
  LET steps == {c \in Component : materializes(result, c)}
      loaded == {c \in steps : isLoaded(result, c)}
      accepted == {c \in loaded : ~ rejects(result, c)}
  IN  {<<"MATERIALIZE_ADAPTER_MISSING", c>> : c \in steps \ loaded}
      \union {<<"ADAPTER_INTENT_REJECTED", c>> : c \in loaded \ accepted}
      \union {<<"ADAPTER_CONTRACT_VIOLATION", c>> :
                c \in {d \in accepted : protocolViolation(rendered(result, d))}}

Plan == [q \in Request |-> planMaterialization(PlanResult[q])]

(* materialize is not called when the compilation is INVALID, and writes   *)
(* nothing when the plan relies on an expired waiver.                      *)
refused(q) == PlanResult[q].status = "INVALID" \/ PlanResult[q].expired

plannedComponents(q) ==
  IF refused(q) THEN {} ELSE {c \in Component : Plan[q][c] # Null}

(***************************************************************************)
(* Records (A8).  A pin is a reference with the content digest, which      *)
(* leaves the status out (kernel/contracts/src/identity.ts).  Of the       *)
(* content, the request stands for definition, closure, plan and adapter;  *)
(* executedAt, cut to the second by the command line, does not tell two    *)
(* runs apart reliably and is left out.                                    *)
(***************************************************************************)
Revision == 1 .. MaxRuns
RecordedFile == [ownership : ArtifactOwnership, digest : Content, decision : WriteDecision]
Inventory == [Path -> RecordedFile \union {Null}]
Pin == [revision : Revision, request : Request, files : Inventory]
Record == [revision : Revision, status : {"VALID", "SUPERSEDED"}, request : Request,
           files : Inventory, supersedes : Pin \union {Null}]

ASSUME RecordAssumption ==
  /\ Null \notin Record /\ Null \notin RecordedFile /\ Null \notin Pin
  /\ Torn \notin Content /\ Torn # Null

(* Faulty variant: the digest covers the status.                           *)
pinnedRefWithStatus(record) ==
  [revision |-> record.revision, status |-> record.status, request |-> record.request,
   files |-> record.files]

pinnedRef(record) ==
  [revision |-> record.revision, request |-> record.request, files |-> record.files]

superseded(record) == [record EXCEPT !.status = "SUPERSEDED"]

Undecided == "UNDECIDED"

VARIABLES
  disk,         (* disk[c][path]: content of the file, Null when absent    *)
  store,        (* store[c][r]: the record last written whole at revision r *)
  broken,       (* broken[c]: revisions whose record file does not parse   *)
                (* now, truncated or holding bytes of two writers          *)
  pc,           (* where each process is                                   *)
  request,      (* what it was invoked for                                 *)
  todo,         (* planned components it has not started                   *)
  current,      (* the component it works on                               *)
  previous,     (* the latest record it read for that component            *)
  decision,     (* its decisions, per path                                 *)
  written,      (* the files it has written                                *)
  outcome,      (* the outcomes of the records it returns                  *)
  author,       (* history: who last changed each file                     *)
  interrupted,  (* history: requests whose run on c died since its last    *)
                (* stored record                                           *)
  raced,        (* history: files the owner changed after the process had  *)
                (* decided on them                                         *)
  runs, edits, crashes

workspace == <<disk, store, broken>>
locals == <<request, todo, current, previous, decision, written, outcome, raced>>
history == <<author, interrupted>>
bounds == <<runs, edits, crashes>>
vars == <<workspace, pc, locals, history, bounds>>

Live(p) == pc[p] \notin {"idle", "done", "failed"}
Quiet == \A p \in Process : ~ Live(p)

Least(S, x) == x \in S /\ \A y \in S : x <= y

(* readRecords sorts by revision and latestRecord takes the last one,      *)
(* whatever its status; revision 0 stands for an empty store.              *)
isLatest(c, r) ==
  /\ r = 0 \/ (r \in Revision /\ store[c][r] # Null)
  /\ \A s \in Revision : s > r => store[c][s] = Null

artifacts(p) == Plan[request[p]][current[p]]
planned(p) == {path \in Path : artifacts(p)[path] # Null}
undecided(p) == {path \in planned(p) : decision[p][path] = Undecided}
pending(p) == {path \in planned(p) : decision[p][path] \in WRITES} \ written[p]

(* The file a process has truncated and not written yet.                   *)
isOpen(p, c, path) == pc[p] = "writing" /\ current[p] = c /\ Least(pending(p), path)

lastWritten(p, path) ==
  IF previous[p] # Null /\ previous[p].files[path] # Null
  THEN previous[p].files[path].digest ELSE Null

baseRevision(p) == IF previous[p] = Null THEN 0 ELSE previous[p].revision

(* Faulty variants: every record is revision 1; only the files that were   *)
(* written are listed.                                                     *)
materializationRecordFirst(p) ==
  [revision |-> 1,
   status |-> "VALID",
   request |-> request[p],
   files |-> [path \in Path |->
                IF path \in planned(p)
                THEN [ownership |-> artifacts(p)[path].ownership,
                      digest |-> artifacts(p)[path].digest,
                      decision |-> decision[p][path]]
                ELSE Null],
   supersedes |-> IF previous[p] = Null THEN Null ELSE pinnedRef(previous[p])]

(* The record of what is planned for the component, after the last one.    *)
materializationRecord(p) ==
  [revision |-> baseRevision(p) + 1,
   status |-> "VALID",
   request |-> request[p],
   files |-> [path \in Path |->
                IF path \in planned(p)
                THEN [ownership |-> artifacts(p)[path].ownership,
                      digest |-> artifacts(p)[path].digest,
                      decision |-> decision[p][path]]
                ELSE Null],
   supersedes |-> IF previous[p] = Null THEN Null ELSE pinnedRef(previous[p])]

Init ==
  /\ disk = [c \in Component |-> [path \in Path |-> Null]]
  /\ store = [c \in Component |-> [r \in Revision |-> Null]]
  /\ broken = [c \in Component |-> {}]
  /\ pc = [p \in Process |-> "idle"]
  /\ request = [p \in Process |-> Null]
  /\ todo = [p \in Process |-> {}]
  /\ current = [p \in Process |-> Null]
  /\ previous = [p \in Process |-> Null]
  /\ decision = [p \in Process |-> [path \in Path |-> Undecided]]
  /\ written = [p \in Process |-> {}]
  /\ raced = [p \in Process |-> {}]
  /\ outcome = [p \in Process |-> [c \in Component |-> "NONE"]]
  /\ author = [c \in Component |-> [path \in Path |-> "none"]]
  /\ interrupted = [c \in Component |-> {}]
  /\ runs = 0 /\ edits = 0 /\ crashes = 0

(***************************************************************************)
(* The steps of one invocation.                                            *)
(***************************************************************************)

(* The locals of the component loop's body are gone when it is left.       *)
Leave(p) ==
  /\ current' = [current EXCEPT ![p] = Null]
  /\ previous' = [previous EXCEPT ![p] = Null]
  /\ decision' = [decision EXCEPT ![p] = [path \in Path |-> Undecided]]
  /\ written' = [written EXCEPT ![p] = {}]
  /\ raced' = [raced EXCEPT ![p] = {}]

(* `foundation materialize` is invoked; the compilation and the PLAN of    *)
(* the adapters do no I/O in the workspace.                                *)
Begin(p, q) ==
  /\ ~ Live(p)
  /\ Isolated => Quiet
  /\ runs < MaxRuns
  /\ runs' = runs + 1
  /\ pc' = [pc EXCEPT ![p] = "next"]
  /\ request' = [request EXCEPT ![p] = q]
  /\ todo' = [todo EXCEPT ![p] = plannedComponents(q)]
  /\ outcome' = [outcome EXCEPT ![p] = [c \in Component |-> "NONE"]]
  /\ UNCHANGED <<workspace, current, previous, decision, written, raced, history, edits, crashes>>

(* Faulty variant: the loop does not advance.                              *)
ReadInventoryAgain(p) ==
  /\ pc[p] = "next"
  /\ \E c \in todo[p], r \in 0 .. MaxRuns :
       /\ Least(todo[p], c)
       /\ broken[c] = {}
       /\ isLatest(c, r)
       /\ r < MaxRuns
       /\ current' = [current EXCEPT ![p] = c]
       /\ previous' = [previous EXCEPT ![p] = IF r = 0 THEN Null ELSE store[c][r]]
  /\ pc' = [pc EXCEPT ![p] = "decide"]
  /\ UNCHANGED <<workspace, request, todo, decision, written, outcome, raced, history, bounds>>

(* Next component: latestRecord reads the inventory.                       *)
ReadInventory(p) ==
  /\ pc[p] = "next"
  /\ \E c \in todo[p], r \in 0 .. MaxRuns :
       /\ Least(todo[p], c)
       /\ broken[c] = {}
       /\ isLatest(c, r)
       /\ r < MaxRuns
       /\ current' = [current EXCEPT ![p] = c]
       /\ previous' = [previous EXCEPT ![p] = IF r = 0 THEN Null ELSE store[c][r]]
       /\ todo' = [todo EXCEPT ![p] = @ \ {c}]
  /\ pc' = [pc EXCEPT ![p] = "decide"]
  /\ UNCHANGED <<workspace, request, decision, written, outcome, raced, history, bounds>>

(* readRecords parses every record file: one that is torn, by a run that   *)
(* died or by one that is writing it now, makes it throw, and the whole    *)
(* invocation ends there.                                                  *)
ReadFails(p) ==
  /\ pc[p] = "next"
  /\ \E c \in todo[p] : Least(todo[p], c) /\ broken[c] # {}
  /\ pc' = [pc EXCEPT ![p] = "failed"]
  /\ UNCHANGED <<workspace, locals, history, bounds>>

(* Faulty variant: the inventory is believed instead of the file.          *)
DecideOnInventory(p) ==
  /\ pc[p] = "decide"
  /\ \E path \in undecided(p) :
       /\ Least(undecided(p), path)
       /\ decision' = [decision EXCEPT ![p][path] =
            decideWrite(artifacts(p)[path], lastWritten(p, path), lastWritten(p, path))]
  /\ UNCHANGED <<workspace, pc, request, todo, current, previous, written, outcome, raced, history, bounds>>

(* One file of plan.artifacts.map: read what exists, decide.               *)
Decide(p) ==
  /\ pc[p] = "decide"
  /\ \E path \in undecided(p) :
       /\ Least(undecided(p), path)
       /\ decision' = [decision EXCEPT ![p][path] =
            decideWrite(artifacts(p)[path], disk[current[p]][path], lastWritten(p, path))]
  /\ UNCHANGED <<workspace, pc, request, todo, current, previous, written, outcome, raced, history, bounds>>

conflicts(p) == {path \in planned(p) : decision[p][path] = "CONFLICT"}

(* Every file is decided: a conflict anywhere, and nothing is written.     *)
Conflict(p) ==
  /\ pc[p] = "decide" /\ undecided(p) = {}
  /\ conflicts(p) # {}
  /\ outcome' = [outcome EXCEPT ![p][current[p]] = "CONFLICT"]
  /\ pc' = [pc EXCEPT ![p] = "next"]
  /\ Leave(p)
  /\ UNCHANGED <<workspace, request, todo, history, bounds>>

(* Faulty variant: the files without a conflict are applied all the same.  *)
ApplyDespiteConflict(p) ==
  /\ pc[p] = "decide" /\ undecided(p) = {}
  /\ pc' = [pc EXCEPT ![p] = "write"]
  /\ UNCHANGED <<workspace, locals, history, bounds>>

(* Faulty variant: the record is stored and the files are not written.     *)
ApplyRecordOnly(p) ==
  /\ pc[p] = "decide" /\ undecided(p) = {}
  /\ conflicts(p) = {}
  /\ pc' = [pc EXCEPT ![p] = "store"]
  /\ UNCHANGED <<workspace, locals, history, bounds>>

Apply(p) ==
  /\ pc[p] = "decide" /\ undecided(p) = {}
  /\ conflicts(p) = {}
  /\ pc' = [pc EXCEPT ![p] = "write"]
  /\ UNCHANGED <<workspace, locals, history, bounds>>

Put(p, path, content) ==
  /\ disk' = [disk EXCEPT ![current[p]][path] = content]
  /\ author' = [author EXCEPT ![current[p]][path] = "compiler"]

(* writeFileSync of one file, in path order: it is opened, which truncates *)
(* or creates it, and then written.                                        *)
OpenFile(p) ==
  /\ pc[p] = "write"
  /\ \E path \in pending(p) : Least(pending(p), path) /\ Put(p, path, Torn)
  /\ pc' = [pc EXCEPT ![p] = "writing"]
  /\ UNCHANGED <<store, broken, locals, interrupted, bounds>>

(* What the file holds now that the process has written its bytes.  One    *)
(* that somebody else wrote, replaced or removed since it was opened may   *)
(* hold bytes of both, or be another file.                                 *)
settled(now, digest) ==
  IF now \in {Torn, digest} THEN {digest}
  ELSE IF now = Null THEN {Null} ELSE {digest, Torn, now}

Write(p) ==
  /\ pc[p] = "writing"
  /\ \E path \in pending(p) :
       /\ Least(pending(p), path)
       /\ LET digest == artifacts(p)[path].digest
          IN  \E content \in settled(disk[current[p]][path], digest) :
                IF content = digest THEN Put(p, path, digest)
                ELSE /\ disk' = [disk EXCEPT ![current[p]][path] = content]
                     /\ UNCHANGED author
       /\ written' = [written EXCEPT ![p] = @ \union {path}]
  /\ pc' = [pc EXCEPT ![p] = "write"]
  /\ UNCHANGED <<store, broken, request, todo, current, previous, decision, outcome, raced,
                 interrupted, bounds>>

OpenRecordFile(c, r) == broken' = [broken EXCEPT ![c] = @ \union {r}]

(* A record file is whole again, unless another run has written a record   *)
(* of its own there since it was opened: then it may hold bytes of both.   *)
PutRecord(c, r, record) ==
  \/ /\ store' = [store EXCEPT ![c][r] = record]
     /\ broken' = [broken EXCEPT ![c] = @ \ {r}]
  \/ /\ r \notin broken[c] /\ store[c][r] # record
     /\ OpenRecordFile(c, r)
     /\ UNCHANGED store

(* The files are written.  The previous record, if there is one, is opened *)
(* and rewritten as SUPERSEDED.                                            *)
OpenPrevious(p) ==
  /\ pc[p] = "write" /\ pending(p) = {}
  /\ IF previous[p] = Null
     THEN pc' = [pc EXCEPT ![p] = "store"] /\ UNCHANGED broken
     ELSE /\ pc' = [pc EXCEPT ![p] = "superseding"]
          /\ OpenRecordFile(current[p], previous[p].revision)
  /\ UNCHANGED <<disk, store, locals, history, bounds>>

Supersede(p) ==
  /\ pc[p] = "superseding"
  /\ PutRecord(current[p], previous[p].revision, superseded(previous[p]))
  /\ pc' = [pc EXCEPT ![p] = "store"]
  /\ UNCHANGED <<disk, locals, history, bounds>>

(* The new record is opened, under the revision after the previous one,    *)
(* and written.                                                            *)
OpenRecord(p) ==
  /\ pc[p] = "store"
  /\ OpenRecordFile(current[p], materializationRecord(p).revision)
  /\ pc' = [pc EXCEPT ![p] = "storing"]
  /\ UNCHANGED <<disk, store, locals, history, bounds>>

StoreRecord(p) ==
  /\ pc[p] = "storing"
  /\ PutRecord(current[p], materializationRecord(p).revision, materializationRecord(p))
  /\ outcome' = [outcome EXCEPT ![p][current[p]] = "APPLIED"]
  /\ interrupted' = [interrupted EXCEPT ![current[p]] = {}]
  /\ pc' = [pc EXCEPT ![p] = "next"]
  /\ Leave(p)
  /\ UNCHANGED <<disk, request, todo, author, bounds>>

Finish(p) ==
  /\ pc[p] = "next" /\ todo[p] = {}
  /\ pc' = [pc EXCEPT ![p] = "done"]
  /\ UNCHANGED <<workspace, locals, history, bounds>>

(***************************************************************************)
(* The environment: the process may be killed, or a call may throw, before *)
(* any step; the owner edits, creates and deletes files.                   *)
(***************************************************************************)
Crash(p) ==
  /\ Live(p)
  /\ crashes < MaxCrashes
  /\ crashes' = crashes + 1
  /\ pc' = [pc EXCEPT ![p] = "failed"]
  /\ todo' = [todo EXCEPT ![p] = {}]
  /\ interrupted' = IF current[p] = Null THEN interrupted
                    ELSE [interrupted EXCEPT ![current[p]] = @ \union {request[p]}]
  /\ Leave(p)
  /\ UNCHANGED <<workspace, request, outcome, author, runs, edits>>

OwnerEdit(c, path, content) ==
  /\ Isolated => Quiet
  /\ edits < MaxEdits
  /\ disk[c][path] # content
  /\ disk' = [disk EXCEPT ![c][path] = content]
  /\ author' = [author EXCEPT ![c][path] = "owner"]
  /\ raced' = [p \in Process |->
       IF current[p] = c /\ decision[p][path] # Undecided THEN raced[p] \union {path} ELSE raced[p]]
  /\ edits' = edits + 1
  /\ UNCHANGED <<store, broken, pc, request, todo, current, previous, decision, written, outcome,
                 interrupted, runs, crashes>>

Run(p) ==
  \/ ReadInventory(p) \/ ReadFails(p) \/ Decide(p) \/ Conflict(p) \/ Apply(p)
  \/ OpenFile(p) \/ Write(p) \/ OpenPrevious(p) \/ Supersede(p) \/ OpenRecord(p) \/ StoreRecord(p)
  \/ Finish(p)

Next ==
  \/ \E p \in Process : Run(p)
  \/ \E p \in Process, q \in Request : Begin(p, q)
  \/ \E p \in Process : Crash(p)
  \/ \E c \in Component, path \in Path, content \in Content \union {Null} :
       OwnerEdit(c, path, content)

Spec == Init /\ [][Next]_vars

(* A started invocation is scheduled by the operating system until it ends *)
(* or dies; nobody is obliged to invoke, to edit or to crash.              *)
FairSpec == Spec /\ \A p \in Process : WF_vars(Run(p))

(***************************************************************************)
(* What a finished invocation reports (surfaces/cli/src/cli.ts) and the    *)
(* rules a record must satisfy.                                            *)
(***************************************************************************)
ErrorCodes == {"ADAPTER_CONTRACT_VIOLATION", "MATERIALIZE_CONFLICT", "MATERIALIZE_WAIVER_EXPIRED"}

diagnostics(p) ==
  IF PlanResult[request[p]].expired THEN {<<"MATERIALIZE_WAIVER_EXPIRED", Null>>}
  ELSE planDiagnostics(PlanResult[request[p]])
       \union {<<"MATERIALIZE_CONFLICT", c>> : c \in {d \in Component : outcome[p][d] = "CONFLICT"}}

status(p) ==
  LET result == PlanResult[request[p]]
  IN  IF result.status = "INVALID" THEN "INVALID"
      ELSE IF \E c \in Component : outcome[p][c] = "CONFLICT" THEN "CONFLICT"
      ELSE IF \E d \in diagnostics(p) : d[1] \in ErrorCodes THEN "INVALID"
      ELSE IF result.status = "PARTIAL" \/ diagnostics(p) # {} THEN "PARTIAL"
      ELSE "MATERIALIZED"

(* validateMaterializationRecord, for the files of a record.               *)
validateMaterializationRecord(result, files) ==
  LET recorded == {path \in Path : files[path] # Null}
      having(D) == {path \in recorded : files[path].decision \in D}
  IN  /\ recorded \subseteq SafePath
      /\ \A path \in having({"UPDATE", "CONFLICT"}) : files[path].ownership # "OWNER_SEEDED"
      /\ result = "CONFLICT" => having({"CONFLICT"}) # {} /\ having(WRITES) = {}
      /\ result = "APPLIED" => having({"CONFLICT"}) = {}

(* The STRUCTURAL check of verify.ts: the files of a component directory   *)
(* that differ from an inventory.  Faulty variant first: a seeded file may *)
(* be missing.                                                             *)
mismatchOfOwned(content, file) ==
  file.ownership = "COMPILER_OWNED" /\ content # file.digest

mismatch(content, file) ==
  \/ content = Null
  \/ file.ownership = "COMPILER_OWNED" /\ content # file.digest

structural(directory, files) ==
  {path \in Path : files[path] # Null /\ mismatch(directory[path], files[path])}

(***************************************************************************)
(* Properties.                                                             *)
(***************************************************************************)
TypeOK ==
  /\ disk \in [Component -> [Path -> Content \union {Null, Torn}]]
  /\ store \in [Component -> [Revision -> Record \union {Null}]]
  /\ broken \in [Component -> SUBSET Revision]
  /\ pc \in [Process -> {"idle", "next", "decide", "write", "writing", "superseding", "store",
                         "storing", "done", "failed"}]
  /\ request \in [Process -> Request \union {Null}]
  /\ todo \in [Process -> SUBSET Component]
  /\ current \in [Process -> Component \union {Null}]
  /\ previous \in [Process -> Record \union {Null}]
  /\ decision \in [Process -> [Path -> WriteDecision \union {Undecided}]]
  /\ written \in [Process -> SUBSET Path]
  /\ outcome \in [Process -> [Component -> {"NONE", "APPLIED", "CONFLICT"}]]
  /\ author \in [Component -> [Path -> {"none", "compiler", "owner"}]]
  /\ interrupted \in [Component -> SUBSET Request]
  /\ raced \in [Process -> SUBSET Path]
  /\ runs \in 0 .. MaxRuns /\ edits \in 0 .. MaxEdits /\ crashes \in 0 .. MaxCrashes

(* What the plans render at a path; any other content is the owner's.      *)
renderings(c, path) ==
  {Plan[q][c][path].digest : q \in {r \in Request : Plan[r][c] # Null /\ Plan[r][c][path] # Null}}

OwnContent(c, path) == Content \ renderings(c, path)

(* "Nothing is overwritten silently": no write of the compiler replaces a  *)
(* content that only the owner can have put there.                         *)
NoSilentOverwrite ==
  [][\A c \in Component, path \in Path :
       /\ disk'[c][path] # disk[c][path]
       /\ author'[c][path] = "compiler"
       => disk[c][path] \notin OwnContent(c, path)]_vars

(* The window of a run is all that the owner can lose an edit in: what     *)
(* only the owner can have put in a file disappears under the compiler, in *)
(* any interleaving of runs and edits, only when the owner changed that    *)
(* file after the same run had decided on it.                              *)
OnlyRacedEditsAreLost ==
  [][\A c \in Component, path \in Path :
       /\ disk[c][path] \in OwnContent(c, path)
       /\ disk'[c][path] # disk[c][path]
       /\ edits' = edits
       => \E p \in Process : current[p] = c /\ path \in pending(p) \intersect raced[p]]_vars

(* A file some record lists as OWNER_SEEDED is the owner's from then on:   *)
(* while it exists the compiler never changes it.                          *)
SeededIsTheOwners ==
  [][\A c \in Component, path \in Path :
       /\ disk'[c][path] # disk[c][path]
       /\ author'[c][path] = "compiler"
       /\ disk[c][path] \notin {Null, Torn}
       => \A r \in Revision :
            store[c][r] # Null /\ store[c][r].files[path] # Null =>
              store[c][r].files[path].ownership # "OWNER_SEEDED"]_vars

(* The identity of a stored record never changes: only its status may, and *)
(* only from VALID to SUPERSEDED.                                          *)
RecordsImmutable ==
  [][\A c \in Component, r \in Revision :
       store[c][r] # Null =>
         /\ store'[c][r] # Null
         /\ pinnedRef(store'[c][r]) = pinnedRef(store[c][r])
         /\ store[c][r].status = "SUPERSEDED" => store'[c][r].status = "SUPERSEDED"]_vars

(* One revision per materialization: the stored revisions are 1, 2, ... n, *)
(* each supersedes the one before it by its digest, and at most the last   *)
(* one is VALID.                                                           *)
SupersessionChain ==
  \A c \in Component, r \in Revision :
    store[c][r] # Null =>
      /\ store[c][r].revision = r
      /\ r = 1 => store[c][r].supersedes = Null
      /\ r > 1 => /\ store[c][r - 1] # Null
                  /\ store[c][r].supersedes = pinnedRef(store[c][r - 1])
                  /\ store[c][r - 1].status = "SUPERSEDED"

(* Every stored record satisfies the rules of its own kind.                *)
StoredRecordsValid ==
  \A c \in Component, r \in Revision :
    store[c][r] # Null => validateMaterializationRecord("APPLIED", store[c][r].files)

(* A file is in CONFLICT only when someone else changed it, when a run     *)
(* that died left it truncated, or when a run of another plan died on the  *)
(* component and was never completed.                                      *)
ConflictIsForeign ==
  \A p \in Process : pc[p] = "decide" =>
    \A path \in conflicts(p) :
      \/ author[current[p]][path] = "owner"
      \/ disk[current[p]][path] = Torn
      \/ ~ (interrupted[current[p]] \subseteq {request[p]})

(* An invocation that reports MATERIALIZED leaves, for every MATERIALIZE   *)
(* step of its plan, a VALID latest record of this request that the        *)
(* directory matches, and no record that does not parse: a structural      *)
(* verification would pass.                                                *)
MaterializedIsInPlace ==
  [][\A p \in Process :
       pc[p] = "next" /\ pc'[p] = "done" /\ status(p) = "MATERIALIZED" =>
         \A c \in Component : materializes(PlanResult[request[p]], c) =>
           \E r \in Revision :
             /\ isLatest(c, r) /\ broken[c] = {}
             /\ store[c][r].request = request[p]
             /\ store[c][r].status = "VALID"
             /\ structural(disk[c], store[c][r].files) = {}]_vars

(* When every invocation makes the same request, the runs may overlap and  *)
(* die as they please and the owner may edit: a file is torn only while a  *)
(* run is writing it or after a crash, and once a record lists a file that *)
(* file has its digest, unless it is torn or the owner's.                  *)
SameRequestConverges ==
  \A c \in Component, path \in Path :
    /\ disk[c][path] = Torn =>
         crashes > 0 \/ author[c][path] = "owner" \/ \E p \in Process : isOpen(p, c, path)
    /\ \A r \in Revision :
         store[c][r] # Null /\ store[c][r].files[path] # Null =>
           \/ disk[c][path] \in {store[c][r].files[path].digest, Torn}
           \/ author[c][path] = "owner"

(* ... and a run finds a conflict only with the owner, or with a file that *)
(* is torn when it reads it.                                               *)
ConflictIsUnfinished ==
  [][\A p \in Process, path \in Path :
       decision[p][path] = Undecided /\ decision'[p][path] = "CONFLICT" =>
         author[current[p]][path] = "owner" \/ disk[current[p]][path] = Torn]_vars

(* Every invocation ends, by returning or by dying.                        *)
RunEnds == \A p \in Process : Live(p) ~> ~ Live(p)

(***************************************************************************)
(* Refinement: seen from the promise, the files of a run change when its   *)
(* record is stored; until then a file it has written still has the        *)
(* content its decision was taken on.                                      *)
(***************************************************************************)
applying(p, c) ==
  current[p] = c /\ pc[p] \in {"write", "writing", "superseding", "store", "storing"}

touched(p, c, path) == applying(p, c) /\ (path \in written[p] \/ isOpen(p, c, path))

before(c, path) ==
  IF \E p \in Process : touched(p, c, path)
  THEN LET p == CHOOSE q \in Process : touched(q, c, path)
       IN  IF decision[p][path] = "CREATE" THEN Null ELSE lastWritten(p, path)
  ELSE disk[c][path]

listed(c, path) ==
  LET r == CHOOSE s \in 0 .. MaxRuns : isLatest(c, s)
  IN  IF r = 0 \/ store[c][r].files[path] = Null THEN Null
      ELSE [ownership |-> store[c][r].files[path].ownership,
            digest |-> store[c][r].files[path].digest]

Promise == INSTANCE AtomicWorkspace WITH
  Plans <- {Plan[qc[1]][qc[2]] : qc \in {d \in Request \X Component : Plan[d[1]][d[2]] # Null}},
  files <- [c \in Component |-> [path \in Path |-> before(c, path)]],
  inventory <- [c \in Component |-> [path \in Path |-> listed(c, path)]]

(* One run at a time implements the atomic promise.                        *)
ImplementsPromise == Promise!ASpec

(***************************************************************************)
(* The inductive invariants behind the theorems of MaterializerProofs.     *)
(***************************************************************************)
Working(p) ==
  pc[p] \in {"decide", "write", "writing", "superseding", "store", "storing"}

(* The files are written; what is left is the records.                     *)
Recording(p) == pc[p] \in {"superseding", "store", "storing"}

(* What a process knows of its request, its component and its decisions.   *)
LocalOK(p) ==
  /\ Live(p) => request[p] \in Request /\ todo[p] \subseteq plannedComponents(request[p])
  /\ Working(p) => current[p] \in Component /\ artifacts(p) # Null
  /\ Working(p) => baseRevision(p) < MaxRuns
  /\ Working(p) /\ pc[p] # "decide" => undecided(p) = {} /\ conflicts(p) = {}
  /\ Recording(p) => pending(p) = {}
  /\ pc[p] = "superseding" => previous[p] # Null
  /\ pc[p] = "decide" => written[p] = {}
  /\ ~ Working(p) => /\ written[p] = {} /\ raced[p] = {}
                     /\ decision[p] = [path \in Path |-> Undecided]

(* A record file holds the revision its name says.                         *)
StoreIndexed ==
  \A c \in Component, r \in Revision :
    store[c][r] # Null => store[c][r].revision = r

LocalsOK == StoreIndexed /\ \A p \in Process : LocalOK(p)

(* In isolation there is at most one live run.                             *)
Exclusive == \A p, q \in Process : Live(p) /\ Live(q) => p = q

(* Recorded digests are renderings.                                        *)
Rendered(c, record) ==
  \A path \in Path : record.files[path] # Null => record.files[path].digest \in renderings(c, path)

RecordsRendered ==
  /\ \A c \in Component, r \in Revision :
       store[c][r] # Null => Rendered(c, store[c][r])
  /\ \A p \in Process :
       Working(p) /\ previous[p] # Null => Rendered(current[p], previous[p])

(* A decision that is still to be applied is the one decideWrite would     *)
(* take on the file as it is now.  Of isolated runs only.                  *)
DecisionCurrent(p) ==
  pc[p] \in {"decide", "write", "writing"} =>
    \A path \in planned(p) :
      /\ decision[p][path] # Undecided /\ path \notin written[p]
      /\ ~ isOpen(p, current[p], path)
      => decision[p][path] =
           decideWrite(artifacts(p)[path], disk[current[p]][path], lastWritten(p, path))

DecisionsCurrent == \A p \in Process : DecisionCurrent(p)

(* A file that a run is going to write holds nothing that only the owner   *)
(* can have put there, or the race is noted.  Of overlapping runs too.     *)
RaceNoted(p) ==
  Working(p) =>
    \A path \in pending(p) \ raced[p] :
      disk[current[p]][path] \in renderings(current[p], path) \union {Null, Torn}

RacesNoted == \A p \in Process : RaceNoted(p)

(* Who a plan says owns the file at a path.                                *)
ownerships(c, path) ==
  {Plan[q][c][path].ownership : q \in {r \in Request : Plan[r][c] # Null /\ Plan[r][c][path] # Null}}

(* A record is valid and gives files the owners that plans give them; a    *)
(* seeded file is neither updated nor in conflict.                         *)
Sound(c, record) ==
  /\ validateMaterializationRecord("APPLIED", record.files)
  /\ \A path \in Path : record.files[path] # Null => record.files[path].ownership \in ownerships(c, path)

SeedsRespected(p) ==
  Working(p) => \A path \in planned(p) :
    decision[p][path] \in {"UPDATE", "CONFLICT"} => artifacts(p)[path].ownership # "OWNER_SEEDED"

RecordsSound ==
  /\ \A c \in Component, r \in Revision : store[c][r] # Null => Sound(c, store[c][r])
  /\ \A p \in Process :
       /\ Working(p) /\ previous[p] # Null => Sound(current[p], previous[p])
       /\ SeedsRespected(p)

(* What a run has written is in place, the file it has open is torn, and   *)
(* when it comes to its records everything it planned is in place.         *)
InPlace(p) ==
  /\ \A path \in written[p] :
       /\ path \in planned(p) /\ decision[p][path] \in WRITES
       /\ disk[current[p]][path] = artifacts(p)[path].digest
  /\ \A path \in Path : isOpen(p, current[p], path) => disk[current[p]][path] = Torn
  /\ Recording(p) => \A path \in planned(p) :
       ~ mismatch(disk[current[p]][path], artifacts(p)[path])

FilesInPlace == \A p \in Process : InPlace(p)

(* There is a latest record, or none at all.                               *)
HasLatest == \A c \in Component : \E r \in 0 .. MaxRuns : isLatest(c, r)

(* Where the content of a compiler-owned file comes from, if neither the   *)
(* owner nor a truncating crash: it is listed by the latest record, or a   *)
(* run that died on the component or is still at work vouches for it.      *)
ListedNow(c, path) ==
  \E r \in Revision :
    /\ isLatest(c, r)
    /\ store[c][r].files[path] # Null /\ store[c][r].files[path].digest = disk[c][path]

LeftBehind(c, path) ==
  \E q \in interrupted[c] :
    Plan[q][c] # Null /\ Plan[q][c][path] # Null /\ Plan[q][c][path].digest = disk[c][path]

BeingWritten(c, path) ==
  \E p \in Process : current[p] = c /\ (path \in written[p] \/ Recording(p))

Known(c, path) ==
  \/ author[c][path] = "owner"
  \/ disk[c][path] \in {Null, Torn}
  \/ ListedNow(c, path) \/ LeftBehind(c, path) \/ BeingWritten(c, path)

FilesAccounted ==
  \A c \in Component, path \in Path :
    "COMPILER_OWNED" \in ownerships(c, path) => Known(c, path)

(* The plans of a component agree on who owns a file, and on its files.    *)
SteadyOwnership ==
  \A c \in Component, path \in Path :
    \A first, second \in ownerships(c, path) : first = second

SteadyPaths ==
  \A c \in Component, q, s \in Request :
    Plan[q][c] # Null /\ Plan[s][c] # Null =>
      \A path \in Path : Plan[q][c][path] # Null => Plan[s][c][path] # Null

(* What a live run has reported of a component is still so, and it reports *)
(* of every component it is done with.                                     *)
Delivered(p, c) ==
  \E r \in Revision :
    /\ isLatest(c, r) /\ broken[c] = {}
    /\ store[c][r].request = request[p] /\ store[c][r].status = "VALID"
    /\ structural(disk[c], store[c][r].files) = {}

OutcomeKept(p) ==
  Live(p) =>
    \A c \in Component :
      /\ outcome[p][c] = "APPLIED" => Delivered(p, c)
      /\ c \in todo[p] => outcome[p][c] = "NONE"
      /\ Working(p) /\ current[p] = c => outcome[p][c] = "NONE" /\ c \notin todo[p]
      /\ c \in plannedComponents(request[p]) \ todo[p] /\ ~ (Working(p) /\ current[p] = c) =>
           outcome[p][c] # "NONE"

OutcomesKept == \A p \in Process : OutcomeKept(p)

(* In isolation the record a run read is still the latest one, and the     *)
(* only record file that does not parse is the one it is writing.          *)
openRecords(p) ==
  CASE pc[p] = "superseding" -> {baseRevision(p)}
    [] pc[p] = "storing" -> {baseRevision(p) + 1}
    [] OTHER -> {}

PreviousLatest(p) ==
  Working(p) =>
    /\ broken[current[p]] = openRecords(p)
    /\ \A s \in Revision : s > baseRevision(p) => store[current[p]][s] = Null
    /\ previous[p] # Null =>
         store[current[p]][baseRevision(p)] =
           IF pc[p] \in {"store", "storing"} THEN superseded(previous[p]) ELSE previous[p]

PreviousIsLatest == \A p \in Process : PreviousLatest(p)

(* When every invocation makes the same request: the files are renderings, *)
(* and what a record lists, or a run has found or written, is there, where *)
(* the owner has not been.                                                 *)
SameRequest == \A q, s \in Request : PlanResult[q] = PlanResult[s]

Kept(c, path) == disk[c][path] # Null \/ author[c][path] = "owner"

Agreed(c, path) ==
  /\ disk[c][path] \in renderings(c, path) \union {Null, Torn} \/ author[c][path] = "owner"
  /\ disk[c][path] = Torn =>
       crashes > 0 \/ author[c][path] = "owner" \/ \E p \in Process : isOpen(p, c, path)

Present(c, record) == \A path \in Path : record.files[path] # Null => Kept(c, path)

StoreKept ==
  \A c \in Component :
    /\ \A path \in Path : Agreed(c, path)
    /\ \A r \in Revision : store[c][r] # Null => Present(c, store[c][r])

(* A file the run can count on when it stores its record.                  *)
Found(p, path) ==
  decision[p][path] \notin {Undecided, "CREATE"} \/ path \in written[p]
  \/ isOpen(p, current[p], path)

Harmless(p) ==
  Working(p) =>
    /\ previous[p] # Null => Present(current[p], previous[p])
    /\ \A path \in planned(p) : Found(p, path) => Kept(current[p], path)

Converging == StoreKept /\ \A p \in Process : Harmless(p)

=============================================================================
