------------------------------- MODULE Probe -------------------------------
(***************************************************************************)
(* runProbe of engine/materializer/src/verify.ts: find a free port, start  *)
(* the component on it, poll it over HTTP until it answers the expected    *)
(* status or a deadline passes, then send it SIGTERM.                      *)
(*                                                                         *)
(* Time is a clock in ticks.  The polling loop runs synchronously between  *)
(* two awaits, so the clock moves, and the child's events are delivered,   *)
(* only while the probe waits for an answer or for its pause to end.       *)
(***************************************************************************)
EXTENDS Naturals

CONSTANTS
  Timeout,       (* step.timeoutMs                                         *)
  FetchTimeout,  (* AbortSignal.timeout of one request                     *)
  Pause,         (* the pause between two requests                         *)
  PortRace       (* TRUE: another process may bind the port that was free  *)

ASSUME TimesAssumption ==
  Timeout \in Nat \ {0} /\ FetchTimeout \in Nat \ {0} /\ Pause \in Nat \ {0}
ASSUME PortRaceAssumption == PortRace \in BOOLEAN

VARIABLES
  pc,        (* "port", "loop", "fetch", "wait", "returned", "threw"       *)
  clock,     (* Date.now()                                                 *)
  deadline,
  since,     (* when the current request or pause began                    *)
  child,     (* the started process                                        *)
  holder,    (* who listens on the port                                    *)
  result,    (* of the Outcome that is returned                            *)
  killed,    (* SIGTERM has been sent                                      *)
  serving    (* history: since when the child answers the expected status  *)

vars == <<pc, clock, deadline, since, child, holder, result, killed, serving>>
time == <<clock, deadline, since>>
process == <<child, holder, serving>>

Listening == {"serving", "sick", "hung"}
Running == Listening \union {"starting"}
Awaiting == pc \in {"fetch", "wait"}

Init ==
  /\ pc = "port"
  /\ clock = 0 /\ deadline = 0 /\ since = 0
  /\ child = "none" /\ holder = "nobody"
  /\ result = "NONE" /\ killed = FALSE
  /\ serving = 0

(* freePort resolves: its own server is closed again, the child is spawned *)
(* and the deadline set.                                                   *)
FindPort ==
  /\ pc = "port"
  /\ pc' = "loop"
  /\ child' = "starting"
  /\ deadline' = clock + Timeout
  /\ UNCHANGED <<clock, since, holder, result, killed, serving>>

(* freePort rejects: runProbe throws before there is a child.              *)
NoPort ==
  /\ pc = "port"
  /\ pc' = "threw"
  /\ UNCHANGED <<time, process, result, killed>>

(* Every return goes through the finally block.                            *)
Return(outcome) ==
  /\ pc' = "returned"
  /\ result' = outcome
  /\ killed' = TRUE

(* Faulty variants: no deadline; no verdict after the deadline; the exit   *)
(* code is looked at before the spawn error.                               *)
LoopForever ==
  /\ pc = "loop"
  /\ \/ child = "failed" /\ Return("ERROR") /\ UNCHANGED since
     \/ child = "exited" /\ Return("FAIL") /\ UNCHANGED since
     \/ /\ child \notin {"failed", "exited"}
        /\ pc' = "fetch" /\ since' = clock
        /\ UNCHANGED <<result, killed>>
  /\ UNCHANGED <<clock, deadline, process>>

LoopFallsThrough ==
  /\ pc = "loop"
  /\ \/ clock >= deadline /\ Return("undefined") /\ UNCHANGED since
     \/ clock < deadline /\ child = "failed" /\ Return("ERROR") /\ UNCHANGED since
     \/ clock < deadline /\ child = "exited" /\ Return("FAIL") /\ UNCHANGED since
     \/ /\ clock < deadline /\ child \notin {"failed", "exited"}
        /\ pc' = "fetch" /\ since' = clock
        /\ UNCHANGED <<result, killed>>
  /\ UNCHANGED <<clock, deadline, process>>

LoopExitFirst ==
  /\ pc = "loop"
  /\ \/ clock >= deadline /\ Return("FAIL") /\ UNCHANGED since
     \/ clock < deadline /\ child \in {"exited", "failed"} /\ Return("FAIL") /\ UNCHANGED since
     \/ /\ clock < deadline /\ child \notin {"failed", "exited"}
        /\ pc' = "fetch" /\ since' = clock
        /\ UNCHANGED <<result, killed>>
  /\ UNCHANGED <<clock, deadline, process>>

(* The head of the loop.  A spawn that failed sets both spawnError and a   *)
(* negative exitCode; a child killed by a signal has a null exitCode.      *)
Loop ==
  /\ pc = "loop"
  /\ \/ clock >= deadline /\ Return("FAIL") /\ UNCHANGED since
     \/ clock < deadline /\ child = "failed" /\ Return("ERROR") /\ UNCHANGED since
     \/ clock < deadline /\ child = "exited" /\ Return("FAIL") /\ UNCHANGED since
     \/ /\ clock < deadline /\ child \notin {"failed", "exited"}
        /\ pc' = "fetch" /\ since' = clock
        /\ UNCHANGED <<result, killed>>
  /\ UNCHANGED <<clock, deadline, process>>

Sleep == pc' = "wait" /\ since' = clock /\ UNCHANGED <<result, killed>>

(* The request is answered with the expected status, by whoever listens.   *)
Answer ==
  /\ pc = "fetch"
  /\ holder = "other" \/ (holder = "child" /\ child = "serving")
  /\ Return("PASS")
  /\ UNCHANGED <<time, process>>

(* It is refused, or answered with another status.                         *)
WrongAnswer ==
  /\ pc = "fetch"
  /\ ~ (holder = "child" /\ child \in {"serving", "hung"})
  /\ Sleep
  /\ UNCHANGED <<clock, deadline, process>>

(* Faulty variant: the limit of a request is so short that even a serving  *)
(* child misses it.                                                        *)
AbortTooSoon ==
  /\ pc = "fetch"
  /\ Sleep
  /\ UNCHANGED <<clock, deadline, process>>

(* It is aborted: nobody answered in time.  A child that is asked while it *)
(* serves does answer in time.                                             *)
Abort ==
  /\ pc = "fetch" /\ clock >= since + FetchTimeout
  /\ holder = "other" \/ (holder = "child" /\ (child = "serving" => serving > since))
  /\ Sleep
  /\ UNCHANGED <<clock, deadline, process>>

Wake ==
  /\ pc = "wait" /\ clock >= since + Pause
  /\ pc' = "loop"
  /\ UNCHANGED <<time, process, result, killed>>

(* Timers are kept: the clock does not pass the end of a request or pause. *)
Tick ==
  /\ \/ pc = "fetch" /\ clock < since + FetchTimeout
     \/ pc = "wait" /\ clock < since + Pause
  /\ clock' = clock + 1
  /\ UNCHANGED <<pc, deadline, since, process, result, killed>>

(***************************************************************************)
(* The child and the other processes of the machine.                       *)
(***************************************************************************)

(* The executable cannot be started; the event comes at the first await.   *)
SpawnFails ==
  /\ Awaiting /\ child = "starting" /\ clock = deadline - Timeout
  /\ child' = "failed"
  /\ UNCHANGED <<pc, time, holder, result, killed, serving>>

(* The child listens on the port, or its behaviour there changes: it       *)
(* answers the expected status, another one, or not at all.                *)
ChildAnswers(state) ==
  /\ Awaiting
  /\ child \in Running \ {state}
  /\ child = "starting" => holder = "nobody"
  /\ child' = state
  /\ holder' = "child"
  /\ serving' = IF state = "serving" THEN clock ELSE serving
  /\ UNCHANGED <<pc, time, result, killed>>

(* It ends by itself, with an exit code or by a signal.                    *)
ChildEnds(state) ==
  /\ Awaiting /\ child \in Running
  /\ child' = state
  /\ holder' = IF child \in Listening THEN "nobody" ELSE holder
  /\ UNCHANGED <<pc, time, result, killed, serving>>

(* It obeys SIGTERM.                                                       *)
ChildTerminates ==
  /\ killed /\ child \in Running
  /\ child' = "signalled"
  /\ holder' = IF child \in Listening THEN "nobody" ELSE holder
  /\ UNCHANGED <<pc, time, result, killed, serving>>

(* Another process binds the port between the probe's look and the child's *)
(* own bind, and may answer anything.                                      *)
TakePort ==
  /\ PortRace
  /\ Awaiting /\ holder = "nobody"
  /\ holder' = "other"
  /\ UNCHANGED <<pc, time, child, result, killed, serving>>

runProbe == FindPort \/ NoPort \/ Loop \/ Answer \/ WrongAnswer \/ Abort \/ Wake

Environment ==
  \/ Tick \/ SpawnFails \/ TakePort \/ ChildTerminates
  \/ \E state \in Listening : ChildAnswers(state)
  \/ \E state \in {"exited", "signalled"} : ChildEnds(state)

Next == runProbe \/ Environment

Spec == Init /\ [][Next]_vars

(***************************************************************************)
(* Properties.                                                             *)
(***************************************************************************)
TypeOK ==
  /\ pc \in {"port", "loop", "fetch", "wait", "returned", "threw"}
  /\ clock \in Nat /\ deadline \in Nat /\ since \in Nat /\ serving \in Nat
  /\ child \in Running \union {"none", "failed", "exited", "signalled"}
  /\ holder \in {"nobody", "child", "other"}
  /\ result \in {"NONE", "PASS", "FAIL", "ERROR"}
  /\ killed \in BOOLEAN

(* The verdict comes before the deadline plus one request and one pause,   *)
(* however the child behaves: timeoutMs bounds the check.                  *)
ReturnsInTime ==
  pc # "port" => clock < deadline + FetchTimeout + Pause

(* No false alarm: a component that has been serving for longer than a     *)
(* request and a pause before the deadline is not reported FAIL.           *)
ServingIsSeen ==
  pc = "returned" /\ result # "PASS" /\ child = "serving" =>
    serving + FetchTimeout + Pause >= deadline

(* An executable that cannot be started is an ERROR, never a FAIL, when    *)
(* the timeout leaves room for a second look.                              *)
NotStartedIsError ==
  pc = "returned" /\ child = "failed" /\ Timeout > FetchTimeout + Pause => result # "FAIL"

(***************************************************************************)
(* The inductive invariant behind the theorems of ProbeProofs.             *)
(***************************************************************************)

(* Where the clock may be at each point of the loop.                       *)
TimeInv ==
  /\ pc \in {"port", "threw"} => clock = 0 /\ deadline = 0 /\ child = "none"
  /\ pc \notin {"port", "threw"} => deadline = Timeout
  /\ pc = "fetch" => since < deadline /\ since <= clock /\ clock <= since + FetchTimeout
  /\ pc = "wait" => since < deadline + FetchTimeout /\ since <= clock /\ clock <= since + Pause

(* A child that listens holds the port.                                    *)
ListenInv == child \in Listening => holder = "child"

(* How long a serving child can have been overlooked.                      *)
ServingInv ==
  child = "serving" =>
    /\ pc = "wait" => since <= serving + FetchTimeout
    /\ pc = "loop" => clock <= serving + FetchTimeout + Pause

(* A failed start is found at the second look.                             *)
FailedInv ==
  child = "failed" =>
    /\ pc = "fetch" => since = 0
    /\ pc = "wait" => since <= FetchTimeout
    /\ pc = "loop" => clock <= FetchTimeout + Pause

ProbeInv ==
  /\ TypeOK /\ TimeInv /\ ListenInv /\ ServingInv /\ FailedInv
  /\ ReturnsInTime /\ ServingIsSeen /\ NotStartedIsError

=============================================================================
