---------------------------- MODULE ServiceCheck ----------------------------
(***************************************************************************)
(* The toolchain checks `boot` and `contract` of a NestJS component, one   *)
(* after the other: runProbe (Probe), then runCommand of engine/           *)
(* materializer/src/verify.ts on the script scripts/contract-check.mjs     *)
(* that the component contains (CONTRACT_CHECK, extensions/runtimes/       *)
(* nestjs/src/contract.ts).  The script starts the service a second time,  *)
(* waits for its health, asks it what each contract promises and stops it. *)
(*                                                                         *)
(* spawnSync blocks the verifier, so the probe stands still meanwhile but  *)
(* for the child it left; the script has a clock of its own.               *)
(***************************************************************************)
EXTENDS Probe, Sequences

CONSTANTS
  StartTimeout,    (* how long the script waits for the health             *)
  CommandTimeout,  (* step.timeoutMs of the command                        *)
  Contracts        (* the lists of requests the files of contract/ give    *)

(* The committed document, an operation with an input, one without.        *)
RequestKind == {"document", "input", "bare"}

ASSUME CheckAssumption ==
  /\ StartTimeout \in Nat /\ CommandTimeout \in Nat \ {0}
  /\ Contracts \subseteq Seq(RequestKind)

VARIABLES
  script,       (* "idle", "health", "pause", "contract", "leaving",       *)
                (* "ended"                                                 *)
  requests,     (* what contract/ gives, <<>> when it has no file          *)
  implemented,  (* the owner has written the operations without input      *)
  elapsed,      (* the time the script has run                             *)
  pausedAt,
  asked,        (* requests answered since the health was 200              *)
  failures,     (* some answer was not the expected one                    *)
  verdict,      (* of the check `contract`                                 *)
  service,      (* the process the script started                          *)
  listener,     (* who listens on the port the script chose                *)
  signalled,    (* the script has sent SIGTERM                             *)
  upSince,      (* history: when the service came to serve                 *)
  steady,       (* history: it has served ever since, from before the      *)
                (* first request of a contract                             *)
  own,          (* history: expected answers the service itself gave       *)
  foreign       (* history: another process held its port                  *)

checked == <<requests, implemented>>
progress == <<script, pausedAt, asked, failures, verdict, signalled, own>>
serviceVars == <<service, listener, upSince, steady, foreign>>
checkVars == <<checked, progress, elapsed, serviceVars>>
allVars == <<vars, checkVars>>

Alive == Listening \union {"starting"}
AtWork == script \in {"health", "pause", "contract", "leaving"}

CheckInit ==
  /\ Init
  /\ script = "idle"
  /\ requests \in Contracts /\ implemented \in BOOLEAN
  /\ elapsed = 0 /\ pausedAt = 0 /\ asked = 0
  /\ failures = FALSE /\ verdict = "NONE"
  /\ service = "none" /\ listener = "nobody" /\ signalled = FALSE
  /\ upSince = 0 /\ steady = FALSE /\ own = 0 /\ foreign = FALSE

(* runCommand returns, and with it the script has ended.                   *)
End(outcome) == script' = "ended" /\ verdict' = outcome

(***************************************************************************)
(* The verifier and the script.                                            *)
(***************************************************************************)

(* The boot check passed; a contract directory without files ends the      *)
(* script before it starts anything.                                       *)
StartScript ==
  /\ pc = "returned" /\ result = "PASS" /\ script = "idle"
  /\ IF requests = <<>>
     THEN End("PASS") /\ UNCHANGED service
     ELSE script' = "health" /\ verdict' = verdict /\ service' = "starting"
  /\ UNCHANGED <<checked, elapsed, pausedAt, asked, failures, signalled, own, listener, upSince, steady, foreign>>

(* The command cannot be run at all, or the script finds no free port.     *)
ScriptFails ==
  /\ pc = "returned" /\ result = "PASS" /\ script = "idle"
  /\ \E outcome \in {"ERROR", "FAIL"} : End(outcome)
  /\ UNCHANGED <<checked, elapsed, pausedAt, asked, failures, signalled, own, serviceVars>>

(* Faulty variant: an exception passes the service by.                     *)
ThrowOnly == End("FAIL") /\ signalled' = signalled

(* The finally block, and an exit code that is not 0.                      *)
Throw == End("FAIL") /\ signalled' = TRUE

(* GET /health is answered 200.                                            *)
Healthy ==
  /\ script = "health"
  /\ listener = "other" \/ (listener = "child" /\ service = "serving")
  /\ script' = "contract"
  /\ UNCHANGED <<checked, elapsed, pausedAt, asked, failures, verdict, signalled, own, serviceVars>>

(* It is refused or answered with another status.  There is no limit on    *)
(* the time of a request, and nobody watches the process.                  *)
NotHealthy ==
  /\ script = "health"
  /\ ~ (listener = "child" /\ service \in {"serving", "hung"})
  /\ script' = "pause" /\ pausedAt' = elapsed
  /\ UNCHANGED <<checked, elapsed, asked, failures, verdict, signalled, own, serviceVars>>

PauseEnds ==
  /\ script = "pause" /\ elapsed >= pausedAt + Pause
  /\ IF elapsed > StartTimeout
     THEN Throw
     ELSE script' = "health" /\ UNCHANGED <<verdict, signalled>>
  /\ UNCHANGED <<checked, elapsed, pausedAt, asked, failures, own, serviceVars>>

(* After the last answer the finally block stops the service.  Failures    *)
(* end the script at once; without any it has nothing left to do, and ends *)
(* when the process it started does.                                       *)
AfterAnswer ==
  IF asked' < Len(requests) THEN UNCHANGED <<script, verdict, signalled>>
  ELSE /\ signalled' = TRUE
       /\ IF failures' THEN End("FAIL") ELSE script' = "leaving" /\ verdict' = verdict

(* What the service has to answer: the committed document, 400 to an input *)
(* that is not valid, 501 to an operation without input.                   *)
Expected == service = "serving" /\ (requests[asked + 1] = "bare" => ~ implemented)

(* Faulty variant: only the status 200 of the document is looked at.       *)
AnsweredByAnyStatus ==
  /\ script = "contract" /\ listener # "nobody"
  /\ \/ /\ listener = "child" /\ service \in {"serving", "sick"}
        /\ failures' = (failures \/ (requests[asked + 1] = "document" /\ ~ Expected))
        /\ own' = IF Expected THEN own + 1 ELSE own
     \/ /\ listener = "other"
        /\ failures' \in {failures, TRUE}
        /\ own' = own
  /\ asked' = asked + 1
  /\ AfterAnswer
  /\ UNCHANGED <<checked, elapsed, pausedAt, serviceVars>>

(* A request is answered, by whoever listens.                              *)
Answered ==
  /\ script = "contract" /\ listener # "nobody"
  /\ \/ /\ listener = "child" /\ service \in {"serving", "sick"}
        /\ failures' = (failures \/ ~ Expected)
        /\ own' = IF Expected THEN own + 1 ELSE own
     \/ /\ listener = "other"
        /\ failures' \in {failures, TRUE}
        /\ own' = own
  /\ asked' = asked + 1
  /\ AfterAnswer
  /\ UNCHANGED <<checked, elapsed, pausedAt, serviceVars>>

(* It is refused or cut off: fetch rejects, and nothing catches it.        *)
Refused ==
  /\ script = "contract" /\ listener # "child"
  /\ Throw
  /\ UNCHANGED <<checked, elapsed, pausedAt, asked, failures, own, serviceVars>>

Leave ==
  /\ script = "leaving" /\ service \notin Alive
  /\ End("PASS")
  /\ UNCHANGED <<checked, elapsed, pausedAt, asked, failures, signalled, own, serviceVars>>

Script ==
  \/ StartScript \/ ScriptFails \/ Healthy \/ NotHealthy \/ PauseEnds \/ Answered \/ Refused
  \/ Leave

(* spawnSync kills the script at its timeout: SIGTERM ends a script that   *)
(* handles no signal before its finally block.                             *)
TimeOut ==
  /\ AtWork /\ elapsed >= CommandTimeout
  /\ End("ERROR")
  /\ UNCHANGED <<checked, elapsed, pausedAt, asked, failures, signalled, own, serviceVars>>

(* Timers are kept, and a service that answers does so within a tick.      *)
ScriptTick ==
  /\ AtWork /\ elapsed < CommandTimeout
  /\ script = "pause" => elapsed < pausedAt + Pause
  /\ script \in {"health", "contract"} => ~ (listener = "child" /\ service \in {"serving", "sick"})
  /\ elapsed' = elapsed + 1
  /\ UNCHANGED <<checked, progress, serviceVars>>

(***************************************************************************)
(* The service and the other processes of the machine.                     *)
(***************************************************************************)

(* The service listens, or its behaviour on the port changes.              *)
ServiceAnswers(state) ==
  /\ AtWork
  /\ service \in Alive \ {state}
  /\ service = "starting" => listener = "nobody"
  /\ service' = state
  /\ listener' = "child"
  /\ upSince' = IF state = "serving" THEN elapsed ELSE upSince
  /\ steady' = (state = "serving" /\ script \in {"health", "pause"})
  /\ UNCHANGED <<checked, progress, elapsed, foreign>>

(* It ends by itself.                                                      *)
ServiceEnds ==
  /\ AtWork /\ ~ signalled /\ service \in Alive
  /\ service' = "gone"
  /\ listener' = IF service \in Listening THEN "nobody" ELSE listener
  /\ steady' = FALSE
  /\ UNCHANGED <<checked, progress, elapsed, upSince, foreign>>

(* It obeys SIGTERM.                                                       *)
ServiceTerminates ==
  /\ signalled /\ service \in Alive
  /\ service' = "gone"
  /\ listener' = IF service \in Listening THEN "nobody" ELSE listener
  /\ UNCHANGED <<checked, progress, elapsed, upSince, steady, foreign>>

(* Another process binds the port before the service does.                 *)
TakeServicePort ==
  /\ PortRace
  /\ AtWork /\ listener = "nobody"
  /\ listener' = "other" /\ foreign' = TRUE
  /\ UNCHANGED <<checked, progress, elapsed, service, upSince, steady>>

Surroundings ==
  \/ TimeOut \/ ScriptTick \/ ServiceEnds \/ ServiceTerminates \/ TakeServicePort
  \/ \E state \in Listening : ServiceAnswers(state)

CheckNext ==
  \/ Next /\ UNCHANGED checkVars
  \/ (Script \/ Surroundings) /\ UNCHANGED vars

CheckSpec == CheckInit /\ [][CheckNext]_allVars

(* Time passes, the event loops run, spawnSync kills the script at its     *)
(* timeout, and a process obeys SIGTERM.  Nothing obliges a process to     *)
(* start, to answer or to end; one that turns to and fro within one tick   *)
(* does not stop the time: hence SF.                                       *)
CheckFairSpec ==
  /\ CheckSpec
  /\ WF_allVars(runProbe /\ UNCHANGED checkVars)
  /\ WF_allVars(Tick /\ UNCHANGED checkVars)
  /\ WF_allVars(ChildTerminates /\ UNCHANGED checkVars)
  /\ WF_allVars(Script /\ UNCHANGED vars)
  /\ SF_allVars((TimeOut \/ ScriptTick) /\ UNCHANGED vars)
  /\ WF_allVars(ServiceTerminates /\ UNCHANGED vars)

(***************************************************************************)
(* Properties.                                                             *)
(***************************************************************************)
ScriptTypeOK ==
  /\ script \in {"idle", "health", "pause", "contract", "leaving", "ended"}
  /\ requests \in Contracts /\ implemented \in BOOLEAN
  /\ elapsed \in Nat /\ pausedAt \in Nat /\ asked \in Nat /\ upSince \in Nat /\ own \in Nat
  /\ failures \in BOOLEAN /\ signalled \in BOOLEAN /\ steady \in BOOLEAN /\ foreign \in BOOLEAN
  /\ verdict \in {"NONE", "PASS", "FAIL", "ERROR"}
  /\ service \in Alive \union {"none", "gone"}
  /\ listener \in {"nobody", "child", "other"}

CheckTypeOK == TypeOK /\ ScriptTypeOK

(* The service came to serve early enough and served until it was stopped, *)
(* on a port that was its own.                                             *)
ServedInTime == steady /\ ~ foreign /\ upSince + Pause <= StartTimeout

(* Every request is about something the owner is not expected to change.   *)
NothingImplemented ==
  implemented => \A i \in DOMAIN requests : requests[i] # "bare"

(* The verdict of the contract check is about the component.  PASS: the    *)
(* process it started is gone, and unless another process got its port the *)
(* component itself answered every request as its contracts promise.       *)
(* FAIL: never of a component that served in time and has no operation     *)
(* without input implemented.                                              *)
CheckIsRight ==
  /\ verdict = "PASS" =>
       /\ service \notin Alive
       /\ ~ foreign => own = Len(requests) /\ (requests # <<>> => NothingImplemented)
  /\ verdict = "FAIL" => ~ (ServedInTime /\ NothingImplemented)

(* The statement of the check speaks of operations "its team has not       *)
(* implemented yet": a component that served in time does not fail for the *)
(* ones it has implemented.                                                *)
ImplementedIsAccepted == verdict = "FAIL" => ~ ServedInTime

(* Both checks come to a verdict and leave no process, with one exception: *)
(* the service of a script that spawnSync had to kill (ERROR).             *)
ChecksEnd ==
  <>(/\ pc \in {"returned", "threw"} /\ child \notin Running
     /\ result = "PASS" => verdict # "NONE"
     /\ service \in Alive => verdict = "ERROR")

(***************************************************************************)
(* The inductive invariant behind the theorems of ServiceCheckProofs.      *)
(***************************************************************************)

(* How far the script is.                                                  *)
ScriptInv ==
  /\ script \in {"idle", "health", "pause"} => asked = 0 /\ own = 0 /\ ~ failures
  /\ script \in {"idle", "health", "pause", "contract"} => ~ signalled
  /\ script # "ended" => verdict = "NONE"
  /\ script = "idle" => service = "none" /\ ~ steady
  /\ script \in {"health", "pause"} => requests # <<>>
  /\ script = "contract" => asked < Len(requests)
  /\ script = "leaving" => asked = Len(requests) /\ ~ failures
  /\ script = "pause" => pausedAt <= elapsed /\ elapsed <= pausedAt + Pause

(* Who listens where.                                                      *)
ServiceInv ==
  /\ service \in Listening => listener = "child"
  /\ listener = "other" => foreign
  /\ steady => (service = "serving" \/ signalled)

(* Answers without a failure are expected ones.                            *)
AnswersInv ==
  ~ foreign /\ ~ failures =>
    own = asked /\ \A i \in 1 .. asked : i \in DOMAIN requests /\ requests[i] = "bare" => ~ implemented

(* A service that serves is neither missed nor found at fault.             *)
SteadyInv ==
  steady /\ ~ foreign =>
    /\ script = "pause" => upSince >= pausedAt
    /\ failures => ~ NothingImplemented

CheckInv ==
  /\ ScriptTypeOK /\ ScriptInv /\ ServiceInv /\ AnswersInv /\ SteadyInv
  /\ CheckIsRight

=============================================================================
