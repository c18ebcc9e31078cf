------------------------- MODULE ServiceCheckProofs -------------------------
(* The bounds in time of runProbe, for every timeout, request limit and    *)
(* pause, and the verdict of the contract check after it, for every        *)
(* timeout and whatever the contracts are.                                 *)
EXTENDS ServiceCheck, TLAPS

(***************************************************************************)
(* The probe.                                                              *)
(***************************************************************************)

(* The probe's own steps keep the invariant.                               *)
LEMMA RunProbeStep ==
  ASSUME ProbeInv, runProbe
  PROVE  ProbeInv'
<1> USE TimesAssumption DEF ProbeInv, TypeOK, TimeInv, ListenInv, ServingInv, FailedInv,
        ReturnsInTime, ServingIsSeen, NotStartedIsError, Running, Listening, time, process
<1>1. CASE FindPort
  BY <1>1 DEF FindPort
<1>2. CASE NoPort
  BY <1>2 DEF NoPort
<1>3. CASE Loop
  <2>1. CASE clock >= deadline /\ Return("FAIL") /\ UNCHANGED since
    BY <1>3, <2>1 DEF Loop, Return
  <2>2. CASE clock < deadline /\ child = "failed" /\ Return("ERROR") /\ UNCHANGED since
    BY <1>3, <2>2 DEF Loop, Return
  <2>3. CASE clock < deadline /\ child = "exited" /\ Return("FAIL") /\ UNCHANGED since
    BY <1>3, <2>3 DEF Loop, Return
  <2>4. CASE /\ clock < deadline /\ child \notin {"failed", "exited"}
             /\ pc' = "fetch" /\ since' = clock
             /\ UNCHANGED <<result, killed>>
    BY <1>3, <2>4 DEF Loop
  <2> QED
    BY <1>3, <2>1, <2>2, <2>3, <2>4 DEF Loop
<1>4. CASE Answer
  BY <1>4 DEF Answer, Return
<1>5. CASE WrongAnswer
  BY <1>5 DEF WrongAnswer, Sleep
<1>6. CASE Abort
  BY <1>6 DEF Abort, Sleep
<1>7. CASE Wake
  BY <1>7 DEF Wake
<1> QED
  BY <1>1, <1>2, <1>3, <1>4, <1>5, <1>6, <1>7 DEF runProbe

(* So do time, the child and the other processes.                          *)
LEMMA EnvironmentStep ==
  ASSUME ProbeInv, Environment
  PROVE  ProbeInv'
<1> USE TimesAssumption DEF ProbeInv, TypeOK, TimeInv, ListenInv, ServingInv, FailedInv,
        ReturnsInTime, ServingIsSeen, NotStartedIsError, Running, Listening, time, process, Awaiting
<1>1. CASE Tick
  BY <1>1 DEF Tick
<1>2. CASE SpawnFails
  BY <1>2 DEF SpawnFails
<1>3. CASE TakePort
  BY <1>3 DEF TakePort
<1>4. CASE ChildTerminates
  BY <1>4 DEF ChildTerminates
<1>5. ASSUME NEW state \in Listening, ChildAnswers(state)
      PROVE  ProbeInv'
  BY <1>5 DEF ChildAnswers
<1>6. ASSUME NEW state \in {"exited", "signalled"}, ChildEnds(state)
      PROVE  ProbeInv'
  BY <1>6 DEF ChildEnds
<1> QED
  BY <1>1, <1>2, <1>3, <1>4, <1>5, <1>6 DEF Environment

(* The invariant holds in every behaviour of the probe.                    *)
THEOREM ProbeInvariant == Spec => []ProbeInv
<1>1. Init => ProbeInv
  <2> SUFFICES ASSUME Init PROVE ProbeInv
    OBVIOUS
  <2>1. TypeOK
    BY DEF Init, TypeOK
  <2>2. TimeInv /\ ListenInv /\ ServingInv /\ FailedInv
    BY DEF Init, TimeInv, ListenInv, ServingInv, FailedInv, Listening
  <2>3. ReturnsInTime /\ ServingIsSeen /\ NotStartedIsError
    BY DEF Init, ReturnsInTime, ServingIsSeen, NotStartedIsError
  <2> QED
    BY <2>1, <2>2, <2>3 DEF ProbeInv
<1>2. ProbeInv /\ [Next]_vars => ProbeInv'
  <2> SUFFICES ASSUME ProbeInv, [Next]_vars PROVE ProbeInv'
    OBVIOUS
  <2>1. CASE Next
    BY <2>1, RunProbeStep, EnvironmentStep DEF Next
  <2>2. CASE UNCHANGED vars
    BY <2>2 DEF vars, ProbeInv, TypeOK, TimeInv, ListenInv, ServingInv, FailedInv,
       ReturnsInTime, ServingIsSeen, NotStartedIsError
  <2> QED
    BY <2>1, <2>2
<1> QED
  BY <1>1, <1>2, PTL DEF Spec

(* The verdict of runProbe comes before the deadline plus one request and  *)
(* one pause, whatever the child does and whoever holds the port.          *)
THEOREM ProbeReturnsInTime == Spec => []ReturnsInTime
<1>1. ProbeInv => ReturnsInTime
  BY DEF ProbeInv
<1> QED
  BY <1>1, ProbeInvariant, PTL

(* A component that has served long enough before the deadline is never    *)
(* reported FAIL.                                                          *)
THEOREM ServingComponentIsSeen == Spec => []ServingIsSeen
<1>1. ProbeInv => ServingIsSeen
  BY DEF ProbeInv
<1> QED
  BY <1>1, ProbeInvariant, PTL

(* An executable that cannot be started is not blamed on the component.    *)
THEOREM FailedStartIsNoFail == Spec => []NotStartedIsError
<1>1. ProbeInv => NotStartedIsError
  BY DEF ProbeInv
<1> QED
  BY <1>1, ProbeInvariant, PTL

(***************************************************************************)
(* The contract check.                                                     *)
(***************************************************************************)

(* What an answer is the expected one of.                                  *)
LEMMA ExpectedBare ==
  ASSUME requests \in Seq(RequestKind), asked \in Nat, asked < Len(requests)
  PROVE  /\ asked + 1 \in DOMAIN requests
         /\ Expected /\ requests[asked + 1] = "bare" => ~ implemented
         /\ service = "serving" /\ NothingImplemented => Expected
  BY DEF Expected, NothingImplemented

(* The script's own steps keep the invariant.                              *)
LEMMA ScriptStep ==
  ASSUME CheckInv, Script
  PROVE  CheckInv'
<1> USE TimesAssumption, CheckAssumption
    DEF CheckInv, ScriptTypeOK, ScriptInv, ServiceInv, AnswersInv, SteadyInv, CheckIsRight, ServedInTime,
        Alive, Listening, checked, progress, serviceVars
<1>1. CASE StartScript
  BY <1>1 DEF StartScript, End, NothingImplemented
<1>2. CASE ScriptFails
  BY <1>2 DEF ScriptFails, End, NothingImplemented
<1>3. CASE Healthy
  <2>1. requests \in Seq(RequestKind) /\ requests # <<>>
    BY <1>3 DEF Healthy
  <2>2. 0 < Len(requests)
    BY <2>1
  <2> QED
    BY <1>3, <2>2 DEF Healthy, NothingImplemented
<1>4. CASE NotHealthy
  BY <1>4 DEF NotHealthy, NothingImplemented
<1>5. CASE PauseEnds
  <2>1. CASE elapsed > StartTimeout
    <3>1. steady /\ ~ foreign => upSince + Pause > StartTimeout
      BY <1>5, <2>1 DEF PauseEnds
    <3> QED
      BY <1>5, <2>1, <3>1 DEF PauseEnds, Throw, End, NothingImplemented
  <2>2. CASE ~ (elapsed > StartTimeout)
    BY <1>5, <2>2 DEF PauseEnds, NothingImplemented
  <2> QED
    BY <2>1, <2>2
<1>6. CASE Answered
  <2> USE <1>6 DEF Answered
  <2>1. script = "contract" /\ asked < Len(requests) /\ asked' = asked + 1
    BY DEF Answered
  <2>2. own' \in Nat /\ failures' \in BOOLEAN /\ (failures => failures')
    <3>1. CASE /\ listener = "child" /\ service \in {"serving", "sick"}
               /\ failures' = (failures \/ ~ Expected)
               /\ own' = IF Expected THEN own + 1 ELSE own
      BY <3>1
    <3>2. CASE listener = "other" /\ failures' \in {failures, TRUE} /\ own' = own
      BY <3>2
    <3> QED
      BY <3>1, <3>2
  <2>3. ~ foreign /\ ~ failures' =>
          own' = own + 1 /\ ~ failures /\ (requests[asked + 1] = "bare" => ~ implemented)
    BY ExpectedBare, <2>1 DEF Answered
  <2>4. steady /\ ~ foreign /\ failures' => ~ NothingImplemented
    BY ExpectedBare, <2>1 DEF Answered
  <2>5. UNCHANGED <<checked, elapsed, pausedAt, serviceVars>>
    BY DEF Answered
  <2>6. AnswersInv'
    BY <2>1, <2>2, <2>3, <2>5
  <2>7. SteadyInv'
    <3>1. script' # "pause"
      BY <2>1 DEF AfterAnswer, End
    <3>2. NothingImplemented' <=> NothingImplemented
      BY <2>5 DEF NothingImplemented
    <3> QED
      BY <2>4, <2>5, <3>1, <3>2
  <2>8. CASE asked' < Len(requests)
    <3>1. UNCHANGED <<script, verdict, signalled>>
      BY <2>8 DEF AfterAnswer
    <3> QED
      BY <2>1, <2>2, <2>5, <2>6, <2>7, <2>8, <3>1
  <2>9. CASE ~ (asked' < Len(requests))
    <3>1. signalled' = TRUE /\ asked' = Len(requests)
      BY <2>1, <2>9 DEF AfterAnswer
    <3>2. CASE failures'
      <4>1. script' = "ended" /\ verdict' = "FAIL"
        BY <2>9, <3>2 DEF AfterAnswer, End
      <4> QED
        BY <2>1, <2>2, <2>4, <2>5, <2>6, <2>7, <3>1, <3>2, <4>1 DEF NothingImplemented
    <3>3. CASE ~ failures'
      <4>1. script' = "leaving" /\ verdict' = verdict
        BY <2>9, <3>3 DEF AfterAnswer
      <4> QED
        BY <2>1, <2>2, <2>5, <2>6, <2>7, <3>1, <3>3, <4>1
    <3> QED
      BY <3>2, <3>3
  <2> QED
    BY <2>8, <2>9
<1>7. CASE Refused
  BY <1>7 DEF Refused, Throw, End, NothingImplemented
<1>8. CASE Leave
  BY <1>8 DEF Leave, End, NothingImplemented
<1> QED
  BY <1>1, <1>2, <1>3, <1>4, <1>5, <1>6, <1>7, <1>8 DEF Script

(* So do time, the service and the other processes.                        *)
LEMMA SurroundingsStep ==
  ASSUME CheckInv, Surroundings
  PROVE  CheckInv'
<1> USE TimesAssumption, CheckAssumption
    DEF CheckInv, ScriptTypeOK, ScriptInv, ServiceInv, AnswersInv, SteadyInv, CheckIsRight, ServedInTime,
        NothingImplemented, Alive, Listening, AtWork, checked, progress, serviceVars
<1>1. CASE TimeOut
  BY <1>1 DEF TimeOut, End
<1>2. CASE ScriptTick
  BY <1>2 DEF ScriptTick
<1>3. CASE ServiceEnds
  BY <1>3 DEF ServiceEnds
<1>4. CASE ServiceTerminates
  BY <1>4 DEF ServiceTerminates
<1>5. CASE TakeServicePort
  BY <1>5 DEF TakeServicePort
<1>6. ASSUME NEW state \in Listening, ServiceAnswers(state)
      PROVE  CheckInv'
  BY <1>6 DEF ServiceAnswers
<1> QED
  BY <1>1, <1>2, <1>3, <1>4, <1>5, <1>6 DEF Surroundings

(* A step of both checks is a step of the probe or leaves it alone: what   *)
(* ProbeProofs shows of runProbe holds of the probe before a contract      *)
(* check.                                                                  *)
LEMMA ChecksContainTheProbe == CheckSpec => Spec
<1>1. CheckInit => Init
  BY DEF CheckInit
<1>2. [CheckNext]_allVars => [Next]_vars
  BY DEF CheckNext, allVars
<1> QED
  BY <1>1, <1>2, PTL DEF CheckSpec, Spec

(* The invariant holds in every behaviour of the checks.                   *)
THEOREM CheckInvariant == CheckSpec => []CheckInv
<1>1. CheckInit => CheckInv
  <2> SUFFICES ASSUME CheckInit PROVE CheckInv
    OBVIOUS
  <2> USE DEF CheckInv, ScriptTypeOK, ScriptInv, ServiceInv, AnswersInv, SteadyInv, CheckIsRight,
          ServedInTime, NothingImplemented
  <2>1. ScriptTypeOK
    BY DEF CheckInit, Alive
  <2>2. ScriptInv /\ ServiceInv /\ SteadyInv /\ CheckIsRight
    BY DEF CheckInit, Alive, Listening
  <2>3. AnswersInv
    BY DEF CheckInit
  <2> QED
    BY <2>1, <2>2, <2>3
<1>2. CheckInv /\ [CheckNext]_allVars => CheckInv'
  <2> SUFFICES ASSUME CheckInv, [CheckNext]_allVars PROVE CheckInv'
    OBVIOUS
  <2> USE DEF CheckInv, ScriptTypeOK, ScriptInv, ServiceInv, AnswersInv, SteadyInv, CheckIsRight,
          ServedInTime, NothingImplemented
  <2>1. CASE Script \/ Surroundings
    BY <2>1, ScriptStep, SurroundingsStep
  <2>2. CASE UNCHANGED checkVars
    BY <2>2 DEF checkVars, checked, progress, serviceVars
  <2> QED
    BY <2>1, <2>2 DEF CheckNext, allVars
<1> QED
  BY <1>1, <1>2, PTL DEF CheckSpec

(* The verdict of the contract check is about the component, for every     *)
(* timeout and all contracts.                                              *)
THEOREM ContractCheckIsRight == CheckSpec => []CheckIsRight
<1>1. CheckInv => CheckIsRight
  BY DEF CheckInv
<1> QED
  BY <1>1, CheckInvariant, PTL

(* The state of the probe and of the script keeps its type.                *)
THEOREM ChecksAreTyped == CheckSpec => []CheckTypeOK
<1>1. ProbeInv /\ CheckInv => CheckTypeOK
  BY DEF ProbeInv, CheckInv, CheckTypeOK
<1> QED
  BY <1>1, ChecksContainTheProbe, ProbeInvariant, CheckInvariant, PTL

=============================================================================
