--------------------------- MODULE VerifierProofs ---------------------------
(***************************************************************************)
(* Theorems of Verifier, for every value of its constants: however the     *)
(* invocations overlap and die, and whatever the owner edits.              *)
(***************************************************************************)
EXTENDS Verifier, MaterializerProofs

(***************************************************************************)
(* The verification does not interfere.                                    *)
(***************************************************************************)

(* A verification changes nothing in the workspace and nothing that an     *)
(* invocation knows, so that the theorems of the materializer hold while   *)
(* it runs.                                                                *)
LEMMA VerificationIsHarmless == VSpec => Spec
<1>1. VInit => Init
  BY DEF VInit
<1>2. [VNext]_allVars => [Next]_vars
  BY DEF VNext, allVars
<1> QED
  BY <1>1, <1>2, PTL DEF VSpec, Spec

(***************************************************************************)
(* What a record was made from.                                            *)
(***************************************************************************)

(* A component is planned only by an adapter that the plan names.          *)
LEMMA PlannedHasStep ==
  ASSUME NEW q \in Request, NEW c \in Component, Plan[q][c] # Null
  PROVE  PlanResult[q].steps[c] \in Step
<1>1. PlanResult[q] \in PlanResults
  BY PlanResultAssumption
<1>2. materializes(PlanResult[q], c)
  BY DEF Plan, planMaterialization
<1> QED
  BY <1>1, <1>2 DEF materializes, PlanResults

(* A record, stored or held by a run, was planned for its component.       *)
THEOREM RecordsArePlanned == Spec => []RecordsPlanned
<1>1. Init => RecordsPlanned
  BY DEF Init, RecordsPlanned, Working
<1>2. IInv /\ RecordsPlanned /\ [Next]_vars => RecordsPlanned'
  <2> SUFFICES ASSUME IInv, RecordsPlanned, [Next]_vars PROVE RecordsPlanned'
    OBVIOUS
  <2>1. ASSUME NEW c \in Component, NEW r \in Revision, store'[c][r] # Null
        PROVE  Plan[store'[c][r].request][c] # Null
    <3>1. CASE store' = store
      BY <2>1, <3>1 DEF RecordsPlanned
    <3>2. ASSUME NEW p \in Process, Supersedes(p) PROVE Plan[store'[c][r].request][c] # Null
      <4>1. Plan[superseded(previous[p]).request][current[p]] # Null
        BY <3>2 DEF Supersedes, superseded, Record, RecordsPlanned
      <4>2. store'[c][r] = store[c][r] \/ (c = current[p] /\ store'[c][r] = superseded(previous[p]))
        BY <3>2, StoreEntries DEF Supersedes
      <4> QED
        BY <2>1, <4>1, <4>2 DEF RecordsPlanned
    <3>3. ASSUME NEW p \in Process, Stores(p) PROVE Plan[store'[c][r].request][c] # Null
      <4>1. Plan[materializationRecord(p).request][current[p]] # Null
        BY <3>3 DEF Stores, materializationRecord, IInv, LocalsOK, LocalOK, artifacts
      <4>2. store'[c][r] = store[c][r] \/ (c = current[p] /\ store'[c][r] = materializationRecord(p))
        BY <3>3, StoreEntries DEF Stores
      <4> QED
        BY <2>1, <4>1, <4>2 DEF RecordsPlanned
    <3> QED
      BY <3>1, <3>2, <3>3, StoreWrites
  <2>2. ASSUME NEW o \in Process, Working(o)', previous'[o] # Null
        PROVE  Plan[previous'[o].request][current'[o]] # Null
    <3>1. CASE ReadInventory(o)
      BY <2>2, <3>1, ReadsInventory, RecordAssumption DEF RecordsPlanned
    <3>2. CASE ~ ReadInventory(o)
      BY <2>2, <3>2, StillWorking DEF RecordsPlanned
    <3> QED
      BY <3>1, <3>2
  <2>3. \A c \in Component, r \in Revision :
          store'[c][r] # Null => Plan[store'[c][r].request][c] # Null
    BY <2>1
  <2>4. \A o \in Process :
          Working(o)' /\ previous'[o] # Null => Plan[previous'[o].request][current'[o]] # Null
    BY <2>2
  <2> QED
    BY <2>3, <2>4 DEF RecordsPlanned
<1> QED
  BY <1>1, <1>2, TypeCorrect, PTL DEF Spec

(* An adapter is found for a record, or none.                              *)
LEMMA ExtensionType ==
  ASSUME NEW record \in Record, NEW c \in Component, Plan[record.request][c] # Null,
         extension(c, record) # Null
  PROVE  \E a \in Adapter : VerifyHost[a] # Null /\ extension(c, record) = VerifyHost[a]
<1>1. record.request \in Request
  BY DEF Record
<1>2. PlanResult[record.request].steps[c] \in Step
  BY <1>1, PlannedHasStep
<1> QED
  BY <1>2 DEF extension, Step

(* The checks of a loaded adapter.                                         *)
LEMMA ManifestType ==
  ASSUME NEW a \in Adapter, VerifyHost[a] # Null, NEW checks, checks = VerifyHost[a].verification
  PROVE  /\ checks \in Seq(VerificationCheck)
         /\ DOMAIN checks = 1 .. Len(checks) /\ Len(checks) \in Nat
         /\ \A i \in DOMAIN checks : checks[i] \in VerificationCheck
         /\ \A i, j \in DOMAIN checks : checks[i].id = checks[j].id => i = j
         /\ \E i \in DOMAIN checks : checks[i].level = "STRUCTURAL"
<1>1. VerifyHost[a] \in Manifest
  BY VerifyAssumption
<1>2. checks \in Seq(VerificationCheck)
  BY <1>1 DEF Manifest
<1> QED
  BY <1>2, ManifestAssumption

(***************************************************************************)
(* Types.                                                                  *)
(***************************************************************************)
VIInv == VTypeOK /\ CheckingOK

(* What the component under verification is checked with.                  *)
LEMMA CheckingType ==
  ASSUME VIInv, vpc = "check"
  PROVE  /\ component \in Component /\ materialization \in Record /\ index \in Nat \ {0}
         /\ verification \in Seq(VerificationCheck)
         /\ DOMAIN verification = 1 .. Len(verification) /\ Len(verification) \in Nat
         /\ \A i \in DOMAIN verification : verification[i] \in VerificationCheck
         /\ \A i, j \in DOMAIN verification : verification[i].id = verification[j].id => i = j
         /\ \E i \in DOMAIN verification : verification[i].level = "STRUCTURAL"
<1>1. PICK a \in Adapter : Checking(component, a) /\ component \in Component
  BY DEF VIInv, CheckingOK, Checking
<1>2. verification = VerifyHost[a].verification
  BY <1>1 DEF verification, Checking
<1> QED
  BY <1>1, <1>2, ManifestType DEF VIInv, CheckingOK, Checking

(* What is produced is evidence.                                           *)
LEMMA ProduceType ==
  ASSUME VIInv, vpc = "check", index <= Len(verification),
         NEW result \in EvidenceResult, Produce(result)
  PROVE  evidence' \subseteq Evidence
<1>1. component \in Component /\ materialization \in Record /\ check.id \in Check
  BY CheckingType DEF check, VerificationCheck
<1>2. pinnedRef(materialization) \in Pin
  BY <1>1 DEF pinnedRef, Record, Pin
<1> QED
  BY <1>1, <1>2 DEF Produce, Evidence, VIInv, VTypeOK

(* The verification stays well typed, and checks a component only with an  *)
(* adapter it has loaded.                                                  *)
THEOREM VerifierTypes == VSpec => []VIInv
<1>1. VInit /\ TypeOK => VIInv
  <2> SUFFICES ASSUME VInit, TypeOK PROVE VTypeOK /\ CheckingOK
    BY DEF VIInv
  <2>1. 0 \in 0 .. MaxVerifies
    BY VerifyAssumption
  <2>2. evidenceOut \in [Component -> [Check -> Evidence \union {Null}]]
    BY DEF VInit
  <2>3. VTypeOK
    BY <2>1, <2>2 DEF VInit, VTypeOK
  <2> QED
    BY <2>3 DEF VInit, CheckingOK
<1>2. IInv /\ IInv' /\ RecordsPlanned /\ VIInv /\ [VNext]_allVars => VIInv'
  <2> SUFFICES ASSUME IInv, IInv', RecordsPlanned, VIInv, [VNext]_allVars PROVE VIInv'
    OBVIOUS
  <2>0. TypeOK /\ TypeOK' /\ VTypeOK /\ CheckingOK
    BY DEF IInv, VIInv
  <2>1. CASE UNCHANGED allVars
    BY <2>0, <2>1 DEF allVars, verifier, VIInv, VTypeOK, CheckingOK, Checking
  <2>2. CASE Next /\ disturbed' = (disturbed \/ Verifying) /\ UNCHANGED verifier
    <3>1. disturbed' \in BOOLEAN
      BY <2>0, <2>2 DEF VTypeOK, Verifying
    <3> QED
      BY <2>0, <2>2, <3>1 DEF verifier, VIInv, VTypeOK, CheckingOK, Checking
  <2>3. ASSUME NEW on \in BOOLEAN, VBegin(on), disturbed' = FALSE, UNCHANGED vars PROVE VIInv'
    <3>1. verifies' \in 0 .. MaxVerifies
      BY <2>0, <2>3, VerifyAssumption DEF VBegin, VTypeOK
    <3>2. components' \subseteq Component /\ vpc' = "scan"
      BY <2>3 DEF VBegin
    <3>3. VTypeOK'
      BY <2>0, <2>3, <3>1, <3>2 DEF VBegin, VTypeOK
    <3> QED
      BY <3>2, <3>3 DEF VIInv, CheckingOK
  <2>4. CASE VRead /\ UNCHANGED <<vars, disturbed>>
    <3>1. PICK c \in components, r \in Revision :
            /\ isLatest(c, r)
            /\ components' = components \ {c}
            /\ IF extension(c, store[c][r]) = Null
               THEN /\ skipped' = skipped \union {c}
                    /\ UNCHANGED <<vpc, component, materialization, index, unread, mismatches, blocked>>
               ELSE /\ component' = c
                    /\ materialization' = store[c][r]
                    /\ index' = 1
                    /\ unread' = recorded(store[c][r])
                    /\ mismatches' = {}
                    /\ blocked' = FALSE
                    /\ vpc' = "check"
                    /\ UNCHANGED skipped
      BY <2>4 DEF VRead
    <3>2. UNCHANGED <<toolchain, evidence, evidenceOut, verifies>> /\ UNCHANGED <<vars, disturbed>>
          /\ vpc = "scan"
      BY <2>4 DEF VRead
    <3>3. c \in Component /\ store[c][r] \in Record /\ Plan[store[c][r].request][c] # Null
      <4>1. c \in Component
        BY <2>0 DEF VTypeOK
      <4>2. store[c][r] # Null
        BY <3>1, BoundsAssumption DEF isLatest, Revision
      <4> QED
        BY <2>0, <4>1, <4>2 DEF TypeOK, RecordsPlanned
    <3>4. CASE extension(c, store[c][r]) = Null
      BY <2>0, <3>1, <3>2, <3>3, <3>4 DEF VIInv, VTypeOK, CheckingOK, Checking
    <3>5. CASE extension(c, store[c][r]) # Null
      <4>1. \E a \in Adapter : VerifyHost[a] # Null /\ extension(c, store[c][r]) = VerifyHost[a]
        BY <3>3, <3>5, ExtensionType
      <4>2. recorded(store[c][r]) \subseteq Path
        BY DEF recorded
      <4>3. VTypeOK'
        <5>1. /\ component' \in Component /\ materialization' \in Record /\ index' \in Nat
              /\ unread' \subseteq Path /\ mismatches' \subseteq Path /\ vpc' = "check"
              /\ skipped' = skipped
          BY <3>1, <3>3, <3>5, <4>2
        <5>2. blocked' = FALSE
          BY <3>1, <3>5
        <5>3. components' \subseteq Component
          BY <2>0, <3>1 DEF VTypeOK
        <5> QED
          BY <2>0, <3>2, <5>1, <5>2, <5>3 DEF VTypeOK
      <4>4. CheckingOK'
        <5>1. component' = c /\ materialization' = store[c][r] /\ index' = 1
          BY <3>1, <3>5
        <5>2. PICK a \in Adapter : VerifyHost[a] # Null /\ extension(c, store[c][r]) = VerifyHost[a]
          BY <4>1
        <5>3. extension(component, materialization)' = VerifyHost[a]
          BY <5>1, <5>2 DEF extension
        <5> QED
          BY <3>1, <3>3, <3>5, <5>1, <5>2, <5>3 DEF CheckingOK, Checking
      <4> QED
        BY <4>3, <4>4 DEF VIInv
    <3> QED
      BY <3>4, <3>5
  <2>5. CASE (VReadFails \/ VPortFails \/ VLeave) /\ UNCHANGED <<vars, disturbed>>
    BY <2>0, <2>5 DEF VReadFails, VPortFails, VLeave, VIInv, VTypeOK, CheckingOK, Checking
  <2>6. CASE VReadFile /\ UNCHANGED <<vars, disturbed>>
    BY <2>0, <2>6 DEF VReadFile, VIInv, VTypeOK, CheckingOK, Checking
  <2>7. CASE (VStructural \/ VOff \/ VBlocked \/ VToolchain) /\ UNCHANGED <<vars, disturbed>>
    <3>1. vpc = "check" /\ index <= Len(verification) /\ Advance /\ blocked' \in BOOLEAN
      BY <2>0, <2>7 DEF VStructural, VOff, VBlocked, VToolchain, VTypeOK
    <3>2. evidence' \subseteq Evidence
      <4>1. CASE VOff
        BY <2>0, <4>1 DEF VOff, VTypeOK
      <4>2. ASSUME NEW result \in EvidenceResult, Produce(result) PROVE evidence' \subseteq Evidence
        BY <3>1, <4>2, ProduceType
      <4>3. CASE VStructural \/ VBlocked \/ VToolchain
        <5>1. \E result \in EvidenceResult : Produce(result)
          BY <4>3 DEF VStructural, VBlocked, VToolchain, EvidenceResult
        <5> QED
          BY <4>2, <5>1
      <4> QED
        BY <2>7, <4>1, <4>3
    <3>3. recorded(materialization) \subseteq Path
      BY DEF recorded
    <3> QED
      BY <2>0, <2>7, <3>1, <3>2, <3>3 DEF Advance, VIInv, VTypeOK, CheckingOK, Checking
  <2>8. CASE VFinish /\ UNCHANGED <<vars, disturbed>>
    <3>1. \A c \in Component, k \in Check :
            (\E e \in evidence : e.component = c /\ e.check = k) =>
              (CHOOSE e \in evidence : e.component = c /\ e.check = k) \in Evidence
      BY <2>0 DEF VTypeOK
    <3>2. evidenceOut' \in [Component -> [Check -> Evidence \union {Null}]]
      BY <2>0, <2>8, <3>1 DEF VFinish, VTypeOK
    <3> QED
      BY <2>0, <2>8, <3>2 DEF VFinish, VIInv, VTypeOK, CheckingOK, Checking
  <2> QED
    BY <2>1, <2>2, <2>3, <2>4, <2>5, <2>6, <2>7, <2>8 DEF VNext, Verify
<1>3. IInv => TypeOK
  BY DEF IInv
<1> QED
  BY <1>1, <1>2, <1>3, VerificationIsHarmless, TypeCorrect, RecordsArePlanned, PTL DEF VSpec

(***************************************************************************)
(* What has been found out.                                                *)
(***************************************************************************)

(* What is known of a component rests on its evidence alone.               *)
LEMMA FindingsFrame ==
  ASSUME NEW c, NEW checks, disk' = disk, store' = store, toolchain' = toolchain,
         \A e : e.component = c => (e \in evidence' <=> e \in evidence)
  PROVE  /\ \A k : evidenceOf(c, k)' = evidenceOf(c, k)
         /\ Accounted(c, checks) => Accounted(c, checks)'
         /\ \A i \in DOMAIN checks : AccountedFor(c, checks, i) => AccountedFor(c, checks, i)'
         /\ \A r : Truthful(c, checks, r) => Truthful(c, checks, r)'
<1>1. \A k : evidenceOf(c, k)' = evidenceOf(c, k)
  BY DEF evidenceOf
<1>2. \A k : notPassed(c, k)' <=> notPassed(c, k)
  BY <1>1 DEF notPassed
<1>3. ASSUME NEW i \in DOMAIN checks, AccountedFor(c, checks, i) PROVE AccountedFor(c, checks, i)'
  BY <1>1, <1>2, <1>3 DEF AccountedFor
<1>4. Accounted(c, checks) => Accounted(c, checks)'
  BY <1>3 DEF Accounted
<1>5. ASSUME NEW r, Truthful(c, checks, r) PROVE Truthful(c, checks, r)'
  BY <1>1, <1>5 DEF Truthful
<1> QED
  BY <1>1, <1>3, <1>4, <1>5

(* A directory that is finished stays so while nothing it was checked      *)
(* against changes.                                                        *)
LEMMA FinishedFrame ==
  ASSUME NEW c, Finished(c), disk' = disk, store' = store, toolchain' = toolchain,
         skipped \subseteq skipped',
         \A e : e.component = c => (e \in evidence' <=> e \in evidence)
  PROVE  Finished(c)'
<1> SUFFICES ASSUME NEW r \in Revision, isLatest(c, r)'
             PROVE  /\ extension(c, store[c][r])' = Null => c \in skipped'
                    /\ \A a \in Adapter : VerifyHost[a] # Null /\ extension(c, store[c][r])' = VerifyHost[a] =>
                         /\ Accounted(c, VerifyHost[a].verification)'
                         /\ Truthful(c, VerifyHost[a].verification, r)'
  BY DEF Finished
<1>1. isLatest(c, r)
  BY DEF isLatest
<1>2. extension(c, store[c][r])' = extension(c, store[c][r])
  BY DEF extension
<1>3. ASSUME NEW a \in Adapter, VerifyHost[a] # Null, extension(c, store[c][r]) = VerifyHost[a]
      PROVE  Accounted(c, VerifyHost[a].verification)' /\ Truthful(c, VerifyHost[a].verification, r)'
  <2>1. Accounted(c, VerifyHost[a].verification) /\ Truthful(c, VerifyHost[a].verification, r)
    BY <1>1, <1>3 DEF Finished
  <2> QED
    BY <2>1, FindingsFrame
<1> QED
  BY <1>1, <1>2, <1>3 DEF Finished

(* A check that is made is accounted for, and nothing else changes.        *)
LEMMA UnderwayStep ==
  ASSUME NEW c, NEW r, NEW checks, NEW n \in DOMAIN checks,
         DOMAIN checks \subseteq Nat,
         \A i \in DOMAIN checks : 1 .. (i - 1) \subseteq DOMAIN checks /\ i >= 1,
         \A i, j \in DOMAIN checks : checks[i].id = checks[j].id => i = j,
         Underway(c, checks, r), n = index,
         index' = n + 1, toolchain' = toolchain, disk' = disk, store' = store,
         structural(disk[c], store[c][r].files) \subseteq mismatches' \union unread',
         NEW e, e.component = c, e.check = checks[n].id, evidence' = evidence \union {e},
         checks[n].level = "TOOLCHAIN" => toolchain,
         e.result = "INCONCLUSIVE" <=> checks[n].level = "TOOLCHAIN" /\ blocked,
         blocked' <=> blocked \/ (checks[n].level = "TOOLCHAIN" /\ e.result # "PASS"),
         checks[n].level = "STRUCTURAL" /\ e.result = "PASS" =>
           structural(disk[c], store[c][r].files) = {}
  PROVE  Underway(c, checks, r)'
<1>1. evidenceOf(c, checks[n]) = {}
  BY DEF Underway
<1>2. \A i \in DOMAIN checks : i # n => evidenceOf(c, checks[i])' = evidenceOf(c, checks[i])
  BY DEF evidenceOf
<1>3. evidenceOf(c, checks[n])' = {e}
  <2>1. evidenceOf(c, checks[n])' = evidenceOf(c, checks[n]) \union {e}
    BY DEF evidenceOf
  <2> QED
    BY <1>1, <2>1
<1>4. \A i \in DOMAIN checks : i # n => (notPassed(c, checks[i])' <=> notPassed(c, checks[i]))
  BY <1>2 DEF notPassed
<1>5. notPassed(c, checks[n])' <=> checks[n].level = "TOOLCHAIN" /\ e.result # "PASS"
  BY <1>3 DEF notPassed
<1>6. blocked <=> \E j \in 1 .. (n - 1) : notPassed(c, checks[j])'
  <2>1. blocked <=> \E j \in DOMAIN checks : j < n /\ notPassed(c, checks[j])
    BY DEF Underway
  <2>2. \A j \in 1 .. (n - 1) : j \in DOMAIN checks /\ j # n /\ j < n
    OBVIOUS
  <2>3. \A j \in DOMAIN checks : j < n => j \in 1 .. (n - 1)
    OBVIOUS
  <2> QED
    BY <1>4, <2>1, <2>2, <2>3
<1>7. AccountedFor(c, checks, n)'
  BY <1>3, <1>6 DEF AccountedFor
<1>8. ASSUME NEW i \in DOMAIN checks, i < n PROVE AccountedFor(c, checks, i)'
  <2>1. AccountedFor(c, checks, i)
    BY <1>8 DEF Underway
  <2>2. \A j \in 1 .. (i - 1) : notPassed(c, checks[j])' <=> notPassed(c, checks[j])
    BY <1>4, <1>8
  <2>3. evidenceOf(c, checks[i])' = evidenceOf(c, checks[i])
    BY <1>2, <1>8
  <2> QED
    BY <2>1, <2>2, <2>3 DEF AccountedFor
<1>9. ASSUME NEW i \in DOMAIN checks
      PROVE  IF i < index' THEN AccountedFor(c, checks, i)' ELSE evidenceOf(c, checks[i])' = {}
  <2>1. CASE i < n
    BY <1>8, <2>1
  <2>2. CASE i = n
    BY <1>7, <2>2
  <2>3. CASE i > n
    BY <1>2, <2>3 DEF Underway
  <2> QED
    BY <2>1, <2>2, <2>3
<1>10. Truthful(c, checks, r)'
  <2> SUFFICES ASSUME NEW i \in DOMAIN checks, checks[i].level = "STRUCTURAL",
                      NEW f \in evidenceOf(c, checks[i])', f.result = "PASS"
               PROVE  structural(disk[c], store[c][r].files) = {}
    BY DEF Truthful
  <2>1. CASE i = n
    BY <1>3, <2>1
  <2>2. CASE i # n
    BY <1>2, <2>2 DEF Underway, Truthful
  <2> QED
    BY <2>1, <2>2
<1>11. blocked' <=> \E j \in DOMAIN checks : j < index' /\ notPassed(c, checks[j])'
  <2>1. \A j \in DOMAIN checks : j < n + 1 <=> j = n \/ j \in 1 .. (n - 1)
    OBVIOUS
  <2>2. \A j \in 1 .. (n - 1) : j \in DOMAIN checks
    OBVIOUS
  <2> QED
    BY <1>5, <1>6, <2>1, <2>2
<1> QED
  BY <1>9, <1>10, <1>11 DEF Underway

(* So is one that is not made without the toolchain.                       *)
LEMMA UnderwayOff ==
  ASSUME NEW c, NEW r, NEW checks, NEW n \in DOMAIN checks, DOMAIN checks \subseteq Nat,
         Underway(c, checks, r), n = index,
         index' = n + 1, toolchain' = toolchain, disk' = disk, store' = store, evidence' = evidence,
         blocked' = blocked, checks[n].level = "TOOLCHAIN", ~ toolchain,
         structural(disk[c], store[c][r].files) \subseteq mismatches' \union unread'
  PROVE  Underway(c, checks, r)'
<1>1. \A k : evidenceOf(c, k)' = evidenceOf(c, k)
  BY DEF evidenceOf
<1>2. \A k : notPassed(c, k)' <=> notPassed(c, k)
  BY <1>1 DEF notPassed
<1>3. \A i \in DOMAIN checks : AccountedFor(c, checks, i) => AccountedFor(c, checks, i)'
  BY <1>1, <1>2 DEF AccountedFor
<1>4. evidenceOf(c, checks[n]) = {} /\ ~ notPassed(c, checks[n]) /\ AccountedFor(c, checks, n)
  BY DEF Underway, notPassed, AccountedFor
<1>5. \A i \in DOMAIN checks :
        IF i < index' THEN AccountedFor(c, checks, i)' ELSE evidenceOf(c, checks[i])' = {}
  <2> SUFFICES ASSUME NEW i \in DOMAIN checks
               PROVE  IF i < index' THEN AccountedFor(c, checks, i)' ELSE evidenceOf(c, checks[i])' = {}
    OBVIOUS
  <2>1. CASE i < n
    BY <1>3, <2>1 DEF Underway
  <2>2. CASE i = n
    BY <1>3, <1>4, <2>2
  <2>3. CASE i > n
    BY <1>1, <2>3 DEF Underway
  <2> QED
    BY <2>1, <2>2, <2>3
<1>6. Truthful(c, checks, r)'
  BY <1>1 DEF Underway, Truthful
<1>7. blocked' <=> \E j \in DOMAIN checks : j < index' /\ notPassed(c, checks[j])'
  <2>1. blocked <=> \E j \in DOMAIN checks : j < n /\ notPassed(c, checks[j])
    BY DEF Underway
  <2>2. \A j \in DOMAIN checks : j < n + 1 <=> j = n \/ j < n
    OBVIOUS
  <2> QED
    BY <1>2, <1>4, <2>1, <2>2
<1> QED
  BY <1>5, <1>6, <1>7 DEF Underway

(* There is at most one latest record.                                     *)
LEMMA OneLatest ==
  ASSUME NEW c \in Component, NEW r \in Revision, NEW s \in Revision, isLatest(c, r), isLatest(c, s)
  PROVE  r = s
BY BoundsAssumption DEF isLatest, Revision

(* The next directory.                                                     *)
LEMMA ProgressRead ==
  ASSUME VIInv, Progress, VRead, UNCHANGED <<vars, disturbed>>
  PROVE  Progress'
<1> SUFFICES ASSUME ~ disturbed
             PROVE  /\ \A e \in evidence' : e.component \notin components'
                    /\ \A c \in Component \ components' : (vpc' = "check" => c # component') => Finished(c)'
                    /\ \A c \in Component, a \in Adapter : Checking(c, a)' =>
                         /\ c \notin components'
                         /\ \E r \in Revision :
                              /\ isLatest(c, r)' /\ store'[c][r] = materialization'
                              /\ Underway(c, VerifyHost[a].verification, r)'
  BY DEF Progress
<1>1. PICK c \in components, r \in Revision :
        /\ isLatest(c, r)
        /\ components' = components \ {c}
        /\ IF extension(c, store[c][r]) = Null
           THEN /\ skipped' = skipped \union {c}
                /\ UNCHANGED <<vpc, component, materialization, index, unread, mismatches, blocked>>
           ELSE /\ component' = c
                /\ materialization' = store[c][r]
                /\ index' = 1
                /\ unread' = recorded(store[c][r])
                /\ mismatches' = {}
                /\ blocked' = FALSE
                /\ vpc' = "check"
                /\ UNCHANGED skipped
  BY DEF VRead
<1>2. /\ vpc = "scan" /\ Verifying /\ c \in Component
      /\ toolchain' = toolchain /\ evidence' = evidence /\ disk' = disk /\ store' = store
  BY DEF VRead, Verifying, vars, workspace, VIInv, VTypeOK
<1>3. skipped \subseteq skipped'
  BY <1>1
<1>4. \A e \in evidence : e.component \notin components
  BY <1>2 DEF Progress
<1>5. ASSUME NEW d \in Component \ components PROVE Finished(d)'
  <2>1. Finished(d)
    BY <1>2, <1>5 DEF Progress
  <2> QED
    BY <1>2, <1>3, <2>1, FinishedFrame
<1>6. CASE extension(c, store[c][r]) = Null
  <2>1. vpc' = "scan" /\ c \in skipped'
    BY <1>1, <1>2, <1>6
  <2>2. Finished(c)'
    <3> SUFFICES ASSUME NEW s \in Revision, isLatest(c, s)'
                 PROVE  extension(c, store[c][s])' = Null
      BY <2>1, VerifyAssumption DEF Finished
    <3>1. s = r
      BY <1>1, <1>2, OneLatest DEF isLatest
    <3>2. store'[c][s] = store[c][r]
      BY <1>1, <1>2, <3>1
    <3>3. extension(c, store'[c][s]) = Null
      BY <1>6, <3>2
    <3> QED
      BY <3>2, <3>3 DEF extension
  <2>3. \A d \in Component \ components' : d = c \/ d \in Component \ components
    BY <1>1
  <2> QED
    BY <1>1, <1>2, <1>4, <1>5, <2>1, <2>2, <2>3 DEF Checking
<1>7. CASE extension(c, store[c][r]) # Null
  <2>1. /\ vpc' = "check" /\ component' = c /\ materialization' = store[c][r] /\ index' = 1
        /\ unread' = recorded(store[c][r]) /\ mismatches' = {}
    BY <1>1, <1>7
  <2>2. blocked' = FALSE
    BY <1>1, <1>7
  <2>3. ASSUME NEW a \in Adapter, VerifyHost[a] # Null
        PROVE  Underway(c, VerifyHost[a].verification, r)'
    <3>1. PICK checks : checks = VerifyHost[a].verification
      OBVIOUS
    <3>2. DOMAIN checks \subseteq Nat \ {0}
      BY <2>3, <3>1, ManifestType
    <3>3. \A k : evidenceOf(c, k)' = {}
      BY <1>2, <1>4 DEF evidenceOf
    <3>4. structural(disk[c], store[c][r].files) \subseteq recorded(store[c][r])
      BY DEF structural, recorded
    <3>5. \A i \in DOMAIN checks : ~ (i < 1)
      BY <3>2
    <3>6. Truthful(c, checks, r)'
      BY <3>3 DEF Truthful
    <3>7. Underway(c, checks, r)'
      BY <1>2, <2>1, <2>2, <3>3, <3>4, <3>5, <3>6 DEF Underway
    <3> QED
      BY <3>1, <3>7
  <2>4. isLatest(c, r)'
    BY <1>1, <1>2 DEF isLatest
  <2> QED
    BY <1>1, <1>2, <1>4, <1>5, <2>1, <2>3, <2>4 DEF Checking
<1> QED
  BY <1>6, <1>7

(* A step of the component under verification: what is known of the others *)
(* stays known, and of it what is known afterwards.                        *)
LEMMA ProgressCheck ==
  ASSUME VIInv, Progress, ~ disturbed, vpc = "check",
         vpc' = vpc, component' = component, components' = components, skipped' = skipped,
         materialization' = materialization, toolchain' = toolchain, disk' = disk, store' = store,
         \A e : e.component # component => (e \in evidence' <=> e \in evidence),
         \A e \in evidence' : e \in evidence \/ e.component = component,
         \A r \in Revision, a \in Adapter :
           /\ Checking(component, a) /\ isLatest(component, r)
           /\ store[component][r] = materialization
           => \A c \in Component : c = component /\ Underway(c, VerifyHost[a].verification, r) =>
                Underway(c, VerifyHost[a].verification, r)'
  PROVE  Progress'
<1>0. Verifying /\ component \in Component
  BY CheckingType DEF Verifying
<1>1. PICK a0 \in Adapter : Checking(component, a0)
  BY DEF VIInv, CheckingOK, Checking
<1>2. component \notin components
  BY <1>0, <1>1 DEF Progress
<1>3. \A e \in evidence' : e.component \notin components'
  BY <1>0, <1>2 DEF Progress
<1>4. ASSUME NEW d \in Component \ components, d # component PROVE Finished(d)'
  <2>1. Finished(d)
    BY <1>0, <1>4 DEF Progress
  <2>2. \A e : e.component = d => (e \in evidence' <=> e \in evidence)
    BY <1>4
  <2> QED
    BY <2>1, <2>2, FinishedFrame
<1>5. ASSUME NEW c \in Component, NEW a \in Adapter, Checking(c, a)'
      PROVE  /\ c \notin components'
             /\ \E r \in Revision :
                  /\ isLatest(c, r)' /\ store'[c][r] = materialization'
                  /\ Underway(c, VerifyHost[a].verification, r)'
  <2>1. c = component /\ Checking(c, a)
    BY <1>5 DEF Checking, extension
  <2>2. PICK r \in Revision :
          /\ isLatest(c, r) /\ store[c][r] = materialization
          /\ Underway(c, VerifyHost[a].verification, r)
    BY <1>0, <2>1 DEF Progress
  <2>3. Underway(c, VerifyHost[a].verification, r)'
    BY <2>1, <2>2
  <2>4. isLatest(c, r)'
    BY <2>2 DEF isLatest
  <2> QED
    BY <1>2, <2>1, <2>2, <2>3, <2>4
<1> QED
  BY <1>3, <1>4, <1>5 DEF Progress

(* One file is read.                                                       *)
LEMMA ProgressReadFile ==
  ASSUME VIInv, Progress, ~ disturbed, VReadFile, UNCHANGED <<vars, disturbed>>
  PROVE  Progress'
<1>1. /\ vpc = "check" /\ vpc' = vpc /\ component' = component /\ components' = components
      /\ skipped' = skipped /\ materialization' = materialization /\ toolchain' = toolchain
      /\ disk' = disk /\ store' = store /\ evidence' = evidence /\ index' = index /\ blocked' = blocked
  BY DEF VReadFile, vars, workspace
<1>2. PICK file \in unread :
        /\ unread' = unread \ {file}
        /\ mismatches' = IF mismatch(disk[component][file], materialization.files[file])
                         THEN mismatches \union {file} ELSE mismatches
  BY DEF VReadFile
<1>3. ASSUME NEW r \in Revision, NEW a \in Adapter, NEW c \in Component, c = component,
             store[c][r] = materialization, Underway(c, VerifyHost[a].verification, r)
      PROVE  Underway(c, VerifyHost[a].verification, r)'
  <2>1. PICK checks : checks = VerifyHost[a].verification
    OBVIOUS
  <2>2. /\ \A k : evidenceOf(c, k)' = evidenceOf(c, k)
        /\ \A i \in DOMAIN checks : AccountedFor(c, checks, i) => AccountedFor(c, checks, i)'
        /\ Truthful(c, checks, r) => Truthful(c, checks, r)'
    BY <1>1, FindingsFrame
  <2>3. \A k : notPassed(c, k)' <=> notPassed(c, k)
    BY <2>2 DEF notPassed
  <2>4. structural(disk[c], store[c][r].files) \subseteq mismatches \union unread =>
          structural(disk[c], store[c][r].files) \subseteq mismatches' \union unread'
    <3> SUFFICES ASSUME structural(disk[c], store[c][r].files) \subseteq mismatches \union unread,
                        NEW path \in structural(disk[c], store[c][r].files)
                 PROVE  path \in mismatches' \union unread'
      OBVIOUS
    <3>1. CASE path = file
      BY <1>2, <1>3, <3>1 DEF structural
    <3>2. CASE path # file
      BY <1>2, <3>2
    <3> QED
      BY <3>1, <3>2
  <2>5. Underway(c, checks, r)'
    <3>1. \A i \in DOMAIN checks :
            IF i < index' THEN AccountedFor(c, checks, i)' ELSE evidenceOf(c, checks[i])' = {}
      BY <1>1, <1>3, <2>1, <2>2 DEF Underway
    <3>2. blocked' <=> \E j \in DOMAIN checks : j < index' /\ notPassed(c, checks[j])'
      BY <1>1, <1>3, <2>1, <2>3 DEF Underway
    <3> QED
      BY <1>1, <1>3, <2>1, <2>2, <2>4, <3>1, <3>2 DEF Underway
  <2> QED
    BY <2>1, <2>5
<1> QED
  BY <1>1, <1>3, ProgressCheck

(* One check is made.                                                      *)
LEMMA ProgressMade ==
  ASSUME VIInv, Progress, ~ disturbed, VStructural \/ VOff \/ VBlocked \/ VToolchain,
         UNCHANGED <<vars, disturbed>>
  PROVE  Progress'
<1>1. /\ vpc = "check" /\ vpc' = vpc /\ component' = component /\ components' = components
      /\ skipped' = skipped /\ materialization' = materialization /\ toolchain' = toolchain
      /\ disk' = disk /\ store' = store /\ index <= Len(verification)
      /\ index' = index + 1 /\ unread' = recorded(materialization)
  BY DEF VStructural, VOff, VBlocked, VToolchain, Advance, vars, workspace
<1>2. \A c \in Component, r \in Revision :
        store[c][r] = materialization =>
          structural(disk[c], store[c][r].files) \subseteq mismatches' \union unread'
  BY <1>1 DEF structural, recorded
<1>3. ASSUME NEW a \in Adapter, Checking(component, a), NEW checks, checks = VerifyHost[a].verification
      PROVE  /\ verification = checks /\ DOMAIN checks \subseteq Nat
             /\ index \in DOMAIN checks /\ checks[index] \in VerificationCheck /\ check = checks[index]
             /\ \A i \in DOMAIN checks : 1 .. (i - 1) \subseteq DOMAIN checks /\ i >= 1
             /\ \A i, j \in DOMAIN checks : checks[i].id = checks[j].id => i = j
  <2>1. verification = checks /\ VerifyHost[a] # Null
    BY <1>3 DEF verification, Checking
  <2>2. DOMAIN checks = 1 .. Len(checks) /\ Len(checks) \in Nat
        /\ (\A i \in DOMAIN checks : checks[i] \in VerificationCheck)
        /\ \A i, j \in DOMAIN checks : checks[i].id = checks[j].id => i = j
    BY <1>3, <2>1, ManifestType
  <2>3. index \in DOMAIN checks
    BY <1>1, <2>1, <2>2, CheckingType
  <2> QED
    BY <2>1, <2>2, <2>3 DEF check
<1>4. CASE VOff
  <2>1. evidence' = evidence /\ blocked' = blocked /\ check.level = "TOOLCHAIN" /\ ~ toolchain
    BY <1>4 DEF VOff
  <2>2. ASSUME NEW r \in Revision, NEW a \in Adapter, NEW c \in Component, c = component,
               Checking(component, a), store[c][r] = materialization,
               Underway(c, VerifyHost[a].verification, r)
        PROVE  Underway(c, VerifyHost[a].verification, r)'
    <3>1. PICK checks : checks = VerifyHost[a].verification
      OBVIOUS
    <3>2. PICK n \in DOMAIN checks : n = index
      BY <1>3, <2>2, <3>1
    <3>3. DOMAIN checks \subseteq Nat /\ checks[n].level = "TOOLCHAIN"
      BY <1>3, <2>1, <2>2, <3>1, <3>2
    <3>4. Underway(c, checks, r)'
      BY <1>1, <1>2, <2>1, <2>2, <3>1, <3>2, <3>3, UnderwayOff
    <3> QED
      BY <3>1, <3>4
  <2> QED
    BY <1>1, <2>1, <2>2, ProgressCheck
<1>5. CASE VStructural \/ VBlocked \/ VToolchain
  <2>1. PICK result \in EvidenceResult :
          /\ Produce(result)
          /\ check.level = "TOOLCHAIN" => toolchain
          /\ result = "INCONCLUSIVE" <=> check.level = "TOOLCHAIN" /\ blocked
          /\ blocked' <=> blocked \/ (check.level = "TOOLCHAIN" /\ result # "PASS")
          /\ check.level = "STRUCTURAL" /\ result = "PASS" => mismatches = {} /\ unread = {}
    <3>1. CASE VStructural
      BY <3>1 DEF VStructural, EvidenceResult
    <3>2. CASE VBlocked
      BY <3>2 DEF VBlocked, EvidenceResult
    <3>3. CASE VToolchain
      BY <3>3 DEF VToolchain, EvidenceResult
    <3> QED
      BY <1>5, <3>1, <3>2, <3>3
  <2>2. PICK e : /\ e = [component |-> component, check |-> check.id, result |-> result,
                         cites |-> pinnedRef(materialization)]
                 /\ evidence' = evidence \union {e}
    BY <2>1 DEF Produce
  <2>3. e.component = component /\ e.check = check.id /\ e.result = result
    BY <2>2
  <2>4. ASSUME NEW r \in Revision, NEW a \in Adapter, NEW c \in Component, c = component,
               Checking(component, a), store[c][r] = materialization,
               Underway(c, VerifyHost[a].verification, r)
        PROVE  Underway(c, VerifyHost[a].verification, r)'
    <3>1. PICK checks : checks = VerifyHost[a].verification
      OBVIOUS
    <3>2. PICK n \in DOMAIN checks : n = index
      BY <1>3, <2>4, <3>1
    <3>3. /\ DOMAIN checks \subseteq Nat /\ check = checks[n]
          /\ \A i \in DOMAIN checks : 1 .. (i - 1) \subseteq DOMAIN checks /\ i >= 1
          /\ \A i, j \in DOMAIN checks : checks[i].id = checks[j].id => i = j
      BY <1>3, <2>4, <3>1, <3>2
    <3>4. checks[n].level = "STRUCTURAL" /\ e.result = "PASS" =>
            structural(disk[c], store[c][r].files) = {}
      BY <2>1, <2>3, <2>4, <3>1, <3>2, <3>3 DEF Underway
    <3>5. Underway(c, checks, r)'
      BY <1>1, <1>2, <2>1, <2>2, <2>3, <2>4, <3>1, <3>2, <3>3, <3>4, UnderwayStep
    <3> QED
      BY <3>1, <3>5
  <2> QED
    BY <1>1, <2>2, <2>3, <2>4, ProgressCheck
<1> QED
  BY <1>4, <1>5

(* The last check of a component is made.                                  *)
LEMMA ProgressLeave ==
  ASSUME VIInv, Progress, ~ disturbed, VLeave, UNCHANGED <<vars, disturbed>>
  PROVE  Progress'
<1>1. /\ vpc = "check" /\ vpc' = "scan" /\ components' = components /\ skipped' = skipped
      /\ toolchain' = toolchain /\ disk' = disk /\ store' = store /\ evidence' = evidence
      /\ index > Len(verification) /\ Verifying
  BY DEF VLeave, vars, workspace, Verifying
<1>2. PICK c \in Component, a \in Adapter : Checking(c, a)
  BY <1>1 DEF VIInv, CheckingOK
<1>3. PICK r \in Revision :
        /\ isLatest(c, r) /\ store[c][r] = materialization
        /\ Underway(c, VerifyHost[a].verification, r)
  BY <1>1, <1>2 DEF Progress
<1>4. PICK checks : checks = VerifyHost[a].verification
  OBVIOUS
<1>5. \A i \in DOMAIN checks : i < index
  <2>1. verification = checks
    BY <1>2, <1>4 DEF verification, Checking
  <2> QED
    BY <1>1, <2>1, CheckingType
<1>6. Accounted(c, checks) /\ Truthful(c, checks, r)
  BY <1>3, <1>4, <1>5 DEF Underway, Accounted
<1>7. Finished(c)
  <2> SUFFICES ASSUME NEW s \in Revision, isLatest(c, s)
               PROVE  /\ extension(c, store[c][s]) # Null
                      /\ \A b \in Adapter : VerifyHost[b] # Null /\ extension(c, store[c][s]) = VerifyHost[b] =>
                           Accounted(c, VerifyHost[b].verification) /\ Truthful(c, VerifyHost[b].verification, s)
    BY DEF Finished
  <2>1. s = r
    BY <1>3, OneLatest
  <2>2. extension(c, store[c][s]) = VerifyHost[a] /\ VerifyHost[a] # Null
    BY <1>2, <1>3, <2>1 DEF Checking
  <2> QED
    BY <1>4, <1>6, <2>1, <2>2
<1>8. ASSUME NEW d \in Component \ components PROVE Finished(d)'
  <2>1. Finished(d)
    BY <1>1, <1>2, <1>7, <1>8 DEF Progress, Checking
  <2> QED
    BY <1>1, <2>1, FinishedFrame
<1>9. \A e \in evidence' : e.component \notin components'
  BY <1>1 DEF Progress
<1> QED
  BY <1>1, <1>8, <1>9 DEF Progress, Checking

(* An undisturbed verification has found out all there is to say of the    *)
(* directories it is done with.                                            *)
THEOREM VerificationProgresses == VSpec => []Progress
<1>1. VInit => Progress
  BY DEF VInit, Progress, Verifying
<1>2. VIInv /\ Progress /\ [VNext]_allVars => Progress'
  <2> SUFFICES ASSUME VIInv, Progress, [VNext]_allVars, ~ disturbed', Verifying' PROVE Progress'
    BY DEF Progress
  <2>1. CASE UNCHANGED allVars
    <3>1. UNCHANGED <<disk, store, vpc, toolchain, components, component, materialization, index,
                      unread, mismatches, blocked, evidence, skipped, disturbed>>
      BY <2>1 DEF allVars, verifier, vars, workspace
    <3>2. ~ disturbed /\ Verifying
      BY <3>1 DEF Verifying
    <3>3. \A e \in evidence' : e.component \notin components'
      BY <3>1, <3>2 DEF Progress
    <3>4. ASSUME NEW c \in Component \ components', vpc' = "check" => c # component' PROVE Finished(c)'
      <4>1. Finished(c)
        BY <3>1, <3>2, <3>4 DEF Progress
      <4> QED
        BY <3>1, <4>1, FinishedFrame
    <3>5. ASSUME NEW c \in Component, NEW a \in Adapter, Checking(c, a)'
          PROVE  /\ c \notin components'
                 /\ \E r \in Revision :
                      /\ isLatest(c, r)' /\ store'[c][r] = materialization'
                      /\ Underway(c, VerifyHost[a].verification, r)'
      <4>1. Checking(c, a)
        BY <3>1, <3>5 DEF Checking, extension
      <4>2. PICK r \in Revision :
              /\ isLatest(c, r) /\ store[c][r] = materialization
              /\ Underway(c, VerifyHost[a].verification, r)
        BY <3>2, <4>1 DEF Progress
      <4>3. isLatest(c, r)'
        BY <3>1, <4>2 DEF isLatest
      <4>4. Underway(c, VerifyHost[a].verification, r)'
        BY <3>1, <4>2 DEF Underway, AccountedFor, Truthful, notPassed, evidenceOf
      <4> QED
        BY <3>1, <3>2, <4>1, <4>2, <4>3, <4>4 DEF Progress
    <3> QED
      BY <3>3, <3>4, <3>5 DEF Progress
  <2>2. CASE Next /\ disturbed' = (disturbed \/ Verifying) /\ UNCHANGED verifier
    BY <2>2 DEF verifier, Verifying
  <2>3. ASSUME NEW on \in BOOLEAN, VBegin(on), UNCHANGED vars PROVE Progress'
    <3>1. /\ evidence' = {} /\ vpc' = "scan" /\ store' = store
          /\ components' = {c \in Component : broken[c] # {} \/ \E r \in Revision : store[c][r] # Null}
      BY <2>3 DEF VBegin, vars, workspace
    <3>2. ASSUME NEW c \in Component \ components' PROVE Finished(c)'
      <4>1. \A r \in Revision : store'[c][r] = Null
        BY <3>1, <3>2
      <4>2. \A r \in Revision : ~ isLatest(c, r)'
        BY <4>1, BoundsAssumption DEF isLatest, Revision
      <4> QED
        BY <4>2 DEF Finished
    <3> QED
      BY <3>1, <3>2 DEF Progress, Checking
  <2>4. CASE Verify /\ UNCHANGED <<vars, disturbed>>
    <3>1. ~ disturbed /\ (VRead \/ VReadFile \/ VStructural \/ VOff \/ VBlocked \/ VToolchain \/ VLeave)
      BY <2>4 DEF Verify, VReadFails, VPortFails, VFinish, Verifying
    <3> QED
      BY <2>4, <3>1, ProgressRead, ProgressReadFile, ProgressMade, ProgressLeave
  <2> QED
    BY <2>1, <2>2, <2>3, <2>4 DEF VNext
<1> QED
  BY <1>1, <1>2, VerifierTypes, PTL DEF VSpec

(***************************************************************************)
(* What the command may rely on.                                           *)
(***************************************************************************)

(* The types of the verification and of the workspace it reads.            *)
THEOREM VerificationIsTyped == VSpec => []VTypeOK
<1>1. VIInv => VTypeOK
  BY DEF VIInv
<1> QED
  BY <1>1, VerifierTypes, PTL

(* However many adapters, checks, directories and invocations there are:   *)
(* an undisturbed verification leaves out no directory and no check, and   *)
(* says INCONCLUSIVE of exactly those that a failure kept from running.    *)
THEOREM NothingIsLeftOut == VSpec => []EvidenceComplete
<1>1. IInv /\ RecordsPlanned /\ Progress => EvidenceComplete
  <2> SUFFICES ASSUME IInv, RecordsPlanned, Progress, Complete, ~ disturbed,
                      NEW c \in Component, NEW r \in Revision, isLatest(c, r)
               PROVE  IF extension(c, store[c][r]) = Null THEN c \in skipped
                      ELSE Accounted(c, extension(c, store[c][r]).verification)
    BY DEF EvidenceComplete
  <2>1. Finished(c)
    BY DEF Progress, Complete, Verifying
  <2>2. CASE extension(c, store[c][r]) = Null
    BY <2>1, <2>2 DEF Finished
  <2>3. CASE extension(c, store[c][r]) # Null
    <3>1. store[c][r] # Null
      BY <2>1, BoundsAssumption DEF Finished, isLatest, Revision
    <3>2. store[c][r] \in Record /\ Plan[store[c][r].request][c] # Null
      BY <3>1 DEF IInv, TypeOK, RecordsPlanned
    <3>3. PICK a \in Adapter : VerifyHost[a] # Null /\ extension(c, store[c][r]) = VerifyHost[a]
      BY <2>3, <3>2, ExtensionType
    <3> QED
      BY <2>1, <2>3, <3>3 DEF Finished
  <2> QED
    BY <2>2, <2>3
<1> QED
  BY <1>1, VerificationIsHarmless, TypeCorrect, RecordsArePlanned, VerificationProgresses, PTL

(* And a PASS of it is true when it is reported: what is recorded of every *)
(* component that was not skipped is in place.                             *)
THEOREM PassIsTrue == VSpec => []PassIsInPlace
<1>1. IInv /\ RecordsPlanned /\ Progress => PassIsInPlace
  <2> SUFFICES ASSUME IInv, RecordsPlanned, Progress, Complete, ~ disturbed, verifyStatus = "PASS",
                      NEW c \in Component \ skipped, NEW r \in Revision, isLatest(c, r),
                      NEW path \in recorded(store[c][r])
               PROVE  ~ mismatch(disk[c][path], store[c][r].files[path])
    BY DEF PassIsInPlace, mismatch
  <2>1. Finished(c)
    BY DEF Progress, Complete, Verifying
  <2>2. store[c][r] # Null
    BY <2>1, BoundsAssumption DEF Finished, isLatest, Revision
  <2>3. store[c][r] \in Record /\ Plan[store[c][r].request][c] # Null
    BY <2>2 DEF IInv, TypeOK, RecordsPlanned
  <2>4. PICK a \in Adapter : VerifyHost[a] # Null /\ extension(c, store[c][r]) = VerifyHost[a]
    BY <2>1, <2>3, ExtensionType DEF Finished
  <2>5. PICK checks : checks = VerifyHost[a].verification
    OBVIOUS
  <2>6. Accounted(c, checks) /\ Truthful(c, checks, r)
    BY <2>1, <2>4, <2>5 DEF Finished
  <2>7. PICK i \in DOMAIN checks : checks[i].level = "STRUCTURAL"
    BY <2>4, <2>5, ManifestType
  <2>8. PICK e \in evidenceOf(c, checks[i]) : TRUE
    BY <2>6, <2>7 DEF Accounted, AccountedFor
  <2>9. e.result = "PASS"
    BY <2>8 DEF verifyStatus, evidenceOf
  <2>10. structural(disk[c], store[c][r].files) = {}
    BY <2>6, <2>7, <2>8, <2>9 DEF Truthful
  <2> QED
    BY <2>10 DEF structural, recorded
<1> QED
  BY <1>1, VerificationIsHarmless, TypeCorrect, RecordsArePlanned, VerificationProgresses, PTL

=============================================================================
