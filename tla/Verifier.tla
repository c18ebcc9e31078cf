------------------------------ MODULE Verifier ------------------------------
(***************************************************************************)
(* `foundation verify`: verifyWorkspace of engine/materializer/src/        *)
(* verify.ts and the command around it (surfaces/cli/src/cli.ts), run on   *)
(* the workspace that the invocations of Materializer and the owner change *)
(* meanwhile.  Every read of a record store or of a file is one step; the  *)
(* record a component is checked against is read once, before its checks.  *)
(***************************************************************************)
EXTENDS Materializer

CONSTANTS
  VerifyHost,    (* the adapters the verification has loaded               *)
  Check,         (* ids of verification checks                             *)
  MaxVerifies    (* bound on the verifications                             *)

(* A check of a manifest; `steps` says what the adapter runs for it.       *)
VerificationCheck == [id : Check, level : {"STRUCTURAL", "TOOLCHAIN"},
                      steps : {"NONE", "COMMANDS", "PROBE"}]
Manifest == [version : Version, verification : Seq(VerificationCheck)]
EvidenceResult == {"PASS", "FAIL", "ERROR", "INCONCLUSIVE"}
Evidence == [component : Component, check : Check, result : EvidenceResult, cites : Pin]

ASSUME VerifyAssumption ==
  /\ VerifyHost \in [Adapter -> Manifest \union {Null}] /\ Null \notin Manifest
  /\ MaxVerifies \in Nat

(* validateManifest: check ids are unique and one check is STRUCTURAL.     *)
ASSUME ManifestAssumption ==
  \A a \in Adapter : VerifyHost[a] # Null =>
    LET checks == VerifyHost[a].verification
    IN  /\ \A i, j \in DOMAIN checks : checks[i].id = checks[j].id => i = j
        /\ \E i \in DOMAIN checks : checks[i].level = "STRUCTURAL"

VARIABLES
  vpc,              (* "idle", "scan", "check", "done", "failed"           *)
  toolchain,        (* options.toolchain                                   *)
  components,       (* directories still to be verified                    *)
  component,        (* the one being verified                              *)
  materialization,  (* its latest record, as read                          *)
  index,            (* the check it is at                                  *)
  unread,           (* files a STRUCTURAL check has still to read          *)
  mismatches,       (* files it found missing or changed                   *)
  blocked,          (* an earlier toolchain check did not pass             *)
  evidence,         (* records produced by this verification               *)
  skipped,          (* components reported MATERIALIZE_ADAPTER_MISSING     *)
  evidenceOut,      (* the evidence directory, one file per obligation     *)
  disturbed,        (* history: the workspace changed under this           *)
                    (* verification                                        *)
  verifies

verifier == <<vpc, toolchain, components, component, materialization, index, unread,
              mismatches, blocked, evidence, skipped, evidenceOut, verifies>>
allVars == <<vars, verifier, disturbed>>

Verifying == vpc \in {"scan", "check"}

VInit ==
  /\ Init
  /\ vpc = "idle" /\ toolchain = FALSE
  /\ components = {} /\ component = Null /\ materialization = Null
  /\ index = 0 /\ unread = {} /\ mismatches = {} /\ blocked = FALSE
  /\ evidence = {} /\ skipped = {}
  /\ evidenceOut = [c \in Component |-> [k \in Check |-> Null]]
  /\ disturbed = FALSE
  /\ verifies = 0

(* The manifest a record is verified with, Null when the adapter is not    *)
(* loaded in the version that wrote the record.                            *)
extension(c, record) ==
  LET by == PlanResult[record.request].steps[c]
      manifest == VerifyHost[by.adapter]
  IN  IF manifest # Null /\ manifest.version = by.version THEN manifest ELSE Null

verification == extension(component, materialization).verification
check == verification[index]
recorded(record) == {path \in Path : record.files[path] # Null}

(* readdirSync: the directories that hold records.                         *)
VBegin(withToolchain) ==
  /\ ~ Verifying
  /\ verifies < MaxVerifies
  /\ verifies' = verifies + 1
  /\ vpc' = "scan"
  /\ toolchain' = withToolchain
  /\ components' = {c \in Component : broken[c] # {} \/ \E r \in Revision : store[c][r] # Null}
  /\ evidence' = {} /\ skipped' = {}
  /\ UNCHANGED <<component, materialization, index, unread, mismatches, blocked, evidenceOut>>

(* Next directory: its latest record and the adapter that wrote it.        *)
VRead ==
  /\ vpc = "scan"
  /\ \E c \in components, r \in Revision :
       /\ Least(components, c)
       /\ broken[c] = {} /\ isLatest(c, r)
       /\ components' = components \ {c}
       /\ IF extension(c, store[c][r]) = Null
          THEN /\ skipped' = skipped \union {c}
               /\ UNCHANGED <<vpc, component, materialization, index, unread, mismatches, blocked>>
          ELSE /\ component' = c
               /\ materialization' = store[c][r]
               /\ index' = 1
               /\ unread' = recorded(store[c][r])
               /\ mismatches' = {}
               /\ blocked' = FALSE
               /\ vpc' = "check"
               /\ UNCHANGED skipped
  /\ UNCHANGED <<toolchain, evidence, evidenceOut, verifies>>

(* A record file that is torn makes latestRecord throw.                    *)
VReadFails ==
  /\ vpc = "scan"
  /\ \E c \in components : Least(components, c) /\ broken[c] # {}
  /\ vpc' = "failed"
  /\ UNCHANGED <<toolchain, components, component, materialization, index, unread, mismatches,
                 blocked, evidence, skipped, evidenceOut, verifies>>

(* One file of the STRUCTURAL check.                                       *)
VReadFile ==
  /\ vpc = "check" /\ index <= Len(verification) /\ check.level = "STRUCTURAL"
  /\ \E path \in unread :
       /\ Least(unread, path)
       /\ unread' = unread \ {path}
       /\ mismatches' = IF mismatch(disk[component][path], materialization.files[path])
                        THEN mismatches \union {path} ELSE mismatches
  /\ UNCHANGED <<vpc, toolchain, components, component, materialization, index, blocked,
                 evidence, skipped, evidenceOut, verifies>>

(* The next check starts with every recorded file unread.                  *)
Advance ==
  /\ index' = index + 1
  /\ unread' = recorded(materialization)
  /\ mismatches' = {}
  /\ UNCHANGED <<vpc, toolchain, components, component, materialization, skipped, evidenceOut, verifies>>

Produce(result) ==
  evidence' = evidence \union
    {[component |-> component, check |-> check.id, result |-> result,
      cites |-> pinnedRef(materialization)]}

VStructural ==
  /\ vpc = "check" /\ index <= Len(verification) /\ check.level = "STRUCTURAL"
  /\ unread = {}
  /\ Produce(IF mismatches = {} THEN "PASS" ELSE "FAIL")
  /\ blocked' = blocked
  /\ Advance

(* A TOOLCHAIN check without --toolchain: no evidence at all.              *)
VOff ==
  /\ vpc = "check" /\ index <= Len(verification) /\ check.level = "TOOLCHAIN"
  /\ ~ toolchain
  /\ UNCHANGED <<evidence, blocked>>
  /\ Advance

(* Faulty variant: a check that cannot run leaves no evidence.             *)
VBlockedSkipped ==
  /\ vpc = "check" /\ index <= Len(verification) /\ check.level = "TOOLCHAIN"
  /\ toolchain /\ blocked
  /\ UNCHANGED <<evidence, blocked>>
  /\ Advance

VBlocked ==
  /\ vpc = "check" /\ index <= Len(verification) /\ check.level = "TOOLCHAIN"
  /\ toolchain /\ blocked
  /\ Produce("INCONCLUSIVE")
  /\ blocked' = blocked
  /\ Advance

(* The steps of the check are run up to the first that does not pass.      *)
VToolchain ==
  /\ vpc = "check" /\ index <= Len(verification) /\ check.level = "TOOLCHAIN"
  /\ toolchain /\ ~ blocked
  /\ \E result \in IF check.steps # "NONE" THEN {"PASS", "FAIL", "ERROR"} ELSE {"ERROR"} :
       /\ Produce(result)
       /\ blocked' = (result # "PASS")
  /\ Advance

(* A probe needs a free port; freePort rejects without one, nothing        *)
(* catches it, and the whole verification ends there.                      *)
VPortFails ==
  /\ vpc = "check" /\ index <= Len(verification) /\ check.level = "TOOLCHAIN"
  /\ toolchain /\ ~ blocked /\ check.steps = "PROBE"
  /\ vpc' = "failed"
  /\ UNCHANGED <<toolchain, components, component, materialization, index, unread, mismatches,
                 blocked, evidence, skipped, evidenceOut, verifies>>

VLeave ==
  /\ vpc = "check" /\ index > Len(verification)
  /\ vpc' = "scan"
  /\ UNCHANGED <<toolchain, components, component, materialization, index, unread, mismatches,
                 blocked, evidence, skipped, evidenceOut, verifies>>

(* The command writes every evidence record under a name made of the       *)
(* obligation and of revision 1, over the one of an earlier verification.  *)
VFinish ==
  /\ vpc = "scan" /\ components = {}
  /\ vpc' = "done"
  /\ evidenceOut' = [c \in Component |-> [k \in Check |->
       IF \E e \in evidence : e.component = c /\ e.check = k
       THEN CHOOSE e \in evidence : e.component = c /\ e.check = k
       ELSE evidenceOut[c][k]]]
  /\ UNCHANGED <<toolchain, components, component, materialization, index, unread, mismatches,
                 blocked, evidence, skipped, verifies>>

Verify ==
  \/ VRead \/ VReadFails \/ VReadFile \/ VStructural \/ VOff \/ VBlocked \/ VToolchain
  \/ VPortFails \/ VLeave \/ VFinish

VNext ==
  \/ Verify /\ UNCHANGED <<vars, disturbed>>
  \/ (\E on \in BOOLEAN : VBegin(on)) /\ disturbed' = FALSE /\ UNCHANGED vars
  \/ Next /\ disturbed' = (disturbed \/ Verifying) /\ UNCHANGED verifier

VSpec == VInit /\ [][VNext]_allVars

(* What the command reports.                                               *)
verifyStatus ==
  IF evidence # {} /\ \A e \in evidence : e.result = "PASS" THEN "PASS" ELSE "FAIL"

(***************************************************************************)
(* Properties.                                                             *)
(***************************************************************************)
VTypeOK ==
  /\ TypeOK
  /\ vpc \in {"idle", "scan", "check", "done", "failed"}
  /\ toolchain \in BOOLEAN /\ blocked \in BOOLEAN
  /\ components \subseteq Component
  /\ component \in Component \union {Null}
  /\ materialization \in Record \union {Null}
  /\ index \in Nat
  /\ unread \subseteq Path /\ mismatches \subseteq Path
  /\ evidence \subseteq Evidence
  /\ skipped \subseteq Component
  /\ evidenceOut \in [Component -> [Check -> Evidence \union {Null}]]
  /\ disturbed \in BOOLEAN /\ verifies \in 0 .. MaxVerifies

(* The verification has gone through the workspace and is about to report. *)
Complete == vpc = "scan" /\ components = {}

evidenceOf(c, k) == {e \in evidence : e.component = c /\ e.check = k.id}
notPassed(c, k) == k.level = "TOOLCHAIN" /\ \E e \in evidenceOf(c, k) : e.result # "PASS"

(* INCONCLUSIVE is the result of the toolchain checks after the first that *)
(* did not pass, and of no other.                                          *)
AccountedFor(c, checks, i) ==
  IF checks[i].level = "TOOLCHAIN" /\ ~ toolchain THEN evidenceOf(c, checks[i]) = {}
  ELSE \E e \in evidenceOf(c, checks[i]) :
         /\ evidenceOf(c, checks[i]) = {e}
         /\ e.result = "INCONCLUSIVE" <=>
              checks[i].level = "TOOLCHAIN" /\ \E j \in 1 .. (i - 1) : notPassed(c, checks[j])

Accounted(c, checks) == \A i \in DOMAIN checks : AccountedFor(c, checks, i)

(* Nothing is left out of a verification that nobody disturbed: every      *)
(* directory with records is reported or each check of its adapter has     *)
(* evidence, exactly one record per check.                                 *)
EvidenceComplete ==
  Complete /\ ~ disturbed =>
    \A c \in Component, r \in Revision : isLatest(c, r) =>
      LET manifest == extension(c, store[c][r])
      IN  IF manifest = Null THEN c \in skipped ELSE Accounted(c, manifest.verification)

(* A PASS is true when it is reported, if nothing else touched the         *)
(* workspace during the verification: in every component that was not      *)
(* skipped each recorded file exists, and each compiler-owned one has the  *)
(* content of the latest record.                                           *)
PassIsInPlace ==
  Complete /\ ~ disturbed /\ verifyStatus = "PASS" =>
    \A c \in Component \ skipped, r \in Revision : isLatest(c, r) =>
      \A path \in recorded(store[c][r]) :
        /\ disk[c][path] # Null
        /\ store[c][r].files[path].ownership = "COMPILER_OWNED" =>
             disk[c][path] = store[c][r].files[path].digest

(***************************************************************************)
(* The inductive invariants behind the theorems of VerifierProofs.         *)
(***************************************************************************)

(* A record, stored or held, was planned for its component.                *)
RecordsPlanned ==
  /\ \A c \in Component, r \in Revision :
       store[c][r] # Null => Plan[store[c][r].request][c] # Null
  /\ \A p \in Process :
       Working(p) /\ previous[p] # Null => Plan[previous[p].request][current[p]] # Null

(* A component is checked with the manifest of a loaded adapter.           *)
Checking(c, a) ==
  vpc = "check" /\ component = c /\ VerifyHost[a] # Null /\ extension(c, materialization) = VerifyHost[a]

CheckingOK ==
  vpc = "check" =>
    /\ materialization \in Record /\ index \in Nat \ {0}
    /\ \E c \in Component, a \in Adapter : Checking(c, a)

(* A structural PASS is true of the directory and its record.              *)
Truthful(c, checks, r) ==
  \A i \in DOMAIN checks : checks[i].level = "STRUCTURAL" =>
    \A e \in evidenceOf(c, checks[i]) : e.result = "PASS" => structural(disk[c], store[c][r].files) = {}

(* What an undisturbed verification has found out of a component it is     *)
(* done with, and of the one it checks.                                    *)
Finished(c) ==
  \A r \in Revision : isLatest(c, r) =>
    /\ extension(c, store[c][r]) = Null => c \in skipped
    /\ \A a \in Adapter : VerifyHost[a] # Null /\ extension(c, store[c][r]) = VerifyHost[a] =>
         Accounted(c, VerifyHost[a].verification) /\ Truthful(c, VerifyHost[a].verification, r)

Underway(c, checks, r) ==
  /\ \A i \in DOMAIN checks :
       IF i < index THEN AccountedFor(c, checks, i) ELSE evidenceOf(c, checks[i]) = {}
  /\ Truthful(c, checks, r)
  /\ blocked <=> \E j \in DOMAIN checks : j < index /\ notPassed(c, checks[j])
  /\ index \in DOMAIN checks /\ checks[index].level = "STRUCTURAL" =>
       structural(disk[c], store[c][r].files) \subseteq mismatches \union unread

Progress ==
  ~ disturbed /\ Verifying =>
    /\ \A e \in evidence : e.component \notin components
    /\ \A c \in Component \ components : (vpc = "check" => c # component) => Finished(c)
    /\ \A c \in Component, a \in Adapter : Checking(c, a) =>
         /\ c \notin components
         /\ \E r \in Revision :
              /\ isLatest(c, r) /\ store[c][r] = materialization
              /\ Underway(c, VerifyHost[a].verification, r)

=============================================================================
