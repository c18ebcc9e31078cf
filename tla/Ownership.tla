----------------------------- MODULE Ownership -----------------------------
(***************************************************************************)
(* The ownership rule of the kernel (kernel/extensions/src/ownership.ts)   *)
(* and the artifact plan it is applied to (adapter.ts, planArtifacts).     *)
(* Both are pure.  A file's content stands for its sha256 digest: two      *)
(* contents are equal exactly when their digests are.  Paths are numbered  *)
(* in the order planArtifacts sorts them.                                  *)
(***************************************************************************)
EXTENDS Naturals, Sequences

CONSTANTS
  Path,       (* artifact paths, numbered in their sorting order           *)
  SafePath,   (* the paths isSafeArtifactPath accepts                      *)
  Content,    (* file contents, each standing for its digest               *)
  Null        (* the null of the source                                    *)

ArtifactOwnership == {"COMPILER_OWNED", "OWNER_SEEDED"}
OwnershipClass == {"COMPILER_OWNED", "OWNER_MANAGED", "SHARED_CONTROLLED", "EXTERNAL"}
WriteDecision == {"CREATE", "UPDATE", "UNCHANGED", "KEEP_OWNER", "CONFLICT"}

(* What an adapter returns, and what planArtifacts makes of it.  A plan is *)
(* a function from paths to artifacts, Null where nothing is planned.      *)
Artifact == [path : Path, ownership : ArtifactOwnership \union {"UNKNOWN"}, content : Content]
PlannedArtifact == [ownership : ArtifactOwnership, digest : Content]
ArtifactPlan == [Path -> PlannedArtifact \union {Null}]

ASSUME PathAssumption == Path \subseteq Nat /\ SafePath \subseteq Path
ASSUME NullAssumption ==
  /\ Null \notin Path /\ Null \notin Content
  /\ Null \notin PlannedArtifact /\ Null \notin ArtifactPlan

(* Faulty variants: a foreign file is taken over; the seed is not          *)
(* respected; an up-to-date file is not recognised.                        *)
decideWriteTakesOver(artifact, existing, lastWritten) ==
  IF existing = Null THEN "CREATE"
  ELSE IF artifact.ownership = "OWNER_SEEDED" THEN "KEEP_OWNER"
  ELSE IF existing = artifact.digest THEN "UNCHANGED"
  ELSE "UPDATE"

decideWriteIgnoresSeed(artifact, existing, lastWritten) ==
  IF existing = Null THEN "CREATE"
  ELSE IF existing = artifact.digest THEN "UNCHANGED"
  ELSE IF lastWritten # Null /\ existing = lastWritten THEN "UPDATE"
  ELSE "CONFLICT"

decideWriteNeverUnchanged(artifact, existing, lastWritten) ==
  IF existing = Null THEN "CREATE"
  ELSE IF artifact.ownership = "OWNER_SEEDED" THEN "KEEP_OWNER"
  ELSE IF lastWritten # Null /\ existing = lastWritten THEN "UPDATE"
  ELSE "CONFLICT"

(* The decision table of ownership.ts.                                     *)
decideWrite(artifact, existing, lastWritten) ==
  IF existing = Null THEN "CREATE"
  ELSE IF artifact.ownership = "OWNER_SEEDED" THEN "KEEP_OWNER"
  ELSE IF existing = artifact.digest THEN "UNCHANGED"
  ELSE IF lastWritten # Null /\ existing = lastWritten THEN "UPDATE"
  ELSE "CONFLICT"

(* Faulty variant: updates are decided and never written.                  *)
WRITESOnlyCreate == {"CREATE"}

(* The decisions that change the workspace.                                *)
WRITES == {"CREATE", "UPDATE"}

(* planArtifacts throws on an unsafe or a repeated path and on an unknown  *)
(* ownership.                                                              *)
protocolViolation(artifacts) ==
  \E i \in DOMAIN artifacts :
    \/ artifacts[i].path \notin SafePath
    \/ artifacts[i].ownership \notin ArtifactOwnership
    \/ \E j \in 1 .. (i - 1) : artifacts[j].path = artifacts[i].path

(* The plan of a component of ownership class `class`: an OWNER_MANAGED    *)
(* component is only ever seeded.                                          *)
planArtifacts(class, artifacts) ==
  [path \in Path |->
     IF \E i \in DOMAIN artifacts : artifacts[i].path = path
     THEN LET i == CHOOSE j \in DOMAIN artifacts : artifacts[j].path = path
          IN  [ownership |-> IF class = "OWNER_MANAGED" THEN "OWNER_SEEDED"
                             ELSE artifacts[i].ownership,
               digest |-> artifacts[i].content]
     ELSE Null]

=============================================================================
