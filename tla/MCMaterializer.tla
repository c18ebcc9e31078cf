--------------------------- MODULE MCMaterializer ---------------------------
(* Small instances of Materializer: one backend adapter in two versions,   *)
(* plans that change, drop and re-seed files, and the invocations the host *)
(* or the kernel turn down.                                                *)
EXTENDS Materializer, TLC

file(path, ownership, content) == [path |-> path, ownership |-> ownership, content |-> content]
step(class, version) ==
  [action |-> IF class = "EXTERNAL" THEN "CONNECT_EXTERNAL" ELSE "MATERIALIZE",
   adapter |-> "nestjs", version |-> version, class |-> class]

(* An invocation whose steps are given per component and whose adapter     *)
(* renders all the files for the first one and one file for the others.    *)
invocation(steps, version, files) ==
  [status |-> "PLANNED", expired |-> FALSE,
   steps |-> [c \in Component |-> IF c \in DOMAIN steps THEN steps[c] ELSE Null],
   host |-> [a \in Adapter |-> [version |-> version, rejects |-> {},
                                 renders |-> [c \in Component |-> IF c = 1 THEN files ELSE <<files[1]>>]]]]

all(class, version) == [c \in Component |-> step(class, version)]

(* Contents: "a1", "a2" are renderings, "x" is the owner's.                *)
v1Files == <<file(1, "COMPILER_OWNED", "a1"), file(2, "COMPILER_OWNED", "a1"), file(3, "OWNER_SEEDED", "a1")>>
v2Files == <<file(1, "COMPILER_OWNED", "a2"), file(2, "COMPILER_OWNED", "a2"), file(3, "OWNER_SEEDED", "a2")>>
droppedFiles == <<file(1, "COMPILER_OWNED", "a2")>>
pairFiles == <<file(1, "COMPILER_OWNED", "a1"), file(2, "OWNER_SEEDED", "a1")>>

MCPlanResult ==
  [q \in Request |->
     CASE q = "v1" -> invocation(all("COMPILER_OWNED", 1), 1, v1Files)
       [] q = "v2" -> invocation(all("COMPILER_OWNED", 2), 2, v2Files)
       [] q = "dropped" -> invocation(all("COMPILER_OWNED", 2), 2, droppedFiles)
       [] q = "pair" -> invocation(all("COMPILER_OWNED", 1), 1, pairFiles)
       [] q = "managed" -> invocation(all("OWNER_MANAGED", 2), 2, v2Files)
       [] q = "expired" -> [invocation(all("COMPILER_OWNED", 1), 1, v1Files) EXCEPT !.expired = TRUE]
       [] q = "rejected" -> [invocation(all("COMPILER_OWNED", 2), 2, v2Files) EXCEPT !.host["nestjs"].rejects = {1}]
       [] q = "repeated" -> invocation(all("COMPILER_OWNED", 2), 2, [v2Files EXCEPT ![2].path = 1])
       [] q = "missing" -> invocation(all("COMPILER_OWNED", 1), 2, v2Files)
       [] q = "external" -> invocation(all("EXTERNAL", 2), 2, v2Files)]
=============================================================================
