----------------------------- MODULE MCVerifier -----------------------------
(* Small instances of Verifier: a fresh copy of the plans of               *)
(* MCMaterializer over two files and two components, of which version 2 of *)
(* the adapter takes the first only, so that the second keeps the record   *)
(* of version 1; and the manifest of version 2, with one check in-process  *)
(* and two of the toolchain.                                               *)
EXTENDS Verifier, TLC

planned1 == <<[path |-> 1, ownership |-> "COMPILER_OWNED", content |-> "a1"],
              [path |-> 2, ownership |-> "OWNER_SEEDED", content |-> "a1"]>>
planned2 == <<[path |-> 1, ownership |-> "COMPILER_OWNED", content |-> "a2"],
              [path |-> 2, ownership |-> "OWNER_SEEDED", content |-> "a2"]>>

MCPlanResult ==
  [q \in Request |->
     LET v == IF q = "v1" THEN 1 ELSE 2
     IN  [status |-> "PLANNED", expired |-> FALSE,
          steps |-> [c \in Component |->
             [action |-> "MATERIALIZE", adapter |-> "nestjs", version |-> v, class |-> "COMPILER_OWNED"]],
          host |-> [a \in Adapter |->
             [version |-> v, rejects |-> IF v = 1 THEN {} ELSE {2},
              renders |-> [c \in Component |-> IF v = 1 THEN planned1 ELSE planned2]]]]]

MCVerifyHost ==
  [a \in Adapter |->
     [version |-> 2,
      verification |-> <<[id |-> "structure", level |-> "STRUCTURAL", steps |-> "NONE"],
                         [id |-> "build", level |-> "TOOLCHAIN", steps |-> "PROBE"],
                         [id |-> "test", level |-> "TOOLCHAIN", steps |-> "NONE"]>>]]
=============================================================================
