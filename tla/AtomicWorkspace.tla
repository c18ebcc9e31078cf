-------------------------- MODULE AtomicWorkspace --------------------------
(***************************************************************************)
(* What the materializer promises its user, without processes, decisions   *)
(* or record files: a component directory and its inventory change         *)
(* together, in one step, and only when every compiler-owned file is still *)
(* what the inventory says or already what the plan wants; a file that     *)
(* exists and is only seeded is left alone.  An application that is        *)
(* interrupted has replaced or torn some of the files it would have        *)
(* replaced, under the same condition, and leaves the inventory as it was. *)
(***************************************************************************)
EXTENDS Ownership

CONSTANTS
  Component,   (* component directories                                    *)
  Plans,       (* the artifact plans that may be applied                   *)
  Torn         (* a file whose writing was cut short                       *)

VARIABLES
  files,       (* files[c][path]: content, Null when absent                *)
  inventory    (* inventory[c][path]: what the last plan applied listed    *)

avars == <<files, inventory>>

AInit ==
  /\ files = [c \in Component |-> [path \in Path |-> Null]]
  /\ inventory = [c \in Component |-> [path \in Path |-> Null]]

(* The contents the compiler may replace or keep at a path.                *)
Vouched(c, plan, path) ==
  {plan[path].digest} \union
  (IF inventory[c][path] = Null THEN {} ELSE {inventory[c][path].digest})

Applicable(c, plan) ==
  \A path \in Path :
    plan[path] # Null /\ plan[path].ownership = "COMPILER_OWNED" /\ files[c][path] # Null
      => files[c][path] \in Vouched(c, plan, path)

LeftAlone(c, plan, path) ==
  plan[path] = Null \/ (plan[path].ownership = "OWNER_SEEDED" /\ files[c][path] # Null)

Materialize(c, plan) ==
  /\ Applicable(c, plan)
  /\ files' = [files EXCEPT ![c] = [path \in Path |->
       IF LeftAlone(c, plan, path) THEN files[c][path] ELSE plan[path].digest]]
  /\ inventory' = [inventory EXCEPT ![c] = plan]

Interrupted(c, plan) ==
  /\ Applicable(c, plan)
  /\ \E torn \in Path \union {Null}, done \in SUBSET {path \in Path : ~ LeftAlone(c, plan, path)} :
       files' = [files EXCEPT ![c] = [path \in Path |->
         IF path \in done THEN IF path = torn THEN Torn ELSE plan[path].digest ELSE files[c][path]]]
  /\ UNCHANGED inventory

Edit(c, path, content) ==
  /\ files' = [files EXCEPT ![c][path] = content]
  /\ UNCHANGED inventory

ANext ==
  \/ \E c \in Component, plan \in Plans : Materialize(c, plan) \/ Interrupted(c, plan)
  \/ \E c \in Component, path \in Path, content \in Content \union {Null} : Edit(c, path, content)

ASpec == AInit /\ [][ANext]_avars

=============================================================================
