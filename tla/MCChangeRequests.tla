-------------------------- MODULE MCChangeRequests --------------------------
(* Two members and an array; requests that meet in a member and in the     *)
(* array, one that needs work of the owner, one that may not proceed.      *)
EXTENDS ChangeRequests

CONSTANTS purpose, label, old, new, api, web, job

MCMember == {purpose, label}
MCValue == {old, new, api, web, job}

MCFirstSpec == [members |-> (purpose :> old @@ label :> Null), components |-> <<api, web>>]

edit(op, within, at, value) == [op |-> op, within |-> within, at |-> at, value |-> value]
Asking(changes, classification, migration, components, ownerWork) ==
  [changes |-> changes, classification |-> classification, components |-> components,
   ownerWork |-> ownerWork, migration |-> migration]

MCRequest ==
  {Asking(<<edit("REPLACE", "members", purpose, new), edit("ADD", "members", label, old)>>, "REVIEW_REQUIRED", FALSE, {api}, <<>>),
   Asking(<<edit("ADD", "components", 0, job), edit("REMOVE", "components", 1, Null)>>, "MANUAL_ONLY", FALSE, {},
          <<[id |-> "move", component |-> web]>>),
   Asking(<<edit("ADD", "components", Null, job)>>, "REVIEW_REQUIRED", FALSE, {job}, <<>>),
   Asking(<<edit("REMOVE", "members", label, Null), edit("REPLACE", "components", 2, job)>>, "MIGRATION_REQUIRED", TRUE, {}, <<>>),
   Asking(<<edit("REPLACE", "components", 0, job)>>, "UNSUPPORTED", FALSE, {}, <<>>)}

MCCorrection == {edit("REPLACE", "members", purpose, new), edit("REMOVE", "components", 0, Null)}

=============================================================================
