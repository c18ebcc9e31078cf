---------------------------- MODULE MCProofChain ----------------------------
(* A small instance of ProofChain: a baseline, decisions on it, an         *)
(* organization context and a definition of two components that rests on   *)
(* all three.                                                              *)
EXTENDS ProofChain, TLC

CONSTANTS Api, Worker   (* components, alike *)

ComponentSymmetry == Permutations({Api, Worker})

template(kind, items, inputs) == [kind |-> kind, system |-> "asteria", items |-> items, inputs |-> inputs]

MCTemplate ==
  [requirements |-> template("RequirementBaseline", {}, <<>>),
   decisions |-> template("DecisionSet", {}, [requirementBaseline |-> "requirements"]),
   context |-> template("EffectiveOrganizationContext", {}, <<>>),
   asteria |-> template("SystemDefinition", {Api, Worker},
     [requirementBaseline |-> "requirements", decisionSet |-> "decisions", organizationContext |-> "context"])]

by(actor, policy) == [actor |-> actor, policy |-> policy]
MCAcceptor == {by("SYSTEM", FALSE), by("SYSTEM", TRUE), by("AI_AGENT", FALSE)}

=============================================================================
