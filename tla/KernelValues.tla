---------------------------- MODULE KernelValues ----------------------------
(* What the pure modules of the kernel share.                              *)
EXTENDS Naturals, Sequences, SequencesExt

CONSTANT Null   (* the null and the undefined of the source                *)

(* No two elements of a list have the same id.                             *)
uniqueIds(items) == IsInjective([i \in DOMAIN items |-> items[i].id])

(* A finite set in an order, given as a set of pairs: the k-th member has  *)
(* k - 1 members before it.                                                *)
inOrder(S, before) ==
  [k \in 1 .. Cardinality(S) |-> CHOOSE x \in S : Cardinality({y \in S : <<y, x>> \in before}) = k - 1]

=============================================================================
