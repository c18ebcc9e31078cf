----------------------------- MODULE Induction ------------------------------
(***************************************************************************)
(* Induction over the naturals and definitions by recursion, stated of     *)
(* sets and functions so that the provers can apply them.  They rest on    *)
(* the well-foundedness of < on the naturals (WellFoundedInduction).       *)
(***************************************************************************)
EXTENDS Integers, WellFoundedInduction, TLAPS

(* < as a relation on the naturals is well-founded.                        *)
LEMMA LessIsWellFounded == IsWellFoundedOn({ss \in Nat \X Nat : ss[1] < ss[2]}, Nat)
  BY NatLessThanWellFounded, Zenon DEF OpToRel

(* A set of naturals that is not empty has a least element.                *)
LEMMA LeastElement ==
  ASSUME NEW S \in SUBSET Nat, S # {}
  PROVE  \E n \in S : \A m \in S : n <= m
<1> DEFINE less == {ss \in Nat \X Nat : ss[1] < ss[2]}
<1>1. IsWellFoundedOn(less, Nat)
  BY LessIsWellFounded
<1>2. PICK n \in S : \A m \in S : <<m, n>> \notin less
  <2> HIDE DEF less
  <2> QED
    BY <1>1, WFMin
<1>3. \A m \in S : ~ (m < n)
  BY <1>2
<1> QED
  BY <1>3

(* What holds of 0 and of the successor of whatever it holds of, holds of  *)
(* every natural.                                                          *)
LEMMA SetInduction ==
  ASSUME NEW S, 0 \in S, \A n \in Nat : n \in S => n + 1 \in S
  PROVE  Nat \subseteq S
<1> SUFFICES ASSUME Nat \ S # {} PROVE FALSE
  OBVIOUS
<1>1. PICK n \in Nat \ S : \A m \in Nat \ S : n <= m
  BY LeastElement
<1>2. n - 1 \in Nat /\ n - 1 \in S
  BY <1>1
<1> QED
  BY <1>1, <1>2

(* The same on an interval, of the values of a function.                   *)
LEMMA ValuesStay ==
  ASSUME NEW X, NEW f, NEW last \in Nat, f[0] \in X, \A n \in 1 .. last : f[n - 1] \in X => f[n] \in X
  PROVE  \A n \in 0 .. last : f[n] \in X
<1> DEFINE S == {n \in Nat : n <= last => f[n] \in X}
<1>1. ASSUME NEW n \in Nat, n \in S PROVE n + 1 \in S
  <2> SUFFICES ASSUME n + 1 <= last PROVE f[n + 1] \in X
    OBVIOUS
  <2>1. n + 1 \in 1 .. last /\ (n + 1) - 1 = n /\ f[n] \in X
    BY <1>1
  <2> QED
    BY <2>1
<1>2. Nat \subseteq S
  <2>1. 0 \in S
    OBVIOUS
  <2> HIDE DEF S
  <2> QED
    BY <1>1, <2>1, SetInduction
<1> QED
  BY <1>2

(* A set of naturals with an upper bound has a greatest element.           *)
LEMMA GreatestElement ==
  ASSUME NEW S \in SUBSET Nat, S # {}, NEW bound \in Nat, \A m \in S : m <= bound
  PROVE  \E n \in S : \A m \in S : m <= n
<1> DEFINE distances == {d \in Nat : bound - d \in S}
<1>1. PICK m \in S : TRUE
  OBVIOUS
<1>2. bound - m \in distances
  BY <1>1
<1>3. PICK d \in distances : \A e \in distances : d <= e
  BY <1>2, LeastElement
<1>4. \A k \in S : bound - k \in distances
  OBVIOUS
<1> QED
  BY <1>3, <1>4

(* f is what `next` makes of `start`, step by step, up to `last`.          *)
Iterates(f, start, next, last) ==
  f[0] = start /\ \A n \in 1 .. last : f[n] = next[<<f[n - 1], n>>]

(* ... and for ever.                                                       *)
Recurs(f, start, next) ==
  f[0] = start /\ \A n \in Nat \ {0} : f[n] = next[<<f[n - 1], n>>]

(* A function defined by recursion exists: on every interval 0 .. n ...    *)
LEMMA FiniteRecursion ==
  ASSUME NEW X, NEW start \in X, NEW next \in [X \X Nat -> X], NEW last \in Nat
  PROVE  \E f \in [0 .. last -> X] : Iterates(f, start, next, last)
<1> DEFINE S == {m \in Nat : \E f \in [0 .. m -> X] : Iterates(f, start, next, m)}
<1>1. 0 \in S
  <2> DEFINE f == [n \in 0 .. 0 |-> start]
  <2>1. f \in [0 .. 0 -> X] /\ Iterates(f, start, next, 0)
    BY DEF Iterates
  <2> HIDE DEF f
  <2> QED
    BY <2>1
<1>2. ASSUME NEW m \in Nat, m \in S PROVE m + 1 \in S
  <2>1. PICK f \in [0 .. m -> X] : Iterates(f, start, next, m)
    BY <1>2
  <2> DEFINE g == [n \in 0 .. m + 1 |-> IF n = m + 1 THEN next[<<f[m], m + 1>>] ELSE f[n]]
  <2>2. f[m] \in X /\ m + 1 \in Nat /\ m \in 0 .. m
    BY <2>1
  <2>3. next[<<f[m], m + 1>>] \in X
    BY <2>2
  <2>4. g \in [0 .. m + 1 -> X] /\ g[0] = start
    BY <2>1, <2>3 DEF Iterates
  <2>5. ASSUME NEW n \in 1 .. m + 1 PROVE g[n] = next[<<g[n - 1], n>>]
    <3>1. CASE n = m + 1
      <4>1. n - 1 = m /\ n \in 0 .. m + 1 /\ m \in 0 .. m + 1 /\ m # m + 1
        BY <3>1
      <4> QED
        BY <3>1, <4>1
    <3>2. CASE n \in 1 .. m
      BY <2>1, <3>2 DEF Iterates
    <3> QED
      BY <3>1, <3>2
  <2>6. Iterates(g, start, next, m + 1)
    BY <2>4, <2>5 DEF Iterates
  <2> HIDE DEF g
  <2> QED
    BY <2>4, <2>6
<1>3. last \in S
  <2> HIDE DEF S
  <2> QED
    BY <1>1, <1>2, SetInduction
<1> QED
  BY <1>3

(* ... two of them agree where both are defined ...                        *)
LEMMA RecursionAgrees ==
  ASSUME NEW start, NEW next, NEW i \in Nat, NEW j \in Nat, NEW f, NEW g,
         Iterates(f, start, next, i), Iterates(g, start, next, j)
  PROVE  \A n \in Nat : n <= i /\ n <= j => f[n] = g[n]
<1> DEFINE S == {n \in Nat : n <= i /\ n <= j => f[n] = g[n]}
<1>1. 0 \in S
  BY DEF Iterates
<1>2. ASSUME NEW n \in Nat, n \in S PROVE n + 1 \in S
  <2> SUFFICES ASSUME n + 1 <= i, n + 1 <= j PROVE f[n + 1] = g[n + 1]
    OBVIOUS
  <2>1. f[n] = g[n]
    BY <1>2
  <2>2. n + 1 \in 1 .. i /\ n + 1 \in 1 .. j /\ (n + 1) - 1 = n
    OBVIOUS
  <2> QED
    BY <2>1, <2>2 DEF Iterates
<1>3. Nat \subseteq S
  <2> HIDE DEF S
  <2> QED
    BY <1>1, <1>2, SetInduction
<1> QED
  BY <1>3

(* ... so that they make one on all naturals.                              *)
LEMMA NatRecursion ==
  ASSUME NEW X, NEW start \in X, NEW next \in [X \X Nat -> X]
  PROVE  \E f \in [Nat -> X] : Recurs(f, start, next)
<1> DEFINE h(m) == CHOOSE f \in [0 .. m -> X] : Iterates(f, start, next, m)
           f == [n \in Nat |-> h(n)[n]]
<1>1. ASSUME NEW m \in Nat PROVE h(m) \in [0 .. m -> X] /\ Iterates(h(m), start, next, m)
  <2>1. \E g \in [0 .. m -> X] : Iterates(g, start, next, m)
    BY FiniteRecursion
  <2> QED
    BY <2>1
<1> HIDE DEF h
<1>2. f[0] = start
  BY <1>1 DEF Iterates
<1>3. f \in [Nat -> X]
  BY <1>1
<1>4. ASSUME NEW n \in Nat \ {0} PROVE f[n] = next[<<f[n - 1], n>>]
  <2>1. n - 1 \in Nat
    OBVIOUS
  <2>2. Iterates(h(n), start, next, n) /\ Iterates(h(n - 1), start, next, n - 1)
    BY <1>1, <2>1
  <2>3. h(n)[n - 1] = h(n - 1)[n - 1]
    BY <2>1, <2>2, RecursionAgrees
  <2>4. h(n)[n] = next[<<h(n)[n - 1], n>>]
    BY <2>2 DEF Iterates
  <2> QED
    BY <2>1, <2>3, <2>4
<1> QED
  BY <1>2, <1>3, <1>4 DEF Recurs

=============================================================================
