---------------------------- MODULE ContextProofs ---------------------------
(***************************************************************************)
(* What the rules in force and their traces say, whatever layers and       *)
(* waivers an organization has, and that what is applied obeys them: the   *)
(* effective context and the policies of Compiler.                         *)
(***************************************************************************)
EXTENDS CompilerProofs

(***************************************************************************)
(* The rules in force.                                                     *)
(***************************************************************************)

(* `order` puts the positions of a list in an order.                       *)
rearranges(order, n, R) ==
  /\ order \in [1 .. n -> 1 .. n]
  /\ \A i \in 1 .. n : \E k \in 1 .. n : order[k] = i
  /\ \A j, k \in 1 .. n : j < k => <<order[j], order[k]>> \in R

LEMMA OrderedPositions ==
  ASSUME NEW n \in Nat, NEW R, orders(1 .. n, R)
  PROVE  rearranges(inOrder(1 .. n, R), n, R)
<1>1. PICK S : S = 1 .. n
  OBVIOUS
<1>2. IsFiniteSet(S) /\ Cardinality(S) = n /\ orders(S, R)
  BY <1>1, FS_Interval
<1>3. PICK order : order = inOrder(S, R)
  OBVIOUS
<1>4. order \in [1 .. n -> S]
  <2>1. inOrder(S, R) \in [1 .. Cardinality(S) -> S]
    BY <1>2, InOrder
  <2> QED
    BY <1>2, <1>3, <2>1
<1>5. ASSUME NEW i \in S PROVE \E k \in 1 .. n : order[k] = i
  <2>1. PICK k \in 1 .. Cardinality(S) : inOrder(S, R)[k] = i
    BY <1>2, InOrder
  <2> QED
    BY <1>2, <1>3, <2>1
<1>6. \A j, k \in 1 .. n : j < k => <<order[j], order[k]>> \in R
  <2>1. \A j, k \in 1 .. Cardinality(S) : j < k <=> <<inOrder(S, R)[j], inOrder(S, R)[k]>> \in R
    BY <1>2, InOrder
  <2> QED
    BY <1>2, <1>3, <2>1
<1>7. rearranges(order, n, R)
  BY <1>1, <1>4, <1>5, <1>6 DEF rearranges
<1> QED
  BY <1>1, <1>3, <1>7

(* A list put into an order.                                               *)
follows(x, y, list, R) == \E h, i \in DOMAIN list : <<h, i>> \in R /\ x = list[h] /\ y = list[i]

arranges(sorted, list, R) ==
  /\ DOMAIN sorted = DOMAIN list
  /\ \A k \in DOMAIN list : \E i \in DOMAIN list : sorted[k] = list[i]
  /\ \A i \in DOMAIN list : \E k \in DOMAIN list : sorted[k] = list[i]
  /\ \A j, k \in DOMAIN list : j < k => follows(sorted[j], sorted[k], list, R)

LEMMA ListArranged ==
  ASSUME NEW list, isList(list), NEW R, orders(DOMAIN list, R),
         NEW sorted, sorted = [k \in DOMAIN list |-> list[inOrder(DOMAIN list, R)[k]]]
  PROVE  arranges(sorted, list, R)
<1>1. PICK n \in Nat : DOMAIN list = 1 .. n /\ Len(list) = n
  BY DEF isList
<1>2. PICK order : order = inOrder(DOMAIN list, R)
  OBVIOUS
<1>3. rearranges(order, n, R)
  BY <1>1, <1>2, OrderedPositions
<1>4. DOMAIN sorted = 1 .. n /\ \A k \in 1 .. n : sorted[k] = list[order[k]]
  BY <1>1, <1>2
<1>5. \A k \in 1 .. n : order[k] \in 1 .. n
  BY <1>3 DEF rearranges
<1>6. ASSUME NEW k \in DOMAIN list PROVE \E i \in DOMAIN list : sorted[k] = list[i]
  BY <1>1, <1>4, <1>5
<1>7. ASSUME NEW i \in DOMAIN list PROVE \E k \in DOMAIN list : sorted[k] = list[i]
  <2>1. PICK k \in 1 .. n : order[k] = i
    BY <1>1, <1>3 DEF rearranges
  <2> QED
    BY <1>1, <1>4, <2>1
<1>8. ASSUME NEW j \in DOMAIN list, NEW k \in DOMAIN list, j < k
      PROVE  follows(sorted[j], sorted[k], list, R)
  <2>1. <<order[j], order[k]>> \in R
    BY <1>1, <1>3, <1>8 DEF rearranges
  <2>2. sorted[j] = list[order[j]] /\ sorted[k] = list[order[k]]
    BY <1>1, <1>4
  <2> QED
    BY <1>1, <1>5, <2>1, <2>2 DEF follows
<1>9. DOMAIN sorted = DOMAIN list
  BY <1>1, <1>4
<1> QED
  BY <1>6, <1>7, <1>8, <1>9 DEF arranges

(* Layers in the order of the derivation: by ascending precedence.         *)
byPrecedence(sorted, layers) ==
  /\ DOMAIN sorted = DOMAIN layers
  /\ \A k \in DOMAIN layers : \E i \in DOMAIN layers : sorted[k] = layers[i]
  /\ \A i \in DOMAIN layers : \E k \in DOMAIN layers : sorted[k] = layers[i]
  /\ \A j, k \in DOMAIN layers : j < k => sorted[j].precedence < sorted[k].precedence

LEMMA LayersAreOrdered ==
  ASSUME NEW context, isContext(context), NEW layers, layers = context.layers,
         IsInjective([i \in DOMAIN layers |-> layers[i].precedence])
  PROVE  byPrecedence(ordered(layers), layers)
<1>1. PICK n \in Nat : DOMAIN layers = 1 .. n /\ Len(layers) = n
  BY DEF isContext, isList
<1>2. \A i \in 1 .. n : layers[i].precedence \in Nat
  BY <1>1 DEF isContext
<1>3. \A i, j \in 1 .. n : layers[i].precedence = layers[j].precedence => i = j
  BY <1>1 DEF IsInjective
<1>4. PICK R : R = {ij \in (DOMAIN layers) \X (DOMAIN layers) : precedes(layers, ij[1], ij[2])}
  OBVIOUS
<1>5. ASSUME NEW i \in 1 .. n, NEW j \in 1 .. n
      PROVE  <<i, j>> \in R <=> layers[i].precedence < layers[j].precedence
  <2>1. <<i, j>> \in R <=> precedes(layers, i, j)
    BY <1>1, <1>4
  <2>2. precedes(layers, i, j) => layers[i].precedence < layers[j].precedence
    <3> SUFFICES ASSUME precedes(layers, i, j), layers[i].precedence = layers[j].precedence PROVE FALSE
      BY DEF precedes
    <3>1. i = j
      BY <1>3
    <3>2. layers[i].id \in Nat /\ i \in Nat
      BY <1>1 DEF isContext
    <3> QED
      BY <1>2, <3>1, <3>2 DEF precedes
  <2> QED
    BY <2>1, <2>2 DEF precedes
<1>6. orders(DOMAIN layers, R)
  <2>1. orders(1 .. n, R)
    BY <1>2, <1>3, <1>5 DEF orders
  <2> QED
    BY <1>1, <2>1
<1>7. PICK sorted : sorted = [k \in DOMAIN layers |-> layers[inOrder(DOMAIN layers, R)[k]]]
  OBVIOUS
<1>8. sorted = ordered(layers)
  BY <1>4, <1>7 DEF ordered
<1>9. arranges(sorted, layers, R)
  BY <1>6, <1>7, ListArranged DEF isContext
<1>10. ASSUME NEW j \in 1 .. n, NEW k \in 1 .. n, j < k PROVE sorted[j].precedence < sorted[k].precedence
  <2>1. follows(sorted[j], sorted[k], layers, R)
    BY <1>1, <1>9, <1>10 DEF arranges
  <2> QED
    BY <1>1, <1>5, <2>1 DEF follows
<1>11. byPrecedence(sorted, layers)
  BY <1>1, <1>9, <1>10 DEF arranges, byPrecedence
<1> QED
  BY <1>8, <1>11

(* Waivers go by id.                                                       *)
byId(sorted, waivers) ==
  /\ DOMAIN sorted = DOMAIN waivers
  /\ \A k \in DOMAIN waivers : \E i \in DOMAIN waivers : sorted[k] = waivers[i]
  /\ \A i \in DOMAIN waivers : \E k \in DOMAIN waivers : sorted[k] = waivers[i]
  /\ \A j, k \in DOMAIN waivers : j < k => sorted[j].id < sorted[k].id

LEMMA WaiversAreOrdered ==
  ASSUME NEW context, isContext(context), NEW waivers, waivers = context.waivers, uniqueIds(waivers)
  PROVE  byId(orderedWaivers(waivers), waivers)
<1>1. PICK n \in Nat : DOMAIN waivers = 1 .. n /\ Len(waivers) = n
  BY DEF isContext, isList
<1>2. \A i \in 1 .. n : waivers[i].id \in Nat
  BY <1>1 DEF isContext
<1>3. \A i, j \in 1 .. n : waivers[i].id = waivers[j].id => i = j
  BY <1>1 DEF IsInjective, uniqueIds
<1> DEFINE before(i, j) == waivers[i].id < waivers[j].id \/ (waivers[i].id = waivers[j].id /\ i < j)
<1>4. PICK R : R = {ij \in (DOMAIN waivers) \X (DOMAIN waivers) : before(ij[1], ij[2])}
  OBVIOUS
<1>5. ASSUME NEW i \in 1 .. n, NEW j \in 1 .. n
      PROVE  <<i, j>> \in R <=> waivers[i].id < waivers[j].id
  <2>1. <<i, j>> \in R <=> before(i, j)
    BY <1>1, <1>4
  <2>2. waivers[i].id = waivers[j].id => i = j
    BY <1>3
  <2> QED
    BY <2>1, <2>2
<1>6. orders(DOMAIN waivers, R)
  <2>1. orders(1 .. n, R)
    BY <1>2, <1>3, <1>5 DEF orders
  <2> QED
    BY <1>1, <2>1
<1>7. PICK sorted : sorted = [k \in DOMAIN waivers |-> waivers[inOrder(DOMAIN waivers, R)[k]]]
  OBVIOUS
<1>8. sorted = orderedWaivers(waivers)
  BY <1>4, <1>7 DEF orderedWaivers
<1>9. arranges(sorted, waivers, R)
  BY <1>6, <1>7, ListArranged DEF isContext
<1>10. ASSUME NEW j \in 1 .. n, NEW k \in 1 .. n, j < k PROVE sorted[j].id < sorted[k].id
  <2>1. follows(sorted[j], sorted[k], waivers, R)
    BY <1>1, <1>9, <1>10 DEF arranges
  <2> QED
    BY <1>1, <1>5, <2>1 DEF follows
<1>11. byId(sorted, waivers)
  BY <1>1, <1>9, <1>10 DEF arranges, byId
<1> QED
  BY <1>8, <1>11

(* Whether a layer defines a rule, and how.                                *)
defines(layer, rule) == \E n \in DOMAIN layer.rules : layer.rules[n].id = rule
definition(layer, rule) == layer.rules[CHOOSE n \in DOMAIN layer.rules : layer.rules[n].id = rule]

LEMMA DefinedOnce ==
  ASSUME NEW layer, uniqueIds(layer.rules), NEW rule, NEW n \in DOMAIN layer.rules, layer.rules[n].id = rule
  PROVE  definition(layer, rule) = layer.rules[n]
<1>1. PICK m \in DOMAIN layer.rules : m = CHOOSE k \in DOMAIN layer.rules : layer.rules[k].id = rule
  OBVIOUS
<1>2. layer.rules[m].id = rule
  BY <1>1
<1>3. m = n
  BY <1>2 DEF uniqueIds, IsInjective
<1> QED
  BY <1>1, <1>3 DEF definition

(* What a layer makes of a rule: nothing when it does not define it.       *)
LEMMA OneLayer ==
  ASSUME NEW layer, isList(layer.rules), uniqueIds(layer.rules), NEW rule, NEW working,
         NEW out, out = afterRules(working, layer, rule)[Len(layer.rules)]
  PROVE  out = IF defines(layer, rule)
               THEN applyRule(working, [layer |-> layer.id, rule |-> definition(layer, rule)])
               ELSE working
<1> DEFINE rules == layer.rules
           last == Len(rules)
           found == applyRule(working, [layer |-> layer.id, rule |-> definition(layer, rule)])
           step(f, n) == IF n = 0 THEN working
                         ELSE IF rules[n].id = rule THEN applyRule(f[n - 1], [layer |-> layer.id, rule |-> rules[n]])
                         ELSE f[n - 1]
           after == CHOOSE f : f = [n \in 0 .. last |-> step(f, n)]
           solution == [n \in 0 .. last |-> IF \E m \in 1 .. n : rules[m].id = rule THEN found ELSE working]
<1>1. last \in Nat /\ DOMAIN rules = 1 .. last
  BY DEF isList
<1>2. ASSUME NEW n \in 1 .. last, rules[n].id = rule
      PROVE  definition(layer, rule) = rules[n] /\ \A m \in 1 .. last : rules[m].id = rule => m = n
  BY <1>1, <1>2, DefinedOnce DEF uniqueIds, IsInjective
<1>3. ASSUME NEW n \in 0 .. last PROVE solution[n] = step(solution, n)
  <2>1. CASE n = 0
    BY <2>1
  <2>2. CASE n # 0 /\ rules[n].id = rule
    <3>1. n \in 1 .. last /\ n - 1 \in 0 .. last
      BY <1>1, <2>2
    <3>2. \A m \in 1 .. n - 1 : rules[m].id # rule
      BY <1>1, <1>2, <2>2, <3>1
    <3>3. solution[n - 1] = working
      BY <3>1, <3>2
    <3>4. solution[n] = found
      BY <1>1, <2>2, <3>1
    <3>5. definition(layer, rule) = rules[n]
      BY <1>2, <2>2, <3>1
    <3> HIDE DEF solution
    <3> QED
      BY <2>2, <3>3, <3>4, <3>5
  <2>3. CASE n # 0 /\ rules[n].id # rule
    <3>1. n \in 1 .. last /\ n - 1 \in 0 .. last
      BY <1>1, <2>3
    <3>2. (\E m \in 1 .. n : rules[m].id = rule) <=> \E m \in 1 .. n - 1 : rules[m].id = rule
      <4>1. 1 .. n = 1 .. n - 1 \union {n}
        BY <1>1, <3>1
      <4> QED
        BY <2>3, <4>1
    <3>3. solution[n] = solution[n - 1]
      BY <3>1, <3>2
    <3> HIDE DEF solution
    <3> QED
      BY <2>3, <3>3
  <2> QED
    BY <2>1, <2>2, <2>3
<1>4. solution = [n \in 0 .. last |-> step(solution, n)]
  <2>1. solution = [n \in 0 .. last |-> solution[n]]
    OBVIOUS
  <2> HIDE DEF solution, step
  <2> QED
    BY <1>3, <2>1
<1>5. after = [n \in 0 .. last |-> step(after, n)]
  <2> HIDE DEF solution, step
  <2> QED
    BY <1>4
<1>6. \A n \in 0 .. last : after[n] = step(after, n)
  <2> HIDE DEF after, step
  <2> QED
    BY <1>5
<1>7. out = after[last]
  BY DEF afterRules
<1>8. \A n \in 0 .. last : after[n] = solution[n]
  <2> DEFINE S == {n \in Nat : n <= last => after[n] = solution[n]}
  <2> HIDE DEF after, solution
  <2>1. 0 \in S
    <3>1. 0 \in 0 .. last
      BY <1>1
    <3>2. after[0] = working /\ solution[0] = working
      BY <1>3, <1>6, <3>1
    <3> QED
      BY <3>2
  <2>2. ASSUME NEW n \in Nat, n \in S PROVE n + 1 \in S
    <3> SUFFICES ASSUME n + 1 <= last PROVE after[n + 1] = solution[n + 1]
      OBVIOUS
    <3>1. n + 1 \in 0 .. last /\ (n + 1) - 1 = n /\ n + 1 # 0 /\ after[n] = solution[n]
      BY <1>1, <2>2
    <3> QED
      BY <1>3, <1>6, <3>1
  <2>3. Nat \subseteq S
    <3> HIDE DEF S
    <3> QED
      BY <2>1, <2>2, SetInduction
  <2> QED
    BY <1>1, <2>3
<1>9. solution[last] = IF defines(layer, rule) THEN found ELSE working
  BY <1>1 DEF defines
<1>10. after[last] = solution[last]
  <2>1. last \in 0 .. last
    BY <1>1
  <2> HIDE DEF after, solution, last
  <2> QED
    BY <1>8, <2>1
<1> HIDE DEF after, solution
<1> QED
  BY <1>7, <1>9, <1>10

(* What the derivation makes of a rule, one layer after the other.         *)
layerStep(w, sorted, rule, k) == afterRules(w, sorted[k], rule)[Len(sorted[k].rules)]

LEMMA AfterLayers ==
  ASSUME NEW layers, isList(layers), NEW rule, NEW sorted, sorted = ordered(layers),
         NEW f, f = afterLayers(layers, rule)
  PROVE  f[0] = Null /\ \A k \in 1 .. Len(layers) : f[k] = layerStep(f[k - 1], sorted, rule, k)
<1> DEFINE last == Len(layers)
           step(g, k) == IF k = 0 THEN Null ELSE layerStep(g[k - 1], sorted, rule, k)
           after == CHOOSE g : g = [k \in 0 .. last |-> step(g, k)]
           S == {m \in Nat : \E g : g = [k \in 0 .. m |-> step(g, k)]}
<1>1. last \in Nat
  BY DEF isList
<1>2. 0 \in S
  <2>1. PICK g : g = [k \in 0 .. 0 |-> Null]
    OBVIOUS
  <2>2. g = [k \in 0 .. 0 |-> step(g, k)]
    BY <2>1
  <2> HIDE DEF step
  <2> QED
    BY <2>2
<1>3. ASSUME NEW m \in Nat, m \in S PROVE m + 1 \in S
  <2>1. PICK g : g = [k \in 0 .. m |-> step(g, k)]
    BY <1>3
  <2>2. PICK next : next = layerStep(g[m], sorted, rule, m + 1)
    OBVIOUS
  <2>3. PICK h : h = [k \in 0 .. m + 1 |-> IF k = m + 1 THEN next ELSE g[k]]
    OBVIOUS
  <2>4. ASSUME NEW k \in 0 .. m + 1 PROVE h[k] = step(h, k)
    <3>1. CASE k = m + 1
      <4>1. k - 1 = m /\ m \in 0 .. m + 1 /\ m # m + 1 /\ k # 0
        BY <3>1
      <4>2. h[k - 1] = g[m] /\ h[k] = next
        BY <2>3, <3>1, <4>1
      <4> QED
        BY <2>2, <3>1, <4>1, <4>2
    <3>2. CASE k = 0
      <4>1. k \in 0 .. m /\ k # m + 1
        BY <3>2
      <4>2. h[k] = g[k] /\ g[k] = step(g, k)
        <5> HIDE DEF step
        <5> QED
          BY <2>1, <2>3, <4>1
      <4> QED
        BY <3>2, <4>2
    <3>3. CASE k # m + 1 /\ k # 0
      <4>1. k \in 0 .. m /\ k - 1 \in 0 .. m /\ k - 1 \in 0 .. m + 1 /\ k - 1 # m + 1
        BY <3>3
      <4>2. h[k] = g[k] /\ g[k] = step(g, k) /\ h[k - 1] = g[k - 1]
        <5> HIDE DEF step
        <5> QED
          BY <2>1, <2>3, <3>3, <4>1
      <4> QED
        BY <3>3, <4>2
    <3> QED
      BY <3>1, <3>2, <3>3
  <2>5. h = [k \in 0 .. m + 1 |-> step(h, k)]
    <3>1. h = [k \in 0 .. m + 1 |-> h[k]]
      BY <2>3
    <3> HIDE DEF step
    <3> QED
      BY <2>4, <3>1
  <2> HIDE DEF step
  <2> QED
    BY <2>5
<1>4. last \in S
  <2> HIDE DEF S
  <2> QED
    BY <1>1, <1>2, <1>3, SetInduction
<1>5. after = [k \in 0 .. last |-> step(after, k)]
  <2> HIDE DEF step
  <2> QED
    BY <1>4
<1>6. \A k \in 0 .. last : after[k] = step(after, k)
  <2> HIDE DEF after, step
  <2> QED
    BY <1>5
<1>7. f = after
  BY DEF afterLayers, layerStep
<1>8. after[0] = Null
  <2> HIDE DEF after
  <2> QED
    BY <1>1, <1>6
<1>9. ASSUME NEW k \in 1 .. last PROVE after[k] = layerStep(after[k - 1], sorted, rule, k)
  <2> HIDE DEF after
  <2> QED
    BY <1>1, <1>6
<1> HIDE DEF after
<1> QED
  BY <1>7, <1>8, <1>9

(* A waiver changes the rule it is about.                                  *)
waiverStep(w, sorted, rule, k) == IF sorted[k].rule = rule THEN applyWaiver(w, sorted[k]) ELSE w

LEMMA AfterWaivers ==
  ASSUME NEW layers, NEW waivers, isList(waivers), NEW rule, NEW sorted, sorted = orderedWaivers(waivers),
         NEW start, start = afterLayers(layers, rule)[Len(layers)],
         NEW f, f = afterWaivers(layers, waivers, rule)
  PROVE  f[0] = start /\ \A k \in 1 .. Len(waivers) : f[k] = waiverStep(f[k - 1], sorted, rule, k)
<1> DEFINE last == Len(waivers)
           step(g, k) == IF k = 0 THEN start ELSE waiverStep(g[k - 1], sorted, rule, k)
           after == CHOOSE g : g = [k \in 0 .. last |-> step(g, k)]
           S == {m \in Nat : \E g : g = [k \in 0 .. m |-> step(g, k)]}
<1>1. last \in Nat
  BY DEF isList
<1>2. 0 \in S
  <2>1. PICK g : g = [k \in 0 .. 0 |-> start]
    OBVIOUS
  <2>2. g = [k \in 0 .. 0 |-> step(g, k)]
    BY <2>1
  <2> HIDE DEF step
  <2> QED
    BY <2>2
<1>3. ASSUME NEW m \in Nat, m \in S PROVE m + 1 \in S
  <2>1. PICK g : g = [k \in 0 .. m |-> step(g, k)]
    BY <1>3
  <2>2. PICK next : next = waiverStep(g[m], sorted, rule, m + 1)
    OBVIOUS
  <2>3. PICK h : h = [k \in 0 .. m + 1 |-> IF k = m + 1 THEN next ELSE g[k]]
    OBVIOUS
  <2>4. ASSUME NEW k \in 0 .. m + 1 PROVE h[k] = step(h, k)
    <3>1. CASE k = m + 1
      <4>1. k - 1 = m /\ m \in 0 .. m + 1 /\ m # m + 1 /\ k # 0
        BY <3>1
      <4>2. h[k - 1] = g[m] /\ h[k] = next
        BY <2>3, <3>1, <4>1
      <4> QED
        BY <2>2, <3>1, <4>1, <4>2
    <3>2. CASE k = 0
      <4>1. k \in 0 .. m /\ k # m + 1
        BY <3>2
      <4>2. h[k] = g[k] /\ g[k] = step(g, k)
        <5> HIDE DEF step
        <5> QED
          BY <2>1, <2>3, <4>1
      <4> QED
        BY <3>2, <4>2
    <3>3. CASE k # m + 1 /\ k # 0
      <4>1. k \in 0 .. m /\ k - 1 \in 0 .. m /\ k - 1 \in 0 .. m + 1 /\ k - 1 # m + 1
        BY <3>3
      <4>2. h[k] = g[k] /\ g[k] = step(g, k) /\ h[k - 1] = g[k - 1]
        <5> HIDE DEF step
        <5> QED
          BY <2>1, <2>3, <3>3, <4>1
      <4> QED
        BY <3>3, <4>2
    <3> QED
      BY <3>1, <3>2, <3>3
  <2>5. h = [k \in 0 .. m + 1 |-> step(h, k)]
    <3>1. h = [k \in 0 .. m + 1 |-> h[k]]
      BY <2>3
    <3> HIDE DEF step
    <3> QED
      BY <2>4, <3>1
  <2> HIDE DEF step
  <2> QED
    BY <2>5
<1>4. last \in S
  <2> HIDE DEF S
  <2> QED
    BY <1>1, <1>2, <1>3, SetInduction
<1>5. after = [k \in 0 .. last |-> step(after, k)]
  <2> HIDE DEF step
  <2> QED
    BY <1>4
<1>6. \A k \in 0 .. last : after[k] = step(after, k)
  <2> HIDE DEF after, step
  <2> QED
    BY <1>5
<1>7. f = after
  BY DEF afterWaivers, waiverStep
<1>8. after[0] = start
  <2> HIDE DEF after
  <2> QED
    BY <1>1, <1>6
<1>9. ASSUME NEW k \in 1 .. last PROVE after[k] = waiverStep(after[k - 1], sorted, rule, k)
  <2> HIDE DEF after
  <2> QED
    BY <1>1, <1>6
<1> HIDE DEF after
<1> QED
  BY <1>7, <1>8, <1>9

(* A rule in the making, and what each way to apply a definition or a      *)
(* waiver makes of it.                                                     *)
isWorking(w) ==
  w = [category |-> w.category, value |-> w.value, locked |-> w.locked, source |-> w.source, trace |-> w.trace]

isDefined(out, w, at) ==
  /\ isWorking(out)
  /\ out.value = at.rule.value /\ out.locked = at.rule.locked
  /\ out.source = [type |-> "LAYER", id |-> at.layer]
  /\ out.trace = Append(IF w = Null THEN <<>> ELSE demote(w.trace, {"APPLIED"}),
                        traced("LAYER", at.layer, at.rule.value, "APPLIED"))

LEMMA DefinedIs ==
  ASSUME NEW w, NEW at
  PROVE  isDefined(defined(w, at), w, at)
BY DEF defined, isDefined, isWorking

refused(w, entry) == [w EXCEPT !.trace = Append(@, entry)]

isRefused(out, w, entry) ==
  /\ isWorking(out)
  /\ out.value = w.value /\ out.locked = w.locked /\ out.source = w.source
  /\ out.trace = Append(w.trace, entry)

LEMMA RefusedIs ==
  ASSUME NEW w, isWorking(w), NEW entry
  PROVE  isRefused(refused(w, entry), w, entry)
BY DEF isWorking, isRefused, refused

isWaived(out, w, waiver) ==
  /\ isWorking(out)
  /\ out.value = waiver.value /\ out.locked = w.locked
  /\ out.source = [type |-> "WAIVER", id |-> waiver.id]
  /\ out.trace = Append(demote(w.trace, {"APPLIED", "WAIVED"}),
                        traced("WAIVER", waiver.id, waiver.value, "WAIVED"))

LEMMA WaivedIs ==
  ASSUME NEW w, w # Null, isWorking(w), NEW waiver
  PROVE  isWaived(applyWaiver(w, waiver), w, waiver)
BY DEF applyWaiver, isWorking, isWaived

LEMMA WorkingIsNotNull ==
  ASSUME NullIsNoFunction, NEW w, isWorking(w)
  PROVE  w # Null
<1>1. w = [x \in DOMAIN w |-> w[x]]
  BY DEF isWorking
<1> QED
  BY <1>1 DEF NullIsNoFunction

(* The layers of a valid context, in the order of the derivation.          *)
isSorted(sorted, n) ==
  /\ DOMAIN sorted = 1 .. n
  /\ \A k \in 1 .. n : isList(sorted[k].rules) /\ uniqueIds(sorted[k].rules) /\ sorted[k].precedence \in Nat
  /\ \A j, k \in 1 .. n : sorted[j].id = sorted[k].id => j = k
  /\ \A j, k \in 1 .. n : j < k => sorted[j].precedence < sorted[k].precedence

says(sorted, rule, i) == definition(sorted[i], rule)
definedAt(sorted, rule, k) == {i \in 1 .. k : defines(sorted[i], rule)}

(* The layer whose definition is in force among the first k: the first     *)
(* that locks, else the last.                                              *)
decides(i, sorted, rule, k) ==
  /\ i \in definedAt(sorted, rule, k)
  /\ IF says(sorted, rule, i).locked
     THEN \A j \in definedAt(sorted, rule, k) : says(sorted, rule, j).locked => i <= j
     ELSE \A j \in definedAt(sorted, rule, k) : ~ says(sorted, rule, j).locked /\ j <= i

decidedBy(w, i, sorted, rule, k) ==
  /\ decides(i, sorted, rule, k)
  /\ w.value = says(sorted, rule, i).value /\ w.locked = says(sorted, rule, i).locked

made(w, sorted, rule, k) ==
  IF definedAt(sorted, rule, k) = {} THEN w = Null
  ELSE isWorking(w) /\ \E i \in 1 .. k : decidedBy(w, i, sorted, rule, k)

LEMMA LayerDecides ==
  ASSUME NullIsNoFunction, NEW n \in Nat, NEW sorted, isSorted(sorted, n), NEW rule, NEW k \in 1 .. n,
         NEW w, made(w, sorted, rule, k - 1), NEW out, out = layerStep(w, sorted, rule, k)
  PROVE  made(out, sorted, rule, k)
<1>1. PICK layer : layer = sorted[k]
  OBVIOUS
<1>2. PICK at : at = [layer |-> layer.id, rule |-> definition(layer, rule)]
  OBVIOUS
<1>3. isList(layer.rules) /\ uniqueIds(layer.rules)
  BY <1>1 DEF isSorted
<1>4. out = IF defines(layer, rule) THEN applyRule(w, at) ELSE w
  <2>1. out = afterRules(w, layer, rule)[Len(layer.rules)]
    BY <1>1 DEF layerStep
  <2> QED
    BY <1>2, <1>3, <2>1, OneLayer
<1>5. PICK D : D = definedAt(sorted, rule, k - 1)
  OBVIOUS
<1>6. D \subseteq 1 .. k - 1
  BY <1>5 DEF definedAt
<1>7. CASE ~ defines(layer, rule)
  <2>1. definedAt(sorted, rule, k) = D
    BY <1>1, <1>5, <1>7 DEF definedAt
  <2>2. CASE D = {}
    BY <1>4, <1>5, <1>7, <2>1, <2>2 DEF made
  <2>3. CASE D # {}
    <3>1. isWorking(w)
      BY <1>5, <2>3 DEF made
    <3>2. PICK i \in 1 .. k - 1 : decidedBy(w, i, sorted, rule, k - 1)
      BY <1>5, <2>3 DEF made
    <3>3. decidedBy(w, i, sorted, rule, k) /\ i \in 1 .. k
      BY <1>5, <2>1, <3>2 DEF decidedBy, decides
    <3> QED
      BY <1>4, <1>7, <2>1, <2>3, <3>1, <3>3 DEF made
  <2> QED
    BY <2>2, <2>3
<1>8. CASE defines(layer, rule)
  <2>1. definedAt(sorted, rule, k) = D \union {k}
    BY <1>1, <1>5, <1>8 DEF definedAt
  <2>2. at.rule = says(sorted, rule, k)
    BY <1>1, <1>2 DEF says
  <2>3. CASE D # {} /\ w.locked
    <3>1. isWorking(w)
      BY <1>5, <2>3 DEF made
    <3>2. PICK i \in 1 .. k - 1 : decidedBy(w, i, sorted, rule, k - 1)
      BY <1>5, <2>3 DEF made
    <3>3. w # Null
      BY <3>1, WorkingIsNotNull
    <3>4. PICK entry : out = refused(w, entry)
      BY <1>4, <1>8, <2>3, <3>3 DEF applyRule, refused
    <3>5. isWorking(out) /\ out.value = w.value /\ out.locked = w.locked
      <4>1. isRefused(out, w, entry)
        BY <3>1, <3>4, RefusedIs
      <4> QED
        BY <4>1 DEF isRefused
    <3>6. decidedBy(out, i, sorted, rule, k)
      <4>1. i \in D /\ \A j \in D : says(sorted, rule, j).locked => i <= j
        BY <1>5, <2>3, <3>2 DEF decidedBy, decides
      <4>2. says(sorted, rule, i).locked /\ i <= k
        BY <2>3, <3>2 DEF decidedBy
      <4> QED
        BY <2>1, <3>2, <3>5, <4>1, <4>2 DEF decidedBy, decides
    <3> QED
      BY <2>1, <3>5, <3>6 DEF made
  <2>4. CASE D = {} \/ ~ w.locked
    <3>1. out = defined(w, at)
      <4>1. CASE D = {}
        BY <1>4, <1>5, <1>8, <4>1 DEF made, applyRule
      <4> QED
        BY <1>4, <1>8, <2>4, <4>1 DEF applyRule
    <3>2. isWorking(out) /\ out.value = says(sorted, rule, k).value /\ out.locked = says(sorted, rule, k).locked
      <4>1. isDefined(out, w, at)
        BY <3>1, DefinedIs
      <4> QED
        BY <2>2, <4>1 DEF isDefined
    <3>3. \A j \in D : ~ says(sorted, rule, j).locked
      <4>1. CASE D # {}
        <5>1. PICK i \in 1 .. k - 1 : decidedBy(w, i, sorted, rule, k - 1)
          BY <1>5, <4>1 DEF made
        <5>2. ~ says(sorted, rule, i).locked
          BY <2>4, <4>1, <5>1 DEF decidedBy
        <5> QED
          BY <1>5, <5>1, <5>2 DEF decidedBy, decides
      <4> QED
        BY <4>1
    <3>4. decides(k, sorted, rule, k)
      <4>1. \A j \in D \union {k} : j <= k /\ (says(sorted, rule, j).locked => j = k)
        BY <1>6, <3>3
      <4>2. \A j \in D \union {k} : says(sorted, rule, j).locked => k <= j
        BY <4>1
      <4>3. ~ says(sorted, rule, k).locked => \A j \in D \union {k} : ~ says(sorted, rule, j).locked
        BY <4>1
      <4> QED
        BY <2>1, <4>1, <4>2, <4>3 DEF decides
    <3>5. decidedBy(out, k, sorted, rule, k) /\ k \in 1 .. k
      BY <3>2, <3>4 DEF decidedBy
    <3> QED
      BY <2>1, <3>2, <3>5 DEF made
  <2> QED
    BY <2>3, <2>4
<1> QED
  BY <1>7, <1>8

LEMMA LayersDecide ==
  ASSUME NullIsNoFunction, NEW n \in Nat, NEW sorted, isSorted(sorted, n), NEW rule, NEW f, f[0] = Null,
         \A k \in 1 .. n : f[k] = layerStep(f[k - 1], sorted, rule, k)
  PROVE  \A k \in 0 .. n : made(f[k], sorted, rule, k)
<1> DEFINE S == {k \in Nat : k <= n => made(f[k], sorted, rule, k)}
<1>1. 0 \in S
  <2>1. definedAt(sorted, rule, 0) = {}
    BY DEF definedAt
  <2> QED
    BY <2>1 DEF made
<1>2. ASSUME NEW k \in Nat, k \in S PROVE k + 1 \in S
  <2> SUFFICES ASSUME k + 1 <= n PROVE made(f[k + 1], sorted, rule, k + 1)
    OBVIOUS
  <2>1. k + 1 \in 1 .. n /\ (k + 1) - 1 = k /\ made(f[k], sorted, rule, k)
    BY <1>2
  <2>2. f[k + 1] = layerStep(f[k], sorted, rule, k + 1)
    BY <2>1
  <2> QED
    BY <2>1, <2>2, LayerDecides
<1>3. Nat \subseteq S
  <2> HIDE DEF S
  <2> QED
    BY <1>1, <1>2, SetInduction
<1> QED
  BY <1>3

(* A context without errors.                                               *)
isValidContext(context) ==
  /\ isContext(context)
  /\ uniqueIds(context.layers) /\ uniqueIds(context.waivers)
  /\ \A i \in DOMAIN context.layers : uniqueIds(context.layers[i].rules)
  /\ IsInjective([i \in DOMAIN context.layers |-> context.layers[i].precedence])
  /\ context.effective = deriveEffectiveRules(context.layers, context.waivers)

LEMMA GovernedIsValid ==
  ASSUME CInv, governed
  PROVE  isValidContext(input.context)
<1>1. PICK context : context = input.context
  OBVIOUS
<1>2. isContext(context)
  <2>1. \E family \in Inputs : input \in family
    BY DEF CInv
  <2> QED
    BY <1>1, <2>1, InputsAssumption DEF governed
<1>3. \A code \in validateEffectiveOrganizationContext(context) : code \in SYSTEM_WARNINGS
  BY <1>1, NoErrors DEF governed
<1>4. /\ "CONTRACT_DUPLICATE_ITEM_ID" \notin SYSTEM_WARNINGS
      /\ "CONTEXT_DUPLICATE_PRECEDENCE" \notin SYSTEM_WARNINGS
      /\ "CONTEXT_NOT_REPRODUCIBLE" \notin SYSTEM_WARNINGS
  BY DEF SYSTEM_WARNINGS
<1>5. uniqueIds(context.layers) /\ uniqueIds(context.waivers)
      /\ \A i \in DOMAIN context.layers : uniqueIds(context.layers[i].rules)
  <2> SUFFICES ASSUME ~ (uniqueIds(context.layers) /\ uniqueIds(context.waivers)
                         /\ \A i \in DOMAIN context.layers : uniqueIds(context.layers[i].rules))
               PROVE  FALSE
    OBVIOUS
  <2>1. "CONTRACT_DUPLICATE_ITEM_ID" \in validateEffectiveOrganizationContext(context)
    BY DEF validateEffectiveOrganizationContext
  <2> QED
    BY <1>3, <1>4, <2>1
<1>6. IsInjective([i \in DOMAIN context.layers |-> context.layers[i].precedence])
  <2> SUFFICES ASSUME ~ IsInjective([i \in DOMAIN context.layers |-> context.layers[i].precedence]) PROVE FALSE
    OBVIOUS
  <2>1. "CONTEXT_DUPLICATE_PRECEDENCE" \in derivationDiagnostics(context.layers, context.waivers)
    BY DEF derivationDiagnostics
  <2> QED
    BY <1>3, <1>4, <2>1 DEF validateEffectiveOrganizationContext
<1>7. context.effective = deriveEffectiveRules(context.layers, context.waivers)
  <2> SUFFICES ASSUME context.effective # deriveEffectiveRules(context.layers, context.waivers) PROVE FALSE
    OBVIOUS
  <2>1. "CONTEXT_NOT_REPRODUCIBLE" \in validateEffectiveOrganizationContext(context)
    BY DEF validateEffectiveOrganizationContext
  <2> QED
    BY <1>3, <1>4, <2>1
<1> QED
  BY <1>1, <1>2, <1>5, <1>6, <1>7 DEF isValidContext

LEMMA SortedLayers ==
  ASSUME NEW context, isValidContext(context), NEW layers, layers = context.layers
  PROVE  Len(layers) \in Nat /\ DOMAIN layers = 1 .. Len(layers) /\ isSorted(ordered(layers), Len(layers))
<1>1. PICK n \in Nat : n = Len(layers) /\ DOMAIN layers = 1 .. n
  BY DEF isValidContext, isContext, isList
<1>2. PICK sorted : sorted = ordered(layers)
  OBVIOUS
<1>3. byPrecedence(sorted, layers)
  BY <1>2, LayersAreOrdered DEF isValidContext
<1>4. DOMAIN sorted = 1 .. n
  BY <1>1, <1>3 DEF byPrecedence
<1>5. ASSUME NEW k \in 1 .. n
      PROVE  isList(sorted[k].rules) /\ uniqueIds(sorted[k].rules) /\ sorted[k].precedence \in Nat
  <2>1. PICK i \in DOMAIN layers : sorted[k] = layers[i]
    BY <1>1, <1>3 DEF byPrecedence
  <2> QED
    BY <2>1 DEF isValidContext, isContext
<1>6. ASSUME NEW j \in 1 .. n, NEW k \in 1 .. n, j < k PROVE sorted[j].precedence < sorted[k].precedence
  BY <1>1, <1>3, <1>6 DEF byPrecedence
<1>7. ASSUME NEW j \in 1 .. n, NEW k \in 1 .. n, sorted[j].id = sorted[k].id PROVE j = k
  <2>1. PICK h \in DOMAIN layers : sorted[j] = layers[h]
    BY <1>1, <1>3 DEF byPrecedence
  <2>2. PICK i \in DOMAIN layers : sorted[k] = layers[i]
    BY <1>1, <1>3 DEF byPrecedence
  <2>3. h = i
    BY <1>7, <2>1, <2>2 DEF isValidContext, uniqueIds, IsInjective
  <2>4. sorted[j].precedence = sorted[k].precedence /\ sorted[k].precedence \in Nat
    BY <1>5, <2>1, <2>2, <2>3
  <2>5. ~ (j < k) /\ ~ (k < j)
    BY <1>6, <2>4
  <2> QED
    BY <2>5
<1>8. isSorted(sorted, n)
  BY <1>4, <1>5, <1>6, <1>7 DEF isSorted
<1> QED
  BY <1>1, <1>2, <1>8

(* The definitions of a rule, each with its layer.                         *)
definitionAt(sorted, rule, i) == [layer |-> sorted[i], rule |-> says(sorted, rule, i)]
definitionsAt(sorted, rule, n) == {definitionAt(sorted, rule, i) : i \in definedAt(sorted, rule, n)}

LEMMA DefinitionsAre ==
  ASSUME NEW context, isValidContext(context), NEW layers, layers = context.layers,
         NEW sorted, sorted = ordered(layers), NEW rule, NEW n, n = Len(layers)
  PROVE  definitions(layers, rule) = definitionsAt(sorted, rule, n)
<1>1. n \in Nat /\ DOMAIN layers = 1 .. n /\ isSorted(sorted, n)
  BY SortedLayers
<1>2. byPrecedence(sorted, layers)
  BY LayersAreOrdered DEF isValidContext
<1>3. ASSUME NEW d \in definitions(layers, rule)
      PROVE  \E i \in definedAt(sorted, rule, n) : d = definitionAt(sorted, rule, i)
  <2>1. PICK i \in DOMAIN layers : d \in {[layer |-> layers[i], rule |-> r] : r \in {x \in ToSet(layers[i].rules) : x.id = rule}}
    BY DEF definitions
  <2>2. PICK m \in DOMAIN layers[i].rules : layers[i].rules[m].id = rule /\ d = [layer |-> layers[i], rule |-> layers[i].rules[m]]
    BY <2>1 DEF ToSet
  <2>3. PICK k \in DOMAIN layers : sorted[k] = layers[i]
    BY <1>2 DEF byPrecedence
  <2>4. k \in definedAt(sorted, rule, n)
    BY <1>1, <2>2, <2>3 DEF definedAt, defines
  <2>5. says(sorted, rule, k) = layers[i].rules[m]
    <3>1. PICK layer : layer = layers[i]
      OBVIOUS
    <3>2. uniqueIds(layer.rules)
      BY <3>1 DEF isValidContext
    <3> QED
      BY <2>2, <2>3, <3>1, <3>2, DefinedOnce DEF says
  <2> QED
    BY <2>2, <2>3, <2>4, <2>5 DEF definitionAt
<1>4. ASSUME NEW i \in definedAt(sorted, rule, n)
      PROVE  definitionAt(sorted, rule, i) \in definitions(layers, rule)
  <2>1. i \in 1 .. n /\ defines(sorted[i], rule)
    BY DEF definedAt
  <2>2. PICK m \in DOMAIN sorted[i].rules : sorted[i].rules[m].id = rule
    BY <2>1 DEF defines
  <2>3. says(sorted, rule, i) = sorted[i].rules[m]
    <3>1. PICK layer : layer = sorted[i]
      OBVIOUS
    <3>2. uniqueIds(layer.rules)
      BY <1>1, <2>1, <3>1 DEF isSorted
    <3> QED
      BY <2>2, <3>1, <3>2, DefinedOnce DEF says
  <2>4. PICK k \in DOMAIN layers : sorted[i] = layers[k]
    BY <1>1, <1>2, <2>1 DEF byPrecedence
  <2>5. definitionAt(sorted, rule, i) = [layer |-> layers[k], rule |-> layers[k].rules[m]]
    BY <2>3, <2>4 DEF definitionAt
  <2>6. layers[k].rules[m] \in {x \in ToSet(layers[k].rules) : x.id = rule}
    BY <2>2, <2>4 DEF ToSet
  <2> QED
    BY <2>5, <2>6 DEF definitions
<1> QED
  BY <1>3, <1>4 DEF definitionsAt

(* The definition that the reference names.                                *)
isDecisive(layers, sorted, rule, i) == decisive(layers, rule) = definitionAt(sorted, rule, i)

LEMMA DecisiveIs ==
  ASSUME NEW context, isValidContext(context), NEW layers, layers = context.layers,
         NEW sorted, sorted = ordered(layers), NEW rule, NEW n, n = Len(layers),
         NEW i, decides(i, sorted, rule, n)
  PROVE  isDecisive(layers, sorted, rule, i)
<1>1. n \in Nat /\ isSorted(sorted, n)
  BY SortedLayers
<1>2. PICK E : E = definedAt(sorted, rule, n)
  OBVIOUS
<1>3. E \subseteq 1 .. n /\ i \in E
  BY <1>2 DEF definedAt, decides
<1>4. PICK all : all = definitions(layers, rule)
  OBVIOUS
<1>5. all = {definitionAt(sorted, rule, j) : j \in E}
  <2>1. all = definitionsAt(sorted, rule, n)
    BY <1>4, DefinitionsAre
  <2> QED
    BY <1>2, <2>1 DEF definitionsAt
<1>6. \A j \in E : /\ definitionAt(sorted, rule, j).layer.precedence = sorted[j].precedence
                   /\ definitionAt(sorted, rule, j).rule.locked = says(sorted, rule, j).locked
                   /\ sorted[j].precedence \in Nat
  BY <1>1, <1>3 DEF definitionAt, isSorted
<1>7. ASSUME NEW j \in E, NEW k \in E
      PROVE  sorted[j].precedence <= sorted[k].precedence <=> j <= k
  <2>1. j \in 1 .. n /\ k \in 1 .. n
    BY <1>3
  <2>2. /\ sorted[j].precedence \in Nat /\ sorted[k].precedence \in Nat
        /\ j < k => sorted[j].precedence < sorted[k].precedence
        /\ k < j => sorted[k].precedence < sorted[j].precedence
    BY <1>1, <2>1 DEF isSorted
  <2> QED
    BY <2>1, <2>2
<1>8. PICK locks : locks = {d \in all : d.rule.locked}
  OBVIOUS
<1>9. PICK found : found = definitionAt(sorted, rule, i)
  OBVIOUS
<1>10. found \in all
  BY <1>3, <1>5, <1>9
<1>11. CASE says(sorted, rule, i).locked
  <2>1. found \in locks
    BY <1>3, <1>6, <1>8, <1>9, <1>10, <1>11
  <2>2. ASSUME NEW e \in locks PROVE found.layer.precedence <= e.layer.precedence
    <3>1. PICK j \in E : e = definitionAt(sorted, rule, j)
      BY <1>5, <1>8
    <3>2. i <= j
      BY <1>2, <1>6, <1>8, <1>11, <3>1 DEF decides
    <3> QED
      BY <1>3, <1>6, <1>7, <1>9, <3>1, <3>2
  <2>3. ASSUME NEW d \in locks, \A e \in locks : d.layer.precedence <= e.layer.precedence PROVE d = found
    <3>1. PICK j \in E : d = definitionAt(sorted, rule, j)
      BY <1>5, <1>8
    <3>2. i <= j
      BY <1>2, <1>6, <1>8, <1>11, <3>1 DEF decides
    <3>3. j <= i
      BY <1>3, <1>6, <1>7, <1>9, <2>1, <2>3, <3>1
    <3>4. i = j
      BY <1>3, <3>2, <3>3
    <3> QED
      BY <1>9, <3>1, <3>4
  <2>4. found = CHOOSE d \in locks : \A e \in locks : d.layer.precedence <= e.layer.precedence
    BY <2>1, <2>2, <2>3
  <2>5. locks # {}
    BY <2>1
  <2> QED
    BY <1>4, <1>8, <1>9, <2>4, <2>5 DEF decisive, isDecisive
<1>12. CASE ~ says(sorted, rule, i).locked
  <2>1. ASSUME NEW e \in locks PROVE FALSE
    <3>1. PICK j \in E : e = definitionAt(sorted, rule, j)
      BY <1>5, <1>8
    <3> QED
      BY <1>2, <1>6, <1>8, <1>12, <3>1 DEF decides
  <2>2. ASSUME NEW e \in all PROVE found.layer.precedence >= e.layer.precedence
    <3>1. PICK j \in E : e = definitionAt(sorted, rule, j)
      BY <1>5
    <3>2. j <= i
      BY <1>2, <1>12, <3>1 DEF decides
    <3> QED
      BY <1>3, <1>6, <1>7, <1>9, <3>1, <3>2
  <2>3. ASSUME NEW d \in all, \A e \in all : d.layer.precedence >= e.layer.precedence PROVE d = found
    <3>1. PICK j \in E : d = definitionAt(sorted, rule, j)
      BY <1>5
    <3>2. j <= i
      BY <1>2, <1>12, <3>1 DEF decides
    <3>3. sorted[j].precedence >= sorted[i].precedence
      BY <1>3, <1>6, <1>9, <1>10, <2>3, <3>1
    <3>4. i <= j
      BY <1>3, <1>6, <1>7, <3>3
    <3>5. i = j
      BY <1>3, <3>2, <3>4
    <3> QED
      BY <1>9, <3>1, <3>5
  <2>4. found = CHOOSE d \in all : \A e \in all : d.layer.precedence >= e.layer.precedence
    BY <1>10, <2>2, <2>3
  <2>5. locks = {}
    BY <2>1
  <2> QED
    BY <1>4, <1>8, <1>9, <2>4, <2>5 DEF decisive, isDecisive
<1> QED
  BY <1>11, <1>12

(* What waivers make of it: the last one replaces the value.               *)
waivedAt(sorted, rule, k) == {i \in 1 .. k : sorted[i].rule = rule}

isLast(i, W) == i \in W /\ \A j \in W : j <= i
waivedBy(v, i, sorted, rule, k) == isLast(i, waivedAt(sorted, rule, k)) /\ v.value = sorted[i].value

waived(v, w, sorted, rule, k) ==
  IF w = Null THEN v = Null
  ELSE /\ isWorking(v) /\ v.locked = w.locked
       /\ IF waivedAt(sorted, rule, k) = {} THEN v.value = w.value
          ELSE \E i \in 1 .. k : waivedBy(v, i, sorted, rule, k)

LEMMA WaiverReplaces ==
  ASSUME NullIsNoFunction, NEW k \in Nat, NEW w, NEW sorted, NEW rule,
         NEW v, waived(v, w, sorted, rule, k), NEW out, out = waiverStep(v, sorted, rule, k + 1)
  PROVE  waived(out, w, sorted, rule, k + 1)
<1>1. PICK W : W = waivedAt(sorted, rule, k)
  OBVIOUS
<1>2. W \subseteq 1 .. k
  BY <1>1 DEF waivedAt
<1>3. CASE sorted[k + 1].rule # rule
  <2>1. waivedAt(sorted, rule, k + 1) = W
    BY <1>1, <1>3 DEF waivedAt
  <2>2. out = v
    BY <1>3 DEF waiverStep
  <2>3. CASE W # {} /\ w # Null
    <3>1. PICK i \in 1 .. k : waivedBy(v, i, sorted, rule, k)
      BY <1>1, <2>3 DEF waived
    <3>2. waivedBy(out, i, sorted, rule, k + 1) /\ i \in 1 .. k + 1
      BY <1>1, <2>1, <2>2, <3>1 DEF waivedBy
    <3> QED
      BY <2>1, <2>2, <2>3, <3>2 DEF waived
  <2> QED
    BY <1>1, <2>1, <2>2, <2>3 DEF waived
<1>4. CASE sorted[k + 1].rule = rule /\ w = Null
  BY <1>4 DEF waived, waiverStep, applyWaiver
<1>5. CASE sorted[k + 1].rule = rule /\ w # Null
  <2>1. waivedAt(sorted, rule, k + 1) = W \union {k + 1}
    BY <1>1, <1>5 DEF waivedAt
  <2>2. isWorking(v) /\ v.locked = w.locked
    BY <1>5 DEF waived
  <2>3. v # Null
    BY <2>2, WorkingIsNotNull
  <2>4. out = applyWaiver(v, sorted[k + 1])
    BY <1>5 DEF waiverStep
  <2>5. isWaived(out, v, sorted[k + 1])
    BY <2>2, <2>3, <2>4, WaivedIs
  <2>6. isWorking(out) /\ out.locked = w.locked /\ out.value = sorted[k + 1].value
    BY <2>2, <2>5 DEF isWaived
  <2>7. \A j \in W \union {k + 1} : j <= k + 1
    BY <1>2
  <2>8. waivedBy(out, k + 1, sorted, rule, k + 1)
    BY <2>1, <2>6, <2>7 DEF waivedBy, isLast
  <2>9. k + 1 \in 1 .. k + 1
    OBVIOUS
  <2> QED
    BY <1>5, <2>1, <2>6, <2>8, <2>9 DEF waived
<1> QED
  BY <1>3, <1>4, <1>5

LEMMA WaiversReplace ==
  ASSUME NullIsNoFunction, NEW n \in Nat, NEW w, w = Null \/ isWorking(w), NEW sorted, NEW rule, NEW f, f[0] = w,
         \A k \in 1 .. n : f[k] = waiverStep(f[k - 1], sorted, rule, k)
  PROVE  \A k \in 0 .. n : waived(f[k], w, sorted, rule, k)
<1> DEFINE S == {k \in Nat : k <= n => waived(f[k], w, sorted, rule, k)}
<1>1. 0 \in S
  <2>1. waivedAt(sorted, rule, 0) = {}
    BY DEF waivedAt
  <2> QED
    BY <2>1 DEF waived
<1>2. ASSUME NEW k \in Nat, k \in S PROVE k + 1 \in S
  <2> SUFFICES ASSUME k + 1 <= n PROVE waived(f[k + 1], w, sorted, rule, k + 1)
    OBVIOUS
  <2>1. k + 1 \in 1 .. n /\ (k + 1) - 1 = k /\ waived(f[k], w, sorted, rule, k)
    BY <1>2
  <2>2. f[k + 1] = waiverStep(f[k], sorted, rule, k + 1)
    BY <2>1
  <2> QED
    BY <2>1, <2>2, WaiverReplaces
<1>3. Nat \subseteq S
  <2> HIDE DEF S
  <2> QED
    BY <1>1, <1>2, SetInduction
<1> QED
  BY <1>3

(* The waivers of a rule, and the last of them.                            *)
lastOf(live) == CHOOSE w \in live : \A v \in live : w.id >= v.id
isLastOf(w, live) == live # {} /\ lastOf(live) = w

areWaivers(sorted, W, live) ==
  /\ \A i \in W : sorted[i] \in live /\ sorted[i].id \in Nat
  /\ \A w \in live : \E i \in W : w = sorted[i]
  /\ \A i, j \in W : i < j => sorted[i].id < sorted[j].id

LEMMA LiveWaivers ==
  ASSUME NEW context, isValidContext(context), NEW waivers, waivers = context.waivers,
         NEW sorted, sorted = orderedWaivers(waivers), NEW rule, NEW n, n = Len(waivers)
  PROVE  n \in Nat /\ areWaivers(sorted, waivedAt(sorted, rule, n), waiversOf(waivers, rule))
<1>1. n \in Nat /\ DOMAIN waivers = 1 .. n
  BY DEF isValidContext, isContext, isList
<1>2. byId(sorted, waivers)
  BY WaiversAreOrdered DEF isValidContext
<1>4. ASSUME NEW i \in waivedAt(sorted, rule, n)
      PROVE  sorted[i] \in waiversOf(waivers, rule) /\ sorted[i].id \in Nat /\ i \in DOMAIN waivers
  <2>1. i \in DOMAIN waivers /\ sorted[i].rule = rule
    BY <1>1 DEF waivedAt
  <2>2. PICK k \in DOMAIN waivers : sorted[i] = waivers[k]
    BY <1>2, <2>1 DEF byId
  <2>3. waivers[k].id \in Nat
    BY DEF isValidContext, isContext
  <2> QED
    BY <2>1, <2>2, <2>3 DEF waiversOf, ToSet
<1>5. ASSUME NEW w \in waiversOf(waivers, rule) PROVE \E i \in waivedAt(sorted, rule, n) : w = sorted[i]
  <2>1. PICK k \in DOMAIN waivers : w = waivers[k] /\ w.rule = rule
    BY DEF waiversOf, ToSet
  <2>2. PICK i \in DOMAIN waivers : sorted[i] = waivers[k]
    BY <1>2 DEF byId
  <2> QED
    BY <1>1, <2>1, <2>2 DEF waivedAt
<1>6. ASSUME NEW i \in waivedAt(sorted, rule, n), NEW j \in waivedAt(sorted, rule, n), i < j
      PROVE  sorted[i].id < sorted[j].id
  BY <1>2, <1>4, <1>6 DEF byId
<1> QED
  BY <1>1, <1>4, <1>5, <1>6 DEF areWaivers

LEMMA LastWaiver ==
  ASSUME NEW context, isValidContext(context), NEW waivers, waivers = context.waivers,
         NEW sorted, sorted = orderedWaivers(waivers), NEW rule, NEW n, n = Len(waivers),
         NEW i, isLast(i, waivedAt(sorted, rule, n))
  PROVE  isLastOf(sorted[i], waiversOf(waivers, rule))
<1>1. PICK live : live = waiversOf(waivers, rule)
  OBVIOUS
<1>2. PICK W : W = waivedAt(sorted, rule, n)
  OBVIOUS
<1>3. n \in Nat /\ areWaivers(sorted, W, live)
  BY <1>1, <1>2, LiveWaivers
<1>4. /\ \A k \in W : sorted[k] \in live
      /\ \A w \in live : \E k \in W : w = sorted[k]
      /\ i \in W /\ \A j \in W : j <= i
  BY <1>2, <1>3 DEF areWaivers, isLast
<1>5. \A j, k \in W : sorted[j].id \in Nat /\ (j < k => sorted[j].id < sorted[k].id)
  BY <1>3 DEF areWaivers
<1>6. W \subseteq 1 .. n
  BY <1>2 DEF waivedAt
<1>7. ASSUME NEW v \in live PROVE sorted[i].id >= v.id
  <2>1. PICK k \in W : v = sorted[k]
    BY <1>4
  <2>2. k <= i /\ k \in 1 .. n /\ i \in 1 .. n
    BY <1>4, <1>6, <2>1
  <2> QED
    BY <1>4, <1>5, <2>1, <2>2
<1>8. ASSUME NEW w \in live, \A v \in live : w.id >= v.id PROVE w = sorted[i]
  <2>1. PICK k \in W : w = sorted[k]
    BY <1>4
  <2>2. k <= i /\ k \in 1 .. n /\ i \in 1 .. n
    BY <1>4, <1>6, <2>1
  <2>3. sorted[k].id >= sorted[i].id
    BY <1>4, <1>8, <2>1
  <2>4. ~ (k < i)
    BY <1>4, <1>5, <2>1, <2>3
  <2> QED
    BY <2>1, <2>2, <2>4
<1>9. sorted[i] \in live
  BY <1>2, <1>4
<1>10. sorted[i] = CHOOSE w \in live : \A v \in live : w.id >= v.id
  BY <1>7, <1>8, <1>9
<1> QED
  BY <1>1, <1>9, <1>10 DEF lastOf, isLastOf

(* What the document of a valid context says of a rule: what the layers    *)
(* made of it, and the waivers of that.                                    *)
LEMMA EffectiveIsDerived ==
  ASSUME NullIsNoFunction, NEW context, isValidContext(context), NEW rule \in RuleId
  PROVE  \E w : /\ made(w, ordered(context.layers), rule, Len(context.layers))
                /\ waived(context.effective[rule], w, orderedWaivers(context.waivers), rule, Len(context.waivers))
<1>1. PICK layers : layers = context.layers
  OBVIOUS
<1>2. PICK waivers : waivers = context.waivers
  OBVIOUS
<1>3. isList(layers) /\ isList(waivers)
  BY <1>1, <1>2 DEF isValidContext, isContext
<1>4. PICK n \in Nat : n = Len(layers)
  BY <1>3 DEF isList
<1>5. PICK m \in Nat : m = Len(waivers)
  BY <1>3 DEF isList
<1>6. PICK f : f = afterLayers(layers, rule)
  OBVIOUS
<1>7. PICK g : g = afterWaivers(layers, waivers, rule)
  OBVIOUS
<1>8. PICK sorted : sorted = ordered(layers)
  OBVIOUS
<1>9. PICK sortedW : sortedW = orderedWaivers(waivers)
  OBVIOUS
<1>10. isSorted(sorted, n)
  BY <1>1, <1>4, <1>8, SortedLayers
<1>11. f[0] = Null /\ \A k \in 1 .. n : f[k] = layerStep(f[k - 1], sorted, rule, k)
  BY <1>3, <1>4, <1>6, <1>8, AfterLayers
<1>12. made(f[n], sorted, rule, n)
  <2>1. n \in 0 .. n
    OBVIOUS
  <2> QED
    BY <1>10, <1>11, <2>1, LayersDecide
<1>13. g[0] = f[n] /\ \A k \in 1 .. m : g[k] = waiverStep(g[k - 1], sortedW, rule, k)
  <2>1. PICK start : start = afterLayers(layers, rule)[Len(layers)]
    OBVIOUS
  <2>2. start = f[n]
    BY <1>4, <1>6, <2>1
  <2>3. g[0] = start /\ \A k \in 1 .. Len(waivers) : g[k] = waiverStep(g[k - 1], sortedW, rule, k)
    BY <1>3, <1>7, <1>9, <2>1, AfterWaivers
  <2> QED
    BY <1>5, <2>2, <2>3
<1>14. f[n] = Null \/ isWorking(f[n])
  BY <1>12 DEF made
<1>15. waived(g[m], f[n], sortedW, rule, m)
  <2>1. m \in 0 .. m
    OBVIOUS
  <2> QED
    BY <1>13, <1>14, <2>1, WaiversReplace
<1>16. context.effective[rule] = g[m]
  BY <1>1, <1>2, <1>5, <1>7 DEF isValidContext, deriveEffectiveRules
<1> QED
  BY <1>1, <1>2, <1>4, <1>5, <1>8, <1>9, <1>12, <1>15, <1>16

(* The rules a compilation went by are what their layers and waivers mean  *)
(* whatever the order they are listed in: a lock of lower precedence       *)
(* decides, else the layer of greatest precedence, and the last waiver     *)
(* replaces both, for any number of layers, rules and waivers              *)
(* (deriveEffectiveRules and the check of `effective`).                    *)
THEOREM RulesAreTheReference == Spec => [](NullIsNoFunction => EffectiveIsReference)
<1>1. CInv /\ NullIsNoFunction => EffectiveIsReference
  <2> SUFFICES ASSUME CInv, NullIsNoFunction, governed, NEW rule \in RuleId
               PROVE  LET working == input.context.effective[rule]
                      IN  IF definitions(layersOf, rule) = {} THEN working = Null
                          ELSE /\ working.value = inForce(layersOf, waiversOf(input.context.waivers, rule), rule)
                               /\ working.locked = decisive(layersOf, rule).rule.locked
    BY DEF EffectiveIsReference
  <2>1. PICK context : context = input.context
    OBVIOUS
  <2>2. isValidContext(context)
    BY <2>1, GovernedIsValid
  <2>3. PICK working : working = context.effective[rule]
    OBVIOUS
  <2>4. PICK layers : layers = context.layers
    OBVIOUS
  <2>5. PICK waivers : waivers = context.waivers
    OBVIOUS
  <2>6. PICK sorted : sorted = ordered(layers)
    OBVIOUS
  <2>7. PICK sortedW : sortedW = orderedWaivers(waivers)
    OBVIOUS
  <2>8. PICK n : n = Len(layers)
    OBVIOUS
  <2>9. PICK m : m = Len(waivers)
    OBVIOUS
  <2>10. PICK w : made(w, sorted, rule, n) /\ waived(working, w, sortedW, rule, m)
    BY <2>2, <2>3, <2>4, <2>5, <2>6, <2>7, <2>8, <2>9, EffectiveIsDerived
  <2>11. definitions(layers, rule) = {} <=> definedAt(sorted, rule, n) = {}
    <3>1. definitions(layers, rule) = definitionsAt(sorted, rule, n)
      BY <2>2, <2>4, <2>6, <2>8, DefinitionsAre
    <3> QED
      BY <3>1 DEF definitionsAt
  <2>12. CASE definitions(layers, rule) = {}
    BY <2>1, <2>3, <2>4, <2>10, <2>11, <2>12 DEF made, waived, layersOf
  <2>13. CASE definitions(layers, rule) # {}
    <3>1. isWorking(w) /\ w # Null
      BY <2>10, <2>11, <2>13, WorkingIsNotNull DEF made
    <3>2. PICK i : decidedBy(w, i, sorted, rule, n)
      BY <2>10, <2>11, <2>13 DEF made
    <3>3. decisive(layers, rule) = definitionAt(sorted, rule, i)
      <4>1. decides(i, sorted, rule, n)
        BY <3>2 DEF decidedBy
      <4>2. isDecisive(layers, sorted, rule, i)
        BY <2>2, <2>4, <2>6, <2>8, <4>1, DecisiveIs
      <4> QED
        BY <4>2 DEF isDecisive
    <3>4. decisive(layers, rule).rule.value = w.value /\ decisive(layers, rule).rule.locked = w.locked
      BY <3>2, <3>3 DEF definitionAt, decidedBy
    <3>5. working.locked = w.locked
      BY <2>10, <3>1 DEF waived
    <3>6. PICK live : live = waiversOf(waivers, rule)
      OBVIOUS
    <3>7. CASE waivedAt(sortedW, rule, m) = {}
      <4>1. live = {}
        <5>1. areWaivers(sortedW, waivedAt(sortedW, rule, m), live)
          BY <2>2, <2>5, <2>7, <2>9, <3>6, LiveWaivers
        <5> QED
          BY <3>7, <5>1 DEF areWaivers
      <4>2. working.value = w.value
        BY <2>10, <3>1, <3>7 DEF waived
      <4>3. inForce(layers, live, rule) = w.value
        BY <3>4, <4>1 DEF inForce
      <4> QED
        BY <2>1, <2>3, <2>4, <2>5, <2>13, <3>4, <3>5, <3>6, <4>2, <4>3 DEF layersOf
    <3>8. CASE waivedAt(sortedW, rule, m) # {}
      <4>1. PICK k : waivedBy(working, k, sortedW, rule, m)
        BY <2>10, <3>1, <3>8 DEF waived
      <4>2. live # {} /\ lastOf(live) = sortedW[k]
        <5>1. isLast(k, waivedAt(sortedW, rule, m))
          BY <4>1 DEF waivedBy
        <5>2. isLastOf(sortedW[k], live)
          BY <2>2, <2>5, <2>7, <2>9, <3>6, <5>1, LastWaiver
        <5> QED
          BY <5>2 DEF isLastOf
      <4>3. inForce(layers, live, rule) = sortedW[k].value
        BY <4>2 DEF inForce, lastOf
      <4>4. working.value = sortedW[k].value
        BY <4>1 DEF waivedBy
      <4> QED
        BY <2>1, <2>3, <2>4, <2>5, <2>13, <3>4, <3>5, <3>6, <4>3, <4>4 DEF layersOf
    <3> QED
      BY <3>7, <3>8
  <2> QED
    BY <2>12, <2>13, <2>4, <2>1 DEF layersOf
<1> QED
  BY <1>1, Compiled, PTL

(***************************************************************************)
(* The trace of a rule.                                                    *)
(***************************************************************************)

IN_FORCE == {"APPLIED", "WAIVED"}
isEntry(e) == e = traced(e.from, e.id, e.value, e.outcome) /\ (e.from = "LAYER" => e.outcome # "WAIVED")
about(e) == <<e.from, e.id>>

(* A trace has one entry about each of the layers and waivers P.           *)
hasOne(trace, p) == \E a \in DOMAIN trace : \A b \in DOMAIN trace : about(trace[b]) = p <=> b = a

lists(trace, P) ==
  /\ isList(trace)
  /\ \A a \in DOMAIN trace : isEntry(trace[a]) /\ about(trace[a]) \in P
  /\ \A p \in P : hasOne(trace, p)

(* Which entry is in force.                                                *)
onlyInForce(trace, a) == a \in DOMAIN trace /\ \A b \in DOMAIN trace : trace[b].outcome \in IN_FORCE <=> b = a
noneInForce(trace) == \A b \in DOMAIN trace : trace[b].outcome \notin IN_FORCE

isAppended(u, t, e) ==
  /\ isList(u) /\ Len(t) \in Nat /\ DOMAIN t = 1 .. Len(t)
  /\ Len(u) = Len(t) + 1 /\ DOMAIN u = DOMAIN t \union {Len(t) + 1}
  /\ u[Len(t) + 1] = e /\ \A a \in DOMAIN t : u[a] = t[a]

LEMMA AppendedIs ==
  ASSUME NEW t, isList(t), NEW e
  PROVE  isAppended(Append(t, e), t, e)
<1>1. PICK X : X = Range(t) \union {e}
  OBVIOUS
<1>2. Range(t) \subseteq X /\ e \in X
  BY <1>1
<1>3. PICK n \in Nat : Len(t) = n /\ DOMAIN t = 1 .. n /\ \A a \in 1 .. n : t[a] \in X
  BY <1>2 DEF isList
<1>4. t \in Seq(X)
  BY <1>2 DEF isList
<1>5. PICK u : u = Append(t, e)
  OBVIOUS
<1>6. u \in Seq(X) /\ Len(u) = n + 1 /\ u[n + 1] = e /\ \A a \in 1 .. n : u[a] = t[a]
  BY <1>2, <1>3, <1>4, <1>5
<1>7. DOMAIN u = 1 .. n + 1
  BY <1>6
<1>8. u \in [1 .. n + 1 -> Range(u)]
  BY <1>6, <1>7 DEF Range
<1>9. isList(u)
  BY <1>3, <1>8, IntervalIsList DEF isList
<1>10. DOMAIN u = 1 .. n \union {n + 1}
  BY <1>3, <1>7
<1> QED
  BY <1>3, <1>5, <1>6, <1>9, <1>10 DEF isAppended

LEMMA AppendLists ==
  ASSUME NEW t, NEW P, lists(t, P), NEW e, isEntry(e), about(e) \notin P, NEW u, isAppended(u, t, e)
  PROVE  lists(u, P \union {about(e)})
<1>1. PICK n \in Nat : n = Len(t) /\ DOMAIN t = 1 .. n
  BY DEF isAppended
<1>2. DOMAIN u = DOMAIN t \union {n + 1} /\ n + 1 \notin DOMAIN t
  BY <1>1 DEF isAppended
<1>3. u[n + 1] = e /\ \A a \in DOMAIN t : u[a] = t[a]
  BY <1>1 DEF isAppended
<1>4. ASSUME NEW a \in DOMAIN u PROVE isEntry(u[a]) /\ about(u[a]) \in P \union {about(e)}
  BY <1>2, <1>3 DEF lists
<1>5. ASSUME NEW p \in P PROVE hasOne(u, p)
  <2>1. PICK a \in DOMAIN t : \A b \in DOMAIN t : about(t[b]) = p <=> b = a
    BY DEF lists, hasOne
  <2>2. a \in DOMAIN u /\ a # n + 1
    BY <1>2
  <2>3. ASSUME NEW b \in DOMAIN u PROVE about(u[b]) = p <=> b = a
    BY <1>2, <1>3, <2>1, <2>2
  <2> QED
    BY <2>2, <2>3 DEF hasOne
<1>6. hasOne(u, about(e))
  <2>1. n + 1 \in DOMAIN u
    BY <1>2
  <2>2. ASSUME NEW b \in DOMAIN u PROVE about(u[b]) = about(e) <=> b = n + 1
    BY <1>2, <1>3 DEF lists
  <2> QED
    BY <2>1, <2>2 DEF hasOne
<1>7. isList(u)
  BY DEF isAppended
<1> QED
  BY <1>4, <1>5, <1>6, <1>7 DEF lists

LEMMA AppendInForce ==
  ASSUME NEW t, noneInForce(t), NEW e, e.outcome \in IN_FORCE, NEW u, isAppended(u, t, e)
  PROVE  onlyInForce(u, Len(u)) /\ u[Len(u)] = e
<1>1. PICK n \in Nat : n = Len(t) /\ DOMAIN t = 1 .. n
  BY DEF isAppended
<1>2. DOMAIN u = DOMAIN t \union {n + 1} /\ n + 1 \notin DOMAIN t /\ Len(u) = n + 1
  BY <1>1 DEF isAppended
<1>3. u[n + 1] = e /\ \A a \in DOMAIN t : u[a] = t[a]
  BY <1>1 DEF isAppended
<1> QED
  BY <1>2, <1>3 DEF onlyInForce, noneInForce

LEMMA AppendOther ==
  ASSUME NEW t, NEW a, onlyInForce(t, a), NEW e, e.outcome \notin IN_FORCE, NEW u, isAppended(u, t, e)
  PROVE  onlyInForce(u, a) /\ u[a] = t[a]
<1>1. PICK n \in Nat : n = Len(t) /\ DOMAIN t = 1 .. n
  BY DEF isAppended
<1>2. DOMAIN u = DOMAIN t \union {n + 1} /\ n + 1 \notin DOMAIN t
  BY <1>1 DEF isAppended
<1>3. u[n + 1] = e /\ \A b \in DOMAIN t : u[b] = t[b]
  BY <1>1 DEF isAppended
<1> QED
  BY <1>2, <1>3 DEF onlyInForce

LEMMA Demoted ==
  ASSUME NEW t, NEW P, lists(t, P), NEW a, onlyInForce(t, a), NEW outcomes \in SUBSET IN_FORCE,
         t[a].outcome \in outcomes, NEW u, u = demote(t, outcomes)
  PROVE  lists(u, P) /\ noneInForce(u) /\ Len(u) = Len(t)
<1>1. PICK n \in Nat : n = Len(t) /\ DOMAIN t = 1 .. n
  BY DEF lists, isList
<1>2. a \in 1 .. n /\ {i \in 1 .. n : t[i].outcome \in outcomes} = {a}
  BY <1>1 DEF onlyInForce
<1>3. PICK last : last = SelectLastInSeq(t, LAMBDA entry : entry.outcome \in outcomes)
  OBVIOUS
<1>4. last = a
  <2>1. last = Max({i \in 1 .. n : t[i].outcome \in outcomes})
    BY <1>1, <1>2, <1>3 DEF SelectLastInSeq
  <2>2. last = Max({a})
    BY <1>2, <2>1
  <2>3. Max({a}) \in {a}
    BY <1>1, <1>2, LastIsGreatest
  <2> QED
    BY <2>2, <2>3
<1>5. u = [t EXCEPT ![a].outcome = "OVERRIDDEN"]
  <2>1. u = IF last = 0 THEN t ELSE [t EXCEPT ![last].outcome = "OVERRIDDEN"]
    BY <1>3, Zenon DEF demote
  <2> QED
    BY <1>1, <1>2, <1>4, <2>1
<1>6. t = [b \in 1 .. n |-> t[b]]
  BY <1>1 DEF lists, isList
<1>7. DOMAIN u = 1 .. n /\ \A b \in 1 .. n : u[b] = IF b = a THEN [t[a] EXCEPT !.outcome = "OVERRIDDEN"] ELSE t[b]
  BY <1>1, <1>5, <1>6
<1>8. u \in [1 .. n -> Range(u)]
  <2>1. u = [b \in 1 .. n |-> u[b]]
    BY <1>1, <1>5, <1>6
  <2> QED
    BY <1>7, <2>1 DEF Range
<1>9. isList(u) /\ Len(u) = n
  BY <1>8, IntervalIsList DEF isList
<1>10. ASSUME NEW b \in 1 .. n
       PROVE  isEntry(u[b]) /\ about(u[b]) = about(t[b]) /\ u[b].outcome \notin IN_FORCE
  <2>1. isEntry(t[b])
    BY <1>1 DEF lists
  <2>2. CASE b = a
    <3>1. u[b] = [t[b] EXCEPT !.outcome = "OVERRIDDEN"]
      BY <1>7, <2>2
    <3>2. PICK e : e = t[b]
      OBVIOUS
    <3>3. e = [from |-> e.from, id |-> e.id, value |-> e.value, outcome |-> e.outcome]
      BY <2>1, <3>2 DEF isEntry, traced
    <3>4. u[b] = traced(e.from, e.id, e.value, "OVERRIDDEN")
      BY <3>1, <3>2, <3>3 DEF traced
    <3>5. u[b].from = e.from /\ u[b].id = e.id /\ u[b].value = e.value /\ u[b].outcome = "OVERRIDDEN"
      BY <3>4 DEF traced
    <3> QED
      BY <3>2, <3>4, <3>5 DEF isEntry, about, IN_FORCE
  <2>3. CASE b # a
    BY <1>1, <1>7, <2>1, <2>3 DEF onlyInForce
  <2> QED
    BY <2>2, <2>3
<1>11. ASSUME NEW p \in P PROVE hasOne(u, p)
  <2>1. PICK c \in DOMAIN t : \A b \in DOMAIN t : about(t[b]) = p <=> b = c
    BY DEF lists, hasOne
  <2> QED
    BY <1>1, <1>7, <1>10, <2>1 DEF hasOne
<1>12. \A b \in DOMAIN u : isEntry(u[b]) /\ about(u[b]) \in P
  BY <1>1, <1>7, <1>10 DEF lists
<1>13. noneInForce(u)
  BY <1>7, <1>10 DEF noneInForce
<1> QED
  BY <1>1, <1>9, <1>11, <1>12, <1>13 DEF lists

(* A rule in the making whose trace explains it.                           *)
inForceIs(w, a) ==
  /\ onlyInForce(w.trace, a)
  /\ w.trace[a].value = w.value
  /\ w.source = [type |-> w.trace[a].from, id |-> w.trace[a].id]

explained(w, P, size) ==
  /\ isWorking(w) /\ lists(w.trace, P) /\ Len(w.trace) = size
  /\ \E a \in DOMAIN w.trace : inForceIs(w, a)

(* A new entry that is in force.                                           *)
LEMMA EntersIntoForce ==
  ASSUME NEW t, NEW P, lists(t, P), noneInForce(t), NEW e, isEntry(e), e.outcome \in IN_FORCE, about(e) \notin P,
         NEW w, isWorking(w), w.trace = Append(t, e), w.value = e.value, w.source = [type |-> e.from, id |-> e.id]
  PROVE  explained(w, P \union {about(e)}, Len(t) + 1)
<1>1. PICK u : u = Append(t, e)
  OBVIOUS
<1>2. isAppended(u, t, e)
  BY <1>1, AppendedIs DEF lists
<1>3. lists(u, P \union {about(e)})
  BY <1>2, AppendLists
<1>4. onlyInForce(u, Len(u)) /\ u[Len(u)] = e
  BY <1>2, AppendInForce
<1>5. Len(u) = Len(t) + 1 /\ Len(u) \in DOMAIN u
  BY <1>2, <1>4 DEF isAppended, onlyInForce
<1>6. inForceIs(w, Len(u))
  BY <1>1, <1>4 DEF inForceIs
<1> QED
  BY <1>1, <1>3, <1>5, <1>6 DEF explained

(* The first definition of a rule.                                         *)
LEMMA FirstIsExplained ==
  ASSUME NEW at, NEW out, out = defined(Null, at)
  PROVE  explained(out, {<<"LAYER", at.layer>>}, 1)
<1>1. PICK t : t = <<>>
  OBVIOUS
<1>2. PICK P : P = {}
  OBVIOUS
<1>3. PICK e : e = traced("LAYER", at.layer, at.rule.value, "APPLIED")
  OBVIOUS
<1>4. isEntry(e) /\ about(e) = <<"LAYER", at.layer>> /\ e.outcome \in IN_FORCE /\ e.value = at.rule.value
      /\ e.from = "LAYER" /\ e.id = at.layer
  BY <1>3 DEF isEntry, about, traced, IN_FORCE
<1>5. lists(t, P) /\ noneInForce(t) /\ Len(t) = 0
  BY <1>1, <1>2 DEF lists, isList, noneInForce
<1>6. isDefined(out, Null, at)
  BY DefinedIs
<1>7. /\ isWorking(out) /\ out.value = e.value /\ out.trace = Append(t, e)
      /\ out.source = [type |-> e.from, id |-> e.id]
  BY <1>1, <1>3, <1>4, <1>6 DEF isDefined
<1>8. explained(out, P \union {about(e)}, Len(t) + 1)
  BY <1>2, <1>4, <1>5, <1>7, EntersIntoForce
<1> QED
  BY <1>2, <1>4, <1>5, <1>8

(* One that overrides what layers defined.                                 *)
LEMMA OverrideIsExplained ==
  ASSUME NEW w, w # Null, NEW P, NEW size, explained(w, P, size), \A p \in P : p[1] = "LAYER",
         NEW at, <<"LAYER", at.layer>> \notin P, NEW out, out = defined(w, at)
  PROVE  explained(out, P \union {<<"LAYER", at.layer>>}, size + 1)
<1>1. PICK a \in DOMAIN w.trace : inForceIs(w, a)
  BY DEF explained
<1>2. w.trace[a].outcome \in {"APPLIED"}
  <2>1. isEntry(w.trace[a]) /\ about(w.trace[a]) \in P
    BY <1>1 DEF explained, lists
  <2>2. w.trace[a].from = "LAYER"
    BY <2>1 DEF about
  <2>3. w.trace[a].outcome \in {"APPLIED", "WAIVED"}
    BY <1>1 DEF inForceIs, onlyInForce, IN_FORCE
  <2> QED
    BY <2>1, <2>2, <2>3 DEF isEntry
<1>3. PICK old : old = w.trace
  OBVIOUS
<1>4. PICK t : t = demote(old, {"APPLIED"})
  OBVIOUS
<1>5. lists(t, P) /\ noneInForce(t) /\ Len(t) = Len(old)
  <2>1. lists(old, P) /\ onlyInForce(old, a) /\ old[a].outcome \in {"APPLIED"}
    BY <1>1, <1>2, <1>3 DEF explained, inForceIs
  <2>2. {"APPLIED"} \in SUBSET IN_FORCE
    BY DEF IN_FORCE
  <2> QED
    BY <1>4, <2>1, <2>2, Demoted
<1>6. PICK e : e = traced("LAYER", at.layer, at.rule.value, "APPLIED")
  OBVIOUS
<1>7. isEntry(e) /\ about(e) = <<"LAYER", at.layer>> /\ e.outcome \in IN_FORCE /\ e.value = at.rule.value
      /\ e.from = "LAYER" /\ e.id = at.layer
  BY <1>6 DEF isEntry, about, traced, IN_FORCE
<1>8. isDefined(out, w, at)
  BY DefinedIs
<1>9. /\ isWorking(out) /\ out.value = e.value /\ out.trace = Append(t, e)
      /\ out.source = [type |-> e.from, id |-> e.id]
  BY <1>3, <1>4, <1>6, <1>7, <1>8 DEF isDefined
<1>10. explained(out, P \union {about(e)}, Len(t) + 1)
  BY <1>5, <1>7, <1>9, EntersIntoForce
<1>11. Len(t) = size
  BY <1>3, <1>5 DEF explained
<1> QED
  BY <1>7, <1>10, <1>11

(* One that a lock refuses.                                                *)
LEMMA RefusalIsExplained ==
  ASSUME NEW w, NEW P, NEW size, explained(w, P, size), NEW id, NEW value, <<"LAYER", id>> \notin P,
         NEW out, out = refused(w, traced("LAYER", id, value, "REFUSED_LOCKED"))
  PROVE  explained(out, P \union {<<"LAYER", id>>}, size + 1)
<1>1. PICK a \in DOMAIN w.trace : inForceIs(w, a)
  BY DEF explained
<1>2. PICK e : e = traced("LAYER", id, value, "REFUSED_LOCKED")
  OBVIOUS
<1>3. isEntry(e) /\ about(e) = <<"LAYER", id>> /\ e.outcome \notin IN_FORCE
  BY <1>2 DEF isEntry, about, traced, IN_FORCE
<1>4. PICK old : old = w.trace
  OBVIOUS
<1>5. isRefused(out, w, e)
  BY <1>2, RefusedIs DEF explained
<1>6. isAppended(out.trace, old, e)
  <2>1. out.trace = Append(old, e)
    BY <1>4, <1>5 DEF isRefused
  <2>2. isList(old)
    BY <1>4 DEF explained, lists
  <2> QED
    BY <2>1, <2>2, AppendedIs
<1>7. lists(out.trace, P \union {about(e)})
  BY <1>3, <1>4, <1>6, AppendLists DEF explained
<1>8. onlyInForce(out.trace, a) /\ out.trace[a] = old[a]
  BY <1>1, <1>3, <1>4, <1>6, AppendOther DEF inForceIs
<1>9. inForceIs(out, a) /\ a \in DOMAIN out.trace
  BY <1>1, <1>4, <1>5, <1>8 DEF inForceIs, isRefused, onlyInForce
<1>10. Len(out.trace) = size + 1 /\ isWorking(out)
  BY <1>4, <1>5, <1>6 DEF isAppended, isRefused, explained
<1> QED
  BY <1>3, <1>7, <1>9, <1>10 DEF explained

(* A waiver.                                                               *)
LEMMA WaiverIsExplained ==
  ASSUME NEW w, w # Null, NEW P, NEW size, explained(w, P, size), NEW waiver, <<"WAIVER", waiver.id>> \notin P,
         NEW out, out = applyWaiver(w, waiver)
  PROVE  explained(out, P \union {<<"WAIVER", waiver.id>>}, size + 1)
<1>1. PICK a \in DOMAIN w.trace : inForceIs(w, a)
  BY DEF explained
<1>2. PICK old : old = w.trace
  OBVIOUS
<1>3. PICK t : t = demote(old, {"APPLIED", "WAIVED"})
  OBVIOUS
<1>4. lists(t, P) /\ noneInForce(t) /\ Len(t) = Len(old)
  <2>1. lists(old, P) /\ onlyInForce(old, a)
    BY <1>1, <1>2 DEF explained, inForceIs
  <2>2. old[a].outcome \in IN_FORCE
    BY <2>1 DEF onlyInForce
  <2>3. IN_FORCE \in SUBSET IN_FORCE /\ t = demote(old, IN_FORCE)
    BY <1>3 DEF IN_FORCE
  <2> QED
    BY <2>1, <2>2, <2>3, Demoted
<1>5. PICK e : e = traced("WAIVER", waiver.id, waiver.value, "WAIVED")
  OBVIOUS
<1>6. isEntry(e) /\ about(e) = <<"WAIVER", waiver.id>> /\ e.outcome \in IN_FORCE /\ e.value = waiver.value
      /\ e.from = "WAIVER" /\ e.id = waiver.id
  BY <1>5 DEF isEntry, about, traced, IN_FORCE
<1>7. isWaived(out, w, waiver)
  BY WaivedIs DEF explained
<1>8. /\ isWorking(out) /\ out.value = e.value /\ out.trace = Append(t, e)
      /\ out.source = [type |-> e.from, id |-> e.id]
  BY <1>2, <1>3, <1>5, <1>6, <1>7 DEF isWaived
<1>9. explained(out, P \union {about(e)}, Len(t) + 1)
  BY <1>4, <1>6, <1>8, EntersIntoForce
<1>10. Len(t) = size
  BY <1>2, <1>4 DEF explained
<1> QED
  BY <1>6, <1>9, <1>10

(* What the trace of a rule is about after the first layers ...            *)
layersAbout(sorted, rule, k) == {<<"LAYER", sorted[i].id>> : i \in definedAt(sorted, rule, k)}

layersExplained(w, sorted, rule, k) ==
  IF definedAt(sorted, rule, k) = {} THEN w = Null
  ELSE explained(w, layersAbout(sorted, rule, k), Cardinality(definedAt(sorted, rule, k)))

LEMMA CountsOneMore ==
  ASSUME NEW k \in Nat, NEW D, D \subseteq 1 .. k
  PROVE  /\ Cardinality(D) \in Nat /\ IsFiniteSet(D)
         /\ Cardinality(D \union {k + 1}) = Cardinality(D) + 1
<1>1. IsFiniteSet(1 .. k)
  BY FS_Interval
<1>2. IsFiniteSet(D)
  BY <1>1, FS_Subset
<1>3. k + 1 \notin D
  OBVIOUS
<1> QED
  BY <1>2, <1>3, FS_AddElement, FS_CardinalityType

LEMMA LayerIsExplained ==
  ASSUME NullIsNoFunction, NEW n \in Nat, NEW sorted, isSorted(sorted, n), NEW rule, NEW k \in Nat, k + 1 \in 1 .. n,
         NEW w, layersExplained(w, sorted, rule, k), NEW out, out = layerStep(w, sorted, rule, k + 1)
  PROVE  layersExplained(out, sorted, rule, k + 1)
<1>1. PICK layer : layer = sorted[k + 1]
  OBVIOUS
<1>2. PICK at : at = [layer |-> layer.id, rule |-> definition(layer, rule)]
  OBVIOUS
<1>3. isList(layer.rules) /\ uniqueIds(layer.rules)
  BY <1>1 DEF isSorted
<1>4. out = IF defines(layer, rule) THEN applyRule(w, at) ELSE w
  <2>1. out = afterRules(w, layer, rule)[Len(layer.rules)]
    BY <1>1 DEF layerStep
  <2> QED
    BY <1>2, <1>3, <2>1, OneLayer
<1>5. PICK D : D = definedAt(sorted, rule, k)
  OBVIOUS
<1>6. D \subseteq 1 .. k
  BY <1>5 DEF definedAt
<1>7. PICK P : P = layersAbout(sorted, rule, k)
  OBVIOUS
<1>8. CASE ~ defines(layer, rule)
  <2>1. definedAt(sorted, rule, k + 1) = D
    BY <1>1, <1>5, <1>8 DEF definedAt
  <2>2. layersAbout(sorted, rule, k + 1) = P
    BY <1>5, <1>7, <2>1 DEF layersAbout
  <2> QED
    BY <1>4, <1>5, <1>7, <1>8, <2>1, <2>2 DEF layersExplained
<1>9. CASE defines(layer, rule)
  <2>1. definedAt(sorted, rule, k + 1) = D \union {k + 1}
    BY <1>1, <1>5, <1>9 DEF definedAt
  <2>2. Cardinality(D) \in Nat /\ Cardinality(D \union {k + 1}) = Cardinality(D) + 1
    BY <1>6, CountsOneMore
  <2>3. PICK p : p = <<"LAYER", at.layer>>
    OBVIOUS
  <2>4. p = <<"LAYER", sorted[k + 1].id>>
    BY <1>1, <1>2, <2>3
  <2>5. layersAbout(sorted, rule, k + 1) = P \union {p}
    BY <1>5, <1>7, <2>1, <2>4 DEF layersAbout
  <2>6. p \notin P
    <3> SUFFICES ASSUME NEW i \in D, <<"LAYER", sorted[i].id>> = p PROVE FALSE
      BY <1>5, <1>7 DEF layersAbout
    <3>1. sorted[i].id = sorted[k + 1].id /\ i \in 1 .. n /\ i # k + 1
      BY <1>6, <2>4
    <3> QED
      BY <3>1 DEF isSorted
  <2>7. \A q \in P : q[1] = "LAYER"
    BY <1>7 DEF layersAbout
  <2>8. CASE D = {}
    <3>1. w = Null
      BY <1>5, <2>8 DEF layersExplained
    <3>2. out = defined(Null, at)
      BY <1>4, <1>9, <3>1 DEF applyRule
    <3>3. explained(out, {p}, 1)
      BY <2>3, <3>2, FirstIsExplained
    <3>4. P = {} /\ Cardinality(D) = 0
      BY <1>5, <1>7, <2>8, FS_EmptySet DEF layersAbout
    <3>5. Cardinality(D \union {k + 1}) = 1 /\ P \union {p} = {p}
      BY <2>2, <3>4
    <3> QED
      BY <2>1, <2>5, <3>3, <3>5 DEF layersExplained
  <2>9. CASE D # {}
    <3>1. explained(w, P, Cardinality(D))
      BY <1>5, <1>7, <2>9 DEF layersExplained
    <3>2. w # Null
      BY <3>1, WorkingIsNotNull DEF explained
    <3>3. explained(out, P \union {p}, Cardinality(D) + 1)
      <4>1. CASE w.locked
        <5>1. out = refused(w, traced("LAYER", at.layer, at.rule.value, "REFUSED_LOCKED"))
          BY <1>4, <1>9, <3>2, <4>1 DEF applyRule, refused
        <5> QED
          BY <2>3, <2>6, <3>1, <5>1, RefusalIsExplained
      <4>2. CASE ~ w.locked
        <5>1. out = defined(w, at)
          BY <1>4, <1>9, <4>2 DEF applyRule
        <5> QED
          BY <2>3, <2>6, <2>7, <3>1, <3>2, <5>1, OverrideIsExplained
      <4> QED
        BY <4>1, <4>2
    <3> QED
      BY <2>1, <2>2, <2>5, <3>3 DEF layersExplained
  <2> QED
    BY <2>8, <2>9
<1> QED
  BY <1>8, <1>9

LEMMA LayersAreExplained ==
  ASSUME NullIsNoFunction, NEW n \in Nat, NEW sorted, isSorted(sorted, n), NEW rule, NEW f, f[0] = Null,
         \A k \in 1 .. n : f[k] = layerStep(f[k - 1], sorted, rule, k)
  PROVE  \A k \in 0 .. n : layersExplained(f[k], sorted, rule, k)
<1> DEFINE S == {k \in Nat : k <= n => layersExplained(f[k], sorted, rule, k)}
<1>1. 0 \in S
  <2>1. definedAt(sorted, rule, 0) = {}
    BY DEF definedAt
  <2> QED
    BY <2>1 DEF layersExplained
<1>2. ASSUME NEW k \in Nat, k \in S PROVE k + 1 \in S
  <2> SUFFICES ASSUME k + 1 <= n PROVE layersExplained(f[k + 1], sorted, rule, k + 1)
    OBVIOUS
  <2>1. k + 1 \in 1 .. n /\ (k + 1) - 1 = k /\ layersExplained(f[k], sorted, rule, k)
    BY <1>2
  <2>2. f[k + 1] = layerStep(f[k], sorted, rule, k + 1)
    BY <2>1
  <2> QED
    BY <2>1, <2>2, LayerIsExplained
<1>3. Nat \subseteq S
  <2> HIDE DEF S
  <2> QED
    BY <1>1, <1>2, SetInduction
<1> QED
  BY <1>3

(* ... and after the first waivers.                                        *)
waiversAbout(sorted, rule, k) == {<<"WAIVER", sorted[i].id>> : i \in waivedAt(sorted, rule, k)}

waiversExplained(v, w, P, size, sorted, rule, k) ==
  IF w = Null THEN v = Null
  ELSE explained(v, P \union waiversAbout(sorted, rule, k), size + Cardinality(waivedAt(sorted, rule, k)))

distinctIds(sorted, m) == \A i, j \in 1 .. m : sorted[i].id = sorted[j].id => i = j

LEMMA WaiverStepIsExplained ==
  ASSUME NullIsNoFunction, NEW m \in Nat, NEW sorted, distinctIds(sorted, m), NEW rule, NEW k \in Nat, k + 1 \in 1 .. m,
         NEW P, \A p \in P : p[1] = "LAYER", NEW size \in Nat,
         NEW v, NEW w, waiversExplained(v, w, P, size, sorted, rule, k), NEW out, out = waiverStep(v, sorted, rule, k + 1)
  PROVE  waiversExplained(out, w, P, size, sorted, rule, k + 1)
<1>1. PICK W : W = waivedAt(sorted, rule, k)
  OBVIOUS
<1>2. W \subseteq 1 .. k
  BY <1>1 DEF waivedAt
<1>3. PICK Q : Q = P \union waiversAbout(sorted, rule, k)
  OBVIOUS
<1>4. CASE sorted[k + 1].rule # rule
  <2>1. waivedAt(sorted, rule, k + 1) = W
    BY <1>1, <1>4 DEF waivedAt
  <2>2. waiversAbout(sorted, rule, k + 1) = waiversAbout(sorted, rule, k)
    BY <1>1, <2>1 DEF waiversAbout
  <2>3. out = v
    BY <1>4 DEF waiverStep
  <2> QED
    BY <1>1, <2>1, <2>2, <2>3 DEF waiversExplained
<1>5. CASE sorted[k + 1].rule = rule /\ w = Null
  BY <1>5 DEF waiversExplained, waiverStep, applyWaiver
<1>6. CASE sorted[k + 1].rule = rule /\ w # Null
  <2>1. waivedAt(sorted, rule, k + 1) = W \union {k + 1}
    BY <1>1, <1>6 DEF waivedAt
  <2>2. Cardinality(W) \in Nat /\ Cardinality(W \union {k + 1}) = Cardinality(W) + 1
    BY <1>2, CountsOneMore
  <2>3. PICK waiver : waiver = sorted[k + 1]
    OBVIOUS
  <2>4. PICK p : p = <<"WAIVER", waiver.id>>
    OBVIOUS
  <2>5. P \union waiversAbout(sorted, rule, k + 1) = Q \union {p}
    BY <1>1, <1>3, <2>1, <2>3, <2>4 DEF waiversAbout
  <2>6. p \notin Q
    <3>1. p \notin P
      <4>1. p[1] = "WAIVER"
        BY <2>4
      <4> QED
        BY <4>1
    <3>2. ASSUME NEW i \in W, <<"WAIVER", sorted[i].id>> = p PROVE FALSE
      <4>1. sorted[i].id = sorted[k + 1].id /\ i \in 1 .. m /\ i # k + 1
        BY <1>2, <2>3, <2>4, <3>2
      <4> QED
        BY <4>1 DEF distinctIds
    <3> QED
      BY <1>1, <1>3, <3>1, <3>2 DEF waiversAbout
  <2>7. explained(v, Q, size + Cardinality(W))
    BY <1>1, <1>3, <1>6 DEF waiversExplained
  <2>8. v # Null
    BY <2>7, WorkingIsNotNull DEF explained
  <2>9. out = applyWaiver(v, waiver)
    BY <1>6, <2>3 DEF waiverStep
  <2>10. explained(out, Q \union {p}, (size + Cardinality(W)) + 1)
    BY <2>4, <2>6, <2>7, <2>8, <2>9, WaiverIsExplained
  <2>11. (size + Cardinality(W)) + 1 = size + Cardinality(W \union {k + 1})
    BY <2>2
  <2> QED
    BY <1>6, <2>1, <2>5, <2>10, <2>11 DEF waiversExplained
<1> QED
  BY <1>4, <1>5, <1>6

LEMMA WaiversAreExplained ==
  ASSUME NullIsNoFunction, NEW m \in Nat, NEW sorted, distinctIds(sorted, m), NEW rule,
         NEW P, \A p \in P : p[1] = "LAYER", NEW size \in Nat,
         NEW w, w = Null \/ explained(w, P, size), NEW f, f[0] = w,
         \A k \in 1 .. m : f[k] = waiverStep(f[k - 1], sorted, rule, k)
  PROVE  \A k \in 0 .. m : waiversExplained(f[k], w, P, size, sorted, rule, k)
<1> DEFINE S == {k \in Nat : k <= m => waiversExplained(f[k], w, P, size, sorted, rule, k)}
<1>1. 0 \in S
  <2>1. waivedAt(sorted, rule, 0) = {} /\ Cardinality({}) = 0
    BY FS_EmptySet DEF waivedAt
  <2>2. P \union waiversAbout(sorted, rule, 0) = P /\ size + Cardinality(waivedAt(sorted, rule, 0)) = size
    BY <2>1 DEF waiversAbout
  <2> QED
    BY <2>2 DEF waiversExplained
<1>2. ASSUME NEW k \in Nat, k \in S PROVE k + 1 \in S
  <2> SUFFICES ASSUME k + 1 <= m PROVE waiversExplained(f[k + 1], w, P, size, sorted, rule, k + 1)
    OBVIOUS
  <2>1. k + 1 \in 1 .. m /\ (k + 1) - 1 = k /\ waiversExplained(f[k], w, P, size, sorted, rule, k)
    BY <1>2
  <2>2. f[k + 1] = waiverStep(f[k], sorted, rule, k + 1)
    BY <2>1
  <2> QED
    BY <2>1, <2>2, WaiverStepIsExplained
<1>3. Nat \subseteq S
  <2> HIDE DEF S
  <2> QED
    BY <1>1, <1>2, SetInduction
<1> QED
  BY <1>3

(* Positions that name every member of a set once are as many as it has.   *)
names(f, D, T) ==
  /\ f \in [D -> T]
  /\ \A i, j \in D : f[i] = f[j] => i = j
  /\ \A x \in T : \E i \in D : f[i] = x

LEMMA AsManyAs ==
  ASSUME NEW n \in Nat, NEW D, D \subseteq 1 .. n, NEW T, NEW f, names(f, D, T)
  PROVE  Cardinality(T) = Cardinality(D)
<1>1. IsFiniteSet(D)
  <2>1. IsFiniteSet(1 .. n)
    BY FS_Interval
  <2> QED
    BY <2>1, FS_Subset
<1>2. f \in Injection(D, T) /\ f \in Surjection(D, T)
  BY DEF names, Injection, Surjection, IsInjective
<1>3. ExistsBijection(D, T)
  BY <1>2 DEF Bijection, ExistsBijection
<1> QED
  BY <1>1, <1>3, FS_Bijection

LEMMA CountsDefinitions ==
  ASSUME NEW context, isValidContext(context), NEW layers, layers = context.layers,
         NEW sorted, sorted = ordered(layers), NEW rule, NEW n, n = Len(layers)
  PROVE  Cardinality(definitions(layers, rule)) = Cardinality(definedAt(sorted, rule, n))
<1>1. n \in Nat /\ isSorted(sorted, n)
  BY SortedLayers
<1>2. PICK D : D = definedAt(sorted, rule, n)
  OBVIOUS
<1>3. D \subseteq 1 .. n
  BY <1>2 DEF definedAt
<1>4. PICK T : T = definitions(layers, rule)
  OBVIOUS
<1>5. T = definitionsAt(sorted, rule, n)
  BY <1>4, DefinitionsAre
<1>6. PICK f : f = [i \in D |-> definitionAt(sorted, rule, i)]
  OBVIOUS
<1>7. f \in [D -> T]
  BY <1>2, <1>5, <1>6 DEF definitionsAt
<1>8. ASSUME NEW i \in D, NEW j \in D, f[i] = f[j] PROVE i = j
  <2>1. sorted[i] = sorted[j]
    BY <1>6, <1>8 DEF definitionAt
  <2>2. i \in 1 .. n /\ j \in 1 .. n /\ sorted[i].id = sorted[j].id
    BY <1>3, <2>1
  <2> QED
    BY <1>1, <2>2 DEF isSorted
<1>9. ASSUME NEW x \in T PROVE \E i \in D : f[i] = x
  BY <1>2, <1>5, <1>6 DEF definitionsAt
<1>10. names(f, D, T)
  BY <1>7, <1>8, <1>9 DEF names
<1> QED
  BY <1>1, <1>2, <1>3, <1>4, <1>10, AsManyAs

LEMMA DistinctWaivers ==
  ASSUME NEW context, isValidContext(context), NEW waivers, waivers = context.waivers,
         NEW sorted, sorted = orderedWaivers(waivers)
  PROVE  distinctIds(sorted, Len(waivers))
<1>1. PICK m \in Nat : DOMAIN waivers = 1 .. m /\ Len(waivers) = m
  BY DEF isValidContext, isContext, isList
<1>2. byId(sorted, waivers)
  BY WaiversAreOrdered DEF isValidContext
<1>3. ASSUME NEW i \in 1 .. m PROVE sorted[i].id \in Nat
  <2>1. PICK k \in DOMAIN waivers : sorted[i] = waivers[k]
    BY <1>1, <1>2 DEF byId
  <2> QED
    BY <2>1 DEF isValidContext, isContext
<1>4. ASSUME NEW i \in 1 .. m, NEW j \in 1 .. m, i < j PROVE sorted[i].id < sorted[j].id
  BY <1>1, <1>2, <1>4 DEF byId
<1>5. ASSUME NEW i \in 1 .. m, NEW j \in 1 .. m, sorted[i].id = sorted[j].id PROVE i = j
  <2>1. ~ (i < j) /\ ~ (j < i)
    BY <1>3, <1>4, <1>5
  <2> QED
    BY <2>1
<1> QED
  BY <1>1, <1>5 DEF distinctIds

LEMMA CountsWaivers ==
  ASSUME NEW context, isValidContext(context), NEW waivers, waivers = context.waivers,
         NEW sorted, sorted = orderedWaivers(waivers), NEW rule, NEW m, m = Len(waivers)
  PROVE  Cardinality(waiversOf(waivers, rule)) = Cardinality(waivedAt(sorted, rule, m))
<1>1. PICK W : W = waivedAt(sorted, rule, m)
  OBVIOUS
<1>2. PICK live : live = waiversOf(waivers, rule)
  OBVIOUS
<1>3. m \in Nat /\ areWaivers(sorted, W, live)
  BY <1>1, <1>2, LiveWaivers
<1>4. W \subseteq 1 .. m
  BY <1>1 DEF waivedAt
<1>5. distinctIds(sorted, m)
  BY DistinctWaivers
<1>6. PICK f : f = [i \in W |-> sorted[i]]
  OBVIOUS
<1>7. f \in [W -> live]
  BY <1>3, <1>6 DEF areWaivers
<1>8. ASSUME NEW i \in W, NEW j \in W, f[i] = f[j] PROVE i = j
  <2>1. i \in 1 .. m /\ j \in 1 .. m /\ sorted[i].id = sorted[j].id
    BY <1>4, <1>6, <1>8
  <2> QED
    BY <1>5, <2>1 DEF distinctIds
<1>9. ASSUME NEW x \in live PROVE \E i \in W : f[i] = x
  BY <1>3, <1>6 DEF areWaivers
<1>10. names(f, W, live)
  BY <1>7, <1>8, <1>9 DEF names
<1> QED
  BY <1>1, <1>2, <1>3, <1>4, <1>10, AsManyAs

(* The trace of a rule of a valid context.                                 *)
LEMMA TraceIsDerived ==
  ASSUME NullIsNoFunction, NEW context, isValidContext(context), NEW rule \in RuleId,
         NEW D, D = definedAt(ordered(context.layers), rule, Len(context.layers)),
         NEW P, P = layersAbout(ordered(context.layers), rule, Len(context.layers)),
         NEW working, working = context.effective[rule], working # Null
  PROVE  LET sorted == orderedWaivers(context.waivers)
             m == Len(context.waivers)
         IN  explained(working, P \union waiversAbout(sorted, rule, m), Cardinality(D) + Cardinality(waivedAt(sorted, rule, m)))
<1>1. PICK layers : layers = context.layers
  OBVIOUS
<1>2. PICK waivers : waivers = context.waivers
  OBVIOUS
<1>3. isList(layers) /\ isList(waivers)
  BY <1>1, <1>2 DEF isValidContext, isContext
<1>4. PICK n \in Nat : n = Len(layers)
  BY <1>3 DEF isList
<1>5. PICK m \in Nat : m = Len(waivers)
  BY <1>3 DEF isList
<1>6. PICK f : f = afterLayers(layers, rule)
  OBVIOUS
<1>7. PICK g : g = afterWaivers(layers, waivers, rule)
  OBVIOUS
<1>8. PICK sorted : sorted = ordered(layers)
  OBVIOUS
<1>9. PICK sortedW : sortedW = orderedWaivers(waivers)
  OBVIOUS
<1>10. isSorted(sorted, n)
  BY <1>1, <1>4, <1>8, SortedLayers
<1>11. f[0] = Null /\ \A k \in 1 .. n : f[k] = layerStep(f[k - 1], sorted, rule, k)
  BY <1>3, <1>4, <1>6, <1>8, AfterLayers
<1>12. layersExplained(f[n], sorted, rule, n)
  <2>1. n \in 0 .. n
    OBVIOUS
  <2> QED
    BY <1>10, <1>11, <2>1, LayersAreExplained
<1>13. g[0] = f[n] /\ \A k \in 1 .. m : g[k] = waiverStep(g[k - 1], sortedW, rule, k)
  <2>1. PICK start : start = afterLayers(layers, rule)[Len(layers)]
    OBVIOUS
  <2>2. start = f[n]
    BY <1>4, <1>6, <2>1
  <2>3. g[0] = start /\ \A k \in 1 .. Len(waivers) : g[k] = waiverStep(g[k - 1], sortedW, rule, k)
    BY <1>3, <1>7, <1>9, <2>1, AfterWaivers
  <2> QED
    BY <1>5, <2>2, <2>3
<1>14. D = definedAt(sorted, rule, n) /\ P = layersAbout(sorted, rule, n)
  BY <1>1, <1>4, <1>8
<1>15. f[n] = Null \/ explained(f[n], P, Cardinality(D))
  BY <1>12, <1>14 DEF layersExplained
<1>16. Cardinality(D) \in Nat
  <2>1. D \subseteq 1 .. n
    BY <1>14 DEF definedAt
  <2> QED
    BY <2>1, CountsOneMore
<1>17. \A p \in P : p[1] = "LAYER"
  BY <1>14 DEF layersAbout
<1>18. distinctIds(sortedW, m)
  BY <1>2, <1>5, <1>9, DistinctWaivers
<1>19. waiversExplained(g[m], f[n], P, Cardinality(D), sortedW, rule, m)
  <2>1. m \in 0 .. m
    OBVIOUS
  <2>2. PICK size \in Nat : size = Cardinality(D)
    BY <1>16
  <2>3. f[n] = Null \/ explained(f[n], P, size)
    BY <1>15, <2>2
  <2>4. \A k \in 0 .. m : waiversExplained(g[k], f[n], P, size, sortedW, rule, k)
    BY <1>13, <1>17, <1>18, <2>3, WaiversAreExplained
  <2> QED
    BY <2>1, <2>2, <2>4
<1>20. working = g[m]
  BY <1>1, <1>2, <1>5, <1>7 DEF isValidContext, deriveEffectiveRules
<1>21. explained(working, P \union waiversAbout(sortedW, rule, m), Cardinality(D) + Cardinality(waivedAt(sortedW, rule, m)))
  BY <1>19, <1>20 DEF waiversExplained
<1> QED
  BY <1>2, <1>5, <1>9, <1>21

(* Exactly one entry of a trace is about a layer or a waiver of it.        *)
LEMMA OneEntry ==
  ASSUME NEW trace, NEW P, lists(trace, P), NEW from, NEW id, <<from, id>> \in P
  PROVE  Cardinality({k \in DOMAIN trace : trace[k].from = from /\ trace[k].id = id}) = 1
<1>1. PICK p : p = <<from, id>>
  OBVIOUS
<1>2. PICK a \in DOMAIN trace : \A b \in DOMAIN trace : about(trace[b]) = p <=> b = a
  BY <1>1 DEF lists, hasOne
<1>3. {k \in DOMAIN trace : trace[k].from = from /\ trace[k].id = id} = {a}
  BY <1>1, <1>2 DEF about
<1> QED
  BY <1>3, FS_Singleton

(* What TraceExplains says of one rule.                                    *)
explains(working, layers, waivers, rule) ==
  LET trace == working.trace
      current == {k \in DOMAIN trace : trace[k].outcome \in {"APPLIED", "WAIVED"}}
  IN  /\ \E k \in current : /\ current = {k}
                            /\ trace[k].value = working.value
                            /\ working.source = [type |-> trace[k].from, id |-> trace[k].id]
      /\ \A d \in definitions(layers, rule) :
           Cardinality({k \in DOMAIN trace : trace[k].from = "LAYER" /\ trace[k].id = d.layer.id}) = 1
      /\ \A w \in waiversOf(waivers, rule) :
           Cardinality({k \in DOMAIN trace : trace[k].from = "WAIVER" /\ trace[k].id = w.id}) = 1
      /\ Len(trace) = Cardinality(definitions(layers, rule)) + Cardinality(waiversOf(waivers, rule))

(* The trace of an effective rule explains it: one entry is in force, it   *)
(* names the source and the value, every layer that defines the rule and   *)
(* every waiver of it has exactly one entry (the trace of applyRule and    *)
(* applyWaiver), for any number of layers and waivers.                     *)
THEOREM TracesExplain == Spec => [](NullIsNoFunction => TraceExplains)
<1>1. CInv /\ NullIsNoFunction => TraceExplains
  <2> SUFFICES ASSUME CInv, NullIsNoFunction, governed, NEW rule \in RuleId, input.context.effective[rule] # Null
               PROVE  explains(input.context.effective[rule], layersOf, input.context.waivers, rule)
    BY DEF TraceExplains, explains
  <2>1. PICK context : context = input.context
    OBVIOUS
  <2>2. isValidContext(context)
    BY <2>1, GovernedIsValid
  <2>3. PICK working : working = context.effective[rule] /\ working # Null
    BY <2>1
  <2>4. PICK layers : layers = context.layers
    OBVIOUS
  <2>5. PICK waivers : waivers = context.waivers
    OBVIOUS
  <2>6. PICK sorted : sorted = ordered(layers)
    OBVIOUS
  <2>7. PICK sortedW : sortedW = orderedWaivers(waivers)
    OBVIOUS
  <2>8. PICK n : n = Len(layers)
    OBVIOUS
  <2>9. definitions(layers, rule) = definitionsAt(sorted, rule, n)
    BY <2>2, <2>4, <2>6, <2>8, DefinitionsAre
  <2>10. PICK m : m = Len(waivers)
    OBVIOUS
  <2>11. PICK P : P = layersAbout(sorted, rule, n)
    OBVIOUS
  <2>12. PICK Q : Q = waiversAbout(sortedW, rule, m)
    OBVIOUS
  <2>13. explained(working, P \union Q, Cardinality(definedAt(sorted, rule, n)) + Cardinality(waivedAt(sortedW, rule, m)))
    <3>1. PICK D : D = definedAt(sorted, rule, n)
      OBVIOUS
    <3>2. explained(working, P \union waiversAbout(orderedWaivers(context.waivers), rule, Len(context.waivers)),
                    Cardinality(D) + Cardinality(waivedAt(orderedWaivers(context.waivers), rule, Len(context.waivers))))
      BY <2>2, <2>3, <2>4, <2>6, <2>8, <2>11, <3>1, TraceIsDerived
    <3> QED
      BY <2>5, <2>7, <2>10, <2>12, <3>1, <3>2
  <2>14. PICK trace : trace = working.trace
    OBVIOUS
  <2>15. lists(trace, P \union Q)
    BY <2>13, <2>14 DEF explained
  <2>16. PICK a \in DOMAIN trace : inForceIs(working, a)
    BY <2>13, <2>14 DEF explained
  <2>17. {k \in DOMAIN trace : trace[k].outcome \in {"APPLIED", "WAIVED"}} = {a}
    BY <2>14, <2>16 DEF inForceIs, onlyInForce, IN_FORCE
  <2>18. trace[a].value = working.value /\ working.source = [type |-> trace[a].from, id |-> trace[a].id]
    BY <2>14, <2>16 DEF inForceIs
  <2>19. ASSUME NEW d \in definitions(layers, rule)
         PROVE  Cardinality({k \in DOMAIN trace : trace[k].from = "LAYER" /\ trace[k].id = d.layer.id}) = 1
    <3>2. PICK i \in definedAt(sorted, rule, n) : d = definitionAt(sorted, rule, i)
      BY <2>9 DEF definitionsAt
    <3>3. d.layer.id = sorted[i].id
      BY <3>2 DEF definitionAt
    <3>4. <<"LAYER", d.layer.id>> \in P \union Q
      BY <2>11, <3>3 DEF layersAbout
    <3>5. PICK id : id = d.layer.id
      OBVIOUS
    <3>6. Cardinality({k \in DOMAIN trace : trace[k].from = "LAYER" /\ trace[k].id = id}) = 1
      BY <2>15, <3>4, <3>5, OneEntry
    <3> QED
      BY <3>5, <3>6
  <2>20. ASSUME NEW w \in waiversOf(waivers, rule)
         PROVE  Cardinality({k \in DOMAIN trace : trace[k].from = "WAIVER" /\ trace[k].id = w.id}) = 1
    <3>1. areWaivers(sortedW, waivedAt(sortedW, rule, m), waiversOf(waivers, rule))
      BY <2>2, <2>5, <2>7, <2>10, LiveWaivers
    <3>2. PICK i \in waivedAt(sortedW, rule, m) : w = sortedW[i]
      BY <3>1 DEF areWaivers
    <3>3. <<"WAIVER", w.id>> \in P \union Q
      BY <2>12, <3>2 DEF waiversAbout
    <3>4. PICK id : id = w.id
      OBVIOUS
    <3>5. Cardinality({k \in DOMAIN trace : trace[k].from = "WAIVER" /\ trace[k].id = id}) = 1
      BY <2>15, <3>3, <3>4, OneEntry
    <3> QED
      BY <3>4, <3>5
  <2>21. Len(trace) = Cardinality(definitions(layers, rule)) + Cardinality(waiversOf(waivers, rule))
    <3>1. Cardinality(definitions(layers, rule)) = Cardinality(definedAt(sorted, rule, n))
      BY <2>2, <2>4, <2>6, <2>8, CountsDefinitions
    <3>2. Cardinality(waiversOf(waivers, rule)) = Cardinality(waivedAt(sortedW, rule, m))
      BY <2>2, <2>5, <2>7, <2>10, CountsWaivers
    <3>3. Len(trace) = Cardinality(definedAt(sorted, rule, n)) + Cardinality(waivedAt(sortedW, rule, m))
      BY <2>13, <2>14 DEF explained
    <3> QED
      BY <3>1, <3>2, <3>3
  <2>22. explains(working, layers, waivers, rule)
    BY <2>14, <2>17, <2>18, <2>19, <2>20, <2>21 DEF explains
  <2> QED
    BY <2>1, <2>3, <2>4, <2>5, <2>22 DEF layersOf
<1> QED
  BY <1>1, Compiled, PTL

(***************************************************************************)
(* What is applied.                                                        *)
(***************************************************************************)

(* The last definition of a layer that a trace has not as refused.         *)
isTrace(t) == isList(t) /\ \A a \in DOMAIN t : isEntry(t[a])
speaks(e) == e.from = "LAYER" /\ e.outcome # "REFUSED_LOCKED"
lastSays(t, value) ==
  \E a \in DOMAIN t : speaks(t[a]) /\ t[a].value = value /\ \A b \in DOMAIN t : speaks(t[b]) => b <= a

sameEntries(u, t) ==
  /\ DOMAIN u = DOMAIN t
  /\ \A b \in DOMAIN t : u[b].value = t[b].value /\ (speaks(u[b]) <=> speaks(t[b]))

(* Demoting an entry leaves it what it says.                               *)
LEMMA DemotedSays ==
  ASSUME NEW t, isTrace(t), NEW outcomes \in SUBSET IN_FORCE, NEW u, u = demote(t, outcomes)
  PROVE  isTrace(u) /\ sameEntries(u, t)
<1>1. PICK n \in Nat : n = Len(t) /\ DOMAIN t = 1 .. n
  BY DEF isTrace, isList
<1>2. PICK I : I = {i \in 1 .. n : t[i].outcome \in outcomes}
  OBVIOUS
<1>3. PICK last : last = SelectLastInSeq(t, LAMBDA entry : entry.outcome \in outcomes)
  OBVIOUS
<1>4. u = IF last = 0 THEN t ELSE [t EXCEPT ![last].outcome = "OVERRIDDEN"]
  BY <1>3, Zenon DEF demote
<1>5. last = IF I = {} THEN 0 ELSE Max(I)
  BY <1>1, <1>2, <1>3 DEF SelectLastInSeq
<1>6. CASE I = {}
  BY <1>4, <1>5, <1>6 DEF sameEntries
<1>7. CASE I # {}
  <2>1. last \in I
    <3>1. I \in SUBSET (1 .. n)
      BY <1>2
    <3>2. Max(I) \in I
      BY <1>7, <3>1, LastIsGreatest
    <3> QED
      BY <1>5, <1>7, <3>2
  <2>2. last \in 1 .. n /\ t[last].outcome \in outcomes /\ last # 0
    BY <1>2, <2>1
  <2>3. u = [t EXCEPT ![last].outcome = "OVERRIDDEN"]
    BY <1>4, <2>2
  <2>4. t = [b \in 1 .. n |-> t[b]]
    BY <1>1 DEF isTrace, isList
  <2>5. DOMAIN u = 1 .. n
        /\ \A b \in 1 .. n : u[b] = IF b = last THEN [t[last] EXCEPT !.outcome = "OVERRIDDEN"] ELSE t[b]
    BY <1>1, <2>2, <2>3, <2>4
  <2>6. u \in [1 .. n -> Range(u)]
    <3>1. u = [b \in 1 .. n |-> u[b]]
      BY <1>1, <2>3, <2>4
    <3> QED
      BY <2>5, <3>1 DEF Range
  <2>7. isList(u)
    BY <2>6, IntervalIsList DEF isList
  <2>8. ASSUME NEW b \in 1 .. n
        PROVE  isEntry(u[b]) /\ u[b].value = t[b].value /\ (speaks(u[b]) <=> speaks(t[b]))
    <3>1. CASE b = last
      <4>1. PICK e : e = t[last]
        OBVIOUS
      <4>2. isEntry(e)
        BY <1>1, <2>2, <4>1 DEF isTrace
      <4>3. e = [from |-> e.from, id |-> e.id, value |-> e.value, outcome |-> e.outcome]
        BY <4>2 DEF isEntry, traced
      <4>4. u[b] = [e EXCEPT !.outcome = "OVERRIDDEN"]
        BY <2>5, <3>1, <4>1
      <4>5. u[b] = traced(e.from, e.id, e.value, "OVERRIDDEN")
        BY <4>3, <4>4 DEF traced
      <4>6. u[b].from = e.from /\ u[b].id = e.id /\ u[b].value = e.value /\ u[b].outcome = "OVERRIDDEN"
        BY <4>5 DEF traced
      <4>7. isEntry(u[b])
        BY <4>5, <4>6 DEF isEntry
      <4>8. e.outcome \in IN_FORCE
        BY <2>2, <4>1
      <4>9. speaks(u[b]) <=> speaks(e)
        BY <4>6, <4>8 DEF speaks, IN_FORCE
      <4> QED
        BY <3>1, <4>1, <4>6, <4>7, <4>9
    <3>2. CASE b # last
      BY <1>1, <2>5, <3>2 DEF isTrace
    <3> QED
      BY <3>1, <3>2
  <2> QED
    BY <1>1, <2>5, <2>7, <2>8 DEF isTrace, sameEntries
<1> QED
  BY <1>6, <1>7

LEMMA AppendedSays ==
  ASSUME NEW t, isTrace(t), NEW e, isEntry(e), NEW u, u = Append(t, e)
  PROVE  /\ isTrace(u)
         /\ speaks(e) => lastSays(u, e.value)
         /\ \A value : ~ speaks(e) /\ lastSays(t, value) => lastSays(u, value)
<1>1. isAppended(u, t, e)
  BY AppendedIs DEF isTrace
<1>2. PICK n \in Nat : n = Len(t) /\ DOMAIN t = 1 .. n
  BY <1>1 DEF isAppended
<1>3. DOMAIN u = DOMAIN t \union {n + 1} /\ u[n + 1] = e /\ \A a \in DOMAIN t : u[a] = t[a]
  BY <1>1, <1>2 DEF isAppended
<1>4. isTrace(u)
  BY <1>1, <1>3 DEF isTrace, isAppended
<1>5. ASSUME speaks(e) PROVE lastSays(u, e.value)
  <2>1. \A b \in DOMAIN u : b <= n + 1
    BY <1>2, <1>3
  <2> QED
    BY <1>3, <1>5, <2>1 DEF lastSays
<1>6. ASSUME NEW value, ~ speaks(e), lastSays(t, value) PROVE lastSays(u, value)
  <2>1. PICK a \in DOMAIN t : speaks(t[a]) /\ t[a].value = value /\ \A b \in DOMAIN t : speaks(t[b]) => b <= a
    BY <1>6 DEF lastSays
  <2>2. a \in DOMAIN u /\ u[a] = t[a]
    BY <1>3, <2>1
  <2>3. ASSUME NEW b \in DOMAIN u, speaks(u[b]) PROVE b <= a
    BY <1>3, <1>6, <2>1, <2>3
  <2> QED
    BY <2>1, <2>2, <2>3 DEF lastSays
<1> QED
  BY <1>4, <1>5, <1>6

LEMMA SameSays ==
  ASSUME NEW t, NEW u, sameEntries(u, t), NEW value, lastSays(t, value)
  PROVE  lastSays(u, value)
<1>1. PICK a \in DOMAIN t : speaks(t[a]) /\ t[a].value = value /\ \A b \in DOMAIN t : speaks(t[b]) => b <= a
  BY DEF lastSays
<1>2. a \in DOMAIN u /\ speaks(u[a]) /\ u[a].value = value
  BY <1>1 DEF sameEntries
<1>3. ASSUME NEW b \in DOMAIN u, speaks(u[b]) PROVE b <= a
  BY <1>1, <1>3 DEF sameEntries
<1> QED
  BY <1>2, <1>3 DEF lastSays

(* It is the value of the rule as long as no waiver has replaced that.     *)
spoken(w) == isWorking(w) /\ isTrace(w.trace) /\ lastSays(w.trace, w.value)

LEMMA RuleSpeaks ==
  ASSUME NullIsNoFunction, NEW w, w = Null \/ spoken(w), NEW at, NEW out, out = applyRule(w, at)
  PROVE  spoken(out)
<1>1. CASE w # Null /\ w.locked
  <2>1. PICK e : e = traced("LAYER", at.layer, at.rule.value, "REFUSED_LOCKED")
    OBVIOUS
  <2>2. isEntry(e) /\ ~ speaks(e)
    BY <2>1 DEF isEntry, traced, speaks
  <2>3. out = refused(w, e)
    BY <1>1, <2>1 DEF applyRule, refused
  <2>4. isRefused(out, w, e)
    BY <1>1, <2>3, RefusedIs DEF spoken
  <2>5. isTrace(out.trace) /\ lastSays(out.trace, w.value)
    <3>1. isTrace(w.trace) /\ lastSays(w.trace, w.value)
      BY <1>1 DEF spoken
    <3>2. out.trace = Append(w.trace, e)
      BY <2>4 DEF isRefused
    <3> QED
      BY <2>2, <3>1, <3>2, AppendedSays
  <2> QED
    BY <2>4, <2>5 DEF isRefused, spoken
<1>2. CASE ~ (w # Null /\ w.locked)
  <2>1. PICK e : e = traced("LAYER", at.layer, at.rule.value, "APPLIED")
    OBVIOUS
  <2>2. isEntry(e) /\ speaks(e) /\ e.value = at.rule.value
    BY <2>1 DEF isEntry, traced, speaks
  <2>3. PICK t : t = IF w = Null THEN <<>> ELSE demote(w.trace, {"APPLIED"})
    OBVIOUS
  <2>4. isTrace(t)
    <3>1. CASE w = Null
      <4>1. isTrace(<<>>)
        BY DEF isTrace, isList
      <4> QED
        BY <2>3, <3>1, <4>1
    <3>2. CASE w # Null
      <4>1. {"APPLIED"} \in SUBSET IN_FORCE
        BY DEF IN_FORCE
      <4> QED
        BY <2>3, <3>2, <4>1, DemotedSays DEF spoken
    <3> QED
      BY <3>1, <3>2
  <2>5. out = defined(w, at)
    BY <1>2 DEF applyRule
  <2>6. isDefined(out, w, at)
    BY <2>5, DefinedIs
  <2>7. out.trace = Append(t, e) /\ out.value = e.value /\ isWorking(out)
    BY <2>1, <2>2, <2>3, <2>6 DEF isDefined
  <2>8. isTrace(out.trace) /\ lastSays(out.trace, e.value)
    BY <2>2, <2>4, <2>7, AppendedSays
  <2> QED
    BY <2>7, <2>8 DEF spoken
<1> QED
  BY <1>1, <1>2

LEMMA LayersSpeak ==
  ASSUME NullIsNoFunction, NEW n \in Nat, NEW sorted, isSorted(sorted, n), NEW rule, NEW f, f[0] = Null,
         \A k \in 1 .. n : f[k] = layerStep(f[k - 1], sorted, rule, k)
  PROVE  f[n] = Null \/ spoken(f[n])
<1> DEFINE S == {k \in Nat : k <= n => f[k] = Null \/ spoken(f[k])}
<1>1. 0 \in S
  OBVIOUS
<1>2. ASSUME NEW k \in Nat, k \in S PROVE k + 1 \in S
  <2> SUFFICES ASSUME k + 1 <= n PROVE f[k + 1] = Null \/ spoken(f[k + 1])
    OBVIOUS
  <2>1. k + 1 \in 1 .. n /\ (k + 1) - 1 = k /\ (f[k] = Null \/ spoken(f[k]))
    BY <1>2
  <2>2. PICK layer : layer = sorted[k + 1]
    OBVIOUS
  <2>3. isList(layer.rules) /\ uniqueIds(layer.rules)
    BY <2>1, <2>2 DEF isSorted
  <2>4. PICK at : at = [layer |-> layer.id, rule |-> definition(layer, rule)]
    OBVIOUS
  <2>5. f[k + 1] = afterRules(f[k], layer, rule)[Len(layer.rules)]
    BY <2>1, <2>2 DEF layerStep
  <2>6. f[k + 1] = IF defines(layer, rule) THEN applyRule(f[k], at) ELSE f[k]
    BY <2>3, <2>4, <2>5, OneLayer
  <2>7. spoken(applyRule(f[k], at))
    BY <2>1, RuleSpeaks
  <2> QED
    BY <2>1, <2>6, <2>7
<1>3. Nat \subseteq S
  <2> HIDE DEF S
  <2> QED
    BY <1>1, <1>2, SetInduction
<1> QED
  BY <1>3

(* Waivers: the definitions stay as they were, and the source is the last. *)
sourced(v, w, sorted, rule, k) ==
  IF w = Null THEN v = Null
  ELSE /\ isWorking(v) /\ isTrace(v.trace) /\ lastSays(v.trace, w.value)
       /\ waivedAt(sorted, rule, k) # {} =>
            \E i \in 1 .. k : isLast(i, waivedAt(sorted, rule, k)) /\ v.source = [type |-> "WAIVER", id |-> sorted[i].id]

LEMMA WaiverSources ==
  ASSUME NullIsNoFunction, NEW k \in Nat, NEW w, NEW sorted, NEW rule,
         NEW v, sourced(v, w, sorted, rule, k), NEW out, out = waiverStep(v, sorted, rule, k + 1)
  PROVE  sourced(out, w, sorted, rule, k + 1)
<1>1. PICK W : W = waivedAt(sorted, rule, k)
  OBVIOUS
<1>2. W \subseteq 1 .. k
  BY <1>1 DEF waivedAt
<1>3. CASE sorted[k + 1].rule # rule
  <2>1. waivedAt(sorted, rule, k + 1) = W
    BY <1>1, <1>3 DEF waivedAt
  <2>2. out = v
    BY <1>3 DEF waiverStep
  <2>3. ASSUME NEW i \in 1 .. k PROVE i \in 1 .. k + 1
    OBVIOUS
  <2> QED
    BY <1>1, <2>1, <2>2, <2>3 DEF sourced
<1>4. CASE sorted[k + 1].rule = rule /\ w = Null
  BY <1>4 DEF sourced, waiverStep, applyWaiver
<1>5. CASE sorted[k + 1].rule = rule /\ w # Null
  <2>1. waivedAt(sorted, rule, k + 1) = W \union {k + 1}
    BY <1>1, <1>5 DEF waivedAt
  <2>2. isWorking(v) /\ isTrace(v.trace) /\ lastSays(v.trace, w.value)
    BY <1>5 DEF sourced
  <2>3. v # Null
    BY <2>2, WorkingIsNotNull
  <2>4. PICK waiver : waiver = sorted[k + 1]
    OBVIOUS
  <2>5. isWaived(out, v, waiver)
    BY <1>5, <2>2, <2>3, <2>4, WaivedIs DEF waiverStep
  <2>6. PICK t : t = demote(v.trace, {"APPLIED", "WAIVED"})
    OBVIOUS
  <2>7. isTrace(t) /\ lastSays(t, w.value)
    <3>1. t = demote(v.trace, IN_FORCE) /\ IN_FORCE \in SUBSET IN_FORCE
      BY <2>6 DEF IN_FORCE
    <3>2. isTrace(t) /\ sameEntries(t, v.trace)
      BY <2>2, <3>1, DemotedSays
    <3> QED
      BY <2>2, <3>2, SameSays
  <2>8. PICK e : e = traced("WAIVER", waiver.id, waiver.value, "WAIVED")
    OBVIOUS
  <2>9. isEntry(e) /\ ~ speaks(e)
    BY <2>8 DEF isEntry, traced, speaks
  <2>10. isWorking(out) /\ out.trace = Append(t, e) /\ out.source = [type |-> "WAIVER", id |-> waiver.id]
    BY <2>5, <2>6, <2>8 DEF isWaived
  <2>11. isTrace(out.trace) /\ lastSays(out.trace, w.value)
    BY <2>7, <2>9, <2>10, AppendedSays
  <2>12. \A j \in W \union {k + 1} : j <= k + 1
    BY <1>2
  <2>13. isLast(k + 1, W \union {k + 1}) /\ k + 1 \in 1 .. k + 1
    BY <2>12 DEF isLast
  <2> QED
    BY <1>5, <2>1, <2>4, <2>10, <2>11, <2>13 DEF sourced
<1> QED
  BY <1>3, <1>4, <1>5

LEMMA WaiversSource ==
  ASSUME NullIsNoFunction, NEW m \in Nat, NEW w, w = Null \/ spoken(w), NEW sorted, NEW rule, NEW f, f[0] = w,
         \A k \in 1 .. m : f[k] = waiverStep(f[k - 1], sorted, rule, k)
  PROVE  sourced(f[m], w, sorted, rule, m)
<1> DEFINE S == {k \in Nat : k <= m => sourced(f[k], w, sorted, rule, k)}
<1>1. 0 \in S
  <2>1. waivedAt(sorted, rule, 0) = {}
    BY DEF waivedAt
  <2> QED
    BY <2>1 DEF sourced, spoken
<1>2. ASSUME NEW k \in Nat, k \in S PROVE k + 1 \in S
  <2> SUFFICES ASSUME k + 1 <= m PROVE sourced(f[k + 1], w, sorted, rule, k + 1)
    OBVIOUS
  <2>1. k + 1 \in 1 .. m /\ (k + 1) - 1 = k /\ sourced(f[k], w, sorted, rule, k)
    BY <1>2
  <2>2. f[k + 1] = waiverStep(f[k], sorted, rule, k + 1)
    BY <2>1
  <2> QED
    BY <2>1, <2>2, WaiverSources
<1>3. Nat \subseteq S
  <2> HIDE DEF S
  <2> QED
    BY <1>1, <1>2, SetInduction
<1> QED
  BY <1>3

(* What a valid context says of a rule, with its last definition and       *)
(* waiver.                                                                 *)
LEMMA EffectiveIsSourced ==
  ASSUME NullIsNoFunction, NEW context, isValidContext(context), NEW rule \in RuleId
  PROVE  \E w : /\ made(w, ordered(context.layers), rule, Len(context.layers))
                /\ sourced(context.effective[rule], w, orderedWaivers(context.waivers), rule, Len(context.waivers))
<1>1. PICK layers : layers = context.layers
  OBVIOUS
<1>2. PICK waivers : waivers = context.waivers
  OBVIOUS
<1>3. isList(layers) /\ isList(waivers)
  BY <1>1, <1>2 DEF isValidContext, isContext
<1>4. PICK n \in Nat : n = Len(layers)
  BY <1>3 DEF isList
<1>5. PICK m \in Nat : m = Len(waivers)
  BY <1>3 DEF isList
<1>6. PICK f : f = afterLayers(layers, rule)
  OBVIOUS
<1>7. PICK g : g = afterWaivers(layers, waivers, rule)
  OBVIOUS
<1>8. PICK sorted : sorted = ordered(layers)
  OBVIOUS
<1>9. PICK sortedW : sortedW = orderedWaivers(waivers)
  OBVIOUS
<1>10. isSorted(sorted, n)
  BY <1>1, <1>4, <1>8, SortedLayers
<1>11. f[0] = Null /\ \A k \in 1 .. n : f[k] = layerStep(f[k - 1], sorted, rule, k)
  BY <1>3, <1>4, <1>6, <1>8, AfterLayers
<1>12. made(f[n], sorted, rule, n)
  <2>1. n \in 0 .. n
    OBVIOUS
  <2> QED
    BY <1>10, <1>11, <2>1, LayersDecide
<1>13. f[n] = Null \/ spoken(f[n])
  BY <1>10, <1>11, LayersSpeak
<1>14. g[0] = f[n] /\ \A k \in 1 .. m : g[k] = waiverStep(g[k - 1], sortedW, rule, k)
  <2>1. PICK start : start = afterLayers(layers, rule)[Len(layers)]
    OBVIOUS
  <2>2. start = f[n]
    BY <1>4, <1>6, <2>1
  <2>3. g[0] = start /\ \A k \in 1 .. Len(waivers) : g[k] = waiverStep(g[k - 1], sortedW, rule, k)
    BY <1>3, <1>7, <1>9, <2>1, AfterWaivers
  <2> QED
    BY <1>5, <2>2, <2>3
<1>15. sourced(g[m], f[n], sortedW, rule, m)
  BY <1>13, <1>14, WaiversSource
<1>16. context.effective[rule] = g[m]
  BY <1>1, <1>2, <1>5, <1>7 DEF isValidContext, deriveEffectiveRules
<1> QED
  BY <1>1, <1>2, <1>4, <1>5, <1>8, <1>9, <1>12, <1>15, <1>16

(* How policy.ts finds them again.                                         *)
LEMMA BeforeWaiverIs ==
  ASSUME NEW working, isTrace(working.trace), NEW value, lastSays(working.trace, value),
         working.source.type = "WAIVER"
  PROVE  beforeWaiver(working) = value
<1>1. PICK t : t = working.trace
  OBVIOUS
<1>2. PICK n \in Nat : n = Len(t) /\ DOMAIN t = 1 .. n
  BY <1>1 DEF isTrace, isList
<1>3. PICK a \in 1 .. n : speaks(t[a]) /\ t[a].value = value /\ \A b \in 1 .. n : speaks(t[b]) => b <= a
  BY <1>1, <1>2 DEF lastSays
<1>4. PICK I : I = {i \in 1 .. n : t[i].from = "LAYER" /\ t[i].outcome # "REFUSED_LOCKED"}
  OBVIOUS
<1>5. a \in I /\ \A b \in I : b <= a
  BY <1>3, <1>4 DEF speaks
<1>6. PICK last : last = SelectLastInSeq(t, LAMBDA e : e.from = "LAYER" /\ e.outcome # "REFUSED_LOCKED")
  OBVIOUS
<1>7. last = Max(I)
  BY <1>2, <1>4, <1>5, <1>6 DEF SelectLastInSeq
<1>8. Max(I) \in I /\ a <= Max(I)
  <2>1. I \in SUBSET (1 .. n) /\ I # {}
    BY <1>4, <1>5
  <2> QED
    BY <1>5, <2>1, LastIsGreatest
<1>9. last = a
  <2>1. last \in 1 .. n /\ last <= a /\ a <= last
    BY <1>4, <1>5, <1>7, <1>8
  <2> QED
    BY <2>1
<1>10. last # 0
  BY <1>9
<1> QED
  BY <1>1, <1>3, <1>6, <1>9, <1>10 DEF beforeWaiver

LEMMA WaiverOfIs ==
  ASSUME NEW context, isValidContext(context), NEW k \in DOMAIN context.waivers,
         NEW working, working.source.type = "WAIVER", working.source.id = context.waivers[k].id
  PROVE  waiverOf(context, working) = context.waivers[k]
<1>1. PICK waivers : waivers = context.waivers
  OBVIOUS
<1>2. PICK n \in Nat : n = Len(waivers) /\ DOMAIN waivers = 1 .. n
  BY <1>1 DEF isValidContext, isContext, isList
<1>3. PICK I : I = {i \in 1 .. n : waivers[i].id = working.source.id}
  OBVIOUS
<1>4. I = {k}
  <2>1. k \in I
    BY <1>1, <1>2, <1>3
  <2>2. ASSUME NEW i \in I PROVE i = k
    BY <1>1, <1>2, <1>3 DEF isValidContext, uniqueIds, IsInjective
  <2> QED
    BY <2>1, <2>2
<1>5. PICK i : i = SelectInSeq(waivers, LAMBDA w : w.id = working.source.id)
  OBVIOUS
<1>6. i = Min(I)
  BY <1>2, <1>3, <1>4, <1>5 DEF SelectInSeq
<1>7. Min(I) \in I
  <2>1. I \in SUBSET Nat /\ I # {}
    BY <1>3, <1>4
  <2> QED
    BY <2>1, FirstIsLeast
<1>8. i = k /\ i # 0
  BY <1>2, <1>1, <1>4, <1>6, <1>7
<1> QED
  BY <1>1, <1>5, <1>8 DEF waiverOf

(* What the layers made of a rule is the value of the decisive definition. *)
LEMMA DecisiveValue ==
  ASSUME NullIsNoFunction, NEW context, isValidContext(context), NEW layers, layers = context.layers, NEW rule,
         definitions(layers, rule) # {}, NEW w, made(w, ordered(layers), rule, Len(layers))
  PROVE  /\ isWorking(w) /\ w # Null /\ w.value # Null
         /\ w.value = inForce(layers, {}, rule)
<1>1. PICK sorted : sorted = ordered(layers)
  OBVIOUS
<1>2. PICK n : n = Len(layers)
  OBVIOUS
<1>3. definedAt(sorted, rule, n) # {}
  <2>1. definitions(layers, rule) = definitionsAt(sorted, rule, n)
    BY <1>1, <1>2, DefinitionsAre
  <2> QED
    BY <2>1 DEF definitionsAt
<1>4. PICK i : decidedBy(w, i, sorted, rule, n)
  BY <1>1, <1>2, <1>3 DEF made
<1>5. isWorking(w) /\ w # Null
  BY <1>1, <1>2, <1>3, WorkingIsNotNull DEF made
<1>6. decisive(layers, rule) = definitionAt(sorted, rule, i)
  <2>1. decides(i, sorted, rule, n)
    BY <1>4 DEF decidedBy
  <2>2. isDecisive(layers, sorted, rule, i)
    BY <1>1, <1>2, <2>1, DecisiveIs
  <2> QED
    BY <2>2 DEF isDecisive
<1>7. decisive(layers, rule).rule.value = w.value
  BY <1>4, <1>6 DEF definitionAt, decidedBy
<1>8. w.value # Null
  <2>1. i \in definedAt(sorted, rule, n)
    BY <1>4 DEF decidedBy, decides
  <2>2. PICK d \in definitions(layers, rule) : d.rule = says(sorted, rule, i)
    <3>1. definitions(layers, rule) = definitionsAt(sorted, rule, n)
      BY <1>1, <1>2, DefinitionsAre
    <3>2. definitionAt(sorted, rule, i) \in definitionsAt(sorted, rule, n)
      BY <2>1 DEF definitionsAt
    <3> QED
      BY <3>1, <3>2 DEF definitionAt
  <2>3. PICK j \in DOMAIN layers : d.rule \in ToSet(layers[j].rules)
    BY <2>2 DEF definitions
  <2>4. PICK r \in DOMAIN layers[j].rules : d.rule = layers[j].rules[r]
    BY <2>3 DEF ToSet
  <2>5. layers[j].rules[r].value # Null
    BY <2>3, <2>4 DEF isValidContext, isContext
  <2> QED
    BY <1>4, <2>2, <2>4, <2>5 DEF decidedBy
<1> QED
  BY <1>5, <1>7, <1>8 DEF inForce

(* The last waiver of a rule, found by its id, is what decided it.         *)
isWaivedBy(working, context, last, w) ==
  /\ last # Null /\ last.expiresAt \in Nat
  /\ waiverOf(context, working) = last
  /\ beforeWaiver(working) = w.value

LEMMA WaiverIsFound ==
  ASSUME NEW context, isValidContext(context), NEW rule, NEW waivers, waivers = context.waivers,
         NEW live, live = waiversOf(waivers, rule), live # {},
         NEW last, last = lastOf(live),
         NEW sorted, sorted = orderedWaivers(waivers), NEW m, m = Len(waivers),
         NEW w, w # Null, NEW working, sourced(working, w, sorted, rule, m)
  PROVE  isWaivedBy(working, context, last, w)
<1>1. PICK W : W = waivedAt(sorted, rule, m)
  OBVIOUS
<1>2. areWaivers(sorted, W, live)
  BY <1>1, LiveWaivers
<1>3. W # {}
  BY <1>2 DEF areWaivers
<1>4. PICK i : isLast(i, W) /\ working.source = [type |-> "WAIVER", id |-> sorted[i].id]
  BY <1>1, <1>3 DEF sourced
<1>5. last = sorted[i]
  <2>1. isLastOf(sorted[i], live)
    BY <1>1, <1>4, LastWaiver
  <2> QED
    BY <2>1 DEF isLastOf
<1>6. PICK k \in DOMAIN waivers : waivers[k] = last
  <2>1. last \in live
    BY <1>2, <1>4, <1>5 DEF isLast, areWaivers
  <2> QED
    BY <2>1 DEF waiversOf, ToSet
<1>7. last # Null /\ last.expiresAt \in Nat
  BY <1>6 DEF isValidContext, isContext
<1>8. working.source.type = "WAIVER" /\ working.source.id = waivers[k].id
  BY <1>4, <1>5, <1>6
<1>9. waiverOf(context, working) = last
  BY <1>6, <1>8, WaiverOfIs
<1>10. beforeWaiver(working) = w.value
  <2>1. isTrace(working.trace) /\ lastSays(working.trace, w.value)
    BY DEF sourced
  <2> QED
    BY <1>8, <2>1, BeforeWaiverIs
<1> QED
  BY <1>7, <1>9, <1>10 DEF isWaivedBy

(* Null is not a report either: no evaluation is in it.                    *)
NullIsNoReport == \A rule, subject, outcome, waiver : evaluation(rule, subject, outcome, waiver) \notin Null

LEMMA EvaluationIs ==
  ASSUME NullIsNoReport, NEW context, NEW rule, NEW s, NEW e, e = evaluate(context, rule, s)
  PROVE  e \notin Null
<1>1. PICK working : working = context.effective[rule]
  OBVIOUS
<1>2. PICK waiver : waiver = waiverOf(context, working)
  OBVIOUS
<1>3. CASE ~ applicable(rule, s[2])
  <2>1. e = evaluation(rule, s[1], "NOT_APPLICABLE", Null)
    BY <1>3 DEF evaluate
  <2> QED
    BY <2>1 DEF NullIsNoReport
<1>4. CASE applicable(rule, s[2]) /\ ~ allowed(rule, working.value, s[2])
  <2>1. e = evaluation(rule, s[1], "VIOLATED", Null)
    BY <1>1, <1>4 DEF evaluate
  <2> QED
    BY <2>1 DEF NullIsNoReport
<1>5. CASE applicable(rule, s[2]) /\ allowed(rule, working.value, s[2])
  <2>1. PICK w : w = [id |-> waiver.id, expiresAt |-> waiver.expiresAt]
    OBVIOUS
  <2>2. e = evaluation(rule, s[1], "WAIVED", w) \/ e = evaluation(rule, s[1], "SATISFIED", Null)
    BY <1>1, <1>2, <1>5, <2>1 DEF evaluate
  <2> QED
    BY <2>2 DEF NullIsNoReport
<1> QED
  BY <1>3, <1>4, <1>5

(* What a compilation says of one subject of an interpreted rule, when the *)
(* plan is applied.                                                        *)
LEMMA EvaluatedIs ==
  ASSUME CInv, NullIsNoReport, governed, applied # Null,
         NEW rule \in RuleId, interpreted(rule), input.context.effective[rule] # Null,
         NEW s \in subjects(rule, buildSystemIR(input.system), result.resolved),
         NEW e, e = evaluate(input.context, rule, s)
  PROVE  e.outcome # "VIOLATED" /\ (e.outcome = "WAIVED" => ~ (e.waiver.expiresAt < applied))
<1>1. PICK context : context = input.context /\ context # Null
  BY DEF governed
<1>2. PICK policy : policy = result.policy
  OBVIOUS
<1>3. PICK ir : ir = buildSystemIR(input.system)
  OBVIOUS
<1>4. policy = evaluatePolicies(context, ir, result.resolved)
  BY <1>1, <1>2, <1>3, AcceptedIsCompiled DEF policyOf, governed
<1>5. e \in policy
  <2>1. e \in {evaluate(context, rule, subject) : subject \in subjects(rule, ir, result.resolved)}
    BY <1>1, <1>3
  <2> QED
    BY <1>1, <1>4, <2>1 DEF evaluatePolicies
<1>6. result.status \in {"PLANNED", "PARTIAL"} /\ expiredWaivers(policy, applied) = {}
  BY <1>2 DEF CInv
<1>7. policy # Null
  <2>1. e \notin Null
    BY EvaluationIs
  <2> QED
    BY <1>5, <2>1
<1>8. PICK codes : codes = codesOf(input, result.resolved, policy)
  OBVIOUS
<1>9. "POLICY_VIOLATION" \notin codes
  <2>1. result.status = statusOf(input.system, result.resolved, codes)
    <3>1. accepted
      BY DEF governed
    <3>2. \/ result.status = "INVALID"
          \/ result.status = statusOf(input.system, result.resolved, codesOf(input, result.resolved, result.policy))
      BY <3>1, AcceptedIsCompiled
    <3> QED
      BY <1>2, <1>6, <1>8, <3>2
  <2> QED
    BY <1>6, <2>1 DEF statusOf
<1>10. e.outcome # "VIOLATED"
  <2> SUFFICES ASSUME e.outcome = "VIOLATED" PROVE FALSE
    OBVIOUS
  <2>1. "POLICY_VIOLATION" \in policyDiagnostics(policy)
    BY <1>5 DEF policyDiagnostics
  <2> QED
    BY <1>7, <1>8, <1>9, <2>1 DEF codesOf
<1>11. e.outcome = "WAIVED" => ~ (e.waiver.expiresAt < applied)
  BY <1>5, <1>6, <1>7 DEF expiredWaivers
<1> QED
  BY <1>10, <1>11

(* How policy.ts decides about a subject that the rule is about.           *)
LEMMA EvaluateIs ==
  ASSUME NEW context, NEW rule, NEW s, NEW working, working = context.effective[rule], applicable(rule, s[2]),
         NEW before, before = beforeWaiver(working), NEW waiver, waiver = waiverOf(context, working),
         NEW e, e = evaluate(context, rule, s)
  PROVE  /\ ~ allowed(rule, working.value, s[2]) => e.outcome = "VIOLATED"
         /\ allowed(rule, working.value, s[2]) /\ waiver # Null /\ before # Null /\ ~ allowed(rule, before, s[2]) =>
              e.outcome = "WAIVED" /\ e.waiver.expiresAt = waiver.expiresAt
<1>1. CASE ~ allowed(rule, working.value, s[2])
  <2>1. e = evaluation(rule, s[1], "VIOLATED", Null)
    BY <1>1 DEF evaluate
  <2> QED
    BY <1>1, <2>1 DEF evaluation
<1>2. CASE allowed(rule, working.value, s[2]) /\ waiver # Null /\ before # Null /\ ~ allowed(rule, before, s[2])
  <2>1. PICK w : w = [id |-> waiver.id, expiresAt |-> waiver.expiresAt]
    OBVIOUS
  <2>2. e = evaluation(rule, s[1], "WAIVED", w)
    BY <1>2, <2>1 DEF evaluate
  <2> QED
    BY <1>2, <2>1, <2>2 DEF evaluation
<1> QED
  BY <1>1, <1>2

(* Whatever is applied is allowed at that instant: every subject of an     *)
(* interpreted rule has what the rule in force allows, and it has what the *)
(* layers allow unless the waiver in force has not expired, for any layers,*)
(* waivers, systems and instants (the refusal of expired waivers in        *)
(* materialize.ts, which relies on what evaluate reports).                 *)
THEOREM AppliedComplies == Spec => [](NullIsNoFunction /\ NullIsNoReport => AppliedIsCompliant)
<1>1. CInv /\ EffectiveIsReference /\ NullIsNoFunction /\ NullIsNoReport => AppliedIsCompliant
  <2> SUFFICES ASSUME CInv, NullIsNoFunction, NullIsNoReport, EffectiveIsReference, governed, applied # Null,
                      NEW rule \in {r \in RuleId : definitions(layersOf, r) # {} /\ interpreted(r)},
                      NEW s \in {x \in subjects(rule, buildSystemIR(input.system), result.resolved) : applicable(rule, x[2])}
               PROVE  LET waivers == waiversOf(input.context.waivers, rule)
                          last == CHOOSE w \in waivers : \A v \in waivers : w.id >= v.id
                      IN  /\ allowed(rule, inForce(layersOf, waivers, rule), s[2])
                          /\ \/ allowed(rule, inForce(layersOf, {}, rule), s[2])
                             \/ waivers # {} /\ last.expiresAt >= applied
    BY DEF AppliedIsCompliant
  <2>1. PICK context : context = input.context
    OBVIOUS
  <2>2. isValidContext(context)
    BY <2>1, GovernedIsValid
  <2>3. PICK layers : layers = context.layers
    OBVIOUS
  <2>4. PICK waivers : waivers = context.waivers
    OBVIOUS
  <2>5. rule \in RuleId /\ definitions(layers, rule) # {} /\ interpreted(rule)
    BY <2>1, <2>3 DEF layersOf
  <2>6. PICK live : live = waiversOf(waivers, rule)
    OBVIOUS
  <2>7. PICK working : working = context.effective[rule]
    OBVIOUS
  <2>8. PICK w : made(w, ordered(layers), rule, Len(layers))
                 /\ sourced(working, w, orderedWaivers(waivers), rule, Len(waivers))
    BY <2>2, <2>3, <2>4, <2>5, <2>7, EffectiveIsSourced
  <2>9. /\ isWorking(w) /\ w # Null /\ w.value # Null
        /\ w.value = inForce(layers, {}, rule)
    BY <2>2, <2>3, <2>5, <2>8, DecisiveValue
  <2>10. working # Null
    <3>1. isWorking(working)
      BY <2>8, <2>9 DEF sourced
    <3> QED
      BY <3>1, WorkingIsNotNull
  <2>11. working.value = inForce(layers, live, rule)
    BY <2>1, <2>3, <2>4, <2>5, <2>6, <2>7 DEF EffectiveIsReference, layersOf
  <2>12. PICK e : e = evaluate(context, rule, s)
    OBVIOUS
  <2>13. e.outcome # "VIOLATED" /\ (e.outcome = "WAIVED" => ~ (e.waiver.expiresAt < applied))
    <3>1. s \in subjects(rule, buildSystemIR(input.system), result.resolved)
      OBVIOUS
    <3>2. e = evaluate(input.context, rule, s) /\ input.context.effective[rule] # Null
      BY <2>1, <2>7, <2>10, <2>12
    <3> QED
      BY <2>5, <3>1, <3>2, EvaluatedIs
  <2>14. applicable(rule, s[2])
    OBVIOUS
  <2>15. allowed(rule, working.value, s[2])
    BY <2>7, <2>12, <2>13, <2>14, EvaluateIs
  <2>16. PICK last : last = lastOf(live)
    OBVIOUS
  <2>17. \/ allowed(rule, w.value, s[2])
         \/ live # {} /\ last.expiresAt >= applied
    <3>1. CASE live = {}
      BY <2>9, <2>11, <2>15, <3>1
    <3>2. CASE live # {} /\ ~ allowed(rule, w.value, s[2])
      <4>1. isWaivedBy(working, context, last, w)
        <5>1. PICK sorted : sorted = orderedWaivers(waivers)
          OBVIOUS
        <5>2. PICK m : m = Len(waivers)
          OBVIOUS
        <5>3. sourced(working, w, sorted, rule, m) /\ w # Null /\ live # {}
          BY <2>8, <2>9, <3>2, <5>1, <5>2
        <5> QED
          BY <2>2, <2>4, <2>6, <2>16, <5>1, <5>2, <5>3, WaiverIsFound
      <4>2. waiverOf(context, working) = last /\ last # Null /\ last.expiresAt \in Nat
            /\ beforeWaiver(working) = w.value
        BY <4>1 DEF isWaivedBy
      <4>3. e.outcome = "WAIVED" /\ e.waiver.expiresAt = last.expiresAt
        BY <2>7, <2>9, <2>12, <2>14, <2>15, <3>2, <4>2, EvaluateIs
      <4>4. applied \in Nat
        BY InstantAssumption DEF CInv
      <4>5. last.expiresAt >= applied
        BY <2>13, <4>2, <4>3, <4>4
      <4> QED
        BY <3>2, <4>5
    <3> QED
      BY <3>1, <3>2
  <2>18. last = CHOOSE x \in live : \A v \in live : x.id >= v.id
    BY <2>16 DEF lastOf
  <2> QED
    BY <2>1, <2>3, <2>4, <2>6, <2>9, <2>11, <2>15, <2>17, <2>18 DEF layersOf
<1>2. Spec => [](NullIsNoFunction => EffectiveIsReference)
  BY RulesAreTheReference
<1> QED
  BY <1>1, <1>2, Compiled, PTL

=============================================================================
