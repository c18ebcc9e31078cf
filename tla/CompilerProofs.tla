--------------------------- MODULE CompilerProofs ---------------------------
(***************************************************************************)
(* What a compilation guarantees, for every document that has the form its *)
(* schema requires: nothing is dropped on the way from the definition to   *)
(* the plan, what realizes a component follows from its definition, design *)
(* tokens are bound to literals of their types, and cycles are found.      *)
(***************************************************************************)
EXTENDS Compiler, Induction, FiniteSetTheorems

(***************************************************************************)
(* Orders.                                                                 *)
(***************************************************************************)

(* R puts the members of S one after another.                              *)
orders(S, R) ==
  /\ \A x \in S : <<x, x>> \notin R
  /\ \A x, y, z \in S : <<x, y>> \in R /\ <<y, z>> \in R => <<x, z>> \in R
  /\ \A x, y \in S : x = y \/ <<x, y>> \in R \/ <<y, x>> \in R

(* inOrder lists every member of a finite set once, in its order.          *)
LEMMA InOrder ==
  ASSUME NEW S, IsFiniteSet(S), NEW R, orders(S, R)
  PROVE  /\ Cardinality(S) \in Nat
         /\ inOrder(S, R) \in [1 .. Cardinality(S) -> S]
         /\ \A x \in S : \E k \in 1 .. Cardinality(S) : inOrder(S, R)[k] = x
         /\ \A j, k \in 1 .. Cardinality(S) : j < k <=> <<inOrder(S, R)[j], inOrder(S, R)[k]>> \in R
<1> DEFINE n == Cardinality(S)
           before(x) == {y \in S : <<y, x>> \in R}
           height == [x \in S |-> Cardinality(before(x))]
<1>1. n \in Nat
  BY FS_CardinalityType
<1>2. ASSUME NEW x \in S
      PROVE  IsFiniteSet(before(x)) /\ height[x] \in 0 .. n - 1
  <2>1. IsFiniteSet(S \ {x}) /\ Cardinality(S \ {x}) = n - 1
    BY FS_RemoveElement
  <2>2. before(x) \in SUBSET (S \ {x})
    BY DEF orders
  <2>3. IsFiniteSet(before(x)) /\ Cardinality(before(x)) <= n - 1
    <3> HIDE DEF before
    <3>1. IsFiniteSet(before(x)) /\ Cardinality(before(x)) <= Cardinality(S \ {x})
      BY <2>1, <2>2, FS_Subset
    <3> QED
      BY <2>1, <3>1
  <2>4. Cardinality(before(x)) \in Nat
    BY <2>3, FS_CardinalityType
  <2> QED
    BY <1>1, <2>3, <2>4
<1>3. ASSUME NEW x \in S, NEW y \in S, <<x, y>> \in R
      PROVE  height[x] < height[y]
  <2>1. before(x) \in SUBSET before(y) /\ x \in before(y) /\ x \notin before(x)
    BY <1>3 DEF orders
  <2>2. Cardinality(before(x)) <= Cardinality(before(y)) /\ Cardinality(before(x)) # Cardinality(before(y))
    BY <1>2, <2>1, FS_Subset
  <2>3. height[x] \in 0 .. n - 1 /\ height[y] \in 0 .. n - 1
    BY <1>2
  <2> QED
    BY <1>1, <2>2, <2>3
<1>4. \A k \in 1 .. n : \E x \in S : height[x] = k - 1
  <2>1. height \in [S -> 0 .. n - 1]
    BY <1>2
  <2>2. ASSUME NEW x \in S, NEW y \in S, height[x] = height[y] PROVE x = y
    <3>1. height[x] \in 0 .. n - 1 /\ height[y] \in 0 .. n - 1
      BY <1>2
    <3>2. ~ (height[x] < height[y]) /\ ~ (height[y] < height[x])
      BY <1>1, <2>2, <3>1
    <3> QED
      BY <1>3, <3>2 DEF orders
  <2>3. height \in Injection(S, 0 .. n - 1)
    <3> HIDE DEF height
    <3> QED
      BY <2>1, <2>2 DEF Injection, IsInjective
  <2>4. IsFiniteSet(0 .. n - 1) /\ Cardinality(0 .. n - 1) = n
    BY <1>1, FS_Interval
  <2>5. height \in Surjection(S, 0 .. n - 1)
    BY <2>3, <2>4, FS_Injection
  <2>6. \A r \in 0 .. n - 1 : \E x \in S : height[x] = r
    BY <2>5 DEF Surjection
  <2> QED
    BY <1>1, <2>6
<1> DEFINE order == inOrder(S, R)
<1>5. ASSUME NEW k \in 1 .. n PROVE order[k] \in S /\ height[order[k]] = k - 1
  <2>1. order[k] = CHOOSE x \in S : Cardinality(before(x)) = k - 1
    BY DEF inOrder
  <2>2. \E x \in S : Cardinality(before(x)) = k - 1
    BY <1>4
  <2> HIDE DEF order
  <2> QED
    BY <2>1, <2>2
<1>6. order \in [1 .. n -> S]
  BY <1>5 DEF inOrder
<1>7. ASSUME NEW x \in S PROVE \E k \in 1 .. n : order[k] = x
  <2>1. PICK k \in 1 .. n : height[x] = k - 1
    <3>1. height[x] \in 0 .. n - 1
      BY <1>2
    <3> HIDE DEF height, n
    <3>2. height[x] + 1 \in 1 .. n /\ height[x] = (height[x] + 1) - 1
      BY <1>1, <3>1
    <3> QED
      BY <3>2
  <2>2. order[k] \in S /\ height[order[k]] = height[x]
    BY <1>5, <2>1
  <2>3. ~ (height[x] < height[order[k]]) /\ ~ (height[order[k]] < height[x])
    BY <1>1, <2>1, <2>2
  <2> HIDE DEF order, height
  <2> QED
    BY <1>3, <2>2, <2>3 DEF orders
<1>8. ASSUME NEW j \in 1 .. n, NEW k \in 1 .. n
      PROVE  j < k <=> <<order[j], order[k]>> \in R
  <2>1. order[j] \in S /\ order[k] \in S /\ height[order[j]] = j - 1 /\ height[order[k]] = k - 1
    BY <1>5
  <2> HIDE DEF order, height, n
  <2>2. <<order[j], order[k]>> \in R => j < k
    BY <1>1, <1>3, <2>1
  <2>3. <<order[k], order[j]>> \in R => k < j
    BY <1>1, <1>3, <2>1
  <2>4. order[j] = order[k] => j = k
    BY <1>1, <2>1
  <2> QED
    BY <1>1, <2>1, <2>2, <2>3, <2>4 DEF orders
<1> QED
  BY <1>1, <1>6, <1>7, <1>8

(***************************************************************************)
(* Lists.                                                                  *)
(***************************************************************************)

(* Two lists in a row have the members of both.                            *)
LEMMA ConcatMembers ==
  ASSUME NEW S, NEW s \in Seq(S), NEW t \in Seq(S)
  PROVE  s \o t \in Seq(S) /\ \A x : x \in Range(s \o t) <=> x \in Range(s) \/ x \in Range(t)
<1>1. s \o t \in Seq(S) /\ Len(s \o t) = Len(s) + Len(t) /\ Len(s) \in Nat /\ Len(t) \in Nat
  OBVIOUS
<1>2. DOMAIN s = 1 .. Len(s) /\ DOMAIN t = 1 .. Len(t) /\ DOMAIN (s \o t) = 1 .. Len(s) + Len(t)
  BY <1>1
<1>3. ASSUME NEW i \in DOMAIN s PROVE i \in DOMAIN (s \o t) /\ (s \o t)[i] = s[i]
  BY <1>1, <1>2
<1>4. ASSUME NEW i \in DOMAIN t PROVE Len(s) + i \in DOMAIN (s \o t) /\ (s \o t)[Len(s) + i] = t[i]
  BY <1>1, <1>2
<1>5. ASSUME NEW i \in DOMAIN (s \o t), i \notin DOMAIN s
      PROVE  i - Len(s) \in DOMAIN t /\ (s \o t)[i] = t[i - Len(s)]
  BY <1>1, <1>2, <1>5
<1>6. ASSUME NEW x PROVE x \in Range(s \o t) <=> x \in Range(s) \/ x \in Range(t)
  <2>1. x \in Range(s) => x \in Range(s \o t)
    BY <1>3 DEF Range
  <2>2. x \in Range(t) => x \in Range(s \o t)
    BY <1>4 DEF Range
  <2>3. x \in Range(s \o t) => x \in Range(s) \/ x \in Range(t)
    BY <1>3, <1>5 DEF Range
  <2> QED
    BY <2>1, <2>2, <2>3
<1> QED
  BY <1>1, <1>6

(* g[i] is what the first i lists of a list of lists make in a row.        *)
flattens(g, seqs) == g = [i \in 1 .. Len(seqs) |-> IF i = 1 THEN seqs[i] ELSE g[i - 1] \o seqs[i]]

LEMMA FlatteningExists ==
  ASSUME NEW S, NEW seqs \in Seq(Seq(S)), seqs # <<>>
  PROVE  \E g : flattens(g, seqs)
<1> DEFINE X == Seq(S)
           n == Len(seqs)
           next == [p \in X \X Nat |-> IF p[2] + 1 \in 1 .. n THEN p[1] \o seqs[p[2] + 1] ELSE p[1]]
<1>1. n \in Nat /\ n - 1 \in Nat /\ seqs[1] \in X /\ \A i \in 1 .. n : seqs[i] \in X
  OBVIOUS
<1>2. next \in [X \X Nat -> X]
  <2>1. ASSUME NEW p \in X \X Nat PROVE (IF p[2] + 1 \in 1 .. n THEN p[1] \o seqs[p[2] + 1] ELSE p[1]) \in X
    <3>1. p[1] \in X
      OBVIOUS
    <3>2. CASE p[2] + 1 \in 1 .. n
      <4>1. seqs[p[2] + 1] \in X
        BY <1>1, <3>2
      <4> QED
        BY <3>1, <3>2, <4>1, ConcatMembers
    <3> QED
      BY <3>1, <3>2
  <2> QED
    BY <2>1
<1>3. PICK f \in [0 .. n - 1 -> X] : Iterates(f, seqs[1], next, n - 1)
  <2> HIDE DEF X, next, n
  <2> QED
    BY <1>1, <1>2, FiniteRecursion
<1> DEFINE g == [i \in 1 .. n |-> f[i - 1]]
<1>4. ASSUME NEW i \in 1 .. n PROVE g[i] = IF i = 1 THEN seqs[i] ELSE g[i - 1] \o seqs[i]
  <2>1. CASE i = 1
    BY <1>3, <2>1 DEF Iterates
  <2>2. CASE i # 1
    <3>1. i - 1 \in 1 .. n - 1 /\ i - 1 \in 1 .. n /\ i - 1 \in Nat /\ (i - 1) - 1 \in 0 .. n - 1 /\ (i - 1) + 1 = i
      BY <1>1, <2>2
    <3>2. f[i - 1] = next[<<f[(i - 1) - 1], i - 1>>]
      BY <1>3, <3>1 DEF Iterates
    <3>3. f[(i - 1) - 1] \in X
      BY <1>3, <3>1
    <3>4. next[<<f[(i - 1) - 1], i - 1>>] = f[(i - 1) - 1] \o seqs[i]
      BY <3>1, <3>3
    <3>5. g[i] = f[i - 1] /\ g[i - 1] = f[(i - 1) - 1]
      BY <3>1
    <3> HIDE DEF g, next
    <3> QED
      BY <2>2, <3>2, <3>4, <3>5
  <2> QED
    BY <2>1, <2>2
<1>5. flattens(g, seqs)
  BY <1>4 DEF flattens
<1> QED
  BY <1>5

(* The members of a flattened list of lists are those of the lists.        *)
LEMMA Flattened ==
  ASSUME NEW S, NEW seqs \in Seq(Seq(S))
  PROVE  /\ FlattenSeq(seqs) \in Seq(S)
         /\ \A x : x \in Range(FlattenSeq(seqs)) <=> \E i \in DOMAIN seqs : x \in Range(seqs[i])
<1>1. CASE seqs = <<>>
  <2>1. FlattenSeq(seqs) = <<>>
    BY <1>1 DEF FlattenSeq
  <2>2. FlattenSeq(seqs) \in Seq(S) /\ DOMAIN FlattenSeq(seqs) = {} /\ DOMAIN seqs = {}
    <3>1. DOMAIN <<>> = {} /\ <<>> \in Seq(S)
      OBVIOUS
    <3> QED
      BY <1>1, <2>1, <3>1, Zenon
  <2> QED
    BY <2>2 DEF Range
<1>2. CASE seqs # <<>>
  <2> DEFINE n == Len(seqs)
             g == CHOOSE h : flattens(h, seqs)
  <2>1. flattens(g, seqs)
    BY <1>2, FlatteningExists
  <2>2. FlattenSeq(seqs) = g[n]
    BY <1>2 DEF FlattenSeq, flattens
  <2>3. n \in Nat /\ n >= 1 /\ \A i \in 1 .. n : seqs[i] \in Seq(S)
    BY <1>2
  <2> HIDE DEF g
  <2> DEFINE right(m) == /\ g[m + 1] \in Seq(S)
                         /\ \A x : x \in Range(g[m + 1]) <=> \E i \in 1 .. m + 1 : x \in Range(seqs[i])
             T == {m \in Nat : m + 1 <= n => right(m)}
  <2>4. 0 \in T
    <3>1. g[1] = seqs[1] /\ seqs[1] \in Seq(S)
      BY <2>1, <2>3 DEF flattens
    <3> QED
      BY <3>1
  <2>5. ASSUME NEW m \in Nat, m \in T PROVE m + 1 \in T
    <3> SUFFICES ASSUME (m + 1) + 1 <= n PROVE right(m + 1)
      OBVIOUS
    <3>1. right(m)
      BY <2>3, <2>5
    <3>2. (m + 1) + 1 \in 1 .. n /\ (m + 1) + 1 # 1 /\ ((m + 1) + 1) - 1 = m + 1
      BY <2>3
    <3>3. g[(m + 1) + 1] = g[m + 1] \o seqs[(m + 1) + 1]
      BY <2>1, <3>2 DEF flattens
    <3>4. seqs[(m + 1) + 1] \in Seq(S)
      BY <2>3, <3>2
    <3>5. /\ g[(m + 1) + 1] \in Seq(S)
          /\ \A x : x \in Range(g[(m + 1) + 1]) <=> x \in Range(g[m + 1]) \/ x \in Range(seqs[(m + 1) + 1])
      BY <3>1, <3>3, <3>4, ConcatMembers
    <3>6. 1 .. (m + 1) + 1 = 1 .. m + 1 \union {(m + 1) + 1}
      OBVIOUS
    <3> QED
      BY <3>1, <3>5, <3>6
  <2>6. n - 1 \in T
    <3> HIDE DEF T
    <3>1. Nat \subseteq T
      BY <2>4, <2>5, SetInduction
    <3> QED
      BY <2>3, <3>1
  <2>7. right(n - 1) /\ (n - 1) + 1 = n
    BY <2>3, <2>6
  <2>8. DOMAIN seqs = 1 .. n
    OBVIOUS
  <2> HIDE DEF n
  <2> QED
    BY <2>2, <2>7, <2>8
<1> QED
  BY <1>1, <1>2

(***************************************************************************)
(* What has been compiled.                                                 *)
(***************************************************************************)

(* The result is what the facade and the host make of the input.           *)
CInv ==
  /\ \E family \in Inputs : input \in family
  /\ result \in {Null, reported(input, facadePlan(input))}
  /\ applied # Null =>
       /\ applied \in Instant
       /\ result # Null
       /\ result.status \in {"PLANNED", "PARTIAL"}
       /\ expiredWaivers(result.policy, applied) = {}

(* An invariant of the specification.                                      *)
LEMMA Compiled == Spec => []CInv
<1>1. Init => CInv
  BY DEF Init, CInv
<1>2. CInv /\ [Next]_vars => CInv'
  <2> SUFFICES ASSUME CInv, [Next]_vars PROVE CInv'
    OBVIOUS
  <2>1. CASE Compile
    BY <2>1 DEF Compile, CInv
  <2>2. ASSUME NEW at \in Instant, Apply(at) PROVE CInv'
    BY <2>2 DEF Apply, CInv
  <2>3. CASE UNCHANGED vars
    BY <2>3 DEF vars, CInv
  <2> QED
    BY <2>1, <2>2, <2>3 DEF Next
<1> QED
  BY <1>1, <1>2, PTL DEF Spec

(* The codes of a compilation, and the policies it was evaluated on.       *)
codesOf(in, resolved, policy) ==
  {d[1] : d \in resolveDiagnostics(catalogOf(in), in.system.components, resolved)}
  \union {i[2] : i \in unsupportedIntent(in.system)}
  \union documentDiagnostics(in)
  \union (IF policy = Null THEN {} ELSE policyDiagnostics(policy))

policyOf(in, resolved) ==
  IF in.context = Null THEN Null ELSE evaluatePolicies(in.context, buildSystemIR(in.system), resolved)

(* The fields of a compilation.                                            *)
LEMMA CompiledFields ==
  ASSUME NEW in, NEW out, out = compiled(in)
  PROVE  /\ out.resolved = resolveSystem(catalogOf(in), in.system.components)
         /\ out.policy = policyOf(in, out.resolved)
         /\ out.diagnostics = codesOf(in, out.resolved, out.policy)
         /\ out.status = statusOf(in.system, out.resolved, out.diagnostics)
         /\ out.bindings = buildDesignBindings(in.system.components, in.system.designs)
         /\ out.plan = planUnlessInvalid(out.status, planSystem(in, out.resolved, out.policy))
<1>1. PICK ir : ir = buildSystemIR(in.system)
  OBVIOUS
<1>2. ir.components = in.system.components /\ ir.bindings = buildDesignBindings(in.system.components, in.system.designs)
  BY <1>1 DEF buildSystemIR
<1> QED
  BY <1>1, <1>2 DEF compiled, codesOf, policyOf

(* An accepted result is the compilation of the input, with what the host  *)
(* reports.                                                                *)
LEMMA AcceptedIsCompiled ==
  ASSUME CInv, accepted
  PROVE  /\ invalidities(input) = {}
         /\ ~ bindingsThrow(buildSystemIR(input.system).bindings)
         /\ result.resolved = resolveSystem(catalogOf(input), input.system.components)
         /\ result.policy = policyOf(input, result.resolved)
         /\ codesOf(input, result.resolved, result.policy) \subseteq result.diagnostics
         /\ result.bindings = buildDesignBindings(input.system.components, input.system.designs)
         /\ \/ result.status = "INVALID"
            \/ result.status = statusOf(input.system, result.resolved, codesOf(input, result.resolved, result.policy))
         /\ result.plan = planUnlessInvalid(statusOf(input.system, result.resolved, codesOf(input, result.resolved, result.policy)),
                                            planSystem(input, result.resolved, result.policy))
<1>1. PICK planned : planned = facadePlan(input)
  OBVIOUS
<1>2. result = reported(input, planned)
  BY <1>1 DEF CInv, accepted
<1>3. PICK out : out = compiled(input)
  OBVIOUS
<1>4. ASSUME planned = notCompiled("INVALID", documentDiagnostics(input)) \/ planned = notCompiled("THROWN", {})
      PROVE  FALSE
  <2>1. planned.resolved = Null
    BY <1>4 DEF notCompiled
  <2>2. result.resolved = Null
    BY <1>2, <1>4, <2>1 DEF reported, notCompiled
  <2> QED
    BY <2>2 DEF accepted
<1>5. planned = out /\ invalidities(input) = {} /\ ~ bindingsThrow(buildSystemIR(input.system).bindings)
  BY <1>1, <1>3, <1>4 DEF facadePlan
<1>6. out = [status |-> out.status, diagnostics |-> out.diagnostics, bindings |-> out.bindings,
             resolved |-> out.resolved, policy |-> out.policy, plan |-> out.plan]
  BY <1>3 DEF compiled
<1>7. /\ result.resolved = out.resolved /\ result.policy = out.policy /\ result.bindings = out.bindings
      /\ result.plan = out.plan /\ out.diagnostics \subseteq result.diagnostics
      /\ result.status \in {"INVALID", out.status}
  <2>1. CASE result = planned
    BY <1>5, <2>1
  <2>2. CASE result # planned
    <3>1. PICK found : found = loadExtensions(input.extensions).diagnostics
      OBVIOUS
    <3>2. result = [out EXCEPT !.diagnostics = @ \union found,
                               !.status = IF found \subseteq HOST_WARNINGS THEN @ ELSE "INVALID"]
      BY <1>2, <1>5, <2>2, <3>1 DEF reported
    <3> QED
      BY <1>6, <3>2
  <2> QED
    BY <2>1, <2>2
<1> QED
  BY <1>3, <1>5, <1>7, CompiledFields

(* No rule of the document is broken.                                      *)
LEMMA NoErrors ==
  ASSUME CInv, accepted
  PROVE  /\ \A code \in systemDiagnostics(input.system) : code \in SYSTEM_WARNINGS
         /\ catalogDiagnostics(catalogOf(input)) \subseteq SYSTEM_WARNINGS
         /\ input.context # Null => validateEffectiveOrganizationContext(input.context) \subseteq SYSTEM_WARNINGS
BY AcceptedIsCompiled DEF invalidities, documentDiagnostics

(***************************************************************************)
(* Domain items and their contracts.                                       *)
(***************************************************************************)

(* What validation excludes.                                               *)
LEMMA ReferencesResolve ==
  ASSUME CInv, accepted
  PROVE  /\ ~ unknownItem(input.system)
         /\ ~ operationWithoutProvider(input.system)
         /\ ~ eventWithoutProducer(input.system)
         /\ \A c \in DOMAIN input.system.components : \A edge \in input.system.components[c].consumes :
              edge.component \in DOMAIN input.system.components /\ edge.component # c
<1>1. PICK system : system = input.system
  OBVIOUS
<1>2. /\ "SYSTEM_UNKNOWN_DOMAIN_ITEM" \notin crossValidateSystemDefinition(system)
      /\ "SYSTEM_OPERATION_WITHOUT_PROVIDER" \notin crossValidateSystemDefinition(system)
      /\ "SYSTEM_EVENT_WITHOUT_PRODUCER" \notin crossValidateSystemDefinition(system)
      /\ "SYSTEM_UNKNOWN_COMPONENT" \notin validateSystemDefinition(system.components)
      /\ "SYSTEM_SELF_DEPENDENCY" \notin validateSystemDefinition(system.components)
  <2>1. \A code \in systemDiagnostics(system) : code \in SYSTEM_WARNINGS
    BY <1>1, NoErrors
  <2> QED
    BY <2>1 DEF systemDiagnostics, SYSTEM_WARNINGS
<1>3. ~ unknownItem(system) /\ ~ operationWithoutProvider(system) /\ ~ eventWithoutProducer(system)
  BY <1>2 DEF crossValidateSystemDefinition
<1>4. ASSUME NEW c \in DOMAIN system.components, NEW edge \in system.components[c].consumes
      PROVE  edge.component \in DOMAIN system.components /\ edge.component # c
  BY <1>2 DEF validateSystemDefinition
<1> QED
  BY <1>1, <1>3, <1>4

(* An operation that a component implements is in its contract.            *)
LEMMA ImplementedIsShared ==
  ASSUME NEW system, NEW c \in DOMAIN system.components, NEW item \in operationItems(system.domains),
         c \in implementedBy(system, item)
  PROVE  \E contract \in projectApiContracts(system) :
           /\ contract = projectApiContract(system, item[1], c)
           /\ contract.provider = c /\ contract.domain = item[1] /\ item \in contract.operations
           /\ contract.consumers = (UNION {consumedBy(system, i) : i \in contract.operations}) \ {c}
<1>1. item[1] \in DOMAIN system.domains
  BY DEF operationItems
<1>2. PICK contract : contract = projectApiContract(system, item[1], c)
  OBVIOUS
<1>3. /\ contract.provider = c /\ contract.domain = item[1] /\ item \in contract.operations
      /\ contract.consumers = (UNION {consumedBy(system, i) : i \in contract.operations}) \ {c}
  BY <1>2 DEF projectApiContract
<1>4. contract \in projectApiContracts(system)
  BY <1>1, <1>2, <1>3 DEF projectApiContracts
<1> QED
  BY <1>2, <1>3, <1>4

(* A contract has operations that its provider implements.                 *)
LEMMA SharedIsImplemented ==
  ASSUME NEW system, NEW x \in projectApiContracts(system)
  PROVE  /\ x.provider \in DOMAIN system.components /\ x.domain \in DOMAIN system.domains
         /\ \A item \in x.operations : /\ item \in operationItems(system.domains) /\ item[1] = x.domain
                                      /\ x.provider \in implementedBy(system, item)
<1>1. PICK k \in DOMAIN system.domains, c \in DOMAIN system.components : x = projectApiContract(system, k, c)
  BY DEF projectApiContracts
<1> QED
  BY <1>1 DEF projectApiContract

(* What a plan has.                                                        *)
LEMMA PlanFields ==
  ASSUME NEW in, NEW resolved, NEW policy, NEW plan, plan = planSystem(in, resolved, policy)
  PROVE  /\ plan.steps = planSteps(in.system.components, resolved, plan.sharedContracts)
         /\ plan.unsupported = unsupportedItems(in.system.components, resolved)
         /\ plan.unsupportedIntent = unsupportedIntent(in.system)
         /\ plan.sharedContracts = projectApiContracts(in.system)
         /\ plan.ownerWork = ownerWork(in.system.components, in.system.domains, plan.sharedContracts)
         /\ plan.proofObligations = proofObligations(in.system.components, resolved)
BY DEF planSystem

(* The plan of an accepted result.                                         *)
LEMMA PlanIsPlanned ==
  ASSUME CInv, accepted, result.plan # Null
  PROVE  result.plan = planSystem(input, result.resolved, result.policy)
BY AcceptedIsCompiled DEF planUnlessInvalid

(* What is compiled has the form its schema requires.                      *)
LEMMA SystemIsWellFormed == CInv => isSystem(input.system)
BY InputsAssumption DEF CInv

(* The resolution of one component.                                        *)
LEMMA ResolvedFields ==
  ASSUME CInv, accepted, NEW c \in DOMAIN input.system.components
  PROVE  LET component == input.system.components[c]
             resolved == result.resolved[c]
         IN  /\ resolved = resolveComponent(catalogOf(input), component)
             /\ \/ /\ resolved.status = "UNSUPPORTED"
                   /\ resolved.capabilities = <<>>
                \/ /\ resolved.status = "RESOLVED"
                   /\ resolved.capabilities =
                        [k \in DOMAIN component.capabilities |->
                           providerFor(catalogOf(input), component.capabilities[k], resolved.runtime)]
             /\ DOMAIN resolved.capabilities \subseteq DOMAIN component.capabilities
<1>1. PICK component : component = input.system.components[c]
  OBVIOUS
<1>2. PICK resolved : resolved = result.resolved[c]
  OBVIOUS
<1>3. resolved = resolveComponent(catalogOf(input), component)
  BY <1>1, <1>2, AcceptedIsCompiled DEF resolveSystem
<1>4. \/ /\ resolved.status = "UNSUPPORTED"
         /\ resolved.capabilities = <<>>
      \/ /\ resolved.status = "RESOLVED"
         /\ resolved.capabilities = [k \in DOMAIN component.capabilities |->
                                       providerFor(catalogOf(input), component.capabilities[k], resolved.runtime)]
  BY <1>3 DEF resolveComponent
<1>5. DOMAIN resolved.capabilities \subseteq DOMAIN component.capabilities
  BY <1>4
<1> QED
  BY <1>1, <1>2, <1>3, <1>4, <1>5

(* A component is listed as unsupported exactly when nothing realizes it,  *)
(* a capability exactly when nothing provides it.                          *)
LEMMA Listed ==
  ASSUME CInv, accepted, result.plan # Null, NEW c \in DOMAIN input.system.components
  PROVE  LET component == input.system.components[c]
             resolved == result.resolved[c]
         IN  /\ (\E u \in result.plan.unsupported : u[1] = c /\ u[2] = Null) <=> resolved.status = "UNSUPPORTED"
             /\ \A capability : capability # Null =>
                  ((\E u \in result.plan.unsupported : u[1] = c /\ u[2] = capability)
                   <=> \E k \in DOMAIN resolved.capabilities : /\ component.capabilities[k] = capability
                                                               /\ resolved.capabilities[k] = Null)
<1> DEFINE components == input.system.components
<1>1. result.plan.unsupported = unsupportedItems(components, result.resolved)
  BY PlanIsPlanned, PlanFields
<1>2. ASSUME NEW d \in DOMAIN components, NEW k \in DOMAIN result.resolved[d].capabilities
      PROVE  components[d].capabilities[k] # Null
  <2>1. k \in DOMAIN components[d].capabilities
    BY ResolvedFields
  <2> QED
    BY <2>1, SystemIsWellFormed DEF isSystem
<1>3. ASSUME NEW u
      PROVE  u \in result.plan.unsupported <=>
               \/ \E d \in DOMAIN components : \E code :
                    /\ result.resolved[d].status = "UNSUPPORTED"
                    /\ u = <<d, Null, code>>
                    /\ code = IF components[d].preferences = <<>> THEN "RESOLVE_NO_RUNTIME_PREFERENCE" ELSE "RESOLVE_NO_ADAPTER"
               \/ \E d \in DOMAIN components : \E k \in DOMAIN result.resolved[d].capabilities :
                    /\ result.resolved[d].capabilities[k] = Null
                    /\ u = <<d, components[d].capabilities[k], "RESOLVE_NO_CAPABILITY_PROVIDER">>
  BY <1>1 DEF unsupportedItems
<1>4. (\E u \in result.plan.unsupported : u[1] = c /\ u[2] = Null) <=> result.resolved[c].status = "UNSUPPORTED"
  <2>1. ASSUME result.resolved[c].status = "UNSUPPORTED"
        PROVE  \E u \in result.plan.unsupported : u[1] = c /\ u[2] = Null
    <3>1. PICK code : code = IF components[c].preferences = <<>> THEN "RESOLVE_NO_RUNTIME_PREFERENCE" ELSE "RESOLVE_NO_ADAPTER"
      OBVIOUS
    <3>2. <<c, Null, code>> \in result.plan.unsupported
      BY <1>3, <2>1, <3>1
    <3> QED
      BY <3>2
  <2>2. ASSUME NEW u \in result.plan.unsupported, u[1] = c, u[2] = Null
        PROVE  result.resolved[c].status = "UNSUPPORTED"
    BY <1>2, <1>3, <2>2
  <2> QED
    BY <2>1, <2>2
<1>5. ASSUME NEW capability, capability # Null
      PROVE  (\E u \in result.plan.unsupported : u[1] = c /\ u[2] = capability)
             <=> \E k \in DOMAIN result.resolved[c].capabilities : /\ components[c].capabilities[k] = capability
                                                                   /\ result.resolved[c].capabilities[k] = Null
  <2>1. ASSUME NEW u \in result.plan.unsupported, u[1] = c, u[2] = capability
        PROVE  \E k \in DOMAIN result.resolved[c].capabilities : /\ components[c].capabilities[k] = capability
                                                                 /\ result.resolved[c].capabilities[k] = Null
    BY <1>3, <1>5, <2>1
  <2>2. ASSUME NEW k \in DOMAIN result.resolved[c].capabilities,
               components[c].capabilities[k] = capability, result.resolved[c].capabilities[k] = Null
        PROVE  \E u \in result.plan.unsupported : u[1] = c /\ u[2] = capability
    <3>1. <<c, components[c].capabilities[k], "RESOLVE_NO_CAPABILITY_PROVIDER">> \in result.plan.unsupported
      BY <1>3, <2>2
    <3> QED
      BY <2>2, <3>1
  <2> QED
    BY <2>1, <2>2
<1> QED
  BY <1>4, <1>5

(* An operation that a component consumes is in the contract of the        *)
(* component it consumes it from, which names the consumer: what the       *)
(* contract set accepts is what the compiler projects                      *)
(* (crossValidateSystemDefinition against projectApiContract).             *)
THEOREM ConsumersAreServed == Spec => []ConsumersShareTheContract
<1>1. CInv => ConsumersShareTheContract
  <2> SUFFICES ASSUME CInv, accepted, result.plan # Null,
                      NEW c \in DOMAIN input.system.components, NEW edge \in input.system.components[c].consumes,
                      NEW text \in edge.operations
               PROVE  \E contract \in result.plan.sharedContracts :
                        /\ contract.provider = edge.component /\ c \in contract.consumers
                        /\ resolveItem(input.system.domains, text) \in contract.operations
    BY DEF ConsumersShareTheContract
  <2> DEFINE system == input.system
             p == edge.component
             item == resolveItem(system.domains, text)
  <2>1. p \in DOMAIN system.components /\ p # c
    BY ReferencesResolve
  <2>2. text \in consumedOperations(system.components[c])
    BY DEF consumedOperations
  <2>3. isOperation(system.domains, text)
    BY <2>2, ReferencesResolve DEF unknownItem
  <2>4. text \in system.components[p].implements
    BY <2>1, <2>3, ReferencesResolve DEF operationWithoutProvider
  <2>5. item \in operationItems(system.domains)
    BY <2>3 DEF isOperation
  <2>6. p \in implementedBy(system, item) /\ c \in consumedBy(system, item)
    BY <2>1, <2>2, <2>4 DEF implementedBy, consumedBy, resolvedItems
  <2>7. PICK contract \in projectApiContracts(system) :
          /\ contract.provider = p /\ item \in contract.operations
          /\ contract.consumers = (UNION {consumedBy(system, i) : i \in contract.operations}) \ {p}
    BY <2>1, <2>5, <2>6, ImplementedIsShared
  <2>8. contract \in result.plan.sharedContracts
    BY <2>7, PlanIsPlanned, PlanFields
  <2>9. c \in contract.consumers
    BY <2>1, <2>6, <2>7
  <2> QED
    BY <2>7, <2>8, <2>9
<1> QED
  BY <1>1, Compiled, PTL

(* An accepted functional requirement ends somewhere: of every component   *)
(* it is allocated to it is to be proved, unless that component is listed  *)
(* as unsupported, and it is reported when there is none                   *)
(* (crossValidateSystemDefinition, planSystem).                            *)
THEOREM RequirementsEndSomewhere == Spec => []RequirementsAreTraced
<1>1. CInv => RequirementsAreTraced
  <2> SUFFICES ASSUME CInv, accepted, result.plan # Null,
                      NEW requirement \in acceptedRequirements(input.system.baseline)
               PROVE  LET allocated == {c \in DOMAIN input.system.components :
                                          requirement \in input.system.components[c].requirements}
                      IN  /\ allocated = {} => "SYSTEM_REQUIREMENT_UNCOVERED" \in result.diagnostics
                          /\ \A c \in allocated :
                               (<<c, requirement>> \in result.plan.proofObligations)
                               # (\E u \in result.plan.unsupported : u[1] = c /\ u[2] = Null)
    BY DEF RequirementsAreTraced
  <2> DEFINE components == input.system.components
  <2>1. ASSUME \A c \in DOMAIN components : requirement \notin components[c].requirements
        PROVE  "SYSTEM_REQUIREMENT_UNCOVERED" \in result.diagnostics
    <3>1. requirement \notin UNION {component.requirements : component \in Range(components)}
      BY <2>1 DEF Range
    <3>2. "SYSTEM_REQUIREMENT_UNCOVERED" \in crossValidateSystemDefinition(input.system)
      BY <3>1 DEF crossValidateSystemDefinition
    <3>3. "SYSTEM_REQUIREMENT_UNCOVERED" \in documentDiagnostics(input)
      BY <3>2 DEF documentDiagnostics, systemDiagnostics
    <3> QED
      BY <3>3, AcceptedIsCompiled DEF codesOf
  <2>2. ASSUME NEW c \in DOMAIN components, requirement \in components[c].requirements
        PROVE  (<<c, requirement>> \in result.plan.proofObligations)
               # (\E u \in result.plan.unsupported : u[1] = c /\ u[2] = Null)
    <3>1. /\ result.plan.proofObligations = proofObligations(components, result.resolved)
          /\ result.plan.unsupported = unsupportedItems(components, result.resolved)
      BY PlanIsPlanned, PlanFields
    <3>2. <<c, requirement>> \in result.plan.proofObligations <=> result.resolved[c].status = "RESOLVED"
      BY <2>2, <3>1 DEF proofObligations
    <3>3. (\E u \in result.plan.unsupported : u[1] = c /\ u[2] = Null) <=> result.resolved[c].status = "UNSUPPORTED"
      BY <2>2, Listed
    <3>4. result.resolved[c].status \in {"RESOLVED", "UNSUPPORTED"}
      BY <2>2, ResolvedFields
    <3> QED
      BY <3>2, <3>3, <3>4
  <2> QED
    BY <2>1, <2>2
<1> QED
  BY <1>1, Compiled, PTL

(* A plan never hides what it cannot do: every component has a step or is  *)
(* listed, every capability of a planned one is bound or listed, and       *)
(* PLANNED means nothing is missing (planSystem, resolveSystem).           *)
THEOREM PlansHideNothing == Spec => []NothingDropped
<1>1. CInv => NothingDropped
  <2> SUFFICES ASSUME CInv, accepted, result.plan # Null PROVE NothingDropped
    BY DEF NothingDropped
  <2> DEFINE plan == result.plan
             components == input.system.components
             planned == {s.component : s \in {t \in plan.steps : t.action # "BIND_CAPABILITY"}}
             listed == {u[1] : u \in {v \in plan.unsupported : v[2] = Null}}
             resolved == result.resolved
  <2>1. /\ plan.steps = planSteps(components, resolved, plan.sharedContracts)
        /\ plan.unsupported = unsupportedItems(components, resolved)
        /\ plan.unsupportedIntent = unsupportedIntent(input.system)
    BY PlanIsPlanned, PlanFields
  <2>2. planned = {c \in DOMAIN components : resolved[c].status = "RESOLVED"}
    <3>1. PICK step : step = [c \in DOMAIN components |->
                 [action |-> IF components[c].class = "EXTERNAL" THEN "CONNECT_EXTERNAL" ELSE "MATERIALIZE",
                  component |-> c, with |-> resolved[c].adapter,
                  contracts |-> {contract \in plan.sharedContracts : contract.provider = c}]]
      OBVIOUS
    <3>2. \A c \in DOMAIN components : step[c].component = c /\ step[c].action # "BIND_CAPABILITY"
      BY <3>1
    <3>3. {t \in plan.steps : t.action # "BIND_CAPABILITY"}
          = {step[c] : c \in {d \in DOMAIN components : resolved[d].status = "RESOLVED"}}
      <4>1. ASSUME NEW t
            PROVE  t \in plan.steps <=>
                     \/ \E c \in DOMAIN components : resolved[c].status = "RESOLVED" /\ t = step[c]
                     \/ \E c \in DOMAIN components : \E k \in DOMAIN resolved[c].capabilities :
                          /\ resolved[c].status = "RESOLVED" /\ resolved[c].capabilities[k] # Null
                          /\ t = [action |-> "BIND_CAPABILITY", component |-> c,
                                  capability |-> components[c].capabilities[k], with |-> resolved[c].capabilities[k]]
        BY <2>1, <3>1 DEF planSteps
      <4> QED
        BY <3>2, <4>1
    <3> HIDE DEF plan, components, resolved
    <3> QED
      BY <3>2, <3>3
  <2>3. listed = {c \in DOMAIN components : resolved[c].status = "UNSUPPORTED"}
    <3>1. \A u \in plan.unsupported : u[1] \in DOMAIN components
      BY <2>1 DEF unsupportedItems
    <3> QED
      BY <3>1, Listed
  <2>4. \A c \in DOMAIN components : resolved[c].status \in {"RESOLVED", "UNSUPPORTED"}
    BY ResolvedFields
  <2>5. planned \union listed = DOMAIN components /\ planned \intersect listed = {}
    BY <2>2, <2>3, <2>4
  <2>6. ASSUME NEW c \in planned, NEW k \in DOMAIN components[c].capabilities,
               NEW capability, capability = components[c].capabilities[k]
        PROVE  (\E s \in plan.steps : s.action = "BIND_CAPABILITY" /\ s.component = c /\ s.capability = capability)
               # (\E u \in plan.unsupported : u[1] = c /\ u[2] = capability)
    <3>1. c \in DOMAIN components /\ resolved[c].status = "RESOLVED"
      BY <2>2
    <3>2. capability # Null
      BY <2>6, <3>1, SystemIsWellFormed DEF isSystem
    <3>3. resolved[c].capabilities = [n \in DOMAIN components[c].capabilities |->
                                        providerFor(catalogOf(input), components[c].capabilities[n], resolved[c].runtime)]
      BY <3>1, ResolvedFields
    <3>4. (\E u \in plan.unsupported : u[1] = c /\ u[2] = capability)
          <=> providerFor(catalogOf(input), capability, resolved[c].runtime) = Null
      <4>1. (\E u \in plan.unsupported : u[1] = c /\ u[2] = capability)
            <=> \E n \in DOMAIN resolved[c].capabilities : /\ components[c].capabilities[n] = capability
                                                            /\ resolved[c].capabilities[n] = Null
        BY <3>1, <3>2, Listed
      <4> QED
        BY <2>6, <3>3, <4>1
    <3>5. (\E s \in plan.steps : s.action = "BIND_CAPABILITY" /\ s.component = c /\ s.capability = capability)
          <=> providerFor(catalogOf(input), capability, resolved[c].runtime) # Null
      <4>1. ASSUME NEW s \in plan.steps, s.action = "BIND_CAPABILITY", s.component = c, s.capability = capability
            PROVE  providerFor(catalogOf(input), capability, resolved[c].runtime) # Null
        <5>1. PICK d \in DOMAIN components : \E n \in DOMAIN resolved[d].capabilities :
                /\ resolved[d].capabilities[n] # Null
                /\ s = [action |-> "BIND_CAPABILITY", component |-> d,
                        capability |-> components[d].capabilities[n], with |-> resolved[d].capabilities[n]]
          BY <2>1, <4>1 DEF planSteps
        <5> QED
          BY <3>3, <4>1, <5>1
      <4>2. ASSUME providerFor(catalogOf(input), capability, resolved[c].runtime) # Null
            PROVE  \E s \in plan.steps : s.action = "BIND_CAPABILITY" /\ s.component = c /\ s.capability = capability
        <5>1. PICK s : s = [action |-> "BIND_CAPABILITY", component |-> c,
                            capability |-> components[c].capabilities[k], with |-> resolved[c].capabilities[k]]
          OBVIOUS
        <5>2. k \in DOMAIN resolved[c].capabilities /\ resolved[c].capabilities[k] # Null
          BY <2>6, <3>3, <4>2
        <5>3. s \in plan.steps
          BY <2>1, <3>1, <5>1, <5>2 DEF planSteps
        <5> QED
          BY <2>6, <5>1, <5>3
      <4> QED
        BY <4>1, <4>2
    <3> QED
      BY <3>4, <3>5
  <2>7. result.status = "PLANNED" => plan.unsupported = {} /\ plan.unsupportedIntent = {}
    BY <2>1, AcceptedIsCompiled DEF statusOf
  <2> QED
    BY <2>5, <2>6, <2>7 DEF NothingDropped
<1> QED
  BY <1>1, Compiled, PTL

(* Every invariant of a Domain Contract applies to something that is named *)
(* differently from the operations of the contract, so that its providers  *)
(* enforce it (ownerWork, plan.ts:67).                                     *)
InvariantsApplyToTypes ==
  \A domain \in Range(input.system.domains) : \A i \in DOMAIN domain.invariants :
    \E type \in domain.invariants[i] : type \notin DOMAIN domain.emits

(* An event is published when an operation that emits it is implemented.   *)
LEMMA EmittedIsPublished ==
  ASSUME NEW system, NEW c \in DOMAIN system.components, NEW item \in operationItems(system.domains),
         c \in implementedBy(system, item), NEW e \in system.domains[item[1]].emits[item[2]]
  PROVE  <<<<item[1], e>>, "IR_EVENT_UNPUBLISHED">> \notin unsupportedIntent(system)
<1>1. item \in emitters(system.domains, <<item[1], e>>)
  BY DEF emitters
<1>2. c \in publishedBy(system, <<item[1], e>>)
  BY <1>1 DEF publishedBy
<1> QED
  BY <1>2 DEF unsupportedIntent

(* An event that a component waits for is published.                       *)
LEMMA AwaitedIsPublished ==
  ASSUME NEW system, ~ unknownItem(system), ~ eventWithoutProducer(system),
         NEW c \in DOMAIN system.components, NEW text \in system.components[c].subscribes
  PROVE  <<resolveItem(system.domains, text), "IR_EVENT_UNPUBLISHED">> \notin unsupportedIntent(system)
<1> DEFINE event == resolveItem(system.domains, text)
<1>1. isEvent(system.domains, text)
  BY DEF unknownItem
<1>2. text \in published(system)
  BY <1>1 DEF eventWithoutProducer
<1>3. PICK p \in DOMAIN system.components :
        \/ text \in system.components[p].publishes
        \/ \E t \in system.components[p].implements :
             /\ isOperation(system.domains, t)
             /\ \E e \in system.domains[pinned(system.domains, t[1])].emits[t[2]] : text = <<t[1], e>>
  BY <1>2 DEF published, Range
<1>4. CASE text \in system.components[p].publishes
  <2>1. p \in publishedBy(system, event)
    BY <1>4 DEF publishedBy, resolvedItems
  <2> QED
    BY <2>1 DEF unsupportedIntent
<1>5. ASSUME NEW t \in system.components[p].implements, isOperation(system.domains, t),
             NEW e \in system.domains[pinned(system.domains, t[1])].emits[t[2]], text = <<t[1], e>>
      PROVE  <<event, "IR_EVENT_UNPUBLISHED">> \notin unsupportedIntent(system)
  <2>1. PICK item : item = resolveItem(system.domains, t)
    OBVIOUS
  <2>2. item \in operationItems(system.domains) /\ item[1] = pinned(system.domains, t[1]) /\ item[2] = t[2]
    BY <1>5, <2>1 DEF isOperation, resolveItem
  <2>3. p \in implementedBy(system, item)
    BY <2>1 DEF implementedBy, resolvedItems
  <2>4. event = <<item[1], e>>
    BY <1>5, <2>2 DEF resolveItem
  <2> QED
    BY <1>5, <2>2, <2>3, <2>4, EmittedIsPublished
<1> QED
  BY <1>3, <1>4, <1>5

(* No domain intent is lost: an operation is in some shared contract, and  *)
(* then someone's work, or listed as unsupported; an event that a          *)
(* component waits for or that a shared operation emits is not listed; a   *)
(* provider enforces every invariant of its domain (ir.ts, planSystem).    *)
THEOREM IntentSurvives == Spec => [](InvariantsApplyToTypes => DomainIntentIsKept)
<1>1. CInv => (InvariantsApplyToTypes => DomainIntentIsKept)
  <2> SUFFICES ASSUME CInv, InvariantsApplyToTypes, accepted, result.plan # Null PROVE DomainIntentIsKept
    BY DEF DomainIntentIsKept
  <2> DEFINE plan == result.plan
             system == input.system
             domains == system.domains
             unpublished == {u[1] : u \in {v \in plan.unsupportedIntent : v[2] = "IR_EVENT_UNPUBLISHED"}}
  <2>1. /\ plan.sharedContracts = projectApiContracts(system)
        /\ plan.unsupportedIntent = unsupportedIntent(system)
        /\ plan.ownerWork = ownerWork(system.components, domains, plan.sharedContracts)
    BY PlanIsPlanned, PlanFields
  <2>2. ASSUME NEW item, item \in unpublished
        PROVE  <<item, "IR_EVENT_UNPUBLISHED">> \in unsupportedIntent(system)
    <3>1. PICK v \in unsupportedIntent(system) : v[2] = "IR_EVENT_UNPUBLISHED" /\ v[1] = item
      BY <2>1, <2>2
    <3>2. v = <<v[1], v[2]>>
      BY DEF unsupportedIntent
    <3> QED
      BY <3>1, <3>2
  <2>3. ASSUME NEW item \in operationItems(domains)
        PROVE  (\E x \in plan.sharedContracts : item \in x.operations)
               # (<<item, "IR_OPERATION_UNIMPLEMENTED">> \in plan.unsupportedIntent)
    <3>1. (<<item, "IR_OPERATION_UNIMPLEMENTED">> \in plan.unsupportedIntent) <=> implementedBy(system, item) = {}
      BY <2>1, <2>3 DEF unsupportedIntent
    <3>2. ASSUME implementedBy(system, item) # {}
          PROVE  \E x \in plan.sharedContracts : item \in x.operations
      <4>1. PICK c \in DOMAIN system.components : c \in implementedBy(system, item)
        BY <3>2 DEF implementedBy
      <4> QED
        BY <2>1, <2>3, <4>1, ImplementedIsShared
    <3>3. ASSUME NEW x \in plan.sharedContracts, item \in x.operations
          PROVE  implementedBy(system, item) # {}
      BY <2>1, <3>3, SharedIsImplemented
    <3> QED
      BY <3>1, <3>2, <3>3
  <2>4. ASSUME NEW component \in Range(system.components), NEW text \in component.subscribes
        PROVE  resolveItem(domains, text) \notin unpublished
    <3>1. PICK c \in DOMAIN system.components : component = system.components[c]
      BY DEF Range
    <3>2. <<resolveItem(domains, text), "IR_EVENT_UNPUBLISHED">> \notin unsupportedIntent(system)
      BY <3>1, AwaitedIsPublished, ReferencesResolve
    <3> QED
      BY <2>2, <3>2
  <2>5. ASSUME NEW x \in plan.sharedContracts, NEW item \in x.operations
        PROVE  /\ [work |-> "IMPLEMENT_OPERATION", component |-> x.provider, item |-> item] \in plan.ownerWork
               /\ \A e \in domains[x.domain].emits[item[2]] : <<x.domain, e>> \notin unpublished
    <3>1. [work |-> "IMPLEMENT_OPERATION", component |-> x.provider, item |-> item] \in plan.ownerWork
      BY <2>1 DEF ownerWork
    <3>2. /\ x.provider \in DOMAIN system.components /\ item \in operationItems(domains) /\ item[1] = x.domain
          /\ x.provider \in implementedBy(system, item)
      BY <2>1, SharedIsImplemented
    <3>3. \A e \in domains[x.domain].emits[item[2]] : <<x.domain, e>> \notin unpublished
      BY <2>2, <3>2, EmittedIsPublished
    <3> QED
      BY <3>1, <3>3
  <2>6. ASSUME NEW x \in plan.sharedContracts, NEW i \in DOMAIN domains[x.domain].invariants
        PROVE  [work |-> "ENFORCE_INVARIANT", component |-> x.provider, item |-> <<x.domain, i>>] \in plan.ownerWork
    <3>1. x.domain \in DOMAIN domains
      BY <2>1, SharedIsImplemented
    <3>2. i \in enforced(domains, x)
      BY <3>1 DEF InvariantsApplyToTypes, Range, enforced
    <3> QED
      BY <2>1, <3>2 DEF ownerWork
  <2> QED
    BY <2>3, <2>4, <2>5, <2>6 DEF DomainIntentIsKept
<1> QED
  BY <1>1, Compiled, PTL

(***************************************************************************)
(* Catalogs.                                                               *)
(***************************************************************************)

(* A function on an initial interval is a list.                            *)
LEMMA IntervalIsList ==
  ASSUME NEW S, NEW n \in Nat, NEW f \in [1 .. n -> S]
  PROVE  f \in Seq(S) /\ Len(f) = n /\ DOMAIN f = 1 .. n
OBVIOUS

(* Min and Max of a set of positions.                                      *)
LEMMA FirstIsLeast ==
  ASSUME NEW I \in SUBSET Nat, I # {}
  PROVE  Min(I) \in I /\ \A j \in I : Min(I) <= j
<1>1. \E i \in I : \A j \in I : i <= j
  BY LeastElement
<1> QED
  BY <1>1 DEF Min

LEMMA LastIsGreatest ==
  ASSUME NEW n \in Nat, NEW I \in SUBSET (1 .. n), I # {}
  PROVE  Max(I) \in I /\ \A j \in I : j <= Max(I)
<1>1. \A j \in I : j \in Nat /\ j <= n
  OBVIOUS
<1>2. I \in SUBSET Nat
  BY <1>1
<1>3. \E i \in I : \A j \in I : j <= i
  BY <1>1, <1>2, GreatestElement
<1>4. \E i \in I : \A j \in I : i >= j
  BY <1>1, <1>3
<1> QED
  BY <1>1, <1>4 DEF Max

(* The preference that is selected.                                        *)
LEMMA SelectedIs ==
  ASSUME NEW catalog, NEW component, isList(component.preferences),
         NEW i, i = selected(catalog, component)
  PROVE  \/ /\ i = 0
            /\ \A j \in DOMAIN component.preferences : ~ supports(catalog, component.kind, component.preferences[j])
         \/ /\ i \in DOMAIN component.preferences
            /\ supports(catalog, component.kind, component.preferences[i])
            /\ \A j \in 1 .. i - 1 : ~ supports(catalog, component.kind, component.preferences[j])
<1> DEFINE list == component.preferences
           I == {j \in 1 .. Len(list) : supports(catalog, component.kind, list[j])}
<1>1. DOMAIN list = 1 .. Len(list) /\ Len(list) \in Nat
  BY DEF isList
<1>2. i = IF I # {} THEN Min(I) ELSE 0
  BY DEF selected, SelectInSeq
<1>3. CASE I = {}
  BY <1>1, <1>2, <1>3
<1>4. CASE I # {}
  <2>1. i \in I /\ \A j \in I : i <= j
    <3>1. I \in SUBSET Nat
      OBVIOUS
    <3> QED
      BY <1>2, <1>4, <3>1, FirstIsLeast
  <2> QED
    BY <1>1, <2>1
<1> QED
  BY <1>3, <1>4

(* Without overlaps it does not matter which descriptor is found.          *)
LEMMA AdapterFor ==
  ASSUME NEW catalog, isCatalog(catalog), ~ overlapping(catalog), NEW kind, NEW runtime,
         NEW i \in DOMAIN catalog.adapters, covers(catalog.adapters[i], kind, runtime)
  PROVE  adapterFor(catalog, kind, runtime) = catalog.adapters[i].id
<1> DEFINE list == catalog.adapters
           I == {j \in 1 .. Len(list) : covers(list[j], kind, runtime)}
<1>1. DOMAIN list = 1 .. Len(list)
  BY DEF isList, isCatalog
<1>2. i \in I /\ I \in SUBSET Nat
  BY <1>1
<1>3. PICK f \in I : f = Min(I)
  BY <1>2, FirstIsLeast
<1>4. adapterFor(catalog, kind, runtime) = list[f].id
  BY <1>2, <1>3 DEF adapterFor, SelectInSeq
<1>5. f = i
  <2>1. f \in DOMAIN list /\ covers(list[f], kind, runtime) /\ f \in Nat /\ i \in Nat
    BY <1>1, <1>2, <1>3
  <2>2. ~ (f < i) /\ ~ (i < f)
    BY <2>1 DEF overlapping, covers
  <2> QED
    BY <2>1, <2>2
<1> QED
  BY <1>4, <1>5

LEMMA ProviderFor ==
  ASSUME NEW catalog, isCatalog(catalog), ~ overlapping(catalog), NEW capability, NEW runtime
  PROVE  /\ \A i \in DOMAIN catalog.providers :
              provides(catalog.providers[i], capability, runtime) =>
                providerFor(catalog, capability, runtime) = catalog.providers[i].id
         /\ (\A i \in DOMAIN catalog.providers : ~ provides(catalog.providers[i], capability, runtime)) =>
              providerFor(catalog, capability, runtime) = Null
<1> DEFINE list == catalog.providers
           I == {j \in 1 .. Len(list) : provides(list[j], capability, runtime)}
<1>1. DOMAIN list = 1 .. Len(list) /\ Len(list) \in Nat
  BY DEF isList, isCatalog
<1>2. ASSUME NEW i \in DOMAIN list, provides(list[i], capability, runtime)
      PROVE  providerFor(catalog, capability, runtime) = list[i].id
  <2>1. i \in I /\ I \in SUBSET Nat
    BY <1>1, <1>2
  <2>2. PICK f \in I : f = Min(I)
    BY <2>1, FirstIsLeast
  <2>3. f \in DOMAIN list /\ provides(list[f], capability, runtime) /\ f \in Nat /\ i \in Nat /\ f # 0
    BY <1>1, <1>2, <2>2
  <2>4. providerFor(catalog, capability, runtime) = list[f].id
    BY <2>1, <2>2, <2>3 DEF providerFor, SelectInSeq
  <2>5. ~ (f < i) /\ ~ (i < f)
    BY <1>2, <2>3 DEF overlapping, provides
  <2> QED
    BY <2>3, <2>4, <2>5
<1>3. ASSUME \A i \in DOMAIN list : ~ provides(list[i], capability, runtime)
      PROVE  providerFor(catalog, capability, runtime) = Null
  <2>1. I = {}
    BY <1>1, <1>3
  <2> QED
    BY <2>1 DEF providerFor, SelectInSeq
<1> QED
  BY <1>2, <1>3

(* The order of two descriptors of a list the other way round.             *)
LEMMA Reversed ==
  ASSUME NEW list, isList(list)
  PROVE  /\ isList(Reverse(list)) /\ DOMAIN Reverse(list) = DOMAIN list
         /\ \A i \in DOMAIN list : /\ Len(list) - i + 1 \in DOMAIN list
                                   /\ Reverse(list)[Len(list) - i + 1] = list[i]
                                   /\ Reverse(list)[i] = list[Len(list) - i + 1]
<1>1. DOMAIN list = 1 .. Len(list) /\ Len(list) \in Nat
  BY DEF isList
<1>2. DOMAIN Reverse(list) = DOMAIN list
  BY <1>1 DEF Reverse
<1>3. ASSUME NEW i \in DOMAIN list
      PROVE  /\ Len(list) - i + 1 \in DOMAIN list
             /\ Reverse(list)[i] = list[Len(list) - i + 1]
  BY <1>1 DEF Reverse
<1>4. ASSUME NEW i \in DOMAIN list PROVE Reverse(list)[Len(list) - i + 1] = list[i]
  <2>1. Len(list) - (Len(list) - i + 1) + 1 = i
    BY <1>1
  <2> QED
    BY <1>3, <2>1
<1>5. isList(Reverse(list))
  <2>1. Reverse(list) \in [1 .. Len(list) -> Range(Reverse(list))]
    BY <1>1, <1>2 DEF Reverse, Range
  <2> QED
    BY <1>1, <2>1, IntervalIsList DEF isList
<1> QED
  BY <1>2, <1>3, <1>4, <1>5

(* A catalog without overlaps resolves a system alike when it is read the  *)
(* other way round.                                                        *)
LEMMA ReversedCatalog ==
  ASSUME NEW catalog, isCatalog(catalog), ~ overlapping(catalog),
         NEW reversed, reversed = [adapters |-> Reverse(catalog.adapters), providers |-> Reverse(catalog.providers)],
         NEW component, isList(component.preferences)
  PROVE  resolveComponent(reversed, component) = resolveComponent(catalog, component)
<1>1. /\ DOMAIN reversed.adapters = DOMAIN catalog.adapters
      /\ DOMAIN reversed.providers = DOMAIN catalog.providers
      /\ \A i \in DOMAIN catalog.adapters :
           /\ Len(catalog.adapters) - i + 1 \in DOMAIN catalog.adapters
           /\ reversed.adapters[Len(catalog.adapters) - i + 1] = catalog.adapters[i]
           /\ reversed.adapters[i] = catalog.adapters[Len(catalog.adapters) - i + 1]
      /\ \A i \in DOMAIN catalog.providers :
           /\ Len(catalog.providers) - i + 1 \in DOMAIN catalog.providers
           /\ reversed.providers[Len(catalog.providers) - i + 1] = catalog.providers[i]
           /\ reversed.providers[i] = catalog.providers[Len(catalog.providers) - i + 1]
  BY Reversed DEF isCatalog
<1>2. /\ DOMAIN catalog.adapters = 1 .. Len(catalog.adapters) /\ Len(catalog.adapters) \in Nat
      /\ DOMAIN catalog.providers = 1 .. Len(catalog.providers) /\ Len(catalog.providers) \in Nat
  BY DEF isCatalog, isList
<1>3. isCatalog(reversed)
  <2>1. isList(reversed.adapters) /\ isList(reversed.providers)
    BY Reversed DEF isCatalog
  <2>2. ASSUME NEW i \in DOMAIN reversed.adapters PROVE reversed.adapters[i].id # Null
    <3>1. PICK j \in DOMAIN catalog.adapters : reversed.adapters[i] = catalog.adapters[j]
      BY <1>1
    <3> QED
      BY <3>1 DEF isCatalog
  <2>3. ASSUME NEW i \in DOMAIN reversed.providers PROVE reversed.providers[i].id # Null
    <3>1. PICK j \in DOMAIN catalog.providers : reversed.providers[i] = catalog.providers[j]
      BY <1>1
    <3> QED
      BY <3>1 DEF isCatalog
  <2> QED
    BY <2>1, <2>2, <2>3 DEF isCatalog
<1>4. ~ overlapping(reversed)
  <2>1. ASSUME NEW i \in DOMAIN reversed.adapters, NEW j \in DOMAIN reversed.adapters, i < j,
               NEW kind \in reversed.adapters[i].kinds, covers(reversed.adapters[j], kind, reversed.adapters[i].runtime)
        PROVE  FALSE
    <3>1. PICK a \in DOMAIN catalog.adapters, b \in DOMAIN catalog.adapters :
            /\ b < a /\ reversed.adapters[i] = catalog.adapters[a] /\ reversed.adapters[j] = catalog.adapters[b]
      <4>1. Len(catalog.adapters) - j + 1 < Len(catalog.adapters) - i + 1
        BY <1>1, <1>2, <2>1
      <4> QED
        BY <1>1, <4>1
    <3> QED
      BY <2>1, <3>1 DEF overlapping, covers
  <2>2. ASSUME NEW i \in DOMAIN reversed.providers, NEW j \in DOMAIN reversed.providers, i < j,
               NEW runtime \in reversed.providers[i].runtimes, provides(reversed.providers[j], reversed.providers[i].capability, runtime)
        PROVE  FALSE
    <3>1. PICK a \in DOMAIN catalog.providers, b \in DOMAIN catalog.providers :
            /\ b < a /\ reversed.providers[i] = catalog.providers[a] /\ reversed.providers[j] = catalog.providers[b]
      <4>1. Len(catalog.providers) - j + 1 < Len(catalog.providers) - i + 1
        BY <1>1, <1>2, <2>2
      <4> QED
        BY <1>1, <4>1
    <3> QED
      BY <2>2, <3>1 DEF overlapping, provides
  <2> QED
    BY <2>1, <2>2 DEF overlapping
<1>5. ASSUME NEW runtime PROVE supports(reversed, component.kind, runtime) <=> supports(catalog, component.kind, runtime)
  BY <1>1 DEF supports
<1>6. selected(reversed, component) = selected(catalog, component)
  <2>1. PICK i : i = selected(catalog, component)
    OBVIOUS
  <2>2. PICK j : j = selected(reversed, component)
    OBVIOUS
  <2>3. DOMAIN component.preferences \subseteq Nat \ {0} /\ \A k \in DOMAIN component.preferences : \A l \in 1 .. k - 1 : l \in DOMAIN component.preferences
    BY DEF isList
  <2>4. \/ /\ i = 0
           /\ \A k \in DOMAIN component.preferences : ~ supports(catalog, component.kind, component.preferences[k])
        \/ /\ i \in DOMAIN component.preferences
           /\ supports(catalog, component.kind, component.preferences[i])
           /\ \A k \in 1 .. i - 1 : ~ supports(catalog, component.kind, component.preferences[k])
    BY <2>1, SelectedIs
  <2>5. \/ /\ j = 0
           /\ \A k \in DOMAIN component.preferences : ~ supports(catalog, component.kind, component.preferences[k])
        \/ /\ j \in DOMAIN component.preferences
           /\ supports(catalog, component.kind, component.preferences[j])
           /\ \A k \in 1 .. j - 1 : ~ supports(catalog, component.kind, component.preferences[k])
    BY <1>5, <2>2, SelectedIs
  <2>6. CASE i = 0 \/ j = 0
    BY <2>1, <2>2, <2>3, <2>4, <2>5, <2>6
  <2>7. CASE i # 0 /\ j # 0
    <3>1. i \notin 1 .. j - 1 /\ j \notin 1 .. i - 1 /\ i \in Nat \ {0} /\ j \in Nat \ {0}
      BY <2>3, <2>4, <2>5, <2>7
    <3> QED
      BY <2>1, <2>2, <3>1
  <2> QED
    BY <2>6, <2>7
<1>7. ASSUME NEW runtime, supports(catalog, component.kind, runtime)
      PROVE  adapterFor(reversed, component.kind, runtime) = adapterFor(catalog, component.kind, runtime)
  <2>1. PICK i \in DOMAIN catalog.adapters : covers(catalog.adapters[i], component.kind, runtime)
    BY <1>7 DEF supports
  <2>2. PICK j \in DOMAIN reversed.adapters : reversed.adapters[j] = catalog.adapters[i]
    BY <1>1
  <2> QED
    BY <1>3, <1>4, <2>1, <2>2, AdapterFor
<1>8. ASSUME NEW runtime, NEW capability
      PROVE  providerFor(reversed, capability, runtime) = providerFor(catalog, capability, runtime)
  <2>1. ASSUME NEW i \in DOMAIN catalog.providers, provides(catalog.providers[i], capability, runtime)
        PROVE  providerFor(reversed, capability, runtime) = providerFor(catalog, capability, runtime)
    <3>1. PICK j \in DOMAIN reversed.providers : reversed.providers[j] = catalog.providers[i]
      BY <1>1
    <3>2. provides(reversed.providers[j], capability, runtime)
      BY <2>1, <3>1
    <3> QED
      BY <1>3, <1>4, <2>1, <3>1, <3>2, ProviderFor
  <2>2. ASSUME \A i \in DOMAIN catalog.providers : ~ provides(catalog.providers[i], capability, runtime)
        PROVE  providerFor(reversed, capability, runtime) = providerFor(catalog, capability, runtime)
    <3>1. \A i \in DOMAIN reversed.providers : ~ provides(reversed.providers[i], capability, runtime)
      BY <1>1, <2>2
    <3> QED
      BY <1>3, <1>4, <2>2, <3>1, ProviderFor
  <2> QED
    BY <2>1, <2>2
<1>9. CASE selected(catalog, component) = 0
  BY <1>6, <1>9 DEF resolveComponent
<1>10. CASE selected(catalog, component) # 0
  <2>1. PICK runtime : runtime = component.preferences[selected(catalog, component)]
    OBVIOUS
  <2>2. supports(catalog, component.kind, runtime)
    BY <1>10, <2>1, SelectedIs
  <2> QED
    BY <1>6, <1>7, <1>8, <1>10, <2>1, <2>2 DEF resolveComponent
<1> QED
  BY <1>9, <1>10

(* The order of the ids of manifests.                                      *)
LEMMA PrefixOf ==
  ASSUME NEW a \in Seq(Nat), NEW b \in Seq(Nat)
  PROVE  /\ IsPrefix(a, b) <=> Len(a) <= Len(b) /\ \A i \in 1 .. Len(a) : a[i] = b[i]
         /\ \A n \in DOMAIN a \intersect DOMAIN b :
              SubSeq(a, 1, n - 1) = SubSeq(b, 1, n - 1) <=> \A i \in 1 .. n - 1 : a[i] = b[i]
<1>1. /\ DOMAIN a = 1 .. Len(a) /\ Len(a) \in Nat
      /\ DOMAIN b = 1 .. Len(b) /\ Len(b) \in Nat
  OBVIOUS
<1>2. ASSUME NEW n \in Nat, n <= Len(a), n <= Len(b)
      PROVE  SubSeq(a, 1, n) = SubSeq(b, 1, n) <=> \A i \in 1 .. n : a[i] = b[i]
  <2>1. SubSeq(a, 1, n) = [i \in 1 .. n |-> a[i]] /\ SubSeq(b, 1, n) = [i \in 1 .. n |-> b[i]]
    BY <1>1, <1>2
  <2> QED
    BY <2>1
<1>3. IsPrefix(a, b) <=> Len(a) <= Len(b) /\ \A i \in 1 .. Len(a) : a[i] = b[i]
  BY <1>1, <1>2 DEF IsPrefix
<1>4. ASSUME NEW n \in DOMAIN a \intersect DOMAIN b
      PROVE  SubSeq(a, 1, n - 1) = SubSeq(b, 1, n - 1) <=> \A i \in 1 .. n - 1 : a[i] = b[i]
  <2>1. n - 1 \in Nat /\ n - 1 <= Len(a) /\ n - 1 <= Len(b)
    BY <1>1
  <2> QED
    BY <1>2, <2>1
<1> QED
  BY <1>3, <1>4

LEMMA IdsAreOrdered ==
  ASSUME NEW a \in Seq(Nat), NEW b \in Seq(Nat)
  PROVE  /\ ~ idBefore(a, a)
         /\ a = b \/ idBefore(a, b) \/ idBefore(b, a)
         /\ \A c \in Seq(Nat) : idBefore(a, b) /\ idBefore(b, c) => idBefore(a, c)
<1> DEFINE differ(s, t, n) == n \in 1 .. Len(s) /\ n \in 1 .. Len(t) /\ (\A i \in 1 .. n - 1 : s[i] = t[i]) /\ s[n] < t[n]
           shorter(s, t) == Len(s) < Len(t) /\ \A i \in 1 .. Len(s) : s[i] = t[i]
<1>1. ASSUME NEW s \in Seq(Nat), NEW t \in Seq(Nat)
      PROVE  idBefore(s, t) <=> shorter(s, t) \/ \E n \in Nat : differ(s, t, n)
  <2>1. DOMAIN s = 1 .. Len(s) /\ DOMAIN t = 1 .. Len(t) /\ Len(s) \in Nat /\ Len(t) \in Nat
    OBVIOUS
  <2>2. (Len(s) < Len(t) /\ IsPrefix(s, t)) <=> shorter(s, t)
    <3>1. IsPrefix(s, t) <=> Len(s) <= Len(t) /\ \A i \in 1 .. Len(s) : s[i] = t[i]
      BY PrefixOf
    <3> QED
      BY <2>1, <3>1
  <2>3. (\E n \in DOMAIN s \intersect DOMAIN t : SubSeq(s, 1, n - 1) = SubSeq(t, 1, n - 1) /\ s[n] < t[n])
        <=> \E n \in Nat : differ(s, t, n)
    <3>1. ASSUME NEW n \in DOMAIN s \intersect DOMAIN t
          PROVE  SubSeq(s, 1, n - 1) = SubSeq(t, 1, n - 1) /\ s[n] < t[n] <=> differ(s, t, n)
      <4>1. SubSeq(s, 1, n - 1) = SubSeq(t, 1, n - 1) <=> \A i \in 1 .. n - 1 : s[i] = t[i]
        BY PrefixOf
      <4> QED
        BY <2>1, <4>1
    <3>2. \A n \in Nat : differ(s, t, n) => n \in DOMAIN s \intersect DOMAIN t
      BY <2>1
    <3>3. DOMAIN s \intersect DOMAIN t \subseteq Nat
      BY <2>1
    <3> HIDE DEF differ
    <3> QED
      BY <3>1, <3>2, <3>3
  <2> QED
    BY <2>2, <2>3 DEF idBefore
<1>2. ASSUME NEW s \in Seq(Nat) PROVE Len(s) \in Nat /\ \A i \in 1 .. Len(s) : s[i] \in Nat
  OBVIOUS
<1>3. ~ idBefore(a, a)
  BY <1>1, <1>2
<1>4. a = b \/ idBefore(a, b) \/ idBefore(b, a)
  <2> DEFINE D == {n \in Nat : n \in 1 .. Len(a) /\ n \in 1 .. Len(b) /\ a[n] # b[n]}
  <2>1. CASE D # {}
    <3>1. PICK n \in D : \A m \in D : n <= m
      <4>1. D \in SUBSET Nat
        OBVIOUS
      <4> HIDE DEF D
      <4> QED
        BY <2>1, <4>1, LeastElement
    <3>2. \A i \in 1 .. n - 1 : a[i] = b[i]
      BY <1>2, <3>1
    <3>3. differ(a, b, n) \/ differ(b, a, n)
      BY <1>2, <3>1, <3>2
    <3> QED
      BY <1>1, <3>3
  <2>2. CASE D = {}
    <3>1. ASSUME NEW n \in 1 .. Len(a), n \in 1 .. Len(b) PROVE a[n] = b[n]
      <4>1. n \in Nat
        OBVIOUS
      <4>2. n \notin D
        BY <2>2
      <4> QED
        BY <3>1, <4>1, <4>2
    <3>2. CASE Len(a) < Len(b)
      BY <1>1, <1>2, <3>1, <3>2
    <3>3. CASE Len(b) < Len(a)
      BY <1>1, <1>2, <3>1, <3>3
    <3>4. CASE Len(a) = Len(b)
      <4>1. \A n \in 1 .. Len(a) : a[n] = b[n]
        BY <3>1, <3>4
      <4>2. a = [n \in 1 .. Len(a) |-> a[n]] /\ b = [n \in 1 .. Len(b) |-> b[n]]
        OBVIOUS
      <4> QED
        BY <3>4, <4>1, <4>2
    <3> QED
      BY <1>2, <3>2, <3>3, <3>4
  <2> QED
    BY <2>1, <2>2
<1>5. ASSUME NEW c \in Seq(Nat), idBefore(a, b), idBefore(b, c) PROVE idBefore(a, c)
  <2>1. /\ Len(a) \in Nat /\ Len(b) \in Nat /\ Len(c) \in Nat
        /\ \A i \in 1 .. Len(a) : a[i] \in Nat
        /\ \A i \in 1 .. Len(b) : b[i] \in Nat
        /\ \A i \in 1 .. Len(c) : c[i] \in Nat
    BY <1>2
  <2>2. CASE shorter(a, b) /\ shorter(b, c)
    <3>1. shorter(a, c)
      BY <2>1, <2>2
    <3> QED
      BY <1>1, <3>1
  <2>3. ASSUME NEW n \in Nat, shorter(a, b), differ(b, c, n) PROVE idBefore(a, c)
    <3>1. CASE n <= Len(a)
      <4>1. differ(a, c, n)
        BY <2>1, <2>3, <3>1
      <4> QED
        BY <1>1, <4>1
    <3>2. CASE n > Len(a)
      <4>1. shorter(a, c)
        BY <2>1, <2>3, <3>2
      <4> QED
        BY <1>1, <4>1
    <3> QED
      BY <2>1, <3>1, <3>2
  <2>4. ASSUME NEW n \in Nat, differ(a, b, n), shorter(b, c) PROVE idBefore(a, c)
    <3>1. differ(a, c, n)
      BY <2>1, <2>4
    <3> QED
      BY <1>1, <3>1
  <2>5. ASSUME NEW n \in Nat, NEW m \in Nat, differ(a, b, n), differ(b, c, m) PROVE idBefore(a, c)
    <3>1. CASE n <= m
      <4>1. n \in 1 .. Len(a) /\ n \in 1 .. Len(c)
        BY <2>1, <2>5, <3>1
      <4>2. ASSUME NEW i \in 1 .. n - 1 PROVE a[i] = c[i]
        <5>1. i \in 1 .. m - 1
          BY <3>1
        <5> QED
          BY <2>5, <5>1
      <4>3. a[n] < c[n]
        <5>1. a[n] \in Nat /\ b[n] \in Nat /\ c[n] \in Nat /\ a[n] < b[n]
          BY <2>1, <2>5, <4>1
        <5>2. CASE n = m
          <6>1. b[n] < c[n]
            BY <2>5, <5>2
          <6> QED
            BY <5>1, <6>1
        <5>3. CASE n < m
          <6>1. n \in 1 .. m - 1
            BY <4>1, <5>3
          <6>2. b[n] = c[n]
            BY <2>5, <6>1
          <6> QED
            BY <5>1, <6>2
        <5> QED
          BY <3>1, <5>2, <5>3
      <4>4. differ(a, c, n)
        BY <4>1, <4>2, <4>3
      <4> QED
        BY <1>1, <4>4
    <3>2. CASE m < n
      <4>1. m \in 1 .. Len(a) /\ m \in 1 .. Len(c) /\ m \in 1 .. n - 1
        BY <2>1, <2>5, <3>2
      <4>2. ASSUME NEW i \in 1 .. m - 1 PROVE a[i] = c[i]
        <5>1. i \in 1 .. n - 1
          BY <3>2
        <5> QED
          BY <2>5, <5>1
      <4>3. a[m] < c[m]
        BY <2>5, <4>1
      <4>4. differ(a, c, m)
        BY <4>1, <4>2, <4>3
      <4> QED
        BY <1>1, <4>4
    <3> QED
      BY <3>1, <3>2
  <2>6. /\ shorter(a, b) \/ \E n \in Nat : differ(a, b, n)
        /\ shorter(b, c) \/ \E n \in Nat : differ(b, c, n)
    BY <1>1, <1>5
  <2> HIDE DEF shorter, differ
  <2> QED
    BY <2>2, <2>3, <2>4, <2>5, <2>6
<1> QED
  BY <1>3, <1>4, <1>5

(* The positions of a list, in the order of the ids of its manifests.      *)
LEMMA ManifestsAreOrdered ==
  ASSUME NEW files, isManifests(files), uniqueIds(files)
  PROVE  orders(DOMAIN files, {ij \in (DOMAIN files) \X (DOMAIN files) : idBefore(files[ij[1]].id, files[ij[2]].id)})
<1> DEFINE before == {ij \in (DOMAIN files) \X (DOMAIN files) : idBefore(files[ij[1]].id, files[ij[2]].id)}
<1>1. \A i \in DOMAIN files : files[i].id \in Seq(Nat)
  BY DEF isManifests
<1>2. \A i, j \in DOMAIN files : <<i, j>> \in before <=> idBefore(files[i].id, files[j].id)
  OBVIOUS
<1>3. ASSUME NEW i \in DOMAIN files PROVE <<i, i>> \notin before
  BY <1>1, <1>2, IdsAreOrdered
<1>4. ASSUME NEW i \in DOMAIN files, NEW j \in DOMAIN files, NEW k \in DOMAIN files,
             <<i, j>> \in before, <<j, k>> \in before
      PROVE  <<i, k>> \in before
  <2>1. idBefore(files[i].id, files[j].id) /\ idBefore(files[j].id, files[k].id)
    BY <1>2, <1>4
  <2>2. idBefore(files[i].id, files[k].id)
    BY <1>1, <2>1, IdsAreOrdered
  <2> QED
    BY <1>2, <2>2
<1>5. ASSUME NEW i \in DOMAIN files, NEW j \in DOMAIN files
      PROVE  i = j \/ <<i, j>> \in before \/ <<j, i>> \in before
  <2>1. files[i].id = files[j].id \/ idBefore(files[i].id, files[j].id) \/ idBefore(files[j].id, files[i].id)
    BY <1>1, IdsAreOrdered
  <2>2. files[i].id = files[j].id => i = j
    BY DEF uniqueIds, IsInjective
  <2> QED
    BY <1>2, <2>1, <2>2
<1>6. orders(DOMAIN files, before)
  <2> HIDE DEF before
  <2> QED
    BY <1>3, <1>4, <1>5 DEF orders
<1> QED
  BY <1>6

(* The descriptors that a manifest stands for.                             *)
adapterOf(m) == [id |-> m.id, wellFormed |-> TRUE, kinds |-> m.kinds, runtime |-> m.runtime]

providerOf(m, capability) ==
  [id |-> Append(m.id, capability), wellFormed |-> TRUE, capability |-> capability, runtimes |-> {m.runtime}]

LEMMA DescriptorsOfManifests ==
  ASSUME NEW files, isManifests(files), uniqueIds(files), NEW catalog, catalog = descriptors(files)
  PROVE  /\ isCatalog(catalog)
         /\ \A i \in DOMAIN catalog.adapters : \E m \in DOMAIN files :
              catalog.adapters[i] = adapterOf(files[m])
         /\ \A i \in DOMAIN catalog.providers : \E m \in DOMAIN files : \E k \in DOMAIN files[m].capabilities :
              catalog.providers[i] = providerOf(files[m], files[m].capabilities[k])
<1>1. PICK n \in Nat : DOMAIN files = 1 .. n
  BY DEF isManifests, isList
<1>2. IsFiniteSet(1 .. n) /\ Cardinality(1 .. n) = n
  BY <1>1, FS_Interval
<1>3. PICK before : before = {ij \in (DOMAIN files) \X (DOMAIN files) : idBefore(files[ij[1]].id, files[ij[2]].id)}
  OBVIOUS
<1>4. PICK order : order = inOrder(DOMAIN files, before)
  OBVIOUS
<1>5. order \in [1 .. n -> 1 .. n]
  <2>1. orders(DOMAIN files, before)
    BY <1>3, ManifestsAreOrdered
  <2>2. inOrder(1 .. n, before) \in [1 .. Cardinality(1 .. n) -> 1 .. n]
    BY <1>1, <1>2, <2>1, InOrder
  <2> QED
    BY <1>1, <1>2, <1>4, <2>2
<1>6. PICK sorted : sorted = [i \in DOMAIN files |-> files[order[i]]]
  OBVIOUS
<1>7. DOMAIN sorted = 1 .. n /\ \A i \in 1 .. n : order[i] \in 1 .. n /\ sorted[i] = files[order[i]]
  BY <1>1, <1>5, <1>6
<1> DEFINE adapters == [i \in DOMAIN sorted |-> adapterOf(sorted[i])]
           lists == [i \in DOMAIN sorted |-> [k \in DOMAIN sorted[i].capabilities |-> providerOf(sorted[i], sorted[i].capabilities[k])]]
<1>8. catalog.adapters = adapters /\ catalog.providers = FlattenSeq(lists)
  BY <1>3, <1>4, <1>6 DEF descriptors, adapterOf, providerOf
<1>9. \A i \in 1 .. n : /\ sorted[i].id \in Seq(Nat) /\ sorted[i].capabilities \in Seq(Nat)
  BY <1>1, <1>7 DEF isManifests
<1>10. isList(adapters) /\ DOMAIN adapters = 1 .. n
  <2>1. adapters \in [1 .. n -> Range(adapters)]
    BY <1>7 DEF Range
  <2> HIDE DEF adapters
  <2> QED
    BY <2>1, IntervalIsList DEF isList
<1>11. \A i \in 1 .. n : adapters[i].id # Null
  BY <1>7, <1>9, NullAssumption DEF adapterOf
<1>12. \A i \in 1 .. n : \E m \in DOMAIN files :
         adapters[i] = adapterOf(files[m])
  BY <1>1, <1>7
<1>13. PICK P : P = UNION {Range(lists[i]) : i \in 1 .. n}
  OBVIOUS
<1>14. lists \in Seq(Seq(P)) /\ DOMAIN lists = 1 .. n
  <2>1. ASSUME NEW i \in 1 .. n PROVE lists[i] \in Seq(P)
    <3>1. PICK size \in Nat : DOMAIN sorted[i].capabilities = 1 .. size
      BY <1>9
    <3>2. lists[i] = [k \in 1 .. size |-> providerOf(sorted[i], sorted[i].capabilities[k])]
      BY <1>7, <3>1
    <3>3. lists[i] \in [1 .. size -> Range(lists[i])]
      BY <3>2 DEF Range
    <3>4. Range(lists[i]) \subseteq P
      BY <1>13
    <3>5. lists[i] \in [1 .. size -> P]
      <4> HIDE DEF lists
      <4> QED
        BY <3>3, <3>4
    <3> HIDE DEF lists
    <3> QED
      BY <3>5, IntervalIsList
  <2>2. lists \in [1 .. n -> Seq(P)]
    BY <1>7, <2>1
  <2> HIDE DEF lists
  <2> QED
    BY <2>2, IntervalIsList
<1>15. /\ FlattenSeq(lists) \in Seq(P)
       /\ \A x : x \in Range(FlattenSeq(lists)) <=> \E i \in 1 .. n : x \in Range(lists[i])
  <2> HIDE DEF lists
  <2> QED
    BY <1>14, Flattened
<1>16. isList(FlattenSeq(lists))
  <2>1. PICK flat : flat = FlattenSeq(lists)
    OBVIOUS
  <2>2. flat \in Seq(P)
    BY <1>15, <2>1
  <2>3. flat \in [1 .. Len(flat) -> Range(flat)] /\ Len(flat) \in Nat
    BY <2>2 DEF Range
  <2> QED
    BY <2>1, <2>3, IntervalIsList DEF isList
<1>17. ASSUME NEW p \in Range(FlattenSeq(lists))
       PROVE  \E m \in DOMAIN files : \E k \in DOMAIN files[m].capabilities :
                /\ p = providerOf(files[m], files[m].capabilities[k])
                /\ p.id \in Seq(Nat)
  <2>1. PICK i \in 1 .. n : p \in Range(lists[i])
    BY <1>15
  <2>2. lists[i] = [k \in DOMAIN sorted[i].capabilities |-> providerOf(sorted[i], sorted[i].capabilities[k])]
    BY <1>7
  <2>3. PICK k \in DOMAIN sorted[i].capabilities : p = providerOf(sorted[i], sorted[i].capabilities[k])
    BY <2>1, <2>2 DEF Range
  <2>4. Append(sorted[i].id, sorted[i].capabilities[k]) \in Seq(Nat)
    BY <1>9
  <2>5. order[i] \in DOMAIN files /\ sorted[i] = files[order[i]]
    BY <1>1, <1>7
  <2> QED
    BY <2>3, <2>4, <2>5 DEF providerOf
<1>18. \A i \in DOMAIN FlattenSeq(lists) : FlattenSeq(lists)[i] \in Range(FlattenSeq(lists))
  BY DEF Range
<1>19. isCatalog(catalog)
  <2>1. \A i \in DOMAIN catalog.providers : catalog.providers[i].id # Null
    BY <1>8, <1>17, <1>18, NullAssumption
  <2>2. \A i \in DOMAIN catalog.adapters : catalog.adapters[i].id # Null
    BY <1>8, <1>10, <1>11
  <2> HIDE DEF adapters, lists
  <2> QED
    BY <1>8, <1>10, <1>16, <2>1, <2>2 DEF isCatalog
<1>20. \A i \in DOMAIN catalog.adapters : \E m \in DOMAIN files :
         catalog.adapters[i] = adapterOf(files[m])
  BY <1>8, <1>10, <1>12
<1>21. \A i \in DOMAIN catalog.providers : \E m \in DOMAIN files : \E k \in DOMAIN files[m].capabilities :
         catalog.providers[i] = providerOf(files[m], files[m].capabilities[k])
  <2> SUFFICES ASSUME NEW i \in DOMAIN catalog.providers
               PROVE  \E m \in DOMAIN files : \E k \in DOMAIN files[m].capabilities :
                        catalog.providers[i] = providerOf(files[m], files[m].capabilities[k])
    OBVIOUS
  <2>1. PICK p \in Range(FlattenSeq(lists)) : p = catalog.providers[i]
    BY <1>8, <1>18
  <2> HIDE DEF lists
  <2> QED
    BY <1>17, <2>1
<1> QED
  BY <1>19, <1>20, <1>21

(* The host loads, in the order of the paths, whatever it does not refuse. *)
LEMMA LoadedFiles ==
  ASSUME NEW files, isManifests(files), NEW host, host = loadExtensions(files)
  PROVE  /\ isManifests(host.extensions)
         /\ \A k \in DOMAIN host.extensions : \E m \in DOMAIN files :
              host.extensions[k] = files[m] /\ refusal(files[m]) = Null
         /\ \A m \in DOMAIN files : refusal(files[m]) = Null =>
              \E k \in DOMAIN host.extensions : host.extensions[k] = files[m]
         /\ host.catalog = catalogFromManifests(host.extensions).catalog
         /\ host.diagnostics = ({refusal(f) : f \in Range(files)} \ {Null})
                               \union catalogFromManifests(host.extensions).diagnostics
<1>1. PICK n \in Nat : DOMAIN files = 1 .. n
  BY DEF isManifests, isList
<1>2. PICK S : S = {i \in DOMAIN files : refusal(files[i]) = Null}
  OBVIOUS
<1>3. PICK R : R = {ij \in (DOMAIN files) \X (DOMAIN files) : ij[1] < ij[2]}
  OBVIOUS
<1>4. IsFiniteSet(S)
  BY <1>1, <1>2, FS_Interval, FS_Subset
<1>5. orders(S, R)
  <2>1. ASSUME NEW x \in 1 .. n, NEW y \in 1 .. n PROVE <<x, y>> \in R <=> x < y
    BY <1>1, <1>3
  <2>2. S \subseteq 1 .. n
    BY <1>1, <1>2
  <2> QED
    BY <2>1, <2>2 DEF orders
<1>6. PICK loaded : loaded = inOrder(S, R)
  OBVIOUS
<1>7. PICK size \in Nat : /\ loaded \in [1 .. size -> S]
                          /\ \A x \in S : \E k \in 1 .. size : loaded[k] = x
  BY <1>4, <1>5, <1>6, InOrder
<1>8. /\ host.extensions = [k \in DOMAIN loaded |-> files[loaded[k]]]
      /\ host.catalog = catalogFromManifests(host.extensions).catalog
      /\ host.diagnostics = ({refusal(f) : f \in Range(files)} \ {Null})
                            \union catalogFromManifests(host.extensions).diagnostics
  BY <1>2, <1>3, <1>6 DEF loadExtensions
<1>9. DOMAIN host.extensions = 1 .. size /\ \A k \in 1 .. size : host.extensions[k] = files[loaded[k]] /\ loaded[k] \in S
  BY <1>7, <1>8
<1>10. \A k \in DOMAIN host.extensions : \E m \in DOMAIN files :
         host.extensions[k] = files[m] /\ refusal(files[m]) = Null
  BY <1>2, <1>9
<1>11. \A m \in DOMAIN files : refusal(files[m]) = Null =>
         \E k \in DOMAIN host.extensions : host.extensions[k] = files[m]
  BY <1>2, <1>7, <1>9
<1>12. isManifests(host.extensions)
  <2>1. PICK list : list = host.extensions
    OBVIOUS
  <2>2. list \in [1 .. size -> Range(list)]
    BY <1>7, <1>8, <2>1 DEF Range
  <2>3. isList(list)
    BY <2>2, IntervalIsList DEF isList
  <2> QED
    BY <1>10, <2>1, <2>3 DEF isManifests
<1> QED
  BY <1>8, <1>10, <1>11, <1>12

(* What an accepted compilation resolved against.                          *)
LEMMA CatalogIsWellFormed ==
  ASSUME CInv, accepted
  PROVE  /\ isCatalog(catalogOf(input))
         /\ ~ overlapping(catalogOf(input))
         /\ input.extensions # Null =>
              LET host == loadExtensions(input.extensions)
              IN  uniqueIds(host.extensions) /\ catalogOf(input) = descriptors(host.extensions)
<1>1. PICK catalog : catalog = catalogOf(input)
  OBVIOUS
<1>2. catalogDiagnostics(catalog) \subseteq SYSTEM_WARNINGS
  BY <1>1, NoErrors
<1>3. /\ \A i \in DOMAIN catalog.adapters : catalog.adapters[i].wellFormed
      /\ ~ overlapping(catalog)
  BY <1>2 DEF catalogDiagnostics, SYSTEM_WARNINGS
<1>4. CASE input.extensions = Null
  <2>1. CASE input.catalog = Null
    <3>1. catalog = EMPTY_CATALOG
      BY <1>1, <1>4, <2>1 DEF catalogOf
    <3>2. DOMAIN <<>> = {} /\ isList(<<>>)
      BY DEF isList
    <3> QED
      BY <1>1, <1>3, <1>4, <3>1, <3>2 DEF EMPTY_CATALOG, isCatalog
  <2>2. CASE input.catalog # Null
    BY <1>1, <1>3, <1>4, <2>2, InputsAssumption DEF catalogOf, CInv
  <2> QED
    BY <2>1, <2>2
<1>5. CASE input.extensions # Null
  <2>1. PICK host : host = loadExtensions(input.extensions)
    OBVIOUS
  <2>2. isManifests(input.extensions)
    BY <1>5, InputsAssumption DEF CInv
  <2>3. isManifests(host.extensions) /\ host.catalog = catalogFromManifests(host.extensions).catalog
    BY <2>1, <2>2, LoadedFiles
  <2>4. host.catalog # Null
    <3> SUFFICES ASSUME host.catalog = Null PROVE FALSE
      OBVIOUS
    <3>1. catalog = INVALID_CATALOG
      BY <1>1, <1>5, <2>1 DEF catalogOf
    <3> QED
      BY <1>3, <3>1 DEF INVALID_CATALOG
  <2>5. uniqueIds(host.extensions) /\ host.catalog = descriptors(host.extensions)
    BY <2>3, <2>4 DEF catalogFromManifests, validateCatalog
  <2>6. catalog = descriptors(host.extensions)
    BY <1>1, <1>5, <2>1, <2>4, <2>5 DEF catalogOf
  <2>7. isCatalog(catalog)
    BY <2>3, <2>5, <2>6, DescriptorsOfManifests
  <2> QED
    BY <1>1, <1>3, <2>1, <2>5, <2>6, <2>7
<1> QED
  BY <1>4, <1>5

(* What realizes a component follows from its declared preferences alone,  *)
(* whatever the order in which the catalog is read (resolveSystem and the  *)
(* rule against overlapping coverage of catalog.ts).                       *)
THEOREM ResolutionIsReproducible == Spec => []ResolutionIsDetermined
<1>1. CInv => ResolutionIsDetermined
  <2> SUFFICES ASSUME CInv, accepted PROVE ResolutionIsDetermined
    BY DEF ResolutionIsDetermined
  <2>1. PICK catalog : catalog = catalogOf(input)
    OBVIOUS
  <2>2. isCatalog(catalog) /\ ~ overlapping(catalog)
    BY <2>1, CatalogIsWellFormed
  <2>3. PICK components : components = input.system.components
    OBVIOUS
  <2>4. \A c \in DOMAIN components : isList(components[c].preferences)
    BY <2>3, SystemIsWellFormed DEF isSystem
  <2>5. result.resolved = resolveSystem(catalog, components)
    BY <2>1, <2>3, AcceptedIsCompiled
  <2>6. ASSUME NEW c \in DOMAIN components, result.resolved[c].status = "RESOLVED"
        PROVE  \E i \in DOMAIN components[c].preferences :
                 /\ components[c].preferences[i] = result.resolved[c].runtime
                 /\ \A j \in 1 .. i - 1 : ~ supports(catalog, components[c].kind, components[c].preferences[j])
    <3>1. PICK component : component = components[c]
      OBVIOUS
    <3>2. PICK i : i = selected(catalog, component)
      OBVIOUS
    <3>3. result.resolved[c] = resolveComponent(catalog, component)
      BY <2>5, <3>1 DEF resolveSystem
    <3>4. i # 0 /\ result.resolved[c].runtime = component.preferences[i]
      BY <2>6, <3>2, <3>3 DEF resolveComponent
    <3>5. isList(component.preferences)
      BY <2>4, <3>1
    <3> QED
      BY <3>1, <3>2, <3>4, <3>5, SelectedIs
  <2>7. ASSUME NEW reversed, reversed = [adapters |-> Reverse(catalog.adapters), providers |-> Reverse(catalog.providers)]
        PROVE  resolveSystem(reversed, components) = result.resolved
    <3>1. ASSUME NEW c \in DOMAIN components
          PROVE  resolveComponent(reversed, components[c]) = resolveComponent(catalog, components[c])
      BY <2>2, <2>4, <2>7, ReversedCatalog
    <3> QED
      BY <2>5, <3>1 DEF resolveSystem
  <2> QED
    BY <2>1, <2>3, <2>6, <2>7 DEF ResolutionIsDetermined
<1> QED
  BY <1>1, Compiled, PTL

(* What the host loads into this process (the LET of PlannedIsLoaded).     *)
loadsInProcess(e) ==
  /\ e.mode = "TRUSTED_IN_PROCESS" /\ e.entry = "ADAPTER"
  /\ e.identity = <<e.id, e.version>>

(* An extension that was loaded is found under its id, and was not refused.*)
LEMMA LoadedIsFound ==
  ASSUME NEW files, isManifests(files), NEW host, host = loadExtensions(files), uniqueIds(host.extensions),
         NEW k \in DOMAIN host.extensions, NEW e, e = host.extensions[k]
  PROVE  /\ e # Null
         /\ loadsInProcess(e)
         /\ extensionOf(host, e.id) = e
<1>1. isManifests(host.extensions) /\ refusal(e) = Null
  BY LoadedFiles
<1>2. e # Null
  BY <1>1 DEF isManifests
<1>3. loadsInProcess(e)
  <2>1. /\ Null # "MANIFEST_INVALID" /\ Null # "ADAPTER_UNSUPPORTED_EXECUTION_MODE"
        /\ Null # "ADAPTER_LOAD_FAILED" /\ Null # "ADAPTER_CONTRACT_VIOLATION"
    BY NullAssumption
  <2> HIDE DEF validateManifest
  <2> QED
    BY <1>1, <2>1, Zenon DEF refusal, loadsInProcess
<1>4. PICK n \in Nat : DOMAIN host.extensions = 1 .. n /\ Len(host.extensions) = n
  BY <1>1 DEF isManifests, isList
<1>5. PICK I : I = {i \in 1 .. Len(host.extensions) : host.extensions[i].id = e.id}
  OBVIOUS
<1>6. I = {k}
  <2>1. \A i \in DOMAIN host.extensions : host.extensions[i].id = e.id => i = k
    BY DEF uniqueIds, IsInjective
  <2> QED
    BY <1>4, <1>5, <2>1
<1>7. Max(I) = k
  <2>1. I \in SUBSET (1 .. n) /\ I # {}
    BY <1>4, <1>6
  <2>2. Max(I) \in I
    BY <2>1, LastIsGreatest
  <2> QED
    BY <1>6, <2>2
<1>8. k # 0
  BY <1>4
<1>9. extensionOf(host, e.id) = e
  <2>1. SelectLastInSeq(host.extensions, LAMBDA x : x.id = e.id) = k
    BY <1>5, <1>6, <1>7 DEF SelectLastInSeq
  <2> QED
    BY <1>8, <2>1 DEF extensionOf
<1> QED
  BY <1>2, <1>3, <1>9

(* Who realizes a component and its capabilities.                          *)
LEMMA RealizedBy ==
  ASSUME CInv, accepted, NEW c \in DOMAIN input.system.components, result.resolved[c].status = "RESOLVED"
  PROVE  LET catalog == catalogOf(input)
             component == input.system.components[c]
             resolved == result.resolved[c]
         IN  /\ \E i \in DOMAIN catalog.adapters :
                  covers(catalog.adapters[i], component.kind, resolved.runtime) /\ resolved.adapter = catalog.adapters[i].id
             /\ DOMAIN resolved.capabilities = DOMAIN component.capabilities
             /\ \A k \in DOMAIN component.capabilities : resolved.capabilities[k] # Null =>
                  \E i \in DOMAIN catalog.providers :
                    /\ provides(catalog.providers[i], component.capabilities[k], resolved.runtime)
                    /\ resolved.capabilities[k] = catalog.providers[i].id
<1>1. PICK catalog : catalog = catalogOf(input)
  OBVIOUS
<1>2. PICK component : component = input.system.components[c]
  OBVIOUS
<1>3. PICK resolved : resolved = result.resolved[c]
  OBVIOUS
<1>4. resolved = resolveComponent(catalog, component)
  BY <1>1, <1>2, <1>3, AcceptedIsCompiled DEF resolveSystem
<1>5. isCatalog(catalog) /\ ~ overlapping(catalog)
  BY <1>1, CatalogIsWellFormed
<1>6. PICK i : i = selected(catalog, component)
  OBVIOUS
<1>7. /\ i # 0 /\ resolved.runtime = component.preferences[i]
      /\ resolved.adapter = adapterFor(catalog, component.kind, resolved.runtime)
      /\ resolved.capabilities = [k \in DOMAIN component.capabilities |->
                                    providerFor(catalog, component.capabilities[k], resolved.runtime)]
  BY <1>3, <1>4, <1>6 DEF resolveComponent
<1>8. supports(catalog, component.kind, resolved.runtime)
  <2>1. isList(component.preferences)
    BY <1>2, SystemIsWellFormed DEF isSystem
  <2> QED
    BY <1>6, <1>7, <2>1, SelectedIs
<1>9. PICK a \in DOMAIN catalog.adapters : covers(catalog.adapters[a], component.kind, resolved.runtime)
  BY <1>8 DEF supports
<1>10. resolved.adapter = catalog.adapters[a].id
  BY <1>5, <1>7, <1>9, AdapterFor
<1>11. ASSUME NEW k \in DOMAIN component.capabilities, resolved.capabilities[k] # Null
       PROVE  \E p \in DOMAIN catalog.providers :
                /\ provides(catalog.providers[p], component.capabilities[k], resolved.runtime)
                /\ resolved.capabilities[k] = catalog.providers[p].id
  BY <1>5, <1>7, <1>11, ProviderFor
<1> QED
  BY <1>1, <1>2, <1>3, <1>7, <1>9, <1>10, <1>11

(* The list without the element appended to it.                            *)
LEMMA FrontOfAppend ==
  ASSUME NEW s \in Seq(Nat), NEW x
  PROVE  Front(Append(s, x)) = s
<1>1. Len(Append(s, x)) = Len(s) + 1 /\ Len(s) \in Nat
  OBVIOUS
<1>2. Front(Append(s, x)) = [i \in 1 .. Len(s) |-> Append(s, x)[i]]
  BY <1>1 DEF Front
<1>3. \A i \in 1 .. Len(s) : Append(s, x)[i] = s[i]
  OBVIOUS
<1>4. s = [i \in 1 .. Len(s) |-> s[i]]
  OBVIOUS
<1> QED
  BY <1>2, <1>3, <1>4

(* The steps of a plan.                                                    *)
LEMMA StepIs ==
  ASSUME CInv, accepted, result.plan # Null, NEW s \in result.plan.steps
  PROVE  /\ s.component \in DOMAIN input.system.components
         /\ result.resolved[s.component].status = "RESOLVED"
         /\ \/ s.action # "BIND_CAPABILITY" /\ s.with = result.resolved[s.component].adapter
            \/ /\ s.action = "BIND_CAPABILITY"
               /\ \E k \in DOMAIN result.resolved[s.component].capabilities :
                    /\ result.resolved[s.component].capabilities[k] # Null
                    /\ s.capability = input.system.components[s.component].capabilities[k]
                    /\ s.with = result.resolved[s.component].capabilities[k]
<1>1. PICK contracts : s \in planSteps(input.system.components, result.resolved, contracts)
  BY PlanIsPlanned, PlanFields
<1>2. PICK components : components = input.system.components
  OBVIOUS
<1>3. PICK resolved : resolved = result.resolved
  OBVIOUS
<1> DEFINE planned == {c \in DOMAIN components : resolved[c].status = "RESOLVED"}
           bound(c) == {k \in DOMAIN resolved[c].capabilities : resolved[c].capabilities[k] # Null}
<1>4. \/ \E c \in planned :
           s = [action |-> IF components[c].class = "EXTERNAL" THEN "CONNECT_EXTERNAL" ELSE "MATERIALIZE",
                component |-> c, with |-> resolved[c].adapter,
                contracts |-> {contract \in contracts : contract.provider = c}]
      \/ \E c \in planned : \E k \in bound(c) :
           s = [action |-> "BIND_CAPABILITY", component |-> c, capability |-> components[c].capabilities[k],
                with |-> resolved[c].capabilities[k]]
  BY <1>1, <1>2, <1>3 DEF planSteps
<1>5. ASSUME NEW c \in planned,
             s = [action |-> IF components[c].class = "EXTERNAL" THEN "CONNECT_EXTERNAL" ELSE "MATERIALIZE",
                  component |-> c, with |-> resolved[c].adapter,
                  contracts |-> {contract \in contracts : contract.provider = c}]
      PROVE  s.component = c /\ s.action # "BIND_CAPABILITY" /\ s.with = resolved[c].adapter
  BY <1>5
<1>6. ASSUME NEW c \in planned, NEW k \in bound(c),
             s = [action |-> "BIND_CAPABILITY", component |-> c, capability |-> components[c].capabilities[k],
                  with |-> resolved[c].capabilities[k]]
      PROVE  /\ s.component = c /\ s.action = "BIND_CAPABILITY"
             /\ s.capability = components[c].capabilities[k] /\ s.with = resolved[c].capabilities[k]
  BY <1>6
<1> QED
  BY <1>2, <1>3, <1>4, <1>5, <1>6

(* What is planned can be done by an extension that was loaded into this   *)
(* process, and whatever is applied was planned with every extension that  *)
(* says it runs in it (host.ts, cli.ts).                                   *)
THEOREM PlansAreRunnable == Spec => []PlannedIsLoaded
<1>1. CInv => PlannedIsLoaded
  <2> SUFFICES ASSUME CInv, accepted, input.extensions # Null PROVE PlannedIsLoaded
    BY DEF PlannedIsLoaded
  <2>1. PICK host : host = loadExtensions(input.extensions)
    OBVIOUS
  <2>2. PICK files : files = input.extensions
    OBVIOUS
  <2> DEFINE steps == IF result.plan = Null THEN {} ELSE result.plan.steps
             components == input.system.components
             runtimeOf(s) == result.resolved[s.component].runtime
  <2>3. isManifests(files)
    BY <2>2, InputsAssumption DEF CInv
  <2>4. isManifests(host.extensions)
    BY <2>1, <2>2, <2>3, LoadedFiles
  <2>5. PICK catalog : catalog = descriptors(host.extensions) /\ catalogOf(input) = catalog /\ uniqueIds(host.extensions)
    BY <2>1, CatalogIsWellFormed
  <2>51. /\ \A i \in DOMAIN catalog.adapters : \E m \in DOMAIN host.extensions :
              catalog.adapters[i] = adapterOf(host.extensions[m])
         /\ \A i \in DOMAIN catalog.providers :
              \E m \in DOMAIN host.extensions : \E n \in DOMAIN host.extensions[m].capabilities :
                catalog.providers[i] = providerOf(host.extensions[m], host.extensions[m].capabilities[n])
    BY <2>4, <2>5, DescriptorsOfManifests
  <2>6. ASSUME NEW m \in DOMAIN host.extensions, NEW e, e = host.extensions[m]
        PROVE  e # Null /\ loadsInProcess(e) /\ extensionOf(host, e.id) = e /\ e.id \in Seq(Nat)
    <3>1. e.id \in Seq(Nat)
      BY <2>4, <2>6 DEF isManifests
    <3>2. e # Null /\ loadsInProcess(e) /\ extensionOf(host, e.id) = e
      <4>1. host = loadExtensions(files) /\ uniqueIds(host.extensions)
        BY <2>1, <2>2, <2>5
      <4> QED
        BY <2>3, <2>6, <4>1, LoadedIsFound
    <3> QED
      BY <3>1, <3>2
  <2>7. ASSUME NEW s \in steps, s.action # "BIND_CAPABILITY", NEW e, e = extensionOf(host, s.with)
        PROVE  e # Null /\ loadsInProcess(e) /\ e.runtime = runtimeOf(s) /\ components[s.component].kind \in e.kinds
    <3>1. /\ s.component \in DOMAIN components /\ result.resolved[s.component].status = "RESOLVED"
          /\ s.with = result.resolved[s.component].adapter
      BY <2>7, StepIs
    <3>2. PICK i \in DOMAIN catalog.adapters :
            covers(catalog.adapters[i], components[s.component].kind, runtimeOf(s)) /\ s.with = catalog.adapters[i].id
      BY <2>5, <3>1, RealizedBy
    <3>3. PICK m \in DOMAIN host.extensions :
            catalog.adapters[i] = adapterOf(host.extensions[m])
      BY <2>51
    <3>4. PICK x : x = host.extensions[m]
      OBVIOUS
    <3>5. s.with = x.id /\ x.runtime = runtimeOf(s) /\ components[s.component].kind \in x.kinds
      BY <3>2, <3>3, <3>4 DEF covers, adapterOf
    <3>6. e = x
      BY <2>6, <2>7, <3>4, <3>5
    <3> QED
      BY <2>6, <3>4, <3>5, <3>6
  <2>8. ASSUME NEW s \in steps, s.action = "BIND_CAPABILITY", NEW e, e = extensionOf(host, Front(s.with))
        PROVE  e # Null /\ loadsInProcess(e) /\ e.runtime = runtimeOf(s) /\ s.capability \in Range(e.capabilities)
    <3>1. s.component \in DOMAIN components /\ result.resolved[s.component].status = "RESOLVED"
      BY <2>8, StepIs
    <3>2. PICK k \in DOMAIN result.resolved[s.component].capabilities :
            /\ result.resolved[s.component].capabilities[k] # Null
            /\ s.capability = components[s.component].capabilities[k]
            /\ s.with = result.resolved[s.component].capabilities[k]
      BY <2>8, StepIs
    <3>3. PICK i \in DOMAIN catalog.providers :
            provides(catalog.providers[i], s.capability, runtimeOf(s)) /\ s.with = catalog.providers[i].id
      BY <2>5, <3>1, <3>2, RealizedBy
    <3>4. PICK m \in DOMAIN host.extensions : \E n \in DOMAIN host.extensions[m].capabilities :
            catalog.providers[i] = providerOf(host.extensions[m], host.extensions[m].capabilities[n])
      BY <2>51
    <3>5. PICK x : x = host.extensions[m]
      OBVIOUS
    <3>6. PICK n \in DOMAIN x.capabilities :
            catalog.providers[i] = providerOf(x, x.capabilities[n])
      BY <3>4, <3>5
    <3>7. s.with = Append(x.id, x.capabilities[n]) /\ x.runtime = runtimeOf(s) /\ s.capability = x.capabilities[n]
      BY <3>3, <3>6 DEF provides, providerOf
    <3>8. e = x
      BY <2>6, <2>8, <3>5, <3>7, FrontOfAppend
    <3> QED
      BY <2>6, <3>5, <3>7, <3>8 DEF Range
  <2>9. ASSUME applied # Null, NEW f \in Range(files)
        PROVE  f.parses /\ f.conforms /\ (f.mode = "TRUSTED_IN_PROCESS" => loadsInProcess(f) /\ extensionOf(host, f.id) = f)
    <3>1. host.diagnostics \subseteq HOST_WARNINGS
      <4>1. PICK planned : planned = facadePlan(input)
        OBVIOUS
      <4>2. result = reported(input, planned) /\ result.status \in {"PLANNED", "PARTIAL"}
        BY <2>9, <4>1 DEF CInv, accepted
      <4>3. planned.status # "THROWN" /\ DOMAIN planned = {"status", "diagnostics", "bindings", "resolved", "policy", "plan"}
        BY <4>1, <4>2 DEF facadePlan, compiled, notCompiled, reported
      <4> QED
        BY <2>1, <4>2, <4>3 DEF reported
    <3>2. refusal(f) \in {Null, "ADAPTER_UNSUPPORTED_EXECUTION_MODE"}
      <4>1. refusal(f) # Null => refusal(f) \in host.diagnostics
        BY <2>1, <2>2, <2>3, LoadedFiles
      <4> QED
        BY <3>1, <4>1 DEF HOST_WARNINGS
    <3>3. f.parses /\ validateManifest(f)
      <4>1. refusal(f) # "MANIFEST_INVALID"
        BY <3>2, NullAssumption
      <4> HIDE DEF validateManifest
      <4> QED
        BY <4>1, Zenon DEF refusal
    <3>4. ASSUME f.mode = "TRUSTED_IN_PROCESS" PROVE loadsInProcess(f) /\ extensionOf(host, f.id) = f
      <4>1. refusal(f) = Null
        BY <3>2, <3>4 DEF refusal
      <4>2. PICK i \in DOMAIN files : f = files[i]
        BY DEF Range
      <4>3. PICK m \in DOMAIN host.extensions : host.extensions[m] = f
        BY <2>1, <2>2, <2>3, <4>1, <4>2, LoadedFiles
      <4> QED
        BY <2>6, <4>3
    <3> QED
      BY <3>3, <3>4 DEF validateManifest
  <2> QED
    BY <2>1, <2>2, <2>7, <2>8, <2>9 DEF PlannedIsLoaded, loadsInProcess
<1> QED
  BY <1>1, Compiled, PTL

(***************************************************************************)
(* What the NestJS adapter generates.                                      *)
(***************************************************************************)

(* The members of short lists.                                             *)
LEMMA MembersOfFour ==
  ASSUME NEW S, NEW a \in S, NEW b \in S, NEW c \in S, NEW d \in S
  PROVE  <<a, b, c, d>> \in Seq(S) /\ Len(<<a, b, c, d>>) = 4 /\ Range(<<a, b, c, d>>) = {a, b, c, d}
BY DEF Range

LEMMA MembersOfFive ==
  ASSUME NEW S, NEW a \in S, NEW b \in S, NEW c \in S, NEW d \in S, NEW e \in S
  PROVE  <<a, b, c, d, e>> \in Seq(S) /\ Len(<<a, b, c, d, e>>) = 5 /\ Range(<<a, b, c, d, e>>) = {a, b, c, d, e}
BY DEF Range

LEMMA MembersOfSix ==
  ASSUME NEW S, NEW a \in S, NEW b \in S, NEW c \in S, NEW d \in S, NEW e \in S, NEW f \in S
  PROVE  /\ <<a, b, c, d, e, f>> \in Seq(S) /\ Len(<<a, b, c, d, e, f>>) = 6
         /\ Range(<<a, b, c, d, e, f>>) = {a, b, c, d, e, f}
BY DEF Range

LEMMA ConcatLength ==
  ASSUME NEW S, NEW s \in Seq(S), NEW t \in Seq(S)
  PROVE  Len(s \o t) = Len(s) + Len(t)
OBVIOUS

(* Flattening lists of one length.                                         *)
LEMMA FlattenedLength ==
  ASSUME NEW S, NEW seqs \in Seq(Seq(S)), NEW size \in Nat, \A i \in DOMAIN seqs : Len(seqs[i]) = size
  PROVE  FlattenSeq(seqs) \in Seq(S) /\ Len(FlattenSeq(seqs)) = size * Len(seqs)
<1>1. CASE seqs = <<>>
  <2>1. FlattenSeq(seqs) = <<>>
    BY <1>1 DEF FlattenSeq
  <2>2. Len(<<>>) = 0 /\ <<>> \in Seq(S) /\ size * 0 = 0
    OBVIOUS
  <2> QED
    BY <1>1, <2>1, <2>2
<1>2. CASE seqs # <<>>
  <2> DEFINE n == Len(seqs)
             g == CHOOSE h : flattens(h, seqs)
  <2>1. flattens(g, seqs)
    BY <1>2, FlatteningExists
  <2>2. FlattenSeq(seqs) = g[n]
    BY <1>2 DEF FlattenSeq, flattens
  <2>3. n \in Nat /\ n >= 1 /\ \A i \in 1 .. n : seqs[i] \in Seq(S) /\ Len(seqs[i]) = size
    BY <1>2
  <2> HIDE DEF g
  <2> DEFINE right(m) == g[m + 1] \in Seq(S) /\ Len(g[m + 1]) = size * (m + 1)
             T == {m \in Nat : m + 1 <= n => right(m)}
  <2>4. 0 \in T
    <3>1. g[1] = seqs[1] /\ seqs[1] \in Seq(S) /\ Len(seqs[1]) = size
      BY <2>1, <2>3 DEF flattens
    <3> QED
      BY <3>1
  <2>5. ASSUME NEW m \in Nat, m \in T PROVE m + 1 \in T
    <3> SUFFICES ASSUME (m + 1) + 1 <= n PROVE right(m + 1)
      OBVIOUS
    <3>1. right(m)
      BY <2>3, <2>5
    <3>2. (m + 1) + 1 \in 1 .. n /\ (m + 1) + 1 # 1 /\ ((m + 1) + 1) - 1 = m + 1
      BY <2>3
    <3>3. g[(m + 1) + 1] = g[m + 1] \o seqs[(m + 1) + 1]
      BY <2>1, <3>2 DEF flattens
    <3>4. seqs[(m + 1) + 1] \in Seq(S) /\ Len(seqs[(m + 1) + 1]) = size
      BY <2>3, <3>2
    <3>5. g[(m + 1) + 1] \in Seq(S) /\ Len(g[(m + 1) + 1]) = Len(g[m + 1]) + size
      <4>1. PICK s : s = g[m + 1]
        OBVIOUS
      <4>2. PICK t : t = seqs[(m + 1) + 1]
        OBVIOUS
      <4>3. s \in Seq(S) /\ t \in Seq(S) /\ Len(t) = size /\ g[(m + 1) + 1] = s \o t
        BY <3>1, <3>3, <3>4, <4>1, <4>2
      <4>4. s \o t \in Seq(S) /\ Len(s \o t) = Len(s) + Len(t)
        BY <4>3, ConcatMembers, ConcatLength
      <4> QED
        BY <4>1, <4>3, <4>4
    <3>6. size * (m + 1) + size = size * ((m + 1) + 1)
      OBVIOUS
    <3> QED
      BY <3>1, <3>5, <3>6
  <2>6. n - 1 \in T
    <3> HIDE DEF T
    <3>1. Nat \subseteq T
      BY <2>4, <2>5, SetInduction
    <3> QED
      BY <2>3, <3>1
  <2>7. right(n - 1) /\ (n - 1) + 1 = n
    BY <2>3, <2>6
  <2> HIDE DEF n
  <2> QED
    BY <2>2, <2>7 DEF n
<1> QED
  BY <1>1, <1>2

(* What a project consists of, what contracts add and what one of them.    *)
projectFiles(contracts) ==
  {owned(<<"package.json">>, {}), owned(<<"tsconfig.json">>, {}), main(contracts), appModule(contracts),
   owned(healthFile, {}), seeded(extensionModule, {})}
  \union {owned(<<"scripts", "contract-check">>, {contractFile(contract) : contract \in Range(contracts)}),
          dockerfile(contracts), owned(<<".dockerignore">>, {}), owned(<<".gitignore">>, {}),
          owned(<<"README.md">>, {})}
sharedFiles(contracts) == {DOMAIN_ERROR, VALIDATION, PROBLEM_FILTER, contractsController(contracts)}
filesOf(contract) ==
  {owned(contractFile(contract), {}), typesFile(contract), handlersFile(contract),
   controllerFile(contract), moduleFile(contract), seededHandlers(contract)}

isGenerated(a, contracts) ==
  \/ a \in projectFiles(contracts)
  \/ contracts # <<>> /\ a \in sharedFiles(contracts)
  \/ \E contract \in Range(contracts) : a \in filesOf(contract)

contractList(contract) ==
  <<owned(contractFile(contract), {}), typesFile(contract), handlersFile(contract),
    controllerFile(contract), moduleFile(contract), seededHandlers(contract)>>

LEMMA FilesOfContract ==
  ASSUME NEW contract, NEW S, filesOf(contract) \subseteq S
  PROVE  /\ contractList(contract) \in Seq(S) /\ Len(contractList(contract)) = 6
         /\ Range(contractList(contract)) = filesOf(contract)
<1>1. PICK a : a = owned(contractFile(contract), {})
  OBVIOUS
<1>2. PICK b : b = typesFile(contract)
  OBVIOUS
<1>3. PICK c : c = handlersFile(contract)
  OBVIOUS
<1>4. PICK d : d = controllerFile(contract)
  OBVIOUS
<1>5. PICK e : e = moduleFile(contract)
  OBVIOUS
<1>6. PICK f : f = seededHandlers(contract)
  OBVIOUS
<1>7. filesOf(contract) = {a, b, c, d, e, f} /\ contractList(contract) = <<a, b, c, d, e, f>>
  BY <1>1, <1>2, <1>3, <1>4, <1>5, <1>6, Zenon DEF filesOf, contractList
<1>8. a \in S /\ b \in S /\ c \in S /\ d \in S /\ e \in S /\ f \in S
  BY <1>7
<1> QED
  BY <1>7, <1>8, MembersOfSix

LEMMA FilesOfContracts ==
  ASSUME NEW contracts, isList(contracts), NEW S, \A contract \in Range(contracts) : filesOf(contract) \subseteq S,
         NEW files, files = FlattenSeq([i \in DOMAIN contracts |-> contractList(contracts[i])])
  PROVE  /\ files \in Seq(S) /\ Len(files) = 6 * Len(contracts)
         /\ \A a : a \in Range(files) <=> \E contract \in Range(contracts) : a \in filesOf(contract)
<1>1. PICK seqs : seqs = [i \in DOMAIN contracts |-> contractList(contracts[i])]
  OBVIOUS
<1>2. DOMAIN contracts = 1 .. Len(contracts) /\ Len(contracts) \in Nat
  BY DEF isList
<1>3. ASSUME NEW i \in DOMAIN contracts
      PROVE  seqs[i] \in Seq(S) /\ Len(seqs[i]) = 6 /\ Range(seqs[i]) = filesOf(contracts[i])
  <2>1. filesOf(contracts[i]) \subseteq S
    BY DEF Range
  <2>2. seqs[i] = contractList(contracts[i])
    BY <1>1
  <2> QED
    BY <2>1, <2>2, FilesOfContract
<1>4. seqs \in [1 .. Len(contracts) -> Seq(S)]
  BY <1>1, <1>2, <1>3
<1>5. seqs \in Seq(Seq(S)) /\ Len(seqs) = Len(contracts) /\ DOMAIN seqs = DOMAIN contracts
  BY <1>2, <1>4, IntervalIsList
<1>6. files \in Seq(S) /\ Len(files) = 6 * Len(contracts)
  BY <1>1, <1>3, <1>5, FlattenedLength
<1>7. \A a : a \in Range(files) <=> \E i \in DOMAIN seqs : a \in Range(seqs[i])
  BY <1>1, <1>5, Flattened
<1>8. \A a : a \in Range(files) <=> \E i \in DOMAIN contracts : a \in filesOf(contracts[i])
  BY <1>3, <1>5, <1>7
<1> QED
  BY <1>6, <1>8 DEF Range

LEMMA ContractArtifacts ==
  ASSUME NEW contracts, isList(contracts), contracts # <<>>,
         NEW S, sharedFiles(contracts) \subseteq S, \A contract \in Range(contracts) : filesOf(contract) \subseteq S,
         NEW files, files = contractArtifacts(contracts)
  PROVE  /\ files \in Seq(S) /\ Len(files) = 4 + 6 * Len(contracts)
         /\ \A a : a \in Range(files) <=> \/ a \in sharedFiles(contracts)
                                         \/ \E contract \in Range(contracts) : a \in filesOf(contract)
<1>1. PICK t : t = FlattenSeq([i \in DOMAIN contracts |-> contractList(contracts[i])])
  OBVIOUS
<1>2. /\ t \in Seq(S) /\ Len(t) = 6 * Len(contracts)
      /\ \A a : a \in Range(t) <=> \E contract \in Range(contracts) : a \in filesOf(contract)
  BY <1>1, FilesOfContracts
<1>3. PICK b : b = contractsController(contracts)
  OBVIOUS
<1>4. PICK s : s = <<DOMAIN_ERROR, VALIDATION, PROBLEM_FILTER, b>>
  OBVIOUS
<1>5. sharedFiles(contracts) = {DOMAIN_ERROR, VALIDATION, PROBLEM_FILTER, b}
  BY <1>3 DEF sharedFiles
<1>6. s \in Seq(S) /\ Len(s) = 4 /\ Range(s) = sharedFiles(contracts)
  <2>1. DOMAIN_ERROR \in S /\ VALIDATION \in S /\ PROBLEM_FILTER \in S /\ b \in S
    BY <1>5
  <2> QED
    BY <1>4, <1>5, <2>1, MembersOfFour
<1>7. files = s \o t
  BY <1>1, <1>3, <1>4, Zenon DEF contractArtifacts, contractList
<1>8. s \o t \in Seq(S) /\ \A x : x \in Range(s \o t) <=> x \in Range(s) \/ x \in Range(t)
  BY <1>2, <1>6, ConcatMembers
<1>9. Len(s \o t) = 4 + 6 * Len(contracts)
  BY <1>2, <1>6, ConcatLength
<1> QED
  BY <1>2, <1>6, <1>7, <1>8, <1>9

(* What is planned is exactly what is generated.                           *)
LEMMA PlanIsGenerated ==
  ASSUME NEW contracts, isList(contracts), NEW files, files = nestPlan(contracts)
  PROVE  /\ isList(files)
         /\ \A a : a \in Range(files) <=> isGenerated(a, contracts)
         /\ Len(files) = 11 + (IF contracts = <<>> THEN 0 ELSE 4 + 6 * Len(contracts))
<1>1. PICK p1 : p1 = owned(<<"package.json">>, {})
  OBVIOUS
<1>2. PICK p2 : p2 = owned(<<"tsconfig.json">>, {})
  OBVIOUS
<1>3. PICK p3 : p3 = main(contracts)
  OBVIOUS
<1>4. PICK p4 : p4 = appModule(contracts)
  OBVIOUS
<1>5. PICK p5 : p5 = owned(healthFile, {})
  OBVIOUS
<1>6. PICK p6 : p6 = seeded(extensionModule, {})
  OBVIOUS
<1>7. PICK q1 : q1 = owned(<<"scripts", "contract-check">>, {contractFile(contract) : contract \in Range(contracts)})
  OBVIOUS
<1>8. PICK q2 : q2 = dockerfile(contracts)
  OBVIOUS
<1>9. PICK q3 : q3 = owned(<<".dockerignore">>, {})
  OBVIOUS
<1>10. PICK q4 : q4 = owned(<<".gitignore">>, {})
  OBVIOUS
<1>11. PICK q5 : q5 = owned(<<"README.md">>, {})
  OBVIOUS
<1>12. PICK first : first = <<p1, p2, p3, p4, p5, p6>>
  OBVIOUS
<1>13. PICK last : last = <<q1, q2, q3, q4, q5>>
  OBVIOUS
<1>14. PICK between : between = contractArtifacts(contracts)
  OBVIOUS
<1>15. files = first \o between \o last
  BY <1>1, <1>2, <1>3, <1>4, <1>5, <1>6, <1>7, <1>8, <1>9, <1>10, <1>11, <1>12, <1>13, <1>14, Zenon DEF nestPlan
<1>16. PICK S : S = {a \in projectFiles(contracts) \union sharedFiles(contracts)
                          \union UNION {filesOf(contract) : contract \in Range(contracts)} : TRUE}
  OBVIOUS
<1>17. /\ projectFiles(contracts) \subseteq S /\ sharedFiles(contracts) \subseteq S
       /\ \A contract \in Range(contracts) : filesOf(contract) \subseteq S
  BY <1>16
<1>18. projectFiles(contracts) = {p1, p2, p3, p4, p5, p6} \union {q1, q2, q3, q4, q5}
  BY <1>1, <1>2, <1>3, <1>4, <1>5, <1>6, <1>7, <1>8, <1>9, <1>10, <1>11, Zenon DEF projectFiles
<1>19. first \in Seq(S) /\ Len(first) = 6 /\ Range(first) = {p1, p2, p3, p4, p5, p6}
  <2>1. p1 \in S /\ p2 \in S /\ p3 \in S /\ p4 \in S /\ p5 \in S /\ p6 \in S
    BY <1>17, <1>18
  <2> QED
    BY <1>12, <2>1, MembersOfSix
<1>20. last \in Seq(S) /\ Len(last) = 5 /\ Range(last) = {q1, q2, q3, q4, q5}
  <2>1. q1 \in S /\ q2 \in S /\ q3 \in S /\ q4 \in S /\ q5 \in S
    BY <1>17, <1>18
  <2> QED
    BY <1>13, <2>1, MembersOfFive
<1>21. /\ between \in Seq(S) /\ Len(between) = IF contracts = <<>> THEN 0 ELSE 4 + 6 * Len(contracts)
       /\ \A a : a \in Range(between) <=> \/ contracts # <<>> /\ a \in sharedFiles(contracts)
                                        \/ \E contract \in Range(contracts) : a \in filesOf(contract)
  <2>1. CASE contracts = <<>>
    <3>1. between = <<>>
      BY <1>14, <2>1 DEF contractArtifacts
    <3>2. Range(contracts) = {} /\ Range(between) = {}
      BY <2>1, <3>1 DEF Range
    <3>3. <<>> \in Seq(S) /\ Len(<<>>) = 0
      OBVIOUS
    <3> QED
      BY <2>1, <3>1, <3>2, <3>3
  <2>2. CASE contracts # <<>>
    <3>1. /\ between \in Seq(S) /\ Len(between) = 4 + 6 * Len(contracts)
          /\ \A a : a \in Range(between) <=> \/ a \in sharedFiles(contracts)
                                           \/ \E contract \in Range(contracts) : a \in filesOf(contract)
      BY <1>14, <1>17, <2>2, ContractArtifacts
    <3> QED
      BY <2>2, <3>1
  <2> QED
    BY <2>1, <2>2
<1>22. PICK front : front = first \o between
  OBVIOUS
<1>23. /\ front \in Seq(S) /\ Len(front) = Len(first) + Len(between)
       /\ \A a : a \in Range(front) <=> a \in Range(first) \/ a \in Range(between)
  BY <1>19, <1>21, <1>22, ConcatMembers, ConcatLength
<1>24. /\ files \in Seq(S) /\ Len(files) = Len(front) + Len(last)
       /\ \A a : a \in Range(files) <=> a \in Range(front) \/ a \in Range(last)
  <2>1. files = front \o last
    BY <1>15, <1>22, Zenon
  <2>2. Len(front \o last) = Len(front) + Len(last)
    BY <1>20, <1>23, ConcatLength
  <2>3. front \o last \in Seq(S) /\ \A a : a \in Range(front \o last) <=> a \in Range(front) \/ a \in Range(last)
    BY <1>20, <1>23, ConcatMembers
  <2> QED
    BY <2>1, <2>2, <2>3
<1>25. Len(files) = 11 + (IF contracts = <<>> THEN 0 ELSE 4 + 6 * Len(contracts))
  <2>1. Len(files) = 11 + Len(between) /\ Len(between) \in Nat
    BY <1>19, <1>20, <1>21, <1>23, <1>24
  <2> QED
    BY <1>21, <2>1
<1>26. isList(files)
  BY <1>24 DEF isList, Range
<1>27. \A a : a \in Range(files) <=> isGenerated(a, contracts)
  BY <1>18, <1>19, <1>20, <1>21, <1>23, <1>24 DEF isGenerated
<1> QED
  BY <1>25, <1>26, <1>27

LEMMA ExtensionPrefix ==
  ASSUME NEW p, isList(p), NEW a, NEW b
  PROVE  IsPrefix(<<a, b>>, p) <=> Len(p) >= 2 /\ p[1] = a /\ p[2] = b
<1>1. PICK q : q = <<a, b>>
  OBVIOUS
<1>2. Len(q) = 2 /\ q[1] = a /\ q[2] = b /\ Len(p) \in Nat /\ DOMAIN q = 1 .. 2
  BY <1>1 DEF isList
<1>3. SubSeq(q, 1, 2) = [i \in 1 .. 2 |-> q[i]] /\ (Len(p) >= 2 => SubSeq(p, 1, 2) = [i \in 1 .. 2 |-> p[i]])
  <2>1. ASSUME NEW s, NEW S, s \in Seq(S), Len(s) >= 2 PROVE SubSeq(s, 1, 2) = [i \in 1 .. 2 |-> s[i]]
    <3>1. SubSeq(s, 1, 2) \in Seq(S) /\ Len(SubSeq(s, 1, 2)) = 2
      BY <2>1
    <3>2. \A i \in 1 .. 2 : SubSeq(s, 1, 2)[i] = s[i]
      BY <2>1
    <3>3. SubSeq(s, 1, 2) = [i \in 1 .. 2 |-> SubSeq(s, 1, 2)[i]]
      BY <3>1
    <3> QED
      BY <3>2, <3>3
  <2>2. q \in Seq({a, b})
    BY <1>1
  <2> QED
    BY <1>2, <2>1, <2>2 DEF isList
<1>4. IsPrefix(q, p) <=> Len(p) >= 2 /\ SubSeq(q, 1, 2) = SubSeq(p, 1, 2)
  BY <1>2 DEF IsPrefix
<1>5. Len(p) >= 2 => (SubSeq(q, 1, 2) = SubSeq(p, 1, 2) <=> p[1] = q[1] /\ p[2] = q[2])
  <2> SUFFICES ASSUME Len(p) >= 2 PROVE [i \in 1 .. 2 |-> q[i]] = [i \in 1 .. 2 |-> p[i]] <=> p[1] = q[1] /\ p[2] = q[2]
    BY <1>3
  <2>1. \A i \in 1 .. 2 : i = 1 \/ i = 2
    OBVIOUS
  <2> QED
    BY <2>1
<1> QED
  BY <1>1, <1>2, <1>4, <1>5

(* What the path of a generated file is a path of.                         *)
ofExtension(p) == isList(p) /\ Len(p) >= 2 /\ p[1] = "src" /\ p[2] = "extension"
notOfExtension(p) == isList(p) /\ (Len(p) = 1 \/ p[1] # "src" \/ p[2] # "extension")

LEMMA ShortPaths ==
  /\ notOfExtension(<<"package.json">>) /\ notOfExtension(<<"tsconfig.json">>) /\ notOfExtension(<<"Dockerfile">>)
  /\ notOfExtension(<<".dockerignore">>) /\ notOfExtension(<<".gitignore">>) /\ notOfExtension(<<"README.md">>)
  /\ notOfExtension(<<"scripts", "contract-check">>)
  /\ notOfExtension(mainFile) /\ notOfExtension(appFile) /\ notOfExtension(healthFile)
  /\ ofExtension(extensionModule)
BY DEF notOfExtension, ofExtension, mainFile, appFile, healthFile, extensionModule, isList, Range

LEMMA ContractPaths ==
  ASSUME NEW contract, NEW name
  PROVE  /\ notOfExtension(contractFile(contract)) /\ notOfExtension(domainFile(contract, name))
         /\ notOfExtension(shared(name)) /\ ofExtension(implementation(contract))
BY DEF notOfExtension, ofExtension, contractFile, domainFile, shared, implementation, isList, Range

LEMMA OwnerSeeded ==
  ASSUME NEW contracts, NEW a, isGenerated(a, contracts)
  PROVE  (a.ownership = "OWNER_SEEDED") = IsPrefix(<<"src", "extension">>, a.path)
<1>1. \/ a.ownership = "OWNER_SEEDED" /\ ofExtension(a.path)
      \/ a.ownership = "COMPILER_OWNED" /\ notOfExtension(a.path)
  <2>1. CASE a \in projectFiles(contracts)
    <3>1. \/ /\ a.ownership = "COMPILER_OWNED"
             /\ a.path \in {<<"package.json">>, <<"tsconfig.json">>, mainFile, appFile, healthFile,
                            <<"scripts", "contract-check">>, <<"Dockerfile">>, <<".dockerignore">>, <<".gitignore">>, <<"README.md">>}
          \/ a.ownership = "OWNER_SEEDED" /\ a.path = extensionModule
      BY <2>1 DEF projectFiles, owned, seeded, main, appModule, dockerfile
    <3> QED
      BY <3>1, ShortPaths
  <2>2. CASE a \in sharedFiles(contracts)
    <3>1. a.ownership = "COMPILER_OWNED" /\ \E name : a.path = shared(name)
      BY <2>2 DEF sharedFiles, owned, DOMAIN_ERROR, VALIDATION, PROBLEM_FILTER, contractsController
    <3> QED
      BY <3>1, ContractPaths
  <2>3. ASSUME NEW contract, a \in filesOf(contract) 
        PROVE  \/ a.ownership = "OWNER_SEEDED" /\ ofExtension(a.path)
               \/ a.ownership = "COMPILER_OWNED" /\ notOfExtension(a.path)
    <3>1. \/ a.ownership = "COMPILER_OWNED" /\ (a.path = contractFile(contract) \/ \E name : a.path = domainFile(contract, name))
          \/ a.ownership = "OWNER_SEEDED" /\ a.path = implementation(contract)
      BY <2>3 DEF filesOf, owned, seeded, typesFile, handlersFile, controllerFile, moduleFile, seededHandlers
    <3> QED
      BY <3>1, ContractPaths
  <2> QED
    BY <2>1, <2>2, <2>3 DEF isGenerated
<1>2. isList(a.path) /\ Len(a.path) \in Nat
  BY <1>1 DEF ofExtension, notOfExtension, isList
<1>3. IsPrefix(<<"src", "extension">>, a.path) <=> Len(a.path) >= 2 /\ a.path[1] = "src" /\ a.path[2] = "extension"
  BY <1>2, ExtensionPrefix
<1> QED
  BY <1>1, <1>2, <1>3 DEF ofExtension, notOfExtension, IsPrefix

(* Every import of a generated file is generated.                          *)
isPath(p, contracts) == \E a : isGenerated(a, contracts) /\ a.path = p

LEMMA ProjectPaths ==
  ASSUME NEW contracts
  PROVE  /\ isPath(<<"package.json">>, contracts) /\ isPath(<<"tsconfig.json">>, contracts)
         /\ isPath(mainFile, contracts) /\ isPath(appFile, contracts) /\ isPath(healthFile, contracts)
         /\ isPath(extensionModule, contracts)
<1>1. \A a \in projectFiles(contracts) : isPath(a.path, contracts)
  BY DEF isPath, isGenerated
<1>2. /\ owned(<<"package.json">>, {}) \in projectFiles(contracts) /\ owned(<<"tsconfig.json">>, {}) \in projectFiles(contracts)
      /\ main(contracts) \in projectFiles(contracts) /\ appModule(contracts) \in projectFiles(contracts)
      /\ owned(healthFile, {}) \in projectFiles(contracts) /\ seeded(extensionModule, {}) \in projectFiles(contracts)
  BY DEF projectFiles
<1>3. /\ owned(<<"package.json">>, {}).path = <<"package.json">> /\ owned(<<"tsconfig.json">>, {}).path = <<"tsconfig.json">>
      /\ main(contracts).path = mainFile /\ appModule(contracts).path = appFile
      /\ owned(healthFile, {}).path = healthFile /\ seeded(extensionModule, {}).path = extensionModule
  BY DEF owned, seeded, main, appModule
<1> QED
  BY <1>1, <1>2, <1>3

LEMMA SharedPaths ==
  ASSUME NEW contracts, contracts # <<>>
  PROVE  /\ isPath(shared("domain-error"), contracts) /\ isPath(shared("validation"), contracts)
         /\ isPath(shared("problem.filter"), contracts) /\ isPath(shared("contracts.controller"), contracts)
<1>1. \A a \in sharedFiles(contracts) : isPath(a.path, contracts)
  BY DEF isPath, isGenerated
<1>2. /\ DOMAIN_ERROR.path = shared("domain-error") /\ VALIDATION.path = shared("validation")
      /\ PROBLEM_FILTER.path = shared("problem.filter") /\ contractsController(contracts).path = shared("contracts.controller")
  BY DEF owned, DOMAIN_ERROR, VALIDATION, PROBLEM_FILTER, contractsController
<1> QED
  BY <1>1, <1>2 DEF sharedFiles

LEMMA PathsOfContract ==
  ASSUME NEW contracts, NEW contract \in Range(contracts)
  PROVE  /\ isPath(contractFile(contract), contracts) /\ isPath(domainFile(contract, "types"), contracts)
         /\ isPath(domainFile(contract, "handlers"), contracts) /\ isPath(domainFile(contract, "controller"), contracts)
         /\ isPath(domainFile(contract, "module"), contracts) /\ isPath(implementation(contract), contracts)
<1>1. \A a \in filesOf(contract) : isPath(a.path, contracts)
  BY DEF isPath, isGenerated
<1>2. /\ owned(contractFile(contract), {}).path = contractFile(contract)
      /\ typesFile(contract).path = domainFile(contract, "types")
      /\ handlersFile(contract).path = domainFile(contract, "handlers")
      /\ controllerFile(contract).path = domainFile(contract, "controller")
      /\ moduleFile(contract).path = domainFile(contract, "module")
      /\ seededHandlers(contract).path = implementation(contract)
  BY DEF owned, seeded, typesFile, handlersFile, controllerFile, moduleFile, seededHandlers
<1> QED
  BY <1>1, <1>2 DEF filesOf

LEMMA ImportsAreGenerated ==
  ASSUME NEW contracts, isList(contracts), NEW a, isGenerated(a, contracts), NEW p \in a.imports
  PROVE  isPath(p, contracts)
<1>1. contracts = <<>> => Range(contracts) = {}
  BY DEF Range
<1>2. CASE a \in projectFiles(contracts)
  <2>1. \/ p \in {appFile, extensionModule, healthFile, <<"package.json">>, <<"tsconfig.json">>, mainFile}
        \/ contracts # <<>> /\ p \in {shared("problem.filter"), shared("contracts.controller")}
        \/ \E contract \in Range(contracts) : p = domainFile(contract, "module") \/ p = contractFile(contract)
    BY <1>2 DEF projectFiles, owned, seeded, main, appModule, dockerfile
  <2>2. ASSUME NEW contract \in Range(contracts), p = domainFile(contract, "module") \/ p = contractFile(contract)
        PROVE  isPath(p, contracts)
    BY <2>2, PathsOfContract
  <2>3. ASSUME p \in {appFile, extensionModule, healthFile, <<"package.json">>, <<"tsconfig.json">>, mainFile}
        PROVE  isPath(p, contracts)
    BY <2>3, ProjectPaths
  <2>4. ASSUME contracts # <<>>, p \in {shared("problem.filter"), shared("contracts.controller")}
        PROVE  isPath(p, contracts)
    BY <2>4, SharedPaths
  <2> QED
    BY <2>1, <2>2, <2>3, <2>4
<1>3. CASE contracts # <<>> /\ a \in sharedFiles(contracts)
  <2>1. \/ p \in {shared("domain-error"), shared("validation")}
        \/ \E contract \in Range(contracts) : p = contractFile(contract)
    BY <1>3 DEF sharedFiles, owned, DOMAIN_ERROR, VALIDATION, PROBLEM_FILTER, contractsController
  <2> QED
    BY <1>3, <2>1, SharedPaths, PathsOfContract
<1>4. ASSUME NEW contract \in Range(contracts), a \in filesOf(contract) PROVE isPath(p, contracts)
  <2>1. \/ p \in {shared("domain-error"), shared("validation"), extensionModule}
        \/ p \in {domainFile(contract, "types"), domainFile(contract, "handlers"), domainFile(contract, "controller"), implementation(contract)}
    BY <1>4 DEF filesOf, owned, seeded, typesFile, handlersFile, controllerFile, moduleFile, seededHandlers, typeImports
  <2>2. contracts # <<>>
    BY <1>1
  <2>3. ASSUME p \in {domainFile(contract, "types"), domainFile(contract, "handlers"), domainFile(contract, "controller"), implementation(contract)}
        PROVE  isPath(p, contracts)
    BY <2>3, PathsOfContract
  <2> QED
    BY <2>1, <2>2, <2>3, SharedPaths, ProjectPaths
<1> QED
  BY <1>2, <1>3, <1>4 DEF isGenerated

(* The file that is found under a path.                                    *)
fileAt(files, path) == files[SelectInSeq(files, LAMBDA a : a.path = path)]

LEMMA FileAtPath ==
  ASSUME NEW contracts, NEW files, isList(files), \A a : a \in Range(files) <=> isGenerated(a, contracts),
         NEW path, isPath(path, contracts)
  PROVE  isGenerated(fileAt(files, path), contracts) /\ fileAt(files, path).path = path
<1> DEFINE I == {i \in 1 .. Len(files) : files[i].path = path}
           i == SelectInSeq(files, LAMBDA a : a.path = path)
<1>1. DOMAIN files = 1 .. Len(files) /\ Len(files) \in Nat
  BY DEF isList
<1>2. I # {}
  <2>1. PICK a \in Range(files) : a.path = path
    BY DEF isPath
  <2> QED
    BY <1>1, <2>1 DEF Range
<1>3. i = Min(I)
  BY <1>2 DEF SelectInSeq
<1>4. i \in I
  <2>1. I \in SUBSET Nat
    OBVIOUS
  <2> HIDE DEF I, i
  <2> QED
    BY <1>2, <1>3, <2>1, FirstIsLeast
<1>5. fileAt(files, path) = files[i]
  BY DEF fileAt
<1> HIDE DEF i
<1> QED
  BY <1>1, <1>4, <1>5 DEF Range

(* What the files on the way to a handler import.                          *)
LEMMA PathsOfProject ==
  ASSUME NEW contract, NEW name
  PROVE  /\ mainFile \notin {<<"package.json">>, <<"tsconfig.json">>, appFile, healthFile, extensionModule,
                            <<"scripts", "contract-check">>, <<"Dockerfile">>, <<".dockerignore">>, <<".gitignore">>, <<"README.md">>}
         /\ appFile \notin {<<"package.json">>, <<"tsconfig.json">>, mainFile, healthFile, extensionModule,
                            <<"scripts", "contract-check">>, <<"Dockerfile">>, <<".dockerignore">>, <<".gitignore">>, <<"README.md">>}
         /\ domainFile(contract, name) \notin
              {<<"package.json">>, <<"tsconfig.json">>, mainFile, appFile, healthFile, extensionModule,
               <<"scripts", "contract-check">>, <<"Dockerfile">>, <<".dockerignore">>, <<".gitignore">>, <<"README.md">>}
BY DEF mainFile, appFile, healthFile, extensionModule, domainFile

LEMMA PathsOfContracts ==
  ASSUME NEW contract, NEW name, NEW other, NEW file
  PROVE  /\ {mainFile, appFile} \intersect {shared(file), contractFile(other), domainFile(other, file), implementation(other)} = {}
         /\ domainFile(contract, name) \notin {shared(file), contractFile(other), implementation(other)}
         /\ domainFile(contract, name) = domainFile(other, file) => contract.context = other.context /\ name = file
BY DEF mainFile, appFile, domainFile, shared, contractFile, implementation

pathsOf(contract) ==
  {contractFile(contract), implementation(contract)}
  \union {domainFile(contract, name) : name \in {"types", "handlers", "controller", "module"}}

LEMMA GeneratedPath ==
  ASSUME NEW contracts, NEW a, isGenerated(a, contracts)
  PROVE  \/ a = main(contracts) \/ a = appModule(contracts)
         \/ a.path \in {<<"package.json">>, <<"tsconfig.json">>, healthFile, extensionModule,
                        <<"scripts", "contract-check">>, <<"Dockerfile">>, <<".dockerignore">>, <<".gitignore">>, <<"README.md">>}
         \/ \E name : a.path = shared(name)
         \/ \E contract \in Range(contracts) :
              \/ a = moduleFile(contract) 
              \/ a.path \in {contractFile(contract), implementation(contract), domainFile(contract, "types"),
                             domainFile(contract, "handlers"), domainFile(contract, "controller")}
<1>1. CASE a \in projectFiles(contracts)
  BY <1>1 DEF projectFiles, owned, seeded, dockerfile
<1>2. CASE a \in sharedFiles(contracts)
  BY <1>2 DEF sharedFiles, owned, DOMAIN_ERROR, VALIDATION, PROBLEM_FILTER, contractsController
<1>3. ASSUME NEW contract \in Range(contracts), a \in filesOf(contract)
      PROVE  \/ a = moduleFile(contract) 
             \/ a.path \in {contractFile(contract), implementation(contract), domainFile(contract, "types"),
                            domainFile(contract, "handlers"), domainFile(contract, "controller")}
  BY <1>3 DEF filesOf, owned, seeded, typesFile, handlersFile, controllerFile, seededHandlers
<1> QED
  BY <1>1, <1>2, <1>3 DEF isGenerated

LEMMA ImportsOfMain ==
  ASSUME NEW contracts, NEW a, isGenerated(a, contracts), a.path = mainFile
  PROVE  appFile \in a.imports
<1>1. a = main(contracts)
  <2>1. appModule(contracts).path = appFile /\ \A contract : moduleFile(contract).path = domainFile(contract, "module")
    BY DEF appModule, moduleFile, owned
  <2>2. ASSUME NEW c \in Range(contracts)
        PROVE  /\ a # moduleFile(c)
               /\ a.path \notin {contractFile(c), implementation(c), domainFile(c, "types"),
                                domainFile(c, "handlers"), domainFile(c, "controller")}
    <3>1. \A file : mainFile \notin {contractFile(c), domainFile(c, file), implementation(c)}
      BY PathsOfContracts
    <3> QED
      BY <2>1, <3>1
  <2>3. \A name : a.path # shared(name)
    BY PathsOfContracts
  <2>4. a.path \notin {<<"package.json">>, <<"tsconfig.json">>, healthFile, extensionModule, appFile,
                       <<"scripts", "contract-check">>, <<"Dockerfile">>, <<".dockerignore">>, <<".gitignore">>, <<"README.md">>}
    BY PathsOfProject
  <2> QED
    BY <2>1, <2>2, <2>3, <2>4, GeneratedPath
<1> QED
  BY <1>1 DEF main, owned

LEMMA ImportsOfApp ==
  ASSUME NEW contracts, NEW a, isGenerated(a, contracts), a.path = appFile, NEW contract \in Range(contracts)
  PROVE  domainFile(contract, "module") \in a.imports
<1>1. a = appModule(contracts)
  <2>1. main(contracts).path = mainFile /\ \A other : moduleFile(other).path = domainFile(other, "module")
    BY DEF main, moduleFile, owned
  <2>2. ASSUME NEW c \in Range(contracts)
        PROVE  /\ a # moduleFile(c)
               /\ a.path \notin {contractFile(c), implementation(c), domainFile(c, "types"),
                                domainFile(c, "handlers"), domainFile(c, "controller")}
    <3>1. \A file : appFile \notin {contractFile(c), domainFile(c, file), implementation(c)}
      BY PathsOfContracts
    <3> QED
      BY <2>1, <3>1
  <2>3. \A name : a.path # shared(name)
    BY PathsOfContracts
  <2>4. a.path \notin {<<"package.json">>, <<"tsconfig.json">>, healthFile, extensionModule, mainFile,
                       <<"scripts", "contract-check">>, <<"Dockerfile">>, <<".dockerignore">>, <<".gitignore">>, <<"README.md">>}
    BY PathsOfProject
  <2> QED
    BY <2>1, <2>2, <2>3, <2>4, GeneratedPath
<1> QED
  BY <1>1 DEF appModule, owned

LEMMA ImportsOfModule ==
  ASSUME NEW contracts, NEW a, isGenerated(a, contracts), NEW contract, a.path = domainFile(contract, "module")
  PROVE  domainFile(contract, "controller") \in a.imports /\ implementation(contract) \in a.imports
<1>1. PICK other \in Range(contracts) : a = moduleFile(other)
  <2>1. main(contracts).path = mainFile /\ appModule(contracts).path = appFile
    BY DEF main, appModule, owned
  <2> QED
    BY <2>1, GeneratedPath, PathsOfProject, PathsOfContracts
<1>2. contract.context = other.context
  <2>1. a.path = domainFile(other, "module")
    BY <1>1 DEF moduleFile, owned
  <2> QED
    BY <2>1, PathsOfContracts
<1>3. domainFile(other, "controller") \in a.imports /\ implementation(other) \in a.imports
  BY <1>1 DEF moduleFile, owned
<1> QED
  BY <1>2, <1>3 DEF domainFile, implementation

projectPaths ==
  {<<"package.json">>, <<"tsconfig.json">>, mainFile, appFile, healthFile, extensionModule}
  \union {<<"scripts", "contract-check">>, <<"Dockerfile">>, <<".dockerignore">>, <<".gitignore">>, <<"README.md">>}

LEMMA ElevenPaths == IsFiniteSet(projectPaths) /\ Cardinality(projectPaths) = 11
<1>1. PICK list : list = [i \in 1 .. 11 |->
    CASE i = 1 -> <<"package.json">> [] i = 2 -> <<"tsconfig.json">> [] i = 3 -> mainFile [] i = 4 -> appFile
      [] i = 5 -> healthFile [] i = 6 -> extensionModule [] i = 7 -> <<"scripts", "contract-check">>
      [] i = 8 -> <<"Dockerfile">> [] i = 9 -> <<".dockerignore">> [] i = 10 -> <<".gitignore">> [] i = 11 -> <<"README.md">>]
  OBVIOUS
<1>2. \A i \in 1 .. 11 : i \in {1, 2, 3, 4, 5, 6, 7, 8, 9, 10, 11}
  OBVIOUS
<1>3. ASSUME NEW i \in 1 .. 11, NEW j \in 1 .. 11, list[i] = list[j] PROVE i = j
  BY <1>1, <1>2, <1>3 DEF mainFile, appFile, healthFile, extensionModule
<1>4. /\ list \in [1 .. 11 -> projectPaths] 
      /\ \A p \in projectPaths : \E i \in 1 .. 11 : list[i] = p
  BY <1>1, <1>2 DEF projectPaths
<1>5. list \in Bijection(1 .. 11, projectPaths)
  BY <1>3, <1>4 DEF Bijection, Injection, Surjection, IsInjective
<1> QED
  BY <1>5, FS_CountingElements, FS_NatBijection DEF ExistsBijection

sharedPaths == {shared("domain-error"), shared("validation"), shared("problem.filter"), shared("contracts.controller")}

LEMMA FourPaths == IsFiniteSet(sharedPaths) /\ Cardinality(sharedPaths) = 4
<1>1. PICK list : list = [i \in 1 .. 4 |->
    CASE i = 1 -> shared("domain-error") [] i = 2 -> shared("validation")
      [] i = 3 -> shared("problem.filter") [] i = 4 -> shared("contracts.controller")]
  OBVIOUS
<1>2. \A i \in 1 .. 4 : i \in {1, 2, 3, 4}
  OBVIOUS
<1>3. ASSUME NEW i \in 1 .. 4, NEW j \in 1 .. 4, list[i] = list[j] PROVE i = j
  BY <1>1, <1>2, <1>3 DEF shared
<1>4. list \in [1 .. 4 -> sharedPaths] /\ \A p \in sharedPaths : \E i \in 1 .. 4 : list[i] = p
  BY <1>1, <1>2 DEF sharedPaths
<1>5. list \in Bijection(1 .. 4, sharedPaths)
  BY <1>3, <1>4 DEF Bijection, Injection, Surjection, IsInjective
<1> QED
  BY <1>5, FS_CountingElements, FS_NatBijection DEF ExistsBijection

(* Paths made of the contexts in C, one of each.                           *)
makes(f, C) == \A x, y \in C : f[x] = f[y] => x = y

LEMMA AsManyPaths ==
  ASSUME NEW C, IsFiniteSet(C), NEW f, makes(f, C), NEW T, T = {f[x] : x \in C}
  PROVE  IsFiniteSet(T) /\ Cardinality(T) = Cardinality(C)
<1>1. PICK g : g = [x \in C |-> f[x]]
  OBVIOUS
<1>2. g \in Bijection(C, T)
  BY <1>1 DEF makes, Bijection, Injection, Surjection, IsInjective
<1> QED
  BY <1>2, FS_Bijection DEF ExistsBijection

LEMMA DisjointSum ==
  ASSUME NEW S, IsFiniteSet(S), NEW T, IsFiniteSet(T), S \intersect T = {}
  PROVE  IsFiniteSet(S \union T) /\ Cardinality(S \union T) = Cardinality(S) + Cardinality(T)
<1>1. PICK W : W = S \intersect T
  OBVIOUS
<1>2. Cardinality(W) = 0
  BY <1>1, FS_EmptySet
<1>3. IsFiniteSet(S \union T) /\ Cardinality(S \union T) = Cardinality(S) + Cardinality(T) - Cardinality(W)
  BY <1>1, FS_Union, Zenon
<1>4. Cardinality(S) \in Nat /\ Cardinality(T) \in Nat
  BY FS_CardinalityType
<1> QED
  BY <1>2, <1>3, <1>4

(* The paths that contracts of these contexts add.                         *)
contractPaths(C) == {<<"contract", x>> : x \in C} \union {<<"src", "extension", x, "handlers">> : x \in C}
domainPaths(C, name) == {<<"src", "domain", x, name>> : x \in C}

LEMMA DomainPaths ==
  ASSUME NEW C, IsFiniteSet(C), NEW name
  PROVE  IsFiniteSet(domainPaths(C, name)) /\ Cardinality(domainPaths(C, name)) = Cardinality(C)
<1>1. PICK f : f = [x \in C |-> <<"src", "domain", x, name>>]
  OBVIOUS
<1>2. makes(f, C) /\ domainPaths(C, name) = {f[x] : x \in C}
  BY <1>1 DEF makes, domainPaths
<1> QED
  BY <1>2, AsManyPaths

LEMMA ContractPathsCount ==
  ASSUME NEW C, IsFiniteSet(C)
  PROVE  IsFiniteSet(contractPaths(C)) /\ Cardinality(contractPaths(C)) = 2 * Cardinality(C)
<1>1. PICK f : f = [x \in C |-> <<"contract", x>>]
  OBVIOUS
<1>2. PICK g : g = [x \in C |-> <<"src", "extension", x, "handlers">>]
  OBVIOUS
<1>3. PICK F : F = {f[x] : x \in C}
  OBVIOUS
<1>4. PICK G : G = {g[x] : x \in C}
  OBVIOUS
<1>5. makes(f, C) /\ makes(g, C) /\ contractPaths(C) = F \union G /\ F \intersect G = {}
  BY <1>1, <1>2, <1>3, <1>4 DEF makes, contractPaths
<1>6. IsFiniteSet(F) /\ Cardinality(F) = Cardinality(C) /\ IsFiniteSet(G) /\ Cardinality(G) = Cardinality(C)
  BY <1>3, <1>4, <1>5, AsManyPaths
<1> QED
  BY <1>5, <1>6, DisjointSum, FS_CardinalityType

LEMMA AllContractPaths ==
  ASSUME NEW C, IsFiniteSet(C), NEW n, n = Cardinality(C),
         NEW T, T = contractPaths(C) \union (domainPaths(C, "types") \union domainPaths(C, "handlers"))
                    \union (domainPaths(C, "controller") \union domainPaths(C, "module"))
  PROVE  IsFiniteSet(T) /\ Cardinality(T) = 6 * n
<1>1. PICK A : A = contractPaths(C)
  OBVIOUS
<1>2. PICK D1 : D1 = domainPaths(C, "types")
  OBVIOUS
<1>3. PICK D2 : D2 = domainPaths(C, "handlers")
  OBVIOUS
<1>4. PICK D3 : D3 = domainPaths(C, "controller")
  OBVIOUS
<1>5. PICK D4 : D4 = domainPaths(C, "module")
  OBVIOUS
<1>6. /\ D1 \intersect D2 = {} /\ D3 \intersect D4 = {} /\ (D1 \union D2) \intersect (D3 \union D4) = {}
      /\ A \intersect (D1 \union D2) = {} /\ A \intersect (D3 \union D4) = {}
  BY <1>1, <1>2, <1>3, <1>4, <1>5 DEF contractPaths, domainPaths
<1>7. /\ IsFiniteSet(D1) /\ IsFiniteSet(D2) /\ IsFiniteSet(D3) /\ IsFiniteSet(D4) /\ IsFiniteSet(A)
      /\ Cardinality(D1) = n /\ Cardinality(D2) = n /\ Cardinality(D3) = n /\ Cardinality(D4) = n /\ Cardinality(A) = 2 * n
  BY <1>1, <1>2, <1>3, <1>4, <1>5, DomainPaths, ContractPathsCount
<1>8. PICK D : D = D1 \union D2
  OBVIOUS
<1>9. PICK E : E = D3 \union D4
  OBVIOUS
<1>10. IsFiniteSet(D) /\ Cardinality(D) = n + n /\ IsFiniteSet(E) /\ Cardinality(E) = n + n
  BY <1>6, <1>7, <1>8, <1>9, DisjointSum
<1>11. IsFiniteSet(A \union D) /\ Cardinality(A \union D) = 2 * n + (n + n)
  BY <1>6, <1>7, <1>8, <1>10, DisjointSum
<1>12. (A \union D) \intersect E = {}
  BY <1>6, <1>8, <1>9
<1>13. IsFiniteSet((A \union D) \union E) /\ Cardinality((A \union D) \union E) = (2 * n + (n + n)) + (n + n)
  BY <1>10, <1>11, <1>12, DisjointSum
<1>14. n \in Nat
  BY FS_CardinalityType
<1>15. T = (A \union D) \union E
  BY <1>1, <1>2, <1>3, <1>4, <1>5, <1>8, <1>9
<1>16. (2 * n + (n + n)) + (n + n) = 6 * n
  BY <1>14
<1> QED
  BY <1>13, <1>15, <1>16, Zenon

(* The contexts of contracts, before and after the adapter is given them.  *)
contextSet(contracts) == {contract.context : contract \in Range(contracts)}
contextsOf(domains, cs) == {domains[x.domain].context : x \in cs}
contractsOf(system, c) == {x \in projectApiContracts(system) : x.provider = c}
pathsIn(files) == {files[i].path : i \in DOMAIN files}

(* The paths of the generated files.                                       *)
allContractPaths(C) ==
  contractPaths(C) \union (domainPaths(C, "types") \union domainPaths(C, "handlers"))
  \union (domainPaths(C, "controller") \union domainPaths(C, "module"))

LEMMA PathOfProject ==
  ASSUME NEW contracts, NEW p
  PROVE  (\E a \in projectFiles(contracts) : a.path = p) <=> p \in projectPaths
BY DEF projectFiles, projectPaths, owned, seeded, main, appModule, dockerfile

LEMMA PathOfShared ==
  ASSUME NEW contracts, NEW p
  PROVE  (\E a \in sharedFiles(contracts) : a.path = p) <=> p \in sharedPaths
BY DEF sharedFiles, sharedPaths, owned, DOMAIN_ERROR, VALIDATION, PROBLEM_FILTER, contractsController

LEMMA PathOfContract ==
  ASSUME NEW contract, NEW p
  PROVE  (\E a \in filesOf(contract) : a.path = p) <=> p \in pathsOf(contract)
BY DEF filesOf, pathsOf, owned, seeded, typesFile, handlersFile, controllerFile, moduleFile, seededHandlers

LEMMA PathOfContext ==
  ASSUME NEW contracts, NEW C, C = contextSet(contracts), NEW p
  PROVE  (\E contract \in Range(contracts) : p \in pathsOf(contract)) <=> p \in allContractPaths(C)
<1>1. p \in allContractPaths(C) <=>
        \E x \in C : \/ p = <<"contract", x>> \/ p = <<"src", "extension", x, "handlers">>
                     \/ p = <<"src", "domain", x, "types">> \/ p = <<"src", "domain", x, "handlers">>
                     \/ p = <<"src", "domain", x, "controller">> \/ p = <<"src", "domain", x, "module">>
  BY DEF allContractPaths, contractPaths, domainPaths
<1>2. \A contract : p \in pathsOf(contract) <=>
           \/ p = <<"contract", contract.context>> \/ p = <<"src", "extension", contract.context, "handlers">>
           \/ p = <<"src", "domain", contract.context, "types">> \/ p = <<"src", "domain", contract.context, "handlers">>
           \/ p = <<"src", "domain", contract.context, "controller">> \/ p = <<"src", "domain", contract.context, "module">>
  BY DEF pathsOf, contractFile, implementation, domainFile
<1> QED
  BY <1>1, <1>2 DEF contextSet

(* There are as many as files unless two contracts share a context.        *)
LEMMA PathsCount ==
  ASSUME NEW contracts, isList(contracts), NEW files, files = nestPlan(contracts),
         NEW C, IsFiniteSet(C), C = contextSet(contracts),
         NEW paths, paths = pathsIn(files)
  PROVE  Cardinality(paths) = 11 + (IF contracts = <<>> THEN 0 ELSE 4 + 6 * Cardinality(C))
<1>1. PICK T : T = allContractPaths(C)
  OBVIOUS
<1>2. PICK n : n = Cardinality(C)
  OBVIOUS
<1>3. IsFiniteSet(T) /\ Cardinality(T) = 6 * n /\ n \in Nat
  BY <1>1, <1>2, AllContractPaths, FS_CardinalityType DEF allContractPaths
<1>4. \A p : p \in paths <=> isPath(p, contracts)
  <2>1. \A p : p \in paths <=> \E a \in Range(files) : a.path = p
    BY DEF Range, pathsIn
  <2>2. \A a : a \in Range(files) <=> isGenerated(a, contracts)
    BY PlanIsGenerated
  <2> QED
    BY <2>1, <2>2 DEF isPath
<1>5. ASSUME NEW p
      PROVE  p \in paths <=> p \in projectPaths \/ (contracts # <<>> /\ p \in sharedPaths) \/ p \in T
  <2>1. isPath(p, contracts) <=> \/ \E a \in projectFiles(contracts) : a.path = p
                                 \/ contracts # <<>> /\ \E a \in sharedFiles(contracts) : a.path = p
                                 \/ \E contract \in Range(contracts) : \E a \in filesOf(contract) : a.path = p
    BY DEF isPath, isGenerated
  <2>2. (\E a \in projectFiles(contracts) : a.path = p) <=> p \in projectPaths
    BY PathOfProject
  <2>3. (\E a \in sharedFiles(contracts) : a.path = p) <=> p \in sharedPaths
    BY PathOfShared
  <2>4. (\E contract \in Range(contracts) : \E a \in filesOf(contract) : a.path = p)
        <=> \E contract \in Range(contracts) : p \in pathsOf(contract)
    BY PathOfContract
  <2>5. (\E contract \in Range(contracts) : p \in pathsOf(contract)) <=> p \in T
    BY <1>1, PathOfContext
  <2> QED
    BY <1>4, <2>1, <2>2, <2>3, <2>4, <2>5
<1>6. \A p \in T : \E x \in C : \/ p = <<"contract", x>> \/ p = <<"src", "extension", x, "handlers">>
                                \/ \E name : p = <<"src", "domain", x, name>>
  BY <1>1 DEF allContractPaths, contractPaths, domainPaths
<1>7. projectPaths \intersect T = {} /\ sharedPaths \intersect T = {} /\ projectPaths \intersect sharedPaths = {}
  <2>1. ASSUME NEW p \in projectPaths, NEW x, NEW name
        PROVE  /\ p # <<"contract", x>> /\ p # <<"src", "extension", x, "handlers">> /\ p # <<"src", "domain", x, name>>
    BY DEF projectPaths, mainFile, appFile, healthFile, extensionModule
  <2>2. ASSUME NEW p \in sharedPaths, NEW x, NEW name
        PROVE  /\ p # <<"contract", x>> /\ p # <<"src", "extension", x, "handlers">> /\ p # <<"src", "domain", x, name>>
    BY DEF sharedPaths, shared
  <2>3. projectPaths \intersect sharedPaths = {}
    BY DEF projectPaths, sharedPaths, shared, mainFile, appFile, healthFile, extensionModule
  <2> QED
    BY <1>6, <2>1, <2>2, <2>3
<1>8. CASE contracts = <<>>
  <2>1. Range(contracts) = {}
    BY <1>8 DEF Range
  <2>2. T = {}
    BY <1>6, <2>1 DEF contextSet
  <2>3. paths = projectPaths
    BY <1>5, <1>8, <2>2
  <2>4. Cardinality(paths) = 11
    BY <2>3, ElevenPaths, Zenon
  <2>5. 11 + 0 = 11
    OBVIOUS
  <2> QED
    BY <1>8, <2>4, <2>5, Zenon
<1>9. CASE contracts # <<>>
  <2>1. PICK Q : Q = projectPaths \union sharedPaths
    OBVIOUS
  <2>2. IsFiniteSet(Q) /\ Cardinality(Q) = 11 + 4
    BY <1>7, <2>1, ElevenPaths, FourPaths, DisjointSum
  <2>3. Q \intersect T = {} /\ paths = Q \union T
    BY <1>5, <1>7, <1>9, <2>1
  <2>4. Cardinality(paths) = (11 + 4) + 6 * n
    BY <1>3, <2>2, <2>3, DisjointSum
  <2> QED
    BY <1>2, <1>3, <1>9, <2>4
<1> QED
  BY <1>8, <1>9

(* The contracts that an adapter is given are those of the step.           *)
LEMMA ProvidedIs ==
  ASSUME NEW domains, NEW cs, IsFiniteSet(cs), NEW contracts, contracts = provided(domains, cs)
  PROVE  /\ isList(contracts) /\ Len(contracts) = Cardinality(cs)
         /\ (contracts = <<>> <=> cs = {})
         /\ contextSet(contracts) = contextsOf(domains, cs)
<1>1. PICK n : n = Cardinality(cs) /\ n \in Nat
  BY FS_CardinalityType
<1>2. PICK sorted : sorted = SetToSeq(cs)
  OBVIOUS
<1>3. sorted \in [1 .. n -> cs] /\ IsInjective(sorted)
  <2>1. \E f \in [1 .. n -> cs] : IsInjective(f)
    BY <1>1, FS_CardinalityType DEF ExistsBijection, Bijection, Injection
  <2> QED
    BY <1>1, <1>2, <2>1 DEF SetToSeq
<1>4. \A x \in cs : \E i \in 1 .. n : sorted[i] = x
  <2>1. PICK I : I = 1 .. n
    OBVIOUS
  <2>2. IsFiniteSet(I) /\ Cardinality(I) = Cardinality(cs)
    BY <1>1, <2>1, FS_Interval
  <2>3. sorted \in Injection(I, cs)
    BY <1>3, <2>1 DEF Injection
  <2>4. sorted \in Surjection(I, cs)
    BY <2>2, <2>3, FS_Injection
  <2> QED
    BY <2>1, <2>4 DEF Surjection
<1> DEFINE contract(x) == [context |-> domains[x.domain].context,
                           refers |-> x.operations \intersect {<<x.domain, o>> : o \in domains[x.domain].refers} # {}]
<1>5. contracts = [i \in 1 .. n |-> contract(sorted[i])]
  BY <1>2, <1>3 DEF provided
<1>6. ASSUME NEW i \in 1 .. n PROVE contracts[i].context = domains[sorted[i].domain].context
  BY <1>5
<1> HIDE DEF contract
<1>7. isList(contracts) /\ Len(contracts) = n /\ DOMAIN contracts = 1 .. n
  <2>1. contracts \in [1 .. n -> Range(contracts)] /\ DOMAIN contracts = 1 .. n
    BY <1>5 DEF Range
  <2> QED
    BY <1>1, <2>1, IntervalIsList DEF isList
<1>8. contracts = <<>> <=> cs = {}
  <2>1. n = 0 <=> cs = {}
    BY <1>1, FS_EmptySet
  <2>2. n = 0 <=> contracts = <<>>
    BY <1>1, <1>7 DEF isList
  <2> QED
    BY <2>1, <2>2
<1>9. contextSet(contracts) = contextsOf(domains, cs)
  <2>1. ASSUME NEW v PROVE (\E c \in Range(contracts) : v = c.context) <=> \E i \in 1 .. n : v = domains[sorted[i].domain].context
    BY <1>6, <1>7 DEF Range
  <2>2. ASSUME NEW v PROVE (\E x \in cs : v = domains[x.domain].context) <=> \E i \in 1 .. n : v = domains[sorted[i].domain].context
    BY <1>3, <1>4
  <2> QED
    BY <2>1, <2>2 DEF contextSet, contextsOf
<1> QED
  BY <1>1, <1>7, <1>8, <1>9

(* What the files of the entry point import, import and so on.             *)
reaches(f, files) ==
  f = [n \in Nat |-> IF n = 0 THEN {mainFile}
                     ELSE f[n - 1] \union UNION {fileAt(files, path).imports : path \in f[n - 1]}]

LEMMA ReachExists ==
  ASSUME NEW files, NEW paths, mainFile \in paths, \A path \in paths : fileAt(files, path).imports \subseteq paths
  PROVE  \E f : reaches(f, files)
<1>1. PICK X : X = SUBSET paths
  OBVIOUS
<1>2. PICK start : start = {mainFile}
  OBVIOUS
<1>3. PICK next : next = [p \in X \X Nat |-> p[1] \union UNION {fileAt(files, path).imports : path \in p[1]}]
  OBVIOUS
<1>4. start \in X
  BY <1>1, <1>2
<1>5. next \in [X \X Nat -> X]
  <2>1. ASSUME NEW p \in X \X Nat
        PROVE  p[1] \union UNION {fileAt(files, path).imports : path \in p[1]} \in X
    <3>1. p[1] \subseteq paths
      BY <1>1
    <3> QED
      BY <1>1, <3>1
  <2> QED
    BY <1>3, <2>1
<1>6. PICK f \in [Nat -> X] : Recurs(f, start, next)
  BY <1>4, <1>5, NatRecursion
<1>7. ASSUME NEW n \in Nat
      PROVE  f[n] = IF n = 0 THEN {mainFile}
                    ELSE f[n - 1] \union UNION {fileAt(files, path).imports : path \in f[n - 1]}
  <2>1. CASE n = 0
    BY <1>2, <1>6, <2>1 DEF Recurs
  <2>2. CASE n # 0
    <3>1. n \in Nat \ {0} /\ n - 1 \in Nat
      BY <2>2
    <3>2. f[n] = next[<<f[n - 1], n>>] /\ f[n - 1] \in X
      BY <1>6, <3>1 DEF Recurs
    <3>3. <<f[n - 1], n>> \in X \X Nat /\ <<f[n - 1], n>>[1] = f[n - 1]
      BY <3>2
    <3>4. next[<<f[n - 1], n>>] = f[n - 1] \union UNION {fileAt(files, path).imports : path \in f[n - 1]}
      BY <1>3, <3>3
    <3> QED
      BY <2>2, <3>2, <3>4
  <2> QED
    BY <2>1, <2>2
<1>8. f = [n \in Nat |-> f[n]]
  BY <1>6
<1>9. reaches(f, files)
  BY <1>7, <1>8 DEF reaches
<1> QED
  BY <1>9

(* In four steps they reach the controller and the handlers of a contract. *)
LEMMA FourSteps ==
  ASSUME NEW contracts, isList(contracts), NEW files, files = nestPlan(contracts),
         NEW f, reaches(f, files), NEW contract \in Range(contracts)
  PROVE  domainFile(contract, "controller") \in f[4] /\ implementation(contract) \in f[4]
<1>1. isList(files) /\ \A a : a \in Range(files) <=> isGenerated(a, contracts)
  BY PlanIsGenerated
<1>2. f[0] = {mainFile}
  BY DEF reaches
<1>3. ASSUME NEW n \in Nat, NEW p \in f[n]
      PROVE  p \in f[n + 1] /\ fileAt(files, p).imports \subseteq f[n + 1]
  <2>1. f[n + 1] = f[n] \union UNION {fileAt(files, path).imports : path \in f[n]}
    <3>1. n + 1 \in Nat /\ n + 1 # 0 /\ (n + 1) - 1 = n
      OBVIOUS
    <3> QED
      BY <3>1 DEF reaches
  <2> QED
    BY <2>1
<1>4. isPath(mainFile, contracts) /\ isPath(appFile, contracts) /\ isPath(domainFile(contract, "module"), contracts)
  BY ProjectPaths, PathsOfContract
<1>5. appFile \in fileAt(files, mainFile).imports
  BY <1>1, <1>4, FileAtPath, ImportsOfMain
<1>6. domainFile(contract, "module") \in fileAt(files, appFile).imports
  BY <1>1, <1>4, FileAtPath, ImportsOfApp
<1>7. PICK a : a = fileAt(files, domainFile(contract, "module"))
  OBVIOUS
<1>8. domainFile(contract, "controller") \in a.imports /\ implementation(contract) \in a.imports
  <2>1. isGenerated(a, contracts) /\ a.path = domainFile(contract, "module")
    BY <1>1, <1>4, <1>7, FileAtPath
  <2> QED
    BY <2>1, ImportsOfModule
<1>9. appFile \in f[1]
  <2>1. mainFile \in f[0] /\ 0 \in Nat /\ 0 + 1 = 1
    BY <1>2
  <2> QED
    BY <1>3, <1>5, <2>1
<1>10. domainFile(contract, "module") \in f[2]
  BY <1>3, <1>6, <1>9
<1>11. domainFile(contract, "controller") \in f[3] /\ implementation(contract) \in f[3]
  BY <1>3, <1>7, <1>8, <1>10
<1> QED
  BY <1>3, <1>11

(* A component has finitely many contracts, one per domain at most.        *)
LEMMA FewContracts ==
  ASSUME NEW system, isSystem(system), NEW c, NEW cs, cs = contractsOf(system, c)
  PROVE  IsFiniteSet(cs)
<1>1. IsFiniteSet(DOMAIN system.domains)
  <2>1. DOMAIN system.domains = 1 .. Len(system.domains) /\ Len(system.domains) \in Nat
    BY DEF isSystem, isList
  <2> QED
    BY <2>1, FS_Interval
<1>2. PICK g : g = [k \in DOMAIN system.domains |-> projectApiContract(system, k, c)]
  OBVIOUS
<1>3. PICK T : T = {g[k] : k \in DOMAIN system.domains}
  OBVIOUS
<1>4. g \in Surjection(DOMAIN system.domains, T)
  BY <1>2, <1>3 DEF Surjection
<1>5. IsFiniteSet(T)
  BY <1>1, <1>4, FS_Surjection
<1>6. cs \subseteq T
  <2> SUFFICES ASSUME NEW x \in cs PROVE x \in T
    OBVIOUS
  <2>1. PICK k \in DOMAIN system.domains, d \in DOMAIN system.components : x = projectApiContract(system, k, d)
    BY DEF projectApiContracts, contractsOf
  <2>2. x.provider = d /\ x.provider = c
    BY <2>1 DEF projectApiContract, contractsOf
  <2> QED
    BY <1>2, <1>3, <2>1, <2>2
<1> QED
  BY <1>5, <1>6, FS_Subset

(* The contracts of a step.                                                *)
LEMMA StepContracts ==
  ASSUME CInv, accepted, result.plan # Null, NEW s \in result.plan.steps, s.action = "MATERIALIZE"
  PROVE  IsFiniteSet(s.contracts)
<1>1. PICK contracts : /\ contracts = projectApiContracts(input.system)
                       /\ s \in planSteps(input.system.components, result.resolved, contracts)
  BY PlanIsPlanned, PlanFields
<1>2. PICK components : components = input.system.components
  OBVIOUS
<1>3. PICK resolved : resolved = result.resolved
  OBVIOUS
<1>4. \E c \in DOMAIN components : s.contracts = {contract \in contracts : contract.provider = c}
  <2>1. \/ \E c \in DOMAIN components :
             s = [action |-> IF components[c].class = "EXTERNAL" THEN "CONNECT_EXTERNAL" ELSE "MATERIALIZE",
                  component |-> c, with |-> resolved[c].adapter,
                  contracts |-> {contract \in contracts : contract.provider = c}]
        \/ s.action = "BIND_CAPABILITY"
    BY <1>1, <1>2, <1>3 DEF planSteps
  <2> QED
    BY <2>1
<1>5. isSystem(input.system)
  BY SystemIsWellFormed
<1>6. \E c : s.contracts = contractsOf(input.system, c)
  BY <1>1, <1>4 DEF contractsOf
<1> QED
  BY <1>5, <1>6, FewContracts

(* A project is whole.                                                     *)
isWhole(files, paths, C, cs, f) ==
  /\ \A a \in Range(files) : a.imports \subseteq paths
  /\ \A context \in C :
       {domainFile([context |-> context], "controller"), implementation([context |-> context])} \subseteq f[4]
  /\ \A a \in Range(files) : (a.ownership = "OWNER_SEEDED") = IsPrefix(<<"src", "extension">>, a.path)
  /\ (Cardinality(paths) = Len(files)) = (Cardinality(C) = Cardinality(cs))

LEMMA ProjectIsWhole ==
  ASSUME NEW domains, NEW cs, IsFiniteSet(cs), NEW contracts, contracts = provided(domains, cs),
         NEW files, files = nestPlan(contracts), NEW paths, paths = pathsIn(files),
         NEW C, C = contextsOf(domains, cs), NEW f, reaches(f, files)
  PROVE  isWhole(files, paths, C, cs, f)
<1>1. /\ isList(contracts) /\ Len(contracts) = Cardinality(cs) /\ (contracts = <<>> <=> cs = {})
      /\ C = contextSet(contracts)
  BY ProvidedIs
<1>2. /\ isList(files) /\ \A a : a \in Range(files) <=> isGenerated(a, contracts)
      /\ Len(files) = 11 + (IF contracts = <<>> THEN 0 ELSE 4 + 6 * Len(contracts))
  BY <1>1, PlanIsGenerated
<1>3. \A p : p \in paths <=> isPath(p, contracts)
  <2>1. \A p : p \in paths <=> \E a \in Range(files) : a.path = p
    BY DEF Range, pathsIn
  <2> QED
    BY <1>2, <2>1 DEF isPath
<1>4. ASSUME NEW a \in Range(files) PROVE a.imports \subseteq paths
  BY <1>1, <1>2, <1>3, ImportsAreGenerated
<1>5. ASSUME NEW a \in Range(files)
      PROVE  (a.ownership = "OWNER_SEEDED") = IsPrefix(<<"src", "extension">>, a.path)
  BY <1>2, OwnerSeeded
<1>6. ASSUME NEW context \in C
      PROVE  {domainFile([context |-> context], "controller"), implementation([context |-> context])} \subseteq f[4]
  <2>1. PICK contract \in Range(contracts) : contract.context = context
    BY <1>1 DEF contextSet
  <2>2. domainFile(contract, "controller") \in f[4] /\ implementation(contract) \in f[4]
    BY <1>1, FourSteps
  <2>3. domainFile([context |-> context], "controller") = domainFile(contract, "controller")
        /\ implementation([context |-> context]) = implementation(contract)
    BY <2>1 DEF domainFile, implementation
  <2> QED
    BY <2>2, <2>3
<1>7. (Cardinality(paths) = Len(files)) = (Cardinality(C) = Cardinality(cs))
  <2>1. IsFiniteSet(C)
    <3>1. PICK g : g = [x \in cs |-> domains[x.domain].context]
      OBVIOUS
    <3>2. g \in Surjection(cs, C)
      BY <3>1 DEF Surjection, contextsOf
    <3> QED
      BY <3>2, FS_Surjection
  <2>2. PICK n : n = Cardinality(cs) /\ n \in Nat
    BY FS_CardinalityType
  <2>3. PICK m : m = Cardinality(C) /\ m \in Nat
    BY <2>1, FS_CardinalityType
  <2>4. Cardinality(paths) = 11 + (IF contracts = <<>> THEN 0 ELSE 4 + 6 * m)
    BY <1>1, <2>1, <2>3, PathsCount
  <2>5. Len(files) = 11 + (IF contracts = <<>> THEN 0 ELSE 4 + 6 * n)
    BY <1>1, <1>2, <2>2
  <2>6. contracts = <<>> => n = 0 /\ m = 0
    <3> SUFFICES ASSUME contracts = <<>> PROVE n = 0 /\ m = 0
      OBVIOUS
    <3>1. cs = {} /\ C = {}
      BY <1>1 DEF contextsOf
    <3> QED
      BY <2>2, <2>3, <3>1, FS_EmptySet
  <2>7. Cardinality(paths) = Len(files) <=> m = n
    <3>1. PICK x : x = Cardinality(paths)
      OBVIOUS
    <3>2. PICK y : y = Len(files)
      OBVIOUS
    <3>3. CASE contracts = <<>>
      <4>1. x = 11 + 0 /\ y = 11 + 0 /\ n = 0 /\ m = 0
        BY <2>4, <2>5, <2>6, <3>1, <3>2, <3>3, Zenon
      <4> QED
        BY <3>1, <3>2, <4>1
    <3>4. CASE contracts # <<>>
      <4>1. x = 11 + (4 + 6 * m) /\ y = 11 + (4 + 6 * n)
        BY <2>4, <2>5, <3>1, <3>2, <3>4, Zenon
      <4>2. x = y <=> m = n
        <5>1. 11 + (4 + 6 * m) = 11 + (4 + 6 * n) <=> m = n
          BY <2>2, <2>3
        <5> QED
          BY <4>1, <5>1, Zenon
      <4> QED
        BY <3>1, <3>2, <4>2
    <3> QED
      BY <3>3, <3>4
  <2> QED
    BY <2>2, <2>3, <2>7
<1> QED
  BY <1>4, <1>5, <1>6, <1>7 DEF isWhole

wholeProject(domains, contracts) ==
  LET artifacts == nestPlan(provided(domains, contracts))
      at(path) == artifacts[SelectInSeq(artifacts, LAMBDA a : a.path = path)]
      paths == {artifacts[i].path : i \in DOMAIN artifacts}
      contexts == {domains[x.domain].context : x \in contracts}
      reach[n \in Nat] == IF n = 0 THEN {mainFile}
                          ELSE reach[n - 1] \union UNION {at(path).imports : path \in reach[n - 1]}
  IN  /\ \A a \in Range(artifacts) : a.imports \subseteq paths
      /\ \A context \in contexts :
           {domainFile([context |-> context], "controller"), implementation([context |-> context])} \subseteq reach[4]
      /\ \A a \in Range(artifacts) : (a.ownership = "OWNER_SEEDED") = IsPrefix(<<"src", "extension">>, a.path)
      /\ (Cardinality(paths) = Len(artifacts)) = (Cardinality(contexts) = Cardinality(contracts))

LEMMA GeneratedIsWhole ==
  ASSUME NEW domains, NEW cs, IsFiniteSet(cs)
  PROVE  wholeProject(domains, cs)
<1> DEFINE artifacts == nestPlan(provided(domains, cs))
           at(path) == artifacts[SelectInSeq(artifacts, LAMBDA a : a.path = path)]
           reach[n \in Nat] == IF n = 0 THEN {mainFile}
                               ELSE reach[n - 1] \union UNION {at(path).imports : path \in reach[n - 1]}
           paths == pathsIn(artifacts)
           C == contextsOf(domains, cs)
<1>1. PICK contracts : contracts = provided(domains, cs)
  OBVIOUS
<1>2. isList(contracts) /\ artifacts = nestPlan(contracts)
  BY <1>1, ProvidedIs
<1> HIDE DEF artifacts
<1>3. isList(artifacts) /\ \A a : a \in Range(artifacts) <=> isGenerated(a, contracts)
  BY <1>2, PlanIsGenerated
<1>4. \A p : p \in paths <=> isPath(p, contracts)
  <2>1. \A p : p \in paths <=> \E a \in Range(artifacts) : a.path = p
    BY DEF Range, pathsIn
  <2> QED
    BY <1>3, <2>1 DEF isPath
<1>5. ASSUME NEW path \in paths PROVE fileAt(artifacts, path).imports \subseteq paths
  <2>1. isGenerated(fileAt(artifacts, path), contracts)
    BY <1>3, <1>4, FileAtPath
  <2> QED
    BY <1>2, <1>4, <2>1, ImportsAreGenerated
<1>6. \E g : reaches(g, artifacts)
  <2>1. mainFile \in paths
    BY <1>4, ProjectPaths
  <2> HIDE DEF paths
  <2> QED
    BY <1>5, <2>1, ReachExists
<1>7. reaches(reach, artifacts)
  BY <1>6 DEF reaches, fileAt, SelectInSeq
<1>8. isWhole(artifacts, paths, C, cs, reach)
  <2> HIDE DEF reach
  <2> QED
    BY <1>1, <1>2, <1>7, ProjectIsWhole
<1> QED
  BY <1>8, Zenon DEF wholeProject, isWhole, artifacts, pathsIn, contextsOf

(* What the NestJS adapter generates for a step is a whole, whatever the   *)
(* contracts of the component are: what a file needs is generated, the     *)
(* entry point reaches every controller and handler, only src/extension is *)
(* the owner's, and paths are distinct exactly when contexts are (plan of  *)
(* the adapter and contractArtifacts).                                     *)
THEOREM ProjectsAreWhole == Spec => []ImportsResolve
<1>1. CInv => ImportsResolve
  <2> SUFFICES ASSUME CInv, accepted, result.plan # Null,
                      NEW step \in result.plan.steps, step.action = "MATERIALIZE"
               PROVE  wholeProject(input.system.domains, step.contracts)
    BY DEF ImportsResolve, wholeProject
  <2> QED
    BY StepContracts, GeneratedIsWhole
<1> QED
  BY <1>1, Compiled, PTL

(***************************************************************************)
(* What a result is.                                                       *)
(***************************************************************************)

(* Null is a value of its own: it is no function, so no record either.     *)
NullIsNoFunction == \A f : f = [x \in DOMAIN f |-> f[x]] => f # Null

(* What the host reports is not about policies.                            *)
LEMMA HostCodes ==
  ASSUME NEW files
  PROVE  "POLICY_VIOLATION" \notin loadExtensions(files).diagnostics
<1>1. PICK manifests : loadExtensions(files).diagnostics =
        ({refusal(f) : f \in Range(files)} \ {Null}) \union catalogFromManifests(manifests).diagnostics
  BY DEF loadExtensions
<1>2. \A f : refusal(f) # "POLICY_VIOLATION" \/ refusal(f) = Null
  BY DEF refusal
<1>3. \A c : "POLICY_VIOLATION" \notin catalogDiagnostics(c)
  BY DEF catalogDiagnostics
<1>4. "POLICY_VIOLATION" \notin catalogFromManifests(manifests).diagnostics
  BY <1>3 DEF catalogFromManifests, validateCatalog
<1> QED
  BY <1>1, <1>2, <1>4

(* A result is a compilation or has neither plan nor resolution; the host  *)
(* may add to its diagnostics and make it invalid.                         *)
LEMMA ResultIs ==
  ASSUME CInv, result # Null
  PROVE  \/ /\ result.status \in {"INVALID", "THROWN"}
            /\ result.plan = Null /\ result.resolved = Null
         \/ \E out \in {compiled(input)} :
              /\ result.status \in {"INVALID", out.status}
              /\ result.plan = out.plan /\ result.resolved = out.resolved
              /\ "POLICY_VIOLATION" \in result.diagnostics => "POLICY_VIOLATION" \in out.diagnostics
<1>1. PICK planned : planned = facadePlan(input)
  OBVIOUS
<1>2. result = reported(input, planned)
  BY <1>1 DEF CInv
<1>3. PICK out : out = compiled(input)
  OBVIOUS
<1>4. PICK found : found = loadExtensions(input.extensions).diagnostics /\ "POLICY_VIOLATION" \notin found
  BY HostCodes
<1>5. \/ planned = notCompiled("INVALID", documentDiagnostics(input))
      \/ planned = notCompiled("THROWN", {})
      \/ planned = out
  BY <1>1, <1>3 DEF facadePlan
<1>6. planned = [status |-> planned.status, diagnostics |-> planned.diagnostics, bindings |-> planned.bindings,
                 resolved |-> planned.resolved, policy |-> planned.policy, plan |-> planned.plan]
  BY <1>3, <1>5 DEF compiled, notCompiled
<1>7. /\ result.status \in {"INVALID", planned.status}
      /\ result.plan = planned.plan /\ result.resolved = planned.resolved
      /\ "POLICY_VIOLATION" \in result.diagnostics => "POLICY_VIOLATION" \in planned.diagnostics
  <2>1. CASE result = planned
    BY <2>1
  <2>2. CASE result # planned
    <3>1. result = [planned EXCEPT !.diagnostics = @ \union found,
                                   !.status = IF found \subseteq HOST_WARNINGS THEN @ ELSE "INVALID"]
      BY <1>2, <1>4, <2>2 DEF reported
    <3> QED
      BY <1>4, <1>6, <3>1
  <2> QED
    BY <2>1, <2>2
<1>8. CASE planned = notCompiled("INVALID", documentDiagnostics(input)) \/ planned = notCompiled("THROWN", {})
  <2>1. planned.status \in {"INVALID", "THROWN"} /\ planned.plan = Null /\ planned.resolved = Null
    BY <1>8 DEF notCompiled
  <2> QED
    BY <1>7, <2>1
<1>9. CASE planned = out
  BY <1>3, <1>7, <1>9
<1> QED
  BY <1>5, <1>8, <1>9

(* The type invariant of the compiler: what a result may be, a plan exists *)
(* unless policies are violated, and a component is realized by an adapter *)
(* or unsupported (PlanResult of facade.ts, ResolvedComponent).            *)
THEOREM ResultsAreTyped == Spec => [](NullIsNoFunction => CTypeOK)
<1>1. CInv /\ NullIsNoFunction => CTypeOK
  <2> SUFFICES ASSUME CInv, NullIsNoFunction PROVE CTypeOK
    OBVIOUS
  <2>1. applied \in Instant \union {Null}
    BY DEF CInv
  <2>2. ASSUME NEW out, out = compiled(input)
        PROVE  /\ out.status \in {"PLANNED", "PARTIAL", "INVALID"}
               /\ (out.plan = Null) <=> out.status = "INVALID"
               /\ "POLICY_VIOLATION" \in out.diagnostics => out.status = "INVALID"
    <3>1. /\ out.status = statusOf(input.system, out.resolved, out.diagnostics)
          /\ out.plan = planUnlessInvalid(out.status, planSystem(input, out.resolved, out.policy))
      BY <2>2, CompiledFields
    <3>2. /\ out.status \in {"PLANNED", "PARTIAL", "INVALID"}
          /\ "POLICY_VIOLATION" \in out.diagnostics <=> out.status = "INVALID"
      BY <3>1 DEF statusOf
    <3>3. planSystem(input, out.resolved, out.policy) # Null
      <4>1. PICK plan : plan = planSystem(input, out.resolved, out.policy)
        OBVIOUS
      <4>2. plan = [x \in DOMAIN plan |-> plan[x]]
        BY <4>1 DEF planSystem
      <4> QED
        BY <4>1, <4>2 DEF NullIsNoFunction
    <3> QED
      BY <3>1, <3>2, <3>3 DEF planUnlessInvalid
  <2>3. ASSUME result # Null
        PROVE  /\ result.status \in {"PLANNED", "PARTIAL", "INVALID", "THROWN"}
               /\ result.status \in {"PLANNED", "PARTIAL"} => result.plan # Null
               /\ result.plan # Null => result.status # "INVALID" \/ "POLICY_VIOLATION" \notin result.diagnostics
    BY <2>2, <2>3, ResultIs
  <2>4. ASSUME accepted, NEW c \in DOMAIN input.system.components
        PROVE  /\ result.resolved[c].status \in {"RESOLVED", "UNSUPPORTED"}
               /\ (result.resolved[c].adapter = Null) = (result.resolved[c].status = "UNSUPPORTED")
    <3>1. PICK resolved : resolved = result.resolved[c]
      OBVIOUS
    <3>2. resolved = resolveComponent(catalogOf(input), input.system.components[c])
      BY <2>4, <3>1, AcceptedIsCompiled DEF resolveSystem
    <3>3. CASE resolved.status = "RESOLVED"
      <4>1. PICK i \in DOMAIN catalogOf(input).adapters : resolved.adapter = catalogOf(input).adapters[i].id
        BY <2>4, <3>1, <3>3, RealizedBy
      <4>2. resolved.adapter # Null
        BY <2>4, <4>1, CatalogIsWellFormed DEF isCatalog
      <4> QED
        BY <3>1, <3>3, <4>2
    <3>4. CASE resolved.status # "RESOLVED"
      BY <3>1, <3>2, <3>4 DEF resolveComponent
    <3> QED
      BY <3>3, <3>4
  <2> QED
    BY <2>1, <2>3, <2>4 DEF CTypeOK, accepted
<1> QED
  BY <1>1, Compiled, PTL

(***************************************************************************)
(* Design tokens.                                                          *)
(***************************************************************************)

(* Tokens that validation accepts, with their overrides.                   *)
targetOf(tokens, path) == aliasOf(tokens[path].value)
isRecord(token) == token = [type |-> token.type, value |-> token.value]
isTokens(tokens) ==
  /\ IsFiniteSet(DOMAIN tokens) /\ Null \notin DOMAIN tokens
  /\ \A path \in DOMAIN tokens :
       /\ isRecord(tokens[path])
       /\ IF targetOf(tokens, path) = Null THEN tokens[path].type \in tokens[path].value.fits
          ELSE targetOf(tokens, path) \in DOMAIN tokens /\ tokens[targetOf(tokens, path)].type = tokens[path].type

(* The rounds of their resolution.                                         *)
retyped(token, type) == [token EXCEPT !.type = type]
resolvedAt(previous, n, tokens, path) ==
  IF targetOf(tokens, path) = Null THEN tokens[path]
  ELSE IF n = 0 \/ targetOf(tokens, path) \notin DOMAIN tokens \/ previous[targetOf(tokens, path)] = Null THEN Null
  ELSE retyped(previous[targetOf(tokens, path)], tokens[path].type)

roundOf(previous, n, tokens) == [path \in DOMAIN tokens |-> resolvedAt(previous, n, tokens, path)]
resolves(f, tokens) == f = [n \in Nat |-> roundOf(f[n - 1], n, tokens)]

LEMMA RetypedIs ==
  ASSUME NEW token, isRecord(token), NEW type
  PROVE  retyped(token, type) = [type |-> type, value |-> token.value]
BY DEF isRecord, retyped

LEMMA ResolveExists ==
  ASSUME NEW tokens, isTokens(tokens)
  PROVE  \E f : resolves(f, tokens)
<1>1. PICK D : D = DOMAIN tokens
  OBVIOUS
<1>2. PICK T : T = {tokens[path].type : path \in D}
  OBVIOUS
<1>3. PICK W : W = {tokens[path].value : path \in D}
  OBVIOUS
<1>4. PICK V : V = [type : T, value : W] \union {Null}
  OBVIOUS
<1>5. PICK X : X = [D -> V]
  OBVIOUS
<1>6. \A path \in D : tokens[path] \in [type : T, value : W]
  <2>1. ASSUME NEW path \in D PROVE tokens[path] \in [type : T, value : W]
    <3>1. isRecord(tokens[path]) /\ tokens[path].type \in T /\ tokens[path].value \in W
      BY <1>1, <1>2, <1>3 DEF isTokens
    <3> QED
      BY <3>1 DEF isRecord
  <2> QED
    BY <2>1
<1>7. ASSUME NEW previous \in X, NEW n PROVE roundOf(previous, n, tokens) \in X
  <2>1. ASSUME NEW path \in D PROVE resolvedAt(previous, n, tokens, path) \in V
    <3>1. CASE targetOf(tokens, path) = Null
      BY <1>4, <1>6, <3>1 DEF resolvedAt
    <3>2. CASE targetOf(tokens, path) # Null /\ (n = 0 \/ targetOf(tokens, path) \notin D \/ previous[targetOf(tokens, path)] = Null)
      BY <1>1, <1>4, <3>2 DEF resolvedAt
    <3>3. CASE targetOf(tokens, path) # Null /\ ~ (n = 0 \/ targetOf(tokens, path) \notin D \/ previous[targetOf(tokens, path)] = Null)
      <4>1. PICK token : token = previous[targetOf(tokens, path)]
        OBVIOUS
      <4>2. token \in [type : T, value : W]
        BY <1>4, <1>5, <3>3, <4>1
      <4>3. isRecord(token) /\ token.value \in W
        BY <4>2 DEF isRecord
      <4>4. tokens[path].type \in T
        BY <1>2
      <4>5. retyped(token, tokens[path].type) \in [type : T, value : W]
        BY <4>3, <4>4, RetypedIs
      <4>6. resolvedAt(previous, n, tokens, path) = retyped(token, tokens[path].type)
        BY <1>1, <3>3, <4>1 DEF resolvedAt
      <4> QED
        BY <1>4, <4>5, <4>6
    <3> QED
      BY <3>1, <3>2, <3>3
  <2> QED
    BY <1>1, <1>5, <2>1 DEF roundOf
<1>8. PICK nothing : nothing = [path \in D |-> Null]
  OBVIOUS
<1>9. PICK start : start = roundOf(nothing, 0, tokens)
  OBVIOUS
<1>10. start \in X
  <2>1. nothing \in X
    BY <1>4, <1>5, <1>8
  <2> QED
    BY <1>7, <1>9, <2>1
<1>11. PICK next : next = [p \in X \X Nat |-> roundOf(p[1], p[2], tokens)]
  OBVIOUS
<1>12. next \in [X \X Nat -> X]
  <2>1. ASSUME NEW p \in X \X Nat PROVE roundOf(p[1], p[2], tokens) \in X
    BY <1>7
  <2> QED
    BY <1>11, <2>1
<1>13. PICK f \in [Nat -> X] : Recurs(f, start, next)
  BY <1>10, <1>12, NatRecursion
<1>14. ASSUME NEW n \in Nat PROVE f[n] = roundOf(f[n - 1], n, tokens)
  <2>1. CASE n = 0
    <3>1. f[0] = start
      BY <1>13 DEF Recurs
    <3>2. ASSUME NEW g, NEW h, NEW path PROVE resolvedAt(g, 0, tokens, path) = resolvedAt(h, 0, tokens, path)
      BY DEF resolvedAt
    <3>3. roundOf(nothing, 0, tokens) = roundOf(f[0 - 1], 0, tokens)
      <4>1. PICK g : g = f[0 - 1]
        OBVIOUS
      <4>2. \A path : resolvedAt(nothing, 0, tokens, path) = resolvedAt(g, 0, tokens, path)
        BY <3>2
      <4> QED
        BY <4>1, <4>2 DEF roundOf
    <3> QED
      BY <1>9, <2>1, <3>1, <3>3
  <2>2. CASE n # 0
    <3>1. n \in Nat \ {0} /\ n - 1 \in Nat
      BY <2>2
    <3>2. f[n] = next[<<f[n - 1], n>>] /\ f[n - 1] \in X
      BY <1>13, <3>1 DEF Recurs
    <3>3. PICK p \in X \X Nat : p = <<f[n - 1], n>> /\ p[1] = f[n - 1] /\ p[2] = n
      BY <3>2
    <3>4. next[p] = roundOf(p[1], p[2], tokens)
      BY <1>11, <3>3
    <3> QED
      BY <3>2, <3>3, <3>4
  <2> QED
    BY <2>1, <2>2
<1>15. f = [n \in Nat |-> f[n]]
  BY <1>13
<1>16. f = [n \in Nat |-> roundOf(f[n - 1], n, tokens)]
  BY <1>14, <1>15
<1> QED
  BY <1>16 DEF resolves

LEMMA ResolvesIs ==
  ASSUME NEW tokens, isTokens(tokens), NEW f, f = resolveToken(tokens)
  PROVE  \A n \in Nat : f[n] = roundOf(f[n - 1], n, tokens)
<1> DEFINE resolve == CHOOSE g : g = [n \in Nat |-> roundOf(g[n - 1], n, tokens)]
<1>1. resolve = [n \in Nat |-> roundOf(resolve[n - 1], n, tokens)]
  BY ResolveExists DEF resolves
<1>2. f = resolve
  BY DEF resolveToken, roundOf, resolvedAt, targetOf, retyped
<1>3. \A n \in Nat : resolve[n] = roundOf(resolve[n - 1], n, tokens)
  <2> HIDE DEF resolve
  <2> QED
    BY <1>1
<1> HIDE DEF resolve
<1> QED
  BY <1>2, <1>3

(* What a token is once it is resolved: of its own type, and a literal     *)
(* that is valid for it.                                                   *)
isResolved(token, tokens, path) ==
  isRecord(token) /\ token.type = tokens[path].type /\ token.type \in token.value.fits

isRounds(f, tokens) ==
  /\ \A n \in Nat : DOMAIN f[n] = DOMAIN tokens
  /\ \A n \in Nat : \A path \in DOMAIN tokens : f[n][path] # Null => isResolved(f[n][path], tokens, path)
  /\ \A path \in DOMAIN tokens : f[0][path] # Null <=> targetOf(tokens, path) = Null
  /\ \A n \in Nat : \A path \in DOMAIN tokens :
       f[n + 1][path] # Null <=> targetOf(tokens, path) = Null \/ f[n][targetOf(tokens, path)] # Null

LEMMA RecordIsNotNull ==
  ASSUME NullIsNoFunction, NEW token, isRecord(token)
  PROVE  token # Null
<1>1. token = [x \in DOMAIN token |-> token[x]]
  BY DEF isRecord
<1> QED
  BY <1>1 DEF NullIsNoFunction

LEMMA RoundsAre ==
  ASSUME NullIsNoFunction, NEW tokens, isTokens(tokens), NEW f, f = resolveToken(tokens)
  PROVE  isRounds(f, tokens)
<1>1. PICK D : D = DOMAIN tokens
  OBVIOUS
<1>2. \A n \in Nat : f[n] = roundOf(f[n - 1], n, tokens)
  BY ResolvesIs
<1>3. ASSUME NEW n \in Nat PROVE DOMAIN f[n] = D /\ \A path \in D : f[n][path] = resolvedAt(f[n - 1], n, tokens, path)
  BY <1>1, <1>2 DEF roundOf
<1>4. ASSUME NEW path \in D, targetOf(tokens, path) = Null PROVE isResolved(tokens[path], tokens, path)
  BY <1>1, <1>4 DEF isTokens, isResolved
<1>5. ASSUME NEW path \in D PROVE f[0][path] = IF targetOf(tokens, path) = Null THEN tokens[path] ELSE Null
  BY <1>3 DEF resolvedAt
<1>6. ASSUME NEW path \in D PROVE tokens[path] # Null
  BY <1>1, RecordIsNotNull DEF isTokens
<1>7. ASSUME NEW n \in Nat, NEW path \in D
      PROVE  f[n + 1][path] = IF targetOf(tokens, path) = Null THEN tokens[path]
                              ELSE IF f[n][targetOf(tokens, path)] = Null THEN Null
                              ELSE retyped(f[n][targetOf(tokens, path)], tokens[path].type)
  <2>1. n + 1 \in Nat /\ n + 1 # 0 /\ (n + 1) - 1 = n
    OBVIOUS
  <2>2. f[n + 1][path] = resolvedAt(f[n], n + 1, tokens, path)
    BY <1>3, <2>1
  <2>3. targetOf(tokens, path) # Null => targetOf(tokens, path) \in DOMAIN tokens
    BY <1>1 DEF isTokens
  <2> QED
    BY <2>1, <2>2, <2>3 DEF resolvedAt
<1>8. ASSUME NEW n \in Nat, NEW path \in D, targetOf(tokens, path) # Null,
             NEW token, token = f[n][targetOf(tokens, path)], isResolved(token, tokens, targetOf(tokens, path))
      PROVE  isResolved(retyped(token, tokens[path].type), tokens, path)
  <2>1. PICK out : out = retyped(token, tokens[path].type)
    OBVIOUS
  <2>2. isRecord(token) /\ token.type = tokens[targetOf(tokens, path)].type /\ token.type \in token.value.fits
    BY <1>8 DEF isResolved
  <2>3. tokens[targetOf(tokens, path)].type = tokens[path].type
    BY <1>1, <1>8 DEF isTokens
  <2>4. out = [type |-> tokens[path].type, value |-> token.value]
    BY <2>1, <2>2, RetypedIs
  <2>5. out.type = tokens[path].type /\ out.value = token.value /\ isRecord(out)
    BY <2>4 DEF isRecord
  <2> QED
    BY <2>1, <2>2, <2>3, <2>5 DEF isResolved
<1> DEFINE S == {n \in Nat : \A path \in D : f[n][path] # Null => isResolved(f[n][path], tokens, path)}
<1>9. 0 \in S
  BY <1>4, <1>5
<1>10. ASSUME NEW n \in Nat, n \in S PROVE n + 1 \in S
  <2> SUFFICES ASSUME NEW path \in D, f[n + 1][path] # Null PROVE isResolved(f[n + 1][path], tokens, path)
    OBVIOUS
  <2>1. CASE targetOf(tokens, path) = Null
    BY <1>4, <1>7, <2>1
  <2>2. CASE targetOf(tokens, path) # Null
    <3>1. PICK token : token = f[n][targetOf(tokens, path)]
      OBVIOUS
    <3>2. token # Null /\ f[n + 1][path] = retyped(token, tokens[path].type)
      BY <1>7, <2>2, <3>1
    <3>3. targetOf(tokens, path) \in D
      BY <1>1, <2>2 DEF isTokens
    <3>4. isResolved(token, tokens, targetOf(tokens, path))
      BY <1>10, <3>1, <3>2, <3>3
    <3> QED
      BY <1>8, <2>2, <3>1, <3>2, <3>4
  <2> QED
    BY <2>1, <2>2
<1>11. Nat \subseteq S
  <2> HIDE DEF S
  <2> QED
    BY <1>9, <1>10, SetInduction
<1>12. ASSUME NEW n \in Nat, NEW path \in D
       PROVE  f[n + 1][path] # Null <=> targetOf(tokens, path) = Null \/ f[n][targetOf(tokens, path)] # Null
  <2>1. CASE targetOf(tokens, path) = Null
    BY <1>6, <1>7, <2>1
  <2>2. CASE targetOf(tokens, path) # Null /\ f[n][targetOf(tokens, path)] # Null
    <3>1. PICK token : token = f[n][targetOf(tokens, path)]
      OBVIOUS
    <3>2. targetOf(tokens, path) \in D
      BY <1>1, <2>2 DEF isTokens
    <3>3. isRecord(token)
      BY <1>11, <2>2, <3>1, <3>2 DEF isResolved
    <3>4. PICK out : out = retyped(token, tokens[path].type)
      OBVIOUS
    <3>5. out = [type |-> tokens[path].type, value |-> token.value]
      BY <3>3, <3>4, RetypedIs
    <3>6. out # Null
      <4>1. isRecord(out)
        BY <3>5 DEF isRecord
      <4> QED
        BY <4>1, RecordIsNotNull
    <3> QED
      BY <1>7, <2>2, <3>1, <3>4, <3>6
  <2>3. CASE targetOf(tokens, path) # Null /\ f[n][targetOf(tokens, path)] = Null
    BY <1>7, <2>3
  <2> QED
    BY <2>1, <2>2, <2>3
<1>13. \A path \in D : f[0][path] # Null <=> targetOf(tokens, path) = Null
  BY <1>5, <1>6
<1> QED
  BY <1>1, <1>3, <1>11, <1>12, <1>13 DEF isRounds

(* A growing chain of subsets that stands still once it does so has done   *)
(* so after as many rounds as there are elements.                          *)
LEMMA ChainStands ==
  ASSUME NEW D, IsFiniteSet(D), NEW R, \A n \in Nat : R[n] \subseteq D /\ R[n] \subseteq R[n + 1],
         \A n \in Nat : R[n] = R[n + 1] => R[n + 1] = R[n + 2]
  PROVE  R[Cardinality(D)] = R[Cardinality(D) + 1]
<1>1. \A n \in Nat : IsFiniteSet(R[n]) /\ Cardinality(R[n]) \in Nat
  BY FS_Subset, FS_CardinalityType
<1>2. ASSUME NEW n \in Nat, R[n] # R[n + 1] PROVE Cardinality(R[n]) + 1 <= Cardinality(R[n + 1])
  <2>1. n + 1 \in Nat
    OBVIOUS
  <2>2. R[n] \in SUBSET R[n + 1]
    OBVIOUS
  <2>3. PICK a \in Nat, b \in Nat : a = Cardinality(R[n]) /\ b = Cardinality(R[n + 1])
    BY <1>1, <2>1
  <2>4. a <= b /\ a # b
    BY <1>1, <1>2, <2>1, <2>2, <2>3, FS_Subset
  <2>5. a + 1 <= b
    BY <2>4
  <2> QED
    BY <2>3, <2>5
<1> DEFINE S == {n \in Nat : R[n] = R[n + 1] \/ n + 1 <= Cardinality(R[n + 1])}
<1>3. 0 \in S
  <2>1. Cardinality(R[0]) \in Nat /\ Cardinality(R[0 + 1]) \in Nat
    BY <1>1
  <2>2. R[0] # R[0 + 1] => Cardinality(R[0]) + 1 <= Cardinality(R[0 + 1])
    BY <1>2
  <2> QED
    BY <2>1, <2>2
<1>4. ASSUME NEW n \in Nat, n \in S PROVE n + 1 \in S
  <2>1. n + 1 \in Nat /\ (n + 1) + 1 = n + 2 /\ n + 2 \in Nat
    OBVIOUS
  <2>2. CASE R[n] = R[n + 1]
    <3>1. R[n + 1] = R[(n + 1) + 1]
      BY <2>1, <2>2
    <3> QED
      BY <2>1, <3>1
  <2>3. CASE R[n + 1] # R[(n + 1) + 1] /\ n + 1 <= Cardinality(R[n + 1])
    <3>1. Cardinality(R[n + 1]) + 1 <= Cardinality(R[(n + 1) + 1])
      BY <1>2, <2>1, <2>3
    <3>2. Cardinality(R[n + 1]) \in Nat /\ Cardinality(R[(n + 1) + 1]) \in Nat
      BY <1>1, <2>1
    <3>3. (n + 1) + 1 <= Cardinality(R[(n + 1) + 1])
      BY <2>3, <3>1, <3>2
    <3> QED
      BY <2>1, <3>3
  <2> QED
    BY <1>4, <2>1, <2>2, <2>3
<1>5. Nat \subseteq S
  <2> HIDE DEF S
  <2> QED
    BY <1>3, <1>4, SetInduction
<1>6. PICK N \in Nat : N = Cardinality(D)
  BY FS_CardinalityType
<1>7. ~ (N + 1 <= Cardinality(R[N + 1]))
  <2>1. N + 1 \in Nat
    OBVIOUS
  <2>2. R[N + 1] \in SUBSET D
    BY <2>1
  <2>3. Cardinality(R[N + 1]) <= N /\ Cardinality(R[N + 1]) \in Nat
    BY <1>1, <1>6, <2>1, <2>2, FS_Subset
  <2> QED
    BY <2>3
<1> QED
  BY <1>5, <1>6, <1>7

(* A token is left over exactly when some tokens refer to one another only. *)
closedSet(S, tokens) == \A path \in S : targetOf(tokens, path) \in S

LEMMA LeftOverIsClosed ==
  ASSUME NEW tokens, isTokens(tokens), NEW f, isRounds(f, tokens), NEW n, n = Cardinality(DOMAIN tokens)
  PROVE  (\E path \in DOMAIN tokens : f[n][path] = Null)
         <=> \E S \in (SUBSET DOMAIN tokens) \ {{}} : closedSet(S, tokens)
<1>1. PICK D : D = DOMAIN tokens /\ IsFiniteSet(D) /\ Null \notin D
  BY DEF isTokens
<1>2. PICK R : R = [k \in Nat |-> {path \in D : f[k][path] # Null}]
  OBVIOUS
<1>3. n \in Nat
  BY <1>1, FS_CardinalityType
<1>4. ASSUME NEW k \in Nat, NEW path \in D
      PROVE  path \in R[k + 1] <=> targetOf(tokens, path) = Null \/ targetOf(tokens, path) \in R[k]
  <2>1. k + 1 \in Nat
    OBVIOUS
  <2>2. path \in R[k + 1] <=> f[k + 1][path] # Null
    BY <1>2, <2>1
  <2>3. f[k + 1][path] # Null <=> targetOf(tokens, path) = Null \/ f[k][targetOf(tokens, path)] # Null
    BY <1>1 DEF isRounds
  <2>4. targetOf(tokens, path) # Null => targetOf(tokens, path) \in D
    BY <1>1 DEF isTokens
  <2>5. targetOf(tokens, path) # Null => (targetOf(tokens, path) \in R[k] <=> f[k][targetOf(tokens, path)] # Null)
    BY <1>2, <2>4
  <2> QED
    BY <2>2, <2>3, <2>5
<1>5. \A path \in D : path \in R[0] <=> targetOf(tokens, path) = Null
  BY <1>1, <1>2 DEF isRounds
<1>6. \A k \in Nat : R[k] \subseteq D
  BY <1>2
<1>7. ASSUME NEW k \in Nat, R[k] \subseteq R[k + 1] PROVE R[k + 1] \subseteq R[(k + 1) + 1]
  <2>1. k + 1 \in Nat
    OBVIOUS
  <2>2. ASSUME NEW path \in R[k + 1] PROVE path \in R[(k + 1) + 1]
    <3>1. path \in D
      BY <1>6, <2>1
    <3>2. targetOf(tokens, path) = Null \/ targetOf(tokens, path) \in R[k]
      BY <1>4, <3>1
    <3>3. targetOf(tokens, path) = Null \/ targetOf(tokens, path) \in R[k + 1]
      BY <1>7, <3>2
    <3> QED
      BY <1>4, <2>1, <3>1, <3>3
  <2> QED
    BY <2>2
<1>8. \A k \in Nat : R[k] \subseteq R[k + 1]
  <2> DEFINE T == {k \in Nat : R[k] \subseteq R[k + 1]}
  <2>1. 0 \in T
    <3>1. ASSUME NEW path \in R[0] PROVE path \in R[0 + 1]
      <4>1. path \in D
        BY <1>6
      <4>2. targetOf(tokens, path) = Null
        BY <1>5, <4>1
      <4> QED
        BY <1>4, <4>1, <4>2
    <3> QED
      BY <3>1
  <2>2. ASSUME NEW k \in Nat, k \in T PROVE k + 1 \in T
    BY <1>7, <2>2
  <2>3. Nat \subseteq T
    <3> HIDE DEF T
    <3> QED
      BY <2>1, <2>2, SetInduction
  <2> QED
    BY <2>3
<1>9. ASSUME NEW k \in Nat, R[k] = R[k + 1] PROVE R[k + 1] = R[k + 2]
  <2>1. k + 1 \in Nat /\ (k + 1) + 1 = k + 2 /\ k + 2 \in Nat
    OBVIOUS
  <2>2. \A path \in D : path \in R[k + 1] <=> path \in R[(k + 1) + 1]
    BY <1>4, <1>9, <2>1
  <2>3. R[k + 1] \subseteq D /\ R[k + 2] \subseteq D
    BY <1>6, <2>1
  <2> QED
    BY <2>1, <2>2, <2>3
<1>10. R[n] = R[n + 1]
  BY <1>1, <1>6, <1>8, <1>9, ChainStands
<1>11. ASSUME NEW path \in D, f[n][path] = Null PROVE \E S \in (SUBSET D) \ {{}} : closedSet(S, tokens)
  <2>1. PICK S : S = D \ R[n]
    OBVIOUS
  <2>2. path \in S
    BY <1>2, <1>3, <1>11, <2>1
  <2>3. ASSUME NEW p \in S PROVE targetOf(tokens, p) \in S
    <3>1. p \in D /\ p \notin R[n + 1]
      BY <1>10, <2>1
    <3>2. targetOf(tokens, p) # Null /\ targetOf(tokens, p) \notin R[n]
      BY <1>3, <1>4, <3>1
    <3>3. targetOf(tokens, p) \in D
      BY <1>1, <3>1, <3>2 DEF isTokens
    <3> QED
      BY <2>1, <3>2, <3>3
  <2> QED
    BY <2>1, <2>2, <2>3 DEF closedSet
<1>12. ASSUME NEW S \in (SUBSET D) \ {{}}, closedSet(S, tokens) PROVE \E path \in D : f[n][path] = Null
  <2> DEFINE T == {k \in Nat : S \intersect R[k] = {}}
  <2>1. \A path \in S : path \in D /\ targetOf(tokens, path) \in S /\ targetOf(tokens, path) # Null
    BY <1>1, <1>12 DEF closedSet
  <2>2. 0 \in T
    BY <1>5, <2>1
  <2>3. ASSUME NEW k \in Nat, k \in T PROVE k + 1 \in T
    <3>1. ASSUME NEW path \in S PROVE path \notin R[k + 1]
      BY <1>4, <2>1, <2>3
    <3> QED
      BY <3>1
  <2>4. Nat \subseteq T
    <3> HIDE DEF T
    <3> QED
      BY <2>2, <2>3, SetInduction
  <2>5. PICK path \in S : TRUE
    OBVIOUS
  <2>6. path \notin R[n] /\ path \in D
    BY <1>3, <2>1, <2>4
  <2> QED
    BY <1>2, <1>3, <2>6
<1> QED
  BY <1>1, <1>11, <1>12

(* What the overrides of a context leave of the tokens.                    *)
authored(tokens, overrides, path) == IF path \in DOMAIN overrides THEN overrides[path] ELSE tokens[path].value
isOverridden(tokens, design, overrides) ==
  /\ DOMAIN tokens = DOMAIN design.tokens
  /\ \A path \in DOMAIN tokens :
       /\ tokens[path].type = design.tokens[path].type
       /\ targetOf(tokens, path) = aliasOf(authored(design.tokens, overrides, path))

LEMMA OverriddenIs ==
  ASSUME NEW design, isDesign(design), validateDesignSystem(design) \subseteq SYSTEM_WARNINGS,
         NEW context, NEW overrides, overrides = overridesOf(design, context),
         NEW tokens, tokens = overridden(design.tokens, overrides)
  PROVE  isTokens(tokens) /\ isOverridden(tokens, design, overrides)
<1>1. PICK D : D = DOMAIN design.tokens /\ IsFiniteSet(D) /\ Null \notin D
  BY DEF isDesign
<1>2. /\ "DESIGN_TOKEN_INVALID_VALUE" \notin SYSTEM_WARNINGS
      /\ "DESIGN_TOKEN_UNRESOLVED_ALIAS" \notin SYSTEM_WARNINGS
      /\ "DESIGN_TOKEN_TYPE_MISMATCH" \notin SYSTEM_WARNINGS
      /\ "DESIGN_CONTEXT_UNKNOWN_TOKEN" \notin SYSTEM_WARNINGS
  BY DEF SYSTEM_WARNINGS
<1>3. ASSUME NEW path \in D
      PROVE  LET token == design.tokens[path]
                 target == aliasOf(token.value)
             IN  IF target = Null THEN token.type \in token.value.fits
                 ELSE target \in D /\ design.tokens[target].type = token.type
  <2>1. \A code \in tokenDiagnostics(design.tokens, path) : code \in SYSTEM_WARNINGS
    BY <1>1 DEF validateDesignSystem, validateTokens
  <2> QED
    BY <1>1, <1>2, <2>1 DEF tokenDiagnostics
<1>4. ASSUME NEW path \in DOMAIN overrides
      PROVE  /\ path \in D
             /\ IF aliasOf(overrides[path]) = Null THEN design.tokens[path].type \in overrides[path].fits
                ELSE aliasOf(overrides[path]) \in D /\ design.tokens[aliasOf(overrides[path])].type = design.tokens[path].type
  <2>1. PICK i : i = SelectInSeq(design.contexts, LAMBDA c : c.id = context)
    OBVIOUS
  <2>2. overrides = IF i = 0 THEN <<>> ELSE design.contexts[i].overrides
    BY <2>1, Zenon DEF overridesOf
  <2>3. i # 0
    <3>1. DOMAIN <<>> = {}
      OBVIOUS
    <3> QED
      BY <2>2, <3>1
  <2>4. i \in DOMAIN design.contexts
    <3>1. PICK n \in Nat : n = Len(design.contexts) /\ DOMAIN design.contexts = 1 .. n
      BY DEF isDesign, isList
    <3>2. PICK I : I = {j \in 1 .. n : design.contexts[j].id = context}
      OBVIOUS
    <3>3. i = IF I = {} THEN 0 ELSE Min(I)
      BY <2>1, <3>1, <3>2 DEF SelectInSeq
    <3>4. I \in SUBSET Nat /\ I # {}
      BY <2>3, <3>2, <3>3
    <3>5. Min(I) \in I
      BY <3>4, FirstIsLeast
    <3> QED
      BY <3>1, <3>2, <3>3, <3>4, <3>5
  <2>5. \A code \in overrideDiagnostics(design.tokens, path, overrides[path]) : code \in SYSTEM_WARNINGS
    <3>1. PICK c \in Range(design.contexts) : c.overrides = overrides
      BY <2>2, <2>3, <2>4 DEF Range
    <3>2. ASSUME NEW code \in overrideDiagnostics(design.tokens, path, overrides[path])
          PROVE  code \in validateDesignSystem(design)
      BY <3>1 DEF validateDesignSystem
    <3> QED
      BY <3>2
  <2>6. path \in D
    <3> SUFFICES ASSUME path \notin D PROVE FALSE
      OBVIOUS
    <3>1. "DESIGN_CONTEXT_UNKNOWN_TOKEN" \in overrideDiagnostics(design.tokens, path, overrides[path])
      BY <1>1 DEF overrideDiagnostics
    <3> QED
      BY <1>2, <2>5, <3>1
  <2>7. IF aliasOf(overrides[path]) = Null THEN design.tokens[path].type \in overrides[path].fits
        ELSE typeAt(design.tokens, aliasOf(overrides[path])) = design.tokens[path].type
    BY <1>1, <1>2, <2>5, <2>6 DEF overrideDiagnostics
  <2>8. design.tokens[path].type # Null
    BY <1>1, <2>6 DEF isDesign
  <2> QED
    BY <1>1, <2>6, <2>7, <2>8 DEF typeAt
<1>5. DOMAIN tokens = D
  BY <1>1 DEF overridden
<1>6. ASSUME NEW path \in D
      PROVE  tokens[path] = [type |-> design.tokens[path].type, value |-> authored(design.tokens, overrides, path)]
  <2>1. PICK token : token = design.tokens[path] /\ token = [type |-> token.type, value |-> token.value]
    BY <1>1 DEF isDesign
  <2>2. tokens[path] = IF path \in DOMAIN overrides THEN [token EXCEPT !.value = overrides[path]] ELSE token
    BY <1>1, <2>1 DEF overridden
  <2> QED
    BY <2>1, <2>2 DEF authored
<1>7. ASSUME NEW path \in D
      PROVE  /\ isRecord(tokens[path]) /\ tokens[path].type = design.tokens[path].type
             /\ tokens[path].value = authored(design.tokens, overrides, path)
  <2>1. PICK type : type = design.tokens[path].type
    OBVIOUS
  <2>2. PICK value : value = authored(design.tokens, overrides, path)
    OBVIOUS
  <2>3. PICK token : token = tokens[path]
    OBVIOUS
  <2>4. token = [type |-> type, value |-> value]
    BY <1>6, <2>1, <2>2, <2>3
  <2>5. token.type = type /\ token.value = value
    BY <2>4
  <2>6. isRecord(token)
    BY <2>4, <2>5 DEF isRecord
  <2> QED
    BY <2>1, <2>2, <2>3, <2>5, <2>6
<1>8. ASSUME NEW path \in D
      PROVE  IF targetOf(tokens, path) = Null THEN tokens[path].type \in tokens[path].value.fits
             ELSE targetOf(tokens, path) \in D /\ tokens[targetOf(tokens, path)].type = tokens[path].type
  <2>1. PICK value : value = tokens[path].value
    OBVIOUS
  <2>2. IF aliasOf(value) = Null THEN design.tokens[path].type \in value.fits
        ELSE aliasOf(value) \in D /\ design.tokens[aliasOf(value)].type = design.tokens[path].type
    <3>1. CASE path \in DOMAIN overrides
      <4>1. value = overrides[path]
        BY <1>7, <2>1, <3>1 DEF authored
      <4> QED
        BY <1>4, <3>1, <4>1
    <3>2. CASE path \notin DOMAIN overrides
      <4>1. value = design.tokens[path].value
        BY <1>7, <2>1, <3>2 DEF authored
      <4> QED
        BY <1>3, <4>1
    <3> QED
      BY <3>1, <3>2
  <2>3. targetOf(tokens, path) = aliasOf(value)
    BY <2>1 DEF targetOf
  <2> QED
    BY <1>7, <2>1, <2>2, <2>3
<1>9. isTokens(tokens)
  BY <1>1, <1>5, <1>7, <1>8 DEF isTokens
<1>10. isOverridden(tokens, design, overrides)
  BY <1>1, <1>5, <1>7 DEF isOverridden, targetOf
<1> QED
  BY <1>9, <1>10

(* The tokens of a binding: null when some refer to one another only, else *)
(* all of them are resolved.                                               *)
LEMMA BoundTokens ==
  ASSUME NullIsNoFunction, NEW design, NEW context, NEW overrides, overrides = overridesOf(design, context),
         NEW tokens, tokens = overridden(design.tokens, overrides), isTokens(tokens),
         NEW bound, bound = resolveDesignTokens(design, context)
  PROVE  /\ bound = Null <=> \E S \in (SUBSET DOMAIN tokens) \ {{}} : closedSet(S, tokens)
         /\ bound # Null => /\ DOMAIN bound = DOMAIN tokens
                            /\ \A path \in DOMAIN tokens : isResolved(bound[path], tokens, path)
<1>1. PICK f : f = resolveToken(tokens)
  OBVIOUS
<1>2. isRounds(f, tokens)
  BY <1>1, RoundsAre
<1>3. PICK n \in Nat : n = Cardinality(DOMAIN tokens)
  BY FS_CardinalityType DEF isTokens
<1>4. PICK out : out = f[n]
  OBVIOUS
<1>5. bound = IF Null \in Range(out) THEN Null ELSE out
  BY <1>1, <1>3, <1>4 DEF resolveDesignTokens
<1>6. out # Null /\ DOMAIN out = DOMAIN tokens
  <2>1. out = roundOf(f[n - 1], n, tokens)
    BY <1>1, <1>4, ResolvesIs
  <2>2. out = [x \in DOMAIN out |-> out[x]] /\ DOMAIN out = DOMAIN tokens
    BY <2>1 DEF roundOf
  <2> QED
    BY <2>2 DEF NullIsNoFunction
<1>7. Null \in Range(out) <=> \E path \in DOMAIN tokens : f[n][path] = Null
  BY <1>4, <1>6 DEF Range
<1>8. Null \in Range(out) <=> \E S \in (SUBSET DOMAIN tokens) \ {{}} : closedSet(S, tokens)
  BY <1>2, <1>3, <1>7, LeftOverIsClosed
<1>9. bound = Null <=> Null \in Range(out)
  BY <1>5, <1>6
<1>10. ASSUME bound # Null, NEW path \in DOMAIN tokens PROVE isResolved(bound[path], tokens, path)
  <2>1. bound = out /\ f[n][path] # Null
    BY <1>5, <1>7, <1>9, <1>10
  <2> QED
    BY <1>2, <1>4, <2>1 DEF isRounds
<1>11. bound # Null => DOMAIN bound = DOMAIN tokens
  BY <1>5, <1>6
<1> QED
  BY <1>8, <1>9, <1>10, <1>11

(* When the facade throws.                                                 *)
LEMMA ThrownIs ==
  ASSUME CInv, result # Null
  PROVE  /\ result.status = "THROWN" => invalidities(input) = {} /\ bindingsThrow(buildSystemIR(input.system).bindings)
         /\ accepted => result.status # "THROWN" /\ invalidities(input) = {}
                        /\ ~ bindingsThrow(buildSystemIR(input.system).bindings)
<1>1. PICK planned : planned = facadePlan(input)
  OBVIOUS
<1>2. result = reported(input, planned)
  BY <1>1 DEF CInv
<1>3. PICK out : out = compiled(input)
  OBVIOUS
<1>4. out.status # "THROWN"
  <2>1. out.status = statusOf(input.system, out.resolved, out.diagnostics)
    BY <1>3, CompiledFields
  <2> QED
    BY <2>1 DEF statusOf
<1>5. planned = [status |-> planned.status, diagnostics |-> planned.diagnostics, bindings |-> planned.bindings,
                 resolved |-> planned.resolved, policy |-> planned.policy, plan |-> planned.plan]
  BY <1>1 DEF facadePlan, compiled, notCompiled
<1>6. result.status \in {"INVALID", planned.status}
  <2>1. CASE result = planned
    BY <2>1
  <2>2. CASE result # planned
    <3>1. PICK found : found = loadExtensions(input.extensions).diagnostics
      OBVIOUS
    <3>2. result = [planned EXCEPT !.diagnostics = @ \union found,
                                   !.status = IF found \subseteq HOST_WARNINGS THEN @ ELSE "INVALID"]
      BY <1>2, <2>2, <3>1 DEF reported
    <3> QED
      BY <1>5, <3>2
  <2> QED
    BY <2>1, <2>2
<1>7. notCompiled("INVALID", documentDiagnostics(input)).status = "INVALID"
  BY DEF notCompiled
<1>8. ASSUME result.status = "THROWN"
      PROVE  invalidities(input) = {} /\ bindingsThrow(buildSystemIR(input.system).bindings)
  <2>1. planned.status = "THROWN"
    BY <1>6, <1>8
  <2> QED
    BY <1>1, <1>3, <1>4, <1>7, <2>1 DEF facadePlan
<1>9. ASSUME accepted
      PROVE  result.status # "THROWN" /\ invalidities(input) = {} /\ ~ bindingsThrow(buildSystemIR(input.system).bindings)
  <2>1. invalidities(input) = {} /\ ~ bindingsThrow(buildSystemIR(input.system).bindings)
    BY <1>9, AcceptedIsCompiled
  <2> QED
    BY <1>8, <2>1
<1> QED
  BY <1>8, <1>9

closedUnder(design, overrides) ==
  \E S \in (SUBSET DOMAIN design.tokens) \ {{}} :
    \A path \in S : aliasOf(authored(design.tokens, overrides, path)) \in S

LEMMA DesignBinds ==
  ASSUME NullIsNoFunction, NEW design, isDesign(design), validateDesignSystem(design) \subseteq SYSTEM_WARNINGS,
         NEW context, NEW overrides, overrides = overridesOf(design, context),
         NEW bound, bound = resolveDesignTokens(design, context)
  PROVE  /\ bound = Null <=> closedUnder(design, overrides)
         /\ bound # Null => /\ DOMAIN bound = DOMAIN design.tokens
                            /\ \A path \in DOMAIN design.tokens :
                                 /\ bound[path].type = design.tokens[path].type
                                 /\ bound[path].type \in bound[path].value.fits
<1>1. PICK tokens : tokens = overridden(design.tokens, overrides)
  OBVIOUS
<1>2. isTokens(tokens) /\ isOverridden(tokens, design, overrides)
  BY <1>1, OverriddenIs
<1>3. DOMAIN tokens = DOMAIN design.tokens
  BY <1>2 DEF isOverridden
<1>4. /\ bound = Null <=> \E S \in (SUBSET DOMAIN tokens) \ {{}} : closedSet(S, tokens)
      /\ bound # Null => /\ DOMAIN bound = DOMAIN tokens
                         /\ \A path \in DOMAIN tokens : isResolved(bound[path], tokens, path)
  BY <1>1, <1>2, BoundTokens
<1>5. ASSUME NEW S \in SUBSET DOMAIN tokens
      PROVE  closedSet(S, tokens) <=> \A path \in S : aliasOf(authored(design.tokens, overrides, path)) \in S
  <2>1. ASSUME NEW path \in S PROVE targetOf(tokens, path) = aliasOf(authored(design.tokens, overrides, path))
    BY <1>2 DEF isOverridden
  <2> QED
    BY <2>1 DEF closedSet
<1>6. bound = Null <=> closedUnder(design, overrides)
  BY <1>3, <1>4, <1>5 DEF closedUnder
<1>7. ASSUME bound # Null, NEW path \in DOMAIN design.tokens
      PROVE  bound[path].type = design.tokens[path].type /\ bound[path].type \in bound[path].value.fits
  <2>1. isResolved(bound[path], tokens, path)
    BY <1>3, <1>4, <1>7
  <2>2. tokens[path].type = design.tokens[path].type
    BY <1>2, <1>3 DEF isOverridden
  <2> QED
    BY <2>1, <2>2 DEF isResolved
<1> QED
  BY <1>3, <1>4, <1>6, <1>7

(* The binding of a component is that of the design system it names.       *)
LEMMA BindingIs ==
  ASSUME NEW components, NEW designs, NEW bindings, bindings = buildDesignBindings(components, designs),
         NEW c \in DOMAIN bindings,
         NEW design, design = designs[components[c].experience.design],
         NEW context, context = components[c].experience.context,
         NEW bound, bound = bindings[c].tokens
  PROVE  bound = resolveDesignTokens(design, context)
<1>1. PICK tokens : tokens = resolveDesignTokens(design, context)
  OBVIOUS
<1>2. DOMAIN bindings = {d \in DOMAIN components : components[d].experience # Null}
  BY DEF buildDesignBindings
<1>3. bindings[c] = [accessibility |-> design.accessibility, tokens |-> tokens]
  BY <1>1, <1>2 DEF buildDesignBindings
<1>4. bindings[c].tokens = tokens
  BY <1>3
<1> QED
  BY <1>1, <1>4

(* A compilation that passes validation ends with an exception exactly     *)
(* when the overrides of a context that a component uses close a cycle of  *)
(* aliases, and otherwise every token is bound to a literal that is valid  *)
(* for the type the design system declares (resolveDesignTokens).          *)
THEOREM TokensEndInLiterals == Spec => [](NullIsNoFunction => TokensResolve)
<1>1. CInv /\ NullIsNoFunction => TokensResolve
  <2> SUFFICES ASSUME CInv, NullIsNoFunction, result # Null, result.status = "THROWN" \/ accepted
               PROVE  TokensResolve
    BY DEF TokensResolve
  <2> DEFINE designed == {c \in DOMAIN input.system.components : input.system.components[c].experience # Null}
             design(c) == input.system.designs[input.system.components[c].experience.design]
             overrides(c) == overridesOf(design(c), input.system.components[c].experience.context)
             target(c, path) == aliasOf(IF path \in DOMAIN overrides(c) THEN overrides(c)[path]
                                        ELSE design(c).tokens[path].value)
             closed(c) == \E S \in (SUBSET DOMAIN design(c).tokens) \ {{}} : \A path \in S : target(c, path) \in S
             fits(bound, c) == /\ DOMAIN bound = DOMAIN design(c).tokens
                               /\ \A path \in DOMAIN bound :
                                    /\ bound[path].type = design(c).tokens[path].type
                                    /\ bound[path].type \in bound[path].value.fits
  <2>1. PICK bindings : bindings = buildDesignBindings(input.system.components, input.system.designs)
    OBVIOUS
  <2>2. buildSystemIR(input.system).bindings = bindings
    BY <2>1 DEF buildSystemIR
  <2>3. invalidities(input) = {}
    BY ThrownIs
  <2>4. result.status = "THROWN" <=> bindingsThrow(bindings)
    BY <2>2, ThrownIs
  <2>5. ASSUME NEW c \in designed
        PROVE  isDesign(design(c)) /\ validateDesignSystem(design(c)) \subseteq SYSTEM_WARNINGS
    <3>1. input.system.components[c].experience.design \in DOMAIN input.system.designs /\ isDesign(design(c))
      BY SystemIsWellFormed DEF isSystem
    <3>2. design(c) \in Range(input.system.designs)
      BY <3>1 DEF Range
    <3>3. validateDesignSystem(design(c)) \subseteq systemDiagnostics(input.system)
      BY <3>2 DEF systemDiagnostics
    <3>4. systemDiagnostics(input.system) \subseteq SYSTEM_WARNINGS
      BY <2>3 DEF invalidities, documentDiagnostics
    <3> QED
      BY <3>1, <3>3, <3>4
  <2>6. DOMAIN bindings = designed
    BY <2>1 DEF buildDesignBindings
  <2>7. ASSUME NEW c \in designed
        PROVE  /\ bindings[c].tokens = Null <=> closed(c)
               /\ bindings[c].tokens # Null => fits(bindings[c].tokens, c)
    <3>1. PICK context : context = input.system.components[c].experience.context
      OBVIOUS
    <3>2. PICK d : d = design(c)
      OBVIOUS
    <3>3. PICK o : o = overrides(c)
      OBVIOUS
    <3>4. PICK bound : bound = bindings[c].tokens
      OBVIOUS
    <3>5. isDesign(d) /\ validateDesignSystem(d) \subseteq SYSTEM_WARNINGS
      BY <2>5, <3>2
    <3>6. bound = resolveDesignTokens(d, context)
      BY <2>1, <2>6, <3>1, <3>2, <3>4, BindingIs
    <3>7. o = overridesOf(d, context)
      BY <3>1, <3>2, <3>3
    <3>8. /\ bound = Null <=> closedUnder(d, o)
          /\ bound # Null => /\ DOMAIN bound = DOMAIN d.tokens
                             /\ \A path \in DOMAIN d.tokens :
                                  bound[path].type = d.tokens[path].type /\ bound[path].type \in bound[path].value.fits
      BY <3>5, <3>6, <3>7, DesignBinds
    <3>9. closedUnder(d, o) <=> closed(c)
      <4> HIDE DEF design, overrides
      <4> QED
        BY <3>2, <3>3 DEF closedUnder, authored
    <3>10. bound # Null => fits(bound, c)
      BY <3>2, <3>8
    <3> QED
      BY <3>4, <3>8, <3>9, <3>10
  <2> HIDE DEF designed, closed, fits
  <2>8. result.status = "THROWN" <=> \E c \in designed : closed(c)
    BY <2>4, <2>6, <2>7 DEF bindingsThrow
  <2>9. accepted => \A c \in designed : fits(result.bindings[c].tokens, c)
    <3> SUFFICES ASSUME accepted, NEW c \in designed PROVE fits(result.bindings[c].tokens, c)
      OBVIOUS
    <3>1. result.bindings = bindings
      BY <2>1, AcceptedIsCompiled
    <3>2. bindings[c].tokens # Null
      BY <2>2, <2>6, ThrownIs DEF bindingsThrow
    <3> QED
      BY <2>7, <3>1, <3>2
  <2>10. (result.status = "THROWN") = \E c \in designed : closed(c)
    BY <2>8
  <2> QED
    BY <2>9, <2>10, Zenon DEF TokensResolve, designed, closed, fits
<1> QED
  BY <1>1, Compiled, PTL

(***************************************************************************)
(* Cycles.                                                                 *)
(***************************************************************************)

(* The walk along the aliases.                                             *)
stepOf(tokens, path) == IF path \in DOMAIN tokens THEN aliasOf(tokens[path].value) ELSE Null

LEMMA WalkExists ==
  ASSUME NEW tokens, NEW path
  PROVE  \E at : at = [n \in Nat |-> IF n = 0 THEN path ELSE stepOf(tokens, at[n - 1])]
<1>1. PICK X : X = {path, Null} \union {stepOf(tokens, p) : p \in DOMAIN tokens}
  OBVIOUS
<1>2. \A x \in X : stepOf(tokens, x) \in X
  BY <1>1 DEF stepOf
<1>3. PICK next : next = [p \in X \X Nat |-> stepOf(tokens, p[1])]
  OBVIOUS
<1>4. next \in [X \X Nat -> X]
  <2>1. ASSUME NEW p \in X \X Nat PROVE stepOf(tokens, p[1]) \in X
    BY <1>2
  <2> QED
    BY <1>3, <2>1
<1>5. PICK f \in [Nat -> X] : Recurs(f, path, next)
  <2>1. path \in X
    BY <1>1
  <2> QED
    BY <1>4, <2>1, NatRecursion
<1>6. ASSUME NEW n \in Nat PROVE f[n] = IF n = 0 THEN path ELSE stepOf(tokens, f[n - 1])
  <2>1. CASE n = 0
    BY <1>5, <2>1 DEF Recurs
  <2>2. CASE n # 0
    <3>1. n \in Nat \ {0} /\ n - 1 \in Nat
      BY <2>2
    <3>2. f[n] = next[<<f[n - 1], n>>] /\ f[n - 1] \in X
      BY <1>5, <3>1 DEF Recurs
    <3>3. PICK p \in X \X Nat : p = <<f[n - 1], n>> /\ p[1] = f[n - 1]
      BY <3>2
    <3>4. next[p] = stepOf(tokens, p[1])
      BY <1>3, <3>3
    <3> QED
      BY <2>2, <3>2, <3>3, <3>4
  <2> QED
    BY <2>1, <2>2
<1>7. f = [n \in Nat |-> f[n]]
  BY <1>5
<1>8. f = [n \in Nat |-> IF n = 0 THEN path ELSE stepOf(tokens, f[n - 1])]
  BY <1>6, <1>7
<1> QED
  BY <1>8

LEMMA WalkIs ==
  ASSUME NEW tokens, NEW path, NEW at, at = walk(tokens, path)
  PROVE  at[0] = path /\ \A n \in Nat : at[n + 1] = stepOf(tokens, at[n])
<1> DEFINE chosen == CHOOSE f : f = [n \in Nat |-> IF n = 0 THEN path ELSE stepOf(tokens, f[n - 1])]
<1>1. chosen = [n \in Nat |-> IF n = 0 THEN path ELSE stepOf(tokens, chosen[n - 1])]
  BY WalkExists
<1>2. at = chosen
  BY DEF walk, stepOf
<1> HIDE DEF chosen
<1>3. \A n \in Nat : at[n] = IF n = 0 THEN path ELSE stepOf(tokens, at[n - 1])
  BY <1>1, <1>2
<1>4. ASSUME NEW n \in Nat PROVE at[n + 1] = stepOf(tokens, at[n])
  <2>1. n + 1 \in Nat /\ n + 1 # 0 /\ (n + 1) - 1 = n
    OBVIOUS
  <2> QED
    BY <1>3, <2>1
<1> QED
  BY <1>3, <1>4

aliasLoop(tokens, S) == \A path \in S : aliasOf(tokens[path].value) \in S

(* A walk that comes back goes round in a loop.                            *)
LEMMA ReturnIsLoop ==
  ASSUME NEW tokens, Null \notin DOMAIN tokens, NEW path \in DOMAIN tokens, closesCycle(tokens, path)
  PROVE  \E S \in (SUBSET DOMAIN tokens) \ {{}} : aliasLoop(tokens, S)
<1>1. PICK at : at = walk(tokens, path)
  OBVIOUS
<1>2. \A n \in Nat : at[n + 1] = stepOf(tokens, at[n])
  BY <1>1, WalkIs
<1>3. PICK n, m : n \in 1 .. Cardinality(DOMAIN tokens) /\ at[n] # Null /\ m \in 0 .. n - 1 /\ at[m] = at[n]
  BY <1>1 DEF closesCycle
<1>4. n \in Nat /\ m \in Nat /\ m < n
  BY <1>3
<1>5. PICK S : S = {at[i] : i \in m .. n - 1}
  OBVIOUS
<1>6. ASSUME NEW i \in Nat, i < n PROVE at[i] \in DOMAIN tokens
  <2> SUFFICES ASSUME at[i] \notin DOMAIN tokens PROVE FALSE
    OBVIOUS
  <2> DEFINE J == {k \in Nat : at[i + 1 + k] = Null}
  <2>1. 0 \in J
    <3>1. at[i + 1] = Null
      BY <1>2 DEF stepOf
    <3>2. i + 1 + 0 = i + 1
      OBVIOUS
    <3> QED
      BY <3>1, <3>2
  <2>2. ASSUME NEW k \in Nat, k \in J PROVE k + 1 \in J
    <3>1. i + 1 + k \in Nat /\ (i + 1 + k) + 1 = i + 1 + (k + 1)
      OBVIOUS
    <3>2. at[(i + 1 + k) + 1] = Null
      BY <1>2, <2>2, <3>1 DEF stepOf
    <3> QED
      BY <3>1, <3>2
  <2>3. Nat \subseteq J
    <3> HIDE DEF J
    <3> QED
      BY <2>1, <2>2, SetInduction
  <2>4. n - (i + 1) \in Nat /\ i + 1 + (n - (i + 1)) = n
    BY <1>4, <1>6
  <2> QED
    BY <1>3, <2>3, <2>4
<1>7. S \in (SUBSET DOMAIN tokens) \ {{}}
  <2>1. ASSUME NEW i \in m .. n - 1 PROVE at[i] \in DOMAIN tokens
    BY <1>4, <1>6
  <2>2. m \in m .. n - 1
    BY <1>4
  <2> QED
    BY <1>5, <2>1, <2>2
<1>8. ASSUME NEW i \in m .. n - 1 PROVE aliasOf(tokens[at[i]].value) \in S
  <2>1. i \in Nat /\ i < n /\ m \in m .. n - 1
    BY <1>4
  <2>2. aliasOf(tokens[at[i]].value) = at[i + 1]
    BY <1>2, <1>6, <2>1 DEF stepOf
  <2>3. CASE i + 1 = n
    BY <1>3, <1>5, <2>1, <2>2, <2>3
  <2>4. CASE i + 1 # n
    <3>1. i + 1 \in m .. n - 1
      BY <1>4, <2>4
    <3> QED
      BY <1>5, <2>2, <3>1
  <2> QED
    BY <2>3, <2>4
<1>9. aliasLoop(tokens, S)
  BY <1>5, <1>8 DEF aliasLoop
<1> QED
  BY <1>7, <1>9

(* In a loop the walk comes back after as many steps as there are tokens.  *)
LEMMA LoopReturns ==
  ASSUME NEW tokens, IsFiniteSet(DOMAIN tokens), Null \notin DOMAIN tokens,
         NEW S \in SUBSET DOMAIN tokens, aliasLoop(tokens, S), NEW path \in S
  PROVE  closesCycle(tokens, path)
<1>1. PICK at : at = walk(tokens, path)
  OBVIOUS
<1>2. at[0] = path /\ \A n \in Nat : at[n + 1] = stepOf(tokens, at[n])
  BY <1>1, WalkIs
<1> DEFINE J == {n \in Nat : at[n] \in S}
<1>3. 0 \in J
  BY <1>2
<1>4. ASSUME NEW n \in Nat, n \in J PROVE n + 1 \in J
  <2>1. at[n + 1] = aliasOf(tokens[at[n]].value) /\ n + 1 \in Nat
    BY <1>2, <1>4 DEF stepOf
  <2> QED
    BY <1>4, <2>1 DEF aliasLoop
<1>5. Nat \subseteq J
  <2> HIDE DEF J
  <2> QED
    BY <1>3, <1>4, SetInduction
<1>6. PICK k \in Nat : k = Cardinality(DOMAIN tokens)
  BY FS_CardinalityType
<1>7. PICK f : f = [n \in 0 .. k |-> at[n]]
  OBVIOUS
<1>8. f \in [0 .. k -> DOMAIN tokens]
  <2>1. ASSUME NEW n \in 0 .. k PROVE at[n] \in DOMAIN tokens
    BY <1>5
  <2> QED
    BY <1>7, <2>1
<1>9. PICK I : I = 0 .. k
  OBVIOUS
<1>10. IsFiniteSet(I) /\ Cardinality(DOMAIN tokens) < Cardinality(I)
  <2>1. IsFiniteSet(0 .. k) /\ Cardinality(0 .. k) = IF 0 > k THEN 0 ELSE k - 0 + 1
    BY FS_Interval
  <2> QED
    BY <1>6, <1>9, <2>1
<1>11. PICK x \in I, y \in I : x # y /\ f[x] = f[y]
  <2>1. f \in [I -> DOMAIN tokens]
    BY <1>8, <1>9
  <2> QED
    BY <1>10, <2>1, FS_PigeonHole
<1>12. PICK n, m : n \in 1 .. k /\ m \in 0 .. n - 1 /\ at[m] = at[n]
  <2>1. x \in 0 .. k /\ y \in 0 .. k /\ at[x] = at[y]
    BY <1>7, <1>9, <1>11
  <2>2. CASE x < y
    <3>1. y \in 1 .. k /\ x \in 0 .. y - 1
      BY <2>1, <2>2
    <3> QED
      BY <2>1, <3>1
  <2>3. CASE ~ (x < y)
    <3>1. x \in 1 .. k /\ y \in 0 .. x - 1
      BY <1>11, <2>1, <2>3
    <3> QED
      BY <2>1, <3>1
  <2> QED
    BY <2>2, <2>3
<1>13. at[n] # Null
  <2>1. n \in Nat
    BY <1>12
  <2> QED
    BY <1>5, <2>1
<1> QED
  BY <1>1, <1>6, <1>12, <1>13 DEF closesCycle

(* validateTokens reports a cycle exactly when some tokens are one.        *)
LEMMA AliasCycles ==
  ASSUME NEW tokens, IsFiniteSet(DOMAIN tokens), Null \notin DOMAIN tokens
  PROVE  "DESIGN_TOKEN_ALIAS_CYCLE" \in validateTokens(tokens)
         <=> \E S \in (SUBSET DOMAIN tokens) \ {{}} : aliasLoop(tokens, S)
<1>1. ASSUME "DESIGN_TOKEN_ALIAS_CYCLE" \in validateTokens(tokens)
      PROVE  \E S \in (SUBSET DOMAIN tokens) \ {{}} : aliasLoop(tokens, S)
  <2>1. PICK path \in DOMAIN tokens : "DESIGN_TOKEN_ALIAS_CYCLE" \in tokenDiagnostics(tokens, path)
    BY <1>1 DEF validateTokens
  <2>2. closesCycle(tokens, path)
    BY <2>1 DEF tokenDiagnostics
  <2> QED
    BY <2>2, ReturnIsLoop
<1>2. ASSUME NEW S \in (SUBSET DOMAIN tokens) \ {{}}, aliasLoop(tokens, S)
      PROVE  "DESIGN_TOKEN_ALIAS_CYCLE" \in validateTokens(tokens)
  <2>1. PICK path \in S : TRUE
    OBVIOUS
  <2>2. closesCycle(tokens, path)
    BY <1>2, LoopReturns
  <2>3. aliasOf(tokens[path].value) \in DOMAIN tokens /\ aliasOf(tokens[path].value) # Null
    BY <1>2 DEF aliasLoop
  <2>4. "DESIGN_TOKEN_ALIAS_CYCLE" \in tokenDiagnostics(tokens, path)
    BY <2>2, <2>3 DEF tokenDiagnostics
  <2> QED
    BY <2>4 DEF validateTokens
<1> QED
  BY <1>1, <1>2

(* A list in ascending order has the members of the set.                   *)
LEMMA AscendingIs ==
  ASSUME NEW S, IsFiniteSet(S), S \subseteq Nat, NEW list, list = ascending(S)
  PROVE  list \in Seq(S) /\ Range(list) = S
<1>1. PICK R : R = {p \in S \X S : p[1] < p[2]}
  OBVIOUS
<1>2. \A x, y \in S : <<x, y>> \in R <=> x < y
  BY <1>1
<1>3. orders(S, R)
  BY <1>2 DEF orders
<1>4. list = inOrder(S, R)
  BY <1>1 DEF ascending
<1>5. PICK n \in Nat : n = Cardinality(S) /\ list \in [1 .. n -> S] /\ \A x \in S : \E k \in 1 .. n : list[k] = x
  BY <1>3, <1>4, InOrder
<1>6. list \in Seq(S)
  BY <1>5
<1>7. Range(list) = S
  BY <1>5 DEF Range
<1> QED
  BY <1>6, <1>7

(* Visits one after another, and what the search is after each.            *)
call(search, id, trail) == [search |-> search, id |-> id, trail |-> trail]

isVisit(visit, X, Y, Z) == visit \in [[search : X, id : Y, trail : Z] -> X]

listed(after, visit, search, todo, trail) ==
  after = [k \in 0 .. Len(todo) |-> IF k = 0 THEN search ELSE visit[call(after[k - 1], todo[k], trail)]]

LEMMA ListExists ==
  ASSUME NEW X, NEW Y, NEW Z, NEW visit \in [[search : X, id : Y, trail : Z] -> X],
         NEW search \in X, NEW todo \in Seq(Y), NEW trail \in Z
  PROVE  \E after : listed(after, visit, search, todo, trail) /\ after \in [0 .. Len(todo) -> X]
<1>1. PICK n \in Nat : n = Len(todo) /\ \A k \in 1 .. n : todo[k] \in Y
  OBVIOUS
<1>2. PICK next : next = [p \in X \X Nat |-> IF p[2] \in 1 .. n THEN visit[call(p[1], todo[p[2]], trail)] ELSE p[1]]
  OBVIOUS
<1>3. ASSUME NEW s \in X, NEW k \in 1 .. n PROVE visit[call(s, todo[k], trail)] \in X
  <2>1. PICK id \in Y : id = todo[k]
    BY <1>1
  <2>2. call(s, id, trail) \in [search : X, id : Y, trail : Z]
    BY DEF call
  <2> QED
    BY <2>1, <2>2
<1>4. next \in [X \X Nat -> X]
  <2>1. ASSUME NEW p \in X \X Nat
        PROVE  (IF p[2] \in 1 .. n THEN visit[call(p[1], todo[p[2]], trail)] ELSE p[1]) \in X
    BY <1>3
  <2> QED
    BY <1>2, <2>1
<1>5. PICK f \in [0 .. n -> X] : Iterates(f, search, next, n)
  BY <1>4, FiniteRecursion
<1>6. ASSUME NEW k \in 0 .. n
      PROVE  f[k] = IF k = 0 THEN search ELSE visit[call(f[k - 1], todo[k], trail)]
  <2>1. CASE k = 0
    BY <1>5, <2>1 DEF Iterates
  <2>2. CASE k # 0
    <3>1. k \in 1 .. n /\ k - 1 \in 0 .. n /\ k \in Nat
      BY <2>2
    <3>2. f[k] = next[<<f[k - 1], k>>] /\ f[k - 1] \in X
      BY <1>5, <3>1 DEF Iterates
    <3>3. PICK p \in X \X Nat : p = <<f[k - 1], k>> /\ p[1] = f[k - 1] /\ p[2] = k
      BY <3>1, <3>2
    <3>4. next[p] = IF p[2] \in 1 .. n THEN visit[call(p[1], todo[p[2]], trail)] ELSE p[1]
      BY <1>2
    <3>5. next[p] = visit[call(f[k - 1], todo[k], trail)]
      BY <3>1, <3>3, <3>4
    <3> QED
      BY <2>2, <3>2, <3>3, <3>5
  <2> QED
    BY <2>1, <2>2
<1>7. f = [k \in 0 .. n |-> f[k]]
  BY <1>5
<1>8. f = [k \in 0 .. n |-> IF k = 0 THEN search ELSE visit[call(f[k - 1], todo[k], trail)]]
  BY <1>6, <1>7
<1> QED
  BY <1>1, <1>5, <1>8 DEF listed

isVisits(after, visit, todo, trail) ==
  \A k \in 1 .. Len(todo) : after[k] = visit[call(after[k - 1], todo[k], trail)]

leadsTo(visit, X, search, todo, trail, out) ==
  \E after \in [0 .. Len(todo) -> X] :
    after[0] = search /\ isVisits(after, visit, todo, trail) /\ out = after[Len(todo)]

LEMMA VisitAllIs ==
  ASSUME NEW X, NEW Y, NEW Z, NEW visit, isVisit(visit, X, Y, Z),
         NEW search \in X, NEW todo \in Seq(Y), NEW trail \in Z, NEW out, out = visitAll(visit, search, todo, trail)
  PROVE  leadsTo(visit, X, search, todo, trail, out)
<1> DEFINE chosen == CHOOSE after : listed(after, visit, search, todo, trail)
<1>1. PICK f : listed(f, visit, search, todo, trail) /\ f \in [0 .. Len(todo) -> X]
  BY ListExists DEF isVisit
<1>2. listed(chosen, visit, search, todo, trail)
  BY <1>1
<1>3. out = chosen[Len(todo)]
  BY DEF visitAll, listed, call
<1> HIDE DEF chosen
<1>4. PICK n \in Nat : n = Len(todo) /\ \A k \in 1 .. n : todo[k] \in Y
  OBVIOUS
<1>5. \A k \in 0 .. n : chosen[k] = IF k = 0 THEN search ELSE visit[call(chosen[k - 1], todo[k], trail)]
  BY <1>2, <1>4 DEF listed
<1>6. chosen[0] = search
  BY <1>4, <1>5
<1>7. ASSUME NEW k \in 1 .. n PROVE chosen[k] = visit[call(chosen[k - 1], todo[k], trail)]
  <2>1. k \in 0 .. n /\ k # 0
    OBVIOUS
  <2> QED
    BY <1>5, <2>1
<1>8. ASSUME NEW k \in 1 .. n, chosen[k - 1] \in X PROVE chosen[k] \in X
  <2>1. PICK s \in X : s = chosen[k - 1]
    BY <1>8
  <2>2. PICK id \in Y : id = todo[k]
    BY <1>4
  <2>3. call(s, id, trail) \in [search : X, id : Y, trail : Z]
    BY DEF call
  <2> QED
    BY <1>7, <2>1, <2>2, <2>3 DEF isVisit
<1>9. \A k \in 0 .. n : chosen[k] \in X
  <2>1. chosen[0] \in X
    BY <1>6
  <2> QED
    BY <1>4, <1>8, <2>1, ValuesStay
<1>10. chosen \in [0 .. n -> X]
  <2>1. chosen = [k \in 0 .. n |-> chosen[k]]
    BY <1>2, <1>4 DEF listed
  <2> QED
    BY <1>9, <2>1
<1>11. isVisits(chosen, visit, todo, trail)
  BY <1>4, <1>7 DEF isVisits
<1> QED
  BY <1>3, <1>4, <1>6, <1>10, <1>11 DEF leadsTo

(* A cycle that is found is a list of requirements: the trail from where   *)
(* it first was at the requirement, which comes last again.                *)
endsTrail(cycle, trail, id, i) ==
  /\ trail[i] = id /\ Len(cycle) = Len(trail) - i + 2
  /\ \A k \in 1 .. Len(trail) - i + 1 : cycle[k] = trail[i + k - 1]
  /\ cycle[Len(trail) - i + 2] = id

LEMMA CycleOfIs ==
  ASSUME NEW ids, NEW trail \in Seq(ids), NEW id \in Range(trail), NEW cycle, cycle = cycleOf(trail, id)
  PROVE  cycle \in Seq(ids) /\ \E i \in 1 .. Len(trail) : endsTrail(cycle, trail, id, i)
<1>1. PICK n \in Nat : n = Len(trail) /\ DOMAIN trail = 1 .. n
  OBVIOUS
<1>2. PICK I : I = {j \in 1 .. n : trail[j] = id}
  OBVIOUS
<1>3. I # {} /\ I \in SUBSET Nat
  BY <1>1, <1>2 DEF Range
<1>4. PICK i : i = SelectInSeq(trail, LAMBDA t : t = id)
  OBVIOUS
<1>5. i = Min(I)
  BY <1>1, <1>2, <1>3, <1>4 DEF SelectInSeq
<1>6. i \in 1 .. n /\ trail[i] = id
  BY <1>2, <1>3, <1>5, FirstIsLeast
<1>7. PICK part : part = SubSeq(trail, i, n)
  OBVIOUS
<1>8. part \in Seq(ids) /\ Len(part) = n - i + 1 /\ \A k \in 1 .. n - i + 1 : part[k] = trail[i + k - 1]
  BY <1>1, <1>6, <1>7
<1>9. cycle = Append(part, id)
  BY <1>1, <1>4, <1>7 DEF cycleOf
<1>10. id \in ids
  BY <1>1, <1>6
<1>11. cycle \in Seq(ids) /\ Len(cycle) = n - i + 2 /\ cycle[n - i + 2] = id
  BY <1>6, <1>8, <1>9, <1>10
<1>12. \A k \in 1 .. n - i + 1 : cycle[k] = part[k]
  BY <1>6, <1>8, <1>9
<1> QED
  BY <1>1, <1>6, <1>8, <1>11, <1>12 DEF endsTrail

(* The visits of one depth, made of those of the depth below.              *)
searches(ids) == [done : SUBSET ids, found : SUBSET Seq(ids)]
calls(ids) == [search : searches(ids), id : ids, trail : Seq(ids)]
childrenOf(requirements, id) == dependsOn(requirements, id) \intersect idSet(requirements)
withCycle(search, cycle) == [search EXCEPT !.found = @ \union {cycle}]

visitedBy(requirements, deeper, n, v) ==
  IF v.id \in v.search.done THEN v.search
  ELSE IF v.id \in Range(v.trail) THEN withCycle(v.search, cycleOf(v.trail, v.id))
  ELSE IF n = 0 THEN v.search
  ELSE leave(visitAll(deeper, v.search, ascending(childrenOf(requirements, v.id)), Append(v.trail, v.id)), v.id)

depthOf(requirements, deeper, n) == [v \in calls(idSet(requirements)) |-> visitedBy(requirements, deeper, n, v)]

LEMMA SearchesGrow ==
  ASSUME NEW ids, NEW search \in searches(ids)
  PROVE  /\ \A cycle \in Seq(ids) : /\ withCycle(search, cycle) \in searches(ids)
                                    /\ withCycle(search, cycle).done = search.done
                                    /\ withCycle(search, cycle).found = search.found \union {cycle}
         /\ \A id \in ids : /\ leave(search, id) \in searches(ids)
                            /\ leave(search, id).done = search.done \union {id}
                            /\ leave(search, id).found = search.found
<1>1. PICK done \in SUBSET ids, found \in SUBSET Seq(ids) : search = [done |-> done, found |-> found]
  BY DEF searches
<1>2. ASSUME NEW cycle \in Seq(ids)
      PROVE  /\ withCycle(search, cycle) \in searches(ids)
             /\ withCycle(search, cycle).done = search.done
             /\ withCycle(search, cycle).found = search.found \union {cycle}
  <2>1. PICK all \in SUBSET Seq(ids) : all = found \union {cycle}
    OBVIOUS
  <2>2. search.found = found /\ search.done = done
    BY <1>1
  <2>3. withCycle(search, cycle) = [search EXCEPT !.found = all]
    BY <2>1, <2>2 DEF withCycle
  <2>4. withCycle(search, cycle) = [done |-> done, found |-> all]
    BY <1>1, <2>3
  <2> QED
    BY <2>1, <2>2, <2>4 DEF searches
<1>3. ASSUME NEW id \in ids
      PROVE  /\ leave(search, id) \in searches(ids)
             /\ leave(search, id).done = search.done \union {id}
             /\ leave(search, id).found = search.found
  <2>1. PICK all \in SUBSET ids : all = done \union {id}
    OBVIOUS
  <2>2. search.found = found /\ search.done = done
    BY <1>1
  <2>3. leave(search, id) = [search EXCEPT !.done = all]
    BY <2>1, <2>2 DEF leave
  <2>4. leave(search, id) = [done |-> all, found |-> found]
    BY <1>1, <2>3
  <2> QED
    BY <2>1, <2>2, <2>4 DEF searches
<1> QED
  BY <1>2, <1>3

isBaseline(requirements) == isList(requirements) /\ idSet(requirements) \subseteq Nat

LEMMA FiniteIds ==
  ASSUME NEW requirements, isList(requirements)
  PROVE  IsFiniteSet(idSet(requirements))
<1>1. PICK n \in Nat : n = Len(requirements) /\ DOMAIN requirements = 1 .. n
  BY DEF isList
<1>2. IsFiniteSet(1 .. n)
  BY FS_Interval
<1>3. PICK f : f = [i \in 1 .. n |-> requirements[i].id]
  OBVIOUS
<1>4. PICK ids : ids = {requirements[i].id : i \in 1 .. n}
  OBVIOUS
<1>5. f \in Surjection(1 .. n, ids)
  BY <1>3, <1>4 DEF Surjection
<1>6. IsFiniteSet(ids)
  BY <1>2, <1>5, FS_Surjection
<1> QED
  BY <1>1, <1>4, <1>6 DEF idSet

LEMMA ChildrenAre ==
  ASSUME NEW requirements, isBaseline(requirements), NEW id, NEW list, list = ascending(childrenOf(requirements, id))
  PROVE  list \in Seq(idSet(requirements)) /\ Range(list) = childrenOf(requirements, id)
<1>1. PICK S : S = childrenOf(requirements, id)
  OBVIOUS
<1>2. S \subseteq idSet(requirements) /\ S \subseteq Nat
  BY <1>1 DEF childrenOf, isBaseline
<1>3. IsFiniteSet(S)
  BY <1>2, FiniteIds, FS_Subset DEF isBaseline
<1>4. list \in Seq(S) /\ Range(list) = S
  BY <1>1, <1>2, <1>3, AscendingIs
<1>5. list \in Seq(idSet(requirements))
  <2>1. PICK n \in Nat : n = Len(list) /\ list \in [1 .. n -> S]
    BY <1>4
  <2>2. list \in [1 .. n -> idSet(requirements)]
    BY <1>2, <2>1
  <2> QED
    BY <2>2
<1> QED
  BY <1>1, <1>4, <1>5

LEMMA CallIs ==
  ASSUME NEW ids, NEW v \in calls(ids)
  PROVE  v.search \in searches(ids) /\ v.id \in ids /\ v.trail \in Seq(ids) /\ Append(v.trail, v.id) \in Seq(ids)
BY DEF calls

LEMMA VisitTyped ==
  ASSUME NEW requirements, isBaseline(requirements), NEW ids, ids = idSet(requirements),
         NEW deeper \in [calls(ids) -> searches(ids)], NEW n, NEW v \in calls(ids),
         NEW out, out = visitedBy(requirements, deeper, n, v)
  PROVE  out \in searches(ids)
<1>1. PICK search \in searches(ids), id \in ids, trail \in Seq(ids) :
        search = v.search /\ id = v.id /\ trail = v.trail /\ Append(trail, id) \in Seq(ids)
  BY CallIs
<1>2. CASE id \in search.done \/ (id \notin Range(trail) /\ n = 0)
  BY <1>1, <1>2 DEF visitedBy
<1>3. CASE id \notin search.done /\ id \in Range(trail)
  <2>1. PICK cycle : cycle = cycleOf(trail, id)
    OBVIOUS
  <2>2. cycle \in Seq(ids)
    BY <1>3, <2>1, CycleOfIs
  <2>3. out = withCycle(search, cycle)
    BY <1>1, <1>3, <2>1 DEF visitedBy
  <2> QED
    BY <2>2, <2>3, SearchesGrow
<1>4. CASE id \notin search.done /\ id \notin Range(trail) /\ n # 0
  <2>1. PICK todo \in Seq(ids) : todo = ascending(childrenOf(requirements, id))
    BY ChildrenAre
  <2>2. PICK longer \in Seq(ids) : longer = Append(trail, id)
    BY <1>1
  <2>3. PICK all : all = visitAll(deeper, search, todo, longer)
    OBVIOUS
  <2>4. PICK X, Z : X = searches(ids) /\ Z = Seq(ids)
    OBVIOUS
  <2>5. PICK after \in [0 .. Len(todo) -> X] : all = after[Len(todo)]
    <3>1. isVisit(deeper, X, ids, Z)
      BY <2>4 DEF calls, isVisit
    <3>2. search \in X /\ longer \in Z
      BY <2>4
    <3>3. leadsTo(deeper, X, search, todo, longer, all)
      BY <2>3, <3>1, <3>2, VisitAllIs
    <3> QED
      BY <3>3 DEF leadsTo
  <2>6. all \in searches(ids)
    BY <2>4, <2>5
  <2>7. out = leave(all, id)
    BY <1>1, <1>4, <2>1, <2>2, <2>3 DEF visitedBy
  <2> QED
    BY <2>6, <2>7, SearchesGrow
<1> QED
  BY <1>2, <1>3, <1>4

LEMMA DepthTyped ==
  ASSUME NEW requirements, isBaseline(requirements), NEW ids, ids = idSet(requirements),
         NEW deeper \in [calls(ids) -> searches(ids)], NEW n
  PROVE  depthOf(requirements, deeper, n) \in [calls(ids) -> searches(ids)]
<1>1. ASSUME NEW v \in calls(ids) PROVE visitedBy(requirements, deeper, n, v) \in searches(ids)
  BY VisitTyped
<1> QED
  BY <1>1 DEF depthOf

LEMMA VisitExists ==
  ASSUME NEW requirements, isBaseline(requirements), NEW ids, ids = idSet(requirements)
  PROVE  \E f \in [Nat -> [calls(ids) -> searches(ids)]] : f = [n \in Nat |-> depthOf(requirements, f[n - 1], n)]
<1>1. PICK X : X = [calls(ids) -> searches(ids)]
  OBVIOUS
<1>2. ASSUME NEW deeper \in X, NEW n PROVE depthOf(requirements, deeper, n) \in X
  BY <1>1, DepthTyped
<1>3. PICK stay : stay = [v \in calls(ids) |-> v.search]
  OBVIOUS
<1>4. stay \in X
  BY <1>1, <1>3, CallIs
<1>5. PICK start \in X : start = depthOf(requirements, stay, 0)
  BY <1>2, <1>4
<1>6. PICK next : next = [p \in X \X Nat |-> depthOf(requirements, p[1], p[2])]
  OBVIOUS
<1>7. next \in [X \X Nat -> X]
  <2>1. ASSUME NEW p \in X \X Nat PROVE depthOf(requirements, p[1], p[2]) \in X
    BY <1>2
  <2> QED
    BY <1>6, <2>1
<1>8. PICK f \in [Nat -> X] : Recurs(f, start, next)
  BY <1>7, NatRecursion
<1>9. ASSUME NEW n \in Nat PROVE f[n] = depthOf(requirements, f[n - 1], n)
  <2>1. CASE n = 0
    <3>1. f[0] = start
      BY <1>8 DEF Recurs
    <3>2. ASSUME NEW g, NEW h, NEW v PROVE visitedBy(requirements, g, 0, v) = visitedBy(requirements, h, 0, v)
      BY DEF visitedBy
    <3>3. PICK g : g = f[0 - 1]
      OBVIOUS
    <3>4. \A v : visitedBy(requirements, stay, 0, v) = visitedBy(requirements, g, 0, v)
      BY <3>2
    <3>5. depthOf(requirements, stay, 0) = depthOf(requirements, g, 0)
      BY <3>4 DEF depthOf
    <3> QED
      BY <1>5, <2>1, <3>1, <3>3, <3>5
  <2>2. CASE n # 0
    <3>1. n \in Nat \ {0} /\ n - 1 \in Nat
      BY <2>2
    <3>2. f[n] = next[<<f[n - 1], n>>] /\ f[n - 1] \in X
      BY <1>8, <3>1 DEF Recurs
    <3>3. PICK p \in X \X Nat : p = <<f[n - 1], n>> /\ p[1] = f[n - 1] /\ p[2] = n
      BY <3>2
    <3>4. next[p] = depthOf(requirements, p[1], p[2])
      BY <1>6, <3>3
    <3> QED
      BY <3>2, <3>3, <3>4
  <2> QED
    BY <2>1, <2>2
<1>10. f = [n \in Nat |-> f[n]]
  BY <1>8
<1>11. f = [n \in Nat |-> depthOf(requirements, f[n - 1], n)]
  BY <1>9, <1>10
<1> QED
  BY <1>1, <1>11

(* Any function that satisfies the recursion has searches as values.       *)
LEMMA VisitIs ==
  ASSUME NEW requirements, isBaseline(requirements), NEW ids, ids = idSet(requirements),
         NEW f, f = visitOf(requirements)
  PROVE  \A n \in Nat : f[n] = depthOf(requirements, f[n - 1], n) /\ f[n] \in [calls(ids) -> searches(ids)]
<1> DEFINE chosen == CHOOSE g : g = [n \in Nat |-> depthOf(requirements, g[n - 1], n)]
<1>1. chosen = [n \in Nat |-> depthOf(requirements, chosen[n - 1], n)]
  <2>1. \E g : g = [n \in Nat |-> depthOf(requirements, g[n - 1], n)]
    BY VisitExists
  <2> QED
    BY <2>1
<1>2. f = chosen
  BY DEF visitOf, depthOf, visitedBy, calls, searches, childrenOf, withCycle
<1> HIDE DEF chosen
<1>3. \A n \in Nat : f[n] = depthOf(requirements, f[n - 1], n)
  BY <1>1, <1>2
<1> DEFINE S == {n \in Nat : f[n] \in [calls(ids) -> searches(ids)]}
<1>4. 0 \in S
  <2>1. ASSUME NEW v \in calls(ids) PROVE visitedBy(requirements, f[0 - 1], 0, v) \in searches(ids)
    <3>1. PICK stay \in [calls(ids) -> searches(ids)] : TRUE
      BY VisitExists
    <3>2. visitedBy(requirements, f[0 - 1], 0, v) = visitedBy(requirements, stay, 0, v)
      BY DEF visitedBy
    <3> QED
      BY <3>1, <3>2, VisitTyped
  <2>2. depthOf(requirements, f[0 - 1], 0) \in [calls(ids) -> searches(ids)]
    BY <2>1 DEF depthOf
  <2> QED
    BY <1>3, <2>2
<1>5. ASSUME NEW n \in Nat, n \in S PROVE n + 1 \in S
  <2>1. n + 1 \in Nat /\ (n + 1) - 1 = n
    OBVIOUS
  <2>2. PICK deeper \in [calls(ids) -> searches(ids)] : deeper = f[n]
    BY <1>5
  <2>3. f[n + 1] = depthOf(requirements, deeper, n + 1)
    BY <1>3, <2>1, <2>2
  <2> QED
    BY <2>1, <2>3, DepthTyped
<1>6. Nat \subseteq S
  <2> HIDE DEF S
  <2> QED
    BY <1>4, <1>5, SetInduction
<1> QED
  BY <1>3, <1>6

(* The trail of a visit, and the cycles that end one.                      *)
isFollowed(requirements, trail) == \A i \in 1 .. Len(trail) - 1 : trail[i + 1] \in dependsOn(requirements, trail[i])
isTrail(requirements, trail) ==
  /\ trail \in Seq(idSet(requirements))
  /\ \A i, j \in 1 .. Len(trail) : trail[i] = trail[j] => i = j
  /\ isFollowed(requirements, trail)
mayFollow(requirements, trail, id) == trail = <<>> \/ id \in dependsOn(requirements, trail[Len(trail)])
isCycle(requirements, cycle) == Len(cycle) > 1 /\ cycle[1] = cycle[Len(cycle)] /\ isFollowed(requirements, cycle)

LEMMA TrailEnds ==
  ASSUME NEW requirements, NEW trail, isTrail(requirements, trail), NEW id \in idSet(requirements),
         mayFollow(requirements, trail, id), id \in Range(trail), NEW cycle, cycle = cycleOf(trail, id)
  PROVE  cycle \in Seq(idSet(requirements)) /\ isCycle(requirements, cycle)
<1>1. PICK n \in Nat : n = Len(trail) /\ DOMAIN trail = 1 .. n
  BY DEF isTrail
<1>2. PICK i \in 1 .. n :
        /\ trail[i] = id
        /\ cycle \in Seq(idSet(requirements)) /\ Len(cycle) = n - i + 2
        /\ \A k \in 1 .. n - i + 1 : cycle[k] = trail[i + k - 1]
        /\ cycle[n - i + 2] = id
  <2>1. PICK ids : ids = idSet(requirements)
    OBVIOUS
  <2>2. trail \in Seq(ids)
    BY <2>1 DEF isTrail
  <2>3. cycle \in Seq(ids) /\ \E i \in 1 .. Len(trail) : endsTrail(cycle, trail, id, i)
    BY <2>2, CycleOfIs
  <2> QED
    BY <1>1, <2>1, <2>3 DEF endsTrail
<1>3. PICK m \in Nat : m = n - i + 1 /\ m > 0
  BY <1>2
<1>4. Len(cycle) = m + 1 /\ cycle[m + 1] = id /\ \A k \in 1 .. m : cycle[k] = trail[i + k - 1]
  BY <1>2, <1>3
<1>5. cycle[1] = id
  <2>1. 1 \in 1 .. m /\ i + 1 - 1 = i
    BY <1>3
  <2> QED
    BY <1>2, <1>4, <2>1
<1>6. id \in dependsOn(requirements, trail[n])
  <2>1. trail # <<>>
    BY <1>1, <1>2
  <2> QED
    BY <1>1, <2>1 DEF mayFollow
<1>7. ASSUME NEW k \in 1 .. m PROVE cycle[k + 1] \in dependsOn(requirements, cycle[k])
  <2>1. PICK a \in 1 .. n : a = i + k - 1
    BY <1>2, <1>3
  <2>2. cycle[k] = trail[a]
    BY <1>4, <2>1
  <2>3. CASE k = m
    <3>1. a = n
      BY <1>2, <1>3, <2>1, <2>3
    <3> QED
      BY <1>4, <1>6, <2>2, <2>3, <3>1
  <2>4. CASE k # m
    <3>1. k + 1 \in 1 .. m /\ a \in 1 .. n - 1 /\ i + (k + 1) - 1 = a + 1
      BY <1>2, <1>3, <2>1, <2>4
    <3>2. cycle[k + 1] = trail[a + 1]
      BY <1>4, <3>1
    <3>3. trail[a + 1] \in dependsOn(requirements, trail[a])
      BY <1>1, <3>1 DEF isTrail, isFollowed
    <3> QED
      BY <2>2, <3>2, <3>3
  <2> QED
    BY <2>3, <2>4
<1>8. isFollowed(requirements, cycle)
  <2>1. Len(cycle) - 1 = m
    BY <1>3, <1>4
  <2> QED
    BY <1>7, <2>1 DEF isFollowed
<1>9. Len(cycle) > 1 /\ cycle[1] = cycle[Len(cycle)]
  BY <1>3, <1>4, <1>5
<1> QED
  BY <1>2, <1>8, <1>9 DEF isCycle

grown(requirements, trail, id, longer) ==
  /\ isTrail(requirements, longer)
  /\ Len(longer) = Len(trail) + 1 /\ Range(longer) = Range(trail) \union {id}
  /\ \A x \in childrenOf(requirements, id) : mayFollow(requirements, longer, x)

LEMMA TrailGrows ==
  ASSUME NEW requirements, NEW trail, isTrail(requirements, trail), NEW id \in idSet(requirements),
         mayFollow(requirements, trail, id), id \notin Range(trail), NEW longer, longer = Append(trail, id)
  PROVE  grown(requirements, trail, id, longer)
<1>1. PICK n \in Nat : n = Len(trail) /\ DOMAIN trail = 1 .. n
  BY DEF isTrail
<1>2. /\ longer \in Seq(idSet(requirements)) /\ Len(longer) = n + 1 /\ longer[n + 1] = id
      /\ DOMAIN longer = 1 .. n + 1 /\ \A k \in 1 .. n : longer[k] = trail[k]
  BY <1>1 DEF isTrail
<1>3. Range(longer) = Range(trail) \union {id}
  <2>1. 1 .. n + 1 = (1 .. n) \union {n + 1}
    BY <1>1
  <2> QED
    BY <1>1, <1>2, <2>1 DEF Range
<1>4. ASSUME NEW i \in 1 .. n + 1, NEW j \in 1 .. n + 1, longer[i] = longer[j] PROVE i = j
  <2>1. \A k \in 1 .. n : trail[k] # id
    BY <1>1 DEF Range
  <2>2. \A k \in 1 .. n + 1 : k \in 1 .. n \/ k = n + 1
    BY <1>1
  <2>3. CASE i \in 1 .. n /\ j \in 1 .. n
    BY <1>1, <1>2, <1>4, <2>3 DEF isTrail
  <2>4. CASE ~ (i \in 1 .. n /\ j \in 1 .. n)
    BY <1>2, <1>4, <2>1, <2>2, <2>4
  <2> QED
    BY <2>3, <2>4
<1>5. ASSUME NEW k \in 1 .. n PROVE longer[k + 1] \in dependsOn(requirements, longer[k])
  <2>1. CASE k = n
    <3>1. trail # <<>>
      BY <1>1, <2>1
    <3>2. id \in dependsOn(requirements, trail[n])
      BY <1>1, <3>1 DEF mayFollow
    <3> QED
      BY <1>2, <2>1, <3>2
  <2>2. CASE k # n
    <3>1. k + 1 \in 1 .. n /\ k \in 1 .. n - 1
      BY <1>1, <2>2
    <3>2. trail[k + 1] \in dependsOn(requirements, trail[k])
      BY <1>1, <3>1 DEF isTrail, isFollowed
    <3> QED
      BY <1>2, <3>1, <3>2
  <2> QED
    BY <2>1, <2>2
<1>6. isFollowed(requirements, longer)
  <2>1. Len(longer) - 1 = n
    BY <1>1, <1>2
  <2> QED
    BY <1>5, <2>1 DEF isFollowed
<1>7. isTrail(requirements, longer)
  BY <1>2, <1>4, <1>6 DEF isTrail
<1>8. \A x \in childrenOf(requirements, id) : mayFollow(requirements, longer, x)
  BY <1>2 DEF mayFollow, childrenOf
<1> QED
  BY <1>1, <1>2, <1>3, <1>7, <1>8 DEF grown

(* No requirement is on a trail twice.                                     *)
LEMMA TrailIsShort ==
  ASSUME NEW requirements, IsFiniteSet(idSet(requirements)), NEW trail, isTrail(requirements, trail)
  PROVE  Len(trail) <= Cardinality(idSet(requirements))
<1>1. PICK n \in Nat : n = Len(trail) /\ DOMAIN trail = 1 .. n /\ trail \in [1 .. n -> idSet(requirements)]
  BY DEF isTrail
<1>2. PICK k \in Nat : k = Cardinality(idSet(requirements))
  BY FS_CardinalityType
<1> SUFFICES ASSUME k < n PROVE FALSE
  BY <1>1, <1>2
<1>3. PICK I : I = 1 .. n
  OBVIOUS
<1>4. IsFiniteSet(I) /\ Cardinality(I) = n
  <2>1. IsFiniteSet(1 .. n) /\ Cardinality(1 .. n) = IF 1 > n THEN 0 ELSE n - 1 + 1
    BY FS_Interval
  <2> QED
    BY <1>1, <1>3, <2>1
<1>5. PICK f \in [I -> idSet(requirements)] : f = trail
  BY <1>1, <1>3
<1>6. PICK x \in I, y \in I : x # y /\ f[x] = f[y]
  BY <1>2, <1>4, FS_PigeonHole
<1> QED
  BY <1>1, <1>3, <1>5, <1>6 DEF isTrail

(* What a search has reported and settled: its cycles are cycles, and as   *)
(* long as it has met none, what it is done with has none and depends on   *)
(* nothing else.                                                           *)
acyclic(requirements, S) == \A T \in (SUBSET S) \ {{}} : \E a \in T : \A b \in T : b \notin dependsOn(requirements, a)
isClosed(requirements, S) == \A a \in S : childrenOf(requirements, a) \subseteq S

settled(requirements, search, trail) ==
  /\ \A cycle \in search.found : isCycle(requirements, cycle)
  /\ search.found = {} => /\ \A id \in Range(trail) : id \notin search.done
                          /\ isClosed(requirements, search.done)
                          /\ acyclic(requirements, search.done)

isAfter(search, out, ids) ==
  out.found = {} => search.found = {} /\ search.done \union ids \subseteq out.done

mayVisit(requirements, n, v) ==
  /\ isTrail(requirements, v.trail) /\ mayFollow(requirements, v.trail, v.id)
  /\ Len(v.trail) + n >= Cardinality(idSet(requirements))
  /\ settled(requirements, v.search, v.trail)

isVisitor(requirements, visit, n) ==
  \A v \in calls(idSet(requirements)) :
    mayVisit(requirements, n, v) =>
      settled(requirements, visit[v], v.trail) /\ isAfter(v.search, visit[v], {v.id})

(* A requirement that depends on what is settled is settled.               *)
LEMMA AcyclicGrows ==
  ASSUME NEW requirements, NEW S \in SUBSET idSet(requirements), acyclic(requirements, S), isClosed(requirements, S),
         NEW id \in idSet(requirements), id \notin S, childrenOf(requirements, id) \subseteq S
  PROVE  acyclic(requirements, S \union {id}) /\ isClosed(requirements, S \union {id})
<1>1. ASSUME NEW T \in (SUBSET (S \union {id})) \ {{}} PROVE \E a \in T : \A b \in T : b \notin dependsOn(requirements, a)
  <2>1. \A a \in S : id \notin dependsOn(requirements, a)
    BY DEF isClosed, childrenOf
  <2>2. CASE T = {id}
    <3>1. id \notin dependsOn(requirements, id)
      BY DEF childrenOf
    <3> QED
      BY <2>2, <3>1
  <2>3. CASE T # {id}
    <3>1. PICK U : U = T \ {id}
      OBVIOUS
    <3>2. U \in (SUBSET S) \ {{}}
      BY <2>3, <3>1
    <3>3. PICK a \in U : \A b \in U : b \notin dependsOn(requirements, a)
      BY <3>2 DEF acyclic
    <3>4. a \in S /\ a \in T /\ \A b \in T : b \in U \/ b = id
      BY <3>1, <3>2
    <3> QED
      BY <2>1, <3>3, <3>4
  <2> QED
    BY <2>2, <2>3
<1>2. acyclic(requirements, S \union {id})
  BY <1>1 DEF acyclic
<1>3. isClosed(requirements, S \union {id})
  BY DEF isClosed
<1> QED
  BY <1>2, <1>3

LEMMA LeaveSettles ==
  ASSUME NEW requirements, NEW search \in searches(idSet(requirements)), NEW trail, NEW longer,
         NEW id \in idSet(requirements), id \notin Range(trail), Range(longer) = Range(trail) \union {id},
         settled(requirements, search, longer),
         search.found = {} => childrenOf(requirements, id) \subseteq search.done,
         NEW out, out = leave(search, id)
  PROVE  settled(requirements, out, trail)
<1>1. out.done = search.done \union {id} /\ out.found = search.found
  BY SearchesGrow
<1>2. ASSUME out.found = {}
      PROVE  /\ \A x \in Range(trail) : x \notin out.done
             /\ isClosed(requirements, out.done)
             /\ acyclic(requirements, out.done)
  <2>1. search.found = {}
    BY <1>1, <1>2
  <2>2. /\ \A x \in Range(trail) \union {id} : x \notin search.done
        /\ isClosed(requirements, search.done)
        /\ acyclic(requirements, search.done)
    BY <2>1 DEF settled
  <2>3. PICK S \in SUBSET idSet(requirements) : S = search.done
    BY DEF searches
  <2>4. acyclic(requirements, S \union {id}) /\ isClosed(requirements, S \union {id})
    BY <2>1, <2>2, <2>3, AcyclicGrows
  <2> QED
    BY <1>1, <2>2, <2>3, <2>4
<1> QED
  BY <1>1, <1>2 DEF settled

(* Visits one after another settle what they visit.                        *)
LEMMA AllSettle ==
  ASSUME NEW requirements, NEW ids, ids = idSet(requirements), NEW X, X = searches(ids), NEW n, NEW visit,
         isVisitor(requirements, visit, n),
         NEW search, NEW todo \in Seq(ids), NEW trail, NEW out, leadsTo(visit, X, search, todo, trail, out),
         isTrail(requirements, trail), \A x \in Range(todo) : mayFollow(requirements, trail, x),
         Len(trail) + n >= Cardinality(ids), settled(requirements, search, trail)
  PROVE  settled(requirements, out, trail) /\ isAfter(search, out, Range(todo))
<1>1. PICK m \in Nat : m = Len(todo) /\ DOMAIN todo = 1 .. m /\ \A k \in 1 .. m : todo[k] \in ids
  OBVIOUS
<1>2. PICK after \in [0 .. m -> X] : after[0] = search /\ isVisits(after, visit, todo, trail) /\ out = after[m]
  BY <1>1 DEF leadsTo
<1> DEFINE before(k) == {todo[i] : i \in 1 .. k}
           J == {k \in Nat : k <= m => settled(requirements, after[k], trail) /\ isAfter(search, after[k], before(k))}
<1>3. 0 \in J
  <2>1. before(0) = {}
    OBVIOUS
  <2> HIDE DEF before
  <2> QED
    BY <1>2, <2>1 DEF isAfter
<1>4. ASSUME NEW k \in Nat, k \in J PROVE k + 1 \in J
  <2> SUFFICES ASSUME k + 1 <= m
               PROVE  settled(requirements, after[k + 1], trail) /\ isAfter(search, after[k + 1], before(k + 1))
    OBVIOUS
  <2>1. k + 1 \in 1 .. m /\ (k + 1) - 1 = k /\ k \in 0 .. m /\ k <= m
    BY <1>1
  <2>2. PICK s \in X : s = after[k] /\ settled(requirements, s, trail) /\ isAfter(search, s, before(k))
    BY <1>2, <1>4, <2>1
  <2>3. PICK id \in ids : id = todo[k + 1]
    BY <1>1, <2>1
  <2>4. PICK v : v = call(s, id, trail)
    OBVIOUS
  <2>5. v.search = s /\ v.id = id /\ v.trail = trail /\ v \in calls(ids)
    BY <2>4 DEF call, calls, isTrail
  <2>6. after[k + 1] = visit[v]
    BY <1>1, <1>2, <2>1, <2>2, <2>3, <2>4 DEF isVisits
  <2>7. mayFollow(requirements, trail, id)
    BY <1>1, <2>1, <2>3 DEF Range
  <2>8. mayVisit(requirements, n, v)
    BY <2>2, <2>5, <2>7 DEF mayVisit
  <2>9. settled(requirements, visit[v], trail) /\ isAfter(s, visit[v], {id})
    BY <2>5, <2>8 DEF isVisitor
  <2>10. before(k + 1) = before(k) \union {id}
    <3>1. 1 .. k + 1 = (1 .. k) \union {k + 1}
      OBVIOUS
    <3> QED
      BY <2>3, <3>1
  <2> HIDE DEF before
  <2>11. isAfter(search, visit[v], before(k + 1))
    BY <2>2, <2>9, <2>10 DEF isAfter
  <2> QED
    BY <2>6, <2>9, <2>11
<1>5. m \in J
  <2> HIDE DEF J
  <2> QED
    BY <1>3, <1>4, SetInduction
<1>6. Range(todo) = before(m)
  BY <1>1 DEF Range
<1> HIDE DEF before
<1> QED
  BY <1>1, <1>2, <1>5, <1>6

(* A visit settles, when those one level below do.                         *)
LEMMA VisitSettles ==
  ASSUME NEW requirements, isBaseline(requirements), NEW ids, ids = idSet(requirements),
         NEW deeper \in [calls(ids) -> searches(ids)], NEW n \in Nat,
         n # 0 => isVisitor(requirements, deeper, n - 1),
         NEW v \in calls(ids), mayVisit(requirements, n, v), NEW out, out = visitedBy(requirements, deeper, n, v)
  PROVE  settled(requirements, out, v.trail) /\ isAfter(v.search, out, {v.id})
<1>1. PICK search \in searches(ids), id \in ids, trail \in Seq(ids) : search = v.search /\ id = v.id /\ trail = v.trail
  BY CallIs
<1>2. /\ isTrail(requirements, trail) /\ mayFollow(requirements, trail, id)
      /\ Len(trail) + n >= Cardinality(ids) /\ settled(requirements, search, trail)
  BY <1>1 DEF mayVisit
<1>3. CASE id \in search.done
  <2>1. out = search
    BY <1>1, <1>3 DEF visitedBy
  <2> QED
    BY <1>1, <1>2, <1>3, <2>1 DEF isAfter
<1>4. CASE id \notin search.done /\ id \in Range(trail)
  <2>1. PICK cycle : cycle = cycleOf(trail, id)
    OBVIOUS
  <2>2. cycle \in Seq(ids) /\ isCycle(requirements, cycle)
    BY <1>2, <1>4, <2>1, TrailEnds
  <2>3. out = withCycle(search, cycle)
    BY <1>1, <1>4, <2>1 DEF visitedBy
  <2>4. out.found = search.found \union {cycle}
    BY <2>2, <2>3, SearchesGrow
  <2>5. settled(requirements, out, trail) /\ isAfter(search, out, {id})
    BY <1>2, <2>2, <2>4 DEF settled, isAfter
  <2> QED
    BY <1>1, <2>5
<1>5. CASE id \notin search.done /\ id \notin Range(trail)
  <2>1. PICK longer : longer = Append(trail, id)
    OBVIOUS
  <2>2. /\ isTrail(requirements, longer)
        /\ Len(longer) = Len(trail) + 1 /\ Range(longer) = Range(trail) \union {id}
        /\ \A x \in childrenOf(requirements, id) : mayFollow(requirements, longer, x)
    <3>1. grown(requirements, trail, id, longer)
      BY <1>2, <1>5, <2>1, TrailGrows
    <3> QED
      BY <3>1 DEF grown
  <2>3. PICK k \in Nat : k = Cardinality(ids) /\ IsFiniteSet(ids)
    BY FiniteIds, FS_CardinalityType DEF isBaseline
  <2>4. PICK l \in Nat : l = Len(trail)
    OBVIOUS
  <2>5. l + 1 <= k
    BY <2>2, <2>3, <2>4, TrailIsShort
  <2>6. n # 0 /\ n - 1 \in Nat /\ Len(longer) + (n - 1) >= Cardinality(ids)
    BY <1>2, <2>2, <2>3, <2>4, <2>5
  <2>7. PICK todo \in Seq(ids) : todo = ascending(childrenOf(requirements, id)) /\ Range(todo) = childrenOf(requirements, id)
    BY ChildrenAre
  <2>8. PICK all : all = visitAll(deeper, search, todo, longer)
    OBVIOUS
  <2>9. PICK X, Z : X = searches(ids) /\ Z = Seq(ids)
    OBVIOUS
  <2>10. leadsTo(deeper, X, search, todo, longer, all)
    <3>1. isVisit(deeper, X, ids, Z)
      BY <2>9 DEF calls, isVisit
    <3>2. search \in X /\ longer \in Z
      BY <2>2, <2>9 DEF isTrail
    <3> QED
      BY <2>8, <3>1, <3>2, VisitAllIs
  <2>11. all \in searches(ids)
    BY <2>9, <2>10 DEF leadsTo
  <2>12. settled(requirements, search, longer)
    BY <1>2, <1>5, <2>2 DEF settled
  <2>13. settled(requirements, all, longer) /\ isAfter(search, all, Range(todo))
    <3>1. PICK p : p = n - 1
      OBVIOUS
    <3>2. isVisitor(requirements, deeper, p) /\ Len(longer) + p >= Cardinality(ids)
      BY <2>6, <3>1
    <3>3. \A x \in Range(todo) : mayFollow(requirements, longer, x)
      BY <2>2, <2>7
    <3> QED
      BY <2>2, <2>9, <2>10, <2>12, <3>2, <3>3, AllSettle
  <2>14. all.found = {} => childrenOf(requirements, id) \subseteq all.done
    BY <2>7, <2>13 DEF isAfter
  <2>15. out = leave(all, id)
    BY <1>1, <1>5, <2>1, <2>6, <2>7, <2>8 DEF visitedBy
  <2>16. settled(requirements, out, trail)
    BY <1>5, <2>2, <2>11, <2>13, <2>14, <2>15, LeaveSettles
  <2>17. out.done = all.done \union {id} /\ out.found = all.found
    BY <2>11, <2>15, SearchesGrow
  <2>18. isAfter(search, out, {id})
    BY <2>13, <2>17 DEF isAfter
  <2> QED
    BY <1>1, <2>16, <2>18
<1> QED
  BY <1>3, <1>4, <1>5

LEMMA VisitorsSettle ==
  ASSUME NEW requirements, isBaseline(requirements), NEW f, f = visitOf(requirements)
  PROVE  \A n \in Nat : isVisitor(requirements, f[n], n)
<1>1. PICK ids : ids = idSet(requirements)
  OBVIOUS
<1>2. \A n \in Nat : f[n] = depthOf(requirements, f[n - 1], n) /\ f[n] \in [calls(ids) -> searches(ids)]
  BY <1>1, VisitIs
<1>3. ASSUME NEW n \in Nat, NEW deeper \in [calls(ids) -> searches(ids)], NEW previous,
             f[n] = depthOf(requirements, previous, n), n = 0 \/ previous = deeper,
             n # 0 => isVisitor(requirements, deeper, n - 1)
      PROVE  isVisitor(requirements, f[n], n)
  <2> SUFFICES ASSUME NEW v \in calls(ids), mayVisit(requirements, n, v)
               PROVE  settled(requirements, f[n][v], v.trail) /\ isAfter(v.search, f[n][v], {v.id})
    BY <1>1 DEF isVisitor
  <2>1. f[n][v] = visitedBy(requirements, previous, n, v)
    BY <1>1, <1>3 DEF depthOf
  <2>2. visitedBy(requirements, previous, n, v) = visitedBy(requirements, deeper, n, v)
    BY <1>3 DEF visitedBy
  <2>3. PICK out : out = visitedBy(requirements, deeper, n, v)
    OBVIOUS
  <2>4. settled(requirements, out, v.trail) /\ isAfter(v.search, out, {v.id})
    BY <1>1, <1>3, <2>3, VisitSettles
  <2> QED
    BY <2>1, <2>2, <2>3, <2>4
<1> DEFINE J == {n \in Nat : isVisitor(requirements, f[n], n)}
<1>4. 0 \in J
  <2>1. PICK deeper \in [calls(ids) -> searches(ids)] : deeper = f[0]
    BY <1>2
  <2>2. PICK previous : previous = f[0 - 1]
    OBVIOUS
  <2>3. f[0] = depthOf(requirements, previous, 0)
    BY <1>2, <2>2
  <2> QED
    BY <1>3, <2>3
<1>5. ASSUME NEW n \in Nat, n \in J PROVE n + 1 \in J
  <2>1. PICK deeper \in [calls(ids) -> searches(ids)] : deeper = f[n]
    BY <1>2
  <2>2. PICK p \in Nat : p = n + 1 /\ p # 0 /\ p - 1 = n
    OBVIOUS
  <2>3. f[p] = depthOf(requirements, deeper, p)
    BY <1>2, <2>1, <2>2
  <2>4. isVisitor(requirements, deeper, p - 1)
    BY <1>5, <2>1, <2>2
  <2>5. isVisitor(requirements, f[p], p)
    BY <1>3, <2>3, <2>4
  <2> QED
    BY <2>2, <2>5
<1>6. Nat \subseteq J
  <2> HIDE DEF J
  <2> QED
    BY <1>4, <1>5, SetInduction
<1> QED
  BY <1>6

dependencyLoop(requirements, S) == \A a \in S : \E b \in S : b \in dependsOn(requirements, a)

(* dependencyCycles reports cycles, and one when there is one.             *)
LEMMA DependencyCycles ==
  ASSUME NEW requirements, isBaseline(requirements), NEW found, found = dependencyCycles(requirements)
  PROVE  /\ found # {} <=> \E S \in (SUBSET idSet(requirements)) \ {{}} : dependencyLoop(requirements, S)
         /\ \A cycle \in found : isCycle(requirements, cycle)
<1>1. PICK ids : ids = idSet(requirements)
  OBVIOUS
<1>2. PICK n \in Nat : n = Cardinality(ids) /\ IsFiniteSet(ids) /\ ids \subseteq Nat
  BY <1>1, FiniteIds, FS_CardinalityType DEF isBaseline
<1>3. PICK f : f = visitOf(requirements)
  OBVIOUS
<1>4. PICK visit \in [calls(ids) -> searches(ids)] : visit = f[n] /\ isVisitor(requirements, visit, n)
  BY <1>1, <1>3, VisitIs, VisitorsSettle
<1>5. PICK search : search = [done |-> {}, found |-> {}]
  OBVIOUS
<1>6. search.done = {} /\ search.found = {} /\ search \in searches(ids)
  BY <1>5 DEF searches
<1>7. PICK todo \in Seq(ids) : todo = ascending(ids) /\ Range(todo) = ids
  BY <1>2, AscendingIs
<1>8. PICK trail : trail = <<>>
  OBVIOUS
<1>9. PICK out : out = visitAll(visit, search, todo, trail)
  OBVIOUS
<1>10. found = out.found
  BY <1>1, <1>2, <1>3, <1>4, <1>5, <1>7, <1>8, <1>9 DEF dependencyCycles
<1>11. PICK X, Z : X = searches(ids) /\ Z = Seq(ids)
  OBVIOUS
<1>12. leadsTo(visit, X, search, todo, trail, out)
  <2>1. isVisit(visit, X, ids, Z)
    BY <1>11 DEF calls, isVisit
  <2>2. search \in X /\ trail \in Z
    BY <1>6, <1>8, <1>11
  <2> QED
    BY <1>9, <2>1, <2>2, VisitAllIs
<1>13. isTrail(requirements, trail) /\ Len(trail) + n >= Cardinality(ids) /\ \A x : mayFollow(requirements, trail, x)
  <2>1. trail \in Seq(ids) /\ Len(trail) = 0
    BY <1>8
  <2>2. 1 .. 0 = {} /\ 1 .. 0 - 1 = {} /\ 0 + n = n /\ n >= n
    OBVIOUS
  <2> QED
    BY <1>1, <1>2, <1>8, <2>1, <2>2 DEF isTrail, isFollowed, mayFollow
<1>14. settled(requirements, search, trail)
  BY <1>6 DEF settled, isClosed, acyclic
<1>15. settled(requirements, out, trail) /\ isAfter(search, out, Range(todo))
  BY <1>1, <1>4, <1>11, <1>12, <1>13, <1>14, AllSettle
<1>16. found = {} => acyclic(requirements, ids)
  <2> SUFFICES ASSUME found = {} PROVE acyclic(requirements, ids)
    OBVIOUS
  <2>1. acyclic(requirements, out.done) /\ ids \subseteq out.done
    BY <1>7, <1>10, <1>15 DEF settled, isAfter
  <2> QED
    BY <2>1 DEF acyclic
<1>17. found \subseteq Seq(ids)
  <2>1. out \in searches(ids)
    <3>1. PICK m \in Nat : m = Len(todo)
      OBVIOUS
    <3> QED
      BY <1>11, <1>12, <3>1 DEF leadsTo
  <2> QED
    BY <1>10, <2>1 DEF searches
<1>18. \A cycle \in found : isCycle(requirements, cycle)
  BY <1>10, <1>15 DEF settled
<1>19. ASSUME NEW cycle \in found PROVE \E S \in (SUBSET ids) \ {{}} : dependencyLoop(requirements, S)
  <2>1. PICK k \in Nat : k = Len(cycle) /\ DOMAIN cycle = 1 .. k /\ \A i \in 1 .. k : cycle[i] \in ids
    BY <1>17, <1>19
  <2>2. k > 1 /\ cycle[1] = cycle[k] /\ \A i \in 1 .. k - 1 : cycle[i + 1] \in dependsOn(requirements, cycle[i])
    BY <1>18, <1>19, <2>1 DEF isCycle, isFollowed
  <2>3. PICK S : S = {cycle[i] : i \in 1 .. k}
    OBVIOUS
  <2>4. ASSUME NEW i \in 1 .. k PROVE \E b \in S : b \in dependsOn(requirements, cycle[i])
    <3>1. CASE i # k
      <4>1. i \in 1 .. k - 1 /\ i + 1 \in 1 .. k
        BY <2>1, <3>1
      <4> QED
        BY <2>2, <2>3, <4>1
    <3>2. CASE i = k
      <4>1. 1 \in 1 .. k - 1 /\ 1 + 1 \in 1 .. k
        BY <2>1, <2>2
      <4> QED
        BY <2>2, <2>3, <3>2, <4>1
    <3> QED
      BY <3>1, <3>2
  <2>5. S \in (SUBSET ids) \ {{}}
    <3>1. 1 \in 1 .. k
      BY <2>1, <2>2
    <3> QED
      BY <2>1, <2>3, <3>1
  <2>6. dependencyLoop(requirements, S)
    BY <2>3, <2>4 DEF dependencyLoop
  <2> QED
    BY <2>5, <2>6
<1>20. ASSUME NEW S \in (SUBSET ids) \ {{}}, dependencyLoop(requirements, S) PROVE found # {}
  <2> SUFFICES ASSUME acyclic(requirements, ids) PROVE FALSE
    BY <1>16
  <2> QED
    BY <1>20 DEF acyclic, dependencyLoop
<1> QED
  BY <1>1, <1>18, <1>19, <1>20

(* The searches for cycles are right: in what the requirements of any      *)
(* baseline depend on and in the aliases of any design system, they report *)
(* one exactly when there is one, and what is reported of requirements is  *)
(* one (dependencyCycles, validateTokens).                                 *)
THEOREM SearchesFindCycles == Spec => []CyclesAreReported
<1>1. CInv => CyclesAreReported
  <2> SUFFICES ASSUME CInv PROVE CyclesAreReported
    OBVIOUS
  <2>1. PICK requirements : requirements = input.system.baseline.requirements
    OBVIOUS
  <2>2. PICK found : found = dependencyCycles(requirements)
    OBVIOUS
  <2>3. isBaseline(requirements)
    BY <2>1, SystemIsWellFormed DEF isSystem, isBaseline
  <2>4. /\ found # {} <=> \E S \in (SUBSET idSet(requirements)) \ {{}} : dependencyLoop(requirements, S)
        /\ \A cycle \in found : isCycle(requirements, cycle)
    BY <2>2, <2>3, DependencyCycles
  <2>5. (found # {}) = \E S \in (SUBSET idSet(requirements)) \ {{}} : \A a \in S : \E b \in S : b \in dependsOn(requirements, a)
    BY <2>4 DEF dependencyLoop
  <2>6. \A cycle \in found : /\ Len(cycle) > 1 /\ cycle[1] = cycle[Len(cycle)]
                             /\ \A i \in 1 .. Len(cycle) - 1 : cycle[i + 1] \in dependsOn(requirements, cycle[i])
    BY <2>4 DEF isCycle, isFollowed
  <2>7. \A d \in Range(input.system.designs) :
          ("DESIGN_TOKEN_ALIAS_CYCLE" \in validateTokens(d.tokens))
          = \E S \in (SUBSET DOMAIN d.tokens) \ {{}} : \A path \in S : aliasOf(d.tokens[path].value) \in S
    <3> SUFFICES ASSUME NEW d \in Range(input.system.designs)
                 PROVE  ("DESIGN_TOKEN_ALIAS_CYCLE" \in validateTokens(d.tokens))
                        = \E S \in (SUBSET DOMAIN d.tokens) \ {{}} : \A path \in S : aliasOf(d.tokens[path].value) \in S
      OBVIOUS
    <3>1. isDesign(d)
      BY SystemIsWellFormed DEF isSystem, Range
    <3>2. PICK tokens : tokens = d.tokens /\ IsFiniteSet(DOMAIN tokens) /\ Null \notin DOMAIN tokens
      BY <3>1 DEF isDesign
    <3>3. "DESIGN_TOKEN_ALIAS_CYCLE" \in validateTokens(tokens)
          <=> \E S \in (SUBSET DOMAIN tokens) \ {{}} : aliasLoop(tokens, S)
      BY <3>2, AliasCycles
    <3> DEFINE isReported == "DESIGN_TOKEN_ALIAS_CYCLE" \in validateTokens(tokens)
               isLoop == \E S \in (SUBSET DOMAIN tokens) \ {{}} : \A path \in S : aliasOf(tokens[path].value) \in S
    <3>4. isReported <=> isLoop
      BY <3>3 DEF aliasLoop
    <3>5. isReported = isLoop
      <4> HIDE DEF isReported, isLoop
      <4>1. isReported \in BOOLEAN /\ isLoop \in BOOLEAN
        BY DEF isReported, isLoop
      <4> QED
        BY <3>4, <4>1
    <3> QED
      BY <3>2, <3>5, Zenon
  <2> QED
    BY <2>1, <2>2, <2>5, <2>6, <2>7, Zenon DEF CyclesAreReported
<1> QED
  BY <1>1, Compiled, PTL

=============================================================================
