-------------------------- MODULE EffectiveContext --------------------------
(***************************************************************************)
(* The Effective Organization Context (A3) of kernel/contracts/src/        *)
(* contracts/effective-organization-context.ts: the rules in force, derived*)
(* from layers and waivers, and the checks of the derived document.  Pure. *)
(* Ids are numbered in their sorting order; the value of a rule is the set *)
(* of what it allows.                                                      *)
(***************************************************************************)
EXTENDS KernelValues

CONSTANT RuleId   (* <<pattern>> or <<pattern, family>>                    *)

(* The derivation goes through the layers by ascending precedence, ties by *)
(* id; Array.sort is stable.                                               *)
precedes(layers, i, j) ==
  \/ layers[i].precedence < layers[j].precedence
  \/ /\ layers[i].precedence = layers[j].precedence
     /\ layers[i].id < layers[j].id \/ (layers[i].id = layers[j].id /\ i < j)

ordered(layers) ==
  LET order == inOrder(DOMAIN layers, {ij \in (DOMAIN layers) \X (DOMAIN layers) : precedes(layers, ij[1], ij[2])})
  IN  [k \in DOMAIN layers |-> layers[order[k]]]

(* Waivers go by id.                                                       *)
orderedWaivers(waivers) ==
  LET before(i, j) == waivers[i].id < waivers[j].id \/ (waivers[i].id = waivers[j].id /\ i < j)
      order == inOrder(DOMAIN waivers, {ij \in (DOMAIN waivers) \X (DOMAIN waivers) : before(ij[1], ij[2])})
  IN  [k \in DOMAIN waivers |-> waivers[order[k]]]

traced(from, id, value, outcome) == [from |-> from, id |-> id, value |-> value, outcome |-> outcome]

(* The last entry with one of the outcomes becomes OVERRIDDEN.             *)
demote(trace, outcomes) ==
  LET last == SelectLastInSeq(trace, LAMBDA entry : entry.outcome \in outcomes)
  IN  IF last = 0 THEN trace ELSE [trace EXCEPT ![last].outcome = "OVERRIDDEN"]

defined(working, at) ==
  [category |-> IF working = Null THEN at.rule.category ELSE working.category,
   value |-> at.rule.value,
   locked |-> at.rule.locked,
   source |-> [type |-> "LAYER", id |-> at.layer],
   trace |-> Append(IF working = Null THEN <<>> ELSE demote(working.trace, {"APPLIED"}),
                    traced("LAYER", at.layer, at.rule.value, "APPLIED"))]

(* Faulty variant: the lock of a layer is not looked at.                   *)
applyRuleUnlocked(working, at) == defined(working, at)

(* One definition of a rule, on what the layers before it made of it: the  *)
(* first one applies, a later one overrides it unless it is locked.        *)
applyRule(working, at) ==
  IF working # Null /\ working.locked
  THEN [working EXCEPT !.trace =
          Append(@, traced("LAYER", at.layer, at.rule.value, "REFUSED_LOCKED"))]
  ELSE defined(working, at)

(* Faulty variant: what the waiver replaces stays marked as in force.      *)
applyWaiverKeepingTrace(working, waiver) ==
  IF working = Null THEN Null
  ELSE [working EXCEPT
          !.value = waiver.value,
          !.source = [type |-> "WAIVER", id |-> waiver.id],
          !.trace = Append(@, traced("WAIVER", waiver.id, waiver.value, "WAIVED"))]

(* A waiver replaces the value, even a locked one.                         *)
applyWaiver(working, waiver) ==
  IF working = Null THEN Null
  ELSE [working EXCEPT
          !.value = waiver.value,
          !.source = [type |-> "WAIVER", id |-> waiver.id],
          !.trace = Append(demote(@, {"APPLIED", "WAIVED"}),
                           traced("WAIVER", waiver.id, waiver.value, "WAIVED"))]

(* What a rule is after the first definitions of a layer ...               *)
afterRules(working, layer, rule) ==
  LET after[n \in 0 .. Len(layer.rules)] ==
        IF n = 0 THEN working
        ELSE IF layer.rules[n].id = rule THEN applyRule(after[n - 1], [layer |-> layer.id, rule |-> layer.rules[n]])
        ELSE after[n - 1]
  IN  after

(* ... after the first layers, Null as long as none defines it ...         *)
afterLayers(layers, rule) ==
  LET sorted == ordered(layers)
      after[n \in 0 .. Len(layers)] ==
        IF n = 0 THEN Null ELSE afterRules(after[n - 1], sorted[n], rule)[Len(sorted[n].rules)]
  IN  after

(* ... and after all layers and the first waivers.                         *)
afterWaivers(layers, waivers, rule) ==
  LET sorted == orderedWaivers(waivers)
      after[n \in 0 .. Len(waivers)] ==
        IF n = 0 THEN afterLayers(layers, rule)[Len(layers)]
        ELSE IF sorted[n].rule = rule THEN applyWaiver(after[n - 1], sorted[n]) ELSE after[n - 1]
  IN  after

deriveEffectiveRules(layers, waivers) == [rule \in RuleId |-> afterWaivers(layers, waivers, rule)[Len(waivers)]]

(* The layers that define a rule, each with its definition.                *)
definitions(layers, rule) ==
  UNION {{[layer |-> layers[i], rule |-> r] : r \in {x \in ToSet(layers[i].rules) : x.id = rule}} :
           i \in DOMAIN layers}

derivationDiagnostics(layers, waivers) ==
  {code \in {"CONTEXT_DUPLICATE_PRECEDENCE"} :
     ~ IsInjective([i \in DOMAIN layers |-> layers[i].precedence])}
  \union
  {code \in {"CONTEXT_RULE_CATEGORY_CONFLICT"} :
     \E rule \in RuleId : \E d, e \in definitions(layers, rule) : d.rule.category # e.rule.category}
  \union
  {code \in {"CONTEXT_UNKNOWN_RULE"} :
     \E i \in DOMAIN waivers : definitions(layers, waivers[i].rule) = {}}

(* The codes reported for a context document; all of them are errors.      *)
validateEffectiveOrganizationContext(spec) ==
  {code \in {"CONTRACT_DUPLICATE_ITEM_ID"} :
     \/ ~ uniqueIds(spec.layers)
     \/ ~ uniqueIds(spec.waivers)
     \/ \E i \in DOMAIN spec.layers : ~ uniqueIds(spec.layers[i].rules)}
  \union
  {code \in {"AUTHORITY_AI_CANNOT_DECIDE"} :
     \E i \in DOMAIN spec.waivers : spec.waivers[i].approvedBy = "AI_AGENT"}
  \union
  {code \in {"AUTHORITY_ACTOR_CANNOT_DECIDE"} :
     \E i \in DOMAIN spec.waivers : spec.waivers[i].approvedBy \notin {"HUMAN", "AI_AGENT"}}
  \union
  derivationDiagnostics(spec.layers, spec.waivers)
  \union
  {code \in {"CONTEXT_NOT_REPRODUCIBLE"} :
     spec.effective # deriveEffectiveRules(spec.layers, spec.waivers)}

(***************************************************************************)
(* What the derivation has to compute, without following its steps: the    *)
(* lock of least precedence decides, else the definition of greatest       *)
(* precedence; among waivers, the one of greatest id.                      *)
(***************************************************************************)
decisive(layers, rule) ==
  LET all == definitions(layers, rule)
      locks == {d \in all : d.rule.locked}
  IN  IF locks # {}
      THEN CHOOSE d \in locks : \A e \in locks : d.layer.precedence <= e.layer.precedence
      ELSE CHOOSE d \in all : \A e \in all : d.layer.precedence >= e.layer.precedence

waiversOf(waivers, rule) == {w \in ToSet(waivers) : w.rule = rule}

(* The value of a rule some layer defines, under a set of its waivers.     *)
inForce(layers, live, rule) ==
  IF live = {} THEN decisive(layers, rule).rule.value
  ELSE (CHOOSE w \in live : \A v \in live : w.id >= v.id).value

=============================================================================
