------------------------------- MODULE Policy -------------------------------
(***************************************************************************)
(* The evaluation of the effective rules on a compiled system: policy.ts   *)
(* of kernel/compiler.  Pure.                                              *)
(*                                                                         *)
(* A rule is <<pattern>> or <<pattern, family>>; the patterns the kernel   *)
(* interprets are "runtime", "identity", "residency" and "accessibility".  *)
(* The IR is [components, integrations, environments, bindings]; a region  *)
(* is the sequence of its parts ("eu-west" is <<"eu", "west">>), a binding *)
(* [accessibility, tokens], accessibility <<standard, level>>.  A value    *)
(* that is not a list is a set of one.                                     *)
(***************************************************************************)
EXTENDS EffectiveContext

LEVELS == <<"A", "AA", "AAA">>
rank(level) == SelectInSeq(LEVELS, LAMBDA l : l = level)

interpreted(rule) == rule[1] \in {"runtime", "identity", "residency", "accessibility"}

(* What a rule constrains, as <<subject, actual>>.                         *)
subjects(rule, ir, resolved) ==
  CASE rule[1] = "runtime" ->
         {<<c, resolved[c].runtime>> : c \in {d \in DOMAIN ir.components : ir.components[d].kind[1] = rule[2]}}
    [] rule[1] = "identity" ->
         {<<i, ir.integrations[i].provider>> :
            i \in {j \in DOMAIN ir.integrations : ir.integrations[j].kind = "oidc-provider"}}
    [] rule[1] = "residency" -> {<<e, ir.environments[e]>> : e \in DOMAIN ir.environments}
    [] rule[1] = "accessibility" -> {<<b, ir.bindings[b].accessibility>> : b \in DOMAIN ir.bindings}

(* A component without runtime, an environment without region are out of   *)
(* reach of their rule; an integration without provider violates its own.  *)
applicable(rule, actual) == rule[1] \in {"runtime", "residency"} => actual # Null

(* check: does the value of the rule allow what the subject is?            *)
allowed(rule, value, actual) ==
  \/ rule[1] \in {"runtime", "identity"} /\ actual # Null /\ actual \in value
  \/ rule[1] = "residency" /\ \E region \in value : IsPrefix(region, actual)
  \/ /\ rule[1] = "accessibility"
     /\ actual[1] = "WCAG-2.2"
     /\ \E required \in value : /\ value = {required}
                                /\ required[1] = "WCAG-2.2"
                                /\ rank(required[2]) \in 1 .. rank(actual[2])

(* Faulty variant: the value before the waiver may be one a lock refused.  *)
beforeWaiverRefused(working) ==
  LET last == SelectLastInSeq(working.trace, LAMBDA e : e.from = "LAYER")
  IN  IF working.source.type # "WAIVER" \/ last = 0 THEN Null ELSE working.trace[last].value

(* The value a rule had before its waiver, Null when no waiver decided it. *)
beforeWaiver(working) ==
  LET last == SelectLastInSeq(working.trace,
                LAMBDA e : e.from = "LAYER" /\ e.outcome # "REFUSED_LOCKED")
  IN  IF working.source.type # "WAIVER" \/ last = 0 THEN Null ELSE working.trace[last].value

(* Array.find on the waivers of the context.                               *)
waiverOf(context, working) ==
  LET i == SelectInSeq(context.waivers, LAMBDA w : w.id = working.source.id)
  IN  IF working.source.type # "WAIVER" \/ i = 0 THEN Null ELSE context.waivers[i]

evaluation(rule, subject, outcome, waiver) ==
  [rule |-> rule, subject |-> subject, outcome |-> outcome, waiver |-> waiver]

(* One subject of an interpreted rule.                                     *)
evaluate(context, rule, subject) ==
  LET working == context.effective[rule]
      actual == subject[2]
      before == beforeWaiver(working)
      waiver == waiverOf(context, working)
      waived == waiver # Null /\ before # Null /\ ~ allowed(rule, before, actual)
  IN  CASE ~ applicable(rule, actual) -> evaluation(rule, subject[1], "NOT_APPLICABLE", Null)
        [] applicable(rule, actual) /\ ~ allowed(rule, working.value, actual) ->
             evaluation(rule, subject[1], "VIOLATED", Null)
        [] OTHER -> IF waived
                    THEN evaluation(rule, subject[1], "WAIVED",
                                    [id |-> waiver.id, expiresAt |-> waiver.expiresAt])
                    ELSE evaluation(rule, subject[1], "SATISFIED", Null)

evaluatePolicies(context, ir, resolved) ==
  LET rules == {rule \in RuleId : context.effective[rule] # Null}
  IN  {evaluation(rule, Null, "NOT_EVALUATED", Null) : rule \in {r \in rules : ~ interpreted(r)}}
      \union
      UNION {{evaluate(context, rule, subject) : subject \in subjects(rule, ir, resolved)} :
               rule \in {r \in rules : interpreted(r)}}

policyDiagnostics(report) ==
  {"POLICY_NOT_EVALUATED" : e \in {f \in report : f.outcome = "NOT_EVALUATED"}}
  \union {"POLICY_VIOLATION" : e \in {f \in report : f.outcome = "VIOLATED"}}

(* The waivers a plan relies on that have expired at an instant.           *)
expiredWaivers(report, at) ==
  IF report = Null THEN {}
  ELSE {e \in report : e.outcome = "WAIVED" /\ e.waiver.expiresAt < at}

=============================================================================
