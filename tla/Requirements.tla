---------------------------- MODULE Requirements ----------------------------
(***************************************************************************)
(* The Requirement Baseline and the Decision Set that a system pins:       *)
(* requirement-baseline.ts and decision-set.ts of kernel/contracts.  Pure. *)
(*                                                                         *)
(* A baseline is [status, sources, goals, actors, requirements,            *)
(* ambiguities]; a decision set is [status, decisions].  Collections are   *)
(* sequences of records with an id, which is a number (so that it sorts)   *)
(* for requirements; references are sets of ids.                           *)
(***************************************************************************)
EXTENDS KernelValues

idSet(items) == {items[i].id : i \in DOMAIN items}

UNDECIDED_REQUIREMENT == {"INFERRED", "PROPOSED"}

-----------------------------------------------------------------------------
(* dependencyCycles: a depth-first search that keeps the requirements it   *)
(* is done with and the cycles it met.  It is visiting those of the trail. *)

(* Map: the last of two requirements with one id.                          *)
dependsOn(requirements, id) ==
  requirements[SelectLastInSeq(requirements, LAMBDA r : r.id = id)].dependsOn

ascending(ids) == inOrder(ids, {p \in ids \X ids : p[1] < p[2]})

(* Faulty variant: the cycle starts where the search does.                 *)
cycleOfTrail(trail, id) == Append(trail, id)

cycleOf(trail, id) == Append(SubSeq(trail, SelectInSeq(trail, LAMBDA t : t = id), Len(trail)), id)

leave(search, id) == [search EXCEPT !.done = @ \union {id}]

(* The requirements of a list one after another.                           *)
visitAll(visit, search, todo, trail) ==
  LET after[k \in 0 .. Len(todo)] ==
        IF k = 0 THEN search ELSE visit[[search |-> after[k - 1], id |-> todo[k], trail |-> trail]]
  IN  after[Len(todo)]

(* What a visit to a requirement makes of a search, when it may enter n    *)
(* more; all are on the trail when it may enter none.                      *)
visitOf(requirements) ==
  LET ids == idSet(requirements)
      Search == [done : SUBSET ids, found : SUBSET Seq(ids)]
      children(id) == ascending(dependsOn(requirements, id) \intersect ids)
      visit[n \in Nat] ==
        [v \in [search : Search, id : ids, trail : Seq(ids)] |->
           IF v.id \in v.search.done THEN v.search
           ELSE IF v.id \in Range(v.trail) THEN [v.search EXCEPT !.found = @ \union {cycleOf(v.trail, v.id)}]
           ELSE IF n = 0 THEN v.search
           ELSE leave(visitAll(visit[n - 1], v.search, children(v.id), Append(v.trail, v.id)), v.id)]
  IN  visit

dependencyCycles(requirements) ==
  LET ids == idSet(requirements)
  IN  visitAll(visitOf(requirements)[Cardinality(ids)], [done |-> {}, found |-> {}], ascending(ids), <<>>).found

-----------------------------------------------------------------------------
(* The rules.                                                              *)

unknownReference(baseline) ==
  LET requirements == idSet(baseline.requirements)
  IN  \/ \E i \in DOMAIN baseline.requirements :
           LET r == baseline.requirements[i]
           IN  \/ ~ r.goals \subseteq idSet(baseline.goals)
               \/ ~ r.actors \subseteq idSet(baseline.actors)
               \/ ~ r.dependsOn \union r.conflictsWith \subseteq requirements
      \/ \E i \in DOMAIN baseline.ambiguities : ~ baseline.ambiguities[i].related \subseteq requirements

duplicateItems(baseline) ==
  \/ ~ uniqueIds(baseline.sources) \/ ~ uniqueIds(baseline.goals) \/ ~ uniqueIds(baseline.actors)
  \/ ~ uniqueIds(baseline.requirements) \/ ~ uniqueIds(baseline.ambiguities)
  \/ \E i \in DOMAIN baseline.requirements : ~ uniqueIds(baseline.requirements[i].criteria)

requirementDiagnostics(baseline, r) ==
  LET decided == r.status \notin UNDECIDED_REQUIREMENT
  IN  {code \in {"REQUIREMENT_UNKNOWN_SOURCE"} : ~ r.sources \subseteq idSet(baseline.sources)}
      \union {code \in {"REQUIREMENT_WITHOUT_PROVENANCE"} : ~ decided /\ r.sources = {}}
      \union {code \in {"REQUIREMENT_NOT_DECIDED"} : ~ decided /\ baseline.status = "ACCEPTED"}
      \union {code \in {"REQUIREMENT_ACCEPTED_WITHOUT_CRITERIA"} :
                r.status = "ACCEPTED" /\ r.type = "FUNCTIONAL" /\ r.criteria = <<>>}

validateRequirementBaseline(baseline) ==
  {code \in {"CONTRACT_DUPLICATE_ITEM_ID"} : duplicateItems(baseline)}
  \union {code \in {"REQUIREMENT_UNKNOWN_REFERENCE"} : unknownReference(baseline)}
  \union (UNION {requirementDiagnostics(baseline, r) : r \in Range(baseline.requirements)})
  \union {code \in {"REQUIREMENT_BLOCKING_AMBIGUITY_OPEN"} :
            /\ baseline.status = "ACCEPTED"
            /\ \E a \in Range(baseline.ambiguities) : a.impact = "BLOCKING" /\ a.status = "OPEN"}
  \union {code \in {"REQUIREMENT_DEPENDENCY_CYCLE"} : dependencyCycles(baseline.requirements) # {}}

decisionDiagnostics(set, decision) ==
  LET options == idSet(decision.options)
      accepted == decision.status = "ACCEPTED"
  IN  {code \in {"CONTRACT_DUPLICATE_ITEM_ID"} : ~ uniqueIds(decision.options)}
      \union {code \in {"DECISION_UNKNOWN_OPTION"} : decision.chosen \notin options \union {Null}}
      \union {code \in {"DECISION_CHOSEN_OPTION_MISSING"} : accepted /\ (decision.chosen = Null \/ ~ decision.reasoned)}
      \union {code \in {"DECISION_NO_ALTERNATIVE"} : accepted /\ Len(decision.options) < 2}
      \union {code \in {"DECISION_UNKNOWN_SUPERSEDED"} :
                decision.supersedes \notin (idSet(set.decisions) \ {decision.id}) \union {Null}}
      \union {code \in {"DECISION_NOT_DECIDED"} : set.status = "ACCEPTED" /\ decision.status = "PROPOSED"}

validateDecisionSet(set) ==
  {code \in {"CONTRACT_DUPLICATE_ITEM_ID"} : ~ uniqueIds(set.decisions)}
  \union UNION {decisionDiagnostics(set, decision) : decision \in Range(set.decisions)}

(* Drivers and satisfied requirements exist in the pinned baseline.        *)
crossValidateDecisionSet(set, baseline) ==
  {code \in {"DECISION_UNKNOWN_REQUIREMENT"} :
     \E d \in Range(set.decisions) :
       ~ d.drivers \union UNION {o.satisfies : o \in Range(d.options)} \subseteq idSet(baseline.requirements)}

=============================================================================
