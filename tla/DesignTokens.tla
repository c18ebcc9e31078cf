---------------------------- MODULE DesignTokens ----------------------------
(***************************************************************************)
(* Design tokens: their validation and resolution (design-system.ts of     *)
(* kernel/contracts) and the bindings the compiler derives (design.ts of   *)
(* kernel/compiler).  Pure.                                                *)
(*                                                                         *)
(* A design system is [accessibility, tokens, contexts]: tokens gives the  *)
(* [type, value] of every flattened path, contexts is a sequence of        *)
(* [id, overrides], overrides gives values to some paths.  A value is      *)
(* [alias, fits]: the path it refers to, Null if it is a literal, and then *)
(* the types the literal is valid for (one literal may fit several).       *)
(***************************************************************************)
EXTENDS KernelValues

aliasOf(value) == value.alias
typeAt(tokens, path) == IF path \in DOMAIN tokens THEN tokens[path].type ELSE Null

(* Where the walk of validateTokens from a token along the aliases is after *)
(* n steps, Null once it has ended.                                        *)
walk(tokens, path) ==
  LET at[n \in Nat] ==
        IF n = 0 THEN path
        ELSE IF at[n - 1] \in DOMAIN tokens THEN aliasOf(tokens[at[n - 1]].value) ELSE Null
  IN  at

(* It comes back to a path it has seen.                                    *)
closesCycle(tokens, path) ==
  LET at == walk(tokens, path)
  IN  \E n \in 1 .. Cardinality(DOMAIN tokens) : at[n] # Null /\ \E m \in 0 .. n - 1 : at[m] = at[n]

tokenDiagnostics(tokens, path) ==
  LET token == tokens[path]
      target == aliasOf(token.value)
  IN  IF target = Null THEN {code \in {"DESIGN_TOKEN_INVALID_VALUE"} : token.type \notin token.value.fits}
      ELSE IF target \notin DOMAIN tokens THEN {"DESIGN_TOKEN_UNRESOLVED_ALIAS"}
      ELSE {code \in {"DESIGN_TOKEN_TYPE_MISMATCH"} : tokens[target].type # token.type}
           \union {code \in {"DESIGN_TOKEN_ALIAS_CYCLE"} : closesCycle(tokens, path)}

validateTokens(tokens) == UNION {tokenDiagnostics(tokens, path) : path \in DOMAIN tokens}

(* Faulty variant: an overriding alias only has to name a token.           *)
overrideDiagnosticsUntyped(tokens, path, value) ==
  IF path \notin DOMAIN tokens THEN {"DESIGN_CONTEXT_UNKNOWN_TOKEN"}
  ELSE {code \in {"DESIGN_TOKEN_INVALID_VALUE"} :
          IF aliasOf(value) = Null THEN tokens[path].type \notin value.fits ELSE aliasOf(value) \notin DOMAIN tokens}

(* An override is judged against the tokens as authored: nothing looks at  *)
(* what several overrides of one context do together.                      *)
overrideDiagnostics(tokens, path, value) ==
  IF path \notin DOMAIN tokens THEN {"DESIGN_CONTEXT_UNKNOWN_TOKEN"}
  ELSE {code \in {"DESIGN_TOKEN_INVALID_VALUE"} :
          IF aliasOf(value) = Null THEN tokens[path].type \notin value.fits
          ELSE typeAt(tokens, aliasOf(value)) # tokens[path].type}

validateDesignSystem(design) ==
  {code \in {"CONTRACT_DUPLICATE_ITEM_ID"} : ~ uniqueIds(design.contexts)}
  \union validateTokens(design.tokens)
  \union UNION {UNION {overrideDiagnostics(design.tokens, path, c.overrides[path]) : path \in DOMAIN c.overrides}
                  : c \in Range(design.contexts)}

-----------------------------------------------------------------------------
(* Resolution.                                                             *)

overridden(tokens, overrides) ==
  [path \in DOMAIN tokens |->
     IF path \in DOMAIN overrides THEN [tokens[path] EXCEPT !.value = overrides[path]] ELSE tokens[path]]

(* What resolve makes of a token when it may follow n more aliases, Null   *)
(* where it throws; the type stays that of the first token.                *)
resolveToken(tokens) ==
  LET resolve[n \in Nat] ==
        [path \in DOMAIN tokens |->
           LET target == aliasOf(tokens[path].value)
           IN  IF target = Null THEN tokens[path]
               ELSE IF n = 0 \/ target \notin DOMAIN tokens \/ resolve[n - 1][target] = Null THEN Null
               ELSE [resolve[n - 1][target] EXCEPT !.type = tokens[path].type]]
  IN  resolve

overridesOf(design, context) ==
  LET i == SelectInSeq(design.contexts, LAMBDA c : c.id = context)
  IN  IF i = 0 THEN <<>> ELSE design.contexts[i].overrides

(* Null when a token cannot be resolved: the exception ends the whole.     *)
resolveDesignTokens(design, context) ==
  LET tokens == overridden(design.tokens, overridesOf(design, context))
      result == resolveToken(tokens)[Cardinality(DOMAIN tokens)]
  IN  IF Null \in Range(result) THEN Null ELSE result

(* The binding of every component with an experience; the design systems   *)
(* it pins are in the closure, so the lookup of design.ts finds them.      *)
buildDesignBindings(components, designs) ==
  [c \in {d \in DOMAIN components : components[d].experience # Null} |->
     LET experience == components[c].experience
         design == designs[experience.design]
     IN  [accessibility |-> design.accessibility, tokens |-> resolveDesignTokens(design, experience.context)]]

bindingsThrow(bindings) == \E c \in DOMAIN bindings : bindings[c].tokens = Null

=============================================================================
