----------------------------- MODULE MCCompiler -----------------------------
(* Small instances of Compiler: two or three components, catalogs with     *)
(* gaps and overlaps, extensions that load and do not, three layers with   *)
(* and without locks, waivers that expire, requirements that depend on one *)
(* another, design systems with three tokens.                              *)
EXTENDS Compiler

api == <<"api", "service">>
spa == <<"web", "surface">>
apiRule == <<"runtime", "api">>
webRule == <<"runtime", "web">>

MCRuleId == {apiRule, webRule, <<"identity">>, <<"residency">>, <<"accessibility">>, <<"naming">>}

(* Capabilities are parts of the ids of their providers.                   *)
auditing == 11
queueing == 12

component(kind, preferences, capabilities, class) ==
  [kind |-> kind, preferences |-> preferences, capabilities |-> capabilities, class |-> class,
   requirements |-> {1}, decisions |-> {}, implements |-> {}, publishes |-> {}, subscribes |-> {},
   consumes |-> {}, data |-> {}, experience |-> Null]

requirement(id, type, needs) ==
  [id |-> id, type |-> type, status |-> "ACCEPTED", goals |-> {"G"}, actors |-> {"A"}, sources |-> {"S"},
   criteria |-> <<[id |-> "C"]>>, dependsOn |-> needs, conflictsWith |-> {}]

baseline(requirements) ==
  [status |-> "ACCEPTED", sources |-> <<[id |-> "S"]>>, goals |-> <<[id |-> "G"]>>, actors |-> <<[id |-> "A"]>>,
   requirements |-> requirements, ambiguities |-> <<>>]

functional == baseline(<<requirement(1, "FUNCTIONAL", {}), requirement(2, "FUNCTIONAL", {})>>)
undecided == [status |-> "ACCEPTED", decisions |-> <<>>]

(* A design system of one token, in one context.                           *)
literal(types) == [alias |-> Null, fits |-> types]
alias(path) == [alias |-> path, fits |-> {}]
token(type, value) == [type |-> type, value |-> value]
design(accessibility, tokens, overrides) ==
  [accessibility |-> accessibility, tokens |-> tokens,
   contexts |-> <<[id |-> "light", overrides |-> <<>>], [id |-> "dark", overrides |-> overrides]>>]
plainDesign(accessibility) == design(accessibility, [ink |-> token("color", literal({"color"}))], <<>>)

service == component(api, <<"nestjs", "quarkus">>, <<auditing, queueing>>, "COMPILER_OWNED")
themed(c) == [c EXCEPT !.experience = [design |-> 1, context |-> "dark"]]
system(components) ==
  [components |-> components, integrations |-> <<>>, environments |-> <<>>, designs |-> <<>>, domains |-> <<>>,
   baseline |-> baseline(<<requirement(1, "FUNCTIONAL", {}), requirement(2, "CONSTRAINT", {1})>>),
   decisions |-> undecided]

whole == system(<<service, component(spa, <<"angular">>, <<>>, "OWNER_MANAGED")>>)

(* A contract of two operations, of which one emits; an event that no      *)
(* operation emits; an invariant.                                          *)
orders(revision) ==
  [id |-> "orders", context |-> "sales", revision |-> revision, types |-> {"order"}, events |-> {"placed", "audited"},
   emits |-> [place |-> {"placed"}, find |-> {}], refers |-> {"place"}, invariants |-> [total |-> {"order"}],
   facets |-> {}]

systems ==
  {whole,
   system(<<component(api, <<"quarkus", "nestjs">>, <<auditing>>, "EXTERNAL"),
            component(spa, <<>>, <<auditing>>, "COMPILER_OWNED")>>),
   [whole EXCEPT
      !.components = <<themed(service)>>,
      !.domains = <<orders(1)>>,
      !.integrations = <<[kind |-> "oidc-provider", provider |-> "keycloak"],
                         [kind |-> "smtp", provider |-> Null]>>,
      !.environments = <<<<"eu", "west">>, Null>>,
      !.designs = <<plainDesign(<<"WCAG-2.2", "AA">>)>>],
   [whole EXCEPT
      !.components = <<themed(service)>>,
      !.integrations = <<[kind |-> "oidc-provider", provider |-> Null]>>,
      !.environments = <<<<"europe">>>>,
      !.designs = <<plainDesign(<<"WCAG-2.1", "AAA">>)>>]}

(* Two services and a surface over contracts that are right, pinned twice  *)
(* or wrong; the last one is not orders.                                   *)
domainLists ==
  {<<orders(1)>>, <<orders(1), orders(2)>>,
   <<[orders(1) EXCEPT !.emits = [place |-> {}, find |-> {}], !.facets = {"offline"}], orders(2)>>,
   <<[orders(1) EXCEPT !.events = {"audited"}]>>,
   <<[orders(1) EXCEPT !.invariants = [total |-> {"basket"}]]>>,
   <<orders(1), [orders(1) EXCEPT !.id = "returns", !.refers = {}]>>,
   <<orders(1), [orders(1) EXCEPT !.id = "returns", !.context = "returns"]>>}

place == <<"orders", "place">>
find == <<"orders", "find">>
placed == <<"orders", "placed">>
audited == <<"orders", "audited">>

consumptions ==
  {{}, {[component |-> 1, operations |-> {place}]}, {[component |-> 2, operations |-> {find}]},
   {[component |-> 1, operations |-> {place, find}], [component |-> 2, operations |-> {find}]},
   {[component |-> 3, operations |-> {}]}, {[component |-> 4, operations |-> {}]},
   {[component |-> 1, operations |-> {<<"orders", "gone">>}]}}

domainSystems ==
  {[whole EXCEPT
      !.domains = ds,
      !.baseline = functional,
      !.components =
        <<[service EXCEPT !.implements = a, !.requirements = {}],
          [component(api, <<"nestjs">>, <<>>, "EXTERNAL") EXCEPT !.implements = b, !.publishes = p],
          [component(spa, <<"angular">>, <<>>, "OWNER_MANAGED") EXCEPT !.consumes = e, !.subscribes = s, !.requirements = {}]>>] :
     ds \in domainLists, a \in SUBSET {place, find} \union {{place, <<"returns", "find">>}}, b \in {{}, {find}}, p \in {{}, {audited}},
     e \in consumptions, s \in {{}, {placed}, {placed, audited}}}

accesses ==
  {{}, {[store |-> 3, access |-> "OWNER"]}, {[store |-> 3, access |-> "READ"]}, {[store |-> 4, access |-> "OWNER"]}}

dataSystems ==
  {[whole EXCEPT
      !.components = <<[service EXCEPT !.data = a, !.requirements = r],
                       [component(api, <<"swift">>, <<>>, "COMPILER_OWNED") EXCEPT !.data = b, !.requirements = {2}],
                       component(spa, <<"angular">>, <<>>, "OWNER_MANAGED")>>,
      !.baseline = functional] :
     a \in accesses, b \in accesses, r \in {{}, {2}, {3}}}

adapter(id, kinds, runtime) == [id |-> id, wellFormed |-> TRUE, kinds |-> kinds, runtime |-> runtime]
provider(id, capability, runtimes) ==
  [id |-> id, wellFormed |-> TRUE, capability |-> capability, runtimes |-> runtimes]

nestjs == adapter("nestjs", {api}, "nestjs")
quarkus == adapter("quarkus", {api}, "quarkus")
angular == adapter("angular", {spa}, "angular")
audit == provider("audit", auditing, {"nestjs", "quarkus"})
queue == provider("queue", queueing, {"quarkus"})

catalogs ==
  {[adapters |-> <<quarkus, nestjs, angular>>, providers |-> <<audit, queue>>],
   [adapters |-> <<angular, quarkus>>, providers |-> <<audit, queue>>],
   [adapters |-> <<nestjs>>, providers |-> <<queue, provider("audit-2", auditing, {"quarkus"})>>],
   [adapters |-> <<nestjs, quarkus, adapter("nestjs-2", {api, spa}, "nestjs")>>, providers |-> <<audit>>],
   [adapters |-> <<nestjs>>, providers |-> <<audit, provider("audit-2", auditing, {"nestjs"})>>],
   [adapters |-> <<nestjs, adapter("nestjs", {spa}, "angular")>>, providers |-> <<>>],
   [adapters |-> <<>>, providers |-> <<>>],
   [adapters |-> <<[nestjs EXCEPT !.wellFormed = FALSE]>>, providers |-> <<>>]}

rule(id, value, locked) == [id |-> id, category |-> id[1], value |-> value, locked |-> locked]
layer(id, precedence, rules) == [id |-> id, precedence |-> precedence, rules |-> rules]
waiver(id, of, value, expiresAt, approvedBy) ==
  [id |-> id, rule |-> of, value |-> value, expiresAt |-> expiresAt, approvedBy |-> approvedBy]

(* What a layer may say of one rule: nothing, or one of two values, locked *)
(* or not.                                                                 *)
sayings(id, values) ==
  {<<>>} \union {<<rule(id, v, locked)>> : v \in values, locked \in BOOLEAN}

runtimes == {{"nestjs"}, {"nestjs", "quarkus"}}

waiverLists ==
  {<<>>,
   <<waiver(1, apiRule, {"nestjs", "quarkus"}, 1, "HUMAN")>>,
   <<waiver(1, apiRule, {"quarkus"}, 2, "HUMAN")>>,
   <<waiver(2, apiRule, {"quarkus"}, 1, "HUMAN"), waiver(1, apiRule, {"nestjs"}, 2, "HUMAN")>>,
   <<waiver(1, apiRule, {"quarkus"}, 2, "AI_AGENT")>>}

layered ==
  {<<layer(1, p[1], a), layer(2, p[2], b), layer(3, p[3], c)>> :
     p \in {<<1, 2, 3>>, <<3, 1, 2>>, <<2, 2, 1>>},
     a \in sayings(apiRule, runtimes), b \in sayings(apiRule, runtimes),
     c \in {<<>>, <<rule(apiRule, {"quarkus"}, FALSE)>>, <<rule(webRule, {"angular"}, FALSE)>>}}

(* The document lists what the derivation gives, or what it gave before    *)
(* the waivers.                                                            *)
context(layers, list, listed) ==
  [layers |-> layers, waivers |-> list, effective |-> deriveEffectiveRules(layers, listed)]

(* Two layers listed against their precedence, over the other rules.       *)
pairs(id, values) ==
  {<<layer(2, 1, <<rule(id, v, l)>>), layer(1, 2, <<rule(id, w, FALSE)>>)>> :
     l \in BOOLEAN, v \in values, w \in values}

one(id, value) == <<waiver(1, id, value, 2, "HUMAN")>>

otherContexts ==
  {context(ls, list, list) :
     ls \in pairs(<<"identity">>, {{"keycloak"}, {"auth0"}}), list \in {<<>>, one(<<"identity">>, {"keycloak"})}}
  \union {context(ls, list, list) :
     ls \in pairs(<<"residency">>, {{<<"eu">>}, {<<"us">>}}), list \in {<<>>, one(<<"residency">>, {<<"eu">>, <<"us">>})}}
  \union {context(ls, list, list) :
     ls \in pairs(<<"accessibility">>, {{<<"WCAG-2.2", "A">>}, {<<"WCAG-2.2", "AAA">>}}),
     list \in {<<>>, one(<<"accessibility">>, {<<"WCAG-2.2", "AA">>})}}
  \union {context(ls, list, list) :
     ls \in pairs(<<"naming">>, {{"kebab"}}), list \in {<<>>, one(<<"runtime", "gone">>, {"nestjs"})}}
  \union {context(<<layer(1, 1, <<rule(apiRule, {"nestjs"}, FALSE)>>),
                    layer(1, 2, <<[rule(apiRule, {"nestjs"}, FALSE) EXCEPT !.category = "security"]>>)>>, <<>>, <<>>)}

(* Two manifest files, one in every state of disrepair, before a third.    *)
manifest(id, kinds, runtime, capabilities) ==
  [parses |-> TRUE, conforms |-> TRUE, id |-> id, version |-> 1, kinds |-> kinds, runtime |-> runtime,
   capabilities |-> capabilities, mode |-> "TRUSTED_IN_PROCESS",
   checks |-> <<[id |-> 1, level |-> "STRUCTURAL"], [id |-> 2, level |-> "TOOLCHAIN"]>>,
   entry |-> "ADAPTER", identity |-> <<id, 1>>]

nestManifest == manifest(<<2>>, {api}, "nestjs", <<auditing>>)
quarkusManifest == manifest(<<1>>, {api}, "quarkus", <<auditing, queueing>>)
files ==
  {nestManifest, quarkusManifest,
   [nestManifest EXCEPT !.id = <<3>>, !.identity[1] = <<3>>],
   [nestManifest EXCEPT !.id = <<3>>, !.identity[1] = <<3>>, !.runtime = "swift"],
   [nestManifest EXCEPT !.kinds = {spa}, !.runtime = "angular", !.capabilities = <<>>],
   manifest(<<2, auditing>>, {spa}, "angular", <<>>),
   [quarkusManifest EXCEPT !.mode = "CONTAINER"], [quarkusManifest EXCEPT !.entry = "OUTSIDE"],
   [quarkusManifest EXCEPT !.entry = "FAILS"], [quarkusManifest EXCEPT !.entry = "OTHER"],
   [quarkusManifest EXCEPT !.identity[2] = 2], [quarkusManifest EXCEPT !.parses = FALSE],
   [quarkusManifest EXCEPT !.conforms = FALSE], [quarkusManifest EXCEPT !.checks[1].level = "TOOLCHAIN"],
   [quarkusManifest EXCEPT !.checks[2].id = 1], [quarkusManifest EXCEPT !.mode = "CONTAINER", !.entry = "FAILS"]}

extensionLists ==
  {<<>>, <<nestManifest, quarkusManifest>>} \union {<<f, g, manifest(<<4>>, {spa}, "angular", <<>>)>> : f \in files, g \in files}

(* Three tokens that alias one another, and overrides of two of them.      *)
color == literal({"color"})
tokenTrees ==
  {[a |-> token("color", x), b |-> token("color", y), c |-> z] :
     x \in {color, alias("b"), alias("c")}, y \in {color, alias("a"), alias("c")},
     z \in {token("color", color), token("dimension", literal({"dimension", "color"})), token("dimension", literal({"dimension"})),
            token("dimension", color),
            token("color", alias("a")), token("color", alias("gone"))}}
overrideSets ==
  UNION {[D -> {color, literal({"dimension"}), alias("a"), alias("b"), alias("c")}] : D \in SUBSET {"a", "b"}}
  \union {[gone |-> color]}

designSystems ==
  {[whole EXCEPT !.components[1] = themed(@), !.designs = <<design(<<"WCAG-2.2", "AA">>, t, o)>>] :
     t \in tokenTrees, o \in overrideSets}
  \union {[whole EXCEPT !.components[1].experience = [design |-> 1, context |-> x], !.designs = <<d>>] :
     x \in {"light", "gone"},
     d \in {design(<<"WCAG-2.2", "AA">>, [a |-> token("color", color)], [a |-> alias("a")]),
            [plainDesign(<<"WCAG-2.2", "AA">>) EXCEPT !.contexts[2].id = "light"]}}

(* Three requirements that depend on one another in every way; baselines   *)
(* and decisions that break one rule each.                                 *)
broken(r) ==
  {[r EXCEPT !.status = "INFERRED"], [r EXCEPT !.status = "PROPOSED", !.sources = {}], [r EXCEPT !.goals = {"X"}],
   [r EXCEPT !.actors = {"X"}], [r EXCEPT !.conflictsWith = {9}], [r EXCEPT !.dependsOn = {9, 1}],
   [r EXCEPT !.sources = {"X"}], [r EXCEPT !.criteria = <<>>], [r EXCEPT !.id = 1],
   [r EXCEPT !.criteria = <<[id |-> "C"], [id |-> "C"]>>]}
ambiguity == [id |-> "Q", impact |-> "BLOCKING", status |-> "OPEN", related |-> {1}]

baselines ==
  {baseline(<<requirement(2, "FUNCTIONAL", a), requirement(1, "FUNCTIONAL", b), requirement(3, "DATA", c)>>) :
     a \in SUBSET (1 .. 3), b \in SUBSET (1 .. 3), c \in SUBSET (1 .. 3)}
  \union {[baseline(<<requirement(1, "FUNCTIONAL", {}), r>>) EXCEPT !.status = status] :
             r \in broken(requirement(2, "FUNCTIONAL", {1})), status \in {"ACCEPTED", "SUPERSEDED"}}
  \union {[functional EXCEPT !.ambiguities = <<q>>, !.status = status] :
             q \in {ambiguity, [ambiguity EXCEPT !.status = "RESOLVED"], [ambiguity EXCEPT !.related = {9}]},
             status \in {"ACCEPTED", "SUPERSEDED"}}
  \union {[functional EXCEPT !.goals = Append(@, [id |-> "G"])]}

option(id) == [id |-> id, satisfies |-> {1}]
decision ==
  [id |-> "D", status |-> "ACCEPTED", options |-> <<option(1), option(2)>>, chosen |-> 1, reasoned |-> TRUE,
   supersedes |-> Null, drivers |-> {1}]
decisionSets ==
  {[undecided EXCEPT !.decisions = <<decision, [d EXCEPT !.id = "E"]>>] :
     d \in {decision, [decision EXCEPT !.supersedes = "D"], [decision EXCEPT !.supersedes = "E"],
            [decision EXCEPT !.chosen = 3], [decision EXCEPT !.chosen = Null], [decision EXCEPT !.reasoned = FALSE],
            [decision EXCEPT !.options = <<option(1)>>], [decision EXCEPT !.options = <<option(1), option(1)>>],
            [decision EXCEPT !.status = "PROPOSED"], [decision EXCEPT !.drivers = {9}],
            [decision EXCEPT !.options[2].satisfies = {9}]}}
  \union {[undecided EXCEPT !.decisions = <<decision, decision>>]}

decidedSystems ==
  {[whole EXCEPT !.baseline = b, !.components[1].requirements = r] : b \in baselines, r \in {{}, {1, 2}}}
  \union {[whole EXCEPT !.decisions = d, !.components[1].decisions = x] : d \in decisionSets, x \in {{"D"}, {"F"}}}

inputs(ss, cs, ks) == [system : ss, context : cs, catalog : ks, extensions : {Null}]
extended(ss, es) == [system : ss, context : {Null}, catalog : {Null}, extensions : es]

usual == [adapters |-> <<quarkus, nestjs, angular>>, providers |-> <<audit, queue>>]

MCInputs ==
  {inputs({whole}, {context(ls, list, list) : ls \in layered, list \in waiverLists}, {usual}),
   inputs({whole}, {context(ls, list, <<>>) : ls \in layered, list \in waiverLists}, {usual}),
   inputs(systems, otherContexts, {usual}),
   inputs(systems, {Null} \union {context(<<layer(1, 1, <<rule(apiRule, v, TRUE)>>)>>, <<>>, <<>>) : v \in runtimes},
          catalogs \union {Null}),
   inputs(domainSystems, {Null}, {usual}),
   inputs(dataSystems, {Null}, {usual}),
   inputs(designSystems, {Null}, {usual}),
   inputs(decidedSystems, {Null}, {usual}),
   extended({whole}, extensionLists),
   extended(systems, {<<nestManifest, quarkusManifest>>})}

=============================================================================
