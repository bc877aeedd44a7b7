------------------------------ MODULE Pricing -------------------------------
(***************************************************************************)
(* What a proxy lets through, in TypeScript (proxy.ts) and in Python       *)
(* (proxy.py): the checks of its configuration when it starts, and for     *)
(* each request of an authenticated caller the rungs of its ladder, with   *)
(* the access decisions each rung emits. Whether a reached definition is   *)
(* still the approved one is UpstreamRecord's and PyCatalogue's matter:    *)
(* here it is.                                                             *)
(*                                                                         *)
(* A label is <<spelling, name>>; a tool may be priced as "bare" or "tool".*)
(* A configuration is a record                                             *)
(*   [perms  : label -> permission,   uris : resource label -> URI,        *)
(*    defs   : labels with a recorded definition,                          *)
(*    scopes : key -> scopes,  scoped : is there a scope map at all,       *)
(*    granted: the permissions the policy's roles grant]                   *)
(* and a caller [perms, scopes].                                           *)
(***************************************************************************)
EXTENDS Ladder

CONSTANTS Configs, Callers, Asks,   \* what a proxy is started with and asked
          Baseline                  \* requiredScopes

ASSUME ConfigsAssumption ==
  \A c \in Configs :
    /\ DOMAIN c.perms \subseteq Label /\ DOMAIN c.uris \subseteq Label /\ DOMAIN c.scopes \subseteq Label
    /\ \A l \in DOMAIN c.perms : c.perms[l] \in Name
    /\ \A l \in DOMAIN c.uris : c.uris[l] \in Name

ASSUME CallersAssumption == Callers \subseteq [perms : SUBSET STRING, scopes : SUBSET STRING]

\* `ref` says what the params of a completion or a subscription refer to, if they read at all.
ASSUME AsksAssumption ==
  \A r \in Asks : /\ IsRequest(r)
                  /\ r.method \in {"completion/complete", "subscriptions/listen"}
                       => r.ref \in {"prompt", "resource", "bad"}

VARIABLES config,       \* <<>>, or the one configuration both were started with
          asked,        \* <<>>, or the caller and the request being answered
          ts, py        \* what each answered: [why, decisions, challenge]
pricingVars == <<config, asked, ts, py>>

Verdict(why, decisions, challenge) ==
  [why |-> why, decisions |-> decisions, challenge |-> challenge]
Idle == Verdict("idle", <<>>, {})
Down == Verdict("down", <<>>, {})

Can(u, permission) == "*" \in u.perms \/ permission \in u.perms

-----------------------------------------------------------------------------
(* Starting.                                                               *)

\* buildResourceIndex and _resource_index: a URI for each priced resource, no more.
IndexRungs(c) ==
  << Rung("no_uri", \E l \in DOMAIN c.perms : l[1] = "resource" /\ l \notin DOMAIN c.uris),
     Rung("unknown_uri", \E l \in DOMAIN c.uris : l \notin DOMAIN c.perms) >>

\* Mutant of Reconciles: one granted permission is enough.
ReconcilesSome(granted, required) == "*" \in granted \/ granted \cap required # {}
\* reconcile: every permission a capability needs is granted by some role.
Reconciles(granted, required) == "*" \in granted \/ required \subseteq granted

Priced(c) == {c.perms[l] : l \in DOMAIN c.perms}

\* The labels that have a tool of this name priced, as validateScopes and pricing look them up.
ToolKeys(name) == {BareKey(name), <<"tool", name>>}

\* Whether a scope key names something priced.
Registered(c, key) ==
  IF Canonical(key)[1] = "tool" THEN ToolKeys(Canonical(key)[2]) \cap DOMAIN c.perms # {}
  ELSE key \in DOMAIN c.perms

\* createMcpProxy. validateScopes refuses a key that aliases another or names nothing.
TsBoot(c) ==
  FirstRefusal(<<
       Rung("alias", c.scoped /\ \E k, l \in DOMAIN c.scopes : k # l /\ Canonical(k) = Canonical(l)),
       Rung("unknown_scope_key", c.scoped /\ \E k \in DOMAIN c.scopes : ~Registered(c, k)),
       FirstRefusal(IndexRungs(c)),
       Rung("unrecorded", ~(DOMAIN c.perms \subseteq c.defs)),
       Rung("no_baseline", c.scoped /\ Baseline = {}),
       Rung("no_scope", c.scoped /\ \E k \in DOMAIN c.scopes : c.scopes[k] = {}),
       Rung("unreachable", ~Reconciles(c.granted, Priced(c))) >>)

\* McpProxy.__init__. It has no scope map.
PyBoot(c) ==
  FirstRefusal(<<
       FirstRefusal(IndexRungs(c)),
       Rung("unrecorded", ~(DOMAIN c.perms \subseteq c.defs)),
       Rung("unreachable", ~Reconciles(c.granted, Priced(c))) >>)

-----------------------------------------------------------------------------
(* Reaching and pricing a capability.                                      *)

\* The label a tool is priced under: its name alone first, which for a name spelt like a label
\* is that label, whatever it prices. _tool_label.
ToolLabel(c, name) ==
  IF BareKey(name) \in DOMAIN c.perms THEN BareKey(name) ELSE <<"tool", name>>

\* The priced resources the index holds: a URI kept for anything else is never looked at.
Indexed(c) == {l \in DOMAIN c.uris : l[1] = "resource"}

\* coveringResources: a URI still a template names that registration only.
Covering(c, uri) ==
  {l \in Indexed(c) : IF IsTemplate(uri) THEN c.uris[l] = uri ELSE Covers(c.uris[l], uri)}

\* Each label a target <<kind, name>> is held to; none of them may fail.
LabelsOf(c, target) ==
  CASE target[1] = "resource" -> Covering(c, target[2])
    [] target[1] = "tool" -> {ToolLabel(c, target[2])} \cap DOMAIN c.perms
    [] OTHER -> {target} \cap DOMAIN c.perms

PassThrough == Listings \cup {"server/discover", "ping"}
Notices == {"notifications/cancelled", "notifications/progress"}

\* reach: the invocations a message amounts to.
Reach(r) ==
  CASE r.method \in Invocations ->
         IF RouteName(r) = "none" THEN [is |-> "malformed", targets |-> {}]
         ELSE [is |-> "targets", targets |-> {<<Kind(r.method), RouteName(r)>>}]
    [] r.method \in {"completion/complete", "subscriptions/listen"} ->
         IF r.ref = "bad" THEN [is |-> "malformed", targets |-> {}]
         ELSE [is |-> "targets", targets |-> {<<r.ref, r.names[i]>> : i \in DOMAIN r.names}]
    [] OTHER -> [is |-> "unknown", targets |-> {}]

\* permissionForFlatMap, for the gate: the permission reported for a route.
FlatPermission(c, u, r) ==
  LET n == RouteName(r)
      matched == IF r.method = "resources/read" THEN {l \in Indexed(c) : Covers(c.uris[l], n)}
                 ELSE LabelsOf(c, <<Kind(r.method), n>>)
      failing == {l \in matched : ~Can(u, c.perms[l])}
  IN  IF n = "none" \/ matched = {} THEN "none"
      ELSE c.perms[CHOOSE l \in (IF failing = {} THEN matched ELSE failing) : TRUE]

\* Mutant of AskedScopes: the challenge names the capability's scopes only.
AskedWithoutBaseline(c, r) ==
  LET base == CHOOSE s \in Baseline : TRUE
      targets == IF r.method = "tools/call" THEN {} ELSE Reach(r).targets
      each == UNION {IF t[1] = "resource"
                     THEN UNION {ScopesFor(c.scopes, "resource", l[2], base) : l \in Covering(c, t[2])}
                     ELSE ScopesFor(c.scopes, t[1], t[2], base) : t \in targets}
  IN  IF each # {} THEN each ELSE ScopesFor(c.scopes, Kind(r.method), RouteName(r), base)
\* resolveCapabilityScopes, and the baseline every request needs.
AskedScopes(c, r) ==
  LET base == CHOOSE s \in Baseline : TRUE
      targets == IF r.method = "tools/call" THEN {} ELSE Reach(r).targets
      each == UNION {IF t[1] = "resource"
                     THEN UNION {ScopesFor(c.scopes, "resource", l[2], base) : l \in Covering(c, t[2])}
                     ELSE ScopesFor(c.scopes, t[1], t[2], base) : t \in targets}
  IN  Baseline \cup (IF each # {} THEN each
                     ELSE ScopesFor(c.scopes, Kind(r.method), RouteName(r), base))

\* Mutant of Unaffordable: one label that the caller can pay is enough.
UnaffordableByAny(c, u, targets) ==
  \E t \in targets : \A l \in LabelsOf(c, t) : ~Can(u, c.perms[l])
\* Some target is not priced, or one of its labels costs what the caller lacks.
Unaffordable(c, u, targets) ==
  \E t \in targets : LabelsOf(c, t) = {} \/ \E l \in LabelsOf(c, t) : ~Can(u, c.perms[l])

-----------------------------------------------------------------------------
(* The two ladders.                                                        *)

\* mcpProxy's steps: verify, authorize, gate, price (authorizeMessage).
TsRungs(c, u, r) ==
  << Rung("not_post", ~r.post),
     Rung("baseline", ~(Baseline \subseteq u.scopes)),
     Rung("not_permitted", u.perms = {}),
     FirstRefusal(GateRungs(r, c.scoped, TRUE,
                            LET p == FlatPermission(c, u, r) IN p = "none" \/ Can(u, p),
                            AskedScopes(c, r), u.scopes)),
     Rung("headers_needed", Classified(r) # "modern"),
     Rung("no_such_method", r.method \notin PassThrough \cup Notices /\ Reach(r).is = "unknown"),
     Rung("malformed", Reach(r).is = "malformed"),
     Rung("policy_denied", Unaffordable(c, u, Reach(r).targets)),
     Rung("arguments", r.method = "tools/call" /\ ~r.fits) >>

\* Mutant of PyAllowed: completions are not forwarded.
PyAllowedNoCompletion(r) ==
  IF r.id THEN PassThrough \cup Invocations \cup {"subscriptions/listen"} ELSE Notices
\* ALLOWED_REQUESTS and ALLOWED_NOTIFICATIONS.
PyAllowed(r) ==
  IF r.id THEN PassThrough \cup Invocations \cup {"completion/complete", "subscriptions/listen"}
  ELSE Notices

\* McpProxy.__call__, with _classify, _targets and _price.
PyRungs(c, u, r) ==
  << Rung("not_post", ~r.post),
     Rung("baseline", ~(Baseline \subseteq u.scopes)),
     Rung("not_permitted", u.perms = {}),
     Rung(r.body, r.body # "ok"),
     Rung("no_such_method", r.method \notin PyAllowed(r)),
     Rung("headers_needed", ~r.modern \/ (~r.id /\ r.mhdr # "same")),
     Rung("disagrees", Classified(r) = "reject"),
     Rung("malformed", Reach(r).is = "malformed"),
     Rung("policy_denied", Unaffordable(c, u, Reach(r).targets)),
     Rung("arguments", r.method = "tools/call" /\ ~r.fits) >>

\* The answers emitDecision reports as a refusal of the policy.
Refusals == {"not_permitted", "policy_denied", "malformed"}

\* authorize lets a caller in before gate and price look at the request.
TsAnswer(c, u, r) ==
  LET why == FirstRefusal(TsRungs(c, u, r))
  IN  Verdict(why,
              (IF why \in {"not_post", "baseline", "not_permitted"} THEN <<>> ELSE <<"allow">>)
                \o (IF why \in Refusals THEN <<"deny">> ELSE <<>>),
              IF why = "step_up" THEN AskedScopes(c, r) ELSE {})

\* Mutant of PyAnswer: every request is reported let in before it is priced.
PyAnswerEarly(c, u, r) ==
  LET why == FirstRefusal(PyRungs(c, u, r))
  IN  Verdict(why, IF why \in Refusals THEN <<"deny", "allow">> ELSE <<"allow">>, {})
\* __call__ emits its one decision once the request has passed or failed.
PyAnswer(c, u, r) ==
  LET why == FirstRefusal(PyRungs(c, u, r))
  IN  Verdict(why,
              IF why = "pass" THEN <<"allow">> ELSE IF why \in Refusals THEN <<"deny">> ELSE <<>>,
              {})

\* filterListingResult: a tool is kept by its name alone. _listing_rewrite asks ToolLabel.
TsListed(c, u, item) ==
  LET l == IF item[1] = "tool" THEN BareKey(item[2]) ELSE item
  IN  l \in DOMAIN c.perms /\ Can(u, c.perms[l])
\* Mutant of PyListed: a tool is looked up by its name alone.
PyListedBare(c, u, item) == TsListed(c, u, item)
PyListed(c, u, item) ==
  LET l == IF item[1] = "tool" THEN ToolLabel(c, item[2]) ELSE item
  IN  l \in DOMAIN c.perms /\ Can(u, c.perms[l])

-----------------------------------------------------------------------------
PricingInit == config = <<>> /\ asked = <<>> /\ ts = Idle /\ py = Idle

Boot(c) ==
  /\ config = <<>>
  /\ config' = <<c>>
  /\ ts' = IF TsBoot(c) = "pass" THEN Idle ELSE Down
  /\ py' = IF PyBoot(c) = "pass" THEN Idle ELSE Down
  /\ UNCHANGED asked

Ask(u, r) ==
  /\ config # <<>> /\ asked = <<>>
  /\ Idle \in {ts, py}
  /\ asked' = <<u, r>>
  /\ ts' = IF ts = Down THEN Down ELSE TsAnswer(config[1], u, r)
  /\ py' = IF py = Down THEN Down ELSE PyAnswer(config[1], u, r)
  /\ UNCHANGED config

Answered ==
  /\ asked # <<>>
  /\ asked' = <<>>
  /\ ts' = IF ts = Down THEN Down ELSE Idle
  /\ py' = IF py = Down THEN Down ELSE Idle
  /\ UNCHANGED config

PricingNext ==
  \/ \E c \in Configs : Boot(c)
  \/ \E u \in Callers, r \in Asks : Ask(u, r)
  \/ Answered
PricingSpec == PricingInit /\ [][PricingNext]_pricingVars

-----------------------------------------------------------------------------
(* Properties.                                                             *)

\* Every scope a configuration can ask for.
EveryScopeOf(c) == Baseline \cup UNION {c.scopes[k] : k \in DOMAIN c.scopes}

\* Whatever a proxy may answer.
ProxyAnswers ==
  GateRefusals \cup {"idle", "down", "pass", "not_post", "baseline", "not_permitted", "no_such_method",
                    "malformed", "arguments"}

\* Shape of the state.
PricingTypeOK ==
  /\ config \in {<<>>} \cup {<<c>> : c \in Configs}
  /\ asked \in {<<>>} \cup (Callers \X Asks)
  /\ \A a \in {ts, py} : /\ a.why \in ProxyAnswers
                        /\ a.decisions \in {<<>>, <<"allow">>, <<"deny">>, <<"allow", "deny">>}
                        /\ a.challenge \subseteq (IF config = <<>> THEN {} ELSE EveryScopeOf(config[1]))

\* What a message uses, as the protocol reads it: the kind and name of each thing.
Uses(r) ==
  IF r.method \in Invocations THEN {<<Kind(r.method), r.names[1]>>}
  ELSE {<<r.ref, r.names[i]>> : i \in DOMAIN r.names}

\* The registrations an upstream could serve that use from; of a tool, those its name is a label of.
MayServe(c, use) ==
  {l \in DOMAIN c.perms :
     \/ use[1] # "resource" /\ l = use
     \/ use[1] = "tool" /\ l = BareKey(use[2])
     \/ use[1] = "resource" /\ l \in Indexed(c)
          /\ \/ c.uris[l] = use[2]
             \/ ~IsTemplate(use[2]) /\ IsTemplate(c.uris[l]) /\ use[2] \in Expansions[c.uris[l]]}

\* A request that passes either proxy holds the permission of every registration the upstream
\* could serve it from (of a tool, of the one its price was read from), and where scopes are
\* mapped, its token holds the scopes of each (proxy.ts:254-272, 512-535; proxy.py:593-620). A tool
\* called by another registration's label, "prompt:g", is taken for that one: it pays that price
\* and those scopes, and need have no price of its own (ladder.ts:97-99; proxy.py:635-640).
EveryRegistrationPaid ==
  asked # <<>> =>
    LET c == config[1]  u == asked[1]  r == asked[2]
        Paid(use) ==
          LET all == MayServe(c, use)
              one == {l \in all : use[1] = "tool" /\ l = BareKey(use[2])}
          IN  all # {} /\ \A l \in (IF one = {} THEN all ELSE one) : Can(u, c.perms[l])
        Scoped(use) ==
          LET about == {k \in DOMAIN c.scopes :
                \/ use[1] # "tool" /\ k \in MayServe(c, use)
                \/ use[1] = "tool" /\ k = BareKey(use[2])
                \/ use[1] = "tool" /\ use[2] \notin DOMAIN Prefixed /\ Canonical(k) = use}
          IN  \A k \in about : c.scopes[k] \subseteq u.scopes
    IN  r.method \notin PassThrough \cup Notices =>
          /\ ts.why = "pass" => \A use \in Uses(r) : Paid(use) /\ (c.scoped => Scoped(use))
          /\ py.why = "pass" => \A use \in Uses(r) : Paid(use)

\* The two proxies let the same requests through, where both run and no scope is mapped. Left out
\* are a read of a template's own text, which TypeScript also holds to templates that span it, and
\* a notification's method sent as a request, which only TypeScript forwards.
ProxiesAgree ==
  asked # <<>> /\ Down \notin {ts, py} /\ ~config[1].scoped =>
    LET r == asked[2]
    IN  r.id /\ r.method \notin Notices /\ ~(r.method = "resources/read" /\ r.names # <<>> /\ IsTemplate(r.names[1]))
          => (ts.why = "pass" <=> py.why = "pass")

ReadsPriced(c, r) ==
  r.method = "resources/read" /\ ~IsTemplate(RouteName(r)) /\ Covering(c, RouteName(r)) # {}

CallsByName(r) == r.method = "tools/call" /\ BareKey(RouteName(r))[1] # "tool"

\* A client that comes back with exactly the scopes it was challenged for is not challenged
\* again, and an invocation is not refused by the policy after it (ladder.ts:215-244): a tool whose
\* name is no "tool:" label, a prompt, or a read of a URI, no template's text, that some priced
\* resource covers.
StepUpSettles ==
  asked # <<>> /\ ts.why = "step_up" =>
    LET again == TsAnswer(config[1], [asked[1] EXCEPT !.scopes = ts.challenge], asked[2])
    IN  /\ again.why \notin {"step_up", "baseline"}
        /\ CallsByName(asked[2]) \/ asked[2].method = "prompts/get" \/ ReadsPriced(config[1], asked[2])
             => again.why \notin Refusals

\* A plain, well-formed request for one item.
Direct(item) ==
  [method |-> CASE item[1] = "tool" -> "tools/call" [] item[1] = "prompt" -> "prompts/get"
                [] OTHER -> "resources/read",
   names |-> <<item[2]>>, id |-> TRUE, post |-> TRUE, body |-> "ok", modern |-> TRUE,
   mhdr |-> "same", nhdr |-> "same", ref |-> item[1], fits |-> TRUE]

\* The plain requests a client makes of the thing behind a label: of a template, for each of the
\* URIs it covers.
Addresses(c, l) ==
  CASE l[1] # "resource" -> {Canonical(l)}
    [] l[1] = "resource" /\ ~IsTemplate(c.uris[l]) -> {<<"resource", c.uris[l]>>}
    [] OTHER -> {<<"resource", uri>> : uri \in Expansions[c.uris[l]] \ DOMAIN Expansions}

\* A listing and a call agree: what a caller is shown they may use, unless another registration
\* covers the same URI, and what is hidden from them is refused. TypeScript's listing reads a
\* tool's price by its bare name only, as the permission map documents it (catalogue.ts:12-17).
ListingMatchesCalls ==
  asked # <<>> =>
    LET c == config[1]
        u == [asked[1] EXCEPT !.scopes = EveryScopeOf(c)]
        Shown(l) == IF l[1] = "resource" THEN l ELSE Canonical(l)
    IN \A l \in DOMAIN c.perms : \A use \in Addresses(c, l) :
         LET alone == MayServe(c, use) = {l}
         IN /\ ts # Down /\ TsListed(c, u, Shown(l)) /\ alone => TsAnswer(c, u, Direct(use)).why = "pass"
            /\ py # Down /\ PyListed(c, u, Shown(l)) /\ alone => PyAnswer(c, u, Direct(use)).why = "pass"
            /\ ts # Down /\ l[1] # "tool" /\ ~TsListed(c, u, Shown(l))
                 => TsAnswer(c, u, Direct(use)).why \in Refusals
            /\ py # Down /\ ~PyListed(c, u, Shown(l)) => PyAnswer(c, u, Direct(use)).why \in Refusals

\* Once a proxy has started, nothing it prices is dead: somebody holding every role passes a
\* direct request for it (policy.ts:360-372; proxy.py:229-233).
NothingPricedIsDead ==
  config # <<>> /\ asked = <<>> /\ {ts, py} # {Down} =>
    LET c == config[1]
        u == [perms |-> c.granted, scopes |-> EveryScopeOf(c)]
    IN \A l \in DOMAIN c.perms : \A use \in Addresses(c, l) :
         /\ ts # Down => TsAnswer(c, u, Direct(use)).why = "pass"
         /\ py # Down => PyAnswer(c, u, Direct(use)).why = "pass"

\* proxy.py's README (634) says access decisions stay identical across the two languages: where
\* both proxies give a request the same answer, they have reported the same decisions.
SameAccessDecisions ==
  asked # <<>> /\ ts.why = py.why => ts.decisions = py.decisions
=============================================================================
