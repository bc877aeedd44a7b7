------------------------------- MODULE Access -------------------------------
(***************************************************************************)
(* From a policy to a handler that runs: how a policy is validated and     *)
(* evaluated (policy.ts, policy.py), how a server registers and prices its *)
(* capabilities and reconciles them with the policy when it starts         *)
(* (tools.ts, handler.ts; server.py), and what becomes of one request of   *)
(* a verified identity. "ts" is createMcpFetch over an authz() server,     *)
(* "py" AuthorizedMCPServer.                                               *)
(*                                                                         *)
(* A policy is [catalogue, roles, rules]: `catalogue` is <<>> or <<perms>>,*)
(* a rule [match, roles, deny, nulls] with `match` a function from the     *)
(* fields it names, `nulls` the fields written with no value. An identity  *)
(* is [issuer, sub, email, verified, hd, literal, nested]: claims by their *)
(* whole name and by dotted path. A capability is [label, kind, at, perm,  *)
(* asks]; the server's are a sequence, in registration order.              *)
(***************************************************************************)
EXTENDS Ladder

CONSTANTS Policies, Identities,
          Servers,          \* [caps, scopes, scoped, approver, legacy]
          AccessCalls,      \* requests: a Ladder request and its token's scopes
          BaseScopes,       \* requiredScopes
          MailDomain        \* what follows the @ of an address that has one

ASSUME PoliciesAssumption ==
  \A p \in Policies : \A k \in DOMAIN p.rules :
    LET match == p.rules[k].match
    IN  /\ DOMAIN match \subseteq {"issuer", "sub", "email", "domain", "claim"}
        /\ "domain" \in DOMAIN match => match["domain"] \in Name
ASSUME ServersAssumption ==
  \A s \in Servers :
    /\ Len(s.caps) \in Nat /\ DOMAIN s.caps = 1..Len(s.caps)
    /\ DOMAIN s.scopes \subseteq Label
    /\ \A k \in DOMAIN s.caps :
         /\ s.caps[k].kind \in {"tool", "prompt", "resource"}
         /\ s.caps[k].at \in Name /\ s.caps[k].perm \in Name
ASSUME CallsAssumption == \A c \in AccessCalls : IsRequest(c.request)

VARIABLES deployed,         \* <<>>, or the policy and the server both languages run
          calling,          \* <<>>, or identity, call and what its callbacks will do
          tsCall, pyCall    \* what each answered: [why, decisions, ran, person]
accessVars == <<deployed, calling, tsCall, pyCall>>

\* `ran` is the registration that ran, 0 for none, and `person` whether somebody was asked to
\* approve before it did.
Answer(why, decisions, ran) ==
  [why |-> why, decisions |-> decisions, ran |-> ran, person |-> FALSE]
Asking(answer, person) == [answer EXCEPT !.person = person]
Waiting == Answer("waiting", <<>>, 0)
Stopped == Answer("stopped", <<>>, 0)

-----------------------------------------------------------------------------
(* The policy.                                                             *)

\* definePolicy and define_policy. A null is refused by one and read as absent by the other.
PolicyRungs(lang, p) ==
  LET granted(r) == p.roles[r]
      rules == {p.rules[i] : i \in DOMAIN p.rules}
  IN << Rung("star_in_catalogue", p.catalogue # <<>> /\ "*" \in p.catalogue[1]),
        Rung("star_and_more", \E r \in DOMAIN p.roles : "*" \in granted(r) /\ granted(r) # {"*"}),
        Rung("not_in_catalogue", p.catalogue # <<>> /\
               \E r \in DOMAIN p.roles : ~(granted(r) \ {"*"} \subseteq p.catalogue[1])),
        Rung("null_field", lang = "ts" /\ \E q \in rules : q.nulls # {}),
        Rung("grants_nothing", \E q \in rules : ~q.deny /\ q.roles = {} /\ "role" \notin q.nulls),
        Rung("no_such_role", \E q \in rules : ~(q.roles \subseteq DOMAIN p.roles)) >>

PolicyBoots(lang, p) == FirstRefusal(PolicyRungs(lang, p)) = "pass"

\* domainOf: an address with no @ has no domain in one, and is one in the other.
DomainOf(lang, i) ==
  CASE ~i.verified \/ i.email = "none" -> "none"
    [] i.verified /\ i.email # "none" /\ i.hd # "none" -> i.hd
    [] OTHER -> IF i.email \in DOMAIN MailDomain THEN MailDomain[i.email]
                ELSE IF lang = "ts" THEN "none" ELSE i.email

\* claimAt: a claim named in full wins over a dotted path.
ClaimAt(i, path) ==
  IF path \in DOMAIN i.literal THEN i.literal[path]
  ELSE IF path \in DOMAIN i.nested THEN i.nested[path] ELSE {}

\* matches, field by field.
FieldMatches(lang, field, wanted, i) ==
  CASE field = "issuer" -> wanted = i.issuer
    [] field = "sub" -> wanted = i.sub
    [] field = "email" -> i.verified /\ i.email # "none" /\ wanted = i.email
    [] field = "domain" -> wanted = DomainOf(lang, i)
    [] field = "claim" -> wanted[2] \in ClaimAt(i, wanted[1])

Matched(lang, p, i) ==
  {k \in DOMAIN p.rules : \A f \in DOMAIN p.rules[k].match : FieldMatches(lang, f, p.rules[k].match[f], i)}

\* Mutant of HeldRoles: a denial takes nothing away.
HeldRolesUndenied(lang, p, i) == UNION {p.rules[k].roles : k \in Matched(lang, p, i)}
\* evaluate: the roles held, none when a matching rule denies.
HeldRoles(lang, p, i) ==
  LET matched == Matched(lang, p, i)
  IN  IF \E k \in matched : p.rules[k].deny THEN {} ELSE UNION {p.rules[k].roles : k \in matched}

\* createPrincipal: the permissions of those roles.
Permissions(lang, p, i) == UNION {p.roles[r] : r \in HeldRoles(lang, p, i)}
Holds(perms, permission) == "*" \in perms \/ permission \in perms

Granted(p) == UNION {p.roles[r] : r \in DOMAIN p.roles}

-----------------------------------------------------------------------------
(* The server.                                                             *)

CapsOf(s) == {s.caps[k] : k \in DOMAIN s.caps}

\* buildServer, then createMcpFetch with its reconciliation.
TsServerRungs(p, s) ==
  << Rung("registered_twice", \E j, k \in DOMAIN s.caps : j # k /\ s.caps[j].label = s.caps[k].label),
     Rung("no_approver", ~s.approver /\ \E c \in CapsOf(s) : c.asks),
     Rung("no_baseline", s.scoped /\ BaseScopes = {}),
     Rung("no_scope", s.scoped /\ \E k \in DOMAIN s.scopes : s.scopes[k] = {}),
     Rung("alias", s.scoped /\ \E k, l \in DOMAIN s.scopes : k # l /\ Canonical(k) = Canonical(l)),
     Rung("unknown_scope_key", s.scoped /\ \E k \in DOMAIN s.scopes :
            ~\E c \in CapsOf(s) : c.kind = Canonical(k)[1] /\ Covers(c.at, k[2])),
     Rung("unreachable", "*" \notin Granted(p) /\ ~({c.perm : c \in CapsOf(s)} \subseteq Granted(p))) >>

\* AuthorizedMCPServer._require, at each registration.
PyServerRungs(p, s) ==
  << Rung("unreachable", \E c \in CapsOf(s) : ~Holds(Granted(p), c.perm)),
     Rung("no_approver", ~s.approver /\ \E c \in CapsOf(s) : c.asks) >>

\* routesFor: every registration a name reaches. An exact name is itself.
RoutesFor(caps, kind, name) ==
  {k \in DOMAIN caps : caps[k].kind = kind /\
     IF kind = "resource" THEN Covers(caps[k].at, name) ELSE caps[k].at = name}

Earliest(ks) == CHOOSE k \in ks : \A j \in ks : k <= j
Latest(ks) == CHOOSE k \in ks : \A j \in ks : j <= k

\* The MCP SDK's own dispatch among what is registered with it: an exact name before a template.
Dispatch(caps, registered, kind, name) ==
  LET reached == RoutesFor(caps, kind, name) \cap registered
      exact == {k \in reached : caps[k].at = name /\ (kind = "resource" => ~IsTemplate(name))}
  IN  IF reached = {} THEN 0 ELSE Earliest(IF exact # {} THEN exact ELSE reached)

\* The factory registers what the principal can reach, and nothing else.
Enabled(s, perms) == {k \in DOMAIN s.caps : Holds(perms, s.caps[k].perm)}

\* resolvePermission: of several routes, the first the caller fails.
TsPermitted(s, perms, r) ==
  LET reached == RoutesFor(s.caps, Kind(r.method), RouteName(r))
  IN  \A k \in reached : Holds(perms, s.caps[k].perm)

\* resolveCapabilityScopes: the scopes of every route reached.
TsScopes(s, r) ==
  LET base == CHOOSE b \in BaseScopes : TRUE
      reached == IF Kind(r.method) # "resource" THEN {} ELSE RoutesFor(s.caps, "resource", RouteName(r))
  IN  BaseScopes \cup
      IF reached = {} THEN ScopesFor(s.scopes, Kind(r.method), RouteName(r), base)
      ELSE UNION {ScopesFor(s.scopes, "resource", s.caps[k].at, base) : k \in reached}

\* Mutant of PyPermission: templates and exact names as registered.
PyPermissionInOrder(s, kind, name) ==
  LET reached == RoutesFor(s.caps, kind, name)
  IN  IF reached = {} THEN "none" ELSE s.caps[Earliest(reached)].perm
\* AuthorizationMiddleware._permission: the last registration's under that very name, or the first
\* template's that covers it.
PyPermission(s, kind, name) ==
  LET exact == {k \in DOMAIN s.caps : s.caps[k].kind = kind /\ s.caps[k].at = name}
      reached == RoutesFor(s.caps, kind, name)
  IN  IF exact # {} THEN s.caps[Latest(exact)].perm
      ELSE IF reached = {} THEN "none" ELSE s.caps[Earliest(reached)].perm

\* Mutant of PyApproval: exact names only.
PyApprovalExact(s, kind, name) == \E c \in CapsOf(s) : c.asks /\ c.kind = kind /\ c.at = name
\* _approval: an exact name that asks, or any template that asks and covers the URI.
PyApproval(s, kind, name) ==
  \E c \in CapsOf(s) : c.asks /\ c.kind = kind /\ (c.at = name \/ (kind = "resource" /\ Covers(c.at, name)))

\* guarding's needsApproval, of the registration that runs.
TsApproval(s, k) == k # 0 /\ s.caps[k].asks

\* What a listing shows. _filter_listing looks each item up under its own name.
TsShown(s, perms) == Enabled(s, perms)
PyShown(s, perms) == {k \in DOMAIN s.caps : Holds(perms, PyPermission(s, s.caps[k].kind, s.caps[k].at))}

-----------------------------------------------------------------------------
(* One request. `will` says what its callbacks do: `resolve` of the        *)
(* application enriches, refuses or throws, the decision sink takes the    *)
(* event or rejects it.                                                    *)

\* A refusal is reported before it is answered; a sink that rejects turns it into an error.
Report(will, decision, answer) ==
  IF will.sink = "rejects" THEN Answer("error", <<>>, 0)
  ELSE [answer EXCEPT !.decisions = <<decision>>]

\* mcpFetch: authorize, runScopedGate (lenient where no scope is mapped), enrichIdentity, the SDK.
TsAnswers(p, s, i, r, held, will) ==
  LET perms == Permissions("ts", p, i)
      gate == FirstRefusal(GateRungs(r, s.scoped, FALSE, TsPermitted(s, perms, r), TsScopes(s, r), held))
      unread == ~r.post \/ Preflight(r) # "pass" \/ (Classified(r) = "legacy" /\ ~s.legacy)
      ran == IF unread THEN 0 ELSE Dispatch(s.caps, Enabled(s, perms), Kind(r.method), RouteName(r))
  IN CASE ~(BaseScopes \subseteq held) -> Answer("baseline", <<>>, 0)
       [] BaseScopes \subseteq held /\ perms = {} -> Report(will, "deny", Answer("not_permitted", <<>>, 0))
       [] BaseScopes \subseteq held /\ perms # {} /\ gate # "pass" ->
            IF gate = "policy_denied" THEN Report(will, "deny", Answer(gate, <<>>, 0))
            ELSE Answer(gate, <<>>, 0)
       [] OTHER ->
            CASE will.resolve = "refuses" -> Report(will, "deny", Answer("no_credential", <<>>, 0))
              [] will.resolve = "throws" -> Answer("error", <<>>, 0)
              [] will.resolve = "enriches" ->
                   Report(will, "allow", Asking(Answer(IF ran = 0 THEN "sdk_answers" ELSE "ran", <<>>, ran),
                                                TsApproval(s, ran)))

\* AuthorizationMiddleware.__call__. The SDK has read the request before it gets here.
PyAnswers(p, s, i, r, held, will) ==
  LET perms == Permissions("py", p, i)
      name == RouteName(r)
      price == PyPermission(s, Kind(r.method), name)
  IN CASE ~(BaseScopes \subseteq held) -> Answer("baseline", <<>>, 0)
       [] BaseScopes \subseteq held /\ (r.body # "ok" \/ ~r.post \/ Classified(r) = "reject") ->
            Answer("sdk_answers", <<>>, 0)
       [] OTHER ->
            CASE perms = {} -> Report(will, "deny", Answer("not_permitted", <<>>, 0))
              [] perms # {} /\ name # "none" /\ price = "none" ->
                   Report(will, "deny", Answer("undeclared", <<>>, 0))
              [] perms # {} /\ name # "none" /\ price # "none" /\ ~Holds(perms, price) ->
                   Report(will, "deny", Answer("policy_denied", <<>>, 0))
              [] OTHER ->
                   Report(will, "allow",
                     IF name = "none" THEN Answer("sdk_answers", <<>>, 0)
                     ELSE Asking(Answer("ran", <<>>, Dispatch(s.caps, DOMAIN s.caps, Kind(r.method), name)),
                                 PyApproval(s, Kind(r.method), name)))

AccessInit == deployed = <<>> /\ calling = <<>> /\ tsCall = Waiting /\ pyCall = Waiting

Deploy(p, s) ==
  /\ deployed = <<>>
  /\ deployed' = <<p, s>>
  /\ tsCall' = IF PolicyBoots("ts", p) /\ FirstRefusal(TsServerRungs(p, s)) = "pass" THEN Waiting ELSE Stopped
  /\ pyCall' = IF PolicyBoots("py", p) /\ FirstRefusal(PyServerRungs(p, s)) = "pass" THEN Waiting ELSE Stopped
  /\ UNCHANGED calling

Call(i, c, will) ==
  /\ deployed # <<>> /\ calling = <<>> /\ Waiting \in {tsCall, pyCall}
  /\ calling' = <<i, c, will>>
  /\ LET p == deployed[1]
         s == deployed[2]
     IN /\ tsCall' = IF tsCall = Stopped THEN Stopped ELSE TsAnswers(p, s, i, c.request, c.held, will)
        /\ pyCall' = IF pyCall = Stopped THEN Stopped ELSE PyAnswers(p, s, i, c.request, c.held, will)
  /\ UNCHANGED deployed

Replied ==
  /\ calling # <<>>
  /\ calling' = <<>>
  /\ tsCall' = IF tsCall = Stopped THEN Stopped ELSE Waiting
  /\ pyCall' = IF pyCall = Stopped THEN Stopped ELSE Waiting
  /\ UNCHANGED deployed

Callbacks == [resolve : {"enriches", "refuses", "throws"}, sink : {"takes", "rejects"}]

AccessNext ==
  \/ \E p \in Policies, s \in Servers : Deploy(p, s)
  \/ \E i \in Identities, c \in AccessCalls, will \in Callbacks : Call(i, c, will)
  \/ Replied
AccessSpec == AccessInit /\ [][AccessNext]_accessVars

-----------------------------------------------------------------------------
(* Properties.                                                             *)

\* Whatever a server may answer.
ServerAnswers ==
  GateRefusals \cup {"waiting", "stopped", "baseline", "not_permitted", "undeclared", "no_credential",
                    "error", "sdk_answers", "ran"}

\* Shape of the state.
AccessTypeOK ==
  /\ deployed \in {<<>>} \cup (Policies \X Servers)
  /\ calling \in {<<>>} \cup (Identities \X AccessCalls \X Callbacks)
  /\ \A a \in {tsCall, pyCall} :
       /\ a.why \in ServerAnswers /\ a.ran \in Nat /\ a.person \in BOOLEAN
       /\ a.decisions \in {<<>>, <<"allow">>, <<"deny">>}
       /\ (a.ran # 0 => a.why = "ran")

\* What the policy's text grants an identity: some rule about them and no denial.
Meant(p, i, permission) ==
  LET Domain == IF i.hd # "none" THEN i.hd
                ELSE IF i.email \in DOMAIN MailDomain THEN MailDomain[i.email] ELSE "none"
      About(rule) ==
        LET says(f, v) == f \in DOMAIN rule.match => rule.match[f] = v
        IN  /\ says("issuer", i.issuer) /\ says("sub", i.sub)
            /\ says("email", i.email) /\ says("domain", Domain)
            /\ {"email", "domain"} \cap DOMAIN rule.match # {} => i.verified /\ i.email # "none"
            /\ "claim" \in DOMAIN rule.match =>
                 LET at == rule.match["claim"][1]
                 IN  rule.match["claim"][2] \in (IF at \in DOMAIN i.literal THEN i.literal[at]
                       ELSE IF at \in DOMAIN i.nested THEN i.nested[at] ELSE {})
      rules == {p.rules[k] : k \in DOMAIN p.rules}
  IN  /\ \A rule \in rules : About(rule) => ~rule.deny
      /\ \E rule \in rules : About(rule) /\ \E role \in rule.roles : Holds(p.roles[role], permission)

\* Whether a name of that kind is one a registration answers to.
Same(c, kind, name) == c.kind = kind /\ IF kind = "resource" THEN Covers(c.at, name) ELSE c.at = name

\* domain_of takes an address without an @ whole, which no policy means by a domain.
HasDomain(i) == i.hd # "none" \/ i.email \in DOMAIN MailDomain \cup {"none"}

\* A handler runs only for an identity the policy means to have its permission; in TypeScript,
\* that of every registration covering the URI, so a template never stands in for a resource the
\* caller may not read; in Python, one the name was registered with, a read of a template's own
\* text left out; and only with that admission on record, while a sink that rejects lets
\* nothing run (ladder.ts:90-110; policy.ts:230-297; decision.ts:40-61; server.py:178-212, 396-404).
RunIsEntitled ==
  calling # <<>> =>
    LET p == deployed[1]  s == deployed[2]  r == calling[2].request
    IN  /\ tsCall.ran # 0 =>
             /\ Meant(p, calling[1], s.caps[tsCall.ran].perm)
             /\ \A c \in CapsOf(s) : Same(c, Kind(r.method), r.names[1]) => Meant(p, calling[1], c.perm)
        /\ pyCall.ran # 0 /\ HasDomain(calling[1]) /\ ~IsTemplate(r.names[1]) =>
             \E c \in CapsOf(s) : /\ c.kind = s.caps[pyCall.ran].kind /\ c.at = s.caps[pyCall.ran].at
                                  /\ Meant(p, calling[1], c.perm)
        /\ \A a \in {tsCall, pyCall} : a.ran # 0 => a.decisions = <<"allow">>

\* What asks for a person runs only after one was asked (server.py:360-371, 507-508).
NothingUnasked ==
  \A a \in {tsCall, pyCall} : a.ran # 0 /\ deployed[2].caps[a.ran].asks => a.person

\* The plain request for a capability, and the names it goes by.
Plainly(c, name) ==
  [method |-> CASE c.kind = "tool" -> "tools/call" [] c.kind = "prompt" -> "prompts/get"
                [] OTHER -> "resources/read",
   names |-> <<name>>, id |-> TRUE, post |-> TRUE, body |-> "ok", modern |-> TRUE,
   mhdr |-> "same", nhdr |-> "same"]
NamesOf(c) ==
  IF c.kind = "resource" /\ IsTemplate(c.at) THEN Expansions[c.at] \ DOMAIN Expansions ELSE {c.at}
EveryScope(s) == BaseScopes \cup UNION {s.scopes[k] : k \in DOMAIN s.scopes}
Willing == [resolve |-> "enriches", sink |-> "takes"]

\* What a caller is shown is what runs for them, and the rest does not: the listing's lookup, the
\* gate's and the SDK's dispatch agree on every name no other registration answers to.
ListedIsRunnable ==
  calling # <<>> =>
    LET p == deployed[1]  s == deployed[2]  i == calling[1]
    IN \A k \in DOMAIN s.caps : \A name \in NamesOf(s.caps[k]) :
         LET c == s.caps[k]
         IN (\A j \in DOMAIN s.caps \ {k} : ~Same(s.caps[j], c.kind, name)) =>
              /\ tsCall # Stopped /\ Permissions("ts", p, i) # {} =>
                   (k \in TsShown(s, Permissions("ts", p, i))
                      <=> TsAnswers(p, s, i, Plainly(c, name), EveryScope(s), Willing).ran = k)
              /\ pyCall # Stopped /\ Permissions("py", p, i) # {} =>
                   (k \in PyShown(s, Permissions("py", p, i))
                      <=> PyAnswers(p, s, i, Plainly(c, name), EveryScope(s), Willing).ran = k)
=============================================================================
