--------------------------- MODULE Decisions_proofs --------------------------
(***************************************************************************)
(* Theorems about the servers (Access) and the HTTP gate (OpenApi), and    *)
(* the shapes of all that Decisions puts together. A handler runs only for *)
(* whom the policy means, after whoever had to be asked was asked, and a   *)
(* listing is what calls meet: for every policy, server, identity and      *)
(* request. The gate's theorems hold for any documents, price lists,       *)
(* requests and number of calls in flight: those about matching rest on    *)
(* the order the routes are tried in being one, those about a call on what *)
(* its stage says of its decision, its trail and its status. The lemmas    *)
(* about the shared ladder are Pricing_proofs'.                            *)
(***************************************************************************)
EXTENDS Decisions, Pricing_proofs, EventStream_proofs

-----------------------------------------------------------------------------
(* The policy.                                                             *)

\* About(rule) of Meant, for an identity.
Concerns(rule, i) ==
  LET Domain == IF i.hd # "none" THEN i.hd
                ELSE IF i.email \in DOMAIN MailDomain THEN MailDomain[i.email] ELSE "none"
      says(f, v) == f \in DOMAIN rule.match => rule.match[f] = v
  IN  /\ says("issuer", i.issuer) /\ says("sub", i.sub)
      /\ says("email", i.email) /\ says("domain", Domain)
      /\ {"email", "domain"} \cap DOMAIN rule.match # {} => i.verified /\ i.email # "none"
      /\ "claim" \in DOMAIN rule.match =>
           LET at == rule.match["claim"][1]
           IN  rule.match["claim"][2] \in (IF at \in DOMAIN i.literal THEN i.literal[at]
                 ELSE IF at \in DOMAIN i.nested THEN i.nested[at] ELSE {})

\* matches decides exactly the rules that are about the identity (policy.ts:230-275), and Python's
\* does wherever an address has a domain.
LEMMA MatchesAreMeant ==
  ASSUME NEW p \in Policies, NEW k \in DOMAIN p.rules, NEW i, NEW lang, lang = "ts" \/ HasDomain(i)
  PROVE  k \in Matched(lang, p, i) <=> Concerns(p.rules[k], i)
<1> DEFINE match == p.rules[k].match
           Domain == IF i.hd # "none" THEN i.hd
                     ELSE IF i.email \in DOMAIN MailDomain THEN MailDomain[i.email] ELSE "none"
<1>1. /\ DOMAIN match \subseteq {"issuer", "sub", "email", "domain", "claim"}
      /\ "domain" \in DOMAIN match => match["domain"] # "none"
  BY PoliciesAssumption DEF Name
<1>2. \A w : FieldMatches(lang, "issuer", w, i) <=> w = i.issuer
  BY DEF FieldMatches
<1>3. \A w : FieldMatches(lang, "sub", w, i) <=> w = i.sub
  BY DEF FieldMatches
<1>4. \A w : FieldMatches(lang, "email", w, i) <=> i.verified /\ i.email # "none" /\ w = i.email
  BY DEF FieldMatches
<1>5. \A w : FieldMatches(lang, "claim", w, i) <=> w[2] \in ClaimAt(i, w[1])
  BY DEF FieldMatches
<1>6. \A w : w # "none" => (FieldMatches(lang, "domain", w, i) <=> i.verified /\ i.email # "none" /\ w = Domain)
  <2>1. \A w : FieldMatches(lang, "domain", w, i) <=> w = DomainOf(lang, i)
    BY DEF FieldMatches
  <2>2. CASE ~i.verified \/ i.email = "none"
    <3>1. DomainOf(lang, i) = "none"
      BY <2>2 DEF DomainOf
    <3>2. QED
      BY <2>1, <2>2, <3>1
  <2>3. CASE i.verified /\ i.email # "none"
    <3>1. DomainOf(lang, i) = Domain
      BY <2>3 DEF DomainOf, HasDomain
    <3>2. QED
      BY <2>1, <2>3, <3>1
  <2>4. QED
    BY <2>2, <2>3
<1>7. k \in Matched(lang, p, i) <=> \A f \in DOMAIN match : FieldMatches(lang, f, match[f], i)
  BY DEF Matched
<1>8. (\A f \in DOMAIN match : FieldMatches(lang, f, match[f], i))
        <=> /\ "issuer" \in DOMAIN match => match["issuer"] = i.issuer
            /\ "sub" \in DOMAIN match => match["sub"] = i.sub
            /\ "email" \in DOMAIN match => i.verified /\ i.email # "none" /\ match["email"] = i.email
            /\ "domain" \in DOMAIN match => i.verified /\ i.email # "none" /\ match["domain"] = Domain
            /\ "claim" \in DOMAIN match => match["claim"][2] \in ClaimAt(i, match["claim"][1])
  <2> HIDE DEF match, Domain
  <2>1. QED
    BY <1>1, <1>2, <1>3, <1>4, <1>5, <1>6
<1>9. QED
  <2>1. Concerns(p.rules[k], i)
          <=> /\ "issuer" \in DOMAIN match => match["issuer"] = i.issuer
              /\ "sub" \in DOMAIN match => match["sub"] = i.sub
              /\ "email" \in DOMAIN match => match["email"] = i.email
              /\ "domain" \in DOMAIN match => match["domain"] = Domain
              /\ {"email", "domain"} \cap DOMAIN match # {} => i.verified /\ i.email # "none"
              /\ "claim" \in DOMAIN match => match["claim"][2] \in ClaimAt(i, match["claim"][1])
    BY DEF Concerns, ClaimAt
  <2> HIDE DEF match, Domain
  <2>2. {"email", "domain"} \cap DOMAIN match # {} <=> "email" \in DOMAIN match \/ "domain" \in DOMAIN match
    OBVIOUS
  <2>3. QED
    BY <1>7, <1>8, <2>1, <2>2

\* So a permission an identity holds is one the policy means it to have (policy.ts:277-297).
LEMMA HeldIsMeant ==
  ASSUME NEW p \in Policies, NEW i, NEW lang, lang = "ts" \/ HasDomain(i), NEW permission,
         Holds(Permissions(lang, p, i), permission)
  PROVE  Meant(p, i, permission)
<1>1. PICK role \in HeldRoles(lang, p, i) : Holds(p.roles[role], permission)
  BY DEF Permissions, Holds
<1>2. \A k \in Matched(lang, p, i) : ~p.rules[k].deny
  BY <1>1 DEF HeldRoles
<1>3. PICK k \in Matched(lang, p, i) : role \in p.rules[k].roles
  BY <1>1 DEF HeldRoles
<1>4. k \in DOMAIN p.rules /\ Concerns(p.rules[k], i)
  <2>1. k \in DOMAIN p.rules
    BY <1>3 DEF Matched
  <2>2. QED
    BY <1>3, <2>1, MatchesAreMeant
<1>5. \A j \in DOMAIN p.rules : Concerns(p.rules[j], i) => ~p.rules[j].deny
  BY <1>2, MatchesAreMeant
<1>6. QED
  <2>1. Meant(p, i, permission)
          <=> LET rules == {p.rules[j] : j \in DOMAIN p.rules}
              IN  /\ \A rule \in rules : Concerns(rule, i) => ~rule.deny
                  /\ \E rule \in rules : Concerns(rule, i) /\ \E r \in rule.roles : Holds(p.roles[r], permission)
    BY DEF Meant, Concerns
  <2>2. QED
    BY <1>1, <1>3, <1>4, <1>5, <2>1

-----------------------------------------------------------------------------
(* The server.                                                             *)

\* A bounded set of numbers has a largest one, as it has a smallest.
LEMMA LargestExists ==
  ASSUME NEW n \in Nat, NEW S \in SUBSET (1..n), S # {}
  PROVE  \E m \in S : \A j \in S : j <= m
<1> DEFINE T == {d \in Nat : n - d \in S}
<1>1. PICK k \in S : TRUE
  OBVIOUS
<1>2. n - k \in T
  <2>1. k \in Nat /\ n - k \in Nat /\ n - (n - k) = k
    BY <1>1
  <2>2. QED
    BY <1>1, <2>1
<1>3. PICK d \in T : \A e \in T : d <= e
  BY <1>2, SmallestExists
<1>4. \A j \in S : j <= n - d
  <2> TAKE j \in S
  <2>1. j \in Nat /\ n - j \in Nat /\ n - (n - j) = j
    OBVIOUS
  <2>2. n - j \in T
    BY <2>1
  <2>3. d <= n - j /\ d \in Nat
    BY <1>3, <2>2
  <2>4. QED
    BY <2>1, <2>3
<1>5. QED
  BY <1>3, <1>4

\* The first and the last of some registrations are among them.
LEMMA EarliestLatest ==
  ASSUME NEW s \in Servers, NEW ks \in SUBSET DOMAIN s.caps, ks # {}
  PROVE  Earliest(ks) \in ks /\ Latest(ks) \in ks
<1>1. PICK n \in Nat : DOMAIN s.caps = 1..n
  <2>1. Len(s.caps) \in Nat /\ DOMAIN s.caps = 1..Len(s.caps)
    BY ServersAssumption
  <2>2. QED
    BY <2>1
<1>2. \E k \in ks : \A j \in ks : k <= j
  BY <1>1, SmallestExists
<1>3. \E k \in ks : \A j \in ks : j <= k
  BY <1>1, LargestExists
<1>4. QED
  BY <1>2, <1>3 DEF Earliest, Latest

\* The SDK runs a registration the name reaches (server.py:398-404 and handler.ts:343 hand it the
\* request).
LEMMA DispatchReaches ==
  ASSUME NEW s \in Servers, NEW registered, NEW kind, NEW name,
         Dispatch(s.caps, registered, kind, name) # 0
  PROVE  /\ Dispatch(s.caps, registered, kind, name) \in RoutesFor(s.caps, kind, name) \cap registered
         /\ name # "none"
<1> DEFINE reached == RoutesFor(s.caps, kind, name) \cap registered
           exact == {j \in reached : s.caps[j].at = name /\ (kind = "resource" => ~IsTemplate(name))}
           k == Dispatch(s.caps, registered, kind, name)
<1>1. reached # {} /\ k = Earliest(IF exact # {} THEN exact ELSE reached)
  BY DEF Dispatch
<1>2. reached \subseteq DOMAIN s.caps
  BY DEF RoutesFor
<1>3. k \in reached
  <2>1. exact \subseteq reached
    OBVIOUS
  <2> HIDE DEF k, exact, reached
  <2>2. CASE exact # {}
    <3>1. k = Earliest(exact) /\ exact \subseteq DOMAIN s.caps
      BY <1>1, <1>2, <2>1, <2>2
    <3>2. k \in exact
      BY <2>2, <3>1, EarliestLatest
    <3>3. QED
      BY <2>1, <3>2
  <2>3. CASE exact = {}
    <3>1. k = Earliest(reached)
      BY <1>1, <2>3
    <3>2. QED
      BY <1>1, <1>2, <3>1, EarliestLatest
  <2>4. QED
    BY <2>2, <2>3
<1>4. name # "none"
  <2>1. s.caps[k].at \in Name
    BY <1>2, <1>3, ServersAssumption
  <2>2. Covers(s.caps[k].at, name) \/ s.caps[k].at = name
    BY <1>3 DEF RoutesFor
  <2>3. name \in Name
    BY <2>1, <2>2, ExpansionsAssumption DEF Covers
  <2>4. QED
    BY <2>3 DEF Name
<1>5. QED
  BY <1>3, <1>4

\* Under an exact name, one of that very name if there is one, and otherwise the first that covers
\* it.
LEMMA DispatchPrefers ==
  ASSUME NEW s \in Servers, NEW kind, NEW name, kind = "resource" => ~IsTemplate(name),
         Dispatch(s.caps, DOMAIN s.caps, kind, name) # 0
  PROVE  \/ s.caps[Dispatch(s.caps, DOMAIN s.caps, kind, name)].at = name
         \/ /\ \A j \in RoutesFor(s.caps, kind, name) : s.caps[j].at # name
            /\ Dispatch(s.caps, DOMAIN s.caps, kind, name) = Earliest(RoutesFor(s.caps, kind, name))
<1> DEFINE reached == RoutesFor(s.caps, kind, name)
           exact == {j \in reached : s.caps[j].at = name}
           k == Dispatch(s.caps, DOMAIN s.caps, kind, name)
<1>1. reached \subseteq DOMAIN s.caps
  BY DEF RoutesFor
<1>2. k = Earliest(IF exact # {} THEN exact ELSE reached)
  <2>1. /\ reached \cap DOMAIN s.caps = reached
        /\ {j \in reached : s.caps[j].at = name /\ (kind = "resource" => ~IsTemplate(name))} = exact
    BY <1>1
  <2>2. Dispatch(s.caps, DOMAIN s.caps, kind, name)
          = LET within == reached \cap DOMAIN s.caps
                same == {j \in within : s.caps[j].at = name /\ (kind = "resource" => ~IsTemplate(name))}
            IN  IF within = {} THEN 0 ELSE Earliest(IF same # {} THEN same ELSE within)
    BY DEF Dispatch
  <2> HIDE DEF exact, reached
  <2>3. k = IF reached = {} THEN 0 ELSE Earliest(IF exact # {} THEN exact ELSE reached)
    BY <2>1, <2>2, Zenon
  <2>4. QED
    BY <2>3
<1>3. CASE exact # {}
  <2>1. exact \subseteq DOMAIN s.caps
    BY <1>1
  <2>2. Earliest(exact) \in exact
    BY <1>3, <2>1, EarliestLatest
  <2>3. QED
    BY <1>2, <1>3, <2>2
<1>4. CASE exact = {}
  BY <1>2, <1>4
<1>5. QED
  BY <1>3, <1>4

\* _permission is the price of a registration under the name, or of the first template covering it.
LEMMA PriceIsRegistered ==
  ASSUME NEW s \in Servers, NEW kind, NEW name, PyPermission(s, kind, name) # "none"
  PROVE  LET exact == {k \in DOMAIN s.caps : s.caps[k].kind = kind /\ s.caps[k].at = name}
         IN  /\ exact # {} => \E k \in exact : PyPermission(s, kind, name) = s.caps[k].perm
             /\ exact = {} => /\ RoutesFor(s.caps, kind, name) # {}
                              /\ PyPermission(s, kind, name) = s.caps[Earliest(RoutesFor(s.caps, kind, name))].perm
<1> DEFINE exact == {k \in DOMAIN s.caps : s.caps[k].kind = kind /\ s.caps[k].at = name}
<1>1. CASE exact # {}
  <2>1. Latest(exact) \in exact
    BY <1>1, EarliestLatest
  <2>2. PyPermission(s, kind, name) = s.caps[Latest(exact)].perm
    BY <1>1 DEF PyPermission
  <2>3. QED
    BY <1>1, <2>1, <2>2
<1>2. CASE exact = {}
  BY <1>2 DEF PyPermission
<1>3. QED
  BY <1>1, <1>2

-----------------------------------------------------------------------------
(* What a handler that runs has behind it.                                 *)

\* In TypeScript (handler.ts:266-345; ladder.ts:90-213).
LEMMA TsRuns ==
  ASSUME NEW p, NEW s \in Servers, NEW i, NEW r, NEW held, NEW will, will \in Callbacks,
         TsAnswers(p, s, i, r, held, will).ran # 0
  PROVE  LET a == TsAnswers(p, s, i, r, held, will)
             perms == Permissions("ts", p, i)
         IN  /\ a.ran = Dispatch(s.caps, Enabled(s, perms), Kind(r.method), RouteName(r))
             /\ TsPermitted(s, perms, r) /\ a.decisions = <<"allow">>
             /\ s.caps[a.ran].asks => a.person
<1> DEFINE perms == Permissions("ts", p, i)
           gate == FirstRefusal(GateRungs(r, s.scoped, FALSE, TsPermitted(s, perms, r), TsScopes(s, r), held))
           unread == ~r.post \/ Preflight(r) # "pass" \/ (Classified(r) = "legacy" /\ ~s.legacy)
           ran == IF unread THEN 0 ELSE Dispatch(s.caps, Enabled(s, perms), Kind(r.method), RouteName(r))
           based == BaseScopes \subseteq held
           a == TsAnswers(p, s, i, r, held, will)
           last == Report(will, "allow", Asking(Answer(IF ran = 0 THEN "sdk_answers" ELSE "ran", <<>>, ran),
                                                TsApproval(s, ran)))
<1>1. \A why, decision : Report(will, decision, Answer(why, <<>>, 0)).ran = 0 /\ Answer(why, <<>>, 0).ran = 0
  BY DEF Report, Answer
<1>2. a = CASE ~based -> Answer("baseline", <<>>, 0)
            [] based /\ perms = {} -> Report(will, "deny", Answer("not_permitted", <<>>, 0))
            [] based /\ perms # {} /\ gate # "pass" ->
                 IF gate = "policy_denied" THEN Report(will, "deny", Answer(gate, <<>>, 0))
                 ELSE Answer(gate, <<>>, 0)
            [] OTHER ->
                 CASE will.resolve = "refuses" -> Report(will, "deny", Answer("no_credential", <<>>, 0))
                   [] will.resolve = "throws" -> Answer("error", <<>>, 0)
                   [] will.resolve = "enriches" -> last
  BY DEF TsAnswers
<1>3. will.resolve \in {"enriches", "refuses", "throws"} /\ will.sink \in {"takes", "rejects"}
  BY DEF Callbacks
<1> HIDE DEF a, gate, last, perms, based
<1>4. a.ran # 0
  BY DEF a
<1>5. based /\ perms # {} /\ gate = "pass" /\ a = last
  BY <1>1, <1>2, <1>3, <1>4
<1>6. will.sink = "takes"
  BY <1>1, <1>3, <1>4, <1>5 DEF last, Report
<1>7. last = [Asking(Answer(IF ran = 0 THEN "sdk_answers" ELSE "ran", <<>>, ran), TsApproval(s, ran))
                EXCEPT !.decisions = <<"allow">>]
  BY <1>6 DEF last, Report
<1> HIDE DEF ran
<1>8. last = [why |-> IF ran = 0 THEN "sdk_answers" ELSE "ran", decisions |-> <<"allow">>, ran |-> ran,
              person |-> TsApproval(s, ran)]
  BY <1>7, Zenon DEF Asking, Answer
<1>9. a.ran = ran /\ ran # 0 /\ a.decisions = <<"allow">>
  BY <1>4, <1>5, <1>8
<1>10. ~unread /\ ran = Dispatch(s.caps, Enabled(s, perms), Kind(r.method), RouteName(r))
  BY <1>9 DEF ran
<1>11. TsPermitted(s, perms, r)
  <2>1. GateOpen(r, s.scoped, FALSE, TsPermitted(s, perms, r), TsScopes(s, r), held)
    BY <1>5, GatePasses DEF gate
  <2>2. QED
    BY <1>10, <2>1 DEF GateOpen
<1>12. s.caps[ran].asks => a.person
  BY <1>5, <1>8, <1>9, Zenon DEF TsApproval
<1>13. QED
  BY <1>9, <1>10, <1>11, <1>12, Zenon DEF a, perms

\* And in Python (server.py:340-404).
LEMMA PyRuns ==
  ASSUME NEW p, NEW s \in Servers, NEW i, NEW r, NEW held, NEW will, will \in Callbacks,
         PyAnswers(p, s, i, r, held, will).ran # 0
  PROVE  LET a == PyAnswers(p, s, i, r, held, will)
         IN  /\ a.ran = Dispatch(s.caps, DOMAIN s.caps, Kind(r.method), RouteName(r))
             /\ PyPermission(s, Kind(r.method), RouteName(r)) # "none"
             /\ Holds(Permissions("py", p, i), PyPermission(s, Kind(r.method), RouteName(r)))
             /\ a.decisions = <<"allow">>
             /\ PyApproval(s, Kind(r.method), RouteName(r)) => a.person
<1> DEFINE perms == Permissions("py", p, i)
           name == RouteName(r)
           price == PyPermission(s, Kind(r.method), name)
           based == BaseScopes \subseteq held
           unread == r.body # "ok" \/ ~r.post \/ Classified(r) = "reject"
           ran == Dispatch(s.caps, DOMAIN s.caps, Kind(r.method), name)
           person == PyApproval(s, Kind(r.method), name)
           a == PyAnswers(p, s, i, r, held, will)
           last == Report(will, "allow", IF name = "none" THEN Answer("sdk_answers", <<>>, 0)
                                         ELSE Asking(Answer("ran", <<>>, ran), person))
<1>1. \A why, decision : Report(will, decision, Answer(why, <<>>, 0)).ran = 0 /\ Answer(why, <<>>, 0).ran = 0
  BY DEF Report, Answer
<1>2. a = CASE ~based -> Answer("baseline", <<>>, 0)
            [] based /\ unread -> Answer("sdk_answers", <<>>, 0)
            [] OTHER ->
                 CASE perms = {} -> Report(will, "deny", Answer("not_permitted", <<>>, 0))
                   [] perms # {} /\ name # "none" /\ price = "none" ->
                        Report(will, "deny", Answer("undeclared", <<>>, 0))
                   [] perms # {} /\ name # "none" /\ price # "none" /\ ~Holds(perms, price) ->
                        Report(will, "deny", Answer("policy_denied", <<>>, 0))
                   [] OTHER -> last
  BY DEF PyAnswers
<1>3. will.sink \in {"takes", "rejects"}
  BY DEF Callbacks
<1> HIDE DEF a, last, perms, based, unread, price, name, ran, person
<1>4. a.ran # 0
  BY DEF a
<1>5. based /\ ~unread /\ perms # {} /\ (name = "none" \/ (price # "none" /\ Holds(perms, price))) /\ a = last
  BY <1>1, <1>2, <1>4
<1>6. will.sink = "takes" /\ name # "none"
  <2>1. will.sink = "takes"
    BY <1>1, <1>3, <1>4, <1>5 DEF last, Report
  <2>2. ASSUME name = "none" PROVE FALSE
    <3>1. last = Report(will, "allow", Answer("sdk_answers", <<>>, 0))
      BY <2>2 DEF last
    <3>2. QED
      BY <1>1, <1>4, <1>5, <3>1
  <2>3. QED
    BY <2>1, <2>2
<1>7. last = [Asking(Answer("ran", <<>>, ran), person) EXCEPT !.decisions = <<"allow">>]
  BY <1>6 DEF last, Report
<1>8. last = [why |-> "ran", decisions |-> <<"allow">>, ran |-> ran, person |-> person]
  BY <1>7, Zenon DEF Asking, Answer
<1>9. a.ran = ran /\ a.decisions = <<"allow">>
  BY <1>5, <1>8
<1>10. person => a.person
  BY <1>5, <1>8, Zenon
<1>11. QED
  BY <1>5, <1>6, <1>9, <1>10, Zenon DEF a, perms, price, name, ran, person

-----------------------------------------------------------------------------
(* The state: what is deployed started, and a call is answered by it.      *)

BothStarted ==
  deployed # <<>> => \E p \in Policies, s \in Servers :
    /\ deployed = <<p, s>>
    /\ tsCall # Stopped => FirstRefusal(TsServerRungs(p, s)) = "pass"
AnswersTheCall ==
  calling # <<>> =>
    /\ deployed # <<>>
    /\ \E i \in Identities, c \in AccessCalls, will \in Callbacks :
         /\ calling = <<i, c, will>>
         /\ tsCall \in {Stopped, TsAnswers(deployed[1], deployed[2], i, c.request, c.held, will)}
         /\ pyCall \in {Stopped, PyAnswers(deployed[1], deployed[2], i, c.request, c.held, will)}
WaitsBetween == calling = <<>> => tsCall \in {Waiting, Stopped} /\ pyCall \in {Waiting, Stopped}
AInv == BothStarted /\ AnswersTheCall /\ WaitsBetween

\* A server takes calls only after the checks of its start passed, and answers the call that is in.
LEMMA AInvariance == AccessSpec => []AInv
<1>1. AccessInit => AInv
  BY DEF AccessInit, AInv, BothStarted, AnswersTheCall, WaitsBetween
<1>2. AInv /\ [AccessNext]_accessVars => AInv'
  <2> SUFFICES ASSUME AInv, [AccessNext]_accessVars PROVE AInv'
    OBVIOUS
  <2> USE DEF AInv
  <2>1. ASSUME NEW p \in Policies, NEW s \in Servers, Deploy(p, s) PROVE AInv'
    <3>1. calling = <<>> /\ calling' = <<>>
      BY <2>1 DEF Deploy, AnswersTheCall
    <3>2. BothStarted'
      BY <2>1 DEF Deploy, BothStarted
    <3>3. AnswersTheCall' /\ WaitsBetween'
      BY <2>1, <3>1 DEF Deploy, AnswersTheCall, WaitsBetween
    <3>4. QED
      BY <3>2, <3>3
  <2>2. ASSUME NEW i \in Identities, NEW c \in AccessCalls, NEW will \in Callbacks, Call(i, c, will) PROVE AInv'
    <3>1. calling' = <<i, c, will>> /\ calling' # <<>> /\ deployed' = deployed /\ deployed # <<>>
      BY <2>2 DEF Call
    <3>2. /\ tsCall' \in {Stopped, TsAnswers(deployed[1], deployed[2], i, c.request, c.held, will)}
          /\ pyCall' \in {Stopped, PyAnswers(deployed[1], deployed[2], i, c.request, c.held, will)}
      BY <2>2 DEF Call
    <3>3. tsCall' # Stopped => tsCall # Stopped
      BY <2>2 DEF Call
    <3>4. BothStarted'
      BY <3>1, <3>3 DEF BothStarted
    <3>5. AnswersTheCall' /\ WaitsBetween'
      BY <3>1, <3>2 DEF AnswersTheCall, WaitsBetween
    <3>6. QED
      BY <3>4, <3>5
  <2>3. CASE Replied
    <3>1. BothStarted'
      BY <2>3 DEF Replied, BothStarted
    <3>2. AnswersTheCall' /\ WaitsBetween'
      BY <2>3 DEF Replied, AnswersTheCall, WaitsBetween
    <3>3. QED
      BY <3>1, <3>2
  <2>4. CASE UNCHANGED accessVars
    BY <2>4 DEF accessVars, BothStarted, AnswersTheCall, WaitsBetween
  <2>5. QED
    BY <2>1, <2>2, <2>3, <2>4 DEF AccessNext
<1>3. QED
  BY <1>1, <1>2, PTL DEF AccessSpec

\* An answer that ran something answers a call, and is the ladder's.
LEMMA RanAnswers ==
  ASSUME AInv
  PROVE  /\ calling = <<>> => tsCall.ran = 0 /\ pyCall.ran = 0
         /\ calling # <<>> => \E p \in Policies, s \in Servers, i \in Identities, c \in AccessCalls, will \in Callbacks :
              /\ deployed = <<p, s>> /\ calling = <<i, c, will>>
              /\ tsCall.ran # 0 => tsCall = TsAnswers(p, s, i, c.request, c.held, will)
              /\ pyCall.ran # 0 => pyCall = PyAnswers(p, s, i, c.request, c.held, will)
<1>1. Stopped.ran = 0 /\ Waiting.ran = 0
  BY DEF Stopped, Waiting, Answer
<1>2. calling = <<>> => tsCall.ran = 0 /\ pyCall.ran = 0
  BY <1>1 DEF AInv, WaitsBetween
<1>3. ASSUME calling # <<>>
      PROVE  \E p \in Policies, s \in Servers, i \in Identities, c \in AccessCalls, will \in Callbacks :
              /\ deployed = <<p, s>> /\ calling = <<i, c, will>>
              /\ tsCall.ran # 0 => tsCall = TsAnswers(p, s, i, c.request, c.held, will)
              /\ pyCall.ran # 0 => pyCall = PyAnswers(p, s, i, c.request, c.held, will)
  <2>1. PICK p \in Policies, s \in Servers : deployed = <<p, s>>
    BY <1>3 DEF AInv, AnswersTheCall, BothStarted
  <2>2. PICK i \in Identities, c \in AccessCalls, will \in Callbacks :
           /\ calling = <<i, c, will>>
           /\ tsCall \in {Stopped, TsAnswers(p, s, i, c.request, c.held, will)}
           /\ pyCall \in {Stopped, PyAnswers(p, s, i, c.request, c.held, will)}
    BY <1>3, <2>1 DEF AInv, AnswersTheCall
  <2>3. QED
    BY <1>1, <2>1, <2>2
<1>4. QED
  BY <1>2, <1>3

\* A handler that asks for a person runs after one was asked (tools.ts:391-435; server.py:360-371).
THEOREM NothingRunsUnasked == AccessSpec => []NothingUnasked
<1>1. AInv => NothingUnasked
  <2> SUFFICES ASSUME AInv PROVE NothingUnasked
    OBVIOUS
  <2>1. CASE calling = <<>>
    BY <2>1, RanAnswers DEF NothingUnasked
  <2>2. CASE calling # <<>>
    <3>1. PICK p \in Policies, s \in Servers, i \in Identities, c \in AccessCalls, will \in Callbacks :
            /\ deployed = <<p, s>>
            /\ tsCall.ran # 0 => tsCall = TsAnswers(p, s, i, c.request, c.held, will)
            /\ pyCall.ran # 0 => pyCall = PyAnswers(p, s, i, c.request, c.held, will)
      BY <2>2, RanAnswers
    <3> DEFINE r == c.request
               held == c.held
    <3> HIDE DEF r, held
    <3>2. ASSUME tsCall.ran # 0, s.caps[tsCall.ran].asks PROVE tsCall.person
      <4>1. tsCall = TsAnswers(p, s, i, r, held, will)
        BY <3>1, <3>2 DEF r, held
      <4>2. QED
        BY <3>2, <4>1, TsRuns
    <3>3. ASSUME pyCall.ran # 0, s.caps[pyCall.ran].asks PROVE pyCall.person
      <4> DEFINE kind == Kind(r.method)
                 name == RouteName(r)
      <4>1. pyCall = PyAnswers(p, s, i, r, held, will)
        BY <3>1, <3>3 DEF r, held
      <4>2. (PyApproval(s, kind, name) => pyCall.person) /\ pyCall.ran = Dispatch(s.caps, DOMAIN s.caps, kind, name)
        BY <3>3, <4>1, PyRuns
      <4> HIDE DEF kind, name
      <4>3. Dispatch(s.caps, DOMAIN s.caps, kind, name) \in RoutesFor(s.caps, kind, name) \cap DOMAIN s.caps
        BY <3>3, <4>2, DispatchReaches
      <4>4. pyCall.ran \in RoutesFor(s.caps, kind, name)
        BY <4>2, <4>3
      <4>5. PyApproval(s, kind, name)
        BY <3>3, <4>4 DEF PyApproval, RoutesFor, CapsOf
      <4>6. QED
        BY <4>2, <4>5
    <3>4. deployed[2] = s
      BY <3>1
    <3>5. QED
      BY <3>2, <3>3, <3>4 DEF NothingUnasked
  <2>3. QED
    BY <2>1, <2>2
<1>2. QED
  BY <1>1, AInvariance, PTL

\* A handler runs only for an identity the policy means to have its permission, with the admission
\* on record (policy.ts:179-254, handler.ts:356-449, decision.ts:40-61; server.py:178-224).
THEOREM WhatRunsIsEntitled == AccessSpec => []RunIsEntitled
<1>1. AInv => RunIsEntitled
  <2> SUFFICES ASSUME AInv, calling # <<>> PROVE RunIsEntitled
    BY DEF RunIsEntitled
  <2>1. PICK p \in Policies, s \in Servers, i \in Identities, c \in AccessCalls, will \in Callbacks :
          /\ deployed = <<p, s>> /\ calling = <<i, c, will>>
          /\ tsCall.ran # 0 => tsCall = TsAnswers(p, s, i, c.request, c.held, will)
          /\ pyCall.ran # 0 => pyCall = PyAnswers(p, s, i, c.request, c.held, will)
    BY RanAnswers
  <2> DEFINE r == c.request
             held == c.held
             kind == Kind(r.method)
             name == RouteName(r)
  <2>2. IsRequest(r)
    BY CallsAssumption
  <2>3. calling[1] = i /\ calling[2].request = r /\ deployed[1] = p /\ deployed[2] = s
    BY <2>1
  <2>4. /\ tsCall.ran # 0 => tsCall = TsAnswers(p, s, i, r, held, will)
        /\ pyCall.ran # 0 => pyCall = PyAnswers(p, s, i, r, held, will)
    BY <2>1
  <2> HIDE DEF r, held
  <2>5. ASSUME tsCall.ran # 0
        PROVE  /\ Meant(p, i, s.caps[tsCall.ran].perm)
               /\ \A d \in CapsOf(s) : Same(d, kind, r.names[1]) => Meant(p, i, d.perm)
               /\ tsCall.decisions = <<"allow">>
    <3> DEFINE perms == Permissions("ts", p, i)
    <3>1. /\ tsCall.ran = Dispatch(s.caps, Enabled(s, perms), kind, name)
          /\ TsPermitted(s, perms, r) /\ tsCall.decisions = <<"allow">>
      <4>1. tsCall = TsAnswers(p, s, i, r, held, will)
        BY <2>4, <2>5
      <4>2. tsCall.ran = Dispatch(s.caps, Enabled(s, perms), kind, name)
        BY <2>5, <4>1, TsRuns
      <4>3. TsPermitted(s, perms, r)
        BY <2>5, <4>1, TsRuns
      <4>4. tsCall.decisions = <<"allow">>
        BY <2>5, <4>1, TsRuns
      <4> HIDE DEF perms, kind, name
      <4>5. QED
        BY <4>2, <4>3, <4>4
    <3>2. \A k \in RoutesFor(s.caps, kind, name) : Holds(perms, s.caps[k].perm)
      BY <3>1 DEF TsPermitted
    <3> HIDE DEF kind, name, perms
    <3>3. tsCall.ran \in RoutesFor(s.caps, kind, name) \cap Enabled(s, perms) /\ name # "none"
      <4> DEFINE k == Dispatch(s.caps, Enabled(s, perms), kind, name)
      <4>1. k # 0
        BY <2>5, <3>1
      <4>2. k \in RoutesFor(s.caps, kind, name) \cap Enabled(s, perms) /\ name # "none"
        BY <4>1, DispatchReaches
      <4> HIDE DEF k
      <4>3. tsCall.ran = k
        BY <3>1 DEF k
      <4>4. QED
        BY <4>2, <4>3
    <3>4. name = r.names[1]
      BY <2>2, <3>3, RouteNames DEF name
    <3>5. \A d \in CapsOf(s) : Same(d, kind, name) => Holds(perms, d.perm)
      BY <3>2 DEF CapsOf, Same, RoutesFor
    <3>6. \A permission : Holds(perms, permission) => Meant(p, i, permission)
      BY HeldIsMeant DEF perms
    <3>7. Holds(perms, s.caps[tsCall.ran].perm)
      BY <3>2, <3>3
    <3>8. QED
      BY <3>1, <3>4, <3>5, <3>6, <3>7
  <2>6. ASSUME pyCall.ran # 0
        PROVE  /\ HasDomain(i) /\ ~IsTemplate(r.names[1]) =>
                    \E d \in CapsOf(s) : /\ d.kind = s.caps[pyCall.ran].kind /\ d.at = s.caps[pyCall.ran].at
                                         /\ Meant(p, i, d.perm)
               /\ pyCall.decisions = <<"allow">>
    <3> DEFINE perms == Permissions("py", p, i)
               reached == RoutesFor(s.caps, kind, name)
               named == {k \in DOMAIN s.caps : s.caps[k].kind = kind /\ s.caps[k].at = name}
               ran == pyCall.ran
    <3>1. /\ ran = Dispatch(s.caps, DOMAIN s.caps, kind, name) /\ pyCall.decisions = <<"allow">>
          /\ PyPermission(s, kind, name) # "none" /\ Holds(perms, PyPermission(s, kind, name))
      <4>1. pyCall = PyAnswers(p, s, i, r, held, will)
        BY <2>4, <2>6
      <4>2. ran = Dispatch(s.caps, DOMAIN s.caps, kind, name)
        BY <2>6, <4>1, PyRuns
      <4>3. /\ PyPermission(s, kind, name) # "none" /\ Holds(perms, PyPermission(s, kind, name))
            /\ pyCall.decisions = <<"allow">>
        BY <2>6, <4>1, PyRuns
      <4> HIDE DEF perms, kind, name
      <4>4. QED
        BY <4>2, <4>3
    <3> HIDE DEF kind, name, perms
    <3>2. ran \in reached /\ name # "none"
      <4> DEFINE k == Dispatch(s.caps, DOMAIN s.caps, kind, name)
      <4>1. k # 0
        BY <2>6, <3>1
      <4>2. k \in reached \cap DOMAIN s.caps /\ name # "none"
        BY <4>1, DispatchReaches
      <4>3. ran = k
        BY <3>1
      <4> HIDE DEF k, ran, reached
      <4>4. QED
        BY <4>2, <4>3
    <3>3. name = r.names[1]
      BY <2>2, <3>2, RouteNames DEF name
    <3>4. SUFFICES ASSUME HasDomain(i), ~IsTemplate(name)
                   PROVE  \E d \in CapsOf(s) : /\ d.kind = s.caps[ran].kind /\ d.at = s.caps[ran].at
                                               /\ Meant(p, i, d.perm)
      BY <3>1, <3>3
    <3>5. \A permission : Holds(perms, permission) => Meant(p, i, permission)
      BY <3>4, HeldIsMeant DEF perms
    <3>6. reached \subseteq DOMAIN s.caps /\ named \subseteq reached
      BY <3>4 DEF RoutesFor, Covers, IsTemplate
    <3> HIDE DEF ran
    <3>7. \/ s.caps[ran].at = name
          \/ (\A j \in reached : s.caps[j].at # name) /\ ran = Earliest(reached)
      <4> DEFINE k == Dispatch(s.caps, DOMAIN s.caps, kind, name)
      <4>1. k # 0 /\ ran = k
        BY <2>6, <3>1 DEF ran
      <4>2. \/ s.caps[k].at = name
            \/ (\A j \in reached : s.caps[j].at # name) /\ k = Earliest(reached)
        BY <3>4, <4>1, DispatchPrefers
      <4> HIDE DEF k, reached
      <4>3. QED
        BY <4>1, <4>2
    <3>8. CASE named # {}
      <4>1. PICK k \in named : PyPermission(s, kind, name) = s.caps[k].perm
        BY <3>1, <3>8, PriceIsRegistered
      <4>2. s.caps[ran].at = name /\ s.caps[ran].kind = kind
        BY <3>2, <3>6, <3>7, <3>8 DEF RoutesFor
      <4>3. Meant(p, i, s.caps[k].perm)
        BY <3>1, <3>5, <4>1
      <4>4. QED
        BY <4>1, <4>2, <4>3 DEF CapsOf
    <3>9. CASE named = {}
      <4>1. PyPermission(s, kind, name) = s.caps[Earliest(reached)].perm
        BY <3>1, <3>9, PriceIsRegistered
      <4>2. s.caps[ran].at # name
        BY <3>2, <3>6, <3>9 DEF RoutesFor
      <4>3. ran = Earliest(reached)
        BY <3>7, <4>2
      <4>4. Meant(p, i, s.caps[ran].perm)
        BY <3>1, <3>5, <4>1, <4>3
      <4>5. QED
        BY <3>2, <3>6, <4>4 DEF CapsOf
    <3>10. QED
      BY <3>8, <3>9
  <2>7. QED
    BY <2>3, <2>5, <2>6 DEF RunIsEntitled
<1>2. QED
  BY <1>1, AInvariance, PTL

-----------------------------------------------------------------------------
(* What is listed.                                                         *)

\* The request a client makes of what it was shown: every rung that asks for no permission passes.
LEMMA PlainlyIs ==
  ASSUME NEW c, c.kind \in {"tool", "prompt", "resource"}, NEW name \in Name
  PROVE  LET d == Plainly(c, name)
         IN  /\ IsRequest(d) /\ d.post /\ d.body = "ok" /\ Preflight(d) = "pass" /\ Classified(d) = "modern"
             /\ Kind(d.method) = c.kind /\ RouteName(d) = name /\ name # "none"
<1> DEFINE d == Plainly(c, name)
           method == CASE c.kind = "tool" -> "tools/call" [] c.kind = "prompt" -> "prompts/get"
                       [] OTHER -> "resources/read"
<1>1. d = [method |-> method, names |-> <<name>>, id |-> TRUE, post |-> TRUE, body |-> "ok", modern |-> TRUE,
           mhdr |-> "same", nhdr |-> "same"]
  BY DEF Plainly
<1>2. method \in Invocations /\ Kind(method) = c.kind
  BY DEF Invocations, Kind
<1> HIDE DEF method, d
<1>3. /\ d.method = method /\ d.names = <<name>> /\ d.id /\ d.post /\ d.body = "ok" /\ d.modern
      /\ d.mhdr = "same" /\ d.nhdr = "same"
  BY <1>1
<1>4. IsRequest(d)
  BY <1>1 DEF IsRequest, Bodies
<1>5. Classified(d) = "modern"
  BY <1>3 DEF Classified
<1>6. Preflight(d) = "pass"
  BY <1>3, <1>4, <1>5, PreflightPasses DEF IsRequest
<1>7. RouteName(d) = name
  BY <1>2, <1>3 DEF RouteName, NamesOne
<1>8. name # "none"
  BY DEF Name
<1>9. QED
  BY <1>2, <1>3, <1>4, <1>5, <1>6, <1>7, <1>8 DEF d

\* A server that started with a scope map has a baseline (handler.ts:216-240).
LEMMA ScopedHasBaseline ==
  ASSUME NEW p, NEW s, FirstRefusal(TsServerRungs(p, s)) = "pass", s.scoped
  PROVE  BaseScopes # {}
<1> DEFINE g1 == Rung("registered_twice", \E j, k \in DOMAIN s.caps : j # k /\ s.caps[j].label = s.caps[k].label)
           g2 == Rung("no_approver", ~s.approver /\ \E c \in CapsOf(s) : c.asks)
           g3 == Rung("no_baseline", s.scoped /\ BaseScopes = {})
           g4 == Rung("no_scope", s.scoped /\ \E k \in DOMAIN s.scopes : s.scopes[k] = {})
           g5 == Rung("alias", s.scoped /\ \E k, l \in DOMAIN s.scopes : k # l /\ Canonical(k) = Canonical(l))
           g6 == Rung("unknown_scope_key", s.scoped /\ \E k \in DOMAIN s.scopes :
                        ~\E c \in CapsOf(s) : c.kind = Canonical(k)[1] /\ Covers(c.at, k[2]))
           g7 == Rung("unreachable", "*" \notin Granted(p) /\ ~({c.perm : c \in CapsOf(s)} \subseteq Granted(p)))
           rungs == <<g1, g2, g3, g4, g5, g6, g7>>
<1>1. TsServerRungs(p, s) = rungs
  BY DEF TsServerRungs
<1>2. g3 = "pass"
  <2> HIDE DEF g1, g2, g3, g4, g5, g6, g7
  <2>1. DOMAIN rungs = 1..7 /\ rungs[3] = g3
    OBVIOUS
  <2>2. DOMAIN rungs \subseteq Nat
    BY <2>1
  <2> HIDE DEF rungs
  <2>3. QED
    BY <1>1, <2>1, <2>2, PassesAll
<1>3. QED
  BY <1>2 DEF Rung

\* What a request is asked for is the baseline's or the map's (ladder.ts:54-82).
LEMMA AskedOfAll ==
  ASSUME NEW s, NEW r, BaseScopes # {}
  PROVE  TsScopes(s, r) \subseteq EveryScope(s)
<1> DEFINE base == CHOOSE b \in BaseScopes : TRUE
           reached == IF Kind(r.method) # "resource" THEN {} ELSE RoutesFor(s.caps, "resource", RouteName(r))
           all == EveryScope(s)
<1>1. base \in BaseScopes /\ all = BaseScopes \cup UNION {s.scopes[k] : k \in DOMAIN s.scopes}
  BY DEF EveryScope
<1>2. \A kind, name : ScopesFor(s.scopes, kind, name, base) \subseteq all
  <2> HIDE DEF base, all
  <2> TAKE kind, name
  <2>1. ScopesFor(s.scopes, kind, name, base) \subseteq {base} \cup UNION {s.scopes[k] : k \in DOMAIN s.scopes}
    BY ScopesWithin
  <2>2. QED
    BY <1>1, <2>1
<1>3. TsScopes(s, r) = BaseScopes \cup
        (IF reached = {} THEN ScopesFor(s.scopes, Kind(r.method), RouteName(r), base)
         ELSE UNION {ScopesFor(s.scopes, "resource", s.caps[k].at, base) : k \in reached})
  BY DEF TsScopes
<1> HIDE DEF base, all, reached
<1>4. UNION {ScopesFor(s.scopes, "resource", s.caps[k].at, base) : k \in reached} \subseteq all
  BY <1>2
<1>5. QED
  BY <1>1, <1>2, <1>3, <1>4 DEF all

\* A name one registration answers to is dispatched to it, where it is registered at all.
LEMMA DispatchOnly ==
  ASSUME NEW s, NEW k \in Nat, NEW registered, NEW kind, NEW name, RoutesFor(s.caps, kind, name) = {k}
  PROVE  Dispatch(s.caps, registered, kind, name) = IF k \in registered THEN k ELSE 0
<1> DEFINE reached == RoutesFor(s.caps, kind, name) \cap registered
           exact == {j \in reached : s.caps[j].at = name /\ (kind = "resource" => ~IsTemplate(name))}
<1>1. Dispatch(s.caps, registered, kind, name)
        = IF reached = {} THEN 0 ELSE Earliest(IF exact # {} THEN exact ELSE reached)
  BY DEF Dispatch
<1>2. exact \subseteq reached
  OBVIOUS
<1>3. reached = IF k \in registered THEN {k} ELSE {}
  OBVIOUS
<1>4. Earliest({k}) = k
  BY DEF Earliest
<1> HIDE DEF exact, reached
<1>5. QED
  BY <1>1, <1>2, <1>3, <1>4

\* A plain request of a name that one registration answers to runs it where its permission is held
\* and nothing otherwise, in TypeScript (handler.ts:266-345) ...
LEMMA TsPlain ==
  ASSUME NEW p, NEW s \in Servers, NEW i, NEW r, NEW k \in DOMAIN s.caps, k \in Nat,
         FirstRefusal(TsServerRungs(p, s)) = "pass", Permissions("ts", p, i) # {},
         r.post, Preflight(r) = "pass", Classified(r) = "modern",
         RoutesFor(s.caps, Kind(r.method), RouteName(r)) = {k}
  PROVE  TsAnswers(p, s, i, r, EveryScope(s), Willing).ran
           = IF Holds(Permissions("ts", p, i), s.caps[k].perm) THEN k ELSE 0
<1> DEFINE perms == Permissions("ts", p, i)
           held == EveryScope(s)
           permitted == TsPermitted(s, perms, r)
           wanted == TsScopes(s, r)
           gate == FirstRefusal(GateRungs(r, s.scoped, FALSE, permitted, wanted, held))
           unread == ~r.post \/ Preflight(r) # "pass" \/ (Classified(r) = "legacy" /\ ~s.legacy)
           ran == IF unread THEN 0 ELSE Dispatch(s.caps, Enabled(s, perms), Kind(r.method), RouteName(r))
           based == BaseScopes \subseteq held
           a == TsAnswers(p, s, i, r, held, Willing)
           last == Report(Willing, "allow", Asking(Answer(IF ran = 0 THEN "sdk_answers" ELSE "ran", <<>>, ran),
                                                   TsApproval(s, ran)))
<1>1. \A why, decision : Report(Willing, decision, Answer(why, <<>>, 0)).ran = 0 /\ Answer(why, <<>>, 0).ran = 0
  BY DEF Report, Answer
<1>2. a = CASE ~based -> Answer("baseline", <<>>, 0)
            [] based /\ perms = {} -> Report(Willing, "deny", Answer("not_permitted", <<>>, 0))
            [] based /\ perms # {} /\ gate # "pass" ->
                 IF gate = "policy_denied" THEN Report(Willing, "deny", Answer(gate, <<>>, 0))
                 ELSE Answer(gate, <<>>, 0)
            [] OTHER ->
                 CASE Willing.resolve = "refuses" -> Report(Willing, "deny", Answer("no_credential", <<>>, 0))
                   [] Willing.resolve = "throws" -> Answer("error", <<>>, 0)
                   [] Willing.resolve = "enriches" -> last
  BY DEF TsAnswers
<1>3. Willing.resolve = "enriches" /\ Willing.sink = "takes"
  BY DEF Willing
<1>4. based
  BY DEF EveryScope
<1>5. permitted <=> Holds(perms, s.caps[k].perm)
  BY DEF TsPermitted
<1>6. ran = IF k \in Enabled(s, perms) THEN k ELSE 0
  <2> HIDE DEF perms
  <2>1. Dispatch(s.caps, Enabled(s, perms), Kind(r.method), RouteName(r)) = IF k \in Enabled(s, perms) THEN k ELSE 0
    BY DispatchOnly
  <2>2. QED
    BY <2>1
<1>7. k \in Enabled(s, perms) <=> Holds(perms, s.caps[k].perm)
  BY DEF Enabled
<1>8. s.scoped => wanted \subseteq held
  BY ScopedHasBaseline, AskedOfAll
<1>9. gate = "pass" <=> permitted
  <2>1. gate = "pass" <=> GateOpen(r, s.scoped, FALSE, permitted, wanted, held)
    <3> HIDE DEF permitted, wanted, held
    <3>1. QED
      BY GatePasses DEF gate
  <2> HIDE DEF gate, permitted, wanted, held
  <2>2. QED
    BY <1>8, <2>1 DEF GateOpen
<1> HIDE DEF a, gate, last, perms, based, permitted, held
<1>10. CASE ~permitted
  <2>1. a.ran = 0
    BY <1>1, <1>2, <1>4, <1>9, <1>10
  <2>2. QED
    BY <1>5, <1>10, <2>1 DEF a, perms, held
<1>11. CASE permitted
  <2>1. a = last
    BY <1>2, <1>3, <1>4, <1>9, <1>11 DEF perms
  <2>2. last = [Asking(Answer(IF ran = 0 THEN "sdk_answers" ELSE "ran", <<>>, ran), TsApproval(s, ran))
                  EXCEPT !.decisions = <<"allow">>]
    BY <1>3 DEF last, Report
  <2> HIDE DEF ran
  <2>3. last = [why |-> IF ran = 0 THEN "sdk_answers" ELSE "ran", decisions |-> <<"allow">>, ran |-> ran,
                person |-> TsApproval(s, ran)]
    BY <2>2, Zenon DEF Asking, Answer
  <2>4. a.ran = ran /\ ran = k
    BY <1>5, <1>6, <1>7, <1>11, <2>1, <2>3
  <2>5. QED
    BY <1>5, <1>11, <2>4 DEF a, perms, held
<1>12. QED
  BY <1>10, <1>11

\* ... and in Python (server.py:340-404).
LEMMA PyPlain ==
  ASSUME NEW p, NEW s \in Servers, NEW i, NEW r, NEW k \in DOMAIN s.caps, k \in Nat,
         Permissions("py", p, i) # {}, r.post, r.body = "ok", Classified(r) = "modern",
         RouteName(r) # "none", RoutesFor(s.caps, Kind(r.method), RouteName(r)) = {k},
         PyPermission(s, Kind(r.method), RouteName(r)) = s.caps[k].perm
  PROVE  PyAnswers(p, s, i, r, EveryScope(s), Willing).ran
           = IF Holds(Permissions("py", p, i), s.caps[k].perm) THEN k ELSE 0
<1> DEFINE perms == Permissions("py", p, i)
           held == EveryScope(s)
           name == RouteName(r)
           kind == Kind(r.method)
           price == PyPermission(s, kind, name)
           based == BaseScopes \subseteq held
           unread == r.body # "ok" \/ ~r.post \/ Classified(r) = "reject"
           ran == Dispatch(s.caps, DOMAIN s.caps, kind, name)
           person == PyApproval(s, kind, name)
           a == PyAnswers(p, s, i, r, held, Willing)
           last == Report(Willing, "allow", IF name = "none" THEN Answer("sdk_answers", <<>>, 0)
                                            ELSE Asking(Answer("ran", <<>>, ran), person))
<1>1. \A why, decision : Report(Willing, decision, Answer(why, <<>>, 0)).ran = 0
  BY DEF Report, Answer
<1>2. a = CASE ~based -> Answer("baseline", <<>>, 0)
            [] based /\ unread -> Answer("sdk_answers", <<>>, 0)
            [] OTHER ->
                 CASE perms = {} -> Report(Willing, "deny", Answer("not_permitted", <<>>, 0))
                   [] perms # {} /\ name # "none" /\ price = "none" ->
                        Report(Willing, "deny", Answer("undeclared", <<>>, 0))
                   [] perms # {} /\ name # "none" /\ price # "none" /\ ~Holds(perms, price) ->
                        Report(Willing, "deny", Answer("policy_denied", <<>>, 0))
                   [] OTHER -> last
  BY DEF PyAnswers
<1>3. based /\ ~unread /\ perms # {} /\ name # "none" /\ price = s.caps[k].perm
  BY DEF EveryScope
<1>4. price # "none"
  BY <1>3, ServersAssumption DEF Name
<1>5. ran = k
  <2> HIDE DEF kind, name
  <2>1. RoutesFor(s.caps, kind, name) = {k}
    BY DEF kind, name
  <2>2. QED
    BY <2>1, DispatchOnly
<1>6. last = Report(Willing, "allow", Asking(Answer("ran", <<>>, ran), person))
  BY <1>3
<1>7. Willing.sink = "takes"
  BY DEF Willing
<1> HIDE DEF a, last, perms, based, unread, price, name, ran, person, kind, held
<1>8. CASE ~Holds(perms, price)
  <2>1. a.ran = 0
    BY <1>1, <1>2, <1>3, <1>4, <1>8
  <2>2. QED
    BY <1>3, <1>8, <2>1 DEF a, perms, held
<1>9. CASE Holds(perms, price)
  <2>1. a = last
    BY <1>2, <1>3, <1>4, <1>9
  <2>2. last = [Asking(Answer("ran", <<>>, ran), person) EXCEPT !.decisions = <<"allow">>]
    BY <1>6, <1>7 DEF Report
  <2>3. last = [why |-> "ran", decisions |-> <<"allow">>, ran |-> ran, person |-> person]
    BY <2>2, Zenon DEF Asking, Answer
  <2>4. a.ran = k
    BY <1>5, <2>1, <2>3
  <2>5. QED
    BY <1>3, <1>9, <2>4 DEF a, perms, held
<1>10. QED
  BY <1>8, <1>9

\* A registration's own names are requests' names, and where nothing else answers to one, both
\* Python's lookups of a price find that registration's (server.py:178-212, 340-360).
LEMMA AloneIsPriced ==
  ASSUME NEW s \in Servers, NEW k \in DOMAIN s.caps, NEW name \in NamesOf(s.caps[k]),
         \A j \in DOMAIN s.caps \ {k} : ~Same(s.caps[j], s.caps[k].kind, name)
  PROVE  /\ name \in Name /\ RoutesFor(s.caps, s.caps[k].kind, name) = {k}
         /\ PyPermission(s, s.caps[k].kind, name) = s.caps[k].perm
         /\ PyPermission(s, s.caps[k].kind, s.caps[k].at) = s.caps[k].perm
<1> DEFINE c == s.caps[k]
           kind == c.kind
           Exact(at) == {j \in DOMAIN s.caps : s.caps[j].kind = kind /\ s.caps[j].at = at}
           Reached(at) == RoutesFor(s.caps, kind, at)
<1>1. kind \in {"tool", "prompt", "resource"} /\ c.at \in Name
  BY ServersAssumption
<1>2. k \in Nat
  <2>1. Len(s.caps) \in Nat /\ DOMAIN s.caps = 1..Len(s.caps)
    BY ServersAssumption
  <2>2. QED
    BY <2>1
<1>3. /\ kind = "resource" => Covers(c.at, name) /\ ~IsTemplate(name)
      /\ kind # "resource" => name = c.at
  BY DEF NamesOf, Covers, IsTemplate
<1>4. name \in Name
  BY <1>1, <1>3, ExpansionsAssumption DEF Covers
<1>5. Reached(name) = {k}
  BY <1>3 DEF RoutesFor, Same
<1>6. Exact(name) \subseteq {k}
  <2>1. ASSUME NEW j \in Exact(name) PROVE j \in Reached(name)
    BY <1>3 DEF RoutesFor, Covers, IsTemplate
  <2>2. QED
    BY <1>5, <2>1
<1>7. Exact(c.at) = {k}
  <2>1. ASSUME NEW j \in Exact(c.at) PROVE j \in Reached(name)
    BY <1>3 DEF RoutesFor
  <2>2. QED
    BY <1>5, <2>1
<1>8. Earliest({k}) = k /\ Latest({k}) = k
  BY <1>2 DEF Earliest, Latest
<1>9. \A at : PyPermission(s, kind, at) = IF Exact(at) # {} THEN s.caps[Latest(Exact(at))].perm
                                          ELSE IF Reached(at) = {} THEN "none"
                                          ELSE s.caps[Earliest(Reached(at))].perm
  BY DEF PyPermission
<1> HIDE DEF Exact, Reached
<1>10. PyPermission(s, kind, c.at) = c.perm
  BY <1>7, <1>8, <1>9
<1>11. PyPermission(s, kind, name) = c.perm
  <2>1. CASE Exact(name) = {}
    BY <1>5, <1>8, <1>9, <2>1
  <2>2. CASE Exact(name) = {k}
    BY <1>8, <1>9, <2>2
  <2>3. QED
    BY <1>6, <2>1, <2>2
<1>12. QED
  BY <1>4, <1>5, <1>10, <1>11 DEF Reached

\* What a caller is shown is what runs for them, and the rest does not, for every registration and
\* each of its names that no other registration answers to (tools.ts:437-507,
\* 588-612; server.py:373-403).
THEOREM WhatIsListedRuns == AccessSpec => []ListedIsRunnable
<1>1. AInv => ListedIsRunnable
  <2> SUFFICES ASSUME AInv, calling # <<>> PROVE ListedIsRunnable
    BY DEF ListedIsRunnable
  <2>1. PICK p \in Policies, s \in Servers : deployed = <<p, s>>
                 /\ (tsCall # Stopped => FirstRefusal(TsServerRungs(p, s)) = "pass")
    BY DEF AInv, AnswersTheCall, BothStarted
  <2>2. PICK i \in Identities : calling[1] = i
    BY DEF AInv, AnswersTheCall
  <2> DEFINE tsPerms == Permissions("ts", p, i)
             pyPerms == Permissions("py", p, i)
             scopes == EveryScope(s)
  <2>3. ASSUME NEW k \in DOMAIN s.caps, NEW name \in NamesOf(s.caps[k]),
               \A j \in DOMAIN s.caps \ {k} : ~Same(s.caps[j], s.caps[k].kind, name)
        PROVE  /\ tsCall # Stopped /\ tsPerms # {} =>
                    (k \in TsShown(s, tsPerms)
                       <=> TsAnswers(p, s, i, Plainly(s.caps[k], name), scopes, Willing).ran = k)
               /\ pyCall # Stopped /\ pyPerms # {} =>
                    (k \in PyShown(s, pyPerms)
                       <=> PyAnswers(p, s, i, Plainly(s.caps[k], name), scopes, Willing).ran = k)
    <3> DEFINE c == s.caps[k]
               r == Plainly(c, name)
    <3>1. c.kind \in {"tool", "prompt", "resource"}
      BY ServersAssumption
    <3>2. k \in Nat /\ k # 0
      <4>1. Len(s.caps) \in Nat /\ DOMAIN s.caps = 1..Len(s.caps)
        BY ServersAssumption
      <4>2. QED
        BY <4>1
    <3>3. /\ name \in Name /\ RoutesFor(s.caps, c.kind, name) = {k}
          /\ PyPermission(s, c.kind, name) = c.perm /\ PyPermission(s, c.kind, c.at) = c.perm
      BY <2>3, AloneIsPriced
    <3>4. /\ r.post /\ r.body = "ok" /\ Preflight(r) = "pass" /\ Classified(r) = "modern"
          /\ Kind(r.method) = c.kind /\ RouteName(r) = name /\ name # "none"
      <4> HIDE DEF c
      <4>1. QED
        BY <3>1, <3>3, PlainlyIs
    <3> HIDE DEF r
    <3>5. ASSUME tsCall # Stopped, tsPerms # {}
          PROVE  k \in TsShown(s, tsPerms) <=> TsAnswers(p, s, i, r, scopes, Willing).ran = k
      <4>1. TsAnswers(p, s, i, r, scopes, Willing).ran = IF Holds(tsPerms, c.perm) THEN k ELSE 0
        <5>1. FirstRefusal(TsServerRungs(p, s)) = "pass"
          BY <2>1, <3>5
        <5>2. RoutesFor(s.caps, Kind(r.method), RouteName(r)) = {k}
          BY <3>3, <3>4
        <5>3. QED
          BY <3>2, <3>4, <3>5, <5>1, <5>2, TsPlain
      <4>2. k \in TsShown(s, tsPerms) <=> Holds(tsPerms, c.perm)
        BY DEF TsShown, Enabled
      <4> HIDE DEF tsPerms, c, scopes
      <4>3. QED
        BY <3>2, <4>1, <4>2
    <3>6. ASSUME pyPerms # {}
          PROVE  k \in PyShown(s, pyPerms) <=> PyAnswers(p, s, i, r, scopes, Willing).ran = k
      <4>1. PyAnswers(p, s, i, r, scopes, Willing).ran = IF Holds(pyPerms, c.perm) THEN k ELSE 0
        <5>1. /\ RoutesFor(s.caps, Kind(r.method), RouteName(r)) = {k}
              /\ PyPermission(s, Kind(r.method), RouteName(r)) = c.perm
          BY <3>3, <3>4
        <5>2. QED
          BY <3>2, <3>4, <3>6, <5>1, PyPlain
      <4>2. k \in PyShown(s, pyPerms) <=> Holds(pyPerms, c.perm)
        BY <3>3 DEF PyShown
      <4> HIDE DEF pyPerms, c, scopes
      <4>3. QED
        BY <3>2, <4>1, <4>2
    <3>7. QED
      BY <3>5, <3>6 DEF r
  <2>4. deployed[1] = p /\ deployed[2] = s
    BY <2>1
  <2>5. QED
    BY <2>2, <2>3, <2>4 DEF ListedIsRunnable
<1>2. QED
  BY <1>1, AInvariance, PTL

-----------------------------------------------------------------------------
(* The order of the routes.                                                *)

\* Braces are counted: every path has so many of them.
LEMMA BracesCounted ==
  ASSUME NEW path, Len(path) \in Nat, DOMAIN path = 1..Len(path)
  PROVE  Braces(path) \in Nat
<1> DEFINE B == {n \in DOMAIN path : path[n] \in {Parameter, Partly}}
<1>1. IsFiniteSet(1..Len(path)) /\ B \in SUBSET (1..Len(path))
  BY FS_Interval
<1> QED
  BY <1>1, FS_Subset, FS_CardinalityType DEF Braces

\* j is tried before k in some list of three keys.
Precedes(a, l, j, k) ==
  \/ a[j] < a[k]
  \/ a[j] = a[k] /\ l[j] > l[k]
  \/ a[j] = a[k] /\ l[j] = l[k] /\ j <= k

\* However the routes tie, one of any of them comes before all others (openapi.ts:243-247).
LEMMA FirstExists ==
  ASSUME NEW n \in Nat, NEW a \in [1..n -> Nat], NEW l \in [1..n -> Nat],
         NEW S \in SUBSET (1..n), S # {}
  PROVE  \E k \in S : \A j \in S : Precedes(a, l, k, j)
<1> DEFINE Ahead(k) == {j \in S : ~Precedes(a, l, k, j)}
<1>0. IsFiniteSet(S)
  <2>1. IsFiniteSet(1..n)
    BY FS_Interval
  <2> QED
    BY <2>1, FS_Subset
<1>1. \A k \in S : Ahead(k) \in SUBSET S /\ IsFiniteSet(Ahead(k)) /\ Cardinality(Ahead(k)) \in Nat
  BY <1>0, FS_Subset, FS_CardinalityType
<1>2. ASSUME NEW k \in S, NEW j \in Ahead(k)
      PROVE  Ahead(j) \in SUBSET Ahead(k) /\ j \notin Ahead(j)
  <2>1. /\ j \in S /\ k \in Nat /\ j \in Nat
        /\ a[k] \in Nat /\ a[j] \in Nat /\ l[k] \in Nat /\ l[j] \in Nat
    OBVIOUS
  <2>2. \A i \in S : i \in Nat /\ a[i] \in Nat /\ l[i] \in Nat
    OBVIOUS
  <2>3. ~Precedes(a, l, k, j)
    OBVIOUS
  <2>4. \A i \in S : ~Precedes(a, l, j, i) => ~Precedes(a, l, k, i)
    BY <2>1, <2>2, <2>3 DEF Precedes
  <2>5. Precedes(a, l, j, j)
    BY <2>1 DEF Precedes
  <2> QED
    BY <2>4, <2>5
<1> HIDE DEF Ahead
<1> DEFINE Counts == {Cardinality(Ahead(k)) : k \in S}
<1>3. Counts \in SUBSET Nat /\ Counts # {}
  BY <1>1
<1>4. PICK k \in S : \A j \in S : Cardinality(Ahead(k)) <= Cardinality(Ahead(j))
  <2>1. PICK m \in Counts : \A j \in Counts : m <= j
    BY <1>3, SmallestExists
  <2> QED
    BY <2>1
<1>5. Ahead(k) = {}
  <2> SUFFICES ASSUME NEW j \in Ahead(k) PROVE FALSE
    OBVIOUS
  <2>1. j \in S
    BY <1>1
  <2>2. Ahead(j) \in SUBSET Ahead(k) /\ j \notin Ahead(j)
    BY <1>2
  <2>3. /\ Cardinality(Ahead(j)) <= Cardinality(Ahead(k))
        /\ Cardinality(Ahead(k)) = Cardinality(Ahead(j)) => Ahead(k) = Ahead(j)
    BY <1>1, <2>2, FS_Subset
  <2>4. Cardinality(Ahead(j)) \in Nat /\ Cardinality(Ahead(k)) \in Nat
    BY <1>1, <2>1
  <2>5. Cardinality(Ahead(k)) = Cardinality(Ahead(j))
    BY <1>4, <2>1, <2>3, <2>4
  <2> QED
    BY <2>2, <2>3, <2>5
<1> QED
  BY <1>5 DEF Ahead

\* The operations that answer for a verb and a URL.
Fit(d, verb, url) ==
  {k \in DOMAIN d.operations : Op(d, k).verb = verb /\ PathMatches(Op(d, k).path, url)}

\* What a document's operations are measured by.
LEMMA Measures ==
  ASSUME NEW d \in Documents, NEW k \in DOMAIN d.operations
  PROVE  Op(d, k).length \in Nat /\ Braces(Op(d, k).path) \in Nat /\ k \in Nat
  BY DocumentsAssumption, BracesCounted DEF Op

\* The routes are sorted: some operation that fits comes before all others that do.
LEMMA RouteExists ==
  ASSUME NEW d \in Documents, NEW verb, NEW url, Fit(d, verb, url) # {}
  PROVE  \E k \in Fit(d, verb, url) : \A j \in Fit(d, verb, url) : Before(d, k, j)
<1> DEFINE F == Fit(d, verb, url)
           n == Len(d.operations)
           a == [k \in 1..n |-> Braces(Op(d, k).path)]
           l == [k \in 1..n |-> Op(d, k).length]
<1>1. n \in Nat /\ DOMAIN d.operations = 1..n
  BY DocumentsAssumption
<1>2. a \in [1..n -> Nat] /\ l \in [1..n -> Nat]
  BY <1>1, Measures
<1>3. F \in SUBSET (1..n) /\ F # {}
  BY <1>1 DEF Fit
<1>4. \A j, k \in 1..n : Precedes(a, l, k, j) => Before(d, k, j)
  BY DEF Precedes, Before
<1> HIDE DEF F, n, a, l
<1>5. PICK k \in F : \A j \in F : Precedes(a, l, k, j)
  BY <1>1, <1>2, <1>3, FirstExists
<1>6. \A j \in F : Before(d, k, j)
  BY <1>3, <1>4, <1>5
<1> QED
  BY <1>5, <1>6 DEF F

\* What a request is routed to answers for its verb and its URL, and nothing with fewer braces
\* was passed over.
LEMMA RoutedFits ==
  ASSUME NEW d \in Documents, NEW verb, NEW url, Routed(d, verb, url) # "none"
  PROVE  \E k \in DOMAIN d.operations :
           /\ verb \in Verbs /\ Op(d, k).id = Routed(d, verb, url)
           /\ Op(d, k).verb = verb /\ PathMatches(Op(d, k).path, url)
           /\ \A j \in DOMAIN d.operations :
                Op(d, j).verb = verb /\ PathMatches(Op(d, j).path, url)
                  => Braces(Op(d, k).path) <= Braces(Op(d, j).path)
<1> DEFINE F == Fit(d, verb, url)
           first == CHOOSE k \in F : \A j \in F : Before(d, k, j)
<1>1. /\ F # {} /\ verb \in Verbs
      /\ Routed(d, verb, url) = Op(d, first).id
  BY DEF Routed, Fit
<1>2. first \in F /\ \A j \in F : Before(d, first, j)
  BY <1>1, RouteExists
<1> HIDE DEF first
<1>3. /\ first \in DOMAIN d.operations
      /\ Op(d, first).verb = verb /\ PathMatches(Op(d, first).path, url)
  BY <1>2 DEF Fit
<1>4. ASSUME NEW j \in DOMAIN d.operations,
             Op(d, j).verb = verb, PathMatches(Op(d, j).path, url)
      PROVE  Braces(Op(d, first).path) <= Braces(Op(d, j).path)
  <2>1. Before(d, first, j)
    BY <1>2, <1>4 DEF Fit
  <2>2. Braces(Op(d, first).path) \in Nat /\ Braces(Op(d, j).path) \in Nat
    BY <1>3, <1>4, Measures
  <2> QED
    BY <2>1, <2>2 DEF Before
<1> QED
  BY <1>1, <1>3, <1>4

\* Where one operation alone answers, a request is routed to it.
LEMMA RoutedAlone ==
  ASSUME NEW d \in Documents, NEW verb \in Verbs, NEW url, NEW k \in DOMAIN d.operations,
         Op(d, k).verb = verb, PathMatches(Op(d, k).path, url),
         \A j \in DOMAIN d.operations :
           Op(d, j).verb = verb /\ PathMatches(Op(d, j).path, url) => j = k
  PROVE  Routed(d, verb, url) = Op(d, k).id
<1> DEFINE F == Fit(d, verb, url)
           first == CHOOSE i \in F : \A j \in F : Before(d, i, j)
<1>1. F = {k}
  BY DEF Fit
<1>2. Routed(d, verb, url) = Op(d, first).id
  BY <1>1 DEF Routed, Fit
<1>3. first \in F
  BY <1>1, RouteExists
<1> QED
  BY <1>1, <1>2, <1>3

-----------------------------------------------------------------------------
(* The document and the gate.                                              *)

\* The gate has not started, or has, with a document it boots with.
Started == document = <<>> \/ \E d \in Documents : OaBoots(d) /\ document = <<d>>

\* Only starting brings a document.
LEMMA OneStart == Started /\ [OaNext]_oaVars => Started'
<1> SUFFICES ASSUME Started, [OaNext]_oaVars PROVE Started'
  OBVIOUS
<1>1. ASSUME NEW d \in Documents, OaStart(d) PROVE Started'
  BY <1>1 DEF OaStart, Started
<1>2. ASSUME UNCHANGED document PROVE Started'
  BY <1>2 DEF Started
<1>3. ASSUME NEW c \in OaCalls, NEW lang \in {"ts", "py"}, NEW r \in Requests, OaArrives(c, lang, r)
      PROVE  UNCHANGED document
  BY <1>3 DEF OaArrives
<1>4. ASSUME NEW c \in OaCalls, OaStep(c) \/ OaCancelled(c) PROVE UNCHANGED document
  <2>1. ASSUME NEW b \in BOOLEAN, OaDecides(c, b) \/ OaAttempts(c, b) \/ OaDelivers(c, b)
        PROVE  UNCHANGED document
    BY <2>1 DEF OaDecides, OaAttempts, OaDelivers, OaMoves
  <2>2. ASSUME NEW code, OaRuns(c, code) PROVE UNCHANGED document
    BY <2>2 DEF OaRuns, OaMoves
  <2>3. ASSUME OaThrows(c) \/ OaCancelled(c) PROVE UNCHANGED document
    BY <2>3 DEF OaThrows, OaCancelled, OaMoves
  <2> QED
    BY <1>4, <2>1, <2>2, <2>3 DEF OaStep
<1>5. CASE UNCHANGED oaVars
  BY <1>2, <1>5 DEF oaVars
<1> QED
  BY <1>1, <1>2, <1>3, <1>4, <1>5 DEF OaNext

\* What is booted filters its document by what the gate asks (openapi.ts:226-256, 309-335).
LEMMA StartedAgrees == Started => DocumentMatchesGate
<1>1. ASSUME NEW d \in Documents, OaBoots(d), NEW k \in DOMAIN d.operations,
             Op(d, k).verb \in Verbs, NEW perms, perms # {}, NEW u, u # SpecPath,
             PathMatches(Op(d, k).path, u),
             \A j \in DOMAIN d.operations :
               Op(d, j).verb = Op(d, k).verb /\ PathMatches(Op(d, j).path, u) => j = k
      PROVE  OaDecision(d, [verb |-> Op(d, k).verb, url |-> u, perms |-> perms]) = "allow"
               <=> Op(d, k).id \in FilterSpec(d, perms)
  <2> DEFINE r == [verb |-> Op(d, k).verb, url |-> u, perms |-> perms]
             id == Op(d, k).id
  <2>1. Routed(d, Op(d, k).verb, u) = id
    BY <1>1, RoutedAlone
  <2>2. id # "none" /\ id \in DOMAIN d.prices
    BY <1>1 DEF OaBoots
  <2>3. r.verb = Op(d, k).verb /\ r.url = u /\ r.perms = perms
    OBVIOUS
  <2> HIDE DEF r, id
  <2>4. OaDecision(d, r) = "allow" <=> Affords(perms, d.prices[id])
    BY <1>1, <2>1, <2>2, <2>3 DEF OaDecision
  <2>5. id \in FilterSpec(d, perms) <=> Affords(perms, d.prices[id])
    BY <2>2 DEF FilterSpec
  <2> QED
    BY <2>4, <2>5 DEF r, id
<1> SUFFICES ASSUME Started, document # <<>> PROVE DocumentMatchesGate
  BY DEF DocumentMatchesGate
<1>2. PICK d \in Documents : OaBoots(d) /\ document = <<d>>
  BY DEF Started
<1>3. document[1] = d
  BY <1>2
<1> QED
  BY <1>1, <1>2, <1>3 DEF DocumentMatchesGate, UrlsOf

\* The document a caller is served and the gate agree, operation by operation, on every URL that
\* is one operation's alone: for any documents, prices and callers (openapi.ts:226-256, 309-335).
THEOREM ServedIsGated == OaSpec => []DocumentMatchesGate
<1>1. OaInit => Started
  BY DEF OaInit, Started
<1>2. Started /\ [OaNext]_oaVars => Started'
  BY OneStart
<1> QED
  BY <1>1, <1>2, StartedAgrees, PTL DEF OaSpec

-----------------------------------------------------------------------------
(* A request on its way through the gate.                                  *)

\* The trails a call may have.
Begun == <<"attempt">>
Closed(phase) == <<"attempt", phase>>
Ends == {"success", "failure"}
Trails == {<<>>, Begun} \cup {Closed(phase) : phase \in Ends}

\* What a request may be routed to.
Routes == {"none"} \cup UNION {{Op(d, k).id : k \in DOMAIN d.operations} : d \in Documents}

\* The statuses a call may end with, and 0 before it has one.
Statuses == {0, 200, 302, 401, 403, 404, 500, 503}

\* The record of a call.
OaRecord ==
  [at : {"absent", "deciding", "recording", "upstream", "delivering", "failing", "answered", "cancelled"},
   lang : {"ts", "py"}, request : {<<>>} \cup {<<r>> : r \in Requests}, operation : Routes,
   decision : {"none", "document", "no_such_operation", "not_permitted", "allow"},
   trail : Trails, status : Statuses]

\* Until its attempt is written a call has no trail, and until the API came to something no status.
Staged(r) ==
  /\ r.at \in {"absent", "deciding", "recording"} => r.trail = <<>> /\ r.status = 0
  /\ r.at = "upstream" => r.trail = Begun /\ r.status = 0
  /\ r.at \in {"delivering", "failing"} => r.trail = Begun /\ r.status # 0
  /\ r.at = "failing" => r.status = 500
  /\ r.at = "answered" => r.status # 0
  /\ r.at = "cancelled" => r.trail \in {<<>>, Begun}

\* The end on record, where there is one, is that of the status.
Truthful(r) ==
  /\ r.trail = Closed("success") => r.status < 400
  /\ r.trail = Closed("failure") => r.status \notin 200..299

\* A call waits for its own decision, and goes on only where that allowed it.
Decided(r) ==
  /\ r.at = "deciding" => r.decision # "none"
  /\ r.at \in {"recording", "upstream", "delivering", "failing"} \/ r.trail # <<>> => r.decision = "allow"

\* Who is allowed is so for what the request was routed to.
Routing(r) ==
  r.decision = "allow" =>
    \E d \in Documents, q \in Requests :
      /\ document = <<d>> /\ OaBoots(d) /\ r.request = <<q>> /\ q.carries = "token"
      /\ OaDecision(d, q) = "allow" /\ r.operation = Routed(d, q.verb, q.url)

CallSound(r) == r \in OaRecord /\ Staged(r) /\ Truthful(r) /\ Decided(r) /\ Routing(r)
OaInv == Started /\ oa \in [OaCalls -> OaRecord] /\ \A c \in OaCalls : CallSound(oa[c])

\* What the gate does to one call is a step of that call's record.
Stepped(c) == \E r \in OaRecord : CallSound(r) /\ oa' = [oa EXCEPT ![c] = r]

\* The trails are told apart.
LEMMA TrailsDiffer ==
  /\ <<>> # Begun /\ Len(Begun) = 1 /\ Len(<<>>) = 0
  /\ \A phase \in Ends : /\ Closed(phase) # <<>> /\ Closed(phase) # Begun
                          /\ Len(Closed(phase)) = 2 /\ Closed(phase)[2] = phase
                          /\ Append(Begun, phase) = Closed(phase)
  /\ Closed("success") # Closed("failure")
<1>1. <<>> # Begun /\ Len(Begun) = 1 /\ Len(<<>>) = 0
  BY DEF Begun
<1>2. ASSUME NEW phase \in Ends
      PROVE  Len(Closed(phase)) = 2 /\ Closed(phase)[2] = phase
  BY DEF Closed
<1>3. \A phase \in Ends : Closed(phase) # <<>> /\ Closed(phase) # Begun
  BY <1>1, <1>2
<1>4. \A phase \in Ends : Append(Begun, phase) = Closed(phase)
  <2> TAKE phase \in Ends
  <2> DEFINE Events == Ends \cup {"attempt"}
  <2>0. phase \in Events /\ "attempt" \in Events
    OBVIOUS
  <2> HIDE DEF Events
  <2>1. Begun \in Seq(Events) /\ Closed(phase) \in Seq(Events)
    BY <2>0 DEF Begun, Closed
  <2>2. Begun[1] = "attempt" /\ Closed(phase)[1] = "attempt"
    BY DEF Begun, Closed
  <2> DEFINE s == Append(Begun, phase)
  <2>3. s \in Seq(Events) /\ Len(s) = 2 /\ s[1] = "attempt" /\ s[2] = phase
    <3>1. /\ s \in Seq(Events) /\ Len(s) = Len(Begun) + 1
          /\ \A i \in 1..Len(Begun) : s[i] = Begun[i]
          /\ s[Len(Begun) + 1] = phase
      BY <2>0, <2>1, AppendProperties
    <3> HIDE DEF s
    <3> QED
      BY <1>1, <2>2, <3>1
  <2> HIDE DEF s
  <2>4. s = Closed(phase)
    BY <1>2, <2>1, <2>2, <2>3, SeqEqual
  <2> QED
    BY <2>4 DEF s
<1>5. Closed("success")[2] # Closed("failure")[2]
  BY <1>2 DEF Ends
<1> QED
  BY <1>1, <1>2, <1>3, <1>4, <1>5

\* What a request is routed to is a name its document gives, or none.
LEMMA RoutedNamed ==
  ASSUME NEW d \in Documents, NEW verb, NEW url
  PROVE  Routed(d, verb, url) \in Routes
<1>1. CASE Routed(d, verb, url) = "none"
  BY <1>1 DEF Routes
<1>2. CASE Routed(d, verb, url) # "none"
  BY <1>2, RoutedFits DEF Routes
<1> QED
  BY <1>1, <1>2

\* The decision is one of four.
LEMMA DecisionNamed ==
  ASSUME NEW d, NEW r
  PROVE  OaDecision(d, r) \in {"document", "no_such_operation", "not_permitted", "allow"}
  BY DEF OaDecision

\* The gate starts with no call.
LEMMA OaStartsSound == OaInit => OaInv
<1> SUFFICES ASSUME OaInit PROVE OaInv
  OBVIOUS
<1>1. Absent \in OaRecord
  BY DEF Absent, OaRecord, Routes, Trails, Statuses
<1>2. Staged(Absent) /\ Truthful(Absent) /\ Decided(Absent) /\ Routing(Absent)
  BY TrailsDiffer DEF Absent, Staged, Truthful, Decided, Routing
<1> QED
  BY <1>1, <1>2 DEF OaInit, OaInv, Started, CallSound

\* A request that arrives is answered at once, or awaits its decision.
LEMMA ArrivalSound ==
  ASSUME NEW c \in OaCalls, NEW lang \in {"ts", "py"}, NEW q \in Requests, OaInv,
         OaArrives(c, lang, q)
  PROVE  Stepped(c)
<1>1. PICK d \in Documents : OaBoots(d) /\ document = <<d>> /\ document[1] = d
  BY DEF OaInv, Started, OaArrives
<1> DEFINE decided == OaDecision(d, q)
           routed == Routed(d, q.verb, q.url)
           token == q.carries = "token"
           code == CASE q.carries = "metadata" -> 200 [] q.carries = "foreign" -> 404
                       [] q.carries = "nothing" -> 401 [] q.carries = "token" -> 0
           at == IF token THEN "deciding" ELSE "answered"
           operation == IF token /\ decided = "allow" THEN routed ELSE "none"
           decision == IF token THEN decided ELSE "none"
           r == [at |-> at, lang |-> lang, request |-> <<q>>, operation |-> operation,
                 decision |-> decision, trail |-> <<>>, status |-> code]
<1>2. oa' = [oa EXCEPT ![c] = r]
  BY <1>1 DEF OaArrives, Absent
<1>3. /\ code \in Statuses /\ (token => code = 0) /\ (~token => code # 0)
  BY RequestsAssumption DEF Statuses
<1>4. decided \in {"document", "no_such_operation", "not_permitted", "allow"}
  BY DecisionNamed
<1>5. operation \in Routes
  BY RoutedNamed DEF Routes
<1> HIDE DEF decided, routed, token, code
<1>6. r \in OaRecord
  <2>1. <<>> \in Trails
    BY DEF Trails
  <2> HIDE DEF operation
  <2> QED
    BY <1>3, <1>4, <1>5, <2>1 DEF OaRecord
<1>7. Staged(r)
  BY <1>3 DEF Staged
<1>8. Truthful(r)
  BY TrailsDiffer DEF Truthful, Ends
<1>9. Decided(r)
  BY <1>4 DEF Decided
<1>10. Routing(r)
  <2>1. r.decision = "allow" => token /\ decided = "allow" /\ r.operation = routed
    OBVIOUS
  <2>2. r.request = <<q>>
    OBVIOUS
  <2> HIDE DEF r
  <2> QED
    BY <1>1, <2>1, <2>2 DEF Routing, decided, routed, token
<1> HIDE DEF r
<1> QED
  BY <1>2, <1>6, <1>7, <1>8, <1>9, <1>10 DEF Stepped, CallSound

\* What stays of a call that goes on: what was asked, and what was decided of it.
SameAsk(r, s) ==
  /\ r.lang = s.lang /\ r.request = s.request /\ r.operation = s.operation /\ r.decision = s.decision

\* A call that goes on is routed as it was.
LEMMA RoutingKeeps ==
  ASSUME NEW r, NEW s, SameAsk(s, r), Routing(r)
  PROVE  Routing(s)
  BY DEF SameAsk, Routing

\* A call that goes on gets the stage, the trail and the status of its step.
Moving(r, at, trail, code) == [r EXCEPT !.at = at, !.trail = trail, !.status = code]

\* So it stays a call, and the one that was asked.
LEMMA NextRecord ==
  ASSUME NEW r \in OaRecord, NEW trail \in Trails, NEW code \in Statuses,
         NEW at \in {"absent", "deciding", "recording", "upstream", "delivering", "failing",
                     "answered", "cancelled"}
  PROVE  /\ Moving(r, at, trail, code) \in OaRecord
         /\ Moving(r, at, trail, code).at = at
         /\ Moving(r, at, trail, code).trail = trail
         /\ Moving(r, at, trail, code).status = code
         /\ SameAsk(Moving(r, at, trail, code), r)
  BY DEF OaRecord, SameAsk, Moving

\* What a step of a call makes of its record.
LEMMA MovesTo ==
  ASSUME OaInv, NEW c \in OaCalls, NEW trail \in Trails, NEW code \in Statuses,
         NEW at \in {"recording", "upstream", "delivering", "failing", "answered", "cancelled"},
         OaMoves(c, at, trail, code)
  PROVE  \E s \in OaRecord :
           /\ s.at = at /\ s.trail = trail /\ s.status = code
           /\ SameAsk(s, oa[c]) /\ Routing(s) /\ oa' = [oa EXCEPT ![c] = s]
<1> DEFINE r == oa[c]
           s == Moving(r, at, trail, code)
<1>1. r \in OaRecord /\ Routing(r)
  BY DEF OaInv, CallSound
<1>2. oa' = [oa EXCEPT ![c] = s]
  BY DEF OaMoves, Moving
<1> HIDE DEF r
<1>a. at \in {"absent", "deciding", "recording", "upstream", "delivering", "failing", "answered", "cancelled"}
  OBVIOUS
<1>3. s \in OaRecord /\ s.at = at /\ s.trail = trail /\ s.status = code
  <2>1. s \in OaRecord
    BY <1>1, <1>a, NextRecord, ZenonT(30)
  <2>2. s.at = at
    BY <1>1 DEF Moving, OaRecord
  <2>3. s.trail = trail
    BY <1>1 DEF Moving, OaRecord
  <2>4. s.status = code
    BY <1>1 DEF Moving, OaRecord
  <2> QED
    BY <2>1, <2>2, <2>3, <2>4
<1>4. SameAsk(s, r)
  BY <1>1, <1>a, NextRecord, ZenonT(30)
<1> HIDE DEF s
<1>5. Routing(s)
  BY <1>1, <1>4, RoutingKeeps
<1> QED
  BY <1>2, <1>3, <1>4, <1>5 DEF r

\* A call whose record is sound gets a sound one, in every step of the gate, the API and the sink.
LEMMA CallStepSound ==
  ASSUME NEW c \in OaCalls, OaInv, OaStep(c) \/ OaCancelled(c)
  PROVE  Stepped(c)
<1> DEFINE r == oa[c]
<1>0. /\ r \in OaRecord /\ Staged(r) /\ Truthful(r) /\ Decided(r)
      /\ r.trail \in Trails /\ r.status \in Statuses /\ <<>> \in Trails /\ Begun \in Trails
      /\ \A phase \in Ends : Closed(phase) \in Trails
  BY DEF OaInv, CallSound, OaRecord, Trails
<1>1. ASSUME NEW taken \in BOOLEAN, OaDecides(c, taken) PROVE Stepped(c)
  <2> DEFINE at == IF taken /\ r.decision = "allow" THEN "recording" ELSE "answered"
             code == CASE ~taken -> 500
                         [] taken /\ r.decision = "document" -> 200
                         [] taken /\ r.decision = "no_such_operation" -> 404
                         [] taken /\ r.decision = "not_permitted" -> 403
                         [] taken /\ r.decision = "allow" -> 0
  <2>1. r.at = "deciding" /\ OaMoves(c, at, r.trail, code)
    BY <1>1 DEF OaDecides
  <2>2. /\ r.trail = <<>> /\ code \in Statuses
        /\ at = "recording" => code = 0 /\ r.decision = "allow"
        /\ at = "answered" => code # 0
        /\ at \in {"recording", "answered"}
    BY <1>0, <2>1 DEF OaRecord, Staged, Decided, Statuses
  <2> HIDE DEF at, code, r
  <2>3. PICK s \in OaRecord : /\ s.at = at /\ s.trail = r.trail /\ s.status = code
                              /\ SameAsk(s, r) /\ Routing(s) /\ oa' = [oa EXCEPT ![c] = s]
    BY <1>0, <2>1, <2>2, MovesTo DEF r
  <2>4. Staged(s) /\ Truthful(s) /\ Decided(s)
    BY <2>2, <2>3, TrailsDiffer DEF Staged, Truthful, Decided, SameAsk, Ends
  <2> QED
    BY <2>3, <2>4 DEF Stepped, CallSound
<1>2. ASSUME NEW written \in BOOLEAN, OaAttempts(c, written) PROVE Stepped(c)
  <2>1. r.decision = "allow" /\ r.at = "recording"
    BY <1>0, <1>2 DEF OaAttempts, Decided
  <2>2. CASE OaMoves(c, "upstream", <<"attempt">>, 0)
    <3>1. PICK s \in OaRecord : /\ s.at = "upstream" /\ s.trail = Begun /\ s.status = 0
                                /\ SameAsk(s, r) /\ Routing(s) /\ oa' = [oa EXCEPT ![c] = s]
      BY <1>0, <2>2, MovesTo DEF Begun, Statuses
    <3>2. Staged(s) /\ Truthful(s) /\ Decided(s)
      BY <2>1, <3>1, TrailsDiffer DEF Staged, Truthful, Decided, SameAsk, Ends
    <3> QED
      BY <3>1, <3>2 DEF Stepped, CallSound
  <2>3. CASE OaMoves(c, "answered", <<>>, 503)
    <3>1. PICK s \in OaRecord : /\ s.at = "answered" /\ s.trail = <<>> /\ s.status = 503
                                /\ SameAsk(s, r) /\ Routing(s) /\ oa' = [oa EXCEPT ![c] = s]
      BY <1>0, <2>3, MovesTo DEF Statuses
    <3>2. Staged(s) /\ Truthful(s) /\ Decided(s)
      BY <2>1, <3>1, TrailsDiffer DEF Staged, Truthful, Decided, SameAsk, Ends
    <3> QED
      BY <3>1, <3>2 DEF Stepped, CallSound
  <2> QED
    BY <1>2, <2>2, <2>3 DEF OaAttempts
<1>3. ASSUME NEW at \in {"delivering", "failing"}, NEW code \in Statuses \ {0}, r.at = "upstream",
             OaMoves(c, at, r.trail, code), at = "failing" => code = 500
      PROVE  Stepped(c)
  <2>1. r.trail = Begun /\ r.decision = "allow"
    BY <1>0, <1>3 DEF Staged, Decided
  <2> HIDE DEF r
  <2>2. PICK s \in OaRecord : /\ s.at = at /\ s.trail = r.trail /\ s.status = code
                              /\ SameAsk(s, r) /\ Routing(s) /\ oa' = [oa EXCEPT ![c] = s]
    BY <1>0, <1>3, MovesTo DEF r
  <2>3. Staged(s) /\ Truthful(s) /\ Decided(s)
    BY <1>3, <2>1, <2>2, TrailsDiffer DEF Staged, Truthful, Decided, SameAsk, Ends
  <2> QED
    BY <2>2, <2>3 DEF Stepped, CallSound
<1>4. ASSUME NEW code \in {200, 302, 404}, OaRuns(c, code) PROVE Stepped(c)
  BY <1>3, <1>4 DEF OaRuns, Statuses
<1>5. CASE OaThrows(c)
  BY <1>3, <1>5 DEF OaThrows, Statuses
<1>6. ASSUME NEW written \in BOOLEAN, OaDelivers(c, written) PROVE Stepped(c)
  <2> DEFINE phase == IF r.at = "delivering" /\ Succeeds(r.lang, r.status) THEN "success" ELSE "failure"
             trail == IF written THEN Append(r.trail, phase) ELSE r.trail
  <2>1. r.at \in {"delivering", "failing"} /\ OaMoves(c, "answered", trail, r.status)
    BY <1>6 DEF OaDelivers
  <2>2. /\ r.trail = Begun /\ r.status # 0 /\ r.decision = "allow" /\ phase \in Ends
        /\ r.at = "failing" => r.status = 500
    BY <1>0, <2>1 DEF Staged, Decided, Ends
  <2>3. trail = (IF written THEN Closed(phase) ELSE Begun) /\ trail \in Trails
    <3> HIDE DEF phase, r
    <3>1. Append(r.trail, phase) = Closed(phase) /\ Closed(phase) \in Trails /\ r.trail = Begun
      BY <1>0, <2>2, TrailsDiffer
    <3>2. CASE written
      BY <3>1, <3>2
    <3>3. CASE ~written
      BY <1>0, <3>1, <3>3
    <3> QED
      BY <3>2, <3>3
  <2>4. /\ phase = "success" => r.status < 400
        /\ phase = "failure" => r.status \notin 200..299
    <3> DEFINE done == Succeeds(r.lang, r.status)
    <3>1. /\ done => r.status < 400
          /\ ~done => r.status \notin 200..299
      <4>1. r.lang \in {"ts", "py"} /\ r.status \in Nat
        BY <1>0 DEF OaRecord, Statuses
      <4> HIDE DEF r
      <4> QED
        BY <4>1 DEF Succeeds
    <3>2. 500 \notin 200..299
      OBVIOUS
    <3> HIDE DEF done
    <3>3. phase = IF r.at = "delivering" /\ done THEN "success" ELSE "failure"
      BY DEF done
    <3> HIDE DEF phase, r
    <3> QED
      BY <2>1, <2>2, <3>1, <3>2, <3>3
  <2> HIDE DEF phase, trail, r
  <2>5. PICK s \in OaRecord : /\ s.at = "answered" /\ s.trail = trail /\ s.status = r.status
                              /\ SameAsk(s, r) /\ Routing(s) /\ oa' = [oa EXCEPT ![c] = s]
    BY <1>0, <2>1, <2>3, MovesTo DEF r
  <2>6. Staged(s) /\ Decided(s)
    BY <2>2, <2>5 DEF Staged, Decided, SameAsk
  <2>7. Truthful(s)
    <3>1. CASE written
      <4>1. s.trail = Closed("success") => phase = "success"
        BY <2>2, <2>3, <2>5, <3>1, TrailsDiffer DEF Ends
      <4>2. s.trail = Closed("failure") => phase = "failure"
        BY <2>2, <2>3, <2>5, <3>1, TrailsDiffer DEF Ends
      <4> QED
        BY <2>4, <2>5, <4>1, <4>2 DEF Truthful
    <3>2. CASE ~written
      BY <2>3, <2>5, <3>2, TrailsDiffer DEF Truthful, Ends
    <3> QED
      BY <3>1, <3>2
  <2> QED
    BY <2>5, <2>6, <2>7 DEF Stepped, CallSound
<1>7. CASE OaCancelled(c)
  <2>1. /\ r.at \in {"deciding", "recording", "upstream", "delivering", "failing"}
        /\ OaMoves(c, "cancelled", r.trail, r.status)
    BY <1>7 DEF OaCancelled
  <2>2. r.trail \in {<<>>, Begun} /\ (r.trail # <<>> => r.decision = "allow")
    BY <1>0, <2>1 DEF Staged, Decided
  <2> HIDE DEF r
  <2>3. PICK s \in OaRecord : /\ s.at = "cancelled" /\ s.trail = r.trail /\ s.status = r.status
                              /\ SameAsk(s, r) /\ Routing(s) /\ oa' = [oa EXCEPT ![c] = s]
    BY <1>0, <2>1, MovesTo DEF r
  <2>4. Staged(s) /\ Truthful(s) /\ Decided(s)
    BY <2>2, <2>3, TrailsDiffer DEF Staged, Truthful, Decided, SameAsk, Ends
  <2> QED
    BY <2>3, <2>4 DEF Stepped, CallSound
<1> QED
  BY <1>1, <1>2, <1>4, <1>5, <1>6, <1>7 DEF OaStep

\* Every step keeps the invariant, of the call that takes it and of the others.
LEMMA OaStepSound == OaInv /\ [OaNext]_oaVars => OaInv'
<1> SUFFICES ASSUME OaInv, [OaNext]_oaVars PROVE OaInv'
  OBVIOUS
<1>0. Started'
  BY OneStart DEF OaInv
<1>1. ASSUME NEW c \in OaCalls, UNCHANGED document, Stepped(c) PROVE OaInv'
  <2>1. PICK r \in OaRecord : CallSound(r) /\ oa' = [oa EXCEPT ![c] = r]
    BY <1>1 DEF Stepped
  <2>2. oa' \in [OaCalls -> OaRecord] /\ \A d \in OaCalls : oa'[d] = IF d = c THEN r ELSE oa[d]
    BY <2>1 DEF OaInv
  <2>3. \A s : CallSound(s) => CallSound(s)'
    BY <1>1 DEF CallSound, Routing
  <2>4. \A d \in OaCalls : CallSound(oa'[d])
    BY <2>1, <2>2 DEF OaInv
  <2>5. \A d \in OaCalls : CallSound(oa[d])'
    BY <1>1, <2>4 DEF CallSound, Routing
  <2> QED
    BY <1>0, <2>2, <2>5 DEF OaInv
<1>2. ASSUME NEW d \in Documents, OaStart(d) PROVE OaInv'
  <2>1. document = <<>> /\ UNCHANGED oa
    BY <1>2 DEF OaStart
  <2>2. \A c \in OaCalls : oa[c].decision # "allow"
    <3>1. \A e \in Documents : document # <<e>>
      BY <2>1
    <3> QED
      BY <3>1 DEF OaInv, CallSound, Routing
  <2>3. \A c \in OaCalls : CallSound(oa[c])'
    BY <2>1, <2>2 DEF OaInv, CallSound, Routing
  <2> QED
    BY <1>0, <2>1, <2>3 DEF OaInv
<1>3. CASE UNCHANGED oaVars
  BY <1>0, <1>3 DEF OaInv, CallSound, Routing, oaVars
<1>4. ASSUME NEW c \in OaCalls, NEW lang \in {"ts", "py"}, NEW r \in Requests, OaArrives(c, lang, r)
      PROVE  OaInv'
  BY <1>1, <1>4, ArrivalSound DEF OaArrives
<1>5. ASSUME NEW c \in OaCalls, OaStep(c) \/ OaCancelled(c) PROVE OaInv'
  <2>1. UNCHANGED document
    BY <1>5 DEF OaStep, OaDecides, OaAttempts, OaRuns, OaThrows, OaDelivers, OaCancelled, OaMoves
  <2> QED
    BY <1>1, <1>5, <2>1, CallStepSound
<1> QED
  BY <1>2, <1>3, <1>4, <1>5 DEF OaNext

\* The invariant holds always.
THEOREM OaInvariance == OaSpec => []OaInv
  BY OaStartsSound, OaStepSound, PTL DEF OaSpec

-----------------------------------------------------------------------------
\* So what is under way was allowed for an operation its caller can pay.
LEMMA ReachesAreBacked == OaInv => ReachedIsPriced
<1>1. ASSUME OaInv, NEW c \in OaCalls,
             oa[c].trail # <<>> \/ oa[c].at \in {"upstream", "delivering", "failing"}
      PROVE  LET d == document[1]
                 r == oa[c].request[1]
             IN  /\ oa[c].decision = "allow" /\ r.carries = "token"
                 /\ {"*", d.prices[oa[c].operation]} \cap r.perms # {}
                 /\ \E k \in DOMAIN d.operations :
                      /\ Op(d, k).id = oa[c].operation /\ Op(d, k).verb = r.verb
                      /\ PathMatches(Op(d, k).path, r.url)
                      /\ \A j \in DOMAIN d.operations :
                           Op(d, j).verb = r.verb /\ PathMatches(Op(d, j).path, r.url)
                             => Braces(Op(d, k).path) <= Braces(Op(d, j).path)
  <2>1. oa[c].decision = "allow"
    BY <1>1 DEF OaInv, CallSound, Decided
  <2>2. PICK d \in Documents, q \in Requests :
          /\ document = <<d>> /\ OaBoots(d) /\ oa[c].request = <<q>> /\ q.carries = "token"
          /\ OaDecision(d, q) = "allow" /\ oa[c].operation = Routed(d, q.verb, q.url)
    BY <1>1, <2>1 DEF OaInv, CallSound, Routing
  <2>3. document[1] = d /\ oa[c].request[1] = q
    BY <2>2
  <2>4. Routed(d, q.verb, q.url) # "none" /\ Affords(q.perms, d.prices[oa[c].operation])
    BY <2>2 DEF OaDecision
  <2>5. {"*", d.prices[oa[c].operation]} \cap q.perms # {}
    BY <2>4 DEF Affords
  <2>6. \E k \in DOMAIN d.operations :
          /\ Op(d, k).id = oa[c].operation /\ Op(d, k).verb = q.verb
          /\ PathMatches(Op(d, k).path, q.url)
          /\ \A j \in DOMAIN d.operations :
               Op(d, j).verb = q.verb /\ PathMatches(Op(d, j).path, q.url)
                 => Braces(Op(d, k).path) <= Braces(Op(d, j).path)
    BY <2>2, <2>4, RoutedFits
  <2> QED
    BY <2>1, <2>2, <2>3, <2>5, <2>6
<1> QED
  BY <1>1 DEF ReachedIsPriced

\* What reaches the API was allowed for an operation its caller can pay, and none with fewer
\* parameters that also answers was passed over: for any document the gate boots with and any
\* request, in both languages (openapi.ts:243-247, 294-325; openapi.py:243-248, 316-348).
THEOREM ReachesArePriced == OaSpec => []ReachedIsPriced
  BY ReachesAreBacked, OaInvariance, PTL

-----------------------------------------------------------------------------
(* The audit trail.                                                        *)

\* What the trail's reader sees of a call.
HasRun(r) == r.at \in {"delivering", "failing"} \/ (r.trail # <<>> /\ r.status # 0)
EndOf(r) == IF Len(r.trail) = 2 THEN r.trail[2] ELSE "none"

\* A step that leaves each call as its reader sees it is none of the trail's.
LEMMA Unseen ==
  ASSUME \A d \in OaCalls : /\ (oa'[d].trail # <<>>) <=> (oa[d].trail # <<>>)
                            /\ HasRun(oa'[d]) <=> HasRun(oa[d])
                            /\ EndOf(oa'[d]) = EndOf(oa[d])
  PROVE  UNCHANGED Trail!vars
<1>1. [c \in OaCalls |-> oa[c].trail # <<>>]' = [c \in OaCalls |-> oa[c].trail # <<>>]
  <2>1. \A d \in OaCalls : (oa'[d].trail # <<>>) = (oa[d].trail # <<>>)
    OBVIOUS
  <2> QED
    BY <2>1, Zenon
<1>2. [c \in OaCalls |-> HasRun(oa[c])]' = [c \in OaCalls |-> HasRun(oa[c])]
  <2>1. \A d \in OaCalls : HasRun(oa'[d]) = HasRun(oa[d])
    BY DEF HasRun
  <2> QED
    BY <2>1, Zenon
<1>3. [c \in OaCalls |-> EndOf(oa[c])]' = [c \in OaCalls |-> EndOf(oa[c])]
  BY Zenon
<1> QED
  BY <1>1, <1>2, <1>3 DEF Trail!vars, HasRun, EndOf

\* How each trail ends.
LEMMA EndsOf ==
  ASSUME NEW r
  PROVE  /\ r.trail \in {<<>>, Begun} => EndOf(r) = "none"
         /\ \A phase \in Ends : r.trail = Closed(phase) => EndOf(r) = phase
  BY TrailsDiffer DEF EndOf

\* A step of one call leaves the others as they were.
LEMMA OnlyThis ==
  ASSUME OaInv, NEW c \in OaCalls, NEW s, oa' = [oa EXCEPT ![c] = s]
  PROVE  \A d \in OaCalls : oa'[d] = IF d = c THEN s ELSE oa[d]
  BY DEF OaInv

\* A step of one call that its reader does not see.
LEMMA UnseenMove ==
  ASSUME OaInv, NEW c \in OaCalls, NEW s, oa' = [oa EXCEPT ![c] = s],
         s.trail = oa[c].trail, HasRun(s) <=> HasRun(oa[c])
  PROVE  UNCHANGED Trail!vars
<1>1. EndOf(s) = EndOf(oa[c])
  BY DEF EndOf
<1> QED
  BY <1>1, OnlyThis, Unseen

\* Every step of the gate is a step of the trail, or none of its reader's business: the API is
\* called after the attempt is on record, and its end is written once.
LEMMA OaStepOfTrail == OaInv /\ [OaNext]_oaVars => [Trail!Next]_(Trail!vars)
<1> SUFFICES ASSUME OaInv, [OaNext]_oaVars PROVE [Trail!Next]_(Trail!vars)
  OBVIOUS
<1>0. ASSUME NEW c \in OaCalls
      PROVE  /\ oa[c] \in OaRecord /\ oa[c].trail \in Trails /\ oa[c].status \in Statuses
             /\ Staged(oa[c]) /\ <<>> \in Trails /\ Begun \in Trails
             /\ \A phase \in Ends : Closed(phase) \in Trails
  BY DEF OaInv, CallSound, OaRecord, Trails
<1>1. ASSUME UNCHANGED oa PROVE UNCHANGED Trail!vars
  BY <1>1, Unseen
<1>2. ASSUME NEW c \in OaCalls, NEW lang \in {"ts", "py"}, NEW q \in Requests, OaArrives(c, lang, q)
      PROVE  UNCHANGED Trail!vars
  <2>1. oa[c].trail = <<>> /\ ~HasRun(oa[c])
    BY <1>2 DEF OaArrives, Absent, HasRun
  <2> DEFINE s == oa'[c]
  <2>2. s.trail = <<>> /\ s.at \in {"deciding", "answered"}
    BY <1>2 DEF OaArrives, OaInv
  <2>3. oa' = [oa EXCEPT ![c] = s]
    BY <1>2 DEF OaArrives, OaInv
  <2> HIDE DEF s
  <2>4. ~HasRun(s)
    BY <2>2 DEF HasRun
  <2> QED
    BY <2>1, <2>2, <2>3, <2>4, UnseenMove
<1>3. ASSUME NEW c \in OaCalls, NEW taken \in BOOLEAN, OaDecides(c, taken)
      PROVE  UNCHANGED Trail!vars
  <2> DEFINE code == CASE ~taken -> 500
                         [] taken /\ oa[c].decision = "document" -> 200
                         [] taken /\ oa[c].decision = "no_such_operation" -> 404
                         [] taken /\ oa[c].decision = "not_permitted" -> 403
                         [] taken /\ oa[c].decision = "allow" -> 0
  <2>1. PICK at \in {"recording", "answered"} : oa[c].at = "deciding" /\ OaMoves(c, at, oa[c].trail, code)
    BY <1>3 DEF OaDecides
  <2>2. oa[c].trail = <<>>
    BY <1>0, <2>1 DEF Staged
  <2> HIDE DEF code
  <2>3. PICK s : s.at = at /\ s.trail = oa[c].trail /\ oa' = [oa EXCEPT ![c] = s]
    <3>1. oa[c] \in OaRecord
      BY <1>0
    <3>2. oa' = [oa EXCEPT ![c] = Moving(oa[c], at, oa[c].trail, code)]
      BY <2>1 DEF OaMoves, Moving
    <3>3. /\ Moving(oa[c], at, oa[c].trail, code).at = at
          /\ Moving(oa[c], at, oa[c].trail, code).trail = oa[c].trail
      BY <3>1 DEF Moving, OaRecord
    <3> QED
      BY <3>2, <3>3
  <2>4. ~HasRun(oa[c]) /\ ~HasRun(s)
    BY <2>1, <2>2, <2>3 DEF HasRun
  <2> QED
    BY <2>3, <2>4, UnseenMove
<1>4. ASSUME NEW c \in OaCalls, NEW written \in BOOLEAN, OaAttempts(c, written)
      PROVE  [Trail!Next]_(Trail!vars)
  <2>1. oa[c].at = "recording" /\ oa[c].trail = <<>> /\ ~HasRun(oa[c]) /\ EndOf(oa[c]) = "none"
    BY <1>0, <1>4, EndsOf DEF OaAttempts, Staged, HasRun
  <2>2. CASE OaMoves(c, "upstream", <<"attempt">>, 0)
    <3>1. PICK s \in OaRecord : /\ s.at = "upstream" /\ s.trail = Begun /\ s.status = 0
                                /\ oa' = [oa EXCEPT ![c] = s]
      BY <1>0, <2>2, MovesTo DEF Begun, Statuses
    <3>2. s.trail # <<>> /\ ~HasRun(s) /\ EndOf(s) = "none"
      BY <3>1, TrailsDiffer, EndsOf DEF HasRun
    <3>3. \A d \in OaCalls : /\ (oa'[d].trail # <<>>) <=> (d = c \/ oa[d].trail # <<>>)
                             /\ HasRun(oa'[d]) <=> HasRun(oa[d])
                             /\ EndOf(oa'[d]) = EndOf(oa[d])
      <4> TAKE d \in OaCalls
      <4>1. CASE d = c
        <5>1. oa'[d] = s
          BY <3>1, <4>1 DEF OaInv
        <5>2. (oa'[d].trail # <<>>) <=> (d = c \/ oa[d].trail # <<>>)
          BY <2>1, <3>1, <3>2, <4>1, <5>1, Zenon
        <5>3. HasRun(oa'[d]) <=> HasRun(oa[d])
          BY <2>1, <3>1, <3>2, <4>1, <5>1, Zenon
        <5>4. EndOf(oa'[d]) = EndOf(oa[d])
          BY <2>1, <3>1, <3>2, <4>1, <5>1, Zenon
        <5> QED
          BY <5>2, <5>3, <5>4
      <4>2. CASE d # c
        BY <2>1, <3>1, <3>2, <4>2, OnlyThis
      <4> QED
        BY <4>1, <4>2
    <3>4. Trail!Attempt(c)
      BY <3>3 DEF Trail!Attempt, HasRun, EndOf
    <3> QED
      BY <3>4 DEF Trail!Next
  <2>3. CASE OaMoves(c, "answered", <<>>, 503)
    <3>1. PICK s \in OaRecord : /\ s.at = "answered" /\ s.trail = <<>>
                                /\ oa' = [oa EXCEPT ![c] = s]
      BY <1>0, <2>3, MovesTo DEF Statuses
    <3>2. ~HasRun(s)
      BY <3>1 DEF HasRun
    <3> QED
      BY <2>1, <3>1, <3>2, UnseenMove
  <2> QED
    BY <1>4, <2>2, <2>3 DEF OaAttempts
<1>5. ASSUME NEW c \in OaCalls, NEW at \in {"delivering", "failing"}, NEW code \in Statuses \ {0},
             oa[c].at = "upstream", OaMoves(c, at, oa[c].trail, code)
      PROVE  Trail!Next
  <2>1. oa[c].trail = Begun /\ oa[c].status = 0 /\ oa[c].trail # <<>> /\ EndOf(oa[c]) = "none" /\ ~HasRun(oa[c])
    BY <1>0, <1>5, TrailsDiffer, EndsOf DEF Staged, HasRun
  <2>2. PICK s \in OaRecord : /\ s.at = at /\ s.trail = oa[c].trail /\ s.status = code
                              /\ oa' = [oa EXCEPT ![c] = s]
    BY <1>0, <1>5, MovesTo
  <2>3. HasRun(s) /\ EndOf(s) = "none"
    BY <1>5, <2>1, <2>2, EndsOf DEF HasRun
  <2>4. \A d \in OaCalls : /\ (oa'[d].trail # <<>>) <=> (oa[d].trail # <<>>)
                           /\ HasRun(oa'[d]) <=> (d = c \/ HasRun(oa[d]))
                           /\ EndOf(oa'[d]) = EndOf(oa[d])
    <3> TAKE d \in OaCalls
    <3>1. CASE d = c
      <4>1. oa'[d] = s
        BY <2>2, <3>1 DEF OaInv
      <4>2. (oa'[d].trail # <<>>) <=> (oa[d].trail # <<>>)
        BY <2>1, <2>2, <2>3, <3>1, <4>1, Zenon
      <4>3. HasRun(oa'[d]) <=> (d = c \/ HasRun(oa[d]))
        BY <2>1, <2>2, <2>3, <3>1, <4>1, Zenon
      <4>4. EndOf(oa'[d]) = EndOf(oa[d])
        BY <2>1, <2>2, <2>3, <3>1, <4>1, Zenon
      <4> QED
        BY <4>2, <4>3, <4>4
    <3>2. CASE d # c
      BY <2>1, <2>2, <2>3, <3>2, OnlyThis
    <3> QED
      BY <3>1, <3>2
  <2>5. Trail!Run(c)
    BY <2>1, <2>4 DEF Trail!Run, HasRun, EndOf
  <2> QED
    BY <2>5 DEF Trail!Next
<1>6. ASSUME NEW c \in OaCalls, NEW code \in {200, 302, 404}, OaRuns(c, code) PROVE Trail!Next
  BY <1>5, <1>6 DEF OaRuns, Statuses
<1>7. ASSUME NEW c \in OaCalls, OaThrows(c) PROVE Trail!Next
  BY <1>5, <1>7 DEF OaThrows, Statuses
<1>8. ASSUME NEW c \in OaCalls, NEW written \in BOOLEAN, OaDelivers(c, written)
      PROVE  [Trail!Next]_(Trail!vars)
  <2> DEFINE phase == IF oa[c].at = "delivering" /\ Succeeds(oa[c].lang, oa[c].status)
                      THEN "success" ELSE "failure"
             trail == IF written THEN Append(oa[c].trail, phase) ELSE oa[c].trail
  <2>1. /\ oa[c].at \in {"delivering", "failing"} /\ phase \in Ends
        /\ OaMoves(c, "answered", trail, oa[c].status)
    BY <1>8 DEF OaDelivers, Ends
  <2>2. /\ oa[c].trail = Begun /\ oa[c].trail # <<>> /\ oa[c].status # 0
        /\ HasRun(oa[c]) /\ EndOf(oa[c]) = "none"
    BY <1>0, <2>1, TrailsDiffer, EndsOf DEF Staged, HasRun
  <2> HIDE DEF phase
  <2>3. CASE written
    <3>1. trail = Closed(phase) /\ trail # <<>> /\ trail \in Trails
      BY <1>0, <2>1, <2>2, <2>3, TrailsDiffer
    <3> HIDE DEF trail
    <3>2. PICK s \in OaRecord : /\ s.trail = trail /\ s.status = oa[c].status
                                /\ oa' = [oa EXCEPT ![c] = s]
      BY <1>0, <2>1, <3>1, MovesTo
    <3>3. HasRun(s) /\ EndOf(s) = phase
      BY <2>1, <2>2, <3>1, <3>2, EndsOf DEF HasRun
    <3>4. \A d \in OaCalls : /\ (oa'[d].trail # <<>>) <=> (oa[d].trail # <<>>)
                             /\ HasRun(oa'[d]) <=> HasRun(oa[d])
                             /\ EndOf(oa'[d]) = IF d = c THEN phase ELSE EndOf(oa[d])
      <4> TAKE d \in OaCalls
      <4>1. CASE d = c
        <5>1. oa'[d] = s
          BY <3>2, <4>1 DEF OaInv
        <5>2. (oa'[d].trail # <<>>) <=> (oa[d].trail # <<>>)
          BY <2>2, <3>1, <3>2, <3>3, <4>1, <5>1, Zenon
        <5>3. HasRun(oa'[d]) <=> HasRun(oa[d])
          BY <2>2, <3>1, <3>2, <3>3, <4>1, <5>1, Zenon
        <5>4. EndOf(oa'[d]) = IF d = c THEN phase ELSE EndOf(oa[d])
          BY <3>3, <4>1, <5>1
        <5> QED
          BY <5>2, <5>3, <5>4
      <4>2. CASE d # c
        BY <2>2, <3>1, <3>2, <3>3, <4>2, OnlyThis
      <4> QED
        BY <4>1, <4>2
    <3>5. PICK end \in {"success", "failure", "refused"} : end = phase /\ end # "refused"
      BY <2>1 DEF Ends
    <3>6. end = "success" => HasRun(oa[c])
      BY <2>2
    <3>7. Trail!End(c, end)
      BY <2>2, <3>4, <3>5, <3>6 DEF Trail!End, HasRun, EndOf
    <3> QED
      BY <3>7 DEF Trail!Next
  <2>4. CASE ~written
    <3>1. trail = Begun /\ trail \in Trails
      BY <1>0, <2>2, <2>4
    <3> HIDE DEF trail
    <3>2. PICK s \in OaRecord : /\ s.trail = trail /\ s.status = oa[c].status
                                /\ oa' = [oa EXCEPT ![c] = s]
      BY <1>0, <2>1, <3>1, MovesTo
    <3>3. HasRun(s)
      BY <2>2, <3>1, <3>2 DEF HasRun
    <3> QED
      BY <2>2, <3>1, <3>2, <3>3, UnseenMove
  <2> QED
    BY <2>3, <2>4
<1>9. ASSUME NEW c \in OaCalls, OaCancelled(c) PROVE UNCHANGED Trail!vars
  <2>1. /\ oa[c].at \in {"deciding", "recording", "upstream", "delivering", "failing"}
        /\ OaMoves(c, "cancelled", oa[c].trail, oa[c].status)
    BY <1>9 DEF OaCancelled
  <2>2. PICK s \in OaRecord : /\ s.at = "cancelled" /\ s.trail = oa[c].trail /\ s.status = oa[c].status
                              /\ oa' = [oa EXCEPT ![c] = s]
    BY <1>0, <2>1, MovesTo
  <2>3. HasRun(s) <=> HasRun(oa[c])
    BY <1>0, <2>1, <2>2, TrailsDiffer DEF HasRun, Staged
  <2> QED
    BY <2>2, <2>3, UnseenMove
<1>10. ASSUME NEW d \in Documents, OaStart(d) PROVE UNCHANGED Trail!vars
  BY <1>1, <1>10 DEF OaStart
<1>11. CASE UNCHANGED oaVars
  BY <1>1, <1>11 DEF oaVars
<1>12. ASSUME NEW c \in OaCalls, OaStep(c) PROVE [Trail!Next]_(Trail!vars)
  BY <1>3, <1>4, <1>6, <1>7, <1>8, <1>12 DEF OaStep
<1> QED
  BY <1>2, <1>9, <1>10, <1>11, <1>12 DEF OaNext

\* The trail follows from the steps alone, whether or not they are fair.
LEMMA StepsKeepTrail == OaInit /\ [][OaNext]_oaVars => OaKeepsTrail
<1>1. OaInit => Trail!Init
  <2> SUFFICES ASSUME OaInit PROVE Trail!Init
    OBVIOUS
  <2>1. \A c \in OaCalls : oa[c].trail = <<>> /\ oa[c].at = "absent"
    BY DEF OaInit, Absent
  <2>2. \A c \in OaCalls : (oa[c].trail # <<>>) = FALSE /\ HasRun(oa[c]) = FALSE /\ EndOf(oa[c]) = "none"
    BY <2>1, TrailsDiffer DEF HasRun, EndOf
  <2> QED
    BY <2>2, Zenon DEF Trail!Init, HasRun, EndOf
<1>2. OaInv /\ [OaNext]_oaVars => [Trail!Next]_(Trail!vars)
  BY OaStepOfTrail
<1>3. OaInv => AnswerMatchesTrail
  <2> SUFFICES ASSUME OaInv, NEW c \in OaCalls, Len(oa[c].trail) = 2
               PROVE  /\ oa[c].trail[2] = "success" => oa[c].status < 400
                      /\ oa[c].status \in 200..299 => oa[c].trail[2] = "success"
    BY DEF AnswerMatchesTrail
  <2>1. oa[c].trail \in Trails /\ Truthful(oa[c])
    BY DEF OaInv, CallSound, OaRecord
  <2>2. PICK phase \in Ends : oa[c].trail = Closed(phase)
    BY <2>1, TrailsDiffer DEF Trails
  <2>3. oa[c].trail[2] = phase
    BY <2>2, TrailsDiffer
  <2> QED
    BY <2>1, <2>2, <2>3 DEF Truthful, Ends
<1> QED
  BY OaStartsSound, OaStepSound, <1>1, <1>2, <1>3, PTL DEF OaKeepsTrail, Trail!Spec

\* The HTTP gate implements the audit trail, in both languages, whatever fails or is cancelled;
\* and the status a caller got and the end on record tell the same story (openapi.ts:345-405;
\* openapi.py:354-427).
THEOREM OaImplementsTrail == OaSpec => OaKeepsTrail
  BY StepsKeepTrail, PTL DEF OaSpec

-----------------------------------------------------------------------------
(* What a proxy answers.                                                   *)

\* A ladder answers what one of its rungs answers.
LEMMA RefusalAmong ==
  ASSUME NEW W, "pass" \in W, NEW rungs, DOMAIN rungs \subseteq Nat, \A k \in DOMAIN rungs : rungs[k] \in W
  PROVE  FirstRefusal(rungs) \in W
<1>1. CASE FirstRefusal(rungs) = "pass"
  BY <1>1
<1>2. CASE FirstRefusal(rungs) # "pass"
  BY <1>2, RefusalIsFirst
<1>3. QED
  BY <1>1, <1>2

\* What is wrong with a body (ladder.ts:249-306).
LEMMA PreflightAmong ==
  ASSUME NEW r
  PROVE  Preflight(r) \in GateRefusals \cup {"pass"}
<1> DEFINE W == GateRefusals \cup {"pass"}
           g1 == Rung("not_json_type", r.body = "not_json_type")
           g2 == Rung("too_large", r.body = "too_large")
           g3 == Rung("not_json", r.body = "not_json")
           g4 == Rung("repeats_a_key", r.body = "repeats_a_key")
           g5 == Rung("disagrees", Classified(r) = "reject")
           g6 == Rung("no_method", Classified(r) = "legacy" /\ r.method = "none")
           rungs == <<g1, g2, g3, g4, g5, g6>>
<1>1. /\ "not_json_type" \in W /\ "too_large" \in W /\ "not_json" \in W /\ "repeats_a_key" \in W
      /\ "disagrees" \in W /\ "no_method" \in W /\ "pass" \in W
  BY DEF GateRefusals, Bodies
<1> HIDE DEF W
<1>2. g1 \in W /\ g2 \in W /\ g3 \in W /\ g4 \in W /\ g5 \in W /\ g6 \in W
  BY <1>1 DEF Rung
<1>3. Preflight(r) = FirstRefusal(rungs)
  BY DEF Preflight
<1> HIDE DEF g1, g2, g3, g4, g5, g6
<1>4. DOMAIN rungs \subseteq Nat /\ \A k \in DOMAIN rungs : rungs[k] \in W
  BY <1>2
<1> HIDE DEF rungs
<1>5. FirstRefusal(rungs) \in W
  BY <1>1, <1>4, RefusalAmong
<1>6. QED
  BY <1>3, <1>5 DEF W

\* And what the gate refuses (ladder.ts:112-247).
LEMMA GateAmong ==
  ASSUME NEW r, NEW scoped, NEW strict, NEW permitted, NEW asks, NEW held
  PROVE  FirstRefusal(GateRungs(r, scoped, strict, permitted, asks, held)) \in GateRefusals \cup {"pass"}
<1> DEFINE W == GateRefusals \cup {"pass"}
           read == r.post /\ Preflight(r) = "pass"
           g1 == Rung(Preflight(r), r.post /\ Preflight(r) # "pass" /\ (scoped \/ strict))
           g2 == Rung("headers_needed", scoped /\ read /\ Classified(r) # "modern")
           g3 == Rung("policy_denied", read /\ ~permitted)
           g4 == Rung("step_up", read /\ scoped /\ ~(asks \subseteq held))
           rungs == <<g1, g2, g3, g4>>
<1>1. "headers_needed" \in W /\ "policy_denied" \in W /\ "step_up" \in W /\ "pass" \in W
  BY DEF GateRefusals
<1>2. Preflight(r) \in W
  BY PreflightAmong
<1> HIDE DEF W, read
<1>3. g1 \in W /\ g2 \in W /\ g3 \in W /\ g4 \in W
  BY <1>1, <1>2 DEF Rung
<1>4. GateRungs(r, scoped, strict, permitted, asks, held) = rungs
  BY DEF GateRungs, read
<1> HIDE DEF g1, g2, g3, g4
<1>5. DOMAIN rungs \subseteq Nat /\ \A k \in DOMAIN rungs : rungs[k] \in W
  BY <1>3
<1> HIDE DEF rungs
<1>6. FirstRefusal(rungs) \in W
  BY <1>1, <1>5, RefusalAmong
<1>7. QED
  BY <1>4, <1>6 DEF W

\* What the TypeScript proxy's ladder answers (proxy.ts:167-310, 482-548).
LEMMA TsAmong ==
  ASSUME NEW c, NEW u, NEW r
  PROVE  FirstRefusal(TsRungs(c, u, r)) \in ProxyAnswers
<1> DEFINE W == ProxyAnswers
           g1 == Rung("not_post", ~r.post)
           g2 == Rung("baseline", ~(Baseline \subseteq u.scopes))
           g3 == Rung("not_permitted", u.perms = {})
           g4 == FirstRefusal(GateRungs(r, c.scoped, TRUE,
                            LET p == FlatPermission(c, u, r) IN p = "none" \/ Can(u, p),
                            AskedScopes(c, r), u.scopes))
           g5 == Rung("headers_needed", Classified(r) # "modern")
           g6 == Rung("no_such_method", r.method \notin PassThrough \cup Notices /\ Reach(r).is = "unknown")
           g7 == Rung("malformed", Reach(r).is = "malformed")
           g8 == Rung("policy_denied", Unaffordable(c, u, Reach(r).targets))
           g9 == Rung("arguments", r.method = "tools/call" /\ ~r.fits)
           rungs == <<g1, g2, g3, g4, g5, g6, g7, g8, g9>>
<1>1. /\ "not_post" \in W /\ "baseline" \in W /\ "not_permitted" \in W /\ "headers_needed" \in W
      /\ "no_such_method" \in W /\ "malformed" \in W /\ "policy_denied" \in W /\ "arguments" \in W
      /\ "pass" \in W
  BY DEF ProxyAnswers, GateRefusals
<1>2. g4 \in W
  BY GateAmong DEF ProxyAnswers
<1>3. TsRungs(c, u, r) = rungs
  BY DEF TsRungs
<1> HIDE DEF W
<1>4. g1 \in W /\ g2 \in W /\ g3 \in W /\ g5 \in W /\ g6 \in W /\ g7 \in W /\ g8 \in W /\ g9 \in W
  BY <1>1 DEF Rung
<1> HIDE DEF g1, g2, g3, g4, g5, g6, g7, g8, g9
<1>5. DOMAIN rungs \subseteq Nat /\ \A k \in DOMAIN rungs : rungs[k] \in W
  BY <1>2, <1>4
<1> HIDE DEF rungs
<1>6. FirstRefusal(rungs) \in W
  BY <1>1, <1>5, RefusalAmong
<1>7. QED
  BY <1>3, <1>6 DEF W

\* And the Python one's (proxy.py:238-338, 522-620).
LEMMA PyAmong ==
  ASSUME NEW c, NEW u, NEW r, r.body \in Bodies
  PROVE  FirstRefusal(PyRungs(c, u, r)) \in ProxyAnswers
<1> DEFINE W == ProxyAnswers
           g1 == Rung("not_post", ~r.post)
           g2 == Rung("baseline", ~(Baseline \subseteq u.scopes))
           g3 == Rung("not_permitted", u.perms = {})
           g4 == Rung(r.body, r.body # "ok")
           g5 == Rung("no_such_method", r.method \notin PyAllowed(r))
           g6 == Rung("headers_needed", ~r.modern \/ (~r.id /\ r.mhdr # "same"))
           g7 == Rung("disagrees", Classified(r) = "reject")
           g8 == Rung("malformed", Reach(r).is = "malformed")
           g9 == Rung("policy_denied", Unaffordable(c, u, Reach(r).targets))
           g10 == Rung("arguments", r.method = "tools/call" /\ ~r.fits)
           rungs == <<g1, g2, g3, g4, g5, g6, g7, g8, g9, g10>>
<1>1. /\ "not_post" \in W /\ "baseline" \in W /\ "not_permitted" \in W /\ "headers_needed" \in W
      /\ "no_such_method" \in W /\ "malformed" \in W /\ "policy_denied" \in W /\ "arguments" \in W
      /\ "disagrees" \in W /\ "pass" \in W
  BY DEF ProxyAnswers, GateRefusals
<1>2. r.body # "ok" => r.body \in W
  BY DEF ProxyAnswers, GateRefusals
<1>3. PyRungs(c, u, r) = rungs
  BY DEF PyRungs
<1> HIDE DEF W
<1>4. /\ g1 \in W /\ g2 \in W /\ g3 \in W /\ g4 \in W /\ g5 \in W /\ g6 \in W
      /\ g7 \in W /\ g8 \in W /\ g9 \in W /\ g10 \in W
  BY <1>1, <1>2 DEF Rung
<1> HIDE DEF g1, g2, g3, g4, g5, g6, g7, g8, g9, g10
<1>5. DOMAIN rungs \subseteq Nat /\ \A k \in DOMAIN rungs : rungs[k] \in W
  BY <1>4
<1> HIDE DEF rungs
<1>6. FirstRefusal(rungs) \in W
  BY <1>1, <1>5, RefusalAmong
<1>7. QED
  BY <1>3, <1>6 DEF W

\* The decisions a proxy reports of one request.
Reported == {<<>>, <<"allow">>, <<"deny">>, <<"allow", "deny">>}

\* Joined as both halves of a request report them.
LEMMA ReportsJoin ==
  /\ <<>> \o <<>> = <<>> /\ <<>> \o <<"deny">> = <<"deny">>
  /\ <<"allow">> \o <<>> = <<"allow">> /\ <<"allow">> \o <<"deny">> = <<"allow", "deny">>
<1> DEFINE W == {"allow", "deny"}
           a == <<"allow">>
           d == <<"deny">>
           both == <<"allow", "deny">>
<1>1. <<>> \in Seq(W) /\ a \in Seq(W) /\ d \in Seq(W) /\ both \in Seq(W)
  OBVIOUS
<1>2. Len(a) = 1 /\ Len(d) = 1 /\ Len(both) = 2 /\ a[1] = "allow" /\ d[1] = "deny"
      /\ both[1] = "allow" /\ both[2] = "deny"
  OBVIOUS
<1> HIDE DEF W, a, d, both
<1>3. <<>> \o <<>> = <<>> /\ <<>> \o d = d /\ a \o <<>> = a
  BY <1>1, ConcatEmptySeq
<1>4. a \o d = both
  <2> DEFINE s == a \o d
  <2>1. s \in Seq(W) /\ Len(s) = 2 /\ s[1] = "allow" /\ s[2] = "deny"
    BY <1>1, <1>2, ConcatProperties
  <2> HIDE DEF s
  <2>2. s = both
    BY <1>1, <1>2, <2>1, SeqEqual
  <2>3. QED
    BY <2>2 DEF s
<1>5. QED
  BY <1>3, <1>4 DEF a, d, both

\* The shape of the TypeScript proxy's answer.
LEMMA TsShape ==
  ASSUME NEW c, NEW u, NEW r, r.body \in Bodies, HasScopes(c)
  PROVE  /\ TsAnswer(c, u, r).why \in ProxyAnswers /\ TsAnswer(c, u, r).decisions \in Reported
         /\ TsAnswer(c, u, r).challenge \subseteq EveryScopeOf(c)
<1> DEFINE why == FirstRefusal(TsRungs(c, u, r))
           a == TsAnswer(c, u, r)
           first == IF why \in {"not_post", "baseline", "not_permitted"} THEN <<>> ELSE <<"allow">>
           second == IF why \in Refusals THEN <<"deny">> ELSE <<>>
<1>1. /\ a.why = why /\ a.decisions = first \o second
      /\ a.challenge = IF why = "step_up" THEN AskedScopes(c, r) ELSE {}
  BY DEF TsAnswer, Verdict
<1>2. why \in ProxyAnswers
  BY TsAmong
<1>3. first \o second \in Reported
  <2>1. first \in {<<>>, <<"allow">>} /\ second \in {<<>>, <<"deny">>}
    OBVIOUS
  <2> HIDE DEF first, second
  <2>2. QED
    BY <2>1, ReportsJoin DEF Reported
<1>4. a.challenge \subseteq EveryScopeOf(c)
  <2>1. CASE why # "step_up"
    BY <1>1, <2>1
  <2>2. CASE why = "step_up"
    <3>1. c.scoped
      BY <1>1, <2>2, ChallengeIsTheGates
    <3>2. Baseline # {}
      BY <3>1 DEF HasScopes
    <3>3. QED
      BY <1>1, <2>2, <3>2, AskedWithin
  <2>3. QED
    BY <2>1, <2>2
<1>5. QED
  BY <1>1, <1>2, <1>3, <1>4

\* The shape of the Python proxy's.
LEMMA PyShape ==
  ASSUME NEW c, NEW u, NEW r, r.body \in Bodies
  PROVE  /\ PyAnswer(c, u, r).why \in ProxyAnswers /\ PyAnswer(c, u, r).decisions \in Reported
         /\ PyAnswer(c, u, r).challenge = {}
  BY PyAmong DEF PyAnswer, Verdict, Reported

\* What a proxy is between two requests, or without having started.
LEMMA IdleShape ==
  \A a \in {Idle, Down} : a.why \in ProxyAnswers /\ a.decisions \in Reported /\ a.challenge = {}
  BY DEF Idle, Down, Verdict, Reported, ProxyAnswers

\* So the state of the proxies has its shape, because an answer is the ladder's.
LEMMA PTypes == PInv => PricingTypeOK
<1> SUFFICES ASSUME PInv PROVE PricingTypeOK
  OBVIOUS
<1> DEFINE Shaped(a) == /\ a.why \in ProxyAnswers /\ a.decisions \in Reported
                        /\ a.challenge \subseteq (IF config = <<>> THEN {} ELSE EveryScopeOf(config[1]))
<1>1. config \in {<<>>} \cup {<<c>> : c \in Configs}
  BY DEF PInv, BothBooted
<1>2. asked \in {<<>>} \cup (Callers \X Asks)
  BY DEF PInv, BothAnswer
<1>3. \A a \in {Idle, Down} : Shaped(a)
  BY IdleShape
<1>4. Shaped(ts) /\ Shaped(py) => PricingTypeOK
  BY <1>1, <1>2 DEF PricingTypeOK, Reported
<1>5. CASE asked = <<>>
  <2> HIDE DEF Shaped
  <2>1. QED
    BY <1>3, <1>4, <1>5 DEF PInv, BothIdle
<1>6. CASE asked # <<>>
  <2>1. PICK c \in Configs : config = <<c>> /\ (ts # Down => TsBoot(c) = "pass")
    BY <1>6 DEF PInv, BothBooted, BothAnswer
  <2>2. PICK u \in Callers, r \in Asks : ts \in {Down, TsAnswer(c, u, r)} /\ py \in {Down, PyAnswer(c, u, r)}
    BY <1>6, <2>1 DEF PInv, BothAnswer
  <2>3. r.body \in Bodies
    BY AsksAssumption DEF IsRequest
  <2>4. config # <<>> /\ config[1] = c
    BY <2>1
  <2>5. ts # Down => Shaped(ts)
    BY <2>1, <2>2, <2>3, <2>4, TsBooted, TsShape
  <2>6. py # Down => Shaped(py)
    BY <2>2, <2>3, <2>4, PyShape
  <2> HIDE DEF Shaped
  <2>7. QED
    BY <1>3, <1>4, <2>5, <2>6
<1>7. QED
  BY <1>5, <1>6

-----------------------------------------------------------------------------
(* What a server answers.                                                  *)

\* The shape of an answer.
ServerShape(a) ==
  /\ a.why \in ServerAnswers /\ a.ran \in Nat /\ a.person \in BOOLEAN
  /\ a.decisions \in {<<>>, <<"allow">>, <<"deny">>}
  /\ (a.ran # 0 => a.why = "ran")

\* A refusal, reported or not.
LEMMA RefusalShape ==
  ASSUME NEW will, NEW why \in ServerAnswers
  PROVE  ServerShape(Answer(why, <<>>, 0)) /\ ServerShape(Report(will, "deny", Answer(why, <<>>, 0)))
<1>1. "error" \in ServerAnswers
  BY DEF ServerAnswers
<1> DEFINE b == Answer(why, <<>>, 0)
           denied == [why |-> why, decisions |-> <<"deny">>, ran |-> 0, person |-> FALSE]
<1>2. ServerShape(b) /\ ServerShape(Answer("error", <<>>, 0))
  BY <1>1 DEF ServerShape, Answer
<1>3. ASSUME NEW x, x = [Answer(why, <<>>, 0) EXCEPT !.decisions = <<"deny">>]
      PROVE  x = denied
  BY <1>3, Zenon DEF Answer
<1>4. Report(will, "deny", b) = IF will.sink = "rejects" THEN Answer("error", <<>>, 0) ELSE denied
  BY <1>3, Zenon DEF Report
<1>5. ServerShape(denied)
  BY DEF ServerShape
<1> HIDE DEF denied
<1>6. ServerShape(Report(will, "deny", b))
  BY <1>2, <1>4, <1>5
<1>7. QED
  BY <1>2, <1>6

\* An admission, reported, with what ran.
LEMMA AdmissionShape ==
  ASSUME NEW will, NEW why \in ServerAnswers, NEW ran \in Nat, ran # 0 => why = "ran", NEW person \in BOOLEAN
  PROVE  ServerShape(Report(will, "allow", Asking(Answer(why, <<>>, ran), person)))
<1> DEFINE admitted == [why |-> why, decisions |-> <<"allow">>, ran |-> ran, person |-> person]
           a == Report(will, "allow", Asking(Answer(why, <<>>, ran), person))
<1>0. ASSUME NEW x, x = [Asking(Answer(why, <<>>, ran), person) EXCEPT !.decisions = <<"allow">>]
      PROVE  x = admitted
  BY <1>0, Zenon DEF Asking, Answer
<1>1. a = IF will.sink = "rejects" THEN Answer("error", <<>>, 0) ELSE admitted
  BY <1>0, Zenon DEF Report
<1>2. ServerShape(Answer("error", <<>>, 0))
  BY DEF ServerShape, Answer, ServerAnswers
<1>3. ServerShape(admitted)
  BY DEF ServerShape
<1> HIDE DEF a, admitted
<1>4. ServerShape(a)
  BY <1>1, <1>2, <1>3
<1>5. QED
  BY <1>4 DEF a

\* What the SDK dispatches to is a registration or none.
LEMMA DispatchNat ==
  ASSUME NEW s \in Servers, NEW registered \in SUBSET DOMAIN s.caps, NEW kind, NEW name
  PROVE  Dispatch(s.caps, registered, kind, name) \in Nat
<1>1. CASE Dispatch(s.caps, registered, kind, name) = 0
  BY <1>1
<1>2. CASE Dispatch(s.caps, registered, kind, name) # 0
  <2>1. Dispatch(s.caps, registered, kind, name) \in DOMAIN s.caps
    BY <1>2, DispatchReaches
  <2>2. DOMAIN s.caps \subseteq Nat
    BY ServersAssumption
  <2>3. QED
    BY <2>1, <2>2
<1>3. QED
  BY <1>1, <1>2

\* In TypeScript (handler.ts:266-345).
LEMMA TsServerShape ==
  ASSUME NEW p, NEW s \in Servers, NEW i, NEW r, NEW held, NEW will \in Callbacks
  PROVE  ServerShape(TsAnswers(p, s, i, r, held, will))
<1> DEFINE perms == Permissions("ts", p, i)
           gate == FirstRefusal(GateRungs(r, s.scoped, FALSE, TsPermitted(s, perms, r), TsScopes(s, r), held))
           unread == ~r.post \/ Preflight(r) # "pass" \/ (Classified(r) = "legacy" /\ ~s.legacy)
           ran == IF unread THEN 0 ELSE Dispatch(s.caps, Enabled(s, perms), Kind(r.method), RouteName(r))
           based == BaseScopes \subseteq held
           why == IF ran = 0 THEN "sdk_answers" ELSE "ran"
           a == TsAnswers(p, s, i, r, held, will)
           last == Report(will, "allow", Asking(Answer(why, <<>>, ran), TsApproval(s, ran)))
<1>1. a = CASE ~based -> Answer("baseline", <<>>, 0)
            [] based /\ perms = {} -> Report(will, "deny", Answer("not_permitted", <<>>, 0))
            [] based /\ perms # {} /\ gate # "pass" ->
                 IF gate = "policy_denied" THEN Report(will, "deny", Answer(gate, <<>>, 0))
                 ELSE Answer(gate, <<>>, 0)
            [] OTHER ->
                 CASE will.resolve = "refuses" -> Report(will, "deny", Answer("no_credential", <<>>, 0))
                   [] will.resolve = "throws" -> Answer("error", <<>>, 0)
                   [] will.resolve = "enriches" -> last
  BY DEF TsAnswers
<1>2. will.resolve \in {"enriches", "refuses", "throws"}
  BY DEF Callbacks
<1>3. /\ "baseline" \in ServerAnswers /\ "not_permitted" \in ServerAnswers /\ "no_credential" \in ServerAnswers
      /\ "error" \in ServerAnswers /\ why \in ServerAnswers
  BY DEF ServerAnswers
<1>4. gate # "pass" => gate \in ServerAnswers
  BY GateAmong DEF ServerAnswers
<1>5. ran \in Nat
  <2>1. Enabled(s, perms) \subseteq DOMAIN s.caps
    BY DEF Enabled
  <2>2. QED
    BY <2>1, DispatchNat
<1>6. TsApproval(s, ran) \in BOOLEAN
  BY DEF TsApproval
<1> HIDE DEF a, gate, perms, based, ran
<1>7. ServerShape(last)
  BY <1>3, <1>5, <1>6, AdmissionShape
<1> HIDE DEF last
<1>8. ServerShape(a)
  BY <1>1, <1>2, <1>3, <1>4, <1>7, RefusalShape
<1>9. QED
  BY <1>8 DEF a

\* And in Python (server.py:340-404).
LEMMA PyServerShape ==
  ASSUME NEW p, NEW s \in Servers, NEW i, NEW r, NEW held, NEW will \in Callbacks
  PROVE  ServerShape(PyAnswers(p, s, i, r, held, will))
<1> DEFINE perms == Permissions("py", p, i)
           name == RouteName(r)
           price == PyPermission(s, Kind(r.method), name)
           based == BaseScopes \subseteq held
           unread == r.body # "ok" \/ ~r.post \/ Classified(r) = "reject"
           ran == Dispatch(s.caps, DOMAIN s.caps, Kind(r.method), name)
           person == PyApproval(s, Kind(r.method), name)
           a == PyAnswers(p, s, i, r, held, will)
           idle == Asking(Answer("sdk_answers", <<>>, 0), FALSE)
           last == Report(will, "allow", IF name = "none" THEN Answer("sdk_answers", <<>>, 0)
                                         ELSE Asking(Answer("ran", <<>>, ran), person))
<1>1. a = CASE ~based -> Answer("baseline", <<>>, 0)
            [] based /\ unread -> Answer("sdk_answers", <<>>, 0)
            [] OTHER ->
                 CASE perms = {} -> Report(will, "deny", Answer("not_permitted", <<>>, 0))
                   [] perms # {} /\ name # "none" /\ price = "none" ->
                        Report(will, "deny", Answer("undeclared", <<>>, 0))
                   [] perms # {} /\ name # "none" /\ price # "none" /\ ~Holds(perms, price) ->
                        Report(will, "deny", Answer("policy_denied", <<>>, 0))
                   [] OTHER -> last
  BY DEF PyAnswers
<1>2. /\ "baseline" \in ServerAnswers /\ "not_permitted" \in ServerAnswers /\ "undeclared" \in ServerAnswers
      /\ "sdk_answers" \in ServerAnswers /\ "policy_denied" \in ServerAnswers /\ "ran" \in ServerAnswers
  BY DEF ServerAnswers, GateRefusals
<1>3. ran \in Nat
  BY DispatchNat
<1>4. person \in BOOLEAN
  BY DEF PyApproval
<1>5. ASSUME NEW x, x = Asking(Answer("sdk_answers", <<>>, 0), FALSE)
      PROVE  x = Answer("sdk_answers", <<>>, 0)
  BY <1>5, Zenon DEF Asking, Answer
<1> HIDE DEF a, perms, based, unread, price, name, ran, person, idle
<1>6. ServerShape(last)
  <2>1. CASE name # "none"
    <3>1. last = Report(will, "allow", Asking(Answer("ran", <<>>, ran), person))
      BY <2>1
    <3>2. QED
      BY <1>2, <1>3, <1>4, <3>1, AdmissionShape
  <2>2. CASE name = "none"
    <3>1. last = Report(will, "allow", Asking(Answer("sdk_answers", <<>>, 0), FALSE))
      BY <1>5, <2>2 DEF idle
    <3>2. QED
      BY <1>2, <3>1, AdmissionShape
  <2>3. QED
    BY <2>1, <2>2
<1> HIDE DEF last
<1>7. ServerShape(a)
  BY <1>1, <1>2, <1>6, RefusalShape
<1>8. QED
  BY <1>7 DEF a

\* So the state of the servers has its shape.
LEMMA ATypes == AInv => AccessTypeOK
<1> SUFFICES ASSUME AInv PROVE AccessTypeOK
  OBVIOUS
<1>1. deployed \in {<<>>} \cup (Policies \X Servers)
  BY DEF AInv, BothStarted
<1>2. calling \in {<<>>} \cup (Identities \X AccessCalls \X Callbacks)
  BY DEF AInv, AnswersTheCall
<1>3. ServerShape(Waiting) /\ ServerShape(Stopped)
  <2>1. "waiting" \in ServerAnswers /\ "stopped" \in ServerAnswers
    BY DEF ServerAnswers
  <2>2. QED
    BY <2>1, RefusalShape DEF Waiting, Stopped
<1>4. ServerShape(tsCall) /\ ServerShape(pyCall)
  <2>1. CASE calling = <<>>
    BY <1>3, <2>1 DEF AInv, WaitsBetween
  <2>2. CASE calling # <<>>
    <3>1. PICK p \in Policies, s \in Servers : deployed = <<p, s>>
      BY <2>2 DEF AInv, AnswersTheCall, BothStarted
    <3>2. PICK i \in Identities, c \in AccessCalls, will \in Callbacks :
             /\ tsCall \in {Stopped, TsAnswers(p, s, i, c.request, c.held, will)}
             /\ pyCall \in {Stopped, PyAnswers(p, s, i, c.request, c.held, will)}
      BY <2>2, <3>1 DEF AInv, AnswersTheCall
    <3>3. QED
      BY <1>3, <3>2, TsServerShape, PyServerShape
  <2>3. QED
    BY <2>1, <2>2
<1>5. QED
  BY <1>1, <1>2, <1>4 DEF AccessTypeOK, ServerShape

\* And the gate's: a call's status is 0 until it ends.
LEMMA OaTypes == OaInv => OaTypeOK
<1> SUFFICES ASSUME OaInv PROVE OaTypeOK
  OBVIOUS
<1>1. document \in {<<>>} \cup {<<d>> : d \in Documents}
  BY DEF OaInv, Started
<1>2. ASSUME NEW c \in OaCalls
      PROVE  /\ oa[c].at \in {"absent", "deciding", "recording", "upstream", "delivering", "failing",
                              "answered", "cancelled"}
             /\ oa[c].trail \in {<<>>, <<"attempt">>} \cup {<<"attempt", e>> : e \in {"success", "failure"}}
             /\ (oa[c].at = "answered" => oa[c].status \in {200, 302, 401, 403, 404, 500, 503})
  <2> DEFINE r == oa[c]
  <2>1. r \in OaRecord /\ Staged(r)
    BY DEF OaInv, CallSound
  <2> HIDE DEF r
  <2>2. r.trail \in {<<>>, <<"attempt">>} \cup {<<"attempt", e>> : e \in {"success", "failure"}}
    BY <2>1 DEF OaRecord, Trails, Begun, Closed, Ends
  <2>3. r.at = "answered" => r.status \in {200, 302, 401, 403, 404, 500, 503}
    BY <2>1 DEF OaRecord, Staged, Statuses
  <2> QED
    BY <2>1, <2>2, <2>3 DEF OaRecord, r
<1> QED
  BY <1>1, <1>2 DEF OaTypeOK

-----------------------------------------------------------------------------
(* The four side by side.                                                  *)

\* A step of one part leaves the others as they were.
LEMMA PartSteps ==
  [DecisionNext]_allVars =>
    [PricingNext]_pricingVars /\ [AccessNext]_accessVars /\ [OaNext]_oaVars /\ [Next]_vars
<1>1. ASSUME DecisionNext
      PROVE  [PricingNext]_pricingVars /\ [AccessNext]_accessVars /\ [OaNext]_oaVars /\ [Next]_vars
  BY <1>1 DEF DecisionNext
<1>2. ASSUME UNCHANGED allVars
      PROVE  UNCHANGED pricingVars /\ UNCHANGED accessVars /\ UNCHANGED oaVars /\ UNCHANGED vars
  BY <1>2 DEF allVars
<1> QED
  BY <1>1, <1>2

\* So each part behaves as it does alone, and keeps its invariant.
LEMMA PartsHold ==
  DecisionSpec => PricingSpec /\ AccessSpec /\ OaInit /\ [][OaNext]_oaVars /\ []OaInv /\ Spec
<1>1. DecisionInit => PricingInit /\ AccessInit /\ OaInit /\ Init
  BY DEF DecisionInit
<1> QED
  BY <1>1, PartSteps, OaStartsSound, OaStepSound, PTL DEF DecisionSpec, PricingSpec, AccessSpec, Spec

\* What is configured and asked, answered, recorded and passed on has its shape, and an answer is
\* one of those the ladders give (ladder.ts:112-306; proxy.ts:167-548, 883-1013;
\* proxy.py:238-620; handler.ts:266-345; server.py:340-404; openapi.ts:290-405).
THEOREM DecisionTypes == DecisionSpec => []DecisionTypeOK
<1>1. Spec => []StreamInv
  BY StreamInit, StreamNext, PTL DEF Spec
<1>2. PInv /\ AInv /\ OaInv /\ StreamInv => DecisionTypeOK
  BY PTypes, ATypes, OaTypes, StreamCap DEF DecisionTypeOK
<1> QED
  BY <1>1, <1>2, PartsHold, PInvariance, AInvariance, PTL

\* Every decision is right where the parts are side by side, as they are in a run: what the
\* theorems above say of each part alone. Of the gate only the steps are meant, fair or not.
THEOREM DecisionsAreRight ==
  DecisionSpec => /\ []/\ EveryRegistrationPaid /\ ProxiesAgree /\ StepUpSettles
                       /\ ListingMatchesCalls /\ NothingPricedIsDead
                       /\ RunIsEntitled /\ NothingUnasked /\ ListedIsRunnable
                       /\ DocumentMatchesGate /\ ReachedIsPriced
                       /\ EventsKept /\ CapDecides
                  /\ OaKeepsTrail
<1>1. OaInv => DocumentMatchesGate /\ ReachedIsPriced
  BY StartedAgrees, ReachesAreBacked DEF OaInv
<1> QED
  BY <1>1, PartsHold, StepsKeepTrail, EveryRegistrationIsPaid, ProxiesLetTheSameThrough, StepUpIsEnough,
     ListingIsWhatCallsMeet, NothingPricedIsOutOfReach, WhatRunsIsEntitled, NothingRunsUnasked,
     WhatIsListedRuns, EventsAreKept, CapIsKept, PTL
=============================================================================
