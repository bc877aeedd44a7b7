--------------------------- MODULE Pricing_proofs ---------------------------
(***************************************************************************)
(* What the two proxies let through is paid for, agrees between them, is   *)
(* enough after one step-up, matches their listings and leaves nothing     *)
(* priced out of reach: for every configuration, caller and request. A     *)
(* ladder is read rung by rung (PassesAll, RefusesFirst), so that what a   *)
(* request that passes satisfies is a conjunction (TsPass, PyPass).        *)
(***************************************************************************)
EXTENDS Pricing, WellFoundedInduction, TLAPS

-----------------------------------------------------------------------------
(* Rungs, and the first that refuses.                                      *)

\* A non-empty set of numbers has a smallest one: what every `find` in a list rests on.
LEMMA SmallestExists ==
  ASSUME NEW S \in SUBSET Nat, S # {}
  PROVE  \E m \in S : \A j \in S : m <= j
<1> DEFINE R == OpToRel(<, Nat)
<1>1. IsWellFoundedOn(R, Nat)
  BY NatLessThanWellFounded
<1>2. \A x, y \in Nat : <<y, x>> \in R <=> y < x
  BY DEF OpToRel
<1> HIDE DEF R
<1>3. PICK x \in S : \A y \in S : ~ (<<y, x>> \in R)
  BY <1>1, WFMin
<1>4. \A y \in S : x <= y
  <2> TAKE y \in S
  <2>1. x \in Nat /\ y \in Nat
    OBVIOUS
  <2>2. ~ (y < x)
    BY <1>2, <1>3, <2>1
  <2>3. QED
    BY <2>1, <2>2
<1>5. QED
  BY <1>4

\* A request passes exactly the ladders none of whose rungs refuses it (ladder.ts:112-213).
LEMMA PassesAll ==
  ASSUME NEW rungs, DOMAIN rungs \subseteq Nat
  PROVE  FirstRefusal(rungs) = "pass" <=> \A i \in DOMAIN rungs : rungs[i] = "pass"
<1> DEFINE refused == {i \in DOMAIN rungs : rungs[i] # "pass"}
<1>1. CASE refused = {}
  BY <1>1 DEF FirstRefusal
<1>2. CASE refused # {}
  <2>1. PICK m \in refused : \A j \in refused : m <= j
    BY <1>2, SmallestExists
  <2>2. (CHOOSE i \in refused : \A j \in refused : i <= j) \in refused
    BY <2>1
  <2>3. QED
    BY <1>2, <2>2 DEF FirstRefusal
<1>3. QED
  BY <1>1, <1>2

\* Its answer is the first refusing rung's.
LEMMA RefusesFirst ==
  ASSUME NEW rungs, DOMAIN rungs \subseteq Nat, NEW i \in DOMAIN rungs, rungs[i] # "pass",
         \A j \in DOMAIN rungs : j < i => rungs[j] = "pass"
  PROVE  FirstRefusal(rungs) = rungs[i]
<1> DEFINE refused == {k \in DOMAIN rungs : rungs[k] # "pass"}
<1> DEFINE m == CHOOSE k \in refused : \A j \in refused : k <= j
<1>1. i \in refused /\ \A j \in refused : i <= j
  OBVIOUS
<1>2. m \in refused /\ \A j \in refused : m <= j
  BY <1>1
<1>3. m = i
  <2>1. m <= i /\ i <= m
    BY <1>1, <1>2
  <2>2. m \in Nat /\ i \in Nat
    BY <1>2
  <2>3. QED
    BY <2>1, <2>2
<1>4. QED
  BY <1>1, <1>3 DEF FirstRefusal

\* Every refusal is some rung's, and the rungs before it pass.
LEMMA RefusalIsFirst ==
  ASSUME NEW rungs, DOMAIN rungs \subseteq Nat, FirstRefusal(rungs) # "pass"
  PROVE  \E i \in DOMAIN rungs : /\ FirstRefusal(rungs) = rungs[i] /\ rungs[i] # "pass"
                                 /\ \A j \in DOMAIN rungs : j < i => rungs[j] = "pass"
<1> DEFINE refused == {k \in DOMAIN rungs : rungs[k] # "pass"}
<1>1. refused # {}
  BY PassesAll
<1>2. PICK i \in refused : \A j \in refused : i <= j
  BY <1>1, SmallestExists
<1>3. i \in DOMAIN rungs /\ rungs[i] # "pass"
  OBVIOUS
<1>4. ASSUME NEW j \in DOMAIN rungs, j < i
      PROVE  rungs[j] = "pass"
  <2>1. i \in Nat /\ j \in Nat
    OBVIOUS
  <2>2. j \notin refused
    BY <1>2, <1>4, <2>1
  <2>3. QED
    BY <2>2
<1>5. FirstRefusal(rungs) = rungs[i]
  BY <1>3, <1>4, RefusesFirst
<1>6. QED
  BY <1>3, <1>4, <1>5

\* The rungs of the gate, all passed (ladder.ts:166-213).
GateOpen(r, scoped, strict, permitted, wanted, held) ==
  /\ scoped \/ strict => ~r.post \/ Preflight(r) = "pass"
  /\ r.post /\ Preflight(r) = "pass" =>
       /\ scoped => Classified(r) = "modern"
       /\ permitted
       /\ scoped => wanted \subseteq held

\* They are what runScopedGate lets through.
LEMMA GatePasses ==
  ASSUME NEW r, NEW scoped, NEW strict, NEW permitted, NEW wanted, NEW held
  PROVE  FirstRefusal(GateRungs(r, scoped, strict, permitted, wanted, held)) = "pass"
           <=> GateOpen(r, scoped, strict, permitted, wanted, held)
<1> DEFINE read == r.post /\ Preflight(r) = "pass"
           refused == r.post /\ Preflight(r) # "pass"
           g1 == Rung(Preflight(r), refused /\ (scoped \/ strict))
           g2 == Rung("headers_needed", scoped /\ read /\ Classified(r) # "modern")
           g3 == Rung("policy_denied", read /\ ~permitted)
           g4 == Rung("step_up", read /\ scoped /\ ~(wanted \subseteq held))
           rungs == <<g1, g2, g3, g4>>
<1>1. GateRungs(r, scoped, strict, permitted, wanted, held) = rungs
  BY DEF GateRungs
<1>2. g1 = "pass" <=> ~(refused /\ (scoped \/ strict))
  BY DEF Rung
<1>3. g2 = "pass" <=> ~(scoped /\ read /\ Classified(r) # "modern")
  BY DEF Rung
<1>4. g3 = "pass" <=> ~(read /\ ~permitted)
  BY DEF Rung
<1>5. g4 = "pass" <=> ~(read /\ scoped /\ ~(wanted \subseteq held))
  BY DEF Rung
<1>6. FirstRefusal(rungs) = "pass" <=> g1 = "pass" /\ g2 = "pass" /\ g3 = "pass" /\ g4 = "pass"
  <2> HIDE DEF g1, g2, g3, g4
  <2>1. DOMAIN rungs = 1..4 /\ rungs[1] = g1 /\ rungs[2] = g2 /\ rungs[3] = g3 /\ rungs[4] = g4
    OBVIOUS
  <2>2. QED
    BY <2>1, PassesAll
<1>7. QED
  BY <1>1, <1>2, <1>3, <1>4, <1>5, <1>6 DEF GateOpen

-----------------------------------------------------------------------------
(* The two ladders of a proxy.                                             *)

\* What the gate is told of the permission, and what the price is.
Permitted(c, u, r) == LET p == FlatPermission(c, u, r) IN p = "none" \/ Can(u, p)
Affordable(c, u, r) ==
  /\ r.method \in PassThrough \cup Notices \/ Reach(r).is # "unknown"
  /\ Reach(r).is # "malformed"
  /\ ~Unaffordable(c, u, Reach(r).targets)
  /\ r.method = "tools/call" => r.fits

\* What a request that passes the TypeScript proxy satisfies (proxy.ts:200-272, 480-545).
TsPass(c, u, r) ==
  /\ r.post /\ Baseline \subseteq u.scopes /\ u.perms # {}
  /\ Preflight(r) = "pass" /\ Classified(r) = "modern"
  /\ Permitted(c, u, r)
  /\ c.scoped => AskedScopes(c, r) \subseteq u.scopes
  /\ Affordable(c, u, r)

\* Nothing else is asked of one.
LEMMA TsPasses ==
  ASSUME NEW c, NEW u, NEW r
  PROVE  TsAnswer(c, u, r).why = "pass" <=> TsPass(c, u, r)
<1> DEFINE gate == GateRungs(r, c.scoped, TRUE, Permitted(c, u, r), AskedScopes(c, r), u.scopes)
           g1 == Rung("not_post", ~r.post)
           g2 == Rung("baseline", ~(Baseline \subseteq u.scopes))
           g3 == Rung("not_permitted", u.perms = {})
           g4 == FirstRefusal(gate)
           g5 == Rung("headers_needed", Classified(r) # "modern")
           g6 == Rung("no_such_method", r.method \notin PassThrough \cup Notices /\ Reach(r).is = "unknown")
           g7 == Rung("malformed", Reach(r).is = "malformed")
           g8 == Rung("policy_denied", Unaffordable(c, u, Reach(r).targets))
           g9 == Rung("arguments", r.method = "tools/call" /\ ~r.fits)
           rungs == <<g1, g2, g3, g4, g5, g6, g7, g8, g9>>
<1>1. TsRungs(c, u, r) = rungs
  BY DEF TsRungs, Permitted
<1>2. FirstRefusal(rungs) = "pass"
        <=> g1 = "pass" /\ g2 = "pass" /\ g3 = "pass" /\ g4 = "pass" /\ g5 = "pass" /\ g6 = "pass"
            /\ g7 = "pass" /\ g8 = "pass" /\ g9 = "pass"
  <2> HIDE DEF g1, g2, g3, g4, g5, g6, g7, g8, g9
  <2>1. DOMAIN rungs = 1..9
    OBVIOUS
  <2>2. (\A i \in 1..9 : rungs[i] = "pass")
          <=> rungs[1] = "pass" /\ rungs[2] = "pass" /\ rungs[3] = "pass" /\ rungs[4] = "pass" /\ rungs[5] = "pass"
              /\ rungs[6] = "pass" /\ rungs[7] = "pass" /\ rungs[8] = "pass" /\ rungs[9] = "pass"
    OBVIOUS
  <2>3. QED
    BY <2>1, <2>2, PassesAll
<1>3. TsAnswer(c, u, r).why = FirstRefusal(rungs)
  BY <1>1 DEF TsAnswer, Verdict
<1>4. g4 = "pass" <=> GateOpen(r, c.scoped, TRUE, Permitted(c, u, r), AskedScopes(c, r), u.scopes)
  BY GatePasses
<1>5. /\ g1 = "pass" <=> r.post
      /\ g2 = "pass" <=> Baseline \subseteq u.scopes
      /\ g3 = "pass" <=> u.perms # {}
      /\ g5 = "pass" <=> Classified(r) = "modern"
  BY DEF Rung
<1>6. g6 = "pass" <=> r.method \in PassThrough \cup Notices \/ Reach(r).is # "unknown"
  BY DEF Rung
<1>7. /\ g7 = "pass" <=> Reach(r).is # "malformed"
      /\ g8 = "pass" <=> ~Unaffordable(c, u, Reach(r).targets)
      /\ g9 = "pass" <=> (r.method = "tools/call" => r.fits)
  BY DEF Rung
<1> HIDE DEF g1, g2, g3, g4, g5, g6, g7, g8, g9, rungs
<1>8. QED
  BY <1>2, <1>3, <1>4, <1>5, <1>6, <1>7 DEF TsPass, Affordable, GateOpen

\* And one that passes the Python proxy (proxy.py:262-345, 490-620).
PyPass(c, u, r) ==
  /\ r.post /\ Baseline \subseteq u.scopes /\ u.perms # {}
  /\ r.body = "ok" /\ r.method \in PyAllowed(r)
  /\ r.modern /\ (r.id \/ r.mhdr = "same") /\ Classified(r) # "reject"
  /\ Reach(r).is # "malformed" /\ ~Unaffordable(c, u, Reach(r).targets)
  /\ r.method = "tools/call" => r.fits

\* Nor there.
LEMMA PyPasses ==
  ASSUME NEW c, NEW u, NEW r, r.body \in Bodies
  PROVE  PyAnswer(c, u, r).why = "pass" <=> PyPass(c, u, r)
<1> DEFINE g1 == Rung("not_post", ~r.post)
           g2 == Rung("baseline", ~(Baseline \subseteq u.scopes))
           g3 == Rung("not_permitted", u.perms = {})
           g4 == Rung(r.body, r.body # "ok")
           g5 == Rung("no_such_method", r.method \notin PyAllowed(r))
           g6 == Rung("headers_needed", ~r.modern \/ (~r.id /\ r.mhdr # "same"))
           g7 == Rung("disagrees", Classified(r) = "reject")
           g8 == Rung("malformed", Reach(r).is = "malformed")
           g9 == Rung("policy_denied", Unaffordable(c, u, Reach(r).targets))
           g10 == Rung("arguments", r.method = "tools/call" /\ ~r.fits)
           rungs == <<g1, g2, g3, g4, g5, g6, g7, g8, g9, g10>>
<1>1. PyRungs(c, u, r) = rungs
  BY DEF PyRungs
<1>2. FirstRefusal(rungs) = "pass"
        <=> g1 = "pass" /\ g2 = "pass" /\ g3 = "pass" /\ g4 = "pass" /\ g5 = "pass" /\ g6 = "pass"
            /\ g7 = "pass" /\ g8 = "pass" /\ g9 = "pass" /\ g10 = "pass"
  <2> HIDE DEF g1, g2, g3, g4, g5, g6, g7, g8, g9, g10
  <2>1. DOMAIN rungs = 1..10
    OBVIOUS
  <2>2. (\A i \in 1..10 : rungs[i] = "pass")
          <=> rungs[1] = "pass" /\ rungs[2] = "pass" /\ rungs[3] = "pass" /\ rungs[4] = "pass" /\ rungs[5] = "pass"
              /\ rungs[6] = "pass" /\ rungs[7] = "pass" /\ rungs[8] = "pass" /\ rungs[9] = "pass" /\ rungs[10] = "pass"
    OBVIOUS
  <2>3. QED
    BY <2>1, <2>2, PassesAll
<1>3. PyAnswer(c, u, r).why = FirstRefusal(rungs)
  BY <1>1 DEF PyAnswer, Verdict
<1>4. /\ g1 = "pass" <=> r.post
      /\ g2 = "pass" <=> Baseline \subseteq u.scopes
      /\ g3 = "pass" <=> u.perms # {}
      /\ g4 = "pass" <=> r.body = "ok"
  BY DEF Rung, Bodies
<1>5. /\ g5 = "pass" <=> r.method \in PyAllowed(r)
      /\ g6 = "pass" <=> r.modern /\ (r.id \/ r.mhdr = "same")
      /\ g7 = "pass" <=> Classified(r) # "reject"
  BY DEF Rung
<1>6. /\ g8 = "pass" <=> Reach(r).is # "malformed"
      /\ g9 = "pass" <=> ~Unaffordable(c, u, Reach(r).targets)
      /\ g10 = "pass" <=> (r.method = "tools/call" => r.fits)
  BY DEF Rung
<1> HIDE DEF g1, g2, g3, g4, g5, g6, g7, g8, g9, g10, rungs
<1>7. QED
  BY <1>2, <1>3, <1>4, <1>5, <1>6 DEF PyPass

-----------------------------------------------------------------------------
(* What a proxy that started is configured with.                           *)

\* A URI for each priced resource, and for nothing that is not priced.
HasIndex(c) ==
  /\ \A l \in DOMAIN c.perms : l[1] = "resource" => l \in DOMAIN c.uris
  /\ DOMAIN c.uris \subseteq DOMAIN c.perms

\* A scope map that names each capability once, with a scope.
HasScopes(c) ==
  c.scoped =>
    /\ \A k, l \in DOMAIN c.scopes : Canonical(k) = Canonical(l) => k = l
    /\ \A k \in DOMAIN c.scopes : Registered(c, k)
    /\ Baseline # {}
    /\ \A k \in DOMAIN c.scopes : c.scopes[k] # {}

\* buildResourceIndex and _resource_index pass a configuration with a whole index (proxy.ts:760-804).
LEMMA IndexPasses ==
  ASSUME NEW c, FirstRefusal(IndexRungs(c)) = "pass"
  PROVE  HasIndex(c)
<1> DEFINE g1 == Rung("no_uri", \E l \in DOMAIN c.perms : l[1] = "resource" /\ l \notin DOMAIN c.uris)
           g2 == Rung("unknown_uri", \E l \in DOMAIN c.uris : l \notin DOMAIN c.perms)
           rungs == <<g1, g2>>
<1>1. IndexRungs(c) = rungs
  BY DEF IndexRungs
<1>2. g1 = "pass" /\ g2 = "pass"
  <2> HIDE DEF g1, g2
  <2>1. DOMAIN rungs = 1..2 /\ rungs[1] = g1 /\ rungs[2] = g2
    OBVIOUS
  <2>2. QED
    BY <1>1, <2>1, PassesAll
<1>3. QED
  BY <1>2 DEF Rung, HasIndex

\* What createMcpProxy has checked of its options when it returns (proxy.ts:95-160).
LEMMA TsBooted ==
  ASSUME NEW c, TsBoot(c) = "pass"
  PROVE  HasIndex(c) /\ HasScopes(c) /\ Reconciles(c.granted, Priced(c))
<1> DEFINE g1 == Rung("alias", c.scoped /\ \E k, l \in DOMAIN c.scopes : k # l /\ Canonical(k) = Canonical(l))
           g2 == Rung("unknown_scope_key", c.scoped /\ \E k \in DOMAIN c.scopes : ~Registered(c, k))
           g3 == FirstRefusal(IndexRungs(c))
           g4 == Rung("unrecorded", ~(DOMAIN c.perms \subseteq c.defs))
           g5 == Rung("no_baseline", c.scoped /\ Baseline = {})
           g6 == Rung("no_scope", c.scoped /\ \E k \in DOMAIN c.scopes : c.scopes[k] = {})
           g7 == Rung("unreachable", ~Reconciles(c.granted, Priced(c)))
           rungs == <<g1, g2, g3, g4, g5, g6, g7>>
<1>1. FirstRefusal(rungs) = "pass"
  BY DEF TsBoot
<1>2. g1 = "pass" /\ g2 = "pass" /\ g3 = "pass" /\ g5 = "pass" /\ g6 = "pass" /\ g7 = "pass"
  <2> HIDE DEF g1, g2, g3, g4, g5, g6, g7
  <2>1. DOMAIN rungs = 1..7 /\ rungs[1] = g1 /\ rungs[2] = g2 /\ rungs[3] = g3 /\ rungs[5] = g5
        /\ rungs[6] = g6 /\ rungs[7] = g7
    OBVIOUS
  <2>2. QED
    BY <1>1, <2>1, PassesAll
<1>3. ~(c.scoped /\ \E k, l \in DOMAIN c.scopes : k # l /\ Canonical(k) = Canonical(l))
  BY <1>2 DEF Rung
<1>4. ~(c.scoped /\ \E k \in DOMAIN c.scopes : ~Registered(c, k))
  BY <1>2 DEF Rung
<1>5. ~(c.scoped /\ Baseline = {}) /\ ~(c.scoped /\ \E k \in DOMAIN c.scopes : c.scopes[k] = {})
  BY <1>2 DEF Rung
<1>6. Reconciles(c.granted, Priced(c))
  BY <1>2 DEF Rung
<1>7. HasIndex(c)
  BY <1>2, IndexPasses
<1>8. QED
  BY <1>3, <1>4, <1>5, <1>6, <1>7 DEF HasScopes

\* And what McpProxy.__init__ has (proxy.py:196-233).
LEMMA PyBooted ==
  ASSUME NEW c, PyBoot(c) = "pass"
  PROVE  HasIndex(c) /\ Reconciles(c.granted, Priced(c))
<1> DEFINE g1 == FirstRefusal(IndexRungs(c))
           g2 == Rung("unrecorded", ~(DOMAIN c.perms \subseteq c.defs))
           g3 == Rung("unreachable", ~Reconciles(c.granted, Priced(c)))
           rungs == <<g1, g2, g3>>
<1>1. FirstRefusal(rungs) = "pass"
  BY DEF PyBoot
<1>2. g1 = "pass" /\ g3 = "pass"
  <2> HIDE DEF g1, g2, g3
  <2>1. DOMAIN rungs = 1..3 /\ rungs[1] = g1 /\ rungs[3] = g3
    OBVIOUS
  <2>2. QED
    BY <1>1, <2>1, PassesAll
<1>3. Reconciles(c.granted, Priced(c))
  BY <1>2 DEF Rung
<1>4. HasIndex(c)
  BY <1>2, IndexPasses
<1>5. QED
  BY <1>3, <1>4

-----------------------------------------------------------------------------
(* Names, labels and scopes.                                               *)

\* A request that names something names its first name.
LEMMA RouteNames ==
  ASSUME NEW r, IsRequest(r), RouteName(r) # "none"
  PROVE  r.method \in Invocations /\ r.names # <<>> /\ RouteName(r) = r.names[1]
  BY DEF RouteName, NamesOne

\* reach, by the method of the message (proxy.ts:590-660; proxy.py:560-592).
LEMMA ReachInvokes ==
  ASSUME NEW r, r.method \in Invocations
  PROVE  Reach(r) = IF RouteName(r) = "none" THEN [is |-> "malformed", targets |-> {}]
                    ELSE [is |-> "targets", targets |-> {<<Kind(r.method), RouteName(r)>>}]
  BY DEF Reach, Invocations

\* A completion or a subscription reaches what its params refer to, if they read.
LEMMA ReachRefers ==
  ASSUME NEW r, r.method \in {"completion/complete", "subscriptions/listen"}
  PROVE  Reach(r) = IF r.ref = "bad" THEN [is |-> "malformed", targets |-> {}]
                    ELSE [is |-> "targets", targets |-> {<<r.ref, r.names[i]>> : i \in DOMAIN r.names}]
  BY DEF Reach, Invocations

\* reach knows five methods (proxy.ts:590-660).
LEMMA ReachIs ==
  ASSUME NEW r
  PROVE  /\ Reach(r).is \in {"malformed", "targets", "unknown"}
         /\ Reach(r).is = "unknown"
              <=> r.method \notin Invocations \cup {"completion/complete", "subscriptions/listen"}
<1>1. CASE r.method \in Invocations
  <2>1. Reach(r).is \in {"malformed", "targets"}
    BY <1>1, ReachInvokes
  <2>2. QED
    BY <1>1, <2>1
<1>2. CASE r.method \in {"completion/complete", "subscriptions/listen"}
  <2>1. Reach(r).is \in {"malformed", "targets"}
    BY <1>2, ReachRefers
  <2>2. QED
    BY <1>2, <2>1
<1>3. CASE r.method \notin Invocations \cup {"completion/complete", "subscriptions/listen"}
  <2>1. Reach(r) = [is |-> "unknown", targets |-> {}]
    BY <1>3 DEF Reach
  <2>2. QED
    BY <1>3, <2>1
<1>4. QED
  BY <1>1, <1>2, <1>3

\* What a message reaches is what it uses.
LEMMA ReachesUses ==
  ASSUME NEW r, IsRequest(r), Reach(r).is = "targets"
  PROVE  Uses(r) = Reach(r).targets
<1>1. CASE r.method \in Invocations
  <2>1. RouteName(r) # "none" /\ Reach(r).targets = {<<Kind(r.method), RouteName(r)>>}
    BY <1>1, ReachInvokes
  <2>2. RouteName(r) = r.names[1]
    BY <2>1, RouteNames
  <2>3. QED
    BY <1>1, <2>1, <2>2 DEF Uses
<1>2. CASE r.method \notin Invocations
  <2>1. r.method \in {"completion/complete", "subscriptions/listen"}
    BY <1>2, ReachIs
  <2>2. Reach(r).targets = {<<r.ref, r.names[i]>> : i \in DOMAIN r.names}
    BY <2>1, ReachRefers
  <2>3. QED
    BY <1>2, <2>2 DEF Uses
<1>3. QED
  BY <1>1, <1>2

\* The resources covering a URI are those the upstream could serve it from.
LEMMA CoveringServes ==
  ASSUME NEW c, HasIndex(c), NEW uri
  PROVE  Covering(c, uri) = MayServe(c, <<"resource", uri>>)
<1>1. Indexed(c) \subseteq DOMAIN c.perms
  BY DEF HasIndex, Indexed
<1>2. \A l \in Indexed(c) :
        (IF IsTemplate(uri) THEN c.uris[l] = uri ELSE Covers(c.uris[l], uri))
          <=> (c.uris[l] = uri \/ (~IsTemplate(uri) /\ IsTemplate(c.uris[l]) /\ uri \in Expansions[c.uris[l]]))
  BY DEF IsTemplate, Covers
<1>3. QED
  BY <1>1, <1>2 DEF Covering, MayServe

\* Paid(use) of EveryRegistrationPaid, for a caller and a use.
PaidFor(c, u, use) ==
  LET all == MayServe(c, use)
      one == {l \in all : use[1] = "tool" /\ l = BareKey(use[2])}
  IN  all # {} /\ \A l \in (IF one = {} THEN all ELSE one) : Can(u, c.perms[l])

\* Who can pay the labels a target is held to has paid for whatever could serve it: the index of a
\* resource holds all of them, and a tool has one price (proxy.ts:512-535; proxy.py:593-620).
LEMMA LabelsPaid ==
  ASSUME NEW c, HasIndex(c), NEW u, NEW kind, NEW name,
         LabelsOf(c, <<kind, name>>) # {},
         \A l \in LabelsOf(c, <<kind, name>>) : Can(u, c.perms[l])
  PROVE  PaidFor(c, u, <<kind, name>>)
<1> DEFINE use == <<kind, name>>
           all == MayServe(c, use)
<1>1. CASE kind = "resource"
  <2>1. LabelsOf(c, use) = all
    BY <1>1, CoveringServes DEF LabelsOf
  <2>2. QED
    BY <1>1, <2>1 DEF PaidFor
<1>2. CASE kind = "tool" /\ BareKey(name) \in DOMAIN c.perms
  <2>1. LabelsOf(c, use) = {BareKey(name)}
    BY <1>2 DEF LabelsOf, ToolLabel
  <2>2. {l \in all : l = BareKey(name)} = {BareKey(name)}
    BY <1>2 DEF MayServe
  <2>3. QED
    BY <1>2, <2>1, <2>2 DEF PaidFor
<1>3. CASE kind = "tool" /\ BareKey(name) \notin DOMAIN c.perms
  <2>1. LabelsOf(c, use) = {use}
    BY <1>3 DEF LabelsOf, ToolLabel
  <2>2. all = {use}
    BY <1>3, <2>1 DEF MayServe, LabelsOf, ToolLabel
  <2>3. QED
    BY <1>3, <2>1, <2>2 DEF PaidFor
<1>4. CASE kind \notin {"resource", "tool"}
  <2>1. LabelsOf(c, use) = {use} /\ use \in DOMAIN c.perms
    BY <1>4 DEF LabelsOf
  <2>2. all = {use}
    BY <1>4, <2>1 DEF MayServe
  <2>3. QED
    BY <2>1, <2>2 DEF PaidFor
<1>5. QED
  BY <1>1, <1>2, <1>3, <1>4

\* scopesForCapability returns what the map has for a prompt or a resource (scopes.ts:25-44).
LEMMA ScopesOfKey ==
  ASSUME NEW map, NEW kind, NEW name, NEW base, kind # "tool", name # "none",
         <<kind, name>> \in DOMAIN map
  PROVE  ScopesFor(map, kind, name, base) = map[<<kind, name>>]
<1> DEFINE keys == <<<<kind, name>>>>
           configured == {i \in DOMAIN keys : keys[i] \in DOMAIN map}
<1>1. configured = {1}
  OBVIOUS
<1>2. (CHOOSE i \in configured : \A j \in configured : i <= j) = 1
  BY <1>1
<1>3. QED
  BY <1>1, <1>2 DEF ScopesFor

\* And for a tool, by the first of its two spellings that the map has.
LEMMA ScopesOfTool ==
  ASSUME NEW map, NEW name, NEW base, name # "none",
         NEW key \in DOMAIN map, key \in ToolKeys(name),
         key # BareKey(name) => BareKey(name) \notin DOMAIN map
  PROVE  ScopesFor(map, "tool", name, base) = map[key]
<1> DEFINE keys == <<BareKey(name), <<"tool", name>>>>
           configured == {i \in DOMAIN keys : keys[i] \in DOMAIN map}
           first == CHOOSE i \in configured : \A j \in configured : i <= j
<1>0. DOMAIN keys = {1, 2} /\ keys[1] = BareKey(name) /\ keys[2] = <<"tool", name>>
  <2> HIDE DEF keys
  <2>1. keys = <<BareKey(name), <<"tool", name>>>>
    BY DEF keys
  <2>2. DOMAIN keys = 1..2 /\ keys[1] = BareKey(name) /\ keys[2] = <<"tool", name>>
    BY <2>1
  <2>3. QED
    BY <2>2
<1>1. configured \in SUBSET Nat /\ configured # {}
  <2> HIDE DEF keys
  <2>1. QED
    BY <1>0 DEF ToolKeys
<1>2. first \in configured /\ \A j \in configured : first <= j
  BY <1>1, SmallestExists
<1>3. keys[first] = key
  <2> HIDE DEF keys, first
  <2>1. CASE key = BareKey(name)
    <3>1. first = 1
      BY <1>0, <1>2, <2>1
    <3>2. QED
      BY <1>0, <2>1, <3>1
  <2>2. CASE key # BareKey(name)
    BY <1>0, <1>2, <2>2 DEF ToolKeys
  <2>3. QED
    BY <2>1, <2>2
<1>4. QED
  BY <1>1, <1>3 DEF ScopesFor

\* What a target of a request is priced at in scopes, when the challenge is paid.
ScopesPaid(c, u, use) ==
  LET about == {k \in DOMAIN c.scopes :
        \/ use[1] # "tool" /\ k \in MayServe(c, use)
        \/ use[1] = "tool" /\ k = BareKey(use[2])
        \/ use[1] = "tool" /\ use[2] \notin DOMAIN Prefixed /\ Canonical(k) = use}
  IN  \A k \in about : c.scopes[k] \subseteq u.scopes

\* The scopes asked for something that is not a tool are at least the map's for each of its labels.
LEMMA TargetScopes ==
  ASSUME NEW c \in Configs, HasIndex(c), NEW u, NEW kind, NEW name \in Name, NEW base,
         kind \notin {"tool"},
         LET each == IF kind = "resource"
                     THEN UNION {ScopesFor(c.scopes, "resource", l[2], base) : l \in Covering(c, name)}
                     ELSE ScopesFor(c.scopes, kind, name, base)
         IN  each \subseteq u.scopes
  PROVE  ScopesPaid(c, u, <<kind, name>>)
<1> DEFINE use == <<kind, name>>
<1>1. SUFFICES ASSUME NEW l \in MayServe(c, use), l \in DOMAIN c.scopes
               PROVE  c.scopes[l] \subseteq u.scopes
  BY DEF ScopesPaid
<1>2. l \in DOMAIN c.perms /\ l \in Label
  BY ConfigsAssumption DEF MayServe
<1>3. l = <<l[1], l[2]>> /\ l[2] # "none"
  BY <1>2 DEF Label, Name
<1>4. CASE kind = "resource"
  <2>1. l \in Covering(c, name) /\ l[1] = "resource"
    BY <1>4, CoveringServes DEF MayServe, Indexed
  <2>2. <<"resource", l[2]>> = l
    BY <1>3, <2>1
  <2>3. ScopesFor(c.scopes, "resource", l[2], base) = c.scopes[l]
    BY <1>1, <1>3, <2>2, ScopesOfKey
  <2>4. ScopesFor(c.scopes, "resource", l[2], base) \subseteq u.scopes
    BY <1>4, <2>1
  <2>5. QED
    BY <2>3, <2>4
<1>5. CASE kind # "resource"
  <2>1. l = use
    BY <1>5 DEF MayServe
  <2>2. name # "none"
    BY DEF Name
  <2>3. ScopesFor(c.scopes, kind, name, base) = c.scopes[l]
    BY <1>1, <2>1, <2>2, ScopesOfKey
  <2>4. QED
    BY <1>5, <2>3
<1>6. QED
  BY <1>4, <1>5

\* And for a tool, whichever of its two spellings the map has.
LEMMA ToolScopes ==
  ASSUME NEW c \in Configs, c.scoped, HasScopes(c), NEW u, NEW name \in Name, NEW base,
         ScopesFor(c.scopes, "tool", name, base) \subseteq u.scopes
  PROVE  ScopesPaid(c, u, <<"tool", name>>)
<1> DEFINE use == <<"tool", name>>
<1>1. SUFFICES ASSUME NEW k \in DOMAIN c.scopes,
                      k = BareKey(name) \/ (name \notin DOMAIN Prefixed /\ Canonical(k) = use)
               PROVE  c.scopes[k] \subseteq u.scopes
  BY DEF ScopesPaid
<1>2. k = <<k[1], k[2]>>
  BY ConfigsAssumption DEF Label
<1>3. k \in ToolKeys(name)
  BY <1>1, <1>2 DEF Canonical, ToolKeys, BareKey
<1>4. k # BareKey(name) => BareKey(name) \notin DOMAIN c.scopes
  <2>1. \A k1, k2 \in DOMAIN c.scopes : Canonical(k1) = Canonical(k2) => k1 = k2
    BY DEF HasScopes
  <2>2. SUFFICES ASSUME k # BareKey(name), BareKey(name) \in DOMAIN c.scopes PROVE FALSE
    OBVIOUS
  <2>3. Canonical(k) = use /\ Canonical(BareKey(name)) = use
    BY <1>1, <2>2 DEF BareKey, Canonical
  <2>4. QED
    BY <2>1, <2>2, <2>3
<1>5. name # "none"
  BY DEF Name
<1>6. ScopesFor(c.scopes, "tool", name, base) = c.scopes[k]
  BY <1>3, <1>4, <1>5, ScopesOfTool
<1>7. QED
  BY <1>6

\* The names a request uses are names.
LEMMA UsesNames ==
  ASSUME NEW r \in Asks, Reach(r).is = "targets", NEW use \in Uses(r)
  PROVE  use = <<use[1], use[2]>> /\ use[2] \in Name
<1>1. IsRequest(r)
  BY AsksAssumption
<1>2. CASE r.method \in Invocations
  <2>1. RouteName(r) # "none"
    BY <1>2, ReachInvokes
  <2>2. r.names # <<>> /\ RouteName(r) = r.names[1]
    BY <1>1, <2>1, RouteNames
  <2>3. use = <<Kind(r.method), r.names[1]>>
    BY <1>2 DEF Uses
  <2>4. r.names[1] \in Name
    BY <1>1, <2>2 DEF IsRequest
  <2>5. QED
    BY <2>3, <2>4
<1>3. CASE r.method \notin Invocations
  <2>1. PICK i \in DOMAIN r.names : use = <<r.ref, r.names[i]>>
    BY <1>3 DEF Uses
  <2>2. r.names[i] \in Name
    BY <1>1, <2>1 DEF IsRequest
  <2>3. QED
    BY <2>1, <2>2
<1>4. QED
  BY <1>2, <1>3

\* The challenge a request is held to asks for every scope of what it uses (ladder.ts:215-244).
LEMMA AskedIsPaid ==
  ASSUME NEW c \in Configs, c.scoped, HasIndex(c), HasScopes(c), NEW u, NEW r \in Asks,
         Reach(r).is = "targets", AskedScopes(c, r) \subseteq u.scopes, NEW use \in Uses(r)
  PROVE  ScopesPaid(c, u, use)
<1> DEFINE base == CHOOSE s \in Baseline : TRUE
           TargetAsks(t) == IF t[1] = "resource"
                            THEN UNION {ScopesFor(c.scopes, "resource", l[2], base) : l \in Covering(c, t[2])}
                            ELSE ScopesFor(c.scopes, t[1], t[2], base)
           targets == IF r.method = "tools/call" THEN {} ELSE Reach(r).targets
           each == UNION {TargetAsks(t) : t \in targets}
<1>1. IsRequest(r) /\ use = <<use[1], use[2]>> /\ use[2] \in Name
  BY AsksAssumption, UsesNames
<1>2. use \in Reach(r).targets
  BY <1>1, ReachesUses
<1>3. AskedScopes(c, r) = Baseline \cup (IF each # {} THEN each
                            ELSE ScopesFor(c.scopes, Kind(r.method), RouteName(r), base))
  BY DEF AskedScopes
<1>4. CASE r.method = "tools/call"
  <2>1. each = {}
    BY <1>4
  <2>2. ScopesFor(c.scopes, "tool", RouteName(r), base) \subseteq u.scopes
    <3> HIDE DEF each, base
    <3>1. QED
      BY <1>3, <1>4, <2>1 DEF Kind
  <2>3. use = <<"tool", RouteName(r)>>
    BY <1>2, <1>4, ReachInvokes DEF Invocations, Kind
  <2>4. RouteName(r) \in Name
    BY <1>1, <2>3
  <2>5. QED
    BY <2>2, <2>3, <2>4, ToolScopes
<1>5. CASE r.method # "tools/call"
  <2>1. TargetAsks(use) \subseteq each
    <3>1. use \in targets
      BY <1>2, <1>5
    <3> HIDE DEF TargetAsks, targets
    <3>2. QED
      BY <3>1
  <2>2. TargetAsks(use) \subseteq u.scopes
    <3> HIDE DEF each, TargetAsks, base
    <3>1. QED
      BY <1>3, <2>1
  <2>3. use[1] # "tool"
    <3>1. CASE r.method \in Invocations
      BY <1>5, <3>1 DEF Uses, Kind, Invocations
    <3>2. CASE r.method \notin Invocations
      <4>1. r.ref = use[1]
        BY <3>2 DEF Uses
      <4>2. r.method \in {"completion/complete", "subscriptions/listen"}
        BY <3>2, ReachIs
      <4>3. QED
        BY <4>1, <4>2, AsksAssumption
    <3>3. QED
      BY <3>1, <3>2
  <2>4. ScopesPaid(c, u, <<use[1], use[2]>>)
    <3> DEFINE kind == use[1]
               name == use[2]
    <3>1. TargetAsks(use) = IF kind = "resource"
                     THEN UNION {ScopesFor(c.scopes, "resource", l[2], base) : l \in Covering(c, name)}
                     ELSE ScopesFor(c.scopes, kind, name, base)
      OBVIOUS
    <3>2. kind # "tool" /\ name \in Name
      BY <1>1, <2>3
    <3> HIDE DEF kind, name, base, TargetAsks
    <3>3. ScopesPaid(c, u, <<kind, name>>)
      BY <2>2, <3>1, <3>2, TargetScopes
    <3>4. QED
      BY <3>3 DEF kind, name
  <2>5. QED
    BY <1>1, <2>4
<1>6. QED
  BY <1>4, <1>5

-----------------------------------------------------------------------------
(* The state: one configuration both proxies checked, and what they answer *)
(* to one request.                                                         *)

BothBooted ==
  config # <<>> => \E c \in Configs : /\ config = <<c>>
                                      /\ ts # Down => TsBoot(c) = "pass"
                                      /\ py # Down => PyBoot(c) = "pass"
BothAnswer ==
  asked # <<>> => /\ config # <<>>
                  /\ \E u \in Callers, r \in Asks : /\ asked = <<u, r>>
                                                    /\ ts \in {Down, TsAnswer(config[1], u, r)}
                                                    /\ py \in {Down, PyAnswer(config[1], u, r)}
BothIdle == asked = <<>> => ts \in {Idle, Down} /\ py \in {Idle, Down}
PInv == BothBooted /\ BothAnswer /\ BothIdle

\* A proxy answers only after the checks of its start passed, and answers the call that is in.
LEMMA PInvariance == PricingSpec => []PInv
<1>1. PricingInit => PInv
  BY DEF PricingInit, PInv, BothBooted, BothAnswer, BothIdle
<1>2. PInv /\ [PricingNext]_pricingVars => PInv'
  <2> SUFFICES ASSUME PInv, [PricingNext]_pricingVars PROVE PInv'
    OBVIOUS
  <2> USE DEF PInv
  <2>1. ASSUME NEW c \in Configs, Boot(c) PROVE PInv'
    <3>1. asked = <<>> /\ asked' = <<>>
      BY <2>1 DEF Boot, BothAnswer
    <3>2. BothBooted'
      BY <2>1 DEF Boot, BothBooted
    <3>3. BothIdle' /\ BothAnswer'
      BY <2>1, <3>1 DEF Boot, BothIdle, BothAnswer
    <3>4. QED
      BY <3>2, <3>3
  <2>2. ASSUME NEW u \in Callers, NEW r \in Asks, Ask(u, r) PROVE PInv'
    <3>1. asked' = <<u, r>> /\ asked' # <<>> /\ config' = config /\ config # <<>>
      BY <2>2 DEF Ask
    <3>2. ts' \in {Down, TsAnswer(config[1], u, r)} /\ py' \in {Down, PyAnswer(config[1], u, r)}
      BY <2>2 DEF Ask
    <3>3. ts' # Down => ts # Down
      BY <2>2 DEF Ask
    <3>4. py' # Down => py # Down
      BY <2>2 DEF Ask
    <3>5. BothBooted'
      BY <3>1, <3>3, <3>4 DEF BothBooted
    <3>6. BothAnswer' /\ BothIdle'
      BY <3>1, <3>2 DEF BothAnswer, BothIdle
    <3>7. QED
      BY <3>5, <3>6
  <2>3. CASE Answered
    <3>1. BothBooted'
      BY <2>3 DEF Answered, BothBooted
    <3>2. BothAnswer' /\ BothIdle'
      BY <2>3 DEF Answered, BothAnswer, BothIdle
    <3>3. QED
      BY <3>1, <3>2
  <2>4. CASE UNCHANGED pricingVars
    BY <2>4 DEF pricingVars, BothBooted, BothAnswer, BothIdle
  <2>5. QED
    BY <2>1, <2>2, <2>3, <2>4 DEF PricingNext
<1>3. QED
  BY <1>1, <1>2, PTL DEF PricingSpec

\* What is not passed through and is affordable reaches targets, and each of them is paid for.
LEMMA AffordableIsPaid ==
  ASSUME NEW c \in Configs, HasIndex(c), NEW u, NEW r \in Asks,
         Reach(r).is = "targets", ~Unaffordable(c, u, Reach(r).targets), NEW use \in Uses(r)
  PROVE  PaidFor(c, u, use)
<1>1. IsRequest(r) /\ use = <<use[1], use[2]>>
  BY AsksAssumption, UsesNames
<1>2. use \in Reach(r).targets
  BY <1>1, ReachesUses
<1>3. LabelsOf(c, use) # {} /\ \A l \in LabelsOf(c, use) : Can(u, c.perms[l])
  BY <1>2 DEF Unaffordable
<1>4. QED
  <2> DEFINE kind == use[1]
             name == use[2]
  <2>1. use = <<kind, name>>
    BY <1>1
  <2> HIDE DEF kind, name
  <2>2. QED
    BY <1>3, <2>1, LabelsPaid

\* Every request a proxy lets through has been paid for at each registration that could serve it
\* (proxy.ts:463-472, 505-583; proxy.py:593-640).
THEOREM EveryRegistrationIsPaid == PricingSpec => []EveryRegistrationPaid
<1>1. PInv => EveryRegistrationPaid
  <2> SUFFICES ASSUME PInv, asked # <<>> PROVE EveryRegistrationPaid
    BY DEF EveryRegistrationPaid
  <2>1. PICK c \in Configs : config = <<c>> /\ (ts # Down => TsBoot(c) = "pass")
                             /\ (py # Down => PyBoot(c) = "pass")
    BY DEF PInv, BothBooted, BothAnswer
  <2>2. PICK u \in Callers, r \in Asks : asked = <<u, r>> /\ ts \in {Down, TsAnswer(c, u, r)}
                                         /\ py \in {Down, PyAnswer(c, u, r)}
    BY <2>1 DEF PInv, BothAnswer
  <2>3. IsRequest(r) /\ Down.why = "down"
    BY AsksAssumption DEF Down, Verdict
  <2>4. ASSUME ts.why = "pass", r.method \notin PassThrough \cup Notices, NEW use \in Uses(r)
        PROVE  PaidFor(c, u, use) /\ (c.scoped => ScopesPaid(c, u, use))
    <3>1. ts # Down /\ TsAnswer(c, u, r).why = "pass"
      BY <2>2, <2>3, <2>4
    <3>2. HasIndex(c) /\ HasScopes(c)
      BY <2>1, <3>1, TsBooted
    <3>3. TsPass(c, u, r)
      BY <3>1, TsPasses
    <3>4. Reach(r).is = "targets" /\ ~Unaffordable(c, u, Reach(r).targets)
      BY <2>4, <3>3, ReachIs DEF TsPass, Affordable
    <3>5. c.scoped => AskedScopes(c, r) \subseteq u.scopes
      BY <3>3 DEF TsPass
    <3>6. QED
      BY <3>2, <3>4, <3>5, AffordableIsPaid, AskedIsPaid
  <2>5. ASSUME py.why = "pass", r.method \notin PassThrough \cup Notices, NEW use \in Uses(r)
        PROVE  PaidFor(c, u, use)
    <3>1. py # Down /\ PyAnswer(c, u, r).why = "pass"
      BY <2>2, <2>3, <2>5
    <3>2. HasIndex(c)
      BY <2>1, <3>1, PyBooted
    <3>3. PyPass(c, u, r)
      BY <2>3, <3>1, PyPasses DEF IsRequest
    <3>4. Reach(r).is # "unknown"
      BY <2>5, <3>3, ReachIs DEF PyPass, PyAllowed
    <3>5. Reach(r).is = "targets" /\ ~Unaffordable(c, u, Reach(r).targets)
      BY <3>3, <3>4, ReachIs DEF PyPass
    <3>6. QED
      BY <3>2, <3>5, AffordableIsPaid
  <2>6. config[1] = c /\ asked[1] = u /\ asked[2] = r
    BY <2>1, <2>2
  <2>7. QED
    BY <2>4, <2>5, <2>6 DEF EveryRegistrationPaid, PaidFor, ScopesPaid
<1>2. QED
  BY <1>1, PInvariance, PTL

-----------------------------------------------------------------------------
(* The two ladders side by side.                                           *)

\* A request's preflight (ladder.ts:112-160).
LEMMA PreflightPasses ==
  ASSUME NEW r, r.body \in Bodies
  PROVE  /\ Preflight(r) = "pass" <=> /\ r.body = "ok" /\ Classified(r) # "reject"
                                      /\ ~(Classified(r) = "legacy" /\ r.method = "none")
         /\ Preflight(r) # "step_up"
<1> DEFINE g1 == Rung("not_json_type", r.body = "not_json_type")
           g2 == Rung("too_large", r.body = "too_large")
           g3 == Rung("not_json", r.body = "not_json")
           g4 == Rung("repeats_a_key", r.body = "repeats_a_key")
           g5 == Rung("disagrees", Classified(r) = "reject")
           g6 == Rung("no_method", Classified(r) = "legacy" /\ r.method = "none")
           rungs == <<g1, g2, g3, g4, g5, g6>>
<1>1. Preflight(r) = FirstRefusal(rungs)
  BY DEF Preflight
<1>2. /\ g1 = "pass" <=> r.body # "not_json_type"
      /\ g2 = "pass" <=> r.body # "too_large"
      /\ g3 = "pass" <=> r.body # "not_json"
      /\ g4 = "pass" <=> r.body # "repeats_a_key"
  BY DEF Rung
<1>3. /\ g5 = "pass" <=> Classified(r) # "reject"
      /\ g6 = "pass" <=> ~(Classified(r) = "legacy" /\ r.method = "none")
  BY DEF Rung
<1>4. "step_up" \notin {g1, g2, g3, g4, g5, g6}
  BY DEF Rung
<1> HIDE DEF g1, g2, g3, g4, g5, g6
<1>5. DOMAIN rungs = 1..6 /\ \A i \in 1..6 : rungs[i] \in {g1, g2, g3, g4, g5, g6}
  OBVIOUS
<1>6. FirstRefusal(rungs) = "pass"
        <=> g1 = "pass" /\ g2 = "pass" /\ g3 = "pass" /\ g4 = "pass" /\ g5 = "pass" /\ g6 = "pass"
  <2>1. (\A i \in 1..6 : rungs[i] = "pass")
          <=> rungs[1] = "pass" /\ rungs[2] = "pass" /\ rungs[3] = "pass" /\ rungs[4] = "pass" /\ rungs[5] = "pass"
              /\ rungs[6] = "pass"
    OBVIOUS
  <2>2. QED
    BY <1>5, <2>1, PassesAll
<1>7. FirstRefusal(rungs) # "step_up"
  <2>1. SUFFICES ASSUME FirstRefusal(rungs) # "pass" PROVE FirstRefusal(rungs) # "step_up"
    OBVIOUS
  <2>2. PICK i \in DOMAIN rungs : FirstRefusal(rungs) = rungs[i]
    <3> HIDE DEF rungs
    <3>1. QED
      BY <1>5, <2>1, RefusalIsFirst
  <2>3. QED
    BY <1>4, <1>5, <2>2
<1>8. QED
  BY <1>1, <1>2, <1>3, <1>6, <1>7 DEF Bodies

\* What is modern carries the revision header, and what carries it is modern or refused.
LEMMA ClassifiedModern ==
  ASSUME NEW r, IsRequest(r)
  PROVE  Classified(r) = "modern" <=> r.modern /\ Classified(r) # "reject"
<1>1. r.modern \in BOOLEAN /\ r.id \in BOOLEAN /\ r.mhdr \in {"same", "other", "none"}
  BY DEF IsRequest
<1>2. CASE ~r.modern
  BY <1>1, <1>2 DEF Classified
<1>3. CASE r.modern
  BY <1>1, <1>3 DEF Classified
<1>4. QED
  BY <1>2, <1>3

\* The permission the gate reports is held by whoever can pay for everything the request reaches:
\* the gate refuses nothing that the price would let through.
LEMMA AffordableIsPermitted ==
  ASSUME NEW c, NEW u, NEW r, IsRequest(r),
         r.method = "resources/read" => ~IsTemplate(RouteName(r)),
         ~Unaffordable(c, u, Reach(r).targets)
  PROVE  Permitted(c, u, r)
<1> DEFINE n == RouteName(r)
           matched == IF r.method = "resources/read" THEN {l \in Indexed(c) : Covers(c.uris[l], n)}
                      ELSE LabelsOf(c, <<Kind(r.method), n>>)
           failing == {l \in matched : ~Can(u, c.perms[l])}
<1>1. CASE n = "none"
  BY <1>1 DEF Permitted, FlatPermission
<1>2. CASE n # "none"
  <2>1. r.method \in Invocations
    BY <1>2, RouteNames
  <2>2. <<Kind(r.method), n>> \in Reach(r).targets
    BY <1>2, <2>1, ReachInvokes
  <2>3. matched = LabelsOf(c, <<Kind(r.method), n>>)
    <3>1. CASE r.method = "resources/read"
      BY <3>1 DEF LabelsOf, Covering, Kind
    <3>2. CASE r.method # "resources/read"
      BY <3>2
    <3>3. QED
      BY <3>1, <3>2
  <2>4. matched # {} /\ failing = {}
    BY <2>2, <2>3 DEF Unaffordable
  <2>5. FlatPermission(c, u, r) = c.perms[CHOOSE l \in matched : TRUE]
    BY <1>2, <2>4 DEF FlatPermission
  <2>6. (CHOOSE l \in matched : TRUE) \in matched
    BY <2>4
  <2>7. QED
    BY <2>4, <2>5, <2>6 DEF Permitted
<1>3. QED
  BY <1>1, <1>2

\* On the requests ProxiesAgree speaks of, the two ladders let the same ones through.
LEMMA LaddersAgree ==
  ASSUME NEW c, ~c.scoped, NEW u, NEW r \in Asks, r.id, r.method \notin Notices,
         ~(r.method = "resources/read" /\ r.names # <<>> /\ IsTemplate(r.names[1]))
  PROVE  TsPass(c, u, r) <=> PyPass(c, u, r)
<1>1. IsRequest(r) /\ r.body \in Bodies
  BY AsksAssumption DEF IsRequest
<1>2. Preflight(r) = "pass" /\ Classified(r) = "modern" <=> r.body = "ok" /\ r.modern /\ Classified(r) # "reject"
  BY <1>1, PreflightPasses, ClassifiedModern
<1>3. r.method \in PyAllowed(r) <=> r.method \in PassThrough \cup Notices \/ Reach(r).is # "unknown"
  BY ReachIs DEF PyAllowed
<1>4. ~Unaffordable(c, u, Reach(r).targets) => Permitted(c, u, r)
  <2>1. CASE RouteName(r) = "none"
    BY <2>1 DEF Permitted, FlatPermission
  <2>2. CASE RouteName(r) # "none"
    BY <1>1, <2>2, RouteNames, AffordableIsPermitted
  <2>3. QED
    BY <2>1, <2>2
<1>5. QED
  BY <1>2, <1>3, <1>4 DEF TsPass, PyPass, Affordable

\* The two proxies let the same requests through (proxy.ts:482-548; proxy.py:238-338, 593-620).
THEOREM ProxiesLetTheSameThrough == PricingSpec => []ProxiesAgree
<1>1. PInv => ProxiesAgree
  <2> SUFFICES ASSUME PInv, asked # <<>>, Down \notin {ts, py}, ~config[1].scoped PROVE ProxiesAgree
    BY DEF ProxiesAgree
  <2>1. PICK u \in Callers, r \in Asks : asked = <<u, r>> /\ ts = TsAnswer(config[1], u, r)
                                         /\ py = PyAnswer(config[1], u, r)
    BY DEF PInv, BothAnswer
  <2>2. r.body \in Bodies
    BY AsksAssumption DEF IsRequest
  <2>3. (ts.why = "pass" <=> TsPass(config[1], u, r)) /\ (py.why = "pass" <=> PyPass(config[1], u, r))
    BY <2>1, <2>2, TsPasses, PyPasses
  <2>4. asked[2] = r
    BY <2>1
  <2>5. QED
    BY <2>3, <2>4, LaddersAgree DEF ProxiesAgree
<1>2. QED
  BY <1>1, PInvariance, PTL

-----------------------------------------------------------------------------
(* The challenge.                                                          *)

\* What the rungs behind the gate answer (proxy.ts:254-285, 480-545).
LEMMA BehindTheGate ==
  ASSUME NEW c, NEW u, NEW r, r.post, Baseline \subseteq u.scopes, u.perms # {},
         GateOpen(r, c.scoped, TRUE, Permitted(c, u, r), AskedScopes(c, r), u.scopes)
  PROVE  LET why == TsAnswer(c, u, r).why
         IN  /\ why \in {"pass", "headers_needed", "no_such_method", "malformed", "policy_denied", "arguments"}
             /\ why = "malformed" => Reach(r).is = "malformed"
             /\ why = "policy_denied" => Unaffordable(c, u, Reach(r).targets)
<1> DEFINE gate == GateRungs(r, c.scoped, TRUE, Permitted(c, u, r), AskedScopes(c, r), u.scopes)
           g1 == Rung("not_post", ~r.post)
           g2 == Rung("baseline", ~(Baseline \subseteq u.scopes))
           g3 == Rung("not_permitted", u.perms = {})
           g4 == FirstRefusal(gate)
           g5 == Rung("headers_needed", Classified(r) # "modern")
           g6 == Rung("no_such_method", r.method \notin PassThrough \cup Notices /\ Reach(r).is = "unknown")
           g7 == Rung("malformed", Reach(r).is = "malformed")
           g8 == Rung("policy_denied", Unaffordable(c, u, Reach(r).targets))
           g9 == Rung("arguments", r.method = "tools/call" /\ ~r.fits)
           rungs == <<g1, g2, g3, g4, g5, g6, g7, g8, g9>>
           why == FirstRefusal(rungs)
<1>1. TsAnswer(c, u, r).why = why
  BY DEF TsRungs, Permitted, TsAnswer, Verdict
<1>2. g1 = "pass" /\ g2 = "pass" /\ g3 = "pass"
  BY DEF Rung
<1>3. g4 = "pass"
  BY GatePasses
<1>4. /\ g5 \in {"pass", "headers_needed"}
      /\ g6 \in {"pass", "no_such_method"}
      /\ g7 \in {"pass", "malformed"} /\ (g7 = "malformed" => Reach(r).is = "malformed")
      /\ g8 \in {"pass", "policy_denied"} /\ (g8 = "policy_denied" => Unaffordable(c, u, Reach(r).targets))
      /\ g9 \in {"pass", "arguments"}
  BY DEF Rung
<1> HIDE DEF g1, g2, g3, g4, g5, g6, g7, g8, g9
<1>5. why = "pass" \/ why \in {g5, g6, g7, g8, g9}
  <2>1. SUFFICES ASSUME why # "pass" PROVE why \in {g5, g6, g7, g8, g9}
    OBVIOUS
  <2>2. DOMAIN rungs = 1..9
    OBVIOUS
  <2>3. PICK i \in DOMAIN rungs : why = rungs[i]
    <3> HIDE DEF rungs
    <3>1. DOMAIN rungs \subseteq Nat
      BY <2>2
    <3>2. QED
      BY <2>1, <3>1, RefusalIsFirst
  <2>4. i \in 1..9
    BY <2>2, <2>3
  <2>5. \A k \in 1..9 : rungs[k] \in {g1, g2, g3, g4, g5, g6, g7, g8, g9}
    OBVIOUS
  <2>6. why \in {g1, g2, g3, g4, g5, g6, g7, g8, g9}
    BY <2>3, <2>4, <2>5
  <2>7. QED
    BY <1>2, <1>3, <2>1, <2>6
<1> HIDE DEF why
<1>6. QED
  BY <1>1, <1>4, <1>5

\* The gate challenges whoever passes all of it but the scopes (ladder.ts:190-213).
LEMMA GateStepsUp ==
  ASSUME NEW c, NEW u, NEW r, r.body \in Bodies,
         FirstRefusal(GateRungs(r, c.scoped, TRUE, Permitted(c, u, r), AskedScopes(c, r), u.scopes)) = "step_up"
  PROVE  /\ GateOpen(r, c.scoped, TRUE, Permitted(c, u, r), AskedScopes(c, r), AskedScopes(c, r))
         /\ c.scoped /\ ~(AskedScopes(c, r) \subseteq u.scopes) /\ Permitted(c, u, r)
<1> DEFINE read == r.post /\ Preflight(r) = "pass"
           g1 == Rung(Preflight(r), r.post /\ Preflight(r) # "pass" /\ (c.scoped \/ TRUE))
           g2 == Rung("headers_needed", c.scoped /\ read /\ Classified(r) # "modern")
           g3 == Rung("policy_denied", read /\ ~Permitted(c, u, r))
           g4 == Rung("step_up", read /\ c.scoped /\ ~(AskedScopes(c, r) \subseteq u.scopes))
           rungs == <<g1, g2, g3, g4>>
<1>1. GateRungs(r, c.scoped, TRUE, Permitted(c, u, r), AskedScopes(c, r), u.scopes) = rungs
  BY DEF GateRungs
<1>2. g1 # "step_up" /\ g2 # "step_up" /\ g3 # "step_up"
  BY PreflightPasses DEF Rung
<1>3. /\ g1 = "pass" => ~(r.post /\ Preflight(r) # "pass")
      /\ g2 = "pass" => ~(c.scoped /\ read /\ Classified(r) # "modern")
      /\ g3 = "pass" => ~(read /\ ~Permitted(c, u, r))
  BY DEF Rung
<1>4. g4 = "step_up" => read /\ c.scoped /\ ~(AskedScopes(c, r) \subseteq u.scopes)
  BY DEF Rung
<1> HIDE DEF g1, g2, g3, g4
<1>5. DOMAIN rungs = 1..4 /\ rungs[1] = g1 /\ rungs[2] = g2 /\ rungs[3] = g3 /\ rungs[4] = g4
  OBVIOUS
<1> HIDE DEF rungs
<1>6. PICK i \in DOMAIN rungs : rungs[i] = "step_up" /\ \A j \in DOMAIN rungs : j < i => rungs[j] = "pass"
  <2>1. FirstRefusal(rungs) = "step_up"
    BY <1>1, Zenon
  <2>2. DOMAIN rungs \subseteq Nat
    BY <1>5
  <2>3. QED
    BY <2>1, <2>2, RefusalIsFirst
<1>7. i = 4
  BY <1>2, <1>5, <1>6
<1>8. g1 = "pass" /\ g2 = "pass" /\ g3 = "pass" /\ g4 = "step_up"
  BY <1>5, <1>6, <1>7
<1>9. QED
  BY <1>3, <1>4, <1>8 DEF GateOpen

\* So a proxy challenges only a caller its baseline and its policy let in.
LEMMA ChallengeIsTheGates ==
  ASSUME NEW c, NEW u, NEW r, r.body \in Bodies, TsAnswer(c, u, r).why = "step_up"
  PROVE  /\ r.post /\ Baseline \subseteq u.scopes /\ u.perms # {} /\ c.scoped
         /\ TsAnswer(c, u, r).challenge = AskedScopes(c, r)
         /\ ~(AskedScopes(c, r) \subseteq u.scopes) /\ Permitted(c, u, r)
         /\ GateOpen(r, c.scoped, TRUE, Permitted(c, u, r), AskedScopes(c, r), AskedScopes(c, r))
<1> DEFINE gate == GateRungs(r, c.scoped, TRUE, Permitted(c, u, r), AskedScopes(c, r), u.scopes)
           g1 == Rung("not_post", ~r.post)
           g2 == Rung("baseline", ~(Baseline \subseteq u.scopes))
           g3 == Rung("not_permitted", u.perms = {})
           g4 == FirstRefusal(gate)
           g5 == Rung("headers_needed", Classified(r) # "modern")
           g6 == Rung("no_such_method", r.method \notin PassThrough \cup Notices /\ Reach(r).is = "unknown")
           g7 == Rung("malformed", Reach(r).is = "malformed")
           g8 == Rung("policy_denied", Unaffordable(c, u, Reach(r).targets))
           g9 == Rung("arguments", r.method = "tools/call" /\ ~r.fits)
           rungs == <<g1, g2, g3, g4, g5, g6, g7, g8, g9>>
<1>1. TsRungs(c, u, r) = rungs
  BY DEF TsRungs, Permitted
<1>2. FirstRefusal(rungs) = "step_up"
  BY <1>1 DEF TsAnswer, Verdict
<1>3. "step_up" \notin {g1, g2, g3, g5, g6, g7, g8, g9}
  BY DEF Rung
<1>4. /\ g1 = "pass" => r.post
      /\ g2 = "pass" => Baseline \subseteq u.scopes
      /\ g3 = "pass" => u.perms # {}
  BY DEF Rung
<1> HIDE DEF g1, g2, g3, g4, g5, g6, g7, g8, g9
<1>5. DOMAIN rungs = 1..9
  OBVIOUS
<1>6. /\ rungs[1] = g1 /\ rungs[2] = g2 /\ rungs[3] = g3 /\ rungs[4] = g4 /\ rungs[5] = g5
      /\ rungs[6] = g6 /\ rungs[7] = g7 /\ rungs[8] = g8 /\ rungs[9] = g9
  OBVIOUS
<1> HIDE DEF rungs
<1>7. PICK i \in DOMAIN rungs : rungs[i] = "step_up" /\ \A j \in DOMAIN rungs : j < i => rungs[j] = "pass"
  <2>1. DOMAIN rungs \subseteq Nat
    BY <1>5
  <2>2. QED
    BY <1>2, <2>1, RefusalIsFirst
<1>8. i = 4
  BY <1>3, <1>5, <1>6, <1>7
<1>9. g1 = "pass" /\ g2 = "pass" /\ g3 = "pass" /\ g4 = "step_up"
  BY <1>5, <1>6, <1>7, <1>8
<1>10. TsAnswer(c, u, r).challenge = AskedScopes(c, r)
  BY <1>1, <1>2 DEF TsAnswer, Verdict
<1>11. QED
  <2>1. FirstRefusal(GateRungs(r, c.scoped, TRUE, Permitted(c, u, r), AskedScopes(c, r), u.scopes)) = "step_up"
    BY <1>9 DEF g4
  <2>2. /\ GateOpen(r, c.scoped, TRUE, Permitted(c, u, r), AskedScopes(c, r), AskedScopes(c, r))
        /\ c.scoped /\ ~(AskedScopes(c, r) \subseteq u.scopes) /\ Permitted(c, u, r)
    BY <2>1, GateStepsUp
  <2>3. QED
    BY <1>4, <1>9, <1>10, <2>2

\* The map asks a name for something other than the baseline only under one of its keys.
LEMMA ScopesConfigured ==
  ASSUME NEW map, NEW kind, NEW name, NEW base, ScopesFor(map, kind, name, base) # {base}
  PROVE  \/ <<kind, name>> \in DOMAIN map
         \/ (kind = "tool" /\ BareKey(name) \in DOMAIN map)
<1> DEFINE keys == IF kind = "tool" THEN <<BareKey(name), <<"tool", name>>>> ELSE <<<<kind, name>>>>
           configured == {i \in DOMAIN keys : keys[i] \in DOMAIN map}
<1>1. configured # {}
  BY DEF ScopesFor
<1>2. PICK i \in DOMAIN keys : keys[i] \in DOMAIN map
  BY <1>1
<1>3. CASE kind = "tool"
  BY <1>2, <1>3
<1>4. CASE kind # "tool"
  BY <1>2, <1>4
<1>5. QED
  BY <1>3, <1>4

\* A tool or a prompt is asked for the baseline and its own scopes.
LEMMA AskedOne ==
  ASSUME NEW c, NEW r, r.method \in {"tools/call", "prompts/get"}
  PROVE  AskedScopes(c, r) = Baseline \cup ScopesFor(c.scopes, Kind(r.method), RouteName(r), CHOOSE s \in Baseline : TRUE)
<1> DEFINE base == CHOOSE s \in Baseline : TRUE
           TargetAsks(t) == IF t[1] = "resource"
                            THEN UNION {ScopesFor(c.scopes, "resource", l[2], base) : l \in Covering(c, t[2])}
                            ELSE ScopesFor(c.scopes, t[1], t[2], base)
           targets == IF r.method = "tools/call" THEN {} ELSE Reach(r).targets
           each == UNION {TargetAsks(t) : t \in targets}
           own == ScopesFor(c.scopes, Kind(r.method), RouteName(r), base)
<1>1. AskedScopes(c, r) = Baseline \cup (IF each # {} THEN each ELSE own)
  BY DEF AskedScopes
<1>2. targets = {} \/ (targets = {<<Kind(r.method), RouteName(r)>>} /\ r.method = "prompts/get")
  <2>1. CASE r.method = "tools/call"
    BY <2>1
  <2>2. CASE r.method = "prompts/get"
    <3>1. targets = Reach(r).targets
      BY <2>2
    <3>2. Reach(r) = IF RouteName(r) = "none" THEN [is |-> "malformed", targets |-> {}]
                     ELSE [is |-> "targets", targets |-> {<<Kind(r.method), RouteName(r)>>}]
      BY <2>2, ReachInvokes DEF Invocations
    <3>3. QED
      BY <2>2, <3>1, <3>2
  <2>3. QED
    BY <2>1, <2>2
<1>3. TargetAsks(<<Kind("prompts/get"), RouteName(r)>>) = ScopesFor(c.scopes, Kind("prompts/get"), RouteName(r), base)
  BY DEF Kind
<1>4. each = {} \/ each = own
  <2>1. CASE targets = {}
    <3> HIDE DEF TargetAsks, targets
    <3>1. QED
      BY <2>1
  <2>2. CASE targets = {<<Kind(r.method), RouteName(r)>>} /\ r.method = "prompts/get"
    <3> HIDE DEF TargetAsks, targets
    <3>1. each = TargetAsks(<<Kind(r.method), RouteName(r)>>)
      BY <2>2
    <3>2. QED
      BY <1>3, <2>2, <3>1
  <2>3. QED
    BY <1>2, <2>1, <2>2
<1> HIDE DEF each, own
<1>5. AskedScopes(c, r) = Baseline \cup own
  BY <1>1, <1>4
<1>6. QED
  BY <1>5 DEF own

\* An invocation that is challenged names something, and the permission the gate reported for it
\* is the price of a label it is held to: the price behind the gate cannot refuse it. A tool named
\* like another's "tool:" label may be challenged for that key and still be priced nowhere.
LEMMA ChallengedIsAffordable ==
  ASSUME NEW c \in Configs, NEW u, NEW r \in Asks, HasIndex(c), HasScopes(c), c.scoped,
         Baseline \subseteq u.scopes, ~(AskedScopes(c, r) \subseteq u.scopes), Permitted(c, u, r),
         CallsByName(r) \/ r.method = "prompts/get" \/ ReadsPriced(c, r)
  PROVE  Reach(r).is = "targets" /\ ~Unaffordable(c, u, Reach(r).targets)
<1> DEFINE n == RouteName(r)
           base == CHOOSE s \in Baseline : TRUE
           kind == Kind(r.method)
           labels == LabelsOf(c, <<kind, n>>)
<1>1. IsRequest(r) /\ r.method \in Invocations
  BY AsksAssumption DEF ReadsPriced, CallsByName, Invocations
<1>2. base \in Baseline
  BY DEF HasScopes
<1>3. n # "none" /\ labels # {}
  <2>1. CASE r.method \in {"tools/call", "prompts/get"}
    <3>1. AskedScopes(c, r) = Baseline \cup ScopesFor(c.scopes, kind, n, base)
      BY <2>1, AskedOne
    <3>2. ScopesFor(c.scopes, kind, n, base) # {base}
      <4> HIDE DEF base, kind, n
      <4>1. QED
        BY <1>2, <3>1
    <3>3. n # "none"
      BY <3>2 DEF ScopesFor
    <3>4. kind \in {"tool", "prompt"}
      BY <2>1 DEF Kind
    <3>5. PICK k \in DOMAIN c.scopes : k = <<kind, n>> \/ (kind = "tool" /\ k = BareKey(n))
      <4> HIDE DEF base, kind, n
      <4>1. <<kind, n>> \in DOMAIN c.scopes \/ (kind = "tool" /\ BareKey(n) \in DOMAIN c.scopes)
        BY <3>2, ScopesConfigured
      <4>2. QED
        BY <4>1
    <3>6. Registered(c, k)
      BY DEF HasScopes
    <3>7. CASE kind = "tool"
      <4>1. BareKey(n)[1] # "tool"
        BY <1>1, <2>1, <3>7, Zenon DEF CallsByName, ReadsPriced, Kind, Invocations
      <4>2. ASSUME Canonical(k) = <<"tool", n>>
            PROVE  ToolKeys(n) \cap DOMAIN c.perms # {}
        <5> HIDE DEF kind, n
        <5>1. QED
          BY <3>6, <4>2 DEF Registered
      <4>3. ASSUME Canonical(k) # <<"tool", n>>
            PROVE  ToolKeys(n) \cap DOMAIN c.perms # {}
        <5> HIDE DEF kind, n
        <5>1. k = BareKey(n) /\ n \in DOMAIN Prefixed
          BY <3>5, <3>7, <4>3 DEF Canonical, BareKey
        <5>2. k[1] \in {"prompt", "resource"}
          BY <4>1, <5>1, PrefixedAssumption DEF BareKey
        <5>3. Canonical(k) = k
          BY <5>2 DEF Canonical
        <5>4. k \in DOMAIN c.perms
          BY <3>6, <5>2, <5>3 DEF Registered
        <5>5. QED
          BY <5>1, <5>4 DEF ToolKeys
      <4>4. ToolKeys(n) \cap DOMAIN c.perms # {}
        BY <4>2, <4>3
      <4>5. ToolLabel(c, n) \in DOMAIN c.perms
        <5> HIDE DEF kind, n
        <5>1. QED
          BY <4>4 DEF ToolLabel, ToolKeys
      <4>6. QED
        BY <3>3, <3>7, <4>5 DEF LabelsOf
    <3>8. CASE kind = "prompt"
      <4>1. <<"prompt", n>> \in DOMAIN c.perms
        <5> HIDE DEF kind, n
        <5>1. QED
          BY <3>5, <3>6, <3>8 DEF Canonical, Registered
      <4>2. QED
        BY <3>3, <3>8, <4>1 DEF LabelsOf
    <3>9. QED
      BY <3>4, <3>7, <3>8
  <2>2. CASE ReadsPriced(c, r)
    <3>1. r.method = "resources/read" /\ kind = "resource" /\ Covering(c, n) # {}
      BY <2>2 DEF ReadsPriced, Kind
    <3>2. labels = Covering(c, n)
      BY <3>1 DEF LabelsOf
    <3>3. n # "none"
      <4>1. PICK l \in Covering(c, n) : TRUE
        BY <3>1
      <4>2. l \in DOMAIN c.uris /\ c.uris[l] \in Name /\ Covers(c.uris[l], n)
        <5>1. ~IsTemplate(n)
          BY <2>2 DEF ReadsPriced
        <5>2. QED
          BY <4>1, <5>1, ConfigsAssumption DEF Covering, Indexed
      <4>3. n \in Name
        BY <4>2, ExpansionsAssumption DEF Covers
      <4>4. QED
        BY <4>3 DEF Name
    <3>4. QED
      BY <3>1, <3>2, <3>3
  <2>3. QED
    BY <2>1, <2>2 DEF CallsByName
<1>4. Reach(r) = [is |-> "targets", targets |-> {<<kind, n>>}]
  BY <1>1, <1>3, ReachInvokes
<1>5. \A l \in labels : Can(u, c.perms[l])
  <2> DEFINE matched == IF r.method = "resources/read" THEN {l \in Indexed(c) : Covers(c.uris[l], n)}
                        ELSE labels
             failing == {l \in matched : ~Can(u, c.perms[l])}
             l0 == CHOOSE l \in failing : TRUE
  <2>1. matched = labels
    <3>1. CASE ReadsPriced(c, r)
      BY <3>1 DEF ReadsPriced, LabelsOf, Covering, Kind
    <3>2. CASE r.method \in {"tools/call", "prompts/get"}
      BY <3>2
    <3>3. QED
      BY <3>1, <3>2 DEF CallsByName
  <2>2. SUFFICES ASSUME failing # {} PROVE FALSE
    BY <2>1
  <2>3. l0 \in failing
    BY <2>2
  <2>4. FlatPermission(c, u, r) = c.perms[l0]
    BY <1>3, <2>1, <2>2 DEF FlatPermission
  <2>5. l0 \in DOMAIN c.perms
    <3>1. l0 \in labels
      BY <2>1, <2>3
    <3>2. CASE r.method = "resources/read"
      <4>1. l0 \in DOMAIN c.uris
        BY <2>3, <3>2 DEF Indexed
      <4>2. QED
        BY <4>1 DEF HasIndex
    <3>3. CASE r.method # "resources/read"
      <4>1. kind \in {"tool", "prompt"}
        BY <1>1, <3>3 DEF Invocations, Kind
      <4>2. QED
        BY <3>1, <4>1 DEF LabelsOf
    <3>4. QED
      BY <3>2, <3>3
  <2>6. c.perms[l0] # "none"
    BY <2>5, ConfigsAssumption DEF Name
  <2>7. QED
    BY <2>3, <2>4, <2>6 DEF Permitted
<1>6. QED
  BY <1>3, <1>4, <1>5 DEF Unaffordable

\* What the gate reports depends on what the caller may do and not on the token's scopes.
LEMMA PermissionOfPerms ==
  ASSUME NEW c, NEW u, NEW v, NEW r, \A p : Can(v, p) <=> Can(u, p)
  PROVE  FlatPermission(c, v, r) = FlatPermission(c, u, r)
<1> DEFINE n == RouteName(r)
           matched == IF r.method = "resources/read" THEN {l \in Indexed(c) : Covers(c.uris[l], n)}
                      ELSE LabelsOf(c, <<Kind(r.method), n>>)
           Failing(w) == {l \in matched : ~Can(w, c.perms[l])}
           Reported(failing) == IF n = "none" \/ matched = {} THEN "none"
                                ELSE c.perms[CHOOSE l \in (IF failing = {} THEN matched ELSE failing) : TRUE]
<1>1. \A w : FlatPermission(c, w, r) = Reported(Failing(w))
  BY DEF FlatPermission
<1>2. Failing(v) = Failing(u)
  <2> HIDE DEF matched
  <2>1. QED
    OBVIOUS
<1> HIDE DEF Reported, Failing
<1>3. QED
  BY <1>1, <1>2

\* A client that comes back with the scopes it was challenged for is not challenged again, and an
\* invocation of something priced is not refused by the policy after it (proxy.ts:254-291,
\* 512-535; proxy.py:593-620).
THEOREM StepUpIsEnough == PricingSpec => []StepUpSettles
<1>1. PInv => StepUpSettles
  <2> SUFFICES ASSUME PInv, asked # <<>>, ts.why = "step_up" PROVE StepUpSettles
    BY DEF StepUpSettles
  <2>1. PICK c \in Configs : config = <<c>> /\ (ts # Down => TsBoot(c) = "pass")
    BY DEF PInv, BothBooted, BothAnswer
  <2>2. PICK u \in Callers, r \in Asks : asked = <<u, r>> /\ ts \in {Down, TsAnswer(c, u, r)}
    BY <2>1 DEF PInv, BothAnswer
  <2>3. ts # Down /\ ts = TsAnswer(c, u, r)
    BY <2>2 DEF Down, Verdict
  <2>4. HasIndex(c) /\ HasScopes(c)
    BY <2>1, <2>3, TsBooted
  <2>5. IsRequest(r) /\ r.body \in Bodies
    BY AsksAssumption DEF IsRequest
  <2> DEFINE v == [u EXCEPT !.scopes = ts.challenge]
             why == TsAnswer(c, v, r).why
  <2>6. /\ r.post /\ Baseline \subseteq u.scopes /\ u.perms # {} /\ c.scoped
        /\ ts.challenge = AskedScopes(c, r) /\ ~(AskedScopes(c, r) \subseteq u.scopes) /\ Permitted(c, u, r)
        /\ GateOpen(r, c.scoped, TRUE, Permitted(c, u, r), AskedScopes(c, r), AskedScopes(c, r))
    BY <2>3, <2>5, ChallengeIsTheGates
  <2>7. v.scopes = AskedScopes(c, r) /\ v.perms = u.perms
    BY <2>6, CallersAssumption
  <2>8. Baseline \subseteq v.scopes
    BY <2>7 DEF AskedScopes
  <2> HIDE DEF v
  <2>9. \A p : Can(v, p) <=> Can(u, p)
    BY <2>7 DEF Can
  <2>10. FlatPermission(c, v, r) = FlatPermission(c, u, r)
    BY <2>9, PermissionOfPerms
  <2>11. Permitted(c, v, r)
    BY <2>6, <2>9, <2>10, Zenon DEF Permitted
  <2>12. GateOpen(r, c.scoped, TRUE, Permitted(c, v, r), AskedScopes(c, r), v.scopes)
    BY <2>6, <2>7, <2>11 DEF GateOpen
  <2>13. /\ why \in {"pass", "headers_needed", "no_such_method", "malformed", "policy_denied", "arguments"}
         /\ why = "malformed" => Reach(r).is = "malformed"
         /\ why = "policy_denied" => Unaffordable(c, v, Reach(r).targets)
    BY <2>6, <2>7, <2>8, <2>12, BehindTheGate
  <2>14. CallsByName(r) \/ r.method = "prompts/get" \/ ReadsPriced(c, r)
           => Reach(r).is = "targets" /\ ~Unaffordable(c, v, Reach(r).targets)
    <3>1. Unaffordable(c, v, Reach(r).targets) <=> Unaffordable(c, u, Reach(r).targets)
      BY <2>9 DEF Unaffordable
    <3>2. QED
      BY <2>4, <2>6, <3>1, ChallengedIsAffordable
  <2>15. config[1] = c /\ asked[1] = u /\ asked[2] = r
    BY <2>1, <2>2
  <2> HIDE DEF why
  <2>16. why \notin {"step_up", "baseline"}
         /\ (CallsByName(r) \/ r.method = "prompts/get" \/ ReadsPriced(c, r) => why \notin Refusals)
    BY <2>13, <2>14 DEF Refusals
  <2>17. QED
    BY <2>15, <2>16 DEF StepUpSettles, why, v
<1>2. QED
  BY <1>1, PInvariance, PTL

-----------------------------------------------------------------------------
(* The plain request for one item.                                         *)

\* A plain request passes every rung that does not ask for a permission or a scope.
LEMMA DirectIs ==
  ASSUME NEW kind \in {"tool", "prompt", "resource"}, NEW name \in Name
  PROVE  LET d == Direct(<<kind, name>>)
         IN  /\ IsRequest(d) /\ d.post /\ d.id /\ d.modern /\ d.body = "ok" /\ d.fits
             /\ d.method \in Invocations /\ (d.method = "resources/read" <=> kind = "resource")
             /\ Preflight(d) = "pass" /\ Classified(d) = "modern"
             /\ RouteName(d) = name /\ Reach(d) = [is |-> "targets", targets |-> {<<kind, name>>}]
<1> DEFINE use == <<kind, name>>
           d == Direct(use)
           method == CASE kind = "tool" -> "tools/call" [] kind = "prompt" -> "prompts/get"
                       [] OTHER -> "resources/read"
<1>1. d = [method |-> method, names |-> <<name>>, id |-> TRUE, post |-> TRUE, body |-> "ok", modern |-> TRUE,
           mhdr |-> "same", nhdr |-> "same", ref |-> kind, fits |-> TRUE]
  BY DEF Direct
<1>2. method \in Invocations /\ (method = "resources/read" <=> kind = "resource") /\ Kind(method) = kind
  BY DEF Invocations, Kind
<1> HIDE DEF method, d
<1>3. /\ d.method = method /\ d.names = <<name>> /\ d.id /\ d.post /\ d.body = "ok" /\ d.modern
      /\ d.mhdr = "same" /\ d.nhdr = "same" /\ d.fits
  BY <1>1
<1>4. IsRequest(d)
  BY <1>1 DEF IsRequest, Bodies
<1>5. Classified(d) = "modern"
  BY <1>3 DEF Classified
<1>6. Preflight(d) = "pass"
  BY <1>3, <1>4, <1>5, PreflightPasses DEF IsRequest
<1>7. RouteName(d) = name
  BY <1>2, <1>3 DEF RouteName, NamesOne
<1>8. Reach(d) = [is |-> "targets", targets |-> {use}]
  <2>1. name # "none"
    BY DEF Name
  <2>2. QED
    BY <1>2, <1>3, <1>7, <2>1, ReachInvokes
<1>9. QED
  BY <1>2, <1>3, <1>4, <1>5, <1>6, <1>7, <1>8 DEF d

\* The labels a plain request for the thing behind a label is held to.
LEMMA AddressIs ==
  ASSUME NEW c \in Configs, HasIndex(c), NEW l \in DOMAIN c.perms, NEW use \in Addresses(c, l)
  PROVE  /\ use = <<use[1], use[2]>> /\ use[1] \in {"tool", "prompt", "resource"} /\ use[2] \in Name
         /\ use[1] = "resource" <=> l[1] = "resource"
         /\ use[1] = "resource" => ~IsTemplate(use[2])
         /\ use[1] # "resource" => use = Canonical(l)
         /\ LabelsOf(c, use) # {} /\ LabelsOf(c, use) \subseteq MayServe(c, use)
         /\ l[1] # "tool" => l \in LabelsOf(c, use)
         /\ l[1] = "tool" => LabelsOf(c, use) = {ToolLabel(c, l[2])}
<1>1. l \in Label
  BY ConfigsAssumption
<1>2. /\ l = <<l[1], l[2]>> /\ l[1] \in {"bare", "tool", "prompt", "resource"} /\ l[2] \in Name
      /\ l[1] = "bare" => BareKey(l[2]) = l
  BY <1>1 DEF Label, BareKey
<1>3. CASE l[1] = "resource"
  <2>1. l \in Indexed(c) /\ c.uris[l] \in Name
    BY <1>3, ConfigsAssumption DEF Indexed, HasIndex
  <2>2. PICK uri \in Name : use = <<"resource", uri>> /\ ~IsTemplate(uri) /\ Covers(c.uris[l], uri)
    <3>1. CASE ~IsTemplate(c.uris[l])
      <4>1. use = <<"resource", c.uris[l]>>
        BY <1>3, <3>1 DEF Addresses
      <4>2. Covers(c.uris[l], c.uris[l])
        BY <3>1 DEF Covers, IsTemplate
      <4>3. QED
        BY <2>1, <3>1, <4>1, <4>2
    <3>2. CASE IsTemplate(c.uris[l])
      <4>1. PICK uri \in Expansions[c.uris[l]] \ DOMAIN Expansions : use = <<"resource", uri>>
        BY <1>3, <3>2 DEF Addresses
      <4>2. uri \in Name
        BY <3>2, ExpansionsAssumption DEF IsTemplate
      <4>3. QED
        BY <3>2, <4>1, <4>2 DEF IsTemplate, Covers
    <3>3. QED
      BY <3>1, <3>2
  <2>3. LabelsOf(c, use) = Covering(c, uri)
    BY <2>2 DEF LabelsOf
  <2>4. l \in Covering(c, uri)
    BY <2>1, <2>2 DEF Covering
  <2>5. Covering(c, uri) = MayServe(c, use)
    BY <2>2, CoveringServes
  <2>6. QED
    BY <1>3, <2>2, <2>3, <2>4, <2>5
<1>4. CASE l[1] = "prompt"
  <2>1. use = l /\ Canonical(l) = l
    BY <1>4 DEF Addresses, Canonical
  <2>2. LabelsOf(c, use) = {l}
    BY <1>4, <2>1 DEF LabelsOf
  <2>3. l \in MayServe(c, use)
    BY <1>4, <2>1 DEF MayServe
  <2>4. QED
    BY <1>2, <1>4, <2>1, <2>2, <2>3
<1>5. CASE l[1] \in {"bare", "tool"}
  <2>1. use = <<"tool", l[2]>> /\ Canonical(l) = use
    BY <1>2, <1>5 DEF Addresses, Canonical
  <2>2. ToolLabel(c, l[2]) \in DOMAIN c.perms
    BY <1>2, <1>5 DEF ToolLabel
  <2>3. LabelsOf(c, use) = {ToolLabel(c, l[2])}
    BY <2>1, <2>2 DEF LabelsOf
  <2>4. ToolLabel(c, l[2]) \in MayServe(c, use)
    BY <2>1, <2>2 DEF ToolLabel, MayServe
  <2>5. l[1] = "bare" => ToolLabel(c, l[2]) = l
    BY <1>2 DEF ToolLabel
  <2>6. QED
    BY <1>2, <1>5, <2>1, <2>3, <2>4, <2>5
<1>6. QED
  BY <1>2, <1>3, <1>4, <1>5

\* Every scope a request is asked for is the baseline's or the map's.
LEMMA ScopesWithin ==
  ASSUME NEW map, NEW kind, NEW name, NEW base
  PROVE  ScopesFor(map, kind, name, base) \subseteq {base} \cup UNION {map[k] : k \in DOMAIN map}
<1> DEFINE keys == IF kind = "tool" THEN <<BareKey(name), <<"tool", name>>>> ELSE <<<<kind, name>>>>
           configured == {i \in DOMAIN keys : keys[i] \in DOMAIN map}
           first == CHOOSE i \in configured : \A j \in configured : i <= j
<1>1. CASE name = "none" \/ configured = {}
  BY <1>1 DEF ScopesFor
<1>2. CASE name # "none" /\ configured # {}
  <2>1. DOMAIN keys \subseteq Nat
    OBVIOUS
  <2>2. configured \in SUBSET Nat
    BY <2>1
  <2>3. first \in configured
    BY <1>2, <2>2, SmallestExists
  <2>4. ScopesFor(map, kind, name, base) = map[keys[first]]
    BY <1>2 DEF ScopesFor
  <2>5. QED
    BY <2>3, <2>4
<1>3. QED
  BY <1>1, <1>2

\* And so is everything a challenge names (proxy.ts:254-272).
LEMMA AskedWithin ==
  ASSUME NEW c, NEW r, Baseline # {}
  PROVE  AskedScopes(c, r) \subseteq EveryScopeOf(c)
<1> DEFINE base == CHOOSE s \in Baseline : TRUE
           TargetAsks(t) == IF t[1] = "resource"
                            THEN UNION {ScopesFor(c.scopes, "resource", l[2], base) : l \in Covering(c, t[2])}
                            ELSE ScopesFor(c.scopes, t[1], t[2], base)
           targets == IF r.method = "tools/call" THEN {} ELSE Reach(r).targets
           each == UNION {TargetAsks(t) : t \in targets}
           own == ScopesFor(c.scopes, Kind(r.method), RouteName(r), base)
           every == EveryScopeOf(c)
<1>1. AskedScopes(c, r) = Baseline \cup (IF each # {} THEN each ELSE own)
  BY DEF AskedScopes
<1>2. \A kind, name : ScopesFor(c.scopes, kind, name, base) \subseteq every
  <2> HIDE DEF base
  <2>1. base \in Baseline
    BY DEF base
  <2>2. QED
    BY <2>1, ScopesWithin DEF EveryScopeOf
<1>3. \A t : TargetAsks(t) \subseteq every
  <2> HIDE DEF every, base
  <2>1. QED
    BY <1>2
<1>4. each \subseteq every
  <2> HIDE DEF TargetAsks, targets, every
  <2>1. QED
    BY <1>3
<1>5. own \subseteq every
  BY <1>2
<1>6. Baseline \subseteq every
  BY DEF EveryScopeOf
<1> HIDE DEF each, own
<1>7. QED
  BY <1>1, <1>4, <1>5, <1>6

\* Whoever can pay for every label of a plain request passes it, with every scope there is.
LEMMA DirectPasses ==
  ASSUME NEW c \in Configs, HasIndex(c), NEW l \in DOMAIN c.perms, NEW use \in Addresses(c, l), NEW u,
         u.scopes = EveryScopeOf(c), \A k \in LabelsOf(c, use) : Can(u, c.perms[k])
  PROVE  /\ HasScopes(c) => TsAnswer(c, u, Direct(use)).why = "pass"
         /\ PyAnswer(c, u, Direct(use)).why = "pass"
<1> DEFINE d == Direct(use)
<1>1. /\ use = <<use[1], use[2]>> /\ use[1] \in {"tool", "prompt", "resource"} /\ use[2] \in Name
      /\ use[1] = "resource" => ~IsTemplate(use[2])
      /\ LabelsOf(c, use) # {}
  BY AddressIs
<1>2. /\ IsRequest(d) /\ d.post /\ d.id /\ d.modern /\ d.body = "ok" /\ d.fits
      /\ d.method \in Invocations /\ (d.method = "resources/read" <=> use[1] = "resource")
      /\ Preflight(d) = "pass" /\ Classified(d) = "modern"
      /\ RouteName(d) = use[2] /\ Reach(d) = [is |-> "targets", targets |-> {use}]
  <2> DEFINE kind == use[1]
             name == use[2]
  <2>1. kind \in {"tool", "prompt", "resource"} /\ name \in Name /\ use = <<kind, name>>
    BY <1>1
  <2> HIDE DEF kind, name
  <2>2. /\ IsRequest(d) /\ d.post /\ d.id /\ d.modern /\ d.body = "ok" /\ d.fits
        /\ d.method \in Invocations /\ (d.method = "resources/read" <=> kind = "resource")
        /\ Preflight(d) = "pass" /\ Classified(d) = "modern"
        /\ RouteName(d) = name /\ Reach(d) = [is |-> "targets", targets |-> {<<kind, name>>}]
    BY <2>1, DirectIs
  <2>3. QED
    BY <2>1, <2>2 DEF kind, name
<1> HIDE DEF d
<1>3. ~Unaffordable(c, u, Reach(d).targets)
  BY <1>1, <1>2 DEF Unaffordable
<1>4. Permitted(c, u, d)
  BY <1>1, <1>2, <1>3, AffordableIsPermitted
<1>5. u.perms # {} /\ Baseline \subseteq u.scopes
  BY <1>1 DEF Can, EveryScopeOf
<1>6. ASSUME HasScopes(c) PROVE TsAnswer(c, u, d).why = "pass"
  <2>1. c.scoped => AskedScopes(c, d) \subseteq u.scopes
    BY <1>6, AskedWithin DEF HasScopes
  <2>2. Affordable(c, u, d)
    BY <1>2, <1>3 DEF Affordable
  <2>3. TsPass(c, u, d)
    BY <1>2, <1>4, <1>5, <2>1, <2>2 DEF TsPass
  <2>4. QED
    BY <2>3, TsPasses
<1>7. PyAnswer(c, u, d).why = "pass"
  <2>1. d.body \in Bodies /\ d.method \in PyAllowed(d)
    BY <1>2 DEF Bodies, PyAllowed
  <2>2. PyPass(c, u, d)
    BY <1>2, <1>3, <1>5, <2>1 DEF PyPass
  <2>3. QED
    BY <2>1, <2>2, PyPasses
<1>8. QED
  BY <1>6, <1>7 DEF d

\* The TypeScript gate refuses whoever cannot pay for one of them, before the scopes are asked for.
LEMMA TsDirectDenied ==
  ASSUME NEW c \in Configs, HasIndex(c), NEW l \in DOMAIN c.perms, NEW use \in Addresses(c, l), NEW u,
         Baseline \subseteq u.scopes, NEW k \in LabelsOf(c, use), ~Can(u, c.perms[k])
  PROVE  TsAnswer(c, u, Direct(use)).why \in Refusals
<1> DEFINE d == Direct(use)
           g1 == Rung("not_post", ~d.post)
           g2 == Rung("baseline", ~(Baseline \subseteq u.scopes))
           g3 == Rung("not_permitted", u.perms = {})
           gate == GateRungs(d, c.scoped, TRUE, Permitted(c, u, d), AskedScopes(c, d), u.scopes)
           g4 == FirstRefusal(gate)
           g5 == Rung("headers_needed", Classified(d) # "modern")
           g6 == Rung("no_such_method", d.method \notin PassThrough \cup Notices /\ Reach(d).is = "unknown")
           g7 == Rung("malformed", Reach(d).is = "malformed")
           g8 == Rung("policy_denied", Unaffordable(c, u, Reach(d).targets))
           g9 == Rung("arguments", d.method = "tools/call" /\ ~d.fits)
           rungs == <<g1, g2, g3, g4, g5, g6, g7, g8, g9>>
           h1 == Rung(Preflight(d), d.post /\ Preflight(d) # "pass" /\ (c.scoped \/ TRUE))
           h2 == Rung("headers_needed", c.scoped /\ (d.post /\ Preflight(d) = "pass") /\ Classified(d) # "modern")
           h3 == Rung("policy_denied", (d.post /\ Preflight(d) = "pass") /\ ~Permitted(c, u, d))
           h4 == Rung("step_up", (d.post /\ Preflight(d) = "pass") /\ c.scoped /\ ~(AskedScopes(c, d) \subseteq u.scopes))
           inner == <<h1, h2, h3, h4>>
<1>1. /\ use = <<use[1], use[2]>> /\ use[1] \in {"tool", "prompt", "resource"} /\ use[2] \in Name
      /\ use[1] = "resource" => ~IsTemplate(use[2])
      /\ LabelsOf(c, use) \subseteq MayServe(c, use)
  BY AddressIs
<1>2. /\ d.post /\ (d.method = "resources/read" <=> use[1] = "resource") /\ Kind(d.method) = use[1]
      /\ Preflight(d) = "pass" /\ Classified(d) = "modern" /\ RouteName(d) = use[2]
  <2> DEFINE kind == use[1]
             name == use[2]
  <2>1. kind \in {"tool", "prompt", "resource"} /\ name \in Name /\ use = <<kind, name>>
    BY <1>1
  <2> HIDE DEF kind, name
  <2>2. /\ d.post /\ (d.method = "resources/read" <=> kind = "resource")
        /\ Preflight(d) = "pass" /\ Classified(d) = "modern" /\ RouteName(d) = name
    BY <2>1, DirectIs
  <2>3. Kind(d.method) = kind
    BY <2>1 DEF Direct, Kind
  <2>4. QED
    BY <2>2, <2>3 DEF kind, name
<1>3. ~Permitted(c, u, d)
  <2> HIDE DEF d
  <2> DEFINE matched == IF d.method = "resources/read" THEN {m \in Indexed(c) : Covers(c.uris[m], use[2])}
                        ELSE LabelsOf(c, use)
             failing == {m \in matched : ~Can(u, c.perms[m])}
             m0 == CHOOSE m \in failing : TRUE
  <2>1. matched = LabelsOf(c, use)
    <3>1. CASE use[1] = "resource"
      BY <1>1, <1>2, <3>1 DEF LabelsOf, Covering
    <3>2. CASE use[1] # "resource"
      BY <1>2, <3>2
    <3>3. QED
      BY <3>1, <3>2
  <2>2. k \in failing
    BY <2>1
  <2>3. m0 \in failing
    BY <2>2
  <2>4. use[2] # "none"
    BY <1>1 DEF Name
  <2>5. LabelsOf(c, <<Kind(d.method), RouteName(d)>>) = LabelsOf(c, use)
    BY <1>1, <1>2
  <2>6. FlatPermission(c, u, d) = c.perms[m0]
    BY <1>2, <2>2, <2>4, <2>5 DEF FlatPermission
  <2>7. m0 \in DOMAIN c.perms
    BY <1>1, <2>1, <2>3 DEF MayServe
  <2>8. c.perms[m0] # "none"
    BY <2>7, ConfigsAssumption DEF Name
  <2>9. QED
    BY <2>3, <2>6, <2>8 DEF Permitted
<1>4. TsAnswer(c, u, d).why = FirstRefusal(rungs) /\ gate = inner
  BY DEF TsRungs, Permitted, TsAnswer, Verdict, GateRungs
<1>5. g1 = "pass" /\ g2 = "pass" /\ g3 \in {"pass", "not_permitted"}
  BY <1>2 DEF Rung
<1>6. h1 = "pass" /\ h2 = "pass" /\ h3 = "policy_denied"
  BY <1>2, <1>3 DEF Rung
<1>7. FirstRefusal(inner) = "policy_denied"
  <2> HIDE DEF h1, h2, h3, h4
  <2>1. DOMAIN inner = 1..4 /\ inner[1] = h1 /\ inner[2] = h2 /\ inner[3] = h3
    OBVIOUS
  <2> HIDE DEF inner
  <2>2. /\ DOMAIN inner \subseteq Nat /\ 3 \in DOMAIN inner /\ inner[3] # "pass"
        /\ \A j \in DOMAIN inner : j < 3 => inner[j] = "pass"
    BY <1>6, <2>1
  <2>3. FirstRefusal(inner) = inner[3]
    BY <2>2, RefusesFirst
  <2>4. QED
    BY <1>6, <2>1, <2>3
<1>8. g4 = "policy_denied"
  BY <1>4, <1>7
<1>9. FirstRefusal(rungs) \in {"not_permitted", "policy_denied"}
  <2> HIDE DEF g1, g2, g3, g4, g5, g6, g7, g8, g9
  <2>1. DOMAIN rungs = 1..9
    OBVIOUS
  <2>2. rungs[1] = g1 /\ rungs[2] = g2 /\ rungs[3] = g3 /\ rungs[4] = g4
    OBVIOUS
  <2> HIDE DEF rungs
  <2>3. DOMAIN rungs \subseteq Nat
    BY <2>1
  <2>4. CASE g3 = "pass"
    <3>1. /\ 4 \in DOMAIN rungs /\ rungs[4] # "pass"
          /\ \A j \in DOMAIN rungs : j < 4 => rungs[j] = "pass"
      BY <1>5, <1>8, <2>1, <2>2, <2>4
    <3>2. FirstRefusal(rungs) = rungs[4]
      BY <2>3, <3>1, RefusesFirst
    <3>3. QED
      BY <1>8, <2>2, <3>2
  <2>5. CASE g3 = "not_permitted"
    <3>1. /\ 3 \in DOMAIN rungs /\ rungs[3] # "pass"
          /\ \A j \in DOMAIN rungs : j < 3 => rungs[j] = "pass"
      BY <1>5, <2>1, <2>2, <2>5
    <3>2. FirstRefusal(rungs) = rungs[3]
      BY <2>3, <3>1, RefusesFirst
    <3>3. QED
      BY <2>2, <2>5, <3>2
  <2>6. QED
    BY <1>5, <2>4, <2>5
<1> HIDE DEF d, rungs
<1>10. QED
  BY <1>4, <1>9 DEF Refusals, d

\* And _price does.
LEMMA PyDirectDenied ==
  ASSUME NEW c \in Configs, HasIndex(c), NEW l \in DOMAIN c.perms, NEW use \in Addresses(c, l), NEW u,
         Baseline \subseteq u.scopes, NEW k \in LabelsOf(c, use), ~Can(u, c.perms[k])
  PROVE  PyAnswer(c, u, Direct(use)).why \in Refusals
<1> DEFINE d == Direct(use)
           g1 == Rung("not_post", ~d.post)
           g2 == Rung("baseline", ~(Baseline \subseteq u.scopes))
           g3 == Rung("not_permitted", u.perms = {})
           g4 == Rung(d.body, d.body # "ok")
           g5 == Rung("no_such_method", d.method \notin PyAllowed(d))
           g6 == Rung("headers_needed", ~d.modern \/ (~d.id /\ d.mhdr # "same"))
           g7 == Rung("disagrees", Classified(d) = "reject")
           g8 == Rung("malformed", Reach(d).is = "malformed")
           g9 == Rung("policy_denied", Unaffordable(c, u, Reach(d).targets))
           g10 == Rung("arguments", d.method = "tools/call" /\ ~d.fits)
           rungs == <<g1, g2, g3, g4, g5, g6, g7, g8, g9, g10>>
<1>1. use = <<use[1], use[2]>> /\ use[1] \in {"tool", "prompt", "resource"} /\ use[2] \in Name
  BY AddressIs
<1>2. /\ d.post /\ d.id /\ d.modern /\ d.body = "ok" /\ d.method \in Invocations
      /\ Classified(d) = "modern" /\ Reach(d) = [is |-> "targets", targets |-> {use}]
  <2> DEFINE kind == use[1]
             name == use[2]
  <2>1. kind \in {"tool", "prompt", "resource"} /\ name \in Name /\ use = <<kind, name>>
    BY <1>1
  <2> HIDE DEF kind, name
  <2>2. QED
    BY <2>1, DirectIs
<1>3. Unaffordable(c, u, Reach(d).targets)
  BY <1>2 DEF Unaffordable
<1>4. PyAnswer(c, u, d).why = FirstRefusal(rungs)
  BY DEF PyRungs, PyAnswer, Verdict
<1>5. d.method \in PyAllowed(d)
  BY <1>2 DEF PyAllowed
<1> HIDE DEF d
<1>6. g1 = "pass" /\ g2 = "pass" /\ g3 \in {"pass", "not_permitted"} /\ g4 = "pass"
  BY <1>2 DEF Rung
<1>7. g5 = "pass" /\ g6 = "pass" /\ g7 = "pass" /\ g8 = "pass" /\ g9 = "policy_denied"
  BY <1>2, <1>3, <1>5 DEF Rung
<1>8. FirstRefusal(rungs) \in {"not_permitted", "policy_denied"}
  <2> HIDE DEF g1, g2, g3, g4, g5, g6, g7, g8, g9, g10
  <2>1. DOMAIN rungs = 1..10
    OBVIOUS
  <2>2. /\ rungs[1] = g1 /\ rungs[2] = g2 /\ rungs[3] = g3 /\ rungs[4] = g4 /\ rungs[5] = g5
        /\ rungs[6] = g6 /\ rungs[7] = g7 /\ rungs[8] = g8 /\ rungs[9] = g9
    OBVIOUS
  <2> HIDE DEF rungs
  <2>3. DOMAIN rungs \subseteq Nat
    BY <2>1
  <2>4. CASE g3 = "pass"
    <3>1. /\ 9 \in DOMAIN rungs /\ rungs[9] # "pass"
          /\ \A j \in DOMAIN rungs : j < 9 => rungs[j] = "pass"
      BY <1>6, <1>7, <2>1, <2>2, <2>4
    <3>2. FirstRefusal(rungs) = rungs[9]
      BY <2>3, <3>1, RefusesFirst
    <3>3. QED
      BY <1>7, <2>2, <3>2
  <2>5. CASE g3 = "not_permitted"
    <3>1. /\ 3 \in DOMAIN rungs /\ rungs[3] # "pass"
          /\ \A j \in DOMAIN rungs : j < 3 => rungs[j] = "pass"
      BY <1>6, <2>1, <2>2, <2>5
    <3>2. FirstRefusal(rungs) = rungs[3]
      BY <2>3, <3>1, RefusesFirst
    <3>3. QED
      BY <2>2, <2>5, <3>2
  <2>6. QED
    BY <1>6, <2>4, <2>5
<1> HIDE DEF rungs
<1>9. QED
  BY <1>4, <1>8 DEF Refusals, d

\* What a listing shows can be called, and what it hides is refused (catalogue.ts:6-113,
\* proxy.ts:505-583; proxy.py:867-964).
THEOREM ListingIsWhatCallsMeet == PricingSpec => []ListingMatchesCalls
<1>1. PInv => ListingMatchesCalls
  <2> SUFFICES ASSUME PInv, asked # <<>> PROVE ListingMatchesCalls
    BY DEF ListingMatchesCalls
  <2>1. PICK c \in Configs : config = <<c>> /\ (ts # Down => TsBoot(c) = "pass")
                             /\ (py # Down => PyBoot(c) = "pass")
    BY DEF PInv, BothBooted, BothAnswer
  <2>2. PICK u0 \in Callers : asked[1] = u0
    BY DEF PInv, BothAnswer
  <2> DEFINE u == [u0 EXCEPT !.scopes = EveryScopeOf(c)]
             Shown(l) == IF l[1] = "resource" THEN l ELSE Canonical(l)
             Alone(l, use) == MayServe(c, use) = {l}
             T(l, use) == TsAnswer(c, u, Direct(use)).why
             P(l, use) == PyAnswer(c, u, Direct(use)).why
  <2>3. u.scopes = EveryScopeOf(c) /\ Baseline \subseteq u.scopes
    BY CallersAssumption DEF EveryScopeOf
  <2> HIDE DEF u
  <2>4. (ts # Down => HasIndex(c) /\ HasScopes(c)) /\ (py # Down => HasIndex(c))
    BY <2>1, TsBooted, PyBooted
  <2>5. ASSUME NEW l \in DOMAIN c.perms, NEW use \in Addresses(c, l)
        PROVE  /\ ts # Down /\ TsListed(c, u, Shown(l)) /\ Alone(l, use) => T(l, use) = "pass"
               /\ py # Down /\ PyListed(c, u, Shown(l)) /\ Alone(l, use) => P(l, use) = "pass"
               /\ ts # Down /\ l[1] # "tool" /\ ~TsListed(c, u, Shown(l)) => T(l, use) \in Refusals
               /\ py # Down /\ ~PyListed(c, u, Shown(l)) => P(l, use) \in Refusals
    <3>0. CASE ts = Down /\ py = Down
      BY <3>0
    <3> SUFFICES ASSUME ~(ts = Down /\ py = Down)
                 PROVE  /\ ts # Down /\ TsListed(c, u, Shown(l)) /\ Alone(l, use) => T(l, use) = "pass"
                        /\ py # Down /\ PyListed(c, u, Shown(l)) /\ Alone(l, use) => P(l, use) = "pass"
                        /\ ts # Down /\ l[1] # "tool" /\ ~TsListed(c, u, Shown(l)) => T(l, use) \in Refusals
                        /\ py # Down /\ ~PyListed(c, u, Shown(l)) => P(l, use) \in Refusals
      BY <3>0
    <3> HasIndex(c)
      BY <2>4
    <3>1. /\ use[1] = "resource" <=> l[1] = "resource"
          /\ use[1] # "resource" => use = Canonical(l)
          /\ LabelsOf(c, use) # {} /\ LabelsOf(c, use) \subseteq MayServe(c, use)
          /\ l[1] # "tool" => l \in LabelsOf(c, use)
          /\ l[1] = "tool" => LabelsOf(c, use) = {ToolLabel(c, l[2])}
      BY AddressIs
    <3>2. l \in Label
      BY ConfigsAssumption
    <3>3. /\ l = <<l[1], l[2]>> /\ l[1] \in {"bare", "tool", "prompt", "resource"}
          /\ l[1] = "bare" => BareKey(l[2]) = l
      BY <3>2 DEF Label, BareKey
    <3>4. CASE l[1] = "tool"
      <4>1. Shown(l) = l
        BY <3>4 DEF Canonical
      <4>2. ToolLabel(c, l[2]) \in DOMAIN c.perms
        BY <3>3, <3>4 DEF ToolLabel
      <4>3. ts # Down /\ TsListed(c, u, l) /\ Alone(l, use) => T(l, use) = "pass"
        <5>1. SUFFICES ASSUME ts # Down, BareKey(l[2]) \in DOMAIN c.perms, Can(u, c.perms[BareKey(l[2])])
                       PROVE  T(l, use) = "pass"
          BY <3>4 DEF TsListed
        <5>2. LabelsOf(c, use) = {BareKey(l[2])}
          BY <3>1, <3>4, <5>1 DEF ToolLabel
        <5>3. QED
          BY <2>3, <2>4, <5>1, <5>2, DirectPasses
      <4>4. PyListed(c, u, l) <=> Can(u, c.perms[ToolLabel(c, l[2])])
        BY <3>4, <4>2 DEF PyListed
      <4>5. PyListed(c, u, l) => P(l, use) = "pass"
        BY <2>3, <3>1, <3>4, <4>4, DirectPasses
      <4>6. ~PyListed(c, u, l) => P(l, use) \in Refusals
        BY <2>3, <3>1, <3>4, <4>4, PyDirectDenied
      <4>7. QED
        BY <3>4, <4>1, <4>3, <4>5, <4>6
    <3>5. CASE l[1] # "tool"
      <4>1. (TsListed(c, u, Shown(l)) <=> Can(u, c.perms[l])) /\ (PyListed(c, u, Shown(l)) <=> Can(u, c.perms[l]))
        <5>1. CASE l[1] = "bare"
          <6>1. Shown(l) = <<"tool", l[2]>> /\ ToolLabel(c, l[2]) = l /\ BareKey(l[2]) = l
            BY <3>3, <5>1 DEF Canonical, ToolLabel
          <6>2. QED
            BY <6>1 DEF TsListed, PyListed
        <5>2. CASE l[1] \in {"prompt", "resource"}
          <6>1. Shown(l) = l
            BY <5>2 DEF Canonical
          <6>2. QED
            BY <5>2, <6>1 DEF TsListed, PyListed
        <5>3. QED
          BY <3>3, <3>5, <5>1, <5>2
      <4>2. Alone(l, use) /\ Can(u, c.perms[l]) => \A k \in LabelsOf(c, use) : Can(u, c.perms[k])
        BY <3>1
      <4>3. ts # Down /\ Alone(l, use) /\ Can(u, c.perms[l]) => T(l, use) = "pass"
        BY <2>3, <2>4, <4>2, DirectPasses
      <4>4. Alone(l, use) /\ Can(u, c.perms[l]) => P(l, use) = "pass"
        BY <2>3, <4>2, DirectPasses
      <4>5. ~Can(u, c.perms[l]) => T(l, use) \in Refusals
        BY <2>3, <3>1, <3>5, TsDirectDenied
      <4>6. ~Can(u, c.perms[l]) => P(l, use) \in Refusals
        BY <2>3, <3>1, <3>5, PyDirectDenied
      <4>7. QED
        BY <4>1, <4>3, <4>4, <4>5, <4>6
    <3>6. QED
      BY <3>4, <3>5
  <2>6. config[1] = c
    BY <2>1
  <2>7. QED
    BY <2>2, <2>5, <2>6 DEF ListingMatchesCalls, u
<1>2. QED
  BY <1>1, PInvariance, PTL

\* Nothing a started proxy prices is out of everybody's reach: reconcile has seen to it at boot
\* (policy.ts:360-414, proxy.ts:128-165; proxy.py:162-236).
THEOREM NothingPricedIsOutOfReach == PricingSpec => []NothingPricedIsDead
<1>1. PInv => NothingPricedIsDead
  <2> SUFFICES ASSUME PInv, config # <<>>, {ts, py} # {Down} PROVE NothingPricedIsDead
    BY DEF NothingPricedIsDead
  <2>1. PICK c \in Configs : config = <<c>> /\ (ts # Down => TsBoot(c) = "pass")
                             /\ (py # Down => PyBoot(c) = "pass")
    BY DEF PInv, BothBooted
  <2>2. /\ HasIndex(c) /\ Reconciles(c.granted, Priced(c))
        /\ ts # Down => HasScopes(c)
    BY <2>1, TsBooted, PyBooted
  <2> DEFINE u == [perms |-> c.granted, scopes |-> EveryScopeOf(c)]
  <2>3. u.scopes = EveryScopeOf(c) /\ \A l \in DOMAIN c.perms : Can(u, c.perms[l])
    BY <2>2 DEF Reconciles, Priced, Can
  <2> HIDE DEF u
  <2>4. ASSUME NEW l \in DOMAIN c.perms, NEW use \in Addresses(c, l)
        PROVE  /\ ts # Down => TsAnswer(c, u, Direct(use)).why = "pass"
               /\ py # Down => PyAnswer(c, u, Direct(use)).why = "pass"
    <3>1. LabelsOf(c, use) \subseteq MayServe(c, use)
      BY <2>2, AddressIs
    <3>2. \A k \in LabelsOf(c, use) : Can(u, c.perms[k])
      BY <2>3, <3>1 DEF MayServe
    <3>3. QED
      BY <2>2, <2>3, <3>2, DirectPasses
  <2>5. config[1] = c
    BY <2>1
  <2>6. QED
    BY <2>4, <2>5 DEF NothingPricedIsDead, u
<1>2. QED
  BY <1>1, PInvariance, PTL
=============================================================================
