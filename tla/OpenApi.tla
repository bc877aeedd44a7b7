------------------------------- MODULE OpenApi -------------------------------
(***************************************************************************)
(* The gate in front of an HTTP API an OpenAPI document describes:         *)
(* openapi.ts ("ts") and openapi.py ("py"). A document is a sequence of    *)
(* operations [id, verb, path, length]: `path` its segments, "{}" one that *)
(* is a parameter and "{}.json" one that only holds one, `length` the      *)
(* characters it is written with. A price list maps operationIds to        *)
(* permissions. One request is followed from its arrival to its audit.     *)
(***************************************************************************)
EXTENDS Naturals, Sequences, FiniteSets

CONSTANTS Documents,    \* [operations, prices, granted]
          Requests,     \* [verb, url, perms, carries]: a URL is its segments
          SpecPath,     \* where the document is served
          OaCalls       \* the requests in flight

\* Operations and paths are listed in an order; whatever a request is for, it carries a token,
\* or is answered without one.
ASSUME DocumentsAssumption ==
  \A d \in Documents :
    /\ Len(d.operations) \in Nat /\ DOMAIN d.operations = 1..Len(d.operations)
    /\ \A k \in DOMAIN d.operations :
         /\ d.operations[k].length \in Nat
         /\ Len(d.operations[k].path) \in Nat
         /\ DOMAIN d.operations[k].path = 1..Len(d.operations[k].path)
ASSUME RequestsAssumption ==
  \A r \in Requests : r.carries \in {"token", "metadata", "foreign", "nothing"}

VARIABLES document,     \* <<>>, or the document the gate was started with
          oa            \* call -> [at, lang, request, operation, decision, trail, status]
oaVars == <<document, oa>>

Verbs == {"get", "put", "post", "delete", "options", "head", "patch", "trace"}
Parameter == "{}"
Partly == "{}.json"

Affords(perms, permission) == "*" \in perms \/ permission \in perms
Op(d, k) == d.operations[k]

-----------------------------------------------------------------------------
(* Starting, and matching.                                                 *)

\* recordOperations, and the checks of the map against it. "none" is an operation without an id.
OaBoots(d) ==
  /\ \A k \in DOMAIN d.operations : Op(d, k).verb \in Verbs => Op(d, k).id # "none"
  /\ \A j, k \in DOMAIN d.operations :
       {Op(d, j).verb, Op(d, k).verb} \subseteq Verbs /\ Op(d, j).id = Op(d, k).id => j = k
  /\ DOMAIN d.prices = {Op(d, k).id : k \in {j \in DOMAIN d.operations : Op(d, j).verb \in Verbs}}
  /\ "*" \in d.granted \/ {d.prices[id] : id \in DOMAIN d.prices} \subseteq d.granted

\* matcher: a parameter is any one segment, and only a whole segment is one.
PathMatches(path, url) ==
  Len(path) = Len(url) /\ \A n \in DOMAIN path : path[n] = Parameter \/ path[n] = url[n]

\* templateCount counts the braces.
Braces(path) == Cardinality({n \in DOMAIN path : path[n] \in {Parameter, Partly}})

\* The order routes are tried in: fewer braces, then longer, then as listed.
Before(d, j, k) ==
  LET a == Op(d, j)
      b == Op(d, k)
  IN  \/ Braces(a.path) < Braces(b.path)
      \/ Braces(a.path) = Braces(b.path) /\ a.length > b.length
      \/ Braces(a.path) = Braces(b.path) /\ a.length = b.length /\ j <= k

\* Mutant of Routed: the first in the document.
RoutedInOrder(d, verb, url) ==
  LET fit == {k \in DOMAIN d.operations : Op(d, k).verb = verb /\ PathMatches(Op(d, k).path, url)}
  IN  IF fit = {} \/ verb \notin Verbs THEN "none"
      ELSE Op(d, CHOOSE k \in fit : \A j \in fit : k <= j).id
\* routes.find: the operation a request is priced by, or "none".
Routed(d, verb, url) ==
  LET fit == {k \in DOMAIN d.operations : Op(d, k).verb = verb /\ PathMatches(Op(d, k).path, url)}
  IN  IF fit = {} \/ verb \notin Verbs THEN "none"
      ELSE Op(d, CHOOSE k \in fit : \A j \in fit : Before(d, k, j)).id

\* Mutant of FilterSpec: whoever can pay for something sees it all.
FilterSpecAll(d, perms) == {id \in DOMAIN d.prices : \E q \in perms : TRUE}
\* filterSpec: the operations a caller's document keeps.
FilterSpec(d, perms) == {id \in DOMAIN d.prices : Affords(perms, d.prices[id])}

-----------------------------------------------------------------------------
(* One request.                                                            *)

Absent == [at |-> "absent", lang |-> "ts", request |-> <<>>, operation |-> "none",
           decision |-> "none", trail |-> <<>>, status |-> 0]

OaInit == document = <<>> /\ oa = [c \in OaCalls |-> Absent]

OaStart(d) ==
  /\ document = <<>> /\ OaBoots(d)
  /\ document' = <<d>>
  /\ UNCHANGED oa

\* What the gate decides of a request that carries a token with the baseline scopes.
OaDecision(d, r) ==
  IF r.perms = {} THEN "not_permitted"
  ELSE IF r.url = SpecPath THEN "document"
  ELSE LET id == Routed(d, r.verb, r.url)
       IN  IF id = "none" THEN "no_such_operation"
           ELSE IF Affords(r.perms, d.prices[id]) THEN "allow" ELSE "not_permitted"

\* Metadata, foreign paths and bad tokens are answered at once; the rest is decided.
OaArrives(c, lang, r) ==
  /\ document # <<>> /\ oa[c] = Absent
  /\ oa' = [oa EXCEPT ![c] =
       [at |-> IF r.carries = "token" THEN "deciding" ELSE "answered",
        lang |-> lang, request |-> <<r>>,
        operation |-> IF r.carries = "token" /\ OaDecision(document[1], r) = "allow"
                      THEN Routed(document[1], r.verb, r.url) ELSE "none",
        decision |-> IF r.carries = "token" THEN OaDecision(document[1], r) ELSE "none",
        trail |-> <<>>,
        status |-> CASE r.carries = "metadata" -> 200
                     [] r.carries = "foreign" -> 404
                     [] r.carries = "nothing" -> 401
                     [] r.carries = "token" -> 0]]
  /\ UNCHANGED document

\* A step of a call: its stage, what is on record of it and the status it ends with, if any yet.
OaMoves(c, at, trail, status) ==
  /\ oa' = [oa EXCEPT ![c] = [@ EXCEPT !.at = at, !.trail = trail, !.status = status]]
  /\ UNCHANGED document

\* emitDecision is awaited, and a sink that rejects fails the request.
OaDecides(c, taken) ==
  /\ oa[c].at = "deciding"
  /\ OaMoves(c, IF taken /\ oa[c].decision = "allow" THEN "recording" ELSE "answered", oa[c].trail,
             CASE ~taken -> 500
               [] taken /\ oa[c].decision = "document" -> 200
               [] taken /\ oa[c].decision = "no_such_operation" -> 404
               [] taken /\ oa[c].decision = "not_permitted" -> 403
               [] taken /\ oa[c].decision = "allow" -> 0)

\* Mutant of OaAttempts: a write that fails is passed over.
OaAttemptsOpen(c, written) ==
  /\ oa[c].at = "recording"
  /\ OaMoves(c, "upstream", IF written THEN <<"attempt">> ELSE <<>>, 0)
\* The attempt: a write that fails answers 503, and nothing runs.
OaAttempts(c, written) ==
  /\ oa[c].at = "recording"
  /\ \/ written /\ OaMoves(c, "upstream", <<"attempt">>, 0)
     \/ ~written /\ OaMoves(c, "answered", <<>>, 503)

\* Success: any 2xx in one, anything below 400 in the other.
Succeeds(lang, status) == IF lang = "ts" THEN status \in 200..299 ELSE status < 400

\* The API answers, or throws, which is answered 500 after the failure was delivered.
OaRuns(c, status) ==
  /\ oa[c].at = "upstream"
  /\ OaMoves(c, "delivering", oa[c].trail, status)

OaThrows(c) ==
  /\ oa[c].at = "upstream"
  /\ OaMoves(c, "failing", oa[c].trail, 500)

\* deliver: a terminal write that fails changes nothing of the answer.
OaDelivers(c, written) ==
  /\ oa[c].at \in {"delivering", "failing"}
  /\ LET phase == IF oa[c].at = "delivering" /\ Succeeds(oa[c].lang, oa[c].status)
                  THEN "success" ELSE "failure"
     IN OaMoves(c, "answered", IF written THEN Append(oa[c].trail, phase) ELSE oa[c].trail, oa[c].status)

\* Cancelling an ASGI task unwinds it past `except Exception`.
OaCancelled(c) ==
  /\ oa[c].lang = "py" /\ oa[c].at \in {"deciding", "recording", "upstream", "delivering", "failing"}
  /\ OaMoves(c, "cancelled", oa[c].trail, oa[c].status)

OaStep(c) ==
  \/ \E b \in BOOLEAN : OaDecides(c, b) \/ OaAttempts(c, b) \/ OaDelivers(c, b)
  \/ \E status \in {200, 302, 404} : OaRuns(c, status)
  \/ OaThrows(c)

OaNext ==
  \/ \E d \in Documents : OaStart(d)
  \/ \E c \in OaCalls :
       \/ \E lang \in {"ts", "py"}, r \in Requests : OaArrives(c, lang, r)
       \/ OaStep(c)
       \/ OaCancelled(c)
OaSpec == OaInit /\ [][OaNext]_oaVars /\ \A c \in OaCalls : WF_oaVars(OaStep(c))

-----------------------------------------------------------------------------
(* Properties.                                                             *)

\* Shape of the state.
OaTypeOK ==
  /\ document \in {<<>>} \cup {<<d>> : d \in Documents}
  /\ \A c \in OaCalls :
       /\ oa[c].at \in {"absent", "deciding", "recording", "upstream", "delivering", "failing",
                        "answered", "cancelled"}
       /\ oa[c].trail \in {<<>>, <<"attempt">>} \cup {<<"attempt", e>> : e \in {"success", "failure"}}
       /\ (oa[c].at = "answered" => oa[c].status \in {200, 302, 401, 403, 404, 500, 503})

\* Every URL the templates of a document give.
Fillings == {"x", "search", Partly}
UrlsOf(path) == {u \in [DOMAIN path -> {path[n] : n \in DOMAIN path} \cup Fillings] :
                   /\ PathMatches(path, u) /\ \A n \in DOMAIN u : u[n] # Parameter}

\* A request that reached the API was allowed for an operation its caller can pay, and no
\* operation of the same verb and path with fewer parameters was passed over for it
\* (openapi.ts:243-247, 294-325).
ReachedIsPriced ==
  \A c \in OaCalls : oa[c].trail # <<>> \/ oa[c].at \in {"upstream", "delivering", "failing"} =>
    LET d == document[1]
        r == oa[c].request[1]
    IN  /\ oa[c].decision = "allow" /\ r.carries = "token"
        /\ {"*", d.prices[oa[c].operation]} \cap r.perms # {}
        /\ \E k \in DOMAIN d.operations :
             /\ Op(d, k).id = oa[c].operation /\ Op(d, k).verb = r.verb /\ PathMatches(Op(d, k).path, r.url)
             /\ \A j \in DOMAIN d.operations :
                  Op(d, j).verb = r.verb /\ PathMatches(Op(d, j).path, r.url)
                    => Braces(Op(d, k).path) <= Braces(Op(d, j).path)

\* The document a caller is served and the gate agree: each operation in it answers for every URL
\* of its own that no other operation also covers, and one cut from it is refused there. A segment
\* that only contains a parameter is left out: the gate never matches one.
DocumentMatchesGate ==
  document # <<>> =>
    LET d == document[1]
    IN \A k \in DOMAIN d.operations : \A perms \in {r.perms : r \in Requests} \ {{}} :
         LET o == Op(d, k)
             shared(u) == \E j \in DOMAIN d.operations : j # k /\ Op(d, j).verb = o.verb /\ PathMatches(Op(d, j).path, u)
         IN o.verb \in Verbs =>
              \A u \in UrlsOf(o.path) : ~shared(u) /\ u # SpecPath =>
                (OaDecision(d, [verb |-> o.verb, url |-> u, perms |-> perms]) = "allow"
                   <=> o.id \in FilterSpec(d, perms))

\* The events of a call, as AuditTrail understands them.
Trail == INSTANCE AuditTrail WITH
  Calls <- OaCalls,
  began <- [c \in OaCalls |-> oa[c].trail # <<>>],
  ran <- [c \in OaCalls |-> oa[c].at \in {"delivering", "failing"}
                           \/ (oa[c].trail # <<>> /\ oa[c].status # 0)],
  ended <- [c \in OaCalls |-> IF Len(oa[c].trail) = 2 THEN oa[c].trail[2] ELSE "none"]

\* The status a caller got and the end on record tell the same story.
AnswerMatchesTrail ==
  \A c \in OaCalls : oa[c].at = "answered" /\ Len(oa[c].trail) = 2 =>
    /\ (oa[c].trail[2] = "success" => oa[c].status < 400)
    /\ (oa[c].status \in 200..299 => oa[c].trail[2] = "success")

\* The gate keeps the audit trail's promise: an API runs only under a recorded attempt and is
\* followed by at most one terminal event, which agrees with the status the caller got
\* (openapi.ts:345-405; openapi.py:354-427).
OaKeepsTrail == Trail!Spec /\ []AnswerMatchesTrail
=============================================================================
