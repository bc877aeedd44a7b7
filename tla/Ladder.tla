------------------------------- MODULE Ladder -------------------------------
(***************************************************************************)
(* The rungs both TypeScript enforcement points share (ladder.ts): read    *)
(* what an authenticated request names, price it, then ask for its scopes. *)
(* A request is a record                                                   *)
(*   [method, names, id, post, body, modern, mhdr, nhdr]                   *)
(* `names` are the capabilities its params name (for a read, URIs), `body` *)
(* how its bytes read, `modern` whether the 2026 revision header is there, *)
(* `mhdr` and `nhdr` what the routing headers say beside the body.         *)
(***************************************************************************)
EXTENDS Naturals, Sequences, FiniteSets

CONSTANTS Expansions,   \* URI template -> the URIs it covers
          Prefixed      \* a name spelt like a label, "prompt:g" -> that label, <<"prompt", "g">>

\* "none" stands for no name at all, so nothing has it for a name.
Name == STRING \ {"none"}

ASSUME ExpansionsAssumption ==
  \A t \in DOMAIN Expansions : t \in Name /\ Expansions[t] \subseteq Name

ASSUME PrefixedAssumption ==
  \A n \in DOMAIN Prefixed : n \in Name /\ Prefixed[n] \in {"tool", "prompt", "resource"} \X Name

\* A label, and a key of a scope map, is a string: with a prefix, or a name that has none.
Label == ({"bare"} \X (Name \ DOMAIN Prefixed)) \cup ({"tool", "prompt", "resource"} \X Name)

\* The label that a name alone is.
BareKey(name) == IF name \in DOMAIN Prefixed THEN Prefixed[name] ELSE <<"bare", name>>

Invocations == {"tools/call", "prompts/get", "resources/read"}
Listings == {"tools/list", "prompts/list", "resources/list", "resources/templates/list"}

\* UriTemplate.match, and equality for a URI registered as it is.
Covers(pattern, uri) ==
  IF pattern \in DOMAIN Expansions THEN uri \in Expansions[pattern] ELSE uri = pattern

\* A URI that still holds a template's braces.
IsTemplate(uri) == uri \in DOMAIN Expansions

\* Rungs are asked in order, each passes or says why not, and the first that refuses answers.
Rung(why, refuses) == IF refuses THEN why ELSE "pass"

FirstRefusal(rungs) ==
  LET refused == {i \in DOMAIN rungs : rungs[i] # "pass"}
  IN  IF refused = {} THEN "pass"
      ELSE rungs[CHOOSE i \in refused : \A j \in refused : i <= j]

-----------------------------------------------------------------------------
(* Classification: what a POST names, and whether its headers agree.       *)

\* How a body may read: one thing wrong with it, or nothing.
Bodies == {"ok", "not_json_type", "too_large", "not_json", "repeats_a_key"}

IsRequest(r) ==
  /\ r.names \in Seq(Name)
  /\ r.body \in Bodies /\ r.mhdr \in {"same", "other", "none"}
  /\ r.id \in BOOLEAN /\ r.post \in BOOLEAN /\ r.modern \in BOOLEAN

NamesOne(r) == r.method \in Invocations /\ r.names # <<>>

\* classifyScopedRequest. A notification is classified by its method alone.
Classified(r) ==
  CASE ~r.modern -> "legacy"
    [] r.modern /\ r.mhdr = "other" -> "reject"
    [] r.modern /\ r.mhdr # "other" /\ ~r.id -> "modern"
    [] r.modern /\ r.mhdr = "none" /\ r.id -> "reject"
    [] r.modern /\ r.mhdr = "same" /\ r.id ->
         IF NamesOne(r) /\ r.nhdr # "same" THEN "reject" ELSE "modern"

\* preflightScopedRequest: the first thing wrong with a body, else "pass".
Preflight(r) ==
  FirstRefusal(<< Rung("not_json_type", r.body = "not_json_type"),
                  Rung("too_large", r.body = "too_large"),
                  Rung("not_json", r.body = "not_json"),
                  Rung("repeats_a_key", r.body = "repeats_a_key"),
                  Rung("disagrees", Classified(r) = "reject"),
                  Rung("no_method", Classified(r) = "legacy" /\ r.method = "none") >>)

\* The name a route carries: a notification's route names nothing.
RouteName(r) == IF NamesOne(r) /\ (r.id \/ ~r.modern) THEN r.names[1] ELSE "none"

-----------------------------------------------------------------------------
(* Scopes. A map is a function from keys <<spelling, name>> to sets of     *)
(* scopes; a tool is looked up by its name alone, then by "tool".          *)

\* scopesForCapability: what the map asks for a name, or the baseline.
ScopesFor(map, kind, name, baseline) ==
  LET keys == IF kind = "tool" THEN <<BareKey(name), <<"tool", name>>>> ELSE <<<<kind, name>>>>
      configured == {i \in DOMAIN keys : keys[i] \in DOMAIN map}
  IN  IF name = "none" \/ configured = {} THEN {baseline}
      ELSE map[keys[CHOOSE i \in configured : \A j \in configured : i <= j]]

\* routeFromScopeKey: the one route a key is about, however it is spelled.
Canonical(key) == IF key[1] = "bare" THEN <<"tool", key[2]>> ELSE key

Kind(method) == CASE method = "tools/call" -> "tool"
                  [] method = "prompts/get" -> "prompt"
                  [] method = "resources/read" -> "resource"
                  [] OTHER -> "other"

\* What the gate answers a request it does not let through.
GateRefusals ==
  (Bodies \ {"ok"}) \cup {"disagrees", "no_method", "headers_needed", "policy_denied", "step_up"}

(* runScopedGate, as the rungs one request meets. `permitted` says whether *)
(* the permission the caller's side resolved is held, `asked` the scopes   *)
(* it resolved, `held` the token's.                                        *)
GateRungs(r, scoped, strict, permitted, asked, held) ==
  LET read == r.post /\ Preflight(r) = "pass"
      refused == r.post /\ Preflight(r) # "pass"
  IN << Rung(Preflight(r), refused /\ (scoped \/ strict)),
        Rung("headers_needed", scoped /\ read /\ Classified(r) # "modern"),
        Rung("policy_denied", read /\ ~permitted),
        Rung("step_up", read /\ scoped /\ ~(asked \subseteq held)) >>
=============================================================================
