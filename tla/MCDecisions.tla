----------------------------- MODULE MCDecisions ----------------------------
(* Configurations, callers, policies, servers, documents and requests for  *)
(* the runs of Decisions.                                                  *)
EXTENDS Decisions, TLC

\* Two templates, both spanning x1, each spanning its own text as UriTemplate.match does.
MCExpansions == ("T" :> {"x1", "x2", "T"}) @@ ("S" :> {"x1", "S", "T"})
\* Tools that are named as the labels of a prompt and of another tool are written.
MCPrefixed == ("prompt:g" :> <<"prompt", "g">>) @@ ("tool:t" :> <<"tool", "t">>)
MCBaseline == {"mcp"}

Tool == <<"bare", "t">>
Alias == <<"tool", "t">>
Prompt == <<"prompt", "g">>
Exact == <<"resource", "E">>
Wide == <<"resource", "W">>
Narrow == <<"resource", "N">>
AllUris == (Exact :> "x1") @@ (Wide :> "T") @@ (Narrow :> "S")

Only(f, labels) == [l \in labels |-> f[l]]
Config(perms, extraUris, missing, scopes, scoped, granted) ==
  [perms |-> perms, scopes |-> scopes, scoped |-> scoped, granted |-> granted,
   uris |-> Only(AllUris, (DOMAIN AllUris \cap DOMAIN perms) \cup extraUris),
   defs |-> DOMAIN perms \ missing]

Maps == UNION {[labels -> {"p", "q"}] : labels \in
          {{Tool, Exact, Wide}, {Alias, Prompt}, {Tool, Alias}, {Wide, Narrow}, {Prompt, Exact}}}
Good(f) == Config(f, {}, {}, <<>>, FALSE, {"p", "q"})
Scoped(f, scopes) == Config(f, {}, {}, scopes, TRUE, {"p", "q"})
First == (Tool :> "p") @@ (Exact :> "q") @@ (Wide :> "p")
Second == (Alias :> "p") @@ (Prompt :> "q")

\* A prompt, and a tool whose name is the prompt's label.
Namesake == (<<"tool", "prompt:g">> :> "q") @@ (Prompt :> "p")

MCConfigs ==
  {Good(f) : f \in Maps \cup {Namesake}}
  \cup {Config(f, {}, {}, <<>>, FALSE, g) : f \in {First, Second}, g \in {{"*"}, {"p"}, {}}}
  \cup {Config(First, {}, {Wide}, <<>>, FALSE, {"p", "q"}), Config(First, {Narrow}, {}, <<>>, FALSE, {"p", "q"}),
        [Good(First) EXCEPT !.uris = Only(AllUris, {Exact})]}
  \cup {Scoped(First, s) : s \in {Exact :> {"s1"}, (Exact :> {"s1"}) @@ (Wide :> {"s2"}),
          Alias :> {"s1", "s2"}, (Alias :> {"s1"}) @@ (Tool :> {"s2"}), Prompt :> {"s1"}, Exact :> {}}}
  \cup {Scoped(Second, s) : s \in {Prompt :> {"s1"}, (Tool :> {"s1"}) @@ (Prompt :> {"mcp"})}}

MCCallers == {[perms |-> p, scopes |-> s] :
                p \in {{}, {"p"}, {"q"}, {"p", "q"}, {"*"}},
                s \in {{}, {"mcp"}, {"mcp", "s1"}, {"mcp", "s1", "s2"}}}

Message(method, ref, names) ==
  [method |-> method, names |-> names, id |-> TRUE, post |-> TRUE, body |-> "ok", modern |-> TRUE,
   mhdr |-> "same", nhdr |-> "same", ref |-> ref, fits |-> TRUE]
Plain ==
  {Message("tools/call", "tool", <<n>>) : n \in {"t", "other", "prompt:g", "tool:t"}}
  \cup {Message("prompts/get", "prompt", <<"g">>), Message("completion/complete", "prompt", <<"g">>),
        Message("tools/list", "na", <<>>), Message("ping", "na", <<>>),
        Message("tasks/get", "na", <<>>), Message("completion/complete", "bad", <<>>)}
  \cup {Message("resources/read", "resource", <<u>>) : u \in {"x1", "x2", "x3", "T"}}
  \cup {Message("completion/complete", "resource", <<u>>) : u \in {"T", "S"}}
  \cup {Message("subscriptions/listen", "resource", s) : s \in {<<>>, <<"x1">>, <<"x2", "T">>}}
\* One thing wrong at a time with a call and with a read.
Awry ==
  UNION {{[m EXCEPT !.id = FALSE], [m EXCEPT !.post = FALSE], [m EXCEPT !.modern = FALSE], [m EXCEPT !.fits = FALSE]}
         \cup {[m EXCEPT !.body = b] : b \in {"not_json_type", "too_large", "not_json", "repeats_a_key"}}
         \cup {[m EXCEPT !.mhdr = h] : h \in {"other", "none"}}
         \cup {[m EXCEPT !.nhdr = h] : h \in {"other", "none"}}
         : m \in {Message("tools/call", "tool", <<"t">>), Message("resources/read", "resource", <<"x1">>)}}
  \cup {[Message("notifications/cancelled", "na", <<>>) EXCEPT !.id = FALSE],
        [Message("none", "na", <<>>) EXCEPT !.modern = FALSE],
        Message("tools/call", "tool", <<>>), Message("notifications/cancelled", "na", <<>>)}
MCAsks == Plain \cup Awry

-----------------------------------------------------------------------------
(* Policies, identities and servers.                                       *)

Rule(match, roles) == [match |-> match, roles |-> roles, deny |-> FALSE, nulls |-> {}]
Deny(match) == [match |-> match, roles |-> {}, deny |-> TRUE, nulls |-> {}]
Roles == ("reader" :> {"p"}) @@ ("writer" :> {"q"}) @@ ("admin" :> {"*"})
Policy(rules) == [catalogue |-> <<>>, roles |-> Roles, rules |-> rules]
AtAcme == "domain" :> "acme"
Everyone == <<>>
Team == "claim" :> <<"org.team", "core">>

MCPolicies ==
  {Policy(rules) : rules \in {
     <<Rule(AtAcme, {"reader"}), Rule("email" :> "ann@acme", {"writer"})>>,
     <<Deny("sub" :> "s1"), Rule(AtAcme, {"reader", "writer"})>>,
     <<Rule(AtAcme @@ ("issuer" :> "idp"), {"reader"}), Rule(Team, {"admin"}), Deny("email" :> "ann@acme")>>,
     <<Rule(Team, {"writer"}), Rule(Everyone, {"reader"})>>,
     <<[Rule(Everyone, {"reader"}) EXCEPT !.nulls = {"match"}]>>,
     <<[Rule(AtAcme, {}) EXCEPT !.nulls = {"role"}]>>,
     <<Rule(AtAcme, {})>>, <<Rule(AtAcme, {"nobody"})>>}}
  \cup {[Policy(<<Rule(AtAcme, {"reader"})>>) EXCEPT !.catalogue = <<cat>>] : cat \in {{"p", "q"}, {"p"}, {"p", "*"}}}
  \cup {[Policy(<<Rule(AtAcme, {"reader"})>>) EXCEPT !.roles = r] :
           r \in {[Roles EXCEPT !["admin"] = {"*", "p"}], "reader" :> {"p"}, "reader" :> {"p", "q"}}}

Person(email, verified, hd, sub) ==
  [issuer |-> "idp", sub |-> sub, email |-> email, verified |-> verified, hd |-> hd,
   literal |-> <<>>, nested |-> <<>>]
MCMailDomain == ("ann@acme" :> "acme") @@ ("bob@other" :> "other")
MCIdentities ==
  {Person("ann@acme", v, "none", "s1") : v \in BOOLEAN}
  \cup {Person("bob@other", TRUE, hd, "s2") : hd \in {"none", "acme"}}
  \cup {Person("none", TRUE, "acme", "s2"), Person("nobody", TRUE, "none", "s2"),
        [Person("ann@acme", TRUE, "none", "s2") EXCEPT !.issuer = "idp2"],
        [Person("none", FALSE, "none", "s3") EXCEPT !.nested = "org.team" :> {"core"}],
        [Person("ann@acme", TRUE, "none", "s3") EXCEPT !.nested = "org.team" :> {"core"},
                                                      !.literal = "org.team" :> {"edge"}]}

Capability(kind, at, perm, asks) ==
  [label |-> kind \o " " \o at, kind |-> kind, at |-> at, perm |-> perm, asks |-> asks]
MCBaseScopes == {"mcp"}
Server(caps, scopes, scoped, approver) ==
  [caps |-> caps, scopes |-> scopes, scoped |-> scoped, approver |-> approver, legacy |-> FALSE]
T(asks) == Capability("tool", "t", "p", asks)
One(at, perm, asks) == Capability("resource", at, perm, asks)
Shared == <<One("T", "p", TRUE), One("S", "q", FALSE), One("x1", "q", FALSE), T(TRUE)>>
MCServers ==
  {Server(Shared, <<>>, FALSE, TRUE), Server(Shared, <<>>, FALSE, FALSE),
   [Server(Shared, <<>>, FALSE, TRUE) EXCEPT !.legacy = TRUE],
   Server(Shared, (<<"resource", "x1">> :> {"s1"}) @@ (<<"tool", "t">> :> {"s2"}), TRUE, TRUE),
   Server(Shared, <<"prompt", "t">> :> {"s1"}, TRUE, TRUE),
   Server(Shared, <<"bare", "t">> :> {"s2"}, TRUE, TRUE),
   Server(Shared, (<<"bare", "t">> :> {"s2"}) @@ (<<"tool", "t">> :> {"s1"}), TRUE, TRUE),
   Server(Shared, <<"tool", "t">> :> {}, TRUE, TRUE),
   Server(<<T(FALSE), Capability("prompt", "g", "q", TRUE), One("S", "p", FALSE), One("T", "q", FALSE)>>, <<>>, FALSE, TRUE),
   Server(<<T(FALSE), [T(TRUE) EXCEPT !.perm = "q"]>>, <<>>, FALSE, TRUE)}

Small == {Message("tools/call", "tool", <<n>>) : n \in {"t", "other"}}
  \cup {Message("resources/read", "resource", <<u>>) : u \in {"x1", "x2", "x3", "T"}}
  \cup {Message("prompts/get", "prompt", <<"g">>), Message("tools/list", "na", <<>>)}
One1 == Message("tools/call", "tool", <<"t">>)
Bad == {[One1 EXCEPT !.post = FALSE], [One1 EXCEPT !.body = "not_json"], [One1 EXCEPT !.modern = FALSE],
        [One1 EXCEPT !.nhdr = "other"], [One1 EXCEPT !.id = FALSE]}
MCAccessCalls ==
  {[request |-> r, held |-> h] : r \in Small, h \in {{"mcp"}, {"mcp", "s1", "s2"}}}
  \cup {[request |-> r, held |-> {"mcp", "s1"}] : r \in Bad} \cup {[request |-> One1, held |-> {}]}

-----------------------------------------------------------------------------
(* A document whose templates overlap, and ones no gate starts with.       *)

Operation(id, verb, path, length) == [id |-> id, verb |-> verb, path |-> path, length |-> length]
Cases == << Operation("one", "get", <<"cases", "{}">>, 11),
            Operation("find", "get", <<"cases", "search">>, 13),
            Operation("send", "post", <<"cases", "search">>, 13),
            Operation("wide", "get", <<"{}", "{}">>, 11),
            Operation("twin", "get", <<"{}", "x">>, 11),
            Operation("file", "get", <<"cases", "{}.json">>, 16),
            Operation("all", "get", <<"cases">>, 6) >>
Prices(ids, f) == [id \in ids |-> IF id \in f THEN "q" ELSE "p"]
IdsOf(ops) == {ops[k].id : k \in DOMAIN ops}
MCDocuments ==
  {[operations |-> Cases, prices |-> Prices(IdsOf(Cases), q), granted |-> g] :
     q \in {{"find", "wide"}, {"one", "send", "twin"}}, g \in {{"p", "q"}, {"*"}, {"p"}}}
  \cup {[operations |-> SubSeq(Cases, 1, n), prices |-> Prices(ids, {}), granted |-> {"p"}] :
           n \in {2, 3}, ids \in {IdsOf(SubSeq(Cases, 1, 2)), {"one", "find", "old"}}}
  \cup {[operations |-> <<Cases[1], [Cases[2] EXCEPT !.id = i]>>, prices |-> Prices({"one"}, {}), granted |-> {"p"}] :
           i \in {"one", "none"}}
MCSpecPath == <<"openapi">>
MCOaCalls == {"c1"}
MCRequests ==
  {[verb |-> v, url |-> u, perms |-> p, carries |-> "token"] :
     v \in {"get", "post", "connect"}, p \in {{}, {"p"}, {"q"}, {"*"}},
     u \in {<<"openapi">>, <<"cases">>, <<"cases", "search">>, <<"cases", "x">>, <<"else", "x">>, <<"a", "b", "c">>}}
  \cup {[verb |-> "get", url |-> <<"cases">>, perms |-> {}, carries |-> w] : w \in {"metadata", "foreign", "nothing"}}
=============================================================================
