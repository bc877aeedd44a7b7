-------------------------------- MODULE Wrap --------------------------------
(***************************************************************************)
(* mcp-authz wrap (wrap.ts): one client, one stdio MCP server, and wrap in *)
(* between, holding the server's tools to the definitions a person         *)
(* approved.                                                               *)
(*                                                                         *)
(* The client's line handler and the server's line handler each run to     *)
(* completion, so each is one action.  The server answers its requests in  *)
(* any order, but what it writes arrives in the order it was written.      *)
(* It may change a tool at any time, and says so with list_changed.        *)
(***************************************************************************)
EXTENDS Integers, Sequences

CONSTANTS
    Tools,
    Listed,      \* names the user allows: `allow`, or all but `deny`
    Pinned,      \* names with an approved definition in the record
    HasRecord,   \* whether a record was given at all (options.pinned)
    AllowMode,   \* whether the user gave an allow list (options.allow)
    Ids,         \* the client's request ids, each used once
    Kinds,       \* what the client sends: "call", "list", "discover"
    Pages,       \* pages of the server's tool list
    PageOf,      \* the page each tool is on
    Repeats,     \* what a page may list of a name besides: <<name, definition>>
    MaxEvents,   \* bound on what the server does of its own accord
    LateAnswers  \* whether the server may write a listing it prepared earlier

Verify == "verify" \* the id of wrap's own listing: one is under way at a time
NoId   == "none"

ASSUME WrapAssumption ==
    /\ Listed \subseteq Tools
    /\ Pinned \subseteq Tools
    /\ {HasRecord, AllowMode, LateAnswers} \subseteq BOOLEAN
    /\ ~HasRecord => Pinned = {}
    /\ Kinds \subseteq {"call", "list", "discover"}
    /\ Pages \in Nat \ {0}
    /\ PageOf \in [Tools -> 1..Pages]
    /\ Repeats \subseteq Tools \X {"recorded", "different"}
    /\ MaxEvents \in Nat
    /\ {Verify, NoId} \cap Ids = {}

VARIABLES
    live,        \* the server's tools: what stands behind each name
    events,      \* what the server has done of its own accord so far
    request,     \* the client's view of each of its requests
    catalogue,   \* the tools last shown to the client, with their definitions
    changed,     \* the map changed: listed tools hidden for their definition
    verified,    \* tools whose live definition matched since the last list_changed
    held,        \* ids of the calls waiting on wrap's own listing
    verifying,   \* whether that listing is under way
    listing,     \* ids of the client's tools/list requests
    discovering, \* ids of its initialize or server/discover
    calls,       \* ids of calls in flight
    toServer,    \* requests the server has yet to answer
    fromServer,  \* lines the server has written, oldest first
    stopping     \* whether wrap has begun to stop the server

wrapVars == <<changed, verified, held, verifying, listing, discovering, calls, stopping>>
vars == <<live, events, request, catalogue, wrapVars, toServer, fromServer>>

Definitions == {"recorded", "different", "absent"}
NoTools == [t \in Tools |-> "absent"]

\* What a page lists under each name before the item that ends up as the live
\* one: a page may list a name more than once, and its last item is the one
\* taken to stand behind the name.
Present == {"recorded", "different"}
Once == [t \in Tools |-> {}]

\* A request on its way to the server.  A listing may be prepared ahead.
Asked == [kind: {"call", "list", "discover"}, id: Ids \cup {Verify}, page: 1..Pages,
          prepared: BOOLEAN, seen: [Tools -> Definitions]]

\* A line from the server: a page of tools, the answer to a call, the answer to
\* server/discover, an error, the list_changed notification, or a request of
\* the server's own, whose id can be one the client used.
Line == [type: {"page", "result", "discovered", "error", "list_changed", "request"},
         id: Ids \cup {Verify, NoId}, seen: [Tools -> Definitions],
         before: [Tools -> SUBSET Present], next: 0..Pages, body: {"sound", "unsound"}]

Outcomes == {"answered", "withheld", "refused", "unlisted", "invalid"}

TypeOK ==
    /\ live \in [Tools -> Definitions]
    /\ events \in 0..MaxEvents
    /\ request \in [Ids -> [status: {"new", "open"} \cup Outcomes, tool: Tools]]
    /\ catalogue \in [Tools -> SUBSET Present]
    /\ changed \in SUBSET Listed
    /\ verified \in SUBSET Tools
    /\ held \in SUBSET Ids
    /\ {verifying, stopping} \subseteq BOOLEAN
    /\ listing \in SUBSET Ids
    /\ discovering \in SUBSET Ids
    /\ calls \in SUBSET Ids
    /\ toServer \in SUBSET Asked
    /\ fromServer \in Seq(Line)

Init ==
    /\ live \in [Tools -> Definitions]
    /\ events = 0
    /\ request \in [Ids -> [status: {"new"}, tool: Tools]]
    /\ catalogue = Once
    /\ changed = {} /\ verified = {} /\ held = {} /\ verifying = FALSE
    /\ listing = {} /\ discovering = {} /\ calls = {}
    /\ toServer = {} /\ fromServer = <<>>
    /\ stopping = FALSE

-----------------------------------------------------------------------------
(* What wrap knows of a tool. *)

\* drift(): a definition that is not the one approved, or, with an allow list,
\* one that was never offered for approval.
Drifts(t, d) ==
    /\ HasRecord
    /\ IF t \in Pinned THEN d # "recorded" ELSE AllowMode

VisibleIn(t, chg) == t \in Listed /\ t \notin chg
visible(t) == VisibleIn(t, changed)

\* check(), run on every tool of a page: the sets it leaves behind.
Offered(seen) == {t \in Tools : seen[t] # "absent"}
Matching(seen) == {t \in Offered(seen) : ~Drifts(t, seen[t])}
VerifiedAfter(seen) == (verified \cup Matching(seen)) \ (Offered(seen) \ Matching(seen))
\* Mutant of ChangedAfter: a drift is logged, but the tool is not marked.
ChangedNeverAfter(seen) == changed \ Matching(seen)
\* Mutant of ChangedAfter: marks names the user never listed as well.
ChangedUnlistedAfter(seen) == (changed \ Matching(seen)) \cup (Offered(seen) \ Matching(seen))
ChangedAfter(seen) ==
    (changed \ Matching(seen)) \cup ((Offered(seen) \ Matching(seen)) \cap Listed)

\* A write to the server's input, which is closed once wrap is stopping.
Written(asked) == IF stopping THEN toServer ELSE toServer \cup asked

Ask(kind, id, page) ==
    [kind |-> kind, id |-> id, page |-> page, prepared |-> FALSE, seen |-> NoTools]

Ends(ids, outcome) ==
    [i \in Ids |-> IF i \in ids THEN [request[i] EXCEPT !.status = outcome] ELSE request[i]]

\* Mutant of Forward: a call with bad arguments is answered and still sent.
ForwardAll(ids, wrong, rest, reason) ==
    /\ request' = [i \in Ids |-> IF i \in wrong THEN [request[i] EXCEPT !.status = "invalid"]
                                 ELSE IF i \in rest THEN [request[i] EXCEPT !.status = reason[i]]
                                 ELSE IF i \in ids THEN [request[i] EXCEPT !.status = "open"]
                                 ELSE request[i]]
    /\ calls' = calls \cup ids
    /\ toServer' = Written({Ask("call", i, 1) : i \in ids})

\* forward(), on calls whose arguments break the recorded schema (wrong) and on
\* the others; and what is left of `rest` is refused for this reason.
Forward(ids, wrong, rest, reason) ==
    /\ request' = [i \in Ids |-> IF i \in wrong THEN [request[i] EXCEPT !.status = "invalid"]
                                 ELSE IF i \in rest THEN [request[i] EXCEPT !.status = reason[i]]
                                 ELSE IF i \in ids THEN [request[i] EXCEPT !.status = "open"]
                                 ELSE request[i]]
    /\ calls' = calls \cup (ids \ wrong)
    /\ toServer' = Written({Ask("call", i, 1) : i \in ids \ wrong})

\* The arguments of a call are checked only against a recorded schema.
Checkable(ids) == {i \in ids : request[i].tool \in Pinned}

-----------------------------------------------------------------------------
(* Lines from the client.  They are dropped once wrap is stopping. *)

ClientLists(i) ==
    /\ "list" \in Kinds /\ ~stopping
    /\ request[i].status = "new"
    /\ listing' = listing \cup {i}
    /\ \E page \in 1..Pages : toServer' = Written({Ask("list", i, page)})
    /\ request' = Ends({i}, "open")
    /\ UNCHANGED <<live, events, catalogue, changed, verified, held, verifying,
                   discovering, calls, fromServer, stopping>>

ClientDiscovers(i) ==
    /\ "discover" \in Kinds /\ ~stopping
    /\ request[i].status = "new"
    /\ discovering' = discovering \cup {i}
    /\ toServer' = Written({Ask("discover", i, 1)})
    /\ request' = Ends({i}, "open")
    /\ UNCHANGED <<live, events, catalogue, changed, verified, held, verifying,
                   listing, calls, fromServer, stopping>>

\* A call to a hidden tool is answered here.
ClientCallsHidden(i) ==
    /\ "call" \in Kinds /\ ~stopping
    /\ request[i].status = "new"
    /\ ~visible(request[i].tool)
    /\ request' = Ends({i}, "refused")
    /\ UNCHANGED <<live, events, catalogue, wrapVars, toServer, fromServer>>

\* A call to a tool not checked since the last list_changed is held, and wrap
\* lists the server's tools itself unless it already is.
ClientCallsUnchecked(i) ==
    /\ "call" \in Kinds /\ ~stopping
    /\ request[i].status = "new"
    /\ visible(request[i].tool)
    /\ HasRecord /\ request[i].tool \notin verified
    /\ held' = held \cup {i}
    /\ verifying' = TRUE
    /\ toServer' = IF verifying THEN toServer ELSE Written({Ask("list", Verify, 1)})
    /\ request' = Ends({i}, "open")
    /\ UNCHANGED <<live, events, catalogue, changed, verified, listing, discovering,
                   calls, fromServer, stopping>>

ClientCalls(i) ==
    /\ "call" \in Kinds /\ ~stopping
    /\ request[i].status = "new"
    /\ visible(request[i].tool)
    /\ HasRecord => request[i].tool \in verified
    /\ \E wrong \in SUBSET Checkable({i}) : Forward({i}, wrong, {}, <<>>)
    /\ UNCHANGED <<live, events, catalogue, changed, verified, held, verifying,
                   listing, discovering, fromServer, stopping>>

-----------------------------------------------------------------------------
(* The server. *)

Write(line) == fromServer' = Append(fromServer, line)

\* A line that says no more than what it is.
Bare(type, id) ==
    [type |-> type, id |-> id, seen |-> NoTools, before |-> Once, next |-> 0, body |-> "sound"]
Verdicts(type, id) == {[Bare(type, id) EXCEPT !.body = b] : b \in {"sound", "unsound"}}
Notice == Bare("list_changed", NoId)

ServerChanges(t, d) ==
    /\ events < MaxEvents
    /\ live[t] # d
    /\ live' = [live EXCEPT ![t] = d]
    /\ events' = events + 1
    /\ Write(Notice)
    /\ UNCHANGED <<request, catalogue, wrapVars, toServer>>

\* The server numbers its own requests, so one can carry a client's id.
ServerAsks(i) ==
    /\ events < MaxEvents
    /\ events' = events + 1
    /\ Write(Bare("request", i))
    /\ UNCHANGED <<live, request, catalogue, wrapVars, toServer>>

OnPage(page) == [t \in Tools |-> IF PageOf[t] = page THEN live[t] ELSE "absent"]

ServerPrepares(q) ==
    /\ LateAnswers
    /\ q.kind = "list" /\ ~q.prepared
    /\ toServer' = (toServer \ {q}) \cup
                     {[kind |-> "list", id |-> q.id, page |-> q.page, prepared |-> TRUE,
                       seen |-> OnPage(q.page)]}
    /\ UNCHANGED <<live, events, request, catalogue, wrapVars, fromServer>>

\* A name on the page may come up before its last item, as often as it likes.
Earlier(seen) ==
    {b \in [Tools -> SUBSET Present] :
       \A t \in Tools : \A d \in b[t] : <<t, d>> \in Repeats /\ seen[t] # "absent"}

PageAnswers(q, seen) ==
    {[type |-> "page", id |-> q.id, seen |-> seen, before |-> b,
      next |-> IF q.page < Pages THEN q.page + 1 ELSE 0, body |-> "sound"] :
       b \in Earlier(seen)}

\* A listing is a page and where the next one is; a call's result or the
\* instructions are sound, or not what the record says they must be.
Answers(q) ==
    CASE q.kind = "list" -> PageAnswers(q, IF q.prepared THEN q.seen ELSE OnPage(q.page))
      [] q.kind = "call" -> Verdicts("result", q.id)
      [] q.kind = "discover" -> Verdicts("discovered", q.id)

ServerAnswers(q) ==
    /\ \/ \E line \in Answers(q) : Write(line)
       \/ Write(Bare("error", q.id))
    /\ toServer' = toServer \ {q}
    /\ UNCHANGED <<live, events, request, catalogue, wrapVars>>

-----------------------------------------------------------------------------
(* Lines from the server. *)

Takes(type) ==
    /\ fromServer # <<>>
    /\ Head(fromServer).type = type
    /\ fromServer' = Tail(fromServer)

\* Mutant of Release: calls that may not go on are left waiting.
ReleaseOnlyGood(failed, ver, chg) ==
    LET tool(i) == request[i].tool
        go == {i \in held : ~failed /\ VisibleIn(tool(i), chg) /\ tool(i) \in ver}
    IN  /\ verifying' = FALSE
        /\ held' = held \ go
        /\ \E wrong \in SUBSET Checkable(go) : Forward(go, wrong, {}, <<>>)

\* release(): the listing is done, or failed.  Each held call goes on when its
\* tool is visible and verified, by the sets the last page left behind.
Release(failed, ver, chg) ==
    LET tool(i) == request[i].tool
        go == {i \in held : ~failed /\ VisibleIn(tool(i), chg) /\ tool(i) \in ver}
        reason == [i \in held |-> IF failed \/ tool(i) \in chg THEN "refused" ELSE "unlisted"]
    IN  /\ verifying' = FALSE
        /\ held' = {}
        /\ \E wrong \in SUBSET Checkable(go) : Forward(go, wrong, held \ go, reason)

\* The answer to wrap's own listing: never passed on.
HandleVerification ==
    LET line == Head(fromServer) IN
    /\ \/ /\ Takes("page")
          /\ line.id = Verify
          /\ verified' = VerifiedAfter(line.seen)
          /\ changed' = ChangedAfter(line.seen)
          /\ \/ /\ line.next # 0
                /\ toServer' = Written({Ask("list", Verify, line.next)})
                /\ UNCHANGED <<request, held, verifying, calls>>
             \/ line.next = 0 /\ Release(FALSE, verified', changed')
       \/ /\ Takes("error")
          /\ line.id = Verify
          /\ Release(TRUE, verified, changed)
          /\ UNCHANGED <<verified, changed>>
    /\ UNCHANGED <<live, events, catalogue, listing, discovering, stopping>>

\* Mutant of HandleListChanged: the notification is only passed on.
HandleListChangedPassedOn ==
    /\ Takes("list_changed")
    /\ UNCHANGED <<live, events, request, catalogue, wrapVars, toServer>>

HandleListChanged ==
    /\ Takes("list_changed")
    /\ verified' = {}
    /\ UNCHANGED <<live, events, request, catalogue, changed, held, verifying, listing,
                   discovering, calls, toServer, stopping>>

\* All definitions a page lists under a name.
Items(line, t) ==
    IF line.seen[t] = "absent" THEN {} ELSE line.before[t] \cup {line.seen[t]}

\* An answer to the client's own listing is checked item by item, so the last
\* item of a name decides, and then shown without the names that are hidden:
\* what is shown of a name is every item the page has of it.  A page whose id is
\* not awaited passes as it is.
HandleListing ==
    LET line == Head(fromServer) IN
    /\ Takes("page")
    /\ line.id # Verify
    /\ IF line.id \in listing
       THEN /\ verified' = VerifiedAfter(line.seen)
            /\ changed' = ChangedAfter(line.seen)
            /\ catalogue' = [t \in Tools |-> IF VisibleIn(t, changed') THEN Items(line, t)
                                             ELSE {}]
       ELSE catalogue' = [t \in Tools |-> Items(line, t)] /\ UNCHANGED <<verified, changed>>
    /\ listing' = listing \ {line.id}
    /\ request' = Ends({line.id}, "answered")
    /\ UNCHANGED <<live, events, held, verifying, discovering, calls, toServer, stopping>>

\* A call's result is screened against the recorded schema, and instructions
\* against the record; either is passed on only when sound.
HandleAnswer ==
    LET line == Head(fromServer)
        screened == \/ line.id \in calls
                    \/ line.id \in discovering /\ HasRecord
    IN
    /\ Takes("result") \/ Takes("discovered")
    /\ request' = Ends({line.id}, IF screened /\ line.body = "unsound" THEN "withheld" ELSE "answered")
    /\ calls' = calls \ {line.id}
    /\ discovering' = discovering \ {line.id}
    /\ UNCHANGED <<live, events, catalogue, changed, verified, held, verifying, listing,
                   toServer, stopping>>

HandleError ==
    LET line == Head(fromServer) IN
    /\ Takes("error")
    /\ line.id # Verify
    /\ request' = Ends({line.id}, "answered")
    /\ listing' = listing \ {line.id}
    /\ calls' = calls \ {line.id}
    /\ discovering' = discovering \ {line.id}
    /\ UNCHANGED <<live, events, catalogue, changed, verified, held, verifying, toServer,
                   stopping>>

\* Mutant of SettledByRequest: any line with an id settles that id.
SettledByAnyLine(id) == {id}

\* The ids a request of the server's own settles: none, whatever id it carries.
SettledByRequest(id) == {}

HandleRequest ==
    LET settled == SettledByRequest(Head(fromServer).id) IN
    /\ Takes("request")
    /\ listing' = listing \ settled
    /\ calls' = calls \ settled
    /\ discovering' = discovering \ settled
    /\ UNCHANGED <<live, events, request, catalogue, changed, verified, held, verifying,
                   toServer, stopping>>

-----------------------------------------------------------------------------
\* The client closes its end, wrap is told to stop, or the server exits: wrap
\* closes the server's input, and what it had not read is never answered.
Stop ==
    /\ ~stopping
    /\ stopping' = TRUE
    /\ UNCHANGED <<live, events, request, catalogue, changed, verified, held, verifying,
                   listing, discovering, calls, toServer, fromServer>>

HandleLine ==
    \/ HandleVerification
    \/ HandleListChanged
    \/ HandleListing
    \/ HandleAnswer
    \/ HandleError
    \/ HandleRequest

Next ==
    \/ \E i \in Ids : \/ ClientLists(i)
                      \/ ClientDiscovers(i)
                      \/ ClientCallsHidden(i)
                      \/ ClientCallsUnchecked(i)
                      \/ ClientCalls(i)
    \/ \E t \in Tools, d \in Definitions : ServerChanges(t, d)
    \/ \E i \in Ids : ServerAsks(i)
    \/ \E q \in toServer : ServerPrepares(q)
    \/ \E q \in toServer : ServerAnswers(q)
    \/ HandleLine
    \/ Stop

Spec == Init /\ [][Next]_vars

\* wrap handles each line it receives, and the server answers wrap's listing
\* with a page or an error.  wrap sets no deadline of its own, so without the
\* second a held call may wait for ever.
AnswersVerification == \E q \in toServer : q.id = Verify /\ ServerAnswers(q)

Fairness == WF_vars(HandleLine) /\ WF_vars(AnswersVerification)

LiveSpec == Spec /\ Fairness

-----------------------------------------------------------------------------
(* Properties. *)

NoticePending == \E k \in 1..Len(fromServer) : fromServer[k].type = "list_changed"

\* A call to a tool with an approved definition reaches the server only while
\* that definition stands, or before wrap could have read that it changed:
\* whatever was held, listed or verified meanwhile, and on whichever page.
ForwardedAsApproved ==
    [][\A i \in calls' \ calls :
         request[i].tool \in Pinned => live[request[i].tool] = "recorded" \/ NoticePending']_vars

\* What the client was last shown holds no tool the user left out, and of every
\* tool it shows the approved definition: one that is not the approved one is
\* shown only beside it, by a page that lists the name twice (wrap.ts:348-353).
NothingHiddenShown ==
    \A t \in Tools :
        catalogue[t] # {} => t \in Listed /\ \E d \in catalogue[t] : ~Drifts(t, d)

\* Every answer still to come, unread by the server or on the wire, is one wrap
\* will recognise: no listing, result or instructions passes unchecked because
\* its id was forgotten.
AwaitedAs(kind) ==
    CASE kind = "list" -> listing [] kind = "call" -> calls [] kind = "discover" -> discovering

EveryAnswerTracked ==
    /\ \A q \in toServer : q.id # Verify => q.id \in AwaitedAs(q.kind)
    /\ \A k \in 1..Len(fromServer) :
         LET line == fromServer[k] IN
         /\ line.type = "page" /\ line.id # Verify => line.id \in listing
         /\ line.type = "result" => line.id \in calls
         /\ line.type = "discovered" => line.id \in discovering

\* A call wrap answered itself never reaches the server, before or after.
RefusedNeverSent ==
    \A i \in Ids :
        request[i].status \in {"refused", "unlisted", "invalid"} =>
            i \notin held \cup calls /\ \A q \in toServer : q.id # i

\* A held call is let go, one way or the other, unless the session ends first:
\* its listing has as many pages as the server has, and each one is answered.
HeldCallsSettle ==
    \A i \in Ids : i \in held ~> i \notin held \/ stopping
=============================================================================
