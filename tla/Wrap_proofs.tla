---------------------------- MODULE Wrap_proofs ----------------------------
(***************************************************************************)
(* Theorems about Wrap, for any tools, pages, requests and lists of a      *)
(* user. Each request of the client has one place at a time: with wrap, on *)
(* its way to the server, or in an answer on its way back.                 *)
(***************************************************************************)
EXTENDS Wrap, TLAPS

Positions == 1..Len(fromServer)
Answering(line) == line.type \in {"page", "result", "discovered", "error"}
Own == {"refused", "unlisted", "invalid"}

\* No answer to a request is on its way, and none will be.
Nowhere(i) ==
    /\ \A q \in toServer : q.id # i
    /\ \A k \in Positions : Answering(fromServer[k]) => fromServer[k].id # i

OneAnswer ==
    /\ \A q, r \in toServer : q.id = r.id /\ q.id # Verify => q = r
    /\ \A q \in toServer, k \in Positions :
         Answering(fromServer[k]) /\ q.id # Verify => fromServer[k].id # q.id
    /\ \A j, k \in Positions :
         /\ Answering(fromServer[j]) /\ Answering(fromServer[k])
         /\ fromServer[j].id = fromServer[k].id /\ fromServer[j].id # Verify
         => j = k

\* What wrap has not sent, or has answered itself, is nowhere else.
KeptHere ==
    \A i \in Ids :
        /\ request[i].status \in {"new"} \cup Own => Nowhere(i) /\ i \notin held \cup calls
        /\ i \in held => Nowhere(i) /\ i \notin calls

\* What wrap asks itself is a listing.
OwnListing == \A q \in toServer : q.id = Verify => q.kind = "list"

WInv == TypeOK /\ OwnListing /\ OneAnswer /\ KeptHere /\ EveryAnswerTracked

-----------------------------------------------------------------------------
\* The session starts with nothing sent.
LEMMA WrapStarts == Init => WInv
<1> SUFFICES ASSUME Init PROVE WInv
  OBVIOUS
<1>1. TypeOK
  <2>1. /\ live \in [Tools -> Definitions] /\ events \in 0..MaxEvents
        /\ request \in [Ids -> [status: {"new", "open"} \cup Outcomes, tool: Tools]]
        /\ catalogue \in [Tools -> SUBSET Present] /\ fromServer \in Seq(Line)
    BY WrapAssumption DEF Init, Once, Definitions, Outcomes
  <2> QED
    BY <2>1 DEF Init, TypeOK
<1>2. toServer = {} /\ fromServer = <<>> /\ held = {} /\ calls = {}
  BY DEF Init
<1>3. Len(fromServer) = 0
  BY <1>2
<1>4. OwnListing /\ OneAnswer /\ KeptHere /\ EveryAnswerTracked
  BY <1>2, <1>3 DEF OwnListing, OneAnswer, KeptHere, EveryAnswerTracked, Nowhere, Positions
<1> QED
  BY <1>1, <1>4 DEF WInv

\* The shape of a line, and of what is asked.
LEMMA LineTypes ==
    /\ NoTools \in [Tools -> Definitions]
    /\ Once \in [Tools -> SUBSET Present]
    /\ \A type \in {"error", "list_changed", "request"}, id \in Ids \cup {Verify, NoId} :
         Bare(type, id) \in Line /\ Bare(type, id).type = type /\ Bare(type, id).id = id
    /\ \A kind \in {"call", "list", "discover"}, id \in Ids \cup {Verify}, page \in 1..Pages :
         /\ Ask(kind, id, page) \in Asked
         /\ Ask(kind, id, page).kind = kind /\ Ask(kind, id, page).id = id
         /\ ~Ask(kind, id, page).prepared
  BY WrapAssumption DEF Bare, Line, Ask, Asked, NoTools, Once, Definitions

\* One request of wrap's, by its parts.
LEMMA AskTypes ==
  ASSUME NEW kind \in {"call", "list", "discover"}, NEW id \in Ids \cup {Verify}, NEW page \in 1..Pages
  PROVE  /\ Ask(kind, id, page) \in Asked
         /\ Ask(kind, id, page).kind = kind /\ Ask(kind, id, page).id = id
  BY LineTypes

\* What the server answers, by what it was asked.
LEMMA AnswerTypes ==
    ASSUME TypeOK, NEW q \in toServer, NEW line \in Answers(q)
    PROVE  /\ line \in Line /\ line.id = q.id
           /\ line.type = CASE q.kind = "list" -> "page" [] q.kind = "call" -> "result"
                            [] q.kind = "discover" -> "discovered"
<1>1. q \in Asked
  BY DEF TypeOK
<1>2. OnPage(q.page) \in [Tools -> Definitions]
  BY DEF OnPage, TypeOK, Definitions
<1> DEFINE seen == IF q.prepared THEN q.seen ELSE OnPage(q.page)
<1>3. CASE q.kind = "list"
  <2>1. PICK b \in Earlier(seen) :
          line = [type |-> "page", id |-> q.id, seen |-> seen, before |-> b,
                  next |-> IF q.page < Pages THEN q.page + 1 ELSE 0, body |-> "sound"]
    BY <1>3 DEF Answers, PageAnswers
  <2>2. b \in [Tools -> SUBSET Present] /\ seen \in [Tools -> Definitions]
    BY <1>1, <1>2 DEF Earlier, Asked
  <2>3. (IF q.page < Pages THEN q.page + 1 ELSE 0) \in 0..Pages
    BY <1>1, WrapAssumption DEF Asked
  <2> HIDE DEF seen
  <2> QED
    BY <1>1, <1>3, <2>1, <2>2, <2>3 DEF Asked, Line
<1>4. ASSUME NEW type \in {"result", "discovered"}, line \in Verdicts(type, q.id)
      PROVE  line \in Line /\ line.id = q.id /\ line.type = type
  <2>1. PICK b \in {"sound", "unsound"} : line = [Bare(type, q.id) EXCEPT !.body = b]
    BY <1>4 DEF Verdicts
  <2>2. line = [type |-> type, id |-> q.id, seen |-> NoTools, before |-> Once,
                next |-> 0, body |-> b]
    BY <2>1 DEF Bare
  <2>3. q.id \in Ids \cup {Verify} /\ 0 \in 0..Pages
    BY <1>1, WrapAssumption DEF Asked
  <2> QED
    BY <2>2, <2>3, LineTypes DEF Line
<1>5. CASE q.kind = "call"
  BY <1>4, <1>5 DEF Answers
<1>6. CASE q.kind = "discover"
  BY <1>4, <1>6 DEF Answers
<1> QED
  BY <1>1, <1>3, <1>5, <1>6 DEF Asked

\* What handling, or writing, a line leaves of the lines.
LEMMA Queued ==
    ASSUME TypeOK, NEW line \in Line
    PROVE  /\ Append(fromServer, line) \in Seq(Line)
           /\ Len(Append(fromServer, line)) = Len(fromServer) + 1
           /\ \A k \in Positions : Append(fromServer, line)[k] = fromServer[k]
           /\ Append(fromServer, line)[Len(fromServer) + 1] = line
  BY DEF TypeOK, Positions

\* Reading the oldest line leaves the others in their order (wrap.ts:332).
LEMMA Taken ==
    ASSUME TypeOK, fromServer # <<>>
    PROVE  /\ Tail(fromServer) \in Seq(Line) /\ Head(fromServer) \in Line
           /\ Len(Tail(fromServer)) = Len(fromServer) - 1
           /\ 1 \in Positions /\ Head(fromServer) = fromServer[1]
           /\ \A k \in 1..Len(Tail(fromServer)) :
                k + 1 \in Positions /\ Tail(fromServer)[k] = fromServer[k + 1]
  BY DEF TypeOK, Positions

\* The sets check() leaves behind are of tools.
LEMMA CheckTypes ==
    ASSUME TypeOK, NEW seen
    PROVE  VerifiedAfter(seen) \in SUBSET Tools /\ ChangedAfter(seen) \in SUBSET Listed
  BY DEF TypeOK, VerifiedAfter, ChangedAfter, Offered, Matching

\* What Ends makes of the requests.
LEMMA EndsTypes ==
    ASSUME TypeOK, NEW ids, NEW outcome \in {"open"} \cup Outcomes
    PROVE  /\ Ends(ids, outcome) \in [Ids -> [status: {"new", "open"} \cup Outcomes, tool: Tools]]
           /\ \A i \in Ids : /\ Ends(ids, outcome)[i].tool = request[i].tool
                             /\ Ends(ids, outcome)[i].status =
                                  IF i \in ids THEN outcome ELSE request[i].status
<1>1. \A i \in Ids : request[i] \in [status: {"new", "open"} \cup Outcomes, tool: Tools]
  BY DEF TypeOK
<1>2. ASSUME NEW i \in Ids
      PROVE  /\ Ends(ids, outcome)[i] \in [status: {"new", "open"} \cup Outcomes, tool: Tools]
             /\ Ends(ids, outcome)[i].tool = request[i].tool
             /\ Ends(ids, outcome)[i].status = IF i \in ids THEN outcome ELSE request[i].status
  BY <1>1 DEF Ends
<1> QED
  BY <1>2 DEF Ends

\* What Forward makes of the requests.
LEMMA ForwardTypes ==
    ASSUME TypeOK, NEW ids, NEW wrong, NEW rest, NEW reason,
           \A i \in rest : reason[i] \in Own,
           Forward(ids, wrong, rest, reason)
    PROVE  /\ request' \in [Ids -> [status: {"new", "open"} \cup Outcomes, tool: Tools]]
           /\ \A i \in Ids : /\ request'[i].tool = request[i].tool
                             /\ request'[i].status =
                                  IF i \in wrong THEN "invalid" ELSE IF i \in rest THEN reason[i]
                                  ELSE IF i \in ids THEN "open" ELSE request[i].status
<1>1. \A i \in Ids : request[i] \in [status: {"new", "open"} \cup Outcomes, tool: Tools]
  BY DEF TypeOK
<1>2. ASSUME NEW i \in Ids
      PROVE  /\ request'[i] \in [status: {"new", "open"} \cup Outcomes, tool: Tools]
             /\ request'[i].tool = request[i].tool
             /\ request'[i].status =
                  IF i \in wrong THEN "invalid" ELSE IF i \in rest THEN reason[i]
                  ELSE IF i \in ids THEN "open" ELSE request[i].status
  BY <1>1 DEF Forward, Own, Outcomes
<1> QED
  BY <1>2 DEF Forward

-----------------------------------------------------------------------------
(* The places of a request. *)

\* Wrap writes to the server only what is nowhere yet, and handles a line by taking it.
LEMMA SendsOnce ==
    ASSUME TypeOK, OneAnswer, NEW asked,
           \A q \in asked : q.id # Verify => Nowhere(q.id),
           \A q, r \in asked : q.id = r.id /\ q.id # Verify => q = r,
           toServer' \subseteq toServer \cup asked,
           \/ fromServer' = fromServer
           \/ fromServer # <<>> /\ fromServer' = Tail(fromServer)
    PROVE  /\ OneAnswer'
           /\ \A i : Nowhere(i) /\ (\A q \in asked : q.id # i) => Nowhere(i)'
<1>1. PICK d \in {0, 1} : \A k \in Positions' : k + d \in Positions /\ fromServer'[k] = fromServer[k + d]
  <2>1. CASE fromServer' = fromServer
    <3>1. \A k \in Positions' : k \in Int /\ k + 0 = k /\ k \in Positions
      BY <2>1 DEF Positions
    <3> QED
      BY <2>1, <3>1
  <2>2. CASE fromServer # <<>> /\ fromServer' = Tail(fromServer)
    BY <2>2, Taken DEF Positions
  <2> QED
    BY <2>1, <2>2
<1>2. ASSUME NEW q \in toServer', NEW r \in toServer', q.id = r.id, q.id # Verify PROVE q = r
  BY <1>2 DEF OneAnswer, Nowhere
<1>3. ASSUME NEW q \in toServer', NEW k \in Positions', Answering(fromServer'[k]), q.id # Verify
      PROVE  fromServer'[k].id # q.id
  BY <1>1, <1>3 DEF OneAnswer, Nowhere
<1>4. ASSUME NEW j \in Positions', NEW k \in Positions',
             Answering(fromServer'[j]), Answering(fromServer'[k]),
             fromServer'[j].id = fromServer'[k].id, fromServer'[j].id # Verify
      PROVE  j = k
  <2>1. j + d = k + d
    BY <1>1, <1>4 DEF OneAnswer
  <2> QED
    BY <2>1 DEF Positions
<1>5. ASSUME NEW i, Nowhere(i), \A q \in asked : q.id # i PROVE Nowhere(i)'
  BY <1>1, <1>5 DEF Nowhere, Answering
<1> QED
  BY <1>2, <1>3, <1>4, <1>5 DEF OneAnswer, Answering

\* The server answers what it was asked, once, and says other things besides.
LEMMA AnswersOnce ==
    ASSUME TypeOK, OneAnswer, NEW line \in Line, fromServer' = Append(fromServer, line),
           \/ ~Answering(line) /\ toServer' = toServer
           \/ \E q \in toServer : line.id = q.id /\ toServer' = toServer \ {q}
    PROVE  OneAnswer' /\ \A i : Nowhere(i) => Nowhere(i)'
<1>1. /\ \A k \in Positions : fromServer'[k] = fromServer[k]
      /\ fromServer'[Len(fromServer) + 1] = line
      /\ \A k \in Positions' : k \in Positions \/ k = Len(fromServer) + 1
  BY Queued DEF TypeOK, Positions
<1>2. \A q \in toServer', r \in toServer' : q.id = r.id /\ q.id # Verify => q = r
  BY DEF OneAnswer
<1>3. ASSUME Answering(line), line.id # Verify
      PROVE  /\ \A q \in toServer' : q.id # line.id
             /\ \A k \in Positions : Answering(fromServer[k]) => fromServer[k].id # line.id
             /\ \E q \in toServer : q.id = line.id
  BY <1>3 DEF OneAnswer
<1>4. ASSUME NEW q \in toServer', NEW k \in Positions', Answering(fromServer'[k]), q.id # Verify
      PROVE  fromServer'[k].id # q.id
  <2>1. CASE k \in Positions
    BY <1>1, <1>4, <2>1 DEF OneAnswer
  <2>2. CASE k = Len(fromServer) + 1
    BY <1>1, <1>3, <1>4, <2>2
  <2> QED
    BY <1>1, <2>1, <2>2
<1>5. ASSUME NEW j \in Positions', NEW k \in Positions',
             Answering(fromServer'[j]), Answering(fromServer'[k]),
             fromServer'[j].id = fromServer'[k].id, fromServer'[j].id # Verify
      PROVE  j = k
  <2>1. CASE j \in Positions /\ k \in Positions
    BY <1>1, <1>5, <2>1 DEF OneAnswer
  <2>2. CASE j \in Positions /\ k = Len(fromServer) + 1
    BY <1>1, <1>3, <1>5, <2>2
  <2>3. CASE k \in Positions /\ j = Len(fromServer) + 1
    BY <1>1, <1>3, <1>5, <2>3
  <2> QED
    BY <1>1, <2>1, <2>2, <2>3
<1>6. ASSUME NEW i, Nowhere(i) PROVE Nowhere(i)'
  <2>1. \A q \in toServer' : q.id # i
    BY <1>6 DEF Nowhere
  <2>2. ASSUME NEW k \in Positions', Answering(fromServer'[k]) PROVE fromServer'[k].id # i
    <3>1. CASE k \in Positions
      BY <1>1, <1>6, <2>2, <3>1 DEF Nowhere
    <3>2. CASE k = Len(fromServer) + 1
      BY <1>1, <1>6, <2>2, <3>2 DEF Nowhere
    <3> QED
      BY <1>1, <3>1, <3>2
  <2> QED
    BY <2>1, <2>2 DEF Nowhere, Answering
<1> QED
  BY <1>2, <1>4, <1>5, <1>6 DEF OneAnswer, Answering

-----------------------------------------------------------------------------
(* What the server does.                                                   *)

\* It says something of its own accord, or answers with an error.
LEMMA SaysKeeps ==
    ASSUME WInv, NEW line \in Line, fromServer' = Append(fromServer, line),
           live' \in [Tools -> Definitions], events' \in 0..MaxEvents,
           UNCHANGED <<request, catalogue, wrapVars>>,
           \/ line.type \in {"list_changed", "request"} /\ toServer' = toServer
           \/ \E q \in toServer :
                /\ line.id = q.id /\ toServer' = toServer \ {q}
                /\ line.type = "error" \/ line \in Answers(q)
    PROVE  WInv'
<1>0. TypeOK /\ OwnListing /\ OneAnswer /\ KeptHere /\ EveryAnswerTracked
  BY DEF WInv
<1>1. fromServer' \in Seq(Line) /\ toServer' \subseteq toServer
  BY <1>0, Queued
<1>2. TypeOK'
  BY <1>0, <1>1 DEF TypeOK, wrapVars
<1>3. OneAnswer' /\ \A i : Nowhere(i) => Nowhere(i)'
  BY <1>0, AnswersOnce DEF Answering
<1>4. KeptHere'
  BY <1>0, <1>3 DEF KeptHere, wrapVars
<1>5. /\ \A k \in Positions : fromServer'[k] = fromServer[k]
      /\ fromServer'[Len(fromServer) + 1] = line
      /\ \A k \in 1..Len(fromServer') : k \in Positions \/ k = Len(fromServer) + 1
  BY <1>0, Queued DEF TypeOK, Positions
<1>6. /\ line.type = "page" /\ line.id # Verify => line.id \in listing
      /\ line.type = "result" => line.id \in calls
      /\ line.type = "discovered" => line.id \in discovering
  <2>1. CASE line.type \in {"list_changed", "request", "error"}
    BY <2>1
  <2>2. ASSUME NEW q \in toServer, line.id = q.id, line \in Answers(q) 
        PROVE  /\ line.type = "page" /\ line.id # Verify => line.id \in listing
               /\ line.type = "result" => line.id \in calls
               /\ line.type = "discovered" => line.id \in discovering
    <3>1. /\ q.kind \in {"call", "list", "discover"}
          /\ q.id = Verify => q.kind = "list"
          /\ q.id # Verify => q.id \in AwaitedAs(q.kind)
      BY <1>0 DEF TypeOK, Asked, EveryAnswerTracked, OwnListing
    <3>2. line.type = CASE q.kind = "list" -> "page" [] q.kind = "call" -> "result"
                        [] q.kind = "discover" -> "discovered"
      BY <1>0, <2>2, AnswerTypes
    <3>3. CASE q.kind = "list"
      BY <2>2, <3>1, <3>2, <3>3 DEF AwaitedAs
    <3>4. CASE q.kind = "call"
      BY <2>2, <3>1, <3>2, <3>4 DEF AwaitedAs
    <3>5. CASE q.kind = "discover"
      BY <2>2, <3>1, <3>2, <3>5 DEF AwaitedAs
    <3> QED
      BY <3>1, <3>3, <3>4, <3>5
  <2> QED
    BY <2>1, <2>2
<1>7. EveryAnswerTracked'
  BY <1>0, <1>1, <1>5, <1>6 DEF EveryAnswerTracked, AwaitedAs, wrapVars, Positions
<1>8. OwnListing'
  BY <1>0, <1>1 DEF OwnListing
<1> QED
  BY <1>2, <1>3, <1>4, <1>7, <1>8 DEF WInv

\* What the server does on its own keeps the invariant: it changes, asks, prepares or answers.
LEMMA ServerKeeps ==
    ASSUME WInv, \/ \E t \in Tools, d \in Definitions : ServerChanges(t, d)
                 \/ \E i \in Ids : ServerAsks(i)
                 \/ \E q \in toServer : ServerPrepares(q) \/ ServerAnswers(q)
    PROVE  WInv'
<1>0. TypeOK
  BY DEF WInv
<1>1. ASSUME NEW t \in Tools, NEW d \in Definitions, ServerChanges(t, d) PROVE WInv'
  <2>1. Notice \in Line /\ Notice.type = "list_changed"
    BY LineTypes DEF Notice
  <2>2. live' \in [Tools -> Definitions] /\ events' \in 0..MaxEvents
    BY <1>0, <1>1, WrapAssumption DEF ServerChanges, TypeOK
  <2> QED
    BY <1>1, <2>1, <2>2, SaysKeeps DEF ServerChanges, Write
<1>2. ASSUME NEW i \in Ids, ServerAsks(i) PROVE WInv'
  <2>1. Bare("request", i) \in Line /\ Bare("request", i).type = "request"
    BY LineTypes
  <2>2. live' \in [Tools -> Definitions] /\ events' \in 0..MaxEvents
    BY <1>0, <1>2, WrapAssumption DEF ServerAsks, TypeOK
  <2> QED
    BY <1>2, <2>1, <2>2, SaysKeeps DEF ServerAsks, Write
<1>3. ASSUME NEW q \in toServer, ServerAnswers(q) PROVE WInv'
  <2>1. q.id \in Ids \cup {Verify, NoId}
    BY <1>0 DEF TypeOK, Asked
  <2>2. PICK line \in Line : /\ fromServer' = Append(fromServer, line) /\ line.id = q.id
                             /\ line.type = "error" \/ line \in Answers(q)
    BY <1>0, <1>3, <2>1, AnswerTypes, LineTypes DEF ServerAnswers, Write
  <2> QED
    BY <1>0, <1>3, <2>2, SaysKeeps DEF ServerAnswers, TypeOK
<1>4. ASSUME NEW q \in toServer, ServerPrepares(q) PROVE WInv'
  <2> DEFINE ready == [kind |-> "list", id |-> q.id, page |-> q.page, prepared |-> TRUE,
                       seen |-> OnPage(q.page)]
  <2>1. /\ toServer' = (toServer \ {q}) \cup {ready} /\ q.kind = "list"
        /\ UNCHANGED <<live, events, request, catalogue, wrapVars, fromServer>>
    BY <1>4 DEF ServerPrepares
  <2>2. ready \in Asked /\ ready.id = q.id /\ ready.kind = "list"
    BY <1>0 DEF TypeOK, Asked, OnPage, Definitions
  <2> HIDE DEF ready
  <2>3. TypeOK'
    BY <1>0, <2>1, <2>2 DEF TypeOK, wrapVars
  <2>4. OneAnswer' /\ \A i \in Ids : Nowhere(i) => Nowhere(i)'
    BY <2>1, <2>2 DEF WInv, OneAnswer, Nowhere, Positions
  <2>5. KeptHere'
    BY <2>1, <2>4 DEF WInv, KeptHere, wrapVars
  <2>6. EveryAnswerTracked'
    BY <2>1, <2>2 DEF WInv, EveryAnswerTracked, AwaitedAs, wrapVars
  <2>7. OwnListing'
    BY <2>1, <2>2 DEF WInv, OwnListing
  <2> QED
    BY <2>3, <2>4, <2>5, <2>6, <2>7 DEF WInv
<1> QED
  BY <1>1, <1>2, <1>3, <1>4

-----------------------------------------------------------------------------
(* What the client sends, and what is held.                                *)

\* A write reaches the server, or is dropped when its input is closed.
LEMMA Writes ==
    ASSUME NEW asked
    PROVE  Written(asked) \subseteq toServer \cup asked
  BY DEF Written

\* What wrap asks, and what the server still owes, stays recognised.
LEMMA TrackKeeps ==
    ASSUME TypeOK, EveryAnswerTracked, NEW asked, asked \subseteq Asked,
           \A q \in asked : /\ q.kind = "list" => q.id \in listing' \cup {Verify}
                            /\ q.kind = "call" => q.id \in calls'
                            /\ q.kind = "discover" => q.id \in discovering',
           toServer' \subseteq toServer \cup asked,
           listing \subseteq listing', calls \subseteq calls', discovering \subseteq discovering',
           \/ fromServer' = fromServer
           \/ fromServer # <<>> /\ fromServer' = Tail(fromServer)
    PROVE  EveryAnswerTracked'
<1>1. ASSUME NEW q \in toServer', q.id # Verify
      PROVE  q.id \in CASE q.kind = "list" -> listing' [] q.kind = "call" -> calls'
                        [] q.kind = "discover" -> discovering'
  <2>1. q.kind \in {"call", "list", "discover"}
    BY DEF TypeOK, Asked
  <2>2. /\ q.kind = "list" => q.id \in listing'
        /\ q.kind = "call" => q.id \in calls'
        /\ q.kind = "discover" => q.id \in discovering'
    <3>1. CASE q \in asked
      BY <1>1, <3>1
    <3>2. CASE q \in toServer
      BY <1>1, <3>2 DEF EveryAnswerTracked, AwaitedAs
    <3> QED
      BY <3>1, <3>2
  <2> QED
    BY <2>1, <2>2
<1>2. ASSUME NEW k \in 1..Len(fromServer')
      PROVE  /\ fromServer'[k].type = "page" /\ fromServer'[k].id # Verify
                  => fromServer'[k].id \in listing'
             /\ fromServer'[k].type = "result" => fromServer'[k].id \in calls'
             /\ fromServer'[k].type = "discovered" => fromServer'[k].id \in discovering'
  <2>1. PICK j \in 1..Len(fromServer) : fromServer'[k] = fromServer[j]
    BY Taken DEF Positions
  <2> QED
    BY <2>1 DEF EveryAnswerTracked
<1> QED
  BY <1>1, <1>2 DEF EveryAnswerTracked, AwaitedAs

\* Calls that go on, or are answered here, from among those that were nowhere. What is left of
\* the pipe is what was there, or its tail.
LEMMA ForwardKeeps ==
    ASSUME WInv, NEW ids \in SUBSET Ids, NEW wrong \in SUBSET ids, NEW rest \in SUBSET Ids, NEW reason,
           ids \cap rest = {}, \A i \in rest : reason[i] \in Own, Forward(ids, wrong, rest, reason),
           \A i \in ids \cup rest : Nowhere(i) /\ i \notin calls,
           held' \subseteq held, held' \cap (ids \cup rest) = {},
           \A i \in ids : i \in held \/ request[i].status = "new",
           \A i \in rest : i \in held,
           \/ fromServer' = fromServer
           \/ fromServer # <<>> /\ fromServer' = Tail(fromServer),
           verified' \in SUBSET Tools, changed' \in SUBSET Listed, verifying' \in BOOLEAN,
           UNCHANGED <<live, events, catalogue, listing, discovering, stopping>>
    PROVE  WInv'
<1> DEFINE asked == {Ask("call", i, 1) : i \in ids \ wrong}
<1>0. TypeOK /\ OwnListing /\ OneAnswer /\ KeptHere /\ EveryAnswerTracked
  BY DEF WInv
<1>1. /\ request' \in [Ids -> [status: {"new", "open"} \cup Outcomes, tool: Tools]]
      /\ \A i \in Ids : request'[i].status =
           IF i \in wrong THEN "invalid" ELSE IF i \in rest THEN reason[i]
           ELSE IF i \in ids THEN "open" ELSE request[i].status
  BY <1>0, ForwardTypes
<1>12. calls' = calls \cup (ids \ wrong) /\ toServer' = Written(asked)
  BY DEF Forward
<1>2. /\ asked \subseteq Asked
      /\ \A q \in asked : q.id \in ids \ wrong /\ q.kind = "call"
      /\ \A q, r \in asked : q.id = r.id => q = r
  BY LineTypes, WrapAssumption
<1>3. toServer' \subseteq toServer \cup asked
  BY <1>12, Writes
<1> HIDE DEF asked
<1>4. OneAnswer' /\ \A i : Nowhere(i) /\ (\A q \in asked : q.id # i) => Nowhere(i)'
  BY <1>0, <1>2, <1>3, SendsOnce
<1>5. fromServer' \in Seq(Line)
  BY <1>0, Taken DEF TypeOK
<1>6. TypeOK'
  BY <1>0, <1>1, <1>12, <1>2, <1>3, <1>5 DEF TypeOK
<1>7. OwnListing'
  BY <1>0, <1>2, <1>3, WrapAssumption DEF OwnListing
<1>8. ASSUME NEW i \in Ids, i \in held' \/ request'[i].status \in {"new"} \cup Own
      PROVE  Nowhere(i)' /\ i \notin calls'
  <2>1. i \notin ids \ wrong
    BY <1>1, <1>8 DEF Own
  <2>2. Nowhere(i) /\ i \notin calls
    BY <1>0, <1>1, <1>8 DEF KeptHere
  <2> QED
    BY <1>1, <1>12, <1>2, <1>4, <2>1, <2>2
<1>9. ASSUME NEW i \in Ids, request'[i].status \in {"new"} \cup Own PROVE i \notin held'
  BY <1>0, <1>1, <1>9 DEF KeptHere
<1>10. KeptHere'
  BY <1>8, <1>9 DEF KeptHere
<1>11. EveryAnswerTracked'
  BY <1>0, <1>12, <1>2, <1>3, TrackKeeps
<1> QED
  BY <1>6, <1>7, <1>4, <1>10, <1>11 DEF WInv

\* A line of the client's.
LEMMA ClientKeeps ==
    ASSUME WInv, NEW i \in Ids,
           \/ ClientLists(i) \/ ClientDiscovers(i) \/ ClientCallsHidden(i)
           \/ ClientCallsUnchecked(i) \/ ClientCalls(i)
    PROVE  WInv'
<1>0. TypeOK /\ OwnListing /\ OneAnswer /\ KeptHere /\ EveryAnswerTracked
  BY DEF WInv
<1>1. request[i].status = "new" /\ Nowhere(i) /\ i \notin held \cup calls
  BY <1>0 DEF ClientLists, ClientDiscovers, ClientCallsHidden, ClientCallsUnchecked, ClientCalls,
              KeptHere
<1>2. ASSUME NEW kind \in {"list", "discover"}, NEW page \in 1..Pages,
             toServer' = Written({Ask(kind, i, page)}), request' = Ends({i}, "open"),
             listing' = IF kind = "list" THEN listing \cup {i} ELSE listing,
             discovering' = IF kind = "discover" THEN discovering \cup {i} ELSE discovering,
             UNCHANGED <<live, events, catalogue, changed, verified, held, verifying, calls,
                         fromServer, stopping>>
      PROVE  WInv'
  <2> DEFINE asked == {Ask(kind, i, page)}
  <2>1. /\ asked \subseteq Asked /\ \A q \in asked : q.id = i /\ q.kind = kind
        /\ \A q, r \in asked : q = r
        /\ toServer' \subseteq toServer \cup asked
    BY <1>2, LineTypes, Writes
  <2> HIDE DEF asked
  <2>2. OneAnswer' /\ \A j : Nowhere(j) /\ j # i => Nowhere(j)'
    BY <1>0, <1>1, <1>2, <2>1, SendsOnce
  <2>3. /\ request' \in [Ids -> [status: {"new", "open"} \cup Outcomes, tool: Tools]]
        /\ \A j \in Ids : request'[j].status = IF j = i THEN "open" ELSE request[j].status
    BY <1>0, <1>2, EndsTypes
  <2>4. TypeOK'
    BY <1>0, <1>2, <2>1, <2>3 DEF TypeOK
  <2>5. OwnListing'
    BY <1>0, <2>1, WrapAssumption DEF OwnListing
  <2>6. KeptHere'
    BY <1>0, <1>1, <1>2, <2>2, <2>3 DEF KeptHere, Own
  <2>7. EveryAnswerTracked'
    BY <1>0, <1>2, <2>1, TrackKeeps
  <2> QED
    BY <2>2, <2>4, <2>5, <2>6, <2>7 DEF WInv
<1>3. CASE ClientLists(i)
  BY <1>2, <1>3 DEF ClientLists
<1>4. CASE ClientDiscovers(i)
  <2>1. 1 \in 1..Pages
    BY WrapAssumption
  <2> QED
    BY <1>2, <1>4, <2>1 DEF ClientDiscovers
<1>5. CASE ClientCallsHidden(i)
  <2>1. /\ request' \in [Ids -> [status: {"new", "open"} \cup Outcomes, tool: Tools]]
        /\ \A j \in Ids : request'[j].status = IF j = i THEN "refused" ELSE request[j].status
    BY <1>0, <1>5, EndsTypes DEF ClientCallsHidden, Outcomes
  <2>2. UNCHANGED <<live, events, catalogue, wrapVars, toServer, fromServer>>
    BY <1>5 DEF ClientCallsHidden
  <2>3. TypeOK'
    BY <1>0, <2>1, <2>2 DEF TypeOK, wrapVars
  <2>4. OneAnswer' /\ OwnListing' /\ EveryAnswerTracked' /\ \A j : Nowhere(j) => Nowhere(j)'
    BY <1>0, <2>2 DEF OneAnswer, OwnListing, EveryAnswerTracked, AwaitedAs, Nowhere, Positions, wrapVars
  <2>5. KeptHere'
    BY <1>0, <1>1, <2>1, <2>2, <2>4 DEF KeptHere, wrapVars, Own
  <2> QED
    BY <2>3, <2>4, <2>5 DEF WInv
<1>6. CASE ClientCallsUnchecked(i)
  <2> DEFINE asked == IF verifying THEN {} ELSE {Ask("list", Verify, 1)}
  <2>1. /\ toServer' \subseteq toServer \cup asked
        /\ held' = held \cup {i} /\ verifying' = TRUE /\ request' = Ends({i}, "open")
        /\ UNCHANGED <<live, events, catalogue, changed, verified, listing, discovering, calls,
                       fromServer, stopping>>
    BY <1>6, Writes DEF ClientCallsUnchecked
  <2>2. \A q \in asked : q \in Asked /\ q.id = Verify /\ q.kind = "list"
    <3>1. 1 \in 1..Pages /\ "list" \in {"call", "list", "discover"} /\ Verify \in Ids \cup {Verify}
      BY WrapAssumption
    <3>2. /\ Ask("list", Verify, 1) \in Asked /\ Ask("list", Verify, 1).id = Verify
          /\ Ask("list", Verify, 1).kind = "list"
      BY <3>1, AskTypes
    <3> QED
      BY <3>2
  <2> HIDE DEF asked
  <2>3. OneAnswer' /\ \A j \in Ids : Nowhere(j) => Nowhere(j)'
    BY <1>0, <2>1, <2>2, SendsOnce, WrapAssumption
  <2>4. /\ request' \in [Ids -> [status: {"new", "open"} \cup Outcomes, tool: Tools]]
        /\ \A j \in Ids : request'[j].status = IF j = i THEN "open" ELSE request[j].status
    BY <1>0, <2>1, EndsTypes
  <2>5. TypeOK'
    BY <1>0, <2>1, <2>2, <2>4 DEF TypeOK
  <2>6. OwnListing'
    BY <1>0, <2>1, <2>2 DEF OwnListing
  <2>8. EveryAnswerTracked'
    <3>1. asked \subseteq Asked
      BY <2>2
    <3> QED
      BY <1>0, <2>1, <2>2, <3>1, TrackKeeps
  <2>7. KeptHere'
    BY <1>0, <1>1, <2>1, <2>3, <2>4 DEF KeptHere, Own
  <2> QED
    BY <2>3, <2>5, <2>6, <2>7, <2>8 DEF WInv
<1>7. CASE ClientCalls(i)
  <2>1. PICK wrong \in SUBSET Checkable({i}) : Forward({i}, wrong, {}, <<>>)
    BY <1>7 DEF ClientCalls
  <2>2. wrong \in SUBSET {i} /\ {i} \in SUBSET Ids
    BY DEF Checkable
  <2>3. UNCHANGED <<live, events, catalogue, changed, verified, held, verifying, listing,
                    discovering, fromServer, stopping>>
    BY <1>7 DEF ClientCalls
  <2> QED
    BY <1>0, <1>1, <2>1, <2>2, <2>3, ForwardKeeps DEF TypeOK
<1> QED
  BY <1>3, <1>4, <1>5, <1>6, <1>7

-----------------------------------------------------------------------------
(* The lines wrap handles. *)

\* A line that settles no request of the client's; wrap may ask for a page of its own listing.
LEMMA PassesKeeps ==
    ASSUME WInv, NEW asked, \A q \in asked : q \in Asked /\ q.id = Verify /\ q.kind = "list",
           toServer' \subseteq toServer \cup asked,
           fromServer # <<>>, fromServer' = Tail(fromServer),
           verified' \in SUBSET Tools, changed' \in SUBSET Listed,
           UNCHANGED <<live, events, request, catalogue, held, verifying, listing, discovering,
                       calls, stopping>>
    PROVE  WInv'
<1>0. TypeOK /\ OwnListing /\ OneAnswer /\ KeptHere /\ EveryAnswerTracked
  BY DEF WInv
<1>1. OneAnswer' /\ \A j \in Ids : Nowhere(j) => Nowhere(j)'
  BY <1>0, SendsOnce, WrapAssumption
<1>2. fromServer' \in Seq(Line)
  BY <1>0, Taken
<1>3. TypeOK'
  BY <1>0, <1>2 DEF TypeOK
<1>4. OwnListing'
  BY <1>0 DEF OwnListing
<1>5. KeptHere'
  BY <1>0, <1>1 DEF KeptHere
<1>6. asked \subseteq Asked
  OBVIOUS
<1>7. EveryAnswerTracked'
  BY <1>0, <1>6, TrackKeeps
<1> QED
  BY <1>1, <1>3, <1>4, <1>5, <1>7 DEF WInv

\* The answer to a request of the client's, which is the only one.
LEMMA AnswerKeeps ==
    ASSUME WInv, fromServer # <<>>, fromServer' = Tail(fromServer), toServer' = toServer,
           NEW id, id = Head(fromServer).id, id # Verify, Answering(Head(fromServer)),
           NEW outcome \in {"answered", "withheld"}, request' = Ends({id}, outcome),
           listing' \in {listing, listing \ {id}}, calls' \in {calls, calls \ {id}},
           discovering' \in {discovering, discovering \ {id}},
           catalogue' \in [Tools -> SUBSET Present],
           verified' \in SUBSET Tools, changed' \in SUBSET Listed,
           UNCHANGED <<live, events, held, verifying, stopping>>
    PROVE  WInv'
<1>0. TypeOK /\ OwnListing /\ OneAnswer /\ KeptHere /\ EveryAnswerTracked
  BY DEF WInv
<1>1. /\ fromServer' \in Seq(Line)
      /\ 1 \in Positions /\ fromServer[1].id = id /\ Answering(fromServer[1])
      /\ \A k \in Positions' : k + 1 \in Positions /\ fromServer'[k] = fromServer[k + 1]
  BY <1>0, Taken DEF Positions
<1>2. \A q \in toServer : q.id # id
  BY <1>0, <1>1 DEF OneAnswer
<1>3. ASSUME NEW k \in Positions', Answering(fromServer'[k]) PROVE fromServer'[k].id # id
  <2>1. k + 1 # 1
    BY DEF Positions
  <2>2. k + 1 \in Positions /\ fromServer'[k] = fromServer[k + 1]
    BY <1>1
  <2>3. Answering(fromServer[k + 1])
    BY <1>3, <2>2 DEF Answering
  <2>4. fromServer[k + 1].id = id => k + 1 = 1
    BY <1>0, <1>1, <2>2, <2>3 DEF OneAnswer
  <2> QED
    BY <2>1, <2>2, <2>4
<1>4. ~Nowhere(id)
  BY <1>1 DEF Nowhere
<1>5. /\ request' \in [Ids -> [status: {"new", "open"} \cup Outcomes, tool: Tools]]
      /\ \A j \in Ids : request'[j].status = IF j = id THEN outcome ELSE request[j].status
  BY <1>0, EndsTypes DEF Outcomes
<1>6. TypeOK'
  BY <1>0, <1>1, <1>5 DEF TypeOK
<1>7. OwnListing'
  BY <1>0 DEF OwnListing
<1>8. OneAnswer' /\ \A j : Nowhere(j) => Nowhere(j)'
  <2> DEFINE none == {}
  <2>1. toServer' \subseteq toServer \cup none /\ \A q \in none : FALSE
    OBVIOUS
  <2> HIDE DEF none
  <2> QED
    BY <1>0, <2>1, SendsOnce
<1>9. KeptHere'
  BY <1>0, <1>4, <1>5, <1>8 DEF KeptHere, Own
<1>10. ASSUME NEW q \in toServer', q.id # Verify PROVE q.id \in AwaitedAs(q.kind)'
  <2>1. q.kind \in {"call", "list", "discover"}
    BY <1>0 DEF TypeOK, Asked
  <2>2. q.id \in AwaitedAs(q.kind) /\ q.id # id
    BY <1>0, <1>2, <1>10 DEF EveryAnswerTracked
  <2> QED
    BY <2>1, <2>2 DEF AwaitedAs
<1>11. ASSUME NEW k \in 1..Len(fromServer')
       PROVE  /\ fromServer'[k].type = "page" /\ fromServer'[k].id # Verify
                   => fromServer'[k].id \in listing'
              /\ fromServer'[k].type = "result" => fromServer'[k].id \in calls'
              /\ fromServer'[k].type = "discovered" => fromServer'[k].id \in discovering'
  <2>1. k + 1 \in 1..Len(fromServer) /\ fromServer'[k] = fromServer[k + 1]
    BY <1>1 DEF Positions
  <2>2. Answering(fromServer'[k]) => fromServer'[k].id # id
    BY <1>3 DEF Positions
  <2> QED
    BY <1>0, <2>1, <2>2 DEF EveryAnswerTracked, Answering
<1>12. EveryAnswerTracked'
  BY <1>10, <1>11 DEF EveryAnswerTracked, AwaitedAs
<1> QED
  BY <1>6, <1>7, <1>8, <1>9, <1>12 DEF WInv

\* The calls that were held go on, or are answered here.
LEMMA ReleaseKeeps ==
    ASSUME WInv, NEW failed, NEW ver, NEW chg, Release(failed, ver, chg),
           fromServer # <<>>, fromServer' = Tail(fromServer),
           verified' \in SUBSET Tools, changed' \in SUBSET Listed,
           UNCHANGED <<live, events, catalogue, listing, discovering, stopping>>
    PROVE  WInv'
<1> DEFINE go == {i \in held : ~failed /\ VisibleIn(request[i].tool, chg) /\ request[i].tool \in ver}
           reason == [i \in held |-> IF failed \/ request[i].tool \in chg THEN "refused" ELSE "unlisted"]
<1>1. PICK wrong \in SUBSET Checkable(go) : Forward(go, wrong, held \ go, reason)
  BY DEF Release
<1>2. verifying' = FALSE /\ held' = {}
  BY DEF Release
<1>3. \A i \in held : i \in Ids /\ Nowhere(i) /\ i \notin calls
  BY DEF WInv, TypeOK, KeptHere
<1>4. go \in SUBSET Ids /\ go \subseteq held /\ wrong \in SUBSET go
  BY <1>3 DEF Checkable
<1>5. \A i \in held \ go : reason[i] \in Own
  BY DEF Own
<1> DEFINE rest == held \ go
<1>6. /\ rest \in SUBSET Ids /\ go \cap rest = {} /\ held' \cap (go \cup rest) = {} /\ held' \subseteq held
      /\ \A i \in go \cup rest : Nowhere(i) /\ i \notin calls /\ i \in held
      /\ verifying' \in BOOLEAN
  BY <1>2, <1>3
<1>7. Forward(go, wrong, rest, reason) /\ \A i \in rest : reason[i] \in Own
  BY <1>1, <1>5
<1> HIDE DEF go, reason, rest
<1> QED
  BY <1>4, <1>6, <1>7, ForwardKeeps

\* Whatever line the server wrote, handling it keeps the invariant (wrap.ts:332-386).
LEMMA LinesKeep ==
    ASSUME WInv, HandleLine
    PROVE  WInv'
<1>0. TypeOK /\ EveryAnswerTracked
  BY DEF WInv
<1> DEFINE line == Head(fromServer)
<1>1. fromServer # <<>> /\ fromServer' = Tail(fromServer)
  BY DEF HandleLine, HandleVerification, HandleListChanged, HandleListing, HandleAnswer,
         HandleError, HandleRequest, Takes
<1>2. /\ line \in Line
      /\ line.type = "result" => line.id \in calls
      /\ line.type = "discovered" => line.id \in discovering
      /\ line.next \in 0..Pages
  BY <1>0, <1>1, Taken DEF EveryAnswerTracked, Positions, Line
<1>3. verified \in SUBSET Tools /\ changed \in SUBSET Listed /\ catalogue \in [Tools -> SUBSET Present]
  BY <1>0 DEF TypeOK
<1>4. VerifiedAfter(line.seen) \in SUBSET Tools /\ ChangedAfter(line.seen) \in SUBSET Listed
  BY <1>0, CheckTypes
<1>5. CASE HandleVerification
  <2>1. UNCHANGED <<live, events, catalogue, listing, discovering, stopping>>
    BY <1>5 DEF HandleVerification
  <2>2. CASE /\ Takes("page") /\ verified' = VerifiedAfter(line.seen)
             /\ changed' = ChangedAfter(line.seen) /\ line.next # 0
             /\ toServer' = Written({Ask("list", Verify, line.next)})
             /\ UNCHANGED <<request, held, verifying, calls>>
    <3>1. line.next \in 1..Pages
      BY <1>2, <2>2, WrapAssumption
    <3> DEFINE asked == {Ask("list", Verify, line.next)}
    <3>2. \A q \in asked : q \in Asked /\ q.id = Verify /\ q.kind = "list"
      BY <3>1, LineTypes
    <3>3. toServer' \subseteq toServer \cup asked
      BY <2>2, Writes
    <3> HIDE DEF asked
    <3> QED
      BY <1>1, <1>4, <2>1, <2>2, <3>2, <3>3, PassesKeeps
  <2>3. CASE /\ verified' = VerifiedAfter(line.seen) /\ changed' = ChangedAfter(line.seen)
             /\ Release(FALSE, verified', changed')
    BY <1>1, <1>4, <2>1, <2>3, ReleaseKeeps
  <2>4. CASE Release(TRUE, verified, changed) /\ UNCHANGED <<verified, changed>>
    BY <1>1, <1>3, <2>1, <2>4, ReleaseKeeps
  <2> QED
    BY <1>5, <2>2, <2>3, <2>4 DEF HandleVerification
<1>6. CASE HandleListChanged
  <2>1. /\ verified' = {} /\ changed' = changed /\ toServer' = toServer
        /\ UNCHANGED <<live, events, request, catalogue, held, verifying, listing, discovering,
                       calls, stopping>>
    BY <1>6 DEF HandleListChanged
  <2> DEFINE none == {}
  <2>2. /\ toServer' \subseteq toServer \cup none
        /\ \A q \in none : q \in Asked /\ q.id = Verify /\ q.kind = "list"
        /\ verified' \in SUBSET Tools /\ changed' \in SUBSET Listed
    BY <1>3, <2>1
  <2> HIDE DEF none
  <2> QED
    BY <1>1, <2>1, <2>2, PassesKeeps
<1>7. CASE HandleListing
  <2>1. /\ line.id # Verify /\ Answering(line) /\ request' = Ends({line.id}, "answered")
        /\ listing' = listing \ {line.id}
        /\ UNCHANGED <<live, events, held, verifying, discovering, calls, toServer, stopping>>
    BY <1>7 DEF HandleListing, Takes, Answering
  <2>2. verified' \in SUBSET Tools /\ changed' \in SUBSET Listed
    BY <1>3, <1>4, <1>7 DEF HandleListing
  <2>3. /\ line.seen \in [Tools -> Definitions] /\ line.before \in [Tools -> SUBSET Present]
        /\ \A t \in Tools : Items(line, t) \in SUBSET Present
    BY <1>2 DEF Line, Items, Definitions, Present
  <2>4. catalogue' \in [Tools -> SUBSET Present]
    BY <1>7, <2>3 DEF HandleListing
  <2> HIDE DEF line
  <2> QED
    BY <1>1, <2>1, <2>2, <2>4, AnswerKeeps DEF line
<1>8. CASE HandleAnswer
  <2>1. /\ Answering(line)
        /\ \E outcome \in {"answered", "withheld"} : request' = Ends({line.id}, outcome)
        /\ calls' = calls \ {line.id} /\ discovering' = discovering \ {line.id}
        /\ UNCHANGED <<live, events, catalogue, changed, verified, held, verifying, listing,
                       toServer, stopping>>
    BY <1>8 DEF HandleAnswer, Takes, Answering
  <2>2. line.id # Verify
    BY <1>0, <1>2, <1>8, WrapAssumption DEF HandleAnswer, Takes, TypeOK
  <2> HIDE DEF line
  <2> QED
    BY <1>1, <1>3, <2>1, <2>2, AnswerKeeps DEF line
<1>9. CASE HandleError
  <2>1. /\ line.id # Verify /\ Answering(line) /\ request' = Ends({line.id}, "answered")
        /\ listing' = listing \ {line.id} /\ calls' = calls \ {line.id}
        /\ discovering' = discovering \ {line.id}
        /\ UNCHANGED <<live, events, catalogue, changed, verified, held, verifying, toServer, stopping>>
    BY <1>9 DEF HandleError, Takes, Answering
  <2> HIDE DEF line
  <2> QED
    BY <1>1, <1>3, <2>1, AnswerKeeps DEF line
<1>10. CASE HandleRequest
  <2>1. /\ listing' = listing /\ calls' = calls /\ discovering' = discovering
        /\ UNCHANGED <<live, events, request, catalogue, changed, verified, held, verifying,
                       toServer, stopping>>
    BY <1>10 DEF HandleRequest, SettledByRequest
  <2> DEFINE none == {}
  <2>2. /\ toServer' \subseteq toServer \cup none
        /\ \A q \in none : q \in Asked /\ q.id = Verify /\ q.kind = "list"
        /\ verified' \in SUBSET Tools /\ changed' \in SUBSET Listed
    BY <1>3, <2>1
  <2> HIDE DEF none
  <2> QED
    BY <1>1, <2>1, <2>2, PassesKeeps
<1> QED
  BY <1>5, <1>6, <1>7, <1>8, <1>9, <1>10 DEF HandleLine

\* Wrap stops, or nothing happens.
LEMMA StopKeeps ==
    ASSUME WInv, Stop \/ UNCHANGED vars
    PROVE  WInv'
<1>1. /\ stopping' \in BOOLEAN
      /\ UNCHANGED <<live, events, request, catalogue, changed, verified, held, verifying,
                     listing, discovering, calls, toServer, fromServer>>
  BY DEF Stop, vars, wrapVars, WInv, TypeOK
<1>2. TypeOK'
  BY <1>1 DEF WInv, TypeOK
<1>3. OwnListing' /\ OneAnswer' /\ KeptHere' /\ EveryAnswerTracked'
  BY <1>1 DEF WInv, OwnListing, OneAnswer, KeptHere, EveryAnswerTracked, AwaitedAs, Nowhere, Positions
<1> QED
  BY <1>2, <1>3 DEF WInv

-----------------------------------------------------------------------------
\* In every session each request of the client has one place at a time.
THEOREM WrapInvariance == Spec => []WInv
<1>1. Init => WInv
  BY WrapStarts
<1>2. WInv /\ [Next]_vars => WInv'
  <2> SUFFICES ASSUME WInv, [Next]_vars PROVE WInv'
    OBVIOUS
  <2>1. CASE \E i \in Ids : \/ ClientLists(i) \/ ClientDiscovers(i) \/ ClientCallsHidden(i)
                            \/ ClientCallsUnchecked(i) \/ ClientCalls(i)
    BY <2>1, ClientKeeps
  <2>2. CASE \/ \E t \in Tools, d \in Definitions : ServerChanges(t, d)
             \/ \E i \in Ids : ServerAsks(i)
             \/ \E q \in toServer : ServerPrepares(q) \/ ServerAnswers(q)
    BY <2>2, ServerKeeps
  <2>3. CASE HandleLine
    BY <2>3, LinesKeep
  <2>4. CASE Stop \/ UNCHANGED vars
    BY <2>4, StopKeeps
  <2> QED
    BY <2>1, <2>2, <2>3, <2>4 DEF Next
<1> QED
  BY <1>1, <1>2, PTL DEF Spec

\* A call wrap answered itself (wrap.ts:149-174, 243-272) never reaches the server, before or after.
THEOREM RefusedStaysHere == Spec => []RefusedNeverSent
<1>1. WInv => RefusedNeverSent
  BY DEF WInv, KeptHere, RefusedNeverSent, Nowhere, Own
<1> QED
  BY <1>1, WrapInvariance, PTL

\* Wrap's state keeps its shape: what the client asked, what wrap keeps of it and of the listing,
\* and the lines between it and the server (wrap.ts:24-60).
THEOREM TypeCorrect == Spec => []TypeOK
<1>1. WInv => TypeOK
  BY DEF WInv
<1> QED
  BY <1>1, WrapInvariance, PTL

\* No answer arrives under an id wrap has forgotten (wrap.ts:336-386).
THEOREM AnswersTracked == Spec => []EveryAnswerTracked
<1>1. WInv => EveryAnswerTracked
  BY DEF WInv
<1> QED
  BY <1>1, WrapInvariance, PTL
\* Of every tool the client was last shown, the approved definition was there, and
\* the user had listed it (wrap.ts:98-113, 347-355); a page that lists a name more
\* than once shows what else it has of it as well.
THEOREM ShownIsApproved == Spec => []NothingHiddenShown
<1>1. Init => NothingHiddenShown
  BY DEF Init, Once, NothingHiddenShown
<1>2. WInv /\ NothingHiddenShown /\ [Next]_vars => NothingHiddenShown'
  <2> SUFFICES ASSUME WInv, NothingHiddenShown, [Next]_vars PROVE NothingHiddenShown'
    OBVIOUS
  <2>1. CASE catalogue' = catalogue
    BY <2>1 DEF NothingHiddenShown, Drifts
  <2>2. CASE HandleListing
    <3> DEFINE line == Head(fromServer)
    <3>1. line.id \in listing
      <4>1. fromServer # <<>> /\ line.type = "page" /\ line.id # Verify
        BY <2>2 DEF HandleListing, Takes
      <4>2. 1 \in 1..Len(fromServer) /\ fromServer[1] = line
        BY <4>1, Taken DEF WInv, Positions
      <4> QED
        BY <4>1, <4>2 DEF WInv, EveryAnswerTracked
    <3>2. /\ changed' = ChangedAfter(line.seen)
          /\ catalogue' = [t \in Tools |-> IF VisibleIn(t, changed') THEN Items(line, t) ELSE {}]
      BY <2>2, <3>1 DEF HandleListing
    <3>3. ASSUME NEW t \in Tools, catalogue'[t] # {}
          PROVE  t \in Listed /\ \E d \in catalogue'[t] : ~Drifts(t, d)
      <4>1. t \in Listed /\ t \notin changed' /\ catalogue'[t] = Items(line, t)
        BY <3>2, <3>3 DEF VisibleIn
      <4>2. line.seen[t] \in catalogue'[t] /\ t \in Offered(line.seen)
        BY <3>3, <4>1 DEF Items, Offered
      <4>3. t \in Matching(line.seen)
        BY <3>2, <4>1, <4>2 DEF ChangedAfter
      <4> QED
        BY <4>1, <4>2, <4>3 DEF Matching
    <3> QED
      BY <3>3 DEF NothingHiddenShown, Drifts
  <2>3. catalogue' = catalogue \/ HandleListing
    BY DEF Next, vars, ClientLists, ClientDiscovers, ClientCallsHidden, ClientCallsUnchecked,
           ClientCalls, ServerChanges, ServerAsks, ServerPrepares, ServerAnswers, HandleLine,
           HandleVerification, HandleListChanged, HandleAnswer, HandleError, HandleRequest, Stop
  <2> QED
    BY <2>1, <2>2, <2>3
<1> QED
  BY <1>1, <1>2, WrapInvariance, PTL DEF Spec

-----------------------------------------------------------------------------
(* A server that writes each listing as it is when it answers.             *)

\* The approved definition stands, or a notice from this place on will say it does not.
Stands(t, from) ==
    \/ live[t] = "recorded"
    \/ \E j \in from..Len(fromServer) : fromServer[j].type = "list_changed"

FreshInv ==
    /\ \A q \in toServer : q.kind = "list" => ~q.prepared
    /\ \A t \in verified \cap Pinned : Stands(t, 1)
    /\ \A k \in 1..Len(fromServer), t \in Pinned :
         fromServer[k].type = "page" /\ fromServer[k].seen[t] = "recorded" => Stands(t, k + 1)

\* What is asked was not prepared.
LEMMA AskedFresh ==
    ASSUME NEW kind, NEW id, NEW page
    PROVE  ~Ask(kind, id, page).prepared
  BY DEF Ask

\* A page checked at the head of the pipe: what it verifies stands, or a notice follows.
LEMMA CheckedStands ==
    ASSUME TypeOK, FreshInv, fromServer # <<>>, fromServer' = Tail(fromServer), live' = live,
           Head(fromServer).type = "page",
           NEW t \in VerifiedAfter(Head(fromServer).seen) \cap Pinned
    PROVE  Stands(t, 1)'
<1>0. /\ 1 \in 1..Len(fromServer) /\ Head(fromServer) = fromServer[1]
      /\ Len(fromServer') = Len(fromServer) - 1 /\ Len(fromServer) \in Nat
      /\ \A k \in 1..Len(fromServer') : fromServer'[k] = fromServer[k + 1]
  BY Taken DEF Positions, TypeOK
<1>1. Stands(t, 2)
  <2>1. t \in verified \/ t \in Matching(Head(fromServer).seen)
    BY DEF VerifiedAfter
  <2>2. CASE t \in verified
    <3>1. Stands(t, 1)
      BY <2>2 DEF FreshInv
    <3>2. \A j \in 1..Len(fromServer) : fromServer[j].type = "list_changed" => j \in 2..Len(fromServer)
      BY <1>0
    <3> QED
      BY <3>1, <3>2 DEF Stands
  <2>3. CASE t \in Matching(Head(fromServer).seen)
    <3>1. Head(fromServer).seen[t] = "recorded"
      BY <2>3, WrapAssumption DEF Matching, Drifts
    <3>2. Stands(t, 1 + 1)
      BY <1>0, <3>1 DEF FreshInv
    <3> QED
      BY <3>2
  <2> QED
    BY <2>1, <2>2, <2>3
<1>2. ASSUME NEW j \in 2..Len(fromServer), fromServer[j].type = "list_changed"
      PROVE  j - 1 \in 1..Len(fromServer') /\ fromServer'[j - 1].type = "list_changed"
  BY <1>0, <1>2
<1> QED
  BY <1>1, <1>2 DEF Stands

\* What handling any other line leaves.
LEMMA TakenStands ==
    ASSUME TypeOK, FreshInv, fromServer # <<>>, fromServer' = Tail(fromServer), live' = live
    PROVE  /\ \A k \in 1..Len(fromServer'), t \in Pinned :
                fromServer'[k].type = "page" /\ fromServer'[k].seen[t] = "recorded"
                  => Stands(t, k + 1)'
           /\ Head(fromServer).type # "list_changed" => \A t \in verified \cap Pinned : Stands(t, 1)'
<1>0. /\ 1 \in 1..Len(fromServer) /\ Head(fromServer) = fromServer[1]
      /\ Len(fromServer') = Len(fromServer) - 1 /\ Len(fromServer) \in Nat
      /\ \A k \in 1..Len(fromServer') : fromServer'[k] = fromServer[k + 1]
  BY Taken DEF Positions, TypeOK
<1>1. ASSUME NEW k \in 1..Len(fromServer'), NEW t \in Pinned,
             fromServer'[k].type = "page", fromServer'[k].seen[t] = "recorded"
      PROVE  Stands(t, k + 1)'
  <2>1. k + 1 \in 1..Len(fromServer) /\ fromServer'[k] = fromServer[k + 1]
    BY <1>0
  <2>2. Stands(t, (k + 1) + 1)
    BY <1>1, <2>1 DEF FreshInv
  <2>3. ASSUME NEW j \in ((k + 1) + 1)..Len(fromServer), fromServer[j].type = "list_changed"
        PROVE  j - 1 \in (k + 1)..Len(fromServer') /\ fromServer'[j - 1].type = "list_changed"
    BY <1>0, <2>3
  <2> QED
    BY <2>2, <2>3 DEF Stands
<1>2. ASSUME Head(fromServer).type # "list_changed", NEW t \in verified \cap Pinned PROVE Stands(t, 1)'
  <2>1. Stands(t, 1)
    BY DEF FreshInv
  <2>2. ASSUME NEW j \in 1..Len(fromServer), fromServer[j].type = "list_changed"
        PROVE  j - 1 \in 1..Len(fromServer') /\ fromServer'[j - 1].type = "list_changed"
    BY <1>0, <1>2, <2>2
  <2> QED
    BY <2>1, <2>2 DEF Stands
<1> QED
  BY <1>1, <1>2

\* What a line more leaves.
LEMMA WrittenStands ==
    ASSUME TypeOK, FreshInv, NEW line \in Line, fromServer' = Append(fromServer, line),
           verified' = verified,
           line.type = "list_changed" \/ live' = live,
           line.type = "page" => \A t \in Pinned : line.seen[t] = "recorded" => live[t] = "recorded"
    PROVE  /\ \A t \in verified' \cap Pinned : Stands(t, 1)'
           /\ \A k \in 1..Len(fromServer'), t \in Pinned :
                fromServer'[k].type = "page" /\ fromServer'[k].seen[t] = "recorded"
                  => Stands(t, k + 1)'
<1>0. /\ \A k \in 1..Len(fromServer) : fromServer'[k] = fromServer[k]
      /\ fromServer'[Len(fromServer) + 1] = line /\ Len(fromServer) \in Nat
      /\ Len(fromServer') = Len(fromServer) + 1
  BY Queued DEF Positions, TypeOK
<1>1. ASSUME NEW t, NEW from \in 1..(Len(fromServer) + 1), Stands(t, from) PROVE Stands(t, from)'
  <2>1. CASE line.type = "list_changed"
    <3>1. Len(fromServer) + 1 \in from..Len(fromServer')
      BY <1>0
    <3> QED
      BY <1>0, <2>1, <3>1 DEF Stands
  <2>2. CASE live' = live
    <3>1. ASSUME NEW j \in from..Len(fromServer), fromServer[j].type = "list_changed"
          PROVE  j \in from..Len(fromServer') /\ fromServer'[j].type = "list_changed"
      BY <1>0, <3>1
    <3> QED
      BY <1>1, <2>2, <3>1 DEF Stands
  <2> QED
    BY <2>1, <2>2
<1>2. ASSUME NEW t \in verified' \cap Pinned PROVE Stands(t, 1)'
  <2>1. Stands(t, 1) /\ 1 \in 1..(Len(fromServer) + 1)
    BY <1>0 DEF FreshInv
  <2> QED
    BY <1>1, <2>1
<1>3. ASSUME NEW k \in 1..Len(fromServer'), NEW t \in Pinned,
             fromServer'[k].type = "page", fromServer'[k].seen[t] = "recorded"
      PROVE  Stands(t, k + 1)'
  <2>1. CASE k \in 1..Len(fromServer)
    <3>1. Stands(t, k + 1) /\ k + 1 \in 1..(Len(fromServer) + 1)
      BY <1>0, <1>3, <2>1 DEF FreshInv
    <3> QED
      BY <1>1, <3>1
  <2>2. CASE k = Len(fromServer) + 1
    <3>1. line.type = "page" /\ live[t] = "recorded" /\ live' = live
      BY <1>0, <1>3, <2>2
    <3> QED
      BY <3>1 DEF Stands
  <2> QED
    BY <1>0, <2>1, <2>2
<1> QED
  BY <1>2, <1>3

\* What wrap, or the client, writes was not prepared.
LEMMA AsksFresh ==
    ASSUME FreshInv, [Next]_vars, ~LateAnswers
    PROVE  \A q \in toServer' : q.kind = "list" => ~q.prepared
<1>1. ASSUME NEW asked, toServer' \subseteq toServer \cup asked, \A q \in asked : ~q.prepared
      PROVE  \A q \in toServer' : q.kind = "list" => ~q.prepared
  BY <1>1 DEF FreshInv
<1>2. CASE toServer' \subseteq toServer
  BY <1>2 DEF FreshInv
<1>3. ASSUME NEW kind, NEW id, NEW page, toServer' = Written({Ask(kind, id, page)})
      PROVE  \A q \in toServer' : q.kind = "list" => ~q.prepared
  <2> DEFINE asked == {Ask(kind, id, page)}
  <2>1. toServer' \subseteq toServer \cup asked
    BY <1>3, Writes
  <2>2. \A q \in asked : ~q.prepared
    BY AskedFresh
  <2> HIDE DEF asked
  <2> QED
    BY <1>1, <2>1, <2>2
<1>4. ASSUME NEW ids, NEW wrong, NEW rest, NEW reason, Forward(ids, wrong, rest, reason)
      PROVE  \A q \in toServer' : q.kind = "list" => ~q.prepared
  <2>1. toServer' = Written({Ask("call", i, 1) : i \in ids \ wrong})
    BY <1>4 DEF Forward
  <2>2. \A q \in {Ask("call", i, 1) : i \in ids \ wrong} : ~q.prepared
    BY AskedFresh
  <2> DEFINE asked == {Ask("call", i, 1) : i \in ids \ wrong}
  <2> HIDE DEF asked
  <2> QED
    BY <1>1, <2>1, <2>2, Writes DEF asked
<1>5. ASSUME NEW i \in Ids, \/ ClientLists(i) \/ ClientDiscovers(i) \/ ClientCallsHidden(i)
                            \/ ClientCallsUnchecked(i) \/ ClientCalls(i)
      PROVE  \A q \in toServer' : q.kind = "list" => ~q.prepared
  <2>1. CASE ClientLists(i)
    BY <1>3, <2>1 DEF ClientLists
  <2>2. CASE ClientDiscovers(i)
    BY <1>3, <2>2 DEF ClientDiscovers
  <2>3. CASE ClientCallsHidden(i)
    BY <1>2, <2>3 DEF ClientCallsHidden
  <2>4. CASE ClientCallsUnchecked(i)
    BY <1>2, <1>3, <2>4 DEF ClientCallsUnchecked
  <2>5. CASE ClientCalls(i)
    BY <1>4, <2>5 DEF ClientCalls
  <2> QED
    BY <1>5, <2>1, <2>2, <2>3, <2>4, <2>5
<1>6. CASE HandleVerification
  <2>1. CASE \E page : toServer' = Written({Ask("list", Verify, page)})
    BY <1>3, <2>1
  <2>2. CASE \E failed, ver, chg : Release(failed, ver, chg)
    BY <1>4, <2>2 DEF Release
  <2> QED
    BY <1>6, <2>1, <2>2 DEF HandleVerification
<1>7. CASE HandleListChanged \/ HandleListing \/ HandleAnswer \/ HandleError \/ HandleRequest \/ Stop
  BY <1>2, <1>7 DEF HandleListChanged, HandleListing, HandleAnswer, HandleError, HandleRequest, Stop
<1>8. CASE \/ \E t \in Tools, d \in Definitions : ServerChanges(t, d)
           \/ \E i \in Ids : ServerAsks(i)
           \/ \E q \in toServer : ServerAnswers(q)
           \/ UNCHANGED vars
  BY <1>2, <1>8 DEF ServerChanges, ServerAsks, ServerAnswers, vars
<1>9. ~\E q \in toServer : ServerPrepares(q)
  BY DEF ServerPrepares
<1>10. CASE HandleLine
  BY <1>6, <1>7, <1>10 DEF HandleLine
<1>11. CASE \E i \in Ids : \/ ClientLists(i) \/ ClientDiscovers(i) \/ ClientCallsHidden(i)
                           \/ ClientCallsUnchecked(i) \/ ClientCalls(i)
  BY <1>5, <1>11
<1> QED
  BY <1>7, <1>8, <1>9, <1>10, <1>11 DEF Next

\* Every step keeps what was checked as fresh as it was said to be.
LEMMA FreshKeeps ==
    ASSUME WInv, FreshInv, [Next]_vars, ~LateAnswers
    PROVE  FreshInv'
<1>0. TypeOK /\ \A q \in toServer' : q.kind = "list" => ~q.prepared
  BY AsksFresh DEF WInv
<1>1. SUFFICES /\ \A t \in verified' \cap Pinned : Stands(t, 1)'
               /\ \A k \in 1..Len(fromServer'), t \in Pinned :
                    fromServer'[k].type = "page" /\ fromServer'[k].seen[t] = "recorded"
                      => Stands(t, k + 1)'
  BY <1>0 DEF FreshInv
<1>2. CASE UNCHANGED <<live, verified, fromServer>>
  BY <1>2 DEF FreshInv, Stands
<1>3. CASE \E t \in Tools, d \in Definitions : ServerChanges(t, d)
  <2>1. fromServer' = Append(fromServer, Notice) /\ verified' = verified
    BY <1>3 DEF ServerChanges, Write, wrapVars
  <2>2. Notice \in Line /\ Notice.type = "list_changed"
    BY LineTypes DEF Notice
  <2> QED
    BY <1>0, <2>1, <2>2, WrittenStands
<1>4. CASE \E i \in Ids : ServerAsks(i)
  <2>1. PICK i \in Ids : fromServer' = Append(fromServer, Bare("request", i))
    BY <1>4 DEF ServerAsks, Write
  <2>2. verified' = verified /\ live' = live
    BY <1>4 DEF ServerAsks, wrapVars
  <2>3. Bare("request", i) \in Line /\ Bare("request", i).type = "request"
    BY LineTypes
  <2> QED
    BY <1>0, <2>1, <2>2, <2>3, WrittenStands
<1>5. CASE \E q \in toServer : ServerAnswers(q)
  <2>1. PICK q \in toServer : ServerAnswers(q)
    BY <1>5
  <2>2. verified' = verified /\ live' = live /\ q \in Asked /\ (q.kind = "list" => ~q.prepared)
    BY <1>0, <2>1 DEF ServerAnswers, wrapVars, TypeOK, FreshInv
  <2>3. CASE fromServer' = Append(fromServer, Bare("error", q.id))
    <3>1. Bare("error", q.id) \in Line /\ Bare("error", q.id).type = "error"
      BY <2>2, LineTypes DEF Asked
    <3> QED
      BY <1>0, <2>2, <2>3, <3>1, WrittenStands
  <2>4. ASSUME NEW line \in Answers(q), fromServer' = Append(fromServer, line)
        PROVE  /\ \A t \in verified' \cap Pinned : Stands(t, 1)'
               /\ \A k \in 1..Len(fromServer'), t \in Pinned :
                    fromServer'[k].type = "page" /\ fromServer'[k].seen[t] = "recorded"
                      => Stands(t, k + 1)'
    <3>1. /\ line \in Line
          /\ line.type = CASE q.kind = "list" -> "page" [] q.kind = "call" -> "result"
                            [] q.kind = "discover" -> "discovered"
      BY <1>0, AnswerTypes
    <3>2. ASSUME line.type = "page", NEW t \in Pinned, line.seen[t] = "recorded"
          PROVE  live[t] = "recorded"
      <4>1. q.kind = "list"
        BY <2>2, <3>1, <3>2 DEF Asked
      <4>2. line.seen = OnPage(q.page)
        BY <2>2, <4>1 DEF Answers, PageAnswers
      <4> QED
        BY <3>2, <4>2, WrapAssumption DEF OnPage
    <3> QED
      BY <1>0, <2>2, <2>4, <3>1, <3>2, WrittenStands
  <2> QED
    BY <2>1, <2>3, <2>4 DEF ServerAnswers, Write
<1>6. CASE HandleLine
  <2>1. fromServer # <<>> /\ fromServer' = Tail(fromServer) /\ live' = live
    BY <1>6 DEF HandleLine, HandleVerification, HandleListChanged, HandleListing, HandleAnswer,
                HandleError, HandleRequest, Takes
  <2>2. \/ verified' = {}
        \/ Head(fromServer).type = "page" /\ verified' = VerifiedAfter(Head(fromServer).seen)
        \/ Head(fromServer).type # "list_changed" /\ verified' = verified
    BY <1>6 DEF HandleLine, HandleVerification, HandleListChanged, HandleListing, HandleAnswer,
                HandleError, HandleRequest, Takes
  <2>3. \A t \in verified' \cap Pinned : Stands(t, 1)'
    BY <1>0, <2>1, <2>2, CheckedStands, TakenStands
  <2> QED
    BY <1>0, <2>1, <2>3, TakenStands
<1>7. CASE \E i \in Ids : \/ ClientLists(i) \/ ClientDiscovers(i) \/ ClientCallsHidden(i)
                          \/ ClientCallsUnchecked(i) \/ ClientCalls(i)
  <2>1. UNCHANGED <<live, verified, fromServer>>
    BY <1>7 DEF ClientLists, ClientDiscovers, ClientCallsHidden, ClientCallsUnchecked, ClientCalls,
                wrapVars
  <2> QED
    BY <1>2, <2>1
<1>8. CASE Stop \/ UNCHANGED vars
  BY <1>2, <1>8 DEF Stop, vars, wrapVars
<1>9. CASE \E q \in toServer : ServerPrepares(q)
  BY <1>9 DEF ServerPrepares
<1> QED
  BY <1>3, <1>4, <1>5, <1>6, <1>7, <1>8, <1>9 DEF Next

\* The calls a step sends on are to tools whose approved definition stands.
LEMMA SendsApproved ==
    ASSUME WInv, FreshInv, [Next]_vars, NEW i \in calls' \ calls,
           NEW t \in Pinned, request[i].tool = t
    PROVE  live[t] = "recorded" \/ NoticePending'
<1>0. TypeOK /\ HasRecord
  BY WrapAssumption DEF WInv
<1>1. SUFFICES live' = live /\ Stands(t, 1)'
  BY DEF Stands, NoticePending
<1>2. \/ calls' \subseteq calls
      \/ HandleVerification
      \/ \E j \in Ids : ClientCalls(j)
  BY DEF Next, vars, wrapVars, ClientLists, ClientDiscovers, ClientCallsHidden,
         ClientCallsUnchecked, ServerChanges, ServerAsks, ServerPrepares, ServerAnswers, HandleLine,
         HandleListChanged, HandleListing, HandleAnswer, HandleError, HandleRequest,
         SettledByRequest, Stop
<1>3. CASE \E j \in Ids : ClientCalls(j)
  <2>1. PICK j \in Ids : ClientCalls(j)
    BY <1>3
  <2>2. i = j /\ t \in verified /\ UNCHANGED <<live, fromServer>>
    BY <1>0, <2>1 DEF ClientCalls, Forward
  <2>3. Stands(t, 1)
    BY <2>2 DEF FreshInv
  <2> QED
    BY <2>2, <2>3 DEF Stands
<1>4. CASE HandleVerification
  <2>1. live' = live /\ fromServer # <<>> /\ fromServer' = Tail(fromServer)
    BY <1>4 DEF HandleVerification, Takes
  <2>2. ASSUME NEW failed, NEW ver, NEW chg, Release(failed, ver, chg)
        PROVE  ~failed /\ t \in ver
    BY <2>2 DEF Release, Forward
  <2>3. /\ Head(fromServer).type = "page" 
        /\ t \in VerifiedAfter(Head(fromServer).seen)
    BY <1>4, <2>2 DEF HandleVerification, Takes
  <2> QED
    BY <1>0, <2>1, <2>3, CheckedStands
<1> QED
  BY <1>2, <1>3, <1>4

\* Against a server that lists its tools as they are when it answers, a call goes on only to a tool
\* whose approved definition stands, or before wrap could know better (wrap.ts:149-174, 259-272).
THEOREM CallsAsApproved == ~LateAnswers => (Spec => ForwardedAsApproved)
<1> SUFFICES ASSUME ~LateAnswers PROVE Spec => ForwardedAsApproved
  OBVIOUS
<1>1. Init => FreshInv
  BY DEF Init, FreshInv
<1>2. WInv /\ FreshInv /\ [Next]_vars => FreshInv'
  BY FreshKeeps
<1>3. WInv /\ FreshInv /\ [Next]_vars
        => [\A i \in calls' \ calls :
              request[i].tool \in Pinned => live[request[i].tool] = "recorded" \/ NoticePending']_vars
  BY SendsApproved
<1> QED
  BY <1>1, <1>2, <1>3, WrapInvariance, PTL DEF Spec, ForwardedAsApproved
=============================================================================
