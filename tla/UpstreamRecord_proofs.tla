----------------------- MODULE UpstreamRecord_proofs ------------------------
(***************************************************************************)
(* Proofs about UpstreamRecord, for any labels, any number of requests and *)
(* passing items, and any limits.                                          *)
(***************************************************************************)
EXTENDS UpstreamRecord, TLAPS

\* Each reading, on its way or noted, is backed by the definition having stood
\* upstream no earlier than the reading can have been taken.
LiveIsLatest ==
    \A l \in Labels : live[l] = "recorded" => lastRecorded[l] = now

RelistBacked ==
    listing => /\ since <= now
               /\ now - since <= ListLimit
               /\ \A l \in Labels : read[l] = "recorded" => lastRecorded[l] >= since

PassingBacked ==
    \A item \in passing :
        /\ item.at <= now
        /\ now - item.at <= PassLimit
        /\ item.def = "recorded" => lastRecorded[item.label] >= item.at

CheckedBacked ==
    \A l \in Recorded :
        checkedAt[l] # Never => /\ checkedAt[l] <= now
                                /\ lastRecorded[l] # Never
                                /\ lastRecorded[l] >= checkedAt[l] - Transit

\* A request that waits, waits for something.
AskedForSomething ==
    \A c \in Calls : call[c].status \in Unanswered => call[c].labels # {}

IInv ==
    /\ TypeOK
    /\ LiveIsLatest
    /\ RelistBacked
    /\ PassingBacked
    /\ CheckedBacked
    /\ AskedForSomething

-----------------------------------------------------------------------------
\* Transit bounds the time either kind of reading may travel.
LEMMA TransitBounds ==
    Transit \in Nat /\ ListLimit <= Transit /\ PassLimit <= Transit
BY LimitsAssumption DEF Transit

\* The initial state has no readings to back.
LEMMA InitIInv == Init => IInv
<1> SUFFICES ASSUME Init PROVE IInv
  OBVIOUS
<1> USE DEF Init
<1>1. /\ now \in Nat
      /\ live \in [Labels -> Definitions]
      /\ lastRecorded \in [Labels -> Nat \cup {Never}]
      /\ checkedAt \in [Recorded -> Nat \cup {Never}]
      /\ changed \in SUBSET Recorded
      /\ listing \in BOOLEAN /\ since \in Nat
  OBVIOUS
<1>2. read \in [Labels -> Definitions \cup {Unread}]
  OBVIOUS
<1>3. call \in [Calls -> [status: Status, labels: SUBSET Labels]]
  BY DEF Status, Ended
<1>4. passing \in SUBSET Item
  OBVIOUS
<1>5. LiveIsLatest
  BY DEF LiveIsLatest
<1>6. RelistBacked /\ PassingBacked /\ CheckedBacked
  BY DEF RelistBacked, PassingBacked, CheckedBacked
<1>7. AskedForSomething
  BY DEF AskedForSomething, Unanswered
<1> QED BY <1>1, <1>2, <1>3, <1>4, <1>5, <1>6, <1>7 DEF IInv, TypeOK

\* Noting a set of readings keeps the record typed.
LEMMA NoteTyped ==
    ASSUME TypeOK, NEW seen, Note(seen)
    PROVE  /\ changed' \in SUBSET Recorded
           /\ checkedAt' \in [Recorded -> Nat \cup {Never}]
BY DEF Note, TypeOK

\* Noting readings no older than the transit keeps every check backed.
LEMMA NoteBacked ==
    ASSUME TypeOK, CheckedBacked, NEW seen, Note(seen),
           \A l \in Recorded : l \in DOMAIN seen /\ seen[l] = "recorded" =>
               lastRecorded[l] # Never /\ lastRecorded[l] >= now - Transit,
           UNCHANGED <<now, lastRecorded>>
    PROVE  CheckedBacked'
BY TransitBounds, RecordedAssumption DEF Note, TypeOK, CheckedBacked, Never

\* Settling wakes waiters without losing what they asked for.
LEMMA WokenTyped ==
    ASSUME TypeOK, AskedForSomething, NEW status \in {"listed", "failed"}, call' = Woken(status)
    PROVE  /\ call' \in [Calls -> [status: Status, labels: SUBSET Labels]]
           /\ AskedForSomething'
BY DEF Woken, TypeOK, Status, AskedForSomething, Unanswered

-----------------------------------------------------------------------------
\* The inductive step, one action at a time.
LEMMA NextIInv == IInv /\ [Next]_vars => IInv'
<1> SUFFICES ASSUME IInv, [Next]_vars PROVE IInv'
  OBVIOUS
<1> USE LimitsAssumption, RecordedAssumption DEF IInv
<1>1. CASE Tick
  <2> USE <1>1 DEF Tick, CanTick, Advance
  <2>1. TypeOK'
    BY DEF TypeOK, recordVars, listingVars
  <2>2. LiveIsLatest'
    BY DEF LiveIsLatest, TypeOK
  <2>4. \A l \in Labels : live[l] = "recorded" => lastRecorded[l] = now
    BY DEF LiveIsLatest
  <2>5. \A l \in Labels : lastRecorded[l] \in Int /\ lastRecorded'[l] \in Int
    BY <2>1 DEF TypeOK, Never
  <2>6. \A l \in Labels : lastRecorded'[l] >= lastRecorded[l]
    BY <2>4, <2>5 DEF TypeOK, Never
  <2>7. RelistBacked'
    BY <2>5, <2>6 DEF RelistBacked, TypeOK, listingVars
  <2>8. PassingBacked'
    BY <2>5, <2>6 DEF PassingBacked, TypeOK, Item
  <2>9. CheckedBacked'
    BY <2>5, <2>6, TransitBounds DEF CheckedBacked, TypeOK, recordVars, Never
  <2>10. AskedForSomething'
    BY DEF AskedForSomething
  <2> QED BY <2>1, <2>2, <2>7, <2>8, <2>9, <2>10
<1>2. ASSUME NEW l \in Labels, NEW d \in Definitions, UpstreamChanges(l, d) PROVE IInv'
  <2> USE <1>2 DEF UpstreamChanges
  <2>1. TypeOK'
    BY DEF TypeOK, recordVars, listingVars
  <2>2. LiveIsLatest'
    BY DEF LiveIsLatest, TypeOK
  <2>5. \A m \in Labels : lastRecorded[m] \in Int /\ lastRecorded'[m] \in Int
    BY <2>1 DEF TypeOK, Never
  <2>3. RelistBacked'
    BY <2>5 DEF RelistBacked, TypeOK, listingVars
  <2>4. PassingBacked'
    BY <2>5 DEF PassingBacked, TypeOK, Item
  <2>6. CheckedBacked'
    BY <2>5, TransitBounds DEF CheckedBacked, TypeOK, recordVars, Never
  <2>7. AskedForSomething'
    BY DEF AskedForSomething
  <2> QED BY <2>1, <2>2, <2>3, <2>4, <2>6, <2>7
<1>3. ASSUME NEW l \in Labels, UpstreamListsItem(l) PROVE IInv'
  <2> USE <1>3 DEF UpstreamListsItem, upstreamVars, recordVars, listingVars
  <2>1. TypeOK'
    BY DEF TypeOK, Item, Definitions
  <2>2. PassingBacked'
    BY DEF PassingBacked, LiveIsLatest, TypeOK, Item
  <2>3. LiveIsLatest' /\ RelistBacked' /\ CheckedBacked' /\ AskedForSomething'
    BY DEF LiveIsLatest, RelistBacked, CheckedBacked, AskedForSomething
  <2> QED BY <2>1, <2>2, <2>3
<1>4. ASSUME NEW item \in passing, matches(item) PROVE IInv'
  <2> DEFINE seen == [l \in {item.label} |-> item.def]
  <2> USE <1>4 DEF matches, upstreamVars, listingVars
  <2>1. TypeOK'
    BY NoteTyped DEF TypeOK
  <2>2. \A l \in Recorded : l \in DOMAIN seen /\ seen[l] = "recorded" =>
               lastRecorded[l] # Never /\ lastRecorded[l] >= now - Transit
    BY TransitBounds DEF PassingBacked, TypeOK, Item, Never
  <2>3. Note(seen)
    OBVIOUS
  <2> HIDE DEF seen
  <2>4. CheckedBacked'
    BY <2>2, <2>3, NoteBacked
  <2>5. LiveIsLatest' /\ RelistBacked' /\ PassingBacked' /\ AskedForSomething'
    BY DEF LiveIsLatest, RelistBacked, PassingBacked, AskedForSomething
  <2> QED BY <2>1, <2>4, <2>5
<1>5. CASE relist
  <2> USE <1>5 DEF relist, upstreamVars, Settled
  <2>1. /\ call' \in [Calls -> [status: Status, labels: SUBSET Labels]]
        /\ AskedForSomething'
    BY WokenTyped
  <2>2. TypeOK'
    BY <2>1, NoteTyped DEF TypeOK, Unread
  <2>3. \A l \in Recorded : l \in DOMAIN read /\ read[l] = "recorded" =>
               lastRecorded[l] # Never /\ lastRecorded[l] >= now - Transit
    BY TransitBounds DEF RelistBacked, TypeOK, Never
  <2>4. CheckedBacked'
    BY <2>3, NoteBacked
  <2>5. LiveIsLatest' /\ RelistBacked' /\ PassingBacked'
    BY DEF LiveIsLatest, RelistBacked, PassingBacked
  <2> QED BY <2>1, <2>2, <2>4, <2>5
<1>6. ASSUME NEW c \in Calls, NEW labels \in (SUBSET Labels) \ {{}}, refuseAtOnce(c, labels)
      PROVE  IInv'
  <2> USE <1>6 DEF refuseAtOnce, recordVars, listingVars
  <2>1. \A v \in Verdict(labels, now') : v \in {"admitted", "changed", "unlisted"}
    BY DEF Verdict
  <2>2. TypeOK' /\ AskedForSomething'
    BY <2>1 DEF TypeOK, Status, Ended, Refusals, Advance, AskedForSomething, Unanswered
  <2>3. \A l \in Labels : lastRecorded[l] \in Int /\ lastRecorded'[l] \in Int
    BY <2>2 DEF TypeOK, Never
  <2>4. \A l \in Labels : lastRecorded'[l] >= lastRecorded[l]
    BY <2>3 DEF LiveIsLatest, TypeOK, Never, Advance
  <2>5. LiveIsLatest'
    BY DEF LiveIsLatest, TypeOK, Advance
  <2>6. RelistBacked'
    BY <2>3, <2>4 DEF RelistBacked, TypeOK, CanTick, Advance
  <2>7. PassingBacked'
    BY <2>3, <2>4 DEF PassingBacked, TypeOK, Item, CanTick, Advance
  <2>8. now' \in Nat /\ now' >= now
    BY DEF Advance, TypeOK
  <2>9. CheckedBacked'
    BY <2>3, <2>4, <2>8, TransitBounds DEF CheckedBacked, TypeOK, Never
  <2> QED BY <2>2, <2>5, <2>6, <2>7, <2>9
<1>7. ASSUME NEW c \in Calls, NEW labels \in (SUBSET Labels) \ {{}}, refuseAfterListing(c, labels)
      PROVE  IInv'
  <2> USE <1>7 DEF refuseAfterListing, recordVars, listingVars, upstreamVars
  <2>0. /\ now' = now /\ lastRecorded' = lastRecorded
        /\ call' = [call EXCEPT ![c] = [status |-> "waiting", labels |-> labels]]
        /\ labels # {}
    OBVIOUS
  <2>6. AskedForSomething'
    <3>1. \A k \in Calls : call'[k] = IF k = c THEN [status |-> "waiting", labels |-> labels]
                                     ELSE call[k]
      BY <2>0 DEF TypeOK
    <3>2. ASSUME NEW k \in Calls, call'[k].status \in Unanswered PROVE call'[k].labels # {}
      <4>1. CASE k = c
        BY <4>1, <3>1, <2>0
      <4>2. CASE k # c
        BY <4>2, <3>1, <3>2 DEF AskedForSomething, Unanswered
      <4> QED BY <4>1, <4>2
    <3> QED BY <3>2 DEF AskedForSomething, Unanswered
  <2>4. ASSUME listing PROVE TypeOK' /\ AskedForSomething' /\ RelistBacked'
    <3>1. UNCHANGED <<listing, since, read>>
      BY <2>4
    <3>2. TypeOK'
      BY <3>1, <2>0 DEF TypeOK, Status
    <3>3. AskedForSomething'
      BY <2>6
    <3>4. RelistBacked'
      BY <3>1, <2>0 DEF RelistBacked
    <3> QED BY <3>2, <3>3, <3>4
  <2>5. ASSUME ~listing PROVE TypeOK' /\ AskedForSomething' /\ RelistBacked'
    <3>1. listing' = TRUE /\ since' = now /\ read' = [l \in Labels |-> Unread]
      BY <2>5
    <3>2. TypeOK'
      BY <3>1, <2>0 DEF TypeOK, Status, Unread
    <3>3. AskedForSomething'
      BY <2>6
    <3>4. RelistBacked'
      BY <3>1, <2>0 DEF RelistBacked, TypeOK, Unread
    <3> QED BY <3>2, <3>3, <3>4
  <2>1. TypeOK' /\ AskedForSomething'
    BY <2>4, <2>5
  <2>2. RelistBacked'
    BY <2>4, <2>5
  <2>3. LiveIsLatest' /\ PassingBacked' /\ CheckedBacked'
    BY DEF LiveIsLatest, PassingBacked, CheckedBacked
  <2> QED BY <2>1, <2>2, <2>3
<1>8. ASSUME NEW l \in Labels, UpstreamReads(l) PROVE IInv'
  <2> USE <1>8 DEF UpstreamReads, recordVars, upstreamVars
  <2>1. TypeOK'
    BY DEF TypeOK
  <2>2. RelistBacked'
    BY DEF RelistBacked, LiveIsLatest, TypeOK
  <2>3. LiveIsLatest' /\ PassingBacked' /\ CheckedBacked' /\ AskedForSomething'
    BY DEF LiveIsLatest, PassingBacked, CheckedBacked, AskedForSomething
  <2> QED BY <2>1, <2>2, <2>3
<1>9. CASE relistFails
  <2> USE <1>9 DEF relistFails, recordVars, upstreamVars, Settled
  <2>1. /\ call' \in [Calls -> [status: Status, labels: SUBSET Labels]]
        /\ AskedForSomething'
    BY WokenTyped
  <2>2. TypeOK'
    BY <2>1 DEF TypeOK, Unread
  <2>3. LiveIsLatest' /\ RelistBacked' /\ PassingBacked' /\ CheckedBacked'
    BY DEF LiveIsLatest, RelistBacked, PassingBacked, CheckedBacked
  <2> QED BY <2>1, <2>2, <2>3
<1>10. ASSUME NEW c \in Calls, resume(c) PROVE IInv'
  <2> USE <1>10 DEF resume, recordVars, upstreamVars, listingVars
  <2>1. \A v \in Verdict(call[c].labels, now) : v \in {"admitted", "changed", "unlisted"}
    BY DEF Verdict
  <2>2. TypeOK' /\ AskedForSomething'
    BY <2>1 DEF TypeOK, Status, Ended, Refusals, AskedForSomething, Unanswered
  <2>3. LiveIsLatest' /\ RelistBacked' /\ PassingBacked' /\ CheckedBacked'
    BY DEF LiveIsLatest, RelistBacked, PassingBacked, CheckedBacked
  <2> QED BY <2>2, <2>3
<1>11. CASE UNCHANGED vars
  BY <1>11 DEF vars, TypeOK, LiveIsLatest, RelistBacked, PassingBacked, CheckedBacked,
               AskedForSomething
<1> QED
  BY <1>1, <1>2, <1>3, <1>4, <1>5, <1>6, <1>7, <1>8, <1>9, <1>10, <1>11
     DEF Next, Notes, Otherwise

\* The invariant holds always.
LEMMA Invariance == Spec => []IInv
BY InitIInv, NextIInv, PTL DEF Spec

-----------------------------------------------------------------------------
\* Every variable keeps its type: the maps stay keyed by recorded labels and a
\* request never leaves the states refuse() has.
THEOREM TypeCorrect == Spec => []TypeOK
<1>1. IInv => TypeOK
  BY DEF IInv
<1> QED BY <1>1, Invariance, PTL

\* A label the record trusts stood upstream as recorded within FRESH_MS plus
\* one transit, for every number of labels, requests and readings.
THEOREM TrustIsAlwaysRecent == Spec => []TrustIsRecent
<1>1. IInv => TrustIsRecent
  BY TransitBounds, LimitsAssumption, RecordedAssumption
     DEF IInv, CheckedBacked, TrustIsRecent, FreshAt, Window, TypeOK, Never
<1> QED BY <1>1, Invariance, PTL

-----------------------------------------------------------------------------
\* An admission finds every recorded label fresh at the time it is given, so
\* each of them stood upstream within Window of that time.
LEMMA AdmittedIsVouched ==
    ASSUME IInv', UNCHANGED <<checkedAt, changed>>,
           NEW labels, "admitted" \in Verdict(labels, now')
    PROVE  Gate!Vouched(labels)
<1> DEFINE refused == {l \in labels \cap Recorded : l \in changed \/ ~FreshAt(l, now')}
<1>1. refused = {}
  <2>1. SUFFICES ASSUME refused # {} PROVE FALSE
    OBVIOUS
  <2>2. Verdict(labels, now') =
          {IF l \in changed THEN "changed" ELSE "unlisted" : l \in refused}
    BY <2>1 DEF Verdict
  <2>3. "admitted" \notin {IF l \in changed THEN "changed" ELSE "unlisted" : l \in refused}
    OBVIOUS
  <2> QED BY <2>2, <2>3
<1>2. ASSUME NEW l \in labels \cap Recorded
      PROVE  lastRecorded'[l] # -1 /\ now' - lastRecorded'[l] < Window
  <2>1. checkedAt[l] # Never /\ now' - checkedAt[l] < Fresh
    BY <1>1 DEF FreshAt
  <2>2. /\ lastRecorded'[l] # Never
        /\ lastRecorded'[l] >= checkedAt[l] - Transit
    BY <2>1 DEF IInv, CheckedBacked
  <2>3. now' \in Int /\ lastRecorded'[l] \in Int /\ checkedAt[l] \in Int
    BY RecordedAssumption DEF IInv, TypeOK, Never
  <2> QED BY <2>1, <2>2, <2>3, TransitBounds, LimitsAssumption DEF Window, Never
<1> QED BY <1>2 DEF Gate!Vouched, Gate!Never

\* The empty record maps to the gate that has admitted nothing.
LEMMA InitMaps == Init => Gate!Init
BY DEF Init, Gate!Init, Never, Gate!Never, Definitions, Gate!Definitions,
       Asking, Answer, Unanswered, Refusals

\* Waking the waiters of a relist is invisible to the gate's callers.
LEMMA WakingStutters ==
    ASSUME TypeOK, NEW status \in {"listed", "failed"}, call' = Woken(status)
    PROVE  UNCHANGED <<Asking, Answer>>
BY DEF Woken, TypeOK, Status, Asking, Answer, Unanswered, Refusals

\* A request that ends with verdict v ends the gate's request the same way.
LEMMA EndingMaps ==
    ASSUME TypeOK, NEW c \in Calls, NEW labels \in SUBSET Labels,
           NEW v \in {"admitted"} \cup Refusals,
           call' = [call EXCEPT ![c] = [status |-> v, labels |-> labels]]
    PROVE  /\ Asking' = [Asking EXCEPT ![c] = {}]
           /\ v = "admitted" => Answer' = [Answer EXCEPT ![c] = "admitted"]
           /\ v # "admitted" => Answer' = [Answer EXCEPT ![c] = "refused"]
BY DEF TypeOK, Status, Ended, Asking, Answer, Unanswered, Refusals

\* Every step of the record maps to one of the gate, or to none.
LEMMA NextMaps == IInv /\ IInv' /\ [Next]_vars => [Gate!Next]_(Gate!vars)
<1> SUFFICES ASSUME IInv, IInv', [Next]_vars PROVE [Gate!Next]_(Gate!vars)
  OBVIOUS
<1>0. TypeOK /\ AskedForSomething
  BY DEF IInv
<1>1. CASE Tick
  BY <1>1 DEF Tick, Advance, Gate!Next, Gate!Tick, Gate!Passes, Asking, Answer, Never, Gate!Never
<1>2. ASSUME NEW l \in Labels, NEW d \in Definitions, UpstreamChanges(l, d)
      PROVE  Gate!Next
  BY <1>2 DEF UpstreamChanges, Gate!Next, Gate!Change, Asking, Answer, Definitions,
              Gate!Definitions
<1>3. ASSUME NEW l \in Labels, UpstreamListsItem(l) PROVE UNCHANGED Gate!vars
  BY <1>3 DEF UpstreamListsItem, upstreamVars, Gate!vars, Asking, Answer
<1>4. ASSUME NEW item \in passing, matches(item) PROVE UNCHANGED Gate!vars
  BY <1>4 DEF matches, upstreamVars, Gate!vars, Asking, Answer
<1>5. CASE relist
  BY <1>5, <1>0, WakingStutters DEF relist, upstreamVars, Gate!vars
<1>6. CASE relistFails
  BY <1>6, <1>0, WakingStutters DEF relistFails, upstreamVars, Gate!vars
<1>7. ASSUME NEW l \in Labels, UpstreamReads(l) PROVE UNCHANGED Gate!vars
  BY <1>7 DEF UpstreamReads, upstreamVars, Gate!vars, Asking, Answer
<1>8. ASSUME NEW c \in Calls, NEW labels \in (SUBSET Labels) \ {{}}, refuseAtOnce(c, labels)
      PROVE  Gate!Next
  <2>1. PICK v \in Verdict(labels, now') :
          call' = [call EXCEPT ![c] = [status |-> v, labels |-> labels]]
    BY <1>8 DEF refuseAtOnce
  <2>2. v \in {"admitted"} \cup Refusals
    BY DEF Verdict, Refusals
  <2>3. Asking[c] = {}
    BY <1>8 DEF refuseAtOnce, Asking, Unanswered, Ended, Refusals
  <2>4. /\ Asking' = [Asking EXCEPT ![c] = {}]
        /\ v = "admitted" => Answer' = [Answer EXCEPT ![c] = "admitted"]
        /\ v # "admitted" => Answer' = [Answer EXCEPT ![c] = "refused"]
    BY <1>0, <2>1, <2>2, EndingMaps
  <2>5. UNCHANGED Asking
    BY <2>3, <2>4 DEF Asking
  <2>6. v = "admitted" => Gate!Vouched(labels)
    BY <1>8, AdmittedIsVouched DEF refuseAtOnce, recordVars
  <2>7. Gate!Answers(c, labels)
    BY <2>4, <2>6 DEF Gate!Answers
  <2>8. Gate!Passes \/ UNCHANGED <<now, lastRecorded>>
    BY <1>8 DEF refuseAtOnce, Advance, Gate!Passes
  <2>9. Gate!AnswerAtOnce(c, labels)
    BY <1>8, <2>3, <2>5, <2>7, <2>8 DEF Gate!AnswerAtOnce, refuseAtOnce
  <2> QED BY <2>9 DEF Gate!Next
<1>9. ASSUME NEW c \in Calls, NEW labels \in (SUBSET Labels) \ {{}}, refuseAfterListing(c, labels)
      PROVE  Gate!Next
  <2>1. /\ call[c].status \in Ended
        /\ call' = [call EXCEPT ![c] = [status |-> "waiting", labels |-> labels]]
        /\ UNCHANGED <<now, live, lastRecorded>>
    BY <1>9 DEF refuseAfterListing, upstreamVars
  <2>2. Asking[c] = {}
    BY <2>1 DEF Asking, Unanswered, Ended, Refusals
  <2>3. Asking' = [Asking EXCEPT ![c] = labels] /\ Answer' = [Answer EXCEPT ![c] = "none"]
    BY <1>0, <2>1 DEF TypeOK, Asking, Answer, Unanswered, Refusals
  <2> QED BY <2>1, <2>2, <2>3 DEF Gate!Next, Gate!Ask
<1>10. ASSUME NEW c \in Calls, resume(c) PROVE Gate!Next
  <2>1. UNCHANGED <<now, live, lastRecorded, checkedAt, changed>>
    BY <1>10 DEF resume, upstreamVars, recordVars
  <2>2. Asking[c] = call[c].labels /\ Asking[c] # {} /\ call[c].labels \in SUBSET Labels
    BY <1>10, <1>0 DEF resume, Asking, Unanswered, AskedForSomething, TypeOK
  <2>3. PICK v \in {"unreadable"} \cup Verdict(call[c].labels, now) :
          call' = [call EXCEPT ![c] = [status |-> v, labels |-> call[c].labels]]
    BY <1>10, <1>0 DEF resume, TypeOK
  <2>4. v \in {"admitted"} \cup Refusals
    BY DEF Verdict, Refusals
  <2>5. /\ Asking' = [Asking EXCEPT ![c] = {}]
        /\ v = "admitted" => Answer' = [Answer EXCEPT ![c] = "admitted"]
        /\ v # "admitted" => Answer' = [Answer EXCEPT ![c] = "refused"]
    BY <1>0, <2>2, <2>3, <2>4, EndingMaps
  <2>6. v = "admitted" => Gate!Vouched(call[c].labels)
    <3>1. now' = now
      BY <2>1
    <3> QED BY <2>1, <3>1, AdmittedIsVouched
  <2>7. Gate!Answers(c, Asking[c])
    BY <2>2, <2>5, <2>6 DEF Gate!Answers
  <2>8. Gate!Answer(c)
    BY <2>1, <2>2, <2>5, <2>7 DEF Gate!Answer
  <2> QED BY <2>8 DEF Gate!Next
<1>11. CASE UNCHANGED vars
  BY <1>11 DEF vars, Gate!vars, Asking, Answer
<1> QED
  BY <1>1, <1>2, <1>3, <1>4, <1>5, <1>6, <1>7, <1>8, <1>9, <1>10, <1>11
     DEF Next, Notes, Otherwise

\* refuse() over this record is the promised gate: the cache, the shared relist
\* and readings that arrive late or out of order never admit a request whose
\* definitions did not stand upstream within Window.
THEOREM RecordImplementsGate == Spec => ImplementsGate
<1>1. Spec => []IInv
  BY Invariance
<1> QED BY <1>1, InitMaps, NextMaps, PTL DEF Spec, Gate!Spec, ImplementsGate
=============================================================================
