--------------------------- MODULE UpstreamRecord ---------------------------
(***************************************************************************)
(* The record an upstream MCP server is held to (upstream-record.ts).      *)
(*                                                                         *)
(* One UpstreamRecord is shared by every request of a proxy.  It keeps,    *)
(* per recorded label, when the label's live definition last matched the   *)
(* record, and which labels last differed.  Two kinds of readings feed it: *)
(* the items of a client's listing passing through (matches), and the      *)
(* record's own listing (relist), started by a call that finds a label     *)
(* unchecked and joined by every other call that needs one meanwhile.      *)
(*                                                                         *)
(* The upstream is free to change, withdraw and restore a definition at    *)
(* any time, also between the moment a definition is read and the moment   *)
(* the reading arrives here.                                               *)
(***************************************************************************)
EXTENDS Integers, FiniteSets

CONSTANTS
    Labels,       \* the labels an upstream may list: tools, prompt:..., resource:...
    Recorded,     \* the labels with a recorded definition (instructions aside)
    Calls,        \* requests being served at once
    MaxPassing,   \* bound on the listed items on their way to clients at once
    Fresh,        \* FRESH_MS, in clock ticks
    ListLimit,    \* ticks a relist may take: its requests times timeoutMs
    PassLimit,    \* ticks the answer to a client's listing may take: timeoutMs
    MaxNow,       \* bound on the clock
    ChangeMidRead \* whether a definition may change while a reading of it travels

ASSUME RecordedAssumption == Recorded \subseteq Labels
ASSUME LimitsAssumption ==
    /\ Fresh \in Nat \ {0}
    /\ ListLimit \in Nat
    /\ PassLimit \in Nat
    /\ MaxNow \in Nat
    /\ MaxPassing \in Nat
    /\ ChangeMidRead \in BOOLEAN

VARIABLES
    now,          \* Date.now()
    live,         \* the upstream's side: what stands behind each label
    lastRecorded, \* history: when live last equalled the record (Never if it has not)
    checkedAt,    \* the map checkedAt, Never where it has no entry
    changed,      \* the keys of the map changed
    listing,      \* whether the promise `listing` is set
    since,        \* when that relist began
    read,         \* what it has read so far
    passing,      \* the items of client listings on their way
    call          \* each request's progress through refuse()

vars == <<now, live, lastRecorded, checkedAt, changed, listing, since,
          read, passing, call>>

recordVars   == <<checkedAt, changed>>
listingVars  == <<listing, since, read>>
upstreamVars == <<live, lastRecorded>>

Never  == -1
Unread == "unread"

\* What can stand behind a label: the definition that was recorded, another
\* one, or nothing.
Definitions == {"recorded", "different", "absent"}

Item == [label: Labels, def: Definitions \ {"absent"}, at: Nat]

\* refuse() ends in "admitted" (undefined) or in one of its three refusals.
Refusals == {"unreadable", "changed", "unlisted"}
Ended    == {"idle", "admitted"} \cup Refusals
Status   == Ended \cup {"waiting", "listed", "failed"}

TypeOK ==
    /\ now \in Nat
    /\ live \in [Labels -> Definitions]
    /\ lastRecorded \in [Labels -> Nat \cup {Never}]
    /\ checkedAt \in [Recorded -> Nat \cup {Never}]
    /\ changed \in SUBSET Recorded
    /\ listing \in BOOLEAN
    /\ since \in Nat
    /\ read \in [Labels -> Definitions \cup {Unread}]
    /\ passing \in SUBSET Item
    /\ call \in [Calls -> [status: Status, labels: SUBSET Labels]]

-----------------------------------------------------------------------------
(* The record's state, as the code's small helpers read it. *)

\* Mutant of FreshAt: the boundary tick still counts.
FreshThroughBoundary(l, t) == checkedAt[l] # Never /\ t - checkedAt[l] <= Fresh

\* fresh(label) at time t
FreshAt(l, t) == checkedAt[l] # Never /\ t - checkedAt[l] < Fresh

\* Whether refuse() must read the upstream's catalogue before it can answer.
NeedsListing(labels) ==
    \E l \in labels \cap Recorded : l \notin changed /\ ~FreshAt(l, now)

\* Mutant of Verdict: after the relist only a noted change refuses.
VerdictByChangeAlone(labels, t) ==
    {IF labels \cap changed = {} THEN "admitted" ELSE "changed"}

\* What the final loop of refuse() answers at time t.
Verdict(labels, t) ==
    LET recorded == labels \cap Recorded
        refused  == {l \in recorded : l \in changed \/ ~FreshAt(l, t)}
    IN  IF refused = {} THEN {"admitted"}
        ELSE {IF l \in changed THEN "changed" ELSE "unlisted" : l \in refused}

\* Mutant of Note: matches() without its early return for unrecorded labels.
NoteUnrecorded(seen) ==
    LET noted == {l \in DOMAIN seen : seen[l] \in {"recorded", "different"}}
        same  == {l \in noted : seen[l] = "recorded"}
    IN  /\ changed' = (changed \ same) \cup (noted \ same)
        /\ checkedAt' = [l \in Recorded |-> IF l \in same THEN now
                                            ELSE IF l \in noted THEN Never
                                            ELSE checkedAt[l]]

\* matches(), run on a whole set of readings: seen[l] is what was read.
Note(seen) ==
    LET noted == {l \in DOMAIN seen \cap Recorded : seen[l] \in {"recorded", "different"}}
        same  == {l \in noted : seen[l] = "recorded"}
    IN  /\ changed' = (changed \ same) \cup (noted \ same)
        /\ checkedAt' = [l \in Recorded |-> IF l \in same THEN now
                                            ELSE IF l \in noted THEN Never
                                            ELSE checkedAt[l]]

Init ==
    /\ now = 0
    /\ live \in [Labels -> Definitions]
    /\ lastRecorded = [l \in Labels |-> IF live[l] = "recorded" THEN 0 ELSE Never]
    /\ checkedAt = [l \in Recorded |-> Never]
    /\ changed = {}
    /\ listing = FALSE
    /\ since = 0
    /\ read = [l \in Labels |-> Unread]
    /\ passing = {}
    /\ call = [c \in Calls |-> [status |-> "idle", labels |-> {}]]

-----------------------------------------------------------------------------
(* The clock and the upstream. *)

\* A request past its deadline is aborted, so time passes only while every
\* reading on its way is within its own.
CanTick ==
    /\ now < MaxNow
    /\ listing => now - since < ListLimit
    /\ \A i \in passing : now - i.at < PassLimit

\* now' and, with it, the history of what stood behind each label
Advance ==
    /\ now' = now + 1
    /\ lastRecorded' = [l \in Labels |->
                          IF live[l] = "recorded" THEN now + 1 ELSE lastRecorded[l]]

\* The continuations of a settled relist are microtasks: they run before the
\* clock is seen to move.
Tick ==
    /\ CanTick
    /\ \A c \in Calls : call[c].status \notin {"listed", "failed"}
    /\ Advance
    /\ UNCHANGED <<live, recordVars, listingVars, passing, call>>

BeingRead(l) ==
    \/ listing /\ read[l] # Unread
    \/ \E i \in passing : i.label = l

UpstreamChanges(l, d) ==
    /\ live[l] # d
    /\ ChangeMidRead \/ ~BeingRead(l)
    /\ live' = [live EXCEPT ![l] = d]
    /\ lastRecorded' = [lastRecorded EXCEPT ![l] = IF d = "recorded" THEN now ELSE @]
    /\ UNCHANGED <<now, recordVars, listingVars, passing, call>>

-----------------------------------------------------------------------------
(* A client's own listing, filtered as it passes through the proxy. *)

UpstreamListsItem(l) ==
    /\ Cardinality(passing) < MaxPassing
    /\ live[l] # "absent"
    /\ passing' = passing \cup {[label |-> l, def |-> live[l], at |-> now]}
    /\ UNCHANGED <<now, upstreamVars, recordVars, listingVars, call>>

matches(item) ==
    /\ Note([l \in {item.label} |-> item.def])
    /\ passing' = passing \ {item}
    /\ UNCHANGED <<now, upstreamVars, listingVars, call>>

-----------------------------------------------------------------------------
(* A request asks refuse() for its labels. *)

\* Every label was answered for lately: refuse() runs to its end at once.
\* It reads the clock twice, and the clock may move in between.
refuseAtOnce(c, labels) ==
    /\ call[c].status \in Ended
    /\ ~NeedsListing(labels)
    /\ \/ UNCHANGED <<now, lastRecorded>>
       \/ CanTick /\ Advance
    /\ \E v \in Verdict(labels, now') :
         call' = [call EXCEPT ![c] = [status |-> v, labels |-> labels]]
    /\ UNCHANGED <<live, recordVars, listingVars, passing>>

\* Otherwise it starts a relist, or joins the one in flight.
refuseAfterListing(c, labels) ==
    /\ call[c].status \in Ended
    /\ NeedsListing(labels)
    /\ call' = [call EXCEPT ![c] = [status |-> "waiting", labels |-> labels]]
    /\ \/ listing /\ UNCHANGED listingVars
       \/ /\ ~listing
          /\ listing' = TRUE
          /\ since' = now
          /\ read' = [l \in Labels |-> Unread]
    /\ UNCHANGED <<now, upstreamVars, recordVars, passing>>

-----------------------------------------------------------------------------
(* The relist: tools, prompts, resources and templates are listed page by   *)
(* page and side by side, so each label is read at a moment of its own.     *)

UpstreamReads(l) ==
    /\ listing
    /\ read[l] = Unread
    /\ read' = [read EXCEPT ![l] = live[l]]
    /\ UNCHANGED <<now, upstreamVars, recordVars, listing, since, passing, call>>

\* .finally: the promise is dropped, and its readings with it
Settled ==
    /\ listing' = FALSE
    /\ since' = 0
    /\ read' = [l \in Labels |-> Unread]

\* Mutant of Woken: only one waiter is woken.
WokenOne(status) ==
    LET waiting == {c \in Calls : call[c].status = "waiting"}
    IN  IF waiting = {} THEN call
        ELSE [call EXCEPT ![CHOOSE c \in waiting : TRUE].status = status]

Woken(status) ==
    [c \in Calls |-> IF call[c].status = "waiting"
                     THEN [call[c] EXCEPT !.status = status] ELSE call[c]]

\* list() resolved: every item runs through matches, and the waiters wake.
relist ==
    /\ listing
    /\ \A l \in Labels : read[l] # Unread
    /\ Note(read)
    /\ Settled
    /\ call' = Woken("listed")
    /\ UNCHANGED <<now, upstreamVars, passing>>

\* list() rejected: a request failed, was refused or ran past its deadline.
relistFails ==
    /\ listing
    /\ Settled
    /\ call' = Woken("failed")
    /\ UNCHANGED <<now, upstreamVars, recordVars, passing>>

\* A waiter goes on after its await.
resume(c) ==
    /\ \/ /\ call[c].status = "failed"
          /\ call' = [call EXCEPT ![c].status = "unreadable"]
       \/ /\ call[c].status = "listed"
          /\ \E v \in Verdict(call[c].labels, now) :
               call' = [call EXCEPT ![c].status = v]
    /\ UNCHANGED <<now, upstreamVars, recordVars, listingVars, passing>>

-----------------------------------------------------------------------------
\* The steps that note a reading, and all the others.
Notes ==
    \/ \E item \in passing : matches(item)
    \/ relist

Otherwise ==
    \/ Tick
    \/ \E l \in Labels, d \in Definitions : UpstreamChanges(l, d)
    \/ \E l \in Labels : UpstreamListsItem(l)
    \/ \E l \in Labels : UpstreamReads(l)
    \/ \E c \in Calls, labels \in (SUBSET Labels) \ {{}} :
          refuseAtOnce(c, labels) \/ refuseAfterListing(c, labels)
    \/ relistFails
    \/ \E c \in Calls : resume(c)

Next == Notes \/ Otherwise

Spec == Init /\ [][Next]_vars

\* Every request of a relist answers or meets its deadline, and a settled
\* promise runs its continuations.  Nothing else is promised: clients need
\* not call or list, the upstream need not change.
Fairness ==
    /\ WF_vars(relist \/ relistFails)
    /\ \A c \in Calls : WF_vars(resume(c))

LiveSpec == Spec /\ Fairness

-----------------------------------------------------------------------------
(* Properties. *)

\* The most time that may lie between a reading and the moment it is noted.
Transit == IF ListLimit > PassLimit THEN ListLimit ELSE PassLimit
Window  == Fresh + Transit

\* A label the record trusts (fresh and not changed) had its recorded
\* definition standing upstream within the last FRESH_MS plus one transit:
\* checkedAt is stamped when a reading is noted, not when it was taken, so a
\* slow listing stretches the trust by the time it travelled, and no further.
TrustIsRecent ==
    \A l \in Recorded :
        l \notin changed /\ FreshAt(l, now) =>
            lastRecorded[l] # Never /\ now - lastRecorded[l] < Window

\* refuse() over this record is the gate a caller was promised: whatever the
\* interleaving of relists, passing listings and changes upstream, only
\* requests whose definitions stood upstream within Window are admitted.
Unanswered == {"waiting", "listed", "failed"}

Asking == [c \in Calls |-> IF call[c].status \in Unanswered THEN call[c].labels ELSE {}]
Answer == [c \in Calls |-> IF call[c].status \in Refusals THEN "refused"
                           ELSE IF call[c].status = "admitted" THEN "admitted" ELSE "none"]

Gate == INSTANCE RecordGate WITH asking <- Asking, answer <- Answer

ImplementsGate == Gate!Spec

\* Every request that waits on a relist, its own or one it joined, is answered
\* once the relist settles either way: no waiter is lost.
EveryCallAnswered ==
    \A c \in Calls : call[c].status = "waiting" ~> call[c].status \in Ended
=============================================================================
