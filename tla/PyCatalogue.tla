----------------------------- MODULE PyCatalogue -----------------------------
(***************************************************************************)
(* How the Python proxy holds an upstream to its record (proxy.py, _verify *)
(* to _list_upstream, and the listing rewrite). A call whose labels were   *)
(* not verified lately reads the upstream's catalogue under a lock; calls  *)
(* that queued meanwhile take its answer, also when there is none. Every   *)
(* item is noted as it is read, and once more, with the time of the end,   *)
(* when the whole catalogue is. The upstream may change at any time, and   *)
(* the limits below hold only where upstream_timeout is set.               *)
(***************************************************************************)
EXTENDS Integers, FiniteSets

CONSTANTS
  PcLabels,    \* the recorded labels
  PcCalls,     \* requests being served at once
  VerifiedFor, \* VERIFIED_FOR, in ticks
  PcLimit,     \* ticks a reading may take: all its requests, or a client's listing
  PcMaxNow     \* bound on the clock

Nobody == "nobody"
ASSUME PyCatalogueAssumption ==
  /\ VerifiedFor \in Nat \ {0} /\ PcLimit \in Nat /\ PcMaxNow \in Nat
  /\ Nobody \notin PcCalls

VARIABLES
  clock, upstream, lastGood,  \* time.monotonic(), what is listed, when that was last recorded's
  states,   \* label -> [was, at]: what was last noted of it, "absent" where it has no entry
  reading,  \* the read under the lock: [by, since, seen], and whether it is `partial`, history
            \* that it counts as absent what it could not see
  passing,  \* items of clients' listings on their way
  lastBad,  \* history: when upstream last was not the recorded definition
  checks      \* each request: [status, labels], and as history since when it waits, and whether the
            \* read it waited for failed
upstreamSide == <<upstream, lastGood, lastBad>>
pcVars == <<clock, upstreamSide, states, reading, passing, checks>>

Never == -1
Standings == {"recorded", "different", "absent"}
NoReading == [by |-> Nobody, since |-> 0, seen |-> [l \in PcLabels |-> "unread"],
              partial |-> FALSE]
NoState == [was |-> "absent", at |-> Never]
Over(status) == [status |-> status, labels |-> {}, since |-> 0, failed |-> FALSE]
Settled == {"idle", "admitted", "changed", "not offered", "raised"}

PcInit ==
  /\ clock = 0 /\ upstream \in [PcLabels -> Standings]
  /\ lastGood = [l \in PcLabels |-> IF upstream[l] = "recorded" THEN 0 ELSE Never]
  /\ lastBad = [l \in PcLabels |-> IF upstream[l] # "recorded" THEN 0 ELSE Never]
  /\ states = [l \in PcLabels |-> NoState]
  /\ reading = NoReading /\ passing = {}
  /\ checks = [c \in PcCalls |-> Over("idle")]

Free == reading.by = Nobody
\* Mutant of Verified: a definition seen once stays good.
VerifiedEver(l) == states[l].was = "recorded"
\* _verified
Verified(l) == states[l].was = "recorded" /\ clock - states[l].at < VerifiedFor

-----------------------------------------------------------------------------
(* The clock and the upstream.                                             *)

\* Nothing woken waits for the clock, and a request past its deadline is over.
PcTick ==
  /\ clock < PcMaxNow
  /\ \A c \in PcCalls : checks[c].status # "woken"
  /\ ~Free => clock - reading.since < PcLimit
  /\ \A i \in passing : clock - i.at < PcLimit
  /\ clock' = clock + 1
  /\ lastGood' = [l \in PcLabels |-> IF upstream[l] = "recorded" THEN clock + 1 ELSE lastGood[l]]
  /\ lastBad' = [l \in PcLabels |-> IF upstream[l] # "recorded" THEN clock + 1 ELSE lastBad[l]]
  /\ UNCHANGED <<upstream, states, reading, passing, checks>>

PcUpstreamChanges(l, d) ==
  /\ upstream[l] # d
  /\ upstream' = [upstream EXCEPT ![l] = d]
  /\ lastGood' = [lastGood EXCEPT ![l] = IF d = "recorded" THEN clock ELSE @]
  /\ lastBad' = [lastBad EXCEPT ![l] = IF d # "recorded" THEN clock ELSE @]
  /\ UNCHANGED <<clock, states, reading, passing, checks>>

-----------------------------------------------------------------------------
(* A client's own listing, rewritten as it passes.                         *)

PcItemLeaves(l) ==
  /\ upstream[l] # "absent" /\ passing = {}
  /\ passing' = {[label |-> l, was |-> upstream[l], at |-> clock]}
  /\ UNCHANGED <<clock, upstreamSide, states, reading, checks>>

\* _matches_record
Noted(l, was) == [states EXCEPT ![l] = [was |-> was, at |-> clock]]
ItemPasses(i) ==
  /\ i \in passing /\ passing' = {}
  /\ states' = Noted(i.label, i.was)
  /\ UNCHANGED <<clock, upstreamSide, reading, checks>>

-----------------------------------------------------------------------------
(* _verify, and the read under the lock.                                   *)

\* The loop that answers.
Answered(c, labels) ==
  LET bad == {l \in labels : ~Verified(l)}
  IN \E verdict \in IF bad = {} THEN {"admitted"}
                    ELSE {IF states[l] # NoState THEN "changed" ELSE "not offered" : l \in bad} :
       checks' = [checks EXCEPT ![c] = Over(verdict)]

PcAsk(c, labels) ==
  /\ checks[c].status \in Settled
  /\ IF \A l \in labels : Verified(l) THEN Answered(c, labels)
     ELSE checks' = [checks EXCEPT ![c] = [status |-> "queued", labels |-> labels, since |-> clock,
                                       failed |-> FALSE]]
  /\ UNCHANGED <<clock, upstreamSide, states, reading, passing>>

\* Mutant of ReadBegins: without the lock.
ReadBeginsUnlocked(c) ==
  /\ checks[c].status = "queued"
  /\ reading' = [NoReading EXCEPT !.by = c, !.since = clock]
  /\ checks' = [checks EXCEPT ![c].status = "reading"]
  /\ UNCHANGED <<clock, upstreamSide, states, passing>>
\* A queued call finds the lock free and no read done since it queued.
ReadBegins(c) ==
  /\ checks[c].status = "queued" /\ Free
  /\ \A d \in PcCalls : checks[d].status # "woken"
  /\ reading' = [NoReading EXCEPT !.by = c, !.since = clock]
  /\ checks' = [checks EXCEPT ![c].status = "reading"]
  /\ UNCHANGED <<clock, upstreamSide, states, passing>>

\* A page that cannot be read ends its listing: what it would have shown counts as absent.
PageReads(l) ==
  /\ ~Free /\ reading.seen[l] = "unread"
  /\ \E was \in {upstream[l], "absent"} :
       /\ reading' = [reading EXCEPT !.seen[l] = was, !.partial = @ \/ was # upstream[l]]
       /\ states' = IF was = "absent" THEN states ELSE Noted(l, was)
  /\ UNCHANGED <<clock, upstreamSide, passing, checks>>

\* The counter has moved: those that queued go on, judged as the record then stands. So does the
\* reader, unless its read raised.
Woken(how) ==
  [c \in PcCalls |->
     CASE checks[c].status = "queued" \/ (checks[c].status = "reading" /\ how = "woken") ->
            [status |-> "woken", labels |-> checks[c].labels, since |-> checks[c].since,
             failed |-> reading.partial \/ how = "raised"]
       [] checks[c].status = "reading" /\ how = "raised" -> Over(how)
       [] OTHER -> checks[c]]

\* What the catalogue does not list loses its entry.
Stamped ==
  [l \in PcLabels |-> IF reading.seen[l] = "absent" THEN NoState
                      ELSE [was |-> reading.seen[l], at |-> clock]]

ReadEnds ==
  /\ ~Free /\ \A l \in PcLabels : reading.seen[l] # "unread"
  /\ states' = Stamped /\ checks' = Woken("woken") /\ reading' = NoReading
  /\ UNCHANGED <<clock, upstreamSide, passing>>

\* The credential raises, or the reader is cancelled: its call ends, the others are judged.
ReadRaises ==
  /\ ~Free
  /\ checks' = Woken("raised") /\ reading' = NoReading
  /\ UNCHANGED <<clock, upstreamSide, states, passing>>

\* Mutant of PcResumes: a queued call does not wait for a read.
PcResumesEarly(c) ==
  /\ checks[c].status \in {"woken", "queued"}
  /\ Answered(c, checks[c].labels)
  /\ UNCHANGED <<clock, upstreamSide, states, reading, passing>>
PcResumes(c) ==
  /\ checks[c].status = "woken"
  /\ Answered(c, checks[c].labels)
  /\ UNCHANGED <<clock, upstreamSide, states, reading, passing>>

PcNext ==
  \/ PcTick \/ \E l \in PcLabels, d \in Standings : PcUpstreamChanges(l, d)
  \/ \E l \in PcLabels : PcItemLeaves(l) \/ PageReads(l)
  \/ \E i \in passing : ItemPasses(i)
  \/ \E c \in PcCalls, labels \in (SUBSET PcLabels) \ {{}} : PcAsk(c, labels)
  \/ ReadEnds \/ ReadRaises \/ \E c \in PcCalls : ReadBegins(c) \/ PcResumes(c)
\* Every request of a read answers or meets its deadline, and tasks that can go on do.
PcFair == \/ ReadEnds \/ ReadRaises \/ \E c \in PcCalls : ReadBegins(c) \/ PcResumes(c)
PcSpec == PcInit /\ [][PcNext]_pcVars /\ WF_pcVars(PcFair)

-----------------------------------------------------------------------------
(* Properties.                                                             *)

\* Shape of the state, and one reader at most.
PcTypeOK ==
  /\ clock \in 0..PcMaxNow /\ upstream \in [PcLabels -> Standings]
  /\ {lastGood, lastBad} \subseteq [PcLabels -> Never..PcMaxNow]
  /\ states \in [PcLabels -> [was : Standings, at : Never..PcMaxNow]]
  /\ reading \in [by : PcCalls \cup {Nobody}, since : 0..PcMaxNow,
                  seen : [PcLabels -> Standings \cup {"unread"}], partial : BOOLEAN]
  /\ passing \subseteq [label : PcLabels, was : Standings, at : 0..PcMaxNow]
  /\ checks \in [PcCalls -> [status : Settled \cup {"queued", "reading", "woken"},
                           labels : SUBSET PcLabels, since : 0..PcMaxNow, failed : BOOLEAN]]
  /\ \A c \in PcCalls : checks[c].status = "reading" <=> reading.by = c

\* What _verify admits really stood upstream as recorded within VERIFIED_FOR and one reading's
\* travel, whatever reads, listings and changes overlap: it implements the same gate as the
\* TypeScript record (proxy.py:647-728).
PcAsking == [c \in PcCalls |-> IF checks[c].status \in Settled THEN {} ELSE checks[c].labels]
PcAnswer == [c \in PcCalls |-> CASE checks[c].status = "admitted" -> "admitted"
                                 [] checks[c].status \in {"changed", "not offered", "raised"} -> "refused"
                                 [] OTHER -> "none"]
PcGate == INSTANCE RecordGate WITH
  Labels <- PcLabels, Recorded <- PcLabels, Calls <- PcCalls, Window <- VerifiedFor + PcLimit,
  now <- clock, live <- upstream, lastRecorded <- lastGood, asking <- PcAsking, answer <- PcAnswer
PcImplementsGate == PcGate!Spec

\* A refusal has its cause: since one reading before the call asked, the upstream did not offer
\* some label it reaches as recorded, or the catalogue could not be read whole. What was noted
\* before then is never what a call is refused for (proxy.py:655-662, 705-728).
RefusedForCause ==
  [][\A c \in PcCalls :
       checks[c].status \in {"queued", "woken"} /\ checks'[c].status \in {"changed", "not offered"} /\ ~checks[c].failed =>
         \E l \in checks[c].labels : lastBad[l] # Never /\ checks[c].since - lastBad[l] <= PcLimit]_pcVars

\* A call waiting on the catalogue is answered, whoever reads it and however that ends.
PcCallsAnswered ==
  \A c \in PcCalls : checks[c].status \in {"queued", "woken"} ~> checks[c].status \in Settled
=============================================================================
