--------------------------- MODULE PyProxy_proofs ---------------------------
(***************************************************************************)
(* Theorems about the Python proxy: PyForward, for any set of calls, and   *)
(* PyCatalogue, for any labels, any number of calls and any limits. The    *)
(* invariant of a forward says of each call which of the racers may still  *)
(* run at its stage, and what the outcome that will be recorded rests on.  *)
(* That of the catalogue: a note is worth what stood upstream when its     *)
(* reading was taken, followed from there to the record.                   *)
(***************************************************************************)
EXTENDS PyForward, PyCatalogue, TLAPS

(* A forwarded call.                                                       *)

\* The record of a call.
PfRecord ==
  [at : {"new", "racing", "ending", "over", "refused", "lost"},
   limited : BOOLEAN, fwd : {"none", "running", "done", "raised", "stopped"},
   ran : BOOLEAN, status : {"none", "ok", "error"},
   out : {"nothing", "head", "whole", "cut", "504"},
   hangup : BOOLEAN, late : BOOLEAN, phase : {"none", "success", "failure"},
   ended : {"none", "success", "failure"}]

\* A forward runs only in the race, and one that is done has sent its answer.
Racing(r) ==
  /\ r.fwd = "running" => r.at = "racing"
  /\ r.at = "racing" => r.fwd # "stopped"
  /\ r.fwd = "none" <=> r.at \in {"new", "refused"}
  /\ r.fwd = "none" => ~r.ran
  /\ r.fwd = "done" => r.out = "whole"
  /\ r.status # "none" => r.ran

\* The outcome is the forward's and the upstream's; a forward is stopped for a cause.
Judged(r) ==
  /\ r.at # "over" => r.ended = "none"
  /\ r.at \in {"ending", "over"} =>
       /\ r.phase = IF r.fwd = "done" /\ r.status = "ok" THEN "success" ELSE "failure"
       /\ r.fwd = "stopped" => r.hangup \/ r.late
  /\ r.at = "over" => r.ended = r.phase

Sound(r) == r \in PfRecord /\ Racing(r) /\ Judged(r)
PfInv == PfTypeOK /\ \A c \in PfCalls : Sound(pf[c])

\* What the proxy does to one call is a step of that call's record.
Stepped(c) == \E r \in PfRecord : Sound(r) /\ pf' = [pf EXCEPT ![c] = r]

-----------------------------------------------------------------------------
\* What stopping the race does to a record: its forward runs no more, its phase is settled.
LEMMA HaltedFields ==
  ASSUME NEW r \in PfRecord
  PROVE  /\ Halted(r) \in PfRecord
         /\ Halted(r).at = r.at /\ Halted(r).ran = r.ran /\ Halted(r).ended = r.ended
         /\ Halted(r).out = r.out /\ Halted(r).status = r.status
         /\ Halted(r).hangup = r.hangup /\ Halted(r).late = r.late
         /\ Halted(r).fwd = IF r.fwd = "running" THEN "stopped" ELSE r.fwd
         /\ Halted(r).phase = IF r.fwd = "done" /\ r.status = "ok" THEN "success" ELSE "failure"
  BY DEF Halted, PfRecord

\* The record that is left when the race is over is one.
LEMMA EndingTyped ==
  ASSUME NEW r \in PfRecord, NEW o \in {"nothing", "head", "whole", "cut", "504"}
  PROVE  [r EXCEPT !.at = "ending", !.out = o] \in PfRecord
  BY DEF PfRecord

\* The proxy starts in the invariant: no call has begun.
LEMMA PfStartsSound == PfInit => PfInv
  BY DEF PfInit, PfIdle, PfInv, PfTypeOK, Sound, Racing, Judged, PfRecord

\* A call whose record is sound gets a sound one, in every step of its racers and its sink.
LEMMA CallStepSound ==
  ASSUME NEW c \in PfCalls, PfInv,
         \/ \E recorded, limited \in BOOLEAN : PfStarts(c, recorded, limited)
         \/ PfRuns(c) \/ \E status \in {"ok", "error"} : PfHead(c, status)
         \/ PfBody(c) \/ PfHangsUp(c) \/ PfGoes(c) \/ PfCancelled(c)
  PROVE  Stepped(c)
<1>0. Sound(pf[c])
  BY DEF PfInv
<1> USE <1>0 DEF Stepped, Becomes, Sound, Racing, Judged, PfRecord
<1>1. ASSUME NEW recorded \in BOOLEAN, NEW limited \in BOOLEAN, PfStarts(c, recorded, limited)
      PROVE  Stepped(c)
  BY <1>1 DEF PfStarts
<1>2. CASE PfRuns(c)
  BY <1>2 DEF PfRuns
<1>3. ASSUME NEW status \in {"ok", "error"}, PfHead(c, status) PROVE Stepped(c)
  BY <1>3 DEF PfHead
<1>4. CASE PfBody(c)
  BY <1>4 DEF PfBody
<1>5. CASE PfHangsUp(c)
  BY <1>5 DEF PfHangsUp
<1>6. CASE PfReturns(c)
  BY <1>6 DEF PfReturns, Forwarding
<1>7. CASE PfExpires(c)
  BY <1>7 DEF PfExpires
<1>8. CASE Wakes(c)
  <2> DEFINE h == Halted(pf[c])
             o == IF ~(pf[c].fwd = "running" /\ ~pf[c].hangup) THEN h.out
                  ELSE IF pf[c].status = "none" THEN "504"
                  ELSE IF h.out = "head" THEN "cut" ELSE h.out
  <2>1. /\ pf[c].at = "racing" /\ pf[c].ended = "none" /\ pf[c].fwd # "none"
        /\ pf[c].fwd # "running" \/ pf[c].hangup \/ pf[c].late
    BY <1>8 DEF Wakes
  <2>2. /\ h \in PfRecord /\ h.at = "racing" /\ h.ended = "none" /\ h.fwd \in {"done", "raised", "stopped"}
        /\ h.phase = IF h.fwd = "done" /\ h.status = "ok" THEN "success" ELSE "failure"
        /\ h.fwd = "stopped" => h.hangup \/ h.late
        /\ h.fwd = "done" => h.out = "whole" /\ pf[c].fwd = "done"
        /\ h.status # "none" => h.ran
    <3>1. pf[c] \in PfRecord
      OBVIOUS
    <3>2. /\ h \in PfRecord
          /\ h.at = pf[c].at /\ h.ran = pf[c].ran /\ h.ended = pf[c].ended
          /\ h.out = pf[c].out /\ h.status = pf[c].status
          /\ h.hangup = pf[c].hangup /\ h.late = pf[c].late
          /\ h.fwd = IF pf[c].fwd = "running" THEN "stopped" ELSE pf[c].fwd
          /\ h.phase = IF pf[c].fwd = "done" /\ pf[c].status = "ok" THEN "success" ELSE "failure"
      BY <3>1, HaltedFields
    <3> HIDE DEF h
    <3>3. h.at = "racing" /\ h.ended = "none"
      BY <2>1, <3>2
    <3>4. h.fwd \in {"done", "raised", "stopped"}
      BY <2>1, <3>1, <3>2
    <3>5. h.phase = IF h.fwd = "done" /\ h.status = "ok" THEN "success" ELSE "failure"
      BY <2>1, <3>1, <3>2
    <3>6. h.fwd = "stopped" => h.hangup \/ h.late
      BY <2>1, <3>1, <3>2
    <3>7. h.fwd = "done" => h.out = "whole" /\ pf[c].fwd = "done"
      BY <2>1, <3>1, <3>2
    <3>8. h.status # "none" => h.ran
      <4>1. h.status # "none" => pf[c].ran
        BY <3>2
      <4>2. h.ran = pf[c].ran
        BY <3>2
      <4> QED
        BY ONLY <4>1, <4>2, Zenon
    <3> QED
      BY <2>1, <3>2, <3>3, <3>4, <3>5, <3>6, <3>7, <3>8
  <2>3. o \in {"nothing", "head", "whole", "cut", "504"} /\ (h.fwd = "done" => o = "whole")
    BY <2>1, <2>2
  <2>4. \/ pf' = [pf EXCEPT ![c] = [h EXCEPT !.at = "ending", !.out = o]]
        \/ pf' = [pf EXCEPT ![c] = [h EXCEPT !.at = "lost"]]
    BY <1>8, <2>1 DEF Wakes
  <2> HIDE DEF h, o
  <2>5. Sound([h EXCEPT !.at = "ending", !.out = o]) /\ Sound([h EXCEPT !.at = "lost"])
    <3>1. [h EXCEPT !.at = "ending", !.out = o] \in PfRecord
      <4> HIDE DEF PfRecord
      <4> QED
        BY <2>2, <2>3, EndingTyped
    <3>5. [h EXCEPT !.at = "lost"] \in PfRecord
      BY <2>2
    <3>2. Racing([h EXCEPT !.at = "ending", !.out = o]) /\ Racing([h EXCEPT !.at = "lost"])
      BY <2>2, <2>3
    <3>3. Judged([h EXCEPT !.at = "ending", !.out = o])
      BY <2>2, <2>3
    <3>4. Judged([h EXCEPT !.at = "lost"])
      BY <2>2, <2>3
    <3> HIDE DEF Racing, Judged, PfRecord
    <3> QED
      BY <3>1, <3>2, <3>3, <3>4, <3>5
  <2> HIDE DEF Sound, Racing, Judged, PfRecord
  <2>6. [h EXCEPT !.at = "ending", !.out = o] \in PfRecord /\ [h EXCEPT !.at = "lost"] \in PfRecord
    BY <2>5 DEF Sound
  <2> QED
    BY <2>4, <2>5, <2>6
<1>9. CASE PfRecords(c)
  <2> DEFINE r == [pf[c] EXCEPT !.at = "over", !.ended = pf[c].phase]
  <2>1. /\ pf[c].at = "ending" /\ pf[c].fwd \in {"done", "raised", "stopped"}
        /\ pf' = [pf EXCEPT ![c] = r]
    BY <1>9 DEF PfRecords
  <2>2. r \in PfRecord
    BY <2>1
  <2>3. Racing(r)
    BY <2>1
  <2>4. Judged(r)
    BY <2>1
  <2> HIDE DEF r, Racing, Judged, PfRecord
  <2> QED
    BY <2>1, <2>2, <2>3, <2>4
<1>10. CASE PfCancelled(c)
  BY <1>10 DEF PfCancelled
<1> QED
  BY <1>1, <1>2, <1>3, <1>4, <1>5, <1>6, <1>7, <1>8, <1>9, <1>10 DEF PfGoes

\* Every step keeps the invariant, of the call that takes it and of the others.
LEMMA PfStepSound == PfInv /\ [PfNext]_pf => PfInv'
<1> SUFFICES ASSUME PfInv, [PfNext]_pf PROVE PfInv'
  OBVIOUS
<1>1. CASE UNCHANGED pf
  BY <1>1 DEF PfInv, PfTypeOK, Sound, Racing, Judged
<1>2. ASSUME NEW c \in PfCalls, Stepped(c) PROVE PfInv'
  <2>1. PICK r \in PfRecord : Sound(r) /\ pf' = [pf EXCEPT ![c] = r]
    BY <1>2 DEF Stepped
  <2>2. \A d \in PfCalls : pf'[d] = IF d = c THEN r ELSE pf[d]
    BY <2>1 DEF PfInv, PfTypeOK
  <2>3. pf' \in [PfCalls -> PfRecord]
    BY <2>1 DEF PfInv, PfTypeOK, PfRecord
  <2> QED
    BY <2>1, <2>2, <2>3 DEF PfInv, PfTypeOK, Sound, Racing, Judged, PfRecord
<1> QED
  BY <1>1, <1>2, CallStepSound DEF PfNext

\* The invariant holds always.
THEOREM PfInvariance == PfSpec => []PfInv
  BY PfStartsSound, PfStepSound, PTL DEF PfSpec

\* The shape of a recorded forward's state, always: who runs, who waits, what was sent and recorded
\* (proxy.py:340-415).
THEOREM PfTypes == PfSpec => []PfTypeOK
<1>1. PfInv => PfTypeOK
  BY DEF PfInv
<1> QED
  BY PfInvariance, <1>1, PTL

-----------------------------------------------------------------------------
\* Every step of the proxy is a step of the trail, or none: the forward that is stopped before
\* the terminal event is written cannot run after it.
LEMMA PfStepOfTrail == PfInv /\ [PfNext]_pf => [PfTrail!Next]_(PfTrail!vars)
<1> SUFFICES ASSUME PfInv, [PfNext]_pf PROVE [PfTrail!Next]_(PfTrail!vars)
  OBVIOUS
<1>0. pf \in [PfCalls -> PfRecord] /\ \A d \in PfCalls : Sound(pf[d])
  BY DEF PfInv, PfTypeOK, PfRecord
<1>1. CASE UNCHANGED pf
  BY <1>1 DEF PfTrail!vars
<1>2. ASSUME \A d \in PfCalls : /\ pf'[d].ran = pf[d].ran /\ pf'[d].ended = pf[d].ended
                               /\ (pf'[d].at \in {"new", "refused"}) = (pf[d].at \in {"new", "refused"})
      PROVE  UNCHANGED PfTrail!vars
  <2>1. [d \in PfCalls |-> pf[d].at \notin {"new", "refused"}]'
          = [d \in PfCalls |-> pf[d].at \notin {"new", "refused"}]
    BY <1>2, Zenon
  <2> QED
    BY <1>2, <2>1 DEF PfTrail!vars
<1>3. ASSUME NEW c \in PfCalls, NEW recorded \in BOOLEAN, NEW limited \in BOOLEAN,
             PfStarts(c, recorded, limited)
      PROVE  [PfTrail!Next]_(PfTrail!vars)
  <2>1. CASE recorded
    <3>1. \A d \in PfCalls :
            /\ pf'[d].ran = pf[d].ran /\ pf'[d].ended = pf[d].ended
            /\ pf'[d].at \notin {"new", "refused"} <=> (d = c \/ pf[d].at \notin {"new", "refused"})
      BY <1>0, <1>3, <2>1 DEF PfStarts, Becomes, PfRecord
    <3>2. PfTrail!Attempt(c)
      BY <3>1 DEF PfTrail!Attempt
    <3> QED
      BY <3>2 DEF PfTrail!Next
  <2>2. CASE ~recorded
    BY <1>0, <1>2, <1>3, <2>2 DEF PfStarts, Becomes, PfRecord
  <2> QED
    BY <2>1, <2>2
<1>4. ASSUME NEW c \in PfCalls, PfRuns(c) PROVE PfTrail!Run(c)
  BY <1>0, <1>4 DEF PfRuns, Becomes, PfTrail!Run, PfRecord, Sound, Racing, Judged
<1>5. ASSUME NEW c \in PfCalls, NEW status \in {"ok", "error"}, PfHead(c, status)
      PROVE  UNCHANGED PfTrail!vars
  BY <1>0, <1>2, <1>5 DEF PfHead, Becomes, PfRecord
<1>6. ASSUME NEW c \in PfCalls, PfBody(c) \/ PfHangsUp(c) \/ PfExpires(c)
      PROVE  UNCHANGED PfTrail!vars
  BY <1>0, <1>2, <1>6 DEF PfBody, PfHangsUp, PfExpires, Becomes, PfRecord
<1>7. ASSUME NEW c \in PfCalls, PfReturns(c) \/ PfCancelled(c) PROVE UNCHANGED PfTrail!vars
  <2>1. pf[c].at \notin {"new", "refused"} /\ \A d \in PfCalls \ {c} : pf'[d] = pf[d]
    BY <1>0, <1>7 DEF PfReturns, PfCancelled, Forwarding, Becomes, PfRecord
  <2>2. /\ pf'[c].at \notin {"new", "refused"}
        /\ pf'[c].ran = pf[c].ran /\ pf'[c].ended = pf[c].ended
    BY <1>0, <1>7 DEF PfReturns, PfCancelled, Forwarding, Becomes, PfRecord
  <2> QED
    BY <1>2, <2>1, <2>2
<1>8. ASSUME NEW c \in PfCalls, Wakes(c) PROVE UNCHANGED PfTrail!vars
  <2>1. pf[c].at = "racing" /\ \A d \in PfCalls \ {c} : pf'[d] = pf[d]
    BY <1>0, <1>8 DEF Wakes, Becomes
  <2> DEFINE h == Halted(pf[c])
  <2>2. h \in PfRecord /\ h.ran = pf[c].ran /\ h.ended = pf[c].ended
    BY <1>0, HaltedFields
  <2>3. \/ \E o : pf' = [pf EXCEPT ![c] = [h EXCEPT !.at = "ending", !.out = o]]
        \/ pf' = [pf EXCEPT ![c] = [h EXCEPT !.at = "lost"]]
    BY <1>8, <2>1 DEF Wakes, Becomes
  <2> HIDE DEF h
  <2>4. /\ pf'[c].at \notin {"new", "refused"}
        /\ pf'[c].ran = pf[c].ran /\ pf'[c].ended = pf[c].ended
    <3>1. ASSUME NEW o, pf' = [pf EXCEPT ![c] = [h EXCEPT !.at = "ending", !.out = o]]
          PROVE  pf'[c].at = "ending" /\ pf'[c].ran = h.ran /\ pf'[c].ended = h.ended
      BY <1>0, <2>2, <3>1 DEF PfRecord
    <3>2. ASSUME pf' = [pf EXCEPT ![c] = [h EXCEPT !.at = "lost"]]
          PROVE  pf'[c].at = "lost" /\ pf'[c].ran = h.ran /\ pf'[c].ended = h.ended
      BY <1>0, <2>2, <3>2 DEF PfRecord
    <3> QED
      BY <2>2, <2>3, <3>1, <3>2
  <2> QED
    BY <1>2, <2>1, <2>4
<1>9. ASSUME NEW c \in PfCalls, PfRecords(c) PROVE PfTrail!Next
  <2>1. /\ pf[c].at = "ending" /\ pf[c].ended = "none" /\ pf[c].phase \in {"success", "failure"}
        /\ pf[c].phase = "success" => pf[c].ran
    BY <1>0, <1>9 DEF PfRecords, PfRecord, Sound, Racing, Judged
  <2>2. PICK phase \in {"success", "failure", "refused"} : phase = pf[c].phase /\ phase # "refused"
    BY <2>1
  <2>3. \A d \in PfCalls :
          /\ pf'[d].ran = pf[d].ran /\ pf'[d].ended = IF d = c THEN phase ELSE pf[d].ended
          /\ pf'[d].at \in {"new", "refused"} <=> pf[d].at \in {"new", "refused"}
    BY <1>0, <1>9, <2>1, <2>2 DEF PfRecords, Becomes, PfRecord
  <2>4. PfTrail!End(c, phase)
    BY <2>1, <2>2, <2>3 DEF PfTrail!End
  <2> QED
    BY <2>4 DEF PfTrail!Next
<1> QED
  BY <1>1, <1>3, <1>4, <1>5, <1>6, <1>7, <1>8, <1>9 DEF PfNext, PfGoes, PfTrail!Next

\* The Python proxy implements the audit trail, with every deadline, hangup and cancellation;
\* and what its terminal event says is what the client was sent (proxy.py:340-415;
\* audit.py:195-216).
THEOREM PfImplementsTrail == PfSpec => PfKeepsTrail
<1>1. PfInit => PfTrail!Init
  <2> SUFFICES ASSUME PfInit PROVE PfTrail!Init
    OBVIOUS
  <2>1. \A c \in PfCalls : pf[c].at = "new" /\ pf[c].ran = FALSE /\ pf[c].ended = "none"
    BY DEF PfInit, PfIdle
  <2>2. \A c \in PfCalls : (pf[c].at \notin {"new", "refused"}) = FALSE
    BY <2>1
  <2> QED
    BY <2>1, <2>2, Zenon DEF PfTrail!Init
<1>2. PfInv /\ [PfNext]_pf => [PfTrail!Next]_(PfTrail!vars)
  BY PfStepOfTrail
<1>3. PfInv => RecordedAsSent
  BY DEF PfInv, Sound, Racing, Judged, PfRecord, RecordedAsSent
<1> QED
  BY PfInvariance, <1>1, <1>2, <1>3, PTL DEF PfSpec, PfKeepsTrail, PfTrail!Spec

-----------------------------------------------------------------------------
(* The catalogue.                                                          *)

Times == Nat \cup {Never}
Statuses == Settled \cup {"queued", "reading", "woken"}

\* The shape that the notes rest on; history is left out.
Shaped ==
  /\ clock \in Nat /\ upstream \in [PcLabels -> Standings]
  /\ lastGood \in [PcLabels -> Times]
  /\ states \in [PcLabels -> [was : Standings, at : Times]]
  /\ reading.since \in Nat /\ reading.seen \in [PcLabels -> Standings \cup {"unread"}]
  /\ reading = [by |-> reading.by, since |-> reading.since, seen |-> reading.seen,
                partial |-> reading.partial]
  /\ passing \subseteq [label : PcLabels, was : Standings, at : Nat]

\* A call's record: one that waits asked for something.
PcRecord(r) ==
  /\ r = [status |-> r.status, labels |-> r.labels, since |-> r.since, failed |-> r.failed]
  /\ r.status \in Statuses /\ r.labels \subseteq PcLabels
  /\ r.status \notin Settled => r.labels # {}
Asked == DOMAIN checks = PcCalls /\ \A c \in PcCalls : PcRecord(checks[c])

\* The label was the recorded definition then or later.
Stood(l, time) == lastGood[l] # Never /\ lastGood[l] >= time

GoodIsLatest ==
  \A l \in PcLabels : /\ lastGood[l] <= clock
                      /\ upstream[l] = "recorded" => lastGood[l] = clock

ReadingBacked ==
  ~Free => /\ reading.since <= clock /\ clock - reading.since <= PcLimit
           /\ \A l \in PcLabels : reading.seen[l] = "recorded" => Stood(l, reading.since)

PassingBacked ==
  \A i \in passing : /\ i.at <= clock /\ clock - i.at <= PcLimit
                     /\ i.was = "recorded" => Stood(i.label, i.at)

StatesBacked ==
  \A l \in PcLabels : states[l].was = "recorded" => /\ states[l].at \in Nat /\ states[l].at <= clock
                                      /\ Stood(l, states[l].at - PcLimit)

\* Only who holds the lock reads.
OneReader == \A c \in PcCalls : checks[c].status = "reading" => reading.by = c

PcInv == Shaped /\ Asked /\ GoodIsLatest /\ ReadingBacked /\ PassingBacked /\ StatesBacked

-----------------------------------------------------------------------------
\* The fields of a reading that has not begun.
LEMMA Unread ==
  /\ NoReading = [by |-> NoReading.by, since |-> NoReading.since, seen |-> NoReading.seen,
                  partial |-> NoReading.partial]
  /\ NoReading.by = Nobody /\ NoReading.since = 0
  /\ NoReading.seen = [l \in PcLabels |-> "unread"]
  BY DEF NoReading

\* What a call that goes on under another status becomes.
GoOn(r, status, failed) ==
  [status |-> status, labels |-> r.labels, since |-> r.since, failed |-> failed]

\* A call that queued or reads goes on for the labels it asked about.
LEMMA GoesOn ==
  ASSUME NEW r, PcRecord(r), r.labels # {}, NEW status \in Statuses, NEW failed
  PROVE  /\ PcRecord(GoOn(r, status, failed))
         /\ GoOn(r, status, failed).status = status
         /\ GoOn(r, status, failed).labels = r.labels
<1> DEFINE t == GoOn(r, status, failed)
<1>1. t = [status |-> status, labels |-> r.labels, since |-> r.since, failed |-> failed]
  BY DEF GoOn
<1> HIDE DEF t
<1>2. t.status = status /\ t.labels = r.labels /\ t.since = r.since /\ t.failed = failed
  BY <1>1
<1>3. PcRecord(t)
  BY <1>1, <1>2 DEF PcRecord
<1> QED
  BY <1>2, <1>3 DEF t

\* A call that is over.
LEMMA OverIsCall ==
  ASSUME NEW status \in Settled
  PROVE  PcRecord(Over(status)) /\ Over(status).status = status /\ Over(status).labels = {}
  BY DEF PcRecord, Over, Statuses, Settled

\* Nothing is on its way when the proxy starts, and nothing noted.
LEMMA PcStarts == PcInit => PcInv
<1> SUFFICES ASSUME PcInit PROVE PcInv
  OBVIOUS
<1> USE PyCatalogueAssumption DEF PcInit, Times, Statuses, Settled, Never, NoState, NoReading, Over
<1>1. Shaped
  <2>1. /\ clock \in Nat /\ upstream \in [PcLabels -> Standings] /\ passing = {}
        /\ lastGood \in [PcLabels -> Times] /\ states \in [PcLabels -> [was : Standings, at : Times]]
    BY DEF Standings
  <2>2. reading = [by |-> Nobody, since |-> 0, seen |-> [l \in PcLabels |-> "unread"], partial |-> FALSE]
    BY Zenon
  <2> QED
    BY <2>1, <2>2 DEF Shaped
<1>2. Asked
  BY OverIsCall DEF Asked
<1>3. GoodIsLatest
  BY DEF GoodIsLatest
<1>4. ReadingBacked /\ PassingBacked /\ StatesBacked
  BY DEF ReadingBacked, PassingBacked, StatesBacked, Free
<1> QED
  BY <1>1, <1>2, <1>3, <1>4 DEF PcInv

\* The clock and the upstream: what stood at a time stands in the history after it.
LEMMA TimeKeeps ==
  ASSUME PcInv, PcTick \/ \E l \in PcLabels, d \in Standings : PcUpstreamChanges(l, d)
  PROVE  PcInv'
<1> USE PyCatalogueAssumption
    DEF PcInv, Shaped, Asked, GoodIsLatest, ReadingBacked, PassingBacked, StatesBacked, Stood,
        Free, Times, Never
<1>1. CASE PcTick
  BY <1>1 DEF PcTick
<1>2. ASSUME NEW l \in PcLabels, NEW d \in Standings, PcUpstreamChanges(l, d) PROVE PcInv'
  BY <1>2 DEF PcUpstreamChanges
<1> QED
  BY <1>1, <1>2

\* A listing passing by carries what it read, no older than its limit.
LEMMA PassingKeeps ==
  ASSUME PcInv, \/ \E l \in PcLabels : PcItemLeaves(l)
                \/ \E i \in passing : ItemPasses(i)
  PROVE  PcInv'
<1> USE PyCatalogueAssumption
    DEF PcInv, Shaped, Asked, GoodIsLatest, ReadingBacked, PassingBacked, StatesBacked, Stood,
        Free, Times, Never, upstreamSide
<1>1. ASSUME NEW l \in PcLabels, PcItemLeaves(l) PROVE PcInv'
  BY <1>1 DEF PcItemLeaves
<1>2. ASSUME NEW i \in passing, ItemPasses(i) PROVE PcInv'
  BY <1>2 DEF ItemPasses, Noted
<1> QED
  BY <1>1, <1>2

\* The catalogue's part of the invariant; Asked is the calls'.
Backed == Shaped /\ GoodIsLatest /\ ReadingBacked /\ PassingBacked /\ StatesBacked

\* The end of a read wakes each call into one, or ends it.
LEMMA WokenAsked ==
  ASSUME Asked, NEW how \in {"woken", "raised"}, checks' = Woken(how)
  PROVE  Asked'
<1>1. DOMAIN checks' = PcCalls
  BY DEF Woken
<1>2. ASSUME NEW c \in PcCalls PROVE PcRecord(checks'[c])
  <2>0. PcRecord(checks[c])
    BY DEF Asked
  <2>1. CASE checks[c].status = "queued" \/ (checks[c].status = "reading" /\ how = "woken")
    <3>1. checks[c].labels # {}
      BY <2>0, <2>1 DEF PcRecord, Settled
    <3>2. checks'[c] = GoOn(checks[c], "woken", reading.partial \/ how = "raised")
      BY <2>1 DEF Woken, GoOn
    <3>3. "woken" \in Statuses
      BY DEF Statuses
    <3> QED
      BY <2>0, <3>1, <3>2, <3>3, GoesOn
  <2>2. CASE checks[c].status = "reading" /\ how = "raised"
    BY <2>2, OverIsCall DEF Woken, Settled
  <2>3. CASE checks[c].status \notin {"queued", "reading"}
    <3>1. checks'[c] = checks[c]
      BY <2>3 DEF Woken
    <3> QED
      BY <2>0, <3>1
  <2>4. how = "woken" \/ how = "raised"
    OBVIOUS
  <2>5. checks[c].status = "queued" \/ checks[c].status = "reading" \/ checks[c].status \notin {"queued", "reading"}
    OBVIOUS
  <2> QED
    BY <2>1, <2>2, <2>3, <2>4, <2>5, Zenon
<1> QED
  BY <1>1, <1>2 DEF Asked

\* A read begins, sees a page, ends or raises: what it stamps at its end is no younger than its
\* start allows.
LEMMA ReadKeeps ==
  ASSUME PcInv, \/ \E c \in PcCalls : ReadBegins(c)
                \/ \E l \in PcLabels : PageReads(l)
                \/ ReadEnds \/ ReadRaises
  PROVE  PcInv'
<1> SUFFICES Asked' /\ Backed'
  BY DEF PcInv, Backed
<1>0. Asked /\ Backed
  BY DEF PcInv, Backed
<1> USE <1>0, PyCatalogueAssumption
<1>1. ASSUME NEW c \in PcCalls, ReadBegins(c) PROVE Asked' /\ Backed'
  <2>1. Asked'
    <3>1. checks' = [checks EXCEPT ![c] = [checks[c] EXCEPT !.status = "reading"]]
      BY <1>1 DEF ReadBegins
    <3>2. checks[c].labels # {} /\ PcRecord(checks[c])
      BY <1>1 DEF ReadBegins, Asked, PcRecord, Settled
    <3>3. [checks[c] EXCEPT !.status = "reading"] = GoOn(checks[c], "reading", checks[c].failed)
      BY <3>2 DEF PcRecord, GoOn
    <3>4. PcRecord(GoOn(checks[c], "reading", checks[c].failed))
      BY <3>2, GoesOn DEF Statuses
    <3> QED
      BY <3>1, <3>3, <3>4 DEF Asked
  <2>2. Backed'
    <3>1. reading' = [by |-> c, since |-> clock, seen |-> NoReading.seen,
                      partial |-> NoReading.partial]
      BY <1>1, Unread DEF ReadBegins
    <3>2. NoReading.seen = [l \in PcLabels |-> "unread"]
      BY Unread
    <3>3. UNCHANGED <<clock, upstream, lastGood, states, passing>>
      BY <1>1 DEF ReadBegins, upstreamSide
    <3>4. /\ reading'.since = clock /\ reading'.seen = NoReading.seen /\ reading'.by = c
          /\ reading' = [by |-> reading'.by, since |-> reading'.since, seen |-> reading'.seen,
                         partial |-> reading'.partial]
      BY <3>1
    <3>5. Shaped'
      BY <3>2, <3>3, <3>4 DEF Backed, Shaped
    <3>6. ReadingBacked'
      BY <3>2, <3>3, <3>4 DEF Backed, Shaped, ReadingBacked
    <3>7. GoodIsLatest' /\ PassingBacked' /\ StatesBacked'
      BY <3>3 DEF Backed, GoodIsLatest, PassingBacked, StatesBacked, Stood
    <3> QED
      BY <3>5, <3>6, <3>7 DEF Backed
  <2> QED
    BY <2>1, <2>2
<1>2. ASSUME NEW l \in PcLabels, PageReads(l) PROVE Asked' /\ Backed'
  <2>1. PICK was \in {upstream[l], "absent"} :
          /\ reading' = [reading EXCEPT !.seen[l] = was, !.partial = @ \/ was # upstream[l]]
          /\ states' = IF was = "absent" THEN states ELSE Noted(l, was)
    BY <1>2 DEF PageReads
  <2>2. /\ ~Free /\ UNCHANGED <<clock, upstream, lastGood, passing, checks>>
    BY <1>2 DEF PageReads, upstreamSide
  <2>3. was \in Standings /\ (was = "recorded" => lastGood[l] = clock)
    BY <2>1 DEF Backed, Shaped, GoodIsLatest, Standings
  <2>4. /\ reading'.by = reading.by /\ reading'.since = reading.since
        /\ reading'.seen = [reading.seen EXCEPT ![l] = was]
        /\ reading' = [by |-> reading'.by, since |-> reading'.since, seen |-> reading'.seen,
                       partial |-> reading'.partial]
    <3>1. reading = [by |-> reading.by, since |-> reading.since, seen |-> reading.seen,
                     partial |-> reading.partial]
      BY DEF Backed, Shaped
    <3> QED
      BY <2>1, <3>1
  <2>5. Asked'
    BY <2>2 DEF Asked
  <2>6. Shaped'
    BY <2>1, <2>2, <2>3, <2>4 DEF Backed, Shaped, Noted, Times
  <2>7. GoodIsLatest' /\ PassingBacked'
    BY <2>2 DEF Backed, GoodIsLatest, PassingBacked, Stood
  <2>8. ReadingBacked'
    BY <2>2, <2>3, <2>4 DEF Backed, Shaped, ReadingBacked, Stood, Free, Times, Never
  <2>9. StatesBacked'
    BY <2>1, <2>2, <2>3 DEF Backed, Shaped, StatesBacked, Stood, Noted, Times, Never
  <2> QED
    BY <2>5, <2>6, <2>7, <2>8, <2>9 DEF Backed
<1>3. CASE ReadEnds
  <2>1. Asked'
    BY <1>3, WokenAsked DEF ReadEnds
  <2>2. Backed'
    BY <1>3 DEF ReadEnds, Stamped, NoState, NoReading, Standings, upstreamSide, Backed, Shaped,
                GoodIsLatest, ReadingBacked, PassingBacked, StatesBacked, Stood, Free, Times, Never
  <2> QED
    BY <2>1, <2>2
<1>4. CASE ReadRaises
  <2>1. Asked'
    BY <1>4, WokenAsked DEF ReadRaises
  <2>2. Backed'
    BY <1>4 DEF ReadRaises, NoReading, upstreamSide, Backed, Shaped, GoodIsLatest, ReadingBacked,
                PassingBacked, StatesBacked, Stood, Free, Times, Never
  <2> QED
    BY <2>1, <2>2
<1> QED
  BY <1>1, <1>2, <1>3, <1>4

\* A call asks, or goes on when the read is over: the catalogue stands as it is.
LEMMA CallKeeps ==
  ASSUME PcInv, NEW c \in PcCalls,
         \/ \E labels \in (SUBSET PcLabels) \ {{}} : PcAsk(c, labels)
         \/ PcResumes(c)
  PROVE  PcInv'
<1>0. Asked /\ Backed
  BY DEF PcInv, Backed
<1>1. ASSUME NEW labels, Answered(c, labels) PROVE Asked'
  <2>1. PICK v \in {"admitted", "changed", "not offered"} : checks' = [checks EXCEPT ![c] = Over(v)]
    BY <1>1 DEF Answered
  <2> QED
    BY <1>0, <2>1, OverIsCall DEF Asked, Settled
<1>2. Asked'
  <2>1. ASSUME NEW labels \in (SUBSET PcLabels) \ {{}}, PcAsk(c, labels) PROVE Asked'
    <3>1. CASE Answered(c, labels)
      BY <1>1, <3>1
    <3>2. CASE checks' = [checks EXCEPT ![c] = [status |-> "queued", labels |-> labels,
                                                since |-> clock, failed |-> FALSE]]
      <4> DEFINE queued == [status |-> "queued", labels |-> labels, since |-> clock, failed |-> FALSE]
      <4>1. PcRecord(queued)
        BY DEF PcRecord, Statuses
      <4> HIDE DEF queued
      <4> QED
        BY <1>0, <3>2, <4>1 DEF Asked, queued
    <3> QED
      BY <2>1, <3>1, <3>2 DEF PcAsk
  <2>2. CASE PcResumes(c)
    BY <1>1, <2>2 DEF PcResumes
  <2> QED
    BY <2>1, <2>2
<1>3. UNCHANGED <<clock, upstream, lastGood, states, reading, passing>>
  BY DEF PcAsk, PcResumes, upstreamSide
<1>4. Backed'
  BY <1>0, <1>3 DEF Backed, Shaped, GoodIsLatest, ReadingBacked, PassingBacked, StatesBacked,
                    Stood, Free
<1> QED
  BY <1>2, <1>4 DEF PcInv, Backed

\* The lock is one call's until its read is over.
LEMMA ReaderKeeps == PcInv /\ OneReader /\ [PcNext]_pcVars => OneReader'
<1> SUFFICES ASSUME PcInv, OneReader, [PcNext]_pcVars, NEW c \in PcCalls,
                    checks'[c].status = "reading"
             PROVE  reading'.by = c
  BY DEF OneReader
<1>0. /\ DOMAIN checks = PcCalls /\ \A d \in PcCalls : PcRecord(checks[d])
      /\ reading = [by |-> reading.by, since |-> reading.since, seen |-> reading.seen,
                    partial |-> reading.partial]
  BY DEF PcInv, Asked, Shaped
<1>1. CASE checks[c].status = "reading" /\ reading'.by = reading.by
  BY <1>1 DEF OneReader
<1>2. ASSUME NEW d \in PcCalls, ReadBegins(d) PROVE reading'.by = c
  <2>1. reading'.by = d
    BY <1>2, Unread DEF ReadBegins
  <2>2. c = d
    <3>1. SUFFICES ASSUME c # d PROVE FALSE
      OBVIOUS
    <3>2. checks[c].status = "reading"
      BY <1>0, <1>2, <3>1 DEF ReadBegins
    <3> QED
      BY <1>2, <3>2, PyCatalogueAssumption DEF ReadBegins, Free, OneReader
  <2> QED
    BY <2>1, <2>2
<1>3. ASSUME NEW how \in {"woken", "raised"}, checks' = Woken(how) PROVE FALSE
  <2>1. CASE checks[c].status \in {"queued", "reading"}
    BY <1>3, <2>1, OverIsCall DEF Woken, Over
  <2>2. CASE checks[c].status \notin {"queued", "reading"}
    BY <1>3, <2>2 DEF Woken
  <2> QED
    BY <2>1, <2>2
<1>4. ASSUME NEW d \in PcCalls, NEW labels, Answered(d, labels) PROVE checks[c].status = "reading"
  <2>1. PICK v \in {"admitted", "changed", "not offered"} : checks' = [checks EXCEPT ![d] = Over(v)]
    BY <1>4 DEF Answered
  <2>2. Over(v).status = v
    BY OverIsCall DEF Settled
  <2> QED
    BY <1>0, <2>1, <2>2
<1>5. ASSUME NEW d \in PcCalls, NEW labels, PcAsk(d, labels) PROVE reading'.by = c
  <2>1. checks[c].status = "reading"
    <3>1. CASE Answered(d, labels)
      BY <1>4, <3>1
    <3>2. CASE checks' = [checks EXCEPT ![d] = [status |-> "queued", labels |-> labels,
                                                since |-> clock, failed |-> FALSE]]
      BY <1>0, <3>2
    <3> QED
      BY <1>5, <3>1, <3>2 DEF PcAsk
  <2> QED
    BY <1>1, <1>5, <2>1 DEF PcAsk
<1>6. ASSUME NEW d \in PcCalls, PcResumes(d) PROVE reading'.by = c
  BY <1>1, <1>4, <1>6 DEF PcResumes
<1>7. ASSUME NEW l \in PcLabels, PageReads(l) PROVE reading'.by = c
  <2>1. reading'.by = reading.by
    BY <1>0, <1>7 DEF PageReads
  <2> QED
    BY <1>1, <1>7, <2>1 DEF PageReads
<1>8. CASE UNCHANGED <<reading, checks>>
  BY <1>1, <1>8
<1> QED
  BY <1>2, <1>3, <1>5, <1>6, <1>7, <1>8
     DEF PcNext, pcVars, PcTick, PcUpstreamChanges, PcItemLeaves, ItemPasses, ReadEnds, ReadRaises

\* Every step keeps the invariant.
LEMMA PcStepKeeps == PcInv /\ [PcNext]_pcVars => PcInv'
<1> SUFFICES ASSUME PcInv, [PcNext]_pcVars PROVE PcInv'
  OBVIOUS
<1>1. CASE UNCHANGED pcVars
  BY <1>1 DEF pcVars, upstreamSide, PcInv, Shaped, Asked, GoodIsLatest, ReadingBacked,
              PassingBacked, StatesBacked, Stood, Free
<1>2. CASE PcNext
  BY <1>2, TimeKeeps, PassingKeeps, ReadKeeps, CallKeeps DEF PcNext
<1> QED
  BY <1>1, <1>2

\* The invariant holds always.
THEOREM PcInvariance == PcSpec => [](PcInv /\ OneReader)
<1>1. PcInit => OneReader
  BY OverIsCall DEF PcInit, OneReader, Settled
<1> QED
  BY PcStarts, PcStepKeeps, ReaderKeeps, <1>1, PTL DEF PcSpec

-----------------------------------------------------------------------------
(* The refinement. To the gate, a call asks when it queues and is answered *)
(* when its status is settled.                                             *)

\* What an answered or refused call says to the gate.
Says(verdict) == IF verdict = "admitted" THEN "admitted" ELSE "refused"

\* A call that is over was answered, and asks no more.
LEMMA EndingMaps ==
  ASSUME Asked, NEW c \in PcCalls, NEW verdict \in Settled \ {"idle"},
         checks' = [checks EXCEPT ![c] = Over(verdict)]
  PROVE  /\ PcAsking' = [PcAsking EXCEPT ![c] = {}]
         /\ PcAnswer' = [PcAnswer EXCEPT ![c] = Says(verdict)]
<1>1. Over(verdict).status = verdict
  BY OverIsCall
<1>2. DOMAIN checks = PcCalls
  BY DEF Asked
<1>3. ASSUME NEW d \in PcCalls PROVE checks'[d] = IF d = c THEN Over(verdict) ELSE checks[d]
  BY <1>2
<1>4. PcAsking' = [PcAsking EXCEPT ![c] = {}]
  <2>1. ASSUME NEW d \in PcCalls PROVE PcAsking'[d] = IF d = c THEN {} ELSE PcAsking[d]
    BY <1>1, <1>3 DEF PcAsking
  <2> QED
    BY <2>1 DEF PcAsking
<1>5. PcAnswer' = [PcAnswer EXCEPT ![c] = Says(verdict)]
  <2>1. ASSUME NEW d \in PcCalls
        PROVE  PcAnswer'[d] = IF d = c THEN Says(verdict) ELSE PcAnswer[d]
    BY <1>1, <1>3 DEF PcAnswer, Says, Settled
  <2> QED
    BY <2>1 DEF PcAnswer
<1> QED
  BY <1>4, <1>5

\* A label that is verified stood upstream one reading before its note at the earliest.
LEMMA VerifiedStood ==
  ASSUME PcInv, NEW l \in PcLabels, Verified(l)
  PROVE  lastGood[l] # Never /\ clock - lastGood[l] < VerifiedFor + PcLimit
<1>1. states[l].was = "recorded" /\ clock - states[l].at < VerifiedFor
  BY DEF Verified
<1>2. states[l].at \in Nat /\ Stood(l, states[l].at - PcLimit)
  BY <1>1 DEF PcInv, StatesBacked
<1>3. clock \in Nat /\ lastGood[l] \in Nat \cup {-1}
  BY DEF PcInv, Shaped, Times, Never
<1>4. lastGood[l] # -1 /\ lastGood[l] >= states[l].at - PcLimit
  BY <1>2 DEF Stood, Never
<1>5. ASSUME NEW t \in Nat, NEW g \in Nat, NEW a \in Nat, t - a < VerifiedFor, g >= a - PcLimit
      PROVE  t - g < VerifiedFor + PcLimit
  BY <1>5, PyCatalogueAssumption
<1>6. lastGood[l] \in Nat
  BY <1>3, <1>4
<1> QED
  BY <1>1, <1>2, <1>3, <1>4, <1>5, <1>6 DEF Never

\* What a call reads of the record when it is judged: an admission vouches for its labels.
LEMMA VerdictMaps ==
  ASSUME PcInv, NEW c \in PcCalls, NEW labels \in SUBSET PcLabels, Answered(c, labels),
         UNCHANGED <<clock, upstream, lastGood>>
  PROVE  PcGate!Answers(c, labels) /\ PcAsking' = [PcAsking EXCEPT ![c] = {}]
<1> DEFINE bad == {l \in labels : ~Verified(l)}
<1>1. PICK verdict \in IF bad = {} THEN {"admitted"}
                       ELSE {IF states[l] # NoState THEN "changed" ELSE "not offered" : l \in bad} :
         checks' = [checks EXCEPT ![c] = Over(verdict)]
  BY DEF Answered
<1>2. verdict \in {"admitted", "changed", "not offered"}
  BY <1>1
<1>3. /\ PcAsking' = [PcAsking EXCEPT ![c] = {}]
      /\ PcAnswer' = [PcAnswer EXCEPT ![c] = Says(verdict)]
  BY <1>1, <1>2, EndingMaps DEF PcInv, Settled
<1>4. ASSUME verdict = "admitted" PROVE PcGate!Vouched(labels)
  <2>1. bad = {}
    BY <1>1, <1>4
  <2>2. ASSUME NEW l \in labels \cap PcLabels
        PROVE  lastGood[l] # Never /\ clock - lastGood[l] < VerifiedFor + PcLimit
    <3>1. l \in PcLabels /\ Verified(l)
      BY <2>1
    <3> QED
      BY <3>1, VerifiedStood
  <2>3. lastGood' = lastGood /\ clock' = clock
    OBVIOUS
  <2> QED
    BY <2>2, <2>3 DEF PcGate!Vouched, PcGate!Never, Never
<1> QED
  BY <1>2, <1>3, <1>4 DEF PcGate!Answers, Says

\* The end of a read is no answer, except to a reader whose read raised.
LEMMA WakingMaps ==
  ASSUME Asked, NEW how \in {"woken", "raised"}, checks' = Woken(how),
         NEW c \in PcCalls
  PROVE  /\ PcAsking'[c] = IF how = "raised" /\ checks[c].status = "reading" THEN {} ELSE PcAsking[c]
         /\ PcAnswer'[c] = IF how = "raised" /\ checks[c].status = "reading" THEN "refused" ELSE PcAnswer[c]
<1>1. CASE checks[c].status = "queued" \/ (checks[c].status = "reading" /\ how = "woken")
  <2>1. checks'[c] = GoOn(checks[c], "woken", reading.partial \/ how = "raised")
    BY <1>1 DEF Woken, GoOn
  <2>2. checks[c].labels # {} /\ PcRecord(checks[c])
    BY <1>1 DEF Asked, PcRecord, Settled
  <2>3. checks'[c].status = "woken" /\ checks'[c].labels = checks[c].labels
    BY <2>1, <2>2, GoesOn DEF Statuses
  <2> QED
    BY <1>1, <2>3 DEF PcAsking, PcAnswer, Settled
<1>2. CASE checks[c].status = "reading" /\ how = "raised"
  <2>1. checks'[c].status = "raised"
    BY <1>2, OverIsCall DEF Woken, Settled
  <2> QED
    BY <1>2, <2>1 DEF PcAsking, PcAnswer, Settled
<1>3. CASE checks[c].status \notin {"queued", "reading"}
  <2>1. checks'[c] = checks[c]
    BY <1>3 DEF Woken
  <2> QED
    BY <1>3, <2>1 DEF PcAsking, PcAnswer
<1> QED
  BY <1>1, <1>2, <1>3

\* At the start nobody has asked.
LEMMA PcInitMaps == PcInit => PcGate!Init
<1> SUFFICES ASSUME PcInit PROVE PcGate!Init
  OBVIOUS
<1>1. ASSUME NEW c \in PcCalls PROVE checks[c].status = "idle"
  BY OverIsCall DEF PcInit, Settled
<1>2. PcAsking = [c \in PcCalls |-> {}] /\ PcAnswer = [c \in PcCalls |-> "none"]
  BY <1>1 DEF PcAsking, PcAnswer, Settled
<1> QED
  BY <1>2 DEF PcInit, PcGate!Init, PcGate!Never, Never, Standings, PcGate!Definitions

\* A call that begins to wait asks the gate.
LEMMA QueuesMaps ==
  ASSUME PcInv, NEW c \in PcCalls, NEW labels \in (SUBSET PcLabels) \ {{}}, PcAsk(c, labels)
  PROVE  PcGate!Next
<1>1. /\ checks[c].status \in Settled /\ DOMAIN checks = PcCalls
      /\ UNCHANGED <<clock, upstream, lastGood>>
  BY DEF PcAsk, PcInv, Asked, upstreamSide
<1>2. PcAsking[c] = {}
  BY <1>1 DEF PcAsking
<1>3. CASE Answered(c, labels)
  <2>1. PcGate!Answers(c, labels) /\ PcAsking' = [PcAsking EXCEPT ![c] = {}]
    BY <1>1, <1>3, VerdictMaps
  <2>2. UNCHANGED PcAsking
    BY <1>2, <2>1 DEF PcAsking
  <2>3. PcGate!AnswerAtOnce(c, labels)
    BY <1>1, <1>2, <2>1, <2>2 DEF PcGate!AnswerAtOnce
  <2> QED
    BY <2>3 DEF PcGate!Next
<1>4. CASE checks' = [checks EXCEPT ![c] = [status |-> "queued", labels |-> labels,
                                            since |-> clock, failed |-> FALSE]]
  <2>1. ASSUME NEW d \in PcCalls
        PROVE  /\ PcAsking'[d] = IF d = c THEN labels ELSE PcAsking[d]
               /\ PcAnswer'[d] = IF d = c THEN "none" ELSE PcAnswer[d]
    <3>1. CASE d = c
      <4>1. checks'[d].status = "queued" /\ checks'[d].labels = labels
        BY <1>1, <1>4, <3>1
      <4> QED
        BY <3>1, <4>1 DEF PcAsking, PcAnswer, Settled
    <3>2. CASE d # c
      <4>1. checks'[d] = checks[d]
        BY <1>1, <1>4, <3>2
      <4> QED
        BY <3>2, <4>1 DEF PcAsking, PcAnswer
    <3> QED
      BY <3>1, <3>2
  <2>2. PcAsking' = [PcAsking EXCEPT ![c] = labels] /\ PcAnswer' = [PcAnswer EXCEPT ![c] = "none"]
    BY <2>1 DEF PcAsking, PcAnswer
  <2>3. PcGate!Ask(c, labels)
    BY <1>1, <1>2, <2>2 DEF PcGate!Ask
  <2> QED
    BY <2>3 DEF PcGate!Next
<1> QED
  BY <1>3, <1>4 DEF PcAsk

\* A call judged after the read it waited for is answered.
LEMMA ResumesMaps ==
  ASSUME PcInv, NEW c \in PcCalls, PcResumes(c)
  PROVE  PcGate!Next
<1>1. /\ checks[c].status = "woken" /\ Answered(c, checks[c].labels)
      /\ UNCHANGED <<clock, upstream, lastGood>>
  BY DEF PcResumes, upstreamSide
<1>2. checks[c].labels \in SUBSET PcLabels /\ checks[c].labels # {}
  BY <1>1 DEF PcInv, Asked, PcRecord, Settled
<1>3. PcAsking[c] = checks[c].labels
  BY <1>1 DEF PcAsking, Settled
<1>4. PcGate!Answers(c, checks[c].labels) /\ PcAsking' = [PcAsking EXCEPT ![c] = {}]
  BY <1>1, <1>2, VerdictMaps
<1>5. PcGate!Answer(c)
  BY <1>1, <1>2, <1>3, <1>4 DEF PcGate!Answer
<1> QED
  BY <1>5 DEF PcGate!Next

\* A read that raises refuses the call that began it, and only that one.
LEMMA RaisesMaps ==
  ASSUME PcInv, OneReader, ReadRaises
  PROVE  [PcGate!Next]_(PcGate!vars)
<1>1. /\ checks' = Woken("raised") /\ Asked
      /\ UNCHANGED <<clock, upstream, lastGood>>
  BY DEF ReadRaises, PcInv, upstreamSide
<1>2. ASSUME NEW c \in PcCalls
      PROVE  /\ PcAsking'[c] = IF checks[c].status = "reading" THEN {} ELSE PcAsking[c]
             /\ PcAnswer'[c] = IF checks[c].status = "reading" THEN "refused" ELSE PcAnswer[c]
  BY <1>1, WakingMaps
<1>3. CASE \A c \in PcCalls : checks[c].status # "reading"
  <2>1. UNCHANGED <<PcAsking, PcAnswer>>
    BY <1>2, <1>3 DEF PcAsking, PcAnswer
  <2> QED
    BY <1>1, <2>1 DEF PcGate!vars
<1>4. ASSUME NEW c \in PcCalls, checks[c].status = "reading" PROVE PcGate!Next
  <2>1. ASSUME NEW d \in PcCalls, d # c PROVE checks[d].status # "reading"
    BY <1>4, <2>1 DEF OneReader
  <2>2. /\ PcAsking' = [PcAsking EXCEPT ![c] = {}]
        /\ PcAnswer' = [PcAnswer EXCEPT ![c] = "refused"]
    BY <1>2, <1>4, <2>1 DEF PcAsking, PcAnswer
  <2>3. PcAsking[c] # {}
    BY <1>1, <1>4 DEF PcAsking, Asked, PcRecord, Settled
  <2>4. PcGate!Answer(c)
    BY <1>1, <2>2, <2>3 DEF PcGate!Answer, PcGate!Answers
  <2> QED
    BY <2>4 DEF PcGate!Next
<1> QED
  BY <1>3, <1>4

\* Every step of the proxy is one of the gate, or invisible to it.
LEMMA PcNextMaps == PcInv /\ OneReader /\ [PcNext]_pcVars => [PcGate!Next]_(PcGate!vars)
<1> SUFFICES ASSUME PcInv, OneReader, [PcNext]_pcVars PROVE [PcGate!Next]_(PcGate!vars)
  OBVIOUS
<1>1. ASSUME UNCHANGED checks PROVE UNCHANGED <<PcAsking, PcAnswer>>
  BY <1>1 DEF PcAsking, PcAnswer
<1>2. CASE PcTick
  BY <1>1, <1>2 DEF PcTick, PcGate!Next, PcGate!Tick, PcGate!Passes
<1>3. ASSUME NEW l \in PcLabels, NEW d \in Standings, PcUpstreamChanges(l, d) PROVE PcGate!Next
  BY <1>1, <1>3 DEF PcUpstreamChanges, PcGate!Next, PcGate!Change, Standings, PcGate!Definitions
<1>4. CASE UNCHANGED <<clock, upstream, lastGood, checks>>
  BY <1>1, <1>4 DEF PcGate!vars
<1>5. ASSUME NEW c \in PcCalls, ReadBegins(c) PROVE UNCHANGED PcGate!vars
  <2>1. /\ checks' = [checks EXCEPT ![c].status = "reading"] /\ checks[c].status = "queued"
        /\ UNCHANGED <<clock, upstream, lastGood>>
    BY <1>5 DEF ReadBegins, upstreamSide
  <2>2. DOMAIN checks = PcCalls /\ PcRecord(checks[c])
    BY DEF PcInv, Asked
  <2>3. checks'[c].status = "reading" /\ checks'[c].labels = checks[c].labels
    BY <2>1, <2>2 DEF PcRecord
  <2>4. ASSUME NEW d \in PcCalls, d # c PROVE checks'[d] = checks[d]
    BY <2>1, <2>2, <2>4
  <2>5. ASSUME NEW d \in PcCalls PROVE PcAsking'[d] = PcAsking[d] /\ PcAnswer'[d] = PcAnswer[d]
    <3>1. CASE d = c
      BY <2>1, <2>3, <3>1 DEF PcAsking, PcAnswer, Settled
    <3>2. CASE d # c
      <4>1. checks'[d] = checks[d]
        BY <2>4, <3>2
      <4> QED
        BY <4>1 DEF PcAsking, PcAnswer
    <3> QED
      BY <3>1, <3>2
  <2>6. UNCHANGED <<PcAsking, PcAnswer>>
    BY <2>5 DEF PcAsking, PcAnswer
  <2> QED
    BY <2>1, <2>6 DEF PcGate!vars
<1>6. CASE ReadEnds
  <2>1. checks' = Woken("woken") /\ Asked /\ UNCHANGED <<clock, upstream, lastGood>>
    BY <1>6 DEF ReadEnds, PcInv, upstreamSide
  <2>2. ASSUME NEW c \in PcCalls PROVE PcAsking'[c] = PcAsking[c] /\ PcAnswer'[c] = PcAnswer[c]
    BY <2>1, WakingMaps
  <2>3. UNCHANGED <<PcAsking, PcAnswer>>
    BY <2>2 DEF PcAsking, PcAnswer
  <2> QED
    BY <2>1, <2>3 DEF PcGate!vars
<1> QED
  BY <1>2, <1>3, <1>4, <1>5, <1>6, QueuesMaps, ResumesMaps, RaisesMaps
     DEF PcNext, pcVars, upstreamSide, PcItemLeaves, ItemPasses, PageReads

\* The Python proxy implements the same gate as the TypeScript record, for any labels, calls and
\* limits: what it admits stood upstream within the window, whatever overlaps
\* (proxy.py:647-728).
THEOREM PcImplementsRecordGate == PcSpec => PcImplementsGate
  BY PcInvariance, PcInitMaps, PcNextMaps, PTL DEF PcSpec, PcGate!Spec, PcImplementsGate

-----------------------------------------------------------------------------
(* The shape of the state, and what a refusal rests on.                    *)

\* The record of a request, and of a reading.
PcRequest == [status : Statuses, labels : SUBSET PcLabels, since : 0..PcMaxNow, failed : BOOLEAN]
PcReading == [by : PcCalls \cup {Nobody}, since : 0..PcMaxNow,
              seen : [PcLabels -> Standings \cup {"unread"}], partial : BOOLEAN]

\* Who reads is waiting for the read, and the reverse.
ReaderReads == \A c \in PcCalls : checks[c].status = "reading" <=> reading.by = c

\* How a request's record changes: it is over, it goes on, or a read ends what it waits for.
LEMMA PcRequests ==
  /\ \A status \in Settled : Over(status) \in PcRequest /\ Over(status).status = status
  /\ \A r \in PcRequest, status \in Statuses, failed \in BOOLEAN :
       [status |-> status, labels |-> r.labels, since |-> r.since, failed |-> failed] \in PcRequest
  /\ \A labels \in SUBSET PcLabels, since \in 0..PcMaxNow :
       [status |-> "queued", labels |-> labels, since |-> since, failed |-> FALSE] \in PcRequest
  BY PyCatalogueAssumption DEF PcRequest, Over, Statuses

\* A reading that has not begun, and one that begins.
LEMMA PcReadings ==
  /\ NoReading \in PcReading /\ NoReading.by = Nobody
  /\ \A c \in PcCalls, t \in 0..PcMaxNow :
       /\ [NoReading EXCEPT !.by = c, !.since = t] \in PcReading
       /\ [NoReading EXCEPT !.by = c, !.since = t].by = c
<1>1. NoReading \in PcReading /\ NoReading.by = Nobody
  BY PyCatalogueAssumption DEF NoReading, PcReading
<1>2. ASSUME NEW c \in PcCalls, NEW t \in 0..PcMaxNow
      PROVE  /\ [NoReading EXCEPT !.by = c, !.since = t] \in PcReading
             /\ [NoReading EXCEPT !.by = c, !.since = t].by = c
  BY DEF NoReading, PcReading
<1>3. QED
  BY <1>1, <1>2

\* Every step keeps the shape of the state, and who reads in step with who is said to.
LEMMA PcShapes == PcTypeOK /\ [PcNext]_pcVars => PcTypeOK'
<1> SUFFICES ASSUME PcTypeOK, [PcNext]_pcVars PROVE PcTypeOK'
  OBVIOUS
<1> DEFINE Held ==
      /\ clock \in 0..PcMaxNow /\ upstream \in [PcLabels -> Standings]
      /\ lastGood \in [PcLabels -> Never..PcMaxNow] /\ lastBad \in [PcLabels -> Never..PcMaxNow]
      /\ states \in [PcLabels -> [was : Standings, at : Never..PcMaxNow]]
      /\ passing \subseteq [label : PcLabels, was : Standings, at : 0..PcMaxNow]
<1>1. PcTypeOK <=> /\ Held /\ reading \in PcReading /\ checks \in [PcCalls -> PcRequest] /\ ReaderReads
  BY DEF PcTypeOK, PcReading, PcRequest, ReaderReads, Statuses
<1>2. PcTypeOK' <=> /\ Held' /\ reading' \in PcReading /\ checks' \in [PcCalls -> PcRequest] /\ ReaderReads'
  BY DEF PcTypeOK, PcReading, PcRequest, ReaderReads, Statuses
<1>3. Held /\ reading \in PcReading /\ checks \in [PcCalls -> PcRequest] /\ ReaderReads
  BY <1>1
<1>4. SUFFICES Held' /\ reading' \in PcReading /\ checks' \in [PcCalls -> PcRequest] /\ ReaderReads'
  BY <1>2
<1>5. clock \in 0..PcMaxNow /\ clock \in Never..PcMaxNow /\ Never \in Never..PcMaxNow
  BY <1>3, PyCatalogueAssumption DEF Never
<1>6. ASSUME NEW l \in PcLabels, NEW was \in Standings
      PROVE  Noted(l, was) \in [PcLabels -> [was : Standings, at : Never..PcMaxNow]]
  BY <1>3, <1>5 DEF Noted
<1>7. ASSUME NEW c \in PcCalls, NEW labels, Answered(c, labels), checks[c].status # "reading"
      PROVE  /\ checks' \in [PcCalls -> PcRequest]
             /\ \A d \in PcCalls : checks'[d].status = "reading" <=> checks[d].status = "reading"
  <2>1. PICK verdict \in Settled : checks' = [checks EXCEPT ![c] = Over(verdict)]
    BY <1>7 DEF Answered, Settled
  <2>2. Over(verdict) \in PcRequest /\ Over(verdict).status # "reading"
    BY PcRequests DEF Settled
  <2> QED
    BY <1>3, <1>7, <2>1, <2>2
<1>8. ASSUME NEW how \in {"woken", "raised"}, checks' = Woken(how)
      PROVE  checks' \in [PcCalls -> PcRequest] /\ \A c \in PcCalls : checks'[c].status # "reading"
  <2> DEFINE failed == reading.partial \/ how = "raised"
  <2>1. failed \in BOOLEAN
    OBVIOUS
  <2>2. ASSUME NEW c \in PcCalls
        PROVE  Woken(how)[c] \in PcRequest /\ Woken(how)[c].status # "reading"
    <3>1. checks[c] \in PcRequest
      BY <1>3
    <3>2. CASE checks[c].status = "queued" \/ (checks[c].status = "reading" /\ how = "woken")
      <4>1. Woken(how)[c] = [status |-> "woken", labels |-> checks[c].labels, since |-> checks[c].since,
                             failed |-> failed]
        BY <3>2 DEF Woken
      <4>2. "woken" \in Statuses
        BY DEF Statuses
      <4> HIDE DEF failed
      <4>3. QED
        BY <2>1, <3>1, <4>1, <4>2, PcRequests
    <3>3. CASE checks[c].status = "reading" /\ how = "raised"
      <4>1. Woken(how)[c] = Over(how)
        BY <3>3 DEF Woken
      <4>2. QED
        BY <3>3, <4>1, PcRequests DEF Settled
    <3>4. CASE checks[c].status \notin {"queued", "reading"}
      <4>1. Woken(how)[c] = checks[c]
        BY <3>4 DEF Woken
      <4>2. QED
        BY <3>1, <3>4, <4>1
    <3> QED
      BY <3>2, <3>3, <3>4
  <2> QED
    BY <1>8, <2>2 DEF Woken
<1> HIDE DEF Held
<1>10. CASE PcTick
  <2>1. Held'
    BY <1>3, <1>10, PyCatalogueAssumption DEF PcTick, Held, Never
  <2> QED
    BY <1>3, <1>10, <2>1 DEF PcTick, ReaderReads
<1>11. ASSUME NEW l \in PcLabels, NEW d \in Standings, PcUpstreamChanges(l, d)
       PROVE  Held' /\ reading' = reading /\ checks' = checks
  BY <1>3, <1>5, <1>11 DEF PcUpstreamChanges, Held
<1>12. ASSUME NEW l \in PcLabels, PcItemLeaves(l)
       PROVE  Held' /\ reading' = reading /\ checks' = checks
  BY <1>3, <1>5, <1>12 DEF PcItemLeaves, Held, upstreamSide
<1>13. ASSUME NEW l \in PcLabels, PageReads(l)
       PROVE  Held' /\ reading' \in PcReading /\ checks' = checks /\ reading'.by = reading.by
  <2>1. PICK was \in Standings :
          /\ reading' = [reading EXCEPT !.seen[l] = was, !.partial = @ \/ was # upstream[l]]
          /\ states' = IF was = "absent" THEN states ELSE Noted(l, was)
    BY <1>3, <1>13 DEF PageReads, Held, Standings
  <2>2. reading' \in PcReading /\ reading'.by = reading.by
    <3> DEFINE partial == reading.partial \/ was # upstream[l]
    <3>1. partial \in BOOLEAN
      OBVIOUS
    <3>2. reading' = [reading EXCEPT !.seen[l] = was, !.partial = partial]
      BY <2>1
    <3> HIDE DEF partial
    <3> QED
      BY <1>3, <3>1, <3>2 DEF PcReading
  <2>3. Held'
    BY <1>3, <1>6, <1>13, <2>1 DEF PageReads, Held, upstreamSide
  <2> QED
    BY <1>13, <2>2, <2>3 DEF PageReads
<1>14. ASSUME NEW i \in passing, ItemPasses(i)
       PROVE  Held' /\ reading' = reading /\ checks' = checks
  <2>1. i.label \in PcLabels /\ i.was \in Standings
    BY <1>3 DEF Held
  <2> QED
    BY <1>3, <1>6, <1>14, <2>1 DEF ItemPasses, Held, upstreamSide
<1>15. ASSUME NEW c \in PcCalls, NEW labels \in SUBSET PcLabels, PcAsk(c, labels)
       PROVE  /\ Held' /\ reading' = reading /\ checks' \in [PcCalls -> PcRequest]
              /\ \A d \in PcCalls : checks'[d].status = "reading" <=> checks[d].status = "reading"
  <2>1. Held' /\ reading' = reading /\ checks[c].status # "reading"
    BY <1>3, <1>15 DEF PcAsk, Held, upstreamSide, Settled
  <2>2. CASE Answered(c, labels)
    BY <1>7, <2>1, <2>2
  <2>3. CASE checks' = [checks EXCEPT ![c] = [status |-> "queued", labels |-> labels, since |-> clock,
                                              failed |-> FALSE]]
    <3>1. [status |-> "queued", labels |-> labels, since |-> clock, failed |-> FALSE] \in PcRequest
      BY <1>5, PcRequests
    <3> QED
      BY <1>3, <2>1, <2>3, <3>1
  <2> QED
    BY <1>15, <2>1, <2>2, <2>3 DEF PcAsk
<1>16. CASE ReadEnds
  <2>1. Held' /\ reading' = NoReading
    BY <1>3, <1>5, <1>16 DEF ReadEnds, Held, upstreamSide, Stamped, NoState, PcReading, Standings
  <2>2. checks' \in [PcCalls -> PcRequest] /\ \A c \in PcCalls : checks'[c].status # "reading"
    BY <1>8, <1>16 DEF ReadEnds
  <2> QED
    BY <2>1, <2>2, PcReadings, PyCatalogueAssumption DEF ReaderReads
<1>17. CASE ReadRaises
  <2>1. Held' /\ reading' = NoReading
    BY <1>3, <1>17 DEF ReadRaises, Held, upstreamSide
  <2>2. checks' \in [PcCalls -> PcRequest] /\ \A c \in PcCalls : checks'[c].status # "reading"
    BY <1>8, <1>17 DEF ReadRaises
  <2> QED
    BY <2>1, <2>2, PcReadings, PyCatalogueAssumption DEF ReaderReads
<1>18. ASSUME NEW c \in PcCalls, ReadBegins(c)
       PROVE  Held' /\ reading' \in PcReading /\ checks' \in [PcCalls -> PcRequest] /\ ReaderReads'
  <2>1. Held' /\ Free /\ reading' = [NoReading EXCEPT !.by = c, !.since = clock]
    BY <1>3, <1>18 DEF ReadBegins, Held, upstreamSide
  <2>2. reading' \in PcReading /\ reading'.by = c
    BY <1>5, <2>1, PcReadings
  <2>3. checks' = [checks EXCEPT ![c] = [status |-> "reading", labels |-> checks[c].labels,
                                         since |-> checks[c].since, failed |-> checks[c].failed]]
    <3>1. checks[c] \in PcRequest /\ checks' = [checks EXCEPT ![c].status = "reading"]
      BY <1>3, <1>18 DEF ReadBegins
    <3>2. \A r \in PcRequest : [r EXCEPT !.status = "reading"]
            = [status |-> "reading", labels |-> r.labels, since |-> r.since, failed |-> r.failed]
      BY DEF PcRequest
    <3>3. checks' = [checks EXCEPT ![c] = [checks[c] EXCEPT !.status = "reading"]]
      BY <3>1
    <3> QED
      BY <3>1, <3>2, <3>3
  <2>4. [status |-> "reading", labels |-> checks[c].labels, since |-> checks[c].since,
         failed |-> checks[c].failed] \in PcRequest
    BY <1>3 DEF PcRequest, Statuses
  <2>5. \A d \in PcCalls : checks[d].status # "reading"
    BY <1>3, <2>1, PyCatalogueAssumption DEF ReaderReads, Free
  <2>6. checks' \in [PcCalls -> PcRequest] /\ \A d \in PcCalls : checks'[d].status = "reading" <=> d = c
    BY <1>3, <2>3, <2>4, <2>5
  <2> QED
    BY <2>1, <2>2, <2>6 DEF ReaderReads
<1>19. ASSUME NEW c \in PcCalls, PcResumes(c)
       PROVE  /\ Held' /\ reading' = reading /\ checks' \in [PcCalls -> PcRequest]
              /\ \A d \in PcCalls : checks'[d].status = "reading" <=> checks[d].status = "reading"
  <2>1. Held' /\ reading' = reading /\ checks[c].status # "reading"
    BY <1>3, <1>19 DEF PcResumes, Held, upstreamSide
  <2> QED
    BY <1>7, <1>19, <2>1 DEF PcResumes
<1>20. CASE UNCHANGED pcVars
  BY <1>3, <1>20 DEF pcVars, upstreamSide, Held, ReaderReads
<1>21. CASE Held' /\ reading' \in PcReading /\ reading'.by = reading.by /\ checks' = checks
  BY <1>3, <1>21 DEF ReaderReads
<1>22. CASE /\ Held' /\ reading' = reading /\ checks' \in [PcCalls -> PcRequest]
            /\ \A d \in PcCalls : checks'[d].status = "reading" <=> checks[d].status = "reading"
  BY <1>3, <1>22 DEF ReaderReads
<1> QED
  BY <1>3, <1>10, <1>11, <1>12, <1>13, <1>14, <1>15, <1>16, <1>17, <1>18, <1>19, <1>20, <1>21, <1>22 DEF PcNext

\* The record starts in shape, with nobody reading.
LEMMA PcStartsShaped == PcInit => PcTypeOK
<1> SUFFICES ASSUME PcInit PROVE PcTypeOK
  OBVIOUS
<1> USE PyCatalogueAssumption
<1>1. /\ clock \in 0..PcMaxNow /\ upstream \in [PcLabels -> Standings] /\ passing = {}
      /\ lastGood \in [PcLabels -> Never..PcMaxNow] /\ lastBad \in [PcLabels -> Never..PcMaxNow]
      /\ states \in [PcLabels -> [was : Standings, at : Never..PcMaxNow]]
  BY DEF PcInit, Never, NoState, Standings
<1>2. reading \in PcReading /\ checks \in [PcCalls -> PcRequest] /\ ReaderReads
  BY PcReadings, PcRequests DEF PcInit, ReaderReads, Settled
<1> QED
  BY <1>1, <1>2 DEF PcTypeOK, PcReading, PcRequest, ReaderReads, Statuses

\* The shape of the Python proxy's record, always, and one reader of the upstream at most
\* (proxy.py:399-408).
THEOREM PcTypes == PcSpec => []PcTypeOK
  BY PcStartsShaped, PcShapes, PTL DEF PcSpec

-----------------------------------------------------------------------------
(* What a refusal rests on: somebody saw the label not as recorded, or not *)
(* at all, and that sight is followed to the record as a good one is.      *)

\* The label was not the recorded definition then or later.
Fell(l, time) == lastBad[l] # Never /\ lastBad[l] >= time

BadIsLatest ==
  \A l \in PcLabels : /\ lastBad[l] <= clock
                      /\ upstream[l] # "recorded" => lastBad[l] = clock
ReadingJudges ==
  ~Free /\ ~reading.partial =>
    \A l \in PcLabels : reading.seen[l] \in {"different", "absent"} => Fell(l, reading.since)
PassingJudges == \A i \in passing : i.was # "recorded" => Fell(i.label, i.at)

\* Once woken, a call is judged before anything is read again or a tick passes.
WokenJudged ==
  \A c \in PcCalls : checks[c].status = "woken" =>
    /\ Free
    /\ ~checks[c].failed =>
         \A l \in PcLabels : \/ states[l].was = "recorded" /\ states[l].at = clock
                             \/ Fell(l, clock - PcLimit)
AskedBefore == \A c \in PcCalls : checks[c].since <= clock
Caused == BadIsLatest /\ ReadingJudges /\ PassingJudges /\ WokenJudged /\ AskedBefore

\* What a refusal may rest on is in the history, and stays there as the upstream changes.
LEMMA FallKeeps ==
  ASSUME PcTypeOK, BadIsLatest,
         \/ PcTick
         \/ \E l \in PcLabels, d \in Standings : PcUpstreamChanges(l, d)
  PROVE  /\ BadIsLatest' /\ clock <= clock'
         /\ \A l \in PcLabels, time \in Int : Fell(l, time) => Fell(l, time)'
<1>1. CASE PcTick
  <2>1. /\ clock' = clock + 1 /\ upstream' = upstream
        /\ \A l \in PcLabels : lastBad'[l] = IF upstream[l] # "recorded" THEN clock + 1 ELSE lastBad[l]
    BY <1>1 DEF PcTick
  <2>2. \A l \in PcLabels : lastBad[l] \in Int /\ clock \in Int /\ clock >= 0
    BY DEF PcTypeOK, Never
  <2>3. BadIsLatest' /\ clock <= clock'
    BY <2>1, <2>2 DEF BadIsLatest, PcTypeOK
  <2>4. \A l \in PcLabels, time \in Int : Fell(l, time) => Fell(l, time)'
    BY <2>1, <2>2 DEF BadIsLatest, Fell, Never
  <2> QED
    BY <2>3, <2>4
<1>2. ASSUME NEW l \in PcLabels, NEW d \in Standings, PcUpstreamChanges(l, d)
      PROVE  /\ BadIsLatest' /\ clock <= clock'
             /\ \A k \in PcLabels, time \in Int : Fell(k, time) => Fell(k, time)'
  <2>1. /\ clock' = clock /\ \A k \in PcLabels : upstream'[k] = IF k = l THEN d ELSE upstream[k]
        /\ \A k \in PcLabels : lastBad'[k] = IF k = l /\ d # "recorded" THEN clock ELSE lastBad[k]
    BY <1>2 DEF PcUpstreamChanges, PcTypeOK
  <2>2. clock \in Int /\ clock >= 0 /\ \A k \in PcLabels : lastBad[k] \in Int
    BY DEF PcTypeOK, Never
  <2>3. BadIsLatest' /\ clock <= clock'
    BY <2>1, <2>2 DEF BadIsLatest
  <2>4. \A k \in PcLabels, time \in Int : Fell(k, time) => Fell(k, time)'
    BY <2>1, <2>2 DEF BadIsLatest, Fell, Never
  <2> QED
    BY <2>3, <2>4
<1> QED
  BY <1>1, <1>2

\* What becomes of the calls: one asks or begins to read, a read ends what they wait for, or one
\* is over. What was asked before now still was.
LEMMA CallsAskedBefore ==
  ASSUME PcTypeOK, AskedBefore,
         \/ \E c \in PcCalls, labels \in SUBSET PcLabels : PcAsk(c, labels)
         \/ \E c \in PcCalls : ReadBegins(c) \/ PcResumes(c)
         \/ ReadEnds \/ ReadRaises
  PROVE  AskedBefore'
<1>1. clock' = clock /\ clock \in Int /\ clock >= 0 /\ checks \in [PcCalls -> PcRequest]
  <2>1. clock' = clock
    BY DEF PcAsk, ReadBegins, PcResumes, ReadEnds, ReadRaises
  <2>2. clock \in Int /\ clock >= 0 /\ checks \in [PcCalls -> PcRequest]
    BY DEF PcTypeOK, PcRequest, Statuses
  <2> QED
    BY <2>1, <2>2
<1>2. \A status : Over(status).since = 0
  BY DEF Over
<1>3. ASSUME NEW c \in PcCalls, NEW labels, Answered(c, labels) PROVE AskedBefore'
  <2>1. PICK verdict : checks' = [checks EXCEPT ![c] = Over(verdict)]
    BY <1>3 DEF Answered
  <2> QED
    BY <1>1, <1>2, <2>1 DEF AskedBefore
<1>4. ASSUME NEW c \in PcCalls, NEW labels \in SUBSET PcLabels, PcAsk(c, labels) PROVE AskedBefore'
  <2>1. CASE Answered(c, labels)
    BY <1>3, <2>1
  <2>2. CASE checks' = [checks EXCEPT ![c] = [status |-> "queued", labels |-> labels, since |-> clock,
                                              failed |-> FALSE]]
    BY <1>1, <2>2 DEF AskedBefore
  <2> QED
    BY <1>4, <2>1, <2>2 DEF PcAsk
<1>5. ASSUME NEW c \in PcCalls, ReadBegins(c) PROVE AskedBefore'
  <2>1. checks' = [checks EXCEPT ![c].status = "reading"]
    BY <1>5 DEF ReadBegins
  <2>2. \A d \in PcCalls : checks'[d].since = checks[d].since
    BY <1>1, <2>1 DEF PcRequest
  <2> QED
    BY <1>1, <2>2 DEF AskedBefore
<1>6. ASSUME NEW how, checks' = Woken(how) PROVE AskedBefore'
  <2>1. \A d \in PcCalls : checks'[d].since \in {checks[d].since, 0}
    BY <1>2, <1>6 DEF Woken
  <2> QED
    BY <1>1, <2>1 DEF AskedBefore
<1> QED
  BY <1>3, <1>4, <1>5, <1>6 DEF PcResumes, ReadEnds, ReadRaises

\* A read that ends stamps every label with what it saw, now.
LEMMA StampJudges ==
  ASSUME PcTypeOK, PcInv, Caused, ReadEnds
  PROVE  WokenJudged'
<1>1. /\ ~Free /\ states' = Stamped /\ checks' = Woken("woken") /\ reading' = NoReading
      /\ clock' = clock /\ lastBad' = lastBad /\ \A l \in PcLabels : reading.seen[l] # "unread"
  BY DEF ReadEnds, upstreamSide
<1>2. Free'
  BY <1>1, PcReadings DEF Free
<1>3. \A l \in PcLabels : /\ reading.seen[l] \in Standings \cup {"unread"}
                          /\ lastBad[l] \in Int
                          /\ clock \in Int /\ reading.since \in Int
  BY DEF PcTypeOK, Never
<1>4. PcLimit \in Int /\ clock - reading.since <= PcLimit
  BY <1>1, PyCatalogueAssumption DEF PcInv, ReadingBacked
<1>5. ASSUME NEW c \in PcCalls, checks'[c].status = "woken", ~checks'[c].failed, NEW l \in PcLabels
      PROVE  (states[l].was = "recorded" /\ states[l].at = clock)' \/ Fell(l, clock - PcLimit)'
  <2>1. checks[c].status \in {"queued", "reading"} \/ checks'[c] = checks[c]
    BY <1>1 DEF Woken
  <2>2. checks[c].status # "woken"
    BY <1>1 DEF Caused, WokenJudged
  <2>3. checks'[c].failed = (reading.partial \/ "woken" = "raised")
    BY <1>1, <1>5, <2>1, <2>2 DEF Woken
  <2>4. ~reading.partial
    BY <1>5, <2>3
  <2>5. CASE reading.seen[l] = "recorded"
    BY <1>1, <2>5 DEF Stamped
  <2>6. CASE reading.seen[l] \in {"different", "absent"}
    <3>1. Fell(l, reading.since)
      BY <1>1, <2>4, <2>6 DEF Caused, ReadingJudges
    <3> QED
      BY <1>1, <1>3, <1>4, <3>1 DEF Fell
  <2> QED
    BY <1>1, <1>3, <2>5, <2>6 DEF Standings
<1> QED
  BY <1>2, <1>5 DEF WokenJudged

\* Every step keeps what refusals rest on.
LEMMA CausedKeeps == PcTypeOK /\ PcInv /\ Caused /\ [PcNext]_pcVars => Caused'
<1> SUFFICES ASSUME PcTypeOK, PcInv, Caused, [PcNext]_pcVars PROVE Caused'
  OBVIOUS
<1>1. BadIsLatest /\ ReadingJudges /\ PassingJudges /\ WokenJudged /\ AskedBefore
  BY DEF Caused
<1>2. /\ clock \in Int /\ clock >= 0 /\ PcLimit \in Int /\ reading.since \in Int
      /\ \A l \in PcLabels : lastBad[l] \in Int
      /\ \A i \in passing : i.label \in PcLabels /\ i.was \in Standings /\ i.at \in Int
      /\ \A c \in PcCalls : checks[c].since \in Int
      /\ checks \in [PcCalls -> PcRequest] /\ reading \in PcReading
  BY PyCatalogueAssumption DEF PcTypeOK, Never, PcRequest, PcReading, Statuses
<1>3. ASSUME PcTick \/ \E l \in PcLabels, d \in Standings : PcUpstreamChanges(l, d)
      PROVE  Caused'
  <2>1. /\ BadIsLatest' /\ clock <= clock'
        /\ \A l \in PcLabels, time \in Int : Fell(l, time) => Fell(l, time)'
    BY <1>1, <1>3, FallKeeps
  <2>2. reading' = reading /\ passing' = passing /\ checks' = checks /\ states' = states
    BY <1>3 DEF PcTick, PcUpstreamChanges
  <2>3. clock' \in Int
    BY <1>2, <1>3 DEF PcTick, PcUpstreamChanges
  <2>4. ReadingJudges' /\ PassingJudges' /\ AskedBefore'
    <3>1. ReadingJudges'
      <4>1. ASSUME NEW l \in PcLabels, Fell(l, reading.since) PROVE Fell(l, reading.since)'
        BY <1>2, <2>1, <2>2, <4>1 DEF Fell
      <4> QED
        BY <1>1, <2>2, <4>1 DEF ReadingJudges, Free
    <3>2. PassingJudges'
      <4>1. ASSUME NEW i \in passing, Fell(i.label, i.at) PROVE Fell(i.label, i.at)'
        BY <1>2, <2>1, <2>2, <4>1
      <4> QED
        BY <1>1, <2>2, <4>1 DEF PassingJudges
    <3>3. AskedBefore'
      BY <1>1, <1>2, <2>1, <2>2, <2>3 DEF AskedBefore
    <3> QED
      BY <3>1, <3>2, <3>3
  <2>5. WokenJudged'
    <3>1. CASE PcTick
      BY <2>2, <3>1 DEF PcTick, WokenJudged
    <3>2. CASE \E l \in PcLabels, d \in Standings : PcUpstreamChanges(l, d)
      <4>1. clock' = clock
        BY <3>2 DEF PcUpstreamChanges
      <4>2. \A l \in PcLabels : Fell(l, clock - PcLimit) => Fell(l, clock - PcLimit)'
        BY <1>2, <2>1, <4>1 DEF Fell
      <4> QED
        BY <1>1, <2>2, <4>1, <4>2 DEF WokenJudged, Free
    <3> QED
      BY <1>3, <3>1, <3>2
  <2> QED
    BY <2>1, <2>4, <2>5 DEF Caused
<1>4. ASSUME NEW l \in PcLabels, PcItemLeaves(l) PROVE Caused'
  <2>1. /\ passing' = {[label |-> l, was |-> upstream[l], at |-> clock]}
        /\ UNCHANGED <<clock, upstream, lastBad, states, reading, checks>>
    BY <1>4 DEF PcItemLeaves, upstreamSide
  <2>2. PassingJudges'
    BY <1>1, <1>2, <2>1 DEF PassingJudges, BadIsLatest, Fell, Never
  <2> QED
    BY <1>1, <2>1, <2>2 DEF Caused, BadIsLatest, ReadingJudges, WokenJudged, AskedBefore, Fell, Free
<1>5. ASSUME NEW l \in PcLabels, PageReads(l) PROVE Caused'
  <2>1. PICK was \in {upstream[l], "absent"} :
          reading' = [reading EXCEPT !.seen[l] = was, !.partial = @ \/ was # upstream[l]]
    BY <1>5 DEF PageReads
  <2>2. /\ ~Free /\ UNCHANGED <<clock, upstream, lastBad, passing, checks>>
    BY <1>5 DEF PageReads, upstreamSide
  <2>3. /\ reading'.by = reading.by /\ reading'.since = reading.since
        /\ reading'.partial = (reading.partial \/ was # upstream[l])
        /\ \A k \in PcLabels : reading'.seen[k] = IF k = l THEN was ELSE reading.seen[k]
    BY <1>2, <2>1 DEF PcReading
  <2>4. ReadingJudges'
    <3> SUFFICES ASSUME ~reading'.partial, NEW k \in PcLabels, reading'.seen[k] \in {"different", "absent"}
                 PROVE  Fell(k, reading.since)'
      BY DEF ReadingJudges
    <3>1. ~reading.partial /\ was = upstream[l]
      BY <2>3
    <3>2. CASE k = l
      <4>1. lastBad[l] = clock
        BY <1>1, <2>3, <3>1, <3>2 DEF BadIsLatest
      <4>2. reading.since <= clock
        BY <2>2 DEF PcInv, ReadingBacked
      <4> QED
        BY <1>2, <2>2, <2>3, <3>2, <4>1, <4>2 DEF Fell, Never
    <3>3. CASE k # l
      <4>1. Fell(k, reading.since)
        BY <1>1, <2>2, <2>3, <3>1, <3>3 DEF ReadingJudges
      <4> QED
        BY <2>2, <2>3, <4>1 DEF Fell
    <3> QED
      BY <3>2, <3>3
  <2>5. WokenJudged'
    BY <1>1, <2>2 DEF WokenJudged
  <2> QED
    BY <1>1, <2>2, <2>4, <2>5 DEF Caused, BadIsLatest, PassingJudges, AskedBefore, Fell
<1>6. ASSUME NEW i \in passing, ItemPasses(i) PROVE Caused'
  <2>1. /\ passing' = {} /\ states' = Noted(i.label, i.was)
        /\ UNCHANGED <<clock, upstream, lastBad, reading, checks>>
    BY <1>6 DEF ItemPasses, upstreamSide
  <2>2. \A l \in PcLabels : states'[l] = IF l = i.label THEN [was |-> i.was, at |-> clock] ELSE states[l]
    BY <2>1 DEF Noted, PcTypeOK
  <2>3. i.was # "recorded" => Fell(i.label, clock - PcLimit)
    <3>1. clock - i.at <= PcLimit
      BY DEF PcInv, PassingBacked
    <3>2. i.was # "recorded" => Fell(i.label, i.at)
      BY <1>1 DEF PassingJudges
    <3> QED
      BY <1>2, <3>1, <3>2 DEF Fell
  <2>4. WokenJudged'
    BY <1>1, <1>2, <2>1, <2>2, <2>3 DEF WokenJudged, Fell, Free
  <2> QED
    BY <1>1, <2>1, <2>4 DEF Caused, BadIsLatest, ReadingJudges, PassingJudges, AskedBefore, Fell, Free
<1>7. ASSUME NEW c \in PcCalls, NEW labels, Answered(c, labels),
             UNCHANGED <<clock, upstreamSide, states, reading, passing>>, AskedBefore'
      PROVE  Caused'
  <2>1. PICK verdict \in Settled : checks' = [checks EXCEPT ![c] = Over(verdict)]
    BY <1>7 DEF Answered, Settled
  <2>2. Over(verdict).status # "woken"
    BY PcRequests DEF Settled
  <2>3. \A d \in PcCalls : checks'[d].status = "woken" => checks'[d] = checks[d]
    BY <1>2, <2>1, <2>2
  <2> QED
    BY <1>1, <1>7, <2>3 DEF Caused, BadIsLatest, ReadingJudges, PassingJudges, WokenJudged, Fell, Free, upstreamSide
<1>8. ASSUME NEW c \in PcCalls, NEW labels \in SUBSET PcLabels, PcAsk(c, labels) PROVE Caused'
  <2>1. AskedBefore'
    BY <1>1, <1>8, CallsAskedBefore
  <2>2. UNCHANGED <<clock, upstreamSide, states, reading, passing>>
    BY <1>8 DEF PcAsk
  <2>3. CASE Answered(c, labels)
    BY <1>7, <2>1, <2>2, <2>3
  <2>4. CASE checks' = [checks EXCEPT ![c] = [status |-> "queued", labels |-> labels, since |-> clock,
                                              failed |-> FALSE]]
    <3>1. \A d \in PcCalls : checks'[d].status = "woken" => checks'[d] = checks[d]
      BY <1>2, <2>4
    <3> QED
      BY <1>1, <2>1, <2>2, <3>1
         DEF Caused, BadIsLatest, ReadingJudges, PassingJudges, WokenJudged, Fell, Free, upstreamSide
  <2> QED
    BY <1>8, <2>3, <2>4 DEF PcAsk
<1>9. ASSUME NEW c \in PcCalls, PcResumes(c) PROVE Caused'
  <2>1. AskedBefore'
    BY <1>1, <1>9, CallsAskedBefore
  <2> QED
    BY <1>7, <1>9, <2>1 DEF PcResumes
<1>10. ASSUME NEW c \in PcCalls, ReadBegins(c) PROVE Caused'
  <2>1. AskedBefore'
    BY <1>1, <1>10, CallsAskedBefore
  <2>2. /\ \A d \in PcCalls : checks[d].status # "woken"
        /\ reading' = [NoReading EXCEPT !.by = c, !.since = clock]
        /\ checks' = [checks EXCEPT ![c].status = "reading"]
        /\ UNCHANGED <<clock, upstream, lastBad, states, passing>>
    BY <1>10 DEF ReadBegins, upstreamSide
  <2>3. \A l \in PcLabels : reading'.seen[l] = "unread"
    BY <2>2 DEF NoReading
  <2>4. \A d \in PcCalls : checks'[d].status # "woken"
    BY <1>2, <2>2 DEF PcRequest
  <2> QED
    BY <1>1, <2>1, <2>2, <2>3, <2>4
       DEF Caused, BadIsLatest, ReadingJudges, PassingJudges, WokenJudged, Fell
<1>11. CASE ReadEnds
  <2>1. AskedBefore' /\ WokenJudged'
    BY <1>1, <1>11, CallsAskedBefore, StampJudges
  <2>2. Free' /\ UNCHANGED <<clock, upstream, lastBad, passing>>
    BY <1>11, PcReadings DEF ReadEnds, Free, upstreamSide
  <2> QED
    BY <1>1, <2>1, <2>2 DEF Caused, BadIsLatest, ReadingJudges, PassingJudges, Fell
<1>12. CASE ReadRaises
  <2>1. AskedBefore'
    BY <1>1, <1>12, CallsAskedBefore
  <2>2. Free' /\ UNCHANGED <<clock, upstream, lastBad, passing, states>> /\ checks' = Woken("raised") /\ ~Free
    BY <1>12, PcReadings DEF ReadRaises, Free, upstreamSide
  <2>3. \A c \in PcCalls : checks'[c].status = "woken" => checks'[c].failed
    <3> TAKE c \in PcCalls
    <3>1. checks[c].status # "woken"
      BY <1>1, <2>2 DEF WokenJudged
    <3>2. CASE checks[c].status = "queued"
      <4>1. checks'[c] = [status |-> "woken", labels |-> checks[c].labels, since |-> checks[c].since,
                          failed |-> TRUE]
        BY <2>2, <3>2 DEF Woken
      <4> QED
        BY <4>1
    <3>3. CASE checks[c].status # "queued"
      <4>1. checks'[c] \in {checks[c], Over("raised")}
        BY <2>2, <3>1, <3>3 DEF Woken
      <4> QED
        BY <3>1, <4>1, PcRequests DEF Settled
    <3> QED
      BY <3>2, <3>3
  <2>4. WokenJudged'
    BY <2>2, <2>3 DEF WokenJudged
  <2> QED
    BY <1>1, <2>1, <2>2, <2>4 DEF Caused, BadIsLatest, ReadingJudges, PassingJudges, Fell
<1>13. CASE UNCHANGED pcVars
  BY <1>1, <1>13 DEF pcVars, upstreamSide, Caused, BadIsLatest, ReadingJudges, PassingJudges, WokenJudged,
                     AskedBefore, Fell, Free
<1> QED
  BY <1>3, <1>4, <1>5, <1>6, <1>8, <1>9, <1>10, <1>11, <1>12, <1>13 DEF PcNext

\* What lies within k of now, and not after it, is within k of whatever was before now.
LEMMA Distance ==
  ASSUME NEW s \in Int, NEW n \in Int, NEW k \in Int, NEW b \in Int, s <= n, n - k <= b
  PROVE  s - b <= k
  OBVIOUS

\* The times in the state are integers.
LEMMA PcTimes ==
  ASSUME PcTypeOK
  PROVE  /\ clock \in Int /\ clock - clock = 0 /\ PcLimit \in Int /\ 0 < VerifiedFor
         /\ checks \in [PcCalls -> PcRequest]
         /\ \A l \in PcLabels : lastBad[l] \in Int
         /\ \A c \in PcCalls : checks[c].since \in Int
  BY PyCatalogueAssumption DEF PcTypeOK, PcRequest, Statuses, Never

\* A refusal has its cause: since one reading before the call asked, the upstream did not offer
\* some label it reaches as recorded, or its catalogue could not be read whole
\* (proxy.py:657-691, 719-795).
THEOREM RefusalsHaveCause == PcSpec => RefusedForCause
<1>1. PcInit => Caused
  <2> SUFFICES ASSUME PcInit PROVE Caused
    OBVIOUS
  <2>1. \A c \in PcCalls : checks[c].status = "idle" /\ checks[c].since = 0
    BY DEF PcInit, Over
  <2> QED
    BY <2>1 DEF PcInit, Caused, BadIsLatest, ReadingJudges, PassingJudges, WokenJudged, AskedBefore, Free,
                NoReading, Never
<1>2. PcTypeOK /\ PcInv /\ Caused /\ [PcNext]_pcVars
        => [\A c \in PcCalls :
              checks[c].status \in {"queued", "woken"} /\ checks'[c].status \in {"changed", "not offered"}
                /\ ~checks[c].failed =>
                \E l \in checks[c].labels :
                   lastBad[l] # Never /\ checks[c].since - lastBad[l] <= PcLimit]_pcVars
  <2> SUFFICES ASSUME PcTypeOK, PcInv, Caused, [PcNext]_pcVars, NEW c \in PcCalls,
                      checks[c].status \in {"queued", "woken"}, ~checks[c].failed,
                      checks'[c].status \in {"changed", "not offered"}
               PROVE  \E l \in checks[c].labels :
                         lastBad[l] # Never /\ checks[c].since - lastBad[l] <= PcLimit
    OBVIOUS
  <2>1. checks \in [PcCalls -> PcRequest]
    BY PcTimes
  <2>2. checks'[c] # checks[c]
    OBVIOUS
  <2>3. ASSUME NEW how, checks' = Woken(how) PROVE checks'[c].status = "woken"
    <3>1. CASE checks[c].status = "queued"
      BY <2>3, <3>1 DEF Woken
    <3>2. CASE checks[c].status = "woken"
      <4>1. checks'[c] = checks[c]
        BY <2>3, <3>2 DEF Woken
      <4> QED
        BY <2>2, <4>1
    <3> QED
      BY <3>1, <3>2
  <2>4. PcResumes(c)
    <3>1. ASSUME NEW d \in PcCalls, NEW labels, Answered(d, labels) PROVE d = c
      BY <2>1, <2>2, <3>1 DEF Answered
    <3>2. ASSUME NEW d \in PcCalls, NEW labels, PcAsk(d, labels) PROVE FALSE
      <4>1. checks[d].status \in Settled /\ d # c
        BY <3>2 DEF PcAsk, Settled
      <4>2. checks'[c] = checks[c]
        BY <2>1, <3>1, <3>2, <4>1 DEF PcAsk
      <4> QED
        BY <2>2, <4>2
    <3>3. ASSUME NEW d \in PcCalls, ReadBegins(d) PROVE FALSE
      <4>1. checks'[c] = checks[c] \/ checks'[c].status = "reading"
        BY <2>1, <3>3 DEF ReadBegins, PcRequest
      <4> QED
        BY <2>2, <4>1
    <3>4. ~ReadEnds /\ ~ReadRaises
      BY <2>3 DEF ReadEnds, ReadRaises
    <3>5. ASSUME NEW d \in PcCalls, PcResumes(d) PROVE PcResumes(c)
      BY <3>1, <3>5 DEF PcResumes
    <3>6. checks' # checks
      BY <2>2
    <3> QED
      BY <3>2, <3>3, <3>4, <3>5, <3>6
         DEF PcNext, pcVars, PcTick, PcUpstreamChanges, PcItemLeaves, PageReads, ItemPasses
  <2> DEFINE labels == checks[c].labels
  <2>5. checks[c].status = "woken" /\ Answered(c, labels) /\ labels \subseteq PcLabels
    BY <2>1, <2>4 DEF PcResumes, PcRequest
  <2>6. PICK l \in labels : ~Verified(l)
    <3>1. ASSUME \A l \in labels : Verified(l) PROVE FALSE
      <4>1. checks' = [checks EXCEPT ![c] = Over("admitted")]
        BY <2>5, <3>1 DEF Answered
      <4>2. checks'[c] = Over("admitted")
        BY <2>1, <4>1
      <4> QED
        BY <4>2 DEF Over
    <3> QED
      BY <3>1
  <2>7. Fell(l, clock - PcLimit)
    <3>1. \/ states[l].was = "recorded" /\ states[l].at = clock
          \/ Fell(l, clock - PcLimit)
      BY <2>5 DEF Caused, WokenJudged
    <3>2. clock - clock < VerifiedFor
      BY PcTimes
    <3>3. CASE states[l].was = "recorded" /\ states[l].at = clock
      <4>1. Verified(l)
        BY <3>2, <3>3 DEF Verified
      <4> QED
        BY <2>6, <4>1
    <3> QED
      BY <3>1, <3>3
  <2>8. clock \in Int /\ checks[c].since \in Int /\ lastBad[l] \in Int
    BY <2>5, PcTimes
  <2>9. checks[c].since <= clock /\ lastBad[l] # Never /\ clock - PcLimit <= lastBad[l]
    BY <2>7 DEF Caused, AskedBefore, Fell
  <2>10. checks[c].since - lastBad[l] <= PcLimit
    <3> DEFINE since == checks[c].since
               bad == lastBad[l]
    <3>1. since \in Int /\ bad \in Int /\ clock \in Int /\ PcLimit \in Int
      BY <2>8, PcTimes
    <3>2. since <= clock /\ clock - PcLimit <= bad
      BY <2>9
    <3> HIDE DEF since, bad
    <3>3. since - bad <= PcLimit
      BY <3>1, <3>2, Distance
    <3> QED
      BY <3>3 DEF since, bad
  <2> QED
    BY <2>9, <2>10
<1> QED
  BY <1>1, <1>2, CausedKeeps, PcTypes, PcInvariance, PTL DEF PcSpec, RefusedForCause
=============================================================================
