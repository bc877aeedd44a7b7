-------------------------- MODULE ProxyCall_proofs -------------------------
(***************************************************************************)
(* Theorems about ProxyCall, for any set of calls, any length of answer,   *)
(* with or without a deadline.  The invariant follows a call through the   *)
(* handler and then through the pull and the cancel of its answer's body.  *)
(***************************************************************************)
EXTENDS ProxyCall, TLAPS

\* Until its answer is a body, nothing pulls or cancels it.
Opening(c) ==
    /\ stage[c] \notin {"streaming", "done"} =>
          pulling[c] = "idle" /\ cancelling[c] = "no" /\ ~queued[c] /\ outcome[c] = "none"
    /\ stage[c] \in {"gating", "attempting", "forwarding", "screening"} => ended[c] = "none"
    /\ stage[c] \in {"failing", "refusing"} => ended[c] = "failure"
    /\ stage[c] \in {"gating", "attempting", "forwarding"} => left[c] = 0

\* What was sent was on record, and only what was sent has an answer.
Sent(c) ==
    /\ stage[c] \in {"gating", "attempting"} => ~began[c] /\ ~ran[c]
    /\ stage[c] \notin {"gating", "attempting", "done"} \/ ran[c] => began[c]
    /\ stage[c] \in {"screening", "streaming"} \/ pulling[c] # "idle" => ran[c]

\* An answer's body has no terminal event until its pull or its cancel ends it,
\* and then the one that came first decided which.
Streamed(c) ==
    /\ stage[c] = "streaming" /\ cancelling[c] = "no" /\ pulling[c] \in {"idle", "reading"}
          => ended[c] = "none"
    /\ stage[c] = "streaming" =>
          outcome[c] = "none" /\ (cancelling[c] = "no" => pulling[c] \notin {"closed", "errored"})
    /\ cancelling[c] # "no" => ended[c] # "none"
    /\ cancelling[c] = "finishing" => stage[c] = "streaming"
    /\ cancelling[c] = "no" /\ pulling[c] \in {"reading", "finishing", "failing"} =>
          stage[c] = "streaming"
    /\ cancelling[c] = "no" /\ pulling[c] = "finishing" =>
          ended[c] = IF good[c] THEN "success" ELSE "failure"
    /\ cancelling[c] = "no" /\ pulling[c] = "failing" => ended[c] = "failure"
    /\ pulling[c] = "reading" => ~queued[c]

\* What the log and the client were told.
Told(c) ==
    /\ ended[c] = "success" => ran[c] /\ good[c] /\ left[c] = 0 /\ ~queued[c]
    /\ outcome[c] = "whole" => ended[c] = IF good[c] THEN "success" ELSE "failure"
    /\ outcome[c] \in {"unreachable", "expired", "cut off"} => ended[c] = "failure"
    /\ outcome[c] = "refused" /\ began[c] => ended[c] # "none"

CallInv(c) == Opening(c) /\ Sent(c) /\ Streamed(c) /\ Told(c)

IInv == TypeOK /\ \A c \in Calls : CallInv(c)

-----------------------------------------------------------------------------
\* The bounds of an answer's length.
LEMMA ChunkBounds ==
    /\ 0 \in 0..MaxChunks
    /\ (IF MaxChunks > 0 THEN 1 ELSE 0) \in 0..MaxChunks
    /\ \A n \in 0..MaxChunks : n > 0 => n - 1 \in 0..MaxChunks
<1>1. MaxChunks \in Nat
  BY ProxyCallAssumption DEF ProxyCallAssumption
<1> QED
  BY <1>1

\* A call starts in the invariant.
LEMMA InitInv == Init => IInv
  BY ChunkBounds
     DEF Init, IInv, TypeOK, CallInv, Opening, Sent, Streamed, Told,
         Stages, Sources, PullStates, CancelStates, Outcomes

\* Every step keeps the types.
LEMMA StepTypes == TypeOK /\ [Next]_vars => TypeOK'
<1> SUFFICES ASSUME TypeOK, [Next]_vars PROVE TypeOK'
  OBVIOUS
<1> USE DEF TypeOK, Stages, Sources, PullStates, CancelStates, Outcomes,
        Goes, Gets
<1>1. CASE UNCHANGED vars
  BY <1>1 DEF vars, bodyVars
<1>2. ASSUME NEW c \in Calls, HangsUp(c) PROVE TypeOK'
  BY <1>2 DEF HangsUp, bodyVars
<1>3. ASSUME NEW c \in Calls, Expires(c) PROVE TypeOK'
  BY <1>3 DEF Expires, bodyVars
<1>4. ASSUME NEW c \in Calls, Refuses(c) PROVE TypeOK'
  BY <1>4 DEF Refuses, bodyVars
<1>5. ASSUME NEW c \in Calls, Passes(c) PROVE TypeOK'
  BY <1>5 DEF Passes, bodyVars
<1>6. ASSUME NEW c \in Calls, AttemptRefused(c) PROVE TypeOK'
  BY <1>6 DEF AttemptRefused, bodyVars
<1>7. ASSUME NEW c \in Calls, AttemptWritten(c) PROVE TypeOK'
  BY <1>7 DEF AttemptWritten, bodyVars
<1>8. ASSUME NEW c \in Calls, Sends(c) PROVE TypeOK'
  BY <1>8 DEF Sends, bodyVars
<1>9. ASSUME NEW c \in Calls, Fails(c) PROVE TypeOK'
  BY <1>9 DEF Fails, finish, bodyVars
<1>10. ASSUME NEW c \in Calls, FailureAnswered(c) PROVE TypeOK'
  BY <1>10 DEF FailureAnswered, bodyVars
<1>11. ASSUME NEW c \in Calls, NEW ok \in BOOLEAN, NEW next \in {"streaming", "screening"},
             HeadersArrive(c, ok, next)
      PROVE  TypeOK'
  BY <1>11 DEF HeadersArrive, bodyVars
<1>12. ASSUME NEW c \in Calls, NEW ok \in BOOLEAN, BodylessArrives(c, ok) PROVE TypeOK'
  BY <1>12 DEF BodylessArrives, finish, bodyVars
<1>13. ASSUME NEW c \in Calls, Unfilterable(c) PROVE TypeOK'
  BY <1>13 DEF Unfilterable, finish, bodyVars
<1>14. ASSUME NEW c \in Calls, RefusalAnswered(c) PROVE TypeOK'
  BY <1>14 DEF RefusalAnswered, bodyVars
<1>15. ASSUME NEW c \in Calls, Screened(c) PROVE TypeOK'
  <2>1. left' \in [Calls -> 0..MaxChunks]
    BY <1>15, ChunkBounds DEF Screened
  <2> QED
    BY <1>15, <2>1 DEF Screened
<1>16. ASSUME NEW c \in Calls, pull(c) PROVE TypeOK'
  BY <1>16 DEF pull, bodyVars
<1>17. ASSUME NEW c \in Calls, ReadsChunk(c) PROVE TypeOK'
  <2>1. left[c] - 1 \in 0..MaxChunks
    BY <1>17, ChunkBounds DEF ReadsChunk
  <2>2. left' \in [Calls -> 0..MaxChunks]
    BY <1>17, <2>1 DEF ReadsChunk
  <2>3. queued' \in [Calls -> BOOLEAN]
    BY <1>17 DEF ReadsChunk
  <2> QED
    BY <1>17, <2>2, <2>3 DEF ReadsChunk
<1>18. ASSUME NEW c \in Calls, ReadsEnd(c) PROVE TypeOK'
  BY <1>18 DEF ReadsEnd, finish, bodyVars
<1>19. ASSUME NEW c \in Calls, ReadFails(c) PROVE TypeOK'
  BY <1>19 DEF ReadFails, finish, bodyVars
<1>20. ASSUME NEW c \in Calls, PullEnds(c) PROVE TypeOK'
  <2>1. pulling' \in [Calls -> PullStates]
    BY <1>20 DEF PullEnds
  <2>2. CASE cancelling[c] # "no"
    <3>1. UNCHANGED <<stage, outcome>>
      BY <1>20, <2>2 DEF PullEnds
    <3> QED
      BY <1>20, <2>1, <3>1 DEF PullEnds
  <2>3. CASE cancelling[c] = "no"
    <3>1. PICK o \in Outcomes : Goes(c, "done") /\ Gets(c, o)
      BY <1>20, <2>3 DEF PullEnds
    <3>2. stage' \in [Calls -> Stages] /\ outcome' \in [Calls -> Outcomes]
      BY <3>1
    <3> QED
      BY <1>20, <2>1, <3>2 DEF PullEnds
  <2> QED
    BY <2>2, <2>3
<1>21. ASSUME NEW c \in Calls, CutShort(c) PROVE TypeOK'
  <2>1. left' \in [Calls -> 0..MaxChunks]
    BY <1>21, ChunkBounds DEF CutShort
  <2>2. queued' \in [Calls -> BOOLEAN]
    BY <1>21 DEF CutShort
  <2> QED
    BY <1>21, <2>1, <2>2 DEF CutShort
<1>22. ASSUME NEW c \in Calls, ClientReads(c) PROVE TypeOK'
  BY <1>22 DEF ClientReads, bodyVars
<1>23. ASSUME NEW c \in Calls, cancel(c) PROVE TypeOK'
  BY <1>23 DEF cancel, finish, bodyVars
<1>24. ASSUME NEW c \in Calls, CancelEnds(c) PROVE TypeOK'
  BY <1>24 DEF CancelEnds, bodyVars
<1> HIDE DEF TypeOK, Stages, Sources, PullStates, CancelStates, Outcomes
<1> QED
  BY <1>1, <1>2, <1>3, <1>4, <1>5, <1>6, <1>7, <1>8, <1>9, <1>10, <1>11, <1>12,
     <1>13, <1>14, <1>15, <1>16, <1>17, <1>18, <1>19, <1>20, <1>21, <1>22, <1>23, <1>24
     DEF Next, Handler, Body

\* What of a call this invariant speaks of.
Untouched(d) ==
    /\ stage'[d] = stage[d] /\ began'[d] = began[d] /\ ran'[d] = ran[d]
    /\ ended'[d] = ended[d] /\ good'[d] = good[d] /\ left'[d] = left[d]
    /\ queued'[d] = queued[d] /\ pulling'[d] = pulling[d]
    /\ cancelling'[d] = cancelling[d] /\ outcome'[d] = outcome[d]

\* What is known of a call stays known while nobody touches it.
LEMMA Frame == \A d \in Calls : CallInv(d) /\ Untouched(d) => CallInv(d)'
<1> SUFFICES ASSUME NEW d \in Calls, CallInv(d), Untouched(d) PROVE CallInv(d)'
  OBVIOUS
<1>1. Opening(d)'
  BY DEF CallInv, Opening, Untouched
<1>2. Sent(d)'
  BY DEF CallInv, Sent, Untouched
<1>3. Streamed(d)'
  BY DEF CallInv, Streamed, Untouched
<1>4. Told(d)'
  BY DEF CallInv, Told, Untouched
<1> QED
  BY <1>1, <1>2, <1>3, <1>4 DEF CallInv

\* A chunk, or an event over the cap, comes only while something is left.
LEMMA SomethingLeft == \A c \in Calls : ReadsChunk(c) \/ CutShort(c) => left[c] # 0
  BY DEF ReadsChunk, CutShort

\* Every step keeps what is known of the call that takes it and of the others.
LEMMA StepCalls == IInv /\ [Next]_vars => \A d \in Calls : CallInv(d)'
<1> SUFFICES ASSUME IInv, [Next]_vars, NEW d \in Calls PROVE CallInv(d)'
  OBVIOUS
<1>0. TypeOK /\ CallInv(d)
  BY DEF IInv
<1>1. CASE UNCHANGED vars
  <2>1. Untouched(d)
    BY <1>1 DEF vars, bodyVars, Untouched
  <2> QED
    BY <1>0, <2>1, Frame
<1>2. ASSUME NEW c \in Calls, HangsUp(c) PROVE CallInv(d)'
  <2>1. Untouched(d)
    BY <1>2 DEF HangsUp, bodyVars, Untouched
  <2> QED
    BY <1>0, <2>1, Frame
<1>3. ASSUME NEW c \in Calls, Expires(c) PROVE CallInv(d)'
  <2>1. Untouched(d)
    BY <1>3 DEF Expires, bodyVars, Untouched
  <2> QED
    BY <1>0, <2>1, Frame
<1>4. ASSUME NEW c \in Calls, Refuses(c) PROVE CallInv(d)'
  <2>1. CASE d # c
    <3>1. Untouched(d)
      BY <1>0, <1>4, <2>1 DEF Refuses, bodyVars, Goes, Gets, TypeOK, Untouched
    <3> QED
      BY <1>0, <3>1, Frame
  <2>2. CASE d = c
    <3>1. /\ stage[d] = "gating" /\ stage'[d] = "done"
          /\ outcome'[d] = "refused"
          /\ began'[d] = began[d] /\ ran'[d] = ran[d] /\ ended'[d] = ended[d]
          /\ good'[d] = good[d] /\ left'[d] = left[d] /\ queued'[d] = queued[d]
          /\ pulling'[d] = pulling[d] /\ cancelling'[d] = cancelling[d]
      BY <1>0, <1>4, <2>2 DEF Refuses, bodyVars, Goes, Gets, TypeOK
    <3> QED
      BY <1>0, <3>1 DEF CallInv, Opening, Sent, Streamed, Told
  <2> QED
    BY <2>1, <2>2
<1>5. ASSUME NEW c \in Calls, Passes(c) PROVE CallInv(d)'
  <2>1. CASE d # c
    <3>1. Untouched(d)
      BY <1>0, <1>5, <2>1 DEF Passes, bodyVars, Goes, TypeOK, Untouched
    <3> QED
      BY <1>0, <3>1, Frame
  <2>2. CASE d = c
    <3>1. /\ stage[d] = "gating" /\ stage'[d] = "attempting"
          /\ began'[d] = began[d] /\ ran'[d] = ran[d] /\ ended'[d] = ended[d]
          /\ good'[d] = good[d] /\ left'[d] = left[d] /\ queued'[d] = queued[d]
          /\ pulling'[d] = pulling[d] /\ cancelling'[d] = cancelling[d]
          /\ outcome'[d] = outcome[d]
      BY <1>0, <1>5, <2>2 DEF Passes, bodyVars, Goes, TypeOK
    <3> QED
      BY <1>0, <3>1 DEF CallInv, Opening, Sent, Streamed, Told
  <2> QED
    BY <2>1, <2>2
<1>6. ASSUME NEW c \in Calls, AttemptRefused(c) PROVE CallInv(d)'
  <2>1. CASE d # c
    <3>1. Untouched(d)
      BY <1>0, <1>6, <2>1 DEF AttemptRefused, bodyVars, Goes, Gets, TypeOK, Untouched
    <3> QED
      BY <1>0, <3>1, Frame
  <2>2. CASE d = c
    <3>1. /\ stage[d] = "attempting" /\ stage'[d] = "done"
          /\ outcome'[d] = "refused"
          /\ began'[d] = began[d] /\ ran'[d] = ran[d] /\ ended'[d] = ended[d]
          /\ good'[d] = good[d] /\ left'[d] = left[d] /\ queued'[d] = queued[d]
          /\ pulling'[d] = pulling[d] /\ cancelling'[d] = cancelling[d]
      BY <1>0, <1>6, <2>2 DEF AttemptRefused, bodyVars, Goes, Gets, TypeOK
    <3> QED
      BY <1>0, <3>1 DEF CallInv, Opening, Sent, Streamed, Told
  <2> QED
    BY <2>1, <2>2
<1>7. ASSUME NEW c \in Calls, AttemptWritten(c) PROVE CallInv(d)'
  <2>1. CASE d # c
    <3>1. Untouched(d)
      BY <1>0, <1>7, <2>1 DEF AttemptWritten, bodyVars, Goes, TypeOK, Untouched
    <3> QED
      BY <1>0, <3>1, Frame
  <2>2. CASE d = c
    <3>1. /\ stage[d] = "attempting" /\ stage'[d] = "forwarding"
          /\ began'[d]
          /\ ran'[d] = ran[d] /\ ended'[d] = ended[d] /\ good'[d] = good[d]
          /\ left'[d] = left[d] /\ queued'[d] = queued[d] /\ pulling'[d] = pulling[d]
          /\ cancelling'[d] = cancelling[d] /\ outcome'[d] = outcome[d]
      BY <1>0, <1>7, <2>2 DEF AttemptWritten, bodyVars, Goes, TypeOK
    <3> QED
      BY <1>0, <3>1 DEF CallInv, Opening, Sent, Streamed, Told
  <2> QED
    BY <2>1, <2>2
<1>8. ASSUME NEW c \in Calls, Sends(c) PROVE CallInv(d)'
  <2>1. CASE d # c
    <3>1. Untouched(d)
      BY <1>0, <1>8, <2>1 DEF Sends, bodyVars, TypeOK, Untouched
    <3> QED
      BY <1>0, <3>1, Frame
  <2>2. CASE d = c
    <3>1. /\ stage[d] = "forwarding"
          /\ ran'[d]
          /\ stage'[d] = stage[d] /\ began'[d] = began[d] /\ ended'[d] = ended[d]
          /\ good'[d] = good[d] /\ left'[d] = left[d] /\ queued'[d] = queued[d]
          /\ pulling'[d] = pulling[d] /\ cancelling'[d] = cancelling[d]
          /\ outcome'[d] = outcome[d]
      BY <1>0, <1>8, <2>2 DEF Sends, bodyVars, TypeOK
    <3> QED
      BY <1>0, <3>1 DEF CallInv, Opening, Sent, Streamed, Told
  <2> QED
    BY <2>1, <2>2
<1>9. ASSUME NEW c \in Calls, Fails(c) PROVE CallInv(d)'
  <2>1. CASE d # c
    <3>1. Untouched(d)
      BY <1>0, <1>9, <2>1 DEF Fails, finish, bodyVars, Goes, TypeOK, Untouched
    <3> QED
      BY <1>0, <3>1, Frame
  <2>2. CASE d = c
    <3>1. /\ stage[d] \in {"forwarding", "screening"} /\ stage'[d] = "failing"
          /\ ended'[d] = IF ended[d] = "none" THEN "failure" ELSE ended[d]
          /\ began'[d] = began[d] /\ ran'[d] = ran[d] /\ good'[d] = good[d]
          /\ left'[d] = left[d] /\ queued'[d] = queued[d] /\ pulling'[d] = pulling[d]
          /\ cancelling'[d] = cancelling[d] /\ outcome'[d] = outcome[d]
      BY <1>0, <1>9, <2>2 DEF Fails, finish, bodyVars, Goes, TypeOK
    <3> QED
      BY <1>0, <3>1 DEF CallInv, Opening, Sent, Streamed, Told
  <2> QED
    BY <2>1, <2>2
<1>10. ASSUME NEW c \in Calls, FailureAnswered(c) PROVE CallInv(d)'
  <2>1. CASE d # c
    <3>1. Untouched(d)
      BY <1>0, <1>10, <2>1 DEF FailureAnswered, bodyVars, Goes, Gets, TypeOK, Untouched
    <3> QED
      BY <1>0, <3>1, Frame
  <2>2. CASE d = c
    <3>1. /\ stage[d] = "failing" /\ stage'[d] = "done"
          /\ outcome'[d] \in {"expired", "client gone", "unreachable"}
          /\ began'[d] = began[d] /\ ran'[d] = ran[d] /\ ended'[d] = ended[d]
          /\ good'[d] = good[d] /\ left'[d] = left[d] /\ queued'[d] = queued[d]
          /\ pulling'[d] = pulling[d] /\ cancelling'[d] = cancelling[d]
      BY <1>0, <1>10, <2>2 DEF FailureAnswered, bodyVars, Goes, Gets, TypeOK
    <3> QED
      BY <1>0, <3>1 DEF CallInv, Opening, Sent, Streamed, Told
  <2> QED
    BY <2>1, <2>2
<1>11. ASSUME NEW c \in Calls, NEW ok \in BOOLEAN, NEW next \in {"streaming", "screening"},
             HeadersArrive(c, ok, next)
      PROVE  CallInv(d)'
  <2>1. CASE d # c
    <3>1. Untouched(d)
      BY <1>0, <1>11, <2>1 DEF HeadersArrive, Goes, TypeOK, Untouched
    <3> QED
      BY <1>0, <3>1, Frame
  <2>2. CASE d = c
    <3>1. /\ stage[d] = "forwarding" /\ ran[d]
          /\ stage'[d] \in {"streaming", "screening"}
          /\ began'[d] = began[d] /\ ran'[d] = ran[d] /\ ended'[d] = ended[d]
          /\ queued'[d] = queued[d] /\ pulling'[d] = pulling[d]
          /\ cancelling'[d] = cancelling[d] /\ outcome'[d] = outcome[d]
      BY <1>0, <1>11, <2>2 DEF HeadersArrive, Goes, TypeOK
    <3> QED
      BY <1>0, <3>1 DEF CallInv, Opening, Sent, Streamed, Told
  <2> QED
    BY <2>1, <2>2
<1>12. ASSUME NEW c \in Calls, NEW ok \in BOOLEAN, BodylessArrives(c, ok) PROVE CallInv(d)'
  <2>1. CASE d # c
    <3>1. Untouched(d)
      BY <1>0, <1>12, <2>1 DEF BodylessArrives, finish, Goes, Gets, TypeOK, Untouched
    <3> QED
      BY <1>0, <3>1, Frame
  <2>2. CASE d = c
    <3>1. /\ stage[d] = "forwarding" /\ ran[d]
          /\ stage'[d] = "done" /\ outcome'[d] = "whole"
          /\ ended'[d] = IF ended[d] # "none" THEN ended[d]
                        ELSE IF good'[d] THEN "success" ELSE "failure"
          /\ began'[d] = began[d] /\ ran'[d] = ran[d] /\ left'[d] = left[d]
          /\ queued'[d] = queued[d] /\ pulling'[d] = pulling[d]
          /\ cancelling'[d] = cancelling[d]
      BY <1>0, <1>12, <2>2 DEF BodylessArrives, finish, Goes, Gets, TypeOK
    <3> QED
      BY <1>0, <3>1 DEF CallInv, Opening, Sent, Streamed, Told
  <2> QED
    BY <2>1, <2>2
<1>13. ASSUME NEW c \in Calls, Unfilterable(c) PROVE CallInv(d)'
  <2>1. CASE d # c
    <3>1. Untouched(d)
      BY <1>0, <1>13, <2>1 DEF Unfilterable, finish, bodyVars, Goes, TypeOK, Untouched
    <3> QED
      BY <1>0, <3>1, Frame
  <2>2. CASE d = c
    <3>1. /\ stage[d] \in {"forwarding", "screening"} /\ stage'[d] = "refusing"
          /\ ended'[d] = IF ended[d] = "none" THEN "failure" ELSE ended[d]
          /\ began'[d] = began[d] /\ ran'[d] = ran[d] /\ good'[d] = good[d]
          /\ left'[d] = left[d] /\ queued'[d] = queued[d] /\ pulling'[d] = pulling[d]
          /\ cancelling'[d] = cancelling[d] /\ outcome'[d] = outcome[d]
      BY <1>0, <1>13, <2>2 DEF Unfilterable, finish, bodyVars, Goes, TypeOK
    <3> QED
      BY <1>0, <3>1 DEF CallInv, Opening, Sent, Streamed, Told
  <2> QED
    BY <2>1, <2>2
<1>14. ASSUME NEW c \in Calls, RefusalAnswered(c) PROVE CallInv(d)'
  <2>1. CASE d # c
    <3>1. Untouched(d)
      BY <1>0, <1>14, <2>1 DEF RefusalAnswered, bodyVars, Goes, Gets, TypeOK, Untouched
    <3> QED
      BY <1>0, <3>1, Frame
  <2>2. CASE d = c
    <3>1. /\ stage[d] = "refusing" /\ stage'[d] = "done"
          /\ outcome'[d] = "refused"
          /\ began'[d] = began[d] /\ ran'[d] = ran[d] /\ ended'[d] = ended[d]
          /\ good'[d] = good[d] /\ left'[d] = left[d] /\ queued'[d] = queued[d]
          /\ pulling'[d] = pulling[d] /\ cancelling'[d] = cancelling[d]
      BY <1>0, <1>14, <2>2 DEF RefusalAnswered, bodyVars, Goes, Gets, TypeOK
    <3> QED
      BY <1>0, <3>1 DEF CallInv, Opening, Sent, Streamed, Told
  <2> QED
    BY <2>1, <2>2
<1>15. ASSUME NEW c \in Calls, Screened(c) PROVE CallInv(d)'
  <2>1. CASE d # c
    <3>1. Untouched(d)
      BY <1>0, <1>15, <2>1 DEF Screened, Goes, TypeOK, Untouched
    <3> QED
      BY <1>0, <3>1, Frame
  <2>2. CASE d = c
    <3>1. /\ stage[d] = "screening" /\ stage'[d] = "streaming"
          /\ began'[d] = began[d] /\ ran'[d] = ran[d] /\ ended'[d] = ended[d]
          /\ good'[d] = good[d] /\ queued'[d] = queued[d] /\ pulling'[d] = pulling[d]
          /\ cancelling'[d] = cancelling[d] /\ outcome'[d] = outcome[d]
      BY <1>0, <1>15, <2>2 DEF Screened, Goes, TypeOK
    <3> QED
      BY <1>0, <3>1 DEF CallInv, Opening, Sent, Streamed, Told
  <2> QED
    BY <2>1, <2>2
<1>16. ASSUME NEW c \in Calls, pull(c) PROVE CallInv(d)'
  <2>1. CASE d # c
    <3>1. Untouched(d)
      BY <1>0, <1>16, <2>1 DEF pull, TypeOK, Untouched
    <3> QED
      BY <1>0, <3>1, Frame
  <2>2. CASE d = c
    <3>1. /\ stage[d] = "streaming" /\ pulling'[d] = "reading"
          /\ pulling[d] = "idle" /\ ~queued[d] /\ cancelling[d] = "no"
          /\ stage'[d] = stage[d] /\ began'[d] = began[d] /\ ran'[d] = ran[d]
          /\ ended'[d] = ended[d] /\ good'[d] = good[d] /\ left'[d] = left[d]
          /\ queued'[d] = queued[d] /\ cancelling'[d] = cancelling[d]
          /\ outcome'[d] = outcome[d]
      BY <1>0, <1>16, <2>2 DEF pull, TypeOK
    <3> QED
      BY <1>0, <3>1 DEF CallInv, Opening, Sent, Streamed, Told
  <2> QED
    BY <2>1, <2>2
<1>17. ASSUME NEW c \in Calls, ReadsChunk(c) PROVE CallInv(d)'
  <2>1. CASE d # c
    <3>1. Untouched(d)
      BY <1>0, <1>17, <2>1 DEF ReadsChunk, TypeOK, Untouched
    <3> QED
      BY <1>0, <3>1, Frame
  <2>2. CASE d = c
    <3>1. /\ pulling[d] = "reading" /\ pulling'[d] = "idle"
          /\ stage'[d] = stage[d] /\ began'[d] = began[d] /\ ran'[d] = ran[d]
          /\ ended'[d] = ended[d] /\ good'[d] = good[d]
          /\ cancelling'[d] = cancelling[d] /\ outcome'[d] = outcome[d]
      BY <1>0, <1>17, <2>2 DEF ReadsChunk, TypeOK
    <3>2. left[d] # 0
      BY <1>17, <2>2, SomethingLeft
    <3> QED
      BY <1>0, <3>1, <3>2 DEF CallInv, Opening, Sent, Streamed, Told
  <2> QED
    BY <2>1, <2>2
<1>18. ASSUME NEW c \in Calls, ReadsEnd(c) PROVE CallInv(d)'
  <2>1. CASE d # c
    <3>1. Untouched(d)
      BY <1>0, <1>18, <2>1 DEF ReadsEnd, finish, TypeOK, Untouched
    <3> QED
      BY <1>0, <3>1, Frame
  <2>2. CASE d = c
    <3>1. /\ pulling[d] = "reading" /\ pulling'[d] = "finishing"
          /\ (left[d] = 0 \/ cancelling[d] = "cancelled")
          /\ ended'[d] = IF ended[d] # "none" THEN ended[d]
                        ELSE IF good[d] THEN "success" ELSE "failure"
          /\ stage'[d] = stage[d] /\ began'[d] = began[d] /\ ran'[d] = ran[d]
          /\ good'[d] = good[d] /\ left'[d] = left[d] /\ queued'[d] = queued[d]
          /\ cancelling'[d] = cancelling[d] /\ outcome'[d] = outcome[d]
      BY <1>0, <1>18, <2>2 DEF ReadsEnd, finish, TypeOK
    <3> QED
      BY <1>0, <3>1 DEF CallInv, Opening, Sent, Streamed, Told
  <2> QED
    BY <2>1, <2>2
<1>19. ASSUME NEW c \in Calls, ReadFails(c) PROVE CallInv(d)'
  <2>1. CASE d # c
    <3>1. Untouched(d)
      BY <1>0, <1>19, <2>1 DEF ReadFails, finish, TypeOK, Untouched
    <3> QED
      BY <1>0, <3>1, Frame
  <2>2. CASE d = c
    <3>1. /\ pulling[d] = "reading" /\ pulling'[d] = "failing"
          /\ ended'[d] = IF ended[d] = "none" THEN "failure" ELSE ended[d]
          /\ stage'[d] = stage[d] /\ began'[d] = began[d] /\ ran'[d] = ran[d]
          /\ good'[d] = good[d] /\ left'[d] = left[d] /\ queued'[d] = queued[d]
          /\ cancelling'[d] = cancelling[d] /\ outcome'[d] = outcome[d]
      BY <1>0, <1>19, <2>2 DEF ReadFails, finish, TypeOK
    <3> QED
      BY <1>0, <3>1 DEF CallInv, Opening, Sent, Streamed, Told
  <2> QED
    BY <2>1, <2>2
<1>20. ASSUME NEW c \in Calls, PullEnds(c) PROVE CallInv(d)'
  <2>1. CASE d # c
    <3>1. Untouched(d)
      BY <1>0, <1>20, <2>1 DEF PullEnds, Goes, Gets, TypeOK, Untouched
    <3> QED
      BY <1>0, <3>1, Frame
  <2>2. CASE d = c
    <3>1. /\ pulling[d] \in {"finishing", "failing"} /\ pulling'[d] \in {"closed", "errored"}
          /\ began'[d] = began[d] /\ ran'[d] = ran[d] /\ ended'[d] = ended[d]
          /\ good'[d] = good[d] /\ left'[d] = left[d] /\ queued'[d] = queued[d]
          /\ cancelling'[d] = cancelling[d]
      BY <1>0, <1>20, <2>2 DEF PullEnds, TypeOK
    <3>2. CASE cancelling[d] # "no"
      <4>1. stage'[d] = stage[d] /\ outcome'[d] = outcome[d]
        BY <1>20, <2>2, <3>2 DEF PullEnds
      <4> QED
        BY <1>0, <3>1, <3>2, <4>1 DEF CallInv, Opening, Sent, Streamed, Told
    <3>3. CASE cancelling[d] = "no"
      <4>1. /\ Goes(d, "done")
            /\ pulling[d] = "failing" => Gets(d, "cut off")
            /\ pulling[d] = "finishing" => Gets(d, "refused") \/ Gets(d, "whole")
        BY <1>20, <2>2, <3>3 DEF PullEnds
      <4>2. /\ stage'[d] = "done"
            /\ pulling[d] = "failing" => outcome'[d] = "cut off"
            /\ pulling[d] = "finishing" => outcome'[d] \in {"refused", "whole"}
        BY <1>0, <4>1 DEF Goes, Gets, TypeOK
      <4> QED
        BY <1>0, <3>1, <3>3, <4>2 DEF CallInv, Opening, Sent, Streamed, Told
    <3> QED
      BY <3>2, <3>3
  <2> QED
    BY <2>1, <2>2
<1>21. ASSUME NEW c \in Calls, CutShort(c) PROVE CallInv(d)'
  <2>1. CASE d # c
    <3>1. Untouched(d)
      BY <1>0, <1>21, <2>1 DEF CutShort, TypeOK, Untouched
    <3> QED
      BY <1>0, <3>1, Frame
  <2>2. CASE d = c
    <3>1. /\ pulling[d] = "reading" /\ pulling'[d] = "idle"
          /\ stage'[d] = stage[d] /\ began'[d] = began[d] /\ ran'[d] = ran[d]
          /\ ended'[d] = ended[d] /\ good'[d] = good[d]
          /\ cancelling'[d] = cancelling[d] /\ outcome'[d] = outcome[d]
      BY <1>0, <1>21, <2>2 DEF CutShort, TypeOK
    <3>2. left[d] # 0
      BY <1>21, <2>2, SomethingLeft
    <3> QED
      BY <1>0, <3>1, <3>2 DEF CallInv, Opening, Sent, Streamed, Told
  <2> QED
    BY <2>1, <2>2
<1>22. ASSUME NEW c \in Calls, ClientReads(c) PROVE CallInv(d)'
  <2>1. CASE d # c
    <3>1. Untouched(d)
      BY <1>0, <1>22, <2>1 DEF ClientReads, TypeOK, Untouched
    <3> QED
      BY <1>0, <3>1, Frame
  <2>2. CASE d = c
    <3>1. /\ ~queued'[d]
          /\ stage'[d] = stage[d] /\ began'[d] = began[d] /\ ran'[d] = ran[d]
          /\ ended'[d] = ended[d] /\ good'[d] = good[d] /\ left'[d] = left[d]
          /\ pulling'[d] = pulling[d] /\ cancelling'[d] = cancelling[d]
          /\ outcome'[d] = outcome[d]
      BY <1>0, <1>22, <2>2 DEF ClientReads, TypeOK
    <3> QED
      BY <1>0, <3>1 DEF CallInv, Opening, Sent, Streamed, Told
  <2> QED
    BY <2>1, <2>2
<1>23. ASSUME NEW c \in Calls, cancel(c) PROVE CallInv(d)'
  <2>1. CASE d # c
    <3>1. Untouched(d)
      BY <1>0, <1>23, <2>1 DEF cancel, finish, TypeOK, Untouched
    <3> QED
      BY <1>0, <3>1, Frame
  <2>2. CASE d = c
    <3>1. /\ stage[d] = "streaming" /\ pulling[d] \notin {"closed", "errored"}
          /\ cancelling[d] = "no" /\ cancelling'[d] = "finishing"
          /\ ~queued'[d]
          /\ ended'[d] = IF ended[d] = "none" THEN "failure" ELSE ended[d]
          /\ stage'[d] = stage[d] /\ began'[d] = began[d] /\ ran'[d] = ran[d]
          /\ good'[d] = good[d] /\ left'[d] = left[d] /\ pulling'[d] = pulling[d]
          /\ outcome'[d] = outcome[d]
      BY <1>0, <1>23, <2>2 DEF cancel, finish, TypeOK
    <3> QED
      BY <1>0, <3>1 DEF CallInv, Opening, Sent, Streamed, Told
  <2> QED
    BY <2>1, <2>2
<1>24. ASSUME NEW c \in Calls, CancelEnds(c) PROVE CallInv(d)'
  <2>1. CASE d # c
    <3>1. Untouched(d)
      BY <1>0, <1>24, <2>1 DEF CancelEnds, Goes, Gets, TypeOK, Untouched
    <3> QED
      BY <1>0, <3>1, Frame
  <2>2. CASE d = c
    <3>1. /\ cancelling[d] = "finishing" /\ cancelling'[d] = "cancelled"
          /\ stage'[d] = "done" /\ outcome'[d] = "client gone"
          /\ began'[d] = began[d] /\ ran'[d] = ran[d] /\ ended'[d] = ended[d]
          /\ good'[d] = good[d] /\ left'[d] = left[d] /\ queued'[d] = queued[d]
          /\ pulling'[d] = pulling[d]
      BY <1>0, <1>24, <2>2 DEF CancelEnds, Goes, Gets, TypeOK
    <3> QED
      BY <1>0, <3>1 DEF CallInv, Opening, Sent, Streamed, Told
  <2> QED
    BY <2>1, <2>2
<1> QED
  BY <1>1, <1>2, <1>3, <1>4, <1>5, <1>6, <1>7, <1>8, <1>9, <1>10, <1>11, <1>12,
     <1>13, <1>14, <1>15, <1>16, <1>17, <1>18, <1>19, <1>20, <1>21, <1>22, <1>23, <1>24
     DEF Next, Handler, Body

\* The invariant holds always.
THEOREM Invariance == Spec => []IInv
<1>1. IInv /\ [Next]_vars => IInv'
  BY StepTypes, StepCalls DEF IInv
<1> QED
  BY InitInv, <1>1, PTL DEF Spec

\* A call's state keeps its types.
THEOREM TypeCorrect == Spec => []TypeOK
<1>1. IInv => TypeOK
  BY DEF IInv
<1> QED
  BY Invariance, <1>1, PTL

\* The log never says success of an answer that was not read to its end,
\* whatever the order of the pull, the cancel and the upstream.
THEOREM SuccessIsWhole == Spec => []SuccessMeansWhole
<1>1. IInv => SuccessMeansWhole
  BY DEF IInv, CallInv, Told, SuccessMeansWhole
<1> QED
  BY Invariance, <1>1, PTL

\* What the client got and what the log says agree.
THEOREM LogAgreesWithAnswer == Spec => []AnswerAndAuditAgree
<1>1. IInv => AnswerAndAuditAgree
  BY DEF IInv, CallInv, Told, AnswerAndAuditAgree
<1> QED
  BY Invariance, <1>1, PTL

-----------------------------------------------------------------------------
\* finish is the trail's terminal event, or none: the flag lets one through.
LEMMA FinishOfTrail ==
    ASSUME NEW c \in Calls, NEW phase \in {"success", "failure"},
           began[c], phase = "success" => ran[c],
           finish(c, phase), UNCHANGED <<began, ran>>
    PROVE  [Trail!Next]_(Trail!vars)
<1>1. CASE ended[c] = "none"
  <2>1. Trail!End(c, phase)
    BY <1>1 DEF finish, Trail!End
  <2> QED
    BY <2>1 DEF Trail!Next
<1>2. CASE ended[c] # "none"
  BY <1>2 DEF finish, Trail!vars
<1> QED
  BY <1>1, <1>2

\* Every step of a call is a step of the trail or none.
LEMMA StepOfTrail == IInv /\ [Next]_vars => [Trail!Next]_(Trail!vars)
<1> SUFFICES ASSUME IInv, [Next]_vars PROVE [Trail!Next]_(Trail!vars)
  OBVIOUS
<1>1. CASE UNCHANGED vars
  BY <1>1 DEF vars, Trail!vars
<1>2. ASSUME NEW c \in Calls, HangsUp(c) PROVE [Trail!Next]_(Trail!vars)
  BY <1>2 DEF HangsUp, bodyVars, Trail!vars
<1>3. ASSUME NEW c \in Calls, Expires(c) PROVE [Trail!Next]_(Trail!vars)
  BY <1>3 DEF Expires, bodyVars, Trail!vars
<1>4. ASSUME NEW c \in Calls, Refuses(c) PROVE [Trail!Next]_(Trail!vars)
  BY <1>4 DEF Refuses, bodyVars, Trail!vars
<1>5. ASSUME NEW c \in Calls, Passes(c) PROVE [Trail!Next]_(Trail!vars)
  BY <1>5 DEF Passes, bodyVars, Trail!vars
<1>6. ASSUME NEW c \in Calls, AttemptRefused(c) PROVE [Trail!Next]_(Trail!vars)
  BY <1>6 DEF AttemptRefused, bodyVars, Trail!vars
<1>7. ASSUME NEW c \in Calls, AttemptWritten(c) PROVE [Trail!Next]_(Trail!vars)
  BY <1>7 DEF AttemptWritten, Trail!Next, Trail!Attempt
<1>8. ASSUME NEW c \in Calls, Sends(c) PROVE [Trail!Next]_(Trail!vars)
  <2>1. began[c] /\ ended[c] = "none"
    BY <1>8 DEF Sends, IInv, CallInv, Opening, Sent
  <2> QED
    BY <1>8, <2>1 DEF Sends, Trail!Next, Trail!Run
<1>9. ASSUME NEW c \in Calls, Fails(c) PROVE [Trail!Next]_(Trail!vars)
  <2> DEFINE phase == "failure"
  <2>1. began[c] /\ (phase = "success" => ran[c])
    BY <1>9 DEF Fails, IInv, CallInv, Sent, TypeOK, PullStates, Stages
  <2>2. finish(c, phase) /\ UNCHANGED <<began, ran>>
    BY <1>9 DEF Fails
  <2>3. phase \in {"success", "failure"}
    OBVIOUS
  <2> QED
    BY <2>1, <2>2, <2>3, FinishOfTrail
<1>10. ASSUME NEW c \in Calls, FailureAnswered(c) PROVE [Trail!Next]_(Trail!vars)
  BY <1>10 DEF FailureAnswered, bodyVars, Trail!vars
<1>11. ASSUME NEW c \in Calls, NEW ok \in BOOLEAN, NEW next \in {"streaming", "screening"},
             HeadersArrive(c, ok, next)
      PROVE  [Trail!Next]_(Trail!vars)
  BY <1>11 DEF HeadersArrive, bodyVars, Trail!vars
<1>12. ASSUME NEW c \in Calls, NEW ok \in BOOLEAN,
             BodylessArrives(c, ok)
      PROVE  [Trail!Next]_(Trail!vars)
  <2> DEFINE phase == IF ok THEN "success" ELSE "failure"
  <2>1. began[c] /\ (phase = "success" => ran[c])
    BY <1>12 DEF BodylessArrives, IInv, CallInv, Sent, TypeOK, PullStates, Stages
  <2>2. finish(c, phase) /\ UNCHANGED <<began, ran>>
    BY <1>12 DEF BodylessArrives
  <2>3. phase \in {"success", "failure"}
    OBVIOUS
  <2> QED
    BY <2>1, <2>2, <2>3, FinishOfTrail
<1>13. ASSUME NEW c \in Calls, Unfilterable(c) PROVE [Trail!Next]_(Trail!vars)
  <2> DEFINE phase == "failure"
  <2>1. began[c] /\ (phase = "success" => ran[c])
    BY <1>13 DEF Unfilterable, IInv, CallInv, Sent, TypeOK, PullStates, Stages
  <2>2. finish(c, phase) /\ UNCHANGED <<began, ran>>
    BY <1>13 DEF Unfilterable
  <2>3. phase \in {"success", "failure"}
    OBVIOUS
  <2> QED
    BY <2>1, <2>2, <2>3, FinishOfTrail
<1>14. ASSUME NEW c \in Calls, RefusalAnswered(c) PROVE [Trail!Next]_(Trail!vars)
  BY <1>14 DEF RefusalAnswered, bodyVars, Trail!vars
<1>15. ASSUME NEW c \in Calls, Screened(c) PROVE [Trail!Next]_(Trail!vars)
  BY <1>15 DEF Screened, bodyVars, Trail!vars
<1>16. ASSUME NEW c \in Calls, pull(c) PROVE [Trail!Next]_(Trail!vars)
  BY <1>16 DEF pull, bodyVars, Trail!vars
<1>17. ASSUME NEW c \in Calls, ReadsChunk(c) PROVE [Trail!Next]_(Trail!vars)
  BY <1>17 DEF ReadsChunk, bodyVars, Trail!vars
<1>18. ASSUME NEW c \in Calls, ReadsEnd(c) PROVE [Trail!Next]_(Trail!vars)
  <2> DEFINE phase == IF good[c] THEN "success" ELSE "failure"
  <2>1. began[c] /\ (phase = "success" => ran[c])
    BY <1>18 DEF ReadsEnd, IInv, CallInv, Sent, TypeOK, PullStates, Stages
  <2>2. finish(c, phase) /\ UNCHANGED <<began, ran>>
    BY <1>18 DEF ReadsEnd
  <2>3. phase \in {"success", "failure"}
    OBVIOUS
  <2> QED
    BY <2>1, <2>2, <2>3, FinishOfTrail
<1>19. ASSUME NEW c \in Calls, ReadFails(c) PROVE [Trail!Next]_(Trail!vars)
  <2> DEFINE phase == "failure"
  <2>1. began[c] /\ (phase = "success" => ran[c])
    BY <1>19 DEF ReadFails, IInv, CallInv, Sent, TypeOK, PullStates, Stages
  <2>2. finish(c, phase) /\ UNCHANGED <<began, ran>>
    BY <1>19 DEF ReadFails
  <2>3. phase \in {"success", "failure"}
    OBVIOUS
  <2> QED
    BY <2>1, <2>2, <2>3, FinishOfTrail
<1>20. ASSUME NEW c \in Calls, PullEnds(c) PROVE [Trail!Next]_(Trail!vars)
  BY <1>20 DEF PullEnds, bodyVars, Trail!vars
<1>21. ASSUME NEW c \in Calls, CutShort(c) PROVE [Trail!Next]_(Trail!vars)
  BY <1>21 DEF CutShort, bodyVars, Trail!vars
<1>22. ASSUME NEW c \in Calls, ClientReads(c) PROVE [Trail!Next]_(Trail!vars)
  BY <1>22 DEF ClientReads, bodyVars, Trail!vars
<1>23. ASSUME NEW c \in Calls, cancel(c) PROVE [Trail!Next]_(Trail!vars)
  <2> DEFINE phase == "failure"
  <2>1. began[c] /\ (phase = "success" => ran[c])
    BY <1>23 DEF cancel, IInv, CallInv, Sent, TypeOK, PullStates, Stages
  <2>2. finish(c, phase) /\ UNCHANGED <<began, ran>>
    BY <1>23 DEF cancel
  <2>3. phase \in {"success", "failure"}
    OBVIOUS
  <2> QED
    BY <2>1, <2>2, <2>3, FinishOfTrail
<1>24. ASSUME NEW c \in Calls, CancelEnds(c) PROVE [Trail!Next]_(Trail!vars)
  BY <1>24 DEF CancelEnds, bodyVars, Trail!vars
<1> QED
  BY <1>1, <1>2, <1>3, <1>4, <1>5, <1>6, <1>7, <1>8, <1>9, <1>10, <1>11, <1>12,
     <1>13, <1>14, <1>15, <1>16, <1>17, <1>18, <1>19, <1>20, <1>21, <1>22, <1>23, <1>24
     DEF Next, Handler, Body

\* The proxy implements the audit trail: a call reaches the upstream only under
\* an attempt on record, once, and the log gets one terminal event, a true one.
THEOREM ProxyKeepsTrail == Spec => ImplementsTrail
<1>1. Init => Trail!Init
  BY DEF Init, Trail!Init
<1>2. IInv /\ [Next]_vars => [Trail!Next]_(Trail!vars)
  BY StepOfTrail
<1> QED
  BY Invariance, <1>1, <1>2, PTL DEF Spec, ImplementsTrail, Trail!Spec
=============================================================================
