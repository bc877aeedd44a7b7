----------------------------- MODULE ProxyCall ------------------------------
(***************************************************************************)
(* One forwarded invocation through createMcpProxy (proxy.ts), from the    *)
(* ladder's verdict to the last byte of the answer, with the audit events  *)
(* it leaves.  The handler, the pull and the cancel of the answer's body,  *)
(* the upstream, the client and the deadline take turns at every await.    *)
(*                                                                         *)
(* Calls are tools/call, prompts/get and resources/read, the ones that are *)
(* audited; onAudit is given.  What verify, authorize, gate and price       *)
(* decide is left open here: they refuse or they pass.                     *)
(***************************************************************************)
EXTENDS Integers

CONSTANTS
    Calls,
    MaxChunks,  \* bound on the chunks of an answer's body
    HasDeadline \* whether upstream.timeoutMs is set

ASSUME ProxyCallAssumption == MaxChunks \in Nat /\ HasDeadline \in BOOLEAN

VARIABLES
    stage,      \* where the handler is
    hungUp,     \* request.signal: the client has closed the request
    late,       \* call.deadline: the time is up
    began,      \* whether the sink accepted the attempt
    ran,        \* whether the request was sent upstream
    ended,      \* the terminal event that was written, "none" before (so: written)
    good,       \* whether the answer's status is 2xx
    source,     \* where the answer's bytes come from
    left,       \* chunks of it not read yet
    queued,     \* whether a chunk waits for the client to read it
    pulling,    \* where the pull of the answer's body is
    cancelling, \* where its cancel is
    outcome     \* what the client gets

vars == <<stage, hungUp, late, began, ran, ended, good, source, left, queued,
          pulling, cancelling, outcome>>

bodyVars == <<good, source, left, queued, pulling, cancelling>>

Stages == {"gating", "attempting", "forwarding", "screening", "failing", "refusing",
             "streaming", "done"}
Sources == {"none", "upstream", "memory", "cut"}
PullStates == {"idle", "reading", "finishing", "failing", "closed", "errored"}
CancelStates == {"no", "finishing", "cancelled"}
Outcomes == {"none", "refused", "unreachable", "expired", "client gone", "whole", "cut off"}

TypeOK ==
    /\ stage \in [Calls -> Stages]
    /\ hungUp \in [Calls -> BOOLEAN]
    /\ late \in [Calls -> BOOLEAN]
    /\ began \in [Calls -> BOOLEAN]
    /\ ran \in [Calls -> BOOLEAN]
    /\ ended \in [Calls -> {"none", "success", "failure"}]
    /\ good \in [Calls -> BOOLEAN]
    /\ source \in [Calls -> Sources]
    /\ left \in [Calls -> 0..MaxChunks]
    /\ queued \in [Calls -> BOOLEAN]
    /\ pulling \in [Calls -> PullStates]
    /\ cancelling \in [Calls -> CancelStates]
    /\ outcome \in [Calls -> Outcomes]

Init ==
    /\ stage = [c \in Calls |-> "gating"]
    /\ hungUp = [c \in Calls |-> FALSE]
    /\ late = [c \in Calls |-> FALSE]
    /\ began = [c \in Calls |-> FALSE]
    /\ ran = [c \in Calls |-> FALSE]
    /\ ended = [c \in Calls |-> "none"]
    /\ good = [c \in Calls |-> FALSE]
    /\ source = [c \in Calls |-> "none"]
    /\ left = [c \in Calls |-> 0]
    /\ queued = [c \in Calls |-> FALSE]
    /\ pulling = [c \in Calls |-> "idle"]
    /\ cancelling = [c \in Calls |-> "no"]
    /\ outcome = [c \in Calls |-> "none"]

Goes(c, s) == stage' = [stage EXCEPT ![c] = s]
Gets(c, o) == outcome' = [outcome EXCEPT ![c] = o]

\* What stops a request to the upstream, its body included.
Aborted(c) == hungUp[c] \/ late[c]

\* Mutant of finish: without the flag, each ending writes an event.
finishAgain(c, phase) == ended' = [ended EXCEPT ![c] = phase]

\* call.finish: the terminal event, once.
finish(c, phase) ==
    ended' = IF ended[c] = "none" THEN [ended EXCEPT ![c] = phase] ELSE ended

-----------------------------------------------------------------------------
(* The client and the clock. *)

\* The client may leave at any time until it has the whole answer.
HangsUp(c) ==
    /\ ~hungUp[c] /\ outcome[c] = "none"
    /\ hungUp' = [hungUp EXCEPT ![c] = TRUE]
    /\ UNCHANGED <<stage, late, began, ran, ended, bodyVars, outcome>>

Expires(c) ==
    /\ HasDeadline /\ ~late[c]
    /\ late' = [late EXCEPT ![c] = TRUE]
    /\ UNCHANGED <<stage, hungUp, began, ran, ended, bodyVars, outcome>>

-----------------------------------------------------------------------------
(* The handler: price, forward, filter. *)

\* A rung of the ladder refuses, before anything is recorded.
Refuses(c) ==
    /\ stage[c] = "gating"
    /\ Goes(c, "done") /\ Gets(c, "refused")
    /\ UNCHANGED <<hungUp, late, began, ran, ended, bodyVars>>

Passes(c) ==
    /\ stage[c] = "gating"
    /\ Goes(c, "attempting")
    /\ UNCHANGED <<hungUp, late, began, ran, ended, bodyVars, outcome>>

\* Mutant of AttemptRefused: the call is forwarded all the same.
AttemptRefusedForwards(c) ==
    /\ stage[c] = "attempting"
    /\ Goes(c, "forwarding")
    /\ UNCHANGED <<hungUp, late, began, ran, ended, bodyVars, outcome>>

\* The 503: an action nobody could record does not happen.
AttemptRefused(c) ==
    /\ stage[c] = "attempting"
    /\ Goes(c, "done") /\ Gets(c, "refused")
    /\ UNCHANGED <<hungUp, late, began, ran, ended, bodyVars>>

AttemptWritten(c) ==
    /\ stage[c] = "attempting"
    /\ began' = [began EXCEPT ![c] = TRUE]
    /\ Goes(c, "forwarding")
    /\ UNCHANGED <<hungUp, late, ran, ended, bodyVars, outcome>>

\* forwardToUpstream: the credential is at hand and the request goes out.
Sends(c) ==
    /\ stage[c] = "forwarding" /\ ~ran[c] /\ ~Aborted(c)
    /\ ran' = [ran EXCEPT ![c] = TRUE]
    /\ UNCHANGED <<stage, hungUp, late, began, ended, bodyVars, outcome>>

\* The credential, the network, an abort, or a body that breaks while it is
\* read to be screened: the terminal event is awaited, then the client answered.
Fails(c) ==
    /\ stage[c] \in {"forwarding", "screening"}
    /\ finish(c, "failure")
    /\ Goes(c, "failing")
    /\ UNCHANGED <<hungUp, late, began, ran, bodyVars, outcome>>

\* The deadline is looked at again only now, after the await.
FailureAnswered(c) ==
    /\ stage[c] = "failing"
    /\ Goes(c, "done")
    /\ Gets(c, IF late[c] THEN "expired" ELSE IF hungUp[c] THEN "client gone"
               ELSE "unreachable")
    /\ UNCHANGED <<hungUp, late, began, ran, ended, bodyVars>>

\* The upstream's headers.  Its answer is streamed as it comes, or held whole
\* first: a tools/call answered in JSON, to be screened.
HeadersArrive(c, ok, next) ==
    /\ stage[c] = "forwarding" /\ ran[c] /\ ~Aborted(c)
    /\ next \in {"streaming", "screening"}
    /\ Goes(c, next)
    /\ good' = [good EXCEPT ![c] = ok]
    /\ source' = [source EXCEPT ![c] = "upstream"]
    /\ \E n \in 0..MaxChunks : left' = [left EXCEPT ![c] = n]
    /\ UNCHANGED <<hungUp, late, began, ran, ended, queued, pulling, cancelling, outcome>>

\* An answer without a body: the event is written and nobody waits for it.
BodylessArrives(c, ok) ==
    /\ stage[c] = "forwarding" /\ ran[c] /\ ~Aborted(c)
    /\ good' = [good EXCEPT ![c] = ok]
    /\ finish(c, IF ok THEN "success" ELSE "failure")
    /\ Goes(c, "done") /\ Gets(c, "whole")
    /\ UNCHANGED <<hungUp, late, began, ran, source, left, queued, pulling, cancelling>>

\* Mutant of Unfilterable: the refusal leaves the attempt open in the log.
UnfilterableUnrecorded(c) ==
    /\ \/ stage[c] = "forwarding" /\ ran[c] /\ ~Aborted(c)
       \/ stage[c] = "screening"
    /\ Goes(c, "refusing")
    /\ UNCHANGED <<hungUp, late, began, ran, ended, bodyVars, outcome>>

\* The answer has a type filter cannot read, or held whole it is over the cap
\* or not JSON-RPC: a 502 of the proxy's own.
Unfilterable(c) ==
    /\ \/ stage[c] = "forwarding" /\ ran[c] /\ ~Aborted(c)
       \/ stage[c] = "screening"
    /\ finish(c, "failure")
    /\ Goes(c, "refusing")
    /\ UNCHANGED <<hungUp, late, began, ran, bodyVars, outcome>>

RefusalAnswered(c) ==
    /\ stage[c] = "refusing"
    /\ Goes(c, "done") /\ Gets(c, "refused")
    /\ UNCHANGED <<hungUp, late, began, ran, ended, bodyVars>>

\* Mutant of Screened: the screened chunk is put before those already read.
ScreenedOnTop(c) ==
    /\ stage[c] = "screening" /\ ~Aborted(c)
    /\ Goes(c, "streaming")
    /\ source' = [source EXCEPT ![c] = "memory"]
    /\ left' = [left EXCEPT ![c] = @ + 1]
    /\ UNCHANGED <<hungUp, late, began, ran, ended, good, queued, pulling, cancelling, outcome>>

\* The whole answer was read and screened: one chunk, no longer the network's.
Screened(c) ==
    /\ stage[c] = "screening" /\ ~Aborted(c)
    /\ Goes(c, "streaming")
    /\ source' = [source EXCEPT ![c] = "memory"]
    /\ left' = [left EXCEPT ![c] = IF MaxChunks > 0 THEN 1 ELSE 0]
    /\ UNCHANGED <<hungUp, late, began, ran, ended, good, queued, pulling, cancelling, outcome>>

-----------------------------------------------------------------------------
(* recordedOnCompletion: the answer's body.  A chunk is pulled when none is *)
(* queued, and one pull runs at a time.                                     *)

pull(c) ==
    /\ stage[c] = "streaming"
    /\ pulling[c] = "idle" /\ ~queued[c] /\ cancelling[c] = "no"
    /\ pulling' = [pulling EXCEPT ![c] = "reading"]
    /\ UNCHANGED <<stage, hungUp, late, began, ran, ended, good, source, left, queued,
                   cancelling, outcome>>

\* A chunk.  One that comes after the body was cancelled is dropped.
ReadsChunk(c) ==
    /\ pulling[c] = "reading" /\ left[c] > 0
    /\ source[c] = "upstream" => ~Aborted(c)
    /\ left' = [left EXCEPT ![c] = @ - 1]
    /\ queued' = [queued EXCEPT ![c] = cancelling[c] = "no"]
    /\ pulling' = [pulling EXCEPT ![c] = "idle"]
    /\ UNCHANGED <<stage, hungUp, late, began, ran, ended, good, source, cancelling, outcome>>

\* The body's end, its own or the one a cancelled reader reports.
ReadsEnd(c) ==
    /\ pulling[c] = "reading"
    /\ \/ left[c] = 0 /\ (source[c] = "upstream" => ~Aborted(c))
       \/ cancelling[c] = "cancelled"
    /\ finish(c, IF good[c] THEN "success" ELSE "failure")
    /\ pulling' = [pulling EXCEPT ![c] = "finishing"]
    /\ UNCHANGED <<stage, hungUp, late, began, ran, good, source, left, queued, cancelling,
                   outcome>>

\* The network breaks, or the request was aborted.
ReadFails(c) ==
    /\ pulling[c] = "reading" /\ source[c] = "upstream"
    /\ finish(c, "failure")
    /\ pulling' = [pulling EXCEPT ![c] = "failing"]
    /\ UNCHANGED <<stage, hungUp, late, began, ran, good, source, left, queued, cancelling,
                   outcome>>

\* The terminal event has settled: the body is closed, or errored.
PullEnds(c) ==
    /\ pulling[c] \in {"finishing", "failing"}
    /\ pulling' = [pulling EXCEPT ![c] = IF pulling[c] = "finishing" THEN "closed" ELSE "errored"]
    /\ IF cancelling[c] # "no" THEN UNCHANGED <<stage, outcome>>
       ELSE /\ Goes(c, "done")
            /\ Gets(c, IF pulling[c] = "failing" THEN "cut off"
                       ELSE IF source[c] = "cut" THEN "refused" ELSE "whole")
    /\ UNCHANGED <<hungUp, late, began, ran, ended, good, source, left, queued, cancelling>>

\* An event over the cap: filterEventStream puts a refusal in its place and
\* ends the stream.
CutShort(c) ==
    /\ pulling[c] = "reading" /\ source[c] = "upstream" /\ left[c] > 0 /\ ~Aborted(c)
    /\ source' = [source EXCEPT ![c] = "cut"]
    /\ left' = [left EXCEPT ![c] = 0]
    /\ queued' = [queued EXCEPT ![c] = cancelling[c] = "no"]
    /\ pulling' = [pulling EXCEPT ![c] = "idle"]
    /\ UNCHANGED <<stage, hungUp, late, began, ran, ended, good, cancelling, outcome>>

ClientReads(c) ==
    /\ queued[c] /\ ~hungUp[c]
    /\ queued' = [queued EXCEPT ![c] = FALSE]
    /\ UNCHANGED <<stage, hungUp, late, began, ran, ended, good, source, left, pulling,
                   cancelling, outcome>>

\* Mutant of cancel: the reader is let go before the event is written.
CancelsReaderFirst(c) ==
    /\ hungUp[c] /\ stage[c] = "streaming"
    /\ cancelling[c] = "no" /\ pulling[c] \notin {"closed", "errored"}
    /\ cancelling' = [cancelling EXCEPT ![c] = "cancelled"]
    /\ UNCHANGED <<stage, hungUp, late, began, ran, ended, good, source, left, queued,
                   pulling, outcome>>

\* The host cancels the body of a client that left: the event first, then the
\* upstream's body is let go.
cancel(c) ==
    /\ hungUp[c] /\ stage[c] = "streaming"
    /\ cancelling[c] = "no" /\ pulling[c] \notin {"closed", "errored"}
    /\ finish(c, "failure")
    /\ cancelling' = [cancelling EXCEPT ![c] = "finishing"]
    /\ queued' = [queued EXCEPT ![c] = FALSE]
    /\ UNCHANGED <<stage, hungUp, late, began, ran, good, source, left, pulling, outcome>>

CancelEnds(c) ==
    /\ cancelling[c] = "finishing"
    /\ cancelling' = [cancelling EXCEPT ![c] = "cancelled"]
    /\ Goes(c, "done") /\ Gets(c, "client gone")
    /\ UNCHANGED <<hungUp, late, began, ran, ended, good, source, left, queued, pulling>>

-----------------------------------------------------------------------------
Handler(c) ==
    \/ Refuses(c) \/ Passes(c)
    \/ AttemptRefused(c) \/ AttemptWritten(c)
    \/ Sends(c) \/ Fails(c) \/ FailureAnswered(c)
    \/ \E ok \in BOOLEAN :
          \/ \E next \in {"streaming", "screening"} : HeadersArrive(c, ok, next)
          \/ BodylessArrives(c, ok)
    \/ Unfilterable(c) \/ RefusalAnswered(c) \/ Screened(c)

Body(c) ==
    \/ pull(c) \/ ReadsChunk(c) \/ ReadsEnd(c) \/ ReadFails(c) \/ PullEnds(c)
    \/ CutShort(c) \/ cancel(c) \/ CancelEnds(c)

Next ==
    \E c \in Calls :
        \/ HangsUp(c)
        \/ Expires(c)
        \/ Handler(c)
        \/ Body(c)
        \/ ClientReads(c)

Spec == Init /\ [][Next]_vars

\* The ladder, the sink and the credential settle; an aborted fetch rejects,
\* and so does a body of it; the runtime pulls and cancels; the client reads or
\* leaves, and the time runs out.  The upstream promises nothing.
Fairness ==
    \A c \in Calls :
        /\ WF_vars(Refuses(c) \/ Passes(c))
        /\ WF_vars(AttemptRefused(c) \/ AttemptWritten(c))
        /\ WF_vars(~ran[c] /\ (Sends(c) \/ Fails(c)))
        /\ WF_vars(Aborted(c) /\ (Fails(c) \/ ReadFails(c)))
        /\ WF_vars(source[c] # "upstream" /\ (ReadsChunk(c) \/ ReadsEnd(c)))
        /\ WF_vars(pull(c))
        /\ WF_vars(cancel(c))
        /\ WF_vars(ClientReads(c) \/ HangsUp(c))
        /\ WF_vars(Expires(c))

LiveSpec == Spec /\ Fairness

-----------------------------------------------------------------------------
(* Properties. *)

\* A call reaches the upstream only under an attempt on record, once, and gets
\* one terminal event, whichever of the handler, the pull and the cancel comes
\* first.
Trail == INSTANCE AuditTrail

ImplementsTrail == Trail!Spec

\* The log says success only of a 2xx answer the client has read to its end.
SuccessMeansWhole ==
    \A c \in Calls :
        ended[c] = "success" => ran[c] /\ good[c] /\ left[c] = 0 /\ ~queued[c]

\* What the client got and what the log says agree, for every answer that came
\* to its own end.
AnswerAndAuditAgree ==
    \A c \in Calls :
        /\ outcome[c] = "whole" => ended[c] = IF good[c] THEN "success" ELSE "failure"
        /\ outcome[c] \in {"unreachable", "expired", "cut off"} => ended[c] = "failure"
        /\ outcome[c] = "refused" /\ began[c] => ended[c] # "none"

\* proxy.mdx: "The terminal event waits until the client has read the whole
\* answer, so a body that stalls or breaks counts".  A client that got the
\* proxy's refusal instead of the answer's end is not a success.
RefusalIsNoSuccess ==
    \A c \in Calls : outcome[c] = "refused" => ended[c] # "success"

\* Every attempt is followed by its terminal event, though the upstream stalls:
\* the deadline, or the client, ends it.
EveryAttemptEnds == \A c \in Calls : began[c] ~> ended[c] # "none"
=============================================================================
