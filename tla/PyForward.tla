------------------------------ MODULE PyForward ------------------------------
(***************************************************************************)
(* A recorded call through the Python proxy (proxy.py, _forward_recorded   *)
(* and _within_deadline): the forward to the upstream, the client's hangup *)
(* and the deadline race, the losers are stopped, and what happened is     *)
(* written down. ASGI's receive() reports a hangup both when the client    *)
(* left and when its answer is complete. The server running the app may    *)
(* cancel it, and a send may raise.                                        *)
(***************************************************************************)
CONSTANTS PfCalls

VARIABLE pf \* per call: see PfTypeOK
PfIdle == [at |-> "new", limited |-> FALSE, fwd |-> "none", ran |-> FALSE, status |-> "none",
           out |-> "nothing", hangup |-> FALSE, late |-> FALSE, phase |-> "none", ended |-> "none"]
PfInit == pf = [c \in PfCalls |-> PfIdle]

Becomes(c, r) == pf' = [pf EXCEPT ![c] = r]
Forwarding(c) == pf[c].at = "racing" /\ pf[c].fwd = "running"

\* The attempt is on record, or the call is refused with 503. No deadline is the default.
PfStarts(c, recorded, limited) ==
  /\ pf[c].at = "new"
  /\ Becomes(c, IF recorded THEN [pf[c] EXCEPT !.at = "racing", !.fwd = "running", !.limited = limited]
                ELSE [pf[c] EXCEPT !.at = "refused", !.out = "whole"])

-----------------------------------------------------------------------------
(* _forward, and the client's side of it through watched().                *)

\* The request goes out.
PfRuns(c) ==
  /\ pf[c].fwd = "running" /\ ~pf[c].ran
  /\ Becomes(c, [pf[c] EXCEPT !.ran = TRUE])

\* http.response.start: the upstream's status, or the 502 of an answer nobody could read.
PfHead(c, status) ==
  /\ pf[c].fwd = "running" /\ pf[c].ran /\ pf[c].out = "nothing"
  /\ Becomes(c, [pf[c] EXCEPT !.out = "head", !.status = status])

PfBody(c) ==
  /\ pf[c].fwd = "running" /\ pf[c].out = "head"
  /\ Becomes(c, [pf[c] EXCEPT !.out = "whole"])

\* The forward returns with its answer sent, or raises anywhere.
PfReturns(c) ==
  /\ Forwarding(c)
  /\ \/ pf[c].out = "whole" /\ Becomes(c, [pf[c] EXCEPT !.fwd = "done"])
     \/ Becomes(c, [pf[c] EXCEPT !.fwd = "raised"])

PfHangsUp(c) ==
  /\ pf[c].at = "racing" /\ ~pf[c].hangup
  /\ Becomes(c, [pf[c] EXCEPT !.hangup = TRUE])

PfExpires(c) ==
  /\ pf[c].at = "racing" /\ pf[c].limited /\ ~pf[c].late
  /\ Becomes(c, [pf[c] EXCEPT !.late = TRUE])

-----------------------------------------------------------------------------
\* Mutant of Halted: the forward is left running.
HaltedNever(r) ==
  [r EXCEPT !.phase = IF r.fwd = "done" /\ r.status = "ok" THEN "success" ELSE "failure"]
\* The outcome _within_deadline returns, in its order, as the phase its caller makes of it.
Halted(r) ==
  [r EXCEPT !.fwd = IF @ = "running" THEN "stopped" ELSE @,
            !.phase = IF r.fwd = "done" /\ r.status = "ok" THEN "success" ELSE "failure"]

\* asyncio.wait returns: on a deadline alone the client is answered, with a 504 or with the end
\* of what it was being sent, which may be more than it takes.
Wakes(c) ==
  LET alone == pf[c].fwd = "running" /\ ~pf[c].hangup
  IN /\ pf[c].at = "racing" /\ (pf[c].fwd # "running" \/ pf[c].hangup \/ pf[c].late)
     /\ \/ Becomes(c, [Halted(pf[c]) EXCEPT !.at = "ending",
                         !.out = IF ~alone THEN @
                                 ELSE IF pf[c].status = "none" THEN "504"
                                 ELSE IF @ = "head" THEN "cut" ELSE @])
        \/ alone /\ Becomes(c, [Halted(pf[c]) EXCEPT !.at = "lost"])

\* deliver_terminal_audit: whether the sink takes it or on_audit_error gets it.
PfRecords(c) ==
  /\ pf[c].at = "ending"
  /\ Becomes(c, [pf[c] EXCEPT !.at = "over", !.ended = pf[c].phase])

\* The server cancels the app: `except Exception` does not see it.
PfCancelled(c) ==
  /\ pf[c].at \in {"racing", "ending"}
  /\ Becomes(c, [pf[c] EXCEPT !.at = "lost", !.fwd = IF @ = "running" THEN "stopped" ELSE @])

PfGoes(c) == PfReturns(c) \/ PfExpires(c) \/ Wakes(c) \/ PfRecords(c)
PfNext == \E c \in PfCalls :
  \/ \E recorded, limited \in BOOLEAN : PfStarts(c, recorded, limited)
  \/ PfRuns(c) \/ \E status \in {"ok", "error"} : PfHead(c, status)
  \/ PfBody(c) \/ PfHangsUp(c) \/ PfGoes(c) \/ PfCancelled(c)
\* Timers fire and sinks settle. The upstream need not answer.
PfFair(c) == PfExpires(c) \/ Wakes(c) \/ PfRecords(c)
PfSpec == PfInit /\ [][PfNext]_pf /\ \A c \in PfCalls : WF_pf(PfFair(c))

-----------------------------------------------------------------------------
(* Properties.                                                             *)

\* Shape of the state.
PfTypeOK ==
  pf \in [PfCalls -> [at : {"new", "racing", "ending", "over", "refused", "lost"},
                      limited : BOOLEAN, fwd : {"none", "running", "done", "raised", "stopped"},
                      ran : BOOLEAN, status : {"none", "ok", "error"},
                      out : {"nothing", "head", "whole", "cut", "504"},
                      hangup : BOOLEAN, late : BOOLEAN, phase : {"none", "success", "failure"},
                      ended : {"none", "success", "failure"}]]

PfTrail == INSTANCE AuditTrail WITH
  Calls <- PfCalls,
  began <- [c \in PfCalls |-> pf[c].at \notin {"new", "refused"}],
  ran <- [c \in PfCalls |-> pf[c].ran],
  ended <- [c \in PfCalls |-> pf[c].ended]

\* A success on record is an answer below 400 the client was sent whole, and such an answer is
\* recorded a failure only when the client's hangup, the deadline or a raise came with it
\* (proxy.py:379-397).
RecordedAsSent ==
  \A c \in PfCalls :
    /\ pf[c].ended = "success" => pf[c].out = "whole" /\ pf[c].status = "ok"
    /\ pf[c].ended = "failure" /\ pf[c].out = "whole" /\ pf[c].status = "ok" =>
         pf[c].hangup \/ pf[c].late \/ pf[c].fwd = "raised"

\* The proxy keeps the promise of the audit trail: the upstream never gets a call without an
\* attempt on record, nor after its terminal event, as the forward is stopped before that one is
\* written; and what the event says is what was sent (proxy.py:357-364, 404-411).
PfKeepsTrail == PfTrail!Spec /\ []RecordedAsSent

\* A call with a deadline ends, with its terminal event or cancelled, also when the upstream
\* never answers and the client never leaves (proxy.py:399-408).
LimitedCallsEnd ==
  \A c \in PfCalls : pf[c].limited ~> pf[c].at \in {"over", "lost"}
=============================================================================
