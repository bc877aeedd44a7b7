------------------------------ MODULE Guarding ------------------------------
(***************************************************************************)
(* guarding (tools.ts): what wraps a permitted invocation in embed mode,   *)
(* and for tools wrapped by gate.  It records the attempt, asks a person   *)
(* where the capability declared it, runs the handler, and records how it  *)
(* ended.  The audit sink, the person and the handler are awaited, and the *)
(* person races a timer.                                                   *)
(***************************************************************************)
CONSTANTS
    Calls,
    Audited \* whether onAudit was passed

ASSUME GuardingAssumption == Audited \in BOOLEAN

VARIABLES
    stage,   \* what each call awaits
    asks,    \* whether it needs approval
    said,    \* what the person has said so far, also when it was too late
    expired, \* whether the approval's time ran out first
    began,   \* whether the sink accepted the attempt
    ran,     \* whether the handler was started
    settled, \* how the call goes on to end: the terminal event's phase
    ended,   \* the terminal event made for it
    outcome  \* what the caller gets

vars == <<stage, asks, said, expired, began, ran, settled, ended, outcome>>

Stages   == {"new", "attempting", "asking", "running", "ending", "done"}
Answers  == {"approved", "anonymous", "declined", "failed"}
Phases   == {"success", "failure", "refused"}
Outcomes == {"result", "error", "refusal"}

TypeOK ==
    /\ stage \in [Calls -> Stages]
    /\ asks \in [Calls -> BOOLEAN]
    /\ said \in [Calls -> Answers \cup {"nothing"}]
    /\ expired \in [Calls -> BOOLEAN]
    /\ began \in [Calls -> BOOLEAN]
    /\ ran \in [Calls -> BOOLEAN]
    /\ settled \in [Calls -> Phases \cup {"none"}]
    /\ ended \in [Calls -> Phases \cup {"none"}]
    /\ outcome \in [Calls -> Outcomes \cup {"none"}]

Init ==
    /\ stage = [c \in Calls |-> "new"]
    /\ asks = [c \in Calls |-> FALSE]
    /\ said = [c \in Calls |-> "nothing"]
    /\ expired = [c \in Calls |-> FALSE]
    /\ began = [c \in Calls |-> FALSE]
    /\ ran = [c \in Calls |-> FALSE]
    /\ settled = [c \in Calls |-> "none"]
    /\ ended = [c \in Calls |-> "none"]
    /\ outcome = [c \in Calls |-> "none"]

Reaches(c, s) == stage' = [stage EXCEPT ![c] = s]

-----------------------------------------------------------------------------
\* needsApproval and audit are the application's: either may throw.
Start(c) ==
    /\ stage[c] = "new"
    /\ \/ /\ \E asking \in BOOLEAN :
               /\ asks' = [asks EXCEPT ![c] = asking]
               /\ Reaches(c, IF Audited THEN "attempting"
                             ELSE IF asking THEN "asking" ELSE "running")
          /\ UNCHANGED outcome
       \/ /\ Reaches(c, "done")
          /\ outcome' = [outcome EXCEPT ![c] = "error"]
          /\ UNCHANGED asks
    /\ UNCHANGED <<said, expired, began, ran, settled, ended>>

\* Mutant of AttemptRefused: a sink that throws is passed over.
AttemptRefusedRuns(c) ==
    /\ stage[c] = "attempting"
    /\ Reaches(c, "running")
    /\ UNCHANGED <<asks, said, expired, began, ran, settled, ended, outcome>>

\* The sink rejects the attempt, and so does the call.
AttemptRefused(c) ==
    /\ stage[c] = "attempting"
    /\ Reaches(c, "done")
    /\ outcome' = [outcome EXCEPT ![c] = "error"]
    /\ UNCHANGED <<asks, said, expired, began, ran, settled, ended>>

AttemptWritten(c) ==
    /\ stage[c] = "attempting"
    /\ began' = [began EXCEPT ![c] = TRUE]
    /\ Reaches(c, IF asks[c] THEN "asking" ELSE "running")
    /\ UNCHANGED <<asks, said, expired, ran, settled, ended, outcome>>

-----------------------------------------------------------------------------
(* decideWithin: the first of the person and the timer decides. *)

\* Mutant of Decided: whoever approved need not have a name.
DecidedByAnyone(c, answer) ==
    IF answer \in {"approved", "anonymous"}
    THEN Reaches(c, "running") /\ UNCHANGED <<settled, outcome>>
    ELSE /\ Reaches(c, "ending")
         /\ settled' = [settled EXCEPT ![c] = "refused"]
         /\ outcome' = [outcome EXCEPT ![c] = "refusal"]

Decided(c, answer) ==
    IF answer = "approved"
    THEN Reaches(c, "running") /\ UNCHANGED <<settled, outcome>>
    ELSE /\ Reaches(c, "ending")
         /\ settled' = [settled EXCEPT ![c] = "refused"]
         /\ outcome' = [outcome EXCEPT ![c] = "refusal"]

\* An answer, or an approval sink that throws.  After the timer it changes
\* nothing.
PersonAnswers(c, answer) ==
    /\ asks[c] /\ stage[c] \in {"asking", "running", "ending", "done"}
    /\ said[c] = "nothing"
    /\ stage[c] # "asking" => expired[c]
    /\ said' = [said EXCEPT ![c] = answer]
    /\ IF stage[c] = "asking" THEN Decided(c, answer)
       ELSE UNCHANGED <<stage, settled, outcome>>
    /\ UNCHANGED <<asks, expired, began, ran, ended>>

TimerFires(c) ==
    /\ stage[c] = "asking"
    /\ expired' = [expired EXCEPT ![c] = TRUE]
    /\ Decided(c, "nothing")
    /\ UNCHANGED <<asks, said, began, ran, ended>>

-----------------------------------------------------------------------------
Run(c) ==
    /\ stage[c] = "running" /\ ~ran[c]
    /\ ran' = [ran EXCEPT ![c] = TRUE]
    /\ UNCHANGED <<stage, asks, said, expired, began, settled, ended, outcome>>

\* The handler returns or throws.  Unwatched (no sink, no question), its
\* promise is the caller's own.
HandlerSettles(c, phase) ==
    /\ stage[c] = "running" /\ ran[c]
    /\ outcome' = [outcome EXCEPT ![c] = IF phase = "success" THEN "result" ELSE "error"]
    /\ Reaches(c, IF Audited \/ asks[c] THEN "ending" ELSE "done")
    /\ settled' = [settled EXCEPT ![c] = phase]
    /\ UNCHANGED <<asks, said, expired, began, ran, ended>>

\* Mutant of TerminalWritten: a terminal write that fails fails the call.
TerminalWrittenOrThrown(c, accepted) ==
    /\ stage[c] = "ending"
    /\ Reaches(c, "done")
    /\ ended' = IF Audited THEN [ended EXCEPT ![c] = settled[c]] ELSE ended
    /\ outcome' = IF accepted THEN outcome ELSE [outcome EXCEPT ![c] = "error"]
    /\ UNCHANGED <<asks, said, expired, began, ran, settled>>

\* deliverTerminalAudit: to the sink, or when it throws to onAuditError.
TerminalWritten(c, accepted) ==
    /\ stage[c] = "ending"
    /\ Reaches(c, "done")
    /\ ended' = IF Audited THEN [ended EXCEPT ![c] = settled[c]] ELSE ended
    /\ UNCHANGED <<asks, said, expired, began, ran, settled, outcome>>

Next ==
    \E c \in Calls :
        \/ Start(c)
        \/ AttemptRefused(c)
        \/ AttemptWritten(c)
        \/ \E answer \in Answers : PersonAnswers(c, answer)
        \/ TimerFires(c)
        \/ Run(c)
        \/ \E phase \in {"success", "failure"} : HandlerSettles(c, phase)
        \/ \E accepted \in BOOLEAN : TerminalWritten(c, accepted)

Spec == Init /\ [][Next]_vars

\* The sink and the handler settle, and the timer fires.  The person need not
\* ever answer.
Fairness ==
    \A c \in Calls :
        /\ WF_vars(AttemptRefused(c) \/ AttemptWritten(c))
        /\ WF_vars(TimerFires(c))
        /\ WF_vars(Run(c))
        /\ WF_vars(\E phase \in {"success", "failure"} : HandlerSettles(c, phase))
        /\ WF_vars(\E accepted \in BOOLEAN : TerminalWritten(c, accepted))

LiveSpec == Spec /\ Fairness

-----------------------------------------------------------------------------
(* Properties. *)

\* With a sink, guarding keeps the promise of the audit trail: no handler runs
\* without its attempt on record, and every event after that one is the truth.
Trail == INSTANCE AuditTrail

ImplementsTrail == Trail!Spec

\* A handler that wanted a person runs only on the word of one who gave a name
\* before the time ran out; no later word starts it.
RunsOnlyApproved ==
    \A c \in Calls : asks[c] /\ ran[c] => said[c] = "approved" /\ ~expired[c]

\* The caller gets what the handler came to, or the refusal, whatever became of
\* the terminal event.
ResultStands ==
    \A c \in Calls :
        stage[c] = "done" =>
            CASE settled[c] = "success" -> outcome[c] = "result"
              [] settled[c] = "refused" -> outcome[c] = "refusal" /\ ~ran[c]
              [] OTHER -> outcome[c] = "error"

\* Every call ends, though nobody ever answers for it.
EveryCallEnds == \A c \in Calls : stage[c] # "new" ~> stage[c] = "done"
=============================================================================
