----------------------------- MODULE AuditTrail -----------------------------
(***************************************************************************)
(* What the mcp_authz.audit.v1 events promise a reader of the log: an      *)
(* action runs only under an attempt that was recorded, runs once, and     *)
(* gets one terminal event, which no later one contradicts.                *)
(***************************************************************************)
CONSTANTS Calls

VARIABLES
    began, \* whether a call's attempt was recorded
    ran,   \* whether its action was started
    ended  \* its terminal event, "none" before there is one

vars == <<began, ran, ended>>

Init ==
    /\ began = [c \in Calls |-> FALSE]
    /\ ran = [c \in Calls |-> FALSE]
    /\ ended = [c \in Calls |-> "none"]

Attempt(c) ==
    /\ began' = [began EXCEPT ![c] = TRUE]
    /\ UNCHANGED <<ran, ended>>

Run(c) ==
    /\ began[c] /\ ~ran[c] /\ ended[c] = "none"
    /\ ran' = [ran EXCEPT ![c] = TRUE]
    /\ UNCHANGED <<began, ended>>

\* What succeeded has run, and what was refused has not.
End(c, phase) ==
    /\ began[c] /\ ended[c] = "none"
    /\ phase = "success" => ran[c]
    /\ phase = "refused" => ~ran[c]
    /\ ended' = [ended EXCEPT ![c] = phase]
    /\ UNCHANGED <<began, ran>>

Next ==
    \E c \in Calls :
        \/ Attempt(c)
        \/ Run(c)
        \/ \E phase \in {"success", "failure", "refused"} : End(c, phase)

Spec == Init /\ [][Next]_vars
=============================================================================
