----------------------------- MODULE RecordGate -----------------------------
(***************************************************************************)
(* What holding an upstream to its record promises a caller, with no cache *)
(* in sight: a request is admitted only when each recorded definition it   *)
(* reaches really stood upstream within the last Window ticks.             *)
(***************************************************************************)
EXTENDS Integers

CONSTANTS Labels, Recorded, Calls, Window

VARIABLES
    now,
    live,         \* what stands behind each label upstream
    lastRecorded, \* when that last was the recorded definition
    asking,       \* the labels each unanswered request waits for, {} for none
    answer        \* each request's latest answer

vars == <<now, live, lastRecorded, asking, answer>>

Never == -1
Definitions == {"recorded", "different", "absent"}

Init ==
    /\ now = 0
    /\ live \in [Labels -> Definitions]
    /\ lastRecorded = [l \in Labels |-> IF live[l] = "recorded" THEN 0 ELSE Never]
    /\ asking = [c \in Calls |-> {}]
    /\ answer = [c \in Calls |-> "none"]

Passes ==
    /\ now' = now + 1
    /\ lastRecorded' = [l \in Labels |->
                          IF live[l] = "recorded" THEN now + 1 ELSE lastRecorded[l]]

Tick == Passes /\ UNCHANGED <<live, asking, answer>>

Change(l, d) ==
    /\ live' = [live EXCEPT ![l] = d]
    /\ lastRecorded' = [lastRecorded EXCEPT ![l] = IF d = "recorded" THEN now ELSE @]
    /\ UNCHANGED <<now, asking, answer>>

Ask(c, labels) ==
    /\ asking[c] = {}
    /\ asking' = [asking EXCEPT ![c] = labels]
    /\ answer' = [answer EXCEPT ![c] = "none"]
    /\ UNCHANGED <<now, live, lastRecorded>>

\* An admission vouches for every recorded label it reaches.
Vouched(labels) ==
    \A l \in labels \cap Recorded :
        lastRecorded'[l] # Never /\ now' - lastRecorded'[l] < Window

Answers(c, labels) ==
    \/ answer' = [answer EXCEPT ![c] = "refused"]
    \/ Vouched(labels) /\ answer' = [answer EXCEPT ![c] = "admitted"]

Answer(c) ==
    /\ asking[c] # {}
    /\ UNCHANGED <<now, live, lastRecorded>>
    /\ Answers(c, asking[c])
    /\ asking' = [asking EXCEPT ![c] = {}]

\* A request may be answered as it asks; the clock may move meanwhile.
AnswerAtOnce(c, labels) ==
    /\ asking[c] = {}
    /\ Passes \/ UNCHANGED <<now, lastRecorded>>
    /\ Answers(c, labels)
    /\ UNCHANGED <<live, asking>>

Next ==
    \/ Tick
    \/ \E l \in Labels, d \in Definitions : Change(l, d)
    \/ \E c \in Calls, labels \in (SUBSET Labels) \ {{}} :
          Ask(c, labels) \/ AnswerAtOnce(c, labels)
    \/ \E c \in Calls : Answer(c)

Spec == Init /\ [][Next]_vars
=============================================================================
