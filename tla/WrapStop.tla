------------------------------ MODULE WrapStop -------------------------------
(***************************************************************************)
(* How wrap stops the server it started (wrap.ts): its input is closed,    *)
(* then its group gets SIGTERM, then SIGKILL, each after a grace period in *)
(* which wrap polls. On Windows a supervisor holds a job that dies with it *)
(* (windows-job.ts), and ending the supervisor is the only signal. The     *)
(* group is a launcher and the server it started, which may outlive it. A  *)
(* killed process is gone within the last grace period.                    *)
(***************************************************************************)
CONSTANTS Processes, Launcher       \* Launcher is one of Processes

ASSUME WrapStopAssumption == Launcher \in Processes

VARIABLES windows,   \* the platform
          job,       \* windows: how far Run came
          alive,     \* the processes of the group, or of the job
          deaf,      \* those that ignore SIGTERM
          stop,      \* "no", or how far stop() came
          exited,    \* the child's exit or error was seen
          returned   \* wrap resolved
wsVars == <<windows, job, alive, deaf, stop, exited, returned>>

Steps == {"created", "assigned", "resumed"}

WsInit ==
  /\ windows \in BOOLEAN
  /\ job = IF windows THEN "started" ELSE "none"
  /\ alive = IF windows THEN {} ELSE {Launcher}
  /\ deaf \in SUBSET Processes
  /\ stop = "no" /\ exited = FALSE /\ returned = FALSE

Supervised == job \in {"started"} \cup Steps

\* McpAuthzJob.Run: the launcher is created suspended, put in the job, resumed, waited for.
JobGoesOn ==
  /\ windows /\ Supervised
  /\ \/ job = "started" /\ job' = "created" /\ alive' = {Launcher}
     \/ job = "created" /\ job' = "assigned" /\ UNCHANGED alive
     \/ job = "assigned" /\ job' = "resumed" /\ UNCHANGED alive
  /\ UNCHANGED <<windows, deaf, stop, exited, returned>>

\* A call of Run fails, or the launcher it waits for ends: `finally` closes the job, and ends a
\* launcher that was never assigned to it.
JobEnds ==
  /\ windows /\ Supervised
  /\ job = "resumed" => Launcher \notin alive
  /\ job' = "closed" /\ alive' = {}
  /\ UNCHANGED <<windows, deaf, stop, exited, returned>>

\* The launcher starts the server: a suspended one does nothing.
ServerStarts(p) ==
  /\ Launcher \in alive /\ p \notin alive
  /\ windows => job = "resumed"
  /\ stop = "no"
  /\ alive' = alive \cup {p}
  /\ UNCHANGED <<windows, job, deaf, stop, exited, returned>>

\* A process ends by itself, for want of input, or of a signal it does not ignore.
Dies(p) ==
  /\ p \in alive /\ (windows => job = "resumed")
  /\ stop = "SIGTERM" => p \notin deaf
  /\ alive' = alive \ {p}
  /\ UNCHANGED <<windows, job, deaf, stop, exited, returned>>

\* child.on('exit'): the launcher, or on Windows the supervisor.
ChildGone == IF windows THEN ~Supervised ELSE Launcher \notin alive
SeesExit ==
  /\ ~exited /\ ChildGone
  /\ exited' = TRUE
  /\ UNCHANGED <<windows, job, alive, deaf, stop, returned>>

\* stop: the client's end, an abort, a closed output or the child's exit begins it, once.
StopBegins ==
  /\ stop = "no"
  /\ stop' = "eof"
  /\ UNCHANGED <<windows, job, alive, deaf, exited, returned>>

\* Mutant of TreeAlive: the child stands for its group.
ChildAlive == ~ChildGone
\* treeAlive: the group, not the child, except where the supervisor stands for the job.
TreeAlive == IF windows THEN Supervised ELSE alive # {}

\* goneWithin sees the group gone.
PollsGone ==
  /\ stop \in {"eof", "SIGTERM", "SIGKILL"} /\ ~TreeAlive
  /\ stop' = "done"
  /\ UNCHANGED <<windows, job, alive, deaf, exited, returned>>

\* Mutant of Escalates: SIGTERM is the last signal.
EscalatesOnce ==
  /\ stop = "eof" /\ TreeAlive
  /\ stop' = "SIGTERM"
  /\ IF windows
     THEN /\ job' = "closed"
          /\ alive' = IF job = "created" THEN alive ELSE {}
     ELSE UNCHANGED <<job, alive>>
  /\ UNCHANGED <<windows, deaf, exited, returned>>
\* The grace is over, and signalTree: on Windows the supervisor is killed, its job with it.
Escalates ==
  /\ stop \in {"eof", "SIGTERM"} /\ TreeAlive
  /\ stop' = IF stop = "eof" THEN "SIGTERM" ELSE "SIGKILL"
  /\ IF windows
     THEN /\ job' = "closed"
          /\ alive' = IF job = "created" THEN alive ELSE {}
     ELSE UNCHANGED job /\ alive' = IF stop = "SIGTERM" THEN {} ELSE alive
  /\ UNCHANGED <<windows, deaf, exited, returned>>

\* wrap resolves once the child's exit was seen and stop ran to its end.
Resolves ==
  /\ exited /\ stop = "done" /\ ~returned
  /\ returned' = TRUE
  /\ UNCHANGED <<windows, job, alive, deaf, stop, exited>>

WsStep == SeesExit \/ (exited /\ StopBegins) \/ PollsGone \/ Escalates \/ Resolves
WsNext ==
  \/ JobGoesOn \/ JobEnds \/ StopBegins \/ WsStep
  \/ \E p \in Processes : ServerStarts(p) \/ Dies(p)
WsSpec == WsInit /\ [][WsNext]_wsVars /\ WF_wsVars(WsStep)

-----------------------------------------------------------------------------
(* Properties.                                                             *)

\* Shape of the state.
WsTypeOK ==
  /\ windows \in BOOLEAN /\ alive \subseteq Processes /\ deaf \subseteq Processes
  /\ job \in {"none", "started", "closed"} \cup Steps
  /\ stop \in {"no", "eof", "SIGTERM", "SIGKILL", "done"}
  /\ {exited, returned} \subseteq BOOLEAN

\* When wrap returns, nothing it started still runs, however the launcher and the server took
\* the signals (wrap.ts:306-330, 391-410). A launcher still suspended, which has run nothing, is
\* left when its supervisor is killed between creating it and putting it in the job.
NothingLeftBehind ==
  returned => alive \subseteq (IF windows THEN {Launcher} ELSE {})

\* A wrap that began to stop returns, whatever ignores SIGTERM.
WrapReturns == stop # "no" ~> returned
=============================================================================
