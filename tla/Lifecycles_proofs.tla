------------------------- MODULE Lifecycles_proofs -------------------------
(***************************************************************************)
(* Theorems about embed mode's calls (Guarding), the files of wrap         *)
(* (WrapConfig) and how wrap stops its server (WrapStop), for any calls,   *)
(* tools, versions and processes; and, with those about the Python proxy,  *)
(* that all five keep their invariants where MCLifecycles runs them.       *)
(***************************************************************************)
EXTENDS MCLifecycles, PyProxy_proofs

(* A call in embed mode. The invariant says of each call what its stage    *)
(* tells about the rest of its state.                                      *)

\* What the caller gets fits the phase the call settled in.
Fits(phase, result) ==
    /\ phase = "success" => result = "result"
    /\ phase = "refused" => result = "refusal"
    /\ phase \notin {"success", "refused"} => result = "error"

\* Before the handler may start, nothing of its end exists.
NotYet(c) ==
    stage[c] \in {"new", "attempting", "asking"} =>
        ~ran[c] /\ ~expired[c] /\ settled[c] = "none"

\* A handler that needed a person is at its turn only on a named approval.
AtItsTurn(c) ==
    /\ stage[c] = "running" => settled[c] = "none"
    /\ asks[c] /\ (ran[c] \/ stage[c] = "running") => said[c] = "approved" /\ ~expired[c]

\* The terminal event is still to come, and will be true.
ToEnd(c) ==
    /\ stage[c] # "done" => ended[c] = "none"
    /\ Audited /\ stage[c] \in {"asking", "running", "ending"} => began[c]
    /\ stage[c] = "ending" => settled[c] # "none"
    /\ stage[c] \in {"ending", "done"} =>
          /\ Fits(settled[c], outcome[c])
          /\ settled[c] = "success" => ran[c]
          /\ settled[c] = "refused" => ~ran[c]

CallInv(c) == NotYet(c) /\ AtItsTurn(c) /\ ToEnd(c)

IInv == TypeOK /\ \A c \in Calls : CallInv(c)

-----------------------------------------------------------------------------
\* Guarding starts in the invariant.
LEMMA InitInv == Init => IInv
  BY DEF Init, IInv, TypeOK, CallInv, NotYet, AtItsTurn, ToEnd, Fits,
         Stages, Answers, Phases, Outcomes

\* Every step of guarding, of the person and of the timer keeps the types.
LEMMA StepTypes == TypeOK /\ [Next]_vars => TypeOK'
<1> SUFFICES ASSUME TypeOK, [Next]_vars PROVE TypeOK'
  OBVIOUS
<1> USE GuardingAssumption DEF TypeOK, Stages, Answers, Phases, Outcomes, Reaches
<1>1. CASE UNCHANGED vars
  BY <1>1 DEF vars
<1>2. ASSUME NEW c \in Calls, Start(c) PROVE TypeOK'
  BY <1>2 DEF Start
<1>3. ASSUME NEW c \in Calls, AttemptRefused(c) PROVE TypeOK'
  BY <1>3 DEF AttemptRefused
<1>4. ASSUME NEW c \in Calls, AttemptWritten(c) PROVE TypeOK'
  BY <1>4 DEF AttemptWritten
<1>5. ASSUME NEW c \in Calls, NEW answer \in Answers, PersonAnswers(c, answer)
      PROVE  TypeOK'
  BY <1>5 DEF PersonAnswers, Decided
<1>6. ASSUME NEW c \in Calls, TimerFires(c) PROVE TypeOK'
  BY <1>6 DEF TimerFires, Decided
<1>7. ASSUME NEW c \in Calls, Run(c) PROVE TypeOK'
  BY <1>7 DEF Run
<1>8. ASSUME NEW c \in Calls, NEW phase \in {"success", "failure"}, HandlerSettles(c, phase)
      PROVE  TypeOK'
  BY <1>8 DEF HandlerSettles
<1>9. ASSUME NEW c \in Calls, NEW accepted \in BOOLEAN, TerminalWritten(c, accepted)
      PROVE  TypeOK'
  BY <1>9 DEF TerminalWritten
<1> QED
  BY <1>1, <1>2, <1>3, <1>4, <1>5, <1>6, <1>7, <1>8, <1>9 DEF Next

\* Every step keeps what a call's stage says of it, of the call that takes it
\* and of the others.
LEMMA StepCalls == IInv /\ [Next]_vars => \A d \in Calls : CallInv(d)'
<1> SUFFICES ASSUME IInv, [Next]_vars, NEW d \in Calls PROVE CallInv(d)'
  OBVIOUS
<1>0. TypeOK /\ CallInv(d)
  BY DEF IInv
<1> USE <1>0, GuardingAssumption
    DEF TypeOK, CallInv, NotYet, AtItsTurn, ToEnd, Fits, Reaches,
        Stages, Answers, Phases, Outcomes
<1>1. CASE UNCHANGED vars
  BY <1>1 DEF vars
<1>2. ASSUME NEW c \in Calls, Start(c) PROVE CallInv(d)'
  BY <1>2 DEF Start
<1>3. ASSUME NEW c \in Calls, AttemptRefused(c) PROVE CallInv(d)'
  BY <1>3 DEF AttemptRefused
<1>4. ASSUME NEW c \in Calls, AttemptWritten(c) PROVE CallInv(d)'
  BY <1>4 DEF AttemptWritten
<1>5. ASSUME NEW c \in Calls, NEW answer \in Answers, PersonAnswers(c, answer)
      PROVE  CallInv(d)'
  <2>1. CASE stage[c] = "asking"
    BY <1>5, <2>1 DEF PersonAnswers, Decided
  <2>2. CASE stage[c] # "asking"
    BY <1>5, <2>2 DEF PersonAnswers
  <2> QED
    BY <2>1, <2>2
<1>6. ASSUME NEW c \in Calls, TimerFires(c) PROVE CallInv(d)'
  BY <1>6 DEF TimerFires, Decided
<1>7. ASSUME NEW c \in Calls, Run(c) PROVE CallInv(d)'
  BY <1>7 DEF Run
<1>8. ASSUME NEW c \in Calls, NEW phase \in {"success", "failure"}, HandlerSettles(c, phase)
      PROVE  CallInv(d)'
  BY <1>8 DEF HandlerSettles
<1>9. ASSUME NEW c \in Calls, NEW accepted \in BOOLEAN, TerminalWritten(c, accepted)
      PROVE  CallInv(d)'
  BY <1>9 DEF TerminalWritten
<1> QED
  BY <1>1, <1>2, <1>3, <1>4, <1>5, <1>6, <1>7, <1>8, <1>9 DEF Next

\* Every step keeps the invariant.
LEMMA StepInv == IInv /\ [Next]_vars => IInv'
  BY StepTypes, StepCalls DEF IInv

\* The invariant holds always.
THEOREM Invariance == Spec => []IInv
  BY InitInv, StepInv, PTL DEF Spec

-----------------------------------------------------------------------------
\* guarding's state keeps its types (tools.ts:247-337).
THEOREM TypeCorrect == Spec => []TypeOK
<1>1. IInv => TypeOK
  BY DEF IInv
<1> QED
  BY Invariance, <1>1, PTL

\* A handler that wanted a person runs only on a named approval in time, with
\* or without an audit sink, whatever the order of answer and timer (tools.ts:283-316, 372-389).
THEOREM ApprovalGuards == Spec => []RunsOnlyApproved
<1>1. IInv => RunsOnlyApproved
  BY DEF IInv, CallInv, AtItsTurn, RunsOnlyApproved
<1> QED
  BY Invariance, <1>1, PTL

\* The caller gets what its call came to, also where the sink loses the
\* terminal event (tools.ts:259-358).
THEOREM ResultIsTheCallers == Spec => []ResultStands
<1>1. IInv => ResultStands
  BY DEF IInv, CallInv, ToEnd, Fits, ResultStands
<1> QED
  BY Invariance, <1>1, PTL

-----------------------------------------------------------------------------
\* With a sink, every step of guarding is a step of the trail or none.
LEMMA StepOfTrail ==
    Audited /\ IInv /\ [Next]_vars => [Trail!Next]_(Trail!vars)
<1> SUFFICES ASSUME Audited, IInv, [Next]_vars
             PROVE  [Trail!Next]_(Trail!vars)
  OBVIOUS
<1> USE DEF Trail!vars
<1>1. CASE UNCHANGED vars
  BY <1>1 DEF vars
<1>2. ASSUME NEW c \in Calls, Start(c) PROVE UNCHANGED Trail!vars
  BY <1>2 DEF Start
<1>3. ASSUME NEW c \in Calls, AttemptRefused(c) PROVE UNCHANGED Trail!vars
  BY <1>3 DEF AttemptRefused
<1>4. ASSUME NEW c \in Calls, AttemptWritten(c) PROVE Trail!Next
  BY <1>4 DEF AttemptWritten, Trail!Next, Trail!Attempt
<1>5. ASSUME NEW c \in Calls, NEW answer \in Answers, PersonAnswers(c, answer)
      PROVE  UNCHANGED Trail!vars
  BY <1>5 DEF PersonAnswers
<1>6. ASSUME NEW c \in Calls, TimerFires(c) PROVE UNCHANGED Trail!vars
  BY <1>6 DEF TimerFires
<1>7. ASSUME NEW c \in Calls, Run(c) PROVE Trail!Next
  <2>1. began[c] /\ ended[c] = "none"
    BY <1>7 DEF Run, IInv, CallInv, ToEnd
  <2> QED
    BY <1>7, <2>1 DEF Run, Trail!Next, Trail!Run
<1>8. ASSUME NEW c \in Calls, NEW phase \in {"success", "failure"}, HandlerSettles(c, phase)
      PROVE  UNCHANGED Trail!vars
  BY <1>8 DEF HandlerSettles
<1>9. ASSUME NEW c \in Calls, NEW accepted \in BOOLEAN, TerminalWritten(c, accepted)
      PROVE  Trail!Next
  <2>1. /\ began[c] /\ ended[c] = "none"
        /\ settled[c] = "success" => ran[c]
        /\ settled[c] = "refused" => ~ran[c]
        /\ settled[c] \in {"success", "failure", "refused"}
    BY <1>9 DEF TerminalWritten, IInv, CallInv, ToEnd, TypeOK, Phases
  <2>2. Trail!End(c, settled[c])
    BY <1>9, <2>1 DEF TerminalWritten, Trail!End
  <2> QED
    BY <2>1, <2>2 DEF Trail!Next
<1> QED
  BY <1>1, <1>2, <1>3, <1>4, <1>5, <1>6, <1>7, <1>8, <1>9 DEF Next

\* With a sink, guarding implements the audit trail: no handler runs without
\* its attempt on record, and it gets one terminal event, a true one (tools.ts:259-358).
THEOREM GuardingKeepsTrail == Audited => (Spec => ImplementsTrail)
<1> SUFFICES ASSUME Audited PROVE Spec => ImplementsTrail
  OBVIOUS
<1>1. Init => Trail!Init
  BY DEF Init, Trail!Init
<1>2. IInv /\ [Next]_vars => [Trail!Next]_(Trail!vars)
  BY StepOfTrail
<1> QED
  BY Invariance, <1>1, <1>2, PTL DEF Spec, ImplementsTrail, Trail!Spec

-----------------------------------------------------------------------------
(* The files of wrap. The invariant says of each file on its own what     *)
(* somebody agreed to, between a save's two writes too.                    *)

\* Everything a config has on is, as `of` records it, what somebody agreed to; and what `of` lacks
\* and a deny list leaves on, somebody left on.
Agreed(c, of) ==
  \A t \in WcTools : On(c.mode, c.names, t) /\ (of[t] = 0 => c.mode = "deny") => <<t, of[t]>> \in consent

\* The files on disk, and what a save under way is about to make of them.
FilesAgreed == conf.is = "ok" /\ rec.is = "ok" /\ ~patchwork /\ cmd.at # "first" => Agreed(conf, rec.of)
SaveAgreed ==
  cmd.at = "first" \/ (cmd.at = "again" /\ ~patchwork) => conf.mode = "allow" /\ Agreed(conf, cmd.found)

\* What `wrap` holds: the config alone, or both files as it read them.
WrapAgreed ==
  wrapped.pair = "whole" =>
    /\ wrapped.at = "config" /\ rec.is = "ok" => Agreed(wrapped, rec.of)
    /\ wrapped.at = "running" => Agreed(wrapped, wrapped.pinned)

WcInv == WcTypeOK /\ FilesAgreed /\ SaveAgreed /\ WrapAgreed

-----------------------------------------------------------------------------
\* Nothing is on, nothing is agreed to.
LEMMA WcStarts == WcInit => WcInv
  BY WrapConfigAssumption DEF WcInit, WcInv, WcTypeOK, FilesAgreed, SaveAgreed, WrapAgreed, NoConf, NoRec,
         NoCmd, NoWrap, NoTool, Definition

\* A wrap, by how far it has read its files.
Wraps == [at : {"off", "config", "running"}, mode : {"allow", "deny"}, names : SUBSET WcTools,
          pinned : [WcTools -> Definition], pair : {"whole", "patched"}]

\* A wrap that has read both files holds what it read.
LEMMA Running ==
  ASSUME NEW w \in Wraps, NEW of \in [WcTools -> Definition]
  PROVE  [w EXCEPT !.at = "running", !.pinned = of] \in Wraps
  BY DEF Wraps

\* The shape of the state, in every step.
LEMMA Shapes == WcTypeOK /\ [WcNext]_wcVars => WcTypeOK'
<1> SUFFICES ASSUME WcTypeOK, [WcNext]_wcVars PROVE WcTypeOK'
  OBVIOUS
<1> USE WrapConfigAssumption DEF WcTypeOK, NoConf, NoRec, NoCmd, NoWrap, NoTool, Definition
<1>1. CASE UNCHANGED wcVars
  BY <1>1 DEF wcVars
<1>2. ASSUME NEW refresh \in BOOLEAN, Discover(refresh) PROVE WcTypeOK'
  BY <1>2 DEF Discover, Discovered
<1>3. CASE SaveConfig
  <2> DEFINE chosen == {t \in WcTools : Chosen(t)}
  <2>1. /\ conf' = [is |-> "ok", mode |-> "allow", names |-> chosen]
        /\ cmd' = [cmd EXCEPT !.at = IF conf.is = "missing" THEN "first" ELSE "again"]
        /\ consent' = consent \cup (IF conf.is # "missing" THEN {}
                                    ELSE {<<t, cmd.found[t]>> : t \in chosen})
        /\ wrapped' = Overtaken /\ UNCHANGED <<server, rec>>
    BY <1>3 DEF SaveConfig
  <2>2. /\ chosen \subseteq WcTools
        /\ \A t \in chosen : cmd.found[t] \in (0..Versions) \ {0}
    BY DEF Chosen
  <2> HIDE DEF chosen
  <2>3. conf' \in [is : {"missing", "torn", "ok"}, mode : {"allow", "deny"}, names : SUBSET WcTools]
    BY <2>1, <2>2
  <2>4. cmd' \in [at : {"idle", "found", "first", "again"}, found : [WcTools -> Definition]]
    BY <2>1
  <2>5. wrapped' \in [at : {"off", "config", "running"}, mode : {"allow", "deny"}, names : SUBSET WcTools,
                      pinned : [WcTools -> Definition], pair : {"whole", "patched"}]
    BY <2>1 DEF Overtaken
  <2>6. consent' \subseteq WcTools \X Definition
    BY <2>1, <2>2
  <2> QED
    BY <2>1, <2>3, <2>4, <2>5, <2>6
<1>4. CASE SaveRefused
  BY <1>4 DEF SaveRefused
<1>5. CASE SaveRecord
  BY <1>5 DEF SaveRecord, Overtaken, Saving
<1>6. ASSUME NEW torn \in BOOLEAN, CommandDies(torn) PROVE WcTypeOK'
  BY <1>6 DEF CommandDies, Saving
<1>7. CASE WrapReadsConfig
  BY <1>7 DEF WrapReadsConfig
<1>8. CASE WrapReadsRecord
  <2>1. wrapped \in Wraps /\ rec.of \in [WcTools -> Definition] /\ NoWrap \in Wraps
    BY DEF Wraps
  <2>2. wrapped' \in Wraps
    BY <1>8, <2>1, Running DEF WrapReadsRecord
  <2> QED
    BY <1>8, <2>2 DEF WrapReadsRecord, Wraps
<1>9. CASE WrapEnds
  BY <1>9 DEF WrapEnds
<1>10. ASSUME NEW mode \in {"allow", "deny"}, NEW names \in SUBSET WcTools, Edits(mode, names)
       PROVE  WcTypeOK'
  BY <1>10 DEF Edits, Agrees
<1>11. CASE MovesAside
  BY <1>11 DEF MovesAside
<1>12. ASSUME NEW t \in WcTools, NEW v \in Definition, ServerUpgrades(t, v) PROVE WcTypeOK'
  BY <1>12 DEF ServerUpgrades
<1> QED
  BY <1>1, <1>2, <1>3, <1>4, <1>5, <1>6, <1>7, <1>8, <1>9, <1>10, <1>11, <1>12 DEF WcNext

\* The steps of a save: the config holds what was chosen, the record what was found.
LEMMA SavesKeep ==
  ASSUME WcInv, WcTypeOK', SaveConfig \/ SaveRecord
  PROVE  WcInv'
<1> USE DEF WcInv, FilesAgreed, SaveAgreed, WrapAgreed, Agreed
<1>1. CASE SaveConfig
  <2>1. /\ conf' = [is |-> "ok", mode |-> "allow", names |-> {t \in WcTools : Chosen(t)}]
        /\ cmd'.at = (IF conf.is = "missing" THEN "first" ELSE "again") /\ cmd'.found = cmd.found
        /\ conf.is \in {"missing", "ok"} /\ cmd.at = "found"
        /\ UNCHANGED <<rec, patchwork>> /\ consent \subseteq consent'
        /\ wrapped' = Overtaken
    BY <1>1 DEF SaveConfig, WcTypeOK
  <2>2. CASE conf.is = "missing"
    <3>1. ASSUME NEW t \in WcTools, Chosen(t) PROVE <<t, cmd.found[t]>> \in consent'
      BY <1>1, <2>2, <3>1 DEF SaveConfig
    <3>2. SaveAgreed'
      BY <2>1, <2>2, <3>1 DEF On
    <3> QED
      BY <2>1, <2>2, <3>2 DEF WcTypeOK, Overtaken
  <2>3. CASE conf.is = "ok"
    <3>1. ASSUME NEW t \in WcTools, Chosen(t), ~patchwork
          PROVE  <<t, cmd.found[t]>> \in consent /\ rec.of[t] = cmd.found[t]
      BY <2>1, <2>3, <3>1 DEF Chosen
    <3>2. SaveAgreed' /\ FilesAgreed'
      BY <2>1, <2>3, <3>1 DEF On
    <3> QED
      BY <2>1, <2>3, <3>2 DEF WcTypeOK, Overtaken
  <2> QED
    BY <2>1, <2>2, <2>3
<1>2. CASE SaveRecord
  <2>1. /\ rec'.is = "ok" /\ rec'.of = cmd.found /\ cmd'.at = "idle" /\ Saving
        /\ UNCHANGED <<conf, consent>> /\ wrapped' = Overtaken
        /\ patchwork' = (patchwork /\ cmd.at # "first")
    BY <1>2 DEF SaveRecord, NoCmd
  <2>2. FilesAgreed'
    BY <2>1 DEF Saving
  <2>3. SaveAgreed'
    BY <2>1
  <2>4. WrapAgreed'
    BY <2>1 DEF WcTypeOK, Overtaken
  <2> QED
    BY <2>2, <2>3, <2>4
<1> QED
  BY <1>1, <1>2

\* The steps of wrap, and the deaths of the command.
LEMMA WrapKeeps ==
  ASSUME WcInv, WcTypeOK',
         \/ WrapReadsConfig \/ WrapReadsRecord \/ WrapEnds
         \/ \E torn \in BOOLEAN : CommandDies(torn)
  PROVE  WcInv'
<1> USE DEF WcInv, FilesAgreed, SaveAgreed, WrapAgreed, Agreed
<1>1. CASE WrapReadsConfig
  BY <1>1 DEF WrapReadsConfig
<1>2. CASE WrapReadsRecord
  BY <1>2 DEF WrapReadsRecord, WcTypeOK, NoWrap
<1>3. CASE WrapEnds
  BY <1>3 DEF WrapEnds, NoWrap
<1>4. ASSUME NEW torn \in BOOLEAN, CommandDies(torn) PROVE WcInv'
  BY <1>4 DEF CommandDies, NoCmd, NoConf, NoRec, Saving
<1> QED
  BY <1>1, <1>2, <1>3, <1>4

\* What the people and the server do.
LEMMA OthersKeep ==
  ASSUME WcInv, WcTypeOK',
         \/ \E refresh \in BOOLEAN : Discover(refresh)
         \/ SaveRefused \/ MovesAside
         \/ \E mode \in {"allow", "deny"}, names \in SUBSET WcTools : Edits(mode, names)
         \/ \E t \in WcTools, v \in Definition : ServerUpgrades(t, v)
  PROVE  WcInv'
<1> USE DEF WcInv, FilesAgreed, SaveAgreed, WrapAgreed, Agreed
<1>1. ASSUME NEW refresh \in BOOLEAN, Discover(refresh) PROVE WcInv'
  BY <1>1 DEF Discover
<1>2. CASE SaveRefused
  BY <1>2 DEF SaveRefused, NoCmd
<1>3. CASE MovesAside
  BY <1>3 DEF MovesAside, NoConf
<1>4. ASSUME NEW mode \in {"allow", "deny"}, NEW names \in SUBSET WcTools, Edits(mode, names)
      PROVE  WcInv'
  <2>1. /\ conf'.mode = mode /\ conf'.names = names /\ ~Saving
        /\ UNCHANGED <<rec, cmd, wrapped>>
        /\ consent' = consent \cup Agrees(mode, names)
    BY <1>4 DEF Edits
  <2>2. \A t \in WcTools : On(mode, names, t) /\ (rec.of[t] = 0 => mode = "deny")
          => <<t, rec.of[t]>> \in consent'
    BY <2>1 DEF Agrees
  <2> QED
    BY <2>1, <2>2 DEF Saving
<1>5. ASSUME NEW t \in WcTools, NEW v \in Definition, ServerUpgrades(t, v) PROVE WcInv'
  BY <1>5 DEF ServerUpgrades
<1> QED
  BY <1>1, <1>2, <1>3, <1>4, <1>5

\* Every step keeps the invariant.
LEMMA WcStepKeeps == WcInv /\ [WcNext]_wcVars => WcInv'
<1> SUFFICES ASSUME WcInv, [WcNext]_wcVars PROVE WcInv'
  OBVIOUS
<1>0. WcTypeOK'
  BY Shapes DEF WcInv
<1>1. CASE UNCHANGED wcVars
  BY <1>1 DEF wcVars, WcInv, WcTypeOK, FilesAgreed, SaveAgreed, WrapAgreed, Agreed
<1>2. CASE WcNext
  BY <1>0, <1>2, SavesKeep, WrapKeeps, OthersKeep DEF WcNext
<1> QED
  BY <1>1, <1>2

\* The invariant holds always.
THEOREM WcInvariance == WcSpec => []WcInv
  BY WcStarts, WcStepKeeps, PTL DEF WcSpec

\* What wrap shows, somebody agreed to with that very definition, or left on with a deny list where
\* the record has none, whatever the server upgrades to and wherever a save dies (wrap-config.ts:121-247, 290-358; wrap.ts:82-94).
THEOREM ShownIsAgreed == WcSpec => []HeldToConsent
<1>1. WcInv => HeldToConsent
  BY DEF WcInv, WrapAgreed, Agreed, HeldToConsent, Shows
<1> QED
  BY WcInvariance, <1>1, PTL

\* A check that passes means that nothing is on which nobody agreed to (cli.ts:310-382).
THEOREM CheckedIsAgreed == WcSpec => []CheckMeansConsent
<1>1. WcInv => CheckMeansConsent
  BY DEF WcInv, FilesAgreed, Agreed, CheckMeansConsent, CheckPasses, Saving
<1> QED
  BY WcInvariance, <1>1, PTL

-----------------------------------------------------------------------------
(* Stopping a server. What wrap sees of it on Windows is the supervisor,   *)
(* elsewhere the group: the invariant ties what runs to both.              *)

\* The platform decides whether there is a job; one that has not resumed its launcher holds
\* nothing else, and once closed only a launcher that was never put in it is left.
JobHolds ==
  /\ windows <=> job # "none"
  /\ windows /\ job # "resumed" => alive \subseteq {Launcher}

\* wrap has returned only from a stop that saw the group, or the supervisor, gone.
StopHolds ==
  /\ returned => stop = "done"
  /\ stop = "done" => ~TreeAlive

WsInv == WsTypeOK /\ JobHolds /\ StopHolds

-----------------------------------------------------------------------------
\* wrap starts in the invariant: a group of its launcher alone, or a job not yet begun.
LEMMA StartsHeld == WsInit => WsInv
  BY WrapStopAssumption
  DEF WsInit, WsInv, WsTypeOK, JobHolds, StopHolds, TreeAlive, Supervised, Steps

\* Every step of the supervisor, of the processes and of stop keeps the invariant.
LEMMA StepHeld == WsInv /\ [WsNext]_wsVars => WsInv'
<1> SUFFICES ASSUME WsInv, [WsNext]_wsVars PROVE WsInv'
  OBVIOUS
<1> USE WrapStopAssumption
    DEF WsInv, WsTypeOK, JobHolds, StopHolds, TreeAlive, Supervised, Steps
<1>1. CASE UNCHANGED wsVars
  BY <1>1 DEF wsVars
<1>2. CASE JobGoesOn
  BY <1>2 DEF JobGoesOn
<1>3. CASE JobEnds
  BY <1>3 DEF JobEnds
<1>4. CASE StopBegins
  BY <1>4 DEF StopBegins
<1>5. CASE SeesExit
  BY <1>5 DEF SeesExit
<1>6. CASE PollsGone
  BY <1>6 DEF PollsGone
<1>7. CASE Escalates
  BY <1>7 DEF Escalates
<1>8. CASE Resolves
  BY <1>8 DEF Resolves
<1>9. ASSUME NEW p \in Processes, ServerStarts(p) PROVE WsInv'
  BY <1>9 DEF ServerStarts
<1>10. ASSUME NEW p \in Processes, Dies(p) PROVE WsInv'
  BY <1>10 DEF Dies
<1> QED
  BY <1>1, <1>2, <1>3, <1>4, <1>5, <1>6, <1>7, <1>8, <1>9, <1>10 DEF WsNext, WsStep

\* The invariant holds always.
THEOREM StopInvariance == WsSpec => []WsInv
  BY StartsHeld, StepHeld, PTL DEF WsSpec

\* The shape of wrap's stop, always: the processes, the job and what wrap waits for
\* (wrap.ts:282-328, 391-410; windows-job.ts:140-171).
THEOREM StopTypes == WsSpec => []WsTypeOK
<1>1. WsInv => WsTypeOK
  BY DEF WsInv
<1> QED
  BY StopInvariance, <1>1, PTL

\* When wrap returns, nothing it started still runs, for any launcher, server and signals they
\* ignore; on Windows at most a launcher that was never resumed (wrap.ts:282-328,
\* 391-410; windows-job.ts:140-171).
THEOREM StopLeavesNothing == WsSpec => []NothingLeftBehind
<1>1. WsInv => NothingLeftBehind
  BY DEF WsInv, WsTypeOK, JobHolds, StopHolds, TreeAlive, Supervised, NothingLeftBehind, Steps
<1> QED
  BY StopInvariance, <1>1, PTL

-----------------------------------------------------------------------------
(* The five side by side, as they run together: a step is one of a part,   *)
(* which keeps that part's invariant, and leaves the others as they were.  *)

AllVars == <<vars, wcVars, wsVars, pf, pcVars, part>>
LifeInv == IInv /\ WcInv /\ WsInv /\ PfInv /\ PcTypeOK

\* A step of one part is a step or a stutter of each.
LEMMA StepOfEach ==
    ASSUME [LifeNext]_AllVars
    PROVE  /\ [Next]_vars /\ [WcNext]_wcVars /\ [WsNext]_wsVars
           /\ [PfNext]_pf /\ [PcNext]_pcVars
<1>1. CASE LifeNext
  BY <1>1 DEF LifeNext
<1>2. CASE UNCHANGED AllVars
  BY <1>2 DEF AllVars
<1> QED
  BY <1>1, <1>2

\* Every part keeps its invariant whichever of them runs, and so the shape of its state: a call
\* in embed mode, the files wrap starts from, the stop of its server, a call through the Python
\* proxy and that proxy's record.
THEOREM LifeTypes == LifeSpec => []LifeTypeOK
<1>1. LifeInit => LifeInv
  BY InitInv, WcStarts, StartsHeld, PfStartsSound, PcStartsShaped DEF LifeInit, LifeInv
<1>2. LifeInv /\ [LifeNext]_AllVars => LifeInv'
  BY StepOfEach, StepInv, WcStepKeeps, StepHeld, PfStepSound, PcShapes DEF LifeInv
<1>3. LifeInv => LifeTypeOK
  BY DEF LifeInv, LifeTypeOK, IInv, WcInv, WsInv, PfInv
<1> QED
  BY <1>1, <1>2, <1>3, PTL DEF LifeSpec, AllVars
=============================================================================
