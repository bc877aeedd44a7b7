---------------------------- MODULE MCLifecycles ----------------------------
(***************************************************************************)
(* Five parts with a life of their own, each on its own instance: a call   *)
(* in embed mode (Guarding), the files wrap starts from (WrapConfig), how  *)
(* wrap stops its server (WrapStop), a call through the Python proxy       *)
(* (PyForward) and that proxy's record (PyCatalogue). They share no state, *)
(* so a behaviour is one of the five: `part` says which, and the others    *)
(* stay as they started.                                                   *)
(***************************************************************************)
EXTENDS Guarding, WrapConfig, WrapStop, PyForward, PyCatalogue

CONSTANTS t1, t2, p1, p2
VARIABLE part

Parts == {"guarding", "files", "stop", "forward", "catalogue"}
MCPlain == {<<t1, 1>>, <<t2, 2>>}

LifeInit ==
  /\ part \in Parts
  /\ Init /\ WcInit /\ WsInit /\ PfInit /\ PcInit
  /\ part # "files" => server = NoTool
  /\ part # "stop" => windows = FALSE /\ deaf = {}
  /\ part # "catalogue" => upstream = [l \in PcLabels |-> "absent"]

LifeNext ==
  /\ UNCHANGED part
  /\ \/ part = "guarding" /\ Next /\ UNCHANGED <<wcVars, wsVars, pf, pcVars>>
     \/ part = "files" /\ WcNext /\ UNCHANGED <<vars, wsVars, pf, pcVars>>
     \/ part = "stop" /\ WsNext /\ UNCHANGED <<vars, wcVars, pf, pcVars>>
     \/ part = "forward" /\ PfNext /\ UNCHANGED <<vars, wcVars, wsVars, pcVars>>
     \/ part = "catalogue" /\ PcNext /\ UNCHANGED <<vars, wcVars, wsVars, pf>>

\* Each part's own fairness, while it is the one that runs.
LifeFairness ==
  /\ \A c \in Calls :
       /\ WF_vars(part = "guarding" /\ (AttemptRefused(c) \/ AttemptWritten(c)))
       /\ WF_vars(part = "guarding" /\ TimerFires(c))
       /\ WF_vars(part = "guarding" /\ Run(c))
       /\ WF_vars(part = "guarding" /\ \E phase \in {"success", "failure"} : HandlerSettles(c, phase))
       /\ WF_vars(part = "guarding" /\ \E accepted \in BOOLEAN : TerminalWritten(c, accepted))
  /\ WF_wsVars(part = "stop" /\ WsStep)
  /\ \A c \in PfCalls : WF_pf(part = "forward" /\ PfFair(c))
  /\ WF_pcVars(part = "catalogue" /\ PcFair)

LifeSpec == LifeInit /\ [][LifeNext]_<<vars, wcVars, wsVars, pf, pcVars, part>> /\ LifeFairness

\* The shapes of the five states, and that one call at most reads the catalogue at a time.
LifeTypeOK == TypeOK /\ WcTypeOK /\ WsTypeOK /\ PfTypeOK /\ PcTypeOK

\* What was begun ends: a guarded call, though nobody ever answers for it; a wrap that stops,
\* whatever ignores its signals; a call through the Python proxy that has a deadline; a call that
\* waits on a read of its catalogue, however that ends (tools.ts:372-389; wrap.ts:306-330;
\* proxy.py:399-408, 705-728).
LifeEnds == EveryCallEnds /\ WrapReturns /\ LimitedCallsEnd /\ PcCallsAnswered
=============================================================================
