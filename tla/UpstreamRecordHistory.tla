----------------------- MODULE UpstreamRecordHistory ------------------------
(***************************************************************************)
(* UpstreamRecord with memory of what was noted, so that what the docs say *)
(* of a withdrawn capability can be stated.  The history never decides a   *)
(* step.                                                                   *)
(***************************************************************************)
EXTENDS UpstreamRecord

VARIABLES
    omitted \* labels the last relist left out, unless noted since

allVars == <<vars, omitted>>

HistoryInit ==
    /\ Init
    /\ omitted = {}

Remember(seen) ==
    LET told == {l \in DOMAIN seen \cap Recorded : seen[l] # "absent"}
    IN  omitted' = (omitted \ told) \cup ((DOMAIN seen \cap Recorded) \ told)

HistoryNext ==
    \/ \E item \in passing :
          matches(item) /\ Remember([l \in {item.label} |-> item.def])
    \/ relist /\ Remember(read)
    \/ Otherwise /\ Remember(<<>>)

HistorySpec == HistoryInit /\ [][HistoryNext]_allVars

-----------------------------------------------------------------------------
(* Properties. *)

\* Call c ends with this status in this step.
EndsAs(c, status) == call'[c] # call[c] /\ call'[c].status = status

\* README.md: "one that changed or is no longer listed is refused with a 403".
\* A request that waited on a relist is not admitted when that relist left out
\* one of its labels.
OmittedIsRefused ==
    [][\A c \in Calls :
         EndsAs(c, "admitted") /\ call[c].status = "listed" =>
           call'[c].labels \cap omitted = {}]_allVars
=============================================================================
