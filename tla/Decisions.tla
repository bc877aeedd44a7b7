------------------------------ MODULE Decisions -----------------------------
(***************************************************************************)
(* The places a request is decided, each on its own instance: the          *)
(* proxies (Pricing), the servers (Access) and the HTTP gate (OpenApi),    *)
(* and the filter an event stream passes on its way back (EventStream).    *)
(* They share no state, so a behaviour is one of the four: `part` says     *)
(* which, and the others never start.                                      *)
(***************************************************************************)
EXTENDS Pricing, Access, OpenApi, EventStream

VARIABLE part
allVars == <<pricingVars, accessVars, oaVars, vars, part>>

-----------------------------------------------------------------------------
DecisionInit ==
  /\ part \in {"proxy", "server", "openapi", "events"}
  /\ PricingInit /\ AccessInit /\ OaInit
  /\ Init /\ (part # "events" => text = <<>>)
DecisionNext ==
  /\ UNCHANGED part
  /\ \/ part = "proxy" /\ PricingNext /\ UNCHANGED <<accessVars, oaVars, vars>>
     \/ part = "server" /\ AccessNext /\ UNCHANGED <<pricingVars, oaVars, vars>>
     \/ part = "openapi" /\ OaNext /\ UNCHANGED <<pricingVars, accessVars, vars>>
     \/ part = "events" /\ Next /\ UNCHANGED <<pricingVars, accessVars, oaVars>>
DecisionSpec == DecisionInit /\ [][DecisionNext]_allVars

\* The shapes of the four states; in EventStream's also that the byte count carried from chunk to
\* chunk is the buffer's own.
DecisionTypeOK == PricingTypeOK /\ AccessTypeOK /\ OaTypeOK /\ TypeOK
=============================================================================
