------------------------------ MODULE MCServer ------------------------------
(***************************************************************************)
(* The way into the daemon in one run: the gate that lets requests in, and *)
(* the call that passes through the schemas of a tool, a client and a      *)
(* route.  They share no state: a behaviour is about one of them.          *)
(***************************************************************************)
EXTENDS MCGateway, MCAccess

VARIABLE part

entryVars == <<part, gatewayVars, accessVars>>

\* The part a behaviour is not about stays in one initial state, in which none
\* of its fair actions is enabled.
EntryInit ==
    /\ part \in {"call", "gate"} /\ GatewayInit /\ AccessInit
    /\ part = "gate" => ~ cached
    /\ part = "call" => env.flag = "1"

EntryNext ==
    \/ part = "call" /\ GatewayNext /\ UNCHANGED <<part, accessVars>>
    \/ part = "gate" /\ AccessNext /\ UNCHANGED <<part, gatewayVars>>

EntrySpec ==
    EntryInit /\ [][EntryNext]_entryVars /\ GatewayFairness /\ AccessFairness

\* Both parts keep their shape.
EntryTypeOK == GatewayTypeOK /\ AccessTypeOK
=============================================================================
