------------------------------ MODULE MCBackOffice ------------------------------
(***************************************************************************)
(* Two parts of OPORA that share no state: plans and waybills of the web   *)
(* office, and the tunnel to the meters.  A behaviour exercises one of     *)
(* them, its "area", and leaves the other as it starts.  In the tunnel the *)
(* single command is the one behind the channel, and nothing is sent by    *)
(* hand to a connection that has been replaced: an abandoned request on it *)
(* is one that has timed out.                                              *)
(***************************************************************************)
EXTENDS WorkPlans, MeterTunnel, TLC

CONSTANTS r1, d1, m1, p1, p2,             \* a request, a defect, a master, plans
          poller, operator, x, y, open    \* threads and requests to the meter

MCPollCommands == <<x, y>>
MCAnswerLength == (x :> 3) @@ (y :> 3) @@ (open :> 1)

VARIABLE area

officeVars == <<area, workVars, tunnelVars>>

OfTunnel ==
    /\ caller'[operator].todo \in {<< >>, <<y>>}
    /\ ~\E c \in Connections : c # registered /\ RawSend(c)

OfficeInit ==
    /\ area \in {"works", "tunnel"}
    /\ WorksInit /\ TunnelInit

OfficeNext ==
    /\ UNCHANGED area
    /\ \/ area = "works" /\ WorksNext /\ UNCHANGED tunnelVars
       \/ area = "tunnel" /\ TunnelNext /\ OfTunnel /\ UNCHANGED workVars

OfficeSpec == OfficeInit /\ [][OfficeNext]_officeVars
=============================================================================
