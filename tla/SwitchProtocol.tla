-------------------------- MODULE SwitchProtocol --------------------------
(***************************************************************************)
(* The vocabulary that the web queue, the TCP gateway and the controller   *)
(* share: relays, the payloads an operator can ask for, the v2 lines a     *)
(* payload is sent as, the frames a controller answers with.               *)
(*                                                                         *)
(* Telemetry, raw input banks and wording are left out: no property is     *)
(* about them.  A frame keeps its verb, the relay mask of a STATE and the  *)
(* command_id of a v1 ack.                                                 *)
(***************************************************************************)
EXTENDS Integers, Sequences

CONSTANTS
    Commands,   \* rows that device_commands can hold
    Payloads,   \* the payloads the operators use: a subset of FormPayloads
    None        \* the SQL NULL / Python None

Relays == {"C6", "C7", "C8"}
RelayStates == [Relays -> 0..1]

(* _switch_payload_from_form: the two presets, or one relay set to 0 or 1. *)
FormPayloads ==
    [{"C6", "C7"} -> {1}] \cup [{"C6", "C7"} -> {0}]
        \cup UNION {[{r} -> 0..1] : r \in Relays}

ASSUME PayloadsAssumption == Payloads \subseteq FormPayloads
ASSUME NoneAssumption == None \notin Commands \cup Payloads \cup RelayStates

(* payload_matches_actual: an unknown state matches nothing. *)
PayloadMatches(p, actual) == actual # None /\ \A r \in DOMAIN p : actual[r] = p[r]

(* What the board's relays are once a payload has been applied to them. *)
Switched(relays, p) == [r \in Relays |-> IF r \in DOMAIN p THEN p[r] ELSE relays[r]]

---------------------------------------------------------------------------
(* Lines to a controller: what they set, if anything.  "CMD" is the v1     *)
(* JSON command, which carries its command_id; the v2 lines carry none.    *)
Settings == UNION {[R -> 0..1] : R \in SUBSET Relays}
Lines == [verb : {"AUTHENTICATED", "GET", "PING"}, set : {None}, id : {None}]
             \cup [verb : {"SET", "SETALL"}, set : Settings, id : {None}]
             \cup [verb : {"CMD"}, set : Settings, id : Commands]

Line(verb)    == [verb |-> verb, set |-> None, id |-> None]
SetLine(r, v) == [verb |-> "SET", set |-> [x \in {r} |-> v], id |-> None]
SetAllLine(v) == [verb |-> "SETALL", set |-> [r \in Relays |-> v], id |-> None]
CmdLine(c, p) == [verb |-> "CMD", set |-> p, id |-> c]

(* Gateway._v2_steps: one SETALL when all three relays get one value, else *)
(* one SET per relay of the payload, in the order C6, C7, C8.              *)
StepFor(p, r) == IF r \in DOMAIN p THEN <<SetLine(r, p[r])>> ELSE << >>
V2Steps(p) ==
    IF DOMAIN p = Relays /\ \A r1, r2 \in Relays : p[r1] = p[r2]
    THEN <<SetAllLine(p["C6"])>>
    ELSE StepFor(p, "C6") \o StepFor(p, "C7") \o StepFor(p, "C8")

(* Frames from a controller. *)
Frames == [verb : {"AUTH", "OK", "ERR", "PONG"}, relays : {None}, id : {None}]
              \cup [verb : {"STATE"}, relays : RelayStates, id : {None}]
              \cup [verb : {"ACK", "NAK"}, relays : {None}, id : Commands]

Frame(verb)     == [verb |-> verb, relays |-> None, id |-> None]
StateFrame(rs)  == [verb |-> "STATE", relays |-> rs, id |-> None]
AckFrame(ok, c) == [verb |-> IF ok THEN "ACK" ELSE "NAK", relays |-> None, id |-> c]
=============================================================================
