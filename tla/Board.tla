------------------------------- MODULE Board -------------------------------
(***************************************************************************)
(* The controllers and the TCP connections between them and the gateway.   *)
(*                                                                         *)
(* A v2 controller is src/Board/main.c: one cooperative loop that reads    *)
(* what the modem has (AT^SISR, up to 128 bytes, so any number of lines),  *)
(* keeps ONE of the lines, executes it and answers, and reports its state  *)
(* periodically.  A v1 controller is not in the repository: it is the peer *)
(* that the v1 branch of the gateway and its tests expect.                 *)
(***************************************************************************)
EXTENDS CommandStore

CONSTANTS
    MaxConn,     \* bound: TCP connections ever opened
    MaxQueue     \* bound: lines or frames in flight one way on a connection

ASSUME BoundsAssumption == MaxConn \in Nat \ {0} /\ MaxQueue \in Nat \ {0}

VARIABLES
    link,      \* link[k]: the two ends and the two byte streams of connection k
    board,     \* board[d]: relay latches, connection, authentication
    up,        \* the gateway process listens
    reboots    \* power losses of controllers still to come (a bound)

boardVars == <<link, board, up, reboots>>

Conns  == 1..MaxConn
NoConn == 0

Links == [device : Devices \cup {None},
          gw : {"none", "auth", "open", "closing", "closed"},  \* the gateway's end
          peer : {"none", "up", "down"},                       \* the controller's end
          toBoard : Seq(Lines), toGw : Seq(Frames)]
Boards == [relays : RelayStates, conn : Conns \cup {NoConn}, authed : BOOLEAN]

NoLink == [device |-> None, gw |-> "none", peer |-> "none",
           toBoard |-> << >>, toGw |-> << >>]

BoardTypeOK == /\ link \in [Conns -> Links]
               /\ board \in [Devices -> Boards]
               /\ up \in BOOLEAN /\ reboots \in Nat

(* Cold boot: the relays are off before their pins become outputs. *)
BoardInit(budget) ==
    /\ link = [k \in Conns |-> NoLink]
    /\ board = [d \in Devices |-> [relays |-> [r \in Relays |-> 0],
                                   conn |-> NoConn, authed |-> FALSE]]
    /\ up = TRUE
    /\ reboots = budget

---------------------------------------------------------------------------
(* socket_open, then the challenge and the answer to it: the connection    *)
(* begins with the controller's auth frame on its way.                     *)
Connect(d, k) ==
    /\ up
    /\ board[d].conn = NoConn
    /\ link[k].gw = "none" /\ \A i \in 1..(k - 1) : link[i].gw # "none"
    /\ link' = [link EXCEPT ![k] = [device |-> d, gw |-> "auth", peer |-> "up",
                                    toBoard |-> << >>, toGw |-> <<Frame("AUTH")>>]]
    /\ board' = [board EXCEPT ![d].conn = k, ![d].authed = FALSE]
    /\ UNCHANGED <<up, reboots>>

(* The controller's end goes down: a failed SISR or SISW, an authentication*)
(* timeout.  The main loop closes the socket, forgets authentication and   *)
(* the line it kept, and leaves the relays as they are.  Of what was in    *)
(* flight to the gateway a suffix is lost.                                 *)
Disconnected(k, n) ==
    [link EXCEPT ![k].peer = "down", ![k].toBoard = << >>,
                 ![k].toGw = SubSeq(@, 1, n)]

Drop(d, n) ==
    LET k == board[d].conn
    IN  /\ k # NoConn
        /\ n \in 0..Len(link[k].toGw)
        /\ link' = Disconnected(k, n)
        /\ board' = [board EXCEPT ![d].conn = NoConn, ![d].authed = FALSE]
        /\ UNCHANGED <<up, reboots>>

(* A power loss: main starts again, with the relays off. *)
Reboot(d) ==
    LET k == board[d].conn
    IN  /\ reboots > 0
        /\ reboots' = reboots - 1
        /\ link' = IF k = NoConn THEN link ELSE Disconnected(k, 0)
        /\ board' = [board EXCEPT ![d] = [relays |-> [r \in Relays |-> 0],
                                          conn |-> NoConn, authed |-> FALSE]]
        /\ UNCHANGED up

---------------------------------------------------------------------------
(* process_command: what a line does to the relays and what is answered.   *)
(* send_ok_one asks the modem for 6 bytes and writes 7, so its line feed   *)
(* is not part of the granted frame: either the modem forwards it, or the  *)
(* OK and the STATE behind it reach the gateway as one line, which starts  *)
(* with OK and ends where the STATE ends.                                  *)
Answers(line, relays) ==
    CASE line.verb = "GET"    -> {<<StateFrame(relays)>>}
      [] line.verb = "PING"   -> {<<Frame("PONG")>>}
      [] line.verb = "SET"    -> {<<Frame("OK")>>, <<Frame("OK"), StateFrame(relays)>>}
      [] line.verb = "SETALL" -> {<<Frame("OK"), StateFrame(relays)>>}
      [] OTHER                -> {<<Frame("ERR")>>}

LatchedBy(line, relays) ==
    IF line.verb \in {"SET", "SETALL"} THEN Switched(relays, line.set) ELSE relays

(* One turn of the main loop after authentication: of the n lines that one *)
(* SISR transaction delivers, text_feed keeps the first and drops the      *)
(* bytes of the others; the line kept is then executed and answered.       *)
Execute(d, n) ==
    LET k == board[d].conn
        line == Head(link[k].toBoard)
        relays == LatchedBy(line, board[d].relays)
    IN  /\ k # NoConn /\ dev[d].proto = "2"
        /\ board[d].authed
        /\ n \in 1..Len(link[k].toBoard)
        /\ \E answer \in Answers(line, relays) :
               /\ Len(link[k].toGw) + Len(answer) <= MaxQueue
               /\ link' = [link EXCEPT ![k].toBoard = SubSeq(@, n + 1, Len(@)),
                                       ![k].toGw = @ \o answer]
        /\ board' = [board EXCEPT ![d].relays = relays]
        /\ UNCHANGED <<up, reboots>>

(* The turn that receives "AUTHENTICATED 2": auth_feed recognises the word *)
(* and sets `authenticated`, so the rest of that very line goes to         *)
(* text_feed and is kept as a command (" 2"); the lines behind it in the   *)
(* same transaction are dropped.  The initial STATE goes first when two    *)
(* input windows have passed, later (Report) when they have not; the line  *)
(* kept is answered with ERR CMD.                                          *)
Authenticated(d, n) ==
    LET k == board[d].conn
    IN  /\ k # NoConn /\ dev[d].proto = "2"
        /\ ~board[d].authed
        /\ n \in 1..Len(link[k].toBoard)
        /\ Head(link[k].toBoard).verb = "AUTHENTICATED"
        /\ \E first \in {<< >>, <<StateFrame(board[d].relays)>>} :
               /\ Len(link[k].toGw) + Len(first) + 1 <= MaxQueue
               /\ link' = [link EXCEPT ![k].toBoard = SubSeq(@, n + 1, Len(@)),
                                       ![k].toGw = @ \o first \o <<Frame("ERR")>>]
        /\ board' = [board EXCEPT ![d].authed = TRUE]
        /\ UNCHANGED <<up, reboots>>

(* The periodic STATE (every STATE_PERIOD_MS), the STATE after an input    *)
(* change and the late initial STATE.                                      *)
Report(d) ==
    LET k == board[d].conn
    IN  /\ k # NoConn /\ board[d].authed
        /\ Len(link[k].toGw) < MaxQueue
        /\ link' = [link EXCEPT ![k].toGw = Append(@, StateFrame(board[d].relays))]
        /\ UNCHANGED <<board, up, reboots>>

(* The v1 controller: it takes the JSON commands one by one, obeys or      *)
(* refuses, and acks with the command's id.                                *)
ExecuteV1(d) ==
    LET k == board[d].conn
        line == Head(link[k].toBoard)
    IN  /\ k # NoConn /\ dev[d].proto = "1"
        /\ link[k].toBoard # << >>
        /\ \/ /\ line.verb = "AUTHENTICATED"
              /\ board' = [board EXCEPT ![d].authed = TRUE]
              /\ link' = [link EXCEPT ![k].toBoard = Tail(@)]
           \/ /\ line.verb = "CMD"
              /\ Len(link[k].toGw) < MaxQueue
              /\ \E ok \in BOOLEAN :
                     /\ board' = [board EXCEPT ![d].relays =
                                      IF ok THEN Switched(@, line.set) ELSE @]
                     /\ link' = [link EXCEPT ![k].toBoard = Tail(@),
                                             ![k].toGw = Append(@, AckFrame(ok, line.id))]
        /\ UNCHANGED <<up, reboots>>

BoardTurn(d) == \/ \E n \in 1..MaxQueue : Execute(d, n) \/ Authenticated(d, n)
                \/ Report(d)
                \/ ExecuteV1(d)
BoardFailure(d) == (\E n \in 0..MaxQueue : Drop(d, n)) \/ Reboot(d)
=============================================================================
