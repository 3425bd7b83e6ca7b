----------------------------- MODULE TcpGateway -----------------------------
(***************************************************************************)
(* The gateway process, app/tcp_gateway/main.py: one asyncio event loop    *)
(* that runs a handler per connection and the command dispatcher.          *)
(*                                                                         *)
(* The code between two awaits runs without another task of the loop, but  *)
(* the web workers run beside it: a stretch that opens a database          *)
(* transaction is two steps, the one that reads and decides (and changes   *)
(* the process's own dictionaries) and GwCommit.  `gtx` is the transaction *)
(* between them, and while there is one no other task of the loop runs.    *)
(***************************************************************************)
EXTENDS Board, DeviceWeb, SequencesExt

CONSTANTS
    Diagnostic,   \* devices in diagnostic mode
    Quiet         \* devices that may stay silent for DEVICE_PING_SECONDS

ASSUME DeviceSetsAssumption == Diagnostic \subseteq Devices /\ Quiet \subseteq Devices

VARIABLES
    registered,   \* connections: the writer each device's commands go to
    steps,        \* command_steps: v2 lines of a command not sent yet
    follow,       \* follow_after_state: the line to send after the next STATE
    outbound,     \* the dispatcher's list, read by its last query
    retry,        \* the command whose failed write the dispatcher handles
    gtx,          \* the transaction open in the process
    dead,         \* dispatch_commands ended with an exception
    crashes       \* crashes still to come (a bound)

memory == <<registered, steps, follow, outbound, retry, dead>>
gatewayVars == <<memory, gtx, crashes>>

GwOps == {"idle", "hello", "report", "answer", "expire", "send", "requeue", "bye"}
GwTxs == [op : GwOps, conn : Conns \cup {NoConn}, cmd : Commands \cup {None},
          relays : RelayStates \cup {None}, writes : [Commands -> Writes],
          seen : SUBSET Commands]
IdleGw == [op |-> "idle", conn |-> NoConn, cmd |-> None, relays |-> None,
           writes |-> NoWrites, seen |-> {}]

GatewayTypeOK ==
    /\ registered \in [Devices -> Conns \cup {NoConn}]
    /\ steps \in [Commands -> Seq(Lines)]
    /\ follow \in [Devices -> Lines \cup {None}]
    /\ outbound \in SUBSET Commands
    /\ retry \in Commands \cup {None}
    /\ gtx \in GwTxs
    /\ dead \in BOOLEAN
    /\ crashes \in Nat

GatewayInit(budget) ==
    /\ registered = [d \in Devices |-> NoConn]
    /\ steps = [c \in Commands |-> << >>]
    /\ follow = [d \in Devices |-> None]
    /\ outbound = {} /\ retry = None /\ dead = FALSE
    /\ gtx = IdleGw
    /\ crashes = budget

GwIdle == up /\ gtx.op = "idle"

(* writer.write: the line leaves, unless the other end is already gone. *)
Sent(k, lines) ==
    IF link[k].peer = "up" THEN link[k].toBoard \o lines ELSE link[k].toBoard
RoomFor(k, n) == Len(link[k].toBoard) + n <= MaxQueue
Consumed(k) == [link EXCEPT ![k].toGw = Tail(@)]

---------------------------------------------------------------------------
(* handle_connection up to _set_connection("online"): the auth frame of a  *)
(* device that is known and enabled; its previous connection is closed.    *)
(* The mutant leaves it open.                                              *)
OldStaysOpen(k, old) == Consumed(k)
OldCloses(k, old) ==
    [i \in Conns |-> IF i = old /\ i # k THEN [link[i] EXCEPT !.gw = "closing"]
                     ELSE Consumed(k)[i]]

GwHello(k) ==
    LET d == link[k].device
    IN  /\ GwIdle
        /\ link[k].gw = "auth"
        /\ link[k].toGw # << >> /\ Head(link[k].toGw).verb = "AUTH"
        /\ dev[d].enabled /\ ~dev[d].deleted
        /\ RoomFor(k, 2)
        /\ registered' = [registered EXCEPT ![d] = k]
        /\ link' = OldCloses(k, registered[d])
        /\ gtx' = [IdleGw EXCEPT !.op = "hello", !.conn = k]
        /\ UNCHANGED <<storeVars, webVars, board, up, reboots,
                       steps, follow, outbound, retry, dead, crashes>>

(* The handler returns before it registered anything: the device is        *)
(* unknown, disabled or deleted, or no auth frame came in time.            *)
GwReject(k) ==
    LET d == link[k].device
    IN  /\ GwIdle
        /\ link[k].gw = "auth"
        /\ link[k].toGw = << >> \/ ~dev[d].enabled \/ dev[d].deleted
        /\ link' = [link EXCEPT ![k].gw = "closed", ![k].toGw = << >>]
        /\ UNCHANGED <<storeVars, webVars, board, up, reboots, gatewayVars>>

---------------------------------------------------------------------------
(* A v2 PONG or STATE (_handle_v2_frame, _set_connection).  A STATE        *)
(* decides the acknowledged commands of the device, completes the sent     *)
(* ones of a v2 device that it matches, and drops their unsent lines.      *)
AwaitingConfirmation(c, d) ==
    cmd[c].device = d /\ cmd[c].status = "acknowledged" /\ ~cmd[c].confirmed

MatchedSent(d, relays) ==
    {c \in Commands : /\ cmd[c].device = d /\ cmd[c].status = "sent"
                      /\ dev[d].proto = "2"
                      /\ PayloadMatches(cmd[c].payload, relays)}

ReportWrites(d, relays) ==
    [c \in Commands |->
        IF AwaitingConfirmation(c, d)
        THEN IF PayloadMatches(cmd[c].payload, relays) THEN Confirm ELSE Becomes("failed")
        ELSE IF c \in MatchedSent(d, relays) THEN Complete
        ELSE Keep]

GwReport(k) ==
    LET d == link[k].device
        frame == Head(link[k].toGw)
        known == ~dev[d].deleted
        stated == known /\ frame.verb = "STATE"
        matched == IF stated THEN MatchedSent(d, frame.relays) ELSE {}
    IN  /\ GwIdle
        /\ link[k].gw \in {"open", "closing"}
        /\ link[k].toGw # << >> /\ frame.verb \in {"PONG", "STATE"}
        /\ follow[d] = None \/ RoomFor(k, 1)
        /\ link' = Consumed(k)
        /\ steps' = [c \in Commands |-> IF c \in matched THEN << >> ELSE steps[c]]
        /\ follow' = [follow EXCEPT ![d] = IF matched # {} THEN None ELSE @]
        /\ gtx' = [IdleGw EXCEPT
                     !.op = "report", !.conn = k, !.relays = frame.relays,
                     !.writes = IF stated THEN ReportWrites(d, frame.relays) ELSE NoWrites,
                     !.seen = IF stated THEN {c \in Commands : cmd[c].device = d} ELSE {}]
        /\ UNCHANGED <<storeVars, webVars, board, up, reboots,
                       registered, outbound, retry, dead, crashes>>

---------------------------------------------------------------------------
(* OK and ERR carry no command_id: _ack_latest takes the device's sent     *)
(* command.  An OK of a command with lines left only moves the next line   *)
(* to follow_after_state.                                                  *)
Latest(d) == {c \in Commands : cmd[c].device = d /\ cmd[c].status = "sent"}

GwNextStep(k) ==
    LET d == link[k].device
    IN  /\ GwIdle
        /\ link[k].gw \in {"open", "closing"}
        /\ link[k].toGw # << >> /\ Head(link[k].toGw).verb = "OK"
        /\ \E c \in Latest(d) :
               /\ steps[c] # << >>
               /\ steps' = [steps EXCEPT ![c] = Tail(@)]
               /\ follow' = [follow EXCEPT ![d] = Head(steps[c])]
        /\ link' = Consumed(k)
        /\ UNCHANGED <<storeVars, webVars, board, up, reboots,
                       registered, outbound, retry, dead, gtx, crashes>>

(* _ack: the status it writes, for the command it has found sent. *)
Acked(c, success, relays) ==
    IF ~success THEN Becomes("failed")
    ELSE IF dev[cmd[c].device].proto = "2" THEN Becomes("completed")
    ELSE IF cmd[c].newer /\ PayloadMatches(cmd[c].payload, relays)
    THEN [status |-> "acknowledged", confirm |-> TRUE]
    ELSE Becomes("acknowledged")

(* The command an OK, ERR, ACK or NAK frame settles, if any. *)
Answered(d, frame) ==
    CASE frame.verb = "OK" -> {c \in Latest(d) : steps[c] = << >>}
      [] frame.verb = "ERR" -> Latest(d)
      [] OTHER -> {c \in Commands : c = frame.id /\ c \in Latest(d)}

GwAnswer(k) ==
    LET d == link[k].device
        frame == Head(link[k].toGw)
        success == frame.verb \in {"OK", "ACK"}
    IN  /\ GwIdle
        /\ link[k].gw \in {"open", "closing"}
        /\ link[k].toGw # << >> /\ frame.verb \in {"OK", "ERR", "ACK", "NAK"}
        /\ frame.verb = "OK" => \A c \in Latest(d) : steps[c] = << >>
        /\ link' = Consumed(k)
        /\ IF Answered(d, frame) = {}
           THEN UNCHANGED <<steps, gtx>>
           ELSE \E c \in Answered(d, frame) :
                   /\ steps' = [steps EXCEPT ![c] = << >>]
                   /\ gtx' = [IdleGw EXCEPT !.op = "answer", !.conn = k, !.cmd = c,
                                 !.writes = Only(c, Acked(c, success, dev[d].actual))]
        /\ UNCHANGED <<storeVars, webVars, board, up, reboots,
                       registered, follow, outbound, retry, dead, crashes>>

---------------------------------------------------------------------------
(* No frame for DEVICE_PING_SECONDS.  Bound: only when nothing is in       *)
(* flight on the connection.                                               *)
GwPing(k) ==
    /\ GwIdle
    /\ link[k].gw = "open"
    /\ link[k].device \in Quiet /\ dev[link[k].device].proto = "2"
    /\ link[k].toBoard = << >> /\ link[k].toGw = << >>
    /\ link' = [link EXCEPT ![k].toBoard = Sent(k, <<Line("PING")>>)]
    /\ UNCHANGED <<storeVars, webVars, board, up, reboots, gatewayVars>>

(* The handler ends: end of stream, a failed write, no PONG in time, or    *)
(* the transport was closed under it.  Only the handler whose writer is    *)
(* the registered one unregisters and shows the device offline.  The       *)
(* mutant forgets that test.                                               *)
GoodbyeWithoutIdentity(k) == registered[link[k].device] # NoConn
Goodbye(k) == registered[link[k].device] = k

GwBye(k) ==
    LET d == link[k].device
    IN  /\ GwIdle
        /\ link[k].gw = "closing" \/ (link[k].gw = "open" /\ link[k].toGw = << >>)
        /\ link' = [link EXCEPT ![k].gw = "closed", ![k].toGw = << >>]
        /\ IF Goodbye(k)
           THEN /\ registered' = [registered EXCEPT ![d] = NoConn]
                /\ gtx' = IF dev[d].deleted THEN gtx
                          ELSE [IdleGw EXCEPT !.op = "bye", !.conn = k]
           ELSE UNCHANGED <<registered, gtx>>
        /\ UNCHANGED <<storeVars, webVars, board, up, reboots,
                       steps, follow, outbound, retry, dead, crashes>>

---------------------------------------------------------------------------
(* dispatch_commands, one pass: expire, list what is pending, commit.      *)
(* Bound: a pass that has nothing to do is not a step.                     *)
DispatcherAwaits == GwIdle /\ ~dead /\ retry = None

(* Mutants: a pass that expires only acknowledged commands, one that lists *)
(* only the commands of devices whose state is known.                      *)
ExpireAcknowledgedOnly ==
    [c \in Commands |-> IF AckExpired(cmd[c]) THEN Becomes("failed") ELSE Keep]
ExpireWrites ==
    [c \in Commands |-> IF SentExpired(cmd[c]) THEN Becomes("timeout")
                        ELSE IF AckExpired(cmd[c]) THEN Becomes("failed")
                        ELSE Keep]
PendingOfKnownState ==
    {c \in Commands : /\ cmd[c].status = "pending"
                      /\ ~dev[cmd[c].device].deleted /\ dev[cmd[c].device].actual # None}
Pending == {c \in Commands : cmd[c].status = "pending" /\ ~dev[cmd[c].device].deleted}

GwScan ==
    /\ DispatcherAwaits /\ outbound = {}
    /\ ExpireWrites # NoWrites \/ Pending # {}
    /\ gtx' = [IdleGw EXCEPT !.op = "expire", !.writes = ExpireWrites, !.seen = Pending]
    /\ UNCHANGED <<storeVars, webVars, boardVars, memory, crashes>>

(* ... then each listed command: it is sent if it is still pending and its *)
(* device has an open connection, and left for the next pass otherwise.    *)
(* Its first line is sent now, the others are kept; the mutant keeps none. *)
NothingLeft(c) == << >>
LinesLeft(c) == IF dev[cmd[c].device].proto = "2"
                THEN Tail(V2Steps(cmd[c].payload)) ELSE steps[c]

Sendable(c) == LET k == registered[cmd[c].device]
               IN  k # NoConn /\ link[k].gw = "open" /\ cmd[c].status = "pending"

GwSend(c) ==
    LET d == cmd[c].device
    IN  /\ DispatcherAwaits /\ c \in outbound
        /\ outbound' = outbound \ {c}
        /\ IF ~Sendable(c)
           THEN UNCHANGED <<steps, gtx>>
           ELSE /\ RoomFor(registered[d], 1)
                /\ steps' = [steps EXCEPT ![c] = LinesLeft(c)]
                /\ gtx' = [IdleGw EXCEPT !.op = "send", !.conn = registered[d], !.cmd = c,
                                         !.writes = Only(c, Becomes("sent"))]
        /\ UNCHANGED <<storeVars, webVars, boardVars, registered, follow, retry, dead, crashes>>

(* The ConnectionError branch: a command still sent goes back to pending.  *)
(* The mutant does not look at the status again.                           *)
RequeuedAnyway(c) == TRUE
Requeued(c) == cmd[c].status = "sent"

GwRequeue ==
    /\ GwIdle /\ ~dead /\ retry # None
    /\ steps' = [steps EXCEPT ![retry] = << >>]
    /\ IF Requeued(retry)
       THEN /\ gtx' = [IdleGw EXCEPT !.op = "requeue", !.cmd = retry,
                                     !.writes = Only(retry, Becomes("pending"))]
            /\ UNCHANGED retry
       ELSE retry' = None /\ UNCHANGED gtx
    /\ UNCHANGED <<storeVars, webVars, boardVars, registered, follow, outbound, dead, crashes>>

(* The dispatcher's GET, once a second, to a board in diagnostic mode.     *)
(* Bound: one at a time is on its way.                                     *)
GwDiagnosticGet(d) ==
    LET k == registered[d]
    IN  /\ DispatcherAwaits /\ outbound = {}
        /\ d \in Diagnostic /\ dev[d].proto = "2" /\ dev[d].online /\ ~dev[d].deleted
        /\ k # NoConn /\ link[k].gw = "open" /\ link[k].toBoard = << >>
        /\ link' = [link EXCEPT ![k].toBoard = Sent(k, <<Line("GET")>>)]
        /\ UNCHANGED <<storeVars, webVars, board, up, reboots, gatewayVars>>

---------------------------------------------------------------------------
(* The commit of each transaction and what its task does up to its next    *)
(* await.                                                                  *)
TxDevice == link[gtx.conn].device
DeviceBecomes(online, actual) ==
    dev' = IF dev[TxDevice].deleted THEN dev
           ELSE [dev EXCEPT ![TxDevice].online = online, ![TxDevice].actual = actual]

(* The handler is authenticated: the v2 greeting is two lines. *)
CommitHello ==
    LET greeting == IF dev[TxDevice].proto = "2"
                    THEN <<Line("AUTHENTICATED"), Line("GET")>> ELSE <<Line("AUTHENTICATED")>>
    IN  /\ gtx.op = "hello" /\ ~RowLocked(TxDevice)
        /\ DeviceBecomes(TRUE, dev[TxDevice].actual)
        /\ link' = [link EXCEPT ![gtx.conn].gw = "open",
                                ![gtx.conn].toBoard = Sent(gtx.conn, greeting)]
        /\ UNCHANGED <<cmd, memory>>

(* After a v2 STATE the line that waited for it is sent, on the connection *)
(* the STATE came from.                                                    *)
CommitReport ==
    LET stated == gtx.relays # None
        next == IF stated /\ dev[TxDevice].proto = "2" THEN follow[TxDevice] ELSE None
    IN  /\ gtx.op = "report" /\ ~RowLocked(TxDevice)
        /\ DeviceBecomes(TRUE, IF stated THEN gtx.relays ELSE dev[TxDevice].actual)
        /\ cmd' = [c \in Commands |->
                      [Updated(gtx.writes)[c] EXCEPT
                         !.newer = @ \/ (c \in gtx.seen /\ dev[TxDevice].proto = "1")]]
        /\ IF next = None
           THEN UNCHANGED <<follow, link>>
           ELSE /\ follow' = [follow EXCEPT ![TxDevice] = None]
                /\ link' = [link EXCEPT ![gtx.conn].toBoard =
                               IF link[gtx.conn].gw = "open" THEN Sent(gtx.conn, <<next>>) ELSE @]
        /\ UNCHANGED <<registered, steps, outbound, retry, dead>>

CommitAnswer ==
    /\ gtx.op = "answer"
    /\ cmd' = Updated(gtx.writes)
    /\ UNCHANGED <<dev, link, memory>>

CommitExpire ==
    /\ gtx.op = "expire"
    /\ cmd' = Updated(gtx.writes)
    /\ outbound' = gtx.seen
    /\ UNCHANGED <<dev, link, registered, steps, follow, retry, dead>>

(* The line goes out right after the commit.  A write to a dead peer is    *)
(* accepted and lost, or drain raises and the dispatcher will requeue.     *)
CommitSend ==
    LET c == gtx.cmd
        line == IF dev[cmd[c].device].proto = "2" THEN Head(V2Steps(cmd[c].payload))
                ELSE CmdLine(c, cmd[c].payload)
    IN  /\ gtx.op = "send"
        /\ cmd' = Updated(gtx.writes)
        /\ \/ /\ link' = [link EXCEPT ![gtx.conn].toBoard = Sent(gtx.conn, <<line>>)]
              /\ UNCHANGED retry
           \/ /\ link[gtx.conn].peer = "down"
              /\ link' = [link EXCEPT ![gtx.conn].gw = "closing"]
              /\ retry' = c
        /\ UNCHANGED <<dev, registered, steps, follow, outbound, dead>>

CommitRequeue ==
    /\ gtx.op = "requeue"
    /\ cmd' = Updated(gtx.writes)
    /\ retry' = None
    /\ UNCHANGED <<dev, link, registered, steps, follow, outbound, dead>>

CommitBye ==
    /\ gtx.op = "bye" /\ ~RowLocked(TxDevice)
    /\ DeviceBecomes(FALSE, dev[TxDevice].actual)
    /\ UNCHANGED <<cmd, link, memory>>

(* The unique index refuses the commit: the exception ends the handler, or *)
(* the dispatcher's task.                                                  *)
RolledBack ==
    /\ gtx.op \in {"report", "answer", "requeue"}
    /\ IF gtx.op = "requeue"
       THEN retry' = None /\ outbound' = {} /\ dead' = TRUE /\ UNCHANGED link
       ELSE /\ link' = [link EXCEPT ![gtx.conn].gw = "closing", ![gtx.conn].toGw = << >>]
            /\ UNCHANGED <<retry, outbound, dead>>
    /\ UNCHANGED <<cmd, dev, registered, steps, follow>>

GwCommit ==
    /\ up /\ gtx.op # "idle"
    /\ IF IndexHolds(Updated(gtx.writes))
       THEN \/ CommitHello \/ CommitReport \/ CommitAnswer \/ CommitExpire
            \/ CommitSend \/ CommitRequeue \/ CommitBye
       ELSE RolledBack
    /\ gtx' = IdleGw
    /\ UNCHANGED <<webVars, board, up, reboots, crashes>>

---------------------------------------------------------------------------
(* The process dies: its transaction is rolled back, its dictionaries are  *)
(* gone, and no row is touched, so its devices stay online.                *)
GwCrash ==
    /\ up /\ crashes > 0
    /\ up' = FALSE
    /\ crashes' = crashes - 1
    /\ link' = [k \in Conns |->
                  IF link[k].gw \in {"auth", "open", "closing"}
                  THEN [link[k] EXCEPT !.gw = "closed", !.toGw = << >>] ELSE link[k]]
    /\ registered' = [d \in Devices |-> NoConn]
    /\ steps' = [c \in Commands |-> << >>]
    /\ follow' = [d \in Devices |-> None]
    /\ outbound' = {} /\ retry' = None /\ dead' = FALSE
    /\ gtx' = IdleGw
    /\ UNCHANGED <<storeVars, webVars, board, reboots>>

(* docker compose starts it again ("restart: unless-stopped"). *)
GwStart ==
    /\ ~up
    /\ up' = TRUE
    /\ UNCHANGED <<storeVars, webVars, link, board, reboots, gatewayVars>>

HandlerBegins(k) ==
    GwHello(k) \/ GwReject(k) \/ GwReport(k) \/ GwNextStep(k) \/ GwAnswer(k) \/ GwBye(k)
DispatcherBegins == GwScan \/ (\E c \in Commands : GwSend(c)) \/ GwRequeue
=============================================================================
