--------------------------- MODULE DeviceControl ---------------------------
(***************************************************************************)
(* Remote control of the lighting boards as a whole: operators and admins  *)
(* behind the web workers, the gateway process, the boards and the         *)
(* connections between them, over the two tables they share.               *)
(***************************************************************************)
EXTENDS TcpGateway

CONSTANTS
    AdminBudget,    \* bounds: administrative requests, controller power
    RebootBudget,   \* losses and gateway crashes in a behaviour
    CrashBudget

ASSUME BudgetAssumption ==
    AdminBudget \in Nat /\ RebootBudget \in Nat /\ CrashBudget \in Nat

vars == <<storeVars, webVars, boardVars, gatewayVars>>

Init == /\ StoreInit
        /\ WebInit(AdminBudget)
        /\ BoardInit(RebootBudget)
        /\ GatewayInit(CrashBudget)

(* When transactions are not interleaved one begins only if none is open. *)
MayBegin == Interleaved \/ (gtx.op = "idle" /\ WebIdle)

Web ==
    /\ \/ \E w \in Workers : (MayBegin /\ WebBegin(w)) \/ WebCommit(w)
       \/ MayBegin /\ AdminRequest
    /\ UNCHANGED <<boardVars, gatewayVars>>

Controller ==
    /\ \E d \in Devices : \/ \E k \in Conns : Connect(d, k)
                          \/ BoardTurn(d)
                          \/ BoardFailure(d)
    /\ UNCHANGED <<storeVars, webVars, gatewayVars>>

Handler(k) == link[k].device # None /\ MayBegin /\ (HandlerBegins(k) \/ GwPing(k))
Dispatcher == MayBegin /\ (DispatcherBegins \/ \E d \in Devices : GwDiagnosticGet(d))

Gateway == \/ \E k \in Conns : Handler(k)
           \/ Dispatcher
           \/ GwCommit
           \/ GwCrash
           \/ GwStart

(* A failed write is handled at once, long before the deadline it set. *)
Clock ==
    /\ \E c \in Commands : c # retry /\ Deadline(c)
    /\ UNCHANGED <<webVars, boardVars, gatewayVars>>

Next == Web \/ Controller \/ Gateway \/ Clock

Spec == Init /\ [][Next]_vars

(***************************************************************************)
(* Fairness.  Gunicorn finishes or times out a request; the event loop     *)
(* runs ready tasks in turn, so a handler with a frame and the dispatcher  *)
(* are served although other tasks keep the loop busy (strong fairness);   *)
(* docker restarts the gateway; the clock moves; the main loop of a board  *)
(* runs.  Nothing is assumed of users, of the network or of a reconnect.   *)
(***************************************************************************)
FrameTurn(k)  == MayBegin /\ (GwHello(k) \/ GwReport(k) \/ GwNextStep(k) \/ GwAnswer(k))
WebTurn(w)    == WebCommit(w) /\ UNCHANGED <<boardVars, gatewayVars>>
LoopTurn(d)   == /\ ExecuteV1(d) \/ \E n \in 1..MaxQueue : Execute(d, n) \/ Authenticated(d, n)
                 /\ UNCHANGED <<storeVars, webVars, gatewayVars>>
DeadlineOf(c) == c # retry /\ Deadline(c) /\ UNCHANGED <<webVars, boardVars, gatewayVars>>

Fairness ==
    /\ WF_vars(GwCommit) /\ WF_vars(GwStart)
    /\ SF_vars(MayBegin /\ DispatcherBegins)
    /\ \A k \in Conns : SF_vars(FrameTurn(k))
    /\ \A w \in Workers : WF_vars(WebTurn(w))
    /\ \A d \in Devices : WF_vars(LoopTurn(d))
    /\ \A c \in Commands : WF_vars(DeadlineOf(c))

FairSpec == Spec /\ Fairness

TypeOK == StoreTypeOK /\ WebTypeOK /\ BoardTypeOK /\ GatewayTypeOK

---------------------------------------------------------------------------
(* What the types leave open and the steps rely on: rows, connections and  *)
(* transactions in use are about devices, payloads and commands that exist.*)
Row(c)  == cmd[c].status # "none"
OfRows(ws) == \A c \in Commands : ws[c] # Keep => Row(c)
Used(k) == k \in Conns /\ link[k].gw # "none"

RowsKnown ==
    \A c \in Commands : Row(c) => cmd[c].device \in Devices /\ cmd[c].payload \in Payloads
LinksKnown ==
    /\ \A k \in Conns : Used(k) => link[k].device \in Devices
    /\ \A d \in Devices : registered[d] # NoConn =>
           Used(registered[d]) /\ link[registered[d]].device = d
WebKnown ==
    \A w \in Workers :
        /\ OfRows(web[w].writes)
        /\ web[w].op = "enqueue" => web[w].device \in Devices /\ web[w].payload \in Payloads
GatewayKnown ==
    /\ OfRows(gtx.writes)
    /\ gtx.op \in {"hello", "report", "answer", "send", "bye"} => Used(gtx.conn)
    /\ gtx.op \in {"send", "requeue"} => gtx.cmd \in Commands /\ Row(gtx.cmd)
    /\ gtx.op = "expire" => \A c \in gtx.seen : Row(c)
    /\ \A c \in outbound : Row(c)
    /\ retry # None => Row(retry)

(* A handler that serves a device is the registered one: a device that     *)
(* connects again closes the connection it had.                            *)
OpenIsRegistered ==
    \A k \in Conns : link[k].gw = "open" => registered[link[k].device] = k

(* A device that a handler serves is shown online, unless the gateway is   *)
(* registering a newer connection of it: the end of an older connection    *)
(* hides nothing.                                                          *)
Greeting(d) == gtx.op = "hello" /\ link[gtx.conn].device = d
Presence ==
    \A k \in Conns :
        LET d == link[k].device
        IN  link[k].gw = "open" => Greeting(d) \/ dev[d].online \/ dev[d].deleted

(* The first command of a device is shown completed only when the board's  *)
(* relays are as it asked, whatever is lost on the way: v2 answers name no *)
(* command, so that of a second one they may be for the first.             *)
CommandsOf(d) == {c \in Commands : Row(c) /\ cmd[c].device = d}
CompletedSwitched ==
    [][\A c \in Commands :
          /\ cmd[c].status # "completed" /\ cmd'[c].status = "completed"
          /\ CommandsOf(cmd[c].device) = {c}
          => PayloadMatches(cmd[c].payload, board[cmd[c].device].relays)]_vars

(* Their inductive forms: the transaction between the two halves of a      *)
(* greeting or of a goodbye is about the registered connection, or about a *)
(* device that has none.                                                   *)
ConnectionsInv ==
    /\ OpenIsRegistered
    /\ gtx.op = "hello" => registered[link[gtx.conn].device] = gtx.conn
    /\ gtx.op = "bye" => registered[link[gtx.conn].device] = NoConn
    /\ \A d \in Devices :
           registered[d] # NoConn => Greeting(d) \/ dev[d].online \/ dev[d].deleted

Inv == TypeOK /\ RowsKnown /\ LinksKnown /\ WebKnown /\ GatewayKnown /\ ConnectionsInv

---------------------------------------------------------------------------
(* A command that was sent does not stay sent, and an acknowledged one     *)
(* does not wait for its STATE for ever, whatever connections, boards and  *)
(* gateway restarts do: the operator's buttons come back.                  *)
SlotIsGivenBack ==
    \A c \in Commands :
        /\ cmd[c].status = "sent" ~> cmd[c].status # "sent"
        /\ AwaitingConfirmation(c, cmd[c].device) ~> ~AwaitingConfirmation(c, cmd[c].device)

(* If a device's connection comes to last, its pending command is sent. *)
Reachable(d) == LET k == registered[d]
                IN  /\ up /\ k # NoConn /\ ~dev[d].deleted
                    /\ link[k].gw = "open" /\ link[k].peer = "up"
PendingIsSent ==
    \A d \in Devices :
        <>[]Reachable(d) =>
            \A c \in Commands : (cmd[c].device = d /\ cmd[c].status = "pending")
                                   ~> cmd[c].status # "pending"

---------------------------------------------------------------------------
(* The abstract queue that the two tables implement: the slot of a device  *)
(* is its active command.                                                  *)
OwnerOf(d) == {c \in Commands : cmd[c].device = d /\ Active(cmd[c])}
SlotOf(d) == IF OwnerOf(d) = {} THEN [cmd |-> None, phase |-> "free"]
             ELSE LET c == CHOOSE x \in OwnerOf(d) : TRUE
                  IN  [cmd |-> c, phase |-> cmd[c].status]
OutcomeOf(c) == IF cmd[c].status = "none" \/ Active(cmd[c]) THEN "open" ELSE cmd[c].status

Queue == INSTANCE CommandLifecycle WITH
             NoCommand <- None,
             slot <- [d \in Devices |-> SlotOf(d)],
             outcome <- [c \in Commands |-> OutcomeOf(c)]

(* When transactions do not interleave, every step of the system is a step *)
(* of the abstract queue or leaves it alone.                               *)
ImplementsQueue == Queue!Spec

---------------------------------------------------------------------------
(* What the tests, comments and documents say and the code does not keep:  *)
(* each has a run of its own that shows how.                               *)

(* The second line of a night or day command waits until the board has     *)
(* obeyed the first (test_v2_night_and_day_are_two_set_lines_and_the_      *)
(* second_waits_for_ok).                                                   *)
SecondLineSent(c, k) ==
    LET lines == V2Steps(cmd[c].payload)
    IN  /\ cmd[c].status = "sent" /\ Len(lines) = 2
        /\ Len(link'[k].toBoard) > Len(link[k].toBoard)
        /\ Last(link'[k].toBoard) = lines[2]

SecondWaitsForOk ==
    [][\A c \in Commands, k \in Conns :
          cmd[c].device = link[k].device /\ SecondLineSent(c, k)
          => PayloadMatches(V2Steps(cmd[c].payload)[1].set, board[link[k].device].relays)]_vars

(* The gateway sends a v2 board only lines it accepts, so no command of it *)
(* fails ("Translate only validated OPORA switch commands into v2 wire     *)
(* text").                                                                 *)
NeverRefused ==
    \A c \in Commands :
        cmd[c].device # None /\ dev[cmd[c].device].proto = "2" => cmd[c].status # "failed"

(* A command whose OK the gateway has recorded does not time out: it is    *)
(* the absence of OK and ERR that makes a timeout.                         *)
AnsweredDoesNotTimeOut ==
    [][\A c \in Commands : cmd[c].status = "completed" => cmd'[c].status # "timeout"]_vars

(* A v2 command is completed by its OK, and a STATE changes only what is   *)
(* known of the board's outputs.                                           *)
CompletedByOk ==
    [][\A c \in Commands :
          cmd[c].status # "completed" /\ cmd'[c].status = "completed"
          => gtx.op = "answer" /\ gtx.cmd = c]_vars
=============================================================================
