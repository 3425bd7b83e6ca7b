----------------------------- MODULE DeviceWeb -----------------------------
(***************************************************************************)
(* The web side of remote control: the Gunicorn workers that run           *)
(* app/modules/devices/routes.py.  A request is one transaction: a worker  *)
(* reads, decides (`web[w]` holds what it will write) and commits later.   *)
(***************************************************************************)
EXTENDS CommandStore

CONSTANTS Workers

VARIABLES
    web,       \* web[w]: the transaction worker w has open
    admin      \* administrative requests still to come (a bound)

webVars == <<web, admin>>

WebTxs == [op : {"idle", "settle", "enqueue"}, device : Devices \cup {None},
           payload : Payloads \cup {None}, writes : [Commands -> Writes]]
IdleWeb == [op |-> "idle", device |-> None, payload |-> None, writes |-> NoWrites]

WebTypeOK == web \in [Workers -> WebTxs] /\ admin \in Nat

WebInit(budget) == web = [w \in Workers |-> IdleWeb] /\ admin = budget

WebIdle == \A w \in Workers : web[w].op = "idle"

(* SELECT ... FOR UPDATE of _queue_switch_command holds the device's row   *)
(* until its transaction ends: other writers of that row wait.             *)
RowLocked(d) == \E w \in Workers : web[w].op = "enqueue" /\ web[w].device = d

---------------------------------------------------------------------------
(* _settle_command_queue, on every GET of the page and of /status: the     *)
(* acknowledged commands past their deadline fail, the sent ones time out, *)
(* then the v2 ones still sent whose outputs the board is known to have    *)
(* are completed.  It commits only if it changed something.                *)
Released(c) ==
    LET d == cmd[c].device
    IN  /\ cmd[c].status = "sent" /\ ~cmd[c].late
        /\ ~dev[d].deleted
        /\ dev[d].proto = "2"
        /\ PayloadMatches(cmd[c].payload, dev[d].actual)

SettleWrites ==
    [c \in Commands |-> IF AckExpired(cmd[c]) THEN Becomes("failed")
                        ELSE IF SentExpired(cmd[c]) THEN Becomes("timeout")
                        ELSE IF Released(c) THEN Complete
                        ELSE Keep]

SettleBegin(w) ==
    /\ web[w].op = "idle"
    /\ SettleWrites # NoWrites
    /\ web' = [web EXCEPT ![w] = [IdleWeb EXCEPT !.op = "settle", !.writes = SettleWrites]]
    /\ UNCHANGED <<storeVars, admin>>

SettleCommit(w) ==
    /\ web[w].op = "settle"
    /\ IF IndexHolds(Updated(web[w].writes))
       THEN cmd' = Updated(web[w].writes)
       ELSE UNCHANGED cmd
    /\ web' = [web EXCEPT ![w] = IdleWeb]
    /\ UNCHANGED <<dev, admin>>

---------------------------------------------------------------------------
(* _queue_switch_command, up to the flush: with the device's row locked,   *)
(* refuse a missing, disabled or offline device, fail the acknowledged     *)
(* commands past their deadline, refuse if another command is active.      *)
(* Bound: a request begins only if Commands has a row left for it.         *)
RowsLeft == {c \in Commands : cmd[c].status = "none"}
Enqueueing == {w \in Workers : web[w].op = "enqueue"}

ExpireOf(d) ==
    [c \in Commands |-> IF cmd[c].device = d /\ AckExpired(cmd[c])
                        THEN Becomes("failed") ELSE Keep]

EnqueueBegin(w, d, p) ==
    /\ web[w].op = "idle"
    /\ Cardinality(Enqueueing) < Cardinality(RowsLeft)
    /\ ~RowLocked(d)
    /\ ~dev[d].deleted /\ dev[d].enabled /\ dev[d].online
    /\ \A c \in Commands :
           cmd[c].device = d /\ Active(cmd[c]) => AckExpired(cmd[c])
    /\ web' = [web EXCEPT ![w] = [op |-> "enqueue", device |-> d, payload |-> p,
                                  writes |-> ExpireOf(d)]]
    /\ UNCHANGED <<storeVars, admin>>

(* ... and the INSERT and the commit of create_command: an IntegrityError  *)
(* of the unique index rolls everything back (409).                        *)
Inserted(w, c) ==
    [Updated(web[w].writes) EXCEPT ![c] = NewRow(web[w].device, web[w].payload)]

EnqueueCommit(w, c) ==
    /\ web[w].op = "enqueue"
    /\ c \in RowsLeft
    /\ IF IndexHolds(Inserted(w, c))
       THEN cmd' = Inserted(w, c)
       ELSE UNCHANGED cmd
    /\ web' = [web EXCEPT ![w] = IdleWeb]
    /\ UNCHANGED <<dev, admin>>

---------------------------------------------------------------------------
(* edit: the enabled flag of the form.  The connection is left alone. *)
EditEnabled(d) ==
    /\ admin > 0
    /\ ~dev[d].deleted /\ ~RowLocked(d)
    /\ dev' = [dev EXCEPT ![d].enabled = ~@]
    /\ admin' = admin - 1
    /\ UNCHANGED <<cmd, web>>

(* delete: disabled, shown offline, soft-deleted.  Queued commands and the *)
(* live connection are left alone.                                         *)
DeleteDevice(d) ==
    /\ admin > 0
    /\ ~dev[d].deleted /\ ~RowLocked(d)
    /\ dev' = [dev EXCEPT ![d].enabled = FALSE, ![d].online = FALSE, ![d].deleted = TRUE]
    /\ admin' = admin - 1
    /\ UNCHANGED <<cmd, web>>

WebBegin(w) == \/ SettleBegin(w)
               \/ \E d \in Devices, p \in Payloads : EnqueueBegin(w, d, p)
WebCommit(w) == SettleCommit(w) \/ \E c \in Commands : EnqueueCommit(w, c)
AdminRequest == \E d \in Devices : EditEnabled(d) \/ DeleteDevice(d)
=============================================================================
