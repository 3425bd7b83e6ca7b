--------------------------- MODULE CommandStore ---------------------------
(***************************************************************************)
(* The rows of `devices` and `device_commands` that the web workers and    *)
(* the gateway process both read and write, each in transactions of its    *)
(* own under READ COMMITTED and with no version column.  A transaction     *)
(* reads at one step and commits at a later one; what it writes are the    *)
(* columns it decided to change when it read.                              *)
(*                                                                         *)
(* Deadlines are a Boolean of the row, `late`: the time that applies to    *)
(* the row's present status (sent_at + DEVICE_COMMAND_TIMEOUT_SECONDS, or  *)
(* acknowledged_at + DEVICE_STATE_CONFIRM_TIMEOUT_SECONDS) has passed.     *)
(***************************************************************************)
EXTENDS SwitchProtocol, FiniteSets

CONSTANTS
    Devices,      \* controllers
    Protocols,    \* protocol_version values in use: a subset of {"1", "2"}
    Interleaved   \* BOOLEAN: may another transaction commit inside one?

ASSUME ProtocolsAssumption == Protocols \subseteq {"1", "2"}
ASSUME InterleavedAssumption == Interleaved \in BOOLEAN
ASSUME DevicesAssumption == None \notin Devices

VARIABLES cmd, dev
storeVars == <<cmd, dev>>

Statuses == {"pending", "sent", "acknowledged", "completed", "failed", "timeout"}

CommandRows == [status : Statuses \cup {"none"},      \* "none": no such row yet
                device : Devices \cup {None},
                payload : Payloads \cup {None},
                confirmed : BOOLEAN,                  \* state_confirmed_at is set
                newer : BOOLEAN,                      \* last_state_at >= created_at
                late : BOOLEAN]

DeviceRows == [enabled : BOOLEAN, deleted : BOOLEAN, online : BOOLEAN,
               proto : Protocols, actual : RelayStates \cup {None}]

NoRow == [status |-> "none", device |-> None, payload |-> None,
          confirmed |-> FALSE, newer |-> FALSE, late |-> FALSE]
NewRow(d, p) == [NoRow EXCEPT !.status = "pending", !.device = d, !.payload = p]

StoreInit ==
    /\ cmd = [c \in Commands |-> NoRow]
    /\ \E proto \in [Devices -> Protocols] :
           dev = [d \in Devices |-> [enabled |-> TRUE, deleted |-> FALSE, online |-> FALSE,
                                     proto |-> proto[d], actual |-> None]]

---------------------------------------------------------------------------
(* active_command_query: the command that owns its device's slot. *)
Active(row) == \/ row.status \in {"pending", "sent"}
               \/ row.status = "acknowledged" /\ ~row.confirmed

(* uq_device_commands_one_active_per_device.  The index that forgets the   *)
(* acknowledged commands is the mutant.                                    *)
IndexedNotAcknowledged(row) == row.status \in {"pending", "sent"}
Indexed(row) == \/ row.status \in {"pending", "sent"}
                \/ row.status = "acknowledged" /\ ~row.confirmed

IndexHolds(table) ==
    \A c1, c2 \in Commands :
        /\ Indexed(table[c1])
        /\ Indexed(table[c2])
        /\ table[c1].device = table[c2].device
        => c1 = c2

AckExpired(row)  == row.status = "acknowledged" /\ ~row.confirmed /\ row.late
SentExpired(row) == row.status = "sent" /\ row.late

---------------------------------------------------------------------------
(* The column updates a transaction carries for one row: a new status or   *)
(* "keep", and whether it stamps state_confirmed_at.                       *)
Writes == [status : Statuses \cup {"keep"}, confirm : BOOLEAN]
Keep        == [status |-> "keep", confirm |-> FALSE]
Becomes(status) == [status |-> status, confirm |-> FALSE]
Complete    == [status |-> "completed", confirm |-> TRUE]
Confirm     == [status |-> "keep", confirm |-> TRUE]
NoWrites    == [c \in Commands |-> Keep]
Only(c, w)  == [NoWrites EXCEPT ![c] = w]

(* UPDATE ... SET <changed columns> WHERE id = <the row's id>.  The mutant *)
(* writes the status column even when the transaction did not change it.   *)
UpdateAll(row, w) == [row EXCEPT !.status = w.status, !.confirmed = @ \/ w.confirm]
Update(row, w) ==
    [row EXCEPT !.status = IF w.status = "keep" THEN @ ELSE w.status,
                !.confirmed = @ \/ w.confirm,
                !.late = @ /\ w.status = "keep"]
Updated(ws) == [c \in Commands |-> Update(cmd[c], ws[c])]

(* The wall clock reaches a row's deadline. *)
Deadline(c) ==
    /\ cmd[c].status = "sent" \/ (cmd[c].status = "acknowledged" /\ ~cmd[c].confirmed)
    /\ ~cmd[c].late
    /\ cmd' = [cmd EXCEPT ![c].late = TRUE]
    /\ UNCHANGED dev

---------------------------------------------------------------------------
StoreTypeOK == /\ cmd \in [Commands -> CommandRows]
               /\ dev \in [Devices -> DeviceRows]

(* One active command per device: the promise of the queue, of the row     *)
(* lock taken by _queue_switch_command and of the partial unique index.    *)
OneActive ==
    \A c1, c2 \in Commands :
        /\ Active(cmd[c1])
        /\ Active(cmd[c2])
        /\ cmd[c1].device = cmd[c2].device
        => c1 = c2
=============================================================================
