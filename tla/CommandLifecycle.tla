-------------------------- MODULE CommandLifecycle --------------------------
(***************************************************************************)
(* What the command queue promises, with no gateway, no connections and no *)
(* transactions: each device has one slot; a command enters a free slot    *)
(* pending, leaves pending only by being sent, and leaves the slot with an *)
(* outcome that never changes.                                             *)
(***************************************************************************)
CONSTANTS Commands, Devices, NoCommand

VARIABLES
    slot,      \* slot[d]: Free, or the command that owns it and its phase
    outcome    \* outcome[c]: "open" until the command has left its slot

Phases == {"pending", "sent", "acknowledged"}
Outcomes == {"acknowledged", "completed", "failed", "timeout"}

Holding(c, phase) == [cmd |-> c, phase |-> phase]
Free == Holding(NoCommand, "free")

Init == /\ slot = [d \in Devices |-> Free]
        /\ outcome = [c \in Commands |-> "open"]

Fresh(c) == outcome[c] = "open" /\ \A d \in Devices : slot[d] = Free \/ slot[d].cmd # c

(* How a slot may change in one step, and the outcome its command gets.    *)
Enter(d)  == slot[d] = Free
             /\ \E c \in Commands : Fresh(c) /\ slot'[d] = Holding(c, "pending")
Send(d)   == slot[d] # Free /\ slot[d].phase = "pending"
             /\ slot'[d] = Holding(slot[d].cmd, "sent")
Return(d) == slot[d] # Free /\ slot[d].phase = "sent"
             /\ slot'[d] = Holding(slot[d].cmd, "pending")
Ack(d)    == slot[d] # Free /\ slot[d].phase = "sent"
             /\ slot'[d] = Holding(slot[d].cmd, "acknowledged")
Leave(d)  == slot[d] # Free /\ slot'[d] = Free
             /\ outcome'[slot[d].cmd] \in
                    CASE slot[d].phase = "pending" -> {}
                      [] slot[d].phase = "sent" -> Outcomes
                      [] OTHER -> {"acknowledged", "failed"}
(* An acknowledged command whose confirmation is overdue makes room. *)
Replace(d) == slot[d] # Free /\ slot[d].phase = "acknowledged"
              /\ outcome'[slot[d].cmd] = "failed"
              /\ \E c \in Commands : Fresh(c) /\ slot'[d] = Holding(c, "pending")

Moves(d) == Enter(d) \/ Send(d) \/ Return(d) \/ Ack(d) \/ Leave(d) \/ Replace(d)

Left(c) == \E d \in Devices : slot[d] # Free /\ slot[d].cmd = c
                              /\ (slot'[d] = Free \/ slot'[d].cmd # c)

(* One transaction may settle commands of several devices. *)
Next == /\ \A d \in Devices : slot'[d] = slot[d] \/ Moves(d)
        /\ \A c \in Commands : outcome'[c] # outcome[c] => Left(c)
        /\ DOMAIN slot' = Devices /\ DOMAIN outcome' = Commands

Spec == Init /\ [][Next]_<<slot, outcome>>
=============================================================================
