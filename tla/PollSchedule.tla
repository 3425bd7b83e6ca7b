---------------------------- MODULE PollSchedule ----------------------------
(***************************************************************************)
(* When an ATM21 is due: the slots of app/modules/irz/scheduler.py.  Every *)
(* known device has an offset inside the interval, its rank in IMEI order  *)
(* scaled to the interval, and one slot per interval that begins there.    *)
(***************************************************************************)
EXTENDS Integers, FiniteSets

CONSTANTS
    Atms,        \* ATM21 modems, by IMEI
    Interval     \* IRZ_AUTO_POLL_INTERVAL_SECONDS, in ticks

ASSUME AtmsAssumption == Atms \subseteq Nat /\ IsFiniteSet(Atms)
ASSUME IntervalAssumption == Interval \in Nat \ {0}

(* schedule_offsets: (index * interval) // count. *)
RankedOffset(index, count) == (index * Interval) \div count
Rank(d, known) == Cardinality({e \in known : e < d})
Offset(d, known) == RankedOffset(Rank(d, known), Cardinality(known))

(* slot_start: the beginning of the last slot not later than the time.     *)
SlotStart(time, offset) ==
    LET slot == time - (time % Interval) + offset
    IN  IF slot > time THEN slot - Interval ELSE slot
=============================================================================
