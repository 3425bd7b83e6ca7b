----------------------------- MODULE WorkStatus -----------------------------
(***************************************************************************)
(* Statuses of the two kinds of field work of OPORA: a request of a        *)
(* dispatcher's journal (requests/workflow.py) and a defect                *)
(* (defects/workflow.py).  The legacy codes "emergency_dispatched" and     *)
(* "accepted_by_master" of requests have the transitions of "new" and no   *)
(* operation leads to them any more, so "new" stands for the three.        *)
(***************************************************************************)
CONSTANTS Requests, Defects

ASSUME KindsDisjoint == Requests \cap Defects = {}

Works == Requests \cup Defects

InProgress == "in_progress"

EarlyCodes(w) ==
    IF w \in Requests THEN {"new"} ELSE {"open"}

OpenCodes(w) == EarlyCodes(w) \cup {InProgress}

DoneCode(w) == IF w \in Requests THEN "completed" ELSE "fixed"

ClosedCodes(w) == {DoneCode(w), "cancelled"}

Codes(w) == OpenCodes(w) \cup ClosedCodes(w)

(* ALLOWED_TRANSITIONS: an early code moves to any other kind, work in     *)
(* progress can only be closed, a closed code is final.                    *)
CanTransition(w, from, to) ==
    \/ from \in EarlyCodes(w) /\ to \in ClosedCodes(w) \cup {InProgress}
    \/ from = InProgress      /\ to \in ClosedCodes(w)

(* mark_in_progress_in_session refuses a closed work and is a no-op on one *)
(* already in progress.  The mutant takes any work.                        *)
CanTakeAny(w, code) == code \in Codes(w)
CanTake(w, code) == code = InProgress \/ CanTransition(w, code, InProgress)

(* restore_from_plan_in_session: only a work still in progress goes back,  *)
(* and only to a code that was recorded and differs.  The mutant does not  *)
(* look at the present code.                                               *)
RestoredAlways(code, previous) == IF previous # "" THEN previous ELSE code
Restored(code, previous) ==
    IF code = InProgress /\ previous # "" THEN previous ELSE code
=============================================================================
