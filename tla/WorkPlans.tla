------------------------------ MODULE WorkPlans ------------------------------
(***************************************************************************)
(* Work plans and waybills of the web application: which work is held by   *)
(* whom, and how plans move the status of the works they hold.             *)
(*                                                                         *)
(* The database is the function "rows" from cells to values: a cell is a   *)
(* column of a row that some transaction writes.                           *)
(*                                                                         *)
(* Every handler reads, decides, and writes back at its commit the cells   *)
(* it changed (SQLAlchemy emits only changed columns).  The service runs   *)
(* several gunicorn threads on READ COMMITTED and the row lock taken by    *)
(* _lock_request does not refresh an object that is already in the         *)
(* session, so a handler can commit values computed from rows that another *)
(* one has changed meanwhile.  Handlers therefore run either at once or as *)
(* the one slow transaction "slow", which reads now and commits later.     *)
(* Two overlapping handlers are the bound: while one is slow, a single     *)
(* commit that touches its rows comes in between, and a behaviour ends     *)
(* with the commit of a handler that has been overtaken, since nothing is  *)
(* promised of what it leaves.  Every property covers that last step.      *)
(***************************************************************************)
EXTENDS WorkStatus

CONSTANTS Masters,      \* masters, each with at most one open waybill today
          Plans,        \* identities of work plans
          OldDrafts,    \* plans saved as drafts by an earlier version
          EditCodes     \* the codes a status edited by hand may take (bound)

ASSUME PlansAssumption == OldDrafts \subseteq Plans

VARIABLES rows,         \* the committed database
          slow,         \* the transaction that has read and not committed
          raced         \* rows a transaction committed over a change it had not read

workVars == <<rows, slow, raced>>

NoRow == "none"
NoTransaction == [on |-> {}, write |-> << >>, keys |-> {}, hit |-> {}]

StatusCell(w) == <<"status", w>>
DeletedCell(w) == <<"deleted", w>>
PlanCell(p) == <<"plan", p>>
ItemCell(p, w) == <<"item", p, w>>
BillCell(m) == <<"waybill", m>>
StopCell(m, w) == <<"stop", m, w>>

Cells == {StatusCell(w) : w \in Works} \cup {DeletedCell(w) : w \in Works}
         \cup {PlanCell(p) : p \in Plans} \cup {BillCell(m) : m \in Masters}
         \cup {ItemCell(p, w) : p \in Plans, w \in Works}
         \cup {StopCell(m, w) : m \in Masters, w \in Works}

(* An item that is completed or excluded is "closed"; the code keeps its   *)
(* previous status, but nothing reads it after that.                       *)
Item(result, previous) == [result |-> result, previous |-> previous]
NoItem == Item(NoRow, "")
Stop(previous) == [previous |-> previous]
NoStop == [previous |-> NoRow]

Code(w) == rows[StatusCell(w)]
Live(w) == ~rows[DeletedCell(w)]
PlanStatus(p) == rows[PlanCell(p)]
PlanItem(p, w) == rows[ItemCell(p, w)]
BillOpen(m) == rows[BillCell(m)] # NoRow
HasStop(m, w) == rows[StopCell(m, w)] # NoStop

OpenPlan(p) == PlanStatus(p) \in {"draft", InProgress}
ActiveIn(p, w) == PlanItem(p, w).result = "active"

(* _busy_ids: the works of the other open plans.  The mutant overlooks     *)
(* drafts.                                                                 *)
BusyInStarted(w, but) ==
    \E p \in Plans \ but : PlanStatus(p) = InProgress /\ ActiveIn(p, w)
Busy(w, but) == \E p \in Plans \ but : OpenPlan(p) /\ ActiveIn(p, w)

(* entity_in_other_active_work: open waybills and open plans but one.  The *)
(* mutant asks the plans only.                                             *)
InOtherPlan(w, butBills, butPlans) == Busy(w, butPlans)
InOtherActiveWork(w, butBills, butPlans) ==
    Busy(w, butPlans) \/ \E m \in Masters \ butBills : BillOpen(m) /\ HasStop(m, w)

CellType(c) ==
    CASE c[1] = "status"  -> Codes(c[2])
      [] c[1] = "deleted" -> BOOLEAN
      [] c[1] = "plan"    -> {NoRow, "draft", InProgress, "completed"}
      [] c[1] = "waybill" -> {NoRow, "open"}
      [] c[1] = "item"    -> [result : {NoRow, "active", "closed"},
                              previous : OpenCodes(c[3]) \cup {""}]
      [] c[1] = "stop"    -> [previous : EarlyCodes(c[3]) \cup {"", NoRow}]

-----------------------------------------------------------------------------
WorksInit ==
    \E code \in [Works -> UNION {EarlyCodes(w) : w \in Works}] :
        /\ \A w \in Works : code[w] \in EarlyCodes(w)
        /\ rows = [c \in Cells |->
                     CASE c[1] = "status"  -> code[c[2]]
                       [] c[1] = "deleted" -> FALSE
                       [] c[1] = "plan"    -> IF c[2] \in OldDrafts THEN "draft" ELSE NoRow
                       [] c[1] = "waybill" -> NoRow
                       [] c[1] = "item"    -> NoItem
                       [] c[1] = "stop"    -> NoStop]
        /\ slow = NoTransaction
        /\ raced = {}

(* A handler that runs without another one between its reads and its       *)
(* commit.  "touched" names the rows it decides by or writes, "new" is the *)
(* table as it would leave it.                                             *)
RunAtOnce(touched, new) ==
    /\ raced = {}
    /\ slow = NoTransaction \/ (slow.hit = {} /\ slow.on \cap touched # {})
    /\ rows' = new
    /\ slow' = [slow EXCEPT !.hit = @ \cup (slow.on \cap touched)]
    /\ UNCHANGED raced

(* A handler that has read and will commit later the cells it changed;     *)
(* "keys" are the unique index entries it inserts.                         *)
Changes(old, new) == [c \in {d \in Cells : new[d] # old[d]} |-> new[c]]

ReadNow(touched, keys, new) ==
    /\ slow = NoTransaction /\ raced = {}
    /\ slow' = [on |-> touched \cup keys, keys |-> keys, hit |-> {},
                write |-> Changes(rows, new)]
    /\ UNCHANGED <<rows, raced>>

Handle(touched, keys, new) ==
    RunAtOnce(touched \cup keys, new) \/ ReadNow(touched, keys, new)

Overwritten(table, write) ==
    [c \in Cells |-> IF c \in DOMAIN write THEN write[c] ELSE table[c]]

SlowCommits ==
    /\ slow # NoTransaction
    /\ slow.hit \cap slow.keys = {}
    /\ rows' = Overwritten(rows, slow.write)
    /\ raced' = raced \cup slow.hit
    /\ slow' = NoTransaction

(* A validation error, a unique index, or the death of the worker.         *)
SlowFails ==
    /\ slow # NoTransaction
    /\ slow' = NoTransaction
    /\ UNCHANGED <<rows, raced>>

-----------------------------------------------------------------------------
(* Work plans *)

AddItem(p, w) ==
    /\ OpenPlan(p)
    /\ Live(w) /\ Code(w) \in OpenCodes(w)
    /\ PlanItem(p, w) = NoItem /\ ~Busy(w, {p})
    /\ Handle({PlanCell(p), StatusCell(w)}, {ItemCell(p, w)},
              IF PlanStatus(p) = InProgress
              THEN [rows EXCEPT ![ItemCell(p, w)] = Item("active", Code(w)),
                                ![StatusCell(w)] = InProgress]
              ELSE [rows EXCEPT ![ItemCell(p, w)] = Item("active", "")])

RemoveDraftItem(p, w) ==
    /\ PlanStatus(p) = "draft"
    /\ PlanItem(p, w) # NoItem
    /\ Handle({PlanCell(p), StatusCell(w)}, {}, [rows EXCEPT ![ItemCell(p, w)] = NoItem])

(* The table when a plan has taken the works S, and the rows it decides by. *)
Take(p, S) ==
    [c \in Cells |->
       CASE c \in {PlanCell(p)} \cup {StatusCell(w) : w \in S} -> InProgress
         [] c \in {ItemCell(p, w) : w \in S} -> Item("active", Code(c[3]))
         [] OTHER -> rows[c]]

RowsOf(p, S) == {PlanCell(p)} \cup {StatusCell(w) : w \in S}

SavePlan(p) ==
    LET S == {w \in Works : PlanItem(p, w) # NoItem} IN
    /\ PlanStatus(p) = "draft"
    /\ S # {}
    /\ \A w \in S : CanTake(w, Code(w)) /\ (w \in Requests => Live(w))
    /\ Handle(RowsOf(p, S), {<<"number">>}, Take(p, S))

(* POST /plans/ with the works picked on the page, or plan_save with the   *)
(* stops of the master's waybill, which it deletes by a commit of its own  *)
(* (DropBill).                                                             *)
CreateAndStart(p, S) ==
    /\ PlanStatus(p) = NoRow
    /\ S # {}
    /\ \A w \in S : Live(w) /\ ~Busy(w, {}) /\ Code(w) \in OpenCodes(w)
    /\ Handle(RowsOf(p, S), {<<"number">>}, Take(p, S))

(* maybe_complete_plan, once w is no longer active in p.  The mutant still *)
(* counts w.                                                               *)
CompletePlanLate(p, w) ==
    IF \E v \in Works : ActiveIn(p, v) THEN InProgress ELSE "completed"
MaybeCompletePlan(p, w) ==
    IF \E v \in Works \ {w} : ActiveIn(p, v) THEN InProgress ELSE "completed"

ItemToClose(p, w) == PlanStatus(p) = InProgress /\ ActiveIn(p, w)

CompleteItem(p, w) ==
    /\ ItemToClose(p, w)
    /\ IF w \in Requests
       THEN Live(w) /\ Code(w) # "cancelled"
       ELSE CanTransition(w, Code(w), DoneCode(w))
    /\ Handle(RowsOf(p, {w}), {},
              [rows EXCEPT ![StatusCell(w)] = DoneCode(w),
                           ![ItemCell(p, w)] = Item("closed", ""),
                           ![PlanCell(p)] = MaybeCompletePlan(p, w)])

ExcludeItem(p, w) ==
    /\ ItemToClose(p, w)
    /\ w \in Requests => Live(w)
    /\ Handle(RowsOf(p, {w}), {},
              [rows EXCEPT ![StatusCell(w)] =
                             IF InOtherActiveWork(w, {}, {p}) THEN Code(w)
                             ELSE Restored(Code(w), PlanItem(p, w).previous),
                           ![ItemCell(p, w)] = Item("closed", ""),
                           ![PlanCell(p)] = MaybeCompletePlan(p, w)])

-----------------------------------------------------------------------------
(* Waybills *)

(* The table when m's waybill has the given status, no stops, and the      *)
(* defects "Fixed" are done.                                               *)
Emptied(m, status, Fixed) ==
    [c \in Cells |->
       CASE c = BillCell(m) -> status
         [] c \in {StopCell(m, w) : w \in Works} -> NoStop
         [] c \in {StatusCell(w) : w \in Fixed} -> DoneCode(c[2])
         [] OTHER -> rows[c]]

StoppedAt(m) == {w \in Works : HasStop(m, w)}

CreateBill(m) ==
    /\ ~BillOpen(m)
    /\ RunAtOnce({BillCell(m)}, Emptied(m, "open", {}))

(* complete / change_status: every open defect of the waybill is fixed.    *)
CompleteBill(m) ==
    LET Fixed == {w \in StoppedAt(m) \cap Defects :
                    Live(w) /\ CanTransition(w, Code(w), DoneCode(w))} IN
    /\ BillOpen(m)
    /\ Handle({BillCell(m)} \cup {StatusCell(w) : w \in StoppedAt(m)}, {},
              Emptied(m, NoRow, Fixed))

(* Cancelled or deleted: the works keep the status they have.              *)
DropBill(m) ==
    /\ BillOpen(m)
    /\ Handle({BillCell(m)} \cup {StatusCell(w) : w \in StoppedAt(m)}, {},
              Emptied(m, NoRow, {}))

AddStop(m, w) ==
    /\ BillOpen(m) /\ ~HasStop(m, w)
    /\ Live(w) /\ CanTake(w, Code(w))
    /\ ~InOtherActiveWork(w, {m}, {})
    /\ Handle({BillCell(m), StatusCell(w)}, {<<"order", m>>},
              [rows EXCEPT ![StopCell(m, w)] =
                             Stop(IF Code(w) = InProgress THEN "" ELSE Code(w)),
                           ![StatusCell(w)] = InProgress])

RemoveStop(m, w) ==
    LET previous == rows[StopCell(m, w)].previous
        returns == previous # "" /\ ~InOtherActiveWork(w, {m}, {}) IN
    /\ BillOpen(m) /\ HasStop(m, w)
    /\ returns /\ w \in Requests => Live(w)
    /\ Handle({BillCell(m), StatusCell(w)}, {},
              [rows EXCEPT ![StopCell(m, w)] = NoStop,
                           ![StatusCell(w)] =
                             IF returns THEN Restored(Code(w), previous) ELSE Code(w)])

-----------------------------------------------------------------------------
(* The works themselves *)

(* complete_request, cancel_request, start_work and a defect's             *)
(* change_status load the row by the statement that decides.               *)
ChangeStatus(w, to) ==
    /\ Live(w)
    /\ CanTransition(w, Code(w), to)
    /\ RunAtOnce({StatusCell(w)}, [rows EXCEPT ![StatusCell(w)] = to])

(* update_request and the defect form set any status, the one the form was *)
(* opened with included.                                                   *)
EditStatus(w, to) ==
    /\ to \in EditCodes
    /\ Live(w)
    /\ to # Code(w)
    /\ RunAtOnce({StatusCell(w)}, [rows EXCEPT ![StatusCell(w)] = to])

(* A deleted request; that a defect can be deleted too is left out.        *)
DeleteWork(w) ==
    /\ Live(w) /\ w \in Requests
    /\ RunAtOnce({StatusCell(w)}, [rows EXCEPT ![DeletedCell(w)] = TRUE])

WorksNext ==
    \/ \E p \in Plans, w \in Works :
        \/ AddItem(p, w)
        \/ RemoveDraftItem(p, w)
        \/ CompleteItem(p, w)
        \/ ExcludeItem(p, w)
    \/ \E p \in Plans : SavePlan(p) \/ \E S \in SUBSET Works : CreateAndStart(p, S)
    \/ \E m \in Masters :
        \/ CreateBill(m) \/ CompleteBill(m) \/ DropBill(m)
        \/ \E w \in Works : AddStop(m, w) \/ RemoveStop(m, w)
    \/ \E w \in Works :
        \/ \E to \in Codes(w) : ChangeStatus(w, to) \/ EditStatus(w, to)
        \/ DeleteWork(w)
    \/ SlowCommits
    \/ SlowFails

WorksSpec == WorksInit /\ [][WorksNext]_workVars

-----------------------------------------------------------------------------
(* Every cell holds a value of its column; in particular a status to       *)
(* return to is always one of an open work.                                *)
WorksTypeOK ==
    /\ DOMAIN rows = Cells
    /\ \A c \in Cells : rows[c] \in CellType(c)
    /\ slow.hit \subseteq slow.on
    /\ \A c \in DOMAIN slow.write : slow.write[c] \in CellType(c)

(* A work is the open business of at most one open plan, however masters   *)
(* add, save, exclude and drop works, as long as no two handlers overlapped *)
(* on that work (the check of _busy_ids is not repeated at the commit).    *)
OneActivePlan ==
    \A w \in Works : StatusCell(w) \notin raced =>
        \A p, q \in Plans : OpenPlan(p) /\ ActiveIn(p, w) /\ OpenPlan(q) /\ ActiveIn(q, w)
                            => p = q

(* A started plan completes itself with its last work and never before it, *)
(* unless two handlers overlapped on the plan.                             *)
PlanEndsWithItsWorks ==
    \A p \in Plans : PlanCell(p) \notin raced =>
        (PlanStatus(p) = InProgress => \E w \in Works : ActiveIn(p, w))
        /\ (PlanStatus(p) = "completed" => \A w \in Works : ~ActiveIn(p, w))

OnlyStatusesChange == \A c \in Cells : rows'[c] # rows[c] => c[1] = "status"

Held(w) ==
    \/ \E p \in Plans : OpenPlan(p) /\ ActiveIn(p, w)
    \/ \E m \in Masters : BillOpen(m) /\ HasStop(m, w)

(* A plan or a waybill that lets a work go returns it to its earlier       *)
(* status only when no other open plan or waybill still holds it.          *)
HeldWorkIsNotReturned ==
    [][\A w \in Works :
         (/\ Code(w) = InProgress /\ Code(w)' \in EarlyCodes(w)
          /\ ~OnlyStatusesChange /\ StatusCell(w) \notin raced')
         => ~Held(w)']_workVars

(* Nothing but an edit by hand reopens a closed work: a plan that had      *)
(* taken it before does not bring the old status back.                     *)
ClosedWorkStaysClosed ==
    [][\A w \in Works :
         (Code(w) \in ClosedCodes(w) /\ StatusCell(w) \notin raced' /\ ~OnlyStatusesChange)
         => Code(w)' = Code(w) \/ Code(w)' = DoneCode(w)]_workVars
=============================================================================
