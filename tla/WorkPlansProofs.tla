------------------------------ MODULE WorkPlansProofs ------------------------------
(***************************************************************************)
(* Proofs about work plans and waybills: what the overlap of two handlers  *)
(* leaves of a table that each of them alone keeps in order.               *)
(***************************************************************************)
EXTENDS WorkPlans, TLAPS

-----------------------------------------------------------------------------
(* Cells *)

(* The columns of different rows are different cells.                      *)
LEMMA CellsDiffer ==
    /\ \A w, v : StatusCell(w) = StatusCell(v) => w = v
    /\ \A p, q : PlanCell(p) = PlanCell(q) => p = q
    /\ \A m, n : BillCell(m) = BillCell(n) => m = n
    /\ \A p, w, q, v : ItemCell(p, w) = ItemCell(q, v) => p = q /\ w = v
    /\ \A m, w, n, v : StopCell(m, w) = StopCell(n, v) => m = n /\ w = v
    /\ \A w, v : StatusCell(w) # DeletedCell(v)
    /\ \A w, p : StatusCell(w) # PlanCell(p) /\ DeletedCell(w) # PlanCell(p)
    /\ \A w, m : StatusCell(w) # BillCell(m) /\ DeletedCell(w) # BillCell(m)
    /\ \A w, p, v : StatusCell(w) # ItemCell(p, v) /\ DeletedCell(w) # ItemCell(p, v)
    /\ \A w, m, v : StatusCell(w) # StopCell(m, v) /\ DeletedCell(w) # StopCell(m, v)
    /\ \A p, m : PlanCell(p) # BillCell(m)
    /\ \A p, q, v : PlanCell(p) # ItemCell(q, v)
    /\ \A p, m, v : PlanCell(p) # StopCell(m, v)
    /\ \A m, p, v : BillCell(m) # ItemCell(p, v)
    /\ \A m, n, v : BillCell(m) # StopCell(n, v)
    /\ \A p, w, m, v : ItemCell(p, w) # StopCell(m, v)
  BY DEF StatusCell, DeletedCell, PlanCell, BillCell, ItemCell, StopCell

(* Nothing but the columns of works, plans and waybills is a cell.         *)
LEMMA CellKinds ==
    /\ \A w \in Works : StatusCell(w) \in Cells /\ DeletedCell(w) \in Cells
    /\ \A p \in Plans : PlanCell(p) \in Cells
    /\ \A m \in Masters : BillCell(m) \in Cells
    /\ \A p \in Plans, w \in Works : ItemCell(p, w) \in Cells
    /\ \A m \in Masters, w \in Works : StopCell(m, w) \in Cells
    /\ \A c \in Cells :
         \/ \E w \in Works : c = StatusCell(w) \/ c = DeletedCell(w)
         \/ \E p \in Plans : c = PlanCell(p)
         \/ \E m \in Masters : c = BillCell(m)
         \/ \E p \in Plans, w \in Works : c = ItemCell(p, w)
         \/ \E m \in Masters, w \in Works : c = StopCell(m, w)
  BY DEF Cells

Result == {NoRow, "active", "closed"}
Previous(w) == OpenCodes(w) \cup {""}

(* What the columns hold.                                                  *)
LEMMA CellTypes ==
    /\ \A w : CellType(StatusCell(w)) = Codes(w)
    /\ \A w : CellType(DeletedCell(w)) = BOOLEAN
    /\ \A p : CellType(PlanCell(p)) = {NoRow, "draft", InProgress, "completed"}
    /\ \A m : CellType(BillCell(m)) = {NoRow, "open"}
    /\ \A p, w : CellType(ItemCell(p, w)) = [result : Result, previous : Previous(w)]
    /\ \A m, w : CellType(StopCell(m, w)) = [previous : EarlyCodes(w) \cup {"", NoRow}]
  <1>1. \A w : CellType(StatusCell(w)) = Codes(w)
    BY DEF CellType, StatusCell
  <1>2. \A w : CellType(DeletedCell(w)) = BOOLEAN
    BY DEF CellType, DeletedCell
  <1>3. \A p : CellType(PlanCell(p)) = {NoRow, "draft", InProgress, "completed"}
    BY DEF CellType, PlanCell
  <1>4. \A m : CellType(BillCell(m)) = {NoRow, "open"}
    BY DEF CellType, BillCell
  <1>5. \A p, w : CellType(ItemCell(p, w)) = [result : Result, previous : Previous(w)]
    BY DEF CellType, ItemCell, Result, Previous
  <1>6. \A m, w : CellType(StopCell(m, w)) = [previous : EarlyCodes(w) \cup {"", NoRow}]
    BY DEF CellType, StopCell
  <1> QED
    BY <1>1, <1>2, <1>3, <1>4, <1>5, <1>6

(* Only the status of a work is a cell named "status".                     *)
LEMMA StatusNames ==
    /\ \A w : StatusCell(w)[1] = "status" /\ DeletedCell(w)[1] # "status"
    /\ \A p : PlanCell(p)[1] # "status"
    /\ \A m : BillCell(m)[1] # "status"
    /\ \A p, w : ItemCell(p, w)[1] # "status"
    /\ \A m, w : StopCell(m, w)[1] # "status"
  BY DEF StatusCell, DeletedCell, PlanCell, BillCell, ItemCell, StopCell

-----------------------------------------------------------------------------
(* What a handler keeps when no other one overlaps it *)

OpenIn(r, p) == r[PlanCell(p)] \in {"draft", InProgress}
ActiveAt(r, p, w) == r[ItemCell(p, w)].result = "active"
PlanHolds(r, p, w) == OpenIn(r, p) /\ ActiveAt(r, p, w)
BillHolds(r, m, w) == r[BillCell(m)] # NoRow /\ r[StopCell(m, w)] # NoStop
HeldIn(r, w) ==
    (\E p \in Plans : PlanHolds(r, p, w)) \/ (\E m \in Masters : BillHolds(r, m, w))

Typed(r) == DOMAIN r = Cells /\ \A c \in Cells : r[c] \in CellType(c)

NothingBeforeItsRow(r) ==
    /\ \A p \in Plans, w \in Works : r[PlanCell(p)] = NoRow => r[ItemCell(p, w)] = NoItem
    /\ \A m \in Masters, w \in Works : r[BillCell(m)] = NoRow => r[StopCell(m, w)] = NoStop

DraftItemsActive(r) ==
    \A p \in Plans, w \in Works :
        r[PlanCell(p)] = "draft" => r[ItemCell(p, w)] = NoItem \/ ActiveAt(r, p, w)

OneHolder(r, w) ==
    \A p, q \in Plans : PlanHolds(r, p, w) /\ PlanHolds(r, q, w) => p = q

EndsWithWorks(r, p) ==
    /\ r[PlanCell(p)] = InProgress => \E w \in Works : ActiveAt(r, p, w)
    /\ r[PlanCell(p)] = "completed" => \A w \in Works : ~ActiveAt(r, p, w)

(* A table in order: what every handler that runs alone leaves.            *)
Good(r) ==
    /\ Typed(r)
    /\ NothingBeforeItsRow(r)
    /\ DraftItemsActive(r)
    /\ \A w \in Works : OneHolder(r, w)
    /\ \A p \in Plans : EndsWithWorks(r, p)

SameWork(r, n, w) ==
    /\ n[StatusCell(w)] = r[StatusCell(w)]
    /\ \A p \in Plans : n[ItemCell(p, w)] = r[ItemCell(p, w)]
    /\ \A m \in Masters : n[StopCell(m, w)] = r[StopCell(m, w)]

SamePlan(r, n, p) ==
    /\ n[PlanCell(p)] = r[PlanCell(p)]
    /\ \A w \in Works : n[ItemCell(p, w)] = r[ItemCell(p, w)]

(* A plan is created under a number of its own and only ever goes forward. *)
PlanMoves(r, n, p, keys) ==
    /\ r[PlanCell(p)] = NoRow =>
         n[PlanCell(p)] = NoRow \/ (n[PlanCell(p)] = InProgress /\ <<"number">> \in keys)
    /\ r[PlanCell(p)] = "draft" => n[PlanCell(p)] \in {"draft", InProgress}
    /\ r[PlanCell(p)] = InProgress => n[PlanCell(p)] \in {InProgress, "completed"}
    /\ r[PlanCell(p)] = "completed" => n[PlanCell(p)] = "completed"

OnlyStatuses(r, n) == \A c \in Cells : n[c] # r[c] => c[1] = "status"

ReturnsFree(r, n, w) ==
    r[StatusCell(w)] = InProgress /\ n[StatusCell(w)] \in EarlyCodes(w)
        => OnlyStatuses(r, n) \/ ~HeldIn(n, w)

KeepsClosed(r, n, w) ==
    r[StatusCell(w)] \in ClosedCodes(w)
        => n[StatusCell(w)] \in {r[StatusCell(w)], DoneCode(w)} \/ OnlyStatuses(r, n)

(* The step of a handler alone, from the table r to the table n: it keeps  *)
(* the table in order, changes only works and plans it has touched, moves  *)
(* plans forward, and returns and closes works as it should.               *)
Sound(r, touched, keys, n) ==
    /\ Good(n)
    /\ keys \subseteq touched
    /\ \A w \in Works : StatusCell(w) \notin touched => SameWork(r, n, w)
    /\ \A p \in Plans : PlanCell(p) \notin touched => SamePlan(r, n, p)
    /\ \A p \in Plans : PlanMoves(r, n, p, keys)
    /\ \A w \in Works : ReturnsFree(r, n, w) /\ KeepsClosed(r, n, w)

(* A table is typed column by column.                                      *)
Columns(r) ==
    /\ \A w \in Works : r[StatusCell(w)] \in Codes(w)
    /\ \A w \in Works : r[DeletedCell(w)] \in BOOLEAN
    /\ \A p \in Plans : r[PlanCell(p)] \in {NoRow, "draft", InProgress, "completed"}
    /\ \A m \in Masters : r[BillCell(m)] \in {NoRow, "open"}
    /\ \A p \in Plans, w \in Works :
         r[ItemCell(p, w)] \in [result : Result, previous : Previous(w)]
    /\ \A m \in Masters, w \in Works :
         r[StopCell(m, w)] \in [previous : EarlyCodes(w) \cup {"", NoRow}]

LEMMA TypedByColumn ==
  ASSUME NEW r, DOMAIN r = Cells
  PROVE  Typed(r) <=> Columns(r)
  <1>1. ASSUME Typed(r) PROVE Columns(r)
    <2>1. ASSUME NEW w \in Works
          PROVE  r[StatusCell(w)] \in Codes(w) /\ r[DeletedCell(w)] \in BOOLEAN
      BY <1>1, CellKinds, CellTypes DEF Typed
    <2>2. ASSUME NEW p \in Plans
          PROVE  r[PlanCell(p)] \in {NoRow, "draft", InProgress, "completed"}
      BY <1>1, CellKinds, CellTypes DEF Typed
    <2>3. ASSUME NEW m \in Masters PROVE r[BillCell(m)] \in {NoRow, "open"}
      BY <1>1, CellKinds, CellTypes DEF Typed
    <2>4. ASSUME NEW p \in Plans, NEW w \in Works
          PROVE  r[ItemCell(p, w)] \in [result : Result, previous : Previous(w)]
      <3>1. r[ItemCell(p, w)] \in CellType(ItemCell(p, w))
        BY <1>1, CellKinds DEF Typed
      <3> QED
        BY <3>1, CellTypes
    <2>5. ASSUME NEW m \in Masters, NEW w \in Works
          PROVE  r[StopCell(m, w)] \in [previous : EarlyCodes(w) \cup {"", NoRow}]
      <3>1. r[StopCell(m, w)] \in CellType(StopCell(m, w))
        BY <1>1, CellKinds DEF Typed
      <3> QED
        BY <3>1, CellTypes
    <2> QED
      BY <2>1, <2>2, <2>3, <2>4, <2>5 DEF Columns
  <1>2. ASSUME Columns(r), NEW c \in Cells PROVE r[c] \in CellType(c)
    <2>1. CASE \E w \in Works : c = StatusCell(w) \/ c = DeletedCell(w)
      BY <1>2, <2>1, CellTypes DEF Columns
    <2>2. CASE \E p \in Plans : c = PlanCell(p)
      BY <1>2, <2>2, CellTypes DEF Columns
    <2>3. CASE \E m \in Masters : c = BillCell(m)
      BY <1>2, <2>3, CellTypes DEF Columns
    <2>4. CASE \E p \in Plans, w \in Works : c = ItemCell(p, w)
      <3>1. PICK p \in Plans, w \in Works : c = ItemCell(p, w)
        BY <2>4
      <3>2. r[c] \in [result : Result, previous : Previous(w)]
        BY <1>2, <3>1 DEF Columns
      <3> QED
        BY <3>1, <3>2, CellTypes
    <2>5. CASE \E m \in Masters, w \in Works : c = StopCell(m, w)
      <3>1. PICK m \in Masters, w \in Works : c = StopCell(m, w)
        BY <2>5
      <3>2. r[c] \in [previous : EarlyCodes(w) \cup {"", NoRow}]
        BY <1>2, <3>1 DEF Columns
      <3> QED
        BY <3>1, <3>2, CellTypes
    <2> QED
      BY <2>1, <2>2, <2>3, <2>4, <2>5, CellKinds
  <1> QED
    BY <1>1, <1>2 DEF Typed

-----------------------------------------------------------------------------
(* Handlers that change one item of a plan *)

(* From r to n, the work w, its item in p and the plan p take the given    *)
(* values and every other cell stays.                                      *)
ItemChanges(r, n, p, w, code, item, status) ==
    /\ DOMAIN n = Cells
    /\ n[StatusCell(w)] = code
    /\ n[ItemCell(p, w)] = item
    /\ n[PlanCell(p)] = status
    /\ \A c \in Cells \ {StatusCell(w), ItemCell(p, w), PlanCell(p)} : n[c] = r[c]

(* The columns this leaves alone.                                          *)
ItemFrame(r, n, p, w) ==
    /\ \A v \in Works \ {w} : n[StatusCell(v)] = r[StatusCell(v)]
    /\ \A v \in Works : n[DeletedCell(v)] = r[DeletedCell(v)]
    /\ \A q \in Plans \ {p} : n[PlanCell(q)] = r[PlanCell(q)]
    /\ \A m \in Masters : n[BillCell(m)] = r[BillCell(m)]
    /\ \A q \in Plans, v \in Works : q # p \/ v # w =>
          n[ItemCell(q, v)] = r[ItemCell(q, v)]
    /\ \A m \in Masters, v \in Works : n[StopCell(m, v)] = r[StopCell(m, v)]

LEMMA ItemChangesFrame ==
  ASSUME NEW r, NEW n, NEW p \in Plans, NEW w \in Works, NEW code, NEW item, NEW status,
         ItemChanges(r, n, p, w, code, item, status)
  PROVE  ItemFrame(r, n, p, w)
  <1>1. \A v \in Works \ {w} : n[StatusCell(v)] = r[StatusCell(v)]
    BY CellsDiffer, CellKinds DEF ItemChanges
  <1>2. \A v \in Works : n[DeletedCell(v)] = r[DeletedCell(v)]
    BY CellsDiffer, CellKinds DEF ItemChanges
  <1>3. \A q \in Plans \ {p} : n[PlanCell(q)] = r[PlanCell(q)]
    BY CellsDiffer, CellKinds DEF ItemChanges
  <1>4. \A m \in Masters : n[BillCell(m)] = r[BillCell(m)]
    BY CellsDiffer, CellKinds DEF ItemChanges
  <1>5. \A q \in Plans, v \in Works : q # p \/ v # w =>
           n[ItemCell(q, v)] = r[ItemCell(q, v)]
    BY CellsDiffer, CellKinds DEF ItemChanges
  <1>6. \A m \in Masters, v \in Works : n[StopCell(m, v)] = r[StopCell(m, v)]
    BY CellsDiffer, CellKinds DEF ItemChanges
  <1> QED
    BY <1>1, <1>2, <1>3, <1>4, <1>5, <1>6 DEF ItemFrame

(* Such a handler is sound when it moves the plan forward, gives it a work *)
(* that no other open plan has, completes it with its last work, and       *)
(* leaves a closed work closed and a held one in progress.                 *)
LEMMA OneItemSound ==
  ASSUME NEW r, Good(r), NEW n, NEW p \in Plans, NEW w \in Works,
         NEW code \in Codes(w), NEW item \in [result : Result, previous : Previous(w)],
         NEW status \in {"draft", InProgress, "completed"},
         ItemChanges(r, n, p, w, code, item, status),
         r[PlanCell(p)] # NoRow,
         r[PlanCell(p)] = "draft" => status = "draft" /\ (item = NoItem \/ item.result = "active"),
         r[PlanCell(p)] = InProgress => status \in {InProgress, "completed"},
         r[PlanCell(p)] # "completed",
         item.result = "active" => \A q \in Plans \ {p} : ~PlanHolds(r, q, w),
         EndsWithWorks(n, p),
         r[StatusCell(w)] \in ClosedCodes(w) => code \in {r[StatusCell(w)], DoneCode(w)},
         r[StatusCell(w)] = InProgress /\ code \in EarlyCodes(w) => ~HeldIn(n, w),
         NEW keys, NEW touched, keys \subseteq touched,
         {PlanCell(p), StatusCell(w)} \subseteq touched
  PROVE  Sound(r, touched, keys, n)
  <1>1. ItemFrame(r, n, p, w)
    BY ItemChangesFrame
  <1>2. Columns(r) /\ DOMAIN r = Cells
    BY TypedByColumn DEF Good, Typed
  <1>3. n[StatusCell(w)] = code /\ n[ItemCell(p, w)] = item /\ n[PlanCell(p)] = status
    BY DEF ItemChanges
  <1>4. r[PlanCell(p)] \in {"draft", InProgress}
    BY <1>2 DEF Columns
  <1>5. Good(n)
    <2>1. Typed(n)
      <3>1. \A v \in Works : n[StatusCell(v)] \in Codes(v)
        BY <1>1, <1>2, <1>3 DEF Columns, ItemFrame
      <3>2. \A v \in Works : n[DeletedCell(v)] \in BOOLEAN
        BY <1>1, <1>2 DEF Columns, ItemFrame
      <3>3. \A q \in Plans : n[PlanCell(q)] \in {NoRow, "draft", InProgress, "completed"}
        BY <1>1, <1>2, <1>3 DEF Columns, ItemFrame
      <3>4. \A m \in Masters : n[BillCell(m)] \in {NoRow, "open"}
        BY <1>1, <1>2 DEF Columns, ItemFrame
      <3>5. ASSUME NEW q \in Plans, NEW v \in Works
            PROVE  n[ItemCell(q, v)] \in [result : Result, previous : Previous(v)]
        <4>1. CASE q = p /\ v = w
          BY <1>3, <4>1
        <4>2. CASE q # p \/ v # w
          BY <1>1, <1>2, <4>2 DEF Columns, ItemFrame
        <4> QED
          BY <4>1, <4>2
      <3>6. ASSUME NEW m \in Masters, NEW v \in Works
            PROVE  n[StopCell(m, v)] \in [previous : EarlyCodes(v) \cup {"", NoRow}]
        BY <1>1, <1>2 DEF Columns, ItemFrame
      <3> QED
        BY <3>1, <3>2, <3>3, <3>4, <3>5, <3>6, TypedByColumn DEF Columns, ItemChanges
    <2>2. NothingBeforeItsRow(n)
      BY <1>1, <1>3 DEF Good, NothingBeforeItsRow, NoRow, InProgress, ItemFrame
    <2>3. DraftItemsActive(n)
      BY <1>1, <1>4, <1>3 DEF Good, DraftItemsActive, ActiveAt, NoRow, InProgress, ItemFrame
    <2>4. ASSUME NEW v \in Works PROVE OneHolder(n, v)
      <3>1. \A q \in Plans : PlanHolds(n, q, v) /\ (q # p \/ v # w) => PlanHolds(r, q, v)
        BY <1>1, <1>4, <1>3 DEF PlanHolds, OpenIn, ActiveAt, ItemFrame
      <3>2. OneHolder(r, v)
        BY DEF Good
      <3>3. v = w => (PlanHolds(n, p, w) => \A q \in Plans \ {p} : ~PlanHolds(r, q, w))
        BY <1>3 DEF PlanHolds, ActiveAt
      <3> QED
        BY <3>1, <3>2, <3>3 DEF OneHolder
    <2>5. ASSUME NEW q \in Plans PROVE EndsWithWorks(n, q)
      <3>1. CASE q = p
        BY <3>1
      <3>2. CASE q # p
        BY <1>1, <3>2 DEF Good, EndsWithWorks, ActiveAt, ItemFrame
      <3> QED
        BY <3>1, <3>2
    <2> QED
      BY <2>1, <2>2, <2>3, <2>4, <2>5 DEF Good
  <1>6. ASSUME NEW v \in Works, StatusCell(v) \notin touched PROVE SameWork(r, n, v)
    BY <1>1, <1>6 DEF SameWork, ItemFrame
  <1>7. ASSUME NEW q \in Plans, PlanCell(q) \notin touched PROVE SamePlan(r, n, q)
    BY <1>1, <1>7 DEF SamePlan, ItemFrame
  <1>8. ASSUME NEW q \in Plans PROVE PlanMoves(r, n, q, keys)
    BY <1>1, <1>4, <1>3 DEF PlanMoves, NoRow, InProgress, ItemFrame
  <1>9. ASSUME NEW v \in Works PROVE ReturnsFree(r, n, v) /\ KeepsClosed(r, n, v)
    <2>1. CASE v = w
      BY <1>3, <2>1 DEF ReturnsFree, KeepsClosed
    <2>2. CASE v # w
      <3>1. n[StatusCell(v)] = r[StatusCell(v)]
        BY <1>1, <2>2 DEF ItemFrame
      <3>2. InProgress \notin EarlyCodes(v)
        BY DEF InProgress, EarlyCodes
      <3> QED
        BY <3>1, <3>2 DEF ReturnsFree, KeepsClosed
    <2> QED
      BY <2>1, <2>2
  <1> QED
    BY <1>5, <1>6, <1>7, <1>8, <1>9 DEF Sound

(* A handler of the model that takes a sound step, at once or slowly.      *)
SoundStep ==
    \E touched, keys, new :
        Sound(rows, touched \cup keys, keys, new) /\ Handle(touched, keys, new)

(* What the codes of a work and the columns of an item allow.              *)
LEMMA CodeFacts ==
  ASSUME NEW w \in Works
  PROVE  /\ InProgress \in Codes(w) /\ DoneCode(w) \in Codes(w)
         /\ OpenCodes(w) \subseteq Codes(w) /\ ClosedCodes(w) \subseteq Codes(w)
         /\ OpenCodes(w) = EarlyCodes(w) \cup {InProgress}
         /\ OpenCodes(w) \cap ClosedCodes(w) = {}
         /\ Codes(w) = EarlyCodes(w) \cup {InProgress} \cup ClosedCodes(w)
         /\ InProgress \notin EarlyCodes(w) /\ InProgress \notin ClosedCodes(w)
         /\ EarlyCodes(w) \cap ClosedCodes(w) = {}
         /\ DoneCode(w) \in ClosedCodes(w)
         /\ "" \notin Codes(w) /\ NoRow \notin Codes(w)
         /\ \A code, previous : Restored(code, previous) \in {code, previous}
         /\ \A previous : \A code \in ClosedCodes(w) : Restored(code, previous) = code
         /\ \A code : Restored(code, "") = code
  BY DEF Codes, OpenCodes, ClosedCodes, EarlyCodes, InProgress, DoneCode, Restored, NoRow, Works

LEMMA ItemFacts ==
  /\ NoItem.result = NoRow /\ NoItem.previous = ""
  /\ \A w : NoItem \in [result : Result, previous : Previous(w)]
  /\ \A w, previous : previous \in Previous(w) =>
       Item("active", previous) \in [result : Result, previous : Previous(w)]
  /\ \A previous : Item("active", previous).result = "active"
  /\ \A w : Item("closed", "") \in [result : Result, previous : Previous(w)]
  /\ Item("closed", "").result = "closed"
  BY DEF NoItem, Item, NoRow, Result, Previous

LEMMA AddItemStep ==
  ASSUME Good(rows), NEW p \in Plans, NEW w \in Works, AddItem(p, w)
  PROVE  SoundStep
  <1> DEFINE code == IF PlanStatus(p) = InProgress THEN InProgress ELSE Code(w)
             item == Item("active", IF PlanStatus(p) = InProgress THEN Code(w) ELSE "")
             new == IF PlanStatus(p) = InProgress
                    THEN [rows EXCEPT ![ItemCell(p, w)] = Item("active", Code(w)),
                                      ![StatusCell(w)] = InProgress]
                    ELSE [rows EXCEPT ![ItemCell(p, w)] = Item("active", "")]
             touched == {PlanCell(p), StatusCell(w)}
             keys == {ItemCell(p, w)}
  <1>1. /\ Handle(touched, keys, new)
        /\ PlanStatus(p) \in {"draft", InProgress}
        /\ Code(w) \in OpenCodes(w) /\ ~Busy(w, {p})
    BY DEF AddItem, OpenPlan
  <1>2. DOMAIN rows = Cells /\ Columns(rows)
    BY TypedByColumn DEF Good, Typed
  <1>3. ItemChanges(rows, new, p, w, code, item, PlanStatus(p))
    <2>1. CASE PlanStatus(p) = InProgress
      BY <1>2, <2>1, CellsDiffer, CellKinds DEF ItemChanges, PlanStatus
    <2>2. CASE PlanStatus(p) # InProgress
      BY <1>2, <2>2, CellsDiffer, CellKinds DEF ItemChanges, PlanStatus, Code
    <2> QED
      BY <2>1, <2>2
  <1>4. code \in Codes(w) /\ code \notin ClosedCodes(w)
        /\ (rows[StatusCell(w)] = InProgress => code = InProgress)
    BY <1>1, CodeFacts DEF Code
  <1>5. item \in [result : Result, previous : Previous(w)] /\ item.result = "active"
    BY <1>1, ItemFacts DEF Previous
  <1>6. \A q \in Plans \ {p} : ~PlanHolds(rows, q, w)
    BY <1>1 DEF Busy, OpenPlan, PlanStatus, ActiveIn, PlanItem, PlanHolds, OpenIn, ActiveAt
  <1>7. EndsWithWorks(new, p)
    BY <1>1, <1>3, <1>5 DEF EndsWithWorks, ActiveAt, ItemChanges, InProgress
  <1>8. rows[StatusCell(w)] \notin ClosedCodes(w)
    BY <1>1, CodeFacts DEF Code
  <1>9. InProgress \notin EarlyCodes(w)
    BY CodeFacts
  <1>10. PlanStatus(p) \in {"draft", InProgress, "completed"}
    BY <1>1
  <1> HIDE DEF new, code, item
  <1>11. Sound(rows, touched \cup keys, keys, new)
    BY <1>1, <1>3, <1>4, <1>5, <1>6, <1>7, <1>8, <1>9, <1>10, OneItemSound
       DEF PlanStatus, NoRow, InProgress
  <1> QED
    BY <1>1, <1>11 DEF SoundStep

LEMMA RemoveDraftItemStep ==
  ASSUME Good(rows), NEW p \in Plans, NEW w \in Works, RemoveDraftItem(p, w)
  PROVE  SoundStep
  <1> DEFINE new == [rows EXCEPT ![ItemCell(p, w)] = NoItem]
             touched == {PlanCell(p), StatusCell(w)}
             code == rows[StatusCell(w)]
  <1>1. Handle(touched, {}, new) /\ rows[PlanCell(p)] = "draft"
    BY DEF RemoveDraftItem, PlanStatus
  <1>2. DOMAIN rows = Cells /\ Columns(rows)
    BY TypedByColumn DEF Good, Typed
  <1>3. ItemChanges(rows, new, p, w, code, NoItem, "draft")
    BY <1>1, <1>2, CellsDiffer, CellKinds DEF ItemChanges
  <1>4. code \in Codes(w) /\ InProgress \notin EarlyCodes(w)
    BY <1>2, CodeFacts DEF Columns
  <1>5. EndsWithWorks(new, p)
    BY <1>3 DEF EndsWithWorks, ItemChanges, InProgress
  <1>6. NoItem \in [result : Result, previous : Previous(w)] /\ NoItem.result # "active"
    BY ItemFacts DEF NoRow
  <1> HIDE DEF new, code
  <1>7. Sound(rows, touched \cup {}, {}, new)
    BY <1>1, <1>3, <1>4, <1>5, <1>6, OneItemSound DEF NoRow, InProgress, code
  <1> QED
    BY <1>1, <1>7 DEF SoundStep

(* Such a handler is an update of three cells.                             *)
LEMMA ItemUpdate ==
  ASSUME NEW r, DOMAIN r = Cells, NEW p \in Plans, NEW w \in Works,
         NEW code, NEW item, NEW status
  PROVE  ItemChanges(r, [r EXCEPT ![StatusCell(w)] = code, ![ItemCell(p, w)] = item,
                                  ![PlanCell(p)] = status],
                     p, w, code, item, status)
  BY CellsDiffer, CellKinds DEF ItemChanges

(* A work goes back to a code that was recorded, and only from progress.   *)
LEMMA RestoredFacts ==
  ASSUME NEW w \in Works, NEW code \in Codes(w), NEW previous \in Codes(w) \cup {""}
  PROVE  /\ Restored(code, previous) \in Codes(w)
         /\ code \in ClosedCodes(w) => Restored(code, previous) = code
  BY CodeFacts DEF Restored

(* A work that can be taken is open.                                       *)
LEMMA TakenIsOpen ==
  ASSUME NEW w \in Works, NEW code, CanTake(w, code)
  PROVE  code \in OpenCodes(w)
  BY DEF CanTake, CanTransition, OpenCodes, ClosedCodes, DoneCode, InProgress

(* What closing an item leaves of its plan.                                *)
LEMMA ClosedItemPlan ==
  ASSUME NEW p \in Plans, NEW w \in Works, NEW n, NEW code,
         ItemToClose(p, w),
         ItemChanges(rows, n, p, w, code, Item("closed", ""), MaybeCompletePlan(p, w))
  PROVE  /\ EndsWithWorks(n, p)
         /\ rows[PlanCell(p)] = InProgress
         /\ MaybeCompletePlan(p, w) \in {InProgress, "completed"}
  <1>1. ItemFrame(rows, n, p, w)
    BY ItemChangesFrame
  <1>2. n[ItemCell(p, w)].result = "closed" /\ n[PlanCell(p)] = MaybeCompletePlan(p, w)
    BY ItemFacts DEF ItemChanges
  <1>3. \A v \in Works \ {w} : ActiveAt(n, p, v) <=> ActiveIn(p, v)
    BY <1>1 DEF ItemFrame, ActiveAt, ActiveIn, PlanItem
  <1>4. EndsWithWorks(n, p)
    BY <1>2, <1>3 DEF EndsWithWorks, ActiveAt, MaybeCompletePlan, InProgress
  <1> QED
    BY <1>4 DEF ItemToClose, PlanStatus, MaybeCompletePlan

LEMMA CompleteItemStep ==
  ASSUME Good(rows), NEW p \in Plans, NEW w \in Works, CompleteItem(p, w)
  PROVE  SoundStep
  <1> DEFINE new == [rows EXCEPT ![StatusCell(w)] = DoneCode(w),
                                 ![ItemCell(p, w)] = Item("closed", ""),
                                 ![PlanCell(p)] = MaybeCompletePlan(p, w)]
             touched == RowsOf(p, {w})
             item == Item("closed", "")
             status == MaybeCompletePlan(p, w)
  <1>1. Handle(touched, {}, new) /\ ItemToClose(p, w)
    BY DEF CompleteItem
  <1>2. DOMAIN rows = Cells /\ Columns(rows)
    BY TypedByColumn DEF Good, Typed
  <1>3. ItemChanges(rows, new, p, w, DoneCode(w), item, status)
    BY <1>2, ItemUpdate
  <1>4. DoneCode(w) \in Codes(w) /\ DoneCode(w) \notin EarlyCodes(w)
    BY CodeFacts
  <1>5. /\ EndsWithWorks(new, p)
        /\ rows[PlanCell(p)] = InProgress
        /\ status \in {InProgress, "completed"}
    BY <1>1, <1>3, ClosedItemPlan
  <1>6. {PlanCell(p), StatusCell(w)} \subseteq touched
    BY DEF RowsOf
  <1>7. item \in [result : Result, previous : Previous(w)]
        /\ item.result # "active"
    BY ItemFacts
  <1>8. /\ rows[PlanCell(p)] \notin {NoRow, "draft", "completed"}
        /\ status \in {"draft", InProgress, "completed"}
    BY <1>5 DEF NoRow, InProgress
  <1> HIDE DEF new, touched, item, status
  <1>9. Sound(rows, touched \cup {}, {}, new)
    BY <1>3, <1>4, <1>5, <1>6, <1>7, <1>8, OneItemSound
  <1> QED
    BY <1>1, <1>9 DEF SoundStep

LEMMA ExcludeItemStep ==
  ASSUME Good(rows), NEW p \in Plans, NEW w \in Works, ExcludeItem(p, w)
  PROVE  SoundStep
  <1> DEFINE previous == PlanItem(p, w).previous
             code == IF InOtherActiveWork(w, {}, {p}) THEN Code(w)
                     ELSE Restored(Code(w), PlanItem(p, w).previous)
             new == [rows EXCEPT ![StatusCell(w)] = code,
                                 ![ItemCell(p, w)] = Item("closed", ""),
                                 ![PlanCell(p)] = MaybeCompletePlan(p, w)]
             touched == RowsOf(p, {w})
             item == Item("closed", "")
             status == MaybeCompletePlan(p, w)
  <1>1. Handle(touched, {}, new) /\ ItemToClose(p, w)
    BY DEF ExcludeItem
  <1>2. DOMAIN rows = Cells /\ Columns(rows)
    BY TypedByColumn DEF Good, Typed
  <1>3. ItemChanges(rows, new, p, w, code, item, status)
    BY <1>2, ItemUpdate
  <1>4. previous \in OpenCodes(w) \cup {""}
    BY <1>2 DEF Columns, PlanItem, Previous
  <1>5. Code(w) \in Codes(w)
    BY <1>2 DEF Columns, Code
  <1>6. code \in Codes(w) /\ (Code(w) \in ClosedCodes(w) => code = Code(w))
    BY ZenonT(60), <1>4, <1>5, RestoredFacts, CodeFacts
  <1>7. /\ EndsWithWorks(new, p)
        /\ rows[PlanCell(p)] = InProgress
        /\ status \in {InProgress, "completed"}
    BY <1>1, <1>3, ClosedItemPlan
  <1>8. {PlanCell(p), StatusCell(w)} \subseteq touched
    BY DEF RowsOf
  <1>9. item \in [result : Result, previous : Previous(w)]
        /\ item.result # "active"
    BY ItemFacts
  <1>10. ASSUME Code(w) = InProgress, code \in EarlyCodes(w) PROVE ~HeldIn(new, w)
    <2>1. ~InOtherActiveWork(w, {}, {p})
      BY <1>10, CodeFacts
    <2>2. ItemFrame(rows, new, p, w)
      BY <1>3, ItemChangesFrame
    <2>3. ~ActiveAt(new, p, w)
      BY <1>3, ItemFacts DEF ItemChanges, ActiveAt
    <2>4. \A q \in Plans \ {p} : ~PlanHolds(new, q, w)
      BY <2>1, <2>2 DEF InOtherActiveWork, Busy, OpenPlan, ActiveIn, PlanStatus, PlanItem,
                        PlanHolds, OpenIn, ActiveAt, ItemFrame
    <2>5. \A m \in Masters : ~BillHolds(new, m, w)
      BY <2>1, <2>2 DEF InOtherActiveWork, BillOpen, HasStop, BillHolds, ItemFrame
    <2> QED
      BY <2>3, <2>4, <2>5 DEF HeldIn, PlanHolds
  <1>11. /\ rows[PlanCell(p)] \notin {NoRow, "draft", "completed"}
         /\ status \in {"draft", InProgress, "completed"}
    BY <1>7 DEF NoRow, InProgress
  <1> HIDE DEF new, touched, item, status, code
  <1>12. Sound(rows, touched \cup {}, {}, new)
    BY <1>3, <1>6, <1>7, <1>8, <1>9, <1>10, <1>11, OneItemSound DEF Code
  <1> QED
    BY <1>1, <1>12 DEF SoundStep

-----------------------------------------------------------------------------
(* Handlers that start a plan *)

TakeFrame(n, p, S) ==
    /\ DOMAIN n = Cells
    /\ n[PlanCell(p)] = InProgress
    /\ \A w \in S : n[StatusCell(w)] = InProgress
    /\ \A w \in S : n[ItemCell(p, w)] = Item("active", Code(w))
    /\ \A w \in Works \ S : n[StatusCell(w)] = rows[StatusCell(w)]
    /\ \A w \in Works : n[DeletedCell(w)] = rows[DeletedCell(w)]
    /\ \A q \in Plans \ {p} : n[PlanCell(q)] = rows[PlanCell(q)]
    /\ \A m \in Masters : n[BillCell(m)] = rows[BillCell(m)]
    /\ \A q \in Plans, w \in Works : q # p \/ w \notin S =>
         n[ItemCell(q, w)] = rows[ItemCell(q, w)]
    /\ \A m \in Masters, w \in Works : n[StopCell(m, w)] = rows[StopCell(m, w)]

LEMMA TakeChanges ==
  ASSUME NEW p \in Plans, NEW S \in SUBSET Works
  PROVE  TakeFrame(Take(p, S), p, S)
  <1> DEFINE started == {PlanCell(p)} \cup {StatusCell(w) : w \in S}
             taken == {ItemCell(p, w) : w \in S}
  <1>1. ASSUME NEW c \in Cells, c \in started PROVE Take(p, S)[c] = InProgress
    <2>1. c \notin taken
      BY <1>1, CellsDiffer
    <2> QED
      BY <1>1, <2>1 DEF Take
  <1>2. ASSUME NEW c \in Cells, c \in taken PROVE Take(p, S)[c] = Item("active", Code(c[3]))
    <2>1. c \notin started
      BY <1>2, CellsDiffer
    <2> QED
      BY <1>2, <2>1 DEF Take
  <1>3. ASSUME NEW c \in Cells, c \notin started, c \notin taken PROVE Take(p, S)[c] = rows[c]
    BY <1>3 DEF Take
  <1>4. DOMAIN Take(p, S) = Cells
    BY DEF Take
  <1>5. Take(p, S)[PlanCell(p)] = InProgress
        /\ \A w \in S : Take(p, S)[StatusCell(w)] = InProgress
    BY <1>1, CellKinds
  <1>6. ASSUME NEW w \in S PROVE Take(p, S)[ItemCell(p, w)] = Item("active", Code(w))
    <2>1. ItemCell(p, w) \in taken /\ ItemCell(p, w) \in Cells
      BY CellKinds
    <2>2. ItemCell(p, w)[3] = w
      BY DEF ItemCell
    <2> QED
      BY <1>2, <2>1, <2>2
  <1> HIDE DEF started, taken
  <1>7. \A w \in Works \ S : StatusCell(w) \notin started /\ StatusCell(w) \notin taken
    BY CellsDiffer DEF started, taken
  <1>8. \A w \in Works : DeletedCell(w) \notin started /\ DeletedCell(w) \notin taken
    BY CellsDiffer DEF started, taken
  <1>9. \A q \in Plans \ {p} : PlanCell(q) \notin started /\ PlanCell(q) \notin taken
    BY CellsDiffer DEF started, taken
  <1>10. \A m \in Masters : BillCell(m) \notin started /\ BillCell(m) \notin taken
    BY CellsDiffer DEF started, taken
  <1>11. \A q \in Plans, w \in Works : q # p \/ w \notin S =>
           ItemCell(q, w) \notin started /\ ItemCell(q, w) \notin taken
    BY CellsDiffer DEF started, taken
  <1>12. \A m \in Masters, w \in Works :
           StopCell(m, w) \notin started /\ StopCell(m, w) \notin taken
    BY CellsDiffer DEF started, taken
  <1>13. /\ \A w \in Works \ S : Take(p, S)[StatusCell(w)] = rows[StatusCell(w)]
         /\ \A w \in Works : Take(p, S)[DeletedCell(w)] = rows[DeletedCell(w)]
    BY <1>3, <1>7, <1>8, CellKinds
  <1>14. /\ \A q \in Plans \ {p} : Take(p, S)[PlanCell(q)] = rows[PlanCell(q)]
         /\ \A m \in Masters : Take(p, S)[BillCell(m)] = rows[BillCell(m)]
    BY <1>3, <1>9, <1>10, CellKinds
  <1>15. \A q \in Plans, w \in Works : q # p \/ w \notin S =>
           Take(p, S)[ItemCell(q, w)] = rows[ItemCell(q, w)]
    BY <1>3, <1>11, CellKinds
  <1>16. \A m \in Masters, w \in Works : Take(p, S)[StopCell(m, w)] = rows[StopCell(m, w)]
    BY <1>3, <1>12, CellKinds
  <1> QED
    BY <1>4, <1>5, <1>6, <1>13, <1>14, <1>15, <1>16 DEF TakeFrame

(* Starting a plan is sound when its works are open and no other open plan *)
(* has them.                                                               *)
LEMMA TakeSound ==
  ASSUME Good(rows), NEW p \in Plans, NEW S \in SUBSET Works, S # {},
         rows[PlanCell(p)] \in {NoRow, "draft"},
         \A w \in S : Code(w) \in OpenCodes(w) /\ \A q \in Plans \ {p} : ~PlanHolds(rows, q, w),
         \A w \in Works \ S : rows[ItemCell(p, w)] = NoItem
  PROVE  Sound(rows, RowsOf(p, S) \cup {<<"number">>}, {<<"number">>}, Take(p, S))
  <1> DEFINE n == Take(p, S)
             touched == RowsOf(p, S) \cup {<<"number">>}
  <1>1. TakeFrame(n, p, S)
    BY TakeChanges
  <1>2. DOMAIN rows = Cells /\ Columns(rows)
    BY TypedByColumn DEF Good, Typed
  <1> HIDE DEF n
  <1>3. \A w \in S : ActiveAt(n, p, w)
    BY <1>1, ItemFacts DEF TakeFrame, ActiveAt
  <1>4. \A w \in Works \ S : ~ActiveAt(n, p, w)
    BY <1>1, ItemFacts DEF TakeFrame, ActiveAt, NoRow
  <1>5. Good(n)
    <2>1. Typed(n)
      <3>1. \A w \in Works : n[StatusCell(w)] \in Codes(w)
        BY <1>1, <1>2, CodeFacts DEF TakeFrame, Columns
      <3>2. \A w \in Works : n[DeletedCell(w)] \in BOOLEAN
        BY <1>1, <1>2 DEF TakeFrame, Columns
      <3>3. \A q \in Plans : n[PlanCell(q)] \in {NoRow, "draft", InProgress, "completed"}
        BY <1>1, <1>2 DEF TakeFrame, Columns
      <3>4. \A m \in Masters : n[BillCell(m)] \in {NoRow, "open"}
        BY <1>1, <1>2 DEF TakeFrame, Columns
      <3>5. ASSUME NEW q \in Plans, NEW w \in Works
            PROVE  n[ItemCell(q, w)] \in [result : Result, previous : Previous(w)]
        <4>1. CASE q = p /\ w \in S
          <5>1. Code(w) \in Previous(w)
            BY <4>1 DEF Previous
          <5>2. n[ItemCell(q, w)] = Item("active", Code(w))
            BY <1>1, <4>1 DEF TakeFrame
          <5> QED
            BY <5>1, <5>2, ItemFacts
        <4>2. CASE q # p \/ w \notin S
          BY <1>1, <1>2, <4>2 DEF TakeFrame, Columns
        <4> QED
          BY <4>1, <4>2
      <3>6. ASSUME NEW m \in Masters, NEW w \in Works
            PROVE  n[StopCell(m, w)] \in [previous : EarlyCodes(w) \cup {"", NoRow}]
        BY <1>1, <1>2 DEF TakeFrame, Columns
      <3> QED
        BY <1>1, <3>1, <3>2, <3>3, <3>4, <3>5, <3>6, TypedByColumn DEF Columns, TakeFrame
    <2>2. NothingBeforeItsRow(n)
      BY <1>1 DEF Good, NothingBeforeItsRow, TakeFrame, NoRow, InProgress
    <2>3. DraftItemsActive(n)
      BY <1>1 DEF Good, DraftItemsActive, ActiveAt, TakeFrame, InProgress
    <2>4. ASSUME NEW w \in Works PROVE OneHolder(n, w)
      <3>1. \A q \in Plans \ {p} : PlanHolds(n, q, w) => PlanHolds(rows, q, w)
        BY <1>1 DEF TakeFrame, PlanHolds, OpenIn, ActiveAt
      <3>2. OneHolder(rows, w)
        BY DEF Good
      <3>3. PlanHolds(n, p, w) => w \in S
        BY <1>4 DEF PlanHolds
      <3> QED
        BY <3>1, <3>2, <3>3 DEF OneHolder
    <2>5. ASSUME NEW q \in Plans PROVE EndsWithWorks(n, q)
      <3>1. CASE q = p
        BY <1>1, <1>3, <3>1 DEF TakeFrame, EndsWithWorks, InProgress
      <3>2. CASE q # p
        BY <1>1, <3>2 DEF Good, TakeFrame, EndsWithWorks, ActiveAt
      <3> QED
        BY <3>1, <3>2
    <2> QED
      BY <2>1, <2>2, <2>3, <2>4, <2>5 DEF Good
  <1>6. ASSUME NEW w \in Works, StatusCell(w) \notin touched PROVE SameWork(rows, n, w)
    <2>1. w \notin S
      BY <1>6 DEF RowsOf
    <2> QED
      BY <1>1, <2>1 DEF SameWork, TakeFrame
  <1>7. ASSUME NEW q \in Plans, PlanCell(q) \notin touched PROVE SamePlan(rows, n, q)
    <2>1. q # p
      BY <1>7 DEF RowsOf
    <2> QED
      BY <1>1, <2>1 DEF SamePlan, TakeFrame
  <1>8. ASSUME NEW q \in Plans PROVE PlanMoves(rows, n, q, {<<"number">>})
    <2>1. q # p => n[PlanCell(q)] = rows[PlanCell(q)]
      BY <1>1 DEF TakeFrame
    <2>2. n[PlanCell(p)] = InProgress
      BY <1>1 DEF TakeFrame
    <2> QED
      BY <2>1, <2>2 DEF PlanMoves, NoRow, InProgress
  <1>9. ASSUME NEW w \in Works PROVE ReturnsFree(rows, n, w) /\ KeepsClosed(rows, n, w)
    <2>1. n[StatusCell(w)] = rows[StatusCell(w)]
          \/ (n[StatusCell(w)] = InProgress /\ rows[StatusCell(w)] \notin ClosedCodes(w))
      BY <1>1, CodeFacts DEF TakeFrame, Code
    <2>2. InProgress \notin EarlyCodes(w)
      BY CodeFacts
    <2> QED
      BY <2>1, <2>2 DEF ReturnsFree, KeepsClosed
  <1> QED
    BY <1>5, <1>6, <1>7, <1>8, <1>9 DEF Sound, n

LEMMA SavePlanStep ==
  ASSUME Good(rows), NEW p \in Plans, SavePlan(p)
  PROVE  SoundStep
  <1> DEFINE S == {w \in Works : PlanItem(p, w) # NoItem}
  <1>1. /\ rows[PlanCell(p)] = "draft" /\ S # {}
        /\ \A w \in S : CanTake(w, Code(w))
        /\ Handle(RowsOf(p, S), {<<"number">>}, Take(p, S))
    BY DEF SavePlan, PlanStatus
  <1>2. ASSUME NEW w \in S
        PROVE  Code(w) \in OpenCodes(w) /\ \A q \in Plans \ {p} : ~PlanHolds(rows, q, w)
    <2>1. Code(w) \in OpenCodes(w)
      <3>1. w \in Works /\ CanTake(w, Code(w))
        BY <1>1, <1>2
      <3> QED
        BY <3>1, TakenIsOpen
    <2>2. PlanHolds(rows, p, w)
      BY <1>1 DEF Good, DraftItemsActive, PlanItem, PlanHolds, OpenIn
    <2> QED
      BY <2>1, <2>2 DEF Good, OneHolder
  <1>3. \A w \in Works \ S : rows[ItemCell(p, w)] = NoItem
    BY DEF PlanItem
  <1> HIDE DEF S
  <1>4. S \in SUBSET Works
    BY DEF S
  <1>5. Sound(rows, RowsOf(p, S) \cup {<<"number">>}, {<<"number">>}, Take(p, S))
    BY <1>1, <1>2, <1>3, <1>4, TakeSound
  <1> QED
    BY <1>1, <1>5 DEF SoundStep

LEMMA CreateAndStartStep ==
  ASSUME Good(rows), NEW p \in Plans, NEW S \in SUBSET Works, CreateAndStart(p, S)
  PROVE  SoundStep
  <1>1. /\ rows[PlanCell(p)] = NoRow /\ S # {}
        /\ \A w \in S : ~Busy(w, {}) /\ Code(w) \in OpenCodes(w)
        /\ Handle(RowsOf(p, S), {<<"number">>}, Take(p, S))
    BY DEF CreateAndStart, PlanStatus
  <1>2. \A w \in S : \A q \in Plans \ {p} : ~PlanHolds(rows, q, w)
    BY <1>1 DEF Busy, OpenPlan, PlanStatus, ActiveIn, PlanItem, PlanHolds, OpenIn, ActiveAt
  <1>3. \A w \in Works \ S : rows[ItemCell(p, w)] = NoItem
    BY <1>1 DEF Good, NothingBeforeItsRow
  <1>4. Sound(rows, RowsOf(p, S) \cup {<<"number">>}, {<<"number">>}, Take(p, S))
    BY <1>1, <1>2, <1>3, TakeSound
  <1> QED
    BY <1>1, <1>4 DEF SoundStep

-----------------------------------------------------------------------------
(* Handlers that leave the plans alone *)

PlansKept(r, n) ==
    /\ DOMAIN n = Cells
    /\ \A p \in Plans : n[PlanCell(p)] = r[PlanCell(p)]
    /\ \A p \in Plans, w \in Works : n[ItemCell(p, w)] = r[ItemCell(p, w)]

WorksAndBillsTyped(n) ==
    /\ \A w \in Works : n[StatusCell(w)] \in Codes(w)
    /\ \A w \in Works : n[DeletedCell(w)] \in BOOLEAN
    /\ \A m \in Masters : n[BillCell(m)] \in {NoRow, "open"}
    /\ \A m \in Masters, w \in Works :
         n[StopCell(m, w)] \in [previous : EarlyCodes(w) \cup {"", NoRow}]
    /\ \A m \in Masters, w \in Works : n[BillCell(m)] = NoRow => n[StopCell(m, w)] = NoStop

LEMMA PlansKeptSound ==
  ASSUME NEW r, Good(r), NEW n, PlansKept(r, n), WorksAndBillsTyped(n),
         NEW touched, NEW keys, keys \subseteq touched,
         \A w \in Works : StatusCell(w) \notin touched =>
             /\ n[StatusCell(w)] = r[StatusCell(w)]
             /\ \A m \in Masters : n[StopCell(m, w)] = r[StopCell(m, w)],
         \A w \in Works : ReturnsFree(r, n, w) /\ KeepsClosed(r, n, w)
  PROVE  Sound(r, touched, keys, n)
  <1>1. DOMAIN r = Cells /\ Columns(r)
    BY TypedByColumn DEF Good, Typed
  <1>2. Typed(n)
    <2>1. \A p \in Plans : n[PlanCell(p)] \in {NoRow, "draft", InProgress, "completed"}
      BY <1>1 DEF Columns, PlansKept
    <2>2. ASSUME NEW p \in Plans, NEW w \in Works
          PROVE  n[ItemCell(p, w)] \in [result : Result, previous : Previous(w)]
      BY <1>1 DEF Columns, PlansKept
    <2>3. ASSUME NEW m \in Masters, NEW w \in Works
          PROVE  n[StopCell(m, w)] \in [previous : EarlyCodes(w) \cup {"", NoRow}]
      BY DEF WorksAndBillsTyped
    <2> QED
      BY <2>1, <2>2, <2>3, TypedByColumn DEF Columns, PlansKept, WorksAndBillsTyped
  <1>3. NothingBeforeItsRow(n)
    BY DEF Good, NothingBeforeItsRow, PlansKept, WorksAndBillsTyped
  <1>4. DraftItemsActive(n)
    BY DEF Good, DraftItemsActive, ActiveAt, PlansKept
  <1>5. \A w \in Works : OneHolder(n, w)
    BY DEF Good, OneHolder, PlanHolds, OpenIn, ActiveAt, PlansKept
  <1>6. \A p \in Plans : EndsWithWorks(n, p)
    BY DEF Good, EndsWithWorks, ActiveAt, PlansKept
  <1>7. \A w \in Works : StatusCell(w) \notin touched => SameWork(r, n, w)
    BY DEF SameWork, PlansKept
  <1>8. \A p \in Plans : PlanCell(p) \notin touched => SamePlan(r, n, p)
    BY DEF SamePlan, PlansKept
  <1>9. ASSUME NEW p \in Plans PROVE PlanMoves(r, n, p, keys)
    <2>1. n[PlanCell(p)] = r[PlanCell(p)]
      BY DEF PlansKept
    <2> QED
      BY <2>1 DEF PlanMoves
  <1> QED
    BY <1>2, <1>3, <1>4, <1>5, <1>6, <1>7, <1>8, <1>9 DEF Good, Sound

(* Closing, dropping and creating a waybill.                               *)
EmptiedFrame(n, m, status, Fixed) ==
    /\ PlansKept(rows, n)
    /\ n[BillCell(m)] = status
    /\ \A k \in Masters \ {m} : n[BillCell(k)] = rows[BillCell(k)]
    /\ \A w \in Works : n[StopCell(m, w)] = NoStop
    /\ \A k \in Masters \ {m}, w \in Works : n[StopCell(k, w)] = rows[StopCell(k, w)]
    /\ \A w \in Fixed : n[StatusCell(w)] = DoneCode(w)
    /\ \A w \in Works \ Fixed : n[StatusCell(w)] = rows[StatusCell(w)]
    /\ \A w \in Works : n[DeletedCell(w)] = rows[DeletedCell(w)]

LEMMA EmptiedChanges ==
  ASSUME NEW m \in Masters, NEW status, NEW Fixed \in SUBSET Works
  PROVE  EmptiedFrame(Emptied(m, status, Fixed), m, status, Fixed)
  <1> DEFINE n == Emptied(m, status, Fixed)
             stops == {StopCell(m, w) : w \in Works}
             fixed == {StatusCell(w) : w \in Fixed}
  <1>1. n[BillCell(m)] = status
    BY CellsDiffer, CellKinds DEF Emptied
  <1>2. ASSUME NEW c \in Cells, c \in stops PROVE n[c] = NoStop
    <2>1. c # BillCell(m) /\ c \notin fixed
      BY <1>2, CellsDiffer
    <2> QED
      BY <1>2, <2>1 DEF Emptied
  <1>3. ASSUME NEW c \in Cells, c \in fixed PROVE n[c] = DoneCode(c[2])
    <2>1. c # BillCell(m) /\ c \notin stops
      BY <1>3, CellsDiffer
    <2> QED
      BY <1>3, <2>1 DEF Emptied
  <1>4. ASSUME NEW c \in Cells, c # BillCell(m), c \notin stops, c \notin fixed
        PROVE  n[c] = rows[c]
    BY <1>4 DEF Emptied
  <1>5. DOMAIN n = Cells
    BY DEF Emptied
  <1>6. \A w \in Works : n[StopCell(m, w)] = NoStop
    BY <1>2, CellKinds
  <1>7. ASSUME NEW w \in Fixed PROVE n[StatusCell(w)] = DoneCode(w)
    <2>1. StatusCell(w) \in fixed /\ StatusCell(w) \in Cells
      BY CellKinds
    <2>2. StatusCell(w)[2] = w
      BY DEF StatusCell
    <2> QED
      BY <1>3, <2>1, <2>2
  <1> HIDE DEF n, stops, fixed
  <1>8. \A w \in Works \ Fixed : n[StatusCell(w)] = rows[StatusCell(w)]
    <2>1. \A w \in Works \ Fixed :
            StatusCell(w) # BillCell(m) /\ StatusCell(w) \notin stops /\ StatusCell(w) \notin fixed
      BY CellsDiffer DEF stops, fixed
    <2> QED
      BY <1>4, <2>1, CellKinds
  <1>9. \A w \in Works : n[DeletedCell(w)] = rows[DeletedCell(w)]
    <2>1. \A w \in Works :
            DeletedCell(w) # BillCell(m) /\ DeletedCell(w) \notin stops /\ DeletedCell(w) \notin fixed
      BY CellsDiffer DEF stops, fixed
    <2> QED
      BY <1>4, <2>1, CellKinds
  <1>10. \A k \in Masters \ {m} : n[BillCell(k)] = rows[BillCell(k)]
    <2>1. \A k \in Masters \ {m} :
            BillCell(k) # BillCell(m) /\ BillCell(k) \notin stops /\ BillCell(k) \notin fixed
      BY CellsDiffer DEF stops, fixed
    <2> QED
      BY <1>4, <2>1, CellKinds
  <1>11. \A k \in Masters \ {m}, w \in Works : n[StopCell(k, w)] = rows[StopCell(k, w)]
    <2>1. \A k \in Masters \ {m}, w \in Works :
            /\ StopCell(k, w) # BillCell(m)
            /\ StopCell(k, w) \notin stops /\ StopCell(k, w) \notin fixed
      BY CellsDiffer DEF stops, fixed
    <2> QED
      BY <1>4, <2>1, CellKinds
  <1>12. \A p \in Plans : n[PlanCell(p)] = rows[PlanCell(p)]
    <2>1. \A p \in Plans :
            PlanCell(p) # BillCell(m) /\ PlanCell(p) \notin stops /\ PlanCell(p) \notin fixed
      BY CellsDiffer DEF stops, fixed
    <2> QED
      BY <1>4, <2>1, CellKinds
  <1>13. \A p \in Plans, w \in Works : n[ItemCell(p, w)] = rows[ItemCell(p, w)]
    <2>1. \A p \in Plans, w \in Works :
            /\ ItemCell(p, w) # BillCell(m)
            /\ ItemCell(p, w) \notin stops /\ ItemCell(p, w) \notin fixed
      BY CellsDiffer DEF stops, fixed
    <2> QED
      BY <1>4, <2>1, CellKinds
  <1> QED
    BY <1>1, <1>5, <1>6, <1>7, <1>8, <1>9, <1>10, <1>11, <1>12, <1>13
       DEF EmptiedFrame, PlansKept, n

(* Emptying a waybill is sound for whoever has touched all of its works.   *)
LEMMA EmptiedSound ==
  ASSUME Good(rows), NEW m \in Masters, NEW status \in {NoRow, "open"},
         NEW Fixed \in SUBSET StoppedAt(m), NEW touched,
         \A w \in StoppedAt(m) : StatusCell(w) \in touched
  PROVE  Sound(rows, touched \cup {}, {}, Emptied(m, status, Fixed))
  <1> DEFINE n == Emptied(m, status, Fixed)
  <1>1. EmptiedFrame(n, m, status, Fixed)
    BY EmptiedChanges DEF StoppedAt
  <1>2. DOMAIN rows = Cells /\ Columns(rows)
    BY TypedByColumn DEF Good, Typed
  <1> HIDE DEF n
  <1>3. WorksAndBillsTyped(n)
    <2>1. \A w \in Works : n[StatusCell(w)] \in Codes(w)
      <3>1. \A w \in Works : rows[StatusCell(w)] \in Codes(w) /\ DoneCode(w) \in Codes(w)
        BY <1>2, CodeFacts DEF Columns
      <3>2. \A w \in Works : n[StatusCell(w)] \in {rows[StatusCell(w)], DoneCode(w)}
        BY <1>1 DEF EmptiedFrame
      <3> QED
        BY <3>1, <3>2
    <2>2. \A w \in Works : n[DeletedCell(w)] \in BOOLEAN
      BY <1>1, <1>2 DEF EmptiedFrame, Columns
    <2>3. \A k \in Masters : n[BillCell(k)] \in {NoRow, "open"}
      BY <1>1, <1>2 DEF EmptiedFrame, Columns
    <2>4. ASSUME NEW k \in Masters, NEW w \in Works
          PROVE  n[StopCell(k, w)] \in [previous : EarlyCodes(w) \cup {"", NoRow}]
      <3>1. n[StopCell(k, w)] = NoStop \/ n[StopCell(k, w)] = rows[StopCell(k, w)]
        BY <1>1 DEF EmptiedFrame
      <3>2. rows[StopCell(k, w)] \in [previous : EarlyCodes(w) \cup {"", NoRow}]
        BY <1>2 DEF Columns
      <3>3. NoStop \in [previous : EarlyCodes(w) \cup {"", NoRow}]
        BY DEF NoStop
      <3> QED
        BY <3>1, <3>2, <3>3
    <2>5. \A k \in Masters, w \in Works :
            n[BillCell(k)] = NoRow => n[StopCell(k, w)] = NoStop
      BY <1>1 DEF Good, NothingBeforeItsRow, EmptiedFrame
    <2> QED
      BY <2>1, <2>2, <2>3, <2>4, <2>5 DEF WorksAndBillsTyped
  <1>4. ASSUME NEW w \in Works, StatusCell(w) \notin touched \cup {}
        PROVE  /\ n[StatusCell(w)] = rows[StatusCell(w)]
               /\ \A k \in Masters : n[StopCell(k, w)] = rows[StopCell(k, w)]
    <2>1. w \notin Fixed /\ rows[StopCell(m, w)] = NoStop
      BY <1>4 DEF StoppedAt, HasStop
    <2> QED
      BY <1>1, <2>1 DEF EmptiedFrame
  <1>5. ASSUME NEW w \in Works PROVE ReturnsFree(rows, n, w) /\ KeepsClosed(rows, n, w)
    <2>1. n[StatusCell(w)] \in {rows[StatusCell(w)], DoneCode(w)}
      BY <1>1 DEF EmptiedFrame
    <2>2. InProgress \notin EarlyCodes(w) /\ DoneCode(w) \notin EarlyCodes(w)
      BY CodeFacts
    <2> QED
      BY <2>1, <2>2 DEF ReturnsFree, KeepsClosed
  <1>6. PlansKept(rows, n)
    BY <1>1 DEF EmptiedFrame
  <1>7. Sound(rows, touched \cup {}, {}, n)
    BY <1>3, <1>4, <1>5, <1>6, PlansKeptSound
  <1> QED
    BY <1>7 DEF n

LEMMA CreateBillStep ==
  ASSUME Good(rows), NEW m \in Masters, CreateBill(m)
  PROVE  SoundStep
  <1> DEFINE touched == {BillCell(m)}
  <1>1. rows[BillCell(m)] = NoRow /\ RunAtOnce(touched, Emptied(m, "open", {}))
    BY DEF CreateBill, BillOpen
  <1>2. StoppedAt(m) = {}
    BY <1>1 DEF StoppedAt, HasStop, Good, NothingBeforeItsRow
  <1>3. Sound(rows, touched \cup {}, {}, Emptied(m, "open", {}))
    BY <1>2, EmptiedSound
  <1>4. Handle(touched, {}, Emptied(m, "open", {}))
    <2>1. touched \cup {} = touched
      OBVIOUS
    <2> QED
      BY <1>1, <2>1 DEF Handle
  <1> QED
    BY <1>3, <1>4 DEF SoundStep

LEMMA CompleteBillStep ==
  ASSUME Good(rows), NEW m \in Masters, CompleteBill(m)
  PROVE  SoundStep
  <1> DEFINE touched == {BillCell(m)} \cup {StatusCell(w) : w \in StoppedAt(m)}
  <1>1. PICK Fixed \in SUBSET StoppedAt(m) : Handle(touched, {}, Emptied(m, NoRow, Fixed))
    BY DEF CompleteBill
  <1>2. Sound(rows, touched \cup {}, {}, Emptied(m, NoRow, Fixed))
    BY EmptiedSound
  <1> QED
    BY <1>1, <1>2 DEF SoundStep

LEMMA DropBillStep ==
  ASSUME Good(rows), NEW m \in Masters, DropBill(m)
  PROVE  SoundStep
  <1> DEFINE touched == {BillCell(m)} \cup {StatusCell(w) : w \in StoppedAt(m)}
  <1>1. Handle(touched, {}, Emptied(m, NoRow, {}))
    BY DEF DropBill
  <1>2. Sound(rows, touched \cup {}, {}, Emptied(m, NoRow, {}))
    BY EmptiedSound
  <1> QED
    BY <1>1, <1>2 DEF SoundStep

(* Adding and removing a stop.                                             *)
StopFrame(n, m, w, code, stop) ==
    /\ PlansKept(rows, n)
    /\ n[StatusCell(w)] = code
    /\ n[StopCell(m, w)] = stop
    /\ \A v \in Works \ {w} : n[StatusCell(v)] = rows[StatusCell(v)]
    /\ \A v \in Works : n[DeletedCell(v)] = rows[DeletedCell(v)]
    /\ \A k \in Masters : n[BillCell(k)] = rows[BillCell(k)]
    /\ \A k \in Masters, v \in Works : k # m \/ v # w =>
         n[StopCell(k, v)] = rows[StopCell(k, v)]

LEMMA StopChanges ==
  ASSUME DOMAIN rows = Cells, NEW m \in Masters, NEW w \in Works, NEW code, NEW stop
  PROVE  StopFrame([rows EXCEPT ![StopCell(m, w)] = stop, ![StatusCell(w)] = code],
                   m, w, code, stop)
  <1> DEFINE n == [rows EXCEPT ![StopCell(m, w)] = stop, ![StatusCell(w)] = code]
  <1>1. /\ DOMAIN n = Cells /\ n[StatusCell(w)] = code /\ n[StopCell(m, w)] = stop
        /\ \A c \in Cells : c # StopCell(m, w) /\ c # StatusCell(w) => n[c] = rows[c]
    BY CellsDiffer, CellKinds
  <1> HIDE DEF n
  <1>2. \A v \in Works \ {w} : n[StatusCell(v)] = rows[StatusCell(v)]
    BY <1>1, CellsDiffer, CellKinds
  <1>3. \A v \in Works : n[DeletedCell(v)] = rows[DeletedCell(v)]
    BY <1>1, CellsDiffer, CellKinds
  <1>4. \A k \in Masters : n[BillCell(k)] = rows[BillCell(k)]
    BY <1>1, CellsDiffer, CellKinds
  <1>5. \A k \in Masters, v \in Works : k # m \/ v # w =>
          n[StopCell(k, v)] = rows[StopCell(k, v)]
    BY <1>1, CellsDiffer, CellKinds
  <1>6. \A p \in Plans : n[PlanCell(p)] = rows[PlanCell(p)]
    BY <1>1, CellsDiffer, CellKinds
  <1>7. \A p \in Plans, v \in Works : n[ItemCell(p, v)] = rows[ItemCell(p, v)]
    BY <1>1, CellsDiffer, CellKinds
  <1> QED
    BY <1>1, <1>2, <1>3, <1>4, <1>5, <1>6, <1>7 DEF StopFrame, PlansKept, n

LEMMA OneStopSound ==
  ASSUME Good(rows), NEW m \in Masters, NEW w \in Works, NEW code \in Codes(w),
         NEW stop \in [previous : EarlyCodes(w) \cup {"", NoRow}],
         NEW n, StopFrame(n, m, w, code, stop), rows[BillCell(m)] # NoRow,
         NEW touched, NEW keys, keys \subseteq touched, StatusCell(w) \in touched,
         rows[StatusCell(w)] \in ClosedCodes(w) => code = rows[StatusCell(w)],
         rows[StatusCell(w)] = InProgress /\ code \in EarlyCodes(w) => ~HeldIn(n, w)
  PROVE  Sound(rows, touched, keys, n)
  <1>1. DOMAIN rows = Cells /\ Columns(rows)
    BY TypedByColumn DEF Good, Typed
  <1>2. WorksAndBillsTyped(n)
    <2>1. \A v \in Works : n[StatusCell(v)] \in Codes(v)
      BY <1>1 DEF StopFrame, Columns
    <2>2. \A v \in Works : n[DeletedCell(v)] \in BOOLEAN
      BY <1>1 DEF StopFrame, Columns
    <2>3. \A k \in Masters : n[BillCell(k)] \in {NoRow, "open"}
      BY <1>1 DEF StopFrame, Columns
    <2>4. ASSUME NEW k \in Masters, NEW v \in Works
          PROVE  n[StopCell(k, v)] \in [previous : EarlyCodes(v) \cup {"", NoRow}]
      <3>1. CASE k = m /\ v = w
        BY <3>1 DEF StopFrame
      <3>2. CASE k # m \/ v # w
        BY <1>1, <3>2 DEF StopFrame, Columns
      <3> QED
        BY <3>1, <3>2
    <2>5. \A k \in Masters, v \in Works :
            n[BillCell(k)] = NoRow => n[StopCell(k, v)] = NoStop
      BY DEF Good, NothingBeforeItsRow, StopFrame
    <2> QED
      BY <2>1, <2>2, <2>3, <2>4, <2>5 DEF WorksAndBillsTyped
  <1>3. \A v \in Works : StatusCell(v) \notin touched =>
          /\ n[StatusCell(v)] = rows[StatusCell(v)]
          /\ \A k \in Masters : n[StopCell(k, v)] = rows[StopCell(k, v)]
    BY DEF StopFrame
  <1>4. ASSUME NEW v \in Works PROVE ReturnsFree(rows, n, v) /\ KeepsClosed(rows, n, v)
    <2>1. CASE v = w
      BY <2>1 DEF StopFrame, ReturnsFree, KeepsClosed
    <2>2. CASE v # w
      <3>1. n[StatusCell(v)] = rows[StatusCell(v)] /\ InProgress \notin EarlyCodes(v)
        BY <2>2, CodeFacts DEF StopFrame
      <3> QED
        BY <3>1 DEF ReturnsFree, KeepsClosed
    <2> QED
      BY <2>1, <2>2
  <1>5. PlansKept(rows, n)
    BY DEF StopFrame
  <1> QED
    BY <1>2, <1>3, <1>4, <1>5, PlansKeptSound

LEMMA AddStopStep ==
  ASSUME Good(rows), NEW m \in Masters, NEW w \in Works, AddStop(m, w)
  PROVE  SoundStep
  <1> DEFINE stop == Stop(IF Code(w) = InProgress THEN "" ELSE Code(w))
             new == [rows EXCEPT ![StopCell(m, w)] = stop, ![StatusCell(w)] = InProgress]
             touched == {BillCell(m), StatusCell(w)}
             keys == {<<"order", m>>}
  <1>1. /\ Handle(touched, keys, new)
        /\ rows[BillCell(m)] # NoRow /\ CanTake(w, Code(w))
    BY DEF AddStop, BillOpen
  <1>2. StopFrame(new, m, w, InProgress, stop)
    BY StopChanges DEF Good, Typed
  <1>3. Code(w) \in OpenCodes(w)
    BY <1>1, TakenIsOpen
  <1>4. stop \in [previous : EarlyCodes(w) \cup {"", NoRow}]
    BY <1>3, CodeFacts DEF Stop
  <1>5. /\ InProgress \in Codes(w) /\ InProgress \notin EarlyCodes(w)
        /\ Code(w) \notin ClosedCodes(w)
    BY <1>3, CodeFacts
  <1> HIDE DEF new, stop
  <1>6. Sound(rows, touched \cup keys, keys, new)
    BY <1>1, <1>2, <1>4, <1>5, OneStopSound DEF Code
  <1> QED
    BY <1>1, <1>6 DEF SoundStep

LEMMA RemoveStopStep ==
  ASSUME Good(rows), NEW m \in Masters, NEW w \in Works, RemoveStop(m, w)
  PROVE  SoundStep
  <1> DEFINE previous == rows[StopCell(m, w)].previous
             returns == previous # "" /\ ~InOtherActiveWork(w, {m}, {})
             code == IF returns THEN Restored(Code(w), previous) ELSE Code(w)
             new == [rows EXCEPT ![StopCell(m, w)] = NoStop, ![StatusCell(w)] = code]
             touched == {BillCell(m), StatusCell(w)}
  <1>1. Handle(touched, {}, new) /\ rows[BillCell(m)] # NoRow /\ HasStop(m, w)
    BY DEF RemoveStop, BillOpen
  <1>2. DOMAIN rows = Cells /\ Columns(rows)
    BY TypedByColumn DEF Good, Typed
  <1>3. StopFrame(new, m, w, code, NoStop)
    BY <1>2, StopChanges
  <1>4. previous \in EarlyCodes(w) \cup {""}
    <2>1. rows[StopCell(m, w)] \in [previous : EarlyCodes(w) \cup {"", NoRow}]
      BY <1>2 DEF Columns
    <2>2. rows[StopCell(m, w)] # [previous |-> NoRow]
      BY <1>1 DEF HasStop, NoStop
    <2> QED
      BY <2>1, <2>2
  <1>5. Code(w) \in Codes(w)
    BY <1>2 DEF Columns, Code
  <1>6. code \in Codes(w) /\ (Code(w) \in ClosedCodes(w) => code = Code(w))
    <2>1. previous \in Codes(w) \cup {""}
      BY <1>4 DEF Codes, OpenCodes
    <2>2. /\ Restored(Code(w), previous) \in Codes(w)
          /\ Code(w) \in ClosedCodes(w) => Restored(Code(w), previous) = Code(w)
      BY <1>5, <2>1, RestoredFacts
    <2>3. code \in {Restored(Code(w), previous), Code(w)}
      OBVIOUS
    <2> HIDE DEF code
    <2> QED
      BY <1>5, <2>2, <2>3
  <1>7. ASSUME Code(w) = InProgress, code \in EarlyCodes(w) PROVE ~HeldIn(new, w)
    <2>1. ~InOtherActiveWork(w, {m}, {})
      BY <1>7, CodeFacts
    <2>2. new[StopCell(m, w)] = NoStop
      BY <1>3 DEF StopFrame
    <2>3. \A k \in Masters \ {m} : ~BillHolds(new, k, w)
      BY <1>3, <2>1 DEF InOtherActiveWork, BillOpen, HasStop, BillHolds, StopFrame
    <2>4. \A p \in Plans : ~PlanHolds(new, p, w)
      BY <1>3, <2>1 DEF InOtherActiveWork, Busy, OpenPlan, ActiveIn, PlanStatus, PlanItem,
                        PlanHolds, OpenIn, ActiveAt, StopFrame, PlansKept
    <2> QED
      BY <2>2, <2>3, <2>4 DEF HeldIn, BillHolds
  <1>8. NoStop \in [previous : EarlyCodes(w) \cup {"", NoRow}]
    BY DEF NoStop
  <1> HIDE DEF new, code
  <1>9. Sound(rows, touched \cup {}, {}, new)
    BY <1>1, <1>3, <1>6, <1>7, <1>8, OneStopSound DEF Code
  <1> QED
    BY <1>1, <1>9 DEF SoundStep

(* Handlers that change a work alone.                                      *)
LEMMA SetStatusSound ==
  ASSUME Good(rows), NEW w \in Works, NEW to \in Codes(w)
  PROVE  Sound(rows, {StatusCell(w)} \cup {}, {}, [rows EXCEPT ![StatusCell(w)] = to])
  <1> DEFINE n == [rows EXCEPT ![StatusCell(w)] = to]
  <1>1. DOMAIN rows = Cells /\ Columns(rows)
    BY TypedByColumn DEF Good, Typed
  <1>2. /\ DOMAIN n = Cells /\ n[StatusCell(w)] = to
        /\ \A c \in Cells : c # StatusCell(w) => n[c] = rows[c]
    BY <1>1, CellKinds
  <1> HIDE DEF n
  <1>3. \A v \in Works \ {w} : n[StatusCell(v)] = rows[StatusCell(v)]
    BY <1>2, CellsDiffer, CellKinds
  <1>4. \A v \in Works : n[DeletedCell(v)] = rows[DeletedCell(v)]
    BY <1>2, CellsDiffer, CellKinds
  <1>5. \A m \in Masters : n[BillCell(m)] = rows[BillCell(m)]
    BY <1>2, CellsDiffer, CellKinds
  <1>6. \A m \in Masters, v \in Works : n[StopCell(m, v)] = rows[StopCell(m, v)]
    BY <1>2, CellsDiffer, CellKinds
  <1>7. PlansKept(rows, n)
    BY <1>2, CellsDiffer, CellKinds DEF PlansKept
  <1>8. WorksAndBillsTyped(n)
    <2>1. \A v \in Works : n[StatusCell(v)] \in Codes(v)
      BY <1>1, <1>2, <1>3 DEF Columns
    <2>2. \A m \in Masters, v \in Works :
            n[StopCell(m, v)] \in [previous : EarlyCodes(v) \cup {"", NoRow}]
      BY <1>1, <1>6 DEF Columns
    <2>3. \A m \in Masters, v \in Works : n[BillCell(m)] = NoRow => n[StopCell(m, v)] = NoStop
      BY <1>5, <1>6 DEF Good, NothingBeforeItsRow
    <2> QED
      BY <1>1, <1>4, <1>5, <2>1, <2>2, <2>3 DEF Columns, WorksAndBillsTyped
  <1>9. OnlyStatuses(rows, n)
    BY <1>2, StatusNames DEF OnlyStatuses
  <1>10. Sound(rows, {StatusCell(w)} \cup {}, {}, n)
    BY <1>3, <1>6, <1>7, <1>8, <1>9, PlansKeptSound DEF ReturnsFree, KeepsClosed
  <1> QED
    BY <1>10 DEF n

LEMMA SetStatusStep ==
  ASSUME Good(rows), NEW w \in Works, NEW to \in Codes(w),
         ChangeStatus(w, to) \/ EditStatus(w, to)
  PROVE  SoundStep
  <1> DEFINE new == [rows EXCEPT ![StatusCell(w)] = to]
  <1>1. RunAtOnce({StatusCell(w)}, new)
    BY DEF ChangeStatus, EditStatus
  <1> HIDE DEF new
  <1>2. Handle({StatusCell(w)}, {}, new)
    <2>1. {StatusCell(w)} \cup {} = {StatusCell(w)}
      OBVIOUS
    <2> QED
      BY <1>1, <2>1 DEF Handle
  <1>3. Sound(rows, {StatusCell(w)} \cup {}, {}, new)
    BY SetStatusSound DEF new
  <1> QED
    BY <1>2, <1>3 DEF SoundStep

LEMMA DeleteWorkStep ==
  ASSUME Good(rows), NEW w \in Works, DeleteWork(w)
  PROVE  SoundStep
  <1> DEFINE n == [rows EXCEPT ![DeletedCell(w)] = TRUE]
  <1>1. DOMAIN rows = Cells /\ Columns(rows)
    BY TypedByColumn DEF Good, Typed
  <1>2. /\ DOMAIN n = Cells /\ n[DeletedCell(w)] = TRUE
        /\ \A c \in Cells : c # DeletedCell(w) => n[c] = rows[c]
    BY <1>1, CellKinds
  <1>3. RunAtOnce({StatusCell(w)}, n)
    BY DEF DeleteWork
  <1> HIDE DEF n
  <1>4. \A v \in Works : n[StatusCell(v)] = rows[StatusCell(v)]
    BY <1>2, CellsDiffer, CellKinds
  <1>5. \A v \in Works \ {w} : n[DeletedCell(v)] = rows[DeletedCell(v)]
    BY <1>2, CellsDiffer, CellKinds DEF DeletedCell
  <1>6. \A m \in Masters : n[BillCell(m)] = rows[BillCell(m)]
    BY <1>2, CellsDiffer, CellKinds
  <1>7. \A m \in Masters, v \in Works : n[StopCell(m, v)] = rows[StopCell(m, v)]
    BY <1>2, CellsDiffer, CellKinds
  <1>8. PlansKept(rows, n)
    BY <1>2, CellsDiffer, CellKinds DEF PlansKept
  <1>9. WorksAndBillsTyped(n)
    <2>1. \A v \in Works : n[DeletedCell(v)] \in BOOLEAN
      BY <1>1, <1>2, <1>5 DEF Columns
    <2>2. \A m \in Masters, v \in Works :
            n[StopCell(m, v)] \in [previous : EarlyCodes(v) \cup {"", NoRow}]
      BY <1>1, <1>7 DEF Columns
    <2>3. \A m \in Masters, v \in Works : n[BillCell(m)] = NoRow => n[StopCell(m, v)] = NoStop
      BY <1>6, <1>7 DEF Good, NothingBeforeItsRow
    <2> QED
      BY <1>1, <1>4, <1>6, <2>1, <2>2, <2>3 DEF Columns, WorksAndBillsTyped
  <1>10. ASSUME NEW v \in Works PROVE ReturnsFree(rows, n, v) /\ KeepsClosed(rows, n, v)
    <2>1. n[StatusCell(v)] = rows[StatusCell(v)] /\ InProgress \notin EarlyCodes(v)
      BY <1>4, CodeFacts
    <2> QED
      BY <2>1 DEF ReturnsFree, KeepsClosed
  <1>11. Sound(rows, {StatusCell(w)} \cup {}, {}, n)
    BY <1>4, <1>7, <1>8, <1>9, <1>10, PlansKeptSound
  <1>12. Handle({StatusCell(w)}, {}, n)
    <2>1. {StatusCell(w)} \cup {} = {StatusCell(w)}
      OBVIOUS
    <2> QED
      BY <1>3, <2>1 DEF Handle
  <1> QED
    BY <1>11, <1>12 DEF SoundStep

(* Every handler of the model, from a table in order, takes a sound step.  *)
LEMMA EveryHandlerSound ==
  ASSUME Good(rows), WorksNext
  PROVE  SoundStep \/ SlowCommits \/ SlowFails
  <1>1. ASSUME NEW p \in Plans, NEW w \in Works,
               AddItem(p, w) \/ RemoveDraftItem(p, w) \/ CompleteItem(p, w) \/ ExcludeItem(p, w)
        PROVE  SoundStep
    BY <1>1, AddItemStep, RemoveDraftItemStep, CompleteItemStep, ExcludeItemStep
  <1>2. ASSUME NEW p \in Plans, SavePlan(p) \/ \E S \in SUBSET Works : CreateAndStart(p, S)
        PROVE  SoundStep
    BY <1>2, SavePlanStep, CreateAndStartStep
  <1>3. ASSUME NEW m \in Masters, CreateBill(m) \/ CompleteBill(m) \/ DropBill(m)
        PROVE  SoundStep
    BY <1>3, CreateBillStep, CompleteBillStep, DropBillStep
  <1>4. ASSUME NEW m \in Masters, NEW w \in Works, AddStop(m, w) \/ RemoveStop(m, w)
        PROVE  SoundStep
    BY <1>4, AddStopStep, RemoveStopStep
  <1>5. ASSUME NEW w \in Works,
               DeleteWork(w) \/ \E to \in Codes(w) : ChangeStatus(w, to) \/ EditStatus(w, to)
        PROVE  SoundStep
    BY <1>5, SetStatusStep, DeleteWorkStep
  <1>6. CASE \E p \in Plans, w \in Works :
               AddItem(p, w) \/ RemoveDraftItem(p, w) \/ CompleteItem(p, w) \/ ExcludeItem(p, w)
    BY <1>1, <1>6
  <1>7. CASE \E p \in Plans : SavePlan(p) \/ \E S \in SUBSET Works : CreateAndStart(p, S)
    BY <1>2, <1>7
  <1>8. CASE \E m \in Masters :
               \/ CreateBill(m) \/ CompleteBill(m) \/ DropBill(m)
               \/ \E w \in Works : AddStop(m, w) \/ RemoveStop(m, w)
    BY <1>3, <1>4, <1>8
  <1>9. CASE \E w \in Works :
               \/ \E to \in Codes(w) : ChangeStatus(w, to) \/ EditStatus(w, to)
               \/ DeleteWork(w)
    BY <1>5, <1>9
  <1> QED
    BY <1>6, <1>7, <1>8, <1>9 DEF WorksNext

-----------------------------------------------------------------------------
(* Two overlapping handlers *)

(* C is the table when one handler has taken r to f and another one, which *)
(* had read r, commits over f what it changed towards n.                   *)
Merged(C, r, n, f) ==
    /\ DOMAIN C = Cells
    /\ \A c \in Cells : C[c] = IF n[c] # r[c] THEN n[c] ELSE f[c]

(* Of a work that only one of the two touched, the merged table holds what *)
(* that one left.                                                          *)
LEMMA MergedWork ==
  ASSUME NEW r, NEW n, NEW f, NEW C, Merged(C, r, n, f), NEW w \in Works
  PROVE  /\ SameWork(r, f, w) => SameWork(n, C, w)
         /\ SameWork(r, n, w) => SameWork(f, C, w)
  <1>1. \A c \in Cells : f[c] = r[c] => C[c] = n[c]
    BY DEF Merged
  <1>2. \A c \in Cells : n[c] = r[c] => C[c] = f[c]
    BY DEF Merged
  <1> QED
    BY <1>1, <1>2, CellKinds DEF SameWork

LEMMA MergedPlan ==
  ASSUME NEW r, NEW n, NEW f, NEW C, Merged(C, r, n, f), NEW p \in Plans
  PROVE  /\ SamePlan(r, f, p) => SamePlan(n, C, p)
         /\ SamePlan(r, n, p) => SamePlan(f, C, p)
  <1>1. \A c \in Cells : f[c] = r[c] => C[c] = n[c]
    BY DEF Merged
  <1>2. \A c \in Cells : n[c] = r[c] => C[c] = f[c]
    BY DEF Merged
  <1> QED
    BY <1>1, <1>2, CellKinds DEF SamePlan

(* Two sound steps from the same table whose merge is committed: a plan    *)
(* that both created needs the same number twice, which is refused.        *)
Overlap(C, r, t, k, f, on, keys, n) ==
    /\ Good(r)
    /\ Sound(r, t, k, f)
    /\ Sound(r, on, keys, n)
    /\ on \cap t \cap keys = {}
    /\ Merged(C, r, n, f)

(* The status of a plan in the merge is that of one of the two, and an     *)
(* open plan in the merge is open in both if it was there before.          *)
LEMMA MergedPlanStatus ==
  ASSUME NEW C, NEW r, NEW t, NEW k, NEW f, NEW on, NEW keys, NEW n,
         Overlap(C, r, t, k, f, on, keys, n), NEW p \in Plans, OpenIn(C, p)
  PROVE  /\ n[PlanCell(p)] # NoRow => OpenIn(n, p)
         /\ f[PlanCell(p)] # NoRow => OpenIn(f, p)
  <1>1. C[PlanCell(p)] = IF n[PlanCell(p)] # r[PlanCell(p)] THEN n[PlanCell(p)] ELSE f[PlanCell(p)]
    BY CellKinds DEF Overlap, Merged
  <1>2. r[PlanCell(p)] \in {NoRow, "draft", InProgress, "completed"}
    BY TypedByColumn DEF Overlap, Good, Typed, Columns
  <1>3. PlanMoves(r, f, p, k) /\ PlanMoves(r, n, p, keys)
    BY DEF Overlap, Sound
  <1>4. ~(<<"number">> \in k /\ <<"number">> \in keys)
    BY DEF Overlap, Sound
  <1>5. CASE r[PlanCell(p)] = NoRow
    BY <1>1, <1>3, <1>4, <1>5 DEF PlanMoves, OpenIn, NoRow, InProgress
  <1>6. CASE r[PlanCell(p)] = "draft"
    BY <1>3, <1>6 DEF PlanMoves, OpenIn
  <1>7. CASE r[PlanCell(p)] = InProgress
    BY <1>1, <1>3, <1>7 DEF PlanMoves, OpenIn, InProgress
  <1>8. CASE r[PlanCell(p)] = "completed"
    BY <1>1, <1>3, <1>8 DEF PlanMoves, OpenIn, InProgress
  <1> QED
    BY <1>2, <1>5, <1>6, <1>7, <1>8

(* A work that the fast handler did not touch is held in the merge only by *)
(* what holds it after the slow one alone, and the other way round.        *)
LEMMA MergedHolders ==
  ASSUME NEW C, NEW r, NEW t, NEW k, NEW f, NEW on, NEW keys, NEW n,
         Overlap(C, r, t, k, f, on, keys, n), NEW w \in Works
  PROVE  /\ StatusCell(w) \notin t => \A p \in Plans : PlanHolds(C, p, w) => PlanHolds(n, p, w)
         /\ StatusCell(w) \notin on => \A p \in Plans : PlanHolds(C, p, w) => PlanHolds(f, p, w)
  <1>1. ASSUME NEW p \in Plans, NEW g, Good(g), ActiveAt(g, p, w) PROVE g[PlanCell(p)] # NoRow
    BY <1>1, ItemFacts DEF Good, NothingBeforeItsRow, ActiveAt, NoRow
  <1>2. Good(n) /\ Good(f) /\ Merged(C, r, n, f)
    BY DEF Overlap, Sound
  <1>3. ASSUME StatusCell(w) \notin t, NEW p \in Plans, PlanHolds(C, p, w)
        PROVE  PlanHolds(n, p, w)
    <2>1. SameWork(n, C, w)
      BY <1>2, <1>3, MergedWork DEF Overlap, Sound
    <2>2. ActiveAt(n, p, w)
      BY <1>3, <2>1 DEF SameWork, PlanHolds, ActiveAt
    <2> QED
      BY <1>1, <1>2, <1>3, <2>2, MergedPlanStatus DEF PlanHolds
  <1>4. ASSUME StatusCell(w) \notin on, NEW p \in Plans, PlanHolds(C, p, w)
        PROVE  PlanHolds(f, p, w)
    <2>1. SameWork(f, C, w)
      BY <1>2, <1>4, MergedWork DEF Overlap, Sound
    <2>2. ActiveAt(f, p, w)
      BY <1>4, <2>1 DEF SameWork, PlanHolds, ActiveAt
    <2> QED
      BY <1>1, <1>2, <1>4, <2>2, MergedPlanStatus DEF PlanHolds
  <1> QED
    BY <1>3, <1>4

(* The overlap disturbs nothing of a work or a plan that only one of the   *)
(* two handlers has touched.                                               *)
LEMMA OverlapSpares ==
  ASSUME NEW C, NEW r, NEW t, NEW k, NEW f, NEW on, NEW keys, NEW n,
         Overlap(C, r, t, k, f, on, keys, n)
  PROVE  /\ Typed(C)
         /\ \A w \in Works : StatusCell(w) \notin on \cap t => OneHolder(C, w)
         /\ \A p \in Plans : PlanCell(p) \notin on \cap t => EndsWithWorks(C, p)
  <1>1. Good(n) /\ Good(f) /\ Merged(C, r, n, f)
    BY DEF Overlap, Sound
  <1>2. Typed(C)
    BY <1>1 DEF Good, Typed, Merged
  <1>3. ASSUME NEW w \in Works, StatusCell(w) \notin on \cap t PROVE OneHolder(C, w)
    <2>1. OneHolder(n, w) /\ OneHolder(f, w)
      BY <1>1 DEF Good
    <2>2. CASE StatusCell(w) \notin t
      BY <2>1, <2>2, MergedHolders DEF OneHolder
    <2>3. CASE StatusCell(w) \notin on
      BY <2>1, <2>3, MergedHolders DEF OneHolder
    <2> QED
      BY <1>3, <2>2, <2>3
  <1>4. ASSUME NEW p \in Plans, PlanCell(p) \notin on \cap t PROVE EndsWithWorks(C, p)
    <2>1. EndsWithWorks(n, p) /\ EndsWithWorks(f, p)
      BY <1>1 DEF Good
    <2>2. CASE PlanCell(p) \notin t
      <3>1. SamePlan(n, C, p)
        BY <1>1, <2>2, MergedPlan DEF Overlap, Sound
      <3> QED
        BY <2>1, <3>1 DEF SamePlan, EndsWithWorks, ActiveAt
    <2>3. CASE PlanCell(p) \notin on
      <3>1. SamePlan(f, C, p)
        BY <1>1, <2>3, MergedPlan DEF Overlap, Sound
      <3> QED
        BY <2>1, <3>1 DEF SamePlan, EndsWithWorks, ActiveAt
    <2> QED
      BY <1>4, <2>2, <2>3
  <1> QED
    BY <1>2, <1>3, <1>4

(* The late commit itself returns and closes a work only as the slow       *)
(* handler would have done alone, when nobody else touched that work.      *)
LEMMA OverlapStep ==
  ASSUME NEW C, NEW r, NEW t, NEW k, NEW f, NEW on, NEW keys, NEW n,
         Overlap(C, r, t, k, f, on, keys, n), NEW w \in Works, StatusCell(w) \notin on \cap t
  PROVE  ReturnsFree(f, C, w) /\ KeepsClosed(f, C, w)
  <1>1. Good(r) /\ Good(n) /\ Good(f) /\ Merged(C, r, n, f)
    BY DEF Overlap, Sound
  <1>2. OnlyStatuses(r, n) => OnlyStatuses(f, C)
    BY <1>1 DEF OnlyStatuses, Merged
  <1>3. CASE StatusCell(w) \notin on
    <2>1. C[StatusCell(w)] = f[StatusCell(w)]
      BY <1>1, <1>3, MergedWork DEF Overlap, Sound, SameWork
    <2>2. InProgress \notin EarlyCodes(w)
      BY CodeFacts
    <2> QED
      BY <2>1, <2>2 DEF ReturnsFree, KeepsClosed
  <1>4. CASE StatusCell(w) \notin t
    <2>1. SameWork(r, f, w) /\ SameWork(n, C, w)
      BY <1>1, <1>4, MergedWork DEF Overlap, Sound
    <2>2. f[StatusCell(w)] = r[StatusCell(w)] /\ C[StatusCell(w)] = n[StatusCell(w)]
      BY <2>1 DEF SameWork
    <2>3. ReturnsFree(r, n, w) /\ KeepsClosed(r, n, w)
      BY DEF Overlap, Sound
    <2>4. KeepsClosed(f, C, w)
      BY <1>2, <2>2, <2>3 DEF KeepsClosed
    <2>5. ASSUME NEW m \in Masters, BillHolds(C, m, w) PROVE BillHolds(n, m, w)
      <3>1. n[StopCell(m, w)] # NoStop
        BY <2>1, <2>5 DEF SameWork, BillHolds
      <3>2. n[BillCell(m)] # NoRow
        BY <1>1, <3>1 DEF Good, NothingBeforeItsRow
      <3> QED
        BY <3>1, <3>2 DEF BillHolds
    <2>6. HeldIn(C, w) => HeldIn(n, w)
      BY <1>4, <2>5, MergedHolders DEF HeldIn
    <2> QED
      BY <1>2, <2>2, <2>3, <2>4, <2>6 DEF ReturnsFree
  <1> QED
    BY <1>3, <1>4

-----------------------------------------------------------------------------
(* The invariant *)

(* The slow transaction is a sound handler that read the table "base"; at  *)
(* most one other sound handler has run since, and "hit" is what the two   *)
(* have both touched.                                                      *)
SlowSound ==
    \E base, new, t, k :
        /\ Good(base)
        /\ Sound(base, slow.on, slow.keys, new)
        /\ Sound(base, t, k, rows)
        /\ slow.hit = slow.on \cap t
        /\ slow.hit = {} => rows = base
        /\ slow.write = Changes(base, new)

WorksInv ==
    /\ Typed(rows)
    /\ \A w \in Works : StatusCell(w) \notin raced => OneHolder(rows, w)
    /\ \A p \in Plans : PlanCell(p) \notin raced => EndsWithWorks(rows, p)
    /\ raced = {} => Good(rows)
    /\ slow = NoTransaction \/ (raced = {} /\ SlowSound)

(* The handler that does nothing is sound.                                 *)
LEMMA IdleSound ==
  ASSUME NEW r, Good(r)
  PROVE  Sound(r, {}, {}, r)
  <1>1. Columns(r)
    BY TypedByColumn DEF Good, Typed
  <1>2. ASSUME NEW p \in Plans PROVE PlanMoves(r, r, p, {})
    BY DEF PlanMoves
  <1>3. ASSUME NEW w \in Works PROVE ReturnsFree(r, r, w) /\ KeepsClosed(r, r, w)
    <2>1. InProgress \notin EarlyCodes(w)
      BY CodeFacts
    <2> QED
      BY <2>1 DEF ReturnsFree, KeepsClosed
  <1> QED
    BY <1>2, <1>3 DEF Sound, SameWork, SamePlan

(* Before anything is done no plan or waybill holds a work.                *)
LEMMA WorksInitially ==
  ASSUME WorksInit
  PROVE  WorksInv
  <1>1. PICK code \in [Works -> UNION {EarlyCodes(w) : w \in Works}] :
          /\ \A w \in Works : code[w] \in EarlyCodes(w)
          /\ rows = [c \in Cells |->
                       CASE c[1] = "status"  -> code[c[2]]
                         [] c[1] = "deleted" -> FALSE
                         [] c[1] = "plan"    -> IF c[2] \in OldDrafts THEN "draft" ELSE NoRow
                         [] c[1] = "waybill" -> NoRow
                         [] c[1] = "item"    -> NoItem
                         [] c[1] = "stop"    -> NoStop]
    BY DEF WorksInit
  <1>2. DOMAIN rows = Cells
    BY <1>1
  <1>3. ASSUME NEW w \in Works PROVE rows[StatusCell(w)] = code[w]
    <2>1. StatusCell(w) \in Cells
      BY CellKinds
    <2> QED
      BY <1>1, <2>1 DEF StatusCell
  <1>4. ASSUME NEW w \in Works PROVE rows[DeletedCell(w)] = FALSE
    <2>1. DeletedCell(w) \in Cells
      BY CellKinds
    <2> QED
      BY <1>1, <2>1 DEF DeletedCell
  <1>5. ASSUME NEW p \in Plans PROVE rows[PlanCell(p)] \in {NoRow, "draft"}
    <2>1. PlanCell(p) \in Cells
      BY CellKinds
    <2> QED
      BY <1>1, <2>1 DEF PlanCell
  <1>6. ASSUME NEW m \in Masters PROVE rows[BillCell(m)] = NoRow
    <2>1. BillCell(m) \in Cells
      BY CellKinds
    <2> QED
      BY <1>1, <2>1 DEF BillCell
  <1>7. ASSUME NEW p \in Plans, NEW w \in Works PROVE rows[ItemCell(p, w)] = NoItem
    <2>1. ItemCell(p, w) \in Cells
      BY CellKinds
    <2> QED
      BY <1>1, <2>1 DEF ItemCell
  <1>8. ASSUME NEW m \in Masters, NEW w \in Works PROVE rows[StopCell(m, w)] = NoStop
    <2>1. StopCell(m, w) \in Cells
      BY CellKinds
    <2> QED
      BY <1>1, <2>1 DEF StopCell
  <1>9. Typed(rows)
    <2>1. \A w \in Works : rows[StatusCell(w)] \in Codes(w)
      BY <1>1, <1>3 DEF Codes, OpenCodes
    <2>2. \A w \in Works : rows[DeletedCell(w)] \in BOOLEAN
      BY <1>4
    <2>3. \A p \in Plans : rows[PlanCell(p)] \in {NoRow, "draft", InProgress, "completed"}
      BY <1>5
    <2>4. \A m \in Masters : rows[BillCell(m)] \in {NoRow, "open"}
      BY <1>6
    <2>5. ASSUME NEW p \in Plans, NEW w \in Works
          PROVE  rows[ItemCell(p, w)] \in [result : Result, previous : Previous(w)]
      BY <1>7, ItemFacts
    <2>6. ASSUME NEW m \in Masters, NEW w \in Works
          PROVE  rows[StopCell(m, w)] \in [previous : EarlyCodes(w) \cup {"", NoRow}]
      <3>1. NoStop \in [previous : EarlyCodes(w) \cup {"", NoRow}]
        BY DEF NoStop
      <3> QED
        BY <1>8, <3>1
    <2> QED
      BY <1>2, <2>1, <2>2, <2>3, <2>4, <2>5, <2>6, TypedByColumn DEF Columns
  <1>10. \A p \in Plans, w \in Works : ~ActiveAt(rows, p, w)
    BY <1>7, ItemFacts DEF ActiveAt, NoRow
  <1>11. \A p \in Plans : rows[PlanCell(p)] # InProgress /\ rows[PlanCell(p)] # "completed"
    BY <1>5 DEF NoRow, InProgress
  <1>12. Good(rows)
    BY <1>7, <1>8, <1>9, <1>10, <1>11
       DEF Good, NothingBeforeItsRow, DraftItemsActive, OneHolder, PlanHolds, EndsWithWorks
  <1>13. slow = NoTransaction
    BY DEF WorksInit
  <1> QED
    BY <1>12, <1>13 DEF Good, WorksInv

(* A sound handler keeps the invariant, run at once or slowly.             *)
LEMMA HandlerKeeps ==
  ASSUME WorksInv, SoundStep
  PROVE  WorksInv'
  <1>1. PICK touched, keys, new :
          Sound(rows, touched \cup keys, keys, new) /\ Handle(touched, keys, new)
    BY DEF SoundStep
  <1>2. CASE RunAtOnce(touched \cup keys, new)
    <2>1. raced = {} /\ raced' = {} /\ rows' = new /\ Good(new)
      BY <1>1, <1>2 DEF RunAtOnce, Sound
    <2>2. slow' = NoTransaction \/ SlowSound'
      <3>1. CASE slow = NoTransaction
        BY <1>2, <3>1 DEF RunAtOnce, NoTransaction
      <3>2. CASE slow # NoTransaction
        <4>1. slow.hit = {} /\ slow.on \cap (touched \cup keys) # {}
          BY <1>2, <3>2 DEF RunAtOnce
        <4>2. PICK base, late, t, k :
                /\ Good(base)
                /\ Sound(base, slow.on, slow.keys, late)
                /\ Sound(base, t, k, rows)
                /\ slow.hit = slow.on \cap t
                /\ slow.hit = {} => rows = base
                /\ slow.write = Changes(base, late)
          BY <3>2 DEF WorksInv, SlowSound
        <4>3. /\ slow'.on = slow.on /\ slow'.keys = slow.keys /\ slow'.write = slow.write
              /\ slow'.hit = slow.on \cap (touched \cup keys)
          BY <1>2, <4>1 DEF RunAtOnce
        <4>4. Sound(base, touched \cup keys, keys, rows')
          BY <1>1, <2>1, <4>1, <4>2
        <4> QED
          BY <4>1, <4>2, <4>3, <4>4 DEF SlowSound
      <3> QED
        BY <3>1, <3>2
    <2> QED
      BY <2>1, <2>2 DEF WorksInv, Good
  <1>3. CASE ReadNow(touched, keys, new)
    <2>1. /\ raced = {} /\ raced' = {} /\ rows' = rows
          /\ slow' = [on |-> touched \cup keys, keys |-> keys, hit |-> {},
                      write |-> Changes(rows, new)]
      BY <1>3 DEF ReadNow
    <2>2. Good(rows)
      BY <2>1 DEF WorksInv
    <2>3. Sound(rows, {}, {}, rows)
      BY <2>2, IdleSound
    <2>4. SlowSound'
      BY <1>1, <2>1, <2>2, <2>3 DEF SlowSound
    <2> QED
      BY <2>1, <2>2, <2>4 DEF WorksInv, Good
  <1> QED
    BY <1>1, <1>2, <1>3 DEF Handle

(* A late commit is the merge of two sound steps from one table.           *)
LEMMA CommitOverlaps ==
  ASSUME WorksInv, SlowCommits
  PROVE  \E base, new, t, k :
           /\ Overlap(rows', base, t, k, rows, slow.on, slow.keys, new)
           /\ slow.hit = slow.on \cap t
           /\ slow.hit = {} => rows = base
  <1>1. PICK base, new, t, k :
          /\ Good(base)
          /\ Sound(base, slow.on, slow.keys, new)
          /\ Sound(base, t, k, rows)
          /\ slow.hit = slow.on \cap t
          /\ slow.hit = {} => rows = base
          /\ slow.write = Changes(base, new)
    BY DEF SlowCommits, WorksInv, SlowSound
  <1>2. DOMAIN Changes(base, new) = {c \in Cells : new[c] # base[c]}
        /\ \A c \in Cells : new[c] # base[c] => Changes(base, new)[c] = new[c]
    BY DEF Changes
  <1>3. Merged(rows', base, new, rows)
    BY <1>1, <1>2 DEF SlowCommits, Overwritten, Merged
  <1>4. slow.on \cap t \cap slow.keys = {}
    BY <1>1 DEF SlowCommits
  <1> QED
    BY <1>1, <1>3, <1>4 DEF Overlap

(* A table is in order by the values of its cells.                         *)
LEMMA GoodByCells ==
  ASSUME NEW n, NEW C, Good(n), DOMAIN C = Cells, \A c \in Cells : C[c] = n[c]
  PROVE  Good(C)
  <1>1. Typed(C)
    BY DEF Good, Typed
  <1>2. \A p \in Plans : C[PlanCell(p)] = n[PlanCell(p)]
    BY CellKinds
  <1>3. \A m \in Masters : C[BillCell(m)] = n[BillCell(m)]
    BY CellKinds
  <1>4. \A p \in Plans, w \in Works : C[ItemCell(p, w)] = n[ItemCell(p, w)]
    BY CellKinds
  <1>5. \A m \in Masters, w \in Works : C[StopCell(m, w)] = n[StopCell(m, w)]
    BY CellKinds
  <1>6. NothingBeforeItsRow(C) /\ DraftItemsActive(C)
    BY <1>2, <1>3, <1>4, <1>5 DEF Good, NothingBeforeItsRow, DraftItemsActive, ActiveAt
  <1>7. \A w \in Works : OneHolder(C, w)
    BY <1>2, <1>4 DEF Good, OneHolder, PlanHolds, OpenIn, ActiveAt
  <1>8. \A p \in Plans : EndsWithWorks(C, p)
    BY <1>2, <1>4 DEF Good, EndsWithWorks, ActiveAt
  <1> QED
    BY <1>1, <1>6, <1>7, <1>8 DEF Good

LEMMA CommitKeeps ==
  ASSUME WorksInv, SlowCommits
  PROVE  WorksInv'
  <1>1. PICK base, new, t, k :
          /\ Overlap(rows', base, t, k, rows, slow.on, slow.keys, new)
          /\ slow.hit = slow.on \cap t
          /\ slow.hit = {} => rows = base
    BY CommitOverlaps
  <1>2. raced = {} /\ raced' = slow.hit /\ slow' = NoTransaction
    BY DEF SlowCommits, WorksInv
  <1>3. /\ Typed(rows')
        /\ \A w \in Works : StatusCell(w) \notin raced' => OneHolder(rows', w)
        /\ \A p \in Plans : PlanCell(p) \notin raced' => EndsWithWorks(rows', p)
    BY <1>1, <1>2, OverlapSpares
  <1>4. ASSUME raced' = {} PROVE Good(rows')
    <2>1. rows = base /\ Good(new) /\ Merged(rows', base, new, rows)
      BY <1>1, <1>2, <1>4 DEF Overlap, Sound
    <2>2. DOMAIN rows' = Cells /\ \A c \in Cells : rows'[c] = new[c]
      BY <2>1 DEF Merged
    <2> QED
      BY <2>1, <2>2, GoodByCells
  <1> QED
    BY <1>2, <1>3, <1>4 DEF WorksInv

(* Nothing runs after a commit over a change that was not read.            *)
LEMMA NothingAfterARace ==
  ASSUME raced # {}, slow = NoTransaction
  PROVE  ~WorksNext
  <1>1. \A touched, new : ~RunAtOnce(touched, new)
    BY DEF RunAtOnce
  <1>2. \A touched, keys, new : ~ReadNow(touched, keys, new)
    BY DEF ReadNow
  <1>3. \A touched, keys, new : ~Handle(touched, keys, new)
    BY <1>1, <1>2 DEF Handle
  <1>4. \A p, w : ~AddItem(p, w) /\ ~RemoveDraftItem(p, w) /\ ~CompleteItem(p, w) /\ ~ExcludeItem(p, w)
    BY <1>3 DEF AddItem, RemoveDraftItem, CompleteItem, ExcludeItem
  <1>5. \A p, S : ~SavePlan(p) /\ ~CreateAndStart(p, S)
    BY <1>3 DEF SavePlan, CreateAndStart
  <1>6. \A m, w : /\ ~CreateBill(m) /\ ~CompleteBill(m) /\ ~DropBill(m)
                   /\ ~AddStop(m, w) /\ ~RemoveStop(m, w)
    BY <1>1, <1>3 DEF CreateBill, CompleteBill, DropBill, AddStop, RemoveStop
  <1>7. \A w, to : ~ChangeStatus(w, to) /\ ~EditStatus(w, to) /\ ~DeleteWork(w)
    BY <1>1 DEF ChangeStatus, EditStatus, DeleteWork
  <1>8. ~SlowCommits /\ ~SlowFails
    BY DEF SlowCommits, SlowFails
  <1> QED
    BY <1>4, <1>5, <1>6, <1>7, <1>8 DEF WorksNext

LEMMA WorksInductive ==
  ASSUME WorksInv, [WorksNext]_workVars
  PROVE  WorksInv'
  <1>1. CASE WorksNext
    <2>1. CASE raced = {}
      <3>1. Good(rows)
        BY <2>1 DEF WorksInv
      <3>2. SoundStep \/ SlowCommits \/ SlowFails
        BY <1>1, <3>1, EveryHandlerSound
      <3>3. CASE SlowFails
        BY <3>3 DEF SlowFails, WorksInv, Good
      <3> QED
        BY <3>2, <3>3, HandlerKeeps, CommitKeeps
    <2>2. CASE raced # {}
      <3>1. slow = NoTransaction
        BY <2>2 DEF WorksInv
      <3>2. FALSE
        BY <1>1, <2>2, <3>1, NothingAfterARace
      <3> QED
        BY <3>2
    <2> QED
      BY <2>1, <2>2
  <1>2. CASE UNCHANGED workVars
    BY <1>2 DEF workVars, WorksInv, SlowSound
  <1> QED
    BY <1>1, <1>2

(* A step returns and closes a work as a handler alone would, unless it is *)
(* the commit of a handler that was overtaken on that very work.           *)
LEMMA StepSpares ==
  ASSUME WorksInv, WorksNext, NEW w \in Works, StatusCell(w) \notin raced'
  PROVE  ReturnsFree(rows, rows', w) /\ KeepsClosed(rows, rows', w)
  <1>1. raced = {} /\ Good(rows)
    BY NothingAfterARace DEF WorksInv
  <1>2. InProgress \notin EarlyCodes(w)
    BY CodeFacts
  <1>3. CASE rows' = rows
    BY <1>2, <1>3 DEF ReturnsFree, KeepsClosed
  <1>4. CASE SlowCommits
    <2>1. PICK base, new, t, k :
            /\ Overlap(rows', base, t, k, rows, slow.on, slow.keys, new)
            /\ slow.hit = slow.on \cap t
      BY <1>4, CommitOverlaps
    <2>2. raced' = slow.hit
      BY <1>1, <1>4 DEF SlowCommits
    <2> QED
      BY <2>1, <2>2, OverlapStep
  <1>5. CASE SoundStep
    <2>1. PICK touched, keys, new :
            Sound(rows, touched \cup keys, keys, new) /\ Handle(touched, keys, new)
      BY <1>5 DEF SoundStep
    <2>2. CASE rows' = new
      BY <2>1, <2>2 DEF Sound
    <2> QED
      BY <1>3, <2>1, <2>2 DEF Handle, RunAtOnce, ReadNow
  <1> QED
    BY <1>1, <1>3, <1>4, <1>5, EveryHandlerSound DEF SlowFails

-----------------------------------------------------------------------------
(* Theorems *)

(* Whatever handlers run and overlap, the table has a sound past: it is in *)
(* order, or it was left by the commit of an overtaken handler, which      *)
(* spared every row that only one of the two touched.                      *)
THEOREM WorksInvariant == WorksSpec => []WorksInv
  <1>1. WorksInit => WorksInv
    BY WorksInitially
  <1>2. WorksInv /\ [WorksNext]_workVars => WorksInv'
    BY WorksInductive
  <1> QED
    BY <1>1, <1>2, PTL DEF WorksSpec

(* Every cell always holds a value of its column; in particular a status   *)
(* to return to is one of an open work.                                    *)
THEOREM WorksTypes == WorksSpec => []WorksTypeOK
  <1>1. WorksInv => WorksTypeOK
    <2> SUFFICES ASSUME WorksInv PROVE WorksTypeOK
      OBVIOUS
    <2>1. CASE slow = NoTransaction
      BY <2>1 DEF WorksInv, Typed, WorksTypeOK, NoTransaction
    <2>2. CASE SlowSound
      <3>1. PICK base, new, t : /\ Typed(new) /\ slow.hit = slow.on \cap t
                                /\ slow.write = Changes(base, new)
        BY <2>2 DEF SlowSound, Sound, Good
      <3>2. \A c \in DOMAIN slow.write : slow.write[c] \in CellType(c)
        BY <3>1 DEF Changes, Typed
      <3> QED
        BY <3>1, <3>2 DEF WorksInv, Typed, WorksTypeOK
    <2> QED
      BY <2>1, <2>2 DEF WorksInv
  <1> QED
    BY <1>1, WorksInvariant, PTL

(* A work is the open business of at most one open plan, unless two        *)
(* handlers overlapped on that work.                                       *)
THEOREM WorkInOnePlan == WorksSpec => []OneActivePlan
  <1>1. WorksInv => OneActivePlan
    BY DEF WorksInv, OneActivePlan, OneHolder, PlanHolds, OpenIn, ActiveAt, OpenPlan, ActiveIn,
           PlanStatus, PlanItem
  <1> QED
    BY <1>1, WorksInvariant, PTL

(* A started plan completes itself with its last work and never before it, *)
(* unless two handlers overlapped on the plan.                             *)
THEOREM PlanEnds == WorksSpec => []PlanEndsWithItsWorks
  <1>1. WorksInv => PlanEndsWithItsWorks
    BY DEF WorksInv, PlanEndsWithItsWorks, EndsWithWorks, ActiveAt, ActiveIn, PlanStatus, PlanItem
  <1> QED
    BY <1>1, WorksInvariant, PTL

(* A plan or a waybill that lets a work go returns it to its earlier       *)
(* status only when no other open plan or waybill still holds it.          *)
THEOREM HeldIsNotReturned == WorksSpec => HeldWorkIsNotReturned
  <1>1. WorksInv /\ [WorksNext]_workVars =>
          [\A w \in Works :
             (/\ Code(w) = InProgress /\ Code(w)' \in EarlyCodes(w)
              /\ ~OnlyStatusesChange /\ StatusCell(w) \notin raced')
             => ~Held(w)']_workVars
    <2> SUFFICES ASSUME WorksInv, WorksNext, NEW w \in Works,
                        Code(w) = InProgress, Code(w)' \in EarlyCodes(w),
                        ~OnlyStatusesChange, StatusCell(w) \notin raced'
                 PROVE  ~Held(w)'
      OBVIOUS
    <2>1. ReturnsFree(rows, rows', w)
      BY StepSpares
    <2>2. ~HeldIn(rows', w)
      BY <2>1 DEF ReturnsFree, Code, OnlyStatuses, OnlyStatusesChange
    <2> QED
      BY <2>2 DEF Held, HeldIn, PlanHolds, BillHolds, OpenIn, ActiveAt, OpenPlan, ActiveIn,
                  PlanStatus, PlanItem, BillOpen, HasStop
  <1> QED
    BY <1>1, WorksInvariant, PTL DEF WorksSpec, HeldWorkIsNotReturned

(* Nothing but an edit by hand reopens a closed work.                      *)
THEOREM ClosedStaysClosed == WorksSpec => ClosedWorkStaysClosed
  <1>1. WorksInv /\ [WorksNext]_workVars =>
          [\A w \in Works :
             (Code(w) \in ClosedCodes(w) /\ StatusCell(w) \notin raced' /\ ~OnlyStatusesChange)
             => Code(w)' = Code(w) \/ Code(w)' = DoneCode(w)]_workVars
    <2> SUFFICES ASSUME WorksInv, WorksNext, NEW w \in Works,
                        Code(w) \in ClosedCodes(w), StatusCell(w) \notin raced',
                        ~OnlyStatusesChange
                 PROVE  Code(w)' = Code(w) \/ Code(w)' = DoneCode(w)
      OBVIOUS
    <2>1. KeepsClosed(rows, rows', w)
      BY StepSpares
    <2> QED
      BY <2>1 DEF KeepsClosed, Code, OnlyStatuses, OnlyStatusesChange
  <1> QED
    BY <1>1, WorksInvariant, PTL DEF WorksSpec, ClosedWorkStaysClosed
=============================================================================
