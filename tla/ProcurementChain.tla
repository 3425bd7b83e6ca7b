--------------------------- MODULE ProcurementChain ---------------------------
(***************************************************************************)
(* Objects, projects, tenders and contracts, and the import of notices and *)
(* contracts of the state procurement site (EIS) into them.                *)
(*                                                                         *)
(* The tables are one record, "db", and each helper of the services is an  *)
(* operator from tables to tables, so that a handler is the composition    *)
(* the code makes of them, committed at once.  A handler that is refused   *)
(* rolls back and is no step.  Rows are numbered in the order in which     *)
(* they were created.  A run of the import commits card by card, may be    *)
(* killed at any time and may overlap with another: here a card is         *)
(* imported at any time and in any order.                                  *)
(*                                                                         *)
(* Statuses that no guard tells apart are one: "active" is also a draft    *)
(* project, "open" a draft or submitted tender, "lost" also a cancelled    *)
(* one, "busy" the four stages of a contract between active and completed, *)
(* "completed" also an archived object or project.  Objects are created    *)
(* beforehand and not deleted; a contract's number is that of some card.   *)
(***************************************************************************)
EXTENDS Naturals, FiniteSets

CONSTANTS Objects,        \* numbered in the order in which notices list them
          Orders,         \* notices of the site; each is of one contract
          MainObject,     \* the first object a notice is matched to, or None
          OtherObjects,   \* the other objects of its table
          PlaceObject,    \* the object its contract's place matches, or None
          MaxProjects, MaxTenders, MaxContracts,        \* bounds of the tables
          EditBudget,     \* handlers that users start (bound)
          Typed,          \* statuses that users enter (bound)
          Stages          \* what the site comes to say of a notice (bound)

None == 0

(* With room for what one more handler may add.                            *)
Projects == 1 .. MaxProjects + Cardinality(Objects)
Tenders == 1 .. MaxTenders + 1
Contracts == 1 .. MaxContracts + 1

ASSUME ChainAssumption ==
    /\ Objects \subseteq Nat \ {None} /\ IsFiniteSet(Objects)
    /\ Orders \cap {None} = {}
    /\ MainObject \in [Orders -> Objects \cup {None}]
    /\ OtherObjects \in [Orders -> SUBSET Objects]
    /\ PlaceObject \in [Orders -> Objects \cup {None}]
    /\ MaxProjects \in Nat /\ MaxTenders \in Nat /\ MaxContracts \in Nat
    /\ EditBudget \in Nat
    /\ Stages \in [Orders -> SUBSET {"cancelled", "won", "done", "broken"}]

VARIABLES db,        \* the tables
          notice,    \* what the site says of each order
          reopened,  \* objects of which a closed project was opened by a tender or contract
          edits      \* handlers left to users

chainVars == <<db, notice, reopened, edits>>

ObjectStatus == {"free", "in_project", "in_tender", "in_contract", "completed"}
OpenStatus == {"active", "in_tender", "in_contract"}
ClosedStatus == {"completed", "cancelled"}
ProjectStatus == OpenStatus \cup ClosedStatus
TenderStatus == {"open", "won", "lost"}
ContractStatus == {"draft", "active", "busy", "completed", "terminated"}
NoticeStatus == {"open", "cancelled", "won", "done", "broken"}

NoProject == [status |-> "none", object |-> None, live |-> FALSE]
NoTender == [status |-> "none", object |-> None, reg |-> None]
NoContract == [status |-> "none", project |-> None, tender |-> None,
               number |-> None, reg |-> None]

-----------------------------------------------------------------------------
(* Rows *)

Oldest(S) == IF S = {} THEN None ELSE CHOOSE x \in S : \A y \in S : x <= y

NextId(table) == Oldest({i \in DOMAIN table : table[i].status = "none"})

OpenProjects(d, o) ==
    {p \in Projects : d.project[p].object = o /\ d.project[p].live
                        /\ d.project[p].status \in OpenStatus}

(* _active_project: the oldest one that is neither deleted nor closed.     *)
(* The mutant takes a project in contract for a closed one.                *)
ActiveBeforeContract(d, o) ==
    Oldest({p \in OpenProjects(d, o) : d.project[p].status # "in_contract"})
ActiveProject(d, o) == Oldest(OpenProjects(d, o))

LinkedProjects(d, t) == {p \in Projects : <<t, p>> \in d.inTender}

(* _active_tender, whatever its status.                                    *)
ActiveTender(d, o, p) ==
    LET OfObject == {t \in Tenders : d.tender[t].status # "none" /\ d.tender[t].object = o}
    IN  IF OfObject # {} THEN Oldest(OfObject)
        ELSE Oldest({t \in Tenders : p \in LinkedProjects(d, t)})

LiveContract(d, c) == d.contract[c].status \in ContractStatus

ContractByNumber(d, n) ==
    Oldest({c \in Contracts : LiveContract(d, c) /\ d.contract[c].number = n})

SetObjects(d, S, status) ==
    [d EXCEPT !.object = [o \in Objects |-> IF o \in S THEN status ELSE @[o]]]

SetProjects(d, S, status) ==
    [d EXCEPT !.project = [p \in Projects |->
        IF p \in S THEN [@[p] EXCEPT !.status = status] ELSE @[p]]]

ObjectsOf(d, S) == {d.project[p].object : p \in S}

(* create_project: one more project of each of the objects S.              *)
AddProjects(d, S, status) ==
    LET Number(o) == NextId(d.project) + Cardinality({x \in S : x < o}) IN
    [d EXCEPT !.project = [p \in Projects |->
        IF \E o \in S : Number(o) = p
        THEN [status |-> status, object |-> CHOOSE o \in S : Number(o) = p, live |-> TRUE]
        ELSE @[p]]]

LinkTender(d, t, S) ==
    [d EXCEPT !.inTender = @ \cup ({t} \X S), !.leftTender = @ \ ({t} \X S)]

(* _apply_status_side_effects                                              *)
SideEffects(d, S, status) ==
    LET lost == status = "lost" IN
    SetObjects(SetProjects(d, S, IF lost THEN "active" ELSE "in_tender"),
               ObjectsOf(d, S), IF lost THEN "in_project" ELSE "in_tender")

AddTender(d, S, o, status) ==
    LET t == NextId(d.tender) IN
    SideEffects(LinkTender([d EXCEPT !.tender[t] = [status |-> status, object |-> o,
                                                   reg |-> None]], t, S), S, status)

(* _ensure_project_link, with the primary project filled when it is empty. *)
LinkProjects(d, c, S, primary) ==
    [d EXCEPT !.ofProject = @ \cup ({c} \X S),
              !.contract[c].project = IF @ = None THEN primary ELSE @]

(* _ensure_object_link.                                                    *)
LinkObjects(d, c, S) ==
    [d EXCEPT !.ofObject = @ \cup ({c} \X S), !.leftObject = @ \ ({c} \X S)]

(* ContractServiceLink.ensure_object: a link that was removed stays so.    *)
(* The mutant is LinkObjects, which restores it.                           *)
LinkNewObjects(d, c, S) ==
    LinkObjects(d, c, {o \in S : <<c, o>> \notin d.leftObject})

AddContract(d, number, status) ==
    [d EXCEPT !.contract[NextId(d.contract)] =
        [status |-> status, project |-> None, tender |-> None,
         number |-> number, reg |-> None]]

FillTender(d, c, t) ==
    [d EXCEPT !.contract[c].tender = IF @ = None THEN t ELSE @]

ChainInit ==
    /\ db = [object |-> [o \in Objects |-> "free"],
             project |-> [p \in Projects |-> NoProject],
             tender |-> [t \in Tenders |-> NoTender],
             inTender |-> {}, leftTender |-> {},
             contract |-> [c \in Contracts |-> NoContract],
             ofObject |-> {}, leftObject |-> {}, ofProject |-> {}]
    /\ notice = [n \in Orders |-> "open"]
    /\ reopened = {}
    /\ edits = EditBudget

Fits(d) ==
    /\ \A p \in Projects : d.project[p].status # "none" => p <= MaxProjects
    /\ \A t \in Tenders : d.tender[t].status # "none" => t <= MaxTenders
    /\ \A c \in Contracts : d.contract[c].status # "none" => c <= MaxContracts

(* A commit, within the bounds.                                            *)
Save(d) == Fits(d) /\ db' = d

Reopened(d, e) ==
    {d.project[p].object : p \in {q \in Projects :
        d.project[q].status \in ClosedStatus /\ e.project[q].status \in OpenStatus}}

SaveLinked(d) == Save(d) /\ reopened' = reopened \cup Reopened(db, d)

Edit == edits' = edits - 1 /\ UNCHANGED notice

UserSaves(d) == Edit /\ SaveLinked(d)

-----------------------------------------------------------------------------
(* Projects and objects *)

CreateProject(o, status) ==
    /\ OpenProjects(db, o) = {}
    /\ db.object[o] \notin {"in_tender", "completed"}
    /\ UserSaves(SetObjects(AddProjects(db, {o}, status), {o}, "in_project"))

(* The check compares with one open project of the object, whichever the   *)
(* query returns.                                                          *)
NoOtherOpen(p, o) == OpenProjects(db, o) = {} \/ p \in OpenProjects(db, o)

UpdateProject(p, o, status) ==
    LET old == db.project[p].object
        moved == [db EXCEPT !.project[p].status = status, !.project[p].object = o]
        freed == IF old # o /\ db.object[old] = "in_project"
                 THEN SetObjects(moved, {old}, "free") ELSE moved
    IN  /\ db.project[p].live
        /\ NoOtherOpen(p, o)
        /\ old # o => db.object[o] \notin {"in_tender", "completed"}
        /\ Edit
        /\ Save(IF db.object[o] = "free" THEN SetObjects(freed, {o}, "in_project") ELSE freed)
        /\ UNCHANGED reopened

DeleteProject(p) ==
    /\ db.project[p].live
    /\ UserSaves([db EXCEPT !.project[p].live = FALSE])

(* _ensure_chain_for_result: what the result of the works calls for.  It   *)
(* reads the rows it has made itself.                                      *)
WithProject(d, o) ==
    SetObjects(IF ActiveProject(d, o) = None THEN AddProjects(d, {o}, "active") ELSE d,
               {o}, "in_project")

WithTender(d, o) ==
    LET p == ActiveProject(d, o) IN
    SetObjects(IF ActiveTender(d, o, p) = None THEN AddTender(d, {p}, o, "open") ELSE d,
               {o}, "in_tender")

(* A new tender takes no project that is in a tender or contract already.  *)
TenderRefused(d, o) ==
    LET p == ActiveProject(d, o) IN
    ActiveTender(d, o, p) = None /\ d.project[p].status # "active"

(* create_draft_from_plan                                                  *)
WithContract(d, o, number) ==
    LET p == ActiveProject(d, o)
        found == ContractByNumber(d, number)
        c == IF found = None THEN NextId(d.contract) ELSE found
        row == IF found = None THEN AddContract(d, number, "draft") ELSE d
        linked == LinkProjects(LinkObjects(row, c, {o}), c, {p}, p)
    IN  SetProjects(SetObjects(FillTender(linked, c, ActiveTender(d, o, p)),
                               {o}, "in_contract"),
                    {p}, "in_contract")

(* The edit form of an object whose result was changed, or a row of the    *)
(* lighting plan: the form leaves the object "in_project" whatever the     *)
(* chain has made of it.                                                   *)
Replan(o, need, number, status, form) ==
    LET row == SetObjects(db, {o}, status)
        chain == WithProject(row, o)
        made == CASE need = "nothing" -> row
                  [] need = "project" -> chain
                  [] need = "tender" -> WithTender(chain, o)
                  [] need = "contract" -> WithContract(WithTender(chain, o), o, number)
                  [] need = "closed" -> row
        project == need # "nothing" /\ ActiveProject(made, o) # None
    IN  /\ need = "closed" => status = "completed"
        /\ ~form => status \in {"free", "completed"}
        /\ need \in {"tender", "contract"} => ~TenderRefused(chain, o)
        /\ UserSaves(IF form /\ project THEN SetObjects(made, {o}, "in_project") ELSE made)

Needs == {"nothing", "project", "tender", "contract", "closed"}

-----------------------------------------------------------------------------
(* Tenders, whose projects are chosen among those not deleted *)

CreateTender(S, o, status) ==
    /\ S # {} \/ o # None
    /\ \A p \in S : db.project[p].status \in {"active", "cancelled"}
    /\ UserSaves(AddTender(db, S, o, status))

(* _sync_project_links                                                     *)
Relinked(t, S) ==
    LET removed == LinkedProjects(db, t) \ S
        back == {p \in removed : db.project[p].status = "in_tender"}
        unlinked == [db EXCEPT !.inTender = @ \ ({t} \X removed),
                               !.leftTender = @ \cup ({t} \X removed)]
    IN  LinkTender(SetObjects(SetProjects(unlinked, back, "active"),
                              {o \in ObjectsOf(db, back) : db.object[o] = "in_tender"},
                              "in_project"), t, S)

(* The links follow the form unless the tender has been decided; only a    *)
(* draft is reopened with them.  The projects' statuses follow the form    *)
(* even if the links do not.                                               *)
UpdateTender(t, S, o, status) ==
    /\ db.tender[t].status # "none"
    /\ S # {} \/ o # None
    /\ \A p \in S : db.project[p].status \in {"active", "in_tender", "cancelled"}
    /\ \E sync \in BOOLEAN :
         LET d == IF sync THEN Relinked(t, S) ELSE db IN
         /\ db.tender[t].status = "open" => sync
         /\ db.tender[t].status # "open" /\ status # "open" => ~sync
         /\ UserSaves(SideEffects([d EXCEPT !.tender[t].status = status,
                                            !.tender[t].object = o], S, status))

-----------------------------------------------------------------------------
(* Contracts *)

NumberFree(n) == ContractByNumber(db, n) = None

CreateContract(n, o, status) ==
    LET c == NextId(db.contract) IN
    /\ NumberFree(n)
    /\ UserSaves(IF o = None THEN AddContract(db, n, status)
                 ELSE SetObjects(LinkObjects(AddContract(db, n, status), c, {o}),
                                 {o}, "in_contract"))

(* The index over the links refuses two projects of one object.            *)
CreateFromTender(t, n, status) ==
    LET c == NextId(db.contract)
        S == LinkedProjects(db, t)
        O == ObjectsOf(db, S)
        row == FillTender(AddContract(db, n, status), c, t)
    IN  /\ db.tender[t].status = "won"
        /\ ~ \E x \in Contracts : /\ LiveContract(db, x) /\ db.contract[x].tender = t
                                  /\ db.contract[x].status # "terminated"
        /\ NumberFree(n)
        /\ S # {} /\ Cardinality(O) = Cardinality(S)
        /\ \E first \in S :
             UserSaves(SetObjects(SetProjects(LinkObjects(LinkProjects(row, c, S, first), c, O),
                                              S, "in_contract"),
                                  O, "in_contract"))

UpdateContract(c, n, status) ==
    /\ LiveContract(db, c)
    /\ n = db.contract[c].number \/ NumberFree(n)
    /\ UserSaves([db EXCEPT !.contract[c].status = status, !.contract[c].number = n])

(* CONTRACT_TRANSITIONS                                                    *)
Allowed == [draft |-> {"active", "terminated"}, active |-> {"busy", "terminated"},
            busy |-> {"busy", "completed", "terminated"},
            completed |-> {}, terminated |-> {}]

(* Completion walks all links of the contract and of its tender, the       *)
(* deleted ones included.                                                  *)
Transition(c, status) ==
    LET t == db.contract[c].tender
        d == [db EXCEPT !.contract[c].status = status]
        O == {o \in Objects : <<c, o>> \in db.ofObject \cup db.leftObject}
        S == {p \in Projects : <<t, p>> \in db.inTender \cup db.leftTender}
    IN  /\ LiveContract(db, c)
        /\ status \in Allowed[db.contract[c].status]
        /\ UserSaves(IF status = "completed"
                     THEN SetProjects(SetObjects(d, O, "completed"), S, "completed") ELSE d)

LinkObject(c, o) ==
    LiveContract(db, c) /\ UserSaves(SetObjects(LinkObjects(db, c, {o}), {o}, "in_contract"))

UnlinkObject(c, o) ==
    /\ LiveContract(db, c) /\ <<c, o>> \in db.ofObject
    /\ UserSaves([db EXCEPT !.ofObject = @ \ {<<c, o>>}, !.leftObject = @ \cup {<<c, o>>}])

LinkProject(c, p) ==
    LiveContract(db, c) /\ db.project[p].live /\ UserSaves(LinkProjects(db, c, {p}, p))

(* The mutant leaves the primary project.                                  *)
PrimaryStays(c, p) == {db.contract[c].project}
NewPrimary(c, p) ==
    LET left == {q \in Projects \ {p} : <<c, q>> \in db.ofProject /\ db.project[q].live} IN
    IF db.contract[c].project # p THEN {db.contract[c].project}
    ELSE IF left # {} THEN left ELSE {None}

UnlinkProject(c, p) ==
    /\ LiveContract(db, c) /\ <<c, p>> \in db.ofProject
    /\ \E q \in NewPrimary(c, p) :
         UserSaves([db EXCEPT !.ofProject = @ \ {<<c, p>>}, !.contract[c].project = q])

ClearProject(c) ==
    LiveContract(db, c) /\ UserSaves([db EXCEPT !.contract[c].project = None])

DeleteContract(c) ==
    LiveContract(db, c) /\ UserSaves([db EXCEPT !.contract[c].status = "deleted"])

-----------------------------------------------------------------------------
(* The import of the site's cards (eis/services.py)                        *)

Later == [open |-> {"won", "cancelled"}, won |-> {"done", "broken"},
          cancelled |-> {}, done |-> {}, broken |-> {}]

Publish(n) ==
    /\ \E status \in Later[notice[n]] \cap Stages[n] : notice' = [notice EXCEPT ![n] = status]
    /\ UNCHANGED <<db, reopened, edits>>

Signed(n) == notice[n] \in {"won", "done", "broken"}

TenderStage(n) ==
    IF Signed(n) THEN "won" ELSE IF notice[n] = "cancelled" THEN "lost" ELSE "open"

(* map_contract_status.  The mutant stores the word of the site.           *)
StageAsIs(n) == notice[n]
ContractStage(n) ==
    CASE notice[n] = "done" -> "completed"
      [] notice[n] = "broken" -> "terminated"
      [] OTHER -> "active"

NewStage(n, current) ==
    IF current = "busy" /\ ContractStage(n) = "active" THEN "busy" ELSE ContractStage(n)

(* _ensure_project of each object.                                         *)
EnsureProjects(d, S) ==
    LET new == {o \in S : ActiveProject(d, o) = None} IN
    SetObjects(AddProjects(d, new, "active"),
               {o \in new : d.object[o] = "free"}, "in_project")

(* _find_contract: by the number of the register, then by its own.  The    *)
(* mutant is ContractByNumber.                                             *)
FindContract(d, n) ==
    LET registered == {c \in Contracts : LiveContract(d, c) /\ d.contract[c].reg = n} IN
    IF registered # {} THEN Oldest(registered) ELSE ContractByNumber(d, n)

UpsertContract(d, n) ==
    LET found == FindContract(d, n)
        c == IF found = None THEN NextId(d.contract) ELSE found
        row == IF found = None THEN AddContract(d, n, ContractStage(n))
               ELSE [d EXCEPT !.contract[c].status = NewStage(n, @)]
    IN  [row EXCEPT !.contract[c].reg = n]

LinkImported(d, c, S) == SetObjects(LinkNewObjects(d, c, S), S, "in_contract")

(* _sync_contract of a matched object                                      *)
SyncContract(d, n, o, t) ==
    LET ensured == EnsureProjects(d, {o})
        p == ActiveProject(ensured, o)
        tender == IF t # None THEN t ELSE ActiveTender(ensured, o, p)
        row == UpsertContract(ensured, n)
        c == FindContract(row, n)
        linked == LinkImported(LinkProjects(FillTender(row, c, tender), c, {p}, p), c, {o})
        done == SetProjects(linked, {p}, "in_contract")
    IN  IF tender = None THEN done ELSE [done EXCEPT !.tender[tender].status = "won"]

(* The tender of the notice, or the object's, unless it is of another      *)
(* notice.  The mutant does not look for the notice's own.                 *)
TenderWithoutNotice(d, n, o, p) ==
    LET other == ActiveTender(d, o, p) IN
    IF other # None /\ d.tender[other].reg = None THEN other ELSE None

ImportedTender(d, n, o, p) ==
    LET registered == {t \in Tenders : d.tender[t].reg = n}
        other == ActiveTender(d, o, p)
    IN  IF registered # {} THEN Oldest(registered)
        ELSE IF other # None /\ d.tender[other].reg = None THEN other ELSE None

(* _sync_order up to the contract: the projects of all matched objects,    *)
(* and the tender with the first one's project, the others added.          *)
WithNotice(d, n, t, p, others) ==
    LET found == [d EXCEPT !.tender[t].status = TenderStage(n)]
        tender == IF d.tender[t].status = "none"
                  THEN AddTender(d, {p}, MainObject[n], TenderStage(n))
                  ELSE SideEffects(found, LinkedProjects(d, t), TenderStage(n))
    IN  LinkTender([tender EXCEPT !.tender[t].reg = n], t, others)

OthersOf(n) == OtherObjects[n] \ {MainObject[n]}

EnsuredFor(d, n) == EnsureProjects(d, {MainObject[n]} \cup OthersOf(n))

(* A new tender is refused if its project is in another one already, and   *)
(* then the card changes nothing.                                          *)
OrderRefused(d, n) ==
    LET ensured == EnsuredFor(d, n)
        p == ActiveProject(ensured, MainObject[n])
    IN  /\ ImportedTender(ensured, n, MainObject[n], p) = None
        /\ ensured.project[p].status # "active"

(* What the first commit holds, and the second one, with the other objects *)
(* of a signed contract.                                                   *)
OrderCommitted(d, n) ==
    LET ensured == EnsuredFor(d, n)
        p == ActiveProject(ensured, MainObject[n])
        found == ImportedTender(ensured, n, MainObject[n], p)
        t == IF found = None THEN NextId(ensured.tender) ELSE found
        noted == WithNotice(ensured, n, t, p, {ActiveProject(ensured, o) : o \in OthersOf(n)})
    IN  IF Signed(n) THEN SyncContract(noted, n, MainObject[n], t) ELSE noted

OrderDone(d, n) ==
    LET first == OrderCommitted(d, n) IN
    IF Signed(n) THEN LinkImported(first, FindContract(first, n), OthersOf(n)) ELSE first

(* A card of the register, or of a notice that no object is matched to.    *)
ContractDone(d, n) ==
    IF PlaceObject[n] = None THEN UpsertContract(d, n)
    ELSE SyncContract(d, n, PlaceObject[n], None)

SaveImport(d) == SaveLinked(d) /\ UNCHANGED <<notice, edits>>

(* A run that dies between the two commits leaves the first.               *)
ImportOrder(n) ==
    /\ MainObject[n] # None /\ ~OrderRefused(db, n)
    /\ SaveImport(OrderDone(db, n)) \/ SaveImport(OrderCommitted(db, n))

ImportContract(n) == Signed(n) /\ SaveImport(ContractDone(db, n))

-----------------------------------------------------------------------------
ProjectStep ==
    \/ \E o \in Objects : \E status \in ProjectStatus \cap Typed : CreateProject(o, status)
    \/ \E p \in Projects : \/ \E o \in Objects, status \in ProjectStatus \cap Typed :
                               UpdateProject(p, o, status)
                          \/ DeleteProject(p)
    \/ \E o \in Objects, need \in Needs, n \in Orders, status \in ObjectStatus \cap Typed,
          form \in BOOLEAN : Replan(o, need, n, status, form)

TenderStep ==
    \E S \in SUBSET {p \in Projects : db.project[p].live}, o \in Objects \cup {None},
       status \in TenderStatus \cap Typed :
        CreateTender(S, o, status) \/ \E t \in Tenders : UpdateTender(t, S, o, status)

ContractStep ==
    \/ \E n \in Orders, status \in ContractStatus \cap Typed :
         \/ \E o \in Objects \cup {None} : CreateContract(n, o, status)
         \/ \E t \in Tenders : CreateFromTender(t, n, status)
         \/ \E c \in Contracts : UpdateContract(c, n, status)
    \/ \E c \in Contracts :
         \/ \E status \in ContractStatus : Transition(c, status)
         \/ \E o \in Objects : LinkObject(c, o) \/ UnlinkObject(c, o)
         \/ \E p \in Projects : LinkProject(c, p) \/ UnlinkProject(c, p)
         \/ ClearProject(c) \/ DeleteContract(c)

ImportStep == \E n \in Orders : Publish(n) \/ ImportOrder(n) \/ ImportContract(n)

UserStep == edits > 0 /\ (ProjectStep \/ TenderStep \/ ContractStep)

ChainNext == UserStep \/ ImportStep

ChainSpec == ChainInit /\ [][ChainNext]_chainVars

-----------------------------------------------------------------------------
ChainTypeOK ==
    /\ db.object \in [Objects -> ObjectStatus]
    /\ db.project \in [Projects -> [status : ProjectStatus, object : Objects, live : BOOLEAN]
                                     \cup {NoProject}]
    /\ db.tender \in [Tenders -> [status : TenderStatus, object : Objects \cup {None},
                                  reg : Orders \cup {None}] \cup {NoTender}]
    /\ db.inTender \cup db.leftTender \subseteq Tenders \X Projects
    /\ db.contract \in [Contracts -> [status : ContractStatus \cup {"deleted"},
                                      project : Projects \cup {None},
                                      tender : Tenders \cup {None},
                                      number : Orders, reg : Orders \cup {None}]
                                     \cup {NoContract}]
    /\ db.ofObject \cup db.leftObject \subseteq Contracts \X Objects
    /\ db.ofProject \subseteq Contracts \X Projects
    /\ notice \in [Orders -> NoticeStatus]
    /\ reopened \subseteq Objects /\ edits \in 0..EditBudget

(* The old field with a contract's primary project never disagrees with    *)
(* the links that replaced it, whoever adds, removes or imports them.      *)
PrimaryIsLinked ==
    \A c \in Contracts :
        db.contract[c].project # None => <<c, db.contract[c].project>> \in db.ofProject

(* Users, the plan and the import never make a second open project of an   *)
(* object, unless a tender has reopened a closed one.                      *)
OneOpenProject ==
    \A o \in Objects \ reopened : Cardinality(OpenProjects(db, o)) <= 1

(* A card never becomes two tenders or two live contracts, whatever users  *)
(* renumber, delete or make beforehand.                                    *)
SameRow(S, table, field) ==
    \A x, y \in S : table[x][field] # None /\ table[x][field] = table[y][field] => x = y

LiveContracts(d) == {c \in Contracts : LiveContract(d, c)}

OneRowPerCard ==
    /\ SameRow(Tenders, db.tender, "reg")
    /\ SameRow(LiveContracts(db), db.contract, "reg")
    /\ SameRow(LiveContracts(db), db.contract, "number")

(* docs/ARCHITECTURE.md: the import adds and completes.  It takes back no  *)
(* link, does not put back an object that a user took out of a contract,   *)
(* moves no contract to another project, tender or number, and does not    *)
(* undo the stages of the works.                                           *)
FillsOnly ==
    /\ \A links \in {"inTender", "ofObject", "leftObject", "ofProject"} :
         db[links] \subseteq db'[links]
    /\ \A c \in Contracts :
         LET old == db.contract[c] new == db.contract'[c] IN
         /\ \A f \in {"project", "tender", "number"} : old[f] # None => new[f] = old[f]
         /\ old.status = "busy" => new.status \in {"busy", "completed", "terminated"}

ImportFillsOnly == [][UNCHANGED <<notice, edits>> => FillsOnly]_chainVars

(* A card that is imported again makes no rows and no links, even if       *)
(* another one was imported in between, unless that import has reopened a  *)
(* project or taken over a contract that a user gave its number.           *)
Rows(d) == <<NextId(d.project), NextId(d.tender), NextId(d.contract),
             d.inTender, d.ofObject, d.ofProject>>

Cards == {"order", "contract"} \X Orders

CardRefused(d, card) ==
    IF card[1] = "order" THEN MainObject[card[2]] = None \/ OrderRefused(d, card[2])
    ELSE ~Signed(card[2])

CardDone(d, card) ==
    IF CardRefused(d, card) THEN d
    ELSE IF card[1] = "order" THEN OrderDone(d, card[2]) ELSE ContractDone(d, card[2])

Disturbs(d, e) ==
    \/ Reopened(d, e) # {}
    \/ \E c \in Contracts : d.contract[c].reg \notin {None, e.contract[c].reg}

Undisturbed(d, e) == Fits(e) /\ ~Disturbs(d, e)

NoNewRows(card, d, e) == Undisturbed(d, e) => Rows(CardDone(e, card)) = Rows(e)

RepeatsAfter(card, d, e) ==
    Undisturbed(d, e) => \A other \in Cards : NoNewRows(card, e, CardDone(e, other))

ImportRepeats ==
    \A card \in {k \in Cards : ~CardRefused(db, k)} :
        RepeatsAfter(card, db, CardDone(db, card))

(* The same, once something has happened: what runs check, in which the    *)
(* first state of the tables is the state of many others.                  *)
SiteImportRepeats == ChainInit \/ ImportRepeats
=============================================================================
