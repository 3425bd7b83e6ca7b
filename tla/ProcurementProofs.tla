--------------------------- MODULE ProcurementProofs ---------------------------
(***************************************************************************)
(* Proofs about the chain and the import of cards, for any objects,        *)
(* notices and bounds: the primary project of a contract is linked to it,  *)
(* a card has one row, the import only fills, an object has one open       *)
(* project, the tables have their types, and a card that is imported again *)
(* changes nothing.                                                        *)
(*                                                                         *)
(* A handler is a composition of operators on the tables.  There is a      *)
(* lemma for each operator, saying what it keeps of tables d, and an       *)
(* action is the composition of the lemmas.                                *)
(***************************************************************************)
EXTENDS ProcurementChain, TLAPS, WellFoundedInduction, FiniteSetTheorems

Tables == {"object", "project", "tender", "inTender", "leftTender",
           "contract", "ofObject", "leftObject", "ofProject"}

Formed(d) ==
    /\ DOMAIN d = Tables
    /\ DOMAIN d.tender = Tenders
    /\ \A t \in Tenders : DOMAIN d.tender[t] = {"status", "object", "reg"}
    /\ DOMAIN d.contract = Contracts
    /\ \A c \in Contracts :
         DOMAIN d.contract[c] = {"status", "project", "tender", "number", "reg"}

Linked(d) ==
    \A c \in Contracts :
        d.contract[c].project # None => <<c, d.contract[c].project>> \in d.ofProject

Unique(d) ==
    /\ SameRow(Tenders, d.tender, "reg")
    /\ SameRow(LiveContracts(d), d.contract, "reg")
    /\ SameRow(LiveContracts(d), d.contract, "number")

(* A row that has not been made is empty.                                  *)
Blank(d) ==
    \A c \in Contracts :
        d.contract[c].status = "none" =>
            /\ d.contract[c].project = None /\ d.contract[c].tender = None
            /\ d.contract[c].number = None

Sound(d) == Formed(d) /\ Linked(d) /\ Unique(d) /\ Blank(d)

(* What the import may do to the tables.                                   *)
Fills(d, e) ==
    /\ d.inTender \subseteq e.inTender /\ d.ofObject \subseteq e.ofObject
    /\ d.leftObject \subseteq e.leftObject /\ d.ofProject \subseteq e.ofProject
    /\ \A c \in Contracts :
         /\ d.contract[c].project # None => e.contract[c].project = d.contract[c].project
         /\ d.contract[c].tender # None => e.contract[c].tender = d.contract[c].tender
         /\ d.contract[c].number # None => e.contract[c].number = d.contract[c].number
         /\ d.contract[c].status = "busy" =>
              e.contract[c].status \in {"busy", "completed", "terminated"}

(* Only objects, projects and their places in tenders change.              *)
Apart(d, e) ==
    /\ Formed(e)
    /\ e.contract = d.contract /\ e.ofProject = d.ofProject
    /\ e.ofObject = d.ofObject /\ e.leftObject = d.leftObject

(* ... and no tender gets a number.                                        *)
Beside(d, e) ==
    /\ Apart(d, e)
    /\ \A t \in Tenders : e.tender[t].reg \in {d.tender[t].reg, None}

LEMMA Constants == Contracts \subseteq Nat \ {None} /\ Tenders \subseteq Nat \ {None}
                   /\ Projects \subseteq Nat \ {None}
  BY DEF Contracts, Tenders, Projects, None

(* The oldest row of a set is one of it.                                   *)
LEMMA LeastOf ==
    ASSUME NEW S, S \subseteq Nat, S # {}
    PROVE  \E x \in S : \A y \in S : x <= y
<1> DEFINE R == {ss \in Nat \X Nat : ss[1] < ss[2]}
<1>1. IsWellFoundedOn(R, Nat)
  BY NatLessThanWellFounded, Zenon DEF OpToRel
<1>2. PICK x \in S : \A y \in S : ~ (<<y, x>> \in R)
  BY <1>1, WFMin, Zenon
<1>3. ASSUME NEW y \in S PROVE x <= y
  <2>1. <<y, x>> \in Nat \X Nat
    OBVIOUS
  <2>2. <<y, x>>[1] = y /\ <<y, x>>[2] = x
    OBVIOUS
  <2>3. y < x => <<y, x>> \in R
    BY <2>1, <2>2, Zenon
  <2> QED BY <1>2, <2>3
<1> QED BY <1>3

LEMMA OldestIsMember ==
    ASSUME NEW S, S \subseteq Nat, S # {}
    PROVE  Oldest(S) \in S
  BY LeastOf DEF Oldest

LEMMA SetObjectsBeside ==
    ASSUME NEW d, Formed(d), NEW S, NEW st
    PROVE  Beside(d, SetObjects(d, S, st)) /\ SetObjects(d, S, st).inTender = d.inTender
  BY DEF Formed, Tables, Beside, Apart, SetObjects

LEMMA SetProjectsBeside ==
    ASSUME NEW d, Formed(d), NEW S, NEW st
    PROVE  Beside(d, SetProjects(d, S, st)) /\ SetProjects(d, S, st).inTender = d.inTender
  BY DEF Formed, Tables, Beside, Apart, SetProjects

LEMMA AddProjectsBeside ==
    ASSUME NEW d, Formed(d), NEW S, NEW st
    PROVE  Beside(d, AddProjects(d, S, st)) /\ AddProjects(d, S, st).inTender = d.inTender
  BY DEF Formed, Tables, Beside, Apart, AddProjects

LEMMA LinkTenderBeside ==
    ASSUME NEW d, Formed(d), NEW t, NEW S
    PROVE  Beside(d, LinkTender(d, t, S)) /\ d.inTender \subseteq LinkTender(d, t, S).inTender
  BY DEF Formed, Tables, Beside, Apart, LinkTender

LEMMA TenderFieldsBeside ==
    ASSUME NEW d, Formed(d), NEW t, NEW st, NEW o
    PROVE  /\ Beside(d, [d EXCEPT !.tender[t].status = st])
           /\ Beside(d, [d EXCEPT !.tender[t].status = st, !.tender[t].object = o])
           /\ Beside(d, [d EXCEPT !.tender[t] = [status |-> st, object |-> o, reg |-> None]])
  BY DEF Formed, Tables, Beside, Apart

LEMMA BesideTrans ==
    ASSUME NEW d, NEW e, NEW f, Beside(d, e), Beside(e, f)
    PROVE  Beside(d, f)
  BY DEF Beside, Apart

LEMMA BesideSound ==
    ASSUME NEW d, NEW e, Sound(d), Beside(d, e)
    PROVE  Sound(e)
<1>1. LiveContracts(e) = LiveContracts(d)
  BY DEF Beside, Apart, LiveContracts, LiveContract
<1>2. SameRow(Tenders, e.tender, "reg")
  BY DEF Sound, Unique, SameRow, Beside, Apart, Formed
<1>3. Unique(e)
  BY <1>1, <1>2 DEF Sound, Unique, Beside, Apart
<1>4. Formed(e) /\ Linked(e) /\ Blank(e)
  BY DEF Sound, Beside, Apart, Linked, Blank
<1> QED BY <1>3, <1>4 DEF Sound

LEMMA FillsTrans ==
    ASSUME NEW d, NEW e, NEW f, Fills(d, e), Fills(e, f),
           \A c \in Contracts : e.contract[c].status = "busy" \/ d.contract[c].status # "busy"
              \/ f.contract[c].status = e.contract[c].status
    PROVE  Fills(d, f)
  BY DEF Fills

LEMMA ApartFills ==
    ASSUME NEW d, NEW e, Apart(d, e), d.inTender \subseteq e.inTender
    PROVE  Fills(d, e)
  BY DEF Apart, Fills

LEMMA SideEffectsBeside ==
    ASSUME NEW d, Formed(d), NEW S, NEW st
    PROVE  Beside(d, SideEffects(d, S, st)) /\ SideEffects(d, S, st).inTender = d.inTender
<1> DEFINE e == SetProjects(d, S, IF st = "lost" THEN "active" ELSE "in_tender")
<1> DEFINE f == SetObjects(e, ObjectsOf(d, S), IF st = "lost" THEN "in_project" ELSE "in_tender")
<1>1. Beside(d, e) /\ e.inTender = d.inTender
  BY SetProjectsBeside
<1>2. Formed(e)
  BY <1>1 DEF Beside, Apart
<1> HIDE DEF e
<1>3. Beside(e, f) /\ f.inTender = e.inTender
  BY <1>2, SetObjectsBeside
<1>4. Beside(d, f)
  BY <1>1, <1>3, BesideTrans
<1> QED BY <1>1, <1>3, <1>4 DEF SideEffects, e

LEMMA AddTenderBeside ==
    ASSUME NEW d, Formed(d), NEW S, NEW o, NEW st
    PROVE  Beside(d, AddTender(d, S, o, st)) /\ d.inTender \subseteq AddTender(d, S, o, st).inTender
<1> DEFINE t == NextId(d.tender)
<1> DEFINE e == [d EXCEPT !.tender[t] = [status |-> st, object |-> o, reg |-> None]]
<1> DEFINE f == LinkTender(e, t, S)
<1>1. Beside(d, e) /\ e.inTender = d.inTender
  <2>1. Beside(d, e)
    BY TenderFieldsBeside
  <2>2. e.inTender = d.inTender
    BY DEF Formed, Tables
  <2> QED BY <2>1, <2>2
<1>2. Formed(e)
  BY <1>1 DEF Beside, Apart
<1> HIDE DEF e
<1>3. Beside(e, f) /\ e.inTender \subseteq f.inTender
  BY <1>2, LinkTenderBeside
<1>4. Formed(f)
  BY <1>3 DEF Beside, Apart
<1> HIDE DEF f
<1>5. Beside(f, SideEffects(f, S, st)) /\ SideEffects(f, S, st).inTender = f.inTender
  BY <1>4, SideEffectsBeside
<1>6. Beside(d, SideEffects(f, S, st))
  BY <1>1, <1>3, <1>5, BesideTrans
<1>7. AddTender(d, S, o, st) = SideEffects(f, S, st)
  BY DEF AddTender, e, f
<1> QED BY <1>1, <1>3, <1>5, <1>6, <1>7

-----------------------------------------------------------------------------
(* Operators on contracts                                                  *)

(* Contracts keep their statuses and numbers, and tenders theirs.          *)
Keeps(d, e) ==
    /\ Formed(e)
    /\ \A t \in Tenders : e.tender[t].reg = d.tender[t].reg
    /\ \A c \in Contracts : /\ e.contract[c].status = d.contract[c].status
                            /\ e.contract[c].number = d.contract[c].number
                            /\ e.contract[c].reg = d.contract[c].reg

LEMMA KeepsUnique ==
    ASSUME NEW d, NEW e, Formed(d), Unique(d), Keeps(d, e)
    PROVE  Unique(e)
<1>1. LiveContracts(e) = LiveContracts(d) /\ LiveContracts(d) \subseteq Contracts
  BY DEF Keeps, LiveContracts, LiveContract
<1>2. SameRow(Tenders, e.tender, "reg")
  BY DEF Unique, SameRow, Keeps, Formed
<1>3. \A c \in Contracts : /\ e.contract[c]["reg"] = d.contract[c]["reg"]
                          /\ e.contract[c]["number"] = d.contract[c]["number"]
  BY DEF Keeps, Formed
<1>4. SameRow(LiveContracts(e), e.contract, "reg")
      /\ SameRow(LiveContracts(e), e.contract, "number")
  BY <1>1, <1>3 DEF Unique, SameRow
<1> QED BY <1>2, <1>4 DEF Unique

LEMMA LinkObjectsSound ==
    ASSUME NEW d, Sound(d), NEW c, NEW S
    PROVE  Sound(LinkObjects(d, c, S)) /\ Keeps(d, LinkObjects(d, c, S))
<1> DEFINE e == LinkObjects(d, c, S)
<1>1. /\ Formed(e) /\ e.tender = d.tender /\ e.contract = d.contract
      /\ e.ofProject = d.ofProject
  BY DEF Sound, Formed, Tables, LinkObjects
<1>2. Keeps(d, e)
  BY <1>1 DEF Keeps
<1> QED BY <1>1, <1>2, KeepsUnique DEF Sound, Linked, Blank

LEMMA LinkNewObjectsFills ==
    ASSUME NEW d, Sound(d), NEW c, NEW S
    PROVE  /\ Sound(LinkNewObjects(d, c, S)) /\ Fills(d, LinkNewObjects(d, c, S))
           /\ Keeps(d, LinkNewObjects(d, c, S))
<1> DEFINE T == {o \in S : <<c, o>> \notin d.leftObject}
           e == LinkNewObjects(d, c, S)
<1>1. e = LinkObjects(d, c, T)
  BY DEF LinkNewObjects
<1>2. Sound(e) /\ Keeps(d, e)
  BY <1>1, LinkObjectsSound
<1>3. /\ e.ofObject = d.ofObject \cup ({c} \X T) /\ e.leftObject = d.leftObject \ ({c} \X T)
      /\ e.inTender = d.inTender /\ e.ofProject = d.ofProject /\ e.contract = d.contract
  BY <1>1 DEF Sound, Formed, Tables, LinkObjects
<1>4. d.leftObject \cap ({c} \X T) = {}
  OBVIOUS
<1> QED BY <1>2, <1>3, <1>4 DEF Fills

LEMMA LinkProjectsSound ==
    ASSUME NEW d, Sound(d), NEW c, NEW S, NEW p \in S,
           c \in Contracts => d.contract[c].status # "none"
    PROVE  /\ Sound(LinkProjects(d, c, S, p)) /\ Fills(d, LinkProjects(d, c, S, p))
           /\ Keeps(d, LinkProjects(d, c, S, p))
<1> DEFINE e == LinkProjects(d, c, S, p)
<1>1. /\ DOMAIN e = Tables /\ e.tender = d.tender /\ e.inTender = d.inTender
      /\ e.ofObject = d.ofObject /\ e.leftObject = d.leftObject
      /\ e.ofProject = d.ofProject \cup ({c} \X S)
  BY DEF Sound, Formed, Tables, LinkProjects
<1>2. /\ DOMAIN e.contract = Contracts
      /\ \A x \in Contracts : x # c => e.contract[x] = d.contract[x]
      /\ c \in Contracts => e.contract[c] = [d.contract[c] EXCEPT !.project =
                                                  IF @ = None THEN p ELSE @]
  BY DEF Sound, Formed, Tables, LinkProjects
<1>3. c \in Contracts =>
        /\ DOMAIN e.contract[c] = {"status", "project", "tender", "number", "reg"}
        /\ e.contract[c].status = d.contract[c].status
        /\ e.contract[c].tender = d.contract[c].tender
        /\ e.contract[c].number = d.contract[c].number
        /\ e.contract[c].reg = d.contract[c].reg
        /\ e.contract[c].project = IF d.contract[c].project = None THEN p
                                   ELSE d.contract[c].project
  BY <1>2 DEF Sound, Formed
<1>4. Formed(e)
  BY <1>1, <1>2, <1>3 DEF Sound, Formed
<1>5. Keeps(d, e)
  BY <1>1, <1>2, <1>3, <1>4 DEF Keeps
<1>6. Linked(e)
  BY <1>1, <1>2, <1>3 DEF Sound, Linked
<1>7. Blank(e)
  BY <1>2, <1>3 DEF Sound, Blank
<1>8. Fills(d, e)
  BY <1>1, <1>2, <1>3 DEF Fills
<1> QED BY <1>4, <1>5, <1>6, <1>7, <1>8, KeepsUnique DEF Sound

LEMMA FillTenderSound ==
    ASSUME NEW d, Sound(d), NEW c, NEW t,
           c \in Contracts => d.contract[c].status # "none"
    PROVE  /\ Sound(FillTender(d, c, t)) /\ Fills(d, FillTender(d, c, t))
           /\ Keeps(d, FillTender(d, c, t))
<1> DEFINE e == FillTender(d, c, t)
<1>1. /\ DOMAIN e = Tables /\ e.tender = d.tender /\ e.inTender = d.inTender
      /\ e.ofObject = d.ofObject /\ e.leftObject = d.leftObject /\ e.ofProject = d.ofProject
  BY DEF Sound, Formed, Tables, FillTender
<1>2. /\ DOMAIN e.contract = Contracts
      /\ \A x \in Contracts : x # c => e.contract[x] = d.contract[x]
      /\ c \in Contracts => e.contract[c] = [d.contract[c] EXCEPT !.tender =
                                                  IF @ = None THEN t ELSE @]
  BY DEF Sound, Formed, Tables, FillTender
<1>3. c \in Contracts =>
        /\ DOMAIN e.contract[c] = {"status", "project", "tender", "number", "reg"}
        /\ e.contract[c].status = d.contract[c].status
        /\ e.contract[c].project = d.contract[c].project
        /\ e.contract[c].number = d.contract[c].number
        /\ e.contract[c].reg = d.contract[c].reg
        /\ e.contract[c].tender = IF d.contract[c].tender = None THEN t
                                  ELSE d.contract[c].tender
  BY <1>2 DEF Sound, Formed
<1>4. Formed(e)
  BY <1>1, <1>2, <1>3 DEF Sound, Formed
<1>5. Keeps(d, e)
  BY <1>1, <1>2, <1>3, <1>4 DEF Keeps
<1>6. Linked(e) /\ Blank(e)
  BY <1>1, <1>2, <1>3 DEF Sound, Linked, Blank
<1>7. Fills(d, e)
  BY <1>1, <1>2, <1>3 DEF Fills
<1> QED BY <1>4, <1>5, <1>6, <1>7, KeepsUnique DEF Sound

LEMMA NumberFreeMeans ==
    ASSUME NEW d, NEW n, ContractByNumber(d, n) = None
    PROVE  \A c \in LiveContracts(d) : d.contract[c].number # n
<1> DEFINE S == {c \in Contracts : LiveContract(d, c) /\ d.contract[c].number = n}
<1>1. S # {} => Oldest(S) \in S
  BY Constants, OldestIsMember
<1>2. None \notin S
  BY Constants
<1>3. S = {}
  BY <1>1, <1>2 DEF ContractByNumber
<1> QED BY <1>3 DEF LiveContracts

(* A row is made in an empty place, if there is one.                       *)
LEMMA AddContractSound ==
    ASSUME NEW d, Sound(d), NEW n, NEW st \in ContractStatus,
           \A x \in LiveContracts(d) : d.contract[x].number # n
    PROVE  LET e == AddContract(d, n, st)
               c == NextId(d.contract)
           IN  /\ Sound(e) /\ Fills(d, e)
               /\ c \in Contracts =>
                    /\ d.contract[c].status = "none" /\ e.contract[c].status = st
                    /\ e.contract[c].number = n /\ e.contract[c].reg = None
               /\ \A x \in Contracts : x # c => e.contract[x] = d.contract[x]
<1> DEFINE e == AddContract(d, n, st)
           c == NextId(d.contract)
           Made == [status |-> st, project |-> None, tender |-> None, number |-> n, reg |-> None]
           Empty == {i \in Contracts : d.contract[i].status = "none"}
<1>1. c \in Contracts => d.contract[c].status = "none"
  <2>1. c = Oldest(Empty)
    BY DEF Sound, Formed, NextId
  <2>2. Empty # {} => c \in Empty
    BY <2>1, Constants, OldestIsMember
  <2>3. Empty = {} => c = None
    BY <2>1 DEF Oldest
  <2> QED BY <2>2, <2>3, Constants
<1>3. /\ DOMAIN e = Tables /\ e.tender = d.tender /\ e.inTender = d.inTender
      /\ e.ofObject = d.ofObject /\ e.leftObject = d.leftObject /\ e.ofProject = d.ofProject
      /\ DOMAIN e.contract = Contracts
      /\ \A x \in Contracts : x # c => e.contract[x] = d.contract[x]
      /\ c \in Contracts => e.contract[c] = Made
  BY DEF Sound, Formed, Tables, AddContract
<1> HIDE DEF e, c
<1>4. Formed(e)
  BY <1>3 DEF Sound, Formed
<1>5. Linked(e) /\ Blank(e)
  <2>1. st # "none"
    BY DEF ContractStatus
  <2> QED BY <2>1, <1>3 DEF Sound, Linked, Blank
<1>6. Fills(d, e)
  BY <1>1, <1>3 DEF Fills, Sound, Blank
<1>7. \A x \in LiveContracts(e) : x # c => x \in LiveContracts(d)
  BY <1>3 DEF LiveContracts, LiveContract
<1>8. SameRow(LiveContracts(e), e.contract, "number")
  <2>1. \A x \in LiveContracts(e) : x # c => e.contract[x]["number"] = d.contract[x]["number"]
    BY <1>3 DEF LiveContracts
  <2>2. \A x \in LiveContracts(e) : x # c => e.contract[x]["number"] # n
    BY <1>7, <2>1
  <2>3. c \in LiveContracts(e) => e.contract[c]["number"] = n
    BY <1>3 DEF LiveContracts
  <2> QED BY <1>7, <2>1, <2>2, <2>3 DEF Sound, Unique, SameRow
<1>9. SameRow(LiveContracts(e), e.contract, "reg")
  <2>1. \A x \in LiveContracts(e) : x # c => e.contract[x]["reg"] = d.contract[x]["reg"]
    BY <1>3 DEF LiveContracts
  <2>2. c \in LiveContracts(e) => e.contract[c]["reg"] = None
    BY <1>3 DEF LiveContracts
  <2> QED BY <1>7, <2>1, <2>2 DEF Sound, Unique, SameRow
<1>10. Unique(e)
  BY <1>3, <1>8, <1>9 DEF Sound, Unique
<1>11. c \in Contracts => /\ e.contract[c].status = st
                          /\ e.contract[c].number = n /\ e.contract[c].reg = None
  BY <1>3
<1> QED BY <1>1, <1>3, <1>4, <1>5, <1>6, <1>10, <1>11 DEF Sound, e, c

Registered(d, c, n) == [d EXCEPT !.contract[c].reg = n]

LEMMA RegisterSound ==
    ASSUME NEW d, Sound(d), NEW c, NEW n,
           \A x \in LiveContracts(d) : d.contract[x].reg = n => x = c
    PROVE  LET e == Registered(d, c, n) IN
           /\ Sound(e) /\ Fills(d, e)
           /\ \A x \in Contracts : e.contract[x].status = d.contract[x].status
<1> DEFINE e == Registered(d, c, n)
<1>1. /\ DOMAIN e = Tables /\ e.tender = d.tender /\ e.inTender = d.inTender
      /\ e.ofObject = d.ofObject /\ e.leftObject = d.leftObject /\ e.ofProject = d.ofProject
      /\ DOMAIN e.contract = Contracts
      /\ \A x \in Contracts : x # c => e.contract[x] = d.contract[x]
      /\ c \in Contracts => e.contract[c] = [d.contract[c] EXCEPT !.reg = n]
  BY DEF Sound, Formed, Tables, Registered
<1> HIDE DEF e
<1>2. c \in Contracts =>
        /\ DOMAIN e.contract[c] = {"status", "project", "tender", "number", "reg"}
        /\ e.contract[c].status = d.contract[c].status
        /\ e.contract[c].project = d.contract[c].project
        /\ e.contract[c].tender = d.contract[c].tender
        /\ e.contract[c].number = d.contract[c].number
        /\ e.contract[c].reg = n
  BY <1>1 DEF Sound, Formed
<1>3. Formed(e)
  BY <1>1, <1>2 DEF Sound, Formed
<1>4. Linked(e) /\ Blank(e) /\ Fills(d, e)
  BY <1>1, <1>2 DEF Sound, Linked, Blank, Fills
<1>5. \A x \in Contracts : e.contract[x].status = d.contract[x].status
  BY <1>1, <1>2
<1>6. LiveContracts(e) = LiveContracts(d) /\ LiveContracts(d) \subseteq Contracts
  BY <1>5 DEF LiveContracts, LiveContract
<1>7. \A x \in Contracts : e.contract[x]["number"] = d.contract[x]["number"]
  BY <1>1, <1>2
<1>8. \A x \in Contracts : x # c => e.contract[x]["reg"] = d.contract[x]["reg"]
  BY <1>1
<1>9. Unique(e)
  <2>1. SameRow(LiveContracts(e), e.contract, "number")
    BY <1>6, <1>7 DEF Sound, Unique, SameRow
  <2>2. SameRow(LiveContracts(e), e.contract, "reg")
    BY <1>2, <1>6, <1>8 DEF Sound, Unique, SameRow
  <2> QED BY <1>1, <2>1, <2>2 DEF Sound, Unique
<1> QED BY <1>3, <1>4, <1>5, <1>9 DEF Sound, e

WithStage(d, c, st) == [d EXCEPT !.contract[c].status = st]

LEMMA StatusSound ==
    ASSUME NEW d, Sound(d), NEW c \in LiveContracts(d), NEW st \in ContractStatus \cup {"deleted"}
    PROVE  LET e == WithStage(d, c, st) IN
           /\ Sound(e)
           /\ (d.contract[c].status = "busy" => st \in {"busy", "completed", "terminated"})
                => Fills(d, e)
           /\ LiveContracts(e) \subseteq LiveContracts(d)
           /\ \A x \in Contracts : e.contract[x].reg = d.contract[x].reg
<1> DEFINE e == WithStage(d, c, st)
<1>0. c \in Contracts /\ d.contract[c].status \in ContractStatus
  BY DEF LiveContracts, LiveContract
<1>1. /\ DOMAIN e = Tables /\ e.tender = d.tender /\ e.inTender = d.inTender
      /\ e.ofObject = d.ofObject /\ e.leftObject = d.leftObject /\ e.ofProject = d.ofProject
      /\ DOMAIN e.contract = Contracts
      /\ \A x \in Contracts : x # c => e.contract[x] = d.contract[x]
      /\ e.contract[c] = [d.contract[c] EXCEPT !.status = st]
  BY <1>0 DEF Sound, Formed, Tables, WithStage
<1> HIDE DEF e
<1>2. /\ DOMAIN e.contract[c] = {"status", "project", "tender", "number", "reg"}
      /\ e.contract[c].status = st
      /\ e.contract[c].project = d.contract[c].project
      /\ e.contract[c].tender = d.contract[c].tender
      /\ e.contract[c].number = d.contract[c].number
      /\ e.contract[c].reg = d.contract[c].reg
  BY <1>0, <1>1 DEF Sound, Formed
<1>3. Formed(e)
  BY <1>0, <1>1, <1>2 DEF Sound, Formed
<1>4. st # "none"
  BY DEF ContractStatus
<1>5. Linked(e) /\ Blank(e)
  BY <1>1, <1>2, <1>4 DEF Sound, Linked, Blank
<1>6. (d.contract[c].status = "busy" => st \in {"busy", "completed", "terminated"}) => Fills(d, e)
  BY <1>1, <1>2 DEF Fills
<1>7. LiveContracts(e) \subseteq LiveContracts(d) /\ LiveContracts(d) \subseteq Contracts
  BY <1>0, <1>1 DEF LiveContracts, LiveContract
<1>8. \A x \in Contracts : /\ e.contract[x]["number"] = d.contract[x]["number"]
                          /\ e.contract[x]["reg"] = d.contract[x]["reg"]
  BY <1>1, <1>2
<1>9. Unique(e)
  BY <1>1, <1>7, <1>8 DEF Sound, Unique, SameRow
<1>10. \A x \in Contracts : e.contract[x].reg = d.contract[x].reg
  BY <1>1, <1>2
<1> QED BY <1>3, <1>5, <1>6, <1>7, <1>9, <1>10 DEF Sound, e

-----------------------------------------------------------------------------
(* The import                                                              *)

(* Sound tables that only fill, with every contract at its stage.          *)
SameStages(d, e) ==
    \A c \in Contracts : e.contract[c].status = d.contract[c].status

Extends(d, e) == Sound(e) /\ Fills(d, e) /\ SameStages(d, e)

LEMMA ExtendsTrans ==
    ASSUME NEW d, NEW e, NEW f, Extends(d, e), Extends(e, f)
    PROVE  Extends(d, f)
  BY DEF Extends, Fills, SameStages

(* The stage of a contract may change once on the way.                     *)
LEMMA FillsThenExtends ==
    ASSUME NEW d, NEW e, NEW f, Fills(d, e), Extends(e, f)
    PROVE  Sound(f) /\ Fills(d, f)
  BY DEF Extends, Fills, SameStages

LEMMA ExtendsThenFills ==
    ASSUME NEW d, NEW e, NEW f, Extends(d, e), Fills(e, f)
    PROVE  Fills(d, f)
  BY DEF Extends, Fills, SameStages

LEMMA BesideExtends ==
    ASSUME NEW d, NEW e, Sound(d), Beside(d, e), d.inTender \subseteq e.inTender
    PROVE  Extends(d, e)
<1>1. Sound(e)
  BY BesideSound
<1>2. Fills(d, e)
  BY ApartFills DEF Beside
<1>3. SameStages(d, e)
  BY DEF Beside, Apart, SameStages
<1> QED BY <1>1, <1>2, <1>3 DEF Extends

LEMMA SetExtends ==
    ASSUME NEW d, Sound(d), NEW S, NEW st
    PROVE  Extends(d, SetObjects(d, S, st)) /\ Extends(d, SetProjects(d, S, st))
<1>1. Formed(d)
  BY DEF Sound
<1> QED BY <1>1, SetObjectsBeside, SetProjectsBeside, BesideExtends

LEMMA FindContractIs ==
    ASSUME NEW d, Sound(d), NEW n \in Orders
    PROVE  LET c == FindContract(d, n) IN
           /\ c = None \/ c \in LiveContracts(d)
           /\ c = None => \A x \in LiveContracts(d) : d.contract[x].number # n
           /\ \A x \in LiveContracts(d) : d.contract[x].reg = n => x = c
<1> DEFINE R == {c \in Contracts : LiveContract(d, c) /\ d.contract[c].reg = n}
           N == {c \in Contracts : LiveContract(d, c) /\ d.contract[c].number = n}
<1>1. R \subseteq Nat /\ N \subseteq Nat /\ None \notin R /\ None \notin N
  BY Constants
<1>2. n # None
  BY ChainAssumption
<1>3. CASE R # {}
  <2>1. FindContract(d, n) = Oldest(R)
    BY <1>3 DEF FindContract
  <2>2. Oldest(R) \in R
    BY <1>1, <1>3, OldestIsMember
  <2>3. \A x \in LiveContracts(d) : d.contract[x].reg = n => x = Oldest(R)
    <3> SUFFICES ASSUME NEW x \in LiveContracts(d), d.contract[x].reg = n
                 PROVE  x = Oldest(R)
      OBVIOUS
    <3>1. Oldest(R) \in LiveContracts(d) /\ d.contract[Oldest(R)]["reg"] = n
      BY <2>2 DEF LiveContracts
    <3>2. d.contract[x]["reg"] = n
      OBVIOUS
    <3> QED BY <3>1, <3>2, <1>2 DEF Sound, Unique, SameRow
  <2> QED BY <2>1, <2>2, <2>3, <1>1 DEF LiveContracts
<1>4. CASE R = {}
  <2>1. FindContract(d, n) = ContractByNumber(d, n) /\ ContractByNumber(d, n) = Oldest(N)
    BY <1>4 DEF FindContract, ContractByNumber
  <2>2. N # {} => Oldest(N) \in N
    BY <1>1, OldestIsMember
  <2>3. N = {} => Oldest(N) = None
    BY DEF Oldest
  <2>4. FindContract(d, n) = None \/ FindContract(d, n) \in LiveContracts(d)
    BY <2>1, <2>2, <2>3 DEF LiveContracts
  <2>5. FindContract(d, n) = None => \A x \in LiveContracts(d) : d.contract[x].number # n
    BY <2>1, NumberFreeMeans
  <2>6. \A x \in LiveContracts(d) : d.contract[x].reg # n
    BY <1>4 DEF LiveContracts
  <2> QED BY <2>4, <2>5, <2>6
<1> QED BY <1>3, <1>4

LEMMA LiveIsMade ==
    ASSUME NEW d, NEW c, c = None \/ c \in LiveContracts(d)
    PROVE  c \in Contracts => d.contract[c].status # "none"
  BY Constants DEF LiveContracts, LiveContract, ContractStatus

LEMMA UpsertContractSound ==
    ASSUME NEW d, Sound(d), NEW n \in Orders
    PROVE  Sound(UpsertContract(d, n)) /\ Fills(d, UpsertContract(d, n))
<1> DEFINE found == FindContract(d, n)
           c == IF found = None THEN NextId(d.contract) ELSE found
           row == IF found = None THEN AddContract(d, n, ContractStage(n))
                  ELSE [d EXCEPT !.contract[c].status = NewStage(n, @)]
           e == Registered(row, c, n)
<1>1. UpsertContract(d, n) = e
  BY DEF UpsertContract, Registered
<1>2. /\ found = None \/ found \in LiveContracts(d)
      /\ found = None => \A x \in LiveContracts(d) : d.contract[x].number # n
      /\ \A x \in LiveContracts(d) : d.contract[x].reg = n => x = found
  BY FindContractIs
<1>3. ContractStage(n) \in {"active", "completed", "terminated"}
  BY DEF ContractStage
<1>4. Sound(row) /\ Fills(d, row) /\ \A x \in LiveContracts(row) : row.contract[x].reg = n => x = c
  <2>1. CASE found = None
    <3>1. ContractStage(n) \in ContractStatus
      BY <1>3 DEF ContractStatus
    <3>2. \A x \in LiveContracts(d) : d.contract[x].reg # n
      BY <1>2, <2>1, Constants DEF LiveContracts
    <3>3. row = AddContract(d, n, ContractStage(n)) /\ c = NextId(d.contract)
      BY <2>1
    <3>4. /\ Sound(row) /\ Fills(d, row)
          /\ \A x \in Contracts : x # c => row.contract[x] = d.contract[x]
      BY <1>2, <2>1, <3>1, <3>3, AddContractSound
    <3>5. \A x \in LiveContracts(row) : x # c => x \in LiveContracts(d) /\ row.contract[x] = d.contract[x]
      BY <3>4 DEF LiveContracts, LiveContract
    <3> QED BY <3>2, <3>4, <3>5
  <2>2. CASE found # None
    <3> DEFINE st == NewStage(n, d.contract[c].status)
    <3>1. c = found /\ c \in LiveContracts(d) /\ c \in Contracts
      BY <1>2, <2>2 DEF LiveContracts
    <3>2. row = [d EXCEPT !.contract[c].status = st]
      BY <2>2, <3>1 DEF Sound, Formed, Tables
    <3>3. st \in ContractStatus /\ (d.contract[c].status = "busy" => st \in {"busy", "completed", "terminated"})
      BY <1>3 DEF NewStage, ContractStatus
    <3>4. /\ Sound(row) /\ Fills(d, row)
          /\ LiveContracts(row) \subseteq LiveContracts(d)
          /\ \A x \in Contracts : row.contract[x].reg = d.contract[x].reg
      <4>1. row = WithStage(d, c, st)
        BY <3>2 DEF WithStage
      <4> HIDE DEF st, c, found, row
      <4> QED BY <3>1, <3>3, <4>1, StatusSound
    <3> QED BY <1>2, <3>1, <3>4 DEF LiveContracts
  <2> QED BY <2>1, <2>2
<1> HIDE DEF row, c
<1>5. /\ Sound(e) /\ Fills(row, e)
      /\ \A x \in Contracts : e.contract[x].status = row.contract[x].status
  <2>1. Sound(row) /\ \A x \in LiveContracts(row) : row.contract[x].reg = n => x = c
    BY <1>4
  <2> QED BY <2>1, RegisterSound
<1> HIDE DEF e
<1>6. Extends(row, e)
  BY <1>5 DEF Extends, SameStages
<1> QED BY <1>1, <1>4, <1>6, FillsThenExtends

LEMMA EnsureProjectsExtends ==
    ASSUME NEW d, Sound(d), NEW S
    PROVE  Extends(d, EnsureProjects(d, S))
<1> DEFINE new == {o \in S : ActiveProject(d, o) = None}
           e == AddProjects(d, new, "active")
           f == SetObjects(e, {o \in new : d.object[o] = "free"}, "in_project")
<1>1. Extends(d, e)
  BY AddProjectsBeside, BesideExtends DEF Sound
<1>2. Sound(e)
  BY <1>1 DEF Extends
<1> HIDE DEF e
<1>3. Extends(e, f)
  BY <1>2, SetExtends
<1>4. EnsureProjects(d, S) = f
  BY DEF EnsureProjects, e
<1> HIDE DEF f
<1> QED BY <1>1, <1>3, <1>4, ExtendsTrans

LEMMA LinkImportedExtends ==
    ASSUME NEW d, Sound(d), NEW c, NEW S
    PROVE  Extends(d, LinkImported(d, c, S))
<1> DEFINE e == LinkNewObjects(d, c, S)
<1>1. Extends(d, e)
  BY LinkNewObjectsFills DEF Extends, SameStages, Keeps
<1>2. Sound(e)
  BY <1>1 DEF Extends
<1> HIDE DEF e
<1>3. Extends(e, SetObjects(e, S, "in_contract"))
  BY <1>2, SetExtends
<1>4. LinkImported(d, c, S) = SetObjects(e, S, "in_contract")
  BY DEF LinkImported, e
<1> QED BY <1>1, <1>3, <1>4, ExtendsTrans

LEMMA KeepsExtends ==
    ASSUME NEW d, NEW e, Sound(e), Fills(d, e), Keeps(d, e)
    PROVE  Extends(d, e)
  BY DEF Extends, SameStages, Keeps

LEMMA SyncContractSound ==
    ASSUME NEW d, Sound(d), NEW n \in Orders, NEW o, NEW t
    PROVE  Sound(SyncContract(d, n, o, t)) /\ Fills(d, SyncContract(d, n, o, t))
<1> DEFINE ensured == EnsureProjects(d, {o})
           p == ActiveProject(ensured, o)
           tender == IF t # None THEN t ELSE ActiveTender(ensured, o, p)
           row == UpsertContract(ensured, n)
           c == FindContract(row, n)
           filled == FillTender(row, c, tender)
           primary == LinkProjects(filled, c, {p}, p)
           linked == LinkImported(primary, c, {o})
           done == SetProjects(linked, {p}, "in_contract")
           last == IF tender = None THEN done ELSE [done EXCEPT !.tender[tender].status = "won"]
<1>0. SyncContract(d, n, o, t) = last
  BY DEF SyncContract
<1>1. Extends(d, ensured)
  BY EnsureProjectsExtends
<1> HIDE DEF ensured, p, tender
<1>2. Sound(row) /\ Fills(ensured, row)
  BY <1>1, UpsertContractSound DEF Extends
<1> HIDE DEF row
<1>3. c = None \/ c \in LiveContracts(row)
  BY <1>2, FindContractIs
<1>4. c \in Contracts => row.contract[c].status # "none"
  BY <1>3, LiveIsMade
<1> HIDE DEF c
<1>5. Extends(row, filled)
  BY <1>2, <1>4, FillTenderSound, KeepsExtends
<1>6. Sound(filled) /\ (c \in Contracts => filled.contract[c].status # "none")
  BY <1>4, <1>5 DEF Extends, SameStages
<1> HIDE DEF filled
<1>7. Extends(filled, primary)
  BY <1>6, LinkProjectsSound, KeepsExtends
<1> HIDE DEF primary
<1>8. Extends(primary, linked)
  BY <1>7, LinkImportedExtends DEF Extends
<1> HIDE DEF linked
<1>9. Extends(linked, done)
  BY <1>8, SetExtends DEF Extends
<1> HIDE DEF done
<1>10. Sound(done)
  BY <1>9 DEF Extends
<1>11. Extends(done, last)
  <2>1. CASE tender = None
    BY <1>10, <2>1 DEF Extends, Fills, SameStages
  <2>2. CASE tender # None
    <3> DEFINE e == [done EXCEPT !.tender[tender].status = "won"]
    <3>1. Formed(done)
      BY <1>10 DEF Sound
    <3>2. Beside(done, e)
      BY <3>1, TenderFieldsBeside
    <3>3. done.inTender \subseteq e.inTender
      BY <3>1 DEF Formed, Tables
    <3>4. last = e
      BY <2>2
    <3> QED BY <1>10, <3>2, <3>3, <3>4, BesideExtends
  <2> QED BY <2>1, <2>2
<1> HIDE DEF last
<1>12. Extends(row, last)
  BY <1>5, <1>7, <1>8, <1>9, <1>11, ExtendsTrans
<1>13. Sound(last) /\ Fills(ensured, last)
  BY <1>2, <1>12, FillsThenExtends
<1> QED BY <1>0, <1>1, <1>13, ExtendsThenFills

(* The notice's number goes to one tender, which has it or nobody has.     *)
Noted(d, t, n) == [d EXCEPT !.tender[t].reg = n]

LEMMA NotedExtends ==
    ASSUME NEW d, Sound(d), NEW t, NEW n,
           \A x \in Tenders : d.tender[x].reg = n => x = t
    PROVE  Extends(d, Noted(d, t, n))
<1> DEFINE e == Noted(d, t, n)
<1>1. /\ DOMAIN e = Tables /\ e.contract = d.contract /\ e.inTender = d.inTender
      /\ e.ofObject = d.ofObject /\ e.leftObject = d.leftObject /\ e.ofProject = d.ofProject
      /\ DOMAIN e.tender = Tenders
      /\ \A x \in Tenders : x # t => e.tender[x] = d.tender[x]
      /\ t \in Tenders => e.tender[t] = [d.tender[t] EXCEPT !.reg = n]
  BY DEF Sound, Formed, Tables, Noted
<1> HIDE DEF e
<1>2. t \in Tenders => /\ DOMAIN e.tender[t] = {"status", "object", "reg"}
                       /\ e.tender[t]["reg"] = n
  BY <1>1 DEF Sound, Formed
<1>3. Formed(e)
  BY <1>1, <1>2 DEF Sound, Formed
<1>4. LiveContracts(e) = LiveContracts(d)
  BY <1>1 DEF LiveContracts, LiveContract
<1>5. SameRow(Tenders, e.tender, "reg")
  <2>1. \A x \in Tenders : x # t => e.tender[x]["reg"] = d.tender[x]["reg"]
    BY <1>1
  <2>2. \A x \in Tenders : x # t => d.tender[x]["reg"] # n
    OBVIOUS
  <2> QED BY <1>2, <2>1, <2>2 DEF Sound, Unique, SameRow
<1>6. Unique(e)
  BY <1>1, <1>4, <1>5 DEF Sound, Unique
<1>7. Sound(e)
  BY <1>1, <1>3, <1>6 DEF Sound, Linked, Blank
<1>8. Fills(d, e) /\ SameStages(d, e)
  BY <1>1 DEF Fills, SameStages
<1> QED BY <1>7, <1>8 DEF Extends, e

LEMMA LinkTenderExtends ==
    ASSUME NEW d, Sound(d), NEW t, NEW S
    PROVE  Extends(d, LinkTender(d, t, S))
  BY LinkTenderBeside, BesideExtends DEF Sound

Staged(d, t, st) == [d EXCEPT !.tender[t].status = st]

LEMMA StagedBeside ==
    ASSUME NEW d, Formed(d), NEW t, NEW st
    PROVE  Beside(d, Staged(d, t, st)) /\ Staged(d, t, st).inTender = d.inTender
<1>1. Beside(d, Staged(d, t, st))
  BY TenderFieldsBeside DEF Staged
<1>2. Staged(d, t, st).inTender = d.inTender
  BY DEF Staged, Formed, Tables
<1> QED BY <1>1, <1>2

LEMMA WithNoticeExtends ==
    ASSUME NEW d, Sound(d), NEW n \in Orders, NEW t, NEW p, NEW others,
           \A x \in Tenders : d.tender[x].reg = n => x = t
    PROVE  Extends(d, WithNotice(d, n, t, p, others))
<1> DEFINE found == Staged(d, t, TenderStage(n))
           added == AddTender(d, {p}, MainObject[n], TenderStage(n))
           effects == SideEffects(found, LinkedProjects(d, t), TenderStage(n))
           tender == IF d.tender[t].status = "none" THEN added ELSE effects
           noted == Noted(tender, t, n)
<1>0. WithNotice(d, n, t, p, others) = LinkTender(noted, t, others)
  BY DEF WithNotice, Noted, Staged
<1>1. Formed(d) /\ n # None
  BY ChainAssumption DEF Sound
<1>2. Beside(d, added) /\ d.inTender \subseteq added.inTender
  BY <1>1, AddTenderBeside
<1>3. Beside(d, found) /\ found.inTender = d.inTender
  BY <1>1, StagedBeside
<1> HIDE DEF added, found
<1>4. Beside(found, effects) /\ effects.inTender = found.inTender
  BY <1>3, SideEffectsBeside DEF Beside, Apart
<1> HIDE DEF effects
<1>5. Beside(d, tender) /\ d.inTender \subseteq tender.inTender
  BY <1>2, <1>3, <1>4, BesideTrans
<1> HIDE DEF tender
<1>6. Extends(d, tender)
  BY <1>5, BesideExtends
<1>7. \A x \in Tenders : tender.tender[x].reg = n => x = t
  BY <1>1, <1>5 DEF Beside
<1>8. Extends(tender, noted)
  BY <1>6, <1>7, NotedExtends DEF Extends
<1> HIDE DEF noted
<1>9. Extends(noted, LinkTender(noted, t, others))
  BY <1>8, LinkTenderExtends DEF Extends
<1> QED BY <1>0, <1>6, <1>8, <1>9, ExtendsTrans

(* The tender of a notice is the registered one, or there is none.         *)
LEMMA ImportedTenderIs ==
    ASSUME NEW d, Sound(d), NEW n \in Orders, NEW o, NEW p, NEW y,
           ImportedTender(d, n, o, p) # None => y = ImportedTender(d, n, o, p)
    PROVE  \A x \in Tenders : d.tender[x].reg = n => x = y
<1> DEFINE R == {t \in Tenders : d.tender[t].reg = n}
<1> SUFFICES ASSUME NEW x \in Tenders, d.tender[x].reg = n
             PROVE  x = y
  OBVIOUS
<1>1. x \in R /\ R \subseteq Nat /\ None \notin R
  BY Constants
<1>2. Oldest(R) \in R
  BY <1>1, OldestIsMember
<1>3. y = Oldest(R)
  BY <1>1, <1>2 DEF ImportedTender
<1>4. d.tender[x]["reg"] = n /\ d.tender[y]["reg"] = n /\ y \in Tenders
  BY <1>2, <1>3
<1>5. n # None
  BY ChainAssumption
<1> QED BY <1>4, <1>5 DEF Sound, Unique, SameRow

LEMMA OrderCommittedSound ==
    ASSUME NEW d, Sound(d), NEW n \in Orders
    PROVE  Sound(OrderCommitted(d, n)) /\ Fills(d, OrderCommitted(d, n))
<1> DEFINE ensured == EnsuredFor(d, n)
           p == ActiveProject(ensured, MainObject[n])
           found == ImportedTender(ensured, n, MainObject[n], p)
           t == IF found = None THEN NextId(ensured.tender) ELSE found
           others == {ActiveProject(ensured, o) : o \in OthersOf(n)}
           noted == WithNotice(ensured, n, t, p, others)
           synced == SyncContract(noted, n, MainObject[n], t)
<1>0. OrderCommitted(d, n) = IF Signed(n) THEN synced ELSE noted
  BY DEF OrderCommitted
<1>1. Extends(d, ensured)
  BY EnsureProjectsExtends DEF EnsuredFor
<1>2. Sound(ensured)
  BY <1>1 DEF Extends
<1> HIDE DEF ensured
<1>3. found # None => t = found
  OBVIOUS
<1>4. \A x \in Tenders : ensured.tender[x].reg = n => x = t
  <2> HIDE DEF t, p
  <2> QED BY ZenonT(60), <1>2, <1>3, ImportedTenderIs
<1> HIDE DEF t, p, found, others
<1>5. Extends(ensured, noted)
  BY <1>2, <1>4, WithNoticeExtends
<1> HIDE DEF noted
<1>6. Sound(synced) /\ Fills(noted, synced)
  BY <1>5, SyncContractSound DEF Extends
<1> HIDE DEF synced
<1>7. Extends(d, noted)
  BY <1>1, <1>5, ExtendsTrans
<1>8. Fills(d, synced)
  BY <1>6, <1>7, ExtendsThenFills
<1> QED BY <1>0, <1>6, <1>7, <1>8 DEF Extends

LEMMA OrderDoneSound ==
    ASSUME NEW d, Sound(d), NEW n \in Orders
    PROVE  Sound(OrderDone(d, n)) /\ Fills(d, OrderDone(d, n))
<1> DEFINE first == OrderCommitted(d, n)
           last == LinkImported(first, FindContract(first, n), OthersOf(n))
<1>0. OrderDone(d, n) = IF Signed(n) THEN last ELSE first
  BY DEF OrderDone
<1>1. Sound(first) /\ Fills(d, first)
  BY OrderCommittedSound
<1> HIDE DEF first
<1>2. Extends(first, last)
  BY <1>1, LinkImportedExtends
<1> HIDE DEF last
<1> QED BY <1>0, <1>1, <1>2, FillsThenExtends

LEMMA ContractDoneSound ==
    ASSUME NEW d, Sound(d), NEW n \in Orders
    PROVE  Sound(ContractDone(d, n)) /\ Fills(d, ContractDone(d, n))
  BY UpsertContractSound, SyncContractSound DEF ContractDone

-----------------------------------------------------------------------------
(* The handlers of users                                                   *)

LEMMA BesideStep ==
    ASSUME NEW d, NEW e, Sound(d), Beside(d, e)
    PROVE  Sound(e) /\ Formed(e)
  BY BesideSound DEF Sound

LEMMA SetSound ==
    ASSUME NEW d, Sound(d), NEW S, NEW st
    PROVE  Sound(SetObjects(d, S, st)) /\ Sound(SetProjects(d, S, st))
  BY SetExtends DEF Extends

LEMMA AddProjectsSound ==
    ASSUME NEW d, Sound(d), NEW S, NEW st
    PROVE  Sound(AddProjects(d, S, st))
  BY AddProjectsBeside, BesideSound DEF Sound

LEMMA AddTenderSound ==
    ASSUME NEW d, Sound(d), NEW S, NEW o, NEW st
    PROVE  Sound(AddTender(d, S, o, st))
  BY AddTenderBeside, BesideSound DEF Sound

LEMMA SideEffectsSound ==
    ASSUME NEW d, Sound(d), NEW S, NEW st
    PROVE  Sound(SideEffects(d, S, st))
  BY SideEffectsBeside, BesideSound DEF Sound

LEMMA CreateProjectSound ==
    ASSUME Sound(db), NEW o, NEW st, CreateProject(o, st)
    PROVE  Sound(db')
<1>1. db' = SetObjects(AddProjects(db, {o}, st), {o}, "in_project")
  BY DEF CreateProject, UserSaves, SaveLinked, Save
<1> QED BY <1>1, AddProjectsSound, SetSound

LEMMA UpdateProjectSound ==
    ASSUME Sound(db), NEW p, NEW o, NEW st, UpdateProject(p, o, st)
    PROVE  Sound(db')
<1> DEFINE moved == [db EXCEPT !.project[p].status = st, !.project[p].object = o]
           old == db.project[p].object
           freed == IF old # o /\ db.object[old] = "in_project"
                    THEN SetObjects(moved, {old}, "free") ELSE moved
<1>1. db' = IF db.object[o] = "free" THEN SetObjects(freed, {o}, "in_project") ELSE freed
  BY DEF UpdateProject, Save
<1>2. Beside(db, moved)
  BY DEF Sound, Formed, Tables, Beside, Apart
<1> HIDE DEF moved
<1>3. Sound(moved)
  BY <1>2, BesideSound
<1>4. Sound(freed)
  BY <1>3, SetSound
<1> HIDE DEF freed
<1> QED BY <1>1, <1>4, SetSound

LEMMA DeleteProjectSound ==
    ASSUME Sound(db), NEW p, DeleteProject(p)
    PROVE  Sound(db')
<1> DEFINE e == [db EXCEPT !.project[p].live = FALSE]
<1>1. db' = e
  BY DEF DeleteProject, UserSaves, SaveLinked, Save
<1>2. Beside(db, e)
  BY DEF Sound, Formed, Tables, Beside, Apart
<1> HIDE DEF e
<1> QED BY <1>1, <1>2, BesideSound

LEMMA WithProjectSound ==
    ASSUME NEW d, Sound(d), NEW o
    PROVE  Sound(WithProject(d, o))
<1> DEFINE e == IF ActiveProject(d, o) = None THEN AddProjects(d, {o}, "active") ELSE d
<1>1. Sound(e)
  BY AddProjectsSound
<1>2. WithProject(d, o) = SetObjects(e, {o}, "in_project")
  BY DEF WithProject
<1> HIDE DEF e
<1> QED BY <1>1, <1>2, SetSound

LEMMA WithTenderSound ==
    ASSUME NEW d, Sound(d), NEW o
    PROVE  Sound(WithTender(d, o))
<1> DEFINE p == ActiveProject(d, o)
           e == IF ActiveTender(d, o, p) = None THEN AddTender(d, {p}, o, "open") ELSE d
<1>1. Sound(e)
  BY AddTenderSound
<1>2. WithTender(d, o) = SetObjects(e, {o}, "in_tender")
  BY DEF WithTender
<1> HIDE DEF e
<1> QED BY <1>1, <1>2, SetSound

LEMMA ContractByNumberIs ==
    ASSUME NEW d, NEW n
    PROVE  ContractByNumber(d, n) = None \/ ContractByNumber(d, n) \in LiveContracts(d)
<1> DEFINE N == {c \in Contracts : LiveContract(d, c) /\ d.contract[c].number = n}
<1>1. N # {} => Oldest(N) \in N
  BY Constants, OldestIsMember
<1>2. N = {} => Oldest(N) = None
  BY DEF Oldest
<1> QED BY <1>1, <1>2 DEF ContractByNumber, LiveContracts

LEMMA WithContractSound ==
    ASSUME NEW d, Sound(d), NEW o, NEW n
    PROVE  Sound(WithContract(d, o, n))
<1> DEFINE p == ActiveProject(d, o)
           t == ActiveTender(d, o, p)
           found == ContractByNumber(d, n)
           c == IF found = None THEN NextId(d.contract) ELSE found
           row == IF found = None THEN AddContract(d, n, "draft") ELSE d
           objects == LinkObjects(row, c, {o})
           linked == LinkProjects(objects, c, {p}, p)
           filled == FillTender(linked, c, t)
           done == SetObjects(filled, {o}, "in_contract")
<1>0. WithContract(d, o, n) = SetProjects(done, {p}, "in_contract")
  BY DEF WithContract
<1>1. Sound(row) /\ (c \in Contracts => row.contract[c].status # "none")
  <2>1. CASE found = None
    <3>1. \A x \in LiveContracts(d) : d.contract[x].number # n
      BY <2>1, NumberFreeMeans
    <3>2. "draft" \in ContractStatus /\ "draft" # "none"
      BY DEF ContractStatus
    <3>3. row = AddContract(d, n, "draft") /\ c = NextId(d.contract)
      BY <2>1
    <3> HIDE DEF row, c, found
    <3> QED BY <3>1, <3>2, <3>3, AddContractSound
  <2>2. CASE found # None
    <3>1. row = d /\ c = found /\ found \in LiveContracts(d)
      BY <2>2, ContractByNumberIs
    <3> HIDE DEF row, c, found
    <3> QED BY <3>1, LiveIsMade
  <2> QED BY <2>1, <2>2
<1> HIDE DEF row, c, found, p, t
<1>2. Sound(objects) /\ (c \in Contracts => objects.contract[c].status # "none")
  BY <1>1, LinkObjectsSound DEF Keeps
<1> HIDE DEF objects
<1>3. Sound(linked) /\ (c \in Contracts => linked.contract[c].status # "none")
  BY <1>2, LinkProjectsSound DEF Keeps
<1> HIDE DEF linked
<1>4. Sound(filled)
  BY <1>3, FillTenderSound
<1> HIDE DEF filled
<1>5. Sound(done)
  BY <1>4, SetSound
<1> HIDE DEF done
<1> QED BY <1>0, <1>5, SetSound

LEMMA ReplanSound ==
    ASSUME Sound(db), NEW o, NEW need \in Needs, NEW n, NEW st, NEW form,
           Replan(o, need, n, st, form)
    PROVE  Sound(db')
<1> DEFINE row == SetObjects(db, {o}, st)
           chain == WithProject(row, o)
           tender == WithTender(chain, o)
           contract == WithContract(tender, o, n)
           made == CASE need = "nothing" -> row
                     [] need = "project" -> chain
                     [] need = "tender" -> tender
                     [] need = "contract" -> contract
                     [] need = "closed" -> row
           project == need # "nothing" /\ ActiveProject(made, o) # None
<1>0. db' = IF form /\ project THEN SetObjects(made, {o}, "in_project") ELSE made
  BY DEF Replan, UserSaves, SaveLinked, Save
<1>1. Sound(row)
  BY SetSound
<1> HIDE DEF row
<1>2. Sound(chain)
  BY <1>1, WithProjectSound
<1> HIDE DEF chain
<1>3. Sound(tender)
  BY <1>2, WithTenderSound
<1> HIDE DEF tender
<1>4. Sound(contract)
  BY <1>3, WithContractSound
<1> HIDE DEF contract
<1>5. Sound(made)
  BY <1>1, <1>2, <1>3, <1>4 DEF Needs
<1> HIDE DEF made
<1> QED BY <1>0, <1>5, SetSound

LEMMA CreateTenderSound ==
    ASSUME Sound(db), NEW S, NEW o, NEW st, CreateTender(S, o, st)
    PROVE  Sound(db')
<1>1. db' = AddTender(db, S, o, st)
  BY DEF CreateTender, UserSaves, SaveLinked, Save
<1> QED BY <1>1, AddTenderSound

LEMMA RelinkedSound ==
    ASSUME Sound(db), NEW t, NEW S
    PROVE  Sound(Relinked(t, S))
<1> DEFINE removed == LinkedProjects(db, t) \ S
           back == {p \in removed : db.project[p].status = "in_tender"}
           O == {o \in ObjectsOf(db, back) : db.object[o] = "in_tender"}
           unlinked == [db EXCEPT !.inTender = @ \ ({t} \X removed),
                                  !.leftTender = @ \cup ({t} \X removed)]
           projects == SetProjects(unlinked, back, "active")
           objects == SetObjects(projects, O, "in_project")
<1>0. Relinked(t, S) = LinkTender(objects, t, S)
  BY DEF Relinked
<1> HIDE DEF removed, back, O
<1>1. Beside(db, unlinked)
  BY DEF Sound, Formed, Tables, Beside, Apart
<1> HIDE DEF unlinked
<1>2. Sound(unlinked)
  BY <1>1, BesideSound
<1>3. Sound(projects)
  BY <1>2, SetSound
<1> HIDE DEF projects
<1>4. Sound(objects)
  BY <1>3, SetSound
<1> HIDE DEF objects
<1> QED BY <1>0, <1>4, LinkTenderExtends DEF Extends

LEMMA UpdateTenderSound ==
    ASSUME Sound(db), NEW t, NEW S, NEW o, NEW st, UpdateTender(t, S, o, st)
    PROVE  Sound(db')
<1>1. PICK sync \in BOOLEAN :
        db' = SideEffects([(IF sync THEN Relinked(t, S) ELSE db) EXCEPT
                             !.tender[t].status = st, !.tender[t].object = o], S, st)
  BY DEF UpdateTender, UserSaves, SaveLinked, Save
<1> DEFINE d == IF sync THEN Relinked(t, S) ELSE db
           e == [d EXCEPT !.tender[t].status = st, !.tender[t].object = o]
<1>2. Sound(d)
  BY RelinkedSound
<1>3. db' = SideEffects(e, S, st)
  BY <1>1
<1> HIDE DEF d
<1>4. Beside(d, e)
  BY <1>2, TenderFieldsBeside DEF Sound
<1> HIDE DEF e
<1>5. Sound(e)
  BY <1>2, <1>4, BesideSound
<1> QED BY <1>3, <1>5, SideEffectsSound

LEMMA CreateContractSound ==
    ASSUME Sound(db), NEW n, NEW o, NEW st \in ContractStatus, CreateContract(n, o, st)
    PROVE  Sound(db')
<1> DEFINE row == AddContract(db, n, st)
           c == NextId(db.contract)
           linked == LinkObjects(row, c, {o})
<1>0. db' = IF o = None THEN row ELSE SetObjects(linked, {o}, "in_contract")
  BY DEF CreateContract, UserSaves, SaveLinked, Save
<1>1. \A x \in LiveContracts(db) : db.contract[x].number # n
  BY NumberFreeMeans DEF CreateContract, NumberFree
<1>2. Sound(row)
  BY <1>1, AddContractSound
<1> HIDE DEF row
<1>3. Sound(linked)
  BY <1>2, LinkObjectsSound
<1> HIDE DEF linked
<1> QED BY <1>0, <1>2, <1>3, SetSound

LEMMA CreateFromTenderSound ==
    ASSUME Sound(db), NEW t, NEW n, NEW st \in ContractStatus, CreateFromTender(t, n, st)
    PROVE  Sound(db')
<1> DEFINE c == NextId(db.contract)
           S == LinkedProjects(db, t)
           O == ObjectsOf(db, S)
           added == AddContract(db, n, st)
           row == FillTender(added, c, t)
<1>1. PICK first \in S :
        db' = SetObjects(SetProjects(LinkObjects(LinkProjects(row, c, S, first), c, O),
                                     S, "in_contract"), O, "in_contract")
  BY DEF CreateFromTender, UserSaves, SaveLinked, Save
<1> DEFINE linked == LinkProjects(row, c, S, first)
           objects == LinkObjects(linked, c, O)
           projects == SetProjects(objects, S, "in_contract")
<1>2. db' = SetObjects(projects, O, "in_contract")
  BY <1>1
<1>3. \A x \in LiveContracts(db) : db.contract[x].number # n
  BY NumberFreeMeans DEF CreateFromTender, NumberFree
<1>4. st # "none"
  BY DEF ContractStatus
<1>5. Sound(added) /\ (c \in Contracts => added.contract[c].status # "none")
  BY <1>3, <1>4, AddContractSound
<1> HIDE DEF c, S, O, added
<1>6. Sound(row) /\ (c \in Contracts => row.contract[c].status # "none")
  BY <1>5, FillTenderSound DEF Keeps
<1> HIDE DEF row
<1>7. Sound(linked)
  BY <1>6, LinkProjectsSound
<1> HIDE DEF linked
<1>8. Sound(objects)
  BY <1>7, LinkObjectsSound
<1> HIDE DEF objects
<1>9. Sound(projects)
  BY <1>8, SetSound
<1> HIDE DEF projects
<1> QED BY <1>2, <1>9, SetSound

LEMMA UpdateContractSound ==
    ASSUME Sound(db), NEW c \in Contracts, NEW n, NEW st \in ContractStatus,
           UpdateContract(c, n, st)
    PROVE  Sound(db')
<1> DEFINE e == [db EXCEPT !.contract[c].status = st, !.contract[c].number = n]
<1>0. db' = e /\ c \in LiveContracts(db)
  BY DEF UpdateContract, UserSaves, SaveLinked, Save, LiveContracts
<1>1. /\ DOMAIN e = Tables /\ e.tender = db.tender /\ e.ofProject = db.ofProject
      /\ DOMAIN e.contract = Contracts
      /\ \A x \in Contracts : x # c => e.contract[x] = db.contract[x]
      /\ e.contract[c] = [db.contract[c] EXCEPT !.status = st, !.number = n]
  BY DEF Sound, Formed, Tables
<1> HIDE DEF e
<1>2. /\ DOMAIN e.contract[c] = {"status", "project", "tender", "number", "reg"}
      /\ e.contract[c].status = st
      /\ e.contract[c].project = db.contract[c].project
      /\ e.contract[c].number = n
      /\ e.contract[c].reg = db.contract[c].reg
  BY <1>1 DEF Sound, Formed
<1>3. Formed(e)
  BY <1>1, <1>2 DEF Sound, Formed
<1>4. st # "none"
  BY DEF ContractStatus
<1>5. Linked(e) /\ Blank(e)
  <2>1. Linked(e)
    BY <1>1, <1>2 DEF Sound, Linked
  <2>2. \A x \in Contracts : e.contract[x].status = "none" => x # c
    BY <1>2, <1>4
  <2>3. Blank(e)
    BY <1>1, <2>2 DEF Sound, Blank
  <2> QED BY <2>1, <2>3
<1>6. LiveContracts(e) \subseteq LiveContracts(db) /\ LiveContracts(db) \subseteq Contracts
  BY <1>0, <1>1 DEF LiveContracts, LiveContract
<1>7. SameRow(LiveContracts(e), e.contract, "reg")
  <2>1. \A x \in Contracts : e.contract[x]["reg"] = db.contract[x]["reg"]
    BY <1>1, <1>2
  <2> QED BY <1>6, <2>1 DEF Sound, Unique, SameRow
<1>8. SameRow(LiveContracts(e), e.contract, "number")
  <2>1. \A x \in Contracts : x # c => e.contract[x]["number"] = db.contract[x]["number"]
    BY <1>1
  <2>2. e.contract[c]["number"] = n
    BY <1>2
  <2>3. \A x \in LiveContracts(db) : x # c => db.contract[x]["number"] # n \/ n = None
    <3>1. CASE n = db.contract[c].number
      <4>1. db.contract[c]["number"] = n
        BY <3>1
      <4> QED BY <1>0, <4>1 DEF Sound, Unique, SameRow
    <3>2. CASE NumberFree(n)
      BY <3>2, NumberFreeMeans DEF NumberFree
    <3> QED BY <3>1, <3>2 DEF UpdateContract
  <2> QED BY <1>6, <2>1, <2>2, <2>3 DEF Sound, Unique, SameRow
<1>9. Unique(e)
  BY <1>1, <1>7, <1>8 DEF Sound, Unique
<1> QED BY <1>0, <1>3, <1>5, <1>9 DEF Sound

LEMMA TransitionSound ==
    ASSUME Sound(db), NEW c \in Contracts, NEW st \in ContractStatus, Transition(c, st)
    PROVE  Sound(db')
<1> DEFINE t == db.contract[c].tender
           d == WithStage(db, c, st)
           O == {o \in Objects : <<c, o>> \in db.ofObject \cup db.leftObject}
           S == {p \in Projects : <<t, p>> \in db.inTender \cup db.leftTender}
           objects == SetObjects(d, O, "completed")
<1>0. /\ db' = IF st = "completed" THEN SetProjects(objects, S, "completed") ELSE d
      /\ c \in LiveContracts(db)
  BY DEF Transition, UserSaves, SaveLinked, Save, WithStage, LiveContracts
<1>1. Sound(d)
  BY <1>0, StatusSound
<1> HIDE DEF d, O, S
<1>2. Sound(objects)
  BY <1>1, SetSound
<1> HIDE DEF objects
<1> QED BY <1>0, <1>1, <1>2, SetSound

LEMMA DeleteContractSound ==
    ASSUME Sound(db), NEW c \in Contracts, DeleteContract(c)
    PROVE  Sound(db')
<1>1. db' = WithStage(db, c, "deleted") /\ c \in LiveContracts(db)
  BY DEF DeleteContract, UserSaves, SaveLinked, Save, WithStage, LiveContracts
<1> QED BY <1>1, StatusSound

LEMMA LinkObjectSound ==
    ASSUME Sound(db), NEW c, NEW o, LinkObject(c, o)
    PROVE  Sound(db')
<1> DEFINE e == LinkObjects(db, c, {o})
<1>1. db' = SetObjects(e, {o}, "in_contract")
  BY DEF LinkObject, UserSaves, SaveLinked, Save
<1>2. Sound(e)
  BY LinkObjectsSound
<1> HIDE DEF e
<1> QED BY <1>1, <1>2, SetSound

LEMMA UnlinkObjectSound ==
    ASSUME Sound(db), NEW c, NEW o, UnlinkObject(c, o)
    PROVE  Sound(db')
<1>1. db' = [db EXCEPT !.ofObject = @ \ {<<c, o>>}, !.leftObject = @ \cup {<<c, o>>}]
  BY DEF UnlinkObject, UserSaves, SaveLinked, Save
<1>2. /\ Formed(db') /\ db'.tender = db.tender /\ db'.contract = db.contract
      /\ db'.ofProject = db.ofProject
  BY <1>1 DEF Sound, Formed, Tables
<1>3. Keeps(db, db')
  BY <1>2 DEF Keeps
<1> QED BY <1>2, <1>3, KeepsUnique DEF Sound, Linked, Blank

LEMMA LinkProjectSound ==
    ASSUME Sound(db), NEW c, NEW p, LinkProject(c, p)
    PROVE  Sound(db')
<1>1. db' = LinkProjects(db, c, {p}, p)
  BY DEF LinkProject, UserSaves, SaveLinked, Save
<1>2. c \in LiveContracts(db) \/ c \notin Contracts
  BY DEF LinkProject, LiveContracts
<1>3. c \in Contracts => db.contract[c].status # "none"
  BY <1>2, LiveIsMade
<1> QED BY <1>1, <1>3, LinkProjectsSound

(* A new primary project of a live contract that is linked to it.          *)
LEMMA PrimarySound ==
    ASSUME Sound(db), NEW c \in LiveContracts(db), NEW q, NEW links,
           db' = [db EXCEPT !.ofProject = links, !.contract[c].project = q],
           q # None => <<c, q>> \in links,
           \A x \in Contracts \ {c} : \A p : <<x, p>> \in db.ofProject => <<x, p>> \in links
    PROVE  Sound(db')
<1>0. c \in Contracts /\ db.contract[c].status # "none"
  BY LiveIsMade DEF LiveContracts
<1>1. /\ DOMAIN db' = Tables /\ db'.tender = db.tender /\ db'.ofProject = links
      /\ DOMAIN db'.contract = Contracts
      /\ \A x \in Contracts : x # c => db'.contract[x] = db.contract[x]
      /\ db'.contract[c] = [db.contract[c] EXCEPT !.project = q]
  BY <1>0 DEF Sound, Formed, Tables
<1>2. /\ DOMAIN db'.contract[c] = {"status", "project", "tender", "number", "reg"}
      /\ db'.contract[c].status = db.contract[c].status
      /\ db'.contract[c].project = q
      /\ db'.contract[c].number = db.contract[c].number
      /\ db'.contract[c].reg = db.contract[c].reg
  BY <1>0, <1>1 DEF Sound, Formed
<1>3. Formed(db')
  BY <1>0, <1>1, <1>2 DEF Sound, Formed
<1>4. Keeps(db, db')
  BY <1>1, <1>2, <1>3 DEF Keeps
<1>5. Linked(db')
  BY <1>1, <1>2 DEF Sound, Linked
<1>6. Blank(db')
  BY <1>0, <1>1, <1>2 DEF Sound, Blank
<1> QED BY <1>3, <1>4, <1>5, <1>6, KeepsUnique DEF Sound

LEMMA UnlinkProjectSound ==
    ASSUME Sound(db), NEW c \in Contracts, NEW p, UnlinkProject(c, p)
    PROVE  Sound(db')
<1> DEFINE links == db.ofProject \ {<<c, p>>}
<1>1. PICK q \in NewPrimary(c, p) :
        db' = [db EXCEPT !.ofProject = links, !.contract[c].project = q]
  BY DEF UnlinkProject, UserSaves, SaveLinked, Save
<1>2. c \in LiveContracts(db)
  BY DEF UnlinkProject, LiveContracts
<1>3. q # None => <<c, q>> \in links
  BY <1>1 DEF NewPrimary, Sound, Linked
<1>4. \A x \in Contracts \ {c} : \A r : <<x, r>> \in db.ofProject => <<x, r>> \in links
  OBVIOUS
<1> HIDE DEF links
<1> QED BY <1>1, <1>2, <1>3, <1>4, PrimarySound

LEMMA ClearProjectSound ==
    ASSUME Sound(db), NEW c \in Contracts, ClearProject(c)
    PROVE  Sound(db')
<1>1. db' = [db EXCEPT !.ofProject = db.ofProject, !.contract[c].project = None]
  BY DEF ClearProject, UserSaves, SaveLinked, Save, Sound, Formed, Tables
<1>2. c \in LiveContracts(db)
  BY DEF ClearProject, LiveContracts
<1> QED BY <1>1, <1>2, PrimarySound

-----------------------------------------------------------------------------
(* The specification                                                       *)

ChainInv == Sound(db) /\ edits \in Nat

LEMMA InitialSound == ChainInit => ChainInv
<1> SUFFICES ASSUME ChainInit PROVE ChainInv
  OBVIOUS
<1>1. /\ DOMAIN db = Tables /\ db.contract = [c \in Contracts |-> NoContract]
      /\ db.tender = [t \in Tenders |-> NoTender] /\ edits \in Nat
  BY ChainAssumption DEF ChainInit, Tables
<1>2. Formed(db) /\ Linked(db) /\ Blank(db)
  BY <1>1 DEF Formed, Linked, Blank, NoContract, NoTender
<1>3. LiveContracts(db) = {}
  BY <1>1 DEF LiveContracts, LiveContract, NoContract, ContractStatus
<1>4. \A t \in Tenders : db.tender[t]["reg"] = None
  BY <1>1 DEF NoTender
<1>5. Unique(db)
  BY <1>3, <1>4 DEF Unique, SameRow
<1> QED BY <1>1, <1>2, <1>5 DEF ChainInv, Sound

LEMMA UserStepSound ==
    ASSUME ChainInv, UserStep
    PROVE  ChainInv' /\ edits' # edits
<1>1. Edit
  <2>1. ASSUME ProjectStep PROVE Edit
    <3>1. \A o, st : CreateProject(o, st) => Edit
      BY DEF CreateProject, UserSaves
    <3>2. \A p, o, st : UpdateProject(p, o, st) => Edit
      BY DEF UpdateProject
    <3>3. \A p : DeleteProject(p) => Edit
      BY DEF DeleteProject, UserSaves
    <3>4. \A o, need, n, st, form : Replan(o, need, n, st, form) => Edit
      BY DEF Replan, UserSaves
    <3> QED BY <2>1, <3>1, <3>2, <3>3, <3>4, Zenon DEF ProjectStep
  <2>2. ASSUME TenderStep PROVE Edit
    <3>1. \A S, o, st : CreateTender(S, o, st) => Edit
      BY DEF CreateTender, UserSaves
    <3>2. \A t, S, o, st : UpdateTender(t, S, o, st) => Edit
      BY DEF UpdateTender, UserSaves
    <3> QED BY <2>2, <3>1, <3>2, Zenon DEF TenderStep
  <2>3. ASSUME ContractStep PROVE Edit
    <3>1. \A n, o, st : CreateContract(n, o, st) => Edit
      BY DEF CreateContract, UserSaves
    <3>2. \A t, n, st : CreateFromTender(t, n, st) => Edit
      BY DEF CreateFromTender, UserSaves
    <3>3. \A c, n, st : UpdateContract(c, n, st) => Edit
      BY DEF UpdateContract, UserSaves
    <3>4. \A c, st : Transition(c, st) => Edit
      BY DEF Transition, UserSaves
    <3>5. \A c, o : LinkObject(c, o) \/ UnlinkObject(c, o) => Edit
      BY DEF LinkObject, UnlinkObject, UserSaves
    <3>6. \A c, p : LinkProject(c, p) \/ UnlinkProject(c, p) => Edit
      BY DEF LinkProject, UnlinkProject, UserSaves
    <3>7. \A c : ClearProject(c) \/ DeleteContract(c) => Edit
      BY DEF ClearProject, DeleteContract, UserSaves
    <3> QED BY <2>3, <3>1, <3>2, <3>3, <3>4, <3>5, <3>6, <3>7, Zenon DEF ContractStep
  <2> QED BY <2>1, <2>2, <2>3 DEF UserStep
<1>2. edits' \in Nat /\ edits' # edits
  BY <1>1 DEF Edit, UserStep, ChainInv
<1>3. Sound(db)
  BY DEF ChainInv
<1>4. ASSUME ProjectStep PROVE Sound(db')
  BY <1>3, <1>4, CreateProjectSound, UpdateProjectSound, DeleteProjectSound, ReplanSound
     DEF ProjectStep
<1>5. ASSUME TenderStep PROVE Sound(db')
  BY <1>3, <1>5, CreateTenderSound, UpdateTenderSound DEF TenderStep
<1>6. ASSUME ContractStep PROVE Sound(db')
  <2>1. ASSUME NEW n \in Orders, NEW st \in ContractStatus,
               \/ \E o \in Objects \cup {None} : CreateContract(n, o, st)
               \/ \E t \in Tenders : CreateFromTender(t, n, st)
               \/ \E c \in Contracts : UpdateContract(c, n, st)
        PROVE  Sound(db')
    BY <1>3, <2>1, CreateContractSound, CreateFromTenderSound, UpdateContractSound
  <2>2. ASSUME NEW c \in Contracts,
               \/ \E st \in ContractStatus : Transition(c, st)
               \/ \E o \in Objects : LinkObject(c, o) \/ UnlinkObject(c, o)
               \/ \E p \in Projects : LinkProject(c, p) \/ UnlinkProject(c, p)
               \/ ClearProject(c) \/ DeleteContract(c)
        PROVE  Sound(db')
    BY <1>3, <2>2, TransitionSound, LinkObjectSound, UnlinkObjectSound, LinkProjectSound,
       UnlinkProjectSound, ClearProjectSound, DeleteContractSound
  <2> QED BY <1>6, <2>1, <2>2 DEF ContractStep
<1>7. Sound(db)'
  BY <1>4, <1>5, <1>6 DEF UserStep
<1> QED BY <1>2, <1>7 DEF ChainInv

LEMMA ImportStepSound ==
    ASSUME ChainInv, ImportStep
    PROVE  ChainInv' /\ Fills(db, db')
<1> PICK n \in Orders : Publish(n) \/ ImportOrder(n) \/ ImportContract(n)
  BY DEF ImportStep
<1>0. Sound(db) /\ edits \in Nat
  BY DEF ChainInv
<1>1. CASE Publish(n)
  <2>1. UNCHANGED <<db, edits>>
    BY <1>1 DEF Publish
  <2> QED BY <1>0, <2>1 DEF ChainInv, Fills
<1>2. CASE ImportOrder(n)
  <2>1. /\ db' = OrderDone(db, n) \/ db' = OrderCommitted(db, n)
        /\ edits' = edits
    BY <1>2 DEF ImportOrder, SaveImport, SaveLinked, Save
  <2>2. Sound(db') /\ Fills(db, db')
    BY <1>0, <2>1, OrderDoneSound, OrderCommittedSound
  <2> QED BY <1>0, <2>1, <2>2 DEF ChainInv
<1>3. CASE ImportContract(n)
  <2>1. db' = ContractDone(db, n) /\ edits' = edits
    BY <1>3 DEF ImportContract, SaveImport, SaveLinked, Save
  <2>2. Sound(db') /\ Fills(db, db')
    BY <1>0, <2>1, ContractDoneSound
  <2> QED BY <1>0, <2>1, <2>2 DEF ChainInv
<1> QED BY <1>1, <1>2, <1>3

LEMMA StepSound == ChainInv /\ [ChainNext]_chainVars => ChainInv'
<1>1. ASSUME ChainInv, UNCHANGED chainVars PROVE ChainInv'
  BY <1>1 DEF ChainInv, chainVars
<1> QED BY <1>1, UserStepSound, ImportStepSound DEF ChainNext

(* The tables stay sound, for any number of objects, rows and cards.       *)
THEOREM TablesSound == ChainSpec => []ChainInv
  BY InitialSound, StepSound, PTL DEF ChainSpec

(* Whoever links, unlinks, clears or imports, a contract's primary project *)
(* is one of its links.                                                    *)
THEOREM PrimaryAlwaysLinked == ChainSpec => []PrimaryIsLinked
<1>1. ChainInv => PrimaryIsLinked
  BY DEF ChainInv, Sound, Linked, PrimaryIsLinked
<1> QED BY <1>1, TablesSound, PTL

(* No sequence of handlers and imports makes two rows of one card.         *)
THEOREM CardsHaveOneRow == ChainSpec => []OneRowPerCard
<1>1. ChainInv => OneRowPerCard
  BY DEF ChainInv, Sound, Unique, OneRowPerCard
<1> QED BY <1>1, TablesSound, PTL

(* A step that is not a user's takes nothing back: links, the fields of a  *)
(* contract and the stages of its works.                                   *)
THEOREM ImportOnlyFills == ChainSpec => ImportFillsOnly
<1>1. ASSUME Fills(db, db') PROVE FillsOnly
  <2>1. \A links \in {"inTender", "ofObject", "leftObject", "ofProject"} :
          db[links] \subseteq db'[links]
    BY <1>1 DEF Fills
  <2>2. \A c \in Contracts :
          /\ \A f \in {"project", "tender", "number"} :
               db.contract[c][f] # None => db.contract'[c][f] = db.contract[c][f]
          /\ db.contract[c].status = "busy" =>
               db.contract'[c].status \in {"busy", "completed", "terminated"}
    BY <1>1 DEF Fills
  <2> QED BY <2>1, <2>2 DEF FillsOnly
<1>2. ChainInv /\ [ChainNext]_chainVars => [UNCHANGED <<notice, edits>> => FillsOnly]_chainVars
  BY <1>1, UserStepSound, ImportStepSound DEF ChainNext
<1> QED BY <1>2, TablesSound, PTL DEF ChainSpec, ImportFillsOnly

-----------------------------------------------------------------------------
(* One open project of an object                                           *)

Shaped(d) ==
    /\ DOMAIN d = Tables
    /\ DOMAIN d.project = Projects
    /\ \A p \in Projects :
         /\ DOMAIN d.project[p] = {"status", "object", "live"}
         /\ d.project[p].status \in ProjectStatus \cup {"none"}
         /\ d.project[p].status = "none" => d.project[p].live = FALSE

Single(d, R) == \A o \in Objects \ R : \A p, q \in OpenProjects(d, o) : p = q

(* A handler that began with the tables a has made d of them: no object    *)
(* has two open projects but those of R and those whose closed project the *)
(* handler has opened, and a project that is closed was so before.         *)
Carries(a, d, R) ==
    /\ Shaped(d)
    /\ \A p \in Projects :
         d.project[p].status \in ClosedStatus =>
             a.project[p].status \in ClosedStatus /\ a.project[p].object = d.project[p].object
    /\ Single(d, R \cup Reopened(a, d))

(* What a handler may commit.                                              *)
Allows(a, e, R) == Shaped(e) /\ Single(e, R \cup Reopened(a, e))

LEMMA CarriesAllows ==
    ASSUME NEW a, NEW d, NEW R, Carries(a, d, R) PROVE Allows(a, d, R)
  BY DEF Carries, Allows

LEMMA NoneReopened == \A d : Reopened(d, d) = {}
  BY DEF Reopened, OpenStatus, ClosedStatus

LEMMA StartCarries ==
    ASSUME NEW d, NEW R, Shaped(d), Single(d, R)
    PROVE  Carries(d, d, R)
  BY NoneReopened DEF Carries

LEMMA SameProjectsCarry ==
    ASSUME NEW a, NEW d, NEW e, NEW R, Carries(a, d, R), DOMAIN e = Tables, e.project = d.project
    PROVE  Carries(a, e, R)
<1>1. Reopened(a, e) = Reopened(a, d) /\ \A o : OpenProjects(e, o) = OpenProjects(d, o)
  BY DEF Reopened, OpenProjects
<1> QED BY <1>1 DEF Carries, Shaped, Single

LEMMA StatusesAre ==
    /\ OpenStatus \cap ClosedStatus = {} /\ ProjectStatus = OpenStatus \cup ClosedStatus
    /\ "none" \notin ProjectStatus
  BY DEF OpenStatus, ClosedStatus, ProjectStatus

LEMMA IsReopened ==
    ASSUME NEW a, NEW e, NEW p \in Projects,
           a.project[p].status \in ClosedStatus, e.project[p].status \in OpenStatus
    PROVE  a.project[p].object \in Reopened(a, e)
  BY DEF Reopened

(* Projects that are put in a stage of the works.                          *)
LEMMA SetProjectsCarries ==
    ASSUME NEW a, NEW d, NEW R, Carries(a, d, R), NEW S, NEW st \in OpenStatus
    PROVE  Carries(a, SetProjects(d, S, st), R)
<1> DEFINE e == SetProjects(d, S, st)
<1>1. /\ DOMAIN e = Tables /\ DOMAIN e.project = Projects
      /\ \A p \in Projects : e.project[p] = IF p \in S THEN [d.project[p] EXCEPT !.status = st]
                                            ELSE d.project[p]
  BY DEF Carries, Shaped, Tables, SetProjects
<1>2. \A p \in Projects : /\ DOMAIN e.project[p] = {"status", "object", "live"}
                          /\ e.project[p].status = IF p \in S THEN st ELSE d.project[p].status
                          /\ e.project[p].object = d.project[p].object
                          /\ e.project[p].live = d.project[p].live
  BY <1>1 DEF Carries, Shaped
<1> HIDE DEF e
<1>3. Shaped(e)
  BY <1>1, <1>2, StatusesAre DEF Carries, Shaped
<1>4. \A p \in Projects :
        e.project[p].status \in ClosedStatus =>
            a.project[p].status \in ClosedStatus /\ a.project[p].object = e.project[p].object
  BY <1>2, StatusesAre DEF Carries
<1>5. Reopened(a, d) \subseteq Reopened(a, e)
  BY <1>2 DEF Reopened
<1>6. ASSUME NEW o \in Objects \ Reopened(a, e), NEW p \in OpenProjects(e, o)
      PROVE  p \in OpenProjects(d, o)
  <2>1. /\ p \in Projects /\ e.project[p].object = o /\ e.project[p].live
        /\ e.project[p].status \in OpenStatus
    BY <1>6 DEF OpenProjects
  <2>2. d.project[p].object = o /\ d.project[p].live
    BY <1>2, <2>1
  <2>3. d.project[p].status # "none"
    BY <2>1, <2>2 DEF Carries, Shaped
  <2>4. d.project[p].status \notin ClosedStatus
    BY <1>6, <2>1, <2>2, IsReopened DEF Carries
  <2>5. d.project[p].status \in OpenStatus
    BY <2>1, <2>3, <2>4, StatusesAre DEF Carries, Shaped
  <2> QED BY <2>1, <2>2, <2>5 DEF OpenProjects
<1>7. Single(e, R \cup Reopened(a, e))
  BY <1>5, <1>6 DEF Carries, Single
<1> QED BY <1>3, <1>4, <1>7 DEF Carries, e

(* New rows, of objects without an open project.                           *)
NumberOf(d, S, o) == NextId(d.project) + Cardinality({x \in S : x < o})

LEMMA AddedProjects ==
    ASSUME NEW d, Shaped(d), NEW S, NEW st \in ProjectStatus, NEW e, e = AddProjects(d, S, st)
    PROVE  /\ Shaped(e)
           /\ \A p \in Projects :
                \/ e.project[p] = d.project[p]
                \/ /\ e.project[p].status = st
                   /\ e.project[p].object \in S
                   /\ p = NumberOf(d, S, e.project[p].object)
<1>1. /\ DOMAIN e = Tables /\ DOMAIN e.project = Projects
      /\ \A p \in Projects :
           e.project[p] = IF \E o \in S : NumberOf(d, S, o) = p
                          THEN [status |-> st, object |-> CHOOSE o \in S : NumberOf(d, S, o) = p,
                                live |-> TRUE]
                          ELSE d.project[p]
  BY DEF Shaped, Tables, AddProjects, NumberOf
<1>2. ASSUME NEW p \in Projects, NEW o \in S, NumberOf(d, S, o) = p
      PROVE  \E x \in S : /\ NumberOf(d, S, x) = p
                          /\ e.project[p] = [status |-> st, object |-> x, live |-> TRUE]
  <2> DEFINE x == CHOOSE y \in S : NumberOf(d, S, y) = p
  <2>1. x \in S /\ NumberOf(d, S, x) = p
    BY <1>2
  <2>2. e.project[p] = [status |-> st, object |-> x, live |-> TRUE]
    BY <1>1, <1>2
  <2> QED BY <2>1, <2>2
<1>3. ASSUME NEW p \in Projects
      PROVE  \/ e.project[p] = d.project[p]
             \/ \E x \in S : /\ NumberOf(d, S, x) = p
                             /\ e.project[p] = [status |-> st, object |-> x, live |-> TRUE]
  <2>1. CASE \E o \in S : NumberOf(d, S, o) = p
    BY <1>2, <2>1
  <2>2. CASE ~ \E o \in S : NumberOf(d, S, o) = p
    BY <1>1, <2>2
  <2> QED BY <2>1, <2>2
<1>4. Shaped(e)
  <2>1. ASSUME NEW p \in Projects
        PROVE  /\ DOMAIN e.project[p] = {"status", "object", "live"}
               /\ e.project[p].status \in ProjectStatus \cup {"none"}
               /\ e.project[p].status = "none" => e.project[p].live = FALSE
    <3>1. CASE e.project[p] = d.project[p]
      BY <3>1 DEF Shaped
    <3>2. ASSUME NEW x \in S, e.project[p] = [status |-> st, object |-> x, live |-> TRUE]
          PROVE  /\ DOMAIN e.project[p] = {"status", "object", "live"}
                 /\ e.project[p].status \in ProjectStatus \cup {"none"}
                 /\ e.project[p].status # "none"
      BY <3>2, StatusesAre
    <3> QED BY <1>3, <3>1, <3>2
  <2> QED BY <1>1, <2>1 DEF Shaped
<1>5. ASSUME NEW p \in Projects
      PROVE  \/ e.project[p] = d.project[p]
             \/ /\ e.project[p].status = st
                /\ e.project[p].object \in S
                /\ p = NumberOf(d, S, e.project[p].object)
  <2>1. ASSUME NEW x \in S, NumberOf(d, S, x) = p,
               e.project[p] = [status |-> st, object |-> x, live |-> TRUE]
        PROVE  /\ e.project[p].status = st /\ e.project[p].object = x
    BY <2>1
  <2> QED BY <1>3, <2>1
<1> QED BY <1>4, <1>5

LEMMA AddProjectsCarries ==
    ASSUME NEW a, NEW d, NEW R, Carries(a, d, R), NEW S, \A o \in S : OpenProjects(d, o) = {},
           NEW st \in OpenStatus
    PROVE  Carries(a, AddProjects(d, S, st), R)
<1> DEFINE e == AddProjects(d, S, st)
<1>1. /\ Shaped(e)
      /\ \A p \in Projects : \/ e.project[p] = d.project[p]
                             \/ /\ e.project[p].status = st
                                /\ e.project[p].object \in S
                                /\ p = NumberOf(d, S, e.project[p].object)
  BY AddedProjects, StatusesAre DEF Carries
<1> HIDE DEF e
<1>2. \A p \in Projects :
        e.project[p].status \in ClosedStatus =>
            a.project[p].status \in ClosedStatus /\ a.project[p].object = e.project[p].object
  BY <1>1, StatusesAre DEF Carries
<1>3. Reopened(a, d) \subseteq Reopened(a, e)
  BY <1>1 DEF Reopened
<1>4. ASSUME NEW o, NEW p \in OpenProjects(e, o)
      PROVE  p \in OpenProjects(d, o) \/ (o \in S /\ p = NumberOf(d, S, o))
  BY <1>1 DEF OpenProjects
<1>5. Single(e, R \cup Reopened(a, e))
  BY <1>3, <1>4 DEF Carries, Single
<1> QED BY <1>1, <1>2, <1>5 DEF Carries, e

LEMMA AddProjectsAllowed ==
    ASSUME NEW d, NEW R, Shaped(d), Single(d, R), NEW S, \A o \in S : OpenProjects(d, o) = {},
           NEW st \in ProjectStatus
    PROVE  Allows(d, AddProjects(d, S, st), R)
<1> DEFINE e == AddProjects(d, S, st)
<1>1. /\ Shaped(e)
      /\ \A p \in Projects : \/ e.project[p] = d.project[p]
                             \/ /\ e.project[p].status = st
                                /\ e.project[p].object \in S
                                /\ p = NumberOf(d, S, e.project[p].object)
  BY AddedProjects
<1> HIDE DEF e
<1>2. ASSUME NEW o, NEW p \in OpenProjects(e, o)
      PROVE  p \in OpenProjects(d, o) \/ (o \in S /\ p = NumberOf(d, S, o))
  BY <1>1 DEF OpenProjects
<1> QED BY <1>1, <1>2 DEF Allows, Single, e

(* Projects that are closed.                                               *)
LEMMA CloseAllowed ==
    ASSUME NEW a, NEW d, NEW R, Allows(a, d, R), NEW S, NEW st \in ClosedStatus,
           Reopened(a, d) = {}
    PROVE  Allows(a, SetProjects(d, S, st), R)
<1> DEFINE e == SetProjects(d, S, st)
<1>1. /\ DOMAIN e = Tables /\ DOMAIN e.project = Projects
      /\ \A p \in Projects : e.project[p] = IF p \in S THEN [d.project[p] EXCEPT !.status = st]
                                            ELSE d.project[p]
  BY DEF Allows, Shaped, Tables, SetProjects
<1>2. \A p \in Projects : /\ DOMAIN e.project[p] = {"status", "object", "live"}
                          /\ e.project[p].status = IF p \in S THEN st ELSE d.project[p].status
                          /\ e.project[p].object = d.project[p].object
                          /\ e.project[p].live = d.project[p].live
  BY <1>1 DEF Allows, Shaped
<1> HIDE DEF e
<1>3. Shaped(e)
  BY <1>1, <1>2, StatusesAre DEF Allows, Shaped
<1>4. \A o : OpenProjects(e, o) \subseteq OpenProjects(d, o)
  BY <1>2, StatusesAre DEF OpenProjects
<1> QED BY <1>3, <1>4 DEF Allows, Single, e

LEMMA SameProjectsAllowed ==
    ASSUME NEW a, NEW d, NEW e, NEW R, Allows(a, d, R), DOMAIN e = Tables, e.project = d.project
    PROVE  Allows(a, e, R)
<1>1. Reopened(a, e) = Reopened(a, d) /\ \A o : OpenProjects(e, o) = OpenProjects(d, o)
  BY DEF Reopened, OpenProjects
<1> QED BY <1>1 DEF Allows, Shaped, Single

(* Operators on the other tables.                                          *)
Elsewhere(d, e) == DOMAIN e = Tables /\ e.project = d.project

LEMMA ElsewhereOperators ==
    ASSUME NEW d, DOMAIN d = Tables
    PROVE  /\ \A S, st : Elsewhere(d, SetObjects(d, S, st))
           /\ \A t, S : Elsewhere(d, LinkTender(d, t, S))
           /\ \A c, S, p : Elsewhere(d, LinkProjects(d, c, S, p))
           /\ \A c, S : Elsewhere(d, LinkObjects(d, c, S))
           /\ \A c, S : Elsewhere(d, LinkNewObjects(d, c, S))
           /\ \A c, t : Elsewhere(d, FillTender(d, c, t))
           /\ \A n, st : Elsewhere(d, AddContract(d, n, st))
<1>1. \A S, st : Elsewhere(d, SetObjects(d, S, st))
  BY DEF Elsewhere, Tables, SetObjects
<1>2. \A t, S : Elsewhere(d, LinkTender(d, t, S))
  BY DEF Elsewhere, Tables, LinkTender
<1>3. \A c, S, p : Elsewhere(d, LinkProjects(d, c, S, p))
  BY DEF Elsewhere, Tables, LinkProjects
<1>4. \A c, S : Elsewhere(d, LinkObjects(d, c, S))
  BY DEF Elsewhere, Tables, LinkObjects
<1>5. \A c, S : Elsewhere(d, LinkNewObjects(d, c, S))
  BY <1>4 DEF LinkNewObjects
<1>6. \A c, t : Elsewhere(d, FillTender(d, c, t))
  BY DEF Elsewhere, Tables, FillTender
<1>7. \A n, st : Elsewhere(d, AddContract(d, n, st))
  BY DEF Elsewhere, Tables, AddContract
<1> QED BY <1>1, <1>2, <1>3, <1>4, <1>5, <1>6, <1>7, Zenon

LEMMA ElsewhereFields ==
    ASSUME NEW d, DOMAIN d = Tables
    PROVE  /\ \A t, st : Elsewhere(d, [d EXCEPT !.tender[t].status = st])
           /\ \A t, n : Elsewhere(d, [d EXCEPT !.tender[t].reg = n])
           /\ \A t, row : Elsewhere(d, [d EXCEPT !.tender[t] = row])
           /\ \A t, st, o : Elsewhere(d, [d EXCEPT !.tender[t].status = st, !.tender[t].object = o])
           /\ \A c, st : Elsewhere(d, [d EXCEPT !.contract[c].status = st])
           /\ \A c, n : Elsewhere(d, [d EXCEPT !.contract[c].reg = n])
<1>1. \A t, st : Elsewhere(d, [d EXCEPT !.tender[t].status = st])
  BY DEF Elsewhere, Tables
<1>2. \A t, n : Elsewhere(d, [d EXCEPT !.tender[t].reg = n])
  BY DEF Elsewhere, Tables
<1>3. \A t, row : Elsewhere(d, [d EXCEPT !.tender[t] = row])
  BY DEF Elsewhere, Tables
<1>4. \A t, st, o : Elsewhere(d, [d EXCEPT !.tender[t].status = st, !.tender[t].object = o])
  BY DEF Elsewhere, Tables
<1>5. \A c, st : Elsewhere(d, [d EXCEPT !.contract[c].status = st])
  BY DEF Elsewhere, Tables
<1>6. \A c, n : Elsewhere(d, [d EXCEPT !.contract[c].reg = n])
  BY DEF Elsewhere, Tables
<1> QED BY <1>1, <1>2, <1>3, <1>4, <1>5, <1>6, Zenon

LEMMA ElsewhereTrans ==
    ASSUME NEW d, NEW e, NEW f, Elsewhere(d, e), Elsewhere(e, f)
    PROVE  Elsewhere(d, f)
  BY DEF Elsewhere

LEMMA UpsertElsewhere ==
    ASSUME NEW d, DOMAIN d = Tables, NEW n PROVE Elsewhere(d, UpsertContract(d, n))
<1> DEFINE found == FindContract(d, n)
           c == IF found = None THEN NextId(d.contract) ELSE found
           row == IF found = None THEN AddContract(d, n, ContractStage(n))
                  ELSE [d EXCEPT !.contract[c].status = NewStage(n, @)]
<1>1. Elsewhere(d, row)
  <2>1. Elsewhere(d, AddContract(d, n, ContractStage(n)))
    BY ElsewhereOperators
  <2>2. Elsewhere(d, [d EXCEPT !.contract[c].status = NewStage(n, @)])
    BY DEF Elsewhere, Tables
  <2> HIDE DEF found, c
  <2> QED BY <2>1, <2>2
<1>2. UpsertContract(d, n) = [row EXCEPT !.contract[c].reg = n]
  BY DEF UpsertContract
<1> HIDE DEF row, c
<1>3. Elsewhere(row, [row EXCEPT !.contract[c].reg = n])
  BY <1>1, ElsewhereFields DEF Elsewhere
<1> QED BY <1>1, <1>2, <1>3, ElsewhereTrans

(* Whatever is elsewhere keeps what a handler carries.                     *)
LEMMA ElsewhereCarries ==
    ASSUME NEW a, NEW d, NEW R, Carries(a, d, R)
    PROVE  DOMAIN d = Tables /\ \A e : Elsewhere(d, e) => Carries(a, e, R)
  BY SameProjectsCarry DEF Elsewhere, Carries, Shaped

LEMMA ElsewhereAllowed ==
    ASSUME NEW a, NEW d, NEW R, Allows(a, d, R)
    PROVE  DOMAIN d = Tables /\ \A e : Elsewhere(d, e) => Allows(a, e, R)
<1>1. DOMAIN d = Tables
  BY DEF Allows, Shaped
<1>2. ASSUME NEW e, Elsewhere(d, e) PROVE Allows(a, e, R)
  BY <1>2, SameProjectsAllowed DEF Elsewhere
<1> QED BY <1>1, <1>2

LEMMA SetObjectsCarries ==
    ASSUME NEW a, NEW d, NEW R, Carries(a, d, R), NEW S, NEW st
    PROVE  Carries(a, SetObjects(d, S, st), R)
  BY ElsewhereCarries, ElsewhereOperators

LEMMA SideEffectsCarries ==
    ASSUME NEW a, NEW d, NEW R, Carries(a, d, R), NEW S, NEW st
    PROVE  Carries(a, SideEffects(d, S, st), R)
<1> DEFINE pst == IF st = "lost" THEN "active" ELSE "in_tender"
           ost == IF st = "lost" THEN "in_project" ELSE "in_tender"
           e == SetProjects(d, S, pst)
<1>1. pst \in OpenStatus
  BY DEF OpenStatus
<1>2. SideEffects(d, S, st) = SetObjects(e, ObjectsOf(d, S), ost)
  BY DEF SideEffects
<1> HIDE DEF pst, ost
<1>3. Carries(a, e, R)
  BY <1>1, SetProjectsCarries
<1> HIDE DEF e
<1> QED BY <1>2, <1>3, SetObjectsCarries

LEMMA AddTenderCarries ==
    ASSUME NEW a, NEW d, NEW R, Carries(a, d, R), NEW S, NEW o, NEW st
    PROVE  Carries(a, AddTender(d, S, o, st), R)
<1> DEFINE t == NextId(d.tender)
           e == [d EXCEPT !.tender[t] = [status |-> st, object |-> o, reg |-> None]]
           f == LinkTender(e, t, S)
<1>1. AddTender(d, S, o, st) = SideEffects(f, S, st)
  BY DEF AddTender
<1>2. Carries(a, e, R)
  BY ElsewhereCarries, ElsewhereFields
<1> HIDE DEF e
<1>3. Carries(a, f, R)
  BY <1>2, ElsewhereCarries, ElsewhereOperators
<1> HIDE DEF f
<1> QED BY <1>1, <1>3, SideEffectsCarries

LEMMA NoActiveProject ==
    ASSUME NEW d, NEW o, ActiveProject(d, o) = None
    PROVE  OpenProjects(d, o) = {}
<1>1. OpenProjects(d, o) \subseteq Projects
  BY DEF OpenProjects
<1>2. OpenProjects(d, o) # {} => Oldest(OpenProjects(d, o)) \in OpenProjects(d, o)
  BY <1>1, Constants, OldestIsMember
<1> QED BY <1>1, <1>2, Constants DEF ActiveProject

LEMMA EnsureProjectsCarries ==
    ASSUME NEW a, NEW d, NEW R, Carries(a, d, R), NEW S
    PROVE  Carries(a, EnsureProjects(d, S), R)
<1> DEFINE new == {o \in S : ActiveProject(d, o) = None}
           e == AddProjects(d, new, "active")
<1>1. \A o \in new : OpenProjects(d, o) = {}
  BY NoActiveProject
<1>2. EnsureProjects(d, S) = SetObjects(e, {o \in new : d.object[o] = "free"}, "in_project")
  BY DEF EnsureProjects
<1> HIDE DEF new
<1>3. Carries(a, e, R)
  BY <1>1, AddProjectsCarries DEF OpenStatus
<1> HIDE DEF e
<1> QED BY <1>2, <1>3, SetObjectsCarries

(* The contract of a matched object.                                       *)
LEMMA SyncContractCarries ==
    ASSUME NEW a, NEW d, NEW R, Carries(a, d, R), NEW n, NEW o, NEW t
    PROVE  Carries(a, SyncContract(d, n, o, t), R)
<1> DEFINE ensured == EnsureProjects(d, {o})
           p == ActiveProject(ensured, o)
           tender == IF t # None THEN t ELSE ActiveTender(ensured, o, p)
           row == UpsertContract(ensured, n)
           c == FindContract(row, n)
           filled == FillTender(row, c, tender)
           joined == LinkProjects(filled, c, {p}, p)
           placed == LinkNewObjects(joined, c, {o})
           linked == SetObjects(placed, {o}, "in_contract")
           done == SetProjects(linked, {p}, "in_contract")
<1>1. SyncContract(d, n, o, t) =
        IF tender = None THEN done ELSE [done EXCEPT !.tender[tender].status = "won"]
  BY DEF SyncContract, LinkImported
<1>2. Carries(a, ensured, R)
  BY EnsureProjectsCarries
<1> HIDE DEF ensured
<1>3. Carries(a, row, R)
  BY <1>2, ElsewhereCarries, UpsertElsewhere
<1> HIDE DEF row, p, c, tender
<1>4. Carries(a, filled, R)
  BY <1>3, ElsewhereCarries, ElsewhereOperators
<1> HIDE DEF filled
<1>5. Carries(a, joined, R)
  BY <1>4, ElsewhereCarries, ElsewhereOperators
<1> HIDE DEF joined
<1>6. Carries(a, placed, R)
  BY <1>5, ElsewhereCarries, ElsewhereOperators
<1> HIDE DEF placed
<1>7. Carries(a, linked, R)
  BY <1>6, SetObjectsCarries
<1> HIDE DEF linked
<1>8. Carries(a, done, R)
  BY <1>7, SetProjectsCarries DEF OpenStatus
<1> HIDE DEF done
<1>9. Carries(a, [done EXCEPT !.tender[tender].status = "won"], R)
  BY <1>8, ElsewhereCarries, ElsewhereFields
<1> QED BY <1>1, <1>8, <1>9

LEMMA WithNoticeCarries ==
    ASSUME NEW a, NEW d, NEW R, Carries(a, d, R), NEW n, NEW t, NEW p, NEW others
    PROVE  Carries(a, WithNotice(d, n, t, p, others), R)
<1> DEFINE found == [d EXCEPT !.tender[t].status = TenderStage(n)]
           tender == IF d.tender[t].status = "none"
                     THEN AddTender(d, {p}, MainObject[n], TenderStage(n))
                     ELSE SideEffects(found, LinkedProjects(d, t), TenderStage(n))
           named == [tender EXCEPT !.tender[t].reg = n]
<1>1. WithNotice(d, n, t, p, others) = LinkTender(named, t, others)
  BY DEF WithNotice
<1>2. Carries(a, found, R)
  BY ElsewhereCarries, ElsewhereFields
<1> HIDE DEF found
<1>3. Carries(a, AddTender(d, {p}, MainObject[n], TenderStage(n)), R)
  BY AddTenderCarries
<1>4. Carries(a, SideEffects(found, LinkedProjects(d, t), TenderStage(n)), R)
  BY <1>2, SideEffectsCarries
<1>5. Carries(a, tender, R)
  BY <1>3, <1>4
<1> HIDE DEF tender
<1>6. Carries(a, named, R)
  BY <1>5, ElsewhereCarries, ElsewhereFields
<1> HIDE DEF named
<1> QED BY <1>1, <1>6, ElsewhereCarries, ElsewhereOperators

LEMMA OrderCarries ==
    ASSUME NEW a, NEW d, NEW R, Carries(a, d, R), NEW n
    PROVE  Carries(a, OrderCommitted(d, n), R) /\ Carries(a, OrderDone(d, n), R)
<1> DEFINE ensured == EnsuredFor(d, n)
           p == ActiveProject(ensured, MainObject[n])
           found == ImportedTender(ensured, n, MainObject[n], p)
           t == IF found = None THEN NextId(ensured.tender) ELSE found
           others == {ActiveProject(ensured, o) : o \in OthersOf(n)}
           noted == WithNotice(ensured, n, t, p, others)
           first == OrderCommitted(d, n)
           c == FindContract(first, n)
           linked == LinkNewObjects(first, c, OthersOf(n))
<1>1. first = IF Signed(n) THEN SyncContract(noted, n, MainObject[n], t) ELSE noted
  BY DEF OrderCommitted
<1>2. Carries(a, ensured, R)
  BY EnsureProjectsCarries DEF EnsuredFor
<1> HIDE DEF ensured
<1>3. Carries(a, noted, R)
  BY <1>2, WithNoticeCarries
<1> HIDE DEF noted
<1>4. Carries(a, first, R)
  BY <1>1, <1>3, SyncContractCarries
<1>5. OrderDone(d, n) = IF Signed(n) THEN SetObjects(linked, OthersOf(n), "in_contract")
                        ELSE first
  BY DEF OrderDone, LinkImported
<1> HIDE DEF first, c
<1>6. Carries(a, linked, R)
  BY <1>4, ElsewhereCarries, ElsewhereOperators
<1> HIDE DEF linked
<1>7. Carries(a, OrderDone(d, n), R)
  BY <1>4, <1>5, <1>6, SetObjectsCarries
<1> QED BY <1>4, <1>7 DEF first

LEMMA ContractCarries ==
    ASSUME NEW a, NEW d, NEW R, Carries(a, d, R), NEW n
    PROVE  Carries(a, ContractDone(d, n), R)
<1>1. Carries(a, UpsertContract(d, n), R)
  BY ElsewhereCarries, UpsertElsewhere
<1>2. Carries(a, SyncContract(d, n, PlaceObject[n], None), R)
  BY SyncContractCarries
<1> QED BY <1>1, <1>2 DEF ContractDone

(* The handlers of users.                                                  *)
LEMMA WithProjectCarries ==
    ASSUME NEW a, NEW d, NEW R, Carries(a, d, R), NEW o
    PROVE  Carries(a, WithProject(d, o), R)
<1>1. ActiveProject(d, o) = None => Carries(a, AddProjects(d, {o}, "active"), R)
  BY NoActiveProject, AddProjectsCarries DEF OpenStatus
<1> QED BY <1>1, SetObjectsCarries DEF WithProject

LEMMA WithTenderCarries ==
    ASSUME NEW a, NEW d, NEW R, Carries(a, d, R), NEW o
    PROVE  Carries(a, WithTender(d, o), R)
<1> DEFINE p == ActiveProject(d, o)
           e == IF ActiveTender(d, o, p) = None THEN AddTender(d, {p}, o, "open") ELSE d
<1>1. Carries(a, e, R)
  BY AddTenderCarries
<1>2. WithTender(d, o) = SetObjects(e, {o}, "in_tender")
  BY DEF WithTender
<1> HIDE DEF e
<1> QED BY <1>1, <1>2, SetObjectsCarries

LEMMA WithContractCarries ==
    ASSUME NEW a, NEW d, NEW R, Carries(a, d, R), NEW o, NEW n
    PROVE  Carries(a, WithContract(d, o, n), R)
<1> DEFINE p == ActiveProject(d, o)
           found == ContractByNumber(d, n)
           c == IF found = None THEN NextId(d.contract) ELSE found
           row == IF found = None THEN AddContract(d, n, "draft") ELSE d
           placed == LinkObjects(row, c, {o})
           linked == LinkProjects(placed, c, {p}, p)
           filled == FillTender(linked, c, ActiveTender(d, o, p))
           busy == SetObjects(filled, {o}, "in_contract")
<1>1. WithContract(d, o, n) = SetProjects(busy, {p}, "in_contract")
  BY DEF WithContract
<1>2. Carries(a, row, R)
  BY ElsewhereCarries, ElsewhereOperators
<1> HIDE DEF row, c, p
<1>3. Carries(a, placed, R)
  BY <1>2, ElsewhereCarries, ElsewhereOperators
<1> HIDE DEF placed
<1>4. Carries(a, linked, R)
  BY <1>3, ElsewhereCarries, ElsewhereOperators
<1> HIDE DEF linked
<1>5. Carries(a, filled, R)
  BY <1>4, ElsewhereCarries, ElsewhereOperators
<1> HIDE DEF filled
<1>6. Carries(a, busy, R)
  BY <1>5, SetObjectsCarries
<1> HIDE DEF busy
<1> QED BY <1>1, <1>6, SetProjectsCarries DEF OpenStatus

OpenInv == Shaped(db) /\ Single(db, reopened)

LEMMA SavedIsSingle ==
    ASSUME NEW e, Allows(db, e, reopened), SaveLinked(e)
    PROVE  OpenInv'
  BY DEF Allows, SaveLinked, Save, OpenInv, Shaped, Single

LEMMA CreateProjectSingle ==
    ASSUME OpenInv, NEW o \in Objects, NEW st \in ProjectStatus, CreateProject(o, st)
    PROVE  OpenInv'
<1> DEFINE e == AddProjects(db, {o}, st)
<1>1. Allows(db, e, reopened)
  BY AddProjectsAllowed DEF OpenInv, CreateProject
<1> HIDE DEF e
<1>2. Allows(db, SetObjects(e, {o}, "in_project"), reopened)
  BY <1>1, ElsewhereAllowed, ElsewhereOperators
<1> QED BY <1>2, SavedIsSingle DEF CreateProject, UserSaves, e

(* The form of a project reopens it, and moves it to an object, only if no *)
(* other open project of the object is found.                              *)
LEMMA UpdateProjectSingle ==
    ASSUME OpenInv, NEW p \in Projects, NEW o \in Objects, NEW st \in ProjectStatus,
           UpdateProject(p, o, st)
    PROVE  OpenInv'
<1> DEFINE old == db.project[p].object
           moved == [db EXCEPT !.project[p].status = st, !.project[p].object = o]
           freed == IF old # o /\ db.object[old] = "in_project"
                    THEN SetObjects(moved, {old}, "free") ELSE moved
           placed == IF db.object[o] = "free" THEN SetObjects(freed, {o}, "in_project") ELSE freed
<1>1. /\ db.project[p].live /\ NoOtherOpen(p, o)
      /\ db' = placed /\ reopened' = reopened
  BY DEF UpdateProject, Save
<1>2. /\ DOMAIN moved = Tables /\ DOMAIN moved.project = Projects
      /\ \A q \in Projects : q # p => moved.project[q] = db.project[q]
      /\ moved.project[p] = [[db.project[p] EXCEPT !.status = st] EXCEPT !.object = o]
  BY DEF OpenInv, Shaped, Tables
<1>3. /\ DOMAIN moved.project[p] = {"status", "object", "live"}
      /\ moved.project[p].status = st /\ moved.project[p].object = o
  BY <1>2 DEF OpenInv, Shaped
<1> HIDE DEF moved
<1>4. Elsewhere(moved, freed)
  BY <1>2, ElsewhereOperators DEF Elsewhere
<1> HIDE DEF freed
<1>5. Elsewhere(freed, placed)
  BY <1>4, ElsewhereOperators DEF Elsewhere
<1>6. DOMAIN db' = Tables /\ db'.project = moved.project
  BY <1>1, <1>4, <1>5 DEF Elsewhere
<1>7. Shaped(db')
  <2>1. ASSUME NEW q \in Projects
        PROVE  /\ DOMAIN moved.project[q] = {"status", "object", "live"}
               /\ moved.project[q].status \in ProjectStatus \cup {"none"}
               /\ moved.project[q].status = "none" => moved.project[q].live = FALSE
    <3>1. CASE q = p
      BY <1>3, <3>1, StatusesAre
    <3>2. CASE q # p
      BY <1>2, <3>2 DEF OpenInv, Shaped
    <3> QED BY <3>1, <3>2
  <2> QED BY <1>2, <1>6, <2>1 DEF Shaped
<1>8. ASSUME NEW x \in Objects, NEW q \in OpenProjects(db', x)
      PROVE  q \in OpenProjects(db, x) \/ (q = p /\ x = o)
  BY ZenonT(60), <1>2, <1>3, <1>6 DEF OpenProjects
<1>9. Single(db', reopened)
  BY <1>1, <1>8 DEF OpenInv, Single, NoOtherOpen
<1> QED BY <1>1, <1>7, <1>9 DEF OpenInv

LEMMA DeleteProjectSingle ==
    ASSUME OpenInv, NEW p \in Projects, DeleteProject(p)
    PROVE  OpenInv'
<1> DEFINE e == [db EXCEPT !.project[p].live = FALSE]
<1>1. /\ DOMAIN e = Tables /\ DOMAIN e.project = Projects
      /\ \A q \in Projects : q # p => e.project[q] = db.project[q]
      /\ e.project[p] = [db.project[p] EXCEPT !.live = FALSE]
  BY DEF OpenInv, Shaped, Tables
<1>2. /\ DOMAIN e.project[p] = {"status", "object", "live"}
      /\ e.project[p].status = db.project[p].status /\ e.project[p].live = FALSE
  BY <1>1 DEF OpenInv, Shaped
<1>3. SaveLinked(e)
  BY DEF DeleteProject, UserSaves
<1> HIDE DEF e
<1>4. Shaped(e)
  BY <1>1, <1>2 DEF OpenInv, Shaped
<1>5. \A o : OpenProjects(e, o) \subseteq OpenProjects(db, o)
  BY <1>1, <1>2 DEF OpenProjects
<1>6. Allows(db, e, reopened)
  BY <1>4, <1>5 DEF OpenInv, Single, Allows
<1> QED BY <1>3, <1>6, SavedIsSingle

LEMMA ReplanSingle ==
    ASSUME OpenInv, NEW o \in Objects, NEW need \in Needs, NEW n, NEW st, NEW form,
           Replan(o, need, n, st, form)
    PROVE  OpenInv'
<1> DEFINE row == SetObjects(db, {o}, st)
           chain == WithProject(row, o)
           made == CASE need = "nothing" -> row
                     [] need = "project" -> chain
                     [] need = "tender" -> WithTender(chain, o)
                     [] need = "contract" -> WithContract(WithTender(chain, o), o, n)
                     [] need = "closed" -> row
           project == need # "nothing" /\ ActiveProject(made, o) # None
           saved == IF form /\ project THEN SetObjects(made, {o}, "in_project") ELSE made
<1>1. SaveLinked(saved)
  BY DEF Replan, UserSaves
<1>2. Carries(db, row, reopened)
  BY StartCarries, SetObjectsCarries DEF OpenInv
<1> HIDE DEF row
<1>3. Carries(db, chain, reopened)
  BY <1>2, WithProjectCarries
<1> HIDE DEF chain
<1>4. Carries(db, WithTender(chain, o), reopened)
  BY <1>3, WithTenderCarries
<1>5. Carries(db, WithContract(WithTender(chain, o), o, n), reopened)
  BY <1>4, WithContractCarries
<1>6. Carries(db, made, reopened)
  BY <1>2, <1>3, <1>4, <1>5 DEF Needs
<1> HIDE DEF made, project
<1>7. Carries(db, saved, reopened)
  BY <1>6, SetObjectsCarries
<1> HIDE DEF saved
<1> QED BY <1>1, <1>7, CarriesAllows, SavedIsSingle

LEMMA CreateTenderSingle ==
    ASSUME OpenInv, NEW S, NEW o, NEW st, CreateTender(S, o, st)
    PROVE  OpenInv'
  BY StartCarries, AddTenderCarries, CarriesAllows, SavedIsSingle
     DEF OpenInv, CreateTender, UserSaves

LEMMA RelinkedCarries ==
    ASSUME NEW R, Carries(db, db, R), NEW t, NEW S
    PROVE  Carries(db, Relinked(t, S), R)
<1> DEFINE removed == LinkedProjects(db, t) \ S
           back == {p \in removed : db.project[p].status = "in_tender"}
           unlinked == [db EXCEPT !.inTender = @ \ ({t} \X removed),
                                  !.leftTender = @ \cup ({t} \X removed)]
           freed == SetProjects(unlinked, back, "active")
           O == {o \in ObjectsOf(db, back) : db.object[o] = "in_tender"}
           planned == SetObjects(freed, O, "in_project")
<1>1. Relinked(t, S) = LinkTender(planned, t, S)
  BY DEF Relinked
<1>2. DOMAIN db = Tables
  BY DEF Carries, Shaped
<1>3. Elsewhere(db, unlinked)
  BY <1>2 DEF Elsewhere, Tables
<1>4. Carries(db, unlinked, R)
  BY <1>3, ElsewhereCarries
<1> HIDE DEF unlinked, back, O
<1>5. Carries(db, freed, R)
  BY <1>4, SetProjectsCarries DEF OpenStatus
<1> HIDE DEF freed
<1>6. Carries(db, planned, R)
  BY <1>5, SetObjectsCarries
<1> HIDE DEF planned
<1> QED BY <1>1, <1>6, ElsewhereCarries, ElsewhereOperators

LEMMA UpdateTenderSingle ==
    ASSUME OpenInv, NEW t, NEW S, NEW o, NEW st, UpdateTender(t, S, o, st)
    PROVE  OpenInv'
<1> DEFINE row(d) == [d EXCEPT !.tender[t].status = st, !.tender[t].object = o]
<1>1. PICK sync \in BOOLEAN :
        SaveLinked(SideEffects(row(IF sync THEN Relinked(t, S) ELSE db), S, st))
  BY DEF UpdateTender, UserSaves
<1> DEFINE d == IF sync THEN Relinked(t, S) ELSE db
           e == row(d)
<1>2. Carries(db, db, reopened)
  BY StartCarries DEF OpenInv
<1>3. Carries(db, d, reopened)
  BY <1>2, RelinkedCarries
<1> HIDE DEF d
<1>4. Carries(db, e, reopened)
  BY <1>3, ElsewhereCarries, ElsewhereFields
<1>5. SaveLinked(SideEffects(e, S, st))
  BY <1>1 DEF d
<1> HIDE DEF e
<1> QED BY <1>4, <1>5, SideEffectsCarries, CarriesAllows, SavedIsSingle

LEMMA CreateFromTenderSingle ==
    ASSUME OpenInv, NEW t, NEW n, NEW st, CreateFromTender(t, n, st)
    PROVE  OpenInv'
<1> DEFINE c == NextId(db.contract)
           S == LinkedProjects(db, t)
           O == ObjectsOf(db, S)
           added == AddContract(db, n, st)
           row == FillTender(added, c, t)
<1>1. PICK first \in S :
        SaveLinked(SetObjects(SetProjects(LinkObjects(LinkProjects(row, c, S, first), c, O),
                                          S, "in_contract"), O, "in_contract"))
  BY DEF CreateFromTender, UserSaves
<1> DEFINE joined == LinkProjects(row, c, S, first)
           placed == LinkObjects(joined, c, O)
           busy == SetProjects(placed, S, "in_contract")
           saved == SetObjects(busy, O, "in_contract")
<1>2. Carries(db, db, reopened)
  BY StartCarries DEF OpenInv
<1>3. SaveLinked(saved)
  BY <1>1
<1> HIDE DEF c, S, O
<1>4. Carries(db, added, reopened)
  BY <1>2, ElsewhereCarries, ElsewhereOperators
<1> HIDE DEF added
<1>5. Carries(db, row, reopened)
  BY <1>4, ElsewhereCarries, ElsewhereOperators
<1> HIDE DEF row
<1>6. Carries(db, joined, reopened)
  BY <1>5, ElsewhereCarries, ElsewhereOperators
<1> HIDE DEF joined
<1>7. Carries(db, placed, reopened)
  BY <1>6, ElsewhereCarries, ElsewhereOperators
<1> HIDE DEF placed
<1>8. Carries(db, busy, reopened)
  BY <1>7, SetProjectsCarries DEF OpenStatus
<1> HIDE DEF busy
<1>9. Carries(db, saved, reopened)
  BY <1>8, SetObjectsCarries
<1> HIDE DEF saved
<1> QED BY <1>3, <1>9, CarriesAllows, SavedIsSingle

LEMMA TransitionSingle ==
    ASSUME OpenInv, NEW c, NEW st, Transition(c, st)
    PROVE  OpenInv'
<1> DEFINE t == db.contract[c].tender
           d == [db EXCEPT !.contract[c].status = st]
           O == {o \in Objects : <<c, o>> \in db.ofObject \cup db.leftObject}
           S == {p \in Projects : <<t, p>> \in db.inTender \cup db.leftTender}
           e == SetObjects(d, O, "completed")
<1>1. SaveLinked(IF st = "completed" THEN SetProjects(e, S, "completed") ELSE d)
  BY DEF Transition, UserSaves
<1>2. Elsewhere(db, d)
  BY ElsewhereFields DEF OpenInv, Shaped
<1>3. Allows(db, db, reopened)
  BY StartCarries, CarriesAllows DEF OpenInv
<1>4. Allows(db, d, reopened) /\ d.project = db.project
  BY <1>2, <1>3, ElsewhereAllowed DEF Elsewhere
<1> HIDE DEF d, O, S
<1>5. Elsewhere(d, e)
  BY <1>2, ElsewhereOperators DEF Elsewhere
<1>6. Allows(db, e, reopened) /\ e.project = db.project
  BY <1>4, <1>5, ElsewhereAllowed DEF Elsewhere
<1> HIDE DEF e
<1>7. Reopened(db, e) = {}
  BY <1>6, NoneReopened DEF Reopened
<1>8. Allows(db, SetProjects(e, S, "completed"), reopened)
  BY <1>6, <1>7, CloseAllowed DEF ClosedStatus
<1> QED BY <1>1, <1>4, <1>8, SavedIsSingle

(* The other requests leave projects alone.                                *)
LEMMA ElsewhereSingle ==
    ASSUME OpenInv, NEW e, Elsewhere(db, e), SaveLinked(e)
    PROVE  OpenInv'
  BY StartCarries, CarriesAllows, ElsewhereAllowed, SavedIsSingle DEF OpenInv

LEMMA ContractStepSingle ==
    ASSUME OpenInv, ContractStep
    PROVE  OpenInv'
<1>1. DOMAIN db = Tables
  BY DEF OpenInv, Shaped
<1>2. ASSUME NEW n, NEW o, NEW st, CreateContract(n, o, st) PROVE OpenInv'
  <2> DEFINE c == NextId(db.contract)
             row == AddContract(db, n, st)
             placed == LinkObjects(row, c, {o})
             e == IF o = None THEN row ELSE SetObjects(placed, {o}, "in_contract")
  <2>1. SaveLinked(e)
    BY <1>2 DEF CreateContract, UserSaves
  <2>2. Elsewhere(db, row)
    BY <1>1, ElsewhereOperators
  <2> HIDE DEF row, c
  <2>3. Elsewhere(row, placed)
    BY <2>2, ElsewhereOperators DEF Elsewhere
  <2> HIDE DEF placed
  <2>4. Elsewhere(placed, SetObjects(placed, {o}, "in_contract"))
    BY <2>3, ElsewhereOperators DEF Elsewhere
  <2>5. Elsewhere(db, e)
    BY <2>2, <2>3, <2>4, ElsewhereTrans
  <2> QED BY <2>1, <2>5, ElsewhereSingle
<1>3. ASSUME NEW c, NEW n, NEW st, UpdateContract(c, n, st) PROVE OpenInv'
  <2> DEFINE e == [db EXCEPT !.contract[c].status = st, !.contract[c].number = n]
  <2>1. SaveLinked(e) /\ Elsewhere(db, e)
    BY <1>1, <1>3 DEF UpdateContract, UserSaves, Elsewhere, Tables
  <2> QED BY <2>1, ElsewhereSingle
<1>4. ASSUME NEW c, NEW o, LinkObject(c, o) PROVE OpenInv'
  <2> DEFINE placed == LinkObjects(db, c, {o})
             e == SetObjects(placed, {o}, "in_contract")
  <2>1. SaveLinked(e)
    BY <1>4 DEF LinkObject, UserSaves
  <2>2. Elsewhere(db, placed)
    BY <1>1, ElsewhereOperators
  <2> HIDE DEF placed
  <2>3. Elsewhere(placed, e)
    BY <2>2, ElsewhereOperators DEF Elsewhere
  <2> QED BY <2>1, <2>2, <2>3, ElsewhereTrans, ElsewhereSingle
<1>5. ASSUME NEW c, NEW o, UnlinkObject(c, o) PROVE OpenInv'
  <2> DEFINE e == [db EXCEPT !.ofObject = @ \ {<<c, o>>}, !.leftObject = @ \cup {<<c, o>>}]
  <2>1. SaveLinked(e) /\ Elsewhere(db, e)
    BY <1>1, <1>5 DEF UnlinkObject, UserSaves, Elsewhere, Tables
  <2> QED BY <2>1, ElsewhereSingle
<1>6. ASSUME NEW c, NEW p, LinkProject(c, p) PROVE OpenInv'
  <2>1. SaveLinked(LinkProjects(db, c, {p}, p)) /\ Elsewhere(db, LinkProjects(db, c, {p}, p))
    BY <1>1, <1>6, ElsewhereOperators DEF LinkProject, UserSaves
  <2> QED BY <2>1, ElsewhereSingle
<1>7. ASSUME NEW c, NEW p, UnlinkProject(c, p) PROVE OpenInv'
  <2>1. PICK q : SaveLinked([db EXCEPT !.ofProject = @ \ {<<c, p>>}, !.contract[c].project = q])
    BY <1>7 DEF UnlinkProject, UserSaves
  <2> DEFINE e == [db EXCEPT !.ofProject = @ \ {<<c, p>>}, !.contract[c].project = q]
  <2>2. Elsewhere(db, e)
    BY <1>1 DEF Elsewhere, Tables
  <2> QED BY <2>1, <2>2, ElsewhereSingle
<1>8. ASSUME NEW c, ClearProject(c) PROVE OpenInv'
  <2> DEFINE e == [db EXCEPT !.contract[c].project = None]
  <2>1. SaveLinked(e) /\ Elsewhere(db, e)
    BY <1>1, <1>8 DEF ClearProject, UserSaves, Elsewhere, Tables
  <2> QED BY <2>1, ElsewhereSingle
<1>9. ASSUME NEW c, DeleteContract(c) PROVE OpenInv'
  <2>1. SaveLinked([db EXCEPT !.contract[c].status = "deleted"])
    BY <1>9 DEF DeleteContract, UserSaves
  <2> QED BY <1>1, <2>1, ElsewhereFields, ElsewhereSingle
<1> QED BY <1>2, <1>3, <1>4, <1>5, <1>6, <1>7, <1>8, <1>9, CreateFromTenderSingle,
           TransitionSingle, Zenon DEF ContractStep

LEMMA ImportStepSingle ==
    ASSUME OpenInv, ImportStep
    PROVE  OpenInv'
<1> PICK n \in Orders : Publish(n) \/ ImportOrder(n) \/ ImportContract(n)
  BY DEF ImportStep
<1>1. Carries(db, db, reopened)
  BY StartCarries DEF OpenInv
<1>2. CASE Publish(n)
  BY <1>2 DEF Publish, OpenInv, Shaped, Single
<1>3. CASE ImportOrder(n)
  BY <1>1, <1>3, OrderCarries, CarriesAllows, SavedIsSingle DEF ImportOrder, SaveImport
<1>4. CASE ImportContract(n)
  BY <1>1, <1>4, ContractCarries, CarriesAllows, SavedIsSingle DEF ImportContract, SaveImport
<1> QED BY <1>2, <1>3, <1>4

(* A form of a project, the plan, a tender and a card of the site each     *)
(* find the open project of an object before they make one, so that there  *)
(* is never a second, unless a tender or a contract has opened one that    *)
(* was closed.                                                             *)
THEOREM ObjectHasOneProject == ChainSpec => []OneOpenProject
<1>1. ChainInit => OpenInv
  <2> SUFFICES ASSUME ChainInit PROVE OpenInv
    OBVIOUS
  <2>1. DOMAIN db = Tables /\ db.project = [p \in Projects |-> NoProject]
    BY DEF ChainInit, Tables
  <2>2. \A o : OpenProjects(db, o) = {}
    BY <2>1 DEF OpenProjects, NoProject
  <2> QED BY <2>1, <2>2 DEF OpenInv, Shaped, Single, NoProject
<1>2. OpenInv /\ [ChainNext]_chainVars => OpenInv'
  <2>1. ASSUME OpenInv, UNCHANGED chainVars PROVE OpenInv'
    BY <2>1 DEF chainVars, OpenInv, Shaped, Single
  <2>2. ASSUME OpenInv, ProjectStep PROVE OpenInv'
    BY <2>2, CreateProjectSingle, UpdateProjectSingle, DeleteProjectSingle, ReplanSingle
       DEF ProjectStep
  <2>3. ASSUME OpenInv, TenderStep PROVE OpenInv'
    BY <2>3, CreateTenderSingle, UpdateTenderSingle DEF TenderStep
  <2> QED BY <2>1, <2>2, <2>3, ContractStepSingle, ImportStepSingle DEF ChainNext, UserStep
<1>3. OpenInv => OneOpenProject
  <2> SUFFICES ASSUME OpenInv, NEW o \in Objects \ reopened
               PROVE  Cardinality(OpenProjects(db, o)) <= 1
    BY DEF OneOpenProject
  <2>1. OpenProjects(db, o) = {} \/ \E p : OpenProjects(db, o) = {p}
    BY DEF OpenInv, Single
  <2>2. Cardinality({}) = 0 /\ \A p : Cardinality({p}) = 1
    BY FS_EmptySet, FS_Singleton
  <2>3. CASE OpenProjects(db, o) = {}
    BY <2>2, <2>3
  <2>4. ASSUME NEW p, OpenProjects(db, o) = {p} PROVE Cardinality(OpenProjects(db, o)) = 1
    BY <2>2, <2>4
  <2> QED BY <2>1, <2>3, <2>4
<1> QED BY <1>1, <1>2, <1>3, PTL DEF ChainSpec
-----------------------------------------------------------------------------
(* Types                                                                   *)

ProjectRow == [status : ProjectStatus, object : Objects, live : BOOLEAN]
TenderRow == [status : TenderStatus, object : Objects \cup {None}, reg : Orders \cup {None}]
ContractRow == [status : ContractStatus \cup {"deleted"}, project : Projects \cup {None},
                tender : Tenders \cup {None}, number : Orders, reg : Orders \cup {None}]

Columns(d) ==
    /\ DOMAIN d = Tables
    /\ d.object \in [Objects -> ObjectStatus]
    /\ d.project \in [Projects -> ProjectRow \cup {NoProject}]
    /\ d.tender \in [Tenders -> TenderRow \cup {NoTender}]
    /\ d.contract \in [Contracts -> ContractRow \cup {NoContract}]
    /\ d.ofObject \cup d.leftObject \subseteq Contracts \X Objects
    /\ d.ofProject \subseteq Contracts \X Projects

Made(d, table) == {i \in DOMAIN d[table] : d[table][i].status # "none"}

(* Only rows that exist are linked, and projects are numbered in a row.    *)
Regular(d) ==
    /\ Columns(d)
    /\ d.inTender \cup d.leftTender \subseteq Made(d, "tender") \X Made(d, "project")
    /\ \A p \in Made(d, "project"), q \in Projects : q < p => q \in Made(d, "project")

(* What an operator keeps of tables d: rows, but for those it adds to the  *)
(* tables of T, open projects, and the card of a live contract.            *)
Keeping(d, e, T) ==
    /\ \A table \in {"project", "tender", "contract"} :
         /\ Made(d, table) \subseteq Made(e, table)
         /\ table \notin T => Made(e, table) = Made(d, table)
    /\ \A o : OpenProjects(d, o) \subseteq OpenProjects(e, o)
    /\ \A c \in LiveContracts(d) :
         c \in LiveContracts(e) /\ e.contract[c].reg = d.contract[c].reg

Grows(d, e, T) == Regular(e) /\ Keeping(d, e, T)

LEMMA GrowsTrans ==
    ASSUME NEW d, NEW e, NEW f, NEW T, NEW U, NEW V, Grows(d, e, T), Grows(e, f, U),
           T \cup U \subseteq V
    PROVE  Grows(d, f, V)
<1>1. \A table \in {"project", "tender", "contract"} :
        /\ Made(d, table) \subseteq Made(f, table)
        /\ table \notin V => Made(f, table) = Made(d, table)
  BY DEF Grows, Keeping
<1>2. \A o : OpenProjects(d, o) \subseteq OpenProjects(f, o)
  BY DEF Grows, Keeping
<1>3. \A c \in LiveContracts(d) :
        c \in LiveContracts(f) /\ f.contract[c].reg = d.contract[c].reg
  BY DEF Grows, Keeping
<1> QED BY <1>1, <1>2, <1>3 DEF Grows, Keeping

LEMMA SelfGrows ==
    ASSUME NEW d, Regular(d), NEW T PROVE Grows(d, d, T)
  BY DEF Grows, Keeping

LEMMA StatusTypes ==
    /\ "none" \notin ProjectStatus /\ "none" \notin TenderStatus
    /\ "none" \notin ContractStatus \cup {"deleted"} /\ "deleted" \notin ContractStatus
    /\ NoProject.status = "none" /\ NoTender.status = "none" /\ NoContract.status = "none"
    /\ OpenStatus \subseteq ProjectStatus /\ ClosedStatus \subseteq ProjectStatus
  BY DEF ProjectStatus, OpenStatus, ClosedStatus, TenderStatus, ContractStatus,
         NoProject, NoTender, NoContract

(* A row that exists is a whole one.                                       *)
LEMMA MadeRows ==
    ASSUME NEW d, Columns(d)
    PROVE  /\ Made(d, "project") = {p \in Projects : d.project[p] \in ProjectRow}
           /\ Made(d, "tender") = {t \in Tenders : d.tender[t] \in TenderRow}
           /\ Made(d, "contract") = {c \in Contracts : d.contract[c] \in ContractRow}
<1>1. Made(d, "project") = {p \in Projects : d.project[p] \in ProjectRow}
  BY StatusTypes DEF Columns, Made, ProjectRow
<1>2. Made(d, "tender") = {t \in Tenders : d.tender[t] \in TenderRow}
  BY StatusTypes DEF Columns, Made, TenderRow
<1>3. Made(d, "contract") = {c \in Contracts : d.contract[c] \in ContractRow}
  BY StatusTypes DEF Columns, Made, ContractRow
<1> QED BY <1>1, <1>2, <1>3

LEMMA LiveAreMade ==
    ASSUME NEW d, Columns(d)
    PROVE  LiveContracts(d) \subseteq Made(d, "contract")
  BY StatusTypes DEF Columns, Made, LiveContracts, LiveContract

LEMMA OpenAreMade ==
    ASSUME NEW d, Columns(d), NEW o
    PROVE  OpenProjects(d, o) \subseteq Made(d, "project")
  BY StatusTypes DEF Columns, Made, OpenProjects

LEMMA ActiveIsOpen ==
    ASSUME NEW d, NEW o, OpenProjects(d, o) # {}
    PROVE  ActiveProject(d, o) \in OpenProjects(d, o)
<1>1. OpenProjects(d, o) \subseteq Projects
  BY DEF OpenProjects
<1> QED BY <1>1, Constants, OldestIsMember DEF ActiveProject

LEMMA LinkedAreMade ==
    ASSUME NEW d, Regular(d), NEW t
    PROVE  LinkedProjects(d, t) \subseteq Made(d, "project")
  BY DEF Regular, LinkedProjects

(* Tables with the same rows of projects, tenders and contracts.           *)
LEMMA SameRowsKept ==
    ASSUME NEW d, NEW e, NEW T,
           e.project = d.project, e.tender = d.tender, e.contract = d.contract
    PROVE  /\ Keeping(d, e, T)
           /\ \A table \in {"project", "tender", "contract"} : Made(e, table) = Made(d, table)
<1>1. \A table \in {"project", "tender", "contract"} : Made(e, table) = Made(d, table)
  BY DEF Made
<1>2. \A o : OpenProjects(e, o) = OpenProjects(d, o)
  BY DEF OpenProjects
<1>3. LiveContracts(e) = LiveContracts(d)
  BY DEF LiveContracts, LiveContract
<1> QED BY <1>1, <1>2, <1>3 DEF Keeping

LEMMA SetObjectsGrows ==
    ASSUME NEW d, Regular(d), NEW S, NEW st \in ObjectStatus, NEW T
    PROVE  Grows(d, SetObjects(d, S, st), T)
<1> DEFINE e == SetObjects(d, S, st)
<1>1. /\ DOMAIN e = Tables
      /\ e.object = [o \in Objects |-> IF o \in S THEN st ELSE d.object[o]]
      /\ e.project = d.project /\ e.tender = d.tender /\ e.contract = d.contract
      /\ e.inTender = d.inTender /\ e.leftTender = d.leftTender /\ e.ofObject = d.ofObject
      /\ e.leftObject = d.leftObject /\ e.ofProject = d.ofProject
  BY DEF Regular, Columns, Tables, SetObjects
<1> HIDE DEF e
<1>2. Columns(e)
  BY <1>1 DEF Regular, Columns
<1>3. Keeping(d, e, T) /\ Made(e, "project") = Made(d, "project")
                       /\ Made(e, "tender") = Made(d, "tender")
  BY <1>1, SameRowsKept
<1>4. Regular(e)
  BY <1>1, <1>2, <1>3 DEF Regular
<1> QED BY <1>3, <1>4 DEF Grows, e

LEMMA LinkTenderGrows ==
    ASSUME NEW d, Regular(d), NEW t \in Made(d, "tender"), NEW S \in SUBSET Made(d, "project"), NEW T
    PROVE  Grows(d, LinkTender(d, t, S), T)
<1> DEFINE e == LinkTender(d, t, S)
<1>1. /\ DOMAIN e = Tables
      /\ e.inTender = d.inTender \cup ({t} \X S) /\ e.leftTender = d.leftTender \ ({t} \X S)
      /\ e.project = d.project /\ e.tender = d.tender /\ e.contract = d.contract
      /\ e.object = d.object /\ e.ofObject = d.ofObject
      /\ e.leftObject = d.leftObject /\ e.ofProject = d.ofProject
  BY DEF Regular, Columns, Tables, LinkTender
<1> HIDE DEF e
<1>2. Columns(e)
  BY <1>1 DEF Regular, Columns
<1>3. Keeping(d, e, T) /\ Made(e, "project") = Made(d, "project")
                       /\ Made(e, "tender") = Made(d, "tender")
  BY <1>1, SameRowsKept
<1>4. {t} \X S \subseteq Made(d, "tender") \X Made(d, "project")
  OBVIOUS
<1>5. Regular(e)
  BY <1>1, <1>2, <1>3, <1>4 DEF Regular
<1> QED BY <1>3, <1>5 DEF Grows, e

LEMMA LinkObjectsGrows ==
    ASSUME NEW d, Regular(d), NEW c \in Contracts, NEW S \in SUBSET Objects, NEW T
    PROVE  Grows(d, LinkObjects(d, c, S), T)
<1> DEFINE e == LinkObjects(d, c, S)
<1>1. /\ DOMAIN e = Tables
      /\ e.ofObject = d.ofObject \cup ({c} \X S) /\ e.leftObject = d.leftObject \ ({c} \X S)
      /\ e.project = d.project /\ e.tender = d.tender /\ e.contract = d.contract
      /\ e.object = d.object /\ e.inTender = d.inTender
      /\ e.leftTender = d.leftTender /\ e.ofProject = d.ofProject
  BY DEF Regular, Columns, Tables, LinkObjects
<1> HIDE DEF e
<1>2. {c} \X S \subseteq Contracts \X Objects
  OBVIOUS
<1>3. Columns(e)
  BY <1>1, <1>2 DEF Regular, Columns
<1>4. Keeping(d, e, T) /\ Made(e, "project") = Made(d, "project")
                       /\ Made(e, "tender") = Made(d, "tender")
  BY <1>1, SameRowsKept
<1>5. Regular(e)
  BY <1>1, <1>3, <1>4 DEF Regular
<1> QED BY <1>4, <1>5 DEF Grows, e

(* Rows that are added.                                                    *)
LEMMA OldestIsLeast ==
    ASSUME NEW S, S \subseteq Nat, S # {}
    PROVE  \A y \in S : Oldest(S) <= y
<1>1. Oldest(S) = CHOOSE x \in S : \A y \in S : x <= y
  BY DEF Oldest
<1>2. \E x \in S : \A y \in S : x <= y
  BY LeastOf
<1> QED BY <1>1, <1>2

LEMMA NextIsFree ==
    ASSUME NEW table, DOMAIN table \subseteq Nat, NEW k \in DOMAIN table, table[k].status = "none"
    PROVE  /\ NextId(table) \in DOMAIN table /\ table[NextId(table)].status = "none"
           /\ NextId(table) <= k
           /\ \A i \in DOMAIN table : i < NextId(table) => table[i].status # "none"
<1> DEFINE free == {i \in DOMAIN table : table[i].status = "none"}
<1>1. free \subseteq Nat /\ k \in free
  OBVIOUS
<1>2. Oldest(free) \in free /\ \A i \in free : Oldest(free) <= i
  BY <1>1, OldestIsMember, OldestIsLeast
<1>3. NextId(table) = Oldest(free)
  BY DEF NextId
<1> QED BY <1>1, <1>2, <1>3

(* Room for another row.                                                   *)
RoomForProjects(d) == \A p \in Made(d, "project") : p <= MaxProjects
RoomForTender(d) == \A t \in Made(d, "tender") : t <= MaxTenders
RoomForContract(d) == \A c \in Made(d, "contract") : c <= MaxContracts

LEMMA FitsIsRoom ==
    ASSUME NEW d, Regular(d), Fits(d)
    PROVE  RoomForProjects(d) /\ RoomForTender(d) /\ RoomForContract(d)
  BY DEF Regular, Columns, Fits, Made, RoomForProjects, RoomForTender, RoomForContract

LEMMA NextTender ==
    ASSUME NEW d, Regular(d), RoomForTender(d)
    PROVE  NextId(d.tender) \in Tenders \ Made(d, "tender")
<1>1. MaxTenders + 1 \in Tenders /\ MaxTenders + 1 \notin Made(d, "tender")
  BY ChainAssumption DEF Tenders, RoomForTender
<1>2. DOMAIN d.tender = Tenders
  BY DEF Regular, Columns
<1>3. d.tender[MaxTenders + 1].status = "none"
  BY <1>1, <1>2 DEF Made
<1>4. NextId(d.tender) \in Tenders /\ d.tender[NextId(d.tender)].status = "none"
  BY <1>1, <1>2, <1>3, Constants, NextIsFree
<1> QED BY <1>4 DEF Made

LEMMA NextContract ==
    ASSUME NEW d, Regular(d), RoomForContract(d)
    PROVE  NextId(d.contract) \in Contracts \ Made(d, "contract")
<1>1. MaxContracts + 1 \in Contracts /\ MaxContracts + 1 \notin Made(d, "contract")
  BY ChainAssumption DEF Contracts, RoomForContract
<1>2. DOMAIN d.contract = Contracts
  BY DEF Regular, Columns
<1>3. d.contract[MaxContracts + 1].status = "none"
  BY <1>1, <1>2 DEF Made
<1>4. NextId(d.contract) \in Contracts /\ d.contract[NextId(d.contract)].status = "none"
  BY <1>1, <1>2, <1>3, Constants, NextIsFree
<1> QED BY <1>4 DEF Made

LEMMA NextProject ==
    ASSUME NEW d, Regular(d), RoomForProjects(d), Objects # {}
    PROVE  LET n == NextId(d.project) IN
           /\ n \in Nat \ {0} /\ n <= MaxProjects + 1
           /\ Made(d, "project") = {p \in Projects : p < n}
<1> DEFINE n == NextId(d.project)
<1>1. Cardinality(Objects) \in Nat \ {0}
  BY ChainAssumption, FS_CardinalityType, FS_EmptySet
<1>2. MaxProjects + 1 \in Projects /\ MaxProjects + 1 \notin Made(d, "project")
  BY <1>1, ChainAssumption DEF Projects, RoomForProjects
<1>3. DOMAIN d.project = Projects
  BY DEF Regular, Columns
<1>4. d.project[MaxProjects + 1].status = "none"
  BY <1>2, <1>3 DEF Made
<1>5. /\ n \in Projects /\ d.project[n].status = "none" /\ n <= MaxProjects + 1
      /\ \A i \in Projects : i < n => d.project[i].status # "none"
  BY <1>2, <1>3, <1>4, Constants, NextIsFree
<1> HIDE DEF n
<1>6. n \notin Made(d, "project")
  BY <1>5 DEF Made
<1>7. ASSUME NEW p \in Made(d, "project") PROVE p \in Projects /\ p < n
  <2>1. p \in Projects /\ p # n
    BY <1>3, <1>6 DEF Made
  <2>2. ~ (n < p)
    BY <1>5, <1>6 DEF Regular
  <2> QED BY <1>5, <2>1, <2>2, Constants
<1>8. {p \in Projects : p < n} \subseteq Made(d, "project")
  BY <1>3, <1>5 DEF Made
<1>9. n \in Nat \ {0}
  BY <1>5, Constants DEF None
<1> QED BY <1>5, <1>7, <1>8, <1>9 DEF n

(* The numbers that new projects get follow one another.                   *)
LEMMA Ranks ==
    ASSUME NEW S, S \subseteq Nat, IsFiniteSet(S)
    PROVE  /\ \A o \in S : Cardinality({x \in S : x < o}) \in 0 .. Cardinality(S) - 1
           /\ \A o, y \in S : Cardinality({x \in S : x < o}) = Cardinality({x \in S : x < y}) => o = y
           /\ \A k \in 0 .. Cardinality(S) - 1 : \E o \in S : Cardinality({x \in S : x < o}) = k
<1> DEFINE below(o) == {x \in S : x < o}
           rank == [o \in S |-> Cardinality(below(o))]
           n == Cardinality(S)
<1>1. n \in Nat
  BY FS_CardinalityType
<1>2. ASSUME NEW o \in S
      PROVE  /\ IsFiniteSet(below(o)) /\ Cardinality(below(o)) \in Nat
             /\ IsFiniteSet(below(o) \cup {o})
             /\ Cardinality(below(o) \cup {o}) = Cardinality(below(o)) + 1
  <2>1. IsFiniteSet(below(o))
    BY FS_Subset
  <2>2. o \notin below(o)
    OBVIOUS
  <2> QED BY <2>1, <2>2, FS_CardinalityType, FS_AddElement
<1>3. ASSUME NEW o \in S PROVE Cardinality(below(o)) \in 0 .. n - 1
  <2>1. below(o) \cup {o} \in SUBSET S
    OBVIOUS
  <2>2. Cardinality(below(o) \cup {o}) <= n
    BY <2>1, FS_Subset
  <2> QED BY <1>1, <1>2, <2>2
<1>4. ASSUME NEW o \in S, NEW y \in S, o < y PROVE Cardinality(below(o)) < Cardinality(below(y))
  <2>1. below(o) \cup {o} \in SUBSET below(y)
    <3>1. o \in below(y)
      BY <1>4
    <3>2. ASSUME NEW x \in below(o) PROVE x \in below(y)
      <4>1. x \in S /\ x < o
        OBVIOUS
      <4>2. x < y
        BY <1>4, <4>1
      <4> QED BY <4>1, <4>2
    <3> HIDE DEF below
    <3> QED BY <3>1, <3>2
  <2>2. Cardinality(below(o) \cup {o}) <= Cardinality(below(y))
    BY <1>2, <2>1, FS_Subset
  <2>3. Cardinality(below(y)) \in Nat
    BY <1>2
  <2> HIDE DEF below
  <2> QED BY <1>2, <2>2, <2>3
<1>5. \A o, y \in S : Cardinality(below(o)) = Cardinality(below(y)) => o = y
  <2> SUFFICES ASSUME NEW o \in S, NEW y \in S, Cardinality(below(o)) = Cardinality(below(y)), o # y
               PROVE  FALSE
    OBVIOUS
  <2>1. o < y \/ y < o
    OBVIOUS
  <2>2. Cardinality(below(o)) \in Nat /\ Cardinality(below(y)) \in Nat
    BY <1>2
  <2> HIDE DEF below
  <2> QED BY <1>4, <2>1, <2>2
<1> HIDE DEF below
<1>6. rank \in Injection(S, 0 .. n - 1)
  BY <1>3, <1>5 DEF Injection, IsInjective
<1>7. IsFiniteSet(0 .. n - 1) /\ Cardinality(0 .. n - 1) = n
  <2> HIDE DEF n
  <2>1. 0 \in Int /\ n - 1 \in Int
    BY <1>1
  <2>2. /\ IsFiniteSet(0 .. n - 1)
        /\ Cardinality(0 .. n - 1) = IF 0 > n - 1 THEN 0 ELSE n - 1 - 0 + 1
    BY <2>1, FS_Interval
  <2> QED BY <1>1, <2>2
<1>8. rank \in Surjection(S, 0 .. n - 1)
  BY <1>6, <1>7, FS_Injection
<1>9. \A k \in 0 .. n - 1 : \E o \in S : Cardinality(below(o)) = k
  BY <1>8 DEF Surjection
<1> QED BY <1>3, <1>5, <1>9 DEF below

(* New projects: no row is overwritten, and each object gets its own.      *)
LEMMA AddProjectsGrows ==
    ASSUME NEW d, Regular(d), NEW S \in SUBSET Objects, S # {} => RoomForProjects(d),
           NEW st \in ProjectStatus
    PROVE  /\ Grows(d, AddProjects(d, S, st), {"project"})
           /\ st \in OpenStatus => \A o \in S : OpenProjects(AddProjects(d, S, st), o) # {}
<1> DEFINE e == AddProjects(d, S, st)
           n == NextId(d.project)
           k == Cardinality(S)
           number(o) == n + Cardinality({x \in S : x < o})
           row(o) == [status |-> st, object |-> o, live |-> TRUE]
<1>1. /\ DOMAIN e = Tables
      /\ e.project = [p \in Projects |->
            IF \E o \in S : number(o) = p
            THEN [status |-> st, object |-> CHOOSE o \in S : number(o) = p, live |-> TRUE]
            ELSE d.project[p]]
      /\ e.object = d.object /\ e.tender = d.tender /\ e.contract = d.contract
      /\ e.inTender = d.inTender /\ e.leftTender = d.leftTender /\ e.ofObject = d.ofObject
      /\ e.leftObject = d.leftObject /\ e.ofProject = d.ofProject
  BY DEF Regular, Columns, Tables, AddProjects
<1> HIDE DEF e
<1>2. IsFiniteSet(S) /\ S \subseteq Nat /\ k \in Nat /\ k <= Cardinality(Objects)
      /\ Cardinality(Objects) \in Nat
  BY ChainAssumption, FS_Subset, FS_CardinalityType
<1>3. CASE S = {}
  <2>1. e.project = d.project
    BY <1>1, <1>3 DEF Regular, Columns
  <2>2. Keeping(d, e, {"project"}) /\ Made(e, "project") = Made(d, "project")
                                  /\ Made(e, "tender") = Made(d, "tender")
    BY <1>1, <2>1, SameRowsKept
  <2>3. Regular(e)
    BY <1>1, <2>1, <2>2 DEF Regular, Columns
  <2> QED BY <1>3, <2>2, <2>3 DEF Grows, e
<1>4. CASE S # {}
  <2>1. /\ n \in Nat \ {0} /\ n <= MaxProjects + 1
        /\ Made(d, "project") = {p \in Projects : p < n}
    BY <1>4, NextProject
  <2> HIDE DEF n
  <2>2. /\ \A o \in S : Cardinality({x \in S : x < o}) \in 0 .. k - 1
        /\ \A o, y \in S : Cardinality({x \in S : x < o}) = Cardinality({x \in S : x < y}) => o = y
        /\ \A i \in 0 .. k - 1 : \E o \in S : Cardinality({x \in S : x < o}) = i
    BY <1>2, Ranks
  <2>3. /\ \A o \in S : number(o) \in n .. n + k - 1
        /\ \A o, y \in S : number(o) = number(y) => o = y
        /\ \A i \in n .. n + k - 1 : \E o \in S : number(o) = i
    <3>1. ASSUME NEW o \in S PROVE number(o) \in n .. n + k - 1
      BY <1>2, <2>1, <2>2
    <3>2. ASSUME NEW o \in S, NEW y \in S, number(o) = number(y) PROVE o = y
      <4>1. Cardinality({x \in S : x < o}) \in Nat /\ Cardinality({x \in S : x < y}) \in Nat
        BY <1>2, <2>2
      <4>2. Cardinality({x \in S : x < o}) = Cardinality({x \in S : x < y})
        BY <2>1, <3>2, <4>1
      <4> QED BY <2>2, <4>2
    <3>3. ASSUME NEW i \in n .. n + k - 1 PROVE \E o \in S : number(o) = i
      <4>1. i - n \in 0 .. k - 1
        BY <1>2, <2>1
      <4>2. PICK o \in S : Cardinality({x \in S : x < o}) = i - n
        BY <2>2, <4>1
      <4>3. number(o) = i
        BY <2>1, <4>2
      <4> QED BY <4>3
    <3> HIDE DEF number
    <3> QED BY <3>1, <3>2, <3>3
  <2>4. n .. n + k - 1 \subseteq Projects
    BY <1>2, <2>1, ChainAssumption DEF Projects
  <2> HIDE DEF number, k
  <2>5. ASSUME NEW o \in S PROVE number(o) \in Projects /\ e.project[number(o)] = row(o)
    <3>1. (CHOOSE y \in S : number(y) = number(o)) = o
      BY <2>3
    <3>2. number(o) \in Projects
      BY <2>3, <2>4
    <3>3. e.project[number(o)] =
            [status |-> st, object |-> CHOOSE y \in S : number(y) = number(o), live |-> TRUE]
      BY <1>1, <3>2
    <3> QED BY <3>1, <3>2, <3>3
  <2>6. ASSUME NEW p \in Projects, p \notin n .. n + k - 1 PROVE e.project[p] = d.project[p]
    BY <1>1, <2>3, <2>6
  <2>7. ASSUME NEW p \in n .. n + k - 1 PROVE \E o \in S : p = number(o) /\ e.project[p] = row(o)
    BY <2>3, <2>5
  <2>8. \A o \in S : row(o) \in ProjectRow
    BY DEF ProjectRow
  <2> HIDE DEF row
  <2>9. e.project \in [Projects -> ProjectRow \cup {NoProject}]
    <3>1. \A p \in Projects : e.project[p] \in ProjectRow \cup {NoProject}
      BY <2>6, <2>7, <2>8 DEF Regular, Columns
    <3> QED BY <1>1, <3>1
  <2>10. Columns(e)
    BY <1>1, <2>9 DEF Regular, Columns
  <2>11. Made(d, "project") \subseteq Made(e, "project")
    BY <2>1, <2>6, <1>2, <2>9, Constants DEF Made, Regular, Columns
  <2>12. Made(e, "project") \subseteq {p \in Projects : p < n + k}
    <3> SUFFICES ASSUME NEW p \in Projects, p \in Made(e, "project"), ~(p < n + k) PROVE FALSE
      BY <2>9 DEF Made
    <3>1. p \in Nat /\ k \in Nat /\ ~(p < n)
      BY <1>2, <2>1, Constants DEF k
    <3>2. p \notin n .. n + k - 1
      BY <2>1, <3>1
    <3>3. p \in Made(d, "project")
      BY <2>6, <3>2, <2>9 DEF Made, Regular, Columns
    <3> QED BY <2>1, <3>1, <3>3
  <2>13. {p \in Projects : p < n + k} \subseteq Made(e, "project")
    <3> SUFFICES ASSUME NEW p \in Projects, p < n + k PROVE p \in Made(e, "project")
      OBVIOUS
    <3>1. p \in Nat /\ k \in Nat
      BY <1>2, Constants DEF k
    <3>2. CASE p < n
      BY <2>1, <2>11, <3>2
    <3>3. CASE ~(p < n)
      <4>1. p \in n .. n + k - 1
        BY <2>1, <3>1, <3>3
      <4>2. e.project[p] \in ProjectRow
        BY <2>7, <2>8, <4>1
      <4> QED BY <2>10, <4>2, MadeRows
    <3> QED BY <3>2, <3>3
  <2>14. \A p \in Made(e, "project"), q \in Projects : q < p => q \in Made(e, "project")
    <3> SUFFICES ASSUME NEW p \in Made(e, "project"), NEW q \in Projects, q < p
                 PROVE  q \in Made(e, "project")
      OBVIOUS
    <3>1. p \in Projects /\ p < n + k
      BY <2>12
    <3>2. p \in Nat /\ q \in Nat /\ n \in Nat /\ k \in Nat
      BY <1>2, <2>1, <3>1, Constants
    <3>3. q < n + k
      BY <3>1, <3>2
    <3> QED BY <2>13, <3>3
  <2>15. /\ Made(e, "tender") = Made(d, "tender") /\ Made(e, "contract") = Made(d, "contract")
         /\ LiveContracts(e) = LiveContracts(d)
    BY <1>1 DEF Made, LiveContracts, LiveContract
  <2>16. Regular(e)
    <3>1. e.inTender \cup e.leftTender \subseteq Made(d, "tender") \X Made(d, "project")
      BY <1>1 DEF Regular
    <3>2. Made(d, "tender") \X Made(d, "project") \subseteq Made(e, "tender") \X Made(e, "project")
      BY <2>11, <2>15
    <3> QED BY <2>10, <2>14, <3>1, <3>2 DEF Regular
  <2>17. ASSUME NEW o, NEW p \in OpenProjects(d, o) PROVE p \in OpenProjects(e, o)
    <3>1. p \in Projects /\ p < n
      BY <2>1, OpenAreMade DEF Regular
    <3>2. p \notin n .. n + k - 1
      BY <2>1, <3>1, Constants
    <3> QED BY <2>6, <3>1, <3>2 DEF OpenProjects
  <2>18. Keeping(d, e, {"project"})
    BY <1>1, <2>11, <2>15, <2>17 DEF Keeping
  <2>19. ASSUME st \in OpenStatus, NEW o \in S PROVE OpenProjects(e, o) # {}
    <3>1. PICK p \in Projects : p = number(o) /\ e.project[p] = row(o)
      BY <2>5
    <3>2. p \in OpenProjects(e, o)
      BY <2>19, <3>1 DEF OpenProjects, row
    <3> QED BY <3>2
  <2> QED BY <2>16, <2>18, <2>19 DEF Grows, e
<1> QED BY <1>3, <1>4

(* Statuses of projects.  Closing one need not keep it open.               *)
LEMMA SetProjectsRegular ==
    ASSUME NEW d, Regular(d), NEW S, S \cap Projects \subseteq Made(d, "project"),
           NEW st \in ProjectStatus
    PROVE  /\ Regular(SetProjects(d, S, st))
           /\ st \in OpenStatus => \A T : Grows(d, SetProjects(d, S, st), T)
<1> DEFINE e == SetProjects(d, S, st)
<1>1. /\ DOMAIN e = Tables
      /\ e.project = [p \in Projects |-> IF p \in S THEN [d.project[p] EXCEPT !.status = st]
                                         ELSE d.project[p]]
      /\ e.object = d.object /\ e.tender = d.tender /\ e.contract = d.contract
      /\ e.inTender = d.inTender /\ e.leftTender = d.leftTender /\ e.ofObject = d.ofObject
      /\ e.leftObject = d.leftObject /\ e.ofProject = d.ofProject
  BY DEF Regular, Columns, Tables, SetProjects
<1> HIDE DEF e
<1>2. \A p \in S \cap Projects : d.project[p] \in ProjectRow
  BY MadeRows DEF Regular
<1>3. ASSUME NEW p \in S \cap Projects
      PROVE  /\ e.project[p] \in ProjectRow /\ e.project[p].status = st
             /\ e.project[p].object = d.project[p].object
             /\ e.project[p].live = d.project[p].live
  BY <1>1, <1>2 DEF ProjectRow
<1>4. \A p \in Projects \ S : e.project[p] = d.project[p]
  BY <1>1
<1>5. e.project \in [Projects -> ProjectRow \cup {NoProject}]
  <2>1. \A p \in Projects : e.project[p] \in ProjectRow \cup {NoProject}
    BY <1>3, <1>4 DEF Regular, Columns
  <2> QED BY <1>1, <2>1
<1>6. Columns(e)
  BY <1>1, <1>5 DEF Regular, Columns
<1>7. Made(e, "project") = Made(d, "project")
  <2>1. \A p \in Projects : e.project[p] \in ProjectRow <=> d.project[p] \in ProjectRow
    BY <1>2, <1>3, <1>4
  <2> QED BY <1>6, <2>1, MadeRows DEF Regular
<1>8. /\ Made(e, "tender") = Made(d, "tender") /\ Made(e, "contract") = Made(d, "contract")
      /\ LiveContracts(e) = LiveContracts(d)
  BY <1>1 DEF Made, LiveContracts, LiveContract
<1>9. Regular(e)
  BY <1>1, <1>6, <1>7, <1>8 DEF Regular
<1>10. ASSUME st \in OpenStatus, NEW o PROVE OpenProjects(d, o) \subseteq OpenProjects(e, o)
  BY <1>3, <1>4, <1>10 DEF OpenProjects
<1>11. ASSUME st \in OpenStatus, NEW T PROVE Keeping(d, e, T)
  BY <1>1, <1>7, <1>8, <1>10, <1>11 DEF Keeping
<1> QED BY <1>9, <1>11 DEF Grows, e

LEMMA SideEffectsGrows ==
    ASSUME NEW d, Regular(d), NEW S, S \cap Projects \subseteq Made(d, "project"), NEW st, NEW T
    PROVE  Grows(d, SideEffects(d, S, st), T)
<1> DEFINE pst == IF st = "lost" THEN "active" ELSE "in_tender"
           ost == IF st = "lost" THEN "in_project" ELSE "in_tender"
           e == SetProjects(d, S, pst)
<1>1. pst \in OpenStatus /\ pst \in ProjectStatus /\ ost \in ObjectStatus
  BY DEF OpenStatus, ProjectStatus, ObjectStatus
<1>2. SideEffects(d, S, st) = SetObjects(e, ObjectsOf(d, S), ost)
  BY DEF SideEffects
<1> HIDE DEF pst, ost
<1>3. Grows(d, e, T)
  BY <1>1, SetProjectsRegular
<1> HIDE DEF e
<1>4. Grows(e, SetObjects(e, ObjectsOf(d, S), ost), T)
  BY <1>1, <1>3, SetObjectsGrows DEF Grows
<1> QED BY <1>2, <1>3, <1>4, GrowsTrans

(* The row of a tender is new or changed.                                  *)
LEMMA TenderRowPut ==
    ASSUME NEW d, Regular(d), NEW t \in Tenders, NEW row \in TenderRow, NEW e, DOMAIN e = Tables,
           e.tender = [d.tender EXCEPT ![t] = row],
           \A table \in Tables \ {"tender"} : e[table] = d[table]
    PROVE  /\ Grows(d, e, {"tender"}) /\ t \in Made(e, "tender")
           /\ t \in Made(d, "tender") => \A T : Grows(d, e, T)
<1>1. /\ e.project = d.project /\ e.contract = d.contract /\ e.object = d.object
      /\ e.inTender = d.inTender /\ e.leftTender = d.leftTender /\ e.ofObject = d.ofObject
      /\ e.leftObject = d.leftObject /\ e.ofProject = d.ofProject
  BY DEF Tables
<1>2. e.tender \in [Tenders -> TenderRow \cup {NoTender}]
  BY DEF Regular, Columns
<1>3. Columns(e)
  BY <1>1, <1>2 DEF Regular, Columns
<1>4. Made(e, "tender") = Made(d, "tender") \cup {t}
  <2>1. e.tender[t] \in TenderRow /\ \A x \in Tenders \ {t} : e.tender[x] = d.tender[x]
    BY DEF Regular, Columns
  <2>2. /\ Made(d, "tender") = {x \in Tenders : d.tender[x] \in TenderRow}
        /\ Made(e, "tender") = {x \in Tenders : e.tender[x] \in TenderRow}
    BY <1>3, MadeRows DEF Regular
  <2> QED BY <2>1, <2>2
<1>5. /\ Made(e, "project") = Made(d, "project") /\ Made(e, "contract") = Made(d, "contract")
      /\ LiveContracts(e) = LiveContracts(d) /\ \A o : OpenProjects(e, o) = OpenProjects(d, o)
  BY <1>1 DEF Made, LiveContracts, LiveContract, OpenProjects
<1>6. Regular(e)
  <2>1. Made(d, "tender") \X Made(d, "project") \subseteq Made(e, "tender") \X Made(e, "project")
    BY <1>4, <1>5
  <2> QED BY <1>1, <1>3, <1>5, <2>1 DEF Regular
<1>7. Keeping(d, e, {"tender"})
  BY <1>1, <1>4, <1>5 DEF Keeping
<1>8. ASSUME t \in Made(d, "tender"), NEW T PROVE Keeping(d, e, T)
  BY <1>1, <1>4, <1>5, <1>8 DEF Keeping
<1> QED BY <1>4, <1>6, <1>7, <1>8 DEF Grows

LEMMA TenderFieldsGrow ==
    ASSUME NEW d, Regular(d), NEW t \in Made(d, "tender"), NEW T
    PROVE  /\ \A st \in TenderStatus : Grows(d, [d EXCEPT !.tender[t].status = st], T)
           /\ \A st \in TenderStatus, o \in Objects \cup {None} :
                Grows(d, [d EXCEPT !.tender[t].status = st, !.tender[t].object = o], T)
           /\ \A n \in Orders : Grows(d, [d EXCEPT !.tender[t].reg = n], T)
<1>1. t \in Tenders /\ d.tender[t] \in TenderRow /\ DOMAIN d = Tables /\ DOMAIN d.tender = Tenders
  BY MadeRows DEF Regular, Columns
<1>2. ASSUME NEW st \in TenderStatus PROVE Grows(d, [d EXCEPT !.tender[t].status = st], T)
  <2> DEFINE row == [d.tender[t] EXCEPT !.status = st]
             e == [d EXCEPT !.tender[t].status = st]
  <2>1. row \in TenderRow
    BY <1>1 DEF TenderRow
  <2>2. /\ DOMAIN e = Tables /\ e.tender = [d.tender EXCEPT ![t] = row]
        /\ \A table \in Tables \ {"tender"} : e[table] = d[table]
    BY <1>1 DEF Tables
  <2> HIDE DEF row, e
  <2> QED BY <1>1, <2>1, <2>2, TenderRowPut DEF e
<1>3. ASSUME NEW st \in TenderStatus, NEW o \in Objects \cup {None}
      PROVE  Grows(d, [d EXCEPT !.tender[t].status = st, !.tender[t].object = o], T)
  <2> DEFINE row == [d.tender[t] EXCEPT !.status = st, !.object = o]
             e == [d EXCEPT !.tender[t].status = st, !.tender[t].object = o]
  <2>1. row \in TenderRow
    BY <1>1 DEF TenderRow
  <2>2. /\ DOMAIN e = Tables /\ e.tender = [d.tender EXCEPT ![t] = row]
        /\ \A table \in Tables \ {"tender"} : e[table] = d[table]
    BY <1>1 DEF Tables
  <2> HIDE DEF row, e
  <2> QED BY <1>1, <2>1, <2>2, TenderRowPut DEF e
<1>4. ASSUME NEW n \in Orders PROVE Grows(d, [d EXCEPT !.tender[t].reg = n], T)
  <2> DEFINE row == [d.tender[t] EXCEPT !.reg = n]
             e == [d EXCEPT !.tender[t].reg = n]
  <2>1. row \in TenderRow
    BY <1>1 DEF TenderRow
  <2>2. /\ DOMAIN e = Tables /\ e.tender = [d.tender EXCEPT ![t] = row]
        /\ \A table \in Tables \ {"tender"} : e[table] = d[table]
    BY <1>1 DEF Tables
  <2> HIDE DEF row, e
  <2> QED BY <1>1, <2>1, <2>2, TenderRowPut DEF e
<1> QED BY <1>2, <1>3, <1>4

LEMMA AddTenderGrows ==
    ASSUME NEW d, Regular(d), RoomForTender(d), NEW S \in SUBSET Made(d, "project"),
           NEW o \in Objects \cup {None}, NEW st \in TenderStatus
    PROVE  /\ Grows(d, AddTender(d, S, o, st), {"tender"})
           /\ NextId(d.tender) \in Made(AddTender(d, S, o, st), "tender")
<1> DEFINE t == NextId(d.tender)
           row == [status |-> st, object |-> o, reg |-> None]
           e == [d EXCEPT !.tender[t] = row]
           f == LinkTender(e, t, S)
<1>0. AddTender(d, S, o, st) = SideEffects(f, S, st)
  BY DEF AddTender
<1>1. t \in Tenders
  BY NextTender
<1>2. row \in TenderRow
  BY DEF TenderRow
<1>3. /\ DOMAIN e = Tables /\ e.tender = [d.tender EXCEPT ![t] = row]
      /\ \A table \in Tables \ {"tender"} : e[table] = d[table]
  BY DEF Regular, Columns, Tables
<1> HIDE DEF t, row, e
<1>4. Grows(d, e, {"tender"}) /\ t \in Made(e, "tender")
  BY <1>1, <1>2, <1>3, TenderRowPut
<1>5. S \in SUBSET Made(e, "project")
  BY <1>4 DEF Grows, Keeping
<1>6. Grows(e, f, {"tender"})
  BY <1>4, <1>5, LinkTenderGrows DEF Grows
<1> HIDE DEF f
<1>7. S \cap Projects \subseteq Made(f, "project")
  BY <1>5, <1>6 DEF Grows, Keeping
<1>8. Grows(f, SideEffects(f, S, st), {"tender"})
  BY <1>6, <1>7, SideEffectsGrows DEF Grows
<1>9. Grows(e, SideEffects(f, S, st), {"tender"})
  BY <1>6, <1>8, GrowsTrans
<1>10. Grows(d, SideEffects(f, S, st), {"tender"})
  BY <1>4, <1>9, GrowsTrans
<1>11. t \in Made(SideEffects(f, S, st), "tender")
  BY <1>4, <1>9 DEF Grows, Keeping
<1> QED BY <1>0, <1>10, <1>11 DEF t

(* Contracts and their links may change.                                   *)
OnlyContracts(d, e) ==
    /\ DOMAIN e = Tables
    /\ \A table \in {"object", "project", "tender", "inTender", "leftTender"} :
          e[table] = d[table]
    /\ e.ofObject \cup e.leftObject \subseteq Contracts \X Objects
    /\ e.ofProject \subseteq Contracts \X Projects

LEMMA ContractRowPut ==
    ASSUME NEW d, Regular(d), NEW c \in Contracts, NEW row \in ContractRow,
           NEW e, OnlyContracts(d, e), e.contract = [d.contract EXCEPT ![c] = row]
    PROVE  /\ Regular(e)
           /\ Made(e, "project") = Made(d, "project") /\ Made(e, "tender") = Made(d, "tender")
           /\ Made(e, "contract") = Made(d, "contract") \cup {c}
           /\ (c \in LiveContracts(d) =>
                  row.status \in ContractStatus /\ row.reg = d.contract[c].reg)
              => /\ Grows(d, e, {"contract"})
                 /\ c \in Made(d, "contract") => \A T : Grows(d, e, T)
<1>1. /\ e.object = d.object /\ e.project = d.project /\ e.tender = d.tender
      /\ e.inTender = d.inTender /\ e.leftTender = d.leftTender
  BY DEF OnlyContracts
<1>2. /\ e.contract \in [Contracts -> ContractRow \cup {NoContract}] /\ e.contract[c] = row
      /\ \A x \in Contracts \ {c} : e.contract[x] = d.contract[x]
  BY DEF Regular, Columns
<1>3. Columns(e)
  BY <1>1, <1>2 DEF Regular, Columns, OnlyContracts
<1>4. Made(e, "contract") = Made(d, "contract") \cup {c}
  BY <1>2, <1>3, MadeRows DEF Regular
<1>5. /\ Made(e, "project") = Made(d, "project") /\ Made(e, "tender") = Made(d, "tender")
      /\ \A o : OpenProjects(e, o) = OpenProjects(d, o)
  BY <1>1 DEF Made, OpenProjects
<1>6. Regular(e)
  BY <1>1, <1>3, <1>5 DEF Regular
<1>7. ASSUME c \in LiveContracts(d) =>
                 row.status \in ContractStatus /\ row.reg = d.contract[c].reg,
             NEW x \in LiveContracts(d)
      PROVE  x \in LiveContracts(e) /\ e.contract[x].reg = d.contract[x].reg
  BY <1>2, <1>7 DEF LiveContracts, LiveContract
<1>8. ASSUME c \in LiveContracts(d) =>
                 row.status \in ContractStatus /\ row.reg = d.contract[c].reg
      PROVE  /\ Keeping(d, e, {"contract"})
             /\ c \in Made(d, "contract") => \A T : Keeping(d, e, T)
  BY <1>4, <1>5, <1>7, <1>8 DEF Keeping
<1> QED BY <1>2, <1>4, <1>5, <1>6, <1>8 DEF Grows

LEMMA AddContractGrows ==
    ASSUME NEW d, Regular(d), RoomForContract(d), NEW n \in Orders, NEW st \in ContractStatus
    PROVE  LET c == NextId(d.contract) IN
           /\ Grows(d, AddContract(d, n, st), {"contract"})
           /\ c \in LiveContracts(AddContract(d, n, st))
           /\ AddContract(d, n, st).contract[c].number = n
<1> DEFINE c == NextId(d.contract)
           row == [status |-> st, project |-> None, tender |-> None, number |-> n, reg |-> None]
           e == AddContract(d, n, st)
<1>1. c \in Contracts /\ c \notin Made(d, "contract")
  BY NextContract
<1>2. row \in ContractRow /\ row.status = st /\ row.number = n
  BY DEF ContractRow
<1>3. /\ DOMAIN e = Tables /\ e.contract = [d.contract EXCEPT ![c] = row]
      /\ \A table \in Tables \ {"contract"} : e[table] = d[table]
  BY DEF Regular, Columns, Tables, AddContract
<1>4. c \notin LiveContracts(d)
  BY <1>1, LiveAreMade DEF Regular
<1> HIDE DEF c, row, e
<1>5. OnlyContracts(d, e)
  BY <1>3 DEF Tables, OnlyContracts, Regular, Columns
<1>6. Grows(d, e, {"contract"})
  BY <1>1, <1>2, <1>3, <1>4, <1>5, ContractRowPut
<1>8. e.contract[c] = row
  BY <1>1, <1>3 DEF Regular, Columns
<1>7. c \in LiveContracts(e)
  BY <1>1, <1>2, <1>8 DEF LiveContracts, LiveContract
<1> QED BY <1>2, <1>6, <1>7, <1>8 DEF c, e

LEMMA LinkProjectsGrows ==
    ASSUME NEW d, Regular(d), NEW c \in Made(d, "contract"), NEW S \in SUBSET Projects,
           NEW p \in Projects, NEW T
    PROVE  Grows(d, LinkProjects(d, c, S, p), T)
<1> DEFINE old == d.contract[c]
           row == [old EXCEPT !.project = IF old.project = None THEN p ELSE old.project]
           e == LinkProjects(d, c, S, p)
<1>1. c \in Contracts /\ old \in ContractRow
  BY MadeRows DEF Regular
<1>2. row \in ContractRow /\ row.status = old.status /\ row.reg = old.reg
  BY <1>1 DEF ContractRow
<1>3. /\ DOMAIN e = Tables /\ e.contract = [d.contract EXCEPT ![c] = row]
      /\ e.ofProject = d.ofProject \cup ({c} \X S)
      /\ \A table \in Tables \ {"contract", "ofProject"} : e[table] = d[table]
  BY <1>1 DEF Regular, Columns, Tables, LinkProjects
<1> HIDE DEF row, e
<1>5. {c} \X S \subseteq Contracts \X Projects
  BY <1>1
<1>6. OnlyContracts(d, e)
  BY <1>3, <1>5 DEF Tables, OnlyContracts, Regular, Columns
<1>7. c \in LiveContracts(d) => row.status \in ContractStatus /\ row.reg = old.reg
  BY <1>2 DEF LiveContracts, LiveContract
<1> QED BY <1>1, <1>2, <1>3, <1>6, <1>7, ContractRowPut DEF e

LEMMA FillTenderGrows ==
    ASSUME NEW d, Regular(d), NEW c \in Made(d, "contract"), NEW t \in Tenders \cup {None}, NEW T
    PROVE  Grows(d, FillTender(d, c, t), T)
<1> DEFINE old == d.contract[c]
           row == [old EXCEPT !.tender = IF old.tender = None THEN t ELSE old.tender]
           e == FillTender(d, c, t)
<1>1. c \in Contracts /\ old \in ContractRow
  BY MadeRows DEF Regular
<1>2. row \in ContractRow /\ row.status = old.status /\ row.reg = old.reg
  BY <1>1 DEF ContractRow
<1>3. /\ DOMAIN e = Tables /\ e.contract = [d.contract EXCEPT ![c] = row]
      /\ \A table \in Tables \ {"contract"} : e[table] = d[table]
  BY <1>1 DEF Regular, Columns, Tables, FillTender
<1> HIDE DEF row, e
<1>5. OnlyContracts(d, e)
  BY <1>3 DEF Tables, OnlyContracts, Regular, Columns
<1>6. c \in LiveContracts(d) => row.status \in ContractStatus /\ row.reg = old.reg
  BY <1>2 DEF LiveContracts, LiveContract
<1> QED BY <1>1, <1>2, <1>3, <1>5, <1>6, ContractRowPut DEF e

(* Fields of a contract that a handler or the import overwrites.           *)
LEMMA ContractFieldsRegular ==
    ASSUME NEW d, Regular(d), NEW c \in Made(d, "contract"), NEW e, DOMAIN e = Tables,
           NEW row \in ContractRow, e.contract = [d.contract EXCEPT ![c] = row],
           \A table \in Tables \ {"contract", "ofProject"} : e[table] = d[table],
           e.ofProject \subseteq d.ofProject
    PROVE  /\ Regular(e) /\ e.contract[c] = row
           /\ Made(e, "project") = Made(d, "project") /\ Made(e, "tender") = Made(d, "tender")
           /\ Made(e, "contract") = Made(d, "contract")
<1>1. c \in Contracts /\ Made(d, "contract") \cup {c} = Made(d, "contract")
  BY MadeRows DEF Regular
<1>3. OnlyContracts(d, e)
  BY DEF Tables, OnlyContracts, Regular, Columns
<1>2. e.contract[c] = row
  BY <1>1 DEF Regular, Columns
<1>4. /\ Regular(e)
      /\ Made(e, "project") = Made(d, "project") /\ Made(e, "tender") = Made(d, "tender")
      /\ Made(e, "contract") = Made(d, "contract") \cup {c}
  BY <1>1, <1>3, ContractRowPut
<1> QED BY <1>1, <1>2, <1>4

LEMMA LinkImportedGrows ==
    ASSUME NEW d, Regular(d), NEW c \in Contracts, NEW S \in SUBSET Objects, NEW T
    PROVE  Grows(d, LinkImported(d, c, S), T)
<1> DEFINE new == {o \in S : <<c, o>> \notin d.leftObject}
           e == LinkObjects(d, c, new)
<1>1. LinkImported(d, c, S) = SetObjects(e, S, "in_contract")
  BY DEF LinkImported, LinkNewObjects
<1>2. new \in SUBSET Objects
  OBVIOUS
<1> HIDE DEF new
<1>3. Grows(d, e, T)
  BY <1>2, LinkObjectsGrows
<1> HIDE DEF e
<1>4. Grows(e, SetObjects(e, S, "in_contract"), T)
  BY <1>3, SetObjectsGrows DEF Grows, ObjectStatus
<1> QED BY <1>1, <1>3, <1>4, GrowsTrans

LEMMA FindIsLive ==
    ASSUME NEW d, NEW n
    PROVE  /\ FindContract(d, n) = None \/ FindContract(d, n) \in LiveContracts(d)
           /\ \A c \in LiveContracts(d) :
                d.contract[c].reg = n => FindContract(d, n) \in LiveContracts(d)
<1> DEFINE R == {c \in Contracts : LiveContract(d, c) /\ d.contract[c].reg = n}
<1>1. R \subseteq Nat /\ R \subseteq LiveContracts(d)
  BY Constants DEF LiveContracts
<1>2. CASE R # {}
  <2>1. FindContract(d, n) = Oldest(R) /\ Oldest(R) \in R
    BY <1>1, <1>2, OldestIsMember DEF FindContract
  <2> QED BY <1>1, <2>1
<1>3. CASE R = {}
  <2>1. FindContract(d, n) = ContractByNumber(d, n)
    BY <1>3 DEF FindContract
  <2>2. \A c \in LiveContracts(d) : d.contract[c].reg # n
    BY <1>3 DEF LiveContracts
  <2> QED BY <2>1, <2>2, ContractByNumberIs
<1> QED BY <1>2, <1>3

(* A live contract has the card of the register.                           *)
HasCard(d, n) == \E c \in LiveContracts(d) : d.contract[c].reg = n

LEMMA CardIsFound ==
    ASSUME NEW d, NEW n, HasCard(d, n)
    PROVE  FindContract(d, n) \in LiveContracts(d) /\ FindContract(d, n) \in Contracts
  BY FindIsLive DEF HasCard, LiveContracts

LEMMA CardStays ==
    ASSUME NEW d, NEW n, HasCard(d, n), NEW e, NEW T, Grows(d, e, T)
    PROVE  HasCard(e, n)
  BY DEF HasCard, Grows, Keeping

LEMMA UpsertContractRegular ==
    ASSUME NEW d, Regular(d), RoomForContract(d), NEW n \in Orders
    PROVE  LET e == UpsertContract(d, n) IN
           /\ Regular(e) /\ Made(e, "project") = Made(d, "project")
           /\ Made(e, "tender") = Made(d, "tender")
           /\ HasCard(e, n)
<1> DEFINE found == FindContract(d, n)
           c == IF found = None THEN NextId(d.contract) ELSE found
           row == IF found = None THEN AddContract(d, n, ContractStage(n))
                  ELSE [d EXCEPT !.contract[c].status = NewStage(n, @)]
           e == [row EXCEPT !.contract[c].reg = n]
<1>0. UpsertContract(d, n) = e
  BY DEF UpsertContract
<1>1. ContractStage(n) \in ContractStatus /\ \A st : NewStage(n, st) \in ContractStatus
  BY DEF ContractStage, NewStage, ContractStatus
<1>2. /\ Regular(row) /\ Made(row, "project") = Made(d, "project")
      /\ Made(row, "tender") = Made(d, "tender") /\ c \in LiveContracts(row)
  <2>1. CASE found = None
    <3>1. row = AddContract(d, n, ContractStage(n)) /\ c = NextId(d.contract)
      BY <2>1
    <3>2. Grows(d, row, {"contract"}) /\ c \in LiveContracts(row)
      BY <1>1, <3>1, AddContractGrows
    <3> QED BY <3>2 DEF Grows, Keeping
  <2>2. CASE found # None
    <3>1. c = found /\ c \in LiveContracts(d)
      BY <2>2, FindIsLive
    <3> DEFINE new == [d.contract[c] EXCEPT !.status = NewStage(n, d.contract[c].status)]
    <3>2. c \in Made(d, "contract") /\ d.contract[c] \in ContractRow
      BY <3>1, LiveAreMade, MadeRows DEF Regular
    <3>3. new \in ContractRow /\ new.status \in ContractStatus
      BY <1>1, <3>2 DEF ContractRow
    <3>4. row = [d EXCEPT !.contract[c].status = NewStage(n, d.contract[c].status)]
      BY <2>2
    <3>5. /\ DOMAIN row = Tables /\ row.contract = [d.contract EXCEPT ![c] = new]
          /\ \A table \in Tables \ {"contract", "ofProject"} : row[table] = d[table]
          /\ row.ofProject = d.ofProject
      BY <3>2, <3>4 DEF Regular, Columns, Tables
    <3> HIDE DEF new, row, c, found
    <3>6. /\ Regular(row) /\ row.contract[c] = new
          /\ Made(row, "project") = Made(d, "project") /\ Made(row, "tender") = Made(d, "tender")
      BY <3>2, <3>3, <3>5, ContractFieldsRegular
    <3>7. c \in LiveContracts(row)
      BY <3>1, <3>3, <3>6 DEF LiveContracts, LiveContract
    <3> QED BY <3>6, <3>7
  <2> QED BY <2>1, <2>2
<1> HIDE DEF row, c, found
<1> DEFINE new == [row.contract[c] EXCEPT !.reg = n]
<1>3. c \in Made(row, "contract") /\ row.contract[c] \in ContractRow
  BY <1>2, LiveAreMade, MadeRows DEF Regular
<1>4. new \in ContractRow /\ new.status = row.contract[c].status /\ new.reg = n
  BY <1>3 DEF ContractRow
<1>5. /\ DOMAIN e = Tables /\ e.contract = [row.contract EXCEPT ![c] = new]
      /\ \A table \in Tables \ {"contract", "ofProject"} : e[table] = row[table]
      /\ e.ofProject = row.ofProject
  BY <1>2, <1>3 DEF Regular, Columns, Tables
<1> HIDE DEF new, e
<1>6. /\ Regular(e) /\ e.contract[c] = new
      /\ Made(e, "project") = Made(row, "project") /\ Made(e, "tender") = Made(row, "tender")
  BY <1>2, <1>3, <1>4, <1>5, ContractFieldsRegular
<1>7. c \in LiveContracts(e) /\ e.contract[c].reg = n
  BY <1>2, <1>4, <1>6 DEF LiveContracts, LiveContract
<1> QED BY <1>0, <1>2, <1>6, <1>7 DEF HasCard

LEMMA EnsureProjectsGrows ==
    ASSUME NEW d, Regular(d), NEW S \in SUBSET Objects,
           RoomForProjects(d) \/ \A o \in S : OpenProjects(d, o) # {}
    PROVE  /\ Grows(d, EnsureProjects(d, S), {"project"})
           /\ \A o \in S : OpenProjects(EnsureProjects(d, S), o) # {}
<1> DEFINE new == {o \in S : ActiveProject(d, o) = None}
           e == AddProjects(d, new, "active")
           f == SetObjects(e, {o \in new : d.object[o] = "free"}, "in_project")
<1>0. EnsureProjects(d, S) = f
  BY DEF EnsureProjects
<1>1. new \in SUBSET Objects
  OBVIOUS
<1>2. \A o \in S \ new : OpenProjects(d, o) # {}
  BY DEF ActiveProject, Oldest
<1>3. \A o \in new : OpenProjects(d, o) = {}
  BY NoActiveProject
<1>4. new # {} => RoomForProjects(d)
  BY <1>3
<1>5. \A o \in S : o \in new \/ o \in S \ new
  OBVIOUS
<1> HIDE DEF new
<1>6. "active" \in ProjectStatus /\ "active" \in OpenStatus /\ "in_project" \in ObjectStatus
  BY DEF ProjectStatus, OpenStatus, ObjectStatus
<1>7. Grows(d, e, {"project"}) /\ \A o \in new : OpenProjects(e, o) # {}
  BY <1>1, <1>4, <1>6, AddProjectsGrows
<1> HIDE DEF e
<1>8. Grows(e, f, {"project"})
  BY <1>6, <1>7, SetObjectsGrows DEF Grows
<1> HIDE DEF f
<1>9. Grows(d, f, {"project"})
  BY <1>7, <1>8, GrowsTrans
<1>10. ASSUME NEW o \in S PROVE OpenProjects(f, o) # {}
  <2>1. CASE o \in new
    BY <1>7, <1>8, <2>1 DEF Grows, Keeping
  <2>2. CASE o \in S \ new
    BY <1>2, <1>9, <2>2 DEF Grows, Keeping
  <2> QED BY <1>5, <2>1, <2>2
<1> QED BY <1>0, <1>9, <1>10

LEMMA ActiveTenderIs ==
    ASSUME NEW d, Regular(d), NEW o, NEW p
    PROVE  ActiveTender(d, o, p) \in Made(d, "tender") \cup {None}
<1> DEFINE A == {t \in Tenders : d.tender[t].status # "none" /\ d.tender[t].object = o}
           B == {t \in Tenders : p \in LinkedProjects(d, t)}
<1>1. A \subseteq Made(d, "tender") /\ A \subseteq Nat
  BY Constants DEF Regular, Columns, Made
<1>2. B \subseteq Made(d, "tender") /\ B \subseteq Nat
  BY Constants DEF Regular, LinkedProjects
<1>3. A # {} => Oldest(A) \in A
  BY <1>1, OldestIsMember
<1>4. B # {} => Oldest(B) \in B
  BY <1>2, OldestIsMember
<1>5. B = {} => Oldest(B) = None
  BY DEF Oldest
<1>6. ActiveTender(d, o, p) = IF A # {} THEN Oldest(A) ELSE Oldest(B)
  BY DEF ActiveTender
<1> HIDE DEF A, B
<1> QED BY <1>1, <1>2, <1>3, <1>4, <1>5, <1>6

LEMMA ImportedTenderMade ==
    ASSUME NEW d, Regular(d), NEW n \in Orders, NEW o, NEW p
    PROVE  ImportedTender(d, n, o, p) \in Made(d, "tender") \cup {None}
<1> DEFINE R == {t \in Tenders : d.tender[t].reg = n}
<1>1. n # None /\ NoTender.reg = None
  BY ChainAssumption DEF NoTender
<1>2. R \subseteq {t \in Tenders : d.tender[t] \in TenderRow}
  BY <1>1 DEF Regular, Columns
<1>3. R \subseteq Made(d, "tender") /\ R \subseteq Nat
  BY <1>2, MadeRows, Constants DEF Regular
<1>4. R # {} => Oldest(R) \in R
  BY <1>3, OldestIsMember
<1> QED BY <1>3, <1>4, ActiveTenderIs DEF ImportedTender

LEMMA SyncContractRegular ==
    ASSUME NEW d, Regular(d), RoomForContract(d), NEW n \in Orders, NEW o \in Objects,
           RoomForProjects(d) \/ OpenProjects(d, o) # {},
           NEW t \in Made(d, "tender") \cup {None}
    PROVE  Regular(SyncContract(d, n, o, t)) /\ HasCard(SyncContract(d, n, o, t), n)
<1> DEFINE ensured == EnsureProjects(d, {o})
           p == ActiveProject(ensured, o)
           tender == IF t # None THEN t ELSE ActiveTender(ensured, o, p)
           row == UpsertContract(ensured, n)
           c == FindContract(row, n)
           filled == FillTender(row, c, tender)
           joined == LinkProjects(filled, c, {p}, p)
           linked == LinkImported(joined, c, {o})
           done == SetProjects(linked, {p}, "in_contract")
           last == IF tender = None THEN done ELSE [done EXCEPT !.tender[tender].status = "won"]
<1>0. SyncContract(d, n, o, t) = last
  BY DEF SyncContract
<1>1. Grows(d, ensured, {"project"}) /\ OpenProjects(ensured, o) # {}
  BY EnsureProjectsGrows
<1>2. Regular(ensured) /\ RoomForContract(ensured) /\ t \in Made(ensured, "tender") \cup {None}
  BY <1>1 DEF Grows, Keeping, RoomForContract
<1> HIDE DEF ensured
<1>3. p \in Made(ensured, "project") /\ p \in Projects
  BY <1>1, <1>2, ActiveIsOpen, OpenAreMade DEF Regular, OpenProjects
<1>4. tender \in Made(ensured, "tender") \cup {None}
  BY <1>2, ActiveTenderIs
<1> HIDE DEF p, tender
<1>5. /\ Regular(row) /\ Made(row, "project") = Made(ensured, "project")
      /\ Made(row, "tender") = Made(ensured, "tender") /\ HasCard(row, n)
  BY <1>2, UpsertContractRegular
<1> HIDE DEF row
<1>6. c \in Made(row, "contract") /\ c \in Contracts
  BY <1>5, CardIsFound, LiveAreMade DEF Regular
<1>7. p \in Made(row, "project") /\ tender \in Made(row, "tender") \cup {None}
      /\ tender \in Tenders \cup {None}
  BY <1>3, <1>4, <1>5, MadeRows DEF Regular
<1> HIDE DEF c
<1>8. Grows(row, filled, {})
  BY <1>5, <1>6, <1>7, FillTenderGrows
<1>9. Regular(filled) /\ c \in Made(filled, "contract")
  BY <1>6, <1>8 DEF Grows, Keeping
<1> HIDE DEF filled
<1>10. Grows(filled, joined, {})
  BY <1>3, <1>9, LinkProjectsGrows
<1> HIDE DEF joined
<1>11. Grows(joined, linked, {})
  BY <1>6, <1>10, LinkImportedGrows DEF Grows
<1>12. Grows(row, linked, {})
  BY <1>8, <1>10, <1>11, GrowsTrans
<1> HIDE DEF linked
<1>13. p \in Made(linked, "project")
  BY <1>7, <1>12 DEF Grows, Keeping
<1>14. "in_contract" \in OpenStatus /\ "in_contract" \in ProjectStatus /\ "won" \in TenderStatus
  BY DEF OpenStatus, ProjectStatus, TenderStatus
<1>15. Grows(linked, done, {})
  BY <1>12, <1>13, <1>14, SetProjectsRegular DEF Grows
<1>16. Grows(row, done, {})
  BY <1>12, <1>15, GrowsTrans
<1> HIDE DEF done
<1>17. Grows(done, last, {})
  <2>1. CASE tender = None
    BY <1>16, <2>1, SelfGrows DEF Grows
  <2>2. CASE tender # None
    <3>1. tender \in Made(done, "tender")
      BY <1>7, <1>16, <2>2 DEF Grows, Keeping
    <3> QED BY <1>14, <1>16, <2>2, <3>1, TenderFieldsGrow DEF Grows
  <2> QED BY <2>1, <2>2
<1>18. Grows(row, last, {})
  BY <1>16, <1>17, GrowsTrans
<1> QED BY <1>0, <1>5, <1>18, CardStays DEF Grows

LEMMA WithNoticeGrows ==
    ASSUME NEW d, Regular(d), NEW n \in Orders, MainObject[n] \in Objects,
           NEW p \in Made(d, "project"), NEW others \in SUBSET Made(d, "project"),
           NEW t, t \in Made(d, "tender") \/ (RoomForTender(d) /\ t = NextId(d.tender))
    PROVE  /\ Grows(d, WithNotice(d, n, t, p, others), {"tender"})
           /\ t \in Made(WithNotice(d, n, t, p, others), "tender")
<1> DEFINE found == [d EXCEPT !.tender[t].status = TenderStage(n)]
           added == AddTender(d, {p}, MainObject[n], TenderStage(n))
           effects == SideEffects(found, LinkedProjects(d, t), TenderStage(n))
           tender == IF d.tender[t].status = "none" THEN added ELSE effects
           noted == [tender EXCEPT !.tender[t].reg = n]
           linked == LinkTender(noted, t, others)
<1>0. WithNotice(d, n, t, p, others) = linked
  BY DEF WithNotice
<1>1. TenderStage(n) \in TenderStatus
  BY DEF TenderStage, TenderStatus
<1>2. Grows(d, tender, {"tender"}) /\ t \in Made(tender, "tender")
  <2>1. CASE t \in Made(d, "tender")
    <3>1. d.tender[t].status # "none"
      BY <2>1 DEF Made
    <3>2. Grows(d, found, {"tender"})
      BY <1>1, <2>1, TenderFieldsGrow
    <3> HIDE DEF found
    <3>3. LinkedProjects(d, t) \cap Projects \subseteq Made(found, "project")
      BY <3>2, LinkedAreMade DEF Grows, Keeping
    <3>4. Grows(found, effects, {"tender"})
      BY <3>2, <3>3, SideEffectsGrows DEF Grows
    <3> HIDE DEF effects
    <3>5. Grows(d, effects, {"tender"})
      BY <3>2, <3>4, GrowsTrans
    <3>6. tender = effects
      BY <3>1
    <3> QED BY <2>1, <3>5, <3>6 DEF Grows, Keeping
  <2>2. CASE t \notin Made(d, "tender")
    <3>1. RoomForTender(d) /\ t = NextId(d.tender)
      BY <2>2
    <3>2. t \in Tenders
      BY <3>1, NextTender
    <3>3. d.tender[t].status = "none"
      BY <2>2, <3>2 DEF Made, Regular, Columns
    <3>4. Grows(d, added, {"tender"}) /\ t \in Made(added, "tender")
      BY <1>1, <3>1, AddTenderGrows
    <3>5. tender = added
      BY <3>3
    <3> QED BY <3>4, <3>5
  <2> QED BY <2>1, <2>2
<1> HIDE DEF tender
<1>3. Grows(tender, noted, {"tender"})
  BY <1>2, TenderFieldsGrow DEF Grows
<1>4. Grows(d, noted, {"tender"}) /\ t \in Made(noted, "tender")
  BY <1>2, <1>3, GrowsTrans DEF Grows, Keeping
<1> HIDE DEF noted
<1>5. others \in SUBSET Made(noted, "project")
  BY <1>4 DEF Grows, Keeping
<1>6. Grows(noted, linked, {"tender"})
  BY <1>4, <1>5, LinkTenderGrows DEF Grows
<1>7. Grows(d, linked, {"tender"}) /\ t \in Made(linked, "tender")
  BY <1>4, <1>6, GrowsTrans DEF Grows, Keeping
<1> QED BY <1>0, <1>7

LEMMA OrderCommittedRegular ==
    ASSUME NEW d, Regular(d), Fits(d), NEW n \in Orders, MainObject[n] # None
    PROVE  /\ Regular(OrderCommitted(d, n))
           /\ Signed(n) => HasCard(OrderCommitted(d, n), n)
<1> DEFINE ensured == EnsuredFor(d, n)
           p == ActiveProject(ensured, MainObject[n])
           found == ImportedTender(ensured, n, MainObject[n], p)
           t == IF found = None THEN NextId(ensured.tender) ELSE found
           others == {ActiveProject(ensured, o) : o \in OthersOf(n)}
           noted == WithNotice(ensured, n, t, p, others)
           synced == SyncContract(noted, n, MainObject[n], t)
<1>0. OrderCommitted(d, n) = IF Signed(n) THEN synced ELSE noted
  BY DEF OrderCommitted
<1>1. MainObject[n] \in Objects /\ OthersOf(n) \subseteq Objects
  BY ChainAssumption DEF OthersOf
<1>2. RoomForProjects(d) /\ RoomForTender(d) /\ RoomForContract(d)
  BY FitsIsRoom
<1>3. /\ Grows(d, ensured, {"project"})
      /\ \A o \in {MainObject[n]} \cup OthersOf(n) : OpenProjects(ensured, o) # {}
  BY <1>1, <1>2, EnsureProjectsGrows DEF EnsuredFor
<1> HIDE DEF ensured
<1>4. Regular(ensured) /\ RoomForTender(ensured) /\ RoomForContract(ensured)
  BY <1>2, <1>3 DEF Grows, Keeping, RoomForTender, RoomForContract
<1>5. \A o \in {MainObject[n]} \cup OthersOf(n) : ActiveProject(ensured, o) \in Made(ensured, "project")
  BY <1>3, <1>4, ActiveIsOpen, OpenAreMade DEF Regular
<1>6. p \in Made(ensured, "project") /\ others \in SUBSET Made(ensured, "project")
  BY <1>5
<1>7. t \in Made(ensured, "tender") \/ (RoomForTender(ensured) /\ t = NextId(ensured.tender))
  BY <1>4, ImportedTenderMade
<1> HIDE DEF p, t, others
<1>8. Grows(ensured, noted, {"tender"}) /\ t \in Made(noted, "tender")
  BY <1>1, <1>4, <1>6, <1>7, WithNoticeGrows
<1> HIDE DEF noted
<1>9. Regular(noted) /\ RoomForContract(noted) /\ OpenProjects(noted, MainObject[n]) # {}
  BY <1>3, <1>4, <1>8 DEF Grows, Keeping, RoomForContract
<1>10. Regular(synced) /\ HasCard(synced, n)
  BY <1>1, <1>8, <1>9, SyncContractRegular
<1> QED BY <1>0, <1>9, <1>10

LEMMA OrderDoneRegular ==
    ASSUME NEW d, Regular(d), Fits(d), NEW n \in Orders, MainObject[n] # None
    PROVE  Regular(OrderDone(d, n))
<1> DEFINE first == OrderCommitted(d, n)
           c == FindContract(first, n)
<1>1. Regular(first) /\ (Signed(n) => HasCard(first, n))
  BY OrderCommittedRegular
<1>2. OrderDone(d, n) = IF Signed(n) THEN LinkImported(first, c, OthersOf(n)) ELSE first
  BY DEF OrderDone
<1>3. Signed(n) => c \in Contracts
  BY <1>1, CardIsFound
<1> HIDE DEF first, c
<1>4. OthersOf(n) \in SUBSET Objects
  BY ChainAssumption DEF OthersOf
<1>5. Signed(n) => Grows(first, LinkImported(first, c, OthersOf(n)), {})
  BY <1>1, <1>3, <1>4, LinkImportedGrows
<1> QED BY <1>1, <1>2, <1>5 DEF Grows

LEMMA ContractDoneRegular ==
    ASSUME NEW d, Regular(d), Fits(d), NEW n \in Orders
    PROVE  Regular(ContractDone(d, n))
<1>1. RoomForProjects(d) /\ RoomForContract(d)
  BY FitsIsRoom
<1>2. CASE PlaceObject[n] = None
  BY <1>1, <1>2, UpsertContractRegular DEF ContractDone
<1>3. CASE PlaceObject[n] # None
  <2>1. PlaceObject[n] \in Objects
    BY <1>3, ChainAssumption
  <2> QED BY <1>1, <1>3, <2>1, SyncContractRegular DEF ContractDone
<1> QED BY <1>2, <1>3

(* What the handlers of users commit.                                      *)
LEMMA ProjectRowPut ==
    ASSUME NEW d, Regular(d), NEW p \in Made(d, "project"), NEW row \in ProjectRow,
           NEW e, DOMAIN e = Tables, e.project = [d.project EXCEPT ![p] = row],
           \A table \in Tables \ {"project"} : e[table] = d[table]
    PROVE  Regular(e)
<1>1. /\ e.tender = d.tender /\ e.contract = d.contract /\ e.object = d.object
      /\ e.inTender = d.inTender /\ e.leftTender = d.leftTender /\ e.ofObject = d.ofObject
      /\ e.leftObject = d.leftObject /\ e.ofProject = d.ofProject
  BY DEF Tables
<1>2. p \in Projects
  BY MadeRows DEF Regular
<1>3. /\ e.project \in [Projects -> ProjectRow \cup {NoProject}] /\ e.project[p] \in ProjectRow
      /\ \A x \in Projects \ {p} : e.project[x] = d.project[x]
  BY <1>2 DEF Regular, Columns
<1>4. Columns(e)
  BY <1>1, <1>3 DEF Regular, Columns
<1>5. /\ Made(d, "project") = {x \in Projects : d.project[x] \in ProjectRow}
      /\ Made(e, "project") = {x \in Projects : e.project[x] \in ProjectRow}
  BY <1>4, MadeRows DEF Regular
<1>6. Made(e, "project") = Made(d, "project")
  BY <1>3, <1>5
<1>7. Made(e, "tender") = Made(d, "tender")
  BY <1>1 DEF Made
<1> QED BY <1>1, <1>4, <1>6, <1>7 DEF Regular

LEMMA LiveProjectIs ==
    ASSUME NEW d, Regular(d), NEW p \in Projects, d.project[p].live
    PROVE  p \in Made(d, "project") /\ d.project[p] \in ProjectRow
<1>1. d.project[p] \in ProjectRow
  BY DEF Regular, Columns, NoProject
<1> QED BY <1>1, MadeRows DEF Regular

LEMMA CreateProjectRegular ==
    ASSUME Regular(db), Fits(db), NEW o \in Objects, NEW st \in ProjectStatus, CreateProject(o, st)
    PROVE  Regular(db')
<1> DEFINE e == AddProjects(db, {o}, st)
<1>1. db' = SetObjects(e, {o}, "in_project")
  BY DEF CreateProject, UserSaves, SaveLinked, Save
<1>2. Grows(db, e, {"project"})
  BY FitsIsRoom, AddProjectsGrows
<1> HIDE DEF e
<1> QED BY <1>1, <1>2, SetObjectsGrows DEF Grows, ObjectStatus

LEMMA UpdateProjectRegular ==
    ASSUME Regular(db), NEW p \in Projects, NEW o \in Objects, NEW st \in ProjectStatus,
           UpdateProject(p, o, st)
    PROVE  Regular(db')
<1> DEFINE old == db.project[p].object
           moved == [db EXCEPT !.project[p].status = st, !.project[p].object = o]
           row == [db.project[p] EXCEPT !.status = st, !.object = o]
           freed == IF old # o /\ db.object[old] = "in_project"
                    THEN SetObjects(moved, {old}, "free") ELSE moved
<1>1. db' = IF db.object[o] = "free" THEN SetObjects(freed, {o}, "in_project") ELSE freed
  BY DEF UpdateProject, Save
<1>2. p \in Made(db, "project") /\ db.project[p] \in ProjectRow
  BY LiveProjectIs DEF UpdateProject
<1>3. row \in ProjectRow
  BY <1>2 DEF ProjectRow
<1>4. /\ DOMAIN moved = Tables /\ moved.project = [db.project EXCEPT ![p] = row]
      /\ \A table \in Tables \ {"project"} : moved[table] = db[table]
  BY <1>2 DEF Regular, Columns, Tables
<1> HIDE DEF row, moved
<1>5. Regular(moved)
  BY <1>2, <1>3, <1>4, ProjectRowPut
<1>6. Regular(freed)
  BY <1>5, SetObjectsGrows DEF Grows, ObjectStatus
<1> HIDE DEF freed
<1> QED BY <1>1, <1>6, SetObjectsGrows DEF Grows, ObjectStatus

LEMMA DeleteProjectRegular ==
    ASSUME Regular(db), NEW p \in Projects, DeleteProject(p)
    PROVE  Regular(db')
<1> DEFINE row == [db.project[p] EXCEPT !.live = FALSE]
           e == [db EXCEPT !.project[p].live = FALSE]
<1>1. db' = e
  BY DEF DeleteProject, UserSaves, SaveLinked, Save
<1>2. p \in Made(db, "project") /\ db.project[p] \in ProjectRow
  BY LiveProjectIs DEF DeleteProject
<1>3. row \in ProjectRow
  BY <1>2 DEF ProjectRow
<1>4. /\ DOMAIN e = Tables /\ e.project = [db.project EXCEPT ![p] = row]
      /\ \A table \in Tables \ {"project"} : e[table] = db[table]
  BY <1>2 DEF Regular, Columns, Tables
<1> HIDE DEF row, e
<1> QED BY <1>1, <1>2, <1>3, <1>4, ProjectRowPut

LEMMA WithProjectGrows ==
    ASSUME NEW d, Regular(d), RoomForProjects(d), NEW o \in Objects
    PROVE  Grows(d, WithProject(d, o), {"project"}) /\ OpenProjects(WithProject(d, o), o) # {}
<1> DEFINE e == IF ActiveProject(d, o) = None THEN AddProjects(d, {o}, "active") ELSE d
           f == SetObjects(e, {o}, "in_project")
<1>1. WithProject(d, o) = f
  BY DEF WithProject
<1>2. "active" \in ProjectStatus /\ "active" \in OpenStatus
  BY DEF ProjectStatus, OpenStatus
<1>3. Grows(d, e, {"project"}) /\ OpenProjects(e, o) # {}
  <2>1. CASE ActiveProject(d, o) = None
    BY <1>2, <2>1, AddProjectsGrows
  <2>2. CASE ActiveProject(d, o) # None
    <3>1. OpenProjects(d, o) # {}
      BY <2>2 DEF ActiveProject, Oldest
    <3> QED BY <2>2, <3>1, SelfGrows
  <2> QED BY <2>1, <2>2
<1> HIDE DEF e
<1>4. Grows(e, f, {"project"})
  BY <1>3, SetObjectsGrows DEF Grows, ObjectStatus
<1> HIDE DEF f
<1>5. OpenProjects(f, o) # {}
  BY <1>3, <1>4 DEF Grows, Keeping
<1> QED BY <1>1, <1>3, <1>4, <1>5, GrowsTrans

LEMMA WithTenderGrows ==
    ASSUME NEW d, Regular(d), RoomForTender(d), NEW o \in Objects, OpenProjects(d, o) # {}
    PROVE  Grows(d, WithTender(d, o), {"tender"})
<1> DEFINE p == ActiveProject(d, o)
           e == IF ActiveTender(d, o, p) = None THEN AddTender(d, {p}, o, "open") ELSE d
           f == SetObjects(e, {o}, "in_tender")
<1>1. WithTender(d, o) = f
  BY DEF WithTender
<1>2. p \in Made(d, "project")
  BY ActiveIsOpen, OpenAreMade DEF Regular
<1> HIDE DEF p
<1>3. Grows(d, AddTender(d, {p}, o, "open"), {"tender"})
  BY <1>2, AddTenderGrows DEF TenderStatus
<1>4. Grows(d, e, {"tender"})
  BY <1>3, SelfGrows
<1> HIDE DEF e
<1>5. Grows(e, f, {"tender"})
  BY <1>4, SetObjectsGrows DEF Grows, ObjectStatus
<1> HIDE DEF f
<1> QED BY <1>1, <1>4, <1>5, GrowsTrans

LEMMA WithContractRegular ==
    ASSUME NEW d, Regular(d), RoomForContract(d), NEW o \in Objects, OpenProjects(d, o) # {},
           NEW n \in Orders
    PROVE  Regular(WithContract(d, o, n))
<1> DEFINE p == ActiveProject(d, o)
           t == ActiveTender(d, o, p)
           found == ContractByNumber(d, n)
           c == IF found = None THEN NextId(d.contract) ELSE found
           row == IF found = None THEN AddContract(d, n, "draft") ELSE d
           objects == LinkObjects(row, c, {o})
           linked == LinkProjects(objects, c, {p}, p)
           filled == FillTender(linked, c, t)
           done == SetObjects(filled, {o}, "in_contract")
<1>0. WithContract(d, o, n) = SetProjects(done, {p}, "in_contract")
  BY DEF WithContract
<1>1. p \in Made(d, "project") /\ p \in Projects
  BY ActiveIsOpen, OpenAreMade DEF Regular, OpenProjects
<1>2. t \in Tenders \cup {None}
  BY ActiveTenderIs, MadeRows DEF Regular
<1>3. Grows(d, row, {"contract"}) /\ c \in LiveContracts(row)
  <2>1. CASE found = None
    BY <2>1, AddContractGrows DEF ContractStatus
  <2>2. CASE found # None
    <3>1. row = d /\ c = found /\ found \in LiveContracts(d)
      BY <2>2, ContractByNumberIs
    <3> QED BY <3>1, SelfGrows
  <2> QED BY <2>1, <2>2
<1>4. Regular(row) /\ c \in Contracts
  BY <1>3 DEF Grows, LiveContracts
<1> HIDE DEF p, t, found, c, row
<1>5. Grows(row, objects, {})
  BY <1>4, LinkObjectsGrows
<1>6. Regular(objects) /\ c \in Made(objects, "contract")
  BY <1>3, <1>4, <1>5, LiveAreMade DEF Grows, Keeping, Regular
<1> HIDE DEF objects
<1>7. Grows(objects, linked, {})
  BY <1>1, <1>6, LinkProjectsGrows
<1>8. Regular(linked) /\ c \in Made(linked, "contract")
  BY <1>6, <1>7 DEF Grows, Keeping
<1> HIDE DEF linked
<1>9. Grows(linked, filled, {})
  BY <1>2, <1>8, FillTenderGrows
<1> HIDE DEF filled
<1>10. Grows(filled, done, {})
  BY <1>9, SetObjectsGrows DEF Grows, ObjectStatus
<1> HIDE DEF done
<1>11. Regular(done) /\ {p} \cap Projects \subseteq Made(done, "project")
  BY <1>1, <1>3, <1>5, <1>7, <1>9, <1>10 DEF Grows, Keeping
<1> QED BY <1>0, <1>11, SetProjectsRegular DEF ProjectStatus, OpenStatus

LEMMA ReplanRegular ==
    ASSUME Regular(db), Fits(db), NEW o \in Objects, NEW need \in Needs, NEW n \in Orders,
           NEW st \in ObjectStatus, NEW form \in BOOLEAN, Replan(o, need, n, st, form)
    PROVE  Regular(db')
<1> DEFINE row == SetObjects(db, {o}, st)
           chain == WithProject(row, o)
           tender == WithTender(chain, o)
           contract == WithContract(tender, o, n)
           made == CASE need = "nothing" -> row
                     [] need = "project" -> chain
                     [] need = "tender" -> tender
                     [] need = "contract" -> contract
                     [] need = "closed" -> row
           project == need # "nothing" /\ ActiveProject(made, o) # None
<1>0. db' = IF form /\ project THEN SetObjects(made, {o}, "in_project") ELSE made
  BY DEF Replan, UserSaves, SaveLinked, Save
<1>1. RoomForProjects(db) /\ RoomForTender(db) /\ RoomForContract(db)
  BY FitsIsRoom
<1>2. Grows(db, row, {})
  BY SetObjectsGrows
<1>3. /\ Regular(row) /\ RoomForProjects(row) /\ RoomForTender(row) /\ RoomForContract(row)
  BY <1>1, <1>2 DEF Grows, Keeping, RoomForProjects, RoomForTender, RoomForContract
<1> HIDE DEF row
<1>4. Grows(row, chain, {"project"}) /\ OpenProjects(chain, o) # {}
  BY <1>3, WithProjectGrows
<1>5. Regular(chain) /\ RoomForTender(chain) /\ RoomForContract(chain)
  BY <1>3, <1>4 DEF Grows, Keeping, RoomForTender, RoomForContract
<1> HIDE DEF chain
<1>6. Grows(chain, tender, {"tender"})
  BY <1>4, <1>5, WithTenderGrows
<1>7. Regular(tender) /\ RoomForContract(tender) /\ OpenProjects(tender, o) # {}
  BY <1>4, <1>5, <1>6 DEF Grows, Keeping, RoomForContract
<1> HIDE DEF tender
<1>8. Regular(contract)
  BY <1>7, WithContractRegular
<1> HIDE DEF contract
<1>9. Regular(made)
  BY <1>3, <1>5, <1>7, <1>8 DEF Needs
<1> HIDE DEF made, project
<1> QED BY <1>0, <1>9, SetObjectsGrows DEF Grows, ObjectStatus

LEMMA LiveProjectsAreMade ==
    ASSUME NEW d, Regular(d), NEW S \in SUBSET {p \in Projects : d.project[p].live}
    PROVE  S \subseteq Made(d, "project") /\ ObjectsOf(d, S) \subseteq Objects
<1>1. \A p \in S : p \in Made(d, "project") /\ d.project[p] \in ProjectRow
  BY LiveProjectIs
<1> QED BY <1>1 DEF ObjectsOf, ProjectRow

LEMMA MadeHaveObjects ==
    ASSUME NEW d, Regular(d), NEW S \in SUBSET Made(d, "project")
    PROVE  ObjectsOf(d, S) \subseteq Objects /\ S \in SUBSET Projects
<1>1. \A p \in S : p \in Projects /\ d.project[p] \in ProjectRow
  BY MadeRows DEF Regular
<1> QED BY <1>1 DEF ObjectsOf, ProjectRow

LEMMA CreateTenderRegular ==
    ASSUME Regular(db), Fits(db), NEW S \in SUBSET {p \in Projects : db.project[p].live},
           NEW o \in Objects \cup {None}, NEW st \in TenderStatus, CreateTender(S, o, st)
    PROVE  Regular(db')
<1>1. db' = AddTender(db, S, o, st)
  BY DEF CreateTender, UserSaves, SaveLinked, Save
<1>2. S \in SUBSET Made(db, "project") /\ RoomForTender(db)
  BY LiveProjectsAreMade, FitsIsRoom
<1>3. Grows(db, AddTender(db, S, o, st), {"tender"})
  BY <1>2, AddTenderGrows
<1> QED BY <1>1, <1>3 DEF Grows

(* Links taken back from a tender.                                         *)
LEMMA UnlinkedGrows ==
    ASSUME NEW d, Regular(d), NEW t \in Made(d, "tender"), NEW S \in SUBSET Made(d, "project"),
           NEW e, NEW T,
           e = [d EXCEPT !.inTender = @ \ ({t} \X S), !.leftTender = @ \cup ({t} \X S)]
    PROVE  Grows(d, e, T)
<1>1. /\ DOMAIN e = Tables
      /\ e.inTender = d.inTender \ ({t} \X S) /\ e.leftTender = d.leftTender \cup ({t} \X S)
      /\ e.project = d.project /\ e.tender = d.tender /\ e.contract = d.contract
      /\ e.object = d.object /\ e.ofObject = d.ofObject
      /\ e.leftObject = d.leftObject /\ e.ofProject = d.ofProject
  BY DEF Regular, Columns, Tables
<1>2. Columns(e)
  BY <1>1 DEF Regular, Columns
<1>3. Keeping(d, e, T) /\ Made(e, "project") = Made(d, "project")
                       /\ Made(e, "tender") = Made(d, "tender")
  BY <1>1, SameRowsKept
<1>4. {t} \X S \subseteq Made(d, "tender") \X Made(d, "project")
  OBVIOUS
<1>5. Regular(e)
  BY <1>1, <1>2, <1>3, <1>4 DEF Regular
<1> QED BY <1>3, <1>5 DEF Grows

LEMMA RelinkedGrows ==
    ASSUME Regular(db), NEW t \in Made(db, "tender"), NEW S \in SUBSET Made(db, "project")
    PROVE  Grows(db, Relinked(t, S), {})
<1> DEFINE removed == LinkedProjects(db, t) \ S
           back == {p \in removed : db.project[p].status = "in_tender"}
           unlinked == [db EXCEPT !.inTender = @ \ ({t} \X removed),
                                  !.leftTender = @ \cup ({t} \X removed)]
           left == SetProjects(unlinked, back, "active")
           B == {o \in ObjectsOf(db, back) : db.object[o] = "in_tender"}
           freed == SetObjects(left, B, "in_project")
<1>1. Relinked(t, S) = LinkTender(freed, t, S)
  BY DEF Relinked
<1>2. removed \in SUBSET Made(db, "project") /\ back \subseteq removed
  BY LinkedAreMade
<1> HIDE DEF removed
<1>3. Grows(db, unlinked, {})
  BY <1>2, UnlinkedGrows
<1>4. back \cap Projects \subseteq Made(unlinked, "project") /\ Regular(unlinked)
  BY <1>2, <1>3 DEF Grows, Keeping
<1> HIDE DEF back, unlinked
<1>5. Grows(unlinked, left, {})
  BY <1>4, SetProjectsRegular DEF ProjectStatus, OpenStatus
<1> HIDE DEF left, B
<1>6. Grows(left, freed, {})
  BY <1>5, SetObjectsGrows DEF Grows, ObjectStatus
<1> HIDE DEF freed
<1>7. Grows(db, freed, {})
  BY <1>3, <1>5, <1>6, GrowsTrans, {} \cup {} = {}
<1>8. t \in Made(freed, "tender") /\ S \in SUBSET Made(freed, "project") /\ Regular(freed)
  BY <1>7 DEF Grows, Keeping
<1>9. Grows(freed, LinkTender(freed, t, S), {})
  BY <1>8, LinkTenderGrows
<1> QED BY <1>1, <1>7, <1>9, GrowsTrans, {} \cup {} = {}

LEMMA UpdateTenderRegular ==
    ASSUME Regular(db), NEW t \in Tenders, NEW S \in SUBSET {p \in Projects : db.project[p].live},
           NEW o \in Objects \cup {None}, NEW st \in TenderStatus, UpdateTender(t, S, o, st)
    PROVE  Regular(db')
<1>1. t \in Made(db, "tender")
  BY DEF UpdateTender, Made, Regular, Columns
<1>2. S \in SUBSET Made(db, "project")
  BY LiveProjectsAreMade
<1>3. PICK sync \in BOOLEAN :
        db' = SideEffects([(IF sync THEN Relinked(t, S) ELSE db)
                             EXCEPT !.tender[t].status = st, !.tender[t].object = o], S, st)
  BY DEF UpdateTender, UserSaves, SaveLinked, Save
<1> DEFINE d == IF sync THEN Relinked(t, S) ELSE db
           e == [d EXCEPT !.tender[t].status = st, !.tender[t].object = o]
<1>4. Grows(db, d, {})
  BY <1>1, <1>2, RelinkedGrows, SelfGrows
<1>5. db' = SideEffects(e, S, st)
  BY <1>3
<1> HIDE DEF d
<1>6. Regular(d) /\ t \in Made(d, "tender")
  BY <1>1, <1>4 DEF Grows, Keeping
<1>7. Grows(d, e, {})
  BY <1>6, TenderFieldsGrow
<1> HIDE DEF e
<1>8. Regular(e) /\ S \cap Projects \subseteq Made(e, "project")
  BY <1>2, <1>4, <1>7 DEF Grows, Keeping
<1>9. Grows(e, SideEffects(e, S, st), {})
  BY <1>8, SideEffectsGrows
<1> QED BY <1>5, <1>9 DEF Grows

LEMMA CreateContractRegular ==
    ASSUME Regular(db), Fits(db), NEW n \in Orders, NEW o \in Objects \cup {None},
           NEW st \in ContractStatus, CreateContract(n, o, st)
    PROVE  Regular(db')
<1> DEFINE c == NextId(db.contract)
           row == AddContract(db, n, st)
           linked == LinkObjects(row, c, {o})
<1>1. db' = IF o = None THEN row ELSE SetObjects(linked, {o}, "in_contract")
  BY DEF CreateContract, UserSaves, SaveLinked, Save
<1>2. Grows(db, row, {"contract"}) /\ c \in LiveContracts(row)
  BY FitsIsRoom, AddContractGrows
<1>3. Regular(row) /\ c \in Contracts
  BY <1>2 DEF Grows, LiveContracts
<1> HIDE DEF c, row
<1>4. CASE o = None
  BY <1>1, <1>3, <1>4
<1>5. CASE o # None
  <2>1. Grows(row, linked, {})
    BY <1>3, <1>5, LinkObjectsGrows
  <2> HIDE DEF linked
  <2> QED BY <1>1, <1>5, <2>1, SetObjectsGrows DEF Grows, ObjectStatus
<1> QED BY <1>4, <1>5

LEMMA CreateFromTenderRegular ==
    ASSUME Regular(db), Fits(db), NEW t \in Tenders, NEW n \in Orders, NEW st \in ContractStatus,
           CreateFromTender(t, n, st)
    PROVE  Regular(db')
<1> DEFINE c == NextId(db.contract)
           S == LinkedProjects(db, t)
           O == ObjectsOf(db, S)
           added == AddContract(db, n, st)
           row == FillTender(added, c, t)
<1>1. PICK first \in S :
        db' = SetObjects(SetProjects(LinkObjects(LinkProjects(row, c, S, first), c, O),
                                     S, "in_contract"),
                         O, "in_contract")
  BY DEF CreateFromTender, UserSaves, SaveLinked, Save
<1>2. Grows(db, added, {"contract"}) /\ c \in LiveContracts(added)
  BY FitsIsRoom, AddContractGrows
<1>3. S \in SUBSET Made(db, "project")
  BY LinkedAreMade
<1>4. O \in SUBSET Objects /\ S \in SUBSET Projects /\ first \in Projects
  BY <1>3, MadeHaveObjects
<1>5. Regular(added) /\ c \in Contracts /\ c \in Made(added, "contract")
  BY <1>2, LiveAreMade DEF Grows, Regular, LiveContracts
<1> HIDE DEF c, S, O, added
<1>6. Grows(added, row, {})
  BY <1>5, FillTenderGrows
<1> DEFINE joined == LinkProjects(row, c, S, first)
           linked == LinkObjects(joined, c, O)
           moved == SetProjects(linked, S, "in_contract")
<1>7. db' = SetObjects(moved, O, "in_contract")
  BY <1>1
<1>8. Regular(row) /\ c \in Made(row, "contract")
  BY <1>5, <1>6 DEF Grows, Keeping
<1> HIDE DEF row
<1>9. Grows(row, joined, {})
  BY <1>4, <1>8, LinkProjectsGrows
<1> HIDE DEF joined
<1>10. Grows(joined, linked, {})
  BY <1>4, <1>5, <1>9, LinkObjectsGrows DEF Grows
<1> HIDE DEF linked
<1>11. Regular(linked) /\ S \cap Projects \subseteq Made(linked, "project")
  BY <1>2, <1>3, <1>6, <1>9, <1>10 DEF Grows, Keeping
<1>12. Regular(moved)
  BY <1>11, SetProjectsRegular DEF ProjectStatus, OpenStatus
<1> HIDE DEF moved
<1> QED BY <1>7, <1>12, SetObjectsGrows DEF Grows, ObjectStatus

LEMMA LiveRow ==
    ASSUME Regular(db), NEW c \in Contracts, LiveContract(db, c)
    PROVE  c \in Made(db, "contract") /\ db.contract[c] \in ContractRow
<1>1. c \in Made(db, "contract")
  BY LiveAreMade DEF LiveContracts, Regular
<1> QED BY <1>1, MadeRows DEF Regular

LEMMA UpdateContractRegular ==
    ASSUME Regular(db), NEW c \in Contracts, NEW n \in Orders, NEW st \in ContractStatus,
           UpdateContract(c, n, st)
    PROVE  Regular(db')
<1> DEFINE row == [db.contract[c] EXCEPT !.status = st, !.number = n]
           e == [db EXCEPT !.contract[c].status = st, !.contract[c].number = n]
<1>1. db' = e
  BY DEF UpdateContract, UserSaves, SaveLinked, Save
<1>2. c \in Made(db, "contract") /\ db.contract[c] \in ContractRow
  BY LiveRow DEF UpdateContract
<1>3. row \in ContractRow
  BY <1>2 DEF ContractRow
<1>4. /\ DOMAIN e = Tables /\ e.contract = [db.contract EXCEPT ![c] = row]
      /\ \A table \in Tables \ {"contract", "ofProject"} : e[table] = db[table]
      /\ e.ofProject \subseteq db.ofProject
  BY <1>2 DEF Regular, Columns, Tables
<1> HIDE DEF row, e
<1> QED BY <1>1, <1>2, <1>3, <1>4, ContractFieldsRegular

(* The status of a contract that is not deleted is written.                *)
LEMMA StagedRegular ==
    ASSUME Regular(db), NEW c \in Contracts, LiveContract(db, c),
           NEW st \in ContractStatus \cup {"deleted"}
    PROVE  LET e == [db EXCEPT !.contract[c].status = st]
           IN  Regular(e) /\ Made(e, "project") = Made(db, "project")
<1> DEFINE row == [db.contract[c] EXCEPT !.status = st]
           e == [db EXCEPT !.contract[c].status = st]
<1>2. c \in Made(db, "contract") /\ db.contract[c] \in ContractRow
  BY LiveRow
<1>3. row \in ContractRow
  BY <1>2 DEF ContractRow
<1>4. /\ DOMAIN e = Tables /\ e.contract = [db.contract EXCEPT ![c] = row]
      /\ \A table \in Tables \ {"contract", "ofProject"} : e[table] = db[table]
      /\ e.ofProject \subseteq db.ofProject
  BY <1>2 DEF Regular, Columns, Tables
<1> HIDE DEF row, e
<1>5. Regular(e) /\ Made(e, "project") = Made(db, "project")
  BY <1>2, <1>3, <1>4, ContractFieldsRegular
<1> QED BY <1>5 DEF e

LEMMA TransitionRegular ==
    ASSUME Regular(db), NEW c \in Contracts, NEW st \in ContractStatus, Transition(c, st)
    PROVE  Regular(db')
<1> DEFINE t == db.contract[c].tender
           d == [db EXCEPT !.contract[c].status = st]
           O == {o \in Objects : <<c, o>> \in db.ofObject \cup db.leftObject}
           S == {p \in Projects : <<t, p>> \in db.inTender \cup db.leftTender}
           e == SetObjects(d, O, "completed")
<1>1. db' = IF st = "completed" THEN SetProjects(e, S, "completed") ELSE d
  BY DEF Transition, UserSaves, SaveLinked, Save
<1>2. Regular(d) /\ Made(d, "project") = Made(db, "project")
  BY StagedRegular DEF Transition
<1>3. S \subseteq Made(db, "project")
  BY DEF Regular
<1> HIDE DEF d, S, O
<1>4. Grows(d, e, {})
  BY <1>2, SetObjectsGrows DEF ObjectStatus
<1> HIDE DEF e
<1>5. Regular(e) /\ S \cap Projects \subseteq Made(e, "project")
  BY <1>2, <1>3, <1>4 DEF Grows, Keeping
<1>6. Regular(SetProjects(e, S, "completed"))
  BY <1>5, SetProjectsRegular DEF ProjectStatus, ClosedStatus
<1> QED BY <1>1, <1>2, <1>6

LEMMA DeleteContractRegular ==
    ASSUME Regular(db), NEW c \in Contracts, DeleteContract(c)
    PROVE  Regular(db')
  BY StagedRegular DEF DeleteContract, UserSaves, SaveLinked, Save

LEMMA LinkObjectRegular ==
    ASSUME Regular(db), NEW c \in Contracts, NEW o \in Objects, LinkObject(c, o)
    PROVE  Regular(db')
<1> DEFINE e == LinkObjects(db, c, {o})
<1>1. db' = SetObjects(e, {o}, "in_contract")
  BY DEF LinkObject, UserSaves, SaveLinked, Save
<1>2. Grows(db, e, {})
  BY LinkObjectsGrows
<1> HIDE DEF e
<1> QED BY <1>1, <1>2, SetObjectsGrows DEF Grows, ObjectStatus

LEMMA UnlinkObjectRegular ==
    ASSUME Regular(db), NEW c \in Contracts, NEW o \in Objects, UnlinkObject(c, o)
    PROVE  Regular(db')
<1>1. db' = [db EXCEPT !.ofObject = @ \ {<<c, o>>}, !.leftObject = @ \cup {<<c, o>>}]
  BY DEF UnlinkObject, UserSaves, SaveLinked, Save
<1>2. /\ DOMAIN db' = Tables
      /\ db'.ofObject = db.ofObject \ {<<c, o>>} /\ db'.leftObject = db.leftObject \cup {<<c, o>>}
      /\ db'.project = db.project /\ db'.tender = db.tender /\ db'.contract = db.contract
      /\ db'.object = db.object /\ db'.inTender = db.inTender
      /\ db'.leftTender = db.leftTender /\ db'.ofProject = db.ofProject
  BY <1>1 DEF Regular, Columns, Tables
<1>3. Columns(db')
  BY <1>2 DEF Regular, Columns
<1>4. Made(db', "project") = Made(db, "project") /\ Made(db', "tender") = Made(db, "tender")
  BY <1>2 DEF Made
<1> QED BY <1>2, <1>3, <1>4 DEF Regular

LEMMA LinkProjectRegular ==
    ASSUME Regular(db), NEW c \in Contracts, NEW p \in Projects, LinkProject(c, p)
    PROVE  Regular(db')
<1>1. db' = LinkProjects(db, c, {p}, p)
  BY DEF LinkProject, UserSaves, SaveLinked, Save
<1>2. c \in Made(db, "contract")
  BY LiveRow DEF LinkProject
<1> QED BY <1>1, <1>2, LinkProjectsGrows DEF Grows

(* The primary project of a contract is changed, and links go.             *)
LEMMA PrimaryRegular ==
    ASSUME Regular(db), NEW c \in Contracts, LiveContract(db, c), NEW q \in Projects \cup {None},
           NEW links \in SUBSET db.ofProject
    PROVE  Regular([db EXCEPT !.ofProject = links, !.contract[c].project = q])
<1> DEFINE row == [db.contract[c] EXCEPT !.project = q]
           e == [db EXCEPT !.ofProject = links, !.contract[c].project = q]
<1>2. c \in Made(db, "contract") /\ db.contract[c] \in ContractRow
  BY LiveRow
<1>3. row \in ContractRow
  BY <1>2 DEF ContractRow
<1>4. /\ DOMAIN e = Tables /\ e.contract = [db.contract EXCEPT ![c] = row]
      /\ \A table \in Tables \ {"contract", "ofProject"} : e[table] = db[table]
      /\ e.ofProject \subseteq db.ofProject
  BY <1>2 DEF Regular, Columns, Tables
<1> HIDE DEF row, e
<1>5. Regular(e)
  BY <1>2, <1>3, <1>4, ContractFieldsRegular
<1> QED BY <1>5 DEF e

LEMMA UnlinkProjectRegular ==
    ASSUME Regular(db), NEW c \in Contracts, NEW p \in Projects, UnlinkProject(c, p)
    PROVE  Regular(db')
<1>1. LiveContract(db, c)
  BY DEF UnlinkProject
<1>2. PICK q \in NewPrimary(c, p) :
        db' = [db EXCEPT !.ofProject = @ \ {<<c, p>>}, !.contract[c].project = q]
  BY DEF UnlinkProject, UserSaves, SaveLinked, Save
<1>3. q \in Projects \cup {None}
  <2>1. db.contract[c] \in ContractRow
    BY <1>1, LiveRow
  <2> QED BY <1>2, <2>1 DEF NewPrimary, ContractRow
<1>4. db' = [db EXCEPT !.ofProject = db.ofProject \ {<<c, p>>}, !.contract[c].project = q]
  BY <1>2
<1>5. db.ofProject \ {<<c, p>>} \in SUBSET db.ofProject
  OBVIOUS
<1> QED BY <1>1, <1>3, <1>4, <1>5, PrimaryRegular

LEMMA ClearProjectRegular ==
    ASSUME Regular(db), NEW c \in Contracts, ClearProject(c)
    PROVE  Regular(db')
<1> DEFINE row == [db.contract[c] EXCEPT !.project = None]
           e == [db EXCEPT !.contract[c].project = None]
<1>1. LiveContract(db, c) /\ db' = e
  BY DEF ClearProject, UserSaves, SaveLinked, Save
<1>2. c \in Made(db, "contract") /\ db.contract[c] \in ContractRow
  BY <1>1, LiveRow
<1>3. row \in ContractRow
  BY <1>2 DEF ContractRow
<1>4. /\ DOMAIN e = Tables /\ e.contract = [db.contract EXCEPT ![c] = row]
      /\ \A table \in Tables \ {"contract", "ofProject"} : e[table] = db[table]
      /\ e.ofProject \subseteq db.ofProject
  BY <1>2 DEF Regular, Columns, Tables
<1> HIDE DEF row, e
<1> QED BY <1>1, <1>2, <1>3, <1>4, ContractFieldsRegular

-----------------------------------------------------------------------------
(* The tables are well formed                                              *)

TypesInv ==
    /\ Regular(db) /\ Fits(db)
    /\ notice \in [Orders -> NoticeStatus]
    /\ reopened \subseteq Objects /\ edits \in 0..EditBudget

LEMMA InitialTypes == ChainInit => TypesInv
<1> SUFFICES ASSUME ChainInit PROVE TypesInv
  OBVIOUS
<1>1. /\ DOMAIN db = Tables
      /\ db.object = [o \in Objects |-> "free"] /\ db.project = [p \in Projects |-> NoProject]
      /\ db.tender = [t \in Tenders |-> NoTender]
      /\ db.contract = [c \in Contracts |-> NoContract]
      /\ db.inTender = {} /\ db.leftTender = {}
      /\ db.ofObject = {} /\ db.leftObject = {} /\ db.ofProject = {}
  BY DEF ChainInit, Tables
<1>2. Columns(db)
  BY <1>1 DEF Columns, ObjectStatus
<1>3. Made(db, "project") = {} /\ Fits(db)
  BY <1>1, StatusTypes DEF Made, Fits
<1>4. Regular(db)
  BY <1>1, <1>2, <1>3 DEF Regular
<1>5. /\ notice \in [Orders -> NoticeStatus]
      /\ reopened \subseteq Objects /\ edits \in 0..EditBudget
  BY ChainAssumption DEF ChainInit, NoticeStatus
<1> QED BY <1>3, <1>4, <1>5 DEF TypesInv

(* Only rows that exist are reopened.                                      *)
LEMMA ReopenedAreObjects ==
    ASSUME NEW d, Regular(d), NEW e
    PROVE  Reopened(d, e) \subseteq Objects
<1>1. \A p \in Projects : d.project[p].status \in ClosedStatus => d.project[p] \in ProjectRow
  BY StatusTypes DEF Regular, Columns
<1> QED BY <1>1 DEF Reopened, ProjectRow

LEMMA UserSavesTypes ==
    ASSUME TypesInv, edits > 0, NEW d, UserSaves(d), Regular(db')
    PROVE  TypesInv'
<1>1. /\ Fits(db)' /\ notice' = notice /\ edits' = edits - 1
      /\ reopened' = reopened \cup Reopened(db, d)
  BY DEF UserSaves, SaveLinked, Save, Edit
<1>2. Reopened(db, d) \subseteq Objects
  BY ReopenedAreObjects DEF TypesInv
<1>3. edits' \in 0..EditBudget
  BY <1>1, ChainAssumption DEF TypesInv
<1> QED BY <1>1, <1>2, <1>3 DEF TypesInv

LEMMA UserStepTypes ==
    ASSUME TypesInv, UserStep
    PROVE  TypesInv'
<1>0. Regular(db) /\ Fits(db) /\ edits > 0
  BY DEF TypesInv, UserStep
<1>1. ASSUME NEW o \in Objects, NEW st \in ProjectStatus, CreateProject(o, st) PROVE TypesInv'
  <2>1. Regular(db') BY <1>0, <1>1, CreateProjectRegular
  <2> QED BY <1>0, <1>1, <2>1, UserSavesTypes DEF CreateProject
<1>2. ASSUME NEW p \in Projects, NEW o \in Objects, NEW st \in ProjectStatus,
             UpdateProject(p, o, st)
      PROVE  TypesInv'
  <2>1. Regular(db') BY <1>0, <1>2, UpdateProjectRegular
  <2>2. Fits(db)' /\ notice' = notice /\ reopened' = reopened /\ edits' = edits - 1
    BY <1>2 DEF UpdateProject, Save, Edit
  <2>3. edits' \in 0..EditBudget
    BY <1>0, <2>2, ChainAssumption DEF TypesInv
  <2> QED BY <2>1, <2>2, <2>3 DEF TypesInv
<1>3. ASSUME NEW p \in Projects, DeleteProject(p) PROVE TypesInv'
  <2>1. Regular(db') BY <1>0, <1>3, DeleteProjectRegular
  <2> QED BY <1>0, <1>3, <2>1, UserSavesTypes DEF DeleteProject
<1>4. ASSUME NEW o \in Objects, NEW need \in Needs, NEW n \in Orders, NEW st \in ObjectStatus,
             NEW form \in BOOLEAN, Replan(o, need, n, st, form)
      PROVE  TypesInv'
  <2>1. Regular(db') BY <1>0, <1>4, ReplanRegular
  <2>2. \E d : UserSaves(d) BY <1>4 DEF Replan
  <2> QED BY <1>0, <2>1, <2>2, UserSavesTypes
<1>5. ASSUME NEW S \in SUBSET {p \in Projects : db.project[p].live}, NEW o \in Objects \cup {None},
             NEW st \in TenderStatus,
             CreateTender(S, o, st) \/ \E t \in Tenders : UpdateTender(t, S, o, st)
      PROVE  TypesInv'
  <2>1. Regular(db') BY <1>0, <1>5, CreateTenderRegular, UpdateTenderRegular
  <2>2. \E d : UserSaves(d) BY <1>5 DEF CreateTender, UpdateTender
  <2> QED BY <1>0, <2>1, <2>2, UserSavesTypes
<1>6. ASSUME NEW n \in Orders, NEW st \in ContractStatus,
             \/ \E o \in Objects \cup {None} : CreateContract(n, o, st)
             \/ \E t \in Tenders : CreateFromTender(t, n, st)
             \/ \E c \in Contracts : UpdateContract(c, n, st)
      PROVE  TypesInv'
  <2>1. Regular(db')
    BY <1>0, <1>6, CreateContractRegular, CreateFromTenderRegular, UpdateContractRegular
  <2>2. \E d : UserSaves(d) BY <1>6 DEF CreateContract, CreateFromTender, UpdateContract
  <2> QED BY <1>0, <2>1, <2>2, UserSavesTypes
<1>7. ASSUME NEW c \in Contracts,
             \/ \E st \in ContractStatus : Transition(c, st)
             \/ \E o \in Objects : LinkObject(c, o) \/ UnlinkObject(c, o)
             \/ \E p \in Projects : LinkProject(c, p) \/ UnlinkProject(c, p)
             \/ ClearProject(c) \/ DeleteContract(c)
      PROVE  TypesInv'
  <2>1. Regular(db')
    BY <1>0, <1>7, TransitionRegular, LinkObjectRegular, UnlinkObjectRegular, LinkProjectRegular,
       UnlinkProjectRegular, ClearProjectRegular, DeleteContractRegular
  <2>2. \E d : UserSaves(d)
    BY <1>7 DEF Transition, LinkObject, UnlinkObject, LinkProject, UnlinkProject, ClearProject,
                DeleteContract
  <2> QED BY <1>0, <2>1, <2>2, UserSavesTypes
<1>8. ASSUME ProjectStep PROVE TypesInv'
  BY <1>1, <1>2, <1>3, <1>4, <1>8 DEF ProjectStep
<1>9. ASSUME TenderStep PROVE TypesInv'
  BY <1>5, <1>9 DEF TenderStep
<1>10. ASSUME ContractStep PROVE TypesInv'
  BY <1>6, <1>7, <1>10 DEF ContractStep
<1> QED BY <1>8, <1>9, <1>10 DEF UserStep

LEMMA ImportStepTypes ==
    ASSUME TypesInv, ImportStep
    PROVE  TypesInv'
<1> PICK n \in Orders : Publish(n) \/ ImportOrder(n) \/ ImportContract(n)
  BY DEF ImportStep
<1>1. CASE Publish(n)
  <2>1. UNCHANGED <<db, reopened, edits>>
    BY <1>1 DEF Publish
  <2>2. PICK st \in Later[notice[n]] \cap Stages[n] : notice' = [notice EXCEPT ![n] = st]
    BY <1>1 DEF Publish
  <2>3. st \in NoticeStatus
    BY <2>2, ChainAssumption DEF NoticeStatus
  <2>4. notice' \in [Orders -> NoticeStatus]
    BY <2>2, <2>3 DEF TypesInv
  <2> QED BY <2>1, <2>4 DEF TypesInv
<1>2. ASSUME NEW d, SaveImport(d), Regular(d) PROVE TypesInv'
  <2>1. /\ db' = d /\ Fits(db)' /\ notice' = notice /\ edits' = edits
        /\ reopened' = reopened \cup Reopened(db, d)
    BY <1>2 DEF SaveImport, SaveLinked, Save
  <2>2. Reopened(db, d) \subseteq Objects
    BY ReopenedAreObjects DEF TypesInv
  <2> QED BY <1>2, <2>1, <2>2 DEF TypesInv
<1>3. CASE ImportOrder(n)
  <2>1. Regular(OrderDone(db, n)) /\ Regular(OrderCommitted(db, n))
    BY <1>3, OrderDoneRegular, OrderCommittedRegular DEF ImportOrder, TypesInv
  <2> QED BY <1>2, <1>3, <2>1 DEF ImportOrder
<1>4. CASE ImportContract(n)
  <2>1. Regular(ContractDone(db, n))
    BY ContractDoneRegular DEF TypesInv
  <2> QED BY <1>2, <1>4, <2>1 DEF ImportContract
<1> QED BY <1>1, <1>3, <1>4

(* No handler and no card leaves a half-made row, a status that its table  *)
(* does not know, or a link to a row that was never made.                  *)
THEOREM TablesRegular == ChainSpec => []TypesInv
<1>1. TypesInv /\ [ChainNext]_chainVars => TypesInv'
  <2>1. ASSUME TypesInv, UNCHANGED chainVars PROVE TypesInv'
    BY <2>1 DEF chainVars, TypesInv
  <2> QED BY <2>1, UserStepTypes, ImportStepTypes DEF ChainNext
<1> QED BY <1>1, InitialTypes, PTL DEF ChainSpec

(* The tables of the chain, the cards and the counters have their types.   *)
THEOREM ChainTypes == ChainSpec => []ChainTypeOK
<1>1. ASSUME TypesInv PROVE ChainTypeOK
  <2>1. Columns(db)
    BY <1>1 DEF TypesInv, Regular
  <2>2. Made(db, "tender") \X Made(db, "project") \subseteq Tenders \X Projects
    BY <2>1, MadeRows
  <2>3. db.inTender \cup db.leftTender \subseteq Tenders \X Projects
    BY <1>1, <2>2 DEF TypesInv, Regular
  <2> QED BY <1>1, <2>1, <2>3
          DEF TypesInv, Columns, ChainTypeOK, ProjectRow, TenderRow, ContractRow
<1> QED BY <1>1, TablesRegular, PTL
-----------------------------------------------------------------------------
(* Importing a card a second time                                          *)

(* What the import does to tables d, as far as another card can tell: it   *)
(* takes back no link and no number, closes no project, and opens one only *)
(* if its object has none, or else it was closed.                          *)
LinksGrow(d, e) ==
    /\ d.inTender \subseteq e.inTender /\ d.ofProject \subseteq e.ofProject
    /\ d.ofObject \subseteq e.ofObject /\ d.leftObject \subseteq e.leftObject
    /\ \A t, p : <<t, p>> \in e.inTender \ d.inTender => e.project[p].status \in OpenStatus

CardsStay(d, e) ==
    /\ LiveContracts(d) \subseteq LiveContracts(e)
    /\ \A t \in Tenders : d.tender[t].reg # None => e.tender[t].reg = d.tender[t].reg

ProjectsStay(d, e) ==
    /\ \A p \in Projects : d.project[p].status \in OpenStatus => e.project[p].status \in OpenStatus
    /\ \A p \in Projects : e.project[p].status \in ClosedStatus =>
                               d.project[p].status \in ClosedStatus
    /\ \A o : /\ OpenProjects(d, o) \subseteq OpenProjects(e, o)
              /\ \A p \in OpenProjects(e, o) \ OpenProjects(d, o) :
                   OpenProjects(d, o) = {} \/ d.project[p].status \in ClosedStatus

Steady(d, e) == Regular(e) /\ LinksGrow(d, e) /\ CardsStay(d, e) /\ ProjectsStay(d, e)

(* All that the contract of a card needs of the tables is there: it has    *)
(* the number of the card, the project of object o and the objects S.      *)
HasContract(d, n, o, S) ==
    \E c \in LiveContracts(d) :
        /\ d.contract[c].reg = n
        /\ o # None => <<c, ActiveProject(d, o)>> \in d.ofProject
        /\ \A x \in S : <<c, x>> \in d.ofObject \cup d.leftObject

(* The same of the tender of a notice, of which no project is closed.      *)
HasTender(d, n) ==
    \E t \in Tenders :
        /\ d.tender[t].reg = n
        /\ \A o \in OthersOf(n) : <<t, ActiveProject(d, o)>> \in d.inTender
        /\ \A p \in LinkedProjects(d, t) : d.project[p].status \in OpenStatus

OrderSettled(d, n) ==
    LET S == {MainObject[n]} \cup OthersOf(n) IN
    /\ \A o \in S : OpenProjects(d, o) # {}
    /\ HasTender(d, n)
    /\ Signed(n) => HasContract(d, n, MainObject[n], S)

ContractSettled(d, n) ==
    LET o == PlaceObject[n] IN
    IF o = None THEN HasContract(d, n, None, {})
    ELSE OpenProjects(d, o) # {} /\ HasContract(d, n, o, {o})

Settled(d, card) ==
    IF card[1] = "order" THEN OrderSettled(d, card[2]) ELSE ContractSettled(d, card[2])

LEMMA SteadyTrans ==
    ASSUME NEW d, NEW e, NEW f, Steady(d, e), Steady(e, f)
    PROVE  Steady(d, f)
<1>1. ProjectsStay(d, f)
  <2>1. \A p \in Projects : d.project[p].status \in OpenStatus => f.project[p].status \in OpenStatus
    BY DEF Steady, ProjectsStay
  <2>2. \A p \in Projects : f.project[p].status \in ClosedStatus => d.project[p].status \in ClosedStatus
    BY DEF Steady, ProjectsStay
  <2>3. ASSUME NEW o
        PROVE  /\ OpenProjects(d, o) \subseteq OpenProjects(f, o)
               /\ \A p \in OpenProjects(f, o) \ OpenProjects(d, o) :
                    OpenProjects(d, o) = {} \/ d.project[p].status \in ClosedStatus
    <3>1. OpenProjects(d, o) \subseteq OpenProjects(e, o) /\ OpenProjects(e, o) \subseteq OpenProjects(f, o)
      BY DEF Steady, ProjectsStay
    <3>2. ASSUME NEW p \in OpenProjects(f, o) \ OpenProjects(d, o)
          PROVE  OpenProjects(d, o) = {} \/ d.project[p].status \in ClosedStatus
      <4>1. CASE p \in OpenProjects(e, o)
        BY <4>1 DEF Steady, ProjectsStay
      <4>2. CASE p \notin OpenProjects(e, o)
        <5>1. OpenProjects(e, o) = {} \/ e.project[p].status \in ClosedStatus
          BY <4>2 DEF Steady, ProjectsStay
        <5>2. p \in Projects
          BY DEF OpenProjects
        <5>3. e.project[p].status \in ClosedStatus => d.project[p].status \in ClosedStatus
          BY <5>2 DEF Steady, ProjectsStay
        <5> QED BY <3>1, <5>1, <5>3
      <4> QED BY <4>1, <4>2
    <3> QED BY <3>1, <3>2
  <2> QED BY <2>1, <2>2, <2>3 DEF ProjectsStay
<1>2. CardsStay(d, f)
  <2>1. LiveContracts(d) \subseteq LiveContracts(f)
    BY DEF Steady, CardsStay
  <2>2. ASSUME NEW t \in Tenders, d.tender[t].reg # None PROVE f.tender[t].reg = d.tender[t].reg
    <3>1. e.tender[t].reg = d.tender[t].reg
      BY <2>2 DEF Steady, CardsStay
    <3> QED BY <2>2, <3>1 DEF Steady, CardsStay
  <2> QED BY <2>1, <2>2 DEF CardsStay
<1>3. LinksGrow(d, f)
  <2>1. /\ d.inTender \subseteq f.inTender /\ d.ofProject \subseteq f.ofProject
        /\ d.ofObject \subseteq f.ofObject /\ d.leftObject \subseteq f.leftObject
    BY DEF Steady, LinksGrow
  <2>2. ASSUME NEW t, NEW p, <<t, p>> \in f.inTender \ d.inTender
        PROVE  f.project[p].status \in OpenStatus
    <3>1. CASE <<t, p>> \in e.inTender
      <4>1. e.project[p].status \in OpenStatus
        BY <2>2, <3>1 DEF Steady, LinksGrow
      <4>2. p \in Projects
        <5>1. <<t, p>> \in Made(e, "tender") \X Made(e, "project")
          BY <3>1 DEF Steady, Regular
        <5> QED BY <5>1, MadeRows DEF Steady, Regular
      <4> QED BY <4>1, <4>2 DEF Steady, ProjectsStay
    <3>2. CASE <<t, p>> \notin e.inTender
      BY <2>2, <3>2 DEF Steady, LinksGrow
    <3> QED BY <3>1, <3>2
  <2> QED BY <2>1, <2>2 DEF LinksGrow
<1> QED BY <1>1, <1>2, <1>3 DEF Steady

(* Neither projects nor links of tenders nor their numbers change.         *)
Aside(d, e) ==
    /\ e.project = d.project /\ e.inTender = d.inTender
    /\ \A t \in Tenders : e.tender[t].reg = d.tender[t].reg
    /\ d.ofProject \subseteq e.ofProject
    /\ d.ofObject \subseteq e.ofObject /\ d.leftObject \subseteq e.leftObject

LEMMA AsideSteady ==
    ASSUME NEW d, NEW e, Aside(d, e), Regular(e), LiveContracts(d) \subseteq LiveContracts(e)
    PROVE  Steady(d, e)
<1>1. \A o : OpenProjects(e, o) = OpenProjects(d, o)
  BY DEF Aside, OpenProjects
<1>2. ProjectsStay(d, e)
  BY <1>1 DEF Aside, ProjectsStay
<1>3. LinksGrow(d, e) /\ CardsStay(d, e)
  BY DEF Aside, LinksGrow, CardsStay
<1> QED BY <1>2, <1>3 DEF Steady

LEMMA GrowsAside ==
    ASSUME NEW d, NEW e, NEW T, Grows(d, e, T), Aside(d, e)
    PROVE  Steady(d, e)
<1>1. Regular(e) /\ LiveContracts(d) \subseteq LiveContracts(e)
  BY DEF Grows, Keeping
<1> QED BY <1>1, AsideSteady

LEMMA SelfSteady ==
    ASSUME NEW d, Regular(d) PROVE Steady(d, d)
<1>1. Aside(d, d)
  BY DEF Aside
<1> QED BY <1>1, AsideSteady

LEMMA SetObjectsSteady ==
    ASSUME NEW d, Regular(d), NEW S, NEW st \in ObjectStatus
    PROVE  Steady(d, SetObjects(d, S, st))
<1> DEFINE e == SetObjects(d, S, st)
<1>1. Aside(d, e)
  BY DEF Aside, SetObjects
<1>2. Grows(d, e, {})
  BY SetObjectsGrows
<1> HIDE DEF e
<1>3. Steady(d, e)
  BY <1>1, <1>2, GrowsAside
<1> QED BY <1>3 DEF e

LEMMA LinkProjectsSteady ==
    ASSUME NEW d, Regular(d), NEW c \in Made(d, "contract"), NEW S \in SUBSET Projects,
           NEW p \in Projects
    PROVE  Steady(d, LinkProjects(d, c, S, p))
<1> DEFINE e == LinkProjects(d, c, S, p)
<1>1. Aside(d, e)
  BY DEF Aside, LinkProjects, Regular, Columns, Tables
<1>2. Grows(d, e, {})
  BY LinkProjectsGrows
<1> HIDE DEF e
<1>3. Steady(d, e)
  BY <1>1, <1>2, GrowsAside
<1> QED BY <1>3 DEF e

LEMMA FillTenderSteady ==
    ASSUME NEW d, Regular(d), NEW c \in Made(d, "contract"), NEW t \in Tenders \cup {None}
    PROVE  Steady(d, FillTender(d, c, t))
<1> DEFINE e == FillTender(d, c, t)
<1>1. Aside(d, e)
  BY DEF Aside, FillTender, Regular, Columns, Tables
<1>2. Grows(d, e, {})
  BY FillTenderGrows
<1> HIDE DEF e
<1>3. Steady(d, e)
  BY <1>1, <1>2, GrowsAside
<1> QED BY <1>3 DEF e

LEMMA LinkImportedSteady ==
    ASSUME NEW d, Regular(d), NEW c \in Contracts, NEW S \in SUBSET Objects
    PROVE  Steady(d, LinkImported(d, c, S))
<1> DEFINE e == LinkImported(d, c, S)
<1>1. Aside(d, e)
  BY DEF Aside, LinkImported, LinkNewObjects, LinkObjects, SetObjects, Regular, Columns, Tables
<1>2. Grows(d, e, {})
  BY LinkImportedGrows
<1> HIDE DEF e
<1>3. Steady(d, e)
  BY <1>1, <1>2, GrowsAside
<1> QED BY <1>3 DEF e

LEMMA TenderStatusSteady ==
    ASSUME NEW d, Regular(d), NEW t \in Made(d, "tender"), NEW st \in TenderStatus
    PROVE  Steady(d, [d EXCEPT !.tender[t].status = st])
<1> DEFINE e == [d EXCEPT !.tender[t].status = st]
<1>0. t \in Tenders /\ d.tender[t] \in TenderRow
  BY MadeRows DEF Regular
<1>1. Aside(d, e)
  BY <1>0 DEF Aside, Regular, Columns, Tables, TenderRow
<1>2. Grows(d, e, {})
  BY TenderFieldsGrow
<1> HIDE DEF e
<1>3. Steady(d, e)
  BY <1>1, <1>2, GrowsAside
<1> QED BY <1>3 DEF e

(* An open project is one whose object has it.                             *)
LEMMA OpenProjectIs ==
    ASSUME NEW d, NEW o, NEW p
    PROVE  p \in OpenProjects(d, o) <=>
             /\ p \in Projects /\ d.project[p].object = o /\ d.project[p].live
             /\ d.project[p].status \in OpenStatus
  BY DEF OpenProjects

LEMMA SetProjectsSteady ==
    ASSUME NEW d, Regular(d), NEW S, S \cap Projects \subseteq Made(d, "project"),
           NEW st \in OpenStatus
    PROVE  Steady(d, SetProjects(d, S, st))
<1> DEFINE e == SetProjects(d, S, st)
<1>1. /\ e.inTender = d.inTender /\ e.tender = d.tender /\ e.contract = d.contract
      /\ e.ofObject = d.ofObject /\ e.leftObject = d.leftObject /\ e.ofProject = d.ofProject
      /\ e.project = [p \in Projects |-> IF p \in S THEN [d.project[p] EXCEPT !.status = st]
                                                    ELSE d.project[p]]
  BY DEF SetProjects, Regular, Columns, Tables
<1>2. Grows(d, e, {})
  BY StatusTypes, SetProjectsRegular
<1> HIDE DEF e
<1>3. ASSUME NEW p \in Projects
      PROVE  /\ e.project[p].status = IF p \in S THEN st ELSE d.project[p].status
             /\ e.project[p].object = d.project[p].object /\ e.project[p].live = d.project[p].live
             /\ p \in S => d.project[p].status \in ProjectStatus
  <2>1. p \in S => d.project[p] \in ProjectRow
    BY MadeRows DEF Regular
  <2>2. CASE p \in S
    <3>1. e.project[p] = [d.project[p] EXCEPT !.status = st]
      BY <1>1, <2>2
    <3> QED BY <2>1, <2>2, <3>1 DEF ProjectRow
  <2>3. CASE p \notin S
    BY <1>1, <2>3
  <2> QED BY <2>2, <2>3
<1>4. OpenStatus \cap ClosedStatus = {} /\ ProjectStatus = OpenStatus \cup ClosedStatus
  BY DEF OpenStatus, ClosedStatus, ProjectStatus
<1>5. ProjectsStay(d, e)
  <2>1. ASSUME NEW o, NEW p \in OpenProjects(e, o) \ OpenProjects(d, o)
        PROVE  d.project[p].status \in ClosedStatus
    BY <1>3, <1>4, <2>1, OpenProjectIs
  <2>2. \A o : OpenProjects(d, o) \subseteq OpenProjects(e, o)
    BY <1>2 DEF Grows, Keeping
  <2>3. \A p \in Projects :
          /\ d.project[p].status \in OpenStatus => e.project[p].status \in OpenStatus
          /\ e.project[p].status \in ClosedStatus => d.project[p].status \in ClosedStatus
    BY <1>3, <1>4
  <2> QED BY <2>1, <2>2, <2>3 DEF ProjectsStay
<1>6. LinksGrow(d, e)
  BY <1>1 DEF LinksGrow
<1>7. CardsStay(d, e)
  BY <1>1, <1>2 DEF CardsStay, Grows, Keeping
<1>8. Steady(d, e)
  BY <1>2, <1>5, <1>6, <1>7 DEF Steady, Grows
<1> QED BY <1>8 DEF e

LEMMA SideEffectsSteady ==
    ASSUME NEW d, Regular(d), NEW S, S \cap Projects \subseteq Made(d, "project"), NEW st
    PROVE  /\ Steady(d, SideEffects(d, S, st))
           /\ \A p \in S \cap Projects : SideEffects(d, S, st).project[p].status \in OpenStatus
<1> DEFINE to == IF st = "lost" THEN "active" ELSE "in_tender"
           so == IF st = "lost" THEN "in_project" ELSE "in_tender"
           e == SetProjects(d, S, to)
           O == ObjectsOf(d, S)
<1>1. SideEffects(d, S, st) = SetObjects(e, O, so)
  BY DEF SideEffects
<1>2. to \in OpenStatus /\ so \in ObjectStatus
  BY DEF OpenStatus, ObjectStatus
<1> HIDE DEF to, so, O
<1>3. Steady(d, e)
  BY <1>2, SetProjectsSteady
<1>4. \A p \in S \cap Projects : e.project[p].status = to
  BY MadeRows DEF SetProjects, Regular, Columns, Tables, ProjectRow
<1> HIDE DEF e
<1> DEFINE f == SetObjects(e, O, so)
<1>5. Steady(e, f)
  BY <1>2, <1>3, SetObjectsSteady DEF Steady
<1>6. f.project = e.project
  BY <1>3 DEF SetObjects, Steady, Regular, Columns, Tables
<1> HIDE DEF f
<1>7. Steady(d, f)
  BY <1>3, <1>5, SteadyTrans
<1>8. \A p \in S \cap Projects : f.project[p].status \in OpenStatus
  BY <1>2, <1>4, <1>6
<1> QED BY <1>1, <1>7, <1>8 DEF f

LEMMA RegularShaped ==
    ASSUME NEW d, Regular(d) PROVE Shaped(d)
<1>1. ASSUME NEW p \in Projects
      PROVE  /\ DOMAIN d.project[p] = {"status", "object", "live"}
             /\ d.project[p].status \in ProjectStatus \cup {"none"}
             /\ d.project[p].status = "none" => d.project[p].live = FALSE
  <2>1. d.project[p] \in ProjectRow \/ d.project[p] = NoProject
    BY DEF Regular, Columns
  <2>2. CASE d.project[p] \in ProjectRow
    BY <2>2, StatusTypes DEF ProjectRow
  <2>3. CASE d.project[p] = NoProject
    BY <2>3 DEF NoProject
  <2> QED BY <2>1, <2>2, <2>3
<1> QED BY <1>1 DEF Regular, Columns, Shaped

LEMMA AddProjectsSteady ==
    ASSUME NEW d, Regular(d), NEW S \in SUBSET Objects, S # {} => RoomForProjects(d),
           \A o \in S : OpenProjects(d, o) = {}
    PROVE  Steady(d, AddProjects(d, S, "active"))
<1> DEFINE e == AddProjects(d, S, "active")
<1>1. "active" \in OpenStatus /\ "active" \in ProjectStatus /\ "active" \notin ClosedStatus
  BY DEF OpenStatus, ProjectStatus, ClosedStatus
<1>2. \A p \in Projects : \/ e.project[p] = d.project[p]
                          \/ e.project[p].status = "active" /\ e.project[p].object \in S
  BY <1>1, RegularShaped, AddedProjects
<1>3. Grows(d, e, {"project"})
  BY <1>1, AddProjectsGrows
<1>4. /\ e.inTender = d.inTender /\ e.tender = d.tender /\ e.contract = d.contract
      /\ e.ofObject = d.ofObject /\ e.leftObject = d.leftObject /\ e.ofProject = d.ofProject
  BY DEF Regular, Columns, Tables, AddProjects
<1> HIDE DEF e
<1>5. ProjectsStay(d, e)
  <2>1. \A p \in Projects :
          /\ d.project[p].status \in OpenStatus => e.project[p].status \in OpenStatus
          /\ e.project[p].status \in ClosedStatus => d.project[p].status \in ClosedStatus
    BY <1>1, <1>2
  <2>2. \A o : OpenProjects(d, o) \subseteq OpenProjects(e, o)
    BY <1>3 DEF Grows, Keeping
  <2>3. ASSUME NEW o, NEW p \in OpenProjects(e, o) \ OpenProjects(d, o)
        PROVE  OpenProjects(d, o) = {}
    <3>1. p \in Projects /\ e.project[p].object = o /\ e.project[p] # d.project[p]
      BY <2>3, OpenProjectIs
    <3> QED BY <1>2, <3>1
  <2> QED BY <2>1, <2>2, <2>3 DEF ProjectsStay
<1>6. LinksGrow(d, e)
  BY <1>4 DEF LinksGrow
<1>7. CardsStay(d, e)
  BY <1>3, <1>4 DEF CardsStay, Grows, Keeping
<1>8. Steady(d, e)
  BY <1>3, <1>5, <1>6, <1>7 DEF Steady, Grows
<1> QED BY <1>8 DEF e

LEMMA EnsureProjectsSteady ==
    ASSUME NEW d, Regular(d), NEW S \in SUBSET Objects,
           RoomForProjects(d) \/ \A o \in S : OpenProjects(d, o) # {}
    PROVE  Steady(d, EnsureProjects(d, S))
<1> DEFINE new == {o \in S : ActiveProject(d, o) = None}
           e == AddProjects(d, new, "active")
           f == SetObjects(e, {o \in new : d.object[o] = "free"}, "in_project")
<1>0. EnsureProjects(d, S) = f
  BY DEF EnsureProjects
<1>1. new \in SUBSET Objects /\ new \subseteq S
  OBVIOUS
<1>2. \A o \in new : OpenProjects(d, o) = {}
  BY NoActiveProject
<1> HIDE DEF new
<1>3. new # {} => RoomForProjects(d)
  BY <1>1, <1>2
<1>4. Steady(d, e)
  BY <1>1, <1>2, <1>3, AddProjectsSteady
<1> HIDE DEF e
<1>5. Steady(e, f)
  BY <1>4, SetObjectsSteady DEF Steady, ObjectStatus
<1> HIDE DEF f
<1> QED BY <1>0, <1>4, <1>5, SteadyTrans

LEMMA LinkTenderSteady ==
    ASSUME NEW d, Regular(d), NEW t \in Made(d, "tender"), NEW S \in SUBSET Made(d, "project"),
           \A p \in S : d.project[p].status \in OpenStatus
    PROVE  /\ Steady(d, LinkTender(d, t, S))
           /\ LinkTender(d, t, S).inTender = d.inTender \cup ({t} \X S)
           /\ LinkTender(d, t, S).tender = d.tender /\ LinkTender(d, t, S).project = d.project
<1> DEFINE e == LinkTender(d, t, S)
<1>1. /\ e.inTender = d.inTender \cup ({t} \X S)
      /\ e.project = d.project /\ e.tender = d.tender /\ e.contract = d.contract
      /\ e.ofObject = d.ofObject /\ e.leftObject = d.leftObject /\ e.ofProject = d.ofProject
  BY DEF Regular, Columns, Tables, LinkTender
<1>2. Grows(d, e, {})
  BY LinkTenderGrows
<1> HIDE DEF e
<1>3. ProjectsStay(d, e)
  <2>1. \A o : OpenProjects(e, o) = OpenProjects(d, o)
    BY <1>1 DEF OpenProjects
  <2> QED BY <1>1, <2>1 DEF ProjectsStay
<1>4. \A x, p : <<x, p>> \in e.inTender \ d.inTender => p \in S
  BY <1>1
<1>5. LinksGrow(d, e)
  BY <1>1, <1>4 DEF LinksGrow
<1>6. CardsStay(d, e)
  BY <1>1, <1>2 DEF CardsStay, Grows, Keeping
<1>7. Steady(d, e)
  BY <1>2, <1>3, <1>5, <1>6 DEF Steady, Grows
<1> QED BY <1>1, <1>7 DEF e

(* What side effects and a tender's fields leave alone.                    *)
LEMMA SideEffectsLeave ==
    ASSUME NEW d, Regular(d), NEW S, NEW st
    PROVE  /\ SideEffects(d, S, st).tender = d.tender
           /\ SideEffects(d, S, st).inTender = d.inTender
  BY DEF SideEffects, SetObjects, SetProjects, Regular, Columns, Tables

LEMMA AddTenderSteady ==
    ASSUME NEW d, Regular(d), RoomForTender(d), NEW S \in SUBSET Made(d, "project"),
           \A p \in S : d.project[p].status \in OpenStatus,
           NEW o \in Objects \cup {None}, NEW st \in TenderStatus
    PROVE  LET t == NextId(d.tender)
               e == AddTender(d, S, o, st)
           IN  /\ Steady(d, e) /\ e.tender[t].reg = None
               /\ \A p \in LinkedProjects(e, t) : e.project[p].status \in OpenStatus
<1> DEFINE t == NextId(d.tender)
           row == [status |-> st, object |-> o, reg |-> None]
           e == [d EXCEPT !.tender[t] = row]
           f == LinkTender(e, t, S)
           g == SideEffects(f, S, st)
<1>0. AddTender(d, S, o, st) = g
  BY DEF AddTender
<1>1. t \in Tenders /\ t \notin Made(d, "tender")
  BY NextTender
<1>2. row \in TenderRow /\ row.reg = None
  BY DEF TenderRow
<1>3. /\ DOMAIN e = Tables /\ e.tender = [d.tender EXCEPT ![t] = row]
      /\ \A table \in Tables \ {"tender"} : e[table] = d[table]
  BY DEF Regular, Columns, Tables
<1> HIDE DEF t, row, e
<1>4. Grows(d, e, {"tender"}) /\ t \in Made(e, "tender")
  BY <1>1, <1>2, <1>3, TenderRowPut
<1>5. d.tender[t].reg = None
  <2>1. d.tender[t] = NoTender
    BY <1>1, MadeRows DEF Regular, Columns
  <2> QED BY <2>1 DEF NoTender
<1>6. /\ e.project = d.project /\ e.inTender = d.inTender /\ e.ofProject = d.ofProject
      /\ e.ofObject = d.ofObject /\ e.leftObject = d.leftObject
  BY <1>3 DEF Tables
<1>7. e.tender[t] = row /\ \A x \in Tenders \ {t} : e.tender[x] = d.tender[x]
  BY <1>1, <1>3 DEF Regular, Columns
<1>8. Aside(d, e)
  BY <1>2, <1>5, <1>6, <1>7 DEF Aside
<1>9. Steady(d, e)
  BY <1>4, <1>8, GrowsAside
<1>10. S \in SUBSET Made(e, "project") /\ \A p \in S : e.project[p].status \in OpenStatus
  BY <1>4, <1>6 DEF Grows, Keeping
<1>11. /\ Steady(e, f) /\ f.tender = e.tender /\ f.inTender = e.inTender \cup ({t} \X S)
  BY <1>4, <1>9, <1>10, LinkTenderSteady DEF Steady
<1> HIDE DEF f
<1>12. S \cap Projects \subseteq Made(f, "project") /\ S \subseteq Projects
  <2>1. /\ Made(d, "project") = {p \in Projects : d.project[p] \in ProjectRow}
        /\ Made(f, "project") = {p \in Projects : f.project[p].status # "none"}
    BY <1>11, MadeRows DEF Steady, Regular, Columns, Made
  <2>2. \A p \in S : p \in Projects /\ f.project[p].status \in OpenStatus
    BY <1>10, <1>11, <2>1 DEF Steady, ProjectsStay
  <2> QED BY <2>1, <2>2, StatusTypes
<1>13. /\ Steady(f, g) /\ \A p \in S : g.project[p].status \in OpenStatus
       /\ g.tender = f.tender /\ g.inTender = f.inTender
  BY <1>11, <1>12, SideEffectsSteady, SideEffectsLeave DEF Steady
<1> HIDE DEF g
<1>14. LinkedProjects(g, t) \subseteq S
  <2>1. \A p : <<t, p>> \notin d.inTender
    BY <1>1 DEF Regular
  <2>2. g.inTender = d.inTender \cup ({t} \X S)
    BY <1>6, <1>11, <1>13
  <2> QED BY <2>1, <2>2 DEF LinkedProjects
<1>15. Steady(d, g)
  BY <1>9, <1>11, <1>13, SteadyTrans
<1>16. g.tender[t].reg = None
  BY <1>2, <1>7, <1>11, <1>13
<1> QED BY <1>0, <1>13, <1>14, <1>15, <1>16 DEF t

(* A tender gets the number of the notice, which it may have already.      *)
LEMMA NumberSteady ==
    ASSUME NEW d, Regular(d), NEW t \in Made(d, "tender"), NEW n \in Orders,
           d.tender[t].reg \in {None, n}
    PROVE  LET e == [d EXCEPT !.tender[t].reg = n] IN
           /\ Steady(d, e) /\ e.tender[t].reg = n
           /\ e.project = d.project /\ e.inTender = d.inTender
<1> DEFINE e == [d EXCEPT !.tender[t].reg = n]
<1>1. t \in Tenders /\ d.tender[t] \in TenderRow
  BY MadeRows DEF Regular
<1>2. /\ e.project = d.project /\ e.inTender = d.inTender /\ e.ofProject = d.ofProject
      /\ e.ofObject = d.ofObject /\ e.leftObject = d.leftObject
      /\ e.tender = [d.tender EXCEPT ![t].reg = n]
  BY DEF Regular, Columns, Tables
<1>3. Grows(d, e, {})
  BY TenderFieldsGrow
<1> HIDE DEF e
<1>4. e.tender[t].reg = n /\ \A x \in Tenders \ {t} : e.tender[x] = d.tender[x]
  BY <1>1, <1>2 DEF Regular, Columns, TenderRow
<1>5. ProjectsStay(d, e)
  <2>1. \A o : OpenProjects(e, o) = OpenProjects(d, o)
    BY <1>2 DEF OpenProjects
  <2> QED BY <1>2, <2>1 DEF ProjectsStay
<1>6. LinksGrow(d, e)
  BY <1>2 DEF LinksGrow
<1>7. \A x \in Tenders : d.tender[x].reg # None => e.tender[x].reg = d.tender[x].reg
  BY <1>4
<1>8. CardsStay(d, e)
  BY <1>3, <1>7 DEF CardsStay, Grows, Keeping
<1>9. Steady(d, e)
  BY <1>3, <1>5, <1>6, <1>8 DEF Steady, Grows
<1> QED BY <1>2, <1>4, <1>9 DEF e

LEMMA ImportedTenderNumber ==
    ASSUME NEW d, Regular(d), NEW n \in Orders, NEW o, NEW p,
           ImportedTender(d, n, o, p) # None
    PROVE  d.tender[ImportedTender(d, n, o, p)].reg \in {None, n}
<1> DEFINE R == {t \in Tenders : d.tender[t].reg = n}
<1>1. R \subseteq Nat
  BY Constants
<1>2. R # {} => Oldest(R) \in R
  BY <1>1, OldestIsMember
<1> QED BY <1>2 DEF ImportedTender

(* Open projects are rows of the table.                                    *)
LEMMA OpenStayMade ==
    ASSUME NEW d, Regular(d), NEW e, Steady(d, e), NEW S \in SUBSET Made(d, "project"),
           \A p \in S : d.project[p].status \in OpenStatus
    PROVE  /\ S \in SUBSET Made(e, "project")
           /\ \A p \in S : e.project[p].status \in OpenStatus
<1>1. /\ Made(d, "project") \subseteq Projects
      /\ Made(e, "project") = {p \in Projects : e.project[p].status # "none"}
  BY DEF Steady, Regular, Columns, Made
<1>2. \A p \in S : p \in Projects /\ e.project[p].status \in OpenStatus
  BY <1>1 DEF Steady, ProjectsStay
<1> QED BY <1>1, <1>2, StatusTypes

(* After the first part of an order's card its tender has its number, and  *)
(* the projects of the card's objects.                                     *)
LEMMA WithNoticeSteady ==
    ASSUME NEW d, Regular(d), NEW n \in Orders, MainObject[n] \in Objects,
           NEW p \in Made(d, "project"), d.project[p].status \in OpenStatus,
           NEW others \in SUBSET Made(d, "project"),
           \A q \in others : d.project[q].status \in OpenStatus,
           NEW t, \/ t \in Made(d, "tender") /\ d.tender[t].reg \in {None, n}
                  \/ RoomForTender(d) /\ t = NextId(d.tender)
    PROVE  LET e == WithNotice(d, n, t, p, others) IN
           /\ Steady(d, e) /\ t \in Tenders /\ e.tender[t].reg = n
           /\ \A q \in others : <<t, q>> \in e.inTender
           /\ \A q \in LinkedProjects(e, t) : e.project[q].status \in OpenStatus
<1> DEFINE found == [d EXCEPT !.tender[t].status = TenderStage(n)]
           added == AddTender(d, {p}, MainObject[n], TenderStage(n))
           effects == SideEffects(found, LinkedProjects(d, t), TenderStage(n))
           tender == IF d.tender[t].status = "none" THEN added ELSE effects
           noted == [tender EXCEPT !.tender[t].reg = n]
           linked == LinkTender(noted, t, others)
<1>0. WithNotice(d, n, t, p, others) = linked
  BY DEF WithNotice
<1>1. TenderStage(n) \in TenderStatus
  BY DEF TenderStage, TenderStatus
<1>2. /\ Steady(d, tender) /\ t \in Made(tender, "tender") /\ tender.tender[t].reg \in {None, n}
      /\ \A q \in LinkedProjects(tender, t) : tender.project[q].status \in OpenStatus
  <2>1. CASE t \in Made(d, "tender") /\ d.tender[t].reg \in {None, n}
    <3>1. d.tender[t].status # "none" /\ t \in Tenders /\ d.tender[t] \in TenderRow
      BY <2>1, MadeRows DEF Made, Regular
    <3>2. Steady(d, found) /\ Grows(d, found, {})
      BY <1>1, <2>1, TenderStatusSteady, TenderFieldsGrow
    <3>3. found.inTender = d.inTender /\ found.tender[t].reg = d.tender[t].reg
      BY <3>1 DEF Regular, Columns, Tables, TenderRow
    <3> HIDE DEF found
    <3>4. /\ LinkedProjects(found, t) = LinkedProjects(d, t)
          /\ LinkedProjects(d, t) \cap Projects \subseteq Made(found, "project")
          /\ LinkedProjects(d, t) \subseteq Projects
      BY <3>2, <3>3, LinkedAreMade DEF Grows, Keeping, LinkedProjects
    <3>5. /\ Steady(found, effects)
          /\ \A q \in LinkedProjects(d, t) \cap Projects : effects.project[q].status \in OpenStatus
      BY <3>2, <3>4, SideEffectsSteady DEF Steady
    <3>6. effects.tender = found.tender /\ effects.inTender = found.inTender
      BY <3>2, SideEffectsLeave DEF Steady
    <3>7. Grows(found, effects, {})
      BY <3>2, <3>4, SideEffectsGrows DEF Grows
    <3> HIDE DEF effects
    <3>8. t \in Made(effects, "tender")
      BY <2>1, <3>2, <3>7 DEF Grows, Keeping
    <3>9. LinkedProjects(effects, t) = LinkedProjects(d, t)
      BY <3>4, <3>6 DEF LinkedProjects
    <3>10. Steady(d, effects)
      BY <3>2, <3>5, SteadyTrans
    <3>11. tender = effects
      BY <3>1
    <3>12. effects.tender[t].reg \in {None, n}
      BY <2>1, <3>3, <3>6
    <3>13. \A q \in LinkedProjects(effects, t) : effects.project[q].status \in OpenStatus
      BY <3>4, <3>5, <3>9
    <3> HIDE DEF tender
    <3> QED BY <3>8, <3>10, <3>11, <3>12, <3>13
  <2>2. CASE RoomForTender(d) /\ t = NextId(d.tender)
    <3>2. t \in Tenders /\ t \notin Made(d, "tender")
      BY <2>2, NextTender
    <3>3. d.tender[t].status = "none"
      BY <3>2 DEF Made, Regular, Columns
    <3>4. /\ Steady(d, added) /\ added.tender[t].reg = None
          /\ \A q \in LinkedProjects(added, t) : added.project[q].status \in OpenStatus
      BY <1>1, <2>2, AddTenderSteady
    <3>5. t \in Made(added, "tender")
      BY <1>1, <2>2, AddTenderGrows
    <3>6. tender = added
      BY <3>3
    <3> HIDE DEF tender, added
    <3> QED BY <3>4, <3>5, <3>6
  <2> QED BY <2>1, <2>2
<1> HIDE DEF tender
<1>3. /\ Steady(tender, noted) /\ noted.tender[t].reg = n
      /\ noted.project = tender.project /\ noted.inTender = tender.inTender
  BY <1>2, NumberSteady DEF Steady
<1>4. t \in Made(noted, "tender")
  BY <1>2, TenderFieldsGrow DEF Steady, Grows, Keeping
<1> HIDE DEF noted
<1>5. Steady(d, noted)
  BY <1>2, <1>3, SteadyTrans
<1>6. others \in SUBSET Made(noted, "project") /\ \A q \in others : noted.project[q].status \in OpenStatus
  BY <1>5, OpenStayMade
<1>7. /\ Steady(noted, linked) /\ linked.inTender = noted.inTender \cup ({t} \X others)
      /\ linked.tender = noted.tender /\ linked.project = noted.project
  BY <1>4, <1>5, <1>6, LinkTenderSteady DEF Steady
<1> HIDE DEF linked
<1>8. Steady(d, linked)
  BY <1>5, <1>7, SteadyTrans
<1>9. t \in Tenders
  BY <1>4, <1>5, MadeRows DEF Steady, Regular
<1>10. \A q \in LinkedProjects(linked, t) : linked.project[q].status \in OpenStatus
  <2>1. LinkedProjects(linked, t) \subseteq LinkedProjects(tender, t) \cup others
    BY <1>3, <1>7 DEF LinkedProjects
  <2> QED BY <1>2, <1>3, <1>6, <1>7, <2>1
<1>11. \A q \in others : <<t, q>> \in linked.inTender
  BY <1>7
<1> QED BY <1>0, <1>3, <1>7, <1>8, <1>9, <1>10, <1>11

LEMMA UpsertContractSteady ==
    ASSUME NEW d, Regular(d), RoomForContract(d), NEW n \in Orders
    PROVE  Steady(d, UpsertContract(d, n))
<1> DEFINE found == FindContract(d, n)
           c == IF found = None THEN NextId(d.contract) ELSE found
           row == IF found = None THEN AddContract(d, n, ContractStage(n))
                  ELSE [d EXCEPT !.contract[c].status = NewStage(n, @)]
           e == [row EXCEPT !.contract[c].reg = n]
<1>0. UpsertContract(d, n) = e
  BY DEF UpsertContract
<1>1. /\ DOMAIN row = Tables /\ DOMAIN row.contract = Contracts
      /\ \A table \in Tables \ {"contract"} : row[table] = d[table]
      /\ \A x \in Contracts \ {c} : row.contract[x] = d.contract[x]
  <2>1. CASE found = None
    BY <2>1 DEF Regular, Columns, Tables, AddContract
  <2>2. CASE found # None
    BY <2>2 DEF Regular, Columns, Tables
  <2> QED BY <2>1, <2>2
<1>2. c \in LiveContracts(d) => /\ row.contract[c] \in ContractRow
                                /\ row.contract[c].status \in ContractStatus
  <2>1. CASE found = None
    <3>1. c \notin Made(d, "contract")
      BY <2>1, NextContract
    <3> QED BY <3>1, LiveAreMade DEF Regular
  <2>2. CASE found # None
    <3> SUFFICES ASSUME c \in LiveContracts(d)
                 PROVE  /\ row.contract[c] \in ContractRow
                        /\ row.contract[c].status \in ContractStatus
      OBVIOUS
    <3>1. c \in Contracts /\ d.contract[c] \in ContractRow
      BY LiveAreMade, MadeRows DEF Regular
    <3>2. \A st : NewStage(n, st) \in ContractStatus
      BY DEF ContractStage, NewStage, ContractStatus
    <3>3. row.contract[c] = [d.contract[c] EXCEPT !.status = NewStage(n, d.contract[c].status)]
      BY <2>2, <3>1 DEF Regular, Columns, Tables
    <3> HIDE DEF row, c
    <3>4. row.contract[c].status = NewStage(n, d.contract[c].status) /\ row.contract[c] \in ContractRow
      BY <3>1, <3>2, <3>3 DEF ContractRow
    <3> QED BY <3>2, <3>4
  <2> QED BY <2>1, <2>2
<1> HIDE DEF row, c
<1>3. /\ \A table \in Tables \ {"contract"} : e[table] = row[table]
      /\ \A x \in Contracts : x # c => e.contract[x] = row.contract[x]
      /\ c \in Contracts => e.contract[c] = [row.contract[c] EXCEPT !.reg = n]
  BY <1>1 DEF Tables
<1>4. Regular(e)
  BY <1>0, UpsertContractRegular
<1> HIDE DEF e
<1>5. /\ e.project = d.project /\ e.inTender = d.inTender /\ e.tender = d.tender
      /\ e.ofObject = d.ofObject /\ e.leftObject = d.leftObject /\ e.ofProject = d.ofProject
  BY <1>1, <1>3 DEF Tables
<1>6. ASSUME NEW x \in LiveContracts(d) PROVE x \in LiveContracts(e)
  <2>1. x \in Contracts /\ d.contract[x].status \in ContractStatus
    BY DEF LiveContracts, LiveContract
  <2>2. row.contract[x].status \in ContractStatus
    BY <1>1, <1>2, <2>1
  <2>3. e.contract[x].status = row.contract[x].status
    <3>1. CASE x = c
      BY <1>2, <1>3, <2>1, <3>1 DEF ContractRow
    <3>2. CASE x # c
      BY <1>3, <2>1, <3>2
    <3> QED BY <3>1, <3>2
  <2> QED BY <2>1, <2>2, <2>3 DEF LiveContracts, LiveContract
<1>7. Aside(d, e)
  BY <1>5 DEF Aside
<1> QED BY <1>0, <1>4, <1>6, <1>7, AsideSteady

(* Objects keep their projects while no closed one is opened.              *)
LEMMA StillActive ==
    ASSUME NEW d, NEW e, Steady(d, e), Reopened(d, e) = {}, NEW o, OpenProjects(d, o) # {}
    PROVE  /\ OpenProjects(e, o) = OpenProjects(d, o)
           /\ ActiveProject(e, o) = ActiveProject(d, o)
<1>1. ASSUME NEW p \in OpenProjects(e, o) \ OpenProjects(d, o) PROVE FALSE
  <2>1. d.project[p].status \in ClosedStatus
    BY DEF Steady, ProjectsStay
  <2>2. p \in Projects /\ e.project[p].status \in OpenStatus
    BY <1>1, OpenProjectIs
  <2> QED BY <2>1, <2>2, IsReopened
<1>2. OpenProjects(d, o) \subseteq OpenProjects(e, o)
  BY DEF Steady, ProjectsStay
<1> QED BY <1>1, <1>2 DEF ActiveProject

LEMMA NoneReopenedLater ==
    ASSUME NEW d, NEW e, NEW f, Steady(d, e), Steady(e, f), Reopened(d, f) = {}
    PROVE  Reopened(e, f) = {}
<1> SUFFICES ASSUME NEW p \in Projects, e.project[p].status \in ClosedStatus,
                    f.project[p].status \in OpenStatus
             PROVE  FALSE
  BY DEF Reopened
<1>1. d.project[p].status \in ClosedStatus
  BY DEF Steady, ProjectsStay
<1> QED BY <1>1, IsReopened

LEMMA TenderStays ==
    ASSUME NEW d, NEW n \in Orders, \A o \in OthersOf(n) : OpenProjects(d, o) # {},
           HasTender(d, n), Regular(d), NEW e, Steady(d, e), Reopened(d, e) = {}
    PROVE  HasTender(e, n)
<1>1. PICK t \in Tenders :
        /\ d.tender[t].reg = n
        /\ \A o \in OthersOf(n) : <<t, ActiveProject(d, o)>> \in d.inTender
        /\ \A p \in LinkedProjects(d, t) : d.project[p].status \in OpenStatus
  BY DEF HasTender
<1>2. e.tender[t].reg = n
  BY <1>1, ChainAssumption DEF Steady, CardsStay
<1>3. \A o \in OthersOf(n) : <<t, ActiveProject(e, o)>> \in e.inTender
  BY <1>1, StillActive DEF Steady, LinksGrow
<1>4. ASSUME NEW p \in LinkedProjects(e, t) PROVE e.project[p].status \in OpenStatus
  <2>1. CASE <<t, p>> \in d.inTender
    <3>1. p \in LinkedProjects(d, t) /\ p \in Projects
      BY <2>1 DEF LinkedProjects
    <3> QED BY <1>1, <3>1 DEF Steady, ProjectsStay
  <2>2. CASE <<t, p>> \notin d.inTender
    BY <2>2 DEF Steady, LinksGrow, LinkedProjects
  <2> QED BY <2>1, <2>2
<1> QED BY <1>2, <1>3, <1>4 DEF HasTender

(* The contract of a card for whose object there is a project: what the    *)
(* import leaves, unless it has opened a closed project.                   *)
LEMMA ContractStays ==
    ASSUME NEW d, NEW n, NEW o, o # None => OpenProjects(d, o) # {}, NEW S, HasContract(d, n, o, S),
           NEW e, Steady(d, e), Reopened(d, e) = {},
           \A c \in LiveContracts(d) : d.contract[c].reg = n => e.contract[c].reg = n
    PROVE  HasContract(e, n, o, S)
<1>1. PICK c \in LiveContracts(d) :
        /\ d.contract[c].reg = n
        /\ o # None => <<c, ActiveProject(d, o)>> \in d.ofProject
        /\ \A x \in S : <<c, x>> \in d.ofObject \cup d.leftObject
  BY DEF HasContract
<1>2. c \in LiveContracts(e) /\ e.contract[c].reg = n
  BY <1>1 DEF Steady, CardsStay
<1>3. \A x \in S : <<c, x>> \in e.ofObject \cup e.leftObject
  BY <1>1 DEF Steady, LinksGrow
<1>4. o # None => <<c, ActiveProject(e, o)>> \in e.ofProject
  BY <1>1, StillActive DEF Steady, LinksGrow
<1> QED BY <1>2, <1>3, <1>4 DEF HasContract

LEMMA FindRegistered ==
    ASSUME NEW d, NEW n, HasCard(d, n)
    PROVE  d.contract[FindContract(d, n)].reg = n
<1> DEFINE R == {c \in Contracts : LiveContract(d, c) /\ d.contract[c].reg = n}
<1>1. R \subseteq Nat /\ R # {}
  BY Constants DEF HasCard, LiveContracts
<1>2. FindContract(d, n) = Oldest(R) /\ Oldest(R) \in R
  BY <1>1, OldestIsMember DEF FindContract
<1> QED BY <1>2

LEMMA LinkedAfterImport ==
    ASSUME NEW d, Regular(d), NEW c, NEW S \in SUBSET Objects
    PROVE  LET e == LinkImported(d, c, S) IN
           /\ \A o \in S : <<c, o>> \in e.ofObject \cup e.leftObject
           /\ e.ofProject = d.ofProject
<1> DEFINE new == {o \in S : <<c, o>> \notin d.leftObject}
           e == LinkImported(d, c, S)
<1>1. /\ e.ofObject = d.ofObject \cup ({c} \X new)
      /\ e.leftObject = d.leftObject \ ({c} \X new)
      /\ e.ofProject = d.ofProject
  BY DEF LinkImported, LinkNewObjects, LinkObjects, SetObjects, Regular, Columns, Tables
<1>2. \A o \in S : o \in new \/ <<c, o>> \in d.leftObject
  OBVIOUS
<1>3. \A o \in new : <<c, o>> \notin d.leftObject
  OBVIOUS
<1> HIDE DEF new, e
<1>4. ASSUME NEW o \in S PROVE <<c, o>> \in e.ofObject \cup e.leftObject
  <2>1. CASE o \in new
    BY <1>1, <2>1
  <2>2. CASE o \notin new
    BY <1>1, <1>2, <2>2
  <2> QED BY <2>1, <2>2
<1> QED BY <1>1, <1>4 DEF e

LEMMA SyncContractSteady ==
    ASSUME NEW d, Regular(d), RoomForContract(d), NEW n \in Orders, NEW o \in Objects,
           RoomForProjects(d) \/ OpenProjects(d, o) # {},
           NEW t \in Made(d, "tender") \cup {None}
    PROVE  LET e == SyncContract(d, n, o, t) IN
           /\ Steady(d, e) /\ OpenProjects(e, o) # {}
           /\ Reopened(d, e) = {} => HasContract(e, n, o, {o})
<1> DEFINE ensured == EnsureProjects(d, {o})
           p == ActiveProject(ensured, o)
           tender == IF t # None THEN t ELSE ActiveTender(ensured, o, p)
           row == UpsertContract(ensured, n)
           c == FindContract(row, n)
           filled == FillTender(row, c, tender)
           joined == LinkProjects(filled, c, {p}, p)
           linked == LinkImported(joined, c, {o})
           done == SetProjects(linked, {p}, "in_contract")
           last == IF tender = None THEN done ELSE [done EXCEPT !.tender[tender].status = "won"]
<1>0. SyncContract(d, n, o, t) = last
  BY DEF SyncContract
<1>1. /\ Grows(d, ensured, {"project"}) /\ OpenProjects(ensured, o) # {}
      /\ Steady(d, ensured)
  BY EnsureProjectsGrows, EnsureProjectsSteady
<1>2. Regular(ensured) /\ RoomForContract(ensured) /\ t \in Made(ensured, "tender") \cup {None}
  BY <1>1 DEF Grows, Keeping, RoomForContract
<1> HIDE DEF ensured
<1>3. p \in Made(ensured, "project") /\ p \in Projects
  BY <1>1, <1>2, ActiveIsOpen, OpenAreMade DEF Regular, OpenProjects
<1>4. tender \in Made(ensured, "tender") \cup {None}
  BY <1>2, ActiveTenderIs
<1>5. p = ActiveProject(ensured, o)
  OBVIOUS
<1> HIDE DEF p, tender
<1>6. /\ Regular(row) /\ Made(row, "project") = Made(ensured, "project")
      /\ Made(row, "tender") = Made(ensured, "tender") /\ HasCard(row, n)
      /\ Steady(ensured, row)
  BY <1>2, UpsertContractRegular, UpsertContractSteady
<1> HIDE DEF row
<1>7. c \in Made(row, "contract") /\ c \in LiveContracts(row) /\ row.contract[c].reg = n /\ c \in Contracts
  BY <1>6, CardIsFound, FindRegistered, LiveAreMade DEF Regular
<1>8. p \in Made(row, "project") /\ tender \in Made(row, "tender") \cup {None}
      /\ tender \in Tenders \cup {None}
  BY <1>3, <1>4, <1>6, MadeRows DEF Regular
<1> HIDE DEF c
<1>9. Grows(row, filled, {}) /\ Steady(row, filled)
  BY <1>6, <1>7, <1>8, FillTenderGrows, FillTenderSteady
<1>10. Regular(filled) /\ c \in Made(filled, "contract")
  BY <1>7, <1>9 DEF Grows, Keeping
<1> HIDE DEF filled
<1>11. Grows(filled, joined, {}) /\ Steady(filled, joined)
  BY <1>3, <1>10, LinkProjectsGrows, LinkProjectsSteady
<1>12. <<c, p>> \in joined.ofProject
  BY <1>10 DEF LinkProjects, Regular, Columns, Tables
<1> HIDE DEF joined
<1>13. Grows(joined, linked, {}) /\ Steady(joined, linked)
  BY <1>7, <1>11, LinkImportedGrows, LinkImportedSteady DEF Grows
<1>14. <<c, p>> \in linked.ofProject /\ <<c, o>> \in linked.ofObject \cup linked.leftObject
  BY <1>11, <1>12, LinkedAfterImport DEF Grows
<1>15. Grows(row, linked, {})
  BY <1>9, <1>11, <1>13, GrowsTrans
<1> HIDE DEF linked
<1>16. p \in Made(linked, "project")
  BY <1>8, <1>15 DEF Grows, Keeping
<1>17. "in_contract" \in OpenStatus /\ "in_contract" \in ProjectStatus /\ "won" \in TenderStatus
  BY DEF OpenStatus, ProjectStatus, TenderStatus
<1>18. Grows(linked, done, {}) /\ Steady(linked, done)
  BY <1>15, <1>16, <1>17, SetProjectsRegular, SetProjectsSteady DEF Grows
<1>19. Grows(row, done, {})
  BY <1>15, <1>18, GrowsTrans
<1> HIDE DEF done
<1>20. Grows(done, last, {}) /\ Steady(done, last)
  <2>1. CASE tender = None
    BY <1>19, <2>1, SelfGrows, SelfSteady DEF Grows
  <2>2. CASE tender # None
    <3>1. tender \in Made(done, "tender")
      BY <1>8, <1>19, <2>2 DEF Grows, Keeping
    <3> QED BY <1>17, <1>19, <2>2, <3>1, TenderFieldsGrow, TenderStatusSteady DEF Grows
  <2> QED BY <2>1, <2>2
<1>21. Grows(row, last, {})
  BY <1>19, <1>20, GrowsTrans
<1> HIDE DEF last
<1>22. Steady(linked, last)
  BY <1>18, <1>20, SteadyTrans
<1>23. Steady(ensured, linked)
  <2>1. Steady(row, linked)
    BY <1>9, <1>11, <1>13, SteadyTrans
  <2> QED BY <1>6, <2>1, SteadyTrans
<1>24. Steady(ensured, last)
  BY <1>22, <1>23, SteadyTrans
<1>25. Steady(d, last)
  BY <1>1, <1>24, SteadyTrans
<1>26. OpenProjects(last, o) # {}
  BY <1>1, <1>24 DEF Steady, ProjectsStay
<1>27. ASSUME Reopened(d, last) = {} PROVE HasContract(last, n, o, {o})
  <2>1. Reopened(ensured, last) = {}
    BY <1>1, <1>24, <1>27, NoneReopenedLater
  <2>2. p = ActiveProject(last, o)
    BY <1>1, <1>5, <1>24, <2>1, StillActive
  <2>3. c \in LiveContracts(last) /\ last.contract[c].reg = n
    BY <1>7, <1>21 DEF Grows, Keeping
  <2>4. <<c, p>> \in last.ofProject /\ <<c, o>> \in last.ofObject \cup last.leftObject
    BY <1>14, <1>22 DEF Steady, LinksGrow
  <2> QED BY <2>2, <2>3, <2>4 DEF HasContract
<1> QED BY <1>0, <1>25, <1>26, <1>27

LEMMA OrderCommittedSteady ==
    ASSUME NEW d, Regular(d), Fits(d), NEW n \in Orders, MainObject[n] # None
    PROVE  LET e == OrderCommitted(d, n) IN
           /\ Steady(d, e)
           /\ \A o \in {MainObject[n]} \cup OthersOf(n) : OpenProjects(e, o) # {}
           /\ Reopened(d, e) = {} =>
                /\ HasTender(e, n)
                /\ Signed(n) => HasContract(e, n, MainObject[n], {MainObject[n]})
<1> DEFINE ensured == EnsuredFor(d, n)
           p == ActiveProject(ensured, MainObject[n])
           found == ImportedTender(ensured, n, MainObject[n], p)
           t == IF found = None THEN NextId(ensured.tender) ELSE found
           others == {ActiveProject(ensured, o) : o \in OthersOf(n)}
           noted == WithNotice(ensured, n, t, p, others)
           synced == SyncContract(noted, n, MainObject[n], t)
           e == OrderCommitted(d, n)
<1>0. e = IF Signed(n) THEN synced ELSE noted
  BY DEF OrderCommitted
<1> HIDE DEF e
<1>1. MainObject[n] \in Objects /\ OthersOf(n) \subseteq Objects
  BY ChainAssumption DEF OthersOf
<1>2. RoomForProjects(d) /\ RoomForTender(d) /\ RoomForContract(d)
  BY FitsIsRoom
<1>3. /\ Grows(d, ensured, {"project"}) /\ Steady(d, ensured)
      /\ \A o \in {MainObject[n]} \cup OthersOf(n) : OpenProjects(ensured, o) # {}
  BY <1>1, <1>2, EnsureProjectsGrows, EnsureProjectsSteady DEF EnsuredFor
<1> HIDE DEF ensured
<1>4. Regular(ensured) /\ RoomForTender(ensured) /\ RoomForContract(ensured)
  BY <1>2, <1>3 DEF Grows, Keeping, RoomForTender, RoomForContract
<1>5. \A o \in {MainObject[n]} \cup OthersOf(n) :
        /\ ActiveProject(ensured, o) \in Made(ensured, "project")
        /\ ensured.project[ActiveProject(ensured, o)].status \in OpenStatus
  BY <1>3, <1>4, ActiveIsOpen, OpenAreMade, OpenProjectIs DEF Regular
<1>6. /\ p \in Made(ensured, "project") /\ others \in SUBSET Made(ensured, "project")
      /\ ensured.project[p].status \in OpenStatus
      /\ \A q \in others : ensured.project[q].status \in OpenStatus
  BY <1>5
<1>7. \/ t \in Made(ensured, "tender") /\ ensured.tender[t].reg \in {None, n}
      \/ RoomForTender(ensured) /\ t = NextId(ensured.tender)
  BY <1>4, ImportedTenderMade, ImportedTenderNumber
<1>8. \A o \in OthersOf(n) : ActiveProject(ensured, o) \in others
  OBVIOUS
<1> HIDE DEF p, t, others
<1>9. Grows(ensured, noted, {"tender"}) /\ t \in Made(noted, "tender")
  BY <1>1, <1>4, <1>6, <1>7, WithNoticeGrows
<1>10. /\ Steady(ensured, noted) /\ t \in Tenders /\ noted.tender[t].reg = n
       /\ \A q \in others : <<t, q>> \in noted.inTender
       /\ \A q \in LinkedProjects(noted, t) : noted.project[q].status \in OpenStatus
  BY <1>1, <1>4, <1>6, <1>7, WithNoticeSteady
<1> HIDE DEF noted
<1>11. /\ Regular(noted) /\ RoomForContract(noted)
       /\ \A o \in {MainObject[n]} \cup OthersOf(n) : OpenProjects(noted, o) # {}
  BY <1>3, <1>4, <1>9 DEF Grows, Keeping, RoomForContract
<1>12. /\ Steady(noted, synced)
       /\ Reopened(noted, synced) = {} => HasContract(synced, n, MainObject[n], {MainObject[n]})
  BY <1>1, <1>9, <1>11, SyncContractSteady
<1> HIDE DEF synced
<1>13. Steady(noted, e)
  BY <1>0, <1>11, <1>12, SelfSteady
<1>14. Steady(d, noted) /\ Steady(d, e)
  BY <1>3, <1>10, <1>13, SteadyTrans
<1>15. \A o \in {MainObject[n]} \cup OthersOf(n) : OpenProjects(e, o) # {}
  BY <1>11, <1>13 DEF Steady, ProjectsStay
<1>16. ASSUME Reopened(d, e) = {}
       PROVE  /\ HasTender(e, n)
              /\ Signed(n) => HasContract(e, n, MainObject[n], {MainObject[n]})
  <2>1. Steady(ensured, e) /\ Reopened(noted, e) = {} /\ Reopened(ensured, e) = {}
    BY <1>3, <1>10, <1>13, <1>14, <1>16, NoneReopenedLater, SteadyTrans
  <2>2. \A o \in OthersOf(n) : ActiveProject(noted, o) = ActiveProject(ensured, o)
    <3> SUFFICES ASSUME NEW o \in OthersOf(n)
                 PROVE  ActiveProject(noted, o) = ActiveProject(ensured, o)
      OBVIOUS
    <3>1. ActiveProject(e, o) = ActiveProject(ensured, o)
      BY <1>3, <2>1, StillActive
    <3>2. ActiveProject(e, o) = ActiveProject(noted, o)
      BY <1>11, <1>13, <2>1, StillActive
    <3> QED BY <3>1, <3>2
  <2>3. HasTender(noted, n)
    BY <1>8, <1>10, <2>2 DEF HasTender
  <2>4. HasTender(e, n)
    BY <1>11, <1>13, <2>1, <2>3, TenderStays
  <2>5. Signed(n) => HasContract(e, n, MainObject[n], {MainObject[n]})
    BY <1>0, <1>12, <2>1
  <2> QED BY <2>4, <2>5
<1> QED BY <1>14, <1>15, <1>16 DEF e

LEMMA OneContractOfCard ==
    ASSUME NEW d, Sound(d), NEW n \in Orders, HasCard(d, n)
    PROVE  \A c \in LiveContracts(d) : d.contract[c].reg = n => c = FindContract(d, n)
  BY FindContractIs

LEMMA LinkImportedContract ==
    ASSUME NEW d, Regular(d), Sound(d), NEW n \in Orders, NEW S \in SUBSET Objects, NEW S0,
           NEW o, o # None => OpenProjects(d, o) # {}, HasContract(d, n, o, S0)
    PROVE  HasContract(LinkImported(d, FindContract(d, n), S), n, o, S0 \cup S)
<1> DEFINE c == FindContract(d, n)
           e == LinkImported(d, c, S)
<1>1. HasCard(d, n)
  BY DEF HasContract, HasCard
<1>2. c \in LiveContracts(d) /\ c \in Contracts
  BY <1>1, CardIsFound
<1>3. /\ d.contract[c].reg = n
      /\ o # None => <<c, ActiveProject(d, o)>> \in d.ofProject
      /\ \A x \in S0 : <<c, x>> \in d.ofObject \cup d.leftObject
  <2> HIDE DEF c
  <2>1. \A x \in LiveContracts(d) : d.contract[x].reg = n => x = c
    BY <1>1, OneContractOfCard DEF c
  <2> QED BY <2>1 DEF HasContract
<1> HIDE DEF c
<1>4. Grows(d, e, {}) /\ Steady(d, e)
  BY <1>2, LinkImportedGrows, LinkImportedSteady
<1>5. (\A x \in S : <<c, x>> \in e.ofObject \cup e.leftObject) /\ e.project = d.project
  BY LinkedAfterImport DEF LinkImported, LinkNewObjects, LinkObjects, SetObjects, Regular, Columns, Tables
<1> HIDE DEF e
<1>6. ActiveProject(e, o) = ActiveProject(d, o)
  BY <1>5 DEF ActiveProject, OpenProjects
<1>7. c \in LiveContracts(e) /\ e.contract[c].reg = n
  BY <1>2, <1>3, <1>4 DEF Grows, Keeping
<1>8. \A x \in S0 : <<c, x>> \in e.ofObject \cup e.leftObject
  BY <1>3, <1>4 DEF Steady, LinksGrow
<1>9. o # None => <<c, ActiveProject(e, o)>> \in e.ofProject
  BY <1>3, <1>4, <1>6 DEF Steady, LinksGrow
<1>10. HasContract(e, n, o, S0 \cup S)
  BY <1>5, <1>7, <1>8, <1>9 DEF HasContract
<1> QED BY <1>10 DEF c, e

(* A card leaves all that it needs, unless it has opened a closed project. *)
LEMMA OrderDoneSteady ==
    ASSUME NEW d, Regular(d), Fits(d), Sound(d), NEW n \in Orders, MainObject[n] # None
    PROVE  /\ Steady(d, OrderDone(d, n))
           /\ Reopened(d, OrderDone(d, n)) = {} => OrderSettled(OrderDone(d, n), n)
<1> DEFINE first == OrderCommitted(d, n)
           c == FindContract(first, n)
           last == LinkImported(first, c, OthersOf(n))
           e == OrderDone(d, n)
           S == {MainObject[n]} \cup OthersOf(n)
<1>0. e = IF Signed(n) THEN last ELSE first
  BY DEF OrderDone
<1>1. /\ Steady(d, first) /\ \A o \in S : OpenProjects(first, o) # {}
      /\ Reopened(d, first) = {} =>
           /\ HasTender(first, n)
           /\ Signed(n) => HasContract(first, n, MainObject[n], {MainObject[n]})
  BY OrderCommittedSteady
<1>2. Sound(first) /\ (Signed(n) => HasCard(first, n)) /\ Regular(first)
  BY OrderCommittedSound, OrderCommittedRegular
<1>3. OthersOf(n) \in SUBSET Objects
  BY ChainAssumption DEF OthersOf
<1>4. Signed(n) => c \in Contracts
  BY <1>2, CardIsFound
<1>5. Signed(n) /\ HasContract(first, n, MainObject[n], {MainObject[n]})
        => HasContract(last, n, MainObject[n], S)
  BY <1>1, <1>2, <1>3, LinkImportedContract
<1> HIDE DEF first, c
<1>6. Signed(n) => Steady(first, last) /\ Reopened(first, last) = {}
  <2>1. last.project = first.project
    BY <1>2 DEF LinkImported, LinkNewObjects, LinkObjects, SetObjects, Regular, Columns, Tables
  <2>2. Reopened(first, last) = {}
    BY <2>1, StatusesAre DEF Reopened
  <2> QED BY <1>2, <1>3, <1>4, <2>2, LinkImportedSteady
<1> HIDE DEF last, e
<1>7. Steady(first, e) /\ Reopened(first, e) = {}
  BY <1>0, <1>2, <1>6, SelfSteady, NoneReopened
<1>8. Steady(d, e)
  BY <1>1, <1>7, SteadyTrans
<1>9. ASSUME Reopened(d, e) = {} PROVE OrderSettled(e, n)
  <2>1. Reopened(d, first) = {}
    <3> SUFFICES ASSUME NEW q \in Projects, d.project[q].status \in ClosedStatus,
                        first.project[q].status \in OpenStatus
                 PROVE  FALSE
      BY DEF Reopened
    <3>1. e.project[q].status \in OpenStatus
      BY <1>7 DEF Steady, ProjectsStay
    <3> QED BY <1>9, <3>1, IsReopened
  <2>2. \A o \in S : OpenProjects(e, o) # {}
    BY <1>1, <1>7 DEF Steady, ProjectsStay
  <2>3. HasTender(e, n)
    BY <1>1, <1>2, <1>7, <2>1, TenderStays
  <2>4. Signed(n) => HasContract(e, n, MainObject[n], S)
    BY <1>0, <1>1, <1>5, <2>1
  <2> QED BY <2>2, <2>3, <2>4 DEF OrderSettled
<1> QED BY <1>8, <1>9 DEF e

LEMMA ContractDoneSteady ==
    ASSUME NEW d, Regular(d), Fits(d), NEW n \in Orders
    PROVE  /\ Steady(d, ContractDone(d, n))
           /\ Reopened(d, ContractDone(d, n)) = {} => ContractSettled(ContractDone(d, n), n)
<1>1. RoomForProjects(d) /\ RoomForContract(d)
  BY FitsIsRoom
<1>2. CASE PlaceObject[n] = None
  <2>1. ContractDone(d, n) = UpsertContract(d, n)
    BY <1>2 DEF ContractDone
  <2>2. Steady(d, UpsertContract(d, n)) /\ HasCard(UpsertContract(d, n), n)
    BY <1>1, UpsertContractSteady, UpsertContractRegular
  <2>3. HasContract(UpsertContract(d, n), n, None, {})
    BY <2>2 DEF HasCard, HasContract
  <2> QED BY <1>2, <2>1, <2>2, <2>3 DEF ContractSettled
<1>3. CASE PlaceObject[n] # None
  <2>1. PlaceObject[n] \in Objects
    BY <1>3, ChainAssumption
  <2>2. ContractDone(d, n) = SyncContract(d, n, PlaceObject[n], None)
    BY <1>3 DEF ContractDone
  <2> QED BY <1>1, <1>3, <2>1, <2>2, SyncContractSteady DEF ContractSettled
<1> QED BY <1>2, <1>3

LEMMA SettledStays ==
    ASSUME NEW d, Regular(d), NEW card \in Cards, Settled(d, card),
           NEW e, Steady(d, e), Undisturbed(d, e)
    PROVE  Settled(e, card)
<1>1. card[1] \in {"order", "contract"} /\ card[2] \in Orders /\ card[2] # None
  BY ChainAssumption DEF Cards
<1>2. Reopened(d, e) = {}
  BY DEF Undisturbed, Disturbs
<1>3. \A c \in LiveContracts(d) :
        d.contract[c].reg = card[2] => e.contract[c].reg = card[2]
  BY <1>1 DEF Undisturbed, Disturbs, LiveContracts
<1>4. CASE card[1] = "order"
  <2> DEFINE n == card[2]
             S == {MainObject[n]} \cup OthersOf(n)
  <2>1. OrderSettled(d, n)
    BY <1>4 DEF Settled
  <2>2. \A o \in S : OpenProjects(d, o) # {} /\ OpenProjects(e, o) # {}
    BY <2>1 DEF OrderSettled, Steady, ProjectsStay
  <2>3. HasTender(e, n)
    BY <1>1, <1>2, <2>1, <2>2, TenderStays DEF OrderSettled
  <2>4. Signed(n) => HasContract(e, n, MainObject[n], S)
    BY <1>2, <1>3, <2>1, <2>2, ContractStays DEF OrderSettled
  <2>5. OrderSettled(e, n)
    BY <2>2, <2>3, <2>4 DEF OrderSettled
  <2> QED BY <1>4, <2>5 DEF Settled
<1>5. CASE card[1] = "contract"
  <2> DEFINE n == card[2]
             o == PlaceObject[n]
  <2>1. ContractSettled(d, n)
    BY <1>5 DEF Settled
  <2>2. CASE o = None
    <3>1. HasContract(e, n, None, {})
      BY <1>2, <1>3, <2>1, <2>2, ContractStays DEF ContractSettled
    <3> QED BY <1>5, <2>2, <3>1 DEF Settled, ContractSettled
  <2>3. CASE o # None
    <3>1. OpenProjects(d, o) # {} /\ HasContract(d, n, o, {o})
      BY <2>1, <2>3 DEF ContractSettled
    <3>2. OpenProjects(e, o) # {}
      BY <3>1 DEF Steady, ProjectsStay
    <3>3. HasContract(e, n, o, {o})
      BY <1>2, <1>3, <3>1, ContractStays
    <3> QED BY <1>5, <2>3, <3>2, <3>3 DEF Settled, ContractSettled
  <2> QED BY <2>2, <2>3
<1> QED BY <1>1, <1>4, <1>5

(* Nothing that decides on rows and links has changed.                     *)
Quiet(d, e) ==
    /\ Regular(e)
    /\ \A table \in {"project", "tender", "contract"} : Made(e, table) = Made(d, table)
    /\ e.inTender = d.inTender /\ e.ofProject = d.ofProject
    /\ e.ofObject = d.ofObject /\ e.leftObject = d.leftObject
    /\ \A o : OpenProjects(e, o) = OpenProjects(d, o)
    /\ \A p \in Projects : d.project[p].status \in OpenStatus => e.project[p].status \in OpenStatus
    /\ \A t \in Tenders : e.tender[t].reg = d.tender[t].reg
    /\ LiveContracts(e) = LiveContracts(d)
    /\ \A c \in LiveContracts(d) : e.contract[c].reg = d.contract[c].reg

LEMMA QuietTrans ==
    ASSUME NEW d, NEW e, NEW f, Quiet(d, e), Quiet(e, f) PROVE Quiet(d, f)
  BY DEF Quiet

LEMMA SelfQuiet ==
    ASSUME NEW d, Regular(d) PROVE Quiet(d, d)
  BY DEF Quiet

LEMMA QuietContract ==
    ASSUME NEW d, NEW e, Quiet(d, e), NEW n, NEW o, NEW S, HasContract(d, n, o, S)
    PROVE  HasContract(e, n, o, S)
<1>1. ActiveProject(e, o) = ActiveProject(d, o)
  BY DEF Quiet, ActiveProject
<1> QED BY <1>1 DEF Quiet, HasContract

LEMMA QuietTender ==
    ASSUME NEW d, NEW e, Quiet(d, e), NEW n, HasTender(d, n)
    PROVE  HasTender(e, n)
<1>1. PICK t \in Tenders :
        /\ d.tender[t].reg = n
        /\ \A o \in OthersOf(n) : <<t, ActiveProject(d, o)>> \in d.inTender
        /\ \A p \in LinkedProjects(d, t) : d.project[p].status \in OpenStatus
  BY DEF HasTender
<1>2. \A o : ActiveProject(e, o) = ActiveProject(d, o)
  BY DEF Quiet, ActiveProject
<1>3. LinkedProjects(e, t) = LinkedProjects(d, t) /\ LinkedProjects(d, t) \subseteq Projects
  BY DEF Quiet, LinkedProjects
<1>4. e.tender[t].reg = n /\ e.inTender = d.inTender
  BY <1>1 DEF Quiet
<1>5. \A p \in LinkedProjects(e, t) : e.project[p].status \in OpenStatus
  BY <1>1, <1>3 DEF Quiet
<1>6. \A o \in OthersOf(n) : <<t, ActiveProject(e, o)>> \in e.inTender
  BY <1>1, <1>2, <1>4
<1> QED BY <1>4, <1>5, <1>6 DEF HasTender

LEMMA QuietRows ==
    ASSUME NEW d, Regular(d), NEW e, Quiet(d, e)
    PROVE  Rows(e) = Rows(d)
<1>1. /\ DOMAIN d.project = Projects /\ DOMAIN e.project = Projects
      /\ DOMAIN d.tender = Tenders /\ DOMAIN e.tender = Tenders
      /\ DOMAIN d.contract = Contracts /\ DOMAIN e.contract = Contracts
  BY DEF Quiet, Regular, Columns
<1>2. NextId(e.project) = NextId(d.project)
  <2>1. \A p \in Projects : e.project[p].status = "none" <=> d.project[p].status = "none"
    BY <1>1 DEF Quiet, Made
  <2> QED BY <1>1, <2>1 DEF NextId
<1>3. NextId(e.tender) = NextId(d.tender)
  <2>1. \A p \in Tenders : e.tender[p].status = "none" <=> d.tender[p].status = "none"
    BY <1>1 DEF Quiet, Made
  <2> QED BY <1>1, <2>1 DEF NextId
<1>4. NextId(e.contract) = NextId(d.contract)
  <2>1. \A p \in Contracts : e.contract[p].status = "none" <=> d.contract[p].status = "none"
    BY <1>1 DEF Quiet, Made
  <2> QED BY <1>1, <2>1 DEF NextId
<1> QED BY <1>2, <1>3, <1>4 DEF Rows, Quiet

(* An operator that leaves projects and links as they are.                 *)
Idle(d, e) ==
    /\ e.project = d.project
    /\ e.inTender = d.inTender /\ e.ofProject = d.ofProject
    /\ e.ofObject = d.ofObject /\ e.leftObject = d.leftObject
    /\ \A t \in Tenders : e.tender[t].reg = d.tender[t].reg
    /\ \A c \in Contracts : LiveContract(e, c) => LiveContract(d, c)

LEMMA IdleQuiet ==
    ASSUME NEW d, NEW e, Idle(d, e), Grows(d, e, {})
    PROVE  Quiet(d, e)
<1>1. \A o : OpenProjects(e, o) = OpenProjects(d, o)
  BY DEF Idle, OpenProjects
<1>2. LiveContracts(e) = LiveContracts(d)
  BY DEF Idle, Grows, Keeping, LiveContracts
<1>3. \A table \in {"project", "tender", "contract"} : Made(e, table) = Made(d, table)
  BY DEF Grows, Keeping
<1>4. \A c \in LiveContracts(d) : e.contract[c].reg = d.contract[c].reg
  BY DEF Grows, Keeping
<1>5. Regular(e)
  BY DEF Grows
<1> QED BY <1>1, <1>2, <1>3, <1>4, <1>5 DEF Quiet, Idle

LEMMA SetObjectsQuiet ==
    ASSUME NEW d, Regular(d), NEW S, NEW st \in ObjectStatus
    PROVE  Quiet(d, SetObjects(d, S, st))
<1> DEFINE e == SetObjects(d, S, st)
<1>1. Idle(d, e)
  BY DEF Idle, SetObjects, LiveContract, Regular, Columns, Tables
<1>2. Grows(d, e, {})
  BY SetObjectsGrows
<1> HIDE DEF e
<1>3. Quiet(d, e)
  BY <1>1, <1>2, IdleQuiet
<1> QED BY <1>3 DEF e

LEMMA SetProjectsQuiet ==
    ASSUME NEW d, Regular(d), NEW S, \A p \in S \cap Projects : d.project[p].status \in OpenStatus,
           NEW st \in OpenStatus
    PROVE  Quiet(d, SetProjects(d, S, st))
<1> DEFINE e == SetProjects(d, S, st)
<1>1. /\ e.inTender = d.inTender /\ e.tender = d.tender /\ e.contract = d.contract
      /\ e.ofObject = d.ofObject /\ e.leftObject = d.leftObject /\ e.ofProject = d.ofProject
      /\ e.project = [p \in Projects |-> IF p \in S THEN [d.project[p] EXCEPT !.status = st]
                                                    ELSE d.project[p]]
  BY DEF SetProjects, Regular, Columns, Tables
<1>2. S \cap Projects \subseteq Made(d, "project")
  BY StatusTypes DEF Made, Regular, Columns
<1>3. Grows(d, e, {})
  BY <1>2, StatusTypes, SetProjectsRegular
<1> HIDE DEF e
<1>4. \A p \in S \cap Projects : d.project[p] \in ProjectRow
  BY <1>2, MadeRows DEF Regular
<1>5. ASSUME NEW p \in Projects
      PROVE  /\ e.project[p].status = IF p \in S THEN st ELSE d.project[p].status
             /\ e.project[p].object = d.project[p].object /\ e.project[p].live = d.project[p].live
  <2>1. CASE p \in S
    <3>1. e.project[p] = [d.project[p] EXCEPT !.status = st]
      BY <1>1, <2>1
    <3> QED BY <1>4, <2>1, <3>1 DEF ProjectRow
  <2>2. CASE p \notin S
    BY <1>1, <2>2
  <2> QED BY <2>1, <2>2
<1>6. \A p \in Projects : e.project[p].status \in OpenStatus <=> d.project[p].status \in OpenStatus
  BY <1>5
<1>7. \A o : OpenProjects(e, o) = OpenProjects(d, o)
  BY <1>5, <1>6 DEF OpenProjects
<1>8. LiveContracts(e) = LiveContracts(d)
  BY <1>1 DEF LiveContracts, LiveContract
<1>9. \A table \in {"project", "tender", "contract"} : Made(e, table) = Made(d, table)
  BY <1>3 DEF Grows, Keeping
<1>10. Quiet(d, e)
  BY <1>1, <1>3, <1>6, <1>7, <1>8, <1>9 DEF Quiet, Grows
<1> QED BY <1>10 DEF e

LEMMA SideEffectsQuiet ==
    ASSUME NEW d, Regular(d), NEW S, \A p \in S \cap Projects : d.project[p].status \in OpenStatus,
           NEW st
    PROVE  Quiet(d, SideEffects(d, S, st))
<1> DEFINE to == IF st = "lost" THEN "active" ELSE "in_tender"
           so == IF st = "lost" THEN "in_project" ELSE "in_tender"
           e == SetProjects(d, S, to)
           O == ObjectsOf(d, S)
<1>1. SideEffects(d, S, st) = SetObjects(e, O, so)
  BY DEF SideEffects
<1>2. to \in OpenStatus /\ so \in ObjectStatus
  BY DEF OpenStatus, ObjectStatus
<1> HIDE DEF to, so, O
<1>3. Quiet(d, e)
  BY <1>2, SetProjectsQuiet
<1> HIDE DEF e
<1>4. Quiet(e, SetObjects(e, O, so))
  BY <1>2, <1>3, SetObjectsQuiet DEF Quiet
<1> QED BY <1>1, <1>3, <1>4, QuietTrans

LEMMA TenderFieldsQuiet ==
    ASSUME NEW d, Regular(d), NEW t \in Made(d, "tender")
    PROVE  /\ \A st \in TenderStatus : Quiet(d, [d EXCEPT !.tender[t].status = st])
           /\ \A n \in Orders : d.tender[t].reg = n => Quiet(d, [d EXCEPT !.tender[t].reg = n])
<1>0. t \in Tenders /\ d.tender[t] \in TenderRow
  BY MadeRows DEF Regular
<1>1. ASSUME NEW st \in TenderStatus PROVE Quiet(d, [d EXCEPT !.tender[t].status = st])
  <2> DEFINE e == [d EXCEPT !.tender[t].status = st]
  <2>1. Idle(d, e)
    BY <1>0 DEF Idle, LiveContract, Regular, Columns, Tables, TenderRow
  <2>2. Grows(d, e, {})
    BY TenderFieldsGrow
  <2> HIDE DEF e
  <2>3. Quiet(d, e)
    BY <2>1, <2>2, IdleQuiet
  <2> QED BY <2>3 DEF e
<1>2. ASSUME NEW n \in Orders, d.tender[t].reg = n PROVE Quiet(d, [d EXCEPT !.tender[t].reg = n])
  <2> DEFINE e == [d EXCEPT !.tender[t].reg = n]
  <2>1. Idle(d, e)
    BY <1>0, <1>2 DEF Idle, LiveContract, Regular, Columns, Tables, TenderRow
  <2>2. Grows(d, e, {})
    BY TenderFieldsGrow
  <2> HIDE DEF e
  <2>3. Quiet(d, e)
    BY <2>1, <2>2, IdleQuiet
  <2> QED BY <2>3 DEF e
<1> QED BY <1>1, <1>2

LEMMA LinkTenderQuiet ==
    ASSUME NEW d, Regular(d), NEW t \in Made(d, "tender"), NEW S \in SUBSET Made(d, "project"),
           \A p \in S : <<t, p>> \in d.inTender
    PROVE  Quiet(d, LinkTender(d, t, S))
<1> DEFINE e == LinkTender(d, t, S)
<1>1. Idle(d, e)
  BY DEF Idle, LinkTender, LiveContract, Regular, Columns, Tables
<1>2. Grows(d, e, {})
  BY LinkTenderGrows
<1> HIDE DEF e
<1>3. Quiet(d, e)
  BY <1>1, <1>2, IdleQuiet
<1> QED BY <1>3 DEF e

LEMMA FillTenderQuiet ==
    ASSUME NEW d, Regular(d), NEW c \in Made(d, "contract"), NEW t \in Tenders \cup {None}
    PROVE  Quiet(d, FillTender(d, c, t))
<1> DEFINE e == FillTender(d, c, t)
<1>0. c \in Contracts /\ d.contract[c] \in ContractRow
  BY MadeRows DEF Regular
<1>1. Idle(d, e)
  BY <1>0 DEF Idle, FillTender, LiveContract, Regular, Columns, Tables, ContractRow
<1>2. Grows(d, e, {})
  BY FillTenderGrows
<1> HIDE DEF e
<1>3. Quiet(d, e)
  BY <1>1, <1>2, IdleQuiet
<1> QED BY <1>3 DEF e

LEMMA LinkProjectsQuiet ==
    ASSUME NEW d, Regular(d), NEW c \in Made(d, "contract"), NEW p \in Projects,
           <<c, p>> \in d.ofProject
    PROVE  Quiet(d, LinkProjects(d, c, {p}, p))
<1> DEFINE e == LinkProjects(d, c, {p}, p)
<1>0. c \in Contracts /\ d.contract[c] \in ContractRow
  BY MadeRows DEF Regular
<1>1. Idle(d, e)
  <2>1. /\ e.project = d.project /\ e.inTender = d.inTender /\ e.tender = d.tender
        /\ e.ofObject = d.ofObject /\ e.leftObject = d.leftObject
        /\ e.ofProject = d.ofProject \cup ({c} \X {p})
    BY DEF LinkProjects, Regular, Columns, Tables
  <2>2. e.ofProject = d.ofProject
    BY <2>1
  <2>3. \A x \in Contracts : e.contract[x].status = d.contract[x].status
    BY <1>0 DEF LinkProjects, Regular, Columns, Tables, ContractRow
  <2> QED BY <2>1, <2>2, <2>3 DEF Idle, LiveContract
<1>2. Grows(d, e, {})
  BY LinkProjectsGrows
<1> HIDE DEF e
<1>3. Quiet(d, e)
  BY <1>1, <1>2, IdleQuiet
<1> QED BY <1>3 DEF e

LEMMA LinkImportedQuiet ==
    ASSUME NEW d, Regular(d), NEW c \in Contracts, NEW S \in SUBSET Objects,
           \A o \in S : <<c, o>> \in d.ofObject \cup d.leftObject
    PROVE  Quiet(d, LinkImported(d, c, S))
<1> DEFINE new == {o \in S : <<c, o>> \notin d.leftObject}
           e == LinkImported(d, c, S)
<1>1. /\ e.project = d.project /\ e.inTender = d.inTender /\ e.tender = d.tender
      /\ e.contract = d.contract /\ e.ofProject = d.ofProject
      /\ e.ofObject = d.ofObject \cup ({c} \X new)
      /\ e.leftObject = d.leftObject \ ({c} \X new)
  BY DEF LinkImported, LinkNewObjects, LinkObjects, SetObjects, Regular, Columns, Tables
<1>2. \A o \in new : <<c, o>> \in d.ofObject /\ <<c, o>> \notin d.leftObject
  OBVIOUS
<1> HIDE DEF new
<1>3. e.ofObject = d.ofObject /\ e.leftObject = d.leftObject
  BY <1>1, <1>2
<1>4. Grows(d, e, {})
  BY LinkImportedGrows
<1> HIDE DEF e
<1>5. Idle(d, e)
  BY <1>1, <1>3 DEF Idle, LiveContract
<1>6. Quiet(d, e)
  BY <1>4, <1>5, IdleQuiet
<1> QED BY <1>6 DEF e

LEMMA NoneIsNoProject ==
    ASSUME NEW d, NEW o, OpenProjects(d, o) # {}
    PROVE  ActiveProject(d, o) # None
<1>1. ActiveProject(d, o) \in Projects
  BY ActiveIsOpen, OpenProjectIs
<1> QED BY <1>1, Constants

LEMMA EnsureProjectsQuiet ==
    ASSUME NEW d, Regular(d), NEW S \in SUBSET Objects, \A o \in S : OpenProjects(d, o) # {}
    PROVE  Quiet(d, EnsureProjects(d, S))
<1> DEFINE new == {o \in S : ActiveProject(d, o) = None}
           e == AddProjects(d, new, "active")
           f == SetObjects(e, {o \in new : d.object[o] = "free"}, "in_project")
<1>0. EnsureProjects(d, S) = f
  BY DEF EnsureProjects
<1>1. new = {}
  BY NoneIsNoProject
<1>2. Grows(d, f, {"project"})
  BY <1>0, EnsureProjectsGrows
<1>3. f.project = d.project
  <2>1. f.project = e.project /\ e.project = [p \in Projects |-> d.project[p]]
    BY <1>1 DEF AddProjects, SetObjects, Regular, Columns, Tables
  <2> QED BY <2>1 DEF Regular, Columns
<1>4. /\ f.inTender = d.inTender /\ f.tender = d.tender /\ f.contract = d.contract
      /\ f.ofObject = d.ofObject /\ f.leftObject = d.leftObject /\ f.ofProject = d.ofProject
  BY DEF AddProjects, SetObjects, Regular, Columns, Tables
<1> HIDE DEF f
<1>5. Idle(d, f)
  BY <1>3, <1>4 DEF Idle, LiveContract
<1>6. Grows(d, f, {})
  <2>1. Made(f, "project") = Made(d, "project")
    BY <1>3 DEF Made
  <2> QED BY <1>2, <2>1 DEF Grows, Keeping
<1> QED BY <1>0, <1>5, <1>6, IdleQuiet

LEMMA UpsertContractQuiet ==
    ASSUME NEW d, Regular(d), NEW n \in Orders, HasCard(d, n)
    PROVE  Quiet(d, UpsertContract(d, n))
<1> DEFINE c == FindContract(d, n)
           st == NewStage(n, d.contract[c].status)
           new == [d.contract[c] EXCEPT !.status = st, !.reg = n]
           e == [[d EXCEPT !.contract[c].status = NewStage(n, @)] EXCEPT !.contract[c].reg = n]
<1>1. c \in LiveContracts(d) /\ c \in Contracts /\ d.contract[c].reg = n
  BY CardIsFound, FindRegistered
<1>2. UpsertContract(d, n) = e
  BY <1>1, Constants DEF UpsertContract
<1>3. st \in ContractStatus
  BY DEF ContractStage, NewStage, ContractStatus
<1>4. d.contract[c] \in ContractRow /\ c \in Made(d, "contract")
  BY <1>1, LiveAreMade, MadeRows DEF Regular
<1>5. /\ DOMAIN e = Tables /\ e.contract = [d.contract EXCEPT ![c] = new]
      /\ \A table \in Tables \ {"contract"} : e[table] = d[table]
  BY <1>1, <1>4 DEF Regular, Columns, Tables
<1>6. new \in ContractRow /\ new.status \in ContractStatus /\ new.reg = n
  BY <1>3, <1>4 DEF ContractRow
<1> HIDE DEF c, st, new, e
<1>7. OnlyContracts(d, e)
  BY <1>5 DEF Tables, OnlyContracts, Regular, Columns
<1>8. Grows(d, e, {})
  BY <1>1, <1>4, <1>5, <1>6, <1>7, ContractRowPut
<1>9. /\ e.project = d.project /\ e.inTender = d.inTender /\ e.tender = d.tender
      /\ e.ofObject = d.ofObject /\ e.leftObject = d.leftObject /\ e.ofProject = d.ofProject
  BY <1>5 DEF Tables
<1>10. \A x \in Contracts : LiveContract(e, x) => LiveContract(d, x)
  BY <1>1, <1>5 DEF LiveContracts, LiveContract, Regular, Columns
<1>11. Idle(d, e)
  BY <1>9, <1>10 DEF Idle
<1> QED BY <1>2, <1>8, <1>11, IdleQuiet

LEMMA QuietCard ==
    ASSUME NEW d, NEW e, Quiet(d, e), NEW n,
           \A x, y \in LiveContracts(d) : d.contract[x].reg = n /\ d.contract[y].reg = n => x = y
    PROVE  \A x, y \in LiveContracts(e) : e.contract[x].reg = n /\ e.contract[y].reg = n => x = y
  BY DEF Quiet

LEMMA FindSettled ==
    ASSUME NEW d, NEW n, NEW o, NEW S, HasContract(d, n, o, S),
           \A x, y \in LiveContracts(d) : d.contract[x].reg = n /\ d.contract[y].reg = n => x = y
    PROVE  LET c == FindContract(d, n) IN
           /\ HasCard(d, n) /\ c \in LiveContracts(d) /\ c \in Contracts
           /\ o # None => <<c, ActiveProject(d, o)>> \in d.ofProject
           /\ \A x \in S : <<c, x>> \in d.ofObject \cup d.leftObject
<1> DEFINE c == FindContract(d, n)
<1>1. HasCard(d, n)
  BY DEF HasContract, HasCard
<1>2. c \in LiveContracts(d) /\ c \in Contracts /\ d.contract[c].reg = n
  BY <1>1, CardIsFound, FindRegistered
<1> HIDE DEF c
<1>3. /\ o # None => <<c, ActiveProject(d, o)>> \in d.ofProject
      /\ \A x \in S : <<c, x>> \in d.ofObject \cup d.leftObject
  BY <1>2 DEF HasContract
<1> QED BY <1>1, <1>2, <1>3 DEF c

LEMMA SyncContractQuiet ==
    ASSUME NEW d, Regular(d), NEW n \in Orders, NEW o \in Objects, OpenProjects(d, o) # {},
           HasContract(d, n, o, {o}),
           \A x, y \in LiveContracts(d) : d.contract[x].reg = n /\ d.contract[y].reg = n => x = y,
           NEW t \in Made(d, "tender") \cup {None}
    PROVE  Quiet(d, SyncContract(d, n, o, t))
<1> DEFINE ensured == EnsureProjects(d, {o})
           p == ActiveProject(ensured, o)
           tender == IF t # None THEN t ELSE ActiveTender(ensured, o, p)
           row == UpsertContract(ensured, n)
           c == FindContract(row, n)
           filled == FillTender(row, c, tender)
           joined == LinkProjects(filled, c, {p}, p)
           linked == LinkImported(joined, c, {o})
           done == SetProjects(linked, {p}, "in_contract")
           last == IF tender = None THEN done ELSE [done EXCEPT !.tender[tender].status = "won"]
<1>0. SyncContract(d, n, o, t) = last
  BY DEF SyncContract
<1>1. Quiet(d, ensured)
  BY EnsureProjectsQuiet
<1> HIDE DEF ensured
<1>2. /\ Regular(ensured) /\ HasContract(ensured, n, o, {o}) /\ OpenProjects(ensured, o) # {}
      /\ t \in Made(ensured, "tender") \cup {None}
  BY <1>1, QuietContract DEF Quiet
<1>3. HasCard(ensured, n)
  BY <1>2 DEF HasContract, HasCard
<1>4. Quiet(ensured, row)
  BY <1>2, <1>3, UpsertContractQuiet
<1> HIDE DEF row
<1>5. Quiet(d, row)
  BY <1>1, <1>4, QuietTrans
<1>6. /\ Regular(row) /\ HasContract(row, n, o, {o})
      /\ \A x, y \in LiveContracts(row) : row.contract[x].reg = n /\ row.contract[y].reg = n => x = y
  BY <1>5, QuietContract, QuietCard DEF Quiet
<1>7. /\ p = ActiveProject(row, o) /\ p \in OpenProjects(row, o)
      /\ tender \in Made(row, "tender") \cup {None} /\ o # None
  <2>1. ActiveProject(row, o) = p
    BY <1>4 DEF Quiet, ActiveProject
  <2>2. OpenProjects(row, o) # {} /\ Made(row, "tender") = Made(ensured, "tender")
    BY <1>2, <1>4 DEF Quiet
  <2>3. tender \in Made(ensured, "tender") \cup {None}
    BY <1>2, ActiveTenderIs
  <2>4. ActiveProject(row, o) \in OpenProjects(row, o)
    BY <2>2, ActiveIsOpen
  <2> QED BY <2>1, <2>2, <2>3, <2>4, ChainAssumption
<1> HIDE DEF p, tender
<1>8. /\ c \in LiveContracts(row) /\ c \in Contracts
      /\ <<c, p>> \in row.ofProject /\ <<c, o>> \in row.ofObject \cup row.leftObject
  BY <1>6, <1>7, FindSettled
<1> HIDE DEF c
<1>9. c \in Made(row, "contract") /\ tender \in Tenders \cup {None} /\ p \in Projects
  BY <1>6, <1>7, <1>8, LiveAreMade, MadeRows, OpenProjectIs DEF Regular
<1>10. Quiet(row, filled)
  BY <1>6, <1>9, FillTenderQuiet
<1>11. /\ Regular(filled) /\ c \in Made(filled, "contract") /\ <<c, p>> \in filled.ofProject
  BY <1>8, <1>9, <1>10 DEF Quiet
<1> HIDE DEF filled
<1>12. Quiet(filled, joined)
  BY <1>9, <1>11, LinkProjectsQuiet
<1> HIDE DEF joined
<1>13. Quiet(row, joined)
  BY <1>10, <1>12, QuietTrans
<1>14. Quiet(joined, linked)
  <2>1. Regular(joined) /\ <<c, o>> \in joined.ofObject \cup joined.leftObject
    BY <1>8, <1>13 DEF Quiet
  <2> QED BY <1>8, <2>1, LinkImportedQuiet
<1> HIDE DEF linked
<1>15. Quiet(row, linked)
  BY <1>13, <1>14, QuietTrans
<1>16. Regular(linked) /\ linked.project[p].status \in OpenStatus
  BY <1>7, <1>15, OpenProjectIs DEF Quiet
<1>17. Quiet(linked, done)
  BY <1>16, SetProjectsQuiet DEF OpenStatus
<1> HIDE DEF done
<1>18. Quiet(row, done)
  BY <1>15, <1>17, QuietTrans
<1>19. Quiet(done, last)
  <2>1. CASE tender = None
    BY <1>18, <2>1, SelfQuiet DEF Quiet
  <2>2. CASE tender # None
    <3>1. Regular(done) /\ tender \in Made(done, "tender") /\ "won" \in TenderStatus
      BY <1>7, <1>18, <2>2 DEF Quiet, TenderStatus
    <3> QED BY <2>2, <3>1, TenderFieldsQuiet
  <2> QED BY <2>1, <2>2
<1> HIDE DEF last
<1>20. Quiet(row, last)
  BY <1>18, <1>19, QuietTrans
<1> QED BY <1>0, <1>5, <1>20, QuietTrans

LEMMA WithNoticeQuiet ==
    ASSUME NEW d, Regular(d), NEW n \in Orders, NEW p, NEW others \in SUBSET Made(d, "project"),
           NEW t \in Made(d, "tender"), d.tender[t].reg = n,
           \A q \in others : <<t, q>> \in d.inTender,
           \A q \in LinkedProjects(d, t) : d.project[q].status \in OpenStatus
    PROVE  Quiet(d, WithNotice(d, n, t, p, others))
<1> DEFINE found == [d EXCEPT !.tender[t].status = TenderStage(n)]
           effects == SideEffects(found, LinkedProjects(d, t), TenderStage(n))
           noted == [effects EXCEPT !.tender[t].reg = n]
           linked == LinkTender(noted, t, others)
<1>0. WithNotice(d, n, t, p, others) = linked
  BY DEF WithNotice, Made
<1>1. TenderStage(n) \in TenderStatus
  BY DEF TenderStage, TenderStatus
<1>2. Quiet(d, found)
  BY <1>1, TenderFieldsQuiet
<1> HIDE DEF found
<1>3. Quiet(found, effects)
  <2>1. \A q \in LinkedProjects(d, t) \cap Projects : found.project[q].status \in OpenStatus
    BY <1>2 DEF Quiet
  <2>2. Regular(found)
    BY <1>2 DEF Quiet
  <2> QED BY <2>1, <2>2, SideEffectsQuiet
<1> HIDE DEF effects
<1>4. Quiet(d, effects) /\ t \in Tenders
  BY <1>2, <1>3, QuietTrans, MadeRows DEF Regular
<1>5. Quiet(effects, noted)
  <2>1. Regular(effects) /\ t \in Made(effects, "tender") /\ effects.tender[t].reg = n
    BY <1>4 DEF Quiet
  <2> QED BY <2>1, TenderFieldsQuiet
<1> HIDE DEF noted
<1>6. Quiet(d, noted)
  BY <1>4, <1>5, QuietTrans
<1>7. Quiet(noted, linked)
  <2>1. /\ Regular(noted) /\ t \in Made(noted, "tender") /\ others \in SUBSET Made(noted, "project")
        /\ \A q \in others : <<t, q>> \in noted.inTender
    BY <1>6 DEF Quiet
  <2> QED BY <2>1, LinkTenderQuiet
<1> QED BY <1>0, <1>6, <1>7, QuietTrans

LEMMA SoundCard ==
    ASSUME NEW d, Sound(d), NEW n \in Orders
    PROVE  \A x, y \in LiveContracts(d) : d.contract[x].reg = n /\ d.contract[y].reg = n => x = y
  BY FindContractIs

LEMMA NoticeHasTender ==
    ASSUME NEW d, Sound(d), NEW n \in Orders, NEW o, NEW p, NEW x \in Tenders, d.tender[x].reg = n
    PROVE  ImportedTender(d, n, o, p) = x
<1> DEFINE R == {t \in Tenders : d.tender[t].reg = n}
<1>1. x \in R /\ R \subseteq Nat
  BY Constants
<1>2. Oldest(R) \in R
  BY <1>1, OldestIsMember
<1>3. ImportedTender(d, n, o, p) = Oldest(R)
  BY <1>1 DEF ImportedTender
<1>4. d.tender[x]["reg"] = n /\ d.tender[Oldest(R)]["reg"] = n /\ Oldest(R) \in Tenders /\ n # None
  BY <1>2, ChainAssumption
<1> QED BY <1>3, <1>4 DEF Sound, Unique, SameRow

LEMMA OrderCommittedQuiet ==
    ASSUME NEW d, Regular(d), Sound(d), NEW n \in Orders, MainObject[n] # None, OrderSettled(d, n)
    PROVE  Quiet(d, OrderCommitted(d, n))
<1> DEFINE S == {MainObject[n]} \cup OthersOf(n)
           ensured == EnsuredFor(d, n)
           p == ActiveProject(ensured, MainObject[n])
           found == ImportedTender(ensured, n, MainObject[n], p)
           t == IF found = None THEN NextId(ensured.tender) ELSE found
           others == {ActiveProject(ensured, o) : o \in OthersOf(n)}
           noted == WithNotice(ensured, n, t, p, others)
           synced == SyncContract(noted, n, MainObject[n], t)
<1>0. OrderCommitted(d, n) = IF Signed(n) THEN synced ELSE noted
  BY DEF OrderCommitted
<1>1. MainObject[n] \in Objects /\ OthersOf(n) \subseteq Objects /\ n # None
  BY ChainAssumption DEF OthersOf
<1>2. (\A o \in S : OpenProjects(d, o) # {}) /\ HasTender(d, n)
  BY DEF OrderSettled
<1>3. Quiet(d, ensured) /\ Sound(ensured)
  BY <1>1, <1>2, EnsureProjectsQuiet, EnsureProjectsExtends DEF EnsuredFor, Extends
<1> HIDE DEF ensured
<1>4. Regular(ensured) /\ (\A o \in S : OpenProjects(ensured, o) # {}) /\ HasTender(ensured, n)
  BY <1>2, <1>3, QuietTender DEF Quiet
<1>5. PICK x \in Tenders :
        /\ ensured.tender[x].reg = n
        /\ \A o \in OthersOf(n) : <<x, ActiveProject(ensured, o)>> \in ensured.inTender
        /\ \A q \in LinkedProjects(ensured, x) : ensured.project[q].status \in OpenStatus
  BY <1>4 DEF HasTender
<1>6. found = x
  BY <1>3, <1>5, NoticeHasTender
<1>7. x \in Made(ensured, "tender") /\ x # None
  BY <1>4, <1>6, ImportedTenderMade, Constants
<1>8. t = x
  BY <1>6, <1>7
<1>9. \A o \in OthersOf(n) : ActiveProject(ensured, o) \in Made(ensured, "project")
  BY <1>4, ActiveIsOpen, OpenAreMade DEF Regular
<1>10. others \in SUBSET Made(ensured, "project") /\ \A q \in others : <<x, q>> \in ensured.inTender
  BY <1>5, <1>9
<1> HIDE DEF t, p, others
<1>11. Quiet(ensured, noted)
  BY <1>4, <1>5, <1>7, <1>8, <1>10, WithNoticeQuiet
<1> HIDE DEF noted
<1>12. Quiet(d, noted)
  BY <1>3, <1>11, QuietTrans
<1>13. ASSUME Signed(n) PROVE Quiet(noted, synced)
  <2>1. HasContract(d, n, MainObject[n], S)
    BY <1>13 DEF OrderSettled
  <2>2. HasContract(noted, n, MainObject[n], S)
    BY <1>12, <2>1, QuietContract
  <2>3. HasContract(noted, n, MainObject[n], {MainObject[n]})
    BY <2>2 DEF HasContract
  <2>4. \A v, y \in LiveContracts(noted) :
          noted.contract[v].reg = n /\ noted.contract[y].reg = n => v = y
    BY <1>12, SoundCard, QuietCard
  <2>5. Regular(noted) /\ OpenProjects(noted, MainObject[n]) # {} /\ t \in Made(noted, "tender")
    BY <1>4, <1>7, <1>8, <1>11 DEF Quiet
  <2> QED BY <1>1, <2>3, <2>4, <2>5, SyncContractQuiet
<1> HIDE DEF synced
<1>14. Signed(n) => Quiet(d, synced)
  BY <1>12, <1>13, QuietTrans
<1> QED BY <1>0, <1>12, <1>14

LEMMA OrderDoneQuiet ==
    ASSUME NEW d, Regular(d), Sound(d), NEW n \in Orders, MainObject[n] # None, OrderSettled(d, n)
    PROVE  Quiet(d, OrderDone(d, n))
<1> DEFINE first == OrderCommitted(d, n)
           c == FindContract(first, n)
           last == LinkImported(first, c, OthersOf(n))
           S == {MainObject[n]} \cup OthersOf(n)
<1>0. OrderDone(d, n) = IF Signed(n) THEN last ELSE first
  BY DEF OrderDone
<1>1. Quiet(d, first)
  BY OrderCommittedQuiet
<1> HIDE DEF first
<1>2. ASSUME Signed(n) PROVE Quiet(first, last)
  <2>1. HasContract(d, n, MainObject[n], S)
    BY <1>2 DEF OrderSettled
  <2>2. HasContract(first, n, MainObject[n], S)
    BY <1>1, <2>1, QuietContract
  <2>3. \A x, y \in LiveContracts(first) :
          first.contract[x].reg = n /\ first.contract[y].reg = n => x = y
    BY <1>1, SoundCard, QuietCard
  <2>4. c \in Contracts /\ \A o \in S : <<c, o>> \in first.ofObject \cup first.leftObject
    BY <2>2, <2>3, FindSettled
  <2>5. OthersOf(n) \in SUBSET Objects /\ Regular(first)
    BY <1>1, ChainAssumption DEF OthersOf, Quiet
  <2> HIDE DEF c
  <2> QED BY <2>4, <2>5, LinkImportedQuiet
<1> HIDE DEF last
<1> QED BY <1>0, <1>1, <1>2, QuietTrans

LEMMA ContractDoneQuiet ==
    ASSUME NEW d, Regular(d), Sound(d), NEW n \in Orders, ContractSettled(d, n)
    PROVE  Quiet(d, ContractDone(d, n))
<1>1. CASE PlaceObject[n] = None
  <2>1. HasCard(d, n)
    BY <1>1 DEF ContractSettled, HasContract, HasCard
  <2> QED BY <1>1, <2>1, UpsertContractQuiet DEF ContractDone
<1>2. CASE PlaceObject[n] # None
  <2> DEFINE o == PlaceObject[n]
  <2>1. o \in Objects /\ OpenProjects(d, o) # {} /\ HasContract(d, n, o, {o})
    BY <1>2, ChainAssumption DEF ContractSettled
  <2>2. ContractDone(d, n) = SyncContract(d, n, o, None)
    BY <1>2 DEF ContractDone
  <2> HIDE DEF o
  <2> QED BY <2>1, <2>2, SoundCard, SyncContractQuiet
<1> QED BY <1>1, <1>2

(* A card that is imported.                                                *)
LEMMA CardIs ==
    ASSUME NEW card \in Cards
    PROVE  card[1] \in {"order", "contract"} /\ card[2] \in Orders
  BY DEF Cards

LEMMA CardDoneSteady ==
    ASSUME NEW d, Regular(d), Fits(d), Sound(d), NEW card \in Cards
    PROVE  LET e == CardDone(d, card) IN
           /\ Steady(d, e) /\ Sound(e)
           /\ ~CardRefused(d, card) /\ Reopened(d, e) = {} => Settled(e, card)
<1> DEFINE n == card[2]
<1>1. CASE CardRefused(d, card)
  <2>1. CardDone(d, card) = d
    BY <1>1 DEF CardDone
  <2> QED BY <1>1, <2>1, SelfSteady
<1>2. CASE ~CardRefused(d, card) /\ card[1] = "order"
  <2>1. CardDone(d, card) = OrderDone(d, n) /\ MainObject[n] # None
    BY <1>2 DEF CardDone, CardRefused
  <2>2. Steady(d, OrderDone(d, n)) /\ Sound(OrderDone(d, n))
    BY <2>1, CardIs, OrderDoneSteady, OrderDoneSound
  <2>3. Reopened(d, OrderDone(d, n)) = {} => Settled(OrderDone(d, n), card)
    BY <1>2, <2>1, CardIs, OrderDoneSteady DEF Settled
  <2> QED BY <2>1, <2>2, <2>3
<1>3. CASE ~CardRefused(d, card) /\ card[1] = "contract"
  <2>1. CardDone(d, card) = ContractDone(d, n)
    BY <1>3 DEF CardDone
  <2>2. Steady(d, ContractDone(d, n)) /\ Sound(ContractDone(d, n))
    BY CardIs, ContractDoneSteady, ContractDoneSound
  <2>3. Reopened(d, ContractDone(d, n)) = {} => Settled(ContractDone(d, n), card)
    BY <1>3, CardIs, ContractDoneSteady DEF Settled
  <2> QED BY <2>1, <2>2, <2>3
<1> QED BY <1>1, <1>2, <1>3, CardIs

LEMMA SettledRepeats ==
    ASSUME NEW d, Regular(d), Sound(d), NEW card \in Cards, Settled(d, card)
    PROVE  Rows(CardDone(d, card)) = Rows(d)
<1> DEFINE n == card[2]
<1>1. CASE CardRefused(d, card)
  BY <1>1 DEF CardDone
<1>2. CASE ~CardRefused(d, card) /\ card[1] = "order"
  <2>1. CardDone(d, card) = OrderDone(d, n) /\ MainObject[n] # None /\ OrderSettled(d, n)
    BY <1>2 DEF CardDone, CardRefused, Settled
  <2> QED BY <2>1, CardIs, OrderDoneQuiet, QuietRows
<1>3. CASE ~CardRefused(d, card) /\ card[1] = "contract"
  <2>1. CardDone(d, card) = ContractDone(d, n) /\ ContractSettled(d, n)
    BY <1>3 DEF CardDone, Settled
  <2> QED BY <2>1, CardIs, ContractDoneQuiet, QuietRows
<1> QED BY <1>1, <1>2, <1>3, CardIs

LEMMA CardsRepeatIn ==
    ASSUME Regular(db), Fits(db), Sound(db) PROVE ImportRepeats
<1> SUFFICES ASSUME NEW card \in Cards, ~CardRefused(db, card),
                    Undisturbed(db, CardDone(db, card)), NEW other \in Cards,
                    Undisturbed(CardDone(db, card), CardDone(CardDone(db, card), other))
             PROVE  LET f == CardDone(CardDone(db, card), other) IN
                    Rows(CardDone(f, card)) = Rows(f)
  BY DEF ImportRepeats, RepeatsAfter, NoNewRows
<1> DEFINE e == CardDone(db, card)
           f == CardDone(e, other)
<1>1. Steady(db, e) /\ Sound(e) /\ Settled(e, card) /\ Fits(e) /\ Regular(e)
  BY CardDoneSteady DEF Undisturbed, Disturbs, Steady
<1>2. Undisturbed(e, f)
  OBVIOUS
<1> HIDE DEF e
<1>3. Steady(e, f) /\ Sound(f) /\ Regular(f)
  BY <1>1, CardDoneSteady DEF Steady
<1> HIDE DEF f
<1>4. Settled(f, card)
  BY <1>1, <1>2, <1>3, SettledStays
<1>5. Rows(CardDone(f, card)) = Rows(f)
  BY <1>3, <1>4, SettledRepeats
<1> QED BY <1>5 DEF e, f

(* A card that is imported again, after another one or not, makes no rows  *)
(* and no links (eis/services.py, _sync_order and _sync_contract): what    *)
(* the first import left is all that it needs, and no other card takes it  *)
(* away.                                                                   *)
THEOREM CardsRepeat == ChainSpec => [](ImportRepeats /\ SiteImportRepeats)
<1>1. ChainInv /\ TypesInv => ImportRepeats /\ SiteImportRepeats
  BY CardsRepeatIn DEF ChainInv, TypesInv, SiteImportRepeats
<1> QED BY <1>1, TablesSound, TablesRegular, PTL
==============================================================================
