------------------------ MODULE DeviceControlProofs ------------------------
(***************************************************************************)
(* Theorems of DeviceControl, for any set of devices, commands, workers    *)
(* and connections and any bound: types, one active command per device,    *)
(* and the registry of connections.                                        *)
(***************************************************************************)
EXTENDS DeviceControl, SequenceTheorems, TLAPS

---------------------------------------------------------------------------
(* The vocabulary. *)

(* Every payload and every relay state is a setting of some relays.        *)
LEMMA PayloadsAreSettings == Payloads \subseteq Settings
  <1>1. ASSUME NEW p \in FormPayloads PROVE p \in Settings
    BY <1>1 DEF FormPayloads, Settings, Relays
  <1> QED BY <1>1, PayloadsAssumption

LEMMA RelayStatesAreSettings == RelayStates \subseteq Settings
  BY DEF RelayStates, Settings

(* Applying a setting to relays gives relays. *)
LEMMA SwitchedType ==
  ASSUME NEW relays \in RelayStates, NEW p \in Settings
  PROVE  Switched(relays, p) \in RelayStates
  BY DEF RelayStates, Settings, Switched

(* The lines a payload is sent as are lines, and there is at least one.    *)
LEMMA LineTypes ==
  /\ \A v \in {"AUTHENTICATED", "GET", "PING"} : Line(v) \in Lines
  /\ \A r \in Relays, v \in 0..1 : SetLine(r, v) \in Lines
  /\ \A v \in 0..1 : SetAllLine(v) \in Lines
  /\ \A c \in Commands, p \in Settings : CmdLine(c, p) \in Lines
  <1>1. ASSUME NEW v \in {"AUTHENTICATED", "GET", "PING"} PROVE Line(v) \in Lines
    BY <1>1 DEF Line, Lines
  <1>2. ASSUME NEW r \in Relays, NEW v \in 0..1 PROVE SetLine(r, v) \in Lines
    <2>1. {r} \in SUBSET Relays /\ [x \in {r} |-> v] \in [{r} -> 0..1] BY <1>2
    <2>2. [x \in {r} |-> v] \in Settings BY <2>1 DEF Settings
    <2> QED BY <2>2 DEF SetLine, Lines
  <1>3. ASSUME NEW v \in 0..1 PROVE SetAllLine(v) \in Lines
    <2>1. [r \in Relays |-> v] \in [Relays -> 0..1] BY <1>3
    <2>2. [r \in Relays |-> v] \in Settings BY <2>1 DEF Settings
    <2> QED BY <2>2 DEF SetAllLine, Lines
  <1>4. ASSUME NEW c \in Commands, NEW p \in Settings PROVE CmdLine(c, p) \in Lines
    BY <1>4 DEF CmdLine, Lines
  <1> QED BY <1>1, <1>2, <1>3, <1>4

LEMMA StepForType ==
  ASSUME NEW p \in Settings, NEW r \in Relays
  PROVE  StepFor(p, r) \in Seq(Lines) /\ (r \in DOMAIN p => Len(StepFor(p, r)) = 1)
  <1>1. CASE r \in DOMAIN p
    <2>1. p[r] \in 0..1 BY <1>1 DEF Settings
    <2>2. SetLine(r, p[r]) \in Lines BY <2>1, LineTypes
    <2> QED BY <1>1, <2>2 DEF StepFor
  <1>2. CASE r \notin DOMAIN p BY <1>2 DEF StepFor
  <1> QED BY <1>1, <1>2

LEMMA V2StepsType ==
  ASSUME NEW p \in Payloads
  PROVE  V2Steps(p) \in Seq(Lines) /\ V2Steps(p) # << >>
  <1>1. p \in Settings BY PayloadsAreSettings
  <1>2. \E r \in Relays : r \in DOMAIN p
    BY PayloadsAssumption DEF FormPayloads, Relays
  <1>3. CASE DOMAIN p = Relays /\ \A r1, r2 \in Relays : p[r1] = p[r2]
    <2>1. p["C6"] \in 0..1 BY <1>1, <1>3 DEF Settings, Relays
    <2>2. SetAllLine(p["C6"]) \in Lines BY <2>1, LineTypes
    <2>3. V2Steps(p) = <<SetAllLine(p["C6"])>> BY <1>3 DEF V2Steps
    <2> QED BY <2>2, <2>3
  <1>4. CASE ~(DOMAIN p = Relays /\ \A r1, r2 \in Relays : p[r1] = p[r2])
    <2> DEFINE a == StepFor(p, "C6") b == StepFor(p, "C7") c == StepFor(p, "C8")
    <2>1. a \in Seq(Lines) /\ b \in Seq(Lines) /\ c \in Seq(Lines)
      BY <1>1, StepForType DEF Relays
    <2>2. Len(a) = 1 \/ Len(b) = 1 \/ Len(c) = 1
      BY <1>1, <1>2, StepForType DEF Relays
    <2>3. V2Steps(p) = a \o b \o c BY <1>4 DEF V2Steps
    <2> HIDE DEF a, b, c
    <2>4. a \o b \in Seq(Lines) /\ Len(a \o b) = Len(a) + Len(b)
      BY <2>1, ConcatProperties
    <2>5. (a \o b) \o c \in Seq(Lines) /\ Len((a \o b) \o c) = Len(a) + Len(b) + Len(c)
      BY <2>1, <2>4, ConcatProperties
    <2> DEFINE la == Len(a) lb == Len(b) lc == Len(c)
    <2>6. la \in Nat /\ lb \in Nat /\ lc \in Nat BY <2>1, LenProperties
    <2>7. la = 1 \/ lb = 1 \/ lc = 1 BY <2>2
    <2>8. Len((a \o b) \o c) = la + lb + lc BY <2>5
    <2> HIDE DEF la, lb, lc
    <2>9. Len((a \o b) \o c) # 0 BY <2>6, <2>7, <2>8
    <2> QED BY <2>3, <2>5, <2>9, EmptySeq
  <1> QED BY <1>3, <1>4

---------------------------------------------------------------------------
(* The store. *)

(* What a transaction may write to a row. *)
LEMMA WriteTypes ==
  /\ Keep \in Writes /\ Complete \in Writes /\ Confirm \in Writes
  /\ \A s \in Statuses : Becomes(s) \in Writes
  BY DEF Keep, Complete, Confirm, Becomes, Writes, Statuses

LEMMA WritesTypes ==
  /\ NoWrites \in [Commands -> Writes]
  /\ SettleWrites \in [Commands -> Writes]
  /\ ExpireWrites \in [Commands -> Writes]
  /\ \A d : ExpireOf(d) \in [Commands -> Writes]
  /\ \A d, rs : ReportWrites(d, rs) \in [Commands -> Writes]
  /\ \A c, w : w \in Writes => Only(c, w) \in [Commands -> Writes]
  <1>1. "failed" \in Statuses /\ "timeout" \in Statuses BY DEF Statuses
  <1> QED
    BY <1>1, WriteTypes DEF NoWrites, SettleWrites, ExpireWrites, ExpireOf, ReportWrites, Only

(* An update keeps the row's owner and payload, and a row stays a row.     *)
LEMMA UpdateType ==
  ASSUME NEW row \in CommandRows, NEW w \in Writes
  PROVE  /\ Update(row, w) \in CommandRows
         /\ Update(row, w).device = row.device
         /\ Update(row, w).payload = row.payload
         /\ row.status # "none" => Update(row, w).status # "none"
  <1> DEFINE status == IF w.status = "keep" THEN row.status ELSE w.status
             confirmed == row.confirmed \/ w.confirm
             late == row.late /\ w.status = "keep"
  <1>1. status \in Statuses \cup {"none"} /\ (row.status # "none" => status # "none")
    BY DEF CommandRows, Writes, Statuses
  <1>2. confirmed \in BOOLEAN /\ late \in BOOLEAN
    BY DEF CommandRows, Writes
  <1>3. Update(row, w) = [row EXCEPT !.status = status, !.confirmed = confirmed, !.late = late]
    BY DEF Update
  <1> HIDE DEF status, confirmed, late
  <1> QED BY <1>1, <1>2, <1>3 DEF CommandRows

LEMMA UpdatedType ==
  ASSUME cmd \in [Commands -> CommandRows], NEW ws \in [Commands -> Writes]
  PROVE  /\ Updated(ws) \in [Commands -> CommandRows]
         /\ \A c \in Commands : /\ Updated(ws)[c].device = cmd[c].device
                                /\ Updated(ws)[c].payload = cmd[c].payload
                                /\ Row(c) => Updated(ws)[c].status # "none"
  BY UpdateType DEF Updated, Row

(* Updates about rows make no row and lose none. *)
LEMMA UpdatedRows ==
  ASSUME cmd \in [Commands -> CommandRows],
         NEW ws \in [Commands -> Writes], OfRows(ws), NEW c \in Commands
  PROVE  (Updated(ws)[c].status # "none") <=> Row(c)
  <1>1. Row(c) => Updated(ws)[c].status # "none" BY UpdatedType
  <1>2. ASSUME Updated(ws)[c].status # "none" PROVE Row(c)
    <2>1. CASE ws[c] # Keep BY <2>1 DEF OfRows
    <2>2. CASE ws[c] = Keep
      <3>1. Updated(ws)[c] = Update(cmd[c], Keep) BY <2>2 DEF Updated
      <3> QED BY <1>2, <3>1 DEF Update, Keep, CommandRows, Row
    <2> QED BY <2>1, <2>2
  <1> QED BY <1>1, <1>2

(* A committed update of the table keeps its rows known. *)
LEMMA UpdateKeepsRows ==
  ASSUME cmd \in [Commands -> CommandRows], RowsKnown,
         NEW ws \in [Commands -> Writes], OfRows(ws), cmd' = Updated(ws) \/ cmd' = cmd
  PROVE  /\ cmd' \in [Commands -> CommandRows]
         /\ RowsKnown'
         /\ \A c \in Commands : Row(c) => Row(c)'
  <1>1. CASE cmd' = cmd BY <1>1 DEF RowsKnown, Row
  <1>2. CASE cmd' = Updated(ws)
    <2>1. \A c \in Commands : /\ cmd'[c].device = cmd[c].device
                              /\ cmd'[c].payload = cmd[c].payload
                              /\ Row(c)' <=> Row(c)
      BY <1>2, UpdatedType, UpdatedRows DEF Row
    <2> QED BY <1>2, <2>1, UpdatedType DEF RowsKnown
  <1> QED BY <1>1, <1>2

(* What the passes over the table decide is about rows. *)
LEMMA PassesAreOfRows ==
  /\ OfRows(NoWrites) /\ OfRows(SettleWrites) /\ OfRows(ExpireWrites)
  /\ \A d : OfRows(ExpireOf(d))
  /\ \A d, rs : OfRows(ReportWrites(d, rs))
  /\ \A w : \A c \in Commands : Row(c) => OfRows(Only(c, w))
  BY DEF OfRows, Row, NoWrites, SettleWrites, ExpireWrites, ExpireOf, ReportWrites, Only,
         AckExpired, SentExpired, Released, AwaitingConfirmation, MatchedSent

(* The gateway's transactions stay about rows while rows only appear. *)
LEMMA GatewayKnownKept ==
  ASSUME GatewayTypeOK, GatewayKnown, \A c \in Commands : Row(c) => Row(c)',
         UNCHANGED <<gatewayVars, link>>
  PROVE  GatewayKnown'
  <1> USE DEF gatewayVars, memory
  <1>1. OfRows(gtx.writes)' BY DEF GatewayKnown, OfRows
  <1>2. gtx.seen \subseteq Commands /\ outbound \subseteq Commands
    BY DEF GatewayTypeOK, GwTxs
  <1>3. retry # None => retry \in Commands BY DEF GatewayTypeOK
  <1>4. \A k : Used(k)' <=> Used(k) BY DEF Used
  <1> QED BY <1>1, <1>2, <1>3, <1>4 DEF GatewayKnown

(* Nothing but the web changes in a web step. *)
RestUnchanged == UNCHANGED <<boardVars, gatewayVars>>

---------------------------------------------------------------------------
(* The web side. *)

LEMMA SettleBeginInv ==
  ASSUME Inv, NEW w \in Workers, SettleBegin(w), RestUnchanged
  PROVE  Inv'
  <1> USE DEF Inv, SettleBegin, RestUnchanged, storeVars, boardVars, gatewayVars, memory
  <1>1. TypeOK'
    <2>1. [IdleWeb EXCEPT !.op = "settle", !.writes = SettleWrites] \in WebTxs
      BY WritesTypes DEF IdleWeb, WebTxs
    <2> QED BY <2>1 DEF TypeOK, StoreTypeOK, WebTypeOK, BoardTypeOK, GatewayTypeOK
  <1>2. WebKnown'
    BY PassesAreOfRows DEF WebKnown, IdleWeb, TypeOK, WebTypeOK, OfRows, Row
  <1>3. RowsKnown' /\ LinksKnown' /\ GatewayKnown'
    BY DEF RowsKnown, LinksKnown, GatewayKnown, OfRows, Row, Used
  <1>4. ConnectionsInv' BY DEF ConnectionsInv, OpenIsRegistered, Greeting
  <1> QED BY <1>1, <1>2, <1>3, <1>4

LEMMA SettleCommitInv ==
  ASSUME Inv, NEW w \in Workers, SettleCommit(w), RestUnchanged
  PROVE  Inv'
  <1> USE DEF Inv, RestUnchanged, boardVars, gatewayVars, memory
  <1>1. web[w].writes \in [Commands -> Writes] /\ OfRows(web[w].writes)
    BY DEF TypeOK, WebTypeOK, WebTxs, WebKnown
  <1>2. /\ cmd' \in [Commands -> CommandRows] /\ RowsKnown'
        /\ \A c \in Commands : Row(c) => Row(c)'
    BY <1>1, UpdateKeepsRows DEF SettleCommit, TypeOK, StoreTypeOK
  <1>3. TypeOK'
    <2>1. IdleWeb \in WebTxs BY WritesTypes DEF IdleWeb, WebTxs
    <2> QED BY <1>2, <2>1
         DEF SettleCommit, TypeOK, StoreTypeOK, WebTypeOK, BoardTypeOK, GatewayTypeOK
  <1>4. WebKnown'
    BY <1>2, PassesAreOfRows DEF SettleCommit, WebKnown, IdleWeb, TypeOK, WebTypeOK, OfRows
  <1>5. LinksKnown' /\ GatewayKnown'
    BY <1>2, GatewayKnownKept DEF SettleCommit, LinksKnown, Used, TypeOK
  <1>6. ConnectionsInv' BY DEF SettleCommit, ConnectionsInv, OpenIsRegistered, Greeting
  <1> QED BY <1>2, <1>3, <1>4, <1>5, <1>6

LEMMA EnqueueBeginInv ==
  ASSUME Inv, NEW w \in Workers, NEW d \in Devices, NEW p \in Payloads,
         EnqueueBegin(w, d, p), RestUnchanged
  PROVE  Inv'
  <1> USE DEF Inv, EnqueueBegin, RestUnchanged, storeVars, boardVars, gatewayVars, memory
  <1>1. TypeOK'
    <2>1. [op |-> "enqueue", device |-> d, payload |-> p, writes |-> ExpireOf(d)] \in WebTxs
      BY WritesTypes DEF WebTxs
    <2> QED BY <2>1 DEF TypeOK, StoreTypeOK, WebTypeOK, BoardTypeOK, GatewayTypeOK
  <1>2. WebKnown'
    BY PassesAreOfRows DEF WebKnown, TypeOK, WebTypeOK, OfRows, Row
  <1>3. RowsKnown' /\ LinksKnown' /\ GatewayKnown'
    BY DEF RowsKnown, LinksKnown, GatewayKnown, OfRows, Row, Used
  <1>4. ConnectionsInv' BY DEF ConnectionsInv, OpenIsRegistered, Greeting
  <1> QED BY <1>1, <1>2, <1>3, <1>4

LEMMA EnqueueCommitInv ==
  ASSUME Inv, NEW w \in Workers, NEW c \in Commands, EnqueueCommit(w, c), RestUnchanged
  PROVE  Inv'
  <1> USE DEF Inv, RestUnchanged, boardVars, gatewayVars, memory
  <1> DEFINE ws == web[w].writes  row == NewRow(web[w].device, web[w].payload)
  <1>1. ws \in [Commands -> Writes] /\ OfRows(ws)
    BY DEF TypeOK, WebTypeOK, WebTxs, WebKnown
  <1>2. web[w].device \in Devices /\ web[w].payload \in Payloads
    BY DEF EnqueueCommit, WebKnown
  <1>3. /\ row \in CommandRows /\ row.status = "pending"
        /\ row.device = web[w].device /\ row.payload = web[w].payload
    BY <1>2 DEF NewRow, NoRow, CommandRows, Statuses
  <1>4. /\ Updated(ws) \in [Commands -> CommandRows]
        /\ \A x \in Commands : /\ Row(x) => Updated(ws)[x].status # "none"
                               /\ Updated(ws)[x].status # "none" =>
                                      /\ Updated(ws)[x].device \in Devices
                                      /\ Updated(ws)[x].payload \in Payloads
    <2>1. cmd \in [Commands -> CommandRows] BY DEF TypeOK, StoreTypeOK
    <2>2. \A x \in Commands : (Updated(ws)[x].status # "none") <=> Row(x)
      BY <1>1, <2>1, UpdatedRows
    <2> QED BY <1>1, <2>1, <2>2, UpdatedType DEF RowsKnown
  <1>5. /\ cmd' \in [Commands -> CommandRows] /\ RowsKnown'
        /\ \A x \in Commands : Row(x) => Row(x)'
    <2>1. CASE cmd' = Inserted(w, c)
      <3>1. cmd' = [Updated(ws) EXCEPT ![c] = row] BY <2>1 DEF Inserted
      <3> HIDE DEF row, ws
      <3> QED BY <1>2, <1>3, <1>4, <3>1 DEF RowsKnown, Row
    <2>2. CASE cmd' = cmd BY <2>2 DEF RowsKnown, Row, TypeOK, StoreTypeOK
    <2> QED BY <2>1, <2>2 DEF EnqueueCommit
  <1>6. TypeOK'
    <2>1. IdleWeb \in WebTxs BY WritesTypes DEF IdleWeb, WebTxs
    <2> QED BY <1>5, <2>1
         DEF EnqueueCommit, TypeOK, StoreTypeOK, WebTypeOK, BoardTypeOK, GatewayTypeOK
  <1>7. WebKnown'
    BY <1>5, PassesAreOfRows DEF EnqueueCommit, WebKnown, IdleWeb, TypeOK, WebTypeOK, OfRows
  <1>8. LinksKnown' /\ GatewayKnown'
    BY <1>5, GatewayKnownKept DEF EnqueueCommit, LinksKnown, Used, TypeOK
  <1>9. ConnectionsInv' BY DEF EnqueueCommit, ConnectionsInv, OpenIsRegistered, Greeting
  <1> QED BY <1>5, <1>6, <1>7, <1>8, <1>9

(* An administrator may hide a device, but not one that is shown to serve. *)
LEMMA AdminInv ==
  ASSUME Inv, NEW d \in Devices, EditEnabled(d) \/ DeleteDevice(d), RestUnchanged
  PROVE  Inv'
  <1> USE DEF Inv, RestUnchanged, boardVars, gatewayVars, memory
  <1>a. dev \in [Devices -> DeviceRows] /\ admin \in Nat
    BY DEF TypeOK, StoreTypeOK, WebTypeOK
  <1>b. dev[d] \in DeviceRows BY <1>a
  <1>1. dev' \in [Devices -> DeviceRows] /\ UNCHANGED <<cmd, web>> /\ admin' \in Nat
    <2>1. CASE EditEnabled(d)
      <3>1. [dev[d] EXCEPT !.enabled = ~@] \in DeviceRows BY <1>b DEF DeviceRows
      <3> QED BY <1>a, <2>1, <3>1 DEF EditEnabled
    <2>2. CASE DeleteDevice(d)
      <3>1. [dev[d] EXCEPT !.enabled = FALSE, !.online = FALSE, !.deleted = TRUE] \in DeviceRows
        BY <1>b DEF DeviceRows
      <3> QED BY <1>a, <2>2, <3>1 DEF DeleteDevice
    <2> QED BY <2>1, <2>2
  <1>2. \A x \in Devices : /\ dev[x].deleted => dev'[x].deleted
                           /\ dev[x].online => dev'[x].online \/ dev'[x].deleted
    BY DEF EditEnabled, DeleteDevice, TypeOK, StoreTypeOK, DeviceRows
  <1>3. TypeOK' BY <1>1 DEF TypeOK, StoreTypeOK, WebTypeOK, BoardTypeOK, GatewayTypeOK
  <1>4. RowsKnown' /\ WebKnown' /\ LinksKnown' /\ GatewayKnown'
    BY <1>1 DEF RowsKnown, WebKnown, LinksKnown, GatewayKnown, OfRows, Row, Used
  <1>5. ConnectionsInv'
    BY <1>1, <1>2 DEF ConnectionsInv, OpenIsRegistered, Greeting
  <1> QED BY <1>3, <1>4, <1>5

---------------------------------------------------------------------------
(* The controllers. *)

LEMMA FrameTypes ==
  /\ \A v \in {"AUTH", "OK", "ERR", "PONG"} : Frame(v) \in Frames
  /\ \A rs \in RelayStates : StateFrame(rs) \in Frames
  /\ \A c \in Commands, ok \in BOOLEAN : AckFrame(ok, c) \in Frames
  BY DEF Frame, StateFrame, AckFrame, Frames

LEMMA SequenceTypes ==
  ASSUME NEW S, NEW s \in Seq(S), NEW n \in 0..Len(s)
  PROVE  /\ SubSeq(s, 1, n) \in Seq(S)
         /\ SubSeq(s, n + 1, Len(s)) \in Seq(S)
         /\ s # << >> => Head(s) \in S /\ Tail(s) \in Seq(S)
  <1>1. Len(s) \in Nat /\ \A i \in 1..Len(s) : s[i] \in S
    BY LenProperties, ElementOfSeq
  <1>2. SubSeq(s, 1, n) \in Seq(S) BY <1>1, SubSeqProperties
  <1>3. SubSeq(s, n + 1, Len(s)) \in Seq(S) BY <1>1, SubSeqProperties
  <1> QED BY <1>2, <1>3, HeadTailProperties

LEMMA LineOutcome ==
  ASSUME NEW line \in Lines, NEW relays \in RelayStates
  PROVE  /\ LatchedBy(line, relays) \in RelayStates
         /\ \A answer \in Answers(line, relays) : answer \in Seq(Frames)
  <1>1. LatchedBy(line, relays) \in RelayStates
    <2>1. CASE line.verb \in {"SET", "SETALL"}
      <3>1. line.set \in Settings BY <2>1 DEF Lines
      <3> QED BY <2>1, <3>1, SwitchedType DEF LatchedBy
    <2> QED BY <2>1 DEF LatchedBy
  <1>2. /\ Frame("OK") \in Frames /\ Frame("ERR") \in Frames /\ Frame("PONG") \in Frames
        /\ StateFrame(relays) \in Frames
    BY FrameTypes
  <1> HIDE DEF Frame, StateFrame
  <1>3. /\ <<StateFrame(relays)>> \in Seq(Frames) /\ <<Frame("PONG")>> \in Seq(Frames)
        /\ <<Frame("OK")>> \in Seq(Frames) /\ <<Frame("ERR")>> \in Seq(Frames)
        /\ <<Frame("OK"), StateFrame(relays)>> \in Seq(Frames)
    BY <1>2
  <1> QED BY <1>1, <1>3 DEF Answers

(* A step of a controller changes its own end of a connection only. *)
OthersUnchanged == UNCHANGED <<storeVars, webVars, gatewayVars>>

LEMMA ControllerKeepsInv ==
  ASSUME Inv, OthersUnchanged, UNCHANGED up,
         link' \in [Conns -> Links], board' \in [Devices -> Boards], reboots' \in Nat,
         \A k \in Conns : Used(k) => /\ link'[k].gw = link[k].gw
                                     /\ link'[k].device = link[k].device,
         \A k \in Conns : ~Used(k) /\ Used(k)' => /\ link'[k].gw = "auth"
                                                  /\ link'[k].device \in Devices
  PROVE  Inv'
  <1> USE DEF Inv, OthersUnchanged, storeVars, webVars, gatewayVars, memory
  <1>1. TypeOK' BY DEF TypeOK, StoreTypeOK, WebTypeOK, BoardTypeOK, GatewayTypeOK
  <1>2. RowsKnown' /\ WebKnown' BY DEF RowsKnown, WebKnown, OfRows, Row
  <1>3. \A k \in Conns : Used(k) => Used(k)' BY DEF Used
  <1>4. LinksKnown'
    <2>1. ASSUME NEW k \in Conns, Used(k)' PROVE link'[k].device \in Devices
      BY <2>1 DEF LinksKnown
    <2>2. ASSUME NEW d \in Devices, registered[d] # NoConn
          PROVE  Used(registered[d])' /\ link'[registered[d]].device = d
      BY <2>2, <1>3 DEF LinksKnown, Used
    <2> QED BY <2>1, <2>2 DEF LinksKnown
  <1>5. GatewayKnown'
    BY <1>3 DEF GatewayKnown, OfRows, Row, Used
  <1>6. \A k \in Conns : link'[k].gw = "open" =>
            link[k].gw = "open" /\ link'[k].device = link[k].device
    BY DEF Used
  <1>7. gtx.op \in {"hello", "bye"} =>
            gtx.conn \in Conns /\ link'[gtx.conn].device = link[gtx.conn].device
    BY DEF GatewayKnown, Used
  <1>8. ConnectionsInv'
    BY <1>6, <1>7 DEF ConnectionsInv, OpenIsRegistered, Greeting
  <1> QED BY <1>1, <1>2, <1>4, <1>5, <1>8

(* What the types say of one connection and of one board. *)
LEMMA LinkFacts ==
  ASSUME TypeOK, NEW k \in Conns
  PROVE  /\ link \in [Conns -> Links] /\ link[k] \in Links
         /\ link[k].toBoard \in Seq(Lines) /\ link[k].toGw \in Seq(Frames)
  BY DEF TypeOK, BoardTypeOK, Links

LEMMA BoardFacts ==
  ASSUME TypeOK, NEW d \in Devices
  PROVE  /\ board \in [Devices -> Boards] /\ board[d] \in Boards
         /\ board[d].conn # NoConn => board[d].conn \in Conns
         /\ reboots \in Nat
  BY DEF TypeOK, BoardTypeOK, Boards

LEMMA ConnectInv ==
  ASSUME Inv, OthersUnchanged, NEW d \in Devices, NEW k \in Conns, Connect(d, k)
  PROVE  Inv'
  <1>1. <<Frame("AUTH")>> \in Seq(Frames) BY FrameTypes
  <1>2. link' \in [Conns -> Links]
    BY <1>1, LinkFacts DEF Inv, Connect, Links
  <1>3. board' \in [Devices -> Boards] BY BoardFacts DEF Inv, Connect, Boards
  <1>4. \A i \in Conns : i # k => link'[i] = link[i] BY LinkFacts DEF Inv, Connect
  <1>5. ~Used(k) /\ link'[k].gw = "auth" /\ link'[k].device = d
    BY LinkFacts DEF Inv, Connect, Used
  <1> QED BY <1>2, <1>3, <1>4, <1>5, BoardFacts, ControllerKeepsInv DEF Connect, Inv, Used

(* The streams of one connection change, its ends do not. *)
LEMMA StreamsChangeInv ==
  ASSUME Inv, OthersUnchanged, UNCHANGED <<up, reboots>>, board' \in [Devices -> Boards],
         NEW k \in Conns, NEW b \in Seq(Lines), NEW g \in Seq(Frames),
         link' = [link EXCEPT ![k].toBoard = b, ![k].toGw = g]
  PROVE  Inv'
  <1>1. link' \in [Conns -> Links] BY ZenonT(60), LinkFacts DEF Inv, Links
  <1>2. \A i \in Conns : link'[i].gw = link[i].gw /\ link'[i].device = link[i].device
    BY LinkFacts DEF Inv, Links
  <1>3. reboots' \in Nat BY DEF Inv, TypeOK, BoardTypeOK
  <1> QED BY <1>1, <1>2, <1>3, ControllerKeepsInv DEF Used

LEMMA DisconnectedInv ==
  ASSUME Inv, OthersUnchanged, UNCHANGED up, board' \in [Devices -> Boards], reboots' \in Nat,
         NEW k \in Conns, NEW n \in 0..Len(link[k].toGw), link' = Disconnected(k, n)
  PROVE  Inv'
  <1>1. SubSeq(link[k].toGw, 1, n) \in Seq(Frames)
    BY LinkFacts, SequenceTypes DEF Inv
  <1>2. link' \in [Conns -> Links]
    <2> DEFINE kept == SubSeq(link[k].toGw, 1, n)
    <2>1. kept \in Seq(Frames) /\ << >> \in Seq(Lines) BY <1>1
    <2>2. [link[k] EXCEPT !.peer = "down", !.toBoard = << >>, !.toGw = kept] \in Links
      <3> HIDE DEF kept
      <3> QED BY <2>1, LinkFacts DEF Inv, Links
    <2>3. link' = [link EXCEPT ![k] = [link[k] EXCEPT !.peer = "down", !.toBoard = << >>,
                                                      !.toGw = kept]]
      BY LinkFacts DEF Inv, Links, Disconnected
    <2> HIDE DEF kept
    <2> QED BY <2>2, <2>3, LinkFacts DEF Inv
  <1>3. \A i \in Conns : link'[i].gw = link[i].gw /\ link'[i].device = link[i].device
    BY LinkFacts DEF Inv, Links, Disconnected
  <1> QED BY <1>2, <1>3, ControllerKeepsInv DEF Used

LEMMA DropInv ==
  ASSUME Inv, OthersUnchanged, NEW d \in Devices, NEW n \in 0..MaxQueue, Drop(d, n)
  PROVE  Inv'
  <1>1. board' \in [Devices -> Boards] /\ UNCHANGED up /\ reboots' \in Nat
    BY BoardFacts DEF Drop, Inv, Boards
  <1>2. /\ board[d].conn \in Conns /\ n \in 0..Len(link[board[d].conn].toGw)
        /\ link' = Disconnected(board[d].conn, n)
    BY BoardFacts DEF Drop, Inv
  <1> QED BY <1>1, <1>2, DisconnectedInv

LEMMA RebootInv ==
  ASSUME Inv, OthersUnchanged, NEW d \in Devices, Reboot(d)
  PROVE  Inv'
  <1>1. [r \in Relays |-> 0] \in RelayStates BY DEF RelayStates
  <1>2. board' \in [Devices -> Boards] /\ UNCHANGED up /\ reboots' \in Nat
    BY <1>1, BoardFacts DEF Reboot, Inv, Boards
  <1>3. CASE board[d].conn = NoConn
    BY <1>2, <1>3, LinkFacts, ControllerKeepsInv DEF Reboot, Inv, Used, TypeOK, BoardTypeOK
  <1>4. CASE board[d].conn # NoConn
    <2>1. board[d].conn \in Conns BY <1>4, BoardFacts DEF Inv
    <2>2. 0 \in 0..Len(link[board[d].conn].toGw) BY <2>1, LinkFacts, LenProperties DEF Inv
    <2>3. link' = Disconnected(board[d].conn, 0) BY <1>4 DEF Reboot
    <2> QED BY <1>2, <2>1, <2>2, <2>3, DisconnectedInv
  <1> QED BY <1>3, <1>4

LEMMA ExecuteInv ==
  ASSUME Inv, OthersUnchanged, NEW d \in Devices, NEW n \in 1..MaxQueue, Execute(d, n)
  PROVE  Inv'
  <1> DEFINE k == board[d].conn  line == Head(link[k].toBoard)
             relays == LatchedBy(line, board[d].relays)
  <1>1. k \in Conns /\ n \in 1..Len(link[k].toBoard) BY BoardFacts DEF Execute, Inv
  <1>2. /\ line \in Lines
        /\ SubSeq(link[k].toBoard, n + 1, Len(link[k].toBoard)) \in Seq(Lines)
    BY <1>1, LinkFacts, SequenceTypes, EmptySeq, LenProperties DEF Inv
  <1>3. board[d].relays \in RelayStates BY BoardFacts DEF Boards, Inv
  <1>4. relays \in RelayStates /\ \A a \in Answers(line, relays) : a \in Seq(Frames)
    BY <1>2, <1>3, LineOutcome
  <1>5. PICK a \in Answers(line, relays) :
            link' = [link EXCEPT ![k].toBoard = SubSeq(@, n + 1, Len(@)), ![k].toGw = @ \o a]
    BY DEF Execute
  <1>6. link[k].toGw \o a \in Seq(Frames) BY <1>1, <1>4, LinkFacts, ConcatProperties DEF Inv
  <1>7. board' \in [Devices -> Boards] BY <1>4, BoardFacts DEF Execute, Boards, Inv
  <1>8. UNCHANGED <<up, reboots>> BY DEF Execute
  <1>9. link' = [link EXCEPT ![k].toBoard = SubSeq(link[k].toBoard, n + 1, Len(link[k].toBoard)),
                             ![k].toGw = link[k].toGw \o a]
    BY <1>1, <1>5, LinkFacts DEF Inv, Links
  <1> HIDE DEF k, line, relays
  <1> QED BY <1>1, <1>2, <1>6, <1>7, <1>8, <1>9, StreamsChangeInv

LEMMA AuthenticatedInv ==
  ASSUME Inv, OthersUnchanged, NEW d \in Devices, NEW n \in 1..MaxQueue, Authenticated(d, n)
  PROVE  Inv'
  <1> DEFINE k == board[d].conn
  <1>1. k \in Conns /\ n \in 1..Len(link[k].toBoard) BY BoardFacts DEF Authenticated, Inv
  <1>2. SubSeq(link[k].toBoard, n + 1, Len(link[k].toBoard)) \in Seq(Lines)
    BY <1>1, LinkFacts, SequenceTypes, LenProperties DEF Inv
  <1>3. board[d].relays \in RelayStates BY BoardFacts DEF Boards, Inv
  <1>4. PICK first \in {<< >>, <<StateFrame(board[d].relays)>>} :
            link' = [link EXCEPT ![k].toBoard = SubSeq(@, n + 1, Len(@)),
                                 ![k].toGw = @ \o first \o <<Frame("ERR")>>]
    BY DEF Authenticated
  <1>5. first \in Seq(Frames) /\ <<Frame("ERR")>> \in Seq(Frames)
    <2>1. StateFrame(board[d].relays) \in Frames /\ Frame("ERR") \in Frames
      BY <1>3, FrameTypes
    <2>2. << >> \in Seq(Frames) /\ <<StateFrame(board[d].relays)>> \in Seq(Frames)
      BY <2>1
    <2>3. <<Frame("ERR")>> \in Seq(Frames) BY <2>1
    <2> QED BY <1>4, <2>2, <2>3
  <1>6. (link[k].toGw \o first) \o <<Frame("ERR")>> \in Seq(Frames)
    BY <1>1, <1>5, LinkFacts, ConcatProperties DEF Inv
  <1>7. board' \in [Devices -> Boards] BY BoardFacts DEF Authenticated, Boards, Inv
  <1>8. UNCHANGED <<up, reboots>> BY DEF Authenticated
  <1>9. link' = [link EXCEPT ![k].toBoard = SubSeq(link[k].toBoard, n + 1, Len(link[k].toBoard)),
                             ![k].toGw = (link[k].toGw \o first) \o <<Frame("ERR")>>]
    BY <1>1, <1>4, LinkFacts DEF Inv, Links
  <1> HIDE DEF k
  <1> QED BY <1>1, <1>2, <1>6, <1>7, <1>8, <1>9, StreamsChangeInv

LEMMA ReportInv ==
  ASSUME Inv, OthersUnchanged, NEW d \in Devices, Report(d)
  PROVE  Inv'
  <1> DEFINE k == board[d].conn
  <1>1. k \in Conns BY BoardFacts DEF Report, Inv
  <1>2. StateFrame(board[d].relays) \in Frames BY BoardFacts, FrameTypes DEF Boards, Inv
  <1>3. Append(link[k].toGw, StateFrame(board[d].relays)) \in Seq(Frames)
    BY <1>1, <1>2, LinkFacts, AppendProperties DEF Inv
  <1>4. link' = [link EXCEPT ![k].toBoard = link[k].toBoard,
                             ![k].toGw = Append(link[k].toGw, StateFrame(board[d].relays))]
    BY <1>1, LinkFacts DEF Report, Inv, Links
  <1>5. UNCHANGED <<up, reboots>> /\ board' \in [Devices -> Boards]
    BY BoardFacts DEF Report, Inv
  <1>6. link[k].toBoard \in Seq(Lines) BY <1>1, LinkFacts DEF Inv
  <1> HIDE DEF k
  <1> QED BY <1>1, <1>3, <1>4, <1>5, <1>6, StreamsChangeInv

LEMMA ExecuteV1Inv ==
  ASSUME Inv, OthersUnchanged, NEW d \in Devices, ExecuteV1(d)
  PROVE  Inv'
  <1> DEFINE k == board[d].conn  line == Head(link[k].toBoard)
  <1>1. k \in Conns /\ link[k].toBoard # << >> /\ UNCHANGED <<up, reboots>>
    BY BoardFacts DEF ExecuteV1, Inv
  <1>2. /\ line \in Lines /\ Tail(link[k].toBoard) \in Seq(Lines)
        /\ link[k].toGw \in Seq(Frames)
    BY <1>1, LinkFacts, HeadTailProperties DEF Inv
  <1>3. CASE /\ board' = [board EXCEPT ![d].authed = TRUE]
             /\ link' = [link EXCEPT ![k].toBoard = Tail(@)]
    <2>1. board' \in [Devices -> Boards] BY <1>3, BoardFacts DEF Boards, Inv
    <2>2. link' = [link EXCEPT ![k].toBoard = Tail(link[k].toBoard), ![k].toGw = link[k].toGw]
      BY <1>1, <1>3, LinkFacts DEF Inv, Links
    <2> HIDE DEF k
    <2> QED BY <1>1, <1>2, <2>1, <2>2, StreamsChangeInv
  <1>4. ASSUME line.verb = "CMD", NEW ok \in BOOLEAN,
               board' = [board EXCEPT ![d].relays = IF ok THEN Switched(@, line.set) ELSE @],
               link' = [link EXCEPT ![k].toBoard = Tail(@),
                                    ![k].toGw = Append(@, AckFrame(ok, line.id))]
        PROVE  Inv'
    <2>1. line.set \in Settings /\ line.id \in Commands BY <1>2, <1>4 DEF Lines
    <2>2. Switched(board[d].relays, line.set) \in RelayStates
      BY <2>1, BoardFacts, SwitchedType DEF Boards, Inv
    <2>3. board' \in [Devices -> Boards] BY <1>4, <2>2, BoardFacts DEF Boards, Inv
    <2>4. AckFrame(ok, line.id) \in Frames BY <1>4, <2>1, FrameTypes
    <2>5. Append(link[k].toGw, AckFrame(ok, line.id)) \in Seq(Frames)
      BY <1>2, <2>4, AppendProperties
    <2>6. link' = [link EXCEPT ![k].toBoard = Tail(link[k].toBoard),
                               ![k].toGw = Append(link[k].toGw, AckFrame(ok, line.id))]
      BY <1>1, <1>4, LinkFacts DEF Inv, Links
    <2> HIDE DEF k, line
    <2> QED BY <1>1, <1>2, <2>3, <2>5, <2>6, StreamsChangeInv
  <1> QED BY <1>3, <1>4 DEF ExecuteV1

---------------------------------------------------------------------------
(* The gateway, up to the open transaction. *)

(* A gateway step that opens a transaction leaves the tables, the web and  *)
(* the boards alone.                                                       *)
GatewayOnly == UNCHANGED <<storeVars, webVars, board, up, reboots>>

(* The links keep their devices and no connection appears. *)
SameLinks == \A k \in Conns : /\ link'[k].device = link[k].device
                              /\ (link'[k].gw = "none") <=> (link[k].gw = "none")

LEMMA GatewayOnlyInv ==
  ASSUME Inv, GatewayOnly, link' \in [Conns -> Links], SameLinks, GatewayTypeOK',
         \A d \in Devices : registered'[d] # registered[d] /\ registered'[d] # NoConn =>
             Used(registered'[d]) /\ link[registered'[d]].device = d,
         GatewayKnown', ConnectionsInv'
  PROVE  Inv'
  <1> USE DEF Inv, GatewayOnly, storeVars, webVars
  <1>1. TypeOK' BY DEF TypeOK, StoreTypeOK, WebTypeOK, BoardTypeOK
  <1>2. RowsKnown' /\ WebKnown' BY DEF RowsKnown, WebKnown, OfRows, Row
  <1>3. \A k : Used(k)' <=> Used(k) BY DEF Used, SameLinks
  <1>4. LinksKnown'
    <2>1. ASSUME NEW k \in Conns, Used(k)' PROVE link'[k].device \in Devices
      BY <1>3, <2>1 DEF LinksKnown, SameLinks
    <2>2. ASSUME NEW d \in Devices, registered'[d] # NoConn
          PROVE  Used(registered[d])' /\ link'[registered'[d]].device = d
      <3> DEFINE k == registered'[d]
      <3>1. Used(k) /\ link[k].device = d BY <2>2 DEF LinksKnown
      <3>2. k \in Conns /\ link'[k].gw # "none" /\ link'[k].device = d
        BY <3>1 DEF SameLinks, Used
      <3> QED BY <3>2 DEF Used
    <2> QED BY <2>1, <2>2 DEF LinksKnown
  <1> QED BY <1>1, <1>2, <1>4

(* A transaction record that is typed, of rows and on a used connection.   *)
LEMMA GatewayFacts ==
  ASSUME Inv
  PROVE  /\ registered \in [Devices -> Conns \cup {NoConn}]
         /\ steps \in [Commands -> Seq(Lines)]
         /\ follow \in [Devices -> Lines \cup {None}]
         /\ outbound \in SUBSET Commands /\ retry \in Commands \cup {None}
         /\ gtx \in GwTxs /\ dead \in BOOLEAN /\ crashes \in Nat
         /\ \A k \in Conns : Used(k) => link[k].device \in Devices
         /\ \A k \in Conns : link[k].gw = "open" => registered[link[k].device] = k
  BY DEF Inv, TypeOK, GatewayTypeOK, LinksKnown, ConnectionsInv, OpenIsRegistered

LEMMA ConsumedFacts ==
  ASSUME TypeOK, NEW k \in Conns, link[k].toGw # << >>
  PROVE  /\ Head(link[k].toGw) \in Frames
         /\ Consumed(k) \in [Conns -> Links]
         /\ \A i \in Conns : /\ Consumed(k)[i].device = link[i].device
                             /\ Consumed(k)[i].gw = link[i].gw
                             /\ Consumed(k)[i].peer = link[i].peer
                             /\ Consumed(k)[i].toBoard = link[i].toBoard
  <1>1. Head(link[k].toGw) \in Frames /\ Tail(link[k].toGw) \in Seq(Frames)
    BY LinkFacts, HeadTailProperties
  <1>2. Consumed(k) = [link EXCEPT ![k] = [link[k] EXCEPT !.toGw = Tail(link[k].toGw)]]
    BY LinkFacts DEF Consumed
  <1>3. [link[k] EXCEPT !.toGw = Tail(link[k].toGw)] \in Links
    BY <1>1, LinkFacts DEF Links
  <1> QED BY <1>1, <1>2, <1>3, LinkFacts DEF Links

LEMMA IdleGwType == IdleGw \in GwTxs /\ IdleGw.op = "idle"
  BY WritesTypes DEF IdleGw, GwTxs, GwOps

LEMMA GwHelloInv ==
  ASSUME Inv, NEW k \in Conns, GwHello(k)
  PROVE  Inv'
  <1> DEFINE d == link[k].device  old == registered[d]
  <1>1. Used(k) /\ d \in Devices /\ ~(link[k].gw = "open") /\ gtx.op = "idle"
    BY GatewayFacts DEF GwHello, GwIdle, Used
  <1>2. GatewayOnly /\ UNCHANGED <<steps, follow, outbound, retry, dead, crashes>>
    BY DEF GwHello, GatewayOnly
  <1>3. registered' = [registered EXCEPT ![d] = k] BY DEF GwHello
  <1>4. gtx' = [IdleGw EXCEPT !.op = "hello", !.conn = k] BY DEF GwHello
  <1>5. gtx' \in GwTxs /\ gtx'.op = "hello" /\ gtx'.conn = k /\ gtx'.writes = NoWrites
    BY <1>4, WritesTypes DEF IdleGw, GwTxs, GwOps
  <1>6. /\ Consumed(k) \in [Conns -> Links]
        /\ \A i \in Conns : /\ Consumed(k)[i].device = link[i].device
                            /\ Consumed(k)[i].gw = link[i].gw
    BY ConsumedFacts DEF GwHello, Inv
  <1>7. link' = OldCloses(k, old) BY DEF GwHello
  <1>8. \A i \in Conns : link'[i] = IF i = old /\ i # k THEN [link[i] EXCEPT !.gw = "closing"]
                                    ELSE Consumed(k)[i]
    BY <1>7 DEF OldCloses
  <1>9. \A i \in Conns : [link[i] EXCEPT !.gw = "closing"] \in Links
    BY LinkFacts DEF Links, Inv
  <1>10. link' \in [Conns -> Links] BY <1>6, <1>7, <1>9 DEF OldCloses
  <1>11. old # NoConn => Used(old) BY <1>1 DEF Inv, LinksKnown
  <1>12. \A i \in Conns : /\ link'[i].device = link[i].device
                          /\ i = old /\ i # k => link'[i].gw = "closing"
                          /\ ~(i = old /\ i # k) => link'[i].gw = link[i].gw
    BY ZenonT(60), <1>6, <1>8, LinkFacts DEF Links, Inv
  <1>13. SameLinks
    BY <1>11, <1>12 DEF SameLinks, Used, NoConn, Conns
  <1> HIDE DEF d, old
  <1>14. GatewayTypeOK' BY <1>1, <1>2, <1>3, <1>5, GatewayFacts DEF GatewayTypeOK
  <1>15. GatewayKnown'
    BY <1>1, <1>2, <1>5, <1>13, PassesAreOfRows
    DEF GatewayKnown, GatewayOnly, Inv, OfRows, Row, Used, storeVars, SameLinks
  <1>16. ConnectionsInv'
    <2>1. ASSUME NEW i \in Conns, link'[i].gw = "open"
          PROVE  registered'[link'[i].device] = i
      <3>1. link[i].gw = "open" /\ i # old /\ link'[i].device = link[i].device
        BY <1>1, <1>12, <2>1
      <3>2. registered[link[i].device] = i BY <3>1, GatewayFacts
      <3>3. link[i].device # d BY <3>1, <3>2 DEF old
      <3> QED BY <1>3, <3>1, <3>2, <3>3, GatewayFacts
    <2>2. link'[k].device = d BY <1>12 DEF d
    <2>3. registered'[d] = k BY <1>1, <1>3, GatewayFacts
    <2>4. ASSUME NEW x \in Devices, registered'[x] # NoConn
          PROVE  Greeting(x)' \/ dev'[x].online \/ dev'[x].deleted
      <3>1. CASE x = d BY <1>5, <2>2, <3>1 DEF Greeting
      <3>2. CASE x # d
        BY <1>1, <1>2, <1>3, <2>4, <3>2, GatewayFacts
        DEF Inv, ConnectionsInv, Greeting, GatewayOnly, storeVars
      <3> QED BY <3>1, <3>2
    <2> QED BY <1>5, <2>1, <2>2, <2>3, <2>4 DEF ConnectionsInv, OpenIsRegistered
  <1>17. \A x \in Devices : registered'[x] # registered[x] =>
             registered'[x] = k /\ x = d
    BY <1>1, <1>3, GatewayFacts
  <1> QED BY <1>1, <1>2, <1>10, <1>13, <1>14, <1>15, <1>16, <1>17, GatewayOnlyInv DEF d

(* Any other step that begins something: it registers nobody and opens no  *)
(* connection.                                                             *)
LEMMA ServingInv ==
  ASSUME Inv, GatewayOnly, gtx.op = "idle", registered' = registered,
         link' \in [Conns -> Links], SameLinks,
         \A k \in Conns : link'[k].gw = "open" => link[k].gw = "open",
         gtx' \in GwTxs, gtx'.op \notin {"hello", "bye"}, OfRows(gtx'.writes),
         gtx'.op \in {"report", "answer", "send"} => Used(gtx'.conn),
         gtx'.op \in {"send", "requeue"} => gtx'.cmd \in Commands /\ Row(gtx'.cmd),
         gtx'.op = "expire" => \A c \in gtx'.seen : Row(c),
         steps' \in [Commands -> Seq(Lines)], follow' \in [Devices -> Lines \cup {None}],
         outbound' \subseteq outbound, retry' \in {retry, None},
         UNCHANGED <<dead, crashes>>
  PROVE  Inv'
  <1>1. GatewayTypeOK' BY GatewayFacts DEF GatewayTypeOK
  <1>2. cmd' = cmd /\ dev' = dev BY DEF GatewayOnly, storeVars
  <1>3. OfRows(gtx.writes)' BY <1>2 DEF OfRows, Row
  <1>4. gtx'.op \in {"hello", "report", "answer", "send", "bye"} => Used(gtx.conn)'
    BY DEF SameLinks, Used
  <1>5. gtx'.op \in {"send", "requeue"} => gtx'.cmd \in Commands /\ Row(gtx.cmd)'
    BY <1>2 DEF Row
  <1>6. /\ gtx'.op = "expire" => \A c \in gtx'.seen : Row(c)'
        /\ \A c \in outbound' : Row(c)'
        /\ retry' # None => Row(retry)'
    BY <1>2 DEF Row, Inv, GatewayKnown
  <1>7. GatewayKnown' BY <1>3, <1>4, <1>5, <1>6 DEF GatewayKnown
  <1>8. ConnectionsInv'
    <2>1. OpenIsRegistered' BY GatewayFacts DEF OpenIsRegistered, SameLinks
    <2>2. ASSUME NEW d \in Devices, registered'[d] # NoConn
          PROVE  dev'[d].online \/ dev'[d].deleted
      BY <1>2, <2>2 DEF Inv, ConnectionsInv, Greeting
    <2> QED BY <2>1, <2>2 DEF ConnectionsInv
  <1> QED BY <1>1, <1>7, <1>8, GatewayOnlyInv

(* A frame was taken from a connection whose handler serves a device. *)
LEMMA FrameFacts ==
  ASSUME Inv, NEW k \in Conns, link[k].gw \in {"open", "closing"}, link[k].toGw # << >>
  PROVE  /\ Used(k) /\ link[k].device \in Devices /\ Head(link[k].toGw) \in Frames
         /\ Consumed(k) \in [Conns -> Links]
         /\ link' = Consumed(k) =>
                SameLinks /\ \A i \in Conns : link'[i].gw = "open" => link[i].gw = "open"
  <1>1. Used(k) BY DEF Used
  <1> QED BY <1>1, GatewayFacts, ConsumedFacts DEF SameLinks, Inv

LEMMA GwRejectInv ==
  ASSUME Inv, NEW k \in Conns, GwReject(k)
  PROVE  Inv'
  <1>1. << >> \in Seq(Frames) OBVIOUS
  <1>2. /\ link' \in [Conns -> Links] /\ SameLinks
        /\ \A i \in Conns : link'[i].gw = "open" => link[i].gw = "open"
    <2> DEFINE row == [link[k] EXCEPT !.gw = "closed", !.toGw = << >>]
    <2>1. link \in [Conns -> Links] /\ link[k] \in Links
      BY LinkFacts DEF Inv
    <2>2. row \in Links /\ row.device = link[k].device /\ row.gw = "closed"
      BY <1>1, <2>1 DEF Links
    <2>3. link' = [link EXCEPT ![k] = row] /\ link[k].gw = "auth"
      BY <2>1 DEF GwReject
    <2> HIDE DEF row
    <2>4. link' \in [Conns -> Links] /\ link'[k] = row
          /\ \A i \in Conns \ {k} : link'[i] = link[i]
      BY <2>1, <2>2, <2>3
    <2> QED BY <2>2, <2>3, <2>4 DEF SameLinks
  <1>3. gtx.op = "idle" /\ gtx' = gtx /\ GatewayOnly
    BY DEF GwReject, GwIdle, GatewayOnly, gatewayVars
  <1>4. OfRows(gtx'.writes) BY <1>3 DEF Inv, GatewayKnown
  <1> QED BY <1>2, <1>3, <1>4, GatewayFacts, ServingInv DEF GwReject, gatewayVars, memory

LEMMA GwReportInv ==
  ASSUME Inv, NEW k \in Conns, GwReport(k)
  PROVE  Inv'
  <1> DEFINE d == link[k].device  frame == Head(link[k].toGw)
             ws == gtx'.writes
  <1>1. /\ Used(k) /\ d \in Devices /\ frame \in Frames
        /\ link' \in [Conns -> Links] /\ SameLinks
        /\ \A i \in Conns : link'[i].gw = "open" => link[i].gw = "open"
    BY FrameFacts DEF GwReport
  <1>2. frame.relays \in RelayStates \cup {None} BY <1>1 DEF Frames
  <1>3. PICK w \in [Commands -> Writes], seen \in SUBSET Commands :
            /\ OfRows(w)
            /\ gtx' = [IdleGw EXCEPT !.op = "report", !.conn = k, !.relays = frame.relays,
                                     !.writes = w, !.seen = seen]
    BY WritesTypes, PassesAreOfRows DEF GwReport
  <1> HIDE DEF frame
  <1>4. gtx' \in GwTxs /\ gtx'.op = "report" /\ gtx'.conn = k /\ gtx'.writes = w
    BY <1>1, <1>2, <1>3, WritesTypes DEF IdleGw, GwTxs, GwOps, Used
  <1>5. steps' \in [Commands -> Seq(Lines)] BY GatewayFacts DEF GwReport
  <1>6. follow' \in [Devices -> Lines \cup {None}] BY GatewayFacts DEF GwReport
  <1>7. gtx.op = "idle" /\ GatewayOnly BY DEF GwReport, GwIdle, GatewayOnly
  <1> HIDE DEF d
  <1> QED BY <1>1, <1>3, <1>4, <1>5, <1>6, <1>7, ServingInv DEF GwReport

LEMMA GwNextStepInv ==
  ASSUME Inv, NEW k \in Conns, GwNextStep(k)
  PROVE  Inv'
  <1> DEFINE d == link[k].device
  <1>1. /\ Used(k) /\ d \in Devices
        /\ link' \in [Conns -> Links] /\ SameLinks
        /\ \A i \in Conns : link'[i].gw = "open" => link[i].gw = "open"
    BY FrameFacts DEF GwNextStep
  <1>2. PICK c \in Latest(d) : /\ steps[c] # << >>
                               /\ steps' = [steps EXCEPT ![c] = Tail(@)]
                               /\ follow' = [follow EXCEPT ![d] = Head(steps[c])]
    BY DEF GwNextStep
  <1>3. c \in Commands BY <1>2 DEF Latest
  <1>4. Head(steps[c]) \in Lines /\ Tail(steps[c]) \in Seq(Lines)
    BY <1>2, <1>3, GatewayFacts, HeadTailProperties
  <1>5. /\ steps' \in [Commands -> Seq(Lines)]
        /\ follow' \in [Devices -> Lines \cup {None}]
    BY <1>2, <1>3, <1>4, GatewayFacts
  <1>6. gtx.op = "idle" /\ gtx' = gtx /\ GatewayOnly
    BY DEF GwNextStep, GwIdle, GatewayOnly
  <1>7. OfRows(gtx'.writes) BY <1>6 DEF Inv, GatewayKnown
  <1> HIDE DEF d
  <1> QED BY <1>1, <1>5, <1>6, <1>7, GatewayFacts, ServingInv DEF GwNextStep

LEMMA AckedType == \A c, success, rs : Acked(c, success, rs) \in Writes
  BY WriteTypes DEF Acked, Writes, Statuses

LEMMA GwAnswerInv ==
  ASSUME Inv, NEW k \in Conns, GwAnswer(k)
  PROVE  Inv'
  <1> DEFINE d == link[k].device  frame == Head(link[k].toGw)
             success == frame.verb \in {"OK", "ACK"}
  <1>1. /\ Used(k) /\ d \in Devices
        /\ link' \in [Conns -> Links] /\ SameLinks
        /\ \A i \in Conns : link'[i].gw = "open" => link[i].gw = "open"
    BY FrameFacts DEF GwAnswer
  <1>2. gtx.op = "idle" /\ GatewayOnly /\ UNCHANGED <<registered, follow, outbound, retry, dead, crashes>>
    BY DEF GwAnswer, GwIdle, GatewayOnly
  <1>3. CASE UNCHANGED <<steps, gtx>>
    <2>1. OfRows(gtx'.writes) BY <1>3 DEF Inv, GatewayKnown
    <2> HIDE DEF d, frame
    <2> QED BY <1>1, <1>2, <1>3, <2>1, GatewayFacts, ServingInv
  <1>4. ASSUME NEW c \in Answered(d, frame),
               steps' = [steps EXCEPT ![c] = << >>],
               gtx' = [IdleGw EXCEPT !.op = "answer", !.conn = k, !.cmd = c,
                                     !.writes = Only(c, Acked(c, success, dev[d].actual))]
        PROVE  Inv'
    <2>1. c \in Commands /\ Row(c)
      BY <1>4 DEF Answered, Latest, Row
    <2>2. PICK w \in [Commands -> Writes] :
              /\ OfRows(w)
              /\ gtx' = [IdleGw EXCEPT !.op = "answer", !.conn = k, !.cmd = c, !.writes = w]
      BY <1>4, <2>1, WritesTypes, PassesAreOfRows, AckedType
    <2>3. gtx' \in GwTxs /\ gtx'.op = "answer" /\ gtx'.conn = k /\ gtx'.writes = w
      BY <2>1, <2>2, WritesTypes DEF IdleGw, GwTxs, GwOps
    <2>4. steps' \in [Commands -> Seq(Lines)] BY <1>4, <2>1, GatewayFacts
    <2> HIDE DEF d, frame
    <2> QED BY <1>1, <1>2, <2>2, <2>3, <2>4, GatewayFacts, ServingInv
  <1> QED BY <1>3, <1>4 DEF GwAnswer

(* A line more to a board. *)
LEMMA SentType ==
  ASSUME Inv, NEW k \in Conns, NEW lines \in Seq(Lines)
  PROVE  Sent(k, lines) \in Seq(Lines)
  BY LinkFacts, ConcatProperties DEF Sent, Inv

LEMMA SendingFacts ==
  ASSUME Inv, NEW k \in Conns, NEW lines \in Seq(Lines),
         link' = [link EXCEPT ![k].toBoard = Sent(k, lines)]
  PROVE  /\ link' \in [Conns -> Links] /\ SameLinks
         /\ \A i \in Conns : link'[i].gw = "open" => link[i].gw = "open"
  BY LinkFacts, SentType DEF Inv, Links, SameLinks

LEMMA GwPingInv ==
  ASSUME Inv, NEW k \in Conns, GwPing(k)
  PROVE  Inv'
  <1>1. <<Line("PING")>> \in Seq(Lines) BY LineTypes
  <1>2. /\ link' \in [Conns -> Links] /\ SameLinks
        /\ \A i \in Conns : link'[i].gw = "open" => link[i].gw = "open"
    BY <1>1, SendingFacts DEF GwPing
  <1>3. gtx.op = "idle" /\ gtx' = gtx /\ GatewayOnly
    BY DEF GwPing, GwIdle, GatewayOnly, gatewayVars
  <1>4. OfRows(gtx'.writes) BY <1>3 DEF Inv, GatewayKnown
  <1> QED BY <1>2, <1>3, <1>4, GatewayFacts, ServingInv DEF GwPing, gatewayVars, memory

LEMMA GwDiagnosticGetInv ==
  ASSUME Inv, NEW d \in Devices, GwDiagnosticGet(d)
  PROVE  Inv'
  <1> DEFINE k == registered[d]
  <1>1. <<Line("GET")>> \in Seq(Lines) BY LineTypes
  <1>2. k \in Conns BY GatewayFacts DEF GwDiagnosticGet
  <1>3. link' = [link EXCEPT ![k].toBoard = Sent(k, <<Line("GET")>>)]
    BY DEF GwDiagnosticGet
  <1> HIDE DEF k
  <1>4. /\ link' \in [Conns -> Links] /\ SameLinks
        /\ \A i \in Conns : link'[i].gw = "open" => link[i].gw = "open"
    BY <1>1, <1>2, <1>3, SendingFacts
  <1>5. gtx.op = "idle" /\ gtx' = gtx /\ GatewayOnly
    BY DEF GwDiagnosticGet, DispatcherAwaits, GwIdle, GatewayOnly, gatewayVars
  <1>6. OfRows(gtx'.writes) BY <1>5 DEF Inv, GatewayKnown
  <1> QED BY <1>4, <1>5, <1>6, GatewayFacts, ServingInv DEF GwDiagnosticGet, gatewayVars, memory

(* The end of a handler: the connection it unregisters is its own, so no   *)
(* other connection loses its place.                                       *)
LEMMA GwByeInv ==
  ASSUME Inv, NEW k \in Conns, GwBye(k)
  PROVE  Inv'
  <1> DEFINE d == link[k].device
  <1>1. Used(k) /\ d \in Devices /\ gtx.op = "idle"
    BY GatewayFacts DEF GwBye, GwIdle, Used
  <1>2. GatewayOnly /\ UNCHANGED <<steps, follow, outbound, retry, dead, crashes>>
    BY DEF GwBye, GatewayOnly
  <1>3. << >> \in Seq(Frames) OBVIOUS
  <1>4. link' \in [Conns -> Links] /\ SameLinks /\ link'[k].gw = "closed"
        /\ \A i \in Conns : i # k => link'[i] = link[i]
    BY ZenonT(60), <1>1, <1>3, LinkFacts DEF GwBye, Inv, Links, SameLinks, Used
  <1>5. \/ registered' = registered /\ gtx' = gtx /\ registered[d] # k
        \/ /\ registered[d] = k /\ registered' = [registered EXCEPT ![d] = NoConn]
           /\ \/ gtx' = gtx /\ dev[d].deleted
              \/ gtx' = [IdleGw EXCEPT !.op = "bye", !.conn = k]
    BY DEF GwBye, Goodbye
  <1>6. /\ gtx' \in GwTxs /\ OfRows(gtx'.writes)
        /\ gtx'.op \in {"idle", "bye"} /\ (gtx'.op = "bye" => gtx'.conn = k)
        /\ gtx'.op = "bye" => registered' = [registered EXCEPT ![d] = NoConn]
    <2>1. CASE gtx' = gtx BY <1>1, <2>1, GatewayFacts DEF Inv, GatewayKnown
    <2>2. CASE gtx' = [IdleGw EXCEPT !.op = "bye", !.conn = k]
      BY <1>5, <2>2, <1>1, WritesTypes, PassesAreOfRows DEF IdleGw, GwTxs, GwOps
    <2> QED BY <1>5, <2>1, <2>2
  <1> HIDE DEF d
  <1>7. GatewayTypeOK' BY <1>1, <1>2, <1>5, <1>6, GatewayFacts DEF GatewayTypeOK
  <1>8. GatewayKnown'
    BY <1>1, <1>2, <1>4, <1>6
    DEF GatewayKnown, GatewayOnly, Inv, OfRows, Row, Used, storeVars, SameLinks
  <1>9. ConnectionsInv'
    <2>1. ASSUME NEW i \in Conns, link'[i].gw = "open"
          PROVE  registered'[link'[i].device] = i
      <3>1. link[i].gw = "open" /\ i # k /\ link'[i].device = link[i].device
        BY <1>4, <2>1 DEF SameLinks
      <3>2. registered[link[i].device] = i BY <3>1, GatewayFacts
      <3>3. CASE registered' = registered BY <3>1, <3>2, <3>3
      <3>4. CASE registered[d] = k /\ registered' = [registered EXCEPT ![d] = NoConn]
        <4>1. link[i].device # d BY <3>1, <3>2, <3>4
        <4> QED BY <3>1, <3>2, <3>4, <4>1, GatewayFacts
      <3> QED BY <1>5, <3>3, <3>4
    <2>2. gtx'.op = "bye" => registered'[link'[gtx'.conn].device] = NoConn
      <3>1. link'[k].device = d BY <1>4 DEF SameLinks, d
      <3> QED BY <1>1, <1>6, <3>1, GatewayFacts
    <2>3. ASSUME NEW x \in Devices, registered'[x] # NoConn
          PROVE  dev'[x].online \/ dev'[x].deleted
      <3>1. registered[x] # NoConn BY <1>1, <1>5, <2>3, GatewayFacts
      <3> QED BY <1>1, <1>2, <3>1 DEF Inv, ConnectionsInv, Greeting, GatewayOnly, storeVars
    <2> QED BY <1>6, <2>1, <2>2, <2>3 DEF ConnectionsInv, OpenIsRegistered
  <1>10. \A x \in Devices : registered'[x] # registered[x] => registered'[x] = NoConn
    BY <1>1, <1>5, GatewayFacts
  <1> QED BY <1>2, <1>4, <1>7, <1>8, <1>9, <1>10, GatewayOnlyInv

LEMMA GwScanInv ==
  ASSUME Inv, GwScan
  PROVE  Inv'
  <1>1. gtx.op = "idle" /\ GatewayOnly /\ link' = link
        /\ UNCHANGED memory /\ UNCHANGED crashes
    BY DEF GwScan, DispatcherAwaits, GwIdle, GatewayOnly, boardVars
  <1>2. link' \in [Conns -> Links] /\ SameLinks
    BY <1>1 DEF SameLinks, Inv, TypeOK, BoardTypeOK
  <1>3. Pending \subseteq Commands /\ \A c \in Pending : Row(c) BY DEF Pending, Row
  <1>4. PICK w \in [Commands -> Writes] :
            /\ OfRows(w)
            /\ gtx' = [IdleGw EXCEPT !.op = "expire", !.writes = w, !.seen = Pending]
    BY WritesTypes, PassesAreOfRows DEF GwScan
  <1> HIDE DEF Pending
  <1>5. gtx' \in GwTxs /\ gtx'.op = "expire" /\ gtx'.writes = w /\ gtx'.seen = Pending
    BY <1>3, <1>4, WritesTypes DEF IdleGw, GwTxs, GwOps
  <1> QED BY <1>1, <1>2, <1>3, <1>4, <1>5, GatewayFacts, ServingInv DEF memory

LEMMA LinesLeftType ==
  ASSUME Inv, NEW c \in Commands, Row(c)
  PROVE  LinesLeft(c) \in Seq(Lines)
  <1>1. cmd[c].payload \in Payloads BY DEF Inv, RowsKnown
  <1>2. Tail(V2Steps(cmd[c].payload)) \in Seq(Lines)
    BY <1>1, V2StepsType, HeadTailProperties
  <1>3. steps[c] \in Seq(Lines) BY GatewayFacts
  <1> HIDE DEF V2Steps
  <1> QED BY <1>2, <1>3 DEF LinesLeft

LEMMA GwSendInv ==
  ASSUME Inv, NEW c \in Commands, GwSend(c)
  PROVE  Inv'
  <1> DEFINE k == registered[cmd[c].device]
  <1>1. gtx.op = "idle" /\ GatewayOnly /\ link' = link
        /\ UNCHANGED <<registered, follow, retry, dead, crashes>>
        /\ outbound' = outbound \ {c} /\ c \in outbound
    BY DEF GwSend, DispatcherAwaits, GwIdle, GatewayOnly, boardVars
  <1>2. link' \in [Conns -> Links] /\ SameLinks
    BY <1>1 DEF SameLinks, Inv, TypeOK, BoardTypeOK
  <1>3. Row(c) BY <1>1 DEF Inv, GatewayKnown
  <1>4. CASE UNCHANGED <<steps, gtx>>
    <2>1. OfRows(gtx'.writes) BY <1>4 DEF Inv, GatewayKnown
    <2> QED BY <1>1, <1>2, <1>4, <2>1, GatewayFacts, ServingInv
  <1>5. CASE /\ Sendable(c) /\ steps' = [steps EXCEPT ![c] = LinesLeft(c)]
             /\ gtx' = [IdleGw EXCEPT !.op = "send", !.conn = k, !.cmd = c,
                                      !.writes = Only(c, Becomes("sent"))]
    <2>1. "sent" \in Statuses BY DEF Statuses
    <2>2. PICK w \in [Commands -> Writes] :
              /\ OfRows(w)
              /\ gtx' = [IdleGw EXCEPT !.op = "send", !.conn = k, !.cmd = c, !.writes = w]
      BY <1>3, <1>5, <2>1, WritesTypes, WriteTypes, PassesAreOfRows
    <2>3. cmd[c].device \in Devices BY <1>3 DEF Inv, RowsKnown
    <2>4. k \in Conns /\ Used(k) BY <1>5, <2>3, GatewayFacts DEF Sendable, Used
    <2>5. steps' \in [Commands -> Seq(Lines)] BY <1>3, <1>5, LinesLeftType, GatewayFacts
    <2> HIDE DEF k
    <2>6. gtx' \in GwTxs /\ gtx'.op = "send" /\ gtx'.conn = k /\ gtx'.cmd = c
          /\ gtx'.writes = w
      BY <2>2, <2>4, WritesTypes DEF IdleGw, GwTxs, GwOps
    <2> QED BY <1>1, <1>2, <1>3, <2>2, <2>4, <2>5, <2>6, GatewayFacts, ServingInv
  <1> QED BY <1>4, <1>5 DEF GwSend

LEMMA GwRequeueInv ==
  ASSUME Inv, GwRequeue
  PROVE  Inv'
  <1>1. gtx.op = "idle" /\ GatewayOnly /\ link' = link
        /\ UNCHANGED <<registered, follow, outbound, dead, crashes>>
        /\ retry # None
    BY DEF GwRequeue, GwIdle, GatewayOnly, boardVars
  <1>2. link' \in [Conns -> Links] /\ SameLinks
    BY <1>1 DEF SameLinks, Inv, TypeOK, BoardTypeOK
  <1>3. retry \in Commands /\ Row(retry) BY <1>1, GatewayFacts DEF Inv, GatewayKnown
  <1>4. steps' \in [Commands -> Seq(Lines)] BY <1>3, GatewayFacts DEF GwRequeue
  <1>5. CASE retry' = None /\ UNCHANGED gtx
    <2>1. OfRows(gtx'.writes) BY <1>5 DEF Inv, GatewayKnown
    <2> QED BY <1>1, <1>2, <1>4, <1>5, <2>1, GatewayFacts, ServingInv
  <1>6. CASE /\ UNCHANGED retry
             /\ gtx' = [IdleGw EXCEPT !.op = "requeue", !.cmd = retry,
                                      !.writes = Only(retry, Becomes("pending"))]
    <2>1. "pending" \in Statuses BY DEF Statuses
    <2>2. PICK w \in [Commands -> Writes] :
              /\ OfRows(w)
              /\ gtx' = [IdleGw EXCEPT !.op = "requeue", !.cmd = retry, !.writes = w]
      BY <1>3, <1>6, <2>1, WritesTypes, WriteTypes, PassesAreOfRows
    <2>3. gtx' \in GwTxs /\ gtx'.op = "requeue" /\ gtx'.cmd = retry /\ gtx'.writes = w
      BY <1>3, <2>2, WritesTypes DEF IdleGw, GwTxs, GwOps
    <2> QED BY <1>1, <1>2, <1>3, <1>4, <1>6, <2>2, <2>3, GatewayFacts, ServingInv
  <1> QED BY <1>5, <1>6 DEF GwRequeue

---------------------------------------------------------------------------
(* The gateway's commits. *)

(* What the commit of any transaction keeps: rows stay rows, only a        *)
(* registered connection opens, and a device with one stays shown.         *)
Shown(d) == dev[d].online \/ dev[d].deleted

LEMMA CommittedInv ==
  ASSUME Inv, UNCHANGED <<webVars, board, up, reboots, crashes, registered, steps>>,
         cmd' \in [Commands -> CommandRows], RowsKnown',
         \A c \in Commands : Row(c) => Row(c)',
         dev' \in [Devices -> DeviceRows],
         \A d \in Devices : registered[d] # NoConn /\ (Greeting(d) \/ Shown(d)) => Shown(d)',
         link' \in [Conns -> Links], SameLinks,
         \A k \in Conns : link'[k].gw = "open" => registered[link[k].device] = k,
         follow' \in [Devices -> Lines \cup {None}],
         outbound' \in SUBSET Commands, \A c \in outbound' : Row(c),
         retry' \in Commands \cup {None}, retry' # None => Row(retry'),
         dead' \in BOOLEAN, gtx' = IdleGw
  PROVE  Inv'
  <1>1. GatewayTypeOK' BY IdleGwType, GatewayFacts DEF GatewayTypeOK
  <1>2. TypeOK'
    BY <1>1 DEF Inv, TypeOK, StoreTypeOK, WebTypeOK, BoardTypeOK, webVars
  <1>3. \A k : Used(k)' <=> Used(k) BY DEF Used, SameLinks
  <1>4. LinksKnown'
    <2>1. ASSUME NEW k \in Conns, Used(k)' PROVE link'[k].device \in Devices
      BY <1>3, <2>1, GatewayFacts DEF SameLinks
    <2>2. ASSUME NEW d \in Devices, registered'[d] # NoConn
          PROVE  Used(registered[d])' /\ link'[registered'[d]].device = d
      BY <1>3, <2>2 DEF Inv, LinksKnown, Used, SameLinks
    <2> QED BY <2>1, <2>2 DEF LinksKnown
  <1>5. WebKnown'
    BY DEF Inv, TypeOK, WebTypeOK, WebKnown, OfRows, webVars
  <1>6. GatewayKnown'
    <2>1. gtx'.op = "idle" /\ gtx'.writes = NoWrites BY DEF IdleGw
    <2>2. OfRows(gtx.writes)' BY <2>1 DEF OfRows, NoWrites
    <2>3. (\A c \in outbound' : Row(c)') /\ (retry' # None => Row(retry)')
      <3>1. retry' # None => retry' \in Commands /\ Row(retry)' BY DEF Row
      <3> QED BY <3>1
    <2> QED BY <2>1, <2>2, <2>3 DEF GatewayKnown
  <1>7. ConnectionsInv'
    <2>1. OpenIsRegistered' BY DEF OpenIsRegistered, SameLinks
    <2>2. gtx'.op = "idle" BY IdleGwType
    <2>3. \A d \in Devices : registered'[d] # NoConn => Shown(d)'
      BY DEF Inv, ConnectionsInv, Shown
    <2> QED BY <2>1, <2>2, <2>3 DEF ConnectionsInv, Shown
  <1> QED BY <1>2, <1>4, <1>5, <1>6, <1>7 DEF Inv

(* The transaction in use, typed and about known things. *)
LEMMA TxFacts ==
  ASSUME Inv
  PROVE  /\ gtx.writes \in [Commands -> Writes] /\ OfRows(gtx.writes)
         /\ gtx.seen \in SUBSET Commands
         /\ gtx.relays \in RelayStates \cup {None}
         /\ gtx.op \in {"hello", "report", "answer", "send", "bye"} =>
                gtx.conn \in Conns /\ Used(gtx.conn) /\ TxDevice \in Devices
         /\ cmd \in [Commands -> CommandRows] /\ dev \in [Devices -> DeviceRows]
         /\ RowsKnown
  <1>1. gtx \in GwTxs /\ (gtx.op \in {"hello", "report", "answer", "send", "bye"} => Used(gtx.conn))
    BY GatewayFacts DEF Inv, GatewayKnown
  <1> QED
    BY <1>1, GatewayFacts
    DEF Inv, GatewayKnown, GwTxs, Used, TxDevice, TypeOK, StoreTypeOK

(* What a transaction writes to the device's row. *)
LEMMA DeviceBecomesFacts ==
  ASSUME Inv, TxDevice \in Devices, NEW online \in BOOLEAN,
         NEW actual \in RelayStates \cup {None}, DeviceBecomes(online, actual)
  PROVE  /\ dev' \in [Devices -> DeviceRows]
         /\ \A d \in Devices : d # TxDevice => dev'[d] = dev[d]
         /\ online \/ dev[TxDevice].deleted =>
                dev'[TxDevice].online \/ dev'[TxDevice].deleted
  <1> DEFINE t == TxDevice
  <1>1. t \in Devices /\ dev \in [Devices -> DeviceRows] BY TxFacts
  <1>2. CASE dev[t].deleted BY <1>1, <1>2 DEF DeviceBecomes
  <1>3. CASE ~dev[t].deleted
    <2>1. dev' = [dev EXCEPT ![t].online = online, ![t].actual = actual]
      BY <1>3 DEF DeviceBecomes
    <2> HIDE DEF t
    <2>2. dev' = [dev EXCEPT ![t] = [dev[t] EXCEPT !.online = online, !.actual = actual]]
      BY <1>1, <2>1 DEF DeviceRows
    <2>3. [dev[t] EXCEPT !.online = online, !.actual = actual] \in DeviceRows
          /\ [dev[t] EXCEPT !.online = online, !.actual = actual].online = online
      BY <1>1 DEF DeviceRows
    <2>4. dev' \in [Devices -> DeviceRows] /\ dev'[t].online = online
          /\ \A d \in Devices : d # t => dev'[d] = dev[d]
      BY <1>1, <2>2, <2>3
    <2>5. t = TxDevice BY DEF t
    <2> QED BY <1>3, <2>4, <2>5
  <1> QED BY <1>2, <1>3

(* A commit that leaves the device's row and the connections alone. *)
LEMMA RowsOnlyInv ==
  ASSUME Inv, cmd' = Updated(gtx.writes), dev' = dev, link' = link,
         UNCHANGED <<webVars, board, up, reboots, crashes, registered, steps, follow, dead>>,
         gtx.op \notin {"idle", "hello"}, gtx' = IdleGw,
         outbound' = outbound \/ (outbound' = gtx.seen /\ \A c \in gtx.seen : Row(c)),
         retry' \in {retry, None}
  PROVE  Inv'
  <1>1. /\ cmd' \in [Commands -> CommandRows] /\ RowsKnown'
        /\ \A c \in Commands : Row(c) => Row(c)'
    BY TxFacts, UpdateKeepsRows
  <1>2. link' \in [Conns -> Links] /\ SameLinks
    BY DEF SameLinks, Inv, TypeOK, BoardTypeOK
  <1>3. \A d \in Devices : registered[d] # NoConn /\ (Greeting(d) \/ Shown(d)) => Shown(d)'
    BY DEF Greeting, Shown
  <1>4. outbound' \in SUBSET Commands /\ \A c \in outbound' : Row(c)
    BY TxFacts, GatewayFacts DEF Inv, GatewayKnown
  <1>5. retry' \in Commands \cup {None} /\ (retry' # None => Row(retry'))
    BY GatewayFacts DEF Inv, GatewayKnown
  <1>6. dev' \in [Devices -> DeviceRows] /\ dead' \in BOOLEAN
        /\ follow' \in [Devices -> Lines \cup {None}]
    BY TxFacts, GatewayFacts
  <1>7. \A k \in Conns : link'[k].gw = "open" => registered[link[k].device] = k
    BY GatewayFacts
  <1> QED BY <1>1, <1>2, <1>3, <1>4, <1>5, <1>6, <1>7, CommittedInv

WebAndBoard == UNCHANGED <<webVars, board, up, reboots, crashes>>

LEMMA CommitHelloInv ==
  ASSUME Inv, CommitHello, WebAndBoard, gtx' = IdleGw
  PROVE  Inv'
  <1> DEFINE k == gtx.conn  t == TxDevice
  <1>1. /\ k \in Conns /\ Used(k) /\ t \in Devices /\ link[k].device = t
        /\ registered[t] = k
    BY TxFacts DEF CommitHello, TxDevice, Inv, ConnectionsInv
  <1>2. /\ cmd' = cmd
        /\ UNCHANGED <<registered, steps, follow, outbound, retry, dead>>
    BY DEF CommitHello, memory
  <1>3. /\ cmd' \in [Commands -> CommandRows] /\ RowsKnown'
        /\ \A c \in Commands : Row(c) => Row(c)'
    BY <1>2, TxFacts DEF RowsKnown, Row
  <1>4. dev[t].actual \in RelayStates \cup {None} BY <1>1, TxFacts DEF DeviceRows
  <1>5. /\ dev' \in [Devices -> DeviceRows]
        /\ \A d \in Devices : d # t => dev'[d] = dev[d]
        /\ dev'[t].online \/ dev'[t].deleted
    BY <1>1, <1>4, DeviceBecomesFacts DEF CommitHello
  <1>6. PICK greeting \in Seq(Lines) :
            link' = [link EXCEPT ![k].gw = "open", ![k].toBoard = Sent(k, greeting)]
    <2>1. Line("AUTHENTICATED") \in Lines /\ Line("GET") \in Lines BY LineTypes
    <2>2. /\ <<Line("AUTHENTICATED"), Line("GET")>> \in Seq(Lines)
          /\ <<Line("AUTHENTICATED")>> \in Seq(Lines)
      BY <2>1
    <2> QED BY <2>2 DEF CommitHello
  <1> HIDE DEF k, t
  <1>7. /\ link' \in [Conns -> Links] /\ SameLinks
        /\ \A i \in Conns : link'[i].gw = "open" => i = k \/ link[i].gw = "open"
    <2>1. Sent(k, greeting) \in Seq(Lines) BY <1>1, SentType
    <2> QED BY ZenonT(60), <1>1, <1>6, <2>1, LinkFacts DEF Inv, Links, SameLinks, Used
  <1>8. \A i \in Conns : link'[i].gw = "open" => registered[link[i].device] = i
    BY <1>1, <1>7, GatewayFacts
  <1>9. \A d \in Devices : registered[d] # NoConn /\ (Greeting(d) \/ Shown(d)) => Shown(d)'
    BY <1>5 DEF Greeting, Shown, t, TxDevice
  <1>10. /\ \A c \in outbound' : Row(c)
         /\ retry' # None => Row(retry')
    BY <1>2 DEF Inv, GatewayKnown
  <1> QED BY <1>2, <1>3, <1>5, <1>7, <1>8, <1>9, <1>10, GatewayFacts, CommittedInv DEF WebAndBoard

LEMMA CommitByeInv ==
  ASSUME Inv, CommitBye, WebAndBoard, gtx' = IdleGw
  PROVE  Inv'
  <1> DEFINE t == TxDevice
  <1>1. t \in Devices /\ registered[t] = NoConn /\ gtx.op = "bye"
    BY TxFacts DEF CommitBye, TxDevice, Inv, ConnectionsInv
  <1>2. /\ cmd' = cmd /\ link' = link
        /\ UNCHANGED <<registered, steps, follow, outbound, retry, dead>>
    BY DEF CommitBye, memory
  <1>3. /\ cmd' \in [Commands -> CommandRows] /\ RowsKnown'
        /\ \A c \in Commands : Row(c) => Row(c)'
    BY <1>2, TxFacts DEF RowsKnown, Row
  <1>4. dev[t].actual \in RelayStates \cup {None} BY <1>1, TxFacts DEF DeviceRows
  <1>5. /\ dev' \in [Devices -> DeviceRows]
        /\ \A d \in Devices : d # t => dev'[d] = dev[d]
    BY <1>1, <1>4, DeviceBecomesFacts DEF CommitBye
  <1> HIDE DEF t
  <1>6. /\ link' \in [Conns -> Links] /\ SameLinks
        /\ \A k \in Conns : link'[k].gw = "open" => registered[link[k].device] = k
    BY <1>2, GatewayFacts DEF SameLinks, Inv, TypeOK, BoardTypeOK
  <1>7. \A d \in Devices : registered[d] # NoConn /\ (Greeting(d) \/ Shown(d)) => Shown(d)'
    BY <1>1, <1>5 DEF Greeting, Shown
  <1>8. /\ \A c \in outbound' : Row(c)
        /\ retry' # None => Row(retry')
    BY <1>2 DEF Inv, GatewayKnown
  <1> QED BY <1>2, <1>3, <1>5, <1>6, <1>7, <1>8, GatewayFacts, CommittedInv DEF WebAndBoard

LEMMA CommitAnswerInv ==
  ASSUME Inv, CommitAnswer, WebAndBoard, gtx' = IdleGw
  PROVE  Inv'
  BY RowsOnlyInv DEF CommitAnswer, WebAndBoard, memory

LEMMA CommitExpireInv ==
  ASSUME Inv, CommitExpire, WebAndBoard, gtx' = IdleGw
  PROVE  Inv'
  <1>1. gtx.op = "expire" /\ \A c \in gtx.seen : Row(c)
    BY DEF CommitExpire, Inv, GatewayKnown
  <1> QED BY <1>1, RowsOnlyInv DEF CommitExpire, WebAndBoard

LEMMA CommitRequeueInv ==
  ASSUME Inv, CommitRequeue, WebAndBoard, gtx' = IdleGw
  PROVE  Inv'
  BY RowsOnlyInv DEF CommitRequeue, WebAndBoard

(* A STATE becomes the device's known state, and what it decided of the    *)
(* commands is written with it.                                            *)
LEMMA CommitReportInv ==
  ASSUME Inv, CommitReport, WebAndBoard, gtx' = IdleGw
  PROVE  Inv'
  <1> DEFINE k == gtx.conn  t == TxDevice  upd == Updated(gtx.writes)
  <1>1. k \in Conns /\ Used(k) /\ t \in Devices /\ gtx.op = "report"
    BY TxFacts DEF CommitReport
  <1>2. UNCHANGED <<registered, steps, outbound, retry, dead>> BY DEF CommitReport
  <1>3. /\ cmd' \in [Commands -> CommandRows] /\ RowsKnown'
        /\ \A c \in Commands : Row(c) => Row(c)'
    <2>1. /\ upd \in [Commands -> CommandRows]
          /\ \A c \in Commands : /\ upd[c].device = cmd[c].device
                                 /\ upd[c].payload = cmd[c].payload
                                 /\ (upd[c].status # "none") <=> Row(c)
      BY TxFacts, UpdatedType, UpdatedRows
    <2>2. PICK more \in [Commands -> BOOLEAN] :
              cmd' = [c \in Commands |-> [upd[c] EXCEPT !.newer = @ \/ more[c]]]
      <3> DEFINE m == [c \in Commands |-> c \in gtx.seen /\ dev[TxDevice].proto = "1"]
      <3>1. m \in [Commands -> BOOLEAN] OBVIOUS
      <3>2. cmd' = [c \in Commands |-> [upd[c] EXCEPT !.newer = @ \/ m[c]]]
        BY DEF CommitReport
      <3> QED BY <3>1, <3>2
    <2> HIDE DEF upd
    <2>3. \A c \in Commands : /\ [upd[c] EXCEPT !.newer = @ \/ more[c]] \in CommandRows
                              /\ cmd'[c].device = upd[c].device
                              /\ cmd'[c].payload = upd[c].payload
                              /\ cmd'[c].status = upd[c].status
      BY <2>1, <2>2 DEF CommandRows
    <2>4. cmd' \in [Commands -> CommandRows] BY <2>2, <2>3
    <2>5. \A c \in Commands : Row(c)' <=> Row(c) BY <2>1, <2>3 DEF Row
    <2>6. RowsKnown' BY <2>1, <2>3, <2>5, TxFacts DEF RowsKnown
    <2> QED BY <2>4, <2>5, <2>6
  <1>4. /\ dev' \in [Devices -> DeviceRows]
        /\ \A d \in Devices : d # t => dev'[d] = dev[d]
        /\ dev'[t].online \/ dev'[t].deleted
    <2>1. PICK actual \in RelayStates \cup {None} : DeviceBecomes(TRUE, actual)
      <3>1. dev[t].actual \in RelayStates \cup {None} BY <1>1, TxFacts DEF DeviceRows
      <3> QED BY <3>1, TxFacts DEF CommitReport
    <2> QED BY <1>1, <2>1, DeviceBecomesFacts
  <1>5. \/ UNCHANGED <<follow, link>>
        \/ /\ follow' = [follow EXCEPT ![t] = None]
           /\ \E next \in Lines :
                link' = [link EXCEPT ![k].toBoard =
                            IF link[k].gw = "open" THEN Sent(k, <<next>>) ELSE @]
    BY <1>1, GatewayFacts DEF CommitReport
  <1> HIDE DEF t, k
  <1>6. follow' \in [Devices -> Lines \cup {None}] BY <1>1, <1>5, GatewayFacts
  <1>7. /\ link' \in [Conns -> Links] /\ SameLinks
        /\ \A i \in Conns : link'[i].gw = "open" => registered[link[i].device] = i
    <2>1. CASE link' = link
      BY <2>1, GatewayFacts DEF SameLinks, Inv, TypeOK, BoardTypeOK
    <2>2. ASSUME NEW next \in Lines,
                 link' = [link EXCEPT ![k].toBoard =
                            IF link[k].gw = "open" THEN Sent(k, <<next>>) ELSE @]
          PROVE  /\ link' \in [Conns -> Links] /\ SameLinks
                 /\ \A i \in Conns : link'[i].gw = "open" => link[i].gw = "open"
      <3>1. <<next>> \in Seq(Lines) OBVIOUS
      <3>2. Sent(k, <<next>>) \in Seq(Lines) BY <1>1, <3>1, SentType
      <3> QED BY ZenonT(60), <1>1, <2>2, <3>2, LinkFacts DEF Inv, Links, SameLinks
    <2> QED BY <1>5, <2>1, <2>2, GatewayFacts
  <1>8. \A d \in Devices : registered[d] # NoConn /\ (Greeting(d) \/ Shown(d)) => Shown(d)'
    BY <1>1, <1>4 DEF Greeting, Shown
  <1>9. /\ \A c \in outbound' : Row(c)
        /\ retry' # None => Row(retry')
    BY <1>2 DEF Inv, GatewayKnown
  <1> QED BY <1>2, <1>3, <1>4, <1>6, <1>7, <1>8, <1>9, GatewayFacts, CommittedInv DEF WebAndBoard

LEMMA CommitSendInv ==
  ASSUME Inv, CommitSend, WebAndBoard, gtx' = IdleGw
  PROVE  Inv'
  <1> DEFINE k == gtx.conn  c == gtx.cmd
             line == IF dev[cmd[c].device].proto = "2" THEN Head(V2Steps(cmd[c].payload))
                     ELSE CmdLine(c, cmd[c].payload)
  <1>1. /\ gtx.op = "send" /\ k \in Conns /\ Used(k) /\ c \in Commands /\ Row(c)
        /\ cmd[c].payload \in Payloads
    BY TxFacts DEF CommitSend, Inv, GatewayKnown, RowsKnown
  <1>2. UNCHANGED <<dev, registered, steps, follow, outbound, dead>> BY DEF CommitSend
  <1>3. /\ cmd' \in [Commands -> CommandRows] /\ RowsKnown'
        /\ \A x \in Commands : Row(x) => Row(x)'
    BY TxFacts, UpdateKeepsRows DEF CommitSend
  <1>4. line \in Lines
    <2>1. Head(V2Steps(cmd[c].payload)) \in Lines
      BY <1>1, V2StepsType, HeadTailProperties
    <2>2. CmdLine(c, cmd[c].payload) \in Lines BY <1>1, LineTypes, PayloadsAreSettings
    <2> QED BY <2>1, <2>2
  <1>5. \/ link' = [link EXCEPT ![k].toBoard = Sent(k, <<line>>)] /\ retry' = retry
        \/ link' = [link EXCEPT ![k].gw = "closing"] /\ retry' = c
    BY DEF CommitSend
  <1> HIDE DEF k, c, line
  <1>6. /\ link' \in [Conns -> Links] /\ SameLinks
        /\ \A i \in Conns : link'[i].gw = "open" => link[i].gw = "open"
    <2>1. CASE link' = [link EXCEPT ![k].toBoard = Sent(k, <<line>>)]
      <3>1. <<line>> \in Seq(Lines) BY <1>4
      <3> QED BY <1>1, <2>1, <3>1, SendingFacts
    <2>2. CASE link' = [link EXCEPT ![k].gw = "closing"]
      BY <1>1, <2>2, LinkFacts DEF Inv, Links, SameLinks, Used
    <2> QED BY <1>5, <2>1, <2>2
  <1>7. \A d \in Devices : registered[d] # NoConn /\ (Greeting(d) \/ Shown(d)) => Shown(d)'
    BY <1>1, <1>2 DEF Greeting, Shown
  <1>8. \A x \in outbound' : Row(x) BY <1>2 DEF Inv, GatewayKnown
  <1>9. retry' \in Commands \cup {None} /\ (retry' # None => Row(retry'))
    BY <1>1, <1>5, GatewayFacts DEF Inv, GatewayKnown
  <1>10. \A i \in Conns : link'[i].gw = "open" => registered[link[i].device] = i
    BY <1>6, GatewayFacts
  <1>11. dev' \in [Devices -> DeviceRows] BY <1>2, TxFacts
  <1> QED BY <1>2, <1>3, <1>6, <1>7, <1>8, <1>9, <1>10, <1>11, GatewayFacts, CommittedInv
       DEF WebAndBoard

LEMMA RolledBackInv ==
  ASSUME Inv, RolledBack, WebAndBoard, gtx' = IdleGw
  PROVE  Inv'
  <1> DEFINE k == gtx.conn
  <1>1. /\ gtx.op \in {"report", "answer", "requeue"}
        /\ UNCHANGED <<cmd, dev, registered, steps, follow>>
    BY DEF RolledBack
  <1>2. /\ cmd' \in [Commands -> CommandRows] /\ RowsKnown'
        /\ \A c \in Commands : Row(c) => Row(c)'
    BY <1>1, TxFacts DEF RowsKnown, Row
  <1>3. \/ outbound' = {} /\ retry' = None /\ dead' = TRUE /\ link' = link
        \/ /\ UNCHANGED <<retry, outbound, dead>> /\ k \in Conns /\ Used(k)
           /\ link' = [link EXCEPT ![k].gw = "closing", ![k].toGw = << >>]
    BY <1>1, TxFacts DEF RolledBack
  <1> HIDE DEF k
  <1>4. /\ link' \in [Conns -> Links] /\ SameLinks
        /\ \A i \in Conns : link'[i].gw = "open" => link[i].gw = "open"
    <2>1. CASE link' = link BY <2>1 DEF SameLinks, Inv, TypeOK, BoardTypeOK
    <2>2. CASE /\ k \in Conns /\ Used(k)
               /\ link' = [link EXCEPT ![k].gw = "closing", ![k].toGw = << >>]
      <3>1. << >> \in Seq(Frames) OBVIOUS
      <3> QED BY ZenonT(60), <2>2, <3>1, LinkFacts DEF Inv, Links, SameLinks, Used
    <2> QED BY <1>3, <2>1, <2>2
  <1>5. \A d \in Devices : registered[d] # NoConn /\ (Greeting(d) \/ Shown(d)) => Shown(d)'
    BY <1>1 DEF Greeting, Shown
  <1>6. /\ outbound' \in SUBSET Commands /\ \A c \in outbound' : Row(c)
        /\ retry' \in Commands \cup {None} /\ (retry' # None => Row(retry'))
        /\ dead' \in BOOLEAN
    BY <1>3, GatewayFacts DEF Inv, GatewayKnown
  <1>7. \A i \in Conns : link'[i].gw = "open" => registered[link[i].device] = i
    BY <1>4, GatewayFacts
  <1>8. dev' \in [Devices -> DeviceRows] BY <1>1, TxFacts
  <1> QED BY <1>1, <1>2, <1>4, <1>5, <1>6, <1>7, <1>8, GatewayFacts, CommittedInv
       DEF WebAndBoard

LEMMA GwCommitInv ==
  ASSUME Inv, GwCommit
  PROVE  Inv'
  <1>1. WebAndBoard /\ gtx' = IdleGw BY DEF GwCommit, WebAndBoard
  <1>2. \/ CommitHello \/ CommitReport \/ CommitAnswer \/ CommitExpire
        \/ CommitSend \/ CommitRequeue \/ CommitBye \/ RolledBack
    BY DEF GwCommit
  <1> QED
    BY <1>1, <1>2, CommitHelloInv, CommitReportInv, CommitAnswerInv, CommitExpireInv,
       CommitSendInv, CommitRequeueInv, CommitByeInv, RolledBackInv

---------------------------------------------------------------------------
(* The process and the clock. *)

LEMMA GwCrashInv ==
  ASSUME Inv, GwCrash
  PROVE  Inv'
  <1>1. /\ GwCrash /\ UNCHANGED <<cmd, dev, web, admin, board, reboots>>
        /\ registered' = [d \in Devices |-> NoConn]
        /\ gtx' = IdleGw /\ outbound' = {} /\ retry' = None
    BY DEF GwCrash, storeVars, webVars
  <1>2. << >> \in Seq(Frames) /\ << >> \in Seq(Lines) OBVIOUS
  <1>3. /\ link' \in [Conns -> Links] /\ SameLinks
        /\ \A k \in Conns : link'[k].gw # "open"
    BY <1>2, LinkFacts DEF GwCrash, Inv, Links, SameLinks
  <1>4. TypeOK'
    <2>1. crashes' \in Nat
      <3>1. crashes \in Nat /\ crashes > 0 /\ crashes' = crashes - 1
        BY GatewayFacts DEF GwCrash
      <3> QED BY <3>1
    <2>2. /\ steps' \in [Commands -> Seq(Lines)]
          /\ follow' \in [Devices -> Lines \cup {None}] /\ dead' \in BOOLEAN
      BY <1>2 DEF GwCrash
    <2>3. registered' \in [Devices -> Conns \cup {NoConn}] BY <1>1
    <2>4. GatewayTypeOK' BY <1>1, <2>1, <2>2, <2>3, IdleGwType DEF GatewayTypeOK
    <2>5. up' \in BOOLEAN BY DEF GwCrash
    <2> QED BY <1>1, <1>3, <2>4, <2>5
         DEF Inv, TypeOK, StoreTypeOK, WebTypeOK, BoardTypeOK
  <1>5. RowsKnown' /\ WebKnown'
    BY <1>1 DEF Inv, RowsKnown, WebKnown, OfRows, Row
  <1>6. LinksKnown'
    BY <1>1, <1>3 DEF Inv, LinksKnown, Used, SameLinks
  <1>7. GatewayKnown'
    <2>1. gtx'.op = "idle" /\ gtx'.writes = NoWrites BY <1>1 DEF IdleGw
    <2>2. OfRows(gtx.writes)' BY <2>1 DEF OfRows, NoWrites
    <2> QED BY <1>1, <2>1, <2>2 DEF GatewayKnown
  <1>8. ConnectionsInv'
    BY <1>1, <1>3, IdleGwType DEF ConnectionsInv, OpenIsRegistered
  <1> QED BY <1>4, <1>5, <1>6, <1>7, <1>8 DEF Inv

LEMMA GwStartInv ==
  ASSUME Inv, GwStart
  PROVE  Inv'
  <1> USE DEF GwStart, Inv, storeVars, webVars, gatewayVars, memory
  <1>1. TypeOK' BY DEF TypeOK, StoreTypeOK, WebTypeOK, BoardTypeOK, GatewayTypeOK
  <1>2. RowsKnown' /\ WebKnown' /\ LinksKnown'
    BY DEF RowsKnown, WebKnown, LinksKnown, OfRows, Row, Used
  <1>3. GatewayKnown' BY GatewayKnownKept DEF Row, TypeOK
  <1>4. ConnectionsInv' BY DEF ConnectionsInv, OpenIsRegistered, Greeting
  <1> QED BY <1>1, <1>2, <1>3, <1>4

LEMMA ClockInv ==
  ASSUME Inv, Clock
  PROVE  Inv'
  <1> USE DEF Inv
  <1>1. PICK c \in Commands : Deadline(c) BY DEF Clock
  <1>2. UNCHANGED <<web, admin, boardVars, gatewayVars, dev>>
    BY <1>1 DEF Clock, Deadline, webVars
  <1>3. cmd' = [cmd EXCEPT ![c] = [cmd[c] EXCEPT !.late = TRUE]]
    BY <1>1 DEF Deadline, TypeOK, StoreTypeOK, CommandRows
  <1>4. /\ cmd' \in [Commands -> CommandRows]
        /\ \A x \in Commands : /\ cmd'[x].status = cmd[x].status
                               /\ cmd'[x].device = cmd[x].device
                               /\ cmd'[x].payload = cmd[x].payload
    <2>1. cmd \in [Commands -> CommandRows] BY DEF TypeOK, StoreTypeOK
    <2>2. [cmd[c] EXCEPT !.late = TRUE] \in CommandRows BY <2>1 DEF CommandRows
    <2> QED BY <1>3, <2>1, <2>2 DEF CommandRows
  <1>5. \A x \in Commands : Row(x)' <=> Row(x) BY <1>4 DEF Row
  <1>6. TypeOK'
    BY <1>2, <1>4
    DEF TypeOK, StoreTypeOK, WebTypeOK, BoardTypeOK, GatewayTypeOK,
        boardVars, gatewayVars, memory
  <1>7. RowsKnown' BY <1>4, <1>5 DEF RowsKnown
  <1>8. WebKnown' BY <1>2, <1>5 DEF WebKnown, OfRows
  <1>9. LinksKnown' BY <1>2 DEF LinksKnown, Used, boardVars, gatewayVars, memory
  <1>10. GatewayKnown' BY <1>2, <1>5, GatewayKnownKept DEF TypeOK, boardVars
  <1>11. ConnectionsInv'
    BY <1>2 DEF ConnectionsInv, OpenIsRegistered, Greeting, boardVars, gatewayVars, memory
  <1> QED BY <1>6, <1>7, <1>8, <1>9, <1>10, <1>11

---------------------------------------------------------------------------
(* The invariant. *)

LEMMA InitInv == Init => Inv
  <1> SUFFICES ASSUME Init PROVE Inv OBVIOUS
  <1> USE DEF Init, StoreInit, WebInit, BoardInit, GatewayInit
  <1>1. /\ << >> \in Seq(Lines) /\ << >> \in Seq(Frames)
        /\ NoRow \in CommandRows /\ NoRow.status = "none"
    BY DEF NoRow, CommandRows
  <1>2. \A c \in Commands : cmd[c] = NoRow /\ ~Row(c) BY <1>1 DEF Row
  <1>3. StoreTypeOK
    BY <1>1 DEF StoreTypeOK, DeviceRows
  <1>4. WebTypeOK /\ \A w \in Workers : web[w] = IdleWeb
    BY WritesTypes, BudgetAssumption DEF WebTypeOK, WebTxs, IdleWeb
  <1>5. BoardTypeOK
    <2>1. NoLink \in Links BY <1>1 DEF NoLink, Links
    <2>2. [r \in Relays |-> 0] \in RelayStates BY DEF RelayStates
    <2>3. [relays |-> [r \in Relays |-> 0], conn |-> NoConn, authed |-> FALSE] \in Boards
      BY <2>2 DEF Boards
    <2> QED BY <2>1, <2>3, BudgetAssumption DEF BoardTypeOK
  <1>6. GatewayTypeOK BY <1>1, IdleGwType, BudgetAssumption DEF GatewayTypeOK
  <1>7. RowsKnown BY <1>2 DEF RowsKnown
  <1>8. WebKnown
    BY <1>4 DEF WebKnown, IdleWeb, OfRows, NoWrites
  <1>9. LinksKnown BY DEF LinksKnown, Used, NoLink
  <1>10. GatewayKnown BY DEF GatewayKnown, IdleGw, OfRows, NoWrites
  <1>11. ConnectionsInv BY IdleGwType DEF ConnectionsInv, OpenIsRegistered, NoLink
  <1> QED BY <1>3, <1>4, <1>5, <1>6, <1>7, <1>8, <1>9, <1>10, <1>11 DEF Inv, TypeOK

LEMMA WebStepInv ==
  ASSUME Inv, Web
  PROVE  Inv'
  <1>1. RestUnchanged BY DEF Web, RestUnchanged
  <1>2. CASE \E w \in Workers : SettleBegin(w)
    BY <1>1, <1>2, SettleBeginInv
  <1>3. CASE \E w \in Workers, d \in Devices, p \in Payloads : EnqueueBegin(w, d, p)
    BY <1>1, <1>3, EnqueueBeginInv
  <1>4. CASE \E w \in Workers : SettleCommit(w) BY <1>1, <1>4, SettleCommitInv
  <1>5. CASE \E w \in Workers, c \in Commands : EnqueueCommit(w, c)
    BY <1>1, <1>5, EnqueueCommitInv
  <1>6. CASE AdminRequest BY <1>1, <1>6, AdminInv DEF AdminRequest
  <1> QED BY <1>2, <1>3, <1>4, <1>5, <1>6 DEF Web, WebBegin, WebCommit

LEMMA ControllerStepInv ==
  ASSUME Inv, Controller
  PROVE  Inv'
  <1>1. OthersUnchanged BY DEF Controller, OthersUnchanged
  <1>2. PICK d \in Devices : (\E k \in Conns : Connect(d, k)) \/ BoardTurn(d) \/ BoardFailure(d)
    BY DEF Controller
  <1>3. CASE \E k \in Conns : Connect(d, k) BY <1>1, <1>3, ConnectInv
  <1>4. CASE BoardTurn(d)
    BY <1>1, <1>4, ExecuteInv, AuthenticatedInv, ReportInv, ExecuteV1Inv DEF BoardTurn
  <1>5. CASE BoardFailure(d) BY <1>1, <1>5, DropInv, RebootInv DEF BoardFailure
  <1> QED BY <1>2, <1>3, <1>4, <1>5

LEMMA GatewayStepInv ==
  ASSUME Inv, Gateway
  PROVE  Inv'
  <1>1. ASSUME NEW k \in Conns, Handler(k) PROVE Inv'
    BY <1>1, GwHelloInv, GwRejectInv, GwReportInv, GwNextStepInv, GwAnswerInv, GwByeInv,
       GwPingInv
    DEF Handler, HandlerBegins
  <1>2. CASE Dispatcher
    BY <1>2, GwScanInv, GwSendInv, GwRequeueInv, GwDiagnosticGetInv
    DEF Dispatcher, DispatcherBegins
  <1>3. CASE GwCommit \/ GwCrash \/ GwStart
    BY <1>3, GwCommitInv, GwCrashInv, GwStartInv
  <1> QED BY <1>1, <1>2, <1>3 DEF Gateway

LEMMA StutterInv ==
  ASSUME Inv, UNCHANGED vars
  PROVE  Inv'
  <1> USE DEF vars, storeVars, webVars, boardVars, gatewayVars, memory, Inv
  <1>1. TypeOK' BY DEF TypeOK, StoreTypeOK, WebTypeOK, BoardTypeOK, GatewayTypeOK
  <1>2. RowsKnown' /\ WebKnown' /\ LinksKnown'
    BY DEF RowsKnown, WebKnown, LinksKnown, OfRows, Row, Used
  <1>3. GatewayKnown' BY GatewayKnownKept DEF Row, TypeOK
  <1>4. ConnectionsInv' BY DEF ConnectionsInv, OpenIsRegistered, Greeting
  <1> QED BY <1>1, <1>2, <1>3, <1>4

(* Every step of the system keeps the invariant. *)
THEOREM Invariant == Spec => []Inv
  <1>1. Inv /\ [Next]_vars => Inv'
    BY WebStepInv, ControllerStepInv, GatewayStepInv, ClockInv, StutterInv DEF Next
  <1> QED BY InitInv, <1>1, PTL DEF Spec

(* Types: whatever the transactions interleave, rows, links, lines and     *)
(* frames are what the code expects of them.                               *)
THEOREM TypeCorrect == Spec => []TypeOK
  <1>1. Inv => TypeOK BY DEF Inv
  <1> QED BY Invariant, <1>1, PTL

(* A handler that serves a device is the one the dispatcher writes to: of  *)
(* the connections a device ever opens the gateway serves the newest only. *)
THEOREM OpenConnectionIsRegistered == Spec => []OpenIsRegistered
  <1>1. Inv => OpenIsRegistered BY DEF Inv, ConnectionsInv
  <1> QED BY Invariant, <1>1, PTL

(* A served device is shown online: a late goodbye of a replaced           *)
(* connection never hides the one that replaced it.                        *)
THEOREM ServedIsOnline == Spec => []Presence
  <1>1. ASSUME Inv PROVE Presence
    <2> SUFFICES ASSUME NEW k \in Conns, link[k].gw = "open"
                 PROVE  LET d == link[k].device
                        IN  Greeting(d) \/ dev[d].online \/ dev[d].deleted
      BY DEF Presence
    <2>1. link[k].device \in Devices BY <1>1 DEF Inv, LinksKnown, Used
    <2>2. registered[link[k].device] = k BY <1>1 DEF Inv, ConnectionsInv, OpenIsRegistered
    <2>3. k # NoConn BY DEF Conns, NoConn
    <2> QED BY <1>1, <2>1, <2>2, <2>3 DEF Inv, ConnectionsInv, Greeting
  <1> QED BY Invariant, <1>1, PTL

---------------------------------------------------------------------------
(* One active command per device. *)

(* The index and active_command_query are about the same rows. *)
LEMMA IndexIsActive == OneActive <=> IndexHolds(cmd)
  BY DEF OneActive, IndexHolds, Active, Indexed

(* A step that keeps every row's device and makes no row active keeps the  *)
(* index.                                                                  *)
LEMMA IndexKept ==
  ASSUME IndexHolds(cmd),
         \A c \in Commands : /\ cmd'[c].device = cmd[c].device
                             /\ Indexed(cmd'[c]) => Indexed(cmd[c])
  PROVE  IndexHolds(cmd)'
  BY DEF IndexHolds

LEMMA OneActiveStep ==
  ASSUME Inv, OneActive, [Next]_vars
  PROVE  OneActive'
  <1>1. IndexHolds(cmd) BY IndexIsActive
  <1>2. cmd \in [Commands -> CommandRows] BY DEF Inv, TypeOK, StoreTypeOK
  <1>3. IndexHolds(cmd)'
    <2>1. CASE cmd' = cmd BY <1>1, <2>1 DEF IndexHolds
    <2>2. ASSUME NEW w \in Workers, SettleCommit(w) PROVE IndexHolds(cmd)'
      BY <1>1, <2>2 DEF SettleCommit, IndexHolds
    <2>3. ASSUME NEW w \in Workers, NEW c \in Commands, EnqueueCommit(w, c)
          PROVE  IndexHolds(cmd)'
      BY <1>1, <2>3 DEF EnqueueCommit, IndexHolds
    <2>4. CASE GwCommit
      <3>1. CASE cmd' = Updated(gtx.writes) /\ IndexHolds(Updated(gtx.writes))
        BY <3>1 DEF IndexHolds
      <3>2. CASE CommitReport /\ IndexHolds(Updated(gtx.writes))
        <4> DEFINE upd == Updated(gtx.writes)
        <4>1. upd \in [Commands -> CommandRows] BY TxFacts, UpdatedType
        <4>2. PICK more \in [Commands -> BOOLEAN] :
                  cmd' = [c \in Commands |-> [upd[c] EXCEPT !.newer = @ \/ more[c]]]
          <5> DEFINE m == [c \in Commands |-> c \in gtx.seen /\ dev[TxDevice].proto = "1"]
          <5>1. m \in [Commands -> BOOLEAN] OBVIOUS
          <5>2. cmd' = [c \in Commands |-> [upd[c] EXCEPT !.newer = @ \/ m[c]]]
            BY <3>2 DEF CommitReport
          <5> QED BY <5>1, <5>2
        <4> HIDE DEF upd
        <4>3. \A c \in Commands : /\ cmd'[c].device = upd[c].device
                                  /\ Indexed(cmd'[c]) <=> Indexed(upd[c])
          BY <4>1, <4>2 DEF CommandRows, Indexed
        <4>4. IndexHolds(upd) BY <3>2 DEF upd
        <4> QED BY <4>3, <4>4 DEF IndexHolds
      <3>3. CASE cmd' = cmd BY <1>1, <3>3 DEF IndexHolds
      <3> QED
        BY <2>4, <3>1, <3>2, <3>3
        DEF GwCommit, CommitHello, CommitAnswer, CommitExpire, CommitSend, CommitRequeue,
            CommitBye, RolledBack
    <2>5. ASSUME NEW c \in Commands, Deadline(c) PROVE IndexHolds(cmd)'
      <3>1. \A x \in Commands : /\ cmd'[x].device = cmd[x].device
                                /\ cmd'[x].status = cmd[x].status
                                /\ cmd'[x].confirmed = cmd[x].confirmed
        BY <1>2, <2>5 DEF Deadline, CommandRows
      <3> QED BY <1>1, <3>1, IndexKept DEF Indexed
    <2>6. ASSUME Web PROVE IndexHolds(cmd)'
      <3>1. CASE cmd' = cmd BY <3>1, <2>1
      <3>2. CASE \E w \in Workers : SettleCommit(w) BY <3>2, <2>2
      <3>3. CASE \E w \in Workers, c \in Commands : EnqueueCommit(w, c) BY <3>3, <2>3
      <3> QED
        BY <2>6, <3>1, <3>2, <3>3
        DEF Web, WebBegin, WebCommit, SettleBegin, EnqueueBegin, AdminRequest, EditEnabled,
            DeleteDevice, storeVars
    <2>7. CASE Gateway
      <3>1. CASE GwCommit BY <3>1, <2>4
      <3>2. CASE ~GwCommit
        <4>1. cmd' = cmd
          BY <2>7, <3>2
          DEF Gateway, Handler, HandlerBegins, Dispatcher, DispatcherBegins, GwHello, GwReject,
              GwReport, GwNextStep, GwAnswer, GwBye, GwPing, GwScan, GwSend, GwRequeue,
              GwDiagnosticGet, GwCrash, GwStart, storeVars
        <4> QED BY <4>1, <2>1
      <3> QED BY <3>1, <3>2
    <2>8. CASE Controller BY <2>8, <2>1 DEF Controller, storeVars
    <2>9. CASE Clock BY <2>9, <2>5 DEF Clock
    <2>10. CASE UNCHANGED vars BY <2>10, <2>1 DEF vars, storeVars
    <2> QED BY <2>6, <2>7, <2>8, <2>9, <2>10 DEF Next
  <1> QED BY <1>3, IndexIsActive DEF OneActive, IndexHolds, Active, Indexed

(* Two workers that both found the slot free, a gateway that requeues a    *)
(* command, a late STATE: whatever they interleave, a device never has two *)
(* active commands.                                                        *)
THEOREM OneActivePerDevice == Spec => []OneActive
  <1>1. Init => OneActive
    BY DEF Init, StoreInit, OneActive, Active, NoRow
  <1>2. Inv /\ OneActive /\ [Next]_vars => OneActive' BY OneActiveStep
  <1> QED BY Invariant, <1>1, <1>2, PTL DEF Spec
=============================================================================
