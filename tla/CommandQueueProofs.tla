------------------------- MODULE CommandQueueProofs -------------------------
(***************************************************************************)
(* The two tables implement the abstract queue of CommandLifecycle when    *)
(* transactions run one at a time, for any devices, commands, workers,     *)
(* connections and bounds: every step of the system is a step of the queue *)
(* or leaves it alone.                                                     *)
(*                                                                         *)
(* What a transaction will write was right for the rows it read.  One at a *)
(* time means that it is still right when it commits, although boards,     *)
(* connections and deadlines go on in between.                             *)
(*                                                                         *)
(* And the first command of a device, shown completed, was obeyed, however *)
(* transactions interleave and whatever is lost on the way.                *)
(***************************************************************************)
EXTENDS DeviceControlProofs

---------------------------------------------------------------------------
(* Transactions one at a time *)

Unsettled(row) == row.status = "acknowledged" /\ ~row.confirmed

(* A write that a row in its present status may get.                       *)
AfterSent ==
    {Becomes("pending"), Becomes("acknowledged"), Becomes("completed"), Becomes("failed"),
     Becomes("timeout"), Complete, [status |-> "acknowledged", confirm |-> TRUE]}

Fits(row, w) ==
    \/ w = Keep
    \/ row.status = "pending" /\ w = Becomes("sent")
    \/ row.status = "sent" /\ w \in AfterSent
    \/ Unsettled(row) /\ w \in {Confirm, Becomes("failed")}

AllFit(ws) == \A c \in Commands : Fits(cmd[c], ws[c])

(* What a request may do to rows beside its insert.                        *)
MakesRoom(ws) ==
    \A c \in Commands :
        ws[c] = Keep \/ (Unsettled(cmd[c]) /\ ws[c] = Becomes("failed"))

Alone ==
    /\ gtx.op # "idle" => WebIdle
    /\ \A w, v \in Workers : web[w].op # "idle" /\ web[v].op # "idle" => w = v

OpenFit ==
    /\ gtx.op = "idle" => gtx.writes = NoWrites
    /\ AllFit(gtx.writes)
    /\ \A w \in Workers :
         /\ web[w].op = "idle" => web[w].writes = NoWrites
         /\ web[w].op = "enqueue" => MakesRoom(web[w].writes)
         /\ AllFit(web[w].writes)

Serial == Alone /\ OpenFit

LEMMA NothingFits == AllFit(NoWrites) /\ MakesRoom(NoWrites)
  BY DEF AllFit, MakesRoom, Fits, NoWrites

(* What fits a row fits it as long as its status stays, late or not.       *)
LEMMA StillFits ==
  ASSUME \A c \in Commands : /\ cmd'[c].status = cmd[c].status
                             /\ cmd'[c].confirmed = cmd[c].confirmed,
         NEW ws
  PROVE  /\ AllFit(ws) => (\A c \in Commands : Fits(cmd'[c], ws[c]))
         /\ MakesRoom(ws) =>
              \A c \in Commands :
                  ws[c] = Keep \/ (Unsettled(cmd'[c]) /\ ws[c] = Becomes("failed"))
  BY DEF AllFit, Fits, MakesRoom, Unsettled

(* A step that neither begins nor ends a transaction.                      *)
LEMMA SerialWaits ==
  ASSUME Serial, UNCHANGED <<web, gtx>>,
         \A c \in Commands : /\ cmd'[c].status = cmd[c].status
                             /\ cmd'[c].confirmed = cmd[c].confirmed
  PROVE  Serial'
  <1>1. Alone' BY DEF Serial, Alone, WebIdle
  <1>2. AllFit(gtx.writes)'
    BY StillFits DEF Serial, OpenFit, AllFit
  <1>3. ASSUME NEW w \in Workers
        PROVE  /\ AllFit(web[w].writes)'
               /\ web[w].op = "enqueue" => MakesRoom(web[w].writes)'
    <2>1. AllFit(web[w].writes) /\ (web[w].op = "enqueue" => MakesRoom(web[w].writes))
      BY DEF Serial, OpenFit
    <2>2. \A c \in Commands : Fits(cmd'[c], web[w].writes[c]) BY <2>1, StillFits
    <2>3. web[w].op = "enqueue" =>
            \A c \in Commands : web[w].writes[c] = Keep
                \/ (Unsettled(cmd'[c]) /\ web[w].writes[c] = Becomes("failed"))
      BY <2>1, StillFits
    <2> QED BY <2>2, <2>3 DEF AllFit, MakesRoom
  <1> QED BY <1>1, <1>2, <1>3 DEF Serial, OpenFit

(* A worker's transaction begins.                                          *)
LEMMA WorkerBegins ==
  ASSUME Serial, gtx.op = "idle", WebIdle, UNCHANGED <<cmd, gtx>>, NEW w \in Workers, NEW tx,
         web \in [Workers -> WebTxs], web' = [web EXCEPT ![w] = tx], AllFit(tx.writes),
         tx.op # "idle", tx.op = "enqueue" => MakesRoom(tx.writes)
  PROVE  Serial'
  <1>1. /\ web'[w] = tx /\ \A v \in Workers : v # w => web'[v] = web[v] /\ web[v].op = "idle"
    BY DEF WebIdle
  <1>2. Alone' BY <1>1 DEF Alone
  <1>3. \A ws : (AllFit(ws) => AllFit(ws)') /\ (MakesRoom(ws) => MakesRoom(ws)')
    BY DEF AllFit, MakesRoom
  <1>4. AllFit(gtx.writes)' /\ (gtx.op = "idle" => gtx.writes = NoWrites)'
    BY <1>3 DEF Serial, OpenFit
  <1>5. ASSUME NEW v \in Workers
        PROVE  /\ web'[v].op = "idle" => web'[v].writes = NoWrites
               /\ web'[v].op = "enqueue" => MakesRoom(web[v].writes)'
               /\ AllFit(web[v].writes)'
    <2>1. CASE v = w
      BY <1>1, <2>1 DEF AllFit, MakesRoom
    <2>2. CASE v # w
      BY <1>1, <2>2 DEF Serial, OpenFit, AllFit, MakesRoom
    <2> QED BY <2>1, <2>2
  <1> QED BY <1>2, <1>4, <1>5 DEF Serial, OpenFit

(* A stretch of the gateway begins a transaction, or does without one.     *)
LEMMA GatewayBegins ==
  ASSUME Serial, gtx.op = "idle", WebIdle, UNCHANGED <<cmd, web>>,
         AllFit(gtx'.writes), gtx'.op = "idle" => gtx'.writes = NoWrites
  PROVE  Serial'
  <1>1. Alone' BY DEF Alone, WebIdle
  <1>2. AllFit(gtx.writes)' BY DEF AllFit
  <1>3. \A w \in Workers : web[w].op = "idle" /\ web[w].writes = NoWrites
    BY DEF Serial, OpenFit, WebIdle
  <1>4. \A w \in Workers : AllFit(web[w].writes)'
    BY <1>3, NothingFits DEF AllFit, Fits, NoWrites
  <1> QED BY <1>1, <1>2, <1>3, <1>4 DEF Serial, OpenFit

(* A transaction ends, whatever it has written.                            *)
LEMMA AllEnds ==
  ASSUME gtx'.op = "idle", gtx'.writes = NoWrites,
         \A w \in Workers : web'[w].op = "idle" /\ web'[w].writes = NoWrites
  PROVE  Serial'
  <1>1. Alone' BY DEF Alone, WebIdle
  <1>2. AllFit(gtx.writes)' /\ \A w \in Workers : AllFit(web[w].writes)'
    BY DEF AllFit, Fits, NoWrites
  <1> QED BY <1>1, <1>2 DEF Serial, OpenFit

LEMMA SerialInit == Init => Serial
  <1> SUFFICES ASSUME Init PROVE Serial OBVIOUS
  <1>1. /\ gtx.op = "idle" /\ gtx.writes = NoWrites
        /\ \A w \in Workers : web[w].op = "idle" /\ web[w].writes = NoWrites
    BY DEF Init, WebInit, GatewayInit, IdleWeb, IdleGw
  <1>2. Alone BY <1>1 DEF Alone, WebIdle
  <1> QED BY <1>1, <1>2, NothingFits DEF Serial, OpenFit

LEMMA PassesFit ==
  /\ AllFit(SettleWrites) /\ AllFit(ExpireWrites)
  /\ \A d : AllFit(ExpireOf(d)) /\ MakesRoom(ExpireOf(d))
  /\ \A d, rs : AllFit(ReportWrites(d, rs))
  <1>1. AllFit(SettleWrites)
    BY DEF AllFit, Fits, SettleWrites, AckExpired, SentExpired, Released, AfterSent, Unsettled
  <1>2. AllFit(ExpireWrites)
    BY DEF AllFit, Fits, ExpireWrites, AckExpired, SentExpired, AfterSent, Unsettled
  <1>3. \A d : AllFit(ExpireOf(d)) /\ MakesRoom(ExpireOf(d))
    BY DEF AllFit, MakesRoom, Fits, ExpireOf, AckExpired, Unsettled
  <1>4. \A d, rs : AllFit(ReportWrites(d, rs))
    BY DEF AllFit, Fits, ReportWrites, AwaitingConfirmation, MatchedSent, AfterSent, Unsettled
  <1> QED BY <1>1, <1>2, <1>3, <1>4

LEMMA OneFits ==
  ASSUME NEW c \in Commands, NEW w, Fits(cmd[c], w)
  PROVE  AllFit(Only(c, w))
  BY DEF AllFit, Fits, Only, NoWrites

LEMMA AckedFits ==
  \A c \in Commands : \A success, rs :
      cmd[c].status = "sent" => Fits(cmd[c], Acked(c, success, rs))
  BY DEF Fits, Acked, AfterSent

LEMMA BeginsAlone ==
  ASSUME ~Interleaved, MayBegin PROVE gtx.op = "idle" /\ WebIdle
  BY DEF MayBegin

LEMMA WebSerial ==
  ASSUME ~Interleaved, Inv, Serial, Web PROVE Serial'
  <1>1. UNCHANGED gtx BY DEF Web, gatewayVars
  <1>2. web \in [Workers -> WebTxs] BY DEF Inv, TypeOK, WebTypeOK
  <1>3. ASSUME NEW w \in Workers, MayBegin, SettleBegin(w) PROVE Serial'
    <2> DEFINE tx == [IdleWeb EXCEPT !.op = "settle", !.writes = SettleWrites]
    <2>1. tx.op = "settle" /\ tx.writes = SettleWrites BY DEF IdleWeb
    <2>2. web' = [web EXCEPT ![w] = tx] /\ UNCHANGED <<cmd, gtx>>
      BY <1>1, <1>3 DEF SettleBegin, storeVars
    <2> HIDE DEF tx
    <2> QED BY <1>2, <1>3, <2>1, <2>2, PassesFit, BeginsAlone, WorkerBegins
  <1>4. ASSUME NEW w \in Workers, NEW d \in Devices, NEW p \in Payloads,
               MayBegin, EnqueueBegin(w, d, p)
        PROVE  Serial'
    <2> DEFINE tx == [op |-> "enqueue", device |-> d, payload |-> p, writes |-> ExpireOf(d)]
    <2>1. tx.op = "enqueue" /\ tx.writes = ExpireOf(d) OBVIOUS
    <2>2. web' = [web EXCEPT ![w] = tx] /\ UNCHANGED <<cmd, gtx>>
      BY <1>1, <1>4 DEF EnqueueBegin, storeVars
    <2> HIDE DEF tx
    <2> QED BY <1>2, <1>4, <2>1, <2>2, PassesFit, BeginsAlone, WorkerBegins
  <1>5. ASSUME NEW w \in Workers, web[w].op # "idle", web' = [web EXCEPT ![w] = IdleWeb]
        PROVE  Serial'
    <2>1. /\ gtx'.op = "idle" /\ gtx'.writes = NoWrites
      BY <1>1, <1>5 DEF Serial, Alone, OpenFit, WebIdle
    <2>2. \A v \in Workers : web'[v].op = "idle" /\ web'[v].writes = NoWrites
      BY <1>2, <1>5 DEF Serial, Alone, OpenFit, IdleWeb
    <2> QED BY <2>1, <2>2, AllEnds
  <1>6. ASSUME NEW w \in Workers, WebCommit(w) PROVE Serial'
    BY <1>5, <1>6 DEF WebCommit, SettleCommit, EnqueueCommit
  <1>7. CASE AdminRequest
    BY <1>1, <1>7, SerialWaits DEF AdminRequest, EditEnabled, DeleteDevice
  <1> QED BY <1>3, <1>4, <1>6, <1>7 DEF Web, WebBegin

LEMMA HandlerSerial ==
  ASSUME ~Interleaved, Inv, Serial, NEW k \in Conns, Handler(k) PROVE Serial'
  <1>1. gtx.op = "idle" /\ WebIdle BY BeginsAlone DEF Handler
  <1>2. gtx.writes = NoWrites BY <1>1 DEF Serial, OpenFit
  <1>3. UNCHANGED <<cmd, web>>
    BY DEF Handler, HandlerBegins, GwHello, GwReject, GwReport, GwNextStep, GwAnswer, GwBye,
           GwPing, storeVars, webVars
  <1>4. AllFit(gtx'.writes) /\ (gtx'.op = "idle" => gtx'.writes = NoWrites)
    <2>1. CASE GwHello(k) BY <2>1, NothingFits DEF GwHello, IdleGw
    <2>2. CASE GwReject(k) \/ GwNextStep(k) \/ GwPing(k)
      BY <1>2, <2>2, NothingFits DEF GwReject, GwNextStep, GwPing, gatewayVars
    <2>3. CASE GwReport(k)
      BY <2>3, NothingFits, PassesFit DEF GwReport, IdleGw
    <2>4. CASE GwAnswer(k)
      <3> DEFINE d == link[k].device  frame == Head(link[k].toGw)
                 s == frame.verb \in {"OK", "ACK"}
      <3>1. CASE Answered(d, frame) = {}
        BY <1>2, <2>4, <3>1, NothingFits DEF GwAnswer
      <3>2. CASE Answered(d, frame) # {}
        <4>1. PICK c \in Answered(d, frame) :
                 gtx' = [IdleGw EXCEPT !.op = "answer", !.conn = k, !.cmd = c,
                                       !.writes = Only(c, Acked(c, s, dev[d].actual))]
          BY <2>4, <3>2 DEF GwAnswer
        <4>2. c \in Commands /\ cmd[c].status = "sent" BY DEF Answered, Latest
        <4>3. AllFit(Only(c, Acked(c, s, dev[d].actual))) BY <4>2, AckedFits, OneFits
        <4>4. gtx'.op = "answer" /\ gtx'.writes = Only(c, Acked(c, s, dev[d].actual))
          BY <4>1 DEF IdleGw
        <4> QED BY <4>3, <4>4
      <3> QED BY <3>1, <3>2
    <2>5. CASE GwBye(k) BY <1>2, <2>5, NothingFits DEF GwBye, IdleGw
    <2> QED BY <2>1, <2>2, <2>3, <2>4, <2>5 DEF Handler, HandlerBegins
  <1> QED BY <1>1, <1>3, <1>4, GatewayBegins

LEMMA DispatcherSerial ==
  ASSUME ~Interleaved, Inv, Serial, Dispatcher PROVE Serial'
  <1>1. gtx.op = "idle" /\ WebIdle BY BeginsAlone DEF Dispatcher
  <1>2. gtx.writes = NoWrites BY <1>1 DEF Serial, OpenFit
  <1>3. UNCHANGED <<cmd, web>>
    BY DEF Dispatcher, DispatcherBegins, GwScan, GwSend, GwRequeue, GwDiagnosticGet,
           storeVars, webVars
  <1>4. AllFit(gtx'.writes) /\ (gtx'.op = "idle" => gtx'.writes = NoWrites)
    <2>1. CASE GwScan BY <2>1, PassesFit DEF GwScan, IdleGw
    <2>2. ASSUME NEW c \in Commands, GwSend(c)
          PROVE  AllFit(gtx'.writes) /\ (gtx'.op = "idle" => gtx'.writes = NoWrites)
      <3>1. CASE ~Sendable(c) BY <1>2, <2>2, <3>1, NothingFits DEF GwSend
      <3>2. CASE Sendable(c)
        <4>1. Fits(cmd[c], Becomes("sent")) BY <3>2 DEF Sendable, Fits
        <4>2. gtx'.op = "send" /\ gtx'.writes = Only(c, Becomes("sent"))
          BY <2>2, <3>2 DEF GwSend, IdleGw
        <4> QED BY <4>1, <4>2, OneFits
      <3> QED BY <3>1, <3>2
    <2>3. CASE GwRequeue
      <3>1. CASE ~Requeued(retry) BY <1>2, <2>3, <3>1, NothingFits DEF GwRequeue
      <3>2. CASE Requeued(retry)
        <4>1. retry \in Commands BY <2>3, GatewayFacts DEF GwRequeue
        <4>2. Fits(cmd[retry], Becomes("pending")) BY <3>2 DEF Requeued, Fits, AfterSent
        <4>3. gtx'.op = "requeue" /\ gtx'.writes = Only(retry, Becomes("pending"))
          BY <2>3, <3>2 DEF GwRequeue, IdleGw
        <4> QED BY <4>1, <4>2, <4>3, OneFits
      <3> QED BY <3>1, <3>2
    <2>4. ASSUME NEW d \in Devices, GwDiagnosticGet(d)
          PROVE  AllFit(gtx'.writes) /\ (gtx'.op = "idle" => gtx'.writes = NoWrites)
      BY <1>2, <2>4, NothingFits DEF GwDiagnosticGet, gatewayVars
    <2> QED BY <2>1, <2>2, <2>3, <2>4 DEF Dispatcher, DispatcherBegins
  <1> QED BY <1>1, <1>3, <1>4, GatewayBegins

(* While transactions run one at a time, what the open one will write      *)
(* stays right.                                                            *)
LEMMA SerialStep ==
  ASSUME ~Interleaved, Inv, Serial, [Next]_vars PROVE Serial'
  <1>1. CASE Web BY <1>1, WebSerial
  <1>2. CASE Controller BY <1>2, SerialWaits DEF Controller, storeVars, webVars, gatewayVars
  <1>3. CASE Clock
    <2>1. PICK c \in Commands : Deadline(c) BY <1>3 DEF Clock
    <2>2. \A x \in Commands : cmd'[x].status = cmd[x].status /\ cmd'[x].confirmed = cmd[x].confirmed
      BY <2>1 DEF Deadline, Inv, TypeOK, StoreTypeOK, CommandRows
    <2> QED BY <1>3, <2>2, SerialWaits DEF Clock, webVars, gatewayVars
  <1>4. CASE Gateway
    <2>1. CASE GwCommit \/ GwCrash
      <3>1. gtx' = IdleGw /\ UNCHANGED web BY <2>1 DEF GwCommit, GwCrash, webVars
      <3>2. CASE gtx.op # "idle"
        <4>1. \A w \in Workers : web'[w].op = "idle" /\ web'[w].writes = NoWrites
          BY <3>1, <3>2 DEF Serial, Alone, OpenFit, WebIdle
        <4> QED BY <3>1, <4>1, AllEnds DEF IdleGw
      <3>3. CASE gtx.op = "idle"
        <4>1. UNCHANGED cmd BY <2>1, <3>3 DEF GwCommit, GwCrash, storeVars
        <4>2. Alone' BY <3>1 DEF Serial, Alone, IdleGw
        <4>3. AllFit(gtx.writes)' /\ (gtx.op = "idle" => gtx.writes = NoWrites)'
          BY <3>1 DEF IdleGw, AllFit, Fits, NoWrites
        <4>4. \A w \in Workers : (/\ web[w].op = "idle" => web[w].writes = NoWrites
                                  /\ web[w].op = "enqueue" => MakesRoom(web[w].writes)
                                  /\ AllFit(web[w].writes))'
          BY <3>1, <4>1 DEF Serial, OpenFit, AllFit, MakesRoom
        <4> QED BY <4>2, <4>3, <4>4 DEF Serial, OpenFit
      <3> QED BY <3>2, <3>3
    <2>2. CASE GwStart BY <2>2, SerialWaits DEF GwStart, storeVars, webVars, gatewayVars
    <2> QED BY <1>4, <2>1, <2>2, HandlerSerial, DispatcherSerial DEF Gateway
  <1>5. CASE UNCHANGED vars BY <1>5, SerialWaits DEF vars, storeVars, webVars, gatewayVars
  <1> QED BY <1>1, <1>2, <1>3, <1>4, <1>5 DEF Next

(* One transaction at a time: at most one is open, and it writes only what *)
(* its rows may still get.                                                 *)
THEOREM OneTransaction == ASSUME ~Interleaved PROVE Spec => []Serial
  <1>1. Inv /\ Serial /\ [Next]_vars => Serial' BY SerialStep
  <1> QED BY Invariant, SerialInit, <1>1, PTL DEF Spec

---------------------------------------------------------------------------
(* The slot of a device, as the rows of a table t have it                  *)

OwnerIn(t, d) == {c \in Commands : t[c].device = d /\ Active(t[c])}
SlotIn(t, d) == IF OwnerIn(t, d) = {} THEN [cmd |-> None, phase |-> "free"]
                ELSE LET c == CHOOSE x \in OwnerIn(t, d) : TRUE
                     IN  [cmd |-> c, phase |-> t[c].status]
OutcomeIn(t, c) == IF t[c].status = "none" \/ Active(t[c]) THEN "open" ELSE t[c].status

SingleIn(t) == \A c1, c2 \in Commands :
    Active(t[c1]) /\ Active(t[c2]) /\ t[c1].device = t[c2].device => c1 = c2

LEMMA SlotOfOwner ==
  ASSUME NEW t, SingleIn(t), NEW c \in Commands, Active(t[c])
  PROVE  SlotIn(t, t[c].device) = [cmd |-> c, phase |-> t[c].status]
  <1>1. OwnerIn(t, t[c].device) = {c} BY DEF OwnerIn, SingleIn
  <1> QED BY <1>1 DEF SlotIn

LEMMA SlotWithoutOwner ==
  ASSUME NEW t, NEW d, \A c \in Commands : ~(t[c].device = d /\ Active(t[c]))
  PROVE  SlotIn(t, d) = [cmd |-> None, phase |-> "free"]
  BY DEF SlotIn, OwnerIn

(* How a row may change in one step.                                       *)
Rests(a, b) == b.device = a.device /\ b.status = a.status /\ b.confirmed = a.confirmed
Settles(a, b) ==
    /\ b.device = a.device /\ Unsettled(a)
    /\ b.status = "failed" \/ (b.status = "acknowledged" /\ b.confirmed)
Advances(a, b) ==
    /\ b.device = a.device
    /\ \/ a.status = "pending" /\ b.status = "sent"
       \/ a.status = "sent" /\ b.status \in {"pending", "acknowledged", "completed",
                                             "failed", "timeout"}
       \/ Settles(a, b)
Enters(a, b) == a.status = "none" /\ b.status = "pending" /\ b.device \in Devices

(* A table becomes another: rows advance, or one enters and the commands   *)
(* whose confirmation is overdue make room for it.                         *)
Advanced(t, u) == \A c \in Commands : Rests(t[c], u[c]) \/ Advances(t[c], u[c])
Entered(t, u) ==
    \A c \in Commands : \/ Rests(t[c], u[c])
                        \/ Settles(t[c], u[c]) /\ u[c].status = "failed"
                        \/ Enters(t[c], u[c])

LEMMA FitsAdvances ==
  ASSUME NEW row \in CommandRows, NEW w, Fits(row, w)
  PROVE  Rests(row, Update(row, w)) \/ Advances(row, Update(row, w))
  <1> DEFINE u == Update(row, w)
  <1>1. /\ u.device = row.device
        /\ u.status = IF w.status = "keep" THEN row.status ELSE w.status
        /\ u.confirmed = (row.confirmed \/ w.confirm)
    BY DEF Update, CommandRows
  <1> SUFFICES Rests(row, u) \/ Advances(row, u) OBVIOUS
  <1> HIDE DEF u
  <1>2. CASE w = Keep BY <1>1, <1>2 DEF Keep, Rests, CommandRows
  <1>3. CASE row.status = "pending" /\ w = Becomes("sent")
    BY <1>1, <1>3 DEF Becomes, Advances
  <1>4. CASE row.status = "sent" /\ w \in AfterSent
    <2>1. u.status \in {"pending", "acknowledged", "completed", "failed", "timeout"}
      BY <1>1, <1>4 DEF AfterSent, Becomes, Complete
    <2> QED BY <1>1, <1>4, <2>1 DEF Advances
  <1>5. CASE Unsettled(row) /\ w = Confirm
    BY <1>1, <1>5 DEF Confirm, Advances, Settles, Unsettled
  <1>6. CASE Unsettled(row) /\ w = Becomes("failed")
    BY <1>1, <1>6 DEF Becomes, Advances, Settles
  <1> QED BY <1>2, <1>3, <1>4, <1>5, <1>6 DEF Fits

(* The slot of a device whose command was c.                               *)
LEMMA SlotAfter ==
  ASSUME NEW t, NEW u, SingleIn(t), SingleIn(u), Advanced(t, u) \/ Entered(t, u),
         NEW c \in Commands, Active(t[c]), NEW d, d = t[c].device
  PROVE  \/ Active(u[c]) /\ SlotIn(u, d) = [cmd |-> c, phase |-> u[c].status]
         \/ ~Active(u[c]) /\ SlotIn(u, d) = [cmd |-> None, phase |-> "free"]
         \/ \E n \in Commands : /\ ~Active(u[c]) /\ Entered(t, u) /\ Enters(t[n], u[n])
                                /\ SlotIn(u, d) = [cmd |-> n, phase |-> "pending"]
  <1>1. u[c].device = d
    BY DEF Advanced, Entered, Rests, Settles, Advances, Enters, Active
  <1>2. CASE Active(u[c]) BY <1>1, <1>2, SlotOfOwner
  <1>3. CASE \A n \in Commands : ~(u[n].device = d /\ Active(u[n]))
    BY <1>1, <1>3, SlotWithoutOwner
  <1>4. ASSUME ~Active(u[c]), NEW n \in Commands, u[n].device = d, Active(u[n])
        PROVE  Entered(t, u) /\ Enters(t[n], u[n]) /\ SlotIn(u, d) = [cmd |-> n, phase |-> "pending"]
    <2>1. ~(t[n].device = d /\ Active(t[n])) BY <1>4 DEF SingleIn
    <2>2. ~(Rests(t[n], u[n]) \/ Advances(t[n], u[n]))
      BY <1>4, <2>1 DEF Rests, Advances, Settles, Active, Unsettled
    <2>3. Entered(t, u) /\ Enters(t[n], u[n])
      BY <2>2 DEF Advanced, Entered, Advances, Settles
    <2> QED BY <1>4, <2>3, SlotOfOwner DEF Enters
  <1> QED BY <1>2, <1>3, <1>4

(* The slot of a device that had none.                                     *)
LEMMA SlotBefore ==
  ASSUME NEW t, NEW u, SingleIn(u), Advanced(t, u) \/ Entered(t, u), NEW d,
         \A c \in Commands : ~(t[c].device = d /\ Active(t[c]))
  PROVE  \/ SlotIn(u, d) = [cmd |-> None, phase |-> "free"]
         \/ \E n \in Commands : /\ Enters(t[n], u[n])
                                /\ SlotIn(u, d) = [cmd |-> n, phase |-> "pending"]
  <1>1. ASSUME NEW n \in Commands, u[n].device = d, Active(u[n])
        PROVE  Enters(t[n], u[n]) /\ SlotIn(u, d) = [cmd |-> n, phase |-> "pending"]
    <2>1. ~(Rests(t[n], u[n]) \/ Advances(t[n], u[n]))
      BY <1>1 DEF Rests, Advances, Settles, Active, Unsettled
    <2>2. Enters(t[n], u[n]) BY <2>1 DEF Advanced, Entered, Advances, Settles
    <2> QED BY <1>1, <2>2, SlotOfOwner DEF Enters
  <1> QED BY <1>1, SlotWithoutOwner

LEMMA OutcomeAfter ==
  ASSUME NEW t, NEW u, Advanced(t, u) \/ Entered(t, u), NEW c \in Commands,
         t[c] \in CommandRows
  PROVE  \/ OutcomeIn(u, c) = OutcomeIn(t, c)
         \/ Active(t[c]) /\ ~Active(u[c]) /\ OutcomeIn(u, c) = u[c].status
  BY DEF Advanced, Entered, Rests, Advances, Settles, Enters, OutcomeIn, Active, Unsettled,
         CommandRows, Statuses

(* A step of the rows is a step of the queue.                              *)
LEMMA RowsImplementQueue ==
  ASSUME Inv, OneActive, OneActive', Advanced(cmd, cmd') \/ Entered(cmd, cmd')
  PROVE  Queue!Next
  <1> DEFINE s == [d \in Devices |-> SlotIn(cmd, d)]
             r == [d \in Devices |-> SlotIn(cmd', d)]
             o == [c \in Commands |-> OutcomeIn(cmd, c)]
             p == [c \in Commands |-> OutcomeIn(cmd', c)]
             Free == [cmd |-> None, phase |-> "free"]
             Fresh(c) == o[c] = "open" /\ \A d \in Devices : s[d] = Free \/ s[d].cmd # c
             Left(c) == \E d \in Devices : s[d] # Free /\ s[d].cmd = c
                                           /\ (r[d] = Free \/ r[d].cmd # c)
  <1>1. SingleIn(cmd) /\ SingleIn(cmd') BY DEF SingleIn, OneActive
  <1>2. \A c \in Commands : cmd[c] \in CommandRows BY DEF Inv, TypeOK, StoreTypeOK
  <1>3. \A c \in Commands : Active(cmd[c]) => cmd[c].device \in Devices
    BY DEF Inv, RowsKnown, Row, Active
  <1>4. ASSUME NEW d \in Devices, NEW c \in Commands, Active(cmd[c]), cmd[c].device = d
        PROVE  s[d] = [cmd |-> c, phase |-> cmd[c].status]
    BY <1>1, <1>4, SlotOfOwner
  <1>5. ASSUME NEW n \in Commands, Enters(cmd[n], cmd'[n]) PROVE Fresh(n)
    <2>1. ~Active(cmd[n]) /\ o[n] = "open" BY <1>5 DEF Enters, Active, OutcomeIn
    <2>2. ASSUME NEW d \in Devices, s[d] # Free PROVE s[d].cmd # n
      <3>1. PICK c \in Commands : cmd[c].device = d /\ Active(cmd[c])
        BY <2>2, SlotWithoutOwner
      <3> QED BY <1>4, <2>1, <3>1
    <2> QED BY <2>1, <2>2
  <1>6. ASSUME NEW d \in Devices
        PROVE  \/ r[d] = s[d]
               \/ s[d] = Free /\ \E n \in Commands : Fresh(n) /\ r[d] = [cmd |-> n, phase |-> "pending"]
               \/ \E c \in Commands, f \in {"pending", "sent", "acknowledged"} :
                    /\ s[d] = [cmd |-> c, phase |-> f]
                    /\ \/ f = "pending" /\ r[d] = [cmd |-> c, phase |-> "sent"]
                       \/ f = "sent" /\ r[d] = [cmd |-> c, phase |-> "pending"]
                       \/ f = "sent" /\ r[d] = [cmd |-> c, phase |-> "acknowledged"]
                       \/ /\ f = "sent" /\ r[d] = Free
                          /\ p[c] \in {"acknowledged", "completed", "failed", "timeout"}
                       \/ /\ f = "acknowledged" /\ r[d] = Free
                          /\ p[c] \in {"acknowledged", "failed"}
                       \/ /\ f = "acknowledged" /\ p[c] = "failed"
                          /\ \E n \in Commands : Fresh(n) /\ r[d] = [cmd |-> n, phase |-> "pending"]
    <2>1. CASE \A c \in Commands : ~(cmd[c].device = d /\ Active(cmd[c]))
      BY <1>1, <1>5, <2>1, SlotBefore, SlotWithoutOwner
    <2>2. ASSUME NEW c \in Commands, cmd[c].device = d, Active(cmd[c])
          PROVE  \E f \in {"pending", "sent", "acknowledged"} :
                    /\ s[d] = [cmd |-> c, phase |-> f]
                    /\ \/ r[d] = s[d]
                       \/ f = "pending" /\ r[d] = [cmd |-> c, phase |-> "sent"]
                       \/ f = "sent" /\ r[d] = [cmd |-> c, phase |-> "pending"]
                       \/ f = "sent" /\ r[d] = [cmd |-> c, phase |-> "acknowledged"]
                       \/ /\ f = "sent" /\ r[d] = Free
                          /\ p[c] \in {"acknowledged", "completed", "failed", "timeout"}
                       \/ /\ f = "acknowledged" /\ r[d] = Free
                          /\ p[c] \in {"acknowledged", "failed"}
                       \/ /\ f = "acknowledged" /\ p[c] = "failed"
                          /\ \E n \in Commands : Fresh(n) /\ r[d] = [cmd |-> n, phase |-> "pending"]
      <3> DEFINE f == cmd[c].status
      <3>1. f \in {"pending", "sent", "acknowledged"} /\ s[d] = [cmd |-> c, phase |-> f]
        BY <1>4, <2>2 DEF Active
      <3>2. CASE Active(cmd'[c]) /\ r[d] = [cmd |-> c, phase |-> cmd'[c].status]
        <4>1. \/ cmd'[c].status = f
              \/ f = "pending" /\ cmd'[c].status = "sent"
              \/ f = "sent" /\ cmd'[c].status \in {"pending", "acknowledged"}
          BY <2>2, <3>2 DEF Advanced, Entered, Rests, Advances, Settles, Enters, Active, Unsettled
        <4> QED BY <3>1, <3>2, <4>1
      <3>3. CASE ~Active(cmd'[c])
        <4>1. \/ f = "sent" /\ ~Entered(cmd, cmd')
                 /\ cmd'[c].status \in {"acknowledged", "completed", "failed", "timeout"}
              \/ f = "acknowledged" /\ cmd'[c].status \in {"acknowledged", "failed"}
                 /\ (Entered(cmd, cmd') => cmd'[c].status = "failed")
          BY <2>2, <3>3 DEF Advanced, Entered, Rests, Advances, Settles, Enters, Active, Unsettled
        <4>2. p[c] = cmd'[c].status BY <3>3, <4>1 DEF OutcomeIn
        <4>3. \/ r[d] = Free
              \/ \E n \in Commands : /\ Entered(cmd, cmd') /\ Enters(cmd[n], cmd'[n])
                                     /\ r[d] = [cmd |-> n, phase |-> "pending"]
          BY <1>1, <2>2, <3>3, SlotAfter
        <4> QED BY <1>5, <3>1, <4>1, <4>2, <4>3
      <3>4. Active(cmd'[c]) => r[d] = [cmd |-> c, phase |-> cmd'[c].status]
        BY <1>1, <2>2, SlotAfter
      <3> QED BY <3>2, <3>3, <3>4
    <2> HIDE DEF Fresh, s, r, p
    <2> QED BY <2>1, <2>2
  <1>7. ASSUME NEW c \in Commands, p[c] # o[c] PROVE Left(c)
    <2>1. Active(cmd[c]) /\ ~Active(cmd'[c]) BY <1>2, <1>7, OutcomeAfter
    <2>2. PICK d \in Devices : d = cmd[c].device BY <1>3, <2>1
    <2>3. s[d] = [cmd |-> c, phase |-> cmd[c].status] BY <1>4, <2>1, <2>2
    <2>4. r[d] = Free \/ \E n \in Commands : Enters(cmd[n], cmd'[n]) /\ r[d] = [cmd |-> n, phase |-> "pending"]
      BY <1>1, <2>1, <2>2, SlotAfter
    <2>5. s[d] # Free BY <2>1, <2>3 DEF Active
    <2>6. \A n \in Commands : Enters(cmd[n], cmd'[n]) => n # c BY <2>1 DEF Enters, Active
    <2> QED BY <2>3, <2>4, <2>5, <2>6
  <1>8. /\ [d \in Devices |-> SlotOf(d)] = s /\ [c \in Commands |-> OutcomeOf(c)] = o
        /\ [d \in Devices |-> SlotOf(d)]' = r /\ [c \in Commands |-> OutcomeOf(c)]' = p
    BY DEF SlotOf, OwnerOf, SlotIn, OwnerIn, OutcomeOf, OutcomeIn
  <1> HIDE DEF s, r, o, p
  <1>9. \A d \in Devices : r[d] = s[d] \/ Queue!Moves(d)
    BY <1>6, <1>8
    DEF Queue!Moves, Queue!Enter, Queue!Send, Queue!Return, Queue!Ack, Queue!Leave,
        Queue!Replace, Queue!Holding, Queue!Free, Queue!Fresh, Queue!Outcomes
  <1>10. \A c \in Commands : p[c] # o[c] => Queue!Left(c)
    BY <1>7, <1>8 DEF Queue!Left, Queue!Free, Queue!Holding
  <1> QED BY <1>8, <1>9, <1>10 DEF Queue!Next, s, r, o, p

LEMMA UpdatesAdvance ==
  ASSUME cmd \in [Commands -> CommandRows], NEW ws, AllFit(ws), NEW u,
         \A c \in Commands : /\ u[c].status = Update(cmd[c], ws[c]).status
                             /\ u[c].confirmed = Update(cmd[c], ws[c]).confirmed
                             /\ u[c].device = Update(cmd[c], ws[c]).device
  PROVE  Advanced(cmd, u)
  <1> SUFFICES ASSUME NEW c \in Commands PROVE Rests(cmd[c], u[c]) \/ Advances(cmd[c], u[c])
    BY DEF Advanced
  <1>1. cmd[c] \in CommandRows /\ Fits(cmd[c], ws[c]) BY DEF AllFit
  <1>2. \/ Rests(cmd[c], Update(cmd[c], ws[c]))
        \/ Advances(cmd[c], Update(cmd[c], ws[c]))
    BY <1>1, FitsAdvances
  <1> QED BY <1>2 DEF Rests, Advances, Settles

LEMMA RowsRest ==
  ASSUME \A c \in Commands : /\ cmd'[c].status = cmd[c].status
                             /\ cmd'[c].confirmed = cmd[c].confirmed
                             /\ cmd'[c].device = cmd[c].device
  PROVE  Advanced(cmd, cmd')
  BY DEF Advanced, Rests

LEMMA InsertEnters ==
  ASSUME Inv, OpenFit, NEW w \in Workers, NEW c \in Commands, EnqueueCommit(w, c)
  PROVE  Advanced(cmd, cmd') \/ Entered(cmd, cmd')
  <1> DEFINE ws == web[w].writes
  <1>1. cmd \in [Commands -> CommandRows] BY DEF Inv, TypeOK, StoreTypeOK
  <1>2. CASE cmd' = cmd BY <1>2, RowsRest
  <1>3. CASE cmd' = Inserted(w, c)
    <2>1. MakesRoom(ws) /\ web[w].device \in Devices
      BY DEF EnqueueCommit, OpenFit, Inv, WebKnown
    <2>2. Enters(cmd[c], cmd'[c])
      BY <1>3, <2>1 DEF EnqueueCommit, RowsLeft, Inserted, Updated, NewRow, NoRow, Enters
    <2>3. ASSUME NEW x \in Commands, x # c
          PROVE  Rests(cmd[x], cmd'[x]) \/ (Settles(cmd[x], cmd'[x]) /\ cmd'[x].status = "failed")
      <3>1. cmd'[x] = Update(cmd[x], ws[x]) BY <1>3, <2>3 DEF Inserted, Updated
      <3>2. ws[x] = Keep \/ (Unsettled(cmd[x]) /\ ws[x] = Becomes("failed"))
        BY <2>1 DEF MakesRoom
      <3>3. cmd[x] \in CommandRows BY <1>1
      <3> QED
        BY <3>1, <3>2, <3>3 DEF Update, Keep, Becomes, Rests, Settles, CommandRows
    <2> QED BY <2>2, <2>3 DEF Entered
  <1> QED BY <1>2, <1>3 DEF EnqueueCommit

LEMMA CommitAdvances ==
  ASSUME Inv, OpenFit, GwCommit
  PROVE  Advanced(cmd, cmd')
  <1>1. cmd \in [Commands -> CommandRows] /\ AllFit(gtx.writes)
    BY DEF Inv, TypeOK, StoreTypeOK, OpenFit
  <1>2. CASE cmd' = cmd BY <1>2, RowsRest
  <1>3. CASE cmd' = Updated(gtx.writes) BY <1>1, <1>3, UpdatesAdvance DEF Updated
  <1>4. CASE CommitReport
    <2> DEFINE m(c) == c \in gtx.seen /\ dev[TxDevice].proto = "1"
    <2>1. ASSUME NEW c \in Commands
          PROVE  LET u == Update(cmd[c], gtx.writes[c])
                 IN  /\ cmd'[c].status = u.status /\ cmd'[c].confirmed = u.confirmed
                     /\ cmd'[c].device = u.device
      <3>1. cmd'[c] = [Update(cmd[c], gtx.writes[c]) EXCEPT !.newer = @ \/ m(c)]
        BY <1>4 DEF CommitReport, Updated
      <3>2. Update(cmd[c], gtx.writes[c]) \in CommandRows
        BY <1>1, TxFacts, UpdateType
      <3> QED BY <3>1, <3>2 DEF CommandRows
    <2> QED BY <1>1, <2>1, UpdatesAdvance
  <1> QED
    BY <1>2, <1>3, <1>4
    DEF GwCommit, CommitHello, CommitAnswer, CommitExpire, CommitSend, CommitRequeue,
        CommitBye, RolledBack

(* A step of the system is a step of the queue or leaves it alone, unless  *)
(* the rows that the open transactions have read have changed since.       *)
LEMMA QueueStep ==
  ASSUME Inv, OpenFit, OneActive, OneActive', [Next]_vars
  PROVE  Queue!Next
  <1>1. cmd \in [Commands -> CommandRows] BY DEF Inv, TypeOK, StoreTypeOK
  <1>2. CASE cmd' = cmd BY <1>2, RowsRest, RowsImplementQueue
  <1>3. ASSUME NEW w \in Workers, SettleCommit(w), cmd' # cmd PROVE Queue!Next
    <2>1. cmd' = Updated(web[w].writes) /\ AllFit(web[w].writes)
      BY <1>3 DEF SettleCommit, OpenFit
    <2> QED BY <1>1, <2>1, UpdatesAdvance, RowsImplementQueue DEF Updated
  <1>4. ASSUME NEW w \in Workers, NEW c \in Commands, EnqueueCommit(w, c) PROVE Queue!Next
    BY <1>4, InsertEnters, RowsImplementQueue
  <1>5. CASE Web
    BY <1>2, <1>3, <1>4, <1>5
    DEF Web, WebBegin, WebCommit, SettleBegin, EnqueueBegin, AdminRequest, EditEnabled,
        DeleteDevice, storeVars
  <1>6. CASE Gateway
    <2>1. CASE GwCommit BY <2>1, CommitAdvances, RowsImplementQueue
    <2>2. CASE ~GwCommit
      <3>1. cmd' = cmd
        BY <1>6, <2>2
        DEF Gateway, Handler, HandlerBegins, Dispatcher, DispatcherBegins, GwHello, GwReject,
            GwReport, GwNextStep, GwAnswer, GwBye, GwPing, GwScan, GwSend, GwRequeue,
            GwDiagnosticGet, GwCrash, GwStart, storeVars
      <3> QED BY <1>2, <3>1
    <2> QED BY <2>1, <2>2
  <1>7. CASE Controller BY <1>2, <1>7 DEF Controller, storeVars
  <1>8. CASE Clock
    <2>1. PICK c \in Commands : Deadline(c) BY <1>8 DEF Clock
    <2>2. \A x \in Commands : /\ cmd'[x].status = cmd[x].status
                              /\ cmd'[x].confirmed = cmd[x].confirmed
                              /\ cmd'[x].device = cmd[x].device
      BY <1>1, <2>1 DEF Deadline, CommandRows
    <2> QED BY <2>2, RowsRest, RowsImplementQueue
  <1>9. CASE UNCHANGED vars BY <1>2, <1>9 DEF vars, storeVars
  <1> QED BY <1>5, <1>6, <1>7, <1>8, <1>9 DEF Next

LEMMA QueueInit == Init => Queue!Init
  <1> SUFFICES ASSUME Init PROVE Queue!Init OBVIOUS
  <1>1. \A c \in Commands : cmd[c].status = "none" BY DEF Init, StoreInit, NoRow
  <1>2. \A d \in Devices : OwnerOf(d) = {} BY <1>1 DEF OwnerOf, Active
  <1> QED
    BY <1>1, <1>2 DEF Queue!Init, Queue!Free, Queue!Holding, SlotOf, OutcomeOf

(* However transactions interleave, only one that writes to rows which     *)
(* others have changed since it read them can break the abstract queue:    *)
(* all other steps are steps of it.                                        *)
THEOREM OnlyStaleWritesBreakQueue == Spec => [][OpenFit => Queue!Next]_vars
  <1>1. Inv /\ OneActive /\ OneActive' /\ [Next]_vars => [OpenFit => Queue!Next]_vars
    BY QueueStep
  <1> QED BY Invariant, OneActivePerDevice, <1>1, PTL DEF Spec

(* While transactions run one at a time the two tables, written by the     *)
(* gateway and by any number of workers through crashes, reconnections and *)
(* timeouts, are the abstract queue: a command enters a free slot pending, *)
(* leaves pending only by being sent, and leaves the slot with an outcome  *)
(* that never changes.                                                     *)
THEOREM TablesImplementQueue == ASSUME ~Interleaved PROVE Spec => ImplementsQueue
  <1>1. Inv /\ Serial /\ OneActive /\ OneActive' /\ [Next]_vars => Queue!Next
    BY QueueStep DEF Serial
  <1> QED
    BY Invariant, OneTransaction, OneActivePerDevice, QueueInit, <1>1, PTL
    DEF Spec, ImplementsQueue, Queue!Spec

---------------------------------------------------------------------------
(* The only command of a device.                                           *)
(*                                                                         *)
(* Its lines, their OKs and the line that waits for a STATE are one token  *)
(* that passes through the streams of the device's connections: where it   *)
(* is says which relays may still be wrong.                                *)

Setting == {"SET", "SETALL"}
Has(s, verbs) == \E x \in ToSet(s) : x.verb \in verbs
Once(s, verbs) ==
    \A i, j \in 1..Len(s) : s[i].verb \in verbs /\ s[j].verb \in verbs => i = j

LinksOf(d) == {k \in Conns : link[k].device = d}
Busy(k) == Has(link[k].toBoard, Setting) \/ Has(link[k].toGw, {"OK"})
Readable(k) == link[k].gw \in {"auth", "open", "closing"}

Held(k) == /\ Readable(k)
           /\ link[k].gw = "auth" => gtx.op = "hello" /\ gtx.conn = k

(* Relays as the commands of a device ask, relays that are not yet so, and *)
(* a state that the relays had earlier.                                    *)
Switches(d) == {r \in Relays : \E c \in CommandsOf(d) :
                   r \in DOMAIN cmd[c].payload /\ board[d].relays[r] = cmd[c].payload[r]}
Missing(d) == {r \in Relays : \E c \in CommandsOf(d) :
                   r \in DOMAIN cmd[c].payload /\ board[d].relays[r] # cmd[c].payload[r]}
Behind(rs, d) ==
    rs # None => \A r \in Relays : rs[r] # board[d].relays[r] => r \in Switches(d)

(* A line sets what a command of the device asks.                          *)
AskedBy(l, p) == \A r \in DOMAIN l.set : r \in DOMAIN p /\ p[r] = l.set[r]
KeptLine(c) == /\ Len(steps[c]) <= 1
               /\ \A l \in ToSet(steps[c]) : l.verb \in Setting /\ AskedBy(l, cmd[c].payload)
LineOf(l, d) == l.verb \in Setting => \E c \in CommandsOf(d) : AskedBy(l, cmd[c].payload)

SetBy(s) == UNION {DOMAIN l.set : l \in ToSet(s)}
Rest(c) == Tail(V2Steps(cmd[c].payload))

(* Nothing of the command was ever delivered; it waits for an answer.      *)
Unsent(c) == \/ cmd[c].status = "pending" \/ retry = c
             \/ gtx.op = "send" /\ gtx.cmd = c
Asking(c) == cmd[c].status = "sent" /\ ~(gtx.op = "answer" /\ gtx.cmd = c)

OneToken(d) ==
    /\ \A k \in LinksOf(d) : /\ Once(link[k].toBoard, Setting) /\ Once(link[k].toGw, {"OK"})
                             /\ ~(Has(link[k].toBoard, Setting) /\ Has(link[k].toGw, {"OK"}))
    /\ \A j, k \in LinksOf(d) : Busy(j) /\ Busy(k) => j = k
    /\ follow[d] # None => \A k \in LinksOf(d) : ~Busy(k)

NoToken(d) == follow[d] = None /\ \A k \in LinksOf(d) : ~Busy(k)

LinesAsked(d) ==
    /\ \A k \in LinksOf(d) : \A l \in ToSet(link[k].toBoard) : LineOf(l, d)
    /\ follow[d] # None => follow[d].verb \in Setting /\ LineOf(follow[d], d)
    /\ \A c \in CommandsOf(d) : KeptLine(c)

StatesBehind(d) ==
    /\ Behind(dev[d].actual, d)
    /\ gtx.op = "report" /\ link[gtx.conn].device = d => Behind(gtx.relays, d)
    /\ \A k \in LinksOf(d) : \A f \in ToSet(link[k].toGw) :
           f.verb # "ACK" /\ Behind(f.relays, d)

(* What is still wrong is set by the token or by the lines not sent yet.   *)
Covered(k, c, d) ==
    /\ \A l \in ToSet(link[k].toBoard) :
           l.verb \in Setting => Missing(d) \subseteq DOMAIN l.set \cup SetBy(steps[c])
    /\ Has(link[k].toGw, {"OK"}) => Missing(d) \subseteq SetBy(steps[c])

NothingForgotten(d) ==
    /\ follow[d] # None => Missing(d) \subseteq DOMAIN follow[d].set
    /\ \A c \in CommandsOf(d) : Asking(c) =>
           \A k \in LinksOf(d) : Readable(k) => Covered(k, c, d)

Deserved(d) ==
    \A c \in CommandsOf(d) :
        /\ gtx.writes[c].status = "completed" => Missing(d) = {}
        /\ \A w \in Workers : web[w].writes[c].status = "completed" => Missing(d) = {}

Faithful(d) ==
    /\ OneToken(d)
    /\ (\A c \in CommandsOf(d) : Unsent(c)) => NoToken(d)
    /\ LinesAsked(d) /\ StatesBehind(d) /\ NothingForgotten(d) /\ Deserved(d)

SoleIn(d) == dev[d].proto = "2" /\ \A x, y \in CommandsOf(d) : x = y

(* What the transactions and the registry mean, for any number of          *)
(* commands.                                                               *)
Wired ==
    /\ reboots = 0
    /\ \A d \in Devices : board[d].conn # NoConn =>
           Used(board[d].conn) /\ link[board[d].conn].device = d
    /\ \A d \in Devices : registered[d] # NoConn => Held(registered[d])
    /\ \A c \in Commands : ~Row(c) => steps[c] = << >>

WebMeans ==
    \A w \in Workers : \A c \in Commands :
        /\ web[w].writes[c].status \notin {"sent", "pending"}
        /\ web[w].writes[c].status = "completed" =>
               web[w].op = "settle" /\ dev[cmd[c].device].proto = "2"

GatewayMeans ==
    /\ \A c \in Commands :
        /\ gtx.writes[c].status = "sent" => gtx.op = "send" /\ gtx.cmd = c
        /\ gtx.writes[c].status = "pending" => gtx.op = "requeue" /\ gtx.cmd = c
        /\ gtx.writes[c].status = "completed" => dev[cmd[c].device].proto = "2"
    /\ gtx.op \in {"hello", "report", "answer", "send"} => Readable(gtx.conn)
    /\ gtx.op = "requeue" => gtx.cmd = retry
    /\ gtx.op = "answer" =>
         /\ gtx.cmd \in Commands /\ Row(gtx.cmd)
         /\ dev[cmd[gtx.cmd].device].proto = "2" =>
                gtx.writes \in {Only(gtx.cmd, Becomes(s)) : s \in {"failed", "completed"}}
    /\ gtx.op = "send" =>
         /\ retry = None
         /\ gtx.writes = Only(gtx.cmd, Becomes("sent"))
         /\ link[gtx.conn].device = cmd[gtx.cmd].device
         /\ dev[cmd[gtx.cmd].device].proto = "2" => steps[gtx.cmd] = Rest(gtx.cmd)

SwitchInv == /\ Wired /\ WebMeans /\ GatewayMeans
             /\ \A d \in Devices : SoleIn(d) => Faithful(d)

---------------------------------------------------------------------------
(* Streams *)

(* A stretch of a sequence: what is left of it, or got through.            *)
PartOf(t, s) ==
    \E m \in Nat : m + Len(t) <= Len(s) /\ \A i \in 1..Len(t) : t[i] = s[i + m]

LEMMA SetOfSeq ==
  ASSUME NEW S, NEW s \in Seq(S)
  PROVE  ToSet(s) = {s[i] : i \in 1..Len(s)} /\ ToSet(s) \subseteq S
  <1>1. DOMAIN s = 1..Len(s) /\ \A i \in 1..Len(s) : s[i] \in S
    BY LenProperties, ElementOfSeq
  <1> QED BY <1>1 DEF ToSet

LEMMA NothingInIt == ToSet(<< >>) = {}
  BY DEF ToSet

LEMMA PartFacts ==
  ASSUME NEW S, NEW s \in Seq(S), NEW t \in Seq(S), PartOf(t, s)
  PROVE  /\ ToSet(t) \subseteq ToSet(s)
         /\ \A verbs : Has(t, verbs) => Has(s, verbs)
         /\ \A verbs : Once(s, verbs) => Once(t, verbs)
  <1>1. Len(s) \in Nat /\ Len(t) \in Nat BY LenProperties
  <1>2. PICK m \in Nat : m + Len(t) <= Len(s) /\ \A i \in 1..Len(t) : t[i] = s[i + m]
    BY DEF PartOf
  <1>3. \A i \in 1..Len(t) : i + m \in 1..Len(s) BY <1>1, <1>2
  <1>4. ToSet(t) \subseteq ToSet(s) BY <1>2, <1>3, SetOfSeq
  <1>5. \A verbs : Has(t, verbs) => Has(s, verbs) BY <1>4 DEF Has
  <1>6. ASSUME NEW verbs, Once(s, verbs) PROVE Once(t, verbs)
    <2> SUFFICES ASSUME NEW i \in 1..Len(t), NEW j \in 1..Len(t),
                        t[i].verb \in verbs, t[j].verb \in verbs
                 PROVE  i = j
      BY DEF Once
    <2>1. i + m = j + m BY <1>2, <1>3, <1>6 DEF Once
    <2> QED BY <2>1
  <1> QED BY <1>4, <1>5, <1>6

LEMMA PartsOf ==
  ASSUME NEW S, NEW s \in Seq(S)
  PROVE  /\ PartOf(s, s) /\ PartOf(<< >>, s)
         /\ \A n \in 0..Len(s) : /\ PartOf(SubSeq(s, 1, n), s)
                                 /\ PartOf(SubSeq(s, n + 1, Len(s)), s)
         /\ s # << >> => PartOf(Tail(s), s)
  <1>1. Len(s) \in Nat BY LenProperties
  <1>2. PartOf(s, s) /\ PartOf(<< >>, s)
    <2>1. 0 \in Nat /\ 0 + Len(s) <= Len(s) /\ \A i \in 1..Len(s) : s[i] = s[i + 0] BY <1>1
    <2>2. PartOf(s, s) BY <2>1 DEF PartOf
    <2>3. Len(<< >>) = 0 /\ 0 + 0 <= Len(s) BY <1>1
    <2> QED BY <2>2, <2>3 DEF PartOf
  <1>3. ASSUME NEW n \in 0..Len(s)
        PROVE  PartOf(SubSeq(s, 1, n), s) /\ PartOf(SubSeq(s, n + 1, Len(s)), s)
    <2> DEFINE a == SubSeq(s, 1, n)  b == SubSeq(s, n + 1, Len(s))
    <2>1. Len(a) = n /\ \A i \in 1..n : a[i] = s[i]
      BY <1>1, SubSeqProperties
    <2>2. Len(b) = Len(s) - n /\ \A i \in 1..(Len(s) - n) : b[i] = s[i + n]
      <3>1. Len(b) = Len(s) - n BY <1>1, SubSeqProperties
      <3>2. ASSUME NEW i \in 1..(Len(s) - n) PROVE b[i] = s[i + n]
        <4>1. b[i] = s[(n + 1) + i - 1] BY <1>1, <3>1, SubSeqProperties
        <4>2. (n + 1) + i - 1 = i + n BY <1>1
        <4> QED BY <4>1, <4>2
      <3> QED BY <3>1, <3>2
    <2> HIDE DEF a, b
    <2>3. PartOf(a, s)
      <3>1. 0 \in Nat /\ 0 + Len(a) <= Len(s) /\ \A i \in 1..Len(a) : a[i] = s[i + 0]
        BY <1>1, <2>1
      <3> QED BY <3>1 DEF PartOf
    <2>4. PartOf(b, s) BY <1>1, <2>2 DEF PartOf
    <2> QED BY <2>3, <2>4 DEF a, b
  <1>4. ASSUME s # << >> PROVE PartOf(Tail(s), s)
    <2>1. Len(Tail(s)) = Len(s) - 1 /\ \A i \in 1..Len(Tail(s)) : Tail(s)[i] = s[i + 1]
      BY <1>4, HeadTailProperties
    <2> QED BY <1>1, <1>4, <2>1, EmptySeq DEF PartOf
  <1> QED BY <1>2, <1>3, <1>4

(* More is put at the end of a stream.                                     *)
LEMMA JoinFacts ==
  ASSUME NEW S, NEW s \in Seq(S), NEW t \in Seq(S)
  PROVE  /\ ToSet(s \o t) = ToSet(s) \cup ToSet(t)
         /\ \A verbs : Has(s \o t, verbs) <=> Has(s, verbs) \/ Has(t, verbs)
         /\ \A verbs : /\ Once(s, verbs) /\ ~Has(t, verbs) => Once(s \o t, verbs)
                       /\ ~Has(s, verbs) /\ Once(t, verbs) => Once(s \o t, verbs)
  <1> DEFINE u == s \o t  m == Len(s)  n == Len(t)
  <1>1. m \in Nat /\ n \in Nat BY LenProperties
  <1>2. u \in Seq(S) /\ Len(u) = m + n
        /\ \A i \in 1..(m + n) : u[i] = IF i <= m THEN s[i] ELSE t[i - m]
    BY ConcatProperties
  <1>3. /\ ToSet(s) = {s[i] : i \in 1..m} /\ ToSet(t) = {t[i] : i \in 1..n}
        /\ ToSet(u) = {u[i] : i \in 1..(m + n)}
    BY <1>2, SetOfSeq
  <1> HIDE DEF u, m, n
  <1>4. ToSet(u) = ToSet(s) \cup ToSet(t)
    <2>1. ASSUME NEW i \in 1..m PROVE s[i] \in ToSet(u)
      <3>1. i \in 1..(m + n) /\ u[i] = s[i] BY <1>1, <1>2
      <3> QED BY <1>3, <3>1
    <2>2. ASSUME NEW i \in 1..n PROVE t[i] \in ToSet(u)
      <3>1. m + i \in 1..(m + n) /\ ~(m + i <= m) /\ (m + i) - m = i BY <1>1
      <3>2. u[m + i] = t[i] BY <1>2, <3>1
      <3> QED BY <1>3, <3>1, <3>2
    <2>3. ASSUME NEW i \in 1..(m + n) PROVE u[i] \in ToSet(s) \cup ToSet(t)
      <3>1. CASE i <= m BY <1>1, <1>2, <1>3, <3>1
      <3>2. CASE ~(i <= m)
        <4>1. i - m \in 1..n BY <1>1, <3>2
        <4> QED BY <1>2, <1>3, <3>2, <4>1
      <3> QED BY <3>1, <3>2
    <2> QED BY <1>3, <2>1, <2>2, <2>3
  <1>5. \A verbs : Has(u, verbs) <=> Has(s, verbs) \/ Has(t, verbs)
    BY <1>4 DEF Has
  <1>6. ASSUME NEW verbs, NEW i \in 1..(m + n), NEW j \in 1..(m + n),
               u[i].verb \in verbs, u[j].verb \in verbs,
               \/ Once(s, verbs) /\ ~Has(t, verbs)
               \/ ~Has(s, verbs) /\ Once(t, verbs)
        PROVE  i = j
    <2>1. CASE Once(s, verbs) /\ ~Has(t, verbs)
      <3>1. ASSUME NEW x \in 1..(m + n), u[x].verb \in verbs
            PROVE  x \in 1..m /\ s[x].verb \in verbs
        <4>1. CASE x <= m BY <1>1, <1>2, <3>1, <4>1
        <4>2. CASE ~(x <= m)
          <5>1. x - m \in 1..n /\ t[x - m].verb \in verbs BY <1>1, <1>2, <3>1, <4>2
          <5> QED BY <1>3, <2>1, <5>1 DEF Has
        <4> QED BY <4>1, <4>2
      <3> QED BY <1>6, <2>1, <3>1 DEF Once, m
    <2>2. CASE ~Has(s, verbs) /\ Once(t, verbs)
      <3>1. ASSUME NEW x \in 1..(m + n), u[x].verb \in verbs
            PROVE  x - m \in 1..n /\ t[x - m].verb \in verbs
        <4>1. CASE x <= m
          <5>1. x \in 1..m /\ s[x].verb \in verbs BY <1>1, <1>2, <3>1, <4>1
          <5> QED BY <1>3, <2>2, <5>1 DEF Has
        <4>2. CASE ~(x <= m) BY <1>1, <1>2, <3>1, <4>2
        <4> QED BY <4>1, <4>2
      <3>2. i - m = j - m
        <4>1. i - m \in 1..n /\ t[i - m].verb \in verbs BY <1>6, <3>1
        <4>2. j - m \in 1..n /\ t[j - m].verb \in verbs BY <1>6, <3>1
        <4> QED BY <2>2, <4>1, <4>2 DEF Once, n
      <3> QED BY <1>1, <3>2
    <2> QED BY <1>6, <2>1, <2>2
  <1>7. ASSUME NEW verbs,
               \/ Once(s, verbs) /\ ~Has(t, verbs)
               \/ ~Has(s, verbs) /\ Once(t, verbs)
        PROVE  Once(u, verbs)
    BY <1>2, <1>6, <1>7 DEF Once
  <1> QED BY <1>4, <1>5, <1>7 DEF u

(* A stream with one such element that has been taken from its head.       *)
LEMMA LaterHasNone ==
  ASSUME NEW S, NEW s \in Seq(S), s # << >>, NEW verbs, Once(s, verbs), Head(s).verb \in verbs,
         NEW b \in Seq(S), NEW n \in Nat \ {0}, Len(b) = Len(s) - n,
         \A i \in 1..Len(b) : b[i] = s[i + n]
  PROVE  ~Has(b, verbs)
  <1>1. Len(s) \in Nat /\ Len(s) # 0 BY LenProperties, EmptySeq
  <1>2. Head(s) = s[1] OBVIOUS
  <1>3. ASSUME NEW i \in 1..Len(b), b[i].verb \in verbs PROVE FALSE
    <2>1. Len(b) \in Nat BY LenProperties
    <2>2. i + n \in 1..Len(s) /\ 1 \in 1..Len(s) /\ i + n # 1 BY <1>1, <2>1
    <2>3. s[i + n].verb \in verbs /\ s[1].verb \in verbs BY <1>2, <1>3
    <2> QED BY <2>2, <2>3 DEF Once
  <1>4. ToSet(b) = {b[i] : i \in 1..Len(b)} BY SetOfSeq
  <1> QED BY <1>3, <1>4 DEF Has

LEMMA HeadWasIt ==
  ASSUME NEW S, NEW s \in Seq(S), s # << >>, NEW verbs, Once(s, verbs), Head(s).verb \in verbs
  PROVE  /\ \A n \in 1..Len(s) : ~Has(SubSeq(s, n + 1, Len(s)), verbs)
         /\ ~Has(Tail(s), verbs)
  <1>1. Len(s) \in Nat /\ Len(s) # 0 BY LenProperties, EmptySeq
  <1>2. ASSUME NEW n \in 1..Len(s) PROVE ~Has(SubSeq(s, n + 1, Len(s)), verbs)
    <2> DEFINE b == SubSeq(s, n + 1, Len(s))
    <2>1. Len(b) = Len(s) - n /\ b \in Seq(S) /\ n \in Nat \ {0}
      BY <1>1, SubSeqProperties
    <2>2. ASSUME NEW i \in 1..Len(b) PROVE b[i] = s[i + n]
      <3>1. b[i] = s[(n + 1) + i - 1] BY <1>1, <2>1, SubSeqProperties
      <3>2. (n + 1) + i - 1 = i + n BY <1>1, <2>1
      <3> QED BY <3>1, <3>2
    <2> HIDE DEF b
    <2>3. ~Has(b, verbs) BY <2>1, <2>2, LaterHasNone
    <2> QED BY <2>3 DEF b
  <1>3. ~Has(Tail(s), verbs)
    <2> DEFINE b == Tail(s)
    <2>1. Len(b) = Len(s) - 1 /\ b \in Seq(S) /\ \A i \in 1..Len(b) : b[i] = s[i + 1]
      BY HeadTailProperties
    <2> HIDE DEF b
    <2>2. 1 \in Nat \ {0} OBVIOUS
    <2>3. ~Has(b, verbs) BY <2>1, <2>2, LaterHasNone
    <2> QED BY <2>3 DEF b
  <1> QED BY <1>2, <1>3

LEMMA HeadIsInIt ==
  ASSUME NEW S, NEW s \in Seq(S), s # << >>
  PROVE  Head(s) \in ToSet(s)
  <1>1. Len(s) \in Nat /\ Len(s) # 0 BY LenProperties, EmptySeq
  <1>2. Head(s) = s[1] OBVIOUS
  <1> QED BY <1>1, <1>2, SetOfSeq

(* Short streams.                                                          *)
LEMMA ShortSets ==
  /\ \A x : ToSet(<<x>>) = {x}
  /\ \A x, y : ToSet(<<x, y>>) = {x, y}
  /\ \A x, verbs : Once(<<x>>, verbs)
  /\ \A verbs : Once(<< >>, verbs) /\ ~Has(<< >>, verbs)
  <1>1. ASSUME NEW x PROVE ToSet(<<x>>) = {x}
    <2>1. DOMAIN <<x>> = {1} /\ <<x>>[1] = x OBVIOUS
    <2> QED BY <2>1 DEF ToSet
  <1>2. ASSUME NEW x, NEW y PROVE ToSet(<<x, y>>) = {x, y}
    <2>1. DOMAIN <<x, y>> = {1, 2} /\ <<x, y>>[1] = x /\ <<x, y>>[2] = y OBVIOUS
    <2> QED BY <2>1 DEF ToSet
  <1>3. \A x, verbs : Once(<<x>>, verbs) BY DEF Once
  <1>4. \A verbs : Once(<< >>, verbs) /\ ~Has(<< >>, verbs)
    BY NothingInIt DEF Once, Has
  <1> QED BY <1>1, <1>2, <1>3, <1>4

---------------------------------------------------------------------------
(* Steps that leave a device's token where it is, or lose it. *)

SameRows ==
    \A c \in Commands : /\ Row(c)' <=> Row(c)
                        /\ Row(c) => /\ cmd'[c].device = cmd[c].device
                                     /\ cmd'[c].payload = cmd[c].payload
RowsOf(d) ==
    /\ CommandsOf(d)' = CommandsOf(d)
    /\ \A c \in CommandsOf(d) : cmd'[c].payload = cmd[c].payload
SameRelays(d) == board'[d].relays = board[d].relays

(* A stream that has no more of some verbs than it had.                    *)
Fades(t, s, verbs) == /\ \A x \in ToSet(t) : x.verb \in verbs => x \in ToSet(s)
                      /\ Once(s, verbs) => Once(t, verbs)
Calmer(k) == /\ Fades(link'[k].toBoard, link[k].toBoard, Setting)
             /\ Fades(link'[k].toGw, link[k].toGw, {"OK"})
             /\ Readable(k)' => Readable(k)
Calm(k, d) ==
    /\ (link[k].device = d /\ Calmer(k)) \/ ~Busy(k)'
    /\ \A f \in ToSet(link'[k].toGw) :
          \/ link[k].device = d /\ f \in ToSet(link[k].toGw)
          \/ f.verb # "ACK" /\ f.relays \in {None, board[d].relays}
CalmLinks(d) == \A k \in LinksOf(d)' : Calm(k, d)

LEMMA NoneIsOnce ==
  ASSUME NEW S, NEW s \in Seq(S), NEW verbs, ~Has(s, verbs)
  PROVE  Once(s, verbs)
  <1>1. ToSet(s) = {s[i] : i \in 1..Len(s)} BY SetOfSeq
  <1> QED BY <1>1 DEF Has, Once

LEMMA PartFades ==
  ASSUME NEW S, NEW s \in Seq(S), NEW t \in Seq(S), PartOf(t, s), NEW verbs
  PROVE  Fades(t, s, verbs)
  BY PartFacts DEF Fades

LEMMA MoreFades ==
  ASSUME NEW S, NEW s \in Seq(S), NEW t \in Seq(S), NEW u \in Seq(S), NEW verbs,
         Fades(t, s, verbs), ~Has(u, verbs)
  PROVE  Fades(t \o u, s, verbs)
  <1>1. \A x \in ToSet(t \o u) : x.verb \in verbs => x \in ToSet(s)
    BY JoinFacts DEF Has, Fades
  <1>2. Once(s, verbs) => Once(t \o u, verbs) BY JoinFacts DEF Fades
  <1> QED BY <1>1, <1>2 DEF Fades

LEMMA FadesFacts ==
  ASSUME NEW t, NEW s, NEW verbs, Fades(t, s, verbs)
  PROVE  /\ Has(t, verbs) => Has(s, verbs)
         /\ Once(s, verbs) => Once(t, verbs)
  BY DEF Fades, Has

LEMMA RowsOfAll ==
  ASSUME SameRows, NEW d
  PROVE  RowsOf(d)
  BY DEF SameRows, RowsOf, CommandsOf

(* Rows that stay ask the same of relays that stay.                        *)
LEMMA RowsStay ==
  ASSUME NEW d, RowsOf(d)
  PROVE  /\ CommandsOf(d)' = CommandsOf(d)
         /\ \A c \in CommandsOf(d) : cmd'[c].payload = cmd[c].payload
         /\ \A l : LineOf(l, d) => LineOf(l, d)'
         /\ SameRelays(d) => /\ Missing(d)' = Missing(d)
                             /\ Switches(d)' = Switches(d)
                             /\ \A rs : Behind(rs, d) => Behind(rs, d)'
  <1>1. /\ CommandsOf(d)' = CommandsOf(d)
        /\ \A c \in CommandsOf(d) : cmd'[c].payload = cmd[c].payload
    BY DEF RowsOf
  <1>2. \A l : LineOf(l, d) => LineOf(l, d)'
    BY <1>1 DEF LineOf, AskedBy
  <1>3. SameRelays(d) => Missing(d)' = Missing(d) /\ Switches(d)' = Switches(d)
    BY <1>1 DEF SameRelays, Missing, Switches
  <1>4. SameRelays(d) => \A rs : Behind(rs, d) => Behind(rs, d)'
    BY <1>3 DEF SameRelays, Behind
  <1> QED BY <1>1, <1>2, <1>3, <1>4

LEMMA CalmTokens ==
  ASSUME NEW d \in Devices, link' \in [Conns -> Links], CalmLinks(d),
         follow'[d] \in {follow[d], None}
  PROVE  /\ OneToken(d) => OneToken(d)'
         /\ NoToken(d) => NoToken(d)'
         /\ \A k \in LinksOf(d)' : Busy(k)' => k \in LinksOf(d) /\ Calmer(k) /\ Busy(k)
  <1>1. ASSUME NEW k \in LinksOf(d)'
        PROVE  /\ link'[k].toBoard \in Seq(Lines) /\ link'[k].toGw \in Seq(Frames)
               /\ k \in Conns /\ link'[k].device = d /\ Calm(k, d)
    BY <1>1 DEF LinksOf, Links, CalmLinks
  <1>2. ASSUME NEW k \in LinksOf(d)', Busy(k)'
        PROVE  k \in LinksOf(d) /\ Calmer(k) /\ Busy(k)
    <2>1. link[k].device = d /\ Calmer(k) BY <1>1, <1>2 DEF Calm
    <2>2. Busy(k) BY <1>2, <2>1, FadesFacts DEF Calmer, Busy
    <2> QED BY <1>1, <2>1, <2>2 DEF LinksOf
  <1>3. ASSUME NoToken(d) PROVE NoToken(d)'
    BY <1>2, <1>3 DEF NoToken
  <1>4. ASSUME OneToken(d) PROVE OneToken(d)'
    <2>1. ASSUME NEW k \in LinksOf(d)'
          PROVE  /\ Once(link'[k].toBoard, Setting) /\ Once(link'[k].toGw, {"OK"})
                 /\ ~(Has(link'[k].toBoard, Setting) /\ Has(link'[k].toGw, {"OK"}))
      <3>1. CASE ~Busy(k)'
        <4>1. ~Has(link'[k].toBoard, Setting) /\ ~Has(link'[k].toGw, {"OK"})
          BY <3>1 DEF Busy
        <4> QED BY <4>1, <1>1, <2>1, NoneIsOnce
      <3>2. CASE Busy(k)'
        <4>1. k \in LinksOf(d) /\ Calmer(k) BY <1>2, <3>2
        <4>2. /\ Once(link[k].toBoard, Setting) /\ Once(link[k].toGw, {"OK"})
              /\ ~(Has(link[k].toBoard, Setting) /\ Has(link[k].toGw, {"OK"}))
          BY <1>4, <4>1 DEF OneToken
        <4> QED BY <4>1, <4>2, FadesFacts DEF Calmer
      <3> QED BY <3>1, <3>2
    <2>2. ASSUME NEW j \in LinksOf(d)', NEW k \in LinksOf(d)', Busy(j)', Busy(k)'
          PROVE  j = k
      BY <1>2, <1>4, <2>2 DEF OneToken
    <2>3. ASSUME follow'[d] # None, NEW k \in LinksOf(d)', Busy(k)' PROVE FALSE
      BY <1>2, <1>4, <2>3 DEF OneToken
    <2> QED BY <2>1, <2>2, <2>3 DEF OneToken
  <1> QED BY <1>2, <1>3, <1>4

LEMMA CalmFaithful ==
  ASSUME NEW d \in Devices, link' \in [Conns -> Links], Faithful(d),
         RowsOf(d), SameRelays(d), CalmLinks(d), follow'[d] \in {follow[d], None},
         \A c \in CommandsOf(d) :
            /\ Unsent(c)' => Unsent(c) \/ NoToken(d)
            /\ Asking(c)' => \/ Asking(c) /\ steps'[c] = steps[c]
                             \/ Missing(d) = {} \/ NoToken(d)
                             \/ \A k \in LinksOf(d)' : ~Readable(k)'
            /\ KeptLine(c)'
            /\ gtx'.writes[c].status = "completed" => Missing(d) = {}
            /\ \A w \in Workers : web'[w].writes[c].status = "completed" => Missing(d) = {},
         Behind(dev'[d].actual, d),
         gtx'.op = "report" /\ link'[gtx'.conn].device = d => Behind(gtx'.relays, d)
  PROVE  Faithful(d)'
  <1>a. /\ OneToken(d) /\ LinesAsked(d) /\ StatesBehind(d) /\ NothingForgotten(d)
        /\ (\A c \in CommandsOf(d) : Unsent(c)) => NoToken(d)
    BY DEF Faithful
  <1>b. /\ CommandsOf(d)' = CommandsOf(d)
        /\ \A c \in CommandsOf(d) : cmd'[c].payload = cmd[c].payload
        /\ Switches(d)' = Switches(d)
        /\ Missing(d)' = Missing(d)
        /\ \A rs : Behind(rs, d) => Behind(rs, d)'
        /\ \A l : LineOf(l, d) => LineOf(l, d)'
    BY RowsStay
  <1>c. /\ OneToken(d)'
        /\ NoToken(d) => NoToken(d)'
        /\ \A k \in LinksOf(d)' : Busy(k)' => k \in LinksOf(d) /\ Calmer(k) /\ Busy(k)
    BY <1>a, CalmTokens
  <1>1. (\A c \in CommandsOf(d) : Unsent(c)') => NoToken(d)' BY <1>a, <1>c
  <1>2. LinesAsked(d)'
    <2>1. ASSUME NEW k \in LinksOf(d)', NEW l \in ToSet(link'[k].toBoard), l.verb \in Setting
          PROVE  LineOf(l, d)'
      <3>1. Busy(k)' BY <2>1 DEF Busy, Has
      <3>2. k \in LinksOf(d) /\ l \in ToSet(link[k].toBoard)
        BY <1>c, <2>1, <3>1 DEF Calmer, Fades
      <3> QED BY <1>a, <1>b, <3>2 DEF LinesAsked
    <2>2. \A k \in LinksOf(d)' : \A l \in ToSet(link'[k].toBoard) : LineOf(l, d)'
      BY <2>1 DEF LineOf
    <2>3. follow'[d] # None => follow'[d].verb \in Setting /\ LineOf(follow[d], d)'
      BY <1>a, <1>b DEF LinesAsked, LineOf, AskedBy
    <2>4. \A c \in CommandsOf(d)' : KeptLine(c)' BY <1>b
    <2> HIDE DEF KeptLine
    <2> QED BY <2>2, <2>3, <2>4 DEF LinesAsked
  <1>3. StatesBehind(d)'
    <2>1. ASSUME NEW k \in LinksOf(d)', NEW f \in ToSet(link'[k].toGw)
          PROVE  f.verb # "ACK" /\ Behind(f.relays, d)'
      <3>1. CASE link[k].device = d /\ f \in ToSet(link[k].toGw)
        <4>1. k \in LinksOf(d) BY <3>1 DEF LinksOf
        <4> QED BY <1>a, <1>b, <3>1, <4>1 DEF StatesBehind
      <3>2. CASE f.verb # "ACK" /\ f.relays \in {None, board[d].relays}
        <4>1. Behind(f.relays, d) BY <3>2 DEF Behind
        <4> QED BY <1>b, <3>2, <4>1
      <3> QED BY <2>1, <3>1, <3>2 DEF CalmLinks, Calm
    <2>2. Behind(dev[d].actual, d)' BY <1>b DEF Behind, SameRelays
    <2>3. gtx'.op = "report" /\ link'[gtx'.conn].device = d => Behind(gtx.relays, d)'
      BY <1>b DEF Behind, SameRelays
    <2> HIDE DEF Behind
    <2> QED BY <2>1, <2>2, <2>3 DEF StatesBehind
  <1>4. NothingForgotten(d)'
    <2>1. follow'[d] # None => Missing(d)' \subseteq DOMAIN follow'[d].set
      BY <1>a, <1>b DEF NothingForgotten
    <2>2. ASSUME NEW c \in CommandsOf(d), Asking(c)', NEW k \in LinksOf(d)', Readable(k)'
          PROVE  Covered(k, c, d)'
      <3>1. CASE ~Busy(k)' BY <3>1 DEF Covered, Busy, Has
      <3>2. CASE Missing(d) = {} BY <1>b, <3>2 DEF Covered
      <3>3. CASE NoToken(d)
        <4>1. ~Busy(k)' BY <1>c, <3>3 DEF NoToken
        <4> QED BY <3>1, <4>1
      <3>4. CASE Asking(c) /\ steps'[c] = steps[c] /\ Busy(k)'
        <4>1. k \in LinksOf(d) /\ Calmer(k) /\ Readable(k)
          BY <1>c, <2>2, <3>4 DEF Calmer
        <4>2. Covered(k, c, d) BY <1>a, <3>4, <4>1 DEF NothingForgotten
        <4>3. \A l \in ToSet(link'[k].toBoard) : l.verb \in Setting => l \in ToSet(link[k].toBoard)
          BY <4>1 DEF Calmer, Fades
        <4>4. Has(link'[k].toGw, {"OK"}) => Has(link[k].toGw, {"OK"})
          BY <4>1, FadesFacts DEF Calmer
        <4> QED BY <1>b, <3>4, <4>2, <4>3, <4>4 DEF Covered
      <3> QED BY <2>2, <3>1, <3>2, <3>3, <3>4
    <2> QED BY <1>b, <2>1, <2>2 DEF NothingForgotten
  <1>5. Deserved(d)' BY <1>b DEF Deserved
  <1> QED BY <1>b, <1>c, <1>1, <1>2, <1>3, <1>4, <1>5 DEF Faithful

---------------------------------------------------------------------------
(* What a payload is sent as. *)

LEMMA ShortJoins ==
  ASSUME NEW S, NEW a \in S, NEW b \in S
  PROVE  /\ (<<a>> \o <<b>>) \o << >> = <<a, b>>
         /\ (<<a>> \o << >>) \o << >> = <<a>>
         /\ (<< >> \o <<a>>) \o << >> = <<a>>
         /\ (<< >> \o << >>) \o <<a>> = <<a>>
  <1>1. <<a>> \in Seq(S) /\ <<a, b>> \in Seq(S) /\ << >> \in Seq(S) OBVIOUS
  <1>2. <<a>> \o <<b>> = <<a, b>>
    <2> DEFINE u == <<a>> \o <<b>>
    <2>1. <<a>> \in Seq(S) /\ <<b>> \in Seq(S) OBVIOUS
    <2>2. /\ u \in Seq(S) /\ Len(u) = Len(<<a>>) + Len(<<b>>)
          /\ \A i \in 1..(Len(<<a>>) + Len(<<b>>)) :
                 u[i] = IF i <= Len(<<a>>) THEN <<a>>[i] ELSE <<b>>[i - Len(<<a>>)]
      BY <2>1, ConcatProperties
    <2>3. Len(<<a>>) = 1 /\ Len(<<b>>) = 1 /\ <<a>>[1] = a /\ <<b>>[1] = b OBVIOUS
    <2> HIDE DEF u
    <2>4. Len(u) = 2 /\ u[1] = a /\ u[2] = b BY <2>2, <2>3
    <2>5. Len(<<a, b>>) = 2 /\ <<a, b>>[1] = a /\ <<a, b>>[2] = b OBVIOUS
    <2>6. u = <<a, b>> BY <1>1, <2>2, <2>4, <2>5, SeqEqual
    <2> QED BY <2>6 DEF u
  <1> QED BY <1>1, <1>2, ConcatEmptySeq

(* A setting and what comes after it set all that a payload asks.          *)
Sets(first, rest, p) ==
    /\ first.verb \in Setting /\ AskedBy(first, p)
    /\ Len(rest) <= 1
    /\ \A l \in ToSet(rest) : l.verb \in Setting /\ AskedBy(l, p)
    /\ DOMAIN p \subseteq DOMAIN first.set \cup SetBy(rest)

LEMMA LinesOfPayload ==
  ASSUME NEW p \in Payloads
  PROVE  Sets(Head(V2Steps(p)), Tail(V2Steps(p)), p)
  <1>1. ASSUME NEW r \in Relays, r \in DOMAIN p
        PROVE  /\ SetLine(r, p[r]).verb \in Setting /\ AskedBy(SetLine(r, p[r]), p)
               /\ DOMAIN SetLine(r, p[r]).set = {r}
               /\ SetLine(r, p[r]) \in Lines
    <2>1. p[r] \in 0..1 BY <1>1, PayloadsAreSettings DEF Settings
    <2> QED BY <1>1, <2>1, LineTypes DEF SetLine, Setting, AskedBy
  <1>2. (\E r \in Relays : DOMAIN p = {r}) \/ DOMAIN p = {"C6", "C7"}
    BY PayloadsAssumption DEF FormPayloads
  <1>3. V2Steps(p) = (StepFor(p, "C6") \o StepFor(p, "C7")) \o StepFor(p, "C8")
    BY <1>2 DEF V2Steps, Relays
  <1>4. CASE DOMAIN p = {"C6", "C7"}
    <2> DEFINE a == SetLine("C6", p["C6"])  b == SetLine("C7", p["C7"])
    <2>1. StepFor(p, "C6") = <<a>> /\ StepFor(p, "C7") = <<b>> /\ StepFor(p, "C8") = << >>
      BY <1>4 DEF StepFor
    <2>2. /\ a.verb \in Setting /\ AskedBy(a, p) /\ DOMAIN a.set = {"C6"} /\ a \in Lines
          /\ b.verb \in Setting /\ AskedBy(b, p) /\ DOMAIN b.set = {"C7"} /\ b \in Lines
      BY <1>1, <1>4 DEF Relays
    <2> HIDE DEF a, b
    <2>3. V2Steps(p) = <<a, b>> BY <1>3, <2>1, <2>2, ShortJoins
    <2>4. Head(V2Steps(p)) = a /\ Tail(V2Steps(p)) = <<b>> BY <2>3
    <2>5. ToSet(<<b>>) = {b} /\ Len(<<b>>) = 1 BY ShortSets
    <2>6. SetBy(<<b>>) = {"C7"} BY <2>2, <2>5 DEF SetBy
    <2>7. Sets(a, <<b>>, p) BY <1>4, <2>2, <2>5, <2>6 DEF Sets
    <2> QED BY <2>4, <2>7
  <1>5. CASE \E r \in Relays : DOMAIN p = {r}
    <2>1. PICK r \in Relays : DOMAIN p = {r} BY <1>5
    <2> DEFINE a == SetLine(r, p[r])
    <2>2. /\ a.verb \in Setting /\ AskedBy(a, p) /\ DOMAIN a.set = {r} /\ a \in Lines
      BY <1>1, <2>1
    <2>3. \A x \in Relays : StepFor(p, x) = IF x = r THEN <<a>> ELSE << >>
      BY <2>1 DEF StepFor
    <2> HIDE DEF a
    <2>4. V2Steps(p) = <<a>> BY <1>3, <2>2, <2>3, ShortJoins DEF Relays
    <2>5. Head(V2Steps(p)) = a /\ Tail(V2Steps(p)) = << >> BY <2>4
    <2>6. ToSet(<< >>) = {} /\ Len(<< >>) = 0 BY NothingInIt
    <2>7. Sets(a, << >>, p) BY <2>1, <2>2, <2>6 DEF Sets
    <2> QED BY <2>5, <2>7
  <1> QED BY <1>2, <1>4, <1>5

---------------------------------------------------------------------------
(* The rows. *)

LEMMA StatusAfter ==
  ASSUME TypeOK, NEW ws \in [Commands -> Writes], NEW c \in Commands
  PROVE  /\ Updated(ws)[c].status = IF ws[c].status = "keep" THEN cmd[c].status
                                    ELSE ws[c].status
         /\ ws[c] = Keep => Updated(ws)[c].confirmed = cmd[c].confirmed
  <1>1. cmd[c] \in CommandRows /\ ws[c] \in Writes BY DEF TypeOK, StoreTypeOK
  <1>2. Updated(ws)[c] = Update(cmd[c], ws[c]) BY DEF Updated
  <1> QED BY <1>1, <1>2 DEF Update, CommandRows, Writes, Keep

LEMMA UpdateSameRows ==
  ASSUME Inv, NEW ws \in [Commands -> Writes], OfRows(ws),
         \A c \in Commands : /\ cmd'[c].status = Updated(ws)[c].status
                             /\ cmd'[c].device = Updated(ws)[c].device
                             /\ cmd'[c].payload = Updated(ws)[c].payload
  PROVE  SameRows
  BY UpdatedType, UpdatedRows DEF Inv, TypeOK, StoreTypeOK, SameRows, Row

LEMMA TableSameRows == UNCHANGED cmd => SameRows
  BY DEF SameRows, Row

SameProtocols == \A d \in Devices : dev'[d].proto = dev[d].proto

LEMMA ProtoKept ==
  ASSUME Inv, SameProtocols, NEW c \in Commands, Row(c), cmd'[c].device = cmd[c].device
  PROVE  dev'[cmd'[c].device].proto = dev[cmd[c].device].proto
  BY DEF Inv, RowsKnown, SameProtocols

LEMMA SoleBack ==
  ASSUME NEW d \in Devices, SoleIn(d)', SameProtocols,
         \A c \in Commands : Row(c) => Row(c)' /\ cmd'[c].device = cmd[c].device
  PROVE  SoleIn(d)
  BY DEF SoleIn, SameProtocols, CommandsOf

(* A sole command is all that its device's relays are asked.               *)
LEMMA SoleMissing ==
  ASSUME NEW d, SoleIn(d), NEW c \in CommandsOf(d), NEW rs, Behind(rs, d),
         PayloadMatches(cmd[c].payload, rs)
  PROVE  Missing(d) = {}
  <1>1. ASSUME NEW r \in Missing(d) PROVE FALSE
    <2>1. /\ r \in Relays /\ r \in DOMAIN cmd[c].payload
          /\ board[d].relays[r] # cmd[c].payload[r]
      BY DEF Missing, SoleIn
    <2>2. rs # None /\ rs[r] # board[d].relays[r] BY <2>1 DEF PayloadMatches
    <2>3. r \in Switches(d) BY <2>1, <2>2 DEF Behind
    <2> QED BY <2>1, <2>3 DEF Switches, SoleIn
  <1> QED BY <1>1

LEMMA KeptLineStays ==
  ASSUME NEW c, KeptLine(c), cmd'[c].payload = cmd[c].payload, steps'[c] = steps[c]
  PROVE  KeptLine(c)'
  BY DEF KeptLine, AskedBy

LEMMA NoKeptLine ==
  ASSUME NEW c, steps'[c] = << >>
  PROVE  KeptLine(c)'
  <1>1. Len(<< >>) = 0 OBVIOUS
  <1> QED BY <1>1, NothingInIt DEF KeptLine

---------------------------------------------------------------------------
(* What the other parts of the invariant keep. *)

LEMMA WebMeansKept ==
  ASSUME Inv, WebMeans, SameProtocols,
         \A c \in Commands : Row(c) => cmd'[c].device = cmd[c].device,
         \A w \in Workers : web'[w] = web[w] \/ web'[w].writes = NoWrites
  PROVE  WebMeans'
  <1> SUFFICES ASSUME NEW w \in Workers, NEW c \in Commands
               PROVE  /\ web'[w].writes[c].status \notin {"sent", "pending"}
                      /\ web'[w].writes[c].status = "completed" =>
                             /\ web'[w].op = "settle"
                             /\ dev'[cmd'[c].device].proto = "2"
    BY DEF WebMeans
  <1>1. CASE web'[w].writes = NoWrites
    BY <1>1 DEF NoWrites, Keep
  <1>2. CASE web'[w] = web[w]
    <2>1. /\ web[w].writes[c].status \notin {"sent", "pending"}
          /\ web[w].writes[c].status = "completed" =>
                 web[w].op = "settle" /\ dev[cmd[c].device].proto = "2"
      BY DEF WebMeans
    <2>2. web[w].writes[c].status = "completed" => Row(c)
      BY DEF Inv, WebKnown, OfRows, Keep
    <2> QED BY <1>2, <2>1, <2>2, ProtoKept
  <1> QED BY <1>1, <1>2

LEMMA GatewayMeansKept ==
  ASSUME Inv, GatewayMeans, SameProtocols, UNCHANGED <<gtx, retry, steps>>,
         \A c \in Commands : Row(c) => /\ Row(c)' /\ cmd'[c].device = cmd[c].device
                                       /\ cmd'[c].payload = cmd[c].payload,
         \A k \in Conns : Used(k) => link'[k].device = link[k].device,
         \A k : Readable(k) => Readable(k)'
  PROVE  GatewayMeans'
  <1>1. \A c \in Commands : gtx.writes[c].status \in {"sent", "pending", "completed"} => Row(c)
    BY DEF Inv, GatewayKnown, OfRows, Keep
  <1>2. \A c \in Commands : Row(c) => dev'[cmd'[c].device].proto = dev[cmd[c].device].proto
    BY ProtoKept
  <1>3. gtx.op = "send" => /\ gtx.cmd \in Commands /\ Row(gtx.cmd) /\ gtx.conn \in Conns
                           /\ Used(gtx.conn)
    BY DEF Inv, GatewayKnown, Used
  <1>4. gtx.op = "send" => Rest(gtx.cmd)' = Rest(gtx.cmd)
    BY <1>3 DEF Rest, V2Steps, StepFor
  <1>5. \A c \in Commands : Row(c) => Row(c)' OBVIOUS
  <1>6. \A c \in Commands :
          /\ gtx.writes[c].status = "sent" => gtx.op = "send" /\ gtx.cmd = c
          /\ gtx.writes[c].status = "pending" => gtx.op = "requeue" /\ gtx.cmd = c
          /\ gtx.writes[c].status = "completed" => dev'[cmd'[c].device].proto = "2"
    BY <1>1, <1>2 DEF GatewayMeans
  <1>7. gtx.op \in {"hello", "report", "answer", "send"} => Readable(gtx.conn)'
    BY DEF GatewayMeans
  <1>8. gtx.op = "requeue" => gtx.cmd = retry BY DEF GatewayMeans
  <1>9. gtx.op = "answer" =>
         /\ gtx.cmd \in Commands /\ Row(gtx.cmd)'
         /\ dev'[cmd'[gtx.cmd].device].proto = "2" =>
                gtx.writes \in {Only(gtx.cmd, Becomes(s)) : s \in {"failed", "completed"}}
    BY <1>2, <1>5 DEF GatewayMeans
  <1>10. gtx.op = "send" =>
         /\ retry = None
         /\ gtx.writes = Only(gtx.cmd, Becomes("sent"))
         /\ link'[gtx.conn].device = cmd'[gtx.cmd].device
         /\ dev'[cmd'[gtx.cmd].device].proto = "2" => steps[gtx.cmd] = Rest(gtx.cmd)'
    BY <1>2, <1>3, <1>4 DEF GatewayMeans
  <1> HIDE DEF Rest, Readable, Row
  <1> QED BY <1>6, <1>7, <1>8, <1>9, <1>10 DEF GatewayMeans, Only, NoWrites, Becomes, Keep

LEMMA IdleMeans == gtx' = IdleGw => GatewayMeans'
  BY DEF GatewayMeans, IdleGw, NoWrites, Keep

LEMMA WiredKept ==
  ASSUME Inv, Wired, UNCHANGED reboots,
         \A d \in Devices : board'[d].conn \in {board[d].conn, NoConn},
         \A k \in Conns : Used(k) => Used(k)' /\ link'[k].device = link[k].device,
         \A d \in Devices : registered'[d] # NoConn => Held(registered[d])',
         \A c \in Commands : ~Row(c)' => ~Row(c) /\ steps'[c] \in {steps[c], << >>}
  PROVE  Wired'
  <1>1. ASSUME NEW d \in Devices, board'[d].conn # NoConn
        PROVE  Used(board[d].conn)' /\ link'[board'[d].conn].device = d
    <2>1. board'[d].conn = board[d].conn /\ Used(board[d].conn)
          /\ link[board[d].conn].device = d
      BY <1>1 DEF Wired
    <2>2. board[d].conn \in Conns BY <2>1 DEF Used
    <2> QED BY <2>1, <2>2 DEF Used
  <1>2. \A c \in Commands : ~Row(c)' => steps'[c] = << >> BY DEF Wired
  <1>3. reboots' = 0 BY DEF Wired
  <1> QED BY <1>1, <1>2, <1>3 DEF Wired

---------------------------------------------------------------------------
(* Streams that only lose what was in them. *)

Shrinks(k) ==
    /\ link'[k].device = link[k].device
    /\ Readable(k)' => Readable(k)
    /\ PartOf(link'[k].toBoard, link[k].toBoard) /\ PartOf(link'[k].toGw, link[k].toGw)

LEMMA StreamTypes ==
  ASSUME Inv, Inv'
  PROVE  /\ link \in [Conns -> Links] /\ link' \in [Conns -> Links]
         /\ \A k \in Conns : /\ link[k].toBoard \in Seq(Lines) /\ link[k].toGw \in Seq(Frames)
                             /\ link'[k].toBoard \in Seq(Lines) /\ link'[k].toGw \in Seq(Frames)
  BY DEF Inv, TypeOK, BoardTypeOK, Links

LEMMA CalmWhere ==
  ASSUME NEW d \in Devices,
         \A k \in Conns : link'[k].device = d =>
            /\ link[k].device = d /\ Calmer(k)
            /\ ToSet(link'[k].toGw) \subseteq ToSet(link[k].toGw)
  PROVE  CalmLinks(d)
  BY DEF CalmLinks, LinksOf, Calm

LEMMA CalmParts ==
  ASSUME Inv, Inv', NEW d \in Devices, \A k \in Conns : Shrinks(k)
  PROVE  CalmLinks(d)
  <1>1. ASSUME NEW k \in Conns
        PROVE  Calmer(k) /\ ToSet(link'[k].toGw) \subseteq ToSet(link[k].toGw)
    <2>1. /\ Fades(link'[k].toBoard, link[k].toBoard, Setting)
          /\ Fades(link'[k].toGw, link[k].toGw, {"OK"})
      BY StreamTypes, PartFades DEF Shrinks
    <2>2. ToSet(link'[k].toGw) \subseteq ToSet(link[k].toGw)
      BY StreamTypes, PartFacts DEF Shrinks
    <2> QED BY <2>1, <2>2 DEF Calmer, Shrinks
  <1> QED BY <1>1, CalmWhere DEF Shrinks

LEMMA SameShrinks ==
  ASSUME Inv, NEW k \in Conns, link'[k] = link[k]
  PROVE  Shrinks(k)
  <1>1. link[k].toBoard \in Seq(Lines) /\ link[k].toGw \in Seq(Frames)
    BY LinkFacts DEF Inv
  <1> QED BY <1>1, PartsOf DEF Shrinks, Readable

---------------------------------------------------------------------------
(* The web side. *)

LEMMA WebFaithful ==
  ASSUME Inv, Inv', NEW d \in Devices, Faithful(d), RestUnchanged, RowsOf(d),
         dev'[d].actual = dev[d].actual,
         \A c \in CommandsOf(d) :
            /\ cmd'[c].status \in {"pending", "sent"} => cmd'[c].status = cmd[c].status
            /\ \A w \in Workers : web'[w].writes[c].status = "completed" => Missing(d) = {}
  PROVE  Faithful(d)'
  <1> USE DEF RestUnchanged, boardVars, gatewayVars, memory
  <1>1. CalmLinks(d) BY SameShrinks, CalmParts
  <1>2. \A c \in CommandsOf(d) : Unsent(c)' => Unsent(c) BY DEF Unsent
  <1>3. \A c \in CommandsOf(d) : Asking(c)' => Asking(c) BY DEF Asking
  <1>4. \A c \in CommandsOf(d) : KeptLine(c)'
    BY RowsStay, KeptLineStays DEF Faithful, LinesAsked
  <1>5. Behind(dev'[d].actual, d)
        /\ (gtx'.op = "report" /\ link'[gtx'.conn].device = d => Behind(gtx'.relays, d))
    BY DEF Faithful, StatesBehind
  <1>6. \A c \in CommandsOf(d) : gtx'.writes[c].status = "completed" => Missing(d) = {}
    BY DEF Faithful, Deserved
  <1>7. link' \in [Conns -> Links] /\ SameRelays(d) BY StreamTypes DEF SameRelays
  <1> HIDE DEF RestUnchanged, boardVars, gatewayVars, memory
  <1>8. UNCHANGED <<steps, follow>> BY DEF RestUnchanged, gatewayVars, memory
  <1> QED BY <1>1, <1>2, <1>3, <1>4, <1>5, <1>6, <1>7, <1>8, CalmFaithful

LEMMA DeservedWrites ==
  ASSUME NEW d \in Devices, Faithful(d), NEW c \in CommandsOf(d), NEW w \in Workers,
         web'[w].writes[c].status = "completed",
         web'[w] = web[w] \/ web'[w].writes = NoWrites
  PROVE  Missing(d) = {}
  BY DEF Faithful, Deserved, NoWrites, Keep, CommandsOf

LEMMA WebRest ==
  ASSUME Inv, Wired, GatewayMeans, RestUnchanged, SameProtocols,
         \A c \in Commands : Row(c) => /\ Row(c)' /\ cmd'[c].device = cmd[c].device
                                       /\ cmd'[c].payload = cmd[c].payload
  PROVE  Wired' /\ GatewayMeans'
  <1> USE DEF RestUnchanged, boardVars, gatewayVars, memory
  <1>1. GatewayMeans' BY GatewayMeansKept DEF Readable
  <1>2. \A d \in Devices : registered[d] # NoConn => Held(registered[d])'
    BY DEF Wired, Held, Readable
  <1>3. Wired' BY <1>2, WiredKept DEF Used
  <1> QED BY <1>1, <1>3

LEMMA SettleBeginSwitch ==
  ASSUME Inv, Inv', SwitchInv, NEW w \in Workers, SettleBegin(w), RestUnchanged
  PROVE  SwitchInv'
  <1> USE DEF SwitchInv
  <1>1. UNCHANGED <<cmd, dev>> /\ SameProtocols /\ SameRows
    BY TableSameRows DEF SettleBegin, storeVars, SameProtocols
  <1>2. Wired' /\ GatewayMeans' BY <1>1, WebRest DEF SameRows
  <1>3. \A v \in Workers : web'[v] = IF v = w THEN [IdleWeb EXCEPT !.op = "settle", !.writes = SettleWrites]
                                     ELSE web[v]
    BY DEF SettleBegin, Inv, TypeOK, WebTypeOK
  <1>4. \A c \in Commands :
          /\ SettleWrites[c].status \notin {"sent", "pending"}
          /\ SettleWrites[c].status = "completed" => Released(c)
    BY DEF SettleWrites, Becomes, Complete, Keep
  <1>5. WebMeans'
    <2>1. web'[w].op = "settle" /\ web'[w].writes = SettleWrites BY <1>3 DEF IdleWeb
    <2>2. \A c \in Commands : Released(c) => dev[cmd[c].device].proto = "2" BY DEF Released
    <2>3. \A v \in Workers : v # w => web'[v] = web[v] BY <1>3
    <2> HIDE DEF Released
    <2> QED BY <1>1, <1>4, <2>1, <2>2, <2>3 DEF WebMeans
  <1>6. ASSUME NEW d \in Devices, SoleIn(d)' PROVE Faithful(d)'
    <2>1. SoleIn(d) /\ Faithful(d) BY <1>1, <1>6, SoleBack DEF SameRows
    <2>2. ASSUME NEW c \in CommandsOf(d), NEW v \in Workers,
                 web'[v].writes[c].status = "completed"
          PROVE  Missing(d) = {}
      <3>1. CASE v # w BY <1>3, <2>1, <2>2, <3>1 DEF Faithful, Deserved
      <3>2. CASE v = w
        <4>1. Released(c) BY <1>3, <1>4, <2>2, <3>2 DEF IdleWeb, CommandsOf
        <4>2. PayloadMatches(cmd[c].payload, dev[d].actual)
          BY <4>1, <2>2 DEF Released, CommandsOf
        <4> QED BY <2>1, <2>2, <4>2, SoleMissing DEF Faithful, StatesBehind
      <3> QED BY <3>1, <3>2
    <2> QED BY <1>1, <2>1, <2>2, RowsOfAll, WebFaithful
  <1> QED BY <1>2, <1>5, <1>6

LEMMA EnqueueBeginSwitch ==
  ASSUME Inv, Inv', SwitchInv, NEW w \in Workers, NEW e \in Devices, NEW p \in Payloads,
         EnqueueBegin(w, e, p), RestUnchanged
  PROVE  SwitchInv'
  <1> USE DEF SwitchInv
  <1>1. UNCHANGED <<cmd, dev>> /\ SameProtocols /\ SameRows
    BY TableSameRows DEF EnqueueBegin, storeVars, SameProtocols
  <1>2. Wired' /\ GatewayMeans' BY <1>1, WebRest DEF SameRows
  <1>3. \A v \in Workers : web'[v] = web[v] \/ web'[v].writes = ExpireOf(e)
    BY DEF EnqueueBegin, Inv, TypeOK, WebTypeOK
  <1>4. \A c \in Commands : ExpireOf(e)[c].status \notin {"sent", "pending", "completed"}
    BY DEF ExpireOf, Becomes, Keep
  <1>5. WebMeans' BY <1>1, <1>3, <1>4 DEF WebMeans
  <1>6. ASSUME NEW d \in Devices, SoleIn(d)' PROVE Faithful(d)'
    <2>1. SoleIn(d) /\ Faithful(d) BY <1>1, <1>6, SoleBack DEF SameRows
    <2>2. ASSUME NEW c \in CommandsOf(d), NEW v \in Workers,
                 web'[v].writes[c].status = "completed"
          PROVE  Missing(d) = {}
      BY <1>3, <1>4, <2>1, <2>2 DEF Faithful, Deserved, CommandsOf
    <2> QED BY <1>1, <2>1, <2>2, RowsOfAll, WebFaithful
  <1> QED BY <1>2, <1>5, <1>6

LEMMA AdminSwitch ==
  ASSUME Inv, Inv', SwitchInv, NEW e \in Devices, EditEnabled(e) \/ DeleteDevice(e), RestUnchanged
  PROVE  SwitchInv'
  <1> USE DEF SwitchInv
  <1>1. UNCHANGED <<cmd, web>> /\ SameRows
    BY TableSameRows DEF EditEnabled, DeleteDevice
  <1>2. SameProtocols /\ \A d \in Devices : dev'[d].actual = dev[d].actual
    BY DEF EditEnabled, DeleteDevice, SameProtocols, Inv, TypeOK, StoreTypeOK, DeviceRows
  <1>3. Wired' /\ GatewayMeans' BY <1>1, <1>2, WebRest DEF SameRows
  <1>4. WebMeans' BY <1>1, <1>2, WebMeansKept
  <1>5. ASSUME NEW d \in Devices, SoleIn(d)' PROVE Faithful(d)'
    <2>1. SoleIn(d) /\ Faithful(d) BY <1>1, <1>2, <1>5, SoleBack DEF SameRows
    <2> QED BY <1>1, <1>2, <2>1, RowsOfAll, WebFaithful, DeservedWrites
  <1> QED BY <1>3, <1>4, <1>5

LEMMA SettleCommitSwitch ==
  ASSUME Inv, Inv', SwitchInv, NEW w \in Workers, SettleCommit(w), RestUnchanged
  PROVE  SwitchInv'
  <1> USE DEF SwitchInv
  <1> DEFINE ws == web[w].writes
  <1>1. ws \in [Commands -> Writes] /\ OfRows(ws)
    BY DEF Inv, TypeOK, WebTypeOK, WebTxs, WebKnown
  <1>2. /\ UNCHANGED dev /\ cmd' \in {cmd, Updated(ws)}
        /\ \A v \in Workers : web'[v] = web[v] \/ web'[v].writes = NoWrites
    BY DEF SettleCommit, IdleWeb, Inv, TypeOK, WebTypeOK
  <1>3. SameRows /\ SameProtocols
    BY <1>1, <1>2, TableSameRows, UpdateSameRows DEF SameProtocols
  <1>4. \A c \in Commands : ws[c].status \notin {"sent", "pending"} BY DEF WebMeans
  <1> HIDE DEF ws
  <1>5. \A c \in Commands :
            cmd'[c].status \in {"pending", "sent"} => cmd'[c].status = cmd[c].status
    BY <1>1, <1>2, <1>4, StatusAfter DEF Inv
  <1>6. Wired' /\ GatewayMeans' BY <1>3, WebRest DEF SameRows
  <1>7. WebMeans' BY <1>2, <1>3, WebMeansKept DEF SameRows
  <1>8. ASSUME NEW d \in Devices, SoleIn(d)' PROVE Faithful(d)'
    <2>1. SoleIn(d) /\ Faithful(d) BY <1>3, <1>8, SoleBack DEF SameRows
    <2> QED BY <1>2, <1>3, <1>5, <2>1, RowsOfAll, WebFaithful, DeservedWrites DEF CommandsOf
  <1> QED BY <1>6, <1>7, <1>8

LEMMA SameTableSwitch ==
  ASSUME Inv, Inv', SwitchInv, UNCHANGED <<cmd, dev>>, RestUnchanged,
         \A w \in Workers : web'[w] = web[w] \/ web'[w].writes = NoWrites
  PROVE  SwitchInv'
  <1> USE DEF SwitchInv
  <1>1. SameRows /\ SameProtocols BY TableSameRows DEF SameProtocols
  <1>2. Wired' /\ GatewayMeans' BY <1>1, WebRest DEF SameRows
  <1>3. WebMeans' BY <1>1, WebMeansKept
  <1>4. ASSUME NEW d \in Devices, SoleIn(d)' PROVE Faithful(d)'
    <2>1. SoleIn(d) /\ Faithful(d) BY <1>1, <1>4, SoleBack DEF SameRows
    <2> QED BY <1>1, <2>1, RowsOfAll, WebFaithful, DeservedWrites
  <1> QED BY <1>2, <1>3, <1>4

(* The first command of a device that was never asked anything.            *)
LEMMA FirstFaithful ==
  ASSUME Inv, Inv', NEW e \in Devices, SoleIn(e), Faithful(e), CommandsOf(e) = {},
         RestUnchanged, UNCHANGED dev, NEW c \in Commands, CommandsOf(e)' = {c},
         cmd'[c].status = "pending", steps[c] = << >>,
         gtx.writes[c].status # "completed",
         \A w \in Workers : web'[w].writes[c].status # "completed"
  PROVE  Faithful(e)'
  <1> USE DEF RestUnchanged, boardVars, gatewayVars, memory
  <1>1. NoToken(e) BY DEF Faithful
  <1>2. NoToken(e)' BY <1>1 DEF NoToken, LinksOf, Busy
  <1>3. OneToken(e)' BY DEF Faithful, OneToken, LinksOf, Busy
  <1>4. \A rs : Behind(rs, e) => rs \in {None, board[e].relays} \/ \A r \in Relays : rs[r] = board[e].relays[r]
    BY DEF Behind, Switches
  <1>5. ASSUME NEW rs, Behind(rs, e) PROVE Behind(rs, e)'
    BY <1>4, <1>5 DEF Behind
  <1>6. StatesBehind(e)'
    <2>1. Behind(dev[e].actual, e)' BY DEF Faithful, StatesBehind, Behind, Switches
    <2>2. gtx.op = "report" /\ link[gtx.conn].device = e => Behind(gtx.relays, e)'
      BY DEF Faithful, StatesBehind, Behind, Switches
    <2>3. \A k \in LinksOf(e) : \A f \in ToSet(link[k].toGw) :
              f.verb # "ACK" /\ Behind(f.relays, e)'
      BY <1>5 DEF Faithful, StatesBehind
    <2> HIDE DEF Behind
    <2> QED BY <2>1, <2>2, <2>3 DEF StatesBehind, LinksOf
  <1>7. LinesAsked(e)'
    <2>1. \A k \in LinksOf(e) : \A l \in ToSet(link[k].toBoard) : l.verb \notin Setting
      BY <1>1 DEF NoToken, Busy, Has
    <2>2. follow[e] = None BY <1>1 DEF NoToken
    <2>3. KeptLine(c)' BY NoKeptLine
    <2> HIDE DEF KeptLine
    <2> QED BY <2>1, <2>2, <2>3 DEF LinesAsked, LineOf, LinksOf
  <1>8. NothingForgotten(e)'
    BY <1>1 DEF NothingForgotten, Asking, NoToken
  <1>9. Deserved(e)' BY DEF Deserved
  <1> QED BY <1>2, <1>3, <1>6, <1>7, <1>8, <1>9 DEF Faithful

LEMMA InsertedSwitch ==
  ASSUME Inv, Inv', SwitchInv, NEW w \in Workers, NEW c \in Commands,
         EnqueueCommit(w, c), cmd' = Inserted(w, c), RestUnchanged
  PROVE  SwitchInv'
  <1> USE DEF SwitchInv
  <1> DEFINE ws == web[w].writes  e == web[w].device
  <1>1. /\ ws \in [Commands -> Writes] /\ OfRows(ws) /\ e \in Devices
        /\ web[w].op = "enqueue" /\ ~Row(c)
    BY DEF EnqueueCommit, RowsLeft, Row, Inv, TypeOK, WebTypeOK, WebTxs, WebKnown
  <1>2. /\ UNCHANGED dev /\ SameProtocols
        /\ \A v \in Workers : web'[v] = web[v] \/ web'[v].writes = NoWrites
    BY DEF EnqueueCommit, IdleWeb, SameProtocols, Inv, TypeOK, WebTypeOK
  <1>3. \A x \in Commands : cmd'[x] = IF x = c THEN NewRow(e, web[w].payload) ELSE Updated(ws)[x]
    BY DEF Inserted, Updated
  <1>4. \A x \in Commands : ws[x].status \notin {"sent", "pending"} BY DEF WebMeans
  <1>5. /\ Row(c)' /\ cmd'[c].status = "pending" /\ cmd'[c].device = e
    BY <1>3 DEF NewRow, NoRow, Row
  <1> HIDE DEF ws
  <1>6. ASSUME NEW x \in Commands, x # c
        PROVE  /\ Row(x)' <=> Row(x)
               /\ cmd'[x].device = cmd[x].device /\ cmd'[x].payload = cmd[x].payload
               /\ cmd'[x].status \in {"pending", "sent"} => cmd'[x].status = cmd[x].status
    <2>1. cmd'[x] = Updated(ws)[x] BY <1>3, <1>6
    <2>2. cmd \in [Commands -> CommandRows] BY DEF Inv, TypeOK, StoreTypeOK
    <2>3. (Updated(ws)[x].status # "none") <=> Row(x) BY <1>1, <2>2, UpdatedRows
    <2> QED BY <1>1, <1>4, <2>1, <2>2, <2>3, UpdatedType, StatusAfter DEF Inv, Row
  <1>7. \A x \in Commands : Row(x) => /\ Row(x)' /\ cmd'[x].device = cmd[x].device
                                      /\ cmd'[x].payload = cmd[x].payload
    BY <1>1, <1>6
  <1>8. Wired' /\ GatewayMeans' BY <1>2, <1>7, WebRest
  <1>9. WebMeans' BY <1>2, <1>7, WebMeansKept
  <1>10. ASSUME NEW d \in Devices, SoleIn(d)' PROVE Faithful(d)'
    <2>1. SoleIn(d) /\ Faithful(d) BY <1>2, <1>7, <1>10, SoleBack
    <2>2. CASE d # e
      <3>1. RowsOf(d) BY <1>1, <1>5, <1>6, <2>2 DEF RowsOf, CommandsOf
      <3>2. \A x \in CommandsOf(d) :
                cmd'[x].status \in {"pending", "sent"} => cmd'[x].status = cmd[x].status
        BY <1>1, <1>6 DEF CommandsOf
      <3> QED BY <1>2, <2>1, <3>1, <3>2, WebFaithful, DeservedWrites
    <2>3. CASE d = e
      <3>1. CommandsOf(d)' = {c} /\ CommandsOf(d) = {}
        <4>1. c \in CommandsOf(d)' BY <1>5, <2>3 DEF CommandsOf
        <4>2. \A x \in CommandsOf(d) : x \in CommandsOf(d)' /\ x # c
          BY <1>1, <1>7 DEF CommandsOf
        <4> QED BY <1>10, <4>1, <4>2 DEF SoleIn
      <3>2. steps[c] = << >> BY <1>1 DEF Wired
      <3>3. gtx.writes[c].status # "completed"
            /\ \A v \in Workers : web[v].writes[c].status # "completed"
        BY <1>1 DEF Inv, GatewayKnown, WebKnown, OfRows, Keep
      <3>4. \A v \in Workers : web'[v].writes[c].status # "completed"
        BY <1>2, <3>3 DEF NoWrites, Keep
      <3> QED BY <1>2, <1>5, <2>1, <2>3, <3>1, <3>2, <3>3, <3>4, FirstFaithful
    <2> QED BY <2>2, <2>3
  <1> QED BY <1>8, <1>9, <1>10

LEMMA WebSwitch ==
  ASSUME Inv, Inv', SwitchInv, Web
  PROVE  SwitchInv'
  <1>1. RestUnchanged BY DEF Web, RestUnchanged
  <1>2. ASSUME NEW w \in Workers, WebBegin(w) PROVE SwitchInv'
    BY <1>1, <1>2, SettleBeginSwitch, EnqueueBeginSwitch DEF WebBegin
  <1>3. ASSUME NEW w \in Workers, NEW c \in Commands, EnqueueCommit(w, c) PROVE SwitchInv'
    <2>1. CASE cmd' = Inserted(w, c) BY <1>1, <1>3, <2>1, InsertedSwitch
    <2>2. CASE cmd' = cmd
      <3>1. UNCHANGED dev /\ \A v \in Workers : web'[v] = web[v] \/ web'[v].writes = NoWrites
        BY <1>3 DEF EnqueueCommit, IdleWeb, Inv, TypeOK, WebTypeOK
      <3> QED BY <1>1, <2>2, <3>1, SameTableSwitch
    <2> QED BY <1>3, <2>1, <2>2 DEF EnqueueCommit
  <1>4. ASSUME NEW w \in Workers, WebCommit(w) PROVE SwitchInv'
    BY <1>1, <1>3, <1>4, SettleCommitSwitch DEF WebCommit
  <1>5. ASSUME AdminRequest PROVE SwitchInv'
    BY <1>1, <1>5, AdminSwitch DEF AdminRequest
  <1> QED BY <1>2, <1>4, <1>5 DEF Web

(* A deadline changes no status.                                           *)
LEMMA ClockSwitch ==
  ASSUME Inv, Inv', SwitchInv, Clock
  PROVE  SwitchInv'
  <1> USE DEF SwitchInv
  <1>1. RestUnchanged /\ UNCHANGED <<dev, web>> /\ SameProtocols
    BY DEF Clock, Deadline, webVars, boardVars, gatewayVars, memory, RestUnchanged, SameProtocols
  <1>2. \A c \in Commands : /\ cmd'[c].status = cmd[c].status /\ cmd'[c].device = cmd[c].device
                            /\ cmd'[c].payload = cmd[c].payload
    BY DEF Clock, Deadline, Inv, TypeOK, StoreTypeOK, CommandRows
  <1>3. SameRows BY <1>2 DEF SameRows, Row
  <1>4. Wired' /\ GatewayMeans' BY <1>1, <1>3, WebRest DEF SameRows
  <1>5. WebMeans' BY <1>1, <1>2, WebMeansKept
  <1>6. ASSUME NEW d \in Devices, SoleIn(d)' PROVE Faithful(d)'
    <2>1. SoleIn(d) /\ Faithful(d) BY <1>1, <1>3, <1>6, SoleBack DEF SameRows
    <2> QED BY <1>1, <1>2, <1>3, <2>1, RowsOfAll, WebFaithful, DeservedWrites DEF CommandsOf
  <1> QED BY <1>4, <1>5, <1>6

---------------------------------------------------------------------------
(* The controllers. *)

LEMMA ControllerFaithful ==
  ASSUME Inv, Inv', NEW d \in Devices, Faithful(d), OthersUnchanged, SameRelays(d),
         CalmLinks(d), \A k \in Conns : Used(k) => link'[k].device = link[k].device
  PROVE  Faithful(d)'
  <1> USE DEF OthersUnchanged, storeVars, webVars, gatewayVars, memory
  <1>1. RowsOf(d) BY TableSameRows, RowsOfAll
  <1>2. \A c \in CommandsOf(d) :
            /\ Unsent(c)' => Unsent(c)
            /\ Asking(c)' => Asking(c)
            /\ gtx'.writes[c].status = "completed" => Missing(d) = {}
            /\ \A w \in Workers : web'[w].writes[c].status = "completed" => Missing(d) = {}
    BY DEF Unsent, Asking, Faithful, Deserved
  <1>3. \A c \in CommandsOf(d) : KeptLine(c)'
    BY <1>1, RowsStay, KeptLineStays DEF Faithful, LinesAsked
  <1>4. gtx.op = "report" => gtx.conn \in Conns /\ Used(gtx.conn)
    BY DEF Inv, GatewayKnown, Used
  <1>5. Behind(dev'[d].actual, d)
        /\ (gtx'.op = "report" /\ link'[gtx'.conn].device = d => Behind(gtx'.relays, d))
    BY <1>4 DEF Faithful, StatesBehind
  <1>6. link' \in [Conns -> Links] /\ UNCHANGED <<steps, follow>> BY StreamTypes
  <1> HIDE DEF OthersUnchanged, storeVars, webVars, gatewayVars, memory
  <1> QED BY <1>1, <1>2, <1>3, <1>5, <1>6, CalmFaithful

LEMMA ControllerRest ==
  ASSUME Inv, SwitchInv, OthersUnchanged,
         \A k \in Conns : Used(k) => /\ link'[k].device = link[k].device
                                     /\ link'[k].gw = link[k].gw
  PROVE  /\ WebMeans' /\ GatewayMeans' /\ SameRows /\ SameProtocols
         /\ \A d \in Devices : registered'[d] # NoConn => Held(registered[d])'
         /\ \A c \in Commands : ~Row(c)' => ~Row(c) /\ steps'[c] \in {steps[c], << >>}
  <1> USE DEF OthersUnchanged, storeVars, webVars, gatewayVars, memory, SwitchInv
  <1>1. SameRows /\ SameProtocols BY TableSameRows DEF SameProtocols
  <1>2. WebMeans' BY <1>1, WebMeansKept
  <1>3. gtx.op \in {"hello", "report", "answer", "send"} => gtx.conn \in Conns /\ Used(gtx.conn)
    BY DEF Inv, GatewayKnown, Used
  <1>4. GatewayMeans'
    <2>1. gtx.op \in {"hello", "report", "answer", "send"} => Readable(gtx.conn)'
      BY <1>3 DEF GatewayMeans, Readable
    <2>2. gtx.op = "send" => link'[gtx.conn].device = link[gtx.conn].device BY <1>3
    <2>3. Rest(gtx.cmd)' = Rest(gtx.cmd) BY DEF Rest, V2Steps, StepFor
    <2> HIDE DEF Rest, Readable
    <2> QED BY <1>1, <2>1, <2>2, <2>3 DEF GatewayMeans, Row
  <1>5. ASSUME NEW d \in Devices, registered'[d] # NoConn PROVE Held(registered[d])'
    <2>1. Used(registered[d]) /\ registered[d] \in Conns
      BY <1>5 DEF Inv, LinksKnown, Used
    <2> QED BY <1>5, <2>1 DEF Wired, Held, Readable
  <1> QED BY <1>1, <1>2, <1>4, <1>5 DEF Row

(* One board and the connection that it has.                               *)
LEMMA BoardSwitch ==
  ASSUME Inv, Inv', SwitchInv, OthersUnchanged, UNCHANGED reboots,
         NEW e \in Devices, NEW k \in Conns, k = board[e].conn,
         \A i \in Conns : i # k => link'[i] = link[i],
         link'[k].device = link[k].device, link'[k].gw = link[k].gw,
         \A d \in Devices : d # e => board'[d] = board[d],
         board'[e].conn \in {board[e].conn, NoConn},
         SoleIn(e) /\ Faithful(e) => Faithful(e)'
  PROVE  SwitchInv'
  <1>1. \A i \in Conns : link'[i].device = link[i].device /\ link'[i].gw = link[i].gw
    OBVIOUS
  <1>2. /\ WebMeans' /\ GatewayMeans' /\ SameRows /\ SameProtocols
        /\ \A d \in Devices : registered'[d] # NoConn => Held(registered[d])'
        /\ \A c \in Commands : ~Row(c)' => ~Row(c) /\ steps'[c] \in {steps[c], << >>}
    BY <1>1, ControllerRest
  <1>3. Wired'
    <2>1. \A d \in Devices : board'[d].conn \in {board[d].conn, NoConn} OBVIOUS
    <2>2. \A i \in Conns : Used(i) => Used(i)' BY <1>1 DEF Used
    <2> QED BY <1>1, <1>2, <2>1, <2>2, WiredKept DEF SwitchInv
  <1>4. ASSUME NEW d \in Devices, SoleIn(d)' PROVE Faithful(d)'
    <2>1. SoleIn(d) /\ Faithful(d) BY <1>2, <1>4, SoleBack DEF SameRows, SwitchInv
    <2>2. CASE d = e BY <2>1, <2>2
    <2>3. CASE d # e
      <3>1. k # NoConn BY DEF Conns, NoConn
      <3>2. link[k].device = e BY <3>1 DEF SwitchInv, Wired
      <3>3. ASSUME NEW i \in Conns, link'[i].device = d
            PROVE  /\ link[i].device = d /\ Calmer(i)
                   /\ ToSet(link'[i].toGw) \subseteq ToSet(link[i].toGw)
        <4>1. i # k BY <2>3, <3>2, <3>3
        <4>2. link'[i] = link[i] BY <4>1
        <4> QED BY <3>3, <4>2 DEF Calmer, Fades, Readable
      <3>4. CalmLinks(d) BY <3>3, CalmWhere
      <3>5. SameRelays(d) BY <2>3 DEF SameRelays
      <3> QED BY <1>1, <2>1, <3>4, <3>5, ControllerFaithful
    <2> QED BY <2>2, <2>3
  <1> QED BY <1>2, <1>3, <1>4 DEF SwitchInv

(* ... when neither its relays nor its token move.                         *)
LEMMA BoardCalmSwitch ==
  ASSUME Inv, Inv', SwitchInv, OthersUnchanged, UNCHANGED reboots,
         NEW e \in Devices, NEW k \in Conns, k = board[e].conn,
         \A i \in Conns : i # k => link'[i] = link[i],
         link'[k].device = link[k].device, link'[k].gw = link[k].gw,
         \A d \in Devices : d # e => board'[d] = board[d],
         board'[e].conn \in {board[e].conn, NoConn},
         SameRelays(e),
         Fades(link'[k].toBoard, link[k].toBoard, Setting),
         Fades(link'[k].toGw, link[k].toGw, {"OK"}),
         \A f \in ToSet(link'[k].toGw) : \/ f \in ToSet(link[k].toGw)
                                         \/ f.verb # "ACK" /\ f.relays \in {None, board[e].relays}
  PROVE  SwitchInv'
  <1>1. k # NoConn BY DEF Conns, NoConn
  <1>2. link[k].device = e BY <1>1 DEF SwitchInv, Wired
  <1>3. ASSUME NEW i \in Conns, link'[i].device = e PROVE Calm(i, e)
    <2>1. CASE i = k BY <1>2, <2>1 DEF Calm, Calmer, Readable
    <2>2. CASE i # k
      <3>1. link'[i] = link[i] BY <2>2
      <3> QED BY <1>3, <3>1 DEF Calm, Calmer, Fades, Readable
    <2> QED BY <2>1, <2>2
  <1>4. CalmLinks(e) BY <1>3 DEF CalmLinks, LinksOf
  <1>5. Faithful(e) => Faithful(e)' BY <1>4, ControllerFaithful
  <1> QED BY <1>5, BoardSwitch

LEMMA DropSwitch ==
  ASSUME Inv, Inv', SwitchInv, OthersUnchanged, NEW e \in Devices, NEW n, Drop(e, n)
  PROVE  SwitchInv'
  <1> DEFINE k == board[e].conn
  <1>1. k \in Conns BY BoardFacts DEF Inv, Drop
  <1> HIDE DEF k
  <1>2. /\ \A i \in Conns : i # k => link'[i] = link[i]
        /\ link'[k].device = link[k].device /\ link'[k].gw = link[k].gw
        /\ link'[k].toBoard = << >> /\ link'[k].toGw = SubSeq(link[k].toGw, 1, n)
        /\ n \in 0..Len(link[k].toGw) /\ UNCHANGED reboots
    BY <1>1, LinkFacts DEF Inv, Drop, Disconnected, Links, k
  <1>3. /\ \A d \in Devices : d # e => board'[d] = board[d]
        /\ board'[e].conn = NoConn /\ SameRelays(e)
    BY BoardFacts DEF Inv, Drop, Boards, SameRelays
  <1>4. /\ link[k].toBoard \in Seq(Lines) /\ link[k].toGw \in Seq(Frames)
        /\ link'[k].toBoard \in Seq(Lines) /\ link'[k].toGw \in Seq(Frames)
    BY <1>1, StreamTypes
  <1>5. PartOf(link'[k].toBoard, link[k].toBoard) /\ PartOf(link'[k].toGw, link[k].toGw)
    BY <1>2, <1>4, PartsOf
  <1>6. /\ Fades(link'[k].toBoard, link[k].toBoard, Setting)
        /\ Fades(link'[k].toGw, link[k].toGw, {"OK"})
        /\ ToSet(link'[k].toGw) \subseteq ToSet(link[k].toGw)
    BY <1>4, <1>5, PartFades, PartFacts
  <1> QED BY <1>1, <1>2, <1>3, <1>6, BoardCalmSwitch DEF k

LEMMA ReportSwitch ==
  ASSUME Inv, Inv', SwitchInv, OthersUnchanged, NEW e \in Devices, Report(e)
  PROVE  SwitchInv'
  <1> DEFINE k == board[e].conn  u == <<StateFrame(board[e].relays)>>
  <1>1. k \in Conns BY BoardFacts DEF Inv, Report
  <1>2. board[e].relays \in RelayStates BY BoardFacts DEF Inv, Boards
  <1>3. u \in Seq(Frames) BY <1>2, FrameTypes
  <1>4. /\ \A f \in ToSet(u) : f.verb \notin {"OK", "ACK"} /\ f.relays = board[e].relays
        /\ ~Has(u, {"OK"})
    BY ShortSets DEF StateFrame, Has
  <1> HIDE DEF k
  <1>5. /\ \A i \in Conns : i # k => link'[i] = link[i]
        /\ link'[k].device = link[k].device /\ link'[k].gw = link[k].gw
        /\ link'[k].toBoard = link[k].toBoard
        /\ link'[k].toGw = Append(link[k].toGw, StateFrame(board[e].relays))
        /\ UNCHANGED <<board, reboots>>
    BY <1>1, LinkFacts DEF Inv, Report, Links, k
  <1>6. /\ link[k].toBoard \in Seq(Lines) /\ link[k].toGw \in Seq(Frames)
    BY <1>1, StreamTypes
  <1>7. link'[k].toGw = link[k].toGw \o u
    BY <1>2, <1>5, <1>6, FrameTypes, AppendIsConcat
  <1> HIDE DEF u
  <1>8. /\ Fades(link'[k].toBoard, link[k].toBoard, Setting)
        /\ Fades(link[k].toGw, link[k].toGw, {"OK"})
    BY <1>5 DEF Fades
  <1>9. Fades(link'[k].toGw, link[k].toGw, {"OK"})
    BY <1>3, <1>4, <1>6, <1>7, <1>8, MoreFades
  <1>10. ToSet(link'[k].toGw) = ToSet(link[k].toGw) \cup ToSet(u)
    BY <1>3, <1>6, <1>7, JoinFacts
  <1> QED BY <1>1, <1>4, <1>5, <1>8, <1>9, <1>10, BoardCalmSwitch DEF k, SameRelays

LEMMA AuthenticatedSwitch ==
  ASSUME Inv, Inv', SwitchInv, OthersUnchanged, NEW e \in Devices, NEW n, Authenticated(e, n)
  PROVE  SwitchInv'
  <1> DEFINE k == board[e].conn
  <1>1. k \in Conns BY BoardFacts DEF Inv, Authenticated
  <1>2. PICK first \in {<< >>, <<StateFrame(board[e].relays)>>} :
            link' = [link EXCEPT ![k].toBoard = SubSeq(@, n + 1, Len(@)),
                                 ![k].toGw = @ \o first \o <<Frame("ERR")>>]
    BY DEF Authenticated
  <1>3. board[e].relays \in RelayStates BY BoardFacts DEF Inv, Boards
  <1> DEFINE err == <<Frame("ERR")>>
  <1>4. first \in Seq(Frames) /\ err \in Seq(Frames)
    <2>1. <<StateFrame(board[e].relays)>> \in Seq(Frames) /\ err \in Seq(Frames)
      BY <1>3, FrameTypes
    <2>2. << >> \in Seq(Frames) OBVIOUS
    <2> HIDE DEF err, StateFrame
    <2>3. first = << >> \/ first = <<StateFrame(board[e].relays)>> BY <1>2
    <2> QED BY <2>1, <2>2, <2>3
  <1>5. /\ \A f \in ToSet(first) : f.verb \notin {"OK", "ACK"} /\ f.relays = board[e].relays
        /\ \A f \in ToSet(err) : f.verb \notin {"OK", "ACK"} /\ f.relays = None
        /\ ~Has(first, {"OK"}) /\ ~Has(err, {"OK"})
    BY ShortSets, NothingInIt DEF StateFrame, Frame, Has
  <1> HIDE DEF k
  <1>6. /\ \A i \in Conns : i # k => link'[i] = link[i]
        /\ link'[k].device = link[k].device /\ link'[k].gw = link[k].gw
        /\ link'[k].toBoard = SubSeq(link[k].toBoard, n + 1, Len(link[k].toBoard))
        /\ link'[k].toGw = (link[k].toGw \o first) \o err
    BY <1>1, <1>2, LinkFacts DEF Inv, Links
  <1>7. /\ n \in 0..Len(link[k].toBoard) /\ UNCHANGED reboots
        /\ \A d \in Devices : d # e => board'[d] = board[d]
        /\ board'[e].conn = board[e].conn /\ SameRelays(e)
    BY BoardFacts DEF Inv, Authenticated, Boards, SameRelays, k
  <1> HIDE DEF err
  <1>8. /\ link[k].toBoard \in Seq(Lines) /\ link[k].toGw \in Seq(Frames)
        /\ link'[k].toBoard \in Seq(Lines)
    BY <1>1, StreamTypes
  <1>9. Fades(link'[k].toBoard, link[k].toBoard, Setting)
    BY <1>6, <1>7, <1>8, PartsOf, PartFades
  <1> DEFINE g == link[k].toGw
  <1> HIDE DEF g
  <1>10. g \in Seq(Frames) /\ g \o first \in Seq(Frames)
    BY <1>4, <1>8, ConcatProperties DEF g
  <1>11. Fades(g, g, {"OK"}) BY DEF Fades
  <1>12. Fades(g \o first, g, {"OK"}) BY <1>4, <1>5, <1>10, <1>11, MoreFades
  <1>13. Fades((g \o first) \o err, g, {"OK"}) BY <1>4, <1>5, <1>10, <1>12, MoreFades
  <1>14. ToSet((g \o first) \o err) = (ToSet(g) \cup ToSet(first)) \cup ToSet(err)
    <2>1. ToSet(g \o first) = ToSet(g) \cup ToSet(first) BY <1>4, <1>10, JoinFacts
    <2>2. ToSet((g \o first) \o err) = ToSet(g \o first) \cup ToSet(err)
      BY <1>4, <1>10, JoinFacts
    <2> QED BY <2>1, <2>2
  <1>15. \A f \in ToSet(link'[k].toGw) :
            \/ f \in ToSet(link[k].toGw)
            \/ f.verb # "ACK" /\ f.relays \in {None, board[e].relays}
    BY <1>5, <1>6, <1>14 DEF g
  <1>16. Fades(link'[k].toGw, link[k].toGw, {"OK"}) BY <1>6, <1>13 DEF g
  <1> QED BY <1>1, <1>6, <1>7, <1>9, <1>15, <1>16, BoardCalmSwitch DEF k

(* A line that sets nothing.                                               *)
LEMMA IdleLineSwitch ==
  ASSUME Inv, Inv', SwitchInv, OthersUnchanged, NEW e \in Devices, NEW n, Execute(e, n),
         Head(link[board[e].conn].toBoard).verb \notin Setting
  PROVE  SwitchInv'
  <1> DEFINE k == board[e].conn  line == Head(link[k].toBoard)
  <1>1. k \in Conns BY BoardFacts DEF Inv, Execute
  <1>2. LatchedBy(line, board[e].relays) = board[e].relays BY DEF LatchedBy, Setting
  <1>3. PICK answer \in Answers(line, board[e].relays) :
            link' = [link EXCEPT ![k].toBoard = SubSeq(@, n + 1, Len(@)), ![k].toGw = @ \o answer]
    BY <1>2 DEF Execute
  <1>4. board[e].relays \in RelayStates BY BoardFacts DEF Inv, Boards
  <1>5. answer \in {<<StateFrame(board[e].relays)>>, <<Frame("PONG")>>, <<Frame("ERR")>>}
    BY DEF Answers, Setting
  <1>6. answer \in Seq(Frames)
    <2>1. /\ <<StateFrame(board[e].relays)>> \in Seq(Frames)
          /\ <<Frame("PONG")>> \in Seq(Frames) /\ <<Frame("ERR")>> \in Seq(Frames)
      BY <1>4, FrameTypes
    <2> QED BY <1>5, <2>1
  <1>7. /\ \A f \in ToSet(answer) : f.verb \notin {"OK", "ACK"} /\ f.relays \in {None, board[e].relays}
        /\ ~Has(answer, {"OK"})
    BY <1>5, ShortSets DEF StateFrame, Frame, Has
  <1> HIDE DEF k
  <1>8. /\ \A i \in Conns : i # k => link'[i] = link[i]
        /\ link'[k].device = link[k].device /\ link'[k].gw = link[k].gw
        /\ link'[k].toBoard = SubSeq(link[k].toBoard, n + 1, Len(link[k].toBoard))
        /\ link'[k].toGw = link[k].toGw \o answer
    BY <1>1, <1>3, LinkFacts DEF Inv, Links
  <1>9. /\ n \in 0..Len(link[k].toBoard) /\ UNCHANGED reboots
        /\ \A d \in Devices : d # e => board'[d] = board[d]
        /\ board'[e].conn = board[e].conn /\ SameRelays(e)
    BY <1>2, BoardFacts DEF Inv, Execute, Boards, SameRelays, k
  <1>10. /\ link[k].toBoard \in Seq(Lines) /\ link[k].toGw \in Seq(Frames)
         /\ link'[k].toBoard \in Seq(Lines)
    BY <1>1, StreamTypes
  <1>11. Fades(link'[k].toBoard, link[k].toBoard, Setting)
    BY <1>8, <1>9, <1>10, PartsOf, PartFades
  <1>12. Fades(link[k].toGw, link[k].toGw, {"OK"}) BY DEF Fades
  <1>13. Fades(link'[k].toGw, link[k].toGw, {"OK"})
    BY <1>6, <1>7, <1>8, <1>10, <1>12, MoreFades
  <1>14. ToSet(link'[k].toGw) = ToSet(link[k].toGw) \cup ToSet(answer)
    BY <1>6, <1>8, <1>10, JoinFacts
  <1> QED BY <1>1, <1>7, <1>8, <1>9, <1>11, <1>13, <1>14, BoardCalmSwitch DEF k

(* A line that a command asked for: the relays it sets are no longer wrong *)
(* and its OK is on the way.                                               *)
LEMMA ObeyedRelays ==
  ASSUME NEW d, SoleIn(d), RowsOf(d), NEW l, LineOf(l, d), l.verb \in Setting,
         board[d].relays \in RelayStates,
         board'[d].relays = Switched(board[d].relays, l.set)
  PROVE  /\ Missing(d)' \subseteq Missing(d) \ DOMAIN l.set
         /\ \A rs : Behind(rs, d) => Behind(rs, d)'
  <1>1. \A r \in Relays :
            board'[d].relays[r] = IF r \in DOMAIN l.set THEN l.set[r] ELSE board[d].relays[r]
    BY DEF Switched
  <1>2. PICK c \in CommandsOf(d) : AskedBy(l, cmd[c].payload) BY DEF LineOf
  <1>3. \A r \in DOMAIN l.set : r \in DOMAIN cmd[c].payload /\ cmd[c].payload[r] = l.set[r]
    BY <1>2 DEF AskedBy
  <1>4. CommandsOf(d)' = CommandsOf(d)
        /\ \A x \in CommandsOf(d) : cmd'[x].payload = cmd[x].payload
    BY DEF RowsOf
  <1>5. ASSUME NEW r \in Missing(d)' PROVE r \in Missing(d) /\ r \notin DOMAIN l.set
    <2>1. PICK x \in CommandsOf(d) : /\ r \in Relays /\ r \in DOMAIN cmd[x].payload
                                     /\ board'[d].relays[r] # cmd[x].payload[r]
      BY <1>4, <1>5 DEF Missing
    <2>2. x = c BY <1>2, <1>5, <2>1 DEF SoleIn
    <2>3. r \notin DOMAIN l.set BY <1>1, <1>3, <2>1, <2>2
    <2>4. board'[d].relays[r] = board[d].relays[r] BY <1>1, <2>1, <2>3
    <2> QED BY <2>1, <2>3, <2>4 DEF Missing
  <1>6. ASSUME NEW rs, Behind(rs, d), rs # None, NEW r \in Relays,
               rs[r] # board'[d].relays[r]
        PROVE  r \in Switches(d)'
    <2>1. CASE r \in DOMAIN l.set
      <3>1. r \in DOMAIN cmd[c].payload /\ board'[d].relays[r] = cmd[c].payload[r]
        BY <1>1, <1>3, <2>1
      <3> QED BY <1>2, <1>4, <3>1 DEF Switches
    <2>2. CASE r \notin DOMAIN l.set
      <3>1. board'[d].relays[r] = board[d].relays[r] BY <1>1, <2>2
      <3>2. r \in Switches(d) BY <1>6, <3>1 DEF Behind
      <3> QED BY <1>4, <3>1, <3>2 DEF Switches
    <2> QED BY <2>1, <2>2
  <1>7. \A rs : Behind(rs, d) => Behind(rs, d)' BY <1>6 DEF Behind
  <1> QED BY <1>5, <1>7

LEMMA ObeyedAnswer ==
  ASSUME NEW g \in Seq(Frames), NEW rs \in RelayStates, ~Has(g, {"OK"}),
         NEW answer \in {<<Frame("OK")>>, <<Frame("OK"), StateFrame(rs)>>}
  PROVE  /\ Once(g \o answer, {"OK"})
         /\ \A f \in ToSet(g \o answer) :
                f \in ToSet(g) \/ (f.verb # "ACK" /\ f.relays \in {None, rs})
  <1> DEFINE ok == Frame("OK")  st == StateFrame(rs)
  <1>1. ok \in Frames /\ st \in Frames BY FrameTypes
  <1>2. ok.verb = "OK" /\ st.verb = "STATE" /\ ok.relays = None /\ st.relays = rs
    BY DEF Frame, StateFrame
  <1>3. answer = <<ok>> \/ answer = <<ok, st>> OBVIOUS
  <1> HIDE DEF ok, st
  <1>4. answer \in Seq(Frames)
    <2>1. <<ok>> \in Seq(Frames) /\ <<ok, st>> \in Seq(Frames) BY <1>1
    <2> QED BY <1>3, <2>1
  <1>5. ToSet(answer) \subseteq {ok, st} BY <1>3, ShortSets
  <1>6. Once(answer, {"OK"})
    <2>1. CASE answer = <<ok>> BY <2>1, ShortSets
    <2>2. CASE answer = <<ok, st>>
      <3>1. Len(answer) = 2 /\ answer[2] = st BY <2>2
      <3>2. \A i \in 1..2 : i = 1 \/ i = 2 OBVIOUS
      <3>3. \A i \in 1..Len(answer) : answer[i].verb \in {"OK"} => i = 1
        BY <1>2, <3>1, <3>2
      <3> QED BY <3>3 DEF Once
    <2> QED BY <1>3, <2>1, <2>2
  <1>7. Once(g \o answer, {"OK"}) BY <1>4, <1>6, JoinFacts
  <1>8. ToSet(g \o answer) = ToSet(g) \cup ToSet(answer) BY <1>4, JoinFacts
  <1> QED BY <1>2, <1>5, <1>7, <1>8

LEMMA ObeyedFaithful ==
  ASSUME Inv, Inv', Wired, NEW e \in Devices, SoleIn(e), Faithful(e), OthersUnchanged,
         NEW k \in Conns, k = board[e].conn, link[k].device = e,
         \A i \in Conns : i # k => link'[i] = link[i],
         link'[k].device = link[k].device, link'[k].gw = link[k].gw,
         link[k].toBoard # << >>, NEW l, l = Head(link[k].toBoard), l.verb \in Setting,
         NEW n \in 1..Len(link[k].toBoard),
         link'[k].toBoard = SubSeq(link[k].toBoard, n + 1, Len(link[k].toBoard)),
         NEW answer \in {<<Frame("OK")>>, <<Frame("OK"), StateFrame(board'[e].relays)>>},
         link'[k].toGw = link[k].toGw \o answer,
         board'[e].relays = Switched(board[e].relays, l.set)
  PROVE  Faithful(e)'
  <1> USE DEF OthersUnchanged, storeVars, webVars, gatewayVars, memory
  <1>1. /\ link[k].toBoard \in Seq(Lines) /\ link[k].toGw \in Seq(Frames)
        /\ link'[k].toBoard \in Seq(Lines) /\ k \in LinksOf(e)
        /\ board[e].relays \in RelayStates /\ board'[e].relays \in RelayStates
    BY StreamTypes, BoardFacts DEF LinksOf, Inv, TypeOK, BoardTypeOK, Boards
  <1>2. l \in ToSet(link[k].toBoard) BY <1>1, HeadIsInIt
  <1>3. Has(link[k].toBoard, Setting) /\ Busy(k) BY <1>2 DEF Has, Busy
  <1>4. /\ OneToken(e) /\ LinesAsked(e) /\ StatesBehind(e) /\ NothingForgotten(e) /\ Deserved(e)
        /\ ~(\A c \in CommandsOf(e) : Unsent(c))
    BY <1>1, <1>3 DEF Faithful, NoToken
  <1>5. LineOf(l, e) BY <1>1, <1>2, <1>4 DEF LinesAsked
  <1>6. RowsOf(e) BY TableSameRows, RowsOfAll
  <1>7. /\ Missing(e)' \subseteq Missing(e) \ DOMAIN l.set
        /\ \A rs : Behind(rs, e) => Behind(rs, e)'
    BY <1>1, <1>5, <1>6, ObeyedRelays
  <1>8. /\ follow[e] = None /\ ~Has(link[k].toGw, {"OK"})
        /\ \A i \in LinksOf(e) : i # k => ~Busy(i)
        /\ Once(link[k].toBoard, Setting)
    BY <1>1, <1>3, <1>4 DEF OneToken
  <1>9. LinksOf(e)' = LinksOf(e) BY DEF LinksOf
  <1>10. ~Has(link'[k].toBoard, Setting)
    BY <1>1, <1>8, HeadWasIt
  <1>11. \A i \in LinksOf(e) : i # k => ~Busy(i)' BY <1>8 DEF Busy, LinksOf
  <1>12. /\ Once(link'[k].toGw, {"OK"})
         /\ \A f \in ToSet(link'[k].toGw) :
                \/ f \in ToSet(link[k].toGw)
                \/ f.verb # "ACK" /\ f.relays \in {None, board'[e].relays}
    <2> DEFINE g == link[k].toGw  rs == board'[e].relays
    <2>1. g \in Seq(Frames) /\ rs \in RelayStates /\ ~Has(g, {"OK"})
          /\ answer \in {<<Frame("OK")>>, <<Frame("OK"), StateFrame(rs)>>}
          /\ link'[k].toGw = g \o answer
      BY <1>1, <1>8
    <2> HIDE DEF g, rs
    <2>2. /\ Once(g \o answer, {"OK"})
          /\ \A f \in ToSet(g \o answer) :
                 f \in ToSet(g) \/ (f.verb # "ACK" /\ f.relays \in {None, rs})
      BY ONLY <2>1, ObeyedAnswer
    <2> QED BY <2>1, <2>2 DEF g, rs
  <1>15. OneToken(e)'
    <2>1. ASSUME NEW i \in LinksOf(e)
          PROVE  /\ Once(link'[i].toBoard, Setting) /\ Once(link'[i].toGw, {"OK"})
                 /\ ~(Has(link'[i].toBoard, Setting) /\ Has(link'[i].toGw, {"OK"}))
      <3>1. CASE i = k BY <1>1, <1>10, <1>12, <3>1, NoneIsOnce
      <3>2. CASE i # k BY <1>4, <2>1, <3>2 DEF OneToken, LinksOf
      <3> QED BY <3>1, <3>2
    <2>2. \A i, j \in LinksOf(e) : Busy(i)' /\ Busy(j)' => i = j BY <1>11
    <2> QED BY <1>8, <1>9, <2>1, <2>2 DEF OneToken
  <1>16. ~(\A c \in CommandsOf(e)' : Unsent(c)')
    BY <1>4, <1>6 DEF RowsOf, Unsent
  <1>17. LinesAsked(e)'
    <2>1. ASSUME NEW i \in LinksOf(e), NEW x \in ToSet(link'[i].toBoard) PROVE LineOf(x, e)'
      <3>1. CASE i = k
        <4>1. x.verb \notin Setting BY <1>10, <2>1, <3>1 DEF Has
        <4> QED BY <4>1 DEF LineOf
      <3>2. CASE i # k
        <4>1. x \in ToSet(link[i].toBoard) BY <2>1, <3>2 DEF LinksOf
        <4> QED BY <1>4, <1>6, <2>1, <4>1, RowsStay DEF LinesAsked
      <3> QED BY <3>1, <3>2
    <2>2. \A c \in CommandsOf(e)' : KeptLine(c)'
      BY <1>4, <1>6, RowsStay, KeptLineStays DEF LinesAsked
    <2> HIDE DEF KeptLine
    <2> QED BY <1>8, <1>9, <2>1, <2>2 DEF LinesAsked
  <1>18. StatesBehind(e)'
    <2>1. ASSUME NEW i \in LinksOf(e), NEW f \in ToSet(link'[i].toGw)
          PROVE  f.verb # "ACK" /\ Behind(f.relays, e)'
      <3>1. CASE i # k \/ f \in ToSet(link[k].toGw)
        <4>1. f \in ToSet(link[i].toGw) \/ (i = k /\ f \in ToSet(link[k].toGw))
          BY <2>1, <3>1 DEF LinksOf
        <4> QED BY <1>1, <1>4, <1>7, <2>1, <4>1 DEF StatesBehind
      <3>2. CASE f.verb # "ACK" /\ f.relays \in {None, board'[e].relays}
        BY <3>2 DEF Behind
      <3> QED BY <1>12, <2>1, <3>1, <3>2
    <2>2. Behind(dev[e].actual, e)' BY <1>4, <1>7 DEF StatesBehind, Behind
    <2>3. gtx.op = "report" => gtx.conn \in Conns BY DEF Inv, GatewayKnown, Used
    <2>4. link'[gtx.conn].device = link[gtx.conn].device \/ gtx.conn \notin Conns
      OBVIOUS
    <2>5. gtx.op = "report" /\ link'[gtx.conn].device = e => Behind(gtx.relays, e)'
      BY <1>4, <1>7, <2>3, <2>4 DEF StatesBehind, Behind
    <2> HIDE DEF Behind
    <2> QED BY <1>9, <2>1, <2>2, <2>5 DEF StatesBehind
  <1>19. NothingForgotten(e)'
    <2>1. ASSUME NEW c \in CommandsOf(e), Asking(c)', NEW i \in LinksOf(e), Readable(i)'
          PROVE  Covered(i, c, e)'
      <3>1. CASE i # k
        <4>1. ~Busy(i)' BY <1>11, <2>1, <3>1
        <4> QED BY <4>1 DEF Covered, Busy, Has
      <3>2. CASE i = k
        <4>1. Readable(k) /\ Asking(c) BY <2>1, <3>2 DEF Readable, Asking
        <4>2. Covered(k, c, e) BY <1>1, <1>4, <2>1, <4>1 DEF NothingForgotten
        <4>3. Missing(e) \subseteq DOMAIN l.set \cup SetBy(steps[c])
          BY <1>2, <4>2 DEF Covered
        <4>4. Missing(e)' \subseteq SetBy(steps[c]) BY <1>7, <4>3
        <4>5. \A x \in ToSet(link'[k].toBoard) : x.verb \notin Setting BY <1>10 DEF Has
        <4> QED BY <3>2, <4>4, <4>5 DEF Covered
      <3> QED BY <3>1, <3>2
    <2> QED BY <1>6, <1>8, <1>9, <2>1 DEF NothingForgotten, RowsOf
  <1>20. Deserved(e)' BY <1>4, <1>6, <1>7 DEF Deserved, RowsOf
  <1> QED BY <1>15, <1>16, <1>17, <1>18, <1>19, <1>20 DEF Faithful

LEMMA ExecuteSwitch ==
  ASSUME Inv, Inv', SwitchInv, OthersUnchanged, NEW e \in Devices, NEW n, Execute(e, n)
  PROVE  SwitchInv'
  <1> DEFINE k == board[e].conn  line == Head(link[k].toBoard)
  <1>1. k \in Conns /\ k # NoConn BY BoardFacts DEF Inv, Execute
  <1>2. CASE line.verb \notin Setting BY <1>2, IdleLineSwitch
  <1>3. CASE line.verb \in Setting
    <2>1. LatchedBy(line, board[e].relays) = Switched(board[e].relays, line.set)
      BY <1>3 DEF LatchedBy, Setting
    <2>2. board'[e].relays = Switched(board[e].relays, line.set)
          /\ board'[e].conn = board[e].conn
          /\ \A d \in Devices : d # e => board'[d] = board[d]
      BY <2>1, BoardFacts DEF Inv, Execute, Boards
    <2>3. PICK answer \in Answers(line, board'[e].relays) :
              link' = [link EXCEPT ![k].toBoard = SubSeq(@, n + 1, Len(@)), ![k].toGw = @ \o answer]
      BY <2>1, <2>2 DEF Execute
    <2>4. answer \in {<<Frame("OK")>>, <<Frame("OK"), StateFrame(board'[e].relays)>>}
      BY <1>3 DEF Answers, Setting
    <2>5. n \in 1..Len(link[k].toBoard) /\ UNCHANGED reboots BY DEF Execute
    <2>6. link[k].device = e BY <1>1 DEF SwitchInv, Wired
    <2> HIDE DEF k
    <2>7. /\ \A i \in Conns : i # k => link'[i] = link[i]
          /\ link'[k].device = link[k].device /\ link'[k].gw = link[k].gw
          /\ link'[k].toBoard = SubSeq(link[k].toBoard, n + 1, Len(link[k].toBoard))
          /\ link'[k].toGw = link[k].toGw \o answer
      BY <1>1, <2>3, LinkFacts DEF Inv, Links
    <2>8. link[k].toBoard \in Seq(Lines) /\ link[k].toBoard # << >>
      <3>1. Len(<< >>) = 0 OBVIOUS
      <3> QED BY <1>1, <2>5, <3>1, StreamTypes
    <2>9. k = board[e].conn BY DEF k
    <2> HIDE DEF line
    <2>10. line = Head(link[k].toBoard) BY DEF line
    <2>11. SoleIn(e) /\ Faithful(e) => Faithful(e)'
      BY <1>1, <1>3, <2>2, <2>4, <2>5, <2>6, <2>7, <2>8, <2>9, <2>10, ObeyedFaithful DEF SwitchInv
    <2> QED BY <1>1, <2>2, <2>5, <2>7, <2>9, <2>11, BoardSwitch
  <1> QED BY <1>2, <1>3

LEMMA ExecuteV1Switch ==
  ASSUME Inv, Inv', SwitchInv, OthersUnchanged, NEW e \in Devices, ExecuteV1(e)
  PROVE  SwitchInv'
  <1> DEFINE k == board[e].conn
  <1>1. k \in Conns BY BoardFacts DEF Inv, ExecuteV1
  <1>2. ~SoleIn(e) BY DEF ExecuteV1, SoleIn
  <1>3. UNCHANGED reboots BY DEF ExecuteV1
  <1>4. PICK b, g : link' = [link EXCEPT ![k].toBoard = b, ![k].toGw = g]
    <2>1. \/ link' = [link EXCEPT ![k].toBoard = Tail(@)]
          \/ \E id, ok : link' = [link EXCEPT ![k].toBoard = Tail(@),
                                              ![k].toGw = Append(@, AckFrame(ok, id))]
      BY DEF ExecuteV1
    <2>2. CASE link' = [link EXCEPT ![k].toBoard = Tail(@)]
      <3>1. link' = [link EXCEPT ![k].toBoard = Tail(link[k].toBoard), ![k].toGw = link[k].toGw]
        BY <1>1, <2>2, LinkFacts DEF Inv, Links
      <3> QED BY <3>1
    <2>3. CASE \E id, ok : link' = [link EXCEPT ![k].toBoard = Tail(@),
                                                ![k].toGw = Append(@, AckFrame(ok, id))]
      <3>1. PICK id, ok : link' = [link EXCEPT ![k].toBoard = Tail(@),
                                                ![k].toGw = Append(@, AckFrame(ok, id))]
        BY <2>3
      <3>2. link' = [link EXCEPT ![k].toBoard = Tail(link[k].toBoard),
                                 ![k].toGw = Append(link[k].toGw, AckFrame(ok, id))]
        BY <1>1, <3>1, LinkFacts DEF Inv, Links
      <3> QED BY <3>2
    <2> QED BY <2>1, <2>2, <2>3
  <1>5. \A d \in Devices : /\ d # e => board'[d] = board[d]
                           /\ board'[d].conn = board[d].conn
    <2>1. \/ board' = [board EXCEPT ![e].authed = TRUE]
          \/ \E rs : board' = [board EXCEPT ![e].relays = rs]
      <3>1. \A ok, set : \E rs :
                [board EXCEPT ![e].relays = IF ok THEN Switched(@, set) ELSE @]
                    = [board EXCEPT ![e].relays = rs]
        OBVIOUS
      <3> QED BY <3>1 DEF ExecuteV1
    <2>2. board \in [Devices -> Boards] BY BoardFacts DEF Inv
    <2>3. CASE board' = [board EXCEPT ![e].authed = TRUE] BY <2>2, <2>3 DEF Boards
    <2>4. ASSUME NEW rs, board' = [board EXCEPT ![e].relays = rs]
          PROVE  \A d \in Devices : /\ d # e => board'[d] = board[d]
                                    /\ board'[d].conn = board[d].conn
      BY <2>2, <2>4 DEF Boards
    <2> QED BY <2>1, <2>3, <2>4
  <1> HIDE DEF k
  <1>6. /\ \A i \in Conns : i # k => link'[i] = link[i]
        /\ link'[k].device = link[k].device /\ link'[k].gw = link[k].gw
    BY <1>1, <1>4, LinkFacts DEF Inv, Links
  <1> QED BY <1>1, <1>2, <1>3, <1>5, <1>6, BoardSwitch DEF k

LEMMA ConnectSwitch ==
  ASSUME Inv, Inv', SwitchInv, OthersUnchanged, NEW e \in Devices, NEW k \in Conns, Connect(e, k)
  PROVE  SwitchInv'
  <1>1. /\ \A i \in Conns : i # k => link'[i] = link[i]
        /\ link'[k].device = e /\ link'[k].gw = "auth"
        /\ link'[k].toBoard = << >> /\ link'[k].toGw = <<Frame("AUTH")>>
        /\ ~Used(k) /\ UNCHANGED reboots
    BY LinkFacts DEF Inv, Connect, Used
  <1>2. /\ board'[e].conn = k /\ SameRelays(e)
        /\ \A d \in Devices : d # e => board'[d] = board[d]
    BY BoardFacts DEF Inv, Connect, Boards, SameRelays
  <1>3. \A i \in Conns : Used(i) => /\ link'[i] = link[i] /\ Used(i)' BY <1>1 DEF Used
  <1>4. /\ WebMeans' /\ GatewayMeans' /\ SameRows /\ SameProtocols
        /\ \A d \in Devices : registered'[d] # NoConn => Held(registered[d])'
        /\ \A c \in Commands : ~Row(c)' => ~Row(c) /\ steps'[c] \in {steps[c], << >>}
    BY <1>3, ControllerRest
  <1>5. Wired'
    <2>1. ASSUME NEW d \in Devices, board'[d].conn # NoConn
          PROVE  Used(board[d].conn)' /\ link'[board'[d].conn].device = d
      <3>1. CASE d = e BY <1>1, <1>2, <3>1 DEF Used
      <3>2. CASE d # e
        <4>1. board'[d].conn = board[d].conn /\ Used(board[d].conn)
              /\ link[board[d].conn].device = d
          BY <1>2, <2>1, <3>2 DEF SwitchInv, Wired
        <4>2. board[d].conn \in Conns BY <4>1 DEF Used
        <4> QED BY <1>3, <4>1, <4>2 DEF Used
      <3> QED BY <3>1, <3>2
    <2>2. \A c \in Commands : ~Row(c)' => steps'[c] = << >>
      BY <1>4 DEF SwitchInv, Wired
    <2>3. reboots' = 0 BY <1>1 DEF SwitchInv, Wired
    <2> QED BY <1>4, <2>1, <2>2, <2>3 DEF Wired
  <1>6. ASSUME NEW d \in Devices, SoleIn(d)' PROVE Faithful(d)'
    <2>1. SoleIn(d) /\ Faithful(d) BY <1>4, <1>6, SoleBack DEF SameRows, SwitchInv
    <2>2. SameRelays(d) BY <1>2 DEF SameRelays
    <2>3. ASSUME NEW i \in Conns, link'[i].device = d PROVE Calm(i, d)
      <3>1. CASE i = k
        <4>1. ~Busy(k)' /\ ToSet(link'[k].toGw) = {Frame("AUTH")}
          BY <1>1, ShortSets DEF Busy, Has, Frame
        <4> QED BY <3>1, <4>1 DEF Calm, Frame
      <3>2. CASE i # k
        <4>1. link'[i] = link[i] BY <1>1, <3>2
        <4> QED BY <2>3, <4>1 DEF Calm, Calmer, Fades, Readable
      <3> QED BY <3>1, <3>2
    <2>4. CalmLinks(d) BY <2>3 DEF CalmLinks, LinksOf
    <2> QED BY <1>3, <2>1, <2>2, <2>4, ControllerFaithful
  <1> QED BY <1>4, <1>5, <1>6 DEF SwitchInv

LEMMA ControllerSwitch ==
  ASSUME Inv, Inv', SwitchInv, Controller
  PROVE  SwitchInv'
  <1>1. OthersUnchanged BY DEF Controller, OthersUnchanged
  <1>2. ASSUME NEW d \in Devices, BoardTurn(d) PROVE SwitchInv'
    BY <1>1, <1>2, ExecuteSwitch, AuthenticatedSwitch, ReportSwitch, ExecuteV1Switch DEF BoardTurn
  <1>3. ASSUME NEW d \in Devices, BoardFailure(d) PROVE SwitchInv'
    BY <1>1, <1>3, DropSwitch DEF BoardFailure, Reboot, SwitchInv, Wired
  <1> QED BY <1>1, <1>2, <1>3, ConnectSwitch DEF Controller

---------------------------------------------------------------------------
(* The gateway: a task begins. *)

LEMMA StartFaithful ==
  ASSUME Inv, Inv', NEW d \in Devices, Faithful(d), gtx.op = "idle",
         UNCHANGED <<cmd, dev, web, board, retry>>,
         CalmLinks(d), follow'[d] \in {follow[d], None},
         gtx'.op = "send" => cmd[gtx'.cmd].status = "pending",
         \A c \in CommandsOf(d) :
            /\ KeptLine(c)'
            /\ steps'[c] = steps[c] \/ ~Asking(c)' \/ Missing(d) = {} \/ NoToken(d)
            /\ gtx'.writes[c].status = "completed" => Missing(d) = {},
         gtx'.op = "report" /\ link'[gtx'.conn].device = d => Behind(gtx'.relays, d)
  PROVE  Faithful(d)'
  <1>1. RowsOf(d) /\ SameRelays(d) BY TableSameRows, RowsOfAll DEF SameRelays
  <1>2. link' \in [Conns -> Links] BY StreamTypes
  <1>3. \A c \in CommandsOf(d) : /\ Unsent(c)' => Unsent(c)
                                 /\ Asking(c)' => Asking(c)
    BY DEF Unsent, Asking
  <1>4. Behind(dev'[d].actual, d) BY DEF Faithful, StatesBehind
  <1>5. \A c \in CommandsOf(d), w \in Workers :
            web'[w].writes[c].status = "completed" => Missing(d) = {}
    BY DEF Faithful, Deserved
  <1> QED BY <1>1, <1>2, <1>3, <1>4, <1>5, CalmFaithful

(* ... that plans no write and takes no line.                              *)
LEMMA PlainFaithful ==
  ASSUME Inv, Inv', NEW d \in Devices, Faithful(d), gtx.op = "idle",
         UNCHANGED <<cmd, dev, web, board, retry, steps, follow>>, CalmLinks(d),
         gtx'.op \notin {"send", "report"},
         \A c \in CommandsOf(d) : gtx'.writes[c].status # "completed"
                                  \/ gtx'.writes[c] = gtx.writes[c]
  PROVE  Faithful(d)'
  <1>1. RowsOf(d) BY TableSameRows, RowsOfAll
  <1>2. \A c \in CommandsOf(d) : KeptLine(c)'
    BY <1>1, RowsStay, KeptLineStays DEF Faithful, LinesAsked
  <1>3. \A c \in CommandsOf(d) : gtx'.writes[c].status = "completed" => Missing(d) = {}
    BY DEF Faithful, Deserved
  <1> QED BY <1>2, <1>3, StartFaithful

LEMMA BeginRest ==
  ASSUME Inv, SwitchInv, UNCHANGED <<cmd, dev, web, board, reboots>>,
         \A k \in Conns : link'[k].device = link[k].device /\ (Used(k) => Used(k)'),
         \A d \in Devices : registered'[d] # NoConn => Held(registered[d])',
         \A c \in Commands : ~Row(c) => steps'[c] \in {steps[c], << >>}
  PROVE  /\ Wired' /\ WebMeans'
         /\ SameRows /\ SameProtocols
         /\ \A d \in Devices : SoleIn(d)' => SoleIn(d) /\ Faithful(d)
  <1>1. SameRows /\ SameProtocols BY TableSameRows DEF SameProtocols
  <1>2. WebMeans' BY <1>1, WebMeansKept DEF SwitchInv
  <1>3. Wired' BY WiredKept DEF SwitchInv, Row
  <1>4. \A d \in Devices : SoleIn(d)' => SoleIn(d)
    BY <1>1, SoleBack DEF SameRows
  <1> QED BY <1>1, <1>2, <1>3, <1>4 DEF SwitchInv

LEMMA IdleStays ==
  ASSUME gtx.op = "idle", GatewayMeans, UNCHANGED <<cmd, dev, gtx>>
  PROVE  GatewayMeans'
  BY DEF GatewayMeans

(* With no transaction under way the registered connections are served.    *)
LEMMA HeldServed ==
  ASSUME Inv, Wired, gtx.op # "hello", NEW d \in Devices, registered[d] # NoConn
  PROVE  link[registered[d]].gw \in {"open", "closing"} /\ registered[d] \in Conns
  BY DEF Wired, Held, Readable, Inv, LinksKnown, Used

LEMMA GatewayTypes ==
  ASSUME Inv
  PROVE  /\ link \in [Conns -> Links]
         /\ registered \in [Devices -> Conns \cup {NoConn}]
         /\ \A k \in Conns : Used(k) => link[k].device \in Devices
         /\ steps \in [Commands -> Seq(Lines)] /\ follow \in [Devices -> Lines \cup {None}]
         /\ \A c \in Commands : Row(c) => cmd[c].device \in Devices /\ cmd[c].payload \in Payloads
  BY DEF Inv, TypeOK, BoardTypeOK, GatewayTypeOK, LinksKnown, RowsKnown

LEMMA ConsumedShrinks ==
  ASSUME Inv, NEW k \in Conns, link' = Consumed(k), link[k].toGw # << >>
  PROVE  /\ \A i \in Conns : /\ Shrinks(i)
                             /\ link'[i].gw = link[i].gw /\ link'[i].toBoard = link[i].toBoard
                             /\ Used(i) <=> Used(i)'
         /\ \A i \in Conns : i # k => link'[i] = link[i]
         /\ link'[k].toGw = Tail(link[k].toGw)
  <1>1. /\ \A i \in Conns : i # k => link'[i] = link[i]
        /\ link'[k].toGw = Tail(link[k].toGw)
        /\ link'[k].device = link[k].device /\ link'[k].gw = link[k].gw
        /\ link'[k].toBoard = link[k].toBoard
    BY LinkFacts DEF Inv, Consumed, Links
  <1>2. link[k].toBoard \in Seq(Lines) /\ link[k].toGw \in Seq(Frames) BY LinkFacts DEF Inv
  <1>3. Shrinks(k) BY <1>1, <1>2, PartsOf DEF Shrinks, Readable
  <1>4. \A i \in Conns : Shrinks(i) BY <1>1, <1>3, SameShrinks
  <1> QED BY <1>1, <1>4 DEF Used

(* A device greets: the connection it had is closed.                       *)
LEMMA GwHelloSwitch ==
  ASSUME Inv, Inv', SwitchInv, NEW k \in Conns, GwHello(k)
  PROVE  SwitchInv'
  <1> DEFINE e == link[k].device  old == registered[e]
  <1>1. /\ gtx.op = "idle" /\ link[k].gw = "auth" /\ link[k].toGw # << >>
        /\ UNCHANGED <<cmd, dev, web, board, reboots, retry, steps, follow>>
        /\ gtx' = [IdleGw EXCEPT !.op = "hello", !.conn = k]
        /\ registered' = [registered EXCEPT ![e] = k]
        /\ link' = OldCloses(k, old)
    BY DEF GwHello, GwIdle, storeVars, webVars
  <1>2. e \in Devices BY <1>1, GatewayTypes DEF Used
  <1>3. /\ \A i \in Conns : i # k /\ i # old => link'[i] = link[i]
        /\ link'[k].gw = "auth" /\ link'[k].device = e /\ link'[k].toBoard = link[k].toBoard
        /\ link'[k].toGw = Tail(link[k].toGw)
        /\ old \in Conns /\ old # k =>
              /\ link'[old].gw = "closing" /\ link'[old].device = link[old].device
              /\ link'[old].toBoard = link[old].toBoard /\ link'[old].toGw = link[old].toGw
    <2>1. \A i \in Conns : link'[i] = IF i = old /\ i # k THEN [link[i] EXCEPT !.gw = "closing"]
                                      ELSE Consumed(k)[i]
      BY <1>1 DEF OldCloses
    <2>2. Consumed(k)[k] = [link[k] EXCEPT !.toGw = Tail(@)]
          /\ \A i \in Conns : i # k => Consumed(k)[i] = link[i]
      BY LinkFacts DEF Inv, Consumed
    <2>3. \A i \in Conns : link[i] \in Links BY LinkFacts DEF Inv
    <2> HIDE DEF old
    <2>4. \A i \in Conns : i # k /\ i # old => link'[i] = link[i] BY <2>1, <2>2
    <2>5. link'[k] = [link[k] EXCEPT !.toGw = Tail(@)] BY <2>1, <2>2
    <2>6. old \in Conns /\ old # k => link'[old] = [link[old] EXCEPT !.gw = "closing"]
      BY <2>1
    <2>7. /\ link'[k].gw = link[k].gw /\ link'[k].device = link[k].device
          /\ link'[k].toBoard = link[k].toBoard /\ link'[k].toGw = Tail(link[k].toGw)
      BY <2>3, <2>5 DEF Links
    <2>8. old \in Conns /\ old # k =>
              /\ link'[old].gw = "closing" /\ link'[old].device = link[old].device
              /\ link'[old].toBoard = link[old].toBoard /\ link'[old].toGw = link[old].toGw
      BY <2>3, <2>6 DEF Links
    <2> QED BY <1>1, <2>4, <2>7, <2>8
  <1>4. old # NoConn => old \in Conns /\ Readable(old)
    BY <1>1, <1>2, HeldServed DEF SwitchInv, Readable
  <1> HIDE DEF old
  <1>5. \A i \in Conns : link[i].toBoard \in Seq(Lines) /\ link[i].toGw \in Seq(Frames)
    BY LinkFacts DEF Inv
  <1>6. ASSUME NEW i \in Conns PROVE Shrinks(i)
    <2>1. CASE i # k /\ i # old BY <1>3, <2>1, SameShrinks
    <2>2. CASE i = k BY <1>1, <1>3, <1>5, <2>2, PartsOf DEF Shrinks, Readable
    <2>3. CASE i = old /\ i # k
      <3>1. Readable(i) BY <1>4, <2>3 DEF Conns, NoConn
      <3> QED BY <1>3, <1>5, <2>3, <3>1, PartsOf DEF Shrinks
    <2> QED BY <2>1, <2>2, <2>3
  <1>7. ASSUME NEW d \in Devices, registered'[d] # NoConn PROVE Held(registered[d])'
    <2>1. CASE d = e
      <3>1. registered'[d] = k BY <1>1, <1>2, <2>1, GatewayTypes
      <3> QED BY <1>1, <1>3, <3>1 DEF Held, Readable, IdleGw
    <2>2. CASE d # e
      <3>1. registered'[d] = registered[d] /\ registered[d] # NoConn
        BY <1>1, <1>2, <1>7, <2>2, GatewayTypes
      <3>2. link[registered[d]].gw \in {"open", "closing"} /\ registered[d] \in Conns
        BY <1>1, <3>1, HeldServed DEF SwitchInv
      <3>3. link'[registered[d]].gw \in {"open", "closing"} BY <1>1, <1>3, <3>2
      <3> QED BY <3>1, <3>3 DEF Held, Readable
    <2> QED BY <2>1, <2>2
  <1>8. \A i \in Conns : link'[i].device = link[i].device /\ (Used(i) => Used(i)')
    BY <1>3, <1>6 DEF Shrinks, Used
  <1>9. /\ Wired' /\ WebMeans'
        /\ \A d \in Devices : SoleIn(d)' => SoleIn(d) /\ Faithful(d)
    BY <1>1, <1>7, <1>8, BeginRest
  <1>10. GatewayMeans'
    BY <1>1, <1>3 DEF GatewayMeans, IdleGw, NoWrites, Keep, Readable
  <1>11. ASSUME NEW d \in Devices, SoleIn(d)' PROVE Faithful(d)'
    <2>1. CalmLinks(d) BY <1>6, CalmParts
    <2>2. /\ gtx'.op \notin {"send", "report"}
          /\ \A c \in Commands : gtx'.writes[c].status # "completed"
      BY <1>1 DEF IdleGw, NoWrites, Keep
    <2> QED BY <1>1, <1>9, <1>11, <2>1, <2>2, PlainFaithful DEF CommandsOf
  <1> QED BY <1>9, <1>10, <1>11 DEF SwitchInv

LEMMA GwRejectSwitch ==
  ASSUME Inv, Inv', SwitchInv, NEW k \in Conns, GwReject(k)
  PROVE  SwitchInv'
  <1>1. /\ gtx.op = "idle" /\ link[k].gw = "auth"
        /\ UNCHANGED <<cmd, dev, web, board, reboots, retry, steps, follow, gtx, registered>>
        /\ link' = [link EXCEPT ![k].gw = "closed", ![k].toGw = << >>]
    BY DEF GwReject, GwIdle, storeVars, webVars, gatewayVars, memory
  <1>2. /\ \A i \in Conns : i # k => link'[i] = link[i]
        /\ link'[k].gw = "closed" /\ link'[k].device = link[k].device
        /\ link'[k].toBoard = link[k].toBoard /\ link'[k].toGw = << >>
    BY <1>1, LinkFacts DEF Inv, Links
  <1>3. link[k].toBoard \in Seq(Lines) /\ link[k].toGw \in Seq(Frames)
    BY LinkFacts DEF Inv
  <1>4. Shrinks(k) BY <1>2, <1>3, PartsOf DEF Shrinks, Readable
  <1>5. \A i \in Conns : Shrinks(i) BY <1>2, <1>4, SameShrinks
  <1>6. \A i \in Conns : link'[i].device = link[i].device /\ (Used(i) => Used(i)')
    BY <1>2, <1>5 DEF Shrinks, Used
  <1>7. ASSUME NEW d \in Devices, registered'[d] # NoConn PROVE Held(registered[d])'
    <2>1. link[registered[d]].gw \in {"open", "closing"} /\ registered[d] \in Conns
      BY <1>1, <1>7, HeldServed DEF SwitchInv
    <2>2. link'[registered[d]].gw \in {"open", "closing"} BY <1>1, <1>2, <2>1
    <2> QED BY <1>1, <2>2 DEF Held, Readable
  <1>8. /\ Wired' /\ WebMeans'
        /\ \A d \in Devices : SoleIn(d)' => SoleIn(d) /\ Faithful(d)
    BY <1>1, <1>6, <1>7, BeginRest
  <1>9. GatewayMeans' BY <1>1, IdleStays DEF SwitchInv
  <1>10. ASSUME NEW d \in Devices, SoleIn(d)' PROVE Faithful(d)'
    <2>1. CalmLinks(d) BY <1>5, CalmParts
    <2> QED BY <1>1, <1>8, <1>10, <2>1, PlainFaithful
  <1> QED BY <1>8, <1>9, <1>10 DEF SwitchInv

LEMMA GwByeSwitch ==
  ASSUME Inv, Inv', SwitchInv, NEW k \in Conns, GwBye(k)
  PROVE  SwitchInv'
  <1> DEFINE e == link[k].device
  <1>1. /\ gtx.op = "idle" /\ link[k].gw \in {"open", "closing"}
        /\ UNCHANGED <<cmd, dev, web, board, reboots, retry, steps, follow>>
        /\ link' = [link EXCEPT ![k].gw = "closed", ![k].toGw = << >>]
        /\ gtx' = gtx \/ gtx' = [IdleGw EXCEPT !.op = "bye", !.conn = k]
        /\ IF registered[e] = k THEN registered' = [registered EXCEPT ![e] = NoConn]
           ELSE registered' = registered
    BY DEF GwBye, GwIdle, Goodbye, storeVars, webVars
  <1>2. /\ \A i \in Conns : i # k => link'[i] = link[i]
        /\ link'[k].gw = "closed" /\ link'[k].device = link[k].device
        /\ link'[k].toBoard = link[k].toBoard /\ link'[k].toGw = << >>
    BY <1>1, LinkFacts DEF Inv, Links
  <1>3. link[k].toBoard \in Seq(Lines) /\ link[k].toGw \in Seq(Frames)
    BY LinkFacts DEF Inv
  <1>4. Shrinks(k) BY <1>2, <1>3, PartsOf DEF Shrinks, Readable
  <1>5. \A i \in Conns : Shrinks(i) BY <1>2, <1>4, SameShrinks
  <1>6. \A i \in Conns : link'[i].device = link[i].device /\ (Used(i) => Used(i)')
    BY <1>2, <1>5 DEF Shrinks, Used
  <1>7. ASSUME NEW d \in Devices, registered'[d] # NoConn PROVE Held(registered[d])'
    <2>1. registered'[d] = registered[d] /\ registered[d] # NoConn
      BY <1>1, <1>7, GatewayTypes
    <2>2. link[registered[d]].gw \in {"open", "closing"} /\ registered[d] \in Conns
      BY <1>1, <2>1, HeldServed DEF SwitchInv
    <2>3. registered[d] # k
      <3>1. link[registered[d]].device = d BY <2>1 DEF Inv, LinksKnown
      <3>2. registered[d] = k => d = e /\ registered'[d] = NoConn
        BY <1>1, <3>1, GatewayTypes
      <3> QED BY <1>7, <3>2
    <2>4. link'[registered[d]].gw \in {"open", "closing"} BY <1>2, <2>2, <2>3
    <2> QED BY <2>1, <2>4 DEF Held, Readable
  <1>8. /\ Wired' /\ WebMeans'
        /\ \A d \in Devices : SoleIn(d)' => SoleIn(d) /\ Faithful(d)
    BY <1>1, <1>6, <1>7, BeginRest
  <1>9. GatewayMeans'
    <2>1. CASE gtx' = gtx BY <1>1, <2>1, IdleStays DEF SwitchInv
    <2>2. CASE gtx' = [IdleGw EXCEPT !.op = "bye", !.conn = k]
      BY <2>2 DEF GatewayMeans, IdleGw, NoWrites, Keep
    <2> QED BY <1>1, <2>1, <2>2
  <1>10. ASSUME NEW d \in Devices, SoleIn(d)' PROVE Faithful(d)'
    <2>1. CalmLinks(d) BY <1>5, CalmParts
    <2>2. /\ gtx'.op \notin {"send", "report"}
          /\ \A c \in Commands : gtx'.writes[c].status # "completed"
                                 \/ gtx'.writes[c] = gtx.writes[c]
      <3>1. CASE gtx' = gtx BY <1>1, <3>1
      <3>2. CASE gtx' = [IdleGw EXCEPT !.op = "bye", !.conn = k]
        BY <3>2 DEF IdleGw, NoWrites, Keep
      <3> QED BY <1>1, <3>1, <3>2
    <2> QED BY <1>1, <1>8, <1>10, <2>1, <2>2, PlainFaithful DEF CommandsOf
  <1> QED BY <1>8, <1>9, <1>10 DEF SwitchInv

(* A begin that leaves every connection alone.                             *)
LEMMA HeldStays ==
  ASSUME Inv, Wired, gtx.op = "idle", UNCHANGED registered,
         \A k \in Conns : link'[k].gw = link[k].gw, NEW d \in Devices, registered'[d] # NoConn
  PROVE  Held(registered[d])'
  <1>1. link[registered[d]].gw \in {"open", "closing"} /\ registered[d] \in Conns
    BY HeldServed
  <1> QED BY <1>1 DEF Held, Readable

LEMMA GwScanSwitch ==
  ASSUME Inv, Inv', SwitchInv, GwScan
  PROVE  SwitchInv'
  <1>1. /\ gtx.op = "idle"
        /\ UNCHANGED <<cmd, dev, web, board, reboots, retry, steps, follow, registered, link>>
        /\ gtx' = [IdleGw EXCEPT !.op = "expire", !.writes = ExpireWrites, !.seen = Pending]
    BY DEF GwScan, DispatcherAwaits, GwIdle, storeVars, webVars, boardVars, memory
  <1>2. \A i \in Conns : Shrinks(i) BY <1>1, SameShrinks
  <1>3. \A d \in Devices : registered'[d] # NoConn => Held(registered[d])'
    BY <1>1, HeldStays DEF SwitchInv
  <1>4. /\ Wired' /\ WebMeans'
        /\ \A d \in Devices : SoleIn(d)' => SoleIn(d) /\ Faithful(d)
    BY <1>1, <1>3, BeginRest DEF Used
  <1>5. /\ gtx'.op = "expire" /\ gtx'.writes = ExpireWrites
        /\ \A c \in Commands : ExpireWrites[c].status \notin {"sent", "pending", "completed"}
    BY <1>1 DEF IdleGw, ExpireWrites, Becomes, Keep
  <1>6. GatewayMeans' BY <1>5 DEF GatewayMeans
  <1>7. ASSUME NEW d \in Devices, SoleIn(d)' PROVE Faithful(d)'
    <2>1. CalmLinks(d) BY <1>2, CalmParts
    <2> QED BY <1>1, <1>4, <1>5, <1>7, <2>1, PlainFaithful DEF CommandsOf
  <1> QED BY <1>4, <1>6, <1>7 DEF SwitchInv

(* A PING or a GET is written.                                             *)
LEMMA AskingLineSwitch ==
  ASSUME Inv, Inv', SwitchInv, NEW k \in Conns, NEW v \in {"PING", "GET"}, gtx.op = "idle",
         link[k].gw = "open",
         UNCHANGED <<cmd, dev, web, board, reboots, retry, steps, follow, gtx, registered>>,
         link' = [link EXCEPT ![k].toBoard = Sent(k, <<Line(v)>>)]
  PROVE  SwitchInv'
  <1>1. /\ \A i \in Conns : i # k => link'[i] = link[i]
        /\ link'[k].gw = link[k].gw /\ link'[k].device = link[k].device
        /\ link'[k].toBoard = Sent(k, <<Line(v)>>) /\ link'[k].toGw = link[k].toGw
    BY LinkFacts DEF Inv, Links
  <1>2. link[k].toBoard \in Seq(Lines) /\ link[k].toGw \in Seq(Frames)
    BY LinkFacts DEF Inv
  <1>3. <<Line(v)>> \in Seq(Lines) /\ ~Has(<<Line(v)>>, Setting)
    <2>1. Line(v) \in Lines BY LineTypes
    <2> QED BY <2>1, ShortSets DEF Has, Line, Setting
  <1>4. Fades(link[k].toBoard, link[k].toBoard, Setting)
        /\ Fades(link'[k].toGw, link[k].toGw, {"OK"})
    BY <1>1 DEF Fades
  <1>5. Fades(link'[k].toBoard, link[k].toBoard, Setting)
    <2> DEFINE b == link[k].toBoard  u == <<Line(v)>>
    <2>1. link'[k].toBoard = b \/ link'[k].toBoard = b \o u BY <1>1 DEF Sent
    <2>2. b \in Seq(Lines) /\ u \in Seq(Lines) /\ ~Has(u, Setting) BY <1>2, <1>3
    <2>3. Fades(b, b, Setting) BY <1>4
    <2> HIDE DEF b, u
    <2>4. Fades(b \o u, b, Setting) BY <2>2, <2>3, MoreFades
    <2>5. Fades(link'[k].toBoard, b, Setting) BY <2>1, <2>3, <2>4
    <2> QED BY <2>5 DEF b
  <1>6. ASSUME NEW i \in Conns
        PROVE  /\ Calmer(i) /\ ToSet(link'[i].toGw) \subseteq ToSet(link[i].toGw)
               /\ link'[i].device = link[i].device /\ link'[i].gw = link[i].gw
    <2>1. CASE i = k BY <1>1, <1>4, <1>5, <2>1 DEF Calmer, Readable
    <2>2. CASE i # k
      <3>1. link'[i] = link[i] BY <1>1, <2>2
      <3> QED BY <3>1 DEF Calmer, Fades, Readable
    <2> QED BY <2>1, <2>2
  <1>7. \A d \in Devices : registered'[d] # NoConn => Held(registered[d])'
    BY <1>6, HeldStays DEF SwitchInv
  <1>8. /\ Wired' /\ WebMeans'
        /\ \A d \in Devices : SoleIn(d)' => SoleIn(d) /\ Faithful(d)
    BY <1>6, <1>7, BeginRest DEF Used
  <1>9. GatewayMeans' BY IdleStays DEF SwitchInv
  <1>10. ASSUME NEW d \in Devices, SoleIn(d)' PROVE Faithful(d)'
    <2>1. CalmLinks(d) BY <1>6, CalmWhere
    <2> QED BY <1>8, <1>10, <2>1, PlainFaithful
  <1> QED BY <1>8, <1>9, <1>10 DEF SwitchInv

(* A listed command is sent, or left for the next pass.                    *)
LEMMA GwSendSwitch ==
  ASSUME Inv, Inv', SwitchInv, NEW s \in Commands, GwSend(s)
  PROVE  SwitchInv'
  <1> DEFINE e == cmd[s].device  r == registered[e]
  <1>1. /\ gtx.op = "idle" /\ retry = None /\ s \in outbound
        /\ UNCHANGED <<cmd, dev, web, board, reboots, retry, follow, registered, link>>
    BY DEF GwSend, DispatcherAwaits, GwIdle, storeVars, webVars, boardVars
  <1>2. Row(s) /\ e \in Devices /\ cmd[s].payload \in Payloads
    BY <1>1, GatewayTypes DEF Inv, GatewayKnown
  <1>3. \/ UNCHANGED <<steps, gtx>>
        \/ /\ Sendable(s)
           /\ steps' = [steps EXCEPT ![s] = LinesLeft(s)]
           /\ gtx' = [IdleGw EXCEPT !.op = "send", !.conn = r, !.cmd = s,
                                    !.writes = Only(s, Becomes("sent"))]
    BY DEF GwSend
  <1> HIDE DEF r
  <1>4. \A d \in Devices : registered'[d] # NoConn => Held(registered[d])'
    BY <1>1, HeldStays DEF SwitchInv
  <1>5. \A c \in Commands : c # s => steps'[c] = steps[c]
    BY <1>3, GatewayTypes
  <1>6. /\ Wired' /\ WebMeans'
        /\ \A d \in Devices : SoleIn(d)' => SoleIn(d) /\ Faithful(d)
    BY <1>1, <1>2, <1>4, <1>5, BeginRest DEF Used
  <1>7. ASSUME Sendable(s), steps' = [steps EXCEPT ![s] = LinesLeft(s)],
               gtx' = [IdleGw EXCEPT !.op = "send", !.conn = r, !.cmd = s,
                                     !.writes = Only(s, Becomes("sent"))]
        PROVE  /\ gtx'.op = "send" /\ gtx'.conn = r /\ gtx'.cmd = s
               /\ gtx'.writes = Only(s, Becomes("sent"))
               /\ cmd[s].status = "pending"
               /\ r # NoConn /\ link[r].gw = "open" /\ link[r].device = e
               /\ dev[e].proto = "2" => steps'[s] = Rest(s)
    <2>1. /\ gtx'.op = "send" /\ gtx'.conn = r /\ gtx'.cmd = s
          /\ gtx'.writes = Only(s, Becomes("sent"))
      BY <1>7 DEF IdleGw
    <2>2. cmd[s].status = "pending" /\ r # NoConn /\ link[r].gw = "open"
      BY <1>7 DEF Sendable, r
    <2>3. link[r].device = e BY <1>2, <2>2 DEF Inv, LinksKnown, r
    <2>4. dev[e].proto = "2" => steps'[s] = Rest(s)
      BY <1>7, GatewayTypes DEF LinesLeft, Rest
    <2> QED BY <2>1, <2>2, <2>3, <2>4
  <1>8. GatewayMeans'
    <2>1. CASE UNCHANGED <<steps, gtx>> BY <1>1, <2>1, IdleStays DEF SwitchInv
    <2>2. CASE ~UNCHANGED <<steps, gtx>>
      <3>1. /\ gtx'.op = "send" /\ gtx'.conn = r /\ gtx'.cmd = s
            /\ gtx'.writes = Only(s, Becomes("sent"))
            /\ link[r].gw = "open" /\ link[r].device = e
            /\ dev[e].proto = "2" => steps'[s] = Rest(s)
        BY <1>3, <1>7, <2>2
      <3>2. \A c \in Commands : gtx'.writes[c].status = IF c = s THEN "sent" ELSE "keep"
        BY <3>1 DEF Only, NoWrites, Becomes, Keep
      <3>3. Rest(s)' = Rest(s) BY <1>1 DEF Rest, V2Steps, StepFor
      <3>4. Readable(gtx.conn)' BY <1>1, <3>1 DEF Readable
      <3>5. /\ retry' = None /\ cmd' = cmd /\ dev' = dev /\ link' = link BY <1>1
      <3> HIDE DEF Rest, Readable
      <3> QED BY <3>1, <3>2, <3>3, <3>4, <3>5 DEF GatewayMeans
    <2> QED BY <2>1, <2>2
  <1>9. ASSUME NEW d \in Devices, SoleIn(d)' PROVE Faithful(d)'
    <2>1. SoleIn(d) /\ Faithful(d) BY <1>6, <1>9
    <2>2. CalmLinks(d) BY <1>1, SameShrinks, CalmParts
    <2>3. RowsOf(d) BY <1>1, TableSameRows, RowsOfAll
    <2>4. CASE UNCHANGED <<steps, gtx>>
      BY <1>1, <2>1, <2>2, <2>4, PlainFaithful
    <2>5. CASE ~UNCHANGED <<steps, gtx>>
      <3>1. /\ gtx'.op = "send" /\ gtx'.cmd = s
            /\ gtx'.writes = Only(s, Becomes("sent")) /\ cmd[s].status = "pending"
            /\ dev[e].proto = "2" => steps'[s] = Rest(s)
        BY <1>3, <1>7, <2>5
      <3>2. ASSUME NEW c \in CommandsOf(d)
            PROVE  /\ KeptLine(c)'
                   /\ steps'[c] = steps[c] \/ ~Asking(c)'
                   /\ gtx'.writes[c].status # "completed"
        <4>1. c \in Commands /\ cmd[c].device = d BY DEF CommandsOf
        <4>2. gtx'.writes[c].status # "completed"
          BY <3>1, <4>1 DEF Only, NoWrites, Becomes, Keep
        <4>3. CASE c # s
          <5>1. steps'[c] = steps[c] BY <1>5, <4>1, <4>3
          <5>2. KeptLine(c) BY <2>1 DEF Faithful, LinesAsked
          <5> QED BY <1>1, <4>2, <5>1, <5>2, KeptLineStays
        <4>4. CASE c = s
          <5>1. steps'[s] = Tail(V2Steps(cmd[s].payload))
            BY <2>1, <3>1, <4>1, <4>4 DEF SoleIn, Rest
          <5>2. Sets(Head(V2Steps(cmd[s].payload)), steps'[s], cmd[s].payload)
            BY <1>2, <5>1, LinesOfPayload
          <5>3. KeptLine(s)' BY <1>1, <5>2 DEF Sets, KeptLine, AskedBy
          <5>4. ~Asking(s)' BY <1>1, <3>1 DEF Asking
          <5> QED BY <4>2, <4>4, <5>3, <5>4
        <4> QED BY <4>3, <4>4
      <3> QED BY <1>1, <2>1, <2>2, <3>1, <3>2, StartFaithful
    <2> QED BY <2>4, <2>5
  <1> QED BY <1>6, <1>8, <1>9 DEF SwitchInv

(* After a failed write: nothing of that command is on its way.            *)
LEMMA GwRequeueSwitch ==
  ASSUME Inv, Inv', SwitchInv, GwRequeue
  PROVE  SwitchInv'
  <1>1. /\ gtx.op = "idle" /\ retry # None /\ retry \in Commands /\ Row(retry)
        /\ UNCHANGED <<cmd, dev, web, board, reboots, follow, registered, link>>
        /\ steps' = [steps EXCEPT ![retry] = << >>]
    BY DEF GwRequeue, GwIdle, storeVars, webVars, boardVars, Inv, TypeOK, GatewayTypeOK, GatewayKnown
  <1>2. \/ /\ gtx' = [IdleGw EXCEPT !.op = "requeue", !.cmd = retry,
                                    !.writes = Only(retry, Becomes("pending"))]
           /\ retry' = retry
        \/ retry' = None /\ gtx' = gtx
    BY DEF GwRequeue
  <1>3. \A c \in Commands : steps'[c] = IF c = retry THEN << >> ELSE steps[c]
    BY <1>1, GatewayTypes
  <1>4. \A d \in Devices : registered'[d] # NoConn => Held(registered[d])'
    BY <1>1, HeldStays DEF SwitchInv
  <1>5. /\ Wired' /\ WebMeans'
        /\ \A d \in Devices : SoleIn(d)' => SoleIn(d) /\ Faithful(d)
    BY <1>1, <1>3, <1>4, BeginRest DEF Used
  <1>7. \/ gtx' = gtx
        \/ /\ gtx'.op = "requeue" /\ gtx'.cmd = retry /\ retry' = retry
           /\ \A c \in Commands : gtx'.writes[c].status = IF c = retry THEN "pending" ELSE "keep"
    <2>1. CASE gtx' = [IdleGw EXCEPT !.op = "requeue", !.cmd = retry,
                                     !.writes = Only(retry, Becomes("pending"))]
               /\ retry' = retry
      <3>1. /\ gtx'.op = "requeue" /\ gtx'.cmd = retry
            /\ gtx'.writes = Only(retry, Becomes("pending"))
        BY <2>1 DEF IdleGw
      <3> QED BY <2>1, <3>1 DEF Only, NoWrites, Becomes, Keep
    <2> QED BY <1>2, <2>1
  <1>8. GatewayMeans'
    <2>1. CASE gtx' = gtx BY <1>1, <2>1, IdleStays DEF SwitchInv
    <2>2. CASE gtx' # gtx BY <1>7, <2>2 DEF GatewayMeans
    <2> QED BY <2>1, <2>2
  <1>9. ASSUME NEW d \in Devices, SoleIn(d)' PROVE Faithful(d)'
    <2>1. SoleIn(d) /\ Faithful(d) BY <1>5, <1>9
    <2>2. CalmLinks(d) BY <1>1, SameShrinks, CalmParts
    <2>3. RowsOf(d) /\ SameRelays(d) BY <1>1, TableSameRows, RowsOfAll DEF SameRelays
    <2>4. \A c \in CommandsOf(d) : c \in Commands BY DEF CommandsOf
    <2>5. ASSUME NEW c \in CommandsOf(d)
          PROVE  /\ KeptLine(c)'
                 /\ Asking(c)' => (Asking(c) /\ steps'[c] = steps[c]) \/ NoToken(d)
                 /\ Unsent(c)' => Unsent(c)
                 /\ gtx'.writes[c].status = "completed" => Missing(d) = {}
      <3>1. KeptLine(c) BY <2>1 DEF Faithful, LinesAsked
      <3>2. KeptLine(c)' BY <1>1, <1>3, <2>4, <3>1, NoKeptLine, KeptLineStays
      <3>3. gtx'.writes[c].status = "completed" => Missing(d) = {}
        BY <1>7, <2>1, <2>4 DEF Faithful, Deserved
      <3>4. Unsent(c)' => Unsent(c) BY <1>1, <1>2, <1>7, <2>4, NoneAssumption DEF Unsent
      <3>5. c = retry => NoToken(d)
        <4>1. c = retry => \A x \in CommandsOf(d) : Unsent(x)
          BY <2>1 DEF SoleIn, Unsent
        <4> QED BY <2>1, <4>1 DEF Faithful
      <3>6. Asking(c)' => Asking(c) BY <1>1 DEF Asking
      <3>7. c # retry => steps'[c] = steps[c] BY <1>3, <2>4
      <3> QED BY <3>2, <3>3, <3>4, <3>5, <3>6, <3>7
    <2>6. gtx'.op # "report" BY <1>1, <1>7
    <2>7. /\ Behind(dev'[d].actual, d) /\ link' \in [Conns -> Links]
          /\ \A c \in CommandsOf(d), w \in Workers :
                 web'[w].writes[c].status = "completed" => Missing(d) = {}
      BY <1>1, <2>1, StreamTypes DEF Faithful, StatesBehind, Deserved
    <2> QED BY <1>1, <2>1, <2>2, <2>3, <2>5, <2>6, <2>7, CalmFaithful
  <1> QED BY <1>5, <1>8, <1>9 DEF SwitchInv

(* A STATE or a PONG is read.                                              *)
LEMMA GwReportSwitch ==
  ASSUME Inv, Inv', SwitchInv, NEW k \in Conns, GwReport(k)
  PROVE  SwitchInv'
  <1> DEFINE e == link[k].device
             frame == Head(link[k].toGw)
             stated == ~dev[e].deleted /\ frame.verb = "STATE"
             matched == IF stated THEN MatchedSent(e, frame.relays) ELSE {}
             ws == IF stated THEN ReportWrites(e, frame.relays) ELSE NoWrites
  <1>1. /\ gtx.op = "idle" /\ link[k].gw \in {"open", "closing"} /\ link[k].toGw # << >>
        /\ UNCHANGED <<cmd, dev, web, board, reboots, retry, registered>>
        /\ link' = Consumed(k)
        /\ steps' = [c \in Commands |-> IF c \in matched THEN << >> ELSE steps[c]]
        /\ follow' = [follow EXCEPT ![e] = IF matched # {} THEN None ELSE @]
        /\ gtx'.op = "report" /\ gtx'.conn = k /\ gtx'.relays = frame.relays
        /\ gtx'.writes = ws
    BY DEF GwReport, GwIdle, storeVars, webVars, IdleGw
  <1>2. \A c \in matched :
          /\ c \in Commands /\ Row(c) /\ cmd[c].device = e /\ dev[e].proto = "2"
          /\ PayloadMatches(cmd[c].payload, frame.relays)
    BY DEF MatchedSent, Row
  <1>3. \A c \in Commands : /\ ws[c].status \notin {"sent", "pending"}
                            /\ ws[c].status = "completed" => c \in matched
    BY DEF ReportWrites, Confirm, Becomes, Complete, Keep, NoWrites
  <1> HIDE DEF matched, ws, stated
  <1>4. /\ \A i \in Conns : /\ Shrinks(i)
                            /\ link'[i].gw = link[i].gw
                            /\ (Used(i) <=> Used(i)')
    BY <1>1, ConsumedShrinks
  <1>5. frame \in ToSet(link[k].toGw)
    <2>1. link[k].toGw \in Seq(Frames) BY LinkFacts DEF Inv
    <2> QED BY <1>1, <2>1, HeadIsInIt
  <1>6. \A d \in Devices : registered'[d] # NoConn => Held(registered[d])'
    <2>1. ASSUME NEW d \in Devices, registered'[d] # NoConn PROVE Held(registered[d])'
      <3>1. link[registered[d]].gw \in {"open", "closing"} /\ registered[d] \in Conns
        BY <1>1, <2>1, HeldServed DEF SwitchInv
      <3> QED BY <1>1, <1>4, <3>1 DEF Held, Readable
    <2> QED BY <2>1
  <1>7. \A c \in Commands : steps'[c] = IF c \in matched THEN << >> ELSE steps[c]
    BY <1>1
  <1>8. /\ Wired' /\ WebMeans' /\ SameRows
        /\ \A d \in Devices : SoleIn(d)' => SoleIn(d) /\ Faithful(d)
    BY <1>1, <1>4, <1>6, <1>7, BeginRest DEF Shrinks
  <1>9. GatewayMeans'
    <2>1. Readable(gtx.conn)' BY <1>1, <1>4 DEF Readable
    <2>2. \A c \in Commands :
            /\ gtx'.writes[c].status \notin {"sent", "pending"}
            /\ gtx'.writes[c].status = "completed" => dev'[cmd'[c].device].proto = "2"
      BY <1>1, <1>2, <1>3
    <2> HIDE DEF Readable
    <2> QED BY <1>1, <2>1, <2>2 DEF GatewayMeans
  <1>10. ASSUME NEW d \in Devices, SoleIn(d)' PROVE Faithful(d)'
    <2>1. SoleIn(d) /\ Faithful(d) BY <1>8, <1>10
    <2>2. CalmLinks(d) BY <1>4, CalmParts
    <2>3. RowsOf(d) BY <1>8, RowsOfAll
    <2>4. follow'[d] \in {follow[d], None} BY <1>1, GatewayTypes
    <2>5. ASSUME NEW c \in CommandsOf(d)
          PROVE  /\ KeptLine(c)'
                 /\ steps'[c] = steps[c] \/ Missing(d) = {}
                 /\ gtx'.writes[c].status = "completed" => Missing(d) = {}
      <3>1. c \in Commands /\ cmd[c].device = d BY DEF CommandsOf
      <3>2. c \in matched => Missing(d) = {}
        <4>1. ASSUME c \in matched PROVE Missing(d) = {}
          <5>1. d = e /\ PayloadMatches(cmd[c].payload, frame.relays) BY <1>2, <3>1, <4>1
          <5>2. k \in LinksOf(d) BY <5>1 DEF LinksOf
          <5>3. Behind(frame.relays, d) BY <1>5, <2>1, <5>2 DEF Faithful, StatesBehind
          <5> QED BY <2>1, <5>1, <5>3, SoleMissing
        <4> QED BY <4>1
      <3>3. KeptLine(c) BY <2>1 DEF Faithful, LinesAsked
      <3>4. KeptLine(c)' BY <1>1, <1>7, <3>1, <3>3, NoKeptLine, KeptLineStays
      <3> QED BY <1>1, <1>3, <1>7, <3>1, <3>2, <3>4
    <2>6. link'[k].device = d => Behind(frame.relays, d)
      <3>1. ASSUME link'[k].device = d PROVE Behind(frame.relays, d)
        <4>1. k \in LinksOf(d) BY <1>4, <3>1 DEF LinksOf, Shrinks
        <4> QED BY <1>5, <2>1, <4>1 DEF Faithful, StatesBehind
      <3> QED BY <3>1
    <2> HIDE DEF frame
    <2> QED BY <1>1, <2>1, <2>2, <2>4, <2>5, <2>6, StartFaithful
  <1> QED BY <1>8, <1>9, <1>10 DEF SwitchInv

(* The OK of a line before the last: the next one now waits for a STATE.   *)
LEMMA NextStepFaithful ==
  ASSUME Inv, Inv', NEW k \in Conns, NEW d \in Devices, SoleIn(d), Faithful(d),
         link[k].device = d, gtx.op = "idle", Readable(k),
         link' = Consumed(k), link[k].toGw # << >>, Head(link[k].toGw).verb = "OK",
         UNCHANGED <<cmd, dev, web, board, retry, gtx>>,
         NEW s \in CommandsOf(d), cmd[s].status = "sent", steps[s] # << >>,
         follow'[d] = Head(steps[s]), steps'[s] = Tail(steps[s])
  PROVE  Faithful(d)'
  <1>1. /\ link[k].toBoard \in Seq(Lines) /\ link[k].toGw \in Seq(Frames)
        /\ steps[s] \in Seq(Lines) /\ s \in Commands /\ CommandsOf(d) = {s}
        /\ k \in LinksOf(d)
    BY StreamTypes, GatewayTypes DEF CommandsOf, SoleIn, LinksOf
  <1>2. Has(link[k].toGw, {"OK"}) /\ Busy(k)
    BY <1>1, HeadIsInIt DEF Has, Busy
  <1>3. /\ OneToken(d) /\ LinesAsked(d) /\ StatesBehind(d) /\ NothingForgotten(d) /\ Deserved(d)
        /\ ~Unsent(s)
    BY <1>1, <1>2 DEF Faithful, NoToken
  <1>4. /\ \A i \in Conns : /\ Shrinks(i)
                            /\ link'[i].toBoard = link[i].toBoard
        /\ \A i \in Conns : i # k => link'[i] = link[i]
        /\ link'[k].toGw = Tail(link[k].toGw)
    BY ConsumedShrinks
  <1>5. LinksOf(d)' = LinksOf(d) BY <1>4 DEF LinksOf, Shrinks
  <1>6. RowsOf(d) BY TableSameRows, RowsOfAll
  <1>7. /\ CommandsOf(d)' = {s} /\ Missing(d)' = Missing(d)
        /\ \A rs : Behind(rs, d) => Behind(rs, d)'
        /\ \A l : LineOf(l, d) => LineOf(l, d)'
    BY <1>1, <1>6, RowsStay DEF SameRelays
  <1>8. \A i \in LinksOf(d) : ~Busy(i)'
    <2>1. ~Has(link'[k].toGw, {"OK"})
      <3>1. Once(link[k].toGw, {"OK"}) BY <1>1, <1>3 DEF OneToken
      <3> QED BY <1>1, <1>4, <3>1, HeadWasIt
    <2>2. ~Has(link'[k].toBoard, Setting) BY <1>1, <1>2, <1>3, <1>4 DEF OneToken
    <2>3. ASSUME NEW i \in LinksOf(d), i # k PROVE ~Busy(i)'
      <3>1. ~Busy(i) BY <1>1, <1>2, <1>3, <2>3 DEF OneToken
      <3> QED BY <1>4, <2>3, <3>1 DEF Busy, LinksOf
    <2> QED BY <2>1, <2>2, <2>3 DEF Busy
  <1>9. KeptLine(s) BY <1>3 DEF LinesAsked
  <1>10. /\ Tail(steps[s]) = << >> /\ ToSet(steps[s]) = {Head(steps[s])}
    <2> DEFINE q == steps[s]
    <2>1. q \in Seq(Lines) /\ q # << >> /\ Len(q) <= 1 BY <1>1, <1>9 DEF KeptLine
    <2> HIDE DEF q
    <2>2. Len(q) = 1
      <3> DEFINE n == Len(q)
      <3>1. n \in Nat /\ n # 0 /\ n <= 1 BY <2>1, LenProperties, EmptySeq
      <3> HIDE DEF n
      <3>2. n = 1 BY <3>1
      <3> QED BY <3>2 DEF n
    <2>3. Tail(q) \in Seq(Lines) /\ Len(Tail(q)) = 0 BY <2>1, <2>2, HeadTailProperties
    <2>4. Tail(q) = << >> BY <2>3, EmptySeq
    <2>5. ToSet(q) = {Head(q)}
      <3>1. ToSet(q) = {q[i] : i \in 1..1} BY <2>1, <2>2, SetOfSeq
      <3>2. Head(q) = q[1] BY <2>1, HeadTailProperties
      <3>3. {q[i] : i \in 1..1} = {q[1]} OBVIOUS
      <3> QED BY <3>1, <3>2, <3>3
    <2> QED BY <2>4, <2>5 DEF q
  <1>11. Missing(d) \subseteq DOMAIN Head(steps[s]).set
    <2>1. Asking(s) BY DEF Asking
    <2>2. Covered(k, s, d) BY <1>1, <1>3, <2>1 DEF NothingForgotten
    <2>3. Missing(d) \subseteq SetBy(steps[s]) BY <1>2, <2>2 DEF Covered
    <2> QED BY <1>10, <2>3 DEF SetBy
  <1>12. OneToken(d)'
    <2>1. ASSUME NEW i \in LinksOf(d)
          PROVE  Once(link'[i].toBoard, Setting) /\ Once(link'[i].toGw, {"OK"})
                 /\ ~(Has(link'[i].toBoard, Setting) /\ Has(link'[i].toGw, {"OK"}))
      <3>1. ~Has(link'[i].toBoard, Setting) /\ ~Has(link'[i].toGw, {"OK"})
        BY <1>8, <2>1 DEF Busy
      <3>2. link'[i].toBoard \in Seq(Lines) /\ link'[i].toGw \in Seq(Frames)
        BY <2>1, StreamTypes DEF LinksOf
      <3> QED BY <3>1, <3>2, NoneIsOnce
    <2> QED BY <1>5, <1>8, <2>1 DEF OneToken
  <1>13. ~Unsent(s)' BY <1>3 DEF Unsent
  <1>14. LinesAsked(d)'
    <2>1. \A i \in LinksOf(d) : \A l \in ToSet(link'[i].toBoard) : LineOf(l, d)'
      BY <1>3, <1>4, <1>7 DEF LinesAsked, LinksOf
    <2>2. /\ Head(steps[s]).verb \in Setting
          /\ AskedBy(Head(steps[s]), cmd[s].payload)
      BY <1>9, <1>10 DEF KeptLine
    <2>3. follow'[d].verb \in Setting /\ LineOf(follow[d], d)'
      BY <1>7, <2>2 DEF LineOf, AskedBy
    <2>4. KeptLine(s)' BY <1>10, NoKeptLine
    <2> HIDE DEF KeptLine
    <2> QED BY <1>5, <1>7, <2>1, <2>3, <2>4 DEF LinesAsked
  <1>15. StatesBehind(d)'
    <2>1. ASSUME NEW i \in LinksOf(d), NEW f \in ToSet(link'[i].toGw)
          PROVE  f.verb # "ACK" /\ Behind(f.relays, d)'
      <3>1. f \in ToSet(link[i].toGw)
        BY <1>4, <2>1, StreamTypes, PartFacts DEF Shrinks, LinksOf
      <3> QED BY <1>3, <1>7, <2>1, <3>1 DEF StatesBehind
    <2>2. Behind(dev[d].actual, d)' BY <1>3, <1>7 DEF StatesBehind, Behind
    <2> HIDE DEF Behind
    <2> QED BY <1>5, <2>1, <2>2 DEF StatesBehind
  <1>16. NothingForgotten(d)'
    <2>1. \A i \in LinksOf(d) : Covered(i, s, d)' BY <1>8 DEF Covered, Busy, Has
    <2> QED BY <1>5, <1>7, <1>11, <2>1 DEF NothingForgotten
  <1>17. Deserved(d)' BY <1>1, <1>3, <1>7 DEF Deserved
  <1> QED BY <1>7, <1>12, <1>13, <1>14, <1>15, <1>16, <1>17 DEF Faithful

LEMMA GwNextStepSwitch ==
  ASSUME Inv, Inv', SwitchInv, NEW k \in Conns, GwNextStep(k)
  PROVE  SwitchInv'
  <1> DEFINE e == link[k].device
  <1>1. /\ gtx.op = "idle" /\ link[k].gw \in {"open", "closing"} /\ link[k].toGw # << >>
        /\ Head(link[k].toGw).verb = "OK"
        /\ UNCHANGED <<cmd, dev, web, board, reboots, retry, registered, gtx>>
        /\ link' = Consumed(k)
    BY DEF GwNextStep, GwIdle, storeVars, webVars
  <1>2. PICK s \in Latest(e) : /\ steps[s] # << >>
                               /\ steps' = [steps EXCEPT ![s] = Tail(@)]
                               /\ follow' = [follow EXCEPT ![e] = Head(steps[s])]
    BY DEF GwNextStep
  <1>3. s \in Commands /\ cmd[s].device = e /\ cmd[s].status = "sent" /\ Row(s)
        /\ e \in Devices
    BY <1>1, GatewayTypes DEF Latest, Row, Used
  <1>4. \A i \in Conns : /\ Shrinks(i) /\ link'[i].gw = link[i].gw
                            /\ (Used(i) <=> Used(i)')
    BY <1>1, ConsumedShrinks
  <1>5. ASSUME NEW d \in Devices, registered'[d] # NoConn PROVE Held(registered[d])'
    <2>1. link[registered[d]].gw \in {"open", "closing"} /\ registered[d] \in Conns
      BY <1>1, <1>5, HeldServed DEF SwitchInv
    <2> QED BY <1>1, <1>4, <2>1 DEF Held, Readable
  <1>6. \A c \in Commands : steps'[c] = IF c = s THEN Tail(steps[s]) ELSE steps[c]
    BY <1>2, <1>3, GatewayTypes
  <1>7. \A d \in Devices : follow'[d] = IF d = e THEN Head(steps[s]) ELSE follow[d]
    BY <1>2, <1>3, GatewayTypes
  <1>8. /\ Wired' /\ WebMeans' /\ SameRows
        /\ \A d \in Devices : SoleIn(d)' => SoleIn(d) /\ Faithful(d)
    BY <1>1, <1>3, <1>4, <1>5, <1>6, BeginRest DEF Shrinks
  <1>9. GatewayMeans' BY <1>1, IdleStays DEF SwitchInv
  <1>10. ASSUME NEW d \in Devices, SoleIn(d)' PROVE Faithful(d)'
    <2>1. SoleIn(d) /\ Faithful(d) BY <1>8, <1>10
    <2>2. CASE d = e
      <3>1. s \in CommandsOf(d) BY <1>3, <2>2 DEF CommandsOf
      <3>2. Readable(k) BY <1>1 DEF Readable
      <3>3. link[k].device = d /\ follow'[d] = Head(steps[s]) /\ steps'[s] = Tail(steps[s])
        BY <1>3, <1>6, <1>7, <2>2
      <3> QED BY <1>1, <1>2, <1>3, <2>1, <3>1, <3>2, <3>3, NextStepFaithful
    <2>3. CASE d # e
      <3>1. CalmLinks(d) BY <1>4, CalmParts
      <3>2. RowsOf(d) BY <1>8, RowsOfAll
      <3>3. ASSUME NEW c \in CommandsOf(d)
            PROVE  /\ KeptLine(c)' /\ steps'[c] = steps[c]
                   /\ gtx'.writes[c].status = "completed" => Missing(d) = {}
        <4>1. steps'[c] = steps[c] BY <1>3, <1>6, <2>3 DEF CommandsOf
        <4>2. KeptLine(c)' BY <1>1, <2>1, <4>1, KeptLineStays DEF Faithful, LinesAsked
        <4>3. gtx'.writes[c].status = "completed" => Missing(d) = {}
          BY <1>1, <2>1 DEF Faithful, Deserved
        <4> QED BY <4>1, <4>2, <4>3
      <3> QED BY <1>1, <1>7, <2>1, <2>3, <3>1, <3>3, StartFaithful
    <2> QED BY <2>2, <2>3
  <1> QED BY <1>8, <1>9, <1>10 DEF SwitchInv

(* An answer that no line waits for settles the command.                   *)
LEMMA OkMeansSwitched ==
  ASSUME Inv, NEW d \in Devices, Faithful(d), gtx.op = "idle", NEW k \in Conns, Readable(k),
         NEW s \in CommandsOf(d), cmd[s].status = "sent", link[k].device = d,
         link[k].toGw # << >>,
         \/ Head(link[k].toGw).verb = "OK" /\ steps[s] = << >>
         \/ Head(link[k].toGw).verb = "ACK"
  PROVE  Missing(d) = {}
  <1>1. link[k].toGw \in Seq(Frames) /\ k \in LinksOf(d) BY LinkFacts DEF Inv, LinksOf
  <1>2. Head(link[k].toGw) \in ToSet(link[k].toGw) BY <1>1, HeadIsInIt
  <1>3. Head(link[k].toGw).verb # "ACK" BY <1>1, <1>2 DEF Faithful, StatesBehind
  <1>4. Has(link[k].toGw, {"OK"}) BY <1>2, <1>3 DEF Has
  <1>5. Asking(s) BY DEF Asking
  <1>6. Covered(k, s, d) BY <1>1, <1>5 DEF Faithful, NothingForgotten
  <1>7. Missing(d) \subseteq SetBy(steps[s]) BY <1>4, <1>6 DEF Covered
  <1> QED BY <1>3, <1>7, NothingInIt DEF SetBy

LEMMA GwAnswerSwitch ==
  ASSUME Inv, Inv', SwitchInv, NEW k \in Conns, GwAnswer(k)
  PROVE  SwitchInv'
  <1> DEFINE e == link[k].device
             frame == Head(link[k].toGw)
             success == frame.verb \in {"OK", "ACK"}
  <1>1. /\ gtx.op = "idle" /\ link[k].gw \in {"open", "closing"} /\ link[k].toGw # << >>
        /\ UNCHANGED <<cmd, dev, web, board, reboots, retry, registered, follow>>
        /\ link' = Consumed(k)
        /\ frame.verb \in {"OK", "ERR", "ACK", "NAK"}
    BY DEF GwAnswer, GwIdle, storeVars, webVars
  <1>2. \/ UNCHANGED <<steps, gtx>>
        \/ \E c \in Answered(e, frame) :
              /\ steps' = [steps EXCEPT ![c] = << >>]
              /\ gtx' = [IdleGw EXCEPT !.op = "answer", !.conn = k, !.cmd = c,
                            !.writes = Only(c, Acked(c, success, dev[e].actual))]
    BY DEF GwAnswer
  <1>3. /\ \A i \in Conns : /\ Shrinks(i) /\ link'[i].gw = link[i].gw
                            /\ (Used(i) <=> Used(i)')
    BY <1>1, ConsumedShrinks
  <1>4. \A d \in Devices : registered'[d] # NoConn => Held(registered[d])'
    BY <1>1, <1>3, HeldStays DEF SwitchInv
  <1>5. Readable(k) /\ Readable(k)' BY <1>1, <1>3 DEF Readable
  <1>6. CASE UNCHANGED <<steps, gtx>>
    <2>1. /\ Wired' /\ WebMeans'
          /\ \A d \in Devices : SoleIn(d)' => SoleIn(d) /\ Faithful(d)
      BY <1>1, <1>3, <1>4, <1>6, BeginRest DEF Shrinks
    <2>2. GatewayMeans' BY <1>1, <1>6, IdleStays DEF SwitchInv
    <2>3. ASSUME NEW d \in Devices, SoleIn(d)' PROVE Faithful(d)'
      <3>1. CalmLinks(d) BY <1>3, CalmParts
      <3> QED BY <1>1, <1>6, <2>1, <2>3, <3>1, PlainFaithful
    <2> QED BY <2>1, <2>2, <2>3 DEF SwitchInv
  <1>7. ASSUME NEW s \in Answered(e, frame),
               steps' = [steps EXCEPT ![s] = << >>],
               gtx' = [IdleGw EXCEPT !.op = "answer", !.conn = k, !.cmd = s,
                          !.writes = Only(s, Acked(s, success, dev[e].actual))]
        PROVE  SwitchInv'
    <2> DEFINE w == Acked(s, success, dev[e].actual)
    <2>1. /\ s \in Commands /\ Row(s) /\ cmd[s].device = e /\ cmd[s].status = "sent"
          /\ success => \/ frame.verb = "OK" /\ steps[s] = << >>
                        \/ frame.verb = "ACK"
      BY <1>1, <1>7 DEF Answered, Latest, Row
    <2>2. /\ w.status \in {"failed", "completed", "acknowledged"}
          /\ w.status = "completed" => success /\ dev[e].proto = "2"
          /\ dev[e].proto = "2" => w \in {Becomes("failed"), Becomes("completed")}
      BY <2>1 DEF Acked, Becomes
    <2>3. /\ gtx'.op = "answer" /\ gtx'.conn = k /\ gtx'.cmd = s /\ gtx'.writes = Only(s, w)
      BY <1>7 DEF IdleGw
    <2> HIDE DEF w, success
    <2>4. \A c \in Commands : gtx'.writes[c] = IF c = s THEN w ELSE Keep
      BY <2>1, <2>3 DEF Only, NoWrites
    <2>5. \A c \in Commands : steps'[c] = IF c = s THEN << >> ELSE steps[c]
      BY <1>7, GatewayTypes
    <2>6. /\ Wired' /\ WebMeans'
          /\ \A d \in Devices : SoleIn(d)' => SoleIn(d) /\ Faithful(d)
      BY <1>1, <1>3, <1>4, <2>5, BeginRest DEF Shrinks
    <2>7. GatewayMeans'
      <3>1. \A c \in Commands :
               /\ gtx'.writes[c].status \notin {"sent", "pending"}
               /\ gtx'.writes[c].status = "completed" => dev'[cmd'[c].device].proto = "2"
        BY <1>1, <2>1, <2>2, <2>4 DEF Keep
      <3>2. /\ gtx'.cmd \in Commands /\ Row(gtx.cmd)' /\ Readable(gtx.conn)'
            /\ dev'[cmd'[gtx'.cmd].device].proto = "2" =>
                  gtx'.writes \in {Only(gtx'.cmd, Becomes(st)) : st \in {"failed", "completed"}}
        BY <1>1, <1>5, <2>1, <2>2, <2>3 DEF Row, Readable
      <3> HIDE DEF Readable
      <3> QED BY <2>3, <3>1, <3>2 DEF GatewayMeans
    <2>8. ASSUME NEW d \in Devices, SoleIn(d)' PROVE Faithful(d)'
      <3>1. SoleIn(d) /\ Faithful(d) BY <2>6, <2>8
      <3>2. CalmLinks(d) BY <1>3, CalmParts
      <3>3. ASSUME NEW c \in CommandsOf(d)
            PROVE  /\ KeptLine(c)'
                   /\ steps'[c] = steps[c] \/ ~Asking(c)'
                   /\ gtx'.writes[c].status = "completed" => Missing(d) = {}
        <4>1. c \in Commands /\ cmd[c].device = d BY DEF CommandsOf
        <4>2. CASE c # s
          <5>1. steps'[c] = steps[c] BY <2>5, <4>1, <4>2
          <5>2. KeptLine(c) BY <3>1 DEF Faithful, LinesAsked
          <5>3. gtx'.writes[c].status # "completed" BY <2>4, <4>1, <4>2 DEF Keep
          <5> QED BY <1>1, <5>1, <5>2, <5>3, KeptLineStays
        <4>3. CASE c = s
          <5>1. KeptLine(c)' BY <2>5, <4>1, <4>3, NoKeptLine
          <5>2. ~Asking(c)' BY <2>3, <4>3 DEF Asking
          <5>3. ASSUME w.status = "completed" PROVE Missing(d) = {}
            <6>1. d = e /\ success BY <2>1, <2>2, <4>1, <4>3, <5>3
            <6>2. \/ frame.verb = "OK" /\ steps[s] = << >>
                  \/ frame.verb = "ACK"
              BY <2>1, <6>1
            <6> QED BY <1>1, <1>5, <2>1, <3>1, <4>3, <6>1, <6>2, OkMeansSwitched
          <5> QED BY <2>4, <4>1, <4>3, <5>1, <5>2, <5>3
        <4> QED BY <4>2, <4>3
      <3> QED BY <1>1, <2>3, <3>1, <3>2, <3>3, StartFaithful
    <2> QED BY <2>6, <2>7, <2>8 DEF SwitchInv
  <1> QED BY <1>2, <1>6, <1>7

LEMMA GwPingSwitch ==
  ASSUME Inv, Inv', SwitchInv, NEW k \in Conns, GwPing(k)
  PROVE  SwitchInv'
  BY AskingLineSwitch DEF GwPing, GwIdle, storeVars, webVars, gatewayVars, memory

LEMMA GwDiagnosticGetSwitch ==
  ASSUME Inv, Inv', SwitchInv, NEW d \in Devices, GwDiagnosticGet(d)
  PROVE  SwitchInv'
  <1>1. registered[d] \in Conns BY GatewayTypes DEF GwDiagnosticGet
  <1> QED
    BY <1>1, AskingLineSwitch
    DEF GwDiagnosticGet, DispatcherAwaits, GwIdle, storeVars, webVars, gatewayVars, memory

(* The process ends: what it was about to write and to send is gone.       *)
LEMMA GwCrashSwitch ==
  ASSUME Inv, Inv', SwitchInv, GwCrash
  PROVE  SwitchInv'
  <1>1. /\ UNCHANGED <<cmd, dev, web, board, reboots>>
        /\ link' = [k \in Conns |->
                      IF link[k].gw \in {"auth", "open", "closing"}
                      THEN [link[k] EXCEPT !.gw = "closed", !.toGw = << >>] ELSE link[k]]
        /\ registered' = [d \in Devices |-> NoConn]
        /\ steps' = [c \in Commands |-> << >>]
        /\ follow' = [d \in Devices |-> None]
        /\ retry' = None /\ gtx' = IdleGw
    BY DEF GwCrash, storeVars, webVars
  <1>2. ASSUME NEW k \in Conns
        PROVE  Shrinks(k) /\ ~Readable(k)' /\ link'[k].device = link[k].device
               /\ (Used(k) => Used(k)')
    <2>1. link[k] \in Links /\ link[k].toBoard \in Seq(Lines) /\ link[k].toGw \in Seq(Frames)
      BY LinkFacts DEF Inv
    <2>2. CASE Readable(k)
      <3>1. link'[k] = [link[k] EXCEPT !.gw = "closed", !.toGw = << >>]
        BY <1>1, <2>2 DEF Readable
      <3>2. /\ link'[k].gw = "closed" /\ link'[k].toGw = << >>
            /\ link'[k].toBoard = link[k].toBoard /\ link'[k].device = link[k].device
        BY <2>1, <3>1 DEF Links
      <3> QED BY <2>1, <3>2, PartsOf DEF Shrinks, Readable, Used
    <2>3. CASE ~Readable(k)
      <3>1. link'[k] = link[k] BY <1>1, <2>3 DEF Readable
      <3> QED BY <2>3, <3>1, SameShrinks DEF Readable, Used
    <2> QED BY <2>2, <2>3
  <1>3. /\ Wired' /\ WebMeans'
        /\ \A d \in Devices : SoleIn(d)' => SoleIn(d) /\ Faithful(d)
    BY <1>1, <1>2, BeginRest
  <1>4. GatewayMeans' BY <1>1, IdleMeans
  <1>5. ASSUME NEW d \in Devices, SoleIn(d)' PROVE Faithful(d)'
    <2>1. SoleIn(d) /\ Faithful(d) BY <1>3, <1>5
    <2>2. CalmLinks(d) BY <1>2, CalmParts
    <2>3. RowsOf(d) /\ SameRelays(d) BY <1>1, TableSameRows, RowsOfAll DEF SameRelays
    <2>4. \A c \in CommandsOf(d) : c \in Commands BY DEF CommandsOf
    <2>5. \A k \in LinksOf(d)' : ~Readable(k)' BY <1>2 DEF LinksOf
    <2>6. /\ gtx'.op = "idle"
          /\ \A c \in Commands : gtx'.writes[c].status # "completed"
      BY <1>1 DEF IdleGw, NoWrites, Keep
    <2>7. ASSUME NEW c \in CommandsOf(d)
          PROVE  KeptLine(c)' /\ (Unsent(c)' => Unsent(c))
      <3>1. KeptLine(c)' BY <1>1, <2>4, NoKeptLine
      <3>2. Unsent(c)' => Unsent(c) BY <1>1, <2>4, <2>6, NoneAssumption DEF Unsent
      <3> QED BY <3>1, <3>2
    <2>8. /\ Behind(dev'[d].actual, d) /\ link' \in [Conns -> Links]
          /\ \A c \in CommandsOf(d), w \in Workers :
                 web'[w].writes[c].status = "completed" => Missing(d) = {}
      BY <1>1, <2>1, StreamTypes DEF Faithful, StatesBehind, Deserved
    <2>9. follow'[d] = None BY <1>1
    <2> QED BY <2>1, <2>2, <2>3, <2>4, <2>5, <2>6, <2>7, <2>8, <2>9, CalmFaithful
  <1> QED BY <1>3, <1>4, <1>5 DEF SwitchInv

(* A step of nothing that the invariant is about.                          *)
LEMMA SameSwitch ==
  ASSUME Inv, Inv', SwitchInv,
         UNCHANGED <<cmd, dev, web, link, board, reboots, registered, steps, follow, retry, gtx>>
  PROVE  SwitchInv'
  <1>1. SameRows /\ SameProtocols BY TableSameRows DEF SameProtocols
  <1>2. \A k \in Conns : Shrinks(k) BY SameShrinks
  <1>3. WebMeans' BY <1>1, WebMeansKept DEF SwitchInv
  <1>4. \A d \in Devices : registered'[d] # NoConn => Held(registered[d])'
    BY DEF SwitchInv, Wired, Held, Readable
  <1>5. Wired' BY <1>4, WiredKept DEF SwitchInv, Used, Row
  <1>6. GatewayMeans' BY <1>1, GatewayMeansKept DEF SwitchInv, Readable, Row
  <1>7. ASSUME NEW d \in Devices, SoleIn(d)' PROVE Faithful(d)'
    <2>1. SoleIn(d) /\ Faithful(d) BY <1>1, <1>7, SoleBack DEF SameRows, SwitchInv
    <2>2. CalmLinks(d) /\ RowsOf(d) /\ SameRelays(d)
      BY <1>1, <1>2, CalmParts, RowsOfAll DEF SameRelays
    <2>3. \A c \in CommandsOf(d) :
            /\ Unsent(c)' => Unsent(c)
            /\ Asking(c)' => Asking(c)
            /\ KeptLine(c)'
      BY <2>1, KeptLineStays DEF Unsent, Asking, Faithful, LinesAsked
    <2>4. \A c \in CommandsOf(d) :
            /\ gtx'.writes[c].status = "completed" => Missing(d) = {}
            /\ \A w \in Workers : web'[w].writes[c].status = "completed" => Missing(d) = {}
      BY <2>1 DEF Faithful, Deserved
    <2>5. /\ Behind(dev'[d].actual, d) /\ link' \in [Conns -> Links]
          /\ gtx'.op = "report" /\ link'[gtx'.conn].device = d => Behind(gtx'.relays, d)
      BY <2>1, StreamTypes DEF Faithful, StatesBehind
    <2> QED BY <2>1, <2>2, <2>3, <2>4, <2>5, CalmFaithful
  <1> QED BY <1>3, <1>5, <1>6, <1>7 DEF SwitchInv

LEMMA GwStartSwitch ==
  ASSUME Inv, Inv', SwitchInv, GwStart
  PROVE  SwitchInv'
  BY SameSwitch DEF GwStart, storeVars, webVars, gatewayVars, memory

---------------------------------------------------------------------------
(* The gateway: a transaction commits. *)

LEMMA CommitRest ==
  ASSUME Inv, SwitchInv, gtx' = IdleGw, UNCHANGED <<web, board, reboots, registered, steps>>,
         SameRows, SameProtocols,
         gtx.op = "hello" => link'[gtx.conn].gw = "open",
         \A k \in Conns : /\ link'[k].device = link[k].device /\ (Used(k) => Used(k)')
                          /\ link[k].gw \in {"open", "closing"} =>
                                 link'[k].gw \in {"open", "closing"}
  PROVE  /\ Wired' /\ WebMeans' /\ GatewayMeans'
         /\ \A d \in Devices : SoleIn(d)' => SoleIn(d) /\ Faithful(d)
  <1>1. ASSUME NEW d \in Devices, registered'[d] # NoConn PROVE Held(registered[d])'
    <2>1. registered[d] \in Conns /\ registered[d] # NoConn
      BY <1>1 DEF Inv, LinksKnown, Used
    <2>2. Held(registered[d]) BY <2>1 DEF SwitchInv, Wired
    <2>3. link'[registered[d]].gw \in {"open", "closing"}
      BY <2>1, <2>2 DEF Held, Readable
    <2> QED BY <2>3 DEF Held, Readable
  <1>2. Wired' BY <1>1, WiredKept DEF SwitchInv, SameRows
  <1>3. WebMeans' BY WebMeansKept DEF SwitchInv, SameRows
  <1>4. GatewayMeans' BY IdleMeans
  <1>5. \A d \in Devices : SoleIn(d)' => SoleIn(d) BY SoleBack DEF SameRows
  <1> QED BY <1>2, <1>3, <1>4, <1>5 DEF SwitchInv

LEMMA CommitFaithful ==
  ASSUME Inv, Inv', NEW d \in Devices, SoleIn(d), Faithful(d), gtx' = IdleGw,
         UNCHANGED <<web, board, steps>>, SameRows, CalmLinks(d),
         follow'[d] \in {follow[d], None}, Behind(dev'[d].actual, d),
         \A c \in CommandsOf(d) :
            /\ cmd'[c].status = "pending" \/ retry' = c => Unsent(c)
            /\ cmd'[c].status = "sent" => Asking(c) \/ Unsent(c)
  PROVE  Faithful(d)'
  <1>1. RowsOf(d) /\ SameRelays(d) BY RowsOfAll DEF SameRelays
  <1>2. /\ gtx'.op = "idle"
        /\ \A c \in Commands : gtx'.writes[c].status # "completed"
    BY DEF IdleGw, NoWrites, Keep
  <1>3. \A c \in CommandsOf(d) : c \in Commands BY DEF CommandsOf
  <1>4. ASSUME NEW c \in CommandsOf(d)
        PROVE  /\ Unsent(c)' => Unsent(c)
               /\ Asking(c)' => (Asking(c) /\ steps'[c] = steps[c]) \/ NoToken(d)
               /\ KeptLine(c)'
    <2>1. Unsent(c)' => Unsent(c) BY <1>2 DEF Unsent
    <2>2. Unsent(c) => NoToken(d) BY DEF SoleIn, Faithful
    <2>3. Asking(c)' => Asking(c) \/ Unsent(c) BY DEF Asking
    <2>4. KeptLine(c) BY DEF Faithful, LinesAsked
    <2>5. KeptLine(c)' BY <1>1, <2>4, KeptLineStays DEF RowsOf
    <2> QED BY <2>1, <2>2, <2>3, <2>5
  <1>5. \A c \in CommandsOf(d), w \in Workers :
            web'[w].writes[c].status = "completed" => Missing(d) = {}
    BY DEF Faithful, Deserved
  <1>6. link' \in [Conns -> Links] BY StreamTypes
  <1> QED BY <1>1, <1>2, <1>3, <1>4, <1>5, <1>6, CalmFaithful

(* What the rows are after the commit of what was planned for them.        *)
LEMMA WrittenRows ==
  ASSUME Inv, SwitchInv, gtx.op # "idle",
         \A c \in Commands : /\ cmd'[c].status = Updated(gtx.writes)[c].status
                             /\ cmd'[c].device = Updated(gtx.writes)[c].device
                             /\ cmd'[c].payload = Updated(gtx.writes)[c].payload
  PROVE  /\ SameRows
         /\ \A c \in Commands :
               /\ cmd'[c].status = "pending" => Unsent(c)
               /\ dev[cmd[c].device].proto = "2" /\ cmd'[c].status = "sent" =>
                      Asking(c) \/ Unsent(c)
  <1>1. gtx.writes \in [Commands -> Writes] /\ OfRows(gtx.writes) BY TxFacts
  <1>2. SameRows BY <1>1, UpdateSameRows
  <1>3. ASSUME NEW c \in Commands
        PROVE  cmd'[c].status = IF gtx.writes[c].status = "keep" THEN cmd[c].status
                                ELSE gtx.writes[c].status
    <2>1. TypeOK BY DEF Inv
    <2> QED BY <1>1, <2>1, StatusAfter
  <1>4. ASSUME NEW c \in Commands, cmd'[c].status = "pending" PROVE Unsent(c)
    <2>1. CASE gtx.writes[c].status = "keep" BY <1>3, <1>4, <2>1 DEF Unsent
    <2>2. CASE gtx.writes[c].status = "pending"
      BY <2>2 DEF SwitchInv, GatewayMeans, Unsent
    <2> QED BY <1>3, <1>4, <2>1, <2>2
  <1>5. ASSUME NEW c \in Commands, dev[cmd[c].device].proto = "2", cmd'[c].status = "sent"
        PROVE  Asking(c) \/ Unsent(c)
    <2>1. CASE gtx.writes[c].status = "sent"
      BY <2>1 DEF SwitchInv, GatewayMeans, Unsent
    <2>2. CASE gtx.writes[c].status = "keep"
      <3>1. cmd[c].status = "sent" BY <1>3, <1>5, <2>2
      <3>2. ~(gtx.op = "answer" /\ gtx.cmd = c)
        <4>1. SUFFICES ASSUME gtx.op = "answer", gtx.cmd = c PROVE FALSE OBVIOUS
        <4>2. gtx.writes \in {Only(c, Becomes(s)) : s \in {"failed", "completed"}}
          BY <1>5, <4>1 DEF SwitchInv, GatewayMeans
        <4>3. gtx.writes[c].status \in {"failed", "completed"}
          BY <4>2 DEF Only, NoWrites, Becomes
        <4> QED BY <2>2, <4>3
      <3> QED BY <3>1, <3>2 DEF Asking
    <2> QED BY <1>3, <1>5, <2>1, <2>2
  <1> QED BY <1>2, <1>4, <1>5

LEMMA BecomesActual ==
  ASSUME Inv, TxDevice \in Devices, NEW online \in BOOLEAN,
         NEW actual \in RelayStates \cup {None}, DeviceBecomes(online, actual)
  PROVE  /\ SameProtocols
         /\ \A d \in Devices : dev'[d].actual = dev[d].actual
                               \/ (d = TxDevice /\ dev'[d].actual = actual)
  <1> DEFINE t == TxDevice
  <1>1. t \in Devices /\ dev \in [Devices -> DeviceRows] BY TxFacts
  <1>2. CASE dev[t].deleted
    <2>1. dev' = dev BY <1>2 DEF DeviceBecomes
    <2> QED BY <2>1 DEF SameProtocols
  <1>3. CASE ~dev[t].deleted
    <2>1. dev' = [dev EXCEPT ![t].online = online, ![t].actual = actual]
      BY <1>3 DEF DeviceBecomes
    <2> HIDE DEF t
    <2>2. \A d \in Devices : d # t => dev'[d] = dev[d] BY <1>1, <2>1
    <2>3. dev'[t].proto = dev[t].proto /\ dev'[t].actual = actual
      BY <1>1, <2>1 DEF DeviceRows
    <2> QED BY <2>2, <2>3 DEF SameProtocols, t
  <1> QED BY <1>2, <1>3

(* Lines that set nothing are written to a connection.                     *)
LEMMA QuietLines ==
  ASSUME Inv, NEW k \in Conns, Readable(k), NEW u \in Seq(Lines), ~Has(u, Setting),
         link'[k].toBoard = Sent(k, u), link'[k].toGw = link[k].toGw
  PROVE  Calmer(k)
  <1> DEFINE b == link[k].toBoard
  <1>1. link'[k].toBoard = b \/ link'[k].toBoard = b \o u BY DEF Sent
  <1>2. b \in Seq(Lines) BY LinkFacts DEF Inv
  <1>3. Fades(b, b, Setting) BY DEF Fades
  <1>4. Fades(link'[k].toGw, link[k].toGw, {"OK"}) BY DEF Fades
  <1> HIDE DEF b
  <1>5. Fades(b \o u, b, Setting) BY <1>2, <1>3, MoreFades
  <1>6. Fades(link'[k].toBoard, b, Setting) BY <1>1, <1>3, <1>5
  <1> QED BY <1>4, <1>6 DEF Calmer, b

LEMMA SameCalm ==
  ASSUME NEW k, link'[k] = link[k]
  PROVE  Calmer(k) /\ ToSet(link'[k].toGw) \subseteq ToSet(link[k].toGw)
  BY DEF Calmer, Fades, Readable

LEMMA CommitHelloSwitch ==
  ASSUME Inv, Inv', SwitchInv, CommitHello, WebAndBoard, gtx' = IdleGw
  PROVE  SwitchInv'
  <1> DEFINE k == gtx.conn  t == TxDevice
  <1>1. k \in Conns /\ Used(k) /\ t \in Devices /\ gtx.op = "hello"
    BY TxFacts DEF CommitHello
  <1>2. UNCHANGED <<cmd, registered, steps, follow, retry, web, board, reboots>>
    BY DEF CommitHello, memory, WebAndBoard, webVars
  <1>3. dev[t].actual \in RelayStates \cup {None} BY <1>1, TxFacts DEF DeviceRows
  <1>4. /\ SameProtocols
        /\ \A d \in Devices : dev'[d].actual = dev[d].actual
    BY <1>1, <1>3, BecomesActual DEF CommitHello
  <1>5. PICK greeting \in Seq(Lines) :
            /\ ~Has(greeting, Setting)
            /\ link' = [link EXCEPT ![k].gw = "open", ![k].toBoard = Sent(k, greeting)]
    <2>1. Line("AUTHENTICATED") \in Lines /\ Line("GET") \in Lines BY LineTypes
    <2>2. /\ <<Line("AUTHENTICATED"), Line("GET")>> \in Seq(Lines)
          /\ <<Line("AUTHENTICATED")>> \in Seq(Lines)
      BY <2>1
    <2>3. /\ ~Has(<<Line("AUTHENTICATED"), Line("GET")>>, Setting)
          /\ ~Has(<<Line("AUTHENTICATED")>>, Setting)
      BY ShortSets DEF Has, Line, Setting
    <2> QED BY <2>2, <2>3 DEF CommitHello
  <1> HIDE DEF k, t
  <1>6. /\ \A i \in Conns : i # k => link'[i] = link[i]
        /\ link'[k].gw = "open" /\ link'[k].device = link[k].device
        /\ link'[k].toBoard = Sent(k, greeting) /\ link'[k].toGw = link[k].toGw
    BY <1>1, <1>5, LinkFacts DEF Inv, Links
  <1>7. Readable(k) BY <1>1 DEF SwitchInv, GatewayMeans, k
  <1>8. ASSUME NEW i \in Conns
        PROVE  /\ Calmer(i) /\ ToSet(link'[i].toGw) \subseteq ToSet(link[i].toGw)
               /\ link'[i].device = link[i].device /\ (Used(i) => Used(i)')
               /\ link[i].gw \in {"open", "closing"} => link'[i].gw \in {"open", "closing"}
    <2>1. CASE i = k BY <1>5, <1>6, <1>7, <2>1, QuietLines DEF Used
    <2>2. CASE i # k BY <1>6, <2>2, SameCalm DEF Used
    <2> QED BY <2>1, <2>2
  <1>9. SameRows BY <1>2, TableSameRows
  <1>10. /\ Wired' /\ WebMeans' /\ GatewayMeans'
         /\ \A d \in Devices : SoleIn(d)' => SoleIn(d) /\ Faithful(d)
    BY <1>1, <1>2, <1>4, <1>6, <1>8, <1>9, CommitRest DEF k
  <1>11. ASSUME NEW d \in Devices, SoleIn(d)' PROVE Faithful(d)'
    <2>1. SoleIn(d) /\ Faithful(d) BY <1>10, <1>11
    <2>2. CalmLinks(d) BY <1>8, CalmWhere
    <2>3. Behind(dev'[d].actual, d) BY <1>4, <2>1 DEF Faithful, StatesBehind
    <2>4. \A c \in CommandsOf(d) :
             /\ cmd'[c].status = "pending" \/ retry' = c => Unsent(c)
             /\ cmd'[c].status = "sent" => Asking(c) \/ Unsent(c)
      BY <1>1, <1>2 DEF Unsent, Asking
    <2> QED BY <1>2, <1>9, <2>1, <2>2, <2>3, <2>4, CommitFaithful
  <1> QED BY <1>10, <1>11 DEF SwitchInv

LEMMA CommitByeSwitch ==
  ASSUME Inv, Inv', SwitchInv, CommitBye, WebAndBoard, gtx' = IdleGw
  PROVE  SwitchInv'
  <1> DEFINE t == TxDevice
  <1>1. t \in Devices /\ gtx.op = "bye" BY TxFacts DEF CommitBye
  <1>2. UNCHANGED <<cmd, link, registered, steps, follow, retry, web, board, reboots>>
    BY DEF CommitBye, memory, WebAndBoard, webVars
  <1>3. dev[t].actual \in RelayStates \cup {None} BY <1>1, TxFacts DEF DeviceRows
  <1>4. /\ SameProtocols
        /\ \A d \in Devices : dev'[d].actual = dev[d].actual
    BY <1>1, <1>3, BecomesActual DEF CommitBye
  <1> HIDE DEF t
  <1>5. SameRows BY <1>2, TableSameRows
  <1>6. /\ Wired' /\ WebMeans' /\ GatewayMeans'
        /\ \A d \in Devices : SoleIn(d)' => SoleIn(d) /\ Faithful(d)
    BY <1>1, <1>2, <1>4, <1>5, CommitRest DEF Used
  <1>7. ASSUME NEW d \in Devices, SoleIn(d)' PROVE Faithful(d)'
    <2>1. SoleIn(d) /\ Faithful(d) BY <1>6, <1>7
    <2>2. CalmLinks(d) BY <1>2, SameShrinks, CalmParts
    <2>3. Behind(dev'[d].actual, d) BY <1>4, <2>1 DEF Faithful, StatesBehind
    <2>4. \A c \in CommandsOf(d) :
             /\ cmd'[c].status = "pending" \/ retry' = c => Unsent(c)
             /\ cmd'[c].status = "sent" => Asking(c) \/ Unsent(c)
      BY <1>1, <1>2 DEF Unsent, Asking
    <2> QED BY <1>2, <1>5, <2>1, <2>2, <2>3, <2>4, CommitFaithful
  <1> QED BY <1>6, <1>7 DEF SwitchInv

(* Rows only: an answer, a pass that expires, a command that waits again.  *)
LEMMA CommitRowsSwitch ==
  ASSUME Inv, Inv', SwitchInv, WebAndBoard, gtx' = IdleGw, gtx.op \notin {"idle", "hello"},
         cmd' = Updated(gtx.writes), UNCHANGED <<dev, link, registered, steps, follow>>,
         retry' \in {retry, None}
  PROVE  SwitchInv'
  <1>1. UNCHANGED <<web, board, reboots>> /\ SameProtocols
    BY DEF WebAndBoard, webVars, SameProtocols
  <1>2. /\ SameRows
        /\ \A c \in Commands :
               /\ cmd'[c].status = "pending" => Unsent(c)
               /\ dev[cmd[c].device].proto = "2" /\ cmd'[c].status = "sent" =>
                      Asking(c) \/ Unsent(c)
    BY WrittenRows
  <1>3. /\ Wired' /\ WebMeans' /\ GatewayMeans'
        /\ \A d \in Devices : SoleIn(d)' => SoleIn(d) /\ Faithful(d)
    BY <1>1, <1>2, CommitRest DEF Used
  <1>4. ASSUME NEW d \in Devices, SoleIn(d)' PROVE Faithful(d)'
    <2>1. SoleIn(d) /\ Faithful(d) BY <1>3, <1>4
    <2>2. CalmLinks(d) BY SameShrinks, CalmParts
    <2>3. Behind(dev'[d].actual, d) BY <2>1 DEF Faithful, StatesBehind
    <2>4. \A c \in CommandsOf(d) : retry' = c => Unsent(c)
      BY NoneAssumption DEF Unsent, CommandsOf
    <2>5. \A c \in CommandsOf(d) :
             /\ cmd'[c].status = "pending" \/ retry' = c => Unsent(c)
             /\ cmd'[c].status = "sent" => Asking(c) \/ Unsent(c)
      BY <1>2, <2>1, <2>4 DEF CommandsOf, SoleIn
    <2> QED BY <1>1, <1>2, <2>1, <2>2, <2>3, <2>5, CommitFaithful
  <1> QED BY <1>3, <1>4 DEF SwitchInv

LEMMA CommitAnswerSwitch ==
  ASSUME Inv, Inv', SwitchInv, CommitAnswer, WebAndBoard, gtx' = IdleGw
  PROVE  SwitchInv'
  BY CommitRowsSwitch DEF CommitAnswer, memory

LEMMA CommitExpireSwitch ==
  ASSUME Inv, Inv', SwitchInv, CommitExpire, WebAndBoard, gtx' = IdleGw
  PROVE  SwitchInv'
  BY CommitRowsSwitch DEF CommitExpire

LEMMA CommitRequeueSwitch ==
  ASSUME Inv, Inv', SwitchInv, CommitRequeue, WebAndBoard, gtx' = IdleGw
  PROVE  SwitchInv'
  BY CommitRowsSwitch DEF CommitRequeue

(* A commit refused by the index: of a v2 device only what would make a    *)
(* command active again is, so that no answer was.                         *)
LEMMA RolledBackSwitch ==
  ASSUME Inv, Inv', SwitchInv, OneActive, ~IndexHolds(Updated(gtx.writes)), RolledBack,
         WebAndBoard, gtx' = IdleGw
  PROVE  SwitchInv'
  <1> DEFINE k == gtx.conn
  <1>1. /\ gtx.op \in {"report", "answer", "requeue"}
        /\ UNCHANGED <<cmd, dev, registered, steps, follow, web, board, reboots>>
        /\ retry' \in {retry, None}
    BY DEF RolledBack, WebAndBoard, webVars
  <1>2. \/ link' = link
        \/ /\ k \in Conns /\ Readable(k)
           /\ link' = [link EXCEPT ![k].gw = "closing", ![k].toGw = << >>]
    BY <1>1, TxFacts DEF RolledBack, SwitchInv, GatewayMeans
  <1> HIDE DEF k
  <1>3. ASSUME NEW i \in Conns
        PROVE  /\ Shrinks(i) /\ link'[i].device = link[i].device /\ (Used(i) => Used(i)')
               /\ link[i].gw \in {"open", "closing"} => link'[i].gw \in {"open", "closing"}
    <2>1. CASE link'[i] = link[i] BY <2>1, SameShrinks DEF Used
    <2>2. CASE /\ i = k /\ Readable(k)
               /\ link' = [link EXCEPT ![k].gw = "closing", ![k].toGw = << >>]
      <3>1. /\ link'[i].gw = "closing" /\ link'[i].toGw = << >>
            /\ link'[i].toBoard = link[i].toBoard /\ link'[i].device = link[i].device
        BY <2>2, LinkFacts DEF Inv, Links
      <3>2. link[i].toBoard \in Seq(Lines) /\ link[i].toGw \in Seq(Frames)
        BY LinkFacts DEF Inv
      <3> QED BY <2>2, <3>1, <3>2, PartsOf DEF Shrinks, Readable, Used
    <2>3. CASE i # k
      <3>1. link'[i] = link[i] BY <1>2, <2>3, LinkFacts DEF Inv
      <3> QED BY <2>1, <3>1
    <2>4. link' = link => link'[i] = link[i] OBVIOUS
    <2> QED BY <1>2, <2>1, <2>2, <2>3, <2>4
  <1>4. SameRows /\ SameProtocols BY <1>1, TableSameRows DEF SameProtocols
  <1>5. /\ Wired' /\ WebMeans' /\ GatewayMeans'
        /\ \A d \in Devices : SoleIn(d)' => SoleIn(d) /\ Faithful(d)
    BY <1>1, <1>3, <1>4, CommitRest
  <1>6. ASSUME gtx.op = "answer" PROVE dev[cmd[gtx.cmd].device].proto # "2"
    <2>1. SUFFICES ASSUME dev[cmd[gtx.cmd].device].proto = "2" PROVE FALSE OBVIOUS
    <2>2. PICK s \in {"failed", "completed"} :
              gtx.cmd \in Commands /\ gtx.writes = Only(gtx.cmd, Becomes(s))
      BY <1>6, <2>1 DEF SwitchInv, GatewayMeans
    <2>3. ASSUME NEW c \in Commands, Indexed(Updated(gtx.writes)[c])
          PROVE  Updated(gtx.writes)[c].device = cmd[c].device /\ Indexed(cmd[c])
      <3>1. gtx.writes[c] = IF c = gtx.cmd THEN Becomes(s) ELSE Keep
        BY <2>2 DEF Only, NoWrites
      <3>2. Updated(gtx.writes)[c] = Update(cmd[c], gtx.writes[c]) /\ cmd[c] \in CommandRows
        BY TxFacts DEF Updated
      <3> QED BY <2>3, <3>1, <3>2 DEF Update, Becomes, Keep, Indexed, CommandRows
    <2>4. IndexHolds(cmd) BY IndexIsActive
    <2> HIDE DEF Indexed
    <2>5. IndexHolds(Updated(gtx.writes)) BY <2>3, <2>4 DEF IndexHolds
    <2> QED BY <2>5
  <1>7. ASSUME NEW d \in Devices, SoleIn(d)' PROVE Faithful(d)'
    <2>1. SoleIn(d) /\ Faithful(d) BY <1>5, <1>7
    <2>2. CalmLinks(d) BY <1>3, CalmParts
    <2>3. Behind(dev'[d].actual, d) BY <1>1, <2>1 DEF Faithful, StatesBehind
    <2>4. ASSUME NEW c \in CommandsOf(d)
          PROVE  /\ cmd'[c].status = "pending" \/ retry' = c => Unsent(c)
                 /\ cmd'[c].status = "sent" => Asking(c) \/ Unsent(c)
      <3>1. c \in Commands /\ dev[cmd[c].device].proto = "2"
        BY <2>1 DEF CommandsOf, SoleIn
      <3>2. ~(gtx.op = "answer" /\ gtx.cmd = c) BY <1>6, <3>1
      <3> QED BY <1>1, <3>1, <3>2, NoneAssumption DEF Unsent, Asking
    <2> QED BY <1>1, <1>4, <2>1, <2>2, <2>3, <2>4, CommitFaithful
  <1> QED BY <1>5, <1>7 DEF SwitchInv

(* A setting is written to a connection of a device that had none on its   *)
(* way.                                                                    *)
LEMMA TokenArrives ==
  ASSUME Inv, Inv', NEW d \in Devices, NEW k \in Conns, link[k].device = d,
         \A i \in LinksOf(d) : ~Busy(i), follow'[d] = None,
         NEW l \in Lines, l.verb \in Setting,
         \A i \in Conns : i # k => link'[i] = link[i],
         link'[k].device = d, link'[k].toGw = link[k].toGw,
         link'[k].toBoard = link[k].toBoard \o <<l>>
  PROVE  /\ LinksOf(d)' = LinksOf(d) /\ OneToken(d)'
         /\ \A i \in LinksOf(d) :
               /\ link'[i].toGw = link[i].toGw /\ ~Has(link'[i].toGw, {"OK"})
               /\ \A x \in ToSet(link'[i].toBoard) :
                      x = l \/ (x \in ToSet(link[i].toBoard) /\ x.verb \notin Setting)
  <1>1. LinksOf(d)' = LinksOf(d) /\ k \in LinksOf(d) BY DEF LinksOf
  <1>2. \A i \in LinksOf(d) : /\ ~Has(link[i].toBoard, Setting) /\ ~Has(link[i].toGw, {"OK"})
                              /\ i \in Conns
    BY DEF Busy, LinksOf
  <1>3. link[k].toBoard \in Seq(Lines) /\ <<l>> \in Seq(Lines) BY LinkFacts DEF Inv
  <1>4. /\ ToSet(link'[k].toBoard) = ToSet(link[k].toBoard) \cup {l}
        /\ Once(link'[k].toBoard, Setting)
    <2> DEFINE b == link[k].toBoard  u == <<l>>
    <2>1. b \in Seq(Lines) /\ u \in Seq(Lines) /\ ToSet(u) = {l} /\ Once(u, Setting)
      BY <1>3, ShortSets
    <2>2. ~Has(b, Setting) BY <1>1, <1>2
    <2>3. link'[k].toBoard = b \o u OBVIOUS
    <2> HIDE DEF b, u
    <2>4. ToSet(b \o u) = ToSet(b) \cup ToSet(u) BY <2>1, JoinFacts
    <2>5. Once(b \o u, Setting) BY <2>1, <2>2, JoinFacts
    <2> QED BY <2>1, <2>3, <2>4, <2>5 DEF b
  <1>5. ASSUME NEW i \in LinksOf(d)
        PROVE  /\ link'[i].toGw = link[i].toGw /\ ~Has(link'[i].toGw, {"OK"})
               /\ \A x \in ToSet(link'[i].toBoard) :
                      x = l \/ (x \in ToSet(link[i].toBoard) /\ x.verb \notin Setting)
               /\ i # k => ~Busy(i)'
    <2>1. CASE i = k BY <1>2, <1>4, <2>1 DEF Has
    <2>2. CASE i # k
      <3>1. link'[i] = link[i] BY <1>2, <2>2
      <3> QED BY <1>2, <2>2, <3>1 DEF Has, Busy
    <2> QED BY <2>1, <2>2
  <1>6. OneToken(d)'
    <2>1. ASSUME NEW i \in LinksOf(d)
          PROVE  /\ Once(link'[i].toBoard, Setting) /\ Once(link'[i].toGw, {"OK"})
                 /\ ~(Has(link'[i].toBoard, Setting) /\ Has(link'[i].toGw, {"OK"}))
      <3>1. link'[i].toBoard \in Seq(Lines) /\ link'[i].toGw \in Seq(Frames)
        BY <1>2, StreamTypes
      <3>2. ~Has(link'[i].toGw, {"OK"}) BY <1>5
      <3>3. Once(link'[i].toBoard, Setting)
        <4>1. CASE i = k BY <1>4, <4>1
        <4>2. CASE i # k
          <5>1. ~Has(link'[i].toBoard, Setting) BY <1>5, <4>2 DEF Busy
          <5> QED BY <3>1, <5>1, NoneIsOnce
        <4> QED BY <4>1, <4>2
      <3>4. Once(link'[i].toGw, {"OK"}) BY <3>1, <3>2, NoneIsOnce
      <3> QED BY <3>2, <3>3, <3>4
    <2>2. \A i, j \in LinksOf(d) : Busy(i)' /\ Busy(j)' => i = j BY <1>5
    <2> QED BY <1>1, <2>1, <2>2 DEF OneToken
  <1> QED BY <1>1, <1>5, <1>6

(* The line is a sole command's, and sets what is still wrong except what  *)
(* the lines not sent yet set.                                             *)
LEMMA SettingFaithful ==
  ASSUME Inv, Inv', NEW d \in Devices, SoleIn(d), Faithful(d), gtx' = IdleGw,
         UNCHANGED <<web, board, steps>>, SameRows, Behind(dev'[d].actual, d),
         \A i \in LinksOf(d) : ~Busy(i), follow'[d] = None,
         NEW k \in Conns, link[k].device = d, NEW l \in Lines, l.verb \in Setting, LineOf(l, d),
         \A i \in Conns : i # k => link'[i] = link[i],
         link'[k].device = d, link'[k].toGw = link[k].toGw,
         link'[k].toBoard = link[k].toBoard \o <<l>>,
         NEW s \in CommandsOf(d), ~Unsent(s)',
         Missing(d) \subseteq DOMAIN l.set \cup SetBy(steps[s])
  PROVE  Faithful(d)'
  <1>1. /\ LinksOf(d)' = LinksOf(d) /\ OneToken(d)'
        /\ \A i \in LinksOf(d) :
              /\ link'[i].toGw = link[i].toGw /\ ~Has(link'[i].toGw, {"OK"})
              /\ \A x \in ToSet(link'[i].toBoard) :
                     x = l \/ (x \in ToSet(link[i].toBoard) /\ x.verb \notin Setting)
    BY TokenArrives
  <1>2. RowsOf(d) /\ SameRelays(d) BY RowsOfAll DEF SameRelays
  <1>3. /\ CommandsOf(d)' = CommandsOf(d) /\ CommandsOf(d) = {s}
        /\ Missing(d)' = Missing(d)
        /\ \A x : LineOf(x, d) => LineOf(x, d)'
        /\ \A rs : Behind(rs, d) => Behind(rs, d)'
    BY <1>2, RowsStay DEF SoleIn
  <1>4. /\ gtx'.op = "idle"
        /\ \A c \in Commands : gtx'.writes[c].status # "completed"
    BY DEF IdleGw, NoWrites, Keep
  <1>5. LinesAsked(d)'
    <2>1. \A i \in LinksOf(d) : \A x \in ToSet(link'[i].toBoard) : LineOf(x, d)'
      <3>1. LineOf(l, d)' BY <1>3
      <3>2. ASSUME NEW i \in LinksOf(d), NEW x \in ToSet(link'[i].toBoard) PROVE LineOf(x, d)'
        BY <1>1, <3>1, <3>2 DEF LineOf
      <3> QED BY <3>2
    <2>2. KeptLine(s) BY DEF Faithful, LinesAsked
    <2>3. KeptLine(s)' BY <1>2, <2>2, KeptLineStays DEF RowsOf
    <2> HIDE DEF KeptLine, LineOf
    <2> QED BY <1>1, <1>3, <2>1, <2>3 DEF LinesAsked
  <1>6. StatesBehind(d)'
    <2>1. ASSUME NEW i \in LinksOf(d), NEW f \in ToSet(link'[i].toGw)
          PROVE  f.verb # "ACK" /\ Behind(f.relays, d)'
      <3>1. f \in ToSet(link[i].toGw) BY <1>1, <2>1
      <3> QED BY <1>3, <2>1, <3>1 DEF Faithful, StatesBehind
    <2>2. Behind(dev[d].actual, d)' BY <1>3 DEF Behind
    <2> HIDE DEF Behind
    <2> QED BY <1>1, <1>4, <2>1, <2>2 DEF StatesBehind
  <1>7. NothingForgotten(d)'
    <2>1. \A i \in LinksOf(d) : Covered(i, s, d)'
      BY <1>1, <1>3 DEF Covered
    <2> HIDE DEF Covered
    <2> QED BY <1>1, <1>3, <2>1 DEF NothingForgotten
  <1>8. Deserved(d)' BY <1>3, <1>4 DEF Faithful, Deserved, CommandsOf
  <1> QED BY <1>1, <1>3, <1>5, <1>6, <1>7, <1>8 DEF Faithful

(* A STATE is recorded; the line that waited for it is sent.               *)
LEMMA ReportRows ==
  ASSUME Inv, CommitReport
  PROVE  \A c \in Commands : /\ cmd'[c].status = Updated(gtx.writes)[c].status
                             /\ cmd'[c].device = Updated(gtx.writes)[c].device
                             /\ cmd'[c].payload = Updated(gtx.writes)[c].payload
  <1> DEFINE upd == Updated(gtx.writes)
  <1>1. upd \in [Commands -> CommandRows] BY TxFacts, UpdatedType
  <1>2. PICK more \in [Commands -> BOOLEAN] :
            cmd' = [c \in Commands |-> [upd[c] EXCEPT !.newer = @ \/ more[c]]]
    <2> DEFINE m == [c \in Commands |-> c \in gtx.seen /\ dev[TxDevice].proto = "1"]
    <2>1. m \in [Commands -> BOOLEAN] OBVIOUS
    <2>2. cmd' = [c \in Commands |-> [upd[c] EXCEPT !.newer = @ \/ m[c]]]
      BY DEF CommitReport
    <2> QED BY <2>1, <2>2
  <1> HIDE DEF upd
  <1>3. \A c \in Commands : /\ cmd'[c].status = upd[c].status
                            /\ cmd'[c].device = upd[c].device
                            /\ cmd'[c].payload = upd[c].payload
    BY <1>1, <1>2 DEF CommandRows
  <1> QED BY <1>3 DEF upd

LEMMA FollowFaithful ==
  ASSUME Inv, Inv', NEW d \in Devices, SoleIn(d), Faithful(d), gtx' = IdleGw,
         UNCHANGED <<web, board, steps, retry>>, SameRows, Behind(dev'[d].actual, d),
         \A c \in CommandsOf(d) : cmd'[c].status = "pending" => Unsent(c),
         follow[d] # None, follow'[d] = None,
         NEW k \in Conns, link[k].device = d,
         \A i \in Conns : i # k => link'[i] = link[i],
         link'[k].device = d, link'[k].toGw = link[k].toGw,
         link'[k].toBoard = link[k].toBoard \o <<follow[d]>>
  PROVE  Faithful(d)'
  <1>1. \A i \in LinksOf(d) : ~Busy(i) BY DEF Faithful, OneToken
  <1>2. /\ follow[d] \in Lines /\ follow[d].verb \in Setting /\ LineOf(follow[d], d)
    BY GatewayTypes DEF Faithful, LinesAsked
  <1>3. PICK s \in CommandsOf(d) : ~Unsent(s) BY DEF Faithful, NoToken
  <1>4. ~Unsent(s)' BY <1>3 DEF Unsent, IdleGw
  <1>5. Missing(d) \subseteq DOMAIN follow[d].set BY DEF Faithful, NothingForgotten
  <1> QED BY <1>1, <1>2, <1>3, <1>4, <1>5, SettingFaithful

LEMMA CommitReportSwitch ==
  ASSUME Inv, Inv', SwitchInv, CommitReport, WebAndBoard, gtx' = IdleGw
  PROVE  SwitchInv'
  <1> DEFINE k == gtx.conn  t == TxDevice
             actual == IF gtx.relays # None THEN gtx.relays ELSE dev[TxDevice].actual
  <1>1. k \in Conns /\ Used(k) /\ t \in Devices /\ t = link[k].device /\ gtx.op = "report"
    BY TxFacts DEF CommitReport, TxDevice
  <1>2. UNCHANGED <<registered, steps, retry, web, board, reboots>>
    BY DEF CommitReport, WebAndBoard, webVars
  <1>3. actual \in RelayStates \cup {None} BY <1>1, TxFacts DEF DeviceRows
  <1>4. /\ SameProtocols
        /\ \A d \in Devices : dev'[d].actual = dev[d].actual
                              \/ (d = t /\ dev'[d].actual \in {gtx.relays, dev[d].actual})
    BY <1>1, <1>3, BecomesActual DEF CommitReport
  <1>5. \/ UNCHANGED <<follow, link>>
        \/ /\ follow[t] # None
           /\ follow' = [follow EXCEPT ![t] = None]
           /\ link' = [link EXCEPT ![k].toBoard =
                          IF link[k].gw = "open" THEN Sent(k, <<follow[t]>>) ELSE @]
    BY DEF CommitReport
  <1> HIDE DEF k, t, actual
  <1>6. \/ UNCHANGED <<follow, link>>
        \/ /\ follow[t] # None /\ follow'[t] = None
           /\ \A d \in Devices : d # t => follow'[d] = follow[d]
           /\ \A i \in Conns : i # k => link'[i] = link[i]
           /\ link'[k].gw = link[k].gw /\ link'[k].device = link[k].device
           /\ link'[k].toGw = link[k].toGw
           /\ link'[k].toBoard \in {link[k].toBoard, link[k].toBoard \o <<follow[t]>>}
    <2>1. CASE UNCHANGED <<follow, link>> BY <2>1
    <2>2. CASE /\ follow[t] # None
               /\ follow' = [follow EXCEPT ![t] = None]
               /\ link' = [link EXCEPT ![k].toBoard =
                              IF link[k].gw = "open" THEN Sent(k, <<follow[t]>>) ELSE @]
      <3>1. /\ follow'[t] = None
            /\ \A d \in Devices : d # t => follow'[d] = follow[d]
        BY <1>1, <2>2, GatewayTypes
      <3>2. /\ \A i \in Conns : i # k => link'[i] = link[i]
            /\ link'[k].gw = link[k].gw /\ link'[k].device = link[k].device
            /\ link'[k].toGw = link[k].toGw
            /\ link'[k].toBoard = IF link[k].gw = "open" THEN Sent(k, <<follow[t]>>)
                                  ELSE link[k].toBoard
        BY <1>1, <2>2, LinkFacts DEF Inv, Links
      <3> QED BY <2>2, <3>1, <3>2 DEF Sent
    <2> QED BY <1>5, <2>1, <2>2
  <1>7. \A i \in Conns : link'[i].device = link[i].device /\ link'[i].gw = link[i].gw
    BY <1>6
  <1>8. /\ SameRows
        /\ \A c \in Commands :
               /\ cmd'[c].status = "pending" => Unsent(c)
               /\ dev[cmd[c].device].proto = "2" /\ cmd'[c].status = "sent" =>
                      Asking(c) \/ Unsent(c)
    BY <1>1, ReportRows, WrittenRows
  <1>9. /\ Wired' /\ WebMeans' /\ GatewayMeans'
        /\ \A d \in Devices : SoleIn(d)' => SoleIn(d) /\ Faithful(d)
    BY <1>1, <1>2, <1>4, <1>7, <1>8, CommitRest DEF Used
  <1>10. ASSUME NEW d \in Devices, SoleIn(d)' PROVE Faithful(d)'
    <2>1. SoleIn(d) /\ Faithful(d) BY <1>9, <1>10
    <2>2. Behind(dev'[d].actual, d)
      BY <1>1, <1>4, <2>1 DEF Faithful, StatesBehind, k
    <2>3. ASSUME NEW c \in CommandsOf(d)
          PROVE  /\ cmd'[c].status = "pending" \/ retry' = c => Unsent(c)
                 /\ cmd'[c].status = "sent" => Asking(c) \/ Unsent(c)
      <3>1. c \in Commands /\ dev[cmd[c].device].proto = "2"
        BY <2>1 DEF CommandsOf, SoleIn
      <3> QED BY <1>2, <1>8, <3>1 DEF Unsent
    <2>4. CASE /\ d = t /\ follow[t] # None /\ follow'[t] = None
               /\ \A i \in Conns : i # k => link'[i] = link[i]
               /\ link'[k].toGw = link[k].toGw
               /\ link'[k].toBoard = link[k].toBoard \o <<follow[t]>>
      <3>1. link[k].device = d /\ link'[k].device = d BY <1>1, <1>7, <2>4
      <3> QED BY <1>1, <1>2, <1>8, <2>1, <2>2, <2>3, <2>4, <3>1, FollowFaithful
    <2>5. CASE /\ follow'[d] \in {follow[d], None}
               /\ \A i \in Conns : link[i].device = d => link'[i] = link[i]
      <3>1. \A i \in Conns : link'[i].device = d =>
               /\ link[i].device = d /\ Calmer(i)
               /\ ToSet(link'[i].toGw) \subseteq ToSet(link[i].toGw)
        BY <1>7, <2>5, SameCalm
      <3>2. CalmLinks(d) BY <3>1, CalmWhere
      <3> QED BY <1>2, <1>8, <2>1, <2>2, <2>3, <2>5, <3>2, CommitFaithful
    <2>6. CASE UNCHANGED <<follow, link>> BY <2>5, <2>6
    <2>7. CASE d # t /\ ~UNCHANGED <<follow, link>> BY <1>1, <1>6, <2>5, <2>7
    <2>8. CASE d = t /\ ~UNCHANGED <<follow, link>>
      <3>1. CASE link'[k].toBoard = link[k].toBoard \o <<follow[t]>>
        BY <1>6, <2>4, <2>8, <3>1
      <3>2. CASE link'[k].toBoard = link[k].toBoard
        <4>1. link[k] \in Links /\ link'[k] \in Links BY <1>1, StreamTypes
        <4>2. link'[k].peer = link[k].peer BY <1>1, <1>5, <2>8, LinkFacts DEF Inv, Links
        <4>3. link'[k] = link[k] BY <1>6, <2>8, <3>2, <4>1, <4>2 DEF Links
        <4> QED BY <1>6, <2>5, <2>8, <4>3
      <3> QED BY <1>6, <2>8, <3>1, <3>2
    <2> QED BY <2>6, <2>7, <2>8
  <1> QED BY <1>9, <1>10 DEF SwitchInv

(* A command is sent: its first line leaves, or the write fails.           *)
LEMMA SendFaithful ==
  ASSUME Inv, Inv', SwitchInv, NEW d \in Devices, SoleIn(d), Faithful(d), gtx' = IdleGw,
         gtx.op = "send", NEW s \in CommandsOf(d), gtx.cmd = s,
         UNCHANGED <<web, board, steps, follow, dev>>, SameRows,
         cmd'[s].status = "sent", retry' = None,
         NEW k \in Conns, link[k].device = d,
         \A i \in Conns : i # k => link'[i] = link[i],
         link'[k].device = d, link'[k].toGw = link[k].toGw,
         link'[k].toBoard = link[k].toBoard \o <<Head(V2Steps(cmd[s].payload))>>
  PROVE  Faithful(d)'
  <1> DEFINE p == cmd[s].payload
             l == Head(V2Steps(p))
  <1>1. s \in Commands /\ cmd[s].device = d /\ CommandsOf(d) = {s} /\ p \in Payloads
    BY GatewayTypes DEF CommandsOf, SoleIn
  <1>2. NoToken(d) BY <1>1 DEF Faithful, Unsent
  <1>3. Sets(l, Rest(s), p) BY <1>1, LinesOfPayload DEF Rest
  <1>4. steps[s] = Rest(s) BY <1>1 DEF SwitchInv, GatewayMeans, SoleIn
  <1>5. l \in Lines BY <1>1, V2StepsType, HeadTailProperties
  <1>6. l.verb \in Setting /\ LineOf(l, d) BY <1>3 DEF Sets, LineOf
  <1>7. Missing(d) \subseteq DOMAIN l.set \cup SetBy(steps[s])
    <2>1. Missing(d) \subseteq DOMAIN p BY <1>1 DEF Missing
    <2> QED BY <1>3, <1>4, <2>1 DEF Sets
  <1>8. ~Unsent(s)' BY <1>1, NoneAssumption DEF Unsent, IdleGw
  <1>9. Behind(dev'[d].actual, d) BY DEF Faithful, StatesBehind
  <1>10. follow'[d] = None /\ \A i \in LinksOf(d) : ~Busy(i) BY <1>2 DEF NoToken
  <1>11. link'[k].toBoard = link[k].toBoard \o <<l>> OBVIOUS
  <1> HIDE DEF l, p
  <1> QED BY <1>5, <1>6, <1>7, <1>8, <1>9, <1>10, <1>11, SettingFaithful

LEMMA CommitSendSwitch ==
  ASSUME Inv, Inv', SwitchInv, CommitSend, WebAndBoard, gtx' = IdleGw
  PROVE  SwitchInv'
  <1> DEFINE s == gtx.cmd  k == gtx.conn  e == cmd[gtx.cmd].device
             line == IF dev[e].proto = "2" THEN Head(V2Steps(cmd[s].payload))
                     ELSE CmdLine(s, cmd[s].payload)
  <1>1. /\ gtx.op = "send" /\ k \in Conns /\ Used(k) /\ s \in Commands /\ Row(s)
        /\ cmd' = Updated(gtx.writes)
    BY TxFacts DEF CommitSend, Inv, GatewayKnown
  <1>2. /\ retry = None /\ gtx.writes = Only(s, Becomes("sent"))
        /\ link[k].device = e /\ Readable(k)
    BY <1>1 DEF SwitchInv, GatewayMeans
  <1>3. UNCHANGED <<dev, registered, steps, follow, web, board, reboots>>
    BY DEF CommitSend, WebAndBoard, webVars
  <1>4. \/ /\ link' = [link EXCEPT ![k].toBoard = Sent(k, <<line>>)]
           /\ retry' = retry
        \/ /\ link' = [link EXCEPT ![k].gw = "closing"]
           /\ retry' = s
    BY DEF CommitSend
  <1> HIDE DEF k, line
  <1>5. /\ \A i \in Conns : i # k => link'[i] = link[i]
        /\ link'[k].device = link[k].device /\ link'[k].toGw = link[k].toGw
        /\ link[k].gw \in {"open", "closing"} => link'[k].gw \in {"open", "closing"}
        /\ link'[k].gw \in {"auth", "open", "closing"}
        /\ \/ link'[k].toBoard = link[k].toBoard
           \/ link'[k].toBoard = link[k].toBoard \o <<line>> /\ retry' = retry
    <2>1. CASE link' = [link EXCEPT ![k].toBoard = Sent(k, <<line>>)] /\ retry' = retry
      <3>1. /\ \A i \in Conns : i # k => link'[i] = link[i]
            /\ link'[k].device = link[k].device /\ link'[k].toGw = link[k].toGw
            /\ link'[k].gw = link[k].gw /\ link'[k].toBoard = Sent(k, <<line>>)
        BY <1>1, <2>1, LinkFacts DEF Inv, Links
      <3> QED BY <1>1, <1>2, <2>1, <3>1 DEF Sent, Used, Readable
    <2>2. CASE link' = [link EXCEPT ![k].gw = "closing"]
      <3>1. /\ \A i \in Conns : i # k => link'[i] = link[i]
            /\ link'[k].device = link[k].device /\ link'[k].toGw = link[k].toGw
            /\ link'[k].gw = "closing" /\ link'[k].toBoard = link[k].toBoard
        BY <1>1, <2>2, LinkFacts DEF Inv, Links
      <3> QED BY <1>1, <3>1 DEF Used, Readable
    <2> QED BY <1>4, <2>1, <2>2
  <1>6. \A c \in Commands : /\ cmd'[c].status = Updated(gtx.writes)[c].status
                            /\ cmd'[c].device = Updated(gtx.writes)[c].device
                            /\ cmd'[c].payload = Updated(gtx.writes)[c].payload
    BY <1>1
  <1>7. /\ SameRows
        /\ \A c \in Commands :
               /\ cmd'[c].status = "pending" => Unsent(c)
               /\ dev[cmd[c].device].proto = "2" /\ cmd'[c].status = "sent" =>
                      Asking(c) \/ Unsent(c)
    BY <1>1, <1>6, WrittenRows
  <1>8. \A i \in Conns :
           /\ link'[i].device = link[i].device /\ (Used(i) => Used(i)')
           /\ link[i].gw \in {"open", "closing"} => link'[i].gw \in {"open", "closing"}
    <2>1. ASSUME NEW i \in Conns, i # k
          PROVE  /\ link'[i].device = link[i].device /\ (Used(i) => Used(i)')
                 /\ link[i].gw \in {"open", "closing"} => link'[i].gw \in {"open", "closing"}
      BY <1>5, <2>1 DEF Used
    <2>2. ASSUME NEW i \in Conns, i = k
          PROVE  /\ link'[i].device = link[i].device /\ (Used(i) => Used(i)')
                 /\ link[i].gw \in {"open", "closing"} => link'[i].gw \in {"open", "closing"}
      BY <1>5, <2>2 DEF Used
    <2> QED BY <2>1, <2>2
  <1>9. SameProtocols BY <1>3 DEF SameProtocols
  <1>10. /\ Wired' /\ WebMeans' /\ GatewayMeans'
         /\ \A d \in Devices : SoleIn(d)' => SoleIn(d) /\ Faithful(d)
    BY <1>1, <1>3, <1>7, <1>8, <1>9, CommitRest
  <1>11. cmd'[s].status = "sent"
    <2>1. gtx.writes[s].status = "sent" BY <1>1, <1>2 DEF Only, NoWrites, Becomes
    <2>2. gtx.writes \in [Commands -> Writes] /\ TypeOK BY TxFacts DEF Inv
    <2> QED BY <1>1, <2>1, <2>2, StatusAfter
  <1>12. ASSUME NEW d \in Devices, SoleIn(d)' PROVE Faithful(d)'
    <2>1. SoleIn(d) /\ Faithful(d) BY <1>10, <1>12
    <2>2. CASE /\ d = e /\ link'[k].toBoard = link[k].toBoard \o <<line>> /\ retry' = retry
      <3>1. s \in CommandsOf(d) BY <1>1, <2>2 DEF CommandsOf
      <3>2. line = Head(V2Steps(cmd[s].payload)) BY <2>1, <2>2 DEF line, SoleIn
      <3>3. link[k].device = d /\ link'[k].device = d /\ retry' = None
        BY <1>2, <1>5, <2>2
      <3> HIDE DEF s
      <3> QED BY <1>1, <1>3, <1>5, <1>7, <1>11, <2>1, <2>2, <3>1, <3>2, <3>3, SendFaithful DEF s
    <2>3. CASE \A i \in Conns : link[i].device = d => link'[i].toBoard = link[i].toBoard
      <3>1. ASSUME NEW i \in Conns, link'[i].device = d
            PROVE  /\ link[i].device = d /\ Calmer(i)
                   /\ ToSet(link'[i].toGw) \subseteq ToSet(link[i].toGw)
        <4>1. CASE i # k BY <1>5, <3>1, <4>1, SameCalm
        <4>2. CASE i = k
          <5>1. link'[i].toBoard = link[i].toBoard /\ link'[i].toGw = link[i].toGw
            BY <1>5, <2>3, <3>1, <4>2
          <5> QED BY <1>2, <1>5, <3>1, <4>2, <5>1 DEF Calmer, Fades, Readable
        <4> QED BY <4>1, <4>2
      <3>2. CalmLinks(d) BY <3>1, CalmWhere
      <3>3. Behind(dev'[d].actual, d) BY <1>3, <2>1 DEF Faithful, StatesBehind
      <3>4. ASSUME NEW c \in CommandsOf(d)
            PROVE  /\ cmd'[c].status = "pending" \/ retry' = c => Unsent(c)
                   /\ cmd'[c].status = "sent" => Asking(c) \/ Unsent(c)
        <4>1. c \in Commands /\ dev[cmd[c].device].proto = "2"
          BY <2>1 DEF CommandsOf, SoleIn
        <4>2. retry' = c => Unsent(c) BY <1>1, <1>4 DEF Unsent
        <4> QED BY <1>7, <4>1, <4>2
      <3> QED BY <1>3, <1>7, <2>1, <3>2, <3>3, <3>4, CommitFaithful
    <2>4. \A i \in Conns : i # k => link'[i].toBoard = link[i].toBoard BY <1>5
    <2> QED BY <1>2, <1>5, <2>2, <2>3, <2>4
  <1> QED BY <1>10, <1>12 DEF SwitchInv

LEMMA GwCommitSwitch ==
  ASSUME Inv, Inv', SwitchInv, OneActive, GwCommit
  PROVE  SwitchInv'
  <1>1. WebAndBoard /\ gtx' = IdleGw BY DEF GwCommit, WebAndBoard
  <1>2. \/ CommitHello \/ CommitReport \/ CommitAnswer \/ CommitExpire
        \/ CommitSend \/ CommitRequeue \/ CommitBye
        \/ ~IndexHolds(Updated(gtx.writes)) /\ RolledBack
    BY DEF GwCommit
  <1> QED
    BY <1>1, <1>2, CommitHelloSwitch, CommitReportSwitch, CommitAnswerSwitch,
       CommitExpireSwitch, CommitSendSwitch, CommitRequeueSwitch, CommitByeSwitch,
       RolledBackSwitch

LEMMA GatewaySwitch ==
  ASSUME Inv, Inv', SwitchInv, OneActive, Gateway
  PROVE  SwitchInv'
  <1>1. CASE \E k \in Conns : Handler(k)
    BY <1>1, GwHelloSwitch, GwRejectSwitch, GwReportSwitch, GwNextStepSwitch, GwAnswerSwitch,
       GwByeSwitch, GwPingSwitch
    DEF Handler, HandlerBegins
  <1>2. CASE Dispatcher
    BY <1>2, GwScanSwitch, GwSendSwitch, GwRequeueSwitch, GwDiagnosticGetSwitch
    DEF Dispatcher, DispatcherBegins
  <1> QED BY <1>1, <1>2, GwCommitSwitch, GwCrashSwitch, GwStartSwitch DEF Gateway

---------------------------------------------------------------------------
(* The first command of a device. *)

LEMMA SwitchInvInit == ASSUME RebootBudget = 0 PROVE Init => SwitchInv
  <1> SUFFICES ASSUME Init PROVE SwitchInv OBVIOUS
  <1> USE DEF Init, StoreInit, WebInit, BoardInit, GatewayInit
  <1>1. \A c \in Commands : ~Row(c) /\ steps[c] = << >> BY DEF NoRow, Row
  <1>2. /\ gtx.op = "idle"
        /\ \A c \in Commands : gtx.writes[c].status = "keep"
        /\ \A w \in Workers : \A c \in Commands : web[w].writes[c].status = "keep"
    BY DEF IdleGw, IdleWeb, NoWrites, Keep
  <1>3. /\ reboots = 0
        /\ \A d \in Devices : registered[d] = NoConn /\ board[d].conn = NoConn
    OBVIOUS
  <1>4. Wired BY <1>1, <1>3 DEF Wired
  <1>5. WebMeans /\ GatewayMeans BY <1>2 DEF WebMeans, GatewayMeans
  <1>6. ASSUME NEW d \in Devices PROVE Faithful(d)
    <2>1. CommandsOf(d) = {} BY <1>1 DEF CommandsOf
    <2>2. \A k \in LinksOf(d) : link[k].toBoard = << >> /\ link[k].toGw = << >>
      BY DEF LinksOf, NoLink
    <2>3. follow[d] = None /\ dev[d].actual = None OBVIOUS
    <2>4. \A k \in LinksOf(d) : ~Busy(k) BY <2>2, ShortSets DEF Busy
    <2>5. OneToken(d) BY <2>2, <2>3, <2>4, ShortSets DEF OneToken
    <2>6. NoToken(d) BY <2>3, <2>4 DEF NoToken
    <2>7. LinesAsked(d) BY <2>1, <2>2, <2>3, NothingInIt DEF LinesAsked
    <2>8. StatesBehind(d) BY <1>2, <2>2, <2>3, NothingInIt DEF StatesBehind, Behind
    <2>9. NothingForgotten(d) /\ Deserved(d) BY <2>1, <2>3 DEF NothingForgotten, Deserved
    <2> QED BY <2>5, <2>6, <2>7, <2>8, <2>9 DEF Faithful
  <1> QED BY <1>4, <1>5, <1>6 DEF SwitchInv

LEMMA SwitchInvStep ==
  ASSUME Inv, Inv', SwitchInv, OneActive, [Next]_vars
  PROVE  SwitchInv'
  <1>1. CASE UNCHANGED vars
    BY <1>1, SameSwitch DEF vars, storeVars, webVars, boardVars, gatewayVars, memory
  <1> QED BY <1>1, WebSwitch, ControllerSwitch, GatewaySwitch, ClockSwitch DEF Next

(* A command is completed by a transaction that had planned it.            *)
LEMMA WrittenCompleted ==
  ASSUME Inv, NEW ws \in [Commands -> Writes], NEW c \in Commands,
         cmd[c].status # "completed", Updated(ws)[c].status = "completed"
  PROVE  ws[c].status = "completed"
  BY StatusAfter DEF Inv

LEMMA PlannedCompletion ==
  ASSUME Inv, [Next]_vars, NEW c \in Commands,
         cmd[c].status # "completed", cmd'[c].status = "completed"
  PROVE  \/ gtx.writes[c].status = "completed"
         \/ \E w \in Workers : web[w].writes[c].status = "completed"
  <1> DEFINE Planned == \/ gtx.writes[c].status = "completed"
                        \/ \E w \in Workers : web[w].writes[c].status = "completed"
  <1>1. /\ gtx.writes \in [Commands -> Writes]
        /\ \A w \in Workers : web[w].writes \in [Commands -> Writes]
    BY TxFacts DEF Inv, TypeOK, WebTypeOK, WebTxs
  <1>2. cmd' # cmd OBVIOUS
  <1>3. ASSUME NEW w \in Workers, SettleCommit(w) PROVE Planned
    BY <1>1, <1>3, WrittenCompleted DEF SettleCommit
  <1>4. ASSUME NEW w \in Workers, NEW x \in Commands, EnqueueCommit(w, x) PROVE Planned
    <2>1. cmd' = Inserted(w, x) BY <1>2, <1>4 DEF EnqueueCommit
    <2>2. cmd'[c] = NewRow(web[w].device, web[w].payload)
          \/ cmd'[c] = Updated(web[w].writes)[c]
      BY <2>1 DEF Inserted
    <2>3. cmd'[c] = Updated(web[w].writes)[c] BY <2>2 DEF NewRow, NoRow
    <2> QED BY <1>1, <2>3, WrittenCompleted
  <1>5. ASSUME GwCommit PROVE Planned
    <2>1. Updated(gtx.writes)[c].status = "completed"
      <3>1. CASE CommitReport BY <3>1, ReportRows
      <3> QED
        BY <1>2, <1>5, <3>1
        DEF GwCommit, CommitHello, CommitAnswer, CommitExpire, CommitSend, CommitRequeue,
            CommitBye, RolledBack
    <2> QED BY <1>1, <2>1, WrittenCompleted
  <1>6. ASSUME NEW x \in Commands, Deadline(x) PROVE FALSE
    BY <1>6 DEF Deadline, Inv, TypeOK, StoreTypeOK, CommandRows
  <1> HIDE DEF Planned
  <1>7. Web => \/ cmd' = cmd \/ \E w \in Workers : SettleCommit(w)
               \/ \E w \in Workers, x \in Commands : EnqueueCommit(w, x)
    <2> SUFFICES ASSUME Web, ~(\E w \in Workers : SettleCommit(w)),
                        ~(\E w \in Workers, x \in Commands : EnqueueCommit(w, x))
                 PROVE  cmd' = cmd
      OBVIOUS
    <2>1. (\E w \in Workers : WebBegin(w)) \/ AdminRequest BY DEF Web, WebCommit
    <2> QED
      BY <2>1
      DEF WebBegin, SettleBegin, EnqueueBegin, AdminRequest, EditEnabled, DeleteDevice, storeVars
  <1>8. Gateway => cmd' = cmd \/ GwCommit
    BY DEF Gateway, Handler, HandlerBegins, Dispatcher, DispatcherBegins, GwHello, GwReject,
        GwReport, GwNextStep, GwAnswer, GwBye, GwPing, GwScan, GwSend, GwRequeue,
        GwDiagnosticGet, GwCrash, GwStart, storeVars
  <1>9. Controller => cmd' = cmd BY DEF Controller, storeVars
  <1>10. Clock => \E x \in Commands : Deadline(x) BY DEF Clock
  <1>11. UNCHANGED vars => cmd' = cmd BY DEF vars, storeVars
  <1>12. Planned
    <2>1. \/ \E w \in Workers : SettleCommit(w)
          \/ \E w \in Workers, x \in Commands : EnqueueCommit(w, x)
          \/ GwCommit \/ \E x \in Commands : Deadline(x)
      BY <1>2, <1>7, <1>8, <1>9, <1>10, <1>11 DEF Next
    <2> QED BY <1>3, <1>4, <1>5, <1>6, <2>1
  <1> QED BY <1>12 DEF Planned

LEMMA CompletedIsSwitched ==
  ASSUME Inv, SwitchInv, [Next]_vars, NEW c \in Commands,
         cmd[c].status # "completed", cmd'[c].status = "completed",
         CommandsOf(cmd[c].device) = {c}
  PROVE  PayloadMatches(cmd[c].payload, board[cmd[c].device].relays)
  <1> DEFINE d == cmd[c].device  p == cmd[c].payload  rs == board[d].relays
  <1>1. Row(c) /\ d \in Devices /\ p \in Payloads
    <2>1. c \in CommandsOf(cmd[c].device) OBVIOUS
    <2> QED BY <2>1, GatewayTypes DEF CommandsOf
  <1>2. \/ gtx.writes[c].status = "completed"
        \/ \E w \in Workers : web[w].writes[c].status = "completed"
    BY PlannedCompletion
  <1>3. dev[d].proto = "2" BY <1>2 DEF SwitchInv, GatewayMeans, WebMeans
  <1>4. Faithful(d) BY <1>1, <1>3 DEF SwitchInv, SoleIn
  <1>5. Missing(d) = {}
    <2>1. c \in CommandsOf(d) OBVIOUS
    <2> QED BY <1>2, <1>4, <2>1 DEF Faithful, Deserved
  <1>6. DOMAIN p \subseteq Relays BY <1>1, PayloadsAssumption DEF FormPayloads, Relays
  <1>7. \A r \in DOMAIN p : rs[r] = p[r]
    <2>1. ASSUME NEW r \in DOMAIN p, rs[r] # p[r] PROVE FALSE
      <3>1. r \in Missing(d) BY <1>6, <2>1 DEF Missing
      <3> QED BY <1>5, <3>1
    <2> QED BY <2>1
  <1>8. rs \in RelayStates /\ rs # None
    BY <1>1, BoardFacts, NoneAssumption DEF Inv, Boards
  <1> QED BY <1>7, <1>8 DEF PayloadMatches

(* Whatever is lost, late, sent twice or answered by an older connection,  *)
(* the first command of a device is shown completed only when the relays   *)
(* are as it asks: with boards that do not lose their power, of any        *)
(* number, with any number of connections, workers and gateway crashes.    *)
THEOREM FirstCommandSwitched ==
  ASSUME RebootBudget = 0 PROVE Spec => CompletedSwitched
  <1>1. Init => SwitchInv BY SwitchInvInit
  <1>2. Inv /\ Inv' /\ OneActive /\ SwitchInv /\ [Next]_vars => SwitchInv' BY SwitchInvStep
  <1> DEFINE Honest ==
        \A c \in Commands :
          /\ cmd[c].status # "completed" /\ cmd'[c].status = "completed"
          /\ CommandsOf(cmd[c].device) = {c}
          => PayloadMatches(cmd[c].payload, board[cmd[c].device].relays)
  <1>3. Inv /\ SwitchInv /\ [Next]_vars => [Honest]_vars BY CompletedIsSwitched
  <1> HIDE DEF Honest
  <1>4. Spec => [][Honest]_vars
    BY Invariant, OneActivePerDevice, <1>1, <1>2, <1>3, PTL DEF Spec
  <1> QED BY <1>4 DEF CompletedSwitched, Honest

=============================================================================
