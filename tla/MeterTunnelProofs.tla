------------------------- MODULE MeterTunnelProofs -------------------------
(***************************************************************************)
(* Proofs about the tunnel to a meter, for any threads, connections, poll  *)
(* set, answer lengths and bounds.                                         *)
(***************************************************************************)
EXTENDS MeterTunnel, TLAPS

(* What a thread knows while it is busy: it has a command to run; a        *)
(* request goes to a connection, the second run of a command to that of    *)
(* the first; it counts at least the timeouts the meter really made.       *)
CallerInv(me) ==
    /\ me.stage # "idle" => me.todo # << >> /\ me.silent =< me.timeouts
    /\ me.stage \in {"locking", "waiting"} => me.conn \in Connections
    /\ me.stage \in {"locking", "waiting"} /\ (me.op = "run" \/ me.again)
          => me.session \in Connections

Outcomes == {"data", "refused", "not open", "error", "timeout", "offline"}

LEMMA NoConnectionIsNone == NoConnection \notin Connections
  BY TunnelAssumption DEF NoConnection, Connections

LEMMA RestingInv == Resting \in Callers /\ CallerInv(Resting) /\ Resting.stage = "idle"
<1>1. << >> \in Seq(PollSet)
  OBVIOUS
<1> QED BY <1>1 DEF Resting, Callers, CallerInv, MAX_CONSECUTIVE_TIMEOUTS

(* The caller goes on with the rest of its commands or rests.              *)
LEMMA ProceedInv ==
    ASSUME NEW me \in Callers, NEW todo \in Seq(PollSet), NEW timeouts \in Nat,
           me.silent =< timeouts, NEW n, n = Proceed(me, todo, timeouts)
    PROVE  n \in Callers /\ CallerInv(n) /\ n.stage \in {"idle", "next"}
<1>1. CASE todo = << >> \/ timeouts >= MAX_CONSECUTIVE_TIMEOUTS
  BY <1>1, RestingInv DEF Proceed
<1>2. CASE todo # << >> /\ timeouts < MAX_CONSECUTIVE_TIMEOUTS
  <2>1. n = [me EXCEPT !.stage = "next", !.todo = todo, !.timeouts = timeouts,
                       !.conn = NoConnection, !.session = NoConnection]
    BY <1>2 DEF Proceed, MAX_CONSECUTIVE_TIMEOUTS
  <2>2. timeouts \in 0..(MAX_CONSECUTIVE_TIMEOUTS - 1)
    BY <1>2 DEF MAX_CONSECUTIVE_TIMEOUTS
  <2> QED BY <1>2, <2>1, <2>2 DEF Callers, CallerInv
<1> QED BY <1>1, <1>2 DEF MAX_CONSECUTIVE_TIMEOUTS

LEMMA AskingInv ==
    ASSUME NEW me \in Callers, NEW op \in {"open", "run"}, NEW again \in BOOLEAN,
           NEW c \in Connections, me.todo # << >>, me.silent =< me.timeouts,
           op = "run" \/ again => me.session \in Connections,
           NEW n, n = Asking(me, op, again, c)
    PROVE  n \in Callers /\ CallerInv(n) /\ n.stage = "locking"
  BY DEF Asking, Callers, CallerInv

(* Whatever an exchange brings, the caller is left in a legal state and    *)
(* no longer waits.                                                        *)
LEMMA AfterInv ==
    ASSUME NEW me \in Callers, CallerInv(me), me.stage \in {"locking", "waiting"},
           registered \in Connections \cup {NoConnection},
           NEW outcome \in Outcomes, NEW n \in After(me, outcome)
    PROVE  n \in Callers /\ CallerInv(n) /\ n.stage # "waiting"
<1> DEFINE told == [me EXCEPT !.silent = IF outcome = "timeout" THEN @ + 1 ELSE 0]
           late == IF outcome = "timeout" THEN me.timeouts + 1 ELSE 0
           onward == Proceed(told, Tail(me.todo), late)
<1>1. /\ told \in Callers /\ told.todo = me.todo /\ told.timeouts = me.timeouts
      /\ told.session = me.session /\ told.again = me.again
      /\ told.silent = IF outcome = "timeout" THEN me.silent + 1 ELSE 0
  BY DEF Callers
<1>2. /\ me.todo \in Seq(PollSet) /\ me.todo # << >> /\ me.silent =< me.timeouts
      /\ me.timeouts \in Nat /\ me.silent \in Nat /\ me.conn \in Connections
      /\ me.again \in BOOLEAN /\ me.op \in {"open", "run"}
  BY DEF Callers, CallerInv, MAX_CONSECUTIVE_TIMEOUTS
<1>3. late \in Nat /\ told.silent =< late /\ Tail(me.todo) \in Seq(PollSet)
  BY <1>1, <1>2
<1>4. onward \in Callers /\ CallerInv(onward) /\ onward.stage # "waiting"
  BY <1>1, <1>3, ProceedInv
<1>0. /\ outcome # "timeout" => told.silent = 0 /\ told.silent =< told.timeouts
      /\ told.silent \in Nat /\ told.timeouts \in Nat /\ told.todo # << >>
  BY <1>1, <1>2
<1> HIDE DEF told, late, onward
<1>5. CASE outcome = "offline"
  <2>1. n = Resting
    BY <1>5 DEF After, Reopens
  <2> QED BY <2>1, RestingInv
<1>6. CASE Reopens(me, outcome)
  <2>1. outcome = "not open" /\ me.op = "run"
    BY <1>6 DEF Reopens
  <2>2. n = IF registered = NoConnection THEN Resting ELSE Asking(told, "open", TRUE, registered)
    BY <1>6, <2>1 DEF After, told
  <2>3. me.session \in Connections
    BY <2>1 DEF CallerInv
  <2>4. told.silent =< told.timeouts
    BY <1>0, <2>1
  <2>5. registered # NoConnection => registered \in Connections
    OBVIOUS
  <2> QED BY <1>0, <1>1, <2>2, <2>3, <2>4, <2>5, RestingInv, AskingInv
<1>7. CASE me.op = "run" /\ outcome # "offline" /\ ~Reopens(me, outcome)
  <2>1. n = onward
    BY <1>7 DEF After, told, late, onward
  <2> QED BY <1>4, <2>1
<1>8. CASE me.op = "open" /\ outcome = "data"
  <2>1. n = IF me.again THEN Asking(told, "run", TRUE, me.session)
            ELSE Proceed(told, me.todo, me.timeouts)
    BY <1>8 DEF After, Reopens, told
  <2>2. told.silent = 0 /\ (me.again => me.session \in Connections)
    BY <1>1, <1>8 DEF CallerInv
  <2>3. CASE me.again
    BY <1>0, <1>1, <1>8, <2>1, <2>2, <2>3, AskingInv
  <2>4. CASE ~me.again
    BY <1>1, <1>2, <2>1, <2>2, <2>4, ProceedInv
  <2> QED BY <2>3, <2>4
<1>9. CASE me.op = "open" /\ outcome \notin {"data", "offline"}
  <2> DEFINE failed == [told EXCEPT !.failed = TRUE]
             kept == IF outcome = "timeout" THEN late ELSE me.timeouts
  <2>1. \/ n = (IF me.again THEN onward ELSE Proceed(failed, me.todo, kept))
        \/ outcome \in {"refused", "not open"} /\ n = Asking(told, "open", me.again, me.conn)
    BY <1>9 DEF After, Reopens, told, late, onward
  <2>2. failed \in Callers /\ failed.silent = told.silent
    BY <1>1 DEF Callers
  <2>3. kept \in Nat /\ told.silent =< kept
    BY <1>1, <1>2, <1>3
  <2> HIDE DEF failed, kept
  <2>4. Proceed(failed, me.todo, kept) \in Callers
        /\ CallerInv(Proceed(failed, me.todo, kept))
        /\ Proceed(failed, me.todo, kept).stage # "waiting"
    BY <1>2, <2>2, <2>3, ProceedInv
  <2>5. CASE outcome \in {"refused", "not open"} /\ n = Asking(told, "open", me.again, me.conn)
    <3>1. me.again => told.session \in Connections
      BY <1>1 DEF CallerInv
    <3> QED BY <1>0, <1>1, <1>2, <2>5, <3>1, AskingInv
  <2> QED BY <1>4, <2>1, <2>4, <2>5
<1> QED BY <1>2, <1>5, <1>6, <1>7, <1>8, <1>9

-----------------------------------------------------------------------------
(* What keeps answers apart.  The lock of a connection belongs to the      *)
(* thread that waits on it and to no other; the pending answer is that     *)
(* thread's; a request under way is its own or nobody's; and if none was   *)
(* abandoned when it asked, all of them are its own.                       *)
LockInv ==
    \A c \in Connections, t \in Threads :
        holder[c] = t <=> Waiting(t) /\ caller[t].conn = c

ConnInv(c) ==
    /\ pending[c].by = holder[c]
    /\ \A i \in DOMAIN underWay[c] :
         /\ underWay[c][i].by \in {Nobody, holder[c]}
         /\ pending[c].clean => underWay[c][i].by = holder[c]
    /\ pending[c].got.kind \in Accepted \cup {"odd"} /\ pending[c].clean
         => pending[c].got.by = pending[c].by

TunnelInv ==
    /\ TunnelTypeOK
    /\ \A t \in Threads : CallerInv(caller[t])
    /\ LockInv
    /\ \A c \in Connections : ConnInv(c)

LEMMA NotPendingType == NotPending \in Awaited
  BY DEF NotPending, Awaited, Answers, Nothing

LEMMA TunnelInitInv == TunnelInit => TunnelInv
<1> SUFFICES ASSUME TunnelInit PROVE TunnelInv
  OBVIOUS
<1> USE DEF TunnelInit
<1>1. TunnelTypeOK
  <2>1. underWay \in [Connections -> Seq(Exchanges)]
    <3>1. << >> \in Seq(Exchanges)
      OBVIOUS
    <3> QED BY <3>1
  <2> QED BY <2>1, NotPendingType, RestingInv DEF TunnelTypeOK
<1>2. \A t \in Threads : CallerInv(caller[t]) /\ ~Waiting(t)
  BY RestingInv DEF Waiting
<1>3. LockInv
  BY <1>2, NobodyIsNoThread DEF LockInv
<1>4. \A c \in Connections : ConnInv(c)
  <2> SUFFICES ASSUME NEW c \in Connections PROVE ConnInv(c)
    OBVIOUS
  <2>1. pending[c] = NotPending /\ holder[c] = Nobody /\ underWay[c] = << >>
    OBVIOUS
  <2> QED BY <2>1 DEF ConnInv, NotPending, Nothing, Accepted
<1> QED BY <1>1, <1>2, <1>3, <1>4 DEF TunnelInv

(* A thread that does not wait, before or after the step.                  *)
LEMMA CallerMoves ==
    ASSUME TunnelInv, NEW t \in Threads, NEW n \in Callers,
           CallerInv(n), n.stage # "waiting", ~Waiting(t),
           caller' = [caller EXCEPT ![t] = n],
           UNCHANGED <<link, registered, holder, pending, underWay, channel>>
    PROVE  TunnelInv'
<1>1. caller \in [Threads -> Callers]
  BY DEF TunnelInv, TunnelTypeOK
<1>2. caller'[t] = n /\ \A u \in Threads : u # t => caller'[u] = caller[u]
  BY <1>1
<1>3. caller' \in [Threads -> Callers]
  BY <1>1
<1>4. TunnelTypeOK'
  BY <1>3 DEF TunnelInv, TunnelTypeOK
<1>5. \A u \in Threads : CallerInv(caller[u])'
  BY <1>2 DEF TunnelInv, CallerInv
<1>6. LockInv'
  BY <1>2 DEF TunnelInv, LockInv, Waiting
<1>7. \A c \in Connections : ConnInv(c)'
  BY DEF TunnelInv, ConnInv
<1> QED BY <1>4, <1>5, <1>6, <1>7 DEF TunnelInv

LEMMA StartCallerStep ==
    ASSUME TunnelInv, NEW t \in Threads, StartCaller(t) PROVE TunnelInv'
<1>1. caller[t] = Resting /\ ~Waiting(t)
      /\ UNCHANGED <<link, registered, holder, pending, underWay, channel>>
  BY RestingInv DEF StartCaller, Waiting
<1>2. ASSUME NEW n,
             \/ n = [Resting EXCEPT !.stage = "next", !.todo = PollCommands]
             \/ \E x \in PollSet : n = [Resting EXCEPT !.stage = "next", !.todo = <<x>>,
                                                       !.checked = TRUE]
      PROVE  n \in Callers /\ CallerInv(n) /\ n.stage # "waiting"
  <2>1. ASSUME NEW todo \in Seq(PollSet), todo # << >>,
               \/ n = [Resting EXCEPT !.stage = "next", !.todo = todo]
               \/ n = [Resting EXCEPT !.stage = "next", !.todo = todo, !.checked = TRUE]
        PROVE  n \in Callers /\ CallerInv(n) /\ n.stage # "waiting"
    <3>1. /\ n.stage = "next" /\ n.todo = todo /\ n.silent = 0 /\ n.timeouts = 0
          /\ n \in Callers
      BY <2>1, RestingInv DEF Resting, Callers
    <3> QED BY <2>1, <3>1 DEF CallerInv
  <2>2. \A x \in PollSet : <<x>> \in Seq(PollSet) /\ <<x>> # << >>
    OBVIOUS
  <2> QED BY <1>2, <2>1, <2>2, TunnelAssumption
<1>3. CASE caller' = [caller EXCEPT ![t].stage = "next", ![t].todo = PollCommands]
  <2> DEFINE n == [Resting EXCEPT !.stage = "next", !.todo = PollCommands]
  <2>1. caller' = [caller EXCEPT ![t] = n]
    BY <1>1, <1>3
  <2> QED BY <1>1, <1>2, <2>1, CallerMoves
<1>4. ASSUME NEW x \in PollSet,
             caller' = [caller EXCEPT ![t].stage = "next", ![t].todo = <<x>>,
                                      ![t].checked = TRUE]
      PROVE  TunnelInv'
  <2> DEFINE n == [Resting EXCEPT !.stage = "next", !.todo = <<x>>, !.checked = TRUE]
  <2>1. caller' = [caller EXCEPT ![t] = n]
    BY <1>1, <1>4
  <2> QED BY <1>1, <1>2, <2>1, CallerMoves
<1> QED BY <1>3, <1>4 DEF StartCaller

LEMMA NextCommandStep ==
    ASSUME TunnelInv, NEW t \in Threads, NextCommand(t) PROVE TunnelInv'
<1> DEFINE me == caller[t]
           looks == Head(me.todo) \in WithChannel /\ ~me.checked
           now == [me EXCEPT !.checked = @ \/ looks]
           opening == Asking(now, "open", FALSE, registered)
           running == [Asking(now, "run", FALSE, registered) EXCEPT !.session = registered]
           n == IF registered = NoConnection THEN Resting
                ELSE IF looks /\ channel # registered THEN opening ELSE running
<1>1. /\ me \in Callers /\ CallerInv(me) /\ me.stage = "next" /\ ~Waiting(t)
      /\ caller' = [caller EXCEPT ![t] = n]
      /\ UNCHANGED <<link, registered, holder, pending, underWay, channel>>
  BY DEF NextCommand, TunnelInv, TunnelTypeOK, Waiting
<1>2. registered # NoConnection => registered \in Connections
  BY DEF TunnelInv, TunnelTypeOK
<1>3. looks \in BOOLEAN
  OBVIOUS
<1> HIDE DEF looks
<1>4. now \in Callers /\ now.todo = me.todo /\ now.stage = me.stage
      /\ now.silent = me.silent /\ now.timeouts = me.timeouts
  BY <1>1, <1>3 DEF Callers
<1>5. now.todo # << >> /\ now.silent =< now.timeouts
  BY <1>1, <1>4 DEF CallerInv
<1> HIDE DEF now
<1>6. CASE registered = NoConnection
  BY <1>1, <1>6, RestingInv, CallerMoves
<1>7. CASE registered # NoConnection
  <2>1. opening \in Callers /\ CallerInv(opening) /\ opening.stage # "waiting"
    BY <1>2, <1>4, <1>5, <1>7, AskingInv
  <2>2. running \in Callers /\ CallerInv(running) /\ running.stage # "waiting"
    BY <1>2, <1>4, <1>5, <1>7 DEF Asking, Callers, CallerInv
  <2>3. n = opening \/ n = running
    BY <1>7
  <2> QED BY <1>1, <2>1, <2>2, <2>3, CallerMoves
<1> QED BY <1>6, <1>7

LEMMA SendFailsStep ==
    ASSUME TunnelInv, NEW t \in Threads, SendFails(t) PROVE TunnelInv'
<1>1. PICK n \in After(caller[t], "offline") : caller' = [caller EXCEPT ![t] = n]
  BY DEF SendFails
<1>2. /\ caller[t] \in Callers /\ CallerInv(caller[t]) /\ caller[t].stage = "locking"
      /\ registered \in Connections \cup {NoConnection} /\ ~Waiting(t)
      /\ UNCHANGED <<link, registered, holder, pending, underWay, channel>>
  BY DEF SendFails, TunnelInv, TunnelTypeOK, Waiting
<1>3. "offline" \in Outcomes
  BY DEF Outcomes
<1>4. n \in Callers /\ CallerInv(n) /\ n.stage # "waiting"
  BY <1>2, <1>3, AfterInv
<1> QED BY <1>1, <1>2, <1>4, CallerMoves

-----------------------------------------------------------------------------
(* The modem's side: no thread moves and no lock changes hands.            *)
LEMMA ConnectionMoves ==
    ASSUME TunnelInv, UNCHANGED <<holder, caller, channel>>,
           link' \in [Connections -> {"unused", "open", "cut", "ended"}],
           registered' \in Connections \cup {NoConnection},
           underWay' \in [Connections -> Seq(Exchanges)],
           pending' \in [Connections -> Awaited],
           \A c \in Connections : ConnInv(c)'
    PROVE  TunnelInv'
<1>1. TunnelTypeOK'
  BY DEF TunnelInv, TunnelTypeOK
<1>2. (\A t \in Threads : CallerInv(caller[t]))'
  BY DEF TunnelInv, CallerInv
<1>3. LockInv'
  BY DEF TunnelInv, LockInv, Waiting
<1> QED BY <1>1, <1>2, <1>3 DEF TunnelInv

LEMMA ConnectStep ==
    ASSUME TunnelInv, NEW c \in Connections, Connect(c) PROVE TunnelInv'
<1>1. /\ UNCHANGED <<holder, pending, underWay, caller, channel>>
      /\ link' \in [Connections -> {"unused", "open", "cut", "ended"}]
      /\ registered' \in Connections \cup {NoConnection}
  BY DEF Connect, TunnelInv, TunnelTypeOK
<1>2. \A d \in Connections : ConnInv(d)'
  BY <1>1 DEF TunnelInv, ConnInv
<1> QED BY <1>1, <1>2, ConnectionMoves DEF TunnelInv, TunnelTypeOK

(* Requests under way that are lost, or answered.                          *)
LEMMA FewerUnderWay ==
    ASSUME TunnelInv, NEW c \in Connections, NEW queue \in Seq(Exchanges),
           \A i \in DOMAIN queue : \E j \in DOMAIN underWay[c] : queue[i] = underWay[c][j],
           underWay' = [underWay EXCEPT ![c] = queue],
           UNCHANGED <<holder, pending>>
    PROVE  /\ underWay' \in [Connections -> Seq(Exchanges)]
           /\ \A d \in Connections : ConnInv(d)'
<1>1. underWay \in [Connections -> Seq(Exchanges)]
  BY DEF TunnelInv, TunnelTypeOK
<1>2. \A d \in Connections : ConnInv(d)
  BY DEF TunnelInv
<1>3. \A d \in Connections : ConnInv(d)'
  <2> SUFFICES ASSUME NEW d \in Connections PROVE ConnInv(d)'
    OBVIOUS
  <2>1. CASE d = c
    BY <1>1, <1>2, <2>1 DEF ConnInv
  <2>2. CASE d # c
    BY <1>1, <1>2, <2>2 DEF ConnInv
  <2> QED BY <2>1, <2>2
<1> QED BY <1>1, <1>3

LEMMA CutStep ==
    ASSUME TunnelInv, NEW c \in Connections, Cut(c) PROVE TunnelInv'
<1>1. /\ underWay' = [underWay EXCEPT ![c] = << >>] /\ << >> \in Seq(Exchanges)
      /\ UNCHANGED <<registered, holder, pending, caller, channel>>
      /\ link' \in [Connections -> {"unused", "open", "cut", "ended"}]
      /\ pending \in [Connections -> Awaited]
      /\ registered \in Connections \cup {NoConnection}
  BY DEF Cut, TunnelInv, TunnelTypeOK
<1>2. /\ underWay' \in [Connections -> Seq(Exchanges)]
      /\ \A d \in Connections : ConnInv(d)'
  <2>1. \A i \in DOMAIN << >> : \E j \in DOMAIN underWay[c] : << >>[i] = underWay[c][j]
    OBVIOUS
  <2> HIDE DEF ConnInv
  <2> QED BY <1>1, <2>1, FewerUnderWay
<1> QED BY <1>1, <1>2, ConnectionMoves

LEMMA TailTakes ==
    ASSUME NEW S, NEW q \in Seq(S), q # << >>
    PROVE  /\ Tail(q) \in Seq(S) /\ Head(q) = q[1] /\ 1 \in DOMAIN q /\ q[1] \in S
           /\ \A i \in DOMAIN Tail(q) : \E j \in DOMAIN q : Tail(q)[i] = q[j]
<1>1. Len(q) \in Nat /\ Len(q) > 0 /\ DOMAIN q = 1..Len(q)
  OBVIOUS
<1>2. Tail(q) \in Seq(S) /\ Len(Tail(q)) = Len(q) - 1
  OBVIOUS
<1>3. \A i \in 1..Len(Tail(q)) : Tail(q)[i] = q[i + 1] /\ i + 1 \in 1..Len(q)
  BY <1>1, <1>2
<1>4. DOMAIN Tail(q) = 1..Len(Tail(q))
  BY <1>2
<1> QED BY <1>1, <1>2, <1>3, <1>4

LEMMA LoseAnswerStep ==
    ASSUME TunnelInv, NEW c \in Connections, LoseAnswer(c) PROVE TunnelInv'
<1>1. /\ underWay' = [underWay EXCEPT ![c] = Tail(underWay[c])]
      /\ UNCHANGED <<link, registered, holder, pending, caller, channel>>
      /\ underWay[c] \in Seq(Exchanges) /\ underWay[c] # << >>
      /\ pending \in [Connections -> Awaited]
      /\ registered \in Connections \cup {NoConnection}
      /\ link \in [Connections -> {"unused", "open", "cut", "ended"}]
  BY DEF LoseAnswer, TunnelInv, TunnelTypeOK
<1>2. /\ underWay' \in [Connections -> Seq(Exchanges)]
      /\ \A d \in Connections : ConnInv(d)'
  <2>1. /\ Tail(underWay[c]) \in Seq(Exchanges)
        /\ \A i \in DOMAIN Tail(underWay[c]) :
              \E j \in DOMAIN underWay[c] : Tail(underWay[c])[i] = underWay[c][j]
    BY <1>1, TailTakes
  <2> QED BY <1>1, <2>1, FewerUnderWay
<1> QED BY <1>1, <1>2, ConnectionMoves

(* The handler that ends wakes the thread that waits.                      *)
LEMMA HandlerEndsStep ==
    ASSUME TunnelInv, NEW c \in Connections, HandlerEnds(c) PROVE TunnelInv'
<1>1. /\ pending' = [pending EXCEPT ![c].cut = pending[c].by # Nobody]
      /\ UNCHANGED <<holder, underWay, caller, channel>>
      /\ link' \in [Connections -> {"unused", "open", "cut", "ended"}]
      /\ registered' \in Connections \cup {NoConnection}
      /\ pending \in [Connections -> Awaited]
      /\ underWay \in [Connections -> Seq(Exchanges)]
  BY DEF HandlerEnds, Unregister, TunnelInv, TunnelTypeOK
<1>2. /\ pending' \in [Connections -> Awaited]
      /\ \A d \in Connections : d # c => pending'[d] = pending[d]
      /\ pending'[c].by = pending[c].by /\ pending'[c].clean = pending[c].clean
      /\ pending'[c].got = pending[c].got
  <2> DEFINE woken == [pending[c] EXCEPT !.cut = (pending[c].by # Nobody)]
  <2>1. pending[c] \in Awaited /\ (pending[c].by # Nobody) \in BOOLEAN
    BY <1>1
  <2>2. /\ woken \in Awaited /\ woken.by = pending[c].by
        /\ woken.clean = pending[c].clean /\ woken.got = pending[c].got
    BY <2>1 DEF Awaited
  <2>3. pending' = [pending EXCEPT ![c] = woken]
    BY <1>1
  <2> HIDE DEF woken
  <2> QED BY <1>1, <2>2, <2>3
<1>3. \A d \in Connections : ConnInv(d)'
  BY <1>1, <1>2 DEF TunnelInv, ConnInv
<1> QED BY <1>1, <1>2, <1>3, ConnectionMoves

(* The heart of the argument: what the meter answers belongs to the oldest *)
(* request under way.                                                      *)
LEMMA AnswerStep ==
    ASSUME TunnelInv, NEW c \in Connections, NEW kind \in Accepted, Answer(c, kind)
    PROVE  TunnelInv'
<1> DEFINE p == pending[c]
           sent == Head(underWay[c])
<1>0. PICK got : /\ \/ UNCHANGED pending
                    \/ p.by # Nobody /\ pending' = [pending EXCEPT ![c].got = got]
                 /\ \/ got = Noise
                    \/ \E k \in {kind, "odd"} : got = [by |-> sent.by, kind |-> k]
  <2>1. CASE UNCHANGED pending
    BY <2>1
  <2>2. CASE \E fits \in Fits(RequestOf(p.by), sent.command, kind) :
               /\ p.by # Nobody
               /\ pending' = [pending EXCEPT ![c].got =
                                IF p.got # Nothing THEN Noise
                                ELSE [by |-> sent.by, kind |-> IF fits THEN kind ELSE "odd"]]
    BY <2>2
  <2> QED BY <2>1, <2>2 DEF Answer, Feed
<1>1. /\ underWay' = [underWay EXCEPT ![c] = Tail(underWay[c])]
      /\ UNCHANGED <<link, registered, holder, caller, channel>>
      /\ underWay[c] \in Seq(Exchanges) /\ underWay[c] # << >>
      /\ pending \in [Connections -> Awaited]
      /\ underWay \in [Connections -> Seq(Exchanges)]
      /\ registered \in Connections \cup {NoConnection}
      /\ link \in [Connections -> {"unused", "open", "cut", "ended"}]
  BY DEF Answer, Feed, TunnelInv, TunnelTypeOK
<1>2. /\ Tail(underWay[c]) \in Seq(Exchanges) /\ 1 \in DOMAIN underWay[c]
      /\ sent = underWay[c][1] /\ sent \in Exchanges
      /\ \A i \in DOMAIN Tail(underWay[c]) :
            \E j \in DOMAIN underWay[c] : Tail(underWay[c])[i] = underWay[c][j]
  BY <1>1, TailTakes
<1>3. got \in Answers /\ (got.kind \in Accepted \cup {"odd"} => got.by = sent.by)
  BY <1>0, <1>2 DEF Answers, Noise, Exchanges, Accepted
<1> HIDE DEF sent
<1>4. underWay' \in [Connections -> Seq(Exchanges)]
  BY <1>1, <1>2
<1>5. /\ pending' \in [Connections -> Awaited]
      /\ \A d \in Connections : d # c => pending'[d] = pending[d]
      /\ pending'[c] = p \/ (p.by # Nobody /\ pending'[c] = [p EXCEPT !.got = got])
  BY <1>0, <1>1, <1>3 DEF Awaited
<1>6. ASSUME NEW d \in Connections PROVE ConnInv(d)'
  <2>1. CASE d # c
    BY <1>1, <1>5, <2>1 DEF TunnelInv, ConnInv
  <2>2. CASE d = c
    <3>1. ConnInv(c) /\ p \in Awaited /\ underWay'[c] = Tail(underWay[c])
      BY <1>1 DEF TunnelInv
    <3>2. p.clean => sent.by = holder[c]
      BY <1>2, <3>1 DEF ConnInv
    <3>5. \A i \in DOMAIN underWay'[c] :
            \E j \in DOMAIN underWay[c] : underWay'[c][i] = underWay[c][j]
      BY <1>2, <3>1
    <3>3. CASE pending'[c] = p
      <4>1. ASSUME NEW i \in DOMAIN underWay'[c]
            PROVE  /\ underWay'[c][i].by \in {Nobody, holder[c]}
                   /\ p.clean => underWay'[c][i].by = holder[c]
        BY <3>1, <3>5, <4>1 DEF ConnInv
      <4> QED BY <1>1, <3>1, <3>3, <4>1, <2>2 DEF ConnInv
    <3>4. CASE p.by # Nobody /\ pending'[c] = [p EXCEPT !.got = got]
      <4>1. /\ pending'[c].by = p.by /\ pending'[c].clean = p.clean
            /\ pending'[c].got = got
        BY <3>1, <3>4 DEF Awaited
      <4>2. ASSUME NEW i \in DOMAIN underWay'[c]
            PROVE  /\ underWay'[c][i].by \in {Nobody, holder[c]}
                   /\ p.clean => underWay'[c][i].by = holder[c]
        BY <3>1, <3>5, <4>2 DEF ConnInv
      <4>3. p.by # Nobody => p.by = holder[c]
        BY <3>1 DEF ConnInv
      <4>4. p.clean /\ got.kind \in Accepted \cup {"odd"} => got.by = p.by
        BY <1>3, <3>2, <3>4, <4>3
      <4> QED BY <1>1, <3>1, <3>4, <4>1, <4>2, <4>3, <4>4, <2>2 DEF ConnInv
    <3> QED BY <1>5, <3>3, <3>4
  <2> QED BY <2>1, <2>2
<1> QED BY <1>1, <1>4, <1>5, <1>6, ConnectionMoves

LEMMA AppendAdds ==
    ASSUME NEW S, NEW q \in Seq(S), NEW e \in S
    PROVE  /\ Append(q, e) \in Seq(S)
           /\ \A i \in DOMAIN Append(q, e) :
                Append(q, e)[i] = e \/ \E j \in DOMAIN q : Append(q, e)[i] = q[j]
<1>1. /\ Len(q) \in Nat /\ DOMAIN q = 1..Len(q)
      /\ Append(q, e) \in Seq(S) /\ Len(Append(q, e)) = Len(q) + 1
      /\ DOMAIN Append(q, e) = 1..(Len(q) + 1)
      /\ Append(q, e)[Len(q) + 1] = e
      /\ \A i \in 1..Len(q) : Append(q, e)[i] = q[i]
  OBVIOUS
<1>2. \A i \in 1..(Len(q) + 1) : i \in 1..Len(q) \/ i = Len(q) + 1
  BY <1>1
<1> QED BY <1>1, <1>2

(* A request goes to an open connection; to another the bytes are lost.    *)
LEMMA SentTypes ==
    ASSUME TunnelInv, NEW c \in Connections, NEW t \in Threads \cup {Nobody},
           NEW command \in Requested \cup {Raw}, SentOn(c, t, command)
    PROVE  /\ underWay' \in [Connections -> Seq(Exchanges)]
           /\ \A d \in Connections : d # c => underWay'[d] = underWay[d]
           /\ \A i \in DOMAIN underWay'[c] :
                \/ underWay'[c][i].by = t
                \/ \E j \in DOMAIN underWay[c] : underWay'[c][i] = underWay[c][j]
<1> DEFINE e == [by |-> t, command |-> command]
<1>1. e \in Exchanges /\ e.by = t
  BY DEF Exchanges
<1>2. underWay \in [Connections -> Seq(Exchanges)]
  BY DEF TunnelInv, TunnelTypeOK
<1> HIDE DEF e
<1>3. CASE link[c] = "open"
  <2>1. underWay' = [underWay EXCEPT ![c] = Append(underWay[c], e)]
    BY <1>3 DEF SentOn, e
  <2>2. /\ Append(underWay[c], e) \in Seq(Exchanges)
        /\ \A i \in DOMAIN Append(underWay[c], e) :
             \/ Append(underWay[c], e)[i] = e
             \/ \E j \in DOMAIN underWay[c] : Append(underWay[c], e)[i] = underWay[c][j]
    BY <1>1, <1>2, AppendAdds
  <2>3. underWay'[c] = Append(underWay[c], e)
    BY <1>2, <2>1
  <2> QED BY <1>1, <1>2, <2>1, <2>2, <2>3
<1>4. CASE link[c] # "open"
  <2>1. underWay' = underWay
    BY <1>4 DEF SentOn
  <2> QED BY <1>2, <2>1
<1> QED BY <1>3, <1>4

LEMMA RawSendStep ==
    ASSUME TunnelInv, NEW c \in Connections, RawSend(c) PROVE TunnelInv'
<1>1. /\ UNCHANGED <<link, holder, pending, caller, channel>>
      /\ holder[c] = Nobody
      /\ pending \in [Connections -> Awaited]
      /\ registered' \in Connections \cup {NoConnection}
      /\ link \in [Connections -> {"unused", "open", "cut", "ended"}]
  BY DEF RawSend, Unregister, TunnelInv, TunnelTypeOK
<1>2. /\ underWay' \in [Connections -> Seq(Exchanges)]
      /\ \A d \in Connections : d # c => underWay'[d] = underWay[d]
      /\ \A i \in DOMAIN underWay'[c] :
                \/ underWay'[c][i].by = Nobody
                \/ \E j \in DOMAIN underWay[c] : underWay'[c][i] = underWay[c][j]
  <2>1. CASE SentOn(c, Nobody, Raw)
    BY <2>1, SentTypes
  <2>2. CASE UNCHANGED underWay
    BY <2>2 DEF TunnelInv, TunnelTypeOK
  <2> QED BY <2>1, <2>2 DEF RawSend
<1>3. \A d \in Connections : ConnInv(d)'
  <2> SUFFICES ASSUME NEW d \in Connections PROVE ConnInv(d)'
    OBVIOUS
  <2>1. ConnInv(d)
    BY DEF TunnelInv
  <2>2. CASE d = c
    BY <1>1, <1>2, <2>1, <2>2 DEF ConnInv
  <2>3. CASE d # c
    BY <1>1, <1>2, <2>1, <2>3 DEF ConnInv
  <2> QED BY <2>2, <2>3
<1> QED BY <1>1, <1>2, <1>3, ConnectionMoves

LEMMA RequestTypes ==
    ASSUME TunnelInv, NEW t \in Threads, caller[t].stage # "idle"
    PROVE  RequestOf(t) \in Requested
<1>1. caller[t] \in Callers /\ CallerInv(caller[t])
  BY DEF TunnelInv, TunnelTypeOK
<1>2. caller[t].todo \in Seq(PollSet) /\ caller[t].todo # << >>
  BY <1>1 DEF Callers, CallerInv
<1>3. Head(caller[t].todo) \in PollSet
  BY <1>2
<1> QED BY <1>3 DEF RequestOf, Requested

(* The lock is taken, and the request is the asker's own.                  *)
LEMMA AskStep ==
    ASSUME TunnelInv, NEW t \in Threads, AskMercury(t) PROVE TunnelInv'
<1> DEFINE c == caller[t].conn
           n == [caller[t] EXCEPT !.stage = "waiting"]
           asked == [NotPending EXCEPT !.by = t, !.clean = NoneAbandoned(c)]
<1>1. /\ caller[t].stage = "locking" /\ holder[c] = Nobody
      /\ holder' = [holder EXCEPT ![c] = t]
      /\ pending' = [pending EXCEPT ![c] = asked]
      /\ SentOn(c, t, RequestOf(t))
      /\ caller' = [caller EXCEPT ![t] = n]
      /\ UNCHANGED <<link, registered, channel>>
  BY DEF AskMercury
<1>2. /\ caller \in [Threads -> Callers] /\ caller[t] \in Callers
      /\ CallerInv(caller[t]) /\ c \in Connections
      /\ holder \in [Connections -> Threads \cup {Nobody}]
      /\ pending \in [Connections -> Awaited]
      /\ t # Nobody
  BY <1>1, NobodyIsNoThread DEF TunnelInv, TunnelTypeOK, CallerInv
<1>3. /\ underWay' \in [Connections -> Seq(Exchanges)]
      /\ \A d \in Connections : d # c => underWay'[d] = underWay[d]
      /\ \A i \in DOMAIN underWay'[c] :
                \/ underWay'[c][i].by = t
                \/ \E j \in DOMAIN underWay[c] : underWay'[c][i] = underWay[c][j]
  <2>1. RequestOf(t) \in Requested \cup {Raw} /\ t \in Threads \cup {Nobody}
    BY <1>1, RequestTypes
  <2>2. c \in Connections /\ SentOn(c, t, RequestOf(t))
    BY <1>1, <1>2
  <2> HIDE DEF c
  <2> QED BY <2>1, <2>2, SentTypes
<1>4. n \in Callers /\ CallerInv(n) /\ n.stage = "waiting" /\ n.conn = c
  BY <1>1, <1>2 DEF Callers, CallerInv
<1>5. NoneAbandoned(c) \in BOOLEAN
  BY DEF NoneAbandoned
<1>6. /\ asked \in Awaited /\ asked.by = t /\ asked.clean = NoneAbandoned(c)
      /\ asked.got = Nothing
  BY <1>5, NotPendingType DEF NotPending, Awaited
<1>7. \A i \in DOMAIN underWay[c] : underWay[c][i].by = Nobody
  BY <1>1, <1>2 DEF TunnelInv, ConnInv
<1> HIDE DEF n, asked, c
<1>8. TunnelTypeOK'
  BY <1>1, <1>2, <1>3, <1>4, <1>6 DEF TunnelInv, TunnelTypeOK
<1>9. \A u \in Threads : CallerInv(caller[u])'
  BY <1>1, <1>2, <1>4 DEF TunnelInv, CallerInv
<1>10. LockInv'
  <2>1. \A u \in Threads : u # t => caller'[u] = caller[u]
    BY <1>1, <1>2
  <2>2. caller'[t].stage = "waiting" /\ caller'[t].conn = c /\ ~Waiting(t)
    BY <1>1, <1>2, <1>4 DEF Waiting
  <2>3. holder'[c] = t /\ \A d \in Connections : d # c => holder'[d] = holder[d]
    BY <1>1, <1>2
  <2>4. \A u \in Threads : ~(Waiting(u) /\ caller[u].conn = c)
    BY <1>1, <1>2, NobodyIsNoThread DEF TunnelInv, LockInv
  <2> QED BY <1>2, <2>1, <2>2, <2>3, <2>4 DEF TunnelInv, LockInv, Waiting
<1>11. \A d \in Connections : ConnInv(d)'
  <2> SUFFICES ASSUME NEW d \in Connections PROVE ConnInv(d)'
    OBVIOUS
  <2>1. CASE d # c
    BY <1>1, <1>3, <2>1 DEF TunnelInv, ConnInv
  <2>2. CASE d = c
    <3>1. pending'[c] = asked /\ holder'[c] = t
      BY <1>1, <1>2
    <3>2. NoneAbandoned(c) => \A i \in DOMAIN underWay'[c] : underWay'[c][i].by = t
      BY <1>3, <1>7 DEF NoneAbandoned
    <3>3. \A i \in DOMAIN underWay'[c] : underWay'[c][i].by \in {Nobody, t}
      BY <1>3, <1>7
    <3>4. asked.got.kind \notin Accepted \cup {"odd"}
      BY <1>6 DEF Nothing, Accepted
    <3> QED BY <1>6, <2>2, <3>1, <3>2, <3>3, <3>4 DEF ConnInv
  <2> QED BY <2>1, <2>2
<1> QED BY <1>8, <1>9, <1>10, <1>11 DEF TunnelInv

(* The wait ends: what the thread still has under way becomes nobody's.    *)
LEMMA EndStep ==
    ASSUME TunnelInv, NEW t \in Threads, NEW outcome \in Outcomes,
           Waiting(t), EndExchange(t, outcome)
    PROVE  TunnelInv'
<1> DEFINE c == caller[t].conn
           left == Disown(underWay[c], t)
<1>1. /\ holder' = [holder EXCEPT ![c] = Nobody]
      /\ pending' = [pending EXCEPT ![c] = NotPending]
      /\ underWay' = [underWay EXCEPT ![c] = left]
      /\ channel' = ChannelAfter(caller[t], outcome)
      /\ UNCHANGED <<link, registered>>
  BY DEF EndExchange
<1>2. PICK n \in After(caller[t], outcome) : caller' = [caller EXCEPT ![t] = n]
  BY DEF EndExchange
<1>3. /\ caller \in [Threads -> Callers] /\ caller[t] \in Callers
      /\ CallerInv(caller[t]) /\ caller[t].stage = "waiting" /\ c \in Connections
      /\ holder \in [Connections -> Threads \cup {Nobody}]
      /\ pending \in [Connections -> Awaited]
      /\ underWay \in [Connections -> Seq(Exchanges)] /\ underWay[c] \in Seq(Exchanges)
      /\ registered \in Connections \cup {NoConnection}
      /\ channel \in Connections \cup {NoConnection}
      /\ t # Nobody
  BY NobodyIsNoThread DEF Waiting, TunnelInv, TunnelTypeOK, CallerInv
<1>4. n \in Callers /\ CallerInv(n) /\ n.stage # "waiting"
  BY <1>3, AfterInv
<1>5. holder[c] = t
  BY <1>3 DEF TunnelInv, LockInv, Waiting
<1>6. channel' \in Connections \cup {NoConnection}
  BY <1>1, <1>3 DEF ChannelAfter
<1> HIDE DEF c
<1>7. left \in Seq(Exchanges) /\ \A i \in DOMAIN left : left[i].by = Nobody
  <2>1. DOMAIN left = 1..Len(underWay[c]) /\ Len(underWay[c]) \in Nat
    BY <1>3 DEF Disown
  <2>2. ASSUME NEW i \in 1..Len(underWay[c])
        PROVE  left[i] \in Exchanges /\ left[i].by = Nobody
    <3>1. /\ underWay[c][i] \in Exchanges /\ underWay[c][i].by \in {Nobody, t}
          /\ left[i] = IF underWay[c][i].by = t THEN [underWay[c][i] EXCEPT !.by = Nobody]
                       ELSE underWay[c][i]
      BY <1>3, <1>5, <2>1, <2>2 DEF TunnelInv, ConnInv, Disown
    <3> QED BY <3>1 DEF Exchanges
  <2>3. left = [i \in 1..Len(underWay[c]) |-> left[i]]
    BY <2>1 DEF Disown
  <2> HIDE DEF left
  <2>4. [i \in 1..Len(underWay[c]) |-> left[i]] \in Seq(Exchanges)
    BY <2>1, <2>2
  <2> QED BY <2>1, <2>2, <2>3, <2>4
<1> HIDE DEF left
<1>8. TunnelTypeOK'
  BY <1>1, <1>2, <1>3, <1>4, <1>6, <1>7, NotPendingType DEF TunnelInv, TunnelTypeOK
<1>9. \A u \in Threads : CallerInv(caller[u])'
  BY <1>2, <1>3, <1>4 DEF TunnelInv, CallerInv
<1>10. LockInv'
  <2>1. \A u \in Threads : u # t => caller'[u] = caller[u]
    BY <1>2, <1>3
  <2>2. caller'[t].stage # "waiting"
    BY <1>2, <1>3, <1>4
  <2>3. holder'[c] = Nobody /\ \A d \in Connections : d # c => holder'[d] = holder[d]
    BY <1>1, <1>3
  <2>4. \A u \in Threads : Waiting(u) /\ caller[u].conn = c => u = t
    BY <1>3, <1>5 DEF TunnelInv, LockInv
  <2>5. \A d \in Connections : holder[d] = t => d = c
    BY <1>3 DEF TunnelInv, LockInv, c
  <2> QED BY <1>3, <2>1, <2>2, <2>3, <2>4, <2>5, NobodyIsNoThread DEF TunnelInv, LockInv, Waiting
<1>11. \A d \in Connections : ConnInv(d)'
  <2> SUFFICES ASSUME NEW d \in Connections PROVE ConnInv(d)'
    OBVIOUS
  <2>1. CASE d # c
    BY <1>1, <1>3, <2>1 DEF TunnelInv, ConnInv
  <2>2. CASE d = c
    <3>1. pending'[c] = NotPending /\ holder'[c] = Nobody /\ underWay'[c] = left
      BY <1>1, <1>3
    <3>2. NotPending.by = Nobody /\ NotPending.got.kind \notin Accepted \cup {"odd"}
      BY DEF NotPending, Nothing, Accepted
    <3> QED BY <1>7, <2>2, <3>1, <3>2 DEF ConnInv
  <2> QED BY <2>1, <2>2
<1> QED BY <1>8, <1>9, <1>10, <1>11 DEF TunnelInv

LEMMA WaitEnds ==
    ASSUME TunnelInv, NEW t \in Threads, Answered(t) \/ GiveUp(t) \/ Offline(t)
    PROVE  TunnelInv'
<1>1. CASE Answered(t)
  BY <1>1, EndStep DEF Answered, Outcomes
<1>2. CASE Offline(t)
  BY <1>2, EndStep DEF Offline, Outcomes
<1>3. CASE GiveUp(t)
  <2> DEFINE got == pending[caller[t].conn].got
  <2>1. Waiting(t) /\ caller[t].conn \in Connections
    BY <1>3 DEF GiveUp, TunnelInv, CallerInv, Waiting
  <2>2. got \in Answers /\ got.kind \notin Accepted
    BY <1>3, <2>1 DEF GiveUp, TunnelInv, TunnelTypeOK, Awaited
  <2>3. got.kind = "nothing" \/ got.kind = "noise" \/ got.kind = "odd"
    BY <2>2 DEF Answers
  <2>4. \E outcome \in Outcomes : EndExchange(t, outcome)
    BY <1>3, <2>3 DEF GiveUp, Outcomes
  <2> QED BY <2>1, <2>4, EndStep
<1> QED BY <1>1, <1>2, <1>3

LEMMA ForgetChannelStep ==
    ASSUME TunnelInv, ForgetChannel PROVE TunnelInv'
<1>1. /\ UNCHANGED <<link, registered, holder, pending, underWay, caller>>
      /\ channel' \in Connections \cup {NoConnection}
  BY DEF ForgetChannel
<1>2. TunnelTypeOK'
  BY <1>1 DEF TunnelInv, TunnelTypeOK
<1> QED BY <1>1, <1>2 DEF TunnelInv, LockInv, ConnInv, CallerInv, Waiting

LEMMA TunnelStutter ==
    ASSUME TunnelInv, UNCHANGED tunnelVars PROVE TunnelInv'
  BY DEF tunnelVars, TunnelInv, TunnelTypeOK, LockInv, ConnInv, CallerInv, Waiting

-----------------------------------------------------------------------------
(* The invariant is inductive.                                             *)
THEOREM TunnelInvariant == TunnelSpec => []TunnelInv
<1>1. TunnelInv /\ [TunnelNext]_tunnelVars => TunnelInv'
  <2> SUFFICES ASSUME TunnelInv, [TunnelNext]_tunnelVars PROVE TunnelInv'
    OBVIOUS
  <2>1. ASSUME NEW c \in Connections,
               Connect(c) \/ Cut(c) \/ HandlerEnds(c) \/ LoseAnswer(c) \/ RawSend(c)
        PROVE  TunnelInv'
    BY <2>1, ConnectStep, CutStep, HandlerEndsStep, LoseAnswerStep, RawSendStep
  <2>2. ASSUME NEW c \in Connections, NEW kind \in {"data", "status"}, Answer(c, kind)
        PROVE  TunnelInv'
    BY <2>2, AnswerStep DEF Accepted
  <2>3. ASSUME NEW t \in Threads,
               \/ StartCaller(t) \/ NextCommand(t) \/ AskMercury(t)
               \/ Answered(t) \/ GiveUp(t) \/ Offline(t) \/ SendFails(t)
        PROVE  TunnelInv'
    BY <2>3, StartCallerStep, NextCommandStep, AskStep, WaitEnds, SendFailsStep
  <2>4. CASE ForgetChannel
    BY <2>4, ForgetChannelStep
  <2>5. CASE UNCHANGED tunnelVars
    BY <2>5, TunnelStutter
  <2> QED BY <2>1, <2>2, <2>3, <2>4, <2>5 DEF TunnelNext
<1> QED BY <1>1, TunnelInitInv, PTL DEF TunnelSpec

(* Connections, locks, pending answers, requests under way and threads     *)
(* keep their types; no poll counts more than one timeout in a row.        *)
THEOREM TunnelTypes == TunnelSpec => []TunnelTypeOK
<1>1. TunnelInv => TunnelTypeOK
  BY DEF TunnelInv
<1> QED BY <1>1, TunnelInvariant, PTL

(* For any threads, connections and poll set: an answer taken by a thread  *)
(* that asked with nothing abandoned under way is its own.                 *)
THEOREM AnswersAreOwn == TunnelSpec => []OwnAnswer
<1>1. TunnelInv => OwnAnswer
  BY DEF TunnelInv, ConnInv, OwnAnswer
<1> QED BY <1>1, TunnelInvariant, PTL

(* For any poll set a poll never asks a third time after two silences.     *)
THEOREM SilentMeterIsLeft == TunnelSpec => []PollLeavesASilentMeter
<1>1. TunnelInv => PollLeavesASilentMeter
  <2> SUFFICES ASSUME TunnelInv, NEW t \in Threads, caller[t].stage # "idle"
               PROVE  caller[t].silent < MAX_CONSECUTIVE_TIMEOUTS
    BY DEF PollLeavesASilentMeter
  <2>1. caller[t] \in Callers /\ CallerInv(caller[t])
    BY DEF TunnelInv, TunnelTypeOK
  <2> QED BY <2>1 DEF Callers, CallerInv, MAX_CONSECUTIVE_TIMEOUTS
<1> QED BY <1>1, TunnelInvariant, PTL

(* Whoever removes a connection from the registry removes a dead one.      *)
THEOREM LiveConnectionIsKept == TunnelSpec => LiveConnectionStays
<1>1. [TunnelNext]_tunnelVars =>
        [registered # NoConnection /\ registered' = NoConnection
           => link[registered] # "open"]_tunnelVars
  <2> SUFFICES ASSUME TunnelNext, registered # NoConnection, registered' = NoConnection
               PROVE  link[registered] # "open"
    BY DEF tunnelVars
  <2>1. \A c \in Connections : c # NoConnection
    BY NoConnectionIsNone
  <2>2. registered' # registered
    OBVIOUS
  <2>3. ASSUME NEW c \in Connections,
               Connect(c) \/ Cut(c) \/ HandlerEnds(c) \/ LoseAnswer(c) \/ RawSend(c)
               \/ \E kind \in {"data", "status"} : Answer(c, kind)
        PROVE  link[registered] # "open"
    BY <2>1, <2>2, <2>3 DEF Connect, Cut, HandlerEnds, LoseAnswer, RawSend, Answer, Unregister
  <2>4. ASSUME NEW t \in Threads,
               \/ StartCaller(t) \/ NextCommand(t) \/ AskMercury(t)
               \/ Answered(t) \/ GiveUp(t) \/ Offline(t) \/ SendFails(t)
        PROVE  FALSE
    BY <2>2, <2>4 DEF StartCaller, NextCommand, AskMercury, Answered, GiveUp, Offline,
                      SendFails, EndExchange
  <2>5. CASE ForgetChannel
    BY <2>2, <2>5 DEF ForgetChannel
  <2> QED BY <2>3, <2>4, <2>5 DEF TunnelNext
<1> QED BY <1>1, PTL DEF TunnelSpec, LiveConnectionStays
=============================================================================
