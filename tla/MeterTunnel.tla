------------------------------ MODULE MeterTunnel ------------------------------
(***************************************************************************)
(* The ATM21 gateway: requests to a meter through the TCP connection that  *)
(* its modem has opened (modem_gateway/sniffer.py, mercury.py).            *)
(*                                                                         *)
(* Several threads of the control server poll the same meter or send it    *)
(* single commands.  The Mercury protocol has no request number: a frame   *)
(* is taken for the answer when its address, its length and its CRC fit.   *)
(* One modem with one meter is modelled; others share nothing with it.     *)
(***************************************************************************)
EXTENDS Integers, Sequences, Functions

CONSTANTS Pollers,      \* threads of the control server that serve /mercury/poll
          Operators,    \* threads that serve /mercury/command
          MaxConnections, \* connections the modem opens, one after another (bound)
          PollCommands, \* poll_commands(), in order
          OpenChannel,  \* the request that opens access level 1
          WithChannel,  \* commands with needs_channel
          AnswerLength, \* the length of the answer to each command
          MaxUnderWay   \* requests under way on a connection (bound)

Connections == 1..MaxConnections
Threads == Pollers \cup Operators
PollSet == {PollCommands[i] : i \in DOMAIN PollCommands}
Requested == PollSet \cup {OpenChannel}

ASSUME TunnelAssumption ==
    /\ PollCommands \in Seq(PollSet) /\ PollCommands # << >>
    /\ OpenChannel \notin PollSet
    /\ WithChannel \subseteq PollSet
    /\ AnswerLength \in [Requested -> Nat]
    /\ MaxUnderWay \in Nat /\ MaxConnections \in Nat

VARIABLES link,         \* each connection: unused, open, cut, or its handler has ended
          registered,   \* the connection the registry holds for the modem
          holder,       \* who holds the send_lock of a connection
          pending,      \* the answer each connection waits for
          underWay,     \* requests sent whose answers have not come, in order
          caller,       \* what each thread is doing
          channel       \* the connection the manager believes has an open channel

tunnelVars == <<link, registered, holder, pending, underWay, caller, channel>>

Nobody == "nobody"
NoConnection == 0

ASSUME NobodyIsNoThread == Nobody \notin Threads

Raw == "raw"
AnyLength == 0
MAX_CONSECUTIVE_TIMEOUTS == 2

Resting == [stage |-> "idle", todo |-> << >>, op |-> "run", again |-> FALSE,
            checked |-> FALSE, failed |-> FALSE, timeouts |-> 0, silent |-> 0,
            conn |-> NoConnection, session |-> NoConnection]

(* A request under way, and an answer, is "by" the thread that still waits *)
(* for it.  What has come since the request was sent is "nothing", one     *)
(* "odd" frame of another length, "noise" that is no frame, or an accepted *)
(* answer; "clean" records that no abandoned request was under way then.   *)
Nothing == [by |-> Nobody, kind |-> "nothing"]
Noise == [by |-> Nobody, kind |-> "noise"]
NotPending == [by |-> Nobody, clean |-> FALSE, cut |-> FALSE, got |-> Nothing]
Accepted == {"data", "status"}

Exchanges == [by : Threads \cup {Nobody}, command : Requested \cup {Raw}]
Answers == [by : Threads \cup {Nobody}, kind : Accepted \cup {"nothing", "odd", "noise"}]
Awaited == [by : Threads \cup {Nobody}, clean : BOOLEAN, cut : BOOLEAN, got : Answers]
Callers == [stage : {"idle", "next", "locking", "waiting"},
            todo : Seq(PollSet), op : {"open", "run"},
            again : BOOLEAN, checked : BOOLEAN, failed : BOOLEAN,
            timeouts : 0..(MAX_CONSECUTIVE_TIMEOUTS - 1), silent : Nat,
            conn : Connections \cup {NoConnection},
            session : Connections \cup {NoConnection}]

TunnelTypeOK ==
    /\ link \in [Connections -> {"unused", "open", "cut", "ended"}]
    /\ registered \in Connections \cup {NoConnection}
    /\ channel \in Connections \cup {NoConnection}
    /\ holder \in [Connections -> Threads \cup {Nobody}]
    /\ underWay \in [Connections -> Seq(Exchanges)]
    /\ pending \in [Connections -> Awaited]
    /\ caller \in [Threads -> Callers]

TunnelInit ==
    /\ link = [c \in Connections |-> "unused"]
    /\ registered = NoConnection /\ channel = NoConnection
    /\ holder = [c \in Connections |-> Nobody]
    /\ pending = [c \in Connections |-> NotPending]
    /\ underWay = [c \in Connections |-> << >>]
    /\ caller = [t \in Threads |-> Resting]

-----------------------------------------------------------------------------
(* The modem and its connections *)

(* The modem identifies itself on a new connection and is registered.  The *)
(* shutdown of the connection it replaces is a Cut at any later time.      *)
Connect(c) ==
    /\ link[c] = "unused" /\ \A d \in 1..(c - 1) : link[d] # "unused"
    /\ link' = [link EXCEPT ![c] = "open"]
    /\ registered' = c
    /\ UNCHANGED <<holder, pending, underWay, caller, channel>>

Cut(c) ==
    /\ link[c] = "open"
    /\ link' = [link EXCEPT ![c] = "cut"]
    /\ underWay' = [underWay EXCEPT ![c] = << >>]
    /\ UNCHANGED <<registered, holder, pending, caller, channel>>

(* registry.remove; the mutant does not look whose connection it is.       *)
UnregisterAny(c) == registered' = NoConnection
Unregister(c) == registered' = IF registered = c THEN NoConnection ELSE registered

(* The end of handle(): disconnect_pending and remove.                     *)
HandlerEnds(c) ==
    /\ link[c] = "cut"
    /\ link' = [link EXCEPT ![c] = "ended"]
    /\ pending' = [pending EXCEPT ![c].cut = pending[c].by # Nobody]
    /\ Unregister(c)
    /\ UNCHANGED <<holder, underWay, caller, channel>>

(* match_mercury_frame: the first frame is accepted if its length is the   *)
(* expected one, or none is expected, or it is a bare error status.  What  *)
(* was sent by hand may be answered with any length.                       *)
Fits(asked, sent, kind) ==
    CASE kind = "status" \/ AnswerLength[asked] = AnyLength -> {TRUE}
      [] ~(kind = "status" \/ AnswerLength[asked] = AnyLength) ->
           IF sent = Raw THEN BOOLEAN ELSE {AnswerLength[sent] = AnswerLength[asked]}

RequestOf(t) == IF caller[t].op = "open" THEN OpenChannel ELSE Head(caller[t].todo)

(* feed_mercury_candidate; without a pending request the frame is dropped. *)
(* A frame that does not fit stays in the buffer, before whatever follows. *)
Feed(c, sent, kind) ==
    LET p == pending[c] IN
    IF p.by = Nobody \/ p.got.kind \in Accepted THEN UNCHANGED pending
    ELSE \E fits \in Fits(RequestOf(p.by), sent.command, kind) :
           pending' = [pending EXCEPT ![c].got =
                         IF p.got # Nothing THEN Noise
                         ELSE [by |-> sent.by, kind |-> IF fits THEN kind ELSE "odd"]]

(* The meter answers in order, with data or with an error status.          *)
Answer(c, kind) ==
    /\ link[c] = "open" /\ underWay[c] # << >>
    /\ underWay' = [underWay EXCEPT ![c] = Tail(@)]
    /\ Feed(c, Head(underWay[c]), kind)
    /\ UNCHANGED <<link, registered, holder, caller, channel>>

LoseAnswer(c) ==
    /\ underWay[c] # << >>
    /\ underWay' = [underWay EXCEPT ![c] = Tail(@)]
    /\ UNCHANGED <<link, registered, holder, pending, caller, channel>>

-----------------------------------------------------------------------------
(* The threads *)

(* /mercury/poll runs the whole set; /mercury/command runs one command     *)
(* without a look at the channel first.                                    *)
StartCaller(t) ==
    /\ caller[t] = Resting
    /\ \/ /\ t \in Pollers
          /\ caller' = [caller EXCEPT ![t].stage = "next", ![t].todo = PollCommands]
       \/ /\ t \in Operators
          /\ \E x \in PollSet :
               caller' = [caller EXCEPT ![t].stage = "next", ![t].todo = <<x>>,
                                        ![t].checked = TRUE]
    /\ UNCHANGED <<link, registered, holder, pending, underWay, channel>>

(* Records of a caller after an exchange.                                  *)
Asking(me, op, again, c) ==
    [me EXCEPT !.stage = "locking", !.op = op, !.again = again, !.conn = c]

(* The mutant takes the second timeout in a row for the first.             *)
ProceedOnceMore(me, todo, timeouts) ==
    IF todo = << >> \/ timeouts > MAX_CONSECUTIVE_TIMEOUTS THEN Resting
    ELSE [me EXCEPT !.stage = "next", !.todo = todo, !.timeouts = timeouts,
                    !.conn = NoConnection, !.session = NoConnection]

Proceed(me, todo, timeouts) ==
    IF todo = << >> \/ timeouts >= MAX_CONSECUTIVE_TIMEOUTS THEN Resting
    ELSE [me EXCEPT !.stage = "next", !.todo = todo, !.timeouts = timeouts,
                    !.conn = NoConnection, !.session = NoConnection]

(* The head of the loop in poll and of execute: the registry is asked      *)
(* again for every command, and once per poll the channel is opened.       *)
NextCommand(t) ==
    LET me == caller[t]
        looks == Head(me.todo) \in WithChannel /\ ~me.checked
        now == [me EXCEPT !.checked = @ \/ looks] IN
    /\ me.stage = "next"
    /\ caller' = [caller EXCEPT ![t] =
         IF registered = NoConnection THEN Resting
         ELSE IF looks /\ channel # registered
         THEN Asking(now, "open", FALSE, registered)
         ELSE [Asking(now, "run", FALSE, registered) EXCEPT !.session = registered]]
    /\ UNCHANGED <<link, registered, holder, pending, underWay, channel>>

RoomUnderWay == FoldFunction(LAMBDA q, n : Len(q) + n, 0, underWay) < MaxUnderWay

SentOn(c, t, command) ==
    underWay' = IF link[c] = "open"
                THEN [underWay EXCEPT ![c] = Append(@, [by |-> t, command |-> command])]
                ELSE underWay

NoneAbandoned(c) == \A i \in DOMAIN underWay[c] : underWay[c][i].by # Nobody

(* ask_mercury: the lock is held from here to the end of the wait.  The    *)
(* mutant sends without it.                                                *)
AskWithoutLock(t) ==
    LET c == caller[t].conn IN
    /\ caller[t].stage = "locking"
    /\ RoomUnderWay
    /\ holder' = [holder EXCEPT ![c] = t]
    /\ pending' = [pending EXCEPT ![c] =
                     [NotPending EXCEPT !.by = t, !.clean = NoneAbandoned(c)]]
    /\ SentOn(c, t, RequestOf(t))
    /\ caller' = [caller EXCEPT ![t].stage = "waiting"]
    /\ UNCHANGED <<link, registered, channel>>

AskMercury(t) ==
    LET c == caller[t].conn IN
    /\ caller[t].stage = "locking"
    /\ holder[c] = Nobody
    /\ RoomUnderWay
    /\ holder' = [holder EXCEPT ![c] = t]
    /\ pending' = [pending EXCEPT ![c] =
                     [NotPending EXCEPT !.by = t, !.clean = NoneAbandoned(c)]]
    /\ SentOn(c, t, RequestOf(t))
    /\ caller' = [caller EXCEPT ![t].stage = "waiting"]
    /\ UNCHANGED <<link, registered, channel>>

(* execute opens the channel and runs the command again, once, unless this  *)
(* poll has already failed to open it.                                     *)
Reopens(me, outcome) ==
    /\ outcome = "not open" /\ me.op = "run"
    /\ Head(me.todo) \in WithChannel /\ ~me.failed /\ ~me.again

(* What poll, execute and open_channel make of the outcome of an exchange: *)
(* the next steps of the caller.  A refused password may be tried in       *)
(* another encoding.  The second run of a command goes to the connection   *)
(* of the first, wherever the channel was opened.  A command is one        *)
(* exchange here.  In the code a few are several: what is read phase by    *)
(* phase, a tariff, or a journal record at a time.  In a poll such a       *)
(* command ends with its first timeout; the journals, which count their    *)
(* own, are not polled.                                                    *)
After(me, outcome) ==
    LET told == [me EXCEPT !.silent = IF outcome = "timeout" THEN @ + 1 ELSE 0]
        late == IF outcome = "timeout" THEN me.timeouts + 1 ELSE 0
        onward == Proceed(told, Tail(me.todo), late)
        refused == outcome \in {"refused", "not open"} IN
    CASE outcome = "offline" -> {Resting}
      [] Reopens(me, outcome) ->
           {IF registered = NoConnection THEN Resting
            ELSE Asking(told, "open", TRUE, registered)}
      [] me.op = "run" /\ outcome # "offline" /\ ~Reopens(me, outcome) -> {onward}
      [] me.op = "open" /\ outcome = "data" ->
           {IF me.again THEN Asking(told, "run", TRUE, me.session)
            ELSE Proceed(told, me.todo, me.timeouts)}
      [] me.op = "open" /\ outcome \notin {"data", "offline"} ->
           {IF me.again THEN onward
            ELSE Proceed([told EXCEPT !.failed = TRUE], me.todo,
                         IF outcome = "timeout" THEN late ELSE me.timeouts)}
           \cup (IF refused THEN {Asking(told, "open", me.again, me.conn)} ELSE {})

(* _remember_channel and _forget_channel.                                  *)
ChannelAfter(me, outcome) ==
    IF outcome = "data" /\ (me.op = "open" \/ Head(me.todo) \in WithChannel) THEN me.conn
    ELSE IF Reopens(me, outcome) THEN NoConnection ELSE channel

(* A request that is no longer waited for may still be answered.           *)
Disown(queue, t) ==
    [i \in DOMAIN queue |-> IF queue[i].by = t THEN [queue[i] EXCEPT !.by = Nobody]
                            ELSE queue[i]]

EndExchange(t, outcome) ==
    LET c == caller[t].conn IN
    /\ holder' = [holder EXCEPT ![c] = Nobody]
    /\ pending' = [pending EXCEPT ![c] = NotPending]
    /\ underWay' = [underWay EXCEPT ![c] = Disown(@, t)]
    /\ \E me \in After(caller[t], outcome) : caller' = [caller EXCEPT ![t] = me]
    /\ channel' = ChannelAfter(caller[t], outcome)
    /\ UNCHANGED <<link, registered>>

Waiting(t) == caller[t].stage = "waiting"

Answered(t) ==
    LET p == pending[caller[t].conn] IN
    /\ Waiting(t) /\ p.got.kind \in Accepted /\ ~p.cut
    /\ \E outcome \in IF p.got.kind = "data" THEN {"data"} ELSE {"refused", "not open"} :
         EndExchange(t, outcome)

(* The deadline: nothing has come, or something that does not fit; but one *)
(* whole frame is taken for the answer now, whatever its length.           *)
GiveUp(t) ==
    LET got == pending[caller[t].conn].got IN
    /\ Waiting(t) /\ got.kind \notin Accepted /\ ~pending[caller[t].conn].cut
    /\ \E outcome \in CASE got.kind = "nothing" -> {"timeout"}
                        [] got.kind = "noise"   -> {"error"}
                        [] got.kind = "odd"     -> {"error", "data", "refused"} :
         EndExchange(t, outcome)

(* disconnect_pending wakes the caller, an answer accepted before or not.  *)
Offline(t) ==
    /\ Waiting(t)
    /\ pending[caller[t].conn].cut
    /\ EndExchange(t, "offline")

(* sendall raises on a dead socket, unless the system still takes the bytes. *)
SendFails(t) ==
    /\ caller[t].stage = "locking"
    /\ holder[caller[t].conn] = Nobody /\ link[caller[t].conn] # "open"
    /\ \E me \in After(caller[t], "offline") : caller' = [caller EXCEPT ![t] = me]
    /\ UNCHANGED <<link, registered, holder, pending, underWay, channel>>

(* /send, to the connection that was registered when the request came: the *)
(* bytes go out under the lock and nobody waits for the answer.            *)
RawSend(c) ==
    /\ link[c] # "unused" /\ holder[c] = Nobody
    /\ RoomUnderWay
    /\ \/ SentOn(c, Nobody, Raw) /\ UNCHANGED registered
       \/ link[c] # "open" /\ Unregister(c) /\ UNCHANGED underWay
    /\ UNCHANGED <<link, holder, pending, caller, channel>>

(* CHANNEL_TTL_SECONDS.                                                    *)
ForgetChannel ==
    /\ channel # NoConnection
    /\ channel' = NoConnection
    /\ UNCHANGED <<link, registered, holder, pending, underWay, caller>>

TunnelNext ==
    \/ \E c \in Connections :
        \/ Connect(c) \/ Cut(c) \/ HandlerEnds(c) \/ LoseAnswer(c) \/ RawSend(c)
        \/ \E kind \in {"data", "status"} : Answer(c, kind)
    \/ \E t \in Threads :
        \/ StartCaller(t) \/ NextCommand(t) \/ AskMercury(t)
        \/ Answered(t) \/ GiveUp(t) \/ Offline(t) \/ SendFails(t)
    \/ ForgetChannel

TunnelSpec == TunnelInit /\ [][TunnelNext]_tunnelVars

-----------------------------------------------------------------------------
(* When no abandoned request was under way as a request was sent, the      *)
(* answer that is accepted for it is its own, whatever other threads, raw  *)
(* sends and reconnections do meanwhile.                                   *)
OwnAnswer ==
    \A c \in Connections :
        pending[c].got.kind \in Accepted \cup {"odd"} /\ pending[c].clean
            => pending[c].got.by = pending[c].by

(* A poll leaves a meter that says nothing after two requests in a row,    *)
(* the opening of the channel included.                                    *)
PollLeavesASilentMeter ==
    \A t \in Threads : caller[t].stage # "idle" => caller[t].silent < MAX_CONSECUTIVE_TIMEOUTS

(* The end of a replaced connection does not take its successor out of the *)
(* registry: only a dead connection is removed.                            *)
LiveConnectionStays ==
    [][registered # NoConnection /\ registered' = NoConnection => link[registered] # "open"]_tunnelVars
=============================================================================
