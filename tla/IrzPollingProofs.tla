-------------------------- MODULE IrzPollingProofs --------------------------
(***************************************************************************)
(* Proofs about the polling of the modems, for any devices, interval,      *)
(* pool, users, timeouts and bounds.                                       *)
(***************************************************************************)
EXTENDS IrzPolling, TLAPS

(* Offsets fall inside the interval (schedule_offsets).                    *)
LEMMA OffsetInInterval ==
    ASSUME NEW index \in Nat, NEW count \in Nat, index < count
    PROVE  RankedOffset(index, count) \in 0..(Interval - 1)
<1>1. Interval \in Nat /\ Interval > 0
  BY IntervalAssumption
<1>2. index * Interval \in Nat /\ index * Interval < count * Interval
  BY <1>1
<1>3. (index * Interval) \div count \in Nat
  BY <1>1, <1>2
<1>4. count * ((index * Interval) \div count) =< index * Interval
  BY <1>1, <1>2
<1>5. (index * Interval) \div count < Interval
  <2>1. SUFFICES ASSUME (index * Interval) \div count >= Interval PROVE FALSE
    BY <1>1, <1>3
  <2>2. count * ((index * Interval) \div count) >= count * Interval
    BY <1>1, <1>3, <2>1
  <2> QED BY <1>1, <1>2, <1>3, <1>4, <2>2
<1> QED BY <1>1, <1>3, <1>5 DEF RankedOffset

(* The present slot has begun and has not ended (slot_start).              *)
THEOREM SlotContainsNow ==
    ASSUME NEW time \in Nat, NEW offset \in 0..(Interval - 1)
    PROVE  /\ SlotStart(time, offset) =< time
           /\ time < SlotStart(time, offset) + Interval
<1>1. Interval \in Nat /\ Interval > 0
  BY IntervalAssumption
<1>2. time % Interval \in 0..(Interval - 1)
  BY <1>1
<1> QED BY <1>1, <1>2 DEF SlotStart

-----------------------------------------------------------------------------
(* What keeps two polls of a device apart: while a thread holds the lease, *)
(* what is left of the lease and the time it has held it add up to the     *)
(* whole, and it has not held it that long; so that a lease that is free   *)
(* has no holder.                                                          *)
PollInv == TypeOK /\ LeaseOfHolder /\ OnePollPerAtm

LEMMA Times == /\ PollTimeout \in Nat /\ LeaseMargin \in Nat
               /\ LeaseLength \in Nat /\ LeaseLength > 0
               /\ LeaseLength = PollTimeout + LeaseMargin
  BY TimesAssumption DEF LeaseLength

LEMMA InitInv == Init => PollInv
<1> SUFFICES ASSUME Init PROVE PollInv
  OBVIOUS
<1>1. Idle \in Threads /\ Idle.at = "idle"
  BY Times DEF Idle, Threads, Stages
<1>2. \A p \in Pollers : poller[p].at = "idle" /\ ~Holding(p)
  BY <1>1 DEF Init, Holding
<1>3. age \in [Atms -> 0..Interval] /\ lease \in [Atms -> 0..(PollTimeout + LeaseMargin)]
  <2>1. age = [d \in Atms |-> Interval] /\ lease = [d \in Atms |-> 0]
    BY DEF Init
  <2>2. Interval \in 0..Interval /\ 0 \in 0..(PollTimeout + LeaseMargin)
    BY Times, IntervalAssumption
  <2> QED BY <2>1, <2>2
<1>4. clock \in 0..(Interval - 1) /\ queue \in Seq(Atms) /\ passed \in BOOLEAN
  <2>1. clock = 0 /\ queue = << >> /\ passed = FALSE
    BY DEF Init
  <2>2. 0 \in 0..(Interval - 1)
    BY IntervalAssumption
  <2>3. << >> \in Seq(Atms)
    OBVIOUS
  <2>4. clock \in 0..(Interval - 1)
    BY <2>1, <2>2
  <2>5. queue \in Seq(Atms)
    BY <2>1, <2>3
  <2> QED BY <2>1, <2>4, <2>5
<1>5. known \in SUBSET Atms /\ linked \in SUBSET Atms /\ due \in SUBSET Atms /\ in_flight \in SUBSET Atms
  BY DEF Init
<1>6. budget \in Budgets
  BY BudgetsAssumption DEF Init, Budgets
<1>7. poller \in [Pollers -> Threads]
  BY <1>1 DEF Init
<1>8. TypeOK
  BY <1>2, <1>3, <1>4, <1>5, <1>6, <1>7 DEF TypeOK
<1> QED BY <1>2, <1>8 DEF PollInv, LeaseOfHolder, OnePollPerAtm

(* A thread that moves to another stage keeps its device and its clock.    *)
LEMMA MovedTypes ==
    ASSUME poller \in [Pollers -> Threads], NEW p \in Pollers,
           NEW stage \in Stages, poller' = Moved(p, stage)
    PROVE  /\ poller' \in [Pollers -> Threads]
           /\ poller'[p].at = stage /\ poller'[p].atm = poller[p].atm
           /\ poller'[p].held = poller[p].held
           /\ \A q \in Pollers : q # p => poller'[q] = poller[q]
<1>1. poller[p] \in Threads
  OBVIOUS
<1>2. [poller[p] EXCEPT !.at = stage] \in Threads
  BY <1>1 DEF Threads
<1>3. poller' = [poller EXCEPT ![p] = [poller[p] EXCEPT !.at = stage]]
  BY DEF Moved
<1>4. /\ [poller[p] EXCEPT !.at = stage].at = stage
      /\ [poller[p] EXCEPT !.at = stage].atm = poller[p].atm
      /\ [poller[p] EXCEPT !.at = stage].held = poller[p].held
  BY <1>1 DEF Threads
<1> QED BY <1>2, <1>3, <1>4

(* Steps that leave the threads and the leases alone.                      *)
LEMMA FrameInv ==
    ASSUME PollInv, UNCHANGED <<poller, lease>>
    PROVE  LeaseOfHolder' /\ OnePollPerAtm'
  BY DEF PollInv, LeaseOfHolder, OnePollPerAtm, Holding, LeaseLength

(* Spending a unit of a bound. *)
LEMMA BudgetTypes ==
    ASSUME budget \in Budgets
    PROVE  /\ budget.manual > 0 => [budget EXCEPT !.manual = @ - 1] \in Budgets
           /\ budget.fail > 0 => [budget EXCEPT !.fail = @ - 1] \in Budgets
           /\ budget.crash > 0 => [budget EXCEPT !.crash = @ - 1] \in Budgets
           /\ budget.link > 0 => [budget EXCEPT !.link = @ - 1] \in Budgets
           /\ budget.link > 0 /\ budget.fail > 0 =>
                 [budget EXCEPT !.link = @ - 1, !.fail = @ - 1] \in Budgets
<1> DEFINE b == budget
<1>1. /\ b = [manual |-> b.manual, fail |-> b.fail, crash |-> b.crash, link |-> b.link]
      /\ b.manual \in Nat /\ b.fail \in Nat /\ b.crash \in Nat /\ b.link \in Nat
  BY DEF Budgets
<1>2. /\ b.manual > 0 => b.manual - 1 \in Nat
      /\ b.fail > 0 => b.fail - 1 \in Nat
      /\ b.crash > 0 => b.crash - 1 \in Nat
      /\ b.link > 0 => b.link - 1 \in Nat
  BY <1>1
<1> QED BY <1>1, <1>2, Zenon DEF Budgets

(* The scheduler and the links: neither a thread nor a lease moves.        *)
LEMMA SchedulerStep ==
    ASSUME PollInv,
           \/ Fetch \/ FetchFails \/ ListDevices
           \/ \E d \in Atms : Submit(d) \/ Identify(d) \/ IdentifyUnstored(d) \/ Disconnect(d)
    PROVE  PollInv'
<1>1. UNCHANGED <<poller, lease>>
  BY DEF Fetch, FetchFails, ListDevices, Submit, Identify, IdentifyUnstored, Disconnect, rows
<1>2. LeaseOfHolder' /\ OnePollPerAtm'
  BY <1>1, FrameInv
<1> USE DEF PollInv, TypeOK
<1>3. UNCHANGED <<clock, age>>
  BY DEF Fetch, FetchFails, ListDevices, Submit, Identify, IdentifyUnstored, Disconnect, rows
<1>4. budget' \in Budgets
  BY BudgetTypes DEF Fetch, FetchFails, ListDevices, Submit, Identify, IdentifyUnstored, Disconnect
<1>5. known' \in SUBSET Atms /\ linked' \in SUBSET Atms
  BY DEF Fetch, FetchFails, ListDevices, Submit, Identify, IdentifyUnstored, Disconnect, rows
<1>6. due' \in SUBSET Atms /\ passed' \in BOOLEAN
  BY DEF Fetch, FetchFails, ListDevices, Submit, Identify, IdentifyUnstored, Disconnect, scheduler
<1>7. in_flight' \in SUBSET Atms /\ queue' \in Seq(Atms)
  <2>1. CASE UNCHANGED <<in_flight, queue>>
    BY <2>1
  <2>2. CASE \E d \in Atms : in_flight' = in_flight \cup {d} /\ queue' = Append(queue, d)
    BY <2>2
  <2>3. \A d \in Atms : Submit(d) =>
          \/ UNCHANGED <<in_flight, queue>>
          \/ in_flight' = in_flight \cup {d} /\ queue' = Append(queue, d)
    BY DEF Submit
  <2> QED BY <2>1, <2>2, <2>3
          DEF Fetch, FetchFails, ListDevices, Identify, IdentifyUnstored, Disconnect, scheduler
<1>8. TypeOK'
  BY <1>1, <1>3, <1>4, <1>5, <1>6, <1>7
<1> QED BY <1>2, <1>8

(* A thread that starts, or has just taken the lease, has held it 0 ticks. *)
LEMMA StartTypes ==
    ASSUME poller \in [Pollers -> Threads], NEW p \in Pollers, NEW d \in Atms,
           NEW stage \in Stages,
           poller' = [poller EXCEPT ![p] = [at |-> stage, atm |-> d, held |-> 0]]
    PROVE  /\ poller' \in [Pollers -> Threads]
           /\ poller'[p].at = stage /\ poller'[p].atm = d /\ poller'[p].held = 0
           /\ \A q \in Pollers : q # p => poller'[q] = poller[q]
<1>1. [at |-> stage, atm |-> d, held |-> 0] \in Threads
  BY Times DEF Threads, Stages
<1> QED BY <1>1

(* Steps after which the threads that hold a lease held it before, with    *)
(* the same clock, and their leases are as they were.                      *)
LEMMA FewerHolders ==
    ASSUME PollInv,
           \A q \in Pollers : Holding(q)' =>
              /\ Holding(q)
              /\ poller'[q].atm = poller[q].atm /\ poller'[q].held = poller[q].held
              /\ lease'[poller[q].atm] = lease[poller[q].atm]
    PROVE  LeaseOfHolder' /\ OnePollPerAtm'
<1>1. LeaseOfHolder'
  BY DEF PollInv, LeaseOfHolder, LeaseLength
<1>2. OnePollPerAtm'
  BY DEF PollInv, OnePollPerAtm
<1> QED BY <1>1, <1>2

(* The beginning of a poll, by the pool or by hand.                        *)
LEMMA StartStep ==
    ASSUME PollInv,
           (\E w \in Pool : Take(w)) \/ (\E u \in Users, d \in Atms : PollByHand(u, d))
    PROVE  PollInv'
<1>1. PICK p \in Pollers, d \in Atms :
           poller' = [poller EXCEPT ![p] = [at |-> "starting", atm |-> d, held |-> 0]]
  <2>1. queue # << >> => Head(queue) \in Atms
    BY DEF PollInv, TypeOK
  <2> QED BY <2>1 DEF Take, PollByHand, Pollers
<1>2. poller \in [Pollers -> Threads]
  BY DEF PollInv, TypeOK
<1>3. /\ poller' \in [Pollers -> Threads]
      /\ poller'[p].at = "starting" /\ poller'[p].atm = d
      /\ \A q \in Pollers : q # p => poller'[q] = poller[q]
  BY <1>1, <1>2, StartTypes DEF Stages
<1>4. UNCHANGED <<clock, linked, known, age, lease, due, passed, in_flight>>
  BY DEF Take, PollByHand, rows, scheduler
<1>5. LeaseOfHolder' /\ OnePollPerAtm'
  <2>1. \A q \in Pollers : Holding(q)' =>
          /\ Holding(q)
          /\ poller'[q].atm = poller[q].atm /\ poller'[q].held = poller[q].held
          /\ lease'[poller[q].atm] = lease[poller[q].atm]
    BY <1>3, <1>4 DEF Holding
  <2> QED BY <2>1, FewerHolders
<1>6. budget' \in Budgets
  BY BudgetTypes DEF PollInv, TypeOK, Take, PollByHand
<1>7. queue' \in Seq(Atms)
  <2>1. queue \in Seq(Atms)
    BY DEF PollInv, TypeOK
  <2>2. queue # << >> => Tail(queue) \in Seq(Atms)
    BY <2>1
  <2> QED BY <2>1, <2>2 DEF Take, PollByHand, scheduler
<1>8. \A q \in Pollers : poller'[q].at # "idle" => poller'[q].atm \in Atms
  BY <1>3 DEF PollInv, TypeOK
<1>9. TypeOK'
  BY <1>3, <1>4, <1>6, <1>7, <1>8 DEF PollInv, TypeOK
<1> QED BY <1>5, <1>9 DEF PollInv

(* The steps of a poll once it is under way that take no lease.            *)
LEMMA WorkStep ==
    ASSUME PollInv, NEW p \in Pollers,
           Answer(p) \/ Record(p) \/ Fail(p) \/ FailUnreleased(p) \/ Release(p)
    PROVE  PollInv'
<1>1. PICK stage \in {"answered", "recorded", "done"} : poller' = Moved(p, stage)
  BY DEF Answer, Record, Fail, FailUnreleased, Release
<1>2. poller \in [Pollers -> Threads]
  BY DEF PollInv, TypeOK
<1>3. /\ poller' \in [Pollers -> Threads]
      /\ poller'[p].at = stage /\ poller'[p].atm = poller[p].atm
      /\ poller'[p].held = poller[p].held
      /\ \A q \in Pollers : q # p => poller'[q] = poller[q]
  BY <1>1, <1>2, MovedTypes DEF Stages
<1>4. Holding(p)
  BY DEF Holding, Answer, Record, Fail, FailUnreleased, Release
<1>5. \A q \in Pollers : Holding(q)' =>
        /\ Holding(q)
        /\ poller'[q].atm = poller[q].atm /\ poller'[q].held = poller[q].held
  BY <1>3, <1>4 DEF Holding
<1>6. \A q \in Pollers : Holding(q)' => lease'[poller[q].atm] = lease[poller[q].atm]
  <2>1. CASE UNCHANGED lease
    BY <2>1
  <2>2. CASE Release(p)
    <3>1. lease' = [lease EXCEPT ![poller[p].atm] = 0]
      BY <2>2 DEF Release
    <3>2. ~Holding(p)'
      <4>1. poller' = Moved(p, "done")
        BY <2>2 DEF Release
      <4>2. poller'[p].at = "done"
        BY <4>1, <1>2, MovedTypes DEF Stages
      <4> QED BY <4>2 DEF Holding
    <3>3. \A q \in Pollers : Holding(q)' => poller[q].atm # poller[p].atm
      BY <3>2, <1>4, <1>5 DEF PollInv, OnePollPerAtm
    <3> QED BY <3>1, <3>3, <1>2, <1>4 DEF PollInv, TypeOK
  <2> QED BY <2>1, <2>2 DEF Answer, Record, Fail, FailUnreleased, rows
<1>7. LeaseOfHolder' /\ OnePollPerAtm'
  BY <1>5, <1>6, FewerHolders
<1>8. poller[p].atm \in Atms
  BY <1>4 DEF Holding, PollInv, TypeOK
<1>9. UNCHANGED <<clock, known, linked, due, passed, in_flight, queue>>
  BY DEF Answer, Record, Fail, FailUnreleased, Release, rows, scheduler
<1>10. lease' \in [Atms -> 0..(PollTimeout + LeaseMargin)]
  <2>1. lease \in [Atms -> 0..(PollTimeout + LeaseMargin)] /\ 0 \in 0..(PollTimeout + LeaseMargin)
    BY Times DEF PollInv, TypeOK
  <2>2. lease' = lease \/ lease' = [lease EXCEPT ![poller[p].atm] = 0]
    BY DEF Answer, Record, Fail, FailUnreleased, Release, rows
  <2> QED BY <2>1, <2>2
<1>11. age' \in [Atms -> 0..Interval]
  <2>1. age \in [Atms -> 0..Interval] /\ 0 \in 0..Interval
    BY IntervalAssumption DEF PollInv, TypeOK
  <2>2. age' = age \/ age' = [age EXCEPT ![poller[p].atm] = 0]
    BY DEF Answer, Record, Fail, FailUnreleased, Release, rows
  <2> QED BY <2>1, <2>2
<1>12. budget' \in Budgets
  BY BudgetTypes DEF Answer, Record, Fail, FailUnreleased, Release, PollInv, TypeOK
<1>13. \A q \in Pollers : poller'[q].at # "idle" => poller'[q].atm \in Atms
  BY <1>3, <1>8 DEF PollInv, TypeOK
<1>14. TypeOK'
  BY <1>3, <1>9, <1>10, <1>11, <1>12, <1>13 DEF PollInv, TypeOK
<1> QED BY <1>7, <1>14 DEF PollInv

(* A free lease has no holder; the thread that takes it is the only one.   *)
LEMMA AcquireStep ==
    ASSUME PollInv, NEW p \in Pollers, Acquire(p)
    PROVE  PollInv'
<1> DEFINE d == poller[p].atm
<1>1. poller \in [Pollers -> Threads] /\ poller[p].at = "starting" /\ d \in Atms
  BY DEF Acquire, PollInv, TypeOK
<1>2. /\ poller' \in [Pollers -> Threads]
      /\ poller'[p].atm = d /\ poller'[p].at \in {"asking", "done"}
      /\ \A q \in Pollers : q # p => poller'[q] = poller[q]
  <2>1. CASE poller' = [poller EXCEPT ![p] = [at |-> "asking", atm |-> d, held |-> 0]]
    BY <2>1, <1>1, StartTypes DEF Stages
  <2>2. CASE poller' = Moved(p, "done")
    BY <2>2, <1>1, MovedTypes DEF Stages
  <2> QED BY <2>1, <2>2 DEF Acquire
<1>3. LeaseOfHolder' /\ OnePollPerAtm'
  <2>1. CASE Unleased(d)
    <3>1. /\ lease' = [lease EXCEPT ![d] = LeaseLength]
          /\ poller' = [poller EXCEPT ![p] = [at |-> "asking", atm |-> d, held |-> 0]]
      BY <2>1 DEF Acquire
    <3>2. \A q \in Pollers : Holding(q) => poller[q].atm # d
      BY <2>1, <1>1, Times DEF Unleased, PollInv, LeaseOfHolder, TypeOK, Threads
    <3>3. \A q \in Pollers : q # p =>
            /\ Holding(q)' <=> Holding(q)
            /\ poller'[q] = poller[q]
      BY <1>2 DEF Holding
    <3>4. poller'[p].held = 0
      BY <3>1, <1>1, StartTypes DEF Stages
    <3>5. OnePollPerAtm'
      BY <3>2, <3>3, <1>2 DEF PollInv, OnePollPerAtm
    <3>6. \A q \in Pollers : q # p /\ Holding(q)' =>
            lease'[poller'[q].atm] + poller'[q].held = LeaseLength /\ poller'[q].held < LeaseLength
      BY <3>1, <3>2, <3>3, <1>1 DEF PollInv, LeaseOfHolder, TypeOK
    <3>7. lease'[poller'[p].atm] + poller'[p].held = LeaseLength /\ poller'[p].held < LeaseLength
      BY <3>1, <3>4, <1>1, <1>2, Times DEF PollInv, TypeOK
    <3>8. LeaseOfHolder'
      BY <3>6, <3>7 DEF LeaseOfHolder, LeaseLength
    <3> QED BY <3>5, <3>8
  <2>2. CASE ~Unleased(d)
    <3>1. UNCHANGED lease /\ poller' = Moved(p, "done")
      BY <2>2 DEF Acquire
    <3>2. poller'[p].at = "done"
      BY <3>1, <1>1, MovedTypes DEF Stages
    <3>3. \A q \in Pollers : Holding(q)' =>
            /\ Holding(q)
            /\ poller'[q].atm = poller[q].atm /\ poller'[q].held = poller[q].held
            /\ lease'[poller[q].atm] = lease[poller[q].atm]
      BY <3>1, <3>2, <1>2 DEF Holding
    <3> QED BY <3>3, FewerHolders
  <2> QED BY <2>1, <2>2
<1>4. UNCHANGED <<clock, known, linked, age, due, passed, in_flight, queue, budget>>
  BY DEF Acquire, scheduler
<1>5. lease' \in [Atms -> 0..(PollTimeout + LeaseMargin)]
  <2>1. lease \in [Atms -> 0..(PollTimeout + LeaseMargin)] /\ LeaseLength \in 0..(PollTimeout + LeaseMargin)
    BY Times DEF PollInv, TypeOK
  <2>2. lease' = lease \/ lease' = [lease EXCEPT ![d] = LeaseLength]
    BY DEF Acquire
  <2> QED BY <2>1, <2>2
<1>6. \A q \in Pollers : poller'[q].at # "idle" => poller'[q].atm \in Atms
  BY <1>1, <1>2 DEF PollInv, TypeOK
<1>7. TypeOK'
  BY <1>2, <1>4, <1>5, <1>6 DEF PollInv, TypeOK
<1> QED BY <1>3, <1>7 DEF PollInv

(* A thread that ends, or dies with its process, is idle.                  *)
LEMMA IdleTypes == Idle \in Threads /\ Idle.at = "idle"
  BY Times DEF Idle, Threads, Stages

LEMMA FinishStep ==
    ASSUME PollInv, NEW p \in Pollers, Finish(p)
    PROVE  PollInv'
<1>1. poller \in [Pollers -> Threads] /\ poller' = [poller EXCEPT ![p] = Idle]
  BY DEF Finish, PollInv, TypeOK
<1>2. /\ poller' \in [Pollers -> Threads]
      /\ poller'[p].at = "idle"
      /\ \A q \in Pollers : q # p => poller'[q] = poller[q]
  BY <1>1, IdleTypes
<1>3. UNCHANGED <<clock, known, linked, age, lease, due, passed, queue, budget>>
  BY DEF Finish, rows
<1>4. LeaseOfHolder' /\ OnePollPerAtm'
  <2>1. \A q \in Pollers : Holding(q)' =>
          /\ Holding(q)
          /\ poller'[q].atm = poller[q].atm /\ poller'[q].held = poller[q].held
          /\ lease'[poller[q].atm] = lease[poller[q].atm]
    BY <1>2, <1>3 DEF Holding
  <2> QED BY <2>1, FewerHolders
<1>5. in_flight' \in SUBSET Atms
  BY DEF Finish, Forgotten, PollInv, TypeOK
<1>6. \A q \in Pollers : poller'[q].at # "idle" => poller'[q].atm \in Atms
  BY <1>2 DEF PollInv, TypeOK
<1>7. TypeOK'
  BY <1>2, <1>3, <1>5, <1>6 DEF PollInv, TypeOK
<1> QED BY <1>4, <1>7 DEF PollInv

(* The threads of the pool forget what they held, the leases stay.         *)
LEMMA CrashStep ==
    ASSUME PollInv, Crash
    PROVE  PollInv'
<1>1. /\ poller \in [Pollers -> Threads]
      /\ poller' = [p \in Pollers |-> IF p \in Pool THEN Idle ELSE poller[p]]
  BY DEF Crash, PollInv, TypeOK
<1>2. /\ poller' \in [Pollers -> Threads]
      /\ \A q \in Pollers : poller'[q].at = "idle" \/ poller'[q] = poller[q]
  BY <1>1, IdleTypes
<1>3. UNCHANGED <<clock, known, linked, age, lease>>
  BY DEF Crash, rows
<1>4. LeaseOfHolder' /\ OnePollPerAtm'
  <2>1. \A q \in Pollers : Holding(q)' =>
          /\ Holding(q)
          /\ poller'[q].atm = poller[q].atm /\ poller'[q].held = poller[q].held
          /\ lease'[poller[q].atm] = lease[poller[q].atm]
    BY <1>2, <1>3 DEF Holding
  <2> QED BY <2>1, FewerHolders
<1>5. due' \in SUBSET Atms /\ passed' \in BOOLEAN /\ in_flight' \in SUBSET Atms
  BY DEF Crash
<1>6. queue' \in Seq(Atms)
  <2>1. queue' = << >>
    BY DEF Crash
  <2>2. << >> \in Seq(Atms)
    OBVIOUS
  <2> QED BY <2>1, <2>2
<1>7. budget' \in Budgets
  BY BudgetTypes DEF Crash, PollInv, TypeOK
<1>8. \A q \in Pollers : poller'[q].at # "idle" => poller'[q].atm \in Atms
  BY <1>2 DEF PollInv, TypeOK
<1>9. TypeOK'
  BY <1>2, <1>3, <1>5, <1>6, <1>7, <1>8 DEF PollInv, TypeOK
<1> QED BY <1>4, <1>9 DEF PollInv

(* A tick takes from the lease of a holder what it adds to its time.       *)
LEMMA TickStep ==
    ASSUME PollInv, Tick
    PROVE  PollInv'
<1>1. /\ poller \in [Pollers -> Threads]
      /\ poller' = [p \in Pollers |->
                       IF Holding(p) THEN [poller[p] EXCEPT !.held = @ + 1] ELSE poller[p]]
  BY DEF Tick, PollInv, TypeOK
<1>2. \A p \in Pollers : Holding(p) =>
        /\ poller[p].held + 1 < LeaseLength
        /\ poller[p].held + 1 \in 0..(PollTimeout + LeaseMargin)
  BY <1>1, Times DEF Tick, InTime, Threads
<1>3. \A p \in Pollers :
        /\ poller'[p] \in Threads
        /\ poller'[p].at = poller[p].at /\ poller'[p].atm = poller[p].atm
        /\ poller'[p].held = IF Holding(p) THEN poller[p].held + 1 ELSE poller[p].held
  BY <1>1, <1>2 DEF Threads
<1>4. \A p \in Pollers : Holding(p)' <=> Holding(p)
  BY <1>3 DEF Holding
<1>5. /\ lease \in [Atms -> 0..(PollTimeout + LeaseMargin)]
      /\ lease' = [d \in Atms |-> IF lease[d] > 0 THEN lease[d] - 1 ELSE 0]
  BY DEF Tick, PollInv, TypeOK
<1>6. LeaseOfHolder'
  <2>1. SUFFICES ASSUME NEW p \in Pollers, Holding(p)
                 PROVE  /\ lease'[poller'[p].atm] + poller'[p].held = LeaseLength
                        /\ poller'[p].held < LeaseLength
    BY <1>4 DEF LeaseOfHolder, LeaseLength
  <2>2. poller[p].atm \in Atms /\ poller[p].held \in Nat
    BY <2>1, <1>1 DEF Holding, PollInv, TypeOK, Threads
  <2>3. lease[poller[p].atm] + poller[p].held = LeaseLength
    BY <2>1 DEF PollInv, LeaseOfHolder
  <2>4. lease[poller[p].atm] \in Nat /\ lease[poller[p].atm] > 0
    BY <2>1, <2>2, <2>3, <1>2, <1>5, Times
  <2>5. lease'[poller[p].atm] = lease[poller[p].atm] - 1
    BY <2>2, <2>4, <1>5
  <2> QED BY <2>1, <2>2, <2>3, <2>4, <2>5, <1>2, <1>3, Times
<1>7. OnePollPerAtm'
  BY <1>3, <1>4 DEF PollInv, OnePollPerAtm
<1>8. lease' \in [Atms -> 0..(PollTimeout + LeaseMargin)]
  BY <1>5, Times
<1>9. clock' \in 0..(Interval - 1)
  BY IntervalAssumption DEF Tick, PollInv, TypeOK
<1>10. age' \in [Atms -> 0..Interval]
  BY IntervalAssumption DEF Tick, PollInv, TypeOK
<1>11. UNCHANGED <<known, linked, due, in_flight, queue, budget>> /\ passed' \in BOOLEAN
  BY DEF Tick
<1>12. poller' \in [Pollers -> Threads]
  BY <1>1, <1>3
<1>13. \A q \in Pollers : poller'[q].at # "idle" => poller'[q].atm \in Atms
  BY <1>3 DEF PollInv, TypeOK
<1>14. TypeOK'
  BY <1>8, <1>9, <1>10, <1>11, <1>12, <1>13 DEF PollInv, TypeOK
<1> QED BY <1>6, <1>7, <1>14 DEF PollInv

LEMMA StutterStep ==
    ASSUME PollInv, UNCHANGED vars
    PROVE  PollInv'
  BY DEF vars, PollInv, TypeOK, LeaseOfHolder, OnePollPerAtm, Holding, LeaseLength

-----------------------------------------------------------------------------
(* The lease does its work, whatever the interleaving of pool, users,      *)
(* clock and deaths of the poller: PollInv is invariant.                   *)
THEOREM PollInvariant == Spec => []PollInv
<1>1. Init => PollInv
  BY InitInv
<1>2. PollInv /\ [Next]_vars => PollInv'
  <2> SUFFICES ASSUME PollInv, [Next]_vars PROVE PollInv'
    OBVIOUS
  <2>1. CASE \/ Fetch \/ FetchFails \/ ListDevices
             \/ \E d \in Atms : Submit(d) \/ Identify(d) \/ IdentifyUnstored(d) \/ Disconnect(d)
    BY <2>1, SchedulerStep
  <2>2. CASE (\E w \in Pool : Take(w)) \/ (\E u \in Users, d \in Atms : PollByHand(u, d))
    BY <2>2, StartStep
  <2>3. ASSUME NEW p \in Pollers, Works(p) \/ Fail(p) \/ FailUnreleased(p) PROVE PollInv'
    BY <2>3, AcquireStep, WorkStep, FinishStep DEF Works
  <2>4. CASE Crash
    BY <2>4, CrashStep
  <2>5. CASE Tick
    BY <2>5, TickStep
  <2>6. CASE UNCHANGED vars
    BY <2>6, StutterStep
  <2> QED BY <2>1, <2>2, <2>3, <2>4, <2>5, <2>6 DEF Next
<1> QED BY <1>1, <1>2, PTL DEF Spec

(* No lease is ever longer than the request and its margin: a poller that  *)
(* dies holding one delays a device no longer than that.                   *)
THEOREM PollTypes == Spec => []TypeOK
<1>1. PollInv => TypeOK
  BY DEF PollInv
<1> QED BY <1>1, PollInvariant, PTL

(* A device is never polled by two threads at once.                        *)
THEOREM OnePollAtATime == Spec => []OnePollPerAtm
<1>1. PollInv => OnePollPerAtm
  BY DEF PollInv
<1> QED BY <1>1, PollInvariant, PTL

(* Whoever holds a lease holds all that is left of it.                     *)
THEOREM LeaseAlwaysOfHolder == Spec => []LeaseOfHolder
<1>1. PollInv => LeaseOfHolder
  BY DEF PollInv
<1> QED BY <1>1, PollInvariant, PTL

-----------------------------------------------------------------------------
(* Steps of a thread of its own that do not begin or end its work.         *)
LEMMA SubmittedFrame ==
    ASSUME SubmittedOnce, UNCHANGED <<queue, in_flight>>,
           \A w \in Pool : (poller'[w].at = "idle" <=> poller[w].at = "idle")
                          /\ poller'[w].atm = poller[w].atm
    PROVE  SubmittedOnce'
  BY DEF SubmittedOnce, WorksOn, Waits

LEMMA SubmitStep ==
    ASSUME PollInv, SubmittedOnce, NEW d \in Atms, Submit(d)
    PROVE  SubmittedOnce'
<1>1. UNCHANGED poller
  BY DEF Submit
<1>2. CASE ~Submittable(d)
  BY <1>1, <1>2, SubmittedFrame DEF Submit
<1>3. CASE Submittable(d)
  <2>1. in_flight' = in_flight \cup {d} /\ queue' = Append(queue, d) /\ d \notin in_flight
    BY <1>3 DEF Submit, Submittable
  <2>2. queue \in Seq(Atms)
    BY DEF PollInv, TypeOK
  <2>3. /\ Len(queue') = Len(queue) + 1 /\ Len(queue) \in Nat
        /\ \A i \in 1..Len(queue) : queue'[i] = queue[i]
        /\ queue'[Len(queue) + 1] = d
    BY <2>1, <2>2
  <2>4. ~Waits(d) /\ \A w \in Pool : ~WorksOn(w, d)
    BY <2>1 DEF SubmittedOnce
  <2>5. \A e \in Atms : Waits(e)' <=> Waits(e) \/ e = d
    BY <2>3 DEF Waits
  <2>6. \A i, j \in 1..Len(queue') : queue'[i] = queue'[j] => i = j
    BY <2>3, <2>4 DEF SubmittedOnce, Waits
  <2>7. \A w \in Pool, e \in Atms : WorksOn(w, e)' <=> WorksOn(w, e)
    BY <1>1 DEF WorksOn
  <2> QED BY <2>1, <2>4, <2>5, <2>6, <2>7 DEF SubmittedOnce
<1> QED BY <1>2, <1>3

LEMMA TakeStep ==
    ASSUME PollInv, SubmittedOnce, NEW w \in Pool, Take(w)
    PROVE  SubmittedOnce'
<1> DEFINE d == Head(queue)
<1>1. /\ queue \in Seq(Atms) /\ queue # << >> /\ queue' = Tail(queue)
      /\ poller \in [Pollers -> Threads] /\ w \in Pollers
  BY DEF Take, PollInv, TypeOK, Pollers
<1>2. d \in Atms /\ d = queue[1] /\ Len(queue) \in Nat /\ Len(queue) > 0
  BY <1>1
<1>3. Len(queue') = Len(queue) - 1 /\ \A i \in 1..Len(queue') : queue'[i] = queue[i + 1]
  BY <1>1, <1>2
<1>4. /\ poller'[w].at = "starting" /\ poller'[w].atm = d
      /\ \A v \in Pollers : v # w => poller'[v] = poller[v]
  BY <1>1, <1>2, StartTypes DEF Take, Stages
<1>5. Waits(d)
  BY <1>2 DEF Waits
<1>6. \A i, j \in 1..Len(queue') : queue'[i] = queue'[j] => i = j
  <2>1. SUFFICES ASSUME NEW i \in 1..Len(queue'), NEW j \in 1..Len(queue'), queue'[i] = queue'[j]
                 PROVE  i = j
    OBVIOUS
  <2>2. i + 1 \in 1..Len(queue) /\ j + 1 \in 1..Len(queue) /\ queue[i + 1] = queue[j + 1]
    BY <2>1, <1>2, <1>3
  <2>3. i + 1 = j + 1
    BY <2>2 DEF SubmittedOnce
  <2> QED BY <2>3, <1>2, <1>3
<1>7. \A e \in Atms : Waits(e)' <=> Waits(e) /\ e # d
  <2>1. \A e \in Atms : Waits(e)' => Waits(e) /\ e # d
    BY <1>2, <1>3 DEF Waits, SubmittedOnce
  <2>2. ASSUME NEW e \in Atms, Waits(e), e # d PROVE Waits(e)'
    <3>1. PICK i \in 1..Len(queue) : queue[i] = e
      BY <2>2 DEF Waits
    <3>2. i # 1
      BY <3>1, <2>2, <1>2
    <3>3. i - 1 \in 1..Len(queue') /\ queue'[i - 1] = e
      BY <3>1, <3>2, <1>2, <1>3
    <3> QED BY <3>3 DEF Waits
  <2> QED BY <2>1, <2>2
<1>8. \A v \in Pool, e \in Atms : WorksOn(v, e)' <=> WorksOn(v, e) \/ (v = w /\ e = d)
  <2>1. poller[w].at = "idle"
    BY DEF Take
  <2> QED BY <2>1, <1>4 DEF WorksOn, Pollers
<1>9. UNCHANGED in_flight
  BY DEF Take
<1> QED BY <1>2, <1>5, <1>6, <1>7, <1>8, <1>9 DEF SubmittedOnce

LEMMA ForgetStep ==
    ASSUME PollInv, SubmittedOnce, NEW p \in Pollers, Finish(p)
    PROVE  SubmittedOnce'
<1>1. /\ poller' = [poller EXCEPT ![p] = Idle] /\ queue' = queue
      /\ poller \in [Pollers -> Threads] /\ poller[p].at = "done"
  BY DEF Finish, PollInv, TypeOK
<1>2. \A q \in Pollers : q # p => poller'[q] = poller[q]
  BY <1>1
<1>3. CASE p \in Pool
  <2>1. poller'[p].at = "idle" /\ in_flight' = in_flight \ {poller[p].atm}
    BY <1>1, <1>3, IdleTypes DEF Finish, Forgotten
  <2>2. \A w \in Pool, d \in Atms : WorksOn(w, d)' <=> WorksOn(w, d) /\ w # p
    BY <2>1, <1>2 DEF WorksOn, Pollers
  <2>3. \A d \in Atms : WorksOn(p, d) <=> d = poller[p].atm
    BY <1>1 DEF WorksOn
  <2>4. \A d \in Atms : Waits(d)' <=> Waits(d)
    BY <1>1 DEF Waits
  <2> QED BY <2>1, <2>2, <2>3, <2>4, <1>1, <1>3 DEF SubmittedOnce
<1>4. CASE p \notin Pool
  <2>1. \A w \in Pool : poller'[w] = poller[w]
    BY <1>2, <1>4 DEF Pollers
  <2>2. in_flight' = in_flight
    BY <1>4 DEF Finish
  <2> QED BY <1>1, <2>1, <2>2, SubmittedFrame
<1> QED BY <1>3, <1>4

LEMMA ForgetAllStep ==
    ASSUME PollInv, SubmittedOnce, Crash
    PROVE  SubmittedOnce'
<1>1. in_flight' = {} /\ queue' = << >>
  BY DEF Crash
<1>2. \A w \in Pool : poller'[w].at = "idle"
  BY IdleTypes DEF Crash, Pollers
<1>3. \A d \in Atms : ~Waits(d)'
  BY <1>1 DEF Waits
<1>4. \A i, j \in 1..Len(queue') : queue'[i] = queue'[j] => i = j
  BY <1>1
<1> QED BY <1>1, <1>2, <1>3, <1>4 DEF SubmittedOnce, WorksOn

(* The steps of a poll, and of one by hand, do not touch the executor.     *)
LEMMA PollStep ==
    ASSUME PollInv, SubmittedOnce, NEW p \in Pollers,
           \/ Acquire(p) \/ Answer(p) \/ Record(p) \/ Fail(p) \/ FailUnreleased(p) \/ Release(p)
           \/ p \in Users /\ \E d \in Atms : PollByHand(p, d)
    PROVE  SubmittedOnce'
<1>1. UNCHANGED <<queue, in_flight>>
  BY DEF Acquire, Answer, Record, Fail, FailUnreleased, Release, PollByHand, scheduler
<1>2. poller \in [Pollers -> Threads]
  BY DEF PollInv, TypeOK
<1>3. CASE p \in Users /\ \E d \in Atms : PollByHand(p, d)
  <2>1. p \notin Pool
    BY <1>3, PoolAssumption
  <2>2. \A w \in Pool : poller'[w] = poller[w]
    BY <1>2, <1>3, <2>1 DEF PollByHand, Pollers
  <2> QED BY <1>1, <2>2, SubmittedFrame
<1>4. CASE Acquire(p) \/ Answer(p) \/ Record(p) \/ Fail(p) \/ FailUnreleased(p) \/ Release(p)
  <2>1. poller[p].at # "idle" /\ poller[p].atm \in Atms
    BY <1>4 DEF Acquire, Answer, Record, Fail, FailUnreleased, Release, PollInv, TypeOK
  <2>2. /\ poller'[p].at # "idle" /\ poller'[p].atm = poller[p].atm
        /\ \A q \in Pollers : q # p => poller'[q] = poller[q]
    <3>1. CASE poller' = [poller EXCEPT ![p] = [at |-> "asking", atm |-> poller[p].atm, held |-> 0]]
      BY <3>1, <2>1, <1>2, StartTypes DEF Stages
    <3>2. CASE \E stage \in {"answered", "recorded", "done"} : poller' = Moved(p, stage)
      BY <3>2, <1>2, MovedTypes DEF Stages
    <3> QED BY <3>1, <3>2, <1>4 DEF Acquire, Answer, Record, Fail, FailUnreleased, Release
  <2>3. \A w \in Pool : (poller'[w].at = "idle" <=> poller[w].at = "idle")
                        /\ poller'[w].atm = poller[w].atm
    BY <2>1, <2>2 DEF Pollers
  <2> QED BY <1>1, <2>3, SubmittedFrame
<1> QED BY <1>3, <1>4

(* The clock changes how long a lease has been held, nothing else.         *)
LEMMA WaitStep ==
    ASSUME PollInv, SubmittedOnce, Tick
    PROVE  SubmittedOnce'
<1>1. UNCHANGED <<queue, in_flight>>
  BY DEF Tick
<1>2. \A w \in Pool : poller'[w].at = poller[w].at /\ poller'[w].atm = poller[w].atm
  <2>1. /\ poller \in [Pollers -> Threads]
        /\ poller' = [p \in Pollers |->
                         IF Holding(p) THEN [poller[p] EXCEPT !.held = @ + 1] ELSE poller[p]]
    BY DEF Tick, PollInv, TypeOK
  <2>2. \A p \in Pollers : poller[p] \in Threads /\ poller'[p] \in {poller[p], [poller[p] EXCEPT !.held = @ + 1]}
    BY <2>1
  <2>3. \A t \in Threads : [t EXCEPT !.held = @ + 1].at = t.at /\ [t EXCEPT !.held = @ + 1].atm = t.atm
    BY DEF Threads
  <2> QED BY <2>2, <2>3 DEF Pollers
<1> QED BY <1>1, <1>2, SubmittedFrame

(* For any size of the pool and of its limit the executor has a device at  *)
(* most once, and in_flight is what it has.                                *)
THEOREM ExecutorHasItOnce == Spec => []SubmittedOnce
<1>1. Init => SubmittedOnce
  <2> SUFFICES ASSUME Init PROVE SubmittedOnce
    OBVIOUS
  <2>1. queue = << >> /\ in_flight = {}
    BY DEF Init
  <2>2. \A w \in Pool : poller[w].at = "idle"
    BY IdleTypes DEF Init, Pollers
  <2>3. \A d \in Atms : ~Waits(d)
    BY <2>1 DEF Waits
  <2>4. \A i, j \in 1..Len(queue) : queue[i] = queue[j] => i = j
    BY <2>1
  <2> QED BY <2>1, <2>2, <2>3, <2>4 DEF SubmittedOnce, WorksOn
<1>2. PollInv /\ SubmittedOnce /\ [Next]_vars => SubmittedOnce'
  <2> SUFFICES ASSUME PollInv, SubmittedOnce, [Next]_vars PROVE SubmittedOnce'
    OBVIOUS
  <2>1. CASE Fetch \/ FetchFails \/ ListDevices
             \/ (\E d \in Atms : Identify(d) \/ IdentifyUnstored(d) \/ Disconnect(d))
             \/ UNCHANGED vars
    <3>1. UNCHANGED <<queue, in_flight, poller>>
      BY <2>1 DEF Fetch, FetchFails, ListDevices, Identify, IdentifyUnstored, Disconnect, scheduler, vars
    <3> QED BY <3>1, SubmittedFrame
  <2>2. CASE \E d \in Atms : Submit(d)
    BY <2>2, SubmitStep
  <2>3. CASE \E w \in Pool : Take(w)
    BY <2>3, TakeStep
  <2>4. CASE \E u \in Users, d \in Atms : PollByHand(u, d)
    BY <2>4, PollStep DEF Pollers
  <2>5. ASSUME NEW p \in Pollers, Works(p) \/ Fail(p) \/ FailUnreleased(p) PROVE SubmittedOnce'
    BY <2>5, PollStep, ForgetStep DEF Works
  <2>6. CASE Crash
    BY <2>6, ForgetAllStep
  <2>7. CASE Tick
    BY <2>7, WaitStep
  <2> QED BY <2>1, <2>2, <2>3, <2>4, <2>5, <2>6, <2>7 DEF Next
<1> QED BY <1>1, <1>2, PollInvariant, PTL DEF Spec
=============================================================================
