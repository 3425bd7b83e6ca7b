----------------------------- MODULE IrzPolling -----------------------------
(***************************************************************************)
(* Polling the meters behind the ATM21 modems: the scheduler thread of the *)
(* irz-poller process and its pool (scheduler.py), the manual polls of the *)
(* web workers, and the poll lease in irz_devices that keeps them apart    *)
(* (poll_device in service.py).  What a poll reads is left to the gateway: *)
(* here it is answered, refused or given up.                               *)
(*                                                                         *)
(* Time is a clock of ticks modulo the interval.  A lease is the ticks it  *)
(* has left; the time of the last poll is its age, and an age of Interval  *)
(* stands for anything older or for a device never polled.                 *)
(***************************************************************************)
EXTENDS PollSchedule, Sequences

CONSTANTS
    Pool,             \* threads of the executor: IRZ_POLL_WORKERS
    InFlightLimit,    \* workers * 4
    Users,            \* web workers that poll on a user's request
    PollTimeout,      \* IRZ_POLL_TIMEOUT_SECONDS, in ticks
    LeaseMargin,      \* the 30 seconds that a lease adds to it
    ManualBudget,     \* bounds: manual polls, polls that end with an
    FailBudget,       \* exception, deaths of the poller process, modems that
    CrashBudget,      \* appear or disappear
    LinkBudget

ASSUME PoolAssumption == Pool \cap Users = {} /\ IsFiniteSet(Pool \cup Users)
ASSUME LimitAssumption == InFlightLimit \in Nat \ {0}
ASSUME TimesAssumption == PollTimeout \in Nat \ {0} /\ LeaseMargin \in Nat \ {0}
ASSUME BudgetsAssumption == /\ ManualBudget \in Nat /\ FailBudget \in Nat
                            /\ CrashBudget \in Nat /\ LinkBudget \in Nat

VARIABLES
    clock,       \* timestamp % Interval
    known,       \* devices with a row in irz_devices
    linked,      \* devices the modem gateway lists as connected
    age,         \* ticks since last_polled_at
    lease,       \* ticks until poll_lock_until, 0 when it is NULL or past
    due,         \* what is left of the scheduler's present pass
    passed,      \* it has made a pass since the last tick
    in_flight,   \* devices handed to the executor and not finished
    queue,       \* the executor's queue
    poller,      \* what each thread does
    budget       \* what is left of the bounds

vars == <<clock, known, linked, age, lease, due, passed, in_flight, queue, poller, budget>>
rows == <<known, age, lease>>
scheduler == <<due, passed, in_flight, queue>>

Pollers == Pool \cup Users
NoAtm == -1

(* The lease outlives the request by the margin.  The mutants forget it,   *)
(* or wait for the answer twice.                                           *)
ShortLease == PollTimeout
DoubleLease == 2 * PollTimeout + LeaseMargin
LeaseLength == PollTimeout + LeaseMargin

(* A thread is between _acquire_poll_lease and _release_poll_lease while it*)
(* is asking, answered or recorded; `held` counts the ticks since then.    *)
Stages == {"idle", "starting", "asking", "answered", "recorded", "done"}
Threads == [at : Stages, atm : Atms \cup {NoAtm}, held : 0..(PollTimeout + LeaseMargin)]
Idle == [at |-> "idle", atm |-> NoAtm, held |-> 0]
Holding(p) == poller[p].at \in {"asking", "answered", "recorded"}

Budgets == [manual : Nat, fail : Nat, crash : Nat, link : Nat]

TypeOK ==
    /\ clock \in 0..(Interval - 1)
    /\ known \in SUBSET Atms /\ linked \in SUBSET Atms
    /\ age \in [Atms -> 0..Interval]
    /\ lease \in [Atms -> 0..(PollTimeout + LeaseMargin)]
    /\ due \in SUBSET Atms /\ passed \in BOOLEAN
    /\ in_flight \in SUBSET Atms /\ queue \in Seq(Atms)
    /\ poller \in [Pollers -> Threads]
    /\ \A p \in Pollers : poller[p].at # "idle" => poller[p].atm \in Atms
    /\ budget \in Budgets

Init ==
    /\ clock = 0
    /\ known = {} /\ linked = {}
    /\ age = [d \in Atms |-> Interval]
    /\ lease = [d \in Atms |-> 0]
    /\ due = {} /\ passed = FALSE /\ in_flight = {} /\ queue = << >>
    /\ poller = [p \in Pollers |-> Idle]
    /\ budget = [manual |-> ManualBudget, fail |-> FailBudget,
                 crash |-> CrashBudget, link |-> LinkBudget]

---------------------------------------------------------------------------
(* due_devices: known and connected, and last polled before its slot began.*)
Elapsed(d) == clock - SlotStart(clock, Offset(d, known))
Due(d) == d \in known /\ d \in linked /\ age[d] > Elapsed(d)

(* run_loop, the head of a pass: ask the gateway for what is connected and *)
(* the table for what is due.  When either fails the pass is empty.        *)
Fetch ==
    /\ ~passed
    /\ due' = {d \in Atms : Due(d)}
    /\ passed' = TRUE
    /\ UNCHANGED <<clock, linked, rows, in_flight, queue, poller, budget>>

FetchFails ==
    /\ ~passed
    /\ budget.fail > 0
    /\ budget' = [budget EXCEPT !.fail = @ - 1]
    /\ passed' = TRUE
    /\ UNCHANGED <<clock, linked, rows, due, in_flight, queue, poller>>

(* ... and for each, in IMEI order, unless it or too many are in flight.   *)
(* Neither the row nor the clock is looked at again.                       *)
SubmittableAgain(d) == Cardinality(in_flight) < InFlightLimit
Submittable(d) == d \notin in_flight /\ Cardinality(in_flight) < InFlightLimit

Submit(d) ==
    /\ d \in due /\ \A e \in due : d <= e
    /\ due' = due \ {d}
    /\ IF Submittable(d)
       THEN in_flight' = in_flight \cup {d} /\ queue' = Append(queue, d)
       ELSE UNCHANGED <<in_flight, queue>>
    /\ UNCHANGED <<clock, linked, rows, passed, poller, budget>>

(* A pool thread takes the next device; a user asks for a poll by hand.    *)
Take(w) ==
    /\ poller[w].at = "idle" /\ queue # << >>
    /\ queue' = Tail(queue)
    /\ poller' = [poller EXCEPT ![w] = [at |-> "starting", atm |-> Head(queue), held |-> 0]]
    /\ UNCHANGED <<clock, linked, rows, due, passed, in_flight, budget>>

PollByHand(u, d) ==
    /\ poller[u].at = "idle" /\ d \in known
    /\ budget.manual > 0
    /\ budget' = [budget EXCEPT !.manual = @ - 1]
    /\ poller' = [poller EXCEPT ![u] = [at |-> "starting", atm |-> d, held |-> 0]]
    /\ UNCHANGED <<clock, linked, rows, scheduler>>

---------------------------------------------------------------------------
(* poll_device.  _acquire_poll_lease is one conditional UPDATE: it finds   *)
(* the lease NULL or past, or the poll is refused (POLL_IN_PROGRESS).      *)
Moved(p, stage) == [poller EXCEPT ![p].at = stage]
NearlyUnleased(d) == lease[d] <= 1
Unleased(d) == lease[d] = 0

Acquire(p) ==
    LET d == poller[p].atm
    IN  /\ poller[p].at = "starting"
        /\ IF Unleased(d)
           THEN /\ lease' = [lease EXCEPT ![d] = LeaseLength]
                /\ poller' = [poller EXCEPT ![p] = [at |-> "asking", atm |-> d, held |-> 0]]
           ELSE /\ poller' = Moved(p, "done")
                /\ UNCHANGED lease
        /\ UNCHANGED <<clock, known, linked, age, scheduler, budget>>

(* The gateway answers, refuses, or the request times out after            *)
(* PollTimeout: in each case there is something to record.                 *)
Answer(p) ==
    /\ poller[p].at = "asking"
    /\ poller' = Moved(p, "answered")
    /\ UNCHANGED <<clock, linked, rows, scheduler, budget>>

(* _record_poll: the values, or the failure, and last_polled_at. *)
Record(p) ==
    /\ poller[p].at = "answered"
    /\ age' = [age EXCEPT ![poller[p].atm] = 0]
    /\ poller' = Moved(p, "recorded")
    /\ UNCHANGED <<clock, known, linked, lease, scheduler, budget>>

(* Any other exception (an answer that is not JSON, values that cannot be  *)
(* applied): the lease is released, and the commit that releases it makes  *)
(* permanent what _record_poll had assigned, last_polled_at first.         *)
Fail(p) ==
    /\ poller[p].at \in {"asking", "answered"}
    /\ budget.fail > 0
    /\ budget' = [budget EXCEPT !.fail = @ - 1]
    /\ \/ age' = age
       \/ poller[p].at = "answered" /\ age' = [age EXCEPT ![poller[p].atm] = 0]
    /\ poller' = Moved(p, "recorded")
    /\ UNCHANGED <<clock, known, linked, lease, scheduler>>

(* The database refuses the record: the session needs a rollback before it *)
(* releases anything, so that the lease is left to run out.                *)
FailUnreleased(p) ==
    /\ poller[p].at = "answered"
    /\ budget.fail > 0
    /\ budget' = [budget EXCEPT !.fail = @ - 1]
    /\ poller' = Moved(p, "done")
    /\ UNCHANGED <<clock, linked, rows, scheduler>>

(* _release_poll_lease sets NULL whoever's lease it is. *)
Release(p) ==
    /\ poller[p].at = "recorded"
    /\ lease' = [lease EXCEPT ![poller[p].atm] = 0]
    /\ poller' = Moved(p, "done")
    /\ UNCHANGED <<clock, known, linked, age, scheduler, budget>>

(* The request has its response; the pool thread forgets the device. *)
NotForgotten(w) == in_flight
Forgotten(w) == in_flight \ {poller[w].atm}

Finish(p) ==
    /\ poller[p].at = "done"
    /\ in_flight' = IF p \in Pool THEN Forgotten(p) ELSE in_flight
    /\ poller' = [poller EXCEPT ![p] = Idle]
    /\ UNCHANGED <<clock, linked, rows, due, passed, queue, budget>>

---------------------------------------------------------------------------
(* The gateway identifies a modem and its callback upserts the row; a new  *)
(* one shifts the offsets of the others.  When that fails the list and the *)
(* directory pages upsert what they find connected.  A link is lost.       *)
Identify(d) ==
    /\ d \notin linked /\ budget.link > 0
    /\ linked' = linked \cup {d}
    /\ known' = known \cup {d}
    /\ budget' = [budget EXCEPT !.link = @ - 1]
    /\ UNCHANGED <<clock, age, lease, scheduler, poller>>

IdentifyUnstored(d) ==
    /\ d \notin linked /\ budget.link > 0 /\ budget.fail > 0
    /\ linked' = linked \cup {d}
    /\ budget' = [budget EXCEPT !.link = @ - 1, !.fail = @ - 1]
    /\ UNCHANGED <<clock, rows, scheduler, poller>>

ListDevices ==
    /\ ~(linked \subseteq known)
    /\ known' = known \cup linked
    /\ UNCHANGED <<clock, linked, age, lease, scheduler, poller, budget>>

Disconnect(d) ==
    /\ d \in linked /\ budget.link > 0
    /\ linked' = linked \ {d}
    /\ budget' = [budget EXCEPT !.link = @ - 1]
    /\ UNCHANGED <<clock, rows, scheduler, poller>>

(* The poller process dies in the middle of anything and is started again  *)
(* with nothing in memory; the leases it held stay in the table.           *)
Crash ==
    /\ budget.crash > 0
    /\ budget' = [budget EXCEPT !.crash = @ - 1]
    /\ due' = {} /\ passed' = FALSE /\ in_flight' = {} /\ queue' = << >>
    /\ poller' = [p \in Pollers |-> IF p \in Pool THEN Idle ELSE poller[p]]
    /\ UNCHANGED <<clock, linked, rows>>

(* A tick is the second that run_loop sleeps between two passes.  A pass   *)
(* and the steps of a thread take less, but for the request, which has     *)
(* ended by PollTimeout, and the record of what it brought, which is made  *)
(* within the margin.                                                      *)
InTime(p) ==
    /\ poller[p].at \notin {"starting", "done"}
    /\ poller[p].at = "asking" => poller[p].held < PollTimeout
    /\ Holding(p) => poller[p].held + 1 < PollTimeout + LeaseMargin

Tick ==
    /\ \A p \in Pollers : InTime(p)
    /\ passed /\ due = {}
    /\ queue = << >> \/ \A w \in Pool : poller[w].at # "idle"
    /\ clock' = (clock + 1) % Interval
    /\ age' = [d \in Atms |-> IF age[d] < Interval THEN age[d] + 1 ELSE Interval]
    /\ lease' = [d \in Atms |-> IF lease[d] > 0 THEN lease[d] - 1 ELSE 0]
    /\ poller' = [p \in Pollers |->
                    IF Holding(p) THEN [poller[p] EXCEPT !.held = @ + 1] ELSE poller[p]]
    /\ passed' = FALSE
    /\ UNCHANGED <<known, linked, due, in_flight, queue, budget>>

---------------------------------------------------------------------------
Works(p) == Acquire(p) \/ Answer(p) \/ Record(p) \/ Release(p) \/ Finish(p)

Next ==
    \/ Fetch \/ FetchFails
    \/ \E d \in Atms : Submit(d) \/ Identify(d) \/ IdentifyUnstored(d) \/ Disconnect(d)
    \/ ListDevices
    \/ \E w \in Pool : Take(w)
    \/ \E u \in Users, d \in Atms : PollByHand(u, d)
    \/ \E p \in Pollers : Works(p) \/ Fail(p) \/ FailUnreleased(p)
    \/ Crash
    \/ Tick

Spec == Init /\ [][Next]_vars

(* The clock moves, the scheduler loops, threads run to their end: each    *)
(* wait in them has a timeout, and docker restarts the process.            *)
Fairness ==
    /\ WF_vars(Tick)
    /\ WF_vars(Fetch) /\ WF_vars(\E d \in Atms : Submit(d))
    /\ \A w \in Pool : WF_vars(Take(w))
    /\ \A p \in Pollers : WF_vars(Works(p))

FairSpec == Spec /\ Fairness

---------------------------------------------------------------------------
(* One poll of a device at a time: two threads, of the pool or of the web, *)
(* are never both between acquiring and releasing the lease of a device,   *)
(* although the release is unconditional and the lease may run out.        *)
OnePollPerAtm ==
    \A p, q \in Pollers :
        Holding(p) /\ Holding(q) /\ poller[p].atm = poller[q].atm => p = q

(* Its inductive form: a thread that holds a lease holds all of what is    *)
(* left of it.                                                             *)
LeaseOfHolder ==
    \A p \in Pollers : Holding(p) =>
        /\ lease[poller[p].atm] + poller[p].held = LeaseLength
        /\ poller[p].held < LeaseLength

(* The executor has a device at most once, in its queue or with a thread,  *)
(* and in_flight knows exactly which.                                      *)
WorksOn(w, d) == poller[w].at # "idle" /\ poller[w].atm = d
Waits(d) == \E i \in 1..Len(queue) : queue[i] = d
SubmittedOnce ==
    /\ \A i, j \in 1..Len(queue) : queue[i] = queue[j] => i = j
    /\ \A w, v \in Pool, d \in Atms : WorksOn(w, d) /\ WorksOn(v, d) => w = v
    /\ \A w \in Pool, d \in Atms : ~(WorksOn(w, d) /\ Waits(d))
    /\ \A d \in Atms : d \in in_flight <=> Waits(d) \/ \E w \in Pool : WorksOn(w, d)

(* A device that stays connected gets its turn: one that is due is polled, *)
(* whatever fails and whichever process dies meanwhile with its lease.     *)
BeingPolled(d) == \E p \in Pollers : Holding(p) /\ poller[p].atm = d
DueIsPolled == \A d \in Atms : Due(d) ~> BeingPolled(d) \/ ~Due(d)

(* "A device is due once its current slot has started and it has not been  *)
(* polled since" (docs/IRZ_MERCURY.md): what the pool polls was due.       *)
PolledWasDue ==
    [][\A w \in Pool, d \in Atms :
          poller[w].at = "starting" /\ poller[w].atm = d /\ poller'[w].at = "asking"
          => age[d] > Elapsed(d)]_vars
=============================================================================
