------------------------------ MODULE InputTest ------------------------------
(***************************************************************************)
(* The input test of a board: which bit of the raw inputs U2 and U3 a      *)
(* connector's pin drives.  The operator starts a test of a pin, waits for *)
(* a steady baseline, switches the pin and marks it; the samples after the *)
(* mark decide, and a single changed bit can be confirmed into the map.    *)
(*                                                                         *)
(* The test is a JSON column of the device.  The gateway, one transaction  *)
(* per STATE, and every request of the web read the whole of it, change    *)
(* the copy and write it back: reading and commit are two steps.  A        *)
(* request whose write does not depend on what it has read is one step,    *)
(* its commit; one that writes what it has read is no UPDATE and no step.  *)
(*                                                                         *)
(* Left out: the list of transitions, which decides nothing, and levels.   *)
(***************************************************************************)
EXTENDS Naturals, Sequences, FiniteSets

CONSTANTS
    Pins,             \* pins of the connectors
    PilotPins,        \* those that migration 066 confirms for the pilot board
    Bits,             \* bits of U2 and U3
    Handlers,         \* requests the web serves at once
    StableSamples,    \* STABLE_SAMPLES
    None,
    MaxWire,          \* bounds: STATE frames on their way, tests, marks,
    MaxTests,         \* requests that save the map, changes of the inputs,
    Marks,            \* faults (a frame without U2 or U3, a death of the
    Saves,            \* gateway)
    Flips,
    Faults

ASSUME BitsAssumption == IsFiniteSet(Bits)
ASSUME SamplesAssumption == StableSamples \in Nat \ {0}
ASSUME PilotAssumption == PilotPins \subseteq Pins
ASSUME NoneAssumption == None \notin Pins \cup Bits
ASSUME BoundsAssumption ==
    \A n \in {MaxWire, MaxTests, Marks, Saves, Flips, Faults} : n \in Nat

VARIABLES
    inputs,      \* the levels at the board's inputs
    wire,        \* STATE frames on their way to the gateway
    session,     \* input_test_session
    log,         \* device_input_test_logs, the oldest first
    map,         \* phase_input_map: the confirmed bit of each pin
    sample,      \* the transaction of the gateway
    request,     \* the transactions of the web
    tests,       \* tests started (a bound, and started_at)
    changedIn,   \* history: the bits that have changed since each start,
    late,        \* the frames that were on their way then, and the bits that
    entered,     \* a form or the migration has confirmed, with their pins
    left         \* what is left of the bounds

testVars == <<session, log, map>>
boardVars == <<inputs, wire, changedIn>>
inputVars == <<testVars, boardVars, late, entered, sample, request, tests, left>>

Readings == [Bits -> BOOLEAN]
Phases == {"baseline", "armed", "after", "done"}
Sessions == [test : 1..MaxTests, pin : Pins, phase : Phases,
             baseline : Seq(Readings), after : Seq(Readings),
             changed : SUBSET Bits, saved : BOOLEAN]
Entries == [test : 1..MaxTests, pin : Pins, changed : SUBSET Bits]
Maps == [Pins -> Bits \cup {None}]

NoSample == [busy |-> FALSE, read |-> None, written |-> None]
NoRequest == [op |-> "idle", session |-> None, map |-> [p \in Pins |-> None]]

-----------------------------------------------------------------------------
(* Samples *)

Same(samples) ==
    /\ Len(samples) >= StableSamples
    /\ \A i \in Len(samples) - StableSamples + 1 .. Len(samples) :
         samples[i] = samples[Len(samples)]

Newest(samples) ==
    IF Len(samples) <= StableSamples THEN samples
    ELSE SubSeq(samples, Len(samples) - StableSamples + 1, Len(samples))

Unanimous(samples, b) ==
    /\ Len(samples) >= StableSamples
    /\ \A i \in 1..StableSamples : samples[i][b] = samples[1][b]

(* stable_diff                                                             *)
StableDiff(baseline, after) ==
    {b \in Bits : /\ Unanimous(baseline, b) /\ Unanimous(after, b)
                  /\ baseline[1][b] # after[1][b]}

(* apply_input_test_sample, with the `saved` that the gateway adds.  The   *)
(* mutant of Enough asks for one sample more than are kept.                *)
MoreThanEnough(samples) == Len(samples) > StableSamples
Enough(samples) == Len(samples) >= StableSamples

Finished(s) ==
    IF Enough(s.after)
    THEN [s EXCEPT !.phase = "done", !.saved = TRUE,
                   !.changed = StableDiff(s.baseline, s.after)]
    ELSE s

Collected(s, reading) ==
    IF Len(s.after) < StableSamples THEN Append(s.after, reading) ELSE s.after

Sampled(s, reading) ==
    CASE s.phase = "baseline" ->
           LET samples == Newest(Append(s.baseline, reading)) IN
           [s EXCEPT !.baseline = samples, !.phase = IF Same(samples) THEN "armed" ELSE @]
      [] s.phase = "after" -> Finished([s EXCEPT !.after = Collected(s, reading)])
      [] OTHER -> s

-----------------------------------------------------------------------------
Confirmed(m) == {<<p, m[p]>> : p \in {q \in Pins : m[q] # None}}

TestInit ==
    /\ inputs \in Readings
    /\ wire = << >>
    /\ session = None /\ log = << >>
    /\ map \in {m \in Maps : \A p \in Pins \ PilotPins : m[p] = None}
    /\ entered = Confirmed(map)
    /\ sample = NoSample
    /\ request = [h \in Handlers |-> NoRequest]
    /\ tests = 0
    /\ changedIn = [t \in 1..MaxTests |-> {}]
    /\ late = [t \in 1..MaxTests |-> 0]
    /\ left = [marks |-> Marks, saves |-> Saves, flips |-> Flips,
               faults |-> Faults]

Spend(bound) == left[bound] > 0 /\ left' = [left EXCEPT ![bound] = @ - 1]

(* The operator, or whatever else is wired to the board.                   *)
Flip(b) ==
    /\ Spend("flips")
    /\ inputs' = [inputs EXCEPT ![b] = ~@]
    /\ changedIn' = [t \in 1..MaxTests |-> IF t <= tests THEN changedIn[t] \cup {b}
                                           ELSE changedIn[t]]
    /\ UNCHANGED <<testVars, wire, late, entered, sample, request, tests>>

Report ==
    /\ Len(wire) < MaxWire
    /\ wire' = Append(wire, inputs)
    /\ UNCHANGED <<testVars, inputs, changedIn, late, entered, sample, request,
                   tests, left>>

(* A frame whose raw part lacks U2 or U3.                                  *)
ReportBare ==
    /\ Len(wire) < MaxWire /\ Spend("faults")
    /\ wire' = Append(wire, None)
    /\ UNCHANGED <<testVars, inputs, changedIn, late, entered, sample, request, tests>>

(* _set_connection, from its query to its commit; _sample_pair refuses a   *)
(* bare frame.  The mutant samples it.                                     *)
AnyFrame(frame) == TRUE
Pair(frame) == frame # None

ReadSession ==
    /\ ~sample.busy /\ wire # << >>
    /\ wire' = Tail(wire)
    /\ sample' = [busy |-> TRUE, read |-> session,
                  written |-> IF session # None /\ Pair(Head(wire))
                              THEN Sampled(session, Head(wire)) ELSE session]
    /\ UNCHANGED <<testVars, inputs, changedIn, late, entered, request, tests, left>>

(* A sample of an armed test writes it again, or not if the inputs are as  *)
(* in the last one.                                                        *)
Rewritten == sample.read # None /\ sample.read.phase = "armed"

Ends == sample.written # None /\ sample.written.phase = "done" /\ ~sample.read.saved

Entry(s) == [test |-> s.test, pin |-> s.pin, changed |-> s.changed]

CommitSample ==
    /\ sample.busy
    /\ \/ /\ sample.read # sample.written \/ Rewritten
          /\ session' = sample.written
       \/ sample.read = sample.written /\ UNCHANGED session
    /\ log' = IF Ends THEN Append(log, Entry(sample.written)) ELSE log
    /\ sample' = NoSample
    /\ UNCHANGED <<map, boardVars, late, entered, request, tests, left>>

(* The gateway dies: its transaction and its connections are gone.         *)
GatewayDies ==
    /\ Spend("faults")
    /\ sample' = NoSample /\ wire' = << >>
    /\ UNCHANGED <<testVars, inputs, changedIn, late, entered, request, tests>>

-----------------------------------------------------------------------------
(* The operator's requests (devices/routes.py) *)

(* start_input_test.  The mutant keeps the baseline of the running test.   *)
FreshTest(t, p) == [test |-> t, pin |-> p, phase |-> "baseline", baseline |-> << >>,
                    after |-> << >>, changed |-> {}, saved |-> FALSE]
SameBaseline(t, p) ==
    IF session # None /\ session.phase = "armed"
    THEN [session EXCEPT !.test = t, !.pin = p] ELSE FreshTest(t, p)
NewTest(t, p) == FreshTest(t, p)

Start(p) ==
    /\ tests < MaxTests
    /\ tests' = tests + 1
    /\ session' = NewTest(tests + 1, p)
    /\ late' = [late EXCEPT ![tests + 1] = Len(wire)]
    /\ UNCHANGED <<log, map, boardVars, entered, sample, request, left>>

Reset ==
    /\ session' = None
    /\ UNCHANGED <<log, map, boardVars, late, entered, sample, request, tests, left>>

(* mark_input_switch.  The mutant marks a finished test over again.        *)
MarkableAgain(s) == s # None /\ s.phase \in {"armed", "done"}
Markable(s) == s # None /\ s.phase = "armed"

Marked(s) == [s EXCEPT !.phase = "after", !.after = << >>, !.changed = {}]

Opens(h, op, s, m) ==
    /\ request[h].op = "idle"
    /\ request' = [request EXCEPT ![h] = [op |-> op, session |-> s, map |-> m]]
    /\ UNCHANGED <<testVars, boardVars, late, entered, sample, tests>>

Mark(h) ==
    /\ Markable(session) /\ Spend("marks")
    /\ Opens(h, "mark", Marked(session), map)

(* _candidate_from_active_or_log: the test's, whatever its phase, and      *)
(* without a test the last log's.  The mutant takes the bit from the log   *)
(* and the pin from the test.                                              *)
Single(e) == IF Cardinality(e.changed) = 1 THEN {e} ELSE {}
LastLogged == IF log = << >> THEN {} ELSE Single(log[Len(log)])
PinOfTest ==
    {[e EXCEPT !.pin = IF session = None THEN @ ELSE session.pin] : e \in LastLogged}
Candidates ==
    IF session = None THEN LastLogged
    ELSE IF session.phase = "done" THEN Single(Entry(session)) ELSE {}

Confirm(h) ==
    /\ Spend("saves")
    /\ \E e \in Candidates : \E b \in e.changed :
         Opens(h, "map", None, [map EXCEPT ![e.pin] = b])

(* save_phase_map writes whatever map the form carries, confirmed with or  *)
(* without a test, over the one there is.                                  *)
EditForm ==
    /\ Spend("saves")
    /\ map' \in Maps
    /\ entered' = entered \cup Confirmed(map')
    /\ UNCHANGED <<session, log, boardVars, late, sample, request, tests>>

Commit(h) ==
    /\ \/ /\ request[h].op = "mark"
          /\ session' = request[h].session /\ UNCHANGED map
       \/ /\ request[h].op = "map"
          /\ map' = request[h].map /\ UNCHANGED session
    /\ request' = [request EXCEPT ![h] = NoRequest]
    /\ UNCHANGED <<log, boardVars, late, entered, sample, tests, left>>

-----------------------------------------------------------------------------
BoardNext == Report \/ ReportBare \/ \E b \in Bits : Flip(b)
GatewayNext == ReadSession \/ CommitSample \/ GatewayDies
WebNext ==
    \/ Reset \/ EditForm \/ \E p \in Pins : Start(p)
    \/ \E h \in Handlers : Mark(h) \/ Confirm(h) \/ Commit(h)

TestNext == BoardNext \/ GatewayNext \/ WebNext

TestSpec == TestInit /\ [][TestNext]_inputVars

(* The board reports every STATE_PERIOD_MS and the gateway's loop serves   *)
(* what it receives; nobody has to press a button.                         *)
TestFairness ==
    /\ WF_inputVars(Report)
    /\ WF_inputVars(ReadSession) /\ WF_inputVars(CommitSample)

TestFairSpec == TestSpec /\ TestFairness

-----------------------------------------------------------------------------
TestTypeOK ==
    /\ inputs \in Readings
    /\ wire \in Seq(Readings \cup {None})
    /\ session \in Sessions \cup {None}
    /\ log \in Seq(Entries)
    /\ map \in Maps
    /\ sample \in [busy : BOOLEAN, read : Sessions \cup {None},
                   written : Sessions \cup {None}]
    /\ request \in [Handlers -> [op : {"idle", "mark", "map"},
                                 session : Sessions \cup {None}, map : Maps]]
    /\ tests \in 0..MaxTests
    /\ changedIn \in [1..MaxTests -> SUBSET Bits]
    /\ late \in [1..MaxTests -> Nat]
    /\ entered \subseteq Pins \X Bits
    /\ left \in [{"marks", "saves", "flips", "faults"} -> Nat]

Logged(e) == \E i \in 1..Len(log) : log[i] = e

(* The page never shows a result that the journal of tests lacks, however  *)
(* samples, marks, resets and deaths of the gateway interleave: the result *)
(* and its row are one transaction, and a mark over a finished test would  *)
(* leave `saved` behind.                                                   *)
DoneIsLogged == session # None /\ session.phase = "done" => Logged(Entry(session))

(* What the map confirms for a pin is what a logged test of that pin has   *)
(* found or what a form (or the migration) has confirmed for that pin,     *)
(* although requests overwrite each other's maps and a test may have been  *)
(* reset or replaced before it is confirmed.                               *)
Found(p, b) == \E i \in 1..Len(log) : log[i].pin = p /\ log[i].changed = {b}

MapFromTests ==
    \A p \in Pins : map[p] # None => Found(p, map[p]) \/ <<p, map[p]>> \in entered

(* A logged bit has changed at the board since its test was started, even  *)
(* if frames sent before the start or the mark arrive after it, unless a   *)
(* stable run of frames was on its way at the start: then the code takes   *)
(* them for the baseline of a test that began after them.                  *)
LoggedHasChanged ==
    \A i \in 1..Len(log) :
        late[log[i].test] < StableSamples => log[i].changed \subseteq changedIn[log[i].test]

(* A marked test ends, whatever has been overwritten on the way.           *)
MarkedTestEnds ==
    (session # None /\ session.phase = "after")
        ~> (session = None \/ session.phase # "after")
=============================================================================
