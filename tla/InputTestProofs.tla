-------------------------- MODULE InputTestProofs --------------------------
(***************************************************************************)
(* Proofs about the input test, for any pins, bits, requests, number of    *)
(* samples and bounds: the state is well formed, a finished test is in the *)
(* journal, the map holds what the journal or a form does, and a logged    *)
(* bit has changed at the board.                                           *)
(***************************************************************************)
EXTENDS InputTest, TLAPS, FiniteSetTheorems

TestRows == Sessions \cup {None}
Frames == Readings \cup {None}
Samples == [busy : BOOLEAN, read : TestRows, written : TestRows]
Requests == [op : {"idle", "mark", "map"}, session : TestRows, map : Maps]
Budgets == [{"marks", "saves", "flips", "faults"} -> Nat]

-----------------------------------------------------------------------------
(* Well-formedness *)

LEMMA NewestIsSeq ==
    ASSUME NEW s \in Seq(Readings) PROVE Newest(s) \in Seq(Readings)
  BY SamplesAssumption DEF Newest

LEMMA FinishedIsSession ==
    ASSUME NEW s \in Sessions PROVE Finished(s) \in Sessions
  BY DEF Finished, Sessions, Phases, StableDiff

LEMMA CollectedIsSeq ==
    ASSUME NEW s \in Sessions, NEW r \in Readings
    PROVE  Collected(s, r) \in Seq(Readings)
  BY DEF Collected, Sessions

LEMMA SampledIsSession ==
    ASSUME NEW s \in Sessions, NEW r \in Readings PROVE Sampled(s, r) \in Sessions
<1> DEFINE samples == Newest(Append(s.baseline, r))
           grown == [s EXCEPT !.after = Collected(s, r)]
<1>1. s.baseline \in Seq(Readings) /\ Append(s.baseline, r) \in Seq(Readings)
  BY DEF Sessions
<1>2. samples \in Seq(Readings)
  BY <1>1, NewestIsSeq
<1>3. grown \in Sessions
  BY CollectedIsSeq DEF Sessions
<1>4. CASE s.phase = "baseline"
  BY <1>2, <1>4 DEF Sampled, Sessions, Phases
<1>5. CASE s.phase = "after"
  BY <1>3, <1>5, FinishedIsSession DEF Sampled
<1>6. CASE s.phase \notin {"baseline", "after"}
  BY <1>6 DEF Sampled
<1> QED BY <1>4, <1>5, <1>6

LEMMA FreshIsSession ==
    ASSUME NEW t \in 1..MaxTests, NEW p \in Pins PROVE FreshTest(t, p) \in Sessions
  BY DEF FreshTest, Sessions, Phases

LEMMA EntryIsEntry ==
    ASSUME NEW s \in Sessions PROVE Entry(s) \in Entries
  BY DEF Entry, Entries, Sessions

LEMMA SpendIsBudget ==
    ASSUME left \in Budgets,
           NEW b \in {"marks", "saves", "flips", "faults"}, Spend(b)
    PROVE  left' \in Budgets
  BY DEF Spend, Budgets

(* The oldest log is never consulted before there is one.                  *)
LEMMA LastLoggedIsEntry ==
    ASSUME TestTypeOK, NEW e \in LastLogged
    PROVE  /\ e = log[Len(log)] /\ Len(log) \in 1..Len(log)
           /\ e \in Entries /\ Cardinality(e.changed) = 1
  BY DEF LastLogged, Single, TestTypeOK

LEMMA CandidateIsEntry ==
    ASSUME TestTypeOK, NEW e \in Candidates
    PROVE  e \in Entries /\ Cardinality(e.changed) = 1
<1>1. CASE session = None
  BY <1>1, LastLoggedIsEntry DEF Candidates
<1>2. CASE session # None
  BY <1>2, EntryIsEntry DEF Candidates, Single, TestTypeOK
<1> QED BY <1>1, <1>2

LEMMA BoardKeepsTypes ==
    ASSUME TestTypeOK, BoardNext PROVE TestTypeOK'
<1>1. CASE Report
  BY <1>1 DEF TestTypeOK, Report, testVars
<1>2. CASE ReportBare
  <2>1. left' \in Budgets
    BY <1>2, SpendIsBudget DEF TestTypeOK, ReportBare, Budgets
  <2> QED BY <1>2, <2>1 DEF TestTypeOK, ReportBare, testVars, Budgets
<1>3. ASSUME NEW b \in Bits, Flip(b) PROVE TestTypeOK'
  <2>1. left' \in Budgets
    BY <1>3, SpendIsBudget DEF TestTypeOK, Flip, Budgets
  <2>2. inputs' \in Readings
    BY <1>3 DEF TestTypeOK, Flip, Readings
  <2>3. changedIn' \in [1..MaxTests -> SUBSET Bits]
    BY <1>3 DEF TestTypeOK, Flip
  <2> QED BY <1>3, <2>1, <2>2, <2>3 DEF TestTypeOK, Flip, testVars, Budgets
<1> QED BY <1>1, <1>2, <1>3 DEF BoardNext

LEMMA GatewayKeepsTypes ==
    ASSUME TestTypeOK, GatewayNext PROVE TestTypeOK'
<1>1. CASE ReadSession
  <2> DEFINE frame == Head(wire)
  <2>1. frame \in Frames /\ Tail(wire) \in Seq(Frames)
    BY <1>1 DEF ReadSession, TestTypeOK, Frames
  <2>2. session # None /\ Pair(frame) => Sampled(session, frame) \in Sessions
    BY <2>1, SampledIsSession DEF Pair, Frames, TestTypeOK
  <2>3. sample' \in Samples
    BY <1>1, <2>2 DEF ReadSession, TestTypeOK, Samples, TestRows
  <2> QED BY <1>1, <2>1, <2>3
      DEF ReadSession, TestTypeOK, testVars, Frames, Samples, TestRows
<1>2. CASE CommitSample
  <2>1. sample.written \in TestRows
    BY DEF TestTypeOK, TestRows
  <2>2. session' \in TestRows
    BY <1>2, <2>1 DEF CommitSample, TestTypeOK, TestRows
  <2>3. Ends => Entry(sample.written) \in Entries
    BY <2>1, EntryIsEntry DEF Ends, TestRows
  <2>4. log' \in Seq(Entries)
    BY <1>2, <2>3 DEF CommitSample, TestTypeOK
  <2>5. sample' \in Samples
    BY <1>2 DEF CommitSample, NoSample, Samples, TestRows
  <2> QED BY <1>2, <2>2, <2>4, <2>5
      DEF CommitSample, TestTypeOK, boardVars, Samples, TestRows
<1>3. CASE GatewayDies
  <2>1. left' \in Budgets
    BY <1>3, SpendIsBudget DEF TestTypeOK, GatewayDies, Budgets
  <2>2. sample' \in Samples /\ wire' \in Seq(Frames)
    BY <1>3 DEF GatewayDies, NoSample, Samples, TestRows
  <2> QED BY <1>3, <2>1, <2>2
      DEF GatewayDies, TestTypeOK, testVars, Budgets, Samples, TestRows, Frames
<1> QED BY <1>1, <1>2, <1>3 DEF GatewayNext

LEMMA OpensKeepsTypes ==
    ASSUME TestTypeOK, NEW h \in Handlers, NEW op \in {"mark", "map"},
           NEW s \in TestRows, NEW m \in Maps, Opens(h, op, s, m), left' \in Budgets
    PROVE  TestTypeOK'
<1>1. request' \in [Handlers -> Requests]
  BY DEF Opens, TestTypeOK, Requests, TestRows
<1> QED BY <1>1 DEF Opens, TestTypeOK, testVars, boardVars, Requests, TestRows, Budgets

LEMMA MarkIsSession ==
    ASSUME NEW s \in Sessions PROVE Marked(s) \in Sessions
<1> << >> \in Seq(Readings)
  OBVIOUS
<1> QED BY DEF Marked, Sessions, Phases

LEMMA ConfirmedIsBits ==
    ASSUME NEW m \in Maps PROVE Confirmed(m) \subseteq Pins \X Bits
  BY DEF Confirmed, Maps

LEMMA TypesInit == ASSUME TestInit PROVE TestTypeOK
<1>1. map \in Maps /\ entered \subseteq Pins \X Bits
  BY ConfirmedIsBits DEF TestInit
<1>2. [p \in Pins |-> None] \in Maps
  BY DEF Maps
<1> QED BY <1>1, <1>2, BoundsAssumption DEF TestInit, TestTypeOK, Readings, NoSample, NoRequest

LEMMA WebKeepsTypes ==
    ASSUME TestTypeOK, WebNext PROVE TestTypeOK'
<1>1. CASE Reset
  BY <1>1 DEF Reset, TestTypeOK, boardVars
<1>2. ASSUME NEW p \in Pins, Start(p) PROVE TestTypeOK'
  <2>1. tests' \in 1..MaxTests
    BY <1>2, BoundsAssumption DEF Start, TestTypeOK
  <2>2. session' \in Sessions
    BY <1>2, <2>1, FreshIsSession DEF Start, NewTest
  <2>3. late' \in [1..MaxTests -> Nat]
    <3>1. Len(wire) \in Nat /\ late \in [1..MaxTests -> Nat]
      BY DEF TestTypeOK
    <3>2. late' = [late EXCEPT ![tests + 1] = Len(wire)]
      BY <1>2 DEF Start
    <3> QED BY <3>1, <3>2
  <2> QED BY <1>2, <2>1, <2>2, <2>3 DEF Start, TestTypeOK, boardVars
<1>3. ASSUME NEW h \in Handlers, Mark(h) PROVE TestTypeOK'
  <2>1. left' \in Budgets
    BY <1>3, SpendIsBudget DEF TestTypeOK, Mark, Budgets
  <2>2. map \in Maps /\ session \in Sessions
    BY <1>3 DEF TestTypeOK, Mark, Markable
  <2> QED BY <1>3, <2>1, <2>2, MarkIsSession, OpensKeepsTypes DEF Mark, TestRows
<1>4. ASSUME NEW h \in Handlers, Confirm(h) PROVE TestTypeOK'
  <2>1. left' \in Budgets
    BY <1>4, SpendIsBudget DEF TestTypeOK, Confirm, Budgets
  <2>2. PICK e \in Candidates, b \in Bits :
          Opens(h, "map", None, [map EXCEPT ![e.pin] = b])
    BY <1>4, CandidateIsEntry DEF Confirm, Entries
  <2>3. [map EXCEPT ![e.pin] = b] \in Maps
    BY <2>2, CandidateIsEntry DEF TestTypeOK, Maps, Entries
  <2> QED BY <2>1, <2>2, <2>3, OpensKeepsTypes DEF TestRows
<1>5. CASE EditForm
  <2>1. left' \in Budgets
    BY <1>5, SpendIsBudget DEF TestTypeOK, EditForm, Budgets
  <2>2. entered' \subseteq Pins \X Bits /\ map' \in Maps
    BY <1>5, ConfirmedIsBits DEF EditForm, TestTypeOK
  <2> QED BY <1>5, <2>1, <2>2 DEF EditForm, TestTypeOK, boardVars, Budgets
<1>6. ASSUME NEW h \in Handlers, Commit(h) PROVE TestTypeOK'
  <2>1. request[h] \in Requests
    BY DEF TestTypeOK, Requests, TestRows
  <2>2. session' \in TestRows /\ map' \in Maps
    BY <1>6, <2>1 DEF Commit, TestTypeOK, Requests, TestRows
  <2>3. request' \in [Handlers -> Requests]
    BY <1>6 DEF Commit, TestTypeOK, NoRequest, Requests, TestRows, Maps
  <2> QED BY <1>6, <2>2, <2>3 DEF Commit, TestTypeOK, boardVars, Requests, TestRows
<1> QED BY <1>1, <1>2, <1>3, <1>4, <1>5, <1>6 DEF WebNext

(* Whoever writes the row, it holds a test the code could have made, and   *)
(* the journal and the map what the tables can hold.                       *)
THEOREM TypeCorrect == TestSpec => []TestTypeOK
<1>1. TestInit => TestTypeOK
  BY TypesInit
<1>2. TestTypeOK /\ [TestNext]_inputVars => TestTypeOK'
  <2>1. TestTypeOK /\ TestNext => TestTypeOK'
    BY BoardKeepsTypes, GatewayKeepsTypes, WebKeepsTypes DEF TestNext
  <2>2. TestTypeOK /\ UNCHANGED inputVars => TestTypeOK'
    BY DEF TestTypeOK, inputVars, testVars, boardVars
  <2> QED BY <2>1, <2>2
<1> QED BY <1>1, <1>2, PTL DEF TestSpec

-----------------------------------------------------------------------------
(* The journal *)

(* What holds of a copy of the test, wherever it is kept: it is saved only *)
(* when it is done, and then the journal has it.                           *)
Kept(s) ==
    s # None => /\ s.saved => s.phase = "done"
                /\ s.phase = "done" => Logged(Entry(s))

(* What the gateway is about to write is kept too, or is logged by the     *)
(* same transaction.                                                       *)
KeptByCommit ==
    sample.written # None =>
        /\ sample.written.saved => sample.written.phase = "done"
        /\ sample.written.phase = "done" => Ends \/ Logged(Entry(sample.written))

(* And of a copy of the map: each bit was found or entered.                *)
Backed(m) ==
    \A p \in Pins : m[p] # None => Found(p, m[p]) \/ <<p, m[p]>> \in entered

JournalInv ==
    /\ TestTypeOK
    /\ Kept(session) /\ Kept(sample.read) /\ KeptByCommit
    /\ Backed(map)
    /\ \A h \in Handlers : Kept(request[h].session) /\ Backed(request[h].map)

LEMMA JournalInit == ASSUME TestInit PROVE JournalInv
<1>1. TestTypeOK
  BY TypesInit
<1>2. Backed(map)
  BY DEF TestInit, Backed, Confirmed
<1> QED BY <1>1, <1>2
    DEF TestInit, JournalInv, Kept, KeptByCommit, Backed, NoSample, NoRequest

(* A step that leaves the journal alone, or appends to it, loses no log.   *)
Grows == \E e \in Entries : log' = Append(log, e)

LEMMA LogsStay ==
    ASSUME log \in Seq(Entries), log' = log \/ Grows
    PROVE  /\ \A e : Logged(e) => Logged(e)'
           /\ Len(log) <= Len(log') /\ \A i \in 1..Len(log) : log'[i] = log[i]
  BY DEF Grows, Logged

(* The same of a copy and of a map in the next state.                      *)
KeptLater(s) ==
    s # None => /\ s.saved => s.phase = "done"
                /\ s.phase = "done" => \E i \in 1..Len(log') : log'[i] = Entry(s)

BackedLater(m) ==
    \A p \in Pins : m[p] # None =>
        \/ \E i \in 1..Len(log') : log'[i].pin = p /\ log'[i].changed = {m[p]}
        \/ <<p, m[p]>> \in entered'

LEMMA CopiesStayKept ==
    ASSUME JournalInv, log' = log \/ Grows, NEW s, Kept(s)
    PROVE  KeptLater(s)
<1>1. log \in Seq(Entries)
  BY DEF JournalInv, TestTypeOK
<1>2. ASSUME NEW i \in 1..Len(log) PROVE i \in 1..Len(log') /\ log'[i] = log[i]
  BY <1>1, LogsStay DEF Grows
<1> QED BY <1>2 DEF Kept, KeptLater, Logged

LEMMA MapsStayBacked ==
    ASSUME JournalInv, log' = log \/ Grows, entered \subseteq entered', NEW m \in Maps,
           Backed(m)
    PROVE  BackedLater(m)
<1> SUFFICES ASSUME NEW p \in Pins, m[p] # None, <<p, m[p]>> \notin entered'
             PROVE  \E i \in 1..Len(log') : log'[i].pin = p /\ log'[i].changed = {m[p]}
  BY DEF BackedLater
<1>1. PICK i \in 1..Len(log) : log[i].pin = p /\ log[i].changed = {m[p]}
  BY DEF Backed, Found
<1>2. i \in 1..Len(log') /\ log'[i] = log[i]
  BY LogsStay DEF JournalInv, TestTypeOK, Grows
<1> QED BY <1>1, <1>2

(* A step that changes at most what is named keeps the requests' copies.   *)
LEMMA RequestsStayKept ==
    ASSUME JournalInv, log' = log \/ Grows, entered \subseteq entered', UNCHANGED request,
           NEW h \in Handlers
    PROVE  Kept(request[h].session)' /\ Backed(request[h].map)'
<1>1. request[h].map \in Maps
  BY DEF JournalInv, TestTypeOK
<1>2. KeptLater(request[h].session) /\ BackedLater(request[h].map)
  BY <1>1, CopiesStayKept, MapsStayBacked DEF JournalInv
<1> QED BY <1>2 DEF Kept, KeptLater, Backed, BackedLater, Found, Logged, Entry

LEMMA MapStays ==
    ASSUME JournalInv, UNCHANGED <<log, map>>, entered \subseteq entered'
    PROVE  Backed(map)'
<1>1. BackedLater(map)
  BY MapsStayBacked DEF JournalInv, TestTypeOK
<1> QED BY <1>1 DEF Backed, BackedLater, Found

(* Samples do not touch `saved` but where they finish the test.            *)
LEMMA SampledIsKept ==
    ASSUME NEW s \in Sessions, NEW r \in Readings, s.saved => s.phase = "done"
    PROVE  /\ Sampled(s, r).saved => Sampled(s, r).phase = "done"
           /\ s.phase = "done" => Sampled(s, r) = s
<1> DEFINE samples == Newest(Append(s.baseline, r))
           grown == [s EXCEPT !.after = Collected(s, r)]
<1>1. CASE s.phase = "baseline"
  <2>1. Sampled(s, r).saved = s.saved
    BY <1>1 DEF Sampled, Sessions
  <2> QED BY <1>1, <2>1
<1>2. CASE s.phase = "after"
  <2>1. Sampled(s, r) = Finished(grown) /\ grown.saved = s.saved
    BY <1>2 DEF Sampled, Sessions
  <2>2. grown \in Sessions /\ ~grown.saved
    BY <1>2, <2>1, CollectedIsSeq DEF Sessions
  <2>3. Finished(grown).saved => Finished(grown).phase = "done"
    BY <2>2 DEF Finished, Sessions
  <2> QED BY <1>2, <2>1, <2>3
<1>3. CASE s.phase \notin {"baseline", "after"}
  BY <1>3 DEF Sampled
<1> QED BY <1>1, <1>2, <1>3

LEMMA ReadSessionStep ==
    ASSUME JournalInv, ReadSession PROVE JournalInv'
<1> DEFINE frame == Head(wire)
<1>1. TestTypeOK'
  BY GatewayKeepsTypes DEF GatewayNext, JournalInv
<1>2. /\ UNCHANGED <<session, log, map, request, entered>>
      /\ sample'.read = session
      /\ sample'.written = IF session # None /\ Pair(frame)
                           THEN Sampled(session, frame) ELSE session
  BY DEF ReadSession, testVars
<1>3. Kept(session)' /\ Kept(sample.read)'
  BY <1>2 DEF JournalInv, Kept, Logged, Entry
<1>4. KeptByCommit'
  <2>1. CASE session # None /\ Pair(frame)
    <3>1. session \in Sessions /\ frame \in Readings
      BY <2>1 DEF JournalInv, TestTypeOK, ReadSession, Pair
    <3>2. /\ Sampled(session, frame).saved => Sampled(session, frame).phase = "done"
          /\ session.phase = "done" => Sampled(session, frame) = session
      BY <2>1, <3>1, SampledIsKept DEF JournalInv, Kept
    <3>3. session.saved => session.phase = "done" /\ Logged(Entry(session))
      BY <2>1 DEF JournalInv, Kept
    <3> QED BY <1>2, <2>1, <3>1, <3>2, <3>3
        DEF KeptByCommit, Ends, Logged, Entry, JournalInv, Kept, Sessions
  <2>2. CASE ~(session # None /\ Pair(frame))
    BY <1>2, <2>2 DEF JournalInv, KeptByCommit, Kept, Logged, Entry, Ends
  <2> QED BY <2>1, <2>2
<1>5. \A h \in Handlers : Kept(request[h].session)' /\ Backed(request[h].map)'
  BY <1>2, RequestsStayKept
<1> QED BY <1>1, <1>2, <1>3, <1>4, <1>5, MapStays DEF JournalInv

LEMMA CommitSampleStep ==
    ASSUME JournalInv, CommitSample PROVE JournalInv'
<1>1. TestTypeOK'
  BY GatewayKeepsTypes DEF GatewayNext, JournalInv
<1>2. log' = log \/ Grows
  <2>1. Ends => Entry(sample.written) \in Entries
    BY EntryIsEntry DEF Ends, JournalInv, TestTypeOK
  <2> QED BY <2>1 DEF CommitSample, Grows
<1>3. UNCHANGED <<map, request, entered>> /\ sample' = NoSample
  BY DEF CommitSample
<1>4. Kept(session)'
  <2>1. CASE session' = sample.written
    <3>1. Ends => \E i \in 1..Len(log') : log'[i] = Entry(sample.written)
      <4> SUFFICES ASSUME Ends
                   PROVE  \E i \in 1..Len(log') : log'[i] = Entry(sample.written)
        OBVIOUS
      <4>1. log' = Append(log, Entry(sample.written)) /\ log \in Seq(Entries)
        BY DEF CommitSample, JournalInv, TestTypeOK
      <4>2. Entry(sample.written) \in Entries
        BY EntryIsEntry DEF Ends, JournalInv, TestTypeOK
      <4>3. Len(log') \in 1..Len(log') /\ log'[Len(log')] = Entry(sample.written)
        BY <4>1, <4>2
      <4> QED BY <4>3
    <3>2. Logged(Entry(sample.written))
          => \E i \in 1..Len(log') : log'[i] = Entry(sample.written)
      <4>1. log \in Seq(Entries)
        BY DEF JournalInv, TestTypeOK
      <4>2. ASSUME NEW i \in 1..Len(log)
            PROVE  i \in 1..Len(log') /\ log'[i] = log[i]
        BY <1>2, <4>1, LogsStay DEF Grows
      <4> QED BY <4>2 DEF Logged
    <3>3. KeptByCommit
      BY DEF JournalInv
    <3>4. KeptLater(sample.written)
      BY <3>1, <3>2, <3>3 DEF KeptByCommit, KeptLater
    <3> QED BY <2>1, <3>4 DEF Kept, KeptLater, Logged, Entry
  <2>2. CASE session' = session
    <3>1. KeptLater(session)
      BY <1>2, CopiesStayKept DEF JournalInv
    <3> QED BY <2>2, <3>1 DEF Kept, KeptLater, Logged, Entry
  <2> QED BY <2>1, <2>2 DEF CommitSample
<1>5. Kept(sample.read)' /\ KeptByCommit'
  BY <1>3 DEF NoSample, Kept, KeptByCommit
<1>6. Backed(map)'
  <2>1. BackedLater(map)
    BY <1>2, <1>3, MapsStayBacked DEF JournalInv, TestTypeOK
  <2> QED BY <1>3, <2>1 DEF Backed, BackedLater, Found
<1>7. ASSUME NEW h \in Handlers
      PROVE  Kept(request[h].session)' /\ Backed(request[h].map)'
  BY <1>2, <1>3, RequestsStayKept
<1> QED BY <1>1, <1>4, <1>5, <1>6, <1>7 DEF JournalInv

(* What a step that does not touch the journal leaves as it was.           *)
LEMMA TransactionStays ==
    ASSUME JournalInv, UNCHANGED log, UNCHANGED sample \/ sample' = NoSample
    PROVE  Kept(sample.read)' /\ KeptByCommit'
<1>1. CASE UNCHANGED sample
  BY <1>1 DEF JournalInv, Kept, KeptByCommit, Ends, Logged, Entry
<1>2. CASE sample' = NoSample
  BY <1>2 DEF NoSample, Kept, KeptByCommit
<1> QED BY <1>1, <1>2

LEMMA SessionStays ==
    ASSUME JournalInv, UNCHANGED <<log, session>> PROVE Kept(session)'
<1>1. KeptLater(session)
  BY CopiesStayKept DEF JournalInv
<1> QED BY <1>1 DEF Kept, KeptLater, Logged, Entry

LEMMA BoardStep == ASSUME JournalInv, BoardNext PROVE JournalInv'
<1>1. TestTypeOK'
  BY BoardKeepsTypes DEF JournalInv
<1>2. UNCHANGED <<session, log, map, sample, request, entered>>
  BY DEF BoardNext, Report, ReportBare, Flip, testVars
<1>3. \A h \in Handlers : Kept(request[h].session)' /\ Backed(request[h].map)'
  BY <1>2, RequestsStayKept
<1> QED BY <1>1, <1>2, <1>3, TransactionStays, SessionStays, MapStays DEF JournalInv

LEMMA GatewayDiesStep == ASSUME JournalInv, GatewayDies PROVE JournalInv'
<1>1. TestTypeOK'
  BY GatewayKeepsTypes DEF GatewayNext, JournalInv
<1>2. UNCHANGED <<session, log, map, request, entered>> /\ sample' = NoSample
  BY DEF GatewayDies, testVars
<1>3. \A h \in Handlers : Kept(request[h].session)' /\ Backed(request[h].map)'
  BY <1>2, RequestsStayKept
<1> QED BY <1>1, <1>2, <1>3, TransactionStays, SessionStays, MapStays DEF JournalInv

LEMMA GatewayStep == ASSUME JournalInv, GatewayNext PROVE JournalInv'
  BY GatewayDiesStep, ReadSessionStep, CommitSampleStep DEF GatewayNext

(* A single changed bit is the one that is confirmed.                      *)
LEMMA SingleIsSingleton ==
    ASSUME NEW e \in Entries, NEW f \in Single(e), NEW b \in f.changed
    PROVE  f = e /\ f.changed = {b}
<1>1. f = e /\ Cardinality(e.changed) = 1
  BY DEF Single
<1>2. IsFiniteSet(e.changed)
  BY BitsAssumption, FS_Subset DEF Entries
<1>3. PICK x : e.changed = {x}
  BY <1>1, <1>2, FS_Singleton
<1> QED BY <1>1, <1>3

(* Whatever is offered for confirmation has been logged.                   *)
LEMMA CandidatesAreLogged ==
    ASSUME JournalInv, NEW e \in Candidates, NEW b \in e.changed
    PROVE  e \in Entries /\ e.changed = {b} /\ Logged(e)
<1>1. CASE session = None
  <2>1. log # << >> /\ e \in Single(log[Len(log)])
    BY <1>1 DEF Candidates, LastLogged
  <2>2. log \in Seq(Entries) /\ Len(log) \in 1..Len(log)
    BY <2>1 DEF JournalInv, TestTypeOK
  <2>3. log[Len(log)] \in Entries
    BY <2>2
  <2>4. e = log[Len(log)] /\ e.changed = {b}
    BY <2>1, <2>3, SingleIsSingleton
  <2> QED BY <2>2, <2>3, <2>4 DEF Logged
<1>2. CASE session # None
  <2>1. session.phase = "done" /\ e \in Single(Entry(session))
    BY <1>2 DEF Candidates
  <2>2. Entry(session) \in Entries
    BY <1>2, EntryIsEntry DEF JournalInv, TestTypeOK
  <2>3. Logged(Entry(session))
    BY <1>2, <2>1 DEF JournalInv, Kept
  <2> QED BY <2>1, <2>2, <2>3, SingleIsSingleton
<1> QED BY <1>1, <1>2

(* A request that opens with a kept test and a backed map.                 *)
LEMMA OpensKept ==
    ASSUME JournalInv, TestTypeOK', NEW h \in Handlers, NEW op, NEW s, NEW m \in Maps,
           Opens(h, op, s, m), Kept(s), Backed(m)
    PROVE  JournalInv'
<1>1. UNCHANGED <<session, log, map, sample, entered>>
      /\ request' = [request EXCEPT ![h] = [op |-> op, session |-> s, map |-> m]]
  BY DEF Opens, testVars
<1>2. ASSUME NEW k \in Handlers
      PROVE  Kept(request[k].session)' /\ Backed(request[k].map)'
  <2>1. CASE k = h
    <3>1. request'[k].session = s /\ request'[k].map = m
      BY <1>1, <2>1 DEF JournalInv, TestTypeOK
    <3>2. KeptLater(s) /\ BackedLater(m)
      BY <1>1, CopiesStayKept, MapsStayBacked
    <3>3. Kept(request[k].session)'
      BY <3>1, <3>2 DEF Kept, KeptLater, Logged, Entry
    <3>4. Backed(request[k].map)'
      BY <3>1, <3>2 DEF Backed, BackedLater, Found
    <3> QED BY <3>3, <3>4
  <2>2. CASE k # h
    <3>1. request'[k].session = request[k].session /\ request'[k].map = request[k].map
      BY <1>1, <2>2 DEF JournalInv, TestTypeOK
    <3>2. KeptLater(request[k].session) /\ BackedLater(request[k].map)
      BY <1>1, CopiesStayKept, MapsStayBacked DEF JournalInv, TestTypeOK
    <3>3. Kept(request[k].session)'
      BY <3>1, <3>2 DEF Kept, KeptLater, Logged, Entry
    <3>4. Backed(request[k].map)'
      BY ZenonT(60), <3>1, <3>2 DEF Backed, BackedLater, Found
    <3> QED BY <3>3, <3>4
  <2> QED BY <2>1, <2>2
<1> QED BY <1>1, <1>2, TransactionStays, SessionStays, MapStays DEF JournalInv

LEMMA MarkStep == ASSUME JournalInv, TestTypeOK', NEW h \in Handlers, Mark(h) PROVE JournalInv'
<1>1. session \in Sessions /\ session.phase = "armed" /\ ~session.saved
  BY DEF Mark, Markable, JournalInv, TestTypeOK, Kept
<1>2. Kept(Marked(session))
  BY <1>1 DEF Marked, Kept, Sessions
<1> QED BY <1>2, OpensKept DEF Mark, JournalInv, TestTypeOK

LEMMA ConfirmStep ==
    ASSUME JournalInv, TestTypeOK', NEW h \in Handlers, Confirm(h) PROVE JournalInv'
<1>1. PICK e \in Candidates : \E b \in e.changed :
        Opens(h, "map", None, [map EXCEPT ![e.pin] = b])
  BY DEF Confirm
<1>2. PICK b \in e.changed : Opens(h, "map", None, [map EXCEPT ![e.pin] = b])
  BY <1>1
<1>3. e \in Entries /\ e.changed = {b} /\ Logged(e)
  BY CandidatesAreLogged
<1>4. map \in Maps /\ e.pin \in Pins /\ b \in Bits
  BY <1>3 DEF JournalInv, TestTypeOK, Entries
<1> DEFINE m == [map EXCEPT ![e.pin] = b]
<1>5. m \in Maps
  BY <1>4 DEF Maps
<1>6. ASSUME NEW p \in Pins, m[p] # None
      PROVE  Found(p, m[p]) \/ <<p, m[p]>> \in entered
  <2>1. CASE p = e.pin
    <3>1. m[p] = b
      BY <1>4, <2>1 DEF Maps
    <3> QED BY <1>3, <2>1, <3>1 DEF Logged, Found
  <2>2. CASE p # e.pin
    <3>1. m[p] = map[p]
      BY <1>4, <2>2 DEF Maps
    <3> QED BY <1>6, <3>1 DEF JournalInv, Backed
  <2> QED BY <2>1, <2>2
<1>7. Backed(m)
  BY <1>6 DEF Backed
<1>8. Kept(None)
  BY DEF Kept
<1> QED BY <1>2, <1>8, <1>5, <1>7, OpensKept

LEMMA EditFormStep == ASSUME JournalInv, TestTypeOK', EditForm PROVE JournalInv'
<1>1. /\ UNCHANGED <<session, log, sample, request>>
      /\ entered' = entered \cup Confirmed(map')
  BY DEF EditForm
<1>2. Backed(map)'
  BY <1>1 DEF Backed, Confirmed
<1>3. \A h \in Handlers : Kept(request[h].session)' /\ Backed(request[h].map)'
  BY <1>1, RequestsStayKept
<1> QED BY <1>1, <1>2, <1>3, TransactionStays, SessionStays DEF JournalInv

LEMMA CommitStep ==
    ASSUME JournalInv, TestTypeOK', NEW h \in Handlers, Commit(h) PROVE JournalInv'
<1>1. UNCHANGED <<log, sample, entered>> /\ request' = [request EXCEPT ![h] = NoRequest]
      /\ session' \in {session, request[h].session} /\ map' \in {map, request[h].map}
  BY DEF Commit
<1>2. Kept(session)'
  <2>1. KeptLater(session')
    BY <1>1, CopiesStayKept DEF JournalInv
  <2> QED BY <2>1 DEF Kept, KeptLater, Logged, Entry
<1>3. Backed(map)'
  <2>1. map' \in Maps /\ Backed(map')
    BY <1>1 DEF JournalInv, TestTypeOK
  <2>2. BackedLater(map')
    BY <1>1, <2>1, MapsStayBacked
  <2> QED BY <2>2 DEF Backed, BackedLater, Found
<1>4. ASSUME NEW k \in Handlers
      PROVE  Kept(request[k].session)' /\ Backed(request[k].map)'
  <2>1. CASE k = h
    <3>1. request'[k] = NoRequest
      BY <1>1, <2>1 DEF JournalInv, TestTypeOK
    <3> QED BY <3>1 DEF NoRequest, Kept, Backed
  <2>2. CASE k # h
    <3>1. request'[k] = request[k]
      BY <1>1, <2>2 DEF JournalInv, TestTypeOK
    <3>2. KeptLater(request[k].session) /\ BackedLater(request[k].map)
      BY <1>1, CopiesStayKept, MapsStayBacked DEF JournalInv, TestTypeOK
    <3> QED BY <3>1, <3>2 DEF Kept, KeptLater, Backed, BackedLater, Found, Logged, Entry
  <2> QED BY <2>1, <2>2
<1> QED BY <1>1, <1>2, <1>3, <1>4, TransactionStays DEF JournalInv

LEMMA NewTestStep ==
    ASSUME JournalInv, TestTypeOK', Reset \/ \E p \in Pins : Start(p) PROVE JournalInv'
<1>1. UNCHANGED <<log, map, sample, request, entered>>
  BY DEF Reset, Start, boardVars
<1>2. Kept(session)'
  <2>1. CASE Reset
    BY <2>1 DEF Reset, Kept
  <2>2. ASSUME NEW p \in Pins, Start(p) PROVE Kept(session)'
    <3>1. session' = FreshTest(tests + 1, p)
      BY <2>2 DEF Start, NewTest
    <3>2. session'.phase = "baseline" /\ ~session'.saved
      BY <3>1 DEF FreshTest
    <3> QED BY <3>2 DEF Kept
  <2> QED BY <2>1, <2>2
<1>3. \A h \in Handlers : Kept(request[h].session)' /\ Backed(request[h].map)'
  BY <1>1, RequestsStayKept
<1> QED BY <1>1, <1>2, <1>3, TransactionStays, MapStays DEF JournalInv

(* The journal invariant is inductive.                                     *)
THEOREM JournalHolds == TestSpec => []JournalInv
<1>1. TestInit => JournalInv
  BY JournalInit
<1>2. JournalInv /\ [TestNext]_inputVars => JournalInv'
  <2>1. ASSUME JournalInv, WebNext PROVE JournalInv'
    <3>1. TestTypeOK'
      BY <2>1, WebKeepsTypes DEF JournalInv
    <3> QED BY <2>1, <3>1, MarkStep, ConfirmStep, EditFormStep, CommitStep, NewTestStep
        DEF WebNext
  <2>2. ASSUME JournalInv, UNCHANGED inputVars PROVE JournalInv'
    <3>1. UNCHANGED <<session, log, map, sample, request, entered>> /\ TestTypeOK'
      BY <2>2 DEF inputVars, testVars, boardVars, JournalInv, TestTypeOK
    <3>2. \A h \in Handlers : Kept(request[h].session)' /\ Backed(request[h].map)'
      BY <2>2, <3>1, RequestsStayKept
    <3> QED BY <2>2, <3>1, <3>2, TransactionStays, SessionStays, MapStays DEF JournalInv
  <2> QED BY <2>1, <2>2, BoardStep, GatewayStep DEF TestNext
<1> QED BY <1>1, <1>2, PTL DEF TestSpec

(* The page never shows a result that the journal of tests lacks.          *)
THEOREM FinishedIsLogged == TestSpec => []DoneIsLogged
<1>1. JournalInv => DoneIsLogged
  BY DEF JournalInv, Kept, DoneIsLogged
<1> QED BY <1>1, JournalHolds, PTL

(* What the map confirms for a pin, a logged test of that pin has found or *)
(* a form has confirmed.                                                   *)
THEOREM MapHasEvidence == TestSpec => []MapFromTests
<1>1. JournalInv => MapFromTests
  BY DEF JournalInv, Backed, MapFromTests
<1> QED BY <1>1, JournalHolds, PTL

-----------------------------------------------------------------------------
(* What a test logs has changed at the board *)

(* Of the samples and of the frames on their way, fewer than make a stable *)
(* run are from before the test's start, and they come first: while one of *)
(* them is on its way, every sample taken so far may be old.  The bit has  *)
(* kept its level since the start.                                         *)
Clean(samples, b, frames, level) ==
    \E n, k \in Nat :
        /\ n + k < StableSamples
        /\ \A i \in 1..Len(samples) : i > n => samples[i][b] = level
        /\ \A i \in 1..Len(frames) : i > k => frames[i] = None \/ frames[i][b] = level
        /\ k = 0 \/ Len(samples) <= n

(* A copy of a test is of one that was started; if no stable run was on    *)
(* its way then, its result has changed since, and its samples are clean   *)
(* of every bit that has not.                                              *)
Traced(s, count, old, changes, frames, levels) ==
    s # None =>
        /\ s.test <= count
        /\ old[s.test] < StableSamples =>
             /\ s.changed \subseteq changes[s.test]
             /\ \A b \in Bits \ changes[s.test] :
                  /\ Clean(s.baseline, b, frames, levels[b])
                  /\ Clean(s.after, b, frames, levels[b])

TracedNow(s) == Traced(s, tests, late, changedIn, wire, inputs)
TracedLater(s) == Traced(s, tests', late', changedIn', wire', inputs')

(* The same of an entry of the journal.                                    *)
Sound(e) ==
    /\ e.test <= tests
    /\ late[e.test] < StableSamples => e.changed \subseteq changedIn[e.test]

TraceInv ==
    /\ TestTypeOK
    /\ TracedNow(session) /\ TracedNow(sample.read) /\ TracedNow(sample.written)
    /\ \A h \in Handlers : TracedNow(request[h].session)
    /\ \A i \in 1..Len(log) : Sound(log[i])

(* No samples are clean, if no stable run is on its way.                   *)
LEMMA NoSamplesClean ==
    ASSUME NEW samples, samples = << >>, NEW frames \in Seq(Frames),
           Len(frames) < StableSamples, NEW b, NEW level
    PROVE  Clean(samples, b, frames, level)
<1>1. /\ Len(frames) \in Nat /\ 0 + Len(frames) < StableSamples
      /\ \A i \in 1..Len(frames) : ~(i > Len(frames))
  OBVIOUS
<1>2. Len(samples) = 0 /\ \A i : i \notin 1..Len(samples)
  OBVIOUS
<1>3. \E n, k \in Nat : n = 0 /\ k = Len(frames)
  BY <1>1
<1> QED BY <1>1, <1>2, <1>3 DEF Clean

(* Samples may be thrown away.                                             *)
LEMMA CleanRestarts ==
    ASSUME NEW samples \in Seq(Readings), NEW b, NEW frames, NEW level,
           Clean(samples, b, frames, level)
    PROVE  Clean(<< >>, b, frames, level)
<1>1. PICK n \in Nat, k \in Nat :
        /\ n + k < StableSamples
        /\ \A i \in 1..Len(frames) : i > k => frames[i] = None \/ frames[i][b] = level
  BY DEF Clean
<1>2. 0 + k < StableSamples /\ Len(<< >>) <= 0 /\ \A i : i \notin 1..Len(<< >>)
  BY <1>1, SamplesAssumption
<1> QED BY <1>1, <1>2 DEF Clean

(* Frames that leave the wire, and new ones with the present level, keep   *)
(* samples clean.                                                          *)
LEMMA CleanStays ==
    ASSUME NEW samples \in Seq(Readings), NEW b \in Bits, NEW level,
           NEW frames \in Seq(Frames), Clean(samples, b, frames, level),
           NEW later \in Seq(Frames), NEW fresh \in Frames, fresh = None \/ fresh[b] = level,
           \/ later = frames \/ later = << >> \/ later = Append(frames, fresh)
           \/ frames # << >> /\ later = Tail(frames)
    PROVE  Clean(samples, b, later, level)
<1>1. PICK n \in Nat, k \in Nat :
        /\ n + k < StableSamples
        /\ \A i \in 1..Len(samples) : i > n => samples[i][b] = level
        /\ \A i \in 1..Len(frames) : i > k => frames[i] = None \/ frames[i][b] = level
        /\ k = 0 \/ Len(samples) <= n
  BY DEF Clean
<1>2. CASE later = frames
  BY <1>1, <1>2 DEF Clean
<1>3. CASE later = << >>
  BY <1>1, <1>3 DEF Clean
<1>4. CASE later = Append(frames, fresh)
  <2>1. ASSUME NEW i \in 1..Len(later), i > k
        PROVE  later[i] = None \/ later[i][b] = level
    BY <1>1, <1>4, <2>1
  <2> QED BY <1>1, <2>1 DEF Clean
<1>5. CASE frames # << >> /\ later = Tail(frames)
  <2> DEFINE j == IF k = 0 THEN 0 ELSE k - 1
  <2>1. j \in Nat /\ n + j < StableSamples /\ (j = 0 \/ Len(samples) <= n)
    BY <1>1, SamplesAssumption
  <2>2. ASSUME NEW i \in 1..Len(later), i > j
        PROVE  later[i] = None \/ later[i][b] = level
    <3>1. Len(frames) \in Nat \ {0} /\ Len(later) = Len(frames) - 1 /\ later[i] = frames[i + 1]
      <4>1. \A g \in Seq(Frames) : g # << >> =>
              /\ Len(g) \in Nat \ {0} /\ Len(Tail(g)) = Len(g) - 1
              /\ \A m \in 1..Len(Tail(g)) : Tail(g)[m] = g[m + 1]
        OBVIOUS
      <4> QED BY <1>5, <4>1
    <3>2. i + 1 \in 1..Len(frames) /\ i + 1 > k
      BY <2>2, <3>1
    <3> QED BY <1>1, <3>1, <3>2
  <2> HIDE DEF j
  <2> QED BY <1>1, <2>1, <2>2 DEF Clean
<1> QED BY <1>2, <1>3, <1>4, <1>5

(* A frame that is taken from the wire as a sample keeps samples clean.    *)
LEMMA CleanTakes ==
    ASSUME NEW samples \in Seq(Readings), NEW b \in Bits, NEW level,
           NEW frames \in Seq(Frames), Clean(samples, b, frames, level),
           frames # << >>, Head(frames) # None
    PROVE  Clean(Append(samples, Head(frames)), b, Tail(frames), level)
<1>1. PICK n \in Nat, k \in Nat :
        /\ n + k < StableSamples
        /\ \A i \in 1..Len(samples) : i > n => samples[i][b] = level
        /\ \A i \in 1..Len(frames) : i > k => frames[i] = None \/ frames[i][b] = level
        /\ k = 0 \/ Len(samples) <= n
  BY DEF Clean
<1> DEFINE more == Append(samples, Head(frames))
           rest == Tail(frames)
<1>2. /\ Len(more) = Len(samples) + 1 /\ more[Len(samples) + 1] = frames[1]
      /\ \A i \in 1..Len(samples) : more[i] = samples[i]
      /\ Len(frames) \in Nat \ {0} /\ Len(rest) = Len(frames) - 1
      /\ \A i \in 1..Len(rest) : rest[i] = frames[i + 1]
      /\ frames[1] # None /\ Len(samples) \in Nat
  OBVIOUS
<1> HIDE DEF more, rest
<1>3. CASE k = 0
  <2>1. ASSUME NEW i \in 1..Len(more), i > n PROVE more[i][b] = level
    <3>1. CASE i \in 1..Len(samples)
      BY <1>1, <1>2, <2>1, <3>1
    <3>2. CASE i = Len(samples) + 1
      BY <1>1, <1>2, <1>3, <3>2
    <3> QED BY <1>2, <3>1, <3>2
  <2>2. ASSUME NEW i \in 1..Len(rest), i > 0 PROVE rest[i] = None \/ rest[i][b] = level
    <3>1. i + 1 \in 1..Len(frames) /\ i + 1 > k
      BY <1>2, <1>3
    <3> QED BY <1>1, <1>2, <3>1
  <2>3. n + 0 < StableSamples
    BY <1>1, <1>3
  <2>4. Clean(more, b, rest, level)
    BY <2>1, <2>2, <2>3 DEF Clean
  <2> QED BY <2>4 DEF more, rest
<1>4. CASE k > 0
  <2>1. ASSUME NEW i \in 1..Len(more), i > n + 1 PROVE more[i][b] = level
    BY <1>1, <1>2, <1>4, <2>1
  <2>2. ASSUME NEW i \in 1..Len(rest), i > k - 1 PROVE rest[i] = None \/ rest[i][b] = level
    <3>1. i + 1 \in 1..Len(frames) /\ i + 1 > k
      BY <1>2, <2>2
    <3> QED BY <1>1, <1>2, <3>1
  <2>3. n + 1 \in Nat /\ k - 1 \in Nat /\ (n + 1) + (k - 1) < StableSamples /\ Len(more) <= n + 1
    BY <1>1, <1>2, <1>4, SamplesAssumption
  <2>4. Clean(more, b, rest, level)
    BY <2>1, <2>2, <2>3 DEF Clean
  <2> QED BY <2>4 DEF more, rest
<1> QED BY <1>3, <1>4

(* The baseline keeps its newest samples; while an old frame is on its     *)
(* way there are too few samples to drop one.                              *)
LEMMA CleanNewest ==
    ASSUME NEW samples \in Seq(Readings), NEW b \in Bits, NEW level,
           NEW frames, Clean(samples, b, frames, level)
    PROVE  Clean(Newest(samples), b, frames, level)
<1>1. CASE Len(samples) <= StableSamples
  BY <1>1 DEF Newest
<1>2. CASE Len(samples) > StableSamples
  <2>1. PICK n \in Nat, k \in Nat :
          /\ n + k < StableSamples
          /\ \A i \in 1..Len(samples) : i > n => samples[i][b] = level
          /\ \A i \in 1..Len(frames) : i > k => frames[i] = None \/ frames[i][b] = level
          /\ k = 0 \/ Len(samples) <= n
    BY DEF Clean
  <2> DEFINE cut == Len(samples) - StableSamples
             newest == SubSeq(samples, cut + 1, Len(samples))
  <2>2. Newest(samples) = newest
    BY <1>2, SamplesAssumption DEF Newest
  <2>3. /\ cut \in Nat /\ Len(newest) = StableSamples
        /\ \A i \in 1..Len(newest) : newest[i] = samples[i + cut] /\ i + cut \in 1..Len(samples)
    BY <1>2, SamplesAssumption
  <2>4. k = 0
    BY <1>2, <2>1, SamplesAssumption
  <2> HIDE DEF newest, cut
  <2>5. \A i \in 1..Len(newest) : i > n => newest[i][b] = level
    BY <2>1, <2>3, SamplesAssumption
  <2> QED BY <2>1, <2>2, <2>4, <2>5 DEF Clean
<1> QED BY <1>1, <1>2, SamplesAssumption

(* Enough clean samples end with the present level.                        *)
LEMMA CleanEnds ==
    ASSUME NEW samples \in Seq(Readings), NEW b \in Bits, NEW level,
           NEW frames, Clean(samples, b, frames, level), Unanimous(samples, b)
    PROVE  samples[1][b] = level
<1>1. PICK n \in Nat, k \in Nat :
        n + k < StableSamples /\ \A i \in 1..Len(samples) : i > n => samples[i][b] = level
  BY DEF Clean
<1>2. StableSamples \in 1..Len(samples) /\ StableSamples > n
  BY <1>1, SamplesAssumption DEF Unanimous
<1>3. samples[StableSamples][b] = level /\ samples[StableSamples][b] = samples[1][b]
  BY <1>1, <1>2, SamplesAssumption DEF Unanimous
<1> QED BY <1>3

(* A sample takes the first frame off the wire and stays traced: what it   *)
(* finishes with has changed since the start.                              *)
LEMMA SampledTraced ==
    ASSUME TestTypeOK, NEW s \in Sessions, s # None, TracedNow(s),
           wire # << >>, Head(wire) # None
    PROVE  Traced(Sampled(s, Head(wire)), tests, late, changedIn, Tail(wire), inputs)
<1> DEFINE r == Head(wire)
           rest == Tail(wire)
           calm == Bits \ changedIn[s.test]
<1>1. /\ wire \in Seq(Frames) /\ rest \in Seq(Frames) /\ r \in Readings
      /\ s # None /\ s.baseline \in Seq(Readings) /\ s.after \in Seq(Readings)
      /\ inputs \in Readings
  <2>1. wire \in Seq(Frames) /\ inputs \in Readings
    BY DEF TestTypeOK, Frames
  <2>2. Tail(wire) \in Seq(Frames) /\ Head(wire) \in Readings
    BY <2>1 DEF Frames
  <2>3. s.baseline \in Seq(Readings) /\ s.after \in Seq(Readings)
    BY DEF Sessions
  <2> QED BY <2>1, <2>2, <2>3
<1>2. s.test <= tests /\ Sampled(s, r).test = s.test
  BY <1>1 DEF TracedNow, Traced, Sampled, Finished, Sessions
<1> SUFFICES ASSUME late[s.test] < StableSamples
             PROVE  Traced(Sampled(s, r), tests, late, changedIn, rest, inputs)
  BY <1>2 DEF Traced
<1>3. /\ s.test <= tests /\ s.changed \subseteq changedIn[s.test]
      /\ \A b \in calm : Clean(s.baseline, b, wire, inputs[b]) /\ Clean(s.after, b, wire, inputs[b])
  BY <1>1 DEF TracedNow, Traced
<1>4. ASSUME NEW b \in calm, NEW samples \in Seq(Readings), Clean(samples, b, wire, inputs[b])
      PROVE  Clean(samples, b, rest, inputs[b])
  BY <1>1, <1>4, CleanStays DEF Frames
<1>5. ASSUME NEW b \in calm, NEW samples \in Seq(Readings), Clean(samples, b, wire, inputs[b])
      PROVE  Clean(Append(samples, r), b, rest, inputs[b])
  BY <1>1, <1>5, CleanTakes
<1>6. CASE s.phase = "baseline"
  <2> DEFINE samples == Newest(Append(s.baseline, r))
             t == Sampled(s, r)
  <2>1. t.test = s.test /\ t.changed = s.changed /\ t.after = s.after /\ t.baseline = samples
    BY <1>6 DEF Sampled, Sessions
  <2>2. Append(s.baseline, r) \in Seq(Readings)
    BY <1>1
  <2>3. ASSUME NEW b \in calm
        PROVE  Clean(samples, b, rest, inputs[b]) /\ Clean(s.after, b, rest, inputs[b])
    <3>1. Clean(Append(s.baseline, r), b, rest, inputs[b])
      BY <1>1, <1>3, <1>5
    <3> QED BY <1>1, <1>3, <1>4, <2>2, <3>1, CleanNewest
  <2> HIDE DEF t, samples
  <2>4. Traced(t, tests, late, changedIn, rest, inputs)
    BY <1>3, <2>1, <2>3 DEF Traced
  <2> QED BY <2>4 DEF t
<1>7. CASE s.phase = "after"
  <2> DEFINE after == Collected(s, r)
             grown == [s EXCEPT !.after = after]
             t == Finished(grown)
  <2>1. Sampled(s, r) = t
    BY <1>7 DEF Sampled
  <2>2. /\ grown.test = s.test /\ grown.changed = s.changed
        /\ grown.baseline = s.baseline /\ grown.after = after
    BY DEF Sessions
  <2>3. after \in Seq(Readings)
    BY <1>1, CollectedIsSeq
  <2>4. ASSUME NEW b \in calm
        PROVE  Clean(s.baseline, b, rest, inputs[b]) /\ Clean(after, b, rest, inputs[b])
    BY <1>1, <1>3, <1>4, <1>5 DEF Collected
  <2>5. StableDiff(s.baseline, after) \subseteq changedIn[s.test]
    <3> SUFFICES ASSUME NEW b \in StableDiff(s.baseline, after), b \notin changedIn[s.test]
                 PROVE  FALSE
      OBVIOUS
    <3>1. /\ b \in calm /\ Unanimous(s.baseline, b) /\ Unanimous(after, b)
          /\ s.baseline[1][b] # after[1][b]
      BY DEF StableDiff
    <3>2. s.baseline[1][b] = inputs[b] /\ after[1][b] = inputs[b]
      BY <1>1, <2>3, <2>4, <3>1, CleanEnds
    <3> QED BY <3>1, <3>2
  <2>6. /\ t.test = s.test /\ t.baseline = s.baseline /\ t.after = after
        /\ t.changed \in {s.changed, StableDiff(s.baseline, after)}
    <3>1. grown \in Sessions
      BY <2>3 DEF Sessions
    <3> HIDE DEF grown
    <3> QED BY <2>2, <3>1 DEF Finished, Sessions
  <2> HIDE DEF t, after
  <2>7. Traced(t, tests, late, changedIn, rest, inputs)
    BY <1>3, <2>4, <2>5, <2>6 DEF Traced
  <2> QED BY <2>1, <2>7
<1>8. CASE s.phase \notin {"baseline", "after"}
  <2>1. Sampled(s, r) = s
    BY <1>8 DEF Sampled
  <2>2. \A b \in calm : Clean(s.baseline, b, rest, inputs[b]) /\ Clean(s.after, b, rest, inputs[b])
    BY <1>1, <1>3, <1>4
  <2> QED BY <1>3, <2>1, <2>2 DEF Traced
<1> QED BY <1>6, <1>7, <1>8

(* How a step may move the board for a copy of a test to stay traced.      *)
BoardMoves ==
    /\ tests <= tests'
    /\ \A t \in 1..MaxTests : t <= tests => late'[t] = late[t]
    /\ \A t \in 1..MaxTests : changedIn[t] \subseteq changedIn'[t]
    /\ \A b \in Bits : inputs'[b] = inputs[b]
                       \/ \A t \in 1..MaxTests : t <= tests => b \in changedIn'[t]
    /\ \/ wire' = wire \/ wire' = << >>
       \/ wire' = Append(wire, inputs) \/ wire' = Append(wire, None)
       \/ wire # << >> /\ wire' = Tail(wire)

LEMMA TracedStays ==
    ASSUME TestTypeOK, TestTypeOK', BoardMoves, NEW s \in TestRows, TracedNow(s)
    PROVE  TracedLater(s)
<1> SUFFICES ASSUME s # None PROVE TracedLater(s)
  BY DEF TracedLater, Traced
<1>1. /\ s \in Sessions /\ s.test \in 1..MaxTests
      /\ s.baseline \in Seq(Readings) /\ s.after \in Seq(Readings)
  BY DEF TestRows, Sessions
<1>2. s.test <= tests
  BY DEF TracedNow, Traced
<1>3. s.test <= tests'
  <2>1. tests \in 0..MaxTests /\ tests' \in 0..MaxTests
    BY DEF TestTypeOK
  <2>2. s.test \in Nat /\ tests \in Nat /\ tests' \in Nat /\ tests <= tests'
    BY <1>1, <2>1, BoundsAssumption DEF BoardMoves
  <2> QED BY <1>2, <2>2
<1>4. late'[s.test] = late[s.test]
  BY <1>1, <1>2 DEF BoardMoves
<1> SUFFICES ASSUME late[s.test] < StableSamples PROVE TracedLater(s)
  BY <1>3, <1>4 DEF TracedLater, Traced
<1>5. /\ s.test <= tests /\ s.changed \subseteq changedIn[s.test]
      /\ \A b \in Bits \ changedIn[s.test] :
           Clean(s.baseline, b, wire, inputs[b]) /\ Clean(s.after, b, wire, inputs[b])
  BY DEF TracedNow, Traced
<1>6. s.changed \subseteq changedIn'[s.test]
  BY <1>1, <1>5 DEF BoardMoves
<1>7. ASSUME NEW b \in Bits \ changedIn'[s.test], NEW samples \in Seq(Readings),
             Clean(samples, b, wire, inputs[b])
      PROVE  Clean(samples, b, wire', inputs'[b])
  <2>1. inputs'[b] = inputs[b]
    BY <1>1, <1>5, <1>7 DEF BoardMoves
  <2>2. wire \in Seq(Frames) /\ wire' \in Seq(Frames) /\ inputs \in Frames /\ None \in Frames
    BY DEF TestTypeOK, Frames
  <2>3. CASE wire' = Append(wire, inputs)
    BY <1>7, <2>1, <2>2, <2>3, CleanStays
  <2>4. CASE wire' # Append(wire, inputs)
    BY <1>7, <2>1, <2>2, <2>4, CleanStays DEF BoardMoves
  <2> QED BY <2>3, <2>4
<1>8. \A b \in Bits \ changedIn'[s.test] : b \in Bits \ changedIn[s.test]
  BY <1>1 DEF BoardMoves
<1>9. ASSUME NEW b \in Bits \ changedIn'[s.test]
      PROVE  Clean(s.baseline, b, wire', inputs'[b]) /\ Clean(s.after, b, wire', inputs'[b])
  BY <1>1, <1>5, <1>7, <1>8, <1>9
<1> QED BY <1>3, <1>6, <1>9 DEF TracedLater, Traced

(* The journal stays true when bits are only added to what has changed.    *)
LEMMA LogStaysTrue ==
    ASSUME TestTypeOK, TestTypeOK', \A i \in 1..Len(log) : Sound(log[i]), BoardMoves,
           log' = log \/ \E e \in Entries : log' = Append(log, e) /\ Sound(e)
    PROVE  (\A i \in 1..Len(log) : Sound(log[i]))'
<1> SUFFICES ASSUME NEW i \in 1..Len(log')
             PROVE  /\ log'[i].test <= tests'
                    /\ late'[log'[i].test] < StableSamples
                       => log'[i].changed \subseteq changedIn'[log'[i].test]
  BY DEF Sound
<1>1. log \in Seq(Entries) /\ log' \in Seq(Entries)
  BY DEF TestTypeOK
<1>2. log'[i] \in Entries /\ log'[i].test \in 1..MaxTests
  <2>1. log'[i] \in Entries
    BY <1>1
  <2> QED BY <2>1 DEF Entries
<1>3. Sound(log'[i])
  <2>1. CASE log' = log
    BY <2>1
  <2>2. ASSUME NEW e \in Entries, log' = Append(log, e), Sound(e) PROVE Sound(log'[i])
    <3>1. (i \in 1..Len(log) /\ log'[i] = log[i]) \/ log'[i] = e
      BY <1>1, <2>2
    <3> QED BY <2>2, <3>1
  <2> QED BY <2>1, <2>2
<1>4. tests \in Nat /\ tests' \in Nat /\ log'[i].test \in Nat
  <2>1. tests \in 0..MaxTests /\ tests' \in 0..MaxTests
    BY DEF TestTypeOK
  <2> QED BY <1>2, <2>1, BoundsAssumption
<1> DEFINE t == log'[i].test
<1>5. t \in 1..MaxTests /\ t <= tests /\ tests <= tests'
      /\ (late[t] < StableSamples => log'[i].changed \subseteq changedIn[t])
  BY <1>2, <1>3 DEF BoardMoves, Sound
<1>6. late'[t] = late[t] /\ changedIn[t] \subseteq changedIn'[t]
  BY <1>5 DEF BoardMoves
<1> HIDE DEF t
<1>7. t <= tests' /\ (late'[t] < StableSamples => log'[i].changed \subseteq changedIn'[t])
  BY <1>4, <1>5, <1>6 DEF t
<1> QED BY <1>7 DEF t

(* A step after which every copy is one of the traced copies before it, or *)
(* is traced in the new state, keeps the invariant.                        *)
Inherits(s) ==
    \/ s \in TestRows /\ TracedNow(s)
    \/ TracedLater(s)

LEMMA TraceStep ==
    ASSUME TraceInv, TestTypeOK', BoardMoves,
           Inherits(session'), Inherits(sample'.read), Inherits(sample'.written),
           \A h \in Handlers : Inherits(request'[h].session),
           log' = log \/ \E e \in Entries : log' = Append(log, e) /\ Sound(e)
    PROVE  TraceInv'
<1>1. ASSUME NEW s, Inherits(s) PROVE TracedLater(s)
  BY <1>1, TracedStays DEF Inherits, TraceInv
<1>2. TracedLater(session') /\ TracedLater(sample'.read) /\ TracedLater(sample'.written)
  BY <1>1
<1>3. \A h \in Handlers : TracedLater(request'[h].session)
  BY <1>1
<1>4. (\A i \in 1..Len(log) : Sound(log[i]))'
  BY LogStaysTrue DEF TraceInv
<1> QED BY <1>2, <1>3, <1>4 DEF TraceInv, TracedNow, TracedLater

(* The copies a step does not touch.                                       *)
LEMMA CopiesInherit ==
    ASSUME TraceInv
    PROVE  /\ Inherits(session) /\ Inherits(sample.read) /\ Inherits(sample.written)
           /\ Inherits(None) /\ \A h \in Handlers : Inherits(request[h].session)
<1>1. /\ session \in TestRows /\ sample.read \in TestRows /\ sample.written \in TestRows
      /\ \A h \in Handlers : request[h].session \in TestRows
  BY DEF TraceInv, TestTypeOK, TestRows
<1>2. TracedLater(None)
  BY DEF TracedLater, Traced
<1> QED BY <1>1, <1>2 DEF TraceInv, Inherits

LEMMA BoardTraced == ASSUME TraceInv, BoardNext PROVE TraceInv'
<1>1. TestTypeOK'
  BY BoardKeepsTypes DEF TraceInv
<1>2. UNCHANGED <<session, log, sample, request, tests, late>>
  BY DEF BoardNext, Report, ReportBare, Flip, testVars
<1>3. /\ wire \in Seq(Frames) /\ inputs \in Readings /\ tests \in 0..MaxTests
      /\ changedIn \in [1..MaxTests -> SUBSET Bits]
  BY DEF TraceInv, TestTypeOK, Frames
<1>4. BoardMoves
  <2>1. CASE Report \/ ReportBare
    <3>1. /\ UNCHANGED <<inputs, changedIn>>
          /\ wire' = Append(wire, inputs) \/ wire' = Append(wire, None)
      BY <2>1 DEF Report, ReportBare
    <3> QED BY <1>2, <1>3, <3>1 DEF BoardMoves
  <2>2. ASSUME NEW b \in Bits, Flip(b) PROVE BoardMoves
    <3>1. /\ UNCHANGED wire
          /\ inputs' = [inputs EXCEPT ![b] = ~@]
          /\ changedIn' = [t \in 1..MaxTests |-> IF t <= tests THEN changedIn[t] \cup {b}
                                                 ELSE changedIn[t]]
      BY <2>2 DEF Flip
    <3>2. \A c \in Bits : c # b => inputs'[c] = inputs[c]
      BY <1>3, <3>1 DEF Readings
    <3>3. \A t \in 1..MaxTests : changedIn[t] \subseteq changedIn'[t]
                                /\ (t <= tests => b \in changedIn'[t])
      BY <3>1
    <3>4. tests <= tests'
      BY <1>2, <1>3
    <3> QED BY <1>2, <1>3, <3>1, <3>2, <3>3, <3>4 DEF BoardMoves
  <2> QED BY <2>1, <2>2 DEF BoardNext
<1> QED BY <1>1, <1>2, <1>4, TraceStep, CopiesInherit

(* Steps that leave the board alone.                                       *)
LEMMA BoardStays ==
    ASSUME TestTypeOK, UNCHANGED boardVars, tests <= tests',
           \A t \in 1..MaxTests : t <= tests => late'[t] = late[t]
    PROVE  BoardMoves
  BY DEF BoardMoves, boardVars

LEMMA GatewayTraced == ASSUME TraceInv, GatewayNext PROVE TraceInv'
<1>1. TestTypeOK'
  BY GatewayKeepsTypes DEF TraceInv
<1>2. /\ wire \in Seq(Frames) /\ inputs \in Readings /\ tests \in 0..MaxTests
      /\ changedIn \in [1..MaxTests -> SUBSET Bits]
      /\ sample.written \in TestRows
  BY DEF TraceInv, TestTypeOK, Frames, TestRows
<1>3. tests' = tests /\ late' = late
  BY DEF GatewayNext, ReadSession, CommitSample, GatewayDies
<1>4. CASE ReadSession
  <2>1. /\ UNCHANGED <<session, log, request, inputs, changedIn>>
        /\ wire # << >> /\ wire' = Tail(wire)
        /\ sample'.read = session
        /\ sample'.written = IF session # None /\ Pair(Head(wire))
                             THEN Sampled(session, Head(wire)) ELSE session
    BY <1>4 DEF ReadSession, testVars
  <2>2. BoardMoves
    BY <1>2, <1>3, <2>1 DEF BoardMoves
  <2>4. Inherits(sample'.written)
    <3>1. CASE session # None /\ Pair(Head(wire))
      <4>1. session \in Sessions /\ TracedNow(session) /\ Head(wire) # None
        BY <3>1 DEF TraceInv, TestTypeOK, Pair
      <4>2. Traced(Sampled(session, Head(wire)), tests, late, changedIn, Tail(wire), inputs)
        BY <2>1, <3>1, <4>1, SampledTraced DEF TraceInv
      <4> QED BY <1>3, <2>1, <3>1, <4>2 DEF Inherits, TracedLater
    <3>2. CASE ~(session # None /\ Pair(Head(wire)))
      BY <2>1, <3>2, CopiesInherit
    <3> QED BY <3>1, <3>2
  <2> QED BY <1>1, <2>1, <2>2, <2>4, TraceStep, CopiesInherit
<1>5. CASE CommitSample
  <2>1. /\ UNCHANGED <<boardVars, request, tests>> /\ sample' = NoSample
        /\ session' \in {session, sample.written}
        /\ log' = IF Ends THEN Append(log, Entry(sample.written)) ELSE log
    BY <1>5 DEF CommitSample
  <2>2. ASSUME Ends
        PROVE  Entry(sample.written) \in Entries /\ Sound(Entry(sample.written))
    <3>1. sample.written \in Sessions /\ sample.written # None /\ TracedNow(sample.written)
      BY <1>2, <2>2 DEF Ends, TraceInv, TestRows
    <3> QED BY <3>1, EntryIsEntry DEF TracedNow, Traced, Entry, Sound
  <2>3. BoardMoves
    BY <1>2, <1>3, <2>1, BoardStays DEF TraceInv
  <2>4. sample'.read = None /\ sample'.written = None
    BY <2>1 DEF NoSample
  <2> QED BY <1>1, <1>2, <2>1, <2>2, <2>3, <2>4, TraceStep, CopiesInherit
<1>6. CASE GatewayDies
  <2>1. /\ UNCHANGED <<session, log, inputs, changedIn, request>>
        /\ sample' = NoSample /\ wire' = << >>
    BY <1>6 DEF GatewayDies, testVars
  <2>2. BoardMoves
    BY <1>2, <1>3, <2>1 DEF BoardMoves
  <2>4. sample'.read = None /\ sample'.written = None
    BY <2>1 DEF NoSample
  <2> QED BY <1>1, <2>1, <2>2, <2>4, TraceStep, CopiesInherit
<1> QED BY <1>4, <1>5, <1>6 DEF GatewayNext

LEMMA WebTraced == ASSUME TraceInv, WebNext PROVE TraceInv'
<1>1. TestTypeOK'
  BY WebKeepsTypes DEF TraceInv
<1>2. /\ wire \in Seq(Frames) /\ tests \in 0..MaxTests
      /\ late \in [1..MaxTests -> Nat]
      /\ request \in [Handlers -> Requests]
  BY DEF TraceInv, TestTypeOK, Frames, Requests, TestRows
<1>3. UNCHANGED <<boardVars, sample, log>> /\ tests <= tests'
  BY <1>2 DEF WebNext, Reset, Start, Mark, Confirm, EditForm, Commit, Opens, testVars
<1>4. \A t \in 1..MaxTests : t <= tests => late'[t] = late[t]
  <2>1. ASSUME NEW p \in Pins, Start(p), NEW t \in 1..MaxTests, t <= tests
        PROVE  late'[t] = late[t]
    BY <1>2, <2>1 DEF Start
  <2>2. UNCHANGED late \/ \E p \in Pins : Start(p)
    BY DEF WebNext, Reset, Mark, Confirm, EditForm, Commit, Opens
  <2> QED BY <2>1, <2>2
<1>5. BoardMoves /\ wire' = wire
  BY <1>3, <1>4, BoardStays DEF TraceInv, boardVars
<1>6. CASE Reset
  BY <1>1, <1>2, <1>3, <1>5, <1>6, TraceStep, CopiesInherit DEF Reset
<1>7. ASSUME NEW p \in Pins, Start(p) PROVE TraceInv'
  <2>1. session' = FreshTest(tests + 1, p) /\ tests' = tests + 1 /\ UNCHANGED request
    BY <1>7 DEF Start, NewTest
  <2>2. /\ session'.test = tests + 1 /\ session'.changed = {}
        /\ session'.baseline = << >> /\ session'.after = << >>
    BY <2>1 DEF FreshTest
  <2>3. late'[session'.test] < StableSamples =>
           \A b : /\ Clean(session'.baseline, b, wire', inputs'[b])
                  /\ Clean(session'.after, b, wire', inputs'[b])
    <3>1. tests + 1 \in 1..MaxTests
      BY <1>2, <1>7, BoundsAssumption DEF Start
    <3>2. late'[session'.test] = Len(wire)
      BY <1>2, <1>7, <2>2, <3>1 DEF Start
    <3> QED BY <1>2, <1>5, <2>2, <3>2, NoSamplesClean
  <2>4. session'.test <= tests'
    BY <1>2, <2>1, <2>2
  <2>5. Inherits(session')
    BY <2>2, <2>3, <2>4 DEF Inherits, TracedLater, Traced
  <2> QED BY <1>1, <1>2, <1>3, <1>5, <2>1, <2>5, TraceStep, CopiesInherit
<1>8. ASSUME NEW h \in Handlers, NEW op, NEW s, NEW m, Opens(h, op, s, m), Inherits(s)
      PROVE  TraceInv'
  <2>1. UNCHANGED session
        /\ request' = [request EXCEPT ![h] = [op |-> op, session |-> s, map |-> m]]
    BY <1>8 DEF Opens, testVars
  <2>2. \A k \in Handlers : request'[k].session = IF k = h THEN s ELSE request[k].session
    BY <1>2, <2>1
  <2>3. \A k \in Handlers : Inherits(request'[k].session)
    BY <1>8, <2>2, CopiesInherit
  <2> QED BY <1>1, <1>2, <1>3, <1>5, <2>1, <2>3, TraceStep, CopiesInherit
<1>9. ASSUME NEW h \in Handlers, Mark(h) PROVE TraceInv'
  <2> DEFINE t == Marked(session)
  <2>1. session \in Sessions /\ session # None /\ TracedNow(session)
        /\ Opens(h, "mark", t, map)
    BY <1>9 DEF Mark, Markable, TraceInv, TestTypeOK
  <2>2. /\ t.test = session.test /\ t.changed = {}
        /\ t.baseline = session.baseline /\ t.after = << >>
    BY <2>1 DEF Marked, Sessions
  <2>3. t \in TestRows
    BY <2>1, MarkIsSession DEF TestRows
  <2> HIDE DEF t
  <2>4. ASSUME NEW b, Clean(session.baseline, b, wire, inputs[b])
        PROVE  Clean(t.after, b, wire, inputs[b])
    BY <2>1, <2>2, <2>4, CleanRestarts DEF Sessions
  <2>5. TracedNow(t)
    BY <2>1, <2>2, <2>4 DEF TracedNow, Traced
  <2> QED BY <1>8, <2>1, <2>3, <2>5 DEF Inherits
<1>10. ASSUME NEW h \in Handlers, Confirm(h) PROVE TraceInv'
  <2>1. \E m : Opens(h, "map", None, m)
    BY <1>10 DEF Confirm
  <2> QED BY <1>8, <2>1, CopiesInherit
<1>11. CASE EditForm
  BY <1>1, <1>2, <1>3, <1>5, <1>11, TraceStep, CopiesInherit DEF EditForm
<1>12. ASSUME NEW h \in Handlers, Commit(h) PROVE TraceInv'
  <2>1. /\ session' \in {session, request[h].session}
        /\ request' = [request EXCEPT ![h] = NoRequest]
    BY <1>12 DEF Commit
  <2>2. \A k \in Handlers : request'[k].session = IF k = h THEN None ELSE request[k].session
    BY <1>2, <2>1 DEF NoRequest
  <2>3. \A k \in Handlers : Inherits(request'[k].session)
    BY <2>2, CopiesInherit
  <2> QED BY <1>1, <1>2, <1>3, <1>5, <2>1, <2>3, TraceStep, CopiesInherit
<1> QED BY <1>6, <1>7, <1>9, <1>10, <1>12, <1>11 DEF WebNext

(* A logged bit has changed at the board since its test was started, for   *)
(* every test at whose start fewer frames were on their way than a test    *)
(* takes samples: it takes one sample from after the start to tell.        *)
THEOREM LoggedBitsChanged == TestSpec => []LoggedHasChanged
<1>1. TestInit => TraceInv
  <2> SUFFICES ASSUME TestInit PROVE TraceInv
    OBVIOUS
  <2>1. TestTypeOK /\ Len(log) = 0
    BY TypesInit DEF TestInit
  <2> QED BY <2>1 DEF TestInit, TraceInv, TracedNow, Traced, NoSample, NoRequest
<1>2. TraceInv /\ [TestNext]_inputVars => TraceInv'
  <2>1. ASSUME TraceInv, UNCHANGED inputVars PROVE TraceInv'
    BY <2>1 DEF inputVars, testVars, boardVars, TraceInv, TestTypeOK, TracedNow,
                Traced, Sound
  <2> QED BY <2>1, BoardTraced, GatewayTraced, WebTraced DEF TestNext
<1>3. TraceInv => LoggedHasChanged
  BY DEF TraceInv, Sound, LoggedHasChanged
<1> QED BY <1>1, <1>2, <1>3, PTL DEF TestSpec
=============================================================================
