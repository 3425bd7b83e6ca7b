--------------------------- MODULE MCPollsAndTests ---------------------------
(* The polls of the cabinets and the input test of a board, which share    *)
(* nothing: a behaviour is one of either.  Those of the input test are of  *)
(* two kinds, each with what makes it hard and less of the rest: frames on *)
(* their way, marks and faults in tests of one pin without confirmations,  *)
(* and confirmations and forms between tests of several pins with one mark *)
(* and at most one frame on its way.  The inputs of the board are low at   *)
(* first: nothing in the test tells a level from its opposite.  The board  *)
(* is the pilot, after the migration.  Two requests that are both idle     *)
(* differ in nothing, so that h1 may as well be the first of them.         *)
EXTENDS IrzPolling, InputTest

CONSTANTS h1, h2

VARIABLE area

InPolls == area = "polls"

AllLow == inputs = [b \in Bits |-> FALSE]

PilotConfirmed == \A p \in PilotPins : map[p] # None

BothInit ==
    area \in {"polls", "frames", "maps"} /\ Init /\ TestInit /\ AllLow /\ PilotConfirmed

FirstIsH1 == request[h2] = request'[h2] \/ request'[h2] = NoRequest \/ request[h1] # NoRequest

OfFrames ==
    /\ left'.saves = Saves /\ left'.marks + left'.faults >= Marks + Faults - 2
    /\ session' # None => session'.pin \notin PilotPins

OfMaps ==
    /\ left'.marks >= Marks - 1 /\ left'.faults = Faults
    /\ Len(wire') <= IF sample'.busy THEN 0 ELSE 1

BothNext ==
    \/ InPolls /\ Next /\ UNCHANGED <<area, inputVars>>
    \/ area = "frames" /\ TestNext /\ FirstIsH1 /\ OfFrames /\ UNCHANGED <<area, vars>>
    \/ area = "maps" /\ TestNext /\ FirstIsH1 /\ OfMaps /\ UNCHANGED <<area, vars>>

(* Fairness, of the behaviours of the polls, and TestFairness, of those of *)
(* the test.                                                               *)
BothFairness ==
    /\ WF_vars(InPolls /\ Tick) /\ WF_vars(InPolls /\ Fetch)
    /\ WF_vars(InPolls /\ \E d \in Atms : Submit(d))
    /\ \A w \in Pool : WF_vars(InPolls /\ Take(w))
    /\ \A p \in Pollers : WF_vars(InPolls /\ Works(p))
    /\ WF_inputVars(~InPolls /\ Report) /\ WF_inputVars(~InPolls /\ ReadSession)
    /\ WF_inputVars(~InPolls /\ CommitSample)

BothSpec == BothInit /\ [][BothNext]_<<area, vars, inputVars>> /\ BothFairness
=============================================================================
