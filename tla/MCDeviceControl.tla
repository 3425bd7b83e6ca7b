-------------------------- MODULE MCDeviceControl --------------------------
(* Values for the constants of DeviceControl. *)
EXTENDS DeviceControl

Night   == [r \in {"C6", "C7"} |-> 1]
Day     == [r \in {"C6", "C7"} |-> 0]
LampOn  == [r \in {"C8"} |-> 1]
LampOff == [r \in {"C8"} |-> 0]

NightOnly == {Night}
NightDay == {Night, Day}
LampOnly == {LampOn}
NightAndLamp == {Night, LampOn}
LampOnOff == {LampOn, LampOff}

Symmetric == Permutations(Commands) \cup Permutations(Workers)
=============================================================================
