--------------------------- MODULE MCControlSequence ---------------------------
(* Sequences just long enough to be smoothed (21 samples, so every sample of   *)
(* the filter's head, body and tail) and one too short; the default limits in  *)
(* hundredths; rollouts at a limit, turning on the spot, and swinging between. *)
EXTENDS ControlSequence

All(f(_)) == [a \in Axes |-> [i \in 0..(MaxSteps - 1) |-> f(i)]]
Full(i)    == 60
Swing(i)   == IF i < 2 \/ i % 7 > 3 THEN -60 ELSE 60
Turn == [a \in Axes |-> [i \in 0..(MaxSteps - 1) |-> IF a = "wz" THEN -30 ELSE 10 - i]]

MCAverages == {All(Full), All(Swing), Turn}

Default == [a \in Axes |-> CASE a = "vx" -> [lo |-> -35, hi |-> 50]
                              [] a = "vy" -> [lo |-> -50, hi |-> 50]
                              [] a = "wz" -> [lo |-> -38, hi |-> 38]]
Set(steps, model, shift) == [steps |-> steps, model |-> model, shift |-> shift, base |-> Default]
MCConfigs ==
    {Set(21, "DiffDrive", TRUE), Set(21, "Omni", FALSE), Set(21, "Ackermann", TRUE),
     Set(6, "Omni", TRUE)}

MCNoLimit == {[percentage |-> FALSE, limit |-> 0]}
MCSpeedLimits == MCNoLimit \cup
    {[percentage |-> TRUE, limit |-> 50],
     [percentage |-> FALSE, limit |-> 80]}
===============================================================================
