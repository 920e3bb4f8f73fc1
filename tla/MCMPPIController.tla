---------------------------- MODULE MCMPPIController ----------------------------
(* A small instance of MPPIController: an obstacle critic that may veto     *)
(* between two that may not, two tensor shapes, two maximum velocities, up  *)
(* to two retries and two iterations.                                       *)
EXTENDS MPPIController

MCSettings ==
    { [shape |-> 1, base |-> 4, retries |-> 1, iterations |-> 1],
      [shape |-> 2, base |-> 2, retries |-> 2, iterations |-> 1],
      [shape |-> 1, base |-> 2, retries |-> 0, iterations |-> 2],
      [shape |-> 2, base |-> 4, retries |-> 1, iterations |-> 0] }

MCLimits ==
    { [kind |-> "none", value |-> 0],
      [kind |-> "percent", value |-> 50],
      [kind |-> "absolute", value |-> 3] }
===============================================================================
