--------------------------------- MODULE Mission ---------------------------------
(***************************************************************************)
(* What the benchmark may rely on when it announces paths to Nav2:         *)
(*   - the path announced is the mission, however often it is repeated;    *)
(*   - it is driven by one goal after the other until one succeeds, and no *)
(*     goal is given up for a repetition;                                  *)
(*   - a mission that was driven to its end is over;                       *)
(*   - another path is another mission.                                    *)
(* All this as long as nothing is under way when another path comes.       *)
(***************************************************************************)
CONSTANT Paths

VARIABLES
    path,       \* of the mission
    status,     \* "open", "driving", "done", or "void": no promise is left
    busy        \* an announcement or a goal is under way

vars == <<path, status, busy>>

Init == path \in Paths /\ status = "open" /\ busy = TRUE

\* Announcements come and go, and the goal with them only by what follows.
Announce ==
    /\ status \in {"open", "done"} /\ busy' \in BOOLEAN
    /\ UNCHANGED <<path, status>>

Start ==
    /\ status = "open" /\ busy
    /\ status' = "driving"
    /\ UNCHANGED <<path, busy>>

\* Rejected, or aborted by the controller.
Fail ==
    /\ status = "driving"
    /\ status' = "open" /\ busy' \in BOOLEAN
    /\ UNCHANGED path

Succeed ==
    /\ status = "driving"
    /\ status' = "done" /\ busy' \in BOOLEAN
    /\ UNCHANGED path

Assign ==
    /\ status # "void" /\ ~busy
    /\ path' \in Paths \ {path} /\ status' = "open" /\ busy' = TRUE

\* Another path comes while something is under way.
Breach ==
    /\ status # "void" /\ busy
    /\ path' \in Paths \ {path} /\ status' = "void" /\ busy' \in BOOLEAN

Adrift ==
    /\ status = "void" /\ status' = "void"
    /\ path' \in Paths /\ busy' \in BOOLEAN

Next == Announce \/ Start \/ Fail \/ Succeed \/ Assign \/ Breach \/ Adrift

Spec == Init /\ [][Next]_vars
===============================================================================
