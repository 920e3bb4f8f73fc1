----------------------------- MODULE ControlService -----------------------------
(***************************************************************************)
(* What MPPIController promises to whoever calls it, of a call of          *)
(* computeVelocityCommands and of the parameters, whatever threads, locks, *)
(* iterations and resets it is made of:                                    *)
(*   - a call that goes on to evaluate works with one set of parameters;   *)
(*   - it commands only what every critic has judged and none has vetoed;  *)
(*   - it gives up only after a veto in all the attempts the parameters    *)
(*     allow, counted for this call alone;                                 *)
(*   - what it remembers for the next call is a command, or nothing.       *)
(***************************************************************************)
EXTENDS Naturals

CONSTANT Settings       \* records with retries and iterations

VARIABLES
    serving,    \* "none", "asked" or "evaluating"
    params,     \* the parameters
    attempts,   \* of this call
    judged,     \* every critic has judged the rollouts at hand
    vetoed,     \* one found that they all collide
    remembers   \* controls of earlier calls are kept

vars == <<serving, params, attempts, judged, vetoed, remembers>>

Init ==
    /\ serving = "none" /\ params \in Settings
    /\ attempts = 0 /\ judged = FALSE /\ vetoed = FALSE /\ remembers = FALSE

Ask ==
    /\ serving = "none" /\ serving' = "asked"
    /\ UNCHANGED <<params, attempts, judged, vetoed, remembers>>

\* There is no plan to follow.
Decline ==
    /\ serving = "asked" /\ serving' = "none"
    /\ UNCHANGED <<params, attempts, judged, vetoed, remembers>>

\* Nothing is judged yet, unless there are no critics.
Begin ==
    /\ serving = "asked" /\ serving' = "evaluating"
    /\ attempts' = 1 /\ judged' \in BOOLEAN /\ vetoed' = FALSE
    /\ UNCHANGED <<params, remembers>>

\* A veto is not taken back.
Deliberate ==
    /\ serving = "evaluating"
    /\ judged' \in BOOLEAN /\ vetoed' \in {vetoed, TRUE}
    /\ UNCHANGED <<serving, params, attempts, remembers>>

Retry ==
    /\ serving = "evaluating" /\ vetoed
    /\ attempts <= params.retries
    /\ attempts' = attempts + 1
    /\ remembers' = FALSE
    /\ UNCHANGED <<serving, params, judged, vetoed>>

Ends == serving' = "none" /\ attempts' = 0 /\ judged' = FALSE /\ vetoed' = FALSE

GiveUp ==
    /\ serving = "evaluating" /\ vetoed
    /\ attempts = params.retries + 1
    /\ Ends /\ remembers' = FALSE
    /\ UNCHANGED params

Command ==
    /\ serving = "evaluating" /\ ~vetoed
    /\ judged \/ params.iterations = 0
    /\ Ends /\ remembers' = TRUE
    /\ UNCHANGED params

\* Inactivity and new parameters make it forget.
Forget ==
    /\ serving # "evaluating"
    /\ remembers' = FALSE
    /\ UNCHANGED <<serving, params, attempts, judged, vetoed>>

ChangeParameters ==
    /\ serving # "evaluating"
    /\ params' \in Settings
    /\ UNCHANGED <<serving, attempts, judged, vetoed, remembers>>

Next == Ask \/ Decline \/ Begin \/ Deliberate \/ Retry \/ GiveUp \/ Command \/ Forget \/ ChangeParameters

Spec == Init /\ [][Next]_vars
===============================================================================
