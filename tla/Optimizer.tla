------------------------------- MODULE Optimizer -------------------------------
(***************************************************************************)
(* mppi::Optimizer: one call of evalControl, from prepare() to the command *)
(* or the exception, and the state that survives from one call to the      *)
(* next.  The module declares that state and one action per function; who  *)
(* calls them, on which thread and under which lock, is MPPIController's.  *)
(*                                                                         *)
(* Tensors are abstracted to their shape, the control sequence to where it *)
(* comes from, and the costs to the rollouts whose scores they contain.    *)
(* The velocity constraints are the base ones scaled by one ratio, if all  *)
(* are stored for the same limit: each is represented by the vx_max that   *)
(* belongs to the ratio it was stored with.                                *)
(***************************************************************************)
EXTENDS Naturals, FiniteSets

CONSTANTS
    NumCritics,    \* critics loaded by the critic manager, called in the order 1, 2, ...
    Vetoing,       \* those that may set fail_flag (obstacles_critic, cost_critic)
    Settings       \* values of settings_ the parameters may take (a set of records)

Param == [shape : {1, 2}, base : Nat \ {0}, retries : Nat, iterations : Nat]

ASSUME OptimizerAssumption ==
    /\ NumCritics \in Nat
    /\ Vetoing \subseteq 1..NumCritics
    /\ Settings # {} /\ Settings \subseteq Param

Critics == 1..NumCritics

\* The tensors reset() reshapes: state_, control_sequence_ (with the control
\* history), and costs_ with generated_trajectories_ and the noises.
Parts == {"state", "sequence", "rollouts"}

\* settings_.constraints.
Bounds == {"vx_max", "vx_min", "vy", "wz"}

VARIABLES
    opc,        \* where evalControl is
    settings,   \* settings_ but for the constraints
    constraints, \* settings_.constraints, each as the vx_max it was scaled for
    tensors,    \* the shape of each of Parts
    seq,        \* control_sequence_: "zero", "feasible" or "failed" (its last update)
    hist,       \* control_history_: "zero" or "used"
    counter,    \* fallback's function-local static counter
    failFlag,   \* critics_data_.fail_flag
    iter,       \* iterations done in this pass of optimize()
    next,       \* the next critic to call
    scored,     \* critics that have scored the current rollouts and not vetoed them
    costs,      \* rollouts whose scores are summed in costs_: "current", "earlier"
    passes      \* history: passes of optimize() in this call

evalVars  == <<counter, failFlag, iter, next, scored, passes>>
modelVars == <<constraints, tensors, seq, hist, costs>>
optVars   == <<opc, settings, modelVars, evalVars>>

OptInit ==
    /\ opc = "idle"
    /\ settings \in Settings
    /\ constraints = [b \in Bounds |-> settings.base]
    /\ tensors = [p \in Parts |-> settings.shape]
    /\ seq = "zero" /\ hist = "zero" /\ costs = {}
    /\ counter = 0 /\ failFlag = FALSE /\ iter = 0 /\ next = 1
    /\ scored = {} /\ passes = 0

----------------------------------------------------------------------------
(* The effect of reset(), in one piece for a caller that nobody races.      *)

\* Mutant: the constraints are not restored from base_constraints.
ResetModelKeepsLimit ==
    /\ tensors' = [p \in Parts |-> settings.shape]
    /\ seq' = "zero" /\ hist' = "zero" /\ costs' = {}
    /\ UNCHANGED constraints

\* Mutant: the costs are not zeroed.
ResetModelKeepsCosts ==
    /\ constraints' = [b \in Bounds |-> settings.base]
    /\ tensors' = [p \in Parts |-> settings.shape]
    /\ seq' = "zero" /\ hist' = "zero"
    /\ UNCHANGED costs

ResetModel ==
    /\ constraints' = [b \in Bounds |-> settings.base]
    /\ tensors' = [p \in Parts |-> settings.shape]
    /\ seq' = "zero" /\ hist' = "zero" /\ costs' = {}

----------------------------------------------------------------------------
(* evalControl                                                              *)

\* The locals of the call are gone when it ends.
LocalsGone == iter' = 0 /\ next' = 1 /\ scored' = {} /\ passes' = 0

\* optimize() tests the iteration count before its first iteration too.
LoopOrFallback(done) == IF done < settings.iterations THEN "rollout" ELSE "fallback"

\* prepare(), and the entry of the do-while.
Prepare ==
    /\ opc = "idle"
    /\ opc' = LoopOrFallback(0)
    /\ failFlag' = FALSE /\ costs' = {}
    /\ iter' = 0 /\ scored' = {} /\ passes' = 1
    /\ UNCHANGED <<settings, constraints, tensors, seq, hist, counter, next>>

\* The rollouts are new; costs_ is not cleared.
GenerateNoisedTrajectories ==
    /\ opc = "rollout"
    /\ opc' = "score"
    /\ next' = 1 /\ scored' = {}
    /\ costs' = IF costs = {} THEN {} ELSE {"earlier"}
    /\ UNCHANGED <<settings, constraints, tensors, seq, hist, counter, failFlag, iter, passes>>

\* Critic number next scores the rollouts and may find that all of them collide.
Score(veto) ==
    /\ opc = "score" /\ next \in Critics /\ ~failFlag
    /\ veto => next \in Vetoing
    /\ scored' = IF veto THEN scored ELSE scored \cup {next}
    /\ failFlag' = IF next \in Vetoing THEN veto ELSE failFlag
    /\ costs' = costs \cup {"current"}
    /\ next' = next + 1
    /\ UNCHANGED <<opc, settings, constraints, tensors, seq, hist, counter, iter, passes>>

\* The loop over the critics ends at the last one, or at once under fail_flag.
ScoresDone ==
    /\ opc = "score"
    /\ failFlag \/ next \notin Critics
    /\ opc' = "update"
    /\ UNCHANGED <<settings, modelVars, evalVars>>

\* updateControlSequence runs whether or not the rollouts failed.
UpdateControlSequence ==
    /\ opc = "update"
    /\ seq' = IF failFlag THEN "failed" ELSE "feasible"
    /\ iter' = iter + 1
    /\ opc' = LoopOrFallback(iter + 1)
    /\ UNCHANGED <<settings, constraints, tensors, hist, costs, counter, failFlag, next, scored, passes>>

\* fallback(false): the counter starts over.
FallbackPass ==
    /\ opc = "fallback" /\ ~failFlag
    /\ counter' = 0
    /\ opc' = "finish"
    /\ UNCHANGED <<settings, modelVars, failFlag, iter, next, scored, passes>>

\* fallback(true) with attempts left: reset, and another pass of optimize().
\* fail_flag is cleared by prepare() alone and stays set.
FallbackRetry ==
    /\ opc = "fallback" /\ failFlag
    /\ counter + 1 <= settings.retries
    /\ ResetModel
    /\ counter' = counter + 1
    /\ passes' = passes + 1
    /\ iter' = 0 /\ opc' = LoopOrFallback(0)
    /\ UNCHANGED <<settings, failFlag, next, scored>>

\* Mutant of FallbackThrow: the reset comes after the throw and never happens.
FallbackThrowFirst ==
    /\ opc = "fallback" /\ failFlag
    /\ counter + 1 > settings.retries
    /\ counter' = 0
    /\ opc' = "idle" /\ LocalsGone
    /\ UNCHANGED <<settings, modelVars, failFlag>>

\* Mutant of FallbackThrow: the counter keeps its value.
FallbackThrowKeepsCounter ==
    /\ opc = "fallback" /\ failFlag
    /\ counter + 1 > settings.retries
    /\ ResetModel
    /\ counter' = counter + 1
    /\ opc' = "idle" /\ LocalsGone
    /\ UNCHANGED <<settings, failFlag>>

\* fallback(true) with none left: "Optimizer fail to compute path".
FallbackThrow ==
    /\ opc = "fallback" /\ failFlag
    /\ counter + 1 > settings.retries
    /\ ResetModel
    /\ counter' = 0
    /\ opc' = "idle" /\ LocalsGone
    /\ UNCHANGED <<settings, failFlag>>

\* Smoothing, extraction of the command and the shift of the sequence.
Finish ==
    /\ opc = "finish"
    /\ hist' = "used"
    /\ opc' = "idle" /\ LocalsGone
    /\ UNCHANGED <<settings, constraints, tensors, seq, costs, counter, failFlag>>

EvalStep ==
    \/ GenerateNoisedTrajectories
    \/ \E veto \in BOOLEAN : Score(veto)
    \/ ScoresDone \/ UpdateControlSequence
    \/ FallbackPass \/ FallbackRetry

EvalEnd == FallbackThrow \/ Finish

----------------------------------------------------------------------------
(* Properties of a call                                                     *)

OptTypeOK ==
    /\ opc \in {"idle", "rollout", "score", "update", "fallback", "finish"}
    /\ settings \in Settings
    /\ constraints \in [Bounds -> Nat]
    /\ tensors \in [Parts -> {1, 2}]
    /\ seq \in {"zero", "feasible", "failed"} /\ hist \in {"zero", "used"}
    /\ counter \in Nat /\ passes \in Nat /\ iter \in Nat
    /\ failFlag \in BOOLEAN
    /\ next \in 1..(NumCritics + 1)
    /\ scored \subseteq Critics
    /\ costs \subseteq {"current", "earlier"}

\* A command is taken only from a sequence updated with the scores of every
\* critic on the rollouts of the last iteration, none of which vetoed.  (With
\* iteration_count = 0 there are no rollouts to score.)
CommandScored ==
    opc = "finish" /\ settings.iterations > 0 =>
        ~failFlag /\ seq = "feasible" /\ scored = Critics

\* The static counter of fallback() is back at zero whenever no call is running,
\* however the last one ended and whatever retry_attempt_limit has become.
CounterRestored == opc = "idle" => counter = 0

\* A call makes retry_attempt_limit + 1 passes at most, and gives up only then.
PassesBounded ==
    /\ opc # "idle" => passes <= settings.retries + 1
    /\ opc = "fallback" /\ failFlag => passes = counter + 1

\* Nothing computed from failed rollouts survives a call: it is discarded by a
\* reset before the exception and never smoothed into the history.
FailedSequenceDiscarded ==
    opc \in {"idle", "finish"} => seq # "failed"

\* With the recommended iteration_count of 1 the costs a sequence is weighted by
\* are those of its own rollouts, also in a retry.
CostsOfOwnRollouts ==
    opc = "update" /\ settings.iterations = 1 => "earlier" \notin costs

\* What links the places of evalControl to its variables: between calls nothing is
\* left of one; in a call the passes follow the counter, which only a veto can have
\* raised; scores are complete where they are used; and a failed sequence stays
\* between its update and the reset that discards it.
CallInv ==
    /\ opc = "idle" => counter = 0 /\ iter = 0 /\ scored = {} /\ passes = 0 /\ seq # "failed"
    /\ opc # "idle" => /\ passes = counter + 1 /\ counter <= settings.retries
                       /\ ~failFlag => counter = 0 /\ seq # "failed"
    /\ opc = "score" /\ ~failFlag => scored = 1..(next - 1)
    /\ opc = "update" /\ ~failFlag => scored = Critics
    /\ opc \in {"rollout", "score", "update"} => iter < settings.iterations
    /\ opc = "fallback" => iter >= settings.iterations
    /\ opc = "fallback" /\ ~failFlag /\ iter > 0 => scored = Critics /\ seq = "feasible"
    /\ opc = "finish" => ~failFlag /\ (settings.iterations > 0 => scored = Critics /\ seq = "feasible")
    /\ settings.iterations = 1 =>
          /\ opc = "rollout" => costs = {}
          /\ opc \in {"score", "update"} => "earlier" \notin costs

\* "Number of attempts to find feasible trajectory on failure": a pass of
\* optimize() after a failure scores its rollouts.
RetryScored ==
    opc = "update" /\ passes > 1 => "current" \in costs
===============================================================================
