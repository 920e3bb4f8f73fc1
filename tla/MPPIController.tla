----------------------------- MODULE MPPIController -----------------------------
(***************************************************************************)
(* nav2_mppi_controller::MPPIController with its Optimizer and its         *)
(* ParametersHandler, between the two threads that call it: the control    *)
(* thread (computeVelocityCommands) and the executor thread (the on-set    *)
(* parameters callback and the speed limit subscription).                  *)
(*                                                                         *)
(* evalControl and the parameter callback exclude each other through the   *)
(* handler's mutex.  The reset after inactivity and setSpeedLimit do not   *)
(* take it, so a reset() that may be overtaken is modelled line by line    *)
(* and setSpeedLimit store by store.  The costmap mutex is only ever taken *)
(* inside that mutex and is left out.                                      *)
(***************************************************************************)
EXTENDS Optimizer

CONSTANTS
    Limits,     \* requests to setSpeedLimit: records [kind, value]
    NoArg       \* marks that no access of reset() is half done

Limit == [kind : {"none", "percent", "absolute"}, value : Nat]

ASSUME ControllerAssumption == Limits \subseteq Limit /\ NoArg \notin Settings

Threads == {"control", "executor"}

VARIABLES
    ctl,        \* where computeVelocityCommands is
    exe,        \* where the executor is: in the parameter callback, or at the
                \* constraint that setSpeedLimit stores next
    lock,       \* holder of parameters_change_mutex_: "free" or a thread
    line,       \* per thread, the line of reset() it is at
    arg,        \* per thread, the settings that line has read
    requested,  \* history: the last request to setSpeedLimit
    lifted,     \* history: a reset has undone that request
    raced,      \* history: the last stepwise reset overlapped with another
    mixed       \* history: the last writer of the constraints overlapped with another

ctlVars == <<ctl, exe, lock, line, arg>>
history == <<requested, lifted, raced, mixed>>
vars    == <<optVars, ctlVars, history>>

Init ==
    /\ OptInit
    /\ ctl = "out" /\ exe = "out" /\ lock = "free"
    /\ line = [t \in Threads |-> "end"] /\ arg = [t \in Threads |-> NoArg]
    /\ requested = [kind |-> "none", value |-> 0] /\ lifted = FALSE
    /\ raced = FALSE /\ mixed = FALSE

----------------------------------------------------------------------------
(* Optimizer::reset() on a thread that the other one may overtake: every    *)
(* line reads the settings and then writes with what it has read.           *)

NextLine(l) == CASE l = "state" -> "sequence" [] l = "sequence" -> "limit"
                 [] l = "limit" -> "rollouts" [] l = "rollouts" -> "end"

ResetRead(t) ==
    /\ line[t] # "end" /\ arg[t] = NoArg
    /\ arg' = [arg EXCEPT ![t] = settings]
    /\ UNCHANGED <<optVars, ctl, exe, lock, line, history>>

\* The four constraints are copied in one step: whoever stores some of them meanwhile
\* is marked as mixed in any case.
ResetWrite(t) ==
    /\ line[t] # "end" /\ arg[t] # NoArg
    /\ IF line[t] = "limit"
       THEN /\ constraints' = [b \in Bounds |-> arg[t].base]
            /\ lifted' = TRUE /\ tensors' = tensors
       ELSE /\ tensors' = [tensors EXCEPT ![line[t]] = arg[t].shape]
            /\ UNCHANGED <<constraints, lifted>>
    /\ seq' = IF line[t] = "sequence" THEN "zero" ELSE seq
    /\ hist' = IF line[t] = "sequence" THEN "zero" ELSE hist
    /\ costs' = IF line[t] = "rollouts" THEN {} ELSE costs
    /\ line' = [line EXCEPT ![t] = NextLine(line[t])]
    /\ arg' = [arg EXCEPT ![t] = NoArg]
    /\ UNCHANGED <<opc, settings, evalVars, ctl, exe, lock, requested, raced, mixed>>

----------------------------------------------------------------------------
(* The control thread: computeVelocityCommands.                             *)

\* late: more than reset_period_ has passed since the last call.
ComputeVelocityCommands(late) ==
    /\ ctl = "out"
    /\ ctl' = IF late THEN "reset" ELSE "lock"
    /\ line' = IF late THEN [line EXCEPT !["control"] = "state"] ELSE line
    /\ raced' = IF late THEN exe \in {"set", "reset"} ELSE raced
    /\ mixed' = IF late THEN exe # "out" ELSE mixed
    /\ UNCHANGED <<optVars, exe, lock, arg, requested, lifted>>

InactivityResetDone ==
    /\ ctl = "reset" /\ line["control"] = "end"
    /\ ctl' = "lock"
    /\ UNCHANGED <<optVars, exe, lock, line, arg, history>>

TakeParamLock ==
    /\ ctl = "lock" /\ lock = "free"
    /\ lock' = "control" /\ ctl' = "plan"
    /\ UNCHANGED <<optVars, exe, line, arg, history>>

\* Mutant of TransformPathThrows: the mutex stays locked.
TransformPathThrowsLocked ==
    /\ ctl = "plan"
    /\ ctl' = "out"
    /\ UNCHANGED <<optVars, exe, lock, line, arg, history>>

\* An exception of transformPath leaves through the lock_guard.
TransformPathThrows ==
    /\ ctl = "plan"
    /\ ctl' = "out" /\ lock' = "free"
    /\ UNCHANGED <<optVars, exe, line, arg, history>>

EvalControl ==
    /\ ctl = "plan"
    /\ Prepare
    /\ ctl' = "eval"
    /\ UNCHANGED <<exe, lock, line, arg, history>>

\* fallback() resets the optimizer too, under the mutex, which does not keep a
\* setSpeedLimit out.
FallbackResets == opc = "fallback" /\ failFlag
LimitLifted ==
    /\ lifted' = (lifted \/ FallbackResets)
    /\ mixed' = IF FallbackResets THEN exe \in Bounds ELSE mixed

Evaluating ==
    /\ ctl = "eval"
    /\ EvalStep /\ LimitLifted
    /\ UNCHANGED <<ctlVars, requested, raced>>

\* Mutant of EvalControlEnds: an exception of evalControl is taken for its end
\* although the call is only at its retry.
EvalControlEndsEarly ==
    /\ ctl = "eval"
    /\ EvalEnd \/ FallbackRetry
    /\ LimitLifted
    /\ ctl' = "out" /\ lock' = "free"
    /\ UNCHANGED <<exe, line, arg, requested, raced>>

\* The command or the exception leaves through the lock_guard.
EvalControlEnds ==
    /\ ctl = "eval"
    /\ EvalEnd /\ LimitLifted
    /\ ctl' = "out" /\ lock' = "free"
    /\ UNCHANGED <<exe, line, arg, requested, raced>>

----------------------------------------------------------------------------
(* The executor thread.                                                     *)

DynamicParamsCallback ==
    /\ exe = "out" /\ lock = "free"
    /\ lock' = "executor" /\ exe' = "set"
    /\ raced' = (ctl = "reset") /\ mixed' = (ctl = "reset")
    /\ UNCHANGED <<optVars, ctl, line, arg, requested, lifted>>

\* Mutant of SetParameters: the post callback that resets is not registered.
SetParametersNoReset(s) ==
    /\ exe = "set"
    /\ settings' = s
    /\ exe' = "reset"
    /\ UNCHANGED <<opc, modelVars, evalVars, ctl, lock, line, arg, history>>

\* The parameters are assigned, then the post callback is Optimizer::reset.
SetParameters(s) ==
    /\ exe = "set"
    /\ settings' = s
    /\ exe' = "reset"
    /\ line' = [line EXCEPT !["executor"] = "state"]
    /\ UNCHANGED <<opc, modelVars, evalVars, ctl, lock, arg, history>>

PostCallbackDone ==
    /\ exe = "reset" /\ line["executor"] = "end"
    /\ exe' = "out" /\ lock' = "free"
    /\ UNCHANGED <<optVars, ctl, line, arg, history>>

\* vx_max under a request.
Limited(l, base) ==
    CASE l.kind = "none" -> base
      [] l.kind = "percent" -> (base * l.value) \div 100
      [] l.kind = "absolute" -> l.value

\* setSpeedLimit takes no lock and stores one constraint after the other.
SetSpeedLimit(l) ==
    /\ exe = "out"
    /\ exe' = "vx_max"
    /\ requested' = l /\ lifted' = FALSE /\ mixed' = (ctl = "reset")
    /\ UNCHANGED <<optVars, ctl, lock, line, arg, raced>>

NextBound(b) == CASE b = "vx_max" -> "vx_min" [] b = "vx_min" -> "vy"
                  [] b = "vy" -> "wz" [] b = "wz" -> "out"

StoreBound ==
    /\ exe \in Bounds
    /\ constraints' = [constraints EXCEPT ![exe] = Limited(requested, settings.base)]
    /\ exe' = NextBound(exe)
    /\ UNCHANGED <<opc, settings, tensors, seq, hist, costs, evalVars>>
    /\ UNCHANGED <<ctl, lock, line, arg, history>>

----------------------------------------------------------------------------
ControlStep ==
    \/ ResetRead("control") \/ ResetWrite("control") \/ InactivityResetDone
    \/ TransformPathThrows \/ EvalControl \/ Evaluating \/ EvalControlEnds

ExecutorStep ==
    \/ ResetRead("executor") \/ ResetWrite("executor")
    \/ (\E s \in Settings : SetParameters(s))
    \/ PostCallbackDone \/ StoreBound

Next ==
    \/ \E late \in BOOLEAN : ComputeVelocityCommands(late)
    \/ TakeParamLock \/ ControlStep
    \/ DynamicParamsCallback \/ (\E l \in Limits : SetSpeedLimit(l)) \/ ExecutorStep

Spec == Init /\ [][Next]_vars

\* Both threads are scheduled once they have begun something, and the mutex is
\* granted to a thread that finds it free again and again.
FairSpec == Spec /\ WF_vars(ControlStep) /\ WF_vars(ExecutorStep) /\ SF_vars(TakeParamLock)

----------------------------------------------------------------------------
(* Properties                                                               *)

TypeOK ==
    /\ OptTypeOK
    /\ ctl \in {"out", "reset", "lock", "plan", "eval"}
    /\ exe \in {"out", "set", "reset"} \cup Bounds
    /\ lock \in {"free"} \cup Threads
    /\ line \in [Threads -> {"state", "sequence", "limit", "rollouts", "end"}]
    /\ arg \in [Threads -> Settings \cup {NoArg}]
    /\ requested \in Limit \cup {[kind |-> "none", value |-> 0]}
    /\ lifted \in BOOLEAN
    /\ raced \in BOOLEAN /\ mixed \in BOOLEAN
    /\ opc # "idle" <=> ctl = "eval"

\* The parameters do not change under a running evalControl.
ParamsFrozen == [][ctl = "eval" => settings' = settings]_vars

\* Who holds the mutex where, and that only a thread inside it, or in the unlocked
\* reset after inactivity, is at a line of reset().
LocksHeld ==
    /\ ctl \in {"plan", "eval"} <=> lock = "control"
    /\ exe \in {"set", "reset"} <=> lock = "executor"
    /\ line["control"] # "end" => ctl = "reset"
    /\ line["executor"] # "end" => exe = "reset"

\* The inductive invariant of a call.
ServiceInv == TypeOK /\ LocksHeld /\ CallInv

\* evalControl works on tensors of the size the parameters ask for, unless the
\* unlocked reset after inactivity overlapped with a parameter callback.
ShapesAgree ==
    ctl = "eval" /\ ~raced => \A p \in Parts : tensors[p] = settings.shape

\* What is in force as a speed limit.
InForce == IF lifted THEN settings.base ELSE Limited(requested, settings.base)

\* Once setSpeedLimit, the parameter callback and the reset after inactivity have
\* returned, all four constraints are those of the last request, or the base ones
\* once a reset has lifted it, for the current parameters: also during an evaluation.
\* Excepted are constraints whose writers overlapped, setSpeedLimit with a reset or two
\* resets with each other: then they may be mixed, or one may have overtaken the other.
ConstraintsCurrent ==
    exe = "out" /\ ctl # "reset" /\ ~mixed => \A b \in Bounds : constraints[b] = InForce

\* The parts that a reset at a line has reshaped, and whether it has restored the
\* constraints.
Reshaped(l) == CASE l = "state" -> {} [] l = "sequence" -> {"state"}
                 [] l \in {"limit", "rollouts"} -> {"state", "sequence"} [] OTHER -> Parts
Restored(l) == l \in {"rollouts", "end"}

\* The constraints that setSpeedLimit has stored when it is about to store b.
Stored(b) == CASE b = "vx_max" -> {} [] b = "vx_min" -> {"vx_max"}
               [] b = "vy" -> {"vx_max", "vx_min"} [] b = "wz" -> Bounds \ {"wz"}
               [] OTHER -> Bounds

\* What a reset leaves behind line by line, and setSpeedLimit store by store, as long
\* as each is alone: the parts a reset has passed have the size, and the constraints
\* the base, of the settings in force.
ResetInv ==
    /\ \A t \in Threads : line[t] = "end" => arg[t] = NoArg
    /\ ~raced =>
        /\ ctl = "reset" => exe \notin {"set", "reset"}
        /\ \A t \in Threads : arg[t] \in {NoArg, settings}
        /\ exe # "set" => \A p \in Parts :
              p \in Reshaped(line["control"]) \cap Reshaped(line["executor"]) =>
                  tensors[p] = settings.shape
    /\ ~mixed =>
        /\ ctl = "reset" => exe = "out"
        /\ \A t \in Threads : arg[t] \in {NoArg, settings}
        /\ exe \in Bounds => ~lifted
        /\ exe # "set" /\ Restored(line["control"]) /\ Restored(line["executor"]) =>
              \A b \in Stored(exe) : constraints[b] = InForce

\* Its state as a service: locks, lines of reset() and passes are left behind, and
\* what a call leaves in fail_flag is no part of the next one.
Service ==
    INSTANCE ControlService WITH
        serving   <- CASE ctl = "out" -> "none" [] ctl = "eval" -> "evaluating" [] OTHER -> "asked",
        params    <- settings,
        attempts  <- passes,
        judged    <- scored = Critics /\ ctl = "eval",
        vetoed    <- failFlag /\ ctl = "eval",
        remembers <- hist = "used"

\* The two threads over one optimizer keep the promises of ControlService: parameters
\* never change under an evaluation, retries are counted per call although the counter
\* is shared by all calls, no command comes from rollouts that were vetoed or not
\* judged by all critics, and nothing of a failed call is remembered.
Serves == Service!Spec

\* Every call returns or throws: the retries are finite and no exception leaves
\* the mutex locked.
ComputeReturns == (ctl # "out") ~> (ctl = "out")
===============================================================================
