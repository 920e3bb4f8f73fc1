-------------------------- MODULE MPPIControllerProofs --------------------------
(***************************************************************************)
(* Proofs about MPPIController, for any number of critics and any settings *)
(* and limits: the inductive invariant of a call, what it says of retries, *)
(* commands and parameters, and that the two threads over one optimizer    *)
(* implement ControlService.                                               *)
(***************************************************************************)
EXTENDS MPPIController, TLAPS

\* The settings in force are of their type.
LEMMA SettingsShape ==
  ASSUME NEW s \in Settings
  PROVE  /\ s \in Param /\ s.shape \in {1, 2} /\ s.base \in Nat
         /\ s.retries \in Nat /\ s.iterations \in Nat
BY OptimizerAssumption DEF Param

\* Nothing has begun.
LEMMA ServiceInit == Init => ServiceInv
<1> SUFFICES ASSUME Init
             PROVE  ServiceInv
  OBVIOUS
<1> USE DEF Init, OptInit
<1>1. /\ settings \in Settings /\ settings.base \in Nat /\ settings.shape \in {1, 2}
  BY SettingsShape
<1>2. TypeOK
  <2>1. OptTypeOK
    <3>1. tensors \in [Parts -> {1, 2}]
      BY <1>1
    <3>2. next \in 1..(NumCritics + 1)
      BY OptimizerAssumption
    <3>3. QED
      BY <1>1, <3>1, <3>2 DEF OptTypeOK
  <2>2. requested \in Limit \cup {[kind |-> "none", value |-> 0]}
    OBVIOUS
  <2>3. QED
    BY <2>1, <2>2 DEF TypeOK, Threads
<1>3. LocksHeld
  BY DEF LocksHeld, Threads
<1>4. CallInv
  BY DEF CallInv
<1>5. QED
  BY <1>2, <1>3, <1>4 DEF ServiceInv

\* Outside of evalControl the invariant of a call only needs the sequence.
LEMMA CallUntouched ==
  ASSUME CallInv, opc = "idle", UNCHANGED <<opc, counter, iter, scored, passes>>,
         seq' \in {seq, "zero"}
  PROVE  CallInv'
BY DEF CallInv

\* One line of reset(), on either thread.
LEMMA ResetLine ==
  ASSUME ServiceInv, NEW t \in Threads, ResetRead(t) \/ ResetWrite(t)
  PROVE  ServiceInv'
<1>1. line[t] # "end" /\ lock' = lock /\ ctl' = ctl /\ exe' = exe /\ opc' = opc
  BY DEF ResetRead, ResetWrite, optVars
<1>2. opc = "idle"
  BY <1>1 DEF ServiceInv, TypeOK, LocksHeld, Threads
<1>3. CASE ResetRead(t)
  <2>1. TypeOK'
    BY <1>3 DEF ResetRead, optVars, modelVars, evalVars, history, ServiceInv, TypeOK, OptTypeOK
  <2>2. LocksHeld'
    BY <1>3 DEF ResetRead, ServiceInv, LocksHeld
  <2>3. CallInv'
    BY <1>3 DEF ResetRead, optVars, modelVars, evalVars, ServiceInv, CallInv
  <2>4. QED
    BY <2>1, <2>2, <2>3 DEF ServiceInv
<1>4. CASE ResetWrite(t)
  <2>1. /\ arg[t] \in Settings /\ arg[t].base \in Nat /\ arg[t].shape \in {1, 2}
    BY <1>4, SettingsShape DEF ResetWrite, ServiceInv, TypeOK
  <2>2. line' = [line EXCEPT ![t] = NextLine(line[t])] /\ arg' = [arg EXCEPT ![t] = NoArg]
    BY <1>4 DEF ResetWrite
  <2>3. NextLine(line[t]) \in {"state", "sequence", "limit", "rollouts", "end"}
    BY <1>1 DEF NextLine, ServiceInv, TypeOK
  <2>4. TypeOK'
    <3>1. tensors' \in [Parts -> {1, 2}] /\ constraints' \in [Bounds -> Nat] /\ lifted' \in BOOLEAN
      BY <1>1, <1>4, <2>1, <2>3 DEF ResetWrite, ServiceInv, TypeOK, OptTypeOK
    <3>2. /\ seq' \in {"zero", "feasible", "failed"} /\ hist' \in {"zero", "used"}
          /\ costs' \subseteq {"current", "earlier"}
      BY <1>4 DEF ResetWrite, ServiceInv, TypeOK, OptTypeOK
    <3>3. /\ line' \in [Threads -> {"state", "sequence", "limit", "rollouts", "end"}]
          /\ arg' \in [Threads -> Settings \cup {NoArg}]
      BY <2>2, <2>3 DEF ServiceInv, TypeOK
    <3>4. QED
      BY <1>4, <3>1, <3>2, <3>3 DEF ResetWrite, evalVars, ServiceInv, TypeOK, OptTypeOK
  <2>5. LocksHeld'
    BY <1>1, <1>4, <2>2, <2>3 DEF ResetWrite, ServiceInv, TypeOK, LocksHeld, Threads
  <2>6. CallInv'
    BY <1>2, <1>4, CallUntouched DEF ResetWrite, evalVars, ServiceInv
  <2>7. QED
    BY <2>4, <2>5, <2>6 DEF ServiceInv
<1>5. QED
  BY <1>3, <1>4

\* What the beginning of a call records of overlaps.
LEMMA HistoryOfLate ==
  ASSUME NEW late \in BOOLEAN, ComputeVelocityCommands(late), raced \in BOOLEAN, mixed \in BOOLEAN
  PROVE  raced' \in BOOLEAN /\ mixed' \in BOOLEAN
<1>1. CASE ~late
  BY <1>1 DEF ComputeVelocityCommands
<1>2. ASSUME late
      PROVE  raced' \in BOOLEAN
  <2>1. CASE exe \in {"set", "reset"}
    BY <1>2, <2>1 DEF ComputeVelocityCommands
  <2>2. CASE exe \notin {"set", "reset"}
    BY <1>2, <2>2 DEF ComputeVelocityCommands
  <2>3. QED
    BY <2>1, <2>2
<1>3. ASSUME late
      PROVE  mixed' \in BOOLEAN
  BY <1>3 DEF ComputeVelocityCommands
<1>4. QED
  BY <1>1, <1>2, <1>3

\* The rest of computeVelocityCommands, but for evalControl.
LEMMA ControlOutside ==
  ASSUME ServiceInv,
         \/ \E late \in BOOLEAN : ComputeVelocityCommands(late)
         \/ InactivityResetDone \/ TakeParamLock \/ TransformPathThrows
  PROVE  ServiceInv'
<1> USE DEF ServiceInv, optVars, modelVars, evalVars, history
<1>1. ASSUME NEW late \in BOOLEAN, ComputeVelocityCommands(late)
      PROVE  ServiceInv'
  <2>1. line' \in [Threads -> {"state", "sequence", "limit", "rollouts", "end"}]
    BY <1>1 DEF ComputeVelocityCommands, TypeOK
  <2>2. raced' \in BOOLEAN /\ mixed' \in BOOLEAN
    BY <1>1, HistoryOfLate DEF TypeOK
  <2>3. TypeOK'
    BY <1>1, <2>1, <2>2 DEF ComputeVelocityCommands, TypeOK, OptTypeOK
  <2>4. LocksHeld'
    BY <1>1 DEF ComputeVelocityCommands, LocksHeld, TypeOK, Threads
  <2>5. QED
    BY <1>1, <2>3, <2>4 DEF ComputeVelocityCommands, CallInv
<1>2. CASE InactivityResetDone
  BY <1>2 DEF InactivityResetDone, TypeOK, OptTypeOK, LocksHeld, CallInv
<1>3. CASE TakeParamLock
  BY <1>3 DEF TakeParamLock, TypeOK, OptTypeOK, LocksHeld, CallInv, Threads
<1>4. CASE TransformPathThrows
  BY <1>4 DEF TransformPathThrows, TypeOK, OptTypeOK, LocksHeld, CallInv, Threads
<1>5. QED
  BY <1>1, <1>2, <1>3, <1>4

\* The entry of evalControl.
LEMMA CallBegins == ASSUME ServiceInv, EvalControl PROVE ServiceInv'
<1> USE DEF ServiceInv, EvalControl, Prepare
<1>1. settings.iterations \in Nat /\ settings.retries \in Nat
  BY SettingsShape DEF TypeOK, OptTypeOK
<1>2. opc' \in {"rollout", "fallback"}
  BY DEF LoopOrFallback
<1>3. TypeOK'
  <2>1. OptTypeOK'
    BY <1>2 DEF TypeOK, OptTypeOK
  <2>2. ctl' = "eval" /\ opc' # "idle"
    BY <1>2
  <2>3. QED
    BY <2>1, <2>2 DEF TypeOK, history
<1>4. LocksHeld'
  BY DEF LocksHeld, TypeOK
<1>5. CallInv'
  BY <1>1, <1>2 DEF CallInv, LoopOrFallback, TypeOK, OptTypeOK
<1>6. QED
  BY <1>3, <1>4, <1>5

\* reset() in one piece leaves types alone.
LEMMA ResetModelTypes ==
  ASSUME OptTypeOK, ResetModel
  PROVE  /\ constraints' \in [Bounds -> Nat] /\ tensors' \in [Parts -> {1, 2}]
         /\ seq' = "zero" /\ hist' = "zero" /\ costs' = {}
BY SettingsShape DEF OptTypeOK, ResetModel

\* A step inside evalControl.
LEMMA CallGoesOn ==
  ASSUME ServiceInv, EvalStep
  PROVE  /\ OptTypeOK' /\ CallInv' /\ settings' = settings
         /\ opc # "idle" /\ opc' # "idle"
<1> USE DEF ServiceInv, modelVars, evalVars
<1>1. /\ settings.iterations \in Nat /\ settings.retries \in Nat /\ NumCritics \in Nat
      /\ OptTypeOK /\ CallInv
  BY SettingsShape, OptimizerAssumption DEF TypeOK, OptTypeOK
<1>2. CASE GenerateNoisedTrajectories
  <2>1. OptTypeOK'
    BY <1>1, <1>2 DEF GenerateNoisedTrajectories, OptTypeOK
  <2>2. CallInv'
    BY <1>1, <1>2 DEF GenerateNoisedTrajectories, CallInv, OptTypeOK
  <2>3. QED
    BY <1>2, <2>1, <2>2 DEF GenerateNoisedTrajectories
<1>3. ASSUME NEW veto \in BOOLEAN, Score(veto)
      PROVE  /\ OptTypeOK' /\ CallInv' /\ settings' = settings
             /\ opc # "idle" /\ opc' # "idle"
  <2>1. next' = next + 1 /\ next \in 1..NumCritics /\ scored = 1..(next - 1)
    BY <1>1, <1>3 DEF Score, CallInv, Critics
  <2>2. OptTypeOK'
    <3>1. scored' \subseteq Critics /\ failFlag' \in BOOLEAN /\ next' \in 1..(NumCritics + 1)
      BY <1>1, <1>3, <2>1 DEF Score, OptTypeOK, Critics
    <3>2. QED
      BY <1>1, <1>3, <3>1 DEF Score, OptTypeOK
  <2>3. ~failFlag' => scored' = 1..(next' - 1)
    <3>1. failFlag' = FALSE => scored' = scored \cup {next}
      BY <1>3, OptimizerAssumption DEF Score, Critics
    <3>2. 1..(next' - 1) = (1..(next - 1)) \cup {next}
      BY <2>1
    <3>3. QED
      BY <2>1, <2>2, <3>1, <3>2 DEF OptTypeOK
  <2>4. CallInv'
    BY <1>1, <1>3, <2>3 DEF Score, CallInv
  <2>5. QED
    BY <1>3, <2>2, <2>4 DEF Score
<1>4. CASE ScoresDone
  <2>1. ~failFlag => 1..(next - 1) = Critics
    BY <1>1, <1>4 DEF ScoresDone, OptTypeOK, Critics
  <2>2. QED
    BY <1>1, <1>4, <2>1 DEF ScoresDone, OptTypeOK, CallInv
<1>5. CASE UpdateControlSequence
  <2>1. opc' \in {"rollout", "fallback"}
    BY <1>5 DEF UpdateControlSequence, LoopOrFallback
  <2>2. OptTypeOK'
    BY <1>1, <1>5, <2>1 DEF UpdateControlSequence, OptTypeOK
  <2>3. CallInv'
    BY <1>1, <1>5, <2>1 DEF UpdateControlSequence, LoopOrFallback, OptTypeOK, CallInv
  <2>4. QED
    BY <1>5, <2>1, <2>2, <2>3 DEF UpdateControlSequence
<1>6. CASE FallbackPass
  BY <1>1, <1>6 DEF FallbackPass, OptTypeOK, CallInv
<1>7. CASE FallbackRetry
  <2>1. opc' \in {"rollout", "fallback"}
    BY <1>7 DEF FallbackRetry, LoopOrFallback
  <2>2. OptTypeOK'
    BY <1>1, <1>7, <2>1, ResetModelTypes DEF FallbackRetry, OptTypeOK
  <2>3. CallInv'
    BY <1>1, <1>7, <2>1, ResetModelTypes DEF FallbackRetry, LoopOrFallback, OptTypeOK, CallInv
  <2>4. QED
    BY <1>7, <2>1, <2>2, <2>3 DEF FallbackRetry
<1>8. QED
  BY <1>2, <1>3, <1>4, <1>5, <1>6, <1>7 DEF EvalStep

\* What a reset under the mutex records.
LEMMA HistoryTyped ==
  ASSUME ServiceInv, LimitLifted
  PROVE  lifted' \in BOOLEAN /\ mixed' \in BOOLEAN
<1>1. lifted \in BOOLEAN /\ mixed \in BOOLEAN
  BY DEF ServiceInv, TypeOK
<1>2. CASE FallbackResets
  BY <1>1, <1>2 DEF LimitLifted
<1>3. CASE ~FallbackResets
  BY <1>1, <1>3 DEF LimitLifted
<1>4. QED
  BY <1>2, <1>3

\* A step of evalControl but for the last.
LEMMA EvaluatingStep == ASSUME ServiceInv, Evaluating PROVE ServiceInv'
<1>1. /\ OptTypeOK' /\ CallInv' /\ opc' # "idle"
      /\ ctl' = ctl /\ exe' = exe /\ lock' = lock /\ line' = line /\ arg' = arg
      /\ requested' = requested /\ raced' = raced /\ ctl = "eval"
  BY CallGoesOn DEF Evaluating, ctlVars
<1>2. lifted' \in BOOLEAN /\ mixed' \in BOOLEAN
  BY HistoryTyped DEF Evaluating
<1>3. TypeOK'
  BY <1>1, <1>2 DEF ServiceInv, TypeOK
<1>4. LocksHeld'
  BY <1>1 DEF ServiceInv, LocksHeld
<1>5. QED
  BY <1>1, <1>3, <1>4 DEF ServiceInv

\* The last one, a command or an exception.
LEMMA EvalControlEndsStep == ASSUME ServiceInv, EvalControlEnds PROVE ServiceInv'
<1>1. /\ exe' = exe /\ line' = line /\ arg' = arg /\ ctl' = "out" /\ lock' = "free"
      /\ requested' = requested /\ raced' = raced /\ ctl = "eval"
  BY DEF EvalControlEnds
<1>2. lifted' \in BOOLEAN /\ mixed' \in BOOLEAN
  BY HistoryTyped DEF EvalControlEnds
<1>3. OptTypeOK' /\ CallInv' /\ opc' = "idle"
  <2>1. CASE FallbackThrow
    <3>1. OptTypeOK'
      BY <2>1, ResetModelTypes, OptimizerAssumption
      DEF FallbackThrow, LocalsGone, ServiceInv, TypeOK, OptTypeOK
    <3>2. CallInv'
      BY <2>1, ResetModelTypes DEF FallbackThrow, LocalsGone, ServiceInv, TypeOK, CallInv
    <3>3. QED
      BY <2>1, <3>1, <3>2 DEF FallbackThrow
  <2>2. CASE Finish
    <3>1. OptTypeOK'
      BY <2>2, OptimizerAssumption DEF Finish, LocalsGone, ServiceInv, TypeOK, OptTypeOK
    <3>2. counter = 0 /\ seq # "failed"
      BY <2>2 DEF Finish, ServiceInv, CallInv
    <3>3. CallInv'
      BY <2>2, <3>2 DEF Finish, LocalsGone, CallInv
    <3>4. QED
      BY <2>2, <3>1, <3>3 DEF Finish
  <2>3. QED
    BY <2>1, <2>2 DEF EvalControlEnds, EvalEnd
<1>4. TypeOK'
  BY <1>1, <1>2, <1>3 DEF ServiceInv, TypeOK
<1>5. LocksHeld'
  BY <1>1 DEF ServiceInv, LocksHeld
<1>6. QED
  BY <1>3, <1>4, <1>5 DEF ServiceInv

\* vx_max under a request is a speed.
LEMMA LimitedNat ==
  ASSUME NEW l \in Limit, NEW base \in Nat
  PROVE  Limited(l, base) \in Nat
<1>1. l.value \in Nat /\ l.kind \in {"none", "percent", "absolute"}
  BY DEF Limit
<1>2. base * l.value \in Nat
  BY <1>1
<1>3. (base * l.value) \div 100 \in Nat
  BY <1>2
<1>4. QED
  BY <1>1, <1>3 DEF Limited

\* The executor thread changes settings_ only while no call is evaluating.
LEMMA ExecutorOutside ==
  ASSUME ServiceInv,
         \/ DynamicParamsCallback \/ PostCallbackDone
         \/ \E s \in Settings : SetParameters(s)
         \/ StoreBound \/ \E l \in Limits : SetSpeedLimit(l)
  PROVE  ServiceInv'
<1> USE DEF ServiceInv, optVars, modelVars, evalVars, history
<1>1. CASE DynamicParamsCallback
  BY <1>1 DEF DynamicParamsCallback, TypeOK, OptTypeOK, LocksHeld, CallInv, Threads
<1>2. CASE PostCallbackDone
  BY <1>2 DEF PostCallbackDone, TypeOK, OptTypeOK, LocksHeld, CallInv, Threads
<1>3. ASSUME NEW s \in Settings, SetParameters(s)
      PROVE  ServiceInv'
  <2>1. opc = "idle"
    BY <1>3 DEF SetParameters, TypeOK, LocksHeld
  <2>2. line' \in [Threads -> {"state", "sequence", "limit", "rollouts", "end"}]
    BY <1>3 DEF SetParameters, TypeOK
  <2>3. TypeOK'
    BY <1>3, <2>2 DEF SetParameters, TypeOK, OptTypeOK
  <2>4. LocksHeld'
    BY <1>3 DEF SetParameters, TypeOK, LocksHeld, Threads
  <2>5. CallInv'
    BY <1>3, <2>1 DEF SetParameters, CallInv
  <2>6. QED
    BY <2>3, <2>4, <2>5
<1>4. ASSUME NEW l \in Limits, SetSpeedLimit(l)
      PROVE  ServiceInv'
  <2>1. l \in Limit
    BY ControllerAssumption
  <2>2. TypeOK'
    BY <1>4, <2>1 DEF SetSpeedLimit, TypeOK, OptTypeOK, Bounds
  <2>3. QED
    BY <1>4, <2>2 DEF SetSpeedLimit, LocksHeld, TypeOK, CallInv
<1>5. CASE StoreBound
  <2>1. settings.base \in Nat /\ requested \in Limit
    BY SettingsShape DEF TypeOK, OptTypeOK, Limit
  <2>2. constraints' \in [Bounds -> Nat]
    BY <1>5, <2>1, LimitedNat DEF StoreBound, TypeOK, OptTypeOK
  <2>3. exe' \in {"out"} \cup Bounds
    BY <1>5 DEF StoreBound, NextBound, Bounds
  <2>4. TypeOK'
    BY <1>5, <2>2, <2>3 DEF StoreBound, TypeOK, OptTypeOK
  <2>5. LocksHeld'
    BY <1>5, <2>3 DEF StoreBound, LocksHeld, Bounds
  <2>6. QED
    BY <1>5, <2>4, <2>5 DEF StoreBound, CallInv
<1>6. QED
  BY <1>1, <1>2, <1>3, <1>4, <1>5

\* Every step of the two threads preserves the invariant.
LEMMA ServiceStep == ServiceInv /\ [Next]_vars => ServiceInv'
<1> SUFFICES ASSUME ServiceInv, [Next]_vars
             PROVE  ServiceInv'
  OBVIOUS
<1>1. CASE UNCHANGED vars
  BY <1>1 DEF vars, optVars, modelVars, evalVars, ctlVars, history, ServiceInv, TypeOK,
              OptTypeOK, LocksHeld, CallInv
<1>2. CASE \E late \in BOOLEAN : ComputeVelocityCommands(late)
  BY <1>2, ControlOutside
<1>3. CASE TakeParamLock
  BY <1>3, ControlOutside
<1>4. CASE ControlStep
  BY <1>4, ResetLine, ControlOutside, CallBegins, EvaluatingStep, EvalControlEndsStep
  DEF ControlStep, Threads
<1>5. CASE ExecutorStep
  BY <1>5, ResetLine, ExecutorOutside DEF ExecutorStep, Threads
<1>6. CASE DynamicParamsCallback \/ \E l \in Limits : SetSpeedLimit(l)
  BY <1>6, ExecutorOutside
<1>7. QED
  BY <1>1, <1>2, <1>3, <1>4, <1>5, <1>6 DEF Next

\* The inductive invariant of computeVelocityCommands and the parameter callback.
THEOREM ServiceInvariant == Spec => []ServiceInv
<1>1. QED
  BY ServiceInit, ServiceStep, PTL DEF Spec

\* State and control stay of their types, and evalControl runs exactly where
\* computeVelocityCommands calls it.
THEOREM ControllerTypeCorrect == Spec => []TypeOK
<1>1. ServiceInv => TypeOK
  BY DEF ServiceInv
<1>2. QED
  BY <1>1, ServiceInvariant, PTL

\* evalControl takes its command from rollouts all critics have judged.
THEOREM CommandIsScored == Spec => []CommandScored
<1>1. ServiceInv => CommandScored
  BY DEF ServiceInv, CallInv, CommandScored
<1>2. QED
  BY <1>1, ServiceInvariant, PTL

\* fallback()'s static counter does not leak from one call into another.
THEOREM CounterIsRestored == Spec => []CounterRestored
<1>1. ServiceInv => CounterRestored
  BY DEF ServiceInv, CallInv, CounterRestored
<1>2. QED
  BY <1>1, ServiceInvariant, PTL

\* fallback() allows retry_attempt_limit retries of optimize() and no more.
THEOREM PassesAreBounded == Spec => []PassesBounded
<1>1. ServiceInv => PassesBounded
  <2> SUFFICES ASSUME ServiceInv
               PROVE  PassesBounded
    OBVIOUS
  <2>1. settings.retries \in Nat /\ counter \in Nat
    BY SettingsShape DEF ServiceInv, TypeOK, OptTypeOK
  <2>2. QED
    BY <2>1 DEF ServiceInv, CallInv, PassesBounded
<1>2. QED
  BY <1>1, ServiceInvariant, PTL

\* The sequence updated from failed rollouts does not outlive the call.
THEOREM FailedSequenceIsDiscarded == Spec => []FailedSequenceDiscarded
<1>1. ServiceInv => FailedSequenceDiscarded
  BY DEF ServiceInv, CallInv, FailedSequenceDiscarded
<1>2. QED
  BY <1>1, ServiceInvariant, PTL

\* With one iteration a sequence is weighted by its own rollouts' costs only,
\* because every reset() between two passes zeroes costs_.
THEOREM CostsAreOfOwnRollouts == Spec => []CostsOfOwnRollouts
<1>1. ServiceInv => CostsOfOwnRollouts
  BY DEF ServiceInv, CallInv, CostsOfOwnRollouts
<1>2. QED
  BY <1>1, ServiceInvariant, PTL

\* A running evalControl keeps the parameters it began with: the callback waits
\* for the mutex.
THEOREM ParamsAreFrozen == Spec => ParamsFrozen
<1>1. ServiceInv /\ [Next]_vars => [ctl = "eval" => settings' = settings]_vars
  <2> SUFFICES ASSUME ServiceInv, Next, ctl = "eval"
               PROVE  settings' = settings
    BY DEF vars, optVars
  <2>1. exe \notin {"set", "reset"}
    BY DEF ServiceInv, LocksHeld
  <2>2. CASE ControlStep
    BY <2>2, CallGoesOn
    DEF ControlStep, ResetRead, ResetWrite, InactivityResetDone, TransformPathThrows, EvalControl,
        Evaluating, EvalControlEnds, EvalEnd, FallbackThrow, Finish, optVars
  <2>3. CASE ExecutorStep
    BY <2>1, <2>3 DEF ExecutorStep, ResetRead, ResetWrite, SetParameters, PostCallbackDone,
       StoreBound, optVars
  <2>4. QED
    BY <2>1, <2>2, <2>3
    DEF Next, ComputeVelocityCommands, TakeParamLock, DynamicParamsCallback, SetSpeedLimit, optVars
<1>2. QED
  BY <1>1, ServiceInvariant, PTL DEF Spec, ParamsFrozen

----------------------------------------------------------------------------
(* The refinement                                                           *)

\* It starts as a service that nobody has asked anything.
LEMMA ServesInit == Init => Service!Init
BY DEF Init, OptInit, Service!Init

\* Outside of evalControl nothing is judged and nothing vetoed, whatever is left in
\* the variables, so what the caller sees changes with ctl, settings and hist only.
LEMMA ServesOutside ==
  ASSUME ServiceInv, ctl # "eval", ctl' # "eval", passes' = passes,
         UNCHANGED <<settings, hist>>,
         (ctl = "out") = (ctl' = "out")
  PROVE  UNCHANGED Service!vars
BY DEF Service!vars

\* A line of reset() is the service forgetting, or nothing.
LEMMA ServesReset ==
  ASSUME ServiceInv, NEW t \in Threads, ResetRead(t) \/ ResetWrite(t)
  PROVE  [Service!Next]_(Service!vars)
<1>1. line[t] # "end" /\ ctl' = ctl /\ settings' = settings /\ passes' = passes
  BY DEF ResetRead, ResetWrite, optVars, evalVars
<1>2. ctl # "eval"
  BY <1>1 DEF ServiceInv, LocksHeld, Threads
<1>3. CASE hist' = hist
  BY <1>1, <1>2, <1>3, ServesOutside
<1>4. CASE hist' = "zero"
  <2>1. Service!Forget
    BY <1>1, <1>2, <1>4 DEF Service!Forget
  <2>2. QED
    BY <2>1 DEF Service!Next
<1>5. QED
  BY <1>3, <1>4 DEF ResetRead, ResetWrite, optVars, modelVars

\* Asking, being declined, and entering evalControl.
LEMMA ServesOutsideEval ==
  ASSUME ServiceInv,
         \/ \E late \in BOOLEAN : ComputeVelocityCommands(late)
         \/ InactivityResetDone \/ TakeParamLock \/ TransformPathThrows \/ EvalControl
  PROVE  [Service!Next]_(Service!vars)
<1> USE DEF optVars, modelVars, evalVars
<1>1. CASE \E late \in BOOLEAN : ComputeVelocityCommands(late)
  <2>1. Service!Ask
    BY <1>1 DEF ComputeVelocityCommands, Service!Ask
  <2>2. QED
    BY <2>1 DEF Service!Next
<1>2. CASE InactivityResetDone
  BY <1>2, ServesOutside DEF InactivityResetDone
<1>3. CASE TakeParamLock
  BY <1>3, ServesOutside DEF TakeParamLock
<1>4. CASE TransformPathThrows
  <2>1. Service!Decline
    BY <1>4 DEF TransformPathThrows, Service!Decline
  <2>2. QED
    BY <2>1 DEF Service!Next
<1>5. CASE EvalControl
  <2>1. Service!Begin
    BY <1>5 DEF EvalControl, Prepare, Service!Begin
  <2>2. QED
    BY <2>1 DEF Service!Next
<1>6. QED
  BY <1>1, <1>2, <1>3, <1>4, <1>5

\* Inside evalControl a veto stands until the call ends, and only fallback() ends
\* a pass.
LEMMA ServesEvaluating ==
  ASSUME ServiceInv, Evaluating
  PROVE  [Service!Next]_(Service!vars)
<1> USE DEF modelVars, evalVars, ctlVars
<1>1. /\ ctl = "eval" /\ ctl' = "eval" /\ settings' = settings
      /\ failFlag \in BOOLEAN /\ failFlag' \in BOOLEAN
  BY CallGoesOn DEF Evaluating, ServiceInv, TypeOK, OptTypeOK
<1>2. CASE FallbackRetry
  <2>1. passes = counter + 1 /\ passes' = passes + 1 /\ counter + 1 <= settings.retries /\ hist' = "zero"
    BY <1>2 DEF FallbackRetry, ResetModel, ServiceInv, CallInv
  <2>2. Service!Retry
    BY <1>1, <1>2, <2>1 DEF FallbackRetry, Service!Retry
  <2>3. QED
    BY <2>2 DEF Service!Next
<1>3. ASSUME passes' = passes, hist' = hist, failFlag' \in {failFlag, TRUE}
      PROVE  [Service!Next]_(Service!vars)
  <2>1. Service!Deliberate
    BY <1>1, <1>3 DEF Service!Deliberate
  <2>2. QED
    BY <2>1 DEF Service!Next
<1>4. ASSUME NEW veto \in BOOLEAN, Score(veto)
      PROVE  [Service!Next]_(Service!vars)
  BY <1>1, <1>3, <1>4 DEF Score
<1>5. CASE GenerateNoisedTrajectories \/ ScoresDone \/ UpdateControlSequence \/ FallbackPass
  BY <1>1, <1>3, <1>5
  DEF GenerateNoisedTrajectories, ScoresDone, UpdateControlSequence, FallbackPass
<1>6. QED
  BY <1>2, <1>4, <1>5 DEF Evaluating, EvalStep

\* A call ends with a command, or after all its attempts.
LEMMA ServesEnd ==
  ASSUME ServiceInv, EvalControlEnds
  PROVE  [Service!Next]_(Service!vars)
<1> USE DEF EvalControlEnds, LocalsGone
<1>1. CASE FallbackThrow
  <2>1. /\ counter \in Nat /\ settings.retries \in Nat
        /\ passes = counter + 1 /\ counter <= settings.retries /\ counter + 1 > settings.retries
    BY <1>1, SettingsShape DEF FallbackThrow, ServiceInv, TypeOK, OptTypeOK, CallInv
  <2>2. Service!GiveUp
    BY <1>1, <2>1 DEF FallbackThrow, ResetModel, Service!GiveUp, Service!Ends
  <2>3. QED
    BY <2>2 DEF Service!Next
<1>2. CASE Finish
  <2>1. /\ ~failFlag /\ settings.iterations \in Nat
        /\ settings.iterations > 0 => scored = Critics
    BY <1>2, SettingsShape DEF Finish, ServiceInv, TypeOK, OptTypeOK, CallInv
  <2>2. Service!Command
    BY <1>2, <2>1 DEF Finish, Service!Command, Service!Ends
  <2>3. QED
    BY <2>2 DEF Service!Next
<1>3. QED
  BY <1>1, <1>2 DEF EvalEnd

\* The executor thread changes the parameters between evaluations, or nothing the
\* caller sees.
LEMMA ServesExecutor ==
  ASSUME ServiceInv,
         \/ DynamicParamsCallback \/ PostCallbackDone
         \/ \E s \in Settings : SetParameters(s)
         \/ StoreBound \/ \E l \in Limits : SetSpeedLimit(l)
  PROVE  [Service!Next]_(Service!vars)
<1> USE DEF optVars, modelVars, evalVars, ctlVars
<1>1. CASE \E s \in Settings : SetParameters(s)
  <2>1. ctl # "eval"
    BY <1>1 DEF SetParameters, ServiceInv, LocksHeld
  <2>2. Service!ChangeParameters
    BY <1>1, <2>1 DEF SetParameters, Service!ChangeParameters
  <2>3. QED
    BY <2>2 DEF Service!Next
<1>2. CASE \/ DynamicParamsCallback \/ PostCallbackDone \/ StoreBound
           \/ \E l \in Limits : SetSpeedLimit(l)
  BY <1>2 DEF DynamicParamsCallback, PostCallbackDone, StoreBound, SetSpeedLimit, Service!vars
<1>3. QED
  BY <1>1, <1>2

\* The controller with its two threads, locks, passes and resets implements the
\* service: whoever calls it sees one set of parameters per evaluation, commands
\* only from judged and unvetoed rollouts, and all the retries of a failed call.
THEOREM ControllerServes == Spec => Serves
<1>1. ServiceInv /\ [Next]_vars => [Service!Next]_(Service!vars)
  <2> SUFFICES ASSUME ServiceInv, [Next]_vars
               PROVE  [Service!Next]_(Service!vars)
    OBVIOUS
  <2>1. CASE UNCHANGED vars
    BY <2>1 DEF vars, optVars, modelVars, evalVars, ctlVars, Service!vars
  <2>2. CASE ControlStep
    BY <2>2, ServesReset, ServesOutsideEval, ServesEvaluating, ServesEnd DEF ControlStep, Threads
  <2>3. CASE ExecutorStep
    BY <2>3, ServesReset, ServesExecutor DEF ExecutorStep, Threads
  <2>4. QED
    BY <2>1, <2>2, <2>3, ServesOutsideEval, ServesExecutor DEF Next
<1>2. QED
  BY <1>1, ServesInit, ServiceInvariant, PTL DEF Spec, Serves, Service!Spec

----------------------------------------------------------------------------
(* Resets                                                                   *)

LEMMA ResetInit == Init => ResetInv
<1> SUFFICES ASSUME Init
             PROVE  ResetInv
  OBVIOUS
<1>1. \A b \in Bounds : constraints[b] = InForce
  BY DEF Init, OptInit, Limited, InForce
<1>2. Stored(exe) = Bounds
  BY DEF Init, Stored
<1>3. QED
  BY <1>1, <1>2 DEF Init, OptInit, ResetInv, Bounds

\* What each line of reset() adds to what it has done.
LEMMA LinesReshape ==
  /\ Reshaped("state") = {} /\ Reshaped("sequence") = {"state"}
  /\ Reshaped("limit") = {"state", "sequence"} /\ Reshaped("rollouts") = {"state", "sequence"}
  /\ Reshaped("end") = Parts /\ Parts = {"state", "sequence", "rollouts"}
  /\ ~Restored("state") /\ ~Restored("sequence") /\ ~Restored("limit")
  /\ Restored("rollouts") /\ Restored("end")
  /\ NextLine("state") = "sequence" /\ NextLine("sequence") = "limit"
  /\ NextLine("limit") = "rollouts" /\ NextLine("rollouts") = "end"
BY DEF Reshaped, Restored, NextLine, Parts

\* What setSpeedLimit has stored where.
LEMMA BoundsStored ==
  /\ Bounds = {"vx_max", "vx_min", "vy", "wz"}
  /\ Stored("vx_max") = {} /\ Stored("vx_min") = {"vx_max"}
  /\ Stored("vy") = {"vx_max", "vx_min"} /\ Stored("wz") = {"vx_max", "vx_min", "vy"}
  /\ \A e \in {"out", "set", "reset"} : Stored(e) = Bounds
  /\ NextBound("vx_max") = "vx_min" /\ NextBound("vx_min") = "vy"
  /\ NextBound("vy") = "wz" /\ NextBound("wz") = "out"
  /\ \A b \in Bounds : Stored(NextBound(b)) = Stored(b) \cup {b}
<1>1. /\ Bounds = {"vx_max", "vx_min", "vy", "wz"}
      /\ Stored("vx_max") = {} /\ Stored("vx_min") = {"vx_max"}
      /\ Stored("vy") = {"vx_max", "vx_min"} /\ Stored("wz") = {"vx_max", "vx_min", "vy"}
  BY DEF Bounds, Stored
<1>2. \A e \in {"out", "set", "reset"} : Stored(e) = Bounds
  BY DEF Stored
<1>3. /\ NextBound("vx_max") = "vx_min" /\ NextBound("vx_min") = "vy"
      /\ NextBound("vy") = "wz" /\ NextBound("wz") = "out"
  BY DEF NextBound
<1>4. \A b \in Bounds : Stored(NextBound(b)) = Stored(b) \cup {b}
  BY <1>1, <1>2, <1>3
<1>5. QED
  BY <1>1, <1>2, <1>3, <1>4

\* A line of reset() keeps what the others have done and adds its own.
LEMMA ResetLineDone ==
  ASSUME ServiceInv, ResetInv, NEW t \in Threads, ResetRead(t) \/ ResetWrite(t)
  PROVE  ResetInv'
<1>1. /\ line \in [Threads -> {"state", "sequence", "limit", "rollouts", "end"}]
      /\ arg \in [Threads -> Settings \cup {NoArg}] /\ DOMAIN tensors = Parts
      /\ Threads = {"control", "executor"} /\ line[t] # "end"
      /\ settings' = settings /\ ctl' = ctl /\ exe' = exe /\ raced' = raced /\ mixed' = mixed
      /\ requested' = requested
  BY DEF ServiceInv, TypeOK, OptTypeOK, Threads, ResetRead, ResetWrite, optVars, history
<1>2. CASE ResetRead(t)
  BY <1>1, <1>2 DEF ResetRead, ResetInv, InForce, optVars, modelVars, history
<1>3. CASE ResetWrite(t)
  <2>1. /\ line' = [line EXCEPT ![t] = NextLine(line[t])]
        /\ arg' = [arg EXCEPT ![t] = NoArg]
        /\ line[t] # "limit" => /\ tensors' = [tensors EXCEPT ![line[t]] = arg[t].shape]
                                /\ constraints' = constraints /\ lifted' = lifted
        /\ line[t] = "limit" => /\ constraints' = [b \in Bounds |-> arg[t].base]
                                /\ tensors' = tensors /\ lifted' = TRUE
    BY <1>3 DEF ResetWrite
  <2>2. ~raced \/ ~mixed => /\ exe # "set" /\ arg[t] = settings
                            /\ \A u \in Threads \ {t} : line[u] = "end"
    BY <1>1, <1>3 DEF ResetInv, ResetWrite, ServiceInv, LocksHeld
  <2>3. PICK u \in Threads : u # t /\ Threads = {t, u}
    BY <1>1
  <2>4. \A v \in Threads : line'[v] = "end" => arg'[v] = NoArg
    BY <1>1, <2>1 DEF ResetInv
  <2>5. ~raced \/ ~mixed => /\ line'[t] = NextLine(line[t]) /\ line'[u] = "end"
                            /\ line[u] = "end" /\ arg[t] = settings /\ exe # "set"
    BY <1>1, <2>1, <2>2, <2>3
  <2>6. ASSUME ~raced
        PROVE  \A p \in Parts : p \in Reshaped(line'["control"]) \cap Reshaped(line'["executor"])
                     => tensors'[p] = settings.shape
    <3>1. \A p \in Parts : p \in Reshaped(line[t]) => tensors[p] = settings.shape
      BY <1>1, <2>3, <2>5, <2>6, LinesReshape DEF ResetInv
    <3>2. \A p \in Parts : p \in Reshaped(NextLine(line[t])) => tensors'[p] = settings.shape
      <4>1. CASE line[t] = "state"
        BY <1>1, <2>1, <2>5, <2>6, <3>1, <4>1, LinesReshape
      <4>2. CASE line[t] = "sequence"
        BY <1>1, <2>1, <2>5, <2>6, <3>1, <4>2, LinesReshape
      <4>3. CASE line[t] = "limit"
        BY <1>1, <2>1, <2>5, <2>6, <3>1, <4>3, LinesReshape
      <4>4. CASE line[t] = "rollouts"
        BY <1>1, <2>1, <2>5, <2>6, <3>1, <4>4, LinesReshape
      <4>5. QED
        BY <1>1, <4>1, <4>2, <4>3, <4>4
    <3>3. QED
      BY <1>1, <2>3, <2>5, <2>6, <3>2, LinesReshape
  <2>7. ASSUME ~mixed
        PROVE  /\ exe \notin Bounds
               /\ Restored(line'["control"]) /\ Restored(line'["executor"]) =>
                     \A b \in Bounds : constraints'[b] = InForce'
    <3>1. exe \in {"out", "reset"}
      BY <1>1, <1>3, <2>5, <2>7 DEF ServiceInv, TypeOK, LocksHeld, ResetInv, Bounds
    <3>2. Stored(exe) = Bounds /\ exe \notin Bounds
      BY <3>1, BoundsStored
    <3>3. Restored(line[t]) => \A b \in Bounds : constraints[b] = InForce
      BY <1>1, <2>3, <2>5, <2>7, <3>2, LinesReshape DEF ResetInv
    <3>4. Restored(NextLine(line[t])) => \A b \in Bounds : constraints'[b] = InForce'
      <4>1. CASE line[t] = "limit"
        BY <1>1, <2>1, <2>5, <2>7, <4>1 DEF InForce
      <4>2. CASE line[t] = "rollouts"
        BY <1>1, <2>1, <3>3, <4>2, LinesReshape DEF InForce
      <4>3. CASE line[t] \in {"state", "sequence"}
        BY <4>3, LinesReshape
      <4>4. QED
        BY <1>1, <4>1, <4>2, <4>3
    <3>5. QED
      BY <1>1, <2>3, <2>5, <2>7, <3>2, <3>4, LinesReshape
  <2>8. ~raced \/ ~mixed => \A v \in Threads : arg'[v] \in {NoArg, settings}
    BY <1>1, <2>1 DEF ResetInv
  <2>9. (~raced => (ctl = "reset" => exe \notin {"set", "reset"}))
        /\ (~mixed => (ctl = "reset" => exe = "out"))
    BY DEF ResetInv
  <2>10. /\ ~raced => \A v \in Threads : arg'[v] \in {NoArg, settings}
         /\ ~mixed => \A v \in Threads : arg'[v] \in {NoArg, settings}
    BY <2>8
  <2>11. ~mixed => Stored(exe) \subseteq Bounds
    BY BoundsStored DEF ServiceInv, TypeOK
  <2>12. QED
    BY <1>1, <2>4, <2>6, <2>7, <2>9, <2>10, <2>11 DEF ResetInv
<1>4. QED
  BY <1>2, <1>3

\* The entries and exits of the two threads.
LEMMA ResetElsewhere ==
  ASSUME ServiceInv, ResetInv,
         \/ \E late \in BOOLEAN : ComputeVelocityCommands(late)
         \/ InactivityResetDone \/ TakeParamLock \/ TransformPathThrows \/ EvalControl
         \/ DynamicParamsCallback \/ PostCallbackDone
         \/ \E s \in Settings : SetParameters(s)
         \/ StoreBound \/ \E l \in Limits : SetSpeedLimit(l)
  PROVE  ResetInv'
<1> USE DEF optVars, modelVars, history
<1>1. /\ line \in [Threads -> {"state", "sequence", "limit", "rollouts", "end"}]
      /\ Threads = {"control", "executor"} /\ lifted \in BOOLEAN
      /\ constraints \in [Bounds -> Nat]
  BY DEF ServiceInv, TypeOK, OptTypeOK, Threads
<1>2. ASSUME NEW late \in BOOLEAN, ComputeVelocityCommands(late)
      PROVE  ResetInv'
  <2>1. line["control"] = "end"
    BY <1>2 DEF ComputeVelocityCommands, ServiceInv, LocksHeld
  <2>2. CASE late
    <3>1. /\ line' = [line EXCEPT !["control"] = "state"] /\ ctl' = "reset" /\ arg' = arg
          /\ raced' = (exe \in {"set", "reset"}) /\ mixed' = (exe # "out") /\ exe' = exe
      BY <1>2, <2>2 DEF ComputeVelocityCommands
    <3>2. exe \notin {"set", "reset"} => line["executor"] = "end"
      BY DEF ServiceInv, LocksHeld
    <3>3. line'["control"] = "state" /\ line'["executor"] = line["executor"]
      BY <1>1, <3>1
    <3>4. /\ ~raced' => exe \notin {"set", "reset"}
          /\ ~mixed' => exe = "out"
      BY <3>1
    <3>5. \A v \in Threads : line'[v] = "end" => arg'[v] = NoArg
      BY <1>1, <3>1, <3>3 DEF ResetInv
    <3>6. exe \notin {"set", "reset"} => \A v \in Threads : arg[v] = NoArg
      BY <1>1, <2>1, <3>2 DEF ResetInv
    <3>7. exe = "out" => exe \notin Bounds
      BY DEF Bounds
    <3>8. QED
      BY <1>1, <3>1, <3>3, <3>4, <3>5, <3>6, <3>7, LinesReshape DEF ResetInv
  <2>3. CASE ~late
    BY <1>2, <2>3 DEF ComputeVelocityCommands, ResetInv, InForce
  <2>4. QED
    BY <2>2, <2>3
<1>3. CASE InactivityResetDone \/ TakeParamLock \/ TransformPathThrows
  BY <1>3 DEF InactivityResetDone, TakeParamLock, TransformPathThrows, ResetInv, InForce
<1>4. CASE EvalControl
  BY <1>4 DEF EvalControl, Prepare, ResetInv, InForce
<1>5. CASE DynamicParamsCallback
  <2>1. /\ ctl # "reset" => line["control"] = "end"
        /\ line["executor"] = "end"
    BY <1>5 DEF DynamicParamsCallback, ServiceInv, LocksHeld
  <2>2. /\ exe' = "set" /\ ctl' = ctl /\ line' = line /\ arg' = arg
        /\ ~raced' => ctl # "reset"
        /\ ~mixed' => ctl # "reset"
    BY <1>5 DEF DynamicParamsCallback
  <2>3. ctl # "reset" => \A v \in Threads : arg[v] = NoArg
    BY <1>1, <2>1 DEF ResetInv
  <2>4. QED
    BY <1>1, <2>2, <2>3 DEF ResetInv, Bounds
<1>6. CASE PostCallbackDone
  <2>1. exe = "reset" /\ exe' = "out" /\ Stored(exe) = Bounds /\ Stored(exe') = Bounds
    BY <1>6, BoundsStored DEF PostCallbackDone
  <2>2. QED
    BY <1>6, <2>1 DEF PostCallbackDone, ResetInv, InForce, Bounds
<1>7. ASSUME NEW s \in Settings, SetParameters(s)
      PROVE  ResetInv'
  <2>1. /\ line["executor"] = "end" /\ (ctl # "reset" => line["control"] = "end")
    BY <1>7 DEF SetParameters, ServiceInv, LocksHeld
  <2>2. /\ line' = [line EXCEPT !["executor"] = "state"] /\ exe' = "reset" /\ exe = "set"
        /\ ctl' = ctl /\ arg' = arg /\ raced' = raced /\ mixed' = mixed
    BY <1>7 DEF SetParameters
  <2>3. line'["executor"] = "state" /\ line'["control"] = line["control"]
    BY <1>1, <2>2
  <2>4. ctl # "reset" => \A v \in Threads : arg[v] = NoArg
    BY <1>1, <2>1 DEF ResetInv
  <2>5. QED
    BY <1>1, <2>2, <2>3, <2>4, LinesReshape DEF ResetInv, Bounds
<1>8. ASSUME NEW l \in Limits, SetSpeedLimit(l)
      PROVE  ResetInv'
  <2>1. /\ exe = "out" /\ exe' = "vx_max" /\ lifted' = FALSE /\ line' = line /\ arg' = arg
        /\ ctl' = ctl /\ raced' = raced /\ settings' = settings /\ tensors' = tensors
        /\ ~mixed' => ctl # "reset"
    BY <1>8 DEF SetSpeedLimit
  <2>2. \A v \in Threads : ctl # "reset" => arg[v] = NoArg
    BY <1>1, <2>1 DEF ServiceInv, LocksHeld, ResetInv
  <2>3. Stored(exe') = {}
    BY <2>1, BoundsStored
  <2>4. QED
    BY <2>1, <2>2, <2>3 DEF ResetInv
<1>9. CASE StoreBound
  <2>1. /\ exe \in Bounds /\ exe' = NextBound(exe)
        /\ constraints' = [constraints EXCEPT ![exe] = Limited(requested, settings.base)]
        /\ UNCHANGED <<line, arg, ctl, raced, mixed, lifted, requested, settings, tensors>>
    BY <1>9 DEF StoreBound
  <2>2. exe' \in {"out"} \cup Bounds /\ exe \notin {"out", "set", "reset"}
    BY <2>1, BoundsStored
  <2>3. Stored(exe') = Stored(exe) \cup {exe}
    BY <2>1, BoundsStored
  <2>4. ASSUME ~mixed, Restored(line["control"]), Restored(line["executor"])
        PROVE  \A b \in Stored(exe') : constraints'[b] = InForce'
    <3>1. ~lifted /\ \A b \in Stored(exe) : constraints[b] = InForce
      BY <2>1, <2>2, <2>4 DEF ResetInv
    <3>2. InForce' = Limited(requested, settings.base) /\ InForce = Limited(requested, settings.base)
      BY <2>1, <3>1 DEF InForce
    <3>3. Stored(exe) \subseteq Bounds
      BY <2>1, BoundsStored
    <3>4. QED
      BY <1>1, <2>1, <2>3, <3>1, <3>2, <3>3
  <2>5. ~mixed => ctl # "reset" /\ ~lifted
    BY <2>1, <2>2 DEF ResetInv
  <2>6. exe' \notin {"set", "reset"}
    BY <2>2, BoundsStored
  <2>7. QED
    BY <2>1, <2>2, <2>4, <2>5, <2>6 DEF ResetInv
<1>10. QED
  BY <1>2, <1>3, <1>4, <1>5, <1>6, <1>7, <1>8, <1>9

\* evalControl reshapes and restores only as reset() does, in one piece.
LEMMA ResetInEval ==
  ASSUME ServiceInv, ResetInv, Evaluating \/ EvalControlEnds
  PROVE  ResetInv'
<1>1. /\ ctl = "eval" /\ ctl' \in {"eval", "out"} /\ exe' = exe /\ line' = line /\ arg' = arg
      /\ raced' = raced /\ requested' = requested /\ LimitLifted
  BY DEF Evaluating, EvalControlEnds, ctlVars
<1>2. settings' = settings
  BY CallGoesOn DEF Evaluating, EvalControlEnds, EvalEnd, FallbackThrow, Finish
<1>3. \/ UNCHANGED <<tensors, constraints>> /\ ~FallbackResets
      \/ ResetModel /\ FallbackResets
  BY DEF Evaluating, EvalControlEnds, EvalStep, EvalEnd, GenerateNoisedTrajectories, Score, ScoresDone,
         UpdateControlSequence, FallbackPass, FallbackRetry, FallbackThrow, Finish, modelVars,
         FallbackResets
<1>4. lifted \in BOOLEAN /\ exe \in {"out", "set", "reset"} \cup Bounds
  BY DEF ServiceInv, TypeOK
<1>5. CASE UNCHANGED <<tensors, constraints>> /\ ~FallbackResets
  <2>1. lifted' = lifted /\ mixed' = mixed
    BY <1>1, <1>4, <1>5 DEF LimitLifted
  <2>2. QED
    BY <1>1, <1>2, <1>5, <2>1 DEF ResetInv, InForce
<1>6. CASE ResetModel /\ FallbackResets
  <2>1. /\ lifted' = TRUE /\ mixed' = (exe \in Bounds)
        /\ constraints' = [b \in Bounds |-> settings.base]
        /\ tensors' = [p \in Parts |-> settings.shape]
    BY <1>1, <1>6 DEF LimitLifted, ResetModel
  <2>2. ~mixed' => exe \notin Bounds
    BY <2>1
  <2>3. Stored(exe) \subseteq Bounds
    BY <1>4, BoundsStored
  <2>4. \A b \in Stored(exe) : constraints'[b] = InForce'
    BY <1>2, <2>1, <2>3 DEF InForce
  <2>5. \A v \in Threads : arg[v] = NoArg
    BY <1>1 DEF ServiceInv, LocksHeld, ResetInv, Threads
  <2>6. QED
    BY <1>1, <1>2, <2>1, <2>2, <2>4, <2>5 DEF ResetInv
<1>7. QED
  BY <1>3, <1>5, <1>6

\* Every reset leaves the optimizer in line with its settings, or was raced.
THEOREM ResetInvariant == Spec => []ResetInv
<1>1. ServiceInv /\ ResetInv /\ [Next]_vars => ResetInv'
  <2> SUFFICES ASSUME ServiceInv, ResetInv, [Next]_vars
               PROVE  ResetInv'
    OBVIOUS
  <2>1. CASE UNCHANGED vars
    BY <2>1 DEF vars, optVars, modelVars, ctlVars, history, ResetInv, InForce
  <2>2. CASE ControlStep
    BY <2>2, ResetLineDone, ResetElsewhere, ResetInEval DEF ControlStep, Threads
  <2>3. CASE ExecutorStep
    BY <2>3, ResetLineDone, ResetElsewhere DEF ExecutorStep, Threads
  <2>4. QED
    BY <2>1, <2>2, <2>3, ResetElsewhere DEF Next
<1>2. QED
  BY <1>1, ResetInit, ServiceInvariant, PTL DEF Spec

\* evalControl works on tensors of the size in force unless the reset after
\* inactivity, which takes no lock, overlapped with a parameter callback.
THEOREM ShapesAgreeAtUse == Spec => []ShapesAgree
<1>1. ServiceInv /\ ResetInv => ShapesAgree
  BY LinesReshape DEF ServiceInv, LocksHeld, ResetInv, ShapesAgree, Threads
<1>2. QED
  BY <1>1, ServiceInvariant, ResetInvariant, PTL

\* The constraints are all four those of the last request to setSpeedLimit, or the
\* base ones once a reset has lifted it, unless its stores overlapped with a reset.
THEOREM ConstraintsAreCurrent == Spec => []ConstraintsCurrent
<1>1. ServiceInv /\ ResetInv => ConstraintsCurrent
  BY LinesReshape, BoundsStored
  DEF ServiceInv, LocksHeld, ResetInv, ConstraintsCurrent, Threads
<1>2. QED
  BY <1>1, ServiceInvariant, ResetInvariant, PTL
===============================================================================
