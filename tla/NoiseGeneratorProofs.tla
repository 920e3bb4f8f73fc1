------------------------- MODULE NoiseGeneratorProofs -------------------------
(***************************************************************************)
(* Safety of NoiseGenerator for any set of shapes, with and without        *)
(* run-time toggling of regenerate_noises, and with resets after           *)
(* inactivity that overlap with parameter callbacks.  NoiseInv is          *)
(* inductive: the holders of the two mutexes, the settings copied by a     *)
(* reset() and the tensors that follow them have to be tracked together,   *)
(* since the thread draws from settings_ while a reset() assigns it        *)
(* outside noise_lock_.                                                    *)
(***************************************************************************)
EXTENDS NoiseGenerator, TLAPS

\* The initial state, an object nobody has configured, satisfies the invariant.
LEMMA NoiseInit == Init => NoiseInv
<1> SUFFICES ASSUME Init
             PROVE  NoiseInv
  OBVIOUS
<1>1. settings \in Shapes /\ noises = [a \in Axes |-> [shape |-> settings, drawn |-> FALSE]]
  BY DEF Init, Zeros
<1>2. noises \in [Axes -> Tensor]
  BY <1>1 DEF Tensor
<1>3. cpc["control"] = "out" /\ cpc["executor"] = "absent" /\ mutex = "free"
  BY DEF Init, Clients
<1>4. TypeOK
  BY <1>2 DEF Init, TypeOK, Alive, Clients
<1>5. LockHolder /\ MutexHolder /\ Alone
  BY <1>3 DEF Init, LockHolder, MutexHolder, Alone, Serving, Using, Resetting, Drawing
<1>6. ~Past(Uncopied)
  BY <1>3 DEF Past, Uncopied, Clients
<1>7. ArgsTyped /\ SettingsFollow /\ TensorsFollow /\ NoLateral /\ OneDrawer /\ DrawnInTurn
  BY <1>1, <1>3, <1>6 DEF Init, ArgsTyped, SettingsFollow, TensorsFollow, NoLateral, OneDrawer,
     DrawnInTurn, Unzeroed, Past, Uncopied, Drawing, Clients, Alive
<1>8. QED
  BY <1>4, <1>5, <1>7 DEF NoiseInv

\* Drawing one axis keeps the tensors typed, touches no other axis, and leaves
\* that axis with the shape of settings_ unless it is skipped.
LEMMA DrawAxisLemma ==
  ASSUME NEW a \in Axes, noises \in [Axes -> Tensor], settings \in Shapes,
         DrawAxis(a)
  PROVE  /\ noises' \in [Axes -> Tensor]
         /\ \A b \in Axes \ {a} : noises'[b] = noises[b]
         /\ noises'[a] = IF a = "vy" /\ ~holonomic THEN noises[a]
                         ELSE [shape |-> settings, drawn |-> TRUE]
  BY DEF DrawAxis, Tensor, Axes

\* A client going from one place to another leaves the other client where it is.
LEMMA GoesLemma ==
  ASSUME TypeOK, NEW c \in Clients, NEW place, Goes(c, place)
  PROVE  /\ cpc'["control"]  = IF c = "control"  THEN place ELSE cpc["control"]
         /\ cpc'["executor"] = IF c = "executor" THEN place ELSE cpc["executor"]
         /\ DOMAIN cpc' = Clients
         /\ cpc' = [d \in Clients |-> IF d = c THEN place ELSE cpc[d]]
  BY DEF TypeOK, Goes, Clients

\* The steps of a reset(), of the client c, preserve the invariant.
LEMMA ResetKeeps ==
  ASSUME NoiseInv, NEW c \in Clients, ResetStep(c)
  PROVE  NoiseInv'
<1> USE DEF NoiseInv, TypeOK, LockHolder, MutexHolder, Alone, ArgsTyped, SettingsFollow,
            TensorsFollow, NoLateral, OneDrawer, DrawnInTurn, Past, Uncopied, Unzeroed,
            Alive, Serving, Using, Resetting, Drawing, Clients
<1>1. CASE ReadSettings(c)
  BY <1>1, GoesLemma, SMTT(30) DEF ReadSettings, flags, history
<1>2. CASE ResetSettings(c)
  BY <1>2, GoesLemma, SMTT(30) DEF ResetSettings, flags, history
<1>3. CASE ResetZero(c)
  <2>1. /\ noises' \in [Axes -> Tensor]
        /\ \A a \in Axes : noises'[a].shape = settings /\ ~noises'[a].drawn
    BY <1>3 DEF ResetZero, Zeros, Axes, Tensor
  <2>2. QED
    BY <1>3, <2>1, GoesLemma, SMTT(30) DEF ResetZero, shape, history, Axes
<1>4. CASE ResetRedraw(c)
  BY <1>4, GoesLemma, SMTT(30) DEF ResetRedraw, NotifyAll, flags, shape, history
<1>5. CASE ClientDraw(c)
  <2>1. cpc[c] \in Axes /\ DrawAxis(cpc[c])
    BY <1>5 DEF ClientDraw, Axes
  <2>2. /\ noises' \in [Axes -> Tensor]
        /\ \A b \in Axes \ {cpc[c]} : noises'[b] = noises[b]
        /\ noises'[cpc[c]] = IF cpc[c] = "vy" /\ ~holonomic THEN noises[cpc[c]]
                             ELSE [shape |-> settings, drawn |-> TRUE]
    BY <2>1, DrawAxisLemma
  <2>3. /\ UNCHANGED <<npc, lock, mutex, flags, shape, history>>
        /\ Goes(c, CASE cpc[c] = "vx" -> "wz" [] cpc[c] = "wz" -> "vy" [] OTHER -> "return")
    BY <1>5 DEF ClientDraw, NextAxis
  <2>4. QED
    BY <2>1, <2>2, <2>3, GoesLemma, SMTT(30) DEF Axes, flags, shape, history
<1>6. QED
  BY <1>1, <1>2, <1>3, <1>4, <1>5 DEF ResetStep

\* The operations of the executor and its way through them preserve the invariant.
LEMMA ExecutorKeeps ==
  ASSUME NoiseInv, ExecutorStep
  PROVE  NoiseInv'
<1> USE DEF NoiseInv, TypeOK, LockHolder, MutexHolder, Alone, ArgsTyped, SettingsFollow,
            TensorsFollow, NoLateral, OneDrawer, DrawnInTurn, Past, Uncopied, Unzeroed,
            Alive, Serving, Using, Resetting, Drawing, Clients
<1>1. CASE ResetStep("executor")
  BY <1>1, ResetKeeps
<1>2. CASE PostCallback
  BY <1>2, GoesLemma, SMTT(30) DEF PostCallback, flags, shape, history
<1>3. CASE ExecutorReturns
  BY <1>3, GoesLemma, SMTT(30) DEF ExecutorReturns, flags, shape, history
<1>4. CASE ShutdownReady
  BY <1>4, GoesLemma, SMTT(30) DEF ShutdownReady, shape, history
<1>5. CASE ShutdownNotify
  BY <1>5, GoesLemma, SMTT(30) DEF ShutdownNotify, NotifyAll, flags, shape, history
<1>6. CASE ShutdownJoin
  BY <1>6, GoesLemma, SMTT(30) DEF ShutdownJoin, flags, shape, history
<1>7. QED
  BY <1>1, <1>2, <1>3, <1>4, <1>5, <1>6 DEF ExecutorStep

\* The control thread's way through a call preserves the invariant.
LEMMA ControlKeeps ==
  ASSUME NoiseInv, ControlStep \/ TakeParamLock
  PROVE  NoiseInv'
<1> USE DEF NoiseInv, TypeOK, LockHolder, MutexHolder, Alone, ArgsTyped, SettingsFollow,
            TensorsFollow, NoLateral, OneDrawer, DrawnInTurn, Past, Uncopied, Unzeroed,
            Alive, Serving, Using, Resetting, Drawing, Clients
<1>1. CASE ResetStep("control")
  BY <1>1, ResetKeeps
<1>2. CASE ControlReturns
  BY <1>2, GoesLemma, SMTT(30) DEF ControlReturns, flags, shape, history
<1>3. CASE SetNoisedControls
  BY <1>3, GoesLemma, SMTT(30) DEF SetNoisedControls, flags, shape, history
<1>4. CASE NoisedControlsSet
  BY <1>4, GoesLemma, SMTT(30) DEF NoisedControlsSet, flags, shape, history
<1>5. CASE GenerateNextNoises
  BY <1>5, GoesLemma, SMTT(30) DEF GenerateNextNoises, shape, history
<1>6. CASE NotifyNoiseThread
  BY <1>6, GoesLemma, SMTT(30) DEF NotifyNoiseThread, NotifyAll, flags, shape, history
<1>7. CASE Fallback
  <2>1. /\ cpc["control"] = "eval" /\ raced' = FALSE
        /\ cpc'["control"] = "reset" /\ cpc'["executor"] = cpc["executor"]
        /\ cpc' = [d \in Clients |-> IF d = "control" THEN "reset" ELSE cpc[d]]
        /\ UNCHANGED <<npc, lock, mutex, active, ready, regenerate, arg, settings, wanted,
                       holonomic, noises, toggled>>
    BY <1>7, GoesLemma DEF Fallback, flags, shape
  <2>2. TypeOK'
    BY <2>1
  <2>3. (LockHolder /\ MutexHolder /\ Alone)'
    BY <2>1, SMTT(30)
  <2>4. (ArgsTyped /\ SettingsFollow /\ TensorsFollow)'
    BY <2>1, SMTT(30)
  <2>5. (NoLateral /\ OneDrawer /\ DrawnInTurn)'
    BY <2>1, SMTT(30)
  <2>6. QED
    BY <2>2, <2>3, <2>4, <2>5
<1>8. CASE CallEnds
  BY <1>8, GoesLemma, SMTT(30) DEF CallEnds, flags, shape, history
<1>9. CASE TakeParamLock
  BY <1>9, GoesLemma, SMTT(30) DEF TakeParamLock, flags, shape, history
<1>10. QED
  BY <1>1, <1>2, <1>3, <1>4, <1>5, <1>6, <1>7, <1>8, <1>9 DEF ControlStep

\* A callback that begins while the control thread is inside a reset is marked.
LEMMA OverlapMarked ==
  DynamicParamsCallback => raced' \in BOOLEAN /\ (cpc["control"] \in Resetting => raced')
<1>1. CASE cpc["control"] \in Resetting
  BY <1>1 DEF DynamicParamsCallback
<1>2. CASE cpc["control"] \notin Resetting
  BY <1>2 DEF DynamicParamsCallback
<1>3. QED
  BY <1>1, <1>2

\* The operations a client is free to begin preserve the invariant.
LEMMA CallKeeps ==
  ASSUME NoiseInv, ClientCall
  PROVE  NoiseInv'
<1> USE DEF NoiseInv, TypeOK, LockHolder, MutexHolder, Alone, ArgsTyped, SettingsFollow,
            TensorsFollow, NoLateral, OneDrawer, DrawnInTurn, Past, Uncopied, Unzeroed,
            Alive, Serving, Using, Resetting, Drawing, Clients
<1>1. ASSUME NEW s \in Shapes, NEW h \in BOOLEAN, NEW r \in BOOLEAN, Initialize(s, h, r)
      PROVE  NoiseInv'
  <2>1. noises' \in [Axes -> Tensor]
    <3>1. CASE r
      BY <1>1, <3>1 DEF Initialize
    <3>2. CASE ~r
      <4>1. noises' = [a \in Axes |-> IF a = "vy" /\ ~h THEN noises[a]
                                      ELSE [shape |-> s, drawn |-> TRUE]]
        BY <1>1, <3>2 DEF Initialize
      <4>2. QED
        BY <4>1 DEF Axes, Tensor
    <3>3. QED
      BY <3>1, <3>2
  <2>2. /\ Goes("executor", "reset") /\ npc' \in {"lock", "none"} /\ (~r => npc' = "none")
        /\ UNCHANGED <<lock, mutex, ready, arg>>
        /\ active' = TRUE /\ toggled' = FALSE /\ raced' = FALSE
        /\ regenerate' = r /\ holonomic' = h /\ settings' = s /\ wanted' = s
        /\ cpc["executor"] = "absent"
    BY <1>1 DEF Initialize
  <2>3. /\ cpc'["control"] = cpc["control"] /\ cpc'["executor"] = "reset"
        /\ cpc' = [d \in Clients |-> IF d = "executor" THEN "reset" ELSE cpc[d]]
    BY <2>2, GoesLemma
  <2>4. cpc["control"] = "out" /\ mutex = "free"
    BY <2>2
  <2>5. TypeOK'
    BY <2>1, <2>2, <2>3
  <2>6. (LockHolder /\ MutexHolder /\ Alone)'
    BY <2>2, <2>3, <2>4, SMTT(30)
  <2>7. (ArgsTyped /\ SettingsFollow /\ TensorsFollow)'
    BY <2>2, <2>3, <2>4, SMTT(30)
  <2>8. (NoLateral /\ OneDrawer /\ DrawnInTurn)'
    BY <2>2, <2>3, <2>4, SMTT(30)
  <2>9. QED
    BY <2>5, <2>6, <2>7, <2>8
<1>2. CASE DynamicParamsCallback
  <2>1. /\ cpc["executor"] = "out" /\ mutex = "free" /\ mutex' = "executor"
        /\ cpc'["control"] = cpc["control"] /\ cpc'["executor"] = "set"
        /\ cpc' = [d \in Clients |-> IF d = "executor" THEN "set" ELSE cpc[d]]
        /\ raced' \in BOOLEAN /\ (cpc["control"] \in Resetting => raced')
        /\ UNCHANGED <<npc, lock, active, ready, regenerate, arg, settings, wanted,
                       holonomic, noises, toggled>>
    BY <1>2, OverlapMarked, GoesLemma DEF DynamicParamsCallback, flags, shape
  <2>2. TypeOK'
    BY <2>1
  <2>3. (LockHolder /\ MutexHolder /\ Alone)'
    BY <2>1, SMTT(30)
  <2>4. (ArgsTyped /\ SettingsFollow /\ TensorsFollow)'
    BY <2>1, SMTT(30)
  <2>5. (NoLateral /\ OneDrawer /\ DrawnInTurn)'
    BY <2>1, SMTT(30)
  <2>6. QED
    BY <2>2, <2>3, <2>4, <2>5
<1>3. ASSUME NEW s \in Shapes, NEW r \in BOOLEAN, SetParameter(s, r)
      PROVE  NoiseInv'
  BY <1>3, SMTT(30) DEF SetParameter
<1>4. CASE ShutdownActive
  <2>1. /\ cpc["executor"] = "out" /\ cpc["control"] = "out"
        /\ cpc'["control"] = "out" /\ cpc'["executor"] = "stopReady" /\ active' = FALSE
        /\ cpc' = [d \in Clients |-> IF d = "executor" THEN "stopReady" ELSE cpc[d]]
        /\ UNCHANGED <<npc, lock, mutex, ready, regenerate, arg, settings, wanted,
                       holonomic, noises, toggled, raced>>
    BY <1>4, GoesLemma DEF ShutdownActive, shape, history
  <2>2. TypeOK'
    BY <2>1
  <2>3. (LockHolder /\ MutexHolder /\ Alone)'
    BY <2>1, SMTT(30)
  <2>4. (ArgsTyped /\ SettingsFollow /\ TensorsFollow)'
    BY <2>1, SMTT(30)
  <2>5. (NoLateral /\ OneDrawer /\ DrawnInTurn)'
    BY <2>1, SMTT(30)
  <2>6. QED
    BY <2>2, <2>3, <2>4, <2>5
<1>5. ASSUME NEW late \in BOOLEAN, ComputeVelocityCommands(late)
      PROVE  NoiseInv'
  <2>1. /\ cpc["control"] = "out" /\ Serving
        /\ cpc'["control"] \in {"reset", "ask"} /\ cpc'["executor"] = cpc["executor"]
        /\ cpc'["control"] = "ask" => raced' = raced
        /\ cpc'["control"] = "reset" => raced' \/ cpc["executor"] = "out"
        /\ raced' \in BOOLEAN
        /\ cpc' = [d \in Clients |-> IF d = "control" THEN cpc'["control"] ELSE cpc[d]]
        /\ UNCHANGED <<npc, lock, mutex, active, ready, regenerate, arg, settings, wanted,
                       holonomic, noises, toggled>>
    <3>1. CASE late
      <4>1. raced' = (cpc["executor"] # "out")
        BY <1>5, <3>1 DEF ComputeVelocityCommands
      <4>2. raced' \in BOOLEAN /\ (cpc["executor"] # "out" => raced')
        BY <4>1, Zenon
      <4>3. QED
        BY <1>5, <3>1, <4>2, GoesLemma DEF ComputeVelocityCommands, flags, shape
    <3>2. CASE ~late
      BY <1>5, <3>2, GoesLemma DEF ComputeVelocityCommands, flags, shape
    <3>3. QED
      BY <3>1, <3>2
  <2>2. TypeOK'
    BY <2>1
  <2>3. (LockHolder /\ MutexHolder /\ Alone)'
    BY <2>1, SMTT(30)
  <2>4. (ArgsTyped /\ SettingsFollow /\ TensorsFollow)'
    BY <2>1, SMTT(30)
  <2>5. (NoLateral /\ OneDrawer /\ DrawnInTurn)'
    BY <2>1, SMTT(30)
  <2>6. QED
    BY <2>2, <2>3, <2>4, <2>5
<1>6. QED
  BY <1>1, <1>2, <1>3, <1>4, <1>5 DEF ClientCall

\* The steps of the noise thread preserve the invariant.
LEMMA ThreadKeeps ==
  ASSUME NoiseInv, ThreadLock \/ ThreadStep \/ SpuriousWakeup
  PROVE  NoiseInv'
<1> USE DEF NoiseInv, TypeOK, LockHolder, MutexHolder, Alone, ArgsTyped, SettingsFollow,
            TensorsFollow, NoLateral, OneDrawer, DrawnInTurn, Past, Uncopied, Unzeroed,
            Alive, Serving, Using, Resetting, Drawing, Clients
<1>1. CASE ThreadLock
  BY <1>1, SMTT(30) DEF ThreadLock, flags, shape, history
<1>2. CASE ThreadCheck
  <2>1. /\ npc = "check" /\ npc' \in {"vx", "block"} /\ ready' = FALSE
        /\ UNCHANGED <<cpc, lock, mutex, active, regenerate, arg, settings, wanted,
                       holonomic, noises, toggled, raced>>
    BY <1>2 DEF ThreadCheck, shape, history
  <2>2. TypeOK'
    <3>1. npc' \in {"vx", "block"} /\ cpc["executor"] # "absent"
      BY <2>1
    <3>2. (cpc["executor"] = "absent" => ~Alive)'
      BY <2>1, <3>1
    <3>3. npc' \in {"none", "lock", "check", "block", "waiting", "loop", "done"} \cup Drawing
      BY <2>1
    <3>4. arg' \in [Clients -> Shapes \cup {NoArg}] /\ noises' \in [Axes -> Tensor]
      BY <2>1
    <3>5. cpc' = cpc /\ lock' = lock /\ mutex' = mutex /\ active' = active /\ ready' = FALSE
      BY <2>1
    <3>6. QED
      BY <2>1, <3>2, <3>3, <3>4, <3>5
  <2>3. (LockHolder /\ MutexHolder /\ Alone)'
    BY <2>1, SMTT(30)
  <2>4. (ArgsTyped /\ SettingsFollow /\ TensorsFollow)'
    BY <2>1, SMTT(30)
  <2>5. (NoLateral /\ OneDrawer /\ DrawnInTurn)'
    BY <2>1, SMTT(30)
  <2>6. QED
    BY <2>2, <2>3, <2>4, <2>5
<1>3. CASE ThreadBlock
  BY <1>3, SMTT(30) DEF ThreadBlock, flags, shape, history
<1>4. CASE SpuriousWakeup
  BY <1>4, SMTT(30) DEF SpuriousWakeup, flags, shape, history
<1>5. CASE ThreadLoop
  BY <1>5, SMTT(30) DEF ThreadLoop, flags, shape, history
<1>6. CASE ThreadDraw
  <2>1. npc \in Axes /\ DrawAxis(npc)
    BY <1>6 DEF ThreadDraw, Axes
  <2>2. /\ noises' \in [Axes -> Tensor]
        /\ \A b \in Axes \ {npc} : noises'[b] = noises[b]
        /\ noises'[npc] = IF npc = "vy" /\ ~holonomic THEN noises[npc]
                          ELSE [shape |-> settings, drawn |-> TRUE]
    BY <2>1, DrawAxisLemma
  <2>3. UNCHANGED <<cpc, mutex, flags, shape, history>>
    BY <1>6 DEF ThreadDraw
  <2>4. /\ npc' = CASE npc = "vx" -> "wz" [] npc = "wz" -> "vy" [] OTHER -> "loop"
        /\ lock' = IF npc = "vy" THEN "free" ELSE lock
    BY <2>1, <1>6 DEF ThreadDraw, NextAxis, Axes
  <2>5. QED
    BY <2>1, <2>2, <2>3, <2>4, SMTT(30) DEF Axes, flags, shape, history
<1>7. QED
  BY <1>1, <1>2, <1>3, <1>4, <1>5, <1>6 DEF ThreadStep

\* Every step of the clients and of the noise thread preserves the invariant.
LEMMA NoiseStep == NoiseInv /\ [Next]_vars => NoiseInv'
<1> SUFFICES ASSUME NoiseInv, [Next]_vars
             PROVE  NoiseInv'
  OBVIOUS
<1>1. CASE Next
  BY <1>1, ExecutorKeeps, ControlKeeps, CallKeeps, ThreadKeeps DEF Next
<1>2. CASE UNCHANGED vars
  BY <1>2 DEF vars, flags, shape, history, NoiseInv, TypeOK, LockHolder, MutexHolder, Alone,
     ArgsTyped, SettingsFollow, TensorsFollow, NoLateral, OneDrawer, DrawnInTurn, Past,
     Uncopied, Unzeroed, Alive, Serving, Using, Resetting, Drawing, Clients
<1>3. QED
  BY <1>1, <1>2

\* The inductive invariant holds throughout.
THEOREM NoiseInvariant == Spec => []NoiseInv
  BY NoiseInit, NoiseStep, PTL DEF Spec

\* Type correctness; a configured-and-cleaned-up object has no thread left.
THEOREM NoiseTypeCorrect == Spec => []TypeOK
<1>1. NoiseInv => TypeOK
  BY DEF NoiseInv
<1>2. QED
  BY <1>1, NoiseInvariant, PTL

\* While the noises are read the executor is not inside a configuration, a callback
\* or a reset.
LEMMA UsedAlone == NoiseInv /\ Using => Past(Unzeroed \cup Drawing \cup {"redraw"})
  BY DEF NoiseInv, MutexHolder, TypeOK, Using, Past, Unzeroed, Uncopied, Drawing, Resetting,
     Serving, Clients

\* Whatever the resets and the thread interleave, setNoisedControls adds tensors of
\* the shape of the optimizer's state, unless an unlocked reset has overlapped with
\* a parameter callback.
THEOREM ShapeSafety == Spec => []ShapeAtUse
<1>1. NoiseInv => ShapeAtUse
  BY UsedAlone DEF NoiseInv, TensorsFollow, Past, ShapeAtUse
<1>2. QED
  BY <1>1, NoiseInvariant, PTL

\* noise_lock_ keeps every draw of the thread out of setNoisedControls, the parameter
\* mutex every reset of the executor.
THEOREM ReadExclusion == Spec => []ReadExclusive
<1>1. NoiseInv => ReadExclusive
  BY UsedAlone DEF NoiseInv, LockHolder, ReadExclusive, Past, Unzeroed, Clients
<1>2. QED
  BY <1>1, NoiseInvariant, PTL

\* No lateral sample reaches a base that is not holonomic.
THEOREM LateralSafety == Spec => []NoLateralNoise
<1>1. NoiseInv => NoLateralNoise
  BY UsedAlone DEF NoiseInv, NoLateral, NoLateralNoise, Past, Unzeroed, Uncopied, Clients
<1>2. QED
  BY <1>1, NoiseInvariant, PTL

\* Without regeneration every use sees a drawn sample.
THEOREM FixedNoiseSampled == Spec => []SampledWhenFixed
<1>1. NoiseInv => SampledWhenFixed
  BY UsedAlone DEF NoiseInv, DrawnInTurn, SampledWhenFixed, Past, Unzeroed, Uncopied, Drawing
<1>2. QED
  BY <1>1, NoiseInvariant, PTL

\* Two threads draw at once only after a run-time toggle of regenerate_noises, or when
\* an unlocked reset overlaps with a parameter callback.
THEOREM SingleDrawer == Spec => []WriteExclusive
<1>1. NoiseInv => WriteExclusive
  BY DEF NoiseInv, OneDrawer, Alone, MutexHolder, WriteExclusive, TypeOK, Alive, Drawing,
     Resetting, Clients
<1>2. QED
  BY <1>1, NoiseInvariant, PTL
===============================================================================
