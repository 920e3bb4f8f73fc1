---------------------------- MODULE NoiseGenerator ----------------------------
(***************************************************************************)
(* mppi::NoiseGenerator: the sampling noise of the MPPI optimizer and the  *)
(* optional thread that redraws it, started by initialize() when           *)
(* regenerate_noises is set.  Two client threads call it: the control      *)
(* thread (evalControl, and the reset after inactivity) and the executor   *)
(* (configuration, parameter callbacks, cleanup).                          *)
(*                                                                         *)
(* evalControl and the parameter callback exclude each other through the   *)
(* parameter mutex.  The reset after inactivity comes before the mutex is  *)
(* taken and may overlap with a whole parameter callback.                  *)
(*                                                                         *)
(* A step is a maximal stretch of code that no other thread can cut in     *)
(* two: a critical section of noise_lock_, or one access made outside it.  *)
(* A tensor is abstracted to its shape (a member of Shapes stands for      *)
(* batch_size x time_steps) and whether it holds a drawn sample or the     *)
(* zeros of reset().                                                       *)
(***************************************************************************)
EXTENDS Naturals

CONSTANTS
    Shapes,             \* the (batch_size, time_steps) pairs the settings may take
    DynamicRegenerate,  \* may a parameter change toggle regenerate_noises at run time?
    NoArg               \* marks that no copy of the settings is half done

ASSUME NoiseAssumption ==
    /\ Shapes # {} /\ NoArg \notin Shapes
    /\ DynamicRegenerate \in BOOLEAN

Clients == {"control", "executor"}
Axes    == {"vx", "vy", "wz"}

VARIABLES
    cpc,          \* where each client is
    npc,          \* where the noise thread is
    lock,         \* holder of noise_lock_: "free", "control" or "noise"
    mutex,        \* holder of parameters_change_mutex_: "free" or a client
    active,       \* active_
    ready,        \* ready_
    regenerate,   \* regenerate_noises_
    arg,          \* per client, the settings a reset() has read and not yet copied
    settings,     \* the shape in the generator's own copy settings_
    wanted,       \* the shape in the optimizer's settings, and of its state_
    holonomic,    \* is_holonomic_
    noises,       \* noises_vx_, noises_vy_, noises_wz_
    toggled,      \* history: regenerate_noises changed while the object was configured
    raced         \* history: the last reset overlapped with another client's callback

flags   == <<active, ready, regenerate>>
shape   == <<arg, settings, wanted, holonomic>>
history == <<toggled, raced>>
vars    == <<cpc, npc, lock, mutex, flags, shape, noises, history>>

\* The noise thread exists and has not left its loop.
Alive == npc \notin {"none", "done"}

\* Inside generateNoisedControls(), before the draw of each axis, and inside reset().
Drawing   == {"vx", "wz", "vy"}
Resetting == {"reset", "copy", "zero", "redraw", "return"} \cup Drawing

\* The object is configured: calls of the controller may come.
Serving == cpc["executor"] = "out" \/ mutex = "executor"

Goes(c, place) == cpc' = [cpc EXCEPT ![c] = place]

Zeros(s) == [a \in Axes |-> [shape |-> s, drawn |-> FALSE]]

\* The draw of one axis reads settings_ afresh (it is a reference there), and
\* the vy draw is skipped unless the base is holonomic.
DrawAxis(a) ==
    noises' = IF a = "vy" /\ ~holonomic
              THEN noises
              ELSE [noises EXCEPT ![a] = [shape |-> settings, drawn |-> TRUE]]

NextAxis(a) == CASE a = "vx" -> "wz" [] a = "wz" -> "vy" [] OTHER -> "end"

\* notify_all: a waiting thread goes back to competing for the lock.
NotifyAll == npc' = IF npc = "waiting" THEN "lock" ELSE npc

Init ==
    /\ cpc = [c \in Clients |-> IF c = "control" THEN "out" ELSE "absent"]
    /\ npc = "none" /\ lock = "free" /\ mutex = "free"
    /\ active = FALSE /\ ready = FALSE /\ regenerate = FALSE
    /\ toggled = FALSE /\ raced = FALSE
    /\ arg = [c \in Clients |-> NoArg]
    /\ settings \in Shapes /\ wanted = settings
    /\ holonomic \in BOOLEAN
    /\ noises = Zeros(settings)

----------------------------------------------------------------------------
(* reset(), on whichever client calls it.                                   *)

\* settings_ and is_holonomic_ are assigned before the lock is taken, from the
\* optimizer's settings, which a parameter callback may be changing.
ReadSettings(c) ==
    /\ cpc[c] = "reset"
    /\ arg' = [arg EXCEPT ![c] = wanted]
    /\ Goes(c, "copy")
    /\ UNCHANGED <<npc, lock, mutex, flags, settings, wanted, holonomic, noises, history>>

\* Mutant of ResetSettings: the copy of the settings is dropped.
ResetSettingsNoCopy(c) ==
    /\ cpc[c] = "copy"
    /\ arg' = [arg EXCEPT ![c] = NoArg]
    /\ Goes(c, "zero")
    /\ UNCHANGED <<npc, lock, mutex, flags, settings, wanted, holonomic, noises, history>>

ResetSettings(c) ==
    /\ cpc[c] = "copy"
    /\ settings' = arg[c] /\ arg' = [arg EXCEPT ![c] = NoArg]
    /\ Goes(c, "zero")
    /\ UNCHANGED <<npc, lock, mutex, flags, wanted, holonomic, noises, history>>

\* Mutant of ResetZero: vy is left as it was (a dropped line).
ResetZeroButVy(c) ==
    /\ cpc[c] = "zero" /\ lock = "free"
    /\ noises' = [Zeros(settings) EXCEPT !["vy"] = noises["vy"]]
    /\ ready' = TRUE
    /\ Goes(c, "redraw")
    /\ UNCHANGED <<npc, lock, mutex, active, regenerate, shape, history>>

\* The critical section of reset().
ResetZero(c) ==
    /\ cpc[c] = "zero" /\ lock = "free"
    /\ noises' = Zeros(settings)
    /\ ready' = TRUE
    /\ Goes(c, "redraw")
    /\ UNCHANGED <<npc, lock, mutex, active, regenerate, shape, history>>

\* Mutant of ResetRedraw: it always relies on the thread.
ResetRedrawAlwaysNotify(c) ==
    /\ cpc[c] = "redraw"
    /\ NotifyAll /\ Goes(c, "return")
    /\ UNCHANGED <<lock, mutex, flags, shape, noises, history>>

\* Mutant of ResetRedraw: it draws itself although the thread does so too.
ResetRedrawAlwaysDraw(c) ==
    /\ cpc[c] = "redraw"
    /\ NotifyAll /\ Goes(c, "vx")
    /\ UNCHANGED <<lock, mutex, flags, shape, noises, history>>

\* After the critical section: wake the thread, or draw without the lock.
ResetRedraw(c) ==
    /\ cpc[c] = "redraw"
    /\ IF regenerate
       THEN NotifyAll /\ Goes(c, "return")
       ELSE Goes(c, "vx") /\ UNCHANGED npc
    /\ UNCHANGED <<lock, mutex, flags, shape, noises, history>>

ClientDraw(c) ==
    /\ cpc[c] \in Drawing
    /\ DrawAxis(cpc[c])
    /\ Goes(c, IF NextAxis(cpc[c]) = "end" THEN "return" ELSE NextAxis(cpc[c]))
    /\ UNCHANGED <<npc, lock, mutex, flags, shape, history>>

----------------------------------------------------------------------------
(* The executor.                                                            *)

\* Optimizer::initialize calls initialize() and then reset(), with no other thread
\* about.  Without the noise thread, initialize() draws once itself.
Initialize(s, h, r) ==
    /\ cpc["executor"] = "absent"
    /\ settings' = s /\ wanted' = s /\ holonomic' = h
    /\ active' = TRUE /\ regenerate' = r /\ toggled' = FALSE /\ raced' = FALSE
    /\ Goes("executor", "reset")
    /\ IF r
       THEN npc' = "lock" /\ noises' = noises
       ELSE /\ npc' = "none"
            /\ noises' = [a \in Axes |-> IF a = "vy" /\ ~h THEN noises[a]
                                         ELSE [shape |-> s, drawn |-> TRUE]]
    /\ UNCHANGED <<lock, mutex, ready, arg>>

\* The on-set parameters callback takes the mutex ...
DynamicParamsCallback ==
    /\ cpc["executor"] = "out" /\ mutex = "free"
    /\ mutex' = "executor" /\ Goes("executor", "set")
    /\ raced' = (cpc["control"] \in Resetting)
    /\ UNCHANGED <<npc, lock, flags, shape, noises, toggled>>

\* ... assigns one parameter after the other: the optimizer's settings or
\* regenerate_noises_ ...
SetParameter(s, r) ==
    /\ cpc["executor"] = "set"
    /\ wanted' = s /\ regenerate' = r
    /\ toggled' = (toggled \/ r # regenerate)
    /\ UNCHANGED <<cpc, npc, lock, mutex, active, ready, arg, settings, holonomic, noises, raced>>

\* ... and its post callback calls reset().
PostCallback ==
    /\ cpc["executor"] = "set"
    /\ Goes("executor", "reset")
    /\ UNCHANGED <<npc, lock, mutex, flags, shape, noises, history>>

\* The end of the callback, or of the configuration.
ExecutorReturns ==
    /\ cpc["executor"] = "return"
    /\ Goes("executor", "out") /\ mutex' = "free"
    /\ UNCHANGED <<npc, lock, flags, shape, noises, history>>

\* shutdown() at cleanup, when the controller is no longer called: three separate
\* unlocked steps and a join.
ShutdownActive ==
    /\ cpc["executor"] = "out" /\ cpc["control"] = "out"
    /\ active' = FALSE
    /\ Goes("executor", "stopReady")
    /\ UNCHANGED <<npc, lock, mutex, ready, regenerate, shape, noises, history>>

ShutdownReady ==
    /\ cpc["executor"] = "stopReady"
    /\ ready' = TRUE
    /\ Goes("executor", "stopNotify")
    /\ UNCHANGED <<npc, lock, mutex, active, regenerate, shape, noises, history>>

ShutdownNotify ==
    /\ cpc["executor"] = "stopNotify"
    /\ NotifyAll
    /\ Goes("executor", "join")
    /\ UNCHANGED <<lock, mutex, flags, shape, noises, history>>

ShutdownJoin ==
    /\ cpc["executor"] = "join" /\ ~Alive
    /\ Goes("executor", "absent")
    /\ UNCHANGED <<npc, lock, mutex, flags, shape, noises, history>>

----------------------------------------------------------------------------
(* The control thread: computeVelocityCommands.                             *)

\* late: more than reset_period_ has passed since the last call, and reset() is
\* called before the mutex is taken.
ComputeVelocityCommands(late) ==
    /\ cpc["control"] = "out" /\ Serving
    /\ Goes("control", IF late THEN "reset" ELSE "ask")
    /\ raced' = IF late THEN cpc["executor"] # "out" ELSE raced
    /\ UNCHANGED <<npc, lock, mutex, flags, shape, noises, toggled>>

TakeParamLock ==
    /\ cpc["control"] = "ask" /\ mutex = "free"
    /\ mutex' = "control" /\ Goes("control", "eval")
    /\ UNCHANGED <<npc, lock, flags, shape, noises, history>>

\* The reset after inactivity goes on to the mutex, that of fallback() holds it.
ControlReturns ==
    /\ cpc["control"] = "return"
    /\ Goes("control", IF mutex = "control" THEN "eval" ELSE "ask")
    /\ UNCHANGED <<npc, lock, mutex, flags, shape, noises, history>>

\* fallback() resets with unchanged settings.
Fallback ==
    /\ cpc["control"] = "eval"
    /\ Goes("control", "reset") /\ raced' = FALSE
    /\ UNCHANGED <<npc, lock, mutex, flags, shape, noises, toggled>>

\* The command or an exception.
CallEnds ==
    /\ cpc["control"] = "eval"
    /\ Goes("control", "out") /\ mutex' = "free"
    /\ UNCHANGED <<npc, lock, flags, shape, noises, history>>

\* Mutant of SetNoisedControls: the noises are read without noise_lock_.
SetNoisedControlsNoLock ==
    /\ cpc["control"] = "eval"
    /\ Goes("control", "use")
    /\ UNCHANGED <<npc, lock, mutex, flags, shape, noises, history>>

\* One iteration: the noises are read while the lock is held ...
SetNoisedControls ==
    /\ cpc["control"] = "eval" /\ lock = "free"
    /\ lock' = "control"
    /\ Goes("control", "use")
    /\ UNCHANGED <<npc, mutex, flags, shape, noises, history>>

\* ... which is released when the sums have been stored.
NoisedControlsSet ==
    /\ cpc["control"] = "use"
    /\ lock' = "free"
    /\ Goes("control", "trigger")
    /\ UNCHANGED <<npc, mutex, flags, shape, noises, history>>

\* Mutant of GenerateNextNoises: ready_ is set without noise_lock_.
GenerateNextNoisesNoLock ==
    /\ cpc["control"] = "trigger"
    /\ ready' = TRUE
    /\ Goes("control", "notify")
    /\ UNCHANGED <<npc, lock, mutex, active, regenerate, shape, noises, history>>

GenerateNextNoises ==
    /\ cpc["control"] = "trigger" /\ lock = "free"
    /\ ready' = TRUE
    /\ Goes("control", "notify")
    /\ UNCHANGED <<npc, lock, mutex, active, regenerate, shape, noises, history>>

NotifyNoiseThread ==
    /\ cpc["control"] = "notify"
    /\ NotifyAll
    /\ Goes("control", "eval")
    /\ UNCHANGED <<lock, mutex, flags, shape, noises, history>>

----------------------------------------------------------------------------
(* noiseThread()                                                            *)

ThreadLock ==
    /\ npc = "lock" /\ lock = "free"
    /\ lock' = "noise"
    /\ npc' = "check"
    /\ UNCHANGED <<cpc, mutex, flags, shape, noises, history>>

\* The predicate of wait(): a thread that sees ready_ consumes it and draws.
ThreadCheck ==
    /\ npc = "check"
    /\ npc' = IF ready THEN "vx" ELSE "block"
    /\ ready' = FALSE
    /\ UNCHANGED <<cpc, lock, mutex, active, regenerate, shape, noises, history>>

\* wait() releases the lock and blocks in one step, but after the predicate.
ThreadBlock ==
    /\ npc = "block"
    /\ lock' = "free"
    /\ npc' = "waiting"
    /\ UNCHANGED <<cpc, mutex, flags, shape, noises, history>>

\* A condition variable may also wake with nobody notifying it.
SpuriousWakeup ==
    /\ npc = "waiting"
    /\ npc' = "lock"
    /\ UNCHANGED <<cpc, lock, mutex, flags, shape, noises, history>>

\* The last draw ends the scope of the guard, which frees the lock.
ThreadDraw ==
    /\ npc \in Drawing
    /\ DrawAxis(npc)
    /\ IF NextAxis(npc) = "end"
       THEN npc' = "loop" /\ lock' = "free"
       ELSE npc' = NextAxis(npc) /\ lock' = lock
    /\ UNCHANGED <<cpc, mutex, flags, shape, history>>

\* while (active_), read after the guard is gone.
ThreadLoop ==
    /\ npc = "loop"
    /\ npc' = IF active THEN "lock" ELSE "done"
    /\ UNCHANGED <<cpc, lock, mutex, flags, shape, noises, history>>

----------------------------------------------------------------------------
ResetStep(c) ==
    ReadSettings(c) \/ ResetSettings(c) \/ ResetZero(c) \/ ResetRedraw(c) \/ ClientDraw(c)

\* What a client does once it has begun an operation ...
ExecutorStep ==
    \/ ResetStep("executor") \/ PostCallback \/ ExecutorReturns
    \/ ShutdownReady \/ ShutdownNotify \/ ShutdownJoin

ControlStep ==
    \/ ResetStep("control") \/ ControlReturns
    \/ SetNoisedControls \/ NoisedControlsSet \/ GenerateNextNoises \/ NotifyNoiseThread
    \/ Fallback \/ CallEnds

\* ... and the operations it is free to begin.
ClientCall ==
    \/ \E s \in Shapes, h, r \in BOOLEAN : Initialize(s, h, r)
    \/ DynamicParamsCallback
    \/ \E s \in Shapes, r \in IF DynamicRegenerate THEN BOOLEAN ELSE {regenerate} :
          SetParameter(s, r)
    \/ ShutdownActive
    \/ \E late \in BOOLEAN : ComputeVelocityCommands(late)

ThreadStep == ThreadCheck \/ ThreadBlock \/ ThreadDraw \/ ThreadLoop

Next ==
    \/ ExecutorStep \/ ControlStep \/ ClientCall \/ TakeParamLock
    \/ ThreadLock \/ ThreadStep \/ SpuriousWakeup

Spec == Init /\ [][Next]_vars

\* All threads are scheduled, and a thread that competes for a lock gets it if it is
\* free again and again.  Nothing obliges a client to begin an operation, a callback
\* sets as many parameters as it likes before it goes on, and a spurious wakeup need
\* never happen.
FairSpec ==
    /\ Spec
    /\ WF_vars(ExecutorStep) /\ SF_vars(ResetZero("executor"))
    /\ WF_vars(ControlStep)
    /\ SF_vars(ResetZero("control") \/ GenerateNextNoises) /\ SF_vars(TakeParamLock)
    /\ WF_vars(ThreadStep) /\ SF_vars(ThreadLock)

----------------------------------------------------------------------------
(* Properties                                                               *)

Tensor == [shape : Shapes, drawn : BOOLEAN]

\* Types, and the joined thread: an object that is not configured has none.
TypeOK ==
    /\ cpc \in [Clients -> {"absent", "out", "set", "stopReady", "stopNotify", "join",
                            "ask", "eval", "use", "trigger", "notify"} \cup Resetting]
    /\ npc \in {"none", "lock", "check", "block", "waiting", "loop", "done"} \cup Drawing
    /\ cpc["executor"] = "absent" => ~Alive
    /\ lock \in {"free", "control", "noise"} /\ mutex \in {"free"} \cup Clients
    /\ active \in BOOLEAN /\ ready \in BOOLEAN /\ regenerate \in BOOLEAN
    /\ arg \in [Clients -> Shapes \cup {NoArg}]
    /\ settings \in Shapes /\ wanted \in Shapes
    /\ holonomic \in BOOLEAN /\ toggled \in BOOLEAN /\ raced \in BOOLEAN
    /\ noises \in [Axes -> Tensor]

Using == cpc["control"] = "use"

\* When setNoisedControls adds the noises to the control sequence, all three
\* tensors have the shape of the optimizer's state, although reset() assigns
\* settings_ without the lock while the thread may be half way through a draw.
\* Excepted is an unlocked reset after inactivity that has overlapped with a
\* parameter callback, until the next reset that is alone: then they may differ.
ShapeAtUse ==
    Using /\ ~raced => \A a \in Axes : noises[a].shape = wanted

\* While setNoisedControls reads the noises nobody writes them: noise_lock_ keeps
\* the thread out, and the parameter mutex the executor, which draws without the
\* lock; also after a toggle, and after resets that overlapped.
ReadExclusive ==
    Using => npc \notin Drawing /\ cpc["executor"] \notin {"zero"} \cup Drawing

\* A base that is not holonomic is never given a lateral velocity sample, not
\* even one left over from a draw for another motion model.
NoLateralNoise ==
    Using /\ ~holonomic => ~noises["vy"].drawn

\* Without regeneration the controller always perturbs with a real sample: the
\* one computed on initialization and reset.  The same overlap of two resets is
\* excepted, for two draws of one tensor at a time leave it undefined.
SampledWhenFixed ==
    Using /\ ~regenerate /\ ~raced => noises["vx"].drawn /\ noises["wz"].drawn

\* Two threads draw at the same time only if regenerate_noises was toggled at run
\* time, or an unlocked reset after inactivity overlaps with a parameter callback:
\* reset()'s own draw takes no lock.
WriteExclusive ==
    /\ ~toggled => \A c \in Clients : ~(cpc[c] \in Drawing /\ npc \in Drawing)
    /\ ~raced => ~(cpc["control"] \in Drawing /\ cpc["executor"] \in Drawing)

\* Every trigger of generateNextNoises or reset reaches the thread: while noises
\* are to be regenerated it cannot sleep on with ready_ set.
TriggerServed ==
    (Alive /\ active /\ regenerate /\ ready) ~> (~ready \/ ~active \/ ~regenerate)

----------------------------------------------------------------------------
(* The inductive invariant behind the safety properties.                    *)

\* noise_lock_ is held exactly inside the two critical sections that last.
LockHolder ==
    /\ lock = "control" <=> Using
    /\ lock = "noise"   <=> npc \in {"check", "block"} \cup Drawing

\* The parameter mutex: evalControl and the callback are inside it, the control thread
\* is only about while the object is configured.
MutexHolder ==
    /\ cpc["control"] \in {"out", "ask", "eval", "use", "trigger", "notify"} \cup Resetting
    /\ cpc["control"] \in {"eval", "use", "trigger", "notify"} => mutex = "control"
    /\ mutex = "control" => cpc["control"] \in {"eval", "use", "trigger", "notify"} \cup Resetting
    /\ cpc["executor"] \in {"absent", "out", "set", "stopReady", "stopNotify", "join"} \cup Resetting
    /\ cpc["executor"] = "set" => mutex = "executor"
    /\ mutex = "executor" => cpc["executor"] \in {"set"} \cup Resetting
    /\ cpc["control"] # "out" => Serving

\* A client that is going to copy the settings, and one that is going to zero.
Uncopied == {"absent", "set", "reset", "copy"}
Unzeroed == Uncopied \cup {"zero"}
Past(places) == \A c \in Clients : cpc[c] \notin places

\* As long as resets do not overlap, the copy of the settings follows them and the
\* tensors follow the copy.
Alone == ~raced /\ cpc["control"] \in Resetting => cpc["executor"] = "out"

SettingsFollow ==
    ~raced => /\ \A c \in Clients : cpc[c] = "copy" => arg[c] = wanted
              /\ Past(Uncopied) => settings = wanted

ArgsTyped == \A c \in Clients : cpc[c] = "copy" => arg[c] \in Shapes

TensorsFollow == ~raced /\ Past(Unzeroed) => \A a \in Axes : noises[a].shape = wanted

\* From the first reset after the configuration on there is no lateral sample.
NoLateral ==
    ~holonomic /\ cpc["executor"] # "absent" /\ (cpc["executor"] \in Unzeroed => mutex = "executor")
        => ~noises["vy"].drawn

\* Without a toggle the thread exists only if the noises are regenerated, and
\* only then does reset() leave the drawing to it.
OneDrawer ==
    ~toggled => /\ cpc["executor"] # "absent" /\ ~regenerate => ~Alive
                /\ \A c \in Clients : cpc[c] \in Drawing => ~regenerate

\* What is not a sample is going to be drawn by a client that is at it.
DrawnInTurn ==
    ~regenerate =>
        /\ noises["vx"].drawn \/ ~Past(Unzeroed \cup {"redraw", "vx"})
        /\ noises["wz"].drawn \/ ~Past(Unzeroed \cup {"redraw", "vx", "wz"})

NoiseInv ==
    /\ TypeOK /\ LockHolder /\ MutexHolder /\ Alone /\ ArgsTyped
    /\ SettingsFollow /\ TensorsFollow /\ NoLateral /\ OneDrawer /\ DrawnInTurn

----------------------------------------------------------------------------
(* Claims of the documentation that the code does not keep.                 *)

\* "Shutdown noise generator thread": the join returns.
ShutdownTerminates ==
    (cpc["executor"] = "stopReady") ~> (cpc["executor"] = "absent")

===============================================================================
