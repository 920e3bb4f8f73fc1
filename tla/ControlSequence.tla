---------------------------- MODULE ControlSequence ----------------------------
(***************************************************************************)
(* The control sequence of mppi::Optimizer from call to call: its update   *)
(* from the rollouts, the velocity and turning constraints, the            *)
(* Savitzky-Golay filter with its history of four commands, the command    *)
(* that is sent, the shift, speed limits and resets.                       *)
(*                                                                         *)
(* Velocities are integers in a small unit, angular ones in that unit      *)
(* divided by min_turning_r; a division rounds down.  The weighted average *)
(* of the rollouts is left open.  A call is not interrupted (the lock of   *)
(* the parameters and the unlocked paths are MPPIController's).            *)
(***************************************************************************)
EXTENDS Integers

CONSTANTS
    Configs,        \* the settings initialize() and the parameters may give
    Averages,       \* weighted averages of the rollouts, one per call
    MaxSteps,       \* bound on time_steps
    SpeedLimits,    \* requests to setSpeedLimit: [percentage, limit]
    MaxCalls        \* bound on the calls of evalControl

Axes   == {"vx", "vy", "wz"}
Models == {"DiffDrive", "Omni", "Ackermann"}
Bounds == {b \in [lo : Int, hi : Int] : b.lo <= 0 /\ b.hi > 0}

Config == [steps : 2..MaxSteps, model : Models, shift : BOOLEAN, base : [Axes -> Bounds]]

ASSUME ControlAssumption ==
    /\ Configs \subseteq Config
    /\ Averages \subseteq [Axes -> [0..(MaxSteps - 1) -> Int]]
    /\ SpeedLimits \subseteq [percentage : BOOLEAN, limit : Nat]
    /\ MaxCalls \in Nat /\ MaxSteps \in Nat

VARIABLES
    pc,         \* "idle", "updated", "smoothing" or "smoothed"
    conf,       \* settings_ but for the constraints
    limits,     \* settings_.constraints
    seq,        \* control_sequence_
    hist,       \* control_history_
    idx,        \* the next sample to smooth
    calls,      \* calls begun
    sent,       \* history: the commands sent since the last reset, the newest first
    peak        \* history: the widest limit of each axis used since the last reset

vars == <<pc, conf, limits, seq, hist, idx, calls, sent, peak>>

Steps      == 0..(conf.steps - 1)
Last       == conf.steps - 1            \* num_sequences of the filter
IsHolonomic == conf.model = "Omni"
Offset     == IF conf.shift THEN 1 ELSE 0
Abs(x)     == IF x < 0 THEN -x ELSE x
Larger(x, y) == IF x < y THEN y ELSE x
Reach(b)   == Larger(Abs(b.lo), Abs(b.hi))

NoControls(n) == [a \in Axes |-> [i \in 0..(n - 1) |-> 0]]
NoHistory     == [a \in Axes |-> [i \in 0..3 |-> 0]]

\* getParams, setMotionModel, setOffset and reset of initialize().
Init ==
    /\ pc = "idle" /\ idx = 0 /\ calls = 0
    /\ conf \in Configs
    /\ limits = conf.base
    /\ seq = NoControls(conf.steps) /\ hist = NoHistory
    /\ sent = <<>> /\ peak = [a \in Axes |-> 0]

----------------------------------------------------------------------------
Clip(v, b) == IF v < b.lo THEN b.lo ELSE IF b.hi < v THEN b.hi ELSE v

\* Mutant of TurningRadius: the sign of the rotation is lost.
TurningRadiusUnsigned(vx, wz) == IF Abs(wz) <= Abs(vx) THEN wz ELSE vx + vx

\* AckermannMotionModel::applyConstraints: |vx| / |wz| < min_turning_r.
TurningRadius(vx, wz) ==
    IF Abs(wz) <= Abs(vx) THEN wz ELSE IF wz < 0 THEN -Abs(vx) ELSE Abs(vx)

\* applyControlSequenceConstraints, then the motion model's.
Constrained(average) ==
    LET v(a) == [i \in Steps |-> Clip(average[a][i], limits[a])]
    IN  [a \in Axes |->
            CASE a = "vx" -> v("vx")
              [] a = "vy" -> IF IsHolonomic THEN v("vy") ELSE seq["vy"]
              [] a = "wz" -> IF conf.model = "Ackermann"
                             THEN [i \in Steps |-> TurningRadius(v("vx")[i], v("wz")[i])]
                             ELSE v("wz")]

\* optimize() as far as the sequence is concerned, in its last iteration.
UpdateControlSequence ==
    /\ pc = "idle" /\ calls < MaxCalls
    /\ \E average \in Averages : seq' = Constrained(average)
    /\ peak' = [a \in Axes |-> Larger(peak[a], Reach(limits[a]))]
    /\ pc' = "updated" /\ calls' = calls + 1
    /\ UNCHANGED <<conf, limits, hist, idx, sent>>

----------------------------------------------------------------------------
(* savitskyGolayFilter, in place.                                           *)

\* Too short to smooth meaningfully: the history is not updated either.
TooShort ==
    /\ pc = "updated" /\ Last < 20
    /\ pc' = "smoothed"
    /\ UNCHANGED <<conf, limits, seq, hist, idx, calls, sent, peak>>

BeginSmoothing ==
    /\ pc = "updated" /\ Last >= 20
    /\ pc' = "smoothing" /\ idx' = 0
    /\ UNCHANGED <<conf, limits, seq, hist, calls, sent, peak>>

\* The sample at i: from the history before the sequence, the last one after it.
Sample(a, i) ==
    IF i < 0 THEN hist[a][i + 4] ELSE IF i > Last THEN seq[a][Last] ELSE seq[a][i]

\* The quadratic filter over the nine samples around one.
SavitzkyGolay(w) ==
    (59 * w[0] + 54 * (w[-1] + w[1]) + 39 * (w[-2] + w[2]) + 14 * (w[-3] + w[3])
        - 21 * (w[-4] + w[4])) \div 231

Filtered(a, i) == SavitzkyGolay([k \in -4..4 |-> Sample(a, i + k)])

\* One sample after the other; the increment after the main loop skips Last - 4.
SmoothSample ==
    /\ pc = "smoothing" /\ idx <= Last
    /\ seq' = [a \in Axes |-> [seq[a] EXCEPT ![idx] = Filtered(a, idx)]]
    /\ idx' = IF idx = Last - 5 THEN Last - 3 ELSE idx + 1
    /\ UNCHANGED <<pc, conf, limits, hist, calls, sent, peak>>

\* Mutant of UpdateHistory: the first control is remembered, not the one sent.
UpdateHistoryFirst ==
    /\ pc = "smoothing" /\ idx > Last
    /\ hist' = [a \in Axes |-> [i \in 0..3 |-> IF i < 3 THEN hist[a][i + 1] ELSE seq[a][0]]]
    /\ pc' = "smoothed"
    /\ UNCHANGED <<conf, limits, seq, idx, calls, sent, peak>>

UpdateHistory ==
    /\ pc = "smoothing" /\ idx > Last
    /\ hist' = [a \in Axes |-> [i \in 0..3 |-> IF i < 3 THEN hist[a][i + 1] ELSE seq[a][Offset]]]
    /\ pc' = "smoothed"
    /\ UNCHANGED <<conf, limits, seq, idx, calls, sent, peak>>

----------------------------------------------------------------------------
\* getControlFromSequenceAsTwist
Command == [a \in Axes |-> IF a = "vy" /\ ~IsHolonomic THEN 0 ELSE seq[a][Offset]]

\* shiftControlSequence: the last control is repeated.
Shifted(a) == [i \in Steps |-> IF i < Last THEN seq[a][i + 1] ELSE seq[a][Last]]

SendCommand ==
    /\ pc = "smoothed"
    /\ sent' = [i \in 1..4 |-> IF i = 1 THEN Command
                               ELSE IF i - 1 \in DOMAIN sent THEN sent[i - 1]
                               ELSE [a \in Axes |-> 0]]
    /\ seq' = IF conf.shift
              THEN [a \in Axes |-> IF a # "vy" \/ IsHolonomic THEN Shifted(a) ELSE seq[a]]
              ELSE seq
    /\ pc' = "idle"
    /\ UNCHANGED <<conf, limits, hist, idx, calls, peak>>

----------------------------------------------------------------------------
\* All constraints are multiplied by num / den.
Scaled(base, num, den) ==
    [a \in Axes |-> [lo |-> (base[a].lo * num) \div den, hi |-> (base[a].hi * num) \div den]]

\* setSpeedLimit: 0 is NO_SPEED_LIMIT.
SetSpeedLimit(l) ==
    /\ pc = "idle"
    /\ limits' = IF l.limit = 0 THEN conf.base
                 ELSE IF l.percentage THEN Scaled(conf.base, l.limit, 100)
                 ELSE Scaled(conf.base, l.limit, conf.base["vx"].hi)
    /\ UNCHANGED <<pc, conf, seq, hist, idx, calls, sent, peak>>

\* Mutant: a reset keeps the history.
ClearedKeepsHistory(c) ==
    /\ limits' = c.base
    /\ seq' = NoControls(c.steps)
    /\ sent' = <<>> /\ peak' = [a \in Axes |-> 0]
    /\ UNCHANGED hist

\* reset() with the settings c.
Cleared(c) ==
    /\ limits' = c.base
    /\ seq' = NoControls(c.steps) /\ hist' = NoHistory
    /\ sent' = <<>> /\ peak' = [a \in Axes |-> 0]

\* After a failure the sequence is reset, and no command is sent.
Reset ==
    /\ pc \in {"idle", "updated"}
    /\ Cleared(conf)
    /\ pc' = "idle"
    /\ UNCHANGED <<conf, idx, calls>>

\* The parameter callback and its reset; neither the motion model nor
\* shift_control_sequence is worked out again.
SetParameters(c) ==
    /\ pc = "idle"
    /\ conf' = [conf EXCEPT !.steps = c.steps, !.base = c.base]
    /\ Cleared(c)
    /\ UNCHANGED <<pc, idx, calls>>

Next ==
    \/ UpdateControlSequence \/ TooShort \/ BeginSmoothing \/ SmoothSample \/ UpdateHistory
    \/ SendCommand \/ Reset
    \/ (\E l \in SpeedLimits : SetSpeedLimit(l)) \/ (\E c \in Configs : SetParameters(c))

Spec == Init /\ [][Next]_vars

----------------------------------------------------------------------------
(* Properties                                                               *)

TypeOK ==
    /\ pc \in {"idle", "updated", "smoothing", "smoothed"}
    /\ conf \in Config
    /\ limits \in [Axes -> [lo : Int, hi : Int]]
    /\ seq \in [Axes -> [Steps -> Int]]
    /\ hist \in [Axes -> [0..3 -> Int]]
    /\ peak \in [Axes -> Nat]
    /\ idx \in Nat /\ calls \in Nat

\* What updateControlSequence leaves is feasible: within the constraints in force,
\* without lateral motion unless the base is holonomic, and for an Ackermann base
\* also within the turning radius (which the clipping does first, and must survive).
Feasible ==
    pc = "updated" => \A i \in Steps :
        /\ \A a \in Axes : limits[a].lo <= seq[a][i] /\ seq[a][i] <= limits[a].hi
        /\ ~IsHolonomic => seq["vy"][i] = 0
        /\ conf.model = "Ackermann" => Abs(seq["wz"][i]) <= Abs(seq["vx"][i])

\* The filter runs on its own output and on the commands already sent, after the
\* clipping: it overshoots the constraints, but never to more than twice the widest
\* one used since the last reset, however long it runs.
OvershootBounded ==
    \A a \in Axes :
        /\ \A i \in Steps : Abs(seq[a][i]) <= 2 * peak[a]
        /\ \A i \in 0..3 : Abs(hist[a][i]) <= 2 * peak[a]

\* The filter's history are the commands sent, and a shifted sequence begins with
\* the command being executed: filter, command and shift agree on the offset.
HistoryIsSent ==
    pc = "idle" /\ sent # <<>> => \A a \in Axes :
        /\ Last >= 20 => \A i \in 0..3 : hist[a][i] = sent[4 - i][a]
        /\ conf.shift => seq[a][0] = sent[1][a]

\* "vx_max: Max VX": the command is within the constraints in force.
CommandWithinLimits ==
    pc = "smoothed" => \A a \in Axes :
        limits[a].lo <= Command[a] /\ Command[a] <= limits[a].hi

----------------------------------------------------------------------------
(* What links the variables at every step                                   *)

\* In this call: not filtered yet, or the sample that is skipped.
Unsmoothed(i) == pc = "updated" \/ (pc = "smoothing" /\ (i >= idx \/ i = Last - 4))

\* The constraints allow to stand still, and the filter meets at most the widest
\* constraints ahead of it and twice that behind; nothing moves laterally without
\* a holonomic base, in the history neither.
SequenceInv ==
    /\ \A a \in Axes : limits[a].lo <= 0 /\ 0 <= limits[a].hi
    /\ pc = "smoothing" => Last >= 20 /\ idx # Last - 4
    /\ \A a \in Axes :
        /\ \A i \in Steps : Abs(seq[a][i]) <= IF Unsmoothed(i) THEN peak[a] ELSE 2 * peak[a]
        /\ \A i \in 0..3 : Abs(hist[a][i]) <= 2 * peak[a]
    /\ ~IsHolonomic => /\ \A i \in Steps : seq["vy"][i] = 0
                       /\ \A i \in 0..3 : hist["vy"][i] = 0

\* The command before the last k - 1.
Before(k, a) == IF sent = <<>> THEN 0 ELSE sent[k][a]

\* The history follows the commands, one ahead of them while one is being sent.
SentInv ==
    /\ sent = <<>> \/ sent \in [1..4 -> [Axes -> Int]]
    /\ Last >= 20 => \A a \in Axes :
        /\ pc # "smoothed" => \A i \in 0..3 : hist[a][i] = Before(4 - i, a)
        /\ pc = "smoothed" => /\ \A i \in 0..2 : hist[a][i] = Before(3 - i, a)
                              /\ hist[a][3] = seq[a][Offset]
    /\ pc = "idle" /\ sent # <<>> /\ conf.shift => \A a \in Axes : seq[a][0] = sent[1][a]
===============================================================================
