# Formal model of the MPPI controller and its benchmark

The repository holds a fork of Nav2's MPPI controller (C++,
`src/src/custom_nav2/nav2_mppi_controller`) and a benchmark around it (Python,
`src/src/Control/AdaptivePurePursuit`): an orchestrator that plays the vehicle and
runs test cases, a bridge that turns their paths into Nav2 goals, a monitor that
samples and reports, and a launch file that starts and stops all of it.

```
 test_orchestrator --/path (latched)--> nav2_bench_bridge --FollowPath--> controller_server
   |  ^   |                                                              | MPPIController
   |  |   +--/odom, case id, /path----> control_monitor                  |  PathHandler
   |  +----------------- /cmd_vel --------------------------------------+  Optimizer
   |                        +---------> control_monitor                     |  critics
   +-- exit --> launch: stop the rosbag, report, Shutdown                   |  NoiseGenerator <-> noise thread
```

The specifications model the parts in which threads, callbacks, messages, retries
and shutdowns meet, what the controller keeps from one call to the next, and the
algorithms its critics share.  The floating-point core (rollouts, softmax, the
magnitude of a score) is abstracted to what the properties distinguish: which
rollouts a score belongs to, which shape a tensor has, which critic scores.

Paths below are relative to `src/src/custom_nav2/nav2_mppi_controller` for C++ and
to `src/src/Control/AdaptivePurePursuit` for Python; README lines are those of the
README in that directory.

## 1. Inventory

| Component | State it keeps | Operations | What is hard | What makes it correct |
|---|---|---|---|---|
| NoiseGenerator (`src/noise_generator.cpp`) | three noise tensors, `active_`, `ready_`, own copy of the settings, `noise_lock_`, condition variable, thread | `initialize`, `shutdown`, `reset`, `setNoisedControls`, `generateNextNoises`, `noiseThread` | three threads, two of which may be in `reset` at once; part of `reset` and all of `shutdown` outside the lock; a dynamic `regenerate_noises` | what is read is whole, of the current shape and sampled; no trigger is lost; the thread can be stopped |
| Optimizer, CriticManager (`src/optimizer.cpp`, `src/critic_manager.cpp`) | settings, constraints, tensors, control sequence and history, costs, `fail_flag`, a function-local static retry counter | `evalControl`, `reset`, `fallback`, `setSpeedLimit` | retries over shared state; exceptions; state surviving a call; filter after clipping, in place, over a history | a command comes from fully scored rollouts; nothing of a failed call survives; the sequence stays near the constraints |
| MPPIController (`src/controller.cpp`) | last call time, the plugin's members | `computeVelocityCommands`, `setPlan`, `setSpeedLimit`, configure/activate/deactivate/cleanup | some calls take the parameter mutex and some do not | calls return; parameters fixed under a call |
| ParametersHandler (`src/parameters_handler.cpp`) | the mutex, getters, pre and post callbacks | `start`, `getParam`, `setDynamicParamCallback`, `dynamicParamsCallback` | runs on another thread; one callback per name, captured references | excludes `evalControl` until the reset is done; every change reaches a live variable |
| PathHandler (`src/path_handler.cpp`) | the plan, the plan up to the next inversion, `inversion_locale_` | `setPath`, `transformPath`, `prunePlan` | two copies of a plan pruned at different times, an offset that points into one | no cusp inside a segment; nothing skipped; no iterator past the end |
| `utils.hpp` algorithms | none | nearest pose, furthest point, path inversion, Savitzky-Golay, closest point along the path | off-by-one, unsorted input, a loop split in three | agree with their definitions, and indices stay in bounds |
| Critics (`src/critics`) | weights and thresholds, `CriticData` of the call, the circumscribed cost | `initialize`, `score` | shared optional data, computed by whoever comes first; a cost kept while the inflation layer changes | data sound where used; somebody drives; collisions are seen and vetoes right |
| Motion models (`motion_models.hpp`) | `min_turning_r` | `predict`, `applyConstraints` | run after the clipping | both constraints hold in the end |
| TrajectoryVisualizer | markers, their number | `add`, `visualize`, `reset` | moved away only if somebody subscribes | an array is of one call |
| `nav2_bench_bridge.py` | last and active path signature, active goal handle, two flags | `path_callback`, response and result callbacks | responses of replaced goals, a blocking wait in a callback | one goal per mission; every mission pursued |
| `test_orchestrator.py` | queue of cases, current case, vehicle, deadlines, `finished`, timers | timer, `/cmd_vel`, parameter callback, shutdown timer and thread | requests replaced at any time; the end takes a timer and a thread | every requested case completed once, in order; the process ends, also for an invalid request |
| `control_monitor.py` | latest message per topic, rows, statistics | four subscriptions, a 50 Hz sample, the report in `destroy_node` | independent topics combined into one row | a row is of one case; the report is written |
| Launch (`launch/mppi_control_nodes.launch.py`) | timers, processes | `TimerAction`, `OnProcessExit`, `Shutdown` | events against timers | everything comes down in order, the two reports are there |
| `performance_monitor.py` | frames, timers, a JSON log | start/end of frames, log | file written back without the lock | no entry lost |
| `AdaptiveLd_fixed.py` | path, nearest index, speeds | target selection, pursuit law | index bookkeeping | target ahead, progress |
| `validation_node.py`, `validator_complete.py` | samples | statistics of topics | none | - |
| `obstacle_generator.py`, `costmap_publisher.py` | a grid | generation, publication | grid boundaries | obstacles off the path |
| path generators, visualizer, report scripts, `optimal_path` | files | one-shot scripts | none | - |

Interactions: the controller server calls the plugin from one thread, ROS executors
deliver parameters and speed limits on another, and the noise thread runs beside
both.  The Python nodes each run in a single-threaded executor and share only
topics, an action, and the life of the launched processes.  The hazards of each part
are listed with their lines in `PROJECT.json` together with the properties that watch
over them; the ones without a property say why.

## 2. Modules

| Module | Models | Composed by |
|---|---|---|
| `NoiseGenerator` | `noise_generator.cpp`, the noise thread and the two threads that call it | - |
| `ControlService` | abstract: what a caller of `computeVelocityCommands` may rely on | implemented by `MPPIController` |
| `Optimizer` | one call of `evalControl`, and `reset` | `MPPIController` |
| `MPPIController` | the control and executor threads, the parameter mutex, `reset` line by line | extends `Optimizer`, instantiates `ControlService` |
| `ControlSequence` | constraints, motion model, Savitzky-Golay filter, history and shift from call to call | - |
| `PathUtils` | the functions of `utils.hpp` on paths, as operators | `Critics` |
| `Critics` | the twelve critics and `CriticData` over the iterations of a call | extends `PathUtils` |
| `PathHandler` | `path_handler.cpp` | - |
| `Lifecycle` | configure to cleanup, `ParametersHandler` with the parameters of every part, `TrajectoryVisualizer` | - |
| `Mission` | abstract: what the benchmark may rely on when it announces a path | implemented by `BenchBridge` |
| `BenchBridge` | `nav2_bench_bridge.py` between publisher and action server | instantiates `Mission` |
| `Orchestrator` | abstract towards the launch: `test_orchestrator.py` alone | `Benchmark` |
| `ControlMonitor` | `control_monitor.py`, what a row and the report are made of | `Benchmark` |
| `Benchmark` | launch, orchestrator and monitor, from start to shutdown | extends both |
| `...Proofs` (eight) | theorems about `NoiseGenerator`, `MPPIController`, `ControlSequence`, `Critics`, `PathHandler`, `Lifecycle`, `BenchBridge`, and `Orchestrator` with `Benchmark` | extend the module they are about |
| `MC...` | values of the constants for TLC | extend the module they check |

The controller is cut along what its parts share rather than composed into one state
space: `MPPIController` knows the sequence as "zero", "feasible" or "failed" and a
critic as a step that scores or vetoes; `ControlSequence` and `Critics` open those two
boxes, for one call that nobody interrupts (which is what `Serves` shows a call to be).

Definitions with a comment "Mutant of X" or "Mutant: ..." stand before X and are not
used by the specification.  Each is X with one plausible mistake; with it in the place
of X the property it belongs to fails.

### How state and actions correspond to the code

**NoiseGenerator.**  A step is a critical section or a single access outside one.
Two clients call the generator: the control thread (`cpc["control"]`: the reset after
inactivity, then under the parameter mutex `evalControl` with the reset of `fallback`)
and the executor (`cpc["executor"]`: configuration, parameter callbacks, cleanup).  The
reset after inactivity begins before the mutex is taken (`ComputeVelocityCommands`), so
both may be in `reset()` at once, at any two lines of it.  `reset()` is the unlocked
`settings_ = settings` and `is_holonomic_`, which reads what a callback may be changing
(`ReadSettings`, `ResetSettings`), the locked zeroing and `ready_ = true` (`ResetZero`),
and then either a `notify_all` or a draw on the calling thread without the lock
(`ResetRedraw`, `ClientDraw` per axis).  A parameter callback is taking the mutex, one
`SetParameter` per parameter, the reset of its post callback, and its end.
`setNoisedControls` holds the lock for a while and is two steps.  `wait()` is split into
its predicate (`ThreadCheck`) and the blocking (`ThreadBlock`), both under the lock: a
notification between the two by somebody who does not hold the lock is lost, as in C++.
`settings_` is a reference inside `generateNoisedControls`, so each axis reads it afresh.

**Optimizer.**  `opc` is the position in `evalControl`; `Score` is one critic,
`ScoresDone` the break on `fail_flag`, and the three `Fallback...` actions are the
outcomes of `fallback`.  `seq`, `costs` and `scored` say what the control sequence,
`costs_` and the rollouts hold.  The static counter of `fallback` is state like any
other.

**MPPIController.**  `parameters_change_mutex_` is `lock`.  The reset after
inactivity (`controller.cpp:90`, before the mutex is taken) and the reset in a
parameter callback are line by line: every line reads the settings and then writes
with what it read (`ResetRead`, `ResetWrite`), so the two can overtake one another.
`setSpeedLimit` takes no lock and is a step per constraint (`SetSpeedLimit`, then
`StoreBound` for `vx_max`, `vx_min`, `vy`, `wz`), between which resets and evaluations
run; all four are scaled by one ratio, so a constraint is represented by the `vx_max`
it belongs to.

**ControlService.**  A call is asked for, declined or evaluated; while it is evaluated
the parameters stand still; it retries only after a veto and within the limit, gives up
only when the limit is used up, and commands only if every critic has judged the
rollouts at hand and none has vetoed them.  The mapping of `MPPIController` forgets
locks, lines of `reset()`, the tensors and the static counter: `passes`, a count of the
call itself, stands for the attempts, so that the mapping holds only if the shared
counter agrees with it.

**ControlSequence.**  Velocities are integers in a small unit.  `UpdateControlSequence`
is the last iteration of `optimize()`: any average, clipped to the constraints and then
to the turning radius (`TurningRadius`).  The filter is one action per sample,
because it works in place: sample `i` is computed from samples before it that are
smoothed already and samples behind it that are not.  Its three loops leave out sample
`num_sequences - 4` (`utils.hpp`, the increment after the second loop), and so does
`SmoothSample`.  `UpdateHistory`, `SendCommand` (command and shift) and `Reset` follow
the code; `SetParameters` changes what the parameter callback reaches, which is neither
the motion model nor `shift_control_sequence`.

**PathUtils, Critics.**  Points have integer coordinates, comparisons of distances are
exact on their squares, and the paths of the runs are parallel to an axis, where
integrated distances are exact too.  An `std::optional` is a set of at most one value.
`q` is the next critic of the list; each critic is an action with a disjunct per return.
`CriticData` is `data`, reset by `Prepare` and completed by
`SetPathFurthestPointIfNotSet` and `SetPathCostsIfNotSet`.  Whether a critic adds to the
costs is kept (`scored`), how much it adds is not.  `touched` records every index at which
`path_pts_valid` is read, `aligned` every pair PathAlign compares, `target` the pose
PathFollow drives to.  The circumscribed cost is a record of radius and cost per
collision critic; its layer is a history of where the cost came from.  A footprint on an
obstacle has its centre within the circumscribed radius of it, hence under inflation at
least at the threshold: `Inflated` says so of the costmaps a call is given, as the
inflation layer does.

**PathHandler.**  A pose is its index in the plan last set.  `global_plan_` is
`first..n`, `global_plan_up_to_inversion_` is `from..to`.  The robot's position, the
look-ahead and the outcome of transforms are chosen freely; `Advance`,
`PassInversion`, `TransformFails` are the ways `transformPath` ends, and
`EraseBeyondEnd` is `erase` with an iterator past the end, after which nothing is
said of the process.

**Lifecycle.**  A parameter is its namespace and its name, a variable is the parameter
it is read from and its owner (0 for the controller and its parts, `j` for the `j`-th
critic of the list).  `Requests` collects all dynamic `getParam` calls of `configure()`;
`Registered` keeps one variable per name as `setDynamicParamCallback` does; locals that
are captured by reference are variables that do not outlive the call.  The node has
parameters of its own (`node`), and `SetParameters` writes to the members only once
the callback is set.  `ComputeVelocityCommands` is what a call does with parameters:
an ObstaclesCritic that computes the circumscribed cost again reads two of them from
the node again (`ReadAgain`), and at its end the call draws (`visualize`).

**BenchBridge.**  Every callback is a step, except that `path_callback` holds its
message (`hand`) while it waits for the server.  A goal is a slot with the state the
server has given it (`srv`), what the bridge still waits for (`cli`) and whether it was
cancelled; the server answers and ends goals in any order.

**Mission.**  A path is a mission: open, driven by a goal, done, or void once another path
came while an announcement or a goal was under way.  The mapping of `BenchBridge` forgets
slots, handles, signatures and flags: a mission is driven if there is exactly one goal,
for its path, that nobody has cancelled, and done if the bridge remembers its success.
Two goals at a time, or a cancelled one, would be no status of a mission (`"torn"`).

**Orchestrator.**  A step is one callback.  `timer_callback` is `CaseGoesOn` or
`CaseEnds`; the latter includes `_start_next_case` or `_finish_sequence`, made in the
same call.  `ShutdownCallback` and `ShutdownThread` are the one-shot timer and the
thread that calls `rclpy.shutdown()`: other callbacks run between them.
`FailAndShutdown` calls it where it is: in the constructor the process ends; in the
parameter callback of a node that spins it either ends or is `"blocked"` for good, since
the shutdown of an executor waits for the callback it is called from (which of the two
depends on the release of rclpy; the comments at `test_orchestrator.py:533-535` and `586`
avoid it).  `n` numbers
the cases started, and a publication is the number of the case it was made in.

**ControlMonitor, Benchmark.**  A subscription takes any message newer than the one
it has (late, with gaps, in order per topic).  `SampleAndLog` writes a row from what
is there; `DestroyNode` writes the HTML report.  The launch system processes events before
timers, and `Shutdown` cancels timers that have not fired.

## 3. Runs

Runs that must find no error:

| Run | States | Shows |
|---|---|---|
| `noise_generator` | 60,536 | every interleaving of control thread, executor and noise thread, two shapes, `regenerate_noises` toggled, resets that overlap: tensors are never read while somebody writes them (`ReadExclusive`), and have no stale lateral sample (`NoLateralNoise`); unless two resets have overlapped they are in the current shape (`ShapeAtUse`) and sampled when noises are fixed (`SampledWhenFixed`); two threads draw at once only after a toggle or in such an overlap (`WriteExclusive`); no trigger is lost (`TriggerServed`) |
| `mppi_controller` | 358,414 | vetoes, retries, exceptions, several iterations, unlocked resets, speed limits and parameter changes: the controller is a `ControlService` (`Serves`); failed sequences are discarded, costs are those of the rollouts at hand; unless writers overlapped, tensors have one shape and all four constraints are those requested last (`ShapesAgree`, `ConstraintsCurrent`); every call returns or throws (`ComputeReturns`) |
| `control_sequence` | 773,682 | four calls for each motion model, with averages far out of bounds, speed limits, resets and new parameters in between: what is updated is feasible (`Feasible`), the filter exceeds the limits at most twofold however often it runs (`OvershootBounded`), filter, command and shift agree on which sample is sent (`HistoryIsSent`) |
| `critics` | 212,130 | two lists of critics, clear, blocked, unknown and unmapped surroundings, several iterations, an inflation layer that changes between calls: the shared data belongs to this call, and is read beyond its end only by PathAlign at the last pose (`SharedDataOfThisCall`), PathAlign compares with the nearest point (`AlignedToNearest`), PathFollow drives to the first free one (`FollowsFirstFree`), somebody drives if thresholds overlap (`SomeoneDrives`), collisions are seen and vetoes right but for two gaps (`CollisionsJudged`), ObstaclesCritic recovers its cost (`ObstaclesRecovers`) |
| `path_handler` | 1,278 | plans followed from every position and replaced at every moment: no answer crosses a cusp, the offset into the plan stays in step, no pose is skipped, the last segment is reached |
| `lifecycle` | 219,735 | every sequence of transitions with up to three parameter requests and two calls: a member follows its parameter or keeps what it was configured with (`MembersFollow`), no request reaches a dead local but for two parameters (`TargetsLive`), an array of markers is of one call (`MarkersOfOneCall`) |
| `bench_bridge` | 120,618 | repetitions, rejections, failures, cancellations and late results over three missions: one goal per mission as long as no path changes under a goal, the bridge keeps the contract of `Mission` (`MissionKept`), and the last mission is always pursued |
| `benchmark` | 840,226 | whole runs with requests, limits and timers changed at any time up to the shutdown: cases add up to the request (`CasesAccounted`), a process that ends has served it (`RequestServed`), the latched path is that of the running case (`PathLatched`), and the run ends with everything shut down unless a request rejected while the node spins blocks it (`RunEnds`) |

Some properties carry an exception that is a hazard of the code.  Most are kept visible
by a history variable.

* `raced`: the unlocked reset after inactivity has overlapped with a parameter callback.
  It is excepted by `ShapesAgree` and `ShapeAtUse` (tensors then do differ in shape),
  `SampledWhenFixed` and `WriteExclusive` (both resets draw without `noise_lock_`).
* `mixed`: a writer of the constraints (`setSpeedLimit`, a reset) has overlapped with
  another.  It is excepted by `ConstraintsCurrent`: the four constraints may then belong to two
  requests, or a lifted limit may stay.  That one evaluation clips with a limit that is
  half stored is not excluded by any property.
* `toggled`: `regenerate_noises` was changed while configured (`WriteExclusive`).
* `stale`: a plan was set while inversions were not enforced (all but `TypeOK` of
  `PathHandler`).
* `changed`: a path changed under an unresolved goal (`OneGoalPerMission`, `MissionKept`).
* `failed` with `process = "blocked"`: a request was rejected while the node spins
  (`RunEnds`); `failed` and `late`, a request after the end, in `RequestServed`.
* `SharedDataOfThisCall` excepts the read of `path_pts_valid` at the last pose
  (`path_align_critic.cpp:115`), which is beyond its end: `findClosestPathPt` may return that
  index when a rollout runs past the furthest point and that is the last pose, as on
  the approach to the end of any path.  `AlignedToNearest` leaves out the first point and
  the end of the part of the path PathAlign looks at.
* `SomeoneDrives` presupposes that GoalCritic takes over no later than PathFollow lets go.
  The defaults do (1.4 and 1.4); the benchmark's `mppi_nav2_params.yaml` (0.5 and 1.4) does
  not, and says nothing about which critic is to draw the robot in between.
* `CollisionsJudged` excepts a circumscribed cost older than the inflation layer, and in
  `CostCritic` a free centre without inflation.
* `Feasible` and `OvershootBounded` are relative to the limits in force, which an absolute
  speed limit above `vx_max` raises; `CostsOfOwnRollouts` is about one iteration.

Runs that find a disagreement between the code and what the repository says of it:

| Run | What TLC finds |
|---|---|
| `noise_shutdown` | `shutdown()` sets `ready_` and notifies without `noise_lock_`; between the predicate and the blocking of `wait()` the wakeup is lost and `join()` never returns.  Header: "Shutdown noise generator thread". |
| `retry` | `fail_flag` is only cleared by `prepare()`: passes after a failed one score nothing, and the call always throws once a pass has failed.  README: "Number of attempts to find feasible trajectory on failure". |
| `smoothed_command` | the filter runs after the constraints, with negative outer weights: at full speed behind a slower history the third command is 52 of a maximum of 50.  README: "vx_max ... Max VX (m/s)". |
| `bridge_repeated_case` | two cases in a row with one path, the goal of the first having succeeded: the second is never driven.  TC-06, TC-08 and TC-10 have the same path; with the shipped tolerances the goal of TC-08, whose odometry is noisy, may succeed before the case ends, so TC-08 followed by TC-10 is the instance.  README:82: the bridge "forwards the path to Nav2". |

### Observations without a run

Met while translating the code; the models show them or leave them out as said.

* `regenerate_noises`: `setNoisedControls` may get the lock before the thread does and
  perturb one batch with the zeros `reset()` left (allowed by `ShapeAtUse`; the comment
  says "Recompute the noises on reset, initialization, and fallback").
* The late result of a replaced goal clears the flags of its successor, and the path is
  sent again while it is being driven (behind `changed` in `BenchBridge`; README:134: the
  bridge "doesn't keep reissuing the same goal").
* Case id and path are announced one timer period before the odometry of the new case:
  the first rows tagged with a case may hold the vehicle of the one before it.
* The PDF report is the action of a timer of 3 s in the list whose last entry is
  `Shutdown()`, which cancels it (`pdf` stays FALSE in every run of `Benchmark`).  README:106-118
  says "Two reports are produced automatically", and the docstring at
  `test_orchestrator.py:202-204` that "stop bag -> generate report -> shutdown" "still runs
  as normal"; only the HTML report of the monitor is written.
* The same docstring says that `_fail_and_shutdown` "still ends the process".  For a request
  rejected while the node spins it may block the executor instead (`process = "blocked"`,
  above): the launch then gets no exit event and stays up.
* CostCritic keeps an unusable cost of -1 for as long as the radius stays the same;
  ObstaclesCritic asks again.  Both keep a usable one when the inflation layer is
  reconfigured at the same radius.
* `findClosestPathPt` compares with the element past the end when the distance is beyond
  the last point, and returns 0 rather than `init` when the bound is where it began.  In
  the first case the index may be one past the distances; if that is the last pose,
  PathAlign reads `path_pts_valid` beyond its end (`path_align_critic.cpp:115`).
  With `offset_from_furthest` 0 and the robot at the first pose, PathAlign reads past
  `path_pts_valid` (`path_align_critic.cpp:85`); `CriticsAssumption` excludes that offset.
* In a later iteration of a call the furthest reached point is that of an earlier batch.
* If GoalCritic takes over nearer to the goal than PathFollow lets go, neither draws the
  robot in between (the premise of `SomeoneDrives`); so it is with the shipped
  `mppi_nav2_params.yaml` between 0.5 and 1.4 m from the goal, where PathAlign and PathAngle
  are left.
* A pose off the map is unknown space to both critics, but ObstaclesCritic does not
  look at its footprint while CostCritic does.
* A change of `motion_model` or `deadband_velocities` is written to a local of
  `configure()` that is gone (`TargetsLive` names the two).  `shift_control_sequence`,
  the velocity limits of ConstraintCritic and `reversing_allowed_` are worked out once
  (`derived`), and `forward_preference` can be set later where `vx_min` ruled it out.
* Changes between `configure` and the first activation are lost; a parameter of a critic
  that is listed twice reaches the first only (CostCritic's weight the last); the
  inversion tolerances are dynamic only if inversions were enforced at `configure`.
* `trajectory_step` and `time_step` of 0 make the visualizer's loops endless (excluded).
* The controller's README:298 says of `model_dt`, against the period of the controller,
  "you may also set it lower **but not larger**"; `setOffset` (`optimizer.cpp:100`) throws
  when it is lower and only warns when it is larger (`Refused`).
* README:105 calls the kinematics of TC-04 frozen while `_update_kinematics` moves that
  vehicle too, and the log line "Observing for overshoot" is written although the case
  ends in the same call.

### Bounds

* `noise_generator`: two shapes, since a stale tensor differs from the current one in
  one shape or another; the three threads are those the code has, and operations and
  parameter changes are not counted.
* `mppi_controller`: three critics with the vetoing one in the middle, so that there is
  a critic before and one after a veto; settings with zero, one and two retries, with
  zero, one and two iterations, and with two shapes and two maximum speeds, so that a
  parameter change can raise or lower each; speed limits in any number.
* `control_sequence`: 21 samples are the fewest the filter works on, and have all three
  of its loops and the skipped sample; 6 are too few for it.  Four calls fill the
  history of four commands.
* `critics`: paths of one, two and seven poses, of which seven leave room for a blocked
  stretch between the offset and the last two; batches in which none, some and all
  rollouts collide; two iterations, so that data outlives its batch; layers that are not
  ready, wide and narrow, at two radii.
* `path_handler`: the empty plan, one pose, and up to seven poses with no cusp, one,
  two apart, two in a row, and three.
* `lifecycle`: a list with every kind of critic that treats a parameter of its own, and
  one with repetitions; three requests (`MaxChanges`) put one before, between and after
  transitions; two calls (`MaxCalls`), of which the first may be without a subscriber.
* `bench_bridge`: three missions on two paths (a path changes and comes back) and three
  slots, so that two replaced goals and the current one can be unresolved at a time.
* `benchmark`: requests of two cases, of one case twice, of none, of the custom path,
  and rejected ones; limits of one and three timer calls around durations of one and
  two; a path that shifts in the second call; one replaced request (`MaxChanges`).

`CHECK_DEADLOCK` is off where the system ends: after the shutdown in `Benchmark`, and
after an undefined `erase` in `PathHandler`.  Everywhere else TLC also checks that
somebody can always go on.

### Fairness

* `NoiseGenerator`: all threads are scheduled (weak), and a thread that competes for
  `noise_lock_` or the parameter mutex gets it if it is free again and again (strong, on the
  lock acquisitions only; a mutex does not starve a waiter for ever on the platforms ROS 2
  supports).  No client need begin any operation and spurious wakeups need not happen.
* `MPPIController`: both threads go on with what they have begun (weak);
  `parameters_change_mutex_` is granted likewise (strong).  No call is forced to begin.
* `BenchBridge`: the orchestrator republishes on a timer, the executor runs its
  callbacks, the server answers every goal and ends every goal it has accepted (weak);
  the server is available at some of the tries, and a result is not for ever preempted
  by path callbacks (strong): the executor takes ready callbacks in turn.
* `PathHandler`: the robot follows what it is handed, so that it is within the
  tolerances of an inversion at some call (weak).
* `Benchmark`: the executor runs due timers, a started thread gets its turn, the launch
  system processes its events and its processes react to a SIGINT (weak).  That a
  shutdown from inside a callback returns is not assumed.  No message
  needs to arrive, no row needs to be written, and the vehicle need not move.  The
  publish rate is taken to be positive; 0 raises an exception in the callback.
* `ControlSequence`, `Critics` and `Lifecycle` state no liveness and assume none.

## 4. Proofs

The theorems hold for every value of the constants that satisfies the `ASSUME` of the
module (all of them evaluated by TLC for the values of the runs).  Each safety argument
is: an invariant that is inductive, proved for the initial states and for each action
by itself, and the properties as consequences of it.

**NoiseGenerator** (`NoiseGeneratorProofs`).  The properties speak of the moment of use
(`cpc["control"] = "use"`), and by then the reason they hold is several steps old.
`NoiseInv` adds who holds which mutex where (`LockHolder`, `MutexHolder`); that, unless two
resets overlap (`Alone`), the copy of the settings follows once a `reset()` has made it
(`SettingsFollow`) and all tensors have the wanted shape from the zeroing on
(`TensorsFollow`: a draw of the thread in progress before it is overwritten under the lock,
one after it uses the new copy); that there is no lateral sample from the first zeroing on
(`NoLateral`, overlap or not); that without a toggle the thread exists only if the noises
are regenerated (`OneDrawer`), and that what is not sampled is still going to be
(`DrawnInTurn`).  Proved from it, for every set of shapes, with the exceptions named in
section 3: `TypeOK`, `ShapeAtUse`, `ReadExclusive`, `NoLateralNoise`, `SampledWhenFixed`,
`WriteExclusive`.  `ReadExclusive` and `NoLateralNoise` have no exception.  The only
assumption used is that there is a shape.

**MPPIController** (`MPPIControllerProofs`).  `ServiceInv` is the state of a call place by
place (`CallInv`: the number of passes is the static counter plus one, only a veto raises
it, scores are complete where they are used, a failed sequence lives between its update
and its reset) with who holds the mutex where (`LocksHeld`).  Proved from it, for every
number of critics and every set of settings and limits: `TypeOK`, `CommandScored`,
`CounterRestored`, `PassesBounded`, `FailedSequenceDiscarded`, `CostsOfOwnRollouts`, the
action property `ParamsFrozen`, and that the controller implements `ControlService`
(`ControllerServes`: initial states map to initial states, each step to a step or a
stutter).  What a reset leaves behind line by line is a second invariant on top of it:
`ResetInv` says which tensors have the new shape when a thread is at a given line of a
reset, and which constraints are those requested when `setSpeedLimit` is at a given store
(`Stored`), as long as none of them overlaps with another; from it `ShapesAgree` and
`ConstraintsCurrent`, with the exceptions `raced` and `mixed`.

**ControlSequence** (`ControlSequenceProofs`).  The filter feeds on its own output and on
commands it has put out before, so a bound on what it puts out must survive being put
in.  With `P` the widest limit, samples ahead are within `P` and samples behind, and the
history, within `2P`.  The weights add up to 315 in absolute value, the four behind
the sample to 128, and the lemma `FilterGain` counts those twice: the sum is at most
`443P`, below `2P * 231 = 462P`.  `SequenceInv` says
of every sample whether it has been smoothed, the skipped one included, and of limits
that they contain 0, which scaling, clipping and the turning radius keep.  From it
`Feasible` and `OvershootBounded`, for sequences of any length, limits of any width and
any number of calls; with `SentInv`, which aligns the history with the commands sent
place by place, `HistoryIsSent`.

**Critics** (`CriticsProofs`).  `CriticsInv` is what a call works on (`CallSound`), that a
usable cost is the one of the layer and radius it was kept for (`CacheSound`), and what
the critics asked so far have done (`JudgedSound`).  Collisions need an argument of
geometry only once: a centre below the threshold has no obstacle under its footprint
(`Inflated`), so a rollout passed over with the current cost does not touch one.
`SomeoneDrives` needs that one of the two critics is in charge at any distance:
thresholds are compared through their squares.  Proved for any list of critics without
repetition, any costmap and any batches: `SomeoneDrives`, `CollisionsJudged`,
`ObstaclesRecovers`.

What the critics share is a second invariant on top of it, `SharedInv`: the furthest point
is a point of the path, `path_pts_valid` has one entry less than the path, the members of
PathAlign and PathFollow are within both, and every index read, pair compared and pose
aimed at so far was as it should be, but for PathAlign's read at the last pose.  It rests on lemmas about the functions of `utils.hpp` over
paths and rollouts of any length.  The integrated distances and those travelled are
recursive functions; that they exist, are natural numbers and never decrease
(`DistancesSound`, `TravelledSound`) is proved by the least point at which that fails, with
the well-foundedness of `<` (`LeastNat`), not by an induction theorem.  `LowestSound`,
`FirstNearestFound` and `FurthestRange` are what the searches return, and
`ClosestPointFound` what `findClosestPathPt` does wherever its search begins: the point is
nearest of all but for the two boundaries its statement names.  Proved: `SharedDataOfThisCall`,
`AlignedToNearest`, `FollowsFirstFree`.  Assumed of a scene (`CriticsAssumption`): rollouts
are sequences of points, batches are not empty, offsets are natural numbers.

**PathHandler** (`PathHandlerProofs`).  `PathInv` says of the segment that it is a piece
of the plan without a cusp inside (`SegmentSound`) and of `inversion_locale_` that it
points right behind the segment, or is 0 exactly when the segment is the last
(`LocaleSound`).  `LocaleInStep` alone is not inductive: it says nothing when the offset
is 0, and that case is what makes `erase` safe after the last cusp.  Proved, for every
set of plans: `TypeOK`, `NoCuspCrossed`, `LocaleInStep`, `EraseInRange`, `NeverEmptied`,
and the action property `NothingSkipped`.  Assumed: a cusp is an interior pose.  All but
`TypeOK` except a plan set while inversions were not enforced (`stale`): if they are
enforced afterwards, the offset belongs to an earlier plan and `EraseBeyondEnd` is
reachable.

**Lifecycle** (`LifecycleProofs`).  A member follows the node if it is the one registered
for its name, and which one that is follows from the requests alone: `RequestKinds` sorts
them into four kinds, `RequestsApart` says that a local and a member of one name are
never of one owner, and that only the controller's members have names that critics read
into locals.  `RegisteredSound` finds the first of the owners (for CostCritic's weight the
last), again by a least element.  `LifeInv` keeps that the variables and registrations are
those of `configure()` plus `verbose` once the handler is started (`Registration`), that
nothing was heard before (`Phases`), and that no markers wait between calls
(`Markerless`).  `FollowsIsRegistered` then turns the history property `Follows` into a look-up,
from which each action keeps `MembersFollow`.  Proved for every list of critics with any
repetitions, any requests, rollouts of any shape and any steps of the visualizer:
`TypeOK`, `MembersFollow`, `TargetsLive`, `MarkersOfOneCall`.  Assumed: the node declares
every parameter the configurations read, the list of critics holds names of critics, the
two steps of the visualizer are positive, and requests keep to both.

**BenchBridge** (`BenchBridgeProofs`).  `OneMission` says that as long as no path changed
under a goal, everything on its way is for the path of the current case, there is one
goal at most, and the flags know of it; `SuccessRemembered` that after its success the
remembered signature is that path and nothing is under way, which is what makes the
bridge drop the next repetition.  Proved for any number of cases and slots: `TypeOK`,
`OneGoalPerMission`, and that no goal follows a success (`NoGoalAfterSuccess`).

That the bridge implements `Mission` (`BridgeKeepsMission`) needs `Settled` besides: no goal
of the mission is cancelled, `_goal_in_progress` is set only while there is one, and once
a case has reached the bridge the signature it remembers is of that case or none.  The
last is what makes a path that comes back two cases later a mission of its own, and it
holds because a case is not over before the bridge has seen its path.
`MissionStands` reads the status off the flags, and each action then maps to a step or a
stutter; two cases in a row on one path map to a stutter, which is the disagreement
`bridge_repeated_case` shows.

**Orchestrator** (`BenchmarkProofs`).  `OrchestratorInv` adds to `CasesAccounted` what
may have happened before the process ends (`EndingSound`): a finished sequence has an
empty queue, an armed shutdown means finished or a request after the end.  Proved, for
request lists of any length and any number of replacements: `CasesAccounted` and
`RequestServed`.  A blocked process is one whose request was rejected.  `TypeOK` bounds the time a case has run, although its limit can be
lowered below the time elapsed: `LimitAhead` says that the case's own duration or one of
the limits is still to come.  `PathLatched` is proved likewise.

**Benchmark** (`BenchmarkProofs`).  `BenchSpec => Spec`: every step of the composition is
a step of the orchestrator or leaves it alone.  The orchestrator's theorems therefore
hold of whole runs.  (The refinement mapping is the identity: `Benchmark` extends
`Orchestrator`.)  On top of it `BenchInv`: the types (`BenchTypeOK`), and `DownInOrder`, that
orchestrator, monitor and launch come down in this order, the HTML report is of the last
rows, and the PDF report is never started.

**Model-checked only.**  Of the properties of the runs only the liveness properties
(`TriggerServed`, `ComputeReturns`, `MissionPursued`, `LastSegmentReached`, `RunEnds`) have
no theorem: fairness and `ENABLED` are outside what the prover can handle.  The
disagreements are counterexamples of TLC.

## 5. Not modelled

* The poses and velocities of rollouts, the softmax and the magnitude of scores: rollouts
  and their average are inputs.  `predict` of the motion models only copies velocities.
* Rounding: `ControlSequence` divides integers, so `OvershootBounded` is a statement about
  the weights and the order of the loops, not about the last bit of a float.
* `use_path_orientations` (off by default) in `PathAlignLegacyCritic`, and whether the robot
  faces a pose in `PathAngleCritic` (left open).
* Transforms and distances in `PathHandler`: every outcome is allowed instead.  That the
  result of a transform of a single pose is ignored (`path_handler.cpp:88`) is not
  visible at this level.
* The conversions, angle helpers and markers' colours in `utils.hpp`.
* The geometry and kinematics of the test cases: the vehicle may reach the end of its
  path at any call in which it moves.
* The monitor's metrics and the layout of the reports.
* `performance_monitor.py`, `AdaptiveLd_fixed.py`, the validators, the obstacle and path
  generators, the visualizer node and the report scripts; the launch files other than
  the benchmark's.  They are single scripts whose results no modelled part reads: the
  benchmark's launch file starts the MPPI controller, not the pure pursuit law.
* controller_server, the inflation layer, the rosbag recorder and ROS itself are external;
  they appear as the neighbours the code relies on.  An action server that dies without a
  result leaves `_goal_in_progress` set for good; it is assumed not to.

## 6. What is left

In the order of what it would add:

1. `PerformanceMonitor`: frames and timers, and the log that is read, extended and
   written back without the lock that the docstring promises.
2. Metrics of `ControlMonitor`: running statistics, overshoot, settling and pass/fail, and
   the collision test.
3. `PursuitController`: path state, target selection and stopping of
   `AdaptiveLd_fixed.py`; `Validators`: sampling and verdicts.
