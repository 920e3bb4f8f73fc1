------------------------------- MODULE Lifecycle -------------------------------
(***************************************************************************)
(* The parameters of the MPPI controller through the life of the plugin:   *)
(* what configure() reads and registers, which changes the on-set callback *)
(* of mppi::ParametersHandler hands to which variable, what is derived     *)
(* from parameters once and for all, and the markers of                    *)
(* mppi::TrajectoryVisualizer, whose parameters are among them.            *)
(*                                                                         *)
(* A parameter is named by its namespace (Controller for the plugin's own) *)
(* and its last part.  A variable is known by the parameter it is read     *)
(* from and by its owner: 0 is the controller with its parts but for the   *)
(* critics, j the j-th critic of the list.  The executor runs transitions  *)
(* and requests one after the other, and a plugin that was cleaned up or   *)
(* failed to configure is destroyed (controller_server, external).         *)
(***************************************************************************)
EXTENDS Integers, Sequences

CONSTANTS
    Nodes,          \* parameters the node may start with
    Batches,        \* parameters changed in one request
    BatchSize, TimeSteps,   \* shape of the rollouts that are drawn
    MaxChanges, MaxCalls    \* bounds on requests and calls

VARIABLES
    phase,          \* "unconfigured", "inactive" or "active"
    outcome,        \* of the last configure(): "none", "done" or "threw"
    node,           \* parameters of the node
    member,         \* variables read from parameters
    derived,        \* variables computed from parameters by configure()
    callbacks,      \* get_param_callbacks_: the variable a name is written to
    registered,     \* on_set_param_handler_ is set
    marker_id, points,  \* of the visualizer
    published,      \* the last array of markers published
    changes, calls, \* requests and calls so far
    atConfigure,    \* history: the parameters configure() saw
    heard           \* history: parameters whose changes reached the controller

drawing == <<marker_id, points, published, calls>>
vars    == <<phase, outcome, node, member, derived, callbacks, registered, drawing, changes,
             atConfigure, heard>>

Names(ns, ps) == {<<ns, p>> : p \in ps}
Own(p)        == <<"Controller", p>>
Verbose       == <<"Node", "verbose">>
Nothing       == [x \in {} |-> 0]

\* Values of motion_model.
DiffDrive == 1
Omni      == 2
Ackermann == 3

----------------------------------------------------------------------------
(* The parameters each part reads into members.                             *)

ControllerParams == Names("Controller", {"visualize", "reset_period"})

OptimizerParams ==
    Names("Controller",
          {"model_dt", "time_steps", "batch_size", "iteration_count", "temperature", "gamma",
           "vx_max", "vx_min", "vy_max", "wz_max", "vx_std", "vy_std", "wz_std",
           "retry_attempt_limit"})

AckermannParams(n) ==
    IF n[Own("motion_model")] = Ackermann THEN Names("AckermannConstraints", {"min_turning_r"}) ELSE {}

NoiseParams == Names("Controller", {"regenerate_noises"})

\* The tolerances are read, and registered, only if inversions are enforced by then.
PathHandlerParams(n) ==
    Names("Controller", {"max_robot_pose_search_dist", "prune_distance", "transform_tolerance",
                         "enforce_path_inversion"})
    \cup IF n[Own("enforce_path_inversion")] = 1
         THEN Names("Controller", {"inversion_xy_tolerance", "inversion_yaw_tolerance"}) ELSE {}

VisualizerParams == Names("TrajectoryVisualizer", {"trajectory_step", "time_step"})

Weights == {"enabled", "cost_power", "cost_weight"}

ConstraintParams      == Weights
CostParams            == Weights \cup {"consider_footprint", "critical_cost", "collision_cost",
                                       "near_goal_distance", "inflation_layer_name"}
ObstaclesParams       == {"enabled", "consider_footprint", "cost_power", "repulsion_weight",
                          "critical_weight", "collision_cost", "collision_margin_distance",
                          "near_goal_distance", "cost_scaling_factor", "inflation_radius"}
\* Read if the costmap has an inflation layer, which it is taken to have.
InflationParams       == Names("ObstaclesCritic", {"cost_scaling_factor", "inflation_radius"})
GoalParams            == Weights \cup {"threshold_to_consider"}
GoalAngleParams       == Weights \cup {"threshold_to_consider", "symmetric_yaw_tolerance"}
PathAlignParams       == Weights \cup {"max_path_occupancy_ratio", "offset_from_furthest",
                                       "trajectory_point_step", "threshold_to_consider",
                                       "use_path_orientations"}
PathAlignLegacyParams == PathAlignParams
PathAngleParams       == Weights \cup {"offset_from_furthest", "threshold_to_consider",
                                       "max_angle_to_furthest", "forward_preference"}
PathFollowParams      == Weights \cup {"offset_from_furthest", "threshold_to_consider"}
PreferForwardParams   == Weights \cup {"threshold_to_consider"}
TwirlingParams        == Weights
DeadbandParams        == Weights

CriticParams ==
    [ConstraintCritic |-> ConstraintParams, CostCritic |-> CostParams,
     ObstaclesCritic |-> ObstaclesParams, GoalCritic |-> GoalParams,
     GoalAngleCritic |-> GoalAngleParams, PathAlignCritic |-> PathAlignParams,
     PathAlignLegacyCritic |-> PathAlignLegacyParams, PathAngleCritic |-> PathAngleParams,
     PathFollowCritic |-> PathFollowParams, PreferForwardCritic |-> PreferForwardParams,
     TwirlingCritic |-> TwirlingParams, VelocityDeadbandCritic |-> DeadbandParams]

\* The parameters a critic reads into local variables.
CriticLocals(critic) ==
    CASE critic = "ConstraintCritic"       -> Names("Controller", {"vx_max", "vx_min", "vy_max"})
      [] critic = "PathAngleCritic"        -> Names("Controller", {"vx_min"})
      [] critic = "VelocityDeadbandCritic" -> Names(critic, {"deadband_velocities"})
      [] OTHER                             -> {}

CriticList(n)   == n[Own("critics")]
Listed(n, j, c) == j \in DOMAIN CriticList(n) /\ CriticList(n)[j] = c

\* A variable: its parameter, its owner, and whether it outlives the call that reads it.
Variables(names, owner, local) ==
    {[name |-> x, owner |-> owner, local |-> local] : x \in names}

\* All dynamic getParam calls of configure().
Requests(n) ==
    Variables(ControllerParams \cup OptimizerParams \cup AckermannParams(n) \cup NoiseParams
              \cup PathHandlerParams(n) \cup VisualizerParams, 0, FALSE)
    \cup Variables({Own("motion_model")}, 0, TRUE)
    \cup UNION { LET c == CriticList(n)[j]
                 IN  Variables(Names(c, CriticParams[c]), j, FALSE)
                     \cup Variables(CriticLocals(c), j, TRUE) : j \in DOMAIN CriticList(n) }

\* The names any configuration reads.
Declared ==
    ControllerParams \cup OptimizerParams \cup NoiseParams \cup VisualizerParams
    \cup Names("Controller", {"max_robot_pose_search_dist", "prune_distance", "transform_tolerance",
                   "enforce_path_inversion", "inversion_xy_tolerance", "inversion_yaw_tolerance",
                   "motion_model", "critics", "period"})
    \cup Names("AckermannConstraints", {"min_turning_r"})
    \cup (UNION {Names(c, CriticParams[c]) : c \in DOMAIN CriticParams})
    \cup {<<"VelocityDeadbandCritic", "deadband_velocities">>, <<"Costmap", "use_radius">>, Verbose}

Steps == Names("TrajectoryVisualizer", {"trajectory_step", "time_step"})

\* Critics are listed by their names, and the loops of the visualizer advance.
WellTyped(values) ==
    /\ Own("critics") \in DOMAIN values => values[Own("critics")] \in Seq(DOMAIN CriticParams)
    /\ \A x \in Steps \cap DOMAIN values : values[x] \in Nat \ {0}

\* Every parameter is declared with a value of its type, and a request keeps to it.
ASSUME LifecycleAssumption ==
    /\ BatchSize \in Nat \ {0} /\ TimeSteps \in Nat \ {0}
    /\ MaxChanges \in Nat /\ MaxCalls \in Nat
    /\ \A n \in Nodes : Declared \subseteq DOMAIN n /\ WellTyped(n)
    /\ \A b \in Batches : WellTyped(b) /\ \A n \in Nodes : DOMAIN b \subseteq DOMAIN n

----------------------------------------------------------------------------
(* Values and registrations.                                                *)

CostWeight        == <<"CostCritic", "cost_weight">>
ForwardPreference == <<"PathAngleCritic", "forward_preference">>

\* CostCritic keeps its weight in units of a cost.
Meaning(name, v) == IF name = CostWeight THEN v \div 254 ELSE v

\* A positive vx_min is not provided for.
ReversingAllowed(n) == n[Own("vx_min")] # 0

\* The value configure() leaves in a member.
Initially(name, n) ==
    IF name = ForwardPreference /\ ~ReversingAllowed(n) THEN 1 ELSE Meaning(name, n[name])

\* Mutant of Registered: the last request wins.
RegisteredLast(n) ==
    LET rs == Requests(n)
    IN  [x \in {r.name : r \in rs} |->
            CHOOSE r \in rs : r.name = x /\ \A s \in rs : s.name = x => s.owner <= r.owner]

\* setDynamicParamCallback: the first request of a name wins, in the order of the
\* owners; CostCritic's own callback for its weight replaces any other.
Registered(n) ==
    LET rs == Requests(n)
    IN  [x \in {r.name : r \in rs} |->
            CHOOSE r \in rs :
                r.name = x /\ \A s \in rs : s.name = x =>
                    IF x = CostWeight THEN s.owner <= r.owner ELSE r.owner <= s.owner]

\* What configure() computes from parameters and no callback computes again.
Derive(n) ==
    [motion_model        |-> n[Own("motion_model")],
     shift               |-> n[Own("model_dt")] = n[Own("period")],
     velocityLimits      |-> <<n[Own("vx_min")], n[Own("vx_max")]>>,
     reversing_allowed   |-> ReversingAllowed(n),
     deadband_velocities |-> n[<<"VelocityDeadbandCritic", "deadband_velocities">>]]

----------------------------------------------------------------------------
(* Transitions.                                                             *)

Init ==
    /\ phase = "unconfigured" /\ outcome = "none"
    /\ node \in Nodes /\ atConfigure = node
    /\ member = Nothing /\ derived = Nothing /\ callbacks = Nothing /\ registered = FALSE
    /\ marker_id = 0 /\ points = <<>> /\ published = <<>>
    /\ changes = 0 /\ calls = 0 /\ heard = {}

\* setMotionModel, setOffset and the footprint test of the collision critics.
Refused(n) ==
    \/ n[Own("motion_model")] \notin {DiffDrive, Omni, Ackermann}
    \/ n[Own("period")] > n[Own("model_dt")]
    \/ \E c \in {"CostCritic", "ObstaclesCritic"} :
          /\ \E j \in DOMAIN CriticList(n) : Listed(n, j, c)
          /\ n[<<c, "consider_footprint">>] = 1 /\ n[<<"Costmap", "use_radius">>] = 1

ConfigureThrows ==
    /\ phase = "unconfigured" /\ Refused(node)
    /\ outcome' = "threw"
    /\ UNCHANGED <<phase, node, member, derived, callbacks, registered, drawing, changes,
                   atConfigure, heard>>

Configure ==
    /\ phase = "unconfigured" /\ ~Refused(node)
    /\ phase' = "inactive" /\ outcome' = "done"
    /\ member' = [r \in {s \in Requests(node) : ~s.local} |-> Initially(r.name, node)]
    /\ callbacks' = Registered(node)
    /\ derived' = Derive(node)
    /\ marker_id' = 0 /\ points' = <<>>
    /\ atConfigure' = node /\ heard' = {}
    /\ UNCHANGED <<node, registered, published, changes, calls>>

\* The handler starts here; of what it missed only verbose is read.
Activate ==
    /\ phase = "inactive"
    /\ phase' = "active"
    /\ registered' = TRUE
    /\ LET v == [name |-> Verbose, owner |-> 0, local |-> FALSE]
       IN  /\ member' = [r \in DOMAIN member \cup {v} |-> IF r = v THEN node[Verbose] ELSE member[r]]
           /\ callbacks' = [x \in DOMAIN callbacks \cup {Verbose} |->
                               IF x = Verbose THEN v ELSE callbacks[x]]
    /\ UNCHANGED <<outcome, node, derived, drawing, changes, atConfigure, heard>>

\* Mutant of Deactivate: the callback is taken off.
DeactivateUnregisters ==
    /\ phase = "active"
    /\ phase' = "inactive" /\ registered' = FALSE
    /\ UNCHANGED <<outcome, node, member, derived, callbacks, drawing, changes, atConfigure, heard>>

\* The callback stays in place.
Deactivate ==
    /\ phase = "active"
    /\ phase' = "inactive"
    /\ UNCHANGED <<outcome, node, member, derived, callbacks, registered, drawing, changes,
                   atConfigure, heard>>

Cleanup ==
    /\ phase = "inactive"
    /\ phase' = "unconfigured"
    /\ member' = Nothing /\ derived' = Nothing /\ callbacks' = Nothing /\ registered' = FALSE
    /\ marker_id' = 0 /\ points' = <<>>
    /\ UNCHANGED <<outcome, node, published, changes, calls, atConfigure, heard>>

----------------------------------------------------------------------------
(* Changes of parameters.                                                   *)

\* The members after dynamicParamsCallback(b).  A name without a callback only gives
\* a warning, and what is written to a local that is gone reaches no member.
Written(b) ==
    [r \in DOMAIN member |->
        IF r.name \in DOMAIN b \cap DOMAIN callbacks /\ callbacks[r.name] = r
        THEN Meaning(r.name, b[r.name]) ELSE member[r]]

SetParameters(b) ==
    /\ changes < MaxChanges /\ changes' = changes + 1
    /\ node' = [x \in DOMAIN node |-> IF x \in DOMAIN b THEN b[x] ELSE node[x]]
    /\ IF registered THEN member' = Written(b) /\ heard' = heard \cup DOMAIN b
                     ELSE UNCHANGED <<member, heard>>
    /\ UNCHANGED <<phase, outcome, derived, callbacks, registered, drawing, atConfigure>>

----------------------------------------------------------------------------
(* The visualizer.                                                          *)

Value(name)  == member[[name |-> name, owner |-> 0, local |-> FALSE]]
Every(n, step) == (n + step - 1) \div step

\* Markers from id on, one for each pose added.
Markers(id, n, namespace) ==
    [k \in 1..n |-> [id |-> id + k - 1, ns |-> namespace, call |-> calls + 1]]

Candidates == Every(BatchSize, Value(<<"TrajectoryVisualizer", "trajectory_step">>))
              * Every(TimeSteps, Value(<<"TrajectoryVisualizer", "time_step">>))

\* MPPIController::visualize: what is added to the markers there are.
Added ==
    points \o Markers(marker_id, Candidates, "Candidate Trajectories")
           \o Markers(marker_id + Candidates, TimeSteps, "Optimal Trajectory")

\* Mutant of Visualize: the markers are only let go when they are published.
VisualizeResetsPublished(subscribed) ==
    /\ published' = IF subscribed THEN Added ELSE published
    /\ marker_id' = IF subscribed THEN 0 ELSE marker_id + Candidates + TimeSteps
    /\ points' = IF subscribed THEN <<>> ELSE Added

Visualize(subscribed) ==
    /\ published' = IF subscribed THEN Added ELSE published
    /\ marker_id' = 0 /\ points' = <<>>

Variable(name, j) == [name |-> name, owner |-> j, local |-> FALSE]

\* The critics that may compute the circumscribed cost again when they score.
Refreshing ==
    {j \in DOMAIN CriticList(atConfigure) :
        /\ Listed(atConfigure, j, "ObstaclesCritic")
        /\ member[Variable(<<"ObstaclesCritic", "enabled">>, j)] = 1}

\* ObstaclesCritic::findCircumscribedCost reads the parameters of the inflation layer
\* from the node.
ReadAgain(critics) ==
    LET read == {Variable(x, j) : x \in InflationParams, j \in critics}
    IN  /\ member' = [r \in DOMAIN member |-> IF r \in read THEN node[r.name] ELSE member[r]]
        /\ heard' = heard \cup {x \in InflationParams : callbacks[x] \in read}

\* What a call does with parameters: its critics, and the drawing at its end.
ComputeVelocityCommands(subscribed, critics) ==
    /\ phase = "active" /\ calls < MaxCalls /\ calls' = calls + 1
    /\ critics \subseteq Refreshing
    /\ IF critics = {} THEN UNCHANGED <<member, heard>> ELSE ReadAgain(critics)
    /\ IF Value(Own("visualize")) = 1 THEN Visualize(subscribed)
                                      ELSE UNCHANGED <<marker_id, points, published>>
    /\ UNCHANGED <<phase, outcome, node, derived, callbacks, registered, changes, atConfigure>>

Next ==
    \/ ConfigureThrows \/ Configure \/ Activate \/ Deactivate \/ Cleanup
    \/ (\E b \in Batches : SetParameters(b))
    \/ (\E s \in BOOLEAN, cs \in SUBSET DOMAIN CriticList(atConfigure) :
            ComputeVelocityCommands(s, cs))

Spec == Init /\ [][Next]_vars

----------------------------------------------------------------------------
(* Properties                                                               *)

TypeOK ==
    /\ phase \in {"unconfigured", "inactive", "active"}
    /\ outcome \in {"none", "done", "threw"}
    /\ (phase = "unconfigured") = (callbacks = Nothing)
    /\ registered => phase # "unconfigured"
    /\ phase = "active" => registered
    /\ marker_id \in Nat /\ calls \in 0..MaxCalls /\ changes \in 0..MaxChanges
    /\ heard \subseteq DOMAIN node

\* The variable the changes of a name are for: the controller's own, else that of
\* the first critic that asked, but for CostCritic's weight of the last.
Follows(r) ==
    \A s \in DOMAIN member : s.name = r.name =>
        IF r.name = CostWeight THEN s.owner <= r.owner ELSE r.owner <= s.owner

\* Whatever the sequence of transitions and requests: a member has what the node had
\* when the plugin was configured, until the first activation makes its parameter
\* heard, and from the first request on it follows the node, deactivated or not; the
\* other members of the same name keep what they had.  A call may make those of the
\* inflation layer follow earlier, and a second ObstaclesCritic's lag behind.
MembersFollow ==
    \A r \in {s \in DOMAIN member : s.name \in InflationParams => Follows(s)} :
        member[r] = IF r.name = Verbose \/ (r.name \in heard /\ Follows(r))
                    THEN Meaning(r.name, node[r.name])
                    ELSE Initially(r.name, atConfigure)

\* No request is written to a local variable that is gone, but for the two parameters
\* nobody else reads: the limits of the velocity, which critics also read into
\* locals, are always the optimizer's.
TargetsLive ==
    \A x \in DOMAIN callbacks :
        callbacks[x] \in DOMAIN member \/ x[2] \in {"motion_model", "deadband_velocities"}

\* An array of markers is numbered from 0 and holds the poses of one call, whether or
\* not anybody subscribed to those of earlier calls, and across transitions.
MarkersOfOneCall ==
    \A k \in DOMAIN published :
        published[k].id = k - 1 /\ published[k].call = published[1].call
===============================================================================
