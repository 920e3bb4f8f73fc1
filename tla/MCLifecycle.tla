------------------------------ MODULE MCLifecycle ------------------------------
(* Nodes that enforce inversions or not, with critics listed once and twice;  *)
(* requests for single parameters, for several at once with a foreign one     *)
(* among them, and for values that configure() refuses.                       *)
EXTENDS Lifecycle, TLC

Foreign == <<"Other", "parameter">>

MCNames == Declared \cup {Foreign}

Once  == <<"ConstraintCritic", "CostCritic", "ObstaclesCritic", "PathAngleCritic",
           "VelocityDeadbandCritic">>
Twice == <<"CostCritic", "GoalCritic", "CostCritic", "ConstraintCritic", "GoalCritic">>

Node(critics, model, enforce) ==
    [x \in MCNames |->
        CASE x = Own("critics") -> critics
          [] x = Own("motion_model") -> model
          [] x = Own("enforce_path_inversion") -> enforce
          [] x = <<"Costmap", "use_radius">> -> 1
          [] x[2] = "consider_footprint" -> 0
          [] x = CostWeight -> 508
          [] OTHER -> 1]

MCNodes == {Node(Once, DiffDrive, 0), Node(Twice, Ackermann, 1)}

MCBatches ==
    { Own("model_dt") :> 2, Own("motion_model") :> 0, Own("motion_model") :> Omni,
      Own("vx_min") :> 0, ForwardPreference :> 0,
      Own("enforce_path_inversion") :> 1 @@ Own("inversion_xy_tolerance") :> 2,
      Foreign :> 2 @@ CostWeight :> 254 @@ Own("vx_max") :> 2 @@ <<"GoalCritic", "cost_weight">> :> 2,
      <<"CostCritic", "consider_footprint">> :> 1 @@ Verbose :> 2
          @@ <<"ObstaclesCritic", "enabled">> :> 0,
      <<"TrajectoryVisualizer", "time_step">> :> 2 @@ Own("visualize") :> 0
          @@ <<"ObstaclesCritic", "inflation_radius">> :> 2,
      <<"VelocityDeadbandCritic", "deadband_velocities">> :> 2 @@ Own("visualize") :> 1 }
===============================================================================
