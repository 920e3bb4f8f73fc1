----------------------------- MODULE LifecycleProofs -----------------------------
(***************************************************************************)
(* The parameters and the markers, for every list of critics, every        *)
(* sequence of transitions and requests, and rollouts of any shape.        *)
(***************************************************************************)
EXTENDS Lifecycle, SequenceTheorems, WellFoundedInduction, TLAPS

----------------------------------------------------------------------------
(* What configure() reads.                                                  *)

IsNode(n) == Declared \subseteq DOMAIN n /\ WellTyped(n)

Deadband == <<"VelocityDeadbandCritic", "deadband_velocities">>

\* The four ways a parameter is read: by the controller into a member or a local, by
\* a critic into a member or a local.
Kind(r) ==
    \/ /\ r.owner = 0 /\ ~r.local /\ r.name # Own("motion_model")
       /\ r.name[1] \in {"Controller", "AckermannConstraints", "TrajectoryVisualizer"}
    \/ r.owner = 0 /\ r.local /\ r.name = Own("motion_model")
    \/ /\ r.owner \in Nat \ {0} /\ ~r.local
       /\ r.name[1] \in DOMAIN CriticParams /\ r.name # Deadband
    \/ /\ r.owner \in Nat \ {0} /\ r.local
       /\ r.name \in {Own("vx_max"), Own("vx_min"), Own("vy_max"), Deadband}

LEMMA CriticsListed ==
  ASSUME NEW n, IsNode(n)
  PROVE  /\ CriticList(n) \in Seq(DOMAIN CriticParams)
         /\ DOMAIN CriticList(n) \subseteq Nat \ {0}
         /\ \A j \in DOMAIN CriticList(n) : CriticList(n)[j] \in DOMAIN CriticParams
<1>1. Own("critics") \in DOMAIN n
  BY DEF IsNode, Declared, Names, Own
<1>2. CriticList(n) \in Seq(DOMAIN CriticParams)
  BY <1>1 DEF IsNode, WellTyped, CriticList
<1>3. QED
  BY <1>2

\* A request by its origin.
LEMMA RequestCases ==
  ASSUME NEW n, NEW r \in Requests(n)
  PROVE  /\ r = [name |-> r.name, owner |-> r.owner, local |-> r.local]
         /\ \/ /\ r.owner = 0 /\ r.local = FALSE
               /\ r.name \in ControllerParams \cup OptimizerParams \cup AckermannParams(n)
                             \cup NoiseParams \cup PathHandlerParams(n) \cup VisualizerParams
            \/ r.owner = 0 /\ r.local = TRUE /\ r.name = Own("motion_model")
            \/ \E j \in DOMAIN CriticList(n) :
                  /\ r.owner = j /\ r.local = FALSE
                  /\ r.name \in Names(CriticList(n)[j], CriticParams[CriticList(n)[j]])
            \/ \E j \in DOMAIN CriticList(n) :
                  /\ r.owner = j /\ r.local = TRUE /\ r.name \in CriticLocals(CriticList(n)[j])
<1> DEFINE A == ControllerParams \cup OptimizerParams \cup AckermannParams(n) \cup NoiseParams
                \cup PathHandlerParams(n) \cup VisualizerParams
<1>1. CASE r \in Variables(A, 0, FALSE)
  <2> HIDE DEF A
  <2>1. \E x \in A : r = [name |-> x, owner |-> 0, local |-> FALSE]
    BY <1>1 DEF Variables
  <2>2. QED
    BY <2>1 DEF A
<1>2. CASE r \in Variables({Own("motion_model")}, 0, TRUE)
  <2>1. r = [name |-> Own("motion_model"), owner |-> 0, local |-> TRUE]
    BY <1>2 DEF Variables
  <2>2. QED
    BY <2>1
<1>3. CASE \E j \in DOMAIN CriticList(n) :
              r \in Variables(Names(CriticList(n)[j], CriticParams[CriticList(n)[j]]), j, FALSE)
  <2>1. PICK j \in DOMAIN CriticList(n) :
          r \in Variables(Names(CriticList(n)[j], CriticParams[CriticList(n)[j]]), j, FALSE)
    BY <1>3
  <2>2. \E x \in Names(CriticList(n)[j], CriticParams[CriticList(n)[j]]) :
            r = [name |-> x, owner |-> j, local |-> FALSE]
    BY <2>1 DEF Variables
  <2>3. QED
    BY <2>2
<1>4. CASE \E j \in DOMAIN CriticList(n) : r \in Variables(CriticLocals(CriticList(n)[j]), j, TRUE)
  <2>1. PICK j \in DOMAIN CriticList(n) : r \in Variables(CriticLocals(CriticList(n)[j]), j, TRUE)
    BY <1>4
  <2>2. \E x \in CriticLocals(CriticList(n)[j]) : r = [name |-> x, owner |-> j, local |-> TRUE]
    BY <2>1 DEF Variables
  <2>3. QED
    BY <2>2
<1>5. QED
  BY <1>1, <1>2, <1>3, <1>4 DEF Requests

LEMMA LocalNames ==
  ASSUME NEW c, NEW x \in CriticLocals(c)
  PROVE  x \in {Own("vx_max"), Own("vx_min"), Own("vy_max"), Deadband}
<1>1. CASE c = "ConstraintCritic"
  BY <1>1 DEF CriticLocals, Names, Own
<1>2. CASE c = "PathAngleCritic"
  BY <1>2 DEF CriticLocals, Names, Own
<1>3. CASE c = "VelocityDeadbandCritic"
  BY <1>3 DEF CriticLocals, Names, Deadband
<1>4. QED
  BY <1>1, <1>2, <1>3 DEF CriticLocals

\* The names of a critic's members.
LEMMA MemberNames ==
  ASSUME NEW c \in DOMAIN CriticParams, NEW x \in Names(c, CriticParams[c])
  PROVE  x[1] \in DOMAIN CriticParams /\ x # Deadband /\ x \in Declared
<1>1. PICK p \in CriticParams[c] : x = <<c, p>>
  BY DEF Names
<1>2. x \in Declared
  BY DEF Declared
<1>3. "deadband_velocities" \notin CriticParams["VelocityDeadbandCritic"]
  BY DEF CriticParams, DeadbandParams, Weights
<1>4. QED
  BY <1>1, <1>2, <1>3 DEF Deadband

\* The parameters of the controller itself.
LEMMA OwnNames ==
  ASSUME NEW n, NEW x \in ControllerParams \cup OptimizerParams \cup AckermannParams(n)
                          \cup NoiseParams \cup PathHandlerParams(n) \cup VisualizerParams
  PROVE  /\ x[1] \in {"Controller", "AckermannConstraints", "TrajectoryVisualizer"}
         /\ x # Own("motion_model") /\ x \in Declared
<1>1. CASE x \in ControllerParams
  BY <1>1 DEF ControllerParams, Names, Own, Declared
<1>2. CASE x \in OptimizerParams
  BY <1>2 DEF OptimizerParams, Names, Own, Declared
<1>3. CASE x \in AckermannParams(n)
  <2>1. x = <<"AckermannConstraints", "min_turning_r">>
    BY <1>3 DEF AckermannParams, Names
  <2>2. QED
    BY <2>1 DEF Own, Declared, Names
<1>4. CASE x \in NoiseParams
  BY <1>4 DEF NoiseParams, Names, Own, Declared
<1>5. CASE x \in PathHandlerParams(n)
  <2>1. x \in Names("Controller", {"max_robot_pose_search_dist", "prune_distance",
                "transform_tolerance", "enforce_path_inversion", "inversion_xy_tolerance",
                "inversion_yaw_tolerance"})
    BY <1>5 DEF PathHandlerParams, Names
  <2>2. QED
    BY <2>1 DEF Own, Declared, Names
<1>6. CASE x \in VisualizerParams
  BY <1>6 DEF VisualizerParams, Names, Own, Declared
<1>7. QED
  BY <1>1, <1>2, <1>3, <1>4, <1>5, <1>6

LEMMA RequestKinds ==
  ASSUME NEW n, IsNode(n), NEW r \in Requests(n)
  PROVE  Kind(r) /\ r.owner \in Nat /\ r.name \in Declared
<1>1. CASE /\ r.owner = 0 /\ r.local = FALSE
           /\ r.name \in ControllerParams \cup OptimizerParams \cup AckermannParams(n)
                         \cup NoiseParams \cup PathHandlerParams(n) \cup VisualizerParams
  BY <1>1, OwnNames DEF Kind
<1>2. CASE r.owner = 0 /\ r.local = TRUE /\ r.name = Own("motion_model")
  BY <1>2 DEF Kind, Declared, Names, Own
<1>3. ASSUME NEW j \in DOMAIN CriticList(n),
             r.owner = j /\ r.local = FALSE
             /\ r.name \in Names(CriticList(n)[j], CriticParams[CriticList(n)[j]])
      PROVE  Kind(r) /\ r.owner \in Nat /\ r.name \in Declared
  BY <1>3, CriticsListed, MemberNames DEF Kind
<1>4. ASSUME NEW j \in DOMAIN CriticList(n),
             r.owner = j /\ r.local = TRUE /\ r.name \in CriticLocals(CriticList(n)[j])
      PROVE  Kind(r) /\ r.owner \in Nat /\ r.name \in Declared
  <2>1. r.name \in {Own("vx_max"), Own("vx_min"), Own("vy_max"), Deadband}
    BY <1>4, LocalNames
  <2>2. r.name \in Declared
    <3>1. {Own("vx_max"), Own("vx_min"), Own("vy_max")} \subseteq OptimizerParams
      BY DEF Own, OptimizerParams, Names
    <3>2. OptimizerParams \subseteq Declared
      BY DEF Declared
    <3>4. Deadband \in {Deadband, <<"Costmap", "use_radius">>, Verbose}
      OBVIOUS
    <3>5. Deadband \in Declared
      BY <3>4 DEF Declared, Deadband
    <3>3. QED
      BY <2>1, <3>1, <3>2, <3>5
  <2>3. QED
    BY <1>4, <2>1, <2>2, CriticsListed DEF Kind
<1>5. QED
  BY <1>1, <1>2, <1>3, <1>4, RequestCases

\* A part asks for a name once; what a critic reads into a local and another part keeps
\* is the controller's.
LEMMA RequestsApart ==
  ASSUME NEW n, IsNode(n), NEW r \in Requests(n), NEW s \in Requests(n), r.name = s.name
  PROVE  /\ r.owner = s.owner => r = s
         /\ s.local /\ ~r.local => r.owner = 0 /\ s.owner > 0 /\ r.name # CostWeight
<1>1. Kind(r) /\ Kind(s) /\ r.owner \in Nat /\ s.owner \in Nat
  BY RequestKinds
<1>2. /\ r = [name |-> r.name, owner |-> r.owner, local |-> r.local] /\ r.local \in BOOLEAN
      /\ s = [name |-> s.name, owner |-> s.owner, local |-> s.local] /\ s.local \in BOOLEAN
  BY RequestCases
<1>3. "Controller" \notin DOMAIN CriticParams
  BY DEF CriticParams
<1>4. \A p : Own(p)[1] = "Controller" /\ Own(p) # Deadband /\ Own(p) # CostWeight
  BY DEF Own, Deadband, CostWeight
<1>5. /\ Deadband[1] = "VelocityDeadbandCritic" /\ Deadband # CostWeight
      /\ Own("motion_model") \notin {Own("vx_max"), Own("vx_min"), Own("vy_max")}
  BY DEF Own, Deadband, CostWeight
<1>6. s.local /\ ~r.local => r.owner = 0 /\ s.owner > 0 /\ r.name # CostWeight
  BY <1>1, <1>3, <1>4, <1>5 DEF Kind
<1>7. r.local /\ ~s.local => s.owner = 0 /\ r.owner > 0
  BY <1>1, <1>3, <1>4, <1>5 DEF Kind
<1>8. r.owner = s.owner => r.local = s.local
  BY <1>1, <1>2, <1>6, <1>7
<1>9. QED
  BY <1>2, <1>6, <1>8

----------------------------------------------------------------------------
(* Who is registered for a name.                                            *)

LEMMA LeastNat ==
  ASSUME NEW S, S \subseteq Nat, S # {}
  PROVE  \E x \in S : \A y \in S : x <= y
<1>1. PICK x \in S : \A y \in S : <<y, x>> \notin OpToRel(<, Nat)
  BY WFMin, NatLessThanWellFounded
<1>2. \A y \in S : ~(y < x)
  BY <1>1 DEF OpToRel
<1>3. QED
  BY <1>2

\* The first and the last of the parts that ask for a name.
LEMMA FirstAndLast ==
  ASSUME NEW n, IsNode(n), NEW x \in {r.name : r \in Requests(n)}
  PROVE  \E r \in Requests(n) : r.name = x /\ \A s \in Requests(n) : s.name = x =>
             IF x = CostWeight THEN s.owner <= r.owner ELSE r.owner <= s.owner
<1> DEFINE Asking == {r \in Requests(n) : r.name = x}
           Owners == {r.owner : r \in Asking}
           L      == Len(CriticList(n))
           Behind == {L - o : o \in Owners}
<1>1. Asking # {}
  OBVIOUS
<1>2. Owners # {}
  BY <1>1
<1>3. \A r \in Asking : r.owner \in 0..L
  <2>1. SUFFICES ASSUME NEW r \in Requests(n) PROVE r.owner \in 0..L
    OBVIOUS
  <2>2. L \in Nat /\ DOMAIN CriticList(n) = 1..L
    BY CriticsListed
  <2>3. r.owner = 0 \/ r.owner \in DOMAIN CriticList(n)
    BY RequestCases
  <2>4. QED
    BY <2>2, <2>3
<1>4. L \in Nat /\ Owners \subseteq Nat
  BY <1>3, CriticsListed
<1>5. \A o \in Owners : o \in Nat /\ L - o \in Nat
  BY <1>3, <1>4
<1>6. Behind # {} /\ Behind \subseteq Nat
  BY <1>2, <1>5
<1> HIDE DEF L, Behind
<1>7. CASE x = CostWeight
  <2>1. PICK d \in Behind : \A e \in Behind : d <= e
    BY <1>6, LeastNat
  <2>2. PICK r \in Asking : d = L - r.owner
    BY DEF Behind
  <2>3. \A s \in Asking : L - r.owner <= L - s.owner
    BY <2>1, <2>2 DEF Behind
  <2>4. \A s \in Asking : s.owner <= r.owner
    BY <1>3, <1>4, <2>3
  <2>5. QED
    BY <1>7, <2>4
<1>8. CASE x # CostWeight
  <2> HIDE DEF Owners
  <2>1. PICK o \in Owners : \A e \in Owners : o <= e
    BY <1>2, <1>4, LeastNat
  <2>2. PICK r \in Asking : o = r.owner
    BY DEF Owners
  <2>3. \A s \in Asking : r.owner <= s.owner
    BY <2>1, <2>2 DEF Owners
  <2>4. QED
    BY <1>8, <2>3
<1>9. QED
  BY <1>7, <1>8

LEMMA RegisteredSound ==
  ASSUME NEW n, IsNode(n), NEW x \in {r.name : r \in Requests(n)}
  PROVE  /\ Registered(n)[x] \in Requests(n) /\ Registered(n)[x].name = x
         /\ \A s \in Requests(n) : s.name = x =>
                IF x = CostWeight THEN s.owner <= Registered(n)[x].owner
                                  ELSE Registered(n)[x].owner <= s.owner
<1>1. Registered(n)[x] = CHOOSE r \in Requests(n) :
             r.name = x /\ \A s \in Requests(n) : s.name = x =>
                 IF x = CostWeight THEN s.owner <= r.owner ELSE r.owner <= s.owner
  BY DEF Registered
<1>2. QED
  BY <1>1, FirstAndLast

----------------------------------------------------------------------------
(* The inductive invariant.                                                 *)

Parameters(n) == {r.name : r \in Requests(n)}
Kept(n)       == {r \in Requests(n) : ~r.local}

\* What verbose adds once the handler is started.
Started(x) == IF registered THEN {x} ELSE {}

\* The parameters a node has do not change, only their values.
NodesTyped ==
    /\ IsNode(node) /\ IsNode(atConfigure)
    /\ \A b \in Batches : DOMAIN b \subseteq DOMAIN node

\* The variables there are and where changes go, as configure() left them.
Registration ==
    IF phase = "unconfigured"
    THEN member = Nothing /\ callbacks = Nothing /\ registered = FALSE
    ELSE /\ DOMAIN member = Kept(atConfigure) \cup Started(Variable(Verbose, 0))
         /\ DOMAIN callbacks = Parameters(atConfigure) \cup Started(Verbose)
         /\ \A x \in DOMAIN callbacks : x # Verbose => callbacks[x] = Registered(atConfigure)[x]
         /\ registered => callbacks[Verbose] = Variable(Verbose, 0)

Phases ==
    /\ phase \in {"unconfigured", "inactive", "active"}
    /\ outcome \in {"none", "done", "threw"}
    /\ registered \in BOOLEAN
    /\ phase = "active" => registered
    /\ calls \in 0..MaxCalls /\ changes \in 0..MaxChanges
    /\ heard \subseteq DOMAIN node
    /\ phase # "unconfigured" /\ ~registered => heard = {}

Namespaces == {"Candidate Trajectories", "Optimal Trajectory"}
MarkerSeqs == Seq([id : Nat, ns : Namespaces, call : Nat])

\* No markers wait between calls.
Markerless == marker_id = 0 /\ points = <<>> /\ published \in MarkerSeqs

LifeInv ==
    NodesTyped /\ Registration /\ Phases /\ MembersFollow /\ Markerless /\ MarkersOfOneCall

----------------------------------------------------------------------------
(* Consequences of the invariant.                                           *)

LEMMA VerboseApart ==
  ASSUME NEW n, IsNode(n), NEW r \in Requests(n)
  PROVE  r.name # Verbose
<1>1. Kind(r)
  BY RequestKinds
<1>2. Verbose[1] = "Node" /\ "Node" \notin DOMAIN CriticParams
  BY DEF Verbose, CriticParams
<1>3. \A p : Own(p) # Verbose
  BY DEF Own, Verbose
<1>4. Deadband # Verbose
  BY DEF Deadband, Verbose
<1>5. QED
  BY <1>1, <1>2, <1>3, <1>4 DEF Kind

\* The variable changes of a name are written to is the one that follows it.
LEMMA FollowsIsRegistered ==
  ASSUME NodesTyped, Registration, phase # "unconfigured", NEW r \in DOMAIN member
  PROVE  r.name \in DOMAIN callbacks /\ (Follows(r) <=> callbacks[r.name] = r)
<1>1. CASE r = Variable(Verbose, 0)
  <2>1. r.name = Verbose /\ r.owner = 0
    BY <1>1 DEF Variable
  <2>2. r \notin Kept(atConfigure)
    BY <2>1, VerboseApart DEF NodesTyped, Kept
  <2>3. registered
    BY <2>2 DEF Registration, Started
  <2>4. \A s \in DOMAIN member : s.name = r.name => s = r
    BY <1>1, <2>1, VerboseApart DEF Registration, NodesTyped, Kept, Started
  <2>5. Follows(r)
    BY <2>1, <2>4 DEF Follows
  <2>6. QED
    BY <1>1, <2>1, <2>3, <2>5 DEF Registration, Started
<1>2. CASE r # Variable(Verbose, 0)
  <2> DEFINE q == Registered(atConfigure)[r.name]
  <2>1. r \in Kept(atConfigure) /\ r \in Requests(atConfigure) /\ ~r.local
    BY <1>2 DEF Registration, Started, Kept
  <2>2. r.name \in Parameters(atConfigure) /\ r.name # Verbose
    BY <2>1, VerboseApart DEF Parameters, NodesTyped
  <2>3. r.name \in DOMAIN callbacks /\ callbacks[r.name] = q
    BY <2>2 DEF Registration
  <2>4. /\ q \in Requests(atConfigure) /\ q.name = r.name
        /\ \A s \in Requests(atConfigure) : s.name = r.name =>
               IF r.name = CostWeight THEN s.owner <= q.owner ELSE q.owner <= s.owner
    BY <2>2, RegisteredSound DEF Parameters, NodesTyped
  <2> HIDE DEF q
  <2>5. r.owner \in Nat /\ q.owner \in Nat
    BY <2>1, <2>4, RequestKinds DEF NodesTyped
  <2>6. ASSUME q = r PROVE Follows(r)
    <3>1. \A s \in DOMAIN member : s.name = r.name => s \in Requests(atConfigure)
      BY <2>2 DEF Registration, Kept, Started, Variable
    <3>2. QED
      BY <2>4, <2>6, <3>1 DEF Follows
  <2>7. ASSUME Follows(r) PROVE q = r
    <3>1. ~q.local
      <4>1. SUFFICES ASSUME q.local PROVE FALSE
        OBVIOUS
      <4>2. r.owner = 0 /\ q.owner > 0 /\ r.name # CostWeight
        BY <2>1, <2>4, <4>1, RequestsApart DEF NodesTyped
      <4>3. QED
        BY <2>1, <2>4, <2>5, <4>2
    <3>2. q \in DOMAIN member
      BY <2>4, <3>1 DEF Registration, Kept
    <3>3. q.owner = r.owner
      BY <2>1, <2>4, <2>5, <2>7, <3>2 DEF Follows
    <3>4. QED
      BY <2>1, <2>4, <3>3, RequestsApart DEF NodesTyped
  <2>8. QED
    BY <2>3, <2>6, <2>7
<1>3. QED
  BY <1>1, <1>2

\* A variable has a name of the node.
LEMMA MemberNamed ==
  ASSUME NodesTyped, Registration, NEW r \in DOMAIN member
  PROVE  phase # "unconfigured" /\ r.name \in Declared /\ r.name \in DOMAIN node
<1>1. phase # "unconfigured"
  BY DEF Registration, Nothing
<1>2. r.name \in Declared
  <2>1. CASE r = Variable(Verbose, 0)
    <3>1. Verbose \in Declared
      BY DEF Declared
    <3>2. QED
      BY <2>1, <3>1 DEF Variable
  <2>2. CASE r \in Kept(atConfigure)
    BY <2>2, RequestKinds DEF Kept, NodesTyped
  <2>3. QED
    BY <1>1, <2>1, <2>2 DEF Registration, Started
<1>3. QED
  BY <1>1, <1>2 DEF NodesTyped, IsNode

\* No request is written to a local variable that is gone, but for the two parameters
\* nobody else reads.
LEMMA TargetsLiveHere == NodesTyped /\ Registration => TargetsLive
<1> SUFFICES ASSUME NodesTyped, Registration, NEW x \in DOMAIN callbacks
             PROVE  callbacks[x] \in DOMAIN member \/ x[2] \in {"motion_model", "deadband_velocities"}
  BY DEF TargetsLive
<1>1. phase # "unconfigured"
  BY DEF Registration, Nothing
<1>2. CASE x = Verbose
  <2>1. registered
    BY <1>1, <1>2, VerboseApart DEF Registration, Started, Parameters, NodesTyped
  <2>2. QED
    BY <1>1, <1>2, <2>1 DEF Registration, Started
<1>3. CASE x # Verbose
  <2> DEFINE q == Registered(atConfigure)[x]
  <2>1. x \in Parameters(atConfigure) /\ callbacks[x] = q
    BY <1>1, <1>3 DEF Registration, Started
  <2>2. /\ q \in Requests(atConfigure) /\ q.name = x
        /\ \A s \in Requests(atConfigure) : s.name = x =>
               IF x = CostWeight THEN s.owner <= q.owner ELSE q.owner <= s.owner
    BY <2>1, RegisteredSound DEF Parameters, NodesTyped
  <2> HIDE DEF q
  <2>3. Kind(q) /\ q.owner \in Nat
    BY <2>2, RequestKinds DEF NodesTyped
  <2>4. CASE ~q.local
    BY <1>1, <2>1, <2>2, <2>4 DEF Registration, Kept
  <2>5. CASE x = Own("motion_model") \/ x = Deadband
    BY <2>5 DEF Own, Deadband
  <2>6. CASE q.local /\ q.owner > 0 /\ x \in {Own("vx_max"), Own("vx_min"), Own("vy_max")}
    <3>1. x \in OptimizerParams
      BY <2>6 DEF OptimizerParams, Names, Own
    <3>2. [name |-> x, owner |-> 0, local |-> FALSE] \in Requests(atConfigure)
      BY <3>1 DEF Requests, Variables
    <3>3. x # CostWeight
      BY <2>6 DEF Own, CostWeight
    <3>4. QED
      BY <2>2, <2>3, <2>6, <3>2, <3>3
  <2>7. QED
    BY <2>2, <2>3, <2>4, <2>5, <2>6 DEF Kind
<1>4. QED
  BY <1>2, <1>3

----------------------------------------------------------------------------
(* The markers.                                                             *)

LEMMA EveryNat ==
  ASSUME NEW n \in Nat, NEW step \in Nat \ {0}
  PROVE  Every(n, step) \in Nat
<1>1. n + step - 1 \in Nat
  OBVIOUS
<1>2. \A a \in Nat : a \div step \in Nat
  OBVIOUS
<1>3. QED
  BY <1>1, <1>2 DEF Every

\* The steps of the loops of the visualizer are positive, whoever set them.
LEMMA StepsPositive ==
  ASSUME NodesTyped, Registration, MembersFollow, phase # "unconfigured",
         NEW x \in Steps
  PROVE  Value(x) \in Nat \ {0}
<1> DEFINE r == [name |-> x, owner |-> 0, local |-> FALSE]
<1>1. x \in Names("TrajectoryVisualizer", {"trajectory_step", "time_step"}) /\ x \in VisualizerParams
  BY DEF Steps, VisualizerParams
<1>2. r \in DOMAIN member
  <2>1. r \in Requests(atConfigure)
    BY <1>1 DEF Requests, Variables
  <2>2. QED
    BY <2>1 DEF Registration, Kept
<1>3. x \notin InflationParams /\ x # CostWeight /\ x # ForwardPreference
  BY <1>1 DEF InflationParams, Names, CostWeight, ForwardPreference
<1>4. x \in Declared
  BY <1>1 DEF Declared
<1>5. node[x] \in Nat \ {0} /\ atConfigure[x] \in Nat \ {0}
  BY <1>4 DEF NodesTyped, IsNode, WellTyped
<1>6. Meaning(x, node[x]) = node[x] /\ Initially(x, atConfigure) = atConfigure[x]
  BY <1>3 DEF Meaning, Initially
<1>7. member[r] \in {Meaning(x, node[x]), Initially(x, atConfigure)}
  BY <1>2, <1>3 DEF MembersFollow
<1>8. QED
  BY <1>5, <1>6, <1>7 DEF Value

LEMMA CandidatesNat ==
  ASSUME NodesTyped, Registration, MembersFollow, phase # "unconfigured"
  PROVE  Candidates \in Nat
<1>1. /\ Value(<<"TrajectoryVisualizer", "trajectory_step">>) \in Nat \ {0}
      /\ Value(<<"TrajectoryVisualizer", "time_step">>) \in Nat \ {0}
  BY StepsPositive DEF Steps, Names
<1>2. /\ Every(BatchSize, Value(<<"TrajectoryVisualizer", "trajectory_step">>)) \in Nat
      /\ Every(TimeSteps, Value(<<"TrajectoryVisualizer", "time_step">>)) \in Nat
  BY <1>1, EveryNat, LifecycleAssumption
<1>3. \A a, b \in Nat : a * b \in Nat
  OBVIOUS
<1>4. QED
  BY <1>2, <1>3 DEF Candidates

LEMMA MarkersSound ==
  ASSUME NEW id \in Nat, NEW n \in Nat, NEW namespace \in Namespaces, calls \in Nat
  PROVE  /\ Markers(id, n, namespace) \in MarkerSeqs
         /\ Len(Markers(id, n, namespace)) = n
         /\ \A k \in 1..n : /\ Markers(id, n, namespace)[k].id = id + k - 1
                            /\ Markers(id, n, namespace)[k].call = calls + 1
<1>1. \A k \in 1..n : [id |-> id + k - 1, ns |-> namespace, call |-> calls + 1]
                          \in [id : Nat, ns : Namespaces, call : Nat]
  OBVIOUS
<1>2. Markers(id, n, namespace) \in [1..n -> [id : Nat, ns : Namespaces, call : Nat]]
  BY <1>1 DEF Markers
<1>3. QED
  BY <1>2 DEF MarkerSeqs, Markers

\* What a call publishes: the candidates and the trajectory it chose, numbered on.
LEMMA AddedSound ==
  ASSUME NodesTyped, Registration, MembersFollow, Phases, Markerless, phase # "unconfigured"
  PROVE  /\ Added \in MarkerSeqs
         /\ \A k \in DOMAIN Added : Added[k].id = k - 1 /\ Added[k].call = calls + 1
<1> DEFINE C == Candidates
           A == Markers(0, C, "Candidate Trajectories")
           O == Markers(C, TimeSteps, "Optimal Trajectory")
<1>1. C \in Nat /\ TimeSteps \in Nat /\ calls \in Nat
  BY CandidatesNat, LifecycleAssumption DEF Phases
<1> HIDE DEF C
<1>2. /\ A \in MarkerSeqs /\ Len(A) = C
      /\ \A k \in 1..C : A[k].id = k - 1 /\ A[k].call = calls + 1
  <2>1. /\ A \in MarkerSeqs /\ Len(A) = C
        /\ \A k \in 1..C : A[k].id = 0 + k - 1 /\ A[k].call = calls + 1
    <3>1. "Candidate Trajectories" \in Namespaces /\ 0 \in Nat
      BY DEF Namespaces
    <3>2. QED
      BY <1>1, <3>1, MarkersSound
  <2> HIDE DEF A
  <2>2. QED
    BY <2>1, <1>1
<1>3. /\ O \in MarkerSeqs /\ Len(O) = TimeSteps
      /\ \A k \in 1..TimeSteps : O[k].id = C + k - 1 /\ O[k].call = calls + 1
  <2>1. "Optimal Trajectory" \in Namespaces
    BY DEF Namespaces
  <2>2. QED
    BY <1>1, <2>1, MarkersSound
<1>4. Added = <<>> \o A \o O
  <2>1. marker_id = 0 /\ marker_id + C = C
    BY <1>1 DEF Markerless
  <2>2. Added = points \o Markers(marker_id, C, "Candidate Trajectories")
                       \o Markers(marker_id + C, TimeSteps, "Optimal Trajectory")
    BY DEF Added, C
  <2>3. QED
    BY <2>1, <2>2 DEF Markerless
<1> HIDE DEF A, O
<1>5. <<>> \o A = A
  BY <1>2 DEF MarkerSeqs
<1>6. /\ A \o O \in MarkerSeqs /\ Len(A \o O) = C + TimeSteps
      /\ \A k \in 1..(C + TimeSteps) : (A \o O)[k] = IF k <= C THEN A[k] ELSE O[k - C]
  BY <1>2, <1>3, ConcatProperties DEF MarkerSeqs
<1>7. ASSUME NEW k \in 1..(C + TimeSteps)
      PROVE  (A \o O)[k].id = k - 1 /\ (A \o O)[k].call = calls + 1
  <2>1. CASE k <= C
    BY <1>1, <1>2, <1>6, <2>1
  <2>2. CASE ~(k <= C)
    <3>1. k - C \in 1..TimeSteps
      BY <1>1, <2>2
    <3>2. O[k - C].id = C + (k - C) - 1 /\ O[k - C].call = calls + 1
      BY <1>3, <3>1
    <3>3. QED
      BY <1>1, <1>6, <2>2, <3>2
  <2>3. QED
    BY <2>1, <2>2
<1>8. QED
  BY <1>4, <1>5, <1>6, <1>7 DEF MarkerSeqs

----------------------------------------------------------------------------
(* The steps.                                                               *)

LEMMA LifeInit == Init => LifeInv
<1> SUFFICES ASSUME Init PROVE LifeInv
  OBVIOUS
<1>1. NodesTyped
  BY LifecycleAssumption DEF Init, NodesTyped, IsNode
<1>2. Registration
  BY DEF Init, Registration
<1>3. Phases
  <2>1. 0 \in 0..MaxCalls /\ 0 \in 0..MaxChanges
    BY LifecycleAssumption
  <2>2. phase = "unconfigured" /\ outcome = "none" /\ registered = FALSE /\ heard = {}
    BY DEF Init
  <2>3. calls \in 0..MaxCalls /\ changes \in 0..MaxChanges
    BY <2>1 DEF Init
  <2>4. QED
    BY <2>2, <2>3 DEF Phases
<1>4. MembersFollow
  BY DEF Init, MembersFollow, Nothing
<1>5. Markerless /\ MarkersOfOneCall
  BY DEF Init, Markerless, MarkersOfOneCall, MarkerSeqs
<1>6. QED
  BY <1>1, <1>2, <1>3, <1>4, <1>5 DEF LifeInv

LEMMA ConfigureKeeps ==
  ASSUME LifeInv, Configure
  PROVE  LifeInv'
<1>1. NodesTyped'
  BY DEF LifeInv, NodesTyped, Configure
<1>2. Registration'
  <2>1. /\ phase' # "unconfigured" /\ atConfigure' = node /\ registered' = FALSE
        /\ DOMAIN member' = Kept(node) /\ callbacks' = Registered(node)
    BY DEF Configure, LifeInv, Registration, Kept
  <2>2. DOMAIN Registered(node) = Parameters(node)
    BY DEF Registered, Parameters
  <2>3. QED
    BY <2>1, <2>2 DEF Registration, Started
<1>3. Phases'
  BY DEF LifeInv, Phases, Registration, Configure, drawing
<1>4. MembersFollow'
  <2> SUFFICES ASSUME NEW r \in DOMAIN member'
               PROVE  member'[r] = (IF r.name = Verbose \/ (r.name \in heard /\ Follows(r))
                                    THEN Meaning(r.name, node[r.name])
                                    ELSE Initially(r.name, atConfigure))'
    BY DEF MembersFollow
  <2>1. r \in Kept(node) /\ member'[r] = Initially(r.name, node)
    BY DEF Configure, Kept
  <2>2. r.name # Verbose
    BY <2>1, VerboseApart DEF LifeInv, NodesTyped, Kept
  <2>3. heard' = {} /\ atConfigure' = node
    BY DEF Configure
  <2>4. QED
    BY <2>1, <2>2, <2>3
<1>5. Markerless' /\ MarkersOfOneCall'
  BY DEF LifeInv, Markerless, MarkersOfOneCall, Configure
<1>6. QED
  BY <1>1, <1>2, <1>3, <1>4, <1>5 DEF LifeInv

LEMMA ActivateKeeps ==
  ASSUME LifeInv, Activate
  PROVE  LifeInv'
<1> DEFINE v == Variable(Verbose, 0)
<1> USE DEF LifeInv
<1>0. /\ phase # "unconfigured" /\ phase' = "active" /\ registered' = TRUE
      /\ member' = [r \in DOMAIN member \cup {v} |-> IF r = v THEN node[Verbose] ELSE member[r]]
      /\ callbacks' = [x \in DOMAIN callbacks \cup {Verbose} |->
                          IF x = Verbose THEN v ELSE callbacks[x]]
      /\ node' = node /\ atConfigure' = atConfigure /\ heard' = heard
  BY DEF Activate, Variable
<1>1. NodesTyped'
  BY <1>0 DEF NodesTyped
<1>2. Registration'
  BY <1>0 DEF Registration, Started
<1>3. Phases'
  BY DEF Phases, Activate, drawing
<1>4. MembersFollow'
  <2> SUFFICES ASSUME NEW r \in DOMAIN member', (r.name \in InflationParams => Follows(r))'
               PROVE  member'[r] = (IF r.name = Verbose \/ (r.name \in heard /\ Follows(r))
                                    THEN Meaning(r.name, node[r.name])
                                    ELSE Initially(r.name, atConfigure))'
    BY DEF MembersFollow
  <2>1. v.name = Verbose /\ Verbose # CostWeight
    BY DEF Variable, Verbose, CostWeight
  <2>2. CASE r = v
    BY <1>0, <2>1, <2>2 DEF Meaning
  <2>3. CASE r # v
    <3>1. r \in DOMAIN member /\ member'[r] = member[r]
      BY <1>0, <2>3
    <3>2. r.name # Verbose
      BY <1>0, <2>3, <3>1, VerboseApart DEF Registration, NodesTyped, Kept, Started
    <3>3. Follows(r)' <=> Follows(r)
      BY <1>0, <2>1, <3>2 DEF Follows
    <3>4. QED
      BY <1>0, <3>1, <3>2, <3>3 DEF MembersFollow
  <2>4. QED
    BY <2>2, <2>3
<1>5. Markerless' /\ MarkersOfOneCall'
  BY DEF Markerless, MarkersOfOneCall, Activate, drawing
<1>6. QED
  BY <1>1, <1>2, <1>3, <1>4, <1>5

\* A step that leaves parameters and variables alone, or forgets the variables.
LEMMA OthersKeep ==
  ASSUME LifeInv, ConfigureThrows \/ Deactivate \/ Cleanup \/ UNCHANGED vars
  PROVE  LifeInv'
<1> USE DEF LifeInv
<1>1. CASE Cleanup
  <2>1. NodesTyped'
    BY <1>1 DEF NodesTyped, Cleanup
  <2>2. Registration'
    BY <1>1 DEF Registration, Cleanup
  <2>3. Phases'
    BY <1>1 DEF Phases, Cleanup
  <2>4. MembersFollow'
    BY <1>1 DEF MembersFollow, Cleanup, Nothing
  <2>5. Markerless' /\ MarkersOfOneCall'
    BY <1>1 DEF Markerless, MarkersOfOneCall, Cleanup
  <2>6. QED
    BY <2>1, <2>2, <2>3, <2>4, <2>5
<1>2. CASE ConfigureThrows \/ Deactivate \/ UNCHANGED vars
  <2>1. /\ node' = node /\ member' = member /\ callbacks' = callbacks /\ registered' = registered
        /\ atConfigure' = atConfigure /\ heard' = heard /\ changes' = changes /\ calls' = calls
        /\ marker_id' = marker_id /\ points' = points /\ published' = published
        /\ phase' \in {phase, "inactive"} /\ (phase = "unconfigured" <=> phase' = "unconfigured")
        /\ outcome' \in {outcome, "threw"}
    BY <1>2 DEF ConfigureThrows, Deactivate, vars, drawing
  <2>2. NodesTyped'
    BY <2>1 DEF NodesTyped
  <2>3. Registration'
    BY <2>1 DEF Registration, Started
  <2>4. Phases'
    BY <2>1 DEF Phases
  <2>5. MembersFollow'
    <3>1. \A r : Follows(r)' <=> Follows(r)
      BY <2>1 DEF Follows
    <3>2. QED
      BY <2>1, <3>1 DEF MembersFollow
  <2>6. Markerless' /\ MarkersOfOneCall'
    BY <2>1 DEF Markerless, MarkersOfOneCall
  <2>7. QED
    BY <2>2, <2>3, <2>4, <2>5, <2>6
<1>3. QED
  BY <1>1, <1>2

LEMMA SetParametersKeeps ==
  ASSUME LifeInv, NEW b \in Batches, SetParameters(b)
  PROVE  LifeInv'
<1> USE DEF LifeInv
<1>0. /\ node' = [x \in DOMAIN node |-> IF x \in DOMAIN b THEN b[x] ELSE node[x]]
      /\ IF registered THEN member' = Written(b) /\ heard' = heard \cup DOMAIN b
                       ELSE member' = member /\ heard' = heard
      /\ callbacks' = callbacks /\ registered' = registered /\ atConfigure' = atConfigure
      /\ phase' = phase /\ outcome' = outcome /\ calls' = calls
      /\ marker_id' = marker_id /\ points' = points /\ published' = published
      /\ changes < MaxChanges /\ changes' = changes + 1
  BY DEF SetParameters, drawing
<1>1. NodesTyped'
  <2>1. DOMAIN node' = DOMAIN node /\ \A x \in DOMAIN node : node'[x] \in {b[x], node[x]}
                                      /\ (x \notin DOMAIN b => node'[x] = node[x])
    BY <1>0
  <2>2. WellTyped(b)
    BY LifecycleAssumption
  <2>3. WellTyped(node')
    BY <2>1, <2>2 DEF NodesTyped, IsNode, WellTyped
  <2>4. QED
    BY <1>0, <2>1, <2>3 DEF NodesTyped, IsNode
<1>2. DOMAIN member' = DOMAIN member
  BY <1>0 DEF Written
<1>3. Registration'
  <2>1. CASE phase = "unconfigured"
    BY <1>0, <2>1 DEF Registration
  <2>2. CASE phase # "unconfigured"
    BY <1>0, <1>2, <2>2 DEF Registration, Started
  <2>3. QED
    BY <2>1, <2>2
<1>4. Phases'
  <2>1. DOMAIN node' = DOMAIN node /\ heard' \subseteq DOMAIN node
    BY <1>0 DEF NodesTyped, Phases
  <2>2. registered => phase # "unconfigured"
    BY DEF Registration
  <2>3. changes' \in 0..MaxChanges
    BY <1>0, LifecycleAssumption DEF Phases
  <2>4. QED
    BY <1>0, <2>1, <2>2, <2>3 DEF Phases
<1>5. MembersFollow'
  <2>0. \A r : Follows(r)' <=> Follows(r)
    BY <1>2 DEF Follows
  <2> SUFFICES ASSUME NEW r \in DOMAIN member, r.name \in InflationParams => Follows(r)
               PROVE  member'[r] = IF r.name = Verbose \/ (r.name \in heard' /\ Follows(r))
                                   THEN Meaning(r.name, node'[r.name])
                                   ELSE Initially(r.name, atConfigure)
    BY <1>0, <1>2, <2>0 DEF MembersFollow
  <2>1. /\ phase # "unconfigured" /\ r.name \in DOMAIN node /\ r.name \in DOMAIN callbacks
        /\ (Follows(r) <=> callbacks[r.name] = r)
    BY MemberNamed, FollowsIsRegistered
  <2>2. member[r] = IF r.name = Verbose \/ (r.name \in heard /\ Follows(r))
                    THEN Meaning(r.name, node[r.name]) ELSE Initially(r.name, atConfigure)
    BY DEF MembersFollow
  <2>3. r.name = Verbose => registered /\ callbacks[r.name] = r
    <3>1. SUFFICES ASSUME r.name = Verbose PROVE registered /\ callbacks[r.name] = r
      OBVIOUS
    <3>2. r = Variable(Verbose, 0) /\ registered
      BY <2>1, <3>1, VerboseApart DEF Registration, NodesTyped, Kept, Started
    <3>3. QED
      BY <2>1, <3>1, <3>2 DEF Registration
  <2>4. CASE ~registered
    <3>1. heard' = {} /\ member'[r] = member[r] /\ r.name # Verbose
      BY <1>0, <2>1, <2>3, <2>4 DEF Phases
    <3>2. QED
      BY <1>0, <2>2, <2>4, <3>1
  <2>5. CASE registered /\ r.name \in DOMAIN b /\ callbacks[r.name] = r
    <3>1. member'[r] = Meaning(r.name, b[r.name]) /\ r.name \in heard'
      BY <1>0, <2>1, <2>5 DEF Written
    <3>2. node'[r.name] = b[r.name]
      BY <1>0, <2>1, <2>5
    <3>3. QED
      BY <2>1, <2>5, <3>1, <3>2
  <2>6. CASE registered /\ ~(r.name \in DOMAIN b /\ callbacks[r.name] = r)
    <3>1. member'[r] = member[r]
      BY <1>0, <2>6 DEF Written
    <3>2. CASE callbacks[r.name] = r
      <4>1. /\ r.name \notin DOMAIN b /\ node'[r.name] = node[r.name]
            /\ (r.name \in heard' <=> r.name \in heard)
        BY <1>0, <2>1, <2>6, <3>2
      <4>2. QED
        BY <2>2, <3>1, <4>1
    <3>3. CASE callbacks[r.name] # r
      BY <2>1, <2>2, <2>3, <3>1, <3>3
    <3>4. QED
      BY <3>2, <3>3
  <2>7. QED
    BY <2>4, <2>5, <2>6
<1>6. Markerless' /\ MarkersOfOneCall'
  BY <1>0 DEF Markerless, MarkersOfOneCall
<1>7. QED
  BY <1>1, <1>3, <1>4, <1>5, <1>6

\* What a critic reads again belongs to it: the variables keep to what follows them.
LEMMA CallKeepsMembers ==
  ASSUME LifeInv, NEW subscribed, NEW critics, ComputeVelocityCommands(subscribed, critics)
  PROVE  MembersFollow' /\ DOMAIN member' = DOMAIN member /\ heard' \subseteq DOMAIN node
<1> USE DEF LifeInv
<1> DEFINE read == {Variable(x, j) : x \in InflationParams, j \in critics}
<1>0. /\ phase # "unconfigured" /\ critics \in SUBSET Refreshing
      /\ node' = node /\ callbacks' = callbacks /\ atConfigure' = atConfigure
  BY DEF ComputeVelocityCommands
<1>1. CASE critics = {}
  <2>1. member' = member /\ heard' = heard
    BY <1>1 DEF ComputeVelocityCommands
  <2>2. \A r : Follows(r)' <=> Follows(r)
    BY <2>1 DEF Follows
  <2>3. QED
    BY <1>0, <2>1, <2>2 DEF MembersFollow, Phases
<1>2. CASE critics # {}
  <2>1. /\ member' = [r \in DOMAIN member |-> IF r \in read THEN node[r.name] ELSE member[r]]
        /\ heard' = heard \cup {x \in InflationParams : callbacks[x] \in read}
    BY <1>2 DEF ComputeVelocityCommands, ReadAgain
  <2> HIDE DEF read
  <2>2. DOMAIN member' = DOMAIN member
    BY <2>1
  <2>3. \A r : Follows(r)' <=> Follows(r)
    BY <2>2 DEF Follows
  <2>4. InflationParams \subseteq Declared
    <3>1. CriticParams["ObstaclesCritic"] = ObstaclesParams /\ "ObstaclesCritic" \in DOMAIN CriticParams
      BY DEF CriticParams
    <3>2. InflationParams \subseteq Names("ObstaclesCritic", CriticParams["ObstaclesCritic"])
      BY <3>1 DEF InflationParams, ObstaclesParams, Names
    <3>3. QED
      BY <3>1, <3>2 DEF Declared
  <2>5. heard' \subseteq DOMAIN node
    BY <2>1, <2>4 DEF Phases, NodesTyped, IsNode
  <2>6. ASSUME NEW r \in DOMAIN member, r.name \in InflationParams => Follows(r)
        PROVE  member'[r] = IF r.name = Verbose \/ (r.name \in heard' /\ Follows(r))
                            THEN Meaning(r.name, node[r.name])
                            ELSE Initially(r.name, atConfigure)
    <3>1. Follows(r) <=> callbacks[r.name] = r
      BY <1>0, FollowsIsRegistered
    <3>2. member[r] = IF r.name = Verbose \/ (r.name \in heard /\ Follows(r))
                      THEN Meaning(r.name, node[r.name]) ELSE Initially(r.name, atConfigure)
      BY <2>6 DEF MembersFollow
    <3>3. r \in read => r.name \in InflationParams
      BY DEF read, Variable
    <3>4. \A x \in InflationParams : x # CostWeight
      BY DEF InflationParams, Names, CostWeight
    <3>5. CASE r \in read
      <4>1. r.name \in InflationParams /\ callbacks[r.name] = r
        BY <2>6, <3>1, <3>3, <3>5
      <4>2. r.name \in heard' /\ Follows(r) /\ member'[r] = node[r.name]
        BY <2>1, <3>1, <3>5, <4>1
      <4>3. QED
        BY <3>4, <4>1, <4>2 DEF Meaning
    <3>6. CASE r \notin read
      <4>1. member'[r] = member[r]
        BY <2>1, <3>6
      <4>2. Follows(r) => (r.name \in heard' <=> r.name \in heard)
        BY <2>1, <3>1, <3>6
      <4>3. QED
        BY <3>2, <4>1, <4>2
    <3>7. QED
      BY <3>5, <3>6
  <2>7. MembersFollow'
    BY <1>0, <2>2, <2>3, <2>6 DEF MembersFollow
  <2>8. QED
    BY <2>2, <2>5, <2>7
<1>3. QED
  BY <1>1, <1>2

LEMMA CallKeeps ==
  ASSUME LifeInv, NEW subscribed, NEW critics, ComputeVelocityCommands(subscribed, critics)
  PROVE  LifeInv'
<1> USE DEF LifeInv
<1>0. /\ phase = "active" /\ calls < MaxCalls /\ calls' = calls + 1
      /\ node' = node /\ callbacks' = callbacks /\ atConfigure' = atConfigure
      /\ registered' = registered /\ phase' = phase /\ outcome' = outcome /\ changes' = changes
  BY DEF ComputeVelocityCommands
<1>1. MembersFollow' /\ DOMAIN member' = DOMAIN member /\ heard' \subseteq DOMAIN node
  BY CallKeepsMembers
<1>2. NodesTyped'
  BY <1>0 DEF NodesTyped
<1>3. Registration'
  BY <1>0, <1>1 DEF Registration, Started
<1>4. Phases'
  <2>1. calls' \in 0..MaxCalls
    BY <1>0, LifecycleAssumption DEF Phases
  <2>2. registered
    BY <1>0 DEF Phases
  <2>3. QED
    BY <1>0, <1>1, <2>1, <2>2 DEF Phases
<1>5. Markerless' /\ MarkersOfOneCall'
  <2>1. CASE Visualize(subscribed)
    <3>1. /\ Added \in MarkerSeqs
          /\ \A k \in DOMAIN Added : Added[k].id = k - 1 /\ Added[k].call = calls + 1
      BY <1>0, AddedSound
    <3>2. marker_id' = 0 /\ points' = <<>> /\ published' \in {Added, published}
      BY <2>1 DEF Visualize
    <3>3. Markerless'
      BY <3>1, <3>2 DEF Markerless
    <3>4. ASSUME published' = Added PROVE MarkersOfOneCall'
      <4>1. \A k \in DOMAIN Added : 1 \in DOMAIN Added
        BY <3>1 DEF MarkerSeqs
      <4>2. QED
        BY <3>1, <3>4, <4>1 DEF MarkersOfOneCall
    <3>5. ASSUME published' = published PROVE MarkersOfOneCall'
      BY <3>5 DEF MarkersOfOneCall
    <3>6. QED
      BY <3>2, <3>3, <3>4, <3>5
  <2>2. CASE marker_id' = marker_id /\ points' = points /\ published' = published
    BY <2>2 DEF Markerless, MarkersOfOneCall
  <2>3. QED
    BY <2>1, <2>2 DEF ComputeVelocityCommands
<1>6. QED
  BY <1>1, <1>2, <1>3, <1>4, <1>5

\* The invariant holds whatever transitions, requests and calls there are.
THEOREM LifeInvariant == Spec => []LifeInv
<1>1. ASSUME LifeInv, [Next]_vars PROVE LifeInv'
  BY <1>1, ConfigureKeeps, ActivateKeeps, OthersKeep, SetParametersKeeps, CallKeeps DEF Next
<1>2. QED
  BY <1>1, LifeInit, PTL DEF Spec

\* Types: while unconfigured nothing is registered, an active plugin hears requests, and
\* nothing reaches it that the node does not have.
THEOREM LifeTypeCorrect == Spec => []TypeOK
<1>1. LifeInv => TypeOK
  <2> SUFFICES ASSUME LifeInv PROVE TypeOK
    OBVIOUS
  <2>1. (phase = "unconfigured") = (callbacks = Nothing)
    <3>1. ASSUME phase # "unconfigured" PROVE callbacks # Nothing
      <4>1. [name |-> Own("motion_model"), owner |-> 0, local |-> TRUE] \in Requests(atConfigure)
        BY DEF Requests, Variables
      <4>2. Own("motion_model") \in DOMAIN callbacks
        BY <3>1, <4>1 DEF LifeInv, Registration, Parameters
      <4>3. QED
        BY <4>2 DEF Nothing
    <3>2. QED
      BY <3>1 DEF LifeInv, Registration
  <2>2. QED
    BY <2>1 DEF LifeInv, Registration, Phases, Markerless, TypeOK
<1>2. QED
  BY <1>1, LifeInvariant, PTL

\* Whatever the sequence of transitions, requests and calls, a member follows the node
\* exactly if it is the one registered for its name and that was heard of.
THEOREM MembersAlwaysFollow == Spec => []MembersFollow
  BY LifeInvariant, PTL DEF LifeInv

\* No change is lost in a local variable that is gone but for the two parameters nobody
\* else reads, whatever critics are listed and how often.
THEOREM TargetsAlwaysLive == Spec => []TargetsLive
<1>1. LifeInv => TargetsLive
  BY TargetsLiveHere DEF LifeInv
<1>2. QED
  BY <1>1, LifeInvariant, PTL

\* The markers published are those of one call, numbered from 0, for rollouts of any
\* shape and any steps of the visualizer.
THEOREM MarkersFromOneCall == Spec => []MarkersOfOneCall
  BY LifeInvariant, PTL DEF LifeInv
===============================================================================
