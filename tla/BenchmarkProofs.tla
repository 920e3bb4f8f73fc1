----------------------------- MODULE BenchmarkProofs -----------------------------
(***************************************************************************)
(* The bookkeeping of the test cases, for all lists of cases of any length *)
(* and any number of replaced requests (without MaxChanges the module has  *)
(* no other bound).  The composition does not let the orchestrator do      *)
(* anything it could not do alone, so what is proved of Orchestrator holds *)
(* of the whole run; on it rests in which order a run comes down.          *)
(***************************************************************************)
EXTENDS Benchmark, SequenceTheorems, TLAPS

----------------------------------------------------------------------------
(* The orchestrator.                                                        *)

\* A request that is not rejected is a list of cases.
LEMMA RequestIsList ==
  ASSUME NEW t \in Tests, NEW c \in {"none", "valid", "malformed"}, ~Rejected(t, c)
  PROVE  Requested(t, c) \in Seq(CaseIds)
<1>1. CASE c = "valid"
  <2>1. <<Custom>> \in Seq(CaseIds)
    BY OrchestratorAssumption
  <2>2. QED
    BY <1>1, <2>1 DEF Requested
<1>2. CASE c = "none"
  BY <1>2, OrchestratorAssumption DEF Requested, Rejected
<1>3. QED
  BY <1>1, <1>2 DEF Rejected

\* A list is its head and its tail.
LEMMA HeadAndTail ==
  ASSUME NEW q \in Seq(CaseIds), q # <<>>
  PROVE  /\ Head(q) \in CaseIds /\ Tail(q) \in Seq(CaseIds)
         /\ <<Head(q)>> \o Tail(q) = q
<1>1. /\ Head(q) \in CaseIds /\ Tail(q) \in Seq(CaseIds)
      /\ Len(Tail(q)) = Len(q) - 1
      /\ \A i \in 1..Len(Tail(q)) : Tail(q)[i] = q[i + 1]
  BY HeadTailProperties
<1>2. <<Head(q)>> \in Seq(CaseIds) /\ Len(<<Head(q)>>) = 1 /\ <<Head(q)>>[1] = Head(q)
  BY <1>1
<1>3. Len(q) \in Nat \ {0} /\ Head(q) = q[1]
  BY EmptySeq
<1>4. /\ <<Head(q)>> \o Tail(q) \in Seq(CaseIds)
      /\ Len(<<Head(q)>> \o Tail(q)) = Len(q)
      /\ \A i \in 1..Len(q) : (<<Head(q)>> \o Tail(q))[i] =
                                 IF i <= 1 THEN Head(q) ELSE Tail(q)[i - 1]
  <2>1. /\ <<Head(q)>> \o Tail(q) \in Seq(CaseIds)
        /\ Len(<<Head(q)>> \o Tail(q)) = Len(<<Head(q)>>) + Len(Tail(q))
        /\ \A i \in 1..(Len(<<Head(q)>>) + Len(Tail(q))) :
              (<<Head(q)>> \o Tail(q))[i] =
                 IF i <= Len(<<Head(q)>>) THEN <<Head(q)>>[i]
                 ELSE Tail(q)[i - Len(<<Head(q)>>)]
    BY <1>1, <1>2, ConcatProperties
  <2>2. Len(<<Head(q)>>) + Len(Tail(q)) = Len(q)
    BY <1>1, <1>2, <1>3
  <2>3. ASSUME NEW i \in 1..Len(q)
        PROVE  (<<Head(q)>> \o Tail(q))[i] = IF i <= 1 THEN Head(q) ELSE Tail(q)[i - 1]
    <3>1. CASE i <= 1
      BY <1>2, <1>3, <2>1, <2>2, <3>1
    <3>2. CASE ~(i <= 1)
      BY <1>2, <1>3, <2>1, <2>2, <3>2
    <3>3. QED
      BY <3>1, <3>2
  <2>4. QED
    BY <2>1, <2>2, <2>3
<1>5. ASSUME NEW i \in 1..Len(q)
      PROVE  (<<Head(q)>> \o Tail(q))[i] = q[i]
  <2>1. CASE i = 1
    BY <1>3, <1>4, <2>1
  <2>2. CASE i # 1
    <3>1. i - 1 \in 1..Len(Tail(q)) /\ (i - 1) + 1 = i /\ ~(i <= 1)
      BY <1>1, <1>3, <2>2
    <3>2. QED
      BY <1>1, <1>4, <3>1
  <2>3. QED
    BY <2>1, <2>2
<1>6. QED
  BY <1>1, <1>4, <1>5, SeqEqual

\* Moving the running case to the completed ones and the next one out of the
\* queue leaves the concatenation as it is.
LEMMA NextCaseAccounted ==
  ASSUME NEW d \in Seq(CaseIds), NEW r \in CaseIds, NEW q \in Seq(CaseIds)
  PROVE  /\ Append(d, r) \in Seq(CaseIds)
         /\ q # <<>> => Append(d, r) \o <<Head(q)>> \o Tail(q) = d \o <<r>> \o q
         /\ q = <<>> => Append(d, r) \o <<>> \o <<>> = d \o <<r>> \o q
<1>1. <<r>> \in Seq(CaseIds) /\ <<>> \in Seq(CaseIds)
  OBVIOUS
<1>2. Append(d, r) = d \o <<r>> /\ d \o <<r>> \in Seq(CaseIds)
  BY <1>1, AppendIsConcat, ConcatProperties
<1>3. ASSUME q # <<>>
      PROVE  (d \o <<r>>) \o <<Head(q)>> \o Tail(q) = d \o <<r>> \o q
  <2>1. <<Head(q)>> \in Seq(CaseIds) /\ Tail(q) \in Seq(CaseIds)
    BY <1>3, HeadAndTail
  <2>2. ((d \o <<r>>) \o <<Head(q)>>) \o Tail(q) = (d \o <<r>>) \o (<<Head(q)>> \o Tail(q))
    BY <1>2, <2>1, ConcatAssociative
  <2>3. QED
    BY <1>3, <2>2, HeadAndTail
<1>4. ASSUME q = <<>>
      PROVE  (d \o <<r>>) \o <<>> \o <<>> = d \o <<r>> \o q
  BY <1>1, <1>2, <1>4, ConcatEmptySeq
<1>5. QED
  BY <1>2, <1>3, <1>4

\* Before the process is started nothing has happened.
LEMMA OrchestratorInit == Init => OrchestratorInv
<1> SUFFICES ASSUME Init
             PROVE  OrchestratorInv
  OBVIOUS
<1>1. /\ queue = <<>> /\ completed = <<>> /\ case = None
      /\ finished = FALSE /\ failed = FALSE /\ late = FALSE
      /\ process = "unborn" /\ shutdown = "none"
      /\ tests \in Tests /\ custom \in {"none", "valid", "malformed"}
  BY DEF Init
<1>2. Typed
  <2>1. queue \in Seq(CaseIds) /\ completed \in Seq(CaseIds)
    BY <1>1, EmptySeq
  <2>2. finished \in BOOLEAN /\ failed \in BOOLEAN /\ late \in BOOLEAN
    BY <1>1
  <2>3. case \in CaseIds \cup {None}
    BY <1>1
  <2>4. QED
    BY <1>1, <2>1, <2>2, <2>3, Zenon DEF Typed
<1>3. EndingSound
  BY <1>1 DEF EndingSound
<1>4. CasesAccounted
  BY <1>1 DEF CasesAccounted
<1>5. QED
  BY <1>2, <1>3, <1>4 DEF OrchestratorInv

\* _initialize_case_queue establishes the invariant for the request it is given,
\* in whatever state the node is.
LEMMA InitializeSound ==
  ASSUME OrchestratorInv, process \in {"starting", "running"},
         NEW t \in Tests, NEW c \in {"none", "valid", "malformed"},
         InitializeQueue(t, c), tests' = t, custom' = c
  PROVE  OrchestratorInv'
<1> USE DEF OrchestratorInv, Typed, EndingSound
<1>1. CASE Rejected(t, c) /\ FailAndShutdown
  <2>1. Typed'
    BY <1>1 DEF FailAndShutdown, mission
  <2>2. EndingSound' /\ CasesAccounted'
    BY <1>1 DEF FailAndShutdown, CasesAccounted
  <2>3. QED
    BY <2>1, <2>2
<1>2. ASSUME ~Rejected(t, c), process' = "running", late' = (late \/ finished),
             failed' = failed, Requested(t, c) # <<>>, BeginCase(Requested(t, c), <<>>)
      PROVE  OrchestratorInv'
  <2> DEFINE q == Requested(t, c)
  <2>1. q \in Seq(CaseIds)
    BY <1>2, RequestIsList
  <2>2. /\ queue' = Tail(q) /\ case' = Head(q) /\ completed' = <<>>
        /\ finished' = FALSE /\ shutdown' = shutdown
    BY <1>2 DEF BeginCase
  <2>3. Head(q) \in CaseIds /\ Tail(q) \in Seq(CaseIds) /\ <<Head(q)>> \o Tail(q) = q
    BY <1>2, <2>1, HeadAndTail
  <2>4. Typed'
    BY <1>2, <2>2, <2>3, EmptySeq
  <2>5. EndingSound'
    BY <1>2, <2>2
  <2>6. <<>> \o <<Head(q)>> \o Tail(q) = q
    BY <2>3, ConcatEmptySeq
  <2>7. Running' = <<Head(q)>>
    BY <2>2, <2>3, OrchestratorAssumption DEF Running
  <2>8. CasesAccounted'
    BY <2>2, <2>6, <2>7 DEF CasesAccounted
  <2>9. QED
    BY <2>4, <2>5, <2>8
<1>3. ASSUME ~Rejected(t, c), process' = "running", late' = (late \/ finished),
             failed' = failed, Requested(t, c) = <<>>, FinishSequence(<<>>), case' = None
      PROVE  OrchestratorInv'
  <2>1. queue' = <<>> /\ completed' = <<>> /\ finished' = TRUE
    BY <1>3 DEF FinishSequence
  <2>2. Typed' /\ EndingSound'
    BY <1>3, <2>1
  <2>3. Running' = <<>>
    BY <2>1 DEF Running
  <2>4. CasesAccounted'
    BY <1>3, <2>1, <2>3 DEF CasesAccounted
  <2>5. QED
    BY <2>2, <2>4
<1>4. QED
  BY <1>1, <1>2, <1>3 DEF InitializeQueue

\* The end of a case moves it to the completed ones, and starts the next or none.
LEMMA CaseEndsSound ==
  ASSUME OrchestratorInv, NEW where \in Places, CaseEnds(where)
  PROVE  OrchestratorInv'
<1> USE DEF OrchestratorInv, Typed, EndingSound
<1>1. /\ process = "running" /\ ~finished /\ case \in CaseIds /\ ~failed
      /\ tests' = tests /\ custom' = custom /\ process' = process /\ failed' = failed
      /\ late' = late
  BY DEF CaseEnds, Ticking, parameters
<1>2. Requested(tests, custom) = completed \o <<case>> \o queue
  BY <1>1, OrchestratorAssumption DEF CasesAccounted, Running
<1>3. CASE queue # <<>> /\ BeginCase(queue, Append(completed, case))
  <2>1. /\ queue' = Tail(queue) /\ case' = Head(queue) /\ completed' = Append(completed, case)
        /\ finished' = FALSE /\ shutdown' = shutdown
    BY <1>3 DEF BeginCase
  <2>2. Head(queue) \in CaseIds /\ Tail(queue) \in Seq(CaseIds)
    BY <1>3, HeadAndTail
  <2>3. /\ Append(completed, case) \in Seq(CaseIds)
        /\ Append(completed, case) \o <<Head(queue)>> \o Tail(queue)
             = completed \o <<case>> \o queue
    BY <1>1, <1>3, NextCaseAccounted
  <2>4. Typed' /\ EndingSound'
    BY <1>1, <2>1, <2>2, <2>3
  <2>5. Running' = <<Head(queue)>>
    BY <2>1, <2>2, OrchestratorAssumption DEF Running
  <2>6. CasesAccounted'
    BY <1>1, <1>2, <2>1, <2>3, <2>5 DEF CasesAccounted
  <2>7. QED
    BY <2>4, <2>6
<1>4. CASE queue = <<>> /\ FinishSequence(Append(completed, case)) /\ case' = case
  <2>1. /\ queue' = <<>> /\ completed' = Append(completed, case) /\ finished' = TRUE
        /\ case' = case
    BY <1>4 DEF FinishSequence
  <2>2. /\ Append(completed, case) \in Seq(CaseIds)
        /\ Append(completed, case) \o <<>> \o <<>> = completed \o <<case>> \o queue
    BY <1>1, <1>4, NextCaseAccounted
  <2>3. Typed' /\ EndingSound'
    BY <1>1, <2>1, <2>2
  <2>4. Running' = <<>>
    BY <2>1 DEF Running
  <2>5. CasesAccounted'
    BY <1>1, <1>2, <2>1, <2>2, <2>4 DEF CasesAccounted
  <2>6. QED
    BY <2>3, <2>5
<1>5. QED
  BY <1>3, <1>4 DEF CaseEnds

\* Every callback preserves the invariant.
LEMMA CallbackStep == OrchestratorInv /\ [Next]_orchestratorVars => OrchestratorInv'
<1> SUFFICES ASSUME OrchestratorInv, [Next]_orchestratorVars
             PROVE  OrchestratorInv'
  OBVIOUS
<1> DEFINE Kept == UNCHANGED <<tests, custom, queue, case, completed, finished, failed, late>>
<1>a. ASSUME Kept, UNCHANGED <<process, shutdown>>
      PROVE  OrchestratorInv'
  BY <1>a DEF OrchestratorInv, Typed, EndingSound, CasesAccounted, Running
<1>1. CASE Launched
  BY <1>1 DEF Launched, parameters, mission, OrchestratorInv, Typed, EndingSound, CasesAccounted
<1>2. CASE Construct
  <2>1. /\ process = "starting" /\ InitializeQueue(tests, custom)
        /\ tests' = tests /\ custom' = custom
    BY <1>2 DEF Construct, parameters
  <2>2. tests \in Tests /\ custom \in {"none", "valid", "malformed"}
    BY DEF OrchestratorInv, Typed
  <2>3. QED
    BY <2>1, <2>2, InitializeSound
<1>3. ASSUME NEW t \in Tests, NEW c \in {"none", "valid", "malformed"}, SetRequest(t, c)
      PROVE  OrchestratorInv'
  <2>1. process = "running" /\ InitializeQueue(t, c) /\ tests' = t /\ custom' = c
    BY <1>3 DEF SetRequest
  <2>2. QED
    BY <2>1, InitializeSound
<1>4. CASE \E s \in Timeouts : SetGlobalTimeout(s)
  BY <1>4, <1>a DEF SetGlobalTimeout, mission, ending
<1>5. CASE SetPublishRate
  BY <1>5, <1>a DEF SetPublishRate, parameters, mission
<1>6. CASE \E c \in {"stop", "drive"} : CmdCallback(c)
  BY <1>6, <1>a DEF CmdCallback, parameters, ending
<1>7. CASE \E where \in Places : CaseGoesOn(where)
  BY <1>7, <1>a DEF CaseGoesOn, parameters, ending
<1>8. CASE \E where \in Places : CaseEnds(where)
  BY <1>8, CaseEndsSound
<1>9. CASE ShutdownCallback
  <2>1. /\ Kept /\ process' = process /\ process = "running" /\ shutdown = "armed"
    BY <1>9 DEF ShutdownCallback, parameters, mission
  <2>2. QED
    BY <2>1 DEF OrchestratorInv, Typed, EndingSound, CasesAccounted, Running
<1>10. CASE ShutdownThread
  <2>1. /\ Kept /\ process' = "down" /\ process = "running" /\ shutdown' = shutdown
        /\ shutdown = "called"
    BY <1>10 DEF ShutdownThread, parameters, mission
  <2>2. QED
    BY <2>1 DEF OrchestratorInv, Typed, EndingSound, CasesAccounted, Running
<1>11. CASE UNCHANGED orchestratorVars
  BY <1>11, <1>a DEF orchestratorVars, parameters, mission, ending
<1>12. QED
  BY <1>1, <1>2, <1>3, <1>4, <1>5, <1>6, <1>7, <1>8, <1>9, <1>10, <1>11
     DEF Next, SetParameters, RunCase, Tick

\* The invariant holds throughout.
THEOREM OrchestratorInvariant == Spec => []OrchestratorInv
  BY OrchestratorInit, CallbackStep, PTL DEF Spec

\* Whatever is requested and however often the request is replaced, the completed
\* cases, the running one and those left are the request, in its order.
THEOREM CasesNeverLost == Spec => []CasesAccounted
<1>1. OrchestratorInv => CasesAccounted
  BY DEF OrchestratorInv
<1>2. QED
  BY <1>1, OrchestratorInvariant, PTL

\* A process that ends on its own has completed every case it was asked for.
THEOREM RequestsServed == Spec => []RequestServed
<1>1. OrchestratorInv => RequestServed
  <2> SUFFICES ASSUME OrchestratorInv, process = "down", ~failed, ~late
               PROVE  finished /\ completed = Requested(tests, custom)
    BY DEF RequestServed
  <2>1. finished /\ queue = <<>> /\ completed \in Seq(CaseIds)
    BY DEF OrchestratorInv, EndingSound, Typed
  <2>2. Requested(tests, custom) = completed \o <<>> \o <<>>
    BY <2>1 DEF OrchestratorInv, CasesAccounted, Running
  <2>3. QED
    BY <2>1, <2>2, ConcatEmptySeq
<1>2. QED
  BY <1>1, OrchestratorInvariant, PTL

----------------------------------------------------------------------------
\* The limits a case may be given; while one runs, some limit is still ahead,
\* whatever global_timeout_s has been lowered to.
Limits == Timeouts \cup {Duration[c] : c \in CaseIds}
LimitAhead == case # None /\ ~finished => \E s \in Limits : elapsed < s
TypeInv == TypeOK /\ LimitAhead

\* The start of a case: its own duration is ahead.
LEMMA BeginCaseTyped ==
  ASSUME TypeInv, NEW q \in Seq(CaseIds), q # <<>>, NEW done \in Seq(CaseIds),
         BeginCase(q, done), odom' = odom
  PROVE  /\ queue' \in Seq(CaseIds) /\ completed' \in Seq(CaseIds) /\ case' \in CaseIds \cup {None}
         /\ elapsed' \in Nat /\ (\E s \in Limits : elapsed' < s) /\ (\E s \in Limits : elapsed' <= s)
         /\ at' \in Places /\ cmd' \in {"stop", "drive"}
         /\ shifted' \in BOOLEAN /\ finished' \in BOOLEAN /\ timer' \in BOOLEAN
         /\ shutdown' \in {"none", "armed", "called"}
         /\ n' \in Nat /\ odom' \in 0..n' /\ latched' \in (CaseIds \X BOOLEAN) \cup {None}
<1>1. /\ queue' = Tail(q) /\ case' = Head(q) /\ completed' = done /\ n' = n + 1
      /\ latched' = <<Head(q), FALSE>> /\ at' = "way" /\ cmd' = "stop" /\ shifted' = FALSE
      /\ elapsed' = 0 /\ finished' = FALSE /\ timer' = timer /\ shutdown' = shutdown
  BY DEF BeginCase
<1>2. Head(q) \in CaseIds /\ Tail(q) \in Seq(CaseIds)
  BY HeadAndTail
<1>3. /\ timer \in BOOLEAN /\ shutdown \in {"none", "armed", "called"}
      /\ n \in Nat /\ odom \in 0..n
  BY DEF TypeInv, TypeOK
<1>4. \E s \in Limits : elapsed' < s /\ elapsed' <= s
  <2>1. Duration[Head(q)] \in Nat \ {0} /\ Duration[Head(q)] \in Limits
    BY <1>2, OrchestratorAssumption DEF Limits
  <2>2. \A d \in Nat \ {0} : 0 < d /\ 0 <= d
    OBVIOUS
  <2>3. QED
    BY <1>1, <2>1, <2>2
<1>5. n' \in Nat /\ odom' \in 0..n'
  BY <1>1, <1>3
<1>6. QED
  BY <1>1, <1>2, <1>3, <1>4, <1>5 DEF Places

\* _initialize_case_queue, whatever it is asked for.
LEMMA InitializeTyped ==
  ASSUME TypeInv, NEW t \in Tests, NEW c \in {"none", "valid", "malformed"},
         InitializeQueue(t, c), tests' = t, custom' = c, globalTimeout' = globalTimeout,
         odom' = odom, changes' \in 0..MaxChanges
  PROVE  TypeInv'
<1> USE DEF TypeInv, TypeOK, LimitAhead, Limits
<1>1. CASE FailAndShutdown
  BY <1>1 DEF FailAndShutdown, mission
<1>2. ASSUME ~Rejected(t, c), process' = "running", late' = (late \/ finished), failed' = failed,
             Requested(t, c) # <<>>, BeginCase(Requested(t, c), <<>>)
      PROVE  TypeInv'
  <2>1. Requested(t, c) \in Seq(CaseIds) /\ <<>> \in Seq(CaseIds)
    BY <1>2, RequestIsList, EmptySeq
  <2>2. /\ queue' \in Seq(CaseIds) /\ completed' \in Seq(CaseIds) /\ case' \in CaseIds \cup {None}
        /\ elapsed' \in Nat /\ (\E s \in Limits : elapsed' < s) /\ (\E s \in Limits : elapsed' <= s)
        /\ at' \in Places /\ cmd' \in {"stop", "drive"}
        /\ shifted' \in BOOLEAN /\ finished' \in BOOLEAN /\ timer' \in BOOLEAN
        /\ shutdown' \in {"none", "armed", "called"}
        /\ n' \in Nat /\ odom' \in 0..n' /\ latched' \in (CaseIds \X BOOLEAN) \cup {None}
    <3> HIDE DEF TypeInv, TypeOK, LimitAhead, Limits
    <3> QED
      BY <1>2, <2>1, BeginCaseTyped
  <2>3. late' \in BOOLEAN /\ failed' \in BOOLEAN
    BY <1>2
  <2>4. QED
    BY <1>2, <2>2, <2>3
<1>3. ASSUME ~Rejected(t, c), process' = "running", late' = (late \/ finished), failed' = failed,
             FinishSequence(<<>>), case' = None, elapsed' = 0, at' = "way", cmd' = "stop",
             shifted' = FALSE, latched' = latched
      PROVE  TypeInv'
  <2>1. /\ queue' = <<>> /\ completed' = <<>> /\ finished' = TRUE /\ timer' = FALSE /\ n' = n
        /\ shutdown' \in {"none", "armed", "called"}
    BY <1>3 DEF FinishSequence
  <2>2. late' \in BOOLEAN /\ failed' \in BOOLEAN
    BY <1>3
  <2>3. \E s \in Limits : elapsed' <= s
    <3>1. Duration[Custom] \in Nat /\ Duration[Custom] \in Limits
      BY OrchestratorAssumption
    <3>2. QED
      BY <1>3, <3>1
  <2>4. QED
    BY <1>3, <2>1, <2>2, <2>3, EmptySeq DEF Places
<1>4. QED
  BY <1>1, <1>2, <1>3 DEF InitializeQueue

\* A call of the timer: if time is not up, a limit is still ahead.
LEMMA TickTyped ==
  ASSUME TypeInv, NEW where \in Places, CaseGoesOn(where) \/ CaseEnds(where)
  PROVE  TypeInv'
<1> USE DEF TypeInv, TypeOK
<1>1. /\ process = "running" /\ ~finished /\ case \in CaseIds /\ case # None
      /\ UNCHANGED <<parameters, process, failed, late, changes>>
  BY DEF CaseGoesOn, CaseEnds, Ticking, ending
<1>2. PICK s \in Limits : elapsed < s
  BY <1>1 DEF LimitAhead
<1>3. Duration[case] \in Nat /\ globalTimeout \in Nat /\ Duration[case] \in Limits
      /\ globalTimeout \in Limits /\ s \in Nat
  BY <1>1, <1>2, OrchestratorAssumption DEF Limits
<1>4. elapsed + 1 \in Nat /\ elapsed + 1 <= s
  BY <1>2, <1>3
<1>5. CASE CaseGoesOn(where)
  <2>1. /\ elapsed' = elapsed + 1 /\ at' = where /\ shifted' \in BOOLEAN /\ odom' = n
        /\ latched' = <<case, TRUE>> \/ latched' = latched
        /\ UNCHANGED <<queue, case, completed, cmd, n, finished, timer, shutdown>>
    BY <1>5 DEF CaseGoesOn, ending, Shifts
  <2>2. \E l \in Limits : elapsed' < l /\ elapsed' <= l
    <3>1. elapsed' < globalTimeout \/ elapsed' < Duration[case]
      BY <1>3, <1>4, <1>5, <2>1 DEF CaseGoesOn, TimeIsUp, Max2
    <3>2. QED
      BY <1>3, <1>4, <2>1, <3>1
  <2>3. /\ (\E l \in Limits : elapsed' < l) /\ (\E l \in Limits : elapsed' <= l)
        /\ elapsed' \in Nat
    BY <1>4, <2>1, <2>2
  <2>4. latched' \in (CaseIds \X BOOLEAN) \cup {None} /\ odom' \in 0..n'
    <3>1. latched \in (CaseIds \X BOOLEAN) \cup {None} /\ n \in Nat
      OBVIOUS
    <3>2. <<case, TRUE>> \in CaseIds \X BOOLEAN
      BY <1>1
    <3>3. n \in 0..n
      BY <3>1
    <3> HIDE DEF TypeInv, TypeOK
    <3>4. QED
      BY <2>1, <3>1, <3>2, <3>3
  <2>5. QED
    BY <1>1, <2>1, <2>3, <2>4 DEF LimitAhead, Limits, parameters
<1>6. ASSUME queue # <<>>, BeginCase(queue, Append(completed, case)), odom' = odom
      PROVE  TypeInv'
  <2>1. Append(completed, case) \in Seq(CaseIds)
    BY <1>1, NextCaseAccounted
  <2>2. /\ queue' \in Seq(CaseIds) /\ completed' \in Seq(CaseIds) /\ case' \in CaseIds \cup {None}
        /\ elapsed' \in Nat /\ (\E l \in Limits : elapsed' < l) /\ (\E l \in Limits : elapsed' <= l)
        /\ at' \in Places /\ cmd' \in {"stop", "drive"}
        /\ shifted' \in BOOLEAN /\ finished' \in BOOLEAN /\ timer' \in BOOLEAN
        /\ shutdown' \in {"none", "armed", "called"}
        /\ n' \in Nat /\ odom' \in 0..n' /\ latched' \in (CaseIds \X BOOLEAN) \cup {None}
    BY <1>6, <2>1, BeginCaseTyped
  <2>3. QED
    BY <1>1, <2>2 DEF LimitAhead, Limits, parameters
<1>7. ASSUME queue = <<>>, FinishSequence(Append(completed, case)), elapsed' = elapsed + 1,
             at' = where, shifted' = (shifted \/ Shifts),
             latched' = IF Shifts THEN <<case, TRUE>> ELSE latched,
             UNCHANGED <<case, cmd>>, odom' = odom
      PROVE  TypeInv'
  <2>1. /\ queue' = <<>> /\ completed' = Append(completed, case) /\ finished' = TRUE
        /\ timer' = FALSE /\ n' = n /\ shutdown' \in {"none", "armed", "called"}
    BY <1>7 DEF FinishSequence
  <2>2. Append(completed, case) \in Seq(CaseIds)
    BY <1>1, NextCaseAccounted
  <2>3. shifted' \in BOOLEAN /\ latched' \in (CaseIds \X BOOLEAN) \cup {None}
    BY <1>1, <1>7
  <2>4. QED
    BY <1>1, <1>2, <1>4, <1>7, <2>1, <2>2, <2>3 DEF LimitAhead, Limits, parameters
<1>8. QED
  BY <1>5, <1>6, <1>7 DEF CaseEnds

\* Every callback keeps to the types.
LEMMA TypeStep == TypeInv /\ [Next]_orchestratorVars => TypeInv'
<1> SUFFICES ASSUME TypeInv, [Next]_orchestratorVars
             PROVE  TypeInv'
  OBVIOUS
<1> USE DEF TypeInv, TypeOK, LimitAhead, Limits
<1>1. CASE Launched
  BY <1>1 DEF Launched, parameters, mission
<1>2. CASE Construct
  <2>1. /\ InitializeQueue(tests, custom) /\ tests \in Tests
        /\ custom \in {"none", "valid", "malformed"} /\ tests' = tests /\ custom' = custom
        /\ globalTimeout' = globalTimeout /\ odom' = odom /\ changes' \in 0..MaxChanges
    BY <1>2 DEF Construct, parameters
  <2> HIDE DEF TypeInv, TypeOK, LimitAhead, Limits
  <2>2. QED
    BY <2>1, InitializeTyped
<1>3. ASSUME NEW t \in Tests, NEW c \in {"none", "valid", "malformed"}, SetRequest(t, c)
      PROVE  TypeInv'
  <2>1. /\ InitializeQueue(t, c) /\ tests' = t /\ custom' = c
        /\ globalTimeout' = globalTimeout /\ odom' = odom /\ changes' \in 0..MaxChanges
    BY <1>3, OrchestratorAssumption DEF SetRequest
  <2> HIDE DEF TypeInv, TypeOK, LimitAhead, Limits
  <2>2. QED
    BY <2>1, InitializeTyped
<1>4. CASE \E s \in Timeouts : SetGlobalTimeout(s)
  BY <1>4 DEF SetGlobalTimeout, mission, ending
<1>5. CASE SetPublishRate
  BY <1>5 DEF SetPublishRate, parameters, mission
<1>6. CASE \E c \in {"stop", "drive"} : CmdCallback(c)
  BY <1>6 DEF CmdCallback, parameters, ending
<1>7. CASE \E where \in Places : CaseGoesOn(where) \/ CaseEnds(where)
  <2> HIDE DEF TypeInv, TypeOK, LimitAhead, Limits
  <2> QED
    BY <1>7, TickTyped
<1>8. CASE ShutdownCallback
  BY <1>8 DEF ShutdownCallback, parameters, mission
<1>9. CASE ShutdownThread
  BY <1>9 DEF ShutdownThread, parameters, mission
<1>10. CASE UNCHANGED orchestratorVars
  BY <1>10 DEF orchestratorVars, parameters, mission, ending
<1>11. QED
  BY <1>1, <1>2, <1>3, <1>4, <1>5, <1>6, <1>7, <1>8, <1>9, <1>10
     DEF Next, SetParameters, RunCase, Tick

\* Types, and no case runs for longer than the longest limit there is, however
\* global_timeout_s is changed while it runs.
THEOREM OrchestratorTypeCorrect == Spec => [](TypeOK /\ LimitAhead)
<1>1. Init => TypeInv
  <2>1. Init => \E s \in Limits : elapsed <= s
    <3>1. Duration[Custom] \in Nat /\ Duration[Custom] \in Limits
      BY OrchestratorAssumption DEF Limits
    <3>2. QED
      BY <3>1 DEF Init
  <2>2. Init => queue \in Seq(CaseIds) /\ completed \in Seq(CaseIds)
    BY EmptySeq DEF Init
  <2>3. Init => n \in Nat /\ odom \in 0..n /\ elapsed \in Nat /\ changes \in 0..MaxChanges
    BY OrchestratorAssumption DEF Init
  <2>4. QED
    BY <2>1, <2>2, <2>3 DEF Init, TypeInv, TypeOK, LimitAhead, Limits, Places
<1>2. QED
  BY <1>1, TypeStep, PTL DEF Spec, TypeInv

\* Only what starts a case or shifts its path publishes another path, and it does so
\* in the same callback: the latched path is that of the running case.
THEOREM PathIsLatched == Spec => []PathLatched
<1> USE DEF PathLatched
<1>1. Init => PathLatched
  BY DEF Init
<1>2. TypeInv /\ PathLatched /\ [Next]_orchestratorVars => PathLatched'
  <2> SUFFICES ASSUME TypeInv, PathLatched, [Next]_orchestratorVars
               PROVE  PathLatched'
    OBVIOUS
  <2>1. CASE Launched
    BY <2>1 DEF Launched
  <2>2. ASSUME NEW t, NEW c, InitializeQueue(t, c)
        PROVE  PathLatched'
    BY <2>2 DEF InitializeQueue, FailAndShutdown, BeginCase
  <2>3. CASE Construct \/ \E t \in Tests, c \in {"none", "valid", "malformed"} : SetRequest(t, c)
    BY <2>2, <2>3 DEF Construct, SetRequest
  <2>4. CASE (\E s \in Timeouts : SetGlobalTimeout(s)) \/ SetPublishRate
    BY <2>4 DEF SetGlobalTimeout, SetPublishRate, mission, ending
  <2>5. CASE \E c \in {"stop", "drive"} : CmdCallback(c)
    BY <2>5 DEF CmdCallback, ending
  <2>6. ASSUME NEW where \in Places, CaseGoesOn(where) \/ CaseEnds(where)
        PROVE  PathLatched'
    <3>1. shifted \in BOOLEAN /\ process = "running" /\ case # None
      BY <2>6 DEF TypeInv, TypeOK, CaseGoesOn, CaseEnds, Ticking
    <3>2. CASE BeginCase(queue, Append(completed, case))
      BY <3>2 DEF BeginCase
    <3>3. CASE /\ case' = case /\ shifted' = (shifted \/ Shifts)
               /\ latched' = IF Shifts THEN <<case, TRUE>> ELSE latched
      <4>1. CASE Shifts
        <5>1. shifted' = TRUE
          BY <3>3, <4>1
        <5>2. QED
          BY <3>3, <4>1, <5>1
      <4>2. CASE ~Shifts
        <5>1. shifted' = shifted
          BY <3>1, <3>3, <4>2
        <5>2. QED
          BY <3>1, <3>3, <4>2, <5>1
      <4>3. QED
        BY <4>1, <4>2
    <3>4. QED
      BY <2>6, <3>2, <3>3 DEF CaseGoesOn, CaseEnds
  <2>7. CASE ShutdownCallback \/ ShutdownThread \/ UNCHANGED orchestratorVars
    BY <2>7 DEF ShutdownCallback, ShutdownThread, orchestratorVars, mission, ending
  <2>8. QED
    BY <2>1, <2>3, <2>4, <2>5, <2>6, <2>7 DEF Next, SetParameters, RunCase, Tick
<1>3. QED
  BY <1>1, <1>2, OrchestratorTypeCorrect, PTL DEF Spec, TypeInv

----------------------------------------------------------------------------
(* The whole run.                                                           *)

\* A step of the composition, seen from the orchestrator.
LEMMA BenchStepMaps == [BenchNext]_benchVars => [Next]_orchestratorVars
<1> SUFFICES ASSUME [BenchNext]_benchVars
             PROVE  Next \/ UNCHANGED orchestratorVars
  OBVIOUS
<1>1. ASSUME NEW t \in timers, TimerFires(t)
      PROVE  Next \/ UNCHANGED orchestratorVars
  BY <1>1 DEF TimerFires, Next
<1>2. CASE OrchestratorStep
  BY <1>2 DEF OrchestratorStep, Next
<1>3. CASE MonitorStep
  BY <1>3 DEF MonitorStep
<1>4. CASE OrchestratorExited
  BY <1>4 DEF OrchestratorExited
<1>5. CASE ShutdownEvent
  BY <1>5 DEF ShutdownEvent
<1>6. CASE MonitorInterrupted
  BY <1>6 DEF MonitorInterrupted
<1>7. CASE LaunchDown
  BY <1>7 DEF LaunchDown
<1>8. CASE UNCHANGED benchVars
  BY <1>8 DEF benchVars
<1>9. QED
  BY <1>1, <1>2, <1>3, <1>4, <1>5, <1>6, <1>7, <1>8 DEF BenchNext

\* Every step of the composition is a step of the orchestrator or leaves it alone:
\* the launch system and the monitor only observe it, and start it once.
THEOREM BenchmarkImplementsOrchestrator == BenchSpec => Spec
<1>1. BenchInit => Init
  BY DEF BenchInit
<1>2. QED
  BY <1>1, BenchStepMaps, PTL DEF BenchSpec, Spec

----------------------------------------------------------------------------
\* The process does not come back once it is down.
LEMMA StaysDown == process = "down" /\ [Next]_orchestratorVars => UNCHANGED orchestratorVars
  BY DEF Next, Launched, Construct, SetParameters, SetRequest, SetGlobalTimeout, SetPublishRate,
         RunCase, Tick, CaseGoesOn, CaseEnds, Ticking, CmdCallback, ShutdownCallback, ShutdownThread

\* What the launch system has brought down, and what the HTML report was written from;
\* the PDF report is never started.
DownInOrder ==
    /\ pdf = FALSE
    /\ launch # "up" => process = "down"
    /\ launch = "down" => monitor = "down"
    /\ monitor = "down" => html = rows /\ launch \in {"stopping", "down"}

BenchInv == BenchTypeOK /\ DownInOrder

\* A step of the orchestrator keeps what the monitor has received in the past.
LEMMA NumbersGrow ==
  TypeInv /\ [Next]_orchestratorVars => n' >= n /\ odom' >= odom
<1> SUFFICES ASSUME TypeInv, [Next]_orchestratorVars
             PROVE  n' >= n /\ odom' >= odom
  OBVIOUS
<1>1. n \in Nat /\ odom \in 0..n
  BY DEF TypeInv, TypeOK
<1>a. CASE UNCHANGED <<n, odom>>
  BY <1>1, <1>a
<1>2. ASSUME NEW t, NEW c, InitializeQueue(t, c), odom' = odom
      PROVE  n' >= n /\ odom' >= odom
  <2>1. n' = n \/ n' = n + 1
    BY <1>2 DEF InitializeQueue, FailAndShutdown, mission, BeginCase, FinishSequence
  <2>2. QED
    BY <1>1, <1>2, <2>1
<1>3. CASE Construct \/ \E t \in Tests, c \in {"none", "valid", "malformed"} : SetRequest(t, c)
  BY <1>2, <1>3 DEF Construct, SetRequest
<1>4. CASE \E where \in Places : CaseGoesOn(where)
  <2>1. n' = n /\ odom' = n
    BY <1>4 DEF CaseGoesOn
  <2>2. QED
    BY <1>1, <2>1
<1>5. CASE \E where \in Places : CaseEnds(where)
  <2>1. (n' = n \/ n' = n + 1) /\ odom' = odom
    BY <1>5 DEF CaseEnds, BeginCase, FinishSequence
  <2>2. QED
    BY <1>1, <2>1
<1>6. CASE \/ Launched \/ (\E s \in Timeouts : SetGlobalTimeout(s)) \/ SetPublishRate
           \/ (\E c \in {"stop", "drive"} : CmdCallback(c))
           \/ ShutdownCallback \/ ShutdownThread \/ UNCHANGED orchestratorVars
  BY <1>6, <1>a DEF Launched, SetGlobalTimeout, SetPublishRate, CmdCallback, ShutdownCallback,
                    ShutdownThread, orchestratorVars, mission
<1>7. QED
  BY <1>3, <1>4, <1>5, <1>6 DEF Next, SetParameters, RunCase, Tick

\* Every step of a run keeps the order in which things come down.
LEMMA BenchStep ==
  BenchInv /\ TypeInv /\ TypeInv' /\ [BenchNext]_benchVars => BenchInv'
<1> SUFFICES ASSUME BenchInv, TypeInv, TypeInv', [BenchNext]_benchVars
             PROVE  BenchInv'
  OBVIOUS
<1>1. TypeOK' /\ n \in Nat /\ odom \in Nat /\ n' \in Nat /\ odom' \in Nat
  BY DEF TypeInv, TypeOK
<1>2. [Next]_orchestratorVars /\ n' >= n /\ odom' >= odom
  BY BenchStepMaps, NumbersGrow
<1>3. process = "down" => process' = "down"
  BY <1>2, StaysDown DEF orchestratorVars, ending
<1>4. gotCase \in 0..n /\ gotOdom \in 0..odom
  BY DEF BenchInv, BenchTypeOK
<1>5. gotCase \in 0..n' /\ gotOdom \in 0..odom'
  BY <1>1, <1>2, <1>4
<1> USE DEF BenchInv, BenchTypeOK, DownInOrder
<1>6. ASSUME NEW t \in timers, TimerFires(t)
      PROVE  BenchInv'
  <2>1. t # "report" /\ timers' = timers \ {t} /\ UNCHANGED launch
    BY <1>6 DEF TimerFires
  <2>2. pdf' = FALSE
    BY <1>6, <2>1 DEF TimerFires
  <2>3. QED
    BY <1>1, <1>3, <1>5, <1>6, <2>1, <2>2 DEF TimerFires, monitorVars, received
<1>7. CASE OrchestratorStep
  BY <1>1, <1>3, <1>5, <1>7 DEF OrchestratorStep, monitorVars, received, launchVars
<1>8. CASE MonitorStep
  <2> HIDE DEF BenchInv, BenchTypeOK, DownInOrder
  <2>1. UNCHANGED <<process, launch, timers, pdf, n, odom>>
    BY <1>8 DEF MonitorStep, orchestratorVars, mission, ending, launchVars
  <2>2. monitor = "running" /\ monitor' = "running" /\ html' = html
    BY <1>8 DEF MonitorStep, CaseCb, OdomCb, PathCb, CmdCb, SampleAndLog
  <2>3. /\ gotCase' = gotCase \/ gotCase' \in (gotCase + 1)..n
        /\ gotOdom' = gotOdom \/ gotOdom' \in (gotOdom + 1)..odom
    BY <1>8 DEF MonitorStep, CaseCb, OdomCb, PathCb, CmdCb, SampleAndLog, received
  <2>4. gotCase' \in 0..n' /\ gotOdom' \in 0..odom'
    BY <1>1, <1>4, <2>1, <2>3
  <2>5. /\ gotPath' = gotPath \/ gotPath' = TRUE
        /\ gotCmd' = gotCmd \/ gotCmd' = TRUE
        /\ \/ sampling' = sampling /\ rows' = rows
           \/ sampling' = TRUE /\ rows' = sampling
    BY <1>8 DEF MonitorStep, CaseCb, OdomCb, PathCb, CmdCb, SampleAndLog, received
  <2>6. {gotPath, gotCmd, sampling, rows} \subseteq BOOLEAN /\ (rows => sampling)
    BY DEF BenchInv, BenchTypeOK
  <2>7. {gotPath', gotCmd', sampling', rows'} \subseteq BOOLEAN /\ (rows' => sampling')
    <3>1. /\ gotPath \in BOOLEAN /\ gotCmd \in BOOLEAN /\ sampling \in BOOLEAN
          /\ rows \in BOOLEAN /\ (rows => sampling)
      BY <2>6
    <3>2. gotPath' \in BOOLEAN /\ gotCmd' \in BOOLEAN
      BY <2>5, <3>1
    <3>3. sampling' \in BOOLEAN /\ rows' \in BOOLEAN /\ (rows' => sampling')
      <4>1. CASE sampling' = sampling /\ rows' = rows
        BY <3>1, <4>1
      <4>2. CASE sampling' = TRUE /\ rows' = sampling
        BY <3>1, <4>2
      <4>3. QED
        BY <2>5, <4>1, <4>2
    <3>4. QED
      BY <3>2, <3>3
  <2> USE DEF BenchInv, BenchTypeOK, DownInOrder
  <2>8. QED
    BY <1>1, <2>1, <2>2, <2>4, <2>7
<1>9. CASE OrchestratorExited
  BY <1>1, <1>3, <1>5, <1>9 DEF OrchestratorExited, monitorVars, received
<1>10. CASE ShutdownEvent
  BY <1>1, <1>3, <1>5, <1>10 DEF ShutdownEvent, monitorVars, received
<1>11. CASE MonitorInterrupted
  BY <1>1, <1>3, <1>5, <1>11 DEF MonitorInterrupted, DestroyNode, received, launchVars
<1>12. CASE LaunchDown
  BY <1>1, <1>3, <1>5, <1>12 DEF LaunchDown, monitorVars, received
<1>13. CASE UNCHANGED benchVars
  BY <1>1, <1>3, <1>5, <1>13 DEF benchVars, monitorVars, received, launchVars
<1>14. QED
  BY <1>6, <1>7, <1>8, <1>9, <1>10, <1>11, <1>12, <1>13 DEF BenchNext

\* Types, the order in which things come down, and a PDF report that is never started
\* (its timer is set in the event that also emits Shutdown) hold throughout a run.
THEOREM BenchInvariant == BenchSpec => []BenchInv
<1>1. BenchSpec => [](TypeOK /\ LimitAhead)
  BY BenchmarkImplementsOrchestrator, OrchestratorTypeCorrect, PTL
<1>2. BenchInit /\ TypeInv => BenchInv
  <2> SUFFICES ASSUME BenchInit, TypeInv
               PROVE  BenchInv
    OBVIOUS
  <2>1. n = 0 /\ odom = 0 /\ gotCase = 0 /\ gotOdom = 0 /\ process = "unborn"
    BY DEF BenchInit, Init, MonitorInit
  <2>2. gotCase \in 0..n /\ gotOdom \in 0..odom
    BY <2>1
  <2>3. QED
    BY <2>2 DEF BenchInit, MonitorInit, BenchInv, BenchTypeOK, DownInOrder, TypeInv
<1>3. QED
  BY <1>1, <1>2, BenchStep, PTL DEF BenchSpec, TypeInv

\* What was received was published, the timer of the report does not outlive the
\* shutdown, and only the shutdown stops the monitor.
THEOREM BenchTypeCorrect == BenchSpec => []BenchTypeOK
<1>1. BenchInv => BenchTypeOK
  BY DEF BenchInv
<1>2. QED
  BY <1>1, BenchInvariant, PTL
===============================================================================
