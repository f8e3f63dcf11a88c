--------------------------- MODULE RestTasksProofs ---------------------------
(***************************************************************************)
(* Safety of RestTasks for any number of tasks, users and sessions, any    *)
(* cap and any number of Redis failures.                                   *)
(*                                                                         *)
(* The invariant ties each counter to the set it counts (SlotsMatchRuns,   *)
(* ActiveMatchesSessions) and each Redis row to the coroutine that may     *)
(* still write it (RowStages); the properties follow from it.              *)
(***************************************************************************)
EXTENDS RestTasks, FiniteSetTheorems, TLAPS

RunningSessions == { s \in Sessions : ws[s] = "running" }
ActiveMatchesSessions == active = Cardinality(RunningSessions)
LateOnceOver == late => server \in {"closing", "exited"}

\* Where a POST handler or a run is fixes what its row can be.
RowStages == \A t \in Tasks :
    /\ req[t] # "accepted" => run[t] = "none" /\ verdict[t] = "none"
    /\ req[t] \in {"idle", "limiting", "writing", "refused"} => row[t] = "absent"
    /\ req[t] = "dropping" => row[t] = "queued"
    /\ row[t] \in {"completed", "failed"} => run[t] = "over"

SlotsWithinCap == Cap > 0 => \A u \in Users : slots[u] <= Cap

-----------------------------------------------------------------------------
(* Types *)

\* Every variable stays in its type: initially, and under each action, counters
\* included (the clamp of the finally keeps a slot count a natural number).
LEMMA TypeInit == Init => TypeOK
<1> SUFFICES ASSUME Init PROVE TypeOK
    OBVIOUS
<1>1. faults \in 0..MaxFaults
      BY RestAssumption DEF Init, RestAssumption
<1>2. run \in [Tasks -> InProgress \cup {"none", "over"}]
      BY DEF Init
<1> QED BY <1>1, <1>2 DEF Init, TypeOK

\* The steps of POST /api/v1/tasks preserve the type invariant.
LEMMA TypePost ==
    ASSUME TypeOK, NEW t \in Tasks, Post(t)
    PROVE  TypeOK'
<1> USE RestAssumption DEF TypeOK, RestAssumption, InProgress, Running, Fault, At
<1>1. CASE Submit(t)
      BY <1>1 DEF Submit
<1>2. CASE RateLimit(t)
      BY <1>2 DEF RateLimit
<1>3. CASE WriteRowFails(t)
      BY <1>3 DEF WriteRowFails
<1>4. CASE Schedule(t)
      BY <1>4 DEF Schedule
<1>5. CASE ConcurrentLimit(t)
      BY <1>5 DEF ConcurrentLimit
<1>6. CASE DropRow(t)
      BY <1>6 DEF DropRow
<1>7. CASE DropRowFails(t)
      BY <1>7 DEF DropRowFails
<1> QED BY <1>1, <1>2, <1>3, <1>4, <1>5, <1>6, <1>7 DEF Post

\* The steps of a background run preserve the type invariant.
LEMMA TypeBackground ==
    ASSUME TypeOK, NEW t \in Tasks, Background(t)
    PROVE  TypeOK'
<1> USE RestAssumption DEF TypeOK, RestAssumption, InProgress, Running, Fault, At
<1>0. ASSUME Release(t)
      PROVE  slots' \in [Users -> Nat]
      BY <1>0 DEF Release
<1>1. CASE StartRun(t)
      BY <1>1 DEF StartRun
<1>2. CASE LoadRow(t)
      BY <1>2 DEF LoadRow
<1>3. CASE AbortMissing(t)
      BY <1>0, <1>3 DEF AbortMissing
<1>4. CASE MarkRunning(t)
      BY <1>4 DEF MarkRunning
<1>5. CASE SetupFails(t)
      BY <1>0, <1>5 DEF SetupFails
<1>6. CASE PipelineEnds(t)
      BY <1>6 DEF PipelineEnds
<1>7. CASE WriteFinal(t)
      BY <1>0, <1>7 DEF WriteFinal
<1>8. CASE WriteFinalFails(t)
      BY <1>0, <1>8 DEF WriteFinalFails
<1> QED BY <1>1, <1>2, <1>3, <1>4, <1>5, <1>6, <1>7, <1>8 DEF Background

\* Every step preserves the type invariant.
LEMMA TypeStep == TypeOK /\ [Next]_vars => TypeOK'
<1> SUFFICES ASSUME TypeOK, [Next]_vars PROVE TypeOK'
    OBVIOUS
<1>1. ASSUME NEW t \in Tasks, Post(t) PROVE TypeOK'
      BY <1>1, TypePost
<1>2. ASSUME NEW t \in Tasks, Background(t) PROVE TypeOK'
      BY <1>2, TypeBackground
<1>3. ASSUME NEW t \in Tasks, RowExpires(t) PROVE TypeOK'
      BY <1>3, RestAssumption DEF RowExpires, TypeOK, Fault, RestAssumption
<1>4. ASSUME NEW t \in Tasks, AgentStatus(t) PROVE TypeOK'
      BY <1>4 DEF AgentStatus, TypeOK
<1>5. ASSUME NEW s \in Sessions, WebSocket(s) PROVE TypeOK'
      BY <1>5 DEF WebSocket, WsPrompt, WsAdmit, WsStart, WsEnd, At, TypeOK, rest
<1>6. CASE Lifespan
      BY <1>6 DEF Lifespan, BeginShutdown, DrainOver, DeadlinePasses, CloseRedis, TypeOK, rest
<1>7. CASE UNCHANGED vars
      BY <1>7 DEF vars, TypeOK
<1> QED BY <1>1, <1>2, <1>3, <1>4, <1>5, <1>6, <1>7 DEF Next

\* Every variable has its type in every reachable state (rest_runner.py 59, 261-312).
THEOREM TypeCorrect == Spec => []TypeOK
BY TypeInit, TypeStep, PTL DEF Spec

-----------------------------------------------------------------------------
(* The slots *)

\* The runs a user has in progress are finitely many, because the tasks are.
LEMMA InFlightFinite == \A u \in Users : IsFiniteSet(InFlight(u))
BY RestAssumption, FS_Subset DEF RestAssumption, InFlight

\* Spawning a task and taking the owner's slot in the same step keeps every
\* count right (schedule_rest_task, 300-321).
LEMMA SlotTaken ==
    ASSUME TypeOK, SlotsMatchRuns, NEW t \in Tasks, run[t] = "none",
           run' = [run EXCEPT ![t] = "spawned"],
           slots' = [slots EXCEPT ![Owner[t]] = @ + 1]
    PROVE  SlotsMatchRuns'
<1> SUFFICES ASSUME NEW u \in Users
             PROVE  slots'[u] = Cardinality(InFlight(u)')
    BY DEF SlotsMatchRuns
<1>1. Owner[t] \in Users /\ t \notin InFlight(u) /\ slots[u] = Cardinality(InFlight(u))
      BY RestAssumption DEF RestAssumption, InFlight, InProgress, SlotsMatchRuns
<1>2. CASE Owner[t] = u
  <2>1. InFlight(u)' = InFlight(u) \cup {t}
        BY <1>2 DEF InFlight, InProgress, TypeOK
  <2>2. Cardinality(InFlight(u) \cup {t}) = Cardinality(InFlight(u)) + 1
        BY <1>1, InFlightFinite, FS_AddElement
  <2> QED BY <1>1, <1>2, <2>1, <2>2 DEF TypeOK
<1>3. CASE Owner[t] # u
  <2>1. InFlight(u)' = InFlight(u)
        BY <1>3 DEF InFlight, TypeOK
  <2> QED BY <1>1, <1>3, <2>1 DEF TypeOK
<1> QED BY <1>2, <1>3

\* A run that ends and releases its slot keeps every count right: the clamp is
\* never needed, since its own slot is among those counted (261-274).
LEMMA SlotReleased ==
    ASSUME TypeOK, SlotsMatchRuns, NEW t \in Tasks, run[t] \in InProgress,
           run' = [run EXCEPT ![t] = "over"], Release(t)
    PROVE  SlotsMatchRuns'
<1> SUFFICES ASSUME NEW u \in Users
             PROVE  slots'[u] = Cardinality(InFlight(u)')
    BY DEF SlotsMatchRuns
<1>1. Owner[t] \in Users /\ slots[u] = Cardinality(InFlight(u))
      BY RestAssumption DEF RestAssumption, SlotsMatchRuns
<1>2. CASE Owner[t] = u
  <2>1. InFlight(u)' = InFlight(u) \ {t} /\ t \in InFlight(u)
        BY <1>2 DEF InFlight, InProgress, TypeOK
  <2>2. Cardinality(InFlight(u) \ {t}) = Cardinality(InFlight(u)) - 1
        BY <2>1, InFlightFinite, FS_RemoveElement
  <2>3. Cardinality(InFlight(u)) > 0
    <3>1. InFlight(u) # {}
          BY <2>1
    <3>2. Cardinality(InFlight(u)) # 0
          BY <3>1, InFlightFinite, FS_EmptySet
    <3> QED BY <1>1, <3>2 DEF TypeOK
  <2> QED BY <1>1, <1>2, <2>1, <2>2, <2>3 DEF TypeOK, Release
<1>3. CASE Owner[t] # u
  <2>1. InFlight(u)' = InFlight(u)
        BY <1>3 DEF InFlight, TypeOK
  <2> QED BY <1>1, <1>3, <2>1 DEF TypeOK, Release
<1> QED BY <1>2, <1>3

\* A run that goes on keeps its slot.
LEMMA SlotKept ==
    ASSUME TypeOK, SlotsMatchRuns, NEW t \in Tasks, run[t] \in InProgress,
           NEW l \in InProgress, run' = [run EXCEPT ![t] = l], slots' = slots
    PROVE  SlotsMatchRuns'
<1> SUFFICES ASSUME NEW u \in Users
             PROVE  slots'[u] = Cardinality(InFlight(u)')
    BY DEF SlotsMatchRuns
<1>1. InFlight(u)' = InFlight(u)
      BY DEF InFlight, TypeOK
<1> QED BY <1>1 DEF SlotsMatchRuns

\* Every step preserves the count: one step spawns, four end a run, the others
\* leave it in progress or do not touch it.
LEMMA SlotsStep ==
    ASSUME TypeOK, SlotsMatchRuns, RowStages, [Next]_vars
    PROVE  SlotsMatchRuns'
<1>0. ASSUME run' = run, slots' = slots
      PROVE  SlotsMatchRuns'
      BY <1>0 DEF SlotsMatchRuns, InFlight
<1>1. ASSUME NEW t \in Tasks, Post(t)
      PROVE  SlotsMatchRuns'
  <2>1. CASE Schedule(t)
        BY <2>1, SlotTaken DEF Schedule, At, RowStages
  <2>2. CASE ~Schedule(t)
        BY <1>0, <1>1, <2>2
           DEF Post, Submit, RateLimit, WriteRowFails, ConcurrentLimit, DropRow, DropRowFails
  <2> QED BY <2>1, <2>2
<1>2. ASSUME NEW t \in Tasks, Background(t)
      PROVE  SlotsMatchRuns'
  <2>1. CASE StartRun(t)
        BY <2>1, SlotKept DEF StartRun, At, InProgress
  <2>2. CASE LoadRow(t)
        BY <2>2, SlotKept DEF LoadRow, At, InProgress
  <2>3. CASE MarkRunning(t)
        BY <2>3, SlotKept DEF MarkRunning, At, InProgress
  <2>4. CASE PipelineEnds(t)
        BY <2>4, SlotKept DEF PipelineEnds, At, InProgress
  <2>5. CASE AbortMissing(t)
        BY <2>5, SlotReleased DEF AbortMissing, At, InProgress
  <2>6. CASE SetupFails(t)
        BY <2>6, SlotReleased DEF SetupFails, At, InProgress
  <2>7. CASE WriteFinal(t)
        BY <2>7, SlotReleased DEF WriteFinal, At, InProgress
  <2>8. CASE WriteFinalFails(t)
        BY <2>8, SlotReleased DEF WriteFinalFails, At, InProgress
  <2> QED BY <1>2, <2>1, <2>2, <2>3, <2>4, <2>5, <2>6, <2>7, <2>8 DEF Background
<1>3. ASSUME NEW t \in Tasks, RowExpires(t) \/ AgentStatus(t)
      PROVE  SlotsMatchRuns'
      BY <1>0, <1>3 DEF RowExpires, AgentStatus
<1>4. ASSUME NEW s \in Sessions, WebSocket(s)
      PROVE  SlotsMatchRuns'
      BY <1>0, <1>4 DEF WebSocket, WsPrompt, WsAdmit, WsStart, WsEnd, rest
<1>5. CASE Lifespan
      BY <1>0, <1>5 DEF Lifespan, BeginShutdown, DrainOver, DeadlinePasses, CloseRedis, rest
<1>6. CASE UNCHANGED vars
      BY <1>0, <1>6 DEF vars
<1> QED BY <1>1, <1>2, <1>3, <1>4, <1>5, <1>6 DEF Next

\* The check and the increment are one step, so no count passes the cap.
LEMMA CapStep ==
    ASSUME TypeOK, SlotsWithinCap, [Next]_vars
    PROVE  SlotsWithinCap'
<1> SUFFICES ASSUME Cap > 0, NEW u \in Users
             PROVE  slots'[u] <= Cap
    BY DEF SlotsWithinCap
<1>0. slots[u] <= Cap /\ slots[u] \in Nat /\ Cap \in Nat
      BY RestAssumption DEF SlotsWithinCap, TypeOK, RestAssumption
<1>1. ASSUME NEW t \in Tasks, Post(t)
      PROVE  slots'[u] <= Cap
  <2>1. CASE Schedule(t)
        BY <1>0, <2>1 DEF Schedule, SlotFree, TypeOK
  <2>2. CASE ~Schedule(t)
        BY <1>0, <1>1, <2>2
           DEF Post, Submit, RateLimit, WriteRowFails, ConcurrentLimit, DropRow, DropRowFails
  <2> QED BY <2>1, <2>2
<1>2. ASSUME NEW t \in Tasks, Background(t)
      PROVE  slots'[u] <= Cap
  <2>1. CASE Release(t)
        BY <1>0, <2>1 DEF Release, TypeOK
  <2>2. CASE slots' = slots
        BY <1>0, <2>2
  <2> QED BY <1>2, <2>1, <2>2
          DEF Background, StartRun, LoadRow, AbortMissing, MarkRunning, SetupFails,
              PipelineEnds, WriteFinal, WriteFinalFails
<1>3. ASSUME NEW t \in Tasks, RowExpires(t) \/ AgentStatus(t)
      PROVE  slots'[u] <= Cap
      BY <1>0, <1>3 DEF RowExpires, AgentStatus
<1>4. ASSUME NEW s \in Sessions, WebSocket(s)
      PROVE  slots'[u] <= Cap
      BY <1>0, <1>4 DEF WebSocket, WsPrompt, WsAdmit, WsStart, WsEnd, rest
<1>5. CASE Lifespan
      BY <1>0, <1>5 DEF Lifespan, BeginShutdown, DrainOver, DeadlinePasses, CloseRedis, rest
<1>6. CASE UNCHANGED vars
      BY <1>0, <1>6 DEF vars
<1> QED BY <1>1, <1>2, <1>3, <1>4, <1>5, <1>6 DEF Next

-----------------------------------------------------------------------------
(* The rows *)

\* A handler's and a run's steps keep the stages and the row together.
LEMMA RowsStep ==
    ASSUME TypeOK, RowStages, [Next]_vars
    PROVE  RowStages'
<1>0. ASSUME UNCHANGED <<req, run, verdict, row>>
      PROVE  RowStages'
      BY <1>0 DEF RowStages
<1>1. ASSUME NEW t \in Tasks, Post(t)
      PROVE  RowStages'
  <2> USE DEF At, TypeOK, RowStages, Running
  <2>1. CASE Submit(t)
        BY <2>1 DEF Submit
  <2>2. CASE RateLimit(t)
        BY <2>2 DEF RateLimit
  <2>3. CASE WriteRowFails(t)
        BY <2>3 DEF WriteRowFails
  <2>4. CASE Schedule(t)
        BY <2>4 DEF Schedule
  <2>5. CASE ConcurrentLimit(t)
        BY <2>5 DEF ConcurrentLimit
  <2>6. CASE DropRow(t)
        BY <2>6 DEF DropRow
  <2>7. CASE DropRowFails(t)
        BY <2>7 DEF DropRowFails
  <2> QED BY <1>1, <2>1, <2>2, <2>3, <2>4, <2>5, <2>6, <2>7 DEF Post
<1>2. ASSUME NEW t \in Tasks, Background(t)
      PROVE  RowStages'
  <2> USE DEF At, TypeOK, RowStages, Running
  <2>1. CASE StartRun(t)
        BY <2>1 DEF StartRun
  <2>2. CASE LoadRow(t)
        BY <2>2 DEF LoadRow
  <2>3. CASE AbortMissing(t)
        BY <2>3 DEF AbortMissing
  <2>4. CASE MarkRunning(t)
        BY <2>4 DEF MarkRunning
  <2>5. CASE SetupFails(t)
        BY <2>5 DEF SetupFails
  <2>6. CASE PipelineEnds(t)
        BY <2>6 DEF PipelineEnds
  <2>7. CASE WriteFinal(t)
        BY <2>7 DEF WriteFinal
  <2>8. CASE WriteFinalFails(t)
        BY <2>8 DEF WriteFinalFails
  <2> QED BY <1>2, <2>1, <2>2, <2>3, <2>4, <2>5, <2>6, <2>7, <2>8 DEF Background
<1>3. ASSUME NEW t \in Tasks, RowExpires(t)
      PROVE  RowStages'
      BY <1>3 DEF RowExpires, RowStages, TypeOK
<1>4. ASSUME NEW t \in Tasks, AgentStatus(t)
      PROVE  RowStages'
      BY <1>0, <1>4 DEF AgentStatus
<1>5. ASSUME NEW s \in Sessions, WebSocket(s)
      PROVE  RowStages'
      BY <1>0, <1>5 DEF WebSocket, WsPrompt, WsAdmit, WsStart, WsEnd, rest
<1>6. CASE Lifespan
      BY <1>0, <1>6 DEF Lifespan, BeginShutdown, DrainOver, DeadlinePasses, CloseRedis, rest
<1>7. CASE UNCHANGED vars
      BY <1>0, <1>7 DEF vars
<1> QED BY <1>1, <1>2, <1>3, <1>4, <1>5, <1>6, <1>7 DEF Next

-----------------------------------------------------------------------------
(* The drain *)

\* The counter is the number of runs while runs start and end, the clamp of the
\* finally included (lifecycle.py 63-70).
LEMMA CounterStep ==
    ASSUME TypeOK, ActiveMatchesSessions, [Next]_vars
    PROVE  ActiveMatchesSessions'
<1>f. IsFiniteSet(RunningSessions)
      BY RestAssumption, FS_Subset DEF RestAssumption, RunningSessions
<1>0. ASSUME UNCHANGED <<active, ws>>
      PROVE  ActiveMatchesSessions'
      BY <1>0 DEF ActiveMatchesSessions, RunningSessions
<1>1. ASSUME NEW t \in Tasks, Post(t) \/ Background(t) \/ RowExpires(t) \/ AgentStatus(t)
      PROVE  UNCHANGED <<active, ws>>
  <2>1. CASE Post(t)
        BY <2>1 DEF Post, Submit, RateLimit, WriteRowFails, Schedule, ConcurrentLimit,
                    DropRow, DropRowFails
  <2>2. CASE Background(t)
        BY <2>2 DEF Background, StartRun, LoadRow, AbortMissing, MarkRunning, SetupFails,
                    PipelineEnds, WriteFinal, WriteFinalFails
  <2>3. CASE RowExpires(t) \/ AgentStatus(t)
        BY <2>3 DEF RowExpires, AgentStatus
  <2> QED BY <1>1, <2>1, <2>2, <2>3
<1>2. ASSUME NEW s \in Sessions, WsPrompt(s) \/ WsAdmit(s)
      PROVE  ActiveMatchesSessions'
  <2>1. RunningSessions' = RunningSessions /\ active' = active
        BY <1>2 DEF WsPrompt, WsAdmit, At, RunningSessions, TypeOK
  <2> QED BY <2>1 DEF ActiveMatchesSessions
<1>3. ASSUME NEW s \in Sessions, WsStart(s)
      PROVE  ActiveMatchesSessions'
  <2>1. /\ RunningSessions' = RunningSessions \cup {s}
        /\ s \notin RunningSessions
        BY <1>3 DEF WsStart, At, RunningSessions, TypeOK
  <2>2. Cardinality(RunningSessions \cup {s}) = Cardinality(RunningSessions) + 1
        BY <1>f, <2>1, FS_AddElement
  <2> QED BY <1>3, <2>1, <2>2 DEF ActiveMatchesSessions, WsStart
<1>4. ASSUME NEW s \in Sessions, WsEnd(s)
      PROVE  ActiveMatchesSessions'
  <2>1. /\ RunningSessions' = RunningSessions \ {s}
        /\ s \in RunningSessions
        BY <1>4 DEF WsEnd, At, RunningSessions, TypeOK
  <2>2. Cardinality(RunningSessions \ {s}) = Cardinality(RunningSessions) - 1
        BY <1>f, <2>1, FS_RemoveElement
  <2>3. Cardinality(RunningSessions) # 0
        BY <1>f, <2>1, FS_EmptySet
  <2> QED BY <1>4, <2>1, <2>2, <2>3 DEF ActiveMatchesSessions, WsEnd, TypeOK
<1>5. CASE Lifespan
      BY <1>0, <1>5 DEF Lifespan, BeginShutdown, DrainOver, DeadlinePasses, CloseRedis
<1>6. CASE UNCHANGED vars
      BY <1>0, <1>6 DEF vars
<1> QED BY <1>0, <1>1, <1>2, <1>3, <1>4, <1>5, <1>6 DEF Next, WebSocket

\* Only the lifespan handler moves the server, and late is set by the step that
\* leaves the drain (main.py 146-168).
LEMMA ServerStep ==
    ASSUME [Next]_vars
    PROVE  UNCHANGED <<server, late>> \/ Lifespan
<1>1. ASSUME NEW t \in Tasks, Post(t)
      PROVE  UNCHANGED <<server, late>>
      BY <1>1 DEF Post, Submit, RateLimit, WriteRowFails, Schedule, ConcurrentLimit,
                  DropRow, DropRowFails
<1>2. ASSUME NEW t \in Tasks, Background(t)
      PROVE  UNCHANGED <<server, late>>
      BY <1>2 DEF Background, StartRun, LoadRow, AbortMissing, MarkRunning, SetupFails,
                  PipelineEnds, WriteFinal, WriteFinalFails
<1>3. ASSUME NEW t \in Tasks, RowExpires(t) \/ AgentStatus(t)
      PROVE  UNCHANGED <<server, late>>
      BY <1>3 DEF RowExpires, AgentStatus
<1>4. ASSUME NEW s \in Sessions, WebSocket(s)
      PROVE  UNCHANGED <<server, late>>
      BY <1>4 DEF WebSocket, WsPrompt, WsAdmit, WsStart, WsEnd
<1> QED BY <1>1, <1>2, <1>3, <1>4 DEF Next, vars

-----------------------------------------------------------------------------
(* The invariant and what follows from it *)

RestInv ==
    /\ TypeOK
    /\ SlotsMatchRuns
    /\ SlotsWithinCap
    /\ RowStages
    /\ ActiveMatchesSessions
    /\ LateOnceOver

\* At startup nothing is counted and nothing runs.
LEMMA RestInvInit == Init => RestInv
<1> SUFFICES ASSUME Init PROVE RestInv
    OBVIOUS
<1>1. SlotsMatchRuns
  <2>1. \A u \in Users : InFlight(u) = {}
        BY DEF Init, InFlight, InProgress
  <2> QED BY <2>1, FS_EmptySet DEF Init, SlotsMatchRuns
<1>2. ActiveMatchesSessions
  <2>1. RunningSessions = {}
        BY DEF Init, RunningSessions
  <2> QED BY <2>1, FS_EmptySet DEF Init, ActiveMatchesSessions
<1>3. SlotsWithinCap
      BY RestAssumption DEF Init, SlotsWithinCap, RestAssumption
<1>4. RowStages /\ LateOnceOver
      BY DEF Init, RowStages, LateOnceOver
<1> QED BY <1>1, <1>2, <1>3, <1>4, TypeInit DEF RestInv

\* The invariant holds in every reachable state.
THEOREM RestInvariant == Spec => []RestInv
<1>1. LateOnceOver /\ [Next]_vars => LateOnceOver'
      BY ServerStep DEF LateOnceOver, Lifespan, BeginShutdown, DrainOver, DeadlinePasses,
                        CloseRedis
<1>2. RestInv /\ [Next]_vars => RestInv'
      BY <1>1, TypeStep, SlotsStep, CapStep, RowsStep, CounterStep DEF RestInv
<1> QED BY <1>2, RestInvInit, PTL DEF Spec

\* A user holds one slot per run in progress, whichever step of a run fails, and
\* never runs more tasks at once than the cap (rest_runner.py 261-312).
THEOREM SlotsFollowRuns == Spec => []SlotsAreExact
<1>1. RestInv => CapRespected
      BY DEF RestInv, SlotsMatchRuns, SlotsWithinCap, CapRespected
<1>2. RestInv => SlotsAreExact
      BY <1>1 DEF RestInv, SlotsAreExact
<1> QED BY <1>2, RestInvariant, PTL

\* A refused submission leaves no row (routes.py 182-204).
THEOREM RefusedRowsAbsent == Spec => []RefusedLeavesNoRow
<1>1. RestInv => RefusedLeavesNoRow
      BY DEF RestInv, RowStages, RefusedLeavesNoRow
<1> QED BY <1>1, RestInvariant, PTL

\* The drain ends before its deadline exactly when no pipeline over WebSocket is
\* running, whenever it was admitted and whenever it began (main.py 148-164).
THEOREM DrainIsExact == Spec => CountedRunsDrained
<1> DEFINE Exact == server = "draining" /\ server' # "draining" =>
                       (late' <=> \E s \in Sessions : ws[s] = "running")
<1>1. RestInv /\ [Next]_vars => [Exact]_server
  <2> SUFFICES ASSUME TypeOK, ActiveMatchesSessions, LateOnceOver, [Next]_vars,
                      server = "draining", server' # server
               PROVE  late' <=> RunningSessions # {}
      BY DEF RestInv, RunningSessions
  <2>1. ~late /\ (DrainOver \/ DeadlinePasses)
        BY ServerStep DEF LateOnceOver, Lifespan, BeginShutdown, CloseRedis
  <2>2. IsFiniteSet(RunningSessions)
        BY RestAssumption, FS_Subset DEF RestAssumption, RunningSessions
  <2>3. RunningSessions = {} <=> active = 0
        BY <2>2, FS_EmptySet DEF ActiveMatchesSessions
  <2> QED BY <2>1, <2>3 DEF DrainOver, DeadlinePasses, TypeOK
<1> QED BY <1>1, RestInvariant, PTL DEF Spec, CountedRunsDrained

\* No step takes a task's status back: a row is only written by its own handler
\* before the spawn or by its own run, which is over once the status is terminal
\* (rest_runner.py 149-166, 244-260).
THEOREM StatusOnlyForward == Spec => StatusMovesForward
<1> DEFINE Forward == \A t \in Tasks :
             /\ row[t] \in {"completed", "failed"} => row'[t] = row[t]
             /\ row[t] = "running" => row'[t] # "queued"
<1>1. RestInv /\ [Next]_vars => [Forward]_row
  <2> SUFFICES ASSUME TypeOK, RowStages, [Next]_vars, row' # row PROVE Forward
      BY DEF RestInv
  <2>1. ASSUME NEW t \in Tasks, Post(t) PROVE Forward
        BY <2>1 DEF Post, Submit, RateLimit, WriteRowFails, Schedule, ConcurrentLimit,
                    DropRow, DropRowFails, At, RowStages, TypeOK
  <2>2. ASSUME NEW t \in Tasks, Background(t) PROVE Forward
        BY <2>2 DEF Background, StartRun, LoadRow, AbortMissing, MarkRunning, SetupFails,
                    PipelineEnds, WriteFinal, WriteFinalFails, At, RowStages, TypeOK
  <2>3. ASSUME NEW t \in Tasks, RowExpires(t) PROVE Forward
        BY <2>3 DEF RowExpires, RowStages, TypeOK
  <2>4. ASSUME NEW t \in Tasks, AgentStatus(t) PROVE FALSE
        BY <2>4 DEF AgentStatus
  <2>5. ASSUME NEW s \in Sessions, WebSocket(s) PROVE FALSE
        BY <2>5 DEF WebSocket, WsPrompt, WsAdmit, WsStart, WsEnd, rest
  <2>6. CASE Lifespan \/ UNCHANGED vars
        BY <2>6 DEF Lifespan, BeginShutdown, DrainOver, DeadlinePasses, CloseRedis, rest, vars
  <2> QED BY <2>1, <2>2, <2>3, <2>4, <2>5, <2>6 DEF Next
<1> QED BY <1>1, RestInvariant, PTL DEF Spec, StatusMovesForward
=============================================================================
