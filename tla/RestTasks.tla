------------------------------ MODULE RestTasks ------------------------------
(***************************************************************************)
(* POST /api/v1/tasks and the background run behind it (api/routes.py,     *)
(* api/rest_runner.py), the per-user concurrency slots, the task rows in   *)
(* Redis, and the graceful shutdown that waits for pipelines (main.py,     *)
(* api/lifecycle.py), WebSocket runs included as far as it counts them.    *)
(*                                                                         *)
(* A step is the code of one coroutine between two awaits; every Redis     *)
(* call is an await that may fail.                                         *)
(***************************************************************************)
EXTENDS Naturals, FiniteSets

CONSTANTS Tasks,      \* task ids handed out by POST
          Users,      \* (site, user) pairs, the concurrency keys
          Owner,      \* who submits each task
          Cap,        \* MAX_CONCURRENT_REST_TASKS_PER_USER, 0: no cap
          Sessions,   \* prompts that arrive over WebSocket
          MaxFaults   \* bound: Redis calls that fail

ASSUME RestAssumption ==
    /\ IsFiniteSet(Tasks) /\ IsFiniteSet(Sessions)
    /\ Owner \in [Tasks -> Users]
    /\ Cap \in Nat
    /\ MaxFaults \in Nat

VARIABLES server,   \* lifespan: up, draining, closing (Redis), exited
          late,     \* the deadline ended the drain, not the counter
          active,   \* app.state.active_pipelines
          ws,       \* where each WebSocket prompt is
          req,      \* where each POST handler is
          run,      \* where each background task is
          verdict,  \* how AgentPipeline.run() ended for the task
          row,      \* task_state.status in Redis
          agents,   \* tasks with a current_agent key
          slots,    \* _concurrent_tasks
          faults    \* Redis failures so far

rest == <<req, run, verdict, row, agents, slots>>
vars == <<server, late, active, ws, req, run, verdict, row, agents, slots, faults>>

InProgress == {"spawned", "loading", "marking", "piping", "finalizing"}
InFlight(u) == { t \in Tasks : Owner[t] = u /\ run[t] \in InProgress }

Init ==
    /\ server = "up"
    /\ late = FALSE
    /\ active = 0
    /\ ws = [s \in Sessions |-> "idle"]
    /\ req = [t \in Tasks |-> "idle"]
    /\ run = [t \in Tasks |-> "none"]
    /\ verdict = [t \in Tasks |-> "none"]
    /\ row = [t \in Tasks |-> "absent"]
    /\ agents = {}
    /\ slots = [u \in Users |-> 0]
    /\ faults = 0

Running == server # "exited"
Fault   == faults < MaxFaults /\ faults' = faults + 1
At(f, t, from, to) == f[t] = from /\ f' = [f EXCEPT ![t] = to]

-----------------------------------------------------------------------------
(* POST /api/v1/tasks *)

\* The shutdown gate is the handler's first statement ...
Submit(t) ==
    /\ Running
    /\ At(req, t, "idle", IF server = "up" THEN "limiting" ELSE "refused")
    /\ UNCHANGED <<server, late, active, ws, run, verdict, row, agents, slots, faults>>

\* ... the rate limit comes next (a Redis failure admits).
RateLimit(t) ==
    /\ Running
    /\ At(req, t, "limiting", "refused") \/ At(req, t, "limiting", "writing")
    /\ UNCHANGED <<server, late, active, ws, run, verdict, row, agents, slots, faults>>

\* set_task_state(queued) raises: 500, nothing written.
WriteRowFails(t) ==
    /\ Running
    /\ Fault
    /\ At(req, t, "writing", "refused")
    /\ UNCHANGED <<server, late, active, ws, run, verdict, row, agents, slots>>

SlotFree(u) == Cap = 0 \/ slots[u] < Cap

\* The row is written; schedule_rest_task checks the cap, takes the slot and
\* spawns, with no await in between.
Schedule(t) ==
    /\ Running
    /\ At(req, t, "writing", "accepted")
    /\ row' = [row EXCEPT ![t] = "queued"]
    /\ SlotFree(Owner[t])
    /\ slots' = [slots EXCEPT ![Owner[t]] = @ + 1]
    /\ run' = [run EXCEPT ![t] = "spawned"]
    /\ UNCHANGED <<server, late, active, ws, verdict, agents, faults>>

\* The cap is reached: the row just written is to be dropped again.
ConcurrentLimit(t) ==
    /\ Running
    /\ At(req, t, "writing", "dropping")
    /\ row' = [row EXCEPT ![t] = "queued"]
    /\ ~SlotFree(Owner[t])
    /\ UNCHANGED <<server, late, active, ws, run, verdict, agents, slots, faults>>

\* 429 without the cleanup.
RefuseKeepingRow(t) ==
    /\ Running
    /\ At(req, t, "dropping", "refused")
    /\ UNCHANGED <<server, late, active, ws, run, verdict, row, agents, slots, faults>>

DropRow(t) ==
    /\ Running
    /\ At(req, t, "dropping", "refused")
    /\ row' = [row EXCEPT ![t] = "absent"]
    /\ UNCHANGED <<server, late, active, ws, run, verdict, agents, slots, faults>>

\* delete_task_state fails: best effort, the TTL reaps the row.
DropRowFails(t) ==
    /\ Running
    /\ Fault
    /\ At(req, t, "dropping", "leftover")
    /\ UNCHANGED <<server, late, active, ws, run, verdict, row, agents, slots>>

-----------------------------------------------------------------------------
(* _run_rest_task *)

\* The finally: release the slot, clamped at zero.
Release(t) == slots' = [slots EXCEPT ![Owner[t]] = IF @ > 0 THEN @ - 1 ELSE 0]

StartRun(t) ==
    /\ Running
    /\ At(run, t, "spawned", "loading")
    /\ UNCHANGED <<server, late, active, ws, req, verdict, row, agents, slots, faults>>

\* get_task_state found the row.
LoadRow(t) ==
    /\ Running
    /\ row[t] # "absent"
    /\ At(run, t, "loading", "marking")
    /\ UNCHANGED <<server, late, active, ws, req, verdict, row, agents, slots, faults>>

\* The TTL evicts a row nobody has touched.
RowExpires(t) ==
    /\ Running
    /\ Fault
    /\ row[t] # "absent"
    /\ run[t] \in {"spawned", "loading"}
    /\ row' = [row EXCEPT ![t] = "absent"]
    /\ UNCHANGED <<server, late, active, ws, req, run, verdict, agents, slots>>

\* Waiting for the row to appear instead of giving up.
AwaitMissing(t) ==
    /\ row[t] = "absent" /\ run[t] = "loading"
    /\ UNCHANGED vars

AbortMissing(t) ==
    /\ Running
    /\ row[t] = "absent"
    /\ At(run, t, "loading", "over")
    /\ Release(t)
    /\ UNCHANGED <<server, late, active, ws, req, verdict, row, agents, faults>>

MarkRunning(t) ==
    /\ Running
    /\ At(run, t, "marking", "piping")
    /\ row' = [row EXCEPT ![t] = "running"]
    /\ UNCHANGED <<server, late, active, ws, req, verdict, agents, slots, faults>>

\* The early failure that forgets the slot.
SetupFailsHoldingSlot(t) ==
    /\ Running
    /\ Fault
    /\ At(run, t, "loading", "over") \/ At(run, t, "marking", "over")
    /\ UNCHANGED <<server, late, active, ws, req, verdict, row, agents, slots>>

\* A Redis failure before the pipeline: the task dies, the finally still runs.
SetupFails(t) ==
    /\ Running
    /\ Fault
    /\ At(run, t, "loading", "over") \/ At(run, t, "marking", "over")
    /\ Release(t)
    /\ UNCHANGED <<server, late, active, ws, req, verdict, row, agents>>

\* AgentPipeline.run() is over.  "swallowed": its own handlers caught a timeout
\* or an exception, sent an error event and returned without a stop signal.
\* track_pipeline counts the run on the connection shim's state, not on app.state.
PipelineEnds(t) == \E v \in {"ok", "stopped", "swallowed", "raised"} :
    /\ Running
    /\ At(run, t, "piping", "finalizing")
    /\ verdict' = [verdict EXCEPT ![t] = v]
    /\ UNCHANGED <<server, late, active, ws, req, row, agents, slots, faults>>

\* The agent patched into the row, read and written back: the write may land
\* after the final one.
AgentStatusInRow(t) ==
    /\ Running
    /\ run[t] \in {"piping", "finalizing"} \/ verdict[t] # "none"
    /\ agents' = agents \cup {t}
    /\ row' = [row EXCEPT ![t] = "running"]
    /\ UNCHANGED <<server, late, active, ws, req, run, verdict, slots, faults>>

\* _RestConn.send of an agent_status event, awaited by the pipeline: the current
\* agent has a key of its own.
AgentStatus(t) ==
    /\ Running
    /\ run[t] = "piping"
    /\ agents' = agents \cup {t}
    /\ UNCHANGED <<server, late, active, ws, req, run, verdict, row, slots, faults>>

\* The final write: failed for a stop signal or an escaped exception.
WriteFinal(t) ==
    /\ Running
    /\ At(run, t, "finalizing", "over")
    /\ row' = [row EXCEPT ![t] =
                 IF verdict[t] \in {"stopped", "raised"} THEN "failed" ELSE "completed"]
    /\ Release(t)
    /\ UNCHANGED <<server, late, active, ws, req, verdict, agents, faults>>

WriteFinalFails(t) ==
    /\ Running
    /\ Fault
    /\ At(run, t, "finalizing", "over")
    /\ Release(t)
    /\ UNCHANGED <<server, late, active, ws, req, verdict, row, agents>>

-----------------------------------------------------------------------------
(* Prompts over WebSocket, as far as the shutdown sees them *)

WsPrompt(s) ==
    /\ Running
    /\ At(ws, s, "idle", IF server = "up" THEN "limiting" ELSE "refused")
    /\ UNCHANGED <<server, late, active, rest, faults>>

WsAdmit(s) ==
    /\ Running
    /\ At(ws, s, "limiting", "refused") \/ At(ws, s, "limiting", "spawned")
    /\ UNCHANGED <<server, late, active, rest, faults>>

\* A flag where a count is needed: the first run to end clears it for the others.
WsStartAsFlag(s) ==
    /\ Running
    /\ At(ws, s, "spawned", "running")
    /\ active' = 1
    /\ UNCHANGED <<server, late, rest, faults>>

\* track_pipeline around AgentPipeline.run().
WsStart(s) ==
    /\ Running
    /\ At(ws, s, "spawned", "running")
    /\ active' = active + 1
    /\ UNCHANGED <<server, late, rest, faults>>

WsEnd(s) ==
    /\ Running
    /\ At(ws, s, "running", "done")
    /\ active' = IF active > 0 THEN active - 1 ELSE 0
    /\ UNCHANGED <<server, late, rest, faults>>

-----------------------------------------------------------------------------
(* The lifespan handler *)

BeginShutdown ==
    /\ server = "up"
    /\ server' = "draining"
    /\ UNCHANGED <<late, active, ws, rest, faults>>

\* The poll loop sees no pipeline, or has waited long enough, and Redis' close is
\* awaited: whatever was admitted before goes on meanwhile, and may start.
DrainOver ==
    /\ server = "draining"
    /\ active = 0
    /\ server' = "closing"
    /\ UNCHANGED <<late, active, ws, rest, faults>>

DeadlinePasses ==
    /\ server = "draining"
    /\ active > 0
    /\ server' = "closing"
    /\ late' = TRUE
    /\ UNCHANGED <<active, ws, rest, faults>>

\* The close has returned; the process is gone.
CloseRedis ==
    /\ server = "closing"
    /\ server' = "exited"
    /\ UNCHANGED <<late, active, ws, rest, faults>>

-----------------------------------------------------------------------------
Post(t) == \/ Submit(t) \/ RateLimit(t) \/ WriteRowFails(t) \/ Schedule(t)
           \/ ConcurrentLimit(t) \/ DropRow(t) \/ DropRowFails(t)
Background(t) ==
    \/ StartRun(t) \/ LoadRow(t) \/ AbortMissing(t) \/ MarkRunning(t) \/ SetupFails(t)
    \/ PipelineEnds(t) \/ WriteFinal(t) \/ WriteFinalFails(t)
WebSocket(s) == WsPrompt(s) \/ WsAdmit(s) \/ WsStart(s) \/ WsEnd(s)
Lifespan == BeginShutdown \/ DrainOver \/ DeadlinePasses \/ CloseRedis

Next ==
    \/ \E t \in Tasks : Post(t) \/ Background(t) \/ RowExpires(t) \/ AgentStatus(t)
    \/ \E s \in Sessions : WebSocket(s)
    \/ Lifespan

Spec == Init /\ [][Next]_vars

\* Every coroutine that can run is run, Redis answers or fails, and a pipeline
\* ends (its phases run under timeouts).
Fairness ==
    /\ \A t \in Tasks : WF_vars(Background(t))
    /\ \A s \in Sessions : WF_vars(WsAdmit(s)) /\ WF_vars(WsStart(s)) /\ WF_vars(WsEnd(s))
    /\ WF_vars(DrainOver) /\ WF_vars(DeadlinePasses) /\ WF_vars(CloseRedis)

FairSpec == Spec /\ Fairness

-----------------------------------------------------------------------------
TypeOK ==
    /\ server \in {"up", "draining", "closing", "exited"}
    /\ late \in BOOLEAN
    /\ active \in Nat
    /\ ws \in [Sessions -> {"idle", "limiting", "refused", "spawned", "running", "done"}]
    /\ req \in [Tasks -> {"idle", "limiting", "writing", "accepted", "dropping",
                          "refused", "leftover"}]
    /\ run \in [Tasks -> InProgress \cup {"none", "over"}]
    /\ verdict \in [Tasks -> {"none", "ok", "stopped", "swallowed", "raised"}]
    /\ row \in [Tasks -> {"absent", "queued", "running", "completed", "failed"}]
    /\ agents \subseteq Tasks
    /\ slots \in [Users -> Nat]
    /\ faults \in 0..MaxFaults

\* A user holds exactly as many slots as runs in progress, whichever step of a
\* run fails: no slot leaks and none is released twice (rest_runner.py 261-312).
SlotsMatchRuns == \A u \in Users : slots[u] = Cardinality(InFlight(u))

\* A user never runs more tasks at once than the cap allows, however POSTs and
\* runs interleave (rest_runner.py 302-312).
CapRespected == Cap > 0 => \A u \in Users : Cardinality(InFlight(u)) <= Cap

\* The counter that decides is the number it stands for, and never passes the cap
\* (rest_runner.py 261-312).
SlotsAreExact == SlotsMatchRuns /\ CapRespected

\* A refused submission leaves no row behind that a client would poll for ever,
\* unless its deletion failed (routes.py 182-204).
RefusedLeavesNoRow == \A t \in Tasks : req[t] = "refused" => row[t] = "absent"

\* A task's status only moves forward: nothing overwrites a terminal status,
\* although the pipeline's events are written beside it (rest_runner.py 149-166).
StatusMovesForward == [][\A t \in Tasks :
    /\ row[t] \in {"completed", "failed"} => row'[t] = row[t]
    /\ row[t] = "running" => row'[t] # "queued"]_row

\* The drain ends before its deadline exactly when no pipeline over WebSocket is
\* running, those included that were admitted before the flag and began during the
\* drain: the counter it polls is never short of the runs and never behind them
\* (main.py 148-164, lifecycle.py 51-70).
CountedRunsDrained ==
    [][server = "draining" /\ server' # "draining" =>
          (late' <=> \E s \in Sessions : ws[s] = "running")]_server

\* Every run scheduled gives its slot back, with or without Redis failures.
EveryRunReleases == \A t \in Tasks :
    run[t] = "spawned" ~> run[t] = "over" \/ server = "exited"

\* While Redis works an accepted task leaves "queued" (rest_runner.py 179-182).
NoTaskStaysQueued == \A t \in Tasks :
    req[t] = "accepted" /\ row[t] = "queued"
        ~> row[t] # "queued" \/ faults > 0 \/ server = "exited"

\* A run scheduled comes to its end, and its client sees it move.
RunsMoveOn == EveryRunReleases /\ NoTaskStaysQueued

\* The lifespan handler waits for a REST run to finish before it tears down Redis
\* (comment at rest_runner.py 225-229, lifecycle.py 9-13).
RestRunsDrained ==
    server = "exited" /\ ~late => \A t \in Tasks : run[t] # "piping"

=============================================================================
