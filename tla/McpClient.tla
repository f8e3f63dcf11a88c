------------------------------ MODULE McpClient ------------------------------
(***************************************************************************)
(* MCP tool calls over one connection (alfred/tools/mcp_client.py and      *)
(* _mcp_call of alfred/tools/mcp_tools.py).  Crew threads call through     *)
(* call_sync, which blocks the thread while the coroutine call_tool runs   *)
(* on the event loop; the pipeline task awaits call_tool directly.  Both   *)
(* share one table of pending futures, and all crew threads of the         *)
(* connection share mcp_client.run_state, replaced at each prompt.         *)
(*                                                                         *)
(* A step of the loop is the code between two awaits; a step of a thread   *)
(* is a read or a write of the shared dictionary.                          *)
(***************************************************************************)
EXTENDS Naturals, Sequences, FiniteSets

CONSTANTS Keys,        \* distinct (tool, arguments) of the crews' calls
          Budget,      \* call_budget of a run
          MaxRuns,     \* bound: pipelines run on the connection
          MaxCalls,    \* bound: calls made on the connection
          MaxReplies   \* bound: responses that found an open future

ASSUME McpAssumption == Budget \in Nat /\ MaxRuns \in Nat /\ MaxCalls \in Nat
                        /\ MaxReplies \in Nat

Runs  == 1..MaxRuns
Calls == 1..MaxCalls

VARIABLES task,     \* each run's pipeline task: early, crew, late
          crew,     \* each run's crew thread
          cur,      \* the call that thread is in
          seen,     \* the calls_made it read and has yet to write back
          state,    \* mcp_client.run_state: the run that installed it, or 0
          made,     \* calls_made of each run state
          cache,    \* dedup_cache of each run state: the call behind each key
          call,     \* the calls
          pending,  \* _pending
          soon,     \* scheduled _safe_set calls, in the order of the loop
          replies   \* how many were ever scheduled

threads  == <<crew, cur, seen>>
tracking == <<state, made, cache>>
loop     == <<soon, replies>>
vars == <<task, threads, tracking, call, pending, loop>>

\* co: where call_tool is; fut: its future; answer: the first response that
\* found it open; out: how the coroutine ended, failed for a timeout, a dead
\* socket or a cancellation; got: what the caller was given.
Unmade == [co |-> "idle", fut |-> "open", answer |-> "none",
           out |-> "none", got |-> "none", cancel |-> FALSE, sent |-> FALSE,
           by |-> 0, inline |-> FALSE, under |-> 0, key |-> "none"]

Init == /\ task  = [r \in Runs |-> "unborn"]
        /\ crew  = [r \in Runs |-> "none"]
        /\ cur   = [r \in Runs |-> 0]
        /\ seen  = [r \in Runs |-> 0]
        /\ state = 0
        /\ made  = [r \in Runs |-> 0]
        /\ cache = [r \in Runs |-> [k \in Keys |-> 0]]
        /\ call  = [i \in Calls |-> Unmade]
        /\ pending = {}
        /\ soon = <<>>
        /\ replies = 0

\* The next unused request id.
Fresh(i) == /\ call[i].co = "idle"
            /\ \A j \in 1..(i - 1) : call[j].co # "idle"

InCallTool(i) == call[i].co \in {"notifying", "sending", "waiting"}
OpenInline(r) == { i \in Calls : call[i].inline /\ call[i].by = r /\ InCallTool(i) }

-----------------------------------------------------------------------------
(* Pipeline tasks *)

\* A prompt is admitted when the previous task is done.
StartRun(r) ==
    /\ task[r] = "unborn"
    /\ \A q \in 1..(r - 1) : task[q] = "over"
    /\ task' = [task EXCEPT ![r] = "early"]
    /\ UNCHANGED <<threads, tracking, call, pending, loop>>

\* init_run_state, then kickoff in a thread.
BuildCrew(r) ==
    /\ task[r] = "early" /\ OpenInline(r) = {}
    /\ task'  = [task EXCEPT ![r] = "crew"]
    /\ crew'  = [crew EXCEPT ![r] = "think"]
    /\ state' = r
    /\ UNCHANGED <<cur, seen, made, cache, call, pending, loop>>

\* Site reconnaissance before the crew, the dry run after it.
TaskCall(r, i) ==
    /\ task[r] \in {"early", "late"} /\ OpenInline(r) = {}
    /\ Fresh(i)
    /\ call' = [call EXCEPT ![i] = [Unmade EXCEPT !.co = "notifying",
                                                  !.by = r, !.inline = TRUE]]
    /\ pending' = pending \cup {i}
    /\ UNCHANGED <<task, threads, tracking, loop>>

RunEnds(r) ==
    /\ task[r] \in {"early", "late"} /\ OpenInline(r) = {}
    /\ task' = [task EXCEPT ![r] = "over"]
    /\ UNCHANGED <<threads, tracking, call, pending, loop>>

-----------------------------------------------------------------------------
(* Crew threads: _mcp_call and call_sync *)

\* The check lets one call more through.
BeginCallOverBudget(r, k, i) ==
    /\ crew[r] = "think"
    /\ made[state] <= Budget
    /\ cache[state][k] = 0
    /\ Fresh(i)
    /\ call' = [call EXCEPT ![i] = [Unmade EXCEPT !.co = "scheduled", !.by = r,
                                                  !.under = state, !.key = k]]
    /\ crew' = [crew EXCEPT ![r] = "blocked"]
    /\ cur'  = [cur EXCEPT ![r] = i]
    /\ UNCHANGED <<task, seen, tracking, pending, loop>>

\* A call over budget, or one whose key is cached, returns at once and leaves
\* no trace the model keeps; any other is scheduled on the loop.
BeginCall(r, k, i) ==
    /\ crew[r] = "think"
    /\ made[state] < Budget
    /\ cache[state][k] = 0
    /\ Fresh(i)
    /\ call' = [call EXCEPT ![i] = [Unmade EXCEPT !.co = "scheduled", !.by = r,
                                                  !.under = state, !.key = k]]
    /\ crew' = [crew EXCEPT ![r] = "blocked"]
    /\ cur'  = [cur EXCEPT ![r] = i]
    /\ UNCHANGED <<task, seen, tracking, pending, loop>>

SyncReturns(r) ==
    /\ crew[r] = "blocked" /\ call[cur[r]].co = "done"
    /\ call' = [call EXCEPT ![cur[r]].got = call[cur[r]].out]
    /\ crew' = [crew EXCEPT ![r] = "record"]
    /\ UNCHANGED <<task, cur, seen, tracking, pending, loop>>

\* The thread's own, longer, timeout; the cancel reaches the loop later.
SyncTimeout(r) ==
    /\ crew[r] = "blocked" /\ call[cur[r]].co # "done"
    /\ call' = [call EXCEPT ![cur[r]].got = "failed", ![cur[r]].cancel = TRUE]
    /\ crew' = [crew EXCEPT ![r] = "record"]
    /\ UNCHANGED <<task, cur, seen, tracking, pending, loop>>

\* run_state["calls_made"] = run_state.get("calls_made") + 1 is a read and a
\* write; another thread may run in between.
RecordRead(r) ==
    /\ crew[r] = "record"
    /\ seen' = [seen EXCEPT ![r] = made[call[cur[r]].under]]
    /\ crew' = [crew EXCEPT ![r] = "write"]
    /\ UNCHANGED <<task, cur, tracking, call, pending, loop>>

\* The tool returns to the agent; its locals are gone.
Thinks(r) == /\ crew' = [crew EXCEPT ![r] = "think"]
             /\ cur'  = [cur EXCEPT ![r] = 0]
             /\ seen' = [seen EXCEPT ![r] = 0]

\* A call counted in the try and again in the handler.
RecordWriteTwice(r) ==
    LET i == cur[r] IN
    /\ crew[r] = "write"
    /\ made' = [made EXCEPT ![call[i].under] = seen[r] + 2]
    /\ Thinks(r)
    /\ UNCHANGED <<task, state, cache, call, pending, loop>>

\* The result stored in the run state of the moment.
StoreInCurrentState(r) ==
    LET i == cur[r] IN
    /\ crew[r] = "write"
    /\ made' = [made EXCEPT ![call[i].under] = seen[r] + 1]
    /\ cache' = IF call[i].got = "result"
                THEN [cache EXCEPT ![state][call[i].key] = i] ELSE cache
    /\ Thinks(r)
    /\ UNCHANGED <<task, state, call, pending, loop>>

\* Only a call that did not raise is cached.
RecordWrite(r) ==
    LET i == cur[r] IN
    /\ crew[r] = "write"
    /\ made' = [made EXCEPT ![call[i].under] = seen[r] + 1]
    /\ cache' = IF call[i].got = "result"
                THEN [cache EXCEPT ![call[i].under][call[i].key] = i] ELSE cache
    /\ Thinks(r)
    /\ UNCHANGED <<task, state, call, pending, loop>>

\* kickoff returns; the task may be gone.
CrewReturns(r) ==
    /\ crew[r] = "think"
    /\ crew' = [crew EXCEPT ![r] = "over"]
    /\ task' = [task EXCEPT ![r] = IF @ = "crew" THEN "late" ELSE @]
    /\ UNCHANGED <<cur, seen, tracking, call, pending, loop>>

-----------------------------------------------------------------------------
(* call_tool on the loop *)

\* A task that awaited the coroutine has its outcome; a thread finds it in
\* the concurrent future, unless it has cancelled that one and gone on.  The
\* call's own future is garbage: a callback still scheduled changes nothing.
Ended(i, o) ==
    LET c == call[i] IN
    [c EXCEPT !.co = "done", !.fut = "cancelled", !.cancel = FALSE,
              !.out = IF c.got = "none" THEN o ELSE "none",
              !.got = IF c.inline THEN o ELSE @]

\* The entry left in the table.
EndWithoutPop(i, o) ==
    /\ call' = [call EXCEPT ![i] = Ended(i, o)]
    /\ UNCHANGED pending

\* The finally of call_tool.
End(i, o) ==
    /\ call' = [call EXCEPT ![i] = Ended(i, o)]
    /\ pending' = pending \ {i}

CallBegins(i) ==
    /\ call[i].co = "scheduled"
    /\ call' = [call EXCEPT ![i].co = "notifying"]
    /\ pending' = pending \cup {i}
    /\ UNCHANGED <<task, threads, tracking, loop>>

\* on_call returned or failed; the request goes out.
StartSending(i) ==
    /\ call[i].co = "notifying"
    /\ call' = [call EXCEPT ![i].co = "sending", ![i].sent = TRUE]
    /\ UNCHANGED <<task, threads, tracking, pending, loop>>

StartWaiting(i) ==
    /\ call[i].co = "sending"
    /\ call' = [call EXCEPT ![i].co = "waiting"]
    /\ UNCHANGED <<task, threads, tracking, pending, loop>>

SendFails(i) ==
    /\ call[i].co = "sending"
    /\ End(i, "failed")
    /\ UNCHANGED <<task, threads, tracking, loop>>

\* A wait_for that never gives up.
TimerNeverFires(i) ==
    /\ call[i].co = "waiting" /\ call[i].fut = "open"
    /\ UNCHANGED vars

\* wait_for wakes on its timer, finds the future open and cancels it.
TimerFires(i) ==
    /\ call[i].co = "waiting" /\ call[i].fut = "open"
    /\ call' = [call EXCEPT ![i].fut = "cancelled"]
    /\ UNCHANGED <<task, threads, tracking, pending, loop>>

TimesOut(i) ==
    /\ call[i].co = "waiting" /\ call[i].fut = "cancelled"
    /\ End(i, "failed")
    /\ UNCHANGED <<task, threads, tracking, loop>>

Answered(i) ==
    /\ call[i].co = "waiting" /\ call[i].fut \in {"result", "error"}
    /\ End(i, call[i].fut)
    /\ UNCHANGED <<task, threads, tracking, loop>>

\* Where a cancellation meets the coroutine: in the notice it passes by the
\* finally, in wait_for a future already done wins over it.
Cancelled(i) ==
    CASE call[i].co = "notifying" ->
           /\ call' = [call EXCEPT ![i] = Ended(i, "failed")]
           /\ UNCHANGED pending
      [] call[i].co = "sending" -> End(i, "failed")
      [] call[i].co = "waiting" ->
           End(i, IF call[i].fut \in {"result", "error"} THEN call[i].fut
                                                         ELSE "failed")

CancelDelivered(i) ==
    /\ call[i].cancel /\ InCallTool(i)
    /\ Cancelled(i)
    /\ UNCHANGED <<task, threads, tracking, loop>>

\* A user's cancel, an eviction or the crew's timeout ends the task; its crew
\* thread, and that thread's calls, go on.  A call just answered swallows it.
RunAborts(r) ==
    /\ task[r] \in {"early", "crew", "late"}
    /\ task' = [task EXCEPT ![r] = "over"]
    /\ \/ OpenInline(r) = {} /\ UNCHANGED <<call, pending, loop>>
       \/ \E i \in OpenInline(r) :
            /\ ~(call[i].co = "waiting" /\ call[i].fut \in {"result", "error"})
            /\ Cancelled(i)
    /\ UNCHANGED <<threads, tracking, loop>>

-----------------------------------------------------------------------------
(* handle_response, and the callbacks it schedules *)

\* A reply that finds no future, or a done one, is dropped; one that finds an
\* open future may still race another reply to it.
HandleResponse(i, a) ==
    /\ call[i].sent
    /\ IF i \in pending /\ call[i].fut = "open"
       THEN /\ replies < MaxReplies
            /\ replies' = replies + 1
            /\ soon' = Append(soon, <<i, a>>)
            /\ call' = [call EXCEPT ![i].answer = IF @ = "none" THEN a ELSE @]
       ELSE UNCHANGED <<loop, call>>
    /\ UNCHANGED <<task, threads, tracking, pending>>

\* The last answer wins.
SetFutureAnyway ==
    /\ soon # <<>>
    /\ soon' = Tail(soon)
    /\ UNCHANGED replies
    /\ call' = [call EXCEPT ![Head(soon)[1]].fut = Head(soon)[2]]
    /\ UNCHANGED <<task, threads, tracking, pending>>

\* _safe_set_result and _safe_set_exception look again.
SetFuture ==
    /\ soon # <<>>
    /\ soon' = Tail(soon)
    /\ UNCHANGED replies
    /\ call' = [call EXCEPT ![Head(soon)[1]].fut =
                    IF @ = "open" THEN Head(soon)[2] ELSE @]
    /\ UNCHANGED <<task, threads, tracking, pending>>

-----------------------------------------------------------------------------
Coroutine(i) == \/ CallBegins(i)
                \/ StartSending(i)
                \/ StartWaiting(i)
                \/ SendFails(i)
                \/ TimerFires(i)
                \/ TimesOut(i)
                \/ Answered(i)
                \/ CancelDelivered(i)

InTool(r) == \/ SyncReturns(r)
             \/ SyncTimeout(r)
             \/ RecordRead(r)
             \/ RecordWrite(r)

Next == \/ \E r \in Runs : \/ StartRun(r)
                           \/ BuildCrew(r)
                           \/ \E i \in Calls : TaskCall(r, i)
                           \/ RunEnds(r)
                           \/ RunAborts(r)
                           \/ \E k \in Keys, i \in Calls : BeginCall(r, k, i)
                           \/ InTool(r)
                           \/ CrewReturns(r)
        \/ \E i \in Calls : \/ Coroutine(i)
                            \/ \E a \in {"result", "error"} : HandleResponse(i, a)
        \/ SetFuture

Spec == Init /\ [][Next]_vars

\* The loop runs what is ready, writes end (a dead peer fails them), timers
\* fire, and a thread whose future.result is over goes on.  Agents, runs and
\* the client app owe nothing.
FairSpec ==
    /\ Spec
    /\ \A i \in Calls : WF_vars(Coroutine(i))
    /\ \A r \in Runs : WF_vars(InTool(r))
    /\ WF_vars(SetFuture)

-----------------------------------------------------------------------------
(* Properties *)

TypeOK ==
    /\ task \in [Runs -> {"unborn", "early", "crew", "late", "over"}]
    /\ crew \in [Runs -> {"none", "think", "blocked", "record", "write", "over"}]
    /\ cur \in [Runs -> 0..MaxCalls]
    /\ seen \in [Runs -> 0..MaxCalls]
    /\ state \in 0..MaxRuns
    /\ made \in [Runs -> 0..MaxCalls]
    /\ cache \in [Runs -> [Keys -> 0..MaxCalls]]
    /\ call \in [Calls -> [co : {"idle", "scheduled", "notifying", "sending",
                                  "waiting", "done"},
                           fut : {"open", "result", "error", "cancelled"},
                           answer : {"none", "result", "error"},
                           out : {"none", "result", "error", "failed"},
                           got : {"none", "result", "error", "failed"},
                           cancel : BOOLEAN, sent : BOOLEAN, inline : BOOLEAN,
                           by : 0..MaxRuns, under : 0..MaxRuns,
                           key : Keys \cup {"none"}]]
    /\ pending \subseteq Calls
    /\ soon \in Seq(Calls \X {"result", "error"})
    /\ replies \in 0..MaxReplies

\* What the caller sees of a call, as ToolCalls tells it.
Seen(i) == CASE call[i].co = "idle" -> "unmade"
             [] call[i].co # "idle" /\ call[i].got = "none" -> "open"
             [] OTHER -> call[i].got

Abstract == INSTANCE ToolCalls WITH outcome <- [i \in Calls |-> Seen(i)],
                                    answer  <- [i \in Calls |-> call[i].answer]

\* Timers of two threads, duplicate and late responses and cancels in any
\* order give each call one outcome, and an answer is the first response.
ToolCallsImplemented == Abstract!Spec

\* _pending holds exactly the calls inside call_tool, but for those cancelled
\* in the notice, before their request went out: no response can find a
\* future nobody awaits.
PendingOnlyWhileCalled ==
    /\ \A i \in pending : InCallTool(i) \/ ~call[i].sent
    /\ \A i \in Calls : InCallTool(i) => i \in pending

CrewCalls(s) == { i \in Calls : call[i].co # "idle" /\ ~call[i].inline
                                                  /\ call[i].under = s }

\* A run state that only one crew has used never lets more than Budget calls
\* through, timeouts and failures included.
SoloBudget ==
    \A s \in Runs : (\A i, j \in CrewCalls(s) : call[i].by = call[j].by)
                    => Cardinality(CrewCalls(s)) <= Budget

\* What a run takes from the dedup cache was answered under its own run state
\* to the same request, whatever threads of earlier runs are still at work.
CacheOfThisRun ==
    \A s \in Runs, k \in Keys :
        LET i == cache[s][k] IN
        i # 0 => /\ call[i].under = s
                 /\ call[i].key = k
                 /\ call[i].answer = "result"

\* Every call ends for its caller, answered or not.
EveryCallEnds == \A i \in Calls : Seen(i) = "open" ~> Seen(i) # "open"
=============================================================================
