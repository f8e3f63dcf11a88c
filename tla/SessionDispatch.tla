--------------------------- MODULE SessionDispatch ---------------------------
(***************************************************************************)
(* One WebSocket connection: the serial receive loop that dispatches       *)
(* prompt, cancel and user_response, the pipeline task it spawns, and the  *)
(* questions that task asks the user (alfred/api/websocket/connection.py,  *)
(* the clarifier of pipeline_stages.py).                                   *)
(*                                                                         *)
(* Both are coroutines of one event loop: a step is the code between two   *)
(* awaits.  The pipeline is reduced to its phase boundaries, where the     *)
(* stop flag is read, and to the questions asked inside a phase.           *)
(***************************************************************************)
EXTENDS Naturals, Sequences

CONSTANTS MaxRuns,       \* bound: pipelines spawned on the connection
          MaxQuestions   \* bound: questions asked on the connection

ASSUME DispatchAssumption == MaxRuns \in Nat /\ MaxQuestions \in Nat

VARIABLES connected,  \* the client's side of the socket
          shutting,   \* app.state.shutting_down
          loop,       \* the receive loop: receive, limiting, leaving, left
          task,       \* conn.active_pipeline
          runs,       \* pipelines spawned so far; the last one is the current
          ctx,        \* conn.active_pipeline_ctx: its run, 0 for None
          stopped,    \* runs whose ctx.stop(user_cancel) was called
          ended,      \* how each run ended
          asked,      \* questions asked so far
          pending,    \* _pending_questions, in insertion order
          future,     \* the future of each question
          outcome,    \* what ask_human gave the pipeline for each question
          expired,    \* _expired_questions
          acks,       \* CLARIFIER_LATE_RESPONSE infos sent per question
          reply       \* what became of the client's last message

client    == <<connected, shutting, loop, reply>>
questions == <<asked, pending, future, outcome, expired>>
pipeline  == <<task, runs, ctx, stopped, ended>>
vars == <<connected, shutting, loop, reply, task, runs, ctx, stopped, ended,
          asked, pending, future, outcome, expired, acks>>

Runs      == 1..MaxRuns
Questions == 1..MaxQuestions
NoReply   == [kind |-> "none", q |-> 0, result |-> "none"]
Reply(k, q, r) == reply' = [kind |-> k, q |-> q, result |-> r]

Init ==
    /\ connected = TRUE
    /\ shutting = FALSE
    /\ loop = "receive"
    /\ task = "none"
    /\ runs = 0
    /\ ctx = 0
    /\ stopped = {}
    /\ ended = [r \in Runs |-> "no"]
    /\ asked = 0
    /\ pending = <<>>
    /\ future = [q \in Questions |-> "unasked"]
    /\ outcome = [q \in Questions |-> "none"]
    /\ expired = {}
    /\ acks = [q \in Questions |-> 0]
    /\ reply = NoReply

-----------------------------------------------------------------------------
(* resolve_question *)

\* Deliver to a waiting future, else acknowledge a question known to have
\* expired (once), else drop the text.
Resolve(kind, q) ==
    IF q \in { pending[i] : i \in DOMAIN pending } /\ future[q] = "pending"
    THEN /\ future' = [future EXCEPT ![q] = "answered"]
         /\ Reply(kind, q, "delivered")
         /\ UNCHANGED <<expired, acks>>
    ELSE /\ UNCHANGED future
         /\ IF q \in expired
            THEN /\ expired' = expired \ {q}
                 /\ acks' = [acks EXCEPT ![q] = @ + 1]
                 /\ Reply(kind, q, "late_info")
            ELSE /\ Reply(kind, q, "silent")
                 /\ UNCHANGED <<expired, acks>>

\* A user_response names a question the client has seen.
UserResponse(q) ==
    /\ loop = "receive"
    /\ connected
    /\ q \in 1..asked
    /\ Resolve("user_response", q)
    /\ UNCHANGED <<connected, shutting, loop, pipeline, asked, pending, outcome>>

-----------------------------------------------------------------------------
(* prompt *)

PromptRefusedByShutdown ==
    /\ loop = "receive"
    /\ connected
    /\ shutting
    /\ Reply("prompt", 0, "SHUTTING_DOWN")
    /\ UNCHANGED <<connected, shutting, loop, pipeline, questions, acks>>

\* While a clarification is pending the prompt is its answer.
PromptAsAnswer ==
    /\ loop = "receive"
    /\ connected
    /\ ~shutting
    /\ pending # <<>>
    /\ Resolve("prompt", Head(pending))
    /\ UNCHANGED <<connected, shutting, loop, pipeline, asked, pending, outcome>>

\* Otherwise the rate limiter is asked, which suspends the loop.
PromptLimited ==
    /\ loop = "receive"
    /\ connected
    /\ ~shutting
    /\ pending = <<>>
    /\ runs < MaxRuns
    /\ loop' = "limiting"
    /\ UNCHANGED <<connected, shutting, reply, pipeline, questions, acks>>

RateLimited ==
    /\ loop = "limiting"
    /\ loop' = "receive"
    /\ Reply("prompt", 0, "RATE_LIMIT")
    /\ UNCHANGED <<connected, shutting, pipeline, questions, acks>>

RefuseBusy ==
    /\ loop = "limiting"
    /\ task # "none"
    /\ loop' = "receive"
    /\ Reply("prompt", 0, "PIPELINE_BUSY")
    /\ UNCHANGED <<connected, shutting, pipeline, questions, acks>>

\* The busy check forgotten.
SpawnAlways ==
    /\ loop = "limiting"
    /\ loop' = "receive"
    /\ runs' = runs + 1
    /\ task' = "spawned"
    /\ Reply("prompt", 0, "spawned")
    /\ UNCHANGED <<connected, shutting, ctx, stopped, ended, questions, acks>>

\* No task, or a finished one: spawn.  The shutdown flag is not read again.
Spawn ==
    /\ loop = "limiting"
    /\ task = "none"
    /\ loop' = "receive"
    /\ runs' = runs + 1
    /\ task' = "spawned"
    /\ Reply("prompt", 0, "spawned")
    /\ UNCHANGED <<connected, shutting, ctx, stopped, ended, questions, acks>>

-----------------------------------------------------------------------------
(* cancel *)

\* Only the flag: the run reads it at its next phase boundary.
CancelRun ==
    /\ loop = "receive"
    /\ connected
    /\ IF ctx # 0 /\ task # "none"
       THEN stopped' = stopped \cup {ctx} /\ Reply("cancel", 0, "stopping")
       ELSE UNCHANGED stopped /\ Reply("cancel", 0, "no_run")
    /\ UNCHANGED <<connected, shutting, loop, task, runs, ctx, ended, questions, acks>>

-----------------------------------------------------------------------------
(* The pipeline task *)

\* The context of the next run taken for this one's.
TaskStartsAhead ==
    /\ task = "spawned"
    /\ task' = "boundary"
    /\ ctx' = runs + 1
    /\ UNCHANGED <<client, runs, stopped, ended, questions, acks>>

\* _run_agent_pipeline begins: a fresh PipelineContext becomes active.
TaskStarts ==
    /\ task = "spawned"
    /\ task' = "boundary"
    /\ ctx' = runs
    /\ UNCHANGED <<client, runs, stopped, ended, questions, acks>>

\* The context outlives the run.
FinishKeepingCtx(how) ==
    /\ task' = "none"
    /\ ended' = [ended EXCEPT ![runs] = how]
    /\ UNCHANGED <<client, runs, ctx, stopped, questions, acks>>

\* The finally clauses: active_pipeline_ctx and active_pipeline are cleared.
Finish(how) ==
    /\ task' = "none"
    /\ ctx' = 0
    /\ ended' = [ended EXCEPT ![runs] = how]
    /\ UNCHANGED <<client, runs, stopped, questions, acks>>

\* The stop flag not read at the boundary.
BeginPhaseAnyway ==
    /\ task = "boundary"
    /\ task' = "phase"
    /\ UNCHANGED <<client, runs, ctx, stopped, ended, questions, acks>>

BeginPhase ==
    /\ task = "boundary"
    /\ ctx \notin stopped
    /\ task' = "phase"
    /\ UNCHANGED <<client, runs, ctx, stopped, ended, questions, acks>>

\* After the last phase, or at a boundary with the flag up: run_cancelled when
\* the user stopped the run, the normal end otherwise.
RunEnds ==
    /\ task = "boundary"
    /\ Finish(IF ctx \in stopped THEN "cancelled" ELSE "done")

EndPhase ==
    /\ task = "phase"
    /\ task' = "boundary"
    /\ UNCHANGED <<client, runs, ctx, stopped, ended, questions, acks>>

\* A phase raises: PIPELINE_TIMEOUT or PIPELINE_ERROR.
PhaseRaises ==
    /\ task = "phase"
    /\ Finish("error")

\* ask_human registers the future and sends the question.
AskHuman ==
    /\ task = "phase"
    /\ asked < MaxQuestions
    /\ asked' = asked + 1
    /\ pending' = Append(pending, asked + 1)
    /\ future' = [future EXCEPT ![asked + 1] = "pending"]
    /\ task' = "asking"
    /\ UNCHANGED <<client, runs, ctx, stopped, ended, outcome, expired, acks>>

\* The finally's pop(msg_id, None).
Unregister(q) ==
    LET Found == { i \in DOMAIN pending : pending[i] = q }
    IN  IF Found = {} THEN pending
        ELSE LET i == CHOOSE x \in Found : TRUE
             IN  SubSeq(pending, 1, i - 1) \o SubSeq(pending, i + 1, Len(pending))

\* The send fails on a dead socket: the clarifier goes on with "[no response]".
AskFails ==
    /\ task = "phase"
    /\ ~connected
    /\ asked < MaxQuestions
    /\ asked' = asked + 1
    /\ future' = [future EXCEPT ![asked + 1] = "abandoned"]
    /\ outcome' = [outcome EXCEPT ![asked + 1] = "failed"]
    /\ UNCHANGED <<client, pipeline, pending, expired, acks>>

AnswerArrives ==
    /\ task = "asking"
    /\ future[asked] = "answered"
    /\ pending' = Unregister(asked)
    /\ outcome' = [outcome EXCEPT ![asked] = "answer"]
    /\ task' = "phase"
    /\ UNCHANGED <<client, runs, ctx, stopped, ended, asked, future, expired, acks>>

\* wait_for's timer finds the future unresolved and cancels it ...
TimerFires ==
    /\ task = "asking"
    /\ future[asked] = "pending"
    /\ future' = [future EXCEPT ![asked] = "cancelled"]
    /\ UNCHANGED <<client, pipeline, asked, pending, outcome, expired, acks>>

\* The entry left pending by a timeout.
AskTimesOutPending ==
    /\ task = "asking"
    /\ future[asked] = "cancelled"
    /\ expired' = expired \cup {asked}
    /\ outcome' = [outcome EXCEPT ![asked] = "timeout"]
    /\ task' = "phase"
    /\ UNCHANGED <<client, runs, ctx, stopped, ended, asked, pending, future, acks>>

\* ... and a turn of the loop later ask_human records the expiry.
AskTimesOut ==
    /\ task = "asking"
    /\ future[asked] = "cancelled"
    /\ expired' = expired \cup {asked}
    /\ pending' = Unregister(asked)
    /\ outcome' = [outcome EXCEPT ![asked] = "timeout"]
    /\ task' = "phase"
    /\ UNCHANGED <<client, runs, ctx, stopped, ended, asked, future, acks>>

-----------------------------------------------------------------------------
(* Disconnect, shutdown *)

ClientLeaves ==
    /\ connected
    /\ connected' = FALSE
    /\ UNCHANGED <<shutting, loop, reply, pipeline, questions, acks>>

\* The receive loop ends on the disconnect.
LoopEnds ==
    /\ loop = "receive"
    /\ ~connected
    /\ loop' = "leaving"
    /\ UNCHANGED <<connected, shutting, reply, pipeline, questions, acks>>

\* Its finally cancels the pipeline, and the finally of ask_human unregisters
\* the question the task was waiting on.
KillPipeline ==
    /\ loop = "leaving"
    /\ loop' = "left"
    /\ task' = "none"
    /\ ctx' = 0
    /\ ended' = IF task = "none" THEN ended ELSE [ended EXCEPT ![runs] = "killed"]
    /\ pending' = IF task = "asking" THEN Unregister(asked) ELSE pending
    /\ outcome' = IF task = "asking" THEN [outcome EXCEPT ![asked] = "failed"] ELSE outcome
    /\ UNCHANGED <<connected, shutting, reply, runs, stopped, asked, future, expired, acks>>

BeginShutdown ==
    /\ ~shutting
    /\ shutting' = TRUE
    /\ UNCHANGED <<connected, loop, reply, pipeline, questions, acks>>

-----------------------------------------------------------------------------
Prompt  == PromptRefusedByShutdown \/ PromptAsAnswer \/ PromptLimited
Admit   == RateLimited \/ RefuseBusy \/ Spawn
Run     == TaskStarts \/ BeginPhase \/ RunEnds \/ EndPhase \/ PhaseRaises
Asking  == AnswerArrives \/ AskTimesOut

Next ==
    \/ Prompt \/ Admit \/ CancelRun \/ (\E q \in Questions : UserResponse(q))
    \/ Run \/ AskHuman \/ AskFails \/ Asking \/ TimerFires
    \/ ClientLeaves \/ LoopEnds \/ KillPipeline \/ BeginShutdown

Spec == Init /\ [][Next]_vars

\* asyncio resumes whoever can run, its timers fire, and a phase returns (its
\* calls carry timeouts); nothing is assumed of the client.
Fairness ==
    /\ WF_vars(Admit)
    /\ WF_vars(Run)
    /\ WF_vars(TimerFires)
    /\ WF_vars(Asking)
    /\ WF_vars(LoopEnds)
    /\ WF_vars(KillPipeline)

FairSpec == Spec /\ Fairness

-----------------------------------------------------------------------------
(* Properties *)

\* Types of the variables; the places of the receive loop and of the task, and the
\* answers a client's message can get.
TypeOK ==
    /\ connected \in BOOLEAN /\ shutting \in BOOLEAN
    /\ loop \in {"receive", "limiting", "leaving", "left"}
    /\ task \in {"none", "spawned", "boundary", "phase", "asking"}
    /\ runs \in 0..MaxRuns /\ ctx \in 0..MaxRuns /\ stopped \subseteq Runs
    /\ ended \in [Runs -> {"no", "done", "cancelled", "error", "killed"}]
    /\ asked \in 0..MaxQuestions
    /\ pending \in Seq(Questions)
    /\ future \in [Questions -> {"unasked", "pending", "answered", "cancelled", "abandoned"}]
    /\ outcome \in [Questions -> {"none", "answer", "timeout", "failed"}]
    /\ expired \subseteq Questions
    /\ acks \in [Questions -> Nat]
    /\ reply \in [kind : {"none", "prompt", "cancel", "user_response"},
                    q : 0..MaxQuestions,
                    result : {"none", "delivered", "late_info", "silent", "spawned",
                              "stopping", "no_run", "SHUTTING_DOWN", "RATE_LIMIT",
                              "PIPELINE_BUSY"}]

\* A question is registered exactly while the pipeline waits for it, so a prompt
\* is taken for an answer only while someone can use one (lines 157-186, 558).
PendingOnlyWhileAsked ==
    pending = IF task = "asking" THEN <<asked>> ELSE <<>>

\* The client is told at most once that an answer came late, and only about a
\* question the pipeline went on without (lines 178-182, 210-231).
LateAckOnce == \A q \in Questions :
    /\ acks[q] <= 1
    /\ acks[q] = 1 => outcome[q] = "timeout"

\* The three books of a question, the pending dict, the future and the expired set,
\* agree whatever answers, timers and cancels interleave (lines 157-231).
QuestionBooksAgree == PendingOnlyWhileAsked /\ LateAckOnce

\* A spawn never replaces a run in progress: at any time at most one run of the
\* connection has not ended (lines 607-637).
OneRunAtATime == \A r \in Runs :
    r <= runs => (ended[r] = "no" <=> r = runs /\ task # "none")

\* A cancel reaches the run that is executing and never a later one that did not
\* exist when the user pressed the button (lines 502-518, 675-685).
CancelHitsRunningRun ==
    [][\A r \in stopped' \ stopped : r = runs /\ ended[r] = "no"]_vars

\* A run the user stopped ends, even one waiting for an answer nobody will give
\* (lines 157-184, 502-518).
StoppedRunEnds == \A r \in Runs : r \in stopped ~> ended[r] # "no"

\* Every question asked is settled: answered, timed out or given up.
QuestionSettles == \A q \in Questions :
    future[q] = "pending" ~> outcome[q] # "none"

\* Nothing the session waits for is waited for in vain.
NoWaitIsForEver == StoppedRunEnds /\ QuestionSettles

\* An answer to a question whose timer has fired is acknowledged to the user
\* instead of dropped (comment at lines 179-181, docstring at 199-203).
LateAnswerAcknowledged ==
    [][(reply' # reply /\ reply'.q # 0 /\ reply'.result = "silent")
          => ~(future[reply'.q] = "cancelled" /\ acks[reply'.q] = 0)]_vars
=============================================================================
