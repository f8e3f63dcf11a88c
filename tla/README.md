# Alfred processing app: TLA+ verification

Alfred's processing app is one asyncio process (`WORKERS=1`, `alfred/main.py` 97-114)
that takes prompts over a WebSocket or over REST, runs an agent pipeline for each, and
keeps its durable state in Redis.  The event loop gives atomicity between two `await`s
and nothing more; crews run in threads beside it.  This project models the parts whose
correctness depends on how those steps interleave, checks them with TLC and proves
their main invariants with TLAPS.

## 1. Inventory

| part | state | operations | hard behaviour | what makes it correct |
|---|---|---|---|---|
| connection registry (`api/websocket/connection.py`) | `_connections`, one endpoint coroutine per socket, its `active_pipeline` | handshake, pop and evict the prior connection, install, greet, receive loop, cleanup | reconnects that overlap, an eviction during a prompt, a cleanup after an eviction | one session per conversation, evicted once and for good, no pipeline without a socket |
| message dispatch and questions (same file, `pipeline_stages.py`) | `active_pipeline(_ctx)`, `_pending_questions`, `_expired_questions` | prompt, cancel, user_response, resume, ack; `ask_human`, `resolve_question` | answer against timeout, cancel against start and end of a run, an await between check and spawn | one run at a time, a cancel reaches the run it was meant for, every question settles |
| REST runner (`api/routes.py`, `api/rest_runner.py`) | `_concurrent_tasks`, the task row and `current_agent` in Redis | POST with its gates, background run, release | Redis failures between two steps, late events of a crew | slots equal runs, cap, no orphan row, status moves forward |
| shutdown (`main.py`, `api/lifecycle.py`) | `shutting_down`, `active_pipelines` | flag, poll, close Redis | runs admitted before the flag and started during the drain, or after it | the drain ends early only when nothing runs |
| MCP client and tools (`tools/mcp_client.py`, `mcp_tools.py`) | pending futures by request id, per-run budget, dedup cache, failure counter | `call_tool`, `call_sync` from the crew's thread, `handle_response` | responses late, duplicated, for unknown ids; two timeouts; a crew that outlives its run | each call completes once with its own response, nothing stays pending, budget respected |
| pipeline (`api/pipeline/*`) | `PipelineContext`: mode, stop signal, changes, memory | fifteen phases, short circuits for chat / insights / plan, post-crew stages | a stop in the middle, a stage failing, timeouts | phases in order, one terminal message, cancel wins |
| conversation memory and plans (`state/conversation_memory.py`, `handlers/plan.py`) | one JSON document per conversation | load, add turn, plan proposed / approved / built, save | lost updates, failed loads, failures after an approval | the history and the plan's status follow what happened |
| safety nets, dry run (`api/safety_nets/*`, `pipeline_stages.py`) | the changeset | drift, rescue, backfill, handoff, module check, dry run and one retry | order, a net that fails | what is previewed is what was checked |
| event stream (`ConnectionState.send` and the resume branch of `connection.py`, `state/store.py`) | one Redis stream per conversation, the last message id a client has | send and mirror, push a sentinel, read after an id, replay | a send and its store are two steps of two coroutines; a store cancelled, late or failing; trimming; a takeover in between | nothing a client still lacks lies before the event it resumes from; the stream is a log of one session after the other |
| rate limiter (`middleware/rate_limit.py`) | one sorted set of stamps per site and user | count and enter in a transaction, withdraw a refused entry | `now` read before an await, transactions out of order, failed rollbacks, expiry of the key | the window is bounded, a refusal costs nothing |
| admin portal (`api/admin_client.py`) | plan cache, usage queue | check a plan through the cache; report, register and flush (no caller) | requests that miss the cache together and write in any order | no prompt goes by a stale answer |
| crews (`agents/crew.py`, `condenser.py`, `plan_crew.py`) | the tasks of a crew, `CrewState` and its checkpoint in Redis, the threads of the default executor | build, kick off, condense, collect, save, tell | a coroutine that is cancelled and a thread that is not, a save that comes late, a full pool | a result is the agent's own words, a checkpoint is the latest run's, a developer crew ends |
| extraction, backfill, module specialists (`extract.py`, `backfill_defaults.py`, `module_specialist.py`) | none; they rewrite the changeset and its pills | extract, fill, add roles, swap naming, note | five writers of the same fields, notes that point into a list that changes | the agent's values stay, each pill tells its writer, a note finds its item |
| classifiers (`orchestrator/*`) | none | pure functions | fall-back order | the documented precedence |
| authentication, defence, knowledge base, registries, observability, LLM client, configuration | static data | pure functions, I/O | - | outside the models |

The parts meet in a few places.  An endpoint coroutine spawns a pipeline task; the task
asks questions through the connection, calls tools through the connection's MCP client,
starts a crew thread that uses the same client, and writes to Redis.  A REST run is the
same pipeline behind a shim of the connection.  The lifespan handler sees runs only
through a counter.

## 2. Plan

1. `ConversationRegistry`, `SessionDispatch`, `RestTasks` - done (section 3).
2. `RestTasksProofs`, `ConversationProofs` - done (section 5).
3. `McpClient`, which implements the abstract `ToolCalls` and its refinement proof
   (`McpClientProofs`) - done.
4. `Pipeline` (phases, stop signals, short circuits, memory and plan documents, the dry
   run with its one retry) and `PipelineProofs` - done.
5. `Changeset` (what the extraction, the safety nets, the review and the retry do to a
   changeset's items) and `ChangesetProofs` - done.
6. `Classification` (the decision order of mode, intent and module), which `Changeset`
   extends so that its turns are those a prompt can lead to - done.
7. `SessionDispatchProofs` - done.
8. `EventStream` (send, mirror, takeover, resume) and `EventStreamProofs` - done.
9. `Admission` (the sliding window and the plan check) and `AdmissionProofs` - done.
10. `CrewTasks` (what a crew is made of, the pool of threads, the checkpoint) - done,
    proved in `ConversationProofs`.
11. The budget and the cache of `McpClient`, the notes of `Changeset` (in their proof
    modules) - done.
12. Left: the REST poller of the event stream and the field registries behind
    `Changeset`'s abstract fields.

`EventStream`, `Admission` and `CrewTasks` look again, and closer, at what `SessionDispatch`,
`RestTasks` and `ConversationRegistry` take as one step or one choice (a send, the verdict of
the rate limiter, a crew); they share no variables with them and are not composed.

## 3. Modules

### ConversationRegistry

The coroutines of one conversation.  `registry` is the dictionary's entry for it,
`pc[c]` the place of the endpoint `c` in `websocket_endpoint`, `old[c]` its local
`old_conn`, `pipe[c]` the task it owns.  Each `await` of the takeover is a program
point: `sentinel` (push_event, 748), `closing` (close, 774), `greeting` (785); in the
loop `admitting` stands for the awaited rate limiter; in the finally `unregistered` is
the awaited heartbeat and `draining` the awaited pipeline.  The crew is a thread:
`CancelTask` on a pipeline in `crew` leaves a zombie behind.  Other conversations share
nothing with this one but the dictionary, so one key is enough.

Not in this model: message contents, the questions (next module).  A connection object
serves one handshake, so `Conns` are attempts, not clients.

### SessionDispatch

The receive loop and the pipeline task of one connection.  The loop is serial, hence a
single program counter; it suspends inside a prompt only at the rate limiter.  The task
is reduced to its phase boundaries, where `should_stop` is read, and to questions.  A
question's `future` is asyncio's future, `outcome` what `ask_human` handed to the
clarifier, `expired` the side table of late questions.  `TimerFires` and `AskTimesOut`
are two steps because `asyncio.wait_for` (Python 3.11, the deployed version) cancels the
future some turns of the loop before the awaiting coroutine runs again.  The `wait_for` of
3.11 can also swallow a cancellation when the future is already done; the model
delivers it.  The one-hour expiry of the late table is left out: runs are shorter.

### RestTasks

The POST handler, the background run, the row, the slots, and the lifespan handler, with
WebSocket runs as far as the shutdown counts them.  Every Redis call may fail (`Fault`,
bounded by `MaxFaults`) and the row may expire.  `verdict` is how `AgentPipeline.run` ended;
`swallowed` is a timeout or an exception its own handlers turned into an event.  `active`
moves with WebSocket runs only: a REST run is tracked on the shim's own namespace
(`rest_runner.py` 125-129, 231).  `server` is where the lifespan handler is: `up`, `draining`
in its poll loop, `closing` while Redis' `aclose` is awaited, `exited`.  Handlers go on
through the first three, as `main.py` 137-143 supposes; a server that ends its handlers before
the lifespan shuts down has fewer behaviours.  So a prompt that read the flag before it was
set may start its pipeline during the drain, which `CountedRunsDrained` covers, or after the
last poll, which nothing waits for (section 6).  A message of the crew is written while the
pipeline is awaited, so `AgentStatus` ends with it.

### McpClient and ToolCalls

`ToolCalls` is the promise to a caller: a call that was made ends with one outcome, and
an answer is the client app's first.  `McpClient` implements it with two threads of
control per crew call: the thread in `call_sync` (`crew`, `cur`, `seen`) and the
coroutine `call_tool` on the loop (`co`, `fut`, `out` of `call[i]`), each with a timer
of its own.  The pipeline task calls `call_tool` directly (`inline`).  `pending` is
`_pending`, `soon` the callbacks that `handle_response` scheduled with
`call_soon_threadsafe`, `state`, `made` and `cache` are `mcp_client.run_state`, its
`calls_made` and its `dedup_cache`.  A run may abort under its crew (cancel, eviction,
crew timeout); the thread goes on and picks up the run state of the next prompt.
Timeout, dead socket and cancellation are one outcome, `failed`: `_mcp_call` treats them
alike but for the wording.  A cancel in the notice (`on_call`) passes by the finally of
`call_tool` and leaves its entry in `_pending` for good; the request has not gone out
then, so nothing can ever resolve it.

Not in this model: failure hints and per-tool counters (text for the agent), a second
crew within one run (the dry run's retry runs after the first has returned, under the
same run state), `list_tools` (no caller).

### Pipeline

The prompts of one conversation, one after another, each through the fifteen phases of
`AgentPipeline` and on to the next over the conversation memory in Redis.  `at` is the
phase; `_phase_post_crew` is cut at its awaits into `post_crew`, `rescue`, `reflect`,
`dry_run`, `retry`, `record` and `preview`, since a cancel or a dropped socket can come
in between.  `stop` and `signal` are `ctx.should_stop` and the code of
`ctx.stop_signal`; `Continue` is the test of `should_stop` between two phases and
`Finish` what `run()` does after the loop.  There are two ways to send: `Say` is the
guarded one that loses a message on a dead socket; an unguarded send raises, and `Raise`
is the handler of `run()` that reports it.  `memory` is the document the run holds,
`store` the one in Redis: `LoadState` copies it (or starts afresh, when the read fails),
`Remember` and `Record` write it back (or not, when the write fails).  A window of the
memory lists the turns that wrote an entry, `plan` the status of the active plan and the
turn it comes from.  `changes` says who wrote the changeset, whether from a text the
drift check condemns, and how many items it has, with two for several; `verdict`
carries the changeset it was given on.

What an LLM, the site, Redis or the admin portal answers is a choice.  Intent, module,
knowledge and tier only word the agents' tasks and are left out; the nets that rewrite
the content of items are module `Changeset`'s.

Three things the model made plain.  An approval is never stored: it lives in the run's
memory, and the only saves behind it are those of a run that also builds, so the case
that the comment in `_phases_orchestrate.py` 256-259 provides for does not arise.  The
error code for a failed save is unreachable, `save_conversation_memory` swallows the
failure.  A cancel that is accepted may still be reported as the error of a later stop,
which `EndIsTold` allows (section 6).

### Classification

How a prompt becomes the turn of `Changeset`: `Modes` is `classify_mode` behind
`_phase_orchestrate`, `IntentsOf` and `ModulesOf` with `Others` are the classifiers of
`_phases_dev.py`, each a set of the decisions that may come out.  A prompt is a record of
what the fixed rules see of it (the mode switch, how it begins, an analytics phrase, the
first intent family with a pattern, a Save-as-Report trailer, the module of its first DocType
name, the modules with a keyword); `Flags` are the five feature flags.  A trailer is a
set: empty when there is none that parses, otherwise with `object` and those of `name`,
`query` (with an aggregation) and `target` that the client's JSON has.  An LLM's answer, its
failure and a low confidence are choices within the same set.  `Classify` and `Divert` are the
actions that use it.  Two of the 22 intents stand for all, as in `Schema`.

Reading the three classifiers side by side shows three disagreements no document settles. The
comment at `orchestrator/mode.py` 127-129 says deploy verbs are checked first so that a "build
a Report ..." still goes to Dev; that holds for `_fast_path`, while
`_looks_like_analytics_query` (`intent.py` 312, "mirrors the mode-level Insights fast-path")
has no such check, so "create a ..., as many as there are on my site" goes to Dev, or under
the Dev switch to Insights, and its intent is `unknown` in either case.  `force_dev_override`
(`context.py` 58: "Frontend sends this as data.force_dev") is read by nothing in
`connection.py` and stays false, hence `Overridden` has no case for it.  And `mode.py` 489-785
repeats the intent and module classifiers with other tables; the package exports those of
`intent.py` and `module.py`, which are modelled.

### Changeset

The content of one turn's changeset from the crew's answer to the preview, on the path
nobody cancels (cancels, disconnects and failures of the turn are `Pipeline`'s).  `stage`
is the next step: `classify` (or `diverted`, to a mode that answers itself), then those of
`_phase_post_crew`: `extract`, `rescue`, `backfill`, `handoff`,
`validate`, `gate`, `dry_run`, `retry`, `preview`.  `turn` is what the classifiers left in
the context, `changes` is `ctx.changes`, `notes` is `ctx.module_validation_notes`,
`pruned` is `ctx.removed_by_reflection`, `verdict` is `ctx.dry_run_result` with the
changeset it was given on.  `filled` is a history variable: a failing backfill is swallowed.

An item's `data` says of each field *who wrote it* (nobody, the agent, the registry, the
handoff, the module whose naming pattern it is), `pill` is the `source` in its
`field_defaults_meta`, `roles` are the roles of its permission rows.  `gives`, `granted`
and `annotated` keep what the agent had said.  The list is a set whose items carry the
position `pos` they have in the answer.

Abstractions.  Two intents and eight fields stand for the registries: a field with a
default and one without per intent, `autoname` and `permissions` because the modules touch
them, the handoff's three and `report_name`.  `is_standard` and `filters_json` are left
out: the handoff fills them as it fills `report_name`.  A candidate that lacks a part leaves
the field alone (`Named`, `Forced`).  An agent's value never equals the
registry's or the handoff's, and is never empty.  A rule of a module applies to an item of
its doctype when the fields it looks at are the agent's.  Where a text holds its JSON is
not modelled: an answer is a container of entries, or nothing.

Three things the model made plain.  An item the retry produced has been through none of the
nets: no defaults, no pills, no query of the handoff, no notes; `PillsTellWriter` and
`HandoffIsAuthoritative` except it by name.  A note's `changeset_index`
(`docs/specs/2026-04-22-module-specialists.md` 214: "which ctx.changes item this applies
to") is counted before the review: until a fix replaces the list it names its item in what the
client gets exactly if the review dropped neither that item nor one before it
(`NotesTraceBack`).  And the pill of a value the specialist says it defaulted reads "user"
(section 6).

### EventStream

What one client of one conversation sends for and gets.  An event is the number of its
`msg_id`.  `Write` and `Store` are the two halves of `ConnectionState.send` (frame, then
awaited `push_event`); `at[s][w]` says where the receive loop (`loop`) or the pipeline
task (`run`) of session `s` is in it.  `stream` is the Redis stream, which `Push` may trim
a little late, `wire` the frames under way, `seen`, `first` and `last` what the client has
and remembers.  `Connect`, `PushSentinel` and `Evict` are the takeover cut at its awaits,
`Cleanup` the endpoint's finally with its unconditional pop (822), `Resume`, `ReadStream`
and `ReplayNext` the resume branch.  `excused` and `stranded` are history variables that
name exactly what a replay cannot be blamed for: events stored while another was on its
way into Redis, on their way when the stream was read, or passed over by a read that
failed; and sessions whose successor did not find them, because of 822.

The model made plain what that is.  Two coroutines of a session may store in another order
than they sent, so the comment at `connection.py` 428-430 ("serialised in the order they
went out") does not hold for sends that overlap.  A failed `get_events` is silent, and
nothing marks the end of a replay.  A send that raises on a dead socket stores nothing.
Messages that pass by `send` (`auth_success`, `PIPELINE_BUSY`, `RATE_LIMIT`,
`SHUTTING_DOWN`) are never mirrored.  An event of the old session that was under way may
come after its `run_evicted`.

The client is code of another repository.  It is taken to be one tab that leaves a socket
before it opens the next and resumes before it prompts.  Not in this model: a page reload
(which forgets `last`), a second tab, the stream's TTL, a server without a store, the REST
poller, and `last_acked_msg_id`, which nothing reads.

### Admission

The requests of one user at the limiter and at the plan check, with a clock.  A request
reads its `stamp` before the transaction is awaited (`Ask`), and `Admit`, `Deny` or
`FailOpen` is that transaction, with the pruning, the new entry and the expiry it carries.
`Withdraw` is the rollback of a refused entry.  REST and WebSocket requests share the
bucket and differ in `cap`: REST has the server's default, a WebSocket prompt the
`max_per_hour` of the client's own `site_config`.  `Delay` and `PortalTimeout` bound how
long a call is under way, and the properties name them.  `cache` is the plan cache with the
time of the portal's answer, `age` how old the answer was that a request went by.

Two requests of the same instant are one member of the set, which is why `WindowRespected`
leaves them out (`Unshared`).  A cap of zero or less means no limit and is not modelled, nor
is the wording of `retry_after`.  The comment "fall back to cached" at `admin_client.py` 69
describes nothing: an unreachable portal is not answered from the cache, it allows
(`Offline`).  `report_usage`, `register_site` and `flush_usage_queue` have no caller in
`alfred/`.

### CrewTasks

The crews of one conversation, one run after the other.  `Active(kind)` is the list of
tasks a crew is built with, `co` the coroutine `run_crew` (or the handler that stands for
it, for plans, insights and the fix), `thread` its kickoff in the loop's default executor,
`queue` the kickoffs that wait for a thread.  `out` are the raw outputs of the tasks:
the agent's own words, blank, or made compact by the condenser for the next task.
`FinalResult` is what `run_crew` picks, `CompletedTasks` what it notes for the checkpoint.
`Drop` is a `CancelledError` at an await: a kickoff that has no thread yet will not get
one, one that runs goes on, and a save under way may still reach Redis (`LateSave`).

The model made plain: `run_crew` stores outputs under `task_names[i]` of all six tasks, and
not of the active ones (`crew.py` 884-895), so a plan's `generate_plan_doc` is noted as
`design_solution`; a lite crew's changeset is noted as `gather_requirements`.  A finished
crew whose `crew_completed` cannot be sent is a failed one.  Insights and plan handlers and
the fix crew have no time limit, only the developer crews' `wait_for`.  The checkpoint has
no reader: `load_crew_state` has no caller, nor has the `human_input` handler.

Not in this model: agents, prompts, the token count, and other users of the executor.
The specification is called `CrewSpec` (and so on) because `ConversationProofs` extends this
module together with `ConversationRegistry`.

## 4. Runs

| run | expects | shows |
|---|---|---|
| `registry` | pass | three attempts, one prompt: a connection has one evictor at most (`OneEvictor`), is never listed again and is closed before its successor is installed (`EvictionIsFinal`), and its pipeline ends (`ClosedSocketStopsPipeline`) |
| `registry_third_reconnect` | violation of `OneOpenSession` | the evicted endpoint's finally pops its successor's entry |
| `dispatch` | pass | two runs, two questions: the tables agree with what is asked (`QuestionBooksAgree`), one run at a time, cancels hit the running run, stopped runs and questions end (`NoWaitIsForEver`) |
| `dispatch_late_answer` | violation of `LateAnswerAcknowledged` | an answer between the timer and the record of the expiry is dropped |
| `rest` | pass | two tasks, one slot, two WebSocket prompts, one fault, a shutdown: slots equal runs and respect the cap (`SlotsAreExact`), no row of a refused task, the drain ends early exactly when no WebSocket pipeline runs (`CountedRunsDrained`), status moves forward, no task is left queued and no slot taken (`RunsMoveOn`) |
| `rest_shutdown` | violation of `RestRunsDrained` | the drain does not see REST runs |
| `mcp` | pass | two runs, two calls: the client implements `ToolCalls`, the pending table, the budget of a run state used by one crew, the cache, every call ends |
| `pipeline` | pass | three prompts with every refusal, failure, cancel, disconnect and abort: each turn is told once and none ends silently (`TurnIsToldOnce`), previews are vetted, failures leave no trace, the plan's life, every turn ends |
| `changeset` | pass | eight shapes of answer, three modules, every prompt, set of flags and trailer: the agent's values stay, pills tell the writer, the handoff writes exactly what it has, notes find their items |
| `stream` | pass | three sockets, three messages, a stream of two: resuming after the last event skips nothing the client lacks (`AnchorIsSafe`), and the stream is a log (`StreamIsALog`) |
| `admission` | pass | three requests under caps of one and two: the window is respected, refusals are free, plans are recent |
| `crew` | pass | three crews and one thread: results are verbatim, the checkpoint is the latest developer run's, a developer crew ends whatever the pool does (`DevCrewEnds`) |

Bounds.  Three connections are what the wrong cleanup needs (evictor, evicted, and one that
meets the missing entry); one prompt can be in flight, or be admitted after the cancel, while
another connection evicts.  Two runs and two questions let every late event of the first meet
the second.  Two tasks of one user compete for a slot, one fault hits every step in turn, and
two prompts tell a counter of runs from a flag.  Two runs let a leftover crew meet a new run
state, and two calls and two responses let a timeout, a late response and a duplicate race.
In `pipeline`, three prompts are a plan, a failed attempt to build it and a second one
(`MaxTurns = 3`), and a window of two (`Kept = 2`, five prompts in the code) overflows at the
third. In `changeset`, the answers are lists, wrapped lists and bare dicts with bare and full
items of both intents, stray JSON and prose between them; of the three modules one has a
naming pattern, two add a role they share and have a rule whose severity is a blocker, and the
third has no conventions.  `MaxSecondaries = 1` (two in the code) is exceeded by a prompt with
keywords of all three. In `stream`, three sockets are the evictor, the evicted and the one
that meets a missing entry; three messages are one to resume from, one stored before it and
one overlapping; a stream of two (`MaxLen`) is trimmed at the third, and one Redis call may
fail, at a store, a sentinel or a read.  In `admission`, three requests exceed both caps, and
a clock of five ticks with a window of four lets the first leave the window and the key
expire; a call may take one tick (`Delay`, `PortalTimeout`) and the cache lasts two.  In
`crew`, one thread is what an abandoned kickoff needs to keep the next waiting, and the third
run comes after both. `SerialHandshakes` and the smaller bounds of the violation runs only
shorten the counterexample.  Deadlock checking is off: clients may leave and the process may
exit.

Fairness.  asyncio resumes a coroutine whose await is over, timers fire, and calls carry
timeouts, so the steps of the server are weakly fair.  Clients, answers, shutdowns and
crews owe nothing (in `pipeline`, the question's 900 s and the crew's time limit are what
lets the turn end; one call, `fix_crew.kickoff` of the retry, has no time limit, only
`max_iter=3`); a cancelled task ends whether or not its crew does.  In `crew` only the
coroutine is fair (`RunCrew`, the time limit included): no thread needs to get on, no worker
to take a kickoff, so `DevCrewEnds` says that the time limit alone ends a developer crew.
`stream` and `admission` check safety and assume no fairness.

## 5. Proofs

Eight modules of proofs.  They prove, for every value of the constants, every invariant and
action property that a passing run checks, and that `McpClient` implements `ToolCalls`; the
runs' other temporal properties are liveness.  Some facts are proved only and cost
no run: the types of `RestTasks`, `ConversationRegistry` and `Pipeline`, that a stale entry
can only come from a greeting that failed (`StaleEntryHarmless`), and that a preview shows
the changeset its verdict was given on (`PreviewIsOfTheVerdict`).

*REST.*  From `RestAssumption` (finite sets, a natural cap).  `SlotsMatchRuns` counts a
set that changes by one element when `run` enters or leaves `InProgress`; that a spawn
really adds an element needs `RowStages` (a request that is still writing has no run).
The same invariant says a terminal row belongs to a run that is over, which gives
`StatusMovesForward`.  `CapRespected` is not inductive; `SlotsWithinCap`, on the counter
the code checks, is, and `SlotsMatchRuns` carries it over to the runs.  The drain needs
`active` to equal the number of running sessions (`CounterStep`), and that the deadline is
noted only on leaving the loop (`LateOnceOver`).

*Registry.*  From `NoConn \notin Conns`.  `OneEvictor` and `EvictedStaysOut` need each
other and two facts about places: the entry names only a connection that has installed
itself, and so does every `old`; a takeover in progress is therefore neither listed nor
evicted.  `EvictionIsFinal` is the last two of these together.

*Crews.*  From `CrewAssumption` (natural bounds, a pool of at least one thread).  `Sequential`
says that a run has begun only when those before it have ended; so at most one is under way,
and when one is built no kickoff waits for a thread (`AtRest`).  `Threads` ties the place of a
kickoff to that of its coroutine: one in the queue is awaited, one at work is awaited or was
dropped.  `StartsFresh` then needs no more, since a save is the current run's own, or comes
late and is excused.  `HandedOverVerbatim` follows the outputs: while a run is awaited they
are what its tasks and the condenser left (`Outputs`), a crew's last task and its
`generate_changeset` are never condensed and the latter is there once (`Names`), so what
`FinalResult` picks is verbatim (`CollectsVerbatim`) and stays with the run (`Results`).  Of a
run that was given up only the number of outputs matters, as nobody collects them.  The types
include the bound on the threads and that the queue holds exactly the kickoffs still wanted;
three lemmas say what `Append`, `Tail` and `RemoveAt` do to it.

*Dispatch.*  From natural bounds.  The invariant says where the two references to a run and
the three books on a question (future, pending, expired) stand at each place of the task.
`OneRunAtATime` needs that a run that was never spawned has neither ended nor been stopped
(`StopsSpawned`); `CancelHitsRunningRun` is an action property and needs that the stored
context is the current run's from its first step to its finally (`CtxIsCurrent`).

*Event stream.*  From `StreamAssumption` (natural bounds, a stream of at least one).  That the
stream is a log needs to know which sockets may still be open: once a session serves, those
before it are closed or stranded (`Retired`), and this is inductive only with what a
takeover will find (`Heir`), as it may begin when the entry is gone.  A message under way
from an older session is then overtaken only while it is excused (`Straggling`).
`AnchorSafe` is about the client.  `Owed` are the events since its first that it neither has
nor can do without, `Ahead` says that an event is in the stream before another or before the
place the other will get.  Nothing owed is ahead of the last event (`LastInOrder`), nor of one
on the wire or in a replay but for what comes earlier there; and this is kept because to a
client that listens all that is owed is on its way (`CaughtUp`), because it hears its own
session's messages before they are stored (`Heard`), and because other sessions' stragglers
are not owed to it (`NotOwed`).  `PushKeeps` is the heart: an entry added at the end of the
stream overtakes nothing, unless something is under way, and then it is excused.

*Admission.*  From `AdmissionAssumption` (finitely many requests, caps of at least one, natural
times).  `EntriesKept` says that the entry of a request that was let through stays until it
is a window old: a pruning goes by a stamp that is not ahead of the clock, a rollback removes
the entry of another only if they share the instant, and the key outlives every entry
(`KeyOutlives`).  So each count sees all that were let through before, and as they have
different turns (`TurnsDiffer`) each was checked against those before it; `Delay` is what a
stamp may be behind its transaction (`InTime`).  For `PlanIsRecent` the age of the cached
answer is bounded by its expiry and the two calls before it (`CacheIsRecent`).

*MCP client.*  `McpClientProofs` proves `Spec => ToolCallsImplemented` from
`McpAssumption` (the bounds are natural numbers).  An answer must be the *first*
response although several may be scheduled before the future is set, so the invariant
follows one value along its way: the first callback of an open future carries the first
response (`QueueInOrder`), and future, coroutine and caller hold nothing else
(`OneAnswer`).  That a call gets no second outcome needs `WaitersUntold`: a blocked
thread and a suspended task have not been told.  `CallStep` and `OneCallSeen` say once
what a step on a single call must respect; each action then only shows its fields.  The
budget counters are outside this invariant (`Typed` is `TypeOK` without their bounds).

They have one of their own, `Book`.  A call stays in the books it was made in, those of its
crew and its run state (`SameSets`), although threads of several crews may share a run state
and the counter is read and written back apart.  Updates may be lost but never invented: the
counter, and what a thread is about to write to it, is at most the number of calls that ended
under the run state (`Counted`), which gives `TypeOK`.  With one crew nothing is lost
(`SoloCounted`), so the check of the counter before a call is a check of the calls made, and
that is `Budgeted`.  `CacheHonest` needs that a thread records the call it has made itself
(`OwnCall`) under the run state it was made in (`Labelled`).

*Pipeline.*  From `PipelineAssumption` (a natural number of turns, a window of at least
one).  `StepKinds` first sorts the twenty-nine actions into twenty-two kinds by what they
change, all raising branches being one.  The inductive invariant `IInv` has a part per
question.  `Told` says what has been shown by the place the turn has come to, and needs
`Reasons`: before the end only a cancel stops a run, so a reply is never followed by an
error.  `Sound` follows the changeset and its verdict from the rescue to the preview.
`Traceless` says the store does not know of the turn before the save, and that after it
the turn can no longer fail; it needs that no window names a later turn
(`RecentEntries`).  `Linked` says how the memory's plan relates to the stored one until
the save, from which each write of the store is a move of the plan's life.

*Changeset.*  From `ClassificationAssumption` (finitely many modules, one file each) and
`ChangesetAssumption` (module names are no other writer's name, a role
for the registry's default, answers and rules of their types).  Each net has a lemma that
says what it does to one item: `RegistryFills`, `RolesAdded`, `NamingSwapped`,
`ItemBackfilled`, `ItemHandedOff`, and `ExtractFresh` for what enters; `TurnsAreTurns` says
that whatever the classifiers answer, a candidate comes with its intent and secondaries
with another module as primary.  `Told` is the pill
property against an arbitrary intent, so that the handoff can be shown to preserve it
without knowing which one the turn has.  `IInv` adds what the places need: items are fresh
until the backfill and untouched by the handoff until it (`Extracted`, `BeforeHandoff`, which
with `Kept` says that nothing but the agent names a report, so that the handoff's fields are
exactly those of the candidate),
only the retry brings in items of its own (`Authors`), what was dropped is gone (`Dropped`),
and a verdict, once given, is on the current list (`Judged`).

`NotesFindTheirItems` rests on two invariants more.  `Filed` has the changeset finite, as the
index of a note counts items, and the secondaries within `MaxSecondaries`; that the detection
yields no more is shown without induction, by the injection that sends a module to the number
of candidates before it (`OthersBounded`).  `Noted` says there are no notes before the
validation, and after it that an index is its item's place among the items shown and dropped
together, from which `IndexShifts` derives when it is the place in the list shown.
`ValidateNotes` is the step that writes the notes, and `TraceKept` says which later changes of
the changeset leave them in place: what is pruned stays among what the index counts, and a fix
releases the claim.

`PromptsLeadToTurns` is about `Classification` alone: every prompt leads to a turn, and to
only one if rules speak (`Ruled`).  It needs that of the modules with a keyword exactly one
leads (`OneLeads`), from the well-foundedness of the natural numbers (`SmallestOf`).

Only model-checked: liveness (`ClosedSocketStopsPipeline`, `NoWaitIsForEver`, `RunsMoveOn`,
`EveryTurnEnds`, `EveryCallEnds`, `DevCrewEnds`), because fairness is defined with `ENABLED`,
which TLAPS does not handle; the
three violations are counterexamples of TLC.

## 6. Findings

Three places where the code does something else than its comments say have a run; see
`findings` in PROJECT.json for the lines quoted.  The registry's unconditional pop (822), the
late answer dropped without acknowledgement (`connection.py` 205), and REST runs the drain
does not wait for (`rest_runner.py` 231).

Others follow from the models without a run of their own.

- A WebSocket prompt admitted before the shutdown flag can start after the last poll and run
  while Redis is closed (`main.py` 151, 167): in `RestTasks`, `DrainOver`, `WsStart`,
  `CloseRedis`.  `connection.py` 676-678 counts it "so the lifespan shutdown handler waits for
  this run to finish before tearing down Redis".
- `stop` replaces a signal that is already set (`context.py` 153-155): in `Pipeline`, a
  `Cancel` during the warm-up and then `OLLAMA_UNHEALTHY` end the turn with the error, where
  `tests/test_cancel.py` 10-11 says a cancelled run "emits `run_cancelled`".
- A note's `changeset_index` names another item of the list shown, or none, once the review
  has dropped one before it or the retry has replaced the list (`module_specialist.py` 81;
  `docs/specs/2026-04-22-module-specialists.md` 214).
- Crashed pipelines are reported as completed: `run()` turns a timeout or an exception into
  an event and returns, and `rest_runner.py` 233 takes a return for success.
- A crew that ran into its time limit has saved nothing, though the messages at `runner.py`
  106 and 111 say so.
- The agent's own provenance (`models/agent_outputs.py` 200-201) is lost in the
  normalisation (`extract.py` 316), so a default it annotated is shown as the user's.
- `run_crew` names the outputs by the list of all six tasks (`crew.py` 884-895).
- Overlapping sends are not stored in the order they went out (`connection.py` 428-430).
- Cancelling a pipeline does not stop its crew (`crew.py` 878), although `connection.py`
  829-830 cancels it "so orphaned crews don't keep burning LLM calls": the models take the
  abandoned thread as given.  As such a thread reads `run_state` anew for each call, two crews
  can pass the check of the last unit of a budget that `mcp_tools.py` 12 calls hard:
  `SoloBudget` states the bound for a run state that one crew has used.

## 7. Not modelled

The local agent tools and the knowledge base read files and return text; the LLM client and
the configuration choose endpoints and parse an environment; observability counts.  None of
them keeps state that another part reads.  Of the parts that are modelled, `admin_client`'s
usage queue, `load_crew_state`, the `human_input` handler and `last_acked_msg_id` have no
caller or reader in `alfred/`.  The event stream's REST poller reads what a resume reads.
A crash of the process is outside all models but for what Redis keeps: on a restart
connections, questions, slots and runs are gone, and rows, streams and memories are read as
by a new process.
