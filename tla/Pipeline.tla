------------------------------ MODULE Pipeline ------------------------------
(***************************************************************************)
(* The prompts of one conversation, each run by AgentPipeline through its  *)
(* phases (alfred/api/pipeline), and the conversation memory that carries  *)
(* one prompt's results to the next (alfred/state/conversation_memory.py). *)
(*                                                                         *)
(* A step is a phase, or the part of one between two awaits where that     *)
(* matters: the user may cancel, the socket may drop and the task may be   *)
(* cancelled only where the pipeline awaits.  What an LLM, the site, Redis *)
(* or the admin portal answers is a choice.  Prompts are known by the      *)
(* number of their turn; texts, intents and modules only word the agents'  *)
(* tasks and are left out.                                                 *)
(***************************************************************************)
EXTENDS Naturals, Sequences, FiniteSets

CONSTANTS MaxTurns,  \* bound: prompts of the conversation
          Kept       \* _MAX_PROMPTS and the other windows of the memory

ASSUME PipelineAssumption == MaxTurns \in Nat /\ Kept \in Nat \ {0}

VARIABLES turn,       \* prompts so far; the last one is running or was run
          prompt,     \* of the last: is it an approval, is there an MCP client
          socket,     \* its connection
          at,         \* the phase, or the part of post_crew, it has come to
          mode,       \* ctx.mode
          stop,       \* ctx.should_stop
          signal,     \* ctx.stop_signal.code, none for None
          memory,     \* ctx.conversation_memory
          brief,      \* how the plan was rendered to the enhancer
          changes,    \* ctx.changes
          verdict,    \* ctx.dry_run_result: its status and its changeset
          retries,    \* ctx.crew_state.dry_run_retries
          shown,      \* what ended the turn for the user, in order sent
          cancelled,  \* history: the receive loop has accepted a cancel
          store       \* the conversation memory in Redis

vars == <<turn, prompt, socket, at, mode, stop, signal, memory, brief,
          changes, verdict, retries, shown, cancelled, store>>
request == <<turn, prompt, socket>>
control == <<stop, signal, cancelled>>
crew    == <<changes, verdict, retries>>

Turns == 1..MaxTurns

(***************************************************************************)
(* Memory.  A window holds the turns that wrote an entry, newest last.     *)
(***************************************************************************)
NoPlan      == [status |-> "none", of |-> 0]
EmptyMemory == [prompts |-> <<>>, answers |-> <<>>, queries |-> <<>>,
                items |-> <<>>, plan |-> NoPlan]

Recent(w, t) == IF Len(w) < Kept THEN Append(w, t) ELSE Append(Tail(w), t)

AddPrompt(m, t)    == [m EXCEPT !.prompts = Recent(@, t)]
AddAnswer(m, t)    == [m EXCEPT !.answers = Recent(@, t)]
AddQuery(m, t)     == [m EXCEPT !.queries = Recent(@, t)]
AddPlan(m, t)      == [m EXCEPT !.plan = [status |-> "proposed", of |-> t]]
AddChangeset(m, t) == [m EXCEPT !.items = Recent(@, t)]

Approve(m) == IF m.plan.status = "proposed" /\ prompt.approves
              THEN [m EXCEPT !.plan.status = "approved"] ELSE m
MarkBuiltAnyway(m) == IF m.plan.status # "none"
                      THEN [m EXCEPT !.plan.status = "built"] ELSE m
MarkBuilt(m) == IF m.plan.status = "approved"
                THEN [m EXCEPT !.plan.status = "built"] ELSE m

Render(m) == CASE m.plan.status = "none"     -> "nothing"
               [] m.plan.status = "approved" -> "steps"
               [] OTHER                      -> "summary"

(***************************************************************************)
(* Changesets: who wrote it, whether from a text that the drift check      *)
(* condemns, and how many items it has (two stand for several).            *)
(***************************************************************************)
Changeset(w, d, n) == [by |-> w, drifted |-> d, items |-> n]
NoChanges   == Changeset("nobody", FALSE, 0)
NoVerdict   == [status |-> "none", of |-> NoChanges]
ReflectedSizes(n) == IF n < 2 THEN {n} ELSE 1..n

(***************************************************************************)
(* Sending and stopping.  A guarded send loses the message when the socket *)
(* is down; an unguarded one raises, and run() catches and reports it.     *)
(***************************************************************************)
Say(m) == shown' = IF socket = "up" THEN Append(shown, m) ELSE shown

Stop(code)        == stop' = TRUE /\ signal' = code /\ UNCHANGED cancelled

Continue(p) == at' = IF stop' THEN "ending" ELSE p

Raise(code) ==
    /\ Say(code)
    /\ at' = "idle"
    /\ UNCHANGED <<request, mode, control, memory, brief, crew, store>>

Pass(here, next) ==
    /\ at = here
    /\ UNCHANGED <<request, mode, control, memory, brief, crew, shown, store>>
    /\ Continue(next)

Refuse(here, code) ==
    /\ at = here
    /\ Stop(code)
    /\ at' = "ending"
    /\ UNCHANGED <<request, mode, memory, brief, crew, shown, store>>

Init ==
    /\ turn = 0
    /\ prompt = [approves |-> FALSE, mcp |-> FALSE]
    /\ socket = "up"
    /\ at = "idle"
    /\ mode = "dev"
    /\ stop = FALSE
    /\ signal = "none"
    /\ memory = EmptyMemory
    /\ brief = "nothing"
    /\ changes = NoChanges
    /\ verdict = NoVerdict
    /\ retries = 0
    /\ shown = <<>>
    /\ cancelled = FALSE
    /\ store = EmptyMemory

\* A prompt on a live connection: a new PipelineContext.
StartTurn ==
    /\ at = "idle"
    /\ turn < MaxTurns
    /\ turn' = turn + 1
    /\ prompt' \in [approves : BOOLEAN, mcp : BOOLEAN]
    /\ socket' = "up"
    /\ at' = "sanitize"
    /\ mode' = "dev"
    /\ stop' = FALSE
    /\ signal' = "none"
    /\ memory' = EmptyMemory
    /\ brief' = "nothing"
    /\ changes' = NoChanges
    /\ verdict' = NoVerdict
    /\ retries' = 0
    /\ shown' = <<>>
    /\ cancelled' = FALSE
    /\ UNCHANGED store

\* The phases before the mode is known.  Each may stop the run.
Sanitize == Pass("sanitize", "load_state") \/ Refuse("sanitize", "PROMPT_BLOCKED")

\* A failing read gives an empty memory, like a key that is not there.
Loaded == {store, EmptyMemory}
LoadStateAndSave ==
    /\ at = "load_state"
    /\ \E read \in Loaded : memory' = AddPrompt(read, turn)
    /\ store' = memory'
    /\ UNCHANGED <<request, mode, control, brief, crew, shown>>
    /\ Continue("warmup")
LoadState ==
    /\ at = "load_state"
    /\ \E read \in Loaded : memory' = AddPrompt(read, turn)
    /\ UNCHANGED <<request, mode, control, brief, crew, shown, store>>
    /\ Continue("warmup")

Warmup == Pass("warmup", "plan_check") \/ Refuse("warmup", "OLLAMA_UNHEALTHY")

PlanCheck == Pass("plan_check", "orchestrate") \/ Refuse("plan_check", "PLAN_EXCEEDED")

\* The orchestrator decides the mode.  Every mode but dev is answered at once.
OrchestrateDev ==
    /\ mode' = "dev"
    /\ UNCHANGED <<request, control, memory, brief, crew, shown, store>>
    /\ at = "orchestrate"
    /\ Continue("classify_intent")

ShortCircuit(m, reply) ==
    /\ at = "orchestrate"
    /\ mode' = m
    /\ Say(reply)
    /\ at' = "remember"
    /\ UNCHANGED <<request, control, brief, crew, store>>

RunChat     == ShortCircuit("chat", "chat_reply") /\ UNCHANGED memory
RunInsights == /\ ShortCircuit("insights", "insights_reply")
               /\ memory' = AddQuery(memory, turn)
RunPlan     == /\ ShortCircuit("plan", "plan_doc")
               /\ memory' = AddPlan(memory, turn)

\* A save that fails is logged, no more.
Save == store' \in {memory', store}

Remember ==
    /\ at = "remember"
    /\ UNCHANGED <<request, mode, signal, cancelled, memory, brief, crew, shown>>
    /\ Save
    /\ stop' = TRUE
    /\ at' = "ending"

ClassifyIntent == Pass("classify_intent", "classify_module")
ClassifyModule == Pass("classify_module", "enhance")

\* The status message opens the phase; then the plan is approved, if the prompt
\* says so, and the memory rendered.
Enhance ==
    /\ at = "enhance"
    /\ \/ socket = "down" /\ Raise("PIPELINE_ERROR")
       \/ /\ socket = "up"
          /\ memory' = Approve(memory)
          /\ brief' = Render(memory')
          /\ UNCHANGED <<request, mode, control, crew, shown, store>>
          /\ Continue("clarify")

\* A question that cannot be sent has the answer [no response], which is
\* recorded as any other.
AnswerRecorded ==
    /\ memory' = AddAnswer(memory, turn)
    /\ UNCHANGED <<request, mode, control, brief, crew, shown, store>>
    /\ Continue("inject_kb")
Clarify ==
    \/ Pass("clarify", "inject_kb")
    \/ at = "clarify" /\ socket = "down" /\ AnswerRecorded
    \/ /\ at = "clarify" /\ socket = "up"
       /\ at' = "asking"
       /\ UNCHANGED <<request, mode, control, memory, brief, crew, shown, store>>

UserAnswers == at = "asking" /\ socket = "up" /\ AnswerRecorded
AnswerNeverExpires == FALSE
AnswerExpires == at = "asking" /\ AnswerRecorded

InjectKb == Pass("inject_kb", "resolve_mode")

ResolveMode ==
    \/ socket = "up" /\ Pass("resolve_mode", "provide_module_context")
    \/ at = "resolve_mode" /\ socket = "down" /\ Raise("PIPELINE_ERROR")

ProvideModuleContext == Pass("provide_module_context", "build_crew")

BuildCrew == \/ Pass("build_crew", "run_crew")
             \/ at = "build_crew" /\ Raise("PIPELINE_ERROR")

\* The crew reports its progress through unguarded sends.  What it returned,
\* completed or failed, is looked at in post_crew.
CrewReturns == \/ socket = "up" /\ Pass("run_crew", "post_crew")
               \/ at = "run_crew" /\ socket = "down" /\ Raise("PIPELINE_ERROR")
CrewTimesOut == at = "run_crew" /\ Raise("PIPELINE_TIMEOUT")

(***************************************************************************)
(* post_crew, by its awaits.                                               *)
(***************************************************************************)
CrewFailed == Refuse("post_crew", "PIPELINE_FAILED")

\* A text that drifted gives no changes; an empty changeset goes to the rescue.
CrewCompleted ==
    /\ at = "post_crew"
    /\ \/ socket = "down" /\ Raise("PIPELINE_ERROR")
       \/ /\ socket = "up"
          /\ \E drift \in BOOLEAN, n \in 0..2 :
               changes' = IF drift THEN NoChanges ELSE Changeset("crew", drift, n)
          /\ at' = IF changes'.items = 0 THEN "rescue" ELSE "reflect"
          /\ UNCHANGED <<request, mode, control, memory, brief, verdict, retries,
                         shown, store>>

\* Its own sends are inside its try: with the socket down it finds nothing.
RescueAndGoOn ==
    /\ at = "rescue"
    /\ \E n \in IF socket = "up" THEN 0..2 ELSE {0} :
         /\ changes' = Changeset("rescue", FALSE, n)
         /\ IF n = 0 THEN Stop("EMPTY_CHANGESET") ELSE UNCHANGED control
         /\ at' = "reflect"
    /\ UNCHANGED <<request, mode, memory, brief, verdict, retries, shown, store>>
Rescue ==
    /\ at = "rescue"
    /\ \E n \in IF socket = "up" THEN 0..2 ELSE {0} :
         /\ changes' = Changeset("rescue", FALSE, n)
         /\ IF n = 0 THEN Stop("EMPTY_CHANGESET") ELSE UNCHANGED control
         /\ at' = IF n = 0 THEN "ending" ELSE "reflect"
    /\ UNCHANGED <<request, mode, memory, brief, verdict, retries, shown, store>>

\* The minimality review drops items, never all; a drop is announced.
Reflect ==
    /\ at = "reflect"
    /\ \E n \in ReflectedSizes(changes.items) :
         \/ /\ n = changes.items \/ socket = "up"
            /\ changes' = [changes EXCEPT !.items = n]
            /\ at' = "dry_run"
            /\ UNCHANGED <<request, mode, control, memory, brief, verdict, retries,
                           shown, store>>
         \/ n < changes.items /\ socket = "down" /\ Raise("PIPELINE_ERROR")

\* The static pre-check or, when that finds nothing, the dry run on the site.
DryRun ==
    /\ at = "dry_run"
    /\ \/ /\ ~prompt.mcp
          /\ verdict' = [status |-> "skipped", of |-> changes]
          /\ at' = "record"
          /\ UNCHANGED <<request, mode, control, memory, brief, changes, retries,
                         shown, store>>
       \/ prompt.mcp /\ socket = "down" /\ Raise("PIPELINE_ERROR")
       \/ /\ prompt.mcp /\ socket = "up"
          /\ \E s \in {"ok", "invalid", "infra_error"} :
               /\ verdict' = [status |-> s, of |-> changes]
               /\ at' = IF s = "ok" \/ retries >= 1 THEN "record" ELSE "retry"
          /\ UNCHANGED <<request, mode, control, memory, brief, changes, retries,
                         shown, store>>

\* The developer is asked once to fix the issues.  No parseable answer, or a
\* crash, leaves the changeset and its verdict as they were.
RetryShowsOriginal ==
    /\ at = "retry"
    /\ socket = "up"
    /\ retries' = 1
    /\ \E n \in 1..2, s \in {"ok", "invalid", "infra_error"} :
         verdict' = [status |-> s, of |-> Changeset("retry", FALSE, n)]
    /\ at' = "record"
    /\ UNCHANGED <<request, mode, control, memory, brief, changes, shown, store>>
Retry ==
    /\ at = "retry"
    /\ \/ socket = "down" /\ Raise("PIPELINE_ERROR")
       \/ /\ socket = "up"
          /\ retries' = 1
          /\ \/ \E n \in 1..2, s \in {"ok", "invalid", "infra_error"} :
                  /\ changes' = Changeset("retry", FALSE, n)
                  /\ verdict' = [status |-> s, of |-> changes']
             \/ UNCHANGED <<changes, verdict>>
          /\ at' = "record"
          /\ UNCHANGED <<request, mode, control, memory, brief, shown, store>>

Record ==
    /\ at = "record"
    /\ memory' = MarkBuilt(AddChangeset(memory, turn))
    /\ Save
    /\ at' = "preview"
    /\ UNCHANGED <<request, mode, control, brief, crew, shown>>

Preview ==
    /\ at = "preview"
    /\ \/ socket = "down" /\ Raise("PIPELINE_ERROR")
       \/ /\ socket = "up"
          /\ Say("changeset")
          /\ at' = "ending"
          /\ UNCHANGED <<request, mode, control, memory, brief, crew, store>>

\* run() after the phases: a stop signal is reported, a cancel as such.
Finish ==
    /\ at = "ending"
    /\ IF stop /\ signal # "none" THEN Say(signal) ELSE UNCHANGED shown
    /\ at' = "idle"
    /\ UNCHANGED <<request, mode, control, memory, brief, crew, store>>

(***************************************************************************)
(* What comes from outside while the pipeline awaits.                      *)
(***************************************************************************)
Awaiting == at \notin {"idle", "sanitize", "ending"}

Cancel ==
    /\ Awaiting
    /\ socket = "up"
    /\ stop' = TRUE
    /\ signal' = "run_cancelled"
    /\ cancelled' = TRUE
    /\ UNCHANGED <<request, at, mode, memory, brief, crew, shown, store>>

Disconnect ==
    /\ Awaiting
    /\ socket = "up"
    /\ socket' = "down"
    /\ UNCHANGED <<turn, prompt, at, mode, control, memory, brief, crew, shown, store>>

\* The endpoint's cleanup cancels the task: no handler of run() catches that.
Abort ==
    /\ Awaiting
    /\ socket = "down"
    /\ at' = "idle"
    /\ UNCHANGED <<request, mode, control, memory, brief, crew, shown, store>>

PostCrew == CrewFailed \/ CrewCompleted \/ Rescue \/ Reflect \/ DryRun \/ Retry
            \/ Record \/ Preview
DevPhase == ClassifyIntent \/ ClassifyModule \/ Enhance \/ Clarify \/ AnswerExpires
            \/ InjectKb \/ ResolveMode \/ ProvideModuleContext \/ BuildCrew
            \/ CrewTimesOut \/ PostCrew
Work == Sanitize \/ LoadState \/ Warmup \/ PlanCheck \/ OrchestrateDev \/ RunChat
        \/ RunInsights \/ RunPlan \/ Remember \/ DevPhase \/ Finish

Next == StartTurn \/ Work \/ UserAnswers \/ CrewReturns \/ Cancel \/ Disconnect
        \/ Abort

Spec == Init /\ [][Next]_vars

\* Every await of a phase is bounded: the question by its 900 s, the crew by
\* task_timeout_seconds, the other calls by the timeouts of their clients.  The
\* crews of insights, plan and retry have no limit of their own: their LLM calls
\* time out and their iterations are capped, and they are assumed to get a thread
\* (module CrewTasks has the pool).  Nothing makes the user answer or the crew
\* return.
FairSpec == Spec /\ WF_vars(Work)

-----------------------------------------------------------------------------
Errors  == {"PROMPT_BLOCKED", "OLLAMA_UNHEALTHY", "PLAN_EXCEEDED", "PIPELINE_FAILED",
            "EMPTY_CHANGESET", "PIPELINE_ERROR", "PIPELINE_TIMEOUT"}
Replies == {"chat_reply", "insights_reply", "plan_doc", "changeset"}
Steps   == {"idle", "sanitize", "load_state", "warmup", "plan_check", "orchestrate",
            "remember", "classify_intent", "classify_module", "enhance", "clarify",
            "asking", "inject_kb", "resolve_mode", "provide_module_context",
            "build_crew", "run_crew", "post_crew", "rescue", "reflect", "dry_run",
            "retry", "record", "preview", "ending"}
Windows == UNION {[1..n -> Turns] : n \in 0..Kept}
Plans   == [status : {"none", "proposed", "approved", "built"}, of : 0..MaxTurns]
Memory  == [prompts : Windows, answers : Windows, queries : Windows, items : Windows,
            plan : Plans]
Changesets == [by : {"nobody", "crew", "rescue", "retry"}, drifted : BOOLEAN,
               items : 0..2]

\* The type of the state; the windows of the memory keep their bound.
TypeOK ==
    /\ turn \in 0..MaxTurns
    /\ prompt \in [approves : BOOLEAN, mcp : BOOLEAN]
    /\ socket \in {"up", "down"}
    /\ at \in Steps
    /\ mode \in {"dev", "chat", "insights", "plan"}
    /\ stop \in BOOLEAN
    /\ signal \in Errors \cup {"none", "run_cancelled"}
    /\ memory \in Memory
    /\ brief \in {"nothing", "summary", "steps"}
    /\ changes \in Changesets
    /\ verdict \in [status : {"none", "ok", "invalid", "infra_error", "skipped"},
                    of : Changesets]
    /\ retries \in 0..1
    /\ shown \in Seq(Errors \cup Replies \cup {"run_cancelled"})
    /\ cancelled \in BOOLEAN
    /\ store \in Memory

\* The user gets one outcome of a turn, a reply or an error, and after a reply
\* at most the word that the run was cancelled: no stop that comes late and no
\* error while reporting makes the UI show a result and a failure
\* (runner.py run, _send_error; _phases_build.py _send_error_later).
OneOutcome ==
    /\ Len(shown) <= 2
    /\ Len(shown) = 2 => /\ shown[1] \in Replies
                         /\ shown[2] = "run_cancelled"
                         /\ cancelled

\* A turn that ends while the client is there has told it so, and a turn the
\* user cancelled ends with the cancel or an error, never as a plain success
\* (runner.py run, context.py stop, the cancel message of connection.py).
EndIsTold ==
    at = "idle" /\ socket = "up" /\ turn > 0 =>
        /\ shown # <<>>
        /\ cancelled => shown[Len(shown)] \in Errors \cup {"run_cancelled"}

\* What the user is told of a turn: one outcome, and never nothing.
TurnIsToldOnce == OneOutcome /\ EndIsTold

\* A preview is a changeset with items, never the crew's drifted text, and the
\* verdict next to it was given on exactly those items, by the site whenever it
\* says ok (_phases_build.py _phase_post_crew, _dry_run_with_retry).
PreviewIsVetted ==
    \A i \in DOMAIN shown : shown[i] = "changeset" =>
        /\ changes.items > 0
        /\ ~(changes.by = "crew" /\ changes.drifted)
        /\ verdict.of = changes
        /\ verdict.status = "skipped" <=> ~prompt.mcp

\* A turn the user was told had failed is not in the stored memory: the phases
\* that can still fail all come before the save (runner.py run,
\* _save_memory_with_feedback and its four callers).
FailureLeavesNoTrace ==
    \A i \in DOMAIN shown :
        shown[i] \in Errors => turn \notin {store.prompts[j] : j \in DOMAIN store.prompts}

\* The stored plan becomes proposed in the plan turn that wrote it, built in a
\* dev turn that the user's words approved, whose enhancer saw its steps and whose
\* items are stored with it, and is lost only to a turn that could not read the
\* memory; it is never stored as approved (_maybe_approve_active_plan,
\* _mark_active_plan_built_if_any, load_conversation_memory).
PlanMoves ==
    LET old == store.plan
        new == store'.plan
    IN  \/ new = old
        \/ new = [status |-> "proposed", of |-> turn] /\ mode = "plan"
        \/ new = NoPlan /\ memory.prompts = <<turn>>
        \/ /\ old.status = "proposed"
           /\ new = [old EXCEPT !.status = "built"]
           /\ prompt.approves /\ brief = "steps"
           /\ turn \in {store'.items[j] : j \in DOMAIN store'.items}
PlanLifecycle == [][PlanMoves]_store

\* Every turn comes to its end, though the user may leave a question unanswered
\* and the crew may hang: the timeouts of ask_human and run_crew see to it.
EveryTurnEnds == at # "idle" ~> at = "idle"

=============================================================================
