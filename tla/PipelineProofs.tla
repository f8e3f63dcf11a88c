--------------------------- MODULE PipelineProofs ---------------------------
(***************************************************************************)
(* Proofs about Pipeline for any number of turns and any window size: what *)
(* the user is told, what a preview shows, what a failed turn leaves, and  *)
(* the life of a stored plan.                                              *)
(***************************************************************************)
EXTENDS Pipeline, SequenceTheorems, TLAPS

(***************************************************************************)
(* The steps of Next by what they do.  The hops are the phases that only   *)
(* hand on to the next one.                                                *)
(***************************************************************************)
Hops == {<<"sanitize", "load_state">>, <<"warmup", "plan_check">>,
         <<"plan_check", "orchestrate">>, <<"classify_intent", "classify_module">>,
         <<"classify_module", "enhance">>, <<"clarify", "inject_kb">>,
         <<"inject_kb", "resolve_mode">>, <<"resolve_mode", "provide_module_context">>,
         <<"provide_module_context", "build_crew">>, <<"build_crew", "run_crew">>,
         <<"run_crew", "post_crew">>}
Resting  == {"idle", "remember", "ending"}
Refusing == {"sanitize", "warmup", "plan_check", "post_crew"}
Failures == {"PIPELINE_ERROR", "PIPELINE_TIMEOUT"}

Hop(h)  == Pass(h[1], h[2])
Raises  == /\ at \in Steps \ Resting
           /\ at = "preview" => socket = "down"
           /\ \E c \in Failures : Raise(c)
Refuses == \E h \in Refusing, c \in Errors : Refuse(h, c)

Replied ==
    \/ ShortCircuit("chat", "chat_reply") /\ UNCHANGED memory
    \/ ShortCircuit("insights", "insights_reply") /\ memory' = AddQuery(memory, turn)
    \/ ShortCircuit("plan", "plan_doc") /\ memory' = AddPlan(memory, turn)

Enhanced ==
    /\ at = "enhance" /\ socket = "up"
    /\ memory' = Approve(memory)
    /\ brief' = Render(memory')
    /\ UNCHANGED <<request, mode, control, crew, shown, store>>
    /\ Continue("clarify")

Answered == at \in {"clarify", "asking"} /\ AnswerRecorded

Asked ==
    /\ at = "clarify" /\ socket = "up"
    /\ at' = "asking"
    /\ UNCHANGED <<request, mode, control, memory, brief, crew, shown, store>>

Extracted ==
    /\ at = "post_crew" /\ socket = "up"
    /\ \E n \in 0..2 : changes' \in {NoChanges, Changeset("crew", FALSE, n)}
    /\ at' = IF changes'.items = 0 THEN "rescue" ELSE "reflect"
    /\ UNCHANGED <<request, mode, control, memory, brief, verdict, retries, shown, store>>

Reflected ==
    /\ at = "reflect"
    /\ \E n \in ReflectedSizes(changes.items) : changes' = [changes EXCEPT !.items = n]
    /\ at' = "dry_run"
    /\ UNCHANGED <<request, mode, control, memory, brief, verdict, retries, shown, store>>

Vetted ==
    /\ at = "dry_run"
    /\ \E s \in {"ok", "invalid", "infra_error", "skipped"} :
         /\ s = "skipped" <=> ~prompt.mcp
         /\ verdict' = [status |-> s, of |-> changes]
    /\ at' \in {"record", "retry"}
    /\ at' = "retry" => prompt.mcp
    /\ UNCHANGED <<request, mode, control, memory, brief, changes, retries, shown, store>>

Retried ==
    /\ at = "retry"
    /\ retries' = 1
    /\ \/ \E n \in 1..2, s \in {"ok", "invalid", "infra_error"} :
            /\ changes' = Changeset("retry", FALSE, n)
            /\ verdict' = [status |-> s, of |-> changes']
       \/ UNCHANGED <<changes, verdict>>
    /\ at' = "record"
    /\ UNCHANGED <<request, mode, control, memory, brief, shown, store>>

Previewed ==
    /\ at = "preview" /\ socket = "up"
    /\ Say("changeset")
    /\ at' = "ending"
    /\ UNCHANGED <<request, mode, control, memory, brief, crew, store>>

Kinds == \/ StartTurn
         \/ \E h \in Hops : Hop(h)
         \/ Raises \/ Refuses \/ LoadState
         \/ at = "orchestrate" /\ OrchestrateDev
         \/ Replied \/ Remember \/ Enhanced \/ Answered \/ Asked
         \/ Extracted \/ Rescue \/ Reflected \/ Vetted \/ Retried \/ Record \/ Previewed
         \/ Finish \/ Cancel \/ Disconnect \/ Abort

\* Every step is of one of these kinds: twenty-nine actions become twenty-two,
\* all the raising branches one of them.
LEMMA StepKinds == Next => Kinds
<1> SUFFICES ASSUME Next PROVE Kinds
  OBVIOUS
<1> USE DEF Kinds
<1>1. CASE StartTurn
  BY <1>1
<1>2. CASE Sanitize
  BY <1>2 DEF Sanitize, Hop, Hops, Refuses, Refusing, Errors
<1>3. CASE LoadState
  BY <1>3
<1>4. CASE Warmup
  BY <1>4 DEF Warmup, Hop, Hops, Refuses, Refusing, Errors
<1>5. CASE PlanCheck
  BY <1>5 DEF PlanCheck, Hop, Hops, Refuses, Refusing, Errors
<1>6. CASE OrchestrateDev
  BY <1>6 DEF OrchestrateDev
<1>7. CASE RunChat \/ RunInsights \/ RunPlan
  BY <1>7 DEF RunChat, RunInsights, RunPlan, Replied
<1>8. CASE Remember
  BY <1>8
<1>9. CASE ClassifyIntent \/ ClassifyModule
  BY <1>9 DEF ClassifyIntent, ClassifyModule, Hop, Hops
<1>10. CASE Enhance
  BY <1>10 DEF Enhance, Enhanced, Raises, Steps, Resting, Failures
<1>11. CASE Clarify
  BY <1>11 DEF Clarify, Hop, Hops, Answered, Asked
<1>12. CASE UserAnswers \/ AnswerExpires
  BY <1>12 DEF UserAnswers, AnswerExpires, Answered
<1>13. CASE InjectKb \/ ProvideModuleContext
  BY <1>13 DEF InjectKb, ProvideModuleContext, Hop, Hops
<1>14. CASE ResolveMode
  BY <1>14 DEF ResolveMode, Hop, Hops, Raises, Steps, Resting, Failures
<1>15. CASE BuildCrew
  BY <1>15 DEF BuildCrew, Hop, Hops, Raises, Steps, Resting, Failures
<1>16. CASE CrewReturns \/ CrewTimesOut
  BY <1>16 DEF CrewReturns, CrewTimesOut, Hop, Hops, Raises, Steps, Resting, Failures
<1>17. CASE CrewFailed
  BY <1>17 DEF CrewFailed, Refuses, Refusing, Errors
<1>18. CASE CrewCompleted
  <2>1. CASE Raise("PIPELINE_ERROR")
    BY <1>18, <2>1 DEF CrewCompleted, Raises, Steps, Resting, Failures
  <2>2. CASE ~Raise("PIPELINE_ERROR")
    BY <1>18, <2>2 DEF CrewCompleted, Extracted
  <2> QED BY <2>1, <2>2
<1>19. CASE Rescue
  BY <1>19
<1>20. CASE Reflect
  <2>1. CASE Raise("PIPELINE_ERROR")
    BY <1>20, <2>1 DEF Reflect, Raises, Steps, Resting, Failures
  <2>2. CASE ~Raise("PIPELINE_ERROR")
    BY <1>20, <2>2 DEF Reflect, Reflected
  <2> QED BY <2>1, <2>2
<1>21. CASE DryRun
  <2>1. CASE Raise("PIPELINE_ERROR")
    BY <1>21, <2>1 DEF DryRun, Raises, Steps, Resting, Failures
  <2>2. CASE ~Raise("PIPELINE_ERROR")
    BY <1>21, <2>2 DEF DryRun, Vetted
  <2> QED BY <2>1, <2>2
<1>22. CASE Retry
  BY <1>22 DEF Retry, Retried, Raises, Steps, Resting, Failures
<1>23. CASE Record
  BY <1>23
<1>24. CASE Preview
  BY <1>24 DEF Preview, Previewed, Raises, Steps, Resting, Failures
<1>25. CASE Finish \/ Cancel \/ Disconnect \/ Abort
  BY <1>25
<1> QED
  BY <1>1, <1>2, <1>3, <1>4, <1>5, <1>6, <1>7, <1>8, <1>9, <1>10, <1>11, <1>12,
     <1>13, <1>14, <1>15, <1>16, <1>17, <1>18, <1>19, <1>20, <1>21, <1>22, <1>23,
     <1>24, <1>25 DEF Next, Work, DevPhase, PostCrew

-----------------------------------------------------------------------------
(***************************************************************************)
(* Types.                                                                  *)
(***************************************************************************)
\* A running turn has a number.
Live == at # "idle" => turn \in Turns

\* A window stays within its bound.
LEMMA RecentType ==
    ASSUME NEW w \in Windows, NEW t \in Turns PROVE Recent(w, t) \in Windows
<1>1. PICK n \in 0..Kept : w \in [1..n -> Turns]
  BY DEF Windows
<1>2. Kept \in Nat \ {0}
  BY PipelineAssumption
<1>3. w \in Seq(Turns) /\ Len(w) = n
  BY <1>1, <1>2
<1>4. CASE n < Kept
  <2>1. Append(w, t) \in Seq(Turns) /\ Len(Append(w, t)) = n + 1
    BY <1>3, AppendProperties
  <2>2. Append(w, t) \in [1..(n + 1) -> Turns]
    BY <2>1, LenProperties
  <2>3. n + 1 \in 0..Kept
    BY <1>2, <1>4
  <2> QED BY <1>3, <1>4, <2>2, <2>3 DEF Recent, Windows
<1>5. CASE ~(n < Kept)
  <2>1. n = Kept /\ w # <<>>
    BY <1>2, <1>3, <1>5
  <2>2. Tail(w) \in Seq(Turns) /\ Len(Tail(w)) = n - 1
    BY <1>3, <2>1, HeadTailProperties
  <2>3. Append(Tail(w), t) \in Seq(Turns) /\ Len(Append(Tail(w), t)) = Kept
    BY <1>2, <2>1, <2>2, AppendProperties
  <2>4. Append(Tail(w), t) \in [1..Kept -> Turns]
    BY <2>3, LenProperties
  <2> QED BY <1>2, <1>3, <1>5, <2>4 DEF Recent, Windows
<1> QED BY <1>4, <1>5

\* What a turn writes into the memory keeps its type.
LEMMA MemoryType ==
    ASSUME NEW m \in Memory, NEW t \in Turns
    PROVE  /\ AddPrompt(m, t) \in Memory
           /\ AddAnswer(m, t) \in Memory
           /\ AddQuery(m, t) \in Memory
           /\ AddPlan(m, t) \in Memory
           /\ AddChangeset(m, t) \in Memory
<1>1. /\ Recent(m.prompts, t) \in Windows /\ Recent(m.answers, t) \in Windows
      /\ Recent(m.queries, t) \in Windows /\ Recent(m.items, t) \in Windows
  BY RecentType DEF Memory
<1>2. AddPrompt(m, t) \in Memory /\ AddAnswer(m, t) \in Memory
  BY <1>1 DEF AddPrompt, AddAnswer, Memory
<1>3. AddQuery(m, t) \in Memory /\ AddChangeset(m, t) \in Memory
  BY <1>1 DEF AddQuery, AddChangeset, Memory
<1>4. AddPlan(m, t) \in Memory
  <2>1. [status |-> "proposed", of |-> t] \in Plans
    BY PipelineAssumption DEF Plans, Turns
  <2> QED BY <2>1 DEF AddPlan, Memory
<1> QED BY <1>2, <1>3, <1>4

\* So do the steps of a plan's life.
LEMMA PlanType ==
    ASSUME NEW m \in Memory
    PROVE  /\ MarkBuilt(m) \in Memory
           /\ Approve(m) \in Memory
           /\ Render(m) \in {"nothing", "summary", "steps"}
<1>1. \A s \in {"approved", "built"} : [m EXCEPT !.plan.status = s] \in Memory
  <2> SUFFICES ASSUME NEW s \in {"approved", "built"}
               PROVE  [m EXCEPT !.plan.status = s] \in Memory
    OBVIOUS
  <2>1. m.plan \in Plans
    BY DEF Memory
  <2>2. [m.plan EXCEPT !.status = s] \in Plans
    BY <2>1 DEF Plans
  <2>3. [m EXCEPT !.plan.status = s] = [m EXCEPT !.plan = [m.plan EXCEPT !.status = s]]
    BY DEF Memory
  <2> QED BY <2>2, <2>3 DEF Memory
<1>2. MarkBuilt(m) \in Memory /\ Approve(m) \in Memory
  BY <1>1 DEF MarkBuilt, Approve
<1>3. Render(m) \in {"nothing", "summary", "steps"}
  BY DEF Render
<1> QED BY <1>2, <1>3

\* A memory without entries is a memory.
LEMMA EmptyMemoryType == EmptyMemory \in Memory
<1>1. <<>> \in Windows
  <2>1. 0 \in 0..Kept /\ <<>> \in [1..0 -> Turns]
    BY PipelineAssumption
  <2> QED BY <2>1 DEF Windows
<1>2. NoPlan \in Plans
  BY PipelineAssumption DEF NoPlan, Plans
<1> QED BY <1>1, <1>2 DEF EmptyMemory, Memory

Outcomes == Errors \cup Replies \cup {"run_cancelled"}

\* What a guarded send leaves in shown.
LEMMA SayType ==
    ASSUME shown \in Seq(Outcomes), NEW o \in Outcomes, Say(o)
    PROVE  shown' \in Seq(Outcomes)
BY AppendProperties DEF Say

\* The parts of the type, with which each step below changes a few.
RunTypes == /\ turn \in 0..MaxTurns
            /\ prompt \in [approves : BOOLEAN, mcp : BOOLEAN]
            /\ socket \in {"up", "down"}
            /\ at \in Steps
            /\ mode \in {"dev", "chat", "insights", "plan"}
            /\ stop \in BOOLEAN
            /\ signal \in Errors \cup {"none", "run_cancelled"}
            /\ cancelled \in BOOLEAN
MemoryTypes == /\ memory \in Memory /\ store \in Memory
               /\ brief \in {"nothing", "summary", "steps"}
Verdicts == [status : {"none", "ok", "invalid", "infra_error", "skipped"}, of : Changesets]
CrewTypes == changes \in Changesets /\ verdict \in Verdicts /\ retries \in 0..1
Typed == RunTypes /\ MemoryTypes /\ CrewTypes /\ shown \in Seq(Outcomes) /\ Live

\* The types, and that a running turn has a number.
LEMMA TypedMeans == Typed <=> TypeOK /\ Live
BY DEF Typed, TypeOK, RunTypes, MemoryTypes, CrewTypes, Verdicts, Outcomes

\* What a crew, the rescue or the retry makes is a changeset.
LEMMA ChangesetType ==
    ASSUME NEW w \in {"nobody", "crew", "rescue", "retry"}, NEW d \in BOOLEAN,
           NEW n \in 0..2
    PROVE  Changeset(w, d, n) \in Changesets
BY DEF Changeset, Changesets

\* So is none.
LEMMA NoChangesType == NoChanges \in Changesets
<1>1. 0 \in 0..2 /\ "nobody" \in {"nobody", "crew", "rescue", "retry"} /\ FALSE \in BOOLEAN
  OBVIOUS
<1>2. Changeset("nobody", FALSE, 0) \in Changesets
  BY <1>1, ChangesetType
<1> QED BY <1>2 DEF NoChanges

\* A status and what it was given on are a verdict.
LEMMA VerdictType ==
    ASSUME NEW s \in {"none", "ok", "invalid", "infra_error", "skipped"},
           NEW c \in Changesets
    PROVE  [status |-> s, of |-> c] \in Verdicts
BY DEF Verdicts

\* No turn has begun at the start.
LEMMA InitTyped == Init => Typed
<1> SUFFICES ASSUME Init PROVE Typed
  OBVIOUS
<1>1. RunTypes /\ Live
  <2>1. turn \in 0..MaxTurns /\ Live
    BY PipelineAssumption DEF PipelineAssumption, Init, Live
  <2>2. prompt \in [approves : BOOLEAN, mcp : BOOLEAN]
    BY DEF Init
  <2>3. /\ socket \in {"up", "down"} /\ mode \in {"dev", "chat", "insights", "plan"}
        /\ stop \in BOOLEAN /\ cancelled \in BOOLEAN
        /\ signal \in Errors \cup {"none", "run_cancelled"} /\ at \in Steps
    BY DEF Init, Steps
  <2> QED BY <2>1, <2>2, <2>3 DEF RunTypes
<1>2. MemoryTypes
  BY EmptyMemoryType DEF Init, MemoryTypes
<1>4. CrewTypes
  BY NoChangesType, VerdictType DEF Init, CrewTypes, NoVerdict
<1>5. shown \in Seq(Outcomes)
  BY DEF Init
<1> QED BY <1>1, <1>2, <1>4, <1>5 DEF Typed

\* Each kind of step keeps the types.
LEMMA TypeStep == Typed /\ [Next]_vars => Typed'
<1> SUFFICES ASSUME Typed, [Next]_vars PROVE Typed'
  OBVIOUS
<1>a. /\ RunTypes /\ MemoryTypes /\ CrewTypes /\ shown \in Seq(Outcomes)
      /\ at # "idle" => turn \in Turns
  BY DEF Typed, Live
<1>b. turn \in Turns => /\ AddAnswer(memory, turn) \in Memory
                       /\ AddQuery(memory, turn) \in Memory
                       /\ AddPlan(memory, turn) \in Memory
                       /\ AddChangeset(memory, turn) \in Memory
                       /\ MarkBuilt(AddChangeset(memory, turn)) \in Memory
  BY <1>a, MemoryType, PlanType DEF MemoryTypes
<1> USE DEF request, control, crew
<1>1. CASE StartTurn
  <2>1. RunTypes' /\ Live'
    <3>1. turn' \in 0..MaxTurns /\ Live'
      BY <1>1, <1>a, PipelineAssumption
      DEF PipelineAssumption, StartTurn, RunTypes, Live, Turns
    <3>2. prompt' \in [approves : BOOLEAN, mcp : BOOLEAN]
      BY <1>1 DEF StartTurn
    <3>3. /\ socket' \in {"up", "down"} /\ mode' \in {"dev", "chat", "insights", "plan"}
          /\ stop' \in BOOLEAN /\ cancelled' \in BOOLEAN
          /\ signal' \in Errors \cup {"none", "run_cancelled"} /\ at' \in Steps
      BY <1>1 DEF StartTurn, Steps
    <3> QED BY <3>1, <3>2, <3>3 DEF RunTypes
  <2>2. MemoryTypes'
    BY <1>1, <1>a, EmptyMemoryType DEF StartTurn, MemoryTypes
  <2>3. CrewTypes'
    BY <1>1, NoChangesType, VerdictType DEF StartTurn, CrewTypes, NoVerdict
  <2> QED BY <1>1, <2>1, <2>2, <2>3 DEF StartTurn, Typed
<1>2. CASE \E h \in Hops : Hop(h)
  <2>1. PICK h \in Hops : Hop(h)
    BY <1>2
  <2>2. h[2] \in Steps /\ h[1] # "idle"
    BY <2>1 DEF Hops, Steps
  <2>3. RunTypes' /\ Live'
    BY <2>1, <2>2, <1>a DEF Hop, Pass, Continue, RunTypes, Live, Steps
  <2> QED BY <2>1, <2>3, <1>a DEF Hop, Pass, Typed, MemoryTypes, CrewTypes
<1>3. CASE Raises
  <2>1. PICK c \in Failures : Raise(c)
    BY <1>3 DEF Raises
  <2>2. shown' \in Seq(Outcomes)
    BY <2>1, <1>a, SayType DEF Raise, Failures, Outcomes, Errors
  <2>3. RunTypes' /\ Live'
    BY <2>1, <1>a DEF Raise, RunTypes, Live, Steps
  <2> QED BY <2>1, <2>2, <2>3, <1>a DEF Raise, Typed, MemoryTypes, CrewTypes
<1>4. CASE Refuses
  <2>1. PICK h \in Refusing, c \in Errors : Refuse(h, c)
    BY <1>4 DEF Refuses
  <2>2. RunTypes' /\ Live'
    BY <2>1, <1>a DEF Refuse, Refusing, Stop, RunTypes, Live, Steps
  <2> QED BY <2>1, <2>2, <1>a DEF Refuse, Stop, Typed, MemoryTypes, CrewTypes
<1>5. CASE LoadState
  <2>1. PICK read \in {store, EmptyMemory} : memory' = AddPrompt(read, turn)
    BY <1>5 DEF LoadState, Loaded
  <2>2. memory' \in Memory
    BY <1>5, <2>1, <1>a, MemoryType, EmptyMemoryType DEF LoadState, MemoryTypes
  <2>3. RunTypes' /\ Live'
    BY <1>5, <1>a DEF LoadState, Continue, RunTypes, Live, Steps
  <2> QED BY <1>5, <2>2, <2>3, <1>a DEF LoadState, Typed, MemoryTypes, CrewTypes
<1>6. CASE at = "orchestrate" /\ OrchestrateDev
  <2>1. RunTypes' /\ Live'
    BY <1>6, <1>a DEF OrchestrateDev, Continue, RunTypes, Live, Steps
  <2> QED BY <1>6, <2>1, <1>a DEF OrchestrateDev, Typed, MemoryTypes, CrewTypes
<1>7. CASE Replied
  <2>1. PICK m \in {"chat", "insights", "plan"},
             o \in {"chat_reply", "insights_reply", "plan_doc"} : ShortCircuit(m, o)
    BY <1>7 DEF Replied
  <2>2. shown' \in Seq(Outcomes)
    BY <2>1, <1>a, SayType DEF ShortCircuit, Outcomes, Replies
  <2>3. RunTypes' /\ Live'
    BY <2>1, <1>a DEF ShortCircuit, RunTypes, Live, Steps
  <2>4. memory' \in Memory
    BY <1>7, <2>1, <1>a, <1>b DEF Replied, ShortCircuit, MemoryTypes
  <2> QED BY <2>1, <2>2, <2>3, <2>4, <1>a DEF ShortCircuit, Typed, MemoryTypes, CrewTypes
<1>8. CASE Remember
  <2>1. RunTypes' /\ Live'
    BY <1>8, <1>a DEF Remember, RunTypes, Live, Steps
  <2> QED BY <1>8, <2>1, <1>a DEF Remember, Save, Typed, MemoryTypes, CrewTypes
<1>9. CASE Enhanced
  <2>1. memory' \in Memory /\ brief' \in {"nothing", "summary", "steps"}
    BY <1>9, <1>a, PlanType DEF Enhanced, MemoryTypes
  <2>2. RunTypes' /\ Live'
    BY <1>9, <1>a DEF Enhanced, Continue, RunTypes, Live, Steps
  <2> QED BY <1>9, <2>1, <2>2, <1>a DEF Enhanced, Typed, MemoryTypes, CrewTypes
<1>10. CASE Answered
  <2>1. RunTypes' /\ Live'
    BY <1>10, <1>a DEF Answered, AnswerRecorded, Continue, RunTypes, Live, Steps
  <2>2. memory' \in Memory
    BY <1>10, <1>a, <1>b DEF Answered, AnswerRecorded
  <2> QED BY <1>10, <2>1, <2>2, <1>a
          DEF Answered, AnswerRecorded, Typed, MemoryTypes, CrewTypes
<1>11. CASE Asked
  <2>1. RunTypes' /\ Live'
    BY <1>11, <1>a DEF Asked, RunTypes, Live, Steps
  <2> QED BY <1>11, <2>1, <1>a DEF Asked, Typed, MemoryTypes, CrewTypes
<1>12. CASE Extracted
  <2>1. PICK n \in 0..2 : changes' \in {NoChanges, Changeset("crew", FALSE, n)}
    BY <1>12 DEF Extracted
  <2>2. changes' \in Changesets
    <3>1. Changeset("crew", FALSE, n) \in Changesets
      BY <2>1, ChangesetType
    <3> QED BY <2>1, <3>1, NoChangesType
  <2>3. RunTypes' /\ Live'
    BY <1>12, <1>a DEF Extracted, RunTypes, Live, Steps
  <2> QED BY <1>12, <2>2, <2>3, <1>a DEF Extracted, Typed, MemoryTypes, CrewTypes
<1>13. CASE Rescue
  <2>1. PICK n \in IF socket = "up" THEN 0..2 ELSE {0} :
            /\ changes' = Changeset("rescue", FALSE, n)
            /\ IF n = 0 THEN Stop("EMPTY_CHANGESET") ELSE UNCHANGED control
            /\ at' = IF n = 0 THEN "ending" ELSE "reflect"
    BY <1>13 DEF Rescue
  <2>2. changes' \in Changesets
    <3>1. n \in 0..2
      BY <2>1
    <3> QED BY <2>1, <3>1, ChangesetType
  <2>3. RunTypes' /\ Live'
    BY <1>13, <2>1, <1>a DEF Rescue, Stop, RunTypes, Live, Steps, Errors
  <2> QED BY <1>13, <2>2, <2>3, <1>a DEF Rescue, Typed, MemoryTypes, CrewTypes
<1>14. CASE Reflected
  <2>1. PICK n \in ReflectedSizes(changes.items) : changes' = [changes EXCEPT !.items = n]
    BY <1>14 DEF Reflected
  <2>2. n \in 0..2
    BY <2>1, <1>a DEF ReflectedSizes, CrewTypes, Changesets
  <2>3. changes' \in Changesets
    BY <2>1, <2>2, <1>a DEF CrewTypes, Changesets
  <2>4. RunTypes' /\ Live'
    BY <1>14, <1>a DEF Reflected, RunTypes, Live, Steps
  <2> QED BY <1>14, <2>3, <2>4, <1>a DEF Reflected, Typed, MemoryTypes, CrewTypes
<1>15. CASE Vetted
  <2>1. verdict' \in Verdicts
    BY <1>15, <1>a, VerdictType DEF Vetted, CrewTypes
  <2>2. RunTypes' /\ Live'
    BY <1>15, <1>a DEF Vetted, RunTypes, Live, Steps
  <2> QED BY <1>15, <2>1, <2>2, <1>a DEF Vetted, Typed, MemoryTypes, CrewTypes
<1>16. CASE Retried
  <2>1. changes' \in Changesets
    <3>1. CASE UNCHANGED <<changes, verdict>>
      BY <1>a, <3>1 DEF CrewTypes
    <3>2. CASE \E n \in 1..2 : changes' = Changeset("retry", FALSE, n)
      <4>1. PICK n \in 1..2 : changes' = Changeset("retry", FALSE, n)
        BY <3>2
      <4>2. n \in 0..2
        OBVIOUS
      <4>3. Changeset("retry", FALSE, n) \in Changesets
        BY <4>2, ChangesetType
      <4> QED BY <4>1, <4>3
    <3> QED BY <1>16, <3>1, <3>2 DEF Retried
  <2>2. verdict' \in Verdicts
    BY <1>16, <1>a, <2>1, VerdictType DEF Retried, CrewTypes
  <2>3. RunTypes' /\ Live'
    BY <1>16, <1>a DEF Retried, RunTypes, Live, Steps
  <2> QED BY <1>16, <2>1, <2>2, <2>3, <1>a DEF Retried, Typed, MemoryTypes, CrewTypes
<1>17. CASE Record
  <2>1. RunTypes' /\ Live'
    BY <1>17, <1>a DEF Record, RunTypes, Live, Steps
  <2>2. memory' \in Memory
    BY <1>17, <1>a, <1>b DEF Record
  <2> QED BY <1>17, <2>1, <2>2, <1>a DEF Record, Save, Typed, MemoryTypes, CrewTypes
<1>18. CASE Previewed
  <2>1. shown' \in Seq(Outcomes)
    BY <1>18, <1>a, SayType DEF Previewed, Outcomes, Replies
  <2>2. RunTypes' /\ Live'
    BY <1>18, <1>a DEF Previewed, RunTypes, Live, Steps
  <2> QED BY <1>18, <2>1, <2>2, <1>a DEF Previewed, Typed, MemoryTypes, CrewTypes
<1>19. CASE Finish
  <2>1. shown' \in Seq(Outcomes)
    BY <1>19, <1>a, SayType DEF Finish, Outcomes, RunTypes
  <2>2. RunTypes' /\ Live'
    BY <1>19, <1>a DEF Finish, RunTypes, Live, Steps
  <2> QED BY <1>19, <2>1, <2>2, <1>a DEF Finish, Typed, MemoryTypes, CrewTypes
<1>20. CASE Cancel \/ Disconnect \/ Abort
  <2>1. RunTypes' /\ Live'
    BY <1>20, <1>a, ZenonT(30) DEF Cancel, Disconnect, Abort, Awaiting, RunTypes, Live, Steps
  <2> QED BY <1>20, <2>1, <1>a
          DEF Cancel, Disconnect, Abort, Typed, MemoryTypes, CrewTypes
<1>21. CASE UNCHANGED vars
  BY <1>21, <1>a DEF vars, Typed, RunTypes, MemoryTypes, CrewTypes, Live
<1> QED
  BY <1>1, <1>2, <1>3, <1>4, <1>5, <1>6, <1>7, <1>8, <1>9, <1>10, <1>11, <1>12,
     <1>13, <1>14, <1>15, <1>16, <1>17, <1>18, <1>19, <1>20, <1>21, StepKinds
  DEF Kinds

\* The type of the state, for any number of turns and any window.
THEOREM PipelineTyped == Spec => []TypeOK
<1>1. Spec => []Typed
  BY InitTyped, TypeStep, PTL DEF Spec
<1>2. Typed => TypeOK
  BY TypedMeans
<1> QED BY <1>1, <1>2, PTL

-----------------------------------------------------------------------------
(***************************************************************************)
(* What the user is told.                                                  *)
(***************************************************************************)
\* A stop has its reason, and before the end of a turn only a cancel gives one.
Reasons ==
    /\ cancelled => stop /\ signal \in Errors \cup {"run_cancelled"}
    /\ signal = "run_cancelled" => cancelled
    /\ signal # "none" => stop
    /\ at \notin {"idle", "ending"} =>
         /\ signal \in {"none", "run_cancelled"}
         /\ stop => signal = "run_cancelled"

\* Every step keeps that before its end only a cancel stops a turn.
LEMMA ReasonsStep == Typed /\ Reasons /\ [Next]_vars => Reasons'
<1> SUFFICES ASSUME Typed, Reasons, [Next]_vars PROVE Reasons'
  OBVIOUS
<1> USE DEF request, control, Reasons
<1>1. CASE StartTurn
  BY <1>1 DEF StartTurn
<1>2. CASE \E h \in Hops : Hop(h)
  BY <1>2 DEF Hops, Hop, Pass, Continue
<1>3. CASE Raises
  BY <1>3 DEF Raises, Raise
<1>4. CASE Refuses
  BY <1>4 DEF Refuses, Refuse, Stop, Errors
<1>5. CASE LoadState \/ (at = "orchestrate" /\ OrchestrateDev)
  BY <1>5 DEF LoadState, OrchestrateDev, Continue
<1>6. CASE Replied \/ Remember
  BY <1>6 DEF Replied, ShortCircuit, Remember
<1>7. CASE Enhanced \/ Answered \/ Asked
  BY <1>7 DEF Enhanced, Answered, AnswerRecorded, Asked, Continue
<1>8. CASE Extracted \/ Reflected \/ Vetted \/ Retried
  <2>1. UNCHANGED control /\ at \notin Resting /\ at' \notin Resting
    BY <1>8 DEF Extracted, Reflected, Vetted, Retried, Resting
  <2> QED BY <2>1 DEF Resting
<1>9. CASE Rescue
  BY <1>9 DEF Rescue, Stop, Errors
<1>10. CASE Record \/ Previewed \/ Finish
  BY <1>10 DEF Record, Previewed, Finish
<1>11. CASE Cancel \/ Disconnect \/ Abort
  BY <1>11 DEF Cancel, Disconnect, Abort, Awaiting
<1>12. CASE UNCHANGED vars
  BY <1>12 DEF vars
<1> QED
  BY <1>1, <1>2, <1>3, <1>4, <1>5, <1>6, <1>7, <1>8, <1>9, <1>10, <1>11, <1>12,
     StepKinds DEF Kinds

\* The first message of a turn.
LEMMA FirstSaid ==
    ASSUME shown = <<>>, NEW o, Say(o)
    PROVE  shown' = IF socket = "up" THEN <<o>> ELSE <<>>
BY DEF Say

\* What has been shown by the place the turn has come to.
Told ==
    /\ at \notin Resting => shown = <<>>
    /\ at \in {"remember", "ending"} => shown = <<>> \/ \E r \in Replies : shown = <<r>>
    /\ at = "remember" => shown # <<"changeset">>
    /\ at = "remember" /\ socket = "up" => shown # <<>>
    /\ at = "ending" /\ shown # <<>> => signal \in {"none", "run_cancelled"}
    /\ at = "ending" /\ socket = "up" => shown # <<>> \/ signal # "none"
Outcome == OneOutcome /\ EndIsTold

\* While a turn runs, Told leaves nothing of Outcome to show.
LEMMA RunningOutcome == at # "idle" /\ Told => Outcome
<1> SUFFICES ASSUME at # "idle", Told PROVE Outcome
  OBVIOUS
<1>1. shown = <<>> \/ \E r \in Replies : shown = <<r>>
  BY DEF Told, Resting
<1>2. Len(shown) < 2
  BY <1>1
<1> QED BY <1>2 DEF Outcome, OneOutcome, EndIsTold

\* Every step keeps what has been told by where the turn is.
LEMMA ToldStep == Typed /\ Reasons /\ Told /\ [Next]_vars => Told'
<1> SUFFICES ASSUME Typed, Reasons, Told, [Next]_vars PROVE Told'
  OBVIOUS
<1> USE DEF request, control, Told, Resting
<1>a. socket \in {"up", "down"} /\ Reasons
  BY DEF Typed, RunTypes
<1>1. CASE StartTurn
  BY <1>1 DEF StartTurn
<1>2. CASE \E h \in Hops : Hop(h)
  BY <1>2, <1>a DEF Hops, Hop, Pass, Continue, Reasons
<1>3. CASE Raises
  BY <1>3 DEF Raises, Raise
<1>4. CASE Refuses
  BY <1>4 DEF Refuses, Refusing, Refuse, Stop, Errors
<1>5. CASE LoadState \/ (at = "orchestrate" /\ OrchestrateDev)
  BY <1>5, <1>a DEF LoadState, OrchestrateDev, Continue, Reasons
<1>6. CASE Replied
  <2>1. PICK m \in {"chat", "insights", "plan"},
             o \in {"chat_reply", "insights_reply", "plan_doc"} : ShortCircuit(m, o)
    BY <1>6 DEF Replied
  <2>2. shown' = IF socket = "up" THEN <<o>> ELSE <<>>
    BY <2>1, FirstSaid DEF ShortCircuit
  <2>3. o \in Replies /\ o # "changeset"
    BY DEF Replies
  <2> QED BY <2>1, <2>2, <2>3 DEF ShortCircuit
<1>7. CASE Remember
  BY <1>7, <1>a DEF Remember, Reasons
<1>8. CASE Enhanced \/ Answered \/ Asked
  BY <1>8, <1>a DEF Enhanced, Answered, AnswerRecorded, Asked, Continue, Reasons
<1>9. CASE Extracted \/ Reflected \/ Vetted \/ Retried \/ Record
  BY <1>9 DEF Extracted, Reflected, Vetted, Retried, Record
<1>10. CASE Rescue
  BY <1>10 DEF Rescue, Stop
<1>11. CASE Previewed
  <2>1. shown' = <<"changeset">>
    BY <1>11, FirstSaid DEF Previewed
  <2> QED BY <1>11, <2>1, <1>a DEF Previewed, Reasons, Replies
<1>12. CASE Finish
  BY <1>12 DEF Finish
<1>13. CASE Cancel \/ Disconnect \/ Abort
  BY <1>13 DEF Cancel, Disconnect, Abort, Awaiting
<1>14. CASE UNCHANGED vars
  BY <1>14 DEF vars
<1> QED
  BY <1>1, <1>2, <1>3, <1>4, <1>5, <1>6, <1>7, <1>8, <1>9, <1>10, <1>11, <1>12,
     <1>13, <1>14, StepKinds DEF Kinds

\* A turn ends by Raise, Finish or Abort; between turns nothing is said.
LEMMA OutcomeStep == Typed /\ Reasons /\ Told /\ Outcome /\ [Next]_vars => Outcome'
<1> SUFFICES ASSUME Typed, Reasons, Told, Outcome, [Next]_vars PROVE Outcome'
  OBVIOUS
<1>a. Told'
  BY ToldStep
<1>1. CASE at' # "idle"
  <2>1. (at # "idle" /\ Told => Outcome)'
    BY RunningOutcome, PTL
  <2> QED BY <1>1, <1>a, <2>1
<1>2. CASE at' = "idle"
  <2>a. /\ socket \in {"up", "down"} /\ turn \in 0..MaxTurns
        /\ signal \in Errors \cup {"none", "run_cancelled"}
    BY DEF Typed, RunTypes
  <2>1. CASE Raises
    <3>1. PICK c \in Failures : Raise(c)
      BY <2>1 DEF Raises
    <3>2. shown' = IF socket = "up" THEN <<c>> ELSE <<>>
      BY <2>1, <3>1, FirstSaid DEF Raises, Raise, Told, Resting
    <3>3. c \in Errors
      BY DEF Failures, Errors
    <3>4. socket' = socket
      BY <3>1 DEF Raise, request
    <3> QED BY <2>a, <3>2, <3>3, <3>4 DEF Outcome, OneOutcome, EndIsTold
  <2>2. CASE Finish
    <3>1. /\ socket' = socket /\ cancelled' = cancelled
          /\ shown' = IF signal # "none" /\ socket = "up" THEN Append(shown, signal)
                      ELSE shown
      BY <2>2 DEF Finish, Say, request, control, Reasons
    <3>2. CASE shown = <<>>
      <4>1. shown' = IF signal # "none" /\ socket = "up" THEN <<signal>> ELSE <<>>
        BY <3>1, <3>2
      <4>2. signal # "none" => signal \in Errors \cup {"run_cancelled"}
        BY <2>a
      <4> QED BY <2>2, <3>1, <3>2, <4>1, <4>2
              DEF Finish, Told, Reasons, Outcome, OneOutcome, EndIsTold
    <3>3. CASE shown # <<>>
      <4>1. PICK r \in Replies : shown = <<r>>
        BY <2>2, <3>3 DEF Finish, Told
      <4>2. /\ signal \in {"none", "run_cancelled"}
            /\ signal = "run_cancelled" <=> cancelled
        BY <2>2, <3>3 DEF Finish, Told, Reasons, Errors
      <4>3. signal # "none" <=> cancelled
        BY <4>2
      <4>4. CASE cancelled /\ socket = "up"
        <5>1. shown' = Append(<<r>>, "run_cancelled")
          BY <3>1, <4>1, <4>2, <4>3, <4>4
        <5>2. <<r>> \in Seq(Outcomes) /\ "run_cancelled" \in Outcomes /\ Len(<<r>>) = 1
          BY DEF Outcomes
        <5>3. /\ Len(shown') = 2
              /\ shown'[1] = r /\ shown'[2] = "run_cancelled"
          BY <5>1, <5>2, AppendProperties
        <5>4. shown' # <<>>
          BY <5>3
        <5> QED BY <3>1, <4>4, <5>3, <5>4 DEF Outcome, OneOutcome, EndIsTold
      <4>5. CASE ~(cancelled /\ socket = "up")
        <5>1. shown' = <<r>>
          BY <3>1, <4>1, <4>3, <4>5
        <5> QED BY <3>1, <4>5, <5>1 DEF Outcome, OneOutcome, EndIsTold
      <4> QED BY <4>4, <4>5
    <3> QED BY <3>2, <3>3
  <2>3. CASE Cancel \/ Disconnect \/ Abort
    <3>1. shown' = shown /\ at # "idle"
      BY <2>3 DEF Cancel, Disconnect, Abort, Awaiting
    <3>2. Abort /\ socket' = "down"
      BY <1>2, <2>3, <3>1, <2>a DEF Cancel, Disconnect, Abort, request
    <3>3. Len(shown') < 2
      <4>1. shown = <<>> \/ \E r \in Replies : shown = <<r>>
        BY <3>1 DEF Told, Resting
      <4>2. Len(shown) < 2
        BY <4>1
      <4> QED BY <3>1, <4>2
    <3> QED BY <3>2, <3>3 DEF Outcome, OneOutcome, EndIsTold
  <2>4. CASE UNCHANGED vars
    BY <2>4 DEF vars, Outcome, OneOutcome, EndIsTold
  <2>5. ~StartTurn /\ ~(\E h \in Hops : Hop(h)) /\ ~Refuses /\ ~LoadState
    BY <1>2 DEF StartTurn, Hops, Hop, Pass, Continue, Refuses, Refuse, LoadState
  <2>6. ~OrchestrateDev /\ ~Replied /\ ~Remember /\ ~Enhanced /\ ~Answered /\ ~Asked
    BY <1>2 DEF OrchestrateDev, Continue, Replied, ShortCircuit, Remember, Enhanced,
                Answered, AnswerRecorded, Asked
  <2>7. ~Extracted /\ ~Rescue /\ ~Reflected /\ ~Vetted /\ ~Retried /\ ~Record /\ ~Previewed
    BY <1>2 DEF Extracted, Rescue, Reflected, Vetted, Retried, Record, Previewed
  <2> QED BY <2>1, <2>2, <2>3, <2>4, <2>5, <2>6, <2>7, StepKinds DEF Kinds
<1> QED BY <1>1, <1>2

-----------------------------------------------------------------------------
(***************************************************************************)
(* What a preview shows.                                                   *)
(***************************************************************************)
\* The changeset on its way to the preview, and the verdict next to it.
Sound ==
    /\ at \in {"reflect", "dry_run", "retry", "record", "preview"} =>
         changes.items > 0 /\ ~changes.drifted
    /\ at = "retry" => prompt.mcp
    /\ at \in {"retry", "record", "preview"} =>
         verdict.of = changes /\ (verdict.status = "skipped" <=> ~prompt.mcp)

\* Every step keeps the verdict on the changeset it was given on.
LEMMA SoundStep == Typed /\ Sound /\ [Next]_vars => Sound'
<1> SUFFICES ASSUME Typed, Sound, [Next]_vars PROVE Sound'
  OBVIOUS
<1> USE DEF request, crew, Sound
<1>a. changes \in Changesets
  BY DEF Typed, CrewTypes
<1>1. CASE StartTurn
  BY <1>1 DEF StartTurn
<1>2. CASE \E h \in Hops : Hop(h)
  BY <1>2 DEF Hops, Hop, Pass, Continue
<1>3. CASE Raises \/ Refuses
  BY <1>3 DEF Raises, Raise, Refuses, Refuse
<1>4. CASE LoadState \/ (at = "orchestrate" /\ OrchestrateDev)
  BY <1>4 DEF LoadState, OrchestrateDev, Continue
<1>5. CASE Replied \/ Remember
  BY <1>5 DEF Replied, ShortCircuit, Remember
<1>6. CASE Enhanced \/ Answered \/ Asked
  BY <1>6 DEF Enhanced, Answered, AnswerRecorded, Asked, Continue
<1>7. CASE Extracted
  <2>1. PICK n \in 0..2 : changes' \in {NoChanges, Changeset("crew", FALSE, n)}
    BY <1>7 DEF Extracted
  <2>2. changes'.items \in 0..2 /\ ~changes'.drifted
    BY <2>1 DEF NoChanges, Changeset
  <2> QED BY <1>7, <2>2 DEF Extracted
<1>8. CASE Rescue
  <2>1. PICK n \in IF socket = "up" THEN 0..2 ELSE {0} :
            /\ changes' = Changeset("rescue", FALSE, n)
            /\ at' = IF n = 0 THEN "ending" ELSE "reflect"
    BY <1>8 DEF Rescue
  <2>2. n \in 0..2 /\ changes'.items = n /\ ~changes'.drifted
    BY <2>1 DEF Changeset
  <2>3. at' = "ending" \/ (at' = "reflect" /\ n # 0)
    BY <2>1
  <2> QED BY <2>2, <2>3
<1>9. CASE Reflected
  <2>1. PICK n \in ReflectedSizes(changes.items) : changes' = [changes EXCEPT !.items = n]
    BY <1>9 DEF Reflected
  <2>2. n > 0
    BY <1>9, <1>a, <2>1 DEF Reflected, ReflectedSizes, Changesets
  <2>3. changes'.items = n /\ changes'.drifted = changes.drifted
    BY <1>a, <2>1 DEF Changesets
  <2> QED BY <1>9, <2>2, <2>3 DEF Reflected
<1>10. CASE Vetted
  BY <1>10 DEF Vetted
<1>11. CASE Retried
  <2>1. CASE UNCHANGED <<changes, verdict>>
    BY <1>11, <2>1 DEF Retried
  <2>2. CASE \E n \in 1..2, s \in {"ok", "invalid", "infra_error"} :
               /\ changes' = Changeset("retry", FALSE, n)
               /\ verdict' = [status |-> s, of |-> changes']
    <3>1. PICK n \in 1..2, s \in {"ok", "invalid", "infra_error"} :
               /\ changes' = Changeset("retry", FALSE, n)
               /\ verdict' = [status |-> s, of |-> changes']
      BY <2>2
    <3>2. changes'.items = n /\ ~changes'.drifted /\ n > 0
      BY <3>1 DEF Changeset
    <3>3. verdict'.of = changes' /\ verdict'.status # "skipped"
      BY <3>1
    <3>4. prompt' = prompt /\ prompt.mcp
      BY <1>11 DEF Retried
    <3> QED BY <3>2, <3>3, <3>4
  <2> QED BY <1>11, <2>1, <2>2 DEF Retried
<1>12. CASE Record \/ Previewed \/ Finish
  BY <1>12 DEF Record, Previewed, Finish
<1>13. CASE Cancel \/ Disconnect \/ Abort
  BY <1>13 DEF Cancel, Disconnect, Abort
<1>14. CASE UNCHANGED vars
  BY <1>14 DEF vars
<1> QED
  BY <1>1, <1>2, <1>3, <1>4, <1>5, <1>6, <1>7, <1>8, <1>9, <1>10, <1>11, <1>12,
     <1>13, <1>14, StepKinds DEF Kinds

\* A message other than a preview keeps the property.
LEMMA OtherSaid ==
    ASSUME Typed, PreviewIsVetted, NEW o \in Outcomes \ {"changeset"},
           Say(o) \/ UNCHANGED shown, UNCHANGED <<prompt, crew>>
    PROVE  PreviewIsVetted'
<1>1. \A i \in DOMAIN shown' : shown'[i] = "changeset" =>
          i \in DOMAIN shown /\ shown[i] = "changeset"
  <2>1. shown \in Seq(Outcomes)
    BY DEF Typed
  <2>2. CASE shown' = Append(shown, o)
    BY <2>1, <2>2, AppendProperties
  <2> QED BY <2>2 DEF Say
<1> QED BY <1>1 DEF PreviewIsVetted, crew

\* Every step keeps a preview the one that was vetted.
LEMMA PreviewStep ==
    Typed /\ Told /\ Sound /\ PreviewIsVetted /\ [Next]_vars => PreviewIsVetted'
<1> SUFFICES ASSUME Typed, Told, Sound, PreviewIsVetted, [Next]_vars
             PROVE  PreviewIsVetted'
  OBVIOUS
<1>1. CASE shown' = <<>>
  BY <1>1 DEF PreviewIsVetted
<1>2. CASE at \notin Resting /\ UNCHANGED shown
  BY <1>1, <1>2 DEF Told
<1>3. CASE StartTurn
  BY <1>1, <1>3 DEF StartTurn
<1>4. CASE Raises
  <2>1. PICK c \in Failures : Raise(c)
    BY <1>4 DEF Raises
  <2> QED BY <2>1, OtherSaid DEF Raise, Failures, Outcomes, Errors, request
<1>5. CASE Replied
  <2>1. PICK m \in {"chat", "insights", "plan"},
             o \in {"chat_reply", "insights_reply", "plan_doc"} : ShortCircuit(m, o)
    BY <1>5 DEF Replied
  <2> QED BY <2>1, OtherSaid DEF ShortCircuit, Outcomes, Replies, request
<1>6. CASE Previewed
  <2>1. shown' = <<"changeset">>
    BY <1>6, FirstSaid DEF Previewed, Told, Resting
  <2>2. /\ changes.items > 0 /\ ~changes.drifted /\ verdict.of = changes
        /\ verdict.status = "skipped" <=> ~prompt.mcp
    BY <1>6 DEF Previewed, Sound
  <2>3. UNCHANGED <<prompt, changes, verdict>>
    BY <1>6 DEF Previewed, request, crew
  <2> QED BY <2>2, <2>3 DEF PreviewIsVetted
<1>7. CASE Remember \/ Disconnect \/ Cancel \/ Abort \/ UNCHANGED vars
  BY <1>7 DEF PreviewIsVetted, Remember, Disconnect, Cancel, Abort, vars, request, crew
<1>8. CASE Finish
  <2>1. signal # "changeset"
    BY DEF Typed, RunTypes, Errors
  <2>2. signal = "none" \/ signal \in Outcomes \ {"changeset"}
    BY <2>1 DEF Typed, RunTypes, Outcomes
  <2>3. CASE UNCHANGED shown
    BY <1>8, <2>3 DEF Finish, PreviewIsVetted, request, crew
  <2> QED BY <1>8, <2>2, <2>3, OtherSaid DEF Finish, request
<1>9. CASE (\E h \in Hops : Hop(h)) \/ Refuses \/ LoadState
           \/ (at = "orchestrate" /\ OrchestrateDev)
  BY <1>2, <1>9 DEF Hops, Hop, Pass, Refuses, Refusing, Refuse, LoadState,
                    OrchestrateDev, Resting
<1>10. CASE Enhanced \/ Answered \/ Asked \/ Rescue \/ Record
  BY <1>2, <1>10 DEF Enhanced, Answered, AnswerRecorded, Asked, Rescue, Record, Resting
<1>11. CASE Extracted \/ Reflected \/ Vetted \/ Retried
  BY <1>2, <1>11 DEF Extracted, Reflected, Vetted, Retried, Resting
<1> QED
  BY <1>3, <1>4, <1>5, <1>6, <1>7, <1>8, <1>9, <1>10, <1>11, StepKinds DEF Kinds

-----------------------------------------------------------------------------
(***************************************************************************)
(* What a turn leaves in the stored memory.                                *)
(***************************************************************************)
Entries(w) == {w[i] : i \in DOMAIN w}

\* A window gains the turn and nothing else.
LEMMA RecentEntries ==
    ASSUME NEW w \in Windows, NEW t \in Turns
    PROVE  /\ Entries(Recent(w, t)) \subseteq Entries(w) \cup {t}
           /\ t \in Entries(Recent(w, t))
<1>1. w \in Seq(Turns)
  BY PipelineAssumption DEF PipelineAssumption, Windows
<1>2. \A v \in Seq(Turns) : /\ Entries(Append(v, t)) \subseteq Entries(v) \cup {t}
                           /\ t \in Entries(Append(v, t))
  <2> SUFFICES ASSUME NEW v \in Seq(Turns)
               PROVE  /\ Entries(Append(v, t)) \subseteq Entries(v) \cup {t}
                      /\ t \in Entries(Append(v, t))
    OBVIOUS
  <2>1. /\ DOMAIN Append(v, t) = 1..(Len(v) + 1) /\ DOMAIN v = 1..Len(v) /\ Len(v) \in Nat
        /\ \A i \in 1..Len(v) : Append(v, t)[i] = v[i]
        /\ Append(v, t)[Len(v) + 1] = t
    BY AppendProperties, LenProperties
  <2> QED BY <2>1 DEF Entries
<1>3. CASE Len(w) < Kept
  BY <1>1, <1>2, <1>3 DEF Recent
<1>4. CASE ~(Len(w) < Kept)
  <2>1. w # <<>>
    BY <1>4, PipelineAssumption DEF PipelineAssumption
  <2>2. /\ Tail(w) \in Seq(Turns)
        /\ DOMAIN Tail(w) = 1..(Len(w) - 1) /\ DOMAIN w = 1..Len(w) /\ Len(w) \in Nat
        /\ \A i \in 1..(Len(w) - 1) : Tail(w)[i] = w[i + 1]
    BY <1>1, <2>1, HeadTailProperties, LenProperties
  <2>3. Entries(Tail(w)) \subseteq Entries(w)
    BY <2>2 DEF Entries
  <2>4. Entries(Append(Tail(w), t)) \subseteq Entries(Tail(w)) \cup {t}
    BY <1>2, <2>2
  <2>5. t \in Entries(Append(Tail(w), t))
    BY <1>2, <2>2
  <2> QED BY <1>4, <2>3, <2>4, <2>5 DEF Recent
<1> QED BY <1>3, <1>4

\* No memory knows of a later turn; before the save, the store does not know of
\* this one; after it the turn no longer fails.
Traceless ==
    /\ \A t \in Entries(store.prompts) : t <= turn
    /\ \A t \in Entries(memory.prompts) : t <= turn
    /\ at \notin {"idle", "preview", "ending"} => turn \notin Entries(store.prompts)
    /\ at = "ending" /\ turn \in Entries(store.prompts) =>
         signal \in {"none", "run_cancelled"}

\* What a phase writes into the memory after the prompt leaves the prompts alone.
LEMMA PromptsKept ==
    ASSUME NEW m \in Memory, NEW t \in Turns
    PROVE  /\ AddAnswer(m, t).prompts = m.prompts
           /\ AddQuery(m, t).prompts = m.prompts
           /\ AddPlan(m, t).prompts = m.prompts
           /\ Approve(m).prompts = m.prompts
           /\ MarkBuilt(AddChangeset(m, t)).prompts = m.prompts
BY DEF Memory, AddAnswer, AddQuery, AddPlan, Approve, MarkBuilt, AddChangeset

\* Every step keeps the store ignorant of the turn until its save.
LEMMA TracelessStep == Typed /\ Reasons /\ Traceless /\ [Next]_vars => Traceless'
<1> SUFFICES ASSUME Typed, Reasons, Traceless, [Next]_vars PROVE Traceless'
  OBVIOUS
<1> USE DEF request, control, Traceless
<1>a. /\ turn \in 0..MaxTurns /\ (at # "idle" => turn \in Turns)
      /\ memory \in Memory /\ store \in Memory
  BY DEF Typed, RunTypes, MemoryTypes, Live
<1>b. at # "idle" => /\ AddAnswer(memory, turn).prompts = memory.prompts
                    /\ AddQuery(memory, turn).prompts = memory.prompts
                    /\ AddPlan(memory, turn).prompts = memory.prompts
                    /\ Approve(memory).prompts = memory.prompts
                    /\ MarkBuilt(AddChangeset(memory, turn)).prompts = memory.prompts
  BY <1>a, PromptsKept
<1>1. CASE StartTurn
  <2>1. /\ turn' = turn + 1 /\ at' = "sanitize" /\ store' = store
        /\ turn \in Nat
    BY <1>1, <1>a, PipelineAssumption DEF StartTurn, PipelineAssumption
  <2>2. \A t \in Entries(store.prompts) : t \in Nat
    BY <1>a, PipelineAssumption DEF Memory, Windows, Turns, Entries, PipelineAssumption
  <2>3. \A t \in Entries(store.prompts) : t <= turn + 1 /\ t # turn + 1
    BY <2>1, <2>2
  <2>4. memory'.prompts = <<>>
    BY <1>1 DEF StartTurn, EmptyMemory
  <2> QED BY <2>1, <2>3, <2>4 DEF Entries
<1>2. CASE \E h \in Hops : Hop(h)
  BY <1>2 DEF Hops, Hop, Pass, Continue
<1>3. CASE Raises
  BY <1>3 DEF Raises, Raise
<1>4. CASE Refuses
  BY <1>4 DEF Refuses, Refusing, Refuse, Stop
<1>5. CASE LoadState
  <2>1. PICK read \in {store, EmptyMemory} : memory' = AddPrompt(read, turn)
    BY <1>5 DEF LoadState, Loaded
  <2>2. /\ read \in Memory /\ turn \in Turns
        /\ \A t \in Entries(read.prompts) : t <= turn
    BY <1>5, <1>a, <2>1, EmptyMemoryType DEF LoadState, EmptyMemory, Entries
  <2>3. memory'.prompts = Recent(read.prompts, turn) /\ read.prompts \in Windows
    BY <2>1, <2>2 DEF AddPrompt, Memory
  <2>4. Entries(memory'.prompts) \subseteq Entries(read.prompts) \cup {turn}
    BY <2>2, <2>3, RecentEntries
  <2>5. turn <= turn
    BY <2>2, PipelineAssumption DEF Turns, PipelineAssumption
  <2> QED BY <1>5, <2>2, <2>4, <2>5 DEF LoadState, Continue
<1>6. CASE at = "orchestrate" /\ OrchestrateDev
  BY <1>6 DEF OrchestrateDev, Continue
<1>7. CASE Replied
  <2>1. PICK m \in {"chat", "insights", "plan"},
             o \in {"chat_reply", "insights_reply", "plan_doc"} : ShortCircuit(m, o)
    BY <1>7 DEF Replied
  <2>2. memory'.prompts = memory.prompts
    BY <1>7, <1>b, <2>1 DEF Replied, ShortCircuit
  <2> QED BY <2>1, <2>2 DEF ShortCircuit
<1>8. CASE Remember
  BY <1>8 DEF Remember, Save, Reasons
<1>9. CASE Enhanced
  BY <1>9, <1>b DEF Enhanced, Continue
<1>10. CASE Answered \/ Asked
  BY <1>10, <1>b DEF Answered, AnswerRecorded, Asked, Continue
<1>11. CASE Extracted \/ Reflected \/ Vetted \/ Retried
  <2>1. /\ at \notin {"idle", "sanitize", "load_state", "preview", "ending"}
        /\ at' \notin {"idle", "sanitize", "load_state", "preview", "ending"}
        /\ UNCHANGED <<turn, memory, store>>
    BY <1>11 DEF Extracted, Reflected, Vetted, Retried
  <2> QED BY <2>1
<1>12. CASE Rescue
  <2>1. at = "rescue" /\ at' \in {"ending", "reflect"} /\ UNCHANGED <<turn, memory, store>>
    BY <1>12 DEF Rescue
  <2> QED BY <2>1
<1>13. CASE Record
  BY <1>13, <1>b DEF Record, Save
<1>14. CASE Previewed
  BY <1>14, Reasons DEF Previewed, Reasons
<1>15. CASE Finish \/ Cancel \/ Disconnect \/ Abort
  BY <1>15 DEF Finish, Cancel, Disconnect, Abort, Awaiting
<1>16. CASE UNCHANGED vars
  BY <1>16 DEF vars
<1> QED
  BY <1>1, <1>2, <1>3, <1>4, <1>5, <1>6, <1>7, <1>8, <1>9, <1>10, <1>11, <1>12,
     <1>13, <1>14, <1>15, <1>16, StepKinds DEF Kinds

\* A step that says no error and leaves the store and the turn keeps the property.
LEMMA NoErrorSaid ==
    ASSUME Typed, FailureLeavesNoTrace, NEW o \in Outcomes \ Errors,
           Say(o) \/ UNCHANGED shown, UNCHANGED <<turn, store>>
    PROVE  FailureLeavesNoTrace'
<1>1. \A i \in DOMAIN shown' : shown'[i] \in Errors =>
          i \in DOMAIN shown /\ shown[i] \in Errors
  <2>1. shown \in Seq(Outcomes)
    BY DEF Typed
  <2>2. CASE shown' = Append(shown, o)
    BY <2>1, <2>2, AppendProperties
  <2> QED BY <2>2 DEF Say
<1> QED BY <1>1 DEF FailureLeavesNoTrace

\* Every step keeps a failed turn without a trace.
LEMMA FailureStep ==
    Typed /\ Reasons /\ Told /\ Traceless /\ FailureLeavesNoTrace /\ [Next]_vars
        => FailureLeavesNoTrace'
<1> SUFFICES ASSUME Typed, Reasons, Told, Traceless, FailureLeavesNoTrace, [Next]_vars
             PROVE  FailureLeavesNoTrace'
  OBVIOUS
<1>1. CASE shown' = <<>>
  BY <1>1 DEF FailureLeavesNoTrace
<1>2. CASE at \notin Resting /\ UNCHANGED shown
  BY <1>1, <1>2 DEF Told
<1>3. CASE StartTurn
  BY <1>1, <1>3 DEF StartTurn
<1>4. CASE Raises
  <2>1. PICK c \in Failures : Raise(c)
    BY <1>4 DEF Raises
  <2>2. shown' = IF socket = "up" THEN <<c>> ELSE <<>>
    BY <1>4, <2>1, FirstSaid DEF Raises, Raise, Told
  <2>3. socket = "up" => at # "preview" /\ at # "ending" /\ at # "idle"
    BY <1>4 DEF Raises, Resting
  <2> QED BY <1>1, <2>1, <2>2, <2>3 DEF Raise, request, Traceless, Entries, FailureLeavesNoTrace
<1>5. CASE Replied
  <2>1. PICK m \in {"chat", "insights", "plan"},
             o \in {"chat_reply", "insights_reply", "plan_doc"} : ShortCircuit(m, o)
    BY <1>5 DEF Replied
  <2> QED BY <2>1, NoErrorSaid DEF ShortCircuit, Outcomes, Replies, Errors, request
<1>6. CASE Previewed
  <2>1. "changeset" \in Outcomes \ Errors
    BY DEF Outcomes, Replies, Errors
  <2> QED BY <1>6, <2>1, NoErrorSaid DEF Previewed, request
<1>7. CASE Disconnect \/ Cancel \/ Abort \/ UNCHANGED vars
  BY <1>7 DEF FailureLeavesNoTrace, Disconnect, Cancel, Abort, vars, request
<1>8. CASE Remember
  <2>1. \A i \in DOMAIN shown' : shown'[i] \notin Errors
    BY <1>8 DEF Remember, Told, Errors, Replies
  <2> QED BY <2>1 DEF FailureLeavesNoTrace
<1>9. CASE Finish
  <2>1. CASE signal \in Errors
    <3>1. turn' = turn /\ store' = store
      BY <1>9 DEF Finish, request
    <3>2. turn \notin Entries(store.prompts)
      BY <1>9, <2>1 DEF Finish, Traceless, Errors
    <3> QED BY <3>1, <3>2 DEF FailureLeavesNoTrace, Entries
  <2>2. CASE signal = "run_cancelled"
    <3>1. "run_cancelled" \in Outcomes \ Errors
      BY DEF Outcomes, Errors
    <3> QED BY <1>9, <2>2, <3>1, NoErrorSaid DEF Finish, request
  <2>3. CASE signal = "none"
    BY <1>9, <2>3 DEF Finish, request, FailureLeavesNoTrace
  <2> QED BY <2>1, <2>2, <2>3 DEF Typed, RunTypes
<1>10. CASE (\E h \in Hops : Hop(h)) \/ Refuses \/ LoadState
           \/ (at = "orchestrate" /\ OrchestrateDev)
  BY <1>2, <1>10 DEF Hops, Hop, Pass, Refuses, Refusing, Refuse, LoadState,
                    OrchestrateDev, Resting
<1>11. CASE Enhanced \/ Answered \/ Asked \/ Rescue \/ Record
  BY <1>2, <1>11 DEF Enhanced, Answered, AnswerRecorded, Asked, Rescue, Record, Resting
<1>12. CASE Extracted \/ Reflected \/ Vetted \/ Retried
  BY <1>2, <1>12 DEF Extracted, Reflected, Vetted, Retried, Resting
<1> QED
  BY <1>3, <1>4, <1>5, <1>6, <1>7, <1>8, <1>9, <1>10, <1>11, <1>12, StepKinds DEF Kinds

-----------------------------------------------------------------------------
(***************************************************************************)
(* The life of the plan.                                                   *)
(***************************************************************************)
Loading == {"idle", "sanitize", "load_state", "preview", "ending"}
Early   == {"warmup", "plan_check", "orchestrate", "remember", "classify_intent",
            "classify_module", "enhance"}

\* How the turn came by the plan in its memory, until it may save it: the store's,
\* none because the memory could not be read, the one it has just written, or the
\* store's approved by the prompt and shown to the enhancer step by step.
ApprovedNow == /\ store.plan.status = "proposed"
               /\ memory.plan = [store.plan EXCEPT !.status = "approved"]
               /\ prompt.approves /\ brief = "steps"
Linked ==
    /\ store.plan.status # "approved"
    /\ at \notin Loading =>
        \/ memory.plan = store.plan
        \/ memory.plan = NoPlan /\ memory.prompts = <<turn>>
        \/ /\ at = "remember" /\ mode = "plan"
           /\ memory.plan = [status |-> "proposed", of |-> turn]
        \/ at \notin Early /\ ApprovedNow

\* What a phase writes leaves the plan alone, except for plan mode.
LEMMA PlanKept ==
    ASSUME NEW m \in Memory, NEW t \in Turns
    PROVE  /\ AddPrompt(m, t).plan = m.plan /\ AddAnswer(m, t).plan = m.plan
           /\ AddQuery(m, t).plan = m.plan /\ AddChangeset(m, t).plan = m.plan
           /\ AddPlan(m, t).plan = [status |-> "proposed", of |-> t]
           /\ AddChangeset(m, t).items = Recent(m.items, t)
BY DEF Memory, AddPrompt, AddAnswer, AddQuery, AddChangeset, AddPlan

\* Every step keeps the memory's plan in line with the stored one.
LEMMA LinkedStep == Typed /\ Linked /\ [Next]_vars => Linked'
<1> SUFFICES ASSUME Typed, Linked, [Next]_vars PROVE Linked'
  OBVIOUS
<1> USE DEF request, Linked, ApprovedNow
<1>a. /\ at # "idle" => turn \in Turns
      /\ memory \in Memory /\ store \in Memory
  BY DEF Typed, MemoryTypes, Live
<1>1. CASE StartTurn
  BY <1>1 DEF StartTurn, Loading
<1>2. CASE \E h \in Hops : Hop(h)
  <2>1. PICK h \in Hops : Hop(h)
    BY <1>2
  <2>2. at = h[1] /\ at' \in {h[2], "ending"} /\ UNCHANGED <<turn, prompt, memory, store, brief, mode>>
    BY <2>1 DEF Hop, Pass, Continue
  <2>3. h[1] # "sanitize" => h[1] \notin Loading /\ (h[1] \notin Early => h[2] \notin Early)
                             /\ h[1] # "remember"
    BY DEF Hops, Loading, Early
  <2>4. h[1] = "sanitize" => h[2] \in Loading
    BY DEF Hops, Loading
  <2> QED BY <2>2, <2>3, <2>4 DEF Loading
<1>3. CASE Raises \/ Refuses
  BY <1>3 DEF Raises, Raise, Refuses, Refuse, Loading
<1>4. CASE LoadState
  <2>1. PICK read \in {store, EmptyMemory} : memory' = AddPrompt(read, turn)
    BY <1>4 DEF LoadState, Loaded
  <2>2. read \in Memory /\ turn \in Turns
    BY <1>4, <1>a, <2>1, EmptyMemoryType DEF LoadState
  <2>3. memory'.plan = read.plan /\ memory'.prompts = Recent(read.prompts, turn)
    BY <2>1, <2>2, PlanKept DEF AddPrompt, Memory
  <2>4. CASE read = store
    BY <1>4, <2>3, <2>4 DEF LoadState
  <2>5. CASE read = EmptyMemory
    <3>1. Recent(<<>>, turn) = <<turn>>
      BY PipelineAssumption DEF PipelineAssumption, Recent
    <3> QED BY <1>4, <2>3, <2>5, <3>1 DEF LoadState, EmptyMemory
  <2> QED BY <2>1, <2>4, <2>5
<1>5. CASE at = "orchestrate" /\ OrchestrateDev
  BY <1>5 DEF OrchestrateDev, Continue, Loading, Early
<1>6. CASE Replied
  <2>1. /\ at = "orchestrate" /\ at' = "remember"
        /\ UNCHANGED <<turn, store>>
    BY <1>6 DEF Replied, ShortCircuit
  <2>2. memory.plan = store.plan \/ (memory.plan = NoPlan /\ memory.prompts = <<turn>>)
    BY <2>1 DEF Loading, Early
  <2>3. CASE mode' = "plan" /\ memory' = AddPlan(memory, turn)
    BY <2>1, <2>3, <1>a, PlanKept
  <2>4. CASE memory'.plan = memory.plan /\ memory'.prompts = memory.prompts
    BY <2>1, <2>2, <2>4
  <2> QED BY <1>6, <1>a, <2>1, <2>3, <2>4, PlanKept, PromptsKept DEF Replied, ShortCircuit
<1>7. CASE Remember
  <2>1. store'.plan \in {memory.plan, store.plan}
    BY <1>7 DEF Remember, Save
  <2>2. memory.plan.status # "approved"
    BY <1>7 DEF Remember, Loading, Early, NoPlan
  <2> QED BY <1>7, <2>1, <2>2 DEF Remember, Loading
<1>8. CASE Enhanced
  <2>1. /\ at = "enhance" /\ at' \in {"clarify", "ending"}
        /\ memory' = Approve(memory) /\ brief' = Render(memory')
        /\ UNCHANGED <<turn, prompt, store>>
    BY <1>8 DEF Enhanced, Continue
  <2>2. memory.plan = store.plan \/ (memory.plan = NoPlan /\ memory.prompts = <<turn>>)
    BY <2>1 DEF Loading, Early
  <2>3. CASE memory.plan.status = "proposed" /\ prompt.approves
    <3>1. memory.plan = store.plan
      BY <2>2, <2>3 DEF NoPlan
    <3>2. memory'.plan = [memory.plan EXCEPT !.status = "approved"]
      BY <2>1, <2>3, <1>a DEF Approve, Memory
    <3>3. memory'.plan.status = "approved"
      BY <3>2, <1>a DEF Memory, Plans
    <3>4. brief' = "steps"
      BY <2>1, <3>3 DEF Render
    <3> QED BY <2>1, <2>3, <3>1, <3>2, <3>4 DEF Early
  <2>4. CASE ~(memory.plan.status = "proposed" /\ prompt.approves)
    BY <2>1, <2>2, <2>4 DEF Approve
  <2> QED BY <2>3, <2>4
<1>9. CASE Answered \/ Asked
  <2>1. at \in {"clarify", "asking"} /\ at' \in {"asking", "inject_kb", "ending"}
    BY <1>9 DEF Answered, AnswerRecorded, Asked, Continue
  <2>2. memory'.plan = memory.plan /\ memory'.prompts = memory.prompts
    BY <1>9, <1>a, <2>1, PlanKept, PromptsKept DEF Answered, AnswerRecorded, Asked
  <2>3. UNCHANGED <<turn, prompt, store, brief>>
    BY <1>9 DEF Answered, AnswerRecorded, Asked
  <2> QED BY <2>1, <2>2, <2>3 DEF Loading, Early
<1>10. CASE Extracted \/ Rescue \/ Reflected \/ Vetted \/ Retried
  <2>1. /\ at \in {"post_crew", "rescue", "reflect", "dry_run", "retry"}
        /\ at' \in {"rescue", "reflect", "dry_run", "retry", "record", "ending"}
    BY <1>10 DEF Extracted, Rescue, Reflected, Vetted, Retried
  <2>2. UNCHANGED <<turn, prompt, memory, store, brief>>
    BY <1>10 DEF Extracted, Rescue, Reflected, Vetted, Retried
  <2> QED BY <2>1, <2>2 DEF Loading, Early
<1>11. CASE Record
  <2>1. store'.plan \in {memory'.plan, store.plan} /\ at' = "preview"
    BY <1>11 DEF Record, Save
  <2>2. MarkBuilt(AddChangeset(memory, turn)).plan.status # "approved"
    <3>1. AddChangeset(memory, turn) \in Memory
      BY <1>11, <1>a, MemoryType DEF Record
    <3>2. [AddChangeset(memory, turn) EXCEPT !.plan.status = "built"].plan.status = "built"
      BY <3>1 DEF Memory, Plans
    <3> QED BY <3>2 DEF MarkBuilt
  <2> QED BY <1>11, <2>1, <2>2 DEF Record, Loading
<1>12. CASE Previewed \/ Finish
  BY <1>12 DEF Previewed, Finish, Loading
<1>13. CASE Cancel \/ Disconnect
  BY <1>13 DEF Cancel, Disconnect
<1>14. CASE Abort
  BY <1>14 DEF Abort, Loading
<1>15. CASE UNCHANGED vars
  BY <1>15 DEF vars
<1> QED
  BY <1>1, <1>2, <1>3, <1>4, <1>5, <1>6, <1>7, <1>8, <1>9, <1>10, <1>11, <1>12,
     <1>13, <1>14, <1>15, StepKinds DEF Kinds

\* Only Remember and Record write the store.
LEMMA PlanMovesStep == Typed /\ Linked /\ [Next]_vars => [PlanMoves]_store
<1> SUFFICES ASSUME Typed, Linked, [Next]_vars, store' # store PROVE PlanMoves
  OBVIOUS
<1>a. (at # "idle" => turn \in Turns) /\ memory \in Memory
  BY DEF Typed, MemoryTypes, Live
<1>1. CASE Remember
  <2>1. store' = memory /\ at = "remember"
    BY <1>1 DEF Remember, Save
  <2>2. \/ memory.plan = store.plan
        \/ memory.plan = NoPlan /\ memory.prompts = <<turn>>
        \/ mode = "plan" /\ memory.plan = [status |-> "proposed", of |-> turn]
    BY <2>1 DEF Linked, Loading, Early
  <2> QED BY <2>1, <2>2 DEF PlanMoves
<1>2. CASE Record
  <2> DEFINE m == AddChangeset(memory, turn)
  <2>1. at = "record" /\ turn \in Turns /\ store' = MarkBuilt(m)
    BY <1>2, <1>a DEF Record, Save
  <2>2. m \in Memory /\ m.plan = memory.plan /\ m.items = Recent(memory.items, turn)
    BY <2>1, <1>a, MemoryType, PlanKept
  <2>3. \/ memory.plan = store.plan
        \/ memory.plan = NoPlan /\ memory.prompts = <<turn>>
        \/ ApprovedNow
    BY <2>1 DEF Linked, Loading
  <2>4. CASE memory.plan.status # "approved"
    <3>1. store'.plan = memory.plan
      BY <2>1, <2>2, <2>4 DEF MarkBuilt
    <3> QED
      <4>1. memory.plan = store.plan \/ (memory.plan = NoPlan /\ memory.prompts = <<turn>>)
        BY <2>3, <2>4 DEF ApprovedNow, Typed, MemoryTypes, Memory, Plans
      <4> QED BY <3>1, <4>1 DEF PlanMoves
  <2>5. CASE memory.plan.status = "approved"
    <3>1. ApprovedNow
      BY <2>3, <2>5 DEF Linked, NoPlan
    <3>2. store' = [m EXCEPT !.plan.status = "built"]
      BY <2>1, <2>2, <2>5 DEF MarkBuilt
    <3>3. store'.plan = [m.plan EXCEPT !.status = "built"] /\ store'.items = m.items
      BY <2>2, <3>2 DEF Memory
    <3>4. store'.plan = [store.plan EXCEPT !.status = "built"]
      BY <2>2, <3>1, <3>3 DEF ApprovedNow, Typed, MemoryTypes, Memory, Plans
    <3>5. turn \in Entries(store'.items)
      BY <1>a, <2>1, <2>2, <3>3, RecentEntries DEF Memory
    <3> QED BY <3>1, <3>4, <3>5 DEF PlanMoves, ApprovedNow, Entries
  <2> QED BY <2>4, <2>5
<1>3. ~Remember /\ ~Record => UNCHANGED store
  <2> SUFFICES ASSUME ~Remember, ~Record PROVE UNCHANGED store
    OBVIOUS
  <2>1. CASE StartTurn \/ (\E h \in Hops : Hop(h)) \/ Raises \/ Refuses \/ LoadState
    BY <2>1 DEF StartTurn, Hop, Pass, Raises, Raise, Refuses, Refuse, LoadState
  <2>2. CASE OrchestrateDev \/ Replied \/ Enhanced \/ Answered \/ Asked
    BY <2>2 DEF OrchestrateDev, Replied, ShortCircuit, Enhanced, Answered,
                AnswerRecorded, Asked
  <2>3. CASE Extracted \/ Rescue \/ Reflected \/ Vetted \/ Retried \/ Previewed
    BY <2>3 DEF Extracted, Rescue, Reflected, Vetted, Retried, Previewed
  <2>4. CASE Finish \/ Cancel \/ Disconnect \/ Abort \/ UNCHANGED vars
    BY <2>4 DEF Finish, Cancel, Disconnect, Abort, vars
  <2> QED BY <2>1, <2>2, <2>3, <2>4, StepKinds DEF Kinds
<1> QED BY <1>1, <1>2, <1>3

-----------------------------------------------------------------------------
(***************************************************************************)
(* The theorems.                                                           *)
(***************************************************************************)
IInv == /\ Typed /\ Reasons /\ Told /\ Outcome /\ Sound /\ PreviewIsVetted
        /\ Traceless /\ FailureLeavesNoTrace /\ Linked

\* Nothing is told, stored or planned at the start.
LEMMA InitIInv == Init => IInv
<1> SUFFICES ASSUME Init PROVE IInv
  OBVIOUS
<1>1. Typed /\ Reasons
  BY InitTyped DEF Init, Reasons
<1>2. shown = <<>> /\ turn = 0 /\ at = "idle"
  BY DEF Init
<1>3. Told /\ Outcome
  BY <1>2 DEF Told, Resting, Outcome, OneOutcome, EndIsTold
<1>4. Sound /\ PreviewIsVetted /\ FailureLeavesNoTrace
  BY <1>2 DEF Sound, PreviewIsVetted, FailureLeavesNoTrace
<1>5. Traceless
  BY DEF Init, Traceless, Entries, EmptyMemory
<1>6. Linked
  BY DEF Init, Linked, Loading, EmptyMemory, NoPlan
<1> QED BY <1>1, <1>3, <1>4, <1>5, <1>6 DEF IInv

\* Every step keeps the invariant.
LEMMA Inductive == Spec => []IInv
<1>1. IInv /\ [Next]_vars => IInv'
  BY TypeStep, ReasonsStep, ToldStep, OutcomeStep, SoundStep, PreviewStep,
     TracelessStep, FailureStep, LinkedStep DEF IInv
<1> QED BY InitIInv, <1>1, PTL DEF Spec

\* For any number of turns and any window, with no fairness assumed: the user gets
\* one outcome of a turn, and after a reply at most the word of a cancel.
THEOREM PipelineOutcome == Spec => []TurnIsToldOnce
<1>1. IInv => TurnIsToldOnce
  BY DEF IInv, Outcome, TurnIsToldOnce
<1> QED BY Inductive, <1>1, PTL

\* A preview shows items that were vetted exactly as they are shown.
THEOREM PipelinePreviewIsVetted == Spec => []PreviewIsVetted
<1>1. IInv => PreviewIsVetted
  BY DEF IInv
<1> QED BY Inductive, <1>1, PTL

\* A turn the user was told had failed is not in the stored memory.
THEOREM PipelineFailureLeavesNoTrace == Spec => []FailureLeavesNoTrace
<1>1. IInv => FailureLeavesNoTrace
  BY DEF IInv
<1> QED BY Inductive, <1>1, PTL

\* A stored plan moves only along its life: proposed, then built by a turn that
\* approved it, or lost to a turn that could not read the memory.
THEOREM PipelinePlanLifecycle == Spec => PlanLifecycle
<1>1. IInv /\ [Next]_vars => [PlanMoves]_store
  BY PlanMovesStep DEF IInv
<1> QED BY Inductive, <1>1, PTL DEF Spec, PlanLifecycle
=============================================================================
