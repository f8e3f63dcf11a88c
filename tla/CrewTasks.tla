------------------------------ MODULE CrewTasks ------------------------------
(***************************************************************************)
(* The crews of one conversation, one run after the other: which tasks a   *)
(* crew is built with, the pool of threads its kickoff runs in, what       *)
(* run_crew makes of the tasks' outputs, and the checkpoint it leaves      *)
(* (alfred/agents/crew.py, condenser.py, plan_crew.py, _phases_build.py).  *)
(*                                                                         *)
(* run_crew is a coroutine and may be cancelled at any await; the kickoff  *)
(* it waits for is a thread and may not.                                   *)
(*                                                                         *)
(* Init, Next, Spec and the like are called CrewInit, CrewNext, CrewSpec:  *)
(* one module proves about these crews and about the connections of the    *)
(* same conversation (ConversationRegistry).                               *)
(***************************************************************************)
EXTENDS Naturals, FiniteSets, SequencesExt

CONSTANTS MaxRuns,    \* bound: crews of the conversation
          PoolSize,   \* threads of the event loop's default executor
          MaxFaults   \* bound: Redis calls that fail

ASSUME CrewAssumption ==
    MaxRuns \in Nat /\ MaxFaults \in Nat /\ PoolSize \in Nat \ {0}

VARIABLES kind,        \* what each run is, "none" before it is built
          co,          \* where its run_crew is
          thread,      \* where its kickoff is
          queue,       \* kickoffs that wait for a thread
          out,         \* the outputs of its tasks, in their order
          completed,   \* state.completed_tasks: task names and whose output is there
          result,      \* what it returns
          checkpoint,  \* the run whose state is in Redis, 0 for none
          dead,        \* runs whose socket is known to be dead
          late,        \* runs cancelled inside save_crew_state
          excused,     \* history: runs that a fault or a late save left a checkpoint to
          faults

pool    == <<thread, queue, out>>
outcome == <<completed, result>>
redis   == <<checkpoint, late, excused, faults>>
crewVars == <<kind, co, pool, outcome, redis, dead>>

Runs  == 1..MaxRuns
Dev   == {"full", "lite"}
Kinds == Dev \cup {"plan", "insights", "fix"}
Ended == {"completed", "failed", "raised", "dropped"}

-----------------------------------------------------------------------------
(* The crews *)

TaskNames == <<"gather_requirements", "assess_feasibility", "design_solution",
               "generate_changeset", "validate_changeset", "deploy_changeset">>

\* Nothing to resume from: previous_state is None.
FullCrew     == TaskNames
LiteCrew     == <<"generate_changeset">>
PlanCrew     == <<"gather_requirements", "assess_feasibility", "generate_plan_doc">>
InsightsCrew == <<"generate_insights_reply">>
FixCrew      == <<"fix_changeset">>

\* _alfred_task_names
Active(k) == CASE k = "full"     -> FullCrew
               [] k = "lite"     -> LiteCrew
               [] k = "plan"     -> PlanCrew
               [] k = "insights" -> InsightsCrew
               [] k = "fix"      -> FixCrew

\* The changeset is condensed like the rest.
CondensedWithChangeset(k) ==
    CASE k = "full" -> Range(FullCrew) \ {"validate_changeset", "deploy_changeset"}
      [] k = "plan" -> {"gather_requirements", "assess_feasibility"}
      [] OTHER      -> {}

\* Tasks whose raw output make_condenser_callback rewrites for the next one.
Condensed(k) ==
    CASE k = "full" -> Range(FullCrew) \ {"generate_changeset", "validate_changeset",
                                          "deploy_changeset"}
      [] k = "plan" -> {"gather_requirements", "assess_feasibility"}
      [] OTHER      -> {}

\* What task.output.raw may be: the agent's own words, none, or made compact.  That
\* an answer is blank is told apart only where run_crew may pick it.
Raws(k, name) ==
    IF name \in Condensed(k) THEN {"compact"}
    ELSE IF name = "validate_changeset" THEN {"own"} ELSE {"own", "blank"}

NoResult == [by |-> "nobody", raw |-> "blank"]

\* changeset_output or str(result)
FinalResult(k, raws) ==
    LET names    == Active(k)
        n        == Len(names)
        written  == { i \in 1..n : names[i] = "generate_changeset" /\ raws[i] # "blank" }
        i        == IF written # {} THEN CHOOSE x \in written : TRUE ELSE n
    IN  [by |-> names[i], raw |-> raws[i]]

\* The loop over crew.tasks names them by their place among all six.
CompletedTasks(k) ==
    { [under |-> TaskNames[i], by |-> Active(k)[i]] : i \in DOMAIN Active(k) }

-----------------------------------------------------------------------------

CrewInit ==
    /\ kind = [r \in Runs |-> "none"]
    /\ co = [r \in Runs |-> "new"]
    /\ thread = [r \in Runs |-> "none"]
    /\ queue = <<>>
    /\ out = [r \in Runs |-> <<>>]
    /\ completed = [r \in Runs |-> {}]
    /\ result = [r \in Runs |-> NoResult]
    /\ checkpoint = 0
    /\ dead = {} /\ late = {} /\ excused = {}
    /\ faults = 0

Go(r, to) == co' = [co EXCEPT ![r] = to]
Fault == faults < MaxFaults /\ faults' = faults + 1

\* Of a crew that was given up only the number of its outputs matters.
Unread(raws) == [i \in DOMAIN raws |-> "blank"]

\* What nobody looks at any more once the next run begins.
Forget ==
    /\ thread' = [r \in Runs |-> IF thread[r] = "running" THEN "running" ELSE "none"]
    /\ out' = [r \in Runs |-> IF thread[r] = "running" THEN out[r] ELSE <<>>]
    /\ completed' = [r \in Runs |-> {}]
    /\ result' = [r \in Runs |-> NoResult]
    /\ dead' = {}

\* Only the full crew starts from a clean slate.
BuildKeepingCheckpoint(r, k) ==
    /\ co[r] = "new"
    /\ r > 1 => co[r - 1] \in Ended
    /\ k = "fix" => r > 1 /\ kind[r - 1] \in Dev /\ co[r - 1] = "completed"
    /\ kind' = [kind EXCEPT ![r] = k]
    /\ Go(r, "built")
    /\ IF k = "full" THEN checkpoint' = 0 ELSE UNCHANGED checkpoint
    /\ Forget
    /\ UNCHANGED <<queue, late, excused, faults>>

\* A run begins when the one before has ended, a fix as part of a completed one.
\* The phase of a dev run clears the stored state, if Redis lets it.
Build(r, k) ==
    /\ co[r] = "new"
    /\ r > 1 => co[r - 1] \in Ended
    /\ k = "fix" => r > 1 /\ kind[r - 1] \in Dev /\ co[r - 1] = "completed"
    /\ kind' = [kind EXCEPT ![r] = k]
    /\ Go(r, "built")
    /\ CASE k \in Dev -> \/ checkpoint' = 0 /\ UNCHANGED <<excused, faults>>
                         \/ Fault /\ excused' = excused \cup {checkpoint} /\ UNCHANGED checkpoint
         [] OTHER     -> UNCHANGED <<checkpoint, excused, faults>>
    /\ Forget
    /\ UNCHANGED <<queue, late>>

-----------------------------------------------------------------------------
(* The pool of threads *)

Working == { r \in Runs : thread[r] = "running" }

WorkerTakes ==
    /\ queue # <<>>
    /\ Cardinality(Working) < PoolSize
    /\ thread' = [thread EXCEPT ![Head(queue)] = "running"]
    /\ queue' = Tail(queue)
    /\ UNCHANGED <<kind, co, out, outcome, redis, dead>>

\* The next task of the crew, and the callback that condenses its output.
TaskReturns(r) ==
    /\ thread[r] = "running"
    /\ \E raw \in IF co[r] \in Ended THEN {"blank"}
                   ELSE Raws(kind[r], Active(kind[r])[Len(out[r]) + 1]) :
           out' = [out EXCEPT ![r] = Append(@, raw)]
    /\ thread' = [thread EXCEPT ![r] = IF Len(out'[r]) = Len(Active(kind[r]))
                                       THEN "returned" ELSE "running"]
    /\ UNCHANGED <<kind, co, queue, outcome, redis, dead>>

KickoffRaises(r) ==
    /\ thread[r] = "running"
    /\ thread' = [thread EXCEPT ![r] = "raised"]
    /\ UNCHANGED <<kind, co, queue, out, outcome, redis, dead>>

-----------------------------------------------------------------------------
(* run_crew *)

\* Where a run_crew goes on from an exception inside its try.
Failing(r) == CASE kind[r] \in Dev -> "saving_failure"
                [] kind[r] = "fix" -> "failed"
                [] OTHER           -> "telling_failure"

\* crew_started and task_started have gone out; the kickoff waits for a thread.
Kickoff(r) ==
    /\ co[r] = "built"
    /\ r \notin dead
    /\ Go(r, "awaiting")
    /\ thread' = [thread EXCEPT ![r] = "queued"]
    /\ queue' = Append(queue, r)
    /\ UNCHANGED <<kind, out, outcome, redis, dead>>

\* crew_started raises outside the try, task_started inside.
StartUntold(r) ==
    /\ co[r] = "built"
    /\ r \in dead
    /\ Go(r, "raised") \/ Go(r, Failing(r))
    /\ UNCHANGED <<kind, pool, outcome, redis, dead>>

Collect(r) ==
    /\ co[r] = "awaiting"
    /\ thread[r] = "returned"
    /\ result' = [result EXCEPT ![r] = FinalResult(kind[r], out[r])]
    /\ completed' = [completed EXCEPT ![r] =
                       IF kind[r] = "fix" THEN {} ELSE CompletedTasks(kind[r])]
    /\ Go(r, CASE kind[r] \in Dev -> "saving"
               [] kind[r] = "fix" -> "completed"
               [] OTHER           -> "telling")
    /\ UNCHANGED <<kind, pool, redis, dead>>

KickoffRaised(r) ==
    /\ co[r] = "awaiting"
    /\ thread[r] = "raised"
    /\ Go(r, Failing(r))
    /\ UNCHANGED <<kind, pool, outcome, redis, dead>>

\* save_crew_state, whose failure is logged.
Save(r) ==
    /\ co[r] \in {"saving", "saving_failure"}
    /\ \/ checkpoint' = r /\ UNCHANGED faults
       \/ Fault /\ UNCHANGED checkpoint
    /\ Go(r, IF co[r] = "saving" THEN "telling" ELSE "telling_failure")
    /\ UNCHANGED <<kind, pool, outcome, late, excused, dead>>

\* crew_completed; when it cannot be sent the crew has failed.
Tell(r) ==
    /\ co[r] = "telling"
    /\ IF r \notin dead
       THEN Go(r, "completed") /\ UNCHANGED outcome
       ELSE /\ Go(r, Failing(r))
            /\ result' = [result EXCEPT ![r] = NoResult]
            /\ UNCHANGED completed
    /\ UNCHANGED <<kind, pool, redis, dead>>

\* crew_failed
TellFailure(r) ==
    /\ co[r] = "telling_failure"
    /\ Go(r, IF r \in dead THEN "raised" ELSE "failed")
    /\ UNCHANGED <<kind, pool, outcome, redis, dead>>

\* A cancelled kickoff leaves the pool's queue only when it is looked at.
DropLeavingQueue(r) ==
    /\ Go(r, "dropped")
    /\ thread' = [thread EXCEPT ![r] = IF @ = "queued" THEN "never" ELSE @]
    /\ out' = [out EXCEPT ![r] = Unread(@)]
    /\ result' = [result EXCEPT ![r] = NoResult]
    /\ UNCHANGED <<kind, queue, completed, checkpoint, late, excused, faults, dead>>

\* CancelledError passes the except clause: nothing is saved or told.  A kickoff
\* that has no thread yet will not get one, a running one goes on; a save under
\* way may still reach Redis.
Drop(r) ==
    /\ Go(r, "dropped")
    /\ thread' = [thread EXCEPT ![r] = IF @ = "queued" THEN "never" ELSE @]
    /\ IF thread[r] = "queued"
       THEN \E i \in DOMAIN queue : queue[i] = r /\ queue' = RemoveAt(queue, i)
       ELSE UNCHANGED queue
    /\ out' = [out EXCEPT ![r] = Unread(@)]
    /\ result' = [result EXCEPT ![r] = NoResult]
    /\ IF co[r] \in {"saving", "saving_failure"}
       THEN late' = late \cup {r} /\ excused' = excused \cup {r}
       ELSE UNCHANGED <<late, excused>>
    /\ UNCHANGED <<kind, completed, checkpoint, faults, dead>>

\* The user, a disconnect, a takeover or the shutdown.
Cancel(r) == co[r] \notin Ended \cup {"new"} /\ Drop(r)

\* Nobody looks at the clock.
NoDeadline(r) == FALSE /\ Drop(r)

\* task_timeout_seconds * 2, for the crews of the dev phases only.
TimesOut(r) ==
    /\ kind[r] \in Dev
    /\ co[r] \notin Ended \cup {"new", "built"}
    /\ Drop(r)

LateSave(r) ==
    /\ r \in late
    /\ late' = late \ {r}
    /\ checkpoint' = r \/ UNCHANGED checkpoint
    /\ UNCHANGED <<kind, co, pool, outcome, excused, faults, dead>>

\* Whenever the socket dies, it is noticed at the next thing said.
SocketDies(r) ==
    /\ co[r] \in {"built", "telling", "telling_failure"}
    /\ kind[r] # "fix"
    /\ r \notin dead
    /\ dead' = dead \cup {r}
    /\ UNCHANGED <<kind, co, pool, outcome, redis>>

-----------------------------------------------------------------------------

RunCrew(r) == \/ Kickoff(r) \/ StartUntold(r) \/ Collect(r) \/ KickoffRaised(r)
              \/ Save(r) \/ Tell(r) \/ TellFailure(r) \/ TimesOut(r)

CrewNext ==
    \/ WorkerTakes
    \/ \E r \in Runs :
         \/ \E k \in Kinds : Build(r, k)
         \/ TaskReturns(r) \/ KickoffRaises(r)
         \/ RunCrew(r) \/ Cancel(r) \/ LateSave(r) \/ SocketDies(r)

CrewSpec == CrewInit /\ [][CrewNext]_crewVars

\* The loop runs what is ready and its timers fire.  Nothing makes a thread get
\* on: its LLM may not answer.
CrewFairSpec == CrewSpec /\ WF_crewVars(\E r \in Runs : RunCrew(r))

-----------------------------------------------------------------------------
(* Properties *)

\* Types of the variables; the pool's queue is of the kickoffs that wait, its
\* threads are bounded, and a kickoff that nobody waits for is not in the queue.
CrewTypeOK ==
    /\ kind \in [Runs -> Kinds \cup {"none"}]
    /\ co \in [Runs -> Ended \cup {"new", "built", "awaiting", "saving", "telling",
                                   "saving_failure", "telling_failure"}]
    /\ thread \in [Runs -> {"none", "queued", "running", "returned", "raised", "never"}]
    /\ Range(queue) = { r \in Runs : thread[r] = "queued" } /\ IsInjective(queue)
    /\ \A r \in Range(queue) : co[r] = "awaiting"
    /\ Cardinality(Working) <= PoolSize
    /\ \A r \in Runs : out[r] \in Seq({"own", "blank", "compact"})
    /\ \A r \in Runs : Len(out[r]) <= Len(TaskNames)
    /\ checkpoint \in 0..MaxRuns
    /\ dead \subseteq Runs /\ late \subseteq excused /\ excused \subseteq 0..MaxRuns
    /\ faults \in 0..MaxFaults

\* Whatever a crew hands over is an agent's own words and not what the condenser
\* left of them, and the developer's if it said anything (crew.py, "use it as the
\* changeset instead of the deployer's plan summary").
ResultIsVerbatim ==
    \A r \in Runs : co[r] = "completed" =>
        /\ result[r].raw # "compact"
        /\ \A i \in DOMAIN out[r] :
             (Active(kind[r])[i] = "generate_changeset" /\ out[r][i] # "blank")
                => result[r] = [by |-> "generate_changeset", raw |-> out[r][i]]

\* While a dev run is under way the stored state is its own or none, so that it
\* starts fresh (_phases_build.py 41-44), however the runs before were cut off; but
\* for a deletion that failed and a save that was cancelled under way.
CheckpointIsFresh ==
    \A r \in Runs : (kind[r] \in Dev /\ co[r] # "new" /\ \A s \in Runs : s > r => co[s] = "new")
        => checkpoint \in {0, r} \cup excused

\* A dev run ends though its kickoff hangs or all threads are taken by kickoffs of
\* runs given up (asyncio.wait_for of _phase_run_crew).
DevUnderWay == \E r \in Runs : kind[r] \in Dev /\ co[r] \notin Ended
DevCrewEnds == DevUnderWay ~> ~DevUnderWay

=============================================================================
