------------------------ MODULE SessionDispatchProofs ------------------------
(***************************************************************************)
(* Safety of SessionDispatch for any number of runs and questions.         *)
(*                                                                         *)
(* The invariant says where the two references to a run and the three      *)
(* books on a question stand at each place of the task: the context is the *)
(* current run's from its first step to its finally, and of all questions  *)
(* only the last one can be open.                                          *)
(***************************************************************************)
EXTENDS SessionDispatch, TLAPS

\* active_pipeline_ctx is the current run's once the task has begun.
CtxIsCurrent ==
    /\ ctx = IF task \in {"none", "spawned"} THEN 0 ELSE runs
    /\ task # "none" => runs # 0

\* A prompt that waits for the rate limiter has a run left to spawn.
RunLeft == loop = "limiting" => runs < MaxRuns

\* Nothing is written on a question before it is asked.
Unasked == \A q \in Questions : q > asked =>
    outcome[q] = "none" /\ acks[q] = 0 /\ q \notin expired

\* The question that the task waits for has no outcome.
Open == task = "asking" =>
    asked # 0 /\ outcome[asked] = "none" /\ acks[asked] = 0 /\ asked \notin expired

\* A late answer is still to come for the questions in the side table.
Late == \A q \in expired : acks[q] = 0 /\ outcome[q] = "timeout"

\* Runs that have not been spawned have neither ended nor been stopped.
StopsSpawned ==
    /\ \A r \in stopped : r <= runs
    /\ \A r \in Runs : r > runs => ended[r] = "no"

\* The types but for the client's last message and the pending dict.
RunTypes ==
    /\ connected \in BOOLEAN /\ shutting \in BOOLEAN
    /\ loop \in {"receive", "limiting", "leaving", "left"}
    /\ task \in {"none", "spawned", "boundary", "phase", "asking"}
    /\ runs \in 0..MaxRuns /\ ctx \in 0..MaxRuns /\ stopped \subseteq Runs
    /\ ended \in [Runs -> {"no", "done", "cancelled", "error", "killed"}]

QuestionTypes ==
    /\ asked \in 0..MaxQuestions
    /\ pending \in Seq(Questions)
    /\ future \in [Questions -> {"unasked", "pending", "answered", "cancelled", "abandoned"}]
    /\ outcome \in [Questions -> {"none", "answer", "timeout", "failed"}]
    /\ expired \subseteq Questions
    /\ acks \in [Questions -> Nat]

ReplyType ==
    reply \in [kind : {"none", "prompt", "cancel", "user_response"},
               q : 0..MaxQuestions,
               result : {"none", "delivered", "late_info", "silent", "spawned",
                         "stopping", "no_run", "SHUTTING_DOWN", "RATE_LIMIT",
                         "PIPELINE_BUSY"}]

\* The part about runs and the part about questions.
RunInv == RunTypes /\ CtxIsCurrent /\ RunLeft /\ StopsSpawned /\ OneRunAtATime

QuestionInv ==
    QuestionTypes /\ PendingOnlyWhileAsked /\ Unasked /\ Open /\ Late /\ LateAckOnce

IInv == RunInv /\ QuestionInv /\ ReplyType

-----------------------------------------------------------------------------
\* The types, in the parts that steps disturb.
LEMMA TypesSplit == RunTypes /\ QuestionTypes /\ ReplyType <=> TypeOK
BY DEF RunTypes, QuestionTypes, ReplyType, TypeOK

\* No run and no question at the start.
LEMMA InvInit == Init => IInv
<1> SUFFICES ASSUME Init PROVE IInv
  OBVIOUS
<1> USE DispatchAssumption DEF DispatchAssumption, Init
<1>1. RunInv
  <2>1. ended \in [Runs -> {"no", "done", "cancelled", "error", "killed"}]
    OBVIOUS
  <2>2. runs \in 0..MaxRuns /\ ctx \in 0..MaxRuns /\ stopped \subseteq Runs
    OBVIOUS
  <2>. HIDE DEF Init
  <2>5. connected \in BOOLEAN /\ shutting \in BOOLEAN /\ loop = "receive" /\ task = "none"
    BY DEF Init
  <2>6. RunTypes
    BY <2>1, <2>2, <2>5 DEF RunTypes
  <2>. USE DEF Init
  <2>3. CtxIsCurrent /\ RunLeft /\ StopsSpawned
    BY DEF CtxIsCurrent, RunLeft, StopsSpawned
  <2>4. OneRunAtATime
    BY DEF OneRunAtATime, Runs
  <2> QED
    BY <2>6, <2>3, <2>4 DEF RunInv
<1>2. QuestionInv
  BY DEF QuestionInv, QuestionTypes, PendingOnlyWhileAsked, Unasked, Open, Late, LateAckOnce,
         Questions
<1>3. ReplyType
  BY DEF ReplyType, NoReply
<1> QED
  BY <1>1, <1>2, <1>3 DEF IInv

-----------------------------------------------------------------------------
(* The books on questions *)

\* The finally of ask_human empties the dict, which holds one question at most.
LEMMA Unregistered ==
    ASSUME pending = <<asked>>
    PROVE  Unregister(asked) = <<>>
<1> DEFINE Found == { i \in DOMAIN pending : pending[i] = asked }
<1>1. DOMAIN pending = {1} /\ pending[1] = asked /\ Len(pending) = 1
  OBVIOUS
<1>2. Found = {1}
  BY <1>1
<1>3. (CHOOSE x \in Found : TRUE) = 1
  BY <1>2
<1>4. SubSeq(pending, 1, 0) = <<>> /\ SubSeq(pending, 2, 1) = <<>>
  OBVIOUS
<1>5. SubSeq(pending, 1, 0) \o SubSeq(pending, 2, 1) = <<>>
  BY <1>4
<1> HIDE DEF Found
<1>6. Unregister(asked) = IF Found = {} THEN pending
        ELSE SubSeq(pending, 1, (CHOOSE x \in Found : TRUE) - 1)
               \o SubSeq(pending, (CHOOSE x \in Found : TRUE) + 1, Len(pending))
  BY Zenon DEF Unregister, Found
<1> QED
  BY <1>1, <1>2, <1>3, <1>5, <1>6

\* An answer, however it came in, settles the open question or takes one out of
\* the side table.
LEMMA ResolveKeeps ==
    ASSUME QuestionInv, NEW kind, NEW q \in Questions, Resolve(kind, q),
           UNCHANGED <<task, asked, pending, outcome>>
    PROVE  QuestionInv'
<1> USE DEF QuestionInv, Questions
<1>1. CASE UNCHANGED <<expired, acks>>
  <2>1. future' \in [Questions -> {"unasked", "pending", "answered", "cancelled", "abandoned"}]
    BY DEF Resolve, QuestionTypes
  <2>2. QuestionTypes'
    BY <1>1, <2>1 DEF QuestionTypes
  <2>3. PendingOnlyWhileAsked' /\ Unasked' /\ Open' /\ Late' /\ LateAckOnce'
    BY <1>1 DEF PendingOnlyWhileAsked, Unasked, Open, Late, LateAckOnce
  <2> QED
    BY <2>2, <2>3
<1>2. CASE /\ q \in expired
           /\ expired' = expired \ {q}
           /\ acks' = [acks EXCEPT ![q] = @ + 1]
           /\ UNCHANGED future
  <2>1. acks' \in [Questions -> Nat] /\ expired' \subseteq Questions
    BY <1>2 DEF QuestionTypes
  <2>2. QuestionTypes'
    BY <1>2, <2>1 DEF QuestionTypes
  <2>3. /\ acks'[q] = 1 /\ outcome[q] = "timeout"
        /\ \A p \in Questions \ {q} : acks'[p] = acks[p]
    BY <1>2 DEF QuestionTypes, Late
  <2>4. PendingOnlyWhileAsked'
    BY DEF PendingOnlyWhileAsked
  <2>5. Unasked'
    BY <1>2, <2>3 DEF Unasked
  <2>6. Open'
    BY <1>2, <2>3 DEF Open, QuestionTypes
  <2>7. Late'
    BY <1>2, <2>3 DEF Late, QuestionTypes
  <2>8. LateAckOnce'
    BY <1>2, <2>3 DEF LateAckOnce
  <2> QED
    BY <2>2, <2>4, <2>5, <2>6, <2>7, <2>8
<1> QED
  BY <1>1, <1>2 DEF Resolve

\* A step of the task that neither asks nor settles a question.
LEMMA QuestionsUntouched ==
    ASSUME QuestionInv, UNCHANGED <<questions, acks>>,
           (task' = "asking") <=> (task = "asking")
    PROVE  QuestionInv'
BY DEF QuestionInv, questions, QuestionTypes, PendingOnlyWhileAsked, Unasked, Open, Late,
       LateAckOnce

\* A question is asked: its future is registered before it goes out.
LEMMA AskHumanKeeps == QuestionInv /\ AskHuman => QuestionInv'
<1> SUFFICES ASSUME QuestionInv, AskHuman PROVE QuestionInv'
  OBVIOUS
<1> USE DispatchAssumption DEF DispatchAssumption, QuestionInv, AskHuman, Questions, QuestionTypes
<1>1. QuestionTypes'
  OBVIOUS
<1>2. PendingOnlyWhileAsked'
  BY DEF PendingOnlyWhileAsked
<1>3. Unasked' /\ Open' /\ Late' /\ LateAckOnce'
  BY DEF Unasked, Open, Late, LateAckOnce
<1> QED
  BY <1>1, <1>2, <1>3

\* A question that cannot be sent leaves the table.
LEMMA AskFailsKeeps == QuestionInv /\ AskFails => QuestionInv'
<1> SUFFICES ASSUME QuestionInv, AskFails PROVE QuestionInv'
  OBVIOUS
<1> USE DispatchAssumption
        DEF DispatchAssumption, QuestionInv, AskFails, pipeline, Questions, QuestionTypes
<1>1. QuestionTypes'
  OBVIOUS
<1>2. PendingOnlyWhileAsked'
  BY DEF PendingOnlyWhileAsked
<1>3. Unasked' /\ Open' /\ Late' /\ LateAckOnce'
  BY DEF Unasked, Open, Late, LateAckOnce
<1> QED
  BY <1>1, <1>2, <1>3

\* An answer finds its future, or is too late.
LEMMA AnswerArrivesKeeps == QuestionInv /\ AnswerArrives => QuestionInv'
<1> SUFFICES ASSUME QuestionInv, AnswerArrives PROVE QuestionInv'
  OBVIOUS
<1> USE DEF QuestionInv, AnswerArrives, Questions, QuestionTypes
<1>1. pending' = <<>>
  BY Unregistered DEF PendingOnlyWhileAsked
<1>2. QuestionTypes' /\ PendingOnlyWhileAsked'
  BY <1>1 DEF PendingOnlyWhileAsked
<1>3. Unasked' /\ Open' /\ Late' /\ LateAckOnce'
  BY DEF Unasked, Open, Late, LateAckOnce
<1> QED
  BY <1>2, <1>3

\* A question that waited too long is recorded as expired.
LEMMA AskTimesOutKeeps == QuestionInv /\ AskTimesOut => QuestionInv'
<1> SUFFICES ASSUME QuestionInv, AskTimesOut PROVE QuestionInv'
  OBVIOUS
<1> USE DEF QuestionInv, AskTimesOut, Questions, QuestionTypes
<1>1. pending' = <<>>
  BY Unregistered DEF PendingOnlyWhileAsked
<1>2. asked \in Questions
  BY DispatchAssumption DEF DispatchAssumption, Open
<1>3. QuestionTypes' /\ PendingOnlyWhileAsked'
  BY <1>1, <1>2 DEF PendingOnlyWhileAsked
<1>4. Unasked' /\ Open' /\ Late' /\ LateAckOnce'
  BY <1>2 DEF Unasked, Open, Late, LateAckOnce
<1> QED
  BY <1>3, <1>4

\* The timer fires; the task that waits learns of it later.
LEMMA TimerKeeps == QuestionInv /\ TimerFires => QuestionInv'
BY DEF QuestionInv, TimerFires, pipeline, QuestionTypes, PendingOnlyWhileAsked, Unasked, Open,
       Late, LateAckOnce

\* The question of a killed run goes with it.
LEMMA KillKeeps == QuestionInv /\ KillPipeline => QuestionInv'
<1> SUFFICES ASSUME QuestionInv, KillPipeline PROVE QuestionInv'
  OBVIOUS
<1> USE DEF QuestionInv, KillPipeline, Questions, QuestionTypes
<1>1. pending' = <<>>
  BY Unregistered DEF PendingOnlyWhileAsked
<1>2. PendingOnlyWhileAsked'
  BY <1>1 DEF PendingOnlyWhileAsked
<1>3. outcome' \in [Questions -> {"none", "answer", "timeout", "failed"}]
  OBVIOUS
<1>4. QuestionTypes'
  <2>1. UNCHANGED <<asked, future, expired, acks>>
    OBVIOUS
  <2> HIDE DEF KillPipeline
  <2> QED
    BY <1>1, <1>3, <2>1
<1>5. Unasked' /\ Open' /\ Late' /\ LateAckOnce'
  BY DEF Unasked, Open, Late, LateAckOnce
<1> QED
  BY <1>2, <1>4, <1>5

-----------------------------------------------------------------------------
(* Every step *)

\* What the prompt handler passes on is a question.
LEMMA OldestIsQuestion ==
    ASSUME QuestionInv, pending # <<>>
    PROVE  Head(pending) \in Questions
BY DEF QuestionInv, PendingOnlyWhileAsked, QuestionTypes

\* Every step keeps the books on questions.
LEMMA QuestionStep == QuestionInv /\ [Next]_vars => QuestionInv'
<1> SUFFICES ASSUME QuestionInv, [Next]_vars PROVE QuestionInv'
  OBVIOUS
<1>1. CASE Prompt
  <2>1. CASE PromptAsAnswer
    BY <2>1, OldestIsQuestion, ResolveKeeps DEF PromptAsAnswer, pipeline
  <2>2. CASE PromptRefusedByShutdown \/ PromptLimited
    BY <2>2, QuestionsUntouched DEF PromptRefusedByShutdown, PromptLimited, pipeline
  <2> QED
    BY <1>1, <2>1, <2>2 DEF Prompt
<1>2. CASE Admit
  <2>1. CASE RateLimited \/ RefuseBusy
    BY <2>1, QuestionsUntouched DEF RateLimited, RefuseBusy, pipeline
  <2>2. CASE Spawn
    BY <2>2, QuestionsUntouched DEF Spawn
  <2> QED
    BY <1>2, <2>1, <2>2 DEF Admit
<1>3. CASE CancelRun
  BY <1>3, QuestionsUntouched DEF CancelRun
<1>4. CASE \E q \in Questions : UserResponse(q)
  BY <1>4, ResolveKeeps DEF UserResponse, pipeline
<1>5. CASE Run
  BY <1>5, QuestionsUntouched DEF Run, TaskStarts, BeginPhase, RunEnds, EndPhase, PhaseRaises, Finish
<1>6. CASE AskHuman
  BY <1>6, AskHumanKeeps
<1>7. CASE AskFails
  BY <1>7, AskFailsKeeps
<1>8. CASE Asking
  BY <1>8, AnswerArrivesKeeps, AskTimesOutKeeps DEF Asking
<1>9. CASE TimerFires
  BY <1>9, TimerKeeps
<1>10. CASE ClientLeaves \/ LoopEnds \/ BeginShutdown
  BY <1>10, QuestionsUntouched DEF ClientLeaves, LoopEnds, BeginShutdown, pipeline
<1>11. CASE KillPipeline
  BY <1>11, KillKeeps
<1>12. CASE UNCHANGED vars
  BY <1>12, QuestionsUntouched DEF vars, questions
<1> QED
  BY <1>1, <1>2, <1>3, <1>4, <1>5, <1>6, <1>7, <1>8, <1>9, <1>10, <1>11, <1>12 DEF Next

\* Every step keeps the references to runs.
LEMMA RunStep == RunInv /\ [Next]_vars => RunInv'
<1> SUFFICES ASSUME RunInv, [Next]_vars PROVE RunInv'
  OBVIOUS
<1> USE DispatchAssumption
        DEF DispatchAssumption, RunInv, RunTypes, CtxIsCurrent, RunLeft, StopsSpawned,
            OneRunAtATime, Runs
<1>1. CASE Prompt
  BY <1>1 DEF Prompt, PromptAsAnswer, PromptRefusedByShutdown, PromptLimited, pipeline
<1>2. CASE Admit
  <2>1. CASE RateLimited \/ RefuseBusy
    BY <2>1 DEF RateLimited, RefuseBusy, pipeline
  <2>2. CASE Spawn
    <3>1. runs' \in 0..MaxRuns /\ runs' = runs + 1 /\ ctx' = 0
      BY <2>2 DEF Spawn
    <3>2. RunTypes' /\ CtxIsCurrent' /\ RunLeft' /\ StopsSpawned'
      BY <2>2, <3>1 DEF Spawn
    <3>3. OneRunAtATime'
      BY <2>2, <3>1 DEF Spawn
    <3> QED
      BY <3>2, <3>3
  <2> QED
    BY <1>2, <2>1, <2>2 DEF Admit
<1>3. CASE CancelRun
  <2>1. CASE UNCHANGED stopped
    BY <1>3, <2>1 DEF CancelRun
  <2>2. CASE ctx # 0 /\ task # "none" /\ stopped' = stopped \cup {ctx}
    <3>1. ctx \in Runs /\ ctx <= runs
      BY <2>2
    <3>2. stopped' \subseteq Runs /\ \A r \in stopped' : r <= runs
      BY <2>2, <3>1
    <3> QED
      BY <1>3, <3>2 DEF CancelRun
  <2> QED
    BY <1>3, <2>1, <2>2 DEF CancelRun
<1>4. CASE \E q \in Questions : UserResponse(q)
  BY <1>4 DEF UserResponse, pipeline
<1>5. CASE Run
  <2>1. CASE TaskStarts \/ BeginPhase \/ EndPhase
    BY <2>1 DEF TaskStarts, BeginPhase, EndPhase, client
  <2>2. CASE RunEnds \/ PhaseRaises
    <3>1. PICK how \in {"done", "cancelled", "error"} :
             ended' = [ended EXCEPT ![runs] = how]
      BY <2>2 DEF RunEnds, PhaseRaises, Finish
    <3>2. task' = "none" /\ ctx' = 0 /\ UNCHANGED <<client, runs, stopped>> /\ runs \in Runs
      BY <2>2 DEF RunEnds, PhaseRaises, Finish
    <3>3. ended' \in [Runs -> {"no", "done", "cancelled", "error", "killed"}]
      BY <3>1
    <3>4. /\ ended'[runs] # "no"
          /\ \A r \in Runs \ {runs} : ended'[r] = ended[r]
      BY <3>1, <3>2
    <3>5. RunTypes' /\ CtxIsCurrent' /\ RunLeft' /\ StopsSpawned'
      BY <3>2, <3>3, <3>4 DEF client
    <3>6. OneRunAtATime'
      BY <2>2, <3>2, <3>4 DEF RunEnds, PhaseRaises
    <3> QED
      BY <3>5, <3>6
  <2> QED
    BY <1>5, <2>1, <2>2 DEF Run
<1>6. CASE AskHuman
  BY <1>6 DEF AskHuman, client
<1>7. CASE AskFails
  BY <1>7 DEF AskFails, client, pipeline
<1>8. CASE Asking
  BY <1>8 DEF Asking, AnswerArrives, AskTimesOut, client
<1>9. CASE TimerFires
  BY <1>9 DEF TimerFires, client, pipeline
<1>10. CASE ClientLeaves \/ LoopEnds \/ BeginShutdown
  BY <1>10 DEF ClientLeaves, LoopEnds, BeginShutdown, pipeline
<1>11. CASE KillPipeline
  BY <1>11 DEF KillPipeline
<1>12. CASE UNCHANGED vars
  BY <1>12 DEF vars
<1> QED
  BY <1>1, <1>2, <1>3, <1>4, <1>5, <1>6, <1>7, <1>8, <1>9, <1>10, <1>11, <1>12 DEF Next

\* Every step keeps the type of a reply.
LEMMA ReplyStep == QuestionInv /\ ReplyType /\ [Next]_vars => ReplyType'
<1> SUFFICES ASSUME QuestionInv, ReplyType, [Next]_vars PROVE ReplyType'
  OBVIOUS
<1> USE DispatchAssumption DEF DispatchAssumption, ReplyType, Questions
<1>1. CASE Prompt
  <2>1. CASE PromptAsAnswer
    BY <2>1, OldestIsQuestion DEF PromptAsAnswer, Resolve, Reply
  <2>2. CASE PromptRefusedByShutdown \/ PromptLimited
    BY <2>2 DEF PromptRefusedByShutdown, PromptLimited, Reply
  <2> QED
    BY <1>1, <2>1, <2>2 DEF Prompt
<1>2. CASE Admit \/ CancelRun
  BY <1>2 DEF Admit, RateLimited, RefuseBusy, Spawn, CancelRun, Reply
<1>3. CASE \E q \in Questions : UserResponse(q)
  BY <1>3 DEF UserResponse, Resolve, Reply
<1>4. CASE Run \/ AskHuman \/ AskFails \/ Asking \/ TimerFires
  BY <1>4 DEF Run, TaskStarts, BeginPhase, RunEnds, EndPhase, PhaseRaises, Finish, AskHuman,
              AskFails, Asking, AnswerArrives, AskTimesOut, TimerFires, client
<1>5. CASE ClientLeaves \/ LoopEnds \/ BeginShutdown \/ KillPipeline
  BY <1>5 DEF ClientLeaves, LoopEnds, BeginShutdown, KillPipeline
<1>6. CASE UNCHANGED vars
  BY <1>6 DEF vars
<1> QED
  BY <1>1, <1>2, <1>3, <1>4, <1>5, <1>6 DEF Next

-----------------------------------------------------------------------------
\* The inductive invariant of the connection: references to runs and books on
\* questions at every place of the task (connection.py 157-231, 502-638).
THEOREM DispatchInvariant == Spec => []IInv
<1>1. Init => IInv
  BY InvInit
<1>2. IInv /\ [Next]_vars => IInv'
  BY QuestionStep, RunStep, ReplyStep DEF IInv
<1> QED
  BY <1>1, <1>2, PTL DEF Spec

\* The variables keep their types, for any number of runs and questions.
THEOREM DispatchTypes == Spec => []TypeOK
<1>1. IInv => TypeOK
  BY TypesSplit DEF IInv, RunInv, QuestionInv
<1> QED
  BY <1>1, DispatchInvariant, PTL

\* The pending dict holds the question the task waits for and nothing else, and a
\* late answer is acknowledged once, about a question that timed out (lines 157-231).
THEOREM QuestionBooks == Spec => []QuestionBooksAgree
<1>1. IInv => QuestionBooksAgree
  BY DEF IInv, QuestionInv, QuestionBooksAgree
<1> QED
  BY <1>1, DispatchInvariant, PTL

\* No spawn replaces a run in progress, across the await of the rate limiter
\* (lines 581, 607-637).
THEOREM SingleRun == Spec => []OneRunAtATime
<1>1. IInv => OneRunAtATime
  BY DEF IInv, RunInv
<1> QED
  BY <1>1, DispatchInvariant, PTL

\* A cancel stops the run that executes and none that was or is to come
\* (lines 502-518, 675-685).
THEOREM CancelsAim == Spec => CancelHitsRunningRun
<1> DEFINE Aimed == \A r \in stopped' \ stopped : r = runs /\ ended[r] = "no"
<1>1. RunInv /\ [Next]_vars => Aimed
  <2> SUFFICES ASSUME RunInv, [Next]_vars, NEW r \in stopped' \ stopped
               PROVE  r = runs /\ ended[r] = "no"
    OBVIOUS
  <2>1. CancelRun
    BY DEF vars, Next, Prompt, PromptAsAnswer, PromptRefusedByShutdown, PromptLimited, Admit,
           RateLimited, RefuseBusy, Spawn, UserResponse, Run, TaskStarts, BeginPhase, RunEnds,
           EndPhase, PhaseRaises, Finish, AskHuman, AskFails, Asking, AnswerArrives, AskTimesOut,
           TimerFires, ClientLeaves, LoopEnds, KillPipeline, BeginShutdown, pipeline
  <2>2. r = ctx /\ ctx # 0 /\ task # "none"
    BY <2>1 DEF CancelRun
  <2> QED
    BY <2>2, DispatchAssumption
       DEF DispatchAssumption, RunInv, RunTypes, CtxIsCurrent, OneRunAtATime, Runs
<1>2. RunInv /\ [Next]_vars => [Aimed]_vars
  BY <1>1
<1>3. IInv => RunInv
  BY DEF IInv
<1>4. Spec => [][Aimed]_vars
  BY <1>2, <1>3, DispatchInvariant, PTL DEF Spec
<1> QED
  BY <1>4 DEF CancelHitsRunningRun
=============================================================================
