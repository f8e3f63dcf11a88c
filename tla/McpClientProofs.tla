--------------------------- MODULE McpClientProofs ---------------------------
(***************************************************************************)
(* McpClient implements ToolCalls, for any number of runs, calls and       *)
(* responses, and its threads keep the budget and the cache.               *)
(***************************************************************************)
EXTENDS McpClient, FiniteSetTheorems, TLAPS

CallRecord ==
    [co : {"idle", "scheduled", "notifying", "sending", "waiting", "done"},
     fut : {"open", "result", "error", "cancelled"},
     answer : {"none", "result", "error"},
     out : {"none", "result", "error", "failed"},
     got : {"none", "result", "error", "failed"},
     cancel : BOOLEAN, sent : BOOLEAN, inline : BOOLEAN,
     by : 0..MaxRuns, under : 0..MaxRuns, key : Keys \cup {"none"}]

\* TypeOK without the counters and the cache, whose bounds rest on the books
\* the threads keep (Book, below).
Typed ==
    /\ task \in [Runs -> {"unborn", "early", "crew", "late", "over"}]
    /\ crew \in [Runs -> {"none", "think", "blocked", "record", "write", "over"}]
    /\ cur \in [Runs -> 0..MaxCalls]
    /\ state \in 0..MaxRuns
    /\ call \in [Calls -> CallRecord]
    /\ pending \subseteq Calls
    /\ soon \in Seq(Calls \X {"result", "error"})

\* An unused id has left no trace.
IdleUntouched == \A i \in Calls : call[i].co = "idle" => call[i] = Unmade

\* Before call_tool, and until it sends, no response is possible; only a
\* thread's call is scheduled.
Early == \A i \in Calls :
            /\ call[i].co \in {"scheduled", "notifying"} => ~call[i].sent
            /\ call[i].co = "scheduled" => ~call[i].inline

\* Whoever waits for a call has not been given its outcome: a blocked thread
\* for its own, a task for one inside call_tool.
WaitersUntold ==
    /\ \A r \in Runs : crew[r] = "blocked" =>
          /\ cur[r] \in Calls
          /\ call[cur[r]].co # "idle"
          /\ call[cur[r]].got = "none"
          /\ ~call[cur[r]].inline
          /\ call[cur[r]].by = r
    /\ \A i \in Calls : call[i].inline /\ InCallTool(i) => call[i].got = "none"

\* Future, coroutine and caller never hold anything but the first response.
OneAnswer(c) ==
    /\ c.fut \in {"result", "error"} => c.fut = c.answer
    /\ c.out \in {"result", "error"} => c.out = c.answer
    /\ c.got \in {"result", "error"} => c.got = c.answer
    /\ c.co = "done" /\ c.got = "none" => c.out # "none"

OneAnswerEach == \A i \in Calls : OneAnswer(call[i])

\* While a future is open, its first scheduled callback carries the first
\* response, and there is one if there was a response.
QueueInOrder ==
    /\ \A n \in 1..Len(soon) : call[soon[n][1]].answer # "none"
    /\ \A n \in 1..Len(soon) :
          /\ call[soon[n][1]].fut = "open"
          /\ \A m \in 1..(n - 1) : soon[m][1] # soon[n][1]
          => soon[n][2] = call[soon[n][1]].answer
    /\ \A i \in Calls : call[i].fut = "open" /\ call[i].answer # "none"
                        => \E n \in 1..Len(soon) : soon[n][1] = i

IInv == /\ Typed
        /\ PendingOnlyWhileCalled
        /\ IdleUntouched
        /\ Early
        /\ WaitersUntold
        /\ OneAnswerEach
        /\ QueueInOrder

-----------------------------------------------------------------------------
\* No call, no future, nothing scheduled at the start.
LEMMA Initially == Init => IInv
<1> SUFFICES ASSUME Init PROVE IInv
  OBVIOUS
<1> USE McpAssumption DEF McpAssumption
<1>1. \A i \in Calls : call[i] = Unmade
  BY DEF Init
<1>2. Unmade \in CallRecord
  BY DEF Unmade, CallRecord
<1>3. call \in [Calls -> CallRecord]
  BY <1>2 DEF Init
<1>4. Typed
  BY <1>3 DEF Init, Typed
<1>5. PendingOnlyWhileCalled
  BY <1>1 DEF Init, PendingOnlyWhileCalled, InCallTool, Unmade
<1>6. IdleUntouched /\ Early
  BY <1>1 DEF IdleUntouched, Early, Unmade
<1>7. WaitersUntold
  BY <1>1 DEF Init, WaitersUntold, InCallTool, Unmade
<1>8. OneAnswerEach
  BY <1>1 DEF OneAnswerEach, OneAnswer, Unmade
<1>9. QueueInOrder
  BY <1>1 DEF Init, QueueInOrder, Unmade
<1> QED
  BY <1>4, <1>5, <1>6, <1>7, <1>8, <1>9 DEF IInv

\* A run or thread that starts or stops between calls leaves the calls alone.
LEMMA NoCallTouched ==
    ASSUME IInv, UNCHANGED <<call, pending, loop>>,
           task' \in [Runs -> {"unborn", "early", "crew", "late", "over"}],
           crew' \in [Runs -> {"none", "think", "blocked", "record", "write", "over"}],
           cur' \in [Runs -> 0..MaxCalls],
           state' \in 0..MaxRuns,
           \A r \in Runs : crew'[r] = "blocked" => crew[r] = "blocked" /\ cur'[r] = cur[r]
    PROVE  IInv'
<1>1. Typed'
  BY DEF IInv, Typed, loop
<1>2. (PendingOnlyWhileCalled /\ IdleUntouched /\ Early /\ OneAnswerEach)'
  BY DEF IInv, PendingOnlyWhileCalled, InCallTool, IdleUntouched, Early, OneAnswerEach, OneAnswer
<1>3. WaitersUntold'
  BY DEF IInv, WaitersUntold, InCallTool
<1>4. QueueInOrder'
  BY DEF IInv, QueueInOrder, loop
<1> QED
  BY <1>1, <1>2, <1>3, <1>4 DEF IInv

-----------------------------------------------------------------------------
(* Steps of a call *)

\* What a step may do to one call c without disturbing the queue's promise:
\* close its future, or leave future and answer alone.
Quiet(c, d) == /\ d.answer = c.answer
               /\ d.fut = "cancelled" \/ d.fut = c.fut

\* A call that moves without its answer leaves the scheduled callbacks in order.
LEMMA QueueKept ==
    ASSUME QueueInOrder, Typed, NEW i \in Calls, NEW d \in CallRecord,
           Quiet(call[i], d), call' = [call EXCEPT ![i] = d], UNCHANGED soon
    PROVE  QueueInOrder'
<1>1. \A j \in Calls : Quiet(call[j], call'[j])
  BY DEF Typed, Quiet
<1>2. \A n \in 1..Len(soon) : soon[n][1] \in Calls
  BY DEF Typed
<1>3. (\A n \in 1..Len(soon) : call[soon[n][1]].answer # "none")'
  BY <1>1, <1>2 DEF QueueInOrder, Quiet
<1>4. \A j \in Calls : call'[j].fut = "open" =>
          call[j].fut = "open" /\ call'[j].answer = call[j].answer
  BY <1>1 DEF Quiet
<1>5. (\A n \in 1..Len(soon) :
          /\ call[soon[n][1]].fut = "open"
          /\ \A m \in 1..(n - 1) : soon[m][1] # soon[n][1]
          => soon[n][2] = call[soon[n][1]].answer)'
  BY <1>4, <1>2 DEF QueueInOrder
<1>6. (\A j \in Calls : call[j].fut = "open" /\ call[j].answer # "none"
                        => \E n \in 1..Len(soon) : soon[n][1] = j)'
  BY <1>4 DEF QueueInOrder
<1> QED
  BY <1>3, <1>5, <1>6 DEF QueueInOrder

\* What IInv asks of one call in progress.
Within(d) == d.co \in {"notifying", "sending", "waiting"}
Sound(d) == /\ OneAnswer(d)
            /\ d.co # "idle"
            /\ d.co \in {"scheduled", "notifying"} => ~d.sent
            /\ d.co = "scheduled" => ~d.inline
            /\ d.inline /\ Within(d) => d.got = "none"

\* A step that moves one call keeps the invariant if the call stays sound, is
\* listed while it is inside call_tool, and a thread waits for it only untold.
LEMMA CallStep ==
    ASSUME IInv, NEW i \in Calls, NEW d \in CallRecord,
           call' = [call EXCEPT ![i] = d], Sound(d),
           Quiet(call[i], d), UNCHANGED <<soon, state>>,
           pending' \subseteq Calls,
           \A j \in Calls \ {i} : j \in pending' <=> j \in pending,
           i \in pending' => Within(d) \/ ~d.sent,
           Within(d) => i \in pending',
           task' \in [Runs -> {"unborn", "early", "crew", "late", "over"}],
           crew' \in [Runs -> {"none", "think", "blocked", "record", "write", "over"}],
           cur' \in [Runs -> 0..MaxCalls],
           \A r \in Runs : crew'[r] = "blocked" =>
              \/ cur'[r] = i /\ d.got = "none" /\ ~d.inline /\ d.by = r
              \/ crew[r] = "blocked" /\ cur'[r] = cur[r] /\ cur[r] # i
    PROVE  IInv'
<1>0. Typed /\ call'[i] = d /\ \A j \in Calls \ {i} : call'[j] = call[j]
  BY DEF IInv, Typed
<1>1. Typed'
  BY <1>0 DEF Typed
<1>2. PendingOnlyWhileCalled'
  BY <1>0 DEF IInv, PendingOnlyWhileCalled, InCallTool, Within
<1>3. (IdleUntouched /\ Early)'
  BY <1>0 DEF IInv, IdleUntouched, Early, Sound
<1>4. OneAnswerEach'
  BY <1>0 DEF IInv, OneAnswerEach, OneAnswer, Sound
<1>5. WaitersUntold'
  BY <1>0 DEF IInv, WaitersUntold, InCallTool, Sound, Within
<1>6. QueueInOrder'
  BY QueueKept DEF IInv
<1> QED
  BY <1>1, <1>2, <1>3, <1>4, <1>5, <1>6 DEF IInv

-----------------------------------------------------------------------------
(* Every action keeps the invariant *)

\* What CallStep needs to know of the state before a step on call i.
LEMMA Before ==
    ASSUME IInv, NEW i \in Calls
    PROVE  /\ call[i] \in CallRecord
           /\ OneAnswer(call[i])
           /\ InCallTool(i) <=> Within(call[i])
           /\ i \in pending => Within(call[i]) \/ ~call[i].sent
           /\ Within(call[i]) => i \in pending
           /\ call[i].co \in {"scheduled", "notifying"} => ~call[i].sent
           /\ call[i].co = "scheduled" => ~call[i].inline
           /\ call[i].inline /\ Within(call[i]) => call[i].got = "none"
           /\ call[i].co = "idle" => call[i] = Unmade
BY DEF IInv, Typed, OneAnswerEach, PendingOnlyWhileCalled, InCallTool, Within,
       Early, WaitersUntold, IdleUntouched

\* A thread that waits for a call waits for one that was made and is its own.
LEMMA Waiting ==
    ASSUME IInv, NEW r \in Runs, crew[r] = "blocked"
    PROVE  /\ cur[r] \in Calls
           /\ call[cur[r]].co # "idle"
           /\ call[cur[r]].got = "none"
           /\ ~call[cur[r]].inline
           /\ call[cur[r]].by = r
BY DEF IInv, WaitersUntold

\* A call that was not made has the type of a call.
LEMMA UnmadeTyped ==
    /\ Unmade \in CallRecord
    /\ \A r \in Runs : r \in 0..MaxRuns
BY McpAssumption DEF McpAssumption, Runs, Unmade, CallRecord

\* The pipeline task makes a call of its own.
LEMMA TaskCallKeeps ==
    ASSUME IInv, NEW r \in Runs, NEW i \in Calls, TaskCall(r, i)
    PROVE  IInv'
<1> DEFINE d == [Unmade EXCEPT !.co = "notifying", !.by = r, !.inline = TRUE]
<1>1. call' = [call EXCEPT ![i] = d] /\ pending' = pending \cup {i}
      /\ UNCHANGED <<task, crew, cur, soon, state>> /\ call[i] = Unmade
  BY Before DEF TaskCall, threads, tracking, loop, Fresh
<1>2. d \in CallRecord
  BY UnmadeTyped DEF CallRecord
<1>4. Sound(d) /\ Quiet(call[i], d) /\ Within(d)
  BY <1>1 DEF Unmade, Sound, OneAnswer, Within, Quiet
<1>3. \A q \in Runs : crew[q] = "blocked" => cur[q] # i
  BY <1>1, Waiting DEF Unmade
<1> HIDE DEF d
<1> QED
  BY <1>1, <1>2, <1>3, <1>4, CallStep DEF IInv, Typed

\* A crew's thread makes a call and blocks on it.
LEMMA BeginCallKeeps ==
    ASSUME IInv, NEW r \in Runs, NEW k \in Keys, NEW i \in Calls, BeginCall(r, k, i)
    PROVE  IInv'
<1> DEFINE d == [Unmade EXCEPT !.co = "scheduled", !.by = r,
                               !.under = state, !.key = k]
<1>1. /\ call' = [call EXCEPT ![i] = d] /\ UNCHANGED <<task, pending, soon, state>>
      /\ call[i] = Unmade
      /\ crew' = [crew EXCEPT ![r] = "blocked"] /\ cur' = [cur EXCEPT ![r] = i]
  BY Before DEF BeginCall, tracking, loop, Fresh
<1>0. d \in CallRecord
  BY UnmadeTyped DEF CallRecord, IInv, Typed
<1>2. Sound(d) /\ Quiet(call[i], d) /\ ~Within(d)
  BY <1>1 DEF Unmade, Sound, OneAnswer, Within, Quiet
<1>3. ~d.sent /\ d.got = "none" /\ ~d.inline /\ d.by = r
  BY DEF Unmade
<1>4. \A q \in Runs : crew[q] = "blocked" => cur[q] # i
  BY <1>1, Waiting DEF Unmade
<1> HIDE DEF d
<1>5. /\ task' \in [Runs -> {"unborn", "early", "crew", "late", "over"}]
      /\ crew' \in [Runs -> {"none", "think", "blocked", "record", "write", "over"}]
      /\ cur' \in [Runs -> 0..MaxCalls]
      /\ pending' \subseteq Calls
  BY <1>1 DEF IInv, Typed, Calls
<1>6. \A q \in Runs : crew'[q] = "blocked" =>
          \/ cur'[q] = i /\ d.got = "none" /\ ~d.inline /\ d.by = q
          \/ crew[q] = "blocked" /\ cur'[q] = cur[q] /\ cur[q] # i
  BY <1>1, <1>3, <1>4 DEF IInv, Typed
<1> QED
  BY <1>0, <1>1, <1>2, <1>3, <1>5, <1>6, CallStep

\* A blocked thread takes what its coroutine left.
LEMMA SyncReturnsKeeps ==
    ASSUME IInv, NEW r \in Runs, SyncReturns(r)
    PROVE  IInv'
<1> DEFINE i == cur[r]
           d == [call[i] EXCEPT !.got = call[i].out]
<1>1. i \in Calls /\ call[i].by = r /\ ~call[i].inline /\ call[i].co = "done"
      /\ call[i].got = "none"
  BY Waiting DEF SyncReturns
<1>2. /\ call' = [call EXCEPT ![i] = d] /\ UNCHANGED <<task, pending, cur, soon, state>>
      /\ crew' = [crew EXCEPT ![r] = "record"]
  BY DEF SyncReturns, tracking, loop
<1>3. d \in CallRecord /\ d.co = "done" /\ d.sent = call[i].sent
  BY <1>1, Before DEF CallRecord
<1>4. Sound(d) /\ Quiet(call[i], d)
  BY <1>1, Before DEF Sound, OneAnswer, Within, Quiet, CallRecord
<1>5. (i \in pending' => Within(d) \/ ~d.sent) /\ (Within(d) => i \in pending')
  BY <1>1, <1>2, <1>3, Before DEF Within
<1>6. \A q \in Runs \ {r} : crew[q] = "blocked" => cur[q] # i
  BY <1>1, Waiting
<1> HIDE DEF d, i
<1>7. /\ crew' \in [Runs -> {"none", "think", "blocked", "record", "write", "over"}]
      /\ pending' \subseteq Calls /\ cur' \in [Runs -> 0..MaxCalls]
      /\ task' \in [Runs -> {"unborn", "early", "crew", "late", "over"}]
  BY <1>2 DEF IInv, Typed
<1>8. \A q \in Runs : crew'[q] = "blocked" =>
          crew[q] = "blocked" /\ cur'[q] = cur[q] /\ cur[q] # i
  BY <1>2, <1>6 DEF IInv, Typed
<1>9. \A j \in Calls \ {i} : j \in pending' <=> j \in pending
  BY <1>2
<1> QED
  BY <1>1, <1>2, <1>3, <1>4, <1>5, <1>7, <1>8, <1>9, CallStep

\* A blocked thread gives up; its coroutine is cancelled or goes on.
LEMMA SyncTimeoutKeeps ==
    ASSUME IInv, NEW r \in Runs, SyncTimeout(r)
    PROVE  IInv'
<1> DEFINE i == cur[r]
           d == [call[i] EXCEPT !.got = "failed", !.cancel = TRUE]
<1>1. i \in Calls /\ call[i].by = r /\ ~call[i].inline /\ call[i].co # "idle"
  BY Waiting DEF SyncTimeout
<1>2. /\ call' = [call EXCEPT ![i] = d] /\ UNCHANGED <<task, pending, cur, soon, state>>
      /\ crew' = [crew EXCEPT ![r] = "record"]
  BY DEF SyncTimeout, tracking, loop
<1>3. d \in CallRecord /\ d.co = call[i].co /\ d.sent = call[i].sent
  BY <1>1, Before, ZenonT(30) DEF CallRecord
<1>4. Sound(d) /\ Quiet(call[i], d)
  BY <1>1, Before DEF Sound, OneAnswer, Within, Quiet, CallRecord, SyncTimeout
<1>5. (i \in pending' => Within(d) \/ ~d.sent) /\ (Within(d) => i \in pending')
  BY <1>1, <1>2, <1>3, Before DEF Within
<1>6. \A q \in Runs \ {r} : crew[q] = "blocked" => cur[q] # i
  BY <1>1, Waiting
<1> HIDE DEF d, i
<1>7. /\ crew' \in [Runs -> {"none", "think", "blocked", "record", "write", "over"}]
      /\ pending' \subseteq Calls /\ cur' \in [Runs -> 0..MaxCalls]
      /\ task' \in [Runs -> {"unborn", "early", "crew", "late", "over"}]
  BY <1>2 DEF IInv, Typed
<1>8. \A q \in Runs : crew'[q] = "blocked" =>
          crew[q] = "blocked" /\ cur'[q] = cur[q] /\ cur[q] # i
  BY <1>2, <1>6 DEF IInv, Typed
<1>9. \A j \in Calls \ {i} : j \in pending' <=> j \in pending
  BY <1>2
<1> QED
  BY <1>1, <1>2, <1>3, <1>4, <1>5, <1>7, <1>8, <1>9, CallStep

\* call_tool goes on to its next await, or its timer closes the future.
LEMMA AdvanceKeeps ==
    ASSUME IInv, NEW i \in Calls, NEW d \in CallRecord,
           call' = [call EXCEPT ![i] = d],
           Within(d), d.co = "notifying" => ~d.sent,
           call[i].co = "scheduled" \/ Within(call[i]),
           Quiet(call[i], d), d.out = call[i].out, d.got = call[i].got,
           d.inline = call[i].inline, d.by = call[i].by,
           pending' = pending \cup {i},
           UNCHANGED <<task, crew, cur, state, soon>>
    PROVE  IInv'
<1>1. Sound(d)
  BY Before DEF Sound, OneAnswer, Within, Quiet
<1>2. \A r \in Runs : crew[r] = "blocked" =>
          \/ cur[r] = i /\ d.got = "none" /\ ~d.inline /\ d.by = r
          \/ cur[r] # i
  BY Waiting
<1>3. Typed /\ pending' \subseteq Calls
  BY DEF IInv, Typed
<1>4. /\ crew' \in [Runs -> {"none", "think", "blocked", "record", "write", "over"}]
      /\ cur' \in [Runs -> 0..MaxCalls]
      /\ task' \in [Runs -> {"unborn", "early", "crew", "late", "over"}]
  BY <1>3 DEF Typed
<1>5. /\ \A j \in Calls \ {i} : j \in pending' <=> j \in pending
      /\ \A r \in Runs : crew'[r] = "blocked" =>
            \/ cur'[r] = i /\ d.got = "none" /\ ~d.inline /\ d.by = r
            \/ crew[r] = "blocked" /\ cur'[r] = cur[r] /\ cur[r] # i
  BY <1>2
<1> QED
  BY <1>1, <1>3, <1>4, <1>5, CallStep

\* call_tool ends; only a cancellation in the notice leaves the entry.
LEMMA EndKeeps ==
    ASSUME IInv, NEW i \in Calls, NEW o \in {"result", "error", "failed"},
           call' = [call EXCEPT ![i] = Ended(i, o)],
           Within(call[i]), o = "failed" \/ o = call[i].answer,
           \/ pending' = pending \ {i}
           \/ pending' = pending /\ call[i].co = "notifying",
           UNCHANGED <<crew, cur, state, soon>>,
           task' \in [Runs -> {"unborn", "early", "crew", "late", "over"}]
    PROVE  IInv'
<1> DEFINE c == call[i]
           d == Ended(i, o)
           x == IF c.got = "none" THEN o ELSE "none"
           y == IF c.inline THEN o ELSE c.got
<1>1. /\ c \in CallRecord /\ OneAnswer(c) /\ (c.inline => c.got = "none")
      /\ (c.co = "notifying" => ~c.sent) /\ (o = "failed" \/ o = c.answer)
  BY Before
<1>e. d = [c EXCEPT !.co = "done", !.fut = "cancelled", !.cancel = FALSE,
                    !.out = x, !.got = y]
  BY DEF Ended
<1>f. x \in {"none", "result", "error", "failed"} /\ y \in {"none", "result", "error", "failed"}
  BY <1>1 DEF CallRecord
<1> HIDE DEF d, c, x, y
<1>2. d \in CallRecord
  BY <1>1, <1>e, <1>f DEF CallRecord
<1>3. /\ d.co = "done" /\ d.fut = "cancelled" /\ d.answer = c.answer
      /\ d.out = (IF c.got = "none" THEN o ELSE "none")
      /\ d.got = (IF c.inline THEN o ELSE c.got)
      /\ d.inline = c.inline /\ d.by = c.by /\ d.sent = c.sent
  BY <1>1, <1>e DEF CallRecord, x, y
<1>4. Sound(d) /\ Quiet(c, d) /\ ~Within(d)
  BY <1>1, <1>3 DEF Sound, OneAnswer, Quiet, Within
<1>5. \A r \in Runs : crew[r] = "blocked" =>
          \/ cur[r] = i /\ d.got = "none" /\ ~d.inline /\ d.by = r
          \/ cur[r] # i
  BY <1>3, Waiting DEF c
<1>6. (i \in pending' => ~d.sent) /\ pending' \subseteq Calls
      /\ \A j \in Calls \ {i} : j \in pending' <=> j \in pending
  BY <1>1, <1>3 DEF IInv, Typed, c
<1>7. /\ crew' \in [Runs -> {"none", "think", "blocked", "record", "write", "over"}]
      /\ cur' \in [Runs -> 0..MaxCalls]
  BY DEF IInv, Typed
<1>8. call' = [call EXCEPT ![i] = d]
  BY DEF d
<1> QED
  BY <1>2, <1>4, <1>5, <1>6, <1>7, <1>8, CallStep, ZenonT(30) DEF c

\* A coroutine that is cancelled takes its entry off the pending table.
LEMMA CancelledKeeps ==
    ASSUME IInv, NEW i \in Calls, Within(call[i]), Cancelled(i),
           UNCHANGED <<crew, cur, state, soon>>,
           task' \in [Runs -> {"unborn", "early", "crew", "late", "over"}]
    PROVE  IInv'
<1>1. call[i].fut \in {"result", "error"} => call[i].fut = call[i].answer
  BY Before DEF OneAnswer
<1>2. CASE call[i].co = "notifying"
  BY <1>2, EndKeeps DEF Cancelled
<1>3. CASE call[i].co = "sending"
  BY <1>3, EndKeeps DEF Cancelled, End
<1>4. CASE call[i].co = "waiting"
  <2>1. CASE call[i].fut \in {"result", "error"}
    BY <1>1, <1>4, <2>1, EndKeeps DEF Cancelled, End
  <2>2. CASE call[i].fut \notin {"result", "error"}
    BY <1>4, <2>2, EndKeeps DEF Cancelled, End
  <2> QED
    BY <2>1, <2>2
<1> QED
  BY <1>2, <1>3, <1>4 DEF Within

\* A coroutine sends, times out or comes back with what its future holds.
LEMMA CoroutineKeeps ==
    ASSUME IInv, NEW i \in Calls, Coroutine(i)
    PROVE  IInv'
<1>0. /\ UNCHANGED <<task, crew, cur, state, soon>>
      /\ task' \in [Runs -> {"unborn", "early", "crew", "late", "over"}]
  BY DEF Coroutine, CallBegins, StartSending, StartWaiting, SendFails, TimerFires,
         TimesOut, Answered, CancelDelivered, threads, tracking, loop, IInv, Typed
<1>b. call[i] \in CallRecord
  BY Before
<1>1. CASE CallBegins(i)
  <2> DEFINE d == [call[i] EXCEPT !.co = "notifying"]
  <2>1. call' = [call EXCEPT ![i] = d] /\ pending' = pending \cup {i}
    BY <1>1 DEF CallBegins
  <2>2. d \in CallRecord /\ Within(d) /\ ~d.sent /\ Quiet(call[i], d)
    BY <1>1, <1>b, Before DEF CallBegins, CallRecord, Within, Quiet
  <2>3. d.out = call[i].out /\ d.got = call[i].got /\ d.inline = call[i].inline
        /\ d.by = call[i].by
    BY <1>b DEF CallRecord
  <2> HIDE DEF d
  <2> QED
    BY <1>0, <1>1, <2>1, <2>2, <2>3, AdvanceKeeps DEF CallBegins
<1>2. CASE StartSending(i)
  <2> DEFINE d == [call[i] EXCEPT !.co = "sending", !.sent = TRUE]
  <2>1. call' = [call EXCEPT ![i] = d] /\ pending' = pending \cup {i}
    BY <1>2, Before DEF StartSending, Within
  <2>2. d \in CallRecord /\ d.co = "sending" /\ Quiet(call[i], d)
    BY <1>2, <1>b DEF CallRecord, Quiet
  <2>3. d.out = call[i].out /\ d.got = call[i].got /\ d.inline = call[i].inline
        /\ d.by = call[i].by
    BY <1>b DEF CallRecord
  <2> HIDE DEF d
  <2> QED
    BY <1>0, <1>2, <2>1, <2>2, <2>3, AdvanceKeeps DEF StartSending, Within
<1>3. CASE StartWaiting(i)
  <2> DEFINE d == [call[i] EXCEPT !.co = "waiting"]
  <2>1. call' = [call EXCEPT ![i] = d] /\ pending' = pending \cup {i}
    BY <1>3, Before DEF StartWaiting, Within
  <2>2. d \in CallRecord /\ d.co = "waiting" /\ Quiet(call[i], d)
    BY <1>3, <1>b DEF CallRecord, Quiet
  <2>3. d.out = call[i].out /\ d.got = call[i].got /\ d.inline = call[i].inline
        /\ d.by = call[i].by
    BY <1>b DEF CallRecord
  <2> HIDE DEF d
  <2> QED
    BY <1>0, <1>3, <2>1, <2>2, <2>3, AdvanceKeeps DEF StartWaiting, Within
<1>4. CASE TimerFires(i)
  <2> DEFINE d == [call[i] EXCEPT !.fut = "cancelled"]
  <2>1. call' = [call EXCEPT ![i] = d] /\ pending' = pending \cup {i}
    BY <1>4, Before DEF TimerFires, Within
  <2>2. d \in CallRecord /\ d.co = call[i].co /\ Quiet(call[i], d)
    BY <1>4, <1>b DEF CallRecord, Quiet
  <2>3. d.out = call[i].out /\ d.got = call[i].got /\ d.inline = call[i].inline
        /\ d.by = call[i].by
    BY <1>b DEF CallRecord
  <2> HIDE DEF d
  <2> QED
    BY <1>0, <1>4, <2>1, <2>2, <2>3, AdvanceKeeps DEF TimerFires, Within
<1>5. CASE SendFails(i)
  BY <1>0, <1>5, EndKeeps DEF SendFails, End, Within
<1>6. CASE TimesOut(i)
  BY <1>0, <1>6, EndKeeps DEF TimesOut, End, Within
<1>7. CASE Answered(i)
  <2>1. call[i].fut \in {"result", "error"} /\ call[i].fut = call[i].answer
    BY <1>7, Before DEF Answered, OneAnswer
  <2> QED
    BY <1>0, <1>7, <2>1, EndKeeps DEF Answered, End, Within
<1>8. CASE CancelDelivered(i)
  BY <1>0, <1>8, Before, CancelledKeeps DEF CancelDelivered
<1> QED
  BY <1>1, <1>2, <1>3, <1>4, <1>5, <1>6, <1>7, <1>8 DEF Coroutine
\* A response pops its entry and schedules the future's result.
LEMMA HandleResponseKeeps ==
    ASSUME IInv, NEW i \in Calls, NEW a \in {"result", "error"}, HandleResponse(i, a)
    PROVE  IInv'
<1>1. CASE ~(i \in pending /\ call[i].fut = "open")
  BY <1>1, NoCallTouched DEF HandleResponse, threads, tracking, IInv, Typed
<1>2. CASE i \in pending /\ call[i].fut = "open"
  <2> DEFINE c == call[i]
             x == IF c.answer = "none" THEN a ELSE c.answer
             d == [c EXCEPT !.answer = x]
  <2>1. /\ call' = [call EXCEPT ![i] = d] /\ soon' = Append(soon, <<i, a>>)
        /\ UNCHANGED <<task, crew, cur, state, pending>>
    BY <1>2 DEF HandleResponse, threads, tracking
  <2>2. c \in CallRecord /\ OneAnswer(c) /\ c.fut = "open" /\ x \in {"result", "error"}
    BY <1>2, Before DEF CallRecord
  <2>b. (c.answer # "none" => x = c.answer) /\ (c.answer = "none" => x = a)
    OBVIOUS
  <2> HIDE DEF x
  <2>3. /\ d \in CallRecord /\ d.answer = x /\ d.fut = "open" /\ d.co = c.co
        /\ d.out = c.out /\ d.got = c.got /\ d.inline = c.inline /\ d.by = c.by
        /\ d.sent = c.sent
    BY <2>2 DEF CallRecord
  <2> HIDE DEF d
  <2>a. /\ Typed /\ call'[i] = d /\ \A j \in Calls \ {i} : call'[j] = call[j]
    BY <2>1 DEF IInv, Typed
  <2>4. /\ Typed /\ call'[i] = d /\ \A j \in Calls \ {i} : call'[j] = call[j]
        /\ \A j \in Calls : /\ call'[j].co = call[j].co /\ call'[j].fut = call[j].fut
                             /\ call'[j].got = call[j].got /\ call'[j].sent = call[j].sent
                             /\ call'[j].inline = call[j].inline /\ call'[j].by = call[j].by
    <3>1. /\ call'[i].co = call[i].co /\ call'[i].fut = call[i].fut
          /\ call'[i].got = call[i].got /\ call'[i].sent = call[i].sent
          /\ call'[i].inline = call[i].inline /\ call'[i].by = call[i].by
      BY <2>a, <2>2, <2>3
    <3> QED
      BY <2>a, <3>1
  <2>5. Typed'
    BY <2>1, <2>3, <2>4 DEF Typed
  <2>6. PendingOnlyWhileCalled' /\ Early' /\ WaitersUntold'
    BY <2>1, <2>4 DEF IInv, PendingOnlyWhileCalled, InCallTool, Early, WaitersUntold, Typed
  <2>7. IdleUntouched'
    <3>1. c.co # "idle"
      BY Before DEF HandleResponse, Unmade
    <3> QED
      BY <3>1, <2>3, <2>4 DEF IInv, IdleUntouched
  <2>8. OneAnswerEach'
    BY <2>2, <2>b, <2>3, <2>4 DEF IInv, OneAnswerEach, OneAnswer
  <2>9. QueueInOrder'
    <3>1. /\ Len(soon') = Len(soon) + 1 /\ Len(soon) \in Nat
          /\ soon'[Len(soon) + 1] = <<i, a>>
          /\ \A n \in 1..Len(soon) : soon'[n] = soon[n] /\ soon[n][1] \in Calls
      BY <2>1, <2>4 DEF Typed
    <3>2. QueueInOrder
      BY DEF IInv
    <3>3. \A n \in 1..Len(soon) : soon[n][1] = i => call'[i].answer = call[i].answer
      BY <2>b, <2>3, <2>4, <3>2 DEF QueueInOrder
    <3>4. (\A n \in 1..Len(soon) : call[soon[n][1]].answer # "none")'
      <4> SUFFICES ASSUME NEW n \in 1..(Len(soon) + 1)
                   PROVE  call'[soon'[n][1]].answer # "none"
        BY <3>1
      <4>1. CASE n = Len(soon) + 1
        BY <4>1, <3>1, <2>2, <2>3, <2>4
      <4>2. CASE n \in 1..Len(soon)
        BY <4>2, <3>1, <3>2, <2>2, <2>3, <2>4 DEF QueueInOrder
      <4> QED
        BY <4>1, <4>2, <3>1
    <3>5. (\A n \in 1..Len(soon) :
              /\ call[soon[n][1]].fut = "open"
              /\ \A m \in 1..(n - 1) : soon[m][1] # soon[n][1]
              => soon[n][2] = call[soon[n][1]].answer)'
      <4> SUFFICES ASSUME NEW n \in 1..(Len(soon) + 1),
                          call'[soon'[n][1]].fut = "open",
                          \A m \in 1..(n - 1) : soon'[m][1] # soon'[n][1]
                   PROVE  soon'[n][2] = call'[soon'[n][1]].answer
        BY <3>1
      <4>1. CASE n = Len(soon) + 1
        <5>1. \A m \in 1..Len(soon) : soon[m][1] # i
          BY <4>1, <3>1
        <5>2. call[i].answer = "none"
          BY <5>1, <3>2, <2>2 DEF QueueInOrder
        <5> QED
          BY <5>2, <4>1, <3>1, <2>b, <2>3, <2>4
      <4>2. CASE n \in 1..Len(soon)
        <5>1. call[soon[n][1]].fut = "open" /\ \A m \in 1..(n - 1) : soon[m][1] # soon[n][1]
          BY <4>2, <3>1, <2>4
        <5>2. soon[n][2] = call[soon[n][1]].answer
          BY <5>1, <4>2, <3>2 DEF QueueInOrder
        <5>3. call'[soon[n][1]].answer = call[soon[n][1]].answer
          BY <4>2, <3>1, <3>3, <2>4
        <5> QED
          BY <5>2, <5>3, <4>2, <3>1
      <4> QED
        BY <4>1, <4>2, <3>1
    <3>6. (\A j \in Calls : call[j].fut = "open" /\ call[j].answer # "none"
                            => \E n \in 1..Len(soon) : soon[n][1] = j)'
      <4> SUFFICES ASSUME NEW j \in Calls, call'[j].fut = "open", call'[j].answer # "none"
                   PROVE  \E n \in 1..(Len(soon) + 1) : soon'[n][1] = j
        BY <3>1
      <4>1. CASE j = i
        BY <4>1, <3>1
      <4>2. CASE j # i
        <5>1. PICK n \in 1..Len(soon) : soon[n][1] = j
          BY <4>2, <3>2, <2>4 DEF QueueInOrder
        <5> QED
          BY <5>1, <3>1
      <4> QED
        BY <4>1, <4>2
    <3> QED
      BY <3>4, <3>5, <3>6 DEF QueueInOrder
  <2> QED
    BY <2>5, <2>6, <2>7, <2>8, <2>9 DEF IInv
<1> QED
  BY <1>1, <1>2
\* The first scheduled callback sets its future, the later ones find it done.
LEMMA SetFutureKeeps ==
    ASSUME IInv, SetFuture
    PROVE  IInv'
<1> DEFINE i == Head(soon)[1]
           c == call[i]
           x == IF c.fut = "open" THEN Head(soon)[2] ELSE c.fut
           d == [c EXCEPT !.fut = x]
<1>1. /\ call' = [call EXCEPT ![i] = d] /\ soon' = Tail(soon)
      /\ UNCHANGED <<task, crew, cur, state, pending>>
  BY DEF SetFuture, threads, tracking
<1>2. /\ Len(soon) \in Nat /\ Len(soon) # 0 /\ Len(soon') = Len(soon) - 1
      /\ \A n \in 1..Len(soon') : n + 1 \in 1..Len(soon) /\ soon'[n] = soon[n + 1]
      /\ \A n \in 1..Len(soon) : soon[n] \in Calls \X {"result", "error"}
      /\ Head(soon) = soon[1]
  BY <1>1 DEF SetFuture, IInv, Typed
<1>3. i \in Calls /\ Head(soon)[2] \in {"result", "error"}
  BY <1>2
<1>4. c \in CallRecord /\ OneAnswer(c)
  BY <1>3, Before
<1>5. c.fut = "open" => Head(soon)[2] = c.answer
  BY <1>2 DEF IInv, QueueInOrder
<1>6. x \in {"result", "error", "cancelled"} /\ (x \in {"result", "error"} => x = c.answer)
  BY <1>3, <1>4, <1>5 DEF CallRecord, OneAnswer
<1> HIDE DEF x
<1>7. /\ d \in CallRecord /\ d.fut = x /\ d.answer = c.answer /\ d.co = c.co
      /\ d.out = c.out /\ d.got = c.got /\ d.inline = c.inline /\ d.by = c.by
      /\ d.sent = c.sent
  BY <1>4, <1>6 DEF CallRecord
<1> HIDE DEF d, i
<1>8. Typed /\ call'[i] = d /\ \A j \in Calls \ {i} : call'[j] = call[j]
  BY <1>1, <1>3 DEF IInv, Typed
<1>9. \A j \in Calls : /\ call'[j].co = call[j].co /\ call'[j].answer = call[j].answer
                       /\ call'[j].got = call[j].got /\ call'[j].sent = call[j].sent
                       /\ call'[j].inline = call[j].inline /\ call'[j].by = call[j].by
  <2>1. /\ call'[i].co = call[i].co /\ call'[i].answer = call[i].answer
        /\ call'[i].got = call[i].got /\ call'[i].sent = call[i].sent
        /\ call'[i].inline = call[i].inline /\ call'[i].by = call[i].by
    BY <1>7, <1>8
  <2> QED
    BY <2>1, <1>8
<1>10. Typed'
  <2>1. call' \in [Calls -> CallRecord] /\ soon' \in Seq(Calls \X {"result", "error"})
    BY <1>1, <1>2, <1>7, <1>8 DEF Typed, SetFuture
  <2> QED
    BY <2>1, <1>1, <1>8 DEF Typed
<1>11. PendingOnlyWhileCalled' /\ Early' /\ WaitersUntold'
  BY <1>1, <1>9 DEF IInv, PendingOnlyWhileCalled, InCallTool, Early, WaitersUntold, Typed
<1>12. IdleUntouched'
  <2>1. c.co # "idle"
    <3>1. c.answer # "none"
      BY <1>2 DEF IInv, QueueInOrder, i
    <3> QED
      BY <3>1, <1>3, Before DEF Unmade
  <2> QED
    BY <2>1, <1>7, <1>8 DEF IInv, IdleUntouched
<1>13. OneAnswerEach'
  BY <1>4, <1>6, <1>7, <1>8 DEF IInv, OneAnswerEach, OneAnswer
<1>14. QueueInOrder'
  <2>1. QueueInOrder
    BY DEF IInv
  <2>2. \A n \in 1..Len(soon) : soon[n][1] \in Calls
    BY <1>2
  <2>3. \A j \in Calls : call'[j].fut = "open" => j # i /\ call[j].fut = "open"
    BY <1>6, <1>7, <1>8
  <2>4. (\A n \in 1..Len(soon) : call[soon[n][1]].answer # "none")'
    BY <2>1, <2>2, <1>2, <1>9 DEF QueueInOrder
  <2>5. (\A n \in 1..Len(soon) :
            /\ call[soon[n][1]].fut = "open"
            /\ \A m \in 1..(n - 1) : soon[m][1] # soon[n][1]
            => soon[n][2] = call[soon[n][1]].answer)'
    <3> SUFFICES ASSUME NEW n \in 1..Len(soon'),
                        call'[soon'[n][1]].fut = "open",
                        \A m \in 1..(n - 1) : soon'[m][1] # soon'[n][1]
                 PROVE  soon'[n][2] = call'[soon'[n][1]].answer
      OBVIOUS
    <3> DEFINE j == soon[n + 1][1]
    <3>1. n + 1 \in 1..Len(soon) /\ soon'[n] = soon[n + 1] /\ j \in Calls
      BY <1>2, <2>2
    <3>2. j # i /\ call[j].fut = "open"
      BY <3>1, <2>3
    <3>3. \A m \in 1..n : soon[m][1] # j
      <4> SUFFICES ASSUME NEW m \in 1..n PROVE soon[m][1] # j
        OBVIOUS
      <4>1. CASE m = 1
        BY <4>1, <3>2, <1>2 DEF i
      <4>2. CASE m # 1
        <5>1. m - 1 \in 1..(n - 1) /\ m - 1 \in 1..Len(soon') /\ soon'[m - 1] = soon[m]
          BY <4>2, <1>2
        <5> QED
          BY <5>1, <3>1
      <4> QED
        BY <4>1, <4>2
    <3>4. soon[n + 1][2] = call[j].answer
      BY <3>1, <3>2, <3>3, <2>1 DEF QueueInOrder
    <3> QED
      BY <3>1, <3>4, <1>9
  <2>6. (\A j \in Calls : call[j].fut = "open" /\ call[j].answer # "none"
                          => \E n \in 1..Len(soon) : soon[n][1] = j)'
    <3> SUFFICES ASSUME NEW j \in Calls, call'[j].fut = "open", call'[j].answer # "none"
                 PROVE  \E n \in 1..Len(soon') : soon'[n][1] = j
      OBVIOUS
    <3>1. j # i /\ call[j].fut = "open" /\ call[j].answer # "none"
      BY <2>3, <1>9
    <3>2. PICK n \in 1..Len(soon) : soon[n][1] = j
      BY <3>1, <2>1 DEF QueueInOrder
    <3>3. n # 1
      BY <3>1, <3>2, <1>2 DEF i
    <3>4. n - 1 \in 1..Len(soon') /\ soon'[n - 1] = soon[n]
      BY <3>3, <1>2
    <3> QED
      BY <3>2, <3>4
  <2> QED
    BY <2>4, <2>5, <2>6 DEF QueueInOrder
<1> QED
  BY <1>10, <1>11, <1>12, <1>13, <1>14 DEF IInv

\* A run is cut off: a call of its task is cancelled, its crew goes on.
LEMMA RunAbortsKeeps ==
    ASSUME IInv, NEW r \in Runs, RunAborts(r)
    PROVE  IInv'
<1>1. /\ UNCHANGED <<crew, cur, state, loop>>
      /\ task' \in [Runs -> {"unborn", "early", "crew", "late", "over"}]
  BY DEF RunAborts, threads, tracking, IInv, Typed
<1>2. CASE UNCHANGED <<call, pending, loop>>
  BY <1>1, <1>2, NoCallTouched DEF IInv, Typed
<1>3. CASE \E i \in OpenInline(r) : Cancelled(i)
  BY <1>1, <1>3, Before, CancelledKeeps DEF OpenInline, loop
<1> QED
  BY <1>2, <1>3 DEF RunAborts

\* What a thread does between its calls leaves them alone.
LEMMA ThreadKeeps ==
    ASSUME IInv, NEW r \in Runs,
           \/ StartRun(r) \/ BuildCrew(r) \/ RunEnds(r)
           \/ RecordRead(r) \/ RecordWrite(r) \/ CrewReturns(r)
    PROVE  IInv'
<1> USE DEF IInv, Typed, threads, tracking
<1>1. CASE StartRun(r)
  BY <1>1, NoCallTouched DEF StartRun
<1>2. CASE BuildCrew(r)
  BY <1>2, NoCallTouched, UnmadeTyped DEF BuildCrew
<1>3. CASE RunEnds(r)
  BY <1>3, NoCallTouched DEF RunEnds
<1>4. CASE RecordRead(r)
  BY <1>4, NoCallTouched DEF RecordRead
<1>5. CASE RecordWrite(r)
  <2>1. cur' \in [Runs -> 0..MaxCalls]
    BY <1>5, McpAssumption DEF McpAssumption, RecordWrite, Thinks
  <2> QED
    BY <1>5, <2>1, NoCallTouched DEF RecordWrite, Thinks
<1>6. CASE CrewReturns(r)
  BY <1>6, NoCallTouched DEF CrewReturns
<1> QED
  BY <1>1, <1>2, <1>3, <1>4, <1>5, <1>6

\* Every step keeps the invariant.
LEMMA Inductive ==
    IInv /\ [Next]_vars => IInv'
<1> SUFFICES ASSUME IInv, [Next]_vars PROVE IInv'
  OBVIOUS
<1>1. CASE UNCHANGED vars
  BY <1>1, NoCallTouched DEF vars, threads, tracking, IInv, Typed
<1>2. ASSUME NEW r \in Runs, InTool(r) PROVE IInv'
  BY <1>2, SyncReturnsKeeps, SyncTimeoutKeeps, ThreadKeeps DEF InTool
<1>3. ASSUME NEW r \in Runs, StartRun(r) \/ BuildCrew(r) \/ RunEnds(r) \/ CrewReturns(r)
      PROVE  IInv'
  BY <1>3, ThreadKeeps
<1>4. CASE Next
  BY <1>2, <1>3, <1>4, TaskCallKeeps, BeginCallKeeps, RunAbortsKeeps, CoroutineKeeps,
     HandleResponseKeeps, SetFutureKeeps DEF Next
<1> QED
  BY <1>1, <1>4

\* Whatever the threads, the loop and the client app do, in any order:
\* pending entries, waiters, futures and scheduled callbacks fit together.
THEOREM McpInvariant == Spec => []IInv
<1>1. Init => IInv
  BY Initially
<1>2. IInv /\ [Next]_vars => IInv'
  BY Inductive
<1> QED
  BY <1>1, <1>2, PTL DEF Spec

\* call_tool's finally and handle_response's lookup: the table lists every
\* call inside call_tool, and any other entry was never sent.
THEOREM PendingTable == Spec => []PendingOnlyWhileCalled
<1>1. IInv => PendingOnlyWhileCalled
  BY DEF IInv
<1> QED
  BY <1>1, McpInvariant, PTL

-----------------------------------------------------------------------------
(* Bookkeeping of the crew threads: budget and cache *)

Using(r)    == crew[r] \in {"blocked", "record", "write"}
CrewCall(c) == c.co # "idle" /\ ~c.inline

\* The calls of a run state that no thread is in any more, and whether they
\* are all one crew's.
Closed(s) == { i \in CrewCalls(s) : \A r \in Runs : Using(r) => cur[r] # i }
Solo(s)   == \A i, j \in CrewCalls(s) : call[i].by = call[j].by

\* A thread keeps a count it read only until it has written it back.
CountsTyped ==
    /\ seen \in [Runs -> Nat]
    /\ \A r \in Runs : crew[r] # "write" => seen[r] = 0
    /\ made \in [Runs -> Nat]
    /\ cache \in [Runs -> [Keys -> 0..MaxCalls]]
    /\ replies \in 0..MaxReplies

\* A thread is in at most one call, its own, until it has recorded it.
OwnCall == \A r \in Runs : Using(r) => /\ cur[r] \in Calls
                                       /\ CrewCall(call[cur[r]])
                                       /\ call[cur[r]].by = r

\* A crew's call is made under a run state that exists.
Labelled == \A i \in Calls : CrewCall(call[i]) => /\ call[i].under \in Runs
                                                  /\ call[i].key \in Keys

\* A run state is installed before any crew thinks, each crew once.
Installed == \A r \in Runs : /\ crew[r] \notin {"none", "over"} => state \in Runs
                             /\ task[r] \in {"unborn", "early"} => crew[r] = "none"

\* Lost updates only lose: neither the counter nor what a thread is about to
\* write back to it is ahead of the calls that ended under the run state.
Counted == \A s \in Runs :
    /\ made[s] <= Cardinality(Closed(s))
    /\ \A r \in Runs : crew[r] = "write" /\ call[cur[r]].under = s
                       => seen[r] <= Cardinality(Closed(s))

\* With one crew nothing is lost.
SoloCounted == \A s \in Runs : Solo(s) =>
    /\ made[s] = Cardinality(Closed(s))
    /\ \A r \in Runs : crew[r] = "write" /\ call[cur[r]].under = s
                       => seen[r] = made[s]

\* Only calls that were made are cached.
CachedMade == \A s \in Runs, k \in Keys :
    cache[s][k] # 0 => cache[s][k] \in Calls /\ CrewCall(call[cache[s][k]])

Book == /\ CountsTyped
        /\ OwnCall
        /\ Labelled
        /\ Installed
        /\ Counted
        /\ SoloCounted
        /\ SoloBudget
        /\ CachedMade
        /\ CacheOfThisRun

\* Sets of calls are finite, and there are MaxCalls at most.
LEMMA SizesOf ==
    ASSUME NEW S \in SUBSET Calls
    PROVE  IsFiniteSet(S) /\ Cardinality(S) \in 0..MaxCalls
<1>1. IsFiniteSet(Calls) /\ Cardinality(Calls) = MaxCalls
  BY FS_Interval, McpAssumption DEF McpAssumption, Calls
<1>2. IsFiniteSet(S) /\ Cardinality(S) <= Cardinality(Calls) /\ Cardinality(S) \in Nat
  BY <1>1, FS_Subset, FS_CardinalityType
<1> QED
  BY <1>1, <1>2, McpAssumption DEF McpAssumption

\* So are the calls of a run state, and those of them that are over.
LEMMA ClosedSizes ==
    ASSUME NEW s
    PROVE  /\ IsFiniteSet(Closed(s)) /\ Cardinality(Closed(s)) \in 0..MaxCalls
           /\ IsFiniteSet(CrewCalls(s)) /\ Cardinality(CrewCalls(s)) \in 0..MaxCalls
<1>1. Closed(s) \subseteq Calls /\ CrewCalls(s) \subseteq Calls
  BY DEF Closed, CrewCalls
<1> QED
  BY <1>1, SizesOf

\* No call is counted or cached at the start.
LEMMA BookInitially == Init => Book
<1> SUFFICES ASSUME Init PROVE Book
  OBVIOUS
<1>1. \A i \in Calls : call[i].co = "idle"
  BY DEF Init, Unmade
<1>2. \A r \in Runs : crew[r] = "none" /\ made[r] = 0
  BY DEF Init
<1>3. \A s \in Runs : CrewCalls(s) = {} /\ Closed(s) = {}
  BY <1>1 DEF CrewCalls, Closed
<1>4. CountsTyped
  BY McpAssumption DEF McpAssumption, Init, CountsTyped
<1>5. OwnCall /\ Labelled /\ Installed
  BY <1>1, <1>2 DEF OwnCall, Labelled, Installed, Using, CrewCall
<1>6. Counted /\ SoloCounted /\ SoloBudget
  BY <1>2, <1>3, FS_EmptySet, McpAssumption
     DEF McpAssumption, Counted, SoloCounted, SoloBudget
<1>7. CachedMade /\ CacheOfThisRun
  BY DEF Init, CachedMade, CacheOfThisRun
<1> QED
  BY <1>4, <1>5, <1>6, <1>7 DEF Book

\* What no step but the start of a crew's call changes of a call: whose it
\* is, for whom, for what, and its answer once there is one.
Same(c, d) ==
    /\ CrewCall(d) <=> CrewCall(c)
    /\ CrewCall(c) => /\ d.by = c.by /\ d.under = c.under /\ d.key = c.key
                      /\ c.answer # "none" => d.answer = c.answer

AllSame == \A i \in Calls : Same(call[i], call'[i])

\* A call that keeps its crew, its run state and its key stays in the same books.
LEMMA SameSets ==
    ASSUME AllSame
    PROVE  \A s \in Runs : CrewCalls(s)' = CrewCalls(s) /\ (Solo(s)' <=> Solo(s))
<1> SUFFICES ASSUME NEW s \in Runs
             PROVE  CrewCalls(s)' = CrewCalls(s) /\ (Solo(s)' <=> Solo(s))
  OBVIOUS
<1>1. CrewCalls(s)' = CrewCalls(s)
  BY DEF AllSame, Same, CrewCall, CrewCalls
<1>2. \A i \in CrewCalls(s) : call'[i].by = call[i].by
  BY DEF AllSame, Same, CrewCall, CrewCalls
<1> QED
  BY <1>1, <1>2 DEF Solo

\* A step that neither opens nor closes a thread's call keeps the books.
LEMMA BookKept ==
    ASSUME Book, AllSame, UNCHANGED <<cur, made, cache>>, Installed',
           \A r \in Runs : Using(r)' <=> Using(r),
           seen' \in [Runs -> Nat], replies' \in 0..MaxReplies,
           \A r \in Runs : crew'[r] # "write" => seen'[r] = 0,
           \A r \in Runs : crew'[r] = "write" =>
              \/ crew[r] = "write" /\ seen'[r] = seen[r]
              \/ Using(r) /\ seen'[r] = made[call[cur[r]].under]
    PROVE  Book'
<1>1. CountsTyped'
  BY DEF Book, CountsTyped
<1>2. (OwnCall /\ Labelled)'
  BY DEF Book, OwnCall, Labelled, AllSame, Same
<1>3. \A s \in Runs : Closed(s)' = Closed(s) /\ CrewCalls(s)' = CrewCalls(s)
                      /\ (Solo(s)' <=> Solo(s))
  BY SameSets DEF Closed
<1>4. \A r \in Runs : crew'[r] = "write" =>
         /\ cur[r] \in Calls /\ call'[cur[r]].under = call[cur[r]].under
         /\ call[cur[r]].under \in Runs
  BY DEF Book, OwnCall, Labelled, AllSame, Same, Using
<1>5. Counted'
  BY <1>3, <1>4 DEF Book, Counted
<1>6. SoloCounted'
  BY <1>3, <1>4 DEF Book, SoloCounted
<1>7. SoloBudget'
  BY <1>3 DEF Book, SoloBudget, Solo
<1>8. (CachedMade /\ CacheOfThisRun)'
  BY DEF Book, CachedMade, CacheOfThisRun, AllSame, Same
<1> QED
  BY <1>1, <1>2, <1>5, <1>6, <1>7, <1>8 DEF Book

\* One call that moves and keeps these is enough.
LEMMA OneSame ==
    ASSUME Typed, NEW i \in Calls, NEW d, call' = [call EXCEPT ![i] = d], Same(call[i], d)
    PROVE  AllSame
BY DEF Typed, AllSame, Same

\* So is that no call moves.
LEMMA NoneSame ==
    ASSUME UNCHANGED call
    PROVE  AllSame
BY DEF AllSame, Same

\* The end of a coroutine keeps them.
LEMMA EndSame ==
    ASSUME IInv, NEW i \in Calls, NEW o, Within(call[i]),
           call' = [call EXCEPT ![i] = Ended(i, o)]
    PROVE  AllSame
<1> DEFINE c == call[i]
           x == IF c.got = "none" THEN o ELSE "none"
           y == IF c.inline THEN o ELSE c.got
           d == [c EXCEPT !.co = "done", !.fut = "cancelled", !.cancel = FALSE,
                          !.out = x, !.got = y]
<1>1. call' = [call EXCEPT ![i] = d]
  BY DEF Ended
<1>2. c \in CallRecord
  BY Before
<1> HIDE DEF x, y
<1>3. Same(c, d)
  BY <1>2 DEF CallRecord, Same, CrewCall, Within
<1> HIDE DEF d
<1> QED
  BY <1>1, <1>3, OneSame DEF IInv

\* A cancel keeps them.
LEMMA CancelledSame ==
    ASSUME IInv, NEW i \in Calls, Within(call[i]), Cancelled(i)
    PROVE  AllSame
<1>1. CASE call[i].co = "notifying"
  BY <1>1, EndSame DEF Cancelled
<1>2. CASE call[i].co = "sending"
  BY <1>2, EndSame DEF Cancelled, End
<1>3. CASE call[i].co = "waiting"
  BY <1>3, EndSame DEF Cancelled, End
<1> QED
  BY <1>1, <1>2, <1>3 DEF Within

\* What a coroutine does keeps them.
LEMMA CoroutineSame ==
    ASSUME IInv, NEW i \in Calls, Coroutine(i)
    PROVE  AllSame
<1>1. Typed /\ call[i] \in CallRecord
  BY Before DEF IInv
<1>2. CASE CallBegins(i)
  <2>1. Same(call[i], [call[i] EXCEPT !.co = "notifying"])
    BY <1>1, <1>2 DEF CallBegins, CallRecord, Same, CrewCall
  <2> QED
    BY <1>1, <1>2, <2>1, OneSame DEF CallBegins
<1>3. CASE StartSending(i)
  <2>1. Same(call[i], [call[i] EXCEPT !.co = "sending", !.sent = TRUE])
    BY <1>1, <1>3 DEF StartSending, CallRecord, Same, CrewCall
  <2> QED
    BY <1>1, <1>3, <2>1, OneSame DEF StartSending
<1>4. CASE StartWaiting(i)
  <2>1. Same(call[i], [call[i] EXCEPT !.co = "waiting"])
    BY <1>1, <1>4 DEF StartWaiting, CallRecord, Same, CrewCall
  <2> QED
    BY <1>1, <1>4, <2>1, OneSame DEF StartWaiting
<1>5. CASE TimerFires(i)
  <2>1. Same(call[i], [call[i] EXCEPT !.fut = "cancelled"])
    BY <1>1, <1>5 DEF TimerFires, CallRecord, Same, CrewCall
  <2> QED
    BY <1>1, <1>5, <2>1, OneSame DEF TimerFires
<1>6. CASE SendFails(i) \/ TimesOut(i) \/ Answered(i)
  BY <1>6, EndSame DEF SendFails, TimesOut, Answered, End, Within
<1>7. CASE CancelDelivered(i)
  BY <1>7, Before, CancelledSame DEF CancelDelivered
<1> QED
  BY <1>2, <1>3, <1>4, <1>5, <1>6, <1>7 DEF Coroutine

\* What the event loop does with a response keeps them.
LEMMA LoopSame ==
    ASSUME IInv,
           \/ SetFuture
           \/ \E i \in Calls, a \in {"result", "error"} : HandleResponse(i, a)
    PROVE  AllSame
<1>1. ASSUME NEW i \in Calls, NEW a \in {"result", "error"}, HandleResponse(i, a)
      PROVE  AllSame
  <2> DEFINE x == IF call[i].answer = "none" THEN a ELSE call[i].answer
             d == [call[i] EXCEPT !.answer = x]
  <2>1. CASE call' = [call EXCEPT ![i] = d]
    <3>1. Same(call[i], d)
      BY Before DEF CallRecord, Same, CrewCall
    <3> HIDE DEF d
    <3> QED
      BY <2>1, <3>1, OneSame DEF IInv
  <2>2. CASE UNCHANGED call
    BY <2>2, NoneSame
  <2> QED
    BY <1>1, <2>1, <2>2 DEF HandleResponse, loop
<1>2. CASE SetFuture
  <2> DEFINE i == Head(soon)[1]
             x == IF call[i].fut = "open" THEN Head(soon)[2] ELSE call[i].fut
             d == [call[i] EXCEPT !.fut = x]
  <2>1. i \in Calls /\ call' = [call EXCEPT ![i] = d]
    BY <1>2 DEF SetFuture, IInv, Typed
  <2> HIDE DEF i, x
  <2>2. Same(call[i], d)
    BY <2>1, Before DEF CallRecord, Same, CrewCall
  <2> HIDE DEF d
  <2> QED
    BY <2>1, <2>2, OneSame DEF IInv
<1> QED
  BY <1>1, <1>2

\* The loop and the client app leave threads and run states alone.
LEMMA LoopKeepsBook ==
    ASSUME IInv, Book,
           \/ \E i \in Calls : Coroutine(i)
           \/ SetFuture
           \/ \E i \in Calls, a \in {"result", "error"} : HandleResponse(i, a)
    PROVE  Book'
<1>1. AllSame
  BY CoroutineSame, LoopSame
<1>2. UNCHANGED <<task, threads, tracking>>
  BY DEF Coroutine, CallBegins, StartSending, StartWaiting, SendFails, TimerFires,
         TimesOut, Answered, CancelDelivered, SetFuture, HandleResponse
<1>3. replies' \in 0..MaxReplies
  <2>1. replies' = replies \/ (replies < MaxReplies /\ replies' = replies + 1)
    <3>1. CASE \E i \in Calls : Coroutine(i)
      BY <3>1 DEF Coroutine, CallBegins, StartSending, StartWaiting, SendFails, TimerFires,
             TimesOut, Answered, CancelDelivered, loop
    <3>2. CASE SetFuture
      BY <3>2 DEF SetFuture
    <3>3. CASE \E i \in Calls, a \in {"result", "error"} : HandleResponse(i, a)
      BY <3>3 DEF HandleResponse, loop
    <3> QED
      BY <3>1, <3>2, <3>3
  <2> QED
    BY <2>1, McpAssumption DEF McpAssumption, Book, CountsTyped
<1>4. Installed'
  BY <1>2 DEF Book, Installed, threads, tracking
<1> QED
  BY <1>1, <1>2, <1>3, <1>4, BookKept DEF threads, tracking, Using, Book, CountsTyped

\* So do the pipeline tasks, but for the run state a crew is built with.
LEMMA TaskKeepsBook ==
    ASSUME IInv, Book, NEW r \in Runs,
           \/ StartRun(r) \/ BuildCrew(r) \/ RunEnds(r) \/ RunAborts(r) \/ CrewReturns(r)
           \/ \E i \in Calls : TaskCall(r, i)
    PROVE  Book'
<1> USE DEF Book, CountsTyped, IInv, Typed
<1>1. CASE StartRun(r) \/ RunEnds(r)
  <2>1. UNCHANGED <<threads, tracking, call, loop>> /\ Installed'
    BY <1>1 DEF StartRun, RunEnds, Installed, threads, tracking
  <2> QED
    BY <2>1, NoneSame, BookKept DEF threads, tracking, loop, Using
<1>2. CASE BuildCrew(r)
  <2>1. /\ UNCHANGED <<cur, seen, made, cache, call, loop>> /\ crew[r] = "none"
        /\ crew' = [crew EXCEPT ![r] = "think"]
    BY <1>2 DEF BuildCrew, Installed
  <2>2. Installed'
    BY <1>2 DEF BuildCrew, Installed
  <2>3. \A q \in Runs : (Using(q)' <=> Using(q))
                        /\ (crew'[q] = "write" <=> crew[q] = "write")
    BY <2>1 DEF Using
  <2> QED
    BY <2>1, <2>2, <2>3, NoneSame, BookKept DEF loop
<1>3. CASE RunAborts(r)
  <2>1. UNCHANGED <<threads, tracking, loop>> /\ Installed'
    BY <1>3 DEF RunAborts, Installed, threads, tracking
  <2>2. AllSame
    BY <1>3, Before, NoneSame, CancelledSame DEF RunAborts, OpenInline
  <2> QED
    BY <2>1, <2>2, BookKept DEF threads, tracking, loop, Using
<1>4. CASE CrewReturns(r)
  <2>1. /\ UNCHANGED <<cur, seen, tracking, call, loop>> /\ crew[r] = "think"
        /\ crew' = [crew EXCEPT ![r] = "over"]
    BY <1>4 DEF CrewReturns
  <2>2. Installed'
    BY <1>4 DEF CrewReturns, Installed, tracking
  <2>3. \A q \in Runs : (Using(q)' <=> Using(q))
                        /\ (crew'[q] = "write" <=> crew[q] = "write")
    BY <2>1 DEF Using
  <2> QED
    BY <2>1, <2>2, <2>3, NoneSame, BookKept DEF loop, tracking
<1>5. ASSUME NEW i \in Calls, TaskCall(r, i) PROVE Book'
  <2> DEFINE d == [Unmade EXCEPT !.co = "notifying", !.by = r, !.inline = TRUE]
  <2>1. UNCHANGED <<task, threads, tracking, loop>> /\ call[i] = Unmade
        /\ call' = [call EXCEPT ![i] = d]
    BY <1>5, Before DEF TaskCall, Fresh
  <2>2. Same(call[i], d)
    BY <2>1 DEF Same, CrewCall, Unmade
  <2> HIDE DEF d
  <2>3. AllSame
    BY <2>1, <2>2, OneSame
  <2>4. Installed'
    BY <2>1 DEF Installed, threads, tracking
  <2> QED
    BY <2>1, <2>3, <2>4, BookKept DEF threads, tracking, loop, Using
<1> QED
  BY <1>1, <1>2, <1>3, <1>4, <1>5

\* call_sync returns or gives up; the thread is still in the call it counts.
LEMMA SyncKeepsBook ==
    ASSUME IInv, Book, NEW r \in Runs,
           SyncReturns(r) \/ SyncTimeout(r) \/ RecordRead(r)
    PROVE  Book'
<1> USE DEF Book, CountsTyped, IInv, Typed
<1>1. CASE SyncReturns(r) \/ SyncTimeout(r)
  <2>1. /\ UNCHANGED <<task, cur, seen, tracking, loop>> /\ crew[r] = "blocked"
        /\ crew' = [crew EXCEPT ![r] = "record"]
    BY <1>1 DEF SyncReturns, SyncTimeout
  <2>2. AllSame
    <3> DEFINE i == cur[r]
    <3>1. i \in Calls /\ call[i] \in CallRecord
      BY <2>1, Waiting, Before
    <3>2. Same(call[i], [call[i] EXCEPT !.got = call[i].out])
      BY <3>1 DEF CallRecord, Same, CrewCall
    <3>3. Same(call[i], [call[i] EXCEPT !.got = "failed", !.cancel = TRUE])
      BY <3>1 DEF CallRecord, Same, CrewCall
    <3>4. \/ call' = [call EXCEPT ![i] = [call[i] EXCEPT !.got = call[i].out]]
          \/ call' = [call EXCEPT ![i] = [call[i] EXCEPT !.got = "failed", !.cancel = TRUE]]
      BY <1>1, <3>1 DEF SyncReturns, SyncTimeout
    <3> HIDE DEF i
    <3> QED
      BY <3>1, <3>2, <3>3, <3>4, OneSame
  <2>3. Installed'
    BY <2>1 DEF Installed, tracking
  <2>4. \A q \in Runs : (Using(q)' <=> Using(q))
                        /\ (crew'[q] = "write" <=> crew[q] = "write")
    BY <2>1 DEF Using
  <2> QED
    BY <2>1, <2>2, <2>3, <2>4, BookKept DEF tracking, loop
<1>2. CASE RecordRead(r)
  <2>1. /\ UNCHANGED <<task, cur, tracking, call, loop>> /\ crew[r] = "record"
        /\ crew' = [crew EXCEPT ![r] = "write"]
        /\ seen' = [seen EXCEPT ![r] = made[call[cur[r]].under]]
    BY <1>2 DEF RecordRead
  <2>2. made[call[cur[r]].under] \in Nat
    BY <2>1 DEF OwnCall, Labelled, Using
  <2>3. Installed'
    BY <2>1 DEF Installed, tracking
  <2>4. \A q \in Runs : Using(q)' <=> Using(q)
    BY <2>1 DEF Using
  <2>5. \A q \in Runs : crew'[q] = "write" =>
            \/ crew[q] = "write" /\ seen'[q] = seen[q]
            \/ Using(q) /\ seen'[q] = made[call[cur[q]].under]
    BY <2>1 DEF Using
  <2>6. \A q \in Runs : crew'[q] # "write" => seen'[q] = 0
    BY <2>1
  <2>7. seen' \in [Runs -> Nat]
    BY <2>1, <2>2
  <2> QED
    BY <2>1, <2>3, <2>4, <2>5, <2>6, <2>7, NoneSame, BookKept DEF tracking, loop
<1> QED
  BY <1>1, <1>2

\* The check of calls_made against the budget: a crew alone in a run state
\* has counted every call it made there before it makes another.
LEMMA BeginCallKeepsBook ==
    ASSUME IInv, Book, NEW r \in Runs, NEW k \in Keys, NEW i \in Calls, BeginCall(r, k, i)
    PROVE  Book'
<1> DEFINE d == [Unmade EXCEPT !.co = "scheduled", !.by = r,
                               !.under = state, !.key = k]
<1>1. /\ UNCHANGED <<task, seen, tracking, loop>> /\ call[i] = Unmade
      /\ crew[r] = "think" /\ made[state] < Budget
      /\ call' = [call EXCEPT ![i] = d]
      /\ crew' = [crew EXCEPT ![r] = "blocked"] /\ cur' = [cur EXCEPT ![r] = i]
  BY Before DEF BeginCall, Fresh
<1>2. CrewCall(d) /\ d.by = r /\ d.under = state /\ d.key = k /\ ~CrewCall(call[i])
  BY <1>1 DEF CrewCall, Unmade
<1> HIDE DEF d
<1>3. /\ call'[i] = d /\ \A j \in Calls \ {i} : call'[j] = call[j]
      /\ crew'[r] = "blocked" /\ \A q \in Runs \ {r} : crew'[q] = crew[q]
      /\ cur'[r] = i /\ \A q \in Runs \ {r} : cur'[q] = cur[q]
  BY <1>1 DEF IInv, Typed
<1>4. state \in Runs
  BY <1>1 DEF Book, Installed
<1>5. \A q \in Runs \ {r} : Using(q)' <=> Using(q)
  BY <1>3 DEF Using
<1>6. Using(r)' /\ ~Using(r)
  BY <1>1, <1>3 DEF Using
<1>7. \A q \in Runs \ {r} : Using(q) => cur[q] # i
  BY <1>2 DEF Book, OwnCall
<1>8. \A s \in Runs : CrewCalls(s)' = IF s = state THEN CrewCalls(s) \cup {i} ELSE CrewCalls(s)
  BY <1>2, <1>3 DEF CrewCalls, CrewCall
<1>9. \A s \in Runs : i \notin CrewCalls(s)
  BY <1>2 DEF CrewCalls, CrewCall
<1>10. \A s \in Runs : Closed(s)' = Closed(s)
  BY <1>3, <1>5, <1>6, <1>8, <1>9 DEF Closed
<1>11. \A s \in Runs : Solo(s)' => Solo(s)
  <2> SUFFICES ASSUME NEW s \in Runs, Solo(s)', NEW j \in CrewCalls(s), NEW m \in CrewCalls(s)
               PROVE  call[j].by = call[m].by
    BY DEF Solo
  <2>1. /\ j \in CrewCalls(s)' /\ m \in CrewCalls(s)'
        /\ call'[j] = call[j] /\ call'[m] = call[m]
    BY <1>3, <1>8, <1>9 DEF CrewCalls
  <2> QED
    BY <2>1 DEF Solo
<1>12. CountsTyped'
  BY <1>1 DEF Book, CountsTyped, tracking, loop
<1>13. OwnCall'
  BY <1>2, <1>3, <1>5, <1>7 DEF Book, OwnCall
<1>14. Labelled'
  BY <1>2, <1>3, <1>4 DEF Book, Labelled
<1>15. Installed'
  BY <1>1, <1>3 DEF Book, Installed, tracking
<1>16. \A q \in Runs, s \in Runs :
          crew'[q] = "write" /\ call'[cur'[q]].under = s =>
             /\ q # r /\ crew[q] = "write" /\ seen'[q] = seen[q]
             /\ call[cur[q]].under = s
  BY <1>1, <1>3, <1>7 DEF Using, Book, OwnCall
<1>17. Counted'
  BY <1>1, <1>10, <1>16 DEF Book, Counted, tracking
<1>18. SoloCounted'
  BY <1>1, <1>10, <1>11, <1>16 DEF Book, SoloCounted, tracking
<1>19. SoloBudget'
  <2> SUFFICES ASSUME NEW s \in Runs, Solo(s)' PROVE (Cardinality(CrewCalls(s)) <= Budget)'
    BY DEF SoloBudget, Solo
  <2>1. CASE s # state
    BY <2>1, <1>8, <1>11 DEF Book, SoloBudget, Solo
  <2>2. CASE s = state
    <3>1. \A j \in CrewCalls(s) : call[j].by = r
      <4> SUFFICES ASSUME NEW j \in CrewCalls(s) PROVE call[j].by = r
        OBVIOUS
      <4>1. j \in CrewCalls(s)' /\ i \in CrewCalls(s)' /\ j # i /\ j \in Calls
        BY <2>2, <1>8, <1>9 DEF CrewCalls
      <4> QED
        BY <4>1, <1>2, <1>3 DEF Solo
    <3>2. Closed(s) = CrewCalls(s)
      BY <3>1, <1>6 DEF Closed, Book, OwnCall
    <3>3. Cardinality(CrewCalls(s)) = made[s]
      BY <3>2, <1>11 DEF Book, SoloCounted
    <3>4. Cardinality(CrewCalls(s)') = Cardinality(CrewCalls(s)) + 1
      <4>1. CrewCalls(s)' = CrewCalls(s) \cup {i} /\ i \notin CrewCalls(s)
        BY <2>2, <1>8, <1>9
      <4>2. IsFiniteSet(CrewCalls(s))
        BY ClosedSizes
      <4>3. Cardinality(CrewCalls(s) \cup {i}) = Cardinality(CrewCalls(s)) + 1
        BY <4>1, <4>2, FS_AddElement
      <4> QED
        BY <4>1, <4>3
    <3> QED
      BY <3>3, <3>4, <2>2, <1>1, <1>4, McpAssumption DEF McpAssumption, Book, CountsTyped
  <2> QED
    BY <2>1, <2>2
<1>20. CachedMade' /\ CacheOfThisRun'
  BY <1>1, <1>2, <1>3 DEF Book, CachedMade, CacheOfThisRun, tracking
<1> QED
  BY <1>12, <1>13, <1>14, <1>15, <1>17, <1>18, <1>19, <1>20 DEF Book

\* The write-back closes the thread's call: one call more has ended under its
\* run state, and a result goes to that run state's cache.
LEMMA RecordWriteKeepsBook ==
    ASSUME IInv, Book, NEW r \in Runs, RecordWrite(r)
    PROVE  Book'
<1>0. PICK i, t : i = cur[r] /\ t = call[i].under
  OBVIOUS
<1>1. /\ crew[r] = "write" /\ made' = [made EXCEPT ![t] = seen[r] + 1]
      /\ cache' = IF call[i].got = "result"
                  THEN [cache EXCEPT ![t][call[i].key] = i] ELSE cache
      /\ crew' = [crew EXCEPT ![r] = "think"]
      /\ cur'  = [cur EXCEPT ![r] = 0]
      /\ seen' = [seen EXCEPT ![r] = 0]
      /\ UNCHANGED <<task, state, call, replies>>
  BY <1>0 DEF RecordWrite, Thinks, loop
<1>2. /\ i \in Calls /\ CrewCall(call[i]) /\ call[i].by = r
      /\ t \in Runs /\ call[i].key \in Keys
  BY <1>0, <1>1 DEF Book, OwnCall, Labelled, Using
<1>3. /\ crew'[r] = "think" /\ \A q \in Runs \ {r} : crew'[q] = crew[q]
      /\ \A q \in Runs \ {r} : cur'[q] = cur[q] /\ seen'[q] = seen[q]
      /\ made'[t] = seen[r] + 1 /\ \A s \in Runs \ {t} : made'[s] = made[s]
  BY <1>1, <1>2 DEF IInv, Typed, Book, CountsTyped
<1>4. \A s \in Runs : CrewCalls(s)' = CrewCalls(s) /\ (Solo(s)' <=> Solo(s))
  BY <1>1, NoneSame, SameSets
<1>5. \A q \in Runs \ {r} : (Using(q)' <=> Using(q)) /\ (Using(q) => cur[q] # i)
  BY <1>2, <1>3 DEF Using, Book, OwnCall
<1>6. Using(r) /\ ~Using(r)'
  BY <1>1, <1>3 DEF Using
<1>7. i \in CrewCalls(t) /\ \A s \in Runs \ {t} : i \notin CrewCalls(s)
  BY <1>0, <1>2 DEF CrewCalls, CrewCall
<1>8. /\ Closed(t)' = Closed(t) \cup {i} /\ i \notin Closed(t)
      /\ \A s \in Runs \ {t} : Closed(s)' = Closed(s)
  BY <1>0, <1>2, <1>3, <1>4, <1>5, <1>6, <1>7 DEF Closed
<1>9. /\ Cardinality(Closed(t) \cup {i}) = Cardinality(Closed(t)) + 1
      /\ Cardinality(Closed(t)) \in Nat
  BY <1>8, ClosedSizes, FS_AddElement, FS_CardinalityType
<1>10. seen[r] \in Nat /\ seen[r] <= Cardinality(Closed(t))
  BY <1>0, <1>1, <1>2 DEF Book, CountsTyped, Counted
<1>11. CountsTyped'
  <2>1. made' \in [Runs -> Nat] /\ seen' \in [Runs -> Nat] /\ replies' \in 0..MaxReplies
    <3>1. seen[r] + 1 \in Nat /\ seen \in [Runs -> Nat] /\ made \in [Runs -> Nat]
      BY <1>10 DEF Book, CountsTyped
    <3>2. made' \in [Runs -> Nat]
      BY <1>1, <3>1
    <3>3. seen' \in [Runs -> Nat]
      BY <1>1, <3>1
    <3> QED
      BY <1>1, <3>2, <3>3 DEF Book, CountsTyped
  <2>2. \A q \in Runs : crew'[q] # "write" => seen'[q] = 0
    BY <1>1, <1>3 DEF Book, CountsTyped
  <2>3. i \in 0..MaxCalls
    BY <1>2, McpAssumption DEF McpAssumption, Calls
  <2>4. cache' \in [Runs -> [Keys -> 0..MaxCalls]]
    BY <1>1, <2>3 DEF Book, CountsTyped
  <2> QED
    BY <2>1, <2>2, <2>4 DEF CountsTyped
<1>12. (OwnCall /\ Labelled)'
  BY <1>1, <1>3, <1>5, <1>6 DEF Book, OwnCall, Labelled
<1>13. Installed'
  BY <1>1, <1>3 DEF Book, Installed
<1>14. \A q \in Runs : crew'[q] = "write" => q # r /\ crew[q] = "write"
  BY <1>3
<1>15. Counted'
  <2> SUFFICES ASSUME NEW s \in Runs
               PROVE  (/\ made[s] <= Cardinality(Closed(s))
                       /\ \A q \in Runs : crew[q] = "write" /\ call[cur[q]].under = s
                                          => seen[q] <= Cardinality(Closed(s)))'
    BY DEF Counted
  <2>1. CASE s = t
    <3>1. \A q \in Runs : crew'[q] = "write" /\ call'[cur'[q]].under = t
                          => /\ seen'[q] <= Cardinality(Closed(t))
                             /\ seen'[q] \in Nat
      BY <1>1, <1>3, <1>14, <1>2 DEF Book, Counted, CountsTyped
    <3> QED
      BY <2>1, <3>1, <1>3, <1>8, <1>9, <1>10
  <2>2. CASE s # t
    BY <2>2, <1>1, <1>3, <1>8, <1>14 DEF Book, Counted
  <2> QED
    BY <2>1, <2>2
<1>16. SoloCounted'
  <2> SUFFICES ASSUME NEW s \in Runs, Solo(s)
               PROVE  (/\ made[s] = Cardinality(Closed(s))
                       /\ \A q \in Runs : crew[q] = "write" /\ call[cur[q]].under = s
                                          => seen[q] = made[s])'
    BY <1>4 DEF SoloCounted
  <2>1. CASE s = t
    <3>1. seen[r] = made[t] /\ made[t] = Cardinality(Closed(t))
      BY <2>1, <1>0, <1>1 DEF Book, SoloCounted
    <3>2. \A q \in Runs \ {r} : crew[q] = "write" => call[cur[q]].under # t
      <4> SUFFICES ASSUME NEW q \in Runs \ {r}, crew[q] = "write", call[cur[q]].under = t
                   PROVE  FALSE
        OBVIOUS
      <4>1. cur[q] \in CrewCalls(t) /\ call[cur[q]].by = q
        BY DEF Book, OwnCall, Using, CrewCalls, CrewCall
      <4> QED
        BY <4>1, <2>1, <1>2, <1>7 DEF Solo
    <3> QED
      BY <2>1, <3>1, <3>2, <1>1, <1>3, <1>8, <1>9, <1>14
  <2>2. CASE s # t
    BY <2>2, <1>1, <1>3, <1>8, <1>14 DEF Book, SoloCounted
  <2> QED
    BY <2>1, <2>2
<1>17. SoloBudget'
  BY <1>1, <1>4 DEF Book, SoloBudget, Solo
<1>18. \A s \in Runs, k \in Keys :
          \/ cache'[s][k] = cache[s][k]
          \/ s = t /\ k = call[i].key /\ cache'[s][k] = i /\ call[i].got = "result"
  BY <1>1, <1>2 DEF Book, CountsTyped
<1>19. call[i].got = "result" => call[i].answer = "result"
  BY <1>2, Before DEF OneAnswer
<1>20. CachedMade'
  BY <1>1, <1>2, <1>18 DEF Book, CachedMade
<1>21. CacheOfThisRun'
  <2> SUFFICES ASSUME NEW s \in Runs, NEW k \in Keys, cache'[s][k] # 0
               PROVE  /\ call[cache'[s][k]].under = s
                      /\ call[cache'[s][k]].key = k
                      /\ call[cache'[s][k]].answer = "result"
    BY <1>1 DEF CacheOfThisRun
  <2>1. CASE cache'[s][k] = cache[s][k]
    <3>1. CacheOfThisRun
      BY DEF Book
    <3> QED
      BY <2>1, <3>1 DEF CacheOfThisRun
  <2>2. CASE s = t /\ k = call[i].key /\ cache'[s][k] = i /\ call[i].got = "result"
    BY <2>2, <1>0, <1>19
  <2> QED
    BY <1>18, <2>1, <2>2
<1> QED
  BY <1>11, <1>12, <1>13, <1>15, <1>16, <1>17, <1>20, <1>21 DEF Book

\* Every step keeps the books.
LEMMA BookInductive ==
    IInv /\ Book /\ [Next]_vars => Book'
<1> SUFFICES ASSUME IInv, Book, [Next]_vars PROVE Book'
  OBVIOUS
<1>1. CASE UNCHANGED vars
  <2>1. UNCHANGED <<task, threads, tracking, call, loop>>
    BY <1>1 DEF vars
  <2>2. Installed'
    BY <2>1 DEF Book, Installed, threads, tracking
  <2> QED
    BY <2>1, <2>2, NoneSame, BookKept DEF threads, tracking, loop, Using, Book, CountsTyped
<1>2. ASSUME NEW r \in Runs, InTool(r) PROVE Book'
  BY <1>2, SyncKeepsBook, RecordWriteKeepsBook DEF InTool
<1>3. CASE Next
  BY <1>2, <1>3, TaskKeepsBook, BeginCallKeepsBook, LoopKeepsBook DEF Next
<1> QED
  BY <1>1, <1>3

\* _mcp_call's bookkeeping over every interleaving of the crew threads: the
\* counters count ended calls, never too many, and a crew alone none too few.
THEOREM Bookkeeping == Spec => []Book
<1>1. Init => Book
  BY BookInitially
<1>2. IInv /\ Book /\ [Next]_vars => Book'
  BY BookInductive
<1> QED
  BY <1>1, <1>2, McpInvariant, PTL DEF Spec

\* The variables of threads, run states, calls, table and loop have their
\* types; the counters stay below the number of calls, lost updates or not.
THEOREM McpTypes == Spec => []TypeOK
<1>1. IInv /\ Book => TypeOK
  <2> SUFFICES ASSUME IInv, Book PROVE TypeOK
    OBVIOUS
  <2>1. \A s \in Runs : made[s] \in 0..MaxCalls
    BY ClosedSizes, McpAssumption DEF McpAssumption, Book, CountsTyped, Counted
  <2>2. \A r \in Runs : seen[r] \in 0..MaxCalls
    <3> SUFFICES ASSUME NEW r \in Runs PROVE seen[r] \in 0..MaxCalls
      OBVIOUS
    <3>1. CASE crew[r] = "write"
      BY <3>1, ClosedSizes, McpAssumption
         DEF McpAssumption, Book, CountsTyped, Counted, OwnCall, Labelled, Using
    <3>2. CASE crew[r] # "write"
      BY <3>2, McpAssumption DEF McpAssumption, Book, CountsTyped
    <3> QED
      BY <3>1, <3>2
  <2>3. made \in [Runs -> 0..MaxCalls] /\ seen \in [Runs -> 0..MaxCalls]
    BY <2>1, <2>2 DEF Book, CountsTyped
  <2> QED
    BY <2>3 DEF TypeOK, IInv, Typed, CallRecord, Book, CountsTyped
<1> QED
  BY <1>1, McpInvariant, Bookkeeping, PTL

\* call_budget: a run state used by one crew only lets no more than Budget
\* calls through, those that failed or timed out included.
THEOREM Budgeted == Spec => []SoloBudget
<1>1. Book => SoloBudget
  BY DEF Book
<1> QED
  BY <1>1, Bookkeeping, PTL

\* dedup_cache: a result is stored in the run state its call was made under,
\* and under its own key, however many runs have passed since.
THEOREM CacheHonest == Spec => []CacheOfThisRun
<1>1. Book => CacheOfThisRun
  BY DEF Book
<1> QED
  BY <1>1, Bookkeeping, PTL

-----------------------------------------------------------------------------
(* Refinement *)

AbstractStep == Abstract!Next \/ UNCHANGED Abstract!vars

\* A step that changes what is seen of one call at most is one of ToolCalls'
\* actions on it.
LEMMA OneCallSeen ==
    ASSUME NEW i \in Calls,
           \A j \in Calls \ {i} : Seen(j)' = Seen(j) /\ call'[j].answer = call[j].answer,
           \/ Seen(i)' = Seen(i) /\ call'[i].answer = call[i].answer
           \/ /\ Seen(i) = "unmade" /\ Seen(i)' = "open"
              /\ call'[i].answer = call[i].answer
           \/ /\ Seen(i) = "open" /\ Seen(i)' = call[i].answer
              /\ call[i].answer # "none" /\ call'[i].answer = call[i].answer
           \/ /\ Seen(i) = "open" /\ Seen(i)' = "failed"
              /\ call'[i].answer = call[i].answer
           \/ /\ Seen(i)' = Seen(i) /\ Seen(i) # "unmade" /\ call[i].answer = "none"
              /\ call'[i].answer \in {"result", "error"}
    PROVE  AbstractStep
<1> DEFINE O == [j \in Calls |-> Seen(j)]
           A == [j \in Calls |-> call[j].answer]
<1>1. /\ O' = [O EXCEPT ![i] = Seen(i)'] /\ O[i] = Seen(i)
      /\ A' = [A EXCEPT ![i] = call'[i].answer] /\ A[i] = call[i].answer
  OBVIOUS
<1>2. (Seen(i)' = Seen(i) => O' = O) /\ (call'[i].answer = call[i].answer => A' = A)
  OBVIOUS
<1>3. CASE Seen(i)' = Seen(i) /\ call'[i].answer = call[i].answer
  BY <1>2, <1>3 DEF AbstractStep, Abstract!vars
<1>4. CASE Seen(i) = "unmade" /\ Seen(i)' = "open" /\ call'[i].answer = call[i].answer
  <2>1. Abstract!Make(i)
    BY <1>1, <1>2, <1>4 DEF Abstract!Make
  <2> QED
    BY <2>1 DEF AbstractStep, Abstract!Next
<1>5. CASE /\ Seen(i) = "open" /\ Seen(i)' = call[i].answer
           /\ call[i].answer # "none" /\ call'[i].answer = call[i].answer
  <2>1. Abstract!Answer(i)
    BY <1>1, <1>2, <1>5 DEF Abstract!Answer
  <2> QED
    BY <2>1 DEF AbstractStep, Abstract!Next
<1>6. CASE Seen(i) = "open" /\ Seen(i)' = "failed" /\ call'[i].answer = call[i].answer
  <2>1. Abstract!Fail(i)
    BY <1>1, <1>2, <1>6 DEF Abstract!Fail
  <2> QED
    BY <2>1 DEF AbstractStep, Abstract!Next
<1>7. CASE /\ Seen(i)' = Seen(i) /\ Seen(i) # "unmade" /\ call[i].answer = "none"
           /\ call'[i].answer \in {"result", "error"}
  <2>1. PICK a \in {"result", "error"} : call'[i].answer = a
    BY <1>7
  <2>2. Abstract!Reply(i, a)
    BY <1>1, <1>2, <1>7, <2>1 DEF Abstract!Reply
  <2> QED
    BY <2>2 DEF AbstractStep, Abstract!Next
<1> QED
  BY <1>3, <1>4, <1>5, <1>6, <1>7

\* A step that moves no call is a stutter of ToolCalls.
LEMMA NothingSeen ==
    ASSUME UNCHANGED call
    PROVE  AbstractStep
BY DEF AbstractStep, Abstract!vars, Seen

\* When one call moves the callers of the others see nothing.
LEMMA CallMoves ==
    ASSUME IInv, NEW i \in Calls, NEW d, call' = [call EXCEPT ![i] = d]
    PROVE  /\ call'[i] = d
           /\ \A j \in Calls \ {i} : Seen(j)' = Seen(j) /\ call'[j].answer = call[j].answer
BY DEF IInv, Typed, Seen
\* call_tool's end is seen by a task that awaited it, by nobody else yet.
LEMMA EndSeen ==
    ASSUME IInv, NEW i \in Calls, NEW o \in {"result", "error", "failed"},
           call' = [call EXCEPT ![i] = Ended(i, o)],
           Within(call[i]), o = "failed" \/ o = call[i].answer
    PROVE  AbstractStep
<1> DEFINE c == call[i]
           d == Ended(i, o)
<1>1. c \in CallRecord /\ (c.inline => c.got = "none")
  BY Before
<1>2. /\ d.co = "done" /\ d.answer = c.answer
      /\ d.got = (IF c.inline THEN o ELSE c.got)
  BY <1>1 DEF Ended, CallRecord
<1> HIDE DEF d
<1>3. call'[i] = d
      /\ \A j \in Calls \ {i} : Seen(j)' = Seen(j) /\ call'[j].answer = call[j].answer
  BY CallMoves DEF d
<1>4. Seen(i) = (IF c.got = "none" THEN "open" ELSE c.got)
  BY DEF Seen, Within
<1>5. Seen(i)' = (IF d.got = "none" THEN "open" ELSE d.got)
  BY <1>2, <1>3 DEF Seen
<1> QED
  BY <1>1, <1>2, <1>3, <1>4, <1>5, OneCallSeen

\* A cancelled coroutine is seen as a call that ends without an answer, or not at all.
LEMMA CancelledSeen ==
    ASSUME IInv, NEW i \in Calls, Within(call[i]), Cancelled(i)
    PROVE  AbstractStep
<1>1. call[i].fut \in {"result", "error"} => call[i].fut = call[i].answer
  BY Before DEF OneAnswer
<1>2. CASE call[i].co = "notifying"
  BY <1>2, EndSeen DEF Cancelled
<1>3. CASE call[i].co = "sending"
  BY <1>3, EndSeen DEF Cancelled, End
<1>4. CASE call[i].co = "waiting" /\ call[i].fut \in {"result", "error"}
  BY <1>1, <1>4, EndSeen DEF Cancelled, End
<1>5. CASE call[i].co = "waiting" /\ call[i].fut \notin {"result", "error"}
  BY <1>5, EndSeen DEF Cancelled, End
<1> QED
  BY <1>2, <1>3, <1>4, <1>5 DEF Within

\* A step inside call_tool that ends nothing.
LEMMA AdvanceSeen ==
    ASSUME IInv, NEW i \in Calls, NEW d, call' = [call EXCEPT ![i] = d],
           call[i].co # "idle", d.co # "idle",
           d.got = call[i].got, d.answer = call[i].answer
    PROVE  AbstractStep
<1>1. /\ call'[i] = d
      /\ \A j \in Calls \ {i} : Seen(j)' = Seen(j) /\ call'[j].answer = call[j].answer
  BY CallMoves
<1>2. Seen(i)' = Seen(i)
  BY <1>1 DEF Seen
<1> QED
  BY <1>1, <1>2, OneCallSeen

\* A coroutine's step is seen as a call that ends, or not at all.
LEMMA CoroutineSeen ==
    ASSUME IInv, NEW i \in Calls, Coroutine(i)
    PROVE  AbstractStep
<1>0. call[i] \in CallRecord
  BY Before
<1>1. CASE CallBegins(i)
  <2> DEFINE d == [call[i] EXCEPT !.co = "notifying"]
  <2>1. d.co = "notifying" /\ d.got = call[i].got /\ d.answer = call[i].answer
    BY <1>0 DEF CallRecord
  <2> QED
    BY <1>1, <2>1, AdvanceSeen DEF CallBegins
<1>2. CASE StartSending(i)
  <2> DEFINE d == [call[i] EXCEPT !.co = "sending", !.sent = TRUE]
  <2>1. d.co = "sending" /\ d.got = call[i].got /\ d.answer = call[i].answer
    BY <1>0 DEF CallRecord
  <2> QED
    BY <1>2, <2>1, AdvanceSeen DEF StartSending
<1>3. CASE StartWaiting(i)
  <2> DEFINE d == [call[i] EXCEPT !.co = "waiting"]
  <2>1. d.co = "waiting" /\ d.got = call[i].got /\ d.answer = call[i].answer
    BY <1>0 DEF CallRecord
  <2> QED
    BY <1>3, <2>1, AdvanceSeen DEF StartWaiting
<1>4. CASE TimerFires(i)
  <2> DEFINE d == [call[i] EXCEPT !.fut = "cancelled"]
  <2>1. d.co = call[i].co /\ d.got = call[i].got /\ d.answer = call[i].answer
    BY <1>0 DEF CallRecord
  <2> QED
    BY <1>4, <2>1, AdvanceSeen DEF TimerFires
<1>5. CASE SendFails(i)
  BY <1>5, EndSeen DEF SendFails, End, Within
<1>6. CASE TimesOut(i)
  BY <1>6, EndSeen DEF TimesOut, End, Within
<1>7. CASE Answered(i)
  <2>1. call[i].fut \in {"result", "error"} /\ call[i].fut = call[i].answer
    BY <1>7, Before DEF Answered, OneAnswer
  <2> QED
    BY <1>7, <2>1, EndSeen DEF Answered, End, Within
<1>8. CASE CancelDelivered(i)
  BY <1>8, Before, CancelledSeen DEF CancelDelivered
<1> QED
  BY <1>1, <1>2, <1>3, <1>4, <1>5, <1>6, <1>7, <1>8 DEF Coroutine

\* A call that is made is seen as one that opens.
LEMMA MakeSeen ==
    ASSUME IInv, NEW r \in Runs, NEW i \in Calls,
           TaskCall(r, i) \/ \E k \in Keys : BeginCall(r, k, i)
    PROVE  AbstractStep
<1>1. call[i] = Unmade
  BY Before DEF TaskCall, BeginCall, Fresh
<1>2. PICK d : /\ call' = [call EXCEPT ![i] = d]
               /\ d.co # "idle" /\ d.got = "none" /\ d.answer = "none"
  <2>1. CASE TaskCall(r, i)
    <3> DEFINE d == [Unmade EXCEPT !.co = "notifying", !.by = r, !.inline = TRUE]
    <3>1. d.co = "notifying" /\ d.got = "none" /\ d.answer = "none"
      BY DEF Unmade
    <3> QED
      BY <2>1, <3>1 DEF TaskCall
  <2>2. ASSUME NEW k \in Keys, BeginCall(r, k, i)
        PROVE  \E d : /\ call' = [call EXCEPT ![i] = d]
                      /\ d.co # "idle" /\ d.got = "none" /\ d.answer = "none"
    <3> DEFINE d == [Unmade EXCEPT !.co = "scheduled", !.by = r,
                                   !.under = state, !.key = k]
    <3>1. d.co = "scheduled" /\ d.got = "none" /\ d.answer = "none"
      BY DEF Unmade
    <3> QED
      BY <2>2, <3>1 DEF BeginCall
  <2> QED
    BY <2>1, <2>2
<1>3. /\ call'[i] = d
      /\ \A j \in Calls \ {i} : Seen(j)' = Seen(j) /\ call'[j].answer = call[j].answer
  BY <1>2, CallMoves
<1>4. Seen(i) = "unmade" /\ Seen(i)' = "open" /\ call'[i].answer = call[i].answer
  BY <1>1, <1>2, <1>3 DEF Seen, Unmade
<1> QED
  BY <1>3, <1>4, OneCallSeen

\* The thread is told: what the coroutine left, or its own timeout.
LEMMA SyncSeen ==
    ASSUME IInv, NEW r \in Runs, SyncReturns(r) \/ SyncTimeout(r)
    PROVE  AbstractStep
<1>0. PICK i \in Calls : i = cur[r]
  BY Waiting DEF SyncReturns, SyncTimeout
<1>1. i \in Calls /\ call[i].co # "idle" /\ call[i].got = "none"
  BY <1>0, Waiting DEF SyncReturns, SyncTimeout
<1>2. call[i] \in CallRecord /\ OneAnswer(call[i]) /\ Seen(i) = "open"
  BY <1>1, Before DEF Seen
<1>3. CASE SyncReturns(r)
  <2> DEFINE d == [call[i] EXCEPT !.got = call[i].out]
  <2>1. d.got = call[i].out /\ d.answer = call[i].answer /\ d.co = call[i].co
    BY <1>2 DEF CallRecord
  <2>2. call[i].out = "failed"
        \/ (call[i].out = call[i].answer /\ call[i].answer # "none")
    BY <1>0, <1>1, <1>2, <1>3 DEF SyncReturns, OneAnswer, CallRecord
  <2>3. call' = [call EXCEPT ![i] = d]
    BY <1>0, <1>3 DEF SyncReturns
  <2> HIDE DEF d
  <2>4. /\ call'[i] = d
        /\ \A j \in Calls \ {i} : Seen(j)' = Seen(j) /\ call'[j].answer = call[j].answer
    BY <1>1, <2>3, CallMoves
  <2>5. Seen(i)' = call[i].out
    BY <1>1, <2>1, <2>2, <2>4 DEF Seen
  <2> QED
    BY <1>1, <1>2, <2>1, <2>2, <2>4, <2>5, OneCallSeen
<1>4. CASE SyncTimeout(r)
  <2> DEFINE d == [call[i] EXCEPT !.got = "failed", !.cancel = TRUE]
  <2>1. d.got = "failed" /\ d.answer = call[i].answer /\ d.co = call[i].co
    BY <1>2 DEF CallRecord
  <2>3. call' = [call EXCEPT ![i] = d]
    BY <1>0, <1>4 DEF SyncTimeout
  <2> HIDE DEF d
  <2>4. /\ call'[i] = d
        /\ \A j \in Calls \ {i} : Seen(j)' = Seen(j) /\ call'[j].answer = call[j].answer
    BY <1>1, <2>3, CallMoves
  <2>5. Seen(i)' = "failed"
    BY <1>1, <2>1, <2>4 DEF Seen
  <2> QED
    BY <1>1, <1>2, <2>1, <2>4, <2>5, OneCallSeen
<1> QED
  BY <1>3, <1>4

\* A response is seen when it comes, not when it is handed over.
LEMMA ResponseSeen ==
    ASSUME IInv, NEW i \in Calls, NEW a \in {"result", "error"}, HandleResponse(i, a)
    PROVE  AbstractStep
<1>1. CASE ~(i \in pending /\ call[i].fut = "open")
  BY <1>1, NothingSeen DEF HandleResponse
<1>2. CASE i \in pending /\ call[i].fut = "open"
  <2> DEFINE x == IF call[i].answer = "none" THEN a ELSE call[i].answer
             d == [call[i] EXCEPT !.answer = x]
  <2>1. call' = [call EXCEPT ![i] = d]
    BY <1>2 DEF HandleResponse
  <2>2. d.answer = x /\ d.co = call[i].co /\ d.got = call[i].got
    BY Before DEF CallRecord
  <2>3. call[i].co # "idle"
    BY Before DEF HandleResponse, Unmade
  <2>4. (call[i].answer # "none" => x = call[i].answer)
        /\ (call[i].answer = "none" => x = a)
    OBVIOUS
  <2> HIDE DEF d, x
  <2>5. /\ call'[i] = d
        /\ \A j \in Calls \ {i} : Seen(j)' = Seen(j) /\ call'[j].answer = call[j].answer
    BY <2>1, CallMoves
  <2>6. Seen(i)' = Seen(i)
    BY <2>2, <2>5 DEF Seen
  <2>7. Seen(i) # "unmade"
    BY <2>3, Before DEF Seen, CallRecord
  <2> QED
    BY <2>2, <2>4, <2>5, <2>6, <2>7, OneCallSeen
<1> QED
  BY <1>1, <1>2

\* A callback is not seen.
LEMMA CallbackSeen ==
    ASSUME IInv, SetFuture
    PROVE  AbstractStep
<1> DEFINE i == Head(soon)[1]
           x == IF call[i].fut = "open" THEN Head(soon)[2] ELSE call[i].fut
           d == [call[i] EXCEPT !.fut = x]
<1>1. call' = [call EXCEPT ![i] = d]
  BY DEF SetFuture
<1>2. i \in Calls /\ call[i].answer # "none"
  <2>1. 1 \in 1..Len(soon) /\ Head(soon) = soon[1] /\ soon[1] \in Calls \X {"result", "error"}
    BY DEF IInv, Typed, SetFuture
  <2> QED
    BY <2>1 DEF IInv, QueueInOrder
<1>3. d.co = call[i].co /\ d.got = call[i].got /\ d.answer = call[i].answer
  BY <1>2, Before DEF CallRecord
<1>4. call[i].co # "idle"
  BY <1>2, Before DEF Unmade
<1> HIDE DEF d, i
<1> QED
  BY <1>1, <1>2, <1>3, <1>4, AdvanceSeen

\* Every step is one of ToolCalls, or a stutter.
LEMMA StepRefines ==
    IInv /\ [Next]_vars => AbstractStep
<1> SUFFICES ASSUME IInv, [Next]_vars PROVE AbstractStep
  OBVIOUS
<1>1. CASE UNCHANGED call
  BY <1>1, NothingSeen
<1>2. ASSUME NEW r \in Runs, RunAborts(r) PROVE AbstractStep
  <2>1. CASE UNCHANGED call
    BY <2>1, NothingSeen
  <2>2. ASSUME NEW i \in OpenInline(r), Cancelled(i) PROVE AbstractStep
    BY <2>2, Before, CancelledSeen DEF OpenInline
  <2> QED
    BY <1>2, <2>1, <2>2 DEF RunAborts
<1>3. ASSUME NEW r \in Runs,
             StartRun(r) \/ BuildCrew(r) \/ RunEnds(r) \/ CrewReturns(r)
             \/ RecordRead(r) \/ RecordWrite(r)
      PROVE  UNCHANGED call
  BY <1>3 DEF StartRun, BuildCrew, RunEnds, CrewReturns, RecordRead, RecordWrite
<1>4. ASSUME NEW r \in Runs, InTool(r) PROVE AbstractStep
  BY <1>1, <1>3, <1>4, SyncSeen DEF InTool
<1>5. CASE Next
  BY <1>1, <1>2, <1>3, <1>4, <1>5, MakeSeen, CoroutineSeen, ResponseSeen, CallbackSeen
     DEF Next
<1>6. CASE UNCHANGED vars
  BY <1>1, <1>6 DEF vars
<1> QED
  BY <1>5, <1>6

\* call_sync, call_tool and handle_response together keep the promise of
\* ToolCalls: one outcome per call, and an answer is the first response.
THEOREM Implements == Spec => ToolCallsImplemented
<1>1. Init => Abstract!Init
  <2> SUFFICES ASSUME Init PROVE Abstract!Init
    OBVIOUS
  <2>1. \A i \in Calls : call[i].answer = "none" /\ Seen(i) = "unmade"
    BY DEF Init, Unmade, Seen
  <2> QED
    BY <2>1 DEF Abstract!Init
<1>2. IInv /\ [Next]_vars => [Abstract!Next]_Abstract!vars
  BY StepRefines DEF AbstractStep
<1> QED
  BY <1>1, <1>2, McpInvariant, PTL DEF Spec, ToolCallsImplemented, Abstract!Spec
=============================================================================
