------------------------ MODULE ConversationRegistry ------------------------
(***************************************************************************)
(* The endpoint coroutines of ONE conversation: the process-wide registry  *)
(* _connections (one key of it), the reconnect path that evicts the prior  *)
(* connection, the receive loop, and the pipeline task each connection     *)
(* owns.  alfred/api/websocket/connection.py, websocket_endpoint.          *)
(*                                                                         *)
(* A step is the code between two awaits of one coroutine.  A crew is the  *)
(* thread crew.kickoff() runs in: the event loop can drop the await, it    *)
(* cannot stop the thread.                                                 *)
(***************************************************************************)
EXTENDS Naturals, FiniteSets

CONSTANTS Conns,            \* the connection attempts of the conversation
          NoConn,           \* "no entry" of the registry dict
          MaxPrompts,       \* bound: prompts the client sends, over all connections
          SerialHandshakes  \* TRUE: a client reconnects only when no other
                            \* takeover is in progress

ASSUME RegistryAssumption ==
    /\ NoConn \notin Conns
    /\ MaxPrompts \in Nat
    /\ SerialHandshakes \in BOOLEAN

VARIABLES registry,  \* _connections[conversation_id], or NoConn
          pc,        \* where each endpoint coroutine is
          old,       \* old_conn: the entry this endpoint popped
          ws,        \* the socket of each connection
          pipe,      \* conn.active_pipeline: the pipeline task
          zombies,   \* number of crew threads nobody awaits any more
          prompts    \* prompts received so far

vars == <<registry, pc, old, ws, pipe, zombies, prompts>>

Installed == {"greeting", "live", "admitting", "unregistered", "draining", "gone"}
PCs       == Installed \cup {"handshake", "sentinel", "closing", "rejected"}
InLoop(c) == pc[c] \in {"live", "admitting"}
TakingOver(c) == pc[c] \in {"sentinel", "closing", "greeting"}
Evicted(c) == \E e \in Conns : old[e] = c

Init ==
    /\ registry = NoConn
    /\ pc = [c \in Conns |-> "handshake"]
    /\ old = [c \in Conns |-> NoConn]
    /\ ws = [c \in Conns |-> "open"]
    /\ pipe = [c \in Conns |-> "idle"]
    /\ zombies = 0
    /\ prompts = 0

Goto(c, l) == pc' = [pc EXCEPT ![c] = l]

-----------------------------------------------------------------------------
\* Task.cancel(): the next await of the task raises.  A task awaiting
\* run_in_executor(crew.kickoff) abandons the thread; a finished one ignores it.
CancelTask(c) ==
    /\ pipe' = [pipe EXCEPT ![c] = IF @ = "idle" THEN @ ELSE "ending"]
    /\ zombies' = IF pipe[c] = "crew" THEN zombies + 1 ELSE zombies

CancelNothing == UNCHANGED <<pipe, zombies>>

-----------------------------------------------------------------------------
\* The client leaves at any time (before its handshake: RejectHandshake).
Disconnect(c) ==
    /\ ws[c] = "open"
    /\ pc[c] # "handshake"
    /\ ws' = [ws EXCEPT ![c] = "closed"]
    /\ UNCHANGED <<registry, pc, old, pipe, zombies, prompts>>

\* _authenticate_handshake returned None: no key, bad JWT, bad URL, timeout.
RejectHandshake(c) ==
    /\ pc[c] = "handshake"
    /\ Goto(c, "rejected")
    /\ ws' = [ws EXCEPT ![c] = "closed"]
    /\ UNCHANGED <<registry, old, pipe, zombies, prompts>>

MayAuthenticate(c) ==
    /\ pc[c] = "handshake"
    /\ SerialHandshakes => \A d \in Conns : ~TakingOver(d)

\* _connections.pop() found nothing: install at once, no await in between.
InstallFirst(c) ==
    /\ MayAuthenticate(c)
    /\ registry = NoConn
    /\ registry' = c
    /\ Goto(c, "greeting")
    /\ UNCHANGED <<old, ws, pipe, zombies, prompts>>

\* The same with dict.get instead of dict.pop.
PopPriorByGet(c) ==
    /\ MayAuthenticate(c)
    /\ registry # NoConn
    /\ old' = [old EXCEPT ![c] = registry]
    /\ UNCHANGED registry
    /\ \/ Goto(c, "sentinel") /\ CancelNothing
       \/ Goto(c, "closing") /\ CancelTask(registry)
    /\ UNCHANGED <<ws, prompts>>

\* old_conn = _connections.pop(...): a prior connection with a store gets the
\* run_evicted sentinel first, one without (no Redis) is cancelled in this step.
PopPrior(c) ==
    /\ MayAuthenticate(c)
    /\ registry # NoConn
    /\ old' = [old EXCEPT ![c] = registry]
    /\ registry' = NoConn
    /\ \/ Goto(c, "sentinel") /\ CancelNothing
       \/ Goto(c, "closing") /\ CancelTask(registry)
    /\ UNCHANGED <<ws, prompts>>

\* push_event answered or failed (best effort): cancel the prior pipeline and
\* start closing its socket.
CancelPrior(c) ==
    /\ pc[c] = "sentinel"
    /\ CancelTask(old[c])
    /\ Goto(c, "closing")
    /\ UNCHANGED <<registry, old, ws, prompts>>

\* close(4005) returned or failed (the socket was gone): install.  Whatever
\* entry appeared during the awaits is overwritten.
InstallSuccessor(c) ==
    /\ pc[c] = "closing"
    /\ ws' = [ws EXCEPT ![old[c]] = "closed"]
    /\ registry' = c
    /\ Goto(c, "greeting")
    /\ UNCHANGED <<old, pipe, zombies, prompts>>

\* send_json(auth_success), then the heartbeat and the receive loop.
Greet(c) ==
    /\ pc[c] = "greeting"
    /\ Goto(c, "live")
    /\ UNCHANGED <<registry, old, ws, pipe, zombies, prompts>>

\* The greeting fails on a socket already gone: it stands before the try, so
\* no finally runs and the entry stays.
GreetFails(c) ==
    /\ pc[c] = "greeting"
    /\ ws[c] = "closed"
    /\ Goto(c, "gone")
    /\ UNCHANGED <<registry, old, ws, pipe, zombies, prompts>>

-----------------------------------------------------------------------------
\* receive_text() returned a prompt; check_rate_limit is awaited next.
ReceivePrompt(c) ==
    /\ pc[c] = "live"
    /\ ws[c] = "open"
    /\ prompts < MaxPrompts
    /\ prompts' = prompts + 1
    /\ Goto(c, "admitting")
    /\ UNCHANGED <<registry, old, ws, pipe, zombies>>

\* No running pipeline: spawn one.
SpawnPipeline(c) ==
    /\ pc[c] = "admitting"
    /\ pipe[c] = "idle"
    /\ pipe' = [pipe EXCEPT ![c] = "phases"]
    /\ Goto(c, "live")
    /\ UNCHANGED <<registry, old, ws, zombies, prompts>>

\* RATE_LIMIT, SHUTTING_DOWN, PIPELINE_BUSY, or an empty prompt.
RefusePrompt(c) ==
    /\ pc[c] = "admitting"
    /\ Goto(c, "live")
    /\ UNCHANGED <<registry, old, ws, pipe, zombies, prompts>>

\* The pipeline task: phases, and the crew thread it awaits.
StartCrew(c) ==
    /\ pipe[c] = "phases"
    /\ pipe' = [pipe EXCEPT ![c] = "crew"]
    /\ UNCHANGED <<registry, pc, old, ws, zombies, prompts>>

CrewReturns(c) ==
    /\ pipe[c] = "crew"
    /\ pipe' = [pipe EXCEPT ![c] = "phases"]
    /\ UNCHANGED <<registry, pc, old, ws, zombies, prompts>>

\* asyncio.wait_for gives up: PIPELINE_TIMEOUT, and the thread runs on.
CrewTimesOut(c) ==
    /\ pipe[c] = "crew"
    /\ pipe' = [pipe EXCEPT ![c] = "ending"]
    /\ zombies' = zombies + 1
    /\ UNCHANGED <<registry, pc, old, ws, prompts>>

PipelineEnds(c) ==
    /\ pipe[c] \in {"phases", "ending"}
    /\ pipe' = [pipe EXCEPT ![c] = "idle"]
    /\ UNCHANGED <<registry, pc, old, ws, zombies, prompts>>

\* An abandoned kickoff() returns to nobody.
AbandonedCrewReturns ==
    /\ zombies > 0
    /\ zombies' = zombies - 1
    /\ UNCHANGED <<registry, pc, old, ws, pipe, prompts>>

-----------------------------------------------------------------------------
\* The receive loop ends, on a disconnect or on an exception of a handler; the
\* finally pops the conversation's entry, whoever it names.
LeaveLoop(c) ==
    /\ \/ pc[c] = "live" /\ ws[c] = "closed"
       \/ pc[c] = "admitting"
    /\ registry' = NoConn
    /\ Goto(c, "unregistered")
    /\ ws' = [ws EXCEPT ![c] = "closed"]
    /\ UNCHANGED <<old, pipe, zombies, prompts>>

\* The finally without the pipeline's cancellation.
LeavePipelineRunning(c) ==
    /\ pc[c] = "unregistered"
    /\ Goto(c, "gone")
    /\ UNCHANGED <<registry, old, ws, pipe, zombies, prompts>>

\* The heartbeat is gone: cancel the own pipeline.
CancelOwn(c) ==
    /\ pc[c] = "unregistered"
    /\ CancelTask(c)
    /\ Goto(c, "draining")
    /\ UNCHANGED <<registry, old, ws, prompts>>

\* await conn.active_pipeline returned.
Drained(c) ==
    /\ pc[c] = "draining"
    /\ pipe[c] = "idle"
    /\ Goto(c, "gone")
    /\ UNCHANGED <<registry, old, ws, pipe, zombies, prompts>>

-----------------------------------------------------------------------------
Client(c)   == Disconnect(c) \/ ReceivePrompt(c)
Takeover(c) == \/ RejectHandshake(c) \/ InstallFirst(c) \/ PopPrior(c)
               \/ CancelPrior(c) \/ InstallSuccessor(c)
               \/ Greet(c) \/ GreetFails(c)
Serve(c)    == SpawnPipeline(c) \/ RefusePrompt(c)
Crew(c)     == StartCrew(c) \/ CrewReturns(c) \/ CrewTimesOut(c)
               \/ PipelineEnds(c)
Cleanup(c)  == LeaveLoop(c) \/ CancelOwn(c) \/ Drained(c)

Next ==
    \/ \E c \in Conns : Client(c) \/ Takeover(c) \/ Serve(c) \/ Crew(c) \/ Cleanup(c)
    \/ AbandonedCrewReturns

Spec == Init /\ [][Next]_vars

\* What asyncio guarantees: a coroutine whose await is over is resumed, and a
\* cancelled task ends.  Nothing is assumed of the client or of a crew.
Fairness == \A c \in Conns :
    /\ WF_vars(CancelPrior(c))
    /\ WF_vars(InstallSuccessor(c))
    /\ WF_vars(Greet(c) \/ GreetFails(c))
    /\ WF_vars(Serve(c))
    /\ WF_vars(Cleanup(c))
    /\ WF_vars(pipe[c] = "ending" /\ PipelineEnds(c))

FairSpec == Spec /\ Fairness

-----------------------------------------------------------------------------
TypeOK ==
    /\ registry \in Conns \cup {NoConn}
    /\ pc \in [Conns -> PCs]
    /\ old \in [Conns -> Conns \cup {NoConn}]
    /\ ws \in [Conns -> {"open", "closed"}]
    /\ pipe \in [Conns -> {"idle", "phases", "crew", "ending"}]
    /\ zombies \in Nat
    /\ prompts \in 0..MaxPrompts

\* A connection is evicted by at most one reconnect: one sentinel, one cancel
\* and one close(4005) per eviction (lines 728-781).
OneEvictor == \A e, f \in Conns :
    old[e] # NoConn /\ old[e] = old[f] => e = f

\* A connection that a reconnect popped never comes back into the registry,
\* whatever the awaits of the two coroutines interleave with (lines 728-783).
EvictedStaysOut == \A c \in Conns : Evicted(c) => registry # c

\* When the reconnecting client is greeted, the connection it replaced has been
\* closed, so that its receive loop can only end (lines 773-785).
EvictedSocketClosed == \A e \in Conns :
    old[e] # NoConn /\ pc[e] \in Installed => ws[old[e]] = "closed"

\* What a reconnect promises of the connection it replaces: out of the registry for
\* good, and shut before the successor is greeted (lines 728-785).
EvictionIsFinal == EvictedStaysOut /\ EvictedSocketClosed

\* The registry names a dead endpoint only when its greeting failed: that send
\* stands outside the try whose finally removes the entry (lines 783-822).
StaleEntryOnlyFromGreeting == \A c \in Conns :
    registry = c /\ pc[c] \in {"unregistered", "draining", "gone"}
        => pc[c] = "gone" /\ pipe[c] = "idle"

\* A pipeline does not outlive its connection: once the socket is closed, by the
\* client or by an eviction, its task ends and no other starts (lines 821-837).
ClosedSocketStopsPipeline == \A c \in Conns :
    [](ws[c] = "closed" => <>[](pipe[c] = "idle"))

\* Of the connections of one conversation at most one is served: the others
\* were evicted and their sockets closed (comment at lines 720-727).
OneOpenSession == \A c, d \in Conns :
    InLoop(c) /\ ws[c] = "open" /\ InLoop(d) /\ ws[d] = "open" => c = d

=============================================================================
