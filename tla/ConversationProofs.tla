--------------------------- MODULE ConversationProofs ---------------------------
(***************************************************************************)
(* Safety of a conversation, for any number of its connections, prompts    *)
(* and crews.                                                              *)
(*                                                                         *)
(* Its connections (ConversationRegistry), whether or not takeovers        *)
(* overlap: the registry names only a connection that has installed        *)
(* itself, and an evicted one has installed itself before it was popped,   *)
(* so a takeover in progress cannot be evicted and what was evicted cannot *)
(* be installed again.                                                     *)
(*                                                                         *)
(* Its crews (CrewTasks), for any size of the pool and number of faults:   *)
(* a run begins only when those before it have ended, so that no kickoff   *)
(* waits when it does; and from then on the outputs it will be given are   *)
(* its own, as its tasks and the condenser leave them.                     *)
(***************************************************************************)
EXTENDS ConversationRegistry, CrewTasks, FiniteSetTheorems, SequenceTheorems, TLAPS

(***************************************************************************)
(* The connections                                                         *)
(***************************************************************************)

EntryInstalled == \A c \in Conns : registry = c => pc[c] \in Installed
EvictedInstalled == \A e, c \in Conns : old[e] = c => pc[c] \in Installed

\* An endpoint holds the connection it popped from the pop on.
HoldsPrior == \A e \in Conns :
    /\ pc[e] \in {"handshake", "rejected"} => old[e] = NoConn
    /\ pc[e] \in {"sentinel", "closing"} => old[e] # NoConn

\* Only an endpoint in or after its receive loop, and not yet past its cleanup,
\* owns a running pipeline.
PipelineOwned == \A c \in Conns :
    pc[c] \notin {"live", "admitting", "unregistered", "draining"} => pipe[c] = "idle"

Unlisted == \A c \in Conns : pc[c] \in {"unregistered", "draining"} => registry # c

RegInv ==
    /\ TypeOK
    /\ EntryInstalled
    /\ EvictedInstalled
    /\ EvictedStaysOut
    /\ OneEvictor
    /\ HoldsPrior
    /\ EvictedSocketClosed
    /\ PipelineOwned
    /\ Unlisted

-----------------------------------------------------------------------------
\* No entry, no connection, no pipeline at the start.
LEMMA RegInvInit == Init => RegInv
BY RegistryAssumption
   DEF RegistryAssumption, Init, RegInv, TypeOK, EntryInstalled, EvictedInstalled,
       EvictedStaysOut, Evicted, OneEvictor, HoldsPrior, EvictedSocketClosed,
       PipelineOwned, Unlisted, Installed, PCs

\* Cancelling a task leaves an idle one idle, and nothing else can be running.
LEMMA CancelKeepsTypes ==
    ASSUME TypeOK, NEW c \in Conns, CancelTask(c)
    PROVE  /\ pipe' \in [Conns -> {"idle", "phases", "crew", "ending"}]
           /\ zombies' \in Nat
           /\ \A d \in Conns : pipe[d] = "idle" => pipe'[d] = "idle"
BY DEF TypeOK, CancelTask

\* The steps of the client, the pipeline and the crew.
LEMMA RegInvServe ==
    ASSUME RegInv, NEW c \in Conns, Client(c) \/ Serve(c) \/ Crew(c)
    PROVE  RegInv'
<1> USE RegistryAssumption DEF RegistryAssumption, RegInv, TypeOK, EntryInstalled,
        EvictedInstalled, EvictedStaysOut, Evicted, OneEvictor, HoldsPrior,
        EvictedSocketClosed, PipelineOwned, Unlisted, Installed, PCs, Goto
<1>1. CASE Disconnect(c)
      BY <1>1 DEF Disconnect
<1>2. CASE ReceivePrompt(c)
      BY <1>2 DEF ReceivePrompt
<1>3. CASE SpawnPipeline(c)
      BY <1>3 DEF SpawnPipeline
<1>4. CASE RefusePrompt(c)
      BY <1>4 DEF RefusePrompt
<1>5. CASE StartCrew(c)
      BY <1>5 DEF StartCrew
<1>6. CASE CrewReturns(c)
      BY <1>6 DEF CrewReturns
<1>7. CASE CrewTimesOut(c)
      BY <1>7 DEF CrewTimesOut
<1>8. CASE PipelineEnds(c)
      BY <1>8 DEF PipelineEnds
<1> QED BY <1>1, <1>2, <1>3, <1>4, <1>5, <1>6, <1>7, <1>8 DEF Client, Serve, Crew

\* The steps of a takeover.
LEMMA RegInvTakeover ==
    ASSUME RegInv, NEW c \in Conns, Takeover(c)
    PROVE  RegInv'
<1> USE RegistryAssumption DEF RegistryAssumption, RegInv, TypeOK, EntryInstalled,
        EvictedInstalled, EvictedStaysOut, Evicted, OneEvictor, HoldsPrior,
        EvictedSocketClosed, PipelineOwned, Unlisted, Installed, PCs, Goto
<1>1. CASE RejectHandshake(c)
      BY <1>1 DEF RejectHandshake
<1>2. CASE InstallFirst(c)
      BY <1>2 DEF InstallFirst, MayAuthenticate
<1>3. CASE PopPrior(c)
  <2>1. registry \in Conns /\ \A e \in Conns : old[e] # registry
        BY <1>3 DEF PopPrior
  <2>2. /\ pipe' \in [Conns -> {"idle", "phases", "crew", "ending"}]
        /\ zombies' \in Nat
        /\ \A d \in Conns : pipe[d] = "idle" => pipe'[d] = "idle"
        BY <1>3, <2>1, CancelKeepsTypes DEF PopPrior, CancelNothing
  <2>3. TypeOK'
        BY <1>3, <2>1, <2>2, ZenonT(30) DEF PopPrior, MayAuthenticate
  <2>4. PipelineOwned' /\ HoldsPrior' /\ Unlisted'
        BY <1>3, <2>1, <2>2 DEF PopPrior, MayAuthenticate
  <2>5. EntryInstalled' /\ EvictedInstalled' /\ EvictedStaysOut' /\ OneEvictor'
        BY <1>3, <2>1, <2>2 DEF PopPrior, MayAuthenticate
  <2>6. EvictedSocketClosed'
        BY <1>3, <2>1, <2>2 DEF PopPrior, MayAuthenticate
  <2> QED BY <2>3, <2>4, <2>5, <2>6
<1>4. CASE CancelPrior(c)
  <2>1. old[c] \in Conns
        BY <1>4 DEF CancelPrior
  <2>2. /\ pipe' \in [Conns -> {"idle", "phases", "crew", "ending"}]
        /\ zombies' \in Nat
        /\ \A d \in Conns : pipe[d] = "idle" => pipe'[d] = "idle"
        BY <1>4, <2>1, CancelKeepsTypes DEF CancelPrior
  <2>3. TypeOK'
        BY <1>4, <2>1, <2>2 DEF CancelPrior
  <2>4. PipelineOwned' /\ HoldsPrior' /\ Unlisted'
        BY <1>4, <2>1, <2>2 DEF CancelPrior
  <2>5. EntryInstalled' /\ EvictedInstalled' /\ EvictedStaysOut' /\ OneEvictor'
        BY <1>4, <2>1, <2>2 DEF CancelPrior
  <2>6. EvictedSocketClosed'
        BY <1>4, <2>1, <2>2 DEF CancelPrior
  <2> QED BY <2>3, <2>4, <2>5, <2>6
<1>5. CASE InstallSuccessor(c)
      BY <1>5 DEF InstallSuccessor
<1>6. CASE Greet(c)
      BY <1>6 DEF Greet
<1>7. CASE GreetFails(c)
      BY <1>7 DEF GreetFails
<1> QED BY <1>1, <1>2, <1>3, <1>4, <1>5, <1>6, <1>7 DEF Takeover

\* The steps of the finally: it may remove an entry, never add one.
LEMMA RegInvCleanup ==
    ASSUME RegInv, NEW c \in Conns, Cleanup(c)
    PROVE  RegInv'
<1> USE RegistryAssumption DEF RegistryAssumption, RegInv, TypeOK, EntryInstalled,
        EvictedInstalled, EvictedStaysOut, Evicted, OneEvictor, HoldsPrior,
        EvictedSocketClosed, PipelineOwned, Unlisted, Installed, PCs, Goto
<1>1. CASE LeaveLoop(c)
      BY <1>1 DEF LeaveLoop
<1>2. CASE CancelOwn(c)
  <2>1. /\ pipe' \in [Conns -> {"idle", "phases", "crew", "ending"}]
        /\ zombies' \in Nat
        /\ \A d \in Conns : pipe[d] = "idle" => pipe'[d] = "idle"
        BY <1>2, CancelKeepsTypes DEF CancelOwn
  <2>3. TypeOK'
        BY <1>2, <2>1 DEF CancelOwn
  <2>4. PipelineOwned' /\ HoldsPrior' /\ Unlisted'
        BY <1>2, <2>1 DEF CancelOwn
  <2>5. EntryInstalled' /\ EvictedInstalled' /\ EvictedStaysOut' /\ OneEvictor'
        BY <1>2, <2>1 DEF CancelOwn
  <2>6. EvictedSocketClosed'
        BY <1>2, <2>1 DEF CancelOwn
  <2> QED BY <2>3, <2>4, <2>5, <2>6
<1>3. CASE Drained(c)
      BY <1>3 DEF Drained
<1> QED BY <1>1, <1>2, <1>3 DEF Cleanup

\* The invariant holds in every reachable state.
THEOREM RegInvariant == Spec => []RegInv
<1>1. RegInv /\ [Next]_vars => RegInv'
  <2> SUFFICES ASSUME RegInv, [Next]_vars PROVE RegInv'
      OBVIOUS
  <2>1. CASE \E c \in Conns : Client(c) \/ Takeover(c) \/ Serve(c) \/ Crew(c) \/ Cleanup(c)
        BY <2>1, RegInvServe, RegInvTakeover, RegInvCleanup
  <2>2. CASE AbandonedCrewReturns \/ UNCHANGED vars
        BY <2>2 DEF AbandonedCrewReturns, vars, RegInv, TypeOK, EntryInstalled,
           EvictedInstalled, EvictedStaysOut, Evicted, OneEvictor, HoldsPrior,
           EvictedSocketClosed, PipelineOwned, Unlisted
  <2> QED BY <2>1, <2>2 DEF Next
<1> QED BY <1>1, RegInvInit, PTL DEF Spec

\* The registry, the coroutines and the pipelines keep their types (lines 66-120).
THEOREM RegistryTypes == Spec => []TypeOK
<1>1. RegInv => TypeOK
      BY DEF RegInv
<1> QED BY <1>1, RegInvariant, PTL

\* A connection is evicted at most once, however many reconnects race (728-781).
THEOREM EvictedAtMostOnce == Spec => []OneEvictor
<1>1. RegInv => OneEvictor
      BY DEF RegInv
<1> QED BY <1>1, RegInvariant, PTL

\* An evicted connection never returns to the registry, and its successor is
\* greeted only after its socket was closed (728-785).
THEOREM NoReturn == Spec => []EvictionIsFinal
<1>1. RegInv => EvictionIsFinal
      BY DEF RegInv, EvictionIsFinal
<1> QED BY <1>1, RegInvariant, PTL

\* The only entry without a coroutine is that of a failed greeting, and it owns no
\* pipeline (783-822).
THEOREM StaleEntryHarmless == Spec => []StaleEntryOnlyFromGreeting
<1>1. RegInv => StaleEntryOnlyFromGreeting
      BY DEF RegInv, Unlisted, PipelineOwned, StaleEntryOnlyFromGreeting
<1> QED BY <1>1, RegInvariant, PTL

-----------------------------------------------------------------------------
(***************************************************************************)
(* The crews                                                               *)
(***************************************************************************)

\* A run has begun only when those before it have ended.
Sequential == \A r, s \in Runs : co[r] # "new" /\ s < r => co[s] \in Ended

\* Where a kickoff is follows from where its run is.
Threads == \A r \in Runs :
    /\ co[r] # "new" => kind[r] \in Kinds
    /\ co[r] \in {"new", "built"} => thread[r] = "none" /\ out[r] = <<>>
    /\ thread[r] = "queued" => co[r] = "awaiting" /\ out[r] = <<>>
    /\ thread[r] = "running" => /\ co[r] \in {"awaiting", "dropped"}
                                /\ Len(out[r]) < Len(Active(kind[r]))
    /\ thread[r] = "returned" => Len(out[r]) = Len(Active(kind[r]))

\* The outputs a run still waits for are what its tasks and the condenser left.
Fits(k, raws) == \A i \in DOMAIN raws : raws[i] \in Raws(k, Active(k)[i])
Outputs == \A r \in Runs : co[r] = "awaiting" => Fits(kind[r], out[r])

\* What ResultIsVerbatim says of a run, from the moment it is collected.
Verbatim(res, k, raws) ==
    /\ res.raw # "compact"
    /\ \A i \in DOMAIN raws : Active(k)[i] = "generate_changeset" /\ raws[i] # "blank"
                              => res = [by |-> "generate_changeset", raw |-> raws[i]]
Results == \A r \in Runs : co[r] \in {"saving", "telling", "completed"} =>
               /\ thread[r] \in {"returned", "none"}
               /\ Verbatim(result[r], kind[r], out[r])

\* What the types leave out: the queue and the maps are on the runs.
Shapes == /\ queue \in Seq(Runs)
          /\ out \in [Runs -> Seq({"own", "blank", "compact"})]
          /\ result = [r \in Runs |-> result[r]]

CrewInv == /\ CrewTypeOK
           /\ Shapes
           /\ Sequential
           /\ Threads
           /\ Outputs
           /\ Results
           /\ CheckpointIsFresh

\* A crew has a last task, which is not condensed, and generate_changeset at most
\* once; nor is that condensed (_SKIP_CONDENSE).
LEMMA Names ==
    /\ Len(TaskNames) = 6
    /\ \A k \in Kinds :
        /\ Len(Active(k)) \in 1..6
        /\ Active(k)[Len(Active(k))] \notin Condensed(k)
        /\ "generate_changeset" \notin Condensed(k)
        /\ \A i, j \in 1..Len(Active(k)) :
              Active(k)[i] = "generate_changeset" /\ Active(k)[j] = "generate_changeset" => i = j
<1>0. Len(TaskNames) = 6
  BY DEF TaskNames
<1> SUFFICES ASSUME NEW k \in Kinds
    PROVE /\ Len(Active(k)) \in 1..6
          /\ Active(k)[Len(Active(k))] \notin Condensed(k)
          /\ "generate_changeset" \notin Condensed(k)
          /\ \A i, j \in 1..Len(Active(k)) :
              Active(k)[i] = "generate_changeset" /\ Active(k)[j] = "generate_changeset" => i = j
  BY <1>0
<1>1. CASE k = "full"
  <2>1. Active(k) = TaskNames
    BY <1>1 DEF Active, FullCrew
  <2>2. Condensed(k) \cap {"generate_changeset", "deploy_changeset"} = {}
    BY <1>1 DEF Condensed
  <2>3. Len(Active(k)) = 6
    BY <2>1 DEF TaskNames
  <2>4. Active(k)[1] = "gather_requirements" /\ Active(k)[2] = "assess_feasibility" /\
      Active(k)[3] = "design_solution" /\ Active(k)[4] = "generate_changeset" /\
      Active(k)[5] = "validate_changeset" /\ Active(k)[6] = "deploy_changeset"
    BY <2>1 DEF TaskNames
  <2>5. \A i \in 1..6 : i = 1 \/ i = 2 \/ i = 3 \/ i = 4 \/ i = 5 \/ i = 6
    OBVIOUS
  <2> QED
    BY <2>2, <2>3, <2>4, <2>5
<1>2. CASE k = "lite"
  <2>1. Active(k) = <<"generate_changeset">>
    BY <1>2 DEF Active, LiteCrew
  <2>2. Condensed(k) = {}
    BY <1>2 DEF Condensed
  <2>3. Len(Active(k)) = 1
    BY <2>1
  <2>4. Active(k)[1] = "generate_changeset"
    BY <2>1
  <2>5. \A i \in 1..1 : i = 1
    OBVIOUS
  <2> QED
    BY <2>2, <2>3, <2>4, <2>5
<1>3. CASE k = "plan"
  <2>1. Active(k) = PlanCrew
    BY <1>3 DEF Active, PlanCrew
  <2>2. Condensed(k) = {"gather_requirements", "assess_feasibility"}
    BY <1>3 DEF Condensed
  <2>3. Len(Active(k)) = 3
    BY <2>1 DEF PlanCrew
  <2>4. Active(k)[1] = "gather_requirements" /\ Active(k)[2] = "assess_feasibility" /\
      Active(k)[3] = "generate_plan_doc"
    BY <2>1 DEF PlanCrew
  <2>5. \A i \in 1..3 : i = 1 \/ i = 2 \/ i = 3
    OBVIOUS
  <2> QED
    BY <2>2, <2>3, <2>4, <2>5
<1>4. CASE k = "insights"
  <2>1. Active(k) = <<"generate_insights_reply">>
    BY <1>4 DEF Active, InsightsCrew
  <2>2. Condensed(k) = {}
    BY <1>4 DEF Condensed
  <2>3. Len(Active(k)) = 1
    BY <2>1
  <2>4. Active(k)[1] = "generate_insights_reply"
    BY <2>1
  <2>5. \A i \in 1..1 : i = 1
    OBVIOUS
  <2> QED
    BY <2>2, <2>3, <2>4, <2>5
<1>5. CASE k = "fix"
  <2>1. Active(k) = <<"fix_changeset">>
    BY <1>5 DEF Active, FixCrew
  <2>2. Condensed(k) = {}
    BY <1>5 DEF Condensed
  <2>3. Len(Active(k)) = 1
    BY <2>1
  <2>4. Active(k)[1] = "fix_changeset"
    BY <2>1
  <2>5. \A i \in 1..1 : i = 1
    OBVIOUS
  <2> QED
    BY <2>2, <2>3, <2>4, <2>5
<1> QED
  BY <1>1, <1>2, <1>3, <1>4, <1>5 DEF Kinds, Dev

\* What run_crew picks from the outputs of a whole crew is an agent's own words, and
\* the developer's if there are any.
LEMMA CollectsVerbatim ==
    ASSUME NEW k \in Kinds, NEW raws \in Seq({"own", "blank", "compact"}),
           Len(raws) = Len(Active(k)), Fits(k, raws)
    PROVE  Verbatim(FinalResult(k, raws), k, raws)
<1> DEFINE names == Active(k)
           n == Len(names)
           written == { i \in 1..n : names[i] = "generate_changeset" /\ raws[i] # "blank" }
           x == IF written # {} THEN CHOOSE y \in written : TRUE ELSE n
<1>1. FinalResult(k, raws) = [by |-> names[x], raw |-> raws[x]]
  BY DEF FinalResult
<1>2. x \in 1..n /\ (written # {} => x \in written)
  <2>1. CASE written = {}
    BY <2>1, Names
  <2>2. CASE written # {}
    <3>1. PICK y \in written : TRUE
      BY <2>2
    <3>2. x = CHOOSE z \in written : TRUE
      BY <2>2
    <3>3. x \in written
      BY <3>1, <3>2
    <3> QED
      BY <3>3
  <2> QED
    BY <2>1, <2>2
<1>3. names[x] \notin Condensed(k)
  BY <1>2, Names
<1>4. raws[x] # "compact"
  BY <1>2, <1>3 DEF Fits, Raws
<1>5. ASSUME NEW i \in DOMAIN raws, names[i] = "generate_changeset", raws[i] # "blank"
      PROVE  i = x
  BY <1>2, <1>5, Names
<1> HIDE DEF x, names
<1>6. ASSUME NEW i \in DOMAIN raws, names[i] = "generate_changeset", raws[i] # "blank"
      PROVE  FinalResult(k, raws) = [by |-> "generate_changeset", raw |-> raws[i]]
  BY <1>1, <1>5, <1>6
<1> QED
  BY <1>1, <1>4, <1>6 DEF Verbatim, names

\* The pool's queue without its head.
LEMMA TakeHead ==
    ASSUME NEW S, NEW q \in Seq(S), q # <<>>, IsInjective(q)
    PROVE  /\ Head(q) \in S /\ Tail(q) \in Seq(S)
           /\ IsInjective(Tail(q))
           /\ Range(Tail(q)) = Range(q) \ {Head(q)}
<1>1. /\ Head(q) = q[1] /\ Head(q) \in S /\ Tail(q) \in Seq(S) /\ Len(q) \in Nat \ {0}
      /\ DOMAIN q = 1..Len(q) /\ DOMAIN Tail(q) = 1..(Len(q) - 1)
      /\ \A i \in DOMAIN Tail(q) : i + 1 \in DOMAIN q /\ Tail(q)[i] = q[i + 1]
  OBVIOUS
<1>2. IsInjective(Tail(q))
  BY <1>1 DEF IsInjective
<1>3. ASSUME NEW x \in Range(Tail(q)) PROVE x \in Range(q) \ {Head(q)}
  <2>1. PICK i \in DOMAIN Tail(q) : x = Tail(q)[i]
    BY <1>3 DEF Range
  <2>2. x = q[i + 1] /\ i + 1 \in DOMAIN q /\ i + 1 # 1 /\ 1 \in DOMAIN q
    BY <1>1, <2>1
  <2> QED
    BY <2>2, <1>1 DEF Range, IsInjective
<1>4. ASSUME NEW x \in Range(q), x # Head(q) PROVE x \in Range(Tail(q))
  <2>1. PICK i \in DOMAIN q : x = q[i]
    BY <1>4 DEF Range
  <2>2. i - 1 \in DOMAIN Tail(q) /\ x = Tail(q)[i - 1]
    BY <1>1, <1>4, <2>1
  <2> QED
    BY <2>2 DEF Range
<1> QED
  BY <1>1, <1>2, <1>3, <1>4

\* The pool's queue with one more.
LEMMA Enqueue ==
    ASSUME NEW S, NEW q \in Seq(S), IsInjective(q), NEW x \in S, x \notin Range(q)
    PROVE  /\ Append(q, x) \in Seq(S)
           /\ IsInjective(Append(q, x))
           /\ Range(Append(q, x)) = Range(q) \cup {x}
BY DEF Range, IsInjective

\* The pool's queue without one that was cancelled in it.
LEMMA LeaveQueue ==
    ASSUME NEW S, NEW q \in Seq(S), IsInjective(q), NEW i \in DOMAIN q
    PROVE  /\ RemoveAt(q, i) \in Seq(S)
           /\ IsInjective(RemoveAt(q, i))
           /\ Range(RemoveAt(q, i)) = Range(q) \ {q[i]}
<1> DEFINE t == RemoveAt(q, i)
           m == Len(q)
           a == SubSeq(q, 1, i - 1)
           b == SubSeq(q, i + 1, m)
<1>1. m \in Nat /\ i \in 1..m /\ DOMAIN q = 1..m
  OBVIOUS
<1>2. a \in Seq(S) /\ Len(a) = i - 1 /\ \A j \in 1..(i - 1) : a[j] = q[j]
  BY <1>1
<1>3. b \in Seq(S) /\ Len(b) = m - i /\ \A j \in 1..(m - i) : b[j] = q[i + j]
  BY <1>1
<1>4. t = a \o b
  BY DEF RemoveAt
<1> HIDE DEF t, a, b
<1>5. /\ t \in Seq(S) /\ Len(t) = m - 1
      /\ DOMAIN t = 1..(m - 1)
      /\ \A j \in 1..(m - 1) : t[j] = IF j < i THEN q[j] ELSE q[j + 1]
  <2>1. /\ t \in Seq(S) /\ Len(t) = Len(a) + Len(b)
        /\ \A j \in 1..(Len(a) + Len(b)) : t[j] = IF j <= Len(a) THEN a[j] ELSE b[j - Len(a)]
    BY <1>2, <1>3, <1>4, ConcatProperties
  <2>2. Len(t) = m - 1 /\ DOMAIN t = 1..(m - 1)
    BY <1>1, <1>2, <1>3, <2>1
  <2>3. ASSUME NEW j \in 1..(m - 1) PROVE t[j] = IF j < i THEN q[j] ELSE q[j + 1]
    <3>1. CASE j < i
      BY <1>1, <1>2, <1>3, <2>1, <2>3, <3>1, SMTT(30)
    <3>2. CASE j >= i
      <4>1. t[j] = b[j - (i - 1)] /\ j - (i - 1) \in 1..(m - i)
        BY <1>1, <1>2, <1>3, <2>1, <2>3, <3>2, SMTT(30)
      <4>2. b[j - (i - 1)] = q[i + (j - (i - 1))] /\ i + (j - (i - 1)) = j + 1
        BY <1>1, <1>3, <4>1
      <4> QED
        BY <1>1, <3>2, <4>1, <4>2
    <3> QED
      BY <1>1, <2>3, <3>1, <3>2
  <2> QED
    BY <2>1, <2>2, <2>3
<1>6. IsInjective(t)
  <2>1. SUFFICES ASSUME NEW j \in 1..(m - 1), NEW l \in 1..(m - 1), t[j] = t[l] PROVE j = l
    BY <1>5 DEF IsInjective
  <2> DEFINE at(y) == IF y < i THEN y ELSE y + 1
  <2>2. t[j] = q[at(j)] /\ at(j) \in DOMAIN q /\ t[l] = q[at(l)] /\ at(l) \in DOMAIN q
    BY <1>1, <1>5
  <2>3. at(j) = at(l)
    BY <2>1, <2>2 DEF IsInjective
  <2> QED
    BY <1>1, <2>3
<1>7. ASSUME NEW x \in Range(t) PROVE x \in Range(q) \ {q[i]}
  <2>1. PICK j \in DOMAIN t : x = t[j]
    BY <1>7 DEF Range
  <2>2. PICK l \in DOMAIN q : x = q[l] /\ l # i
    BY <1>1, <1>5, <2>1, SMTT(30)
  <2> QED
    BY <1>1, <2>2 DEF Range, IsInjective
<1>8. ASSUME NEW x \in Range(q), x # q[i] PROVE x \in Range(t)
  <2>1. PICK j \in DOMAIN q : x = q[j] /\ j # i
    BY <1>8 DEF Range
  <2>2. PICK l \in DOMAIN t : x = t[l]
    <3>1. CASE j < i
      BY <1>1, <1>5, <2>1, <3>1
    <3>2. CASE j > i
      <4>1. j - 1 \in DOMAIN t /\ t[j - 1] = q[j]
        BY <1>1, <1>5, <2>1, <3>2
      <4> QED
        BY <4>1, <2>1
    <3> QED
      BY <1>1, <2>1, <3>1, <3>2
  <2> QED
    BY <2>2 DEF Range
<1>9. t = RemoveAt(q, i)
  BY DEF t
<1> QED
  BY <1>5, <1>6, <1>7, <1>8, <1>9

-----------------------------------------------------------------------------
\* No run, no kickoff, no checkpoint at the start.
LEMMA CrewInvInit == CrewInit => CrewInv
<1> SUFFICES ASSUME CrewInit PROVE CrewInv
  OBVIOUS
<1>1. Working = {}
  BY DEF CrewInit, Working
<1>2. Cardinality(Working) <= PoolSize
  BY <1>1, FS_EmptySet, CrewAssumption DEF CrewAssumption
<1>3. queue \in Seq(Runs) /\ Range(queue) = {} /\ IsInjective(queue)
  BY DEF CrewInit, Range, IsInjective
<1>4. { r \in Runs : thread[r] = "queued" } = {}
  BY DEF CrewInit
<1>5. Len(TaskNames) = 6
  BY Names
<1>6. CrewTypeOK
  BY <1>2, <1>3, <1>4, <1>5, CrewAssumption DEF CrewAssumption, CrewInit, CrewTypeOK, Ended
<1>7. Shapes /\ Sequential
  BY <1>3 DEF CrewInit, Shapes, Sequential, NoResult
<1>8. Threads /\ Outputs /\ Results /\ CheckpointIsFresh
  BY DEF CrewInit, Threads, Outputs, Results, CheckpointIsFresh
<1> QED
  BY <1>6, <1>7, <1>8 DEF CrewInv

\* When a run is built none before it is under way, none after it has begun, and no
\* kickoff waits for a thread.
LEMMA AtRest ==
    ASSUME CrewInv, NEW r \in Runs, co[r] = "new", r > 1 => co[r - 1] \in Ended
    PROVE  \A s \in Runs : /\ s < r => co[s] \in Ended
                           /\ s > r => co[s] = "new"
                           /\ thread[s] # "queued"
<1>1. ASSUME NEW s \in Runs, s < r PROVE co[s] \in Ended
  <2>1. r \in Nat /\ s \in Nat /\ r > 1 /\ r - 1 \in Runs /\ (s = r - 1 \/ s < r - 1)
    BY <1>1, CrewAssumption DEF CrewAssumption, Runs
  <2>2. co[r - 1] # "new"
    BY <2>1 DEF Ended
  <2> QED
    BY <2>1, <2>2 DEF CrewInv, Sequential
<1>2. ASSUME NEW s \in Runs, s > r PROVE co[s] = "new"
  BY <1>2 DEF CrewInv, Sequential, Ended, Runs
<1>3. ASSUME NEW s \in Runs PROVE thread[s] # "queued"
  <2>1. s < r \/ s = r \/ s > r
    BY DEF Runs
  <2>2. co[s] # "awaiting"
    BY <1>1, <1>2, <2>1 DEF Ended
  <2> QED
    BY <2>2 DEF CrewInv, Threads
<1> QED
  BY <1>1, <1>2, <1>3

\* Where a run under way goes does not change which have begun.
LEMMA SequentialKept ==
    ASSUME CrewInv, NEW r \in Runs, co[r] \notin Ended \cup {"new"},
           NEW to, to # "new", co' = [co EXCEPT ![r] = to]
    PROVE  Sequential'
<1> SUFFICES ASSUME NEW s \in Runs, NEW t \in Runs, co'[s] # "new", t < s
             PROVE  co'[t] \in Ended
  BY DEF Sequential
<1>1. co[s] # "new"
  BY DEF CrewInv, CrewTypeOK
<1>2. co[t] \in Ended
  BY <1>1 DEF CrewInv, Sequential
<1>3. t # r
  BY <1>2
<1> QED
  BY <1>2, <1>3 DEF CrewInv, CrewTypeOK

\* The checkpoint stays fresh while no run begins and what is stored is excused.
LEMMA FreshKept ==
    ASSUME CheckpointIsFresh, kind' = kind,
           \A s \in Runs : co'[s] = "new" <=> co[s] = "new",
           checkpoint' = checkpoint \/ checkpoint' \in excused', excused \subseteq excused'
    PROVE  CheckpointIsFresh'
BY DEF CheckpointIsFresh

\* The threads stay bounded while none begins to work.
LEMMA WorkingKept ==
    ASSUME CrewTypeOK, Working' \subseteq Working
    PROVE  Cardinality(Working') <= PoolSize
<1>1. IsFiniteSet(Working)
  <2>1. IsFiniteSet(Runs)
    BY FS_Interval, CrewAssumption DEF CrewAssumption, Runs
  <2> QED
    BY <2>1, FS_Subset DEF Working
<1>2. /\ Cardinality(Working) \in Nat /\ Cardinality(Working') \in Nat
      /\ Cardinality(Working') <= Cardinality(Working)
  BY <1>1, FS_Subset, FS_CardinalityType
<1> QED
  BY <1>2, CrewAssumption DEF CrewAssumption, CrewTypeOK

\* Outputs that nobody reads are as many as they were.
LEMMA UnreadLen ==
    ASSUME NEW raws \in Seq({"own", "blank", "compact"})
    PROVE  /\ Unread(raws) \in Seq({"own", "blank", "compact"})
           /\ Len(Unread(raws)) = Len(raws)
BY DEF Unread

\* A run begins: nothing of the earlier ones is left but what still works.
LEMMA CrewInvBuild ==
    ASSUME CrewInv, NEW r \in Runs, NEW k \in Kinds, Build(r, k)
    PROVE  CrewInv'
<1> USE DEF Ended, Go
<1>0. /\ CrewTypeOK /\ Shapes /\ Threads /\ Sequential
      /\ co[r] = "new" /\ (r > 1 => co[r - 1] \in Ended)
      /\ kind' = [kind EXCEPT ![r] = k] /\ co' = [co EXCEPT ![r] = "built"]
      /\ Forget /\ queue' = queue /\ late' = late
  BY DEF Build, CrewInv
<1>1. \A s \in Runs : /\ s < r => co[s] \in Ended
                      /\ s > r => co[s] = "new"
                      /\ thread[s] # "queued"
  BY <1>0, AtRest
<1>2. /\ checkpoint' \in {0, checkpoint} /\ faults' \in 0..MaxFaults
      /\ excused' \subseteq 0..MaxRuns /\ excused \subseteq excused'
      /\ k \in Dev => checkpoint' \in {0} \cup excused'
  <2>1. CASE k \in Dev
    BY <1>0, <2>1, CrewAssumption DEF CrewAssumption, Build, Fault, CrewTypeOK
  <2>2. CASE k \notin Dev
    BY <1>0, <2>2 DEF Build, CrewTypeOK
  <2> QED
    BY <2>1, <2>2
<1>3. CrewTypeOK'
  <2>1. Cardinality(Working') <= PoolSize
    <3>1. Working' \subseteq Working
      BY <1>0 DEF Forget, Working
    <3> QED
      BY <3>1, <1>0, WorkingKept
  <2>2. /\ kind' \in [Runs -> Kinds \cup {"none"}]
        /\ co' \in [Runs -> Ended \cup {"new", "built", "awaiting", "saving", "telling",
                                   "saving_failure", "telling_failure"}]
        /\ thread' \in [Runs -> {"none", "queued", "running", "returned", "raised", "never"}]
    BY <1>0 DEF Forget, CrewTypeOK
  <2>3. /\ Range(queue') = { s \in Runs : thread'[s] = "queued" } /\ IsInjective(queue')
        /\ \A s \in Range(queue') : co'[s] = "awaiting"
    BY <1>0, <1>1 DEF Forget, CrewTypeOK
  <2>4. /\ \A s \in Runs : out'[s] \in Seq({"own", "blank", "compact"})
        /\ \A s \in Runs : Len(out'[s]) <= Len(TaskNames)
    BY <1>0, Names DEF Forget, CrewTypeOK
  <2>5. /\ checkpoint' \in 0..MaxRuns
        /\ dead' \subseteq Runs /\ late' \subseteq excused' /\ excused' \subseteq 0..MaxRuns
        /\ faults' \in 0..MaxFaults
    BY <1>0, <1>2, CrewAssumption DEF CrewAssumption, Forget, CrewTypeOK
  <2> QED
    BY <2>1, <2>2, <2>3, <2>4, <2>5 DEF CrewTypeOK
<1>4. Shapes'
  BY <1>0 DEF Shapes, Forget
<1>5. Sequential'
  <2> SUFFICES ASSUME NEW s \in Runs, NEW t \in Runs, co'[s] # "new", t < s
               PROVE  co'[t] \in Ended
    BY DEF Sequential
  <2>1. s <= r
    BY <1>0, <1>1 DEF CrewTypeOK, Runs
  <2>2. t < r
    BY <2>1 DEF Runs
  <2> QED
    BY <1>0, <1>1, <2>2 DEF CrewTypeOK, Runs
<1>6. Threads'
  BY <1>0, <1>1 DEF Threads, Forget, CrewTypeOK
<1>7. Outputs'
  BY <1>0, <1>1 DEF Outputs, Runs, CrewTypeOK
<1>8. Results'
  <2> SUFFICES ASSUME NEW s \in Runs, co'[s] \in {"saving", "telling", "completed"}
               PROVE  thread'[s] \in {"returned", "none"} /\ Verbatim(result'[s], kind'[s], out'[s])
    BY DEF Results
  <2>1. s # r /\ co[s] = "completed"
    BY <1>0, <1>1 DEF Runs, CrewTypeOK
  <2>2. thread'[s] = "none" /\ out'[s] = <<>> /\ result'[s] = NoResult
    BY <1>0, <2>1 DEF Forget, CrewInv, Results
  <2> QED
    BY <2>2 DEF Verbatim, NoResult
<1>9. CheckpointIsFresh'
  <2> SUFFICES ASSUME NEW s \in Runs, kind'[s] \in Dev, co'[s] # "new",
                      \A t \in Runs : t > s => co'[t] = "new"
               PROVE  checkpoint' \in {0, s} \cup excused'
    BY DEF CheckpointIsFresh
  <2>1. s = r
    BY <1>0, <1>1 DEF Runs, CrewTypeOK
  <2> QED
    BY <1>0, <1>2, <2>1 DEF CrewTypeOK
<1> QED
  BY <1>3, <1>4, <1>5, <1>6, <1>7, <1>8, <1>9 DEF CrewInv

\* A thread of the pool takes the kickoff that waits longest.
LEMMA CrewInvWorker ==
    ASSUME CrewInv, WorkerTakes
    PROVE  CrewInv'
<1> DEFINE h == Head(queue)
<1>0. /\ CrewTypeOK /\ Shapes /\ Threads /\ Outputs /\ Results /\ CheckpointIsFresh
      /\ queue # <<>> /\ Cardinality(Working) < PoolSize
      /\ thread' = [thread EXCEPT ![h] = "running"] /\ queue' = Tail(queue)
      /\ kind' = kind /\ co' = co /\ out' = out /\ result' = result
      /\ checkpoint' = checkpoint /\ late' = late /\ excused' = excused /\ faults' = faults
      /\ dead' = dead
  BY DEF WorkerTakes, CrewInv, outcome, redis
<1>1. /\ h \in Runs /\ Tail(queue) \in Seq(Runs) /\ IsInjective(Tail(queue))
      /\ Range(Tail(queue)) = Range(queue) \ {h}
  BY <1>0, TakeHead DEF Shapes, CrewTypeOK
<1>2. h \in Range(queue)
  BY <1>0 DEF Shapes, Range
<1> HIDE DEF h
<1>3. thread[h] = "queued" /\ co[h] = "awaiting" /\ out[h] = <<>> /\ kind[h] \in Kinds
  BY <1>0, <1>1, <1>2 DEF CrewTypeOK, Threads
<1>4. Cardinality(Working') <= PoolSize
  <2>1. Working' = Working \cup {h}
    BY <1>0, <1>1, <1>3 DEF Working, CrewTypeOK
  <2>2. IsFiniteSet(Runs)
    BY FS_Interval, CrewAssumption DEF CrewAssumption, Runs
  <2>3. IsFiniteSet(Working)
    BY <2>2, FS_Subset DEF Working
  <2>4. h \notin Working
    BY <1>3 DEF Working
  <2>5. Cardinality(Working') = Cardinality(Working) + 1 /\ Cardinality(Working) \in Nat
    BY <2>1, <2>3, <2>4, FS_AddElement, FS_CardinalityType
  <2> QED
    BY <1>0, <2>5, CrewAssumption DEF CrewAssumption
<1>5. CrewTypeOK'
  <2>1. /\ kind' \in [Runs -> Kinds \cup {"none"}]
        /\ co' \in [Runs -> Ended \cup {"new", "built", "awaiting", "saving", "telling",
                                   "saving_failure", "telling_failure"}]
        /\ thread' \in [Runs -> {"none", "queued", "running", "returned", "raised", "never"}]
    BY <1>0 DEF CrewTypeOK
  <2>2. /\ Range(queue') = { s \in Runs : thread'[s] = "queued" } /\ IsInjective(queue')
        /\ \A s \in Range(queue') : co'[s] = "awaiting"
    BY <1>0, <1>1 DEF CrewTypeOK
  <2> QED
    BY <1>0, <1>4, <2>1, <2>2 DEF CrewTypeOK
<1>6. Shapes' /\ Sequential' /\ CheckpointIsFresh'
  BY <1>0, <1>1 DEF CrewInv, Shapes, Sequential, CheckpointIsFresh
<1>7. Threads'
  <2> DEFINE m == Len(out[h])
             n == Len(Active(kind[h]))
  <2>1. n \in 1..6
    BY <1>3, Names
  <2>2. m = 0
    BY <1>3
  <2> HIDE DEF m, n
  <2>3. m < n
    BY <2>1, <2>2
  <2>4. \A s \in Runs : s # h => thread'[s] = thread[s]
    BY <1>0 DEF CrewTypeOK
  <2>5. thread'[h] = "running"
    BY <1>0, <1>1 DEF CrewTypeOK
  <2> QED
    BY <1>0, <1>3, <2>3, <2>4, <2>5 DEF Threads, m, n
<1>8. Outputs' /\ Results'
  BY <1>0, <1>3 DEF Outputs, Results, CrewTypeOK
<1> QED
  BY <1>5, <1>6, <1>7, <1>8 DEF CrewInv

\* A task returns and the callback has condensed its output.
LEMMA CrewInvReturns ==
    ASSUME CrewInv, NEW r \in Runs, TaskReturns(r)
    PROVE  CrewInv'
<1> DEFINE raw(x) == out' = [out EXCEPT ![r] = Append(@, x)]
           n == Len(Active(kind[r]))
<1>0. /\ CrewTypeOK /\ Shapes /\ Threads /\ Outputs /\ Results /\ CheckpointIsFresh
      /\ thread[r] = "running"
      /\ kind' = kind /\ co' = co /\ queue' = queue /\ result' = result
      /\ checkpoint' = checkpoint /\ late' = late /\ excused' = excused /\ faults' = faults
      /\ dead' = dead
  BY DEF TaskReturns, CrewInv, outcome, redis
<1>1. /\ co[r] \in {"awaiting", "dropped"} /\ kind[r] \in Kinds
      /\ Len(out[r]) < n /\ n \in 1..6 /\ out[r] \in Seq({"own", "blank", "compact"})
  BY <1>0, Names DEF Threads, Shapes
<1>2. PICK x \in {"own", "blank", "compact"} :
        /\ out' = [out EXCEPT ![r] = Append(@, x)]
        /\ co[r] = "awaiting" => x \in Raws(kind[r], Active(kind[r])[Len(out[r]) + 1])
  BY <1>0, <1>1 DEF TaskReturns, Raws, Ended
<1>3. /\ out'[r] = Append(out[r], x) /\ out'[r] \in Seq({"own", "blank", "compact"})
      /\ Len(out'[r]) = Len(out[r]) + 1
  BY <1>0, <1>1, <1>2 DEF Shapes
<1>4. thread' = [thread EXCEPT ![r] = IF Len(out'[r]) = n THEN "returned" ELSE "running"]
  BY DEF TaskReturns
<1> HIDE DEF n
<1>5. CrewTypeOK'
  <2>1. Cardinality(Working') <= PoolSize
    <3>1. Working' \subseteq Working
      BY <1>0, <1>4 DEF Working, CrewTypeOK
    <3> QED
      BY <3>1, <1>0, WorkingKept
  <2>2. thread' \in [Runs -> {"none", "queued", "running", "returned", "raised", "never"}]
    BY <1>0, <1>4 DEF CrewTypeOK
  <2>3. Range(queue') = { s \in Runs : thread'[s] = "queued" }
    BY <1>0, <1>4 DEF CrewTypeOK
  <2>4. /\ \A s \in Runs : out'[s] \in Seq({"own", "blank", "compact"})
        /\ \A s \in Runs : Len(out'[s]) <= Len(TaskNames)
    BY <1>0, <1>1, <1>2, <1>3, Names DEF CrewTypeOK, Shapes
  <2> QED
    BY <1>0, <2>1, <2>2, <2>3, <2>4 DEF CrewTypeOK
<1>6. Shapes' /\ Sequential' /\ CheckpointIsFresh'
  BY <1>0, <1>2, <1>3 DEF CrewInv, Shapes, Sequential, CheckpointIsFresh
<1>7. Threads'
  <2>1. /\ thread'[r] \in {"running", "returned"}
        /\ thread'[r] = "running" => Len(out'[r]) < n
        /\ thread'[r] = "returned" => Len(out'[r]) = n
    BY <1>0, <1>1, <1>3, <1>4 DEF CrewTypeOK
  <2>2. \A s \in Runs : s # r => thread'[s] = thread[s] /\ out'[s] = out[s]
    BY <1>0, <1>2, <1>4 DEF CrewTypeOK, Shapes
  <2> QED
    BY <1>0, <1>1, <2>1, <2>2 DEF Threads, n
<1>8. Outputs'
  <2> SUFFICES ASSUME NEW s \in Runs, co'[s] = "awaiting" PROVE Fits(kind'[s], out'[s])
    BY DEF Outputs
  <2>1. Fits(kind[s], out[s])
    BY <1>0 DEF Outputs
  <2>2. CASE s # r
    BY <1>0, <1>2, <2>1, <2>2 DEF Shapes
  <2>3. CASE s = r
    <3>1. \A i \in DOMAIN out'[r] : IF i = Len(out[r]) + 1 THEN out'[r][i] = x
                                    ELSE i \in DOMAIN out[r] /\ out'[r][i] = out[r][i]
      BY <1>1, <1>3
    <3> QED
      BY <1>0, <1>2, <2>1, <2>3, <3>1 DEF Fits
  <2> QED
    BY <2>2, <2>3
<1>9. Results'
  BY <1>0, <1>1, <1>2, <1>4 DEF Results, CrewTypeOK, Shapes
<1> QED
  BY <1>5, <1>6, <1>7, <1>8, <1>9 DEF CrewInv

\* A kickoff raises.
LEMMA CrewInvRaises ==
    ASSUME CrewInv, NEW r \in Runs, KickoffRaises(r)
    PROVE  CrewInv'
<1>0. /\ CrewTypeOK /\ Shapes /\ Threads /\ Outputs /\ Results /\ CheckpointIsFresh
      /\ thread[r] = "running" /\ thread' = [thread EXCEPT ![r] = "raised"]
      /\ kind' = kind /\ co' = co /\ queue' = queue /\ out' = out /\ result' = result
      /\ checkpoint' = checkpoint /\ late' = late /\ excused' = excused /\ faults' = faults
      /\ dead' = dead
  BY DEF KickoffRaises, CrewInv, outcome, redis
<1>1. CrewTypeOK'
  <2>1. Cardinality(Working') <= PoolSize
    <3>1. Working' \subseteq Working
      BY <1>0 DEF Working, CrewTypeOK
    <3> QED
      BY <3>1, <1>0, WorkingKept
  <2>2. thread' \in [Runs -> {"none", "queued", "running", "returned", "raised", "never"}]
    BY <1>0 DEF CrewTypeOK
  <2>3. Range(queue') = { s \in Runs : thread'[s] = "queued" }
    BY <1>0 DEF CrewTypeOK
  <2> QED
    BY <1>0, <2>1, <2>2, <2>3 DEF CrewTypeOK
<1>2. Shapes' /\ Sequential' /\ CheckpointIsFresh' /\ Outputs'
  BY <1>0 DEF CrewInv, Shapes, Sequential, CheckpointIsFresh, Outputs
<1>3. Threads' /\ Results'
  BY <1>0 DEF Threads, Results, CrewTypeOK
<1> QED
  BY <1>1, <1>2, <1>3 DEF CrewInv

\* run_crew hands its kickoff to the pool.
LEMMA CrewInvKickoff ==
    ASSUME CrewInv, NEW r \in Runs, Kickoff(r)
    PROVE  CrewInv'
<1> USE DEF Ended
<1>0. /\ CrewTypeOK /\ Shapes /\ Threads /\ Outputs /\ Results /\ CheckpointIsFresh
      /\ co[r] = "built" /\ co' = [co EXCEPT ![r] = "awaiting"]
      /\ thread' = [thread EXCEPT ![r] = "queued"] /\ queue' = Append(queue, r)
      /\ kind' = kind /\ out' = out /\ result' = result
      /\ checkpoint' = checkpoint /\ late' = late /\ excused' = excused /\ faults' = faults
      /\ dead' = dead
  BY DEF Kickoff, Go, CrewInv, outcome, redis
<1>1. thread[r] = "none" /\ out[r] = <<>>
  BY <1>0 DEF Threads
<1>2. /\ Append(queue, r) \in Seq(Runs) /\ IsInjective(Append(queue, r))
      /\ Range(Append(queue, r)) = Range(queue) \cup {r}
  <2>1. r \notin Range(queue)
    BY <1>0, <1>1 DEF CrewTypeOK
  <2> QED
    BY <1>0, <2>1, Enqueue DEF CrewTypeOK, Shapes
<1>3. CrewTypeOK'
  <2>1. Cardinality(Working') <= PoolSize
    <3>1. Working' \subseteq Working
      BY <1>0 DEF Working, CrewTypeOK
    <3> QED
      BY <3>1, <1>0, WorkingKept
  <2>2. /\ thread' \in [Runs -> {"none", "queued", "running", "returned", "raised", "never"}]
        /\ co' \in [Runs -> Ended \cup {"new", "built", "awaiting", "saving", "telling",
                                   "saving_failure", "telling_failure"}]
    BY <1>0 DEF CrewTypeOK
  <2>3. /\ Range(queue') = { s \in Runs : thread'[s] = "queued" } /\ IsInjective(queue')
        /\ \A s \in Range(queue') : co'[s] = "awaiting"
    BY <1>0, <1>2 DEF CrewTypeOK
  <2> QED
    BY <1>0, <2>1, <2>2, <2>3 DEF CrewTypeOK
<1>4. Shapes'
  BY <1>0, <1>2 DEF Shapes
<1>5. Sequential'
  BY <1>0, SequentialKept
<1>6. CheckpointIsFresh'
  <2>1. \A s \in Runs : co'[s] = "new" <=> co[s] = "new"
    BY <1>0 DEF CrewTypeOK
  <2> QED
    BY <1>0, <2>1, FreshKept
<1>7. Threads' /\ Results'
  BY <1>0, <1>1 DEF Threads, Results, CrewTypeOK
<1>8. Outputs'
  BY <1>0, <1>1 DEF Outputs, Fits, CrewTypeOK
<1> QED
  BY <1>3, <1>4, <1>5, <1>6, <1>7, <1>8 DEF CrewInv

\* A step of run_crew that leaves the pool alone, whatever it makes of the outputs.
LEMMA RunCrewMoves ==
    ASSUME CrewInv, NEW r \in Runs, co[r] \notin Ended \cup {"new"},
           thread[r] \notin {"queued", "running"},
           NEW to \in Ended \cup {"saving", "telling", "saving_failure", "telling_failure"},
           co' = [co EXCEPT ![r] = to], kind' = kind,
           thread' = thread, queue' = queue, out' = out,
           result' = [s \in Runs |-> result'[s]],
           \A s \in Runs : s # r => result'[s] = result[s],
           to \in {"saving", "telling", "completed"} =>
              thread[r] \in {"returned", "none"} /\ Verbatim(result'[r], kind[r], out[r]),
           checkpoint' \in 0..MaxRuns, CheckpointIsFresh',
           dead' = dead, late' = late, excused' = excused, faults' \in 0..MaxFaults
    PROVE  CrewInv'
<1> USE DEF Ended
<1>0. CrewTypeOK /\ Shapes /\ Threads /\ Outputs /\ Results
  BY DEF CrewInv
<1>1. CrewTypeOK'
  <2>1. Cardinality(Working') <= PoolSize
    <3>1. Working' \subseteq Working
      BY DEF Working
    <3> QED
      BY <3>1, <1>0, WorkingKept
  <2>2. co' \in [Runs -> Ended \cup {"new", "built", "awaiting", "saving", "telling",
                                   "saving_failure", "telling_failure"}]
    BY <1>0 DEF CrewTypeOK
  <2>3. /\ Range(queue') = { s \in Runs : thread'[s] = "queued" } /\ IsInjective(queue')
        /\ \A s \in Range(queue') : co'[s] = "awaiting"
    BY <1>0 DEF CrewTypeOK
  <2> QED
    BY <1>0, <2>1, <2>2, <2>3 DEF CrewTypeOK
<1>2. Shapes'
  BY <1>0 DEF Shapes
<1>3. Sequential'
  BY SequentialKept
<1>4. Threads'
  BY <1>0 DEF Threads, CrewTypeOK
<1>5. Outputs'
  BY <1>0 DEF Outputs, CrewTypeOK
<1>6. Results'
  BY <1>0 DEF Results, CrewTypeOK
<1> QED
  BY <1>1, <1>2, <1>3, <1>4, <1>5, <1>6 DEF CrewInv

\* A failure is saved, told or left.
LEMMA FailingIsTold ==
    ASSUME NEW r \in Runs
    PROVE  Failing(r) \in {"saving_failure", "telling_failure", "failed"}
BY DEF Failing, Dev

\* The other steps of run_crew, up to its return.
LEMMA CrewInvRun ==
    ASSUME CrewInv, NEW r \in Runs,
           StartUntold(r) \/ Collect(r) \/ KickoffRaised(r) \/ Save(r) \/ Tell(r) \/ TellFailure(r)
    PROVE  CrewInv'
<1> USE DEF Ended
<1>0. /\ CrewTypeOK /\ Shapes /\ Threads /\ Outputs /\ Results /\ CheckpointIsFresh
      /\ checkpoint \in 0..MaxRuns /\ faults \in 0..MaxFaults
      /\ result = [s \in Runs |-> result[s]]
  BY DEF CrewInv, CrewTypeOK, Shapes
<1>1. kind' = kind /\ thread' = thread /\ queue' = queue /\ out' = out /\ dead' = dead
  BY DEF StartUntold, Collect, KickoffRaised, Save, Tell, TellFailure, pool
<1>2. late' = late /\ excused' = excused
  BY DEF StartUntold, Collect, KickoffRaised, Save, Tell, TellFailure, redis
<1>3. co[r] \notin Ended \cup {"new"} /\ thread[r] \notin {"queued", "running"}
  BY <1>0 DEF Threads, StartUntold, Collect, KickoffRaised, Save, Tell, TellFailure
<1>4. ASSUME NEW to \in Ended \cup {"saving", "telling", "saving_failure", "telling_failure"},
             co' = [co EXCEPT ![r] = to], checkpoint' = checkpoint
      PROVE  CheckpointIsFresh'
  <2>1. \A s \in Runs : co'[s] = "new" <=> co[s] = "new"
    BY <1>0, <1>3, <1>4 DEF CrewTypeOK
  <2> QED
    BY <1>0, <1>1, <1>2, <1>4, <2>1, FreshKept
<1>5. ASSUME NEW to \in Ended \cup {"saving_failure", "telling_failure"}, to # "completed",
             co' = [co EXCEPT ![r] = to], result' = result,
             checkpoint' = checkpoint, faults' = faults
      PROVE  CrewInv'
  <2>1. CheckpointIsFresh'
    BY <1>4, <1>5
  <2> QED
    BY <1>0, <1>1, <1>2, <1>3, <1>5, <2>1, RunCrewMoves
<1>6. CASE StartUntold(r)
  <2>1. CASE Go(r, "raised")
    BY <1>5, <1>6, <2>1 DEF StartUntold, Go, outcome, redis
  <2>2. CASE Go(r, Failing(r))
    BY <1>5, <1>6, <2>2, FailingIsTold DEF StartUntold, Go, outcome, redis
  <2> QED
    BY <1>6, <2>1, <2>2 DEF StartUntold
<1>7. CASE KickoffRaised(r)
  BY <1>5, <1>7, FailingIsTold DEF KickoffRaised, Go, outcome, redis
<1>8. CASE TellFailure(r)
  <2>1. PICK to \in {"raised", "failed"} : co' = [co EXCEPT ![r] = to]
    BY <1>8 DEF TellFailure, Go
  <2> QED
    BY <1>5, <1>8, <2>1 DEF TellFailure, outcome, redis
<1>9. CASE Collect(r)
  <2>1. PICK to \in {"saving", "completed", "telling"} : co' = [co EXCEPT ![r] = to]
    <3>1. CASE kind[r] \in Dev
      BY <1>9, <3>1 DEF Collect, Go, Dev
    <3>2. CASE kind[r] = "fix"
      BY <1>9, <3>2 DEF Collect, Go, Dev
    <3>3. CASE kind[r] \notin Dev \cup {"fix"}
      BY <1>9, <3>3 DEF Collect, Go
    <3> QED
      BY <3>1, <3>2, <3>3
  <2>2. /\ result' = [result EXCEPT ![r] = FinalResult(kind[r], out[r])]
        /\ checkpoint' = checkpoint /\ faults' = faults
        /\ co[r] = "awaiting" /\ thread[r] = "returned"
    BY <1>9 DEF Collect, redis
  <2>3. /\ kind[r] \in Kinds /\ out[r] \in Seq({"own", "blank", "compact"})
        /\ Len(out[r]) = Len(Active(kind[r])) /\ Fits(kind[r], out[r])
    BY <1>0, <2>2 DEF Threads, Outputs, Shapes
  <2>4. Verbatim(FinalResult(kind[r], out[r]), kind[r], out[r])
    BY <2>3, CollectsVerbatim
  <2>5. /\ result'[r] = FinalResult(kind[r], out[r])
        /\ \A s \in Runs : s # r => result'[s] = result[s]
        /\ result' = [s \in Runs |-> result'[s]]
    BY <1>0, <2>2
  <2>6. CheckpointIsFresh'
    BY <1>4, <2>1, <2>2
  <2> QED
    BY <1>0, <1>1, <1>2, <1>3, <2>1, <2>2, <2>4, <2>5, <2>6, RunCrewMoves
<1>10. CASE Save(r)
  <2>1. /\ result' = result /\ co[r] \in {"saving", "saving_failure"}
        /\ co' = [co EXCEPT ![r] = IF co[r] = "saving" THEN "telling" ELSE "telling_failure"]
    BY <1>10 DEF Save, Go, outcome
  <2>2. checkpoint' \in {r, checkpoint} /\ faults' \in 0..MaxFaults
    BY <1>0, <1>10, CrewAssumption DEF CrewAssumption, Save, Fault
  <2>3. checkpoint' \in 0..MaxRuns
    BY <1>0, <2>2 DEF Runs
  <2>4. CheckpointIsFresh'
    <3>1. CASE checkpoint' = checkpoint
      BY <1>4, <2>1, <3>1
    <3>2. CASE checkpoint' = r
      <4> SUFFICES ASSUME NEW s \in Runs, co'[s] # "new",
                          \A t \in Runs : t > s => co'[t] = "new"
                   PROVE  s = r
        BY <3>2 DEF CheckpointIsFresh
      <4>1. ~(s < r)
        BY <1>0, <2>1 DEF CrewTypeOK
      <4>2. ~(s > r)
        BY <1>0, <1>3, <2>1 DEF CrewInv, Sequential, CrewTypeOK
      <4> QED
        BY <4>1, <4>2 DEF Runs
    <3> QED
      BY <2>2, <3>1, <3>2
  <2>5. CASE co[r] = "saving"
    <3>1. thread[r] \in {"returned", "none"} /\ Verbatim(result[r], kind[r], out[r])
      BY <1>0, <2>5 DEF Results
    <3> QED
      BY <1>0, <1>1, <1>2, <1>3, <2>1, <2>2, <2>3, <2>4, <2>5, <3>1, RunCrewMoves
  <2>6. CASE co[r] = "saving_failure"
    BY <1>0, <1>1, <1>2, <1>3, <2>1, <2>2, <2>3, <2>4, <2>6, RunCrewMoves
  <2> QED
    BY <2>1, <2>5, <2>6
<1>11. CASE Tell(r)
  <2>1. checkpoint' = checkpoint /\ faults' = faults
    BY <1>11 DEF Tell, redis
  <2>2. CASE r \notin dead
    <3>1. co' = [co EXCEPT ![r] = "completed"] /\ result' = result
      BY <1>11, <2>2 DEF Tell, Go, outcome
    <3>2. thread[r] \in {"returned", "none"} /\ Verbatim(result[r], kind[r], out[r])
      BY <1>0, <1>11 DEF Results, Tell
    <3>3. CheckpointIsFresh'
      BY <1>4, <2>1, <3>1
    <3> QED
      BY <1>0, <1>1, <1>2, <1>3, <2>1, <3>1, <3>2, <3>3, RunCrewMoves
  <2>3. CASE r \in dead
    <3>1. PICK to \in {"saving_failure", "telling_failure", "failed"} : co' = [co EXCEPT ![r] = to]
      BY <1>11, <2>3, FailingIsTold DEF Tell, Go
    <3>2. result' = [result EXCEPT ![r] = NoResult]
      BY <1>11, <2>3 DEF Tell
    <3>3. /\ \A s \in Runs : s # r => result'[s] = result[s]
          /\ result' = [s \in Runs |-> result'[s]]
      BY <1>0, <3>2
    <3>4. CheckpointIsFresh'
      BY <1>4, <2>1, <3>1
    <3> QED
      BY <1>0, <1>1, <1>2, <1>3, <2>1, <3>1, <3>3, <3>4, RunCrewMoves
  <2> QED
    BY <2>2, <2>3
<1> QED
  BY <1>6, <1>7, <1>8, <1>9, <1>10, <1>11

\* run_crew is cancelled, wherever it is.
LEMMA CrewInvDrop ==
    ASSUME CrewInv, NEW r \in Runs, co[r] \notin Ended \cup {"new"}, Drop(r)
    PROVE  CrewInv'
<1> USE DEF Ended
<1>0. /\ CrewTypeOK /\ Shapes /\ Threads /\ Outputs /\ Results /\ CheckpointIsFresh
      /\ co' = [co EXCEPT ![r] = "dropped"] /\ kind' = kind
      /\ thread' = [thread EXCEPT ![r] = IF @ = "queued" THEN "never" ELSE @]
      /\ out' = [out EXCEPT ![r] = Unread(@)]
      /\ result' = [result EXCEPT ![r] = NoResult]
      /\ checkpoint' = checkpoint /\ faults' = faults /\ dead' = dead
  BY DEF Drop, Go, CrewInv
<1>1. late' \subseteq excused' /\ excused \subseteq excused' /\ excused' \subseteq 0..MaxRuns
  <2>1. r \in 0..MaxRuns /\ late \subseteq excused /\ excused \subseteq 0..MaxRuns
    BY <1>0 DEF Runs, CrewTypeOK
  <2>2. CASE co[r] \in {"saving", "saving_failure"}
    BY <2>1, <2>2 DEF Drop
  <2>3. CASE co[r] \notin {"saving", "saving_failure"}
    BY <2>1, <2>3 DEF Drop
  <2> QED
    BY <2>2, <2>3
<1>2. /\ queue' \in Seq(Runs) /\ IsInjective(queue')
      /\ Range(queue') = Range(queue) \ {r}
  <2>1. CASE thread[r] = "queued"
    <3>1. PICK i \in DOMAIN queue : queue[i] = r /\ queue' = RemoveAt(queue, i)
      BY <2>1 DEF Drop
    <3> QED
      BY <1>0, <3>1, LeaveQueue DEF Shapes, CrewTypeOK
  <2>2. CASE thread[r] # "queued"
    <3>1. queue' = queue /\ r \notin Range(queue)
      BY <1>0, <2>2 DEF Drop, CrewTypeOK
    <3> QED
      BY <1>0, <3>1 DEF Shapes, CrewTypeOK
  <2> QED
    BY <2>1, <2>2
<1>3. /\ out'[r] \in Seq({"own", "blank", "compact"}) /\ Len(out'[r]) = Len(out[r])
      /\ \A s \in Runs : s # r => out'[s] = out[s]
  <2>1. out[r] \in Seq({"own", "blank", "compact"}) /\ out'[r] = Unread(out[r])
    BY <1>0 DEF Shapes
  <2> QED
    BY <1>0, <2>1, UnreadLen DEF Shapes
<1>4. CrewTypeOK'
  <2>1. Cardinality(Working') <= PoolSize
    <3>1. Working' \subseteq Working
      BY <1>0 DEF Working, CrewTypeOK
    <3> QED
      BY <3>1, <1>0, WorkingKept
  <2>2. /\ thread' \in [Runs -> {"none", "queued", "running", "returned", "raised", "never"}]
        /\ co' \in [Runs -> Ended \cup {"new", "built", "awaiting", "saving", "telling",
                                   "saving_failure", "telling_failure"}]
    BY <1>0 DEF CrewTypeOK
  <2>3. Range(queue') = { s \in Runs : thread'[s] = "queued" }
    BY <1>0, <1>2 DEF CrewTypeOK
  <2>4. \A s \in Range(queue') : co'[s] = "awaiting"
    BY <1>0, <1>2 DEF CrewTypeOK
  <2>5. /\ \A s \in Runs : out'[s] \in Seq({"own", "blank", "compact"})
        /\ \A s \in Runs : Len(out'[s]) <= Len(TaskNames)
    BY <1>0, <1>3 DEF CrewTypeOK
  <2> QED
    BY <1>0, <1>1, <1>2, <2>1, <2>2, <2>3, <2>4, <2>5 DEF CrewTypeOK
<1>5. Shapes'
  <2>1. out' \in [Runs -> Seq({"own", "blank", "compact"})]
    BY <1>0, <1>3 DEF Shapes
  <2> QED
    BY <1>0, <1>2, <2>1 DEF Shapes
<1>6. Sequential'
  BY <1>0, SequentialKept
<1>7. CheckpointIsFresh'
  <2>1. \A s \in Runs : co'[s] = "new" <=> co[s] = "new"
    BY <1>0 DEF CrewTypeOK
  <2> QED
    BY <1>0, <1>1, <2>1, FreshKept
<1>8. co'[r] = "dropped" /\ \A s \in Runs : s # r => co'[s] = co[s] /\ thread'[s] = thread[s]
  BY <1>0 DEF CrewTypeOK
<1>9. Threads'
  <2>1. thread'[r] # "queued" /\ (thread'[r] = thread[r] \/ thread'[r] = "never")
    BY <1>0 DEF CrewTypeOK
  <2> QED
    BY <1>0, <1>3, <1>8, <2>1 DEF Threads
<1>10. Outputs'
  BY <1>0, <1>3, <1>8 DEF Outputs
<1>11. Results'
  BY <1>0, <1>3, <1>8 DEF Results, Shapes
<1> QED
  BY <1>4, <1>5, <1>6, <1>7, <1>9, <1>10, <1>11 DEF CrewInv

\* A save that was cancelled under way still arrives; a socket dies.
LEMMA CrewInvLate ==
    ASSUME CrewInv, NEW r \in Runs, LateSave(r) \/ SocketDies(r)
    PROVE  CrewInv'
<1>0. /\ CrewTypeOK /\ Shapes /\ Threads /\ Outputs /\ Results /\ CheckpointIsFresh
      /\ kind' = kind /\ co' = co /\ thread' = thread /\ queue' = queue /\ out' = out
      /\ result' = result /\ excused' = excused /\ faults' = faults
  BY DEF LateSave, SocketDies, CrewInv, pool, outcome, redis
<1>1. /\ checkpoint' = checkpoint \/ checkpoint' \in excused'
      /\ checkpoint' \in 0..MaxRuns /\ dead' \subseteq Runs /\ late' \subseteq late
  BY <1>0 DEF LateSave, SocketDies, redis, CrewTypeOK
<1>2. Working' = Working
  BY <1>0 DEF Working
<1>3. CrewTypeOK'
  BY <1>0, <1>1, <1>2 DEF CrewTypeOK
<1>4. CheckpointIsFresh'
  BY <1>0, <1>1, FreshKept
<1> QED
  BY <1>0, <1>3, <1>4 DEF CrewInv, Shapes, Sequential, Threads, Outputs, Results

\* Every step keeps the invariant.
LEMMA CrewInvNext == CrewInv /\ [CrewNext]_crewVars => CrewInv'
<1> SUFFICES ASSUME CrewInv, [CrewNext]_crewVars PROVE CrewInv'
  OBVIOUS
<1>1. CASE WorkerTakes
  BY <1>1, CrewInvWorker
<1>2. ASSUME NEW r \in Runs, NEW k \in Kinds, Build(r, k) PROVE CrewInv'
  BY <1>2, CrewInvBuild
<1>3. ASSUME NEW r \in Runs, TaskReturns(r) \/ KickoffRaises(r) PROVE CrewInv'
  BY <1>3, CrewInvReturns, CrewInvRaises
<1>4. ASSUME NEW r \in Runs, RunCrew(r) \/ Cancel(r) PROVE CrewInv'
  <2>1. CASE Kickoff(r)
    BY <2>1, CrewInvKickoff
  <2>2. CASE StartUntold(r) \/ Collect(r) \/ KickoffRaised(r) \/ Save(r) \/ Tell(r) \/ TellFailure(r)
    BY <2>2, CrewInvRun
  <2>3. CASE TimesOut(r) \/ Cancel(r)
    <3>1. co[r] \notin Ended \cup {"new"} /\ Drop(r)
      BY <2>3 DEF TimesOut, Cancel
    <3> QED
      BY <3>1, CrewInvDrop
  <2> QED
    BY <1>4, <2>1, <2>2, <2>3 DEF RunCrew
<1>5. ASSUME NEW r \in Runs, LateSave(r) \/ SocketDies(r) PROVE CrewInv'
  BY <1>5, CrewInvLate
<1>6. CASE UNCHANGED crewVars
  <2>1. Working' = Working
    BY <1>6 DEF Working, crewVars, pool
  <2> QED
    BY <1>6, <2>1 DEF CrewInv, CrewTypeOK, Shapes, Sequential, Threads, Outputs, Results,
          CheckpointIsFresh, crewVars, pool, outcome, redis
<1> QED
  BY <1>1, <1>2, <1>3, <1>4, <1>5, <1>6 DEF CrewNext

\* Whatever is cancelled, timed out or left in the pool, the runs of a conversation
\* follow one another, the kickoffs are where their runs say, and what was collected
\* is what the agents wrote (run_crew).
THEOREM CrewInvariant == CrewSpec => []CrewInv
BY CrewInvInit, CrewInvNext, PTL DEF CrewSpec

\* The variables keep their types, the pool has PoolSize threads at most, and a
\* kickoff nobody waits for is not in its queue (loop.run_in_executor).
THEOREM CrewTypes == CrewSpec => []CrewTypeOK
<1>1. CrewInv => CrewTypeOK
  BY DEF CrewInv
<1> QED
  BY <1>1, CrewInvariant, PTL

\* What a completed crew hands over was not condensed, and is the developer's output
\* if there is one, not the deployer's summary (the end of run_crew).
THEOREM HandedOverVerbatim == CrewSpec => []ResultIsVerbatim
<1>1. CrewInv => ResultIsVerbatim
  BY DEF CrewInv, Results, Verbatim, ResultIsVerbatim
<1> QED
  BY <1>1, CrewInvariant, PTL

\* A dev run starts from no other run's checkpoint, but for a deletion that failed
\* and a save that was cancelled under way (_phase_run_crew).
THEOREM StartsFresh == CrewSpec => []CheckpointIsFresh
<1>1. CrewInv => CheckpointIsFresh
  BY DEF CrewInv
<1> QED
  BY <1>1, CrewInvariant, PTL

=============================================================================
