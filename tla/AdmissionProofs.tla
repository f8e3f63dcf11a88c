--------------------------- MODULE AdmissionProofs ---------------------------
(***************************************************************************)
(* Safety of Admission for any number of requests, any caps, windows,      *)
(* delays and failures.                                                    *)
(*                                                                         *)
(* The window holds because of two facts about the requests let through:   *)
(* their entries stay until they are a window old (EntriesKept), so that   *)
(* the count of the next transaction sees every one of them, and they have *)
(* different turns, so that each is checked against those before it.       *)
(***************************************************************************)
EXTENDS Admission, FiniteSetTheorems, TLAPS

\* What a request has of the limiter at each stage.
Stamped == \A r \in Requests :
    /\ stage[r] = "new" => stamp[r] = 0 /\ turn[r] = 0 /\ r \notin blurred
    /\ stage[r] # "new" => stamp[r] > 0
    /\ stage[r] \in {"counting", "refusing"} => turn[r] = 0

\* Each transaction that let a request through has a turn of its own.
TurnsDiffer == \A r, s \in Requests :
    /\ turn[r] <= turns
    /\ turn[r] = turn[s] /\ turn[r] > 0 => r = s

\* The key lives as long as the last entry matters, and no entry is from the
\* future.
KeyOutlives ==
    /\ clock > 0
    /\ ttl <= clock + Window
    /\ \A e \in bucket : e <= clock
    /\ \A r \in Requests : turn[r] > 0 => stamp[r] + Window <= ttl

EntriesKept == \A r \in Counted : stamp[r] + Window > clock => stamp[r] \in bucket

\* Calls end in time.
InTime == \A r \in Requests :
    /\ stage[r] = "counting" => clock <= stamp[r] + Delay
    /\ stage[r] = "caching" => clock <= since[r] + Delay
    /\ stage[r] = "counting" => since[r] = stamp[r]
    /\ stage[r] = "posting" => clock <= since[r] + PortalTimeout
    /\ stage[r] = "caching" => since[r] <= made[r] + PortalTimeout

CacheIsRecent ==
    cache # NoPlan => /\ cache.made <= clock
                      /\ cache.until <= cache.made + PortalTimeout + Delay + PlanTTL
                      /\ clock < cache.until

IInv == /\ TypeOK /\ Stamped /\ TurnsDiffer /\ KeyOutlives /\ EntriesKept
        /\ InTime /\ CacheIsRecent
        /\ WindowRespected /\ OnlyAdmittedCount /\ PlanIsRecent

-----------------------------------------------------------------------------
(* Steps *)

PlanStep(r) ==
    \/ PlanPhase(r) \/ CacheHit(r) \/ CacheMiss(r) \/ Answer(r) \/ Keep(r)
    \/ Offline(r) \/ AllowByDefault(r)

LimiterStep(r) ==
    (\E c \in Caps : Ask(r, c)) \/ Admit(r) \/ Deny(r) \/ FailOpen(r) \/ Withdraw(r)

\* A step is the clock's, nobody's, or one request's in the limiter or in the plan check.
LEMMA NextCases ==
    ASSUME [Next]_vars
    PROVE  \/ Tick
           \/ UNCHANGED vars
           \/ \E r \in Requests : LimiterStep(r) \/ PlanStep(r)
BY Zenon DEF Next, LimiterStep, PlanStep

\* The plan check of an admitted prompt leaves the limiter alone.
LEMMA PlanLeavesLimiter ==
    ASSUME TypeOK, NEW r \in Requests, PlanStep(r)
    PROVE  /\ UNCHANGED <<clock, stamp, cap, turn, turns, bucket, ttl, blurred>>
           /\ stage[r] \in {"admitted", "reading", "posting", "caching"}
           /\ \E to \in {"reading", "posting", "caching", "done"} :
                 stage' = [stage EXCEPT ![r] = to]
<1>1. \E to \in {"reading", "posting", "caching", "done"} : stage' = [stage EXCEPT ![r] = to]
      BY DEF PlanStep, PlanPhase, CacheHit, CacheMiss, Answer, Keep, Offline,
             AllowByDefault, Decide, Go
<1>2. UNCHANGED <<clock, stamp, cap, turn, turns, bucket, ttl, blurred>>
      BY DEF PlanStep, PlanPhase, CacheHit, CacheMiss, Answer, Keep, Offline,
             AllowByDefault, limiter
<1>3. stage[r] \in {"admitted", "reading", "posting", "caching"}
      BY DEF PlanStep, PlanPhase, CacheHit, CacheMiss, Answer, Keep, Offline,
             AllowByDefault
<1> QED BY <1>1, <1>2, <1>3

-----------------------------------------------------------------------------
(* Types *)

\* No stamp, no entry, no cached plan at the start.
LEMMA TypeInit == Init => TypeOK
BY AdmissionAssumption DEF AdmissionAssumption, Init, TypeOK, Stages, Calls, Redis, NoPlan

\* The limiter's steps keep the types: stamps are taken from the clock.
LEMMA TypeLimiter ==
    ASSUME TypeOK, NEW r \in Requests, LimiterStep(r)
    PROVE  TypeOK'
<1> USE AdmissionAssumption DEF AdmissionAssumption, TypeOK, Stages, Calls, Redis, Go,
        limiter, plan, Fault
<1>1. ASSUME NEW c \in Caps, Ask(r, c) PROVE TypeOK'
      BY <1>1 DEF Ask
<1>2. CASE Admit(r) \/ Deny(r) \/ FailOpen(r) \/ Withdraw(r)
  <2>1. bucket' \in SUBSET Nat /\ ttl' \in Nat
    <3>1. /\ bucket' \subseteq bucket \cup {stamp[r]}
          /\ ttl' \in {ttl, clock + Window}
          BY <1>2 DEF Admit, Deny, FailOpen, Withdraw, Enter, Pruned
    <3>2. stamp[r] \in Nat
          OBVIOUS
    <3> QED BY <3>1, <3>2
  <2>2. /\ stage' \in [Requests -> Stages] /\ since' \in [Requests -> Nat]
        /\ \A s \in Requests : since'[s] <= clock
        BY <1>2 DEF Admit, Deny, FailOpen, Withdraw
  <2>3. turns' \in Nat /\ turn' \in [Requests -> Nat] /\ faults' \in Nat
        BY <1>2 DEF Admit, Deny, FailOpen, Withdraw
  <2>4. blurred' \subseteq Requests /\ UNCHANGED <<clock, stamp, cap, cache, made, age>>
        BY <1>2 DEF Admit, Deny, FailOpen, Withdraw
  <2> QED BY <2>1, <2>2, <2>3, <2>4
<1> QED BY <1>1, <1>2 DEF LimiterStep

\* The plan check's steps keep the types: an answer is made no later than it is read.
LEMMA TypePlan ==
    ASSUME IInv, NEW r \in Requests, PlanStep(r)
    PROVE  TypeOK'
<1> USE AdmissionAssumption DEF AdmissionAssumption, IInv, TypeOK, Stages, Calls, Redis, Go,
        limiter, plan, Fault
<1>1. CASE PlanPhase(r)
      BY <1>1 DEF PlanPhase
<1>2. CASE CacheHit(r)
      BY <1>2 DEF CacheHit, Decide, CacheIsRecent
<1>3. CASE CacheMiss(r)
      BY <1>3 DEF CacheMiss
<1>4. CASE Answer(r)
      BY <1>4 DEF Answer
<1>5. CASE Keep(r)
      BY <1>5 DEF Keep, Decide
<1>6. CASE Offline(r)
      BY <1>6 DEF Offline, Decide
<1>7. CASE AllowByDefault(r)
      BY <1>7 DEF AllowByDefault, Decide
<1> QED BY <1>1, <1>2, <1>3, <1>4, <1>5, <1>6, <1>7 DEF PlanStep

\* The clock only runs ahead of what was stamped.
LEMMA TypeTick == ASSUME TypeOK, Tick PROVE TypeOK'
BY DEF TypeOK, Tick, plan, limiter, NoPlan

-----------------------------------------------------------------------------
(* The limiter's part of the invariant *)

LimiterInv == Stamped /\ TurnsDiffer /\ KeyOutlives

\* A step of the limiter keeps stamps, turns and the key's time in order.
LEMMA LimiterSteps ==
    ASSUME IInv, NEW r \in Requests, LimiterStep(r)
    PROVE  LimiterInv'
<1> USE AdmissionAssumption DEF AdmissionAssumption, IInv, TypeOK, Stages, Calls, Redis, Go,
        Fault, LimiterInv, Stamped, TurnsDiffer, KeyOutlives
<1>1. ASSUME NEW c \in Caps, Ask(r, c) PROVE LimiterInv'
      BY <1>1 DEF Ask, limiter
<1>2. CASE Admit(r)
      BY <1>2 DEF Admit, Enter, Pruned, plan
<1>3. CASE Deny(r)
      BY <1>3 DEF Deny, Enter, Pruned, plan
<1>4. CASE FailOpen(r)
  <2>1. CASE Enter(r)
        BY <1>4, <2>1 DEF FailOpen, Enter, Pruned, plan
  <2>2. CASE UNCHANGED <<bucket, ttl>>
        BY <1>4, <2>2 DEF FailOpen, plan
  <2> QED BY <1>4, <2>1, <2>2 DEF FailOpen
<1>5. CASE Withdraw(r)
      BY <1>5 DEF Withdraw, plan
<1> QED BY <1>1, <1>2, <1>3, <1>4, <1>5 DEF LimiterStep

\* A step outside the limiter leaves its counts as they were.
LEMMA LimiterQuiet ==
    ASSUME IInv, [Next]_vars, ~ \E r \in Requests : LimiterStep(r)
    PROVE  LimiterInv'
<1> USE DEF IInv, LimiterInv, Stamped, TurnsDiffer, KeyOutlives
<1>1. CASE Tick
  <2>1. /\ UNCHANGED <<stage, stamp, turn, turns, ttl, blurred>>
        /\ clock' = clock + 1 /\ clock \in Nat /\ ttl \in Nat /\ bucket \in SUBSET Nat
        /\ bucket' \in {bucket, {}}
        BY <1>1 DEF Tick, TypeOK
  <2>2. Stamped' /\ TurnsDiffer'
        BY <2>1
  <2>3. KeyOutlives'
        BY <2>1, AdmissionAssumption DEF TypeOK, AdmissionAssumption
  <2> QED BY <2>2, <2>3
<1>2. CASE UNCHANGED vars
      BY <1>2 DEF vars, limiter, plan
<1>3. ASSUME NEW r \in Requests, PlanStep(r) PROVE LimiterInv'
  <2>1. PICK to \in {"reading", "posting", "caching", "done"} :
          stage' = [stage EXCEPT ![r] = to]
        BY <1>3, PlanLeavesLimiter
  <2>2. /\ UNCHANGED <<clock, stamp, cap, turn, turns, bucket, ttl, blurred>>
        /\ stage[r] \in {"admitted", "reading", "posting", "caching"}
        BY <1>3, PlanLeavesLimiter
  <2> QED BY <2>1, <2>2 DEF TypeOK
<1> QED BY <1>1, <1>2, <1>3, NextCases

-----------------------------------------------------------------------------
(* Calls end in time; the cache *)

\* The limiter touches neither the age of a transaction nor the cached plan.
LEMMA TimeLimiter ==
    ASSUME IInv, NEW r \in Requests, LimiterStep(r)
    PROVE  InTime' /\ CacheIsRecent' /\ PlanIsRecent'
<1> USE AdmissionAssumption DEF AdmissionAssumption, IInv, TypeOK, Go, Calls, Redis,
        InTime, CacheIsRecent, PlanIsRecent, NoPlan
<1>1. ASSUME NEW c \in Caps, Ask(r, c) PROVE InTime' /\ CacheIsRecent' /\ PlanIsRecent'
      BY <1>1 DEF Ask, plan
<1>2. CASE Admit(r)
      BY <1>2 DEF Admit, plan
<1>3. CASE Deny(r)
      BY <1>3 DEF Deny, plan
<1>4. CASE FailOpen(r)
      BY <1>4 DEF FailOpen, plan
<1>5. CASE Withdraw(r)
      BY <1>5 DEF Withdraw, plan
<1> QED BY <1>1, <1>2, <1>3, <1>4, <1>5 DEF LimiterStep

\* An answer is cached within the time of the call that brought it.
LEMMA TimePlan ==
    ASSUME IInv, NEW r \in Requests, PlanStep(r)
    PROVE  InTime' /\ CacheIsRecent' /\ PlanIsRecent'
<1> USE AdmissionAssumption DEF AdmissionAssumption, IInv, TypeOK, Go, Calls, Redis,
        InTime, CacheIsRecent, PlanIsRecent, NoPlan
<1>1. CASE PlanPhase(r)
      BY <1>1 DEF PlanPhase, plan
<1>2. CASE CacheHit(r)
      BY <1>2 DEF CacheHit, Decide
<1>3. CASE CacheMiss(r)
      BY <1>3 DEF CacheMiss, plan
<1>4. CASE Answer(r)
      BY <1>4 DEF Answer
<1>5. CASE Keep(r)
      BY <1>5 DEF Keep, Decide
<1>6. CASE Offline(r)
      BY <1>6 DEF Offline, Decide
<1>7. CASE AllowByDefault(r)
      BY <1>7 DEF AllowByDefault, Decide
<1> QED BY <1>1, <1>2, <1>3, <1>4, <1>5, <1>6, <1>7 DEF PlanStep

\* The clock stops for a call or a transaction that is at its limit, and expires the cache.
LEMMA TimeTick ==
    ASSUME IInv, Tick
    PROVE  InTime' /\ CacheIsRecent' /\ PlanIsRecent'
BY AdmissionAssumption
   DEF AdmissionAssumption, IInv, TypeOK, Calls, Redis, Tick, InTime, CacheIsRecent,
       PlanIsRecent, NoPlan

-----------------------------------------------------------------------------
(* The window *)

\* Asking takes an instant from no request that has been counted.
LEMMA AskCountsNoOneIn ==
    ASSUME IInv, NEW r \in Requests, NEW c \in Caps, Ask(r, c)
    PROVE  Counted' \subseteq Counted /\ r \notin Counted'
<1> USE DEF IInv, TypeOK, Stamped, Ask, Counted, Unshared, limiter
<1>1. r \notin Counted'
      OBVIOUS
<1>2. ASSUME NEW a \in Counted' PROVE a \in Counted
  <2>1. a # r /\ turn[a] > 0 /\ stamp'[a] = stamp[a] /\ stamp[a] > 0
        BY <1>1, <1>2
  <2>2. ASSUME NEW s \in Requests, stamp[s] = stamp[a] PROVE s = a
    <3>1. s # r
          BY <2>1, <2>2
    <3> QED BY <3>1, <2>2, <1>2
  <2> QED BY <2>1, <2>2
<1> QED BY <1>1, <1>2

\* A transaction finds the entry of every counted request that is not a window
\* old, and leaves it there.
LEMMA EnterKeeps ==
    ASSUME IInv, NEW r \in Requests, stage[r] = "counting", Enter(r), NEW a \in Counted,
           stamp[a] + Window > clock
    PROVE  stamp[a] \in Pruned(r) /\ stamp[a] \in bucket'
BY AdmissionAssumption
   DEF AdmissionAssumption, IInv, TypeOK, EntriesKept, Counted, Enter, Pruned

\* A pruning, a rollback and an expiry leave the entries that still count.
LEMMA EntriesLimiter ==
    ASSUME IInv, NEW r \in Requests, LimiterStep(r)
    PROVE  EntriesKept'
<1> USE DEF EntriesKept
<1>1. ASSUME NEW c \in Caps, Ask(r, c) PROVE EntriesKept'
  <2>1. ASSUME NEW a \in Counted' PROVE stamp'[a] = stamp[a] /\ a \in Counted
        BY <1>1, <2>1, AskCountsNoOneIn DEF Ask, IInv, TypeOK, Counted
  <2> QED BY <1>1, <2>1 DEF Ask, limiter, IInv
<1>2. CASE Admit(r)
  <2>1. stage[r] = "counting" /\ Enter(r) /\ UNCHANGED <<clock, stamp>>
        BY <1>2 DEF Admit
  <2>2. ASSUME NEW a \in Counted', a # r PROVE a \in Counted
        BY <1>2, <2>2 DEF Admit, Counted, Unshared, IInv, TypeOK
  <2>3. stamp[r] \in bucket'
        BY <2>1 DEF Enter
  <2>4. ASSUME NEW a \in Counted', stamp[a] + Window > clock PROVE stamp[a] \in bucket'
        BY <2>1, <2>2, <2>3, <2>4, EnterKeeps
  <2> QED BY <2>1, <2>4
<1>3. CASE Deny(r) \/ FailOpen(r)
  <2>1. stage[r] = "counting" /\ UNCHANGED <<clock, stamp, turn>>
        BY <1>3 DEF Deny, FailOpen
  <2>2. Enter(r) \/ bucket' = bucket
        BY <1>3 DEF Deny, FailOpen
  <2>3. Counted' = Counted
        BY <2>1 DEF Counted, Unshared
  <2> QED BY <2>1, <2>2, <2>3, EnterKeeps DEF IInv
<1>4. CASE Withdraw(r)
  <2>1. UNCHANGED <<clock, stamp, turn>> /\ turn[r] = 0
        BY <1>4 DEF Withdraw, IInv, Stamped
  <2>2. Counted' = Counted
        BY <2>1 DEF Counted, Unshared
  <2>3. bucket \ {stamp[r]} \subseteq bucket'
        BY <1>4 DEF Withdraw
  <2>4. \A a \in Counted : stamp[a] # stamp[r]
        BY <2>1 DEF Counted, Unshared
  <2> QED BY <2>1, <2>2, <2>3, <2>4 DEF IInv
<1> QED BY <1>1, <1>2, <1>3, <1>4 DEF LimiterStep

\* A request that a transaction lets through sees, in the count, all those before
\* it in its hour.
LEMMA AdmitWithinCap ==
    ASSUME IInv, NEW r \in Requests, Admit(r)
    PROVE  Cardinality(InHourOf(r)') <= cap[r]
<1> DEFINE Before == InHourOf(r)' \ {r}
<1>1. stage[r] = "counting" /\ Enter(r) /\ UNCHANGED <<clock, stamp, cap>>
      BY DEF Admit
<1>2. clock <= stamp[r] + Delay
      BY <1>1 DEF IInv, InTime
<1>3. ASSUME NEW a \in Before
      PROVE  a \in Counted /\ stamp[a] \in Pruned(r)
  <2>1. a \in Counted
        BY <1>3 DEF Admit, Counted, Unshared, InHourOf, IInv, TypeOK
  <2>2. stamp[a] + Window > stamp[r] + Delay
        BY <1>1, <1>3 DEF InHourOf
  <2>3. stamp[a] + Window > clock
        BY <1>2, <2>1, <2>2, AdmissionAssumption
        DEF AdmissionAssumption, IInv, TypeOK, Counted
  <2> QED BY <1>1, <2>1, <2>3, EnterKeeps
<1>4. IsFiniteSet(Before)
  <2>1. Before \subseteq Requests
        BY DEF InHourOf, Counted
  <2> QED BY <2>1, FS_Subset, AdmissionAssumption DEF AdmissionAssumption
<1>5. IsFiniteSet(Pruned(r))
  <2>1. Pruned(r) \in SUBSET Nat /\ \A e \in Pruned(r) : e <= clock
        BY DEF Pruned, IInv, TypeOK, KeyOutlives
  <2> QED BY <2>1, FS_BoundedSetOfNaturals DEF IInv, TypeOK
<1>6. Cardinality(Before) <= Cardinality(Pruned(r))
  <2>1. SUFFICES ASSUME Cardinality(Pruned(r)) < Cardinality(Before) PROVE FALSE
        BY <1>4, <1>5, FS_CardinalityType
  <2> DEFINE place == [a \in Before |-> stamp[a]]
  <2>2. place \in [Before -> Pruned(r)] /\ \A a \in Before : place[a] = stamp[a]
        BY <1>3
  <2> HIDE DEF Before, place
  <2>3. PICK a, b \in Before : a # b /\ place[a] = place[b]
        BY <1>4, <1>5, <2>1, <2>2, FS_PigeonHole
  <2>4. stamp[a] = stamp[b]
        BY <2>2, <2>3
  <2> QED BY <1>3, <2>3, <2>4 DEF Counted, Unshared
<1>7. Cardinality(Pruned(r)) < cap[r] /\ cap[r] \in Nat
      BY DEF Admit, IInv, TypeOK
<1>8. IsFiniteSet(InHourOf(r)') /\ Cardinality(InHourOf(r)') <= Cardinality(Before) + 1
  <2>1. InHourOf(r)' \subseteq Requests
        BY DEF InHourOf, Counted
  <2>2. IsFiniteSet(InHourOf(r)')
        BY <2>1, FS_Subset, AdmissionAssumption DEF AdmissionAssumption
  <2>3. Cardinality(Before) = IF r \in InHourOf(r)' THEN Cardinality(InHourOf(r)') - 1
                                                    ELSE Cardinality(InHourOf(r)')
        BY <2>2, FS_RemoveElement
  <2> QED BY <1>4, <2>2, <2>3, FS_CardinalityType
<1>9. Cardinality(Before) \in Nat /\ Cardinality(InHourOf(r)') \in Nat
      /\ Cardinality(Pruned(r)) \in Nat
      BY <1>4, <1>5, <1>8, FS_CardinalityType
<1> QED BY <1>6, <1>7, <1>8, <1>9

\* Whoever is let through has counted all those let through before it.
LEMMA WindowLimiter ==
    ASSUME IInv, NEW r \in Requests, LimiterStep(r)
    PROVE  WindowRespected'
<1>1. ASSUME NEW c \in Caps, Ask(r, c) PROVE WindowRespected'
  <2>1. SUFFICES ASSUME NEW b \in Counted'
                 PROVE  Cardinality(InHourOf(b)') <= cap'[b]
        BY DEF WindowRespected
  <2>2. b \in Counted /\ b # r /\ b \in Requests
        BY <1>1, <2>1, AskCountsNoOneIn DEF Counted
  <2>3. cap'[b] = cap[b] /\ cap[b] \in Nat
        BY <1>1, <2>2 DEF Ask, IInv, TypeOK
  <2>4. ASSUME NEW a \in InHourOf(b)' PROVE a \in InHourOf(b)
    <3>1. a \in Counted /\ a # r
          BY <1>1, <2>4, AskCountsNoOneIn DEF InHourOf
    <3> QED BY <1>1, <2>2, <2>4, <3>1 DEF InHourOf, Ask, limiter, IInv, TypeOK, Counted
  <2>5. IsFiniteSet(InHourOf(b))
    <3>1. InHourOf(b) \subseteq Requests
          BY DEF InHourOf, Counted
    <3> QED BY <3>1, FS_Subset, AdmissionAssumption DEF AdmissionAssumption
  <2>6. InHourOf(b)' \in SUBSET InHourOf(b)
        BY <2>4
  <2>7. /\ IsFiniteSet(InHourOf(b)')
        /\ Cardinality(InHourOf(b)') <= Cardinality(InHourOf(b))
        BY <2>5, <2>6, FS_Subset
  <2>8. Cardinality(InHourOf(b)') \in Nat /\ Cardinality(InHourOf(b)) \in Nat
        BY <2>5, <2>7, FS_CardinalityType
  <2>9. Cardinality(InHourOf(b)) <= cap[b]
        BY <2>2 DEF IInv, WindowRespected
  <2> QED BY <2>3, <2>7, <2>8, <2>9
<1>2. CASE Admit(r)
  <2>1. SUFFICES ASSUME NEW b \in Counted'
                 PROVE  Cardinality(InHourOf(b)') <= cap'[b]
        BY DEF WindowRespected
  <2>2. CASE b = r
        BY <1>2, <2>2, AdmitWithinCap DEF Admit
  <2>3. CASE b # r
    <3>1. b \in Counted /\ UNCHANGED <<stamp, cap>>
          BY <1>2, <2>3 DEF Admit, Counted, Unshared, IInv, TypeOK
    <3>2. turn' = [turn EXCEPT ![r] = turns + 1] /\ turn[b] <= turns /\ turns \in Nat
          /\ turn[b] \in Nat /\ turn \in [Requests -> Nat] /\ turn[r] = 0
          BY <1>2, <3>1 DEF Admit, IInv, TypeOK, TurnsDiffer, Counted, Stamped
    <3>3. InHourOf(b)' = InHourOf(b)
      <4>1. ASSUME NEW a \in Requests, a # r PROVE a \in InHourOf(b)' <=> a \in InHourOf(b)
            BY <2>3, <3>1, <3>2, <4>1 DEF InHourOf, Counted, Unshared
      <4>2. r \notin InHourOf(b) /\ r \notin InHourOf(b)'
            BY <2>3, <3>1, <3>2 DEF InHourOf, Counted
      <4> QED BY <4>1, <4>2 DEF InHourOf, Counted
    <3> QED BY <3>1, <3>3 DEF IInv, WindowRespected
  <2> QED BY <2>2, <2>3
<1>3. CASE Deny(r) \/ FailOpen(r) \/ Withdraw(r)
  <2>1. UNCHANGED <<stamp, cap, turn>>
        BY <1>3 DEF Deny, FailOpen, Withdraw
  <2> QED BY <2>1 DEF IInv, WindowRespected, Counted, Unshared, InHourOf
<1> QED BY <1>1, <1>2, <1>3 DEF LimiterStep

-----------------------------------------------------------------------------
(* Who has a place *)

\* A refused request's place is given back, or a fault is on record.
LEMMA PlacesLimiter ==
    ASSUME IInv, NEW r \in Requests, LimiterStep(r)
    PROVE  OnlyAdmittedCount'
<1> USE DEF IInv, TypeOK, OnlyAdmittedCount, Go
<1>1. ASSUME NEW c \in Caps, Ask(r, c) PROVE OnlyAdmittedCount'
      BY <1>1 DEF Ask, limiter, Stamped
<1>2. CASE Admit(r)
      BY <1>2 DEF Admit, Enter, Pruned
<1>3. CASE Deny(r)
      BY <1>3 DEF Deny, Enter, Pruned
<1>4. CASE FailOpen(r)
      BY <1>4 DEF FailOpen, Enter, Pruned
<1>5. CASE Withdraw(r)
      BY <1>5, ZenonT(30) DEF Withdraw
<1> QED BY <1>1, <1>2, <1>3, <1>4, <1>5 DEF LimiterStep

-----------------------------------------------------------------------------
(* Steps of the plan check and of the clock *)

\* Outside the limiter only time passes, which leaves fewer requests in a window.
LEMMA WindowQuiet ==
    ASSUME IInv, [Next]_vars, ~ \E r \in Requests : LimiterStep(r)
    PROVE  EntriesKept' /\ WindowRespected' /\ OnlyAdmittedCount'
<1>1. UNCHANGED <<stamp, cap, turn, blurred>>
  <2>1. CASE Tick
        BY <2>1 DEF Tick
  <2>2. CASE UNCHANGED vars
        BY <2>2 DEF vars, limiter
  <2>3. ASSUME NEW r \in Requests, PlanStep(r) PROVE UNCHANGED <<stamp, cap, turn, blurred>>
        BY <2>3, PlanLeavesLimiter DEF IInv
  <2> QED BY <2>1, <2>2, <2>3, NextCases
<1>2. WindowRespected'
      BY <1>1 DEF IInv, WindowRespected, Counted, Unshared, InHourOf
<1>3. Counted' = Counted
      BY <1>1 DEF Counted, Unshared
<1>4. CASE Tick
  <2>1. clock' = clock + 1 /\ bucket' = IF clock + 1 >= ttl THEN {} ELSE bucket
        BY <1>4 DEF Tick
  <2>2. EntriesKept'
        BY <1>1, <1>3, <2>1, AdmissionAssumption
        DEF IInv, EntriesKept, KeyOutlives, Counted, TypeOK, AdmissionAssumption
  <2>3. OnlyAdmittedCount'
        BY <1>4, <2>1 DEF IInv, OnlyAdmittedCount, Tick
  <2> QED BY <1>2, <2>2, <2>3
<1>5. CASE UNCHANGED vars
      BY <1>2, <1>3, <1>5 DEF IInv, EntriesKept, OnlyAdmittedCount, vars, limiter
<1>6. ASSUME NEW r \in Requests, PlanStep(r) PROVE EntriesKept' /\ OnlyAdmittedCount'
  <2>1. PICK to \in {"reading", "posting", "caching", "done"} :
          stage' = [stage EXCEPT ![r] = to]
        BY <1>6, PlanLeavesLimiter DEF IInv
  <2>2. /\ UNCHANGED <<clock, stamp, cap, turn, turns, bucket, ttl, blurred>>
        /\ stage[r] \in {"admitted", "reading", "posting", "caching"}
        BY <1>6, PlanLeavesLimiter DEF IInv
  <2>3. EntriesKept'
        BY <1>3, <2>2 DEF IInv, EntriesKept
  <2>4. OnlyAdmittedCount'
        BY <2>1, <2>2 DEF IInv, OnlyAdmittedCount, TypeOK
  <2> QED BY <2>3, <2>4
<1> QED BY <1>2, <1>4, <1>5, <1>6, NextCases

-----------------------------------------------------------------------------
(* The theorems *)

\* Nothing has been asked at the start.
LEMMA InvInit == Init => IInv
<1> SUFFICES ASSUME Init PROVE IInv
    OBVIOUS
<1>1. TypeOK
      BY TypeInit
<1>2. Stamped /\ TurnsDiffer /\ KeyOutlives
      BY AdmissionAssumption DEF Init, Stamped, TurnsDiffer, KeyOutlives, AdmissionAssumption
<1>3. Counted = {}
      BY DEF Init, Counted
<1>4. EntriesKept /\ WindowRespected
      BY <1>3 DEF EntriesKept, WindowRespected
<1>5. InTime /\ CacheIsRecent
      BY DEF Init, InTime, CacheIsRecent
<1>6. OnlyAdmittedCount
      BY DEF Init, OnlyAdmittedCount
<1>7. PlanIsRecent
      BY AdmissionAssumption DEF Init, PlanIsRecent, AdmissionAssumption
<1> QED BY <1>1, <1>2, <1>4, <1>5, <1>6, <1>7 DEF IInv

\* Every step keeps the invariant.
LEMMA InvStep == IInv /\ [Next]_vars => IInv'
<1> SUFFICES ASSUME IInv, [Next]_vars PROVE IInv'
    OBVIOUS
<1>1. CASE \E r \in Requests : LimiterStep(r)
  <2>1. PICK r \in Requests : LimiterStep(r)
        BY <1>1
  <2>2. TypeOK'
        BY <2>1, TypeLimiter DEF IInv
  <2>3. Stamped' /\ TurnsDiffer' /\ KeyOutlives'
        BY <2>1, LimiterSteps DEF LimiterInv
  <2>4. InTime' /\ CacheIsRecent' /\ PlanIsRecent'
        BY <2>1, TimeLimiter
  <2>5. EntriesKept' /\ WindowRespected' /\ OnlyAdmittedCount'
        BY <2>1, EntriesLimiter, WindowLimiter, PlacesLimiter
  <2> QED BY <2>2, <2>3, <2>4, <2>5 DEF IInv
<1>2. CASE ~ \E r \in Requests : LimiterStep(r)
  <2>1. Stamped' /\ TurnsDiffer' /\ KeyOutlives'
        BY <1>2, LimiterQuiet DEF LimiterInv
  <2>2. EntriesKept' /\ WindowRespected' /\ OnlyAdmittedCount'
        BY <1>2, WindowQuiet
  <2>3. CASE Tick
        BY <2>1, <2>2, <2>3, TypeTick, TimeTick DEF IInv
  <2>4. ASSUME NEW r \in Requests, PlanStep(r) PROVE IInv'
        BY <2>1, <2>2, <2>4, TypePlan, TimePlan DEF IInv
  <2>5. CASE UNCHANGED vars
    <3>1. TypeOK'
          BY <2>5 DEF IInv, TypeOK, vars, limiter, plan
    <3>2. InTime' /\ CacheIsRecent' /\ PlanIsRecent'
          BY <2>5 DEF IInv, InTime, CacheIsRecent, PlanIsRecent, vars, limiter, plan
    <3> QED BY <2>1, <2>2, <3>1, <3>2 DEF IInv
  <2> QED BY <1>2, <2>3, <2>4, <2>5, NextCases
<1> QED BY <1>1, <1>2

\* Everything below holds in every reachable state: how the limiter keeps the
\* window and check_plan its cache.
THEOREM AdmissionInvariant == Spec => []IInv
BY InvInit, InvStep, PTL DEF Spec

\* The variables keep their types for any caps, windows and delays.
THEOREM AdmissionTypes == Spec => []TypeOK
<1>1. IInv => TypeOK
      BY DEF IInv
<1> QED BY <1>1, AdmissionInvariant, PTL

\* However many prompts of a user ask at once over REST and WebSocket, and however
\* Redis delays and fails, check_rate_limit lets through no request above its cap.
THEOREM NoOneOverTheCap == Spec => []WindowRespected
<1>1. IInv => WindowRespected
      BY DEF IInv
<1> QED BY <1>1, AdmissionInvariant, PTL

\* A refusal costs no place in the window, for any order of transactions and
\* rollbacks.
THEOREM RefusalsAreFree == Spec => []OnlyAdmittedCount
<1>1. IInv => OnlyAdmittedCount
      BY DEF IInv
<1> QED BY <1>1, AdmissionInvariant, PTL

\* The age of the answer of check_plan is bounded, for any number of requests that
\* miss the cache at once and write it in any order.
THEOREM PlansAreRecent == Spec => []PlanIsRecent
<1>1. IInv => PlanIsRecent
      BY DEF IInv
<1> QED BY <1>1, AdmissionInvariant, PTL
=============================================================================
