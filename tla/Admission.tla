------------------------------ MODULE Admission ------------------------------
(***************************************************************************)
(* What stands between a prompt of one user and its run: the sliding       *)
(* window of check_rate_limit, which REST and WebSocket prompts share, and *)
(* the plan check with its cache (alfred/middleware/rate_limit.py,         *)
(* alfred/api/admin_client.py, _phase_plan_check of _phases_setup.py).     *)
(*                                                                         *)
(* Requests are coroutines; a Redis call or a call of the admin portal is  *)
(* an await that other requests come in between, and takes at most Delay,  *)
(* respectively PortalTimeout.  Time is counted in ticks.                  *)
(***************************************************************************)
EXTENDS Integers, FiniteSets

CONSTANTS Requests,       \* prompts and REST submissions of the user
          Caps,           \* max_per_hour: REST's own, and the site's over WebSocket
          Window,         \* the hour of the sliding window
          Delay,          \* how long a Redis call may be under way
          PlanTTL,        \* PLAN_CACHE_TTL
          PortalTimeout,  \* the timeout of the httpx client
          MaxTime,        \* bound: ticks of the clock
          MaxFaults       \* bound: Redis calls that fail

ASSUME AdmissionAssumption ==
    /\ IsFiniteSet(Requests)
    /\ Caps \subseteq Nat \ {0}
    /\ Window \in Nat /\ Delay \in Nat /\ PlanTTL \in Nat \ {0} /\ PortalTimeout \in Nat
    /\ MaxTime \in Nat /\ MaxFaults \in Nat

VARIABLES clock,
          stage,    \* where a request is
          stamp,    \* its `now`
          cap,      \* its max_per_hour
          since,    \* when its current call went out
          turn,     \* its place among the transactions that admitted, 0 for none
          turns,    \* transactions that admitted so far
          bucket,   \* the sorted set: stamps, which are members and scores
          ttl,      \* when the key expires
          blurred,  \* history: requests whose transaction or rollback failed
          cache,    \* plan_cache: when the portal made the answer, until when it is kept
          made,     \* when the answer that a request is caching was made
          age,      \* how old the answer was that a request went by
          faults

limiter == <<turn, turns, bucket, ttl, blurred>>
plan    == <<cache, made, age>>
vars == <<clock, stage, stamp, cap, since, limiter, plan, faults>>

Redis  == {"counting", "refusing", "reading", "caching"}
Calls  == Redis \cup {"posting"}
Stages == {"new", "admitted", "refused", "done"} \cup Calls
NoPlan == [made |-> 0, until |-> 0]

Init ==
    /\ clock = 1
    /\ stage = [r \in Requests |-> "new"]
    /\ stamp = [r \in Requests |-> 0]
    /\ cap = [r \in Requests |-> 0]
    /\ since = [r \in Requests |-> 0]
    /\ turn = [r \in Requests |-> 0]
    /\ turns = 0
    /\ bucket = {}
    /\ ttl = 0
    /\ blurred = {}
    /\ cache = NoPlan
    /\ made = [r \in Requests |-> 0]
    /\ age = [r \in Requests |-> 0]
    /\ faults = 0

\* The request goes on; a call it makes is under way from now.
Go(r, to) ==
    /\ stage' = [stage EXCEPT ![r] = to]
    /\ since' = [since EXCEPT ![r] = IF to \in Calls THEN clock ELSE 0]

Fault == faults < MaxFaults /\ faults' = faults + 1

-----------------------------------------------------------------------------
(* check_rate_limit *)

\* `now` is read before the transaction is awaited.
Ask(r, c) ==
    /\ stage[r] = "new"
    /\ Go(r, "counting")
    /\ stamp' = [stamp EXCEPT ![r] = clock]
    /\ cap' = [cap EXCEPT ![r] = c]
    /\ UNCHANGED <<clock, limiter, plan, faults>>

\* zremrangebyscore of what the window has left behind.
Pruned(r) == { e \in bucket : e > stamp[r] - Window }

\* zadd and expire, in the same transaction as the count.
Enter(r) ==
    /\ bucket' = Pruned(r) \cup {stamp[r]}
    /\ ttl' = clock + Window

\* The count is compared after the entry was added.
AdmitOneMore(r) ==
    /\ stage[r] = "counting"
    /\ Cardinality(Pruned(r)) <= cap[r]
    /\ Enter(r)
    /\ turns' = turns + 1
    /\ turn' = [turn EXCEPT ![r] = turns + 1]
    /\ Go(r, "admitted")
    /\ UNCHANGED <<clock, stamp, cap, blurred, plan, faults>>

Admit(r) ==
    /\ stage[r] = "counting"
    /\ Cardinality(Pruned(r)) < cap[r]
    /\ Enter(r)
    /\ turns' = turns + 1
    /\ turn' = [turn EXCEPT ![r] = turns + 1]
    /\ Go(r, "admitted")
    /\ UNCHANGED <<clock, stamp, cap, blurred, plan, faults>>

Deny(r) ==
    /\ stage[r] = "counting"
    /\ Cardinality(Pruned(r)) >= cap[r]
    /\ Enter(r)
    /\ Go(r, "refusing")
    /\ UNCHANGED <<clock, stamp, cap, turn, turns, blurred, plan, faults>>

\* Redis fails, before or after it ran the transaction: the request passes.
FailOpen(r) ==
    /\ stage[r] = "counting"
    /\ Fault
    /\ Enter(r) \/ UNCHANGED <<bucket, ttl>>
    /\ blurred' = blurred \cup {r}
    /\ Go(r, "admitted")
    /\ UNCHANGED <<clock, stamp, cap, turn, turns, plan>>

\* The oldest entry goes, the one zrange has read.
WithdrawOldest(r) ==
    /\ stage[r] = "refusing"
    /\ \/ /\ bucket' = { e \in bucket : \E d \in bucket : d < e }
          /\ UNCHANGED <<blurred, faults>>
       \/ Fault /\ blurred' = blurred \cup {r} /\ UNCHANGED bucket
    /\ Go(r, "refused")
    /\ UNCHANGED <<clock, stamp, cap, turn, turns, ttl, plan>>

\* zrem of the entry that the refused request has just added.
Withdraw(r) ==
    /\ stage[r] = "refusing"
    /\ \/ bucket' = bucket \ {stamp[r]} /\ UNCHANGED <<blurred, faults>>
       \/ Fault /\ blurred' = blurred \cup {r} /\ UNCHANGED bucket
    /\ Go(r, "refused")
    /\ UNCHANGED <<clock, stamp, cap, turn, turns, ttl, plan>>

-----------------------------------------------------------------------------
(* check_plan *)

Decide(r, t) ==
    /\ Go(r, "done")
    /\ made' = [made EXCEPT ![r] = 0]
    /\ age' = [age EXCEPT ![r] = clock - t]

\* An admitted prompt reaches the phase, unless it is refused as busy or ends
\* before.
PlanPhase(r) ==
    /\ stage[r] = "admitted"
    /\ Go(r, "reading")
    /\ UNCHANGED <<clock, stamp, cap, limiter, plan, faults>>

\* Every use renews the key.
CacheHitRenewing(r) ==
    /\ stage[r] = "reading"
    /\ cache # NoPlan
    /\ Decide(r, cache.made)
    /\ cache' = [cache EXCEPT !.until = clock + PlanTTL]
    /\ UNCHANGED <<clock, stamp, cap, limiter, faults>>

CacheHit(r) ==
    /\ stage[r] = "reading"
    /\ cache # NoPlan
    /\ Decide(r, cache.made)
    /\ UNCHANGED <<clock, stamp, cap, limiter, cache, faults>>

CacheMiss(r) ==
    /\ stage[r] = "reading"
    /\ cache = NoPlan
    /\ Go(r, "posting")
    /\ UNCHANGED <<clock, stamp, cap, limiter, plan, faults>>

\* The answer carries its own time.
AnswerAhead(r) ==
    /\ stage[r] = "posting"
    /\ made' = [made EXCEPT ![r] = since[r] + PortalTimeout]
    /\ Go(r, "caching")
    /\ UNCHANGED <<clock, stamp, cap, limiter, cache, age, faults>>

\* The portal answers as of some time during the call.
Answer(r) ==
    /\ stage[r] = "posting"
    /\ \E t \in since[r]..clock : made' = [made EXCEPT ![r] = t]
    /\ Go(r, "caching")
    /\ UNCHANGED <<clock, stamp, cap, limiter, cache, age, faults>>

\* setex, over whatever another request has cached meanwhile.
Keep(r) ==
    /\ stage[r] = "caching"
    /\ cache' = [made |-> made[r], until |-> clock + PlanTTL]
    /\ Decide(r, made[r])
    /\ UNCHANGED <<clock, stamp, cap, limiter, faults>>

\* The portal is out of reach: allowed, as of now, and not cached.
Offline(r) ==
    /\ stage[r] = "posting"
    /\ Decide(r, clock)
    /\ UNCHANGED <<clock, stamp, cap, limiter, cache, faults>>

\* A Redis error leaves check_plan; the phase allows by default.
AllowByDefault(r) ==
    /\ stage[r] \in {"reading", "caching"}
    /\ Fault
    /\ Decide(r, clock)
    /\ UNCHANGED <<clock, stamp, cap, limiter, cache>>

-----------------------------------------------------------------------------

\* No call is under way for longer than its limit; a key is gone once its time
\* is up.
Tick ==
    /\ clock < MaxTime
    /\ \A r \in Requests :
         /\ stage[r] \in Redis => clock < since[r] + Delay
         /\ stage[r] = "posting" => clock < since[r] + PortalTimeout
    /\ clock' = clock + 1
    /\ bucket' = IF clock + 1 >= ttl THEN {} ELSE bucket
    /\ cache' = IF clock + 1 >= cache.until THEN NoPlan ELSE cache
    /\ UNCHANGED <<stage, stamp, cap, since, turn, turns, ttl, blurred, made, age, faults>>

Next ==
    \/ \E r \in Requests :
         \/ \E c \in Caps : Ask(r, c)
         \/ Admit(r) \/ Deny(r) \/ FailOpen(r) \/ Withdraw(r)
         \/ PlanPhase(r) \/ CacheHit(r) \/ CacheMiss(r) \/ Answer(r) \/ Keep(r)
         \/ Offline(r) \/ AllowByDefault(r)
    \/ Tick

Spec == Init /\ [][Next]_vars

-----------------------------------------------------------------------------
(* Properties *)

\* Types of the variables; a stamp is never ahead of the clock.
TypeOK ==
    /\ clock \in Nat
    /\ stage \in [Requests -> Stages]
    /\ stamp \in [Requests -> Nat]
    /\ cap \in [Requests -> Nat]
    /\ since \in [Requests -> Nat]
    /\ turn \in [Requests -> Nat]
    /\ turns \in Nat
    /\ bucket \in SUBSET Nat
    /\ ttl \in Nat
    /\ blurred \subseteq Requests
    /\ cache \in [made : Nat, until : Nat]
    /\ made \in [Requests -> Nat]
    /\ age \in [Requests -> Nat]
    /\ faults \in Nat
    /\ \A r \in Requests : stamp[r] <= clock /\ since[r] <= clock /\ made[r] <= clock

\* The instant of r is its own: the sorted set can tell it from the others.
Unshared(r) == \A s \in Requests : stamp[s] = stamp[r] => s = r

\* Requests the limiter has counted and let through.
Counted == { r \in Requests : turn[r] > 0 /\ Unshared(r) }

\* Those that were counted before r or as r, and fall into its hour, less the
\* time that a transaction may be under way.
InHourOf(r) ==
    { a \in Counted : turn[a] <= turn[r] /\ stamp[a] + Window > stamp[r] + Delay }

\* A counted request is never one too many for its cap, whatever was delayed or
\* overtaken between `now` and the transaction (rate_limit.py 68-82).  Requests
\* of the same instant collapse into one entry and are left out.
WindowRespected == \A r \in Counted : Cardinality(InHourOf(r)) <= cap[r]

\* A place in the window is taken by a request that was let through, by one still
\* being refused, or by one that a Redis failure hit: no refusal costs a place.
OnlyAdmittedCount ==
    \A e \in bucket : \E r \in Requests :
        /\ stamp[r] = e
        /\ turn[r] > 0 \/ stage[r] = "refusing" \/ r \in blurred

\* No prompt goes by an answer that was made longer ago than the cache keeps it,
\* plus the two calls between the portal and the cache, whoever wrote last.
PlanIsRecent ==
    \A r \in Requests : age[r] < PlanTTL + PortalTimeout + Delay
=============================================================================
