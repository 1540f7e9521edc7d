---------------------------- MODULE RateLimiter ----------------------------
(***************************************************************************)
(* One bucket (client and group) of the sliding-window rate limiter.       *)
(* Workers share the window that Redis keeps and fall back, each for       *)
(* itself, to a window of the process.  A check that refuses or that finds *)
(* an unlimited plan changes nothing and is a stutter.                     *)
(*                                                                         *)
(* Time is whole seconds and relative: a window holds the number of its    *)
(* admissions by age, and Tick makes all of them a second older.  What is  *)
(* pruned is what no later check counts.  Every worker takes the time from *)
(* its own clock and before its call reaches Redis: that the clocks agree, *)
(* and that no second passes on the way, is an assumption of the model.    *)
(***************************************************************************)
EXTENDS Integers, FiniteSets

CONSTANTS Worker,     \* processes of the API
          Tier,       \* plans
          LimitOf,    \* LimitOf[t]: admissions per window, or Unlimited
          Unlimited,
          Window,     \* window_seconds
          MaxGranted  \* bound on what the history counts per second

ASSUME LimitAssumption == \A t \in Tier : LimitOf[t] \in Nat \cup {Unlimited}
ASSUME WindowAssumption == Window \in Nat \ {0} /\ MaxGranted \in Nat

VARIABLES redisUp,
          held,      \* held[w]: w holds a connection (_redis is not None)
          tier,      \* the plan the next check is made with
          shared,    \* shared[t]: the sorted set of the key, which names the plan
          local,     \* local[w]: the deque of worker w, whose key does not
          granted,   \* admissions of any worker (history)
          calm       \* seconds for which Redis has served all workers, at most Window (history)

limiterVars == <<redisUp, held, tier, shared, local, granted, calm>>

\* ZREMRANGEBYSCORE key 0 now-window removes an entry that is a window old, and the
\* deque keeps it.
SharedAge == 0..Window - 1
LocalAge  == 0..Window

LimiterTypeOK ==
    /\ redisUp \in BOOLEAN /\ held \in [Worker -> BOOLEAN]
    /\ tier \in Tier
    /\ shared \in [Tier -> [SharedAge -> Nat]]
    /\ local \in [Worker -> [LocalAge -> Nat]]
    /\ granted \in [SharedAge -> Nat]
    /\ calm \in 0..Window

NoEntries == [t \in Tier |-> [a \in SharedAge |-> 0]]

LimiterInit ==
    /\ redisUp = TRUE
    /\ held = [w \in Worker |-> TRUE]
    /\ tier \in Tier
    /\ shared = NoEntries
    /\ local = [w \in Worker |-> [a \in LocalAge |-> 0]]
    /\ granted = [a \in SharedAge |-> 0]
    /\ calm = Window

\* The admissions that are at most so old, by age; the oldest age counts all of them.
Running(counts) ==
    LET sum[a \in DOMAIN counts] == counts[a] + (IF a = 0 THEN 0 ELSE sum[a - 1])
    IN  sum
Total(counts) == Running(counts)[Cardinality(DOMAIN counts) - 1]

Older(counts) == [a \in DOMAIN counts |-> IF a = 0 THEN 0 ELSE counts[a - 1]]

Counted(n) == IF n < MaxGranted THEN n + 1 ELSE n

Limited == LimitOf[tier] # Unlimited

------------------------------------------------------------------------------
(* check                                                                    *)

\* Mutant: the count and the insertion are two calls, with another worker between.
AdmitSharedInTwoCalls(w) ==
    /\ held[w] /\ redisUp /\ Limited
    /\ Total(shared[tier]) <= LimitOf[tier]
    /\ shared' = [shared EXCEPT ![tier][0] = @ + 1]
    /\ granted' = [granted EXCEPT ![0] = Counted(@)]
    /\ UNCHANGED <<redisUp, held, tier, local>>

\* The script runs as a whole, and its answer arrives.
AdmitShared(w) ==
    /\ held[w] /\ redisUp /\ Limited
    /\ Total(shared[tier]) < LimitOf[tier]
    /\ shared' = [shared EXCEPT ![tier][0] = @ + 1]
    /\ granted' = [granted EXCEPT ![0] = Counted(@)]
    /\ UNCHANGED <<redisUp, held, tier, local>>

\* With a limit of 0 the refusal reads the head of an empty deque and fails: nothing
\* is admitted either way.
AdmitOrRefuse(w) ==
    IF Total(local[w]) < LimitOf[tier]
    THEN /\ local' = [local EXCEPT ![w][0] = @ + 1]
         /\ granted' = [granted EXCEPT ![0] = Counted(@)]
    ELSE UNCHANGED <<local, granted>>

\* The call fails: the connection is dropped and this very check is made in the
\* process.  When only the answer was lost, Redis has counted the request.
FailOver(w) ==
    /\ held[w] /\ Limited
    /\ \/ UNCHANGED shared
       \/ /\ redisUp /\ Total(shared[tier]) < LimitOf[tier]
          /\ shared' = [shared EXCEPT ![tier][0] = @ + 1]
    /\ held' = [held EXCEPT ![w] = FALSE]
    /\ AdmitOrRefuse(w)
    /\ UNCHANGED <<redisUp, tier>>

AdmitLocal(w) ==
    /\ ~held[w] /\ Limited
    /\ AdmitOrRefuse(w)
    /\ UNCHANGED <<redisUp, held, tier, shared>>

------------------------------------------------------------------------------
(* The readiness probe                                                      *)

\* live_redis_health: a PING over the connection that is held, or a new connection.  Only
\* GET /readiness calls it; nothing says that a deployment ever does.
Probe(w) ==
    /\ held' = [held EXCEPT ![w] = redisUp]
    /\ UNCHANGED <<redisUp, tier, shared, local, granted>>

------------------------------------------------------------------------------
(* Around the limiter                                                       *)

Tick ==
    /\ shared' = [t \in Tier |-> Older(shared[t])]
    /\ local' = [w \in Worker |-> Older(local[w])]
    /\ granted' = Older(granted)
    /\ UNCHANGED <<redisUp, held, tier>>

ChangePlan(t) ==
    /\ t # tier
    /\ tier' = t
    /\ UNCHANGED <<redisUp, held, shared, local, granted>>

RedisFails ==
    /\ redisUp
    /\ redisUp' = FALSE
    /\ UNCHANGED <<held, tier, shared, local, granted>>

\* Redis comes back, with its keys or without.
RedisRecovers ==
    /\ ~redisUp
    /\ redisUp' = TRUE
    /\ shared' \in {shared, NoEntries}
    /\ UNCHANGED <<held, tier, local, granted>>

------------------------------------------------------------------------------
Serving == redisUp /\ (\A w \in Worker : held[w])

LimiterNext ==
    \/ /\ \/ \E w \in Worker : AdmitShared(w) \/ FailOver(w) \/ AdmitLocal(w) \/ Probe(w)
          \/ RedisFails \/ RedisRecovers
          \/ \E t \in Tier : ChangePlan(t)
       /\ calm' = IF Serving /\ Serving' /\ tier' = tier THEN calm ELSE 0
    \/ /\ Tick
       /\ calm' = IF Serving /\ calm < Window THEN calm + 1 ELSE calm

LimiterSpec == LimiterInit /\ [][LimiterNext]_limiterVars

------------------------------------------------------------------------------
(* Properties                                                               *)

\* Once Redis has served all workers, with one plan, for a whole window, no window
\* holds more admissions than the plan allows: what the failover admitted twice is
\* forgotten within a window (_LUA_SLIDING_WINDOW, RedisRateLimiter.check).
WindowHolds ==
    (calm = Window /\ Serving /\ Limited) => Total(granted) <= LimitOf[tier]
==============================================================================
