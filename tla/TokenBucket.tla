----------------------------- MODULE TokenBucket -----------------------------
(***************************************************************************)
(* The local-first rate limiter of internal/ratelimit/ratelimit.go: every  *)
(* gateway instance (node) keeps one token bucket per tenant, Allow refills*)
(* it from the elapsed time and takes a token, and a background goroutine  *)
(* pushes a snapshot to Redis on every tick of syncInterval.               *)
(*                                                                         *)
(* float64 tokens are exact here: one token is Token units, chosen so that *)
(* limit/10 (the initial quota) and the refill of one clock tick are both  *)
(* whole numbers of units.                                                 *)
(***************************************************************************)
EXTENDS Integers

CONSTANTS Nodes,           \* gateway instances
          Tenants,         \* tenant ids
          Limit,           \* Limit[t]: RateLimitRPM of tenant t, any int
          TicksPerMinute,  \* resolution of the clock
          MaxTime          \* bound: the clock stops here

ASSUME LimitAssumption == Limit \in [Tenants -> Int]
ASSUME ClockAssumption == TicksPerMinute \in Nat \ {0} /\ MaxTime \in Nat

VARIABLES now,       \* time.Now(), in ticks
          created,   \* the keys <<n, t>> of the buckets maps
          tokens,    \* localBucket.tokens, in units
          last,      \* localBucket.last
          sync,      \* sync[n]: "idle", or "eval" between unlock and redis.Eval
          unsynced,  \* unsynced[n]: tenants admitted by n since its last snapshot
          pushing,   \* pushing[n]: tenants the running Eval reports
          since,     \* history: when the bucket was created
          admitted,  \* history: how many requests the bucket let through
          mark       \* history: an observation window opened at some instant

limiterVars == <<created, tokens, last>>
syncVars    == <<sync, unsynced, pushing>>
history     == <<since, admitted, mark>>
vars        == <<now, limiterVars, syncVars, history>>

Keys  == Nodes \X Tenants
Token == 10 * TicksPerMinute
Cap(t)  == Limit[t] * Token
Rate(t) == Limit[t] * 10          \* units per tick: limit / 60 tokens per second

(* 10% of the limit, at least one token. *)
Quota(t) == IF Limit[t] * TicksPerMinute < Token THEN Token
                                                 ELSE Limit[t] * TicksPerMinute

TypeOK ==
    /\ now \in 0..MaxTime
    /\ created \subseteq Keys
    /\ tokens \in [Keys -> Int]
    /\ \A k \in created : tokens[k] <= Cap(k[2])
    /\ last \in [Keys -> 0..MaxTime]
    /\ sync \in [Nodes -> {"idle", "eval"}]
    /\ unsynced \in [Nodes -> SUBSET Tenants]
    /\ pushing \in [Nodes -> SUBSET Tenants]
    /\ since \in [Keys -> 0..MaxTime]
    /\ admitted \in [Keys -> Nat]
    /\ mark \in [Keys -> [at : 0..MaxTime, count : Nat]]

Init ==
    /\ now = 0
    /\ created = {}
    /\ tokens = [k \in Keys |-> 0]
    /\ last = [k \in Keys |-> 0]
    /\ sync = [n \in Nodes |-> "idle"]
    /\ unsynced = [n \in Nodes |-> {}]
    /\ pushing = [n \in Nodes |-> {}]
    /\ since = [k \in Keys |-> 0]
    /\ admitted = [k \in Keys |-> 0]
    /\ mark = [k \in Keys |-> [at |-> 0, count |-> 0]]
-----------------------------------------------------------------------------
(* The bucket a call of Allow finds under the lock, or creates. *)
Held(k)   == IF k \in created THEN tokens[k] ELSE Quota(k[2])
SeenAt(k) == IF k \in created THEN last[k] ELSE now

(* Mutant: no cap. *)
RefilledUncapped(k) == Held(k) + Rate(k[2]) * (now - SeenAt(k))

Refilled(k) == LET grown == Held(k) + Rate(k[2]) * (now - SeenAt(k))
               IN  IF grown > Cap(k[2]) THEN Cap(k[2]) ELSE grown

(* Mutant: last is set only when the bucket is created. *)
StoreKeepsLast(k, left) ==
    /\ created' = created \cup {k}
    /\ tokens' = [tokens EXCEPT ![k] = left]
    /\ last' = [last EXCEPT ![k] = IF k \in created THEN @ ELSE now]
    /\ since' = [since EXCEPT ![k] = IF k \in created THEN @ ELSE now]

(* What both outcomes of Allow write back. *)
Store(k, left) ==
    /\ created' = created \cup {k}
    /\ tokens' = [tokens EXCEPT ![k] = left]
    /\ last' = [last EXCEPT ![k] = now]
    /\ since' = [since EXCEPT ![k] = IF k \in created THEN @ ELSE now]

Admit(n, t) ==
    LET k == <<n, t>> IN
    /\ Refilled(k) >= Token
    /\ Store(k, Refilled(k) - Token)
    /\ admitted' = [admitted EXCEPT ![k] = @ + 1]
    /\ unsynced' = [unsynced EXCEPT ![n] = @ \cup {t}]
    /\ UNCHANGED <<now, sync, pushing, mark>>

Refuse(n, t) ==
    LET k == <<n, t>> IN
    /\ Refilled(k) < Token
    /\ Store(k, Refilled(k))
    /\ UNCHANGED <<now, syncVars, admitted, mark>>

Allow(n, t) == Admit(n, t) \/ Refuse(n, t)

(* backgroundSync, under the lock: with no bucket at all it just waits for *)
(* the next tick.                                                          *)
SyncSnapshot(n) ==
    /\ sync[n] = "idle"
    /\ \E t \in Tenants : <<n, t>> \in created
    /\ sync' = [sync EXCEPT ![n] = "eval"]
    /\ pushing' = [pushing EXCEPT ![n] = unsynced[n]]
    /\ unsynced' = [unsynced EXCEPT ![n] = {}]
    /\ UNCHANGED <<now, limiterVars, history>>

(* The Lua script, without the lock. Its counters and its result are read  *)
(* by nobody, so success only means that the node has reported; a timeout  *)
(* or a Redis failure is ignored as well.                                  *)
SyncEval(n) ==
    /\ sync[n] = "eval"
    /\ sync' = [sync EXCEPT ![n] = "idle"]
    /\ pushing' = [pushing EXCEPT ![n] = {}]
    /\ \/ UNCHANGED unsynced
       \/ unsynced' = [unsynced EXCEPT ![n] = @ \cup pushing[n]]
    /\ UNCHANGED <<now, limiterVars, history>>

Tick ==
    /\ now < MaxTime
    /\ now' = now + 1
    /\ UNCHANGED <<limiterVars, syncVars, history>>

(* Observer: start counting the admissions of bucket k from here. *)
OpenWindow(k) ==
    /\ mark' = [mark EXCEPT ![k] = [at |-> now, count |-> admitted[k]]]
    /\ UNCHANGED <<now, limiterVars, syncVars, since, admitted>>

Next ==
    \/ Tick
    \/ \E n \in Nodes, t \in Tenants : Allow(n, t)
    \/ \E n \in Nodes : SyncSnapshot(n) \/ SyncEval(n)
    \/ \E k \in Keys : OpenWindow(k)

Spec == Init /\ [][Next]_vars
-----------------------------------------------------------------------------
(* From its creation on, a bucket never gives out more than its initial    *)
(* quota plus what the tenant's RPM refills, whatever the order of calls   *)
(* and clock ticks: Allow may neither refill an interval twice nor refill  *)
(* before the bucket existed (ratelimit.go:65-79).                         *)
AdmissionBound ==
    \A k \in created :
        Token * admitted[k] + tokens[k]
            <= Quota(k[2]) + Rate(k[2]) * (last[k] - since[k])

(* Over any window of time, however long the tenant was idle before it, a  *)
(* node lets through at most one full limit plus the refill of the window: *)
(* the cap of ratelimit.go:70-72 bounds what an idle tenant can save up.   *)
WindowBound ==
    \A k \in created :
        admitted[k] > mark[k].count =>
            Token * (admitted[k] - mark[k].count)
                <= Cap(k[2]) + Rate(k[2]) * (now - mark[k].at)
=============================================================================
