---------------------------- MODULE TwoTierCache -----------------------------
(***************************************************************************)
(* The tenant lookup of ServeHTTP (internal/router/handler.go) through the *)
(* two-tier cache (internal/cache/cache.go): every gateway instance has an *)
(* in-memory tier, all share Redis, and a miss in both goes to PostgreSQL. *)
(* One key is modelled; keys do not influence each other but by eviction,  *)
(* which may happen at any time.                                           *)
(*                                                                         *)
(* A cached value is represented by the time at which it was read from the *)
(* database, so that its age can be compared.                              *)
(***************************************************************************)
EXTENDS Integers, FiniteSets

CONSTANTS Nodes,     \* gateway instances
          Lookups,   \* request goroutines
          Home,      \* Home[c]: the instance that serves request c
          Ttl,       \* the 5 minutes of handler.go:75
          Backfill,  \* the 10 minutes of cache.go:56
          MaxBuf,    \* bound: MaxBuf[n] sets wait in ristretto's buffer on n
          MaxOp,     \* bound: how long a lookup may take
          MaxTime    \* bound: the clock stops here

ASSUME CacheAssumption ==
    /\ Home \in [Lookups -> Nodes]
    /\ Ttl \in Nat \ {0} /\ Backfill \in Nat /\ MaxBuf \in [Nodes -> Nat]
    /\ MaxOp \in Nat /\ MaxTime \in Nat

VARIABLES now,
          l1,     \* l1[n]: ristretto's entry on instance n
          buf,    \* buf[n]: sets that ristretto has taken and not yet applied
          l2,     \* the entry in Redis
          pc,     \* pc[c]: where the lookup stands
          begun,  \* begun[c]: when it began
          val,    \* val[c]: the value it holds
          cover   \* history: since when and until when Redis has to have it

vars == <<now, l1, buf, l2, pc, begun, val, cover>>

None  == [at |-> 0, exp |-> 0]
Entry == [at : Nat, exp : Nat]
Live(e) == now < e.exp

(* An entry is gone once the clock reaches exp. *)
Expire(e, t) == IF t < e.exp THEN e ELSE None

Uncovered == [from |-> 0, until |-> 0]

TypeOK ==
    /\ now \in Nat
    /\ l1 \in [Nodes -> Entry]
    /\ buf \in [Nodes -> SUBSET Entry]
    /\ l2 \in Entry
    /\ pc \in [Lookups -> {"idle", "redis", "backfill", "query", "setL1",
                           "setL2", "answered", "denied"}]
    /\ begun \in [Lookups -> Nat]
    /\ val \in [Lookups -> Nat]
    /\ cover \in [from : Nat, until : Nat]

Init ==
    /\ now = 0
    /\ l1 = [n \in Nodes |-> None]
    /\ buf = [n \in Nodes |-> {}]
    /\ l2 = None
    /\ pc = [c \in Lookups |-> "idle"]
    /\ begun = [c \in Lookups |-> 0]
    /\ val = [c \in Lookups |-> 0]
    /\ cover = Uncovered
-----------------------------------------------------------------------------
Resting == {"idle", "answered", "denied"}
Goto(c, l) == pc' = [pc EXCEPT ![c] = l]

(* The request goes on with value v. *)
Answer(c, v) ==
    /\ Goto(c, "answered")
    /\ begun' = [begun EXCEPT ![c] = 0]
    /\ val' = [val EXCEPT ![c] = v]

(* Get: the in-memory tier. *)
GetHit(c) ==
    /\ pc[c] \in Resting
    /\ Live(l1[Home[c]])
    /\ Answer(c, l1[Home[c]].at)
    /\ UNCHANGED <<now, l1, buf, l2, cover>>

(* Mutant: a miss in memory is a miss. *)
NoFallback == "query"

Fallback == "redis"

GetMiss(c) ==
    /\ pc[c] \in Resting
    /\ ~Live(l1[Home[c]])
    /\ begun' = [begun EXCEPT ![c] = now]
    /\ Goto(c, Fallback)
    /\ val' = [val EXCEPT ![c] = 0]
    /\ UNCHANGED <<now, l1, buf, l2, cover>>

(* Get: Redis. *)
RedisHit(c) ==
    /\ pc[c] = "redis"
    /\ Live(l2)
    /\ val' = [val EXCEPT ![c] = l2.at]
    /\ Goto(c, "backfill")
    /\ UNCHANGED <<now, l1, buf, l2, begun, cover>>

(* redis.Nil *)
RedisMiss(c) ==
    /\ pc[c] = "redis"
    /\ ~Live(l2)
    /\ Goto(c, "query")
    /\ UNCHANGED <<now, l1, buf, l2, begun, val, cover>>

(* An error of Redis, which ServeHTTP ignores. *)
RedisFails(c) ==
    /\ pc[c] = "redis"
    /\ Goto(c, "query")
    /\ cover' = Uncovered
    /\ UNCHANGED <<now, l1, buf, l2, begun, val>>

(* Mutant: the wrong sign. *)
PutBackwards(n, v, ttl) ==
    /\ l1' \in {l1, [l1 EXCEPT ![n] = [at |-> v, exp |-> now - ttl]]}
    /\ UNCHANGED buf

(* SetWithTTL: the value's time runs from the call. A key that ristretto   *)
(* has is updated at once, another set waits in a buffer or, when that is  *)
(* full, is dropped.                                                       *)
Put(n, v, ttl) ==
    LET e == [at |-> v, exp |-> now + ttl] IN
    \/ l1' \in {l1, [l1 EXCEPT ![n] = e]} /\ UNCHANGED buf
    \/ /\ Cardinality(buf[n]) < MaxBuf[n]
       /\ buf' = [buf EXCEPT ![n] = @ \cup {e}]
       /\ UNCHANGED l1

(* Mutant: the backfill renews the entry of Redis, too. *)
RenewRedis(c) == l2' = [at |-> val[c], exp |-> now + Ttl]

LeaveRedis(c) == UNCHANGED l2

BackfillL1(c) ==
    /\ pc[c] = "backfill"
    /\ Put(Home[c], val[c], Backfill)
    /\ LeaveRedis(c)
    /\ Answer(c, val[c])
    /\ UNCHANGED <<now, cover>>

(* GetTenantByAPIKeyHash. *)
Query(c) ==
    /\ pc[c] = "query"
    /\ val' = [val EXCEPT ![c] = now]
    /\ Goto(c, "setL1")
    /\ UNCHANGED <<now, l1, buf, l2, begun, cover>>

(* Mutant: an error of the database is not looked at. *)
QueryFailsUnseen(c) ==
    /\ pc[c] = "query"
    /\ Answer(c, val[c])
    /\ UNCHANGED <<now, l1, buf, l2, cover>>

(* Any database error is answered with 401 invalid_api_key. *)
QueryFails(c) ==
    /\ pc[c] = "query"
    /\ Goto(c, "denied")
    /\ UNCHANGED <<now, l1, buf, l2, begun, val, cover>>

(* Set: the in-memory tier, then Redis. *)
SetL1(c) ==
    /\ pc[c] = "setL1"
    /\ Put(Home[c], val[c], Ttl)
    /\ Goto(c, "setL2")
    /\ UNCHANGED <<now, l2, begun, val, cover>>

SetL2(c) ==
    /\ pc[c] = "setL2"
    /\ l2' = [at |-> val[c], exp |-> now + Ttl]
    /\ cover' = [from  |-> IF now < cover.until THEN cover.from ELSE now,
                 until |-> now + Ttl]
    /\ Answer(c, val[c])
    /\ UNCHANGED <<now, l1, buf>>

(* The error of Redis is ignored. *)
SetL2Fails(c) ==
    /\ pc[c] = "setL2"
    /\ Answer(c, val[c])
    /\ UNCHANGED <<now, l1, buf, l2, cover>>

Lookup(c) ==
    \/ GetHit(c) \/ GetMiss(c) \/ RedisHit(c) \/ RedisMiss(c) \/ RedisFails(c)
    \/ BackfillL1(c) \/ Query(c) \/ QueryFails(c)
    \/ SetL1(c) \/ SetL2(c) \/ SetL2Fails(c)
-----------------------------------------------------------------------------
(* ristretto's goroutine works a set of its buffer off: the admission      *)
(* policy takes it, possibly over a newer value, or rejects it.            *)
ApplySet(n) ==
    /\ \E e \in buf[n] :
          /\ buf' = [buf EXCEPT ![n] = @ \ {e}]
          /\ l1' \in {l1, [l1 EXCEPT ![n] = e]}
    /\ UNCHANGED <<now, l2, pc, begun, val, cover>>

(* Memory pressure in either tier, a Redis failover. *)
EvictL1(n) ==
    /\ l1' = [l1 EXCEPT ![n] = None]
    /\ UNCHANGED <<now, buf, l2, pc, begun, val, cover>>

EvictL2 ==
    /\ l2' = None
    /\ cover' = Uncovered
    /\ UNCHANGED <<now, l1, buf, pc, begun, val>>

(* Time passes while lookups wait, but no lookup takes longer than MaxOp. *)
Tick ==
    /\ now < MaxTime
    /\ \A c \in Lookups : pc[c] \in Resting \/ now < begun[c] + MaxOp
    /\ now' = now + 1
    /\ l1' = [n \in Nodes |-> Expire(l1[n], now + 1)]
    /\ buf' = [n \in Nodes |-> {e \in buf[n] : now + 1 < e.exp}]
    /\ l2' = Expire(l2, now + 1)
    /\ cover' = IF now + 1 < cover.until THEN cover ELSE Uncovered
    /\ UNCHANGED <<pc, begun, val>>

Next ==
    \/ \E c \in Lookups : Lookup(c)
    \/ \E n \in Nodes : ApplySet(n) \/ EvictL1(n)
    \/ EvictL2
    \/ Tick

Spec == Init /\ [][Next]_vars
-----------------------------------------------------------------------------
(* What a tenant record that is about to be used may be late, in the budget*)
(* check of handler.go:79 for one: a value of Redis, almost Ttl old, is    *)
(* given another Backfill in memory, and a slow lookup delays each tier.   *)
MaxAge == Ttl + Backfill + 2 * MaxOp

(* Lookups of several instances overlap, overwrite each other's entries    *)
(* with older ones and refill one tier from the other, but every answer is *)
(* younger than MaxAge when it is given (cache.go:41-67): refills never    *)
(* chain, because Redis is never refilled from memory.                     *)
AgeIsBounded ==
    [][\A c \in Lookups :
          pc[c] # "answered" /\ pc'[c] = "answered" => now - val'[c] < MaxAge]_vars

(* The records a lookup could still be answered with: what an instance     *)
(* holds in memory or in its buffer, what Redis holds, and what a lookup   *)
(* carries to one of them.                                                 *)
Held(n)  == {l1[n]} \cup buf[n]
InMemory == {e.at : e \in {f \in UNION {Held(n) : n \in Nodes} : Live(f)}}
InRedis  == IF Live(l2) THEN {l2.at} ELSE {}
Carried  == {val[c] : c \in {d \in Lookups : pc[d] \in {"backfill", "setL1", "setL2"}}}

StageOf(c) == IF pc[c] = "answered" THEN "answered"
              ELSE IF pc[c] \in Resting THEN "resting" ELSE "looking"

Records == InMemory \cup InRedis \cup Carried
Stages  == [c \in Lookups |-> StageOf(c)]
Answers == [c \in Lookups |-> IF pc[c] = "answered" THEN val[c] ELSE 0]

Store == INSTANCE RecordStore
             WITH records <- Records, stage <- Stages, answer <- Answers

(* The tiers of all instances and the lookups between them cannot be told  *)
(* from one store with a lifetime, which is what Gateway takes the cache   *)
(* for: no refill makes a record, brings back one that every tier has lost *)
(* or keeps one alive for MaxAge, and every answer is a record that was    *)
(* there (cache.go:41-67, handler.go:63-76).                               *)
IsRecordStore == Store!Spec

(* DESIGN.md:70 of a partition from the database, "Existing tenants        *)
(* continue to function as their config is cached in Redis/Local RAM":     *)
(* every database error is answered with 401 (handler.go:70), so this holds*)
(* for as long as Redis keeps the record that any instance stored. A lookup*)
(* that began after the record was stored, on whichever instance, is not   *)
(* denied until Ttl after it was stored last, unless Redis loses the record*)
(* or fails.                                                               *)
ServedDuringPartition ==
    [][\A c \in Lookups :
          pc[c] = "query" /\ pc'[c] = "denied" =>
              begun[c] <= cover.from \/ now >= cover.until]_vars
=============================================================================
