------------------------------- MODULE Gateway -------------------------------
(***************************************************************************)
(* ServeHTTP (internal/router/handler.go) as a whole: concurrent requests  *)
(* pass the tenant lookup, the budget check, the limiter, the response     *)
(* cache and the routing, are answered by a provider, logged and billed by *)
(* the budget processor, whose result later lookups read; tenants are      *)
(* created through the admin API.                                          *)
(*                                                                         *)
(* The parts with modules of their own appear by what they promise: the    *)
(* cache returns no record older than MaxAge (TwoTierCache), the limiter   *)
(* and the selector may refuse (TokenBucket, Routing), a call succeeds or  *)
(* fails (SyncChat, StreamRelay), and a flush adds whole cents of what is  *)
(* pending or loses it (BudgetProcessor).                                  *)
(***************************************************************************)
EXTENDS Integers

CONSTANTS Tenants,   \* a tenant stands for its key, too
          Texts,     \* models and messages of the requests
          Printed,   \* Printed[x]: what the cache key shows of x
          Requests,  \* request goroutines that run at the same time
          Budget,    \* Budget[t]: BudgetCents
          Usages,    \* what responses report: model and tokens
          Unit,      \* units per cent
          Attempts,  \* deliveries of one event: kafka.Writer.MaxAttempts
          MaxAge,    \* age of a cached tenant record
          MaxOp,     \* bound: from the beginning of a request to its budget check
          MaxTime,   \* bound: the clock stops here
          Traffic    \* bound: requests that arrive

ASSUME GatewayAssumption ==
    /\ Tenants # {} /\ Texts # {}
    /\ Printed = [x \in Texts |-> Printed[x]]
    /\ Budget \in [Tenants -> Int]
    /\ Usages \subseteq [model : STRING, prompt : Nat, completion : Nat]
    /\ Unit \in Nat \ {0} /\ Attempts \in Nat \ {0}
    /\ MaxAge \in Nat \ {0} /\ MaxOp \in Nat /\ MaxTime \in Nat /\ Traffic \in Nat

VARIABLES now,
          kind,     \* the cache main.go chose: "twoTier" or "memory"
          rows,     \* tenants in PostgreSQL
          spent,    \* their spent_cents
          records,  \* cached tenant records, of both tiers and all instances
          answers,  \* cached responses: key, and whom and what they were made for
          req,      \* the requests
          arrived,  \* requests so far
          inFlight, \* cost of the deliveries Kafka may still make, in units
          pending,  \* costs the budget processor has read, in units
          cost,     \* history: cost of the provider's answers to t, in units
          over      \* history: when the row of t first showed its budget spent

accounts == <<rows, spent, inFlight, pending, cost, over>>
caches   == <<kind, records, answers>>
vars     == <<now, caches, accounts, req, arrived>>

Never  == MaxTime + 1
Record == [tenant : Tenants, spent : Nat, at : 0..MaxTime]
Prints == {Printed[x] : x \in Texts}
Answer == [key : Tenants \X Prints, tenant : Tenants, text : Texts]

(* seen is the spent_cents of the tenant record the request holds, at when *)
(* that was read from PostgreSQL, got what the client gets from the cache. *)
Request == [pc : {"idle", "lookup", "query", "store", "budget", "limit", "parse",
                  "cached", "select", "call", "stream", "set"},
            tenant : Tenants, text : Texts, stream : BOOLEAN, begun : 0..MaxTime,
            seen : Nat, at : 0..MaxTime, got : SUBSET Answer]

Idle == [pc |-> "idle", tenant |-> CHOOSE t \in Tenants : TRUE,
         text |-> CHOOSE x \in Texts : TRUE, stream |-> FALSE,
         begun |-> 0, seen |-> 0, at |-> 0, got |-> {}]

TypeOK ==
    /\ now \in 0..MaxTime
    /\ kind \in {"twoTier", "memory"}
    /\ rows \subseteq Tenants
    /\ spent \in [Tenants -> Nat]
    /\ records \subseteq Record
    /\ answers \subseteq Answer
    /\ req \in [Requests -> Request]
    /\ arrived \in 0..Traffic
    /\ inFlight \in [Tenants -> Nat] /\ pending \in [Tenants -> Nat]
    /\ cost \in [Tenants -> Nat]
    /\ over \in [Tenants -> 0..Never]

Init ==
    /\ now = 0
    /\ kind \in {"twoTier", "memory"}
    /\ rows = {}
    /\ spent = [t \in Tenants |-> 0]
    /\ records = {}
    /\ answers = {}
    /\ req = [r \in Requests |-> Idle]
    /\ arrived = 0
    /\ inFlight = [t \in Tenants |-> 0]
    /\ pending = [t \in Tenants |-> 0]
    /\ cost = [t \in Tenants |-> 0]
    /\ over = [t \in Tenants |-> Never]
-----------------------------------------------------------------------------
Goto(r, l) == req' = [req EXCEPT ![r].pc = l]
Reply(r)   == req' = [req EXCEPT ![r] = Idle]
At(r, l)   == req[r].pc = l

(* A request with a key; without one the answer is 401 at once. *)
Arrive(r) ==
    /\ At(r, "idle")
    /\ arrived < Traffic
    /\ arrived' = arrived + 1
    /\ \E t \in Tenants :
           req' = [req EXCEPT ![r] = [Idle EXCEPT !.pc = "lookup", !.tenant = t,
                                                  !.begun = now]]
    /\ UNCHANGED <<now, caches, accounts>>

(* The records are filed by the hash of the tenant's key. *)
RecordOf(e, t) == e.tenant = t

(* cache.Get finds a record; MemoryCache knows no lifetime. *)
TenantHit(r) ==
    /\ At(r, "lookup")
    /\ \E e \in records :
           /\ RecordOf(e, req[r].tenant)
           /\ kind = "memory" \/ now - e.at < MaxAge
           /\ req' = [req EXCEPT ![r].pc = "budget", ![r].seen = e.spent,
                                 ![r].at = e.at]
    /\ UNCHANGED <<now, caches, accounts, arrived>>

(* A map misses only what was never set. *)
MapMisses(t) == \A e \in records : e.tenant # t

TenantMiss(r) ==
    /\ At(r, "lookup")
    /\ kind = "memory" => MapMisses(req[r].tenant)
    /\ Goto(r, "query")
    /\ UNCHANGED <<now, caches, accounts, arrived>>

(* GetTenantByAPIKeyHash. The cache is filled in a step of its own. *)
Query(r) ==
    /\ At(r, "query")
    /\ req[r].tenant \in rows
    /\ req' = [req EXCEPT ![r].pc = "store", ![r].seen = spent[req[r].tenant],
                          ![r].at = now]
    /\ UNCHANGED <<now, caches, accounts, arrived>>

(* 401: no row, or any failure of the database. *)
QueryFails(r) ==
    /\ At(r, "query")
    /\ Reply(r)
    /\ UNCHANGED <<now, caches, accounts, arrived>>

(* cache.Set of the record. *)
Store(r) ==
    LET t == req[r].tenant
        e == [tenant |-> t, spent |-> req[r].seen, at |-> req[r].at]
    IN
    /\ At(r, "store")
    /\ Goto(r, "budget")
    /\ records' = {e} \cup {d \in records : kind = "twoTier" \/ d.tenant # t}
    /\ UNCHANGED <<now, kind, answers, accounts, arrived>>

(* Mutant: a budget that is just used up passes. *)
ExhaustedLater(t, cents) == Budget[t] > 0 /\ cents > Budget[t]

(* A budget of 0 or less is no budget. *)
Exhausted(t, cents) == Budget[t] > 0 /\ cents >= Budget[t]

(* 402 or on. *)
CheckBudget(r) ==
    /\ At(r, "budget")
    /\ IF Exhausted(req[r].tenant, req[r].seen) THEN Reply(r)
       ELSE req' = [req EXCEPT ![r].pc = "limit", ![r].begun = 0, ![r].seen = 0,
                               ![r].at = 0]
    /\ UNCHANGED <<now, caches, accounts, arrived>>

(* 429 or on. *)
CheckLimit(r) ==
    /\ At(r, "limit")
    /\ Reply(r) \/ Goto(r, "parse")
    /\ UNCHANGED <<now, caches, accounts, arrived>>

(* 400 or on; a stream does not look for a cached response. *)
Parse(r) ==
    /\ At(r, "parse")
    /\ \/ Reply(r)
       \/ req' = [req EXCEPT ![r].pc = "select", ![r].stream = TRUE]
       \/ \E x \in Texts :
              req' = [req EXCEPT ![r].pc = "cached", ![r].text = x]
    /\ UNCHANGED <<now, caches, accounts, arrived>>

(* Mutant: tenants share the cached responses to a text. *)
CacheKeyShared(t, x) == <<CHOOSE u \in Tenants : TRUE, Printed[x]>>

(* The messages enter the key as %v prints them, without quotes or lengths,*)
(* so that different messages may print alike.                             *)
CacheKey(t, x) == <<t, Printed[x]>>

ResponseHit(r) ==
    /\ At(r, "cached")
    /\ \E a \in answers :
           /\ a.key = CacheKey(req[r].tenant, req[r].text)
           /\ req' = [req EXCEPT ![r].pc = "idle", ![r].got = {a}]
    /\ UNCHANGED <<now, caches, accounts, arrived>>

ResponseMiss(r) ==
    /\ At(r, "cached")
    /\ kind = "memory" =>
          \A a \in answers : a.key # CacheKey(req[r].tenant, req[r].text)
    /\ Goto(r, "select")
    /\ UNCHANGED <<now, caches, accounts, arrived>>

(* 503 or the provider is called. *)
Select(r) ==
    /\ At(r, "select")
    /\ Reply(r) \/ Goto(r, IF req[r].stream THEN "stream" ELSE "call")
    /\ UNCHANGED <<now, caches, accounts, arrived>>
-----------------------------------------------------------------------------
(* The price table of EstimateCost, in ten-thousandths of a cent per token. *)
Prices(model) ==
    CASE model = "gpt-4o"          -> [prompt |-> 5, completion |-> 15]
      [] model = "claude-3-sonnet" -> [prompt |-> 3, completion |-> 15]
      [] OTHER                     -> [prompt |-> 1, completion |-> 2]

(* Mutant: the wrong sign. *)
EstimateCostMinus(u) == u.prompt * Prices(u.model).prompt
                        - u.completion * Prices(u.model).completion

EstimateCost(u) == u.prompt * Prices(u.model).prompt
                   + u.completion * Prices(u.model).completion

(* Mutant: the event names no tenant, and the cost goes to everybody. *)
BillAll(t, c) == inFlight' = [u \in Tenants |-> inFlight[u] + Attempts * c]

(* The event is with the asynchronous writer, which tries again after an   *)
(* error although the first try may have reached the topic.                *)
Bill(t, c) == inFlight' = [inFlight EXCEPT ![t] = @ + Attempts * c]

(* handleSync: the answer with its cost is there and is logged. *)
CallSucceeds(r) ==
    /\ At(r, "call")
    /\ Goto(r, "set")
    /\ \E u \in Usages :
           /\ cost' = [cost EXCEPT ![req[r].tenant] = @ + EstimateCost(u)]
           /\ Bill(req[r].tenant, EstimateCost(u))
    /\ UNCHANGED <<now, caches, rows, spent, pending, over, arrived>>

(* 502 *)
CallFails(r) ==
    /\ At(r, "call")
    /\ Reply(r)
    /\ UNCHANGED <<now, caches, accounts, arrived>>

(* handleStream: the event of a stream has no cost, and a stream that fails*)
(* or is left by its client has no event.                                  *)
StreamEnds(r) ==
    /\ At(r, "stream")
    /\ Reply(r)
    /\ UNCHANGED <<now, caches, accounts, arrived>>

(* cache.Set of the response, then the answer; the two-tier cache may fail *)
(* to keep it.                                                             *)
SetResponse(r) ==
    LET a == [key |-> CacheKey(req[r].tenant, req[r].text),
              tenant |-> req[r].tenant, text |-> req[r].text]
    IN
    /\ At(r, "set")
    /\ Reply(r)
    /\ \/ answers' = {a} \cup {b \in answers : kind = "twoTier" \/ b.key # a.key}
       \/ kind = "twoTier" /\ UNCHANGED answers
    /\ UNCHANGED <<now, kind, records, accounts, arrived>>

Serve(r) ==
    \/ Arrive(r) \/ TenantHit(r) \/ TenantMiss(r) \/ Query(r) \/ QueryFails(r)
    \/ Store(r) \/ CheckBudget(r) \/ CheckLimit(r) \/ Parse(r)
    \/ ResponseHit(r) \/ ResponseMiss(r) \/ Select(r)
    \/ CallSucceeds(r) \/ CallFails(r) \/ StreamEnds(r)
    \/ SetResponse(r)
-----------------------------------------------------------------------------
(* The table accepts one row for a key. *)
Insert(t) ==
    /\ t \notin rows
    /\ rows' = rows \cup {t}

(* createTenant of the admin API. *)
CreateTenant(t) ==
    /\ Insert(t)
    /\ UNCHANGED <<now, caches, spent, inFlight, pending, cost, over, req, arrived>>

(* Kafka brings an event to the budget processor, late, for another time,  *)
(* or never; which of a tenant's events it is is left open.                *)
Deliver(t) ==
    /\ \E u \in Usages :
           /\ EstimateCost(u) <= inFlight[t]
           /\ inFlight' = [inFlight EXCEPT ![t] = @ - EstimateCost(u)]
           /\ pending' = [pending EXCEPT ![t] = @ + EstimateCost(u)]
    /\ UNCHANGED <<now, caches, rows, spent, cost, over, req, arrived>>

(* The map is exchanged for an empty one; mutant: it is kept. *)
Keep(t)  == UNCHANGED pending
Empty(t) == pending' = [pending EXCEPT ![t] = 0]

(* The budget processor flushes what is pending, or loses it. *)
Flush(t) ==
    /\ pending[t] > 0
    /\ Empty(t)
    /\ \/ UNCHANGED <<spent, over>>
       \/ /\ spent' = [spent EXCEPT ![t] = @ + pending[t] \div Unit]
          /\ over' = [over EXCEPT ![t] =
                         IF @ = Never /\ Budget[t] > 0 /\ spent'[t] >= Budget[t]
                         THEN now ELSE @]
    /\ UNCHANGED <<now, caches, rows, inFlight, cost, req, arrived>>

Looking == {"lookup", "query", "store", "budget"}

(* Time passes; records expire. *)
Tick ==
    /\ now < MaxTime
    /\ \A r \in Requests : req[r].pc \in Looking => now < req[r].begun + MaxOp
    /\ now' = now + 1
    /\ records' = {e \in records : kind = "memory" \/ now' - e.at < MaxAge}
    /\ UNCHANGED <<kind, answers, accounts, req, arrived>>

Next ==
    \/ \E r \in Requests : Serve(r)
    \/ \E t \in Tenants : CreateTenant(t) \/ Deliver(t) \/ Flush(t)
    \/ Tick

Spec == Init /\ [][Next]_vars
-----------------------------------------------------------------------------
(* The budget check looks at a cached copy of a sum that trails the calls  *)
(* (handler.go:63-82), but with the two-tier cache the lag is bounded: once*)
(* the row shows the budget spent, no request passes the check later than  *)
(* the age of a record and the time of a lookup.                           *)
BudgetLag ==
    [][\A r \in Requests :
          LET t == req[r].tenant IN
          /\ kind = "twoTier"
          /\ req[r].pc = "budget" /\ req'[r].pc = "limit"
          /\ over[t] # Never
          => now - over[t] < MaxAge + MaxOp]_vars

(* The other error of the check is bounded, too: 402 is answered only to a *)
(* tenant whose calls of a provider cost its budget, counting every call as*)
(* often as its event can be delivered, whatever the age of the record, the*)
(* cache in use, lost and repeated events and overlapping requests         *)
(* (handler.go:79-82, logging.go:45-67, processor.go:89-101).              *)
RefusalIsEarned ==
    [][\A r \in Requests :
          LET t == req[r].tenant IN
          req[r].pc = "budget" /\ req'[r].pc = "idle" =>
              Budget[t] > 0 /\ Attempts * cost[t] >= Unit * Budget[t]]_vars

(* A cached response stays with the tenant it was made for, and goes to no *)
(* request that prints differently, whatever requests store and find       *)
(* concurrently (handler.go:100-110). Requests that print alike do share.  *)
OwnAnswer ==
    \A r \in Requests : \A a \in req[r].got :
        a.tenant = req[r].tenant /\ Printed[a.text] = Printed[req[r].text]

(* A tenant is charged for calls of a provider only, each at most as often *)
(* as its event is delivered: answers from the cache, streams and refusals *)
(* are free, and no path from the log to PostgreSQL adds to the cost       *)
(* (handler.go:101-160, processor.go:83-102).                              *)
ChargedForCalls ==
    \A t \in Tenants : Unit * spent[t] + pending[t] <= Attempts * cost[t]
=============================================================================
