---------------------------- MODULE GatewayProofs ----------------------------
(***************************************************************************)
(* The properties of Gateway for any tenants, budgets, texts, prices of an *)
(* answer, number of requests and age of cached records.                   *)
(***************************************************************************)
EXTENDS Gateway, TLAPS

(* What a copy of t's row read at time at, with c cents spent, says of the *)
(* time from which the row shows the budget spent.                         *)
Witness(t, c, at) == ~Exhausted(t, c) => at <= over[t]

(* over is the history of what the row itself shows. *)
RowInv ==
    \A t \in Tenants : over[t] # Never => Exhausted(t, spent[t])

CopyInv == \A e \in records : e.at <= now /\ Witness(e.tenant, e.spent, e.at)

(* A request q holds a copy that was young when q began, checks it no more *)
(* than MaxOp later, and gets only its own answer.                         *)
Sound(q) ==
    /\ q.begun <= now
    /\ q.pc \in Looking => now <= q.begun + MaxOp
    /\ q.pc \in {"store", "budget"} =>
          /\ q.at <= now
          /\ Witness(q.tenant, q.seen, q.at)
          /\ kind = "twoTier" => q.begun < q.at + MaxAge
    /\ q.pc # "idle" => q.got = {}
    /\ \A a \in q.got : a.tenant = q.tenant /\ Printed[a.text] = Printed[q.text]

RequestInv == \A r \in Requests : Sound(req[r])

(* A cached response lies under the key of its own tenant and text. *)
KeyInv == \A a \in answers : a.key = <<a.tenant, Printed[a.text]>>

(* What is booked, read and still to be delivered is covered by the calls, *)
(* each as often as its event can be delivered.                            *)
Books(t) == Unit * spent[t] + pending[t] + inFlight[t] <= Attempts * cost[t]

BookInv == \A t \in Tenants : Books(t)

IInv == /\ TypeOK
        /\ RowInv
        /\ CopyInv
        /\ RequestInv
        /\ KeyInv
        /\ BookInv
-----------------------------------------------------------------------------
LEMMA IdleType ==
    /\ Idle \in Request
    /\ Idle.pc = "idle" /\ Idle.begun = 0 /\ Idle.got = {}
  <1>1. (CHOOSE t \in Tenants : TRUE) \in Tenants
        /\ (CHOOSE x \in Texts : TRUE) \in Texts
    BY GatewayAssumption
  <1> QED
    BY <1>1, GatewayAssumption DEF Idle, Request

LEMMA CostType == \A u \in Usages : EstimateCost(u) \in Nat
  <1> SUFFICES ASSUME NEW u \in Usages PROVE EstimateCost(u) \in Nat
    OBVIOUS
  <1>1. u.prompt \in Nat /\ u.completion \in Nat
    BY GatewayAssumption
  <1>2. Prices(u.model).prompt \in {1, 3, 5}
        /\ Prices(u.model).completion \in {2, 15}
    BY DEF Prices
  <1> QED
    BY <1>1, <1>2 DEF EstimateCost

LEMMA Distributes ==
  ASSUME NEW a \in Int, NEW b \in Int, NEW c \in Int
  PROVE  a * (b + c) = a * b + a * c
  OBVIOUS

LEMMA InitEstablishes == Init => IInv
  <1> SUFFICES ASSUME Init PROVE IInv
    OBVIOUS
  <1> USE GatewayAssumption
  <1>1. TypeOK
    BY IdleType DEF Init, TypeOK, Never
  <1>2. RowInv
    BY DEF Init, RowInv
  <1>3. RequestInv
    BY IdleType DEF Init, RequestInv, Sound, Looking
  <1>4. CopyInv /\ KeyInv
    BY DEF Init, CopyInv, KeyInv
  <1>5. BookInv
    <2> SUFFICES ASSUME NEW t \in Tenants PROVE Books(t)
      BY DEF BookInv
    <2>1. spent[t] = 0 /\ pending[t] = 0 /\ inFlight[t] = 0 /\ cost[t] = 0
      BY DEF Init
    <2>2. Unit * 0 + 0 + 0 <= Attempts * 0
      OBVIOUS
    <2> QED
      BY <2>1, <2>2 DEF Books
  <1> QED
    BY <1>1, <1>2, <1>3, <1>4, <1>5 DEF IInv
-----------------------------------------------------------------------------
(* A step of request r leaves the others alone. *)
LEMMA RequestStep ==
  ASSUME IInv, NEW r \in Requests, UNCHANGED <<now, kind, over>>,
         req' = [req EXCEPT ![r] = req'[r]], req'[r] \in Request, Sound(req[r])'
  PROVE  req' \in [Requests -> Request] /\ RequestInv'
  <1>1. req' \in [Requests -> Request]
    BY DEF IInv, TypeOK
  <1>2. ASSUME NEW s \in Requests PROVE Sound(req[s])'
    <2>1. CASE s = r
      BY <2>1
    <2>2. CASE s # r
      <3>1. req'[s] = req[s]
        BY <2>2 DEF IInv, TypeOK
      <3> QED
        BY <3>1 DEF IInv, RequestInv, Sound, Witness
    <2> QED
      BY <2>1, <2>2
  <1> QED
    BY <1>1, <1>2 DEF RequestInv

(* Only pc changes, and not to where a copy of the row is held. *)
LEMMA GotoKeeps ==
  ASSUME IInv, NEW r \in Requests, UNCHANGED <<now, kind, over>>,
         NEW l \in {"query", "parse", "cached", "select", "call", "stream", "set"},
         Goto(r, l), req[r].pc # "idle", l = "query" => req[r].pc \in Looking
  PROVE  req' \in [Requests -> Request] /\ RequestInv'
  <1>1. req[r] \in Request /\ Sound(req[r])
    BY DEF IInv, TypeOK, RequestInv
  <1>2. req' = [req EXCEPT ![r] = req'[r]] /\ req'[r] = [req[r] EXCEPT !.pc = l]
    BY DEF IInv, TypeOK, Goto
  <1>3. req'[r] \in Request
    BY <1>1, <1>2 DEF Request
  <1>4. /\ req'[r].pc = l /\ req'[r].begun = req[r].begun
        /\ req'[r].got = req[r].got /\ req'[r].tenant = req[r].tenant
        /\ req'[r].text = req[r].text
    BY <1>1, <1>2 DEF Request
  <1>5. Sound(req[r])'
    BY <1>1, <1>4 DEF Sound, Looking
  <1> QED
    BY <1>2, <1>3, <1>5, RequestStep

LEMMA ReplyKeeps ==
  ASSUME IInv, NEW r \in Requests, UNCHANGED <<now, kind, over>>, Reply(r)
  PROVE  req' \in [Requests -> Request] /\ RequestInv'
  <1>1. req'[r] = Idle /\ req' = [req EXCEPT ![r] = req'[r]]
    BY DEF IInv, TypeOK, Reply
  <1>2. Sound(req[r])'
    BY <1>1, IdleType, GatewayAssumption DEF Sound, Looking, IInv, TypeOK
  <1> QED
    BY <1>1, <1>2, IdleType, RequestStep

(* The steps of the lookup that give a request its copy of the row. *)
LEMMA LookupKeeps ==
  ASSUME IInv, NEW r \in Requests, Arrive(r) \/ TenantHit(r) \/ Query(r)
  PROVE  req' \in [Requests -> Request] /\ RequestInv'
  <1> USE GatewayAssumption
  <1>0. /\ req[r] \in Request /\ Sound(req[r]) /\ now \in 0..MaxTime
        /\ req \in [Requests -> Request] /\ spent \in [Tenants -> Nat]
    BY DEF IInv, TypeOK, RequestInv
  <1>1. UNCHANGED <<now, kind, over>>
    BY DEF Arrive, TenantHit, Query, caches, accounts
  <1>2. CASE Arrive(r)
    <2>1. PICK t \in Tenants :
             req' = [req EXCEPT ![r] = [Idle EXCEPT !.pc = "lookup", !.tenant = t,
                                                    !.begun = now]]
      BY <1>2 DEF Arrive
    <2>2. /\ req'[r] = [Idle EXCEPT !.pc = "lookup", !.tenant = t, !.begun = now]
          /\ req' = [req EXCEPT ![r] = req'[r]]
      BY <1>0, <2>1
    <2>3. /\ req'[r] \in Request
          /\ req'[r].pc = "lookup" /\ req'[r].begun = now /\ req'[r].got = {}
      <3>1. req'[r] \in Request
        BY <1>0, <2>2, IdleType DEF Request
      <3>2. req'[r].pc = "lookup" /\ req'[r].begun = now /\ req'[r].got = Idle.got
        BY <2>2, IdleType DEF Request
      <3> QED
        BY <3>1, <3>2, IdleType
    <2>4. Sound(req[r])'
      BY <1>0, <1>1, <2>3 DEF Sound
    <2> QED
      BY <1>1, <2>2, <2>3, <2>4, RequestStep
  <1>3. CASE TenantHit(r)
    <2>1. PICK e \in records :
             /\ e.tenant = req[r].tenant
             /\ kind = "memory" \/ now - e.at < MaxAge
             /\ req' = [req EXCEPT ![r].pc = "budget", ![r].seen = e.spent,
                                   ![r].at = e.at]
      BY <1>3 DEF TenantHit, RecordOf
    <2>2. /\ req'[r] = [req[r] EXCEPT !.pc = "budget", !.seen = e.spent, !.at = e.at]
          /\ req' = [req EXCEPT ![r] = req'[r]]
      BY <1>0, <2>1
    <2>3. e \in Record /\ e.at <= now /\ Witness(e.tenant, e.spent, e.at)
      BY DEF IInv, TypeOK, CopyInv
    <2>4. /\ req'[r] \in Request
          /\ req'[r].pc = "budget" /\ req'[r].begun = req[r].begun
          /\ req'[r].got = req[r].got /\ req'[r].tenant = req[r].tenant
          /\ req'[r].text = req[r].text
          /\ req'[r].seen = e.spent /\ req'[r].at = e.at
      BY <1>0, <2>2, <2>3 DEF Request, Record
    <2>5. req[r].begun \in Nat /\ e.at \in Nat
      BY <1>0, <2>3 DEF Request, Record
    <2>6. req[r].pc = "lookup"
      BY <1>3 DEF TenantHit, At
    <2>7. Sound(req[r])'
      BY <1>0, <1>1, <2>1, <2>3, <2>4, <2>5, <2>6
         DEF Sound, Looking, Witness, Exhausted
    <2> QED
      BY <1>1, <2>2, <2>4, <2>7, RequestStep
  <1>4. CASE Query(r)
    <2>1. /\ req'[r] = [req[r] EXCEPT !.pc = "store", !.seen = spent[req[r].tenant],
                                      !.at = now]
          /\ req' = [req EXCEPT ![r] = req'[r]]
      BY <1>0, <1>4 DEF Query
    <2>2. req[r].tenant \in Tenants /\ req[r].begun \in Nat
      BY <1>0 DEF Request
    <2>3. /\ req'[r] \in Request
          /\ req'[r].pc = "store" /\ req'[r].begun = req[r].begun
          /\ req'[r].got = req[r].got /\ req'[r].tenant = req[r].tenant
          /\ req'[r].text = req[r].text
          /\ req'[r].seen = spent[req[r].tenant] /\ req'[r].at = now
      <3> DEFINE c == spent[req[r].tenant]
      <3>1. c \in Nat
        BY <1>0, <2>2
      <3>2. req'[r] = [req[r] EXCEPT !.pc = "store", !.seen = c, !.at = now]
        BY <2>1
      <3> HIDE DEF c
      <3>3. req'[r] \in Request
        BY <1>0, <3>1, <3>2 DEF Request
      <3>4. /\ req'[r].pc = "store" /\ req'[r].begun = req[r].begun
            /\ req'[r].got = req[r].got /\ req'[r].tenant = req[r].tenant
            /\ req'[r].text = req[r].text /\ req'[r].seen = c /\ req'[r].at = now
        BY <1>0, <3>2 DEF Request
      <3> QED
        BY <3>3, <3>4 DEF c
    <2>4. req[r].pc = "query"
      BY <1>4 DEF Query, At
    <2>5. Witness(req[r].tenant, spent[req[r].tenant], now)
      BY <1>0, <2>2 DEF IInv, TypeOK, RowInv, Witness, Never
    <2>6. Sound(req[r])'
      BY <1>0, <1>1, <2>2, <2>3, <2>4, <2>5
         DEF Sound, Looking, Witness, Exhausted
    <2> QED
      BY <1>1, <2>1, <2>3, <2>6, RequestStep
  <1> QED
    BY <1>2, <1>3, <1>4

(* The steps that drop the copy, or end the lookup with what is cached. *)
LEMMA CheckKeeps ==
  ASSUME IInv, NEW r \in Requests, CheckBudget(r) \/ Parse(r) \/ ResponseHit(r)
  PROVE  req' \in [Requests -> Request] /\ RequestInv'
  <1> USE GatewayAssumption
  <1>0. /\ req[r] \in Request /\ Sound(req[r]) /\ now \in 0..MaxTime
        /\ req \in [Requests -> Request]
    BY DEF IInv, TypeOK, RequestInv
  <1>1. UNCHANGED <<now, kind, over>>
    BY DEF CheckBudget, Parse, ResponseHit, caches, accounts
  <1>2. CASE Reply(r)
    BY <1>1, <1>2, ReplyKeeps
  <1>3. ASSUME At(r, "budget"),
               req' = [req EXCEPT ![r].pc = "limit", ![r].begun = 0, ![r].seen = 0,
                                  ![r].at = 0]
        PROVE  req' \in [Requests -> Request] /\ RequestInv'
    <2>0. 0 \in 0..MaxTime /\ 0 \in Nat
      OBVIOUS
    <2>1. /\ req'[r] = [req[r] EXCEPT !.pc = "limit", !.begun = 0, !.seen = 0, !.at = 0]
          /\ req' = [req EXCEPT ![r] = req'[r]]
      BY <1>0, <1>3
    <2>2. /\ req'[r] \in Request
          /\ req'[r].pc = "limit" /\ req'[r].begun = 0
          /\ req'[r].got = req[r].got /\ req'[r].tenant = req[r].tenant
          /\ req'[r].text = req[r].text
      BY <1>0, <2>0, <2>1 DEF Request
    <2>3. Sound(req[r])'
      BY <1>0, <1>1, <1>3, <2>2 DEF Sound, Looking, At
    <2> QED
      BY <1>1, <2>1, <2>2, <2>3, RequestStep
  <1>4. ASSUME At(r, "parse"),
               req' = [req EXCEPT ![r].pc = "select", ![r].stream = TRUE]
        PROVE  req' \in [Requests -> Request] /\ RequestInv'
    <2>1. /\ req'[r] = [req[r] EXCEPT !.pc = "select", !.stream = TRUE]
          /\ req' = [req EXCEPT ![r] = req'[r]]
      BY <1>0, <1>4
    <2>2. /\ req'[r] \in Request
          /\ req'[r].pc = "select" /\ req'[r].begun = req[r].begun
          /\ req'[r].got = req[r].got /\ req'[r].tenant = req[r].tenant
          /\ req'[r].text = req[r].text
      BY <1>0, <2>1 DEF Request
    <2>3. Sound(req[r])'
      BY <1>0, <1>1, <1>4, <2>2 DEF Sound, Looking, At
    <2> QED
      BY <1>1, <2>1, <2>2, <2>3, RequestStep
  <1>5. ASSUME NEW x \in Texts, At(r, "parse"),
               req' = [req EXCEPT ![r].pc = "cached", ![r].text = x]
        PROVE  req' \in [Requests -> Request] /\ RequestInv'
    <2>1. /\ req'[r] = [req[r] EXCEPT !.pc = "cached", !.text = x]
          /\ req' = [req EXCEPT ![r] = req'[r]]
      BY <1>0, <1>5
    <2>2. /\ req'[r] \in Request
          /\ req'[r].pc = "cached" /\ req'[r].begun = req[r].begun
          /\ req'[r].got = req[r].got
      BY <1>0, <2>1 DEF Request
    <2>3. req[r].got = {}
      BY <1>0, <1>5 DEF Sound, At
    <2>4. Sound(req[r])'
      BY <1>0, <1>1, <2>2, <2>3 DEF Sound, Looking
    <2> QED
      BY <1>1, <2>1, <2>2, <2>4, RequestStep
  <1>6. CASE ResponseHit(r)
    <2>1. PICK a \in answers :
             /\ a.key = CacheKey(req[r].tenant, req[r].text)
             /\ req' = [req EXCEPT ![r].pc = "idle", ![r].got = {a}]
      BY <1>6 DEF ResponseHit
    <2>2. /\ req'[r] = [req[r] EXCEPT !.pc = "idle", !.got = {a}]
          /\ req' = [req EXCEPT ![r] = req'[r]]
      BY <1>0, <2>1
    <2>3. a \in Answer /\ a.key = <<a.tenant, Printed[a.text]>>
      BY DEF IInv, TypeOK, KeyInv
    <2>4. a.tenant = req[r].tenant /\ Printed[a.text] = Printed[req[r].text]
      BY <2>1, <2>3 DEF CacheKey
    <2>5. {a} \in SUBSET Answer
      BY <2>3
    <2>6. /\ req'[r] \in Request
          /\ req'[r].pc = "idle" /\ req'[r].begun = req[r].begun
          /\ req'[r].got = {a} /\ req'[r].tenant = req[r].tenant
          /\ req'[r].text = req[r].text
      BY <1>0, <2>2, <2>5 DEF Request
    <2>7. Sound(req[r])'
      BY <1>0, <1>1, <2>4, <2>6 DEF Sound, Looking
    <2> QED
      BY <1>1, <2>2, <2>6, <2>7, RequestStep
  <1> QED
    BY <1>2, <1>3, <1>4, <1>5, <1>6 DEF CheckBudget, Parse

-----------------------------------------------------------------------------
(* Conjuncts that a step leaves alone because it leaves their variables    *)
(* alone.                                                                  *)
LEMMA AccountsKeep ==
  ASSUME IInv, UNCHANGED accounts
  PROVE  /\ rows' \subseteq Tenants /\ spent' \in [Tenants -> Nat]
         /\ inFlight' \in [Tenants -> Nat]
         /\ pending' \in [Tenants -> Nat] /\ cost' \in [Tenants -> Nat]
         /\ over' \in [Tenants -> 0..Never]
         /\ RowInv' /\ BookInv'
  <1>1. UNCHANGED <<rows, spent, inFlight, pending, cost, over>>
    BY DEF accounts
  <1> QED
    BY <1>1 DEF IInv, TypeOK, RowInv, Exhausted, BookInv, Books

LEMMA CopiesKeep ==
  ASSUME IInv, UNCHANGED <<now, records, over>>
  PROVE  records' \subseteq Record /\ CopyInv'
  BY DEF IInv, TypeOK, CopyInv, Witness, Exhausted

LEMMA AnswersKeep ==
  ASSUME IInv, UNCHANGED answers
  PROVE  answers' \subseteq Answer /\ KeyInv'
  BY DEF IInv, TypeOK, KeyInv

(* A step of a request that touches neither cache nor books. *)
LEMMA ReadKeeps ==
  ASSUME IInv, UNCHANGED <<now, caches, accounts>>, arrived' \in 0..Traffic,
         req' \in [Requests -> Request] /\ RequestInv'
  PROVE  IInv'
  <1>1. UNCHANGED <<now, kind, records, answers, accounts, over>>
    BY DEF caches, accounts
  <1>2. now' \in 0..MaxTime /\ kind' \in {"twoTier", "memory"}
    BY <1>1 DEF IInv, TypeOK
  <1>3. TypeOK'
    BY <1>1, <1>2, AccountsKeep, CopiesKeep, AnswersKeep DEF TypeOK
  <1> QED
    BY <1>1, <1>3, AccountsKeep, CopiesKeep, AnswersKeep DEF IInv

LEMMA StoreKeeps ==
  ASSUME IInv, NEW r \in Requests, Store(r)
  PROVE  IInv'
  <1> USE GatewayAssumption
  <1> DEFINE t == req[r].tenant
             e == [tenant |-> t, spent |-> req[r].seen, at |-> req[r].at]
  <1>1. UNCHANGED <<now, kind, answers, accounts, arrived, over>>
    BY DEF Store, accounts
  <1>2. req[r].pc = "store" /\ Goto(r, "budget")
        /\ records' = {e} \cup {d \in records : kind = "twoTier" \/ d.tenant # t}
    BY DEF Store, At
  <1>3. req[r] \in Request /\ Sound(req[r]) /\ req \in [Requests -> Request]
    BY DEF IInv, TypeOK, RequestInv
  <1>4. req[r].at <= now /\ Witness(t, req[r].seen, req[r].at)
    BY <1>2, <1>3 DEF Sound
  <1>5. e \in Record /\ e.tenant = t /\ e.spent = req[r].seen /\ e.at = req[r].at
    BY <1>3 DEF Request, Record
  <1>6. e.at <= now /\ Witness(e.tenant, e.spent, e.at)
    BY <1>4, <1>5
  <1> HIDE DEF e, t
  <1>7. \A d \in records' : d = e \/ d \in records
    BY <1>2
  <1>8. records' \subseteq Record /\ CopyInv'
    BY <1>1, <1>5, <1>6, <1>7 DEF IInv, TypeOK, CopyInv, Witness, Exhausted
  <1>9. req' \in [Requests -> Request] /\ RequestInv'
    <2>1. req' = [req EXCEPT ![r] = req'[r]] /\ req'[r] = [req[r] EXCEPT !.pc = "budget"]
      BY <1>2, <1>3 DEF Goto
    <2>2. /\ req'[r] \in Request
          /\ req'[r].pc = "budget" /\ req'[r].begun = req[r].begun
          /\ req'[r].got = req[r].got /\ req'[r].tenant = req[r].tenant
          /\ req'[r].text = req[r].text
          /\ req'[r].seen = req[r].seen /\ req'[r].at = req[r].at
      BY <1>3, <2>1 DEF Request
    <2>3. Sound(req[r])'
      BY <1>1, <1>2, <1>3, <2>2 DEF Sound, Looking, Witness, Exhausted
    <2> QED
      BY <1>1, <2>1, <2>2, <2>3, RequestStep
  <1>10. TypeOK'
    <2>1. /\ now' \in 0..MaxTime /\ kind' \in {"twoTier", "memory"}
          /\ arrived' \in 0..Traffic
      BY <1>1 DEF IInv, TypeOK
    <2> QED
      BY <1>1, <1>8, <1>9, <2>1, AccountsKeep, AnswersKeep DEF TypeOK
  <1> QED
    BY <1>1, <1>8, <1>9, <1>10, AccountsKeep, AnswersKeep DEF IInv

LEMMA SetResponseKeeps ==
  ASSUME IInv, NEW r \in Requests, SetResponse(r)
  PROVE  IInv'
  <1> USE GatewayAssumption
  <1> DEFINE a == [key |-> CacheKey(req[r].tenant, req[r].text),
                   tenant |-> req[r].tenant, text |-> req[r].text]
  <1>1. UNCHANGED <<now, kind, records, accounts, arrived, over>>
    BY DEF SetResponse, accounts
  <1>2. Reply(r)
    BY DEF SetResponse
  <1>3. \A b \in answers' : b = a \/ b \in answers
    BY DEF SetResponse
  <1>4. req[r] \in Request
    BY DEF IInv, TypeOK
  <1>5. a \in Answer /\ a.key = <<a.tenant, Printed[a.text]>>
    BY <1>4 DEF Request, Answer, Prints, CacheKey
  <1> HIDE DEF a
  <1>6. answers' \subseteq Answer /\ KeyInv'
    BY <1>3, <1>5 DEF IInv, TypeOK, KeyInv
  <1>7. req' \in [Requests -> Request] /\ RequestInv'
    BY <1>1, <1>2, ReplyKeeps
  <1>8. TypeOK'
    <2>1. /\ now' \in 0..MaxTime /\ kind' \in {"twoTier", "memory"}
          /\ arrived' \in 0..Traffic
      BY <1>1 DEF IInv, TypeOK
    <2> QED
      BY <1>1, <1>6, <1>7, <2>1, AccountsKeep, CopiesKeep DEF TypeOK
  <1> QED
    BY <1>1, <1>6, <1>7, <1>8, AccountsKeep, CopiesKeep DEF IInv

LEMMA CallSucceedsKeeps ==
  ASSUME IInv, NEW r \in Requests, CallSucceeds(r)
  PROVE  IInv'
  <1> USE GatewayAssumption
  <1> DEFINE t == req[r].tenant
  <1>1. UNCHANGED <<now, kind, records, answers, rows, spent, pending, over, arrived>>
    BY DEF CallSucceeds, caches
  <1>2. PICK u \in Usages :
           /\ cost' = [cost EXCEPT ![t] = @ + EstimateCost(u)]
           /\ inFlight' = [inFlight EXCEPT ![t] = @ + Attempts * EstimateCost(u)]
    BY DEF CallSucceeds, Bill
  <1>3. req[r] \in Request /\ t \in Tenants
    BY DEF IInv, TypeOK, Request
  <1>4. /\ cost \in [Tenants -> Nat] /\ inFlight \in [Tenants -> Nat]
        /\ spent \in [Tenants -> Nat] /\ pending \in [Tenants -> Nat]
    BY DEF IInv, TypeOK
  <1> DEFINE c == EstimateCost(u)
             k == Attempts * c
  <1>5. c \in Nat
    BY CostType
  <1> HIDE DEF c, t
  <1>6. k \in Nat
    BY <1>5
  <1>7. cost' = [cost EXCEPT ![t] = @ + c] /\ inFlight' = [inFlight EXCEPT ![t] = @ + k]
    BY <1>2 DEF c
  <1> HIDE DEF k
  <1>12. cost' \in [Tenants -> Nat] /\ inFlight' \in [Tenants -> Nat]
    BY <1>3, <1>4, <1>5, <1>6, <1>7
  <1>8. BookInv'
    <2> SUFFICES ASSUME NEW v \in Tenants PROVE Books(v)'
      BY DEF BookInv
    <2>1. Books(v)
      BY DEF IInv, BookInv
    <2>2. CASE v # t
      <3>1. cost'[v] = cost[v] /\ inFlight'[v] = inFlight[v]
        BY <1>4, <1>7, <2>2
      <3> QED
        BY <1>1, <2>1, <3>1 DEF Books
    <2>3. CASE v = t
      <3>1. cost'[v] = cost[v] + c /\ inFlight'[v] = inFlight[v] + k
        BY <1>3, <1>4, <1>7, <2>3
      <3>2. Attempts * (cost[v] + c) = Attempts * cost[v] + Attempts * c
        BY <1>4, <1>5, Distributes
      <3> DEFINE x == Unit * spent[v]
                 y == Attempts * cost[v]
                 z == Attempts * cost'[v]
      <3>3. /\ x \in Int /\ y \in Int /\ z = y + k
            /\ pending[v] \in Int /\ inFlight[v] \in Int
            /\ x + pending[v] + inFlight[v] <= y
        BY <1>4, <2>1, <3>1, <3>2 DEF Books, k
      <3>4. Books(v)' <=> x + pending[v] + inFlight'[v] <= z
        BY <1>1 DEF Books
      <3> HIDE DEF x, y, z
      <3> QED
        BY <1>6, <3>1, <3>3, <3>4
    <2> QED
      BY <2>2, <2>3
  <1>9. req' \in [Requests -> Request] /\ RequestInv'
    BY <1>1, GotoKeeps DEF CallSucceeds, At
  <1>10. RowInv'
    BY <1>1 DEF IInv, RowInv, Exhausted
  <1>11. TypeOK'
    <2>1. /\ now' \in 0..MaxTime /\ kind' \in {"twoTier", "memory"}
          /\ arrived' \in 0..Traffic /\ rows' \subseteq Tenants
          /\ spent' \in [Tenants -> Nat] /\ over' \in [Tenants -> 0..Never]
          /\ pending' \in [Tenants -> Nat]
      BY <1>1 DEF IInv, TypeOK
    <2> QED
      BY <1>1, <1>12, <1>9, <2>1, CopiesKeep, AnswersKeep DEF TypeOK
  <1> QED
    BY <1>1, <1>8, <1>9, <1>10, <1>11, CopiesKeep, AnswersKeep DEF IInv

LEMMA ServeKeeps ==
  ASSUME IInv, NEW r \in Requests, Serve(r)
  PROVE  IInv'
  <1>1. arrived \in 0..Traffic
    BY DEF IInv, TypeOK
  <1>2. CASE Arrive(r) \/ TenantHit(r) \/ Query(r)
    <2>1. UNCHANGED <<now, caches, accounts>>
      BY <1>2 DEF Arrive, TenantHit, Query
    <2>2. arrived' \in 0..Traffic
      <3>1. CASE Arrive(r)
        BY <1>1, <3>1, GatewayAssumption DEF Arrive
      <3>2. CASE TenantHit(r) \/ Query(r)
        BY <1>1, <3>2 DEF TenantHit, Query
      <3> QED
        BY <1>2, <3>1, <3>2
    <2> QED
      BY <1>2, <2>1, <2>2, LookupKeeps, ReadKeeps
  <1>3. CASE CheckBudget(r) \/ Parse(r) \/ ResponseHit(r)
    <2>1. UNCHANGED <<now, caches, accounts>> /\ arrived' \in 0..Traffic
      BY <1>1, <1>3 DEF CheckBudget, Parse, ResponseHit
    <2> QED
      BY <1>3, <2>1, CheckKeeps, ReadKeeps
  <1>4. CASE TenantMiss(r) \/ QueryFails(r) \/ CheckLimit(r) \/ ResponseMiss(r)
             \/ Select(r) \/ CallFails(r) \/ StreamEnds(r)
    <2>1. UNCHANGED <<now, caches, accounts>> /\ arrived' \in 0..Traffic
      BY <1>1, <1>4
         DEF TenantMiss, QueryFails, CheckLimit, ResponseMiss, Select, CallFails,
             StreamEnds
    <2>2. UNCHANGED <<now, kind, over>>
      BY <2>1 DEF caches, accounts
    <2>3. \/ Reply(r)
          \/ \E l \in {"query", "parse", "cached", "select", "call", "stream", "set"} :
                Goto(r, l) /\ req[r].pc # "idle"
                /\ (l = "query" => req[r].pc \in Looking)
      <3>1. CASE TenantMiss(r) \/ QueryFails(r)
        BY <3>1 DEF TenantMiss, QueryFails, At, Looking
      <3>2. CASE CheckLimit(r)
        BY <3>2 DEF CheckLimit, At
      <3>3. CASE ResponseMiss(r)
        BY <3>3 DEF ResponseMiss, At
      <3>4. CASE Select(r)
        <4>1. Reply(r) \/ Goto(r, "stream") \/ Goto(r, "call")
          BY <3>4 DEF Select
        <4> QED
          BY <3>4, <4>1 DEF Select, At
      <3>5. CASE CallFails(r) \/ StreamEnds(r)
        BY <3>5 DEF CallFails, StreamEnds
      <3> QED
        BY <1>4, <3>1, <3>2, <3>3, <3>4, <3>5
    <2> QED
      BY <2>1, <2>2, <2>3, ReplyKeeps, GotoKeeps, ReadKeeps
  <1> QED
    BY <1>2, <1>3, <1>4, StoreKeeps, SetResponseKeeps, CallSucceedsKeeps DEF Serve
-----------------------------------------------------------------------------
(* int(cost) never rounds up. *)
LEMMA Truncation ==
  ASSUME NEW u \in Nat, NEW n \in Nat \ {0}
  PROVE  u \div n \in Nat /\ n * (u \div n) <= u /\ n * (u \div n) \in Nat
  OBVIOUS

(* When the row shows the budget spent for the first time, every copy that *)
(* was read shows what it showed before.                                   *)
LEMMA FlushKeeps ==
  ASSUME IInv, NEW t \in Tenants, Flush(t)
  PROVE  IInv'
  <1> USE GatewayAssumption
  <1> DEFINE d == pending[t] \div Unit
  <1>1. UNCHANGED <<now, kind, records, answers, rows, inFlight, cost, req, arrived>>
    BY DEF Flush, caches
  <1>2. /\ inFlight \in [Tenants -> Nat] /\ cost \in [Tenants -> Nat] /\ pending \in [Tenants -> Nat]
        /\ spent \in [Tenants -> Nat] /\ over \in [Tenants -> 0..Never]
        /\ now \in 0..MaxTime
    BY DEF IInv, TypeOK
  <1>3. d \in Nat /\ Unit * d <= pending[t] /\ Unit * d \in Nat
    BY <1>2, Truncation
  <1>4. pending' = [pending EXCEPT ![t] = 0]
    BY DEF Flush, Empty
  <1>5. \/ UNCHANGED <<spent, over>>
        \/ /\ spent' = [spent EXCEPT ![t] = @ + d]
           /\ over' = [over EXCEPT ![t] =
                          IF @ = Never /\ Budget[t] > 0 /\ spent'[t] >= Budget[t]
                          THEN now ELSE @]
    BY DEF Flush
  <1> HIDE DEF d
  <1>6. pending' \in [Tenants -> Nat]
    BY <1>2, <1>4
  <1>7. /\ spent' \in [Tenants -> Nat]
        /\ \A v \in Tenants : spent'[v] = spent[v] \/ (v = t /\ spent'[v] = spent[v] + d)
    BY <1>2, <1>3, <1>5
  <1>8. over' \in [Tenants -> 0..Never]
    BY <1>2, <1>5 DEF Never
  <1>9. \A v \in Tenants :
           over'[v] = over[v] \/ (over'[v] = now /\ Exhausted(v, spent'[v]))
    <2>1. CASE UNCHANGED <<spent, over>>
      BY <2>1
    <2>2. CASE /\ spent' = [spent EXCEPT ![t] = @ + d]
               /\ over' = [over EXCEPT ![t] =
                              IF @ = Never /\ Budget[t] > 0 /\ spent'[t] >= Budget[t]
                              THEN now ELSE @]
      <3> SUFFICES ASSUME NEW v \in Tenants
                   PROVE  over'[v] = over[v] \/ (over'[v] = now /\ Exhausted(v, spent'[v]))
        OBVIOUS
      <3>1. CASE v = t
        BY <1>2, <2>2, <3>1 DEF Exhausted
      <3>2. CASE v # t
        BY <1>2, <2>2, <3>2
      <3> QED
        BY <3>1, <3>2
    <2> QED
      BY <1>5, <2>1, <2>2
  <1>10. ASSUME NEW v \in Tenants, Exhausted(v, spent[v])
         PROVE  Exhausted(v, spent'[v])
    <2>1. spent[v] \in Nat /\ spent'[v] \in Nat /\ spent'[v] >= spent[v]
      BY <1>2, <1>3, <1>7
    <2> QED
      BY <1>10, <2>1 DEF Exhausted
  <1>11. RowInv'
    BY <1>9, <1>10 DEF IInv, RowInv, Exhausted
  <1>12. ASSUME NEW v \in Tenants, NEW c, NEW at \in Nat, at <= now, Witness(v, c, at)
         PROVE  Witness(v, c, at)'
    BY <1>9, <1>12 DEF Witness, Exhausted
  <1>13. CopyInv'
    <2> SUFFICES ASSUME NEW e \in records
                 PROVE  e.at <= now /\ Witness(e.tenant, e.spent, e.at)'
      BY <1>1 DEF CopyInv
    <2>1. e.tenant \in Tenants /\ e.at \in Nat
      BY DEF IInv, TypeOK, Record
    <2>2. e.at <= now /\ Witness(e.tenant, e.spent, e.at)
      BY DEF IInv, CopyInv
    <2> QED
      BY <1>12, <2>1, <2>2
  <1>14. RequestInv'
    <2> SUFFICES ASSUME NEW r \in Requests PROVE Sound(req[r])'
      BY DEF RequestInv
    <2>1. req[r].tenant \in Tenants /\ req[r].at \in Nat /\ Sound(req[r])
      BY DEF IInv, TypeOK, Request, RequestInv
    <2>2. ASSUME req[r].pc \in {"store", "budget"}
          PROVE  Witness(req[r].tenant, req[r].seen, req[r].at)'
      BY <1>1, <1>12, <2>1, <2>2 DEF Sound
    <2> QED
      BY <1>1, <2>1, <2>2 DEF Sound
  <1>15. BookInv'
    <2> SUFFICES ASSUME NEW v \in Tenants PROVE Books(v)'
      BY DEF BookInv
    <2> DEFINE a == Unit * spent[v]
               b == Unit * d
               y == Attempts * cost[v]
    <2>1. /\ a + pending[v] + inFlight[v] <= y
          /\ a \in Int /\ b \in Nat /\ y \in Int
      BY <1>2, <1>3 DEF IInv, BookInv, Books
    <2>2. pending'[v] = IF v = t THEN 0 ELSE pending[v]
      BY <1>2, <1>4
    <2>3. pending[v] \in Nat /\ inFlight[v] \in Nat /\ spent[v] \in Nat
      BY <1>2
    <2>4. Unit * (spent[v] + d) = a + b
      BY <1>3, <2>3, Distributes
    <2>5. Books(v)' <=> Unit * spent'[v] + pending'[v] + inFlight[v] <= y
      BY <1>1 DEF Books
    <2>6. CASE v = t /\ spent'[v] = spent[v] + d
      <3>1. Unit * spent'[v] = a + b /\ b <= pending[v] /\ pending'[v] = 0
        BY <1>3, <2>2, <2>4, <2>6
      <3> HIDE DEF a, b, y
      <3>2. a + b + 0 + inFlight[v] <= y
        BY <2>1, <2>3, <3>1
      <3> QED
        BY <2>5, <3>1, <3>2
    <2>7. CASE spent'[v] = spent[v]
      <3>1. Unit * spent'[v] = a
        BY <2>7
      <3> HIDE DEF a, b, y
      <3>2. a + pending'[v] + inFlight[v] <= y
        BY <2>1, <2>2, <2>3
      <3> QED
        BY <2>5, <3>1, <3>2
    <2> QED
      BY <1>7, <2>6, <2>7
  <1>16. TypeOK'
    <2>1. /\ now' \in 0..MaxTime /\ kind' \in {"twoTier", "memory"}
          /\ arrived' \in 0..Traffic /\ rows' \subseteq Tenants
          /\ inFlight' \in [Tenants -> Nat]
          /\ cost' \in [Tenants -> Nat] /\ req' \in [Requests -> Request]
          /\ records' \subseteq Record
      BY <1>1 DEF IInv, TypeOK
    <2> QED
      BY <1>1, <1>6, <1>7, <1>8, <2>1, AnswersKeep DEF TypeOK
  <1> QED
    BY <1>1, <1>11, <1>13, <1>14, <1>15, <1>16, AnswersKeep DEF IInv

LEMMA SameRequests ==
  ASSUME IInv, UNCHANGED <<now, kind, over, req>>
  PROVE  req' \in [Requests -> Request] /\ RequestInv'
  BY DEF IInv, TypeOK, RequestInv, Sound, Witness, Exhausted

(* A delivery moves an event's cost to the processor. *)
LEMMA DeliverKeeps ==
  ASSUME IInv, NEW t \in Tenants, Deliver(t)
  PROVE  IInv'
  <1>1. UNCHANGED <<now, kind, records, answers, rows, spent, cost, over, req, arrived>>
    BY DEF Deliver, caches
  <1>2. /\ inFlight \in [Tenants -> Nat] /\ pending \in [Tenants -> Nat]
        /\ cost \in [Tenants -> Nat] /\ spent \in [Tenants -> Nat]
    BY DEF IInv, TypeOK
  <1>3. PICK u \in Usages :
           /\ EstimateCost(u) <= inFlight[t]
           /\ inFlight' = [inFlight EXCEPT ![t] = @ - EstimateCost(u)]
           /\ pending' = [pending EXCEPT ![t] = @ + EstimateCost(u)]
    BY DEF Deliver
  <1> DEFINE c == EstimateCost(u)
  <1>4. c \in Nat
    BY CostType
  <1>5. /\ c <= inFlight[t]
        /\ inFlight' = [inFlight EXCEPT ![t] = @ - c]
        /\ pending' = [pending EXCEPT ![t] = @ + c]
    BY <1>3
  <1> HIDE DEF c
  <1>6. inFlight' \in [Tenants -> Nat] /\ pending' \in [Tenants -> Nat]
    BY <1>2, <1>4, <1>5
  <1>7. BookInv'
    <2> SUFFICES ASSUME NEW v \in Tenants PROVE Books(v)'
      BY DEF BookInv
    <2> DEFINE a == Unit * spent[v]
    <2>1. pending'[v] + inFlight'[v] = pending[v] + inFlight[v]
      BY <1>2, <1>4, <1>5
    <2>2. Books(v)
      BY DEF IInv, BookInv
    <2>3. /\ a \in Int /\ pending[v] \in Int /\ inFlight[v] \in Int
          /\ pending'[v] \in Int /\ inFlight'[v] \in Int
      BY <1>2, <1>6, GatewayAssumption
    <2>4. Books(v)' <=> a + pending'[v] + inFlight'[v] <= Attempts * cost[v]
      BY <1>1 DEF Books
    <2>5. Books(v) <=> a + pending[v] + inFlight[v] <= Attempts * cost[v]
      BY DEF Books
    <2> HIDE DEF a
    <2>6. a + pending'[v] + inFlight'[v] = a + pending[v] + inFlight[v]
      BY <2>1, <2>3
    <2> QED
      BY <2>2, <2>4, <2>5, <2>6
  <1>8. RowInv'
    BY <1>1 DEF IInv, RowInv, Exhausted
  <1>9. TypeOK'
    BY <1>1, <1>6 DEF IInv, TypeOK
  <1> QED
    BY <1>1, <1>7, <1>8, <1>9, CopiesKeep, AnswersKeep, SameRequests DEF IInv

LEMMA TickKeeps ==
  ASSUME IInv, Tick
  PROVE  IInv'
  <1> USE GatewayAssumption
  <1>1. UNCHANGED <<kind, answers, accounts, req, arrived, over>>
    BY DEF Tick, accounts
  <1>2. now \in 0..MaxTime /\ now' = now + 1 /\ now' \in 0..MaxTime
    BY DEF IInv, TypeOK, Tick
  <1>3. records' \subseteq records
    BY DEF Tick
  <1>4. records' \subseteq Record /\ CopyInv'
    <2>1. records' \subseteq Record
      BY <1>3 DEF IInv, TypeOK
    <2>2. ASSUME NEW e \in records'
          PROVE  e.at <= now' /\ Witness(e.tenant, e.spent, e.at)'
      <3>1. e.at \in Nat /\ e.at <= now /\ Witness(e.tenant, e.spent, e.at)
        BY <1>3, <2>1 DEF IInv, CopyInv, Record
      <3> QED
        BY <1>1, <1>2, <3>1 DEF Witness, Exhausted
    <2> QED
      BY <2>1, <2>2 DEF CopyInv
  <1>5. RequestInv'
    <2> SUFFICES ASSUME NEW r \in Requests PROVE Sound(req[r])'
      BY DEF RequestInv
    <2>1. /\ req[r].begun \in Nat /\ req[r].at \in Nat /\ Sound(req[r])
      BY DEF IInv, TypeOK, Request, RequestInv
    <2>2. req[r].pc \in Looking => now < req[r].begun + MaxOp
      BY DEF Tick
    <2> QED
      BY <1>1, <1>2, <2>1, <2>2 DEF Sound, Witness, Exhausted
  <1>6. TypeOK'
    <2>1. /\ kind' \in {"twoTier", "memory"} /\ arrived' \in 0..Traffic
          /\ req' \in [Requests -> Request]
      BY <1>1 DEF IInv, TypeOK
    <2> QED
      BY <1>1, <1>2, <1>4, <2>1, AccountsKeep, AnswersKeep DEF TypeOK
  <1> QED
    BY <1>1, <1>4, <1>5, <1>6, AccountsKeep, AnswersKeep DEF IInv

LEMMA NextKeeps == IInv /\ [Next]_vars => IInv'
  <1> SUFFICES ASSUME IInv, [Next]_vars PROVE IInv'
    OBVIOUS
  <1>1. ASSUME NEW r \in Requests, Serve(r) PROVE IInv'
    BY <1>1, ServeKeeps
  <1>2. ASSUME NEW t \in Tenants, CreateTenant(t) PROVE IInv'
    <2>1. UNCHANGED <<now, kind, records, answers, spent, inFlight, pending, cost,
                      over, req, arrived>>
      BY <1>2 DEF CreateTenant, caches
    <2>2. rows' \subseteq Tenants
      BY <1>2 DEF CreateTenant, Insert, IInv, TypeOK
    <2>3. RowInv' /\ BookInv'
      BY <2>1 DEF IInv, RowInv, Exhausted, BookInv, Books
    <2>4. TypeOK'
      BY <2>1, <2>2 DEF IInv, TypeOK
    <2> QED
      BY <2>1, <2>3, <2>4, CopiesKeep, AnswersKeep, SameRequests DEF IInv
  <1>3. ASSUME NEW t \in Tenants, Deliver(t) \/ Flush(t) PROVE IInv'
    BY <1>3, DeliverKeeps, FlushKeeps
  <1>4. CASE Tick
    BY <1>4, TickKeeps
  <1>5. CASE UNCHANGED vars
    <2>1. UNCHANGED <<now, kind, over, req, caches, accounts, arrived>>
      BY <1>5 DEF vars, caches, accounts
    <2>2. arrived' \in 0..Traffic
      BY <2>1 DEF IInv, TypeOK
    <2> QED
      BY <2>1, <2>2, SameRequests, ReadKeeps
  <1> QED
    BY <1>1, <1>2, <1>3, <1>4, <1>5 DEF Next
-----------------------------------------------------------------------------
LEMMA Invariance == Spec => []IInv
  BY InitEstablishes, NextKeeps, PTL DEF Spec

(* Spec keeps its types: the variables of handler.go's requests, caches and*)
(* accounts hold what the code puts there.                                 *)
THEOREM TypeCorrect == Spec => []TypeOK
  <1>1. IInv => TypeOK
    BY DEF IInv
  <1> QED
    BY <1>1, Invariance, PTL

(* No request gets a cached response of another tenant or to a text that   *)
(* prints differently (handler.go:99-110), for any number of concurrent    *)
(* requests and any way of printing messages into the key.                 *)
THEOREM OwnAnswers == Spec => []OwnAnswer
  <1>1. IInv => OwnAnswer
    BY DEF IInv, RequestInv, Sound, OwnAnswer
  <1> QED
    BY <1>1, Invariance, PTL

(* What is written to a row never exceeds the cost of the calls made for   *)
(* it, each counted as often as the writer can deliver its event           *)
(* (handler.go:125-160, logging.go:45-67, processor.go:83-102).            *)
THEOREM OnlyCallsCharged == Spec => []ChargedForCalls
  <1>1. IInv => ChargedForCalls
    <2> SUFFICES ASSUME IInv, NEW t \in Tenants
                 PROVE  Unit * spent[t] + pending[t] <= Attempts * cost[t]
      BY DEF ChargedForCalls
    <2> DEFINE a == Unit * spent[t]
               y == Attempts * cost[t]
    <2>1. /\ a \in Int /\ y \in Int /\ pending[t] \in Nat /\ inFlight[t] \in Nat
          /\ a + pending[t] + inFlight[t] <= y
      BY GatewayAssumption DEF IInv, TypeOK, BookInv, Books
    <2> HIDE DEF a, y
    <2>2. a + pending[t] <= y
      BY <2>1
    <2> QED
      BY <2>2 DEF a, y
  <1> QED
    BY <1>1, Invariance, PTL

(* A request's step is its own. *)
LEMMA OthersWait ==
  ASSUME IInv, NEW s \in Requests, NEW r \in Requests, Serve(s), s # r
  PROVE  req'[r] = req[r]
  BY DEF IInv, TypeOK, Serve, Arrive, TenantHit, TenantMiss, Query, QueryFails,
         Store, CheckBudget, CheckLimit, Parse, ResponseHit, ResponseMiss, Select,
         CallSucceeds, CallFails, StreamEnds, SetResponse, Goto, Reply

(* A request leaves the budget check by checking. *)
LEMMA BudgetStep ==
  ASSUME IInv, Next, NEW r \in Requests, req[r].pc = "budget", req'[r].pc # "budget"
  PROVE  /\ CheckBudget(r)
         /\ req'[r].pc = IF Exhausted(req[r].tenant, req[r].seen) THEN "idle" ELSE "limit"
  <1>1. PICK s \in Requests : Serve(s)
    BY DEF Next, CreateTenant, Deliver, Flush, Tick
  <1>2. s = r
    BY <1>1, OthersWait
  <1>3. CheckBudget(r)
    BY <1>1, <1>2
       DEF Serve, Arrive, TenantHit, TenantMiss, Query, QueryFails, Store,
           CheckLimit, Parse, ResponseHit, ResponseMiss, Select, CallSucceeds,
           CallFails, StreamEnds, SetResponse, At
  <1>4. req \in [Requests -> Request] /\ req[r] \in Request
    BY DEF IInv, TypeOK
  <1>5. CASE Exhausted(req[r].tenant, req[r].seen)
    BY <1>3, <1>4, <1>5, IdleType DEF CheckBudget, Reply
  <1>6. CASE ~Exhausted(req[r].tenant, req[r].seen)
    BY <1>3, <1>4, <1>6 DEF CheckBudget, Request
  <1> QED
    BY <1>3, <1>5, <1>6

(* A request that passes the budget check of handler.go:79 although the row*)
(* shows the budget spent does so less than MaxAge + MaxOp later: its copy *)
(* was read before (Witness) and was young when the request began (Sound). *)
THEOREM BudgetLagIsBounded == Spec => BudgetLag
  <1> DEFINE Passes(r) ==
               LET t == req[r].tenant IN
               /\ kind = "twoTier"
               /\ req[r].pc = "budget" /\ req'[r].pc = "limit"
               /\ over[t] # Never
               => now - over[t] < MaxAge + MaxOp
  <1>1. ASSUME IInv, Next, NEW r \in Requests PROVE Passes(r)
    <2> SUFFICES ASSUME kind = "twoTier", req[r].pc = "budget", req'[r].pc = "limit"
                 PROVE  now - over[req[r].tenant] < MaxAge + MaxOp
      OBVIOUS
    <2>1. /\ req[r] \in Request /\ Sound(req[r]) /\ req \in [Requests -> Request]
          /\ over \in [Tenants -> 0..Never] /\ now \in 0..MaxTime
      BY <1>1 DEF IInv, TypeOK, RequestInv
    <2>2. /\ req[r].tenant \in Tenants /\ req[r].begun \in Nat /\ req[r].at \in Nat
          /\ over[req[r].tenant] \in Nat
      BY <2>1, GatewayAssumption DEF Request, Never
    <2>4. ~Exhausted(req[r].tenant, req[r].seen)
      BY <1>1, BudgetStep
    <2>5. /\ now <= req[r].begun + MaxOp
          /\ req[r].at <= over[req[r].tenant]
          /\ req[r].begun < req[r].at + MaxAge
      BY <2>1, <2>4 DEF Sound, Looking, Witness
    <2> QED
      BY <2>1, <2>2, <2>5, GatewayAssumption
  <1>2. IInv /\ [Next]_vars => [\A r \in Requests : Passes(r)]_vars
    BY <1>1
  <1> QED
    BY <1>2, Invariance, PTL DEF Spec, BudgetLag
-----------------------------------------------------------------------------
(* Which steps take a request to a place before the budget check, and that *)
(* they leave its tenant alone.                                            *)
LEMMA NextPc ==
  ASSUME IInv, NEW r \in Requests, Serve(r),
         req'[r].pc \in {"query", "store", "budget"}
  PROVE  /\ \/ TenantMiss(r) /\ req'[r].pc = "query"
            \/ Query(r) /\ req'[r].pc = "store"
            \/ (TenantHit(r) \/ Store(r)) /\ req'[r].pc = "budget"
         /\ req'[r].tenant = req[r].tenant
  <1>1. req \in [Requests -> Request] /\ req[r] \in Request
    BY DEF IInv, TypeOK
  <1>2. ~Arrive(r)
    <2> SUFFICES ASSUME Arrive(r) PROVE FALSE
      OBVIOUS
    <2>1. PICK t \in Tenants :
             req' = [req EXCEPT ![r] = [Idle EXCEPT !.pc = "lookup", !.tenant = t,
                                                    !.begun = now]]
      BY DEF Arrive
    <2>2. req'[r] = [Idle EXCEPT !.pc = "lookup", !.tenant = t, !.begun = now]
      BY <1>1, <2>1
    <2>3. req'[r].pc = "lookup"
      BY <2>2, IdleType DEF Request
    <2> QED
      BY <2>3
  <1>3. ASSUME NEW l, Goto(r, l)
        PROVE  req'[r].pc = l /\ req'[r].tenant = req[r].tenant
    <2>1. req'[r] = [req[r] EXCEPT !.pc = l]
      BY <1>1, <1>3 DEF Goto
    <2> QED
      BY <1>1, <2>1 DEF Request
  <1>4. ~Reply(r)
    BY <1>1, IdleType DEF Reply
  <1>5. ~CheckBudget(r)
    BY <1>1, <1>4 DEF CheckBudget, Request
  <1>6. ~Parse(r)
    BY <1>1, <1>4 DEF Parse, Request
  <1>7. ~ResponseHit(r)
    BY <1>1 DEF ResponseHit, Request
  <1>8. ~(CheckLimit(r) \/ ResponseMiss(r) \/ Select(r) \/ CallSucceeds(r))
    <2>1. ~Goto(r, "parse") /\ ~Goto(r, "select") /\ ~Goto(r, "set")
      BY <1>3
    <2>2. ~Goto(r, IF req[r].stream THEN "stream" ELSE "call")
      BY <1>3
    <2> QED
      BY <1>4, <2>1, <2>2 DEF CheckLimit, ResponseMiss, Select, CallSucceeds
  <1>9. ~(QueryFails(r) \/ CallFails(r) \/ StreamEnds(r) \/ SetResponse(r))
    BY <1>4 DEF QueryFails, CallFails, StreamEnds, SetResponse
  <1>10. TenantMiss(r) \/ Query(r) \/ TenantHit(r) \/ Store(r)
    BY <1>2, <1>5, <1>6, <1>7, <1>8, <1>9 DEF Serve
  <1>11. CASE TenantMiss(r)
    BY <1>3, <1>11 DEF TenantMiss
  <1>12. CASE Store(r)
    BY <1>3, <1>12 DEF Store
  <1>13. CASE Query(r)
    <2>1. req'[r] = [req[r] EXCEPT !.pc = "store", !.seen = spent[req[r].tenant],
                                   !.at = now]
      BY <1>1, <1>13 DEF Query
    <2>2. req'[r].tenant = req[r].tenant /\ req'[r].pc = "store"
      BY <1>1, <2>1 DEF Request
    <2> QED
      BY <1>13, <2>2
  <1>14. CASE TenantHit(r)
    <2>1. PICK e \in records :
             req' = [req EXCEPT ![r].pc = "budget", ![r].seen = e.spent,
                                ![r].at = e.at]
      BY <1>14 DEF TenantHit
    <2>2. req'[r].tenant = req[r].tenant /\ req'[r].pc = "budget"
      BY <1>1, <2>1 DEF Request
    <2> QED
      BY <1>14, <2>2
  <1> QED
    BY <1>10, <1>11, <1>12, <1>13, <1>14

(* A record that no request of its tenant is about to replace. *)
Settled(e) ==
    /\ e \in records
    /\ \A r \in Requests :
          req[r].tenant = e.tenant => req[r].pc \notin {"query", "store"}

(* Once the requests that overlapped the first lookup are through, the map *)
(* keeps its record, and no later lookup gets past it.                     *)
RecordIsFinal ==
    [][\A e \in records : kind = "memory" /\ Settled(e) => Settled(e)']_vars

(* Why "without restarting the gateway" (README.md:69) and the five minutes*)
(* that handler.go:75 gives a record mean nothing without Redis: the map of*)
(* memory.go:23-41 ignores lifetimes, so that the process never asks       *)
(* PostgreSQL for this tenant again, and a budget, a limit or a key changed*)
(* there is noticed by a restart only.                                     *)
THEOREM MemoryNeverForgets == Spec => RecordIsFinal
  <1>1. ASSUME IInv, Next, NEW e \in records, kind = "memory", Settled(e)
        PROVE  Settled(e)'
    <2>0. req \in [Requests -> Request]
      BY <1>1 DEF IInv, TypeOK
    <2>1. CASE Tick \/ \E t \in Tenants : CreateTenant(t) \/ Deliver(t) \/ Flush(t)
      <3>1. req' = req /\ e \in records'
        BY <1>1, <2>1 DEF Tick, CreateTenant, Deliver, Flush, caches, Settled
      <3> QED
        BY <1>1, <3>1 DEF Settled
    <2>2. ASSUME NEW s \in Requests, Serve(s) PROVE Settled(e)'
      <3>1. e \in records'
        <4>1. CASE Store(s)
          <5>1. req[s].pc = "store"
            BY <4>1 DEF Store, At
          <5>2. req[s].tenant # e.tenant
            BY <1>1, <5>1 DEF Settled
          <5> QED
            BY <1>1, <4>1, <5>2 DEF Store
        <4>2. CASE ~Store(s)
          BY <1>1, <2>2, <4>2
             DEF Serve, Arrive, TenantHit, TenantMiss, Query, QueryFails,
                 CheckBudget, CheckLimit, Parse, ResponseHit, ResponseMiss, Select,
                 CallSucceeds, CallFails, StreamEnds, SetResponse, caches
        <4> QED
          BY <4>1, <4>2
      <3>2. ASSUME NEW r \in Requests, req'[r].tenant = e.tenant
            PROVE  req'[r].pc \notin {"query", "store"}
        <4>1. CASE s # r
          <5>1. req'[r] = req[r]
            BY <1>1, <2>2, <4>1, OthersWait
          <5> QED
            BY <1>1, <3>2, <5>1 DEF Settled
        <4>2. CASE s = r
          <5> SUFFICES ASSUME req'[r].pc \in {"query", "store"} PROVE FALSE
            OBVIOUS
          <5>1. /\ TenantMiss(r) \/ Query(r)
                /\ req[r].tenant = e.tenant
            BY <1>1, <2>2, <3>2, <4>2, NextPc
          <5>2. ~TenantMiss(r)
            BY <1>1, <5>1 DEF TenantMiss, MapMisses
          <5>3. ~Query(r)
            BY <1>1, <5>1 DEF Query, At, Settled
          <5> QED
            BY <5>1, <5>2, <5>3
        <4> QED
          BY <4>1, <4>2
      <3> QED
        BY <3>1, <3>2 DEF Settled
    <2> QED
      BY <1>1, <2>1, <2>2 DEF Next
  <1>2. IInv /\ [Next]_vars =>
          [\A e \in records : kind = "memory" /\ Settled(e) => Settled(e)']_vars
    BY <1>1
  <1> QED
    BY <1>2, Invariance, PTL DEF Spec, RecordIsFinal
-----------------------------------------------------------------------------
(* A copy of a row, in a cache or in a request's hands, shows no more than *)
(* the row does.                                                           *)
CopyTrails == \A e \in records : e.spent <= spent[e.tenant]

HeldTrails ==
    \A r \in Requests :
        req[r].pc \in {"store", "budget"} => req[r].seen <= spent[req[r].tenant]

(* The budget processor only adds to a row. *)
LEMMA SpentGrows ==
  ASSUME IInv, Next, NEW t \in Tenants
  PROVE  spent[t] \in Nat /\ spent'[t] \in Nat /\ spent[t] <= spent'[t]
  <1>1. spent \in [Tenants -> Nat] /\ pending \in [Tenants -> Nat]
    BY DEF IInv, TypeOK
  <1>2. CASE spent' = spent
    BY <1>1, <1>2
  <1>3. ASSUME NEW u \in Tenants, Flush(u), spent' # spent
        PROVE  spent'[t] \in Nat /\ spent[t] <= spent'[t]
    <2>1. pending[u] \div Unit \in Nat
      BY <1>1, Truncation, GatewayAssumption
    <2>2. spent' = [spent EXCEPT ![u] = @ + pending[u] \div Unit]
      BY <1>3 DEF Flush
    <2> DEFINE d == pending[u] \div Unit
    <2>3. spent'[t] = IF t = u THEN spent[t] + d ELSE spent[t]
      BY <1>1, <2>2
    <2>4. d \in Nat /\ spent[t] \in Nat
      BY <1>1, <2>1
    <2> HIDE DEF d
    <2> QED
      BY <2>3, <2>4
  <1>4. spent' = spent \/ \E u \in Tenants : Flush(u)
    BY DEF Next, CreateTenant, Deliver, Tick, Serve, Arrive, TenantHit, TenantMiss, Query,
           QueryFails, Store, CheckBudget, CheckLimit, Parse, ResponseHit,
           ResponseMiss, Select, CallSucceeds, CallFails, StreamEnds, SetResponse,
           accounts
  <1> QED
    BY <1>1, <1>2, <1>3, <1>4

(* A copy enters a cache from a request's hands only. *)
LEMMA CopyTrailsStep ==
  ASSUME IInv, CopyTrails, HeldTrails, Next
  PROVE  CopyTrails'
  <1> SUFFICES ASSUME NEW e \in records' PROVE e.spent <= spent'[e.tenant]
    BY DEF CopyTrails
  <1>1. CASE e \in records
    <2>1. e.tenant \in Tenants /\ e.spent \in Nat /\ e.spent <= spent[e.tenant]
      BY <1>1 DEF IInv, TypeOK, Record, CopyTrails
    <2> QED
      BY <2>1, SpentGrows
  <1>2. CASE e \notin records
    <2>1. PICK r \in Requests : Store(r)
      BY <1>2 DEF Next, CreateTenant, Deliver, Flush, Tick, Serve, Arrive, TenantHit,
           TenantMiss, Query, QueryFails, CheckBudget, CheckLimit, Parse,
           ResponseHit, ResponseMiss, Select, CallSucceeds, CallFails, StreamEnds,
           SetResponse, caches
    <2>2. /\ e = [tenant |-> req[r].tenant, spent |-> req[r].seen, at |-> req[r].at]
          /\ req[r].pc = "store"
      BY <1>2, <2>1 DEF Store, At
    <2>3. /\ req[r].tenant \in Tenants /\ req[r].seen \in Nat
          /\ req[r].seen <= spent[req[r].tenant]
      BY <2>2 DEF IInv, TypeOK, Request, HeldTrails
    <2>4. req[r].seen <= spent'[req[r].tenant]
      BY <2>3, SpentGrows
    <2> QED
      BY <2>2, <2>4
  <1> QED
    BY <1>1, <1>2

(* A request gets its copy from a row, or from a cached copy of it. *)
LEMMA HeldTrailsStep ==
  ASSUME IInv, CopyTrails, HeldTrails, Next
  PROVE  HeldTrails'
  <1> SUFFICES ASSUME NEW r \in Requests, req'[r].pc \in {"store", "budget"}
               PROVE  req'[r].seen <= spent'[req'[r].tenant]
    BY DEF HeldTrails
  <1>1. /\ req \in [Requests -> Request] /\ req[r] \in Request
        /\ req[r].tenant \in Tenants /\ req[r].seen \in Nat
    BY DEF IInv, TypeOK, Request
  <1>2. /\ spent[req[r].tenant] \in Nat /\ spent'[req[r].tenant] \in Nat
        /\ spent[req[r].tenant] <= spent'[req[r].tenant]
    BY <1>1, SpentGrows
  <1>3. CASE req'[r] = req[r]
    BY <1>1, <1>2, <1>3 DEF HeldTrails
  <1>4. CASE Serve(r)
    <2>1. /\ Query(r) \/ TenantHit(r) \/ Store(r)
          /\ req'[r].tenant = req[r].tenant
      BY <1>4, NextPc
    <2>2. CASE Query(r)
      <3>1. req'[r].seen = spent[req[r].tenant]
        BY <1>1, <2>2 DEF Query, Request
      <3> QED
        BY <1>2, <2>1, <3>1
    <2>3. CASE TenantHit(r)
      <3>1. PICK e \in records :
               /\ e.tenant = req[r].tenant
               /\ req' = [req EXCEPT ![r].pc = "budget", ![r].seen = e.spent,
                                     ![r].at = e.at]
        BY <2>3 DEF TenantHit, RecordOf
      <3>2. req'[r].seen = e.spent
        BY <1>1, <3>1 DEF Request
      <3>3. e.spent \in Nat /\ e.spent <= spent[req[r].tenant]
        BY <3>1 DEF IInv, TypeOK, Record, CopyTrails
      <3> QED
        BY <1>2, <2>1, <3>2, <3>3
    <2>4. CASE Store(r)
      <3>1. req[r].pc = "store" /\ req'[r].seen = req[r].seen
        BY <1>1, <2>4 DEF Store, At, Goto, Request
      <3>2. req[r].seen <= spent[req[r].tenant]
        BY <3>1 DEF HeldTrails
      <3> QED
        BY <1>1, <1>2, <2>1, <3>1, <3>2
    <2> QED
      BY <2>1, <2>2, <2>3, <2>4
  <1>5. req' = req \/ \E s \in Requests : Serve(s)
    BY DEF Next, CreateTenant, Deliver, Flush, Tick
  <1>6. req'[r] = req[r] \/ Serve(r)
    BY <1>5, OthersWait
  <1> QED
    BY <1>3, <1>4, <1>6

(* 402 is answered only to a tenant whose calls of a provider cost its     *)
(* budget, counted as often as their events can be delivered               *)
(* (handler.go:79-82): the copy the request holds trails the row           *)
(* (HeldTrails), the row trails the deliveries (ChargedForCalls).          *)
THEOREM OnlyEarnedRefusals == Spec => RefusalIsEarned
  <1> DEFINE J == CopyTrails /\ HeldTrails
             Earned(r) ==
               LET t == req[r].tenant IN
               req[r].pc = "budget" /\ req'[r].pc = "idle" =>
                   Budget[t] > 0 /\ Attempts * cost[t] >= Unit * Budget[t]
  <1>1. Init => J
    BY IdleType DEF Init, CopyTrails, HeldTrails
  <1>2. IInv /\ J /\ [Next]_vars => J'
    <2>1. CASE Next
      BY <2>1, CopyTrailsStep, HeldTrailsStep
    <2>2. CASE UNCHANGED vars
      BY <2>2 DEF vars, caches, accounts, CopyTrails, HeldTrails
    <2> QED
      BY <2>1, <2>2
  <1>3. ASSUME IInv, J, Next, NEW r \in Requests PROVE Earned(r)
    <2> DEFINE t == req[r].tenant
    <2> SUFFICES ASSUME req[r].pc = "budget", req'[r].pc = "idle"
                 PROVE  Budget[t] > 0 /\ Attempts * cost[t] >= Unit * Budget[t]
      OBVIOUS
    <2>1. Exhausted(t, req[r].seen)
      BY <1>3, BudgetStep
    <2> DEFINE y == Attempts * cost[t]
    <2>2. /\ t \in Tenants /\ req[r].seen \in Nat /\ spent[t] \in Nat
          /\ pending[t] \in Nat /\ inFlight[t] \in Nat /\ y \in Int
          /\ Budget[t] \in Int /\ req[r].seen <= spent[t]
          /\ Unit * spent[t] + pending[t] + inFlight[t] <= y
      BY <1>3, GatewayAssumption
         DEF IInv, TypeOK, Request, HeldTrails, BookInv, Books
    <2>3. Budget[t] > 0 /\ Budget[t] <= spent[t]
      BY <2>1, <2>2 DEF Exhausted
    <2> DEFINE d == spent[t] - Budget[t]
               a == Unit * Budget[t]
               b == Unit * d
    <2>4. d \in Nat /\ Budget[t] \in Nat /\ Budget[t] + d = spent[t]
      BY <2>2, <2>3
    <2>5. Unit * spent[t] = a + b /\ a \in Nat /\ b \in Nat
      <3> HIDE DEF d
      <3>1. Unit * (Budget[t] + d) = Unit * Budget[t] + Unit * d
        BY <2>4, Distributes, GatewayAssumption
      <3>2. Unit * Budget[t] \in Nat /\ Unit * d \in Nat
        BY <2>4, GatewayAssumption
      <3> QED
        BY <2>4, <3>1, <3>2
    <2>6. a + b + pending[t] + inFlight[t] <= y
      BY <2>2, <2>5
    <2> HIDE DEF a, b, d, y
    <2>7. y >= a
      BY <2>2, <2>5, <2>6
    <2> QED
      BY <2>3, <2>7 DEF a, y
  <1>4. IInv /\ J /\ [Next]_vars => [\A r \in Requests : Earned(r)]_vars
    BY <1>3
  <1> HIDE DEF J
  <1> QED
    BY <1>1, <1>2, <1>4, Invariance, PTL DEF Spec, RefusalIsEarned
=============================================================================
