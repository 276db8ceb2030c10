---------------------------- MODULE RoutingProofs ----------------------------
(***************************************************************************)
(* Proofs about Routing for every list of providers, every number of       *)
(* concurrent requests, every set of allowlists and latencies and endless  *)
(* traffic.                                                                *)
(***************************************************************************)
EXTENDS Routing, TLAPS

(* The loop variables of the insertion sort stay inside the candidates.    *)
SortInv ==
    \A r \in Requests :
        /\ req[r].next >= 1
        /\ req[r].i >= 2 /\ 2 <= req[r].j /\ req[r].j <= req[r].i
        /\ req[r].pc = "compare" => req[r].i <= Len(req[r].cand)
        /\ req[r].pc \in {"sort", "compare", "call"} => Len(req[r].cand) >= 1

(* The rate e that k errors can reach at most, successes or not; the       *)
(* seventh error is the first that can bring it above one half.            *)
RateBound(e, k) ==
    /\ k = 0 => e <= 0
    /\ k = 1 => e <= 100
    /\ k = 2 => e <= 190
    /\ k = 3 => e <= 271
    /\ k = 4 => e <= 344
    /\ k = 5 => e <= 410
    /\ k = 6 => e <= 469

RateInv == \A p \in Names \ forced : RateBound(err[p], errors[p])

IInv == TypeOK /\ SortInv /\ RateInv
-----------------------------------------------------------------------------
(* Arithmetic of the moving averages. *)
LEMMA LatencyRange ==
  ASSUME NEW M \in Nat, NEW ms \in 0..M, NEW l \in 0..M, NEW y, y = Smooth(ms, l)
  PROVE  y \in 0..M
  BY DEF Smooth

(* GetState reports unhealthy exactly above one half. *)
LEMMA UnhealthyIsAboveHalf ==
  ASSUME NEW p \in Names, TypeOK
  PROVE  GetState(p) = "unhealthy" <=> err[p] > 500
  BY DEF GetState, TypeOK
-----------------------------------------------------------------------------
(* What a record does to the metrics, and that it keeps them in range. *)
LEMMA SuccessRecord ==
  ASSUME IInv, NEW p \in Names, NEW ms \in Latencies, RecordSuccess(p, ms)
  PROVE  /\ err' \in [Names -> 0..1000] /\ lat' \in [Names -> 0..MaxLatency]
         /\ calm' \subseteq Requests /\ RateInv' /\ UNCHANGED history
  <1> USE DEF IInv
  <1>0. ms \in 0..MaxLatency /\ MaxLatency \in Nat
    BY RoutingAssumption
  <1>1. err' = [err EXCEPT ![p] = Smooth(0, err[p])]
    BY DEF RecordSuccess
  <1>2. err[p] \in 0..1000 /\ lat[p] \in 0..MaxLatency
    BY DEF TypeOK
  <1>3. err' \in [Names -> 0..1000]
    <2>1. PICK e \in 0..1000 : e = err[p]
      BY <1>2
    <2>2. PICK f \in 0..1000 : f = Smooth(0, e)
      BY DEF Smooth
    <2>3. err' = [err EXCEPT ![p] = f]
      BY <1>1, <2>1, <2>2
    <2> QED BY <2>3 DEF TypeOK
  <1>4. PICK y : y = Smooth(ms, lat[p])
    OBVIOUS
  <1>5. lat' \in [Names -> 0..MaxLatency]
    <2>1. y \in 0..MaxLatency
      BY <1>0, <1>2, <1>4, LatencyRange
    <2>2. lat' = [lat EXCEPT ![p] = IF lat[p] = 0 THEN ms ELSE y]
      BY <1>4 DEF RecordSuccess
    <2> QED BY <1>0, <2>1, <2>2 DEF TypeOK
  <1>6. RateInv'
    <2> SUFFICES ASSUME NEW q \in Names, q \notin forced
                 PROVE  RateBound(err'[q], errors[q])
      BY DEF RateInv, RecordSuccess, history
    <2>0. err[q] \in 0..1000 /\ errors[q] \in 0..7
      BY DEF TypeOK, Trip
    <2>1. RateBound(err[q], errors[q])
      BY DEF RateInv
    <2>2. CASE q # p
      <3>1. err'[q] = err[q]
        BY <1>1, <2>2 DEF TypeOK
      <3> QED BY <2>1, <3>1
    <2>3. CASE q = p
      <3>1. err'[q] = Smooth(0, err[q])
        BY <1>1, <2>3 DEF TypeOK
      <3>2. PICK k \in 0..7 : k = errors[q]
        BY <2>0
      <3>3. PICK e \in 0..1000 : e = err[q]
        BY <2>0
      <3>4. PICK f \in Int : f = Smooth(0, e) /\ f <= e
        BY DEF Smooth
      <3>5. RateBound(e, k) => RateBound(f, k)
        BY <3>4 DEF RateBound
      <3>6. err'[q] = f
        BY <3>1, <3>3, <3>4
      <3>7. RateBound(e, k)
        BY <2>1, <3>2, <3>3, Zenon
      <3>8. RateBound(f, k)
        BY <3>5, <3>7, Zenon
      <3> QED BY <3>2, <3>6, <3>8, Zenon
    <2> QED BY <2>2, <2>3
  <1> QED BY <1>3, <1>5, <1>6 DEF RecordSuccess

LEMMA ErrorRecord ==
  ASSUME IInv, NEW p \in Names, RecordError(p)
  PROVE  /\ err' \in [Names -> 0..1000] /\ lat' = lat
         /\ errors' \in [Names -> 0..Trip] /\ forced' = forced
         /\ calm' \subseteq Requests /\ RateInv'
  <1> USE DEF IInv
  <1>1. err' = [err EXCEPT ![p] = Smooth(1000, err[p])]
    BY DEF RecordError, Worse
  <1>2. err[p] \in 0..1000 /\ errors[p] \in 0..Trip
    BY DEF TypeOK
  <1>3. err' \in [Names -> 0..1000]
    <2>1. PICK e \in 0..1000 : e = err[p]
      BY <1>2
    <2>2. PICK f \in 0..1000 : f = Smooth(1000, e)
      BY DEF Smooth
    <2>3. err' = [err EXCEPT ![p] = f]
      BY <1>1, <2>1, <2>2
    <2> QED BY <2>3 DEF TypeOK
  <1>4. errors' = [errors EXCEPT ![p] = IF errors[p] = Trip THEN Trip
                                                            ELSE errors[p] + 1]
    BY DEF RecordError
  <1>5. errors' \in [Names -> 0..Trip]
    BY <1>2, <1>4 DEF TypeOK, Trip
  <1>6. RateInv'
    <2> SUFFICES ASSUME NEW q \in Names, q \notin forced
                 PROVE  RateBound(err'[q], errors'[q])
      BY DEF RateInv, RecordError
    <2>1. err[q] \in 0..1000 /\ errors[q] \in 0..7 /\ RateBound(err[q], errors[q])
      BY DEF RateInv, TypeOK, Trip
    <2>2. CASE q # p
      <3>1. err'[q] = err[q] /\ errors'[q] = errors[q]
        BY <1>1, <1>4, <2>2 DEF TypeOK
      <3> QED BY <2>1, <3>1
    <2>3. CASE q = p
      <3>1. err'[q] = Smooth(1000, err[q])
        BY <1>1, <2>3 DEF TypeOK
      <3>2. errors'[q] \in 0..7 /\ (errors'[q] = 7 \/ errors'[q] = errors[q] + 1)
        BY <1>4, <2>1, <2>3 DEF TypeOK, Trip
      <3>3. RateBound(Smooth(1000, err[q]), errors'[q])
        <4> DEFINE e == err[q]
                   k == errors[q]
                   n == errors'[q]
        <4>1. /\ e \in 0..1000
              /\ k \in 0..7
              /\ n \in 0..7
              /\ RateBound(e, k)
              /\ n = 7 \/ n = k + 1
          BY <2>1, <3>2
        <4> HIDE DEF e, k, n
        <4> DEFINE f == Smooth(1000, e)
        <4>2. f \in Int /\ 10 * f <= 1009 + 9 * e
          BY <4>1 DEF Smooth
        <4> HIDE DEF f
        <4>3. RateBound(f, n)
          BY <4>1, <4>2 DEF RateBound
        <4> QED BY <4>3 DEF e, n, f
      <3> QED BY <3>1, <3>3
    <2> QED BY <2>2, <2>3
  <1> QED BY <1>3, <1>5, <1>6 DEF RecordError

(* The part of SortInv about one request. *)
SortOK(q) ==
    /\ q.next >= 1
    /\ q.i >= 2 /\ 2 <= q.j /\ q.j <= q.i
    /\ q.pc = "compare" => q.i <= Len(q.cand)
    /\ q.pc \in {"sort", "compare", "call"} => Len(q.cand) >= 1

LEMMA RequestUpdate ==
  ASSUME IInv, NEW r \in Requests, NEW q \in Request, SortOK(q),
         req' = [req EXCEPT ![r] = q]
  PROVE  req' \in [Requests -> Request] /\ SortInv'
  <1>1. req' \in [Requests -> Request]
    BY DEF IInv, TypeOK
  <1>2. \A x \in Requests : SortOK(req[x])
    BY DEF IInv, SortInv, SortOK
  <1>3. \A x \in Requests : SortOK(req'[x])
    BY <1>2 DEF IInv, TypeOK
  <1>4. SortInv'
    BY <1>3 DEF SortInv, SortOK
  <1> QED BY <1>1, <1>4

(* A request that returns is idle again, and it called a provider. *)
LEMMA ReturnKeeps ==
  ASSUME IInv, NEW r \in Requests, Return(r)
  PROVE  req' \in [Requests -> Request] /\ SortInv' /\ Chosen(r) \in Names
  <1>1. /\ Idle \in Request
        /\ Idle.next = 1 /\ Idle.i = 2 /\ Idle.j = 2 /\ Idle.pc = "idle"
    BY RoutingAssumption DEF Idle, Request
  <1>2. SortOK(Idle)
    BY <1>1 DEF SortOK
  <1>3. req' = [req EXCEPT ![r] = Idle]
    BY DEF Return
  <1>4. Chosen(r) \in Names
    BY DEF Chosen, Return, IInv, SortInv, TypeOK, Request
  <1> QED BY <1>1, <1>2, <1>3, <1>4, RequestUpdate

(* Every step of a selection keeps the requests well formed. *)
LEMMA ArriveKeeps ==
  ASSUME IInv, NEW r \in Requests, Arrive(r)
  PROVE  req' \in [Requests -> Request] /\ SortInv'
  <1>1. PICK a \in Allowlists, s \in BOOLEAN :
           req' = [req EXCEPT ![r] =
                      [Idle EXCEPT !.pc = "scan", !.allow = a, !.stream = s]]
    BY DEF Arrive
  <1> DEFINE q == [Idle EXCEPT !.pc = "scan", !.allow = a, !.stream = s]
  <1>2. a \in SUBSET UNION Allowlists /\ MaxLatency \in Nat
    BY RoutingAssumption
  <1>3. /\ Idle \in Request
        /\ Idle.next = 1 /\ Idle.i = 2 /\ Idle.j = 2
    BY <1>2 DEF Idle, Request
  <1>4. q \in Request
    BY <1>2, <1>3 DEF Request
  <1>5. SortOK(q)
    BY <1>3 DEF SortOK, Request
  <1> HIDE DEF q
  <1>6. req' = [req EXCEPT ![r] = q]
    BY <1>1 DEF q
  <1> QED BY <1>4, <1>5, <1>6, RequestUpdate

LEMMA ScanKeeps ==
  ASSUME IInv, NEW r \in Requests, Scan(r)
  PROVE  req' \in [Requests -> Request] /\ SortInv'
  <1> DEFINE p == Providers[req[r].next]
             c == IF Allowed(r, p) /\ GetState(p) # "unhealthy"
                  THEN Append(req[r].cand, p) ELSE req[r].cand
             q == [req[r] EXCEPT !.next = req[r].next + 1, !.cand = c]
  <1>1. req[r] \in Request /\ SortOK(req[r]) /\ req[r].pc = "scan"
    BY DEF IInv, TypeOK, SortInv, SortOK, Scan
  <1>2. p \in Names
    BY <1>1, RoutingAssumption DEF Scan, Request, SortOK
  <1>3. c \in Seq(Names)
    BY <1>1, <1>2 DEF Request
  <1> HIDE DEF c
  <1>4. q \in Request
    <2>1. req[r].next + 1 \in Nat
      BY <1>1 DEF Request
    <2> QED BY <1>1, <1>3, <2>1 DEF Request
  <1>5. SortOK(q)
    BY <1>1, <1>3 DEF Request, SortOK
  <1>6. req' = [req EXCEPT ![r] = q]
    BY DEF Scan, Usable, c
  <1> HIDE DEF q
  <1> QED BY <1>4, <1>5, <1>6, RequestUpdate

LEMMA ScanEndKeeps ==
  ASSUME IInv, NEW r \in Requests, ScanEnd(r)
  PROVE  req' \in [Requests -> Request] /\ SortInv'
  <1> DEFINE pc == IF req[r].cand = <<>> THEN "refused" ELSE "sort"
             q == [req[r] EXCEPT !.pc = pc]
  <1>1. req[r] \in Request /\ SortOK(req[r])
    BY DEF IInv, TypeOK, SortInv, SortOK
  <1>2. q \in Request
    BY <1>1 DEF Request
  <1>3. req[r].cand # <<>> => Len(req[r].cand) >= 1
    BY <1>1 DEF Request
  <1>4. SortOK(q)
    BY <1>1, <1>3 DEF Request, SortOK
  <1>5. req' = [req EXCEPT ![r] = q]
    BY DEF ScanEnd
  <1> HIDE DEF q
  <1> QED BY <1>2, <1>4, <1>5, RequestUpdate

LEMMA LoadLeftKeeps ==
  ASSUME IInv, NEW r \in Requests, LoadLeft(r)
  PROVE  req' \in [Requests -> Request] /\ SortInv'
  <1> DEFINE l == GetLatency(req[r].cand[req[r].j])
             q == [req[r] EXCEPT !.pc = "compare", !.li = l]
  <1>1. req[r] \in Request /\ SortOK(req[r])
    BY DEF IInv, TypeOK, SortInv, SortOK
  <1>2. req[r].cand[req[r].j] \in Names
    BY <1>1 DEF LoadLeft, Request, SortOK
  <1>3. l \in 0..(MaxLatency + 1)
    BY <1>2, RoutingAssumption DEF GetLatency, IInv, TypeOK
  <1> HIDE DEF l
  <1>4. q \in Request
    BY <1>1, <1>3 DEF Request
  <1>5. SortOK(q)
    BY <1>1 DEF Request, SortOK, LoadLeft
  <1>6. req' = [req EXCEPT ![r] = q]
    BY DEF LoadLeft, l
  <1> HIDE DEF q
  <1> QED BY <1>4, <1>5, <1>6, RequestUpdate

LEMMA CompareKeeps ==
  ASSUME IInv, NEW r \in Requests, Compare(r)
  PROVE  req' \in [Requests -> Request] /\ SortInv'
  <1> DEFINE c == req[r].cand  i == req[r].i  j == req[r].j
             less == req[r].li < GetLatency(c[j - 1])
             more == less /\ j > 2
             d == IF less THEN [c EXCEPT ![j] = c[j - 1], ![j - 1] = c[j]] ELSE c
             i2 == IF more THEN i ELSE i + 1
             j2 == IF more THEN j - 1 ELSE i + 1
             q == [req[r] EXCEPT !.pc = "sort", !.cand = d, !.i = i2, !.j = j2]
  <1>1. req[r] \in Request /\ SortOK(req[r]) /\ req[r].pc = "compare"
    BY DEF IInv, TypeOK, SortInv, SortOK, Compare
  <1>2. /\ c \in Seq(Names) /\ i \in Nat /\ j \in Nat
        /\ 2 <= j /\ j <= i /\ i <= Len(c)
    BY <1>1 DEF Request, SortOK
  <1>3. d \in Seq(Names) /\ Len(d) = Len(c)
    BY <1>2
  <1>4. req' = [req EXCEPT ![r] = q]
    BY DEF Compare, GoesOn
  <1> HIDE DEF less, d
  <1>7. i2 \in Nat /\ j2 \in Nat /\ i2 >= 2 /\ 2 <= j2 /\ j2 <= i2
    BY <1>2
  <1> HIDE DEF i2, j2
  <1>5. q \in Request
    BY <1>1, <1>3, <1>7 DEF Request
  <1>6. SortOK(q)
    BY <1>1, <1>2, <1>3, <1>7 DEF Request, SortOK
  <1> HIDE DEF q
  <1> QED BY <1>4, <1>5, <1>6, RequestUpdate

LEMMA DispatchKeeps ==
  ASSUME IInv, NEW r \in Requests, Dispatch(r)
  PROVE  req' \in [Requests -> Request] /\ SortInv'
  <1> DEFINE q == [req[r] EXCEPT !.pc = "call"]
  <1>1. req[r] \in Request /\ SortOK(req[r])
    BY DEF IInv, TypeOK, SortInv, SortOK
  <1>2. q \in Request
    BY <1>1 DEF Request
  <1>3. SortOK(q)
    BY <1>1 DEF Request, SortOK, Dispatch
  <1>4. req' = [req EXCEPT ![r] = q]
    BY DEF Dispatch
  <1> HIDE DEF q
  <1> QED BY <1>2, <1>3, <1>4, RequestUpdate
-----------------------------------------------------------------------------
LEMMA InitEstablishes == Init => IInv
  <1> SUFFICES ASSUME Init PROVE IInv
    OBVIOUS
  <1>1. /\ Idle \in Request
        /\ Idle.next = 1 /\ Idle.i = 2 /\ Idle.j = 2 /\ Idle.pc = "idle"
    BY RoutingAssumption DEF Idle, Request
  <1>0. ASSUME NEW p \in Names
        PROVE  err[p] \in 0..1000 /\ RateBound(err[p], errors[p])
    <2>1. PICK k \in 0..7 : k = Past[p]
      BY RoutingAssumption DEF Trip
    <2>2. Streak[k + 1] \in 0..1000 /\ RateBound(Streak[k + 1], k)
      BY DEF Streak, RateBound
    <2>3. err[p] = Streak[k + 1] /\ errors[p] = k
      BY <2>1 DEF Init
    <2> QED BY <2>2, <2>3
  <1>2. TypeOK
    <2>1. err = [p \in Names |-> err[p]]
      BY DEF Init
    <2>2. err \in [Names -> 0..1000]
      BY <1>0, <2>1
    <2>3. req \in [Requests -> Request]
      BY <1>1 DEF Init
    <2>4. lat \in [Names -> 0..MaxLatency]
      BY RoutingAssumption DEF Init
    <2>5. errors \in [Names -> 0..Trip]
      BY RoutingAssumption DEF Init
    <2>6. arrived \in Nat /\ calm \subseteq Requests /\ forced \subseteq Names
      BY DEF Init
    <2> QED BY <2>2, <2>3, <2>4, <2>5, <2>6 DEF TypeOK
  <1>3. SortInv
    BY <1>1 DEF Init, SortInv
  <1>4. RateInv
    BY <1>0 DEF RateInv
  <1> QED BY <1>2, <1>3, <1>4 DEF IInv

(* The steps that touch no metric. *)
LEMMA QuietKeeps ==
  ASSUME IInv, NEW r \in Requests,
         Scan(r) \/ ScanEnd(r) \/ LoadLeft(r) \/ Compare(r) \/ Dispatch(r)
  PROVE  IInv' /\ UNCHANGED metrics
  <1>1. req' \in [Requests -> Request] /\ SortInv'
    BY ScanKeeps, ScanEndKeeps, LoadLeftKeeps, CompareKeeps, DispatchKeeps
  <1>2. UNCHANGED <<metrics, arrived, calm, history>>
    BY DEF Scan, ScanEnd, LoadLeft, Compare, Dispatch
  <1>3. TypeOK'
    BY <1>1, <1>2 DEF IInv, TypeOK, metrics, history
  <1>4. RateInv'
    BY <1>2 DEF IInv, RateInv, metrics, history
  <1> QED BY <1>1, <1>2, <1>3, <1>4 DEF IInv

LEMMA NextKeeps == IInv /\ [Next]_vars => IInv'
  <1> SUFFICES ASSUME IInv, [Next]_vars PROVE IInv'
    OBVIOUS
  <1>1. CASE UNCHANGED vars
    BY <1>1 DEF vars, metrics, history, IInv, TypeOK, SortInv, RateInv
  <1>2. ASSUME NEW r \in Requests, Arrive(r) PROVE IInv'
    <2>1. req' \in [Requests -> Request] /\ SortInv'
      BY <1>2, ArriveKeeps
    <2>2. arrived' \in Nat
      BY <1>2 DEF Arrive, IInv, TypeOK
    <2>3. TypeOK'
      BY <1>2, <2>1, <2>2 DEF Arrive, IInv, TypeOK, metrics, history
    <2>4. RateInv'
      BY <1>2 DEF Arrive, IInv, RateInv, metrics, history
    <2> QED BY <2>1, <2>3, <2>4 DEF IInv
  <1>3. ASSUME NEW r \in Requests, Succeed(r) PROVE IInv'
    <2>1. req' \in [Requests -> Request] /\ SortInv' /\ Chosen(r) \in Names
      BY <1>3, ReturnKeeps DEF Succeed
    <2>2. CASE UNCHANGED <<metrics, calm, history>>
      BY <1>3, <2>1, <2>2
         DEF Succeed, Return, IInv, TypeOK, RateInv, metrics, history
    <2>3. ASSUME NEW ms \in Latencies, RecordSuccess(Chosen(r), ms) PROVE IInv'
      <3>1. /\ err' \in [Names -> 0..1000] /\ lat' \in [Names -> 0..MaxLatency]
            /\ calm' \subseteq Requests /\ RateInv' /\ UNCHANGED history
        BY <2>1, <2>3, SuccessRecord
      <3> QED BY <1>3, <2>1, <3>1 DEF Succeed, Return, IInv, TypeOK, history
    <2> QED BY <1>3, <2>2, <2>3 DEF Succeed
  <1>4. ASSUME NEW r \in Requests, Fail(r) PROVE IInv'
    <2>1. req' \in [Requests -> Request] /\ SortInv' /\ Chosen(r) \in Names
      BY <1>4, ReturnKeeps DEF Fail
    <2>2. UNCHANGED arrived
      BY <1>4 DEF Fail, Return
    <2>3. CASE UNCHANGED <<metrics, calm, history>>
      BY <2>1, <2>2, <2>3 DEF IInv, TypeOK, RateInv, metrics, history
    <2>4. CASE RecordError(Chosen(r))
      <3>1. /\ err' \in [Names -> 0..1000] /\ lat' = lat
            /\ errors' \in [Names -> 0..Trip] /\ forced' = forced
            /\ calm' \subseteq Requests /\ RateInv'
        BY <2>1, <2>4, ErrorRecord
      <3> QED BY <2>1, <2>2, <2>4, <3>1 DEF IInv, TypeOK
    <2> QED BY <1>4, <2>1, <2>3, <2>4 DEF Fail
  <1>5. ASSUME NEW p \in Names, ForceFailure(p) PROVE IInv'
    <2>1. TypeOK'
      BY <1>5 DEF ForceFailure, IInv, TypeOK
    <2>2. SortInv'
      BY <1>5 DEF ForceFailure, IInv, SortInv
    <2>3. RateInv'
      BY <1>5 DEF ForceFailure, IInv, RateInv, TypeOK
    <2> QED BY <2>1, <2>2, <2>3 DEF IInv
  <1> QED BY <1>1, <1>2, <1>3, <1>4, <1>5, QuietKeeps DEF Next, Step

LEMMA InvariantHolds == Spec => []IInv
  BY InitEstablishes, NextKeeps, PTL DEF Spec

(* The metrics stay within their ranges, and no selection ever indexes the *)
(* candidates out of range (selector.go:53-59).                            *)
THEOREM TypeCorrect == Spec => []TypeOK
  <1>1. IInv => TypeOK
    BY DEF IInv
  <1> QED BY <1>1, InvariantHolds, PTL

(* Fewer than seven recorded errors never take a provider out of service,  *)
(* however many requests run and whatever they record in between           *)
(* (router.go:63-86, 97-104).                                              *)
THEOREM TripIsBounded == Spec => []TripNeedsSevenErrors
  <1>1. IInv => TripNeedsSevenErrors
    <2> SUFFICES ASSUME IInv, NEW p \in Names, p \notin forced,
                        GetState(p) = "unhealthy"
                 PROVE  errors[p] = Trip
      BY DEF TripNeedsSevenErrors
    <2>1. err[p] > 500
      BY UnhealthyIsAboveHalf DEF IInv
    <2>2. err[p] \in 0..1000 /\ errors[p] \in 0..7 /\ RateBound(err[p], errors[p])
      BY DEF IInv, TypeOK, RateInv, Trip
    <2> DEFINE e == err[p]
               k == errors[p]
    <2>3. e \in Int /\ e > 500 /\ k \in 0..7 /\ RateBound(e, k)
      BY <2>1, <2>2
    <2> HIDE DEF e, k
    <2>4. k = 7
      BY <2>3 DEF RateBound
    <2> QED BY <2>4 DEF Trip, k
  <1> QED BY <1>1, InvariantHolds, PTL
-----------------------------------------------------------------------------
(* Request q brings no record for p. *)
Free(q, p) ==
    q.pc \in {"scan", "sort", "compare", "call"}
    => \A k \in DOMAIN q.cand : q.cand[k] # p

AllFree(p) == \A r \in Requests : Free(req[r], p)

LEMMA FreeIsNotHeld ==
  ASSUME NEW p PROVE AllFree(p) <=> \A r \in Requests : ~Holds(r, p)
  BY DEF AllFree, Free, Holds

LEMMA FreeUpdate ==
  ASSUME IInv, NEW p, NEW r \in Requests, NEW q, Free(q, p),
         req' = [req EXCEPT ![r] = q]
  PROVE  Free(req'[r], p) /\ \A x \in Requests : x # r => req'[x] = req[x]
  BY DEF IInv, TypeOK

(* A selection does not pick up a provider that is unhealthy, nor one that *)
(* the tenant may not use.                                                 *)
LEMMA SelectionStaysFree ==
  ASSUME IInv, NEW p \in Names, NEW r \in Requests, Free(req[r], p),
         ~(Allowed(r, p) /\ GetState(p) # "unhealthy"),
         Arrive(r) \/ Scan(r) \/ ScanEnd(r) \/ LoadLeft(r) \/ Compare(r) \/ Dispatch(r)
  PROVE  Free(req'[r], p) /\ \A x \in Requests : x # r => req'[x] = req[x]
  <1>1. req[r] \in Request /\ Free(req[r], p) /\ SortOK(req[r])
    BY DEF IInv, TypeOK, SortInv, SortOK
  <1>2. CASE Arrive(r)
    <2>1. PICK a \in Allowlists, s \in BOOLEAN :
             req' = [req EXCEPT ![r] =
                        [Idle EXCEPT !.pc = "scan", !.allow = a, !.stream = s]]
      BY <1>2 DEF Arrive
    <2> DEFINE q == [Idle EXCEPT !.pc = "scan", !.allow = a, !.stream = s]
    <2>2. q.cand = <<>>
      BY DEF Idle
    <2>3. Free(q, p)
      BY <2>2 DEF Free
    <2> HIDE DEF q
    <2>4. req' = [req EXCEPT ![r] = q]
      BY <2>1 DEF q
    <2> QED BY <2>3, <2>4, FreeUpdate
  <1>3. CASE Scan(r)
    <2> DEFINE x == Providers[req[r].next]
               c == IF Allowed(r, x) /\ GetState(x) # "unhealthy"
                    THEN Append(req[r].cand, x) ELSE req[r].cand
               q == [req[r] EXCEPT !.next = req[r].next + 1, !.cand = c]
    <2>2. x \in Names
      BY <1>1, <1>3, RoutingAssumption DEF Scan, Request, SortOK
    <2>3. \A k \in DOMAIN req[r].cand : req[r].cand[k] # p
      BY <1>1, <1>3 DEF Scan, Free
    <2>4. req[r].cand \in Seq(Names)
      BY <1>1 DEF Request
    <2>5. \A k \in DOMAIN c : c[k] # p
      <3>1. CASE c = req[r].cand
        BY <2>3, <3>1
      <3>2. CASE x # p /\ c = Append(req[r].cand, x)
        BY <2>2, <2>3, <2>4, <3>2
      <3> QED BY <3>1, <3>2
    <2> HIDE DEF c
    <2>6. Free(q, p)
      BY <1>1, <2>5 DEF Request, Free
    <2>7. req' = [req EXCEPT ![r] = q]
      BY <1>3 DEF Scan, Usable, c
    <2> HIDE DEF q
    <2> QED BY <2>6, <2>7, FreeUpdate
  <1>4. CASE ScanEnd(r)
    <2> DEFINE q == [req[r] EXCEPT !.pc = IF req[r].cand = <<>> THEN "refused"
                                                                ELSE "sort"]
    <2>1. Free(q, p)
      BY <1>1, <1>4 DEF Request, Free, ScanEnd
    <2>2. req' = [req EXCEPT ![r] = q]
      BY <1>4 DEF ScanEnd
    <2> HIDE DEF q
    <2> QED BY <2>1, <2>2, FreeUpdate
  <1>5. CASE LoadLeft(r)
    <2> DEFINE q == [req[r] EXCEPT !.pc = "compare",
                                   !.li = GetLatency(req[r].cand[req[r].j])]
    <2>1. Free(q, p)
      BY <1>1, <1>5 DEF Request, Free, LoadLeft
    <2>2. req' = [req EXCEPT ![r] = q]
      BY <1>5 DEF LoadLeft
    <2> HIDE DEF q
    <2> QED BY <2>1, <2>2, FreeUpdate
  <1>6. CASE Compare(r)
    <2> DEFINE c == req[r].cand  i == req[r].i  j == req[r].j
               less == req[r].li < GetLatency(c[j - 1])
               more == less /\ j > 2
               d == IF less THEN [c EXCEPT ![j] = c[j - 1], ![j - 1] = c[j]] ELSE c
               q == [req[r] EXCEPT !.pc = "sort", !.cand = d,
                                   !.i = IF more THEN i ELSE i + 1,
                                   !.j = IF more THEN j - 1 ELSE i + 1]
    <2>1. req[r].pc = "compare" /\ req' = [req EXCEPT ![r] = q]
      BY <1>6 DEF Compare, GoesOn
    <2>2. /\ c \in Seq(Names) /\ j \in Nat /\ i \in Nat
          /\ 2 <= j /\ j <= i /\ i <= Len(c)
      BY <1>1, <2>1 DEF Request, SortOK
    <2>3. \A k \in DOMAIN c : c[k] # p
      BY <1>1, <2>1 DEF Free
    <2>4. \A k \in DOMAIN d : d[k] # p
      BY <2>2, <2>3
    <2> HIDE DEF d, less
    <2>5. Free(q, p)
      BY <1>1, <2>4 DEF Request, Free
    <2> HIDE DEF q
    <2> QED BY <2>1, <2>5, FreeUpdate
  <1>7. CASE Dispatch(r)
    <2> DEFINE q == [req[r] EXCEPT !.pc = "call"]
    <2>1. Free(q, p)
      BY <1>1, <1>7 DEF Request, Free, Dispatch
    <2>2. req' = [req EXCEPT ![r] = q]
      BY <1>7 DEF Dispatch
    <2> HIDE DEF q
    <2> QED BY <2>1, <2>2, FreeUpdate
  <1> QED BY <1>2, <1>3, <1>4, <1>5, <1>6, <1>7

(* A request that returns leaves an unheld provider alone. *)
LEMMA ReturnStaysFree ==
  ASSUME IInv, NEW p \in Names, NEW r \in Requests, Free(req[r], p), Return(r)
  PROVE  /\ Free(req'[r], p) /\ \A x \in Requests : x # r => req'[x] = req[x]
         /\ Chosen(r) # p
  <1>1. Idle.pc = "idle"
    BY DEF Idle
  <1>2. Free(Idle, p)
    BY <1>1 DEF Free
  <1>3. Free(req'[r], p) /\ \A x \in Requests : x # r => req'[x] = req[x]
    BY <1>2, FreeUpdate DEF Return
  <1>4. Chosen(r) # p
    BY DEF Free, Return, Chosen, IInv, TypeOK, Request, SortInv
  <1> QED BY <1>3, <1>4

LEMMA AbsorbingStep ==
  ASSUME IInv, [Next]_vars, NEW p \in Names, AllFree(p), err[p] > 500
  PROVE  err'[p] > 500 /\ AllFree(p)'
  <1> USE DEF IInv
  <1>1. CASE UNCHANGED vars
    BY <1>1 DEF vars, metrics, AllFree
  <1>2. ASSUME NEW r \in Requests,
               \/ Arrive(r) \/ Scan(r) \/ ScanEnd(r)
               \/ LoadLeft(r) \/ Compare(r) \/ Dispatch(r)
        PROVE  err'[p] > 500 /\ AllFree(p)'
    <2>1. err' = err
      BY <1>2 DEF Arrive, Scan, ScanEnd, LoadLeft, Compare, Dispatch, metrics
    <2>2. GetState(p) = "unhealthy" /\ Free(req[r], p)
      BY DEF GetState, AllFree
    <2>3. Free(req'[r], p) /\ \A x \in Requests : x # r => req'[x] = req[x]
      BY <1>2, <2>2, SelectionStaysFree
    <2>4. AllFree(p)'
      BY <2>3 DEF AllFree
    <2> QED BY <2>1, <2>4
  <1>3. ASSUME NEW r \in Requests, Succeed(r) \/ Fail(r)
        PROVE  err'[p] > 500 /\ AllFree(p)'
    <2>0. /\ Free(req'[r], p) /\ \A x \in Requests : x # r => req'[x] = req[x]
          /\ Chosen(r) # p
      BY <1>3, ReturnStaysFree DEF Succeed, Fail, AllFree
    <2>1. AllFree(p)' /\ Chosen(r) # p
      BY <2>0 DEF AllFree
    <2>2. err'[p] = err[p]
      BY <1>3, <2>1 DEF Succeed, Fail, RecordSuccess, RecordError,
                        metrics, TypeOK
    <2> QED BY <2>1, <2>2
  <1>4. ASSUME NEW x \in Names, ForceFailure(x)
        PROVE  err'[p] > 500 /\ AllFree(p)'
    BY <1>4 DEF ForceFailure, AllFree, TypeOK
  <1> QED BY <1>1, <1>2, <1>3, <1>4 DEF Next, Step

(* An unhealthy provider that no running request holds stays unhealthy and *)
(* unused: nothing probes it (selector.go:43).                             *)
UnhealthyIsAbsorbing ==
    [][\A p \in Names :
          /\ GetState(p) = "unhealthy"
          /\ \A r \in Requests : ~Holds(r, p)
          => /\ GetState(p)' = "unhealthy"
             /\ \A r \in Requests : ~Holds(r, p)']_vars

(* Why ReturnsToService fails, whatever the traffic: nothing in the gateway*)
(* brings an unhealthy provider back once the requests that held it are    *)
(* gone, there is no probe and no decay with time (router.go:97-104,       *)
(* selector.go:43).                                                        *)
THEOREM UnhealthyNeverProbed == Spec => UnhealthyIsAbsorbing
  <1>1. IInv /\ IInv' /\ [Next]_vars =>
          [\A p \in Names :
              /\ GetState(p) = "unhealthy"
              /\ \A r \in Requests : ~Holds(r, p)
              => /\ GetState(p)' = "unhealthy"
                 /\ \A r \in Requests : ~Holds(r, p)']_vars
    <2> SUFFICES ASSUME IInv, IInv', [Next]_vars, NEW p \in Names,
                        GetState(p) = "unhealthy",
                        \A r \in Requests : ~Holds(r, p)
                 PROVE  /\ GetState(p)' = "unhealthy"
                        /\ \A r \in Requests : ~Holds(r, p)'
      OBVIOUS
    <2>1. err[p] > 500 /\ AllFree(p)
      BY UnhealthyIsAboveHalf, FreeIsNotHeld DEF IInv
    <2>2. err'[p] > 500 /\ AllFree(p)'
      BY <2>1, AbsorbingStep
    <2>3. GetState(p)' = "unhealthy"
      BY <2>2 DEF GetState
    <2>4. \A r \in Requests : ~Holds(r, p)'
      BY <2>2 DEF AllFree, Free, Holds
    <2> QED BY <2>3, <2>4
  <1> QED BY <1>1, InvariantHolds, PTL DEF Spec, UnhealthyIsAbsorbing

LEMMA HeldStep ==
  ASSUME IInv, [Next]_vars, NEW r \in Requests, NEW p \in Names, Free(req[r], p),
         ~(Allowed(r, p) /\ GetState(p) # "unhealthy")
  PROVE  Free(req'[r], p)
  <1>1. CASE UNCHANGED req
    BY <1>1
  <1>2. ASSUME NEW x \in Requests,
               \/ Arrive(x) \/ Scan(x) \/ ScanEnd(x)
               \/ LoadLeft(x) \/ Compare(x) \/ Dispatch(x)
               \/ Succeed(x) \/ Fail(x)
        PROVE  Free(req'[r], p)
    <2>1. CASE x # r
      <3>1. req'[r] = req[r]
        <4> USE <2>1 DEF IInv, TypeOK
        <4>1. CASE Arrive(x)
          BY <4>1 DEF Arrive
        <4>2. CASE Scan(x)
          BY <4>2 DEF Scan
        <4>3. CASE ScanEnd(x)
          BY <4>3 DEF ScanEnd
        <4>4. CASE LoadLeft(x)
          BY <4>4 DEF LoadLeft
        <4>5. CASE Compare(x)
          BY <4>5 DEF Compare
        <4>6. CASE Dispatch(x)
          BY <4>6 DEF Dispatch
        <4>7. CASE Succeed(x) \/ Fail(x)
          BY <4>7 DEF Succeed, Fail, Return
        <4> QED BY <1>2, <4>1, <4>2, <4>3, <4>4, <4>5, <4>6, <4>7
      <3> QED BY <3>1
    <2>2. CASE x = r
      <3>1. CASE Succeed(r) \/ Fail(r)
        BY <3>1, ReturnStaysFree DEF Succeed, Fail
      <3>2. CASE ~(Succeed(r) \/ Fail(r))
        BY <1>2, <2>2, <3>2, SelectionStaysFree
      <3> QED BY <3>1, <3>2
    <2> QED BY <2>1, <2>2
  <1> QED BY <1>1, <1>2 DEF Next, Step, ForceFailure, vars

(* A provider enters a selection only while it is in service and allowed,  *)
(* and neither the sort over changing latencies nor another request brings *)
(* one in (selector.go:30-59).                                             *)
THEOREM OnlyUsableEntersSelection == Spec => OnlyUsableIsHeld
  <1>1. IInv /\ [Next]_vars =>
          [\A r \in Requests, p \in Names :
              ~Holds(r, p) /\ Holds(r, p)' =>
                  Allowed(r, p) /\ GetState(p) # "unhealthy"]_vars
    <2> SUFFICES ASSUME IInv, [Next]_vars, NEW r \in Requests, NEW p \in Names,
                        ~Holds(r, p), Holds(r, p)',
                        ~(Allowed(r, p) /\ GetState(p) # "unhealthy")
                 PROVE  FALSE
      OBVIOUS
    <2>1. Free(req[r], p)
      BY DEF Free, Holds
    <2>2. Free(req'[r], p)
      BY <2>1, HeldStep
    <2> QED BY <2>2 DEF Free, Holds
  <1> QED BY <1>1, InvariantHolds, PTL DEF Spec, OnlyUsableIsHeld
-----------------------------------------------------------------------------
(* The selection. While no metric changes, the candidates are the names at *)
(* some positions ix of Providers, and what the scan and the sort have done*)
(* so far is said about those positions: names may repeat, positions do    *)
(* not. E is the set of positions that may be chosen, L the latencies of   *)
(* all positions.                                                          *)
Latency == [k \in DOMAIN Providers |-> GetLatency(Providers[k])]
OpenTo(a) == {k \in DOMAIN Providers : /\ a = {} \/ Providers[k] \in a
                                       /\ GetState(Providers[k]) # "unhealthy"}

Precedes(L, a, b) == \/ L[a] < L[b]
                     \/ L[a] = L[b] /\ a <= b

(* ix names the candidates c, all of them in E. *)
Names4(c, ix, E) ==
    \A k \in 1..Len(c) : ix[k] \in E /\ c[k] = Providers[ix[k]]

(* The scan has collected, in order, the positions of E before n. *)
Scanned(c, ix, n, E) ==
    /\ Names4(c, ix, E)
    /\ \A k, l \in 1..Len(c) : k < l => ix[k] < ix[l]
    /\ \A k \in 1..Len(c) : ix[k] < n
    /\ \A e \in E : e < n => \E k \in 1..Len(c) : ix[k] = e

(* The sort is inserting the element at j into the first i: no position of *)
(* E is lost, the first candidate precedes the others of the first i, and  *)
(* the element at j and those behind i come after all they can still meet. *)
Inserting(c, ix, i, j, E, L) ==
    /\ Names4(c, ix, E)
    /\ \A e \in E : \E k \in 1..Len(c) : ix[k] = e
    /\ \A k \in 1..Len(c) : k <= i /\ k # j => Precedes(L, ix[1], ix[k])
    /\ \A k \in 1..Len(c) : k <= i /\ k # j /\ j <= Len(c) => ix[k] < ix[j]
    /\ \A k, l \in 1..Len(c) : k < l /\ i < l => ix[k] < ix[l]
    /\ i > Len(c) => j = i

Positions(c) == [1..Len(c) -> DOMAIN Providers]

SelectionOK(q, E, L) ==
    /\ q.pc = "scan" =>
          /\ q.i = 2 /\ q.j = 2
          /\ \E ix \in Positions(q.cand) : Scanned(q.cand, ix, q.next, E)
    /\ q.pc = "refused" => E = {}
    /\ q.pc \in {"sort", "compare", "call"} =>
          \E ix \in Positions(q.cand) :
              /\ Inserting(q.cand, ix, q.i, q.j, E, L)
              /\ q.pc = "compare" => q.li = L[ix[q.j]]
    /\ q.pc = "call" => q.i > Len(q.cand)

SelectionInv == \A r \in calm : SelectionOK(req[r], OpenTo(req[r].allow), Latency)

LEMMA ProviderList ==
  /\ Len(Providers) \in Nat /\ DOMAIN Providers = 1..Len(Providers)
  /\ \A k \in 1..Len(Providers) : Providers[k] \in Names
  BY RoutingAssumption

LEMMA LatencyType ==
  ASSUME TypeOK
  PROVE  /\ Latency \in [DOMAIN Providers -> Nat]
         /\ \A k \in DOMAIN Providers : Latency[k] = GetLatency(Providers[k])
  <1>1. ASSUME NEW k \in DOMAIN Providers PROVE GetLatency(Providers[k]) \in Nat
    <2>1. lat[Providers[k]] \in 0..MaxLatency /\ MaxLatency \in Nat
      BY ProviderList, RoutingAssumption DEF TypeOK
    <2> QED BY <2>1 DEF GetLatency
  <1> QED BY <1>1 DEF Latency

LEMMA PositionType ==
  ASSUME NEW c \in Seq(Names), NEW ix \in Positions(c)
  PROVE  /\ Len(c) \in Nat /\ DOMAIN c = 1..Len(c)
         /\ \A k \in 1..Len(c) : ix[k] \in Nat /\ ix[k] \in DOMAIN Providers
  BY ProviderList DEF Positions

(* The first step of the scan: nothing is collected. *)
LEMMA ScanBegins ==
  ASSUME NEW E \in SUBSET DOMAIN Providers
  PROVE  \E ix \in Positions(<<>>) : Scanned(<<>>, ix, 1, E)
  <1>1. <<>> \in Positions(<<>>)
    BY DEF Positions
  <1>2. \A e \in E : e \in Nat /\ e >= 1
    BY ProviderList
  <1>3. Scanned(<<>>, <<>>, 1, E)
    BY <1>2 DEF Scanned, Names4
  <1> QED BY <1>1, <1>3

(* Passing a position by, and collecting it. *)
LEMMA ScanSkips ==
  ASSUME NEW E \in SUBSET DOMAIN Providers, NEW c \in Seq(Names), NEW n \in Nat,
         NEW ix \in Positions(c), Scanned(c, ix, n, E), n \notin E
  PROVE  Scanned(c, ix, n + 1, E)
  <1>1. Len(c) \in Nat /\ \A k \in 1..Len(c) : ix[k] \in Nat
    BY ProviderList DEF Positions
  <1>2. \A e \in E : e \in Nat /\ (e < n + 1 => e < n)
    BY ProviderList
  <1> QED BY <1>1, <1>2 DEF Scanned

LEMMA ScanCollects ==
  ASSUME NEW E \in SUBSET DOMAIN Providers, NEW c \in Seq(Names), NEW n \in E,
         NEW ix \in Positions(c), Scanned(c, ix, n, E)
  PROVE  \E iy \in Positions(Append(c, Providers[n])) :
             Scanned(Append(c, Providers[n]), iy, n + 1, E)
  <1> DEFINE m == Len(c)
             d == Append(c, Providers[n])
             iy == [k \in 1..(m + 1) |-> IF k <= m THEN ix[k] ELSE n]
  <1>1. /\ m \in Nat /\ n \in Nat /\ n \in DOMAIN Providers
        /\ \A k \in 1..m : ix[k] \in Nat /\ ix[k] \in DOMAIN Providers
        /\ \A e \in E : e \in Nat
    BY ProviderList DEF Positions
  <1>2. /\ Len(d) = m + 1
        /\ \A k \in 1..m : d[k] = c[k]
        /\ d[m + 1] = Providers[n]
    BY <1>1, ProviderList
  <1>3. /\ \A k \in 1..m : iy[k] = ix[k]
        /\ iy[m + 1] = n
    BY <1>1
  <1>4. iy \in Positions(d)
    BY <1>1, <1>2 DEF Positions
  <1> HIDE DEF iy, d
  <1>5. \A k \in 1..(m + 1) : k \in 1..m \/ k = m + 1
    BY <1>1
  <1>6. Names4(d, iy, E)
    BY <1>2, <1>3, <1>5 DEF Scanned, Names4
  <1>7. \A k \in 1..(m + 1) : iy[k] < n + 1
    BY <1>1, <1>3, <1>5 DEF Scanned
  <1>8. ASSUME NEW k \in 1..(m + 1), NEW l \in 1..(m + 1), k < l
        PROVE  iy[k] < iy[l]
    <2>1. k \in 1..m
      BY <1>1, <1>8
    <2> QED BY <1>1, <1>3, <1>5, <1>8, <2>1 DEF Scanned
  <1>9. ASSUME NEW e \in E, e < n + 1
        PROVE  \E k \in 1..(m + 1) : iy[k] = e
    <2>1. CASE e = n
      BY <1>1, <1>3, <2>1
    <2>2. CASE e < n
      <3>1. PICK k \in 1..m : ix[k] = e
        BY <2>2 DEF Scanned
      <3>2. k \in 1..(m + 1) /\ iy[k] = e
        BY <1>1, <1>3, <3>1
      <3> QED BY <3>2
    <2> QED BY <1>1, <1>9, <2>1, <2>2
  <1>10. Scanned(d, iy, n + 1, E)
    BY <1>2, <1>6, <1>7, <1>8, <1>9 DEF Scanned
  <1> QED BY <1>4, <1>10 DEF d

(* A finished scan is what the sort begins with, or there is no choice. *)
LEMMA ScanFinishes ==
  ASSUME NEW E \in SUBSET DOMAIN Providers, NEW c \in Seq(Names), NEW n \in Nat,
         NEW L \in [DOMAIN Providers -> Nat],
         NEW ix \in Positions(c), Scanned(c, ix, n, E), n > Len(Providers)
  PROVE  Inserting(c, ix, 2, 2, E, L) /\ (c = <<>> => E = {})
  <1>1. /\ Len(c) \in Nat /\ (c = <<>> => Len(c) = 0)
        /\ \A k \in 1..Len(c) : ix[k] \in Nat /\ ix[k] \in DOMAIN Providers
    BY ProviderList DEF Positions
  <1>2. \A e \in E : e \in Nat /\ e < n
    BY ProviderList
  <1>3. \A e \in E : \E k \in 1..Len(c) : ix[k] = e
    BY <1>2 DEF Scanned
  <1>4. \A k \in 1..Len(c) : k <= 2 /\ k # 2 => Precedes(L, ix[1], ix[k])
    BY <1>1 DEF Precedes
  <1>5. \A k \in 1..Len(c) : k <= 2 /\ k # 2 /\ 2 <= Len(c) => ix[k] < ix[2]
    BY <1>1 DEF Scanned
  <1>6. \A k, l \in 1..Len(c) : k < l /\ 2 < l => ix[k] < ix[l]
    BY <1>1 DEF Scanned
  <1>7. Inserting(c, ix, 2, 2, E, L)
    BY <1>3, <1>4, <1>5, <1>6 DEF Inserting, Scanned
  <1> QED BY <1>1, <1>3, <1>7

(* The comparison finds no smaller latency at j: the element stays. *)
LEMMA InsertionStays ==
  ASSUME NEW E \in SUBSET DOMAIN Providers, NEW c \in Seq(Names),
         NEW i \in Nat, NEW j \in Nat, 2 <= j, j <= i, i <= Len(c),
         NEW L \in [DOMAIN Providers -> Nat],
         NEW ix \in Positions(c), Inserting(c, ix, i, j, E, L),
         ~(L[ix[j]] < L[ix[j - 1]])
  PROVE  Inserting(c, ix, i + 1, i + 1, E, L)
  <1>0. /\ Len(c) \in Nat
        /\ \A k \in 1..Len(c) : ix[k] \in Nat /\ ix[k] \in DOMAIN Providers
    BY PositionType
  <1>1. /\ Len(c) \in Nat
        /\ \A k \in 1..Len(c) : ix[k] \in Nat /\ L[ix[k]] \in Nat
    BY <1>0
  <1>2. 1 \in 1..Len(c) /\ j \in 1..Len(c) /\ j - 1 \in 1..Len(c)
    BY <1>1
  <1>3. Precedes(L, ix[1], ix[j - 1]) /\ ix[j - 1] < ix[j]
    BY <1>2 DEF Inserting
  <1>4. Precedes(L, ix[1], ix[j])
    <2> DEFINE a == ix[1]
               b == ix[j - 1]
               e == ix[j]
    <2>1. /\ a \in Nat /\ b \in Nat /\ e \in Nat
          /\ L[a] \in Nat /\ L[b] \in Nat /\ L[e] \in Nat
          /\ Precedes(L, a, b) /\ b < e /\ ~(L[e] < L[b])
      BY <1>1, <1>2, <1>3
    <2> HIDE DEF a, b, e
    <2>2. Precedes(L, a, e)
      BY <2>1 DEF Precedes
    <2> QED BY <2>2 DEF a, e
  <1>5. \A k \in 1..Len(c) : k <= i + 1 /\ k # i + 1 => Precedes(L, ix[1], ix[k])
    BY <1>1, <1>4 DEF Inserting
  <1>6. \A k \in 1..Len(c) :
           k <= i + 1 /\ k # i + 1 /\ i + 1 <= Len(c) => ix[k] < ix[i + 1]
    BY <1>1 DEF Inserting
  <1>7. \A k, l \in 1..Len(c) : k < l /\ i + 1 < l => ix[k] < ix[l]
    BY <1>1 DEF Inserting
  <1> QED BY <1>5, <1>6, <1>7 DEF Inserting

(* The comparison finds a smaller latency at j: the element moves to the   *)
(* front by one place, and stays there once it is the first.               *)
LEMMA InsertionMoves ==
  ASSUME NEW E \in SUBSET DOMAIN Providers, NEW c \in Seq(Names),
         NEW i \in Nat, NEW j \in Nat, 2 <= j, j <= i, i <= Len(c),
         NEW L \in [DOMAIN Providers -> Nat],
         NEW ix \in Positions(c), Inserting(c, ix, i, j, E, L),
         L[ix[j]] < L[ix[j - 1]]
  PROVE  LET d == [c EXCEPT ![j] = c[j - 1], ![j - 1] = c[j]] IN
         \E iy \in Positions(d) :
             Inserting(d, iy, IF j > 2 THEN i ELSE i + 1,
                              IF j > 2 THEN j - 1 ELSE i + 1, E, L)
  <1> DEFINE n == Len(c)
             d == [c EXCEPT ![j] = c[j - 1], ![j - 1] = c[j]]
             iy == [k \in 1..n |-> IF k = j THEN ix[j - 1]
                                   ELSE IF k = j - 1 THEN ix[j] ELSE ix[k]]
  <1>1. /\ n \in Nat /\ DOMAIN c = 1..n
        /\ 1 \in 1..n /\ j \in 1..n /\ j - 1 \in 1..n /\ j - 1 # j
        /\ \A k \in 1..n : /\ ix[k] \in Nat /\ ix[k] \in DOMAIN Providers
                           /\ L[ix[k]] \in Nat
    BY PositionType
  <1>2. /\ Len(d) = n /\ d[j] = c[j - 1] /\ d[j - 1] = c[j]
        /\ \A k \in 1..n : k # j /\ k # j - 1 => d[k] = c[k]
    BY <1>1
  <1>3. /\ iy[j] = ix[j - 1] /\ iy[j - 1] = ix[j]
        /\ \A k \in 1..n : k # j /\ k # j - 1 => iy[k] = ix[k]
        /\ iy \in [1..n -> DOMAIN Providers]
    BY <1>1
  <1> HIDE DEF n, d, iy
  <1>4. iy \in Positions(d)
    BY <1>2, <1>3 DEF Positions
  <1>5. Names4(d, iy, E)
    <2>1. \A k \in 1..n : ix[k] \in E /\ c[k] = Providers[ix[k]]
      BY DEF Inserting, Names4, n
    <2>2. ASSUME NEW k \in 1..n PROVE iy[k] \in E /\ d[k] = Providers[iy[k]]
      <3>1. CASE k = j
        BY <1>1, <1>2, <1>3, <2>1, <3>1
      <3>2. CASE k = j - 1
        BY <1>1, <1>2, <1>3, <2>1, <3>2
      <3>3. CASE k # j /\ k # j - 1
        BY <1>2, <1>3, <2>1, <3>3
      <3> QED BY <3>1, <3>2, <3>3
    <2> QED BY <1>2, <2>2 DEF Names4
  <1>6. ASSUME NEW e \in E PROVE \E k \in 1..n : iy[k] = e
    <2>1. PICK k \in 1..n : ix[k] = e
      BY DEF Inserting, n
    <2>2. CASE k = j
      BY <1>1, <1>3, <2>1, <2>2
    <2>3. CASE k = j - 1
      BY <1>1, <1>3, <2>1, <2>3
    <2>4. CASE k # j /\ k # j - 1
      BY <1>1, <1>3, <2>1, <2>4
    <2> QED BY <2>2, <2>3, <2>4
  <1>7. /\ \A k \in 1..n : k <= i /\ k # j => Precedes(L, ix[1], ix[k])
        /\ \A k \in 1..n : k <= i /\ k # j => ix[k] < ix[j]
        /\ \A k, l \in 1..n : k < l /\ i < l => ix[k] < ix[l]
    BY <1>1 DEF Inserting, n
  <1>8. \A k, l \in 1..n : k < l /\ i < l => iy[k] < iy[l]
    <2> SUFFICES ASSUME NEW k \in 1..n, NEW l \in 1..n, k < l, i < l
                 PROVE  iy[k] < iy[l]
      OBVIOUS
    <2>1. iy[l] = ix[l]
      BY <1>1, <1>3
    <2>2. j < l /\ j - 1 < l
      BY <1>1
    <2> QED BY <1>1, <1>3, <1>7, <2>1, <2>2
  <1>9. CASE j > 2
    <2>1. iy[1] = ix[1]
      BY <1>1, <1>3, <1>9
    <2>2. ASSUME NEW k \in 1..n, k <= i, k # j - 1
          PROVE  Precedes(L, iy[1], iy[k]) /\ iy[k] < iy[j - 1]
      <3>1. CASE k = j
        <4>1. Precedes(L, ix[1], ix[j - 1]) /\ ix[j - 1] < ix[j]
          BY <1>1, <1>7
        <4> QED BY <1>3, <2>1, <3>1, <4>1
      <3>2. CASE k # j
        <4>1. Precedes(L, ix[1], ix[k]) /\ ix[k] < ix[j]
          BY <1>7, <2>2, <3>2
        <4> QED BY <1>3, <2>1, <2>2, <3>2, <4>1
      <3> QED BY <3>1, <3>2
    <2>3. \A k \in 1..n : k <= i /\ k # j - 1
                         => Precedes(L, iy[1], iy[k]) /\ iy[k] < iy[j - 1]
      BY <2>2
    <2>4. Inserting(d, iy, i, j - 1, E, L)
      BY <1>1, <1>2, <1>5, <1>6, <1>8, <2>3 DEF Inserting, n
    <2> QED BY <1>4, <1>9, <2>4 DEF d
  <1>10. CASE j = 2
    <2>1. iy[1] = ix[2] /\ iy[2] = ix[1] /\ L[ix[2]] < L[ix[1]]
      BY <1>1, <1>3, <1>10
    <2>2. ASSUME NEW k \in 1..n, k < i + 1 PROVE Precedes(L, iy[1], iy[k])
      <3>1. CASE k = 1
        BY <1>1, <1>10, <2>1, <3>1 DEF Precedes
      <3>2. CASE k = 2
        BY <2>1, <3>2 DEF Precedes
      <3>3. CASE k > 2
        <4>1. iy[k] = ix[k] /\ Precedes(L, ix[1], ix[k])
          BY <1>1, <1>3, <1>7, <1>10, <2>2, <3>3
        <4> QED BY <1>1, <1>10, <2>1, <4>1 DEF Precedes
      <3> QED BY <3>1, <3>2, <3>3
    <2>3. \A k \in 1..n : k <= i + 1 /\ k # i + 1 => Precedes(L, iy[1], iy[k])
      BY <2>2
    <2>4. \A k \in 1..n : k <= i + 1 /\ k # i + 1 /\ i + 1 <= n => iy[k] < iy[i + 1]
      BY <1>1, <1>8
    <2>5. \A k, l \in 1..n : k < l /\ i + 1 < l => iy[k] < iy[l]
      BY <1>1, <1>8
    <2>6. Inserting(d, iy, i + 1, i + 1, E, L)
      BY <1>2, <1>5, <1>6, <2>3, <2>4, <2>5 DEF Inserting
    <2> QED BY <1>4, <1>10, <2>6 DEF d
  <1>11. j > 2 \/ j = 2
    OBVIOUS
  <1> QED BY <1>9, <1>10, <1>11

(* The order of the positions has at most one first element. *)
LEMMA FirstIsUnique ==
  ASSUME NEW L \in [DOMAIN Providers -> Nat],
         NEW a \in DOMAIN Providers, NEW b \in DOMAIN Providers,
         Precedes(L, a, b), Precedes(L, b, a)
  PROVE  a = b
  BY ProviderList DEF Precedes

(* A finished sort has the first element of the order in front. *)
LEMMA SortFinishes ==
  ASSUME NEW E \in SUBSET DOMAIN Providers, NEW c \in Seq(Names), Len(c) >= 1,
         NEW i \in Nat, NEW j \in Nat, i > Len(c),
         NEW L \in [DOMAIN Providers -> Nat],
         NEW ix \in Positions(c), Inserting(c, ix, i, j, E, L)
  PROVE  /\ ix[1] \in E /\ c[1] = Providers[ix[1]]
         /\ \A e \in E : Precedes(L, ix[1], e)
  <1>1. Len(c) \in Nat /\ 1 \in 1..Len(c)
    OBVIOUS
  <1>2. \A k \in 1..Len(c) : k <= i /\ k # j
    BY <1>1 DEF Inserting
  <1> QED BY <1>1, <1>2 DEF Inserting, Names4

(* The record of r becomes q, and every other selection stays as it was. *)
LEMMA SelectionUpdate ==
  ASSUME IInv, SelectionInv, NEW r \in Requests, NEW q,
         req' = [req EXCEPT ![r] = q], UNCHANGED metrics,
         calm' \subseteq calm \cup {r},
         r \in calm' => SelectionOK(q, OpenTo(q.allow), Latency)
  PROVE  SelectionInv'
  <1> SUFFICES ASSUME NEW x \in calm'
               PROVE  SelectionOK(req[x], OpenTo(req[x].allow), Latency)'
    BY DEF SelectionInv
  <1>1. Latency' = Latency
    BY DEF metrics, Latency, GetLatency
  <1>2. x \in Requests /\ req'[x] = IF x = r THEN q ELSE req[x]
    BY DEF IInv, TypeOK
  <1> DEFINE Open(a) == {k \in DOMAIN Providers :
                           /\ a = {} \/ Providers[k] \in a
                           /\ GetState(Providers[k]) # "unhealthy"}
  <1>3. OpenTo(req[x].allow)' = Open(req'[x].allow)
    BY DEF metrics, OpenTo, GetState
  <1>4. SelectionOK(req[x], OpenTo(req[x].allow), Latency)'
        <=> SelectionOK(req'[x], Open(req'[x].allow), Latency)
    BY <1>1, <1>3 DEF SelectionOK
  <1>5. CASE x = r
    BY <1>2, <1>4, <1>5 DEF OpenTo
  <1>6. CASE x # r
    <2>1. SelectionOK(req[x], OpenTo(req[x].allow), Latency)
      BY <1>6 DEF SelectionInv
    <2> QED BY <1>2, <1>4, <1>6, <2>1 DEF OpenTo
  <1> QED BY <1>5, <1>6

LEMMA ArriveSelects ==
  ASSUME IInv, SelectionInv, NEW r \in Requests, Arrive(r)
  PROVE  SelectionInv'
  <1>1. PICK a \in Allowlists, s \in BOOLEAN :
           req' = [req EXCEPT ![r] =
                      [Idle EXCEPT !.pc = "scan", !.allow = a, !.stream = s]]
    BY DEF Arrive
  <1> DEFINE q == [Idle EXCEPT !.pc = "scan", !.allow = a, !.stream = s]
             E == OpenTo(q.allow)
  <1>2. /\ q.pc = "scan" /\ q.cand = <<>> /\ q.next = 1 /\ q.i = 2 /\ q.j = 2
    BY DEF Idle
  <1> HIDE DEF q
  <1>3. E \in SUBSET DOMAIN Providers
    BY DEF OpenTo
  <1> HIDE DEF E
  <1>4. SelectionOK(q, E, Latency)
    BY <1>2, <1>3, ScanBegins DEF SelectionOK
  <1>5. req' = [req EXCEPT ![r] = q]
    BY <1>1 DEF q
  <1>6. calm' \subseteq calm \cup {r} /\ UNCHANGED metrics
    BY DEF Arrive
  <1> QED BY <1>4, <1>5, <1>6, SelectionUpdate DEF E

LEMMA ScanSelects ==
  ASSUME IInv, SelectionInv, NEW r \in Requests, Scan(r)
  PROVE  SelectionInv'
  <1> DEFINE n == req[r].next
             p == Providers[n]
             c == req[r].cand
             E == OpenTo(req[r].allow)
             d == IF n \in E THEN Append(c, p) ELSE c
             q == [req[r] EXCEPT !.next = n + 1, !.cand = d]
  <1>1. req[r] \in Request /\ SortOK(req[r]) /\ req[r].pc = "scan"
    BY DEF IInv, TypeOK, SortInv, SortOK, Scan
  <1>2. n \in Nat /\ n \in DOMAIN Providers /\ c \in Seq(Names)
    BY <1>1, ProviderList DEF Scan, Request, SortOK
  <1>3. E \in SUBSET DOMAIN Providers
        /\ (n \in E <=> Allowed(r, p) /\ Usable(p))
    BY <1>2 DEF OpenTo, Allowed, Usable
  <1>4. req' = [req EXCEPT ![r] = q]
    BY <1>3 DEF Scan
  <1>5. /\ q.pc = "scan" /\ q.allow = req[r].allow /\ q.i = req[r].i
        /\ q.j = req[r].j /\ q.next = n + 1 /\ q.cand = d
    BY <1>1 DEF Request
  <1> HIDE DEF n, c, E, q
  <1>6. ASSUME r \in calm PROVE SelectionOK(q, E, Latency)
    <2>1. SelectionOK(req[r], E, Latency)
      BY <1>6 DEF SelectionInv, E
    <2>2. PICK ix \in Positions(c) : Scanned(c, ix, n, E)
      BY <1>1, <2>1 DEF SelectionOK, c, n
    <2>3. q.i = 2 /\ q.j = 2
      BY <1>1, <1>5, <2>1 DEF SelectionOK
    <2>4. \E iy \in Positions(d) : Scanned(d, iy, n + 1, E)
      <3>1. CASE n \in E
        <4>1. d = Append(c, Providers[n])
          BY <3>1
        <4> HIDE DEF d
        <4> QED BY <1>2, <1>3, <2>2, <3>1, <4>1, ScanCollects
      <3>2. CASE n \notin E
        <4>1. d = c
          BY <3>2
        <4> HIDE DEF d
        <4> QED BY <1>2, <1>3, <2>2, <3>2, <4>1, ScanSkips
      <3> QED BY <3>1, <3>2
    <2> HIDE DEF d
    <2> QED BY <1>5, <2>3, <2>4 DEF SelectionOK
  <1>7. calm' = calm /\ UNCHANGED metrics /\ E = OpenTo(q.allow)
    BY <1>5 DEF Scan, E
  <1> QED BY <1>4, <1>6, <1>7, SelectionUpdate

LEMMA ScanEndSelects ==
  ASSUME IInv, SelectionInv, NEW r \in Requests, ScanEnd(r)
  PROVE  SelectionInv'
  <1> DEFINE c == req[r].cand
             n == req[r].next
             E == OpenTo(req[r].allow)
             q == [req[r] EXCEPT !.pc = IF c = <<>> THEN "refused" ELSE "sort"]
  <1>1. /\ req[r] \in Request /\ SortOK(req[r]) /\ req[r].pc = "scan"
        /\ n > Len(Providers)
    BY DEF IInv, TypeOK, SortInv, SortOK, ScanEnd
  <1>2. n \in Nat /\ c \in Seq(Names)
    BY <1>1 DEF Request
  <1>3. E \in SUBSET DOMAIN Providers
    BY DEF OpenTo
  <1>4. req' = [req EXCEPT ![r] = q]
    BY DEF ScanEnd
  <1>5. /\ q.pc = IF c = <<>> THEN "refused" ELSE "sort"
        /\ q.allow = req[r].allow /\ q.i = req[r].i
        /\ q.j = req[r].j /\ q.cand = c
    BY <1>1 DEF Request
  <1> HIDE DEF n, c, E, q
  <1>6. ASSUME r \in calm PROVE SelectionOK(q, E, Latency)
    <2>1. SelectionOK(req[r], E, Latency)
      BY <1>6 DEF SelectionInv, E
    <2>2. PICK ix \in Positions(c) : Scanned(c, ix, n, E)
      BY <1>1, <2>1 DEF SelectionOK, c, n
    <2>3. q.i = 2 /\ q.j = 2
      BY <1>1, <1>5, <2>1 DEF SelectionOK
    <2>4. Latency \in [DOMAIN Providers -> Nat]
      BY LatencyType DEF IInv
    <2>5. Inserting(c, ix, 2, 2, E, Latency) /\ (c = <<>> => E = {})
      BY <1>1, <1>2, <1>3, <2>2, <2>4, ScanFinishes
    <2>6. CASE c = <<>>
      BY <1>5, <2>5, <2>6 DEF SelectionOK
    <2>7. CASE c # <<>>
      BY <1>5, <2>2, <2>3, <2>5, <2>7 DEF SelectionOK
    <2> QED BY <2>6, <2>7
  <1>7. calm' = calm /\ UNCHANGED metrics /\ E = OpenTo(q.allow)
    BY <1>5 DEF ScanEnd, E
  <1> QED BY <1>4, <1>6, <1>7, SelectionUpdate

LEMMA LoadLeftSelects ==
  ASSUME IInv, SelectionInv, NEW r \in Requests, LoadLeft(r)
  PROVE  SelectionInv'
  <1> DEFINE c == req[r].cand
             i == req[r].i
             j == req[r].j
             E == OpenTo(req[r].allow)
             q == [req[r] EXCEPT !.pc = "compare", !.li = GetLatency(c[j])]
  <1>1. /\ req[r] \in Request /\ SortOK(req[r]) /\ req[r].pc = "sort"
        /\ i <= Len(c)
    BY DEF IInv, TypeOK, SortInv, SortOK, LoadLeft
  <1>2. c \in Seq(Names) /\ j \in 1..Len(c)
    BY <1>1 DEF Request, SortOK
  <1>3. req' = [req EXCEPT ![r] = q]
    BY DEF LoadLeft
  <1>4. /\ q.pc = "compare" /\ q.allow = req[r].allow /\ q.i = i /\ q.j = j
        /\ q.cand = c /\ q.li = GetLatency(c[j])
    BY <1>1 DEF Request
  <1> HIDE DEF i, j, c, E, q
  <1>5. ASSUME r \in calm PROVE SelectionOK(q, E, Latency)
    <2>1. SelectionOK(req[r], E, Latency)
      BY <1>5 DEF SelectionInv, E
    <2>2. PICK ix \in Positions(c) : Inserting(c, ix, i, j, E, Latency)
      BY <1>1, <2>1 DEF SelectionOK, c, i, j
    <2>3. ix[j] \in DOMAIN Providers /\ c[j] = Providers[ix[j]]
      BY <1>2, <2>2, PositionType DEF Inserting, Names4
    <2>4. GetLatency(c[j]) = Latency[ix[j]]
      BY <2>3, LatencyType DEF IInv
    <2> QED BY <1>4, <2>2, <2>4 DEF SelectionOK
  <1>6. calm' = calm /\ UNCHANGED metrics /\ E = OpenTo(q.allow)
    BY <1>4 DEF LoadLeft, E
  <1> QED BY <1>3, <1>5, <1>6, SelectionUpdate

LEMMA CompareSelects ==
  ASSUME IInv, SelectionInv, NEW r \in Requests, Compare(r)
  PROVE  SelectionInv'
  <1> DEFINE c == req[r].cand
             i == req[r].i
             j == req[r].j
             E == OpenTo(req[r].allow)
             less == req[r].li < GetLatency(c[j - 1])
             more == less /\ j > 2
             d == IF less THEN [c EXCEPT ![j] = c[j - 1], ![j - 1] = c[j]] ELSE c
             i2 == IF more THEN i ELSE i + 1
             j2 == IF more THEN j - 1 ELSE i + 1
             q == [req[r] EXCEPT !.pc = "sort", !.cand = d, !.i = i2, !.j = j2]
  <1>1. req[r] \in Request /\ SortOK(req[r]) /\ req[r].pc = "compare"
    BY DEF IInv, TypeOK, SortInv, SortOK, Compare
  <1>2. /\ c \in Seq(Names) /\ i \in Nat /\ j \in Nat
        /\ 2 <= j /\ j <= i /\ i <= Len(c)
    BY <1>1 DEF Request, SortOK
  <1>3. req' = [req EXCEPT ![r] = q]
    BY DEF Compare, GoesOn
  <1> HIDE DEF i2, j2, d
  <1>4. /\ q.pc = "sort" /\ q.allow = req[r].allow /\ q.i = i2 /\ q.j = j2
        /\ q.cand = d
    BY <1>1 DEF Request
  <1> HIDE DEF i, j, c, E, q
  <1>5. ASSUME r \in calm PROVE SelectionOK(q, E, Latency)
    <2>1. SelectionOK(req[r], E, Latency)
      BY <1>5 DEF SelectionInv, E
    <2>2. PICK ix \in Positions(c) : /\ Inserting(c, ix, i, j, E, Latency)
                                     /\ req[r].li = Latency[ix[j]]
      BY <1>1, <2>1 DEF SelectionOK, c, i, j
    <2>3. j - 1 \in 1..Len(c)
      BY <1>2
    <2>4. ix[j - 1] \in DOMAIN Providers /\ c[j - 1] = Providers[ix[j - 1]]
      BY <1>2, <2>2, <2>3, PositionType DEF Inserting, Names4
    <2>5. GetLatency(c[j - 1]) = Latency[ix[j - 1]]
      BY <2>4, LatencyType DEF IInv
    <2>6. less <=> Latency[ix[j]] < Latency[ix[j - 1]]
      BY <2>2, <2>5
    <2>7. /\ Latency \in [DOMAIN Providers -> Nat]
          /\ E \in SUBSET DOMAIN Providers
      BY LatencyType DEF IInv, E, OpenTo
    <2>8. \E iy \in Positions(d) : Inserting(d, iy, i2, j2, E, Latency)
      <3>1. CASE less
        <4>1. /\ d = [c EXCEPT ![j] = c[j - 1], ![j - 1] = c[j]]
              /\ i2 = IF j > 2 THEN i ELSE i + 1
              /\ j2 = IF j > 2 THEN j - 1 ELSE i + 1
          BY <3>1 DEF d, i2, j2
        <4> QED BY <1>2, <2>2, <2>6, <2>7, <3>1, <4>1, InsertionMoves
      <3>2. CASE ~less
        <4>1. d = c /\ i2 = i + 1 /\ j2 = i + 1
          BY <3>2 DEF d, i2, j2
        <4> QED BY <1>2, <2>2, <2>6, <2>7, <3>2, <4>1, InsertionStays
      <3> QED BY <3>1, <3>2
    <2> QED BY <1>4, <2>8 DEF SelectionOK
  <1>6. calm' = calm /\ UNCHANGED metrics /\ E = OpenTo(q.allow)
    BY <1>4 DEF Compare, E
  <1> QED BY <1>3, <1>5, <1>6, SelectionUpdate

LEMMA DispatchSelects ==
  ASSUME IInv, SelectionInv, NEW r \in Requests, Dispatch(r)
  PROVE  SelectionInv'
  <1> DEFINE E == OpenTo(req[r].allow)
             q == [req[r] EXCEPT !.pc = "call"]
  <1>1. req[r] \in Request /\ req[r].pc = "sort" /\ req[r].i > Len(req[r].cand)
    BY DEF IInv, TypeOK, Dispatch
  <1>2. req' = [req EXCEPT ![r] = q]
    BY DEF Dispatch
  <1>3. /\ q.pc = "call" /\ q.allow = req[r].allow /\ q.i = req[r].i
        /\ q.j = req[r].j /\ q.cand = req[r].cand
    BY <1>1 DEF Request
  <1> HIDE DEF E, q
  <1>4. ASSUME r \in calm PROVE SelectionOK(q, E, Latency)
    <2>1. SelectionOK(req[r], E, Latency)
      BY <1>4 DEF SelectionInv, E
    <2> QED BY <1>1, <1>3, <2>1 DEF SelectionOK
  <1>5. calm' = calm /\ UNCHANGED metrics /\ E = OpenTo(q.allow)
    BY <1>3 DEF Dispatch, E
  <1> QED BY <1>2, <1>4, <1>5, SelectionUpdate

(* A request that returns is idle; a record ends every calm selection. *)
LEMMA ReturnSelects ==
  ASSUME IInv, SelectionInv, NEW r \in Requests, Succeed(r) \/ Fail(r)
  PROVE  SelectionInv'
  <1>1. CASE calm' = {}
    BY <1>1 DEF SelectionInv
  <1>2. CASE UNCHANGED <<metrics, calm, history>>
    <2>1. req' = [req EXCEPT ![r] = Idle]
      BY DEF Succeed, Fail, Return
    <2>2. SelectionOK(Idle, OpenTo(Idle.allow), Latency)
      BY DEF SelectionOK, Idle
    <2>3. calm' \subseteq calm \cup {r} /\ UNCHANGED metrics
      BY <1>2
    <2> QED BY <2>1, <2>2, <2>3, SelectionUpdate
  <1> QED BY <1>1, <1>2 DEF Succeed, Fail, RecordSuccess, RecordError

LEMMA SelectionKept ==
  IInv /\ SelectionInv /\ [Next]_vars => SelectionInv'
  <1> SUFFICES ASSUME IInv, SelectionInv, [Next]_vars PROVE SelectionInv'
    OBVIOUS
  <1>1. CASE UNCHANGED vars
    <2>1. /\ err' = err /\ lat' = lat /\ req' = req /\ calm' = calm
      BY <1>1 DEF vars, metrics
    <2>2. Latency' = Latency
      BY <2>1 DEF Latency, GetLatency
    <2>3. \A r \in calm : OpenTo(req[r].allow)' = OpenTo(req[r].allow)
      BY <2>1 DEF OpenTo, GetState
    <2> QED BY <2>1, <2>2, <2>3 DEF SelectionInv, SelectionOK
  <1>2. ASSUME NEW r \in Requests, Arrive(r) \/ Step(r) PROVE SelectionInv'
    BY <1>2, ArriveSelects, ScanSelects, ScanEndSelects, LoadLeftSelects,
       CompareSelects, DispatchSelects, ReturnSelects DEF Step
  <1>3. ASSUME NEW p \in Names, ForceFailure(p) PROVE SelectionInv'
    BY <1>3 DEF ForceFailure, SelectionInv
  <1> QED BY <1>1, <1>2, <1>3 DEF Next

(* The selector comes to the best provider there is, and to none only when *)
(* there is none, whatever the number of providers and of concurrent       *)
(* requests and although the scan and the sort read every metric under a   *)
(* lock of its own, as long as no metric changes meanwhile                 *)
(* (selector.go:26-60).                                                    *)
THEOREM SelectionIsBest == Spec => []SelectsBest
  <1>1. Init => SelectionInv
    BY DEF Init, SelectionInv
  <1>2. IInv /\ SelectionInv => SelectsBest
    <2> SUFFICES ASSUME IInv, SelectionInv, NEW r \in calm
                 PROVE  /\ req[r].pc = "call" => /\ Eligible(r) # {}
                                                 /\ Chosen(r) = Providers[Best(r)]
                        /\ req[r].pc = "refused" => Eligible(r) = {}
      BY DEF SelectsBest
    <2> DEFINE E == Eligible(r)
               c == req[r].cand
               L == Latency
    <2>1. E = OpenTo(req[r].allow) /\ E \in SUBSET DOMAIN Providers
      BY DEF Eligible, OpenTo, Allowed
    <2>2. SelectionOK(req[r], E, L) /\ r \in Requests
      BY <2>1 DEF SelectionInv, IInv, TypeOK
    <2>3. /\ L \in [DOMAIN Providers -> Nat]
          /\ \A k \in DOMAIN Providers : L[k] = GetLatency(Providers[k])
      BY LatencyType DEF IInv
    <2>4. Best(r) = CHOOSE k \in E : \A m \in E : Precedes(L, k, m)
      <3> DEFINE First(k) == \A m \in E :
                    \/ GetLatency(Providers[k]) < GetLatency(Providers[m])
                    \/ /\ GetLatency(Providers[k]) = GetLatency(Providers[m])
                       /\ k <= m
      <3>1. \A k \in E : First(k) <=> \A m \in E : Precedes(L, k, m)
        BY <2>1, <2>3 DEF Precedes
      <3>2. Best(r) = CHOOSE k \in E : First(k)
        BY DEF Best
      <3> HIDE DEF First, E
      <3> QED BY <3>1, <3>2
    <2> HIDE DEF E, L
    <2>5. ASSUME req[r].pc = "call"
          PROVE  E # {} /\ c[1] = Providers[Best(r)]
      <3>1. PICK ix \in Positions(c) :
               Inserting(c, ix, req[r].i, req[r].j, E, L)
        BY <2>2, <2>5 DEF SelectionOK
      <3>2. /\ c \in Seq(Names) /\ Len(c) >= 1
            /\ req[r].i \in Nat /\ req[r].j \in Nat
        BY <2>2, <2>5 DEF IInv, TypeOK, SortInv, Request
      <3>3. req[r].i > Len(c)
        BY <2>2, <2>5 DEF SelectionOK
      <3>4. /\ ix[1] \in E /\ c[1] = Providers[ix[1]]
            /\ \A e \in E : Precedes(L, ix[1], e)
        BY <2>1, <2>3, <3>1, <3>2, <3>3, SortFinishes
      <3>5. Best(r) \in E /\ \A m \in E : Precedes(L, Best(r), m)
        BY <2>4, <3>4
      <3>6. Best(r) = ix[1]
        BY <2>1, <2>3, <3>4, <3>5, FirstIsUnique
      <3> QED BY <3>4, <3>6
    <2>6. req[r].pc = "refused" => E = {}
      BY <2>2 DEF SelectionOK
    <2> QED BY <2>5, <2>6 DEF E, Chosen
  <1> QED BY <1>1, <1>2, SelectionKept, InvariantHolds, PTL DEF Spec
-----------------------------------------------------------------------------
(* The loop variables of a selection do not pass the ends of their ranges. *)
RangeOK(q) ==
    /\ q.pc = "scan" => q.i = 2 /\ q.next <= Len(Providers) + 1
    /\ q.pc \in {"sort", "compare"} => q.i <= Len(q.cand) + 1

RangeInv == \A r \in Requests : RangeOK(req[r])

Selecting == {"scan", "sort", "compare"}

LEMMA LowerIf ==
  ASSUME NEW a, NEW b,
         \/ a[1] < b[1]
         \/ a[1] = b[1] /\ a[2] < b[2]
         \/ a[1] = b[1] /\ a[2] = b[2] /\ a[3] < b[3]
         \/ a[1] = b[1] /\ a[2] = b[2] /\ a[3] = b[3] /\ a[4] < b[4]
  PROVE  Lower(a, b)
  <1>1. CASE a[1] < b[1]
    <2>1. \A l \in 1..(1 - 1) : a[l] = b[l]
      OBVIOUS
    <2> QED BY <1>1, <2>1 DEF Lower
  <1>2. CASE a[1] = b[1] /\ a[2] < b[2]
    <2>1. \A l \in 1..(2 - 1) : a[l] = b[l]
      BY <1>2
    <2> QED BY <1>2, <2>1 DEF Lower
  <1>3. CASE a[1] = b[1] /\ a[2] = b[2] /\ a[3] < b[3]
    <2>1. \A l \in 1..(3 - 1) : a[l] = b[l]
      BY <1>3
    <2> QED BY <1>3, <2>1 DEF Lower
  <1>4. CASE a[1] = b[1] /\ a[2] = b[2] /\ a[3] = b[3] /\ a[4] < b[4]
    <2>1. \A l \in 1..(4 - 1) : a[l] = b[l]
      BY <1>4
    <2> QED BY <1>4, <2>1 DEF Lower
  <1> QED BY <1>1, <1>2, <1>3, <1>4

(* The four parts of what remains, stage by stage. *)
Parts(q) ==
    /\ Remaining(q)[3] = q.j
    /\ q.pc = "scan" =>
          /\ Remaining(q)[1] = 2
          /\ Remaining(q)[2] = 1 + Len(Providers) - q.next
    /\ q.pc \in {"sort", "compare"} =>
          /\ Remaining(q)[1] = 1
          /\ Remaining(q)[2] = 1 + Len(q.cand) - q.i
    /\ q.pc \in {"call", "refused"} => Remaining(q)[1] = 0
    /\ q.pc = "sort" => Remaining(q)[4] = 1
    /\ q.pc = "compare" => Remaining(q)[4] = 0

LEMMA RemainingParts ==
  ASSUME NEW q
  PROVE  Parts(q)
  BY DEF Remaining, Parts

LEMMA RemainingType ==
  ASSUME NEW q \in Request, RangeOK(q), q.pc \in Selecting
  PROVE  Remaining(q) \in Nat \X Nat \X Nat \X Nat
  <1>1. /\ q.next \in Nat /\ q.i \in Nat /\ q.j \in Nat /\ Len(q.cand) \in Nat
        /\ Len(Providers) \in Nat
    BY ProviderList DEF Request
  <1>2. CASE q.pc = "scan"
    <2>1. 1 + Len(Providers) - q.next \in Nat
      BY <1>1, <1>2 DEF RangeOK
    <2> QED BY <1>1, <1>2, <2>1 DEF Remaining
  <1>3. CASE q.pc \in {"sort", "compare"}
    <2>1. 1 + Len(q.cand) - q.i \in Nat
      BY <1>1, <1>3 DEF RangeOK
    <2> QED BY <1>1, <1>3, <2>1 DEF Remaining
  <1> QED BY <1>2, <1>3 DEF Selecting

(* q comes after x in a selection. *)
Advances(x, q) == RangeOK(q) /\ (x.pc \in Selecting => Lower(Remaining(q), Remaining(x)))

LEMMA ScanAdvances ==
  ASSUME IInv, NEW r \in Requests, RangeOK(req[r]), Scan(r) \/ ScanEnd(r)
  PROVE  Advances(req[r], req'[r])
  <1> DEFINE x == req[r]
             y == req'[r]
  <1>1. /\ x \in Request /\ y \in Request /\ x.pc = "scan"
        /\ x.next \in Nat /\ x.j \in Nat /\ y.j \in Nat /\ x.i = 2 /\ Len(x.cand) \in Nat
        /\ Len(Providers) \in Nat
    <2>1. req' \in [Requests -> Request]
      BY ScanKeeps, ScanEndKeeps
    <2>2. x \in Request /\ y \in Request
      BY <2>1 DEF IInv, TypeOK
    <2>3. x.pc = "scan"
      BY DEF Scan, ScanEnd
    <2>4. RangeOK(x)
      OBVIOUS
    <2> HIDE DEF x, y
    <2>5. x.i = 2
      BY <2>3, <2>4 DEF RangeOK
    <2> QED BY <2>2, <2>3, <2>5, ProviderList DEF Request
  <1>2. CASE Scan(r)
    <2>1. /\ y.pc = "scan" /\ y.next = x.next + 1 /\ y.i = x.i /\ y.j = x.j
          /\ x.next <= Len(Providers)
      BY <1>1, <1>2 DEF Scan, IInv, TypeOK, Request
    <2> HIDE DEF x, y
    <2>2. Lower(Remaining(y), Remaining(x))
      <3>1. Parts(x) /\ Parts(y)
        BY RemainingParts
      <3>2. Remaining(y)[1] = Remaining(x)[1] /\ Remaining(y)[2] < Remaining(x)[2]
        BY <1>1, <2>1, <3>1 DEF Parts
      <3> QED BY <3>2, LowerIf
    <2>3. RangeOK(y)
      BY <1>1, <2>1 DEF RangeOK
    <2> QED BY <2>2, <2>3 DEF Advances, x, y
  <1>3. CASE ScanEnd(r)
    <2>1. /\ y.pc = IF x.cand = <<>> THEN "refused" ELSE "sort"
          /\ y.i = x.i /\ y.cand = x.cand
      BY <1>1, <1>3 DEF ScanEnd, IInv, TypeOK, Request
    <2>2. x.cand # <<>> => Len(x.cand) >= 1
      BY <1>1 DEF Request
    <2> HIDE DEF x, y
    <2>3. Lower(Remaining(y), Remaining(x))
      <3>1. Parts(x) /\ Parts(y)
        BY RemainingParts
      <3>2. y.pc = "refused" \/ y.pc = "sort"
        BY <2>1
      <3>3. Remaining(x)[1] = 2 /\ Remaining(y)[1] \in {0, 1}
        BY <1>1, <3>1, <3>2 DEF Parts
      <3>4. Remaining(y)[1] < Remaining(x)[1]
        BY <3>3
      <3> QED BY <3>4, LowerIf
    <2>4. RangeOK(y)
      BY <1>1, <2>1, <2>2 DEF RangeOK
    <2> QED BY <2>3, <2>4 DEF Advances, x, y
  <1> QED BY <1>2, <1>3

LEMMA SortAdvances ==
  ASSUME IInv, NEW r \in Requests, RangeOK(req[r]),
         LoadLeft(r) \/ Compare(r) \/ Dispatch(r)
  PROVE  Advances(req[r], req'[r])
  <1> DEFINE x == req[r]
             y == req'[r]
  <1>1. /\ x \in Request /\ y \in Request /\ x.pc \in {"sort", "compare"}
        /\ x.j \in Nat /\ y.j \in Nat /\ x.i \in Nat /\ Len(x.cand) \in Nat
        /\ x.cand \in Seq(Names) /\ SortOK(x)
    <2>1. req' \in [Requests -> Request]
      BY LoadLeftKeeps, CompareKeeps, DispatchKeeps
    <2>2. x \in Request /\ y \in Request /\ SortOK(x)
      BY <2>1 DEF IInv, TypeOK, SortInv, SortOK
    <2>3. x.pc \in {"sort", "compare"}
      BY DEF LoadLeft, Compare, Dispatch
    <2> HIDE DEF x, y
    <2> QED BY <2>2, <2>3 DEF Request
  <1>2. CASE LoadLeft(r)
    <2>1. /\ x.pc = "sort" /\ y.pc = "compare" /\ y.i = x.i /\ y.j = x.j
          /\ y.cand = x.cand
      BY <1>1, <1>2 DEF LoadLeft, IInv, TypeOK, Request
    <2>2. RangeOK(y)
      BY <1>1, <2>1 DEF RangeOK
    <2> HIDE DEF x, y
    <2>3. Lower(Remaining(y), Remaining(x))
      <3>1. Parts(x) /\ Parts(y)
        BY RemainingParts
      <3>2. /\ Remaining(y)[1] = Remaining(x)[1] /\ Remaining(y)[2] = Remaining(x)[2]
            /\ Remaining(y)[3] = Remaining(x)[3]
        BY <2>1, <3>1 DEF Parts
      <3>3. Remaining(y)[4] < Remaining(x)[4]
        BY <2>1, <3>1 DEF Parts
      <3> QED BY <3>2, <3>3, LowerIf
    <2> QED BY <2>2, <2>3 DEF Advances, x, y
  <1>3. CASE Compare(r)
    <2>1. /\ x.pc = "compare" /\ y.pc = "sort" /\ Len(y.cand) = Len(x.cand)
          /\ \/ y.i = x.i /\ y.j = x.j - 1
             \/ y.i = x.i + 1 /\ y.j = x.i + 1
      <3> DEFINE c == x.cand  i == x.i  j == x.j
                 less == x.li < GetLatency(c[j - 1])
                 more == less /\ j > 2
                 d == IF less THEN [c EXCEPT ![j] = c[j - 1], ![j - 1] = c[j]] ELSE c
      <3>1. /\ x.pc = "compare"
            /\ y = [x EXCEPT !.pc = "sort", !.cand = d,
                             !.i = IF more THEN i ELSE i + 1,
                             !.j = IF more THEN j - 1 ELSE i + 1]
        <4>1. req \in [Requests -> Request]
          BY DEF IInv, TypeOK
        <4>2. req' = [req EXCEPT ![r] =
                        [req[r] EXCEPT !.pc = "sort", !.cand = d,
                                       !.i = IF more THEN i ELSE i + 1,
                                       !.j = IF more THEN j - 1 ELSE i + 1]]
          BY <1>3 DEF Compare, GoesOn
        <4>3. req[r].pc = "compare"
          BY <1>3 DEF Compare
        <4> QED BY <4>1, <4>2, <4>3
      <3>2. Len(d) = Len(c)
        BY <1>1, <3>1 DEF SortOK
      <3> HIDE DEF d, less, y
      <3>3. /\ y.pc = "sort" /\ y.cand = d
            /\ y.i = IF more THEN i ELSE i + 1
            /\ y.j = IF more THEN j - 1 ELSE i + 1
        BY <1>1, <3>1 DEF Request
      <3> QED BY <3>1, <3>2, <3>3
    <2>2. x.i <= Len(x.cand)
      BY <1>1, <2>1 DEF SortOK
    <2>3. RangeOK(y)
      BY <1>1, <2>1, <2>2 DEF RangeOK
    <2> HIDE DEF x, y
    <2>4. Lower(Remaining(y), Remaining(x))
      <3>0. Parts(x) /\ Parts(y)
        BY RemainingParts
      <3>1. CASE y.i = x.i /\ y.j = x.j - 1
        <4>1. /\ Remaining(y)[1] = Remaining(x)[1]
              /\ Remaining(y)[2] = Remaining(x)[2]
          BY <2>1, <3>0, <3>1 DEF Parts
        <4>2. Remaining(y)[3] < Remaining(x)[3]
          BY <1>1, <3>0, <3>1 DEF Parts
        <4> QED BY <4>1, <4>2, LowerIf
      <3>2. CASE y.i = x.i + 1 /\ y.j = x.i + 1
        <4>1. Remaining(y)[1] = Remaining(x)[1]
          BY <2>1, <3>0 DEF Parts
        <4>2. Remaining(y)[2] < Remaining(x)[2]
          BY <1>1, <2>1, <3>0, <3>2 DEF Parts
        <4> QED BY <4>1, <4>2, LowerIf
      <3> QED BY <2>1, <3>1, <3>2
    <2> QED BY <2>3, <2>4 DEF Advances, x, y
  <1>4. CASE Dispatch(r)
    <2>1. x.pc = "sort" /\ y.pc = "call"
      BY <1>1, <1>4 DEF Dispatch, IInv, TypeOK, Request
    <2>2. RangeOK(y)
      BY <2>1 DEF RangeOK
    <2> HIDE DEF x, y
    <2>3. Lower(Remaining(y), Remaining(x))
      <3>1. Parts(x) /\ Parts(y)
        BY RemainingParts
      <3>2. Remaining(y)[1] < Remaining(x)[1]
        BY <2>1, <3>1 DEF Parts
      <3> QED BY <3>2, LowerIf
    <2> QED BY <2>2, <2>3 DEF Advances, x, y
  <1> QED BY <1>2, <1>3, <1>4

(* Every step leaves each request as it is or takes it on. *)
LEMMA EveryStepAdvances ==
  ASSUME IInv, RangeInv, [Next]_vars, NEW r \in Requests
  PROVE  req'[r] = req[r] \/ Advances(req[r], req'[r])
  <1>0. RangeOK(req[r])
    BY DEF RangeInv
  <1>1. CASE UNCHANGED vars
    BY <1>1 DEF vars
  <1>2. ASSUME NEW s \in Requests, Arrive(s)
        PROVE  req'[r] = req[r] \/ Advances(req[r], req'[r])
    <2>1. CASE r # s
      BY <1>2, <2>1 DEF Arrive, IInv, TypeOK
    <2>2. CASE r = s
      <3>1. /\ req[r].pc \notin Selecting /\ req'[r].pc = "scan"
            /\ req'[r].i = 2 /\ req'[r].next = 1
        BY <1>2, <2>2 DEF Arrive, Idle, Selecting, IInv, TypeOK
      <3> QED BY <3>1, ProviderList DEF Advances, RangeOK
    <2> QED BY <2>1, <2>2
  <1>3. ASSUME NEW s \in Requests,
               Scan(s) \/ ScanEnd(s) \/ LoadLeft(s) \/ Compare(s) \/ Dispatch(s)
        PROVE  req'[r] = req[r] \/ Advances(req[r], req'[r])
    <2>1. CASE r # s
      <3>1. req \in [Requests -> Request]
        BY DEF IInv, TypeOK
      <3>2. CASE Scan(s) \/ ScanEnd(s) \/ LoadLeft(s) \/ Dispatch(s)
        BY <2>1, <3>1, <3>2 DEF Scan, ScanEnd, LoadLeft, Dispatch
      <3>3. CASE Compare(s)
        BY <2>1, <3>1, <3>3 DEF Compare
      <3> QED BY <1>3, <3>2, <3>3
    <2>2. CASE r = s
      BY <1>0, <1>3, <2>2, ScanAdvances, SortAdvances
    <2> QED BY <2>1, <2>2
  <1>4. ASSUME NEW s \in Requests, Succeed(s) \/ Fail(s)
        PROVE  req'[r] = req[r] \/ Advances(req[r], req'[r])
    <2>1. CASE r # s
      BY <1>4, <2>1 DEF Succeed, Fail, Return, IInv, TypeOK
    <2>2. CASE r = s
      <3>1. req[r].pc = "call" /\ req'[r].pc = "idle"
        BY <1>4, <2>2 DEF Succeed, Fail, Return, Idle, IInv, TypeOK
      <3> QED BY <3>1 DEF Advances, RangeOK, Selecting
    <2> QED BY <2>1, <2>2
  <1>5. ASSUME NEW p \in Names, ForceFailure(p) PROVE req'[r] = req[r]
    BY <1>5 DEF ForceFailure
  <1> QED BY <1>1, <1>2, <1>3, <1>4, <1>5 DEF Next, Step

LEMMA RangeHolds == Spec => []RangeInv
  <1>1. Init => RangeInv
    BY DEF Init, RangeInv, RangeOK, Idle
  <1>2. IInv /\ RangeInv /\ [Next]_vars => RangeInv'
    <2> SUFFICES ASSUME IInv, RangeInv, [Next]_vars, NEW r \in Requests
                 PROVE  RangeOK(req'[r])
      BY DEF RangeInv, RangeOK
    <2> QED BY EveryStepAdvances DEF RangeInv, Advances
  <1> QED BY <1>1, <1>2, InvariantHolds, PTL DEF Spec

(* Select ends, for any number of providers and of requests that change the*)
(* latencies under its sort: every step of a selection brings it nearer to *)
(* its end in a well-founded order, and no other step sets it back         *)
(* (selector.go:26-60).                                                    *)
THEOREM SelectionEnds == Spec => SelectionProgress
  <1>1. IInv /\ RangeInv /\ [Next]_vars =>
          [\A r \in Requests :
              req[r].pc \in {"scan", "sort", "compare"} =>
                  /\ Remaining(req[r]) \in Nat \X Nat \X Nat \X Nat
                  /\ req'[r] # req[r] =>
                        Lower(Remaining(req'[r]), Remaining(req[r]))]_vars
    <2> SUFFICES ASSUME IInv, RangeInv, [Next]_vars, NEW r \in Requests,
                        req[r].pc \in Selecting
                 PROVE  /\ Remaining(req[r]) \in Nat \X Nat \X Nat \X Nat
                        /\ req'[r] # req[r] =>
                              Lower(Remaining(req'[r]), Remaining(req[r]))
      BY DEF Selecting
    <2>1. Remaining(req[r]) \in Nat \X Nat \X Nat \X Nat
      BY RemainingType DEF IInv, TypeOK, RangeInv
    <2>2. req'[r] = req[r] \/ Lower(Remaining(req'[r]), Remaining(req[r]))
      BY EveryStepAdvances DEF Advances
    <2> QED BY <2>1, <2>2
  <1> QED BY <1>1, InvariantHolds, RangeHolds, PTL DEF Spec, SelectionProgress
-----------------------------------------------------------------------------
(* The sort only permutes what the scan let in, and the scan lets in only  *)
(* what the tenant may use.                                                *)
Permitted(q) ==
    q.allow = {} \/ \A k \in 1..Len(q.cand) : q.cand[k] \in q.allow

PermittedInv == \A r \in Requests : Permitted(req[r])

LEMMA PermittedUpdate ==
  ASSUME IInv, PermittedInv, NEW r \in Requests, NEW q, Permitted(q),
         req' = [req EXCEPT ![r] = q]
  PROVE  PermittedInv'
  <1> SUFFICES ASSUME NEW x \in Requests PROVE Permitted(req'[x])
    BY DEF PermittedInv, Permitted
  <1>1. req'[x] = IF x = r THEN q ELSE req[x]
    BY DEF IInv, TypeOK
  <1> QED BY <1>1 DEF PermittedInv

LEMMA ScanPermits ==
  ASSUME IInv, PermittedInv, NEW r \in Requests, Scan(r)
  PROVE  PermittedInv'
  <1> DEFINE p == Providers[req[r].next]
             c == req[r].cand
             d == IF Allowed(r, p) /\ Usable(p) THEN Append(c, p) ELSE c
             q == [req[r] EXCEPT !.next = req[r].next + 1, !.cand = d]
  <1>1. /\ req[r] \in Request /\ SortOK(req[r]) /\ Permitted(req[r])
    BY DEF IInv, TypeOK, SortInv, SortOK, PermittedInv
  <1>2. p \in Names /\ c \in Seq(Names)
    BY <1>1, RoutingAssumption DEF Scan, Request, SortOK
  <1>3. req' = [req EXCEPT ![r] = q]
    BY DEF Scan
  <1>4. CASE req[r].allow = {}
    <2>1. q.allow = {}
      BY <1>1, <1>4 DEF Request
    <2> HIDE DEF q
    <2> QED BY <1>3, <2>1, PermittedUpdate DEF Permitted
  <1>5. CASE req[r].allow # {}
    <2>1. \A k \in 1..Len(c) : c[k] \in req[r].allow
      BY <1>1, <1>5 DEF Permitted
    <2>2. Allowed(r, p) => p \in req[r].allow
      BY <1>5 DEF Allowed
    <2>3. \A k \in 1..Len(d) : d[k] \in req[r].allow
      <3>1. CASE d = c
        BY <2>1, <3>1
      <3>2. CASE Allowed(r, p) /\ d = Append(c, p)
        BY <1>2, <2>1, <2>2, <3>2
      <3> QED BY <3>1, <3>2
    <2> HIDE DEF d
    <2>4. Permitted(q)
      BY <1>1, <2>3 DEF Permitted, Request
    <2> HIDE DEF q
    <2> QED BY <1>3, <2>4, PermittedUpdate
  <1> QED BY <1>4, <1>5

LEMMA ComparePermits ==
  ASSUME IInv, PermittedInv, NEW r \in Requests, Compare(r)
  PROVE  PermittedInv'
  <1> DEFINE c == req[r].cand  i == req[r].i  j == req[r].j
             less == req[r].li < GetLatency(c[j - 1])
             more == less /\ j > 2
             d == IF less THEN [c EXCEPT ![j] = c[j - 1], ![j - 1] = c[j]] ELSE c
             q == [req[r] EXCEPT !.pc = "sort", !.cand = d,
                                 !.i = IF more THEN i ELSE i + 1,
                                 !.j = IF more THEN j - 1 ELSE i + 1]
  <1>1. /\ req[r] \in Request /\ SortOK(req[r]) /\ Permitted(req[r])
        /\ req[r].pc = "compare"
    BY DEF IInv, TypeOK, SortInv, SortOK, PermittedInv, Compare
  <1>2. /\ c \in Seq(Names) /\ j \in Nat /\ i \in Nat
        /\ 2 <= j /\ j <= i /\ i <= Len(c)
    BY <1>1 DEF Request, SortOK
  <1>3. req' = [req EXCEPT ![r] = q]
    BY DEF Compare, GoesOn
  <1>4. ASSUME NEW A, \A k \in 1..Len(c) : c[k] \in A
        PROVE  \A k \in 1..Len(d) : d[k] \in A
    <2>1. j \in 1..Len(c) /\ j - 1 \in 1..Len(c) /\ Len(c) \in Nat
      BY <1>2
    <2>2. CASE less
      <3>1. /\ d \in Seq(Names) /\ Len(d) = Len(c)
            /\ \A k \in 1..Len(c) :
                  d[k] = IF k = j - 1 THEN c[j] ELSE IF k = j THEN c[j - 1] ELSE c[k]
        BY <1>2, <2>1, <2>2
      <3> QED BY <1>4, <2>1, <3>1
    <2>3. CASE ~less
      BY <1>4, <2>3
    <2> QED BY <2>2, <2>3
  <1> HIDE DEF d, less
  <1>5. q.allow = req[r].allow /\ q.cand = d
    BY <1>1 DEF Request
  <1> HIDE DEF q
  <1>6. Permitted(q)
    BY <1>1, <1>4, <1>5 DEF Permitted
  <1> QED BY <1>3, <1>6, PermittedUpdate

LEMMA PermittedStep == IInv /\ PermittedInv /\ [Next]_vars => PermittedInv'
  <1> SUFFICES ASSUME IInv, PermittedInv, [Next]_vars PROVE PermittedInv'
    OBVIOUS
  <1>1. ASSUME UNCHANGED req PROVE PermittedInv'
    BY <1>1 DEF PermittedInv, Permitted
  <1>2. ASSUME NEW r \in Requests, Arrive(r) PROVE PermittedInv'
    <2>1. PICK a \in Allowlists, s \in BOOLEAN :
             req' = [req EXCEPT ![r] =
                        [Idle EXCEPT !.pc = "scan", !.allow = a, !.stream = s]]
      BY <1>2 DEF Arrive
    <2> DEFINE q == [Idle EXCEPT !.pc = "scan", !.allow = a, !.stream = s]
    <2>2. q.cand = <<>>
      BY DEF Idle
    <2> HIDE DEF q
    <2>3. Permitted(q)
      BY <2>2 DEF Permitted
    <2> QED BY <2>1, <2>3, PermittedUpdate DEF q
  <1>3. ASSUME NEW r \in Requests, ScanEnd(r) \/ LoadLeft(r) \/ Dispatch(r)
        PROVE  PermittedInv'
    <2> SUFFICES ASSUME NEW x \in Requests PROVE Permitted(req'[x])
      BY DEF PermittedInv, Permitted
    <2>1. req'[x].allow = req[x].allow /\ req'[x].cand = req[x].cand
      <3>1. CASE ScanEnd(r)
        BY <3>1 DEF ScanEnd, IInv, TypeOK, Request
      <3>2. CASE LoadLeft(r)
        <4> DEFINE l == GetLatency(req[r].cand[req[r].j])
        <4>1. req' = [req EXCEPT ![r].pc = "compare", ![r].li = l]
          BY <3>2 DEF LoadLeft
        <4> HIDE DEF l
        <4> QED BY <4>1 DEF IInv, TypeOK, Request
      <3>3. CASE Dispatch(r)
        BY <3>3 DEF Dispatch, IInv, TypeOK, Request
      <3> QED BY <1>3, <3>1, <3>2, <3>3
    <2> QED BY <2>1 DEF PermittedInv, Permitted
  <1>4. ASSUME NEW r \in Requests, Succeed(r) \/ Fail(r) PROVE PermittedInv'
    <2>1. Permitted(Idle)
      BY DEF Permitted, Idle
    <2> QED BY <1>4, <2>1, PermittedUpdate DEF Succeed, Fail, Return
  <1> QED BY <1>1, <1>2, <1>3, <1>4, ScanPermits, ComparePermits
          DEF Next, Step, ForceFailure, vars

(* A provider outside the tenant's allowlist is never called, also while   *)
(* the latencies change under the sort (selector.go:31-60).                *)
THEOREM CallsOnlyAllowed ==
  Spec => [](\A r \in Requests : req[r].pc = "call" => Allowed(r, Chosen(r)))
  <1>1. Init => PermittedInv
    BY DEF Init, PermittedInv, Permitted, Idle
  <1>2. IInv /\ PermittedInv =>
          \A r \in Requests : req[r].pc = "call" => Allowed(r, Chosen(r))
    <2> SUFFICES ASSUME IInv, PermittedInv, NEW r \in Requests, req[r].pc = "call"
                 PROVE  Allowed(r, Chosen(r))
      OBVIOUS
    <2>1. 1 \in 1..Len(req[r].cand)
      BY DEF IInv, TypeOK, Request, SortInv
    <2> QED BY <2>1 DEF PermittedInv, Permitted, Allowed, Chosen
  <1> QED BY <1>1, <1>2, PermittedStep, InvariantHolds, PTL DEF Spec
-----------------------------------------------------------------------------
(* What one more error does to a rate, step by step. *)
LEMMA ErrorStep ==
  ASSUME NEW x \in Nat, x <= 1000, NEW y, y = Smooth(1000, x)
  PROVE  /\ y \in Nat /\ y <= 1000
         /\ y >= 100 /\ (x <= 0 => y <= 100)
         /\ (x >= 100 => y >= 190) /\ (x <= 100 => y <= 190)
         /\ (x >= 190 => y >= 271) /\ (x <= 190 => y <= 271)
         /\ (x >= 271 => y >= 344) /\ (x <= 271 => y <= 344)
         /\ (x >= 344 => y >= 410) /\ (x <= 344 => y <= 410)
         /\ (x >= 410 => y >= 469) /\ (x <= 410 => y <= 469)
         /\ (x >= 469 => y > 500)
  <1>1. y \in Int /\ 10 * y >= 1000 + 9 * x /\ 10 * y <= 1009 + 9 * x
    BY DEF Smooth
  <1> QED BY <1>1

(* The table of Init is what the monitor computes: every entry is the one  *)
(* before it after one more error.                                         *)
LEMMA StreakIsComputed ==
  \A k \in 1..Trip : Streak[k + 1] = Smooth(1000, Streak[k])
  <1> SUFFICES ASSUME NEW k \in 1..7 PROVE Streak[k + 1] = Smooth(1000, Streak[k])
    BY DEF Trip
  <1>1. k = 1 \/ k = 2 \/ k = 3 \/ k = 4 \/ k = 5 \/ k = 6 \/ k = 7
    OBVIOUS
  <1> QED BY <1>1 DEF Streak, Smooth

(* The threshold is met from both sides: whatever a provider's error rate  *)
(* was, seven errors in a row take it out of service, and six are not      *)
(* enough for one that had none (router.go:79-86, 102).                    *)
THEOREM SevenErrorsSuffice ==
  ASSUME NEW e0 \in 0..1000, NEW e1, NEW e2, NEW e3, NEW e4, NEW e5, NEW e6, NEW e7,
         e1 = Smooth(1000, e0), e2 = Smooth(1000, e1), e3 = Smooth(1000, e2),
         e4 = Smooth(1000, e3), e5 = Smooth(1000, e4), e6 = Smooth(1000, e5),
         e7 = Smooth(1000, e6)
  PROVE  e7 > 500 /\ (e0 = 0 => e6 <= 500)
  <1>1. e1 \in Nat /\ e1 <= 1000 /\ e1 >= 100 /\ (e0 = 0 => e1 <= 100)
    BY ErrorStep
  <1>2. e2 \in Nat /\ e2 <= 1000 /\ e2 >= 190 /\ (e0 = 0 => e2 <= 190)
    BY <1>1, ErrorStep
  <1>3. e3 \in Nat /\ e3 <= 1000 /\ e3 >= 271 /\ (e0 = 0 => e3 <= 271)
    BY <1>2, ErrorStep
  <1>4. e4 \in Nat /\ e4 <= 1000 /\ e4 >= 344 /\ (e0 = 0 => e4 <= 344)
    BY <1>3, ErrorStep
  <1>5. e5 \in Nat /\ e5 <= 1000 /\ e5 >= 410 /\ (e0 = 0 => e5 <= 410)
    BY <1>4, ErrorStep
  <1>6. e6 \in Nat /\ e6 <= 1000 /\ e6 >= 469 /\ (e0 = 0 => e6 <= 469)
    BY <1>5, ErrorStep
  <1>7. e7 > 500
    BY <1>6, ErrorStep
  <1> QED BY <1>6, <1>7
=============================================================================
