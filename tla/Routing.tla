------------------------------- MODULE Routing -------------------------------
(***************************************************************************)
(* Provider health and selection: the EWMA monitor (internal/router/       *)
(* router.go), LatencyAwareSelector (selector.go), the records that        *)
(* handleSync and handleStream make (handler.go) and the administrator's   *)
(* ForceFailure (admin.go). Requests run concurrently; every call of the   *)
(* monitor takes a provider's lock for itself, so a selection reads the    *)
(* providers one after the other while other requests change them.         *)
(*                                                                         *)
(* errorRate is kept in thousandths and latencyEWMA in milliseconds, both  *)
(* rounded up; the difference to the float64 stays below ten units, and a  *)
(* latency that is known stays different from 0, as in the code.           *)
(***************************************************************************)
EXTENDS Integers, Sequences

CONSTANTS Providers,   \* the names of h.providers, in the order of main.go
          Requests,    \* request goroutines that run at the same time
          Allowlists,  \* the ProviderAllowlists of the tenants; {} allows all
          Latencies,   \* measured latencies in ms
          MaxLatency,  \* bound of Latencies
          Past,        \* Past[p]: errors of p in a row before the first request
          Traffic      \* bound: requests that arrive; 0 is no bound

Names == {Providers[k] : k \in DOMAIN Providers}
Trip  == 7   \* with alpha = 0.1 the seventh error in a row passes 0.5

ASSUME RoutingAssumption ==
    /\ Len(Providers) \in Nat /\ Providers \in [1..Len(Providers) -> Names]
    /\ MaxLatency \in Nat /\ Latencies \subseteq 0..MaxLatency
    /\ Past \in [Names -> 0..Trip]
    /\ Traffic \in Nat

VARIABLES err,      \* providerMetrics.errorRate
          lat,      \* providerMetrics.latencyEWMA, 0 before the first sample
          req,      \* the request goroutines inside Select and the call
          arrived,  \* requests so far
          calm,     \* history: requests during whose selection no metric changed
          errors,   \* history: errors recorded per provider, counted up to Trip
          forced    \* history: providers an administrator forced to fail

metrics == <<err, lat>>
history == <<errors, forced>>
vars    == <<metrics, req, arrived, calm, history>>

(* li holds the first latency of a comparison, i and j are the loop        *)
(* variables of the sort, next the provider to be scanned.                 *)
Request == [pc : {"idle", "scan", "sort", "compare", "call", "refused"},
            allow : SUBSET UNION Allowlists, stream : BOOLEAN,
            next : Nat, cand : Seq(Names), i : Nat, j : Nat,
            li : 0..(MaxLatency + 1)]

TypeOK ==
    /\ err \in [Names -> 0..1000]
    /\ lat \in [Names -> 0..MaxLatency]
    /\ req \in [Requests -> Request]
    /\ arrived \in Nat
    /\ calm \subseteq Requests
    /\ errors \in [Names -> 0..Trip]
    /\ forced \subseteq Names

Idle == [pc |-> "idle", allow |-> {}, stream |-> FALSE, next |-> 1,
         cand |-> <<>>, i |-> 2, j |-> 2, li |-> 0]

(* The error rate after 0, 1, ..., Trip errors in a row. *)
Streak == <<0, 100, 190, 271, 344, 410, 469, 523>>

(* A monitor that has seen nothing but the errors of Past. *)
Init ==
    /\ err = [p \in Names |-> Streak[Past[p] + 1]]
    /\ lat = [p \in Names |-> 0]
    /\ req = [r \in Requests |-> Idle]
    /\ arrived = 0
    /\ calm = {}
    /\ errors = Past
    /\ forced = {}
-----------------------------------------------------------------------------
(* The monitor. *)
GetState(p) ==
    IF err[p] > 500 THEN "unhealthy"
    ELSE IF err[p] > 200 \/ lat[p] > 5000 THEN "degraded" ELSE "healthy"

(* Mutant: alpha = 0.2. *)
SmoothFast(sample, average) == (2 * sample + 8 * average + 9) \div 10

(* alpha * sample + (1 - alpha) * average with alpha = 0.1, rounded up. *)
Smooth(sample, average) == (sample + 9 * average + 9) \div 10

RecordSuccess(p, ms) ==
    /\ lat' = [lat EXCEPT ![p] = IF @ = 0 THEN ms ELSE Smooth(ms, @)]
    /\ err' = [err EXCEPT ![p] = Smooth(0, @)]
    /\ calm' = {}
    /\ UNCHANGED history

(* The error rate after one more error; mutant: errors add up. *)
WorseAdds(p) == err[p] + 100
Worse(p) == Smooth(1000, err[p])

RecordError(p) ==
    /\ err' = [err EXCEPT ![p] = Worse(p)]
    /\ errors' = [errors EXCEPT ![p] = IF @ = Trip THEN Trip ELSE @ + 1]
    /\ calm' = {}
    /\ UNCHANGED <<lat, forced>>

(* failProvider of the admin API. *)
ForceFailure(p) ==
    /\ err' = [err EXCEPT ![p] = 1000]
    /\ forced' = forced \cup {p}
    /\ calm' = {}
    /\ UNCHANGED <<lat, req, arrived, errors>>

(* An unknown latency compares as math.MaxFloat64. *)
GetLatency(p) == IF lat[p] = 0 THEN MaxLatency + 1 ELSE lat[p]
-----------------------------------------------------------------------------
(* A request passes the checks before routing and calls Select. *)
Arrive(r) ==
    /\ req[r].pc \in {"idle", "refused"}
    /\ Traffic = 0 \/ arrived < Traffic
    /\ arrived' = IF Traffic = 0 THEN 0 ELSE arrived + 1
    /\ \E a \in Allowlists, s \in BOOLEAN :
           req' = [req EXCEPT ![r] =
                       [Idle EXCEPT !.pc = "scan", !.allow = a, !.stream = s]]
    /\ calm' = calm \cup {r}
    /\ UNCHANGED <<metrics, history>>

(* A list may name providers that do not exist. *)
Allowed(r, p) == req[r].allow = {} \/ p \in req[r].allow

(* The selector's filter; mutant: it is not applied. *)
Unfiltered(p) == TRUE
Usable(p) == GetState(p) # "unhealthy"

Scan(r) ==
    LET p == Providers[req[r].next] IN
    /\ req[r].pc = "scan"
    /\ req[r].next <= Len(Providers)
    /\ req' = [req EXCEPT
                 ![r].next = @ + 1,
                 ![r].cand = IF Allowed(r, p) /\ Usable(p) THEN Append(@, p) ELSE @]
    /\ UNCHANGED <<metrics, arrived, calm, history>>

(* Mutant: without a candidate the scan begins again. *)
ScanAgain(r) ==
    /\ req[r].pc = "scan"
    /\ req[r].next > Len(Providers)
    /\ req' = [req EXCEPT ![r].pc = IF req[r].cand = <<>> THEN "scan" ELSE "sort",
                          ![r].next = 1]
    /\ UNCHANGED <<metrics, arrived, calm, history>>

(* No candidate: Select returns nil, the answer is 503. *)
ScanEnd(r) ==
    /\ req[r].pc = "scan"
    /\ req[r].next > Len(Providers)
    /\ req' = [req EXCEPT ![r].pc = IF req[r].cand = <<>> THEN "refused"
                                                          ELSE "sort"]
    /\ UNCHANGED <<metrics, arrived, calm, history>>

(* sort.Slice: at most twelve elements are sorted by insertion. less reads *)
(* the two latencies under two locks.                                      *)
LoadLeft(r) ==
    /\ req[r].pc = "sort"
    /\ req[r].i <= Len(req[r].cand)
    /\ req' = [req EXCEPT ![r].pc = "compare",
                          ![r].li = GetLatency(req[r].cand[req[r].j])]
    /\ UNCHANGED <<metrics, arrived, calm, history>>

(* The inner loop goes on after a swap at j; mutant: an element moves by   *)
(* one place at most.                                                      *)
GoesOnNever(j) == FALSE
GoesOn(j) == j > 2

Compare(r) ==
    LET c == req[r].cand  i == req[r].i  j == req[r].j
        less == req[r].li < GetLatency(c[j - 1])
        more == less /\ GoesOn(j)
    IN
    /\ req[r].pc = "compare"
    /\ req' = [req EXCEPT
                 ![r].pc = "sort",
                 ![r].cand = IF less THEN [c EXCEPT ![j] = c[j - 1], ![j - 1] = c[j]]
                                     ELSE c,
                 ![r].i = IF more THEN i ELSE i + 1,
                 ![r].j = IF more THEN j - 1 ELSE i + 1]
    /\ UNCHANGED <<metrics, arrived, calm, history>>

(* candidates[0] is called. *)
Dispatch(r) ==
    /\ req[r].pc = "sort"
    /\ req[r].i > Len(req[r].cand)
    /\ req' = [req EXCEPT ![r].pc = "call"]
    /\ UNCHANGED <<metrics, arrived, calm, history>>

Chosen(r) == req[r].cand[1]

Return(r) ==
    /\ req[r].pc = "call"
    /\ req' = [req EXCEPT ![r] = Idle]
    /\ UNCHANGED arrived

(* handleSync records the latency of a success, handleStream nothing. *)
Succeed(r) ==
    /\ Return(r)
    /\ IF req[r].stream THEN UNCHANGED <<metrics, calm, history>>
       ELSE \E ms \in Latencies : RecordSuccess(Chosen(r), ms)

(* The provider fails or the client goes away. handleSync records either as*)
(* an error of the provider; handleStream does unless the stream had       *)
(* delivered its first chunk or its select took another case (StreamRelay).*)
Fail(r) ==
    /\ Return(r)
    /\ \/ RecordError(Chosen(r))
       \/ req[r].stream /\ UNCHANGED <<metrics, calm, history>>

Step(r) == \/ Scan(r) \/ ScanEnd(r) \/ LoadLeft(r) \/ Compare(r) \/ Dispatch(r)
           \/ Succeed(r) \/ Fail(r)

Next ==
    \/ \E r \in Requests : Arrive(r) \/ Step(r)
    \/ \E p \in Names : ForceFailure(p)

(* Requests keep coming and their goroutines run. *)
Fairness == \A r \in Requests : WF_vars(Arrive(r)) /\ WF_vars(Step(r))

Spec     == Init /\ [][Next]_vars
FairSpec == Spec /\ Fairness
-----------------------------------------------------------------------------
(* What Select promises, as a definition: of the allowed providers that are*)
(* not unhealthy the one with the least latency, the first on a tie.       *)
Eligible(r) == {k \in DOMAIN Providers : /\ Allowed(r, Providers[k])
                                         /\ GetState(Providers[k]) # "unhealthy"}
Best(r) == CHOOSE k \in Eligible(r) :
               \A m \in Eligible(r) :
                   \/ GetLatency(Providers[k]) < GetLatency(Providers[m])
                   \/ /\ GetLatency(Providers[k]) = GetLatency(Providers[m])
                      /\ k <= m

(* The scan and the insertion sort over live latencies, interleaved with   *)
(* other requests, come to the best provider whenever no metric changed    *)
(* meanwhile, and to nil only when there is none (selector.go:26-60).      *)
SelectsBest ==
    \A r \in calm :
        /\ req[r].pc = "call" => Eligible(r) # {} /\ Chosen(r) = Providers[Best(r)]
        /\ req[r].pc = "refused" => Eligible(r) = {}

(* What a selection has still to do: its stage, then the providers to scan *)
(* or the elements to insert, the places the present one can still move,   *)
(* and whether its next comparison has begun.                              *)
Remaining(q) ==
    << IF q.pc = "scan" THEN 2 ELSE IF q.pc \in {"sort", "compare"} THEN 1 ELSE 0,
       IF q.pc = "scan" THEN 1 + Len(Providers) - q.next
       ELSE IF q.pc \in {"sort", "compare"} THEN 1 + Len(q.cand) - q.i ELSE 0,
       q.j,
       IF q.pc = "sort" THEN 1 ELSE 0 >>

Lower(a, b) == \E k \in 1..4 : a[k] < b[k] /\ \A l \in 1..(k - 1) : a[l] = b[l]

(* Select ends. Its comparisons read latencies that other requests change  *)
(* meanwhile, so that less may contradict itself (selector.go:53-58); still*)
(* no step of anybody sets a running selection back, and what remains of it*)
(* is bounded from below.                                                  *)
SelectionProgress ==
    [][\A r \in Requests :
          req[r].pc \in {"scan", "sort", "compare"} =>
              /\ Remaining(req[r]) \in Nat \X Nat \X Nat \X Nat
              /\ req'[r] # req[r] => Lower(Remaining(req'[r]), Remaining(req[r]))]_vars

(* A provider is taken out of service only by an administrator or by at    *)
(* least seven recorded errors, however successes, errors and other        *)
(* requests interleave (router.go:79-86, 102): a single outlier, or six in *)
(* a row, never does.                                                      *)
TripNeedsSevenErrors ==
    \A p \in Names \ forced : GetState(p) = "unhealthy" => errors[p] = Trip

(* r can still bring a record for p: p is among its candidates or called.  *)
Holds(r, p) ==
    /\ req[r].pc \in {"scan", "sort", "compare", "call"}
    /\ \E k \in DOMAIN req[r].cand : req[r].cand[k] = p

(* A selection works with health it read earlier, and its sort with        *)
(* latencies that change, but whatever is recorded meanwhile, a request    *)
(* comes to hold a provider only at a moment when that is not unhealthy and*)
(* the tenant may use it (selector.go:30-59): the sort brings in nobody the*)
(* filter kept out.                                                        *)
OnlyUsableIsHeld ==
    [][\A r \in Requests, p \in Names :
          ~Holds(r, p) /\ Holds(r, p)' =>
              Allowed(r, p) /\ GetState(p) # "unhealthy"]_vars

(* README.md:56, "Active and passive health monitoring keeps the provider  *)
(* registry up-to-date": in a gateway that keeps receiving requests, a     *)
(* provider taken out of service by its errors does not stay out for ever. *)
ReturnsToService ==
    \A p \in Names :
        GetState(p) = "unhealthy" ~> GetState(p) # "unhealthy" \/ p \in forced
=============================================================================
