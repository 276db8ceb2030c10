------------------------------- MODULE SyncChat -------------------------------
(***************************************************************************)
(* One non-streaming chat request after routing: handleSync                *)
(* (internal/router/handler.go) around ResilientProvider.Chat              *)
(* (internal/provider/resilient.go). The client may leave at any step,     *)
(* which cancels the request's context.                                    *)
(***************************************************************************)
EXTENDS Integers

CONSTANT MaxRetries   \* ResilientProvider.maxRetries

ASSUME RetryAssumption == MaxRetries \in Nat

VARIABLES gone,      \* r.Context() is done: the client left
          pc,        \* where the request's goroutine stands
          i,         \* Chat's loop variable
          recorded,  \* what the health monitor was told
          logged,    \* the event is with the Kafka writer
          shown,     \* the event was published to the dashboard
          stored,    \* tiers of the cache that hold the response
          answer,    \* what the client got
          late       \* history: attempts begun after the client left

chatVars   == <<pc, i>>
effectVars == <<recorded, logged, shown, stored, answer>>
vars       == <<gone, chatVars, effectVars, late>>

TypeOK ==
    /\ gone \in BOOLEAN
    /\ pc \in {"attempt", "upstream", "failed", "backoff", "error", "reject",
               "success", "log", "broadcast", "set", "write", "done"}
    /\ i \in 0..MaxRetries
    /\ recorded \in {"nothing", "success", "error"}
    /\ logged \in BOOLEAN /\ shown \in BOOLEAN
    /\ stored \in SUBSET {"l1", "l2"}
    /\ answer \in {"nothing", "ok", "502", "500"}
    /\ late \in Nat

Init ==
    /\ gone = FALSE
    /\ pc = "attempt"
    /\ i = 0
    /\ recorded = "nothing"
    /\ logged = FALSE /\ shown = FALSE
    /\ stored = {}
    /\ answer = "nothing"
    /\ late = 0
-----------------------------------------------------------------------------
ClientLeaves ==
    /\ ~gone /\ pc # "done"
    /\ gone' = TRUE
    /\ UNCHANGED <<chatVars, effectVars, late>>

(* p.base.Chat(tCtx, req) is called. *)
Attempt ==
    /\ pc = "attempt"
    /\ pc' = "upstream"
    /\ late' = IF gone THEN late + 1 ELSE late
    /\ UNCHANGED <<gone, i, effectVars>>

(* A response may win against the cancellation. *)
UpstreamAnswers ==
    /\ pc = "upstream"
    /\ pc' = "success"
    /\ UNCHANGED <<gone, i, effectVars, late>>

(* A 4xx, a 5xx, the attempt's timeout or the cancellation: Chat does not  *)
(* tell them apart.                                                        *)
UpstreamFails ==
    /\ pc = "upstream"
    /\ pc' = "failed"
    /\ UNCHANGED <<gone, i, effectVars, late>>

(* A response without choices, or a request without messages, is indexed   *)
(* out of range: the panic leaves Chat and handleSync and is answered by   *)
(* the Recoverer of main.go:129.                                           *)
UpstreamPanics ==
    /\ pc = "upstream"
    /\ answer' = "500"
    /\ pc' = "done"
    /\ UNCHANGED <<gone, i, recorded, logged, shown, stored, late>>

(* i == p.maxRetries *)
LastAttempt == i = MaxRetries

(* ctx.Err() != nil; mutant: no check. *)
AbandonedUnchecked == FALSE
Abandoned == gone

(* The check of ctx.Err() and of the attempts left. *)
AfterFailure ==
    /\ pc = "failed"
    /\ pc' = IF Abandoned \/ LastAttempt THEN "error" ELSE "backoff"
    /\ UNCHANGED <<gone, i, effectVars, late>>

(* i++; mutant: the attempts are not counted. *)
SameAttempt == UNCHANGED i
NextAttempt == i' = i + 1

(* select: if both the timer and ctx are ready, either is taken. *)
BackoffEnds ==
    /\ pc = "backoff"
    /\ pc' = "attempt"
    /\ NextAttempt
    /\ UNCHANGED <<gone, effectVars, late>>

BackoffCancelled ==
    /\ pc = "backoff"
    /\ gone
    /\ pc' = "error"
    /\ UNCHANGED <<gone, i, effectVars, late>>
-----------------------------------------------------------------------------
(* handleSync, the error path. *)
RecordError ==
    /\ pc = "error"
    /\ recorded' = "error"
    /\ pc' = "reject"
    /\ UNCHANGED <<gone, i, logged, shown, stored, answer, late>>

(* The return after the 502; mutant: it is missing. *)
FallThrough == pc' = "log"
ReturnRejected == pc' = "done"

Reject ==
    /\ pc = "reject"
    /\ answer' = "502"
    /\ ReturnRejected
    /\ UNCHANGED <<gone, i, recorded, logged, shown, stored, late>>

RecordSuccess ==
    /\ pc = "success"
    /\ recorded' = "success"
    /\ pc' = "log"
    /\ UNCHANGED <<gone, i, logged, shown, stored, answer, late>>

(* The writer is asynchronous and its error is ignored. *)
Log ==
    /\ pc = "log"
    /\ logged' \in BOOLEAN
    /\ pc' = "broadcast"
    /\ UNCHANGED <<gone, i, recorded, shown, stored, answer, late>>

(* Publishing is synchronous and fails when ctx is done or Redis is down;  *)
(* the error is ignored.                                                   *)
Broadcast ==
    /\ pc = "broadcast"
    /\ shown' \in {FALSE, ~gone}
    /\ pc' = "set"
    /\ UNCHANGED <<gone, i, recorded, logged, stored, answer, late>>

(* cache.Set: the memory tier may drop it, Redis fails as above. *)
SetCache ==
    /\ pc = "set"
    /\ stored' \in SUBSET (IF gone THEN {"l1"} ELSE {"l1", "l2"})
    /\ pc' = "write"
    /\ UNCHANGED <<gone, i, recorded, logged, shown, answer, late>>

Write ==
    /\ pc = "write"
    /\ answer' = "ok"
    /\ pc' = "done"
    /\ UNCHANGED <<gone, i, recorded, logged, shown, stored, late>>

Goroutine ==
    \/ Attempt \/ UpstreamAnswers \/ UpstreamFails \/ UpstreamPanics
    \/ AfterFailure \/ BackoffEnds \/ BackoffCancelled \/ RecordError \/ Reject
    \/ RecordSuccess \/ Log \/ Broadcast \/ SetCache \/ Write

Next == ClientLeaves \/ Goroutine

Spec == Init /\ [][Next]_vars
-----------------------------------------------------------------------------
(* The check after a failure and the select of the backoff both look at    *)
(* the context, at different moments (resilient.go:49-61): a client that   *)
(* has left costs at most one more call of the provider.                   *)
AtMostOneLateAttempt == late <= 1

(* A provider's health is told the outcome the client sees, and a failed   *)
(* request is neither billed nor cached, whenever the client leaves; a     *)
(* request that panicked has left no trace (handler.go:125-159).           *)
OutcomeIsConsistent ==
    /\ logged \/ shown \/ stored # {} \/ answer = "ok" => recorded = "success"
    /\ answer = "502" => recorded = "error"
    /\ answer = "500" => recorded = "nothing"

(* A request is over after at most MaxRetries + 1 attempts. *)
RequestEnds == <>(pc = "done")
=============================================================================
