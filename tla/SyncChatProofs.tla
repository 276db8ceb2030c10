--------------------------- MODULE SyncChatProofs ----------------------------
(***************************************************************************)
(* The safety properties of SyncChat for any number of retries.            *)
(***************************************************************************)
EXTENDS SyncChat, TLAPS

(* A late attempt was begun by a client that left while the goroutine stood*)
(* before the call; after it, no further attempt can start.                *)
LateInv ==
    /\ late <= 1
    /\ late > 0 => gone /\ pc \notin {"attempt", "backoff"}

(* The loop goes on only while attempts are left. *)
RetryInv == pc = "backoff" => i < MaxRetries

(* What the request has done by the time it stands at pc. *)
EffectInv ==
    /\ pc \in {"attempt", "upstream", "failed", "backoff", "error", "success"}
         => /\ recorded = "nothing" /\ answer = "nothing"
            /\ ~logged /\ ~shown /\ stored = {}
    /\ pc = "reject" => /\ recorded = "error" /\ answer = "nothing"
                        /\ ~logged /\ ~shown /\ stored = {}
    /\ pc \in {"log", "broadcast", "set", "write"}
         => recorded = "success" /\ answer = "nothing"
    /\ OutcomeIsConsistent

IInv == TypeOK /\ LateInv /\ RetryInv /\ EffectInv
-----------------------------------------------------------------------------
LEMMA InitEstablishes == Init => IInv
  <1> SUFFICES ASSUME Init PROVE IInv
    OBVIOUS
  <1>1. gone \in BOOLEAN /\ logged \in BOOLEAN /\ shown \in BOOLEAN
    BY Zenon DEF Init
  <1>2. TypeOK
    BY <1>1, RetryAssumption DEF Init, TypeOK
  <1>3. LateInv /\ RetryInv
    BY DEF Init, LateInv, RetryInv
  <1>4. EffectInv
    BY DEF Init, EffectInv, OutcomeIsConsistent
  <1> QED
    BY <1>2, <1>3, <1>4 DEF IInv

(* The calls of the provider and what lies between them have no effect but *)
(* on the loop.                                                            *)
LEMMA ChatKeeps ==
  ASSUME IInv,
         \/ ClientLeaves \/ Attempt \/ UpstreamAnswers \/ UpstreamFails
         \/ AfterFailure \/ BackoffEnds \/ BackoffCancelled
  PROVE  IInv'
  <1> USE RetryAssumption
  <1> USE DEF ClientLeaves, Attempt, UpstreamAnswers, UpstreamFails,
              AfterFailure, LastAttempt, Abandoned, BackoffEnds, NextAttempt,
              BackoffCancelled, chatVars, effectVars
  <1>1. TypeOK'
    <2>1. gone' \in BOOLEAN
      BY Zenon DEF IInv, TypeOK
    <2>2. i' \in 0..MaxRetries /\ late' \in Nat
      BY DEF IInv, TypeOK, RetryInv
    <2>3. pc' \in {"attempt", "upstream", "failed", "backoff", "error",
                   "reject", "success", "log", "broadcast", "set", "write", "done"}
      BY DEF IInv, TypeOK
    <2>4. UNCHANGED effectVars
      OBVIOUS
    <2> QED
      BY <2>1, <2>2, <2>3, <2>4 DEF IInv, TypeOK
  <1>2. LateInv'
    BY DEF IInv, TypeOK, LateInv
  <1>3. RetryInv'
    BY DEF IInv, TypeOK, RetryInv
  <1>4. EffectInv'
    BY DEF IInv, TypeOK, EffectInv, OutcomeIsConsistent
  <1> QED
    BY <1>1, <1>2, <1>3, <1>4 DEF IInv

(* The steps of handleSync after Chat returned. *)
LEMMA HandlerKeeps ==
  ASSUME IInv,
         \/ UpstreamPanics \/ RecordError \/ Reject \/ RecordSuccess
         \/ Log \/ Broadcast \/ SetCache \/ Write
  PROVE  IInv'
  <1>1. TypeOK'
    BY DEF IInv, TypeOK, UpstreamPanics, RecordError, Reject, ReturnRejected,
           RecordSuccess, Log, Broadcast, SetCache, Write
  <1>2. LateInv' /\ RetryInv'
    BY DEF IInv, LateInv, RetryInv, UpstreamPanics, RecordError, Reject,
           ReturnRejected, RecordSuccess, Log, Broadcast, SetCache, Write
  <1>3. EffectInv'
    <2>0. CASE UpstreamPanics \/ RecordError
      BY <2>0 DEF IInv, EffectInv, OutcomeIsConsistent, UpstreamPanics, RecordError
    <2>1. CASE Reject
      BY <2>1 DEF IInv, EffectInv, OutcomeIsConsistent, Reject, ReturnRejected
    <2>2. CASE RecordSuccess
      BY <2>2 DEF IInv, EffectInv, OutcomeIsConsistent, RecordSuccess
    <2>3. CASE Log \/ Broadcast \/ SetCache
      <3>1. recorded = "success" /\ answer = "nothing"
        BY <2>3 DEF IInv, EffectInv, Log, Broadcast, SetCache
      <3>2. UNCHANGED <<recorded, answer>> /\ pc' \in {"broadcast", "set", "write"}
        BY <2>3 DEF Log, Broadcast, SetCache
      <3> QED
        BY <3>1, <3>2 DEF EffectInv, OutcomeIsConsistent
    <2>4. CASE Write
      BY <2>4 DEF IInv, EffectInv, OutcomeIsConsistent, Write
    <2> QED
      BY <2>0, <2>1, <2>2, <2>3, <2>4
  <1> QED
    BY <1>1, <1>2, <1>3 DEF IInv

LEMMA NextKeeps == IInv /\ [Next]_vars => IInv'
  <1> SUFFICES ASSUME IInv, [Next]_vars PROVE IInv'
    OBVIOUS
  <1>1. CASE UNCHANGED vars
    BY <1>1 DEF IInv, TypeOK, LateInv, RetryInv, EffectInv, OutcomeIsConsistent,
                vars, chatVars, effectVars
  <1>2. CASE Next
    BY <1>2, ChatKeeps, HandlerKeeps DEF Next, Goroutine
  <1> QED
    BY <1>1, <1>2

LEMMA Inductive == Spec => []IInv
  BY InitEstablishes, NextKeeps, PTL DEF Spec

(* The variables of a request stay well typed; Chat's loop variable never  *)
(* passes MaxRetries.                                                      *)
THEOREM TypeCorrect == Spec => []TypeOK
  <1>1. IInv => TypeOK
    BY DEF IInv
  <1> QED
    BY <1>1, Inductive, PTL

(* A client that has left costs at most one more call of the provider,     *)
(* wherever Chat's loop stood when it left (resilient.go:49-61).           *)
THEOREM OneLateAttempt == Spec => []AtMostOneLateAttempt
  <1>1. IInv => AtMostOneLateAttempt
    BY DEF IInv, LateInv, AtMostOneLateAttempt
  <1> QED
    BY <1>1, Inductive, PTL

(* Monitor, log, broadcast, cache and answer of handleSync agree at every  *)
(* moment (handler.go:129-159).                                            *)
THEOREM ConsistentOutcome == Spec => []OutcomeIsConsistent
  <1>1. IInv => OutcomeIsConsistent
    BY DEF IInv, EffectInv
  <1> QED
    BY <1>1, Inductive, PTL
-----------------------------------------------------------------------------
(* How far the goroutine is from its end at most: the attempts that are    *)
(* left, each of them four steps, and its place in the present one or in   *)
(* the handler after it.                                                   *)
Place ==
    CASE pc = "attempt"  -> 11 [] pc = "upstream"  -> 10 [] pc = "failed" -> 9
      [] pc = "backoff"  -> 8  [] pc = "success"   -> 6  [] pc = "log"    -> 5
      [] pc = "broadcast" -> 4 [] pc = "set"       -> 3  [] pc = "write"  -> 2
      [] pc = "error"    -> 2  [] pc = "reject"    -> 1  [] pc = "done"   -> 0

StepsLeft == 4 * (MaxRetries - i) + Place

LEMMA StepsLeftRange ==
  ASSUME TypeOK
  PROVE  i \in Int /\ Place \in 0..11 /\ StepsLeft \in 0..(4 * MaxRetries + 11)
  <1>1. i \in 0..MaxRetries /\ MaxRetries \in Nat
    BY RetryAssumption DEF TypeOK
  <1>2. Place \in 0..11
    BY DEF TypeOK, Place
  <1> QED
    BY <1>1, <1>2 DEF StepsLeft

(* A request takes at most 4 MaxRetries + 11 steps, whoever leaves and     *)
(* whatever fails: each step of its goroutine brings it nearer to its end, *)
(* and no other step sets it back (resilient.go:37-64, handler.go:127-160).*)
(* This is what RequestEnds needs besides a scheduler.                     *)
THEOREM RequestAdvances ==
  Spec => [][/\ StepsLeft \in 0..(4 * MaxRetries + 11)
             /\ Goroutine => StepsLeft' < StepsLeft
             /\ ~Goroutine => StepsLeft' = StepsLeft]_vars
  <1>1. IInv /\ IInv' /\ [Next]_vars =>
          [/\ StepsLeft \in 0..(4 * MaxRetries + 11)
           /\ Goroutine => StepsLeft' < StepsLeft
           /\ ~Goroutine => StepsLeft' = StepsLeft]_vars
    <2> SUFFICES ASSUME IInv, IInv', Next
                 PROVE  /\ StepsLeft \in 0..(4 * MaxRetries + 11)
                        /\ Goroutine => StepsLeft' < StepsLeft
                        /\ ~Goroutine => StepsLeft' = StepsLeft
      OBVIOUS
    <2>1. StepsLeft \in 0..(4 * MaxRetries + 11)
      BY StepsLeftRange DEF IInv
    <2>2. ASSUME Goroutine PROVE StepsLeft' < StepsLeft
      <3>1. i \in Int /\ i' \in Int /\ MaxRetries \in Nat
        BY RetryAssumption DEF IInv, TypeOK
      <3>2. CASE BackoffEnds
        <4>1. i' = i + 1 /\ Place = 8 /\ Place' = 11
          BY <3>2 DEF BackoffEnds, NextAttempt, Place
        <4> QED
          BY <3>1, <4>1 DEF StepsLeft
      <3>3. CASE ~BackoffEnds
        <4>1. i' = i
          BY <2>2, <3>3 DEF Goroutine, Attempt, UpstreamAnswers, UpstreamFails,
             UpstreamPanics, AfterFailure, BackoffCancelled, RecordError, Reject,
             RecordSuccess, Log, Broadcast, SetCache, Write
        <4>2. Place' < Place
          <5>1. CASE Attempt
            BY <5>1 DEF Attempt, Place
          <5>2. CASE UpstreamAnswers \/ UpstreamFails \/ UpstreamPanics
            BY <5>2 DEF UpstreamAnswers, UpstreamFails, UpstreamPanics, Place
          <5>3. CASE AfterFailure
            <6>1. pc = "failed" /\ pc' \in {"error", "backoff"}
              BY <5>3 DEF AfterFailure
            <6> QED
              BY <6>1 DEF Place
          <5>4. CASE BackoffCancelled \/ RecordError \/ Reject \/ RecordSuccess
            BY <5>4 DEF BackoffCancelled, RecordError, Reject, ReturnRejected,
               RecordSuccess, Place
          <5>5. CASE Log \/ Broadcast \/ SetCache \/ Write
            <6>1. \/ pc = "log" /\ pc' = "broadcast"
                  \/ pc = "broadcast" /\ pc' = "set"
                  \/ pc = "set" /\ pc' = "write"
                  \/ pc = "write" /\ pc' = "done"
              BY <5>5 DEF Log, Broadcast, SetCache, Write
            <6> QED
              BY <6>1 DEF Place
          <5> QED
            BY <2>2, <3>3, <5>1, <5>2, <5>3, <5>4, <5>5 DEF Goroutine
        <4>3. Place \in Int /\ Place' \in Int
          BY DEF IInv, TypeOK, Place
        <4> DEFINE p == Place
                   q == Place'
        <4>4. StepsLeft = 4 * (MaxRetries - i) + p /\ StepsLeft' = 4 * (MaxRetries - i) + q
          BY <4>1 DEF StepsLeft
        <4>5. p \in Int /\ q \in Int /\ q < p
          BY <4>2, <4>3
        <4> HIDE DEF p, q
        <4> QED
          BY <3>1, <4>4, <4>5
      <3> QED
        BY <3>2, <3>3
    <2>3. ASSUME ~Goroutine PROVE StepsLeft' = StepsLeft
      BY <2>3 DEF Next, ClientLeaves, chatVars, StepsLeft, Place
    <2> QED
      BY <2>1, <2>2, <2>3
  <1> QED
    BY <1>1, Inductive, PTL DEF Spec
=============================================================================
