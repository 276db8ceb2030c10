-------------------------- MODULE TokenBucketProofs --------------------------
(***************************************************************************)
(* Proofs about TokenBucket, for any set of nodes and tenants, any integer *)
(* limits and any clock resolution.                                        *)
(***************************************************************************)
EXTENDS TokenBucket, TLAPS

(* What is known of a bucket the map does not hold yet, and the clock order*)
(* of the time stamps.                                                     *)
ClockInv ==
    \A k \in Keys :
        /\ last[k] <= now
        /\ since[k] <= last[k]
        /\ mark[k].at <= now
        /\ mark[k].count <= admitted[k]
        /\ k \notin created => admitted[k] = 0

(* A bucket that ever admitted belongs to a tenant with a positive limit,  *)
(* and such a bucket never goes negative.                                  *)
PositiveInv ==
    \A k \in created :
        /\ admitted[k] > 0 => Cap(k[2]) > 0
        /\ Cap(k[2]) > 0 => tokens[k] >= 0

(* WindowBound, measured at the last refill and with what is left in the   *)
(* bucket: the strengthening that is inductive.                            *)
WindowInv ==
    \A k \in created :
        admitted[k] > mark[k].count =>
            /\ mark[k].at <= last[k]
            /\ Token * (admitted[k] - mark[k].count) + tokens[k]
                 <= Cap(k[2]) + Rate(k[2]) * (last[k] - mark[k].at)

IInv == TypeOK /\ ClockInv /\ PositiveInv /\ AdmissionBound /\ WindowInv
-----------------------------------------------------------------------------
(* The arithmetic of the limits: the signs of Cap and Rate agree. *)
LEMMA LimitFacts ==
    ASSUME NEW t \in Tenants
    PROVE  /\ Token \in Nat /\ Token > 0
           /\ Cap(t) \in Int /\ Rate(t) \in Int /\ Quota(t) \in Int
           /\ Quota(t) > 0
           /\ Cap(t) > 0 => Rate(t) > 0
<1>1. Limit[t] \in Int /\ TicksPerMinute \in Nat /\ TicksPerMinute > 0
  BY LimitAssumption, ClockAssumption
<1>2. Token \in Nat /\ Token > 0
  BY <1>1 DEF Token
<1>3. Cap(t) \in Int /\ Rate(t) \in Int /\ Quota(t) \in Int
  BY <1>1, <1>2 DEF Cap, Rate, Quota
<1>4. Quota(t) > 0
  BY <1>1, <1>2 DEF Quota
<1>5. Limit[t] <= 0 => Cap(t) <= 0
  BY <1>1, <1>2 DEF Cap
<1>6. QED
  BY <1>1, <1>2, <1>3, <1>4, <1>5 DEF Rate

(* A refill over [a, c] is the refill over [a, b] and the one over [b, c]. *)
LEMMA RefillAdds ==
    ASSUME NEW r \in Int, NEW a \in Int, NEW b \in Int, NEW c \in Int
    PROVE  r * (b - a) + r * (c - b) = r * (c - a)
OBVIOUS

LEMMA RefillGrows ==
    ASSUME NEW r \in Int, NEW a \in Int, NEW b \in Int, a <= b, r > 0
    PROVE  r * a <= r * b
OBVIOUS

(* A token more given out is a token's worth of units more. *)
LEMMA OneMoreToken ==
    ASSUME NEW c \in Int, NEW a \in Int
    PROVE  c * (a + 1) = c * a + c
OBVIOUS

LEMMA KeyParts == \A k \in Keys : k[2] \in Tenants
BY DEF Keys

(* What Allow computes under the lock, before it decides. *)
LEMMA RefillFacts ==
    ASSUME IInv, NEW k \in Keys
    PROVE  /\ Refilled(k) \in Int
           /\ Refilled(k) <= Cap(k[2])
           /\ Refilled(k) <= Held(k) + Rate(k[2]) * (now - SeenAt(k))
           /\ Cap(k[2]) > 0 => Refilled(k) >= 0
<1> DEFINE t == k[2]
<1>1. t \in Tenants
  BY KeyParts
<1>2. /\ Held(k) \in Int /\ SeenAt(k) \in Int /\ now \in Int
      /\ SeenAt(k) <= now
      /\ Cap(t) > 0 => Held(k) >= 0
  BY <1>1, LimitFacts DEF Held, SeenAt, IInv, TypeOK, ClockInv, PositiveInv
<1>3. Cap(t) > 0 => Rate(t) * (now - SeenAt(k)) >= 0
  <2>1. CASE Cap(t) > 0
    <3>1. Rate(t) * 0 <= Rate(t) * (now - SeenAt(k))
      BY <1>1, <1>2, <2>1, LimitFacts, RefillGrows
    <3>2. QED BY <1>1, <3>1, LimitFacts
  <2>2. QED BY <2>1
<1>4. Rate(t) * (now - SeenAt(k)) \in Int
  BY <1>1, <1>2, LimitFacts
<1> HIDE DEF t
<1>5. QED
  BY <1>1, <1>2, <1>3, <1>4, LimitFacts DEF Refilled, t

-----------------------------------------------------------------------------
(* Both outcomes of Allow on the bucket k: given = 1 when it took a token. *)
LEMMA AllowPreserves ==
    ASSUME IInv, NEW n \in Nodes, NEW t \in Tenants, NEW given \in {0, 1},
           NEW k, k = <<n, t>>,
           given = 1 => Refilled(k) >= Token,
           Store(k, Refilled(k) - given * Token),
           admitted' = [admitted EXCEPT ![k] = @ + given],
           UNCHANGED <<now, mark>>
    PROVE  /\ created' \subseteq Keys /\ tokens' \in [Keys -> Int]
           /\ \A j \in created' : tokens'[j] <= Cap(j[2])
           /\ last' \in [Keys -> 0..MaxTime] /\ since' \in [Keys -> 0..MaxTime]
           /\ admitted' \in [Keys -> Nat]
           /\ ClockInv' /\ PositiveInv' /\ AdmissionBound' /\ WindowInv'
<1> DEFINE r    == Refilled(k)
           left == r - given * Token
<1>1. k \in Keys /\ k[2] = t
  BY DEF Keys
<1>2. /\ Token \in Nat /\ Token > 0 /\ Cap(t) \in Int /\ Rate(t) \in Int
      /\ Quota(t) \in Int /\ Quota(t) > 0 /\ (Cap(t) > 0 => Rate(t) > 0)
  BY LimitFacts
<1>3. /\ r \in Int /\ r <= Cap(t) /\ r <= Held(k) + Rate(t) * (now - SeenAt(k))
      /\ Cap(t) > 0 => r >= 0
  BY <1>1, RefillFacts
<1>4. /\ left \in Int /\ left <= Cap(t)
      /\ given = 1 => Cap(t) > 0
      /\ Cap(t) > 0 => left >= 0
      /\ left + given * Token = r
  BY <1>2, <1>3
<1> HIDE DEF r, left
<1>5. /\ created' = created \cup {k}
      /\ tokens' = [tokens EXCEPT ![k] = left]
      /\ last' = [last EXCEPT ![k] = now]
      /\ since' = [since EXCEPT ![k] = IF k \in created THEN @ ELSE now]
      /\ admitted' = [admitted EXCEPT ![k] = @ + given]
      /\ now' = now /\ mark' = mark
  BY DEF Store, left, r
<1>6. TypeOK
  BY DEF IInv
<1>7. /\ created' \subseteq Keys /\ tokens' \in [Keys -> Int]
      /\ last' \in [Keys -> 0..MaxTime] /\ since' \in [Keys -> 0..MaxTime]
      /\ admitted' \in [Keys -> Nat]
  <2>1. created' \subseteq Keys /\ tokens' \in [Keys -> Int]
    BY <1>1, <1>4, <1>5, <1>6 DEF TypeOK
  <2>2. last' \in [Keys -> 0..MaxTime] /\ since' \in [Keys -> 0..MaxTime]
    BY <1>1, <1>5, <1>6 DEF TypeOK
  <2>3. admitted' \in [Keys -> Nat]
    <3>1. given \in Nat
      OBVIOUS
    <3>2. QED BY <1>1, <1>5, <1>6, <3>1 DEF TypeOK
  <2>4. QED BY <2>1, <2>2, <2>3
<1>8. /\ tokens'[k] = left /\ last'[k] = now
      /\ since'[k] = IF k \in created THEN since[k] ELSE now
      /\ admitted'[k] = admitted[k] + given
      /\ \A j \in Keys : j # k => /\ tokens'[j] = tokens[j]
                                  /\ last'[j] = last[j]
                                  /\ since'[j] = since[j]
                                  /\ admitted'[j] = admitted[j]
                                  /\ j \in created' <=> j \in created
  BY <1>1, <1>5, <1>6 DEF TypeOK
<1>9. /\ now \in Int /\ admitted[k] \in Nat /\ mark[k].at \in Int
      /\ mark[k].count \in Nat /\ last[k] \in Int /\ since[k] \in Int
      /\ tokens[k] \in Int
  BY <1>1, <1>6 DEF TypeOK
<1>10. \A j \in created' : tokens'[j] <= Cap(j[2])
  <2> SUFFICES ASSUME NEW j \in created' PROVE tokens'[j] <= Cap(j[2])
    OBVIOUS
  <2>1. CASE j = k
    BY <1>1, <1>4, <1>8, <2>1
  <2>2. CASE j # k
    BY <1>5, <1>6, <1>7, <1>8, <2>2 DEF TypeOK
  <2>3. QED BY <2>1, <2>2
<1>11. ClockInv'
  <2> SUFFICES ASSUME NEW j \in Keys
               PROVE  /\ last'[j] <= now /\ since'[j] <= last'[j]
                      /\ mark[j].at <= now /\ mark[j].count <= admitted'[j]
                      /\ j \notin created' => admitted'[j] = 0
    BY <1>5 DEF ClockInv
  <2>1. CASE j = k
    BY <1>1, <1>5, <1>8, <1>9, <2>1 DEF ClockInv, IInv
  <2>2. CASE j # k
    BY <1>8, <2>2 DEF ClockInv, IInv
  <2>3. QED BY <2>1, <2>2
<1>12. PositiveInv'
  <2> SUFFICES ASSUME NEW j \in created'
               PROVE  /\ admitted'[j] > 0 => Cap(j[2]) > 0
                      /\ Cap(j[2]) > 0 => tokens'[j] >= 0
    BY DEF PositiveInv
  <2>1. CASE j = k
    BY <1>1, <1>4, <1>8, <1>9, <2>1 DEF PositiveInv, ClockInv, IInv
  <2>2. CASE j # k
    BY <1>7, <1>8, <2>2 DEF PositiveInv, IInv
  <2>3. QED BY <2>1, <2>2
<1>13. Token * admitted'[k] + left = Token * admitted[k] + r
  BY <1>2, <1>3, <1>4, <1>8, <1>9, OneMoreToken
<1>14. AdmissionBound'
  <2>1. Token * admitted'[k] + left <= Quota(t) + Rate(t) * (now - since'[k])
    <3>1. CASE k \in created
      <4>1. Token * admitted[k] + tokens[k]
              <= Quota(t) + Rate(t) * (last[k] - since[k])
        BY <1>1, <3>1 DEF IInv, AdmissionBound
      <4>2. r <= tokens[k] + Rate(t) * (now - last[k])
        BY <1>3, <3>1 DEF Held, SeenAt
      <4>3. Rate(t) * (last[k] - since[k]) + Rate(t) * (now - last[k])
              = Rate(t) * (now - since[k])
        BY <1>2, <1>9, RefillAdds
      <4>4. /\ Rate(t) * (last[k] - since[k]) \in Int
            /\ Rate(t) * (now - last[k]) \in Int
            /\ Rate(t) * (now - since[k]) \in Int
            /\ Token * admitted[k] \in Int
        BY <1>2, <1>9
      <4>5. QED
        BY <1>2, <1>3, <1>4, <1>8, <1>9, <1>13, <3>1, <4>1, <4>2, <4>3, <4>4
    <3>2. CASE k \notin created
      <4>1. admitted[k] = 0 /\ since'[k] = now
        BY <1>1, <1>8, <3>2 DEF IInv, ClockInv
      <4>2. r <= Quota(t) + Rate(t) * (now - now)
        BY <1>1, <1>3, <3>2 DEF Held, SeenAt
      <4>3. QED
        BY <1>2, <1>3, <1>9, <1>13, <4>1, <4>2
    <3>3. QED BY <3>1, <3>2
  <2>2. QED
    BY <1>1, <1>5, <1>6, <1>8, <2>1 DEF AdmissionBound, IInv, TypeOK
<1>15. WindowInv'
  <2> SUFFICES ASSUME admitted'[k] > mark[k].count
               PROVE  /\ mark[k].at <= now
                      /\ Token * (admitted'[k] - mark[k].count) + left
                           <= Cap(t) + Rate(t) * (now - mark[k].at)
    <3>1. ASSUME NEW j \in created', j # k
          PROVE  /\ j \in created /\ tokens'[j] = tokens[j] /\ last'[j] = last[j]
                 /\ admitted'[j] = admitted[j]
      BY <1>5, <1>6, <3>1 DEF TypeOK
    <3>2. tokens'[k] = left /\ last'[k] = now
      BY <1>1, <1>5, <1>6 DEF TypeOK
    <3>3. ASSUME NEW j \in created', j # k, admitted'[j] > mark[j].count
          PROVE  /\ mark[j].at <= last'[j]
                 /\ Token * (admitted'[j] - mark[j].count) + tokens'[j]
                      <= Cap(j[2]) + Rate(j[2]) * (last'[j] - mark[j].at)
      BY <3>1, <3>3 DEF IInv, WindowInv
    <3>4. QED BY <1>1, <1>5, <3>2, <3>3 DEF WindowInv
  <2>1. mark[k].at <= now /\ mark[k].count <= admitted[k]
    BY <1>1 DEF IInv, ClockInv
  <2>2. Token * (admitted'[k] - mark[k].count) + left
          = Token * (admitted[k] - mark[k].count) + r
    <3>1. Token * ((admitted[k] - mark[k].count) + 1)
            = Token * (admitted[k] - mark[k].count) + Token
      BY <1>2, <1>9, OneMoreToken
    <3>2. QED BY <1>2, <1>3, <1>4, <1>8, <1>9, <3>1
  <2>3. CASE admitted[k] = mark[k].count
    <3>1. Cap(t) > 0
      BY <1>4, <1>8, <1>9, <2>3
    <3>2. Rate(t) * 0 <= Rate(t) * (now - mark[k].at)
      BY <1>2, <1>9, <2>1, <3>1, RefillGrows
    <3>3. Rate(t) * (now - mark[k].at) \in Int /\ Rate(t) * 0 = 0
      BY <1>2, <1>9
    <3>4. QED
      BY <1>2, <1>3, <1>4, <1>9, <2>1, <2>2, <2>3, <3>2, <3>3
  <2>4. CASE admitted[k] > mark[k].count
    <3>1. k \in created
      BY <1>1, <1>9, <2>4 DEF IInv, ClockInv
    <3>2. Token * (admitted[k] - mark[k].count) + tokens[k]
            <= Cap(t) + Rate(t) * (last[k] - mark[k].at)
      BY <1>1, <2>4, <3>1 DEF IInv, WindowInv
    <3>3. r <= tokens[k] + Rate(t) * (now - last[k])
      BY <1>3, <3>1 DEF Held, SeenAt
    <3>4. Rate(t) * (last[k] - mark[k].at) + Rate(t) * (now - last[k])
            = Rate(t) * (now - mark[k].at)
      BY <1>2, <1>9, RefillAdds
    <3>5. /\ Rate(t) * (last[k] - mark[k].at) \in Int
          /\ Rate(t) * (now - last[k]) \in Int
          /\ Rate(t) * (now - mark[k].at) \in Int
          /\ Token * (admitted[k] - mark[k].count) \in Int
      BY <1>2, <1>9
    <3>6. QED
      BY <1>2, <1>3, <1>4, <1>9, <2>1, <2>2, <3>2, <3>3, <3>4, <3>5
  <2>5. QED BY <1>9, <2>1, <2>3, <2>4
<1>16. QED
  BY <1>7, <1>10, <1>11, <1>12, <1>14, <1>15
-----------------------------------------------------------------------------
LEMMA InitIInv == Init => IInv
<1> SUFFICES ASSUME Init PROVE IInv
  OBVIOUS
<1>1. TypeOK
  BY ClockAssumption DEF Init, TypeOK
<1>2. ClockInv /\ PositiveInv /\ AdmissionBound /\ WindowInv
  BY DEF Init, ClockInv, PositiveInv, AdmissionBound, WindowInv
<1>3. QED BY <1>1, <1>2 DEF IInv

LEMMA NextIInv == IInv /\ [Next]_vars => IInv'
<1> SUFFICES ASSUME IInv, [Next]_vars PROVE IInv'
  OBVIOUS
<1>1. ASSUME NEW n \in Nodes, NEW t \in Tenants, Admit(n, t) PROVE IInv'
  <2>1. LET k == <<n, t>>
        IN  /\ Refilled(k) >= Token
            /\ Store(k, Refilled(k) - 1 * Token)
            /\ admitted' = [admitted EXCEPT ![k] = @ + 1]
            /\ UNCHANGED <<now, mark>>
    BY <1>1, LimitFacts DEF Admit
  <2>2. /\ created' \subseteq Keys /\ tokens' \in [Keys -> Int]
        /\ \A j \in created' : tokens'[j] <= Cap(j[2])
        /\ last' \in [Keys -> 0..MaxTime] /\ since' \in [Keys -> 0..MaxTime]
        /\ admitted' \in [Keys -> Nat]
        /\ ClockInv' /\ PositiveInv' /\ AdmissionBound' /\ WindowInv'
    BY <2>1, AllowPreserves
  <2>3. TypeOK'
    BY <1>1, <2>2 DEF Admit, IInv, TypeOK
  <2>4. QED BY <2>2, <2>3 DEF IInv
<1>2. ASSUME NEW n \in Nodes, NEW t \in Tenants, Refuse(n, t) PROVE IInv'
  <2> DEFINE k == <<n, t>>
  <2>1. k \in Keys
    BY DEF Keys
  <2>2. /\ Refilled(k) \in Int /\ Token \in Nat /\ admitted \in [Keys -> Nat]
    BY <2>1, RefillFacts, LimitFacts DEF IInv, TypeOK
  <2>3. /\ Store(k, Refilled(k) - 0 * Token)
        /\ admitted' = [admitted EXCEPT ![k] = @ + 0]
        /\ UNCHANGED <<now, mark>>
    <3>1. Refilled(k) - 0 * Token = Refilled(k)
      BY <2>2
    <3>2. Store(k, Refilled(k)) /\ admitted' = admitted /\ UNCHANGED <<now, mark>>
      BY <1>2 DEF Refuse
    <3>3. admitted = [admitted EXCEPT ![k] = @ + 0]
      BY <2>1, <2>2
    <3>4. QED BY <3>1, <3>2, <3>3
  <2>4. /\ created' \subseteq Keys /\ tokens' \in [Keys -> Int]
        /\ \A j \in created' : tokens'[j] <= Cap(j[2])
        /\ last' \in [Keys -> 0..MaxTime] /\ since' \in [Keys -> 0..MaxTime]
        /\ admitted' \in [Keys -> Nat]
        /\ ClockInv' /\ PositiveInv' /\ AdmissionBound' /\ WindowInv'
    <3>1. 0 \in {0, 1} /\ (0 = 1 => Refilled(k) >= Token)
      OBVIOUS
    <3>2. QED BY <2>3, <3>1, AllowPreserves
  <2>5. TypeOK'
    BY <1>2, <2>4 DEF Refuse, syncVars, IInv, TypeOK
  <2>6. QED BY <2>4, <2>5 DEF IInv
<1>3. ASSUME UNCHANGED <<now, limiterVars, history>>, TypeOK' PROVE IInv'
  BY <1>3 DEF limiterVars, history, IInv, TypeOK, ClockInv, PositiveInv,
              AdmissionBound, WindowInv
<1>4. ASSUME NEW n \in Nodes, SyncSnapshot(n) \/ SyncEval(n) PROVE IInv'
  <2>1. TypeOK'
    <3>1. /\ sync' \in [Nodes -> {"idle", "eval"}]
          /\ unsynced' \in [Nodes -> SUBSET Tenants]
          /\ pushing' \in [Nodes -> SUBSET Tenants]
      <4>1. CASE SyncSnapshot(n)
        BY <4>1 DEF SyncSnapshot, IInv, TypeOK
      <4>2. CASE SyncEval(n)
        BY <4>2 DEF SyncEval, IInv, TypeOK
      <4>3. QED BY <1>4, <4>1, <4>2
    <3>2. UNCHANGED <<now, created, tokens, last, since, admitted, mark>>
      BY <1>4 DEF SyncSnapshot, SyncEval, limiterVars, history
    <3>3. QED BY <3>1, <3>2 DEF IInv, TypeOK
  <2>2. QED BY <1>3, <1>4, <2>1 DEF SyncSnapshot, SyncEval
<1>5. CASE Tick
  <2>1. TypeOK'
    BY <1>5, ClockAssumption DEF Tick, limiterVars, syncVars, history, IInv, TypeOK
  <2>2. ClockInv'
    BY <1>5 DEF Tick, limiterVars, history, IInv, TypeOK, ClockInv
  <2>3. PositiveInv' /\ AdmissionBound' /\ WindowInv'
    BY <1>5 DEF Tick, limiterVars, history, IInv, PositiveInv, AdmissionBound,
                WindowInv
  <2>4. QED BY <2>1, <2>2, <2>3 DEF IInv
<1>6. ASSUME NEW k \in Keys, OpenWindow(k) PROVE IInv'
  <2>1. /\ admitted \in [Keys -> Nat] /\ now \in 0..MaxTime
        /\ mark' = [mark EXCEPT ![k] = [at |-> now, count |-> admitted[k]]]
        /\ UNCHANGED <<now, created, tokens, last, since, admitted>>
    BY <1>6 DEF OpenWindow, limiterVars, IInv, TypeOK
  <2>2. TypeOK'
    <3>1. [at |-> now, count |-> admitted[k]] \in [at : 0..MaxTime, count : Nat]
      BY <1>6, <2>1
    <3>2. mark' \in [Keys -> [at : 0..MaxTime, count : Nat]]
      BY <2>1, <3>1 DEF IInv, TypeOK
    <3>3. QED
      BY <1>6, <2>1, <3>2 DEF OpenWindow, syncVars, IInv, TypeOK
  <2>3. ClockInv'
    BY <1>6, <2>1 DEF IInv, TypeOK, ClockInv
  <2>4. PositiveInv' /\ AdmissionBound'
    BY <2>1 DEF IInv, PositiveInv, AdmissionBound
  <2>5. WindowInv'
    <3> SUFFICES ASSUME NEW j \in created, admitted[j] > mark'[j].count
                 PROVE  /\ mark'[j].at <= last[j]
                        /\ Token * (admitted[j] - mark'[j].count) + tokens[j]
                             <= Cap(j[2]) + Rate(j[2]) * (last[j] - mark'[j].at)
      BY <2>1 DEF WindowInv
    <3>1. j \in Keys
      BY DEF IInv, TypeOK
    <3>2. j # k
      BY <2>1, <3>1 DEF IInv, TypeOK
    <3>3. mark'[j] = mark[j]
      BY <2>1, <3>1, <3>2 DEF IInv, TypeOK
    <3>4. QED BY <3>3 DEF IInv, WindowInv
  <2>6. QED BY <2>2, <2>3, <2>4, <2>5 DEF IInv
<1>7. CASE UNCHANGED vars
  <2>1. TypeOK'
    BY <1>7 DEF vars, limiterVars, syncVars, history, IInv, TypeOK
  <2>2. QED BY <1>3, <1>7, <2>1 DEF vars
<1>8. QED
  BY <1>1, <1>2, <1>4, <1>5, <1>6, <1>7 DEF Next, Allow

LEMMA SpecIInv == Spec => []IInv
BY InitIInv, NextIInv, PTL DEF Spec
-----------------------------------------------------------------------------
(* Every variable of the limiter keeps its type, and no bucket holds more  *)
(* than the tenant's limit (ratelimit.go:70-72).                           *)
THEOREM TypeCorrect == Spec => []TypeOK
BY SpecIInv, PTL DEF IInv

(* A bucket gives out at most its initial quota plus the refill since its  *)
(* creation, for every interleaving of Allow, backgroundSync and the clock *)
(* (ratelimit.go:50-82).                                                   *)
THEOREM AdmissionsAreBounded == Spec => []AdmissionBound
BY SpecIInv, PTL DEF IInv

LEMMA WindowInvSuffices == IInv => WindowBound
<1> SUFFICES ASSUME IInv, NEW k \in created, admitted[k] > mark[k].count
             PROVE  Token * (admitted[k] - mark[k].count)
                      <= Cap(k[2]) + Rate(k[2]) * (now - mark[k].at)
  BY DEF WindowBound
<1>1. k \in Keys /\ k[2] \in Tenants
  BY KeyParts DEF IInv, TypeOK
<1>2. /\ now \in Int /\ last[k] \in Int /\ mark[k].at \in Int
      /\ admitted[k] \in Nat /\ mark[k].count \in Nat /\ tokens[k] \in Int
      /\ last[k] <= now
  BY <1>1 DEF IInv, TypeOK, ClockInv
<1>3. /\ Token \in Nat /\ Cap(k[2]) \in Int /\ Rate(k[2]) \in Int
      /\ Cap(k[2]) > 0 => Rate(k[2]) > 0
  BY <1>1, LimitFacts
<1>4. Cap(k[2]) > 0 /\ tokens[k] >= 0
  BY <1>2 DEF IInv, PositiveInv
<1>5. Rate(k[2]) * (last[k] - mark[k].at) <= Rate(k[2]) * (now - mark[k].at)
  BY <1>2, <1>3, <1>4, RefillGrows
<1>6. Token * (admitted[k] - mark[k].count) + tokens[k]
        <= Cap(k[2]) + Rate(k[2]) * (last[k] - mark[k].at)
  BY DEF IInv, WindowInv
<1>7. /\ Rate(k[2]) * (last[k] - mark[k].at) \in Int
      /\ Rate(k[2]) * (now - mark[k].at) \in Int
      /\ Token * (admitted[k] - mark[k].count) \in Int
  BY <1>2, <1>3
<1>8. QED BY <1>2, <1>3, <1>4, <1>5, <1>6, <1>7

(* Over any window a node lets through at most one limit plus the refill   *)
(* of the window, for every interleaving (ratelimit.go:65-79).             *)
THEOREM WindowsAreBounded == Spec => []WindowBound
BY SpecIInv, WindowInvSuffices, PTL
-----------------------------------------------------------------------------
(* A tenant whose limit is zero or negative is never served, although a    *)
(* new bucket starts with at least one token: the refill of the same call  *)
(* cuts the quota down to the limit (ratelimit.go:57-60, 70-72).           *)
NoLimitNoService == \A k \in Keys : Limit[k[2]] <= 0 => admitted[k] = 0

(* A call finds a token when the bucket is new, or when the refill since   *)
(* the bucket's last call is a token or more.                              *)
Paced(k) == \/ k \notin created
            \/ Rate(k[2]) * (now - last[k]) >= Token

(* A call that comes a token's refill after the bucket's previous one is   *)
(* never refused, however many calls were admitted or refused before, and  *)
(* neither is the first one, if the tenant's limit is positive: a bucket   *)
(* owes nothing, and the cap leaves room for a token (ratelimit.go:54-79). *)
PacedIsServed ==
    [][\A n \in Nodes, t \in Tenants :
         Limit[t] > 0 /\ Paced(<<n, t>>) => ~Refuse(n, t)]_vars

LEMMA CapSign ==
    ASSUME NEW t \in Tenants
    PROVE  /\ Limit[t] <= 0 => Cap(t) <= 0
           /\ Limit[t] > 0 => Cap(t) >= Token
<1>1. Limit[t] \in Int /\ Token \in Nat
  BY LimitAssumption, LimitFacts
<1>2. ASSUME Limit[t] > 0 PROVE Cap(t) >= Token
  <2>1. Token * 1 <= Token * Limit[t]
    BY <1>1, <1>2, LimitFacts, RefillGrows
  <2>2. QED BY <1>1, <2>1 DEF Cap
<1>3. ASSUME Limit[t] <= 0 PROVE Cap(t) <= 0
  BY <1>1, <1>3 DEF Cap
<1>4. QED BY <1>2, <1>3

LEMMA NoLimitFromIInv == IInv => NoLimitNoService
<1> SUFFICES ASSUME IInv, NEW k \in Keys, Limit[k[2]] <= 0
             PROVE  admitted[k] = 0
  BY DEF NoLimitNoService
<1>1. k[2] \in Tenants /\ admitted[k] \in Nat
  BY KeyParts DEF IInv, TypeOK
<1>2. Cap(k[2]) \in Int /\ Cap(k[2]) <= 0
  BY <1>1, LimitFacts, CapSign
<1>3. CASE k \in created
  <2>1. admitted[k] > 0 => Cap(k[2]) > 0
    BY <1>3 DEF IInv, PositiveInv
  <2>2. QED BY <1>1, <1>2, <2>1
<1>4. CASE k \notin created
  BY <1>4 DEF IInv, ClockInv
<1>5. QED BY <1>3, <1>4

(* For every interleaving and every choice of limits, a tenant without a   *)
(* positive limit has no request admitted (ratelimit.go:50-82).            *)
THEOREM NoLimitMeansNoService == Spec => []NoLimitNoService
BY SpecIInv, NoLimitFromIInv, PTL

(* What Allow computes for a paced call of a tenant with a limit. *)
LEMMA PacedRefill ==
    ASSUME IInv, NEW n \in Nodes, NEW t \in Tenants, Limit[t] > 0,
           Paced(<<n, t>>)
    PROVE  Refilled(<<n, t>>) >= Token
<1> DEFINE k == <<n, t>>
<1>1. k \in Keys /\ k[2] = t
  BY DEF Keys
<1>2. /\ Token \in Nat /\ Cap(t) \in Int /\ Rate(t) \in Int /\ Quota(t) \in Int
      /\ Token > 0 /\ Cap(t) >= Token
  BY LimitFacts, CapSign
<1>3. Quota(t) >= Token
  BY <1>2, LimitAssumption, ClockAssumption DEF Quota
<1>4. now \in Int /\ last[k] \in Int /\ tokens[k] \in Int
  BY <1>1 DEF IInv, TypeOK
<1>5. Held(k) + Rate(t) * (now - SeenAt(k)) >= Token
  <2>1. CASE k \in created
    <3>1. tokens[k] >= 0
      BY <1>1, <1>2, <2>1 DEF IInv, PositiveInv
    <3>2. Rate(t) * (now - last[k]) >= Token
      BY <1>1, <2>1 DEF Paced
    <3>3. Rate(t) * (now - last[k]) \in Int
      BY <1>2, <1>4
    <3>4. tokens[k] + Rate(t) * (now - last[k]) >= Token
      BY <1>2, <1>4, <3>1, <3>2, <3>3
    <3>5. QED BY <2>1, <3>4 DEF Held, SeenAt
  <2>2. CASE k \notin created
    <3>1. Quota(t) + Rate(t) * (now - now) >= Token
      BY <1>2, <1>3, <1>4
    <3>2. QED BY <1>1, <2>2, <3>1 DEF Held, SeenAt
  <2>3. QED BY <2>1, <2>2
<1> HIDE DEF k
<1>6. Refilled(k) >= Token
  BY <1>1, <1>2, <1>5 DEF Refilled
<1>7. QED BY <1>6 DEF k

(* PacedIsServed for any nodes, tenants, limits and clock resolution.      *)
(* PositiveInv, that a bucket of a served tenant never goes negative, is   *)
(* what it rests on (ratelimit.go:65-79).                                  *)
THEOREM PacedCallsAreServed == Spec => PacedIsServed
<1>1. IInv => [\A n \in Nodes, t \in Tenants :
                 Limit[t] > 0 /\ Paced(<<n, t>>) => ~Refuse(n, t)]_vars
  <2> SUFFICES ASSUME IInv, NEW n \in Nodes, NEW t \in Tenants, Limit[t] > 0,
                      Paced(<<n, t>>), Refuse(n, t)
               PROVE  FALSE
    OBVIOUS
  <2>1. <<n, t>> \in Keys
    BY DEF Keys
  <2>2. Refilled(<<n, t>>) \in Int /\ Token \in Nat
    BY <2>1, RefillFacts, LimitFacts
  <2>3. Refilled(<<n, t>>) >= Token
    BY PacedRefill
  <2>4. Refilled(<<n, t>>) < Token
    BY DEF Refuse
  <2>5. QED BY <2>2, <2>3, <2>4
<1>2. QED
  BY <1>1, SpecIInv, PTL DEF PacedIsServed
=============================================================================
