------------------------- MODULE TwoTierCacheProofs --------------------------
(***************************************************************************)
(* The age bound of TwoTierCache for any number of instances and lookups,  *)
(* any times to live and any duration of a lookup.                         *)
(***************************************************************************)
EXTENDS TwoTierCache, TLAPS

(* A running lookup is at most MaxOp old. *)
ClockInv == \A c \in Lookups : pc[c] \in Resting \/ now <= begun[c] + MaxOp

(* How long each tier may keep a value, from the time it was read: Redis   *)
(* gets it from the lookup that read it, memory possibly from Redis.       *)
TierInv ==
    /\ l2.exp <= l2.at + Ttl + MaxOp
    /\ \A n \in Nodes : \A e \in Held(n) : e.exp <= e.at + MaxAge

(* A value on its way to a tier: read from the database by this lookup, or *)
(* found in Redis after the lookup began.                                  *)
FlightInv ==
    \A c \in Lookups :
        /\ pc[c] \in {"setL1", "setL2"} => begun[c] <= val[c]
        /\ pc[c] = "backfill" => begun[c] < val[c] + Ttl + MaxOp

(* No lookup begins in the future. *)
BegunInv == \A c \in Lookups : begun[c] <= now

(* What Redis has to have, it has; and a lookup that went on to the        *)
(* database did not find what was already there when it began.             *)
CoverInv ==
    /\ cover.until <= l2.exp
    /\ \A c \in Lookups :
          pc[c] = "query" => begun[c] <= cover.from \/ now >= cover.until

IInv == TypeOK /\ ClockInv /\ TierInv /\ FlightInv /\ BegunInv /\ CoverInv
-----------------------------------------------------------------------------
LEMMA NoneType ==
  /\ None \in Entry /\ None.at = 0 /\ None.exp = 0
  /\ Uncovered \in [from : Nat, until : Nat]
  /\ Uncovered.from = 0 /\ Uncovered.until = 0
  BY DEF None, Entry, Uncovered

LEMMA InitEstablishes == Init => IInv
  <1> SUFFICES ASSUME Init PROVE IInv
    OBVIOUS
  <1> USE CacheAssumption
  <1>1. MaxAge \in Nat
    BY DEF MaxAge
  <1>2. TypeOK
    BY NoneType DEF Init, TypeOK
  <1>3. TierInv
    BY <1>1, NoneType DEF Init, TierInv, Held
  <1>4. ClockInv /\ FlightInv /\ BegunInv
    BY DEF Init, ClockInv, FlightInv, BegunInv, Resting
  <1>5. CoverInv
    BY NoneType DEF Init, CoverInv
  <1> QED BY <1>2, <1>3, <1>4, <1>5 DEF IInv

(* Every outcome of a set: what the instance holds is what it held before  *)
(* and the new entry.                                                      *)
LEMMA PutHolds ==
  ASSUME IInv, NEW n \in Nodes, NEW v \in Nat, NEW ttl \in Nat, Put(n, v, ttl)
  PROVE  /\ l1' \in [Nodes -> Entry] /\ buf' \in [Nodes -> SUBSET Entry]
         /\ \A x \in Nodes :
               Held(x)' \subseteq Held(x) \cup {[at |-> v, exp |-> now + ttl]}
  <1> DEFINE e == [at |-> v, exp |-> now + ttl]
  <1>1. now + ttl \in Nat
    BY DEF IInv, TypeOK
  <1>2. e \in Entry
    BY <1>1 DEF Entry
  <1>3. l1 \in [Nodes -> Entry] /\ buf \in [Nodes -> SUBSET Entry]
    BY DEF IInv, TypeOK
  <1> SUFFICES /\ l1' \in [Nodes -> Entry] /\ buf' \in [Nodes -> SUBSET Entry]
               /\ \A x \in Nodes : Held(x)' \subseteq Held(x) \cup {e}
    OBVIOUS
  <1>4. \/ l1' = l1 /\ buf' = buf
        \/ l1' = [l1 EXCEPT ![n] = e] /\ buf' = buf
        \/ l1' = l1 /\ buf' = [buf EXCEPT ![n] = buf[n] \cup {e}]
    BY DEF Put
  <1> HIDE DEF e
  <1>5. l1' \in [Nodes -> Entry]
    BY <1>2, <1>3, <1>4
  <1>6. buf' \in [Nodes -> SUBSET Entry]
    BY <1>2, <1>3, <1>4
  <1>7. ASSUME NEW x \in Nodes PROVE Held(x)' \subseteq Held(x) \cup {e}
    <2>1. /\ l1'[x] = l1[x] \/ l1'[x] = e
          /\ buf'[x] \subseteq buf[x] \cup {e}
      BY <1>3, <1>4
    <2> QED BY <2>1 DEF Held
  <1> QED BY <1>5, <1>6, <1>7

(* A set keeps the memory of an instance within its bound. *)
LEMMA PutKeeps ==
  ASSUME IInv, NEW n \in Nodes, NEW v \in Nat, NEW ttl \in Nat, Put(n, v, ttl),
         now + ttl <= v + MaxAge
  PROVE  /\ l1' \in [Nodes -> Entry] /\ buf' \in [Nodes -> SUBSET Entry]
         /\ \A x \in Nodes : \A e \in Held(x)' : e.exp <= e.at + MaxAge
  <1>1. \A x \in Nodes :
           Held(x)' \subseteq Held(x) \cup {[at |-> v, exp |-> now + ttl]}
    BY PutHolds
  <1>2. ASSUME NEW x \in Nodes, NEW e \in Held(x)' PROVE e.exp <= e.at + MaxAge
    <2>1. CASE e \in Held(x)
      BY <2>1 DEF IInv, TierInv
    <2>2. CASE e = [at |-> v, exp |-> now + ttl]
      BY <2>2
    <2> QED BY <1>1, <2>1, <2>2
  <1> QED BY <1>2, PutHolds

(* The steps of a lookup that leave both tiers alone. *)
LEMMA TiersKept ==
  ASSUME TierInv, UNCHANGED <<l1, buf, l2>>
  PROVE  TierInv'
  BY DEF TierInv, Held

(* A lookup that is not about to ask the database, or was so before. *)
LEMMA CoverKept ==
  ASSUME CoverInv, UNCHANGED <<now, l2, cover>>,
         \A x \in Lookups : pc'[x] = "query" => pc[x] = "query" /\ begun'[x] = begun[x]
  PROVE  CoverInv'
  BY DEF CoverInv

LEMMA TickKeeps ==
  ASSUME IInv, Tick
  PROVE  IInv'
  <1> USE CacheAssumption
  <1>1. /\ now' = now + 1 /\ now \in Nat /\ UNCHANGED <<pc, begun, val>>
        /\ \A n \in Nodes : Held(n)' \subseteq Held(n) \cup {None}
        /\ l1' \in [Nodes -> Entry] /\ buf' \in [Nodes -> SUBSET Entry]
        /\ l2' = l2 \/ (l2' = None /\ l2.exp <= now')
        /\ cover' = cover \/ cover' = Uncovered
        /\ cover' = cover => now' < cover.until \/ cover = Uncovered
    <2>1. /\ l1 \in [Nodes -> Entry] /\ l2 \in Entry /\ now \in Nat
          /\ buf \in [Nodes -> SUBSET Entry]
          /\ cover \in [from : Nat, until : Nat]
      BY DEF IInv, TypeOK
    <2>2. /\ now' = now + 1 /\ UNCHANGED <<pc, begun, val>>
          /\ l1' = [n \in Nodes |-> Expire(l1[n], now + 1)]
          /\ buf' = [n \in Nodes |-> {e \in buf[n] : now + 1 < e.exp}]
          /\ l2' = Expire(l2, now + 1)
          /\ cover' = IF now + 1 < cover.until THEN cover ELSE Uncovered
      BY DEF Tick
    <2>3. \A n \in Nodes : Held(n)' \subseteq Held(n) \cup {None}
      BY <2>2 DEF Expire, Held
    <2>4. l1' \in [Nodes -> Entry]
      BY <2>1, <2>2, NoneType DEF Expire
    <2>6. buf' \in [Nodes -> SUBSET Entry]
      BY <2>1, <2>2
    <2>5. l2' = l2 \/ (l2' = None /\ l2.exp <= now')
      <3>1. l2.exp \in Nat
        BY <2>1 DEF Entry
      <3> QED BY <2>1, <2>2, <3>1 DEF Expire
    <2> QED BY <2>1, <2>2, <2>3, <2>4, <2>5, <2>6
  <1>2. TypeOK'
    BY <1>1, NoneType DEF IInv, TypeOK
  <1>3. ClockInv' /\ FlightInv' /\ BegunInv'
    BY <1>1 DEF Tick, IInv, TypeOK, ClockInv, FlightInv, BegunInv
  <1>4. TierInv'
    <2>1. MaxAge \in Nat
      BY DEF MaxAge
    <2>2. l2'.exp <= l2'.at + Ttl + MaxOp
      BY <1>1, NoneType DEF IInv, TierInv
    <2>3. ASSUME NEW n \in Nodes, NEW e \in Held(n)' PROVE e.exp <= e.at + MaxAge
      <3>1. e \in Held(n) \/ e = None
        BY <1>1
      <3>2. e \in Held(n) => e.exp <= e.at + MaxAge
        BY DEF IInv, TierInv
      <3> QED BY <2>1, <3>1, <3>2, NoneType
    <2> QED BY <2>2, <2>3 DEF TierInv
  <1>5. CoverInv'
    <2>1. /\ cover.until \in Nat /\ cover.from \in Nat /\ l2.exp \in Nat
          /\ cover.until <= l2.exp /\ now' \in Nat
      BY <1>1 DEF IInv, TypeOK, Entry, CoverInv
    <2>2. CASE cover' = Uncovered
      <3>1. 0 <= l2'.exp /\ l2'.exp \in Nat
        BY <1>1, <2>1, NoneType
      <3> QED BY <2>1, <2>2, <3>1, NoneType DEF CoverInv
    <2>3. CASE cover' = cover /\ cover # Uncovered
      <3>1. now' < cover.until
        BY <1>1, <2>3
      <3>2. l2' = l2
        BY <1>1, <2>1, <3>1, NoneType
      <3>3. now <= now'
        BY <1>1
      <3>4. ASSUME NEW c \in Lookups, pc'[c] = "query"
            PROVE  begun'[c] <= cover.from
        <4>1. begun[c] <= cover.from \/ now >= cover.until
          BY <1>1, <3>4 DEF IInv, CoverInv
        <4> QED BY <1>1, <2>1, <3>1, <4>1
      <3> QED BY <2>1, <2>3, <3>2, <3>4 DEF CoverInv
    <2> QED BY <1>1, <2>2, <2>3
  <1> QED BY <1>2, <1>3, <1>4, <1>5 DEF IInv

(* A buffered set that is worked off, and an eviction, add nothing to what *)
(* an instance holds.                                                      *)
LEMMA MemoryShrinks ==
  ASSUME IInv, NEW n \in Nodes, ApplySet(n) \/ EvictL1(n)
  PROVE  /\ l1' \in [Nodes -> Entry] /\ buf' \in [Nodes -> SUBSET Entry]
         /\ UNCHANGED <<now, l2, pc, begun, val, cover>>
         /\ \A x \in Nodes : Held(x)' \subseteq Held(x) \cup {None}
  <1>1. l1 \in [Nodes -> Entry] /\ buf \in [Nodes -> SUBSET Entry]
    BY DEF IInv, TypeOK
  <1>2. CASE ApplySet(n)
    <2>1. PICK e \in buf[n] : /\ buf' = [buf EXCEPT ![n] = buf[n] \ {e}]
                              /\ l1' = l1 \/ l1' = [l1 EXCEPT ![n] = e]
      BY <1>2 DEF ApplySet
    <2>2. e \in Entry
      BY <1>1
    <2>3. l1' \in [Nodes -> Entry] /\ buf' \in [Nodes -> SUBSET Entry]
      BY <1>1, <2>1, <2>2
    <2>4. ASSUME NEW x \in Nodes PROVE Held(x)' \subseteq Held(x)
      BY <1>1, <2>1 DEF Held
    <2> QED BY <1>2, <2>3, <2>4 DEF ApplySet
  <1>3. CASE EvictL1(n)
    <2>1. l1' = [l1 EXCEPT ![n] = None] /\ UNCHANGED <<now, buf, l2, pc, begun, val, cover>>
      BY <1>3 DEF EvictL1
    <2> QED BY <1>1, <2>1, NoneType DEF Held
  <1> QED BY <1>2, <1>3

LEMMA EvictKeeps ==
  ASSUME IInv, EvictL2 \/ \E n \in Nodes : ApplySet(n) \/ EvictL1(n)
  PROVE  IInv'
  <1> USE CacheAssumption
  <1>0. MaxAge \in Nat
    BY DEF MaxAge
  <1>1. CASE EvictL2
    <2>1. TypeOK' /\ ClockInv' /\ FlightInv' /\ BegunInv'
      BY <1>1, NoneType DEF EvictL2, IInv, TypeOK, ClockInv, FlightInv, BegunInv
    <2>2. TierInv'
      BY <1>1, NoneType DEF EvictL2, IInv, TierInv, Held
    <2>3. CoverInv'
      BY <1>1, NoneType DEF EvictL2, CoverInv, IInv, TypeOK
    <2> QED BY <2>1, <2>2, <2>3 DEF IInv
  <1>2. ASSUME NEW n \in Nodes, ApplySet(n) \/ EvictL1(n) PROVE IInv'
    <2>1. /\ l1' \in [Nodes -> Entry] /\ buf' \in [Nodes -> SUBSET Entry]
          /\ UNCHANGED <<now, l2, pc, begun, val, cover>>
          /\ \A x \in Nodes : Held(x)' \subseteq Held(x) \cup {None}
      BY <1>2, MemoryShrinks
    <2>2. ASSUME NEW x \in Nodes, NEW e \in Held(x)' PROVE e.exp <= e.at + MaxAge
      <3>1. e \in Held(x) \/ e = None
        BY <2>1
      <3> QED BY <1>0, <3>1, NoneType DEF IInv, TierInv
    <2>3. CoverInv'
      BY <2>1, CoverKept DEF IInv
    <2> QED BY <2>1, <2>2, <2>3
            DEF IInv, TypeOK, ClockInv, TierInv, FlightInv, BegunInv
  <1> QED BY <1>1, <1>2

LEMMA LookupKeeps ==
  ASSUME IInv, NEW c \in Lookups, Lookup(c)
  PROVE  IInv'
  <1> USE CacheAssumption
  <1>1. CASE GetHit(c)
    <2>1. /\ begun' = [begun EXCEPT ![c] = 0] /\ UNCHANGED <<now, l1, buf, l2, cover>>
          /\ pc' = [pc EXCEPT ![c] = "answered"]
          /\ val' = [val EXCEPT ![c] = l1[Home[c]].at]
      BY <1>1 DEF GetHit, Answer, Goto
    <2>2. l1[Home[c]].at \in Nat
      BY DEF IInv, TypeOK, Entry
    <2>3. TypeOK'
      BY <2>1, <2>2 DEF IInv, TypeOK
    <2>4. ClockInv' /\ FlightInv' /\ BegunInv'
      BY <2>1 DEF IInv, TypeOK, ClockInv, FlightInv, BegunInv, Resting
    <2>5. TierInv' /\ CoverInv'
      BY <2>1, TiersKept, CoverKept DEF IInv, TypeOK
    <2> QED BY <2>3, <2>4, <2>5 DEF IInv
  <1>2. CASE GetMiss(c)
    <2>1. /\ begun' = [begun EXCEPT ![c] = now] /\ UNCHANGED <<now, l1, buf, l2, cover>>
          /\ pc' = [pc EXCEPT ![c] = "redis"] /\ val' = [val EXCEPT ![c] = 0]
      BY <1>2 DEF GetMiss, Goto, Fallback
    <2>2. TypeOK' /\ ClockInv' /\ FlightInv' /\ BegunInv'
      BY <2>1 DEF IInv, TypeOK, ClockInv, FlightInv, BegunInv, Resting
    <2>3. TierInv' /\ CoverInv'
      BY <2>1, TiersKept, CoverKept DEF IInv, TypeOK
    <2> QED BY <2>2, <2>3 DEF IInv
  <1>3. CASE RedisHit(c)
    <2>1. /\ UNCHANGED <<now, l1, buf, l2, begun, cover>> /\ pc[c] = "redis"
          /\ pc' = [pc EXCEPT ![c] = "backfill"]
          /\ val' = [val EXCEPT ![c] = l2.at] /\ now < l2.exp
      BY <1>3 DEF RedisHit, Goto, Live
    <2>2. l2.at \in Nat /\ l2.exp \in Nat /\ l2.exp <= l2.at + Ttl + MaxOp
          /\ begun[c] <= now /\ begun[c] \in Nat /\ now \in Nat
      BY DEF IInv, TypeOK, Entry, TierInv, BegunInv
    <2>3. begun[c] < l2.at + Ttl + MaxOp
      BY <2>1, <2>2
    <2>4. FlightInv'
      BY <2>1, <2>2, <2>3 DEF IInv, TypeOK, FlightInv
    <2>5. TierInv' /\ CoverInv'
      BY <2>1, TiersKept, CoverKept DEF IInv, TypeOK
    <2> QED BY <2>1, <2>2, <2>4, <2>5 DEF IInv, TypeOK, ClockInv, BegunInv, Resting
  <1>4. CASE RedisMiss(c) \/ RedisFails(c)
    <2>1. /\ UNCHANGED <<now, l1, buf, l2, begun, val>>
          /\ pc[c] = "redis" /\ pc' = [pc EXCEPT ![c] = "query"]
          /\ \/ now >= l2.exp /\ cover' = cover
             \/ cover' = Uncovered
      BY <1>4 DEF RedisMiss, RedisFails, Goto, Live, IInv, TypeOK, Entry
    <2>2. TypeOK' /\ ClockInv' /\ FlightInv' /\ BegunInv'
      BY <2>1, NoneType DEF IInv, TypeOK, ClockInv, FlightInv, BegunInv, Resting
    <2>3. TierInv'
      BY <2>1, TiersKept DEF IInv
    <2>4. CoverInv'
      <3>1. /\ now \in Nat /\ l2.exp \in Nat /\ cover.until \in Nat
            /\ cover.until <= l2.exp
        BY DEF IInv, TypeOK, Entry, CoverInv
      <3>2. CASE cover' = Uncovered
        BY <2>1, <3>1, <3>2, NoneType DEF CoverInv
      <3>3. CASE now >= l2.exp /\ cover' = cover
        <4>1. now >= cover.until
          BY <3>1, <3>3
        <4> QED BY <2>1, <3>1, <3>3, <4>1 DEF CoverInv
      <3> QED BY <2>1, <3>2, <3>3
    <2> QED BY <2>2, <2>3, <2>4 DEF IInv
  <1>5. CASE QueryFails(c)
    <2>1. /\ UNCHANGED <<now, l1, buf, l2, begun, val, cover>>
          /\ pc' = [pc EXCEPT ![c] = "denied"]
      BY <1>5 DEF QueryFails, Goto
    <2>2. TypeOK' /\ ClockInv' /\ FlightInv' /\ BegunInv'
      BY <2>1 DEF IInv, TypeOK, ClockInv, FlightInv, BegunInv, Resting
    <2>3. TierInv' /\ CoverInv'
      BY <2>1, TiersKept, CoverKept DEF IInv, TypeOK
    <2> QED BY <2>2, <2>3 DEF IInv
  <1>6. CASE BackfillL1(c)
    <2>1. /\ UNCHANGED <<now, l2, cover>> /\ pc[c] = "backfill"
          /\ begun' = [begun EXCEPT ![c] = 0]
          /\ pc' = [pc EXCEPT ![c] = "answered"] /\ val' = val
          /\ Put(Home[c], val[c], Backfill)
      BY <1>6 DEF BackfillL1, LeaveRedis, Answer, Goto, IInv, TypeOK
    <2>2. /\ val[c] \in Nat /\ begun[c] \in Nat /\ now \in Nat
          /\ begun[c] < val[c] + Ttl + MaxOp /\ now <= begun[c] + MaxOp
      BY <2>1 DEF IInv, TypeOK, FlightInv, ClockInv, Resting
    <2>3. now + Backfill <= val[c] + MaxAge
      BY <2>2 DEF MaxAge
    <2>4. /\ l1' \in [Nodes -> Entry] /\ buf' \in [Nodes -> SUBSET Entry]
          /\ \A x \in Nodes : \A e \in Held(x)' : e.exp <= e.at + MaxAge
      BY <2>1, <2>2, <2>3, PutKeeps
    <2>5. CoverInv'
      BY <2>1, CoverKept DEF IInv, TypeOK
    <2> QED BY <2>1, <2>4, <2>5
            DEF IInv, TypeOK, ClockInv, TierInv, FlightInv, BegunInv, Resting
  <1>7. CASE Query(c)
    <2>1. /\ UNCHANGED <<now, l1, buf, l2, begun, cover>> /\ pc[c] = "query"
          /\ pc' = [pc EXCEPT ![c] = "setL1"] /\ val' = [val EXCEPT ![c] = now]
      BY <1>7 DEF Query, Goto
    <2>2. TypeOK' /\ ClockInv' /\ FlightInv' /\ BegunInv'
      BY <2>1 DEF IInv, TypeOK, ClockInv, FlightInv, BegunInv, Resting
    <2>3. TierInv' /\ CoverInv'
      BY <2>1, TiersKept, CoverKept DEF IInv, TypeOK
    <2> QED BY <2>2, <2>3 DEF IInv
  <1>8. CASE SetL1(c)
    <2>1. /\ UNCHANGED <<now, l2, begun, val, cover>> /\ pc[c] = "setL1"
          /\ pc' = [pc EXCEPT ![c] = "setL2"]
          /\ Put(Home[c], val[c], Ttl)
      BY <1>8 DEF SetL1, Goto
    <2>2. /\ val[c] \in Nat /\ begun[c] \in Nat /\ now \in Nat
          /\ begun[c] <= val[c] /\ now <= begun[c] + MaxOp
      BY <2>1 DEF IInv, TypeOK, FlightInv, ClockInv, Resting
    <2>3. now + Ttl <= val[c] + MaxAge
      BY <2>2 DEF MaxAge
    <2>4. /\ l1' \in [Nodes -> Entry] /\ buf' \in [Nodes -> SUBSET Entry]
          /\ \A x \in Nodes : \A e \in Held(x)' : e.exp <= e.at + MaxAge
      BY <2>1, <2>2, <2>3, PutKeeps
    <2>5. CoverInv'
      BY <2>1, CoverKept DEF IInv, TypeOK
    <2> QED BY <2>1, <2>4, <2>5
            DEF IInv, TypeOK, ClockInv, TierInv, FlightInv, BegunInv, Resting
  <1>9. CASE SetL2(c) \/ SetL2Fails(c)
    <2> DEFINE e == [at |-> val[c], exp |-> now + Ttl]
               f == [from  |-> IF now < cover.until THEN cover.from ELSE now,
                     until |-> now + Ttl]
    <2>1. /\ UNCHANGED <<now, l1, buf>> /\ pc[c] = "setL2"
          /\ begun' = [begun EXCEPT ![c] = 0]
          /\ pc' = [pc EXCEPT ![c] = "answered"] /\ val' = val
          /\ \/ l2' = l2 /\ cover' = cover
             \/ l2' = e /\ cover' = f
      BY <1>9 DEF SetL2, SetL2Fails, Answer, Goto, IInv, TypeOK
    <2>2. /\ val[c] \in Nat /\ begun[c] \in Nat /\ now \in Nat
          /\ begun[c] <= val[c] /\ now <= begun[c] + MaxOp
          /\ cover.from \in Nat /\ cover.until \in Nat
      BY <2>1 DEF IInv, TypeOK, FlightInv, ClockInv, Resting
    <2>3. /\ e \in Entry /\ e.exp = now + Ttl /\ e.exp <= e.at + Ttl + MaxOp
      BY <2>2 DEF Entry
    <2>4. /\ f \in [from : Nat, until : Nat] /\ f.until = now + Ttl
          /\ f.from = IF now < cover.until THEN cover.from ELSE now
      BY <2>2
    <2> HIDE DEF e, f
    <2>5. l2' \in Entry /\ l2'.exp <= l2'.at + Ttl + MaxOp
      BY <2>1, <2>3 DEF IInv, TypeOK, TierInv
    <2>6. TypeOK'
      BY <2>1, <2>4, <2>5 DEF IInv, TypeOK
    <2>7. CoverInv'
      <3>1. CASE l2' = l2 /\ cover' = cover
        BY <2>1, <3>1, CoverKept DEF IInv, TypeOK
      <3>2. CASE l2' = e /\ cover' = f
        <4>1. cover'.until <= l2'.exp
          BY <2>2, <2>3, <2>4, <3>2
        <4>2. ASSUME NEW x \in Lookups, pc'[x] = "query"
              PROVE  begun'[x] <= cover'.from
          <5>1. /\ x # c /\ pc[x] = "query" /\ begun'[x] = begun[x]
                /\ begun[x] \in Nat /\ begun[x] <= now
            BY <2>1, <4>2 DEF IInv, TypeOK, BegunInv
          <5>2. begun[x] <= cover.from \/ now >= cover.until
            BY <5>1 DEF IInv, CoverInv
          <5> QED BY <2>2, <2>4, <3>2, <5>1, <5>2
        <4> QED BY <4>1, <4>2 DEF CoverInv
      <3> QED BY <2>1, <3>1, <3>2
    <2>8. TierInv'
      BY <2>1, <2>5 DEF IInv, TierInv, Held
    <2> QED BY <2>1, <2>6, <2>7, <2>8
            DEF IInv, TypeOK, ClockInv, FlightInv, BegunInv, Resting
  <1> QED BY <1>1, <1>2, <1>3, <1>4, <1>5, <1>6, <1>7, <1>8, <1>9 DEF Lookup

LEMMA NextKeeps == IInv /\ [Next]_vars => IInv'
  <1> SUFFICES ASSUME IInv, [Next]_vars PROVE IInv'
    OBVIOUS
  <1>1. CASE UNCHANGED vars
    BY <1>1 DEF vars, IInv, TypeOK, ClockInv, TierInv, FlightInv, BegunInv, CoverInv,
                Held
  <1> QED BY <1>1, TickKeeps, EvictKeeps, LookupKeeps DEF Next

LEMMA InvariantHolds == Spec => []IInv
  BY InitEstablishes, NextKeeps, PTL DEF Spec

(* Entries, values and times keep their types. *)
THEOREM TypeCorrect == Spec => []TypeOK
  <1>1. IInv => TypeOK
    BY DEF IInv
  <1> QED BY <1>1, InvariantHolds, PTL

(* No answer is as old as Ttl + Backfill + 2 * MaxOp, however many         *)
(* instances refill their memory from Redis (cache.go:41-67).              *)
THEOREM AnswersAreYoung == Spec => AgeIsBounded
  <1>1. IInv /\ [Next]_vars =>
          [\A c \in Lookups :
              pc[c] # "answered" /\ pc'[c] = "answered" => now - val'[c] < MaxAge]_vars
    <2> SUFFICES ASSUME IInv, [Next]_vars, NEW c \in Lookups,
                        pc[c] # "answered", pc'[c] = "answered"
                 PROVE  now - val'[c] < MaxAge
      OBVIOUS
    <2> USE CacheAssumption
    <2>1. GetHit(c) \/ BackfillL1(c) \/ SetL2(c) \/ SetL2Fails(c)
      BY DEF Next, Lookup, GetHit, GetMiss, Fallback, RedisHit, RedisMiss, RedisFails,
             BackfillL1, Query, QueryFails, SetL1, SetL2, SetL2Fails, ApplySet,
             EvictL1, EvictL2, Tick, Answer, Goto, vars, IInv, TypeOK
    <2>2. CASE GetHit(c)
      <3>1. val'[c] = l1[Home[c]].at /\ now < l1[Home[c]].exp
        BY <2>2 DEF GetHit, Answer, Live, IInv, TypeOK
      <3>2. /\ l1[Home[c]].at \in Nat /\ l1[Home[c]].exp \in Nat /\ now \in Nat
            /\ l1[Home[c]].exp <= l1[Home[c]].at + MaxAge
        BY DEF IInv, TypeOK, TierInv, Entry, Held
      <3> QED BY <3>1, <3>2 DEF MaxAge
    <2>3. CASE BackfillL1(c)
      <3>1. val'[c] = val[c] /\ pc[c] = "backfill"
        BY <2>3 DEF BackfillL1, Answer, IInv, TypeOK
      <3>2. /\ val[c] \in Nat /\ begun[c] \in Nat /\ now \in Nat
            /\ begun[c] < val[c] + Ttl + MaxOp /\ now <= begun[c] + MaxOp
        BY <3>1 DEF IInv, TypeOK, FlightInv, ClockInv, Resting
      <3> QED BY <3>1, <3>2 DEF MaxAge
    <2>4. CASE SetL2(c) \/ SetL2Fails(c)
      <3>1. val'[c] = val[c] /\ pc[c] = "setL2"
        BY <2>4 DEF SetL2, SetL2Fails, Answer, IInv, TypeOK
      <3>2. /\ val[c] \in Nat /\ begun[c] \in Nat /\ now \in Nat
            /\ begun[c] <= val[c] /\ now <= begun[c] + MaxOp
        BY <3>1 DEF IInv, TypeOK, FlightInv, ClockInv, Resting
      <3>3. Ttl >= 1 /\ Ttl \in Int /\ Backfill \in Nat /\ MaxOp \in Nat
        OBVIOUS
      <3>4. now <= val[c] + MaxOp
        BY <3>2, <3>3
      <3>5. MaxOp < MaxAge /\ MaxAge \in Int
        BY <3>3 DEF MaxAge
      <3>6. now - val[c] < MaxAge
        BY <3>2, <3>3, <3>4, <3>5
      <3> QED BY <3>1, <3>6
    <2> QED BY <2>1, <2>2, <2>3, <2>4
  <1> QED BY <1>1, InvariantHolds, PTL DEF Spec, AgeIsBounded

(* For any number of instances and lookups, a tenant whose record is in    *)
(* Redis is not turned away for a failing database before Ttl has passed   *)
(* (handler.go:66-76, cache.go:41-67).                                     *)
THEOREM PartitionIsBridged == Spec => ServedDuringPartition
  <1>1. IInv /\ [Next]_vars =>
          [\A c \in Lookups :
              pc[c] = "query" /\ pc'[c] = "denied" =>
                  begun[c] <= cover.from \/ now >= cover.until]_vars
    BY DEF IInv, CoverInv
  <1> QED BY <1>1, InvariantHolds, PTL DEF Spec, ServedDuringPartition
-----------------------------------------------------------------------------
(* The refinement. What carries a record, spelled out. *)
Flight == {"backfill", "setL1", "setL2"}

LEMMA InRecords ==
  ASSUME NEW v
  PROVE  v \in Records <=> \/ \E n \in Nodes : \E e \in Held(n) : Live(e) /\ v = e.at
                           \/ Live(l2) /\ v = l2.at
                           \/ \E c \in Lookups : pc[c] \in Flight /\ v = val[c]
  BY DEF Records, InMemory, InRedis, Carried, Flight

LEMMA InRecordsNext ==
  ASSUME NEW v
  PROVE  v \in Records' <=> \/ \E n \in Nodes : \E e \in Held(n)' :
                                   now' < e.exp /\ v = e.at
                            \/ now' < l2'.exp /\ v = l2'.at
                            \/ \E c \in Lookups : pc'[c] \in Flight /\ v = val'[c]
  BY DEF Records, InMemory, InRedis, Carried, Flight, Live

(* No copy of a record, wherever it is, is as old as MaxAge. *)
LEMMA RecordsAreYoung ==
  ASSUME IInv, NEW v \in Records
  PROVE  v \in Nat /\ now - v < MaxAge
  <1> USE CacheAssumption
  <1>0. now \in Nat /\ MaxAge \in Nat /\ MaxOp < MaxAge /\ Ttl + MaxOp <= MaxAge
        /\ Ttl + 2 * MaxOp <= MaxAge
    BY DEF IInv, TypeOK, MaxAge
  <1>1. ASSUME NEW n \in Nodes, NEW e \in Held(n), Live(e), v = e.at
        PROVE  v \in Nat /\ now - v < MaxAge
    <2>0. e \in Entry
      BY DEF IInv, TypeOK, Held
    <2>1. e.at \in Nat /\ e.exp \in Nat /\ e.exp <= e.at + MaxAge
      BY <2>0 DEF IInv, TierInv, Entry
    <2>2. now < e.exp
      BY <1>1 DEF Live
    <2> QED BY <1>0, <1>1, <2>1, <2>2
  <1>2. ASSUME Live(l2), v = l2.at
        PROVE  v \in Nat /\ now - v < MaxAge
    <2>1. /\ l2.at \in Nat /\ l2.exp \in Nat
          /\ l2.exp <= l2.at + Ttl + MaxOp
      BY DEF IInv, TypeOK, TierInv, Entry
    <2>2. now < l2.exp
      BY <1>2 DEF Live
    <2> QED BY <1>0, <1>2, <2>1, <2>2
  <1>3. ASSUME NEW c \in Lookups, pc[c] \in Flight, v = val[c]
        PROVE  v \in Nat /\ now - v < MaxAge
    <2>1. /\ val[c] \in Nat /\ begun[c] \in Nat
          /\ now <= begun[c] + MaxOp
          /\ begun[c] <= val[c] \/ begun[c] < val[c] + Ttl + MaxOp
      BY <1>3 DEF IInv, TypeOK, ClockInv, FlightInv, Flight, Resting
    <2> QED BY <1>0, <1>3, <2>1
  <1> QED BY <1>1, <1>2, <1>3, InRecords

Young == \A v \in Records : now - v < MaxAge

(* A lookup that moves changes its own stage and answer only. *)
LEMMA LookupMoves ==
  ASSUME pc \in [Lookups -> {"idle", "redis", "backfill", "query", "setL1",
                             "setL2", "answered", "denied"}],
         NEW c \in Lookups, NEW l, pc' = [pc EXCEPT ![c] = l],
         \A d \in Lookups : d # c => val'[d] = val[d],
         NEW s, s = (IF l = "answered" THEN "answered"
                     ELSE IF l \in Resting THEN "resting" ELSE "looking"),
         NEW a, a = IF l = "answered" THEN val'[c] ELSE 0
  PROVE  Store!Move(c, s, a)
  <1>1. Stages' = [Stages EXCEPT ![c] = s]
    BY DEF Stages, StageOf
  <1>2. Answers' = [Answers EXCEPT ![c] = a]
    BY DEF Answers
  <1> QED BY <1>1, <1>2 DEF Store!Move

(* A lookup that moves on without an answer is still looking. *)
LEMMA StillLooking ==
  ASSUME pc \in [Lookups -> {"idle", "redis", "backfill", "query", "setL1",
                             "setL2", "answered", "denied"}],
         NEW c \in Lookups, pc[c] \notin Resting,
         NEW l, l \notin Resting, pc' = [pc EXCEPT ![c] = l],
         \A d \in Lookups : d # c => val'[d] = val[d]
  PROVE  UNCHANGED <<Stages, Answers>>
  BY DEF Stages, StageOf, Answers, Resting

(* No outcome of a set makes a record. *)
LEMMA PutMakesNone ==
  ASSUME IInv, NEW n \in Nodes, NEW w \in Nat, NEW ttl \in Nat, Put(n, w, ttl),
         NEW m \in Nodes, NEW e \in Held(m)'
  PROVE  e.at = w \/ e \in Held(m)
  <1>1. Held(m)' \subseteq Held(m) \cup {[at |-> w, exp |-> now + ttl]}
    BY PutHolds
  <1> QED BY <1>1

(* What an instance holds, when neither its memory nor its buffer changes. *)
LEMMA HeldKept ==
  ASSUME UNCHANGED <<l1, buf>>
  PROVE  \A n \in Nodes : Held(n)' = Held(n)
  BY DEF Held

LEMMA GetRefines ==
  ASSUME IInv, NEW c \in Lookups, GetHit(c) \/ GetMiss(c)
  PROVE  Store!Next
  <1>1. /\ pc \in [Lookups -> {"idle", "redis", "backfill", "query", "setL1",
                               "setL2", "answered", "denied"}]
        /\ val \in [Lookups -> Nat] /\ Home[c] \in Nodes
    BY CacheAssumption DEF IInv, TypeOK
  <1>2. pc[c] \in Resting /\ UNCHANGED <<now, l1, buf, l2>>
    BY DEF GetHit, GetMiss
  <1>3. CASE GetHit(c)
    <2>1. /\ pc' = [pc EXCEPT ![c] = "answered"]
          /\ val' = [val EXCEPT ![c] = l1[Home[c]].at]
          /\ Live(l1[Home[c]])
      BY <1>3 DEF GetHit, Answer, Goto
    <2>2. l1[Home[c]].at \in Records
      BY <1>1, <2>1, InRecords DEF Held
    <2>3. now - l1[Home[c]].at < MaxAge
      BY <2>2, RecordsAreYoung
    <2>4. /\ val'[c] = l1[Home[c]].at
          /\ \A d \in Lookups : d # c => val'[d] = val[d]
      BY <1>1, <2>1
    <2>5. Store!Move(c, "answered", l1[Home[c]].at)
      BY <1>1, <2>1, <2>4, LookupMoves
    <2>6. Records' \subseteq Records
      <3> SUFFICES ASSUME NEW v \in Records' PROVE v \in Records
        OBVIOUS
      <3>1. \A d \in Lookups : pc'[d] \in Flight => pc[d] \in Flight /\ val'[d] = val[d]
        BY <1>1, <2>1 DEF Flight
      <3> QED BY <1>2, <3>1, HeldKept, InRecords, InRecordsNext DEF Live
    <2> QED BY <1>2, <2>2, <2>3, <2>5, <2>6 DEF Store!Give, Store!Next
  <1>4. CASE GetMiss(c)
    <2>1. pc' = [pc EXCEPT ![c] = "redis"] /\ val' = [val EXCEPT ![c] = 0]
      BY <1>4 DEF GetMiss, Goto, Fallback
    <2>2. \A d \in Lookups : d # c => val'[d] = val[d]
      BY <1>1, <2>1
    <2>3. Store!Move(c, "looking", 0)
      <3>1. "redis" # "answered" /\ "redis" \notin Resting
        BY DEF Resting
      <3> QED BY <1>1, <2>1, <2>2, <3>1, LookupMoves
    <2>4. Stages[c] # "looking"
      BY <1>2 DEF Stages, StageOf
    <2>5. Records' = Records
      <3>1. \A d \in Lookups : /\ pc'[d] \in Flight <=> pc[d] \in Flight
                               /\ pc[d] \in Flight => val'[d] = val[d]
        BY <1>1, <1>2, <2>1 DEF Flight, Resting
      <3>2. \A v : v \in Records' <=> v \in Records
        BY <1>2, <3>1, HeldKept, InRecords, InRecordsNext DEF Live
      <3>3. Records \subseteq Records' /\ Records' \subseteq Records
        BY <3>2
      <3> QED BY <3>3
    <2> QED BY <1>2, <2>3, <2>4, <2>5 DEF Store!Begin, Store!Next
  <1> QED BY <1>3, <1>4

(* What happens in Redis, in the database and in the first half of a set:  *)
(* the lookup goes on, and only the database makes a record.               *)
LEMMA OnTheWayRefines ==
  ASSUME IInv, NEW c \in Lookups,
         RedisHit(c) \/ RedisMiss(c) \/ RedisFails(c) \/ SetL1(c) \/ Query(c)
  PROVE  Store!Next
  <1>1. /\ pc \in [Lookups -> {"idle", "redis", "backfill", "query", "setL1",
                               "setL2", "answered", "denied"}]
        /\ val \in [Lookups -> Nat] /\ Home[c] \in Nodes /\ val[c] \in Nat
        /\ now \in Nat /\ Ttl \in Nat
    BY CacheAssumption DEF IInv, TypeOK
  <1>2. PICK l \in {"backfill", "query", "setL1", "setL2"} :
           /\ pc' = [pc EXCEPT ![c] = l]
           /\ l = "backfill" => RedisHit(c)
           /\ l = "query" => UNCHANGED <<l1, buf>>
           /\ l = "setL2" => SetL1(c)
           /\ l = "setL1" => Query(c)
    BY DEF RedisHit, RedisMiss, RedisFails, SetL1, Query, Goto
  <1>3. /\ pc[c] \in {"redis", "setL1", "query"}
        /\ UNCHANGED <<now, l2>>
        /\ \A d \in Lookups : d # c => val'[d] = val[d]
    BY <1>1 DEF RedisHit, RedisMiss, RedisFails, SetL1, Query
  <1>4. UNCHANGED <<Stages, Answers>>
    BY <1>1, <1>2, <1>3, StillLooking DEF Resting
  <1>5. \A d \in Lookups : d # c => pc'[d] = pc[d]
    BY <1>1, <1>2
  <1>6. pc'[c] = l
    BY <1>1, <1>2
  <1>7. CASE ~Query(c)
    <2>1. Records' \subseteq Records
      <3> SUFFICES ASSUME NEW v \in Records' PROVE v \in Records
        OBVIOUS
      <3>1. CASE \E n \in Nodes : \E e \in Held(n)' : now' < e.exp /\ v = e.at
        <4>0. PICK n \in Nodes : \E e \in Held(n)' : now' < e.exp /\ v = e.at
          BY <3>1
        <4>1. PICK e \in Held(n)' : now' < e.exp /\ v = e.at
          BY <4>0
        <4>2. CASE UNCHANGED <<l1, buf>>
          BY <1>3, <4>1, <4>2, HeldKept, InRecords DEF Live
        <4>3. CASE SetL1(c)
          <5>1. Put(Home[c], val[c], Ttl) /\ pc[c] = "setL1"
            BY <4>3 DEF SetL1
          <5>2. v = val[c] \/ (e \in Held(n) /\ Live(e) /\ v = e.at)
            BY <1>1, <1>3, <4>1, <5>1, PutMakesNone DEF Live
          <5> QED BY <5>1, <5>2, InRecords DEF Flight
        <4> QED BY <1>7, <4>2, <4>3 DEF RedisHit, RedisMiss, RedisFails
      <3>2. CASE now' < l2'.exp /\ v = l2'.at
        BY <1>3, <3>2, InRecords DEF Live
      <3>3. CASE \E d \in Lookups : pc'[d] \in Flight /\ v = val'[d]
        <4>1. PICK d \in Lookups : pc'[d] \in Flight /\ v = val'[d]
          BY <3>3
        <4>2. CASE d # c
          BY <1>3, <1>5, <4>1, <4>2, InRecords
        <4>3. CASE d = c /\ l = "backfill"
          <5>1. Live(l2) /\ val'[c] = l2.at
            BY <1>1, <1>2, <4>3 DEF RedisHit
          <5> QED BY <4>1, <4>3, <5>1, InRecords
        <4>4. CASE d = c /\ l = "setL2"
          <5>1. pc[c] = "setL1" /\ val' = val
            BY <1>2, <4>4 DEF SetL1
          <5> QED BY <4>1, <4>4, <5>1, InRecords DEF Flight
        <4> QED BY <1>2, <1>6, <1>7, <4>1, <4>2, <4>3, <4>4 DEF Flight
      <3> QED BY <3>1, <3>2, <3>3, InRecordsNext
    <2> QED BY <1>3, <1>4, <2>1 DEF Store!Forget, Store!Next
  <1>8. CASE Query(c)
    <2>1. /\ pc[c] = "query" /\ pc'[c] = "setL1"
          /\ val'[c] = now /\ UNCHANGED <<l1, buf>>
      BY <1>1, <1>8 DEF Query, Goto
    <2>2. Stages[c] = "looking"
      BY <2>1 DEF Stages, StageOf, Resting
    <2>3. \A v : v \in Records' <=> v \in Records \/ v = now
      <3> TAKE v
      <3>1. (\E d \in Lookups : pc'[d] \in Flight /\ v = val'[d])
              <=> v = now \/ \E d \in Lookups : pc[d] \in Flight /\ v = val[d]
        BY <1>3, <1>5, <2>1 DEF Flight
      <3> QED BY <1>3, <2>1, <3>1, HeldKept, InRecords, InRecordsNext DEF Live
    <2>4. Records' = Records \cup {now}
      BY <2>3
    <2> QED BY <1>3, <1>4, <2>2, <2>4 DEF Store!Read, Store!Next
  <1> QED BY <1>7, <1>8

(* The answer is what the lookup carried; its last step makes no record.   *)
LEMMA LastRefines ==
  ASSUME IInv, NEW c \in Lookups, BackfillL1(c) \/ SetL2(c) \/ SetL2Fails(c)
  PROVE  Store!Next
  <1>1. /\ pc \in [Lookups -> {"idle", "redis", "backfill", "query", "setL1",
                               "setL2", "answered", "denied"}]
        /\ val \in [Lookups -> Nat] /\ Home[c] \in Nodes /\ val[c] \in Nat
        /\ now \in Nat /\ Backfill \in Nat
    BY CacheAssumption DEF IInv, TypeOK
  <1>2. /\ pc[c] \in Flight /\ now' = now
        /\ pc' = [pc EXCEPT ![c] = "answered"]
        /\ val' = [val EXCEPT ![c] = val[c]]
    BY DEF BackfillL1, SetL2, SetL2Fails, Answer, Goto, Flight
  <1>3. val[c] \in Records
    BY <1>2, InRecords
  <1>4. now - val[c] < MaxAge
    BY <1>3, RecordsAreYoung
  <1>5. val'[c] = val[c] /\ \A d \in Lookups : val'[d] = val[d]
    BY <1>1, <1>2
  <1>6. Store!Move(c, "answered", val[c])
    BY <1>1, <1>2, <1>5, LookupMoves
  <1>7. Records' \subseteq Records
    <2> SUFFICES ASSUME NEW v \in Records' PROVE v \in Records
      OBVIOUS
    <2>1. CASE \E n \in Nodes : \E e \in Held(n)' : now' < e.exp /\ v = e.at
      <3>0. PICK n \in Nodes : \E e \in Held(n)' : now' < e.exp /\ v = e.at
        BY <2>1
      <3>1. PICK e \in Held(n)' : now' < e.exp /\ v = e.at
        BY <3>0
      <3>2. CASE UNCHANGED <<l1, buf>>
        BY <1>2, <3>1, <3>2, HeldKept, InRecords DEF Live
      <3>3. CASE BackfillL1(c)
        <4>1. Put(Home[c], val[c], Backfill)
          BY <3>3 DEF BackfillL1
        <4>2. v = val[c] \/ (e \in Held(n) /\ Live(e) /\ v = e.at)
          BY <1>1, <1>2, <3>1, <4>1, PutMakesNone DEF Live
        <4> QED BY <1>3, <4>2, InRecords
      <3> QED BY <3>2, <3>3 DEF SetL2, SetL2Fails
    <2>2. CASE now' < l2'.exp /\ v = l2'.at
      <3>1. CASE UNCHANGED l2
        BY <1>2, <2>2, <3>1, InRecords DEF Live
      <3>2. CASE SetL2(c)
        <4>1. l2'.at = val[c]
          BY <3>2 DEF SetL2
        <4> QED BY <1>3, <2>2, <4>1
      <3> QED BY <3>1, <3>2 DEF BackfillL1, LeaveRedis, SetL2Fails
    <2>3. CASE \E d \in Lookups : pc'[d] \in Flight /\ v = val'[d]
      <3>1. \A d \in Lookups : pc'[d] \in Flight => pc[d] \in Flight
        BY <1>1, <1>2 DEF Flight
      <3> QED BY <1>5, <2>3, <3>1, InRecords
    <2> QED BY <2>1, <2>2, <2>3, InRecordsNext
  <1> QED BY <1>2, <1>3, <1>4, <1>6, <1>7 DEF Store!Give, Store!Next

LEMMA DenyRefines ==
  ASSUME IInv, NEW c \in Lookups, QueryFails(c)
  PROVE  Store!Next
  <1>1. /\ pc \in [Lookups -> {"idle", "redis", "backfill", "query", "setL1",
                               "setL2", "answered", "denied"}]
        /\ val' = val /\ UNCHANGED <<now, l1, buf, l2>>
        /\ pc[c] = "query" /\ pc' = [pc EXCEPT ![c] = "denied"]
    BY DEF IInv, TypeOK, QueryFails, Goto
  <1>2. Store!Move(c, "resting", 0)
    <2>1. "denied" # "answered" /\ "denied" \in Resting
      BY DEF Resting
    <2> QED BY <1>1, <2>1, LookupMoves
  <1>3. Stages[c] = "looking"
    BY <1>1 DEF Stages, StageOf, Resting
  <1>4. \A d \in Lookups : pc'[d] \in Flight <=> pc[d] \in Flight
    BY <1>1 DEF Flight
  <1>5. \A v : v \in Records' <=> v \in Records
    BY <1>1, <1>4, HeldKept, InRecords, InRecordsNext DEF Live
  <1>6. Records' = Records
    <2>1. Records' \subseteq Records /\ Records \subseteq Records'
      BY <1>5
    <2> QED BY <2>1
  <1> QED BY <1>1, <1>2, <1>3, <1>6 DEF Store!Deny, Store!Next

LEMMA EvictRefines ==
  ASSUME IInv, EvictL2 \/ \E n \in Nodes : ApplySet(n) \/ EvictL1(n)
  PROVE  Store!Next
  <1>1. UNCHANGED <<now, pc, val>> /\ now \in Nat
    BY DEF EvictL1, EvictL2, ApplySet, IInv, TypeOK
  <1>2. UNCHANGED <<Stages, Answers>>
    BY <1>1 DEF Stages, StageOf, Answers
  <1>3. \A n \in Nodes : Held(n)' \subseteq Held(n) \cup {None}
    <2>1. CASE EvictL2
      BY <2>1, HeldKept DEF EvictL2
    <2> QED BY <2>1, MemoryShrinks
  <1>4. now' < l2'.exp => Live(l2) /\ l2'.at = l2.at
    BY <1>1, NoneType DEF EvictL1, EvictL2, ApplySet, IInv, TypeOK, Live
  <1>5. ASSUME NEW n \in Nodes, NEW e \in Held(n)', now' < e.exp
        PROVE  e \in Held(n) /\ Live(e)
    <2>1. e # None
      BY <1>1, <1>5, NoneType
    <2> QED BY <1>1, <1>3, <1>5, <2>1 DEF Live
  <1>6. Records' \subseteq Records
    <2> SUFFICES ASSUME NEW v \in Records' PROVE v \in Records
      OBVIOUS
    <2> QED BY <1>1, <1>4, <1>5, InRecords, InRecordsNext
  <1> QED BY <1>1, <1>2, <1>6 DEF Store!Forget, Store!Next

(* The clock ages every copy, and the bounds of the tiers drop the old ones*)
(* in time.                                                                *)
LEMMA TickRefines ==
  ASSUME IInv, Young', Tick
  PROVE  Store!Next
  <1>1. UNCHANGED <<pc, val>> /\ now' = now + 1 /\ now \in Nat
    BY DEF Tick, IInv, TypeOK
  <1>2. UNCHANGED <<Stages, Answers>>
    BY <1>1 DEF Stages, StageOf, Answers
  <1>3. ASSUME NEW n \in Nodes, NEW e \in Held(n)', now' < e.exp
        PROVE  e \in Held(n) /\ Live(e)
    <2>1. /\ l1'[n] = (IF now + 1 < l1[n].exp THEN l1[n] ELSE None)
          /\ buf'[n] \subseteq buf[n]
      BY DEF Tick, Expire
    <2>2. e # None
      BY <1>1, <1>3, NoneType
    <2>3. e \in Held(n)
      BY <2>1, <2>2 DEF Held
    <2>4. e \in Entry
      BY <2>3 DEF IInv, TypeOK, Held
    <2>5. e.exp \in Nat
      BY <2>4 DEF Entry
    <2> QED BY <1>1, <1>3, <2>3, <2>5 DEF Live
  <1>4. now' < l2'.exp => Live(l2) /\ l2'.at = l2.at
    <2>1. l2' = (IF now + 1 < l2.exp THEN l2 ELSE None)
      BY DEF Tick, Expire
    <2>2. l2.exp \in Nat
      BY DEF IInv, TypeOK, Entry
    <2> QED BY <1>1, <2>1, <2>2, NoneType DEF Live
  <1>5. ASSUME NEW v \in Records' PROVE v \in Records /\ now' - v < MaxAge
    <2>1. v \in Records
      BY <1>1, <1>3, <1>4, <1>5, InRecords, InRecordsNext
    <2>2. now' - v < MaxAge
      BY <1>5 DEF Young
    <2> QED BY <2>1, <2>2
  <1>6. Records' \subseteq {v \in Records : now' - v < MaxAge}
    BY <1>5
  <1> QED BY <1>1, <1>2, <1>6 DEF Store!Tick, Store!Next

(* For any number of instances and lookups, and any times to live, the two *)
(* tiers are one store whose records come from the database alone and get  *)
(* no older than MaxAge (cache.go:41-67, handler.go:63-76).                *)
THEOREM ImplementsRecordStore == Spec => IsRecordStore
  <1>1. Init => Store!Init
    <2> SUFFICES ASSUME Init PROVE Store!Init
      OBVIOUS
    <2>1. Records = {}
      <3>1. \A v : v \notin Records
        BY NoneType, InRecords DEF Init, Live, Flight, Held
      <3> QED BY <3>1
    <2>2. Stages = [c \in Lookups |-> "resting"]
      BY DEF Init, Stages, StageOf, Resting
    <2>3. Answers = [c \in Lookups |-> 0]
      BY DEF Init, Answers
    <2>4. now = 0
      BY DEF Init
    <2> QED BY <2>1, <2>2, <2>3, <2>4 DEF Store!Init
  <1>2. IInv => Young
    BY RecordsAreYoung DEF Young
  <1>3. IInv /\ Young' /\ [Next]_vars => [Store!Next]_(Store!vars)
    <2> SUFFICES ASSUME IInv, Young', [Next]_vars
                 PROVE  Store!Next \/ UNCHANGED Store!vars
      OBVIOUS
    <2>1. CASE UNCHANGED vars
      <3>1. UNCHANGED <<now, l1, buf, l2, pc, val>>
        BY <2>1 DEF vars
      <3>2. UNCHANGED <<Stages, Answers>>
        BY <3>1 DEF Stages, StageOf, Answers
      <3>3. Records' = Records
        BY <3>1 DEF Records, InMemory, InRedis, Carried, Live, Held
      <3> QED BY <3>1, <3>2, <3>3 DEF Store!vars
    <2>2. CASE \E c \in Lookups : Lookup(c)
      BY <2>2, GetRefines, OnTheWayRefines, LastRefines, DenyRefines DEF Lookup
    <2> QED BY <2>1, <2>2, EvictRefines, TickRefines DEF Next
  <1> QED BY <1>1, <1>2, <1>3, InvariantHolds, PTL
          DEF Spec, IsRecordStore, Store!Spec
=============================================================================
