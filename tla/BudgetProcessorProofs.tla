------------------------ MODULE BudgetProcessorProofs ------------------------
(***************************************************************************)
(* Proofs about BudgetProcessor for any tenants, costs, unit and batch     *)
(* size, any number of events and any number of restarts.                  *)
(***************************************************************************)
EXTENDS BudgetProcessor, TLAPS

(* Outside a flush there is nothing left to write, during one nothing is   *)
(* pending, and an amount is never without its key.                        *)
BatchInv ==
    /\ pc \in {"select", "read", "stopped"} => todo = {}
    /\ todo # {} => dirty = {}
    /\ \A t \in Tenants : /\ t \notin todo => updates[t] = 0
                          /\ t \notin dirty => pending[t] = 0

(* What has been counted has been committed. *)
OffsetInv == applied <= committed

(* NeverOvercharged and TruncationBound, for one tenant. *)
Books(t) ==
    /\ Unit * spent[t] + pending[t] + updates[t] <= charged[t]
    /\ t \notin lost =>
          charged[t] - (Unit * spent[t] + pending[t] + updates[t])
              <= (Unit - 1) * flushes[t]

BooksInv == \A t \in Tenants : Books(t)

IInv == TypeOK /\ OffsetInv /\ BatchInv /\ BooksInv
-----------------------------------------------------------------------------
(* int(cost) loses less than one cent and never rounds up. *)
LEMMA Truncation ==
  ASSUME NEW u \in Nat, NEW n \in Nat \ {0}
  PROVE  /\ u \div n \in Nat
         /\ n * (u \div n) \in Nat
         /\ n * (u \div n) <= u
         /\ u - n * (u \div n) <= n - 1
  OBVIOUS

LEMMA Distributes ==
  ASSUME NEW a \in Int, NEW b \in Int, NEW c \in Int
  PROVE  a * (b + c) = a * b + a * c
  OBVIOUS

LEMMA ProductNat ==
  ASSUME NEW a \in Nat, NEW b \in Nat
  PROVE  a * b \in Nat
  OBVIOUS

LEMMA ZeroType == Zero \in [Tenants -> Nat] /\ \A t \in Tenants : Zero[t] = 0
  BY DEF Zero

LEMMA InitEstablishes == Init => IInv
  <1> SUFFICES ASSUME Init PROVE IInv
    OBVIOUS
  <1>0. <<>> \in Seq(Message) /\ Len(<<>>) = 0
    OBVIOUS
  <1>1. TypeOK
    <2>1. 0 \in Nat /\ 0 <= 0
      OBVIOUS
    <2>2. /\ topic \in Seq(Message) /\ committed \in Nat /\ position \in Nat
          /\ committed <= position /\ position <= Len(topic)
      BY <1>0, <2>1 DEF Init
    <2>3. tick \in BOOLEAN /\ cancelled \in BOOLEAN
      BY DEF Init
    <2> QED BY <2>1, <2>2, <2>3, ZeroType DEF Init, TypeOK
  <1>3. OffsetInv /\ BatchInv
    BY ZeroType DEF Init, OffsetInv, BatchInv
  <1>2. BooksInv
    BY ZeroType, BudgetAssumption DEF Init, BooksInv, Books
  <1> QED BY <1>1, <1>2, <1>3 DEF IInv
-----------------------------------------------------------------------------
(* The steps that leave the batch and the books alone. *)
LEMMA BooksUnchanged ==
  ASSUME IInv, UNCHANGED <<batch, spent, charged, flushes, lost>>
  PROVE  BooksInv'
  BY DEF IInv, BooksInv, Books, batch

LEMMA OutsideKeeps ==
  ASSUME IInv, TickerFires \/ CancelCtx \/ \E m \in Message : Publish(m)
  PROVE  IInv'
  <1>1. UNCHANGED <<committed, position, pc, batch, spent, crashes, history>>
    BY DEF TickerFires, CancelCtx, Publish, kafka
  <1>2. /\ topic' \in Seq(Message) /\ Len(topic') >= Len(topic)
        /\ tick' \in BOOLEAN /\ cancelled' \in BOOLEAN
    <2>1. topic \in Seq(Message) /\ tick \in BOOLEAN /\ cancelled \in BOOLEAN
      BY DEF IInv, TypeOK
    <2>2. CASE TickerFires \/ CancelCtx
      <3>1. topic' = topic /\ Len(topic) \in Nat
        BY <2>1, <2>2 DEF TickerFires, CancelCtx, kafka
      <3>2. tick' \in BOOLEAN /\ cancelled' \in BOOLEAN
        BY <2>1, <2>2 DEF TickerFires, CancelCtx
      <3> QED BY <2>1, <3>1, <3>2
    <2>3. ASSUME NEW m \in Message, Publish(m)
          PROVE  /\ topic' \in Seq(Message) /\ Len(topic') >= Len(topic)
                 /\ tick' \in BOOLEAN /\ cancelled' \in BOOLEAN
      <3>1. topic' = Append(topic, m)
        BY <2>3 DEF Publish
      <3>2. topic' \in Seq(Message) /\ Len(topic') >= Len(topic)
        BY <2>1, <3>1
      <3>3. tick' \in BOOLEAN /\ cancelled' \in BOOLEAN
        BY <2>1, <2>3 DEF Publish
      <3> QED BY <3>2, <3>3
    <2> QED BY <2>2, <2>3
  <1>3. position' <= Len(topic')
    BY <1>1, <1>2 DEF IInv, TypeOK
  <1>4. TypeOK'
    BY <1>1, <1>2, <1>3 DEF IInv, TypeOK, batch, history
  <1>5. OffsetInv' /\ BatchInv'
    BY <1>1 DEF IInv, OffsetInv, BatchInv, batch, history
  <1>6. BooksInv'
    BY <1>1, BooksUnchanged DEF history
  <1> QED BY <1>4, <1>5, <1>6 DEF IInv

(* Reads that count nothing. *)
LEMMA IdleReadKeeps ==
  ASSUME IInv,
         SelectDefault \/ ReadGarbage \/ ReadCommitFails \/ ReadCancelled
  PROVE  IInv'
  <1>1. /\ UNCHANGED <<topic, tick, cancelled, batch, spent, crashes, history>>
        /\ pc \in {"select", "read"} /\ pc' \in {"select", "read"}
    BY DEF SelectDefault, ReadGarbage, ReadCommitFails, ReadCancelled, Fetch, Commit, Continue, kafka
  <1>2. /\ committed' \in Nat /\ position' \in Nat /\ committed <= committed'
        /\ committed' <= position' /\ position' <= Len(topic)
    BY DEF IInv, TypeOK, SelectDefault, ReadGarbage, Commit, ReadCommitFails,
           ReadCancelled, Fetch, kafka
  <1>3. TypeOK'
    BY <1>1, <1>2 DEF IInv, TypeOK, batch, history
  <1>4. OffsetInv'
    BY <1>1, <1>2 DEF IInv, TypeOK, OffsetInv, history
  <1>5. BatchInv'
    BY <1>1 DEF IInv, BatchInv, batch
  <1>6. BooksInv'
    BY <1>1, BooksUnchanged DEF history
  <1> QED BY <1>3, <1>4, <1>5, <1>6 DEF IInv

(* flush moves the pending amounts, all of them, into its own map. *)
LEMMA FlushKeeps ==
  ASSUME IInv, NEW kind \in {"flush", "finalFlush"}, NEW d \in SUBSET Tenants,
         NEW p \in [Tenants -> Nat], \A t \in Tenants : t \notin d => p[t] = 0,
         Flush(kind, d, p)
  PROVE  /\ pc' \in {"select", "flush", "finalFlush", "stopped"}
         /\ dirty' \subseteq Tenants /\ todo' \subseteq Tenants
         /\ pending' \in [Tenants -> Nat] /\ updates' \in [Tenants -> Nat]
         /\ BatchInv'
         /\ \A t \in Tenants : pending'[t] = 0 /\ updates'[t] = p[t]
  BY ZeroType DEF Flush, NewMap, BatchInv

LEMMA SelectFlushKeeps ==
  ASSUME IInv, SelectDone \/ SelectTick
  PROVE  IInv'
  <1>1. PICK kind \in {"flush", "finalFlush"} : Flush(kind, dirty, pending)
    BY DEF SelectDone, SelectTick
  <1>2. dirty \in SUBSET Tenants /\ pending \in [Tenants -> Nat]
    BY DEF IInv, TypeOK
  <1>3. \A t \in Tenants : t \notin dirty => pending[t] = 0
    BY DEF IInv, BatchInv
  <1>4. /\ pc' \in {"select", "flush", "finalFlush", "stopped"}
        /\ dirty' \subseteq Tenants /\ todo' \subseteq Tenants
        /\ pending' \in [Tenants -> Nat] /\ updates' \in [Tenants -> Nat]
        /\ BatchInv'
        /\ \A t \in Tenants : pending'[t] = 0 /\ updates'[t] = pending[t]
    BY <1>1, <1>2, <1>3, FlushKeeps
  <1>5. /\ UNCHANGED <<kafka, cancelled, spent, crashes, history>>
        /\ tick' \in BOOLEAN /\ pc = "select"
    BY DEF SelectDone, SelectTick, IInv, TypeOK
  <1>6. TypeOK'
    BY <1>4, <1>5 DEF IInv, TypeOK, kafka, history
  <1>7. OffsetInv'
    BY <1>5 DEF IInv, OffsetInv, kafka, history
  <1>8. BooksInv'
    <2> SUFFICES ASSUME NEW t \in Tenants PROVE Books(t)'
      BY DEF BooksInv
    <2>1. updates[t] = 0
      BY <1>5 DEF IInv, BatchInv
    <2>2. pending'[t] + updates'[t] = pending[t] + updates[t]
      BY <1>2, <1>4, <2>1
    <2>3. /\ Unit * spent[t] \in Nat /\ pending[t] \in Nat /\ updates[t] \in Nat
          /\ pending'[t] \in Nat /\ updates'[t] \in Nat
      BY <1>4, BudgetAssumption, ProductNat DEF IInv, TypeOK
    <2>4. Unit * spent[t] + pending'[t] + updates'[t]
             = Unit * spent[t] + pending[t] + updates[t]
      BY <2>2, <2>3
    <2>5. Books(t)
      BY DEF IInv, BooksInv
    <2> QED BY <1>5, <2>4, <2>5 DEF Books, history
  <1> QED BY <1>4, <1>6, <1>7, <1>8 DEF IInv

(* An event is added to what is pending and to what the tenant owes. *)
LEMMA ReadEventKeeps ==
  ASSUME IInv, ReadEvent
  PROVE  IInv' /\ applied' > applied
  <1> DEFINE m == topic[position + 1]
             p == [pending EXCEPT ![m.tenant] = pending[m.tenant] + m.cost]
             d == dirty \cup {m.tenant}
  <1>1. /\ position \in Nat /\ position < Len(topic) /\ topic \in Seq(Message)
        /\ position' = position + 1 /\ committed' = position + 1
        /\ applied' = position + 1 /\ topic' = topic /\ pc = "read"
    BY DEF ReadEvent, Fetch, Commit, IInv, TypeOK
  <1>2. m \in Message
    BY <1>1
  <1>3. m.tenant \in Tenants /\ m.cost \in Nat
    BY <1>2, BudgetAssumption DEF Message
  <1>4. /\ IF Cardinality(d) >= BatchSize
           THEN Flush("flush", d, p)
           ELSE pc' = "select" /\ dirty' = d /\ pending' = p /\ UNCHANGED <<todo, updates>>
        /\ charged' = [charged EXCEPT ![m.tenant] = charged[m.tenant] + m.cost]
        /\ UNCHANGED <<topic, tick, cancelled, spent, crashes, flushes, lost>>
    BY DEF ReadEvent, Commit
  <1> HIDE DEF m
  <1>5. d \in SUBSET Tenants /\ p \in [Tenants -> Nat]
    <2>1. pending \in [Tenants -> Nat] /\ dirty \subseteq Tenants
      BY DEF IInv, TypeOK
    <2>2. pending[m.tenant] + m.cost \in Nat
      BY <1>3, <2>1
    <2>3. p \in [Tenants -> Nat]
      BY <2>1, <2>2
    <2> QED BY <1>3, <2>1, <2>3
  <1>6. \A t \in Tenants : t \notin d => p[t] = 0
    BY <1>3 DEF IInv, BatchInv, TypeOK
  <1>7. \A t \in Tenants : updates[t] = 0
    BY <1>1 DEF IInv, BatchInv
  <1>8. /\ pc' \in {"select", "flush", "finalFlush", "stopped"}
        /\ dirty' \subseteq Tenants /\ todo' \subseteq Tenants
        /\ pending' \in [Tenants -> Nat] /\ updates' \in [Tenants -> Nat]
        /\ BatchInv'
        /\ \A t \in Tenants : pending'[t] + updates'[t] = p[t]
    <2> HIDE DEF p, d
    <2>1. CASE Cardinality(d) >= BatchSize
      <3>1. /\ pc' \in {"select", "flush", "finalFlush", "stopped"}
            /\ dirty' \subseteq Tenants /\ todo' \subseteq Tenants
            /\ pending' \in [Tenants -> Nat] /\ updates' \in [Tenants -> Nat]
            /\ BatchInv'
            /\ \A t \in Tenants : pending'[t] = 0 /\ updates'[t] = p[t]
        BY <1>4, <1>5, <1>6, <2>1, FlushKeeps
      <3>2. \A t \in Tenants : pending'[t] + updates'[t] = p[t]
        BY <1>5, <3>1
      <3> QED BY <3>1, <3>2
    <2>2. CASE ~(Cardinality(d) >= BatchSize)
      <3>1. /\ pc' = "select" /\ dirty' = d /\ pending' = p
            /\ todo' = todo /\ updates' = updates
        BY <1>4, <2>2
      <3>2. BatchInv'
        BY <1>1, <1>6, <3>1 DEF IInv, BatchInv
      <3>3. \A t \in Tenants : pending'[t] + updates'[t] = p[t]
        BY <1>5, <1>7, <3>1
      <3> QED BY <1>5, <3>1, <3>2, <3>3 DEF IInv, TypeOK
    <2> QED BY <2>1, <2>2
  <1>9. charged' \in [Tenants -> Nat]
    BY <1>3, <1>4 DEF IInv, TypeOK
  <1>10. committed <= position
    BY DEF IInv, TypeOK
  <1>11. TypeOK'
    <2>1. /\ topic' \in Seq(Message) /\ committed' \in Nat /\ position' \in Nat
          /\ committed' <= position' /\ position' <= Len(topic') /\ applied' \in Nat
      BY <1>1
    <2>2. /\ tick' \in BOOLEAN /\ cancelled' \in BOOLEAN
          /\ spent' \in [Tenants -> Nat] /\ crashes' \in Nat
          /\ flushes' \in [Tenants -> Nat] /\ lost' \subseteq Tenants
      BY <1>4 DEF IInv, TypeOK
    <2> QED BY <1>8, <1>9, <2>1, <2>2 DEF TypeOK
  <1>12. OffsetInv'
    BY <1>1 DEF OffsetInv
  <1>13. BooksInv'
    <2> SUFFICES ASSUME NEW t \in Tenants PROVE Books(t)'
      BY DEF BooksInv
    <2>1. /\ Unit * spent[t] \in Nat /\ pending[t] \in Nat /\ charged[t] \in Nat
          /\ pending'[t] \in Nat /\ updates'[t] \in Nat /\ charged'[t] \in Nat
          /\ (Unit - 1) * flushes[t] \in Nat
      <3>1. /\ Unit \in Nat /\ Unit - 1 \in Nat
            /\ spent[t] \in Nat /\ flushes[t] \in Nat
        BY BudgetAssumption DEF IInv, TypeOK
      <3>2. Unit * spent[t] \in Nat /\ (Unit - 1) * flushes[t] \in Nat
        BY <3>1, ProductNat
      <3> QED BY <1>8, <1>9, <3>2 DEF IInv, TypeOK
    <2>2. charged'[t] - charged[t] = p[t] - pending[t]
      <3>1. CASE t = m.tenant
        <4>1. charged'[t] = charged[t] + m.cost /\ p[t] = pending[t] + m.cost
          BY <1>4, <3>1 DEF IInv, TypeOK
        <4> QED BY <1>3, <2>1, <4>1
      <3>2. CASE t # m.tenant
        <4>1. charged'[t] = charged[t] /\ p[t] = pending[t]
          BY <1>4, <3>2 DEF IInv, TypeOK
        <4> QED BY <2>1, <4>1
      <3> QED BY <3>1, <3>2
    <2>3. pending'[t] + updates'[t] = p[t] /\ updates[t] = 0 /\ p[t] \in Nat
      BY <1>5, <1>7, <1>8
    <2> HIDE DEF p
    <2>4. Books(t)
      BY DEF IInv, BooksInv
    <2>5. /\ Unit * spent[t] + pending'[t] + updates'[t] <= charged'[t]
          /\ t \notin lost =>
                charged'[t] - (Unit * spent[t] + pending'[t] + updates'[t])
                   <= (Unit - 1) * flushes[t]
      BY <2>1, <2>2, <2>3, <2>4 DEF Books
    <2> QED BY <1>4, <2>5 DEF Books
  <1>14. applied' > applied
    BY <1>1, <1>10 DEF IInv, OffsetInv, TypeOK
  <1> QED BY <1>8, <1>11, <1>12, <1>13, <1>14 DEF IInv

(* One write: the whole cents go to the database, or the tenant has lost   *)
(* the amount; the entry is gone either way.                               *)
LEMMA TurnKeeps ==
  ASSUME IInv, NEW t \in Tenants, UpdateTenantSpend(t) \/ UpdateFails(t)
  PROVE  IInv'
  <1>1. /\ t \in todo /\ todo' = todo \ {t} /\ pc \in {"flush", "finalFlush"}
        /\ updates' = [updates EXCEPT ![t] = 0]
        /\ flushes' = [flushes EXCEPT ![t] = flushes[t] + 1]
        /\ pc' = IF todo # {t} THEN pc
                 ELSE IF pc = "flush" THEN "select" ELSE "stopped"
        /\ UNCHANGED <<kafka, tick, cancelled, dirty, pending, crashes, applied,
                       charged>>
    BY DEF UpdateTenantSpend, UpdateFails, Turn
  <1>2. /\ lost' = lost \/ lost' = lost \cup {t}
        /\ \/ spent' = [spent EXCEPT ![t] = spent[t] + updates[t] \div Unit]
           \/ spent' = spent /\ lost' = lost \cup {t}
    BY DEF UpdateTenantSpend, UpdateFails, Added
  <1>3. Unit \in Nat \ {0}
    BY BudgetAssumption
  <1>4. updates[t] \in Nat /\ updates[t] \div Unit \in Nat
    BY <1>3, Truncation DEF IInv, TypeOK
  <1>5. spent' \in [Tenants -> Nat] /\ lost' \subseteq Tenants
    <2>1. spent[t] + updates[t] \div Unit \in Nat
      BY <1>4 DEF IInv, TypeOK
    <2> QED BY <1>2, <2>1 DEF IInv, TypeOK
  <1>6. updates' \in [Tenants -> Nat] /\ flushes' \in [Tenants -> Nat]
    BY <1>1 DEF IInv, TypeOK
  <1>7. TypeOK'
    BY <1>1, <1>5, <1>6 DEF IInv, TypeOK, kafka
  <1>8. OffsetInv'
    BY <1>1 DEF IInv, OffsetInv, kafka
  <1>9. BatchInv'
    BY <1>1 DEF IInv, BatchInv, TypeOK
  <1>10. BooksInv'
    <2> SUFFICES ASSUME NEW x \in Tenants PROVE Books(x)'
      BY DEF BooksInv
    <2>1. Books(x)
      BY DEF IInv, BooksInv
    <2>2. CASE x # t
      BY <1>1, <1>2, <2>1, <2>2 DEF IInv, TypeOK, Books
    <2>3. CASE x = t
      <3> DEFINE u == updates[t]  w == Unit * spent[t]  v == Unit * (u \div Unit)
                 f == (Unit - 1) * flushes[t]
      <3>1. /\ spent[t] \in Nat /\ flushes[t] \in Nat /\ pending[t] \in Nat
            /\ charged[t] \in Nat /\ Unit - 1 \in Nat
        BY <1>3 DEF IInv, TypeOK
      <3>2. w \in Nat /\ f \in Nat
        BY <1>3, <3>1, ProductNat
      <3>3. v \in Nat /\ v <= u /\ u - v <= Unit - 1
        BY <1>3, <1>4, Truncation
      <3>4. w + pending[t] + u <= charged[t]
        BY <2>1, <2>3 DEF Books
      <3>5. t \notin lost => charged[t] - (w + pending[t] + u) <= f
        BY <2>1, <2>3 DEF Books
      <3>6. (Unit - 1) * flushes'[t] = f + (Unit - 1)
        <4>1. flushes'[t] = flushes[t] + 1
          BY <1>1 DEF IInv, TypeOK
        <4>2. (Unit - 1) * (flushes[t] + 1) = (Unit - 1) * flushes[t] + (Unit - 1) * 1
          BY <3>1, Distributes
        <4> QED BY <3>1, <4>1, <4>2
      <3>7. updates'[t] = 0 /\ pending'[t] = pending[t] /\ charged'[t] = charged[t]
        BY <1>1 DEF IInv, TypeOK
      <3>8. CASE spent' = spent /\ lost' = lost \cup {t}
        <4>1. Unit * spent'[t] = w
          BY <3>8
        <4> HIDE DEF w, f
        <4>2. Unit * spent'[t] + pending'[t] + updates'[t] <= charged'[t]
          BY <1>4, <3>1, <3>2, <3>4, <3>7, <4>1
        <4> QED BY <2>3, <3>8, <4>2 DEF Books
      <3>9. CASE spent' = [spent EXCEPT ![t] = spent[t] + updates[t] \div Unit]
        <4>1. Unit * spent'[t] = w + v
          <5>1. spent'[t] = spent[t] + u \div Unit
            BY <3>9 DEF IInv, TypeOK
          <5>2. Unit * (spent[t] + u \div Unit) = w + v
            BY <1>3, <1>4, <3>1, Distributes
          <5> QED BY <5>1, <5>2
        <4> HIDE DEF w, v, u, f
        <4>2. u \in Nat
          BY <1>4 DEF u
        <4>3. w + v + pending[t] <= charged[t]
          BY <3>1, <3>2, <3>3, <3>4, <4>2
        <4>4. t \notin lost => charged[t] - (w + v + pending[t]) <= f + (Unit - 1)
          BY <1>3, <3>1, <3>2, <3>3, <3>5, <4>2
        <4>5. Unit * spent'[t] + pending'[t] + updates'[t] = w + v + pending[t]
          BY <3>1, <3>2, <3>3, <3>7, <4>1
        <4>6. t \notin lost' => t \notin lost
          BY <1>2
        <4> QED BY <2>3, <3>6, <3>7, <4>3, <4>4, <4>5, <4>6 DEF Books
      <3> QED BY <1>2, <3>8, <3>9
    <2> QED BY <2>2, <2>3
  <1> QED BY <1>7, <1>8, <1>9, <1>10 DEF IInv

(* A restart forgets what was pending and marks its tenants. *)
LEMMA CrashKeeps ==
  ASSUME IInv, Crash
  PROVE  IInv'
  <1>1. TypeOK'
    <2>1. tick' \in BOOLEAN /\ cancelled' \in BOOLEAN
      BY DEF Crash
    <2>2. /\ committed' \in Nat /\ position' \in Nat /\ committed' <= position'
          /\ position' <= Len(topic') /\ crashes' \in Nat
      BY DEF IInv, TypeOK, Crash
    <2>3. lost' \subseteq Tenants
      BY DEF IInv, TypeOK, Crash
    <2> QED BY <2>1, <2>2, <2>3, ZeroType DEF IInv, TypeOK, Crash
  <1>2. OffsetInv' /\ BatchInv'
    BY ZeroType DEF IInv, OffsetInv, BatchInv, Crash
  <1>3. BooksInv'
    <2> SUFFICES ASSUME NEW t \in Tenants PROVE Books(t)'
      BY DEF BooksInv
    <2>1. Books(t)
      BY DEF IInv, BooksInv
    <2>2. /\ Unit * spent[t] \in Nat /\ pending[t] \in Nat /\ updates[t] \in Nat
          /\ charged[t] \in Nat
      BY BudgetAssumption, ProductNat DEF IInv, TypeOK
    <2>3. /\ pending'[t] = 0 /\ updates'[t] = 0 /\ charged' = charged
          /\ spent' = spent /\ flushes' = flushes /\ lost' = lost \cup dirty \cup todo
      BY ZeroType DEF Crash
    <2>4. Unit * spent[t] + 0 + 0 <= charged[t]
      BY <2>1, <2>2 DEF Books
    <2>5. t \notin lost' => pending[t] = 0 /\ updates[t] = 0
      BY <2>3 DEF IInv, BatchInv
    <2>6. t \notin lost' =>
             charged[t] - (Unit * spent[t] + 0 + 0) <= (Unit - 1) * flushes[t]
      BY <2>1, <2>3, <2>5 DEF Books
    <2> QED BY <2>3, <2>4, <2>6 DEF Books
  <1> QED BY <1>1, <1>2, <1>3 DEF IInv

LEMMA NextKeeps == IInv /\ [Next]_vars => IInv'
  <1> SUFFICES ASSUME IInv, [Next]_vars PROVE IInv'
    OBVIOUS
  <1>1. CASE UNCHANGED vars
    <2>1. TypeOK'
      BY <1>1 DEF IInv, TypeOK, vars, kafka, batch, history
    <2>2. OffsetInv' /\ BatchInv'
      BY <1>1 DEF IInv, OffsetInv, BatchInv, vars, kafka, batch, history
    <2>3. BooksInv'
      BY <1>1, BooksUnchanged DEF vars, history
    <2> QED BY <2>1, <2>2, <2>3 DEF IInv
  <1>2. CASE Processor
    BY <1>2, SelectFlushKeeps, IdleReadKeeps, ReadEventKeeps, TurnKeeps DEF Processor
  <1> QED BY <1>1, <1>2, OutsideKeeps, CrashKeeps DEF Next

LEMMA InvariantHolds == Spec => []IInv
  BY InitEstablishes, NextKeeps, PTL DEF Spec

(* The offsets, maps and amounts keep their types; in particular the       *)
(* reader never runs past the topic nor behind the committed offset.       *)
THEOREM TypeCorrect == Spec => []TypeOK
  <1>1. IInv => TypeOK
    BY DEF IInv
  <1> QED BY <1>1, InvariantHolds, PTL

(* No tenant is ever charged more than its events cost, for any number of  *)
(* failed writes and restarts (processor.go:83-102).                       *)
THEOREM NoOvercharge == Spec => []NeverOvercharged
  <1>1. IInv => NeverOvercharged
    BY DEF IInv, BooksInv, Books, NeverOvercharged
  <1> QED BY <1>1, InvariantHolds, PTL

(* Without a failed write or a crash, int(cost) takes less than one cent   *)
(* per write from what is charged (processor.go:97).                       *)
THEOREM TruncationIsBounded == Spec => []TruncationBound
  <1>1. IInv => TruncationBound
    BY DEF IInv, BooksInv, Books, TruncationBound
  <1> QED BY <1>1, InvariantHolds, PTL

(* No event is counted twice, in spite of failing commits and restarts     *)
(* (processor.go:61-74).                                                   *)
THEOREM AtMostOnce == Spec => CountedAtMostOnce
  <1>1. IInv /\ [Next]_vars => [applied' # applied => applied' > applied]_vars
    <2> SUFFICES ASSUME IInv, [Next]_vars, applied' # applied
                 PROVE  applied' > applied
      OBVIOUS
    <2>1. ReadEvent
      BY DEF Next, Processor, Publish, TickerFires, CancelCtx, Crash, SelectDone,
             SelectTick, SelectDefault, ReadGarbage, ReadCommitFails,
             ReadCancelled, UpdateTenantSpend, UpdateFails, Turn, vars, history
    <2> QED BY <2>1, ReadEventKeeps
  <1> QED BY <1>1, InvariantHolds, PTL DEF Spec, CountedAtMostOnce

(* What TopicIsRead rests on: the committed offset never goes back, the    *)
(* reader passes one message at a time and goes back only with a restart,  *)
(* to the committed offset, and nothing leaves the topic                   *)
(* (processor.go:61-65).                                                   *)
THEOREM OffsetsAdvance ==
  Spec => [][/\ committed' >= committed
             /\ \/ position' \in {position, position + 1}
                \/ position' = committed /\ crashes' = crashes + 1
             /\ \A k \in DOMAIN topic : k \in DOMAIN topic' /\ topic'[k] = topic[k]]_vars
  <1>1. IInv /\ [Next]_vars =>
          [/\ committed' >= committed
           /\ \/ position' \in {position, position + 1}
              \/ position' = committed /\ crashes' = crashes + 1
           /\ \A k \in DOMAIN topic : k \in DOMAIN topic' /\ topic'[k] = topic[k]]_vars
    <2> SUFFICES ASSUME IInv, [Next]_vars
                 PROVE  /\ committed' >= committed
                        /\ \/ position' \in {position, position + 1}
                           \/ position' = committed /\ crashes' = crashes + 1
                        /\ \A k \in DOMAIN topic :
                              k \in DOMAIN topic' /\ topic'[k] = topic[k]
      OBVIOUS
    <2>1. /\ committed \in Nat /\ position \in Nat /\ committed <= position
          /\ topic \in Seq(Message)
      BY DEF IInv, TypeOK
    <2>2. CASE ReadEvent \/ ReadGarbage \/ ReadCommitFails
      <3>1. /\ position' = position + 1 /\ topic' = topic
            /\ committed' = committed \/ committed' = position + 1
        BY <2>2 DEF ReadEvent, ReadGarbage, ReadCommitFails, Fetch, Commit
      <3> QED BY <2>1, <3>1
    <2>3. CASE Crash
      BY <2>1, <2>3 DEF Crash
    <2>4. CASE \E m \in Message : Publish(m)
      BY <2>1, <2>4 DEF Publish
    <2>5. CASE UNCHANGED kafka
      BY <2>1, <2>5 DEF kafka
    <2> QED BY <2>2, <2>3, <2>4, <2>5 DEF Next, Processor, TickerFires, CancelCtx,
               SelectDone, SelectTick, SelectDefault, ReadCancelled,
               UpdateTenantSpend, UpdateFails, Turn, vars
  <1> QED BY <1>1, InvariantHolds, PTL DEF Spec
-----------------------------------------------------------------------------
(* The refinement. Moving an amount from pending into updates changes      *)
(* nothing that is owed, since at most one of the two maps is in use.      *)
LEMMA OwedType == IInv => /\ Owed \in [Tenants -> Nat]
                          /\ \A t \in Tenants : Owed[t] = pending[t] + updates[t]
  BY DEF IInv, TypeOK, Owed

LEMMA InitRefines == Init => Account!Init
  BY DEF Init, Account!Init, Owed, Zero

LEMMA MoveRefines ==
  ASSUME IInv, SelectDone \/ SelectTick
  PROVE  UNCHANGED Account!vars
  <1>1. PICK kind \in {"flush", "finalFlush"} : Flush(kind, dirty, pending)
    BY DEF SelectDone, SelectTick
  <1>2. /\ UNCHANGED <<kafka, spent, history>> /\ pc = "select"
    BY DEF SelectDone, SelectTick
  <1>3. \A t \in Tenants : pending'[t] = 0 /\ updates'[t] = pending[t] /\ updates[t] = 0
    BY <1>1, <1>2, ZeroType DEF Flush, NewMap, IInv, BatchInv
  <1>4. \A t \in Tenants : pending[t] + updates[t] = pending'[t] + updates'[t]
    BY <1>3 DEF IInv, TypeOK
  <1>5. Owed' = Owed
    BY <1>4 DEF Owed
  <1> QED BY <1>2, <1>5 DEF Account!vars, kafka, history

LEMMA ReadEventRefines ==
  ASSUME IInv, ReadEvent
  PROVE  Account!Next
  <1> DEFINE m == topic[position + 1]
             p == [pending EXCEPT ![m.tenant] = pending[m.tenant] + m.cost]
             d == dirty \cup {m.tenant}
  <1>1. /\ position \in Nat /\ position < Len(topic) /\ topic \in Seq(Message)
        /\ applied' = position + 1 /\ topic' = topic /\ pc = "read"
        /\ m.ok /\ spent' = spent
    BY DEF ReadEvent, Fetch, Commit, IInv, TypeOK
  <1>2. m \in Message /\ position + 1 \in DOMAIN topic
    BY <1>1
  <1>3. m.tenant \in Tenants /\ m.cost \in Nat
    BY <1>2, BudgetAssumption DEF Message
  <1>4. IF Cardinality(d) >= BatchSize
        THEN Flush("flush", d, p)
        ELSE pc' = "select" /\ dirty' = d /\ pending' = p /\ UNCHANGED <<todo, updates>>
    BY DEF ReadEvent
  <1>5. \A t \in Tenants : updates[t] = 0 /\ p[t] \in Nat
    <2> HIDE DEF m
    <2>1. pending \in [Tenants -> Nat]
      BY DEF IInv, TypeOK
    <2>2. pending[m.tenant] + m.cost \in Nat
      BY <1>3, <2>1
    <2>3. p \in [Tenants -> Nat]
      BY <2>1, <2>2
    <2>4. \A t \in Tenants : updates[t] = 0
      BY <1>1 DEF IInv, BatchInv
    <2> QED BY <2>3, <2>4
  <1>6. \A t \in Tenants : pending'[t] + updates'[t] = p[t]
    <2> HIDE DEF p, d, m
    <2>1. CASE Cardinality(d) >= BatchSize
      <3>1. \A t \in Tenants : pending'[t] = 0 /\ updates'[t] = p[t]
        BY <1>4, <2>1, ZeroType DEF Flush, NewMap
      <3> QED BY <1>5, <3>1
    <2>2. CASE ~(Cardinality(d) >= BatchSize)
      BY <1>4, <1>5, <2>2
    <2> QED BY <2>1, <2>2
  <1>7. Owed' = [t \in Tenants |-> p[t]]
    BY <1>6 DEF Owed
  <1> HIDE DEF m
  <1>8. \A t \in Tenants : Owed[t] = pending[t]
    BY <1>5, OwedType DEF IInv, TypeOK
  <1>9. Owed' = [Owed EXCEPT ![m.tenant] = Owed[m.tenant] + m.cost]
    <2>1. Owed \in [Tenants -> Nat] /\ pending \in [Tenants -> Nat]
      BY OwedType DEF IInv, TypeOK
    <2> QED BY <1>3, <1>7, <1>8, <2>1
  <1>10. position + 1 > applied
    BY <1>1 DEF IInv, OffsetInv, TypeOK
  <1>11. Account!Enter(position + 1)
    BY <1>1, <1>9, <1>10 DEF Account!Enter, m
  <1> QED BY <1>2, <1>11 DEF Account!Next

LEMMA TurnRefines ==
  ASSUME IInv, NEW t \in Tenants, UpdateTenantSpend(t) \/ UpdateFails(t)
  PROVE  Account!Next
  <1>1. /\ t \in todo /\ updates' = [updates EXCEPT ![t] = 0]
        /\ pending' = pending /\ topic' = topic /\ applied' = applied
        /\ spent' = spent \/ spent' = [spent EXCEPT ![t] = spent[t] + updates[t] \div Unit]
    BY DEF UpdateTenantSpend, UpdateFails, Turn, Added, kafka
  <1>2. \A x \in Tenants : pending[x] = 0
    BY <1>1 DEF IInv, BatchInv
  <1>3. \A x \in Tenants : /\ Owed[x] = updates[x]
                           /\ pending'[x] + updates'[x] = IF x = t THEN 0 ELSE updates[x]
    <2>1. updates \in [Tenants -> Nat]
      BY DEF IInv, TypeOK
    <2>2. \A x \in Tenants : Owed[x] = updates[x]
      BY <1>2, <2>1 DEF Owed
    <2>3. \A x \in Tenants : updates'[x] = IF x = t THEN 0 ELSE updates[x]
      BY <1>1, <2>1
    <2>4. \A x \in Tenants : pending'[x] = 0
      BY <1>1, <1>2
    <2> QED BY <2>1, <2>2, <2>3, <2>4
  <1>4. Owed' = [x \in Tenants |-> IF x = t THEN 0 ELSE updates[x]]
    BY <1>3 DEF Owed
  <1>5. CASE spent' = spent
    <2>1. Owed' = [x \in Tenants |-> IF x \in {t} THEN 0 ELSE Owed[x]]
      BY <1>3, <1>4
    <2>2. Account!Forfeit({t})
      BY <1>1, <1>5, <2>1 DEF Account!Forfeit
    <2> QED BY <2>2 DEF Account!Next
  <1>6. CASE spent' = [spent EXCEPT ![t] = spent[t] + updates[t] \div Unit]
    <2>1. Owed' = [Owed EXCEPT ![t] = 0] /\ Owed[t] = updates[t]
      BY <1>3, <1>4, OwedType
    <2>2. Account!Settle(t)
      BY <1>1, <1>6, <2>1 DEF Account!Settle
    <2> QED BY <2>2 DEF Account!Next
  <1> QED BY <1>1, <1>5, <1>6

LEMMA CrashRefines ==
  ASSUME IInv, Crash
  PROVE  Account!Next
  <1>1. \A t \in Tenants : pending'[t] + updates'[t] = 0
    BY ZeroType DEF Crash
  <1>2. Owed' = [t \in Tenants |-> IF t \in Tenants THEN 0 ELSE Owed[t]]
    BY <1>1 DEF Owed
  <1>3. Account!Forfeit(Tenants)
    BY <1>2 DEF Crash, Account!Forfeit
  <1> QED BY <1>3 DEF Account!Next

LEMMA PublishRefines ==
  ASSUME NEW m \in Message, Publish(m)
  PROVE  Account!Next
  <1>1. topic' = Append(topic, m) /\ UNCHANGED <<applied, batch, spent>>
    BY DEF Publish, history
  <1>2. Owed' = Owed
    BY <1>1 DEF Owed, batch
  <1> QED BY <1>1, <1>2 DEF Account!Next, Account!Arrive

LEMMA IdleRefines ==
  ASSUME \/ SelectDefault \/ ReadGarbage \/ ReadCommitFails \/ ReadCancelled
         \/ TickerFires \/ CancelCtx \/ UNCHANGED vars
  PROVE  UNCHANGED Account!vars
  <1>1. UNCHANGED <<topic, batch, spent, applied>>
    BY DEF SelectDefault, ReadGarbage, ReadCommitFails, ReadCancelled, TickerFires,
           CancelCtx, vars, kafka, history
  <1>2. Owed' = Owed
    BY <1>1 DEF Owed, batch
  <1> QED BY <1>1, <1>2 DEF Account!vars

(* Whatever the goroutine batches, flushes, forgets or fails to commit, it *)
(* implements the ledger (processor.go:45-102).                            *)
THEOREM ImplementsLedger == Spec => IsLedger
  <1>1. IInv /\ [Next]_vars => [Account!Next]_(Account!vars)
    <2> SUFFICES ASSUME IInv, [Next]_vars
                 PROVE  Account!Next \/ UNCHANGED Account!vars
      OBVIOUS
    <2>1. CASE Processor
      BY <2>1, MoveRefines, IdleRefines, ReadEventRefines, TurnRefines DEF Processor
    <2> QED BY <2>1, IdleRefines, CrashRefines, PublishRefines DEF Next
  <1> QED BY <1>1, InitRefines, InvariantHolds, PTL DEF Spec, IsLedger, Account!Spec
=============================================================================
