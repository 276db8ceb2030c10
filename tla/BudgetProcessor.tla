--------------------------- MODULE BudgetProcessor ---------------------------
(***************************************************************************)
(* The budget processor (internal/db/processor.go): one goroutine of the   *)
(* gateway process reads log events from Kafka, sums their cost per tenant *)
(* in memory and adds whole cents to tenants.spent_cents in PostgreSQL.    *)
(*                                                                         *)
(* CostCents is a float64; here a cost is a number of units, Unit of which *)
(* make a cent. The asynchronous Kafka writer may lose, delay or repeat    *)
(* what handleSync and handleStream log; the topic is what arrived.        *)
(***************************************************************************)
EXTENDS Integers, Sequences, FiniteSets

CONSTANTS Tenants,
          Costs,       \* costs of an event in units; a stream's is 0
          Unit,        \* units per cent
          BatchSize,   \* BudgetProcessor.batchSize
          MaxEvents,   \* bound: messages on the topic
          MaxCrashes   \* bound: restarts of the gateway process

ASSUME BudgetAssumption ==
    /\ Costs \subseteq Nat /\ Unit \in Nat \ {0}
    /\ BatchSize \in Nat /\ MaxEvents \in Nat /\ MaxCrashes \in Nat

VARIABLES topic,      \* the messages of gateway_logs
          committed,  \* the consumer group's offset, kept by the broker
          position,   \* the reader's own offset
          pc,         \* the goroutine of Start
          tick,       \* a tick waits in ticker.C
          cancelled,  \* ctx of Start is done; main passes one that never is
          dirty,      \* the keys of pending
          pending,    \* pending, 0 for a tenant without an entry
          todo,       \* tenants the running flush has still to write
          updates,    \* what it has to write for them
          spent,      \* tenants.spent_cents
          crashes,    \* restarts so far
          applied,    \* history: offset of the message added to pending last
          charged,    \* history: the cost added to pending, per tenant
          flushes,    \* history: writes per tenant, successful or not
          lost        \* history: tenants with a failed write or hit by a crash

kafka   == <<topic, committed, position>>
batch   == <<dirty, pending, todo, updates>>
history == <<applied, charged, flushes, lost>>
vars    == <<kafka, pc, tick, cancelled, batch, spent, crashes, history>>

(* ok: the message unmarshals to a LogEvent. *)
Message == [tenant : Tenants, cost : Costs, ok : BOOLEAN]

Zero == [t \in Tenants |-> 0]

TypeOK ==
    /\ topic \in Seq(Message)
    /\ committed \in Nat /\ position \in Nat
    /\ committed <= position /\ position <= Len(topic)
    /\ pc \in {"select", "read", "flush", "finalFlush", "stopped"}
    /\ tick \in BOOLEAN /\ cancelled \in BOOLEAN
    /\ dirty \subseteq Tenants /\ todo \subseteq Tenants
    /\ pending \in [Tenants -> Nat] /\ updates \in [Tenants -> Nat]
    /\ spent \in [Tenants -> Nat]
    /\ crashes \in Nat
    /\ applied \in Nat
    /\ charged \in [Tenants -> Nat] /\ flushes \in [Tenants -> Nat]
    /\ lost \subseteq Tenants

Init ==
    /\ topic = <<>>
    /\ committed = 0 /\ position = 0
    /\ pc = "select"
    /\ tick = FALSE /\ cancelled = FALSE
    /\ dirty = {} /\ todo = {}
    /\ pending = Zero /\ updates = Zero
    /\ spent = Zero
    /\ crashes = 0
    /\ applied = 0
    /\ charged = Zero /\ flushes = Zero
    /\ lost = {}
-----------------------------------------------------------------------------
(* A message of the gateway's writer reaches the topic. *)
Publish(m) ==
    /\ Len(topic) < MaxEvents
    /\ topic' = Append(topic, m)
    /\ UNCHANGED <<committed, position, pc, tick, cancelled, batch, spent,
                   crashes, history>>

(* The ticker's channel holds one tick. *)
TickerFires ==
    /\ pc # "stopped"
    /\ tick' = TRUE
    /\ UNCHANGED <<kafka, pc, cancelled, batch, spent, crashes, history>>

CancelCtx ==
    /\ cancelled' = TRUE
    /\ UNCHANGED <<kafka, pc, tick, batch, spent, crashes, history>>
-----------------------------------------------------------------------------
(* Mutant: the map is not replaced. *)
KeepMap == UNCHANGED <<dirty, pending>>

NewMap == dirty' = {} /\ pending' = Zero

(* flush takes the pending map (as d and p) and leaves an empty one; with  *)
(* nothing in it, it returns.                                              *)
Flush(kind, d, p) ==
    /\ pc' = IF d # {} THEN kind ELSE IF kind = "flush" THEN "select" ELSE "stopped"
    /\ todo' = d
    /\ updates' = p
    /\ NewMap

(* select: a ready case is taken, default only if none is. *)
SelectDone ==
    /\ pc = "select"
    /\ cancelled
    /\ Flush("finalFlush", dirty, pending)
    /\ UNCHANGED <<kafka, tick, cancelled, spent, crashes, history>>

SelectTick ==
    /\ pc = "select"
    /\ tick
    /\ tick' = FALSE
    /\ Flush("flush", dirty, pending)
    /\ UNCHANGED <<kafka, cancelled, spent, crashes, history>>

SelectDefault ==
    /\ pc = "select"
    /\ ~cancelled /\ ~tick
    /\ pc' = "read"
    /\ UNCHANGED <<kafka, tick, cancelled, batch, spent, crashes, history>>

(* ReadMessage fetches the next message and commits its offset before it   *)
(* returns it; there is no deadline, so it blocks while there is none.     *)
Fetch ==
    /\ pc = "read"
    /\ position < Len(topic)
    /\ position' = position + 1

(* Mutants of Commit: none before the event is added, one offset too far. *)
NoCommit == UNCHANGED committed
CommitNext == committed' = position + 2

Commit == committed' = position + 1

(* A valid event is added to the pending map. *)
ReadEvent ==
    LET m == topic[position + 1]
        p == [pending EXCEPT ![m.tenant] = @ + m.cost]
        d == dirty \cup {m.tenant}
    IN
    /\ Fetch
    /\ Commit
    /\ m.ok
    /\ IF Cardinality(d) >= BatchSize
       THEN Flush("flush", d, p)
       ELSE pc' = "select" /\ dirty' = d /\ pending' = p /\ UNCHANGED <<todo, updates>>
    /\ applied' = position + 1
    /\ charged' = [charged EXCEPT ![m.tenant] = @ + m.cost]
    /\ UNCHANGED <<topic, tick, cancelled, spent, crashes, flushes, lost>>

(* Mutant: return instead of continue. *)
Leave == pc' = "stopped"

Continue == pc' = "select"

(* Unmarshal fails. *)
ReadGarbage ==
    /\ Fetch
    /\ Commit
    /\ ~topic[position + 1].ok
    /\ Continue
    /\ UNCHANGED <<topic, tick, cancelled, batch, spent, crashes, history>>

(* The commit is reported as failed, whether the broker has it or not:     *)
(* ReadMessage returns the error instead of the message.                   *)
ReadCommitFails ==
    /\ Fetch
    /\ committed' \in {committed, position + 1}
    /\ Continue
    /\ UNCHANGED <<topic, tick, cancelled, batch, spent, crashes, history>>

ReadCancelled ==
    /\ pc = "read"
    /\ cancelled
    /\ Continue
    /\ UNCHANGED <<kafka, tick, cancelled, batch, spent, crashes, history>>

(* One turn of flush's loop; the map is walked in any order. *)
Turn(t) ==
    /\ pc \in {"flush", "finalFlush"}
    /\ t \in todo
    /\ todo' = todo \ {t}
    /\ updates' = [updates EXCEPT ![t] = 0]
    /\ flushes' = [flushes EXCEPT ![t] = @ + 1]
    /\ pc' = IF todo # {t} THEN pc
             ELSE IF pc = "flush" THEN "select" ELSE "stopped"
    /\ UNCHANGED <<kafka, tick, cancelled, dirty, pending, crashes, applied,
                   charged>>

(* Mutant: the amount is stored, not added. *)
Stored(t) == [spent EXCEPT ![t] = updates[t] \div Unit]

(* spent_cents = spent_cents + int(cost): the fraction of a cent is dropped*)
Added(t) == [spent EXCEPT ![t] = @ + updates[t] \div Unit]

(* The last flush has a context of its own, any other one fails once ctx is*)
(* done.                                                                   *)
UpdateTenantSpend(t) ==
    /\ Turn(t)
    /\ pc = "finalFlush" \/ ~cancelled
    /\ spent' = Added(t)
    /\ UNCHANGED lost

(* Mutant: the amount is kept for the next flush. *)
UpdateRetried(t) ==
    /\ pc \in {"flush", "finalFlush"}
    /\ t \in todo
    /\ spent' \in {spent, Added(t)}
    /\ UNCHANGED <<kafka, pc, tick, cancelled, batch, crashes, history>>

(* An error is printed and the amount forgotten. It does not say that the  *)
(* database has not executed the statement.                                *)
UpdateFails(t) ==
    /\ Turn(t)
    /\ spent' \in {spent, Added(t)}
    /\ lost' = lost \cup {t}
-----------------------------------------------------------------------------
(* The process dies and starts again: the maps are gone, the reader goes on*)
(* from the committed offset.                                              *)
Crash ==
    /\ crashes < MaxCrashes
    /\ crashes' = crashes + 1
    /\ position' = committed
    /\ pc' = "select"
    /\ tick' = FALSE /\ cancelled' = FALSE
    /\ dirty' = {} /\ pending' = Zero
    /\ todo' = {} /\ updates' = Zero
    /\ lost' = lost \cup dirty \cup todo
    /\ UNCHANGED <<topic, committed, spent, applied, charged, flushes>>

Processor ==
    \/ SelectDone \/ SelectTick \/ SelectDefault
    \/ ReadEvent \/ ReadGarbage \/ ReadCommitFails \/ ReadCancelled
    \/ \E t \in Tenants : UpdateTenantSpend(t) \/ UpdateFails(t)

Next ==
    \/ \E m \in Message : Publish(m)
    \/ TickerFires \/ CancelCtx \/ Crash
    \/ Processor

(* The goroutine runs when it can and the ticker keeps ticking; no event   *)
(* and no crash need ever come. A turn of the loop that flushes nothing    *)
(* takes far less than the second between two ticks, so default is not     *)
(* starved by the ticker.                                                  *)
Fairness ==
    /\ WF_vars(Processor) /\ WF_vars(TickerFires)
    /\ SF_vars(SelectDefault)

Spec     == Init /\ [][Next]_vars
FairSpec == Spec /\ Fairness
-----------------------------------------------------------------------------
(* No message is counted twice, whatever commits fail and whenever the     *)
(* process restarts: the offset is committed before the event is added     *)
(* (processor.go:61-74), so every event counted is younger than all before.*)
CountedAtMostOnce == [][applied' # applied => applied' > applied]_vars

(* A tenant is never charged more than its events cost, over any sequence  *)
(* of flushes, failed writes and restarts (processor.go:89-101): what is   *)
(* taken out of pending is written once.                                   *)
NeverOvercharged ==
    \A t \in Tenants :
        Unit * spent[t] + pending[t] + updates[t] <= charged[t]

(* What truncation costs: a tenant none of whose writes failed and whom no *)
(* crash hit is undercharged by less than one cent per write.              *)
TruncationBound ==
    \A t \in Tenants \ lost :
        charged[t] - (Unit * spent[t] + pending[t] + updates[t])
            <= (Unit - 1) * flushes[t]

(* The goroutine is an account book over the topic, whatever it keeps in   *)
(* its two maps: what a tenant owes is what is pending for it together with*)
(* what the running flush still has to write.                              *)
Owed == [t \in Tenants |-> pending[t] + updates[t]]

Account == INSTANCE Ledger WITH log <- topic, entered <- applied, due <- Owed

(* Batches, flushes, failing commits and restarts cannot be told from a    *)
(* ledger: no event is entered twice, out of order or for another tenant,  *)
(* and a write settles all that its tenant owes, in the step in which the  *)
(* amount leaves memory (processor.go:61-101).                             *)
IsLedger == Account!Spec

(* Every message that reaches the topic is read, or the processor stops:   *)
(* neither a busy ticker nor a running flush keeps it from reading.        *)
TopicIsRead ==
    \A n \in 1..MaxEvents :
        Len(topic) >= n ~> (committed >= n \/ position >= n \/ cancelled)

(* "Read with a short timeout to not block the select" (processor.go:60)   *)
(* and "Budgets are currently updated in Postgres every 1s" (DESIGN.md:77):*)
(* what is pending is taken by a flush.                                    *)
PendingIsFlushed == \A t \in Tenants : t \in dirty ~> t \notin dirty
=============================================================================
