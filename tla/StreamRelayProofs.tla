-------------------------- MODULE StreamRelayProofs --------------------------
(***************************************************************************)
(* The safety properties of StreamRelay for any number of retries and any  *)
(* length of the upstream stream.                                          *)
(***************************************************************************)
EXTENDS StreamRelay, TLAPS

Closing == {"closeErr", "closeOut", "done"}

(* Before the first chunk no attempt has given one; afterwards the client  *)
(* has all chunks of the one attempt but the one in flight.                *)
PrefixInv ==
    /\ \A j \in DOMAIN delivered : delivered[j] = <<attempt, j>>
    /\ relay \in {"dial", "select", "after", "sleep"} =>
          delivered = <<>> /\ \A a \in Attempts : base[a].sent = 0
    /\ relay = "forward" =>
          held = <<attempt, Len(delivered) + 1>>
          /\ base[attempt].sent = Len(delivered) + 1
    /\ relay = "pipe" => base[attempt].sent = Len(delivered)

(* An error is reported only by a relay that forwarded nothing. *)
ErrorInv ==
    /\ errOut # "empty" => relay \in Closing /\ delivered = <<>>
    /\ handler = "error" => relay \in Closing /\ delivered = <<>>
    /\ outClosed => relay = "done"
    /\ handler = "logged" => relay = "done"

(* A producer blocked on its channel has a chunk left to give. *)
SendInv == \A a \in Attempts : base[a].pc = "send" => base[a].sent < Chunks

(* The loop sleeps only when another attempt is left. *)
RetryInv == relay = "sleep" => attempt < MaxRetries

IInv == /\ TypeOK
        /\ PrefixInv
        /\ SendInv
        /\ RetryInv
        /\ ErrorInv
        /\ ContextsReleased
-----------------------------------------------------------------------------
LEMMA InitEstablishes == Init => IInv
  <1> SUFFICES ASSUME Init PROVE IInv
    OBVIOUS
  <1> USE RelayAssumption
  <1>1. 0 \in Attempts /\ 1 \in 1..Chunks /\ 0 \in 0..Chunks
    BY DEF Attempts
  <1>2. base \in [Attempts -> BaseState]
    <2>1. [pc |-> "none", sent |-> 0, err |-> FALSE] \in BaseState
      BY <1>1 DEF BaseState
    <2> QED BY <2>1 DEF Init
  <1>3. delivered \in Seq(Attempts \X (1..Chunks))
    BY DEF Init
  <1>4. lastErr \in BOOLEAN /\ outClosed \in BOOLEAN
    BY DEF Init
  <1>5. held \in Attempts \X (1..Chunks)
    BY <1>1 DEF Init
  <1>6. TypeOK
    BY <1>1, <1>2, <1>3, <1>4, <1>5 DEF Init, TypeOK
  <1>7. PrefixInv
    BY DEF Init, PrefixInv
  <1>8. ErrorInv
    BY DEF Init, ErrorInv
  <1>9. ContextsReleased
    BY DEF Init, ContextsReleased
  <1>10. SendInv /\ RetryInv
    BY DEF Init, SendInv, RetryInv
  <1> QED BY <1>6, <1>7, <1>8, <1>9, <1>10 DEF IInv

(* Contexts only ever end, except for the one Dial makes. *)
LEMMA OutsideKeeps ==
  ASSUME IInv, ClientLeaves \/ \E a \in Attempts : Timeout(a)
  PROVE  IInv'
  <1>1. /\ UNCHANGED <<base, relayVars, handler, delivered>>
        /\ ctx' \in {"live", "gone", "returned"}
        /\ tctx' \in [Attempts -> {"none", "live", "done"}]
        /\ \A a \in Attempts : tctx'[a] = "live" => tctx[a] = "live"
    BY DEF ClientLeaves, Timeout, Cancelled, IInv, TypeOK
  <1>2. TypeOK'
    BY <1>1 DEF IInv, TypeOK, relayVars
  <1>3. PrefixInv'
    BY <1>1 DEF IInv, PrefixInv, relayVars
  <1>4. ErrorInv'
    BY <1>1 DEF IInv, ErrorInv, relayVars
  <1>5. ContextsReleased'
    BY <1>1 DEF IInv, ContextsReleased, relayVars
  <1>6. SendInv' /\ RetryInv'
    BY <1>1 DEF IInv, SendInv, RetryInv, relayVars
  <1> QED BY <1>2, <1>3, <1>4, <1>5, <1>6 DEF IInv

(* What the typing of base needs: an update of one producer's record. *)
LEMMA BaseUpdate ==
  ASSUME base \in [Attempts -> BaseState], NEW a \in Attempts,
         NEW b \in BaseState, base' = [base EXCEPT ![a] = b]
  PROVE  /\ base' \in [Attempts -> BaseState]
         /\ base'[a] = b
         /\ \A x \in Attempts : x # a => base'[x] = base[x]
  OBVIOUS

LEMMA BaseFields ==
  ASSUME base \in [Attempts -> BaseState], NEW a \in Attempts
  PROVE  /\ base[a] \in BaseState
         /\ base[a].sent \in 0..Chunks
         /\ base[a].err \in BOOLEAN
         /\ base[a].pc \in {"none", "run", "send", "ending", "closed"}
  BY DEF BaseState

(* A producer changes its own state but not the number of chunks taken. *)
LEMMA ProducerBase ==
  ASSUME IInv, NEW a \in Attempts, Producer(a)
  PROVE  /\ base' \in [Attempts -> BaseState]
         /\ \A x \in Attempts : base'[x].sent = base[x].sent
         /\ SendInv'
  <1> DEFINE b == base[a]
  <1>1. base \in [Attempts -> BaseState]
    BY DEF IInv, TypeOK
  <1>2. /\ b \in BaseState
        /\ b.sent \in 0..Chunks
        /\ b.err \in BOOLEAN
    BY <1>1, BaseFields
  <1>3. \E c \in BaseState :
            /\ c.sent = b.sent
            /\ c.pc = "send" => c.sent < Chunks
            /\ base' = [base EXCEPT ![a] = c]
    <2>1. CASE Produce(a)
      <3>1. [b EXCEPT !.pc = "send"] \in BaseState
        BY <1>2 DEF BaseState
      <3>2. [b EXCEPT !.pc = "send"].sent = b.sent /\ b.sent < Chunks
        BY <1>2, <2>1 DEF BaseState, Produce
      <3>3. base' = [base EXCEPT ![a] = [b EXCEPT !.pc = "send"]]
        BY <2>1, <1>1 DEF Produce
      <3> QED BY <3>1, <3>2, <3>3
    <2>2. CASE EndOfStream(a)
      <3>1. [b EXCEPT !.pc = "ending"] \in BaseState
        BY <1>2 DEF BaseState
      <3>2. [b EXCEPT !.pc = "ending"].sent = b.sent /\ [b EXCEPT !.pc = "ending"].pc = "ending"
        BY <1>2 DEF BaseState
      <3>3. base' = [base EXCEPT ![a] = [b EXCEPT !.pc = "ending"]]
        BY <2>2, <1>1 DEF EndOfStream
      <3> QED BY <3>1, <3>2, <3>3
    <2>3. CASE Fail(a)
      <3> DEFINE c == [b EXCEPT !.pc = "ending", !.err = TRUE]
      <3>1. c \in BaseState
        BY <1>2 DEF BaseState
      <3>2. c.sent = b.sent /\ c.pc = "ending"
        BY <1>2 DEF BaseState
      <3>3. base' = [base EXCEPT ![a] = c]
        BY <2>3, <1>1 DEF Fail
      <3> QED BY <3>1, <3>2, <3>3
    <2>4. CASE CloseChunks(a)
      <3>1. [b EXCEPT !.pc = "closed"] \in BaseState
        BY <1>2 DEF BaseState
      <3>2. [b EXCEPT !.pc = "closed"].sent = b.sent /\ [b EXCEPT !.pc = "closed"].pc = "closed"
        BY <1>2 DEF BaseState
      <3>3. base' = [base EXCEPT ![a] = [b EXCEPT !.pc = "closed"]]
        BY <2>4, <1>1 DEF CloseChunks
      <3> QED BY <3>1, <3>2, <3>3
    <2> QED BY <2>1, <2>2, <2>3, <2>4 DEF Producer
  <1>4. PICK c \in BaseState :
            /\ c.sent = b.sent
            /\ c.pc = "send" => c.sent < Chunks
            /\ base' = [base EXCEPT ![a] = c]
    BY <1>3
  <1>5. /\ base' \in [Attempts -> BaseState]
        /\ base'[a] = c
        /\ \A x \in Attempts : x # a => base'[x] = base[x]
    BY <1>1, <1>4, BaseUpdate
  <1>6. SendInv'
    BY <1>4, <1>5 DEF IInv, SendInv
  <1> QED BY <1>4, <1>5, <1>6

LEMMA ProducerKeeps ==
  ASSUME IInv, NEW a \in Attempts, Producer(a)
  PROVE  IInv'
  <1>1. UNCHANGED <<ctx, tctx, relayVars, handler, delivered>>
    BY DEF Producer, Produce, EndOfStream, Fail, CloseChunks
  <1>2. /\ base' \in [Attempts -> BaseState]
        /\ \A x \in Attempts : base'[x].sent = base[x].sent
        /\ SendInv'
    BY ProducerBase
  <1>3. TypeOK'
    BY <1>1, <1>2 DEF IInv, TypeOK, relayVars
  <1>4. PrefixInv'
    BY <1>1, <1>2 DEF IInv, TypeOK, PrefixInv, relayVars
  <1>5. ErrorInv'
    BY <1>1 DEF IInv, ErrorInv, relayVars
  <1>6. ContextsReleased'
    BY <1>1 DEF IInv, ContextsReleased, relayVars
  <1>7. RetryInv'
    BY <1>1 DEF IInv, RetryInv, relayVars
  <1> QED BY <1>2, <1>3, <1>4, <1>5, <1>6, <1>7 DEF IInv
-----------------------------------------------------------------------------
(* A new attempt starts only while nothing was taken from an earlier one. *)
LEMMA DialKeeps ==
  ASSUME IInv, Dial
  PROVE  IInv'
  <1> DEFINE b == base[attempt]
             c == [b EXCEPT !.pc = "run"]
  <1>1. /\ base \in [Attempts -> BaseState]
        /\ attempt \in Attempts
        /\ tctx \in [Attempts -> {"none", "live", "done"}]
    BY DEF IInv, TypeOK
  <1>2. b.sent \in 0..Chunks /\ b \in BaseState
    BY <1>1, BaseFields
  <1>3. c \in BaseState /\ c.sent = b.sent /\ c.pc = "run"
    BY <1>2 DEF BaseState
  <1>4. base' = [base EXCEPT ![attempt] = c]
    BY <1>1 DEF Dial
  <1>5. /\ base' \in [Attempts -> BaseState]
        /\ \A x \in Attempts : base'[x].sent = base[x].sent
        /\ SendInv'
    <2> HIDE DEF b, c
    <2>1. /\ base' \in [Attempts -> BaseState]
          /\ base'[attempt] = c
          /\ \A x \in Attempts : x # attempt => base'[x] = base[x]
      BY <1>1, <1>3, <1>4, BaseUpdate
    <2> QED BY <1>1, <1>3, <2>1 DEF b, IInv, SendInv
  <1>6. /\ tctx' \in [Attempts -> {"none", "live", "done"}]
        /\ \A x \in Attempts : tctx'[x] = "live" => x = attempt \/ tctx[x] = "live"
    BY <1>1 DEF Dial
  <1>7. TypeOK'
    BY <1>5, <1>6 DEF Dial, IInv, TypeOK
  <1>8. PrefixInv'
    BY <1>5 DEF Dial, IInv, PrefixInv
  <1>9. ErrorInv'
    BY DEF Dial, IInv, ErrorInv, Closing
  <1>10. ContextsReleased'
    BY <1>6 DEF Dial, IInv, ContextsReleased
  <1>11. RetryInv'
    BY DEF Dial, RetryInv
  <1> QED BY <1>5, <1>7, <1>8, <1>9, <1>10, <1>11 DEF IInv

(* Taking a chunk: the chunk in hand is the next one the client is owed. *)
LEMMA TakeKeeps ==
  ASSUME IInv, SelectChunk \/ PipeChunk
  PROVE  IInv'
  <1> USE RelayAssumption
  <1> DEFINE b == base[attempt]
             c == [b EXCEPT !.pc = "run", !.sent = b.sent + 1]
  <1>0. Take
    BY DEF SelectChunk, PipeChunk
  <1>1. /\ base \in [Attempts -> BaseState]
        /\ attempt \in Attempts
        /\ tctx \in [Attempts -> {"none", "live", "done"}]
    BY DEF IInv, TypeOK
  <1>2. /\ b \in BaseState
        /\ b.sent \in 0..Chunks
        /\ b.sent < Chunks
        /\ b.sent + 1 \in 1..Chunks
    <2>1. b \in BaseState /\ b.sent \in 0..Chunks
      BY <1>1, BaseFields
    <2>2. b.sent < Chunks
      BY <1>0, <1>1 DEF Take, IInv, SendInv
    <2> QED BY <2>1, <2>2
  <1>3. c \in BaseState /\ c.sent = b.sent + 1 /\ c.pc = "run"
    <2>1. b.sent + 1 \in 0..Chunks
      BY <1>2
    <2>2. \A n \in 0..Chunks :
              /\ [b EXCEPT !.pc = "run", !.sent = n] \in BaseState
              /\ [b EXCEPT !.pc = "run", !.sent = n].sent = n
              /\ [b EXCEPT !.pc = "run", !.sent = n].pc = "run"
      BY <1>2 DEF BaseState
    <2> QED BY <2>1, <2>2
  <1>4. base' = [base EXCEPT ![attempt] = c]
    BY <1>0, <1>1 DEF Take
  <1>5. /\ base' \in [Attempts -> BaseState]
        /\ base'[attempt].sent = b.sent + 1
        /\ SendInv'
    <2> HIDE DEF b, c
    <2>1. /\ base' \in [Attempts -> BaseState]
          /\ base'[attempt] = c
          /\ \A x \in Attempts : x # attempt => base'[x] = base[x]
      BY <1>1, <1>3, <1>4, BaseUpdate
    <2> QED BY <1>1, <1>3, <2>1 DEF IInv, SendInv
  <1>6. /\ tctx' \in [Attempts -> {"none", "live", "done"}]
        /\ \A x \in Attempts : tctx'[x] = "live" => tctx[x] = "live" /\ x # attempt
    BY <1>1 DEF SelectChunk, PipeChunk, Cancel, IInv, ContextsReleased
  <1>7. held' \in Attempts \X (1..Chunks)
    BY <1>0, <1>1, <1>2 DEF Take
  <1>8. TypeOK'
    BY <1>0, <1>5, <1>6, <1>7 DEF Take, IInv, TypeOK
  <1>9. b.sent = Len(delivered)
    <2>1. CASE SelectChunk
      BY <2>1, <1>1 DEF SelectChunk, IInv, PrefixInv
    <2>2. CASE PipeChunk
      BY <2>2 DEF PipeChunk, IInv, PrefixInv
    <2> QED BY <2>1, <2>2
  <1>10. PrefixInv'
    BY <1>0, <1>1, <1>5, <1>9 DEF Take, IInv, PrefixInv
  <1>11. ErrorInv'
    BY <1>0 DEF Take, SelectChunk, PipeChunk, IInv, ErrorInv, Closing
  <1>12. ContextsReleased'
    BY <1>0, <1>6 DEF Take, IInv, ContextsReleased
  <1>13. RetryInv'
    BY <1>0 DEF Take, RetryInv
  <1> QED BY <1>5, <1>8, <1>10, <1>11, <1>12, <1>13 DEF IInv

(* The attempt is over without a chunk. *)
LEMMA SelectErrKeeps ==
  ASSUME IInv, SelectErr
  PROVE  IInv'
  <1> DEFINE b == base[attempt]
             c == [b EXCEPT !.err = FALSE]
  <1>1. base \in [Attempts -> BaseState] /\ attempt \in Attempts
    BY DEF IInv, TypeOK
  <1>2. b.sent \in 0..Chunks /\ b \in BaseState
    BY <1>1, BaseFields
  <1>3. c \in BaseState /\ c.sent = b.sent /\ c.pc = b.pc
    BY <1>2 DEF BaseState
  <1>4. base' = [base EXCEPT ![attempt] = c]
    BY <1>1 DEF SelectErr
  <1>5. /\ base' \in [Attempts -> BaseState]
        /\ \A x \in Attempts : base'[x].sent = base[x].sent
        /\ SendInv'
    <2> HIDE DEF b, c
    <2>1. /\ base' \in [Attempts -> BaseState]
          /\ base'[attempt] = c
          /\ \A x \in Attempts : x # attempt => base'[x] = base[x]
      BY <1>1, <1>3, <1>4, BaseUpdate
    <2> QED BY <1>1, <1>3, <2>1 DEF b, IInv, SendInv
  <1>6. TypeOK'
    BY <1>5 DEF SelectErr, IInv, TypeOK
  <1>7. PrefixInv'
    BY <1>5 DEF SelectErr, IInv, PrefixInv
  <1>8. ErrorInv'
    BY DEF SelectErr, IInv, ErrorInv, Closing
  <1>9. ContextsReleased'
    BY DEF SelectErr, IInv, ContextsReleased
  <1>10. RetryInv'
    BY DEF SelectErr, RetryInv
  <1> QED BY <1>5, <1>6, <1>7, <1>8, <1>9, <1>10 DEF IInv

LEMMA SelectOtherKeeps ==
  ASSUME IInv, SelectClosed \/ SelectTimeout
  PROVE  IInv'
  <1>1. /\ relay = "select"
        /\ relay' = "after"
        /\ lastErr' \in BOOLEAN
        /\ UNCHANGED <<ctx, tctx, base, attempt, held, errOut, outClosed,
                       handler, delivered>>
    BY DEF SelectClosed, SelectTimeout, IInv, TypeOK
  <1>2. TypeOK'
    BY <1>1 DEF IInv, TypeOK
  <1>3. PrefixInv'
    BY <1>1 DEF IInv, PrefixInv
  <1>4. ErrorInv'
    BY <1>1 DEF IInv, ErrorInv, Closing
  <1>5. ContextsReleased'
    BY <1>1 DEF IInv, ContextsReleased
  <1>6. SendInv' /\ RetryInv'
    BY <1>1 DEF IInv, SendInv, RetryInv
  <1> QED BY <1>2, <1>3, <1>4, <1>5, <1>6 DEF IInv

(* cancel() on every way out of the attempt. *)
LEMMA AfterKeeps ==
  ASSUME IInv, After
  PROVE  IInv'
  <1>1. /\ attempt \in Attempts
        /\ tctx \in [Attempts -> {"none", "live", "done"}]
        /\ errOut \in {"empty", "nil", "err"}
    BY DEF IInv, TypeOK
  <1>2. /\ relay = "after"
        /\ \/ relay' = "sleep" /\ errOut' = errOut
           \/ relay' = "closeErr" /\ errOut' \in {"nil", "err"}
        /\ UNCHANGED <<ctx, base, attempt, lastErr, held, outClosed, handler,
                       delivered>>
    BY DEF After, ReportLater
  <1>3. /\ tctx' \in [Attempts -> {"none", "live", "done"}]
        /\ \A x \in Attempts : tctx'[x] # "live"
    BY <1>1, <1>2 DEF After, Cancel, IInv, ContextsReleased
  <1>4. TypeOK'
    BY <1>1, <1>2, <1>3 DEF IInv, TypeOK
  <1>5. PrefixInv'
    BY <1>2 DEF IInv, PrefixInv
  <1>6. ErrorInv'
    BY <1>2 DEF IInv, PrefixInv, ErrorInv, Closing
  <1>7. ContextsReleased'
    BY <1>3 DEF ContextsReleased
  <1>8. SendInv'
    BY <1>2 DEF IInv, SendInv
  <1>9. RetryInv'
    BY DEF After, AttemptLeft, RetryInv
  <1> QED BY <1>4, <1>5, <1>6, <1>7, <1>8, <1>9 DEF IInv

(* Steps of the relay that touch neither a context nor a producer. *)
LEMMA QuietKeeps ==
  ASSUME IInv, Wake \/ PipeEnd \/ CloseErr \/ CloseOut
  PROVE  IInv'
  <1> USE RelayAssumption
  <1>1. UNCHANGED <<ctx, tctx, base, lastErr, held, errOut, handler, delivered>>
    BY DEF Wake, PipeEnd, CloseErr, CloseOut
  <1>2. CASE Wake
    <2>1. attempt < MaxRetries
      BY <1>2 DEF Wake, IInv, RetryInv
    <2>2. attempt' \in Attempts
      BY <1>2, <2>1 DEF Wake, IInv, TypeOK, Attempts
    <2>3. relay = "sleep" /\ relay' = "dial" /\ UNCHANGED outClosed
      BY <1>2 DEF Wake
    <2>4. TypeOK'
      BY <1>1, <2>2, <2>3 DEF IInv, TypeOK
    <2>5. PrefixInv'
      BY <1>1, <2>3 DEF IInv, PrefixInv
    <2>6. ErrorInv'
      BY <1>1, <2>3 DEF IInv, ErrorInv, Closing
    <2>7. ContextsReleased'
      BY <1>1, <2>3 DEF IInv, ContextsReleased
    <2>8. SendInv' /\ RetryInv'
      BY <1>1, <2>3 DEF IInv, SendInv, RetryInv
    <2> QED BY <2>4, <2>5, <2>6, <2>7, <2>8 DEF IInv
  <1>3. CASE PipeEnd \/ CloseErr \/ CloseOut
    <2>1. /\ UNCHANGED attempt
          /\ outClosed' \in BOOLEAN
          /\ \/ relay = "pipe" /\ relay' = "closeErr" /\ UNCHANGED outClosed
             \/ relay = "closeErr" /\ relay' = "closeOut" /\ UNCHANGED outClosed
             \/ relay = "closeOut" /\ relay' = "done"
      BY <1>3 DEF PipeEnd, ReturnBroken, CloseErr, CloseOut, IInv, TypeOK
    <2>2. TypeOK'
      BY <1>1, <2>1 DEF IInv, TypeOK
    <2>3. PrefixInv'
      BY <1>1, <2>1 DEF IInv, PrefixInv
    <2>4. ErrorInv'
      BY <1>1, <2>1 DEF IInv, ErrorInv, Closing
    <2>5. ContextsReleased'
      BY <1>1, <2>1 DEF IInv, ContextsReleased
    <2>6. SendInv' /\ RetryInv'
      BY <1>1, <2>1 DEF IInv, SendInv, RetryInv
    <2> QED BY <2>2, <2>3, <2>4, <2>5, <2>6 DEF IInv
  <1> QED BY <1>2, <1>3
-----------------------------------------------------------------------------
(* The handler writes the chunk in hand, which is the next one. *)
LEMMA DeliverKeeps ==
  ASSUME IInv, Deliver
  PROVE  IInv'
  <1> USE RelayAssumption
  <1> DEFINE n == Len(delivered)
  <1>1. /\ held \in Attempts \X (1..Chunks)
        /\ delivered \in Seq(Attempts \X (1..Chunks))
    BY DEF IInv, TypeOK
  <1>2. /\ n \in Nat
        /\ held = <<attempt, n + 1>>
        /\ base[attempt].sent = n + 1
    BY <1>1 DEF Deliver, IInv, PrefixInv
  <1>3. /\ delivered' \in Seq(Attempts \X (1..Chunks))
        /\ Len(delivered') = n + 1
        /\ DOMAIN delivered' = 1..(n + 1)
        /\ \A j \in 1..n : delivered'[j] = delivered[j]
        /\ delivered'[n + 1] = held
        /\ DOMAIN delivered = 1..n
    BY <1>1 DEF Deliver
  <1>5. TypeOK'
    BY <1>3 DEF Deliver, IInv, TypeOK
  <1>6. PrefixInv'
    <2>1. \A j \in DOMAIN delivered' : delivered'[j] = <<attempt, j>>
      <3>1. \A j \in 1..n : delivered[j] = <<attempt, j>>
        BY <1>3 DEF IInv, PrefixInv
      <3> HIDE DEF n
      <3>2. SUFFICES ASSUME NEW j \in 1..(n + 1)
                     PROVE  delivered'[j] = <<attempt, j>>
        BY <1>3
      <3>3. j \in 1..n \/ j = n + 1
        BY <1>2
      <3> QED BY <1>2, <1>3, <3>1, <3>3
    <2> HIDE DEF n
    <2> QED BY <1>2, <1>3, <2>1 DEF Deliver, PrefixInv
  <1>7. ErrorInv'
    BY DEF Deliver, IInv, ErrorInv, Closing
  <1>8. ContextsReleased'
    BY DEF Deliver, IInv, ContextsReleased
  <1>9. SendInv' /\ RetryInv'
    BY DEF Deliver, IInv, SendInv, RetryInv
  <1> QED BY <1>5, <1>6, <1>7, <1>8, <1>9 DEF IInv

(* handleStream returns, or drops a nil. *)
LEMMA HandlerKeeps ==
  ASSUME IInv, HandlerEnd \/ HandlerError \/ HandlerNil \/ HandlerGone
  PROVE  IInv'
  <1>1. UNCHANGED <<base, relay, attempt, lastErr, held, outClosed, delivered>>
    BY DEF HandlerEnd, HandlerError, HandlerNil, HandlerGone, relayVars
  <1>2. /\ ctx' \in {"live", "gone", "returned"}
        /\ tctx' \in [Attempts -> {"none", "live", "done"}]
        /\ \A a \in Attempts : tctx'[a] = "live" => tctx[a] = "live"
    BY DEF HandlerEnd, HandlerError, HandlerNil, HandlerGone, Return, Cancelled,
           IInv, TypeOK
  <1>3. /\ errOut' = errOut \/ errOut' = "empty"
        /\ handler' \in {"loop", "logged", "error", "gone"}
        /\ handler' = "logged" => handler = "logged" \/ outClosed
        /\ handler' = "error" => handler = "error" \/ errOut = "err"
    BY DEF HandlerEnd, HandlerError, HandlerNil, HandlerGone, Return, relayVars,
           IInv, TypeOK
  <1>4. TypeOK'
    BY <1>1, <1>2, <1>3 DEF IInv, TypeOK
  <1>5. PrefixInv'
    BY <1>1 DEF IInv, PrefixInv
  <1>6. ErrorInv'
    BY <1>1, <1>3 DEF IInv, ErrorInv
  <1>7. ContextsReleased'
    BY <1>1, <1>2 DEF IInv, ContextsReleased
  <1>8. SendInv' /\ RetryInv'
    BY <1>1 DEF IInv, SendInv, RetryInv
  <1> QED BY <1>4, <1>5, <1>6, <1>7, <1>8 DEF IInv
-----------------------------------------------------------------------------
LEMMA NextKeeps == IInv /\ [Next]_vars => IInv'
  <1> SUFFICES ASSUME IInv, [Next]_vars PROVE IInv'
    OBVIOUS
  <1>1. CASE ClientLeaves
    BY <1>1, OutsideKeeps
  <1>2. CASE Relay
    BY <1>2, DialKeeps, TakeKeeps, SelectErrKeeps, SelectOtherKeeps, AfterKeeps,
       QuietKeeps DEF Relay
  <1>3. CASE Handler
    BY <1>3, DeliverKeeps, HandlerKeeps DEF Handler
  <1>4. CASE \E a \in Attempts : Timeout(a) \/ Producer(a)
    BY <1>4, OutsideKeeps, ProducerKeeps
  <1>5. CASE UNCHANGED vars
    <2>1. UNCHANGED <<ctx, tctx, base, relay, attempt, lastErr, held, errOut,
                      outClosed, handler, delivered>>
      BY <1>5 DEF vars, relayVars
    <2>2. TypeOK'
      BY <2>1 DEF IInv, TypeOK
    <2>3. PrefixInv'
      BY <2>1 DEF IInv, PrefixInv
    <2>5. SendInv' /\ RetryInv'
      BY <2>1 DEF IInv, SendInv, RetryInv
    <2>4. ErrorInv' /\ ContextsReleased'
      BY <2>1 DEF IInv, ErrorInv, ContextsReleased
    <2> QED BY <2>2, <2>3, <2>4, <2>5 DEF IInv
  <1> QED BY <1>1, <1>2, <1>3, <1>4, <1>5 DEF Next

LEMMA Inductive == Spec => []IInv
  BY InitEstablishes, NextKeeps, PTL DEF Spec

(* Every reachable state of the three kinds of goroutines is well typed: in*)
(* particular ChatStream's loop never runs past its last attempt.          *)
THEOREM TypeCorrect == Spec => []TypeOK
  <1>1. IInv => TypeOK
    BY DEF IInv
  <1> QED BY <1>1, Inductive, PTL

(* No mid-stream retry, whatever the number of retries and the interleaving*)
(* of producers, relay, handler, timeouts and the client: what the client  *)
(* received is the unbroken beginning of one attempt's stream.             *)
THEOREM OneAttempt == Spec => []SingleAttemptPrefix
  <1>1. IInv => SingleAttemptPrefix
    BY DEF IInv, TypeOK, PrefixInv, SingleAttemptPrefix
  <1> QED BY <1>1, Inductive, PTL

(* The relay goroutine can be left blocked on its unbuffered channel only  *)
(* by a client that went away.                                             *)
THEOREM NoStuckRelay == Spec => []RelayStuckOnlyIfClientGone
  <1>1. IInv => RelayStuckOnlyIfClientGone
    BY DEF IInv, ErrorInv, Closing, RelayStuckOnlyIfClientGone
  <1> QED BY <1>1, Inductive, PTL

(* Every attempt's timer is released when the attempt is over. *)
THEOREM NoContextLeak == Spec => []ContextsReleased
  <1>1. IInv => ContextsReleased
    BY DEF IInv
  <1> QED BY <1>1, Inductive, PTL
-----------------------------------------------------------------------------
(* The refinement: only Deliver writes, and only the handler ends. *)
LEMMA DeliverRefines ==
  ASSUME IInv, Deliver
  PROVE  Client!Next
  <1> USE RelayAssumption
  <1> DEFINE n == Len(delivered)
  <1>1. /\ handler = "loop" /\ handler' = "loop"
        /\ delivered' = Append(delivered, held)
        /\ delivered \in Seq(Attempts \X (1..Chunks)) /\ attempt \in Attempts
        /\ held \in Attempts \X (1..Chunks)
    BY DEF Deliver, Serving, IInv, TypeOK
  <1>2. n \in Nat /\ held = <<attempt, n + 1>>
    BY <1>1 DEF Deliver, IInv, PrefixInv
  <1>3. CASE n = 0
    <2>1. delivered = <<>>
      BY <1>1, <1>3
    <2>2. delivered' = << <<attempt, 1>> >>
      BY <1>1, <1>2, <1>3, <2>1
    <2>3. Client!First(attempt)
      BY <1>1, <2>1, <2>2 DEF Client!First
    <2> QED BY <1>1, <2>3 DEF Client!Next
  <1>4. CASE n # 0
    <2>1. 1 \in DOMAIN delivered
      BY <1>1, <1>2, <1>4
    <2>2. delivered[1] = <<attempt, 1>>
      BY <2>1 DEF IInv, PrefixInv
    <2>3. n + 1 <= Chunks
      BY <1>1, <1>2
    <2>4. n \in 1..(Chunks - 1)
      BY <1>2, <1>4, <2>3
    <2>5. Client!More
      BY <1>1, <1>2, <2>2, <2>4 DEF Client!More
    <2> QED BY <2>5 DEF Client!Next
  <1> QED BY <1>3, <1>4

LEMMA EndRefines ==
  ASSUME IInv, HandlerEnd \/ HandlerError \/ HandlerGone
  PROVE  Client!Next
  <1>1. PICK how \in {"logged", "error", "gone"} :
            Return(how) /\ (how = "error" => errOut = "err")
    BY DEF HandlerEnd, HandlerError, HandlerGone
  <1>2. handler = "loop" /\ handler' = how /\ delivered' = delivered
    BY <1>1 DEF Return, Serving, HandlerEnd, HandlerError, HandlerGone
  <1>3. how = "error" => delivered = <<>>
    BY <1>1 DEF IInv, ErrorInv
  <1>4. Client!End(how)
    BY <1>2, <1>3 DEF Client!End
  <1> QED BY <1>4 DEF Client!Next

LEMMA QuietRefines ==
  ASSUME \/ ClientLeaves \/ Relay \/ HandlerNil \/ UNCHANGED vars
         \/ \E a \in Attempts : Timeout(a) \/ Producer(a)
  PROVE  UNCHANGED Client!vars
  <1>1. CASE Relay
    BY <1>1 DEF Relay, Dial, SelectChunk, Take, SelectErr, SelectClosed,
                SelectTimeout, After, Wake, PipeChunk, PipeEnd, CloseErr, CloseOut,
                Client!vars
  <1>2. CASE \E a \in Attempts : Timeout(a) \/ Producer(a)
    BY <1>2 DEF Timeout, Producer, Produce, EndOfStream, Fail, CloseChunks,
                Client!vars
  <1> QED BY <1>1, <1>2 DEF ClientLeaves, HandlerNil, vars, Client!vars

(* For any number of retries and chunks, the streaming path implements the *)
(* stream the client is promised (handler.go:162-206, resilient.go:68-118).*)
THEOREM ImplementsRetriedStream == Spec => IsRetriedStream
  <1>1. Init => Client!Init
    BY DEF Init, Client!Init
  <1>2. IInv /\ [Next]_vars => [Client!Next]_(Client!vars)
    <2> SUFFICES ASSUME IInv, [Next]_vars
                 PROVE  Client!Next \/ UNCHANGED Client!vars
      OBVIOUS
    <2>1. CASE Handler
      BY <2>1, DeliverRefines, EndRefines, QuietRefines DEF Handler
    <2> QED BY <2>1, QuietRefines DEF Next
  <1> QED BY <1>1, <1>2, Inductive, PTL DEF Spec, IsRetriedStream, Client!Spec
-----------------------------------------------------------------------------
(* Nobody waits for nobody: what the relay waits for in each of its states.*)
WaitInv ==
    /\ relay = "select" => tctx[attempt] # "none" /\ base[attempt].pc # "none"
    /\ relay \in {"forward", "pipe"} =>
          tctx[attempt] = "done" /\ base[attempt].pc # "none"
    /\ relay = "done" => outClosed

(* A context that was made stays made, and outside Dial an ended one stays *)
(* ended.                                                                  *)
LEMMA ContextsOnlyEnd ==
  ASSUME IInv, [Next]_vars, NEW a \in Attempts
  PROVE  /\ tctx[a] # "none" => tctx'[a] # "none"
         /\ ~Dial /\ tctx[a] = "done" => tctx'[a] = "done"
  <1>1. tctx \in [Attempts -> {"none", "live", "done"}] /\ attempt \in Attempts
    BY DEF IInv, TypeOK
  <1>2. CASE Relay
    BY <1>1, <1>2 DEF Relay, Dial, SelectChunk, Take, Cancel, SelectErr,
       SelectClosed, SelectTimeout, After, Wake, PipeChunk, PipeEnd, CloseErr,
       CloseOut
  <1>3. CASE Handler
    BY <1>1, <1>3 DEF Handler, Deliver, HandlerEnd, HandlerError, HandlerNil,
       HandlerGone, Return, Cancelled
  <1>4. CASE ClientLeaves
    BY <1>1, <1>4 DEF ClientLeaves, Cancelled
  <1>5. CASE \E x \in Attempts : Timeout(x) \/ Producer(x)
    BY <1>1, <1>5 DEF Timeout, Producer, Produce, EndOfStream, Fail, CloseChunks
  <1>6. CASE UNCHANGED vars
    BY <1>6 DEF vars
  <1> QED BY <1>2, <1>3, <1>4, <1>5, <1>6 DEF Next

(* A producer that was started stays started. *)
LEMMA ProducersStay ==
  ASSUME IInv, [Next]_vars, NEW a \in Attempts, base[a].pc # "none"
  PROVE  base'[a].pc # "none"
  <1>1. base \in [Attempts -> BaseState] /\ attempt \in Attempts
    BY DEF IInv, TypeOK
  <1>2. base[a] \in BaseState
    BY <1>1, BaseFields
  <1>3. CASE Relay
    <2>1. CASE UNCHANGED base
      BY <2>1
    <2>2. CASE Dial \/ SelectChunk \/ PipeChunk \/ SelectErr
      BY <1>1, <1>2, <2>2 DEF Dial, SelectChunk, PipeChunk, Take, SelectErr,
         BaseState
    <2> QED BY <1>3, <2>1, <2>2 DEF Relay, SelectClosed, SelectTimeout, After,
               Wake, PipeEnd, CloseErr, CloseOut
  <1>4. CASE \E x \in Attempts : Timeout(x) \/ Producer(x)
    BY <1>1, <1>2, <1>4 DEF Timeout, Producer, Produce, EndOfStream, Fail,
       CloseChunks, BaseState
  <1>5. CASE ClientLeaves \/ Handler \/ UNCHANGED vars
    BY <1>5 DEF ClientLeaves, Handler, Deliver, HandlerEnd, HandlerError,
       HandlerNil, HandlerGone, vars
  <1> QED BY <1>3, <1>4, <1>5 DEF Next

LEMMA WaitStep == IInv /\ WaitInv /\ [Next]_vars => WaitInv'
  <1> SUFFICES ASSUME IInv, WaitInv, [Next]_vars PROVE WaitInv'
    OBVIOUS
  <1>1. /\ tctx \in [Attempts -> {"none", "live", "done"}]
        /\ base \in [Attempts -> BaseState]
        /\ attempt \in Attempts
    BY DEF IInv, TypeOK
  <1>2. base[attempt] \in BaseState
    BY <1>1, BaseFields
  <1>3. /\ tctx[attempt] # "none" => tctx'[attempt] # "none"
        /\ ~Dial /\ tctx[attempt] = "done" => tctx'[attempt] = "done"
        /\ base[attempt].pc # "none" => base'[attempt].pc # "none"
    BY <1>1, ContextsOnlyEnd, ProducersStay
  <1>4. CASE Dial
    <2>1. /\ relay' = "select" /\ attempt' = attempt
          /\ tctx'[attempt] # "none"
      BY <1>1, <1>4 DEF Dial
    <2>2. base'[attempt].pc = "run"
      BY <1>1, <1>2, <1>4 DEF Dial, BaseState
    <2> QED BY <2>1, <2>2 DEF WaitInv
  <1>5. CASE SelectChunk
    <2>1. relay' = "forward" /\ attempt' = attempt /\ relay = "select"
      BY <1>5 DEF SelectChunk, Take
    <2>2. tctx'[attempt] = "done"
      BY <1>1, <1>5 DEF SelectChunk, Cancel
    <2> QED BY <1>3, <2>1, <2>2 DEF WaitInv
  <1>6. CASE PipeChunk
    <2>1. relay' = "forward" /\ attempt' = attempt /\ relay = "pipe"
      BY <1>6 DEF PipeChunk, Take
    <2>2. ~Dial
      BY <2>1 DEF Dial
    <2> QED BY <1>3, <2>1, <2>2 DEF WaitInv
  <1>7. CASE SelectErr \/ SelectClosed \/ SelectTimeout \/ After \/ Wake
             \/ PipeEnd \/ CloseErr
    <2>1. relay' \in {"after", "sleep", "closeErr", "dial", "closeOut"}
      BY <1>7 DEF SelectErr, SelectClosed, SelectTimeout, After, Wake, PipeEnd,
         ReturnBroken, CloseErr
    <2> QED BY <2>1 DEF WaitInv
  <1>8. CASE CloseOut
    BY <1>8 DEF CloseOut, WaitInv
  <1>9. CASE Deliver
    <2>1. relay' = "pipe" /\ attempt' = attempt /\ relay = "forward"
      BY <1>9 DEF Deliver
    <2>2. ~Dial
      BY <2>1 DEF Dial
    <2> QED BY <1>3, <2>1, <2>2 DEF WaitInv
  <1>10. CASE UNCHANGED <<relay, attempt, outClosed>>
    <2>1. ~Dial
      BY <1>10 DEF Dial
    <2> QED BY <1>3, <1>10, <2>1 DEF WaitInv
  <1>11. Relay \/ Deliver \/ UNCHANGED <<relay, attempt, outClosed>>
    BY DEF Next, Handler, HandlerEnd, HandlerError, HandlerNil, HandlerGone,
       ClientLeaves, Timeout, Producer, Produce, EndOfStream, Fail, CloseChunks,
       relayVars, vars
  <1> QED BY <1>4, <1>5, <1>6, <1>7, <1>8, <1>9, <1>10, <1>11 DEF Relay

(* No interleaving leaves handleStream waiting for a relay that returned   *)
(* without closing its channel, that waits in its select without a timer,  *)
(* or that pipes from a producer whose context never ends.                 *)
THEOREM NoHandlerDeadlock == Spec => []HandlerIsServed
  <1>1. Init => WaitInv
    BY DEF Init, WaitInv
  <1>2. WaitInv => HandlerIsServed
    BY DEF WaitInv, HandlerIsServed
  <1> QED BY <1>1, <1>2, WaitStep, Inductive, PTL DEF Spec
-----------------------------------------------------------------------------
(* A relay that forwarded something returns after its producer did. *)
DrainedInv == relay \in Closing /\ delivered # <<>> => base[attempt].pc = "closed"

(* A producer that returned does not run again. *)
LEMMA ClosedStays ==
  ASSUME IInv, [Next]_vars, NEW a \in Attempts, base[a].pc = "closed",
         relay \in Closing
  PROVE  base'[a].pc = "closed"
  <1>1. base \in [Attempts -> BaseState]
    BY DEF IInv, TypeOK
  <1>2. base[a] \in BaseState
    BY <1>1, BaseFields
  <1>3. ASSUME NEW x \in Attempts, Producer(x) PROVE base'[a].pc = "closed"
    <2>1. x # a
      BY <1>3 DEF Producer, Produce, EndOfStream, Fail, CloseChunks
    <2>2. base'[a] = base[a]
      BY <1>1, <1>3, <2>1 DEF Producer, Produce, EndOfStream, Fail, CloseChunks
    <2> QED BY <2>2
  <1>4. CASE UNCHANGED base
    BY <1>4
  <1> QED BY <1>3, <1>4 DEF Next, Relay, Closing, Dial, SelectChunk, SelectErr,
             SelectClosed, SelectTimeout, After, Wake, PipeChunk, PipeEnd,
             CloseErr, CloseOut, Handler, Deliver, HandlerEnd, HandlerError,
             HandlerNil, HandlerGone, ClientLeaves, Timeout, vars

LEMMA DrainedStep == IInv /\ DrainedInv /\ [Next]_vars => DrainedInv'
  <1> SUFFICES ASSUME IInv, DrainedInv, [Next]_vars,
                      relay' \in Closing, delivered' # <<>>
               PROVE  base'[attempt'].pc = "closed"
    BY DEF DrainedInv
  <1>1. CASE relay \in Closing
    <2>1. attempt' = attempt /\ delivered' = delivered /\ attempt \in Attempts
      BY <1>1 DEF Next, Relay, Closing, Dial, SelectChunk, SelectErr,
         SelectClosed, SelectTimeout, After, Wake, PipeChunk, PipeEnd, CloseErr,
         CloseOut, Handler, Deliver, HandlerEnd, HandlerError, HandlerNil,
         HandlerGone, ClientLeaves, Timeout, Producer, Produce, EndOfStream,
         Fail, CloseChunks, relayVars, vars, IInv, TypeOK
    <2> QED BY <1>1, <2>1, ClosedStays DEF DrainedInv
  <1>2. CASE relay \notin Closing
    <2>1. After \/ PipeEnd
      BY <1>2 DEF Next, Relay, Closing, Dial, SelectChunk, SelectErr, Take,
         SelectClosed, SelectTimeout, Wake, PipeChunk, CloseErr, CloseOut,
         Handler, Deliver, HandlerEnd, HandlerError, HandlerNil, HandlerGone,
         ClientLeaves, Timeout, Producer, Produce, EndOfStream, Fail,
         CloseChunks, relayVars, vars
    <2>2. CASE After
      BY <2>2 DEF After, IInv, PrefixInv
    <2>3. CASE PipeEnd
      BY <2>3 DEF PipeEnd, Drained
    <2> QED BY <2>1, <2>2, <2>3
  <1> QED BY <1>1, <1>2

(* The producer behind a stream that was logged as complete has returned,  *)
(* whatever timeouts, cancellations and errors it met (resilient.go:88-93).*)
THEOREM NoServedProducerLeak == Spec => []ServedProducerEnds
  <1>1. Init => DrainedInv
    BY DEF Init, DrainedInv
  <1>2. IInv /\ DrainedInv => ServedProducerEnds
    <2> SUFFICES ASSUME IInv, DrainedInv, handler = "logged",
                        NEW j \in DOMAIN delivered
                 PROVE  base[delivered[j][1]].pc = "closed"
      BY DEF ServedProducerEnds
    <2>1. delivered[j][1] = attempt /\ delivered # <<>>
      BY DEF IInv, TypeOK, PrefixInv
    <2>2. relay \in Closing
      BY DEF IInv, ErrorInv, Closing
    <2> QED BY <2>1, <2>2 DEF DrainedInv
  <1> QED BY <1>1, <1>2, DrainedStep, Inductive, PTL DEF Spec
-----------------------------------------------------------------------------
(* How far the relay is from its return: attempts left, chunks left of the *)
(* running attempt, and the place in the loop.                             *)
Stage ==
    CASE relay = "dial"     -> 8
      [] relay = "select"   -> 7
      [] relay = "after"    -> 6
      [] relay = "sleep"    -> 5
      [] relay = "forward"  -> 4
      [] relay = "pipe"     -> 3
      [] relay = "closeErr" -> 2
      [] relay = "closeOut" -> 1
      [] relay = "done"     -> 0

RelayLeft == 4 * (MaxRetries - attempt) + 2 * (Chunks - base[attempt].sent) + Stage

LEMMA StageRange ==
  ASSUME TypeOK
  PROVE  Stage \in Int /\ Stage >= 0 /\ Stage <= 8
  <1>1. relay \in {"dial", "select", "after", "sleep", "forward", "pipe",
                   "closeErr", "closeOut", "done"}
    BY DEF TypeOK
  <1>2. Stage \in 0..8
    BY <1>1 DEF Stage
  <1> QED BY <1>2

LEMMA RelayLeftRange ==
  ASSUME IInv
  PROVE  RelayLeft \in 0..(4 * MaxRetries + 2 * Chunks + 8)
  <1> USE RelayAssumption
  <1> DEFINE s == Stage
             n == base[attempt].sent
  <1>1. s \in Int /\ s >= 0 /\ s <= 8
    BY StageRange DEF IInv
  <1>2. attempt \in Int /\ attempt >= 0 /\ attempt <= MaxRetries
    BY DEF IInv, TypeOK, Attempts
  <1>3. n \in Int /\ n >= 0 /\ n <= Chunks
    BY BaseFields DEF IInv, TypeOK
  <1>4. RelayLeft = 4 * (MaxRetries - attempt) + 2 * (Chunks - n) + s
    BY DEF RelayLeft
  <1> HIDE DEF s, n
  <1> QED BY <1>1, <1>2, <1>3, <1>4

(* The chunks the relay took of its attempt change only in Take. *)
LEMMA SentStep ==
  ASSUME IInv, [Next]_vars, NEW a \in Attempts
  PROVE  base'[a].sent = IF (SelectChunk \/ PipeChunk) /\ a = attempt
                         THEN base[a].sent + 1 ELSE base[a].sent
  <1>1. base \in [Attempts -> BaseState] /\ attempt \in Attempts
    BY DEF IInv, TypeOK
  <1>2. base[a] \in BaseState
    BY <1>1, BaseFields
  <1>3. CASE SelectChunk \/ PipeChunk
    BY <1>1, <1>2, <1>3 DEF SelectChunk, PipeChunk, Take, BaseState
  <1>4. CASE Dial \/ SelectErr
    <2>1. ~SelectChunk /\ ~PipeChunk
      BY <1>4 DEF Dial, SelectErr, SelectChunk, PipeChunk, Take
    <2> QED BY <1>1, <1>2, <1>4, <2>1 DEF Dial, SelectErr, BaseState
  <1>5. CASE \E x \in Attempts : Producer(x)
    <2>1. ~SelectChunk /\ ~PipeChunk
      BY <1>5 DEF Producer, Produce, EndOfStream, Fail, CloseChunks, relayVars,
         SelectChunk, PipeChunk, Take
    <2> QED BY <1>5, <2>1, ProducerBase
  <1>6. CASE UNCHANGED base
    <2>1. ~SelectChunk /\ ~PipeChunk
      <3> SUFFICES ASSUME Take PROVE FALSE
        BY DEF SelectChunk, PipeChunk
      <3>1. base'[attempt].pc = "run" /\ base[attempt].pc = "send"
        BY <1>1, BaseFields DEF Take, BaseState
      <3> QED BY <1>6, <3>1
    <2> QED BY <1>6, <2>1
  <1> QED BY <1>3, <1>4, <1>5, <1>6 DEF Next, Relay, SelectClosed,
             SelectTimeout, After, Wake, PipeEnd, CloseErr, CloseOut, Handler,
             Deliver, HandlerEnd, HandlerError, HandlerNil, HandlerGone,
             ClientLeaves, Timeout, vars

(* Each step of the relay's goroutine brings it closer to its return. *)
LEMMA RelayLowers ==
  ASSUME IInv, IInv', [Next]_vars
  PROVE  IF UNCHANGED <<relay, attempt>> THEN RelayLeft' = RelayLeft
                                         ELSE RelayLeft' < RelayLeft
  <1> USE RelayAssumption
  <1> DEFINE s == Stage
             t == Stage'
             m == base[attempt].sent
             n == base'[attempt'].sent
  <1>1. /\ attempt \in Int /\ attempt' \in Int
        /\ attempt \in Attempts /\ attempt' \in Attempts
    BY DEF IInv, TypeOK, Attempts
  <1>2. m \in Int /\ n \in Int
    <2>1. base[attempt].sent \in 0..Chunks
      BY <1>1, BaseFields DEF IInv, TypeOK
    <2>2. base'[attempt'].sent \in 0..Chunks
      BY <1>1 DEF IInv, TypeOK, BaseState
    <2> QED BY <2>1, <2>2
  <1>3. /\ RelayLeft = 4 * (MaxRetries - attempt) + 2 * (Chunks - m) + s
        /\ RelayLeft' = 4 * (MaxRetries - attempt') + 2 * (Chunks - n) + t
    BY DEF RelayLeft
  <1>4. s \in Int /\ t \in Int
    BY DEF Stage, IInv, TypeOK
  <1>5. CASE SelectChunk \/ PipeChunk
    <2>1. attempt' = attempt /\ n = m + 1
      BY <1>1, <1>5, SentStep DEF SelectChunk, PipeChunk, Take
    <2>2. relay' = "forward" /\ relay \in {"select", "pipe"}
      BY <1>5 DEF SelectChunk, PipeChunk, Take
    <2>3. t = 4 /\ s >= 3
      BY <2>2 DEF Stage
    <2> HIDE DEF s, t, m, n
    <2> QED BY <1>1, <1>2, <1>3, <1>4, <2>1, <2>2, <2>3
  <1>6. CASE Wake
    <2>1. attempt' = attempt + 1 /\ relay = "sleep" /\ relay' = "dial"
      BY <1>6 DEF Wake
    <2>2. m = 0 /\ n = 0
      BY <1>1, <2>1 DEF IInv, PrefixInv
    <2>3. s = 5 /\ t = 8
      BY <2>1 DEF Stage
    <2> HIDE DEF s, t, m, n
    <2> QED BY <1>1, <1>2, <1>3, <1>4, <2>1, <2>2, <2>3
  <1>7. CASE Dial \/ SelectErr \/ SelectClosed \/ SelectTimeout \/ After
             \/ PipeEnd \/ CloseErr \/ CloseOut \/ Deliver
    <2>1. /\ attempt' = attempt
          /\ \/ relay = "dial" /\ relay' = "select"
             \/ relay = "select" /\ relay' = "after"
             \/ relay = "after" /\ relay' = "sleep"
             \/ relay = "after" /\ relay' = "closeErr"
             \/ relay = "pipe" /\ relay' = "closeErr"
             \/ relay = "closeErr" /\ relay' = "closeOut"
             \/ relay = "closeOut" /\ relay' = "done"
             \/ relay = "forward" /\ relay' = "pipe"
      BY <1>7 DEF Dial, SelectErr, SelectClosed, SelectTimeout, After, PipeEnd,
         ReturnBroken, CloseErr, CloseOut, Deliver
    <2>2. ~SelectChunk /\ ~PipeChunk
      BY <2>1 DEF SelectChunk, PipeChunk, Take
    <2>3. n = m
      BY <1>1, <2>1, <2>2, SentStep
    <2>4. t < s
      BY <2>1 DEF Stage
    <2> HIDE DEF s, t, m, n
    <2> QED BY <1>1, <1>2, <1>3, <1>4, <2>1, <2>3, <2>4
  <1>8. CASE UNCHANGED <<relay, attempt>>
    <2>1. ~SelectChunk /\ ~PipeChunk
      BY <1>8 DEF SelectChunk, PipeChunk, Take
    <2>2. n = m
      BY <1>1, <1>8, <2>1, SentStep
    <2>3. s = t
      BY <1>8 DEF Stage
    <2> HIDE DEF s, t, m, n
    <2> QED BY <1>1, <1>2, <1>3, <1>4, <1>8, <2>2, <2>3
  <1>9. Relay \/ Deliver \/ UNCHANGED <<relay, attempt>>
    BY DEF Next, Handler, HandlerEnd, HandlerError, HandlerNil, HandlerGone,
       ClientLeaves, Timeout, Producer, Produce, EndOfStream, Fail, CloseChunks,
       relayVars, vars
  <1> QED BY <1>5, <1>6, <1>7, <1>8, <1>9 DEF Relay

(* What StreamEnds rests on, for any number of retries and chunks: the     *)
(* relay makes at most 4 * MaxRetries + 2 * Chunks + 8 steps, and no step  *)
(* of a producer, a timer, the handler or the client takes one back.       *)
THEOREM RelayAdvances ==
  Spec => [][/\ RelayLeft \in 0..(4 * MaxRetries + 2 * Chunks + 8)
             /\ IF UNCHANGED <<relay, attempt>> THEN RelayLeft' = RelayLeft
                                                ELSE RelayLeft' < RelayLeft]_vars
  <1>1. IInv /\ IInv' /\ [Next]_vars =>
          [/\ RelayLeft \in 0..(4 * MaxRetries + 2 * Chunks + 8)
           /\ IF UNCHANGED <<relay, attempt>> THEN RelayLeft' = RelayLeft
                                              ELSE RelayLeft' < RelayLeft]_vars
    BY RelayLeftRange, RelayLowers
  <1> QED BY <1>1, Inductive, PTL DEF Spec
=============================================================================
