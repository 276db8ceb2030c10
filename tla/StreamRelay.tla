----------------------------- MODULE StreamRelay -----------------------------
(***************************************************************************)
(* One streaming chat request: the handler goroutine (handleStream of      *)
(* internal/router/handler.go), the goroutine of ResilientProvider's       *)
(* ChatStream (internal/provider/resilient.go), and one producer goroutine *)
(* per attempt, started by the base provider's ChatStream.                 *)
(*                                                                         *)
(* All chunk channels are unbuffered, so a send and its receive are one    *)
(* step of both goroutines; the error channels hold one value. A closed    *)
(* error channel read by a select yields nil and changes nothing, so that  *)
(* turn of the handler's loop is a stuttering step.                        *)
(***************************************************************************)
EXTENDS Integers, Sequences

CONSTANTS MaxRetries,  \* ResilientProvider.maxRetries
          Chunks       \* chunks of a complete upstream stream

ASSUME RelayAssumption == MaxRetries \in Nat /\ Chunks \in Nat \ {0}

VARIABLES ctx,        \* r.Context(): "live", "gone" (client left), "returned"
          tctx,       \* tctx[a]: the context WithTimeout made for attempt a
          base,       \* base[a]: the producer goroutine of attempt a
          relay,      \* where ChatStream's goroutine stands
          attempt,    \* its loop variable i
          lastErr,    \* lastErr # nil
          held,       \* the chunk it is about to forward
          errOut,     \* its errChan: "empty", "nil" or "err" buffered
          outClosed,  \* its chunkChan is closed
          handler,    \* "loop" or, after return, what handleStream did last
          delivered   \* chunks written to the client, as <<attempt, number>>

relayVars == <<relay, attempt, lastErr, held, errOut, outClosed>>
vars == <<ctx, tctx, base, relayVars, handler, delivered>>

Attempts == 0..MaxRetries

(* pc of a producer: "none" before the call, "run", "send" blocked on the  *)
(* chunk channel, "ending" (error channel filled or closed), "closed" (chunk*)
(* channel closed); err: an error waits in its error channel.              *)
BaseState == [pc : {"none", "run", "send", "ending", "closed"},
              sent : 0..Chunks, err : BOOLEAN]

TypeOK ==
    /\ ctx \in {"live", "gone", "returned"}
    /\ tctx \in [Attempts -> {"none", "live", "done"}]
    /\ base \in [Attempts -> BaseState]
    /\ relay \in {"dial", "select", "after", "sleep", "forward", "pipe",
                  "closeErr", "closeOut", "done"}
    /\ attempt \in Attempts
    /\ lastErr \in BOOLEAN
    /\ held \in Attempts \X (1..Chunks)
    /\ errOut \in {"empty", "nil", "err"}
    /\ outClosed \in BOOLEAN
    /\ handler \in {"loop", "logged", "error", "gone"}
    /\ delivered \in Seq(Attempts \X (1..Chunks))

Init ==
    /\ ctx = "live"
    /\ tctx = [a \in Attempts |-> "none"]
    /\ base = [a \in Attempts |-> [pc |-> "none", sent |-> 0, err |-> FALSE]]
    /\ relay = "dial"
    /\ attempt = 0
    /\ lastErr = FALSE
    /\ held = <<0, 1>>
    /\ errOut = "empty"
    /\ outClosed = FALSE
    /\ handler = "loop"
    /\ delivered = <<>>
-----------------------------------------------------------------------------
(* Contexts. Every attempt's context is a child of the request's, and the  *)
(* server cancels the request's when the client leaves or ServeHTTP returns*)
Cancelled == [a \in Attempts |-> IF tctx[a] = "live" THEN "done" ELSE tctx[a]]

(* The client disconnects, or the 60 s that http.Server's WriteTimeout     *)
(* (main.go:149) gives a response run out: the next write fails, and the   *)
(* server cancels the request in either case.                              *)
ClientLeaves ==
    /\ ctx = "live"
    /\ ctx' = "gone"
    /\ tctx' = Cancelled
    /\ UNCHANGED <<base, relayVars, handler, delivered>>

(* The 30 s of main.go:66 run out. *)
Timeout(a) ==
    /\ tctx[a] = "live"
    /\ tctx' = [tctx EXCEPT ![a] = "done"]
    /\ UNCHANGED <<ctx, base, relayVars, handler, delivered>>
-----------------------------------------------------------------------------
(* Producers. A producer that has a chunk blocks on the channel whether or *)
(* not its context is done.                                                *)
Produce(a) ==
    /\ base[a].pc = "run"
    /\ base[a].sent < Chunks
    /\ base' = [base EXCEPT ![a].pc = "send"]
    /\ UNCHANGED <<ctx, tctx, relayVars, handler, delivered>>

(* The upstream ends, or the producer stops without an error because its   *)
(* context is done (mock.go:51-53): close(errChan).                        *)
EndOfStream(a) ==
    /\ base[a].pc = "run"
    /\ base[a].sent = Chunks \/ tctx[a] = "done"
    /\ base' = [base EXCEPT ![a].pc = "ending"]
    /\ UNCHANGED <<ctx, tctx, relayVars, handler, delivered>>

(* The upstream, or the cancelled call to it, fails: errChan <- err. *)
Fail(a) ==
    /\ base[a].pc = "run"
    /\ base' = [base EXCEPT ![a].pc = "ending", ![a].err = TRUE]
    /\ UNCHANGED <<ctx, tctx, relayVars, handler, delivered>>

(* The deferred close(chunkChan). *)
CloseChunks(a) ==
    /\ base[a].pc = "ending"
    /\ base' = [base EXCEPT ![a].pc = "closed"]
    /\ UNCHANGED <<ctx, tctx, relayVars, handler, delivered>>

Producer(a) == Produce(a) \/ EndOfStream(a) \/ Fail(a) \/ CloseChunks(a)
-----------------------------------------------------------------------------
(* ChatStream's goroutine. *)
Dial ==
    /\ relay = "dial"
    /\ relay' = "select"
    /\ tctx' = [tctx EXCEPT ![attempt] = IF ctx = "live" THEN "live" ELSE "done"]
    /\ base' = [base EXCEPT ![attempt].pc = "run"]
    /\ UNCHANGED <<ctx, attempt, lastErr, held, errOut, outClosed, handler,
                   delivered>>

(* Receive a chunk of the running attempt. *)
Take ==
    /\ base[attempt].pc = "send"
    /\ base' = [base EXCEPT ![attempt].pc = "run", ![attempt].sent = @ + 1]
    /\ held' = <<attempt, base[attempt].sent + 1>>
    /\ relay' = "forward"
    /\ UNCHANGED <<ctx, attempt, lastErr, errOut, outClosed, handler, delivered>>

(* Mutant: no cancel(). *)
KeepContext == UNCHANGED tctx

Cancel == tctx' = [tctx EXCEPT ![attempt] = "done"]

(* The first chunk: the attempt's context is cancelled before the rest is  *)
(* piped (resilient.go:88).                                                *)
SelectChunk ==
    /\ relay = "select"
    /\ Take
    /\ Cancel

SelectErr ==
    /\ relay = "select"
    /\ base[attempt].err
    /\ base' = [base EXCEPT ![attempt].err = FALSE]
    /\ lastErr' = TRUE
    /\ relay' = "after"
    /\ UNCHANGED <<ctx, tctx, attempt, held, errOut, outClosed, handler,
                   delivered>>

(* A closed chunk channel, or a closed and empty error channel, leaves     *)
(* lastErr as it was.                                                      *)
SelectClosed ==
    /\ relay = "select"
    /\ \/ base[attempt].pc = "closed"
       \/ base[attempt].pc = "ending" /\ ~base[attempt].err
    /\ relay' = "after"
    /\ UNCHANGED <<ctx, tctx, base, attempt, lastErr, held, errOut, outClosed,
                   handler, delivered>>

SelectTimeout ==
    /\ relay = "select"
    /\ tctx[attempt] = "done"
    /\ lastErr' = TRUE
    /\ relay' = "after"
    /\ UNCHANGED <<ctx, tctx, base, attempt, held, errOut, outClosed, handler,
                   delivered>>

(* Mutant: one attempt too many. *)
AttemptLeftOffByOne == attempt <= MaxRetries

AttemptLeft == attempt < MaxRetries

(* Mutant: every failure is reported at once. *)
ReportNow == errOut' = "err"

ReportLater == UNCHANGED errOut

(* After a failed attempt: cancel(), then give up, sleep, or report. *)
After ==
    /\ relay = "after"
    /\ Cancel
    /\ \/ /\ ctx # "live"
          /\ errOut' = "err"
          /\ relay' = "closeErr"
       \/ /\ ctx = "live" /\ AttemptLeft
          /\ relay' = "sleep"
          /\ ReportLater
       \/ /\ ctx = "live" /\ ~AttemptLeft
          /\ errOut' = IF lastErr THEN "err" ELSE "nil"
          /\ relay' = "closeErr"
    /\ UNCHANGED <<ctx, base, attempt, lastErr, held, outClosed, handler,
                   delivered>>

Wake ==
    /\ relay = "sleep"
    /\ relay' = "dial"
    /\ attempt' = attempt + 1
    /\ UNCHANGED <<ctx, tctx, base, lastErr, held, errOut, outClosed, handler,
                   delivered>>

PipeChunk ==
    /\ relay = "pipe"
    /\ Take
    /\ UNCHANGED tctx

(* Mutant: a stream that broke off is tried again. *)
RetryBroken == relay' = IF base[attempt].err THEN "after" ELSE "closeErr"

ReturnBroken == relay' = "closeErr"

(* Mutant: the pipe also ends when the context is done. *)
DrainedOrDone == base[attempt].pc = "closed" \/ tctx[attempt] = "done"

Drained == base[attempt].pc = "closed"

PipeEnd ==
    /\ relay = "pipe"
    /\ Drained
    /\ ReturnBroken
    /\ UNCHANGED <<ctx, tctx, base, attempt, lastErr, held, errOut, outClosed,
                   handler, delivered>>

(* The deferred close(errChan), then close(chunkChan). *)
CloseErr ==
    /\ relay = "closeErr"
    /\ relay' = "closeOut"
    /\ UNCHANGED <<ctx, tctx, base, attempt, lastErr, held, errOut, outClosed,
                   handler, delivered>>

(* Mutant: chunkChan is not closed. *)
CloseOutForgotten ==
    /\ relay = "closeOut"
    /\ relay' = "done"
    /\ UNCHANGED <<ctx, tctx, base, attempt, lastErr, held, errOut, outClosed,
                   handler, delivered>>

CloseOut ==
    /\ relay = "closeOut"
    /\ relay' = "done"
    /\ outClosed' = TRUE
    /\ UNCHANGED <<ctx, tctx, base, attempt, lastErr, held, errOut, handler,
                   delivered>>

Relay == Dial \/ SelectChunk \/ SelectErr \/ SelectClosed \/ SelectTimeout
         \/ After \/ Wake \/ PipeChunk \/ PipeEnd \/ CloseErr \/ CloseOut
-----------------------------------------------------------------------------
(* handleStream. Mutant: no return once the client is gone. *)
ServingTheGone == handler \in {"loop", "gone"}

Serving == handler = "loop"

Deliver ==
    /\ Serving
    /\ relay = "forward"
    /\ relay' = "pipe"
    /\ delivered' = Append(delivered, held)
    /\ UNCHANGED <<ctx, tctx, base, attempt, lastErr, held, errOut, outClosed,
                   handler>>

(* handleStream returns, and with it ServeHTTP. *)
Return(how) ==
    /\ Serving
    /\ handler' = how
    /\ ctx' = IF ctx = "live" THEN "returned" ELSE ctx
    /\ tctx' = Cancelled

(* The final log with status 200. *)
HandlerEnd ==
    /\ outClosed
    /\ Return("logged")
    /\ UNCHANGED <<base, relayVars, delivered>>

(* RecordError(p.Name(), 502). *)
HandlerError ==
    /\ errOut = "err"
    /\ errOut' = "empty"
    /\ Return("error")
    /\ UNCHANGED <<base, relay, attempt, lastErr, held, outClosed, delivered>>

(* A nil error is received and dropped. *)
HandlerNil ==
    /\ Serving
    /\ errOut = "nil"
    /\ errOut' = "empty"
    /\ UNCHANGED <<ctx, tctx, base, relay, attempt, lastErr, held, outClosed,
                   handler, delivered>>

HandlerGone ==
    /\ ctx = "gone"
    /\ Return("gone")
    /\ UNCHANGED <<base, relayVars, delivered>>

Handler == Deliver \/ HandlerEnd \/ HandlerError \/ HandlerNil \/ HandlerGone

Next ==
    \/ ClientLeaves
    \/ Relay
    \/ Handler
    \/ \E a \in Attempts : Timeout(a) \/ Producer(a)

(* The Go scheduler runs every goroutine that can move, timers fire, and a *)
(* producer returns from its upstream call once its context is done; an    *)
(* upstream that merely hangs owes nothing.                                *)
Fairness ==
    /\ WF_vars(Relay) /\ WF_vars(Handler)
    /\ \A a \in Attempts : /\ WF_vars(Timeout(a))
                           /\ WF_vars(CloseChunks(a))
                           /\ WF_vars(tctx[a] = "done" /\ Producer(a))

Spec     == Init /\ [][Next]_vars
FairSpec == Spec /\ Fairness
-----------------------------------------------------------------------------
(* "Mid-stream retries are complex and often result in duplicate content"  *)
(* (resilient.go:70): whatever attempts were made, what the client got is  *)
(* the uninterrupted beginning of a single attempt's stream.               *)
SingleAttemptPrefix ==
    \A j \in DOMAIN delivered : delivered[j] = <<delivered[1][1], j>>

(* What the client sees of the goroutines, retries and contexts is a       *)
(* RetriedStream: the chunks of one attempt in order, then one end, an     *)
(* error only in place of all content, and nothing after the end           *)
(* (handler.go:175-206, resilient.go:81-117).                              *)
Client == INSTANCE RetriedStream WITH outcome <- handler

IsRetriedStream == Client!Spec

(* The relay goroutine sends to an unbuffered channel without watching any *)
(* context (resilient.go:89-92), so it leaks when nobody receives; that    *)
(* happens only to a client that went away, never after handleStream left  *)
(* because of an error or the end of the stream.                           *)
RelayStuckOnlyIfClientGone ==
    handler \in {"logged", "error"} => relay \notin {"forward", "pipe"}

(* A stream that was served to its end leaves no goroutine behind: the     *)
(* producer whose chunks the client got has returned by then, because the  *)
(* pipe ends with its channel and not with its context, which was cancelled*)
(* long before (resilient.go:88-93). Producers of attempts given up earlier*)
(* have no such end: nobody receives from them any more.                   *)
ServedProducerEnds ==
    handler = "logged" =>
        \A j \in DOMAIN delivered : base[delivered[j][1]].pc = "closed"

(* No context outlives its attempt: the timer of WithTimeout is released   *)
(* on every path through the loop (resilient.go:82-103).                   *)
ContextsReleased ==
    \A a \in Attempts :
        tctx[a] = "live" => a = attempt /\ relay \in {"select", "after"}

(* handleStream's loop never waits for a goroutine that nothing will move: *)
(* in the relay's own select the attempt has a context that ends, in the   *)
(* pipe, which watches no context, the producer runs under one that has    *)
(* ended, and a relay that returned has closed the channel                 *)
(* (resilient.go:76-77, 83, 88-92).                                        *)
HandlerIsServed ==
    handler = "loop" =>
        /\ relay = "select" => tctx[attempt] # "none" /\ base[attempt].pc # "none"
        /\ relay = "pipe" => tctx[attempt] = "done" /\ base[attempt].pc # "none"
        /\ relay = "done" => outClosed

(* handleStream returns: a hanging provider is cut by the attempt timeouts,*)
(* a cancelled one by its context, and every path closes the channels.     *)
StreamEnds == <>(handler # "loop")

(* "Pipe remaining chunks" (resilient.go:90): a stream the client waited   *)
(* for, that no provider error interrupted and that was logged with status *)
(* 200, was delivered to the end.                                          *)
PipesRemainingChunks ==
    /\ handler = "logged" /\ ctx = "returned"
    /\ delivered # <<>> /\ ~base[attempt].err
    => Len(delivered) = Chunks

(* README.md:52, "When a provider (e.g., OpenAI) exceeds latency thresholds*)
(* or returns 5xx errors, Kenbun automatically reroutes traffic", needs the*)
(* failure to be recorded: a stream the client waited for is logged with   *)
(* status 200 only if some attempt produced content and the provider       *)
(* reported no failure after it.                                           *)
FailureIsRecorded ==
    handler = "logged" /\ ctx = "returned" =>
        delivered # <<>> /\ ~base[attempt].err
=============================================================================
