---------------------------- MODULE RetriedStream ----------------------------
(***************************************************************************)
(* What a client of POST /v1/chat/completions is promised when it asks for *)
(* a stream, without goroutines, channels, contexts or retries: the chunks *)
(* of one attempt, from its first on and without a gap, and then exactly   *)
(* one end. Some attempt is chosen with the first chunk and never left; the*)
(* end is an error only if nothing was written.                            *)
(***************************************************************************)
EXTENDS Integers, Sequences

CONSTANTS Attempts, Chunks

VARIABLES delivered,  \* what the client received, as <<attempt, number>>
          outcome     \* "loop" while it is served, then how that ended

vars == <<delivered, outcome>>

Init == delivered = <<>> /\ outcome = "loop"

First(a) ==
    /\ outcome = "loop"
    /\ delivered = <<>>
    /\ delivered' = << <<a, 1>> >>
    /\ UNCHANGED outcome

More ==
    /\ outcome = "loop"
    /\ Len(delivered) \in 1..(Chunks - 1)
    /\ delivered' = Append(delivered, <<delivered[1][1], Len(delivered) + 1>>)
    /\ UNCHANGED outcome

End(how) ==
    /\ outcome = "loop"
    /\ how = "error" => delivered = <<>>
    /\ outcome' = how
    /\ UNCHANGED delivered

Next ==
    \/ \E a \in Attempts : First(a)
    \/ More
    \/ \E how \in {"logged", "error", "gone"} : End(how)

Spec == Init /\ [][Next]_vars
=============================================================================
