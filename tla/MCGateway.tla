------------------------------ MODULE MCGateway ------------------------------
(* TLC instances of Gateway. *)
EXTENDS Gateway, TLC

CONSTANTS t1, t2, x1, x2, x3

(* The requests may be exchanged. *)
Symmetry == Permutations(Requests)

(* One tenant whose budget a single answer uses up, one without a budget. *)
Budgets == t1 :> 1 @@ t2 :> 0

(* Two texts that print alike, and one that does not. *)
PrintSet == x1 :> 1 @@ x2 :> 1 @@ x3 :> 2

(* Exactly one cent with gpt-4o, and half a cent with a model that is not  *)
(* in the table.                                                           *)
UsageSet == {[model |-> "gpt-4o", prompt |-> 200, completion |-> 600],
             [model |-> "other", prompt |-> 1000, completion |-> 2000]}
=============================================================================
