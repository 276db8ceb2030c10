------------------------------ MODULE MCRouting ------------------------------
(* TLC instances of Routing. *)
EXTENDS Routing

One   == <<"openai">>
Three == <<"openai", "anthropic", "ollama">>

(* Tenants without an allowlist, restricted to the last provider, and to   *)
(* one that is not there.                                                  *)
AllowAll  == {{}}
AllowSome == {{}, {"ollama"}, {"cohere"}}

(* A new monitor, and one that has seen five errors of the first provider  *)
(* in a row.                                                               *)
NoPast   == [p \in Names |-> 0]
FivePast == [p \in Names |-> IF p = "openai" THEN 5 ELSE 0]
=============================================================================
