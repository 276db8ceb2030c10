---------------------------- MODULE MCTokenBucket ----------------------------
(* TLC instances of TokenBucket. *)
EXTENDS TokenBucket, FiniteSetsExt, TLC

CONSTANTS t1, t2

(* The initial quota of a limit of 3 is one token and an idle tenant can   *)
(* reach the cap; createTenant validates nothing, so a limit of 0 occurs.  *)
LimitNode  == t1 :> 3 @@ t2 :> 0
LimitFleet == t1 :> 2

(* The admissions of tenant t on the whole fleet. *)
Fleet(t) == MapThenSumSet(LAMBDA n : admitted[<<n, t>>], Nodes)

(* README.md:51 promises "periodic background synchronization to a Redis   *)
(* Cluster to ensure global consistency across multiple gateway instances",*)
(* DESIGN.md:49 a leakage only "before sync occurs": once every node has   *)
(* reported its admissions of t, a node admits t only within one tenant    *)
(* limit plus the refill of one bucket.                                    *)
GlobalConsistency ==
    [][\A t \in Tenants :
          /\ Fleet(t)' > Fleet(t)
          /\ \A n \in Nodes : t \notin unsynced[n] \cup pushing[n]
          => Token * Fleet(t)' <= Cap(t) + Rate(t) * now]_vars
=============================================================================
