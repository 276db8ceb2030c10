--------------------------- MODULE MCTwoTierCache ----------------------------
(* A TLC instance of TwoTierCache: two instances that share Redis, with a  *)
(* request for the same key each. On the first a set may wait in ristretto's*)
(* buffer while later requests are served, so that an older set overtakes a*)
(* newer one.                                                              *)
EXTENDS TwoTierCache, TLC

CONSTANTS n1, n2, c1, c2

HomeOf == c1 :> n1 @@ c2 :> n2
BufOf  == n1 :> 1 @@ n2 :> 0
=============================================================================
