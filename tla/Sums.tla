-------------------------------- MODULE Sums --------------------------------
(* Sums over lists, by a recursive function. *)
EXTENDS Integers

\* The sum of the first n entries of g.
SumTo(g, n) ==
    LET upTo[k \in Nat] == IF k = 0 THEN 0 ELSE upTo[k - 1] + g[k] IN upTo[n]
=============================================================================
