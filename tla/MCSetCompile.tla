---------------------------- MODULE MCSetCompile ----------------------------
(* Small instances of SetCompile for TLC. *)
EXTENDS SetCompile

CONSTANTS c1, c2, c3, c4, k1, k2, k3, bad, e1, e2

\* One heavy key: two of them, or it and another, pass the byte limit of 4.
MCKeyBytes == [k \in Keys |-> IF k = k1 THEN 3 ELSE IF k = k2 THEN 2 ELSE 1]

Symm == Permutations(Calls) \cup Permutations(Envs)
=============================================================================
