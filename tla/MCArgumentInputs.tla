-------------------------- MODULE MCArgumentInputs --------------------------
(* Small instances of ArgumentInputs for TLC. *)
EXTENDS ArgumentInputs

CONSTANTS MaxHalves

MCNumbers ==
    {Undefined, Other, NaN, Infinity, [Infinity EXCEPT !.halves = -1]}
        \cup {Finite(h) : h \in -3 .. MaxHalves}
=============================================================================
