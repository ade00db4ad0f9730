---------------------------- MODULE MCNativeCalls ----------------------------
(* Small instances of NativeCalls for TLC. *)
EXTENDS NativeCalls

CONSTANTS b1, b2

View(b, first, elements, width) ==
    [type |-> "view", buffer |-> b, first |-> first, elements |-> elements, width |-> width]

\* A Buffer, a Uint16Array at an offset, an empty view, a string, and no input.
MCValues ==
    {View(b1, 0, 2, 1), View(b2, 1, 1, 2), View(b2, 0, 1, 1),
     [type |-> "string", text |-> <<1, 0>>], [type |-> "other"]}

\* Detached, shrunk and full stores.
MCContents == {<<>>, <<1>>, <<0, 1, 1>>}

MCNumbers == {Undefined, Other, Infinity, Finite(1), Finite(3), Whole(2)}

MCRefused == {<<<<1>>>>, <<<<>>, <<1>>>>}
=============================================================================
