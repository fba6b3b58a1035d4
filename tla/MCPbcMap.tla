------------------------------ MODULE MCPbcMap ------------------------------
(* Keys for PbcMap whose chains run into each other. *)
EXTENDS PbcMap

CONSTANTS x         \* a pointer that is not null

(* a and b share a home in tables of up to eight slots; the home of c is   *)
(* the slot behind theirs, which the second of them takes, so that its     *)
(* chain is part of theirs.  e has hash 0, as the empty string, and is only*)
(* looked up.                                                              *)
MCHash == [k \in Keys |-> CASE k = "a" -> 9 [] k = "b" -> 17
                            [] k = "c" -> 10 [] k = "e" -> 0]

(* Two values for a, and a null pointer for b, as rmessage.c leaves it for *)
(* a field it could not decode.                                            *)
MCPairs == {<<"a", x>>, <<"a", NULL>>, <<"b", NULL>>, <<"c", x>>}
=============================================================================
