---------------------------- MODULE MCNetVarint ----------------------------
(***************************************************************************)
(* Byte streams for NetVarint: what write_raw_varint32 writes, everything  *)
(* around the fifth byte, and streams that are too long or end too early.  *)
(***************************************************************************)
EXTENDS NetVarint

(* The numbers on both sides of every change of length, and the largest. *)
Boundaries ==
  (UNION {{2^(7*i) - 1, 2^(7*i), 2^(7*i) + 1} : i \in 1..4}) \cup {0, 1, 2147483647}

Written == {WriteRawVarint[v] \o <<255, 1>> : v \in Boundaries}

(* One to ten bytes: continuation bytes from a few values, a last one. *)
Groups == {128, 129, 255}
Ends == {0, 1, 7, 8, 15, 127}
ShortOnes == {p \o <<e>> : p \in UNION {[1..n -> Groups] : n \in 0..4}, e \in Ends}
LongOnes == {[i \in 1..n |-> IF i = n THEN e ELSE g] \o <<5>>
               : n \in 5..10, e \in {0, 1, 127}, g \in Groups}
WellFormed == Written \cup ShortOnes \cup LongOnes

(* No terminator among the first ten bytes. *)
TooLong == {[i \in 1..n |-> g] : n \in 10..12, g \in Groups}

(* The stream ends inside the number. *)
Truncated == UNION {[1..n -> {128, 255}] : n \in 0..6}

Everything == WellFormed \cup TooLong \cup Truncated
=============================================================================
