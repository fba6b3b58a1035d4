------------------------------ MODULE PbcArray ------------------------------
(***************************************************************************)
(* The arrays of the protobuf library: two elements inside the array       *)
(* itself, then memory that grows when the number of elements reaches one  *)
(* less than a power of two.                                               *)
(***************************************************************************)
EXTENDS Integers, Sequences

INNER_FIELD == 2

(* What doubling makes of c until it is not below need *)
DoubledTo(c, need) ==
  LET doubled[x \in Nat \ {0}] == IF need <= x THEN x ELSE doubled[2 * x] IN doubled[c]

(* cells: the elements; cap: for how many the memory is.                   *)
EmptyArray == [cells |-> <<>>, cap |-> INNER_FIELD]
Size(a) == Len(a.cells)

(* ((size + 1) ^ size) > size: size + 1 is a power of two. *)
GrowsAt(n) == DoubledTo(1, n + 1) = n + 1

NewCapacity(a) ==
  LET n == Size(a) IN
  CASE n < INNER_FIELD -> INNER_FIELD
    [] n = INNER_FIELD -> DoubledTo(1, n + 2)
    [] n > INNER_FIELD -> IF GrowsAt(n) THEN 2 * (n + 1) ELSE a.cap

(* _pbcA_push *)
Push(a, v) == [cells |-> Append(a.cells, v), cap |-> NewCapacity(a)]

(* _pbcA_index *)
Index(a, i) == a.cells[i + 1]

ArrayHolds(a) == Size(a) <= a.cap
=============================================================================
