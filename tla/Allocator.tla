----------------------------- MODULE Allocator -----------------------------
(***************************************************************************)
(* What the heap of pbc promises its users, without pages and lists: every *)
(* block is memory of its own, as large as was asked for and aligned, and  *)
(* stays until the heap is deleted, which gives all memory back, each piece*)
(* once.                                                                   *)
(***************************************************************************)
EXTENDS Integers, Sequences

CONSTANTS
  Sizes,       \* the sizes asked for
  Alignment    \* blocks begin at multiples of this

VARIABLES
  memory,   \* the bytes that belong to the heap: <<piece, offset>>
  given,    \* the blocks handed out: [page, off, len]
  phase     \* "open", "freeing", "freed"

avars == <<memory, given, phase>>

BytesIn(b) == {b.page} \X (b.off..(b.off + b.len - 1))

AInit == memory = {} /\ given = <<>> /\ phase = "open"

(* Memory is fetched.                                                      *)
Fetch ==
  /\ phase = "open" /\ given = <<>>
  /\ memory \subseteq memory'
  /\ UNCHANGED <<given, phase>>

(* A block of its own: n bytes of the heap's memory, some of it new perhaps*)
Give(n) ==
  /\ phase = "open"
  /\ memory \subseteq memory'
  /\ Len(given') = Len(given) + 1
  /\ LET b == given'[Len(given) + 1]
     IN  /\ given' = Append(given, b)
         /\ b.len >= n /\ b.off % Alignment = 0
         /\ BytesIn(b) \subseteq memory'
         /\ \A i \in DOMAIN given : BytesIn(given[i]) \cap BytesIn(b) = {}
  /\ UNCHANGED phase

Shut == phase = "open" /\ phase' = "freeing" /\ UNCHANGED <<memory, given>>

(* Something that is still there is given back, until nothing is left.     *)
GiveBack ==
  /\ phase = "freeing"
  /\ memory' \subseteq memory /\ memory' # memory
  /\ phase' = IF memory' = {} THEN "freed" ELSE "freeing"
  /\ UNCHANGED given

ANext == Fetch \/ (\E n \in Sizes : Give(n)) \/ Shut \/ GiveBack

ASpec == AInit /\ [][ANext]_avars
=============================================================================
