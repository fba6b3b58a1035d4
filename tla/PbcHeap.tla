------------------------------ MODULE PbcHeap ------------------------------
(***************************************************************************)
(* The heap of pbc (alloc.c): a list of pages from which blocks are cut and*)
(* which is freed as a whole.  Decoded messages live in one such heap.     *)
(* Offsets count from the end of the page header; malloc does not fail.    *)
(***************************************************************************)
EXTENDS Integers, Sequences

CONSTANTS
  PageSizes,   \* the arguments of _pbcH_new
  Sizes,       \* the arguments of _pbcH_alloc
  MinPage,     \* the smallest page, 1024 in the code
  MaxAllocs    \* bound: blocks of one heap

ASSUME PageSizesAssumption == PageSizes \subseteq Nat
ASSUME SizesAssumption == Sizes \subseteq Nat
ASSUME MinPageAssumption == MinPage \in Nat \ {0}
ASSUME MaxAllocsAssumption == MaxAllocs \in Nat

NoPage == 0      \* the end of the list

VARIABLES
  pagesize, cap,           \* _pbcH_new: argument and loop variable
  pages,                   \* every page ever malloc'ed: its size and the next one
  current, size, used,     \* the fields of the heap
  p, next,                 \* _pbcH_delete: loop variables
  freed,                   \* the pages passed to _pbcM_free, in order
  blocks,                  \* history: the blocks handed out
  stage

heap == <<pages, current, size, used>>
loop == <<p, next, freed>>
vars == <<pagesize, cap, heap, loop, blocks, stage>>

Init ==
  /\ pagesize \in PageSizes /\ cap = MinPage
  /\ pages = <<>> /\ current = NoPage /\ size = 0 /\ used = 0
  /\ p = NoPage /\ next = NoPage /\ freed = <<>>
  /\ blocks = <<>>
  /\ stage = "sizing"

----------------------------------------------------------------------------
(* _pbcH_new: the page size doubles until it is large enough. *)
Grow ==
  /\ stage = "sizing"
  /\ cap < pagesize
  /\ cap' = cap * 2
  /\ UNCHANGED <<pagesize, heap, loop, blocks, stage>>

New ==
  /\ stage = "sizing"
  /\ cap >= pagesize
  /\ pages' = <<[cap |-> cap, next |-> NoPage]>>
  /\ current' = 1 /\ size' = cap /\ used' = 0
  /\ stage' = "live"
  /\ UNCHANGED <<pagesize, cap, loop, blocks>>

----------------------------------------------------------------------------
(* (size + 3) & ~3 *)
RoundUp(n) == n + 3 - ((n + 3) % 4)

(* The size of a new page; as a mutant, the same for large blocks *)
NewCapFixed(n) == size
NewCap(n) == IF n < size THEN size ELSE n

(* What is used of a new page; as mutants, nothing, and what is left of it *)
UsedOfNewNone(n) == 0
UsedOfNewRest(n) == size - n
UsedOfNew(n) == n

Block(page, off, len) == [page |-> page, off |-> off, len |-> len]

(* The block starts a new page because the current one is too full.  Its   *)
(* rest is given up.  A page for a large block may exceed h->size, which   *)
(* stays as it is, and then counts as full.                                *)
AllocNewPage(n) ==
  /\ size - used < n
  /\ pages' = Append(pages, [cap |-> NewCap(n), next |-> current])
  /\ current' = Len(pages) + 1
  /\ used' = UsedOfNew(n)
  /\ blocks' = Append(blocks, Block(Len(pages) + 1, 0, n))

AllocInPage(n) ==
  /\ size - used >= n
  /\ blocks' = Append(blocks, Block(current, used, n))
  /\ used' = used + n
  /\ UNCHANGED <<pages, current>>

Alloc(sz) ==
  /\ stage = "live"
  /\ Len(blocks) < MaxAllocs
  /\ AllocNewPage(RoundUp(sz)) \/ AllocInPage(RoundUp(sz))
  /\ UNCHANGED <<pagesize, cap, size, loop, stage>>

----------------------------------------------------------------------------
(* _pbcH_delete, one page at a time: the next page is read from the list   *)
(* before the page that holds the link is freed.  As a mutant, the link    *)
(* after the next one.                                                     *)
NextOfSkip(q) == IF pages[q].next = NoPage THEN NoPage ELSE pages[pages[q].next].next
NextOf(q) == pages[q].next

Delete ==
  /\ stage = "live"
  /\ p' = current /\ next' = NextOf(current)
  /\ stage' = "deleting"
  /\ UNCHANGED <<pagesize, cap, heap, freed, blocks>>

FreePage ==
  /\ stage = "deleting"
  /\ freed' = Append(freed, p)
  /\ IF next = NoPage
     THEN stage' = "gone" /\ UNCHANGED <<p, next>>
     ELSE p' = next /\ next' = NextOf(next) /\ UNCHANGED stage
  /\ UNCHANGED <<pagesize, cap, heap, blocks>>

----------------------------------------------------------------------------
Next == Grow \/ New \/ (\E sz \in Sizes : Alloc(sz)) \/ Delete \/ FreePage

Spec == Init /\ [][Next]_vars

----------------------------------------------------------------------------
Pages == [cap : Nat, next : Nat]
Blocks == [page : Nat, off : Nat, len : Nat]

TypeOK ==
  /\ pagesize \in Nat /\ cap \in Nat \ {0}
  /\ pages \in Seq(Pages) /\ current \in Nat /\ size \in Nat /\ used \in Nat
  /\ p \in Nat /\ next \in Nat /\ freed \in Seq(Nat)
  /\ blocks \in Seq(Blocks)
  /\ \A b \in DOMAIN blocks : blocks[b].page \in DOMAIN pages
  /\ stage \in {"sizing", "live", "deleting", "gone"}

(* Every block lies inside its page, also when it is larger than the pages *)
(* of the heap, when it fills one exactly and when it follows such a page. *)
BlocksInPage ==
  \A b \in DOMAIN blocks : blocks[b].off + blocks[b].len <= pages[blocks[b].page].cap

(* Two blocks never share a byte. *)
BlocksDisjoint ==
  \A a, b \in DOMAIN blocks :
    a < b /\ blocks[a].page = blocks[b].page
      => blocks[a].off + blocks[a].len <= blocks[b].off

(* A block begins at a multiple of four bytes. *)
Aligned(n) == n % 4 = 0
BlocksAligned == \A b \in DOMAIN blocks : Aligned(blocks[b].off)

(* While the heap is being deleted no page is freed twice and the page that*)
(* is freed next, and the one after it, are not freed yet; in the end every*)
(* page is.                                                                *)
FreedOnce ==
  /\ \A a, b \in DOMAIN freed : freed[a] = freed[b] => a = b
  /\ stage = "deleting" => \A a \in DOMAIN freed : freed[a] \notin {p, next}
  /\ stage = "gone" => \A q \in DOMAIN pages : \E a \in DOMAIN freed : freed[a] = q

(* The blocks so far end where the next one in the page begins, and what is*)
(* left of h->size is there in the page; the list goes through the pages in*)
(* the order they were made.                                               *)
BlocksBelowUsed ==
  \A b \in DOMAIN blocks :
    blocks[b].page = current => blocks[b].off + blocks[b].len <= used

PageHoldsUsed ==
  stage = "live" =>
    /\ current = Len(pages) /\ current > 0
    /\ used <= pages[current].cap /\ size <= pages[current].cap
    /\ Aligned(used)

ListInOrder == \A q \in DOMAIN pages : pages[q].next = q - 1

FreedSoFar ==
  /\ stage \in {"sizing", "live"} => freed = <<>>
  /\ stage = "sizing" => blocks = <<>> /\ pages = <<>>
  /\ stage \in {"deleting", "gone"} =>
       \A a \in DOMAIN freed : freed[a] = Len(pages) + 1 - a
  /\ stage = "deleting" => p = Len(pages) - Len(freed) /\ next = p - 1 /\ p > 0
  /\ stage = "gone" => Len(freed) = Len(pages)

PagesHaveRoom ==
  /\ stage = "live" => size > 0
  /\ \A q \in DOMAIN pages : pages[q].cap > 0

(* The inductive invariant: besides what is wanted of the blocks, where the*)
(* next one goes and what is left to free.                                 *)
HeapInv ==
  /\ TypeOK
  /\ BlocksInPage /\ BlocksDisjoint /\ BlocksAligned
  /\ BlocksBelowUsed /\ PageHoldsUsed /\ ListInOrder /\ FreedSoFar /\ PagesHaveRoom

(* To its users the heap is an Allocator: pages, their rests and the list  *)
(* that links them do not show.  Its memory is that of the pages that were *)
(* not freed.                                                              *)
Freed == {freed[a] : a \in DOMAIN freed}
Memory == UNION {{q} \X (0..(pages[q].cap - 1)) : q \in DOMAIN pages \ Freed}
Phase == CASE stage = "deleting" -> "freeing" [] stage = "gone" -> "freed" [] OTHER -> "open"

Promised == INSTANCE Allocator
  WITH Alignment <- 4, memory <- Memory, given <- blocks, phase <- Phase

ImplementsAllocator == Promised!ASpec
=============================================================================
