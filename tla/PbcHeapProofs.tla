--------------------------- MODULE PbcHeapProofs ---------------------------
(***************************************************************************)
(* Proofs about PbcHeap, for pages and blocks of every size: blocks never  *)
(* overlap and never leave their page, and deleting the heap frees every   *)
(* page once.                                                              *)
(***************************************************************************)
EXTENDS PbcHeap, TLAPS

(* RoundUp gives the next multiple of four. *)
LEMMA Rounded ==
  ASSUME NEW n \in Nat
  PROVE  RoundUp(n) \in Nat /\ RoundUp(n) >= n /\ Aligned(RoundUp(n))
BY DEF RoundUp, Aligned

(* Sums of multiples of four are multiples of four. *)
LEMMA FourDivides ==
  ASSUME NEW a \in Nat, NEW b \in Nat, Aligned(a), Aligned(b)
  PROVE  Aligned(a + b)
BY DEF Aligned

LEMMA LastOrBefore ==
  ASSUME NEW n \in Nat, NEW b \in 1..(n + 1)
  PROVE  b \in 1..n \/ b = n + 1
OBVIOUS

(* What appending does to a sequence. *)
LEMMA Appended ==
  ASSUME NEW T, NEW s \in Seq(T), NEW e \in T
  PROVE  /\ Append(s, e) \in Seq(T)
         /\ Len(s) \in Nat /\ Len(Append(s, e)) = Len(s) + 1
         /\ DOMAIN s = 1..Len(s) /\ DOMAIN Append(s, e) = 1..(Len(s) + 1)
         /\ \A j \in 1..Len(s) : Append(s, e)[j] = s[j]
         /\ Append(s, e)[Len(s) + 1] = e
OBVIOUS

----------------------------------------------------------------------------
LEMMA HeapInit == Init => HeapInv
<1> SUFFICES ASSUME Init PROVE HeapInv
  OBVIOUS
<1>1. pages = <<>> /\ blocks = <<>> /\ freed = <<>> /\ stage = "sizing"
  BY DEF Init
<1>2. TypeOK
  BY <1>1, PageSizesAssumption, MinPageAssumption DEF Init, TypeOK, NoPage
<1> QED
  BY <1>1, <1>2 DEF HeapInv, BlocksInPage, BlocksDisjoint, BlocksAligned, BlocksBelowUsed,
                    PageHoldsUsed, ListInOrder, FreedSoFar, PagesHaveRoom

(* A block at the start of a new page. *)
LEMMA NewPageInv ==
  ASSUME HeapInv, NEW n \in Nat, Aligned(n), AllocNewPage(n), stage = "live",
         UNCHANGED <<pagesize, cap, size, loop, stage>>
  PROVE  HeapInv'
<1>1. /\ TypeOK /\ BlocksInPage /\ BlocksDisjoint /\ BlocksAligned
      /\ BlocksBelowUsed /\ PageHoldsUsed /\ ListInOrder /\ FreedSoFar /\ PagesHaveRoom
  BY DEF HeapInv
<1>2. /\ pages \in Seq(Pages) /\ blocks \in Seq(Blocks) /\ size \in Nat /\ used \in Nat
      /\ Len(pages) \in Nat /\ Len(blocks) \in Nat
      /\ \A b \in 1..Len(blocks) : blocks[b] \in Blocks /\ blocks[b].page \in 1..Len(pages)
      /\ current = Len(pages) /\ current > 0
  BY <1>1 DEF TypeOK, PageHoldsUsed
<1>3. NewCap(n) \in Nat /\ NewCap(n) >= n /\ NewCap(n) >= size
  BY <1>2 DEF NewCap
<1> DEFINE pg == [cap |-> NewCap(n), next |-> current]
           bl == Block(Len(pages) + 1, 0, n)
<1>4. pg \in Pages /\ pg.cap = NewCap(n) /\ pg.next = current
  BY <1>2, <1>3 DEF Pages
<1>5. bl \in Blocks /\ bl.page = Len(pages) + 1 /\ bl.off = 0 /\ bl.len = n
  BY <1>2 DEF Block, Blocks
<1>6. /\ pages' = Append(pages, pg) /\ blocks' = Append(blocks, bl)
      /\ current' = Len(pages) + 1 /\ used' = n
  BY DEF AllocNewPage, UsedOfNew
<1> HIDE DEF pg, bl
<1>7. /\ pages' \in Seq(Pages) /\ Len(pages') = Len(pages) + 1
      /\ DOMAIN pages' = 1..(Len(pages) + 1) /\ DOMAIN pages = 1..Len(pages)
      /\ \A q \in 1..Len(pages) : pages'[q] = pages[q]
      /\ pages'[Len(pages) + 1] = pg
  BY <1>2, <1>4, <1>6, Appended
<1>8. /\ blocks' \in Seq(Blocks)
      /\ DOMAIN blocks' = 1..(Len(blocks) + 1) /\ DOMAIN blocks = 1..Len(blocks)
      /\ \A b \in 1..Len(blocks) : blocks'[b] = blocks[b]
      /\ blocks'[Len(blocks) + 1] = bl
  BY <1>2, <1>5, <1>6, Appended
<1>9. /\ UNCHANGED <<pagesize, cap, size, stage, p, next, freed>>
  BY DEF loop
<1>10. TypeOK'
  <2>1. \A b \in DOMAIN blocks' : blocks'[b].page \in DOMAIN pages'
    BY <1>2, <1>5, <1>7, <1>8
  <2> QED BY <1>1, <1>2, <1>6, <1>7, <1>8, <1>9, <2>1 DEF TypeOK
<1>11. BlocksInPage'
  <2> SUFFICES ASSUME NEW b \in 1..(Len(blocks) + 1)
               PROVE  blocks'[b].off + blocks'[b].len <= pages'[blocks'[b].page].cap
    BY <1>8 DEF BlocksInPage
  <2>1. CASE b \in 1..Len(blocks)
    BY <1>1, <1>2, <1>7, <1>8, <2>1 DEF BlocksInPage
  <2>2. CASE b = Len(blocks) + 1
    BY <1>3, <1>4, <1>5, <1>7, <1>8, <2>2
  <2> QED BY <1>2, <2>1, <2>2
<1>12. BlocksDisjoint'
  <2> SUFFICES ASSUME NEW a \in 1..(Len(blocks) + 1), NEW b \in 1..(Len(blocks) + 1), a < b,
                      blocks'[a].page = blocks'[b].page
               PROVE  blocks'[a].off + blocks'[a].len <= blocks'[b].off
    BY <1>8 DEF BlocksDisjoint
  <2>1. a \in 1..Len(blocks) /\ blocks'[a] = blocks[a] /\ blocks[a].page <= Len(pages)
    BY <1>2, <1>8
  <2>2. b \in 1..Len(blocks) /\ blocks'[b] = blocks[b]
    <3>1. b # Len(blocks) + 1
      BY <1>2, <1>5, <1>8, <2>1
    <3>2. b \in 1..Len(blocks)
      BY <1>2, <3>1, LastOrBefore
    <3> QED BY <1>8, <3>2
  <2> QED BY <1>1, <1>8, <2>1, <2>2 DEF BlocksDisjoint
<1>13. BlocksAligned' /\ BlocksBelowUsed'
  <2>1. Aligned(0) /\ 0 + n <= n
    BY DEF Aligned
  <2>2. \A b \in 1..(Len(blocks) + 1) : b \in 1..Len(blocks) \/ b = Len(blocks) + 1
    BY <1>2
  <2>3. BlocksAligned'
    BY <1>1, <1>5, <1>8, <2>1, <2>2 DEF BlocksAligned
  <2>4. \A b \in 1..Len(blocks) : blocks'[b].page # Len(pages) + 1
    BY <1>2, <1>8
  <2>5. BlocksBelowUsed'
    BY <1>5, <1>6, <1>8, <2>1, <2>2, <2>4 DEF BlocksBelowUsed
  <2> QED BY <2>3, <2>5
<1>14. PageHoldsUsed' /\ ListInOrder'
  BY <1>1, <1>2, <1>3, <1>4, <1>6, <1>7, <1>9 DEF PageHoldsUsed, ListInOrder
<1>15. FreedSoFar'
  BY <1>1, <1>9 DEF FreedSoFar
<1>16. PagesHaveRoom'
  <2>1. size > 0 /\ \A q \in 1..Len(pages) : pages[q].cap > 0
    BY <1>1, <1>7 DEF PagesHaveRoom
  <2>2. NewCap(n) > 0
    BY <1>2, <1>3, <2>1
  <2>3. \A q \in 1..(Len(pages) + 1) : q \in 1..Len(pages) \/ q = Len(pages) + 1
    BY <1>2, LastOrBefore
  <2> QED BY <1>4, <1>7, <1>9, <2>1, <2>2, <2>3 DEF PagesHaveRoom
<1> QED BY <1>10, <1>11, <1>12, <1>13, <1>14, <1>15, <1>16 DEF HeapInv

(* A block behind the last one of the page. *)
LEMMA InPageInv ==
  ASSUME HeapInv, NEW n \in Nat, Aligned(n), AllocInPage(n), stage = "live",
         UNCHANGED <<pagesize, cap, size, loop, stage>>
  PROVE  HeapInv'
<1>1. /\ TypeOK /\ BlocksInPage /\ BlocksDisjoint /\ BlocksAligned
      /\ BlocksBelowUsed /\ PageHoldsUsed /\ ListInOrder /\ FreedSoFar /\ PagesHaveRoom
  BY DEF HeapInv
<1>2. /\ pages \in Seq(Pages) /\ blocks \in Seq(Blocks) /\ size \in Nat /\ used \in Nat
      /\ Len(pages) \in Nat /\ Len(blocks) \in Nat /\ DOMAIN pages = 1..Len(pages)
      /\ \A b \in 1..Len(blocks) : blocks[b] \in Blocks /\ blocks[b].page \in 1..Len(pages)
      /\ current \in 1..Len(pages) /\ pages[current].cap \in Nat
  <2>1. current = Len(pages) /\ current > 0 /\ pages \in Seq(Pages)
    BY <1>1 DEF TypeOK, PageHoldsUsed
  <2>2. Len(pages) \in Nat /\ current \in 1..Len(pages) /\ DOMAIN pages = 1..Len(pages)
    BY <2>1
  <2>3. pages[current].cap \in Nat
    <3>1. pages[current] \in Pages
      BY <2>1, <2>2
    <3> QED BY <3>1 DEF Pages
  <2>4. /\ blocks \in Seq(Blocks) /\ size \in Nat /\ used \in Nat /\ Len(blocks) \in Nat
        /\ \A b \in 1..Len(blocks) : blocks[b] \in Blocks /\ blocks[b].page \in DOMAIN pages
    BY <1>1 DEF TypeOK
  <2> QED BY <2>1, <2>2, <2>3, <2>4
<1>3. used + n <= size
  BY <1>2 DEF AllocInPage
<1> DEFINE bl == Block(current, used, n)
<1>4. bl \in Blocks /\ bl.page = current /\ bl.off = used /\ bl.len = n
  BY <1>2 DEF Block, Blocks
<1>5. /\ blocks' = Append(blocks, bl) /\ used' = used + n
      /\ UNCHANGED <<pages, current, pagesize, cap, size, stage, p, next, freed>>
  BY DEF AllocInPage, loop
<1> HIDE DEF bl
<1>6. /\ blocks' \in Seq(Blocks)
      /\ DOMAIN blocks' = 1..(Len(blocks) + 1) /\ DOMAIN blocks = 1..Len(blocks)
      /\ \A b \in 1..Len(blocks) : blocks'[b] = blocks[b]
      /\ blocks'[Len(blocks) + 1] = bl
  BY <1>2, <1>4, <1>5, Appended
<1>7. TypeOK'
  <2>1. \A b \in DOMAIN blocks' : blocks'[b].page \in DOMAIN pages'
    BY <1>2, <1>4, <1>5, <1>6
  <2> QED BY <1>1, <1>2, <1>5, <1>6, <2>1 DEF TypeOK
<1>8. BlocksInPage'
  <2> SUFFICES ASSUME NEW b \in 1..(Len(blocks) + 1)
               PROVE  blocks'[b].off + blocks'[b].len <= pages[blocks'[b].page].cap
    BY <1>5, <1>6 DEF BlocksInPage
  <2>1. CASE b \in 1..Len(blocks)
    BY <1>1, <1>6, <2>1 DEF BlocksInPage
  <2>2. CASE b = Len(blocks) + 1
    <3>1. size <= pages[current].cap
      BY <1>1 DEF PageHoldsUsed
    <3> QED BY <1>2, <1>3, <1>4, <1>6, <2>2, <3>1
  <2> QED BY <1>2, <2>1, <2>2
<1>9. BlocksDisjoint'
  <2> SUFFICES ASSUME NEW a \in 1..(Len(blocks) + 1), NEW b \in 1..(Len(blocks) + 1), a < b,
                      blocks'[a].page = blocks'[b].page
               PROVE  blocks'[a].off + blocks'[a].len <= blocks'[b].off
    BY <1>6 DEF BlocksDisjoint
  <2>1. a \in 1..Len(blocks) /\ blocks'[a] = blocks[a]
    BY <1>2, <1>6
  <2>2. CASE b \in 1..Len(blocks)
    BY <1>1, <1>6, <2>1, <2>2 DEF BlocksDisjoint
  <2>3. CASE b = Len(blocks) + 1
    BY <1>1, <1>2, <1>4, <1>6, <2>1, <2>3 DEF BlocksBelowUsed
  <2>4. b \in 1..Len(blocks) \/ b = Len(blocks) + 1
    <3>1. Len(blocks) \in Nat
      BY <1>2
    <3> QED BY <3>1, LastOrBefore
  <2> QED BY <2>2, <2>3, <2>4
<1>10. BlocksAligned'
  <2> SUFFICES ASSUME NEW b \in 1..(Len(blocks) + 1) PROVE Aligned(blocks'[b].off)
    BY <1>6 DEF BlocksAligned
  <2>1. CASE b \in 1..Len(blocks)
    BY <1>1, <1>6, <2>1 DEF BlocksAligned
  <2>2. CASE b = Len(blocks) + 1
    BY <1>1, <1>4, <1>6, <2>2 DEF PageHoldsUsed
  <2> QED BY <1>2, <2>1, <2>2, LastOrBefore
<1>11. BlocksBelowUsed'
  <2> SUFFICES ASSUME NEW b \in 1..(Len(blocks) + 1), blocks'[b].page = current
               PROVE  blocks'[b].off + blocks'[b].len <= used + n
    BY <1>5, <1>6 DEF BlocksBelowUsed
  <2>1. CASE b \in 1..Len(blocks)
    <3>1. blocks[b].off + blocks[b].len <= used
      BY <1>1, <1>6, <2>1 DEF BlocksBelowUsed
    <3>2. blocks[b].off \in Nat /\ blocks[b].len \in Nat /\ blocks'[b] = blocks[b]
      BY <1>2, <1>6, <2>1 DEF Blocks
    <3> QED BY <1>2, <3>1, <3>2
  <2>2. CASE b = Len(blocks) + 1
    BY <1>2, <1>4, <1>6, <2>2
  <2> QED BY <1>2, <2>1, <2>2
<1>12. PageHoldsUsed'
  <2>1. Aligned(used) /\ size <= pages[current].cap /\ current = Len(pages) /\ current > 0
    BY <1>1 DEF PageHoldsUsed
  <2>2. Aligned(used + n)
    BY <1>2, <2>1, FourDivides
  <2>3. used + n <= pages[current].cap
    BY <1>2, <1>3, <2>1
  <2> QED BY <1>5, <2>1, <2>2, <2>3 DEF PageHoldsUsed
<1>13. ListInOrder' /\ FreedSoFar' /\ PagesHaveRoom'
  BY <1>1, <1>5 DEF ListInOrder, FreedSoFar, PagesHaveRoom
<1> QED BY <1>7, <1>8, <1>9, <1>10, <1>11, <1>12, <1>13 DEF HeapInv

(* Freeing one page and going on to the next. *)
LEMMA FreePageInv ==
  ASSUME HeapInv, FreePage
  PROVE  HeapInv'
<1>1. /\ TypeOK /\ BlocksInPage /\ BlocksDisjoint /\ BlocksAligned
      /\ BlocksBelowUsed /\ ListInOrder /\ FreedSoFar /\ PagesHaveRoom
  BY DEF HeapInv
<1>2. /\ stage = "deleting" /\ freed' = Append(freed, p)
      /\ UNCHANGED <<pagesize, cap, pages, current, size, used, blocks>>
  BY DEF FreePage, heap
<1>3. /\ Len(pages) \in Nat /\ DOMAIN pages = 1..Len(pages) /\ freed \in Seq(Nat)
      /\ p \in Nat /\ next \in Nat /\ Len(freed) \in Nat
      /\ p = Len(pages) - Len(freed) /\ next = p - 1 /\ p > 0
      /\ \A a \in 1..Len(freed) : freed[a] = Len(pages) + 1 - a
  BY <1>1, <1>2 DEF TypeOK, FreedSoFar
<1> DEFINE m == Len(pages)
           l == Len(freed)
<1>lens. m \in Nat /\ l \in Nat /\ p \in Nat /\ next \in Nat /\ p = m - l /\ next = p - 1
  BY <1>3
<1>4. /\ freed' \in Seq(Nat) /\ Len(freed') = Len(freed) + 1
      /\ DOMAIN freed' = 1..(Len(freed) + 1)
      /\ \A a \in 1..Len(freed) : freed'[a] = freed[a]
      /\ freed'[Len(freed) + 1] = p
  BY <1>2, <1>3, Appended
<1>5. \A a \in DOMAIN freed' : freed'[a] = Len(pages) + 1 - a
  <2> SUFFICES ASSUME NEW a \in 1..(Len(freed) + 1) PROVE freed'[a] = Len(pages) + 1 - a
    BY <1>4
  <2>1. CASE a \in 1..Len(freed)
    BY <1>3, <1>4, <2>1
  <2>2. CASE a = Len(freed) + 1
    BY <1>3, <1>4, <2>2
  <2> QED BY <1>3, <2>1, <2>2
<1>6. TypeOK' /\ FreedSoFar' /\ stage' # "live"
  <2>1. CASE next = NoPage
    <3>1. stage' = "gone" /\ UNCHANGED <<p, next>>
      BY <2>1 DEF FreePage
    <3>2. Len(freed') = Len(pages')
      <4>1. l + 1 = m
        <5> HIDE DEF m, l
        <5> QED BY <1>lens, <2>1 DEF NoPage
      <4> QED BY <1>2, <1>4, <4>1
    <3> QED BY <1>1, <1>2, <1>4, <1>5, <3>1, <3>2 DEF TypeOK, FreedSoFar
  <2>2. CASE next # NoPage
    <3>1. p' = next /\ next' = pages[next].next /\ stage' = "deleting"
      BY <1>2, <2>2 DEF FreePage, NextOf
    <3>2. next \in 1..Len(pages) /\ next - 1 \in Nat
      <4>1. next \in 1..m /\ next - 1 \in Nat
        <5> HIDE DEF m, l
        <5> QED BY <1>lens, <2>2 DEF NoPage
      <4> QED BY <4>1
    <3>3. next' = next - 1
      BY <1>1, <1>3, <3>1, <3>2 DEF ListInOrder
    <3>4. p' = Len(pages) - Len(freed') /\ p' > 0
      BY <1>3, <1>4, <3>1, <3>2
    <3> QED BY <1>1, <1>2, <1>4, <1>5, <3>1, <3>2, <3>3, <3>4 DEF TypeOK, FreedSoFar
  <2> QED BY <2>1, <2>2
<1>7. BlocksInPage' /\ BlocksDisjoint' /\ BlocksAligned' /\ BlocksBelowUsed' /\ ListInOrder'
  BY <1>1, <1>2
  DEF BlocksInPage, BlocksDisjoint, BlocksAligned, BlocksBelowUsed, ListInOrder
<1>8. PageHoldsUsed' /\ PagesHaveRoom'
  BY <1>1, <1>2, <1>6 DEF PageHoldsUsed, PagesHaveRoom
<1> QED BY <1>6, <1>7, <1>8 DEF HeapInv

LEMMA HeapStep == HeapInv /\ [Next]_vars => HeapInv'
<1> SUFFICES ASSUME HeapInv, [Next]_vars PROVE HeapInv'
  OBVIOUS
<1>1. /\ TypeOK /\ BlocksInPage /\ BlocksDisjoint /\ BlocksAligned
      /\ BlocksBelowUsed /\ PageHoldsUsed /\ ListInOrder /\ FreedSoFar /\ PagesHaveRoom
  BY DEF HeapInv
<1>2. CASE Grow
  <2>1. cap' \in Nat \ {0}
    BY <1>1, <1>2 DEF Grow, TypeOK
  <2> QED BY <1>1, <1>2, <2>1
    DEF Grow, heap, loop, HeapInv, TypeOK, BlocksInPage, BlocksDisjoint, BlocksAligned,
        BlocksBelowUsed, PageHoldsUsed, ListInOrder, FreedSoFar, PagesHaveRoom
<1>3. CASE New
  <2> DEFINE pg == [cap |-> cap, next |-> NoPage]
  <2>1. pg \in Pages /\ pg.cap = cap /\ pg.next = 0 /\ cap \in Nat
    BY <1>1 DEF TypeOK, Pages, NoPage
  <2>2. /\ stage = "sizing" /\ blocks = <<>> /\ freed = <<>>
    BY <1>1, <1>3 DEF New, FreedSoFar
  <2>3. /\ pages' = <<pg>> /\ current' = 1 /\ size' = cap /\ used' = 0 /\ stage' = "live"
        /\ UNCHANGED <<pagesize, cap, p, next, freed, blocks>>
    BY <1>3 DEF New, loop
  <2> HIDE DEF pg
  <2>4. pages' \in Seq(Pages) /\ Len(pages') = 1 /\ DOMAIN pages' = {1} /\ pages'[1] = pg
    BY <2>1, <2>3
  <2>5. TypeOK'
    BY <1>1, <2>1, <2>2, <2>3, <2>4 DEF TypeOK
  <2>6. PageHoldsUsed' /\ ListInOrder' /\ FreedSoFar'
    <3>1. Aligned(0)
      BY DEF Aligned
    <3> QED BY <3>1, <2>1, <2>2, <2>3, <2>4 DEF PageHoldsUsed, ListInOrder, FreedSoFar, PagesHaveRoom
  <2>7. PagesHaveRoom'
    BY <1>1, <2>1, <2>3, <2>4 DEF PagesHaveRoom, TypeOK
  <2> QED BY <2>2, <2>3, <2>5, <2>6, <2>7
          DEF HeapInv, BlocksInPage, BlocksDisjoint, BlocksAligned, BlocksBelowUsed
<1>4. ASSUME NEW sz \in Sizes, Alloc(sz) PROVE HeapInv'
  <2>1. RoundUp(sz) \in Nat /\ Aligned(RoundUp(sz))
    BY SizesAssumption, Rounded
  <2>2. stage = "live" /\ UNCHANGED <<pagesize, cap, size, loop, stage>>
    BY <1>4 DEF Alloc
  <2>3. CASE AllocNewPage(RoundUp(sz))
    BY <2>1, <2>2, <2>3, NewPageInv
  <2>4. CASE AllocInPage(RoundUp(sz))
    BY <2>1, <2>2, <2>4, InPageInv
  <2> QED BY <1>4, <2>3, <2>4 DEF Alloc
<1>5. CASE Delete
  <2>1. /\ p' = current /\ next' = pages[current].next /\ stage' = "deleting"
        /\ UNCHANGED <<pagesize, cap, pages, current, size, used, freed, blocks>>
        /\ stage = "live" /\ freed = <<>>
    BY <1>1, <1>5 DEF Delete, NextOf, heap, FreedSoFar
  <2>2. current = Len(pages) /\ current \in 1..Len(pages) /\ DOMAIN pages = 1..Len(pages)
    BY <1>1, <2>1 DEF PageHoldsUsed, TypeOK
  <2>3. next' = current - 1 /\ current - 1 \in Nat
    BY <1>1, <2>1, <2>2 DEF ListInOrder
  <2>4. TypeOK'
    BY <1>1, <2>1, <2>3 DEF TypeOK
  <2>5. FreedSoFar'
    BY <1>1, <2>1, <2>2, <2>3 DEF FreedSoFar
  <2> QED BY <1>1, <2>1, <2>4, <2>5
    DEF HeapInv, BlocksInPage, BlocksDisjoint, BlocksAligned, BlocksBelowUsed,
        PageHoldsUsed, ListInOrder, PagesHaveRoom
<1>6. CASE FreePage
  BY <1>6, FreePageInv
<1>7. CASE UNCHANGED vars
  BY <1>1, <1>7
  DEF vars, heap, loop, HeapInv, TypeOK, BlocksInPage, BlocksDisjoint, BlocksAligned,
      BlocksBelowUsed, PageHoldsUsed, ListInOrder, FreedSoFar, PagesHaveRoom
<1> QED BY <1>2, <1>3, <1>4, <1>5, <1>6, <1>7 DEF Next

THEOREM HeapInvariant == Spec => []HeapInv
BY HeapInit, HeapStep, PTL DEF Spec

THEOREM HeapTypeOK == Spec => []TypeOK
<1>1. HeapInv => TypeOK
  BY DEF HeapInv
<1> QED BY <1>1, HeapInvariant, PTL

(* Blocks of any sizes, from pages of any size, never share a byte.        *)
THEOREM NoOverlap == Spec => []BlocksDisjoint
<1>1. HeapInv => BlocksDisjoint
  BY DEF HeapInv
<1> QED BY <1>1, HeapInvariant, PTL

(* No block leaves its page.                                               *)
THEOREM NoOverrun == Spec => []BlocksInPage
<1>1. HeapInv => BlocksInPage
  BY DEF HeapInv
<1> QED BY <1>1, HeapInvariant, PTL

(* However many pages a heap has, deleting it frees each one exactly once  *)
(* and does not look at one it has freed.                                  *)
THEOREM PagesFreedOnce == Spec => []FreedOnce
<1>1. HeapInv => FreedOnce
  <2> SUFFICES ASSUME HeapInv PROVE FreedOnce
    OBVIOUS
  <2>1. /\ Len(pages) \in Nat /\ DOMAIN pages = 1..Len(pages)
        /\ Len(freed) \in Nat /\ DOMAIN freed = 1..Len(freed) /\ FreedSoFar
        /\ stage \in {"sizing", "live", "deleting", "gone"} /\ p \in Nat
    BY DEF HeapInv, TypeOK
  <2>2. stage \in {"sizing", "live"} \/ \A a \in 1..Len(freed) : freed[a] = Len(pages) + 1 - a
    BY <2>1 DEF FreedSoFar
  <2>3. \A a, b \in DOMAIN freed : freed[a] = freed[b] => a = b
    <3>1. CASE stage \in {"sizing", "live"}
      <4>1. freed = <<>>
        BY <2>1, <3>1 DEF FreedSoFar
      <4> QED BY <4>1
    <3>2. CASE \A a \in 1..Len(freed) : freed[a] = Len(pages) + 1 - a
      <4> SUFFICES ASSUME NEW a \in 1..Len(freed), NEW b \in 1..Len(freed), freed[a] = freed[b]
                   PROVE  a = b
        BY <2>1
      <4>1. Len(pages) + 1 - a = Len(pages) + 1 - b
        BY <3>2
      <4> QED BY <2>1, <4>1
    <3> QED BY <2>2, <3>1, <3>2
  <2>4. stage = "deleting" => \A a \in DOMAIN freed : freed[a] \notin {p, next}
    BY <2>1, <2>2 DEF FreedSoFar
  <2>5. ASSUME stage = "gone", NEW q \in 1..Len(pages)
        PROVE  \E a \in DOMAIN freed : freed[a] = q
    <3>1. Len(freed) = Len(pages) /\ Len(pages) + 1 - q \in 1..Len(freed)
      BY <2>1, <2>5 DEF FreedSoFar
    <3>2. freed[Len(pages) + 1 - q] = q
      BY <2>1, <2>2, <2>5, <3>1
    <3> QED BY <2>1, <3>1, <3>2
  <2> QED BY <2>1, <2>3, <2>4, <2>5 DEF FreedOnce
<1> QED BY <1>1, HeapInvariant, PTL

----------------------------------------------------------------------------
(* The allocator its users see *)

(* Before the heap is deleted no page is freed. *)
LEMMA NoneFreed ==
  ASSUME HeapInv, stage \in {"sizing", "live"}
  PROVE  freed = <<>> /\ Freed = {} /\ Phase = "open"
<1>1. freed = <<>>
  BY DEF HeapInv, FreedSoFar
<1> QED BY <1>1 DEF Freed, Phase

LEMMA HeapInitRefines == Init => Promised!AInit
BY DEF Init, Promised!AInit, Memory, Freed, Phase

(* Looking for the page size does nothing. *)
LEMMA GrowStutters == ASSUME Grow PROVE UNCHANGED Promised!avars
BY DEF Grow, heap, loop, Promised!avars, Memory, Freed, Phase

(* The first page brings memory. *)
LEMMA NewFetches ==
  ASSUME HeapInv, New
  PROVE  Promised!Fetch
<1>1. stage = "sizing" /\ stage' = "live" /\ UNCHANGED <<freed, blocks>>
  BY DEF New, loop
<1>2. freed = <<>> /\ blocks = <<>> /\ pages = <<>>
  BY <1>1 DEF HeapInv, FreedSoFar
<1>3. Memory = {}
  BY <1>2 DEF Memory
<1>4. Phase = "open" /\ Phase' = "open"
  BY <1>1 DEF Phase
<1> QED BY <1>1, <1>2, <1>3, <1>4 DEF Promised!Fetch

(* Every block is memory of its own. *)
LEMMA AllocGives ==
  ASSUME HeapInv, HeapInv', NEW sz \in Sizes, Alloc(sz)
  PROVE  Promised!Give(sz)
<1> DEFINE n == RoundUp(sz)
           B(b) == Promised!BytesIn(b)
<1>1. n \in Nat /\ n >= sz
  BY SizesAssumption, Rounded
<1>2. /\ stage = "live" /\ UNCHANGED <<size, stage, freed>>
      /\ AllocNewPage(n) \/ AllocInPage(n)
  BY DEF Alloc, loop
<1>3. /\ pages \in Seq(Pages) /\ blocks \in Seq(Blocks) /\ Len(pages) \in Nat /\ Len(blocks) \in Nat
      /\ DOMAIN pages = 1..Len(pages) /\ DOMAIN blocks = 1..Len(blocks)
      /\ size \in Nat /\ used \in Nat /\ current \in Nat
  BY DEF HeapInv, TypeOK
<1>4. PICK bl \in Blocks : blocks' = Append(blocks, bl) /\ bl.len = n
  <2>1. CASE AllocNewPage(n)
    <3> DEFINE bl == Block(Len(pages) + 1, 0, n)
    <3>1. bl \in Blocks /\ bl.len = n /\ blocks' = Append(blocks, bl)
      BY <1>1, <1>3, <2>1 DEF AllocNewPage, Block, Blocks
    <3> QED BY <3>1
  <2>2. CASE AllocInPage(n)
    <3> DEFINE bl == Block(current, used, n)
    <3>1. bl \in Blocks /\ bl.len = n /\ blocks' = Append(blocks, bl)
      BY <1>1, <1>3, <2>2 DEF AllocInPage, Block, Blocks
    <3> QED BY <3>1
  <2> QED BY <1>2, <2>1, <2>2
<1> DEFINE k == Len(blocks) + 1
<1>5. /\ Len(blocks') = k /\ blocks'[k] = bl /\ DOMAIN blocks' = 1..k
      /\ \A i \in 1..Len(blocks) : blocks'[i] = blocks[i] /\ blocks[i] \in Blocks
      /\ k \in Nat /\ k \in 1..k
  BY <1>3, <1>4, Appended
<1>6. \A q \in DOMAIN pages : q \in DOMAIN pages' /\ pages'[q] = pages[q]
  <2>1. CASE AllocNewPage(n)
    <3> DEFINE pg == [cap |-> NewCap(n), next |-> current]
    <3>1. pg \in Pages /\ pages' = Append(pages, pg)
      BY <1>1, <1>3, <2>1 DEF AllocNewPage, NewCap, Pages
    <3> HIDE DEF pg
    <3>2. /\ DOMAIN pages' = 1..(Len(pages) + 1)
          /\ \A q \in 1..Len(pages) : pages'[q] = pages[q]
      BY <1>3, <3>1, Appended
    <3> QED BY <1>3, <3>2
  <2>2. CASE AllocInPage(n)
    BY <2>2 DEF AllocInPage
  <2> QED BY <1>2, <2>1, <2>2
<1>7. Freed = {} /\ Freed' = {} /\ Phase = "open" /\ Phase' = "open"
  <2>1. freed = <<>> /\ Freed = {} /\ Phase = "open"
    BY <1>2, NoneFreed
  <2> QED BY <1>2, <2>1 DEF Freed, Phase
<1>8. Memory \subseteq Memory'
  BY <1>6, <1>7 DEF Memory
<1>9. bl.page \in DOMAIN pages' /\ bl.off + bl.len <= pages'[bl.page].cap /\ Aligned(bl.off)
  <2>1. TypeOK' /\ BlocksInPage' /\ BlocksAligned'
    BY DEF HeapInv
  <2>2. bl.page \in DOMAIN pages'
    BY <1>5, <2>1 DEF TypeOK
  <2>3. bl.off + bl.len <= pages'[bl.page].cap
    BY <1>5, <2>1 DEF BlocksInPage
  <2>4. Aligned(bl.off)
    BY <1>5, <2>1 DEF BlocksAligned
  <2> QED BY <2>2, <2>3, <2>4
<1>10. B(bl) \subseteq Memory'
  <2> SUFFICES ASSUME NEW x \in B(bl) PROVE x \in Memory'
    OBVIOUS
  <2>1. x \in {bl.page} \X (bl.off..(bl.off + bl.len - 1))
    BY DEF Promised!BytesIn
  <2>2. bl.off \in Nat /\ bl.len \in Nat /\ pages'[bl.page].cap \in Nat
    <3>1. pages' \in Seq(Pages)
      BY DEF HeapInv, TypeOK
    <3>2. pages'[bl.page] \in Pages
      BY <1>9, <3>1
    <3> QED BY <3>2 DEF Blocks, Pages
  <2>3. \A y \in bl.off..(bl.off + bl.len - 1) : y \in 0..(pages'[bl.page].cap - 1)
    BY <1>9, <2>2
  <2>4. x \in {bl.page} \X (0..(pages'[bl.page].cap - 1))
    BY <2>1, <2>3
  <2> QED BY <1>7, <1>9, <2>4 DEF Memory
<1>11. ASSUME NEW i \in DOMAIN blocks PROVE B(blocks[i]) \cap B(bl) = {}
  <2>1. BlocksDisjoint'
    BY DEF HeapInv
  <2>2. i \in 1..Len(blocks) /\ i < k /\ i \in DOMAIN blocks' /\ k \in DOMAIN blocks'
    BY <1>3, <1>5
  <2>3. blocks[i].page = bl.page => blocks[i].off + blocks[i].len <= bl.off
    BY <1>5, <2>1, <2>2 DEF BlocksDisjoint
  <2>4. blocks[i] \in Blocks
    BY <1>5, <2>2
  <2>5. blocks[i].off \in Nat /\ blocks[i].len \in Nat /\ bl.off \in Nat /\ bl.len \in Nat
    BY <2>4 DEF Blocks
  <2> QED BY <2>3, <2>5 DEF Promised!BytesIn
<1>12. bl.off % 4 = 0
  BY <1>9 DEF Aligned
<1> HIDE DEF n, B, k
<1>13. bl.len >= sz
  BY <1>1, <1>4
<1> USE DEF k, B
<1>14. UNCHANGED Phase
  BY <1>7
<1> QED BY <1>4, <1>5, <1>7, <1>8, <1>10, <1>11, <1>12, <1>13, <1>14 DEF Promised!Give

(* Deleting begins. *)
LEMMA DeleteShuts ==
  ASSUME Delete
  PROVE  Promised!Shut
BY DEF Delete, heap, Promised!Shut, Memory, Freed, Phase

(* The page that is freed next is still there, and the last one to be freed*)
(* is the last one there is.                                               *)
LEMMA StillThere ==
  ASSUME HeapInv, stage = "deleting"
  PROVE  /\ p \in DOMAIN pages \ Freed
         /\ next = NoPage <=> (DOMAIN pages \ Freed) \ {p} = {}
<1>1. /\ Len(pages) \in Nat /\ DOMAIN pages = 1..Len(pages)
      /\ Len(freed) \in Nat /\ DOMAIN freed = 1..Len(freed)
      /\ p = Len(pages) - Len(freed) /\ next = p - 1 /\ p > 0 /\ p \in Nat
      /\ \A a \in 1..Len(freed) : freed[a] = Len(pages) + 1 - a
  BY DEF HeapInv, TypeOK, FreedSoFar
<1> DEFINE m == Len(pages)
           l == Len(freed)
<1>n. m \in Nat /\ l \in Nat /\ p \in Nat /\ p > 0 /\ p = m - l /\ next = p - 1
  BY <1>1
<1>p. p - 1 \in Nat /\ p <= m
  <2> HIDE DEF m, l
  <2> QED BY <1>n
<1>2. ASSUME NEW q \in 1..Len(pages) PROVE q \in Freed <=> q > p
  <2>1. ASSUME q \in Freed PROVE q > p
    <3>1. PICK a \in DOMAIN freed : q = freed[a]
      BY <2>1 DEF Freed
    <3>2. a \in 1..Len(freed) /\ q = Len(pages) + 1 - a
      BY <1>1, <3>1
    <3> QED BY <1>1, <3>2
  <2>2. ASSUME q > p PROVE q \in Freed
    <3> DEFINE a == Len(pages) + 1 - q
    <3>1. a \in 1..Len(freed) /\ q = Len(pages) + 1 - a
      BY <1>1, <2>2
    <3>2. freed[a] = q /\ a \in DOMAIN freed
      BY <1>1, <3>1
    <3> QED BY <3>2 DEF Freed
  <2> QED BY <2>1, <2>2
<1>3. p \in 1..Len(pages) /\ ~(p > p)
  BY <1>1
<1>4. ASSUME next = NoPage, NEW q \in 1..Len(pages), q # p PROVE q \in Freed
  <2>1. q \in Nat /\ q >= 1 /\ p \in Nat /\ p - 1 = 0
    BY <1>n, <1>4 DEF NoPage
  <2>2. q > p
    BY <2>1, <1>4
  <2> QED BY <1>2, <2>2
<1>5. ASSUME next # NoPage PROVE \E q \in 1..Len(pages) : q \notin Freed /\ q # p
  <2>1. /\ p \in Nat /\ p > 0 /\ next = p - 1 /\ next # 0
        /\ Len(pages) \in Nat /\ p <= Len(pages)
    BY <1>1, <1>p, <1>5 DEF NoPage
  <2>2. next \in 1..Len(pages) /\ ~(next > p) /\ next # p
    BY <2>1
  <2> QED BY <1>2, <2>2
<1> QED BY <1>1, <1>2, <1>3, <1>4, <1>5

(* A page is given back. *)
LEMMA FreePageGivesBack ==
  ASSUME HeapInv, FreePage
  PROVE  Promised!GiveBack
<1>1. /\ stage = "deleting" /\ freed' = Append(freed, p) /\ UNCHANGED <<pages, blocks>>
      /\ stage' = IF next = NoPage THEN "gone" ELSE "deleting"
  BY DEF FreePage, heap
<1>2. Freed' = Freed \cup {p}
  <2>1. freed \in Seq(Nat) /\ p \in Nat
    BY DEF HeapInv, TypeOK
  <2>2. /\ DOMAIN freed = 1..Len(freed) /\ DOMAIN freed' = 1..(Len(freed) + 1)
        /\ \A a \in 1..Len(freed) : freed'[a] = freed[a]
        /\ freed'[Len(freed) + 1] = p /\ Len(freed) \in Nat
    BY <1>1, <2>1, Appended
  <2>3. \A a \in 1..(Len(freed) + 1) : a \in 1..Len(freed) \/ a = Len(freed) + 1
    BY <2>2, LastOrBefore
  <2>4. \A a \in 1..Len(freed) : a \in 1..(Len(freed) + 1)
    BY <2>2
  <2>5. Len(freed) + 1 \in 1..(Len(freed) + 1)
    BY <2>2
  <2> QED BY <2>2, <2>3, <2>4, <2>5 DEF Freed
<1> DEFINE Left == DOMAIN pages \ Freed
           Row(q) == {q} \X (0..(pages[q].cap - 1))
<1>3. Memory = UNION {Row(q) : q \in Left} /\ Memory' = UNION {Row(q) : q \in Left \ {p}}
  <2>1. DOMAIN pages \ (Freed \cup {p}) = Left \ {p}
    OBVIOUS
  <2> QED BY <1>1, <1>2, <2>1 DEF Memory
<1>4. p \in Left /\ (next = NoPage <=> Left \ {p} = {})
  BY <1>1, StillThere
<1>5. ASSUME NEW q \in Left PROVE <<q, 0>> \in Row(q)
  <2>1. pages[q].cap \in Nat /\ pages[q].cap > 0
    <3>1. pages \in Seq(Pages) /\ q \in DOMAIN pages
      BY DEF HeapInv, TypeOK
    <3>2. pages[q] \in Pages
      BY <3>1
    <3>3. pages[q].cap > 0
      BY <3>1 DEF HeapInv, PagesHaveRoom
    <3> QED BY <3>2, <3>3 DEF Pages
  <2> QED BY <2>1
<1>6. \A q, r : \A x \in Row(r) : x = <<q, 0>> => r = q
  OBVIOUS
<1> HIDE DEF Left, Row
<1>7. Memory' \subseteq Memory
  BY <1>3
<1>8. <<p, 0>> \in Memory /\ <<p, 0>> \notin Memory'
  BY <1>3, <1>4, <1>5, <1>6
<1>9. Memory' = {} <=> next = NoPage
  <2>1. ASSUME next # NoPage PROVE Memory' # {}
    <3>1. PICK q \in Left : q \in Left \ {p}
      BY <1>4, <2>1
    <3>2. <<q, 0>> \in Memory'
      BY <1>3, <1>5, <3>1
    <3> QED BY <3>2
  <2>2. ASSUME next = NoPage PROVE Memory' = {}
    BY <1>3, <1>4, <2>2
  <2> QED BY <2>1, <2>2
<1>10. Phase = "freeing" /\ Phase' = IF next = NoPage THEN "freed" ELSE "freeing"
  BY <1>1 DEF Phase
<1> QED BY <1>1, <1>7, <1>8, <1>9, <1>10 DEF Promised!GiveBack

LEMMA HeapStepRefines ==
  HeapInv /\ HeapInv' /\ [Next]_vars => [Promised!ANext]_(Promised!avars)
<1> SUFFICES ASSUME HeapInv, HeapInv', [Next]_vars
             PROVE  Promised!ANext \/ UNCHANGED Promised!avars
  OBVIOUS
<1>1. CASE Grow
  BY <1>1, GrowStutters
<1>2. CASE New
  BY <1>2, NewFetches DEF Promised!ANext
<1>3. ASSUME NEW sz \in Sizes, Alloc(sz) PROVE Promised!ANext
  BY <1>3, AllocGives DEF Promised!ANext
<1>4. CASE Delete
  BY <1>4, DeleteShuts DEF Promised!ANext
<1>5. CASE FreePage
  BY <1>5, FreePageGivesBack DEF Promised!ANext
<1>6. CASE UNCHANGED vars
  BY <1>6 DEF vars, heap, loop, Promised!avars, Memory, Freed, Phase
<1> QED BY <1>1, <1>2, <1>3, <1>4, <1>5, <1>6 DEF Next

(* To its users the heap is an allocator: blocks of the sizes asked for, at*)
(* multiples of four, in memory of their own that is given back once, when *)
(* the heap is deleted, whatever pages they come from.                     *)
THEOREM HeapRefinement == Spec => ImplementsAllocator
BY HeapInitRefines, HeapStepRefines, HeapInvariant, PTL
DEF Spec, ImplementsAllocator, Promised!ASpec
=============================================================================
