----------------------------- MODULE PbcContext -----------------------------
(***************************************************************************)
(* The first pass over a received message: _pbcC_open cuts the bytes into  *)
(* atoms, one per field occurrence, without knowing the message type.  Of  *)
(* _pbcC_open_packed nothing is modelled: it has no caller.                *)
(***************************************************************************)
EXTENDS PbcVarint, SequencesExt

WT_VARINT == 0
WT_BIT64 == 1
WT_LEND == 2
WT_BIT32 == 5

(* id << 3 | wiretype, for ids below 2^27 *)
Tag(id, wt) == Encode32(Bits(8 * id + wt))

Suffix(buf, at) == SubSeq(buf, at + 1, Len(buf))
NoAtom == [next |-> 0]

(* wiretype_decode: the atom that starts at offset at, whose value is what *)
(* lies from start to next.  In that of a slice, these offsets are the     *)
(* halves of the number.  A length of 2^30 or more is refused, as the code *)
(* does up to the ten below 2^32: for those its sum wraps, and it goes on  *)
(* outside the buffer, which is not modelled.                              *)
Atom(tag, n, start, next) ==
  [id |-> Val(Shr(tag, 3) \cap 0..28), wt |-> Val(tag \cap 0..2), num |-> n, start |-> start, next |-> next]

VarintAtom(buf, tag, pos, val) ==
  IF pos + val.len > Len(buf) THEN NoAtom ELSE Atom(tag, val.num, pos, pos + val.len)
FixedAtom(buf, tag, pos, w) ==
  IF pos + w > Len(buf) THEN NoAtom ELSE Atom(tag, Unfixed(SubSeq(buf, pos + 1, pos + w)), pos, pos + w)
SliceAtom(tag, start, end) == Atom(tag, Bits(start) \cup Shl(Bits(end), 32), start, end)
(* As a mutant: a slice may be longer than what is left.                   *)
LendAtomLoose(buf, tag, start, len) ==
  IF ~(len \subseteq 0..29) \/ start > Len(buf) THEN NoAtom
  ELSE SliceAtom(tag, start, Min({Len(buf), start + Val(len)}))

LendAtom(buf, tag, start, len) ==
  IF ~(len \subseteq 0..29) \/ start + Val(len) > Len(buf) THEN NoAtom
  ELSE SliceAtom(tag, start, start + Val(len))

AfterTag(buf, tag, pos) ==
  CASE Val(tag \cap 0..2) = WT_VARINT -> VarintAtom(buf, tag, pos, Decode(Suffix(buf, pos)))
    [] Val(tag \cap 0..2) = WT_BIT64  -> FixedAtom(buf, tag, pos, 8)
    [] Val(tag \cap 0..2) = WT_LEND   -> LendAtom(buf, tag, pos + VarintLength(Suffix(buf, pos)), Decode(Suffix(buf, pos)).num)
    [] Val(tag \cap 0..2) = WT_BIT32  -> FixedAtom(buf, tag, pos, 4)
    [] OTHER                          -> NoAtom
TaggedAtom(buf, at, tag) ==
  IF at + tag.len > Len(buf) \/ Hi(tag.num) # {} THEN NoAtom ELSE AfterTag(buf, tag.num, at + tag.len)
WiretypeDecode(buf, at) == TaggedAtom(buf, at, Decode(Suffix(buf, at)))

(* _pbcC_open: the atoms and their number; negated, or 0, that of those    *)
(* before the one that cannot be read.                                     *)
Before(a, rest) == [rest EXCEPT !.atoms = <<a>> \o @]
AtomsFrom(buf) ==
  LET from[at \in 0..Len(buf)] ==
        IF at = Len(buf) THEN [ok |-> TRUE, atoms |-> <<>>]
        ELSE LET a == WiretypeDecode(buf, at)
             IN  IF a = NoAtom THEN [ok |-> FALSE, atoms |-> <<>>] ELSE Before(a, from[a.next])
  IN  from
Opened(all) ==
  [number |-> IF all.ok THEN Len(all.atoms) ELSE -Len(all.atoms), atoms |-> IF all.ok THEN all.atoms ELSE <<>>]
Open(buf) == Opened(AtomsFrom(buf)[0])

(* The bytes of an atom, v.s: of one that is no slice, what the halves of  *)
(* its number say.                                                         *)
Start(a) == IF a.wt = WT_LEND THEN a.start ELSE Val(Low(a.num))
End(a) == IF a.wt = WT_LEND THEN a.next ELSE Val(Shr(a.num, 32))
Slice(a, buf) == [i \in 1..(End(a) - Start(a)) |-> buf[Start(a) + i]]
=============================================================================
