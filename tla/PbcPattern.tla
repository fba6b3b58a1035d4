----------------------------- MODULE PbcPattern -----------------------------
(***************************************************************************)
(* Patterns: C structs packed into messages and back.  A struct is a       *)
(* function from the fields of the pattern to cells: the bits of a number, *)
(* a slice [str, len], or an array.                                        *)
(***************************************************************************)
EXTENDS PbcSchema

(* _ctype, for the letter behind the %; "a" of a packed field is "packed"  *)
CTypes == [f |-> "float", F |-> "double", d |-> "int32", D |-> "int64", b |-> "bool",
           h |-> "int16", c |-> "int8", s |-> "var", a |-> "array"]

(* _check_ctype *)
Allowed(f, ctype) ==
  CASE f.label = "repeated"                      -> ctype = "array"
    [] f.label = "packed"                        -> ctype = "packed"
    [] f.type \in {"string", "message", "bytes"} -> ctype = "var"
    [] f.type \in {"float", "double"}            -> ctype \in {"float", "double"}
    [] f.type = "enum"                           -> ctype \in {"int8", "int16", "int32", "int64"}
    [] OTHER                                     -> ctype \in {"int8", "int16", "int32", "int64", "bool"}

(* pbc_pattern_new: the fields by id, or nothing.  The format is a sequence*)
(* of pairs of a key and a letter.                                         *)
Entry(type, key, letter) ==
  LET f == Fields[type][key]
  IN  [key |-> key, id |-> f.id, ptype |-> f.type, label |-> f.label, def |-> f.def,
       ctype |-> IF letter = "a" /\ f.label = "packed" THEN "packed" ELSE CTypes[letter]]
ValidFormat(type, format) ==
  \A i \in DOMAIN format :
    /\ HasField(type, format[i][1])
    /\ format[i][2] \in DOMAIN CTypes
    /\ Allowed(Fields[type][format[i][1]], Entry(type, format[i][1], format[i][2]).ctype)
ById(pat) ==
  LET Earlier(i) == {j \in DOMAIN pat : pat[j].id < pat[i].id \/ (pat[j].id = pat[i].id /\ j < i)}
  IN  [k \in DOMAIN pat |-> pat[CHOOSE i \in DOMAIN pat : Cardinality(Earlier(i)) = k - 1]]
AsGiven(pat) == pat
PatternNew(type, format) ==
  IF ~ValidFormat(type, format) THEN <<>>
  ELSE ById([i \in DOMAIN format |-> Entry(type, format[i][1], format[i][2])])

IsArrayCell(pf) == pf.ctype \in {"array", "packed"}

(* bsearch_pattern: the place of an id, or 0 *)
BSearch(pat, id) ==
  LET search[begin \in 0..Len(pat), end \in 0..Len(pat)] ==
        LET mid == (begin + end) \div 2 IN
        IF begin >= end THEN 0
        ELSE IF pat[mid + 1].id = id THEN mid + 1
        ELSE IF id < pat[mid + 1].id THEN search[begin, mid]
        ELSE search[mid + 1, end]
  IN  search[0, Len(pat)]

(* The number in a cell as the code reads it, and what writing one makes of*)
(* the cell: of int16 only the first byte is written.                      *)
Load(ctype, cell) == IF ctype = "float" THEN Widen(cell) ELSE cell
WriteLonglong(ctype, n, cell) ==
  CASE ctype = "int32" -> Low(n)
    [] ctype = "bool"  -> IF Low(n) = {} THEN {} ELSE {0}
    [] ctype = "int8"  -> n \cap 0..7
    [] ctype = "int16" -> (cell \cap 8..15) \cup (n \cap 0..7)
    [] OTHER           -> n
WriteReal(ctype, d) == IF ctype = "float" THEN Narrow(d) ELSE d

(* _pattern_set_default *)
DefaultCell(pf) ==
  CASE IsArrayCell(pf)         -> EmptyArray
    [] pf.ctype \in {"double", "float"} -> WriteReal(pf.ctype, pf.def)
    [] pf.ctype = "int16"      -> pf.def \cap 0..15
    [] pf.ctype = "var"        -> pf.def
    [] OTHER                   -> WriteLonglong(pf.ctype, pf.def, NUL)
SetDefaults(pat, data, which) ==
  [k \in DOMAIN data |->
     IF \E i \in which : pat[i].key = k
     THEN DefaultCell(pat[CHOOSE i \in which : pat[i].key = k]) ELSE data[k]]

----------------------------------------------------------------------------
(* pbc_pattern_pack: bytes go into what is left of a slice, or fail.       *)
Room(n) == [ok |-> TRUE, out |-> <<>>, room |-> n]
Fit(s, bytes) ==
  IF s.ok /\ Len(bytes) <= s.room
  THEN [s EXCEPT !.out = @ \o bytes, !.room = @ - Len(bytes)]
  ELSE [s EXCEPT !.ok = FALSE]

(* A slice whose length is not positive is a string up to its zero byte.   *)
SliceBytes(ptype, cell) ==
  IF ptype = "string" /\ cell.len <= 0 THEN cell.str \o [i \in 1..(-cell.len) |-> NUL]
  ELSE SubSeq(cell.str, 1, cell.len)

(* _pack_field with _pack_number *)
FitBytes(s, bytes) == Fit(Fit(s, Encode32(Bits(Len(bytes)))), bytes)
PackTaggedCell(pf, ctype, s, cell) ==
  IF pf.ptype \in Numeric THEN Fit(s, Body(pf.ptype, Load(ctype, cell)))
  ELSE FitBytes(s, SliceBytes(pf.ptype, cell))
PackField(pf, ctype, s, cell) == PackTaggedCell(pf, ctype, Fit(s, Tag(pf.id, WireType(pf.ptype))), cell)

(* _pack_packed_fixed: the room for the length is asked for twice.         *)
FitNumbers(pf, s, array) == FoldLeft(LAMBDA acc, v : Fit(acc, Body(pf.ptype, v)), s, array.cells)
PackBehind(pf, s, header, len, array) ==
  IF s.room - 2 * Len(header) < len THEN [s EXCEPT !.ok = FALSE]
  ELSE FitNumbers(pf, Fit(s, header), array)
PackPackedFixed(pf, w, s, array) ==
  PackBehind(pf, s, Encode32(Bits(w * Size(array))), w * Size(array), array)

(* _pack_packed_varint: the elements are packed behind a guess of their    *)
(* length, and moved.                                                      *)
WithLength(s, body) == Fit(s, Encode32(Bits(Len(body))) \o body)
MoveElements(s, all, at) == IF all.ok THEN WithLength(s, Suffix(all.out, at)) ELSE all
PackPackedVarint(pf, s, array) ==
  MoveElements(s, FitNumbers(pf, Fit(s, Encode32(Bits(Size(array)))), array),
               Len(s.out) + Len(Encode32(Bits(Size(array)))))

PackElements(pf, s, array) ==
  CASE pf.ptype \in Wide       -> PackPackedFixed(pf, 8, s, array)
    [] pf.ptype \in Narrowed   -> PackPackedFixed(pf, 4, s, array)
    [] OTHER                   -> PackPackedVarint(pf, s, array)
PackPackedArray(pf, s, array) ==
  IF Size(array) = 0 THEN s ELSE PackElements(pf, Fit(s, Tag(pf.id, WT_LEND)), array)

(* As a mutant: the field is left out when it is zero.                     *)
IsDefaultZero(pf, cell) == pf.ctype = "int32" /\ cell = {}
(* C's == of two doubles: nothing equals what is not a number, and the two *)
(* zeros are equal.                                                        *)
IsNaN(d) == 52..62 \subseteq d /\ d \cap (0..51) # {}
SameReal(x, y) == ~IsNaN(x) /\ (x = y \/ x \cup y \subseteq {63})

(* _is_default: an optional field that need not be sent *)
IsDefault(pf, cell) ==
  CASE pf.ctype \in {"double", "float"} ->
         SameReal(Load(pf.ctype, cell), Load(pf.ctype, DefaultCell(pf)))
    [] pf.ctype \in {"int64", "int32", "int16", "int8", "bool"} -> cell = DefaultCell(pf)
    [] pf.ctype = "var" /\ pf.ptype = "string" ->
         (IF cell.len > 0 THEN SubSeq(cell.str, 1, cell.len) ELSE cell.str) = pf.def.str
    [] OTHER -> FALSE

PackOne(pf, s, cell) ==
  CASE pf.label = "repeated" -> FoldLeft(LAMBDA acc, v : PackField(pf, "var", acc, v), s, cell.cells)
    [] pf.label = "packed"   -> PackPackedArray(pf, s, cell)
    [] pf.label = "optional" /\ IsDefault(pf, cell) -> s
    [] OTHER                 -> PackField(pf, pf.ctype, s, cell)

PatternPack(pat, data, room) ==
  FoldLeft(LAMBDA s, pf : IF s.ok THEN PackOne(pf, s, data[pf.key]) ELSE s, Room(room), pat)

----------------------------------------------------------------------------
(* unpack_field: whether it can be read, and the cell then.  An sint64 is  *)
(* only taken from a slice, which no sint64 is.                            *)
SliceCell(a, buf) == [str |-> Slice(a, buf), len |-> End(a) - Start(a)]
AtomCell(pf, a, buf) == IF pf.ptype \in Numeric THEN FromWire(pf.ptype, a.num) ELSE SliceCell(a, buf)
ReadCell(pf, a, buf, cell) ==
  CASE pf.ctype = "array"                 -> Push(cell, AtomCell(pf, a, buf))
    [] pf.ctype = "var"                   -> AtomCell(pf, a, buf)
    [] pf.ctype \in {"float", "double"}   -> WriteReal(pf.ctype, AtomCell(pf, a, buf))
    [] OTHER                              -> WriteLonglong(pf.ctype, AtomCell(pf, a, buf), cell)
PushUnpacked(cell, packed) == [ok |-> packed.ok, cell |-> FoldLeft(Push, cell, packed.vals)]
UnpackField(pf, a, buf, cell) ==
  IF pf.ctype = "packed" THEN PushUnpacked(cell, UnpackPacked(pf.ptype, Slice(a, buf)))
  ELSE IF pf.ptype \in {"sint64", "string", "bytes", "message"} /\ a.wt # WT_LEND
  THEN [ok |-> FALSE, cell |-> cell]
  ELSE [ok |-> TRUE, cell |-> ReadCell(pf, a, buf, cell)]

(* pbc_pattern_unpack: the result so far, the fields seen, and the struct  *)
CellFor(r, at, pf) == IF at \notin r.seen /\ IsArrayCell(pf) THEN EmptyArray ELSE r.data[pf.key]
Unpacked(r, i, at, pf, u) ==
  [result |-> IF u.ok THEN 0 ELSE -i, seen |-> r.seen \cup {at},
   data |-> [r.data EXCEPT ![pf.key] = u.cell]]
UnpackAt(pat, r, i, at, a, buf) ==
  IF r.result < 0 \/ at = 0 THEN r
  ELSE Unpacked(r, i, at, pat[at], UnpackField(pat[at], a, buf, CellFor(r, at, pat[at])))
Completed(pat, r) ==
  [result |-> r.result,
   data |-> IF r.result < 0 THEN r.data ELSE SetDefaults(pat, r.data, DOMAIN pat \ r.seen)]
UnpackAtoms(pat, buf, data, ctx) ==
  IF ctx.number <= 0 THEN [result |-> ctx.number - 1, data |-> data]
  ELSE Completed(pat,
         FoldLeft(LAMBDA r, i : UnpackAt(pat, r, i, BSearch(pat, ctx.atoms[i].id), ctx.atoms[i], buf),
                  [result |-> 0, seen |-> {}, data |-> data], [i \in 1..ctx.number |-> i]))
PatternUnpack(pat, buf, data) ==
  IF buf = <<>> THEN [result |-> 0, data |-> SetDefaults(pat, data, DOMAIN pat)]
  ELSE UnpackAtoms(pat, buf, data, Open(buf))
=============================================================================
