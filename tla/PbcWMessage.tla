----------------------------- MODULE PbcWMessage -----------------------------
(***************************************************************************)
(* pbc_wmessage: a message under construction.  Fields are encoded into a  *)
(* buffer as they are given, in the order of the calls; the elements of    *)
(* packed fields and the sub-messages are collected and only encoded by    *)
(* pbc_wmessage_buffer.  A message and its sub-messages are kept in one    *)
(* sequence ms; a handle is an index of it.                                *)
(***************************************************************************)
EXTENDS PbcSchema

(* What the heap page a buffer lies in held before: a byte that no call    *)
(* has written reads as this one.                                          *)
VARIABLE staleByte

WMESSAGE_SIZE == 64

(* over: some write went past the end of the buffer. *)
New(type) ==
  [type |-> type, buf |-> <<>>, cap |-> WMESSAGE_SIZE, over |-> FALSE,
   sub |-> EmptyArray, packed |-> <<>>]

(* _expand doubles until there is room; as a mutant, it doubles once.      *)
ExpandOnce(m, sz) == IF Len(m.buf) + sz <= m.cap THEN m ELSE [m EXCEPT !.cap = 2 * @]
Expand(m, sz) == [m EXCEPT !.cap = DoubledTo(@, Len(m.buf) + sz)]

Put(m, bytes) ==
  [m EXCEPT !.buf = @ \o bytes, !.over = @ \/ Len(m.buf) + Len(bytes) > m.cap]

(* _get_packed, _packed_integer, _packed_real.  The map of packed fields is*)
(* walked in the order of its hashes: a new one goes to any place, at.     *)
PlacesOf(m, key) == {k \in DOMAIN m.packed : m.packed[k].key = key}
PushPacked(m, f, key, v, at) ==
  IF PlacesOf(m, key) # {}
  THEN [m EXCEPT !.packed[Min(PlacesOf(m, key))].data = Push(@, v)]
  ELSE [m EXCEPT !.packed = InsertAt(@, at, [key |-> key, id |-> f.id, ptype |-> f.type,
                                             data |-> Push(EmptyArray, v)])]

(* pbc_wmessage_integer and _real: a type that is not theirs writes nothing*)
Number(m, key, v, at, room, types) ==
  LET f == Fields[m.type][key]
  IN  IF f.label = "packed" THEN PushPacked(m, f, key, v, at)
      ELSE IF f.type \in types
      THEN Put(Expand(m, room), Tag(f.id, WireType(f.type)) \o Body(f.type, v))
      ELSE Expand(m, room)
AddInteger(m, key, v, at) == Number(m, key, v, at, 20, Numeric \ {"double", "float"})
AddReal(m, key, v, at) == Number(m, key, v, at, 18, {"double", "float"})

(* pbc_wmessage_string: v is what lies in memory before a zero byte.  A    *)
(* length of zero or less asks for strlen, less that length.               *)
Text(v, len) == IF len > 0 THEN SubSeq(v, 1, len) ELSE v \o [i \in 1..(-len) |-> NUL]

UnknownEnum(type, key, name) ==
  Fields[type][key].type = "enum" /\ ~HasName(Fields[type][key], name)

PutText(m, f, s) ==
  Put(Expand(Put(Expand(m, 20), Tag(f.id, WT_LEND) \o Encode32(Bits(Len(s)))), Len(s)), s)
AddString(m, key, v, len, at) ==
  LET f == Fields[m.type][key] IN
  IF f.label = "packed"
  THEN IF f.type = "enum" /\ HasName(f, v) THEN PushPacked(m, f, key, NumberOf(f, v), at) ELSE m
  ELSE CASE f.type = "enum" /\ HasName(f, v) ->
              Put(Expand(m, 20), Tag(f.id, WT_VARINT) \o Encode32(NumberOf(f, v)))
         [] f.type \in {"string", "bytes"} -> PutText(m, f, Text(v, len))
         [] OTHER -> Expand(m, 20)

(* pbc_wmessage_message *)
AddMessage(ms, h, key) ==
  LET f == Fields[ms[h].type][key]
  IN  Append([ms EXCEPT ![h].sub = Push(@, [child |-> Len(ms) + 1, id |-> f.id])], New(f.of))

----------------------------------------------------------------------------
(* pbc_wmessage_buffer *)

(* _pack_packed_64, _pack_packed_32: elements of width w at distances of 8,*)
(* behind which the write pointer moves by the sum of the widths only.     *)
PutCells(m, p, w) ==
  [Put(m, [i \in 1..(w * Size(p.data)) |->
             IF (i - 1) % 8 >= w THEN staleByte
             ELSE Body(p.ptype, Index(p.data, (i - 1) \div 8))[((i - 1) % 8) + 1]])
     EXCEPT !.over = @ \/ Len(m.buf) + 8 * (Size(p.data) - 1) + w > m.cap]
PackFixed(m, p, w) ==
  PutCells(Put(Expand(m, 10 + w * Size(p.data)), Encode32(Bits(w * Size(p.data)))), p, w)

(* The varint of an element of a packed field: those of int32 and below    *)
(* lose their upper half here.                                             *)
PackedBody(type, v) == IF type = "int32" THEN Encode32(v) ELSE Body(type, v)

(* _pack_packed_varint: the length is guessed, and the bytes are moved when*)
(* the real one needs another number of bytes; the write pointer stays.    *)
Overlay(old, new) ==
  IF Len(new) >= Len(old) THEN SubSeq(new, 1, Len(old))
  ELSE new \o SubSeq(old, Len(new) + 1, Len(old))
Moved(m, guess, prefix) == IF Len(prefix) # Len(guess) THEN Expand(m, Len(prefix)) ELSE m
(* As a mutant: the guess stays.                                           *)
CorrectNot(m, offset, guess, body) == m
Correct(m, offset, guess, body) ==
  [Moved(m, guess, Encode32(Bits(Len(body)))) EXCEPT
     !.buf = SubSeq(@, 1, offset) \o Overlay(guess \o body, Encode32(Bits(Len(body))) \o body),
     !.over = @ \/ offset + Len(Encode32(Bits(Len(body)))) + Len(body)
                     > Moved(m, guess, Encode32(Bits(Len(body)))).cap]

PutElement(m, p, v) == Put(Expand(m, 10), PackedBody(p.ptype, v))
GuessedLength(p) == IF p.ptype = "bool" THEN Size(p.data) ELSE 2 * Size(p.data)
PutElements(m, p) == FoldLeft(LAMBDA acc, v : PutElement(acc, p, v), m, p.data.cells)
CorrectFrom(m, offset, guess) == Correct(m, offset, guess, Suffix(m.buf, offset + Len(guess)))
PackVarints(m, p) ==
  CorrectFrom(PutElements(Put(Expand(m, 10 + GuessedLength(p)), Encode32(Bits(GuessedLength(p)))), p),
              Len(m.buf), Encode32(Bits(GuessedLength(p))))

PackTagged(m, p) ==
  CASE p.ptype \in Wide     -> PackFixed(m, p, 8)
    [] p.ptype \in Narrowed -> PackFixed(m, p, 4)
    [] OTHER                -> PackVarints(m, p)
PackPacked(m, p) == PackTagged(Put(Expand(m, 10), Tag(p.id, WT_LEND)), p)

(* Tag, length and bytes of a finished sub-message *)
PutSub(m, id, bytes) ==
  Put(Expand(m, 20 + Len(bytes)), Tag(id, WT_LEND) \o Encode32(Bits(Len(bytes))) \o bytes)

(* Every message of the tree, finished: its packed fields, then its        *)
(* sub-messages, which come finished.                                      *)
PutSubs(m, cells, done) == FoldLeft(LAMBDA acc, s : PutSub(acc, s.id, done[s.child].buf), m, cells)
Buffer(ms) ==
  LET done[h \in DOMAIN ms] == PutSubs(FoldLeft(PackPacked, ms[h], ms[h].packed), ms[h].sub.cells, done)
  IN  done

(* No buffer and no array of a message was written past its end.           *)
Within(m) == ~m.over /\ ArrayHolds(m.sub) /\ \A k \in DOMAIN m.packed : ArrayHolds(m.packed[k].data)
=============================================================================
