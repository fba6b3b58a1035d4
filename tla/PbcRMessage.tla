----------------------------- MODULE PbcRMessage -----------------------------
(***************************************************************************)
(* pbc_rmessage: a received message as a tree of field values by name, and *)
(* pbc_decode, which reports the fields one by one to a callback instead.  *)
(***************************************************************************)
EXTENDS PbcSchema

(* A value of a string: len is negative where it was copied into an array. *)
TextOf(f, s) ==
  [str |-> s,
   len |-> IF f.type = "string" /\ f.label = "repeated" /\ s # <<>> /\ Last(s) # NUL
           THEN -Len(s) ELSE Len(s)]

(* A message: index holds the occurrences of each field, of a field without*)
(* repetition too: which of several the map finds depends on its hashes.   *)
Message(type) == [msg |-> type, index |-> [k \in DOMAIN Fields[type] |-> EmptyArray]]
NULLMessage == [msg |-> "NULL", index |-> [k \in {} |-> EmptyArray]]

(* CHECK_LEND; the other checks are compiled out.                          *)
Lend(type) == type \in {"string", "bytes", "message"}

(* push_value_packed.  The elements of an enum are pushed without a name;  *)
(* those at the first places, as many as the bytes hold, are then given    *)
(* theirs, which are others when the array was not empty.  NAMELESS, a     *)
(* place outside the 64 bits, marks a name that nobody wrote.              *)
NAMELESS == 64
Nameless(f, n) == IF f.type = "enum" THEN n \cup {NAMELESS} ELSE n
NameFirst(array, count) ==
  [array EXCEPT !.cells = [i \in DOMAIN @ |-> IF i <= count THEN @[i] \ {NAMELESS} ELSE @[i]]]
PushNameless(array, f, vals) == FoldLeft(Push, array, [i \in DOMAIN vals |-> Nameless(f, vals[i])])
PushUnpackedValues(array, f, u) ==
  IF f.type = "enum" /\ u.ok THEN NameFirst(PushNameless(array, f, u.vals), Len(u.vals))
  ELSE PushNameless(array, f, u.vals)
PushPackedValues(array, f, a, buf) == PushUnpackedValues(array, f, UnpackPacked(f.type, Slice(a, buf)))

(* _pbc_rmessage_new, with read_value and push_value_array for one atom.  A*)
(* sub-message that cannot be read is left out of an array, but put into a *)
(* field without repetition.  sub: what type and bytes of a sub-message are*)
(* read as.                                                                *)
Element(sub, f, a, buf) ==
  CASE f.type = "message"             -> sub[<<f.of, Slice(a, buf)>>]
    [] f.type \in {"string", "bytes"} -> TextOf(f, Slice(a, buf))
    [] OTHER                          -> FromWire(f.type, a.num)
PushElement(array, f, v) ==
  IF f.label = "repeated" /\ f.type = "message" /\ v = NULLMessage THEN array ELSE Push(array, v)
AddAtom(sub, array, f, a, buf) ==
  CASE f.label = "packed"                -> PushPackedValues(array, f, a, buf)
    [] Lend(f.type) /\ a.wt # WT_LEND    -> array
    [] OTHER                             -> PushElement(array, f, Element(sub, f, a, buf))
AddTo(sub, type, index, a, buf) ==
  IF ~HasId(type, a.id) THEN index
  ELSE [index EXCEPT ![NameOf(type, a.id)] = AddAtom(sub, @, Fields[type][NameOf(type, a.id)], a, buf)]
ReadAtoms(sub, type, buf, ctx) ==
  IF ctx.number <= 0 THEN NULLMessage
  ELSE [msg |-> type,
        index |-> FoldLeft(LAMBDA index, a : AddTo(sub, type, index, a, buf), Message(type).index, ctx.atoms)]
ReadOne(sub, type, buf) == IF buf = <<>> THEN Message(type) ELSE ReadAtoms(sub, type, buf, Open(buf))

(* A message of n bytes has no more than n levels of sub-messages.         *)
ReadLevels[n \in Nat] ==
  [x \in (DOMAIN Fields) \X Seq(Byte) |-> IF n = 0 THEN Message(x[1]) ELSE ReadOne(ReadLevels[n - 1], x[1], x[2])]
ReadMessage(type, buf) == ReadLevels[Len(buf)][<<type, buf>>]

(* pbc_rmessage_size *)
RSize(r, key) ==
  LET n == Size(r.index[key])
  IN  IF n = 0 \/ IsArray(Fields[r.msg][key]) THEN n ELSE 1

(* What the accessors find at index i: the default when there is nothing.  *)
Found(r, key, i) ==
  LET f == Fields[r.msg][key] IN
  IF Size(r.index[key]) = 0 THEN {f.def}
  ELSE IF IsArray(f) THEN {Index(r.index[key], i)}
  ELSE Range(r.index[key].cells)

RInteger(r, key, i) ==
  {IF Fields[r.msg][key].type = "enum" THEN Low(n) ELSE n : n \in Found(r, key, i)}
RReal(r, key, i) == Found(r, key, i)

(* pbc_rmessage_string: the name of an enum, any where none was written, or*)
(* the bytes and their number                                              *)
NamesHeld(f, n) == IF NAMELESS \in n THEN DOMAIN Enums[f.of] ELSE NamesOf(f, Low(n))
RString(r, key, i) ==
  LET f == Fields[r.msg][key] IN
  IF f.type = "enum"
  THEN UNION {NamesHeld(f, n) : n \in Found(r, key, i)}
  ELSE {[str |-> t.str, sz |-> IF t.len < 0 THEN -t.len ELSE t.len] : t \in Found(r, key, i)}

(* pbc_rmessage_message; an empty message of the type is the default       *)
RMessage(r, key, i) ==
  IF Size(r.index[key]) = 0 THEN {Message(Fields[r.msg][key].of)} ELSE Found(r, key, i)

(* The messages within a message, down to some level, and their arrays     *)
SubMessages(r) == UNION {Range(r.index[k].cells) : k \in {k \in DOMAIN r.index : Fields[r.msg][k].type = "message"}}
AndBelow(rs) == rs \cup UNION {SubMessages(r) : r \in rs}
Nested(r) == LET down[n \in Nat] == IF n = 0 THEN {r} ELSE AndBelow(down[n - 1]) IN down
ArraysHold(r, levels) == \A s \in Nested(r)[levels] : \A k \in DOMAIN s.index : ArrayHolds(s.index[k])

----------------------------------------------------------------------------
(* pbc_decode.  A value as the callback gets it: call_type gives numbers of*)
(* 32 bits without an upper half, call_array with it.                      *)
CallValue(type, n) ==
  IF type \in {"int32", "uint32", "bool", "fixed32", "sfixed32", "enum"} THEN Low(n) ELSE FromWire(type, n)

(* The callbacks for one atom.  call_unknown compares the whole tag with   *)
(* the wire types, so that no tag of a field passes.                       *)
UnknownAtom(a, buf) ==
  IF 8 * a.id + a.wt \notin {WT_VARINT, WT_BIT64, WT_LEND, WT_BIT32} THEN [ok |-> FALSE, vals |-> <<>>]
  ELSE [ok |-> TRUE, vals |-> <<IF a.wt = WT_LEND THEN Slice(a, buf) ELSE a.num>>]
KnownAtom(f, a, buf) ==
  CASE f.label = "packed" -> UnpackPacked(f.type, Slice(a, buf))
    [] f.label # "packed" /\ ~Lend(f.type) -> [ok |-> TRUE, vals |-> <<CallValue(f.type, a.num)>>]
    [] f.label # "packed" /\ Lend(f.type)  ->
         IF a.wt = WT_LEND THEN [ok |-> TRUE, vals |-> <<Slice(a, buf)>>] ELSE [ok |-> FALSE, vals |-> <<>>]

(* The result so far, and the callbacks. *)
Called(r, i, key, c) ==
  [result |-> IF c.ok THEN r.result ELSE -i,
   calls |-> r.calls \o [k \in DOMAIN c.vals |-> [key |-> key, val |-> c.vals[k]]]]
CallAtom(r, i, type, a, buf) ==
  IF HasId(type, a.id)
  THEN Called(r, i, NameOf(type, a.id), KnownAtom(Fields[type][NameOf(type, a.id)], a, buf))
  ELSE Called(r, i, "NULL", UnknownAtom(a, buf))
DecodeAtoms(type, buf, ctx) ==
  IF ctx.number <= 0 THEN [result |-> ctx.number - 1, calls |-> <<>>]
  ELSE FoldLeft(LAMBDA r, i : IF r.result < 0 THEN r ELSE CallAtom(r, i, type, ctx.atoms[i], buf),
                [result |-> ctx.number, calls |-> <<>>], [i \in 1..ctx.number |-> i])
PbcDecode(type, buf) ==
  IF buf = <<>> THEN [result |-> 0, calls |-> <<>>] ELSE DecodeAtoms(type, buf, Open(buf))
=============================================================================
