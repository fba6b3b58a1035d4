----------------------------- MODULE MCPbcCodec -----------------------------
(***************************************************************************)
(* Instances of PbcCodec: message types with a field of every type and     *)
(* label, and the calls that fill them.                                    *)
(***************************************************************************)
EXTENDS PbcCodecReading

NoText == [str |-> <<>>, len |-> 0]
F(id, type, label, of, def) == [id |-> id, type |-> type, label |-> label, of |-> of, def |-> def]
Num(id, type, label) == F(id, type, label, "", NUL)
Word(s) == [i \in DOMAIN s |-> Bits(s[i])]

(* Three values share a slot of their tables, by number and by name.       *)
MCEnums == [Kind |-> [HOME |-> NUL, WORK |-> Bits(201), LOST |-> 0..31]]
MCHash == [HOME |-> 4, WORK |-> 7, LOST |-> 10, NONE |-> 7]

(* The number of the field "last" takes two bytes in its tag.  Those of    *)
(* Inner are kept in slots: 9, 13 and 5 have the same, and 8 the one that  *)
(* 13 goes to instead.                                                     *)
Inner ==
  [v     |-> Num(9, "int32", "required"),
   names |-> F(13, "string", "repeated", "", NoText),
   inner |-> F(8, "message", "optional", "Inner", NoText),
   w     |-> Num(5, "uint32", "optional")]
Old ==
  [i32   |-> F(1, "int32", "optional", "", Bits(5)),
   name  |-> F(2, "string", "optional", "", [str |-> Word(<<120>>), len |-> 1]),
   subs  |-> F(3, "message", "repeated", "Inner", NoText),
   pack  |-> Num(4, "int64", "packed")]
Rec == Old @@
  [i64   |-> Num(5, "int64", "optional"),   flag |-> Num(6, "bool", "optional"),
   s32   |-> Num(7, "sint32", "optional"),  s64  |-> Num(8, "sint64", "repeated"),
   f32   |-> Num(9, "fixed32", "optional"), f64  |-> Num(10, "sfixed64", "optional"),
   flt   |-> Num(11, "float", "optional"),  dbl  |-> Num(12, "double", "repeated"),
   kind  |-> F(13, "enum", "optional", "Kind", NUL), blob |-> F(14, "bytes", "optional", "", NoText),
   sub   |-> F(15, "message", "optional", "Inner", NoText),
   pk64  |-> Num(16, "fixed64", "packed"),  kinds |-> F(17, "enum", "packed", "Kind", NUL),
   pfl   |-> Num(18, "float", "packed"),    last |-> Num(19, "uint64", "repeated")]
MCFields == [Rec |-> Rec, Old |-> Old, Inner |-> Inner]
InSomeOrder(S) == FoldSet(LAMBDA k, seq : Append(seq, k), <<>>, S)
MCOrder ==
  [Rec |-> InSomeOrder(DOMAIN Rec), Old |-> InSomeOrder(DOMAIN Old), Inner |-> <<"v", "names", "inner", "w">>,
   Kind |-> <<"HOME", "WORK", "LOST">>]

Minus(k) == (0..63) \ Bits(k - 1)
OneAndAHalf == (52..61) \cup {51}          \* 1.5, as a double
MinusThree == {63, 62, 51}                 \* -3.0
Call(op, type, key, args) == [op |-> op, type |-> type, key |-> key, args |-> args]
Str(s, len) == [v |-> Word(s), len |-> len, text |-> IF len > 0 THEN SubSeq(Word(s), 1, len) ELSE Word(s) \o [i \in 1..(-len) |-> NUL]]
Name(v, id) == [v |-> v, len |-> 0, text |-> id]
Long(n) == [i \in 1..n |-> Bits(1 + (i % 100))]

(* Everything the calls can be given that the code encodes right.          *)
MCMenu ==
  {Call("integer", "Rec", "i32", <<Minus(2)>>),
   Call("integer", "Rec", "i32", <<Bits(300)>>),
   Call("integer", "Rec", "i64", <<{58, 40, 31, 0}>>),
   Call("integer", "Rec", "i64", <<Minus(7)>>),
   Call("integer", "Rec", "flag", <<{0}>>),
   Call("integer", "Rec", "s32", <<Minus(3)>>),
   Call("integer", "Rec", "s64", <<Minus(2^20), {40}, NUL>>),
   Call("integer", "Rec", "f32", <<{31, 0}>>),
   Call("integer", "Rec", "f64", <<{63, 31, 5}>>),
   Call("real", "Rec", "flt", <<MinusThree>>),
   Call("real", "Rec", "dbl", <<OneAndAHalf, MinusThree, NUL, {62}>>),
   Call("string", "Rec", "kind", <<Name("WORK", Bits(201))>>),
   Call("string", "Rec", "kind", <<Name("NONE", NUL)>>),
   Call("string", "Rec", "kinds", <<Name("WORK", Bits(201)), Name("LOST", 0..31), Name("HOME", NUL)>>),
   Call("string", "Rec", "name", <<[v |-> Long(130), len |-> 130, text |-> Long(130)]>>),
   Call("string", "Rec", "name", <<Str(<<65, 66, 67>>, -1)>>),
   Call("string", "Rec", "blob", <<Str(<<65, 66, 67>>, 2)>>),
   Call("message", "Rec", "sub", <<>>),
   Call("message", "Rec", "subs", <<>>),
   Call("message", "Inner", "inner", <<>>),
   Call("integer", "Inner", "v", <<Bits(77)>>),
   Call("string", "Inner", "names", <<Str(<<65>>, 0), Str(<<66>>, -1), Str(<<67, 68, 69>>, 0)>>),
   Call("integer", "Rec", "pack", <<Bits(1), Bits(300), Bits(2)>>),
   Call("integer", "Rec", "pack", [i \in 1..9 |-> Bits(20 * i)]),
   Call("integer", "Rec", "pk64", <<{63}, {0}, {31, 32}>>),
   Call("integer", "Rec", "last", [i \in 1..21 |-> Bits(i)]),
   Call("integer", "Rec", "nokey", <<NUL>>)}

ASSUME MenuAssumption == NoNarrowPacked(MCMenu)

MCMaxCalls == [Rec |-> 2, Inner |-> 2]

(* Packed fields of elements of each width, and one of 13 long elements.  *)
PackedMenu ==
  {Call("real", "Rec", "pfl", <<OneAndAHalf, MinusThree>>),
   Call("integer", "Rec", "pk64", <<{63}, {0}, {31, 32}>>),
   Call("integer", "Rec", "pack", [i \in 1..13 |-> Minus(i)]),
   Call("integer", "Rec", "pack", [i \in 1..9 |-> Bits(20 * i)]),
   Call("integer", "Rec", "i32", <<Bits(1)>>), Call("integer", "Rec", "flag", <<{0}>>)}

Cells(s) == FoldLeft(Push, EmptyArray, s)
Sl(s) == [str |-> Word(s), len |-> Len(s)]
MCFormat == << <<"last", "a">>, <<"name", "s">>, <<"i32", "d">>, <<"dbl", "a">>, <<"pack", "a">>,
               <<"pk64", "a">>, <<"flt", "f">>, <<"flag", "b">>, <<"kind", "c">>, <<"i64", "D">>, <<"blob", "s">> >>
Struct ==
  [last |-> Cells(<<{33}, NUL>>), name |-> Sl(<<120>>), i32 |-> Bits(5), dbl |-> Cells(<<MinusThree, NUL>>),
   pack |-> Cells(<<Bits(300), Bits(1), Bits(2)>>), pk64 |-> Cells(<<{63}, {0}, {1}>>),
   flt |-> Narrow(OneAndAHalf), flag |-> {0}, kind |-> Bits(201), i64 |-> {40}, blob |-> Sl(<<1, 2>>)]
MinusZero == {31}                          \* -0.0, as a float, is sent as the default 0.0
MCPriors == {Struct}
MCStructs ==
  {Struct,
   [Struct EXCEPT !.i32 = NUL, !.name = [str |-> Word(<<97, 98>>), len |-> 0], !.last = EmptyArray],
   [Struct EXCEPT !.i32 = Low(Minus(4)), !.kind = NUL, !.i64 = NUL, !.pack = Cells([i \in 1..13 |-> Minus(i)])],
   [Struct EXCEPT !.flag = NUL, !.pack = EmptyArray, !.pk64 = EmptyArray, !.flt = NUL, !.i64 = Minus(9)],
   [Struct EXCEPT !.flt = MinusZero]}
=============================================================================
