------------------------------ MODULE PbcVarint ------------------------------
(***************************************************************************)
(* The number formats of the protobuf library: varints, zigzag, and fixed  *)
(* widths.  A number is the set of the positions of its bits, below 64, and*)
(* a byte is such a set below 8, so that the shifts and masks of the code  *)
(* are what they are there, and 64 bits need no more than 32 do.           *)
(***************************************************************************)
EXTENDS Integers, Sequences, FiniteSetsExt

(* What the build makes of a shift of an int by 35: gcc masks the count to *)
(* three, or, having unrolled the loop, drops the bits.                    *)
VARIABLE shift35

Byte == SUBSET (0..7)
Number64 == SUBSET (0..63)
NUL == {}

Low(n) == n \cap 0..31
Hi(n) == n \ 0..31
Shl(n, k) == {b + k : b \in n}
Shr(n, k) == {b - k : b \in n \ 0..(k - 1)}
Xor(a, b) == (a \ b) \cup (b \ a)
AllIf(cond, w) == IF cond THEN 0..(w - 1) ELSE {}

(* Numbers below 2^30 as sets of bits and back. *)
Bits(k) == {b \in 0..29 : (k \div 2^b) % 2 = 1}
Val(n) ==
  LET from[b \in 0..31] == IF b = 31 THEN 0 ELSE (IF b \in n THEN 1 ELSE 0) + 2 * from[b + 1]
  IN  from[0]

----------------------------------------------------------------------------
(* Seven bits to a byte, the eighth set in all but the last.               *)
LastGroup(n) == IF n = {} THEN 0 ELSE Max(n) \div 7
Groups(n) ==
  [k \in 1..(LastGroup(n) + 1) |->
     (Shr(n, 7 * (k - 1)) \cap 0..6) \cup (IF Shr(n, 7 * k) # {} THEN {7} ELSE {})]

(* _pbcV_encode32 *)
Encode32(n) == Groups(Low(n))

(* _pbcV_encode *)
Encode(n) == IF Hi(n) = {} THEN Encode32(n) ELSE Groups(n)

(* (buffer[i] & 0x7f) << k, an int of 32 bits that is widened to 64.       *)
ShiftInt(g, k) ==
  IF k >= 32 THEN IF shift35 = "masked" THEN Shl(g, k - 32) ELSE {}
  ELSE Low(Shl(g, k)) \cup (IF 31 \in Shl(g, k) THEN 32..63 ELSE {})

(* _pbcV_decode: the number and the length of the varint buf begins with.  *)
(* When buf ends before the varint does, the code reads on behind it; all  *)
(* callers refuse the result because its length is more than there was.    *)
VarintLength(buf) == Min({10} \cup {k \in 1..10 : k > Len(buf) \/ 7 \notin buf[k]})
Varint(buf, len) ==
  [len |-> len,
   num |-> IF len > Len(buf) \/ 7 \in buf[len] THEN {}
           ELSE (UNION {Shl(buf[k] \ {7}, 7 * (k - 1)) : k \in 1..(IF len < 4 THEN len ELSE 4)})
                \cup Shl((UNION {ShiftInt(buf[k] \ {7}, 7 * (k - 5)) : k \in 5..len}) \cap 0..35, 28)]
Decode(buf) == Varint(buf, VarintLength(buf))

----------------------------------------------------------------------------
(* _pbcV_zigzag32, _pbcV_zigzag *)
Zigzag32(n) == Encode32(Xor(Shl(Low(n), 1) \cap 0..31, AllIf(31 \in n, 32)))
Zigzag(n) == Encode(Xor(Shl(n, 1) \cap 0..63, AllIf(63 \in n, 64)))

(* _pbcV_dezigzag64, _pbcV_dezigzag32: the latter takes the upper half from*)
(* the sign bit of the encoded number, which is not that of the number.    *)
Dezigzag64(n) == Xor(Shr(n, 1), AllIf(0 \in n, 64))
Dezigzag32(n) ==
  Xor(Shr(Low(n), 1), AllIf(0 \in n, 32)) \cup (IF 31 \in n THEN 32..63 ELSE {})

(* Little-endian numbers of w bytes; as a mutant, without the mask of a    *)
(* byte.                                                                   *)
FixedUnmasked(n, w) == [k \in 1..w |-> Shr(n, 8 * (k - 1))]
Fixed(n, w) == [k \in 1..w |-> Shr(n, 8 * (k - 1)) \cap 0..7]
Unfixed(buf) == UNION {Shl(buf[k], 8 * (k - 1)) : k \in DOMAIN buf}

(* A double as the bits of a float and back, for reals that are floats.    *)
Narrow(d) ==
  IF d \ {63} = {} THEN Shr(d, 32)
  ELSE (Shr(d, 29) \cap 0..22) \cup Shl(Bits(Val(Shr(d, 52) \cap 0..10) - 896), 23)
       \cup (IF 63 \in d THEN {31} ELSE {})
Widen(f) ==
  IF f \ {31} = {} THEN Shl(f, 32)
  ELSE Shl(f \cap 0..22, 29) \cup Shl(Bits(Val(Shr(f, 23) \cap 0..7) + 896), 52)
       \cup (IF 31 \in f THEN {63} ELSE {})

(* The numeric types: the switches of wmessage.c and of _pack_number.      *)
Numeric == {"int64", "uint64", "int32", "uint32", "enum", "bool", "sint32", "sint64",
            "fixed64", "sfixed64", "fixed32", "sfixed32", "double", "float"}
Wide == {"fixed64", "sfixed64", "double"}
Narrowed == {"fixed32", "sfixed32", "float"}
Body(type, v) ==
  CASE type \in {"int64", "uint64", "int32"} -> Encode(v)
    [] type \in {"uint32", "enum", "bool"}   -> Encode32(v)
    [] type \in Wide                         -> Fixed(v, 8)
    [] type \in {"fixed32", "sfixed32"}      -> Fixed(v, 4)
    [] type = "float"                        -> Fixed(Narrow(v), 4)
    [] type = "sint32"                       -> Zigzag32(v)
    [] type = "sint64"                       -> Zigzag(v)
=============================================================================
