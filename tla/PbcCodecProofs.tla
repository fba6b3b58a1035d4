--------------------------- MODULE PbcCodecProofs ---------------------------
(***************************************************************************)
(* Proofs about the protobuf library, for every schema, every menu of      *)
(* calls, every pattern and every number of bytes that get lost:           *)
(*   - the formats of numbers: what they bring back, and which numbers the *)
(*     32-bit shifts of _pbcV_decode lose;                                 *)
(*   - the messages under construction, what is sent and what is received  *)
(*     are of their kinds, and no buffer and no array is written past its  *)
(*     end, for any order of the calls.                                    *)
(* Recursive functions and folds are reasoned about with the lemmas of     *)
(* Recursion, of which there is one instance for each of them.             *)
(***************************************************************************)
EXTENDS PbcCodec, WellFoundedInduction, NaturalsInduction, SequenceTheorems, TLAPS

(* Shifts, bit by bit. *)
LEMMA InShl ==
  ASSUME NEW n \in SUBSET Int, NEW k \in Int, NEW b \in Int
  PROVE  b \in Shl(n, k) <=> b - k \in n
<1>1. b - k \in n => b \in Shl(n, k)
  <2>1. (b - k) + k = b
    OBVIOUS
  <2>2. QED
    BY <2>1 DEF Shl
<1>2. b \in Shl(n, k) => b - k \in n
  <2> SUFFICES ASSUME NEW c \in n, b = c + k PROVE b - k \in n
    BY DEF Shl
  <2>1. b - k = c
    OBVIOUS
  <2>2. QED
    BY <2>1
<1>3. QED
  BY <1>1, <1>2

LEMMA InShr ==
  ASSUME NEW n \in SUBSET Nat, NEW k \in Nat, NEW b \in Int
  PROVE  b \in Shr(n, k) <=> b \in Nat /\ b + k \in n
<1>1. b \in Nat /\ b + k \in n => b \in Shr(n, k)
  <2>1. (b + k) - k = b /\ (b \in Nat => b + k \notin 0..(k - 1))
    OBVIOUS
  <2>2. QED
    BY <2>1 DEF Shr
<1>2. b \in Shr(n, k) => b \in Nat /\ b + k \in n
  <2> SUFFICES ASSUME NEW c \in n, c \notin 0..(k - 1), b = c - k PROVE b \in Nat /\ b + k \in n
    BY DEF Shr
  <2>1. b + k = c /\ b \in Nat
    OBVIOUS
  <2>2. QED
    BY <2>1
<1>3. QED
  BY <1>1, <1>2

LEMMA ShiftTypes ==
  ASSUME NEW n \in SUBSET Nat, NEW k \in Nat
  PROVE  Shl(n, k) \in SUBSET Nat /\ Shr(n, k) \in SUBSET Nat
BY DEF Shl, Shr

----------------------------------------------------------------------------
(* Fixed width *)

(* A number of w bytes in fixed width comes back, for every width. *)
THEOREM FixedRoundTrip ==
  ASSUME NEW w \in Nat, NEW n \in SUBSET (0..(8 * w - 1))
  PROVE  Unfixed(Fixed(n, w)) = n
<1>0. n \in SUBSET Nat
  OBVIOUS
<1>1. \A k \in 1..w : Fixed(n, w)[k] = Shr(n, 8 * (k - 1)) \cap 0..7
  BY DEF Fixed
<1>2. \A k \in 1..w : \A b \in Int :
        b \in Shl(Fixed(n, w)[k], 8 * (k - 1)) <=> b - 8 * (k - 1) \in 0..7 /\ b \in n
  <2> SUFFICES ASSUME NEW k \in 1..w, NEW b \in Int
               PROVE  b \in Shl(Fixed(n, w)[k], 8 * (k - 1))
                        <=> b - 8 * (k - 1) \in 0..7 /\ b \in n
    OBVIOUS
  <2> DEFINE s == 8 * (k - 1)
             g == Shr(n, s) \cap 0..7
  <2>1. s \in Nat /\ b - s \in Int /\ (b - s) + s = b
    OBVIOUS
  <2>2. g \in SUBSET Int
    OBVIOUS
  <2> HIDE DEF s
  <2>3. b \in Shl(g, s) <=> b - s \in g
    BY <2>1, <2>2, InShl
  <2>4. b - s \in Shr(n, s) <=> b - s \in Nat /\ b \in n
    BY <1>0, <2>1, InShr
  <2>5. b \in Shl(g, s) <=> b - s \in 0..7 /\ b \in n
    BY <2>1, <2>3, <2>4
  <2>6. QED
    BY <1>1, <2>5 DEF s
<1>3. DOMAIN Fixed(n, w) = 1..w
  BY DEF Fixed
<1>4. \A b : b \in Unfixed(Fixed(n, w)) <=> \E k \in 1..w : b \in Shl(Fixed(n, w)[k], 8 * (k - 1))
  BY <1>3 DEF Unfixed
<1>5. \A b \in Unfixed(Fixed(n, w)) : b \in n
  <2> SUFFICES ASSUME NEW k \in 1..w, NEW b \in Shl(Fixed(n, w)[k], 8 * (k - 1)) PROVE b \in n
    BY <1>4
  <2>1. b \in Int
    <3>1. Fixed(n, w)[k] \in SUBSET Int /\ 8 * (k - 1) \in Int
      BY <1>1
    <3>2. QED
      BY <3>1 DEF Shl
  <2>2. QED
    BY <1>2, <2>1
<1>6. \A b \in n : b \in Unfixed(Fixed(n, w))
  <2> SUFFICES ASSUME NEW b \in n PROVE b \in Unfixed(Fixed(n, w))
    OBVIOUS
  <2> DEFINE k == (b \div 8) + 1
  <2>1. b \in Int /\ b \in 0..(8 * w - 1)
    OBVIOUS
  <2>2. k \in 1..w /\ b - 8 * (k - 1) \in 0..7
    BY <2>1, SMT
  <2>3. QED
    BY <1>2, <1>4, <2>1, <2>2
<1>7. QED
  BY <1>5, <1>6

----------------------------------------------------------------------------
(* Varints *)

LEMMA Greatest ==
  ASSUME NEW n \in Number64, n # {}
  PROVE  Max(n) \in n /\ \A b \in n : b <= Max(n)
<1> DEFINE R == {ss \in Nat \X Nat : ss[1] < ss[2]}
           T == {63 - b : b \in n}
<1>1. IsWellFoundedOn(R, Nat)
  BY NatLessThanWellFounded DEF OpToRel
<1>2. T \in SUBSET Nat /\ T # {}
  <2>1. \A b \in n : 63 - b \in Nat
    BY DEF Number64
  <2>2. PICK b \in n : TRUE
    OBVIOUS
  <2>3. 63 - b \in T
    OBVIOUS
  <2>4. QED
    BY <2>1, <2>3
<1>3. PICK x \in T : \A y \in T : ~(<<y, x>> \in R)
  <2> HIDE DEF R, T
  <2>1. QED
    BY <1>1, <1>2, WFMin
<1>4. ASSUME NEW y \in T PROVE x <= y
  <2>1. y < x => <<y, x>> \in R
    BY <1>2
  <2>2. ~(<<y, x>> \in R) /\ x \in Nat /\ y \in Nat
    <3> HIDE DEF R, T
    <3>1. QED
      BY <1>2, <1>3
  <2> HIDE DEF R, T
  <2>3. QED
    BY <2>1, <2>2
<1>5. PICK g \in n : x = 63 - g
  OBVIOUS
<1>6. \A b \in n : b <= g
  <2> SUFFICES ASSUME NEW b \in n PROVE b <= g
    OBVIOUS
  <2>1. x <= 63 - b
    BY <1>4
  <2>2. b \in Int /\ g \in Int
    BY DEF Number64
  <2>3. QED
    BY <1>5, <2>1, <2>2
<1>7. \A b \in n : b \in Int
  BY DEF Number64
<1>8. QED
  BY <1>6, <1>7 DEF Max

(* How many bytes a number takes: its bits fit in, and the last byte is    *)
(* not empty unless it is the only one.                                    *)
LEMMA GroupCount ==
  ASSUME NEW n \in Number64
  PROVE  /\ LastGroup(n) \in 0..9
         /\ \A b \in n : b \div 7 <= LastGroup(n)
         /\ LastGroup(n) > 0 => \E b \in n : b \div 7 = LastGroup(n)
<1>1. CASE n = {}
  BY <1>1 DEF LastGroup
<1>2. CASE n # {}
  <2>1. Max(n) \in n /\ Max(n) \in 0..63 /\ \A b \in n : b <= Max(n)
    BY <1>2, Greatest DEF Number64
  <2>2. LastGroup(n) = Max(n) \div 7
    BY <1>2 DEF LastGroup
  <2>3. \A b, m \in 0..63 : b <= m => b \div 7 <= m \div 7
    BY SMT
  <2>4. \A m \in 0..63 : m \div 7 \in 0..9
    BY SMT
  <2>5. \A b \in n : b \in 0..63
    BY DEF Number64
  <2>6. QED
    BY <2>1, <2>2, <2>3, <2>4, <2>5
<1>3. QED
  BY <1>1, <1>2

(* The bytes of a varint: seven bits each, and all but the last go on. *)
LEMMA GroupsBits ==
  ASSUME NEW n \in Number64
  PROVE  LET m == LastGroup(n) + 1
         IN  /\ Groups(n) \in Seq(Byte) /\ Len(Groups(n)) = m /\ m \in 1..10
             /\ \A k \in 1..m :
                  /\ 7 \in Groups(n)[k] <=> k < m
                  /\ \A c \in Int : c \in Groups(n)[k] \ {7} <=> c \in 0..6 /\ c + 7 * (k - 1) \in n
<1> DEFINE m == LastGroup(n) + 1
<1>1. m \in 1..10 /\ LastGroup(n) = m - 1
  BY GroupCount
<1>2. n \in SUBSET Nat
  BY DEF Number64
<1>3. DOMAIN Groups(n) = 1..m
      /\ \A k \in 1..m : Groups(n)[k] = (Shr(n, 7 * (k - 1)) \cap 0..6)
                                        \cup (IF Shr(n, 7 * k) # {} THEN {7} ELSE {})
  BY DEF Groups
<1>4. Groups(n) \in Seq(Byte) /\ Len(Groups(n)) = m
  <2>1. \A k \in 1..m : Groups(n)[k] \in Byte
    BY <1>3 DEF Byte
  <2>2. Groups(n) = [k \in 1..m |-> Groups(n)[k]]
    BY <1>3 DEF Groups
  <2> HIDE DEF m
  <2>3. Groups(n) \in [1..m -> Byte]
    BY <2>1, <2>2
  <2>4. QED
    BY <1>1, <2>3
<1>5. ASSUME NEW k \in 1..m PROVE 7 \in Groups(n)[k] <=> k < m
  <2>1. 7 \in Groups(n)[k] <=> Shr(n, 7 * k) # {}
    BY <1>3
  <2>2. k \in Nat /\ 7 * k \in Nat /\ k <= m
    BY <1>1
  <2> HIDE DEF m
  <2>3. ASSUME k < m PROVE Shr(n, 7 * k) # {}
    <3>1. PICK b \in n : b \div 7 = m - 1
      BY <1>1, <2>2, <2>3, GroupCount
    <3>2. b \in Nat /\ b - 7 * k \in Nat
      <4>1. b \in Nat
        BY <1>2
      <4>2. b >= 7 * (m - 1)
        BY <1>1, <3>1, <4>1, SMT
      <4>3. QED
        BY <1>1, <2>2, <2>3, <4>1, <4>2, SMT
    <3>3. (b - 7 * k) + 7 * k = b
      BY <2>2, <3>2
    <3>4. b - 7 * k \in Shr(n, 7 * k)
      BY <1>2, <2>2, <3>2, <3>3, InShr
    <3>5. QED
      BY <3>4
  <2>4. ASSUME k = m PROVE Shr(n, 7 * k) = {}
    <3> SUFFICES ASSUME NEW c \in Shr(n, 7 * k) PROVE FALSE
      OBVIOUS
    <3>1. c \in Nat /\ c + 7 * k \in n
      <4>1. c \in Int
        <5>1. Shr(n, 7 * k) \in SUBSET Nat
          BY <1>2, <2>2, ShiftTypes
        <5>2. QED
          BY <5>1
      <4>2. QED
        BY <1>2, <2>2, <4>1, InShr
    <3>2. (c + 7 * k) \div 7 >= k
      BY <2>2, <3>1, SMT
    <3>3. (c + 7 * k) \div 7 <= m - 1
      BY <1>1, <3>1, GroupCount
    <3>4. (c + 7 * k) \div 7 \in Int
      BY <2>2, <3>1, SMT
    <3>5. QED
      BY <1>1, <2>2, <2>4, <3>2, <3>3, <3>4
  <2>5. QED
    BY <1>1, <2>1, <2>2, <2>3, <2>4
<1>6. ASSUME NEW k \in 1..m, NEW c \in Int
      PROVE  c \in Groups(n)[k] \ {7} <=> c \in 0..6 /\ c + 7 * (k - 1) \in n
  <2>1. 7 * (k - 1) \in Nat
    BY <1>1
  <2>2. c \in Shr(n, 7 * (k - 1)) <=> c \in Nat /\ c + 7 * (k - 1) \in n
    BY <1>2, <2>1, InShr
  <2>3. c \in Groups(n)[k] \ {7} <=> c \in Shr(n, 7 * (k - 1)) /\ c \in 0..6
    BY <1>3
  <2>4. QED
    BY <2>2, <2>3
<1>7. QED
  BY <1>1, <1>4, <1>5, <1>6

(* _pbcV_encode makes the same bytes on both of its paths. *)
LEMMA EncodeIsGroups ==
  ASSUME NEW n \in Number64
  PROVE  /\ Encode(n) = Groups(n)
         /\ Encode32(n) = Groups(Low(n)) /\ Low(n) \in Number64
<1>1. Hi(n) = {} => Low(n) = n
  BY DEF Hi, Low
<1>2. Low(n) \in Number64
  BY DEF Low, Number64
<1>3. QED
  BY <1>1, <1>2 DEF Encode, Encode32

(* With anything behind it, the length of a varint is found again. *)
LEMMA LengthFound ==
  ASSUME NEW n \in Number64, NEW rest \in Seq(Byte)
  PROVE  LET m == LastGroup(n) + 1
             buf == Groups(n) \o rest
         IN  /\ buf \in Seq(Byte) /\ Len(buf) >= m /\ VarintLength(buf) = m
             /\ \A k \in 1..m : buf[k] = Groups(n)[k]
<1> DEFINE m == LastGroup(n) + 1
           g == Groups(n)
           buf == g \o rest
           S == {10} \cup {k \in 1..10 : k > Len(buf) \/ 7 \notin buf[k]}
<1>1. /\ g \in Seq(Byte) /\ Len(g) = m /\ m \in 1..10
      /\ \A k \in 1..m : 7 \in g[k] <=> k < m
  BY GroupsBits
<1> HIDE DEF g, m
<1>2. buf \in Seq(Byte) /\ Len(buf) = Len(g) + Len(rest) /\ Len(rest) \in Nat
  BY <1>1, ConcatProperties
<1>3. \A k \in 1..m : buf[k] = g[k]
  <2>1. \A k \in 1..(Len(g) + Len(rest)) :
          buf[k] = IF k <= Len(g) THEN g[k] ELSE rest[k - Len(g)]
    BY <1>1, ConcatProperties
  <2>2. \A k \in 1..m : k \in 1..(Len(g) + Len(rest)) /\ k <= Len(g)
    BY <1>1, <1>2
  <2>3. QED
    BY <2>1, <2>2
<1>4. Len(buf) >= m /\ Len(buf) \in Nat
  BY <1>1, <1>2
<1> HIDE DEF buf
<1>5. m \in S
  BY <1>1, <1>3
<1>6. \A k \in S : m <= k
  <2> SUFFICES ASSUME NEW k \in S, k < m PROVE FALSE
    BY <1>1
  <2>1. k \in 1..m /\ k # 10 /\ ~(k > Len(buf))
    BY <1>1, <1>4
  <2>2. 7 \in buf[k]
    BY <1>1, <1>3, <2>1
  <2>3. QED
    BY <2>1, <2>2
<1>7. VarintLength(buf) = m
  <2>1. \A x \in S : (\A y \in S : x <= y) => x = m
    BY <1>1, <1>5, <1>6
  <2>2. VarintLength(buf) = CHOOSE x \in S : \A y \in S : x <= y
    BY DEF VarintLength, Min
  <2> HIDE DEF S
  <2>3. QED
    BY <1>5, <1>6, <2>1, <2>2
<1>8. QED
  BY <1>2, <1>3, <1>4, <1>7 DEF g, m, buf

(* The two halves of what _pbcV_decode puts together: of the first four    *)
(* bytes, and of the others, 28 places further down.                       *)
LowPart(buf, m) == UNION {Shl(buf[k] \ {7}, 7 * (k - 1)) : k \in 1..(IF m < 4 THEN m ELSE 4)}
HighPart(buf, m) == (UNION {ShiftInt(buf[k] \ {7}, 7 * (k - 5)) : k \in 5..m}) \cap 0..35

(* The first four bytes bring back the bits below 28. *)
LEMMA LowBits ==
  ASSUME NEW n \in Number64, NEW m, m = LastGroup(n) + 1, NEW buf, \A k \in 1..m : buf[k] = Groups(n)[k]
  PROVE  LowPart(buf, m) = n \cap 0..27
<1> DEFINE top == IF m < 4 THEN m ELSE 4
           part(k) == Shl(buf[k] \ {7}, 7 * (k - 1))
<1>1. /\ m \in 1..10 /\ n \in SUBSET Nat /\ top \in 1..4 /\ top <= m
      /\ \A k \in 1..m : buf[k] \in SUBSET Int
      /\ \A k \in 1..m : \A c \in Int : c \in buf[k] \ {7} <=> c \in 0..6 /\ c + 7 * (k - 1) \in n
  <2>1. /\ m \in 1..10
        /\ \A k \in 1..m : \A c \in Int : c \in buf[k] \ {7} <=> c \in 0..6 /\ c + 7 * (k - 1) \in n
    BY GroupsBits
  <2>2. \A k \in 1..m : buf[k] \in SUBSET Int
    <3>1. Groups(n) \in Seq(Byte) /\ Len(Groups(n)) = m
      BY GroupsBits
    <3>2. \A k \in 1..m : Groups(n)[k] \in Byte
      BY <2>1, <3>1
    <3>3. QED
      BY <3>2 DEF Byte
  <2>3. n \in SUBSET Nat /\ top \in 1..4 /\ top <= m
    BY <2>1 DEF Number64
  <2>4. QED
    BY <2>1, <2>2, <2>3
<1>2. ASSUME NEW k \in 1..m, NEW b \in Int
      PROVE  b \in part(k) <=> b - 7 * (k - 1) \in 0..6 /\ b \in n
  <2>1. k \in Int /\ 7 * (k - 1) \in Int /\ b - 7 * (k - 1) \in Int
    BY <1>1
  <2>2. (b - 7 * (k - 1)) + 7 * (k - 1) = b
    BY <2>1
  <2>3. buf[k] \ {7} \in SUBSET Int
    BY <1>1
  <2>4. b \in part(k) <=> b - 7 * (k - 1) \in buf[k] \ {7}
    BY <2>1, <2>3, InShl
  <2>5. QED
    BY <1>1, <2>1, <2>2, <2>4
<1>3. \A k \in 1..m : part(k) \in SUBSET Int
  <2> SUFFICES ASSUME NEW k \in 1..m PROVE part(k) \in SUBSET Int
    OBVIOUS
  <2>1. buf[k] \in SUBSET Int /\ 7 * (k - 1) \in Int
    BY <1>1
  <2>2. QED
    BY <2>1 DEF Shl
<1> HIDE DEF part, top
<1>4. ASSUME NEW k \in 1..top, NEW b \in part(k) PROVE b \in n \cap 0..27
  <2>1. k \in 1..m /\ k \in 1..4 /\ b \in Int
    BY <1>1, <1>3
  <2>2. b - 7 * (k - 1) \in 0..6 /\ b \in n
    BY <1>2, <2>1
  <2>3. QED
    BY <2>1, <2>2
<1>5. ASSUME NEW b \in n \cap 0..27 PROVE \E k \in 1..top : b \in part(k)
  <2> DEFINE k == (b \div 7) + 1
  <2>1. k \in 1..4 /\ b - 7 * (k - 1) \in 0..6
    BY SMT
  <2>2. b \div 7 <= m - 1
    BY <1>1, GroupCount
  <2>3. k \in 1..top /\ k \in 1..m
    BY <1>1, <2>1, <2>2 DEF top
  <2>4. QED
    BY <1>2, <2>1, <2>3
<1>6. UNION {part(k) : k \in 1..top} = n \cap 0..27
  BY <1>4, <1>5
<1>7. LowPart(buf, m) = UNION {part(k) : k \in 1..top}
  BY DEF LowPart, part, top
<1>8. QED
  BY <1>6, <1>7

(* A byte from the fifth on, shifted as a 32-bit int: the ninth one's bits *)
(* reach the sign and are extended, the tenth one's wrap around or vanish. *)
LEMMA ShiftedBits ==
  ASSUME NEW n \in Number64, NEW k \in 5..10, NEW g \in SUBSET (0..6),
         \A c \in Int : c \in g <=> c \in 0..6 /\ c + 7 * (k - 1) \in n,
         NEW c \in Int
  PROVE  c \in ShiftInt(g, 7 * (k - 5))
           <=> \/ /\ c \in 0..31 /\ k < 10
                  /\ c - 7 * (k - 5) \in 0..6 /\ c + 28 \in n
               \/ c \in 32..63 /\ k = 9 /\ 59 \in n
               \/ c = 3 /\ k = 10 /\ shift35 = "masked" /\ 63 \in n
<1> DEFINE s == 7 * (k - 5)
<1>1. s \in Nat /\ g \in SUBSET Int
  OBVIOUS
<1>2. CASE k < 10
  <2>1. s < 32 /\ s <= 28 /\ (s >= 25 <=> k = 9) /\ k \in Int
    BY <1>2
  <2>2. \A d \in Int : d \in Shl(g, s) <=> d - s \in 0..6 /\ d + 28 \in n
    <3> SUFFICES ASSUME NEW d \in Int PROVE d \in Shl(g, s) <=> d - s \in 0..6 /\ d + 28 \in n
      OBVIOUS
    <3>1. d \in Shl(g, s) <=> d - s \in g
      BY <1>1, InShl
    <3>2. d - s \in Int /\ (d - s) + 7 * (k - 1) = d + 28
      BY <2>1
    <3>3. QED
      BY <3>1, <3>2
  <2>3. ShiftInt(g, s) = (Shl(g, s) \cap 0..31) \cup (IF 31 \in Shl(g, s) THEN 32..63 ELSE {})
    BY <1>1, <2>1 DEF ShiftInt, Low
  <2>4. 31 \in Shl(g, s) <=> k = 9 /\ 59 \in n
    <3>1. 31 \in Shl(g, s) <=> 31 - s \in 0..6 /\ 59 \in n
      <4>1. 31 \in Int /\ 31 + 28 = 59
        OBVIOUS
      <4>2. QED
        BY <2>2, <4>1
    <3>2. 31 - s \in 0..6 <=> k = 9
      BY <1>1, <2>1
    <3>3. QED
      BY <3>1, <3>2
  <2> HIDE DEF s
  <2>5. c \in ShiftInt(g, s) <=>
          \/ c \in 0..31 /\ c - s \in 0..6 /\ c + 28 \in n
          \/ c \in 32..63 /\ k = 9 /\ 59 \in n
    BY <2>2, <2>3, <2>4
  <2>6. QED
    BY <1>2, <2>1, <2>5 DEF s
<1>3. CASE k = 10
  <2>1. s = 35
    BY <1>3
  <2>2. ShiftInt(g, s) = IF shift35 = "masked" THEN Shl(g, 3) ELSE {}
    BY <2>1 DEF ShiftInt
  <2>3. c \in Shl(g, 3) <=> c = 3 /\ 63 \in n
    <3>1. c \in Shl(g, 3) <=> c - 3 \in g
      BY <1>1, InShl
    <3>2. c - 3 \in Int /\ (c - 3) + 7 * (k - 1) = c + 60
      BY <1>3
    <3>3. c - 3 \in g <=> c - 3 \in 0..6 /\ c + 60 \in n
      BY <3>2
    <3>4. c + 60 \in n => c + 60 <= 63
      BY DEF Number64
    <3>5. c - 3 \in 0..6 /\ c + 60 <= 63 => c = 3
      OBVIOUS
    <3>6. c = 3 => c - 3 \in 0..6 /\ c + 60 = 63
      OBVIOUS
    <3>7. QED
      BY <3>1, <3>3, <3>4, <3>5, <3>6
  <2>4. ~(k < 10) /\ k # 9
    BY <1>3
  <2> HIDE DEF s
  <2>5. c \in ShiftInt(g, s) <=> c = 3 /\ shift35 = "masked" /\ 63 \in n
    BY <2>2, <2>3
  <2>6. QED
    BY <1>3, <2>4, <2>5 DEF s
<1>4. QED
  BY <1>2, <1>3

(* What the bytes from the fifth on bring back, 28 places further down. *)
LEMMA HighBits ==
  ASSUME NEW n \in Number64, NEW m, m = LastGroup(n) + 1, NEW buf,
         \A k \in 1..m : buf[k] = Groups(n)[k], NEW c \in Int
  PROVE  c \in HighPart(buf, m)
           <=> \/ c \in 0..31 /\ c + 28 \in n
               \/ c \in 32..35 /\ 59 \in n
               \/ c = 3 /\ shift35 = "masked" /\ 63 \in n
<1> DEFINE part(k) == ShiftInt(buf[k] \ {7}, 7 * (k - 5))
<1>1. /\ m \in 1..10
      /\ \A k \in 1..m : \A d \in Int : d \in Groups(n)[k] \ {7} <=> d \in 0..6 /\ d + 7 * (k - 1) \in n
  BY GroupsBits
<1>2. \A k \in 1..m : Groups(n)[k] \ {7} \in SUBSET (0..6)
  <2>1. Groups(n) \in Seq(Byte) /\ Len(Groups(n)) = m
    BY GroupsBits
  <2>2. \A k \in 1..m : Groups(n)[k] \in Byte
    BY <1>1, <2>1
  <2>3. \A B \in Byte : B \ {7} \in SUBSET (0..6)
    BY DEF Byte
  <2>4. QED
    BY <2>2, <2>3
<1>3. ASSUME NEW k \in 5..m
      PROVE  c \in part(k)
               <=> \/ /\ c \in 0..31 /\ k < 10
                      /\ c - 7 * (k - 5) \in 0..6 /\ c + 28 \in n
                   \/ c \in 32..63 /\ k = 9 /\ 59 \in n
                   \/ c = 3 /\ k = 10 /\ shift35 = "masked" /\ 63 \in n
  <2> DEFINE g == buf[k] \ {7}
  <2>1. k \in 1..m /\ k \in 5..10
    BY <1>1
  <2>2. g \in SUBSET (0..6) /\ \A d \in Int : d \in g <=> d \in 0..6 /\ d + 7 * (k - 1) \in n
    BY <1>1, <1>2, <2>1
  <2> HIDE DEF g
  <2>3. c \in ShiftInt(g, 7 * (k - 5))
           <=> \/ /\ c \in 0..31 /\ k < 10
                  /\ c - 7 * (k - 5) \in 0..6 /\ c + 28 \in n
               \/ c \in 32..63 /\ k = 9 /\ 59 \in n
               \/ c = 3 /\ k = 10 /\ shift35 = "masked" /\ 63 \in n
    BY <2>1, <2>2, ShiftedBits
  <2>4. QED
    BY <2>3 DEF g
<1> DEFINE In == \E k \in 5..m : c \in part(k)
<1>4. c \in HighPart(buf, m) <=> In /\ c \in 0..35
  <2>1. c \in UNION {part(k) : k \in 5..m} <=> In
    OBVIOUS
  <2>2. HighPart(buf, m) = (UNION {part(k) : k \in 5..m}) \cap 0..35
    BY Zenon DEF HighPart
  <2> HIDE DEF part, In
  <2>3. QED
    BY <2>1, <2>2, Zenon
<1> HIDE DEF part
<1>5. \A b \in n : b \in 0..63 /\ b \div 7 <= m - 1
  BY <1>1, GroupCount DEF Number64
<1>6. ASSUME c \in 0..31, c + 28 \in n PROVE In
  <2> DEFINE k == (c \div 7) + 5
  <2>1. k \in 5..9 /\ c - 7 * (k - 5) \in 0..6 /\ (c + 28) \div 7 = k - 1
    BY <1>6, SMT
  <2>2. k <= m
    BY <1>1, <1>5, <1>6, <2>1
  <2> HIDE DEF k
  <2>3. k \in 5..m /\ k < 10
    BY <1>1, <2>1, <2>2
  <2>4. c \in part(k)
    BY <1>3, <1>6, <2>1, <2>3
  <2>5. QED
    BY <2>3, <2>4
<1>7. ASSUME c \in 32..35, 59 \in n PROVE In
  <2>1. 59 \div 7 = 8
    BY SMT
  <2>2. 9 \in 5..m
    BY <1>1, <1>5, <1>7, <2>1
  <2>3. c \in part(9)
    BY <1>3, <1>7, <2>2
  <2>4. QED
    BY <2>2, <2>3
<1>8. ASSUME c = 3, shift35 = "masked", 63 \in n PROVE In
  <2>1. 63 \div 7 = 9
    BY SMT
  <2>2. 10 \in 5..m
    BY <1>1, <1>5, <1>8, <2>1
  <2>3. c \in part(10)
    BY <1>3, <1>8, <2>2
  <2>4. QED
    BY <2>2, <2>3
<1>9. ASSUME In, c \in 0..35
      PROVE  \/ c \in 0..31 /\ c + 28 \in n
             \/ c \in 32..35 /\ 59 \in n
             \/ c = 3 /\ shift35 = "masked" /\ 63 \in n
  <2>1. c \in 32..63 => c \in 32..35
    BY <1>9
  <2>2. QED
    BY <1>3, <1>9, <2>1
<1>10. c \in 0..31 \/ c \in 32..35 \/ c = 3 => c \in 0..35
  OBVIOUS
<1> HIDE DEF In
<1>11. QED
  BY <1>4, <1>6, <1>7, <1>8, <1>9, <1>10, Zenon

(* The numbers that _pbcV_decode brings back: bits 59 to 63 are all alike, *)
(* and where the compiler makes of a shift by 35 one by 3, bit 31 of a     *)
(* number with its highest bit set is set too.                             *)
Survives(n) ==
  /\ n \cap 59..63 \in {{}, 59..63}
  /\ shift35 = "masked" /\ 63 \in n => 31 \in n

LEMMA UpperPlaces == \A h \in 0..35 : h + 28 \in 28..63
OBVIOUS

(* What the shifts make of the bits from 28 on, 28 places further down. *)
UpperHalf(n, H) ==
  \A c \in Int :
    c \in H <=> \/ c \in 0..31 /\ c + 28 \in n
                \/ c \in 32..35 /\ 59 \in n
                \/ c = 3 /\ shift35 = "masked" /\ 63 \in n

(* The two halves make the number again if and only if it is one of those. *)
LEMMA HalvesMakeNumber ==
  ASSUME NEW n \in Number64, NEW L, L = n \cap 0..27, NEW H \in SUBSET (0..35), UpperHalf(n, H)
  PROVE  L \cup Shl(H, 28) = n <=> Survives(n)
<1>1. \A b \in Int : b \in Shl(H, 28) <=> b - 28 \in H
  <2>1. H \in SUBSET Int
    OBVIOUS
  <2>2. QED
    BY <2>1, InShl
<1>2. \A b \in Shl(H, 28) : b \in 28..63
  <2>1. ASSUME NEW h \in H PROVE h + 28 \in 28..63
    <3>1. h \in 0..35
      OBVIOUS
    <3>2. QED
      BY <3>1, UpperPlaces, Zenon
  <2>2. QED
    BY <2>1 DEF Shl
<1>3. n \in SUBSET (0..63)
  BY DEF Number64
<1>4. ASSUME Survives(n) PROVE L \cup Shl(H, 28) = n
  <2>1. ASSUME NEW b \in 28..63 PROVE b - 28 \in H <=> b \in n
    <3> DEFINE c == b - 28
    <3>1. c \in 0..35 /\ c \in Int /\ c + 28 = b /\ (c = 3 <=> b = 31) /\ (c \in 32..35 <=> b \in 60..63)
          /\ (c \in 0..31 <=> b \in 28..59)
      OBVIOUS
    <3>2. b \in 60..63 => (59 \in n <=> b \in n)
      BY <1>4 DEF Survives
    <3>3. shift35 = "masked" /\ 63 \in n => 31 \in n
      BY <1>4 DEF Survives
    <3>4. b \in 28..59 \/ b \in 60..63
      OBVIOUS
    <3>5. 31 \in 28..59 /\ ~(31 \in 60..63)
      OBVIOUS
    <3> HIDE DEF c
    <3>6. c \in H <=> \/ b \in 28..59 /\ b \in n
                      \/ b \in 60..63 /\ 59 \in n
                      \/ b = 31 /\ shift35 = "masked" /\ 63 \in n
      BY <3>1 DEF UpperHalf
    <3>7. c \in H <=> b \in n
      BY <3>2, <3>3, <3>4, <3>5, <3>6
    <3>8. QED
      BY <3>7 DEF c
  <2>2. ASSUME NEW b \in 28..63 PROVE b \in Shl(H, 28) <=> b \in n
    <3>1. b \in Int
      OBVIOUS
    <3>2. QED
      BY <1>1, <2>1, <3>1
  <2>3. ASSUME NEW b \in n PROVE b \in 0..27 \/ b \in 28..63
    <3>1. b \in 0..63
      BY <1>3
    <3>2. QED
      BY <3>1
  <2>4. QED
    BY <1>2, <2>2, <2>3
<1>5. ASSUME L \cup Shl(H, 28) = n PROVE Survives(n)
  <2>1. \A b \in 28..63 : b \in n <=> b - 28 \in H
    <3> SUFFICES ASSUME NEW b \in 28..63 PROVE b \in n <=> b - 28 \in H
      OBVIOUS
    <3>1. b \in Int /\ b >= 28
      OBVIOUS
    <3>2. b \notin L
      BY <3>1
    <3>3. b \in Shl(H, 28) <=> b - 28 \in H
      BY <1>1, <3>1
    <3>4. QED
      BY <1>5, <3>2, <3>3
  <2>2. \A b \in 60..63 : b \in n <=> 59 \in n
    <3> SUFFICES ASSUME NEW b \in 60..63 PROVE b \in n <=> 59 \in n
      OBVIOUS
    <3>1. b \in 28..63 /\ b - 28 \in 32..35 /\ ~(b - 28 \in 0..31) /\ b - 28 # 3 /\ b - 28 \in Int
      OBVIOUS
    <3>2. QED
      BY <2>1, <3>1 DEF UpperHalf
  <2>3. shift35 = "masked" /\ 63 \in n => 31 \in n
    <3>1. 31 \in 28..63 /\ 31 - 28 = 3 /\ 3 \in Int
      OBVIOUS
    <3>2. 31 \in n <=> 3 \in H
      BY <2>1, <3>1
    <3>3. shift35 = "masked" /\ 63 \in n => 3 \in H
      BY <3>1 DEF UpperHalf
    <3>4. QED
      BY <3>2, <3>3
  <2>4. \A b \in 59..63 : b = 59 \/ b \in 60..63
    OBVIOUS
  <2>5. \A b \in 59..63 : b \in n <=> 59 \in n
    BY <2>2, <2>4
  <2>6. n \cap 59..63 \in {{}, 59..63}
    <3>1. CASE 59 \in n
      BY <2>5, <3>1
    <3>2. CASE 59 \notin n
      BY <2>5, <3>2
    <3>3. QED
      BY <3>1, <3>2
  <2>7. QED
    BY <2>3, <2>6 DEF Survives
<1>6. QED
  BY <1>4, <1>5

LEMMA DecodesGroups ==
  ASSUME NEW n \in Number64, NEW m, m = LastGroup(n) + 1, NEW buf \in Seq(Byte),
         Len(buf) >= m, VarintLength(buf) = m, \A k \in 1..m : buf[k] = Groups(n)[k]
  PROVE  Decode(buf).len = m /\ (Decode(buf).num = n <=> Survives(n))
<1> DEFINE L == LowPart(buf, m)
           H == HighPart(buf, m)
<1>1. m \in 1..10 /\ 7 \notin buf[m]
  <2>1. m \in 1..10 /\ (7 \in Groups(n)[m] <=> m < m)
    BY GroupsBits
  <2>2. QED
    BY <2>1
<1>2. ~(m > Len(buf) \/ 7 \in buf[m])
  BY <1>1
<1>3. Decode(buf) = Varint(buf, m)
  BY DEF Decode
<1>4. Decode(buf).len = m /\ Decode(buf).num = L \cup Shl(H, 28)
  <2>1. Decode(buf) = [len |-> m, num |-> IF m > Len(buf) \/ 7 \in buf[m] THEN {} ELSE L \cup Shl(H, 28)]
    BY <1>3, Zenon DEF Varint, LowPart, HighPart
  <2> HIDE DEF L, H
  <2>2. QED
    BY <1>2, <2>1
<1>5. L = n \cap 0..27
  BY LowBits
<1>6. UpperHalf(n, H)
  BY HighBits DEF UpperHalf
<1>7. H \in SUBSET (0..35)
  BY Zenon DEF HighPart
<1> HIDE DEF L, H
<1>8. L \cup Shl(H, 28) = n <=> Survives(n)
  BY <1>5, <1>6, <1>7, HalvesMakeNumber, Zenon
<1>9. QED
  BY <1>4, <1>8

(* What is decoded of what was encoded, whatever lies behind it: its length*)
(* always, and the number exactly if it survives the shifts.               *)
THEOREM VarintRoundTrip ==
  ASSUME NEW n \in Number64, NEW rest \in Seq(Byte)
  PROVE  LET d == Decode(Encode(n) \o rest)
         IN  d.len = Len(Encode(n)) /\ (d.num = n <=> Survives(n))
<1>1. PICK m : m = LastGroup(n) + 1
  OBVIOUS
<1>2. PICK buf : buf = Groups(n) \o rest
  OBVIOUS
<1>3. Encode(n) = Groups(n) /\ Len(Groups(n)) = m
  BY <1>1, EncodeIsGroups, GroupsBits
<1>4. /\ buf \in Seq(Byte) /\ Len(buf) >= m /\ VarintLength(buf) = m
      /\ \A k \in 1..m : buf[k] = Groups(n)[k]
  BY <1>1, <1>2, LengthFound
<1>5. Decode(buf).len = m /\ (Decode(buf).num = n <=> Survives(n))
  BY <1>1, <1>4, DecodesGroups
<1>6. QED
  BY <1>2, <1>3, <1>5

(* What _pbcV_encode32 wrote, of a number of any size, comes back as its   *)
(* lower 32 bits: no shift of the decoder harms those.                     *)
THEOREM ThirtyTwoBits ==
  ASSUME NEW n \in Number64, NEW rest \in Seq(Byte)
  PROVE  LET d == Decode(Encode32(n) \o rest)
         IN  d.len = Len(Encode32(n)) /\ d.num = Low(n)
<1>1. Low(n) \in Number64
  BY EncodeIsGroups
<1>2. Encode32(n) = Encode(Low(n))
  BY <1>1, EncodeIsGroups
<1>3. Survives(Low(n))
  <2>1. \A b \in Low(n) : b \in 0..31
    BY DEF Low
  <2>2. \A b \in 59..63 : b \notin 0..31
    OBVIOUS
  <2>3. 63 \notin 0..31
    OBVIOUS
  <2>4. Low(n) \cap 59..63 = {} /\ 63 \notin Low(n)
    BY <2>1, <2>2, <2>3, Zenon
  <2>5. QED
    BY <2>4, Zenon DEF Survives
<1>4. QED
  BY <1>1, <1>2, <1>3, VarintRoundTrip

----------------------------------------------------------------------------
(* Zigzag *)

(* The numbers _pbcV_zigzag and _pbcV_zigzag32 hand to the encoders. *)
Zigzagged(n) == Xor(Shl(n, 1) \cap 0..63, AllIf(63 \in n, 64))
Zigzagged32(n) == Xor(Shl(Low(n), 1) \cap 0..31, AllIf(31 \in n, 32))

Folded(n, top, w) == Xor(Shl(n, 1) \cap 0..top, AllIf(top \in n, w))
Unfolded(z, w) == Xor(Shr(z, 1), AllIf(0 \in z, w))

(* Both are this on w bits, and so is their inverse: the number moves up,  *)
(* its sign comes last, and the bits of a negative one are turned over.    *)
LEMMA ZigzagBits ==
  ASSUME NEW top \in Nat, NEW w, w = top + 1, NEW n \in SUBSET (0..top)
  PROVE  /\ Folded(n, top, w) \in SUBSET (0..top)
         /\ \A b \in 1..top : b \in Folded(n, top, w) <=> ~(b - 1 \in n <=> top \in n)
         /\ Unfolded(Folded(n, top, w), w) = n
<1> DEFINE z == Folded(n, top, w)
           neg == top \in n
<1>1. w - 1 = top
  OBVIOUS
<1>2. z = Xor(Shl(n, 1) \cap 0..top, IF neg THEN 0..top ELSE {})
  BY <1>1 DEF Folded, AllIf
<1>3. Unfolded(z, w) = Xor(Shr(z, 1), IF 0 \in z THEN 0..top ELSE {})
  BY <1>1 DEF Unfolded, AllIf
<1> HIDE DEF z
<1>4. n \in SUBSET Int /\ z \in SUBSET (0..top) /\ z \in SUBSET Nat
  <2>1. n \in SUBSET Int
    OBVIOUS
  <2>2. z \in SUBSET (0..top)
    BY <1>2 DEF Xor
  <2>3. \A b \in 0..top : b \in Nat
    OBVIOUS
  <2>4. QED
    BY <2>1, <2>2, <2>3
<1>5. ASSUME NEW b \in 0..top PROVE b \in z <=> ~(b - 1 \in n <=> neg)
  <2>1. b \in Int
    OBVIOUS
  <2>2. b \in Shl(n, 1) <=> b - 1 \in n
    BY <1>4, <2>1, InShl
  <2>3. QED
    BY <1>2, <2>2 DEF Xor
<1>6. 0 \in z <=> neg
  <2>1. 0 \in 0..top /\ 0 - 1 \notin n
    OBVIOUS
  <2>2. QED
    BY <1>5, <2>1
<1>7. ASSUME NEW b \in 0..top PROVE ~(b \in Shr(z, 1) <=> neg) <=> b \in n
  <2>1. b \in Int /\ b \in Nat
    OBVIOUS
  <2>2. b \in Shr(z, 1) <=> b + 1 \in z
    BY <1>4, <2>1, InShr
  <2>3. CASE b = top
    <3>1. b + 1 \notin 0..top
      BY <2>3
    <3>2. QED
      BY <1>4, <2>2, <2>3, <3>1
  <2>4. CASE b # top
    <3>1. b + 1 \in 0..top /\ (b + 1) - 1 = b
      BY <2>4
    <3>2. b + 1 \in z <=> ~(b \in n <=> neg)
      BY <1>5, <3>1
    <3>3. QED
      BY <2>2, <3>2
  <2>5. QED
    BY <2>3, <2>4
<1>8. Shr(z, 1) \in SUBSET (0..top)
  <2> SUFFICES ASSUME NEW b \in Shr(z, 1) PROVE b \in 0..top
    OBVIOUS
  <2>1. b \in Nat
    BY <1>4, ShiftTypes
  <2>2. b + 1 \in z
    <3>1. b \in Int /\ 1 \in Nat
      BY <2>1
    <3>2. QED
      BY <1>4, <3>1, InShr
  <2>3. b + 1 \in 0..top
    BY <1>4, <2>2
  <2>4. QED
    BY <2>1, <2>3
<1> HIDE DEF neg
<1>9. \A b \in 0..top : b \in Unfolded(z, w) <=> b \in n
  BY <1>3, <1>6, <1>7 DEF Xor
<1>10. \A b \in Unfolded(z, w) : b \in 0..top
  BY <1>3, <1>8 DEF Xor
<1>11. Unfolded(z, w) = n
  BY <1>9, <1>10
<1>12. \A b \in 1..top : b \in z <=> ~(b - 1 \in n <=> neg)
  <2> SUFFICES ASSUME NEW b \in 1..top PROVE b \in z <=> ~(b - 1 \in n <=> neg)
    OBVIOUS
  <2>1. b \in 0..top
    OBVIOUS
  <2>2. QED
    BY <1>5, <2>1
<1>13. QED
  BY <1>4, <1>11, <1>12 DEF z, neg

(* _pbcV_dezigzag64 undoes _pbcV_zigzag for every number, and what a       *)
(* sint64 field wrote is read back whenever the varint decoder brings back *)
(* its zigzag form.                                                        *)
THEOREM ZigzagRoundTrip ==
  ASSUME NEW n \in Number64, NEW rest \in Seq(Byte)
  PROVE  /\ Dezigzag64(Zigzagged(n)) = n
         /\ LET d == Decode(Zigzag(n) \o rest)
            IN  d.len = Len(Zigzag(n)) /\ (Survives(Zigzagged(n)) => Dezigzag64(d.num) = n)
<1>1. Zigzagged(n) \in SUBSET (0..63) /\ Xor(Shr(Zigzagged(n), 1), AllIf(0 \in Zigzagged(n), 64)) = n
  <2>1. PICK top \in Nat, w \in Nat : top = 63 /\ w = 64
    OBVIOUS
  <2>2. n \in SUBSET (0..top) /\ w = top + 1
    BY <2>1 DEF Number64
  <2>3. Folded(n, top, w) \in SUBSET (0..top) /\ Unfolded(Folded(n, top, w), w) = n
    BY <2>2, ZigzagBits
  <2>4. Zigzagged(n) = Folded(n, top, w)
    BY <2>1 DEF Zigzagged, Folded
  <2>5. Unfolded(Zigzagged(n), 64) = n /\ Zigzagged(n) \in SUBSET (0..63)
    BY <2>1, <2>3, <2>4
  <2>6. QED
    BY <2>5 DEF Unfolded
<1>2. Dezigzag64(Zigzagged(n)) = n
  BY <1>1 DEF Dezigzag64
<1>3. Zigzag(n) = Encode(Zigzagged(n)) /\ Zigzagged(n) \in Number64
  BY <1>1 DEF Zigzag, Zigzagged, Number64
<1>4. QED
  BY <1>2, <1>3, VarintRoundTrip

(* What a sint32 field wrote of a number is read back in its lower 32      *)
(* bits.  The upper half _pbcV_dezigzag32 fills with the sign of the       *)
(* zigzag form: it is set if the two highest bits of the number differ,    *)
(* whether or not that is negative.                                        *)
THEOREM Zigzag32RoundTrip ==
  ASSUME NEW n \in Number64, NEW rest \in Seq(Byte)
  PROVE  LET d == Decode(Zigzag32(n) \o rest)
         IN  /\ d.len = Len(Zigzag32(n))
             /\ Low(Dezigzag32(d.num)) = Low(n)
             /\ Hi(Dezigzag32(d.num)) = IF 30 \in n <=> 31 \in n THEN {} ELSE 32..63
<1> DEFINE z == Zigzagged32(n)
<1>1. Low(n) \in SUBSET (0..31) /\ (31 \in Low(n) <=> 31 \in n) /\ (30 \in Low(n) <=> 30 \in n)
  BY DEF Low
<1>2. z = Folded(Low(n), 31, 32)
  BY <1>1 DEF Zigzagged32, Folded
<1>3. /\ z \in SUBSET (0..31) /\ Unfolded(z, 32) = Low(n)
      /\ 31 \in z <=> ~(30 \in n <=> 31 \in n)
  <2>1. PICK top \in Nat, w \in Nat : top = 31 /\ w = 32
    OBVIOUS
  <2>2. Low(n) \in SUBSET (0..top) /\ w = top + 1
    BY <1>1, <2>1
  <2> DEFINE f == Folded(Low(n), top, w)
  <2>3. /\ f \in SUBSET (0..top) /\ Unfolded(f, w) = Low(n)
        /\ \A b \in 1..top : b \in f <=> ~(b - 1 \in Low(n) <=> top \in Low(n))
    BY <2>2, ZigzagBits
  <2> HIDE DEF f
  <2>4. 31 \in 1..top /\ 31 - 1 = 30
    BY <2>1
  <2>5. 31 \in f <=> ~(30 \in n <=> 31 \in n)
    BY <1>1, <2>1, <2>3, <2>4
  <2>6. z = f
    BY <1>2, <2>1 DEF f
  <2> HIDE DEF z
  <2>7. QED
    BY <2>1, <2>3, <2>5, <2>6
<1> HIDE DEF z
<1>4. Zigzag32(n) = Encode32(z)
  BY DEF Zigzag32, Zigzagged32, z
<1>5. Low(z) = z /\ z \in Number64
  <2>1. \A b \in 0..31 : b \in 0..63
    OBVIOUS
  <2>2. QED
    BY <1>3, <2>1 DEF Low, Number64
<1>6. LET d == Decode(Zigzag32(n) \o rest) IN d.len = Len(Zigzag32(n)) /\ d.num = z
  BY <1>4, <1>5, ThirtyTwoBits
<1>7. Low(z) = z
  BY <1>5
<1>8. Dezigzag32(z) = Low(n) \cup (IF 31 \in z THEN 32..63 ELSE {})
  BY <1>3, <1>7 DEF Dezigzag32, Unfolded
<1>9. \A b \in 32..63 : b \notin 0..31
  OBVIOUS
<1>10. /\ Low(Dezigzag32(z)) = Low(n)
       /\ Hi(Dezigzag32(z)) = IF 31 \in z THEN 32..63 ELSE {}
  BY <1>1, <1>8, <1>9 DEF Low, Hi
<1>11. QED
  BY <1>3, <1>6, <1>10

----------------------------------------------------------------------------
(* Arrays, and memory that is doubled until there is room. *)

(* Doubling until there is room. *)
Doubled == INSTANCE Recursion WITH
  Def <- LAMBDA need, x, f : IF need <= x THEN x ELSE f[2 * x],
  Measure <- LAMBDA need, x : IF need <= x THEN 0 ELSE need - x,
  Op <- LAMBDA c, d, e, acc, v : acc, Inv <- LAMBDA c, d, e, base, i, acc : TRUE

(* DoubledTo is what its recursion says: it doubles once more, or is done. *)
LEMMA DoubleOnce ==
  ASSUME NEW need \in Nat, NEW c \in Nat \ {0}
  PROVE  DoubledTo(c, need) = IF need <= c THEN c ELSE DoubledTo(2 * c, need)
<1> DEFINE S == Nat \ {0}
<1>1. Doubled!WellFounded(need, S)
  <2>1. \A x \in S : ~(need <= x) => 2 * x \in S /\ (IF need <= 2 * x THEN 0 ELSE need - 2 * x) < need - x
    OBVIOUS
  <2>2. \A x \in S : (IF need <= x THEN 0 ELSE need - x) \in Nat
    OBVIOUS
  <2> QED BY <2>1, <2>2, SMT DEF Doubled!WellFounded
<1>2. Doubled!Rec(need, S) = [x \in S |-> IF need <= x THEN x ELSE Doubled!Rec(need, S)[2 * x]]
  BY <1>1, Doubled!RecursiveFunction
<1>3. \A x : DoubledTo(x, need) = Doubled!Rec(need, S)[x]
  BY DEF DoubledTo, Doubled!Rec
<1>4. 2 * c \in S
  OBVIOUS
<1> HIDE DEF Doubled!Rec
<1> QED BY <1>2, <1>3, <1>4, Zenon

(* What doubling reaches from a base, doubled, doubling reaches too. *)
LEMMA DoublesOn ==
  ASSUME NEW base \in Nat \ {0}, NEW c \in Nat \ {0}, DoubledTo(base, c) = c
  PROVE  DoubledTo(base, 2 * c) = 2 * c
<1> DEFINE S == Nat \ {0}
           m == [x \in S |-> IF c <= x THEN 0 ELSE c - x]
           T == {x \in S : DoubledTo(x, c) = c => DoubledTo(x, 2 * c) = 2 * c}
<1>1. ASSUME NEW x \in S, \A y \in S : m[y] < m[x] => y \in T, DoubledTo(x, c) = c
      PROVE  DoubledTo(x, 2 * c) = 2 * c
  <2>0. 2 * c \in Nat /\ 2 * x \in S /\ 2 * c \in S
    OBVIOUS
  <2>1. CASE c <= x
    <3>1. x = c
      BY <1>1, <2>1, DoubleOnce
    <3>2. DoubledTo(c, 2 * c) = DoubledTo(2 * c, 2 * c)
      <4>1. ~(2 * c <= c)
        OBVIOUS
      <4> QED BY <2>0, <4>1, DoubleOnce
    <3>3. DoubledTo(2 * c, 2 * c) = 2 * c
      <4>1. 2 * c <= 2 * c
        OBVIOUS
      <4> QED BY <2>0, <4>1, DoubleOnce
    <3> QED BY <3>1, <3>2, <3>3
  <2>2. CASE ~(c <= x)
    <3>1. DoubledTo(2 * x, c) = c
      BY <1>1, <2>2, DoubleOnce
    <3>2. ~(2 * c <= x)
      BY <2>2
    <3>3. DoubledTo(x, 2 * c) = DoubledTo(2 * x, 2 * c)
      BY <2>0, <3>2, DoubleOnce
    <3>4. m[2 * x] < m[x]
      BY <2>2
    <3> QED BY <1>1, <2>0, <3>1, <3>3, <3>4
  <2> QED BY <2>1, <2>2
<1>2. m \in [S -> Nat]
  OBVIOUS
<1>3. S \subseteq T
  <2>1. \A x \in S : (\A y \in S : m[y] < m[x] => y \in T) => x \in T
    BY <1>1
  <2> HIDE DEF S, m, T
  <2> QED BY <1>2, <2>1, Doubled!MeasureInduction
<1> QED BY <1>3

(* From c, a doubled base, doubling reaches need, and a doubled base.      *)
Enough(base, need, c) ==
  LET e == DoubledTo(c, need)
  IN  e \in Nat /\ e >= need /\ e >= c /\ DoubledTo(base, e) = e

(* Doubling a capacity, itself a doubled base, gives room for what is      *)
(* needed.                                                                 *)
LEMMA DoublesEnough ==
  ASSUME NEW need \in Nat, NEW base \in Nat \ {0}, NEW c \in Nat \ {0}, DoubledTo(base, c) = c
  PROVE  Enough(base, need, c)
<1> DEFINE S == Nat \ {0}
           m == [x \in S |-> IF need <= x THEN 0 ELSE need - x]
           T == {x \in S : DoubledTo(base, x) = x => Enough(base, need, x)}
<1>1. ASSUME NEW x \in S, \A y \in S : m[y] < m[x] => y \in T, DoubledTo(base, x) = x
      PROVE  Enough(base, need, x)
  <2>1. CASE need <= x
    <3>1. DoubledTo(x, need) = x
      BY <2>1, DoubleOnce
    <3> QED BY <1>1, <2>1, <3>1 DEF Enough
  <2>2. CASE ~(need <= x)
    <3>1. DoubledTo(x, need) = DoubledTo(2 * x, need)
      BY <2>2, DoubleOnce
    <3>2. DoubledTo(base, 2 * x) = 2 * x
      BY <1>1, DoublesOn
    <3>3. 2 * x \in S /\ m[2 * x] < m[x]
      BY <2>2
    <3>4. Enough(base, need, 2 * x)
      BY <1>1, <3>2, <3>3
    <3> QED BY <3>1, <3>4 DEF Enough
  <2> QED BY <2>1, <2>2
<1>2. m \in [S -> Nat]
  OBVIOUS
<1>3. S \subseteq T
  <2>1. \A x \in S : (\A y \in S : m[y] < m[x] => y \in T) => x \in T
    BY <1>1
  <2> HIDE DEF S, m, T
  <2> QED BY <1>2, <2>1, Doubled!MeasureInduction
<1> QED BY <1>3


(* An array has its own two places, or memory of a power of two, of which  *)
(* one place at least is free.                                             *)
GrownWell(a) ==
  /\ a.cap \in Nat \ {0} /\ Len(a.cells) <= a.cap
  /\ Len(a.cells) > INNER_FIELD => Len(a.cells) < a.cap /\ DoubledTo(1, a.cap) = a.cap
ArrayOf(S) == {a \in [cells : Seq(S), cap : Nat] : GrownWell(a)}

(* The capacities an array of few elements gets are powers of two. *)
LEMMA PowersOfTwo == DoubledTo(1, 1) = 1 /\ DoubledTo(1, 2) = 2 /\ DoubledTo(1, 4) = 4
<1>1. DoubledTo(1, 1) = 1
  BY DoubleOnce
<1>2. DoubledTo(1, 2 * 1) = 2 * 1
  BY <1>1, DoublesOn
<1>3. DoubledTo(1, 2 * 2) = 2 * 2
  BY <1>2, DoublesOn
<1> QED BY <1>1, <1>2, <1>3

(* An array begins well. *)
LEMMA EmptyArrayFits == ASSUME NEW S PROVE EmptyArray \in ArrayOf(S)
BY DEF EmptyArray, ArrayOf, GrownWell, INNER_FIELD

(* _pbcA_push leaves an array with memory for all its elements: it grows   *)
(* in time.                                                                *)
LEMMA PushFits ==
  ASSUME NEW S, NEW a \in ArrayOf(S), NEW v \in S
  PROVE  Push(a, v) \in ArrayOf(S) /\ Push(a, v).cells = Append(a.cells, v) /\ ArrayHolds(a)
<1> DEFINE n == Len(a.cells)
<1>1. /\ a.cells \in Seq(S) /\ a.cap \in Nat \ {0} /\ n \in Nat /\ n <= a.cap
      /\ n > 2 => n < a.cap /\ DoubledTo(1, a.cap) = a.cap
  BY DEF ArrayOf, GrownWell, INNER_FIELD
<1>2. Append(a.cells, v) \in Seq(S) /\ Len(Append(a.cells, v)) = n + 1
  BY <1>1
<1> HIDE DEF n
<1> DEFINE c == NewCapacity(a)
<1>3. c \in Nat \ {0} /\ n + 1 <= c /\ (n + 1 > 2 => n + 1 < c /\ DoubledTo(1, c) = c)
  <2>1. CASE n < 2
    <3>1. n # 2 /\ ~(n > 2)
      BY <1>1, <2>1
    <3>2. c = 2
      BY <2>1, <3>1 DEF n, NewCapacity, Size, INNER_FIELD
    <3> HIDE DEF c
    <3> QED BY <1>1, <2>1, <3>2
  <2>2. CASE n = 2
    <3>1. c = DoubledTo(1, 4)
      BY <2>2 DEF n, NewCapacity, Size, INNER_FIELD
    <3> QED BY <2>2, <3>1, PowersOfTwo
  <2>3. CASE n > 2
    <3>1. c = IF DoubledTo(1, n + 1) = n + 1 THEN 2 * (n + 1) ELSE a.cap
      BY <1>1, <2>3 DEF n, NewCapacity, Size, INNER_FIELD, GrowsAt
    <3>2. DoubledTo(1, n + 1) = n + 1 => DoubledTo(1, 2 * (n + 1)) = 2 * (n + 1)
      BY <1>1, DoublesOn
    <3>3. DoubledTo(1, n + 1) # n + 1 => n + 1 # a.cap
      BY <1>1, <2>3
    <3> HIDE DEF c
    <3> QED BY <1>1, <2>3, <3>1, <3>2, <3>3
  <2> QED BY <1>1, <2>1, <2>2, <2>3
<1>4. Push(a, v) = [cells |-> Append(a.cells, v), cap |-> c]
  BY DEF Push
<1> HIDE DEF c
<1> QED BY <1>1, <1>2, <1>3, <1>4 DEF ArrayOf, GrownWell, INNER_FIELD, ArrayHolds, Size, n

----------------------------------------------------------------------------
(* How many bytes the formats take. *)

(* _pbcV_encode32 writes one to five bytes. *)
LEMMA Encode32Bytes ==
  ASSUME NEW n
  PROVE  Encode32(n) \in Seq(Byte) /\ Len(Encode32(n)) \in 1..5
<1>1. Low(n) \in Number64 /\ \A b \in Low(n) : b \in 0..31
  BY DEF Low, Number64
<1>2. Encode32(n) \in Seq(Byte) /\ Len(Encode32(n)) = LastGroup(Low(n)) + 1
  BY <1>1, GroupsBits DEF Encode32
<1>3. LastGroup(Low(n)) \in 0..4
  <2>1. LastGroup(Low(n)) \in 0..9 /\ (LastGroup(Low(n)) > 0 => \E b \in Low(n) : b \div 7 = LastGroup(Low(n)))
    BY <1>1, GroupCount
  <2>2. \A b \in 0..31 : b \div 7 <= 4
    OBVIOUS
  <2> QED BY <1>1, <2>1, <2>2
<1> QED BY <1>2, <1>3

(* _pbcV_encode writes one to ten bytes. *)
LEMMA EncodeBytes ==
  ASSUME NEW n \in Number64
  PROVE  Encode(n) \in Seq(Byte) /\ Len(Encode(n)) \in 1..10
<1>1. Encode(n) = Groups(n)
  BY EncodeIsGroups
<1>2. Groups(n) \in Seq(Byte) /\ Len(Groups(n)) = LastGroup(n) + 1 /\ LastGroup(n) + 1 \in 1..10
  BY GroupsBits
<1> QED BY <1>1, <1>2

(* A number of fixed width is as many bytes. *)
LEMMA FixedBytes ==
  ASSUME NEW n, NEW w \in Nat
  PROVE  Fixed(n, w) \in Seq(Byte) /\ Len(Fixed(n, w)) = w
<1>1. \A k \in 1..w : Shr(n, 8 * (k - 1)) \cap 0..7 \in Byte
  BY DEF Byte
<1> QED BY <1>1 DEF Fixed

(* Numbers in zigzag are varints. *)
LEMMA ZigzagBytes ==
  ASSUME NEW n
  PROVE  /\ Zigzag(n) \in Seq(Byte) /\ Len(Zigzag(n)) \in 1..10
         /\ Zigzag32(n) \in Seq(Byte) /\ Len(Zigzag32(n)) \in 1..5
<1>1. Xor(Shl(n, 1) \cap 0..63, AllIf(63 \in n, 64)) \in Number64
  BY DEF Xor, AllIf, Number64
<1> QED BY <1>1, EncodeBytes, Encode32Bytes DEF Zigzag, Zigzag32

(* What is written of a number, whatever the type of its field: at most    *)
(* ten bytes, and 8 or 4 where packing counts on them.                     *)
LEMMA BodyBytes ==
  ASSUME NEW type \in Numeric, NEW v \in Number64
  PROVE  /\ Body(type, v) \in Seq(Byte) /\ Len(Body(type, v)) \in 1..10
         /\ type \in Wide => Len(Body(type, v)) = 8
         /\ type \in Narrowed => Len(Body(type, v)) = 4
<1>1. CASE type \in {"int64", "uint64", "int32"}
  BY <1>1, EncodeBytes DEF Body, Wide, Narrowed
<1>2. CASE type \in {"uint32", "enum", "bool"}
  <2>1. Body(type, v) = Encode32(v)
    BY <1>2 DEF Body, Wide
  <2>2. type \notin Wide \cup Narrowed
    BY <1>2 DEF Wide, Narrowed
  <2> QED BY <2>1, <2>2, Encode32Bytes
<1>3. CASE type \in Wide
  <2>1. Body(type, v) = Fixed(v, 8)
    BY <1>3 DEF Body, Wide
  <2>2. type \notin Narrowed
    BY <1>3 DEF Wide, Narrowed
  <2>3. 8 \in Nat /\ 8 \in 1..10
    OBVIOUS
  <2>4. Fixed(v, 8) \in Seq(Byte) /\ Len(Fixed(v, 8)) = 8
    BY <2>3, FixedBytes
  <2> QED BY <2>1, <2>2, <2>3, <2>4
<1>4. CASE type \in Narrowed
  <2>1. Body(type, v) = Fixed(v, 4) \/ Body(type, v) = Fixed(Narrow(v), 4)
    BY <1>4 DEF Body, Wide, Narrowed
  <2>2. type \notin Wide
    BY <1>4 DEF Wide, Narrowed
  <2>3. 4 \in Nat /\ 4 \in 1..10
    OBVIOUS
  <2>4. /\ Fixed(v, 4) \in Seq(Byte) /\ Len(Fixed(v, 4)) = 4
        /\ Fixed(Narrow(v), 4) \in Seq(Byte) /\ Len(Fixed(Narrow(v), 4)) = 4
    BY <2>3, FixedBytes
  <2> QED BY <2>1, <2>2, <2>3, <2>4
<1>5. CASE type \in {"sint32", "sint64"}
  <2>1. Body(type, v) = Zigzag32(v) \/ Body(type, v) = Zigzag(v)
    BY <1>5 DEF Body, Wide
  <2>2. type \notin Wide \cup Narrowed
    BY <1>5 DEF Wide, Narrowed
  <2> QED BY <2>1, <2>2, ZigzagBytes
<1> QED BY <1>1, <1>2, <1>3, <1>4, <1>5 DEF Numeric, Wide, Narrowed

(* A tag is at most five bytes. *)
LEMMA TagBytes ==
  ASSUME NEW id, NEW wt
  PROVE  Tag(id, wt) \in Seq(Byte) /\ Len(Tag(id, wt)) \in 1..5
BY Encode32Bytes DEF Tag

(* Concatenation and cutting *)
LEMMA Joined ==
  ASSUME NEW S, NEW s \in Seq(S), NEW t \in Seq(S)
  PROVE  s \o t \in Seq(S) /\ Len(s \o t) = Len(s) + Len(t)
OBVIOUS

LEMMA CutBytes ==
  ASSUME NEW S, NEW s \in Seq(S), NEW m \in 1..(Len(s) + 1), NEW n \in 0..Len(s)
  PROVE  SubSeq(s, m, n) \in Seq(S) /\ Len(SubSeq(s, m, n)) = IF m <= n THEN n - m + 1 ELSE 0
OBVIOUS

(* Bytes written over others leave as many. *)
LEMMA OverlayBytes ==
  ASSUME NEW S, NEW s \in Seq(S), NEW t \in Seq(S)
  PROVE  Overlay(s, t) \in Seq(S) /\ Len(Overlay(s, t)) = Len(s)
<1>1. CASE Len(t) >= Len(s)
  <2>1. 1 \in 1..(Len(t) + 1) /\ Len(s) \in 0..Len(t)
    BY <1>1
  <2> QED BY <1>1, <2>1, CutBytes DEF Overlay
<1>2. CASE ~(Len(t) >= Len(s))
  <2>1. Len(t) + 1 \in 1..(Len(s) + 1) /\ Len(s) \in 0..Len(s)
    BY <1>2
  <2>2. /\ SubSeq(s, Len(t) + 1, Len(s)) \in Seq(S)
        /\ Len(SubSeq(s, Len(t) + 1, Len(s))) = Len(s) - Len(t)
    <3> DEFINE a == Len(t)  b == Len(s)
    <3>1. a \in Nat /\ b \in Nat /\ ~(a >= b)
      BY <1>2
    <3>2. SubSeq(s, a + 1, b) \in Seq(S) /\ Len(SubSeq(s, a + 1, b)) = IF a + 1 <= b THEN b - (a + 1) + 1 ELSE 0
      BY <2>1, CutBytes
    <3> HIDE DEF a, b
    <3> QED BY <3>1, <3>2 DEF a, b
  <2>3. Overlay(s, t) = t \o SubSeq(s, Len(t) + 1, Len(s))
    BY <1>2 DEF Overlay
  <2> QED BY <2>2, <2>3, Joined
<1> QED BY <1>1, <1>2

----------------------------------------------------------------------------
(* Messages under construction: what a call may write is what it made room *)
(* for.                                                                    *)

(* What the theorem about bounds needs to be told of the calls *)
NarrowUnpacked == NoNarrowPacked(Menu)

Keys == UNION {DOMAIN Fields[type] : type \in DOMAIN Fields}
PackedField == {p \in [key : Keys, id : Nat, ptype : Numeric, data : ArrayOf(Number64)] :
                  NarrowUnpacked => p.ptype \notin Narrowed}
SubCell == [child : Nat, id : Nat]
WMessage == [type : DOMAIN Fields, buf : Seq(Byte), cap : Nat \ {0}, over : BOOLEAN,
             sub : ArrayOf(SubCell), packed : Seq(PackedField)]

(* A message whose bytes are in its buffer, and a later state of it *)
InBuffer(m) == m.over = FALSE /\ Len(m.buf) <= m.cap
Written == {m \in WMessage : DoubledTo(WMESSAGE_SIZE, m.cap) = m.cap /\ (NarrowUnpacked => InBuffer(m))}
Later(m, n) == n \in Written /\ n.type = m.type /\ n.sub = m.sub /\ n.packed = m.packed

(* A new message is a message. *)
LEMMA NewFits ==
  ASSUME NEW type \in DOMAIN Fields
  PROVE  New(type) \in Written /\ New(type).type = type /\ New(type).sub.cells = <<>>
<1>1. EmptyArray \in ArrayOf(SubCell) /\ EmptyArray.cells = <<>>
  BY EmptyArrayFits DEF EmptyArray
<1>2. DoubledTo(64, 64) = 64
  BY DoubleOnce
<1> QED BY <1>1, <1>2 DEF New, Written, WMessage, WMESSAGE_SIZE, InBuffer

(* What the fields of a message are *)
LEMMA WrittenFields ==
  ASSUME NEW m \in Written
  PROVE  /\ m \in WMessage /\ m.type \in DOMAIN Fields /\ m.buf \in Seq(Byte) /\ Len(m.buf) \in Nat
         /\ m.cap \in Nat \ {0} /\ m.over \in BOOLEAN /\ m.sub \in ArrayOf(SubCell) /\ m.packed \in Seq(PackedField)
         /\ DoubledTo(64, m.cap) = m.cap /\ (NarrowUnpacked => m.over = FALSE /\ Len(m.buf) <= m.cap)
<1>1. m \in WMessage /\ DoubledTo(64, m.cap) = m.cap /\ (NarrowUnpacked => m.over = FALSE /\ Len(m.buf) <= m.cap)
  BY DEF Written, WMESSAGE_SIZE, InBuffer
<1>2. /\ m.type \in DOMAIN Fields /\ m.buf \in Seq(Byte) /\ m.cap \in Nat \ {0} /\ m.over \in BOOLEAN
      /\ m.sub \in ArrayOf(SubCell) /\ m.packed \in Seq(PackedField)
  BY <1>1 DEF WMessage
<1> QED BY <1>1, <1>2

(* Assignments to fields of a message leave it a message. *)
LEMMA SetBuffer ==
  ASSUME NEW m \in WMessage, NEW buf \in Seq(Byte), NEW cap \in Nat \ {0}, NEW over \in BOOLEAN
  PROVE  /\ [m EXCEPT !.cap = cap] \in WMessage
         /\ [m EXCEPT !.buf = buf, !.over = over] \in WMessage
BY DEF WMessage

(* Such a message, if nothing was put into a packed field of 4 byte        *)
(* numbers, is within its memory.                                          *)
LEMMA WrittenWithin ==
  ASSUME NarrowUnpacked, NEW m \in Written
  PROVE  Within(m) /\ Len(m.buf) <= m.cap
<1>1. m.over = FALSE /\ Len(m.buf) <= m.cap /\ m.sub \in ArrayOf(SubCell) /\ m.packed \in Seq(PackedField)
  BY WrittenFields
<1>2. ArrayHolds(m.sub)
  BY <1>1 DEF ArrayOf, GrownWell, ArrayHolds, Size
<1>3. ASSUME NEW k \in DOMAIN m.packed PROVE ArrayHolds(m.packed[k].data)
  <2>1. m.packed[k] \in PackedField
    BY <1>1
  <2>2. m.packed[k].data \in ArrayOf(Number64)
    BY <2>1 DEF PackedField
  <2> QED BY <2>2 DEF ArrayOf, GrownWell, ArrayHolds, Size
<1> QED BY <1>1, <1>2, <1>3 DEF Within

(* _expand makes the room it is asked for. *)
LEMMA ExpandFits ==
  ASSUME NEW m \in Written, NEW sz \in Nat
  PROVE  /\ Later(m, Expand(m, sz)) /\ Expand(m, sz).buf = m.buf
         /\ Len(m.buf) + sz <= Expand(m, sz).cap
<1> DEFINE c == DoubledTo(m.cap, Len(m.buf) + sz)
<1>1. m \in WMessage /\ Len(m.buf) \in Nat /\ m.cap \in Nat \ {0} /\ DoubledTo(64, m.cap) = m.cap
  BY WrittenFields
<1>2. Enough(64, Len(m.buf) + sz, m.cap)
  <2>1. Len(m.buf) + sz \in Nat
    BY <1>1
  <2> QED BY <1>1, <2>1, DoublesEnough
<1>3. c \in Nat /\ c >= Len(m.buf) + sz /\ c >= m.cap /\ DoubledTo(64, c) = c
  BY <1>2 DEF Enough
<1>4. Expand(m, sz) = [m EXCEPT !.cap = c]
  BY DEF Expand
<1> HIDE DEF c
<1>5. /\ Expand(m, sz) \in WMessage /\ Expand(m, sz).buf = m.buf /\ Expand(m, sz).cap = c
      /\ Expand(m, sz).type = m.type /\ Expand(m, sz).sub = m.sub /\ Expand(m, sz).packed = m.packed
      /\ Expand(m, sz).over = m.over
  <2>1. c \in Nat \ {0}
    BY <1>1, <1>3
  <2>2. [m EXCEPT !.cap = c] \in WMessage
    BY <1>1, <2>1, SetBuffer, WrittenFields
  <2> QED BY <1>1, <1>4, <2>2 DEF WMessage
<1>6. Len(m.buf) <= c
  BY <1>1, <1>3
<1>7. NarrowUnpacked => m.over = FALSE
  BY WrittenFields
<1>8. Expand(m, sz) \in Written
  BY <1>3, <1>5, <1>6, <1>7 DEF Written, WMESSAGE_SIZE, InBuffer
<1> QED BY <1>3, <1>5, <1>8 DEF Later

(* Bytes for which there is room are added to the buffer. *)
LEMMA PutFits ==
  ASSUME NEW m \in Written, NEW bytes \in Seq(Byte), NarrowUnpacked => Len(m.buf) + Len(bytes) <= m.cap
  PROVE  Later(m, Put(m, bytes)) /\ Put(m, bytes).buf = m.buf \o bytes /\ Put(m, bytes).cap = m.cap
<1> DEFINE over == m.over \/ Len(m.buf) + Len(bytes) > m.cap
<1>1. m \in WMessage /\ m.buf \in Seq(Byte) /\ m.over \in BOOLEAN /\ m.cap \in Nat \ {0} /\ DoubledTo(64, m.cap) = m.cap
  BY WrittenFields
<1>2. m.buf \o bytes \in Seq(Byte) /\ Len(m.buf \o bytes) = Len(m.buf) + Len(bytes)
  BY <1>1, Joined
<1>3. Len(m.buf) + Len(bytes) \in Nat /\ m.cap \in Nat
  BY <1>1
<1>4. over \in BOOLEAN /\ (NarrowUnpacked => over = FALSE)
  <2>1. NarrowUnpacked => m.over = FALSE
    BY WrittenFields
  <2> QED BY <1>1, <1>3, <2>1
<1>5. Put(m, bytes) = [m EXCEPT !.buf = m.buf \o bytes, !.over = over]
  BY DEF Put
<1> HIDE DEF over
<1>6. /\ Put(m, bytes) \in WMessage /\ Put(m, bytes).buf = m.buf \o bytes /\ Put(m, bytes).cap = m.cap
      /\ Put(m, bytes).type = m.type /\ Put(m, bytes).sub = m.sub /\ Put(m, bytes).packed = m.packed
      /\ Put(m, bytes).over = over
  <2>1. Put(m, bytes) \in WMessage
    <3>1. [m EXCEPT !.buf = m.buf \o bytes, !.over = over] \in WMessage
      BY <1>1, <1>2, <1>4, SetBuffer
    <3> QED BY <1>5, <3>1
  <2> QED BY <1>1, <1>5, <2>1 DEF WMessage
<1>7. Put(m, bytes) \in Written
  BY <1>1, <1>2, <1>4, <1>6 DEF Written, WMESSAGE_SIZE, InBuffer
<1> QED BY <1>6, <1>7 DEF Later

(* Bytes for which room was made first fit. *)
LEMMA ExpandPut ==
  ASSUME NEW m \in Written, NEW room \in Nat, NEW bytes \in Seq(Byte), Len(bytes) <= room
  PROVE  LET p == Put(Expand(m, room), bytes)
         IN  /\ Later(m, p) /\ p.buf = m.buf \o bytes
             /\ Len(p.buf) = Len(m.buf) + Len(bytes) /\ p.cap >= Len(m.buf) + room
<1> DEFINE e == Expand(m, room)
<1>1. Later(m, e) /\ e.buf = m.buf /\ Len(m.buf) + room <= e.cap
  BY ExpandFits
<1> HIDE DEF e
<1>2. m.buf \in Seq(Byte) /\ Len(m.buf) \in Nat /\ Len(bytes) \in Nat /\ e \in Written /\ e.cap \in Nat
  <2>1. e \in Written
    BY <1>1 DEF Later
  <2>2. m.buf \in Seq(Byte) /\ Len(m.buf) \in Nat
    BY WrittenFields
  <2>3. e.cap \in Nat
    BY <2>1, WrittenFields
  <2> QED BY <2>1, <2>2, <2>3
<1>3. Len(e.buf) + Len(bytes) <= e.cap
  BY <1>1, <1>2
<1>4. Later(e, Put(e, bytes)) /\ Put(e, bytes).buf = e.buf \o bytes /\ Put(e, bytes).cap = e.cap
  BY <1>2, <1>3, PutFits
<1>5. Len(m.buf \o bytes) = Len(m.buf) + Len(bytes)
  BY <1>2, Joined
<1>6. Later(m, Put(e, bytes))
  BY <1>1, <1>4 DEF Later
<1>7. Put(e, bytes).cap >= Len(m.buf) + room
  BY <1>1, <1>2, <1>4
<1> QED BY <1>1, <1>4, <1>5, <1>6, <1>7 DEF e

LEMMA LaterOn == ASSUME NEW m, NEW n, NEW p, Later(m, n), Later(n, p) PROVE Later(m, p)
BY DEF Later

(* What a call leaves of a message: other packed fields may have come.     *)
Kept(m, n) == n \in Written /\ n.type = m.type /\ n.sub = m.sub /\ Len(n.packed) >= Len(m.packed)

LEMMA LaterIsKept == ASSUME NEW m \in Written, NEW n, Later(m, n) PROVE Kept(m, n)
<1>1. Len(m.packed) \in Nat
  BY WrittenFields
<1> QED BY <1>1 DEF Later, Kept

LEMMA KeptOn == ASSUME NEW m \in Written, NEW n, NEW p, Kept(m, n), Kept(n, p) PROVE Kept(m, p)
<1>1. n \in Written /\ p \in Written
  BY DEF Kept
<1>2. Len(m.packed) \in Nat /\ Len(n.packed) \in Nat /\ Len(p.packed) \in Nat
  BY <1>1, WrittenFields
<1> QED BY <1>1, <1>2 DEF Kept

(* An element more, at any place *)
LEMMA InsertFits ==
  ASSUME NEW S, NEW s \in Seq(S), NEW at \in 1..(Len(s) + 1), NEW e \in S
  PROVE  InsertAt(s, at, e) \in Seq(S) /\ Len(InsertAt(s, at, e)) = Len(s) + 1
<1> DEFINE a == SubSeq(s, 1, at - 1)
           b == SubSeq(s, at, Len(s))
<1>1. a \in Seq(S) /\ Len(a) = at - 1
  <2>1. 1 \in 1..(Len(s) + 1) /\ at - 1 \in 0..Len(s)
    OBVIOUS
  <2>2. a \in Seq(S) /\ Len(a) = IF 1 <= at - 1 THEN (at - 1) - 1 + 1 ELSE 0
    BY <2>1, CutBytes
  <2> HIDE DEF a
  <2> QED BY <2>1, <2>2
<1>2. b \in Seq(S) /\ Len(b) = Len(s) - at + 1
  <2>1. Len(s) \in 0..Len(s) /\ at \in 1..(Len(s) + 1)
    OBVIOUS
  <2>2. b \in Seq(S) /\ Len(b) = IF at <= Len(s) THEN Len(s) - at + 1 ELSE 0
    BY <2>1, CutBytes
  <2> HIDE DEF b
  <2> QED BY <2>1, <2>2
<1>3. a \o <<e>> \in Seq(S) /\ Len(a \o <<e>>) = (at - 1) + 1
  <2>1. <<e>> \in Seq(S) /\ Len(<<e>>) = 1
    OBVIOUS
  <2> HIDE DEF a
  <2> QED BY <1>1, <2>1, Joined
<1>4. InsertAt(s, at, e) = (a \o <<e>>) \o b
  BY DEF InsertAt
<1> HIDE DEF a, b
<1>5. (a \o <<e>>) \o b \in Seq(S) /\ Len((a \o <<e>>) \o b) = Len(a \o <<e>>) + Len(b)
  BY <1>2, <1>3, Joined
<1>6. Len(s) \in Nat
  OBVIOUS
<1> QED BY <1>2, <1>3, <1>4, <1>5, <1>6

(* The packed fields of a message may grow. *)
LEMMA SetPacked ==
  ASSUME NEW m \in Written, NEW packed \in Seq(PackedField), Len(packed) >= Len(m.packed)
  PROVE  Kept(m, [m EXCEPT !.packed = packed])
<1> DEFINE n == [m EXCEPT !.packed = packed]
<1>1. n \in WMessage /\ n.buf = m.buf /\ n.cap = m.cap /\ n.type = m.type /\ n.sub = m.sub /\ n.packed = packed
      /\ n.over = m.over
  <2>1. m \in WMessage
    BY WrittenFields
  <2> QED BY <2>1 DEF WMessage
<1> HIDE DEF n
<1>2. n \in Written
  BY <1>1 DEF Written, InBuffer
<1> QED BY <1>1, <1>2 DEF Kept, n

(* A number for a packed field goes to the array of that field. *)
LEMMA PushPackedFits ==
  ASSUME NEW m \in Written, NEW key \in DOMAIN Fields[m.type], NEW v \in Number64,
         Fields[m.type][key].label = "packed",
         NarrowUnpacked => Fields[m.type][key].type \notin Narrowed,
         NEW at \in 1..(Len(m.packed) + 1)
  PROVE  Kept(m, PushPacked(m, Fields[m.type][key], key, v, at))
<1> DEFINE f == Fields[m.type][key]
<1>1. m.type \in DOMAIN Fields /\ m.packed \in Seq(PackedField)
  BY WrittenFields
<1>2. f.id \in Nat /\ f.type \in Numeric /\ key \in Keys
  BY <1>1, FieldsAssumption DEF Keys
<1>3. CASE PlacesOf(m, key) # {}
  <2> DEFINE k == Min(PlacesOf(m, key))
             packed == [m.packed EXCEPT ![k].data = Push(m.packed[k].data, v)]
  <2>1. PushPacked(m, f, key, v, at) = [m EXCEPT !.packed = packed]
    BY <1>3 DEF PushPacked
  <2>2. packed \in Seq(PackedField) /\ Len(packed) = Len(m.packed)
    <3>1. CASE k \in 1..Len(m.packed)
      <4>1. m.packed[k] \in PackedField
        BY <1>1, <3>1
      <4>2. m.packed[k].data \in ArrayOf(Number64)
        BY <4>1 DEF PackedField
      <4>3. Push(m.packed[k].data, v) \in ArrayOf(Number64)
        BY <4>2, PushFits
      <4>4. [m.packed[k] EXCEPT !.data = Push(m.packed[k].data, v)] \in PackedField
        BY <4>1, <4>3 DEF PackedField
      <4> HIDE DEF k
      <4>5. packed = [m.packed EXCEPT ![k] = [m.packed[k] EXCEPT !.data = Push(m.packed[k].data, v)]]
        BY <1>1, <3>1
      <4> HIDE DEF packed
      <4> QED BY <1>1, <3>1, <4>4, <4>5
    <3>2. CASE k \notin 1..Len(m.packed)
      <4> HIDE DEF k
      <4>1. packed = m.packed
        BY <1>1, <3>2
      <4> HIDE DEF packed
      <4> QED BY <1>1, <4>1
    <3> QED BY <3>1, <3>2
  <2> HIDE DEF packed
  <2>3. Len(m.packed) \in Nat
    BY <1>1
  <2> QED BY <2>1, <2>2, <2>3, SetPacked
<1>4. CASE PlacesOf(m, key) = {}
  <2> DEFINE e == [key |-> key, id |-> f.id, ptype |-> f.type, data |-> Push(EmptyArray, v)]
             packed == InsertAt(m.packed, at, e)
  <2>1. PushPacked(m, f, key, v, at) = [m EXCEPT !.packed = packed]
    BY <1>4 DEF PushPacked
  <2>2. e \in PackedField
    <3>1. Push(EmptyArray, v) \in ArrayOf(Number64)
      BY EmptyArrayFits, PushFits
    <3> QED BY <1>2, <3>1 DEF PackedField
  <2> HIDE DEF e
  <2>3. packed \in Seq(PackedField) /\ Len(packed) = Len(m.packed) + 1
    BY <1>1, <2>2, InsertFits
  <2> HIDE DEF packed
  <2>4. Len(m.packed) \in Nat
    BY <1>1
  <2>5. Len(packed) >= Len(m.packed)
    BY <2>3, <2>4
  <2> QED BY <2>1, <2>3, <2>5, SetPacked
<1> QED BY <1>3, <1>4

(* What lies in a buffer after a call for one value of a field             *)
LEMMA NumberFits ==
  ASSUME NEW m \in Written, NEW key \in DOMAIN Fields[m.type], NEW v \in Number64,
         NarrowUnpacked /\ Fields[m.type][key].label = "packed" => Fields[m.type][key].type \notin Narrowed,
         NEW at \in 1..(Len(m.packed) + 1), NEW room \in Nat, room >= 15, NEW types \in SUBSET Numeric
  PROVE  Kept(m, Number(m, key, v, at, room, types))
<1> DEFINE f == Fields[m.type][key]
           bytes == Tag(f.id, WireType(f.type)) \o Body(f.type, v)
<1>1. CASE f.label = "packed"
  BY <1>1, PushPackedFits DEF Number
<1>2. CASE f.label # "packed" /\ f.type \in types
  <2>1. Number(m, key, v, at, room, types) = Put(Expand(m, room), bytes)
    BY <1>2 DEF Number
  <2>2. bytes \in Seq(Byte) /\ Len(bytes) <= 15
    <3>1. Tag(f.id, WireType(f.type)) \in Seq(Byte) /\ Len(Tag(f.id, WireType(f.type))) \in 1..5
      BY TagBytes
    <3>2. Body(f.type, v) \in Seq(Byte) /\ Len(Body(f.type, v)) \in 1..10
      BY <1>2, BodyBytes
    <3>3. bytes \in Seq(Byte) /\ Len(bytes) = Len(Tag(f.id, WireType(f.type))) + Len(Body(f.type, v))
      BY <3>1, <3>2, Joined
    <3> DEFINE a == Len(Tag(f.id, WireType(f.type)))  b == Len(Body(f.type, v))
    <3> HIDE DEF bytes
    <3>4. a \in 1..5 /\ b \in 1..10 /\ Len(bytes) = a + b
      BY <3>1, <3>2, <3>3
    <3> HIDE DEF a, b
    <3>5. Len(bytes) <= 15
      BY <3>4
    <3> QED BY <3>3, <3>5
  <2> HIDE DEF bytes
  <2>3. Len(bytes) <= room
    BY <2>2
  <2>4. Later(m, Put(Expand(m, room), bytes))
    BY <2>2, <2>3, ExpandPut
  <2> QED BY <2>1, <2>4, LaterIsKept
<1>3. CASE f.label # "packed" /\ f.type \notin types
  <2>1. Number(m, key, v, at, room, types) = Expand(m, room)
    BY <1>3 DEF Number
  <2> QED BY <2>1, ExpandFits, LaterIsKept
<1> QED BY <1>1, <1>2, <1>3

(* A tag and a number of 32 bits: the 20 bytes made room for are enough. *)
LEMMA ShortBytes ==
  ASSUME NEW id, NEW wt, NEW n
  PROVE  Tag(id, wt) \o Encode32(n) \in Seq(Byte) /\ Len(Tag(id, wt) \o Encode32(n)) \in 2..10
<1> DEFINE a == Len(Tag(id, wt))  b == Len(Encode32(n))
<1>1. Tag(id, wt) \in Seq(Byte) /\ a \in 1..5
  BY TagBytes
<1>2. Encode32(n) \in Seq(Byte) /\ b \in 1..5
  BY Encode32Bytes
<1>3. Tag(id, wt) \o Encode32(n) \in Seq(Byte) /\ Len(Tag(id, wt) \o Encode32(n)) = a + b
  BY <1>1, <1>2, Joined
<1> HIDE DEF a, b
<1> QED BY <1>1, <1>2, <1>3

(* The text that a string of the caller means is bytes. *)
LEMMA TextBytes ==
  ASSUME NEW v, NEW len, TextFits(v, len)
  PROVE  Text(v, len) \in Seq(Byte)
<1>1. v \in Seq(Byte) /\ len \in Int /\ len <= Len(v)
  BY DEF TextFits
<1>2. CASE len > 0
  <2>1. 1 \in 1..(Len(v) + 1) /\ len \in 0..Len(v)
    BY <1>1, <1>2
  <2> QED BY <1>1, <1>2, <2>1, CutBytes DEF Text
<1>3. CASE ~(len > 0)
  <2>1. -len \in Nat /\ NUL \in Byte
    BY <1>1, <1>3 DEF NUL, Byte
  <2>2. [i \in 1..(-len) |-> NUL] \in Seq(Byte)
    BY <2>1
  <2> QED BY <1>1, <1>3, <2>2, Joined DEF Text
<1> QED BY <1>2, <1>3

(* A text fits: room is made for its tag and length, then for itself. *)
LEMMA TextPut ==
  ASSUME NEW m \in Written, NEW f, NEW s \in Seq(Byte)
  PROVE  Later(m, PutText(m, f, s))
<1> DEFINE bytes == Tag(f.id, WT_LEND) \o Encode32(Bits(Len(s)))
           n == Put(Expand(m, 20), bytes)
<1>1. bytes \in Seq(Byte) /\ Len(bytes) <= 20
  BY ShortBytes
<1> HIDE DEF bytes
<1>2. Later(m, n)
  BY <1>1, ExpandPut
<1>3. PutText(m, f, s) = Put(Expand(n, Len(s)), s)
  BY DEF PutText, bytes
<1> HIDE DEF n
<1>4. n \in Written /\ Len(s) \in Nat /\ Len(s) <= Len(s)
  BY <1>2 DEF Later
<1>5. Later(n, Put(Expand(n, Len(s)), s))
  BY <1>4, ExpandPut
<1> QED BY <1>2, <1>3, <1>5, LaterOn

(* The number of the name of an enum is a number. *)
LEMMA NumberOfBits ==
  ASSUME NEW f, NEW name
  PROVE  NumberOf(f, name) \in Number64
<1>1. \A k : Bits(k) \subseteq 0..29
  BY DEF Bits
<1>2. \A id : (IF id < 0 THEN (0..31) \ Bits(-id - 1) ELSE Bits(id)) \in Number64
  BY <1>1 DEF Number64
<1> QED BY <1>2, Zenon DEF NumberOf

(* A call of pbc_wmessage_string writes into its room. *)
LEMMA StringFits ==
  ASSUME NEW m \in Written, NEW key \in DOMAIN Fields[m.type], NEW v, NEW len,
         IsText(m.type, key) => TextFits(v, len), NEW at \in 1..(Len(m.packed) + 1)
  PROVE  Kept(m, AddString(m, key, v, len, at))
<1> DEFINE f == Fields[m.type][key]
           known == f.type = "enum" /\ HasName(f, v)
<1>1. Later(m, m) /\ Later(m, Expand(m, 20))
  <2>1. Later(m, Expand(m, 20))
    BY ExpandFits
  <2> QED BY <2>1 DEF Later
<1>2. CASE f.label = "packed" /\ known
  <2>1. f.type \notin Narrowed
    BY <1>2 DEF Narrowed
  <2>2. Kept(m, PushPacked(m, f, key, NumberOf(f, v), at))
    BY <1>2, <2>1, NumberOfBits, PushPackedFits
  <2> QED BY <1>2, <2>2 DEF AddString
<1>3. CASE f.label = "packed" /\ ~known
  <2>1. AddString(m, key, v, len, at) = m
    BY <1>3 DEF AddString
  <2> QED BY <1>1, <2>1, LaterIsKept
<1>4. CASE f.label # "packed" /\ known
  <2> DEFINE bytes == Tag(f.id, WT_VARINT) \o Encode32(NumberOf(f, v))
  <2>1. AddString(m, key, v, len, at) = Put(Expand(m, 20), bytes)
    BY <1>4 DEF AddString
  <2>2. bytes \in Seq(Byte) /\ Len(bytes) <= 20
    BY ShortBytes, SMTT(20)
  <2> HIDE DEF bytes
  <2>3. Later(m, Put(Expand(m, 20), bytes))
    BY <2>2, ExpandPut
  <2> QED BY <2>1, <2>3, LaterIsKept
<1>5. CASE f.label # "packed" /\ f.type \in {"string", "bytes"}
  <2>1. ~known
    BY <1>5
  <2>2. AddString(m, key, v, len, at) = PutText(m, f, Text(v, len))
    BY <1>5, <2>1 DEF AddString
  <2>3. IsText(m.type, key)
    BY <1>5 DEF IsText, HasField
  <2>4. Text(v, len) \in Seq(Byte)
    BY <2>3, TextBytes
  <2>5. Later(m, PutText(m, f, Text(v, len)))
    BY <2>4, TextPut
  <2> QED BY <2>2, <2>5, LaterIsKept
<1>6. CASE f.label # "packed" /\ ~known /\ f.type \notin {"string", "bytes"}
  <2>1. AddString(m, key, v, len, at) = Expand(m, 20)
    BY <1>6 DEF AddString
  <2> QED BY <1>1, <2>1, LaterIsKept
<1> QED BY <1>2, <1>3, <1>4, <1>5, <1>6

LEMMA KeptSelf == ASSUME NEW m \in Written PROVE Kept(m, m)
<1>1. Len(m.packed) \in Nat
  BY WrittenFields
<1> QED BY <1>1 DEF Kept

IntegersTold == INSTANCE Recursion WITH
  Def <- LAMBDA e, x, f : x, Measure <- LAMBDA e, x : 0,
  Op <- LAMBDA c, key, at, acc, v : AddInteger(acc, key, v, at), Inv <- LAMBDA c, key, at, m, i, acc : Kept(m, acc)

(* A loop of pbc_wmessage_integer, for any number of values *)
LEMMA IntegersFit ==
  ASSUME NEW m \in Written, NEW key \in DOMAIN Fields[m.type], NEW S, NEW args \in Seq(S),
         S \subseteq Number64, NarrowUnpacked /\ Fields[m.type][key].label = "packed" => Fields[m.type][key].type \notin Narrowed,
         NEW at \in 1..(Len(m.packed) + 1)
  PROVE  Kept(m, IntegersTold!Fold(0, key, at, m, args))
<1>1. ASSUME NEW i \in 1..Len(args), NEW acc, Kept(m, acc)
      PROVE  Kept(m, AddInteger(acc, key, args[i], at))
  <2>1. acc \in Written /\ acc.type = m.type /\ at \in 1..(Len(acc.packed) + 1)
    <3>1. acc \in Written /\ acc.type = m.type /\ Len(acc.packed) >= Len(m.packed)
      BY <1>1 DEF Kept
    <3>2. Len(acc.packed) \in Nat /\ Len(m.packed) \in Nat
      BY <3>1, WrittenFields
    <3> QED BY <3>1, <3>2
  <2>2. args[i] \in S
    OBVIOUS
  <2>3. Kept(acc, AddInteger(acc, key, args[i], at))
    <3>1. Numeric \ {"double", "float"} \in SUBSET Numeric /\ 20 \in Nat /\ 20 >= 15
      BY DEF Numeric
    <3> DEFINE types == Numeric \ {"double", "float"}
    <3> HIDE DEF types
    <3>2. Kept(acc, Number(acc, key, args[i], at, 20, types))
      BY <2>1, <2>2, <3>1, NumberFits DEF types
    <3> QED BY <3>2 DEF AddInteger, types
  <2> QED BY <1>1, <2>3, KeptOn
<1>2. Kept(m, IntegersTold!Fold(0, key, at, m, args))
  <2>1. Kept(m, m)
    BY KeptSelf
  <2> QED BY <1>1, <2>1, IntegersTold!FoldInduction
<1> QED BY <1>2

RealsTold == INSTANCE Recursion WITH
  Def <- LAMBDA e, x, f : x, Measure <- LAMBDA e, x : 0,
  Op <- LAMBDA c, key, at, acc, v : AddReal(acc, key, v, at), Inv <- LAMBDA c, key, at, m, i, acc : Kept(m, acc)

(* A loop of pbc_wmessage_real *)
LEMMA RealsFit ==
  ASSUME NEW m \in Written, NEW key \in DOMAIN Fields[m.type], NEW S, NEW args \in Seq(S),
         S \subseteq Number64, NarrowUnpacked /\ Fields[m.type][key].label = "packed" => Fields[m.type][key].type \notin Narrowed,
         NEW at \in 1..(Len(m.packed) + 1)
  PROVE  Kept(m, RealsTold!Fold(0, key, at, m, args))
<1>1. ASSUME NEW i \in 1..Len(args), NEW acc, Kept(m, acc)
      PROVE  Kept(m, AddReal(acc, key, args[i], at))
  <2>1. acc \in Written /\ acc.type = m.type /\ at \in 1..(Len(acc.packed) + 1)
    <3>1. acc \in Written /\ acc.type = m.type /\ Len(acc.packed) >= Len(m.packed)
      BY <1>1 DEF Kept
    <3>2. Len(acc.packed) \in Nat /\ Len(m.packed) \in Nat
      BY <3>1, WrittenFields
    <3> QED BY <3>1, <3>2
  <2>2. args[i] \in S
    OBVIOUS
  <2>3. Kept(acc, AddReal(acc, key, args[i], at))
    <3>1. {"double", "float"} \in SUBSET Numeric /\ 18 \in Nat /\ 18 >= 15
      BY DEF Numeric
    <3> DEFINE types == {"double", "float"}
    <3> HIDE DEF types
    <3>2. Kept(acc, Number(acc, key, args[i], at, 18, types))
      BY <2>1, <2>2, <3>1, NumberFits DEF types
    <3> QED BY <3>2 DEF AddReal, types
  <2> QED BY <1>1, <2>3, KeptOn
<1>2. Kept(m, RealsTold!Fold(0, key, at, m, args))
  <2>1. Kept(m, m)
    BY KeptSelf
  <2> QED BY <1>1, <2>1, RealsTold!FoldInduction
<1> QED BY <1>2

StringsTold == INSTANCE Recursion WITH
  Def <- LAMBDA e, x, f : x, Measure <- LAMBDA e, x : 0,
  Op <- LAMBDA c, key, at, acc, v : AddString(acc, key, v.v, v.len, at), Inv <- LAMBDA c, key, at, m, i, acc : Kept(m, acc)

(* A loop of pbc_wmessage_string *)
LEMMA StringsFit ==
  ASSUME NEW m \in Written, NEW key \in DOMAIN Fields[m.type], NEW S, NEW args \in Seq(S),
         \A v \in S : IsText(m.type, key) => TextFits(v.v, v.len),
         NEW at \in 1..(Len(m.packed) + 1)
  PROVE  Kept(m, StringsTold!Fold(0, key, at, m, args))
<1>1. ASSUME NEW i \in 1..Len(args), NEW acc, Kept(m, acc)
      PROVE  Kept(m, AddString(acc, key, args[i].v, args[i].len, at))
  <2>1. acc \in Written /\ acc.type = m.type /\ at \in 1..(Len(acc.packed) + 1)
    <3>1. acc \in Written /\ acc.type = m.type /\ Len(acc.packed) >= Len(m.packed)
      BY <1>1 DEF Kept
    <3>2. Len(acc.packed) \in Nat /\ Len(m.packed) \in Nat
      BY <3>1, WrittenFields
    <3> QED BY <3>1, <3>2
  <2>2. args[i] \in S
    OBVIOUS
  <2>3. Kept(acc, AddString(acc, key, args[i].v, args[i].len, at))
    BY <2>1, <2>2, StringFits
  <2> QED BY <1>1, <2>3, KeptOn
<1>2. Kept(m, StringsTold!Fold(0, key, at, m, args))
  <2>1. Kept(m, m)
    BY KeptSelf
  <2> QED BY <1>1, <2>1, StringsTold!FoldInduction
<1> QED BY <1>2

----------------------------------------------------------------------------
(* pbc_wmessage_buffer: packed fields. *)

(* An element of a packed field is at most ten bytes. *)
LEMMA PackedBytes ==
  ASSUME NEW type \in Numeric, NEW v \in Number64
  PROVE  PackedBody(type, v) \in Seq(Byte) /\ Len(PackedBody(type, v)) \in 1..10
<1>1. CASE type = "int32"
  BY <1>1, Encode32Bytes DEF PackedBody
<1>2. CASE type # "int32"
  BY <1>2, BodyBytes DEF PackedBody
<1> QED BY <1>1, <1>2

(* Growing: what packing does to a message *)
Longer(m, n) == Later(m, n) /\ Len(n.buf) >= Len(m.buf)

LEMMA LongerOn == ASSUME NEW m \in Written, NEW n, NEW p, Longer(m, n), Longer(n, p) PROVE Longer(m, p)
<1>1. n \in Written /\ p \in Written
  BY DEF Longer, Later
<1>2. Len(m.buf) \in Nat /\ Len(n.buf) \in Nat /\ Len(p.buf) \in Nat
  BY <1>1, WrittenFields
<1> QED BY <1>1, <1>2, LaterOn DEF Longer

LEMMA LongerSelf == ASSUME NEW m \in Written PROVE Longer(m, m)
<1>1. Len(m.buf) \in Nat
  BY WrittenFields
<1> QED BY <1>1 DEF Longer, Later

(* Room is made for every element. *)
LEMMA ElementFits ==
  ASSUME NEW m \in Written, NEW p \in PackedField, NEW v \in Number64
  PROVE  Longer(m, PutElement(m, p, v))
<1> DEFINE bytes == PackedBody(p.ptype, v)
<1>1. p.ptype \in Numeric
  BY DEF PackedField
<1>2. bytes \in Seq(Byte) /\ Len(bytes) \in 1..10
  BY <1>1, PackedBytes
<1> HIDE DEF bytes
<1>3. PutElement(m, p, v) = Put(Expand(m, 10), bytes)
  BY DEF PutElement, bytes
<1> DEFINE n == Put(Expand(m, 10), bytes)
<1>4. Later(m, n) /\ Len(n.buf) = Len(m.buf) + Len(bytes)
  <2>1. 10 \in Nat /\ Len(bytes) <= 10
    <3> DEFINE a == Len(bytes)
    <3>1. a \in 1..10
      BY <1>2
    <3> HIDE DEF a
    <3>2. a <= 10
      BY <3>1
    <3> QED BY <3>2 DEF a
  <2> QED BY <1>2, <2>1, ExpandPut
<1> HIDE DEF n
<1>5. Len(m.buf) \in Nat
  BY WrittenFields
<1>6. Len(n.buf) >= Len(m.buf)
  BY <1>2, <1>4, <1>5
<1> QED BY <1>3, <1>4, <1>6 DEF Longer, n

Packing == INSTANCE Recursion WITH
  Def <- LAMBDA e, x, f : x, Measure <- LAMBDA e, x : 0,
  Op <- LAMBDA c, d, p, acc, v : PutElement(acc, p, v), Inv <- LAMBDA c, d, p, m, i, acc : Longer(m, acc)

(* All elements of a packed field fit. *)
LEMMA ElementsFit ==
  ASSUME NEW m \in Written, NEW p \in PackedField
  PROVE  Longer(m, PutElements(m, p))
<1>1. p.data.cells \in Seq(Number64)
  BY DEF PackedField, ArrayOf
<1>2. Packing!Fold(0, 0, p, m, p.data.cells) = PutElements(m, p)
  BY DEF PutElements, Packing!Fold, FoldLeft, MapThenFoldSet, Packing!MapThenFoldSet, Max, Packing!Last
<1>3. ASSUME NEW i \in 1..Len(p.data.cells), NEW acc, Longer(m, acc)
      PROVE  Longer(m, PutElement(acc, p, p.data.cells[i]))
  <2>1. acc \in Written
    BY <1>3 DEF Longer, Later
  <2>2. p.data.cells[i] \in Number64
    BY <1>1
  <2>3. Longer(acc, PutElement(acc, p, p.data.cells[i]))
    BY <2>1, <2>2, ElementFits
  <2> QED BY <1>3, <2>3, LongerOn
<1>4. Longer(m, Packing!Fold(0, 0, p, m, p.data.cells))
  <2>1. Longer(m, m)
    BY LongerSelf
  <2> QED BY <1>1, <1>3, <2>1, Packing!FoldInduction
<1> QED BY <1>2, <1>4

(* The buffer of a message is rewritten within what it holds.              *)
LEMMA RewriteFits ==
  ASSUME NEW m \in Written, NEW buf \in Seq(Byte), Len(buf) = Len(m.buf),
         NEW over \in BOOLEAN, NarrowUnpacked => over = FALSE
  PROVE  Longer(m, [m EXCEPT !.buf = buf, !.over = over])
<1> DEFINE n == [m EXCEPT !.buf = buf, !.over = over]
<1>1. /\ m \in WMessage /\ DoubledTo(64, m.cap) = m.cap /\ (NarrowUnpacked => Len(m.buf) <= m.cap)
      /\ m.cap \in Nat \ {0} /\ Len(m.buf) \in Nat
  BY WrittenFields
<1>2. n \in WMessage
  BY <1>1, SetBuffer
<1>3. n.buf = buf /\ n.over = over /\ n.cap = m.cap /\ n.type = m.type /\ n.sub = m.sub /\ n.packed = m.packed
  BY <1>1 DEF WMessage
<1> HIDE DEF n
<1>4. n \in Written
  BY <1>1, <1>2, <1>3 DEF Written, InBuffer, WMESSAGE_SIZE
<1>5. Len(n.buf) >= Len(m.buf)
  BY <1>1, <1>3
<1> QED BY <1>3, <1>4, <1>5 DEF n, Longer, Later

(* The true length of a packed field takes no more than the place of the   *)
(* guessed one and what Expand adds.                                       *)
LEMMA CorrectFits ==
  ASSUME NEW m \in Written, NEW guess \in Seq(Byte), NEW offset \in Nat,
         offset + Len(guess) <= Len(m.buf)
  PROVE  Longer(m, CorrectFrom(m, offset, guess))
<1> DEFINE L == Len(m.buf)
           at == offset + Len(guess)
           body == Suffix(m.buf, at)
           prefix == Encode32(Bits(Len(body)))
           n == Moved(m, guess, prefix)
           buf == SubSeq(m.buf, 1, offset) \o Overlay(guess \o body, prefix \o body)
           over == offset + Len(prefix) + Len(body) > n.cap
<1>1. m.buf \in Seq(Byte) /\ L \in Nat /\ Len(guess) \in Nat /\ m.cap \in Nat
      /\ (NarrowUnpacked => m.over = FALSE /\ L <= m.cap) /\ m.over \in BOOLEAN
  <2>1. Len(guess) \in Nat
    OBVIOUS
  <2> QED BY <2>1, WrittenFields
<1>2. body \in Seq(Byte) /\ Len(body) = L - at
  <2>1. at \in Nat /\ at <= L
    BY <1>1
  <2>2. at + 1 \in 1..(L + 1) /\ L \in 0..L
    BY <1>1, <2>1
  <2>3. body = SubSeq(m.buf, at + 1, L)
    BY DEF Suffix
  <2> HIDE DEF at, body
  <2>4. body \in Seq(Byte) /\ Len(body) = IF at + 1 <= L THEN L - (at + 1) + 1 ELSE 0
    BY <1>1, <2>2, <2>3, CutBytes
  <2> HIDE DEF L
  <2> QED BY <1>1, <2>1, <2>4
<1>3. prefix \in Seq(Byte) /\ Len(prefix) \in 1..5
  BY Encode32Bytes
<1> HIDE DEF body, prefix
<1>4. buf \in Seq(Byte) /\ Len(buf) = L
  <2> DEFINE head == SubSeq(m.buf, 1, offset)
             tail == Overlay(guess \o body, prefix \o body)
  <2>1. head \in Seq(Byte) /\ Len(head) = offset
    <3>1. 1 \in 1..(Len(m.buf) + 1) /\ offset \in 0..Len(m.buf)
      BY <1>1
    <3>2. head \in Seq(Byte) /\ Len(head) = IF 1 <= offset THEN offset - 1 + 1 ELSE 0
      BY <1>1, <3>1, CutBytes
    <3> HIDE DEF head
    <3> QED BY <3>2
  <2>2. guess \o body \in Seq(Byte) /\ Len(guess \o body) = Len(guess) + Len(body)
    BY <1>2, Joined
  <2>3. prefix \o body \in Seq(Byte)
    BY <1>2, <1>3, Joined
  <2>4. tail \in Seq(Byte) /\ Len(tail) = Len(guess) + Len(body)
    BY <2>2, <2>3, OverlayBytes
  <2>5. buf = head \o tail
    OBVIOUS
  <2> HIDE DEF head, tail, buf
  <2>6. buf \in Seq(Byte) /\ Len(buf) = Len(head) + Len(tail)
    BY <2>1, <2>4, <2>5, Joined
  <2> HIDE DEF L
  <2> QED BY <1>1, <1>2, <2>1, <2>4, <2>6 DEF at
<1>5. CorrectFrom(m, offset, guess) = [n EXCEPT !.buf = SubSeq(@, 1, offset) \o Overlay(guess \o body, prefix \o body),
                                                !.over = @ \/ over]
  BY DEF CorrectFrom, Correct, body, prefix
<1>6. Longer(m, n) /\ n.buf = m.buf /\ (Len(prefix) # Len(guess) => n.cap >= L + Len(prefix))
      /\ (Len(prefix) = Len(guess) => n = m)
  <2>1. CASE Len(prefix) # Len(guess)
    <3>1. n = Expand(m, Len(prefix))
      BY <2>1 DEF Moved
    <3>2. Len(prefix) \in Nat
      BY <1>3
    <3>3. Later(m, n) /\ n.buf = m.buf /\ L + Len(prefix) <= n.cap
      BY <3>1, <3>2, ExpandFits
    <3>4. n.cap \in Nat
      <4>1. n \in Written
        BY <3>3 DEF Later
      <4> HIDE DEF n
      <4> QED BY <4>1, WrittenFields
    <3> HIDE DEF n
    <3> QED BY <1>1, <2>1, <3>2, <3>3, <3>4 DEF Longer
  <2>2. CASE Len(prefix) = Len(guess)
    <3>1. n = m
      BY <2>2 DEF Moved
    <3> HIDE DEF n
    <3> QED BY <2>2, <3>1, LongerSelf
  <2> QED BY <2>1, <2>2
<1> HIDE DEF n
<1>7. n \in Written /\ n.over \in BOOLEAN /\ (NarrowUnpacked => n.over = FALSE) /\ n.cap \in Nat
  <2>1. n \in Written
    BY <1>6 DEF Longer, Later
  <2> QED BY <2>1, WrittenFields
<1>8. NarrowUnpacked => ~over
  <2> DEFINE g == Len(guess)  b == Len(body)  p == Len(prefix)
  <2>1. g \in Nat /\ b = L - at /\ at = offset + g /\ p \in Nat /\ at <= L
    BY <1>1, <1>2, <1>3
  <2> HIDE DEF g, b, p, at, L
  <2>2. CASE p # g
    <3>1. n.cap >= L + p
      BY <1>6, <2>2 DEF p, g
    <3>2. offset + p + b <= n.cap
      BY <1>1, <1>7, <2>1, <3>1
    <3> QED BY <1>1, <1>7, <2>1, <3>2 DEF p, b
  <2>3. CASE p = g
    <3>1. NarrowUnpacked => offset + p + b <= n.cap
      BY <1>1, <1>6, <2>1, <2>3 DEF p, g
    <3> QED BY <1>1, <1>7, <2>1, <3>1 DEF p, b
  <2> QED BY <2>2, <2>3
<1>9. CorrectFrom(m, offset, guess) = [n EXCEPT !.buf = buf, !.over = n.over \/ over]
  BY <1>5, <1>6
<1> HIDE DEF buf, over
<1>10. (n.over \/ over) \in BOOLEAN /\ (NarrowUnpacked => (n.over \/ over) = FALSE)
  <2>1. over \in BOOLEAN
    BY DEF over
  <2> QED BY <1>7, <1>8, <2>1
<1>11. Longer(n, [n EXCEPT !.buf = buf, !.over = n.over \/ over])
  <2>1. n.over \/ over \in BOOLEAN
    BY <1>7 DEF over
  <2> QED BY <1>4, <1>6, <1>7, <1>10, <2>1, RewriteFits
<1> QED BY <1>6, <1>9, <1>11, LongerOn

(* The length that is guessed is a number. *)
LEMMA LengthGuessed ==
  ASSUME NEW p \in PackedField
  PROVE  Size(p.data) \in Nat /\ GuessedLength(p) \in Nat
<1>1. p.data.cells \in Seq(Number64)
  BY DEF PackedField, ArrayOf
<1>2. Len(p.data.cells) \in Nat
  BY <1>1
<1> QED BY <1>2 DEF GuessedLength, Size

(* A packed field of varints fits, although its length is written twice. *)
LEMMA VarintsFit ==
  ASSUME NEW m \in Written, NEW p \in PackedField
  PROVE  Longer(m, PackVarints(m, p))
<1> DEFINE g == GuessedLength(p)
           guess == Encode32(Bits(g))
           n == Put(Expand(m, 10 + g), guess)
           all == PutElements(n, p)
<1>1. g \in Nat
  BY LengthGuessed
<1> HIDE DEF g
<1>2. guess \in Seq(Byte) /\ Len(guess) \in 1..5
  BY Encode32Bytes
<1>3. PackVarints(m, p) = CorrectFrom(all, Len(m.buf), guess)
  BY DEF PackVarints, g
<1> HIDE DEF guess
<1>4. Len(m.buf) \in Nat
  BY WrittenFields
<1>5. Later(m, n) /\ Len(n.buf) = Len(m.buf) + Len(guess)
  <2> DEFINE a == Len(guess)
  <2>0. a \in 1..5
    BY <1>2
  <2> HIDE DEF a
  <2>1. 10 + g \in Nat /\ a <= 10 + g
    BY <1>1, <2>0
  <2> QED BY <1>2, <2>1, ExpandPut DEF a
<1> HIDE DEF n
<1>6. Longer(n, all)
  BY <1>5, ElementsFit DEF Later
<1> HIDE DEF all
<1>7. all \in Written /\ Len(m.buf) + Len(guess) <= Len(all.buf)
  BY <1>5, <1>6 DEF Longer, Later
<1>8. Longer(all, CorrectFrom(all, Len(m.buf), guess))
  BY <1>2, <1>4, <1>7, CorrectFits
<1>9. Longer(m, n)
  <2> DEFINE a == Len(m.buf)  b == Len(guess)  c == Len(n.buf)
  <2>1. a \in Nat /\ b \in 1..5 /\ c = a + b
    BY <1>2, <1>4, <1>5
  <2> HIDE DEF a, b, c
  <2>2. c >= a
    BY <2>1
  <2> QED BY <1>5, <2>2 DEF Longer, a, c
<1> QED BY <1>3, <1>6, <1>8, <1>9, LongerOn

(* The bytes of elements of 8 or 4 bytes at distances of 8                 *)
CellBytes(p, w) ==
  [i \in 1..(w * Size(p.data)) |->
     IF (i - 1) % 8 >= w THEN staleByte ELSE Body(p.ptype, Index(p.data, (i - 1) \div 8))[((i - 1) % 8) + 1]]

(* The elements of fixed width, and what lies between them, are bytes. *)
LEMMA CellsAreBytes ==
  ASSUME staleByte \in Byte, NEW p \in PackedField, NEW w \in {4, 8},
         w = 8 => p.ptype \in Wide, w = 4 => p.ptype \in Narrowed
  PROVE  CellBytes(p, w) \in Seq(Byte) /\ Len(CellBytes(p, w)) = w * Size(p.data)
<1> DEFINE n == Size(p.data)
<1>1. p.ptype \in Numeric /\ p.data.cells \in Seq(Number64) /\ Len(p.data.cells) = n /\ n \in Nat
  BY LengthGuessed DEF PackedField, ArrayOf, Size
<1> HIDE DEF n
<1>2. w * n \in Nat
  BY <1>1
<1>3. ASSUME NEW i \in 1..(w * n), ~((i - 1) % 8 >= w)
      PROVE  Body(p.ptype, Index(p.data, (i - 1) \div 8))[((i - 1) % 8) + 1] \in Byte
  <2> DEFINE j == (i - 1) \div 8  r == (i - 1) % 8
             v == Index(p.data, j)
  <2>1. j \in 0..(n - 1) /\ r \in 0..(w - 1)
    <3>1. CASE w = 8
      BY <1>1, <1>3, <3>1, SMT
    <3>2. CASE w = 4
      BY <1>1, <1>3, <3>2, SMT
    <3> QED BY <3>1, <3>2
  <2> HIDE DEF j, r
  <2>2. j + 1 \in 1..Len(p.data.cells)
    BY <1>1, <2>1
  <2>3. v \in Number64
    BY <1>1, <2>2 DEF Index
  <2> HIDE DEF v
  <2>4. Body(p.ptype, v) \in Seq(Byte) /\ Len(Body(p.ptype, v)) = w
    BY <1>1, <2>3, BodyBytes
  <2>5. r + 1 \in 1..w
    BY <2>1
  <2>6. Body(p.ptype, v)[r + 1] \in Byte
    BY <2>4, <2>5
  <2> QED BY <2>6 DEF v, j, r
<1>4. \A i \in 1..(w * n) : (IF (i - 1) % 8 >= w THEN staleByte
        ELSE Body(p.ptype, Index(p.data, (i - 1) \div 8))[((i - 1) % 8) + 1]) \in Byte
  BY <1>3, Zenon
<1>5. CellBytes(p, w) = [i \in 1..(w * n) |-> IF (i - 1) % 8 >= w THEN staleByte
                          ELSE Body(p.ptype, Index(p.data, (i - 1) \div 8))[((i - 1) % 8) + 1]]
  BY DEF CellBytes, n
<1>6. CellBytes(p, w) \in [1..(w * n) -> Byte]
  BY <1>4, <1>5, Zenon
<1>7. CellBytes(p, w) \in Seq(Byte) /\ Len(CellBytes(p, w)) = w * n
  <2> DEFINE k == w * n
  <2>1. k \in Nat /\ CellBytes(p, w) \in [1..k -> Byte]
    BY <1>2, <1>6
  <2> HIDE DEF k
  <2>2. CellBytes(p, w) \in Seq(Byte) /\ Len(CellBytes(p, w)) = k
    BY <2>1
  <2> QED BY <2>2 DEF k
<1> QED BY <1>7 DEF n

(* A packed field of 8 byte numbers fits; of one of 4 bytes the message    *)
(* stays a message, except for its bounds.                                 *)
LEMMA FixedFit ==
  ASSUME staleByte \in Byte, NEW m \in Written, NEW p \in PackedField, NEW w \in {4, 8},
         w = 8 => p.ptype \in Wide, w = 4 => p.ptype \in Narrowed
  PROVE  Later(m, PackFixed(m, p, w))
<1> DEFINE k == w * Size(p.data)
           prefix == Encode32(Bits(k))
           n == Put(Expand(m, 10 + k), prefix)
           bytes == CellBytes(p, w)
           q == Put(n, bytes)
           over == q.over \/ Len(n.buf) + 8 * (Size(p.data) - 1) + w > n.cap
<1>1. k \in Nat /\ Size(p.data) \in Nat
  BY LengthGuessed
<1>2. prefix \in Seq(Byte) /\ Len(prefix) \in 1..5
  BY Encode32Bytes
<1>3. PackFixed(m, p, w) = [q EXCEPT !.over = over]
  BY DEF PackFixed, PutCells, CellBytes
<1>4. bytes \in Seq(Byte) /\ Len(bytes) = k
  BY CellsAreBytes
<1> HIDE DEF bytes
<1>5. Later(m, n) /\ Len(n.buf) = Len(m.buf) + Len(prefix) /\ n.cap >= Len(m.buf) + (10 + k)
  <2> HIDE DEF k, prefix
  <2> DEFINE a == Len(prefix)
  <2>0. a \in 1..5 /\ k \in Nat
    BY <1>1, <1>2
  <2> HIDE DEF a
  <2>1. 10 + k \in Nat /\ a <= 10 + k
    BY <2>0
  <2> QED BY <1>2, <2>1, ExpandPut DEF a
<1> HIDE DEF n, prefix
<1>6. n \in Written /\ Len(n.buf) \in Nat /\ n.cap \in Nat /\ Len(m.buf) \in Nat
  <2>1. n \in Written
    BY <1>5 DEF Later
  <2> QED BY <2>1, WrittenFields
<1>7. Len(n.buf) + k <= n.cap
  <2> DEFINE a == Len(m.buf)  b == Len(prefix)  c == Len(n.buf)
  <2>1. a \in Nat /\ b \in 1..5 /\ c = a + b /\ n.cap >= a + (10 + k) /\ n.cap \in Nat
    BY <1>2, <1>5, <1>6
  <2> HIDE DEF a, b, c, k
  <2>2. c + k <= n.cap
    BY <1>1, <2>1
  <2> QED BY <2>2 DEF c
<1>8. Later(n, q)
  BY <1>4, <1>6, <1>7, PutFits
<1> HIDE DEF q
<1>9. q \in Written /\ q.over \in BOOLEAN /\ (NarrowUnpacked => q.over = FALSE) /\ q.buf \in Seq(Byte)
  <2>1. q \in Written
    BY <1>8 DEF Later
  <2> QED BY <2>1, WrittenFields
<1>10. over \in BOOLEAN /\ (NarrowUnpacked => over = FALSE)
  <2>1. NarrowUnpacked => p.ptype \notin Narrowed
    BY DEF PackedField
  <2>2. w = 8 => ~(Len(n.buf) + 8 * (Size(p.data) - 1) + w > n.cap)
    <3> DEFINE c == Len(n.buf)  s == Size(p.data)
    <3>1. c \in Nat /\ s \in Nat /\ n.cap \in Nat /\ c + w * s <= n.cap
      BY <1>1, <1>6, <1>7
    <3> HIDE DEF c, s
    <3>2. w = 8 => ~(c + 8 * (s - 1) + w > n.cap)
      BY <3>1
    <3> QED BY <3>2 DEF c, s
  <2>3. NarrowUnpacked => w = 8
    BY <2>1
  <2> QED BY <1>9, <2>2, <2>3
<1> HIDE DEF over
<1>11. Longer(q, [q EXCEPT !.buf = q.buf, !.over = over])
  BY <1>9, <1>10, RewriteFits
<1>12. [q EXCEPT !.buf = q.buf, !.over = over] = [q EXCEPT !.over = over]
  <2>1. q \in WMessage
    BY <1>9, WrittenFields
  <2> QED BY <2>1 DEF WMessage
<1> QED BY <1>3, <1>5, <1>8, <1>11, <1>12, LaterOn DEF Longer

(* A packed field fits, whatever its type. *)
LEMMA PackedFits ==
  ASSUME staleByte \in Byte, NEW m \in Written, NEW p \in PackedField
  PROVE  Later(m, PackPacked(m, p))
<1> DEFINE bytes == Tag(p.id, WT_LEND)
           n == Put(Expand(m, 10), bytes)
<1>1. bytes \in Seq(Byte) /\ Len(bytes) <= 10
  <2>1. bytes \in Seq(Byte) /\ Len(bytes) \in 1..5
    BY TagBytes
  <2> HIDE DEF bytes
  <2> DEFINE a == Len(bytes)
  <2>2. a \in 1..5
    BY <2>1
  <2> HIDE DEF a
  <2>3. a <= 10
    BY <2>2
  <2> QED BY <2>1, <2>3 DEF a
<1>2. PackPacked(m, p) = PackTagged(n, p)
  BY DEF PackPacked
<1> HIDE DEF bytes
<1>3. Later(m, n)
  BY <1>1, ExpandPut
<1> HIDE DEF n
<1>4. n \in Written
  BY <1>3 DEF Later
<1>5. Later(n, PackTagged(n, p))
  <2>1. CASE p.ptype \in Wide
    <3>1. PackTagged(n, p) = PackFixed(n, p, 8)
      BY <2>1 DEF PackTagged, Wide, Narrowed
    <3> QED BY <1>4, <2>1, <3>1, FixedFit
  <2>2. CASE p.ptype \in Narrowed
    <3>1. PackTagged(n, p) = PackFixed(n, p, 4)
      BY <2>2 DEF PackTagged, Wide, Narrowed
    <3> QED BY <1>4, <2>2, <3>1, FixedFit
  <2>3. CASE p.ptype \notin Wide \cup Narrowed
    <3>1. PackTagged(n, p) = PackVarints(n, p)
      BY <2>3 DEF PackTagged
    <3> QED BY <1>4, <3>1, VarintsFit DEF Longer
  <2> QED BY <2>1, <2>2, <2>3
<1> QED BY <1>2, <1>3, <1>5, LaterOn

AllPacked == INSTANCE Recursion WITH
  Def <- LAMBDA e, x, f : x, Measure <- LAMBDA e, x : 0,
  Op <- LAMBDA c, d, e, acc, v : PackPacked(acc, v), Inv <- LAMBDA c, d, e, m, i, acc : Later(m, acc)

(* All packed fields of a message fit. *)
LEMMA AllPackedFit ==
  ASSUME staleByte \in Byte, NEW m \in Written
  PROVE  Later(m, FoldLeft(PackPacked, m, m.packed))
<1>1. AllPacked!Fold(0, 0, 0, m, m.packed) = FoldLeft(PackPacked, m, m.packed)
  BY DEF AllPacked!Fold, FoldLeft, MapThenFoldSet, AllPacked!MapThenFoldSet, Max, AllPacked!Last
<1>2. m.packed \in Seq(PackedField)
  BY WrittenFields
<1>3. ASSUME NEW i \in 1..Len(m.packed), NEW acc, Later(m, acc) PROVE Later(m, PackPacked(acc, m.packed[i]))
  <2>1. acc \in Written
    BY <1>3 DEF Later
  <2>2. m.packed[i] \in PackedField
    BY <1>2
  <2>3. Later(acc, PackPacked(acc, m.packed[i]))
    BY <2>1, <2>2, PackedFits
  <2> QED BY <1>3, <2>3, LaterOn
<1>4. Later(m, AllPacked!Fold(0, 0, 0, m, m.packed))
  <2>1. Later(m, m)
    BY DEF Later
  <2> QED BY <1>2, <1>3, <2>1, AllPacked!FoldInduction
<1> QED BY <1>1, <1>4

----------------------------------------------------------------------------
(* pbc_wmessage_buffer: sub-messages, from the last to the first. *)

(* A finished sub-message fits behind its tag and length. *)
LEMMA SubFits ==
  ASSUME NEW m \in Written, NEW id, NEW bytes \in Seq(Byte)
  PROVE  Later(m, PutSub(m, id, bytes))
<1> DEFINE head == Tag(id, WT_LEND) \o Encode32(Bits(Len(bytes)))
           all == head \o bytes
<1>1. head \in Seq(Byte) /\ Len(head) \in 2..10
  BY ShortBytes
<1> HIDE DEF head
<1>2. all \in Seq(Byte) /\ Len(all) = Len(head) + Len(bytes)
  BY <1>1, Joined
<1>3. PutSub(m, id, bytes) = Put(Expand(m, 20 + Len(bytes)), all)
  BY DEF PutSub, head
<1> HIDE DEF all
<1>4. 20 + Len(bytes) \in Nat /\ Len(all) <= 20 + Len(bytes)
  <2> DEFINE a == Len(head)  b == Len(bytes)  c == Len(all)
  <2>1. a \in 2..10 /\ b \in Nat /\ c = a + b
    BY <1>1, <1>2
  <2> HIDE DEF a, b, c
  <2>2. 20 + b \in Nat /\ c <= 20 + b
    BY <2>1
  <2> QED BY <2>2 DEF b, c
<1>5. Later(m, Put(Expand(m, 20 + Len(bytes)), all))
  BY <1>2, <1>4, ExpandPut
<1> QED BY <1>3, <1>5

Subs == INSTANCE Recursion WITH
  Def <- LAMBDA e, x, f : x, Measure <- LAMBDA e, x : 0,
  Op <- LAMBDA done, d, e, acc, s : PutSub(acc, s.id, done[s.child].buf),
  Inv <- LAMBDA done, d, e, m, i, acc : Later(m, acc)

LEMMA SubsAreFold ==
  ASSUME NEW m, NEW cells, NEW done
  PROVE  PutSubs(m, cells, done) = Subs!Fold(done, 0, 0, m, cells)
BY DEF PutSubs, Subs!Fold, FoldLeft, MapThenFoldSet, Subs!MapThenFoldSet, Max, Subs!Last

(* All sub-messages fit. *)
LEMMA SubsFit ==
  ASSUME NEW m \in Written, NEW cells \in Seq(SubCell), NEW done,
         \A i \in 1..Len(cells) : done[cells[i].child].buf \in Seq(Byte)
  PROVE  Later(m, PutSubs(m, cells, done))
<1>1. ASSUME NEW i \in 1..Len(cells), NEW acc, Later(m, acc)
      PROVE  Later(m, PutSub(acc, cells[i].id, done[cells[i].child].buf))
  <2>1. acc \in Written
    BY <1>1 DEF Later
  <2>2. Later(acc, PutSub(acc, cells[i].id, done[cells[i].child].buf))
    BY <2>1, SubFits
  <2> QED BY <1>1, <2>2, LaterOn
<1>2. Later(m, m)
  BY DEF Later
<1>3. Later(m, Subs!Fold(done, 0, 0, m, cells))
  BY <1>1, <1>2, Subs!FoldInduction
<1> QED BY <1>3, SubsAreFold

(* Sub-messages come behind the message they are part of.                  *)
ChildrenBehind(ms, h) ==
  \A i \in 1..Len(ms[h].sub.cells) : ms[h].sub.cells[i].child \in (h + 1)..Len(ms)
Tree(ms) == ms \in Seq(Written) /\ \A h \in 1..Len(ms) : ChildrenBehind(ms, h)

Finished(ms, h, f) == PutSubs(FoldLeft(PackPacked, ms[h], ms[h].packed), ms[h].sub.cells, f)
Buffers == INSTANCE Recursion WITH
  Def <- LAMBDA ms, h, f : PutSubs(FoldLeft(PackPacked, ms[h], ms[h].packed), ms[h].sub.cells, f),
  Measure <- LAMBDA ms, h : Len(ms) - h,
  Op <- LAMBDA c, d, e, acc, v : acc, Inv <- LAMBDA c, d, e, base, i, acc : TRUE

(* A message of a tree *)
LEMMA TreeAt ==
  ASSUME NEW ms, Tree(ms), NEW h \in 1..Len(ms)
  PROVE  ms[h] \in Written /\ ms[h].sub.cells \in Seq(SubCell) /\ ChildrenBehind(ms, h)
<1>1. ms[h] \in Written
  BY DEF Tree
<1>2. ms[h].sub \in ArrayOf(SubCell)
  BY <1>1, WrittenFields
<1>3. ms[h].sub.cells \in Seq(SubCell)
  BY <1>2 DEF ArrayOf
<1> QED BY <1>1, <1>3 DEF Tree

(* The messages of a tree are finished from the last to the first. *)
LEMMA BuffersWellFounded ==
  ASSUME NEW ms, Tree(ms)
  PROVE  Buffers!WellFounded(ms, 1..Len(ms))
<1>1. Len(ms) \in Nat
  BY DEF Tree
<1>2. \A h \in 1..Len(ms) : Len(ms) - h \in Nat
  BY <1>1
<1>3. ASSUME NEW h \in 1..Len(ms), NEW f, NEW g,
             \A k \in 1..Len(ms) : Len(ms) - k < Len(ms) - h => f[k] = g[k]
      PROVE  Finished(ms, h, f) = Finished(ms, h, g)
  <2> DEFINE m == FoldLeft(PackPacked, ms[h], ms[h].packed)
             cells == ms[h].sub.cells
  <2> HIDE DEF m
  <2>1. cells \in Seq(SubCell) /\ ChildrenBehind(ms, h)
    BY TreeAt
  <2>2. ASSUME NEW i \in 1..Len(cells) PROVE f[cells[i].child] = g[cells[i].child]
    <3>1. cells[i].child \in (h + 1)..Len(ms)
      BY <2>1 DEF ChildrenBehind
    <3>2. cells[i].child \in 1..Len(ms) /\ Len(ms) - cells[i].child < Len(ms) - h
      BY <1>1, <3>1
    <3> QED BY <1>3, <3>2
  <2>3. \A i \in 1..Len(cells) : \A acc :
          PutSub(acc, cells[i].id, f[cells[i].child].buf) = PutSub(acc, cells[i].id, g[cells[i].child].buf)
    BY <2>2, Zenon
  <2>4. Subs!Fold(f, 0, 0, m, cells) = Subs!Fold(g, 0, 0, m, cells)
    <3>1. cells \in Seq(SubCell)
      BY <2>1
    <3> HIDE DEF cells
    <3> QED BY <3>1, <2>3, Subs!FoldCongruence
  <2>5. PutSubs(m, cells, f) = PutSubs(m, cells, g)
    BY <2>4, SubsAreFold
  <2> QED BY <2>5 DEF Finished, m
<1> QED BY <1>2, <1>3 DEF Buffers!WellFounded, Finished

(* Buffer is what its recursion says. *)
LEMMA BufferEquation ==
  ASSUME NEW ms, Tree(ms)
  PROVE  Buffer(ms) = [h \in 1..Len(ms) |-> Finished(ms, h, Buffer(ms))]
<1>1. DOMAIN ms = 1..Len(ms)
  BY DEF Tree
<1>2. Buffer(ms) = Buffers!Rec(ms, 1..Len(ms))
  BY <1>1 DEF Buffer, Buffers!Rec
<1>3. Buffers!Rec(ms, 1..Len(ms)) = [h \in 1..Len(ms) |-> Finished(ms, h, Buffers!Rec(ms, 1..Len(ms)))]
  BY BuffersWellFounded, Buffers!RecursiveFunction DEF Finished
<1> QED BY <1>2, <1>3

(* pbc_wmessage_buffer finishes every message of the tree: each is then a  *)
(* later state of itself.                                                  *)
LEMMA BufferKeeps ==
  ASSUME staleByte \in Byte, NEW ms, Tree(ms)
  PROVE  /\ Tree(Buffer(ms)) /\ Len(Buffer(ms)) = Len(ms)
         /\ \A h \in 1..Len(ms) : Later(ms[h], Buffer(ms)[h])
<1> DEFINE L == Len(ms)
           S == 1..L
           done == Buffer(ms)
           m == [h \in S |-> L - h]
           T == {h \in S : Later(ms[h], done[h])}
<1>1. L \in Nat
  BY DEF Tree
<1>2. m \in [S -> Nat]
  BY <1>1
<1>3. ASSUME NEW h \in S, \A k \in S : m[k] < m[h] => k \in T
      PROVE  h \in T
  <2> DEFINE n == FoldLeft(PackPacked, ms[h], ms[h].packed)
  <2>1. ms[h] \in Written /\ ms[h].sub.cells \in Seq(SubCell) /\ ChildrenBehind(ms, h)
    BY TreeAt
  <2>2. done[h] = PutSubs(n, ms[h].sub.cells, done)
    BY BufferEquation, Zenon DEF Finished
  <2>3. Later(ms[h], n)
    BY <2>1, AllPackedFit
  <2> HIDE DEF n
  <2>4. ASSUME NEW i \in 1..Len(ms[h].sub.cells) PROVE done[ms[h].sub.cells[i].child].buf \in Seq(Byte)
    <3> DEFINE k == ms[h].sub.cells[i].child
    <3>1. k \in (h + 1)..L
      BY <2>1 DEF ChildrenBehind
    <3> HIDE DEF k, done
    <3>2. k \in S /\ m[k] < m[h]
      BY <1>1, <3>1
    <3>3. done[k] \in Written
      BY <1>3, <3>2 DEF Later
    <3>4. done[k].buf \in Seq(Byte)
      BY <3>3, WrittenFields
    <3> QED BY <3>4 DEF k
  <2>5. n \in Written
    BY <2>3 DEF Later
  <2> HIDE DEF done
  <2>6. Later(n, PutSubs(n, ms[h].sub.cells, done))
    BY <2>1, <2>4, <2>5, SubsFit
  <2> QED BY <2>2, <2>3, <2>6, LaterOn
<1>4. S \subseteq T
  <2> HIDE DEF S, m, T
  <2> QED BY <1>2, <1>3, Doubled!MeasureInduction
<1>5. \A h \in S : Later(ms[h], done[h])
  BY <1>4
<1>6. done = [h \in S |-> done[h]]
  <2>1. done = [h \in 1..Len(ms) |-> Finished(ms, h, done)]
    BY BufferEquation
  <2> HIDE DEF done
  <2> QED BY <2>1, Zenon
<1> HIDE DEF done
<1>7. done \in Seq(Written) /\ Len(done) = L
  <2>1. \A h \in S : done[h] \in Written
    BY <1>5 DEF Later
  <2>2. done \in [1..L -> Written]
    BY <1>6, <2>1, Zenon
  <2> HIDE DEF L
  <2> QED BY <1>1, <2>2
<1>8. ASSUME NEW h \in 1..Len(done) PROVE ChildrenBehind(done, h)
  <2>1. h \in S
    BY <1>7
  <2>2. done[h].sub = ms[h].sub
    BY <1>5, <2>1 DEF Later
  <2>3. ChildrenBehind(ms, h)
    BY <2>1 DEF Tree
  <2> QED BY <1>7, <2>2, <2>3 DEF ChildrenBehind
<1>9. Tree(done)
  BY <1>7, <1>8 DEF Tree
<1> QED BY <1>5, <1>7, <1>9 DEF done

(* pbc_wmessage_buffer writes every message of a tree, of any shape, within*)
(* its buffer, and keeps its arrays, under one hypothesis: the calls put   *)
(* no number into a packed field of a 4 byte type.  Without it this is     *)
(* false, since _pack_packed_32 asks for half the room it uses.            *)
THEOREM BufferFits ==
  ASSUME NoNarrowPacked(Menu), staleByte \in Byte, NEW ms, Tree(ms), NEW h \in 1..Len(ms)
  PROVE  /\ ~Buffer(ms)[h].over /\ Len(Buffer(ms)[h].buf) <= Buffer(ms)[h].cap
         /\ Within(Buffer(ms)[h]) /\ Buffer(ms)[h].buf \in Seq(Byte)
<1> DEFINE n == Buffer(ms)[h]
<1>1. NarrowUnpacked
  BY DEF NarrowUnpacked
<1>2. n \in Written
  BY BufferKeeps DEF Later
<1> HIDE DEF n
<1>3. n.over = FALSE /\ Len(n.buf) <= n.cap /\ n.buf \in Seq(Byte)
  BY <1>1, <1>2, WrittenFields
<1>4. Within(n)
  BY <1>1, <1>2, WrittenWithin
<1> QED BY <1>3, <1>4 DEF n

----------------------------------------------------------------------------
(* pbc_rmessage: atoms within the buffer. *)

Values == INSTANCE Recursion WITH
  Def <- LAMBDA n, b, f : IF b = 31 THEN 0 ELSE (IF b \in n THEN 1 ELSE 0) + 2 * f[b + 1],
  Measure <- LAMBDA n, b : 31 - b,
  Op <- LAMBDA c, d, e, acc, v : acc, Inv <- LAMBDA c, d, e, base, i, acc : TRUE

(* The value of a number is a natural number. *)
LEMMA ValIsNat == ASSUME NEW n PROVE Val(n) \in Nat
<1> DEFINE S == 0..31
           from == Values!Rec(n, S)
           m == [b \in S |-> 31 - b]
           T == {b \in S : from[b] \in Nat}
<1>1. Values!WellFounded(n, S)
  <2>1. \A b \in S : 31 - b \in Nat
    OBVIOUS
  <2>2. \A b \in S : b # 31 => b + 1 \in S /\ 31 - (b + 1) < 31 - b
    OBVIOUS
  <2> HIDE DEF S
  <2> QED BY <2>1, <2>2 DEF Values!WellFounded
<1>2. from = [b \in S |-> IF b = 31 THEN 0 ELSE (IF b \in n THEN 1 ELSE 0) + 2 * from[b + 1]]
  BY <1>1, Values!RecursiveFunction
<1>3. Val(n) = from[0]
  BY DEF Val, Values!Rec
<1> HIDE DEF from
<1>4. m \in [S -> Nat]
  OBVIOUS
<1>5. ASSUME NEW b \in S, \A c \in S : m[c] < m[b] => c \in T
      PROVE  b \in T
  <2>1. from[b] = IF b = 31 THEN 0 ELSE (IF b \in n THEN 1 ELSE 0) + 2 * from[b + 1]
    BY <1>2, Zenon
  <2>2. CASE b = 31
    BY <2>1, <2>2
  <2>3. CASE b # 31
    <3>1. b + 1 \in S /\ m[b + 1] < m[b]
      BY <2>3
    <3>2. from[b + 1] \in Nat
      BY <1>5, <3>1
    <3>3. (IF b \in n THEN 1 ELSE 0) \in Nat
      OBVIOUS
    <3>4. from[b] = (IF b \in n THEN 1 ELSE 0) + 2 * from[b + 1]
      BY <2>1, <2>3
    <3>5. from[b] \in Nat
      BY <3>2, <3>3, <3>4
    <3> QED BY <3>5
  <2> QED BY <2>2, <2>3
<1>6. S \subseteq T
  <2> HIDE DEF S, m, T
  <2> QED BY <1>4, <1>5, Values!MeasureInduction
<1>7. 0 \in S
  OBVIOUS
<1> QED BY <1>3, <1>6, <1>7

(* The least of a set of natural numbers *)
LEMMA Least ==
  ASSUME NEW s \in SUBSET Nat, s # {}
  PROVE  Min(s) \in s
<1> DEFINE R == OpToRel(<, Nat)
<1>1. IsWellFoundedOn(R, Nat)
  BY NatLessThanWellFounded
<1>2. PICK x \in s : \A y \in s : ~(<<y, x>> \in R)
  <2> HIDE DEF R
  <2> QED BY <1>1, WFMin
<1>3. ASSUME NEW y \in s PROVE x <= y
  <2>1. x \in Nat /\ y \in Nat /\ ~(<<y, x>> \in R)
    BY <1>2
  <2>2. ~(y < x)
    <3>1. <<y, x>> \in Nat \X Nat
      BY <2>1
    <3> QED BY <2>1, <3>1 DEF OpToRel
  <2>3. x \in Nat /\ y \in Nat
    OBVIOUS
  <2> HIDE DEF R
  <2> QED BY <2>2, <2>3
<1> QED BY <1>3 DEF Min

(* _pbcV_decode takes one to ten bytes. *)
LEMMA LengthBounds == ASSUME NEW buf PROVE Decode(buf).len \in 1..10
<1> DEFINE s == {10} \cup {k \in 1..10 : k > Len(buf) \/ 7 \notin buf[k]}
<1>1. s \in SUBSET (1..10) /\ s \in SUBSET Nat /\ s # {}
  OBVIOUS
<1> HIDE DEF s
<1>2. Min(s) \in s
  BY <1>1, Least
<1>3. VarintLength(buf) = Min(s)
  BY DEF VarintLength, s
<1> QED BY <1>1, <1>2, <1>3 DEF Decode, Varint

(* Where an atom that starts at offset at may lie *)
AtomIn(a, buf, at) ==
  /\ a.start \in at..Len(buf) /\ a.next \in (at + 1)..Len(buf) /\ a.start <= a.next
  /\ a.wt \in Nat /\ a.id \in Nat

(* An atom with the number and the places it was found at lies where it    *)
(* says.                                                                   *)
LEMMA AtomPlaces ==
  ASSUME NEW buf, NEW at \in Nat, NEW tag, NEW n, NEW start \in at..Len(buf), NEW next \in (at + 1)..Len(buf), start <= next
  PROVE  AtomIn(Atom(tag, n, start, next), buf, at)
BY ValIsNat DEF AtomIn, Atom

(* A tag that ends within the buffer *)
LEMMA PlaceAfterTag ==
  ASSUME NEW L \in Nat, NEW at \in Nat, NEW n \in 1..10, ~(at + n > L)
  PROVE  at + n <= L /\ at + n \in (at + 1)..L
OBVIOUS

(* What is read from behind a tag, and ends within the buffer, lies in it. *)
LEMMA PlacesBehind ==
  ASSUME NEW L \in Nat, NEW at \in Nat, NEW pos \in (at + 1)..L, NEW n \in 1..10, ~(pos + n > L)
  PROVE  pos \in at..L /\ pos + n \in (at + 1)..L /\ pos <= pos + n
OBVIOUS

(* _decode_varint and the other readers of atoms stay within the buffer. *)
LEMMA WireAtoms ==
  ASSUME NEW S, NEW buf \in Seq(S), NEW at \in 0..(Len(buf) - 1), WiretypeDecode(buf, at) # NoAtom
  PROVE  AtomIn(WiretypeDecode(buf, at), buf, at)
<1> DEFINE d == Decode(Suffix(buf, at))
           pos == at + d.len
           tag == d.num
           wt == Val(tag \cap 0..2)
           L == Len(buf)
<1>0. L \in Nat /\ at \in Nat
  OBVIOUS
<1>1. d.len \in 1..10
  BY LengthBounds
<1>2. WiretypeDecode(buf, at) = TaggedAtom(buf, at, d)
  BY DEF WiretypeDecode
<1> HIDE DEF d
<1>3. pos <= L /\ WiretypeDecode(buf, at) = AfterTag(buf, tag, pos) /\ pos \in (at + 1)..L
  <2>1. ~(pos > L)
    BY <1>2 DEF TaggedAtom
  <2>2. WiretypeDecode(buf, at) = AfterTag(buf, tag, pos)
    BY <1>2, <2>1 DEF TaggedAtom
  <2>3. pos <= L /\ pos \in (at + 1)..L
    <3> HIDE DEF L
    <3> QED BY <1>0, <1>1, <2>1, PlaceAfterTag, Zenon
  <2> QED BY <2>2, <2>3
<1> DEFINE a == WiretypeDecode(buf, at)
<1> HIDE DEF pos, tag, a
<1>4. CASE wt = WT_VARINT
  <2> DEFINE v == Decode(Suffix(buf, pos))
  <2>1. a = VarintAtom(buf, tag, pos, v)
    BY <1>3, <1>4 DEF AfterTag, a, WT_VARINT, WT_BIT64, WT_LEND, WT_BIT32
  <2>2. v.len \in 1..10
    BY LengthBounds
  <2> HIDE DEF v
  <2>3. ~(pos + v.len > L) /\ a = Atom(tag, v.num, pos, pos + v.len)
    BY <2>1 DEF VarintAtom, a
  <2>4. pos \in at..L /\ pos + v.len \in (at + 1)..L /\ pos <= pos + v.len
    <3> HIDE DEF L
    <3> QED BY <1>0, <1>3, <2>2, <2>3, PlacesBehind
  <2> QED BY <1>0, <2>3, <2>4, AtomPlaces DEF a
<1>5. CASE wt \in {WT_BIT64, WT_BIT32}
  <2> DEFINE w == IF wt = WT_BIT64 THEN 8 ELSE 4
             num == Unfixed(SubSeq(buf, pos + 1, pos + w))
  <2>1. a = FixedAtom(buf, tag, pos, w)
    BY <1>3, <1>5 DEF AfterTag, a, WT_VARINT, WT_BIT64, WT_LEND, WT_BIT32
  <2>2. w \in 1..10
    OBVIOUS
  <2>3. ~(pos + w > L) /\ a = Atom(tag, num, pos, pos + w)
    <3> HIDE DEF w, wt
    <3> QED BY <2>1 DEF FixedAtom, a
  <2> HIDE DEF w, num
  <2>4. pos \in at..L /\ pos + w \in (at + 1)..L /\ pos <= pos + w
    <3> HIDE DEF L
    <3> QED BY <1>0, <1>3, <2>2, <2>3, PlacesBehind
  <2> QED BY <1>0, <2>3, <2>4, AtomPlaces DEF a
<1>6. CASE wt = WT_LEND
  <2> DEFINE vl == VarintLength(Suffix(buf, pos))
             len == Decode(Suffix(buf, pos)).num
             start == pos + vl
  <2>1. a = LendAtom(buf, tag, start, len)
    BY <1>3, <1>6 DEF AfterTag, a, WT_VARINT, WT_BIT64, WT_LEND, WT_BIT32
  <2>2. vl \in 1..10
    <3>1. Decode(Suffix(buf, pos)).len = vl
      BY DEF Decode, Varint
    <3> QED BY <3>1, LengthBounds
  <2>3. Val(len) \in Nat
    BY ValIsNat
  <2> HIDE DEF vl, len
  <2>4. ~(start + Val(len) > L) /\ a = SliceAtom(tag, start, start + Val(len))
    BY <2>1 DEF LendAtom, a
  <2>5. start \in at..L /\ start + Val(len) \in (at + 1)..L /\ start <= start + Val(len)
    <3> HIDE DEF L
    <3> QED BY <1>0, <1>3, <2>2, <2>3, <2>4
  <2>6. a = Atom(tag, Bits(start) \cup Shl(Bits(start + Val(len)), 32), start, start + Val(len))
    BY <2>4 DEF SliceAtom
  <2> HIDE DEF start
  <2> QED BY <1>0, <2>5, <2>6, AtomPlaces DEF a
<1>7. CASE wt \notin {WT_VARINT, WT_BIT64, WT_LEND, WT_BIT32}
  BY <1>3, <1>7 DEF AfterTag, a
<1> QED BY <1>4, <1>5, <1>6, <1>7

(* The atoms of a message, each within its bytes.                          *)
AtomsIn(r, buf) ==
  /\ DOMAIN r = {"ok", "atoms"} /\ r.ok \in BOOLEAN
  /\ \E S : r.atoms \in Seq(S) /\ \A a \in S : \E at \in Nat : AtomIn(a, buf, at)

Atoms == INSTANCE Recursion WITH
  Def <- LAMBDA buf, at, f :
           IF at = Len(buf) THEN [ok |-> TRUE, atoms |-> <<>>]
           ELSE LET a == WiretypeDecode(buf, at)
                IN  IF a = NoAtom THEN [ok |-> FALSE, atoms |-> <<>>] ELSE Before(a, f[a.next]),
  Measure <- LAMBDA buf, at : Len(buf) - at,
  Op <- LAMBDA c, d, e, acc, v : acc, Inv <- LAMBDA c, d, e, base, i, acc : TRUE

(* Every atom is followed by fewer bytes. *)
LEMMA AtomsOnward ==
  ASSUME NEW S, NEW buf \in Seq(S), NEW at \in 0..Len(buf), at # Len(buf), WiretypeDecode(buf, at) # NoAtom
  PROVE  /\ WiretypeDecode(buf, at).next \in 0..Len(buf)
         /\ Len(buf) - WiretypeDecode(buf, at).next < Len(buf) - at
         /\ AtomIn(WiretypeDecode(buf, at), buf, at) /\ at \in Nat
<1> DEFINE L == Len(buf)  n == WiretypeDecode(buf, at).next
<1>1. L \in Nat /\ at \in Nat /\ at \in 0..(L - 1)
  OBVIOUS
<1>2. AtomIn(WiretypeDecode(buf, at), buf, at)
  BY <1>1, WireAtoms
<1>3. n \in (at + 1)..L
  BY <1>2 DEF AtomIn
<1>4. n \in 0..L /\ L - n < L - at
  <2> HIDE DEF L, n
  <2> QED BY <1>1, <1>3
<1> QED BY <1>1, <1>2, <1>4

(* AtomsFrom is what its recursion says. *)
LEMMA AtomsEquation ==
  ASSUME NEW S, NEW buf \in Seq(S)
  PROVE  AtomsFrom(buf) =
           [at \in 0..Len(buf) |->
              IF at = Len(buf) THEN [ok |-> TRUE, atoms |-> <<>>]
              ELSE LET a == WiretypeDecode(buf, at)
                   IN  IF a = NoAtom THEN [ok |-> FALSE, atoms |-> <<>>] ELSE Before(a, AtomsFrom(buf)[a.next])]
<1>1. Atoms!WellFounded(buf, 0..Len(buf))
  <2>1. \A at \in 0..Len(buf) : Len(buf) - at \in Nat
    OBVIOUS
  <2>2. \A at \in 0..Len(buf) : at # Len(buf) /\ WiretypeDecode(buf, at) # NoAtom =>
           /\ WiretypeDecode(buf, at).next \in 0..Len(buf)
           /\ Len(buf) - WiretypeDecode(buf, at).next < Len(buf) - at
    BY AtomsOnward
  <2> QED BY <2>1, <2>2, Zenon DEF Atoms!WellFounded
<1>2. AtomsFrom(buf) = Atoms!Rec(buf, 0..Len(buf))
  BY DEF AtomsFrom, Atoms!Rec
<1> DEFINE rec == Atoms!Rec(buf, 0..Len(buf))
<1>3. rec = [at \in 0..Len(buf) |->
               IF at = Len(buf) THEN [ok |-> TRUE, atoms |-> <<>>]
               ELSE LET a == WiretypeDecode(buf, at)
                    IN  IF a = NoAtom THEN [ok |-> FALSE, atoms |-> <<>>] ELSE Before(a, rec[a.next])]
  BY <1>1, Atoms!RecursiveFunction
<1>4. AtomsFrom(buf) = rec
  BY <1>2
<1> HIDE DEF rec
<1> QED BY <1>3, <1>4, Zenon

(* From every offset the atoms that are read lie within the buffer. *)
LEMMA AtomsRead ==
  ASSUME NEW V, NEW buf \in Seq(V)
  PROVE  \A at \in 0..Len(buf) : AtomsIn(AtomsFrom(buf)[at], buf)
<1> DEFINE L == Len(buf)
           S == 0..L
           from == AtomsFrom(buf)
           m == [at \in S |-> L - at]
           T == {at \in S : AtomsIn(from[at], buf)}
<1>1. L \in Nat
  OBVIOUS
<1>2. m \in [S -> Nat]
  BY <1>1
<1>3. ASSUME NEW at \in S, \A k \in S : m[k] < m[at] => k \in T
      PROVE  AtomsIn(from[at], buf)
  <2> DEFINE a == WiretypeDecode(buf, at)
  <2>1. from[at] = IF at = L THEN [ok |-> TRUE, atoms |-> <<>>]
                   ELSE IF a = NoAtom THEN [ok |-> FALSE, atoms |-> <<>>] ELSE Before(a, from[a.next])
    BY AtomsEquation, Zenon
  <2> HIDE DEF from
  <2>2. CASE at = L \/ a = NoAtom
    <3>1. PICK ok \in BOOLEAN : from[at] = [ok |-> ok, atoms |-> <<>>]
      BY <2>1, <2>2
    <3>2. from[at].atoms \in Seq({}) /\ from[at].ok \in BOOLEAN /\ DOMAIN from[at] = {"ok", "atoms"}
      BY <3>1
    <3>3. \E U : from[at].atoms \in Seq(U) /\ \A b \in U : \E k \in Nat : AtomIn(b, buf, k)
      <4>1. PICK U : U = {}
        OBVIOUS
      <4>2. from[at].atoms \in Seq(U)
        BY <3>2, <4>1
      <4>3. \A b \in U : \E k \in Nat : AtomIn(b, buf, k)
        BY <4>1
      <4> QED BY <4>2, <4>3, Zenon
    <3> QED BY <3>2, <3>3 DEF AtomsIn
  <2>3. CASE at # L /\ a # NoAtom
    <3>1. a.next \in S /\ L - a.next < L - at /\ AtomIn(a, buf, at) /\ at \in Nat
      BY <2>3, AtomsOnward
    <3>2. from[at] = Before(a, from[a.next])
      BY <2>1, <2>3
    <3> HIDE DEF a
    <3>3. m[a.next] < m[at]
      BY <3>1
    <3>4. AtomsIn(from[a.next], buf)
      BY <1>3, <3>1, <3>3
    <3> DEFINE r == from[a.next]
    <3> HIDE DEF r
    <3>5. DOMAIN r = {"ok", "atoms"} /\ r.ok \in BOOLEAN
      BY <3>4 DEF AtomsIn, r
    <3>6. PICK U : r.atoms \in Seq(U) /\ \A b \in U : \E k \in Nat : AtomIn(b, buf, k)
      BY <3>4 DEF AtomsIn, r
    <3>7. Before(a, r).atoms = <<a>> \o r.atoms /\ Before(a, r).ok = r.ok /\ DOMAIN Before(a, r) = {"ok", "atoms"}
      BY <3>5, Zenon DEF Before
    <3>8. <<a>> \o r.atoms \in Seq(U \cup {a})
      <4>1. <<a>> \in Seq(U \cup {a}) /\ r.atoms \in Seq(U \cup {a})
        BY <3>6
      <4> QED BY <4>1, Joined
    <3>9. \A b \in U \cup {a} : \E k \in Nat : AtomIn(b, buf, k)
      BY <3>1, <3>6
    <3> QED BY <3>2, <3>5, <3>7, <3>8, <3>9 DEF AtomsIn, r
  <2> QED BY <2>2, <2>3
<1>4. S \subseteq T
  <2> HIDE DEF from
  <2>1. \A at \in S : (\A k \in S : m[k] < m[at] => k \in T) => at \in T
    BY <1>3
  <2> HIDE DEF S, m, T
  <2> QED BY <1>2, <2>1, Atoms!MeasureInduction
<1> QED BY <1>4

(* So do those of _pbcC_open. *)
LEMMA OpenAtoms ==
  ASSUME NEW V, NEW buf \in Seq(V)
  PROVE  /\ Open(buf).number \in Int
         /\ Open(buf).number > 0 => \E S : /\ Open(buf).atoms \in Seq(S) /\ Len(Open(buf).atoms) = Open(buf).number
                                           /\ \A a \in S : \E at \in Nat : AtomIn(a, buf, at)
<1> DEFINE r == AtomsFrom(buf)[0]
<1>1. AtomsIn(r, buf)
  <2>1. 0 \in 0..Len(buf)
    OBVIOUS
  <2> QED BY <2>1, AtomsRead
<1>2. Open(buf) = [number |-> IF r.ok THEN Len(r.atoms) ELSE -Len(r.atoms), atoms |-> IF r.ok THEN r.atoms ELSE <<>>]
  BY DEF Open, Opened
<1> HIDE DEF r
<1>3. PICK S : r.atoms \in Seq(S) /\ \A a \in S : \E at \in Nat : AtomIn(a, buf, at)
  BY <1>1 DEF AtomsIn
<1>4. Len(r.atoms) \in Nat
  BY <1>3
<1>5. Open(buf).number \in Int
  BY <1>2, <1>4
<1>6. Open(buf).number > 0 => Open(buf).atoms = r.atoms /\ Open(buf).number = Len(r.atoms)
  BY <1>2, <1>4
<1> QED BY <1>3, <1>5, <1>6

----------------------------------------------------------------------------
(* The elements of packed fields that are read, and arrays of them. *)

IsSeq(s) == \E S : s \in Seq(S)

(* A function on 1..n is a sequence. *)
LEMMA FunctionIsSeq ==
  ASSUME NEW n \in Nat, NEW f, f = [i \in 1..n |-> f[i]]
  PROVE  IsSeq(f) /\ Len(f) = n /\ f \in Seq({f[i] : i \in 1..n})
<1> DEFINE S == {f[i] : i \in 1..n}
<1>1. f \in [1..n -> S]
  BY Zenon
<1> HIDE DEF S
<1>2. f \in Seq(S) /\ Len(f) = n
  BY <1>1
<1>3. IsSeq(f)
  BY <1>2, Zenon DEF IsSeq
<1> QED BY <1>2, <1>3 DEF S

LEMMA SeqLength == ASSUME NEW s, IsSeq(s) PROVE Len(s) \in Nat /\ DOMAIN s = 1..Len(s)
<1>1. PICK S : s \in Seq(S)
  BY DEF IsSeq
<1> QED BY <1>1

(* A sequence taken element by element is a sequence. *)
LEMMA MappedIsSeq ==
  ASSUME NEW s, IsSeq(s), NEW g, g = [i \in DOMAIN s |-> g[i]]
  PROVE  IsSeq(g)
<1>1. Len(s) \in Nat /\ DOMAIN s = 1..Len(s)
  BY SeqLength
<1> QED BY <1>1, FunctionIsSeq

(* The bytes of an atom: of a slice, some of the buffer's                  *)
LEMMA SliceIsSeq ==
  ASSUME NEW a, NEW buf, NEW at \in Nat, AtomIn(a, buf, at), Len(buf) \in Nat
  PROVE  IsSeq(Slice(a, buf))
<1> DEFINE k == End(a) - Start(a)  f == [i \in 1..k |-> buf[Start(a) + i]]
<1>1. Start(a) \in Int /\ End(a) \in Int
  <2>1. a.start \in Int /\ a.next \in Int
    BY DEF AtomIn
  <2> QED BY <2>1, ValIsNat DEF Start, End
<1>2. Slice(a, buf) = f
  BY DEF Slice
<1>3. CASE k \in Nat
  <2>1. f = [i \in 1..k |-> f[i]]
    BY Zenon
  <2> HIDE DEF k, f
  <2> QED BY <1>2, <1>3, <2>1, FunctionIsSeq
<1>4. CASE k \notin Nat
  <2>1. 1..k = {}
    <3>1. k \in Int
      BY <1>1
    <3> HIDE DEF k
    <3> QED BY <1>4, <3>1
  <2>2. f = [i \in {} |-> buf[Start(a) + i]]
    BY <2>1
  <2>3. f = <<>>
    BY <2>2
  <2>4. <<>> \in Seq({})
    OBVIOUS
  <2> QED BY <1>2, <2>3, <2>4, Zenon DEF IsSeq
<1> QED BY <1>3, <1>4

LEMMA SliceBytesIn ==
  ASSUME NEW a, NEW S, NEW buf \in Seq(S), NEW at \in Nat, AtomIn(a, buf, at), a.wt = WT_LEND
  PROVE  Slice(a, buf) \in Seq(S)
<1> DEFINE k == a.next - a.start  f == [i \in 1..k |-> buf[a.start + i]]  L == Len(buf)
<1>1. a.start \in at..L /\ a.next \in (at + 1)..L /\ a.start <= a.next /\ L \in Nat
  BY DEF AtomIn
<1>2. Slice(a, buf) = f
  BY DEF Slice, Start, End
<1>3. k \in Nat /\ \A i \in 1..k : a.start + i \in 1..L
  <2> HIDE DEF L
  <2> QED BY <1>1
<1>4. \A i \in 1..k : buf[a.start + i] \in S
  BY <1>3
<1>5. f \in [1..k -> S]
  BY <1>4, Zenon
<1> HIDE DEF f, k
<1>6. f \in Seq(S)
  BY <1>3, <1>5
<1> QED BY <1>2, <1>6

(* The elements of a packed field of varints                               *)
IsRun(r) == DOMAIN r = {"ok", "vals"} /\ IsSeq(r.vals)

Runs == INSTANCE Recursion WITH
  Def <- LAMBDA buf, at, f :
           IF at = Len(buf) THEN [ok |-> TRUE, vals |-> <<>>]
           ELSE LET d == Decode(Suffix(buf, at))
                IN  IF at + d.len > Len(buf) THEN [ok |-> FALSE, vals |-> <<>>]
                    ELSE BeforeVals(d.num, f[at + d.len]),
  Measure <- LAMBDA buf, at : Len(buf) - at,
  Op <- LAMBDA c, d, e, acc, v : Push(acc, v), Inv <- LAMBDA c, d, e, base, i, acc : \E S : acc \in ArrayOf(S)

(* Every varint is followed by fewer bytes. *)
LEMMA VarintsOnward ==
  ASSUME NEW buf, Len(buf) \in Nat, NEW at \in 0..Len(buf), ~(at + Decode(Suffix(buf, at)).len > Len(buf))
  PROVE  /\ at + Decode(Suffix(buf, at)).len \in 0..Len(buf)
         /\ Len(buf) - (at + Decode(Suffix(buf, at)).len) < Len(buf) - at
<1> DEFINE n == Decode(Suffix(buf, at)).len  L == Len(buf)
<1>1. n \in 1..10
  BY LengthBounds
<1>2. L \in Nat /\ at \in 0..L /\ ~(at + n > L)
  OBVIOUS
<1> HIDE DEF n, L
<1>3. at + n \in 0..L /\ L - (at + n) < L - at
  BY <1>1, <1>2
<1> QED BY <1>3 DEF n, L

LEMMA EmptyRun == ASSUME NEW ok PROVE IsRun([ok |-> ok, vals |-> <<>>])
<1>1. <<>> \in Seq({})
  OBVIOUS
<1>2. IsSeq(<<>>)
  BY <1>1, Zenon DEF IsSeq
<1> QED BY <1>2 DEF IsRun

LEMMA RunBefore == ASSUME NEW n, NEW r, IsRun(r) PROVE IsRun(BeforeVals(n, r))
<1>1. PICK U : r.vals \in Seq(U)
  BY DEF IsRun, IsSeq
<1>2. <<n>> \in Seq(U \cup {n}) /\ r.vals \in Seq(U \cup {n})
  BY <1>1
<1>3. <<n>> \o r.vals \in Seq(U \cup {n})
  BY <1>2, Joined
<1>4. IsSeq(<<n>> \o r.vals)
  BY <1>3, Zenon DEF IsSeq
<1>5. BeforeVals(n, r).vals = <<n>> \o r.vals /\ DOMAIN BeforeVals(n, r) = {"ok", "vals"}
  BY Zenon DEF IsRun, BeforeVals
<1> QED BY <1>4, <1>5 DEF IsRun

(* The varints of a packed field, a sequence *)
LEMMA VarintsRun == ASSUME NEW buf, IsSeq(buf) PROVE IsRun(Varints(buf))
<1> DEFINE L == Len(buf)
           S == 0..L
           from == Runs!Rec(buf, S)
           m == [at \in S |-> L - at]
           T == {at \in S : IsRun(from[at])}
<1>1. L \in Nat
  BY SeqLength
<1>2. m \in [S -> Nat]
  BY <1>1
<1>3. Runs!WellFounded(buf, S)
  <2>1. \A at \in S : L - at \in Nat
    BY <1>1
  <2>2. \A at \in S : ~(at + Decode(Suffix(buf, at)).len > L) =>
           at + Decode(Suffix(buf, at)).len \in S /\ L - (at + Decode(Suffix(buf, at)).len) < L - at
    BY <1>1, VarintsOnward
  <2> QED BY <2>1, <2>2, Zenon DEF Runs!WellFounded
<1>4. from = [at \in S |->
           IF at = Len(buf) THEN [ok |-> TRUE, vals |-> <<>>]
           ELSE LET d == Decode(Suffix(buf, at))
                IN  IF at + d.len > Len(buf) THEN [ok |-> FALSE, vals |-> <<>>]
                    ELSE BeforeVals(d.num, from[at + d.len])]
  BY <1>3, Runs!RecursiveFunction
<1>5. Varints(buf) = from[0]
  BY DEF Varints, Runs!Rec
<1> HIDE DEF from
<1>6. ASSUME NEW at \in S, \A k \in S : m[k] < m[at] => k \in T
      PROVE  at \in T
  <2> DEFINE d == Decode(Suffix(buf, at))
  <2>1. from[at] = IF at = L THEN [ok |-> TRUE, vals |-> <<>>]
                   ELSE IF at + d.len > L THEN [ok |-> FALSE, vals |-> <<>>] ELSE BeforeVals(d.num, from[at + d.len])
    BY <1>4, Zenon
  <2>2. CASE at = L \/ at + d.len > L
    <3> HIDE DEF d
    <3>1. from[at] = [ok |-> TRUE, vals |-> <<>>] \/ from[at] = [ok |-> FALSE, vals |-> <<>>]
      BY <2>1, <2>2, Zenon
    <3> QED BY <3>1, EmptyRun
  <2>3. CASE at # L /\ ~(at + d.len > L)
    <3>1. at + d.len \in S /\ L - (at + d.len) < L - at
      BY <1>1, <2>3, VarintsOnward
    <3> HIDE DEF d
    <3>2. IsRun(from[at + d.len])
      BY <1>6, <3>1
    <3>3. from[at] = BeforeVals(d.num, from[at + d.len])
      BY <2>1, <2>3, Zenon
    <3> QED BY <3>2, <3>3, RunBefore
  <2> QED BY <2>2, <2>3
<1>7. S \subseteq T
  <2> HIDE DEF S, m, T
  <2> QED BY <1>2, <1>6, Runs!MeasureInduction
<1>8. 0 \in S
  BY <1>1
<1> QED BY <1>5, <1>7, <1>8

(* The numbers of fixed width of a packed field, a sequence *)
LEMMA WidthsRun == ASSUME NEW buf, IsSeq(buf), NEW w \in {4, 8} PROVE IsRun(FixedWidths(buf, w))
<1> DEFINE n == Len(buf) \div w
           f == [i \in 1..n |-> Unfixed(SubSeq(buf, w * (i - 1) + 1, w * i))]
<1>1. n \in Nat
  <2>1. Len(buf) \in Nat
    BY SeqLength
  <2> DEFINE L == Len(buf)
  <2> HIDE DEF L
  <2>2. L \in Nat
    BY <2>1 DEF L
  <2>3. L \div w \in Nat
    BY <2>2, SMT
  <2> QED BY <2>3 DEF L
<1>2. CASE Len(buf) % w # 0
  <2>1. FixedWidths(buf, w) = [ok |-> FALSE, vals |-> <<>>]
    BY <1>2 DEF FixedWidths
  <2> QED BY <2>1, EmptyRun
<1>3. CASE Len(buf) % w = 0
  <2>1. FixedWidths(buf, w) = [ok |-> TRUE, vals |-> f]
    BY <1>3 DEF FixedWidths
  <2>2. f = [i \in 1..n |-> f[i]]
    BY Zenon
  <2> HIDE DEF n, f
  <2>3. IsSeq(f)
    BY <1>1, <2>2, FunctionIsSeq
  <2> QED BY <2>1, <2>3 DEF IsRun
<1> QED BY <1>2, <1>3

(* The elements of a packed field of any type *)
LEMMA UnpackedRun ==
  ASSUME NEW type, NEW buf, IsSeq(buf)
  PROVE  IsSeq(UnpackPacked(type, buf).vals)
<1> DEFINE r == RawPacked(type, buf)
           f == [i \in DOMAIN r.vals |-> FromWire(type, r.vals[i])]
<1>1. IsRun(r)
  <2>1. CASE type \in Wide
    <3>1. r = FixedWidths(buf, 8)
      BY <2>1 DEF RawPacked, Wide, Narrowed, Numeric
    <3> QED BY <3>1, WidthsRun
  <2>2. CASE type \in Narrowed
    <3>1. r = FixedWidths(buf, 4)
      BY <2>2 DEF RawPacked, Wide, Narrowed, Numeric
    <3> QED BY <3>1, WidthsRun
  <2>3. CASE type \in Numeric \ (Wide \cup Narrowed)
    <3>1. r = Varints(buf)
      BY <2>3 DEF RawPacked, Wide, Narrowed, Numeric
    <3> QED BY <3>1, VarintsRun
  <2>4. CASE type \notin Wide \cup Narrowed \cup Numeric
    <3>1. r = [ok |-> FALSE, vals |-> <<>>]
      BY <2>4 DEF RawPacked
    <3> QED BY <3>1, EmptyRun
  <2> QED BY <2>1, <2>2, <2>3, <2>4
<1> HIDE DEF r
<1>2. UnpackPacked(type, buf).vals = f
  BY <1>1, Zenon DEF UnpackPacked, IsRun, r
<1>3. f = [i \in DOMAIN r.vals |-> f[i]]
  BY Zenon
<1> HIDE DEF f
<1>4. IsSeq(f)
  BY <1>1, <1>3, MappedIsSeq DEF IsRun
<1> QED BY <1>2, <1>4

(* An array may be given an element of another kind. *)
LEMMA PushAny ==
  ASSUME NEW S, NEW a \in ArrayOf(S), NEW v
  PROVE  Push(a, v) \in ArrayOf(S \cup {v})
<1>1. a \in ArrayOf(S \cup {v})
  BY DEF ArrayOf
<1> QED BY <1>1, PushFits

(* An array may be given many, one after the other. *)
LEMMA PushAll ==
  ASSUME NEW a, NEW S, a \in ArrayOf(S), NEW vals, IsSeq(vals)
  PROVE  \E U : FoldLeft(Push, a, vals) \in ArrayOf(U)
<1>1. Runs!Fold(0, 0, 0, a, vals) = FoldLeft(Push, a, vals)
  BY DEF Runs!Fold, FoldLeft, MapThenFoldSet, Runs!MapThenFoldSet, Max, Runs!Last
<1>2. PICK V : vals \in Seq(V)
  BY DEF IsSeq
<1>3. ASSUME NEW i \in 1..Len(vals), NEW acc, \E U : acc \in ArrayOf(U) PROVE \E U : Push(acc, vals[i]) \in ArrayOf(U)
  <2>1. PICK U : acc \in ArrayOf(U)
    BY <1>3
  <2>2. Push(acc, vals[i]) \in ArrayOf(U \cup {vals[i]})
    BY <2>1, PushAny
  <2> QED BY <2>2, Zenon
<1>4. \E U : Runs!Fold(0, 0, 0, a, vals) \in ArrayOf(U)
  BY <1>2, <1>3, Runs!FoldInduction
<1> QED BY <1>1, <1>4

----------------------------------------------------------------------------
(* pbc_rmessage: every array of every message, at every depth. *)

Level(n, f) == [x \in (DOMAIN Fields) \X Seq(Byte) |-> IF n = 0 THEN Message(x[1]) ELSE ReadOne(f[n - 1], x[1], x[2])]
Levels == INSTANCE Recursion WITH
  Def <- LAMBDA e, n, f : Level(n, f),
  Measure <- LAMBDA e, n : n,
  Op <- LAMBDA c, d, e, acc, v : acc, Inv <- LAMBDA c, d, e, base, i, acc : TRUE

(* ReadLevels is what its recursion says. *)
LEMMA LevelsEquation ==
  ASSUME NEW n \in Nat, NEW type \in DOMAIN Fields, NEW buf \in Seq(Byte)
  PROVE  ReadLevels[n][<<type, buf>>] = IF n = 0 THEN Message(type) ELSE ReadOne(ReadLevels[n - 1], type, buf)
<1>1. Levels!WellFounded(0, Nat)
  <2>1. \A n1 \in Nat : n1 # 0 => n1 - 1 \in Nat /\ n1 - 1 < n1
    OBVIOUS
  <2> QED BY <2>1, Zenon DEF Levels!WellFounded, Level
<1> DEFINE rec == Levels!Rec(0, Nat)
<1>2. rec = [k \in Nat |-> Level(k, rec)]
  BY <1>1, Levels!RecursiveFunction
<1>3. ReadLevels = rec
  BY DEF ReadLevels, Levels!Rec, Level
<1> HIDE DEF rec
<1>4. rec[n] = [x \in (DOMAIN Fields) \X Seq(Byte) |->
                              IF n = 0 THEN Message(x[1]) ELSE ReadOne(rec[n - 1], x[1], x[2])]
  BY <1>2, Zenon DEF Level
<1>5. <<type, buf>> \in (DOMAIN Fields) \X Seq(Byte) /\ <<type, buf>>[1] = type /\ <<type, buf>>[2] = buf
  OBVIOUS
<1>6. rec[n][<<type, buf>>] = IF n = 0 THEN Message(type) ELSE ReadOne(rec[n - 1], type, buf)
  <2> DEFINE x == <<type, buf>>
  <2>1. x \in (DOMAIN Fields) \X Seq(Byte) /\ x[1] = type /\ x[2] = buf
    BY <1>5
  <2> HIDE DEF x
  <2>2. rec[n][x] = IF n = 0 THEN Message(x[1]) ELSE ReadOne(rec[n - 1], x[1], x[2])
    BY <1>4, <2>1, Zenon
  <2>3. rec[n][x] = IF n = 0 THEN Message(type) ELSE ReadOne(rec[n - 1], type, buf)
    BY <2>1, <2>2
  <2> QED BY <2>3 DEF x
<1> QED BY <1>3, <1>6

(* Every message the reader makes                                          *)
Results == {NULLMessage} \cup UNION {{ReadLevels[n][x] : x \in (DOMAIN Fields) \X Seq(Byte)} : n \in Nat}

LEMMA ReadIsResult ==
  ASSUME NEW n \in Nat, NEW type \in DOMAIN Fields, NEW buf \in Seq(Byte)
  PROVE  ReadLevels[n][<<type, buf>>] \in Results
<1> DEFINE x == <<type, buf>>
<1>1. x \in (DOMAIN Fields) \X Seq(Byte)
  OBVIOUS
<1> HIDE DEF x
<1>2. ReadLevels[n][x] \in Results
  BY <1>1 DEF Results
<1> QED BY <1>2 DEF x

(* The array of a field of a message: as a field of sub-messages it has    *)
(* what the reader has made.                                               *)
Held(f, array) == \E S : array \in ArrayOf(S) /\ (f.type = "message" => S \subseteq Results)
IndexHeld(type, index) ==
  DOMAIN index = DOMAIN Fields[type] /\ \A k \in DOMAIN index : Held(Fields[type][k], index[k])

LEMMA EmptyHeld == ASSUME NEW f PROVE Held(f, EmptyArray)
<1>1. PICK S : S = {}
  OBVIOUS
<1>2. EmptyArray \in ArrayOf(S) /\ S \subseteq Results
  BY <1>1, EmptyArrayFits
<1> QED BY <1>2, Zenon DEF Held

(* A message that was not given any field holds its fields. *)
LEMMA MessageHeld == ASSUME NEW type PROVE IndexHeld(type, Message(type).index)
<1>1. Message(type).index = [k \in DOMAIN Fields[type] |-> EmptyArray]
  BY DEF Message
<1> QED BY <1>1, EmptyHeld, Zenon DEF IndexHeld

(* A value more for a field *)
LEMMA PushHeld ==
  ASSUME NEW f, NEW array, Held(f, array), NEW v, f.type = "message" => v \in Results
  PROVE  Held(f, Push(array, v))
<1>1. PICK S : array \in ArrayOf(S) /\ (f.type = "message" => S \subseteq Results)
  BY DEF Held
<1>2. Push(array, v) \in ArrayOf(S \cup {v})
  BY <1>1, PushAny
<1>3. f.type = "message" => S \cup {v} \subseteq Results
  BY <1>1
<1> QED BY <1>2, <1>3, Zenon DEF Held

(* Names given to the first elements of an array leave its memory as it is.*)
LEMMA NamedFirst ==
  ASSUME NEW S, NEW a \in ArrayOf(S), NEW count
  PROVE  \E U : NameFirst(a, count) \in ArrayOf(U)
<1> DEFINE g == [i \in DOMAIN a.cells |-> IF i <= count THEN a.cells[i] \ {NAMELESS} ELSE a.cells[i]]
           n == NameFirst(a, count)
<1>1. a \in [cells : Seq(S), cap : Nat] /\ GrownWell(a) /\ Len(a.cells) \in Nat /\ DOMAIN a.cells = 1..Len(a.cells)
  BY DEF ArrayOf
<1>2. n = [cells |-> g, cap |-> a.cap]
  <2>1. n = [a EXCEPT !.cells = g]
    BY Zenon DEF NameFirst
  <2> HIDE DEF g, n
  <2> QED BY <1>1, <2>1
<1>3. g = [i \in 1..Len(a.cells) |-> g[i]]
  BY <1>1, Zenon
<1> HIDE DEF g, n
<1>4. PICK U : g \in Seq(U) /\ Len(g) = Len(a.cells)
  BY <1>1, <1>3, FunctionIsSeq
<1>5. n \in ArrayOf(U)
  BY <1>1, <1>2, <1>4 DEF ArrayOf, GrownWell
<1> QED BY <1>5 DEF n

(* The elements of one occurrence of a packed field are pushed, and named. *)
LEMMA PackedHeld ==
  ASSUME NEW S, NEW array \in ArrayOf(S), NEW f, NEW u, IsSeq(u.vals)
  PROVE  \E U : PushUnpackedValues(array, f, u) \in ArrayOf(U)
<1> DEFINE vals == [i \in DOMAIN u.vals |-> Nameless(f, u.vals[i])]
           pushed == FoldLeft(Push, array, vals)
<1>1. vals = [i \in DOMAIN u.vals |-> vals[i]]
  BY Zenon
<1>2. PushNameless(array, f, u.vals) = pushed
  BY DEF PushNameless
<1> HIDE DEF vals
<1>3. IsSeq(vals)
  BY <1>1, MappedIsSeq
<1>4. PICK U : pushed \in ArrayOf(U)
  BY <1>3, PushAll
<1> HIDE DEF pushed
<1>5. PushUnpackedValues(array, f, u) = pushed \/ PushUnpackedValues(array, f, u) = NameFirst(pushed, Len(u.vals))
  BY <1>2, Zenon DEF PushUnpackedValues
<1> QED BY <1>4, <1>5, NamedFirst

(* What _pbc_rmessage does for one atom, for its field *)
LEMMA AtomHeld ==
  ASSUME NEW n \in Nat, NEW type \in DOMAIN Fields, NEW key \in DOMAIN Fields[type], NEW buf \in Seq(Byte),
         NEW array, Held(Fields[type][key], array), NEW a, NEW at \in Nat, AtomIn(a, buf, at)
  PROVE  Held(Fields[type][key], AddAtom(ReadLevels[n], array, Fields[type][key], a, buf))
<1> DEFINE f == Fields[type][key]
           sub == ReadLevels[n]
<1>1. /\ f.label = "packed" => f.type # "message"
      /\ f.type = "message" => f.of \in DOMAIN Fields
  <2>1. "message" \notin Numeric
    BY DEF Numeric
  <2> QED BY <2>1, FieldsAssumption
<1>2. CASE f.label = "packed"
  <2> DEFINE u == UnpackPacked(f.type, Slice(a, buf))
  <2>1. Len(buf) \in Nat
    OBVIOUS
  <2>2. IsSeq(Slice(a, buf))
    BY <2>1, SliceIsSeq
  <2>3. IsSeq(u.vals)
    BY <2>2, UnpackedRun
  <2>4. AddAtom(sub, array, f, a, buf) = PushUnpackedValues(array, f, u)
    <3>1. ~Lend(f.type)
      BY <1>2, FieldsAssumption DEF Lend, Numeric
    <3>2. AddAtom(sub, array, f, a, buf) = PushPackedValues(array, f, a, buf)
      <4> HIDE DEF f, sub
      <4> QED BY <1>2, <3>1 DEF AddAtom
    <3> QED BY <3>2, Zenon DEF PushPackedValues
  <2> HIDE DEF u
  <2>5. PICK S : array \in ArrayOf(S)
    BY DEF Held
  <2>6. PICK U : PushUnpackedValues(array, f, u) \in ArrayOf(U)
    BY <2>3, <2>5, PackedHeld
  <2>7. AddAtom(sub, array, f, a, buf) \in ArrayOf(U)
    BY <2>4, <2>6
  <2> QED BY <1>1, <1>2, <2>7, Zenon DEF Held
<1>3. CASE f.label # "packed" /\ Lend(f.type) /\ a.wt # WT_LEND
  <2>1. AddAtom(sub, array, f, a, buf) = array
    BY <1>3 DEF AddAtom
  <2> QED BY <2>1
<1>4. CASE f.label # "packed" /\ ~(Lend(f.type) /\ a.wt # WT_LEND)
  <2> DEFINE v == Element(sub, f, a, buf)
  <2>1. AddAtom(sub, array, f, a, buf) = PushElement(array, f, v)
    BY <1>4 DEF AddAtom
  <2>2. f.type = "message" => v \in Results
    <3> SUFFICES ASSUME f.type = "message" PROVE v \in Results
      OBVIOUS
    <3>1. a.wt = WT_LEND
      BY <1>4 DEF Lend
    <3>2. Slice(a, buf) \in Seq(Byte) /\ f.of \in DOMAIN Fields
      BY <1>1, <3>1, SliceBytesIn
    <3>3. v = sub[<<f.of, Slice(a, buf)>>]
      BY DEF Element
    <3> HIDE DEF v
    <3> QED BY <3>2, <3>3, ReadIsResult
  <2> HIDE DEF v
  <2>3. Held(f, Push(array, v))
    BY <2>2, PushHeld
  <2>4. PushElement(array, f, v) = array \/ PushElement(array, f, v) = Push(array, v)
    BY DEF PushElement
  <2> QED BY <2>1, <2>3, <2>4
<1> QED BY <1>2, <1>3, <1>4

Reading == INSTANCE Recursion WITH
  Def <- LAMBDA e, x, f : x, Measure <- LAMBDA e, x : 0,
  Op <- LAMBDA sub, type, buf, index, a : AddTo(sub, type, index, a, buf),
  Inv <- LAMBDA sub, type, buf, base, i, index : IndexHeld(type, index)

(* The same, for the message *)
LEMMA AddHeld ==
  ASSUME NEW n \in Nat, NEW type \in DOMAIN Fields, NEW buf \in Seq(Byte),
         NEW index, IndexHeld(type, index), NEW a, NEW at \in Nat, AtomIn(a, buf, at)
  PROVE  IndexHeld(type, AddTo(ReadLevels[n], type, index, a, buf))
<1> DEFINE key == NameOf(type, a.id)
           sub == ReadLevels[n]
           x == AddAtom(sub, index[key], Fields[type][key], a, buf)
<1>1. CASE ~HasId(type, a.id)
  BY <1>1 DEF AddTo
<1>2. CASE HasId(type, a.id)
  <2>1. AddTo(sub, type, index, a, buf) = [index EXCEPT ![key] = x]
    BY <1>2 DEF AddTo
  <2>2. key \in DOMAIN Fields[type] => Held(Fields[type][key], x)
    <3> SUFFICES ASSUME key \in DOMAIN Fields[type] PROVE Held(Fields[type][key], x)
      OBVIOUS
    <3> HIDE DEF key
    <3>1. Held(Fields[type][key], index[key])
      BY Zenon DEF IndexHeld
    <3> QED BY <3>1, AtomHeld
  <2> HIDE DEF key, x
  <2>3. IndexHeld(type, [index EXCEPT ![key] = x])
    <3> DEFINE j == [index EXCEPT ![key] = x]
    <3>1. DOMAIN j = DOMAIN Fields[type]
      BY Zenon DEF IndexHeld
    <3>2. ASSUME NEW k \in DOMAIN Fields[type] PROVE Held(Fields[type][k], j[k])
      <4>1. k \in DOMAIN index /\ Held(Fields[type][k], index[k])
        BY Zenon DEF IndexHeld
      <4>2. j[k] = IF k = key THEN x ELSE index[k]
        BY <4>1, Zenon
      <4> QED BY <2>2, <4>1, <4>2
    <3> HIDE DEF j
    <3> QED BY <3>1, <3>2, Zenon DEF IndexHeld, j
  <2> QED BY <2>1, <2>3
<1> QED BY <1>1, <1>2

(* What the reader makes of a message is empty, or holds its fields.       *)
Made(r) ==
  \/ r = NULLMessage
  \/ r.msg \in DOMAIN Fields /\ IndexHeld(r.msg, r.index)

(* A message that was read holds its fields, at every level. *)
LEMMA ReadHeld ==
  ASSUME NEW n \in Nat, NEW type \in DOMAIN Fields, NEW buf \in Seq(Byte)
  PROVE  Made(ReadOne(ReadLevels[n], type, buf))
<1> DEFINE ctx == Open(buf)
           base == Message(type).index
           sub == ReadLevels[n]
           index == FoldLeft(LAMBDA i, a : AddTo(sub, type, i, a, buf), base, ctx.atoms)
<1>1. CASE buf = <<>>
  <2>1. ReadOne(sub, type, buf) = Message(type)
    BY <1>1 DEF ReadOne
  <2>2. Message(type).msg = type
    BY DEF Message
  <2> QED BY <2>1, <2>2, MessageHeld DEF Made
<1>2. CASE buf # <<>> /\ ctx.number <= 0
  <2>1. ReadOne(sub, type, buf) = NULLMessage
    BY <1>2 DEF ReadOne, ReadAtoms
  <2> QED BY <2>1 DEF Made
<1>3. CASE buf # <<>> /\ ~(ctx.number <= 0)
  <2>1. ReadOne(sub, type, buf) = [msg |-> type, index |-> index]
    BY <1>3 DEF ReadOne, ReadAtoms
  <2>2. index = Reading!Fold(sub, type, buf, base, ctx.atoms)
    BY DEF Reading!Fold, FoldLeft, MapThenFoldSet, Reading!MapThenFoldSet, Max, Reading!Last
  <2> HIDE DEF index, ctx, base
  <2>3. ctx.number \in Int
    BY OpenAtoms DEF ctx
  <2>4. ctx.number > 0
    BY <1>3, <2>3
  <2>5. PICK S : ctx.atoms \in Seq(S) /\ \A a \in S : \E at \in Nat : AtomIn(a, buf, at)
    BY <2>4, OpenAtoms DEF ctx
  <2>6. IndexHeld(type, base)
    BY MessageHeld DEF base
  <2>7. ASSUME NEW i \in 1..Len(ctx.atoms), NEW acc, IndexHeld(type, acc)
        PROVE  IndexHeld(type, AddTo(sub, type, acc, ctx.atoms[i], buf))
    <3>1. ctx.atoms[i] \in S
      BY <2>5
    <3>2. PICK at \in Nat : AtomIn(ctx.atoms[i], buf, at)
      BY <2>5, <3>1
    <3> QED BY <2>7, <3>2, AddHeld
  <2>8. IndexHeld(type, Reading!Fold(sub, type, buf, base, ctx.atoms))
    BY <2>5, <2>6, <2>7, Reading!FoldInduction
  <2> QED BY <2>1, <2>2, <2>8 DEF Made
<1> QED BY <1>1, <1>2, <1>3

LEMMA ResultsMade == ASSUME NEW r \in Results PROVE Made(r)
<1>1. CASE r = NULLMessage
  BY <1>1 DEF Made
<1>2. CASE r # NULLMessage
  <2>1. PICK n \in Nat, type \in DOMAIN Fields, buf \in Seq(Byte) : r = ReadLevels[n][<<type, buf>>]
    <3>1. PICK n \in Nat, x \in (DOMAIN Fields) \X Seq(Byte) : r = ReadLevels[n][x]
      BY <1>2 DEF Results
    <3>2. x[1] \in DOMAIN Fields /\ x[2] \in Seq(Byte) /\ x = <<x[1], x[2]>>
      BY <3>1
    <3>3. r = ReadLevels[n][<<x[1], x[2]>>]
      BY <3>1, <3>2
    <3> QED BY <3>2, <3>3
  <2>2. r = IF n = 0 THEN Message(type) ELSE ReadOne(ReadLevels[n - 1], type, buf)
    BY <2>1, LevelsEquation
  <2>3. CASE n = 0
    <3>1. r = Message(type)
      BY <2>2, <2>3
    <3>2. r.msg = type
      BY <3>1 DEF Message
    <3> QED BY <3>1, <3>2, MessageHeld DEF Made
  <2>4. CASE n # 0
    <3>1. n - 1 \in Nat /\ r = ReadOne(ReadLevels[n - 1], type, buf)
      BY <2>2, <2>4
    <3> QED BY <3>1, ReadHeld
  <2> QED BY <2>3, <2>4
<1> QED BY <1>1, <1>2

(* The arrays of such a message are not overrun, and what they hold was    *)
(* read as well.                                                           *)
LEMMA MadeArrays ==
  ASSUME NEW r, Made(r)
  PROVE  /\ \A k \in DOMAIN r.index : ArrayHolds(r.index[k])
         /\ SubMessages(r) \subseteq Results
<1>1. CASE r = NULLMessage
  <2>1. DOMAIN r.index = {}
    BY <1>1 DEF NULLMessage
  <2>2. SubMessages(r) = {}
    BY <2>1 DEF SubMessages
  <2> QED BY <2>1, <2>2
<1>2. CASE r.msg \in DOMAIN Fields /\ IndexHeld(r.msg, r.index)
  <2>1. ASSUME NEW k \in DOMAIN r.index
        PROVE  /\ ArrayHolds(r.index[k])
               /\ Fields[r.msg][k].type = "message" => Range(r.index[k].cells) \subseteq Results
    <3>1. Held(Fields[r.msg][k], r.index[k])
      BY <1>2 DEF IndexHeld
    <3>2. PICK S : r.index[k] \in ArrayOf(S) /\ (Fields[r.msg][k].type = "message" => S \subseteq Results)
      BY <3>1 DEF Held
    <3>3. ArrayHolds(r.index[k]) /\ r.index[k].cells \in Seq(S)
      BY <3>2 DEF ArrayOf, GrownWell, ArrayHolds, Size
    <3>4. Range(r.index[k].cells) \subseteq S
      BY <3>3 DEF Range
    <3> QED BY <3>2, <3>3, <3>4
  <2>2. SubMessages(r) \subseteq Results
    BY <2>1, Zenon DEF SubMessages
  <2> QED BY <2>1, <2>2
<1> QED BY <1>1, <1>2 DEF Made

Nesting == INSTANCE Recursion WITH
  Def <- LAMBDA r, n, f : IF n = 0 THEN {r} ELSE AndBelow(f[n - 1]),
  Measure <- LAMBDA r, n : n,
  Op <- LAMBDA c, d, e, acc, v : acc, Inv <- LAMBDA c, d, e, base, i, acc : TRUE

(* At every depth below a message there are such messages only. *)
LEMMA NestedMade == ASSUME NEW r \in Results, NEW levels \in Nat PROVE Nested(r)[levels] \subseteq Results
<1> DEFINE rec == Nesting!Rec(r, Nat)
           T == {n \in Nat : rec[n] \subseteq Results}
<1>1. Nesting!WellFounded(r, Nat)
  <2>1. \A n \in Nat : n # 0 => n - 1 \in Nat /\ n - 1 < n
    OBVIOUS
  <2> QED BY <2>1, Zenon DEF Nesting!WellFounded
<1>2. rec = [n \in Nat |-> IF n = 0 THEN {r} ELSE AndBelow(rec[n - 1])]
  BY <1>1, Nesting!RecursiveFunction
<1>3. Nested(r) = rec
  BY DEF Nested, Nesting!Rec
<1> HIDE DEF rec
<1>4. 0 \in T
  BY <1>2
<1>5. ASSUME NEW n \in Nat, n \in T PROVE n + 1 \in T
  <2>1. rec[n + 1] = AndBelow(rec[n])
    <3>1. n + 1 \in Nat /\ n + 1 # 0 /\ (n + 1) - 1 = n
      OBVIOUS
    <3> QED BY <1>2, <3>1
  <2>2. AndBelow(rec[n]) \subseteq Results
    <3>1. \A s \in rec[n] : SubMessages(s) \subseteq Results
      BY <1>5, ResultsMade, MadeArrays
    <3> QED BY <1>5, <3>1 DEF AndBelow
  <2> QED BY <2>1, <2>2
<1>6. Nat \subseteq T
  <2> HIDE DEF T
  <2> QED BY <1>4, <1>5, Nesting!SetInduction
<1> QED BY <1>3, <1>6

(* No array of a message that was read, or of one within it, is overrun.   *)
THEOREM ReadArraysHold ==
  ASSUME NEW type \in DOMAIN Fields, NEW buf \in Seq(Byte), NEW levels \in Nat
  PROVE  ArraysHold(ReadMessage(type, buf), levels)
<1>1. ReadMessage(type, buf) \in Results
  <2>1. Len(buf) \in Nat
    OBVIOUS
  <2> QED BY <2>1, ReadIsResult DEF ReadMessage
<1>2. \A s \in Nested(ReadMessage(type, buf))[levels] : Made(s)
  BY <1>1, NestedMade, ResultsMade
<1> QED BY <1>2, MadeArrays DEF ArraysHold

----------------------------------------------------------------------------
(* Patterns: packed structs are bytes, unpacking keeps the cells. *)

(* The fields of the pattern, a sequence *)
LEMMA PatternIsSeq == IsSeq(ThePattern)
<1> DEFINE pat == [i \in DOMAIN Format |-> Entry(Root, Format[i][1], Format[i][2])]
<1>1. Len(Format) \in Nat /\ DOMAIN Format = 1..Len(Format)
  <2>1. Format \in Seq(Range(Format))
    BY CodecAssumption
  <2> QED BY <2>1
<1>2. CASE ~ValidFormat(Root, Format)
  <2>1. ThePattern = <<>>
    BY <1>2 DEF ThePattern, PatternNew
  <2>2. <<>> \in Seq({})
    OBVIOUS
  <2> QED BY <2>1, <2>2, Zenon DEF IsSeq
<1>3. CASE ValidFormat(Root, Format)
  <2>1. ThePattern = ById(pat)
    BY <1>3 DEF ThePattern, PatternNew
  <2>2. DOMAIN pat = 1..Len(Format)
    BY <1>1
  <2> HIDE DEF pat
  <2>3. ThePattern = [k \in 1..Len(Format) |-> ThePattern[k]]
    <3> DEFINE at(k) == CHOOSE i \in DOMAIN pat : Cardinality({j \in DOMAIN pat :
                         pat[j].id < pat[i].id \/ (pat[j].id = pat[i].id /\ j < i)}) = k - 1
    <3>1. ThePattern = [k \in DOMAIN pat |-> pat[at(k)]]
      BY <2>1, Zenon DEF ById
    <3> HIDE DEF at
    <3> QED BY <2>2, <3>1, Zenon
  <2> QED BY <1>1, <2>3, FunctionIsSeq
<1> QED BY <1>2, <1>3

(* What is packed so far: bytes *)
IsOut(s) == s \in [ok : BOOLEAN, out : Seq(Byte), room : Int]

(* What fits is appended. *)
LEMMA FitOut ==
  ASSUME NEW s, IsOut(s), NEW bytes \in Seq(Byte)
  PROVE  IsOut(Fit(s, bytes)) /\ (Fit(s, bytes).out = s.out \/ Fit(s, bytes).out = s.out \o bytes)
         /\ (Fit(s, bytes).ok => Fit(s, bytes).out = s.out \o bytes)
<1>1. s.out \o bytes \in Seq(Byte) /\ s.room - Len(bytes) \in Int
  <2>1. s.out \in Seq(Byte) /\ s.room \in Int
    BY DEF IsOut
  <2>2. Len(bytes) \in Nat
    OBVIOUS
  <2>3. s.room - Len(bytes) \in Int
    BY <2>1, <2>2
  <2> QED BY <2>1, <2>3, Joined
<1>2. CASE s.ok /\ Len(bytes) <= s.room
  <2>1. Fit(s, bytes) = [s EXCEPT !.out = s.out \o bytes, !.room = s.room - Len(bytes)]
    BY <1>2 DEF Fit
  <2> QED BY <1>1, <2>1 DEF IsOut
<1>3. CASE ~(s.ok /\ Len(bytes) <= s.room)
  <2>1. Fit(s, bytes) = [s EXCEPT !.ok = FALSE]
    BY <1>3 DEF Fit
  <2> QED BY <2>1 DEF IsOut
<1> QED BY <1>2, <1>3

(* A packed field of a struct is bytes. *)
LEMMA FieldOut ==
  ASSUME NEW pf, NEW ctype, NEW s, IsOut(s), NEW cell, CellFits(pf, ctype, cell)
  PROVE  IsOut(PackField(pf, ctype, s, cell))
<1> DEFINE t == Fit(s, Tag(pf.id, WireType(pf.ptype)))
<1>1. IsOut(t)
  BY TagBytes, FitOut
<1>2. PackField(pf, ctype, s, cell) = PackTaggedCell(pf, ctype, t, cell)
  BY DEF PackField
<1> HIDE DEF t
<1>3. CASE pf.ptype \in Numeric
  <2>1. PackTaggedCell(pf, ctype, t, cell) = Fit(t, Body(pf.ptype, Load(ctype, cell)))
    BY <1>3 DEF PackTaggedCell
  <2>2. Load(ctype, cell) \in Number64
    BY <1>3 DEF CellFits
  <2> QED BY <1>1, <1>2, <1>3, <2>1, <2>2, BodyBytes, FitOut
<1>4. CASE pf.ptype \notin Numeric
  <2> DEFINE bytes == SliceBytes(pf.ptype, cell)
  <2>1. PackTaggedCell(pf, ctype, t, cell) = FitBytes(t, bytes)
    BY <1>4 DEF PackTaggedCell
  <2>2. cell.str \in Seq(Byte) /\ cell.len \in Int /\ cell.len <= Len(cell.str)
    BY <1>4 DEF CellFits, TextFits
  <2>3. bytes \in Seq(Byte)
    <3>1. CASE pf.ptype = "string" /\ cell.len <= 0
      <4>1. -cell.len \in Nat /\ NUL \in Byte
        BY <2>2, <3>1 DEF NUL, Byte
      <4>2. [i \in 1..(-cell.len) |-> NUL] \in Seq(Byte)
        BY <4>1
      <4> QED BY <2>2, <3>1, <4>2, Joined DEF SliceBytes
    <3>2. CASE ~(pf.ptype = "string" /\ cell.len <= 0) /\ cell.len > 0
      <4>1. 1 \in 1..(Len(cell.str) + 1) /\ cell.len \in 0..Len(cell.str)
        BY <2>2, <3>2
      <4> QED BY <2>2, <3>2, <4>1, CutBytes DEF SliceBytes
    <3>3. CASE ~(pf.ptype = "string" /\ cell.len <= 0) /\ ~(cell.len > 0)
      <4>1. SubSeq(cell.str, 1, cell.len) = <<>>
        BY <2>2, <3>3
      <4>2. SliceBytes(pf.ptype, cell) = SubSeq(cell.str, 1, cell.len)
        BY <3>3, Zenon DEF SliceBytes
      <4>3. bytes = <<>>
        BY <4>1, <4>2
      <4>4. <<>> \in Seq(Byte)
        OBVIOUS
      <4> HIDE DEF bytes
      <4> QED BY <4>3, <4>4
    <3> QED BY <3>1, <3>2, <3>3
  <2> HIDE DEF bytes
  <2>4. IsOut(Fit(t, Encode32(Bits(Len(bytes)))))
    BY <1>1, Encode32Bytes, FitOut
  <2> QED BY <1>2, <2>1, <2>3, <2>4, FitOut DEF FitBytes
<1> QED BY <1>3, <1>4

LEMMA SuffixBytesIn ==
  ASSUME NEW S, NEW s \in Seq(S), NEW at \in Nat
  PROVE  Suffix(s, at) \in Seq(S)
<1>1. CASE at <= Len(s)
  <2>1. at + 1 \in 1..(Len(s) + 1) /\ Len(s) \in 0..Len(s)
    BY <1>1
  <2> QED BY <2>1, CutBytes DEF Suffix
<1>2. CASE ~(at <= Len(s))
  <2>1. at + 1 > Len(s) /\ Len(s) \in Nat /\ at + 1 \in Nat
    BY <1>2
  <2>2. SubSeq(s, at + 1, Len(s)) = <<>>
    BY <2>1
  <2> QED BY <2>2 DEF Suffix
<1> QED BY <1>1, <1>2

Fitting == INSTANCE Recursion WITH
  Def <- LAMBDA e, x, f : x, Measure <- LAMBDA e, x : 0,
  Op <- LAMBDA c, d, pf, acc, v : Fit(acc, Body(pf.ptype, v)), Inv <- LAMBDA c, d, pf, base, i, acc : IsOut(acc)

(* So are numbers of fixed width, *)
LEMMA NumbersOut ==
  ASSUME NEW pf, pf.ptype \in Numeric, NEW s, IsOut(s), NEW array, array.cells \in Seq(Number64)
  PROVE  IsOut(FitNumbers(pf, s, array))
<1>1. Fitting!Fold(0, 0, pf, s, array.cells) = FitNumbers(pf, s, array)
  BY DEF FitNumbers, Fitting!Fold, FoldLeft, MapThenFoldSet, Fitting!MapThenFoldSet, Max, Fitting!Last
<1>2. ASSUME NEW i \in 1..Len(array.cells), NEW acc, IsOut(acc) PROVE IsOut(Fit(acc, Body(pf.ptype, array.cells[i])))
  <2>1. array.cells[i] \in Number64
    OBVIOUS
  <2>2. Body(pf.ptype, array.cells[i]) \in Seq(Byte)
    BY <2>1, BodyBytes
  <2> QED BY <1>2, <2>2, FitOut
<1>3. IsOut(Fitting!Fold(0, 0, pf, s, array.cells))
  BY <1>2, Fitting!FoldInduction
<1> QED BY <1>1, <1>3

(* a packed array, *)
LEMMA PackedArrayOut ==
  ASSUME NEW pf, pf.ptype \in Numeric, NEW s, IsOut(s), NEW array, array.cells \in Seq(Number64)
  PROVE  IsOut(PackPackedArray(pf, s, array))
<1> DEFINE t == Fit(s, Tag(pf.id, WT_LEND))
<1>1. IsOut(t)
  BY TagBytes, FitOut
<1> HIDE DEF t
<1>2. ASSUME NEW w PROVE IsOut(PackPackedFixed(pf, w, t, array))
  <2> DEFINE header == Encode32(Bits(w * Size(array)))
  <2>1. PackPackedFixed(pf, w, t, array) = PackBehind(pf, t, header, w * Size(array), array)
    BY DEF PackPackedFixed
  <2>2. IsOut(Fit(t, header))
    BY <1>1, Encode32Bytes, FitOut
  <2>3. IsOut([t EXCEPT !.ok = FALSE])
    BY <1>1 DEF IsOut
  <2>4. IsOut(FitNumbers(pf, Fit(t, header), array))
    BY <2>2, NumbersOut
  <2> HIDE DEF header
  <2> QED BY <2>1, <2>3, <2>4, Zenon DEF PackBehind
<1>3. IsOut(PackPackedVarint(pf, t, array))
  <2> DEFINE guess == Encode32(Bits(Size(array)))
             all == FitNumbers(pf, Fit(t, guess), array)
             at == Len(t.out) + Len(guess)
             body == Suffix(all.out, at)
  <2>1. PackPackedVarint(pf, t, array) = MoveElements(t, all, at)
    BY DEF PackPackedVarint
  <2>2. guess \in Seq(Byte)
    BY Encode32Bytes
  <2> HIDE DEF guess
  <2>3. IsOut(all)
    BY <1>1, <2>2, FitOut, NumbersOut
  <2> HIDE DEF all
  <2>4. at \in Nat
    <3>1. t.out \in Seq(Byte)
      BY <1>1 DEF IsOut
    <3> QED BY <2>2, <3>1
  <2> HIDE DEF at
  <2>5. all.out \in Seq(Byte)
    BY <2>3 DEF IsOut
  <2>6. body \in Seq(Byte)
    BY <2>4, <2>5, SuffixBytesIn
  <2> HIDE DEF body
  <2>7. Encode32(Bits(Len(body))) \o body \in Seq(Byte)
    BY <2>6, Encode32Bytes, Joined
  <2>8. IsOut(WithLength(t, body))
    BY <1>1, <2>7, FitOut DEF WithLength
  <2> QED BY <2>1, <2>3, <2>8 DEF MoveElements, body
<1>4. PackPackedArray(pf, s, array) \in
        {s, PackPackedFixed(pf, 8, t, array), PackPackedFixed(pf, 4, t, array), PackPackedVarint(pf, t, array)}
  <2>1. PackPackedArray(pf, s, array) = s \/ PackPackedArray(pf, s, array) = PackElements(pf, t, array)
    BY DEF PackPackedArray, t
  <2>2. CASE pf.ptype \in Wide
    BY <2>1, <2>2 DEF PackElements, Wide, Narrowed
  <2>3. CASE pf.ptype \in Narrowed
    BY <2>1, <2>3 DEF PackElements, Wide, Narrowed
  <2>4. CASE pf.ptype \notin Wide \cup Narrowed
    BY <2>1, <2>4 DEF PackElements
  <2> QED BY <2>2, <2>3, <2>4
<1> QED BY <1>2, <1>3, <1>4

Repeating == INSTANCE Recursion WITH
  Def <- LAMBDA e, x, f : x, Measure <- LAMBDA e, x : 0,
  Op <- LAMBDA c, d, pf, acc, v : PackField(pf, "var", acc, v), Inv <- LAMBDA c, d, pf, base, i, acc : IsOut(acc)

(* and whatever a field of a struct is. *)
LEMMA OneOut ==
  ASSUME NEW pf, NEW s, IsOut(s), NEW cell, StructFits(pf, cell)
  PROVE  IsOut(PackOne(pf, s, cell))
<1>1. CASE pf.label = "repeated"
  <2>1. cell.cells \in Seq(Range(cell.cells)) /\ \A v \in Range(cell.cells) : CellFits(pf, "var", v)
    BY <1>1 DEF StructFits, CellsFit
  <2>2. PackOne(pf, s, cell) = FoldLeft(LAMBDA acc, v : PackField(pf, "var", acc, v), s, cell.cells)
    BY <1>1 DEF PackOne
  <2>3. Repeating!Fold(0, 0, pf, s, cell.cells) = FoldLeft(LAMBDA acc, v : PackField(pf, "var", acc, v), s, cell.cells)
    BY DEF Repeating!Fold, FoldLeft, MapThenFoldSet, Repeating!MapThenFoldSet, Max, Repeating!Last
  <2>4. ASSUME NEW i \in 1..Len(cell.cells), NEW acc, IsOut(acc) PROVE IsOut(PackField(pf, "var", acc, cell.cells[i]))
    <3>1. cell.cells[i] \in Range(cell.cells)
      BY <2>1
    <3> QED BY <2>1, <2>4, <3>1, FieldOut
  <2>5. IsOut(Repeating!Fold(0, 0, pf, s, cell.cells))
    BY <2>1, <2>4, Repeating!FoldInduction
  <2> QED BY <2>2, <2>3, <2>5
<1>2. CASE pf.label = "packed"
  <2>1. /\ cell.cells \in Seq(Range(cell.cells)) /\ \A v \in Range(cell.cells) : CellFits(pf, "var", v)
        /\ pf.ptype \in Numeric
    BY <1>2 DEF StructFits, CellsFit
  <2>2. \A v \in Range(cell.cells) : v \in Number64
    BY <2>1 DEF CellFits, Load
  <2>3. cell.cells \in Seq(Number64)
    BY <2>1, <2>2
  <2>4. PackOne(pf, s, cell) = PackPackedArray(pf, s, cell)
    BY <1>2 DEF PackOne
  <2> QED BY <2>1, <2>3, <2>4, PackedArrayOut
<1>3. CASE pf.label \notin {"repeated", "packed"}
  <2>1. CellFits(pf, pf.ctype, cell)
    BY <1>3 DEF StructFits
  <2>2. PackOne(pf, s, cell) = s \/ PackOne(pf, s, cell) = PackField(pf, pf.ctype, s, cell)
    BY <1>3, Zenon DEF PackOne
  <2> QED BY <2>1, <2>2, FieldOut
<1> QED BY <1>1, <1>2, <1>3

Packs == INSTANCE Recursion WITH
  Def <- LAMBDA e, x, f : x, Measure <- LAMBDA e, x : 0,
  Op <- LAMBDA c, d, data, s, pf : IF s.ok THEN PackOne(pf, s, data[pf.key]) ELSE s,
  Inv <- LAMBDA c, d, data, base, i, s : IsOut(s)

(* A packed struct is bytes. *)
LEMMA StructOut ==
  ASSUME NEW data \in Structs, NEW room \in Rooms
  PROVE  IsOut(PatternPack(ThePattern, data, room))
<1>1. Packs!Fold(0, 0, data, Room(room), ThePattern) = PatternPack(ThePattern, data, room)
  BY DEF PatternPack, Packs!Fold, FoldLeft, MapThenFoldSet, Packs!MapThenFoldSet, Max, Packs!Last
<1>2. PICK S : ThePattern \in Seq(S)
  BY PatternIsSeq DEF IsSeq
<1>3. IsOut(Room(room))
  <2>1. room \in Int
    BY CodecAssumption
  <2> QED BY <2>1 DEF IsOut, Room
<1>4. ASSUME NEW i \in 1..Len(ThePattern), NEW s, IsOut(s)
      PROVE  IsOut(IF s.ok THEN PackOne(ThePattern[i], s, data[ThePattern[i].key]) ELSE s)
  <2>1. i \in DOMAIN ThePattern
    BY <1>2
  <2>2. StructFits(ThePattern[i], data[ThePattern[i].key])
    BY <2>1, CodecAssumption, Zenon
  <2>3. IsOut(PackOne(ThePattern[i], s, data[ThePattern[i].key]))
    BY <1>4, <2>2, OneOut
  <2> QED BY <1>4, <2>3
<1>5. IsOut(Packs!Fold(0, 0, data, Room(room), ThePattern))
  BY <1>2, <1>3, <1>4, Packs!FoldInduction
<1> QED BY <1>1, <1>5

(* Defaults are written to cells the struct has. *)
LEMMA DefaultsKeep == ASSUME NEW pat, NEW data, NEW which PROVE DOMAIN SetDefaults(pat, data, which) = DOMAIN data
BY Zenon DEF SetDefaults

LEMMA CompletedKeep == ASSUME NEW pat, NEW r PROVE DOMAIN Completed(pat, r).data = DOMAIN r.data
<1>1. Completed(pat, r).data = IF r.result < 0 THEN r.data ELSE SetDefaults(pat, r.data, DOMAIN pat \ r.seen)
  BY Zenon DEF Completed
<1>2. CASE r.result < 0
  BY <1>1, <1>2
<1>3. CASE ~(r.result < 0)
  BY <1>1, <1>3, DefaultsKeep
<1> QED BY <1>2, <1>3

(* So is the value of an atom. *)
LEMMA UnpackKeeps ==
  ASSUME NEW pat, NEW r, NEW i, NEW at, NEW a, NEW buf
  PROVE  DOMAIN UnpackAt(pat, r, i, at, a, buf).data = DOMAIN r.data
<1>1. CASE r.result < 0 \/ at = 0
  BY <1>1, Zenon DEF UnpackAt
<1>2. CASE ~(r.result < 0 \/ at = 0)
  <2> DEFINE u == UnpackField(pat[at], a, buf, CellFor(r, at, pat[at]))
             key == pat[at].key
  <2>1. UnpackAt(pat, r, i, at, a, buf) = Unpacked(r, i, at, pat[at], u)
    BY <1>2, Zenon DEF UnpackAt
  <2> HIDE DEF u
  <2>2. Unpacked(r, i, at, pat[at], u).data = [r.data EXCEPT ![key] = u.cell]
    BY Zenon DEF Unpacked
  <2>3. DOMAIN [r.data EXCEPT ![key] = u.cell] = DOMAIN r.data
    BY Zenon
  <2> QED BY <2>1, <2>2, <2>3
<1> QED BY <1>1, <1>2

Unpacks == INSTANCE Recursion WITH
  Def <- LAMBDA e, x, f : x, Measure <- LAMBDA e, x : 0,
  Op <- LAMBDA pat, buf, ctx, r, i : UnpackAt(pat, r, i, BSearch(pat, ctx.atoms[i].id), ctx.atoms[i], buf),
  Inv <- LAMBDA pat, buf, ctx, base, i, r : DOMAIN r.data = DOMAIN base.data

(* Unpacking leaves a struct its cells, and adds none. *)
LEMMA UnpackedKeep ==
  ASSUME NEW pat, NEW S, NEW buf \in Seq(S), NEW data
  PROVE  DOMAIN PatternUnpack(pat, buf, data).data = DOMAIN data
<1> DEFINE ctx == Open(buf)
           base == [result |-> 0, seen |-> {}, data |-> data]
           seq == [i \in 1..ctx.number |-> i]
           all == FoldLeft(LAMBDA r, i : UnpackAt(pat, r, i, BSearch(pat, ctx.atoms[i].id), ctx.atoms[i], buf), base, seq)
<1>1. CASE buf = <<>>
  <2>1. PatternUnpack(pat, buf, data).data = SetDefaults(pat, data, DOMAIN pat)
    BY <1>1, Zenon DEF PatternUnpack
  <2> QED BY <2>1, DefaultsKeep
<1>2. CASE buf # <<>> /\ ctx.number <= 0
  <2>1. PatternUnpack(pat, buf, data) = [result |-> ctx.number - 1, data |-> data]
    BY <1>2, Zenon DEF PatternUnpack, UnpackAtoms
  <2> QED BY <2>1
<1>3. CASE buf # <<>> /\ ~(ctx.number <= 0)
  <2>1. PatternUnpack(pat, buf, data) = Completed(pat, all)
    BY <1>3 DEF PatternUnpack, UnpackAtoms
  <2>2. all = Unpacks!Fold(pat, buf, ctx, base, seq)
    BY DEF Unpacks!Fold, FoldLeft, MapThenFoldSet, Unpacks!MapThenFoldSet, Max, Unpacks!Last
  <2> HIDE DEF all
  <2>3. seq \in Seq(Nat)
    <3>1. ctx.number \in Int
      BY OpenAtoms
    <3> HIDE DEF ctx
    <3>2. ctx.number \in Nat
      BY <1>3, <3>1
    <3> QED BY <3>2
  <2>4. \A i \in 1..Len(seq) : \A r : DOMAIN r.data = DOMAIN base.data =>
          DOMAIN UnpackAt(pat, r, seq[i], BSearch(pat, ctx.atoms[seq[i]].id), ctx.atoms[seq[i]], buf).data = DOMAIN base.data
    <3> HIDE DEF seq, ctx, base
    <3> QED BY UnpackKeeps
  <2> HIDE DEF seq, ctx
  <2>5. DOMAIN Unpacks!Fold(pat, buf, ctx, base, seq).data = DOMAIN base.data
    <3> HIDE DEF base
    <3> QED BY <2>3, <2>4, Unpacks!FoldInduction
  <2>6. base.data = data
    OBVIOUS
  <2> HIDE DEF base
  <2> QED BY <2>1, <2>2, <2>5, <2>6, CompletedKeep
<1> QED BY <1>1, <1>2, <1>3

----------------------------------------------------------------------------
(* The invariant of a message on its way, and the calls. *)

(* The parts of the invariant.  Messages: a tree of messages whose bytes   *)
(* are in their buffers, below one of the type Root, with sub-messages     *)
(* only once there has been a call.                                        *)
StateKept == /\ shift35 \in Shifts /\ staleByte \in Byte /\ DOMAIN calls = DOMAIN MaxCalls
             /\ \A type \in DOMAIN calls : calls[type] \in 0..MaxCalls[type]
MessagesKept == /\ Tree(msgs) /\ Len(msgs) \in Nat \ {0} /\ msgs[1].type = Root
                /\ calls[Root] = 0 => Len(msgs) = 1
ToldKept == /\ IsSeq(told) /\ Len(told) = Len(msgs)
            /\ \A h \in 1..Len(msgs) : DOMAIN told[h] = DOMAIN Fields[msgs[h].type]
PacketKept == packet = <<>> \/ \E bytes \in Seq(Byte) : packet = <<bytes>>
GotKept == /\ Received("message") => packet # <<>> /\ \A n \in Nat : ArraysHold(got[1].val, n)
           /\ Received("struct") => DOMAIN got[1].val.data = {pf.key : pf \in Range(ThePattern)}
CodecInv == StateKept /\ MessagesKept /\ ToldKept /\ PacketKept /\ GotKept

(* The invariant holds before any call. *)
LEMMA CodecInit == Init => CodecInv
<1> SUFFICES ASSUME Init PROVE CodecInv
  OBVIOUS
<1>0. /\ Root \in DOMAIN Fields /\ Root \in DOMAIN MaxCalls /\ StaleBytes \subseteq Byte
      /\ \A type \in DOMAIN MaxCalls : MaxCalls[type] \in Nat
  BY CodecAssumption
<1>1. StateKept
  BY <1>0 DEF Init, StateKept
<1>2. msgs \in Seq(Written) /\ Len(msgs) = 1 /\ msgs[1] = New(Root) /\ New(Root).type = Root
      /\ New(Root).sub.cells = <<>>
  BY <1>0, NewFits DEF Init
<1>3. MessagesKept
  <2>1. ASSUME NEW h \in 1..Len(msgs) PROVE ChildrenBehind(msgs, h)
    BY <1>2 DEF ChildrenBehind
  <2> QED BY <1>2, <2>1 DEF MessagesKept, Tree
<1>4. ToldKept
  <2>1. told \in Seq({NothingTold(Root)}) /\ Len(told) = 1 /\ told[1] = NothingTold(Root)
    BY DEF Init
  <2>2. IsSeq(told)
    BY <2>1, Zenon DEF IsSeq
  <2>3. DOMAIN NothingTold(Root) = DOMAIN Fields[Root]
    BY DEF NothingTold
  <2> QED BY <1>2, <2>1, <2>2, <2>3 DEF ToldKept
<1>5. PacketKept /\ GotKept
  BY DEF Init, PacketKept, GotKept, Received
<1> QED BY <1>1, <1>3, <1>4, <1>5 DEF CodecInv

(* A call leaves the message it is made to a message.                      *)
SameTree(ms, ns) == Tree(ns) /\ Len(ns) = Len(ms) /\ \A k \in 1..Len(ms) : ns[k].type = ms[k].type

LEMMA TreeKept ==
  ASSUME NEW ms, Tree(ms), NEW h \in 1..Len(ms), NEW n, Kept(ms[h], n), NEW ns, ns = [ms EXCEPT ![h] = n]
  PROVE  SameTree(ms, ns)
<1>1. ms \in Seq(Written) /\ n \in Written /\ n.type = ms[h].type /\ n.sub = ms[h].sub
  BY DEF Tree, Kept
<1>2. ns \in Seq(Written) /\ Len(ns) = Len(ms) /\ \A k \in 1..Len(ms) : ns[k] = IF k = h THEN n ELSE ms[k]
  BY <1>1
<1>3. \A k \in 1..Len(ms) : ns[k].type = ms[k].type /\ ns[k].sub = ms[k].sub
  BY <1>1, <1>2
<1>4. ASSUME NEW k \in 1..Len(ns) PROVE ChildrenBehind(ns, k)
  <2>1. ChildrenBehind(ms, k)
    BY <1>2 DEF Tree
  <2> QED BY <1>2, <1>3, <2>1 DEF ChildrenBehind
<1> QED BY <1>2, <1>3, <1>4 DEF Tree, SameTree

(* What all calls do besides *)
LEMMA CallKeeps ==
  ASSUME CodecInv, NEW h \in DOMAIN msgs, NEW c \in Menu, NEW op, Calls(h, c, op)
  PROVE  /\ h \in 1..Len(msgs) /\ c.type = msgs[h].type /\ c.op = op /\ CallFits(c) /\ msgs[h] \in Written
         /\ StateKept' /\ PacketKept' /\ GotKept'
         /\ calls'[Root] = 0 => calls[Root] = 0
         /\ msgs[h].type = Root => calls'[Root] # 0
<1>1. h \in 1..Len(msgs) /\ msgs[h] \in Written
  <2>1. msgs \in Seq(Written)
    BY DEF CodecInv, MessagesKept, Tree
  <2> QED BY <2>1
<1>2. /\ calls' = [calls EXCEPT ![c.type] = calls[c.type] + 1] /\ c.type = msgs[h].type /\ c.op = op
      /\ calls[c.type] < MaxCalls[c.type]
      /\ UNCHANGED <<shift35, staleByte, packet, got>>
  BY DEF Calls
<1>3. /\ StateKept /\ Root \in DOMAIN calls
      /\ \A type \in DOMAIN calls : calls[type] \in Nat /\ MaxCalls[type] \in Nat /\ calls[type] <= MaxCalls[type]
      /\ DOMAIN calls = DOMAIN MaxCalls
  BY CodecAssumption DEF CodecInv, StateKept
<1>4. StateKept'
  <2>1. DOMAIN calls' = DOMAIN calls
    BY <1>2
  <2>2. ASSUME NEW type \in DOMAIN calls PROVE calls'[type] \in 0..MaxCalls[type]
    <3>1. CASE type = c.type
      <4>1. calls'[type] = calls[type] + 1
        BY <1>2, <3>1
      <4> QED BY <1>2, <1>3, <3>1, <4>1
    <3>2. CASE type # c.type
      <4>1. calls'[type] = calls[type]
        BY <1>2, <3>2
      <4> QED BY <1>3, <4>1
    <3> QED BY <3>1, <3>2
  <2> QED BY <1>2, <1>3, <2>1, <2>2 DEF StateKept
<1>5. PacketKept' /\ GotKept'
  BY <1>2 DEF CodecInv, PacketKept, GotKept, Received
<1>6. calls'[Root] = 0 => calls[Root] = 0
  <2>1. calls'[Root] = calls[Root] \/ calls'[Root] = calls[Root] + 1
    BY <1>2, <1>3
  <2> QED BY <1>3, <2>1
<1>7. msgs[h].type = Root => calls'[Root] # 0
  BY <1>2, <1>3
<1>8. CallFits(c)
  BY CodecAssumption
<1> QED BY <1>1, <1>2, <1>4, <1>5, <1>6, <1>7, <1>8

LEMMA SetKeepsSeq ==
  ASSUME NEW s, IsSeq(s), NEW h, NEW x
  PROVE  IsSeq([s EXCEPT ![h] = x]) /\ Len([s EXCEPT ![h] = x]) = Len(s)
<1> DEFINE t == [s EXCEPT ![h] = x]
<1>1. Len(s) \in Nat /\ DOMAIN s = 1..Len(s)
  BY SeqLength
<1>2. t = [i \in 1..Len(s) |-> t[i]]
  BY <1>1, Zenon
<1> HIDE DEF t
<1>3. IsSeq(t) /\ Len(t) = Len(s)
  BY <1>1, <1>2, FunctionIsSeq
<1> QED BY <1>3 DEF t

LEMMA AppendIsSeq ==
  ASSUME NEW s, IsSeq(s), NEW x
  PROVE  /\ IsSeq(Append(s, x)) /\ Len(Append(s, x)) = Len(s) + 1 /\ Append(s, x)[Len(s) + 1] = x
         /\ \A i \in 1..Len(s) : Append(s, x)[i] = s[i]
<1>1. PICK S : s \in Seq(S)
  BY DEF IsSeq
<1>2. Append(s, x) \in Seq(S \cup {x})
  BY <1>1
<1> QED BY <1>1, <1>2 DEF IsSeq

(* What is told of a field leaves the fields.                              *)
LEMMA SayKeeps ==
  ASSUME CodecInv, NEW h, NEW key, NEW vals, told' = [told EXCEPT ![h][key] = vals],
         NEW ns, msgs' = ns, Len(ns) = Len(msgs), \A k \in 1..Len(msgs) : ns[k].type = msgs[k].type
  PROVE  ToldKept'
<1> DEFINE x == [told[h] EXCEPT ![key] = vals]
<1>1. told' = [told EXCEPT ![h] = x] /\ DOMAIN x = DOMAIN told[h]
  BY Zenon
<1> HIDE DEF x
<1>2. IsSeq(told) /\ Len(told) = Len(msgs) /\ \A k \in 1..Len(msgs) : DOMAIN told[k] = DOMAIN Fields[msgs[k].type]
  BY DEF CodecInv, ToldKept
<1>3. IsSeq(told') /\ Len(told') = Len(told)
  <2> DEFINE t == [told EXCEPT ![h] = x]
  <2>1. IsSeq(t) /\ Len(t) = Len(told)
    BY <1>2, SetKeepsSeq
  <2>2. told' = t
    BY <1>1
  <2> HIDE DEF t
  <2> QED BY <2>1, <2>2
<1>4. DOMAIN told = 1..Len(told)
  BY <1>2, SeqLength
<1>5. ASSUME NEW k \in 1..Len(msgs) PROVE DOMAIN told'[k] = DOMAIN Fields[ns[k].type]
  <2>1. told'[k] = IF k = h THEN x ELSE told[k]
    BY <1>1, <1>2, <1>4, Zenon
  <2> QED BY <1>1, <1>2, <2>1
<1> QED BY <1>2, <1>3, <1>5 DEF ToldKept

(* A call to a message leaves the others. *)
LEMMA MessageKeeps ==
  ASSUME CodecInv, NEW h \in 1..Len(msgs), NEW n, Kept(msgs[h], n), msgs' = [msgs EXCEPT ![h] = n],
         calls'[Root] = 0 => calls[Root] = 0
  PROVE  MessagesKept' /\ Len(msgs') = Len(msgs) /\ \A k \in 1..Len(msgs) : msgs'[k].type = msgs[k].type
<1> DEFINE ns == [msgs EXCEPT ![h] = n]
<1>1. Tree(msgs) /\ Len(msgs) \in Nat \ {0} /\ msgs[1].type = Root /\ (calls[Root] = 0 => Len(msgs) = 1)
  BY DEF CodecInv, MessagesKept
<1>2. ns = [msgs EXCEPT ![h] = n] /\ msgs' = ns
  OBVIOUS
<1> HIDE DEF ns
<1>3. SameTree(msgs, ns)
  BY <1>1, <1>2, TreeKept, Zenon
<1>4. 1 \in 1..Len(msgs)
  BY <1>1
<1> QED BY <1>1, <1>2, <1>3, <1>4 DEF MessagesKept, SameTree

(* A call that adds to a field keeps the invariant. *)
LEMMA FillKeeps ==
  ASSUME CodecInv, NEW h \in DOMAIN msgs, NEW c \in Menu, NEW op, Calls(h, c, op),
         NEW n, Kept(msgs[h], n), msgs' = [msgs EXCEPT ![h] = n],
         NEW key, NEW vals, told' = told \/ told' = [told EXCEPT ![h][key] = vals]
  PROVE  CodecInv'
<1>1. h \in 1..Len(msgs) /\ StateKept' /\ PacketKept' /\ GotKept' /\ (calls'[Root] = 0 => calls[Root] = 0)
  BY CallKeeps
<1>2. MessagesKept' /\ Len(msgs') = Len(msgs) /\ \A k \in 1..Len(msgs) : msgs'[k].type = msgs[k].type
  BY <1>1, MessageKeeps
<1>3. ToldKept'
  <2>1. CASE told' = told
    BY <1>2, <2>1 DEF CodecInv, ToldKept
  <2>2. CASE told' = [told EXCEPT ![h][key] = vals]
    <3> DEFINE ns == msgs'
    <3>1. msgs' = ns /\ Len(ns) = Len(msgs) /\ \A k \in 1..Len(msgs) : ns[k].type = msgs[k].type
      BY <1>2
    <3> HIDE DEF ns
    <3> QED BY <2>2, <3>1, SayKeeps
  <2> QED BY <2>1, <2>2
<1> QED BY <1>1, <1>2, <1>3 DEF CodecInv

(* What the arguments of a call are *)
LEMMA ArgumentsFit ==
  ASSUME NEW c \in Menu, CallFits(c)
  PROVE  /\ c.args \in Seq(Range(c.args)) /\ c.type \in DOMAIN Fields
         /\ c.op # "string" => Range(c.args) \subseteq Number64
         /\ c.op = "string" => \A v \in Range(c.args) : IsText(c.type, c.key) => TextFits(v.v, v.len)
BY DEF CallFits, ArgFits

(* Integer keeps the invariant. *)
LEMMA IntegerKeeps ==
  ASSUME CodecInv, NEW h \in DOMAIN msgs, NEW c \in Menu, Integer(h, c)
  PROVE  CodecInv'
<1>1. Calls(h, c, "integer") /\ c.key \in DOMAIN Fields[msgs[h].type]
  BY DEF Integer, Known, HasField
<1>2. c.type = msgs[h].type /\ c.op = "integer" /\ CallFits(c) /\ msgs[h] \in Written
  BY <1>1, CallKeeps
<1>3. PICK at \in 1..(Len(msgs[h].packed) + 1) :
        msgs' = [msgs EXCEPT ![h] = IntegersTold!Fold(0, c.key, at, msgs[h], c.args)]
  BY DEF Integer, Loop, IntegersTold!Fold, FoldLeft, MapThenFoldSet, IntegersTold!MapThenFoldSet, Max, IntegersTold!Last
<1>4. NarrowUnpacked /\ Fields[c.type][c.key].label = "packed" => Fields[c.type][c.key].type \notin Narrowed
  BY <1>1, <1>2 DEF NarrowUnpacked, NoNarrowPacked, HasField
<1> DEFINE n == IntegersTold!Fold(0, c.key, at, msgs[h], c.args)
<1>5. Kept(msgs[h], n)
  BY <1>1, <1>2, <1>4, ArgumentsFit, IntegersFit
<1> HIDE DEF n
<1>6. msgs' = [msgs EXCEPT ![h] = n]
  BY <1>3 DEF n
<1> DEFINE vals == told[h][c.key] \o c.args
<1>7. told' = [told EXCEPT ![h][c.key] = vals]
  BY Zenon DEF Integer, Say
<1> HIDE DEF vals
<1> QED BY <1>1, <1>5, <1>6, <1>7, FillKeeps

(* Real does. *)
LEMMA RealKeeps ==
  ASSUME CodecInv, NEW h \in DOMAIN msgs, NEW c \in Menu, Real(h, c)
  PROVE  CodecInv'
<1>1. Calls(h, c, "real") /\ c.key \in DOMAIN Fields[msgs[h].type]
  BY DEF Real, Known, HasField
<1>2. c.type = msgs[h].type /\ c.op = "real" /\ CallFits(c) /\ msgs[h] \in Written
  BY <1>1, CallKeeps
<1>3. PICK at \in 1..(Len(msgs[h].packed) + 1) :
        msgs' = [msgs EXCEPT ![h] = RealsTold!Fold(0, c.key, at, msgs[h], c.args)]
  BY DEF Real, Loop, RealsTold!Fold, FoldLeft, MapThenFoldSet, RealsTold!MapThenFoldSet, Max, RealsTold!Last
<1>4. NarrowUnpacked /\ Fields[c.type][c.key].label = "packed" => Fields[c.type][c.key].type \notin Narrowed
  BY <1>1, <1>2 DEF NarrowUnpacked, NoNarrowPacked, HasField
<1> DEFINE n == RealsTold!Fold(0, c.key, at, msgs[h], c.args)
<1>5. Kept(msgs[h], n)
  BY <1>1, <1>2, <1>4, ArgumentsFit, RealsFit
<1> HIDE DEF n
<1>6. msgs' = [msgs EXCEPT ![h] = n]
  BY <1>3 DEF n
<1> DEFINE vals == told[h][c.key] \o c.args
<1>7. told' = [told EXCEPT ![h][c.key] = vals]
  BY Zenon DEF Real, Say
<1> HIDE DEF vals
<1> QED BY <1>1, <1>5, <1>6, <1>7, FillKeeps

(* The loop of String, and of a call that is refused for a name *)
TextLoop(h, c) == Loop(h, c, LAMBDA m, a, at : AddString(m, c.key, a.v, a.len, at))

LEMMA TextLoopKept ==
  ASSUME CodecInv, NEW h \in DOMAIN msgs, NEW c \in Menu, Calls(h, c, "string"), TextLoop(h, c),
         c.key \in DOMAIN Fields[msgs[h].type]
  PROVE  \E n : Kept(msgs[h], n) /\ msgs' = [msgs EXCEPT ![h] = n]
<1>1. c.type = msgs[h].type /\ c.op = "string" /\ CallFits(c) /\ msgs[h] \in Written
  BY CallKeeps
<1>2. PICK at \in 1..(Len(msgs[h].packed) + 1) :
        msgs' = [msgs EXCEPT ![h] = StringsTold!Fold(0, c.key, at, msgs[h], c.args)]
  BY DEF TextLoop, Loop, StringsTold!Fold, FoldLeft, MapThenFoldSet, StringsTold!MapThenFoldSet, Max, StringsTold!Last
<1> DEFINE n == StringsTold!Fold(0, c.key, at, msgs[h], c.args)
<1>3. Kept(msgs[h], n)
  BY <1>1, ArgumentsFit, StringsFit
<1> HIDE DEF n
<1>4. msgs' = [msgs EXCEPT ![h] = n]
  BY <1>2 DEF n
<1> QED BY <1>3, <1>4

(* String does. *)
LEMMA StringKeeps ==
  ASSUME CodecInv, NEW h \in DOMAIN msgs, NEW c \in Menu, String(h, c)
  PROVE  CodecInv'
<1>1. Calls(h, c, "string") /\ c.key \in DOMAIN Fields[msgs[h].type] /\ TextLoop(h, c)
  BY DEF String, Known, HasField, TextLoop
<1>2. PICK n : Kept(msgs[h], n) /\ msgs' = [msgs EXCEPT ![h] = n]
  BY <1>1, TextLoopKept
<1> DEFINE vals == told[h][c.key] \o [i \in DOMAIN c.args |-> c.args[i].text]
<1>3. told' = [told EXCEPT ![h][c.key] = vals]
  BY Zenon DEF String, Say
<1> HIDE DEF vals
<1> QED BY <1>1, <1>2, <1>3, FillKeeps

(* A refused call does: it says nothing, and may make room. *)
LEMMA RefusedKeeps ==
  ASSUME CodecInv, NEW h \in DOMAIN msgs, NEW c \in Menu, Refused(h, c)
  PROVE  CodecInv'
<1>1. Calls(h, c, c.op) /\ told' = told
  BY DEF Refused
<1>2. CASE msgs' = msgs
  <2>1. Kept(msgs[h], msgs[h])
    BY <1>1, CallKeeps, KeptSelf
  <2>2. msgs' = [msgs EXCEPT ![h] = msgs[h]]
    <3>1. msgs \in Seq(Written)
      BY DEF CodecInv, MessagesKept, Tree
    <3> QED BY <1>2, <3>1
  <2> DEFINE n == msgs[h]
  <2>3. Kept(msgs[h], n) /\ msgs' = [msgs EXCEPT ![h] = n]
    BY <2>1, <2>2
  <2> HIDE DEF n
  <2> QED BY <1>1, <2>3, FillKeeps
<1>3. CASE Known(h, c) /\ c.op = "string" /\ TextLoop(h, c)
  <2>1. PICK n : Kept(msgs[h], n) /\ msgs' = [msgs EXCEPT ![h] = n]
    BY <1>1, <1>3, TextLoopKept DEF Known, HasField
  <2> QED BY <1>1, <2>1, FillKeeps
<1> QED BY <1>2, <1>3 DEF Refused, TextLoop

----------------------------------------------------------------------------
(* Sub-messages, sending and receiving. *)

(* A sub-message is another message, behind all the others. *)
LEMMA BranchFits ==
  ASSUME NEW ms, Tree(ms), NEW h \in 1..Len(ms), NEW key \in DOMAIN Fields[ms[h].type],
         Fields[ms[h].type][key].type = "message"
  PROVE  LET ns == AddMessage(ms, h, key)
         IN  /\ Tree(ns) /\ Len(ns) = Len(ms) + 1 /\ \A k \in 1..Len(ms) : ns[k].type = ms[k].type
             /\ ns[Len(ms) + 1].type = Fields[ms[h].type][key].of
<1> DEFINE L == Len(ms)
           f == Fields[ms[h].type][key]
           cell == [child |-> L + 1, id |-> f.id]
           parent == [ms[h] EXCEPT !.sub = Push(ms[h].sub, cell)]
           grown == [ms EXCEPT ![h] = parent]
           ns == Append(grown, New(f.of))
<1>1. L \in Nat /\ ms \in Seq(Written) /\ ms[h] \in Written /\ ms[h].type \in DOMAIN Fields
  <2>1. ms \in Seq(Written) /\ ms[h] \in Written
    BY DEF Tree
  <2>2. ms[h].type \in DOMAIN Fields
    BY <2>1, WrittenFields
  <2> QED BY <2>1, <2>2
<1>2. f.id \in Nat /\ f.of \in DOMAIN Fields
  BY <1>1, FieldsAssumption
<1>3. cell \in SubCell
  BY <1>1, <1>2 DEF SubCell
<1>4. ms[h].sub \in ArrayOf(SubCell) /\ ms[h] \in WMessage
  BY <1>1, WrittenFields
<1>5. Push(ms[h].sub, cell) \in ArrayOf(SubCell) /\ Push(ms[h].sub, cell).cells = Append(ms[h].sub.cells, cell)
  <2> HIDE DEF cell
  <2> QED BY <1>3, <1>4, PushFits
<1> HIDE DEF f
<1>6. parent \in Written /\ parent.type = ms[h].type /\ parent.sub.cells = Append(ms[h].sub.cells, cell)
  <2> DEFINE sub == Push(ms[h].sub, cell)
  <2>1. sub \in ArrayOf(SubCell) /\ sub.cells = Append(ms[h].sub.cells, cell)
    BY <1>5
  <2> HIDE DEF sub
  <2>2. /\ parent \in WMessage /\ parent.type = ms[h].type /\ parent.sub = sub /\ parent.cap = ms[h].cap
        /\ parent.over = ms[h].over /\ parent.buf = ms[h].buf
    BY <1>4, <2>1 DEF WMessage, sub
  <2>3. DoubledTo(WMESSAGE_SIZE, ms[h].cap) = ms[h].cap /\ (NarrowUnpacked => InBuffer(ms[h]))
    BY <1>1 DEF Written
  <2>4. parent \in Written
    <3> HIDE DEF parent
    <3> QED BY <2>2, <2>3 DEF Written, InBuffer
  <2> QED BY <2>1, <2>2, <2>4
<1> HIDE DEF parent
<1>7. grown \in Seq(Written) /\ Len(grown) = L /\ \A k \in 1..L : grown[k] = IF k = h THEN parent ELSE ms[k]
  BY <1>1, <1>6
<1> HIDE DEF grown
<1>8. New(f.of) \in Written /\ New(f.of).type = f.of /\ New(f.of).sub.cells = <<>>
  BY <1>2, NewFits
<1> DEFINE new == New(f.of)
<1> HIDE DEF new
<1>9. ns \in Seq(Written) /\ Len(ns) = L + 1 /\ ns[L + 1] = new /\ \A k \in 1..L : ns[k] = grown[k]
  BY <1>1, <1>7, <1>8, SMTT(20) DEF new
<1> HIDE DEF ns
<1>10. ASSUME NEW k \in 1..Len(ns) PROVE ChildrenBehind(ns, k)
  <2>1. CASE k = L + 1
    <3>1. Len(ns[k].sub.cells) = 0
      BY <1>8, <1>9, <2>1 DEF new
    <3> QED BY <3>1 DEF ChildrenBehind
  <2>2. CASE k = h
    <3>1. /\ k \in 1..L /\ ns[k].sub.cells = Append(ms[h].sub.cells, cell) /\ ms[h].sub.cells \in Seq(SubCell)
          /\ Len(ms[h].sub.cells) \in Nat
      BY <1>1, <1>6, <1>7, <1>9, <2>2, TreeAt
    <3>2. \A i \in 1..Len(ms[h].sub.cells) : ms[h].sub.cells[i].child \in (h + 1)..L
      BY TreeAt DEF ChildrenBehind
    <3>3. cell.child = L + 1
      OBVIOUS
    <3> HIDE DEF cell
    <3>4. ASSUME NEW i \in 1..Len(ns[k].sub.cells) PROVE ns[k].sub.cells[i].child \in (k + 1)..Len(ns)
      <4>1. CASE i = Len(ms[h].sub.cells) + 1
        <5>1. ns[k].sub.cells[i] = cell
          BY <1>3, <3>1, <4>1
        <5>2. L + 1 \in (k + 1)..Len(ns)
          BY <1>1, <1>9, <2>2
        <5> QED BY <3>3, <5>1, <5>2
      <4>2. CASE i \in 1..Len(ms[h].sub.cells)
        <5>1. ns[k].sub.cells[i] = ms[h].sub.cells[i]
          BY <1>3, <3>1, <4>2
        <5> QED BY <1>1, <1>9, <2>2, <3>2, <4>2, <5>1
      <4>3. Len(ns[k].sub.cells) = Len(ms[h].sub.cells) + 1
        BY <1>3, <3>1
      <4> QED BY <3>1, <4>1, <4>2, <4>3
    <3> QED BY <3>4 DEF ChildrenBehind
  <2>3. CASE k \in 1..L /\ k # h
    <3>1. ns[k] = ms[k] /\ ChildrenBehind(ms, k)
      BY <1>7, <1>9, <2>3, TreeAt
    <3>2. ASSUME NEW i \in 1..Len(ms[k].sub.cells) PROVE ms[k].sub.cells[i].child \in (k + 1)..Len(ns)
      <4>1. ms[k].sub.cells[i].child \in (k + 1)..L
        BY <3>1 DEF ChildrenBehind
      <4> QED BY <1>1, <1>9, <4>1
    <3> QED BY <3>1, <3>2 DEF ChildrenBehind
  <2> QED BY <1>1, <1>9, <2>1, <2>2, <2>3
<1>11. ns[L + 1].type = f.of /\ \A k \in 1..L : ns[k].type = ms[k].type
  BY <1>6, <1>7, <1>8, <1>9 DEF new
<1>12. Tree(ns)
  BY <1>9, <1>10 DEF Tree
<1>13. AddMessage(ms, h, key) = ns
  BY DEF AddMessage, ns, grown, parent, f
<1> QED BY <1>9, <1>11, <1>12, <1>13 DEF f

(* A new sub-message does. *)
LEMMA SubMessageKeeps ==
  ASSUME CodecInv, NEW h \in DOMAIN msgs, NEW c \in Menu, SubMessage(h, c)
  PROVE  CodecInv'
<1>1. Calls(h, c, "message") /\ c.key \in DOMAIN Fields[msgs[h].type] /\ msgs' = AddMessage(msgs, h, c.key)
  BY DEF SubMessage, Known, HasField
<1>2. /\ h \in 1..Len(msgs) /\ c.type = msgs[h].type /\ c.op = "message" /\ CallFits(c)
      /\ StateKept' /\ PacketKept' /\ GotKept'
      /\ (calls'[Root] = 0 => calls[Root] = 0) /\ (msgs[h].type = Root => calls'[Root] # 0)
  BY <1>1, CallKeeps
<1>3. Fields[msgs[h].type][c.key].type = "message"
  BY <1>1, <1>2 DEF CallFits, HasField
<1>4. /\ Tree(msgs) /\ Len(msgs) \in Nat \ {0} /\ msgs[1].type = Root /\ (calls[Root] = 0 => Len(msgs) = 1)
      /\ IsSeq(told) /\ Len(told) = Len(msgs)
      /\ \A k \in 1..Len(msgs) : DOMAIN told[k] = DOMAIN Fields[msgs[k].type]
  BY DEF CodecInv, MessagesKept, ToldKept
<1> DEFINE ns == AddMessage(msgs, h, c.key)
           of == Fields[msgs[h].type][c.key].of
<1>5. /\ Tree(ns) /\ Len(ns) = Len(msgs) + 1 /\ ns[Len(msgs) + 1].type = of
      /\ \A k \in 1..Len(msgs) : ns[k].type = msgs[k].type
  BY <1>1, <1>2, <1>3, <1>4, BranchFits
<1>6. msgs' = ns
  BY <1>1
<1> HIDE DEF ns
<1>7. calls'[Root] # 0
  <2>1. CASE calls[Root] = 0
    <3>1. h = 1
      BY <1>2, <1>4, <2>1
    <3> QED BY <1>2, <1>4, <3>1
  <2>2. CASE calls[Root] # 0
    BY <1>2, <2>2
  <2> QED BY <2>1, <2>2
<1>8. MessagesKept'
  <2>1. 1 \in 1..Len(msgs) /\ Len(msgs) + 1 \in Nat \ {0}
    BY <1>4
  <2> QED BY <1>4, <1>5, <1>6, <1>7, <2>1 DEF MessagesKept
<1>9. ToldKept'
  <2> DEFINE x == [told[h] EXCEPT ![c.key] = Append(told[h][c.key], Len(msgs) + 1)]
             said == [told EXCEPT ![h] = x]
             new == NothingTold(of)
             next == Append(said, new)
  <2>1. told' = next
    BY Zenon DEF SubMessage
  <2>2. DOMAIN x = DOMAIN told[h] /\ DOMAIN NothingTold(of) = DOMAIN Fields[of]
    BY Zenon DEF NothingTold
  <2> HIDE DEF x
  <2>3. IsSeq(said) /\ Len(said) = Len(told)
    BY <1>4, SetKeepsSeq
  <2>4. DOMAIN told = 1..Len(told)
    BY <1>4, SeqLength
  <2>5. \A k \in 1..Len(told) : said[k] = IF k = h THEN x ELSE told[k]
    BY <2>4, Zenon
  <2> HIDE DEF said
  <2>6. DOMAIN new = DOMAIN Fields[of]
    BY <2>2
  <2> HIDE DEF new
  <2>7. /\ IsSeq(next) /\ Len(next) = Len(said) + 1 /\ next[Len(said) + 1] = new
        /\ \A k \in 1..Len(said) : next[k] = said[k]
    BY <2>3, AppendIsSeq
  <2> HIDE DEF next, of
  <2>8. ASSUME NEW k \in 1..Len(ns) PROVE DOMAIN next[k] = DOMAIN Fields[ns[k].type]
    <3>1. CASE k = Len(msgs) + 1
      BY <1>4, <1>5, <2>3, <2>7, <2>6, <3>1
    <3>2. CASE k \in 1..Len(msgs)
      <4>1. next[k] = said[k] /\ said[k] = IF k = h THEN x ELSE told[k]
        BY <1>4, <2>3, <2>5, <2>7, <3>2
      <4>2. DOMAIN said[k] = DOMAIN told[k]
        BY <2>2, <4>1
      <4> QED BY <1>4, <1>5, <3>2, <4>1, <4>2
    <3> QED BY <1>4, <1>5, <3>1, <3>2
  <2> QED BY <1>4, <1>5, <1>6, <2>1, <2>3, <2>7, <2>8 DEF ToldKept
<1> QED BY <1>2, <1>8, <1>9 DEF CodecInv

(* pbc_wmessage_buffer does. *)
LEMMA SendKeeps ==
  ASSUME CodecInv, Send
  PROVE  CodecInv'
<1> DEFINE ns == Buffer(msgs)
<1>1. Tree(msgs) /\ Len(msgs) \in Nat \ {0} /\ msgs[1].type = Root /\ (calls[Root] = 0 => Len(msgs) = 1)
  BY DEF CodecInv, MessagesKept
<1>2. Tree(ns) /\ Len(ns) = Len(msgs) /\ \A k \in 1..Len(msgs) : Later(msgs[k], ns[k])
  <2>1. staleByte \in Byte
    BY DEF CodecInv, StateKept
  <2> QED BY <1>1, <2>1, BufferKeeps
<1>3. msgs' = ns /\ packet' = <<msgs'[1].buf>> /\ got = <<>> /\ UNCHANGED <<shift35, staleByte, told, calls, got>>
  BY DEF Send
<1> HIDE DEF ns
<1>4. 1 \in 1..Len(msgs) /\ \A k \in 1..Len(msgs) : ns[k].type = msgs[k].type
  BY <1>1, <1>2 DEF Later
<1>5. ns[1].buf \in Seq(Byte)
  <2>1. ns[1] \in Written
    BY <1>2, <1>4 DEF Later
  <2> QED BY <2>1, WrittenFields
<1>6. MessagesKept'
  BY <1>1, <1>2, <1>3, <1>4 DEF MessagesKept
<1>7. ToldKept'
  BY <1>2, <1>3, <1>4 DEF CodecInv, ToldKept
<1>8. PacketKept'
  <2>1. packet' = <<ns[1].buf>>
    BY <1>3
  <2> QED BY <1>5, <2>1 DEF PacketKept
<1>9. StateKept' /\ GotKept'
  BY <1>3 DEF CodecInv, StateKept, GotKept, Received
<1> QED BY <1>6, <1>7, <1>8, <1>9 DEF CodecInv

(* Packing a struct does. *)
LEMMA SendStructKeeps ==
  ASSUME CodecInv, NEW data \in Structs, NEW room \in Rooms, SendStruct(data, room)
  PROVE  CodecInv'
<1> DEFINE out == PatternPack(ThePattern, data, room).out
           said == [k \in DOMAIN told[1] |-> IF InPattern(k) THEN CellSays(PatternField(k), data[k]) ELSE <<>>]
<1>1. out \in Seq(Byte)
  BY StructOut DEF IsOut
<1>2. /\ packet' = <<out>> /\ told' = <<said>> /\ calls[Root] = 0 /\ got = <<>>
      /\ UNCHANGED <<shift35, staleByte, msgs, calls, got>>
  BY DEF SendStruct, Sent
<1>3. DOMAIN said = DOMAIN told[1]
  OBVIOUS
<1> HIDE DEF out, said
<1>4. Len(msgs) = 1 /\ \A k \in 1..Len(msgs) : DOMAIN told[k] = DOMAIN Fields[msgs[k].type]
  BY <1>2 DEF CodecInv, MessagesKept, ToldKept
<1>5. IsSeq(<<said>>) /\ Len(<<said>>) = 1 /\ <<said>>[1] = said
  <2>1. <<said>> \in Seq({said}) /\ Len(<<said>>) = 1 /\ <<said>>[1] = said
    OBVIOUS
  <2>2. IsSeq(<<said>>)
    BY <2>1, Zenon DEF IsSeq
  <2> QED BY <2>1, <2>2
<1>6. ToldKept'
  BY <1>2, <1>3, <1>4, <1>5 DEF ToldKept
<1>7. PacketKept'
  BY <1>1, <1>2 DEF PacketKept
<1>8. StateKept' /\ MessagesKept' /\ GotKept'
  BY <1>2 DEF CodecInv, StateKept, MessagesKept, GotKept, Received
<1> QED BY <1>6, <1>7, <1>8 DEF CodecInv

(* What arrives is bytes. *)
LEMMA ArrivedBytes ==
  ASSUME CodecInv, packet # <<>>, NEW cut \in Nat, cut <= Len(packet[1])
  PROVE  Arrived(cut) \in Seq(Byte)
<1>1. PICK bytes \in Seq(Byte) : packet = <<bytes>>
  BY DEF CodecInv, PacketKept
<1>2. packet[1] = bytes /\ Len(bytes) \in Nat
  BY <1>1
<1>3. Len(bytes) - cut \in 0..Len(bytes) /\ 1 \in 1..(Len(bytes) + 1)
  BY <1>2
<1> DEFINE rest == Len(bytes) - cut
<1>4. Arrived(cut) = SubSeq(bytes, 1, rest)
  BY <1>2 DEF Arrived
<1> HIDE DEF rest
<1>5. SubSeq(bytes, 1, rest) \in Seq(Byte)
  BY <1>3, CutBytes DEF rest
<1> QED BY <1>4, <1>5

(* Reading changes what was got, and nothing else. *)
LEMMA ReadsKeep ==
  ASSUME CodecInv, NEW how, NEW type, NEW cut \in 0..MaxCut, NEW val, Reads(how, type, cut, val),
         how = "message" => \A n \in Nat : ArraysHold(val, n),
         how = "struct" => DOMAIN val.data = {pf.key : pf \in Range(ThePattern)}
  PROVE  CodecInv'
<1>1. /\ packet # <<>> /\ got' = <<[how |-> how, type |-> type, cut |-> cut, val |-> val]>>
      /\ UNCHANGED <<shift35, staleByte, msgs, told, calls, packet>>
  BY DEF Reads
<1>2. got'[1].how = how /\ got'[1].val = val /\ got' # <<>>
  BY <1>1
<1>3. GotKept'
  <2>1. Received("message")' => how = "message"
    BY <1>2 DEF Received
  <2>2. Received("struct")' => how = "struct"
    BY <1>2 DEF Received
  <2> QED BY <1>1, <1>2, <2>1, <2>2 DEF GotKept
<1>4. StateKept' /\ MessagesKept' /\ ToldKept' /\ PacketKept'
  BY <1>1 DEF CodecInv, StateKept, MessagesKept, ToldKept, PacketKept
<1> QED BY <1>3, <1>4 DEF CodecInv

(* Reading the message does. *)
LEMMA MessageReadKeeps ==
  ASSUME CodecInv, NEW cut \in 0..MaxCut, NEW type \in Readers, ReceiveMessage(type, cut)
  PROVE  CodecInv'
<1> DEFINE val == ReadMessage(type, Arrived(cut))
<1>1. Reads("message", type, cut, val)
  BY DEF ReceiveMessage
<1>2. cut \in Nat /\ packet # <<>> /\ cut <= Len(packet[1]) /\ type \in DOMAIN Fields
  BY <1>1, CodecAssumption DEF Reads
<1>3. Arrived(cut) \in Seq(Byte)
  BY <1>2, ArrivedBytes
<1>4. \A n \in Nat : ArraysHold(val, n)
  BY <1>2, <1>3, ReadArraysHold
<1> HIDE DEF val
<1> QED BY <1>1, <1>4, ReadsKeep

(* Reading it into a struct does. *)
LEMMA StructReadKeeps ==
  ASSUME CodecInv, NEW cut \in 0..MaxCut, NEW data \in Priors, ReceiveStruct(data, cut)
  PROVE  CodecInv'
<1> DEFINE val == PatternUnpack(ThePattern, Arrived(cut), data)
<1>1. Reads("struct", Root, cut, val)
  BY DEF ReceiveStruct
<1>2. cut \in Nat /\ packet # <<>> /\ cut <= Len(packet[1])
  BY <1>1, CodecAssumption DEF Reads
<1>3. Arrived(cut) \in Seq(Byte)
  BY <1>2, ArrivedBytes
<1>4. DOMAIN val.data = {pf.key : pf \in Range(ThePattern)}
  <2> DEFINE bytes == Arrived(cut)
  <2>1. bytes \in Seq(Byte) /\ val = PatternUnpack(ThePattern, bytes, data)
    BY <1>3
  <2> HIDE DEF bytes, val
  <2>2. DOMAIN PatternUnpack(ThePattern, bytes, data).data = DOMAIN data
    BY <2>1, UnpackedKeep
  <2>3. DOMAIN data = {pf.key : pf \in Range(ThePattern)}
    BY CodecAssumption
  <2> QED BY <2>1, <2>2, <2>3
<1> HIDE DEF val
<1> QED BY <1>1, <1>4, ReadsKeep

----------------------------------------------------------------------------
(* The theorems. *)

(* Whatever is written, sent and read, in any order that the calls allow,  *)
(* the invariant holds.                                                    *)
THEOREM CodecInvariant == Spec => []CodecInv
<1>1. Init => CodecInv
  BY CodecInit
<1>2. CodecInv /\ [Next]_codecVars => CodecInv'
  <2> SUFFICES ASSUME CodecInv, [Next]_codecVars PROVE CodecInv'
    OBVIOUS
  <2>1. ASSUME NEW h \in DOMAIN msgs, NEW c \in Menu,
               Integer(h, c) \/ Real(h, c) \/ String(h, c) \/ SubMessage(h, c) \/ Refused(h, c)
        PROVE  CodecInv'
    BY <2>1, IntegerKeeps, RealKeeps, StringKeeps, SubMessageKeeps, RefusedKeeps
  <2>2. CASE Send
    BY <2>2, SendKeeps
  <2>3. ASSUME NEW data \in Structs, NEW room \in Rooms, SendStruct(data, room)
        PROVE  CodecInv'
    BY <2>3, SendStructKeeps
  <2>4. ASSUME NEW cut \in 0..MaxCut, NEW type \in Readers,
               ReceiveMessage(type, cut) \/ ReceiveCallbacks(type, cut)
        PROVE  CodecInv'
    <3>1. CASE ReceiveMessage(type, cut)
      BY <3>1, MessageReadKeeps
    <3>2. CASE ReceiveCallbacks(type, cut)
      <4> DEFINE val == PbcDecode(type, Arrived(cut))
      <4>1. Reads("callbacks", type, cut, val)
        BY <3>2 DEF ReceiveCallbacks
      <4> HIDE DEF val
      <4> QED BY <4>1, ReadsKeep
    <3> QED BY <2>4, <3>1, <3>2
  <2>5. ASSUME NEW cut \in 0..MaxCut, NEW data \in Priors, ReceiveStruct(data, cut)
        PROVE  CodecInv'
    BY <2>5, StructReadKeeps
  <2>6. CASE UNCHANGED codecVars
    BY <2>6 DEF codecVars, CodecInv, StateKept, MessagesKept, ToldKept, PacketKept, GotKept, Received
  <2> QED BY <2>1, <2>2, <2>3, <2>4, <2>5, <2>6 DEF Next
<1> QED BY <1>1, <1>2, PTL DEF Spec

(* A sequence of bytes holds bytes. *)
LEMMA BytesHeld == ASSUME NEW s \in Seq(Byte) PROVE Range(s) \subseteq Byte
BY DEF Range

(* The messages, the history of the calls, the packet and what was         *)
(* received are of their kinds: bytes in buffers whose capacity is 64,     *)
(* doubled some times (_expand), and structs with all their cells          *)
(* (pbc_pattern_unpack).                                                   *)
THEOREM CodecTypes == Spec => []TypeOK
<1>1. CodecInv => TypeOK
  <2> SUFFICES ASSUME CodecInv PROVE TypeOK
    OBVIOUS
  <2>1. shift35 \in Shifts /\ staleByte \in Byte /\ \A type \in DOMAIN calls : calls[type] \in 0..MaxCalls[type]
    BY DEF CodecInv, StateKept
  <2>2. msgs \in Seq(Written) /\ IsSeq(told) /\ Len(told) = Len(msgs)
        /\ \A h \in 1..Len(msgs) : DOMAIN told[h] = DOMAIN Fields[msgs[h].type]
    BY DEF CodecInv, MessagesKept, ToldKept, Tree
  <2>3. DOMAIN told = DOMAIN msgs /\ DOMAIN msgs = 1..Len(msgs)
    <3>1. DOMAIN told = 1..Len(told)
      BY <2>2, SeqLength
    <3> QED BY <2>2, <3>1
  <2>4. ASSUME NEW h \in DOMAIN msgs
        PROVE  DoubledTo(WMESSAGE_SIZE, msgs[h].cap) = msgs[h].cap /\ Range(msgs[h].buf) \subseteq Byte
    <3>1. msgs[h] \in Written
      BY <2>2
    <3>2. msgs[h].buf \in Seq(Byte) /\ DoubledTo(64, msgs[h].cap) = msgs[h].cap
      BY <3>1, WrittenFields
    <3> QED BY <3>2, BytesHeld DEF WMESSAGE_SIZE
  <2>5. packet # <<>> => Range(packet[1]) \subseteq Byte
    <3> SUFFICES ASSUME packet # <<>> PROVE Range(packet[1]) \subseteq Byte
      OBVIOUS
    <3>1. PICK bytes \in Seq(Byte) : packet = <<bytes>>
      BY DEF CodecInv, PacketKept
    <3>2. packet[1] = bytes
      BY <3>1
    <3> QED BY <3>2, BytesHeld
  <2>6. Received("struct") => DOMAIN got[1].val.data = {pf.key : pf \in Range(ThePattern)}
    BY DEF CodecInv, GotKept
  <2> QED BY <2>1, <2>2, <2>3, <2>4, <2>5, <2>6 DEF TypeOK
<1> QED BY <1>1, CodecInvariant, PTL

(* No buffer of a message (_expand and the writes behind it, wmessage.c)   *)
(* and no array (_pbcA_push), of those written as of those read, is        *)
(* written past its end, for every sequence of calls that puts no number   *)
(* into a packed field of 4 byte numbers.  Without that hypothesis it is   *)
(* false: pbc_wmessage_buffer lays those numbers out at distances of 8     *)
(* bytes and counts 4, as the run on packed fields shows.                  *)
THEOREM NothingOverruns ==
  ASSUME NarrowUnpacked
  PROVE  Spec => []NoOverrun
<1>1. CodecInv => NoOverrun
  <2> SUFFICES ASSUME CodecInv PROVE NoOverrun
    OBVIOUS
  <2>1. msgs \in Seq(Written)
    BY DEF CodecInv, MessagesKept, Tree
  <2>2. ASSUME NEW h \in DOMAIN msgs PROVE Within(msgs[h])
    <3>1. msgs[h] \in Written
      BY <2>1
    <3> QED BY <3>1, WrittenWithin
  <2>3. Received("message") => ArraysHold(got[1].val, Len(packet[1]) \div 2)
    <3> SUFFICES ASSUME Received("message") PROVE ArraysHold(got[1].val, Len(packet[1]) \div 2)
      OBVIOUS
    <3>1. packet # <<>> /\ \A n \in Nat : ArraysHold(got[1].val, n)
      BY DEF CodecInv, GotKept
    <3>2. PICK bytes \in Seq(Byte) : packet = <<bytes>>
      BY <3>1 DEF CodecInv, PacketKept
    <3>3. Len(packet[1]) \div 2 \in Nat
      <4>1. Len(packet[1]) \in Nat
        BY <3>2
      <4>2. \A n \in Nat : n \div 2 \in Nat
        OBVIOUS
      <4> QED BY <4>1, <4>2, Zenon
    <3> QED BY <3>1, <3>3
  <2> QED BY <2>2, <2>3 DEF NoOverrun
<1> QED BY <1>1, CodecInvariant, PTL
=============================================================================
