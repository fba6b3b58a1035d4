-------------------------- MODULE NetVarintProofs --------------------------
(***************************************************************************)
(* Proofs about NetVarint for every set of streams of any length: the      *)
(* reader ends after at most ten reads, what it makes of a varint, and that*)
(* every length is read as write_raw_varint32 wrote it.                    *)
(***************************************************************************)
EXTENDS NetVarint, WellFoundedInduction, NaturalsInduction, SequenceTheorems, TLAPS

(* Numbers and their digits *)

LEMMA Powers == /\ 2^(7 * (1 - 1)) = 1 /\ 2^(7 * (2 - 1)) = 128
                /\ 2^(7 * (3 - 1)) = 128 * 128 /\ 2^(7 * (4 - 1)) = 128 * 128 * 128
                /\ 2^28 = 128 * 128 * 128 * 128 /\ 2^30 = 4 * (128 * 128 * 128 * 128)
BY SMT

LEMMA PartsOfByte ==
  ASSUME NEW b \in Bytes
  PROVE  b \in Int /\ b % 128 \in Int /\ b % 8 \in Int
BY SMT DEF Bytes

(* The two ways to the sign in the fifth byte. *)
LEMMA NibbleOfDigit ==
  ASSUME NEW b \in Bytes
  PROVE  Nibble(b % 128) = (b % 8) - (IF (b \div 8) % 2 = 1 THEN 8 ELSE 0)
BY SMT DEF Nibble, Bytes

(* One more byte is one more digit, as OrIn has it; after five there are   *)
(* none.                                                                   *)
LEMMA NumberStep ==
  ASSUME NEW s \in Seq(Bytes), NEW n \in 1..Len(s)
  PROVE  /\ n <= 5 => Number(s, n) = OrIn(Number(s, n - 1), s[n], n)
         /\ n > 5 => Number(s, n) = Number(s, n - 1)
<1> DEFINE digit(k, i) == IF i <= k THEN s[i] % 128 ELSE 0
<1>1. \A i \in 1..n : s[i] \in Bytes /\ s[i] \in Int /\ s[i] % 128 \in Int
  <2>1. \A i \in 1..n : s[i] \in Bytes
    OBVIOUS
  <2>2. QED
    BY <2>1, PartsOfByte
<1>2. n \in Nat /\ Len(s) \in Nat
  OBVIOUS
<1>3. Nibble(0) = 0
  BY DEF Nibble
<1>4. CASE n = 1
  BY <1>1, <1>3, <1>4, Powers, SMT DEF Number, OrIn
<1>5. CASE n = 2
  BY <1>1, <1>3, <1>5, Powers, SMT DEF Number, OrIn
<1>6. CASE n = 3
  BY <1>1, <1>3, <1>6, Powers, SMT DEF Number, OrIn
<1>7. CASE n = 4
  <2> DEFINE d1 == s[1] % 128
             d2 == s[2] % 128
             d3 == s[3] % 128
             d4 == s[4] % 128
  <2>1. d1 \in Int /\ d2 \in Int /\ d3 \in Int /\ d4 \in Int
    BY <1>1, <1>7
  <2>2. /\ Number(s, 3) = d1 + 128 * (d2 + 128 * (d3 + 128 * (0 + 128 * 0)))
        /\ Number(s, 4) = d1 + 128 * (d2 + 128 * (d3 + 128 * (d4 + 128 * 0)))
    BY <1>3 DEF Number
  <2>3. OrIn(Number(s, 3), s[4], 4) = Number(s, 3) + d4 * (128 * 128 * 128)
    BY Powers DEF OrIn
  <2> HIDE DEF d1, d2, d3, d4
  <2>4. Number(s, 4) = Number(s, 3) + d4 * (128 * 128 * 128)
    BY <2>1, <2>2, SMT
  <2>5. n - 1 = 3
    BY <1>7
  <2>6. QED
    BY <1>7, <2>3, <2>4, <2>5
<1>8. CASE n = 5
  <2>1. s[5] \in Bytes /\ Nibble(s[5] % 128) = (s[5] % 8) - (IF (s[5] \div 8) % 2 = 1 THEN 8 ELSE 0)
    BY <1>1, <1>8, NibbleOfDigit
  <2>2. s[5] % 8 \in Int
    BY <2>1, PartsOfByte
  <2>3. s[1] % 128 \in Int /\ s[2] % 128 \in Int /\ s[3] % 128 \in Int /\ s[4] % 128 \in Int
    BY <1>1, <1>8
  <2> DEFINE d1 == s[1] % 128
             d2 == s[2] % 128
             d3 == s[3] % 128
             d4 == s[4] % 128
             top == Nibble(s[5] % 128)
             r == d1 + 128 * (d2 + 128 * (d3 + 128 * d4))
  <2>4. Number(s, 4) = r
    BY <1>3, <2>3, SMT DEF Number
  <2>5. Number(s, 5) = r + (128 * 128 * 128 * 128) * top
    <3>1. Number(s, 5) = d1 + 128 * (d2 + 128 * (d3 + 128 * (d4 + 128 * top)))
      BY DEF Number
    <3>2. d1 \in Int /\ d2 \in Int /\ d3 \in Int /\ d4 \in Int /\ top \in Int
      BY <2>1, <2>2, <2>3
    <3> HIDE DEF d1, d2, d3, d4, top
    <3>3. QED
      BY <3>1, <3>2, SMT
  <2>6. r \in Int
    BY <2>3
  <2> HIDE DEF r
  <2>7. Fifth(r, s[5]) = r + (128 * 128 * 128 * 128) * top
    BY <2>1, <2>2, <2>6, Powers, SMT DEF Fifth
  <2>8. OrIn(r, s[5], 5) = Fifth(r, s[5])
    BY DEF OrIn
  <2>9. n - 1 = 4
    BY <1>8
  <2>10. QED
    BY <1>8, <2>4, <2>5, <2>7, <2>8, <2>9
<1>9. CASE n > 5
  BY <1>2, <1>9, SMT DEF Number
<1>10. QED
  BY <1>2, <1>4, <1>5, <1>6, <1>7, <1>8, <1>9

LEMMA OrInType ==
  ASSUME NEW r \in Int, NEW b \in Bytes, NEW n \in 1..5
  PROVE  OrIn(r, b, n) \in Int
<1>1. b \in Int /\ b % 128 \in Int /\ b % 8 \in Int
  BY DEF Bytes
<1>2. n = 1 \/ n = 2 \/ n = 3 \/ n = 4 \/ n = 5
  OBVIOUS
<1>3. n < 5 => OrIn(r, b, n) \in Int
  BY <1>1, <1>2, Powers, SMT DEF OrIn
<1>4. n = 5 => OrIn(r, b, n) \in Int
  BY <1>1, Powers, SMT DEF OrIn, Fifth
<1>5. QED
  BY <1>2, <1>3, <1>4

----------------------------------------------------------------------------
(* The reader *)

(* As long as every read found a byte: the bytes so far continue and the   *)
(* result is the number of their digits, and at the end the last byte does *)
(* not continue, unless the reader gave up.                                *)
AllContinue(k) == \A i \in 1..k : Continues(input[i])
ReadInv ==
  /\ TypeOK
  /\ input \in Seq(Bytes) /\ result \in Int /\ consumed <= readlen
  /\ Running /\ NothingMissed => AllContinue(consumed) /\ result = Number(input, consumed)
  /\ ~Running /\ NothingMissed =>
       \/ consumed = MaxBytes /\ AllContinue(consumed)
       \/ /\ consumed \in 1..MaxBytes
          /\ AllContinue(consumed - 1) /\ ~Continues(input[consumed])
          /\ value = Number(input, consumed)
          /\ ret = IF consumed <= 5 THEN 0 ELSE -1

LEMMA ReadInit == Init => ReadInv
<1> SUFFICES ASSUME Init PROVE ReadInv
  OBVIOUS
<1>1. input \in Seq(Bytes) /\ Len(input) \in Nat
  BY InputsAssumption DEF Init
<1>2. Running
  BY DEF Init, Running
<1>3. Number(input, 0) = 0
  BY SMT DEF Number, Nibble
<1>4. TypeOK
  BY <1>1 DEF Init, TypeOK, Bytes, MaxBytes
<1>5. QED
  BY <1>1, <1>2, <1>3, <1>4 DEF Init, ReadInv, AllContinue

(* Whatever byte is decoded, the types hold and the reads are bounded. *)
LEMMA DecodeType ==
  ASSUME ReadInv, Running, NEW b \in Bytes, NEW n, n = readlen + 1, Decode(b, n)
  PROVE  /\ n \in 1..MaxBytes /\ result' \in Int /\ value' \in Int \cup {Unset}
         /\ ret' \in {Unset, 0, -1} /\ (ret' = Unset => n < MaxBytes)
<1>1. readlen \in Nat /\ n \in 1..MaxBytes /\ result \in Int /\ value \in Int \cup {Unset}
      /\ ret = Unset
  BY DEF ReadInv, TypeOK, Running, MaxBytes
<1>2. CASE n <= 5 /\ result' = OrIn(result, b, n)
           /\ IF Continues(b) THEN UNCHANGED <<value, ret>> ELSE value' = result' /\ ret' = 0
  <2>1. result' \in Int
    BY <1>1, <1>2, OrInType DEF MaxBytes
  <2>2. n < MaxBytes
    BY <1>2, <1>1 DEF MaxBytes
  <2>3. QED
    BY <1>1, <1>2, <2>1, <2>2
<1>3. CASE n > 5 /\ ~Continues(b) /\ value' = result /\ ret' = -1 /\ UNCHANGED result
  BY <1>1, <1>3, UnsetAssumption
<1>4. CASE n > 5 /\ Continues(b) /\ ret' = (IF n = LastRead THEN 0 ELSE Unset)
           /\ UNCHANGED <<result, value>>
  BY <1>1, <1>4, UnsetAssumption DEF LastRead, MaxBytes
<1>5. QED
  BY <1>2, <1>3, <1>4 DEF Decode

LEMMA ReadNothingStep ==
  ASSUME ReadInv, ReadNothing PROVE ReadInv'
<1>1. tmp \in Bytes /\ Running /\ readlen' = readlen + 1 /\ Decode(tmp, readlen')
  BY DEF ReadInv, TypeOK, ReadNothing
<1>2. UNCHANGED <<input, consumed, tmp>>
  BY DEF ReadNothing
<1>3. /\ readlen' \in 1..MaxBytes /\ result' \in Int /\ value' \in Int \cup {Unset}
      /\ ret' \in {Unset, 0, -1} /\ (ret' = Unset => readlen' < MaxBytes)
  BY <1>1, DecodeType
<1>4. consumed \in Nat /\ readlen \in Nat /\ consumed <= readlen /\ input \in Seq(Bytes)
      /\ consumed \in 0..Len(input)
  BY DEF ReadInv, TypeOK, MaxBytes
<1>5. TypeOK'
  BY <1>1, <1>2, <1>3, <1>4 DEF TypeOK, Running, MaxBytes
<1>6. ~NothingMissed' /\ consumed' <= readlen'
  BY <1>1, <1>2, <1>4 DEF NothingMissed
<1>7. QED
  BY <1>2, <1>3, <1>4, <1>5, <1>6 DEF ReadInv

LEMMA ReadByteStep ==
  ASSUME ReadInv, ReadByte PROVE ReadInv'
<1>1. Running /\ readlen' = readlen + 1 /\ Decode(tmp', readlen')
      /\ consumed' = consumed + 1 /\ tmp' = input[consumed + 1] /\ consumed < Len(input)
      /\ UNCHANGED input
  BY DEF ReadByte
<1>2. consumed \in Nat /\ readlen \in Nat /\ consumed <= readlen /\ input \in Seq(Bytes)
      /\ Len(input) \in Nat /\ consumed' \in 1..Len(input)
  BY <1>1 DEF ReadInv, TypeOK, MaxBytes
<1>3. tmp' \in Bytes
  BY <1>1, <1>2
<1>4. /\ readlen' \in 1..MaxBytes /\ result' \in Int /\ value' \in Int \cup {Unset}
      /\ ret' \in {Unset, 0, -1} /\ (ret' = Unset => readlen' < MaxBytes)
  BY <1>1, <1>3, DecodeType
<1>5. TypeOK'
  BY <1>1, <1>2, <1>3, <1>4 DEF TypeOK, Running, MaxBytes
<1>6. ASSUME NothingMissed'
      PROVE  /\ Running' => AllContinue(consumed)' /\ result' = Number(input', consumed')
             /\ ~Running' =>
                  \/ consumed' = MaxBytes /\ AllContinue(consumed)'
                  \/ /\ consumed' \in 1..MaxBytes
                     /\ AllContinue(consumed - 1)' /\ ~Continues(input'[consumed'])
                     /\ value' = Number(input', consumed')
                     /\ ret' = IF consumed' <= 5 THEN 0 ELSE -1
  <2> DEFINE n == consumed + 1
             b == input[n]
  <2>1. NothingMissed /\ readlen' = n /\ consumed' = n /\ n \in 1..Len(input) /\ n \in Nat
    BY <1>1, <1>2, <1>6 DEF NothingMissed
  <2>2. AllContinue(consumed) /\ result = Number(input, consumed)
    BY <1>1, <2>1 DEF ReadInv
  <2>3. AllContinue(consumed)' <=> AllContinue(consumed) /\ Continues(b)
    BY <1>1, <1>2 DEF AllContinue
  <2>4. AllContinue(consumed - 1)' <=> AllContinue(consumed)
    BY <1>1, <1>2 DEF AllContinue
  <2>5. /\ n <= 5 => Number(input, n) = OrIn(result, b, n)
        /\ n > 5 => Number(input, n) = result
    <3>1. n - 1 = consumed
      BY <1>2
    <3>2. QED
      BY <1>2, <2>1, <2>2, <3>1, NumberStep
  <2>6. Decode(b, n) /\ ret = Unset /\ n \in 1..MaxBytes
    BY <1>1, <1>4, <2>1 DEF Running
  <2>7. input'[consumed'] = b /\ Number(input', consumed') = Number(input, n)
    BY <1>1, <2>1
  <2> HIDE DEF n, b
  <2>8. CASE n <= 5 /\ result' = OrIn(result, b, n) /\ Continues(b) /\ UNCHANGED <<value, ret>>
    BY <2>2, <2>3, <2>5, <2>6, <2>7, <2>8 DEF Running
  <2>9. CASE n <= 5 /\ result' = OrIn(result, b, n) /\ ~Continues(b) /\ value' = result' /\ ret' = 0
    BY <2>1, <2>2, <2>4, <2>5, <2>6, <2>7, <2>9, UnsetAssumption DEF Running
  <2>10. CASE n > 5 /\ ~Continues(b) /\ value' = result /\ ret' = -1 /\ UNCHANGED result
    BY <2>1, <2>2, <2>4, <2>5, <2>6, <2>7, <2>10, UnsetAssumption DEF Running
  <2>11. CASE n > 5 /\ Continues(b) /\ ret' = (IF n = LastRead THEN 0 ELSE Unset)
              /\ UNCHANGED <<result, value>>
    BY <2>1, <2>2, <2>3, <2>5, <2>6, <2>7, <2>11, UnsetAssumption DEF Running, LastRead
  <2>12. QED
    BY <2>6, <2>8, <2>9, <2>10, <2>11 DEF Decode
<1>7. consumed' <= readlen'
  BY <1>1, <1>2
<1>8. QED
  BY <1>1, <1>2, <1>4, <1>5, <1>6, <1>7 DEF ReadInv

LEMMA ReadStep == ReadInv /\ [Next]_vars => ReadInv'
<1>1. UNCHANGED vars /\ ReadInv => ReadInv'
  BY DEF vars, ReadInv, TypeOK, Running, NothingMissed, AllContinue
<1>2. QED
  BY <1>1, ReadByteStep, ReadNothingStep DEF Next

LEMMA ReadInvariant == Spec => []ReadInv
BY ReadInit, ReadStep, PTL DEF Spec

(* The reader takes no more than its stream has and makes no more than ten *)
(* reads, on streams of any length, cut and failing ones among them.       *)
THEOREM NetVarintTypeOK == Spec => []TypeOK
<1>1. ReadInv => TypeOK
  BY DEF ReadInv
<1>2. QED
  BY <1>1, ReadInvariant, PTL

----------------------------------------------------------------------------
(* What is read *)

LEMMA LeastNumber ==
  ASSUME NEW S \in SUBSET Nat, S # {}
  PROVE  Min(S) \in S /\ \A y \in S : Min(S) <= y
<1> DEFINE R == {ss \in Nat \X Nat : ss[1] < ss[2]}
<1>1. IsWellFoundedOn(R, Nat)
  BY NatLessThanWellFounded DEF OpToRel
<1>2. PICK x \in S : \A y \in S : ~(<<y, x>> \in R)
  <2> HIDE DEF R
  <2>1. QED
    BY <1>1, WFMin
<1>3. ASSUME NEW y \in S PROVE x <= y
  <2>1. y < x => <<y, x>> \in R
    OBVIOUS
  <2>2. ~(<<y, x>> \in R) /\ x \in Nat /\ y \in Nat
    <3> HIDE DEF R
    <3>1. QED
      BY <1>2
  <2> HIDE DEF R
  <2>3. QED
    BY <2>1, <2>2
<1>4. QED
  BY <1>3 DEF Min

(* The first byte that does not continue ends the number. *)
LEMMA EndOfNumber ==
  ASSUME NEW s \in Seq(Bytes), NEW k \in 1..Len(s), ~Continues(s[k]),
         \A i \in 1..(k - 1) : Continues(s[i])
  PROVE  Complete(s) /\ VarintLen(s) = k
<1>1. k \in Terminators(s) /\ Terminators(s) \in SUBSET Nat
  BY DEF Terminators
<1>2. Min(Terminators(s)) \in Terminators(s) /\ Min(Terminators(s)) <= k
  BY <1>1, LeastNumber
<1>3. \A i \in Terminators(s) : i \in 1..Len(s) /\ ~(i \in 1..(k - 1))
  BY DEF Terminators
<1>4. QED
  BY <1>1, <1>2, <1>3 DEF VarintLen, Complete

(* A complete number that is not longer than ten bytes ends among the ten. *)
LEMMA NotAllContinue ==
  ASSUME NEW s \in Seq(Bytes), Complete(s), NEW k \in Nat, VarintLen(s) <= k
  PROVE  ~\A i \in 1..k : Continues(s[i])
<1>1. Terminators(s) \in SUBSET Nat /\ Terminators(s) # {}
  BY DEF Terminators, Complete
<1>2. VarintLen(s) \in Terminators(s)
  BY <1>1, LeastNumber DEF VarintLen
<1>3. VarintLen(s) \in 1..k /\ ~Continues(s[VarintLen(s)])
  BY <1>2 DEF Terminators
<1>4. QED
  BY <1>3

(* The invariant decides what a complete number was read as. *)
LEMMA ReadInvDecodes ==
  ASSUME ReadInv PROVE DecodesInt32
<1> SUFFICES ASSUME ~Running, NothingMissed, Complete(input), VarintLen(input) <= MaxBytes
             PROVE  /\ value = Int32Of(input)
                    /\ ret = (IF VarintLen(input) <= 5 THEN 0 ELSE -1)
                    /\ consumed = VarintLen(input)
  BY DEF DecodesInt32
<1>1. input \in Seq(Bytes) /\ consumed \in 0..Len(input) /\ Len(input) \in Nat
  BY DEF ReadInv, TypeOK
<1>2. ~(consumed = MaxBytes /\ AllContinue(consumed))
  BY <1>1, NotAllContinue DEF AllContinue, MaxBytes
<1>3. /\ consumed \in 1..MaxBytes
      /\ AllContinue(consumed - 1) /\ ~Continues(input[consumed])
      /\ value = Number(input, consumed)
      /\ ret = IF consumed <= 5 THEN 0 ELSE -1
  BY <1>2 DEF ReadInv
<1>4. consumed = VarintLen(input)
  BY <1>1, <1>3, EndOfNumber DEF AllContinue, MaxBytes
<1>5. QED
  BY <1>3, <1>4 DEF Int32Of

(* Every complete varint of up to ten bytes is read to its end and as its  *)
(* low 32 bits, with the result that goes with its length.                 *)
THEOREM NumbersAreDecoded == Spec => []DecodesInt32
BY ReadInvDecodes, ReadInvariant, PTL

----------------------------------------------------------------------------
(* What is written *)

(* v without its lowest digit, and the byte of the lowest digit. *)
Rest(v) == v \div 128
Low(v) == 128 + (v % 128)

(* The bytes of v, at most five of them. *)
Encoding(v) ==
  IF v < 128 THEN <<v>>
  ELSE IF Rest(v) < 128 THEN <<Low(v), Rest(v)>>
  ELSE IF Rest(Rest(v)) < 128 THEN <<Low(v), Low(Rest(v)), Rest(Rest(v))>>
  ELSE IF Rest(Rest(Rest(v))) < 128
       THEN <<Low(v), Low(Rest(v)), Low(Rest(Rest(v))), Rest(Rest(Rest(v)))>>
  ELSE <<Low(v), Low(Rest(v)), Low(Rest(Rest(v))), Low(Rest(Rest(Rest(v)))),
         Rest(Rest(Rest(Rest(v))))>>

LEMMA RestType ==
  ASSUME NEW v \in Nat
  PROVE  /\ Rest(v) \in Nat /\ Rest(v) <= v /\ Low(v) \in 128..255
         /\ v = (Low(v) % 128) + 128 * Rest(v)
BY SMT DEF Rest, Low

LEMMA RestsAreNat == \A x \in Nat : Rest(x) \in Nat /\ Low(x) \in Nat
<1> SUFFICES ASSUME NEW x \in Nat PROVE Rest(x) \in Nat /\ Low(x) \in Nat
  OBVIOUS
<1>1. Rest(x) \in Nat /\ Low(x) \in 128..255
  BY RestType
<1>2. QED
  BY <1>1

LEMMA RestOfLength ==
  ASSUME NEW v \in Lengths
  PROVE  v \in Nat /\ Rest(v) \in Lengths /\ Rest(Rest(Rest(Rest(v)))) < 8
<1>1. v \in Nat /\ v < 8 * (128 * 128 * 128 * 128)
  BY Powers, SMT DEF Lengths
<1>2. Rest(v) \in Nat /\ Rest(v) < 8 * (128 * 128 * 128)
  BY <1>1, SMT DEF Rest
<1>3. Rest(Rest(v)) \in Nat /\ Rest(Rest(v)) < 8 * (128 * 128)
  BY <1>2, SMT DEF Rest
<1>4. Rest(Rest(Rest(v))) \in Nat /\ Rest(Rest(Rest(v))) < 8 * 128
  BY <1>3, SMT DEF Rest
<1>5. Rest(Rest(Rest(Rest(v)))) < 8
  BY <1>4, SMT DEF Rest
<1>6. Rest(v) \in Lengths
  BY <1>2, Powers, SMT DEF Lengths
<1>7. QED
  BY <1>1, <1>5, <1>6

(* A sequence with one element in front of it, told by its elements. *)
LEMMA OneInFront ==
  ASSUME NEW S, NEW o \in Seq(S), Len(o) = 1, NEW s \in Seq(S), NEW w \in Seq(S),
         Len(w) = 1 + Len(s), w[1] = o[1],
         \A i \in 2..(1 + Len(s)) : w[i] = s[i - 1]
  PROVE  o \o s = w
<1>1. o \o s \in Seq(S) /\ Len(o \o s) = Len(w) /\ Len(s) \in Nat
  <2>1. o \o s \in Seq(S) /\ Len(o \o s) = Len(o) + Len(s)
    BY ConcatProperties
  <2>2. QED
    BY <2>1
<1>2. \A i \in 1..(1 + Len(s)) : (o \o s)[i] = IF i <= 1 THEN o[i] ELSE s[i - 1]
  <2>1. \A i \in 1..(Len(o) + Len(s)) :
          (o \o s)[i] = IF i <= Len(o) THEN o[i] ELSE s[i - Len(o)]
    BY ConcatProperties
  <2>2. QED
    BY <2>1
<1>3. ASSUME NEW i \in 1..(1 + Len(s)) PROVE (o \o s)[i] = w[i]
  <2>1. CASE i = 1
    <3>1. (o \o s)[i] = o[i]
      BY <1>2, <2>1
    <3>2. QED
      BY <2>1, <3>1
  <2>2. CASE i # 1
    <3>1. i \in 2..(1 + Len(s)) /\ ~(i <= 1)
      BY <1>1, <2>2
    <3>2. (o \o s)[i] = s[i - 1]
      BY <1>2, <3>1
    <3>3. w[i] = s[i - 1]
      BY <3>1
    <3>4. QED
      BY <3>2, <3>3
  <2>3. QED
    BY <2>1, <2>2
<1>4. QED
  BY <1>1, <1>3, SeqEqual

LEMMA InFrontOfOne ==
  ASSUME NEW S, NEW a \in S, NEW b \in S
  PROVE  <<a>> \o <<b>> = <<a, b>>
<1> DEFINE o == <<a>>
           s == <<b>>
           w == <<a, b>>
<1>1. o \in Seq(S) /\ s \in Seq(S) /\ w \in Seq(S)
  OBVIOUS
<1>2. Len(o) = 1 /\ Len(w) = 1 + Len(s) /\ w[1] = o[1]
  OBVIOUS
<1>3. \A i \in 2..(1 + Len(s)) : w[i] = s[i - 1]
  <2>1. Len(s) = 1 /\ w[2] = s[1]
    OBVIOUS
  <2>2. \A i \in 2..2 : i = 2
    OBVIOUS
  <2> HIDE DEF s, w
  <2>3. QED
    BY <2>1, <2>2
<1>4. o \o s = w
  <2> HIDE DEF o, s, w
  <2>1. o \in Seq(S) /\ s \in Seq(S) /\ w \in Seq(S)
    BY <1>1
  <2>2. Len(o) = 1 /\ Len(w) = 1 + Len(s) /\ w[1] = o[1]
    BY <1>2
  <2>3. QED
    BY <1>3, <2>1, <2>2, OneInFront, Zenon
<1>5. QED
  BY <1>4

LEMMA InFrontOfTwo ==
  ASSUME NEW S, NEW a \in S, NEW b \in S, NEW c \in S
  PROVE  <<a>> \o <<b, c>> = <<a, b, c>>
<1> DEFINE o == <<a>>
           s == <<b, c>>
           w == <<a, b, c>>
<1>1. o \in Seq(S) /\ s \in Seq(S) /\ w \in Seq(S)
  OBVIOUS
<1>2. Len(o) = 1 /\ Len(w) = 1 + Len(s) /\ w[1] = o[1]
  OBVIOUS
<1>3. \A i \in 2..(1 + Len(s)) : w[i] = s[i - 1]
  <2>1. Len(s) = 2 /\ w[2] = s[1] /\ w[3] = s[2]
    OBVIOUS
  <2>2. \A i \in 2..3 : i = 2 \/ i = 3
    OBVIOUS
  <2> HIDE DEF s, w
  <2>3. QED
    BY <2>1, <2>2
<1>4. o \o s = w
  <2> HIDE DEF o, s, w
  <2>1. o \in Seq(S) /\ s \in Seq(S) /\ w \in Seq(S)
    BY <1>1
  <2>2. Len(o) = 1 /\ Len(w) = 1 + Len(s) /\ w[1] = o[1]
    BY <1>2
  <2>3. QED
    BY <1>3, <2>1, <2>2, OneInFront, Zenon
<1>5. QED
  BY <1>4

LEMMA InFrontOfThree ==
  ASSUME NEW S, NEW a \in S, NEW b \in S, NEW c \in S, NEW d \in S
  PROVE  <<a>> \o <<b, c, d>> = <<a, b, c, d>>
<1> DEFINE o == <<a>>
           s == <<b, c, d>>
           w == <<a, b, c, d>>
<1>1. o \in Seq(S) /\ s \in Seq(S) /\ w \in Seq(S)
  OBVIOUS
<1>2. Len(o) = 1 /\ Len(w) = 1 + Len(s) /\ w[1] = o[1]
  OBVIOUS
<1>3. \A i \in 2..(1 + Len(s)) : w[i] = s[i - 1]
  <2>1. Len(s) = 3 /\ w[2] = s[1] /\ w[3] = s[2] /\ w[4] = s[3]
    OBVIOUS
  <2>2. \A i \in 2..4 : i = 2 \/ i = 3 \/ i = 4
    OBVIOUS
  <2> HIDE DEF s, w
  <2>3. QED
    BY <2>1, <2>2
<1>4. o \o s = w
  <2> HIDE DEF o, s, w
  <2>1. o \in Seq(S) /\ s \in Seq(S) /\ w \in Seq(S)
    BY <1>1
  <2>2. Len(o) = 1 /\ Len(w) = 1 + Len(s) /\ w[1] = o[1]
    BY <1>2
  <2>3. QED
    BY <1>3, <2>1, <2>2, OneInFront, Zenon
<1>5. QED
  BY <1>4

LEMMA InFrontOfFour ==
  ASSUME NEW S, NEW a \in S, NEW b \in S, NEW c \in S, NEW d \in S, NEW e \in S
  PROVE  <<a>> \o <<b, c, d, e>> = <<a, b, c, d, e>>
<1> DEFINE o == <<a>>
           s == <<b, c, d, e>>
           w == <<a, b, c, d, e>>
<1>1. o \in Seq(S) /\ s \in Seq(S) /\ w \in Seq(S)
  OBVIOUS
<1>2. Len(o) = 1 /\ Len(w) = 1 + Len(s) /\ w[1] = o[1]
  OBVIOUS
<1>3. \A i \in 2..(1 + Len(s)) : w[i] = s[i - 1]
  <2>1. Len(s) = 4 /\ w[2] = s[1] /\ w[3] = s[2] /\ w[4] = s[3] /\ w[5] = s[4]
    OBVIOUS
  <2>2. \A i \in 2..5 : i = 2 \/ i = 3 \/ i = 4 \/ i = 5
    OBVIOUS
  <2> HIDE DEF s, w
  <2>3. QED
    BY <2>1, <2>2
<1>4. o \o s = w
  <2> HIDE DEF o, s, w
  <2>1. o \in Seq(S) /\ s \in Seq(S) /\ w \in Seq(S)
    BY <1>1
  <2>2. Len(o) = 1 /\ Len(w) = 1 + Len(s) /\ w[1] = o[1]
    BY <1>2
  <2>3. QED
    BY <1>3, <2>1, <2>2, OneInFront, Zenon
<1>5. QED
  BY <1>4

(* The loop of write_raw_varint32 writes the encoding. *)
LEMMA EncodingStep ==
  ASSUME NEW v \in Lengths
  PROVE  Encoding(v) = IF MoreBits(v) THEN <<Low(v)>> \o Encoding(Rest(v)) ELSE <<v>>
<1>1. v \in Nat /\ Rest(Rest(Rest(Rest(v)))) < 128
  BY RestOfLength
<1>2. CASE v < 128
  BY <1>1, <1>2 DEF Encoding, MoreBits
<1>3. CASE v >= 128
  <2>1. MoreBits(v) /\ ~(v < 128)
    BY <1>1, <1>3 DEF MoreBits
  <2>2. Encoding(v) = <<Low(v)>> \o Encoding(Rest(v))
    <3> DEFINE r1 == Rest(v)
               r2 == Rest(r1)
               r3 == Rest(r2)
               r4 == Rest(r3)
    <3>1. /\ v \in Nat /\ r1 \in Nat /\ r2 \in Nat /\ r3 \in Nat /\ r4 \in Nat
          /\ Low(v) \in Nat /\ Low(r1) \in Nat /\ Low(r2) \in Nat /\ Low(r3) \in Nat
      BY <1>1, RestsAreNat, Zenon
    <3>2. CASE r1 < 128
      BY <2>1, <3>1, <3>2, InFrontOfOne DEF Encoding
    <3>3. CASE ~(r1 < 128) /\ r2 < 128
      BY <2>1, <3>1, <3>3, InFrontOfTwo DEF Encoding
    <3>4. CASE ~(r1 < 128) /\ ~(r2 < 128) /\ r3 < 128
      BY <2>1, <3>1, <3>4, InFrontOfThree DEF Encoding
    <3>5. CASE ~(r1 < 128) /\ ~(r2 < 128) /\ ~(r3 < 128)
      BY <1>1, <2>1, <3>1, <3>5, InFrontOfFour DEF Encoding
    <3>6. QED
      BY <3>2, <3>3, <3>4, <3>5
  <2>3. QED
    BY <2>1, <2>2
<1>4. QED
  BY <1>1, <1>2, <1>3

(* A function of which the loop is true exists, so it is true of the one   *)
(* the specification chooses.                                              *)
LEMMA WriteLoop ==
  ASSUME NEW v \in Lengths
  PROVE  WriteRawVarint[v] = IF MoreBits(v) THEN <<Low(v)>> \o WriteRawVarint[Rest(v)] ELSE <<v>>
<1> DEFINE Body(f, x) == IF MoreBits(x) THEN <<128 + (x % 128)>> \o f[x \div 128] ELSE <<x>>
           Fix(f) == f = [x \in Lengths |-> Body(f, x)]
           g == [x \in Lengths |-> Encoding(x)]
<1>1. Fix(g)
  <2>1. \A x \in Lengths : Body(g, x) = Encoding(x)
    BY EncodingStep, RestOfLength DEF Rest, Low
  <2>2. QED
    BY <2>1
<1>2. WriteRawVarint = CHOOSE f : Fix(f)
  BY DEF WriteRawVarint
<1>3. Fix(WriteRawVarint)
  <2> HIDE DEF Fix, g
  <2>1. QED
    BY <1>1, <1>2
<1>4. WriteRawVarint[v] = Body(WriteRawVarint, v)
  <2> HIDE DEF Body
  <2>1. QED
    BY <1>3
<1>5. QED
  BY <1>4 DEF Rest, Low

LEMMA WriteEncodes ==
  ASSUME NEW v \in Lengths
  PROVE  WriteRawVarint[v] = Encoding(v)
<1> DEFINE Same(x) == WriteRawVarint[x] = Encoding(x)
<1>1. ASSUME NEW x \in Lengths, x < 128 \/ Same(Rest(x)) PROVE Same(x)
  <2>1. x < 128 => ~MoreBits(x)
    BY RestOfLength DEF MoreBits
  <2>2. QED
    BY <1>1, <2>1, WriteLoop, EncodingStep
<1>2. \A x \in Lengths : Rest(x) \in Lengths
  BY RestOfLength
<1>3. Rest(Rest(Rest(Rest(v)))) \in Lengths /\ Rest(Rest(Rest(Rest(v)))) < 128
  <2>1. Rest(Rest(Rest(Rest(v)))) \in Lengths /\ Rest(Rest(Rest(Rest(v)))) < 8
    BY <1>2, RestOfLength
  <2>2. Rest(Rest(Rest(Rest(v)))) \in Nat
    BY <2>1, RestOfLength
  <2>3. QED
    BY <2>1, <2>2
<1> HIDE DEF Same
<1>4. Same(Rest(Rest(Rest(v))))
  BY <1>1, <1>2, <1>3
<1>5. Same(v)
  BY <1>1, <1>2, <1>4
<1>6. QED
  BY <1>5 DEF Same

(* An encoding has up to five bytes, all but the last continue, and their  *)
(* digits are the value's.                                                 *)
LEMMA EncodingReads ==
  ASSUME NEW v \in Lengths
  PROVE  LET w == Encoding(v)
         IN  /\ Len(w) \in 1..5 /\ ~Continues(w[Len(w)])
             /\ \A i \in 1..(Len(w) - 1) : Continues(w[i])
             /\ Number(w, Len(w)) = v
<1> DEFINE r1 == Rest(v)
           r2 == Rest(r1)
           r3 == Rest(r2)
           r4 == Rest(r3)
<1>1. /\ v \in Nat /\ r1 \in Nat /\ r2 \in Nat /\ r3 \in Nat /\ r4 \in Nat /\ r4 < 8
  <2>1. \A x \in Nat : Rest(x) \in Nat
    BY RestType
  <2>2. QED
    BY <2>1, RestOfLength
<1>2. /\ v = (Low(v) % 128) + 128 * r1 /\ r1 = (Low(r1) % 128) + 128 * r2
      /\ r2 = (Low(r2) % 128) + 128 * r3 /\ r3 = (Low(r3) % 128) + 128 * r4
  BY <1>1, RestType
<1>3. \A x \in Nat : Low(x) \in Int /\ Low(x) % 128 \in Int /\ Continues(Low(x))
  BY SMT DEF Low, Continues
<1>4. \A x \in Nat : x < 128 => ~Continues(x) /\ x % 128 = x
  BY SMT DEF Continues
<1>5. Nibble(0) = 0 /\ \A x \in Nat : x < 8 => Nibble(x) = x
  BY SMT DEF Nibble
<1> HIDE DEF r1, r2, r3, r4
<1>6. CASE v < 128
  <2>1. Encoding(v) = <<v>>
    BY <1>6 DEF Encoding
  <2>2. QED
    BY <1>1, <1>4, <1>5, <1>6, <2>1 DEF Number
<1>7. CASE ~(v < 128) /\ r1 < 128
  <2>1. Encoding(v) = <<Low(v), r1>>
    BY <1>7 DEF Encoding, r1
  <2>2. Number(<<Low(v), r1>>, 2) = v
    BY <1>1, <1>2, <1>3, <1>4, <1>5, <1>7, SMT DEF Number
  <2>3. QED
    BY <1>1, <1>3, <1>4, <1>7, <2>1, <2>2
<1>8. CASE ~(v < 128) /\ ~(r1 < 128) /\ r2 < 128
  <2>1. Encoding(v) = <<Low(v), Low(r1), r2>>
    BY <1>8 DEF Encoding, r1, r2
  <2>2. Number(<<Low(v), Low(r1), r2>>, 3) = v
    BY <1>1, <1>2, <1>3, <1>4, <1>5, <1>8, SMT DEF Number
  <2>3. QED
    BY <1>1, <1>3, <1>4, <1>8, <2>1, <2>2
<1>9. CASE ~(v < 128) /\ ~(r1 < 128) /\ ~(r2 < 128) /\ r3 < 128
  <2>1. Encoding(v) = <<Low(v), Low(r1), Low(r2), r3>>
    BY <1>9 DEF Encoding, r1, r2, r3
  <2>2. Number(<<Low(v), Low(r1), Low(r2), r3>>, 4) = v
    <3>1. Number(<<Low(v), Low(r1), Low(r2), r3>>, 4)
            = (Low(v) % 128) + 128 * ((Low(r1) % 128) + 128 * ((Low(r2) % 128) + 128 * (r3 % 128)))
      <4>1. (r3 % 128) + 128 * Nibble(0) = r3 % 128 /\ r3 % 128 = r3
        BY <1>1, <1>4, <1>5, <1>9
      <4>2. QED
        BY <4>1 DEF Number
    <3>2. r3 % 128 = r3
      BY <1>1, <1>4, <1>9
    <3>3. QED
      BY <1>2, <3>1, <3>2
  <2>3. QED
    BY <1>1, <1>3, <1>4, <1>9, <2>1, <2>2
<1>10. CASE ~(v < 128) /\ ~(r1 < 128) /\ ~(r2 < 128) /\ ~(r3 < 128)
  <2>1. Encoding(v) = <<Low(v), Low(r1), Low(r2), Low(r3), r4>>
    BY <1>10 DEF Encoding, r1, r2, r3, r4
  <2>2. Number(<<Low(v), Low(r1), Low(r2), Low(r3), r4>>, 5) = v
    <3>1. Number(<<Low(v), Low(r1), Low(r2), Low(r3), r4>>, 5)
            = (Low(v) % 128) + 128 * ((Low(r1) % 128) + 128 * ((Low(r2) % 128)
                + 128 * ((Low(r3) % 128) + 128 * Nibble(r4 % 128))))
      BY DEF Number
    <3>2. Nibble(r4 % 128) = r4
      BY <1>1, <1>4, <1>5
    <3>3. QED
      BY <1>2, <3>1, <3>2
  <2>3. QED
    BY <1>1, <1>3, <1>4, <1>10, <2>1, <2>2
<1>11. QED
  BY <1>6, <1>7, <1>8, <1>9, <1>10

(* Of two streams that begin alike the same number is read. *)
LEMMA NumberOfPrefix ==
  ASSUME NEW s, NEW t, NEW k \in Nat, \A i \in 1..k : s[i] = t[i]
  PROVE  Number(s, k) = Number(t, k)
<1>1. \A i \in 1..5 : i <= k => s[i] = t[i]
  OBVIOUS
<1>2. QED
  BY <1>1 DEF Number

(* Every length, whatever its width, is read as write_raw_varint32 wrote   *)
(* it, and nothing behind it is taken.                                     *)
THEOREM LengthsRoundTrip == Spec => []RoundTrip
<1>1. ASSUME ReadInv PROVE RoundTrip
  <2> SUFFICES ASSUME NEW v \in Values, ~Running, NothingMissed,
                      Len(input) >= Len(WriteRawVarint[v]),
                      SubSeq(input, 1, Len(WriteRawVarint[v])) = WriteRawVarint[v]
               PROVE  ret = 0 /\ value = v /\ consumed = Len(WriteRawVarint[v])
    BY DEF RoundTrip
  <2> DEFINE w == WriteRawVarint[v]
  <2>1. /\ Len(w) \in 1..5 /\ ~Continues(w[Len(w)])
        /\ \A i \in 1..(Len(w) - 1) : Continues(w[i])
        /\ Number(w, Len(w)) = v
    BY ValuesAssumption, WriteEncodes, EncodingReads
  <2> DEFINE k == Len(w)
  <2>k. k \in 1..5
    BY <2>1
  <2>2. Len(input) >= Len(w) /\ SubSeq(input, 1, Len(w)) = w
    OBVIOUS
  <2> HIDE DEF w
  <2>3. input \in Seq(Bytes) /\ Len(input) \in Nat /\ Len(w) \in 1..Len(input)
    BY <1>1, <2>1, <2>2 DEF ReadInv
  <2>4. \A i \in 1..Len(w) : w[i] = input[i]
    <3>1. \A i \in 1..Len(w) : SubSeq(input, 1, Len(w))[i] = input[i]
      BY <2>3
    <3>2. QED
      BY <2>2, <3>1
  <2>5. Complete(input) /\ VarintLen(input) = Len(w)
    <3>1. ~Continues(input[Len(w)]) /\ \A i \in 1..(Len(w) - 1) : Continues(input[i])
      <4>1. Len(w) \in 1..Len(w) /\ \A i \in 1..(Len(w) - 1) : i \in 1..Len(w)
        <5>1. \A n \in 1..5 : n \in 1..n /\ \A i \in 1..(n - 1) : i \in 1..n
          OBVIOUS
        <5>2. QED
          BY <2>k, <5>1
      <4>2. input[Len(w)] = w[Len(w)] /\ \A i \in 1..(Len(w) - 1) : input[i] = w[i]
        BY <2>4, <4>1
      <4>3. QED
        BY <2>1, <4>2
    <3>2. QED
      BY <2>3, <3>1, EndOfNumber
  <2>6. DecodesInt32
    BY <1>1, ReadInvDecodes
  <2>7. value = Number(input, Len(w)) /\ ret = 0 /\ consumed = Len(w)
    <3>1. VarintLen(input) <= 5 /\ VarintLen(input) <= MaxBytes
      BY <2>1, <2>5 DEF MaxBytes
    <3>2. /\ value = Int32Of(input)
          /\ ret = (IF VarintLen(input) <= 5 THEN 0 ELSE -1)
          /\ consumed = VarintLen(input)
      BY <2>5, <2>6, <3>1 DEF DecodesInt32
    <3>3. QED
      BY <2>5, <3>1, <3>2 DEF Int32Of
  <2>8. Number(input, Len(w)) = v
    BY <2>1, <2>4, NumberOfPrefix
  <2>9. QED
    BY <2>7, <2>8 DEF w
<1>2. QED
  BY <1>1, ReadInvariant, PTL
=============================================================================
