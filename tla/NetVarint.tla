----------------------------- MODULE NetVarint -----------------------------
(***************************************************************************)
(* write_raw_varint32 and read_raw_varint32 of net_utils.c: the length in  *)
(* front of every header and request.  The reader takes one byte per read  *)
(* call and looks at no result of read, so at the end of the stream it goes*)
(* on with the byte it had before.                                         *)
(***************************************************************************)
EXTENDS Integers, Sequences, FiniteSetsExt

CONSTANTS
  Inputs,     \* the byte streams the reader may find, each followed by its end
  Values,     \* the lengths of which to ask whether they are read as they were written
  MayFail,    \* a read may fail although the stream has not ended
  Unset       \* what *value holds when nothing was assigned to it

Bytes == 0..255
MaxBytes == 10      \* a varint of 64 bits

(* The ints that are not negative; 2^31 itself is none. *)
Lengths == 0..((2^30 - 1) + 2^30)

ASSUME InputsAssumption == Inputs \subseteq Seq(Bytes)
ASSUME ValuesAssumption == Values \subseteq Lengths
ASSUME MayFailAssumption == MayFail \in BOOLEAN
ASSUME UnsetAssumption == Unset \notin Int

(* value & ~0x7F; as a mutant, off by one *)
MoreBitsOffByOne(value) == value > 128
MoreBits(value) == value >= 128

(* The loop of write_raw_varint32, for the values the library passes: an   *)
(* int that is not negative.                                               *)
WriteRawVarint[value \in Lengths] ==
  IF MoreBits(value) THEN <<128 + (value % 128)>> \o WriteRawVarint[value \div 128]
                     ELSE <<value>>

----------------------------------------------------------------------------
VARIABLES
  input,      \* history: the whole stream
  consumed,   \* bytes of it the reader has taken
  tmp,        \* the byte read last; not initialised before the first read
  readlen, result, value,
  ret         \* the value returned; Unset while the function runs

vars == <<input, consumed, tmp, readlen, result, value, ret>>

Running == ret = Unset

Init ==
  /\ input \in Inputs /\ consumed = 0
  /\ tmp \in {0, 127, 128, 255}
  /\ readlen = 0 /\ result = 0
  /\ value = Unset /\ ret = Unset

Continues(b) == b >= 128      \* the char is negative

(* Byte number n shifted to its place and or-ed into the result.  Of the   *)
(* fifth byte four bits remain, the topmost of them the sign.  As a mutant,*)
(* the sign lost.                                                          *)
Fifth(r, b) == LET r31 == r + (b % 8) * 2^28
               IN  IF (b \div 8) % 2 = 1 THEN (r31 - 2^30) - 2^30 ELSE r31
FifthUnsigned(r, b) == r + (b % 8) * 2^28
OrInSignLost(r, b, n) == IF n < 5 THEN r + (b % 128) * 2^(7 * (n - 1)) ELSE FifthUnsigned(r, b)
OrIn(r, b, n) == IF n < 5 THEN r + (b % 128) * 2^(7 * (n - 1)) ELSE Fifth(r, b)

(* The reads after which the function gives up; as a mutant, one too many. *)
LastReadLate == 11
LastRead == MaxBytes

(* What is done with the n-th byte b. *)
Decode(b, n) ==
  \/ /\ n <= 5
     /\ result' = OrIn(result, b, n)
     /\ IF Continues(b) THEN UNCHANGED <<value, ret>>
                        ELSE value' = result' /\ ret' = 0
  \/ /\ n > 5 /\ ~Continues(b)
     /\ value' = result /\ ret' = -1
     /\ UNCHANGED result
  \/ /\ n > 5 /\ Continues(b)
     /\ ret' = IF n = LastRead THEN 0 ELSE Unset
     /\ UNCHANGED <<result, value>>

ReadByte ==
  /\ Running
  /\ consumed < Len(input)
  /\ consumed' = consumed + 1
  /\ tmp' = input[consumed + 1]
  /\ readlen' = readlen + 1
  /\ Decode(tmp', readlen')
  /\ UNCHANGED input

(* The end of the stream, or an error: read leaves tmp as it was. *)
ReadNothing ==
  /\ Running
  /\ consumed = Len(input) \/ MayFail
  /\ readlen' = readlen + 1
  /\ Decode(tmp, readlen')
  /\ UNCHANGED <<input, consumed, tmp>>

Next == ReadByte \/ ReadNothing

Spec == Init /\ [][Next]_vars

----------------------------------------------------------------------------
(* Reference: the number the stream begins with, by its base-128 digits. *)

Terminators(s) == {i \in DOMAIN s : ~Continues(s[i])}
Complete(s) == Terminators(s) # {}
VarintLen(s) == Min(Terminators(s))

(* The low four bits of b, with their sign. *)
Nibble(b) == IF b % 16 >= 8 THEN (b % 16) - 16 ELSE b % 16

(* The low 32 bits of the number whose digits, the last one first, are the *)
(* low seven bits of the first k bytes of s.                               *)
Number(s, k) ==
  LET digit(i) == IF i <= k THEN s[i] % 128 ELSE 0
  IN  digit(1) + 128 * (digit(2) + 128 * (digit(3) + 128 * (digit(4) + 128 * Nibble(digit(5)))))
Int32Of(s) == Number(s, VarintLen(s))

(* Types, among them that the function never makes more than ten reads:    *)
(* every state in which it runs has a next read, so it returns however long*)
(* the stream is and wherever it ends or fails.                            *)
TypeOK ==
  /\ consumed \in 0..Len(input)
  /\ tmp \in Bytes
  /\ readlen \in 0..MaxBytes /\ (Running => readlen < MaxBytes)
  /\ value \in Int \cup {Unset} /\ ret \in {Unset, 0, -1}

(* No read failed and none was made at the end of the stream. *)
NothingMissed == readlen = consumed

(* A length write_raw_varint32 wrote is read back as it was, whatever its  *)
(* width, and no byte of what follows is taken.                            *)
RoundTrip ==
  \A v \in Values :
    LET w == WriteRawVarint[v] IN
      ~Running /\ NothingMissed /\ Len(input) >= Len(w) /\ SubSeq(input, 1, Len(w)) = w
        => ret = 0 /\ value = v /\ consumed = Len(w)

(* A complete varint of any length up to ten bytes: up to five bytes are an*)
(* int, also a negative one or one padded with zeros; a longer one is      *)
(* refused, after all its bytes are taken, with its low 32 bits in *value. *)
DecodesInt32 ==
  ~Running /\ NothingMissed /\ Complete(input) /\ VarintLen(input) <= MaxBytes =>
    /\ value = Int32Of(input)
    /\ ret = (IF VarintLen(input) <= 5 THEN 0 ELSE -1)
    /\ consumed = VarintLen(input)

=============================================================================
