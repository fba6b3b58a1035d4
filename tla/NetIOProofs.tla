---------------------------- MODULE NetIOProofs ----------------------------
(***************************************************************************)
(* Proofs about NetIO for every sequence of messages of any sizes and every*)
(* capacity of the connection, with calls that fail and a sender that goes *)
(* away: the stream is preserved however the kernel cuts it.               *)
(***************************************************************************)
EXTENDS NetIO, FiniteSetTheorems, SequenceTheorems, TLAPS

(* The numbering of the bytes *)

LEMMA SizesAreNat == \A i \in Messages : Sizes[i] \in Nat /\ i \in Nat
BY SizesAssumption DEF Messages

LEMMA BytesOfCount ==
  ASSUME NEW i \in Messages
  PROVE  IsFiniteSet(BytesOf(i)) /\ Cardinality(BytesOf(i)) = Sizes[i]
<1>1. IsFiniteSet({i}) /\ Cardinality({i}) = 1
  BY FS_Singleton
<1>2. IsFiniteSet(1..Sizes[i]) /\ Cardinality(1..Sizes[i]) = Sizes[i]
  <2>1. Sizes[i] \in Nat
    BY SizesAreNat
  <2>2. /\ IsFiniteSet(1..Sizes[i])
        /\ Cardinality(1..Sizes[i]) = IF 1 > Sizes[i] THEN 0 ELSE Sizes[i] - 1 + 1
    BY <2>1, FS_Interval
  <2>3. QED
    BY <2>1, <2>2
<1>3. IsFiniteSet({i} \X (1..Sizes[i]))
      /\ Cardinality({i} \X (1..Sizes[i])) = Cardinality({i}) * Cardinality(1..Sizes[i])
  BY <1>1, <1>2, FS_Product
<1>4. QED
  BY <1>1, <1>2, <1>3, SizesAreNat DEF BytesOf

LEMMA FinitelyManyBytes == IsFiniteSet(AllBytes)
<1> DEFINE Rows == {BytesOf(i) : i \in Messages}
           f == [i \in Messages |-> BytesOf(i)]
<1>1. IsFiniteSet(Messages)
  BY SizesAssumption, FS_Interval DEF Messages
<1>2. f \in Surjection(Messages, Rows)
  BY DEF Surjection
<1>3. IsFiniteSet(Rows)
  <2> HIDE DEF f, Rows
  <2>1. QED
    BY <1>1, <1>2, FS_Surjection
<1>4. \A T \in Rows : IsFiniteSet(T)
  BY BytesOfCount
<1>5. IsFiniteSet(UNION Rows)
  <2> HIDE DEF Rows
  <2>1. QED
    BY <1>3, <1>4, FS_UNION
<1>6. QED
  BY <1>5 DEF AllBytes

(* A byte of message i; its first component is the message. *)
LEMMA ByteIn ==
  /\ \A i \in Messages : \A off \in 1..Sizes[i] : Byte(i, off) \in AllBytes
  /\ \A b \in AllBytes : b[1] \in Messages /\ b[2] \in 1..Sizes[b[1]] /\ b = Byte(b[1], b[2])
BY DEF AllBytes, BytesOf, Byte

LEMMA BytesBeforeType ==
  ASSUME NEW i \in Int
  PROVE  IsFiniteSet({b \in AllBytes : b[1] < i}) /\ BytesBefore(i) \in Nat
<1>1. {b \in AllBytes : b[1] < i} \in SUBSET AllBytes
  OBVIOUS
<1>2. IsFiniteSet({b \in AllBytes : b[1] < i})
  BY <1>1, FinitelyManyBytes, FS_Subset
<1>3. QED
  BY <1>2, FS_CardinalityType DEF BytesBefore

(* No byte lies before the first message. *)
LEMMA NoneBeforeFirst == BytesBefore(1) = 0
<1>1. {b \in AllBytes : b[1] < 1} = {}
  BY ByteIn DEF Messages
<1>2. QED
  BY <1>1, FS_EmptySet DEF BytesBefore

(* The bytes before a message and its own are the ones before the next. *)
LEMMA BeforeNext ==
  ASSUME NEW i \in Messages
  PROVE  BytesBefore(i + 1) = BytesBefore(i) + Sizes[i]
<1> DEFINE L == {b \in AllBytes : b[1] < i}
           M == {b \in AllBytes : b[1] < i + 1}
<1>1. M = L \cup BytesOf(i)
  <2>1. \A b \in AllBytes : b[1] = i <=> b \in BytesOf(i)
    BY ByteIn DEF BytesOf, Byte
  <2>2. BytesOf(i) \subseteq AllBytes
    BY DEF AllBytes
  <2>3. \A b \in AllBytes : b[1] < i + 1 <=> b[1] < i \/ b[1] = i
    BY ByteIn, SizesAreNat DEF Messages
  <2>4. QED
    BY <2>1, <2>2, <2>3
<1>2. L \cap BytesOf(i) = {}
  BY SizesAreNat DEF BytesOf
<1>3. IsFiniteSet(L) /\ IsFiniteSet(BytesOf(i)) /\ Cardinality(L) \in Nat
  BY SizesAreNat, BytesBeforeType, BytesOfCount DEF BytesBefore
<1>4. Cardinality(M) = Cardinality(L) + Cardinality(BytesOf(i)) - Cardinality(L \cap BytesOf(i))
  <2> HIDE DEF L, M
  <2>1. QED
    BY <1>1, <1>3, FS_Union
<1>5. Cardinality(L \cap BytesOf(i)) = 0
  BY <1>2, FS_EmptySet
<1>6. BytesBefore(i + 1) = Cardinality(M) /\ BytesBefore(i) = Cardinality(L)
  BY DEF BytesBefore
<1>7. Cardinality(BytesOf(i)) = Sizes[i] /\ Sizes[i] \in Nat
  BY BytesOfCount, SizesAreNat
<1>8. QED
  <2> HIDE DEF L, M
  <2>1. QED
    BY <1>3, <1>4, <1>5, <1>6, <1>7

LEMMA BeforeGrows ==
  ASSUME NEW i \in Int, NEW j \in Int, i <= j
  PROVE  BytesBefore(i) <= BytesBefore(j)
<1> DEFINE L == {b \in AllBytes : b[1] < i}
           M == {b \in AllBytes : b[1] < j}
<1>1. L \in SUBSET M
  BY ByteIn, SizesAreNat
<1>2. IsFiniteSet(M)
  BY BytesBeforeType
<1>3. Cardinality(L) <= Cardinality(M)
  <2> HIDE DEF L, M
  <2>1. QED
    BY <1>1, <1>2, FS_Subset
<1>4. QED
  BY <1>3 DEF BytesBefore

(* Different bytes have different positions. *)
LEMMA PositionsDiffer ==
  ASSUME NEW b \in AllBytes, NEW c \in AllBytes, Position(b) = Position(c)
  PROVE  b = c
<1>t. /\ b[1] \in Messages /\ b[2] \in 1..Sizes[b[1]] /\ b = Byte(b[1], b[2])
      /\ c[1] \in Messages /\ c[2] \in 1..Sizes[c[1]] /\ c = Byte(c[1], c[2])
      /\ b[1] \in Int /\ c[1] \in Int
      /\ Sizes[b[1]] \in Nat /\ Sizes[c[1]] \in Nat
  BY ByteIn, SizesAreNat
<1>n. BytesBefore(b[1]) \in Nat /\ BytesBefore(c[1]) \in Nat
  BY <1>t, BytesBeforeType
<1>1. ASSUME b[1] < c[1] PROVE FALSE
  <2>1. BytesBefore(b[1] + 1) <= BytesBefore(c[1])
    BY <1>t, <1>1, BeforeGrows
  <2>2. BytesBefore(b[1]) + Sizes[b[1]] <= BytesBefore(c[1])
    BY <1>t, <2>1, BeforeNext
  <2>3. QED
    BY <1>t, <1>n, <2>2 DEF Position
<1>2. ASSUME c[1] < b[1] PROVE FALSE
  <2>1. BytesBefore(c[1] + 1) <= BytesBefore(b[1])
    BY <1>t, <1>2, BeforeGrows
  <2>2. BytesBefore(c[1]) + Sizes[c[1]] <= BytesBefore(b[1])
    BY <1>t, <2>1, BeforeNext
  <2>3. QED
    BY <1>t, <1>n, <2>2 DEF Position
<1>3. b[1] = c[1]
  BY <1>t, <1>1, <1>2
<1>4. b[2] = c[2]
  BY <1>t, <1>n, <1>3 DEF Position
<1>5. QED
  BY <1>t, <1>3, <1>4

----------------------------------------------------------------------------
(* Type correctness *)

(* n bytes of a message from some offset on. *)
LEMMA PieceOfMessage ==
  ASSUME NEW i \in Messages, NEW got \in Nat, NEW n \in Nat, got + n <= Sizes[i]
  PROVE  LET piece == SubSeq(Message(i), got + 1, got + n)
         IN  /\ piece \in Seq(AllBytes) /\ Len(piece) = n
             /\ \A y \in 1..n : piece[y] = Byte(i, got + y) /\ piece[y] \in AllBytes
<1>1. \A off \in (got + 1)..(got + n) : off \in 1..Sizes[i]
  BY SizesAreNat
<1>2. \A off \in (got + 1)..(got + n) : Message(i)[off] = Byte(i, off) /\ Message(i)[off] \in AllBytes
  BY <1>1, ByteIn DEF Message
<1>3. /\ SubSeq(Message(i), got + 1, got + n) \in Seq(AllBytes)
      /\ Len(SubSeq(Message(i), got + 1, got + n)) =
           IF got + 1 <= got + n THEN (got + n) - (got + 1) + 1 ELSE 0
      /\ \A y \in 1..((got + n) - (got + 1) + 1) :
           SubSeq(Message(i), got + 1, got + n)[y] = Message(i)[(got + 1) + y - 1]
  BY <1>2, SubSeqProperties
<1>4. \A y \in 1..n : /\ y \in 1..((got + n) - (got + 1) + 1)
                      /\ (got + 1) + y - 1 = got + y
                      /\ got + y \in (got + 1)..(got + n)
  OBVIOUS
<1>5. QED
  BY <1>2, <1>3, <1>4

(* What is left of the pipe when n bytes are taken from it. *)
LEMMA RestOfPipe ==
  ASSUME pipe \in Seq(AllBytes), NEW n \in 0..Len(pipe)
  PROVE  LET rest == SubSeq(pipe, n + 1, Len(pipe))
         IN  /\ rest \in Seq(AllBytes) /\ Len(rest) = Len(pipe) - n
             /\ \A x \in 1..(Len(pipe) - n) : rest[x] = pipe[n + x]
<1>1. Len(pipe) \in Nat /\ \A x \in (n + 1)..Len(pipe) : pipe[x] \in AllBytes
  OBVIOUS
<1>2. /\ SubSeq(pipe, n + 1, Len(pipe)) \in Seq(AllBytes)
      /\ Len(SubSeq(pipe, n + 1, Len(pipe))) =
           IF n + 1 <= Len(pipe) THEN Len(pipe) - (n + 1) + 1 ELSE 0
      /\ \A x \in 1..(Len(pipe) - (n + 1) + 1) :
           SubSeq(pipe, n + 1, Len(pipe))[x] = pipe[(n + 1) + x - 1]
  BY <1>1, SubSeqProperties
<1>3. \A x \in 1..(Len(pipe) - n) :
        x \in 1..(Len(pipe) - (n + 1) + 1) /\ (n + 1) + x - 1 = n + x
  BY <1>1
<1>4. QED
  BY <1>1, <1>2, <1>3

(* A new buffer has the size of its message and nothing in it yet. *)
LEMMA NewBufferType ==
  ASSUME NEW i \in 1..(Len(Sizes) + 1)
  PROVE  i \in Messages => NewBuffer(i) \in [1..Sizes[i] -> AllBytes \cup {Unset}]
BY DEF NewBuffer

LEMMA LeastBounds ==
  ASSUME NEW a \in Int, NEW b \in Int, NEW n \in 1..Least(a, b)
  PROVE  n \in Nat /\ 1 <= n /\ n <= a /\ n <= b
BY DEF Least

LEMMA TypeInit == Init => TypeOK
<1> SUFFICES ASSUME Init PROVE TypeOK
  OBVIOUS
<1>1. Len(Sizes) \in Nat /\ 1 \in 1..(Len(Sizes) + 1)
  BY SizesAssumption
<1>2. 1 \in Messages => NewBuffer(1) \in [1..Sizes[1] -> AllBytes \cup {Unset}]
  BY <1>1, NewBufferType
<1>3. 1 \in Messages => Sizes[1] \in Nat
  BY SizesAreNat
<1>4. pipe \in Seq(AllBytes) /\ Len(pipe) = 0
  BY DEF Init
<1>5. taken \in Seq(Seq(AllBytes \cup {Unset})) /\ Len(taken) = 0
  BY DEF Init
<1>6. 1 \in Messages => buffer \in [1..Sizes[1] -> AllBytes \cup {Unset}]
  BY <1>2 DEF Init
<1>7. wi = 1 /\ ri = 1 /\ bytes_written = 0 /\ bytes_read = 0
  BY DEF Init
<1>8. /\ wi \in Messages => bytes_written <= Sizes[wi]
      /\ ri \in Messages => bytes_read <= Sizes[ri]
  BY <1>3, <1>7
<1>9. Len(pipe) <= Capacity
  BY <1>4, CapacityAssumption
<1>10. closed \in BOOLEAN /\ faults \subseteq Faults /\ wstate = "run" /\ rstate = "run"
  BY DEF Init
<1>11. QED
  BY <1>1, <1>4, <1>5, <1>6, <1>7, <1>8, <1>9, <1>10 DEF TypeOK

LEMMA TypeStep == TypeOK /\ [Next]_vars => TypeOK'
<1> SUFFICES ASSUME TypeOK, [Next]_vars PROVE TypeOK'
  OBVIOUS
<1>t. /\ Len(Sizes) \in Nat /\ Capacity \in Nat
      /\ \A i \in 1..(Len(Sizes) + 1) : i \in Int /\ (i \in Messages => i + 1 \in 1..(Len(Sizes) + 1))
  BY SizesAssumption, CapacityAssumption DEF Messages
<1>1. ASSUME Write, UNCHANGED faults PROVE TypeOK'
  <2>1. PICK n \in 1..Least(Sizes[wi] - bytes_written, Capacity - Len(pipe)) :
          /\ pipe' = pipe \o SubSeq(Message(wi), bytes_written + 1, bytes_written + n)
          /\ bytes_written' = bytes_written + n
    BY <1>1 DEF Write
  <2>2. /\ wi \in Messages /\ bytes_written \in Nat /\ n \in Nat /\ Len(pipe) \in Nat
        /\ Sizes[wi] \in Nat
        /\ bytes_written + n <= Sizes[wi] /\ Len(pipe) + n <= Capacity
    <3>1. wi \in Messages /\ bytes_written \in Nat /\ Len(pipe) \in Nat
      BY <1>1 DEF Write, TypeOK
    <3>2. Sizes[wi] \in Nat
      BY <3>1, SizesAreNat
    <3>3. QED
      BY <1>t, <2>1, <3>1, <3>2, LeastBounds
  <2>3. /\ SubSeq(Message(wi), bytes_written + 1, bytes_written + n) \in Seq(AllBytes)
        /\ Len(SubSeq(Message(wi), bytes_written + 1, bytes_written + n)) = n
    BY <2>2, PieceOfMessage
  <2>4. pipe' \in Seq(AllBytes) /\ Len(pipe') = Len(pipe) + n
    <3>1. \A s \in Seq(AllBytes) : pipe \o s \in Seq(AllBytes) /\ Len(pipe \o s) = Len(pipe) + Len(s)
      <4>1. pipe \in Seq(AllBytes)
        BY DEF TypeOK
      <4>2. QED
        BY <4>1, ConcatProperties
    <3>2. QED
      BY <2>1, <2>3, <3>1
  <2>5. QED
    BY <1>1, <2>1, <2>2, <2>4 DEF Write, TypeOK, reader
<1>2. ASSUME WriteReturns, UNCHANGED faults PROVE TypeOK'
  BY <1>2, <1>t, SizesAreNat DEF WriteReturns, TypeOK, reader
<1>3. ASSUME WriteFails, UNCHANGED faults PROVE TypeOK'
  BY <1>3 DEF WriteFails, TypeOK, reader
<1>4. ASSUME Read, UNCHANGED faults PROVE TypeOK'
  <2>1. PICK n \in 1..Least(Wanted(Sizes[ri], bytes_read), Len(pipe)) :
          /\ buffer' = [off \in DOMAIN buffer |->
                          IF off - Offset(bytes_read) \in 1..n
                          THEN pipe[off - Offset(bytes_read)] ELSE buffer[off]]
          /\ bytes_read' = bytes_read + n
          /\ pipe' = SubSeq(pipe, n + 1, Len(pipe))
    BY <1>4 DEF Read
  <2>2. /\ ri \in Messages /\ bytes_read \in Nat /\ n \in 0..Len(pipe) /\ Len(pipe) \in Nat
        /\ Sizes[ri] \in Nat /\ bytes_read + n <= Sizes[ri]
    <3>1. ri \in Messages /\ bytes_read \in Nat /\ Len(pipe) \in Nat
      BY <1>4 DEF Read, TypeOK
    <3>2. Sizes[ri] \in Nat
      BY <3>1, SizesAreNat
    <3>3. QED
      BY <2>1, <3>1, <3>2, LeastBounds DEF Wanted
  <2>3. pipe' \in Seq(AllBytes) /\ Len(pipe') = Len(pipe) - n
    BY <2>1, <2>2, RestOfPipe DEF TypeOK
  <2>4. \A x \in 1..n : pipe[x] \in AllBytes
    BY <2>2 DEF TypeOK
  <2>5. buffer' \in [1..Sizes[ri] -> AllBytes \cup {Unset}]
    BY <2>1, <2>2, <2>4 DEF TypeOK
  <2>6. QED
    <3>1. /\ bytes_read' \in Nat /\ bytes_read' <= Sizes[ri]
          /\ Len(pipe') <= Capacity
      BY <1>t, <2>1, <2>2, <2>3 DEF TypeOK
    <3>2. UNCHANGED <<wi, bytes_written, wstate, ri, rstate, taken, closed, faults>>
      BY <1>4 DEF Read, writer
    <3>3. ri' \in Messages
      BY <2>2, <3>2
    <3>4. QED
      BY <2>3, <2>5, <3>1, <3>2, <3>3 DEF TypeOK
<1>5. ASSUME ReadReturns, UNCHANGED faults PROVE TypeOK'
  <2>1. ri \in Messages /\ ri + 1 \in 1..(Len(Sizes) + 1) /\ ri \in Nat
    BY <1>5, <1>t, SizesAreNat DEF ReadReturns, TypeOK
  <2>2. buffer \in Seq(AllBytes \cup {Unset})
    <3>1. Sizes[ri] \in Nat /\ buffer \in [1..Sizes[ri] -> AllBytes \cup {Unset}]
      BY <2>1, SizesAreNat DEF TypeOK
    <3> DEFINE S == AllBytes \cup {Unset}
    <3>2. buffer \in [1..Sizes[ri] -> S]
      BY <3>1
    <3> HIDE DEF S
    <3>3. buffer \in Seq(S)
      BY <3>1, <3>2
    <3>4. QED
      BY <3>3 DEF S
  <2>3. taken' \in Seq(Seq(AllBytes \cup {Unset})) /\ Len(taken') = ri
    BY <1>5, <2>1, <2>2, AppendProperties DEF ReadReturns, TypeOK
  <2>4. ri + 1 \in Messages => buffer' \in [1..Sizes[ri + 1] -> AllBytes \cup {Unset}]
    BY <1>5, <2>1, NewBufferType DEF ReadReturns
  <2>5. QED
    BY <1>5, <2>1, <2>3, <2>4, SizesAreNat DEF ReadReturns, TypeOK, writer
<1>6. ASSUME ReadFails, UNCHANGED faults PROVE TypeOK'
  BY <1>6 DEF ReadFails, TypeOK, writer
<1>7. ASSUME Close, UNCHANGED faults PROVE TypeOK'
  BY <1>7 DEF Close, TypeOK, reader
<1>8. UNCHANGED vars => TypeOK'
  BY DEF vars, writer, reader, TypeOK
<1>9. QED
  BY <1>1, <1>2, <1>3, <1>4, <1>5, <1>6, <1>7, <1>8 DEF Next, WriteAll, ReadAll, ReadAtEnd

(* The counters stay inside their messages, the pipe within its capacity,  *)
(* and only bytes that were sent are in it.                                *)
THEOREM NetIOTypeOK == Spec => []TypeOK
BY TypeInit, TypeStep, PTL DEF Spec

----------------------------------------------------------------------------
(* The stream *)

(* The bytes not yet read of the current message and those of the later    *)
(* ones, by position: what the proofs say of a byte they say of its place. *)
LEMMA StreamInit == Init => StreamPreserved
<1> SUFFICES ASSUME Init PROVE StreamPreserved
  OBVIOUS
<1>1. Written = 0 /\ Delivered = 0
  BY NoneBeforeFirst DEF Init, Written, Delivered
<1>2. pipe = <<>> /\ bytes_read = 0
  BY DEF Init
<1>3. \A off \in DOMAIN buffer : off \in Nat /\ off >= 1
  <2>1. 1 \in Messages => Sizes[1] \in Nat
    BY SizesAreNat
  <2>2. QED
    BY <2>1 DEF Init, NewBuffer
<1>4. QED
  BY <1>1, <1>2, <1>3 DEF StreamPreserved

(* The counters of the stream are numbers. *)
LEMMA StreamCounts ==
  ASSUME TypeOK
  PROVE  /\ Written \in Nat /\ Delivered \in Nat
         /\ BytesBefore(wi) \in Nat /\ BytesBefore(ri) \in Nat
         /\ wi \in Int /\ ri \in Int
         /\ bytes_written \in Nat /\ bytes_read \in Nat
<1>1. Len(Sizes) \in Nat
  BY SizesAssumption
<1>2. wi \in Int /\ ri \in Int /\ bytes_written \in Nat /\ bytes_read \in Nat
  BY <1>1 DEF TypeOK
<1>3. BytesBefore(wi) \in Nat /\ BytesBefore(ri) \in Nat
  BY <1>2, BytesBeforeType
<1>4. QED
  BY <1>2, <1>3 DEF Written, Delivered

(* write takes the next bytes of its message and puts them behind the last.*)
LEMMA WriteKeepsStream ==
  ASSUME TypeOK, StreamPreserved, Write
  PROVE  StreamPreserved'
<1> DEFINE piece(n) == SubSeq(Message(wi), bytes_written + 1, bytes_written + n)
<1>1. PICK n \in 1..Least(Sizes[wi] - bytes_written, Capacity - Len(pipe)) :
        pipe' = pipe \o piece(n) /\ bytes_written' = bytes_written + n
  BY DEF Write
<1>2. /\ wi \in Messages /\ bytes_written \in Nat /\ n \in Nat /\ Len(pipe) \in Nat
      /\ Sizes[wi] \in Nat /\ Capacity \in Nat
      /\ bytes_written + n <= Sizes[wi]
  <2>1. wi \in Messages /\ bytes_written \in Nat /\ Len(pipe) \in Nat
    BY DEF Write, TypeOK
  <2>2. Sizes[wi] \in Nat
    BY <2>1, SizesAreNat
  <2>3. QED
    BY <1>1, <2>1, <2>2, CapacityAssumption, LeastBounds
<1>3. /\ piece(n) \in Seq(AllBytes) /\ Len(piece(n)) = n
      /\ \A y \in 1..n : piece(n)[y] = Byte(wi, bytes_written + y)
  BY <1>2, PieceOfMessage
<1>4. pipe \in Seq(AllBytes)
  BY DEF TypeOK
<1>5. UNCHANGED <<wi, ri, bytes_read, buffer>>
  BY DEF Write, reader
<1>6. BytesBefore(wi)' = BytesBefore(wi) /\ BytesBefore(ri)' = BytesBefore(ri)
  BY <1>5 DEF BytesBefore
<1>7. Delivered' = Delivered /\ Written' = Written + n
  BY <1>1, <1>2, <1>5, <1>6, StreamCounts DEF Delivered, Written
<1>8. Len(pipe') = Written' - Delivered'
  <2> HIDE DEF piece
  <2>1. Len(pipe') = Len(pipe) + n
    BY <1>1, <1>3, <1>4, ConcatProperties
  <2>2. Len(pipe) = Written - Delivered
    BY DEF StreamPreserved
  <2>3. QED
    BY <1>2, <1>7, <2>1, <2>2, StreamCounts
<1>9. \A x \in DOMAIN pipe' : Position(pipe'[x]) = Delivered' + x
  <2> SUFFICES ASSUME NEW x \in DOMAIN pipe' PROVE Position(pipe'[x]) = Delivered' + x
    OBVIOUS
  <2> HIDE DEF piece
  <2>1. x \in 1..(Len(pipe) + n)
    BY <1>1, <1>2, <1>3, <1>4, ConcatProperties
  <2>2. CASE x <= Len(pipe)
    <3>1. x \in DOMAIN pipe /\ pipe'[x] = pipe[x]
      BY <1>1, <1>2, <1>3, <1>4, <2>1, <2>2, ConcatProperties
    <3>2. QED
      BY <1>7, <3>1 DEF StreamPreserved
  <2>3. CASE x > Len(pipe)
    <3> DEFINE y == x - Len(pipe)
    <3>1. y \in 1..n
      BY <1>2, <2>1, <2>3
    <3>2. pipe'[x] = piece(n)[y]
      BY <1>1, <1>2, <1>3, <1>4, <2>1, <2>3, ConcatProperties
    <3>3. Position(pipe'[x]) = BytesBefore(wi) + (bytes_written + y)
      BY <1>3, <3>1, <3>2 DEF Position, Byte
    <3>4. Position(pipe'[x]) = Written + y
      BY <1>2, <3>1, <3>3, StreamCounts DEF Written
    <3>5. Len(pipe) = Written - Delivered
      BY DEF StreamPreserved
    <3>6. Position(pipe'[x]) = Written + (x - Len(pipe))
      BY <3>4
    <3>7. x \in Int /\ Len(pipe) \in Int /\ Written \in Int /\ Delivered \in Int
      BY <1>2, <2>1, StreamCounts
    <3>8. Written + (x - Len(pipe)) = Delivered + x
      BY <3>5, <3>7
    <3>9. QED
      BY <1>7, <3>6, <3>8
  <2>4. QED
    BY <1>2, <2>1, <2>2, <2>3
<1>10. \A off \in DOMAIN buffer' : off <= bytes_read' => buffer'[off] = Byte(ri', off)
  BY <1>5 DEF StreamPreserved
<1>11. QED
  BY <1>8, <1>9, <1>10 DEF StreamPreserved

(* The next message begins where the last one ended. *)
LEMMA WriteReturnsKeepsStream ==
  ASSUME TypeOK, StreamPreserved, WriteReturns
  PROVE  StreamPreserved'
<1>1. wi \in Messages /\ bytes_written = Sizes[wi] /\ Sizes[wi] \in Nat
  <2>1. wi \in Messages /\ bytes_written \in Nat /\ bytes_written <= Sizes[wi]
        /\ bytes_written >= Sizes[wi]
    BY DEF WriteReturns, TypeOK
  <2>2. Sizes[wi] \in Nat
    BY <2>1, SizesAreNat
  <2>3. QED
    BY <2>1, <2>2
<1>2. wi' = wi + 1 /\ bytes_written' = 0 /\ UNCHANGED <<ri, bytes_read, buffer, pipe>>
  BY DEF WriteReturns, reader
<1>3. BytesBefore(wi)' = BytesBefore(wi + 1) /\ BytesBefore(ri)' = BytesBefore(ri)
  BY <1>2 DEF BytesBefore
<1>4. BytesBefore(wi + 1) = BytesBefore(wi) + Sizes[wi]
  BY <1>1, BeforeNext
<1>5. Written' = Written
  BY <1>1, <1>2, <1>3, <1>4, StreamCounts DEF Written
<1>6. Delivered' = Delivered
  BY <1>2, <1>3 DEF Delivered
<1>7. QED
  BY <1>2, <1>5, <1>6 DEF StreamPreserved

(* read takes the first bytes off the pipe, and their places are the next  *)
(* ones in the buffer: the byte of the message that belongs there has the  *)
(* same position, and only one byte has it.                                *)
LEMMA ReadKeepsStream ==
  ASSUME TypeOK, StreamPreserved, Read
  PROVE  StreamPreserved'
<1>1. PICK n \in 1..Least(Wanted(Sizes[ri], bytes_read), Len(pipe)) :
        /\ buffer' = [off \in DOMAIN buffer |->
                        IF off - Offset(bytes_read) \in 1..n
                        THEN pipe[off - Offset(bytes_read)] ELSE buffer[off]]
        /\ bytes_read' = bytes_read + n
        /\ pipe' = SubSeq(pipe, n + 1, Len(pipe))
  BY DEF Read
<1>2. /\ ri \in Messages /\ bytes_read \in Nat /\ n \in 1..Len(pipe) /\ Len(pipe) \in Nat
      /\ n \in Nat /\ Sizes[ri] \in Nat /\ bytes_read + n <= Sizes[ri]
  <2>1. ri \in Messages /\ bytes_read \in Nat /\ Len(pipe) \in Nat
    BY DEF Read, TypeOK
  <2>2. Sizes[ri] \in Nat
    BY <2>1, SizesAreNat
  <2>3. QED
    BY <1>1, <2>1, <2>2, LeastBounds DEF Wanted
<1>3. pipe \in Seq(AllBytes) /\ DOMAIN buffer = 1..Sizes[ri]
  BY <1>2 DEF TypeOK
<1>4. /\ pipe' \in Seq(AllBytes) /\ Len(pipe') = Len(pipe) - n
      /\ \A x \in 1..(Len(pipe) - n) : pipe'[x] = pipe[n + x]
  BY <1>1, <1>2, <1>3, RestOfPipe
<1>5. UNCHANGED <<wi, bytes_written, ri>>
  BY DEF Read, writer
<1>6. BytesBefore(wi)' = BytesBefore(wi) /\ BytesBefore(ri)' = BytesBefore(ri)
  BY <1>5 DEF BytesBefore
<1>7. Written' = Written /\ Delivered' = Delivered + n
  BY <1>1, <1>2, <1>5, <1>6, StreamCounts DEF Delivered, Written
<1>8. Len(pipe) = Written - Delivered /\ Written \in Nat /\ Delivered \in Nat
  BY StreamCounts DEF StreamPreserved
<1>9. Len(pipe') = Written' - Delivered'
  BY <1>2, <1>4, <1>7, <1>8
<1>10. \A x \in DOMAIN pipe' : Position(pipe'[x]) = Delivered' + x
  <2> SUFFICES ASSUME NEW x \in DOMAIN pipe' PROVE Position(pipe'[x]) = Delivered' + x
    OBVIOUS
  <2>1. x \in 1..(Len(pipe) - n)
    BY <1>4
  <2>2. n + x \in DOMAIN pipe
    BY <1>2, <1>3, <2>1
  <2>3. Position(pipe[n + x]) = Delivered + (n + x)
    BY <2>2 DEF StreamPreserved
  <2>4. pipe'[x] = pipe[n + x]
    BY <1>4, <2>1
  <2>5. Delivered' + x = Delivered + (n + x)
    BY <1>2, <1>7, <1>8, <2>1
  <2>6. QED
    BY <2>3, <2>4, <2>5
<1>11. \A off \in DOMAIN buffer' : off <= bytes_read' => buffer'[off] = Byte(ri', off)
  <2> SUFFICES ASSUME NEW off \in DOMAIN buffer', off <= bytes_read'
               PROVE  buffer'[off] = Byte(ri, off)
    BY <1>5
  <2>1. off \in DOMAIN buffer /\ off \in 1..Sizes[ri] /\ off \in Nat /\ off <= bytes_read + n
    BY <1>1, <1>2, <1>3
  <2>2. CASE off <= bytes_read
    <3>1. off - Offset(bytes_read) \notin 1..n
      BY <1>2, <2>1, <2>2 DEF Offset
    <3>2. buffer'[off] = buffer[off]
      BY <1>1, <2>1, <3>1
    <3>3. QED
      BY <2>1, <2>2, <3>2 DEF StreamPreserved
  <2>3. CASE off > bytes_read
    <3> DEFINE y == off - bytes_read
    <3>1. y \in 1..n /\ off - Offset(bytes_read) = y
      BY <1>2, <2>1, <2>3 DEF Offset
    <3>2. buffer'[off] = pipe[y]
      <4> HIDE DEF y
      <4>1. QED
        BY <1>1, <2>1, <3>1
    <3>3. y \in DOMAIN pipe /\ pipe[y] \in AllBytes
      <4> HIDE DEF y
      <4>1. QED
        BY <1>2, <1>3, <3>1
    <3>4. Position(pipe[y]) = Delivered + y
      <4> HIDE DEF y
      <4>1. QED
        BY <3>3 DEF StreamPreserved
    <3>5. Byte(ri, off) \in AllBytes
      BY <1>2, <2>1, ByteIn
    <3>6. Position(Byte(ri, off)) = BytesBefore(ri) + off
      BY DEF Position, Byte
    <3>7. BytesBefore(ri) \in Int /\ Delivered = BytesBefore(ri) + bytes_read
      BY StreamCounts DEF Delivered
    <3>8. BytesBefore(ri) + off = Delivered + y
      BY <1>2, <2>1, <3>7
    <3>9. Position(pipe[y]) = Position(Byte(ri, off))
      BY <3>4, <3>6, <3>8
    <3>10. pipe[y] = Byte(ri, off)
      BY <3>3, <3>5, <3>9, PositionsDiffer
    <3>11. QED
      BY <3>2, <3>10
  <2>4. QED
    BY <1>2, <2>1, <2>2, <2>3
<1>12. QED
  BY <1>9, <1>10, <1>11 DEF StreamPreserved

(* The next buffer begins where the last one ended, with nothing in it. *)
LEMMA ReadReturnsKeepsStream ==
  ASSUME TypeOK, StreamPreserved, ReadReturns
  PROVE  StreamPreserved'
<1>1. ri \in Messages /\ bytes_read = Sizes[ri] /\ Sizes[ri] \in Nat /\ ri \in Nat
  <2>1. ri \in Messages /\ bytes_read \in Nat /\ bytes_read <= Sizes[ri]
        /\ bytes_read >= Sizes[ri]
    BY DEF ReadReturns, TypeOK
  <2>2. Sizes[ri] \in Nat /\ ri \in Nat
    BY <2>1, SizesAreNat
  <2>3. QED
    BY <2>1, <2>2
<1>2. /\ ri' = ri + 1 /\ bytes_read' = 0 /\ buffer' = NewBuffer(ri + 1)
      /\ UNCHANGED <<wi, bytes_written, pipe>>
  BY DEF ReadReturns, writer
<1>3. BytesBefore(ri)' = BytesBefore(ri + 1) /\ BytesBefore(wi)' = BytesBefore(wi)
  BY <1>2 DEF BytesBefore
<1>4. BytesBefore(ri + 1) = BytesBefore(ri) + Sizes[ri]
  BY <1>1, BeforeNext
<1>5. Delivered' = Delivered
  BY <1>1, <1>2, <1>3, <1>4, StreamCounts DEF Delivered
<1>6. Written' = Written
  BY <1>2, <1>3 DEF Written
<1>7. \A off \in DOMAIN buffer' : off \in Nat /\ off >= 1
  <2>1. ri + 1 \in Messages => Sizes[ri + 1] \in Nat
    BY SizesAreNat
  <2>2. QED
    BY <1>2, <2>1 DEF NewBuffer
<1>8. QED
  BY <1>2, <1>5, <1>6, <1>7 DEF StreamPreserved

LEMMA StreamStep == TypeOK /\ StreamPreserved /\ [Next]_vars => StreamPreserved'
<1> SUFFICES ASSUME TypeOK, StreamPreserved, [Next]_vars PROVE StreamPreserved'
  OBVIOUS
<1>1. ASSUME UNCHANGED <<wi, bytes_written, ri, bytes_read, buffer, pipe>>
      PROVE  StreamPreserved'
  <2>1. Written' = Written /\ Delivered' = Delivered
    BY <1>1 DEF Written, Delivered, BytesBefore
  <2>2. QED
    BY <1>1, <2>1 DEF StreamPreserved
<1>2. WriteFails \/ Close => StreamPreserved'
  BY <1>1 DEF WriteFails, Close, reader
<1>3. ReadFails => StreamPreserved'
  BY <1>1 DEF ReadFails, writer
<1>4. UNCHANGED vars => StreamPreserved'
  BY <1>1 DEF vars, writer, reader
<1>5. QED
  BY <1>2, <1>3, <1>4, WriteKeepsStream, WriteReturnsKeepsStream, ReadKeepsStream,
     ReadReturnsKeepsStream DEF Next, WriteAll, ReadAll, ReadAtEnd

(* However the kernel cuts the stream, and whatever fails or goes away: no *)
(* byte is lost, repeated or moved between write_all and read_all.         *)
THEOREM StreamIsPreserved == Spec => []StreamPreserved
BY NetIOTypeOK, StreamInit, StreamStep, PTL DEF Spec

(* A buffer is complete when read_all returns. *)
LEMMA FramesStep ==
  TypeOK /\ StreamPreserved /\ FramesIntact /\ [Next]_vars => FramesIntact'
<1> SUFFICES ASSUME TypeOK, StreamPreserved, FramesIntact, [Next]_vars PROVE FramesIntact'
  OBVIOUS
<1>1. UNCHANGED taken => FramesIntact'
  BY DEF FramesIntact
<1>2. ASSUME ReadReturns PROVE FramesIntact'
  <2>1. ri \in Messages /\ ri \in Nat /\ Sizes[ri] \in Nat /\ bytes_read >= Sizes[ri]
        /\ bytes_read \in Nat
    BY <1>2, SizesAreNat DEF ReadReturns, TypeOK
  <2>2. buffer \in [1..Sizes[ri] -> AllBytes \cup {Unset}]
    BY <2>1 DEF TypeOK
  <2>3. \A off \in 1..Sizes[ri] : buffer[off] = Byte(ri, off)
    BY <2>1, <2>2 DEF StreamPreserved
  <2>4. buffer = Message(ri)
    BY <2>2, <2>3 DEF Message
  <2>5. taken \in Seq(Seq(AllBytes \cup {Unset})) /\ Len(taken) = ri - 1
    BY DEF TypeOK
  <2>6. taken' = Append(taken, Message(ri))
    BY <1>2, <2>4 DEF ReadReturns
  <2>7. /\ DOMAIN taken' = 1..ri /\ taken'[ri] = Message(ri)
        /\ \A i \in 1..(ri - 1) : taken'[i] = taken[i]
    BY <2>1, <2>5, <2>6
  <2>8. \A i \in 1..(ri - 1) : taken[i] = Message(i)
    BY <2>5 DEF FramesIntact
  <2>9. \A i \in 1..ri : i = ri \/ i \in 1..(ri - 1)
    BY <2>1
  <2>10. QED
    BY <2>7, <2>8, <2>9 DEF FramesIntact
<1>3. QED
  BY <1>1, <1>2 DEF Next, WriteAll, ReadAll, ReadAtEnd, Write, WriteReturns, WriteFails, Read,
     ReadFails, Close, reader, vars

(* What read_all reports as read is the message sent in its place. *)
THEOREM FramesAreIntact == Spec => []FramesIntact
<1>1. Init => FramesIntact
  BY DEF Init, FramesIntact
<1>2. QED
  BY <1>1, FramesStep, NetIOTypeOK, StreamIsPreserved, PTL DEF Spec

----------------------------------------------------------------------------
(* The stream its users see *)

(* All bytes there are to write. *)
LEMMA TotalBytes == Stream!Total = BytesBefore(Len(Sizes) + 1)
<1> DEFINE F == [i \in Messages |-> Message(i)]
           E == [i \in Messages |-> BytesBefore(i + 1)]
<1>1. Len(Sizes) \in Nat /\ Messages = 1..Len(Sizes)
  BY SizesAssumption DEF Messages
<1>2. Stream!Total = IF F = <<>> THEN 0 ELSE E[Len(F)]
  BY DEF Stream!Total
<1>3. CASE Len(Sizes) = 0
  <2>1. F = <<>>
    BY <1>1, <1>3
  <2> QED BY <1>2, <1>3, <2>1, NoneBeforeFirst
<1>4. CASE Len(Sizes) > 0
  <2>1. F # <<>> /\ Len(F) = Len(Sizes)
    BY <1>1, <1>4
  <2>2. E[Len(Sizes)] = BytesBefore(Len(Sizes) + 1)
    BY <1>1, <1>4
  <2> HIDE DEF F, E
  <2> QED BY <1>2, <2>1, <2>2
<1> QED BY <1>1, <1>3, <1>4

(* No place in a message lies behind the end of the last one. *)
LEMMA PlaceInTotal ==
  ASSUME NEW i \in Messages, NEW n \in 0..Sizes[i]
  PROVE  /\ BytesBefore(i) + n <= BytesBefore(Len(Sizes) + 1)
         /\ BytesBefore(Len(Sizes) + 1) \in Nat
<1>1. Len(Sizes) \in Nat /\ Len(Sizes) + 1 \in Int /\ Messages = 1..Len(Sizes)
  BY SizesAssumption DEF Messages
<1>2. BytesBefore(Len(Sizes) + 1) \in Nat /\ BytesBefore(i) \in Nat
  <2>1. i \in Int
    BY <1>1
  <2> QED BY <1>1, <2>1, BytesBeforeType
<1>3. BytesBefore(i + 1) <= BytesBefore(Len(Sizes) + 1)
  <2>1. i + 1 \in Int /\ i + 1 <= Len(Sizes) + 1
    BY <1>1
  <2> QED BY <1>1, <2>1, BeforeGrows
<1>4. BytesBefore(i + 1) = BytesBefore(i) + Sizes[i] /\ Sizes[i] \in Nat
  BY BeforeNext, SizesAreNat
<1> QED BY <1>2, <1>3, <1>4

(* What write takes counts as written at once. *)
LEMMA WriteAccepts ==
  ASSUME TypeOK, Write
  PROVE  Stream!Accept
<1>1. PICK n \in 1..Least(Sizes[wi] - bytes_written, Capacity - Len(pipe)) :
        bytes_written' = bytes_written + n
  BY DEF Write
<1>2. /\ wi \in Messages /\ bytes_written \in Nat /\ Sizes[wi] \in Nat
      /\ n \in Nat /\ 1 <= n /\ bytes_written + n <= Sizes[wi]
  <2>1. wi \in Messages /\ bytes_written \in Nat /\ Len(pipe) \in Nat
    BY DEF Write, TypeOK
  <2>2. Sizes[wi] \in Nat
    BY <2>1, SizesAreNat
  <2> QED BY <1>1, <2>1, <2>2, CapacityAssumption, LeastBounds
<1>3. UNCHANGED <<wi, taken>>
  BY DEF Write, reader
<1>4. BytesBefore(wi)' = BytesBefore(wi)
  BY <1>3 DEF BytesBefore
<1>5. /\ Written = BytesBefore(wi) + bytes_written /\ BytesBefore(wi) \in Nat
      /\ Written' = BytesBefore(wi) + (bytes_written + n)
  BY <1>1, <1>4, StreamCounts DEF Written
<1>6. /\ BytesBefore(wi) + (bytes_written + n) <= BytesBefore(Len(Sizes) + 1)
      /\ BytesBefore(Len(Sizes) + 1) \in Nat
  <2>1. bytes_written + n \in 0..Sizes[wi]
    BY <1>2
  <2> QED BY <1>2, <2>1, PlaceInTotal
<1>7. Written' \in (Written + 1)..BytesBefore(Len(Sizes) + 1)
  BY <1>2, <1>5, <1>6
<1> QED BY <1>3, <1>7, TotalBytes DEF Stream!Accept

(* Going on to the next message writes nothing. *)
LEMMA WriteReturnsStutters ==
  ASSUME TypeOK, WriteReturns
  PROVE  UNCHANGED Stream!svars
<1>1. wi \in Messages /\ bytes_written = Sizes[wi] /\ Sizes[wi] \in Nat
  <2>1. wi \in Messages /\ bytes_written \in Nat /\ bytes_written <= Sizes[wi]
        /\ bytes_written >= Sizes[wi]
    BY DEF WriteReturns, TypeOK
  <2>2. Sizes[wi] \in Nat
    BY <2>1, SizesAreNat
  <2> QED BY <2>1, <2>2
<1>2. wi' = wi + 1 /\ bytes_written' = 0 /\ UNCHANGED taken
  BY DEF WriteReturns, reader
<1>3. BytesBefore(wi)' = BytesBefore(wi + 1)
  BY <1>2 DEF BytesBefore
<1>4. BytesBefore(wi + 1) = BytesBefore(wi) + Sizes[wi] /\ BytesBefore(wi) \in Nat
  BY <1>1, BeforeNext, StreamCounts
<1>5. Written' = Written
  BY <1>1, <1>2, <1>3, <1>4 DEF Written
<1> QED BY <1>2, <1>5 DEF Stream!svars

(* When read_all returns its buffer is the message whose turn it is, and   *)
(* all of it has been written.                                             *)
LEMMA ReadReturnsDelivers ==
  ASSUME TypeOK, StreamPreserved, ReadReturns
  PROVE  Stream!Deliver
<1>1. /\ ri \in Messages /\ ri \in Nat /\ Sizes[ri] \in Nat
      /\ bytes_read \in Nat /\ bytes_read = Sizes[ri]
  <2>1. /\ ri \in Messages /\ bytes_read \in Nat /\ bytes_read <= Sizes[ri]
        /\ bytes_read >= Sizes[ri]
    BY DEF ReadReturns, TypeOK
  <2>2. Sizes[ri] \in Nat /\ ri \in Nat
    BY <2>1, SizesAreNat
  <2> QED BY <2>1, <2>2
<1>2. buffer = Message(ri)
  <2>1. buffer \in [1..Sizes[ri] -> AllBytes \cup {Unset}]
    BY <1>1 DEF TypeOK
  <2>2. \A off \in 1..Sizes[ri] : buffer[off] = Byte(ri, off)
    BY <1>1, <2>1 DEF StreamPreserved
  <2> QED BY <2>1, <2>2 DEF Message
<1>3. Stream!Turn = ri
  BY <1>1 DEF Stream!Turn, TypeOK
<1>4. BytesBefore(ri + 1) <= Written
  <2>1. Len(pipe) \in Nat /\ Len(pipe) = Written - Delivered
    BY DEF TypeOK, StreamPreserved
  <2>2. Delivered <= Written
    BY <2>1, StreamCounts
  <2>3. Delivered = BytesBefore(ri + 1)
    BY <1>1, BeforeNext DEF Delivered
  <2> QED BY <2>2, <2>3
<1>5. taken' = Append(taken, Message(ri)) /\ UNCHANGED <<wi, bytes_written>>
  BY <1>2 DEF ReadReturns, writer
<1>6. Written' = Written
  BY <1>5 DEF Written, BytesBefore
<1> QED BY <1>1, <1>3, <1>4, <1>5, <1>6 DEF Stream!Deliver

LEMMA StreamInitRefines == Init => Stream!SInit
<1> SUFFICES ASSUME Init PROVE Stream!SInit
  OBVIOUS
<1>1. Written = 0
  BY NoneBeforeFirst DEF Init, Written
<1> QED BY <1>1 DEF Init, Stream!SInit

LEMMA StreamStepRefines ==
  TypeOK /\ StreamPreserved /\ [Next]_vars => [Stream!SNext]_(Stream!svars)
<1> SUFFICES ASSUME TypeOK, StreamPreserved, [Next]_vars
             PROVE  Stream!SNext \/ UNCHANGED Stream!svars
  OBVIOUS
<1>1. ASSUME UNCHANGED <<wi, bytes_written, taken>> PROVE UNCHANGED Stream!svars
  <2>1. Written' = Written
    BY <1>1 DEF Written, BytesBefore
  <2> QED BY <1>1, <2>1 DEF Stream!svars
<1>2. CASE Write
  BY <1>2, WriteAccepts DEF Stream!SNext
<1>3. CASE WriteReturns
  BY <1>3, WriteReturnsStutters
<1>4. CASE WriteFails \/ Close
  BY <1>1, <1>4 DEF WriteFails, Close, reader
<1>5. CASE Read \/ ReadFails
  BY <1>1, <1>5 DEF Read, ReadFails, writer
<1>6. CASE ReadReturns
  BY <1>6, ReadReturnsDelivers DEF Stream!SNext
<1>7. CASE ReadAtEnd \/ UNCHANGED vars
  BY <1>1, <1>7 DEF ReadAtEnd, vars, writer, reader
<1> QED BY <1>2, <1>3, <1>4, <1>5, <1>6, <1>7 DEF Next, WriteAll, ReadAll

(* write_all and read_all implement a stream of whole messages: whatever   *)
(* the kernel does with the pieces and whoever fails, readers get what was *)
(* sent, in order, whole, and nothing before it was written.               *)
THEOREM StreamRefinement == Spec => ImplementsStream
BY StreamInitRefines, StreamStepRefines, NetIOTypeOK, StreamIsPreserved, PTL
DEF Spec, ImplementsStream, Stream!SSpec
=============================================================================
