------------------------------- MODULE NetIO -------------------------------
(***************************************************************************)
(* write_all and read_all of net_utils.c at the two ends of a connection.  *)
(* The kernel moves as many bytes per call as it likes, calls fail, and the*)
(* sending end may go away in the middle of a message.                     *)
(***************************************************************************)
EXTENDS Integers, Sequences, FiniteSets

CONSTANTS
  Sizes,      \* the sizes of the messages, sent and expected in this order
  Capacity,   \* bytes the connection holds
  Faults      \* what may go wrong. "error": a call returns -1; "close": the sender goes away

ASSUME SizesAssumption == Sizes \in Seq(Nat)
ASSUME CapacityAssumption == Capacity \in Nat \ {0}
ASSUME FaultsAssumption == Faults \subseteq {"error", "close"}

Messages == 1..Len(Sizes)

(* Byte number off of message i. *)
Byte(i, off) == <<i, off>>
Message(i) == [off \in 1..Sizes[i] |-> Byte(i, off)]

VARIABLES
  wi, bytes_written, wstate,    \* write_all: message, loop counter, outcome
  ri, bytes_read, rstate,       \* read_all: likewise
  buffer,                       \* the buffer being filled, by offset
  taken,                        \* the buffers of the read_all calls that returned 0
  pipe,                         \* bytes on their way
  closed,                       \* the sending end is gone
  faults                        \* what may go wrong in this behaviour

writer == <<wi, bytes_written, wstate>>
reader == <<ri, bytes_read, rstate, buffer, taken>>
vars == <<writer, reader, pipe, closed, faults>>

Unset == <<0, 0>>     \* what malloc'ed memory holds

NewBuffer(i) == IF i \in Messages THEN [off \in 1..Sizes[i] |-> Unset] ELSE <<>>

Init ==
  /\ wi = 1 /\ bytes_written = 0 /\ wstate = "run"
  /\ ri = 1 /\ bytes_read = 0 /\ rstate = "run"
  /\ buffer = NewBuffer(1) /\ taken = <<>>
  /\ pipe = <<>> /\ closed = FALSE
  /\ faults \in SUBSET Faults

Least(a, b) == IF a < b THEN a ELSE b

----------------------------------------------------------------------------
(* write_all *)

(* write(socket_id, buffer + bytes_written, size - bytes_written) takes n  *)
(* bytes.                                                                  *)
Write ==
  /\ wstate = "run" /\ wi \in Messages
  /\ bytes_written < Sizes[wi]
  /\ \E n \in 1..Least(Sizes[wi] - bytes_written, Capacity - Len(pipe)) :
       /\ pipe' = pipe \o SubSeq(Message(wi), bytes_written + 1, bytes_written + n)
       /\ bytes_written' = bytes_written + n
  /\ UNCHANGED <<wi, wstate, reader, closed>>

(* The loop ends and write_all is called with the next message. *)
WriteReturns ==
  /\ wstate = "run" /\ wi \in Messages
  /\ bytes_written >= Sizes[wi]
  /\ wi' = wi + 1 /\ bytes_written' = 0
  /\ UNCHANGED <<wstate, reader, pipe, closed>>

WriteFails ==
  /\ "error" \in faults
  /\ wstate = "run" /\ wi \in Messages
  /\ bytes_written < Sizes[wi]
  /\ wstate' = "failed"
  /\ UNCHANGED <<wi, bytes_written, reader, pipe, closed>>

(* The process at the sending end closes the connection or ends. *)
Close ==
  /\ "close" \in faults
  /\ ~closed
  /\ closed' = TRUE /\ wstate' = "closed"
  /\ UNCHANGED <<wi, bytes_written, reader, pipe>>

----------------------------------------------------------------------------
(* read_all *)

(* The bytes read asks the kernel for; as a mutant, the whole size in      *)
(* every round.                                                            *)
WantedWhole(size, got) == size
Wanted(size, got) == size - got

(* Where the bytes go; as a mutant, always to the start of the buffer. *)
OffsetStart(got) == 0
Offset(got) == got

(* read(socket_id, buffer + bytes_read, size - bytes_read) returns n bytes. *)
Read ==
  /\ rstate = "run" /\ ri \in Messages
  /\ bytes_read < Sizes[ri]
  /\ \E n \in 1..Least(Wanted(Sizes[ri], bytes_read), Len(pipe)) :
       /\ buffer' = [off \in DOMAIN buffer |->
                       IF off - Offset(bytes_read) \in 1..n
                       THEN pipe[off - Offset(bytes_read)] ELSE buffer[off]]
       /\ bytes_read' = bytes_read + n
       /\ pipe' = SubSeq(pipe, n + 1, Len(pipe))
  /\ UNCHANGED <<writer, ri, rstate, taken, closed>>

(* At the end of the stream read returns 0, which is no error to the loop. *)
ReadAtEnd ==
  /\ rstate = "run" /\ ri \in Messages
  /\ bytes_read < Sizes[ri]
  /\ closed /\ pipe = <<>>
  /\ UNCHANGED vars

ReadReturns ==
  /\ rstate = "run" /\ ri \in Messages
  /\ bytes_read >= Sizes[ri]
  /\ taken' = Append(taken, buffer)
  /\ ri' = ri + 1 /\ bytes_read' = 0
  /\ buffer' = NewBuffer(ri + 1)
  /\ UNCHANGED <<writer, rstate, pipe, closed>>

ReadFails ==
  /\ "error" \in faults
  /\ rstate = "run" /\ ri \in Messages
  /\ bytes_read < Sizes[ri]
  /\ rstate' = "failed"
  /\ UNCHANGED <<writer, ri, bytes_read, buffer, taken, pipe, closed>>

----------------------------------------------------------------------------
WriteAll == Write \/ WriteReturns \/ WriteFails
ReadAll == Read \/ ReadAtEnd \/ ReadReturns \/ ReadFails

Next == (WriteAll \/ ReadAll \/ Close) /\ UNCHANGED faults

Spec == Init /\ [][Next]_vars

(* Both threads run; the kernel moves bytes when it can.  Nothing makes a  *)
(* call fail or the sender leave.                                          *)
Fairness ==
  /\ WF_vars((Write \/ WriteReturns) /\ UNCHANGED faults)
  /\ WF_vars((Read \/ ReadAtEnd \/ ReadReturns) /\ UNCHANGED faults)
FairSpec == Spec /\ Fairness

----------------------------------------------------------------------------
(* The bytes of message i, and of all messages. *)
BytesOf(i) == {i} \X (1..Sizes[i])
AllBytes == UNION {BytesOf(i) : i \in Messages}

(* Counters, outcomes and buffer sizes. *)
TypeOK ==
  /\ wi \in 1..(Len(Sizes) + 1) /\ ri \in 1..(Len(Sizes) + 1)
  /\ bytes_written \in Nat /\ bytes_read \in Nat
  /\ wi \in Messages => bytes_written <= Sizes[wi]
  /\ ri \in Messages => bytes_read <= Sizes[ri]
  /\ wi \notin Messages => bytes_written = 0
  /\ ri \notin Messages => bytes_read = 0
  /\ wstate \in {"run", "failed", "closed"} /\ rstate \in {"run", "failed"}
  /\ pipe \in Seq(AllBytes) /\ Len(pipe) <= Capacity
  /\ ri \in Messages => buffer \in [1..Sizes[ri] -> AllBytes \cup {Unset}]
  /\ taken \in Seq(Seq(AllBytes \cup {Unset})) /\ Len(taken) = ri - 1
  /\ closed \in BOOLEAN /\ faults \subseteq Faults

(* Where a byte has its place in what the sender has to say: behind all    *)
(* bytes of the messages before its own.                                   *)
BytesBefore(i) == Cardinality({b \in AllBytes : b[1] < i})
Position(b) == BytesBefore(b[1]) + b[2]

(* How many bytes write was given so far, and how many read delivered. *)
Written == BytesBefore(wi) + bytes_written
Delivered == BytesBefore(ri) + bytes_read

(* Nothing is lost, repeated or moved: what is on its way are the bytes    *)
(* write_all has written and read_all has not read, in the order of their  *)
(* positions, and what read_all has read so far lies in its buffer in place.*)
StreamPreserved ==
  /\ Len(pipe) = Written - Delivered
  /\ \A x \in DOMAIN pipe : Position(pipe[x]) = Delivered + x
  /\ \A off \in DOMAIN buffer : off <= bytes_read => buffer[off] = Byte(ri, off)

(* A buffer read_all reported as read is the message sent in its place,    *)
(* however the kernel cut the stream, and whatever happened to the sender. *)
FramesIntact == \A i \in DOMAIN taken : taken[i] = Message(i)

(* To its users a connection is a ByteStream: what read_all returned are   *)
(* the messages write_all was called with, and none of them comes out      *)
(* before all of it went in.  Pieces, failures and the end of the sender   *)
(* do not show.                                                            *)
Stream == INSTANCE ByteStream
  WITH Frames <- [i \in Messages |-> Message(i)], Ends <- [i \in Messages |-> BytesBefore(i + 1)],
       written <- Written, delivered <- taken

ImplementsStream == Stream!SSpec

(* Without faults every message arrives. *)
AllDelivered == faults = {} => <>(ri = Len(Sizes) + 1)

(* "try to read buffer with length=size ..., will fail when read failed":  *)
(* a call of read_all ends.                                                *)
ReadAllEnds == [](ri = 1 /\ rstate = "run" => <>(ri > 1 \/ rstate = "failed"))
=============================================================================
