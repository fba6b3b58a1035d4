----------------------------- MODULE ByteStream -----------------------------
(***************************************************************************)
(* What write_all and read_all promise their users, without buffers,       *)
(* kernels and pieces: a reader gets the messages one by one, each whole,  *)
(* in the order in which they were sent, and none before all its bytes     *)
(* have been written.                                                      *)
(***************************************************************************)
EXTENDS Integers, Sequences

CONSTANTS
  Frames,   \* the messages to be sent, a sequence
  Ends      \* where they end: the bytes up to the end of each message

VARIABLES
  written,     \* bytes accepted from the writer
  delivered    \* messages given to the reader

svars == <<written, delivered>>

Total == IF Frames = <<>> THEN 0 ELSE Ends[Len(Frames)]

SInit == written = 0 /\ delivered = <<>>

Accept ==
  /\ written' \in (written + 1)..Total
  /\ UNCHANGED delivered

(* The message whose turn it is.                                           *)
Turn == Len(delivered) + 1

Deliver ==
  /\ Turn \in DOMAIN Frames
  /\ Ends[Turn] <= written
  /\ delivered' = Append(delivered, Frames[Turn])
  /\ UNCHANGED written

SNext == Accept \/ Deliver

SSpec == SInit /\ [][SNext]_svars
=============================================================================
