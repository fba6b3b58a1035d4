------------------------------ MODULE PbcCodec ------------------------------
(***************************************************************************)
(* A message on its way: a program fills a pbc_wmessage and its sub-       *)
(* messages in any order, or packs a struct with a pattern; the bytes      *)
(* arrive, whole or cut short, at a program that reads them with           *)
(* pbc_rmessage, a pattern or pbc_decode, and may know an older version of *)
(* the message type.                                                       *)
(***************************************************************************)
EXTENDS PbcWMessage, PbcRMessage, PbcPattern

CONSTANTS
  Root,        \* the type of the message
  Menu,        \* calls: [op, type, key, args]
  Structs,     \* structs a pattern packs, functions from fields to cells
  Rooms,       \* sizes of the buffers they are packed into
  Priors,      \* what a struct may hold before a message is unpacked into it
  Format,      \* the format of the pattern
  Readers,     \* the types the message is read as
  Shifts,      \* what builds make of an int shifted by 35
  StaleBytes,  \* what may be in a heap page
  MaxCalls,    \* bounds on the calls, for messages of each type
  MaxCut       \* how many bytes at most get lost at the end

(* Calls and structs hold what their types say.                            *)
TextFits(v, len) == v \in Seq(Byte) /\ len \in Int /\ len <= Len(v)
IsText(type, key) == HasField(type, key) /\ Fields[type][key].type \in {"string", "bytes"}
ArgFits(c, a) ==
  IF c.op = "string" THEN IsText(c.type, c.key) => TextFits(a.v, a.len) ELSE a \in Number64
CallFits(c) ==
  /\ c.type \in DOMAIN Fields /\ c.args \in Seq(Range(c.args)) /\ \A a \in Range(c.args) : ArgFits(c, a)
  /\ c.op = "message" /\ HasField(c.type, c.key) => Fields[c.type][c.key].type = "message"
CellFits(pf, ctype, cell) ==
  IF pf.ptype \in Numeric THEN Load(ctype, cell) \in Number64 ELSE TextFits(cell.str, cell.len)
CellsFit(pf, array) ==
  array.cells \in Seq(Range(array.cells)) /\ \A cell \in Range(array.cells) : CellFits(pf, "var", cell)
StructFits(pf, cell) ==
  IF pf.label \in {"repeated", "packed"}
  THEN CellsFit(pf, cell) /\ (pf.label = "packed" => pf.ptype \in Numeric)
  ELSE CellFits(pf, pf.ctype, cell)
ThePattern == PatternNew(Root, Format)

(* Calls that fill no packed field of numbers of 4 bytes: of those,        *)
(* pbc_wmessage_buffer writes more than it makes room for.                 *)
NoNarrowPacked(menu) ==
  \A c \in menu :
    c.op \in {"integer", "real"} /\ HasField(c.type, c.key) /\ Fields[c.type][c.key].label = "packed"
      => Fields[c.type][c.key].type \notin Narrowed

ASSUME CodecAssumption ==
  /\ MaxCut \in Nat /\ Rooms \subseteq Nat /\ Format \in Seq(Range(Format))
  /\ Root \in DOMAIN Fields \cap DOMAIN MaxCalls /\ Readers \subseteq DOMAIN Fields /\ StaleBytes \subseteq Byte
  /\ \A type \in DOMAIN MaxCalls : MaxCalls[type] \in Nat
  /\ \A c \in Menu : CallFits(c)
  /\ \A data \in Structs : \A i \in DOMAIN ThePattern : StructFits(ThePattern[i], data[ThePattern[i].key])
  /\ \A data \in Priors : DOMAIN data = {pf.key : pf \in Range(ThePattern)}

VARIABLES
  msgs,    \* the messages being written; the first is the one to send
  told,    \* handle -> field -> what the calls have said, in their order
  calls,   \* type -> number of calls to messages of that type
  packet,  \* what was sent: <<>> or one sequence of bytes
  got      \* what was read: <<>> or [how, type, cut, val]

codecVars == <<shift35, staleByte, msgs, told, calls, packet, got>>

NothingTold(type) == [k \in DOMAIN Fields[type] |-> <<>>]

Init ==
  /\ shift35 \in Shifts /\ staleByte \in StaleBytes
  /\ msgs = <<New(Root)>> /\ told = <<NothingTold(Root)>>
  /\ calls = [type \in DOMAIN MaxCalls |-> 0] /\ packet = <<>> /\ got = <<>>

Calls(h, c, op) ==
  /\ c.op = op /\ c.type = msgs[h].type
  /\ calls[c.type] < MaxCalls[c.type] /\ packet = <<>>
  /\ calls' = [calls EXCEPT ![c.type] = @ + 1]
  /\ UNCHANGED <<shift35, staleByte, packet, got>>

Known(h, c) == HasField(msgs[h].type, c.key)
Say(h, key, vals) == told' = [told EXCEPT ![h][key] = @ \o vals]

(* One call for each argument, as in a loop of the program.                *)
Loop(h, c, Add(_, _, _)) ==
  \E at \in 1..(Len(msgs[h].packed) + 1) :
    msgs' = [msgs EXCEPT ![h] = FoldLeft(LAMBDA m, v : Add(m, v, at), @, c.args)]

Integer(h, c) ==
  /\ Calls(h, c, "integer") /\ Known(h, c)
  /\ Loop(h, c, LAMBDA m, v, at : AddInteger(m, c.key, v, at))
  /\ Say(h, c.key, c.args)

Real(h, c) ==
  /\ Calls(h, c, "real") /\ Known(h, c)
  /\ Loop(h, c, LAMBDA m, v, at : AddReal(m, c.key, v, at))
  /\ Say(h, c.key, c.args)

(* text is what the caller means by v and len. *)
String(h, c) ==
  /\ Calls(h, c, "string") /\ Known(h, c)
  /\ \A i \in DOMAIN c.args : ~UnknownEnum(msgs[h].type, c.key, c.args[i].v)
  /\ Loop(h, c, LAMBDA m, a, at : AddString(m, c.key, a.v, a.len, at))
  /\ Say(h, c.key, [i \in DOMAIN c.args |-> c.args[i].text])

SubMessage(h, c) ==
  /\ Calls(h, c, "message") /\ Known(h, c)
  /\ msgs' = AddMessage(msgs, h, c.key)
  /\ told' = Append([told EXCEPT ![h][c.key] = Append(@, Len(msgs) + 1)],
                    NothingTold(Fields[msgs[h].type][c.key].of))

(* A call with a key or the name of an enum that nobody knows says nothing.*)
Refused(h, c) ==
  /\ Calls(h, c, c.op)
  /\ \/ ~Known(h, c) /\ UNCHANGED msgs
     \/ /\ Known(h, c) /\ c.op = "string" /\ UnknownEnum(msgs[h].type, c.key, c.args[1].v)
        /\ Loop(h, c, LAMBDA m, a, at : AddString(m, c.key, a.v, a.len, at))
  /\ UNCHANGED told

(* pbc_wmessage_buffer, called once *)
Send ==
  /\ packet = <<>> /\ got = <<>>
  /\ msgs' = Buffer(msgs)
  /\ packet' = <<msgs'[1].buf>>
  /\ UNCHANGED <<shift35, staleByte, told, calls, got>>

(* What the cell of a field of the pattern says *)
CellSays(pf, cell) ==
  LET One(ctype, v) == IF pf.ptype \in Numeric THEN Load(ctype, v) ELSE SliceBytes(pf.ptype, v)
  IN  IF IsArrayCell(pf) THEN [i \in DOMAIN cell.cells |-> One("var", cell.cells[i])]
      ELSE <<One(pf.ctype, cell)>>
PatternField(key) == CHOOSE pf \in Range(ThePattern) : pf.key = key
InPattern(key) == \E pf \in Range(ThePattern) : pf.key = key

Sent(s) == s.ok /\ packet' = <<s.out>>
SendStruct(data, room) ==
  /\ packet = <<>> /\ got = <<>> /\ calls[Root] = 0
  /\ Sent(PatternPack(ThePattern, data, room))
  /\ told' = <<[k \in DOMAIN told[1] |->
                  IF InPattern(k) THEN CellSays(PatternField(k), data[k]) ELSE <<>>]>>
  /\ UNCHANGED <<shift35, staleByte, msgs, calls, got>>

(* The last cut bytes are lost. *)
Arrived(cut) == SubSeq(packet[1], 1, Len(packet[1]) - cut)
Reads(how, type, cut, val) ==
  /\ packet # <<>> /\ got = <<>> /\ cut <= Len(packet[1])
  /\ got' = <<[how |-> how, type |-> type, cut |-> cut, val |-> val]>>
  /\ UNCHANGED <<shift35, staleByte, msgs, told, calls, packet>>

ReceiveMessage(type, cut) == Reads("message", type, cut, ReadMessage(type, Arrived(cut)))
ReceiveCallbacks(type, cut) == Reads("callbacks", type, cut, PbcDecode(type, Arrived(cut)))
ReceiveStruct(data, cut) == Reads("struct", Root, cut, PatternUnpack(ThePattern, Arrived(cut), data))

Next ==
  \/ \E h \in DOMAIN msgs, c \in Menu :
       Integer(h, c) \/ Real(h, c) \/ String(h, c) \/ SubMessage(h, c) \/ Refused(h, c)
  \/ Send
  \/ \E data \in Structs, room \in Rooms : SendStruct(data, room)
  \/ \E cut \in 0..MaxCut, type \in Readers : ReceiveMessage(type, cut) \/ ReceiveCallbacks(type, cut)
  \/ \E cut \in 0..MaxCut, data \in Priors : ReceiveStruct(data, cut)

Spec == Init /\ [][Next]_codecVars
----------------------------------------------------------------------------
Received(how) == got # <<>> /\ got[1].how = how

(* The messages, the history and what was received are of these kinds.     *)
TypeOK ==
  /\ shift35 \in Shifts /\ staleByte \in Byte /\ \A type \in DOMAIN calls : calls[type] \in 0..MaxCalls[type]
  /\ DOMAIN told = DOMAIN msgs
  /\ \A h \in DOMAIN msgs :
       /\ DoubledTo(WMESSAGE_SIZE, msgs[h].cap) = msgs[h].cap /\ Range(msgs[h].buf) \subseteq Byte
       /\ DOMAIN told[h] = DOMAIN Fields[msgs[h].type]
  /\ packet # <<>> => Range(packet[1]) \subseteq Byte
  /\ Received("struct") => DOMAIN got[1].val.data = {pf.key : pf \in Range(ThePattern)}

(* Neither the buffer of a message nor an array is written past its end,   *)
(* however the calls that fill them follow each other.  A sub-message costs*)
(* two bytes at least, its tag and its length.                             *)
NoOverrun ==
  /\ \A h \in DOMAIN msgs : Within(msgs[h])
  /\ Received("message") => ArraysHold(got[1].val, Len(packet[1]) \div 2)
=============================================================================
