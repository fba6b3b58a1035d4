-------------------------- MODULE PbcCodecReading --------------------------
(***************************************************************************)
(* What the readers of a message may make of it: the values that were told *)
(* to the writer, in their order.                                          *)
(***************************************************************************)
EXTENDS PbcCodec

(* Values as the API hands them to a program that asks for the type: of a  *)
(* type of 32 bits, the lower half.  Of a real the two zeros are one value:*)
(* a pattern takes them for each other.                                    *)
Whole == {"int64", "uint64", "sint64", "double", "float"} \cup Wide
Canon(type, v) ==
  CASE type = "bool"             -> IF Low(v) = {} THEN {} ELSE {0}
    [] type \in {"float", "double"} -> IF v = {63} THEN {} ELSE v
    [] type \in Numeric \ Whole -> Low(v)
    [] OTHER                     -> v
Default(f) == IF f.type \in {"string", "bytes"} THEN f.def.str ELSE f.def

(* The numbers of the names of an enum; without a name none of 64 bits     *)
Named(f, names) == IF names = {} THEN {{64}} ELSE {Enums[f.of][name] : name \in names}

(* All that the accessors can return for a field that is no message        *)
Accessed(r, key, i) ==
  LET f == Fields[r.msg][key] IN
  CASE f.type \in {"string", "bytes"} -> {SubSeq(t.str, 1, t.sz) : t \in RString(r, key, i)}
    [] f.type = "enum" -> RInteger(r, key, i) \cup Named(f, RString(r, key, i))
    [] f.type \in {"float", "double"} -> {Canon(f.type, d) : d \in RReal(r, key, i)}
    [] OTHER -> {Canon(f.type, n) : n \in RInteger(r, key, i)}

(* The message r holds what was said of message h: all of it, or, cut      *)
(* short, a part that starts where it starts.                              *)
RECURSIVE Agrees(_, _, _)
Agrees(h, r, all) ==
  /\ r.msg # "NULL"
  /\ \A key \in DOMAIN r.index :
       LET f    == Fields[r.msg][key]
           said == told[h][key]
           n    == RSize(r, key)
           Is(i, j) == IF f.type = "message"
                       THEN \A sub \in RMessage(r, key, i) : Agrees(said[j], sub, TRUE)
                       ELSE Accessed(r, key, i) = {Canon(f.type, said[j])}
           Among    == IF f.type = "message"
                       THEN \A sub \in RMessage(r, key, 0) : \E j \in DOMAIN said : Agrees(said[j], sub, TRUE)
                       ELSE Accessed(r, key, 0) \subseteq {Canon(f.type, said[j]) : j \in DOMAIN said}
       IN  IF IsArray(f)
           THEN /\ IF all THEN n = Len(said) ELSE n <= Len(said)
                /\ \A i \in 1..n : Is(i - 1, i)
           ELSE (n = 0 /\ (all => said = <<>>)) \/ Among

(* What the callbacks have reported of a field. *)
Reported(key) ==
  LET cs == SelectSeq(got[1].val.calls, LAMBDA c : c.key = key) IN [i \in DOMAIN cs |-> cs[i].val]

(* The struct holds what was said, of fields given twice the last.         *)
StructAgrees(pf, cell, said, all) ==
  LET says == CellSays(pf, cell) IN
  IF IsArrayCell(pf)
  THEN /\ IF all THEN Len(says) = Len(said) ELSE Len(says) <= Len(said)
       /\ \A i \in DOMAIN says : Canon(pf.ptype, says[i]) = Canon(pf.ptype, said[i])
  ELSE \/ said # <<>> /\ all /\ Canon(pf.ptype, says[1]) = Canon(pf.ptype, Last(said))
       \/ ~all /\ \E i \in DOMAIN said : Canon(pf.ptype, says[1]) = Canon(pf.ptype, said[i])
       \/ (all => said = <<>>) /\ cell = DefaultCell(pf)

----------------------------------------------------------------------------
(* pbc_rmessage gives back what the writer gave, of the fields the reader  *)
(* knows: elements in their order and none lost, of a field without        *)
(* repetition one of the values given, sub-messages all the way down.      *)
ReadsWhatWasTold == Received("message") /\ got[1].cut = 0 => Agrees(1, got[1].val, TRUE)

(* Of a message cut short nothing is read that was not written: it is      *)
(* refused, or what is left of it is the beginning of what was written, in *)
(* whole fields and whole sub-messages.                                    *)
CutNeverInvents ==
  got # <<>> /\ got[1].cut > 0 =>
    CASE got[1].how = "message" -> got[1].val = NULLMessage \/ Agrees(1, got[1].val, FALSE)
      [] got[1].how = "struct"  ->
           got[1].val.result < 0 \/ \A pf \in Range(ThePattern) :
              StructAgrees(pf, got[1].val.data[pf.key], told[1][pf.key], FALSE)
      [] OTHER -> TRUE

(* A pattern reads the fields it has out of a message, packed by a pattern *)
(* or written field by field, in any order, and defaults where it has none.*)
StructReadsBack ==
  Received("struct") /\ got[1].cut = 0 =>
    /\ got[1].val.result = 0
    /\ \A pf \in Range(ThePattern) : StructAgrees(pf, got[1].val.data[pf.key], told[1][pf.key], TRUE)

(* pbc_decode reports the values of every field in the order in which they *)
(* were given, up to where it fails; a whole message of the type it knows  *)
(* does not fail.                                                          *)
CallbacksInOrder ==
  Received("callbacks") =>
    \A key \in DOMAIN Fields[got[1].type] :
      LET f    == Fields[got[1].type][key]
          vals == Reported(key)
          said == told[1][key]
      IN  /\ \A i \in DOMAIN vals : /\ i <= Len(said)
                                    /\ IF f.type = "message" THEN Agrees(said[i], ReadMessage(f.of, vals[i]), TRUE)
                                       ELSE Canon(f.type, vals[i]) = Canon(f.type, said[i])
          /\ got[1].cut = 0 /\ got[1].type = Root =>
               /\ got[1].val.result >= 0
               /\ \/ Len(vals) = Len(said)
                  \/ /\ vals = <<>> /\ ~IsArray(f) /\ Len(said) = 1
                     /\ Canon(f.type, said[1]) = Canon(f.type, Default(f))

(* "the entire array is encoded as a single length-delimited blob"         *)
(* (descriptor.proto:349), and that is what a packed field is read from:   *)
(* its elements come back.                                                 *)
PackedKept ==
  Received("message") /\ got[1].cut = 0 =>
    /\ got[1].val.msg # "NULL"
    /\ \A key \in DOMAIN got[1].val.index :
         LET f    == Fields[got[1].type][key]
             said == told[1][key]
         IN  f.label = "packed" =>
               /\ RSize(got[1].val, key) = Len(said)
               /\ \A i \in DOMAIN said : Accessed(got[1].val, key, i - 1) = {Canon(f.type, said[i])}
=============================================================================
