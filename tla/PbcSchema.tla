------------------------------ MODULE PbcSchema ------------------------------
(***************************************************************************)
(* Registered message types as the encoders and decoders see them.         *)
(***************************************************************************)
EXTENDS PbcContext, PbcArray, PbcIdMap

CONSTANTS
  Fields,  \* message type -> field name -> [id, type, label, of, def]
  Enums,   \* enum type -> name -> id, a number
  Order,   \* type -> its names in the order in which its id table is made
  Hash     \* calc_hash of the names of enum values

Labels == {"optional", "required", "repeated", "packed"}
IsArray(f) == f.label \in {"repeated", "packed"}

(* What the compiler of the definitions, protoc, sees to *)
ASSUME FieldsAssumption ==
  \A type \in DOMAIN Fields : \A key \in DOMAIN Fields[type] :
    LET f == Fields[type][key] IN
    /\ f.id \in Nat /\ f.label \in Labels /\ f.type \in Numeric \cup {"string", "bytes", "message"}
    /\ f.label = "packed" => f.type \in Numeric
    /\ f.type = "message" => f.of \in DOMAIN Fields

(* A number of 32 bits as an int *)
AsInt(n) == IF 31 \in n THEN -Val((0..30) \ n) - 1 ELSE Val(n)

(* _pbcP_init_message and _pbcP_push_enum make the maps of a type, when it *)
(* is registered; a message type without fields has none.                  *)
FieldTable(type) ==
  [i \in DOMAIN Order[type] |-> [id |-> Fields[type][Order[type][i]].id, pointer |-> Order[type][i]]]
EnumTable(type) ==
  [i \in DOMAIN Order[type] |-> [id |-> AsInt(Enums[type][Order[type][i]]), pointer |-> Order[type][i]]]
FieldById == [type \in {t \in DOMAIN Fields : Order[t] # <<>>} |-> IpNew(FieldTable(type))]
NameById == [type \in DOMAIN Enums |-> IpNew(EnumTable(type))]
IdByName == [type \in DOMAIN Enums |-> SiNew(EnumTable(type), Hash)]

(* _pbcM_sp_query(m->name, key) and _pbcM_ip_query(m->id, id) *)
HasField(type, key) == key \in DOMAIN Fields[type]
FieldOf(type, id) == IF type \in DOMAIN FieldById THEN IpQuery(FieldById[type], id) ELSE {}
HasId(type, id) == FieldOf(type, id) # {}
NameOf(type, id) == CHOOSE k \in FieldOf(type, id) : TRUE

(* _pbcM_si_query and _pbcM_ip_query of an enum *)
IdsOf(f, name) == SiQuery(IdByName[f.of], Hash, name)
HasName(f, name) == IdsOf(f, name) # {}
NumberOf(f, name) == LET id == CHOOSE id \in IdsOf(f, name) : TRUE
                     IN  IF id < 0 THEN (0..31) \ Bits(-id - 1) ELSE Bits(id)
NamesOf(f, n) == IpQuery(NameById[f.of], AsInt(n))

(* The wire type of a field *)
WireType(type) ==
  CASE type \in Wide                           -> WT_BIT64
    [] type \in Narrowed                       -> WT_BIT32
    [] type \in {"string", "bytes", "message"} -> WT_LEND
    [] OTHER                                   -> WT_VARINT

(* The number an atom or an element of a packed field stands for.          *)
FromWire(type, n) ==
  CASE type = "float"  -> Widen(Low(n))
    [] type = "sint32" -> Dezigzag32(n)
    [] type = "sint64" -> Dezigzag64(n)
    [] OTHER           -> n

(* _pbcP_unpack_packed: what is in the bytes of a packed field, and whether*)
(* they end where an element ends.                                         *)
BeforeVals(n, rest) == [rest EXCEPT !.vals = <<n>> \o @]
Varints(buf) ==
  LET from[at \in 0..Len(buf)] ==
        IF at = Len(buf) THEN [ok |-> TRUE, vals |-> <<>>]
        ELSE LET d == Decode(Suffix(buf, at))
             IN  IF at + d.len > Len(buf) THEN [ok |-> FALSE, vals |-> <<>>]
                 ELSE BeforeVals(d.num, from[at + d.len])
  IN  from[0]

FixedWidths(buf, w) ==
  IF Len(buf) % w # 0 THEN [ok |-> FALSE, vals |-> <<>>]
  ELSE [ok |-> TRUE, vals |-> [i \in 1..(Len(buf) \div w) |-> Unfixed(SubSeq(buf, w * (i - 1) + 1, w * i))]]

RawPacked(type, buf) ==
  CASE type \in Wide                          -> FixedWidths(buf, 8)
    [] type \in Narrowed                      -> FixedWidths(buf, 4)
    [] type \in Numeric \ (Wide \cup Narrowed) -> Varints(buf)
    [] OTHER                                  -> [ok |-> FALSE, vals |-> <<>>]
UnpackPacked(type, buf) ==
  [RawPacked(type, buf) EXCEPT !.vals = [i \in DOMAIN @ |-> FromWire(type, @[i])]]
=============================================================================
