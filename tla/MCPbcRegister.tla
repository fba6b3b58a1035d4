--------------------------- MODULE MCPbcRegister ---------------------------
(***************************************************************************)
(* Descriptor sets and directories for PbcRegister.                        *)
(***************************************************************************)
EXTENDS PbcRegister, SequencesExt

Desc(n, deps, defs, uses) == [name |-> n, deps |-> deps, defs |-> defs, uses |-> uses]

(* base defines an enum and a message; mid and top build on it; loop1 and  *)
(* loop2 import each other; lost imports a file that is nowhere, and meta  *)
(* the descriptor file itself.                                             *)
Base  == Desc("base", {}, {"E", "A"}, {"E", "A"})
Mid   == Desc("mid", {"base"}, {"B"}, {"A", "E"})
Top   == Desc("top", {"mid", "base"}, {"C"}, {"B", "A", "C"})
Side  == Desc("side", {}, {"S"}, {})
Loop1 == Desc("loop1", {"loop2"}, {"L"}, {})
Loop2 == Desc("loop2", {"loop1", "base"}, {}, {"A"})
Lost  == Desc("lost", {"top", "nowhere"}, {}, {"C"})
Meta  == Desc("meta", {"descriptor"}, {"M"}, {})

(* Every order of some of the files, and sets with a file twice. *)
Orders(descs) == SetToSeqs(descs)
MCSets ==
  Orders({Base, Mid, Top}) \cup Orders({Base, Mid, Top, Side})
    \cup Orders({Base, Top, Lost}) \cup Orders({Base, Meta}) \cup Orders({Base, Loop1, Loop2})
    \cup {<<Base, Mid, Mid, Top>>, <<Top, Mid, Top, Base>>, <<Side>>, <<Base>>, <<>>}

Entry(id, size, descs) ==
  [id |-> id, pb |-> TRUE, readable |-> TRUE, good |-> TRUE, size |-> size, descs |-> descs]
Other == [Entry(0, 1, <<Side>>) EXCEPT !.pb = FALSE]
Unreadable == [Entry(9, 1, <<>>) EXCEPT !.readable = FALSE]
Corrupt == [Entry(8, 1, <<>>) EXCEPT !.good = FALSE]

(* One .pb file per .proto file, and one that holds two. *)
Split == {Entry(1, 1, <<Base>>), Entry(2, 1, <<Mid>>), Entry(3, 2, <<Side, Top>>), Other}

MCDirectories ==
  {Split, {Other}, {}, {Entry(1, 1, <<Base>>), Unreadable}, {Entry(1, 1, <<Mid, Base>>), Corrupt},
   {Entry(4, 1, <<Lost>>), Entry(5, 2, <<Top, Base>>)}}

(* TypesResolved is about such files. *)
ASSUME OfferedAssumption == SelfContained
=============================================================================
