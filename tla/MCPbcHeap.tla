----------------------------- MODULE MCPbcHeap -----------------------------
(* Pages and blocks around the page size, and blocks of no bytes. *)
EXTENDS PbcHeap

MCPageSizes == {0, 16, 17, 40}
MCSizes == {0, 1, 3, 4, 5, 12, 16, 17, 36}
=============================================================================
