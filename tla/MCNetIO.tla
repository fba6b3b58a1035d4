------------------------------ MODULE MCNetIO ------------------------------
(* Messages of several sizes, among them an empty one, for NetIO. *)
EXTENDS NetIO

MixedSizes == <<3, 0, 1, 4>>
OneMessage == <<3>>
=============================================================================
