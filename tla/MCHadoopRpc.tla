---------------------------- MODULE MCHadoopRpc ----------------------------
(***************************************************************************)
(* Instances of HadoopRpc: directories and call arguments for TLC.         *)
(***************************************************************************)
EXTENDS HadoopRpc

(* A directory with all the protocol files; one that lacks the header of   *)
(* requests, one that lacks the requests, one that lacks everything but the*)
(* connection context, one that lacks even that; one that cannot be loaded.*)
MCLoad ==
  [d \in Dirs |->
     CASE d = "all"        -> [count |-> 6, types |-> Types]
       [] d = "noheader"   -> [count |-> 5, types |-> Types \ {"RpcPayloadHeaderProto"}]
       [] d = "norequest"  -> [count |-> 5, types |-> Types \ {"HadoopRpcRequestProto"}]
       [] d = "noresponse" -> [count |-> 5, types |-> Types \ {"GetNewApplicationResponseProto"}]
       [] d = "noreshead"  -> [count |-> 5, types |-> Types \ {"RpcResponseHeaderProto"}]
       [] d = "context"    -> [count |-> 1, types |-> {"IpcConnectionContextProto"}]
       [] d = "unrelated"  -> [count |-> 1, types |-> {}]
       [] OTHER            -> [count |-> -1, types |-> {"HadoopRpcRequestProto"}]]

(* A client of a resource manager. *)
ClientArgs == {[host |-> "host", client |-> "CLIENT", server |-> "RM"]}

(* Every protocol the library serves, a server it does not, and no host. *)
VariedArgs ==
  ClientArgs \cup
  {[host |-> "host", client |-> "AM", server |-> "RM"],
   [host |-> "host", client |-> "CLIENT", server |-> "NM"],
   [host |-> "host", client |-> "CLIENT", server |-> "NN"],
   [host |-> NULL, client |-> "CLIENT", server |-> "RM"]}
=============================================================================
