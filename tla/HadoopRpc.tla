----------------------------- MODULE HadoopRpc -----------------------------
(***************************************************************************)
(* The Hadoop RPC client: one client thread that initialises the protobuf  *)
(* environment, opens proxies to servers and asks them for application     *)
(* ids, interleaved with the servers at the other end of the sockets.      *)
(*                                                                         *)
(* A step of the client is one socket call of the code (one write_all, one *)
(* read_all, one raw read) together with the straight-line code up to the  *)
(* next one.  Server and kernel are external: they are modelled by what    *)
(* the client can observe of them.                                         *)
(***************************************************************************)
EXTENDS Integers, Sequences, FiniteSets

CONSTANTS
  Proxies,     \* identities for the results of new_hadoop_rpc_proxy
  ProxyArgs,   \* the arguments new_hadoop_rpc_proxy is called with
  Dirs,        \* the directories init_pb_env is called with
  Versions,    \* the hd_version arguments, possibly NULL
  Load,        \* Dirs -> what init_pbc_env_with_dir makes of the directory
  ReplyKinds,  \* the kinds of answers the servers give
  Faults,      \* the faults sockets and servers may show
  MaxInit,     \* bound: calls of init_pb_env
  MaxCalls,    \* bound: caller_id of a proxy
  MaxId,       \* bound: application ids handed out
  NULL         \* the null pointer

(* The message types the client looks up in the environment. *)
Types == {"IpcConnectionContextProto", "RpcPayloadHeaderProto",
          "HadoopRpcRequestProto", "RpcResponseHeaderProto",
          "GetNewApplicationRequestProto", "GetNewApplicationResponseProto"}

(* The answers of a server.  "ok": success with an application id; "noid": *)
(* success, the optional application_id is absent; "empty": success with a *)
(* payload of zero bytes; "badpayload", "badheader": success whose payload,*)
(* or header, does not decode; "error", "fatal": the other two statuses.   *)
AllKinds == {"ok", "noid", "empty", "badpayload", "badheader", "error", "fatal"}

(* "refused": gethostbyname or connect fails; "rst", "fin": the peer resets *)
(* or closes a connection, at any time and also in the middle of a reply;   *)
(* "intr": a signal interrupts a blocking call, which returns -1; "short":  *)
(* a read returns fewer bytes than asked for; "dup": a server answers a     *)
(* call it has answered before.                                             *)
AllFaults == {"refused", "rst", "fin", "intr", "short", "dup"}

ServerTypes == {"NM", "RM", "NN", "DN"}
ClientTypes == {"CLIENT", "AM"}

ASSUME ArgsAssumption ==
  /\ ProxyArgs \subseteq [host : {"host", NULL}, client : ClientTypes, server : ServerTypes]
  /\ ReplyKinds \subseteq AllKinds
  /\ Faults \subseteq AllFaults
ASSUME LoadAssumption == Load \in [Dirs -> [count : Int, types : SUBSET Types]]
ASSUME BoundsAssumption == MaxInit \in Nat /\ MaxCalls \in Nat /\ MaxId \in Nat
ASSUME NullAssumption == \A t \in SUBSET Types : t # NULL

NoApp == -1      \* app_id of a proxy that has no application yet

VARIABLES
  env,                \* the pbc environment: NULL or the message types it knows
  is_env_initialize,
  hadoop_version,
  inits,              \* calls of init_pb_env so far
  pstate,             \* of each proxy: "none", "opening", "live" or "gone"
  caller_id, protocol_name, app_id,    \* the fields of each proxy
  sock,               \* socket of each proxy: none, new, open, fin, rst, dead
  c2s,                \* complete request frames on their way to the server
  s2c,                \* replies on their way to the client, the first one being read
  torn,               \* proxies whose outgoing stream is out of frame
  desynced,           \* proxies whose incoming stream is out of frame
  pc, cur, k,         \* where the client thread is, for which proxy, sub-step
  frame,              \* the request frame being written
  rc,                 \* the last value returned to the application
  last,               \* how the last call on each proxy ended
  sent,               \* history: callIds of the complete frames written
  nextId, issued,     \* server: next application id, <<id, proxy, callId>> handed out
  destroyed           \* proxies passed to destory_hadoop_rpc_proxy

envVars   == <<env, is_env_initialize, hadoop_version, inits>>
proxyVars == <<pstate, caller_id, protocol_name, app_id>>
netVars   == <<sock, c2s, s2c, torn, desynced>>
callVars  == <<pc, cur, k, frame, rc, last>>
srvVars   == <<nextId, issued>>
vars == <<envVars, proxyVars, netVars, callVars, srvVars, sent, destroyed>>

Init ==
  /\ env = NULL /\ is_env_initialize = FALSE /\ hadoop_version = NULL /\ inits = 0
  /\ pstate = [p \in Proxies |-> "none"]
  /\ caller_id = [p \in Proxies |-> 0]
  /\ protocol_name = [p \in Proxies |-> NULL]
  /\ app_id = [p \in Proxies |-> NoApp]
  /\ sock = [p \in Proxies |-> "none"]
  /\ c2s = [p \in Proxies |-> <<>>]
  /\ s2c = [p \in Proxies |-> <<>>]
  /\ torn = {} /\ desynced = {}
  /\ pc = "idle" /\ cur \in Proxies /\ k = 0 /\ rc = 0
  /\ frame = [callId |-> 0, hdr |-> "ok", req |-> "empty"]
  /\ last = [p \in Proxies |-> "none"]
  /\ sent = [p \in Proxies |-> <<>>]
  /\ nextId = 1 /\ issued = {}
  /\ destroyed = {}

----------------------------------------------------------------------------
(* The environment *)

(* The test of init_pb_env for an earlier success; as a mutant, left out. *)
AlreadyInitDropped == FALSE
AlreadyInit == is_env_initialize

(* init_pb_env: a new environment replaces the current one before anything *)
(* is checked; a failed load leaves what it registered behind.             *)
InitPbEnv(d, v) ==
  /\ pc = "idle"
  /\ inits < MaxInit
  /\ inits' = inits + 1
  /\ \/ /\ AlreadyInit
        /\ env' = {}
        /\ rc' = 0
        /\ UNCHANGED <<is_env_initialize, hadoop_version>>
     \/ /\ ~AlreadyInit
        /\ Load[d].count <= 0
        /\ env' = Load[d].types
        /\ rc' = 1
        /\ UNCHANGED <<is_env_initialize, hadoop_version>>
     \/ /\ ~AlreadyInit
        /\ Load[d].count > 0
        /\ env' = Load[d].types
        /\ is_env_initialize' = TRUE
        /\ hadoop_version' = IF v # NULL THEN v ELSE hadoop_version
        /\ rc' = 0
  /\ UNCHANGED <<proxyVars, netVars, pc, cur, k, frame, last, srvVars, sent, destroyed>>

(* check_init_and_print; as a mutant, the check left out *)
CheckInitDropped == TRUE
CheckInit == is_env_initialize

----------------------------------------------------------------------------
(* Opening a proxy *)

ProtocolName(a) ==
  CASE a.server = "NM" -> "ContainerManager"
    [] a.server = "RM" /\ a.client = "CLIENT" -> "ClientRMProtocol"
    [] a.server = "RM" /\ a.client = "AM" -> "AMRMProtocol"

(* new_hadoop_rpc_proxy up to the connect call.  The client and server     *)
(* types are kept in the proxy but only feed protocol_name.                *)
NewProxy(p, a) ==
  /\ pc = "idle"
  /\ pstate[p] = "none"
  /\ \/ /\ ~CheckInit \/ a.host = NULL \/ a.server \in {"NN", "DN"}
        /\ rc' = -1
        /\ UNCHANGED <<pstate, caller_id, protocol_name, sock, pc, cur>>
     \/ /\ CheckInit /\ a.host # NULL /\ a.server \notin {"NN", "DN"}
        /\ pstate' = [pstate EXCEPT ![p] = "opening"]
        /\ caller_id' = [caller_id EXCEPT ![p] = 0]
        /\ protocol_name' = [protocol_name EXCEPT ![p] = ProtocolName(a)]
        /\ sock' = [sock EXCEPT ![p] = "new"]
        /\ pc' = "connect" /\ cur' = p
        /\ UNCHANGED rc
  /\ UNCHANGED <<envVars, app_id, c2s, s2c, torn, desynced, k, frame, last,
                 srvVars, sent, destroyed>>

(* new_hadoop_rpc_proxy gives up: NULL is returned, the socket stays open. *)
OpenFails ==
  /\ pstate' = [pstate EXCEPT ![cur] = "gone"]
  /\ pc' = "idle" /\ rc' = -1

(* connect_to_server *)
ConnectToServer ==
  /\ pc = "connect"
  /\ \/ /\ sock' = [sock EXCEPT ![cur] = "open"]
        /\ pc' = "hdr" /\ k' = 0
        /\ UNCHANGED <<pstate, rc>>
     \/ /\ "refused" \in Faults
        /\ OpenFails
        /\ UNCHANGED <<sock, k>>
  /\ UNCHANGED <<envVars, caller_id, protocol_name, app_id, c2s, s2c, torn, desynced,
                 cur, frame, last, srvVars, sent, destroyed>>

(* The kernel accepts the bytes of a write_all: also when the peer has     *)
(* already closed its side.                                                *)
WriteOk(p) == sock[p] \in {"open", "fin"}

(* A write fails with -1; a pending reset is reported once. *)
WriteFails(p) ==
  \/ "intr" \in Faults /\ UNCHANGED sock
  \/ sock[p] = "rst" /\ sock' = [sock EXCEPT ![p] = "dead"]

(* A write on a connection known to be broken raises SIGPIPE, which the    *)
(* library neither handles nor blocks: the process ends.                   *)
WriteKills(p) == sock[p] \in {"rst", "dead"}

HeaderWrites == 6   \* hrpc, version, authmethod, serialization, length, context

(* write_connection_header, one write_all at a time.  The context message  *)
(* is looked up after the first four writes.                               *)
WriteConnectionHeader ==
  /\ pc = "hdr"
  /\ \/ /\ k = 4 => env # NULL /\ "IpcConnectionContextProto" \in env
        /\ WriteOk(cur)
        /\ IF k + 1 = HeaderWrites
           THEN /\ pstate' = [pstate EXCEPT ![cur] = "live"]
                /\ app_id' = [app_id EXCEPT ![cur] = NoApp]
                /\ pc' = "idle" /\ k' = 0 /\ rc' = 0
           ELSE /\ k' = k + 1
                /\ UNCHANGED <<pstate, app_id, pc, rc>>
        /\ UNCHANGED sock
     \/ /\ k = 4 /\ env = NULL              \* pbc_wmessage_new(NULL, ...)
        /\ pc' = "nullderef"
        /\ UNCHANGED <<pstate, app_id, k, rc, sock>>
     \/ /\ k = 4 /\ env # NULL /\ "IpcConnectionContextProto" \notin env
        /\ OpenFails
        /\ UNCHANGED <<app_id, k, sock>>
     \/ /\ WriteFails(cur)
        /\ OpenFails
        /\ UNCHANGED <<app_id, k>>
     \/ /\ WriteFails(cur)
        /\ k = HeaderWrites - 1             \* free(slice.buffer) of heap memory
        /\ pc' = "badfree"
        /\ UNCHANGED <<pstate, app_id, k, rc>>
     \/ /\ WriteKills(cur)
        /\ pc' = "sigpipe"
        /\ UNCHANGED <<pstate, app_id, k, rc, sock>>
  /\ UNCHANGED <<envVars, caller_id, protocol_name, c2s, s2c, torn, desynced, cur,
                 frame, last, srvVars, sent, destroyed>>

----------------------------------------------------------------------------
(* Sending a request *)

(* get_new_app makes a call only for a proxy without an application; as a  *)
(* mutant, the test left out.                                              *)
NeedsAppDropped(p) == TRUE
NeedsApp(p) == app_id[p] = NoApp

(* generate_hadoop_request.  GetNewApplicationRequestProto has no fields,  *)
(* so its encoding has length 0, which pbc_wmessage_string takes for "use  *)
(* strlen": what is sent as the request is what the fresh buffer holds.    *)
RequestBytes == {"empty", "garbage"}

(* generate_request_header leaves the header NULL when its type is missing.*)
HeaderBytes == IF "RpcPayloadHeaderProto" \in env THEN "ok" ELSE "null"

(* The caller goes on with a header that could not be generated; its length*)
(* is whatever the stack held, and a negative one overruns the buffer of   *)
(* the varint.                                                             *)
AfterHeader(hdr) == IF hdr = "ok" THEN {"send"} ELSE {"send", "overrun"}

(* get_new_app up to the first write: the request is generated.            *)
GetNewApp(p) ==
  /\ \/ /\ ~NeedsApp(p)
        /\ rc' = -1
        /\ UNCHANGED <<pc, cur, k, frame>>
     \/ /\ NeedsApp(p)
        /\ env = NULL \/ "GetNewApplicationRequestProto" \notin env
        /\ pc' = "nullderef"
        /\ UNCHANGED <<cur, k, frame, rc>>
     \/ /\ NeedsApp(p)
        /\ env # NULL /\ "GetNewApplicationRequestProto" \in env
        /\ "HadoopRpcRequestProto" \notin env
        /\ rc' = -1
        /\ UNCHANGED <<pc, cur, k, frame>>
     \/ /\ NeedsApp(p)
        /\ env # NULL
        /\ {"GetNewApplicationRequestProto", "HadoopRpcRequestProto"} \subseteq env
        /\ \E req \in RequestBytes :
             frame' = [callId |-> caller_id[p], hdr |-> HeaderBytes, req |-> req]
        /\ pc' \in AfterHeader(HeaderBytes)
        /\ cur' = p /\ k' = 0
        /\ UNCHANGED rc
  /\ UNCHANGED <<envVars, proxyVars, netVars, last, srvVars, sent, destroyed>>

(* The context of the application is not looked at. *)
SubmitApplication(p) ==
  /\ pc = "idle"
  /\ pstate[p] = "live" /\ p \notin destroyed
  /\ caller_id[p] < MaxCalls
  /\ GetNewApp(p)

RequestWrites == 5  \* total length, header vint, header, request vint, request

(* A call that ends without an application id. *)
CallFails(p, how) ==
  /\ pc' = "idle" /\ k' = 0 /\ rc' = -1
  /\ last' = [last EXCEPT ![p] = how]

(* The whole frame is out: the server sees it unless an earlier one was    *)
(* left incomplete, this one has no header, or nobody reads any more.      *)
FrameWritten ==
  /\ sent' = [sent EXCEPT ![cur] = Append(@, frame.callId)]
  /\ IF frame.hdr = "ok" /\ cur \notin torn
     THEN /\ c2s' = [c2s EXCEPT ![cur] = IF sock[cur] = "open" THEN Append(@, frame) ELSE @]
          /\ UNCHANGED torn
     ELSE torn' = torn \cup {cur} /\ UNCHANGED c2s

(* caller_id++; as mutants, forgotten, and counting down *)
NextCallerIdKept(c) == c
NextCallerIdDown(c) == c - 1
NextCallerId(c) == c + 1

(* write_request and the increment of caller_id in send_rpc_request. *)
SendRpcRequest ==
  /\ pc = "send"
  /\ \/ /\ WriteOk(cur)
        /\ IF k + 1 = RequestWrites
           THEN /\ FrameWritten
                /\ caller_id' = [caller_id EXCEPT ![cur] = NextCallerId(@)]
                /\ pc' = "hlen" /\ k' = 0
           ELSE /\ k' = k + 1
                /\ UNCHANGED <<sent, c2s, torn, caller_id, pc>>
        /\ UNCHANGED <<sock, rc, last>>
     \/ /\ WriteFails(cur)
        /\ \/ torn' = torn \cup {cur}       \* bytes of the frame are out
           \/ k = 0 /\ UNCHANGED torn
        /\ CallFails(cur, "send")
        /\ UNCHANGED <<sent, c2s, caller_id>>
     \/ /\ WriteKills(cur)
        /\ pc' = "sigpipe"
        /\ UNCHANGED <<sent, c2s, torn, caller_id, k, sock, rc, last>>
  /\ UNCHANGED <<envVars, pstate, protocol_name, app_id, s2c, desynced, cur, frame,
                 srvVars, destroyed>>

----------------------------------------------------------------------------
(* Receiving a response *)

(* A reply is read in parts: header length, header, then size and payload, *)
(* or length and text of the exception class and of the stack trace.       *)
Parts(kind) == CASE kind \in {"error", "fatal"} -> 6
                 [] kind = "empty" -> 3
                 [] OTHER -> 4

(* Part n (from 0) of the reply being read has arrived. *)
Avail(p, n) == s2c[p] # <<>> /\ Head(s2c[p]).have > n

(* A call ends with n parts of the reply consumed; if that is not all of   *)
(* them the next call starts reading in the middle.                        *)
Consumed(p, n) ==
  IF n = Parts(Head(s2c[p]).kind)
  THEN s2c' = [s2c EXCEPT ![p] = Tail(@)] /\ UNCHANGED desynced
  ELSE desynced' = desynced \cup {p} /\ UNCHANGED s2c

(* read_raw_varint32 of the header length *)
RecvHeaderLength ==
  /\ pc = "hlen" /\ cur \notin desynced
  /\ Avail(cur, 0)
  /\ pc' = "header"
  /\ UNCHANGED <<envVars, proxyVars, netVars, cur, k, frame, rc, last, srvVars, sent,
                 destroyed>>

(* The test of the callId of a response; as a mutant, left out. *)
CallIdMatchesDropped(r) == TRUE
CallIdMatches(r) == r.callId = caller_id[cur] - 1

(* recv_rpc_response from the header to the decision what follows. *)
RecvHeader ==
  /\ pc = "header"
  /\ Avail(cur, 1)
  /\ LET r == Head(s2c[cur]) IN
     \/ /\ \/ r.kind = "badheader" \/ "RpcResponseHeaderProto" \notin env
           \/ ~CallIdMatches(r)
        /\ Consumed(cur, 2)
        /\ CallFails(cur, "other")
     \/ /\ r.kind # "badheader" /\ "RpcResponseHeaderProto" \in env
        /\ CallIdMatches(r)
        /\ \/ /\ r.kind = "fatal"
              /\ Consumed(cur, 2)
              /\ CallFails(cur, "fatal")
           \/ /\ r.kind # "fatal"
              /\ pc' = IF r.kind = "error" THEN "exc" ELSE "size"
              /\ UNCHANGED <<s2c, desynced, k, rc, last>>
  /\ UNCHANGED <<envVars, proxyVars, sock, c2s, torn, cur, frame, srvVars, sent, destroyed>>

(* The size of the payload, with one plain read; zero is taken for an error. *)
RecvSize ==
  /\ pc = "size"
  /\ Avail(cur, 2)
  /\ \/ /\ Head(s2c[cur]).kind = "empty"
        /\ Consumed(cur, 3)
        /\ CallFails(cur, "other")
     \/ /\ Head(s2c[cur]).kind # "empty"
        /\ pc' = "payload"
        /\ UNCHANGED <<s2c, desynced, k, rc, last>>
  /\ UNCHANGED <<envVars, proxyVars, sock, c2s, torn, cur, frame, srvVars, sent, destroyed>>

(* The payload, and what get_new_app makes of it: a missing application_id *)
(* reads as the default message, whose id is 0.                            *)
RecvPayload ==
  /\ pc = "payload"
  /\ Avail(cur, 3)
  /\ Consumed(cur, 4)
  /\ LET r == Head(s2c[cur]) IN
     \/ /\ r.kind = "badpayload" \/ "GetNewApplicationResponseProto" \notin env
        /\ CallFails(cur, "decode")
        /\ UNCHANGED app_id
     \/ /\ r.kind # "badpayload" /\ "GetNewApplicationResponseProto" \in env
        /\ app_id' = [app_id EXCEPT ![cur] = IF r.kind = "noid" THEN 0 ELSE r.id]
        /\ pc' = "idle" /\ k' = 0 /\ rc' = 0
        /\ last' = [last EXCEPT ![cur] = "succeed"]
  /\ UNCHANGED <<envVars, pstate, caller_id, protocol_name, sock, c2s, torn, cur, frame,
                 srvVars, sent, destroyed>>

(* read_exception reads length and text of the class, length and text of   *)
(* the stack; as mutants, the stack left out, and one read too many.       *)
ExceptionReadsClassOnly == 2
ExceptionReadsExtra == 5
ExceptionReads == 4

(* read_exception, called through process_bad_rpc_response. *)
ReadException ==
  /\ pc = "exc"
  /\ Avail(cur, 2 + k)
  /\ \/ /\ k + 1 < ExceptionReads
        /\ k' = k + 1
        /\ UNCHANGED <<s2c, desynced, pc, rc, last>>
     \/ /\ k + 1 = ExceptionReads
        /\ Consumed(cur, 2 + ExceptionReads)
        /\ CallFails(cur, "error")
  /\ UNCHANGED <<envVars, proxyVars, sock, c2s, torn, cur, frame, srvVars, sent, destroyed>>

(* The part of the reply the client is waiting for. *)
Awaited == CASE pc = "hlen" -> 0 [] pc = "header" -> 1 [] pc = "size" -> 2
             [] pc = "payload" -> 3 [] pc = "exc" -> 2 + k [] OTHER -> 0

Starved == pc \in {"hlen", "header", "size", "payload", "exc"} /\ ~Avail(cur, Awaited)

(* A read returns -1. *)
ReadFails(p) == WriteFails(p)

(* read_all reports a failed read: the call ends in the middle of a reply. *)
ReadAllFails ==
  /\ pc \in {"header", "payload", "exc"} /\ Starved
  /\ ReadFails(cur)
  /\ desynced' = desynced \cup {cur}
  /\ CallFails(cur, "other")
  /\ UNCHANGED <<envVars, proxyVars, c2s, s2c, torn, cur, frame, srvVars, sent, destroyed>>

(* read_all at the end of the stream: read returns 0 for ever. *)
ReadAllSpins ==
  /\ \/ pc \in {"header", "payload", "exc"} /\ Starved
     \/ pc = "garbage"
  /\ sock[cur] \in {"fin", "dead"}
  /\ pc' = "spin"
  /\ UNCHANGED <<envVars, proxyVars, netVars, cur, k, frame, rc, last, srvVars, sent,
                 destroyed>>

(* The plain reads of the header length and of the payload size do not look*)
(* at their result: on failure, at the end of the stream and after a short *)
(* read the length is made of uninitialised bytes.                         *)
RecvBogusLength ==
  /\ pc \in {"hlen", "size"}
  /\ \/ Starved /\ ReadFails(cur)
     \/ Starved /\ sock[cur] \in {"fin", "dead"} /\ UNCHANGED sock
     \/ pc = "size" /\ ~Starved /\ "short" \in Faults /\ UNCHANGED sock
  /\ desynced' = desynced \cup {cur}
  /\ \/ CallFails(cur, "other")
     \/ pc' = "garbage" /\ UNCHANGED <<k, rc, last>>
  /\ UNCHANGED <<envVars, proxyVars, c2s, s2c, torn, cur, frame, srvVars, sent, destroyed>>

(* The client reads in the middle of a message, or a length it made up:    *)
(* any response type can come out, even a success.                         *)
RecvGarbage ==
  /\ \/ pc = "hlen" /\ cur \in desynced
     \/ pc = "garbage"
  /\ s2c[cur] # <<>> \/ sock[cur] # "open"
  /\ \/ CallFails(cur, "other") /\ UNCHANGED app_id
     \/ /\ \E id \in 0..MaxId : app_id' = [app_id EXCEPT ![cur] = id]
        /\ pc' = "idle" /\ k' = 0 /\ rc' = 0
        /\ last' = [last EXCEPT ![cur] = "luck"]
  /\ UNCHANGED <<envVars, pstate, caller_id, protocol_name, netVars, cur, frame, srvVars,
                 sent, destroyed>>

(* read_all keeps calling read at the end of the stream. *)
Spin == pc = "spin" /\ UNCHANGED vars

----------------------------------------------------------------------------
(* destory_hadoop_rpc_proxy and destory_pb_env have empty bodies.  The     *)
(* application does not use a proxy it has destroyed.                      *)
DestoryProxy(p) ==
  /\ pc = "idle" /\ pstate[p] = "live"
  /\ destroyed' = destroyed \cup {p}
  /\ UNCHANGED <<envVars, proxyVars, netVars, callVars, srvVars, sent>>

DestoryPbEnv == pc = "idle" /\ UNCHANGED vars

----------------------------------------------------------------------------
(* External: the servers and the network *)

(* A server answers the oldest request.  Application ids are not reused.   *)
(* The connection is closed after a fatal error.                           *)
ServerReplies(p, kind) ==
  /\ sock[p] = "open" /\ c2s[p] # <<>>
  /\ kind \in ReplyKinds
  /\ kind = "ok" => nextId <= MaxId
  /\ c2s' = [c2s EXCEPT ![p] = Tail(@)]
  /\ \E have \in 0..Parts(kind) :
       /\ s2c' = [s2c EXCEPT ![p] = Append(@, [callId |-> Head(c2s[p]).callId,
                                               kind |-> kind, id |-> nextId, have |-> have])]
       /\ \/ have = Parts(kind) /\ kind # "fatal" /\ UNCHANGED sock
          \/ have = Parts(kind) /\ kind = "fatal" /\ sock' = [sock EXCEPT ![p] = "fin"]
          \/ /\ have < Parts(kind)
             /\ \E how \in Faults \cap {"fin", "rst"} : sock' = [sock EXCEPT ![p] = how]
  /\ IF kind = "ok" THEN /\ issued' = issued \cup {<<nextId, p, Head(c2s[p]).callId>>}
                         /\ nextId' = nextId + 1
                    ELSE UNCHANGED srvVars
  /\ UNCHANGED <<envVars, proxyVars, torn, desynced, callVars, sent, destroyed>>

(* A server answers an earlier call of the proxy once more. *)
ServerRepeats(p, c) ==
  /\ "dup" \in Faults
  /\ sock[p] = "open" /\ nextId <= MaxId
  /\ \E i \in DOMAIN sent[p] : sent[p][i] = c
  /\ c2s[p] = <<>>
  /\ s2c' = [s2c EXCEPT ![p] = Append(@, [callId |-> c, kind |-> "ok", id |-> nextId,
                                          have |-> Parts("ok")])]
  /\ issued' = issued \cup {<<nextId, p, c>>}
  /\ nextId' = nextId + 1
  /\ UNCHANGED <<envVars, proxyVars, sock, c2s, torn, desynced, callVars, sent, destroyed>>

PeerCloses(p) ==
  /\ \/ sock[p] = "open" /\ \E how \in Faults \cap {"fin", "rst"} :
                               sock' = [sock EXCEPT ![p] = how]
     \/ sock[p] = "fin" /\ "rst" \in Faults /\ sock' = [sock EXCEPT ![p] = "rst"]
  /\ UNCHANGED <<envVars, proxyVars, c2s, s2c, torn, desynced, callVars, srvVars, sent,
                 destroyed>>

----------------------------------------------------------------------------
(* The steps of a call in progress. *)
ClientStep ==
  \/ ConnectToServer \/ WriteConnectionHeader \/ SendRpcRequest
  \/ RecvHeaderLength \/ RecvHeader \/ RecvSize \/ RecvPayload \/ ReadException
  \/ ReadAllFails \/ ReadAllSpins \/ RecvBogusLength \/ RecvGarbage \/ Spin

ApiCall ==
  \/ \E d \in Dirs, v \in Versions : InitPbEnv(d, v)
  \/ \E p \in Proxies, a \in ProxyArgs : NewProxy(p, a)
  \/ \E p \in Proxies : SubmitApplication(p)
  \/ \E p \in Proxies : DestoryProxy(p)
  \/ DestoryPbEnv

ServerStep(p) ==
  \/ \E kind \in ReplyKinds : ServerReplies(p, kind)
  \/ \E c \in 0..MaxCalls : ServerRepeats(p, c)
  \/ PeerCloses(p)

Next == ApiCall \/ ClientStep \/ \E p \in Proxies : ServerStep(p)

Spec == Init /\ [][Next]_vars

(* The thread of a call in progress runs, and a server answers a request it*)
(* has received.                                                           *)
Fairness ==
  /\ WF_vars(ClientStep)
  /\ \A p \in Proxies : WF_vars(\E kind \in ReplyKinds : ServerReplies(p, kind))

FairSpec == Spec /\ Fairness

----------------------------------------------------------------------------
(* Properties *)

Stages == {"idle", "connect", "hdr", "send", "hlen", "header", "size", "payload", "exc",
           "garbage", "spin"}
Crashes == {"nullderef", "overrun", "badfree", "sigpipe"}

Frames == [callId : Nat, hdr : {"ok", "null"}, req : {"empty", "garbage"}]
Replies == [callId : Nat, kind : AllKinds, id : Nat, have : 0..6]

EnvTypeOK ==
  /\ env = NULL \/ env \in SUBSET Types
  /\ is_env_initialize = TRUE \/ is_env_initialize = FALSE
  /\ hadoop_version \in Versions \cup {NULL}
  /\ inits \in Nat

ProxyTypeOK ==
  /\ pstate \in [Proxies -> {"none", "opening", "live", "gone"}]
  /\ caller_id \in [Proxies -> Nat]
  /\ protocol_name \in [Proxies -> {NULL, "ContainerManager", "ClientRMProtocol",
                                    "AMRMProtocol"}]
  /\ app_id \in [Proxies -> Nat \cup {NoApp}]

NetTypeOK ==
  /\ sock \in [Proxies -> {"none", "new", "open", "fin", "rst", "dead"}]
  /\ c2s \in [Proxies -> Seq(Frames)]
  /\ s2c \in [Proxies -> Seq(Replies)]
  /\ torn \in SUBSET Proxies /\ desynced \in SUBSET Proxies

CallTypeOK ==
  /\ pc \in Stages \cup Crashes
  /\ cur \in Proxies
  /\ k \in 0..5
  /\ pc = "send" => k < 5
  /\ pc = "exc" => k < 4
  /\ pc \in {"hlen", "header"} => k = 0
  /\ frame \in Frames
  /\ rc \in {-1, 0, 1}
  /\ last \in [Proxies -> {"none", "send", "other", "fatal", "error", "decode",
                           "succeed", "luck"}]

HistoryTypeOK ==
  /\ sent \in [Proxies -> Seq(Nat)]
  /\ nextId \in Nat \ {0}
  /\ issued \in SUBSET (Nat \X Proxies \X Nat)
  /\ destroyed \in SUBSET Proxies

TypeOK == EnvTypeOK /\ ProxyTypeOK /\ NetTypeOK /\ CallTypeOK /\ HistoryTypeOK

(* get_new_app never stores another call's application: as long as the     *)
(* proxy's incoming stream is in frame, an id other than the default 0 was *)
(* handed out by the server for this proxy and for the last call made on   *)
(* it, however many stale answers were on the wire.                        *)
AppIdFromOwnCall ==
  \A p \in Proxies :
    app_id[p] \notin {NoApp, 0} /\ p \notin desynced
      => <<app_id[p], p, caller_id[p] - 1>> \in issued

(* The callIds of the complete frames of a proxy are strictly increasing   *)
(* and stay below caller_id, through failed sends and retries.             *)
CallIdsIncrease ==
  \A p \in Proxies :
    /\ \A i \in DOMAIN sent[p] : sent[p][i] < caller_id[p]
    /\ \A i, j \in DOMAIN sent[p] : i < j => sent[p][i] < sent[p][j]

(* A proxy that is not open yet has made no call, one in a call is open    *)
(* and has no application; a frame being written carries the next callId.  *)
CallsOfOpenProxies ==
  /\ \A p \in Proxies : pstate[p] \in {"none", "opening"} =>
                          app_id[p] = NoApp /\ caller_id[p] = 0 /\ sent[p] = <<>>
  /\ pc \in {"connect", "hdr"} => pstate[cur] = "opening"
  /\ pc \in {"send", "hlen", "header", "size", "payload", "exc", "garbage"} =>
       pstate[cur] = "live" /\ app_id[cur] = NoApp
  /\ pc = "send" => frame.callId = caller_id[cur]

(* What is on the wire belongs to calls made: requests and replies have    *)
(* callIds below caller_id, and the id in a reply was handed out for the   *)
(* call the reply names.                                                   *)
WireMatchesCalls ==
  \A p \in Proxies :
    /\ \A i \in 1..Len(c2s[p]) : c2s[p][i].callId < caller_id[p]
    /\ \A i \in 1..Len(s2c[p]) :
         s2c[p][i].kind = "ok" => <<s2c[p][i].id, p, s2c[p][i].callId>> \in issued

(* Application ids are handed out once, and at most MaxId of them. *)
IssuedBelowNext ==
  /\ nextId <= MaxId + 1
  /\ \A h \in issued : h[1] < nextId

(* Past the header of a reply the stream is in frame, the reply is the one *)
(* of the latest call and of the kind the parts being read belong to.      *)
ReadingOwnReply ==
  /\ pc \in {"header", "size", "payload", "exc"} => cur \notin desynced
  /\ pc \in {"size", "payload", "exc"} =>
       /\ s2c[cur] # <<>>
       /\ Head(s2c[cur]).callId = caller_id[cur] - 1
  /\ pc = "garbage" => cur \in desynced
  /\ pc = "size" => Head(s2c[cur]).kind \in {"ok", "noid", "empty", "badpayload"}
  /\ pc = "payload" => Head(s2c[cur]).kind \in {"ok", "noid", "badpayload"}
  /\ pc = "exc" => Head(s2c[cur]).kind = "error"

(* The inductive invariant. *)
IndInv ==
  /\ TypeOK
  /\ CallsOfOpenProxies
  /\ CallIdsIncrease
  /\ WireMatchesCalls
  /\ IssuedBelowNext
  /\ ReadingOwnReply
  /\ AppIdFromOwnCall

(* When a call ended with a success or with a server exception that was    *)
(* read, recv_rpc_response and read_exception consumed the whole reply: the*)
(* next call on the proxy starts at the beginning of one.                  *)
ReplyConsumed ==
  pc = "idle" => \A p \in Proxies :
                   last[p] \in {"succeed", "error", "decode"} => p \notin desynced

(* With a complete environment and sockets that do not fail the process    *)
(* never crashes: no lookup in a missing environment, no unset length, no  *)
(* invalid free and no SIGPIPE.                                            *)
NoCrash == pc \notin Crashes

(* An application id, once stored in a proxy, is not replaced. *)
AppIdWriteOnce ==
  [][\A p \in Proxies : pstate[p] = "live" /\ app_id[p] # NoApp => app_id'[p] = app_id[p]]_vars

(* A call that starts on a connection in frame comes back: it neither      *)
(* waits for bytes the server will not send nor spins.                     *)
CleanCallReturns ==
  \A p \in Proxies :
    (pc = "send" /\ cur = p /\ sock[p] = "open" /\ p \notin torn \cup desynced)
      ~> pc = "idle"

(* A proxy with a socket has an environment to look messages up in: no    *)
(* sequence of initialisations, failed, repeated or with other directories,*)
(* leaves the null pointer where an open proxy would use it.               *)
EnvOfOpenProxies == \A p \in Proxies : sock[p] # "none" => env # NULL

(* The client implements the abstract service AppIdService: through frames,*)
(* repeated answers and failures a proxy obtains at most one id, and only  *)
(* one that was handed out for its latest call.                            *)
Service == INSTANCE AppIdService
             WITH app <- app_id, calls <- caller_id, handed <- issued, lost <- desynced,
                  Ids <- 0..MaxId

ImplementsService == Service!SSpec

----------------------------------------------------------------------------
(* What comments and messages of the code say and the code does not do. *)

(* "env is already initialized": after a successful init_pb_env the        *)
(* environment holds the types of a directory that was loaded.             *)
EnvStaysLoaded ==
  is_env_initialize => \E d \in Dirs : Load[d].count > 0 /\ env = Load[d].types

(* "request: GetAllApplicationRequest.getBytes()": the request field of a  *)
(* frame is the encoding of the request message.                           *)
RequestIsEncoded == pc = "send" => frame.req = "empty"
=============================================================================
