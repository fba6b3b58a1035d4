-------------------------- MODULE HadoopRpcProofs --------------------------
(***************************************************************************)
(* Proofs about HadoopRpc for every number of proxies, every set of        *)
(* directories, answers and faults, and every bound: the ids of the        *)
(* proxies, what a call leaves behind on its connection, the environment   *)
(* of open proxies, and when the process cannot crash.                     *)
(***************************************************************************)
EXTENDS HadoopRpc, SequenceTheorems, TLAPS

(* A reply has three to six parts. *)
LEMMA PartsBound == \A kind : Parts(kind) \in 3..6
BY DEF Parts

----------------------------------------------------------------------------
(* Type correctness, one lemma per group of variables: a group that a step *)
(* leaves alone stays of its type.                                         *)

LEMMA TypeInit == Init => TypeOK
BY DEF Init, TypeOK, EnvTypeOK, ProxyTypeOK, NetTypeOK, CallTypeOK, HistoryTypeOK,
       NoApp, Frames, Stages

(* Only init_pb_env changes the environment. *)
LEMMA EnvType == EnvTypeOK /\ [Next]_vars => EnvTypeOK'
<1> SUFFICES ASSUME EnvTypeOK, [Next]_vars PROVE EnvTypeOK'
  OBVIOUS
<1>1. ASSUME NEW d \in Dirs, NEW v \in Versions, InitPbEnv(d, v)
      PROVE  EnvTypeOK'
  <2>1. Load[d] \in [count : Int, types : SUBSET Types]
    BY LoadAssumption
  <2>2. env' = NULL \/ env' \in SUBSET Types
    BY <1>1, <2>1 DEF InitPbEnv
  <2>3. QED
    BY <1>1, <2>2 DEF EnvTypeOK, InitPbEnv, AlreadyInit
<1>2. UNCHANGED envVars => EnvTypeOK'
  BY DEF EnvTypeOK, envVars
<1>3. ~(\E d \in Dirs, v \in Versions : InitPbEnv(d, v)) => UNCHANGED envVars
  BY DEF Next, ApiCall, ClientStep, ServerStep, vars, NewProxy, SubmitApplication,
         GetNewApp, DestoryProxy, DestoryPbEnv, ConnectToServer, WriteConnectionHeader,
         SendRpcRequest, RecvHeaderLength, RecvHeader, RecvSize, RecvPayload,
         ReadException, ReadAllFails, ReadAllSpins, RecvBogusLength, RecvGarbage, Spin,
         ServerReplies, ServerRepeats, PeerCloses
<1>4. QED
  BY <1>1, <1>2, <1>3

(* The head of a non-empty queue and the rest of it. *)
LEMMA QueueType ==
  ASSUME NEW T, NEW q \in [Proxies -> Seq(T)], NEW p \in Proxies, q[p] # <<>>
  PROVE  Head(q[p]) \in T /\ [q EXCEPT ![p] = Tail(@)] \in [Proxies -> Seq(T)]
<1>1. q[p] \in Seq(T)
  OBVIOUS
<1>2. Head(q[p]) \in T /\ Tail(q[p]) \in Seq(T)
  BY <1>1, HeadTailProperties
<1>3. QED
  BY <1>2

LEMMA ProxyType == TypeOK /\ [Next]_vars => ProxyTypeOK'
<1> SUFFICES ASSUME TypeOK, [Next]_vars PROVE ProxyTypeOK'
  OBVIOUS
<1> USE DEF TypeOK, ProxyTypeOK
<1>1. ASSUME NEW p \in Proxies, NEW a \in ProxyArgs, NewProxy(p, a)
      PROVE  ProxyTypeOK'
  <2>1. a \in [host : {"host", NULL}, client : ClientTypes, server : ServerTypes]
    BY ArgsAssumption
  <2>2. a.server \notin {"NN", "DN"} =>
          ProtocolName(a) \in {"ContainerManager", "ClientRMProtocol", "AMRMProtocol"}
    BY <2>1 DEF ProtocolName, ServerTypes, ClientTypes
  <2>3. QED
    BY <1>1, <2>2 DEF NewProxy
<1>2. ConnectToServer => ProxyTypeOK'
  BY DEF ConnectToServer, OpenFails
<1>3. WriteConnectionHeader => ProxyTypeOK'
  BY DEF WriteConnectionHeader, OpenFails
<1>4. SendRpcRequest => ProxyTypeOK'
  BY DEF SendRpcRequest, NextCallerId
<1>5. RecvPayload => ProxyTypeOK'
  <2>1. RecvPayload => Head(s2c[cur]) \in Replies
    <3>1. RecvPayload => s2c[cur] # <<>>
      BY DEF RecvPayload, Avail
    <3>2. s2c \in [Proxies -> Seq(Replies)] /\ cur \in Proxies
      BY DEF NetTypeOK, CallTypeOK
    <3>3. QED
      BY <3>1, <3>2, QueueType
  <2>2. QED
    BY <2>1 DEF RecvPayload, Replies
<1>6. RecvGarbage => ProxyTypeOK'
  BY BoundsAssumption DEF RecvGarbage
<1>7. UNCHANGED proxyVars => ProxyTypeOK'
  BY DEF proxyVars
<1>8. QED
  BY <1>1, <1>2, <1>3, <1>4, <1>5, <1>6, <1>7
     DEF Next, ApiCall, ClientStep, ServerStep, vars, InitPbEnv, SubmitApplication,
         GetNewApp, DestoryProxy, DestoryPbEnv, RecvHeaderLength, RecvHeader, RecvSize,
         ReadException, ReadAllFails, ReadAllSpins, RecvBogusLength, Spin,
         ServerReplies, ServerRepeats, PeerCloses

(* Consuming parts of a reply drops it or puts the proxy out of frame. *)
LEMMA ConsumedType ==
  ASSUME NetTypeOK, NEW p \in Proxies, NEW n, s2c[p] # <<>>, Consumed(p, n)
  PROVE  s2c' \in [Proxies -> Seq(Replies)] /\ desynced' \in SUBSET Proxies
<1>1. [s2c EXCEPT ![p] = Tail(@)] \in [Proxies -> Seq(Replies)]
  BY QueueType DEF NetTypeOK
<1>2. QED
  BY <1>1 DEF NetTypeOK, Consumed

LEMMA NetType == TypeOK /\ [Next]_vars => NetTypeOK'
<1> SUFFICES ASSUME TypeOK, [Next]_vars PROVE NetTypeOK'
  OBVIOUS
<1> USE DEF TypeOK
<1>1. (\E p \in Proxies, a \in ProxyArgs : NewProxy(p, a)) => NetTypeOK'
  BY DEF NewProxy, NetTypeOK
<1>2. ConnectToServer => NetTypeOK'
  BY DEF ConnectToServer, NetTypeOK
<1>3. WriteConnectionHeader => NetTypeOK'
  BY DEF WriteConnectionHeader, WriteFails, NetTypeOK
<1>4. ASSUME SendRpcRequest PROVE NetTypeOK'
  <2>1. sock' \in [Proxies -> {"none", "new", "open", "fin", "rst", "dead"}]
    BY <1>4 DEF SendRpcRequest, WriteFails, NetTypeOK
  <2>2. c2s[cur] \in Seq(Frames) /\ Append(c2s[cur], frame) \in Seq(Frames)
    BY DEF NetTypeOK, CallTypeOK
  <2>3. c2s' \in [Proxies -> Seq(Frames)]
    BY <1>4, <2>2 DEF SendRpcRequest, FrameWritten, NetTypeOK
  <2>4. QED
    BY <1>4, <2>1, <2>3 DEF SendRpcRequest, FrameWritten, NetTypeOK, CallTypeOK
<1>5. RecvHeader => NetTypeOK'
  BY ConsumedType DEF RecvHeader, Avail, NetTypeOK, CallTypeOK
<1>6. RecvSize => NetTypeOK'
  BY ConsumedType DEF RecvSize, Avail, NetTypeOK, CallTypeOK
<1>7. RecvPayload => NetTypeOK'
  BY ConsumedType DEF RecvPayload, Avail, NetTypeOK, CallTypeOK
<1>8. ReadException => NetTypeOK'
  BY ConsumedType DEF ReadException, Avail, NetTypeOK, CallTypeOK
<1>9. ReadAllFails => NetTypeOK'
  BY DEF ReadAllFails, ReadFails, WriteFails, NetTypeOK, CallTypeOK
<1>10. RecvBogusLength => NetTypeOK'
  BY DEF RecvBogusLength, ReadFails, WriteFails, NetTypeOK, CallTypeOK
<1>11. ASSUME NEW p \in Proxies, NEW kind \in ReplyKinds, ServerReplies(p, kind)
       PROVE  NetTypeOK'
  <2>1. kind \in AllKinds
    BY ArgsAssumption
  <2>2. Head(c2s[p]) \in Frames /\ [c2s EXCEPT ![p] = Tail(@)] \in [Proxies -> Seq(Frames)]
    <3>1. c2s[p] # <<>> /\ c2s \in [Proxies -> Seq(Frames)]
      BY <1>11 DEF ServerReplies, NetTypeOK
    <3>2. QED
      BY <3>1, QueueType
  <2>3. \A have \in 0..Parts(kind) :
          [callId |-> Head(c2s[p]).callId, kind |-> kind, id |-> nextId, have |-> have]
            \in Replies
    <3>1. Parts(kind) \in 3..6
      BY PartsBound
    <3>2. \A have \in 0..Parts(kind) : have \in 0..6
      BY <3>1
    <3>3. Head(c2s[p]).callId \in Nat /\ nextId \in Nat
      BY <2>2 DEF Frames, HistoryTypeOK
    <3>4. QED
      BY <2>1, <3>2, <3>3 DEF Replies
  <2>4. s2c' \in [Proxies -> Seq(Replies)]
    <3>1. \A r \in Replies : [s2c EXCEPT ![p] = Append(@, r)] \in [Proxies -> Seq(Replies)]
      BY DEF NetTypeOK
    <3>2. QED
      BY <1>11, <2>3, <3>1 DEF ServerReplies
  <2>5. sock' \in [Proxies -> {"none", "new", "open", "fin", "rst", "dead"}]
    BY <1>11 DEF ServerReplies, NetTypeOK
  <2>6. c2s' \in [Proxies -> Seq(Frames)]
    BY <1>11, <2>2 DEF ServerReplies, NetTypeOK
  <2>7. QED
    BY <1>11, <2>4, <2>5, <2>6 DEF ServerReplies, NetTypeOK
<1>12. ASSUME NEW p \in Proxies, NEW c \in 0..MaxCalls, ServerRepeats(p, c)
       PROVE  NetTypeOK'
  <2>1. [callId |-> c, kind |-> "ok", id |-> nextId, have |-> Parts("ok")] \in Replies
    BY PartsBound, BoundsAssumption DEF Replies, AllKinds, HistoryTypeOK
  <2>2. QED
    BY <1>12, <2>1 DEF ServerRepeats, NetTypeOK
<1>13. (\E p \in Proxies : PeerCloses(p)) => NetTypeOK'
  BY DEF PeerCloses, NetTypeOK
<1>14. UNCHANGED netVars => NetTypeOK'
  BY DEF netVars, NetTypeOK
<1>15. QED
  BY <1>1, <1>2, <1>3, <1>4, <1>5, <1>6, <1>7, <1>8, <1>9, <1>10, <1>11, <1>12, <1>13,
     <1>14
     DEF Next, ApiCall, ClientStep, ServerStep, vars, InitPbEnv, SubmitApplication,
         GetNewApp, DestoryProxy, DestoryPbEnv, RecvHeaderLength, ReadAllSpins,
         RecvGarbage, Spin

LEMMA CallType == TypeOK /\ [Next]_vars => CallTypeOK'
<1> SUFFICES ASSUME TypeOK, [Next]_vars PROVE CallTypeOK'
  OBVIOUS
<1> USE DEF TypeOK, CallTypeOK, CallFails, Stages
<1>1. ASSUME NEW d \in Dirs, NEW v \in Versions, InitPbEnv(d, v) PROVE CallTypeOK'
  BY <1>1 DEF InitPbEnv
<1>2. ASSUME NEW p \in Proxies, NEW a \in ProxyArgs, NewProxy(p, a) PROVE CallTypeOK'
  BY <1>2 DEF NewProxy
<1>3. ConnectToServer => CallTypeOK'
  BY DEF ConnectToServer, OpenFails
<1>4. WriteConnectionHeader => CallTypeOK'
  BY DEF WriteConnectionHeader, OpenFails, HeaderWrites, Crashes
<1>5. ASSUME NEW p \in Proxies, SubmitApplication(p) PROVE CallTypeOK'
  BY <1>5 DEF SubmitApplication, GetNewApp, NeedsApp, HeaderBytes, RequestBytes,
              AfterHeader, ProxyTypeOK, Crashes, Frames
<1>6. SendRpcRequest => CallTypeOK'
  BY DEF SendRpcRequest, RequestWrites, Crashes
<1>7. RecvHeaderLength => CallTypeOK'
  BY DEF RecvHeaderLength
<1>8. RecvHeader => CallTypeOK'
  BY DEF RecvHeader
<1>9. RecvSize => CallTypeOK'
  BY DEF RecvSize
<1>10. RecvPayload => CallTypeOK'
  BY DEF RecvPayload
<1>11. ReadException => CallTypeOK'
  BY DEF ReadException, ExceptionReads
<1>12. ReadAllFails => CallTypeOK'
  BY DEF ReadAllFails
<1>13. ReadAllSpins => CallTypeOK'
  BY DEF ReadAllSpins
<1>14. RecvBogusLength => CallTypeOK'
  BY DEF RecvBogusLength
<1>15. RecvGarbage => CallTypeOK'
  BY DEF RecvGarbage
<1>16. UNCHANGED callVars => CallTypeOK'
  BY DEF callVars
<1>17. QED
  BY <1>1, <1>2, <1>3, <1>4, <1>5, <1>6, <1>7, <1>8, <1>9, <1>10, <1>11, <1>12, <1>13,
     <1>14, <1>15, <1>16
     DEF Next, ApiCall, ClientStep, ServerStep, vars, DestoryProxy, DestoryPbEnv, Spin,
         ServerReplies, ServerRepeats, PeerCloses

LEMMA HistoryType == TypeOK /\ [Next]_vars => HistoryTypeOK'
<1> SUFFICES ASSUME TypeOK, [Next]_vars PROVE HistoryTypeOK'
  OBVIOUS
<1> USE DEF TypeOK, HistoryTypeOK
<1>1. SendRpcRequest => HistoryTypeOK'
  <2>1. cur \in Proxies /\ frame.callId \in Nat
    BY DEF CallTypeOK, Frames
  <2>2. QED
    <3>1. sent[cur] \in Seq(Nat) /\ Append(sent[cur], frame.callId) \in Seq(Nat)
      BY <2>1
    <3>2. [sent EXCEPT ![cur] = Append(@, frame.callId)] \in [Proxies -> Seq(Nat)]
      BY <2>1, <3>1
    <3>3. SendRpcRequest => sent' \in [Proxies -> Seq(Nat)]
      BY <3>2 DEF SendRpcRequest, FrameWritten
    <3>4. QED
      BY <3>3 DEF SendRpcRequest, srvVars
<1>2. ASSUME NEW p \in Proxies, DestoryProxy(p) PROVE HistoryTypeOK'
  BY <1>2 DEF DestoryProxy, srvVars
<1>3. ASSUME NEW p \in Proxies, NEW kind \in ReplyKinds, ServerReplies(p, kind)
      PROVE  HistoryTypeOK'
  <2>1. Head(c2s[p]).callId \in Nat
    <3>1. c2s[p] # <<>> /\ c2s \in [Proxies -> Seq(Frames)]
      BY <1>3 DEF ServerReplies, NetTypeOK
    <3>2. Head(c2s[p]) \in Frames
      BY <3>1, QueueType
    <3>3. QED
      BY <3>2 DEF Frames
  <2>2. QED
    BY <1>3, <2>1 DEF ServerReplies, srvVars
<1>4. ASSUME NEW p \in Proxies, NEW c \in 0..MaxCalls, ServerRepeats(p, c)
      PROVE  HistoryTypeOK'
  BY <1>4, BoundsAssumption DEF ServerRepeats
<1>5. UNCHANGED <<sent, srvVars, destroyed>> => HistoryTypeOK'
  BY DEF srvVars
<1>6. QED
  BY <1>1, <1>2, <1>3, <1>4, <1>5
     DEF Next, ApiCall, ClientStep, ServerStep, vars, InitPbEnv, NewProxy,
         SubmitApplication, GetNewApp, DestoryPbEnv, ConnectToServer,
         WriteConnectionHeader, RecvHeaderLength, RecvHeader, RecvSize, RecvPayload,
         ReadException, ReadAllFails, ReadAllSpins, RecvBogusLength, RecvGarbage, Spin,
         PeerCloses

LEMMA TypeStep == TypeOK /\ [Next]_vars => TypeOK'
BY EnvType, ProxyType, NetType, CallType, HistoryType DEF TypeOK

(* Every state of every instance is well typed: in particular caller_id and*)
(* the callIds on the wire stay natural numbers, and no handler leaves the *)
(* range of its sub-steps.                                                 *)
THEOREM TypeCorrect == Spec => []TypeOK
BY TypeInit, TypeStep, PTL DEF Spec

----------------------------------------------------------------------------
(* The inductive invariant, one lemma per conjunct *)

LEMMA IndInit == Init => IndInv
<1>1. Init => /\ CallsOfOpenProxies /\ CallIdsIncrease /\ WireMatchesCalls
              /\ IssuedBelowNext /\ ReadingOwnReply /\ AppIdFromOwnCall
  BY BoundsAssumption
     DEF Init, CallsOfOpenProxies, CallIdsIncrease, WireMatchesCalls, IssuedBelowNext,
         ReadingOwnReply, AppIdFromOwnCall
<1>2. QED
  BY <1>1, TypeInit DEF IndInv

LEMMA CallsOfOpenProxiesStep == IndInv /\ [Next]_vars => CallsOfOpenProxies'
<1> SUFFICES ASSUME IndInv, [Next]_vars PROVE CallsOfOpenProxies'
  OBVIOUS
<1>t. /\ cur \in Proxies
      /\ pstate \in [Proxies -> {"none", "opening", "live", "gone"}]
      /\ caller_id \in [Proxies -> Nat]
      /\ app_id \in [Proxies -> Nat \cup {NoApp}]
      /\ sent \in [Proxies -> Seq(Nat)]
  BY DEF IndInv, TypeOK, ProxyTypeOK, CallTypeOK, HistoryTypeOK
<1>c. CallsOfOpenProxies
  BY DEF IndInv
<1> USE DEF CallsOfOpenProxies, CallFails
<1>1. ASSUME NEW d \in Dirs, NEW v \in Versions, InitPbEnv(d, v)
      PROVE  CallsOfOpenProxies'
  BY <1>1, <1>c DEF InitPbEnv, proxyVars
<1>2. ASSUME NEW p \in Proxies, NEW a \in ProxyArgs, NewProxy(p, a)
      PROVE  CallsOfOpenProxies'
  BY <1>2, <1>c, <1>t DEF NewProxy
<1>3. ConnectToServer => CallsOfOpenProxies'
  BY <1>c, <1>t DEF ConnectToServer, OpenFails
<1>4. WriteConnectionHeader => CallsOfOpenProxies'
  BY <1>c, <1>t DEF WriteConnectionHeader, OpenFails
<1>5. ASSUME NEW p \in Proxies, SubmitApplication(p) PROVE CallsOfOpenProxies'
  BY <1>5, <1>c, <1>t DEF SubmitApplication, GetNewApp, NeedsApp, AfterHeader, proxyVars
<1>6. SendRpcRequest => CallsOfOpenProxies'
  BY <1>c, <1>t DEF SendRpcRequest, FrameWritten
<1>7. RecvHeaderLength => CallsOfOpenProxies'
  BY <1>c DEF RecvHeaderLength, proxyVars
<1>8. RecvHeader => CallsOfOpenProxies'
  BY <1>c DEF RecvHeader, proxyVars
<1>9. RecvSize => CallsOfOpenProxies'
  BY <1>c DEF RecvSize, proxyVars
<1>10. RecvPayload => CallsOfOpenProxies'
  BY <1>c, <1>t DEF RecvPayload
<1>11. ReadException => CallsOfOpenProxies'
  BY <1>c DEF ReadException, proxyVars
<1>12. ReadAllFails => CallsOfOpenProxies'
  BY <1>c DEF ReadAllFails, proxyVars
<1>13. ReadAllSpins => CallsOfOpenProxies'
  BY <1>c DEF ReadAllSpins, proxyVars
<1>14. RecvBogusLength => CallsOfOpenProxies'
  BY <1>c DEF RecvBogusLength, proxyVars
<1>15. RecvGarbage => CallsOfOpenProxies'
  BY <1>c, <1>t DEF RecvGarbage
<1>16. UNCHANGED <<proxyVars, sent, callVars>> => CallsOfOpenProxies'
  BY <1>c DEF proxyVars, callVars
<1>17. QED
  BY <1>1, <1>2, <1>3, <1>4, <1>5, <1>6, <1>7, <1>8, <1>9, <1>10, <1>11, <1>12, <1>13,
     <1>14, <1>15, <1>16
     DEF Next, ApiCall, ClientStep, ServerStep, vars, DestoryProxy, DestoryPbEnv, Spin,
         ServerReplies, ServerRepeats, PeerCloses

LEMMA CallIdsIncreaseStep == IndInv /\ [Next]_vars => CallIdsIncrease'
<1> SUFFICES ASSUME IndInv, [Next]_vars PROVE CallIdsIncrease'
  OBVIOUS
<1>t. /\ cur \in Proxies /\ frame.callId \in Nat
      /\ caller_id \in [Proxies -> Nat]
      /\ sent \in [Proxies -> Seq(Nat)]
  BY DEF IndInv, TypeOK, ProxyTypeOK, CallTypeOK, HistoryTypeOK, Frames
<1>c. CallIdsIncrease /\ CallsOfOpenProxies
  BY DEF IndInv
<1>1. ASSUME NEW p \in Proxies, NEW a \in ProxyArgs, NewProxy(p, a)
      PROVE  CallIdsIncrease'
  <2>1. caller_id' = caller_id /\ sent' = sent
    BY <1>1, <1>c, <1>t DEF NewProxy, CallsOfOpenProxies
  <2>2. QED
    BY <2>1, <1>c DEF CallIdsIncrease
<1>2. ASSUME SendRpcRequest PROVE CallIdsIncrease'
  <2>1. CASE UNCHANGED <<sent, caller_id>>
    BY <2>1, <1>c DEF CallIdsIncrease
  <2>2. CASE /\ FrameWritten
             /\ caller_id' = [caller_id EXCEPT ![cur] = NextCallerId(@)]
    <3>1. frame.callId = caller_id[cur]
      BY <1>2, <1>c DEF SendRpcRequest, CallsOfOpenProxies
    <3>2. sent' = [sent EXCEPT ![cur] = Append(@, caller_id[cur])]
      BY <2>2, <3>1 DEF FrameWritten
    <3>3. caller_id' = [caller_id EXCEPT ![cur] = @ + 1]
      BY <2>2 DEF NextCallerId
    <3>4. QED
      BY <3>2, <3>3, <1>c, <1>t DEF CallIdsIncrease
  <2>3. QED
    BY <1>2, <2>1, <2>2 DEF SendRpcRequest
<1>3. UNCHANGED <<sent, caller_id>> => CallIdsIncrease'
  BY <1>c DEF CallIdsIncrease
<1>4. QED
  BY <1>1, <1>2, <1>3
     DEF Next, ApiCall, ClientStep, ServerStep, vars, proxyVars, InitPbEnv,
         SubmitApplication, GetNewApp, DestoryProxy, DestoryPbEnv, ConnectToServer,
         WriteConnectionHeader, RecvHeaderLength, RecvHeader, RecvSize, RecvPayload,
         ReadException, ReadAllFails, ReadAllSpins, RecvBogusLength, RecvGarbage, Spin,
         ServerReplies, ServerRepeats, PeerCloses

(* The elements of a queue that stay when its head is taken. *)
LEMMA TailElements ==
  ASSUME NEW T, NEW s \in Seq(T), s # <<>>
  PROVE  /\ Len(Tail(s)) = Len(s) - 1
         /\ \A i \in 1..Len(Tail(s)) : i + 1 \in 1..Len(s) /\ Tail(s)[i] = s[i + 1]
BY HeadTailProperties

(* The elements of a queue that gets one more. *)
LEMMA AppendElements ==
  ASSUME NEW T, NEW s \in Seq(T), NEW e
  PROVE  \A i \in 1..Len(Append(s, e)) :
           \/ Append(s, e)[i] = e
           \/ i \in 1..Len(s) /\ Append(s, e)[i] = s[i]
OBVIOUS

(* Consuming parts of a reply only takes replies away. *)
LEMMA ConsumedWire ==
  ASSUME NetTypeOK, WireMatchesCalls, NEW p \in Proxies, NEW n, s2c[p] # <<>>,
         Consumed(p, n), UNCHANGED <<c2s, caller_id, issued>>
  PROVE  WireMatchesCalls'
<1>1. s2c \in [Proxies -> Seq(Replies)] /\ s2c[p] \in Seq(Replies)
  BY DEF NetTypeOK
<1>2. CASE s2c' = s2c
  BY <1>2 DEF WireMatchesCalls
<1>3. CASE s2c' = [s2c EXCEPT ![p] = Tail(@)]
  <2>1. \A q \in Proxies : q # p => s2c'[q] = s2c[q]
    BY <1>1, <1>3
  <2>2. s2c'[p] = Tail(s2c[p])
    BY <1>1, <1>3
  <2>3. \A i \in 1..Len(s2c'[p]) : i + 1 \in 1..Len(s2c[p]) /\ s2c'[p][i] = s2c[p][i + 1]
    BY <1>1, <2>2, TailElements
  <2>4. QED
    BY <2>1, <2>3 DEF WireMatchesCalls
<1>4. QED
  BY <1>2, <1>3 DEF Consumed

LEMMA WireMatchesCallsStep == IndInv /\ [Next]_vars => WireMatchesCalls'
<1> SUFFICES ASSUME IndInv, [Next]_vars PROVE WireMatchesCalls'
  OBVIOUS
<1>t. /\ NetTypeOK
      /\ cur \in Proxies /\ frame \in Frames
      /\ caller_id \in [Proxies -> Nat]
      /\ c2s \in [Proxies -> Seq(Frames)]
      /\ s2c \in [Proxies -> Seq(Replies)]
  BY DEF IndInv, TypeOK, ProxyTypeOK, NetTypeOK, CallTypeOK
<1>c. WireMatchesCalls /\ CallsOfOpenProxies
  BY DEF IndInv
<1>1. ASSUME NEW p \in Proxies, NEW a \in ProxyArgs, NewProxy(p, a)
      PROVE  WireMatchesCalls'
  <2>1. caller_id' = caller_id /\ UNCHANGED <<c2s, s2c, issued>>
    BY <1>1, <1>c, <1>t DEF NewProxy, CallsOfOpenProxies, srvVars
  <2>2. QED
    BY <2>1, <1>c DEF WireMatchesCalls
<1>2. ASSUME SendRpcRequest PROVE WireMatchesCalls'
  <2>0. UNCHANGED <<s2c, issued>>
    BY <1>2 DEF SendRpcRequest, srvVars
  <2>1. CASE UNCHANGED <<c2s, caller_id>>
    BY <2>0, <2>1, <1>c DEF WireMatchesCalls
  <2>2. CASE /\ FrameWritten
             /\ caller_id' = [caller_id EXCEPT ![cur] = NextCallerId(@)]
    <3>1. frame.callId = caller_id[cur]
      BY <1>2, <1>c DEF SendRpcRequest, CallsOfOpenProxies
    <3>2. caller_id' = [caller_id EXCEPT ![cur] = @ + 1]
      BY <2>2 DEF NextCallerId
    <3>3. c2s' = c2s \/ c2s' = [c2s EXCEPT ![cur] = Append(@, frame)]
      BY <2>2, <1>t DEF FrameWritten
    <3>4. \A p \in Proxies : \A i \in 1..Len(c2s'[p]) : c2s'[p][i].callId < caller_id'[p]
      <4>1. ASSUME NEW p \in Proxies, NEW i \in 1..Len(c2s'[p])
            PROVE  c2s'[p][i].callId < caller_id'[p]
        <5>1. caller_id[p] \in Nat /\ caller_id'[p] \in Nat /\ caller_id'[p] >= caller_id[p]
          BY <3>2, <1>t
        <5>2. CASE i \in 1..Len(c2s[p]) /\ c2s'[p][i] = c2s[p][i]
          <6>1. c2s[p][i] \in Frames
            BY <5>2, <1>t
          <6>2. c2s[p][i].callId < caller_id[p] /\ c2s[p][i].callId \in Nat
            BY <5>2, <6>1, <1>c DEF WireMatchesCalls, Frames
          <6>3. QED
            BY <5>1, <5>2, <6>2
        <5>3. CASE p = cur /\ c2s'[p][i] = frame
          BY <5>1, <5>3, <3>1, <3>2, <1>t
        <5>4. QED
          <6>1. c2s[p] \in Seq(Frames)
            BY <1>t
          <6>2. c2s'[p] = c2s[p] \/ (p = cur /\ c2s'[p] = Append(c2s[p], frame))
            BY <3>3, <1>t
          <6>3. CASE c2s'[p] = c2s[p]
            BY <5>2, <6>3
          <6>4. CASE p = cur /\ c2s'[p] = Append(c2s[p], frame)
            <7>1. \/ Append(c2s[p], frame)[i] = frame
                  \/ i \in 1..Len(c2s[p]) /\ Append(c2s[p], frame)[i] = c2s[p][i]
              BY <6>1, <6>4, AppendElements
            <7>2. QED
              BY <5>2, <5>3, <6>4, <7>1
          <6>5. QED
            BY <6>2, <6>3, <6>4
      <4>2. QED
        BY <4>1
    <3>5. QED
      BY <3>4, <2>0, <1>c DEF WireMatchesCalls
  <2>3. QED
    BY <1>2, <2>1, <2>2 DEF SendRpcRequest
<1>3. RecvHeader => WireMatchesCalls'
  BY <1>c, <1>t, ConsumedWire DEF RecvHeader, Avail, proxyVars, srvVars, WireMatchesCalls
<1>4. RecvSize => WireMatchesCalls'
  BY <1>c, <1>t, ConsumedWire DEF RecvSize, Avail, proxyVars, srvVars, WireMatchesCalls
<1>5. RecvPayload => WireMatchesCalls'
  BY <1>c, <1>t, ConsumedWire DEF RecvPayload, Avail, srvVars
<1>6. ReadException => WireMatchesCalls'
  BY <1>c, <1>t, ConsumedWire DEF ReadException, Avail, proxyVars, srvVars, WireMatchesCalls
<1>7. ASSUME NEW p \in Proxies, NEW kind \in ReplyKinds, ServerReplies(p, kind)
      PROVE  WireMatchesCalls'
  <2>1. PICK have \in 0..Parts(kind) :
          s2c' = [s2c EXCEPT ![p] = Append(@, [callId |-> Head(c2s[p]).callId,
                                               kind |-> kind, id |-> nextId,
                                               have |-> have])]
    BY <1>7 DEF ServerReplies
  <2> DEFINE r == [callId |-> Head(c2s[p]).callId, kind |-> kind, id |-> nextId,
                   have |-> have]
  <2>2. c2s[p] # <<>> /\ c2s[p] \in Seq(Frames) /\ s2c[p] \in Seq(Replies)
    BY <1>7, <1>t DEF ServerReplies
  <2>3. c2s' = [c2s EXCEPT ![p] = Tail(@)] /\ caller_id' = caller_id
    BY <1>7 DEF ServerReplies, proxyVars
  <2>4. \A q \in Proxies : \A i \in 1..Len(c2s'[q]) : c2s'[q][i].callId < caller_id'[q]
    <3>1. c2s'[p] = Tail(c2s[p]) /\ \A q \in Proxies : q # p => c2s'[q] = c2s[q]
      BY <2>3, <1>t
    <3>2. \A i \in 1..Len(c2s'[p]) : i + 1 \in 1..Len(c2s[p]) /\ c2s'[p][i] = c2s[p][i + 1]
      BY <2>2, <3>1, TailElements
    <3>3. QED
      BY <3>1, <3>2, <2>3, <1>c DEF WireMatchesCalls
  <2>5. issued \subseteq issued'
    BY <1>7 DEF ServerReplies, srvVars
  <2>6. kind = "ok" => <<r.id, p, r.callId>> \in issued'
    BY <1>7 DEF ServerReplies
  <2>7. s2c'[p] = Append(s2c[p], r) /\ \A q \in Proxies : q # p => s2c'[q] = s2c[q]
    BY <2>1, <1>t
  <2>8. \A i \in 1..Len(s2c'[p]) :
         s2c'[p][i] = r \/ (i \in 1..Len(s2c[p]) /\ s2c'[p][i] = s2c[p][i])
    <3> HIDE DEF r
    <3>1. \A i \in 1..Len(Append(s2c[p], r)) :
            \/ Append(s2c[p], r)[i] = r
            \/ i \in 1..Len(s2c[p]) /\ Append(s2c[p], r)[i] = s2c[p][i]
      BY <2>2, AppendElements
    <3>2. QED
      BY <3>1, <2>7
  <2>9. r.kind = kind
    OBVIOUS
  <2>10. \A q \in Proxies : \A i \in 1..Len(s2c'[q]) :
           s2c'[q][i].kind = "ok" => <<s2c'[q][i].id, q, s2c'[q][i].callId>> \in issued'
    <3> HIDE DEF r
    <3>1. QED
      BY <2>5, <2>6, <2>7, <2>8, <2>9, <1>c DEF WireMatchesCalls
  <2>11. QED
    BY <2>4, <2>10 DEF WireMatchesCalls
<1>8. ASSUME NEW p \in Proxies, NEW c \in 0..MaxCalls, ServerRepeats(p, c)
      PROVE  WireMatchesCalls'
  <2> DEFINE r == [callId |-> c, kind |-> "ok", id |-> nextId, have |-> Parts("ok")]
  <2>1. s2c' = [s2c EXCEPT ![p] = Append(@, r)]
    BY <1>8 DEF ServerRepeats
  <2>2. s2c[p] \in Seq(Replies)
    BY <1>t
  <2>3. UNCHANGED <<c2s, caller_id>> /\ issued \subseteq issued' /\ <<r.id, p, r.callId>> \in issued'
    BY <1>8 DEF ServerRepeats, proxyVars
  <2>4. s2c'[p] = Append(s2c[p], r) /\ \A q \in Proxies : q # p => s2c'[q] = s2c[q]
    BY <2>1, <1>t
  <2>5. \A i \in 1..Len(s2c'[p]) :
         s2c'[p][i] = r \/ (i \in 1..Len(s2c[p]) /\ s2c'[p][i] = s2c[p][i])
    <3> HIDE DEF r
    <3>1. \A i \in 1..Len(Append(s2c[p], r)) :
            \/ Append(s2c[p], r)[i] = r
            \/ i \in 1..Len(s2c[p]) /\ Append(s2c[p], r)[i] = s2c[p][i]
      BY <2>2, AppendElements
    <3>2. QED
      BY <3>1, <2>4
  <2>6. QED
    BY <2>3, <2>4, <2>5, <1>c DEF WireMatchesCalls
<1>9. UNCHANGED <<caller_id, c2s, s2c, issued>> => WireMatchesCalls'
  BY <1>c DEF WireMatchesCalls
<1>10. QED
  BY <1>1, <1>2, <1>3, <1>4, <1>5, <1>6, <1>7, <1>8, <1>9
     DEF Next, ApiCall, ClientStep, ServerStep, vars, proxyVars, netVars, srvVars,
         InitPbEnv, SubmitApplication, GetNewApp, DestoryProxy, DestoryPbEnv,
         ConnectToServer, WriteConnectionHeader, RecvHeaderLength, ReadAllFails,
         ReadAllSpins, RecvBogusLength, RecvGarbage, Spin, PeerCloses

LEMMA IssuedBelowNextStep == IndInv /\ [Next]_vars => IssuedBelowNext'
<1> SUFFICES ASSUME IndInv, [Next]_vars PROVE IssuedBelowNext'
  OBVIOUS
<1>c. /\ IssuedBelowNext
      /\ nextId \in Nat
      /\ issued \in SUBSET (Nat \X Proxies \X Nat)
  BY DEF IndInv, TypeOK, HistoryTypeOK
<1>1. ASSUME NEW p \in Proxies, NEW kind \in ReplyKinds, ServerReplies(p, kind)
      PROVE  IssuedBelowNext'
  BY <1>1, <1>c, BoundsAssumption DEF ServerReplies, IssuedBelowNext, srvVars
<1>2. ASSUME NEW p \in Proxies, NEW c \in 0..MaxCalls, ServerRepeats(p, c)
      PROVE  IssuedBelowNext'
  BY <1>2, <1>c, BoundsAssumption DEF ServerRepeats, IssuedBelowNext
<1>3. UNCHANGED srvVars => IssuedBelowNext'
  BY <1>c DEF IssuedBelowNext, srvVars
<1>4. QED
  BY <1>1, <1>2, <1>3
     DEF Next, ApiCall, ClientStep, ServerStep, vars, InitPbEnv, NewProxy,
         SubmitApplication, GetNewApp, DestoryProxy, DestoryPbEnv, ConnectToServer,
         WriteConnectionHeader, SendRpcRequest, RecvHeaderLength, RecvHeader, RecvSize,
         RecvPayload, ReadException, ReadAllFails, ReadAllSpins, RecvBogusLength,
         RecvGarbage, Spin, PeerCloses

LEMMA ReadingOwnReplyStep == IndInv /\ [Next]_vars => ReadingOwnReply'
<1> SUFFICES ASSUME IndInv, [Next]_vars PROVE ReadingOwnReply'
  OBVIOUS
<1>t. /\ cur \in Proxies
      /\ s2c \in [Proxies -> Seq(Replies)]
      /\ caller_id \in [Proxies -> Nat]
      /\ desynced \in SUBSET Proxies
  BY DEF IndInv, TypeOK, ProxyTypeOK, NetTypeOK, CallTypeOK
<1>c. ReadingOwnReply /\ CallsOfOpenProxies
  BY DEF IndInv
<1> USE DEF ReadingOwnReply, CallFails
<1>1. ASSUME NEW d \in Dirs, NEW v \in Versions, InitPbEnv(d, v) PROVE ReadingOwnReply'
  BY <1>1 DEF InitPbEnv
<1>2. ASSUME NEW p \in Proxies, NEW a \in ProxyArgs, NewProxy(p, a) PROVE ReadingOwnReply'
  BY <1>2 DEF NewProxy
<1>3. ConnectToServer => ReadingOwnReply'
  BY DEF ConnectToServer, OpenFails
<1>4. WriteConnectionHeader => ReadingOwnReply'
  BY DEF WriteConnectionHeader, OpenFails
<1>5. ASSUME NEW p \in Proxies, SubmitApplication(p) PROVE ReadingOwnReply'
  BY <1>5 DEF SubmitApplication, GetNewApp, AfterHeader
<1>6. SendRpcRequest => ReadingOwnReply'
  BY DEF SendRpcRequest
<1>7. RecvHeaderLength => ReadingOwnReply'
  BY DEF RecvHeaderLength, netVars
<1>8. ASSUME RecvHeader PROVE ReadingOwnReply'
  <2>1. s2c[cur] # <<>> /\ s2c[cur] \in Seq(Replies)
    BY <1>8, <1>t DEF RecvHeader, Avail
  <2>2. Head(s2c[cur]).kind \in AllKinds
    <3>1. Head(s2c[cur]) \in Replies
      BY <2>1, HeadTailProperties
    <3>2. QED
      BY <3>1 DEF Replies
  <2>3. QED
    BY <1>8, <1>c, <2>1, <2>2 DEF RecvHeader, CallIdMatches, AllKinds, proxyVars
<1>9. RecvSize => ReadingOwnReply'
  BY <1>c DEF RecvSize, proxyVars
<1>10. RecvPayload => ReadingOwnReply'
  BY DEF RecvPayload
<1>11. ReadException => ReadingOwnReply'
  BY <1>c DEF ReadException, proxyVars
<1>12. ReadAllFails => ReadingOwnReply'
  BY DEF ReadAllFails
<1>13. ReadAllSpins => ReadingOwnReply'
  BY DEF ReadAllSpins
<1>14. RecvBogusLength => ReadingOwnReply'
  BY <1>t DEF RecvBogusLength
<1>15. RecvGarbage => ReadingOwnReply'
  BY DEF RecvGarbage
<1>16. ASSUME UNCHANGED <<pc, cur, caller_id, desynced>>,
              s2c[cur] # <<>> => s2c'[cur] # <<>> /\ Head(s2c'[cur]) = Head(s2c[cur])
       PROVE  ReadingOwnReply'
  BY <1>16, <1>c
<1>17. ASSUME NEW p \in Proxies, NEW r, s2c' = [s2c EXCEPT ![p] = Append(@, r)]
       PROVE  s2c[cur] # <<>> => s2c'[cur] # <<>> /\ Head(s2c'[cur]) = Head(s2c[cur])
  <2>1. s2c[cur] \in Seq(Replies)
    BY <1>t
  <2>2. s2c'[cur] = s2c[cur] \/ s2c'[cur] = Append(s2c[cur], r)
    BY <1>17, <1>t
  <2>3. s2c[cur] # <<>> => Append(s2c[cur], r) # <<>> /\ Head(Append(s2c[cur], r)) = Head(s2c[cur])
    BY <2>1
  <2>4. QED
    BY <2>2, <2>3
<1>18. ASSUME NEW p \in Proxies, NEW kind \in ReplyKinds, ServerReplies(p, kind)
       PROVE  ReadingOwnReply'
  <2>1. \E r : s2c' = [s2c EXCEPT ![p] = Append(@, r)]
    BY <1>18 DEF ServerReplies
  <2>2. UNCHANGED <<pc, cur, caller_id, desynced>>
    BY <1>18 DEF ServerReplies, proxyVars, callVars
  <2>3. QED
    BY <1>16, <1>17, <2>1, <2>2
<1>19. ASSUME NEW p \in Proxies, NEW c \in 0..MaxCalls, ServerRepeats(p, c)
       PROVE  ReadingOwnReply'
  <2>1. \E r : s2c' = [s2c EXCEPT ![p] = Append(@, r)]
    BY <1>19 DEF ServerRepeats
  <2>2. UNCHANGED <<pc, cur, caller_id, desynced>>
    BY <1>19 DEF ServerRepeats, proxyVars, callVars
  <2>3. QED
    BY <1>16, <1>17, <2>1, <2>2
<1>20. UNCHANGED <<pc, cur, caller_id, desynced, s2c>> => ReadingOwnReply'
  BY <1>c
<1>21. QED
  BY <1>1, <1>2, <1>3, <1>4, <1>5, <1>6, <1>7, <1>8, <1>9, <1>10, <1>11, <1>12, <1>13,
     <1>14, <1>15, <1>18, <1>19, <1>20
     DEF Next, ApiCall, ClientStep, ServerStep, vars, proxyVars, netVars, callVars,
         DestoryProxy, DestoryPbEnv, Spin, PeerCloses

(* What a payload yields: nothing, the default id, or the id the server    *)
(* handed out for the latest call of the proxy.                            *)
LEMMA PayloadYields ==
  ASSUME IndInv, RecvPayload
  PROVE  /\ desynced' = desynced
         /\ \/ app_id' = app_id
            \/ app_id' = [app_id EXCEPT ![cur] = 0]
            \/ \E id \in Nat : /\ app_id' = [app_id EXCEPT ![cur] = id]
                               /\ <<id, cur, caller_id[cur] - 1>> \in issued
<1>1. /\ pc = "payload" /\ cur \in Proxies
      /\ s2c[cur] # <<>> /\ s2c[cur] \in Seq(Replies)
      /\ Head(s2c[cur]).callId = caller_id[cur] - 1
      /\ Head(s2c[cur]).kind \in {"ok", "noid", "badpayload"}
  BY DEF RecvPayload, Avail, IndInv, ReadingOwnReply, TypeOK, NetTypeOK, CallTypeOK
<1>2. Head(s2c[cur]) = s2c[cur][1] /\ 1 \in 1..Len(s2c[cur]) /\ Head(s2c[cur]) \in Replies
  BY <1>1, HeadTailProperties
<1>3. Head(s2c[cur]).kind = "ok" => <<Head(s2c[cur]).id, cur, caller_id[cur] - 1>> \in issued
  BY <1>1, <1>2 DEF IndInv, WireMatchesCalls
<1>4. Head(s2c[cur]).id \in Nat
  BY <1>2 DEF Replies
<1>5. Parts(Head(s2c[cur]).kind) = 4
  BY <1>1 DEF Parts
<1>6. desynced' = desynced
  BY <1>5 DEF RecvPayload, Consumed
<1>7. QED
  BY <1>1, <1>3, <1>4, <1>6 DEF RecvPayload

LEMMA AppIdFromOwnCallStep == IndInv /\ [Next]_vars => AppIdFromOwnCall'
<1> SUFFICES ASSUME IndInv, [Next]_vars PROVE AppIdFromOwnCall'
  OBVIOUS
<1>t. /\ cur \in Proxies
      /\ caller_id \in [Proxies -> Nat]
      /\ app_id \in [Proxies -> Nat \cup {NoApp}]
      /\ desynced \in SUBSET Proxies
  BY DEF IndInv, TypeOK, ProxyTypeOK, NetTypeOK, CallTypeOK
<1>c. AppIdFromOwnCall /\ CallsOfOpenProxies /\ ReadingOwnReply
  BY DEF IndInv
<1>1. ASSUME UNCHANGED <<app_id, caller_id>>, desynced \subseteq desynced', issued \subseteq issued'
      PROVE  AppIdFromOwnCall'
  BY <1>1, <1>c DEF AppIdFromOwnCall
<1>2. ASSUME NEW p \in Proxies, NEW a \in ProxyArgs, NewProxy(p, a)
      PROVE  AppIdFromOwnCall'
  BY <1>1, <1>2, <1>c, <1>t DEF NewProxy, CallsOfOpenProxies, srvVars
<1>3. WriteConnectionHeader => AppIdFromOwnCall'
  BY <1>1, <1>c, <1>t DEF WriteConnectionHeader, CallsOfOpenProxies, srvVars
<1>4. ASSUME SendRpcRequest PROVE AppIdFromOwnCall'
  <2>1. app_id[cur] = NoApp /\ app_id' = app_id
    BY <1>4, <1>c DEF SendRpcRequest, CallsOfOpenProxies
  <2>2. \A p \in Proxies : p # cur => caller_id'[p] = caller_id[p]
    BY <1>4, <1>t DEF SendRpcRequest
  <2>3. UNCHANGED <<desynced, issued>>
    BY <1>4 DEF SendRpcRequest, srvVars
  <2>4. QED
    BY <2>1, <2>2, <2>3, <1>c DEF AppIdFromOwnCall
<1>5. ASSUME RecvPayload PROVE AppIdFromOwnCall'
  <2>1. UNCHANGED <<caller_id, issued, desynced>>
    BY <1>5, PayloadYields DEF RecvPayload, srvVars
  <2>2. QED
    BY <1>5, <2>1, <1>c, <1>t, PayloadYields DEF AppIdFromOwnCall
<1>6. ASSUME RecvGarbage PROVE AppIdFromOwnCall'
  <2>1. cur \in desynced
    BY <1>6, <1>c DEF RecvGarbage, ReadingOwnReply
  <2>2. \A p \in Proxies : p # cur => app_id'[p] = app_id[p]
    BY <1>6, <1>t DEF RecvGarbage
  <2>3. UNCHANGED <<caller_id, issued, desynced>>
    BY <1>6 DEF RecvGarbage, srvVars, netVars
  <2>4. QED
    BY <2>1, <2>2, <2>3, <1>c DEF AppIdFromOwnCall
<1>7. QED
  BY <1>1, <1>2, <1>3, <1>4, <1>5, <1>6
     DEF Next, ApiCall, ClientStep, ServerStep, vars, proxyVars, netVars, srvVars,
         Consumed, InitPbEnv, SubmitApplication, GetNewApp, DestoryProxy, DestoryPbEnv,
         ConnectToServer, RecvHeaderLength, RecvHeader, RecvSize, ReadException,
         ReadAllFails, ReadAllSpins, RecvBogusLength, Spin, ServerReplies,
         ServerRepeats, PeerCloses

LEMMA IndStep == IndInv /\ [Next]_vars => IndInv'
BY TypeStep, CallsOfOpenProxiesStep, CallIdsIncreaseStep, WireMatchesCallsStep,
   IssuedBelowNextStep, ReadingOwnReplyStep, AppIdFromOwnCallStep
   DEF IndInv

LEMMA Inductive == Spec => []IndInv
BY IndInit, IndStep, PTL DEF Spec

(* An application id stored in a proxy whose stream is in frame was handed *)
(* out for the last call made on that proxy.                               *)
THEOREM AppIdCorrect == Spec => []AppIdFromOwnCall
<1>1. IndInv => AppIdFromOwnCall
  BY DEF IndInv
<1>2. QED
  BY <1>1, Inductive, PTL

(* The frames of a proxy carry strictly increasing callIds. *)
THEOREM CallIdsCorrect == Spec => []CallIdsIncrease
<1>1. IndInv => CallIdsIncrease
  BY DEF IndInv
<1>2. QED
  BY <1>1, Inductive, PTL

----------------------------------------------------------------------------
(* Action property and refinement *)

(* Only the two ends of a call of get_new_app and the opening of a proxy   *)
(* write app_id.                                                           *)
LEMMA AppIdWriters ==
  ASSUME [Next]_vars, ~WriteConnectionHeader, ~RecvPayload, ~RecvGarbage
  PROVE  UNCHANGED app_id
BY DEF Next, ApiCall, ClientStep, ServerStep, vars, proxyVars, InitPbEnv, NewProxy,
       SubmitApplication, GetNewApp, DestoryProxy, DestoryPbEnv, ConnectToServer,
       SendRpcRequest, RecvHeaderLength, RecvHeader, RecvSize, ReadException,
       ReadAllFails, ReadAllSpins, RecvBogusLength, Spin, ServerReplies, ServerRepeats,
       PeerCloses

(* An application id once stored stays.                                    *)
THEOREM AppIdKept == Spec => AppIdWriteOnce
<1> DEFINE Kept == \A p \in Proxies :
                     pstate[p] = "live" /\ app_id[p] # NoApp => app_id'[p] = app_id[p]
<1>1. ASSUME IndInv, [Next]_vars PROVE Kept
  <2>t. cur \in Proxies /\ app_id \in [Proxies -> Nat \cup {NoApp}] /\ CallsOfOpenProxies
    BY <1>1 DEF IndInv, TypeOK, ProxyTypeOK, CallTypeOK
  <2>1. CASE WriteConnectionHeader
    BY <2>1, <2>t DEF WriteConnectionHeader, CallsOfOpenProxies
  <2>2. CASE RecvPayload
    BY <2>2, <2>t DEF RecvPayload, CallsOfOpenProxies
  <2>3. CASE RecvGarbage
    BY <2>3, <2>t DEF RecvGarbage, CallsOfOpenProxies
  <2>4. QED
    BY <1>1, <2>1, <2>2, <2>3, AppIdWriters
<1>2. IndInv /\ [Next]_vars => [Kept]_vars
  BY <1>1
<1>3. QED
  BY <1>2, Inductive, PTL DEF Spec, AppIdWriteOnce

(* A step that only makes proxies lose track, if anything, is a step of    *)
(* the service.                                                            *)
LEMMA LoseStep ==
  ASSUME NEW p \in Proxies, UNCHANGED <<app_id, caller_id, issued>>,
         desynced' = desynced \/ desynced' = desynced \cup {p}
  PROVE  [Service!SNext]_(Service!svars)
BY DEF Service!SNext, Service!svars, Service!Lose

LEMMA ServiceStep == IndInv /\ [Next]_vars => [Service!SNext]_(Service!svars)
<1> SUFFICES ASSUME IndInv, [Next]_vars PROVE [Service!SNext]_(Service!svars)
  OBVIOUS
<1>t. /\ cur \in Proxies
      /\ pstate \in [Proxies -> {"none", "opening", "live", "gone"}]
      /\ caller_id \in [Proxies -> Nat]
      /\ app_id \in [Proxies -> Nat \cup {NoApp}]
      /\ nextId \in Nat
      /\ CallsOfOpenProxies
  BY DEF IndInv, TypeOK, ProxyTypeOK, CallTypeOK, HistoryTypeOK
<1>u. ASSUME UNCHANGED <<app_id, caller_id, issued, desynced>>
      PROVE  [Service!SNext]_(Service!svars)
  BY <1>u DEF Service!svars
<1>1. ASSUME NEW p \in Proxies, NEW a \in ProxyArgs, NewProxy(p, a)
      PROVE  [Service!SNext]_(Service!svars)
  <2>1. UNCHANGED <<app_id, caller_id, issued, desynced>>
    BY <1>1, <1>t DEF NewProxy, CallsOfOpenProxies, srvVars
  <2>2. QED
    BY <2>1, <1>u
<1>2. ASSUME WriteConnectionHeader PROVE [Service!SNext]_(Service!svars)
  <2>1. UNCHANGED <<app_id, caller_id, issued, desynced>>
    BY <1>2, <1>t DEF WriteConnectionHeader, CallsOfOpenProxies, srvVars
  <2>2. QED
    BY <2>1, <1>u
<1>3. ASSUME SendRpcRequest PROVE [Service!SNext]_(Service!svars)
  <2>1. UNCHANGED <<app_id, issued, desynced>> /\ app_id[cur] = NoApp
    BY <1>3, <1>t DEF SendRpcRequest, CallsOfOpenProxies, srvVars
  <2>2. CASE caller_id' = caller_id
    BY <2>1, <2>2, <1>u
  <2>3. CASE caller_id' = [caller_id EXCEPT ![cur] = @ + 1]
    BY <2>1, <2>3, <1>t DEF Service!SNext, Service!Call
  <2>4. QED
    BY <1>3, <2>2, <2>3 DEF SendRpcRequest, NextCallerId
<1>4. ASSUME RecvPayload PROVE [Service!SNext]_(Service!svars)
  <2>1. UNCHANGED <<caller_id, issued, desynced>> /\ app_id[cur] = NoApp
    BY <1>4, <1>t, PayloadYields DEF RecvPayload, CallsOfOpenProxies, srvVars
  <2>2. CASE app_id' = app_id
    BY <2>1, <2>2, <1>u
  <2>3. CASE app_id' = [app_id EXCEPT ![cur] = 0]
    BY <2>1, <2>3, <1>t DEF Service!SNext, Service!Default
  <2>4. ASSUME NEW id \in Nat, app_id' = [app_id EXCEPT ![cur] = id],
               <<id, cur, caller_id[cur] - 1>> \in issued
        PROVE  [Service!SNext]_(Service!svars)
    <3>1. id < nextId /\ nextId <= MaxId + 1
      BY <2>4 DEF IndInv, IssuedBelowNext
    <3>2. id \in 0..MaxId
      BY <3>1, <1>t, BoundsAssumption
    <3>3. QED
      BY <2>1, <2>4, <3>2, <1>t DEF Service!SNext, Service!Obtain
  <2>5. QED
    BY <1>4, <2>2, <2>3, <2>4, PayloadYields
<1>5. ASSUME RecvGarbage PROVE [Service!SNext]_(Service!svars)
  <2>1. UNCHANGED <<caller_id, issued, desynced>> /\ app_id[cur] = NoApp
    BY <1>5, <1>t DEF RecvGarbage, CallsOfOpenProxies, srvVars, netVars
  <2>2. cur \in desynced
    BY <1>5 DEF RecvGarbage, IndInv, ReadingOwnReply
  <2>3. app_id' = app_id \/ \E id \in 0..MaxId : app_id' = [app_id EXCEPT ![cur] = id]
    BY <1>5 DEF RecvGarbage
  <2>4. QED
    BY <2>1, <2>2, <2>3, <1>t, <1>u DEF Service!SNext, Service!Luck
<1>6. ASSUME NEW p \in Proxies, NEW kind \in ReplyKinds, ServerReplies(p, kind)
      PROVE  [Service!SNext]_(Service!svars)
  <2>1. UNCHANGED <<app_id, caller_id, desynced>>
    BY <1>6 DEF ServerReplies, proxyVars
  <2>2. CASE kind # "ok"
    BY <1>6, <2>1, <2>2, <1>u DEF ServerReplies, srvVars
  <2>3. CASE kind = "ok"
    <3> DEFINE c == Head(c2s[p]).callId
    <3>1. issued' = issued \cup {<<nextId, p, c>>} /\ nextId \in 0..MaxId
      BY <1>6, <2>3, <1>t, BoundsAssumption DEF ServerReplies
    <3>2. c \in 0..(caller_id[p] - 1)
      <4>1. c2s[p] # <<>> /\ c2s[p] \in Seq(Frames)
        BY <1>6 DEF ServerReplies, IndInv, TypeOK, NetTypeOK
      <4>2. /\ Head(c2s[p]) = c2s[p][1] /\ 1 \in 1..Len(c2s[p])
            /\ Head(c2s[p]) \in Frames
        BY <4>1, HeadTailProperties
      <4>3. c \in Nat /\ c < caller_id[p] /\ caller_id[p] \in Nat
        BY <4>2, <1>t DEF IndInv, WireMatchesCalls, Frames
      <4>4. QED
        BY <4>3
    <3>3. \A h \in issued : h[1] # nextId
      BY <1>t DEF IndInv, IssuedBelowNext, TypeOK, HistoryTypeOK
    <3>4. Service!HandOut(p, c, nextId)
      BY <2>1, <3>1, <3>3 DEF Service!HandOut
    <3>5. QED
      BY <3>1, <3>2, <3>4 DEF Service!SNext
  <2>4. QED
    BY <2>2, <2>3
<1>7. ASSUME NEW p \in Proxies, NEW c \in 0..MaxCalls, ServerRepeats(p, c)
      PROVE  [Service!SNext]_(Service!svars)
  <2>1. UNCHANGED <<app_id, caller_id, desynced>>
    BY <1>7 DEF ServerRepeats, proxyVars
  <2>2. issued' = issued \cup {<<nextId, p, c>>} /\ nextId \in 0..MaxId
    BY <1>7, <1>t, BoundsAssumption DEF ServerRepeats
  <2>3. c \in 0..(caller_id[p] - 1)
    <3>1. PICK i \in DOMAIN sent[p] : sent[p][i] = c
      BY <1>7 DEF ServerRepeats
    <3>2. c < caller_id[p]
      BY <3>1 DEF IndInv, CallIdsIncrease
    <3>3. QED
      BY <3>2, <1>t, BoundsAssumption
  <2>4. \A h \in issued : h[1] # nextId
    BY <1>t DEF IndInv, IssuedBelowNext, TypeOK, HistoryTypeOK
  <2>5. Service!HandOut(p, c, nextId)
    BY <2>1, <2>2, <2>4 DEF Service!HandOut
  <2>6. QED
    BY <2>2, <2>3, <2>5 DEF Service!SNext
<1>8. ASSUME RecvHeader \/ RecvSize \/ ReadException \/ ReadAllFails \/ RecvBogusLength
      PROVE  [Service!SNext]_(Service!svars)
  <2>1. UNCHANGED <<app_id, caller_id, issued>>
    BY <1>8 DEF RecvHeader, RecvSize, ReadException, ReadAllFails, RecvBogusLength,
                proxyVars, srvVars
  <2>2. desynced' = desynced \/ desynced' = desynced \cup {cur}
    BY <1>8 DEF RecvHeader, RecvSize, ReadException, ReadAllFails, RecvBogusLength, Consumed
  <2>3. QED
    BY <2>1, <2>2, <1>t, LoseStep
<1>9. QED
  BY <1>u, <1>1, <1>2, <1>3, <1>4, <1>5, <1>6, <1>7, <1>8
     DEF Next, ApiCall, ClientStep, ServerStep, vars, proxyVars, netVars, srvVars,
         InitPbEnv, SubmitApplication, GetNewApp, DestoryProxy, DestoryPbEnv,
         ConnectToServer, RecvHeaderLength, ReadAllSpins, Spin, PeerCloses

(* The client implements the abstract service: however frames, failures    *)
(* and repeated answers interleave, a proxy obtains at most one id, handed *)
(* out for its latest call.                                                *)
THEOREM Refinement == Spec => ImplementsService
<1>1. Init => Service!SInit
  BY DEF Init, Service!SInit
<1>2. QED
  BY <1>1, ServiceStep, Inductive, PTL DEF Spec, ImplementsService, Service!SSpec
----------------------------------------------------------------------------
(* What a call leaves behind, environments and crashes. *)


(* How a call ends when the client has read the answer to its last byte.   *)
Answered == {"succeed", "error", "decode"}

(* A proxy that counts as answered is in frame, unless its next call has   *)
(* just lost track; such a call ends otherwise or not at all.              *)
AnsweredInFrame ==
  \A p \in Proxies :
    last[p] \in Answered /\ p \in desynced => p = cur /\ pc \in {"garbage", "spin"}

LEMMA AnsweredInit == Init => AnsweredInFrame
BY DEF Init, AnsweredInFrame, Answered

(* The whole reply is consumed where a call ends with an answer.           *)
LEMMA AnswerConsumed ==
  ASSUME IndInv, RecvPayload \/ (ReadException /\ k + 1 = ExceptionReads)
  PROVE  desynced' = desynced /\ cur \notin desynced
<1>1. CASE RecvPayload
  BY <1>1, PayloadYields DEF RecvPayload, IndInv, ReadingOwnReply
<1>2. CASE ReadException /\ k + 1 = ExceptionReads
  <2>1. Head(s2c[cur]).kind = "error" /\ cur \notin desynced
    BY <1>2 DEF ReadException, IndInv, ReadingOwnReply
  <2>2. Parts(Head(s2c[cur]).kind) = 2 + ExceptionReads
    BY <2>1 DEF Parts, ExceptionReads
  <2>3. QED
    BY <1>2, <2>1, <2>2 DEF ReadException, Consumed
<1>3. QED
  BY <1>1, <1>2

(* A call that fails without an answer may leave its own stream out of     *)
(* frame, and no other.                                                    *)
LEMMA FailedCallLoses ==
  ASSUME TypeOK, AnsweredInFrame, NEW how, how \notin Answered, CallFails(cur, how),
         cur' = cur, pc \notin {"garbage", "spin"} \/ pc' = "idle",
         desynced' \subseteq desynced \cup {cur}
  PROVE  AnsweredInFrame'
<1>1. /\ cur \in Proxies
      /\ last \in [Proxies -> {"none", "send", "other", "fatal", "error", "decode",
                               "succeed", "luck"}]
  BY DEF TypeOK, CallTypeOK
<1>2. \A p \in Proxies : p # cur => last'[p] = last[p] /\ (p \in desynced' => p \in desynced)
  BY <1>1 DEF CallFails
<1>3. last'[cur] = how
  BY <1>1 DEF CallFails
<1>4. QED
  BY <1>2, <1>3 DEF AnsweredInFrame

LEMMA AnsweredStep == IndInv /\ AnsweredInFrame /\ [Next]_vars => AnsweredInFrame'
<1> SUFFICES ASSUME IndInv, AnsweredInFrame, [Next]_vars PROVE AnsweredInFrame'
  OBVIOUS
<1>t. /\ cur \in Proxies
      /\ last \in [Proxies -> {"none", "send", "other", "fatal", "error", "decode",
                               "succeed", "luck"}]
      /\ TypeOK
  BY DEF IndInv, TypeOK, CallTypeOK
<1>a. \A how \in {"send", "other", "fatal"} : how \notin Answered
  BY DEF Answered
<1>1. ASSUME pc \notin {"garbage", "spin"}, UNCHANGED <<last, desynced>>
      PROVE  AnsweredInFrame'
  BY <1>1 DEF AnsweredInFrame
<1>2. ASSUME SendRpcRequest PROVE AnsweredInFrame'
  <2>1. CASE CallFails(cur, "send")
    BY <1>2, <1>t, <1>a, <2>1, FailedCallLoses DEF SendRpcRequest
  <2>2. CASE UNCHANGED last
    BY <1>1, <1>2, <2>2 DEF SendRpcRequest
  <2>3. QED
    BY <1>2, <2>1, <2>2 DEF SendRpcRequest
<1>3. ASSUME RecvHeader PROVE AnsweredInFrame'
  <2>1. desynced' \subseteq desynced \cup {cur} /\ cur' = cur /\ pc = "header"
    BY <1>3 DEF RecvHeader, Consumed
  <2>2. \/ CallFails(cur, "other") \/ CallFails(cur, "fatal")
        \/ UNCHANGED <<last, desynced>>
    BY <1>3 DEF RecvHeader
  <2>3. QED
    BY <1>t, <1>a, <1>1, <2>1, <2>2, FailedCallLoses
<1>4. ASSUME RecvSize PROVE AnsweredInFrame'
  <2>1. desynced' \subseteq desynced \cup {cur} /\ cur' = cur /\ pc = "size"
    BY <1>4 DEF RecvSize, Consumed
  <2>2. CallFails(cur, "other") \/ UNCHANGED <<last, desynced>>
    BY <1>4 DEF RecvSize
  <2>3. QED
    BY <1>t, <1>a, <1>1, <2>1, <2>2, FailedCallLoses
<1>5. ASSUME RecvPayload PROVE AnsweredInFrame'
  <2>1. desynced' = desynced /\ cur \notin desynced
    BY <1>5, AnswerConsumed
  <2>2. \A p \in Proxies : p # cur => last'[p] = last[p]
    BY <1>5, <1>t DEF RecvPayload, CallFails
  <2>3. QED
    BY <1>5, <2>1, <2>2 DEF AnsweredInFrame, RecvPayload
<1>6. ASSUME ReadException PROVE AnsweredInFrame'
  <2>1. CASE k + 1 = ExceptionReads
    <3>1. desynced' = desynced /\ cur \notin desynced
      BY <1>6, <2>1, AnswerConsumed
    <3>2. \A p \in Proxies : p # cur => last'[p] = last[p]
      BY <1>6, <1>t DEF ReadException, CallFails
    <3>3. QED
      BY <1>6, <3>1, <3>2 DEF AnsweredInFrame, ReadException
  <2>2. CASE UNCHANGED <<last, desynced>>
    BY <1>6, <1>1, <2>2 DEF ReadException
  <2>3. QED
    BY <1>6, <2>1, <2>2 DEF ReadException
<1>7. ReadAllFails => AnsweredInFrame'
  BY <1>t, <1>a, FailedCallLoses DEF ReadAllFails
<1>8. ASSUME ReadAllSpins PROVE AnsweredInFrame'
  BY <1>8 DEF ReadAllSpins, netVars, AnsweredInFrame
<1>9. ASSUME RecvBogusLength PROVE AnsweredInFrame'
  <2>1. desynced' = desynced \cup {cur} /\ cur' = cur /\ pc \in {"hlen", "size"}
    BY <1>9 DEF RecvBogusLength
  <2>2. CASE CallFails(cur, "other")
    BY <1>t, <1>a, <2>1, <2>2, FailedCallLoses
  <2>3. CASE pc' = "garbage" /\ UNCHANGED last
    BY <2>1, <2>3 DEF AnsweredInFrame
  <2>4. QED
    BY <1>9, <2>2, <2>3 DEF RecvBogusLength
<1>10. ASSUME RecvGarbage PROVE AnsweredInFrame'
  <2>1. last' = [last EXCEPT ![cur] = "other"] \/ last' = [last EXCEPT ![cur] = "luck"]
    BY <1>10 DEF RecvGarbage, CallFails
  <2>2. last'[cur] \notin Answered /\ \A p \in Proxies : p # cur => last'[p] = last[p]
    BY <1>t, <2>1 DEF Answered
  <2>3. QED
    BY <1>10, <2>2 DEF RecvGarbage, netVars, AnsweredInFrame
<1>11. UNCHANGED <<last, desynced, pc, cur>> => AnsweredInFrame'
  BY DEF AnsweredInFrame
<1>12. QED
  BY <1>1, <1>2, <1>3, <1>4, <1>5, <1>6, <1>7, <1>8, <1>9, <1>10, <1>11
     DEF Next, ApiCall, ClientStep, ServerStep, vars, netVars, callVars, InitPbEnv,
         NewProxy, SubmitApplication, GetNewApp, DestoryProxy, DestoryPbEnv,
         ConnectToServer, WriteConnectionHeader, RecvHeaderLength, Spin, ServerReplies,
         ServerRepeats, PeerCloses

(* A call that ended with a success or with an exception that was read has *)
(* consumed the whole reply, whatever went wrong in other calls.           *)
THEOREM RepliesConsumed == Spec => []ReplyConsumed
<1>1. AnsweredInFrame => ReplyConsumed
  BY DEF AnsweredInFrame, Answered, ReplyConsumed
<1>2. QED
  BY <1>1, AnsweredInit, AnsweredStep, Inductive, PTL DEF Spec

----------------------------------------------------------------------------
(* The environment *)

(* Between connections: no step but new_hadoop_rpc_proxy gives a proxy a   *)
(* socket, and none but init_pb_env changes the environment.               *)
OnlyOpenSocketsChange ==
  /\ UNCHANGED <<env, is_env_initialize, inits>>
  /\ \A p \in Proxies : sock[p] = "none" => sock'[p] = "none" \/ (pc = "connect" /\ p = cur)
  /\ \A p \in Proxies : sock[p] # "none" => sock'[p] # "none"
  /\ pc' = "connect" => UNCHANGED <<pc, cur>>

LEMMA SocketSteps ==
  ASSUME TypeOK, [Next]_vars
  PROVE  \/ \E d \in Dirs, v \in Versions : InitPbEnv(d, v)
         \/ \E p \in Proxies, a \in ProxyArgs : NewProxy(p, a)
         \/ OnlyOpenSocketsChange
<1>t. cur \in Proxies /\ sock \in [Proxies -> {"none", "new", "open", "fin", "rst", "dead"}]
  BY DEF TypeOK, CallTypeOK, NetTypeOK
<1> USE DEF OnlyOpenSocketsChange, envVars
<1>1. ConnectToServer => OnlyOpenSocketsChange
  BY <1>t DEF ConnectToServer, OpenFails
<1>2. WriteConnectionHeader => OnlyOpenSocketsChange
  BY <1>t DEF WriteConnectionHeader, WriteFails, OpenFails
<1>3. SendRpcRequest => OnlyOpenSocketsChange
  BY <1>t DEF SendRpcRequest, WriteFails, CallFails
<1>4. ReadAllFails => OnlyOpenSocketsChange
  BY <1>t DEF ReadAllFails, ReadFails, WriteFails, CallFails
<1>5. RecvBogusLength => OnlyOpenSocketsChange
  BY <1>t DEF RecvBogusLength, ReadFails, WriteFails, CallFails
<1>6. ASSUME NEW p \in Proxies, NEW kind \in ReplyKinds, ServerReplies(p, kind)
      PROVE  OnlyOpenSocketsChange
  <2>1. sock[p] = "open" /\ UNCHANGED <<envVars, pc, cur>>
    BY <1>6 DEF ServerReplies, callVars
  <2>2. sock'[p] # "none" /\ \A q \in Proxies : q # p => sock'[q] = sock[q]
    BY <1>6, <1>t DEF ServerReplies
  <2>3. QED
    BY <2>1, <2>2
<1>7. ASSUME NEW p \in Proxies, PeerCloses(p) PROVE OnlyOpenSocketsChange
  <2>1. sock[p] \in {"open", "fin"} /\ UNCHANGED <<envVars, pc, cur>>
    BY <1>7 DEF PeerCloses, callVars
  <2>2. sock'[p] # "none" /\ \A q \in Proxies : q # p => sock'[q] = sock[q]
    BY <1>7, <1>t DEF PeerCloses
  <2>3. QED
    BY <2>1, <2>2
<1>8. UNCHANGED <<envVars, sock>> /\ (pc' = "connect" => UNCHANGED <<pc, cur>>)
        => OnlyOpenSocketsChange
  OBVIOUS
<1>9. QED
  BY <1>1, <1>2, <1>3, <1>4, <1>5, <1>6, <1>7, <1>8
     DEF Next, ApiCall, ClientStep, ServerStep, vars, netVars, callVars, CallFails,
         SubmitApplication, GetNewApp, AfterHeader, DestoryProxy, DestoryPbEnv,
         RecvHeaderLength, RecvHeader, RecvSize, RecvPayload, ReadException,
         ReadAllSpins, RecvGarbage, Spin, ServerRepeats

(* Once an initialisation has succeeded the environment is there, and a    *)
(* proxy has a socket from then on only.                                   *)
EnvOnceSet ==
  /\ is_env_initialize \/ (\E p \in Proxies : sock[p] # "none") => env # NULL
  /\ pc = "connect" => sock[cur] # "none"

LEMMA EnvOnceSetStep == TypeOK /\ EnvOnceSet /\ [Next]_vars => EnvOnceSet'
<1> SUFFICES ASSUME TypeOK, EnvOnceSet, [Next]_vars PROVE EnvOnceSet'
  OBVIOUS
<1>t. cur \in Proxies /\ sock \in [Proxies -> {"none", "new", "open", "fin", "rst", "dead"}]
  BY DEF TypeOK, CallTypeOK, NetTypeOK
<1>1. ASSUME NEW d \in Dirs, NEW v \in Versions, InitPbEnv(d, v) PROVE EnvOnceSet'
  <2>1. env' \in SUBSET Types
    BY <1>1, LoadAssumption DEF InitPbEnv
  <2>2. env' # NULL
    BY <2>1, NullAssumption
  <2>3. QED
    BY <1>1, <2>2 DEF InitPbEnv, EnvOnceSet
<1>2. ASSUME NEW p \in Proxies, NEW a \in ProxyArgs, NewProxy(p, a) PROVE EnvOnceSet'
  BY <1>2, <1>t DEF NewProxy, CheckInit, EnvOnceSet, envVars
<1>3. ASSUME OnlyOpenSocketsChange PROVE EnvOnceSet'
  <2>1. \A p \in Proxies : sock'[p] # "none" => sock[p] # "none"
    BY <1>3, <1>t DEF OnlyOpenSocketsChange, EnvOnceSet
  <2>2. pc' = "connect" => sock'[cur'] # "none"
    BY <1>3, <1>t DEF OnlyOpenSocketsChange, EnvOnceSet
  <2>3. QED
    BY <1>3, <2>1, <2>2 DEF OnlyOpenSocketsChange, EnvOnceSet
<1>4. QED
  BY <1>1, <1>2, <1>3, SocketSteps

(* A proxy with a socket has an environment, however init_pb_env was       *)
(* called, failed, was repeated, or found nothing.                         *)
THEOREM OpenProxiesHaveEnv == Spec => []EnvOfOpenProxies
<1>1. Init => EnvOnceSet
  BY DEF Init, EnvOnceSet
<1>2. EnvOnceSet => EnvOfOpenProxies
  BY DEF EnvOnceSet, EnvOfOpenProxies
<1>3. QED
  BY <1>1, <1>2, EnvOnceSetStep, TypeCorrect, PTL DEF Spec

----------------------------------------------------------------------------
(* When the process cannot crash *)

(* A directory that loads holds every message type the client looks up,    *)
(* and no socket is reset or interrupted by a signal.                      *)
Undisturbed ==
  /\ \A d \in Dirs : Load[d].count > 0 => Load[d].types = Types
  /\ Faults \cap {"rst", "intr"} = {}

(* The application does not call init_pb_env again once it has succeeded.  *)
InitOnce == [][is_env_initialize => UNCHANGED inits]_vars

(* The environment is complete before the first socket is made, every call *)
(* runs on a socket, and no socket is broken.                              *)
CalmInv ==
  /\ is_env_initialize => env = Types
  /\ \A p \in Proxies : sock[p] \notin {"rst", "dead"}
  /\ \A p \in Proxies : sock[p] # "none" => is_env_initialize
  /\ \A p \in Proxies : pstate[p] = "live" => sock[p] # "none"
  /\ pc \in {"connect", "hdr"} => sock[cur] # "none"
  /\ NoCrash

LEMMA CalmInit == Init => CalmInv
BY DEF Init, CalmInv, NoCrash, Crashes

(* A look-up finds its type.                                               *)
LEMMA TypesPresent ==
  ASSUME CalmInv, is_env_initialize
  PROVE  \A t \in Types : t \in env
BY DEF CalmInv

LEMMA CalmStep ==
  ASSUME Undisturbed, TypeOK, CallsOfOpenProxies, CalmInv, [Next]_vars,
         [is_env_initialize => UNCHANGED inits]_vars
  PROVE  CalmInv'
<1>t. /\ cur \in Proxies /\ inits \in Nat
      /\ pstate \in [Proxies -> {"none", "opening", "live", "gone"}]
      /\ sock \in [Proxies -> {"none", "new", "open", "fin", "rst", "dead"}]
  BY DEF TypeOK, EnvTypeOK, ProxyTypeOK, CallTypeOK, NetTypeOK
<1>b. \A p \in Proxies : ~WriteKills(p) /\ ~WriteFails(p)
  BY DEF CalmInv, Undisturbed, WriteKills, WriteFails
<1>1. ASSUME NEW d \in Dirs, NEW v \in Versions, InitPbEnv(d, v) PROVE CalmInv'
  <2>1. inits' # inits
    BY <1>1, <1>t DEF InitPbEnv
  <2>2. ~is_env_initialize
    BY <2>1 DEF vars, envVars
  <2>3. is_env_initialize' => env' = Types
    BY <1>1, <2>2 DEF InitPbEnv, AlreadyInit, Undisturbed
  <2>4. QED
    BY <1>1, <2>2, <2>3 DEF InitPbEnv, CalmInv, NoCrash, netVars, proxyVars
<1>2. ASSUME NEW p \in Proxies, NEW a \in ProxyArgs, NewProxy(p, a) PROVE CalmInv'
  BY <1>2, <1>t DEF NewProxy, CheckInit, CalmInv, NoCrash, Crashes, envVars
<1>3. ASSUME ConnectToServer PROVE CalmInv'
  BY <1>3, <1>t DEF ConnectToServer, OpenFails, CalmInv, NoCrash, Crashes, envVars
<1>4. ASSUME WriteConnectionHeader PROVE CalmInv'
  <2>1. is_env_initialize
    BY <1>4, <1>t DEF WriteConnectionHeader, CalmInv
  <2>2. "IpcConnectionContextProto" \in env /\ env # NULL
    BY <2>1, NullAssumption DEF CalmInv, Types
  <2>3. QED
    BY <1>4, <1>b, <1>t, <2>2 DEF WriteConnectionHeader, CalmInv, NoCrash, Crashes, envVars
<1>5. ASSUME NEW p \in Proxies, SubmitApplication(p) PROVE CalmInv'
  <2>1. is_env_initialize
    BY <1>5 DEF SubmitApplication, CalmInv
  <2>2. /\ env # NULL
        /\ {"GetNewApplicationRequestProto", "HadoopRpcRequestProto",
            "RpcPayloadHeaderProto"} \subseteq env
    BY <2>1, NullAssumption DEF CalmInv, Types
  <2>3. pc' \notin Crashes /\ pc' \notin {"connect", "hdr"}
    BY <1>5, <2>2 DEF SubmitApplication, GetNewApp, HeaderBytes, AfterHeader, Crashes
  <2>4. QED
    BY <1>5, <2>3 DEF SubmitApplication, GetNewApp, CalmInv, NoCrash, envVars, netVars,
                      proxyVars
<1>6. ASSUME SendRpcRequest PROVE CalmInv'
  BY <1>6, <1>b, <1>t DEF SendRpcRequest, CallFails, CalmInv, NoCrash, Crashes, envVars
<1>7. ASSUME UNCHANGED <<envVars, pstate, sock>>, pc' \notin Crashes \cup {"connect", "hdr"}
      PROVE  CalmInv'
  BY <1>7 DEF CalmInv, NoCrash, envVars
<1>8. ASSUME \/ RecvHeaderLength \/ RecvHeader \/ RecvSize \/ RecvPayload \/ ReadException
             \/ ReadAllSpins \/ RecvGarbage
      PROVE  CalmInv'
  BY <1>7, <1>8
     DEF RecvHeaderLength, RecvHeader, RecvSize, RecvPayload, ReadException, ReadAllSpins,
         RecvGarbage, CallFails, Crashes, proxyVars, netVars
<1>9. ASSUME ReadAllFails \/ RecvBogusLength PROVE CalmInv'
  BY <1>7, <1>9, <1>b, <1>t
     DEF ReadAllFails, RecvBogusLength, ReadFails, CallFails, Crashes, proxyVars
<1>10. ASSUME NEW p \in Proxies, NEW kind \in ReplyKinds, ServerReplies(p, kind)
       PROVE  CalmInv'
  <2>1. UNCHANGED sock \/ sock' = [sock EXCEPT ![p] = "fin"]
    BY <1>10 DEF ServerReplies, Undisturbed
  <2>2. sock[p] = "open"
    BY <1>10 DEF ServerReplies
  <2>3. QED
    BY <1>10, <1>t, <2>1, <2>2
       DEF ServerReplies, CalmInv, NoCrash, envVars, proxyVars, callVars
<1>11. ASSUME NEW p \in Proxies, PeerCloses(p) PROVE CalmInv'
  <2>1. sock' = [sock EXCEPT ![p] = "fin"] /\ sock[p] = "open"
    BY <1>11 DEF PeerCloses, Undisturbed
  <2>2. QED
    BY <1>11, <1>t, <2>1 DEF PeerCloses, CalmInv, NoCrash, envVars, proxyVars, callVars
<1>12. UNCHANGED <<envVars, pstate, sock, pc, cur>> => CalmInv'
  BY DEF CalmInv, NoCrash, envVars
<1>13. QED
  BY <1>1, <1>2, <1>3, <1>4, <1>5, <1>6, <1>8, <1>9, <1>10, <1>11, <1>12
     DEF Next, ApiCall, ClientStep, ServerStep, vars, netVars, callVars, proxyVars,
         DestoryProxy, DestoryPbEnv, Spin, ServerRepeats

(* With complete environments, sockets that are not reset or interrupted,  *)
(* and an application that initialises once, the process does not crash:   *)
(* whatever the servers answer, repeat, or leave out, and however often    *)
(* connections are refused or closed.                                      *)
THEOREM UndisturbedNeverCrashes ==
  ASSUME Undisturbed
  PROVE  Spec /\ InitOnce => []NoCrash
<1>1. IndInv /\ CalmInv /\ [Next]_vars /\ [is_env_initialize => UNCHANGED inits]_vars => CalmInv'
  BY CalmStep, Undisturbed DEF IndInv
<1>2. CalmInv => NoCrash
  BY DEF CalmInv
<1>3. QED
  BY <1>1, <1>2, CalmInit, Inductive, PTL DEF Spec, InitOnce
=============================================================================
