---------------------------- MODULE AppIdService ----------------------------
(***************************************************************************)
(* What the RPC client promises its application, without messages, frames  *)
(* or an environment: a proxy makes calls until it has an application id,  *)
(* it gets at most one, and the id it gets was handed out for its latest   *)
(* call.  A proxy may lose track of its server, after which nothing but    *)
(* "at most one" is promised, and it may fall back to the default id 0.    *)
(***************************************************************************)
EXTENDS Integers

CONSTANTS Proxies, Ids, NoApp

VARIABLES
  app,       \* the application id of each proxy, or NoApp
  calls,     \* the number of calls each proxy has made
  handed,    \* the <<id, proxy, call>> the servers handed out
  lost       \* the proxies that lost track of their server

svars == <<app, calls, handed, lost>>

SInit ==
  /\ app = [p \in Proxies |-> NoApp]
  /\ calls = [p \in Proxies |-> 0]
  /\ handed = {}
  /\ lost = {}

(* A proxy without an id makes a call. *)
Call(p) ==
  /\ app[p] = NoApp
  /\ calls' = [calls EXCEPT ![p] = @ + 1]
  /\ UNCHANGED <<app, handed, lost>>

(* A server hands out a fresh id, for any call it has seen. *)
HandOut(p, c, id) ==
  /\ \A h \in handed : h[1] # id
  /\ handed' = handed \cup {<<id, p, c>>}
  /\ UNCHANGED <<app, calls, lost>>

Lose(p) ==
  /\ lost' = lost \cup {p}
  /\ UNCHANGED <<app, calls, handed>>

(* The latest call succeeds. *)
Obtain(p, id) ==
  /\ app[p] = NoApp
  /\ <<id, p, calls[p] - 1>> \in handed
  /\ app' = [app EXCEPT ![p] = id]
  /\ UNCHANGED <<calls, handed, lost>>

Default(p) ==
  /\ app[p] = NoApp
  /\ app' = [app EXCEPT ![p] = 0]
  /\ UNCHANGED <<calls, handed, lost>>

(* A proxy that lost track takes what it reads for an id. *)
Luck(p, id) ==
  /\ app[p] = NoApp
  /\ p \in lost
  /\ app' = [app EXCEPT ![p] = id]
  /\ UNCHANGED <<calls, handed, lost>>

SNext ==
  \E p \in Proxies :
    \/ Call(p) \/ Lose(p) \/ Default(p)
    \/ \E id \in Ids : Obtain(p, id) \/ Luck(p, id)
    \/ \E id \in Ids, c \in 0..(calls[p] - 1) : HandOut(p, c, id)

SSpec == SInit /\ [][SNext]_svars
=============================================================================
