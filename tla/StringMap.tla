----------------------------- MODULE StringMap -----------------------------
(***************************************************************************)
(* What map_sp of map.c promises its users, without slots, chains or sizes.*)
(* A user asks and is answered; only the answer to a call that stores      *)
(* changes what the map holds, and it adds one pointer under one key.      *)
(***************************************************************************)
CONSTANTS Keys, Pointers, NULL

VARIABLES
  content,   \* the <<key, pointer>> the map holds
  request,   \* the call that is waiting for its answer
  answer     \* the pointer returned last

mvars == <<content, request, answer>>

NoCall == [op |-> "none", key |-> NULL, value |-> NULL]

Under(k) == {p \in Pointers : <<k, p>> \in content}

MInit == content = {} /\ request = NoCall /\ answer = NULL

Ask(o, k, v) ==
  /\ request = NoCall
  /\ request' = [op |-> o, key |-> k, value |-> v]
  /\ UNCHANGED <<content, answer>>

Answer == request # NoCall /\ request' = NoCall

(* An insert stores; a query_insert stores when there is nothing.          *)
Store ==
  /\ Answer
  /\ request.op = "insert" \/ (request.op = "query_insert" /\ Under(request.key) = {})
  /\ content' = content \cup {<<request.key, request.value>>}
  /\ answer' = request.value

Find ==
  /\ Answer
  /\ request.op \in {"query", "query_insert"}
  /\ answer' \in Under(request.key)
  /\ UNCHANGED content

Miss ==
  /\ Answer
  /\ request.op = "query" /\ Under(request.key) = {}
  /\ answer' = NULL
  /\ UNCHANGED content

(* One step of an iteration, with or without a search for the last key.    *)
Visit ==
  /\ request.op \in {"none", "next"} /\ request' = NoCall
  /\ answer' = NULL \/ \E c \in content : answer' = c[2]
  /\ UNCHANGED content

MNext ==
  \/ \E k \in Keys, v \in Pointers : Ask("insert", k, v) \/ Ask("query_insert", k, v)
  \/ \E k \in Keys : Ask("query", k, NULL) \/ Ask("next", k, NULL)
  \/ Store \/ Find \/ Miss \/ Visit

MSpec == MInit /\ [][MNext]_mvars
=============================================================================
