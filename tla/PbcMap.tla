------------------------------- MODULE PbcMap -------------------------------
(***************************************************************************)
(* map_sp of pbc's map.c: the hash map from strings to pointers behind the *)
(* files, messages and enums of an environment, the fields of a message    *)
(* type and the fields of a decoded message.  A key whose home slot is     *)
(* taken goes to the next empty slot and is linked into the chain of its   *)
(* home slot, so chains of different homes run into each other.  A full    *)
(* table is copied into one of twice its size, slot by slot.               *)
(*                                                                         *)
(* A step is one round of a loop: of the search along a chain, of the      *)
(* copying, of the computation of the first size.                          *)
(***************************************************************************)
EXTENDS Integers, FiniteSets

CONSTANTS
  Keys,        \* strings
  Hash,        \* calc_hash
  Pointers,    \* what is stored; may be the null pointer
  Pairs,       \* the <<key, pointer>> an application may store
  Hints,       \* the `max` maps are made with
  MaxSize,     \* bound: entries of the map
  NULL         \* the null pointer

ASSUME HashAssumption == Hash \in [Keys -> Nat]
ASSUME PairsAssumption == Pairs \subseteq Keys \X Pointers
ASSUME HintsAssumption == Hints \subseteq Nat /\ MaxSize \in Nat
ASSUME NullAssumption == NULL \notin Keys

VARIABLES
  cap, size, slot,    \* the map; slots are numbered from 0, `next` from 1
  max,                \* argument of _pbcM_sp_new
  pc, op, key, value, \* where the call is, which one, its arguments
  at,                 \* the slot a search has reached
  old, osize, i,      \* rehash: the old slots, their number, the next to copy
  ret,                \* the pointer the last call returned
  iter,               \* the key pbc_rmessage_next was given last; NULL: none yet
  put,                \* history: <<key, pointer>> stored
  doubled,            \* history: keys inserted although they were there
  reach,              \* history: the slots on the chain from each slot
  seen                \* history: the slots the iteration has returned

table == <<cap, size, slot, reach>>
call  == <<pc, op, key, value, at, ret>>
copy  == <<old, osize, i>>
visit == <<iter, seen>>
past  == <<put, doubled>>
vars  == <<table, max, call, copy, visit, past>>

Empty == [key |-> NULL, hash |-> 0, pointer |-> NULL, next |-> 0]

NoSlots == [s \in {} |-> Empty]

Slots == 0..(cap - 1)
Used  == {s \in Slots : slot[s].key # NULL}

(* The slots an iteration stops at: bootstrap.c and rmessage.c also store  *)
(* null pointers.                                                          *)
Held == {s \in Used : slot[s].pointer # NULL}

(* hash_full & (map->cap-1); cap is a power of two. *)
Home(k) == Hash[k] % cap

Clear(n) ==
  /\ slot' = [s \in 0..(n - 1) |-> Empty]
  /\ reach' = [s \in 0..(n - 1) |-> {s}]

Init ==
  /\ max \in Hints
  /\ cap = 1 /\ size = 0
  /\ slot = [s \in {0} |-> Empty] /\ reach = [s \in {0} |-> {s}]
  /\ pc = "new" /\ op = "none" /\ key = NULL /\ value = NULL /\ at = 0
  /\ old = NoSlots /\ osize = 0 /\ i = 0
  /\ ret = NULL /\ iter = NULL
  /\ put = {} /\ doubled = {} /\ seen = {}

(* _pbcM_sp_new: cap is doubled until it is large enough.  (The slots are  *)
(* allocated and cleared at the end; nothing looks at them before.)        *)
New ==
  /\ pc = "new"
  /\ \/ /\ cap < max
        /\ cap' = 2 * cap /\ Clear(2 * cap)
        /\ UNCHANGED pc
     \/ /\ cap >= max
        /\ pc' = "idle"
        /\ UNCHANGED <<cap, slot, reach>>
  /\ UNCHANGED <<size, max, op, key, value, at, ret, copy, visit, past>>

----------------------------------------------------------------------------
(* Storing an entry *)

(* The rounds of the search for an empty slot that starts behind the home. *)
Rounds(h, s) == (s - h - 1) % cap

FirstEmpty(h, s) ==
  /\ slot[s].key = NULL
  /\ \A t \in Slots : slot[t].key = NULL => Rounds(h, s) <= Rounds(h, t)

(* empty_slot->next = slot->next; as mutants, left out, and done after     *)
(* slot->next = empty + 1.                                                 *)
LinkOnCut(t, e) == 0
LinkOnLate(t, e) == e + 1
LinkOn(t, e) == slot[t].next

(* What comes behind a slot on its chain. *)
Behind(s) == IF slot[s].next = 0 THEN {} ELSE reach[slot[s].next - 1]

Entry(k, v, next) == [key |-> k, hash |-> Hash[k], pointer |-> v, next |-> next]

PlaceAtHome(k, v) ==
  /\ slot[Home(k)].key = NULL
  /\ slot' = [slot EXCEPT ![Home(k)] = Entry(k, v, @.next)]
  /\ UNCHANGED reach

(* Into the first empty slot behind the home, linked in behind slot t:     *)
(* behind the home by an insert, at the end of the chain by a query_insert.*)
PlaceBehind(t, k, v) ==
  \E e \in Slots :
    /\ FirstEmpty(Home(k), e)
    /\ slot' = [slot EXCEPT ![e] = Entry(k, v, LinkOn(t, e)), ![t].next = e + 1]
    /\ reach' = [s \in Slots |-> IF s = e THEN {e} \cup Behind(t)
                                 ELSE IF t \in reach[s] THEN reach[s] \cup {e}
                                 ELSE reach[s]]

Place(k, v) ==
  /\ \/ PlaceAtHome(k, v)
     \/ slot[Home(k)].key # NULL /\ PlaceBehind(Home(k), k, v)
  /\ size' = size + 1
  /\ UNCHANGED cap

Full == cap <= size

(* The head of _pbcM_sp_rehash: an empty table of twice the size. *)
StartRehash ==
  /\ pc' = "rehash"
  /\ old' = slot /\ osize' = size /\ i' = 0
  /\ cap' = 2 * cap /\ size' = 0
  /\ Clear(2 * cap)

(* i < size, for the size before; as a mutant, the last slot forgotten. *)
CopyMoreShort == i < osize - 1
CopyMore == i < osize

(* Its loop, the end of the old slots, and the call that is repeated.     *)
Rehash ==
  /\ pc = "rehash"
  /\ \/ /\ CopyMore
        /\ Place(old[i].key, old[i].pointer)
        /\ i' = i + 1
        /\ UNCHANGED <<old, osize, pc>>
     \/ /\ ~CopyMore
        /\ pc' = op
        /\ old' = NoSlots /\ osize' = 0 /\ i' = 0
        /\ UNCHANGED table
  /\ UNCHANGED <<max, op, key, value, at, ret, visit, past>>

----------------------------------------------------------------------------
(* Calls.  While an application goes through a map it does not change it.  *)

Call(name, k, v) ==
  /\ pc = "idle"
  /\ op' = name /\ key' = k /\ value' = v
  /\ UNCHANGED <<table, max, ret, copy, past>>

(* Something was stored under the key. *)
Known(k) == \E p \in put : p[1] = k

(* _pbcM_sp_insert does not look whether the key is there. *)
Insert(k, v) ==
  /\ size < MaxSize
  /\ Call("insert", k, v)
  /\ pc' = "insert" /\ iter' = NULL /\ seen' = {}
  /\ UNCHANGED at

InsertHash ==
  /\ pc = "insert"
  /\ \/ /\ ~Full
        /\ Place(key, value)
        /\ put' = put \cup {<<key, value>>}
        /\ doubled' = IF Known(key) THEN doubled \cup {key} ELSE doubled
        /\ pc' = "idle" /\ ret' = value
        /\ UNCHANGED copy
     \/ /\ Full
        /\ StartRehash
        /\ UNCHANGED <<ret, past>>
  /\ UNCHANGED <<max, op, key, value, at, visit>>

(* _pbcM_sp_query_insert up to the loop (the table is never full when the  *)
(* home is empty); its callers store the value into a fresh entry.  What   *)
(* they write into an entry that was there is left out.                    *)
QueryInsert(k, v) ==
  /\ size < MaxSize
  /\ Call("query_insert", k, v)
  /\ pc' = "query_insert" /\ iter' = NULL /\ seen' = {}
  /\ UNCHANGED at

QueryInsertHash ==
  /\ pc = "query_insert"
  /\ \/ /\ slot[Home(key)].key = NULL /\ ~Full
        /\ Place(key, value)
        /\ put' = put \cup {<<key, value>>}
        /\ pc' = "idle" /\ ret' = value
        /\ UNCHANGED at
     \/ /\ slot[Home(key)].key # NULL
        /\ at' = Home(key)
        /\ pc' = "walk"
        /\ UNCHANGED <<table, ret, put>>
  /\ UNCHANGED <<max, op, key, value, copy, visit, doubled>>

Query(k) ==
  /\ Call("query", k, NULL)
  /\ pc' = "walk" /\ at' = Home(k)
  /\ UNCHANGED visit

(* The first slot behind slot s that holds a pointer is returned, if there *)
(* is one; as a mutant, the slot right behind s passed over.               *)
ScanFromLate(s) == s + 2
ScanFrom(s) == s + 1

Ahead(s) == {t \in Held : t >= s}

Yield(s) ==
  \/ /\ Ahead(s) = {}
     /\ ret' = NULL /\ iter' = NULL
     /\ UNCHANGED seen
  \/ \E t \in Ahead(s) :
       /\ \A u \in Ahead(s) : t <= u
       /\ ret' = slot[t].pointer /\ iter' = slot[t].key
       /\ seen' = seen \cup {t}

(* _pbcM_sp_next: without a key _find_first, with one the search for it.   *)
NextKey ==
  /\ pc = "idle"
  /\ op' = "next" /\ key' = iter /\ value' = NULL
  /\ \/ /\ iter = NULL
        /\ \/ /\ Held = {} /\ ret' = NULL /\ iter' = NULL /\ seen' = {}
           \/ \E t \in Held :
                /\ \A u \in Held : t <= u
                /\ ret' = slot[t].pointer /\ iter' = slot[t].key
                /\ seen' = {t}
        /\ UNCHANGED <<pc, at>>
     \/ /\ iter # NULL
        /\ pc' = "walk" /\ at' = Home(iter)
        /\ UNCHANGED <<ret, visit>>
  /\ UNCHANGED <<table, max, copy, past>>

----------------------------------------------------------------------------
(* The search along the chain *)

(* slot->hash == hash_full && strcmp(slot->key, key) == 0 *)
Match(s) == slot[s].hash = Hash[key] /\ slot[s].key = key

(* strcmp is reached with the null pointer of an empty slot. *)
Misled(s) == slot[s].hash = Hash[key] /\ slot[s].key = NULL

WalkFound ==
  /\ pc = "walk"
  /\ Match(at)
  /\ pc' = "idle"
  /\ \/ op \in {"query", "query_insert"} /\ ret' = slot[at].pointer /\ UNCHANGED visit
     \/ op = "next" /\ Yield(ScanFrom(at))
  /\ UNCHANGED <<table, max, op, key, value, at, copy, past>>

WalkNull ==
  /\ pc = "walk"
  /\ Misled(at)
  /\ pc' = "nullderef"
  /\ UNCHANGED <<table, max, op, key, value, at, ret, copy, visit, past>>

WalkOn ==
  /\ pc = "walk"
  /\ ~Match(at) /\ ~Misled(at)
  /\ slot[at].next # 0
  /\ at' = slot[at].next - 1
  /\ UNCHANGED <<table, max, pc, op, key, value, ret, copy, visit, past>>

WalkEnds ==
  /\ pc = "walk"
  /\ ~Match(at) /\ ~Misled(at)
  /\ slot[at].next = 0
  /\ \/ /\ op \in {"query", "next"}
        /\ pc' = "idle" /\ ret' = NULL
        /\ iter' = IF op = "next" THEN NULL ELSE iter
        /\ UNCHANGED <<table, copy, put>>
     \/ /\ op = "query_insert" /\ Full
        /\ StartRehash
        /\ UNCHANGED <<ret, iter, put>>
     \/ /\ op = "query_insert" /\ ~Full
        /\ PlaceBehind(at, key, value) /\ size' = size + 1
        /\ put' = put \cup {<<key, value>>}
        /\ pc' = "idle" /\ ret' = value
        /\ UNCHANGED <<cap, copy, iter>>
  /\ UNCHANGED <<max, op, key, value, at, seen, doubled>>

Walk == WalkFound \/ WalkNull \/ WalkOn \/ WalkEnds
Step == New \/ Rehash \/ InsertHash \/ QueryInsertHash \/ Walk

Next ==
  \/ \E p \in Pairs : Insert(p[1], p[2]) \/ QueryInsert(p[1], p[2])
  \/ \E k \in Keys : Query(k)
  \/ NextKey
  \/ Step

Spec == Init /\ [][Next]_vars

(* A call that was made runs. *)
FairSpec == Spec /\ WF_vars(Step)

----------------------------------------------------------------------------
SlotType == [key : Keys \cup {NULL}, hash : Nat, pointer : Pointers \cup {NULL}, next : Nat]

TableTypeOK ==
  /\ cap \in Nat \ {0} /\ size \in Nat /\ max \in Nat
  /\ slot \in [Slots -> SlotType]
  /\ \A s \in Slots : slot[s].next \in 0..cap
  /\ reach \in [Slots -> SUBSET Slots]

CallTypeOK ==
  /\ pc \in {"new", "idle", "insert", "query_insert", "rehash", "walk", "nullderef"}
  /\ op \in {"none", "insert", "query_insert", "query", "next"}
  /\ key \in Keys \cup {NULL} /\ value \in Pointers \cup {NULL}
  /\ ret \in Pointers \cup {NULL}
  /\ at \in Nat /\ (pc = "walk" => at \in Slots)
  /\ pc = "insert" => op = "insert"
  /\ pc = "query_insert" => op = "query_insert"
  /\ pc = "rehash" => op \in {"insert", "query_insert"}
  /\ pc = "walk" => op \in {"query_insert", "query", "next"}
  /\ pc \in {"insert", "query_insert", "rehash", "walk"} => key \in Keys
  /\ op \in {"insert", "query_insert"} => value \in Pointers
  /\ op = "query" => key \in Keys

CopyTypeOK ==
  /\ osize \in Nat /\ i \in 0..osize
  /\ old \in [0..(osize - 1) -> SlotType]
  /\ \A s \in 0..(osize - 1) : old[s].key \in Keys /\ old[s].pointer \in Pointers

HistoryTypeOK ==
  /\ iter \in Keys \cup {NULL} /\ seen \in SUBSET Nat
  /\ put \in SUBSET (Keys \X Pointers) /\ doubled \in SUBSET Keys

TypeOK == TableTypeOK /\ CallTypeOK /\ CopyTypeOK /\ HistoryTypeOK

----------------------------------------------------------------------------
(* The invariant of the table, whatever the call in progress.              *)

(* The chains: `next` leads from slot to slot without coming back, empty   *)
(* slots are on no chain, and an entry is on the chain of its home.        *)
ChainsLead ==
  \A s \in Slots : /\ reach[s] = {s} \cup Behind(s)
                   /\ s \notin Behind(s)
                   /\ \A t \in reach[s] : reach[t] \subseteq reach[s]

EmptySlotsApart ==
  \A e \in Slots \ Used : /\ slot[e] = Empty
                          /\ \A s \in Slots : e \in reach[s] => s = e

EntriesOnChain ==
  \A s \in Used : /\ slot[s].key \in Keys /\ slot[s].pointer \in Pointers
                  /\ slot[s].hash = Hash[slot[s].key]
                  /\ s \in reach[Home(slot[s].key)]

(* The fill level decides when to rehash. *)
SizeIsUsed == size = Cardinality(Used)

TableInv == TableTypeOK /\ ChainsLead /\ EmptySlotsApart /\ EntriesOnChain /\ SizeIsUsed

(* What the calls rely on: a search that is on its way can still find its  *)
(* key, old slots exist only while they are copied, an iteration looks for *)
(* the key it returned last and none is under way when the map changes.    *)
CallInv ==
  /\ pc = "walk" => /\ at \in reach[Home(key)]
                    /\ \A s \in Used : slot[s].key = key => s \in reach[at]
                    /\ op = "query_insert" => Home(key) \in Used
  /\ pc # "rehash" => osize = 0
  /\ pc = "new" => Used = {} /\ size = 0 /\ iter = NULL /\ op = "none"
  /\ pc = "walk" /\ op = "next" => key = iter
  /\ op \in {"insert", "query_insert"} /\ pc # "idle" => iter = NULL

(* An entry, in the table or among the old slots yet to be copied. *)
Uncopied == i..(osize - 1)
Stored(k, v) ==
  \/ \E s \in Used : slot[s].key = k /\ slot[s].pointer = v
  \/ \E s \in Uncopied : old[s].key = k /\ old[s].pointer = v

(* What was stored is there, and nothing else, through collisions of homes *)
(* and chains and through every growth of the table.                       *)
NothingLost == \A k \in Keys, v \in Pointers : Stored(k, v) <=> <<k, v>> \in put

(* A key has one entry, unless _pbcM_sp_insert was called for a key that   *)
(* had one: neither query_insert nor a rehash makes a second one.          *)
EntriesOnce ==
  /\ \A s, t \in Used : slot[s].key = slot[t].key /\ s # t => slot[s].key \in doubled
  /\ \A s \in Used, t \in Uncopied : slot[s].key = old[t].key => slot[s].key \in doubled
  /\ \A s, t \in Uncopied : old[s].key = old[t].key /\ s # t => old[s].key \in doubled

(* _pbcM_sp_query returns a pointer that was stored under the key, and null*)
(* only when there is none; a query_insert likewise, which always has one. *)
QueryAnswers ==
  pc = "idle" /\ op \in {"query", "query_insert"} =>
    \/ <<key, ret>> \in put
    \/ op = "query" /\ ret = NULL /\ ~Known(key)

(* While keys have one entry each, an iteration returns every entry that   *)
(* holds a pointer, once: those up to the last returned one, and at its end*)
(* all of them.                                                            *)
IterationComplete ==
  doubled = {} =>
    /\ pc \in {"idle", "walk"} /\ iter # NULL =>
         \E t \in Held : slot[t].key = iter /\ seen = {s \in Held : s <= t}
    /\ pc = "idle" /\ op = "next" /\ ret = NULL => seen = Held

(* The inductive invariant. *)
MapInv ==
  TypeOK /\ TableInv /\ CallInv /\ NothingLost /\ EntriesOnce /\ QueryAnswers /\ IterationComplete

(* Seen by its users the table is a StringMap: searches and every round of *)
(* a growth change nothing, and each call has its effect when it returns.  *)
Contents == {c \in Keys \X Pointers : Stored(c[1], c[2])}
Request ==
  IF pc \in {"new", "idle"} THEN [op |-> "none", key |-> NULL, value |-> NULL]
                            ELSE [op |-> op, key |-> key, value |-> value]

Promised == INSTANCE StringMap WITH content <- Contents, request <- Request, answer <- ret

ImplementsMap == Promised!MSpec

(* Every call returns: the search along a chain ends. *)
CallReturns == pc # "idle" ~> pc \in {"idle", "nullderef"}
=============================================================================
