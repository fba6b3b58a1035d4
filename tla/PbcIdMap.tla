------------------------------ MODULE PbcIdMap ------------------------------
(***************************************************************************)
(* The maps of pbc that are filled once: map_ip, from the numbers of fields*)
(* and enum values to pointers, and map_si, from the names of enum values  *)
(* to numbers.  Both are tables with as many slots as entries; map_ip is a *)
(* plain array when the numbers are small.  An entry is [key, hash, val];  *)
(* a look-up yields the set of what was found, one value or none.          *)
(***************************************************************************)
EXTENDS Integers, FiniteSetsExt, SequencesExt

(* Slots are numbered from 1, and next is 0 at the end of a chain.         *)
Vacant(slots) == {k \in DOMAIN slots : slots[k].entry = <<>>}
HomeOf(slots, hash) == (hash % Len(slots)) + 1

(* empty_slot->next = slot->next; as a mutant, left out.                   *)
NextOfCut(slots, home) == 0
NextOf(slots, home) == slots[home].next

(* One round of the loop: at home, or in the first empty slot, linked in   *)
(* behind the home slot.                                                   *)
FillHome(slots, home, e) == [slots EXCEPT ![home].entry = <<e>>]
FillFree(slots, home, free, e) ==
  [slots EXCEPT ![free] = [entry |-> <<e>>, next |-> NextOf(slots, home)], ![home].next = free]
Fill(slots, e) ==
  IF HomeOf(slots, e.hash) \in Vacant(slots) THEN FillHome(slots, HomeOf(slots, e.hash), e)
  ELSE FillFree(slots, HomeOf(slots, e.hash), Min(Vacant(slots)), e)

(* _pbcM_ip_new_hash, _pbcM_si_new *)
Hashed(entries) == FoldLeft(Fill, [k \in DOMAIN entries |-> [entry |-> <<>>, next |-> 0]], entries)

(* The loop of _pbcM_ip_query and _pbcM_si_query.  An empty slot has next 0*)
(* and, where it matches the number 0, a null pointer.                     *)
Along(slots, key) ==
  LET found[at \in DOMAIN slots] ==
        IF slots[at].entry # <<>> /\ slots[at].entry[1].key = key THEN {slots[at].entry[1].val}
        ELSE IF slots[at].next = 0 THEN {} ELSE found[slots[at].next]
  IN  found
LookUp(slots, hash, key) == Along(slots, key)[HomeOf(slots, hash)]

----------------------------------------------------------------------------
(* (unsigned)id, of which only remainders are taken                        *)
Remainder(id, size) == IF id >= 0 THEN id % size ELSE (id + (2^16 % size) * (2^16 % size)) % size

(* _pbcM_ip_new: an array up to the largest number, unless one is negative *)
(* or more than twice the number of entries.  A table is a sequence of     *)
(* [id, pointer]; of entries for the same number the array keeps the last. *)
Sparse(t) == \E i \in DOMAIN t : t[i].id < 0 \/ t[i].id > 2 * Len(t)
IpHashed(t) ==
  Hashed([i \in DOMAIN t |-> [key |-> t[i].id, hash |-> Remainder(t[i].id, Len(t)), val |-> t[i].pointer]])
Holding(t, id) == {i \in DOMAIN t : t[i].id = id}
IpArray(t) ==
  [id \in 0..Max({t[i].id : i \in DOMAIN t}) |->
     IF Holding(t, id) = {} THEN {} ELSE {t[Max(Holding(t, id))].pointer}]
IpNew(t) == [sparse |-> Sparse(t), map |-> IF Sparse(t) THEN IpHashed(t) ELSE IpArray(t)]

(* _pbcM_ip_query *)
IpQuery(m, id) ==
  IF m.sparse THEN LookUp(m.map, Remainder(id, Len(m.map)), id)
  ELSE IF id \in DOMAIN m.map THEN m.map[id] ELSE {}

(* _pbcM_si_new and _pbcM_si_query; hash: calc_hash                        *)
SiNew(t, hash) == Hashed([i \in DOMAIN t |-> [key |-> t[i].pointer, hash |-> hash[t[i].pointer], val |-> t[i].id]])
SiQuery(m, hash, name) == LookUp(m, hash[name], name)
=============================================================================
