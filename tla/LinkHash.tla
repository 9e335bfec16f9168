------------------------------ MODULE LinkHash ------------------------------
(***************************************************************************)
(* linkhash.c: a hash table with open addressing whose used slots are      *)
(* chained in the order of their insertion.                                *)
(*                                                                         *)
(* A table is a record; slots count from 0 and NoSlot is the NULL of its   *)
(* pointers.  hash gives each key its hash value.  The statistics the      *)
(* table keeps, and calloc() failing (which ends the process), are left    *)
(* out.  An operator named after another with a suffix is a variant of it  *)
(* with one plausible slip.                                                *)
(***************************************************************************)
EXTENDS Integers, Sequences, SequencesExt

NoSlot == -1
EMPTY == <<"LH_EMPTY">>
FREED == <<"LH_FREED">>

LhTableNew(size) ==
    LET Slots == 0 .. size - 1 IN
    [size |-> size, count |-> 0, head |-> NoSlot, tail |-> NoSlot,
     k |-> [n \in Slots |-> EMPTY], v |-> [n \in Slots |-> 0],
     next |-> [n \in Slots |-> NoSlot], prev |-> [n \in Slots |-> NoSlot]]

Used(t) == {n \in DOMAIN t.k : t.k[n] \notin {EMPTY, FREED}}
WithKey(t, key) == {n \in DOMAIN t.k : t.k[n] = key}

(* The first slot of S met from slot home on, going round.                 *)
Probe(t, home, S) ==
    LET At(d) == (home + d) % t.size
        d == CHOOSE d \in DOMAIN t.k : At(d) \in S /\ \A e \in 0 .. d - 1 : At(e) \notin S
    IN At(d)

(* lh_foreach: the slots from the head on.                                 *)
LhForeach(t) ==
    LET From[n \in DOMAIN t.k \cup {NoSlot}] ==
            IF n = NoSlot THEN << >> ELSE <<n>> \o From[t.next[n]]
    IN From[t.head]

(* lh_table_insert() where no growth is due: the first slot that is not in *)
(* use, at the end of the chain.                                           *)
Place(t, hash, key, val) ==
    LET n == Probe(t, hash[key] % t.size, DOMAIN t.k \ Used(t)) IN
    [t EXCEPT !.k[n] = key, !.v[n] = val, !.count = @ + 1, !.tail = n,
              !.head = IF t.head = NoSlot THEN n ELSE @,
              !.next = IF t.head = NoSlot THEN [@ EXCEPT ![n] = NoSlot]
                       ELSE [@ EXCEPT ![t.tail] = n, ![n] = NoSlot],
              !.prev[n] = IF t.head = NoSlot THEN NoSlot ELSE t.tail]

(* lh_table_resize(): the entries go into a new table in the order of the  *)
(* chain; freed slots are left behind.                                     *)
LhTableResize(t, hash, size) ==
    LET slots == LhForeach(t)
        Moved[i \in 0 .. Len(slots)] ==
            IF i = 0 THEN LhTableNew(size)
            ELSE Place(Moved[i - 1], hash, t.k[slots[i]], t.v[slots[i]])
    IN Moved[Len(slots)]

(* Variant: a table grows when it is full.                                 *)
LoadedFull(t) == t.count = t.size

(* `count > size * 0.66'.                                                  *)
Loaded(t) == 100 * t.count > 66 * t.size

LhTableInsert(t, hash, key, val) ==
    Place(IF Loaded(t) THEN LhTableResize(t, hash, 2 * t.size) ELSE t, hash, key, val)

(* lh_table_lookup_entry(): goes on over used and freed slots, and never   *)
(* returns when there is neither the key nor an empty slot.                *)
LhLookupLoops(t, key) == WithKey(t, EMPTY) = {} /\ WithKey(t, key) = {}

(* Variant: a freed slot ends the search like an empty one.                *)
LhLookupEntryStops(t, hash, key) ==
    LET n == Probe(t, hash[key] % t.size,
                   WithKey(t, EMPTY) \cup WithKey(t, FREED) \cup WithKey(t, key))
    IN IF t.k[n] = key THEN n ELSE NoSlot

LhLookupEntry(t, hash, key) ==
    LET n == Probe(t, hash[key] % t.size, WithKey(t, EMPTY) \cup WithKey(t, key))
    IN IF t.k[n] = key THEN n ELSE NoSlot

(* lh_table_delete_entry(): the slot is marked as freed and taken out of   *)
(* the chain; its four cases differ in which neighbours there are.         *)
LhDeleteEntry(t, n) ==
    LET p == t.prev[n]
        q == t.next[n]
    IN [t EXCEPT !.k[n] = FREED, !.v[n] = 0, !.count = @ - 1,
                 !.head = IF @ = n THEN q ELSE @,
                 !.tail = IF @ = n THEN p ELSE @,
                 !.next = [i \in DOMAIN @ |-> IF i = n THEN NoSlot ELSE IF i = p THEN q ELSE @[i]],
                 !.prev = [i \in DOMAIN @ |-> IF i = n THEN NoSlot ELSE IF i = q THEN p ELSE @[i]]]
=============================================================================
