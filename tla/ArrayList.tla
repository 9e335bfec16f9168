----------------------------- MODULE ArrayList -----------------------------
(***************************************************************************)
(* arraylist.c: an array of pointers that grows.  Its indices count from   *)
(* 0; slots behind its length are NULL.  realloc() failing is left out.    *)
(***************************************************************************)
EXTENDS Integers

ArrayListNew(size) == [size |-> size, length |-> 0, array |-> [i \in 0 .. size - 1 |-> 0]]

(* Variant: an index that equals the size is taken to fit.                 *)
ExpandInternalLate(a, idx) ==
    IF idx =< a.size THEN a
    ELSE LET size == IF 2 * a.size >= idx THEN 2 * a.size ELSE idx
         IN [a EXCEPT !.size = size,
                      !.array = [i \in 0 .. size - 1 |-> IF i < a.size THEN @[i] ELSE 0]]

(* array_list_expand_internal(): twice the size, or as many slots as the   *)
(* index says.                                                             *)
ExpandInternal(a, idx) ==
    IF idx < a.size THEN a
    ELSE LET size == IF 2 * a.size >= idx THEN 2 * a.size ELSE idx
         IN [a EXCEPT !.size = size,
                      !.array = [i \in 0 .. size - 1 |-> IF i < a.size THEN @[i] ELSE 0]]

(* array_list_put_idx() writes its slot after the expansion.               *)
Outside(a, idx) == idx >= ExpandInternal(a, idx).size

PutIdx(a, idx, val) ==
    LET b == ExpandInternal(a, idx) IN
    [b EXCEPT !.array[idx] = val, !.length = IF @ =< idx THEN idx + 1 ELSE @]

(* What put_idx() frees, and what get_idx() returns.                       *)
GetIdx(a, idx) == IF idx >= a.length THEN 0 ELSE a.array[idx]
Replaced(a, idx) == IF idx < a.size THEN a.array[idx] ELSE 0

Items(a) == [i \in 1 .. a.length |-> a.array[i - 1]]
=============================================================================
