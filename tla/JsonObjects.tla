---------------------------- MODULE JsonObjects ----------------------------
(***************************************************************************)
(* The objects of the vendored json-c library: a heap of reference counted *)
(* nodes.  A pointer is the index of a node, NULL, or what error_ptr()     *)
(* makes of an error number.                                               *)
(***************************************************************************)
EXTENDS Integers, Sequences, SequencesExt

NULL == 0
ErrorPtr == -1      \* an error is_error() recognises
Truncated == -2     \* an error whose upper half was lost, and it does not

IsError(p) == p = ErrorPtr

Kinds == {"object", "array", "string", "number", "boolean"}

(* json_object_new() and the constructors built on it: refs counts from 1. *)
Node(kind, text) == [kind |-> kind, refs |-> 1, text |-> text, kids |-> << >>]

Entry(key, val) == [key |-> key, val |-> val]

(* The entry of a key, which has at most one.                              *)
HasKey(kids, key) == \E i \in DOMAIN kids : kids[i].key = key
Find(kids, key) == CHOOSE i \in DOMAIN kids : kids[i].key = key
Under(kids, key) == IF HasKey(kids, key) THEN <<kids[Find(kids, key)]>> ELSE << >>
Without(kids, key) == IF HasKey(kids, key) THEN RemoveAt(kids, Find(kids, key)) ELSE kids
Values(kids) == [i \in DOMAIN kids |-> kids[i].val]

(* An operator named after another with a suffix is a variant of it with   *)
(* one plausible slip.                                                     *)

(* json_object_object_add(): the entry of that key, if any, is deleted     *)
(* (its value is put) and the new one goes to the end; the value's count   *)
(* stays as it is.                                                         *)
ObjectAddKeeps(h, o, key, v) ==
    [h EXCEPT ![o].kids = Append(@, Entry(key, v))]

ObjectAdd(h, o, key, v) ==
    [h EXCEPT ![o].kids = Append(Without(@, key), Entry(key, v))]
DisplacedKept(h, o, key) == << >>
Displaced(h, o, key) == Values(Under(h[o].kids, key))

(* json_object_array_add().                                                *)
ArrayAddShared(h, o, v) ==
    [h EXCEPT ![o].kids = Append(@, Entry(<< >>, v)),
              ![IF v \in DOMAIN h THEN v ELSE o].refs = @ + 1]

ArrayAdd(h, o, v) == [h EXCEPT ![o].kids = Append(@, Entry(<< >>, v))]

(* json_object_put() of a live node: the last reference deletes the node   *)
(* and puts what it holds.                                                 *)
Put(h, o) == [h EXCEPT ![o].refs = @ - 1]
PutNextShallow(h, o) == << >>
PutNext(h, o) == IF h[o].refs = 1 THEN Values(h[o].kids) ELSE << >>

IsObject(h, p) == p \in DOMAIN h /\ h[p].kind = "object"
=============================================================================
