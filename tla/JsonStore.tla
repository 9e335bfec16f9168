----------------------------- MODULE JsonStore -----------------------------
(***************************************************************************)
(* What json_object.h promises of a container: an object is a sequence of  *)
(* entries in the order of their insertion, with one entry for each key;   *)
(* an array is a sequence of values, NULL where nothing has been put.      *)
(***************************************************************************)
EXTENDS JsonObjects

CONSTANTS Keys, Nodes, MaxIdx

VARIABLES
    kind,       \* "object" or "array"
    kids,       \* its entries; those of an array have no key
    got         \* what the last call returned

vars == <<kind, kids, got>>

Init == kind \in {"object", "array"} /\ kids = << >> /\ got = NULL

Becomes(s) == kids' = s /\ got' = NULL /\ UNCHANGED kind
Returns(v) == got' = v /\ UNCHANGED <<kind, kids>>
First(s) == IF s = << >> THEN NULL ELSE s[1].val

Store(key, v) == kind = "object" /\ Becomes(Append(Without(kids, key), Entry(key, v)))
Erase(key) == kind = "object" /\ Becomes(Without(kids, key))
Lookup(key) == kind = "object" /\ Returns(First(Under(kids, key)))

PutAt(i, v) ==
    /\ kind = "array"
    /\ Becomes([j \in 1 .. IF i < Len(kids) THEN Len(kids) ELSE i + 1 |->
                   IF j = i + 1 THEN Entry(<< >>, v)
                   ELSE IF j =< Len(kids) THEN kids[j] ELSE Entry(<< >>, NULL)])
Push(v) == PutAt(Len(kids), v)
At(i) == kind = "array" /\ Returns(IF i < Len(kids) THEN kids[i + 1].val ELSE NULL)

(* Calls that do not concern the container's contents return nothing.      *)
Other == Returns(NULL)

Next ==
    \/ \E key \in Keys : Erase(key) \/ Lookup(key) \/ \E v \in Nodes \cup {NULL} : Store(key, v)
    \/ \E v \in Nodes \cup {NULL} : Push(v) \/ \E i \in 0 .. MaxIdx : PutAt(i, v)
    \/ \E i \in 0 .. MaxIdx : At(i)
    \/ Other

Spec == Init /\ [][Next]_vars
=============================================================================
