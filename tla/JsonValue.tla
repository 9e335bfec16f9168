----------------------------- MODULE JsonValue -----------------------------
(***************************************************************************)
(* json_object.c: one container, an object on its hash table or an array   *)
(* on its array list, the values an application puts into it, their        *)
(* reference counts, and the container's text.                             *)
(*                                                                         *)
(* Every call runs to its end before the next one; printing takes a step   *)
(* for each printbuf_memappend(), which is where it may fail.  A symbol of *)
(* a text counts as one byte.  The values are strings, numbers and         *)
(* booleans; a container in a container is not modelled.  An operator      *)
(* named after another with a suffix is a variant with a plausible slip.   *)
(***************************************************************************)
EXTENDS JsonGrammar, LinkHash, ArrayList, PrintBuf

CONSTANTS
    HashSize,   \* JSON_OBJECT_DEF_HASH_ENTIRES, 16 in the code
    ListSize,   \* ARRAY_LIST_DEFAULT_SIZE, 32
    BufSize,    \* the size printbuf_new() allocates, 32
    Keys,       \* the keys the application uses, as texts
    Hashes,     \* what lh_char_hash() may make of them: functions from Keys
    Of,         \* the values: a function from nodes to [kind, text]
    MaxIdx,     \* bound: indices into an array
    Uses        \* the ways the application uses its container: see Use

ASSUME HashSizeAssumption == HashSize \in Nat \ {0}
ASSUME ListSizeAssumption == ListSize \in Nat \ {0}
ASSUME BufSizeAssumption == BufSize \in Nat \ {0}
ASSUME KeysAssumption ==
    /\ {EMPTY, FREED} \cap Keys = {}
    /\ \A hash \in Hashes : hash \in [Keys -> Nat]
ASSUME NodesAssumption == NULL \notin DOMAIN Of
ASSUME MaxIdxAssumption == MaxIdx \in Nat

Nodes == DOMAIN Of

(* Keys and strings are C strings; a number is what sprintf() makes of it; *)
(* "true" stands for both words for truth values.                          *)
CString(t) == t \in Seq(ToSet(t)) /\ NUL \notin ToSet(t)
Spelt(v) ==
    \/ v.kind = "string" /\ CString(v.text)
    \/ v.kind = "number" /\ v.text # << >> /\ v.text \in Seq(NumberChars) /\ IsNumber(v.text)
    \/ v.kind = "boolean" /\ v.text = <<"true">>
ASSUME TextsAssumption ==
    (\A key \in Keys : CString(key)) /\ (\A v \in Nodes : Spelt(Of[v]))

(* A bounded use of one container: its type, the keys with what their hash *)
(* values may be, the values, how many entries are deleted, whether it is  *)
(* printed, and how many references to a value the application may hold.   *)
Use(kind, keys, hashes, nodes, maxDels, prints, maxRefs) ==
    [kind |-> kind, keys |-> keys, hashes |-> hashes, nodes |-> nodes,
     maxDels |-> maxDels, prints |-> prints, maxRefs |-> maxRefs]

ASSUME UsesAssumption ==
    \A u \in Uses :
        /\ u.kind \in {"object", "array"} /\ u.keys \subseteq Keys
        /\ u.hashes \subseteq Hashes /\ u.nodes \subseteq Nodes
        /\ u.maxDels \in Nat

VARIABLES
    use,                    \* how the container is used
    got,                    \* what the last call returned
    hash,                   \* lh_char_hash()
    table, list,            \* c_object or c_array; the other one stays new
    refs, held,             \* _ref_count of each value; the application's share
    dels,                   \* entries deleted so far
    phase,                  \* what goes on: see Phases
    at,                     \* the index array_list_put_idx() last used
    pb, left, text          \* _pb, the pieces still to be appended, and its text

kind == use.kind
store == <<table, list, refs, held>>
vars == <<use, got, hash, store, dels, phase, at, pb, left, text>>

(* ready: between two calls; printing, torn: in json_object_to_json_-      *)
(* string(), torn once an append has failed; printed: a whole text was     *)
(* returned; freed: the container is gone; hung: a lookup that never       *)
(* returns; overrun: a slot behind the array was used.                     *)
Phases == {"ready", "printing", "torn", "printed", "freed", "hung", "overrun"}

NoBuffer == [size |-> 0, bpos |-> 0]

Init ==
    /\ use \in Uses /\ hash \in use.hashes
    /\ table = LhTableNew(HashSize) /\ list = ArrayListNew(ListSize)
    /\ refs = [v \in Nodes |-> 1] /\ held = refs
    /\ got = NULL /\ dels = 0 /\ at = NoSlot /\ phase = "ready"
    /\ pb = NoBuffer /\ left = << >> /\ text = << >>

(* The container can be called.                                            *)
Idle == phase \in {"ready", "printed"}

(* A call that returned v; nothing of the buffer changes.                  *)
Returns(v) ==
    /\ got' = v /\ phase' = "ready" /\ text' = << >>
    /\ UNCHANGED <<use, hash, pb, left>>

-----------------------------------------------------------------------------
(* Reference counts.                                                       *)

(* A variant: nobody's count goes down.                                    *)
PutKeeps(count, v) == count

(* json_object_put(), of NULL too.                                         *)
PutRef(count, v) == [u \in DOMAIN count |-> IF u = v THEN count[u] - 1 ELSE count[u]]

(* What the application may hand over, and its share afterwards.           *)
Mine(v) == v \in Nodes => held[v] > 0
HandOver(v) == [u \in Nodes |-> IF u = v THEN held[u] - 1 ELSE held[u]]

JsonObjectGet(v) ==
    /\ Idle /\ v \in Nodes /\ refs[v] > 0 /\ held[v] < use.maxRefs
    /\ refs' = [refs EXCEPT ![v] = @ + 1] /\ held' = [held EXCEPT ![v] = @ + 1]
    /\ Returns(NULL) /\ UNCHANGED <<table, list, dels, at>>

JsonObjectPut(v) ==
    /\ Idle \/ phase = "freed"
    /\ v \in Nodes /\ held[v] > 0
    /\ refs' = PutRef(refs, v) /\ held' = HandOver(v)
    /\ UNCHANGED <<use, got, hash, table, list, dels, phase, at, pb, left, text>>

-----------------------------------------------------------------------------
(* Objects.                                                                *)

InObject == Idle /\ kind = "object"

EntryValue(n) == IF n = NoSlot THEN NULL ELSE table.v[n]

(* A lookup without an end, in any of the three calls.                     *)
Hangs(key) ==
    /\ InObject /\ LhLookupLoops(table, key)
    /\ phase' = "hung" /\ UNCHANGED <<use, got, hash, store, dels, at, pb, left, text>>

(* lh_table_delete(): the entry's value is put.                            *)
Deleted(key) ==
    LET n == LhLookupEntry(table, hash, key) IN
    IF n = NoSlot THEN [table |-> table, refs |-> refs, dels |-> dels]
    ELSE [table |-> LhDeleteEntry(table, n), refs |-> PutRef(refs, table.v[n]),
          dels |-> dels + 1]

ObjectAddKey(key, v) ==
    /\ InObject /\ Mine(v) /\ ~LhLookupLoops(table, key)
    /\ LET d == Deleted(key) IN
       /\ d.dels =< use.maxDels /\ dels' = d.dels
       /\ table' = LhTableInsert(d.table, hash, key, v)
       /\ refs' = d.refs
    /\ held' = HandOver(v)
    /\ Returns(NULL) /\ UNCHANGED <<list, at>>

ObjectDel(key) ==
    /\ InObject /\ ~LhLookupLoops(table, key)
    /\ LET d == Deleted(key) IN
       /\ d.dels =< use.maxDels /\ dels' = d.dels
       /\ table' = d.table /\ refs' = d.refs
    /\ Returns(NULL) /\ UNCHANGED <<list, held, at>>

ObjectGet(key) ==
    /\ InObject /\ ~LhLookupLoops(table, key)
    /\ Returns(EntryValue(LhLookupEntry(table, hash, key)))
    /\ UNCHANGED <<store, dels, at>>

-----------------------------------------------------------------------------
(* Arrays.                                                                 *)

InArray == Idle /\ kind = "array"

Overruns(i) ==
    /\ InArray /\ Outside(list, i)
    /\ phase' = "overrun" /\ at' = i
    /\ UNCHANGED <<use, got, hash, store, dels, pb, left, text>>

ArrayPutIdx(i, v) ==
    /\ InArray /\ Mine(v) /\ ~Outside(list, i)
    /\ list' = PutIdx(list, i, v) /\ at' = i
    /\ refs' = PutRef(refs, Replaced(list, i)) /\ held' = HandOver(v)
    /\ Returns(NULL) /\ UNCHANGED <<table, dels>>

(* json_object_array_add() is a put_idx() at the length.                   *)
ArrayAppend(v) ==
    list.length =< MaxIdx /\ (ArrayPutIdx(list.length, v) \/ Overruns(list.length))

ArrayGetIdx(i) == InArray /\ Returns(GetIdx(list, i)) /\ UNCHANGED <<store, dels, at>>
-----------------------------------------------------------------------------
(* The text of a container.                                                *)

(* json_escape_str(): one piece for each run of characters that stay as    *)
(* they are and one for each that is escaped.  A backslash stays as it is. *)
EscapedControls == {"uhex"}
Escaped == {"dq", "uhex"}

AppendEscaped(pieces, c) ==
    IF c \in Escaped THEN Append(pieces, <<"bs", c>>)
    ELSE IF pieces = << >> \/ Last(Last(pieces)) \in Escaped THEN Append(pieces, <<c>>)
    ELSE Append(Front(pieces), Append(Last(pieces), c))
JsonEscapeStr(t) ==
    LET pieces[n \in 0..Len(t)] ==
            IF n = 0 THEN << >> ELSE AppendEscaped(pieces[n - 1], t[n])
    IN pieces[Len(t)]

Quoted(before, t, after) == <<before \o <<"dq">>>> \o JsonEscapeStr(t) \o <<<<"dq">> \o after>>

(* _to_json_string() of a value, or "null".                                *)
ValueToJsonString(v) ==
    IF v = NULL THEN <<<<"null">>>>
    ELSE IF Of[v].kind = "string" THEN Quoted(<< >>, Of[v].text, << >>)
    ELSE <<Of[v].text>>

(* Between two entries and in front of the first one.                      *)
ObjectPieces(t) ==
    LET slots == LhForeach(t)
        Field(i) == (IF i > 1 THEN <<<<",">>>> ELSE << >>)
                    \o Quoted(<<"sp">>, t.k[slots[i]], <<":", "sp">>)
                    \o ValueToJsonString(t.v[slots[i]])
    IN <<<<"{">>>> \o FlattenSeq([i \in DOMAIN slots |-> Field(i)]) \o <<<<"sp", "}">>>>

ArrayPieces(a) ==
    LET items == Items(a)
        Element(i) == <<IF i > 1 THEN <<",", "sp">> ELSE <<"sp">>>> \o ValueToJsonString(items[i])
    IN <<<<"[">>>> \o FlattenSeq([i \in DOMAIN items |-> Element(i)]) \o <<<<"sp", "]">>>>

(* json_object_to_json_string(): the buffer is made or reset.              *)
ToJsonString ==
    /\ Idle /\ use.prints
    /\ pb' = IF pb = NoBuffer THEN PrintbufNew(BufSize) ELSE PrintbufReset(pb)
    /\ left' = IF kind = "object" THEN ObjectPieces(table) ELSE ArrayPieces(list)
    /\ phase' = "printing" /\ text' = << >> /\ got' = NULL
    /\ UNCHANGED <<use, hash, store, dels, at>>

Printing == phase \in {"printing", "torn"}
PieceDone == left' = Tail(left) /\ UNCHANGED <<use, got, hash, store, dels, at>>

(* printbuf_memappend() of the next piece; the last one ends the call.     *)
AppendPiece ==
    /\ Printing /\ Len(Head(left)) \in Nat
    /\ pb' = Memappend(pb, Len(Head(left))) /\ text' = text \o Head(left)
    /\ phase' = IF Len(left) > 1 THEN phase ELSE IF phase = "torn" THEN "ready" ELSE "printed"
    /\ PieceDone

(* realloc() fails: the piece is missing and the call goes on; only the    *)
(* failure of the last append makes it return NULL.                        *)
AppendFails ==
    /\ Printing /\ Full(pb, Len(Head(left)))
    /\ phase' = IF Len(left) > 1 THEN "torn" ELSE "ready"
    /\ text' = IF Len(left) > 1 THEN text ELSE << >>
    /\ PieceDone /\ UNCHANGED pb
-----------------------------------------------------------------------------
(* The container's last reference is put: lh_table_free() or array_list_-  *)
(* free() puts every value that is still in it.                            *)
Places(v) ==
    IF kind = "object" THEN Cardinality({n \in Used(table) : table.v[n] = v})
    ELSE Cardinality({i \in DOMAIN Items(list) : Items(list)[i] = v})

Delete ==
    /\ Idle
    /\ refs' = [v \in Nodes |-> refs[v] - Places(v)]
    /\ phase' = "freed" /\ got' = NULL /\ text' = << >>
    /\ pb' = NoBuffer
    /\ UNCHANGED <<use, hash, table, list, held, dels, at, left>>

Next ==
    \/ \E key \in use.keys :
          \/ Hangs(key) \/ ObjectDel(key) \/ ObjectGet(key)
          \/ \E v \in use.nodes \cup {NULL} : ObjectAddKey(key, v)
    \/ \E v \in use.nodes \cup {NULL} :
          ArrayAppend(v) \/ \E i \in 0 .. MaxIdx : ArrayPutIdx(i, v)
    \/ \E i \in 0 .. MaxIdx : Overruns(i) \/ ArrayGetIdx(i)
    \/ \E v \in use.nodes : JsonObjectGet(v) \/ JsonObjectPut(v)
    \/ ToJsonString \/ AppendPiece \/ AppendFails \/ Delete

Spec == Init /\ [][Next]_vars

-----------------------------------------------------------------------------
(* Properties.                                                             *)

TypeOK ==
    /\ use \in Uses /\ hash \in Hashes /\ phase \in Phases
    /\ got \in Nodes \cup {NULL}
    /\ refs \in [Nodes -> Int] /\ held \in [Nodes -> Int]
    /\ dels \in Nat /\ at \in Int
    /\ pb \in [size : Nat, bpos : Nat]
    /\ list.length \in 0 .. list.size /\ DOMAIN list.array = 0 .. list.size - 1
    /\ \A i \in DOMAIN list.array : i >= list.length => list.array[i] = NULL

Kids ==
    IF kind = "object"
    THEN LET slots == LhForeach(table) IN
         [i \in DOMAIN slots |-> Entry(table.k[slots[i]], table.v[slots[i]])]
    ELSE [i \in DOMAIN Items(list) |-> Entry(<< >>, Items(list)[i])]

Abstract == INSTANCE JsonStore WITH kids <- Kids

(* Through collisions, deletions, reuse of freed slots and growth the      *)
(* container stays the map, or the list, that json_object.h describes, and *)
(* every call returns what that map or list holds.                         *)
ImplementsStore == Abstract!Spec

(* Whatever is added, replaced, deleted or freed, a value is referred to   *)
(* by exactly its places in the container and the application's share: it  *)
(* is freed when the last of them is gone and no earlier.                  *)
CountsReferences ==
    \A v \in Nodes :
        refs[v] = held[v] + (IF phase = "freed" THEN 0 ELSE Places(v))

(* A search goes on for ever only after so many deletions that freed slots *)
(* fill what the load limit leaves of the table.                           *)
HangNeedsDeletions ==
    phase = "hung" => dels >= table.size - (66 * table.size) \div 100 - 1

(* A slot behind the array is used only for an index of at least twice the *)
(* size the array had; an element that is appended has its slot.           *)
OverrunNeedsGap ==
    phase = "overrun" => at >= 2 * list.size /\ at > list.length

(* The terminator is always inside the buffer, whichever growth failed.    *)
BufferInBounds == pb # NoBuffer => pb.bpos < pb.size

(* The value a text without backslashes has to denote.                     *)
TreeOf(v) == IF v = NULL THEN NullValue ELSE Value(Of[v].kind, Of[v].text, << >>)
Tree == Value(kind, << >>, [i \in DOMAIN Kids |-> [Kids[i] EXCEPT !.val = TreeOf(@)]])
Plain ==
    \A i \in DOMAIN Kids :
        /\ "bs" \notin ToSet(Kids[i].key)
        /\ Kids[i].val # NULL => "bs" \notin ToSet(Of[Kids[i].val].text)

(* A text that is printed without a failure denotes the container it was   *)
(* printed from, however its keys and values mix quotes, controls and      *)
(* delimiters, as long as none of them has a backslash. With a backslash,  *)
(* which json_escape_str() leaves alone, it may denote something else or   *)
(* nothing, although json_object.h:89-91 promises JSON.                    *)
PrintedTextParsesBack == phase = "printed" /\ Plain => Meaning(text) = Tree
=============================================================================
