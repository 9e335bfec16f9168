-------------------------- MODULE JsonValueProofs --------------------------
(***************************************************************************)
(* Proofs about the array, the text buffer, the hash table and the         *)
(* reference counts of JsonValue, and that it implements JsonStore, for    *)
(* initial sizes, indices, keys, hash values and values of any kind.       *)
(***************************************************************************)
EXTENDS JsonValue, JsonGrammarProofs, FiniteSetTheorems

(* An array is a record that never claims more elements than it has slots. *)
Fits(a) ==
    /\ DOMAIN a = {"size", "length", "array"} /\ a = [f \in DOMAIN a |-> a[f]]
    /\ a.size \in Nat \ {0} /\ a.length \in 0 .. a.size
ListFits == Fits(list)

(* The buffer's size and position are numbers.                             *)
BufferType == pb \in [size : Nat, bpos : Nat]

IInv == ListFits /\ BufferType /\ OverrunNeedsGap /\ BufferInBounds

-----------------------------------------------------------------------------
(* Whatever is appended, the terminator has room, and the size is right.   *)
LEMMA MemappendFits ==
    ASSUME NEW p \in [size : Nat, bpos : Nat], NEW n \in Nat
    PROVE  /\ Memappend(p, n) \in [size : Nat, bpos : Nat]
           /\ Memappend(p, n).bpos < Memappend(p, n).size
BY DEF Memappend, Full, NewSize

(* An index whose slot is there after the expansion leaves an array whose  *)
(* length fits.                                                            *)
LEMMA PutIdxFits ==
    ASSUME NEW a, Fits(a), NEW i \in Nat, NEW v, ~ Outside(a, i)
    PROVE  Fits(PutIdx(a, i, v))
<1> DEFINE b == ExpandInternal(a, i)
           c == PutIdx(a, i, v)
<1>1. DOMAIN b = {"size", "length", "array"} /\ b = [f \in DOMAIN b |-> b[f]]
      /\ b.size \in Nat \ {0} /\ b.length = a.length /\ a.size =< b.size
  <2>1. CASE i < a.size
    <3>1. b = a
      BY <2>1 DEF ExpandInternal
    <3> QED BY <3>1 DEF Fits
  <2>2. CASE ~ (i < a.size)
    <3> DEFINE size == IF 2 * a.size >= i THEN 2 * a.size ELSE i
               array == [j \in 0 .. size - 1 |-> IF j < a.size THEN a.array[j] ELSE 0]
    <3>1. b = [a EXCEPT !.size = size, !.array = array]
      BY <2>2 DEF ExpandInternal, Fits
    <3>2. DOMAIN b = DOMAIN a /\ b = [f \in DOMAIN b |-> b[f]]
      BY <3>1
    <3>3. b.size = size /\ b.length = a.length
      BY <3>1 DEF Fits
    <3>4. size \in Nat \ {0} /\ a.size =< size
      BY DEF Fits
    <3> QED BY <3>2, <3>3, <3>4 DEF Fits
  <2> QED BY <2>1, <2>2
<1>2. i < b.size
  BY <1>1 DEF Outside
<1>3. DOMAIN c = {"size", "length", "array"} /\ c = [f \in DOMAIN c |-> c[f]]
  BY <1>1 DEF PutIdx
<1>4. c.size = b.size /\ c.length = IF b.length =< i THEN i + 1 ELSE b.length
  BY <1>1 DEF PutIdx
<1>5. b.length \in Nat /\ b.length =< b.size
  BY <1>1 DEF Fits
<1> QED BY <1>1, <1>2, <1>3, <1>4, <1>5 DEF Fits

(* An index has no slot after the expansion only if it leaves a gap.       *)
LEMMA OutsideNeedsGap ==
    ASSUME NEW a, Fits(a), NEW i \in Nat, Outside(a, i)
    PROVE  i >= 2 * a.size /\ i > a.length
<1>1. a.size \in Nat \ {0} /\ a.length \in Nat /\ a.length =< a.size
  BY DEF Fits
<1>2. CASE i < a.size
  BY <1>1, <1>2 DEF Outside, ExpandInternal
<1>3. CASE ~ (i < a.size)
  <2> DEFINE size == IF 2 * a.size >= i THEN 2 * a.size ELSE i
  <2>1. ExpandInternal(a, i).size = size
    BY <1>3 DEF ExpandInternal, Fits
  <2> QED BY <1>1, <1>3, <2>1 DEF Outside
<1> QED BY <1>2, <1>3

-----------------------------------------------------------------------------
(* The invariant holds initially.                                          *)
LEMMA InitIInv == Init => IInv
<1> SUFFICES ASSUME Init PROVE IInv
  OBVIOUS
<1>1. ListFits
  BY ListSizeAssumption DEF Init, ListFits, Fits, ArrayListNew
<1>2. BufferType /\ OverrunNeedsGap /\ BufferInBounds
  BY DEF Init, BufferType, OverrunNeedsGap, BufferInBounds, NoBuffer
<1> QED BY <1>1, <1>2 DEF IInv

(* A step of a call that leaves the array and the buffer alone keeps it,   *)
(* unless it runs over the array.                                          *)
LEMMA QuietStep ==
    ASSUME IInv, UNCHANGED <<list, pb>>, phase' = "overrun" => UNCHANGED <<phase, at>>
    PROVE  IInv'
BY DEF IInv, ListFits, Fits, BufferType, OverrunNeedsGap, BufferInBounds

(* Every step keeps it.                                                    *)
LEMMA NextIInv == IInv /\ [Next]_vars => IInv'
<1> SUFFICES ASSUME IInv, [Next]_vars PROVE IInv'
  OBVIOUS
<1> USE DEF store
<1>1. ASSUME NEW key \in use.keys, Hangs(key) PROVE IInv'
  BY <1>1, QuietStep DEF Hangs
<1>2. ASSUME NEW key \in use.keys, ObjectDel(key) PROVE IInv'
  BY <1>2, QuietStep DEF ObjectDel, Returns
<1>3. ASSUME NEW key \in use.keys, ObjectGet(key) PROVE IInv'
  BY <1>3, QuietStep DEF ObjectGet, Returns
<1>4. ASSUME NEW key \in use.keys, NEW v \in use.nodes \cup {NULL}, ObjectAddKey(key, v)
      PROVE  IInv'
  BY <1>4, QuietStep DEF ObjectAddKey, Returns
<1>5. ASSUME NEW i \in Nat, NEW v, ArrayPutIdx(i, v) PROVE IInv'
  <2>1. list' = PutIdx(list, i, v) /\ ~ Outside(list, i) /\ phase' = "ready" /\ pb' = pb
    BY <1>5 DEF ArrayPutIdx, Returns
  <2>2. Fits(PutIdx(list, i, v))
    BY <2>1, PutIdxFits DEF IInv, ListFits
  <2>3. ListFits'
    BY <2>1, <2>2 DEF ListFits, Fits
  <2> QED BY <2>1, <2>3 DEF IInv, BufferType, OverrunNeedsGap, BufferInBounds
<1>6. ASSUME NEW i \in Nat, Overruns(i) PROVE IInv'
  <2>1. i >= 2 * list.size /\ i > list.length
    BY <1>6, OutsideNeedsGap DEF Overruns, IInv, ListFits
  <2>2. at' = i /\ UNCHANGED <<list, pb>>
    BY <1>6 DEF Overruns
  <2> QED BY <2>1, <2>2 DEF IInv, ListFits, Fits, BufferType, OverrunNeedsGap, BufferInBounds
<1>7. ASSUME NEW v \in use.nodes \cup {NULL}, ArrayAppend(v) PROVE IInv'
  <2>1. list.length \in Nat
    BY DEF IInv, ListFits, Fits
  <2> QED BY <1>5, <1>6, <1>7, <2>1 DEF ArrayAppend
<1>8. ASSUME NEW i \in Nat, ArrayGetIdx(i) PROVE IInv'
  BY <1>8, QuietStep DEF ArrayGetIdx, Returns
<1>9. ASSUME NEW v \in use.nodes, JsonObjectGet(v) PROVE IInv'
  BY <1>9, QuietStep DEF JsonObjectGet, Returns
<1>10. ASSUME NEW v \in use.nodes, JsonObjectPut(v) PROVE IInv'
  BY <1>10, QuietStep DEF JsonObjectPut
<1>11. ASSUME ToJsonString PROVE IInv'
  BY <1>11, BufSizeAssumption
     DEF ToJsonString, PrintbufNew, PrintbufReset, NoBuffer,
         IInv, ListFits, Fits, BufferType, OverrunNeedsGap, BufferInBounds
<1>12. ASSUME AppendPiece PROVE IInv'
  <2>1. PICK n \in Nat : pb' = Memappend(pb, n)
    BY <1>12 DEF AppendPiece
  <2>2. BufferType' /\ BufferInBounds'
    BY <2>1, MemappendFits DEF IInv, BufferType, BufferInBounds
  <2>3. phase' \in {"printing", "torn", "ready", "printed"} /\ UNCHANGED list
    BY <1>12 DEF AppendPiece, Printing, PieceDone
  <2> QED BY <2>2, <2>3 DEF IInv, ListFits, Fits, OverrunNeedsGap
<1>13. ASSUME AppendFails PROVE IInv'
  BY <1>13, QuietStep DEF AppendFails, PieceDone
<1>14. ASSUME Delete PROVE IInv'
  BY <1>14 DEF Delete, NoBuffer,
               IInv, ListFits, Fits, BufferType, OverrunNeedsGap, BufferInBounds
<1>15. CASE UNCHANGED vars
  BY <1>15, QuietStep DEF vars
<1> QED
  <2>1. \A i \in 0 .. MaxIdx : i \in Nat
    BY MaxIdxAssumption
  <2> QED BY <2>1, <1>1, <1>2, <1>3, <1>4, <1>5, <1>6, <1>7, <1>8, <1>9, <1>10, <1>11, <1>12,
             <1>13, <1>14, <1>15 DEF Next

-----------------------------------------------------------------------------
(* The terminator of the text is inside the buffer, whatever is printed,   *)
(* however the buffer grew before and whichever growth failed              *)
(* (printbuf_memappend).                                                   *)
THEOREM TerminatorInside == Spec => []BufferInBounds
<1>1. IInv => BufferInBounds
  BY DEF IInv
<1> QED BY InitIInv, NextIInv, <1>1, PTL DEF Spec

(* array_list_put_idx() leaves the array only for an index of at least     *)
(* twice its size; json_object_array_add() never does.                     *)
THEOREM AppendsStayInside == Spec => []OverrunNeedsGap
<1>1. IInv => OverrunNeedsGap
  BY DEF IInv
<1> QED BY InitIInv, NextIInv, <1>1, PTL DEF Spec

-----------------------------------------------------------------------------
(* Tables as records of the code's fields, and what keeps one together.    *)
Texts == Keys \cup {EMPTY, FREED}
Referred == Nodes \cup {NULL}
Sized(z) ==
    [size : {z}, count : Nat, head : Int, tail : Int,
     k : [0 .. z - 1 -> Texts], v : [0 .. z - 1 -> Referred],
     next : [0 .. z - 1 -> Int], prev : [0 .. z - 1 -> Int]]

(* The chain of a table: each used slot once, linked both ways.            *)
Chain(t, s) ==
    /\ s \in Seq(Int)
    /\ \A n \in Used(t) : \E i \in DOMAIN s : s[i] = n
    /\ \A i \in DOMAIN s :
          /\ s[i] \in Used(t) /\ \A j \in DOMAIN s : s[i] = s[j] => i = j
          /\ t.next[s[i]] = IF i = Len(s) THEN NoSlot ELSE s[i + 1]
          /\ t.prev[s[i]] = IF i = 1 THEN NoSlot ELSE s[i - 1]
    /\ t.head = IF s = << >> THEN NoSlot ELSE s[1]
    /\ t.tail = IF s = << >> THEN NoSlot ELSE s[Len(s)]
    /\ \A n \in DOMAIN t.k \ Used(t) : t.next[n] = NoSlot

TableFits(t) ==
    /\ t.size \in Nat \ {0} /\ t \in Sized(t.size)
    /\ t.count = Cardinality(Used(t))
    /\ \E s : Chain(t, s)

(* The slots that hold a value.                                            *)
Holding(t, w) == {n \in Used(t) : t.v[n] = w}

(* Every set of slots of a table is finite.                                *)
LEMMA SlotsFinite ==
    ASSUME NEW z \in Nat, NEW S \in SUBSET (0 .. z - 1)
    PROVE  IsFiniteSet(S) /\ Cardinality(S) \in Nat /\ Cardinality(S) =< z
<1>1. IsFiniteSet(0 .. z - 1) /\ Cardinality(0 .. z - 1) = z
  <2>1. 0 \in Int /\ z - 1 \in Int
    OBVIOUS
  <2> QED BY <2>1, FS_Interval
<1> QED BY <1>1, FS_Subset, FS_CardinalityType

LEMMA Wraps ==
    ASSUME NEW m \in Nat \ {0}, NEW x \in 0 .. m - 1
    PROVE  x % m = x /\ (x + m) % m = x
OBVIOUS

LEMMA Remains ==
    ASSUME NEW m \in Nat \ {0}, NEW x \in Nat
    PROVE  x % m \in 0 .. m - 1
OBVIOUS

(* A search that goes round the table ends in the set it looks for, and    *)
(* meets nothing of it before.                                             *)
LEMMA ProbeFits ==
    ASSUME NEW t, NEW z \in Nat \ {0}, t.size = z, DOMAIN t.k = 0 .. z - 1,
           NEW home \in 0 .. z - 1, NEW S \in SUBSET (0 .. z - 1), S # {}
    PROVE  \E d \in 0 .. z - 1 :
              /\ Probe(t, home, S) = (home + d) % z /\ Probe(t, home, S) \in S
              /\ \A e \in 0 .. d - 1 : (home + e) % z \notin S
<1> DEFINE At(d) == (home + d) % t.size
           Meets(d) == At(d) \in S /\ \A e \in 0 .. d - 1 : At(e) \notin S
           D == {d \in 0 .. z - 1 : At(d) \in S}
<1>1. D # {}
  <2>1. PICK n \in S : TRUE
    OBVIOUS
  <2>2. CASE n >= home
    <3>1. n - home \in 0 .. z - 1 /\ home + (n - home) = n
      BY <2>2
    <3>2. At(n - home) = n
      BY <3>1, Wraps
    <3> QED BY <3>1, <3>2
  <2>3. CASE n < home
    <3>1. n + z - home \in 0 .. z - 1 /\ home + (n + z - home) = n + z
      BY <2>3
    <3>2. At(n + z - home) = n
      BY <3>1, Wraps
    <3> QED BY <3>1, <3>2
  <2> QED BY <2>2, <2>3
<1>2. PICK d \in D : \A e \in D : ~(e < d)
  <2>1. D \in SUBSET Nat
    OBVIOUS
  <2> QED BY <1>1, <2>1, Least
<1>3. d \in DOMAIN t.k /\ Meets(d)
  BY <1>2
<1> HIDE DEF D
<1>4. PICK x : x = CHOOSE y \in DOMAIN t.k : Meets(y)
  OBVIOUS
<1>5. x \in DOMAIN t.k /\ Meets(x)
  BY <1>3, <1>4
<1>6. Probe(t, home, S) = At(x)
  BY <1>4 DEF Probe
<1> QED BY <1>5, <1>6

(* What a table's fields range over.                                       *)
LEMMA FieldsFit ==
    ASSUME NEW z \in Nat \ {0}, NEW t \in Sized(z)
    PROVE  /\ t.size = z /\ t.count \in Nat /\ t.head \in Int /\ t.tail \in Int
           /\ t.k \in [0 .. z - 1 -> Texts] /\ t.v \in [0 .. z - 1 -> Referred]
           /\ t.next \in [0 .. z - 1 -> Int] /\ t.prev \in [0 .. z - 1 -> Int]
           /\ DOMAIN t.k = 0 .. z - 1 /\ Used(t) \subseteq 0 .. z - 1
BY DEF Sized, Used

(* What putting a key into slot n does to the chain's fields.              *)
Links(t, n, key, u) ==
    /\ u.k = [t.k EXCEPT ![n] = key] /\ u.tail = n
    /\ u.head = (IF t.head = NoSlot THEN n ELSE t.head)
    /\ u.next = (IF t.head = NoSlot THEN [t.next EXCEPT ![n] = NoSlot]
                 ELSE [t.next EXCEPT ![t.tail] = n, ![n] = NoSlot])
    /\ u.prev = [t.prev EXCEPT ![n] = IF t.head = NoSlot THEN NoSlot ELSE t.tail]

(* The fields after an insertion.                                          *)
LEMMA PlaceFields ==
    ASSUME NEW z \in Nat \ {0}, NEW t \in Sized(z), NEW key \in Keys, NEW val \in Referred,
           hash \in [Keys -> Nat], Used(t) # 0 .. z - 1
    PROVE  \E n \in (0 .. z - 1) \ Used(t) :
             LET u == Place(t, hash, key, val)
             IN  /\ n = Probe(t, hash[key] % t.size, DOMAIN t.k \ Used(t))
                 /\ u \in Sized(z) /\ u.count = t.count + 1 /\ u.v = [t.v EXCEPT ![n] = val]
                 /\ Links(t, n, key, u)
<1> DEFINE n == Probe(t, hash[key] % t.size, DOMAIN t.k \ Used(t))
           first == t.head = NoSlot
           u == Place(t, hash, key, val)
           next == IF first THEN [t.next EXCEPT ![n] = NoSlot]
                   ELSE [t.next EXCEPT ![t.tail] = n, ![n] = NoSlot]
           w == [size |-> z, count |-> t.count + 1, head |-> IF first THEN n ELSE t.head,
                 tail |-> n, k |-> [t.k EXCEPT ![n] = key], v |-> [t.v EXCEPT ![n] = val],
                 next |-> next, prev |-> [t.prev EXCEPT ![n] = IF first THEN NoSlot ELSE t.tail]]
<1>1. n \in (0 .. z - 1) \ Used(t)
  <2>1. hash[key] % z \in 0 .. z - 1
    BY Remains
  <2>2. DOMAIN t.k \ Used(t) # {} /\ DOMAIN t.k \ Used(t) \in SUBSET (0 .. z - 1)
    BY FieldsFit
  <2>3. t.size = z /\ DOMAIN t.k = 0 .. z - 1
    BY FieldsFit
  <2>4. PICK h \in 0 .. z - 1 : h = hash[key] % t.size
    BY <2>1, <2>3
  <2>5. PICK S : S = DOMAIN t.k \ Used(t)
    OBVIOUS
  <2>6. Probe(t, h, S) \in S
    BY <2>2, <2>3, <2>5, ProbeFits
  <2> QED BY <2>3, <2>4, <2>5, <2>6
<1>2. n \in Int /\ key \in Texts /\ NoSlot \in Int
  BY <1>1 DEF Texts, NoSlot
<1>3. u = w
  <2>1. u = [t EXCEPT !.k[n] = key, !.v[n] = val, !.count = @ + 1, !.tail = n,
                      !.head = IF first THEN n ELSE @,
                      !.next = IF first THEN [@ EXCEPT ![n] = NoSlot]
                               ELSE [@ EXCEPT ![t.tail] = n, ![n] = NoSlot],
                      !.prev[n] = IF first THEN NoSlot ELSE t.tail]
    BY Zenon DEF Place
  <2> HIDE DEF n, u
  <2>2. /\ DOMAIN t = {"size", "count", "head", "tail", "k", "v", "next", "prev"}
        /\ t.size = z
    BY DEF Sized
  <2>3. DOMAIN u = DOMAIN t /\ u = [f \in DOMAIN t |-> u[f]]
    BY <2>1
  <2>4. /\ u.size = z /\ u.count = t.count + 1 /\ u.tail = n
        /\ u.head = (IF first THEN n ELSE t.head)
        /\ u.k = [t.k EXCEPT ![n] = key] /\ u.v = [t.v EXCEPT ![n] = val]
    BY <2>1, <2>2
  <2>5. u.next = next /\ u.prev = [t.prev EXCEPT ![n] = IF first THEN NoSlot ELSE t.tail]
    BY <2>1, <2>2
  <2>6. DOMAIN w = DOMAIN t /\ w = [f \in DOMAIN t |-> w[f]]
    BY <2>2
  <2> QED BY <2>2, <2>3, <2>4, <2>5, <2>6
<1> HIDE DEF n
<1>4. next \in [0 .. z - 1 -> Int]
  <2>1. [t.next EXCEPT ![n] = NoSlot] \in [0 .. z - 1 -> Int]
    BY <1>2, FieldsFit
  <2>2. [t.next EXCEPT ![t.tail] = n, ![n] = NoSlot] \in [0 .. z - 1 -> Int]
    <3>1. [t.next EXCEPT ![t.tail] = n] \in [0 .. z - 1 -> Int]
      BY <1>2, FieldsFit
    <3> QED BY <1>2, <3>1
  <2> QED BY <2>1, <2>2
<1> HIDE DEF next, u
<1>5. w \in Sized(z)
  <2>1. t.count + 1 \in Nat /\ (IF first THEN n ELSE t.head) \in Int
    BY <1>2, FieldsFit
  <2>2. [t.k EXCEPT ![n] = key] \in [0 .. z - 1 -> Texts]
    BY <1>2, FieldsFit
  <2>3. [t.v EXCEPT ![n] = val] \in [0 .. z - 1 -> Referred]
    BY FieldsFit
  <2>4. [t.prev EXCEPT ![n] = IF first THEN NoSlot ELSE t.tail] \in [0 .. z - 1 -> Int]
    <3>1. (IF first THEN NoSlot ELSE t.tail) \in Int
      BY <1>2, FieldsFit
    <3> QED BY <3>1, FieldsFit
  <2> QED BY <1>2, <1>4, <2>1, <2>2, <2>3, <2>4 DEF Sized
<1>6. /\ u \in Sized(z) /\ u.count = t.count + 1 /\ u.tail = n
      /\ u.k = [t.k EXCEPT ![n] = key] /\ u.v = [t.v EXCEPT ![n] = val]
      /\ u.head = (IF first THEN n ELSE t.head) /\ u.next = next
      /\ u.prev = [t.prev EXCEPT ![n] = IF first THEN NoSlot ELSE t.tail]
  BY <1>3, <1>5
<1>7. Links(t, n, key, u)
  BY <1>6 DEF Links, next
<1>8. n = Probe(t, hash[key] % t.size, DOMAIN t.k \ Used(t))
  BY DEF n
<1> QED BY <1>1, <1>6, <1>7, <1>8 DEF u

(* The fields after a deletion.                                            *)
LEMMA DeleteFields ==
    ASSUME NEW z \in Nat \ {0}, NEW t \in Sized(z), NEW n \in Used(t), t.count > 0
    PROVE  LET u == LhDeleteEntry(t, n)
               p == t.prev[n]
               q == t.next[n]
           IN  /\ u \in Sized(z) /\ u.count = t.count - 1
               /\ u.k = [t.k EXCEPT ![n] = FREED] /\ u.v = [t.v EXCEPT ![n] = NULL]
               /\ u.head = (IF t.head = n THEN q ELSE t.head)
               /\ u.tail = (IF t.tail = n THEN p ELSE t.tail)
               /\ \A i \in 0 .. z - 1 :
                     /\ u.next[i] = IF i = n THEN NoSlot ELSE IF i = p THEN q ELSE t.next[i]
                     /\ u.prev[i] = IF i = n THEN NoSlot ELSE IF i = q THEN p ELSE t.prev[i]
<1> DEFINE p == t.prev[n]
           q == t.next[n]
           u == LhDeleteEntry(t, n)
           next == [i \in 0 .. z - 1 |-> IF i = n THEN NoSlot ELSE IF i = p THEN q ELSE t.next[i]]
           prev == [i \in 0 .. z - 1 |-> IF i = n THEN NoSlot ELSE IF i = q THEN p ELSE t.prev[i]]
           w == [size |-> z, count |-> t.count - 1, head |-> IF t.head = n THEN q ELSE t.head,
                 tail |-> IF t.tail = n THEN p ELSE t.tail,
                 k |-> [t.k EXCEPT ![n] = FREED], v |-> [t.v EXCEPT ![n] = NULL],
                 next |-> next, prev |-> prev]
<1>1. n \in 0 .. z - 1 /\ p \in Int /\ q \in Int
  BY FieldsFit
<1>2. u = w
  <2>1. u = [t EXCEPT !.k[n] = FREED, !.v[n] = 0, !.count = @ - 1,
                      !.head = IF @ = n THEN q ELSE @, !.tail = IF @ = n THEN p ELSE @,
                      !.next = [i \in DOMAIN @ |-> IF i = n THEN NoSlot ELSE IF i = p THEN q ELSE @[i]],
                      !.prev = [i \in DOMAIN @ |-> IF i = n THEN NoSlot ELSE IF i = q THEN p ELSE @[i]]]
    BY Zenon DEF LhDeleteEntry
  <2> HIDE DEF u, p, q
  <2>2. /\ DOMAIN t = {"size", "count", "head", "tail", "k", "v", "next", "prev"}
        /\ t.size = z /\ DOMAIN t.next = 0 .. z - 1 /\ DOMAIN t.prev = 0 .. z - 1
    BY DEF Sized
  <2>3. DOMAIN u = DOMAIN t /\ u = [f \in DOMAIN t |-> u[f]]
    BY <2>1
  <2>4. /\ u.size = z /\ u.count = t.count - 1
        /\ u.head = (IF t.head = n THEN q ELSE t.head)
        /\ u.tail = (IF t.tail = n THEN p ELSE t.tail)
        /\ u.k = [t.k EXCEPT ![n] = FREED] /\ u.v = [t.v EXCEPT ![n] = NULL]
    BY <2>1, <2>2 DEF NULL
  <2>5. u.next = next /\ u.prev = prev
    BY <2>1, <2>2
  <2>6. DOMAIN w = DOMAIN t /\ w = [f \in DOMAIN t |-> w[f]]
    BY <2>2
  <2> QED BY <2>2, <2>3, <2>4, <2>5, <2>6
<1> HIDE DEF u, p, q
<1>3. next \in [0 .. z - 1 -> Int] /\ prev \in [0 .. z - 1 -> Int]
  BY <1>1, FieldsFit DEF NoSlot
<1>4. w \in Sized(z)
  <2>1. t.count - 1 \in Nat /\ w.head \in Int /\ w.tail \in Int
    BY <1>1, FieldsFit
  <2>2. w.k \in [0 .. z - 1 -> Texts] /\ w.v \in [0 .. z - 1 -> Referred]
    BY FieldsFit DEF Texts, Referred
  <2> HIDE DEF next, prev
  <2> QED BY <1>3, <2>1, <2>2 DEF Sized
<1> QED BY <1>2, <1>4 DEF p, q, u

(* An insertion takes a slot that is not in use and puts it at the end of  *)
(* the chain.                                                              *)
LEMMA PlaceChain ==
    ASSUME NEW z \in Nat \ {0}, NEW t \in Sized(z), NEW s, Chain(t, s),
           NEW n \in (0 .. z - 1) \ Used(t), NEW key \in Keys, NEW u \in Sized(z),
           Links(t, n, key, u)
    PROVE  Used(u) = Used(t) \cup {n} /\ Chain(u, Append(s, n))
<1> DEFINE r == Append(s, n)
           m == Len(s)
<1>1. /\ t.k \in [0 .. z - 1 -> Texts] /\ DOMAIN t.k = 0 .. z - 1 /\ DOMAIN u.k = 0 .. z - 1
      /\ t.next \in [0 .. z - 1 -> Int] /\ t.prev \in [0 .. z - 1 -> Int]
      /\ Used(t) \subseteq 0 .. z - 1 /\ n \in 0 .. z - 1 /\ n \notin Used(t)
  BY FieldsFit
<1>2. /\ u.k = [t.k EXCEPT ![n] = key] /\ u.tail = n
      /\ u.head = (IF t.head = NoSlot THEN n ELSE t.head)
      /\ u.next = (IF t.head = NoSlot THEN [t.next EXCEPT ![n] = NoSlot]
                   ELSE [t.next EXCEPT ![t.tail] = n, ![n] = NoSlot])
      /\ u.prev = [t.prev EXCEPT ![n] = IF t.head = NoSlot THEN NoSlot ELSE t.tail]
  BY DEF Links
<1>3. key \notin {EMPTY, FREED} /\ n \in Int
  BY KeysAssumption
<1>4. Used(u) = Used(t) \cup {n}
  BY <1>1, <1>2, <1>3 DEF Used
<1>5. /\ s \in Seq(Int) /\ m \in Nat /\ DOMAIN s = 1 .. m
      /\ \A i \in DOMAIN s : s[i] \in Used(t) /\ s[i] \in 0 .. z - 1 /\ s[i] # n
  <2>1. s \in Seq(Int) /\ \A i \in DOMAIN s : s[i] \in Used(t)
    BY DEF Chain
  <2>2. m \in Nat /\ DOMAIN s = 1 .. m
    BY <2>1
  <2> QED BY <1>1, <1>2, <2>1, <2>2
<1>6. r \in Seq(Int) /\ Len(r) = m + 1 /\ DOMAIN r = 1 .. m + 1 /\ r[m + 1] = n
      /\ \A i \in DOMAIN s : r[i] = s[i]
  BY <1>3, <1>5, AppendProperties
<1>7. t.head = NoSlot <=> m = 0
  <2>1. m > 0 => s # << >> /\ s[1] # NoSlot
    <3>1. m > 0 => 1 \in DOMAIN s /\ s # << >>
      BY <1>5
    <3>2. NoSlot \notin 0 .. z - 1
      BY DEF NoSlot
    <3> QED BY <1>5, <3>1, <3>2
  <2>2. m = 0 => s = << >>
    BY <1>5, EmptySeq
  <2> QED BY <1>5, <2>1, <2>2 DEF Chain
<1>8. m > 0 => t.tail = s[m] /\ t.head = s[1]
  <2>1. m > 0 => s # << >>
    BY <1>5
  <2> QED BY <2>1 DEF Chain
<1> HIDE DEF r, m
<1>9. \A n1 \in Used(u) : \E i \in DOMAIN r : r[i] = n1
  <2>1. \A n1 \in Used(t) : \E i \in DOMAIN s : s[i] = n1
    BY DEF Chain
  <2> QED BY <1>4, <1>5, <1>6, <2>1
<1>10. ASSUME NEW i \in DOMAIN r
       PROVE  /\ r[i] \in Used(u) /\ \A j \in DOMAIN r : r[i] = r[j] => i = j
              /\ u.next[r[i]] = IF i = Len(r) THEN NoSlot ELSE r[i + 1]
              /\ u.prev[r[i]] = IF i = 1 THEN NoSlot ELSE r[i - 1]
  <2>1. CASE i = m + 1
    <3>1. r[i] \in Used(u) /\ \A j \in DOMAIN r : r[i] = r[j] => i = j
      BY <1>4, <1>5, <1>6, <2>1
    <3>2. u.next[n] = NoSlot
      BY <1>1, <1>2
    <3>3. u.prev[n] = IF i = 1 THEN NoSlot ELSE r[i - 1]
      <4>1. u.prev[n] = IF t.head = NoSlot THEN NoSlot ELSE t.tail
        BY <1>1, <1>2
      <4>2. m > 0 => r[i - 1] = s[m]
        BY <1>5, <1>6, <2>1
      <4> QED BY <1>5, <1>7, <1>8, <2>1, <4>1, <4>2
    <3> QED BY <1>6, <2>1, <3>1, <3>2, <3>3
  <2>2. CASE i # m + 1
    <3>1. i \in DOMAIN s /\ i \in Int /\ i =< m /\ m > 0 /\ r[i] = s[i]
      BY <1>5, <1>6, <2>2
    <3>2. /\ s[i] \in Used(t) /\ \A j \in DOMAIN s : s[i] = s[j] => i = j
          /\ t.next[s[i]] = IF i = m THEN NoSlot ELSE s[i + 1]
          /\ t.prev[s[i]] = IF i = 1 THEN NoSlot ELSE s[i - 1]
      BY <3>1 DEF Chain, m
    <3>3. r[i] \in Used(u) /\ \A j \in DOMAIN r : r[i] = r[j] => i = j
      <4>1. \A j \in DOMAIN r : j \in DOMAIN s \/ r[j] = n
        BY <1>5, <1>6
      <4> QED BY <1>4, <1>5, <1>6, <3>1, <3>2, <4>1
    <3>4. u.prev[s[i]] = IF i = 1 THEN NoSlot ELSE r[i - 1]
      <4>1. u.prev[s[i]] = t.prev[s[i]]
        BY <1>5, <3>1, <1>1, <1>2
      <4>2. i # 1 => i - 1 \in DOMAIN s
        BY <1>5, <3>1
      <4> QED BY <1>6, <3>2, <4>1, <4>2
    <3>5. u.next[s[i]] = IF i = m + 1 THEN NoSlot ELSE r[i + 1]
      <4>1. u.next = [t.next EXCEPT ![s[m]] = n, ![n] = NoSlot]
        BY <1>7, <1>8, <1>2, <3>1
      <4>2. m \in DOMAIN s /\ (s[i] = s[m] <=> i = m)
        BY <1>5, <3>1, <3>2
      <4>3. u.next[s[i]] = IF i = m THEN n ELSE t.next[s[i]]
        <5>1. s[i] \in 0 .. z - 1 /\ s[i] # n
          BY <1>5, <3>1
        <5>2. u.next[s[i]] = IF s[i] = s[m] THEN n ELSE t.next[s[i]]
          BY <1>1, <1>2, <4>1, <5>1
        <5> QED BY <4>2, <5>2
      <4>4. i # m => i + 1 \in DOMAIN s
        BY <1>5, <3>1
      <4> QED BY <1>6, <2>2, <3>1, <3>2, <4>3, <4>4
    <3> QED BY <1>6, <3>1, <3>3, <3>4, <3>5
  <2> QED BY <2>1, <2>2
<1>11. u.head = r[1] /\ u.tail = r[Len(r)] /\ r # << >>
  <2>1. 1 \in DOMAIN r /\ Len(r) = m + 1 /\ r # << >>
    BY <1>5, <1>6
  <2>2. u.tail = r[Len(r)]
    BY <1>6, <1>2
  <2>3. CASE m = 0
    BY <1>6, <1>7, <1>2, <2>1, <2>3
  <2>4. CASE m > 0
    <3>1. 1 \in DOMAIN s
      BY <1>5, <2>4
    <3> QED BY <1>6, <1>7, <1>8, <1>2, <2>1, <2>2, <2>4, <3>1
  <2> QED BY <1>5, <2>1, <2>2, <2>3, <2>4
<1>12. ASSUME NEW n1 \in DOMAIN u.k \ Used(u) PROVE u.next[n1] = NoSlot
  <2>1. n1 \in DOMAIN t.k \ Used(t) /\ n1 # n /\ n1 \in 0 .. z - 1
    BY <1>4, <1>12, <1>1, <1>2
  <2>2. t.next[n1] = NoSlot
    BY <2>1 DEF Chain
  <2>3. CASE t.head = NoSlot
    BY <2>1, <2>2, <2>3, <1>1, <1>2
  <2>4. CASE t.head # NoSlot
    <3>1. t.tail \in Used(t)
      BY <1>5, <1>7, <1>8, <2>4
    <3>2. n1 # t.tail
      BY <2>1, <3>1
    <3>3. u.next = [t.next EXCEPT ![t.tail] = n, ![n] = NoSlot]
      BY <1>2, <2>4
    <3> QED BY <1>1, <1>2, <2>1, <2>2, <3>2, <3>3
  <2> QED BY <2>3, <2>4
<1>13. Chain(u, r)
  BY <1>6, <1>9, <1>10, <1>11, <1>12 DEF Chain
<1> QED BY <1>4, <1>13 DEF r

LEMMA RemoveFits ==
    ASSUME NEW S, NEW s \in Seq(S), NEW a \in DOMAIN s
    PROVE  LET r == RemoveAt(s, a)
           IN  /\ r \in Seq(S) /\ Len(r) = Len(s) - 1
               /\ \A i \in 1 .. Len(s) - 1 : (i < a => r[i] = s[i]) /\ (i >= a => r[i] = s[i + 1])
<1> DEFINE b == SubSeq(s, 1, a - 1)
           c == SubSeq(s, a + 1, Len(s))
<1>1. b \in Seq(S) /\ Len(b) = a - 1 /\ \A i \in 1 .. a - 1 : b[i] = s[i]
  BY SubSeqProperties
<1>2. c \in Seq(S) /\ Len(c) = Len(s) - a /\ \A i \in 1 .. Len(s) - a : c[i] = s[a + i]
  BY SubSeqProperties
<1>3. RemoveAt(s, a) = b \o c
  BY DEF RemoveAt
<1> HIDE DEF b, c
<1>4. /\ b \o c \in Seq(S) /\ Len(b \o c) = Len(b) + Len(c)
      /\ \A i \in 1 .. Len(b) + Len(c) : (b \o c)[i] = IF i <= Len(b) THEN b[i] ELSE c[i - Len(b)]
  BY <1>1, <1>2, ConcatProperties
<1>5. a \in 1 .. Len(s) /\ Len(s) \in Nat
  OBVIOUS
<1>6. ASSUME NEW i \in 1 .. Len(s) - 1
      PROVE  (i < a => (b \o c)[i] = s[i]) /\ (i >= a => (b \o c)[i] = s[i + 1])
  <2>1. i \in 1 .. Len(b) + Len(c) /\ Len(b) = a - 1
    BY <1>1, <1>2, <1>5
  <2>2. CASE i < a
    <3>1. i \in 1 .. a - 1 /\ i <= Len(b)
      BY <1>5, <2>1, <2>2
    <3>2. (b \o c)[i] = b[i]
      BY <1>4, <2>1, <3>1
    <3>3. b[i] = s[i]
      BY <1>1, <3>1
    <3> QED BY <2>2, <3>2, <3>3
  <2>3. CASE ~(i < a)
    <3>1. i - Len(b) \in 1 .. Len(s) - a /\ a + (i - Len(b)) = i + 1
      BY <1>1, <1>5, <2>3
    <3>2. c[i - Len(b)] = s[i + 1]
      BY <1>2, <3>1
    <3>3. ~(i <= Len(b))
      BY <1>5, <2>1, <2>3
    <3>4. (b \o c)[i] = c[i - Len(b)]
      BY <1>4, <2>1, <3>3
    <3> QED BY <2>3, <3>2, <3>4
  <2> QED BY <2>2, <2>3
<1>7. Len(b \o c) = Len(s) - 1
  BY <1>1, <1>2, <1>4, <1>5
<1> QED BY <1>3, <1>4, <1>6, <1>7

(* What a deletion of slot n does to the chain's fields.                   *)
Unlinks(t, n, u) ==
    /\ u.k = [t.k EXCEPT ![n] = FREED]
    /\ u.head = (IF t.head = n THEN t.next[n] ELSE t.head)
    /\ u.tail = (IF t.tail = n THEN t.prev[n] ELSE t.tail)
    /\ \A i \in DOMAIN t.k :
          /\ u.next[i] = IF i = n THEN NoSlot
                         ELSE IF i = t.prev[n] THEN t.next[n] ELSE t.next[i]
          /\ u.prev[i] = IF i = n THEN NoSlot
                         ELSE IF i = t.next[n] THEN t.prev[n] ELSE t.prev[i]

(* A deletion takes a slot out of the chain, wherever it stands there.     *)
LEMMA DeleteChain ==
    ASSUME NEW z \in Nat \ {0}, NEW t \in Sized(z), NEW s, Chain(t, s),
           NEW a \in DOMAIN s, NEW n \in Used(t), s[a] = n,
           NEW u \in Sized(z), Unlinks(t, n, u)
    PROVE  Used(u) = Used(t) \ {n} /\ Chain(u, RemoveAt(s, a))
<1> DEFINE m == Len(s)
           r == RemoveAt(s, a)
<1>1. /\ t.k \in [0 .. z - 1 -> Texts] /\ DOMAIN t.k = 0 .. z - 1 /\ DOMAIN u.k = 0 .. z - 1
      /\ Used(t) \subseteq 0 .. z - 1 /\ n \in 0 .. z - 1
  BY FieldsFit
<1>2. Used(u) = Used(t) \ {n}
  BY <1>1 DEF Used, Unlinks
<1>3. /\ u.head = (IF t.head = n THEN t.next[n] ELSE t.head)
      /\ u.tail = (IF t.tail = n THEN t.prev[n] ELSE t.tail)
      /\ \A i \in 0 .. z - 1 :
           /\ u.next[i] = IF i = n THEN NoSlot
                          ELSE IF i = t.prev[n] THEN t.next[n] ELSE t.next[i]
           /\ u.prev[i] = IF i = n THEN NoSlot
                          ELSE IF i = t.next[n] THEN t.prev[n] ELSE t.prev[i]
  BY <1>1 DEF Unlinks
<1>4. /\ s \in Seq(Int) /\ m \in Nat /\ DOMAIN s = 1 .. m
      /\ \A i \in DOMAIN s : s[i] \in Used(t) /\ s[i] \in 0 .. z - 1 /\ s[i] # NoSlot
  <2>1. s \in Seq(Int) /\ \A i \in DOMAIN s : s[i] \in Used(t)
    BY DEF Chain
  <2>2. m \in Nat /\ DOMAIN s = 1 .. m
    BY <2>1
  <2>3. NoSlot \notin 0 .. z - 1
    BY DEF NoSlot
  <2> QED BY <1>1, <2>1, <2>2, <2>3
<1>5. a \in DOMAIN s /\ s[a] = n
  OBVIOUS
<1>6. m \in Nat /\ DOMAIN s = 1 .. m /\ a \in 1 .. m /\ s \in Seq(Int)
  BY <1>4
<1>7. /\ r \in Seq(Int) /\ Len(r) = m - 1 /\ DOMAIN r = 1 .. m - 1
      /\ \A i \in 1 .. m - 1 : (i < a => r[i] = s[i]) /\ (i >= a => r[i] = s[i + 1])
  <2>1. /\ r \in Seq(Int) /\ Len(r) = m - 1
        /\ \A i \in 1 .. m - 1 : (i < a => r[i] = s[i]) /\ (i >= a => r[i] = s[i + 1])
    BY <1>6, RemoveFits
  <2>2. DOMAIN r = 1 .. m - 1
    BY <2>1
  <2> QED BY <2>1, <2>2
<1>8. /\ \A i, j \in DOMAIN s : s[i] = s[j] => i = j
      /\ \A i \in DOMAIN s : /\ t.next[s[i]] = IF i = m THEN NoSlot ELSE s[i + 1]
                             /\ t.prev[s[i]] = IF i = 1 THEN NoSlot ELSE s[i - 1]
      /\ t.head = s[1] /\ t.tail = s[m] /\ m > 0 /\ 1 \in DOMAIN s /\ m \in DOMAIN s
  <2>1. m > 0 /\ s # << >> /\ 1 \in DOMAIN s /\ m \in DOMAIN s
    BY <1>4
  <2> QED BY <2>1 DEF Chain
<1>9. \A i, j \in DOMAIN s : s[i] = s[j] => i = j
  BY <1>8
<1>10. /\ \A i \in 1 .. m : s[i] # NoSlot
       /\ \A i \in 1 .. m : t.next[s[i]] = IF i = m THEN NoSlot ELSE s[i + 1]
       /\ \A i \in 1 .. m : t.prev[s[i]] = IF i = 1 THEN NoSlot ELSE s[i - 1]
  BY <1>4, <1>8, <1>6
<1> HIDE DEF r, m
<1>11. /\ t.next[n] = IF a = m THEN NoSlot ELSE s[a + 1]
       /\ t.prev[n] = IF a = 1 THEN NoSlot ELSE s[a - 1]
       /\ a # m => a + 1 \in DOMAIN s
       /\ a # 1 => a - 1 \in DOMAIN s
  BY <1>4, <1>5, <1>8
<1>12. ASSUME NEW w \in Used(u) PROVE \E i \in DOMAIN r : r[i] = w
  <2>1. PICK j \in 1 .. m : s[j] = w
    BY <1>2, <1>12, <1>6 DEF Chain
  <2>2. j # a
    BY <1>2, <1>5, <2>1
  <2>3. CASE j < a
    <3>1. j \in 1 .. m - 1
      BY <1>6, <2>3
    <3> QED BY <1>7, <2>1, <2>3, <3>1
  <2>4. CASE j > a
    <3>1. j - 1 \in 1 .. m - 1 /\ j - 1 >= a /\ (j - 1) + 1 = j
      BY <1>6, <2>4
    <3>2. r[j - 1] = s[j]
      BY <1>7, <3>1
    <3> QED BY <1>7, <2>1, <3>1, <3>2
  <2> QED BY <1>6, <2>2, <2>3, <2>4
(* Place i of the new chain was place l of the old one.                    *)
<1>13. ASSUME NEW i \in DOMAIN r
       PROVE  /\ r[i] \in Used(u) /\ \A j \in DOMAIN r : r[i] = r[j] => i = j
              /\ u.next[r[i]] = IF i = Len(r) THEN NoSlot ELSE r[i + 1]
              /\ u.prev[r[i]] = IF i = 1 THEN NoSlot ELSE r[i - 1]
  <2>1. ASSUME NEW j \in DOMAIN r
        PROVE  \E l \in 1 .. m : /\ l # a /\ r[j] = s[l] /\ j \in 1 .. m - 1
                                 /\ (j < a /\ l = j) \/ (j >= a /\ l = j + 1)
    <3>1. j \in 1 .. m - 1
      BY <1>7
    <3>2. CASE j < a
      <4>1. j \in 1 .. m /\ j # a
        BY <1>6, <3>1, <3>2
      <4> QED BY <1>7, <3>1, <3>2, <4>1
    <3>3. CASE j >= a
      <4>1. j + 1 \in 1 .. m /\ j + 1 # a
        BY <1>6, <3>1, <3>3
      <4> QED BY <1>7, <3>1, <3>3, <4>1
    <3> QED BY <1>6, <3>1, <3>2, <3>3
  <2>2. PICK l \in 1 .. m : /\ l # a /\ r[i] = s[l] /\ i \in 1 .. m - 1
                            /\ (i < a /\ l = i) \/ (i >= a /\ l = i + 1)
    BY <2>1
  <2>3. l \in 1 .. m /\ l \in DOMAIN s /\ l \in Int
    BY <1>6
  <2>4. s[l] # n /\ s[l] \in Used(t) /\ s[l] \in 0 .. z - 1
    BY <1>4, <1>5, <1>8, <2>2
  <2>5. r[i] \in Used(u)
    BY <1>2, <2>2, <2>4
  <2>6. ASSUME NEW j \in DOMAIN r, r[i] = r[j] PROVE i = j
    <3>1. PICK k \in 1 .. m : /\ r[j] = s[k] /\ j \in 1 .. m - 1
                              /\ (j < a /\ k = j) \/ (j >= a /\ k = j + 1)
      BY <2>1
    <3>2. l = k
      <4>1. s[l] = s[k] /\ l \in DOMAIN s /\ k \in DOMAIN s
        BY <1>6, <2>2, <2>6, <3>1
      <4> QED BY <1>9, <4>1
    <3> QED BY <1>6, <2>2, <3>1, <3>2
  <2>7. u.next[s[l]] = IF i = m - 1 THEN NoSlot ELSE r[i + 1]
    <3>1. CASE l = a - 1
      <4>1. i = a - 1 /\ i + 1 = a /\ (i = m - 1 <=> a = m) /\ a # 1
        BY <1>6, <2>2, <3>1
      <4>2. u.next[s[l]] = t.next[n]
        BY <1>11, <1>3, <2>4, <3>1, <4>1
      <4>3. a # m => r[i + 1] = s[a + 1]
        <5>1. a # m => a \in 1 .. m - 1
          BY <1>6
        <5> QED BY <1>7, <4>1, <5>1
      <4> QED BY <1>11, <4>1, <4>2, <4>3
    <3>2. CASE l # a - 1
      <4>1. s[l] # t.prev[n]
        <5>1. a # 1 => s[l] # s[a - 1]
          BY <1>11, <1>6, <1>9, <2>3, <3>2
        <5> QED BY <1>11, <1>10, <2>3, <5>1
      <4>2. u.next[s[l]] = IF l = m THEN NoSlot ELSE s[l + 1]
        BY <1>3, <1>10, <2>4, <2>3, <4>1
      <4>3. /\ l = m <=> i = m - 1
            /\ i # m - 1 => /\ i + 1 \in 1 .. m - 1
                            /\ (i + 1 < a /\ l + 1 = i + 1) \/ (i + 1 >= a /\ l + 1 = (i + 1) + 1)
        <5>1. CASE i < a /\ l = i
          BY <1>6, <2>2, <3>2, <5>1
        <5>2. CASE i >= a /\ l = i + 1
          BY <1>6, <2>2, <3>2, <5>2
        <5> QED BY <2>2, <5>1, <5>2
      <4> QED BY <1>7, <4>2, <4>3
    <3> QED BY <3>1, <3>2
  <2>8. u.prev[s[l]] = IF i = 1 THEN NoSlot ELSE r[i - 1]
    <3>1. CASE l = a + 1
      <4>1. i = a /\ a # m
        BY <1>6, <2>2, <3>1
      <4>2. u.prev[s[l]] = t.prev[n]
        BY <1>11, <1>3, <2>4, <3>1, <4>1
      <4>3. a # 1 => r[i - 1] = s[a - 1]
        <5>1. a # 1 => a - 1 \in 1 .. m - 1 /\ a - 1 < a
          BY <1>6
        <5> QED BY <1>7, <4>1, <5>1
      <4> QED BY <1>11, <4>1, <4>2, <4>3
    <3>2. CASE l # a + 1
      <4>1. s[l] # t.next[n]
        <5>1. a # m => s[l] # s[a + 1]
          BY <1>11, <1>6, <1>9, <2>3, <3>2
        <5> QED BY <1>11, <1>10, <2>3, <5>1
      <4>2. u.prev[s[l]] = IF l = 1 THEN NoSlot ELSE s[l - 1]
        BY <1>3, <1>10, <2>4, <2>3, <4>1
      <4>3. /\ l = 1 <=> i = 1
            /\ i # 1 => /\ i - 1 \in 1 .. m - 1
                        /\ (i - 1 < a /\ l - 1 = i - 1) \/ (i - 1 >= a /\ l - 1 = (i - 1) + 1)
        <5>1. CASE i < a /\ l = i
          BY <1>6, <2>2, <3>2, <5>1
        <5>2. CASE i >= a /\ l = i + 1
          BY <1>6, <2>2, <3>2, <5>2
        <5> QED BY <2>2, <5>1, <5>2
      <4> QED BY <1>7, <4>2, <4>3
    <3> QED BY <3>1, <3>2
  <2> QED BY <1>7, <2>2, <2>5, <2>6, <2>7, <2>8
<1>14. /\ u.head = IF r = << >> THEN NoSlot ELSE r[1]
       /\ u.tail = IF r = << >> THEN NoSlot ELSE r[Len(r)]
  <2>1. r = << >> <=> m = 1
    BY <1>4, <1>7, <1>8, EmptySeq
  <2>2. (t.head = n <=> a = 1) /\ (t.tail = n <=> a = m)
    BY <1>5, <1>8
  <2>3. m # 1 => /\ r[1] = IF a = 1 THEN s[2] ELSE s[1]
                 /\ r[m - 1] = IF a = m THEN s[m - 1] ELSE s[m]
    <3>1. m # 1 => /\ 1 \in 1 .. m - 1 /\ m - 1 \in 1 .. m - 1 /\ 1 + 1 = 2 /\ (m - 1) + 1 = m
                   /\ (a = 1 <=> 1 >= a) /\ (a # 1 <=> 1 < a)
                   /\ (a = m <=> m - 1 < a) /\ (a # m <=> m - 1 >= a)
      BY <1>8, <1>6
    <3> QED BY <1>7, <3>1
  <2>4. CASE m = 1
    <3>1. a = 1 /\ a = m
      BY <1>6, <2>4
    <3> QED BY <1>11, <1>3, <2>1, <2>2, <2>4, <3>1
  <2>5. CASE m # 1
    <3>1. Len(r) = m - 1 /\ (a = 1 => a + 1 = 2 /\ a # m) /\ (a = m => a # 1)
      BY <1>7, <1>6, <2>5
    <3> QED BY <1>8, <1>11, <1>3, <2>1, <2>2, <2>3, <2>5, <3>1
  <2> QED BY <2>4, <2>5
<1>15. ASSUME NEW w \in DOMAIN u.k \ Used(u) PROVE u.next[w] = NoSlot
  <2>1. CASE w = n
    BY <1>1, <1>3, <2>1
  <2>2. CASE w # n
    <3>1. w \in DOMAIN t.k \ Used(t) /\ w \in 0 .. z - 1
      BY <1>1, <1>2, <1>15, <2>2
    <3>2. t.next[w] = NoSlot
      BY <3>1 DEF Chain
    <3>3. w # t.prev[n]
      <4>1. NoSlot \notin 0 .. z - 1
        BY DEF NoSlot
      <4> QED BY <1>4, <1>11, <3>1, <4>1
    <3> QED BY <1>3, <2>2, <3>1, <3>2, <3>3
  <2> QED BY <2>1, <2>2
<1>16. Chain(u, r)
  BY <1>7, <1>12, <1>13, <1>14, <1>15 DEF Chain
<1> QED BY <1>2, <1>16 DEF r

(* A slot more, or a slot less.                                            *)
LEMMA CountWith ==
    ASSUME NEW z \in Nat, NEW S \in SUBSET (0 .. z - 1), NEW n \in 0 .. z - 1
    PROVE  /\ n \notin S => Cardinality(S \cup {n}) = Cardinality(S) + 1
           /\ n \in S => Cardinality(S \ {n}) = Cardinality(S) - 1 /\ Cardinality(S) > 0
<1>1. IsFiniteSet(S) /\ Cardinality(S) \in Nat
  BY SlotsFinite
<1>2. n \in S => Cardinality(S) > 0
  BY <1>1, FS_EmptySet
<1> QED BY <1>1, <1>2, FS_AddElement, FS_RemoveElement

(* What an insertion without growth makes of a table.                      *)
LEMMA PlaceFits ==
    ASSUME NEW t, TableFits(t), t.count < t.size, NEW key \in Keys, NEW val \in Referred,
           hash \in [Keys -> Nat]
    PROVE  LET u == Place(t, hash, key, val)
           IN  /\ TableFits(u) /\ u.size = t.size /\ u.count = t.count + 1
               /\ Cardinality(WithKey(u, FREED)) =< Cardinality(WithKey(t, FREED))
               /\ \A w : Cardinality(Holding(u, w)) =
                            Cardinality(Holding(t, w)) + (IF w = val THEN 1 ELSE 0)
<1> DEFINE u == Place(t, hash, key, val)
<1>1. PICK z \in Nat \ {0} : t.size = z /\ t \in Sized(z) /\ t.count = Cardinality(Used(t))
  BY DEF TableFits
<1>2. PICK s : Chain(t, s)
  BY DEF TableFits
<1>3. /\ t.k \in [0 .. z - 1 -> Texts] /\ t.v \in [0 .. z - 1 -> Referred]
      /\ Used(t) \in SUBSET (0 .. z - 1) /\ DOMAIN t.k = 0 .. z - 1
  BY <1>1, FieldsFit
<1>4. Used(t) # 0 .. z - 1
  <2>1. 0 \in Int /\ z - 1 \in Int /\ Cardinality(0 .. z - 1) = z
    <3>1. 0 \in Int /\ z - 1 \in Int /\ (z - 1) - 0 + 1 = z /\ 0 <= z - 1
      OBVIOUS
    <3> QED BY <3>1, FS_Interval
  <2> QED BY <1>1, <2>1
<1> HIDE DEF u
<1>5. PICK n \in (0 .. z - 1) \ Used(t) :
           /\ u \in Sized(z) /\ u.count = t.count + 1 /\ u.v = [t.v EXCEPT ![n] = val]
           /\ Links(t, n, key, u)
  BY <1>1, <1>4, PlaceFields DEF u
<1>6. Used(u) = Used(t) \cup {n} /\ Chain(u, Append(s, n))
  BY <1>1, <1>2, <1>5, PlaceChain
<1>7. u.size = z /\ u.count = Cardinality(Used(u))
  <2>1. u.size = z
    BY <1>5, FieldsFit
  <2>2. Cardinality(Used(t) \cup {n}) = Cardinality(Used(t)) + 1
    BY <1>3, CountWith
  <2> QED BY <1>1, <1>5, <1>6, <2>1, <2>2
<1>8. TableFits(u)
  BY <1>1, <1>5, <1>6, <1>7 DEF TableFits
<1>9. Cardinality(WithKey(u, FREED)) =< Cardinality(WithKey(t, FREED))
  <2>1. WithKey(u, FREED) \subseteq WithKey(t, FREED)
    <3>1. key # FREED
      BY KeysAssumption
    <3> QED BY <1>3, <1>5, <3>1 DEF WithKey, Links
  <2>2. IsFiniteSet(WithKey(t, FREED))
    BY <1>1, <1>3, SlotsFinite DEF WithKey
  <2> QED BY <2>1, <2>2, FS_Subset
<1>10. ASSUME NEW w
       PROVE  Cardinality(Holding(u, w)) = Cardinality(Holding(t, w)) + (IF w = val THEN 1 ELSE 0)
  <2>1. Holding(t, w) \in SUBSET (0 .. z - 1) /\ n \notin Holding(t, w)
    BY <1>3, <1>5 DEF Holding
  <2>2. Cardinality(Holding(t, w)) \in Nat
    BY <1>1, <2>1, SlotsFinite
  <2>3. CASE w = val
    <3>1. Holding(u, w) = Holding(t, w) \cup {n}
      BY <1>3, <1>5, <1>6, <2>3 DEF Holding
    <3>2. Cardinality(Holding(t, w) \cup {n}) = Cardinality(Holding(t, w)) + 1
      BY <2>1, CountWith
    <3> QED BY <2>3, <3>1, <3>2
  <2>4. CASE w # val
    <3>1. Holding(u, w) = Holding(t, w)
      BY <1>3, <1>5, <1>6, <2>4 DEF Holding
    <3> QED BY <2>2, <2>4, <3>1
  <2> QED BY <2>3, <2>4
<1> QED BY <1>1, <1>5, <1>7, <1>8, <1>9, <1>10 DEF u

(* What a deletion makes of a table.                                       *)
LEMMA DeleteFits ==
    ASSUME NEW t, TableFits(t), NEW n \in Used(t)
    PROVE  LET u == LhDeleteEntry(t, n)
           IN  /\ TableFits(u) /\ u.size = t.size /\ u.count = t.count - 1
               /\ Cardinality(WithKey(u, FREED)) =< Cardinality(WithKey(t, FREED)) + 1
               /\ \A w : Cardinality(Holding(u, w)) =
                            Cardinality(Holding(t, w)) - (IF w = t.v[n] THEN 1 ELSE 0)
<1> DEFINE u == LhDeleteEntry(t, n)
<1>1. PICK z \in Nat \ {0} : t.size = z /\ t \in Sized(z) /\ t.count = Cardinality(Used(t))
  BY DEF TableFits
<1>2. PICK s : Chain(t, s)
  BY DEF TableFits
<1>3. /\ t.k \in [0 .. z - 1 -> Texts] /\ t.v \in [0 .. z - 1 -> Referred]
      /\ Used(t) \in SUBSET (0 .. z - 1) /\ DOMAIN t.k = 0 .. z - 1 /\ n \in 0 .. z - 1
  BY <1>1, FieldsFit
<1>4. t.count > 0
  BY <1>1, <1>3, CountWith
<1> HIDE DEF u
<1>5. /\ u \in Sized(z) /\ u.count = t.count - 1 /\ u.v = [t.v EXCEPT ![n] = NULL]
      /\ Unlinks(t, n, u)
  BY <1>1, <1>3, <1>4, DeleteFields DEF u, Unlinks
<1>6. Used(u) = Used(t) \ {n} /\ \E r : Chain(u, r)
  <2>1. PICK a \in DOMAIN s : s[a] = n
    BY <1>2 DEF Chain
  <2> QED BY <1>1, <1>2, <1>5, <2>1, DeleteChain
<1>7. u.size = z /\ u.count = Cardinality(Used(u))
  <2>1. u.size = z
    BY <1>5, FieldsFit
  <2>2. Cardinality(Used(t) \ {n}) = Cardinality(Used(t)) - 1
    BY <1>3, CountWith
  <2> QED BY <1>1, <1>5, <1>6, <2>1, <2>2
<1>8. TableFits(u)
  BY <1>1, <1>5, <1>6, <1>7 DEF TableFits
<1>9. Cardinality(WithKey(u, FREED)) =< Cardinality(WithKey(t, FREED)) + 1
  <2>1. WithKey(u, FREED) = WithKey(t, FREED) \cup {n} /\ n \notin WithKey(t, FREED)
    <3>1. u.k = [t.k EXCEPT ![n] = FREED]
      BY <1>5 DEF Unlinks
    <3>2. t.k[n] # FREED
      BY DEF Used
    <3> QED BY <1>3, <3>1, <3>2 DEF WithKey
  <2>2. WithKey(t, FREED) \in SUBSET (0 .. z - 1)
    BY <1>3 DEF WithKey
  <2>3. Cardinality(WithKey(t, FREED)) \in Nat
    BY <1>1, <2>2, SlotsFinite
  <2>4. Cardinality(WithKey(t, FREED) \cup {n}) = Cardinality(WithKey(t, FREED)) + 1
    BY <1>3, <2>1, <2>2, CountWith
  <2> QED BY <2>1, <2>3, <2>4
<1>10. ASSUME NEW w
       PROVE  Cardinality(Holding(u, w)) = Cardinality(Holding(t, w)) - (IF w = t.v[n] THEN 1 ELSE 0)
  <2>1. Holding(t, w) \in SUBSET (0 .. z - 1)
    BY <1>3 DEF Holding
  <2>2. Cardinality(Holding(t, w)) \in Nat
    BY <1>1, <2>1, SlotsFinite
  <2>3. Holding(u, w) = Holding(t, w) \ {n}
    BY <1>3, <1>5, <1>6 DEF Holding
  <2>4. CASE w = t.v[n]
    <3>1. n \in Holding(t, w)
      BY <2>4 DEF Holding
    <3>2. Cardinality(Holding(t, w) \ {n}) = Cardinality(Holding(t, w)) - 1
      BY <1>3, <2>1, <3>1, CountWith
    <3> QED BY <2>3, <2>4, <3>2
  <2>5. CASE w # t.v[n]
    <3>1. Holding(u, w) = Holding(t, w)
      BY <2>3, <2>5 DEF Holding
    <3> QED BY <2>2, <2>5, <3>1
  <2> QED BY <2>4, <2>5
<1> QED BY <1>1, <1>5, <1>7, <1>8, <1>9, <1>10 DEF u

(* A search that ends finds a used slot or none.                           *)
LEMMA LookupFits ==
    ASSUME NEW t, TableFits(t), NEW key \in Keys, hash \in [Keys -> Nat],
           ~LhLookupLoops(t, key)
    PROVE  LET n == LhLookupEntry(t, hash, key)
           IN  n = NoSlot \/ (n \in Used(t) /\ t.k[n] = key)
<1> DEFINE z == t.size
           S == WithKey(t, EMPTY) \cup WithKey(t, key)
           n == Probe(t, hash[key] % t.size, S)
<1>1. z \in Nat \ {0} /\ t \in Sized(z)
  BY DEF TableFits
<1>2. DOMAIN t.k = 0 .. z - 1
  BY <1>1, FieldsFit
<1>3. S # {} /\ S \in SUBSET (0 .. z - 1)
  BY <1>2 DEF LhLookupLoops, WithKey
<1>4. hash[key] % z \in 0 .. z - 1
  BY <1>1, Remains
<1> HIDE DEF S
<1>5. n \in S
  BY <1>1, <1>2, <1>3, <1>4, ProbeFits
<1>6. key \notin {EMPTY, FREED}
  BY KeysAssumption
<1>7. t.k[n] = key => n \in Used(t)
  BY <1>5, <1>6 DEF S, WithKey, Used
<1>8. LhLookupEntry(t, hash, key) = IF t.k[n] = key THEN n ELSE NoSlot
  BY DEF LhLookupEntry, S
<1> QED BY <1>7, <1>8

-----------------------------------------------------------------------------
(* Growth.                                                                 *)

(* From the head on the chain is read in its order.                        *)
LEMMA ForeachFits ==
    ASSUME NEW t, NEW s, Chain(t, s), NoSlot \notin DOMAIN t.k
    PROVE  LhForeach(t) = s
<1>1. s \in Seq(Int)
  BY DEF Chain
<1>2. PICK m \in Nat : m = Len(s)
  BY <1>1
<1> DEFINE S == DOMAIN t.k \cup {NoSlot}
           Rest(i) == SubSeq(s, i, m)
           Reads(f) == f = [n \in S |-> IF n = NoSlot THEN << >> ELSE <<n>> \o f[t.next[n]]]
           f == CHOOSE f : Reads(f)
<1>3. DOMAIN s = 1 .. m
  BY <1>1, <1>2
<1>4. /\ \A n \in Used(t) : \E i \in 1 .. m : s[i] = n
      /\ \A i \in 1 .. m : s[i] \in Used(t) /\ \A j \in 1 .. m : s[i] = s[j] => i = j
      /\ \A i \in 1 .. m : t.next[s[i]] = IF i = m THEN NoSlot ELSE s[i + 1]
      /\ t.head = IF s = << >> THEN NoSlot ELSE s[1]
      /\ \A n \in DOMAIN t.k \ Used(t) : t.next[n] = NoSlot
  <2>1. \A n \in Used(t) : \E i \in 1 .. m : s[i] = n
    BY <1>3, Zenon DEF Chain
  <2>2. \A i \in 1 .. m : s[i] \in Used(t) /\ \A j \in 1 .. m : s[i] = s[j] => i = j
    BY <1>3, Zenon DEF Chain
  <2>3. \A i \in 1 .. m : t.next[s[i]] = IF i = m THEN NoSlot ELSE s[i + 1]
    BY <1>2, <1>3, Zenon DEF Chain
  <2>4. /\ t.head = IF s = << >> THEN NoSlot ELSE s[1]
        /\ \A n \in DOMAIN t.k \ Used(t) : t.next[n] = NoSlot
    BY Zenon DEF Chain
  <2> QED BY <2>1, <2>2, <2>3, <2>4, Zenon
<1>5. Used(t) \subseteq DOMAIN t.k
  BY DEF Used
<1>6. \A i \in 1 .. m : Rest(i) = <<s[i]>> \o Rest(i + 1)
  <2>1. ASSUME NEW i \in 1 .. m PROVE Rest(i) = <<s[i]>> \o Rest(i + 1)
    <3>1. i \in 1 .. Len(s) /\ m \in i .. Len(s)
      BY <1>2
    <3> QED BY <1>1, <3>1, SubSeqRecursiveFirst
  <2> QED BY <2>1
<1>7. Rest(m + 1) = << >> /\ Rest(1) = s
  <2>1. m + 1 \in Int /\ m \in Int /\ m < m + 1
    OBVIOUS
  <2>2. Rest(m + 1) = << >>
    BY <2>1, SubSeqEmpty
  <2>3. SubSeq(s, 1, Len(s)) = s
    BY <1>1, SubSeqFull
  <2> QED BY <1>2, <2>2, <2>3
<1>8. \E g : Reads(g)
  <2> DEFINE idx == [n \in Used(t) |-> CHOOSE i \in 1 .. m : s[i] = n]
             g == [n \in S |-> IF n = NoSlot THEN << >>
                               ELSE IF n \in Used(t) THEN Rest(idx[n]) ELSE <<n>> \o << >>]
  <2>1. \A n \in Used(t) : idx[n] \in 1 .. m /\ s[idx[n]] = n
    BY <1>4
  <2>2. \A i \in 1 .. m : idx[s[i]] = i
    BY <1>4, <2>1
  <2>3. g[NoSlot] = << >>
    OBVIOUS
  <2>4. \A n \in Used(t) : g[n] = Rest(idx[n])
    BY <1>5
  <2>5. ASSUME NEW n \in Used(t) PROVE g[n] = <<n>> \o g[t.next[n]]
    <3>1. PICK i \in 1 .. m : i = idx[n] /\ s[i] = n
      BY <2>1
    <3>2. g[n] = Rest(i)
      BY <2>4, <3>1
    <3>3. Rest(i) = <<n>> \o Rest(i + 1)
      BY <1>6, <3>1
    <3>4. g[n] = <<n>> \o Rest(i + 1)
      BY <3>2, <3>3, Zenon
    <3>5. CASE i = m
      <4>1. t.next[n] = NoSlot
        BY <1>4, <3>1, <3>5
      <4> QED BY <1>7, <2>3, <3>4, <3>5, <4>1
    <3>6. CASE i # m
      <4>1. i + 1 \in 1 .. m
        BY <3>6
      <4>2. t.next[n] = s[i + 1]
        BY <1>4, <3>1, <3>6
      <4>3. s[i + 1] \in Used(t) /\ idx[s[i + 1]] = i + 1
        BY <1>4, <2>2, <4>1
      <4>4. g[s[i + 1]] = Rest(i + 1)
        BY <2>4, <4>3
      <4> QED BY <3>4, <4>2, <4>4
    <3> QED BY <3>5, <3>6
  <2>6. ASSUME NEW n \in DOMAIN t.k \ Used(t) PROVE g[n] = <<n>> \o g[t.next[n]]
    <3>1. t.next[n] = NoSlot
      BY <1>4
    <3>2. g[n] = <<n>> \o << >>
      OBVIOUS
    <3> QED BY <2>3, <3>1, <3>2
  <2>7. \A n \in DOMAIN t.k : g[n] = <<n>> \o g[t.next[n]]
    BY <2>5, <2>6
  <2>8. DOMAIN g = S /\ g = [n \in S |-> g[n]]
    OBVIOUS
  <2> HIDE DEF g
  <2>9. \A n \in S : g[n] = IF n = NoSlot THEN << >> ELSE <<n>> \o g[t.next[n]]
    BY <2>3, <2>7
  <2>10. Reads(g)
    BY <2>8, <2>9
  <2> QED BY <2>10
<1>9. Reads(f)
  BY <1>8
<1>10. LhForeach(t) = f[t.head]
  BY DEF LhForeach
<1> HIDE DEF f
<1>11. f[NoSlot] = << >> /\ \A n \in DOMAIN t.k : f[n] = <<n>> \o f[t.next[n]]
  BY <1>9
<1> HIDE DEF Rest
<1>12. \A i \in 1 .. m : f[s[i]] = Rest(i)
  <2> DEFINE Bad == {e \in 0 .. m - 1 : f[s[m - e]] # Rest(m - e)}
  <2>1. SUFFICES ASSUME Bad # {} PROVE FALSE
    <3>1. ASSUME NEW i \in 1 .. m PROVE f[s[i]] = Rest(i)
      <4>1. m - i \in 0 .. m - 1 /\ m - (m - i) = i
        OBVIOUS
      <4> QED BY <2>1, <4>1
    <3> QED BY <3>1
  <2>2. PICK e \in Bad : \A x \in Bad : ~(x < e)
    <3>1. Bad \in SUBSET Nat
      OBVIOUS
    <3> QED BY <2>1, <3>1, Least
  <2>3. PICK i \in 1 .. m : i = m - e
    <3>1. e \in 0 .. m - 1
      OBVIOUS
    <3>2. m - e \in 1 .. m
      BY <3>1
    <3> QED BY <3>2
  <2>4. f[s[i]] # Rest(i)
    BY <2>2, <2>3
  <2>5. f[s[i]] = <<s[i]>> \o f[t.next[s[i]]]
    BY <1>4, <1>5, <1>11
  <2>6. CASE i = m
    <3>1. t.next[s[i]] = NoSlot
      BY <1>4, <2>6
    <3>2. Rest(i) = <<s[i]>> \o << >>
      BY <1>6, <1>7, <2>6
    <3> QED BY <1>11, <2>4, <2>5, <3>1, <3>2
  <2>7. CASE i # m
    <3>1. t.next[s[i]] = s[i + 1]
      BY <1>4, <2>7
    <3>2. e - 1 \in 0 .. m - 1 /\ m - (e - 1) = i + 1 /\ e - 1 < e
      BY <2>3, <2>7
    <3>3. f[s[i + 1]] = Rest(i + 1)
      BY <2>2, <3>2
    <3> QED BY <1>6, <2>4, <2>5, <3>1, <3>3
  <2> QED BY <2>6, <2>7
<1>13. CASE s = << >>
  BY <1>4, <1>10, <1>11, <1>13
<1>14. CASE s # << >>
  <2>1. m # 0
    BY <1>1, <1>2, <1>14
  <2>2. 1 \in 1 .. m
    BY <2>1
  <2>3. t.head = s[1]
    BY <1>4, <1>14
  <2> QED BY <1>7, <1>10, <1>12, <2>2, <2>3
<1> QED BY <1>13, <1>14

(* A new table is empty.                                                   *)
LEMMA NewFits ==
    ASSUME NEW z \in Nat \ {0}
    PROVE  LET u == LhTableNew(z)
           IN  /\ TableFits(u) /\ u.size = z /\ u.count = 0 /\ Used(u) = {}
               /\ WithKey(u, FREED) = {} /\ Chain(u, << >>)
<1> DEFINE u == LhTableNew(z)
           Slots == 0 .. z - 1
<1>1. u = [size |-> z, count |-> 0, head |-> NoSlot, tail |-> NoSlot,
           k |-> [n \in Slots |-> EMPTY], v |-> [n \in Slots |-> NULL],
           next |-> [n \in Slots |-> NoSlot], prev |-> [n \in Slots |-> NoSlot]]
  BY DEF LhTableNew, NULL
<1> HIDE DEF u
<1>2. /\ u.size = z /\ u.count = 0 /\ u.head = NoSlot /\ u.tail = NoSlot
      /\ u.k = [n \in Slots |-> EMPTY] /\ u.next = [n \in Slots |-> NoSlot]
  BY <1>1
<1>3. u \in Sized(z)
  <2>1. NULL \in Referred /\ EMPTY \in Texts /\ NoSlot \in Int
    BY DEF Referred, Texts, NoSlot
  <2> QED BY <1>1, <2>1 DEF Sized
<1>4. Used(u) = {} /\ WithKey(u, FREED) = {}
  <2>1. EMPTY # FREED
    BY DEF EMPTY, FREED
  <2> QED BY <1>2, <2>1 DEF Used, WithKey
<1>5. Chain(u, << >>)
  <2>1. << >> \in Seq(Int) /\ DOMAIN << >> = {}
    OBVIOUS
  <2> QED BY <1>2, <1>4, <2>1 DEF Chain
<1>6. TableFits(u)
  <2>1. Cardinality({}) = 0
    BY FS_EmptySet
  <2> QED BY <1>2, <1>3, <1>4, <1>5, <2>1 DEF TableFits
<1> QED BY <1>2, <1>4, <1>5, <1>6 DEF u

(* The first i entries of the chain s of table t are in table u.           *)
Taken(s, i) == {s[j] : j \in 1 .. i}
HasTaken(u, t, s, i, size) ==
    /\ TableFits(u) /\ u.size = size /\ u.count = Cardinality(Taken(s, i))
    /\ WithKey(u, FREED) = {}
    /\ \A w : Cardinality(Holding(u, w)) = Cardinality({n \in Taken(s, i) : t.v[n] = w})

(* One more of them.                                                       *)
LEMMA TakesOne ==
    ASSUME NEW t, TableFits(t), NEW s, Chain(t, s), NEW size \in Nat, t.count =< size,
           hash \in [Keys -> Nat], NEW i \in 1 .. Len(s), NEW u, HasTaken(u, t, s, i - 1, size)
    PROVE  /\ TableFits(u) /\ u.count < u.size
           /\ HasTaken(Place(u, hash, t.k[s[i]], t.v[s[i]]), t, s, i, size)
<1> DEFINE n == s[i]
           A == Taken(s, i - 1)
           B == Taken(s, i)
           w == Place(u, hash, t.k[s[i]], t.v[s[i]])
<1>1. s \in Seq(Int) /\ DOMAIN s = 1 .. Len(s) /\ Len(s) \in Nat
  BY DEF Chain
<1>2. PICK z \in Nat \ {0} : t.size = z /\ t \in Sized(z) /\ t.count = Cardinality(Used(t))
  BY DEF TableFits
<1>3. /\ t.k \in [0 .. z - 1 -> Texts] /\ t.v \in [0 .. z - 1 -> Referred]
      /\ Used(t) \in SUBSET (0 .. z - 1)
  BY <1>2, FieldsFit
<1>4. n \in Used(t) /\ \A j \in 1 .. Len(s) : n = s[j] => i = j
  BY <1>1 DEF Chain
<1>5. B = A \cup {n} /\ n \notin A /\ B \subseteq Used(t)
  <2>1. 1 .. i = (1 .. i - 1) \cup {i}
    OBVIOUS
  <2>2. \A j \in 1 .. i : j \in DOMAIN s
    BY <1>1
  <2>3. \A j \in 1 .. i : s[j] \in Used(t)
    BY <2>2 DEF Chain
  <2>4. \A j \in 1 .. i - 1 : n # s[j]
    BY <1>1, <1>4
  <2> QED BY <2>1, <2>3, <2>4 DEF Taken
<1>6. A \in SUBSET (0 .. z - 1) /\ B \in SUBSET (0 .. z - 1) /\ n \in 0 .. z - 1
  BY <1>3, <1>5
<1> HIDE DEF A, B
<1>7. Cardinality(B) = Cardinality(A) + 1 /\ Cardinality(A) \in Nat
  <2>1. Cardinality(A \cup {n}) = Cardinality(A) + 1
    BY <1>5, <1>6, CountWith
  <2>2. Cardinality(A) \in Nat
    BY <1>2, <1>6, SlotsFinite
  <2> QED BY <1>5, <2>1, <2>2
<1>8. Cardinality(B) =< t.count
  <2>1. IsFiniteSet(Used(t))
    BY <1>2, <1>3, SlotsFinite
  <2>2. Cardinality(B) =< Cardinality(Used(t))
    BY <1>5, <2>1, FS_Subset
  <2> QED BY <1>2, <2>2
<1>9. TableFits(u) /\ u.size = size /\ u.count = Cardinality(A) /\ WithKey(u, FREED) = {}
  BY DEF HasTaken, A
<1>10. u.count < u.size /\ u.count + 1 = Cardinality(B)
  <2>1. t.count \in Nat
    BY <1>2, FieldsFit
  <2> QED BY <1>7, <1>8, <1>9, <2>1
<1>11. t.k[n] \in Keys /\ t.v[n] \in Referred
  <2>1. t.k[n] \in Texts /\ t.k[n] \notin {EMPTY, FREED}
    BY <1>3, <1>4 DEF Used
  <2> QED BY <1>3, <1>4, <2>1 DEF Texts
<1> HIDE DEF n
<1>12. PICK key \in Keys : key = t.k[n]
  BY <1>11
<1>13. PICK val \in Referred : val = t.v[n]
  BY <1>11
<1>14. w = Place(u, hash, key, val)
  BY <1>12, <1>13 DEF n
<1> HIDE DEF w
<1>15. /\ TableFits(w) /\ w.size = size /\ w.count = Cardinality(B)
       /\ Cardinality(WithKey(w, FREED)) =< Cardinality(WithKey(u, FREED))
       /\ \A x : Cardinality(Holding(w, x)) =
                    Cardinality(Holding(u, x)) + (IF x = val THEN 1 ELSE 0)
  <2> DEFINE p == Place(u, hash, key, val)
  <2>1. TableFits(u) /\ u.count < u.size
    BY <1>9, <1>10
  <2>2. /\ TableFits(p) /\ p.size = u.size /\ p.count = u.count + 1
        /\ Cardinality(WithKey(p, FREED)) =< Cardinality(WithKey(u, FREED))
        /\ \A x : Cardinality(Holding(p, x)) =
                     Cardinality(Holding(u, x)) + (IF x = val THEN 1 ELSE 0)
    BY <2>1, PlaceFits
  <2> HIDE DEF p
  <2>3. w = p
    BY <1>14 DEF p
  <2> QED BY <1>9, <1>10, <2>2, <2>3
<1>16. WithKey(w, FREED) = {}
  <2>1. PICK y \in Nat \ {0} : w.size = y /\ w \in Sized(y)
    BY <1>15 DEF TableFits
  <2>2. WithKey(w, FREED) \in SUBSET (0 .. y - 1)
    BY <2>1, FieldsFit DEF WithKey
  <2>3. IsFiniteSet(WithKey(w, FREED)) /\ Cardinality(WithKey(w, FREED)) \in Nat
    BY <2>1, <2>2, SlotsFinite
  <2>4. Cardinality({}) = 0
    BY FS_EmptySet
  <2>5. Cardinality(WithKey(w, FREED)) = 0
    BY <1>9, <1>15, <2>3, <2>4
  <2> QED BY <2>3, <2>5, FS_EmptySet
<1>17. ASSUME NEW x, NEW C, C = {y \in A : t.v[y] = x}, NEW D, D = {y \in B : t.v[y] = x}
       PROVE  Cardinality(Holding(w, x)) = Cardinality(D)
  <2>1. C \in SUBSET (0 .. z - 1) /\ n \notin C
    BY <1>5, <1>6, <1>17
  <2>2. Cardinality(Holding(u, x)) = Cardinality(C)
    BY <1>17 DEF HasTaken, A
  <2>3. Cardinality(C) \in Nat
    BY <1>2, <2>1, SlotsFinite
  <2>4. Cardinality(Holding(w, x)) = Cardinality(C) + (IF x = val THEN 1 ELSE 0)
    BY <1>15, <2>2
  <2>5. CASE x = val
    <3>1. D = C \cup {n}
      BY <1>5, <1>17, <1>13, <2>5
    <3>2. Cardinality(C \cup {n}) = Cardinality(C) + 1
      BY <1>2, <1>6, <2>1, CountWith
    <3> QED BY <2>4, <2>5, <3>1, <3>2
  <2>6. CASE x # val
    <3>1. D = C
      BY <1>5, <1>17, <1>13, <2>6
    <3> QED BY <2>3, <2>4, <2>6, <3>1
  <2> QED BY <2>5, <2>6
<1>18. \A x : Cardinality(Holding(w, x)) = Cardinality({y \in B : t.v[y] = x})
  BY <1>17
<1>19. w = Place(u, hash, t.k[s[i]], t.v[s[i]])
  BY <1>14, <1>12, <1>13 DEF n
<1>20. HasTaken(w, t, s, i, size)
  BY <1>15, <1>16, <1>18 DEF HasTaken, B
<1> QED BY <1>9, <1>10, <1>19, <1>20

(* The tables of a growth, one for each entry that has moved.              *)
Grows(f, t, s, size, m) ==
    /\ f = [i \in 0 .. m |-> f[i]]
    /\ \A i \in 0 .. m :
          f[i] = IF i = 0 THEN LhTableNew(size)
                 ELSE Place(f[i - 1], hash, t.k[s[i]], t.v[s[i]])

LEMMA MovedThere ==
    ASSUME NEW t, NEW s, NEW size, NEW m \in Nat
    PROVE  \E f : Grows(f, t, s, size, m)
<1> DEFINE Made(f, k) == /\ DOMAIN f = 0 .. k /\ f = [i \in 0 .. k |-> f[i]]
                         /\ f[0] = LhTableNew(size)
                         /\ \A i \in 1 .. k : f[i] = Place(f[i - 1], hash, t.k[s[i]], t.v[s[i]])
           Bad == {k \in Nat : ~ \E f : Made(f, k)}
<1>1. Bad = {}
  <2>1. SUFFICES ASSUME Bad # {} PROVE FALSE
    OBVIOUS
  <2>2. PICK k \in Bad : \A x \in Bad : ~(x < k)
    <3>1. Bad \in SUBSET Nat
      OBVIOUS
    <3> QED BY <2>1, <3>1, Least
  <2>3. k \in Nat /\ ~ \E f : Made(f, k)
    BY <2>2
  <2>4. CASE k = 0
    <3> DEFINE f == [i \in 0 .. 0 |-> LhTableNew(size)]
    <3>1. f[0] = LhTableNew(size) /\ DOMAIN f = 0 .. 0 /\ f = [i \in 0 .. 0 |-> f[i]]
      OBVIOUS
    <3> HIDE DEF f
    <3>2. Made(f, 0)
      BY <3>1
    <3> QED BY <2>3, <2>4, <3>2
  <2>5. CASE k # 0
    <3>1. k - 1 \in Nat /\ k - 1 < k
      BY <2>3, <2>5
    <3>2. PICK g : Made(g, k - 1)
      BY <2>2, <3>1
    <3> DEFINE last == Place(g[k - 1], hash, t.k[s[k]], t.v[s[k]])
    <3>3. PICK p : p = last
      OBVIOUS
    <3> DEFINE f == [i \in 0 .. k |-> IF i = k THEN p ELSE g[i]]
    <3>4. DOMAIN f = 0 .. k /\ f = [i \in 0 .. k |-> f[i]] /\ f[k] = p
          /\ \A i \in 0 .. k - 1 : f[i] = g[i]
      BY <2>3
    <3> HIDE DEF f
    <3>5. f[0] = LhTableNew(size)
      BY <3>1, <3>2, <3>4
    <3>6. ASSUME NEW i \in 1 .. k
          PROVE  f[i] = Place(f[i - 1], hash, t.k[s[i]], t.v[s[i]])
      <4>1. i - 1 \in 0 .. k - 1
        BY <2>3
      <4>2. f[i - 1] = g[i - 1]
        BY <3>4, <4>1
      <4>3. CASE i = k
        BY <3>3, <3>4, <4>2, <4>3, Zenon
      <4>4. CASE i # k
        <5>1. i \in 0 .. k - 1 /\ i \in 1 .. k - 1
          BY <2>3, <4>4
        <5>2. f[i] = g[i]
          BY <3>4, <5>1
        <5>3. g[i] = Place(g[i - 1], hash, t.k[s[i]], t.v[s[i]])
          BY <3>2, <5>1
        <5> QED BY <4>2, <5>2, <5>3, Zenon
      <4> QED BY <4>3, <4>4
    <3>7. Made(f, k)
      BY <3>4, <3>5, <3>6
    <3> QED BY <2>3, <3>7
  <2> QED BY <2>4, <2>5
<1>2. PICK f : Made(f, m)
  BY <1>1
<1>3. ASSUME NEW i \in 0 .. m
      PROVE  f[i] = IF i = 0 THEN LhTableNew(size)
                    ELSE Place(f[i - 1], hash, t.k[s[i]], t.v[s[i]])
  <2>1. CASE i = 0
    BY <1>2, <2>1
  <2>2. CASE i # 0
    <3>1. i \in 1 .. m
      BY <2>2
    <3> QED BY <1>2, <2>2, <3>1
  <2> QED BY <2>1, <2>2
<1>4. f = [i \in 0 .. m |-> f[i]]
  BY <1>2
<1> QED BY <1>3, <1>4, Zenon DEF Grows

(* The tables of a growth by themselves: the last one is the result, and   *)
(* each has what was moved so far.                                         *)
Tables(f, t, s, size) ==
    /\ f[0] = LhTableNew(size)
    /\ \A i \in 1 .. Len(s) : f[i] = Place(f[i - 1], hash, t.k[s[i]], t.v[s[i]])
    /\ \A i \in 0 .. Len(s) : HasTaken(f[i], t, s, i, size)

LEMMA GrowthSteps ==
    ASSUME NEW t, TableFits(t), NEW s, Chain(t, s), NEW size \in Nat \ {0}, t.count =< size,
           hash \in [Keys -> Nat]
    PROVE  \E f : Tables(f, t, s, size) /\ LhTableResize(t, hash, size) = f[Len(s)]
<1>1. PICK z \in Nat \ {0} : t.size = z /\ t \in Sized(z)
  BY DEF TableFits
<1>2. s \in Seq(Int)
  BY DEF Chain
<1>3. LhForeach(t) = s
  <2>1. DOMAIN t.k = 0 .. z - 1
    BY <1>1, FieldsFit
  <2>2. NoSlot \notin 0 .. z - 1
    BY DEF NoSlot
  <2> QED BY <2>1, <2>2, ForeachFits
<1>4. PICK m \in Nat : m = Len(s) /\ DOMAIN s = 1 .. m
  BY <1>2
<1> DEFINE Moves(f) == f = [i \in 0 .. m |->
                               IF i = 0 THEN LhTableNew(size)
                               ELSE Place(f[i - 1], hash, t.k[s[i]], t.v[s[i]])]
           f == CHOOSE f : Moves(f)
<1>5. LhTableResize(t, hash, size) = f[m]
  BY <1>3, <1>4, Zenon DEF LhTableResize
<1>6. Moves(f)
  <2>1. PICK g : Grows(g, t, s, size, m)
    BY MovedThere
  <2>2. Moves(g)
    BY <2>1, Zenon DEF Grows
  <2> QED BY <2>2, Zenon
<1> HIDE DEF f
<1>7. f[0] = LhTableNew(size)
  <2>1. 0 \in 0 .. m
    OBVIOUS
  <2> QED BY <1>6, <2>1
<1>8. \A i \in 1 .. m : f[i] = Place(f[i - 1], hash, t.k[s[i]], t.v[s[i]])
  <2>1. \A i \in 1 .. m : i \in 0 .. m /\ i # 0
    OBVIOUS
  <2> QED BY <1>6, <2>1
<1> HIDE DEF Moves
<1>9. HasTaken(f[0], t, s, 0, size)
  <2>1. Taken(s, 0) = {} /\ Cardinality({}) = 0
    BY FS_EmptySet DEF Taken
  <2> DEFINE n == LhTableNew(size)
  <2>2. TableFits(n) /\ n.size = size /\ n.count = 0 /\ Used(n) = {} /\ WithKey(n, FREED) = {}
    BY NewFits
  <2> HIDE DEF n
  <2>3. \A w : Holding(n, w) = {} /\ {y \in Taken(s, 0) : t.v[y] = w} = {}
    BY <2>1, <2>2 DEF Holding
  <2>4. HasTaken(n, t, s, 0, size)
    BY <2>1, <2>2, <2>3 DEF HasTaken
  <2> QED BY <1>7, <2>4 DEF n
<1>10. \A i \in 0 .. m : HasTaken(f[i], t, s, i, size)
  <2> DEFINE Bad == {i \in 0 .. m : ~ HasTaken(f[i], t, s, i, size)}
  <2>1. SUFFICES ASSUME Bad # {} PROVE FALSE
    BY <2>1
  <2>2. PICK i \in Bad : \A x \in Bad : ~(x < i)
    <3>1. Bad \in SUBSET Nat
      OBVIOUS
    <3> QED BY <2>1, <3>1, Least
  <2>3. i # 0 /\ i \in 0 .. m
    BY <1>9, <2>2
  <2>4. i \in 1 .. m /\ i - 1 \in 0 .. m /\ i - 1 < i
    BY <2>3
  <2>5. HasTaken(f[i - 1], t, s, i - 1, size)
    BY <2>2, <2>4
  <2>6. HasTaken(Place(f[i - 1], hash, t.k[s[i]], t.v[s[i]]), t, s, i, size)
    BY <1>4, <2>4, <2>5, TakesOne
  <2>7. HasTaken(f[i], t, s, i, size)
    BY <1>8, <2>4, <2>6
  <2> QED BY <2>2, <2>7
<1>11. Tables(f, t, s, size)
  BY <1>4, <1>7, <1>8, <1>10 DEF Tables
<1> QED BY <1>4, <1>5, <1>11

(* A larger table takes all of the entries and no freed slots.             *)
LEMMA ResizeFits ==
    ASSUME NEW t, TableFits(t), NEW size \in Nat \ {0}, t.count =< size, hash \in [Keys -> Nat]
    PROVE  LET u == LhTableResize(t, hash, size)
           IN  /\ TableFits(u) /\ u.size = size /\ u.count = t.count
               /\ WithKey(u, FREED) = {}
               /\ \A w : Cardinality(Holding(u, w)) = Cardinality(Holding(t, w))
<1>1. t.count = Cardinality(Used(t))
  BY DEF TableFits
<1>2. PICK s : Chain(t, s)
  BY DEF TableFits
<1>3. PICK m \in Nat : m = Len(s) /\ DOMAIN s = 1 .. m
  <2>1. s \in Seq(Int)
    BY <1>2 DEF Chain
  <2> QED BY <2>1
<1>4. PICK f : Tables(f, t, s, size) /\ LhTableResize(t, hash, size) = f[m]
  BY <1>2, <1>3, GrowthSteps
<1>5. PICK u : u = f[m]
  OBVIOUS
<1>6. HasTaken(u, t, s, m, size)
  BY <1>3, <1>4, <1>5 DEF Tables
<1>7. Taken(s, m) = Used(t)
  <2>1. \A n \in Used(t) : \E i \in 1 .. m : s[i] = n
    BY <1>2, <1>3, Zenon DEF Chain
  <2>2. \A i \in 1 .. m : s[i] \in Used(t)
    BY <1>2, <1>3, Zenon DEF Chain
  <2> QED BY <2>1, <2>2 DEF Taken
<1>8. /\ TableFits(u) /\ u.size = size /\ u.count = t.count /\ WithKey(u, FREED) = {}
      /\ \A w : Cardinality(Holding(u, w)) = Cardinality(Holding(t, w))
  BY <1>1, <1>6, <1>7 DEF HasTaken, Holding
<1> QED BY <1>4, <1>5, <1>8

(* An insertion keeps a table together, and the growth before it leaves    *)
(* the load limit its room.                                                *)
Limit(z) == (66 * z) \div 100 + 1

LEMMA InsertFits ==
    ASSUME NEW t, TableFits(t), t.count =< Limit(t.size), NEW key \in Keys,
           NEW val \in Referred, hash \in [Keys -> Nat]
    PROVE  LET u == LhTableInsert(t, hash, key, val)
           IN  /\ TableFits(u) /\ u.count =< Limit(u.size)
               /\ Cardinality(WithKey(u, FREED)) =< Cardinality(WithKey(t, FREED))
               /\ \A w : Cardinality(Holding(u, w)) =
                            Cardinality(Holding(t, w)) + (IF w = val THEN 1 ELSE 0)
<1> DEFINE g == LhTableResize(t, hash, 2 * t.size)
<1>1. PICK z \in Nat \ {0} : t.size = z /\ t \in Sized(z)
  BY DEF TableFits
<1>2. t.count \in Nat
  BY <1>1, FieldsFit
<1>3. PICK p : /\ LhTableInsert(t, hash, key, val) = Place(p, hash, key, val)
               /\ TableFits(p) /\ p.count = t.count /\ p.count < p.size
               /\ t.count + 1 =< Limit(p.size)
               /\ Cardinality(WithKey(p, FREED)) =< Cardinality(WithKey(t, FREED))
               /\ \A w : Cardinality(Holding(p, w)) = Cardinality(Holding(t, w))
  <2>1. Cardinality(WithKey(t, FREED)) \in Nat
    <3>1. WithKey(t, FREED) \in SUBSET (0 .. z - 1)
      BY <1>1, FieldsFit DEF WithKey
    <3> QED BY <1>1, <3>1, SlotsFinite
  <2>2. CASE Loaded(t)
    <3>1. 2 * t.size \in Nat \ {0} /\ t.count < 2 * t.size /\ t.count + 1 =< Limit(2 * t.size)
      BY <1>1, <1>2 DEF Limit
    <3>2. /\ TableFits(g) /\ g.size = 2 * t.size /\ g.count = t.count /\ WithKey(g, FREED) = {}
          /\ \A w : Cardinality(Holding(g, w)) = Cardinality(Holding(t, w))
      <4>1. t.count =< 2 * t.size
        BY <1>1, <1>2, <3>1
      <4> QED BY <3>1, <4>1, ResizeFits
    <3> HIDE DEF g
    <3>3. LhTableInsert(t, hash, key, val) = Place(g, hash, key, val)
      BY <2>2 DEF LhTableInsert, g
    <3>4. Cardinality(WithKey(g, FREED)) = 0
      BY <3>2, FS_EmptySet
    <3> QED BY <2>1, <3>1, <3>2, <3>3, <3>4
  <2>3. CASE ~ Loaded(t)
    <3>1. 100 * t.count =< 66 * t.size
      BY <1>1, <1>2, <2>3 DEF Loaded
    <3>2. t.count < t.size /\ t.count + 1 =< Limit(t.size)
      BY <1>1, <1>2, <3>1 DEF Limit
    <3>3. LhTableInsert(t, hash, key, val) = Place(t, hash, key, val)
      BY <2>3 DEF LhTableInsert
    <3> QED BY <2>1, <3>2, <3>3
  <2> QED BY <2>2, <2>3
<1> DEFINE u == Place(p, hash, key, val)
<1>4. /\ TableFits(u) /\ u.size = p.size /\ u.count = p.count + 1
      /\ Cardinality(WithKey(u, FREED)) =< Cardinality(WithKey(p, FREED))
      /\ \A w : Cardinality(Holding(u, w)) =
                   Cardinality(Holding(p, w)) + (IF w = val THEN 1 ELSE 0)
  BY <1>3, PlaceFits
<1> HIDE DEF u
<1>5. \A w : Cardinality(Holding(u, w)) =
                Cardinality(Holding(t, w)) + (IF w = val THEN 1 ELSE 0)
  BY <1>3, <1>4
<1>6. Cardinality(WithKey(u, FREED)) =< Cardinality(WithKey(t, FREED))
  <2>1. PICK x \in Nat \ {0} : u.size = x /\ u \in Sized(x)
    BY <1>4 DEF TableFits
  <2>2. PICK y \in Nat \ {0} : p.size = y /\ p \in Sized(y)
    BY <1>3 DEF TableFits
  <2>3. WithKey(u, FREED) \in SUBSET (0 .. x - 1) /\ WithKey(p, FREED) \in SUBSET (0 .. y - 1)
        /\ WithKey(t, FREED) \in SUBSET (0 .. z - 1)
    BY <1>1, <2>1, <2>2, FieldsFit DEF WithKey
  <2>4. /\ Cardinality(WithKey(u, FREED)) \in Nat /\ Cardinality(WithKey(p, FREED)) \in Nat
        /\ Cardinality(WithKey(t, FREED)) \in Nat
    BY <1>1, <2>1, <2>2, <2>3, SlotsFinite
  <2> QED BY <1>3, <1>4, <2>4
<1>7. TableFits(u) /\ u.count =< Limit(u.size)
  BY <1>3, <1>4
<1>8. LhTableInsert(t, hash, key, val) = u
  BY <1>3 DEF u
<1> QED BY <1>5, <1>6, <1>7, <1>8

-----------------------------------------------------------------------------
(* Arrays: the slots behind the length are NULL.                           *)
ArrayFits(a) ==
    /\ Fits(a) /\ a.array \in [0 .. a.size - 1 -> Referred]
    /\ \A j \in 0 .. a.size - 1 : j >= a.length => a.array[j] = NULL

(* The positions, counted from 1, that hold a value.                       *)
Positions(a, w) == {j \in 1 .. a.size : a.array[j - 1] = w}

(* They are the positions among the elements.                              *)
LEMMA ItemsHold ==
    ASSUME NEW a, ArrayFits(a), NEW w \in Nodes
    PROVE  {j \in DOMAIN Items(a) : Items(a)[j] = w} = Positions(a, w)
<1>1. a.size \in Nat /\ a.length \in Nat /\ a.length =< a.size
  BY DEF ArrayFits, Fits
<1>2. DOMAIN Items(a) = 1 .. a.length /\ \A j \in 1 .. a.length : Items(a)[j] = a.array[j - 1]
  BY DEF Items
<1>3. w # NULL
  BY NodesAssumption DEF Nodes
<1>4. ASSUME NEW j \in 1 .. a.size, a.array[j - 1] = w PROVE j \in 1 .. a.length
  <2>1. j - 1 \in 0 .. a.size - 1
    BY <1>1
  <2>2. ~ (j - 1 >= a.length)
    BY <1>3, <1>4, <2>1 DEF ArrayFits
  <2> QED BY <1>1, <2>1, <2>2
<1>5. \A j \in 1 .. a.length : j \in 1 .. a.size
  BY <1>1
<1> QED BY <1>2, <1>4, <1>5 DEF Positions

(* What the expansion leaves behind.                                       *)
LEMMA ExpandFits ==
    ASSUME NEW a, ArrayFits(a), NEW i \in Nat
    PROVE  LET b == ExpandInternal(a, i)
           IN  /\ ArrayFits(b) /\ b.length = a.length /\ a.size =< b.size
               /\ \A j \in 0 .. b.size - 1 :
                     b.array[j] = IF j < a.size THEN a.array[j] ELSE NULL
<1>1. /\ DOMAIN a = {"size", "length", "array"} /\ a = [f \in DOMAIN a |-> a[f]]
      /\ a.size \in Nat \ {0} /\ a.length \in Nat /\ a.length =< a.size
      /\ a.array \in [0 .. a.size - 1 -> Referred]
      /\ \A j \in 0 .. a.size - 1 : j >= a.length => a.array[j] = NULL
  BY DEF ArrayFits, Fits
<1>2. CASE i < a.size
  <2>1. ExpandInternal(a, i) = a
    BY <1>2 DEF ExpandInternal
  <2> QED BY <1>1, <2>1
<1>3. CASE ~ (i < a.size)
  <2> DEFINE size == IF 2 * a.size >= i THEN 2 * a.size ELSE i
             array == [j \in 0 .. size - 1 |-> IF j < a.size THEN a.array[j] ELSE 0]
             b == ExpandInternal(a, i)
  <2>1. size \in Nat \ {0} /\ a.size =< size
    BY <1>1
  <2>2. b = [a EXCEPT !.size = size, !.array = array]
    BY <1>3 DEF ExpandInternal
  <2> HIDE DEF b
  <2>3. DOMAIN b = DOMAIN a /\ b = [f \in DOMAIN b |-> b[f]]
    BY <2>2
  <2>4. b.size = size /\ b.length = a.length /\ b.array = array
    BY <1>1, <2>2
  <2> HIDE DEF size
  <2>5. \A j \in 0 .. size - 1 : array[j] = IF j < a.size THEN a.array[j] ELSE NULL
    BY DEF NULL
  <2>6. array \in [0 .. size - 1 -> Referred]
    <3>1. NULL \in Referred
      BY DEF Referred
    <3> QED BY <1>1, <2>1, <3>1 DEF NULL
  <2> HIDE DEF array
  <2>7. Fits(b)
    BY <1>1, <2>1, <2>3, <2>4 DEF Fits
  <2>8. \A j \in 0 .. size - 1 : j >= b.length => b.array[j] = NULL
    BY <1>1, <2>1, <2>4, <2>5
  <2>9. ArrayFits(b)
    BY <2>4, <2>6, <2>7, <2>8 DEF ArrayFits
  <2> QED BY <2>1, <2>4, <2>5, <2>9 DEF b
<1> QED BY <1>2, <1>3

(* What is put takes one position, what it replaces loses it.              *)
LEMMA PutIdxCounts ==
    ASSUME NEW a, ArrayFits(a), NEW i \in Nat, NEW v \in Referred, ~ Outside(a, i)
    PROVE  LET c == PutIdx(a, i, v)
           IN  /\ ArrayFits(c)
               /\ \A w \in Nodes :
                     Cardinality(Positions(c, w)) =
                        Cardinality(Positions(a, w)) + (IF w = v THEN 1 ELSE 0)
                        - (IF w = Replaced(a, i) THEN 1 ELSE 0)
<1> DEFINE b == ExpandInternal(a, i)
           c == PutIdx(a, i, v)
<1>1. /\ ArrayFits(b) /\ b.length = a.length /\ a.size =< b.size
      /\ \A j \in 0 .. b.size - 1 : b.array[j] = IF j < a.size THEN a.array[j] ELSE NULL
  BY ExpandFits
<1>2. i < b.size
  <2>1. b.size \in Nat
    BY <1>1 DEF ArrayFits, Fits
  <2> QED BY <2>1 DEF Outside
<1>3. c = [b EXCEPT !.array[i] = v, !.length = IF @ =< i THEN i + 1 ELSE @]
  BY DEF PutIdx
<1> HIDE DEF b, c
<1>4. /\ DOMAIN b = {"size", "length", "array"} /\ b = [f \in DOMAIN b |-> b[f]]
      /\ b.size \in Nat \ {0} /\ b.length \in Nat /\ b.length =< b.size
      /\ b.array \in [0 .. b.size - 1 -> Referred]
      /\ \A j \in 0 .. b.size - 1 : j >= b.length => b.array[j] = NULL
  BY <1>1 DEF ArrayFits, Fits
<1>5. DOMAIN c = DOMAIN b /\ c = [f \in DOMAIN c |-> c[f]]
  BY <1>3
<1>6. /\ c.size = b.size /\ c.array = [b.array EXCEPT ![i] = v]
      /\ c.length = IF b.length =< i THEN i + 1 ELSE b.length
  BY <1>3, <1>4
<1>7. c.length \in Nat /\ c.length =< c.size /\ i < c.length /\ b.length =< c.length
  BY <1>2, <1>4, <1>6
<1>8. Fits(c)
  BY <1>4, <1>5, <1>6, <1>7 DEF Fits
<1>9. ArrayFits(c)
  <2>1. c.array \in [0 .. c.size - 1 -> Referred]
    BY <1>4, <1>6
  <2>2. \A j \in 0 .. c.size - 1 : j >= c.length => c.array[j] = NULL
    BY <1>4, <1>6, <1>7
  <2> QED BY <1>8, <2>1, <2>2 DEF ArrayFits
<1>10. PICK z \in Nat \ {0} : b.size = z
  BY <1>4
<1>11. a.size \in Nat /\ a.size =< z
  BY <1>1, <1>10 DEF ArrayFits, Fits
<1>12. ASSUME NEW w \in Nodes
       PROVE  Cardinality(Positions(c, w)) =
                 Cardinality(Positions(a, w)) + (IF w = v THEN 1 ELSE 0)
                 - (IF w = Replaced(a, i) THEN 1 ELSE 0)
  <2>1. PICK P : P = Positions(a, w)
    OBVIOUS
  <2>2. PICK Q : Q = Positions(c, w)
    OBVIOUS
  <2>3. i + 1 \in 0 .. (z + 1) - 1 /\ i + 1 \in 1 .. z /\ (i + 1) - 1 = i /\ z + 1 \in Nat
    BY <1>2, <1>10
  <2>4. P \in SUBSET (0 .. (z + 1) - 1)
    BY <1>11, <2>1 DEF Positions
  <2>5. w # NULL
    BY NodesAssumption DEF Nodes
  <2>6. P = {j \in 1 .. z : b.array[j - 1] = w}
    <3>1. ASSUME NEW j \in 1 .. z
          PROVE  b.array[j - 1] = w <=> j \in 1 .. a.size /\ a.array[j - 1] = w
      <4>1. j - 1 \in 0 .. z - 1
        OBVIOUS
      <4>2. b.array[j - 1] = IF j - 1 < a.size THEN a.array[j - 1] ELSE NULL
        BY <1>1, <1>10, <4>1
      <4>3. j - 1 < a.size <=> j \in 1 .. a.size
        BY <1>11
      <4> QED BY <2>5, <4>2, <4>3
    <3>2. \A j \in 1 .. a.size : j \in 1 .. z
      BY <1>11
    <3> QED BY <2>1, <3>1, <3>2 DEF Positions
  <2>7. i + 1 \in P <=> w = Replaced(a, i)
    <3>1. i + 1 \in P <=> i + 1 \in 1 .. a.size /\ a.array[i] = w
      BY <2>1, <2>3 DEF Positions
    <3>2. i + 1 \in 1 .. a.size <=> i < a.size
      BY <1>11
    <3>3. NULL = 0
      BY DEF NULL
    <3> QED BY <2>5, <3>1, <3>2, <3>3 DEF Replaced
  <2>8. Q = {j \in 1 .. z : c.array[j - 1] = w}
    BY <1>6, <1>10, <2>2 DEF Positions
  <2>9. \A j \in 1 .. z : c.array[j - 1] = IF j = i + 1 THEN v ELSE b.array[j - 1]
    <3>1. \A j \in 1 .. z : j - 1 \in 0 .. b.size - 1 /\ (j = i + 1 <=> j - 1 = i)
      BY <1>10
    <3> QED BY <1>4, <1>6, <3>1
  <2>10. Cardinality(P) \in Nat
    BY <2>3, <2>4, SlotsFinite
  <2>11. Cardinality(Q) = Cardinality(P) + (IF w = v THEN 1 ELSE 0)
                          - (IF i + 1 \in P THEN 1 ELSE 0)
    <3>1. CASE w = v
      <4>1. Q = P \cup {i + 1}
        BY <2>3, <2>6, <2>8, <2>9, <3>1
      <4>2. CASE i + 1 \in P
        <5>1. Q = P
          BY <4>1, <4>2
        <5> QED BY <2>10, <3>1, <4>2, <5>1
      <4>3. CASE i + 1 \notin P
        <5>1. Cardinality(P \cup {i + 1}) = Cardinality(P) + 1
          BY <2>3, <2>4, <4>3, CountWith
        <5> QED BY <2>10, <3>1, <4>1, <4>3, <5>1
      <4> QED BY <4>2, <4>3
    <3>2. CASE w # v
      <4>1. Q = P \ {i + 1}
        BY <2>3, <2>6, <2>8, <2>9, <3>2
      <4>2. CASE i + 1 \in P
        <5>1. Cardinality(P \ {i + 1}) = Cardinality(P) - 1
          BY <2>3, <2>4, <4>2, CountWith
        <5> QED BY <2>10, <3>2, <4>1, <4>2, <5>1
      <4>3. CASE i + 1 \notin P
        <5>1. Q = P
          BY <4>1, <4>3
        <5> QED BY <2>10, <3>2, <4>3, <5>1
      <4> QED BY <4>2, <4>3
    <3> QED BY <3>1, <3>2
  <2> QED BY <2>1, <2>2, <2>7, <2>11
<1> QED BY <1>9, <1>12 DEF c

-----------------------------------------------------------------------------
(* The invariant of the reference counts.  The parts of the store fit, the *)
(* table is never loaded beyond its limit, and no slot of it was freed     *)
(* without a deletion that was counted.                                    *)
Together ==
    /\ use \in Uses /\ hash \in [Keys -> Nat]
    /\ TableFits(table) /\ table.count =< Limit(table.size)
    /\ dels \in Nat /\ Cardinality(WithKey(table, FREED)) =< dels
    /\ ArrayFits(list)
    /\ refs \in [Nodes -> Int] /\ held \in [Nodes -> Int]
CountInv == Together /\ CountsReferences /\ HangNeedsDeletions

(* How often a table or an array of a kind holds a value.                  *)
Hold(k, t, a, w) ==
    IF k = "object" THEN Cardinality(Holding(t, w)) ELSE Cardinality(Positions(a, w))

LEMMA PlacesHold ==
    ASSUME ArrayFits(list), NEW w \in Nodes
    PROVE  Places(w) = Hold(kind, table, list, w)
BY ItemsHold DEF Places, Hold, Holding

LEMMA PlacesHoldNext ==
    ASSUME ArrayFits(list'), NEW w \in Nodes
    PROVE  Places(w)' = Hold(kind', table', list', w)
BY ItemsHold DEF Places, Hold, Holding

LEMMA HoldNat ==
    ASSUME NEW k, NEW t, NEW a, TableFits(t), ArrayFits(a), NEW w
    PROVE  Hold(k, t, a, w) \in Nat
<1>1. PICK z \in Nat \ {0} : t.size = z /\ t \in Sized(z)
  BY DEF TableFits
<1>2. Holding(t, w) \in SUBSET (0 .. z - 1)
  BY <1>1, FieldsFit DEF Holding
<1>3. Cardinality(Holding(t, w)) \in Nat
  BY <1>1, <1>2, SlotsFinite
<1>4. PICK y \in Nat : a.size = y
  BY DEF ArrayFits, Fits
<1>5. Positions(a, w) \in SUBSET (0 .. (y + 1) - 1) /\ y + 1 \in Nat
  BY <1>4 DEF Positions
<1>6. Cardinality(Positions(a, w)) \in Nat
  BY <1>5, SlotsFinite
<1> QED BY <1>3, <1>6 DEF Hold

(* Without an empty slot, freed slots are all that the limit leaves.       *)
LEMMA FullNeedsDeletions ==
    ASSUME NEW t, TableFits(t), t.count =< Limit(t.size), NEW d \in Nat,
           Cardinality(WithKey(t, FREED)) =< d, WithKey(t, EMPTY) = {}
    PROVE  d >= t.size - (66 * t.size) \div 100 - 1
<1>1. PICK z \in Nat \ {0} : t.size = z /\ t \in Sized(z) /\ t.count = Cardinality(Used(t))
  BY DEF TableFits
<1>2. DOMAIN t.k = 0 .. z - 1 /\ Used(t) \in SUBSET (0 .. z - 1)
      /\ WithKey(t, FREED) \in SUBSET (0 .. z - 1)
  BY <1>1, FieldsFit DEF WithKey
<1>3. 0 .. z - 1 = Used(t) \cup WithKey(t, FREED) /\ Used(t) \cap WithKey(t, FREED) = {}
  BY <1>2 DEF Used, WithKey
<1>4. /\ IsFiniteSet(Used(t)) /\ IsFiniteSet(WithKey(t, FREED))
      /\ Cardinality(Used(t)) \in Nat /\ Cardinality(WithKey(t, FREED)) \in Nat
  BY <1>1, <1>2, SlotsFinite
<1>5. Cardinality(0 .. z - 1) = z
  <2>1. 0 \in Int /\ z - 1 \in Int /\ (z - 1) - 0 + 1 = z /\ 0 <= z - 1
    OBVIOUS
  <2> QED BY <2>1, FS_Interval
<1>6. Cardinality({}) = 0
  BY FS_EmptySet
<1>7. Cardinality(Used(t) \cup WithKey(t, FREED)) =
         Cardinality(Used(t)) + Cardinality(WithKey(t, FREED))
         - Cardinality(Used(t) \cap WithKey(t, FREED))
  BY <1>4, FS_Union
<1>8. z = t.count + Cardinality(WithKey(t, FREED))
  <2>1. Cardinality(Used(t) \cup WithKey(t, FREED)) = z
    BY <1>3, <1>5, Zenon
  <2>2. Cardinality(Used(t) \cap WithKey(t, FREED)) = 0
    BY <1>3, <1>6, Zenon
  <2> QED BY <1>1, <1>4, <1>7, <2>1, <2>2
<1> QED BY <1>1, <1>4, <1>8 DEF Limit

(* A step that leaves the container alone and gives or takes as many       *)
(* references as the application gets or loses.                            *)
LEMMA SameContainer ==
    ASSUME CountInv, UNCHANGED <<use, hash, table, list, dels>>,
           refs' \in [Nodes -> Int], held' \in [Nodes -> Int],
           \A w \in Nodes : refs'[w] - held'[w] = refs[w] - held[w],
           phase' = "freed" <=> phase = "freed",
           phase' = "hung" => (phase = "hung" \/ WithKey(table, EMPTY) = {})
    PROVE  CountInv'
<1>1. Together'
  BY DEF CountInv, Together
<1>2. CountsReferences'
  <2>1. ASSUME NEW w \in Nodes
        PROVE  refs'[w] = held'[w] + (IF phase' = "freed" THEN 0 ELSE Places(w)')
    <3>1. /\ Places(w) = Hold(kind, table, list, w) /\ Places(w)' = Places(w)
          /\ Hold(kind, table, list, w) \in Nat
      BY PlacesHold, PlacesHoldNext, HoldNat DEF CountInv, Together, kind
    <3>2. refs[w] = held[w] + (IF phase = "freed" THEN 0 ELSE Places(w))
      BY DEF CountInv, CountsReferences
    <3>3. refs[w] \in Int /\ held[w] \in Int /\ refs'[w] \in Int /\ held'[w] \in Int
      BY DEF CountInv, Together
    <3>4. refs'[w] - held'[w] = refs[w] - held[w]
      OBVIOUS
    <3> QED BY <3>1, <3>2, <3>3, <3>4
  <2> QED BY <2>1 DEF CountsReferences
<1>3. HangNeedsDeletions'
  <2>1. CASE phase = "hung"
    BY <2>1 DEF CountInv, HangNeedsDeletions
  <2>2. CASE phase # "hung"
    <3>1. WithKey(table, EMPTY) = {} => dels >= table.size - (66 * table.size) \div 100 - 1
      BY FullNeedsDeletions DEF CountInv, Together
    <3> QED BY <2>2, <3>1 DEF HangNeedsDeletions
  <2> QED BY <2>1, <2>2
<1> QED BY <1>1, <1>2, <1>3 DEF CountInv

LEMMA SameStore ==
    ASSUME CountInv, UNCHANGED <<use, hash, store, dels>>, phase' = "freed" <=> phase = "freed",
           phase' = "hung" => (phase = "hung" \/ WithKey(table, EMPTY) = {})
    PROVE  CountInv'
<1>1. \A w \in Nodes : refs'[w] - held'[w] = refs[w] - held[w]
  BY DEF store
<1>2. refs' \in [Nodes -> Int] /\ held' \in [Nodes -> Int]
  BY DEF store, CountInv, Together
<1> QED BY <1>1, <1>2, SameContainer DEF store

(* A step that changes the container.                                      *)
LEMMA NewContainer ==
    ASSUME CountInv, Together', use' = use, phase # "freed", phase' = "ready",
           \A w \in Nodes : refs'[w] - held'[w] - Hold(kind, table', list', w)
                            = refs[w] - held[w] - Hold(kind, table, list, w)
    PROVE  CountInv'
<1>1. CountsReferences'
  <2>1. ASSUME NEW w \in Nodes
        PROVE  refs'[w] = held'[w] + (IF phase' = "freed" THEN 0 ELSE Places(w)')
    <3>1. Places(w) = Hold(kind, table, list, w) /\ Places(w)' = Hold(kind, table', list', w)
      BY PlacesHold, PlacesHoldNext DEF CountInv, Together, kind
    <3>2. Hold(kind, table, list, w) \in Nat /\ Hold(kind, table', list', w) \in Nat
      BY HoldNat DEF CountInv, Together
    <3>3. refs[w] = held[w] + Places(w)
      BY DEF CountInv, CountsReferences
    <3>4. refs[w] \in Int /\ held[w] \in Int /\ refs'[w] \in Int /\ held'[w] \in Int
      BY DEF CountInv, Together
    <3>5. refs'[w] - held'[w] - Hold(kind, table', list', w)
          = refs[w] - held[w] - Hold(kind, table, list, w)
      OBVIOUS
    <3>6. refs'[w] = held'[w] + Hold(kind, table', list', w)
      <4>1. PICK x \in Nat : x = Hold(kind, table, list, w)
        BY <3>2
      <4>2. PICK y \in Nat : y = Hold(kind, table', list', w)
        BY <3>2
      <4>3. refs[w] = held[w] + x
        BY <3>1, <3>3, <4>1
      <4>4. refs'[w] - held'[w] - y = refs[w] - held[w] - x
        BY <3>5, <4>1, <4>2
      <4>5. refs'[w] = held'[w] + y
        BY <3>4, <4>3, <4>4
      <4> QED BY <4>2, <4>5
    <3> QED BY <3>1, <3>6
  <2> QED BY <2>1 DEF CountsReferences
<1>2. HangNeedsDeletions'
  BY DEF HangNeedsDeletions
<1> QED BY <1>1, <1>2 DEF CountInv

-----------------------------------------------------------------------------
(* What a deletion of a key leaves of the store.                           *)
LEMMA DeletedFits ==
    ASSUME Together, NEW key \in Keys, ~LhLookupLoops(table, key)
    PROVE  LET d == Deleted(key)
           IN  /\ TableFits(d.table) /\ d.table.count =< Limit(d.table.size)
               /\ d.dels \in Nat /\ Cardinality(WithKey(d.table, FREED)) =< d.dels
               /\ d.refs \in [Nodes -> Int]
               /\ \A w \in Nodes : d.refs[w] - Cardinality(Holding(d.table, w))
                                   = refs[w] - Cardinality(Holding(table, w))
<1> DEFINE d == Deleted(key)
<1>1. PICK n : n = LhLookupEntry(table, hash, key)
  OBVIOUS
<1>2. n = NoSlot \/ n \in Used(table)
  BY <1>1, LookupFits DEF Together
<1>3. /\ TableFits(table) /\ table.count =< Limit(table.size)
      /\ dels \in Nat /\ Cardinality(WithKey(table, FREED)) =< dels
      /\ refs \in [Nodes -> Int]
  BY DEF Together
<1>4. CASE n = NoSlot
  <2>1. d = [table |-> table, refs |-> refs, dels |-> dels]
    BY <1>1, <1>4 DEF Deleted
  <2> HIDE DEF d
  <2>2. d.table = table /\ d.refs = refs /\ d.dels = dels
    BY <2>1
  <2> QED BY <1>3, <2>2 DEF d
<1>5. CASE n # NoSlot
  <2> DEFINE u == LhDeleteEntry(table, n)
  <2>1. d = [table |-> u, refs |-> PutRef(refs, table.v[n]), dels |-> dels + 1]
    BY <1>1, <1>5 DEF Deleted
  <2>2. n \in Used(table)
    BY <1>2, <1>5
  <2>3. /\ TableFits(u) /\ u.size = table.size /\ u.count = table.count - 1
        /\ Cardinality(WithKey(u, FREED)) =< Cardinality(WithKey(table, FREED)) + 1
        /\ \A w : Cardinality(Holding(u, w)) =
                     Cardinality(Holding(table, w)) - (IF w = table.v[n] THEN 1 ELSE 0)
    BY <1>3, <2>2, DeleteFits
  <2> HIDE DEF u, d
  <2>4. d.table = u /\ d.refs = PutRef(refs, table.v[n]) /\ d.dels = dels + 1
    BY <2>1
  <2>5. PICK z \in Nat \ {0} : table.size = z /\ table \in Sized(z)
    BY <1>3 DEF TableFits
  <2>6. PICK y \in Nat \ {0} : u.size = y /\ u \in Sized(y)
    BY <2>3 DEF TableFits
  <2>7. table.count \in Nat
    BY <2>5, FieldsFit
  <2>8. WithKey(table, FREED) \in SUBSET (0 .. z - 1) /\ WithKey(u, FREED) \in SUBSET (0 .. y - 1)
    BY <2>5, <2>6, FieldsFit DEF WithKey
  <2>9. Cardinality(WithKey(table, FREED)) \in Nat /\ Cardinality(WithKey(u, FREED)) \in Nat
    BY <2>5, <2>6, <2>8, SlotsFinite
  <2>10. Limit(table.size) \in Int
    BY <2>5 DEF Limit
  <2>11. u.count =< Limit(u.size)
    BY <1>3, <2>3, <2>7, <2>10
  <2>12. Cardinality(WithKey(u, FREED)) =< dels + 1 /\ dels + 1 \in Nat
    BY <1>3, <2>3, <2>9
  <2>13. PutRef(refs, table.v[n]) \in [Nodes -> Int]
    BY <1>3 DEF PutRef
  <2>14. ASSUME NEW w \in Nodes
         PROVE  PutRef(refs, table.v[n])[w] - Cardinality(Holding(u, w))
                = refs[w] - Cardinality(Holding(table, w))
    <3>1. PutRef(refs, table.v[n])[w] = refs[w] - (IF w = table.v[n] THEN 1 ELSE 0)
      BY <1>3 DEF PutRef
    <3>2. Holding(table, w) \in SUBSET (0 .. z - 1)
      BY <2>5, FieldsFit DEF Holding
    <3>3. PICK c \in Nat : c = Cardinality(Holding(table, w))
      BY <2>5, <3>2, SlotsFinite
    <3>4. PICK r \in Int : r = refs[w]
      BY <1>3
    <3>5. Cardinality(Holding(u, w)) = c - (IF w = table.v[n] THEN 1 ELSE 0)
      BY <2>3, <3>3
    <3> QED BY <3>1, <3>3, <3>4, <3>5
  <2> QED BY <2>3, <2>4, <2>11, <2>12, <2>13, <2>14 DEF d
<1> QED BY <1>4, <1>5

(* The application's share after it handed a value over.                   *)
LEMMA HandOverFits ==
    ASSUME held \in [Nodes -> Int], NEW v
    PROVE  /\ HandOver(v) \in [Nodes -> Int]
           /\ \A w \in Nodes : HandOver(v)[w] = held[w] - (IF w = v THEN 1 ELSE 0)
BY DEF HandOver

LEMMA AddKeyCounts ==
    ASSUME CountInv, NEW key \in Keys, NEW v \in Referred, ObjectAddKey(key, v)
    PROVE  CountInv'
<1> DEFINE d == Deleted(key)
<1>1. Together /\ kind = "object" /\ phase # "freed"
  BY DEF CountInv, ObjectAddKey, InObject, Idle
<1>2. PICK t, r, e : t = d.table /\ r = d.refs /\ e = d.dels
  OBVIOUS
<1>3. /\ TableFits(t) /\ t.count =< Limit(t.size)
      /\ e \in Nat /\ Cardinality(WithKey(t, FREED)) =< e
      /\ r \in [Nodes -> Int]
      /\ \A w \in Nodes : r[w] - Cardinality(Holding(t, w))
                          = refs[w] - Cardinality(Holding(table, w))
  <2>1. ~LhLookupLoops(table, key)
    BY DEF ObjectAddKey
  <2> QED BY <1>1, <1>2, <2>1, DeletedFits
<1>4. /\ table' = LhTableInsert(t, hash, key, v) /\ refs' = r /\ dels' = e
      /\ held' = HandOver(v) /\ phase' = "ready"
      /\ use' = use /\ hash' = hash /\ list' = list
  BY <1>2 DEF ObjectAddKey, Returns
<1>5. PICK u : u = LhTableInsert(t, hash, key, v)
  OBVIOUS
<1>6. hash \in [Keys -> Nat]
  BY <1>1 DEF Together
<1>7. /\ TableFits(u) /\ u.count =< Limit(u.size)
      /\ Cardinality(WithKey(u, FREED)) =< Cardinality(WithKey(t, FREED))
      /\ \A w : Cardinality(Holding(u, w)) =
                   Cardinality(Holding(t, w)) + (IF w = v THEN 1 ELSE 0)
  BY <1>3, <1>5, <1>6, InsertFits
<1>8. table' = u
  BY <1>4, <1>5
<1>9. Cardinality(WithKey(u, FREED)) =< e
  <2>1. PICK z \in Nat \ {0} : t.size = z /\ t \in Sized(z)
    BY <1>3 DEF TableFits
  <2>2. PICK y \in Nat \ {0} : u.size = y /\ u \in Sized(y)
    BY <1>7 DEF TableFits
  <2>3. WithKey(t, FREED) \in SUBSET (0 .. z - 1) /\ WithKey(u, FREED) \in SUBSET (0 .. y - 1)
    BY <2>1, <2>2, FieldsFit DEF WithKey
  <2>4. Cardinality(WithKey(t, FREED)) \in Nat /\ Cardinality(WithKey(u, FREED)) \in Nat
    BY <2>1, <2>2, <2>3, SlotsFinite
  <2> QED BY <1>3, <1>7, <2>4
<1>10. /\ HandOver(v) \in [Nodes -> Int]
       /\ \A w \in Nodes : HandOver(v)[w] = held[w] - (IF w = v THEN 1 ELSE 0)
  BY <1>1, HandOverFits DEF Together
<1>11. Together'
  BY <1>1, <1>3, <1>4, <1>7, <1>8, <1>9, <1>10 DEF Together
<1>12. ASSUME NEW w \in Nodes
       PROVE  refs'[w] - held'[w] - Hold(kind, table', list', w)
              = refs[w] - held[w] - Hold(kind, table, list, w)
  <2>1. Hold(kind, table', list', w) = Cardinality(Holding(u, w))
        /\ Hold(kind, table, list, w) = Cardinality(Holding(table, w))
    BY <1>1, <1>8 DEF Hold
  <2>2. PICK x \in Nat : x = Cardinality(Holding(table, w))
    BY <1>1, <2>1, HoldNat DEF Together
  <2>3. PICK y \in Nat : y = Cardinality(Holding(t, w))
    BY <1>1, <1>3, HoldNat DEF Together, Hold
  <2>4. PICK b \in {0, 1} : b = IF w = v THEN 1 ELSE 0
    OBVIOUS
  <2>5. Cardinality(Holding(u, w)) = y + b
    BY <1>7, <2>3, <2>4
  <2>6. held'[w] = held[w] - b
    BY <1>4, <1>10, <2>4
  <2>7. refs'[w] - y = refs[w] - x
    BY <1>3, <1>4, <2>2, <2>3
  <2>8. refs[w] \in Int /\ held[w] \in Int /\ refs'[w] \in Int
    BY <1>1, <1>3, <1>4 DEF Together
  <2> QED BY <2>1, <2>2, <2>5, <2>6, <2>7, <2>8
<1> QED BY <1>1, <1>4, <1>11, <1>12, NewContainer

LEMMA DelCounts ==
    ASSUME CountInv, NEW key \in Keys, ObjectDel(key)
    PROVE  CountInv'
<1> DEFINE d == Deleted(key)
<1>1. Together /\ kind = "object" /\ phase # "freed"
  BY DEF CountInv, ObjectDel, InObject, Idle
<1>2. PICK t, r, e : t = d.table /\ r = d.refs /\ e = d.dels
  OBVIOUS
<1>3. /\ TableFits(t) /\ t.count =< Limit(t.size)
      /\ e \in Nat /\ Cardinality(WithKey(t, FREED)) =< e
      /\ r \in [Nodes -> Int]
      /\ \A w \in Nodes : r[w] - Cardinality(Holding(t, w))
                          = refs[w] - Cardinality(Holding(table, w))
  <2>1. ~LhLookupLoops(table, key)
    BY DEF ObjectDel
  <2> QED BY <1>1, <1>2, <2>1, DeletedFits
<1>4. /\ table' = t /\ refs' = r /\ dels' = e /\ held' = held /\ phase' = "ready"
      /\ use' = use /\ hash' = hash /\ list' = list
  BY <1>2 DEF ObjectDel, Returns
<1>5. Together'
  BY <1>1, <1>3, <1>4 DEF Together
<1>6. ASSUME NEW w \in Nodes
      PROVE  refs'[w] - held'[w] - Hold(kind, table', list', w)
             = refs[w] - held[w] - Hold(kind, table, list, w)
  <2>1. Hold(kind, table', list', w) = Cardinality(Holding(t, w))
        /\ Hold(kind, table, list, w) = Cardinality(Holding(table, w))
    BY <1>1, <1>4 DEF Hold
  <2>2. PICK x \in Nat : x = Cardinality(Holding(table, w))
    BY <1>1, <2>1, HoldNat DEF Together
  <2>3. PICK y \in Nat : y = Cardinality(Holding(t, w))
    BY <1>1, <1>3, HoldNat DEF Together, Hold
  <2>4. refs'[w] - y = refs[w] - x /\ held'[w] = held[w]
    BY <1>3, <1>4, <2>2, <2>3
  <2>5. refs[w] \in Int /\ held[w] \in Int /\ refs'[w] \in Int
    BY <1>1, <1>3, <1>4 DEF Together
  <2> QED BY <2>1, <2>2, <2>3, <2>4, <2>5
<1> QED BY <1>1, <1>4, <1>5, <1>6, NewContainer

LEMMA PutIdxKeepsCounts ==
    ASSUME CountInv, NEW i \in Nat, NEW v \in Referred, ArrayPutIdx(i, v)
    PROVE  CountInv'
<1>1. Together /\ kind = "array" /\ phase # "freed"
  BY DEF CountInv, ArrayPutIdx, InArray, Idle
<1>2. /\ list' = PutIdx(list, i, v) /\ refs' = PutRef(refs, Replaced(list, i))
      /\ held' = HandOver(v) /\ phase' = "ready" /\ ~ Outside(list, i)
      /\ use' = use /\ hash' = hash /\ table' = table /\ dels' = dels
  BY DEF ArrayPutIdx, Returns
<1>3. PICK c : c = PutIdx(list, i, v)
  OBVIOUS
<1>4. PICK p : p = Replaced(list, i)
  OBVIOUS
<1>5. /\ ArrayFits(c)
      /\ \A w \in Nodes : Cardinality(Positions(c, w)) =
                             Cardinality(Positions(list, w)) + (IF w = v THEN 1 ELSE 0)
                             - (IF w = p THEN 1 ELSE 0)
  BY <1>1, <1>2, <1>3, <1>4, PutIdxCounts DEF Together
<1>6. /\ HandOver(v) \in [Nodes -> Int]
      /\ \A w \in Nodes : HandOver(v)[w] = held[w] - (IF w = v THEN 1 ELSE 0)
  BY <1>1, HandOverFits DEF Together
<1>7. /\ refs' \in [Nodes -> Int]
      /\ \A w \in Nodes : refs'[w] = refs[w] - (IF w = p THEN 1 ELSE 0)
  BY <1>1, <1>2, <1>4 DEF Together, PutRef
<1>8. Together'
  BY <1>1, <1>2, <1>3, <1>5, <1>6, <1>7 DEF Together
<1>9. ASSUME NEW w \in Nodes
      PROVE  refs'[w] - held'[w] - Hold(kind, table', list', w)
             = refs[w] - held[w] - Hold(kind, table, list, w)
  <2>1. Hold(kind, table', list', w) = Cardinality(Positions(c, w))
        /\ Hold(kind, table, list, w) = Cardinality(Positions(list, w))
    BY <1>1, <1>2, <1>3 DEF Hold
  <2>2. PICK x \in Nat : x = Cardinality(Positions(list, w))
    BY <1>1, <2>1, HoldNat DEF Together
  <2>3. PICK a \in {0, 1} : a = IF w = v THEN 1 ELSE 0
    OBVIOUS
  <2>4. PICK b \in {0, 1} : b = IF w = p THEN 1 ELSE 0
    OBVIOUS
  <2>5. Cardinality(Positions(c, w)) = x + a - b
    BY <1>5, <2>2, <2>3, <2>4
  <2>6. held'[w] = held[w] - a
    BY <1>2, <1>6, <2>3
  <2>7. refs'[w] = refs[w] - b
    BY <1>7, <2>4
  <2>8. refs[w] \in Int /\ held[w] \in Int
    BY <1>1 DEF Together
  <2> QED BY <2>1, <2>2, <2>5, <2>6, <2>7, <2>8
<1> QED BY <1>1, <1>2, <1>8, <1>9, NewContainer

LEMMA InitCounts == Init => CountInv
<1> SUFFICES ASSUME Init PROVE CountInv
  OBVIOUS
<1>1. use \in Uses /\ hash \in [Keys -> Nat]
  BY UsesAssumption, KeysAssumption DEF Init
<1>2. TableFits(table) /\ table.size = HashSize /\ table.count = 0 /\ Used(table) = {}
      /\ WithKey(table, FREED) = {}
  <2>1. table = LhTableNew(HashSize)
    BY DEF Init
  <2> QED BY <2>1, HashSizeAssumption, NewFits
<1>3. Cardinality({}) = 0
  BY FS_EmptySet
<1>4. table.count =< Limit(table.size)
  BY <1>2, HashSizeAssumption DEF Limit
<1>5. dels \in Nat /\ Cardinality(WithKey(table, FREED)) =< dels
  BY <1>2, <1>3 DEF Init
<1>6. ArrayFits(list) /\ list.size \in Nat /\ \A j \in 0 .. list.size - 1 : list.array[j] = NULL
  <2>1. list = [size |-> ListSize, length |-> 0, array |-> [i \in 0 .. ListSize - 1 |-> 0]]
    BY DEF Init, ArrayListNew
  <2>2. NULL = 0 /\ NULL \in Referred
    BY DEF NULL, Referred
  <2>3. Fits(list)
    BY <2>1, ListSizeAssumption DEF Fits
  <2> QED BY <2>1, <2>2, <2>3, ListSizeAssumption DEF ArrayFits
<1>7. refs \in [Nodes -> Int] /\ held = refs
  BY DEF Init
<1>8. Together
  BY <1>1, <1>2, <1>4, <1>5, <1>6, <1>7 DEF Together
<1>9. CountsReferences
  <2>1. ASSUME NEW w \in Nodes PROVE refs[w] = held[w] + (IF phase = "freed" THEN 0 ELSE Places(w))
    <3>1. w # NULL
      BY NodesAssumption DEF Nodes
    <3>2. Positions(list, w) = {}
      <4>1. \A j \in 1 .. list.size : j - 1 \in 0 .. list.size - 1
        BY <1>6
      <4> QED BY <1>6, <3>1, <4>1 DEF Positions
    <3>3. Holding(table, w) = {}
      BY <1>2 DEF Holding
    <3>4. Hold(kind, table, list, w) = 0
      BY <1>3, <3>2, <3>3 DEF Hold
    <3>5. Places(w) = 0
      BY <1>6, <3>4, PlacesHold
    <3> QED BY <1>7, <3>5
  <2> QED BY <2>1 DEF CountsReferences
<1>10. HangNeedsDeletions
  BY DEF Init, HangNeedsDeletions
<1> QED BY <1>8, <1>9, <1>10 DEF CountInv

LEMMA NextCounts == CountInv /\ [Next]_vars => CountInv'
<1> SUFFICES ASSUME CountInv, [Next]_vars PROVE CountInv'
  OBVIOUS
<1>1. /\ use.keys \subseteq Keys /\ use.nodes \subseteq Nodes
      /\ use.nodes \cup {NULL} \subseteq Referred
      /\ refs \in [Nodes -> Int] /\ held \in [Nodes -> Int] /\ hash \in [Keys -> Nat]
  BY UsesAssumption DEF CountInv, Together, Referred
<1>2. ASSUME NEW key \in use.keys, Hangs(key) PROVE CountInv'
  <2>1. UNCHANGED <<use, hash, store, dels>> /\ phase # "freed" /\ phase' = "hung"
        /\ WithKey(table, EMPTY) = {}
    BY <1>2 DEF Hangs, InObject, Idle, LhLookupLoops
  <2> QED BY <2>1, SameStore
<1>3. ASSUME NEW key \in use.keys, ObjectDel(key) PROVE CountInv'
  BY <1>1, <1>3, DelCounts
<1>4. ASSUME NEW key \in use.keys, ObjectGet(key) PROVE CountInv'
  <2>1. UNCHANGED <<use, hash, store, dels>> /\ phase # "freed" /\ phase' = "ready"
    BY <1>4 DEF ObjectGet, InObject, Idle, Returns
  <2> QED BY <2>1, SameStore
<1>5. ASSUME NEW key \in use.keys, NEW v \in use.nodes \cup {NULL}, ObjectAddKey(key, v)
      PROVE  CountInv'
  BY <1>1, <1>5, AddKeyCounts
<1>6. ASSUME NEW i \in Nat, NEW v \in use.nodes \cup {NULL}, ArrayPutIdx(i, v)
      PROVE  CountInv'
  BY <1>1, <1>6, PutIdxKeepsCounts
<1>7. ASSUME NEW i \in Nat, Overruns(i) PROVE CountInv'
  <2>1. UNCHANGED <<use, hash, store, dels>> /\ phase # "freed" /\ phase' = "overrun"
    BY <1>7 DEF Overruns, InArray, Idle
  <2> QED BY <2>1, SameStore
<1>8. ASSUME NEW v \in use.nodes \cup {NULL}, ArrayAppend(v) PROVE CountInv'
  <2>1. list.length \in Nat
    BY DEF CountInv, Together, ArrayFits, Fits
  <2> QED BY <1>6, <1>7, <1>8, <2>1 DEF ArrayAppend
<1>9. ASSUME NEW i \in Nat, ArrayGetIdx(i) PROVE CountInv'
  <2>1. UNCHANGED <<use, hash, store, dels>> /\ phase # "freed" /\ phase' = "ready"
    BY <1>9 DEF ArrayGetIdx, InArray, Idle, Returns
  <2> QED BY <2>1, SameStore
<1>10. ASSUME NEW v \in use.nodes, JsonObjectGet(v) PROVE CountInv'
  <2>1. /\ UNCHANGED <<use, hash, table, list, dels>> /\ phase # "freed" /\ phase' = "ready"
        /\ refs' = [refs EXCEPT ![v] = @ + 1] /\ held' = [held EXCEPT ![v] = @ + 1]
    BY <1>10 DEF JsonObjectGet, Idle, Returns
  <2>2. refs' \in [Nodes -> Int] /\ held' \in [Nodes -> Int]
    BY <1>1, <2>1
  <2>3. \A w \in Nodes : refs'[w] - held'[w] = refs[w] - held[w]
    BY <1>1, <2>1
  <2> QED BY <2>1, <2>2, <2>3, SameContainer
<1>11. ASSUME NEW v \in use.nodes, JsonObjectPut(v) PROVE CountInv'
  <2>1. /\ UNCHANGED <<use, hash, table, list, dels, phase>>
        /\ refs' = PutRef(refs, v) /\ held' = HandOver(v)
    BY <1>11 DEF JsonObjectPut
  <2>2. refs' \in [Nodes -> Int] /\ held' \in [Nodes -> Int]
    BY <1>1, <2>1 DEF PutRef, HandOver
  <2>3. \A w \in Nodes : refs'[w] - held'[w] = refs[w] - held[w]
    BY <1>1, <2>1 DEF PutRef, HandOver
  <2> QED BY <2>1, <2>2, <2>3, SameContainer
<1>12. ASSUME ToJsonString PROVE CountInv'
  <2>1. UNCHANGED <<use, hash, store, dels>> /\ phase # "freed" /\ phase' = "printing"
    BY <1>12 DEF ToJsonString, Idle
  <2> QED BY <2>1, SameStore
<1>13. ASSUME AppendPiece PROVE CountInv'
  <2>1. UNCHANGED <<use, hash, store, dels>> /\ phase # "freed"
        /\ phase' \in {"printing", "torn", "ready", "printed"}
    BY <1>13 DEF AppendPiece, Printing, PieceDone
  <2> QED BY <2>1, SameStore
<1>14. ASSUME AppendFails PROVE CountInv'
  <2>1. UNCHANGED <<use, hash, store, dels>> /\ phase # "freed" /\ phase' \in {"torn", "ready"}
    BY <1>14 DEF AppendFails, Printing, PieceDone
  <2> QED BY <2>1, SameStore
<1>15. ASSUME Delete PROVE CountInv'
  <2>1. /\ UNCHANGED <<use, hash, table, list, held, dels>> /\ phase # "freed"
        /\ phase' = "freed" /\ refs' = [w \in Nodes |-> refs[w] - Places(w)]
    BY <1>15 DEF Delete, Idle
  <2>2. ASSUME NEW w \in Nodes PROVE refs[w] - Places(w) = held[w] /\ held[w] \in Int
    <3>1. refs[w] = held[w] + Places(w)
      BY <2>1 DEF CountInv, CountsReferences
    <3>2. PICK p \in Nat : p = Places(w)
      BY PlacesHold, HoldNat DEF CountInv, Together
    <3> QED BY <1>1, <3>1, <3>2
  <2>3. refs' \in [Nodes -> Int] /\ \A w \in Nodes : refs'[w] = held'[w]
    BY <2>1, <2>2
  <2>4. Together'
    BY <2>1, <2>3 DEF CountInv, Together
  <2>5. CountsReferences'
    <3>1. ASSUME NEW w \in Nodes
          PROVE  refs'[w] = held'[w] + (IF phase' = "freed" THEN 0 ELSE Places(w)')
      <4>1. held'[w] \in Int
        BY <1>1, <2>1
      <4> QED BY <2>1, <2>3, <4>1
    <3> QED BY <3>1 DEF CountsReferences
  <2>6. HangNeedsDeletions'
    BY <2>1 DEF HangNeedsDeletions
  <2> QED BY <2>4, <2>5, <2>6 DEF CountInv
<1>16. CASE UNCHANGED vars
  BY <1>16, SameStore DEF vars
<1> QED
  <2>1. \A i \in 0 .. MaxIdx : i \in Nat
    BY MaxIdxAssumption
  <2> QED BY <2>1, <1>2, <1>3, <1>4, <1>5, <1>6, <1>7, <1>8, <1>9, <1>10, <1>11, <1>12, <1>13,
             <1>14, <1>15, <1>16 DEF Next

(* A value is referred to by exactly its places in the container and the   *)
(* application's share, through collisions, deletions, growth and          *)
(* replacement, whatever the keys hash to and whatever the sizes are       *)
(* (json_object_put, lh_table_delete, array_list_put_idx).                 *)
THEOREM ReferencesCounted == Spec => []CountsReferences
<1>1. CountInv => CountsReferences
  BY DEF CountInv
<1> QED BY InitCounts, NextCounts, <1>1, PTL DEF Spec

(* lh_table_lookup_entry() returns unless so much was deleted that freed   *)
(* slots fill what the load limit leaves of the table.                     *)
THEOREM LookupsReturn == Spec => []HangNeedsDeletions
<1>1. CountInv => HangNeedsDeletions
  BY DEF CountInv
<1> QED BY InitCounts, NextCounts, <1>1, PTL DEF Spec

-----------------------------------------------------------------------------
(* Searches.  Open addressing relies on every key being met, on the way    *)
(* round from its first slot, before a slot that was never used; and no    *)
(* key is in the table twice.                                              *)
Home(t, h, key) == h[key] % t.size
Way(t, h, key, d) == (Home(t, h, key) + d) % t.size
Met(t, h, n) ==
    \E d \in 0 .. t.size - 1 :
        /\ n = Way(t, h, t.k[n], d)
        /\ \A e \in 0 .. d - 1 : t.k[Way(t, h, t.k[n], e)] # EMPTY
Findable(t, h) ==
    /\ \A m, n \in Used(t) : t.k[m] = t.k[n] => m = n
    /\ \A n \in Used(t) : Met(t, h, n)

(* The entries of a table in the order of its chain.                       *)
EntriesOf(t, s) == [i \in DOMAIN s |-> Entry(t.k[s[i]], t.v[s[i]])]
Entries == [key : Keys, val : Referred]

LEMMA EntriesFit ==
    ASSUME NEW t, TableFits(t), NEW s, Chain(t, s)
    PROVE  /\ EntriesOf(t, s) \in Seq(Entries) /\ Len(EntriesOf(t, s)) = Len(s)
           /\ DOMAIN EntriesOf(t, s) = DOMAIN s
<1>1. PICK z \in Nat \ {0} : t.size = z /\ t \in Sized(z)
  BY DEF TableFits
<1>2. s \in Seq(Int) /\ \A i \in DOMAIN s : s[i] \in Used(t)
  BY DEF Chain
<1>3. /\ t.k \in [0 .. z - 1 -> Texts] /\ t.v \in [0 .. z - 1 -> Referred]
      /\ Used(t) \subseteq 0 .. z - 1
  BY <1>1, FieldsFit
<1>4. ASSUME NEW n \in Used(t) PROVE Entry(t.k[n], t.v[n]) \in Entries
  <2>1. t.k[n] \in Texts /\ t.k[n] \notin {EMPTY, FREED} /\ t.v[n] \in Referred
    BY <1>3 DEF Used
  <2>2. t.k[n] \in Keys
    BY <2>1 DEF Texts
  <2> QED BY <2>1, <2>2 DEF Entry, Entries
<1>5. PICK m \in Nat : m = Len(s) /\ DOMAIN s = 1 .. m
  BY <1>2
<1>6. PICK f : f = EntriesOf(t, s)
  OBVIOUS
<1>7. f \in [1 .. m -> Entries]
  BY <1>2, <1>4, <1>5, <1>6 DEF EntriesOf
<1>8. f \in Seq(Entries) /\ Len(f) = m /\ DOMAIN f = 1 .. m
  BY <1>7
<1> QED BY <1>5, <1>6, <1>8

(* A search that ends finds a key that is in the table.                    *)
LEMMA LookupFinds ==
    ASSUME NEW t, TableFits(t), Findable(t, hash), NEW n \in Used(t), hash \in [Keys -> Nat],
           t.k[n] \in Keys
    PROVE  LhLookupEntry(t, hash, t.k[n]) = n
<1>1. PICK z \in Nat \ {0} : t.size = z /\ t \in Sized(z)
  BY DEF TableFits
<1>2. DOMAIN t.k = 0 .. z - 1 /\ Used(t) \subseteq 0 .. z - 1
  BY <1>1, FieldsFit
<1>3. PICK key \in Keys : key = t.k[n]
  OBVIOUS
<1>4. PICK home \in 0 .. z - 1 : home = hash[key] % t.size
  BY <1>1, Remains
<1>5. PICK S : S = WithKey(t, EMPTY) \cup WithKey(t, key)
  OBVIOUS
<1>6. n \in S /\ S \in SUBSET (0 .. z - 1)
  BY <1>2, <1>3, <1>5 DEF WithKey
<1>7. PICK p : p = Probe(t, home, S)
  OBVIOUS
<1>8. PICK d \in 0 .. z - 1 : /\ p = (home + d) % z /\ p \in S
                              /\ \A e \in 0 .. d - 1 : (home + e) % z \notin S
  BY <1>1, <1>2, <1>6, <1>7, ProbeFits
<1>9. PICK c \in 0 .. z - 1 : /\ n = (home + c) % z
                              /\ \A e \in 0 .. c - 1 : t.k[(home + e) % z] # EMPTY
  BY <1>1, <1>3, <1>4 DEF Findable, Met, Way, Home
<1>10. ~ (c < d)
  <2>1. c < d => c \in 0 .. d - 1
    OBVIOUS
  <2> QED BY <1>6, <1>8, <1>9, <2>1
<1>11. t.k[p] = key
  <2>1. CASE d = c
    BY <1>3, <1>8, <1>9, <2>1
  <2>2. CASE d < c
    <3>1. d \in 0 .. c - 1
      BY <2>2
    <3>2. t.k[p] # EMPTY
      BY <1>8, <1>9, <3>1
    <3> QED BY <1>5, <1>8, <3>2 DEF WithKey
  <2> QED BY <1>10, <2>1, <2>2
<1>12. p \in Used(t)
  <2>1. key \notin {EMPTY, FREED}
    BY KeysAssumption
  <2> QED BY <1>2, <1>6, <1>8, <1>11, <2>1 DEF Used
<1>13. p = n
  BY <1>3, <1>11, <1>12 DEF Findable
<1> QED BY <1>3, <1>4, <1>5, <1>7, <1>11, <1>13 DEF LhLookupEntry


(* Room for one more.                                                      *)
LEMMA HasRoom ==
    ASSUME NEW t, TableFits(t), t.count < t.size
    PROVE  Used(t) # 0 .. t.size - 1
<1>1. PICK z \in Nat \ {0} : t.size = z /\ t.count = Cardinality(Used(t))
  BY DEF TableFits
<1>2. 0 \in Int /\ z - 1 \in Int /\ (z - 1) - 0 + 1 = z /\ 0 <= z - 1
  OBVIOUS
<1>3. Cardinality(0 .. z - 1) = z
  BY <1>2, FS_Interval
<1> QED BY <1>1, <1>3

(* A key that was not there is found in its slot, the others in theirs, and *)
(* the entry is the last one.                                              *)
LEMMA PlaceFindable ==
    ASSUME NEW t, TableFits(t), NEW s, Chain(t, s), Findable(t, hash), t.count < t.size,
           NEW key \in Keys, NEW val \in Referred, hash \in [Keys -> Nat],
           \A n \in Used(t) : t.k[n] # key
    PROVE  LET u == Place(t, hash, key, val)
           IN  /\ Findable(u, hash)
               /\ \E r : /\ Chain(u, r)
                         /\ EntriesOf(u, r) = Append(EntriesOf(t, s), Entry(key, val))
<1>1. PICK z \in Nat \ {0} : t.size = z /\ t \in Sized(z)
  BY DEF TableFits
<1>2. /\ t.k \in [0 .. z - 1 -> Texts] /\ t.v \in [0 .. z - 1 -> Referred]
      /\ Used(t) \in SUBSET (0 .. z - 1) /\ DOMAIN t.k = 0 .. z - 1
  BY <1>1, FieldsFit
<1>3. PICK u : u = Place(t, hash, key, val)
  OBVIOUS
<1>4. Used(t) # 0 .. z - 1
  BY <1>1, HasRoom
<1>5. PICK n \in (0 .. z - 1) \ Used(t) :
           /\ n = Probe(t, hash[key] % t.size, DOMAIN t.k \ Used(t))
           /\ u \in Sized(z) /\ u.v = [t.v EXCEPT ![n] = val] /\ Links(t, n, key, u)
  BY <1>1, <1>3, <1>4, PlaceFields
<1>6. Used(u) = Used(t) \cup {n} /\ Chain(u, Append(s, n))
  BY <1>1, <1>5, PlaceChain
<1>7. u.size = z /\ u.k = [t.k EXCEPT ![n] = key]
  BY <1>5, FieldsFit DEF Links
<1>8. /\ u.k[n] = key /\ u.v[n] = val
      /\ \A m \in 0 .. z - 1 : m # n => u.k[m] = t.k[m] /\ u.v[m] = t.v[m]
  BY <1>2, <1>5, <1>7
<1>9. PICK home \in 0 .. z - 1 : home = hash[key] % t.size
  BY <1>1, Remains
<1>10. PICK d \in 0 .. z - 1 : /\ n = (home + d) % z
                               /\ \A e \in 0 .. d - 1 : (home + e) % z \notin DOMAIN t.k \ Used(t)
  <2>1. PICK S : S = DOMAIN t.k \ Used(t)
    OBVIOUS
  <2>2. S # {} /\ S \in SUBSET (0 .. z - 1)
    BY <1>2, <1>4, <2>1
  <2>3. n = Probe(t, home, S)
    BY <1>5, <1>9, <2>1
  <2>4. \E d \in 0 .. z - 1 : /\ n = (home + d) % z
                              /\ \A e \in 0 .. d - 1 : (home + e) % z \notin S
    BY <1>1, <1>2, <2>2, <2>3, ProbeFits
  <2> QED BY <2>1, <2>4
<1>11. key # EMPTY
  BY KeysAssumption
<1>12. ASSUME NEW x \in 0 .. z - 1, t.k[x] # EMPTY PROVE u.k[x] # EMPTY
  BY <1>8, <1>11, <1>12
<1>13. Met(u, hash, n)
  <2>1. \A e \in 0 .. d - 1 : u.k[(home + e) % z] # EMPTY
    <3>1. ASSUME NEW e \in 0 .. d - 1 PROVE u.k[(home + e) % z] # EMPTY
      <4>1. (home + e) % z \in 0 .. z - 1
        BY Remains
      <4>2. (home + e) % z \in Used(t)
        BY <1>2, <1>10, <4>1
      <4>3. t.k[(home + e) % z] # EMPTY
        BY <4>2 DEF Used
      <4> QED BY <1>12, <4>1, <4>3
    <3> QED BY <3>1
  <2> QED BY <1>1, <1>7, <1>8, <1>9, <1>10, <2>1 DEF Met, Way, Home
<1>14. ASSUME NEW m \in Used(t) PROVE Met(u, hash, m)
  <2>1. m \in 0 .. z - 1 /\ m # n /\ u.k[m] = t.k[m] /\ t.k[m] \in Keys
    <3>1. m \in 0 .. z - 1 /\ m # n
      BY <1>2, <1>5
    <3>2. t.k[m] \in Texts /\ t.k[m] \notin {EMPTY, FREED}
      BY <1>2, <3>1 DEF Used
    <3> QED BY <1>8, <3>1, <3>2 DEF Texts
  <2>2. PICK g \in 0 .. z - 1 : g = hash[t.k[m]] % z
    BY <2>1, Remains
  <2>3. PICK c \in 0 .. z - 1 : /\ m = (g + c) % z
                                /\ \A e \in 0 .. c - 1 : t.k[(g + e) % z] # EMPTY
    BY <1>1, <2>2 DEF Findable, Met, Way, Home
  <2>4. ASSUME NEW e \in 0 .. c - 1 PROVE u.k[(g + e) % z] # EMPTY
    <3>1. (g + e) % z \in 0 .. z - 1
      BY Remains
    <3> QED BY <1>12, <2>3, <3>1
  <2> QED BY <1>7, <2>1, <2>2, <2>3, <2>4 DEF Met, Way, Home
<1>15. \A m \in Used(t) : m \in 0 .. z - 1 /\ m # n /\ u.k[m] = t.k[m] /\ t.k[m] # key
  BY <1>2, <1>5, <1>8
<1>16. Findable(u, hash)
  <2>1. ASSUME NEW a \in Used(u), NEW b \in Used(u), u.k[a] = u.k[b] PROVE a = b
    BY <1>6, <1>8, <1>15, <2>1 DEF Findable
  <2>2. \A m \in Used(u) : Met(u, hash, m)
    BY <1>6, <1>13, <1>14
  <2> QED BY <2>1, <2>2 DEF Findable
<1>17. EntriesOf(u, Append(s, n)) = Append(EntriesOf(t, s), Entry(key, val))
  <2>1. PICK m \in Nat : m = Len(s) /\ DOMAIN s = 1 .. m /\ s \in Seq(Int)
    BY DEF Chain
  <2>2. PICK r : r = Append(s, n)
    OBVIOUS
  <2>3. /\ DOMAIN r = 1 .. m + 1 /\ r[m + 1] = n
        /\ \A i \in 1 .. m : r[i] = s[i]
    BY <2>1, <2>2
  <2>4. PICK f : f = EntriesOf(t, s)
    OBVIOUS
  <2>5. f \in Seq(Entries) /\ Len(f) = m
    BY <2>1, <2>4, EntriesFit
  <2>6. PICK x : x = Entry(key, val)
    OBVIOUS
  <2>7. x \in Entries
    BY <2>6 DEF Entry, Entries
  <2>8. PICK g : g = Append(f, x)
    OBVIOUS
  <2>9. /\ g \in Seq(Entries) /\ Len(g) = m + 1 /\ g[m + 1] = x
        /\ \A i \in 1 .. m : g[i] = f[i]
    BY <2>5, <2>7, <2>8, AppendProperties
  <2>10. DOMAIN g = 1 .. m + 1 /\ g = [i \in 1 .. m + 1 |-> g[i]]
    BY <2>1, <2>9
  <2>11. ASSUME NEW i \in 1 .. m + 1 PROVE g[i] = Entry(u.k[r[i]], u.v[r[i]])
    <3>1. CASE i = m + 1
      BY <1>8, <2>3, <2>6, <2>9, <3>1
    <3>2. CASE i # m + 1
      <4>1. i \in 1 .. m
        BY <3>2
      <4>2. s[i] \in Used(t)
        BY <2>1, <4>1 DEF Chain
      <4>3. f[i] = Entry(t.k[s[i]], t.v[s[i]])
        BY <2>1, <2>4, <4>1 DEF EntriesOf
      <4>4. u.k[s[i]] = t.k[s[i]] /\ u.v[s[i]] = t.v[s[i]] /\ r[i] = s[i] /\ g[i] = f[i]
        BY <1>8, <1>15, <2>3, <2>9, <4>1, <4>2
      <4> QED BY <4>3, <4>4
    <3> QED BY <3>1, <3>2
  <2>12. g = [i \in DOMAIN r |-> Entry(u.k[r[i]], u.v[r[i]])]
    BY <2>3, <2>10, <2>11
  <2> QED BY <2>2, <2>4, <2>6, <2>8, <2>12 DEF EntriesOf
<1> QED BY <1>3, <1>6, <1>16, <1>17


(* The other keys are found as before, and their entries keep their order. *)
LEMMA DeleteFindable ==
    ASSUME NEW t, TableFits(t), NEW s, Chain(t, s), Findable(t, hash), NEW a \in DOMAIN s,
           hash \in [Keys -> Nat]
    PROVE  LET u == LhDeleteEntry(t, s[a])
           IN  /\ Findable(u, hash) /\ \A m \in Used(u) : u.k[m] = t.k[m] /\ m # s[a]
               /\ Used(u) \subseteq Used(t)
               /\ \E r : Chain(u, r) /\ EntriesOf(u, r) = RemoveAt(EntriesOf(t, s), a)
<1>1. PICK z \in Nat \ {0} : t.size = z /\ t \in Sized(z) /\ t.count = Cardinality(Used(t))
  BY DEF TableFits
<1>2. PICK m \in Nat : m = Len(s) /\ DOMAIN s = 1 .. m /\ s \in Seq(Int) /\ a \in 1 .. m
  <2>1. s \in Seq(Int)
    BY DEF Chain
  <2> QED BY <2>1
<1>3. PICK n \in Used(t) : n = s[a]
  BY DEF Chain
<1>4. PICK u : u = LhDeleteEntry(t, n)
  OBVIOUS
<1>5. /\ t.k \in [0 .. z - 1 -> Texts] /\ t.v \in [0 .. z - 1 -> Referred]
      /\ Used(t) \in SUBSET (0 .. z - 1) /\ DOMAIN t.k = 0 .. z - 1 /\ n \in 0 .. z - 1
  BY <1>1, FieldsFit
<1>6. t.count > 0
  BY <1>1, <1>5, CountWith
<1>7. /\ u \in Sized(z) /\ u.v = [t.v EXCEPT ![n] = NULL] /\ Unlinks(t, n, u)
  BY <1>1, <1>4, <1>5, <1>6, DeleteFields DEF Unlinks
<1>8. u.size = z /\ u.k = [t.k EXCEPT ![n] = FREED]
  BY <1>7, FieldsFit DEF Unlinks
<1>9. /\ u.k[n] = FREED
      /\ \A x \in 0 .. z - 1 : x # n => u.k[x] = t.k[x] /\ u.v[x] = t.v[x]
  BY <1>5, <1>7, <1>8
<1>10. PICK r : r = RemoveAt(s, a)
  OBVIOUS
<1>11. Used(u) = Used(t) \ {n} /\ Chain(u, r)
  BY <1>1, <1>2, <1>3, <1>7, <1>10, DeleteChain
<1>12. \A x \in Used(u) : x \in Used(t) /\ x \in 0 .. z - 1 /\ x # n /\ u.k[x] = t.k[x]
  BY <1>5, <1>9, <1>11
<1>13. FREED # EMPTY
  BY DEF FREED, EMPTY
<1>14. ASSUME NEW x \in 0 .. z - 1, t.k[x] # EMPTY PROVE u.k[x] # EMPTY
  BY <1>9, <1>13, <1>14
<1>15. ASSUME NEW x \in Used(u) PROVE Met(u, hash, x)
  <2>1. x \in Used(t) /\ u.k[x] = t.k[x] /\ t.k[x] \in Keys
    <3>1. x \in Used(t) /\ x \in 0 .. z - 1 /\ u.k[x] = t.k[x]
      BY <1>12
    <3>2. t.k[x] \in Texts /\ t.k[x] \notin {EMPTY, FREED}
      BY <1>5, <3>1 DEF Used
    <3> QED BY <3>1, <3>2 DEF Texts
  <2>2. PICK g \in 0 .. z - 1 : g = hash[t.k[x]] % z
    BY <2>1, Remains
  <2>3. PICK c \in 0 .. z - 1 : /\ x = (g + c) % z
                                /\ \A e \in 0 .. c - 1 : t.k[(g + e) % z] # EMPTY
    BY <1>1, <2>1, <2>2 DEF Findable, Met, Way, Home
  <2>4. ASSUME NEW e \in 0 .. c - 1 PROVE u.k[(g + e) % z] # EMPTY
    <3>1. (g + e) % z \in 0 .. z - 1
      BY Remains
    <3> QED BY <1>14, <2>3, <3>1
  <2> QED BY <1>8, <2>1, <2>2, <2>3, <2>4 DEF Met, Way, Home
<1>16. Findable(u, hash)
  <2>1. ASSUME NEW x \in Used(u), NEW y \in Used(u), u.k[x] = u.k[y] PROVE x = y
    BY <1>12, <2>1 DEF Findable
  <2> QED BY <1>15, <2>1 DEF Findable
<1>17. EntriesOf(u, r) = RemoveAt(EntriesOf(t, s), a)
  <2>1. PICK f : f = EntriesOf(t, s)
    OBVIOUS
  <2>2. f \in Seq(Entries) /\ Len(f) = m /\ DOMAIN f = 1 .. m
    BY <1>2, <2>1, EntriesFit
  <2>3. PICK g : g = RemoveAt(f, a)
    OBVIOUS
  <2>4. /\ g \in Seq(Entries) /\ Len(g) = m - 1
        /\ \A i \in 1 .. m - 1 : (i < a => g[i] = f[i]) /\ (i >= a => g[i] = f[i + 1])
    <3>1. a \in DOMAIN f
      BY <1>2, <2>2
    <3> QED BY <2>2, <2>3, <3>1, RemoveFits
  <2>5. /\ r \in Seq(Int) /\ Len(r) = m - 1
        /\ \A i \in 1 .. m - 1 : (i < a => r[i] = s[i]) /\ (i >= a => r[i] = s[i + 1])
    BY <1>2, <1>10, RemoveFits
  <2>6. DOMAIN g = 1 .. m - 1 /\ g = [i \in 1 .. m - 1 |-> g[i]] /\ DOMAIN r = 1 .. m - 1
    BY <2>4, <2>5
  <2>7. ASSUME NEW i \in 1 .. m - 1 PROVE g[i] = Entry(u.k[r[i]], u.v[r[i]])
    <3>1. PICK j \in 1 .. m : r[i] = s[j] /\ g[i] = f[j]
      <4>1. CASE i < a
        <5>1. i \in 1 .. m
          OBVIOUS
        <5> QED BY <2>4, <2>5, <4>1, <5>1
      <4>2. CASE i >= a
        <5>1. i + 1 \in 1 .. m
          OBVIOUS
        <5> QED BY <2>4, <2>5, <4>2, <5>1
      <4> QED BY <1>2, <4>1, <4>2
    <3>2. r[i] \in Used(u)
      BY <1>11, <2>6 DEF Chain
    <3>3. u.k[r[i]] = t.k[r[i]] /\ u.v[r[i]] = t.v[r[i]]
      BY <1>9, <1>12, <3>2
    <3>4. f[j] = Entry(t.k[s[j]], t.v[s[j]])
      BY <1>2, <2>1 DEF EntriesOf
    <3> QED BY <3>1, <3>3, <3>4
  <2>8. g = [i \in DOMAIN r |-> Entry(u.k[r[i]], u.v[r[i]])]
    BY <2>6, <2>7
  <2> QED BY <2>1, <2>3, <2>8 DEF EntriesOf
<1> QED BY <1>3, <1>4, <1>11, <1>12, <1>16, <1>17

(* The entries a growth has moved so far.                                  *)
HasMoved(u, t, s, i) ==
    /\ Findable(u, hash)
    /\ \E r : Chain(u, r) /\ EntriesOf(u, r) = SubSeq(EntriesOf(t, s), 1, i)

LEMMA MovesOne ==
    ASSUME NEW t, TableFits(t), NEW s, Chain(t, s), Findable(t, hash), NEW size \in Nat,
           t.count =< size, hash \in [Keys -> Nat], NEW i \in 1 .. Len(s), NEW u,
           HasTaken(u, t, s, i - 1, size), HasMoved(u, t, s, i - 1)
    PROVE  HasMoved(Place(u, hash, t.k[s[i]], t.v[s[i]]), t, s, i)
<1>1. PICK z \in Nat \ {0} : t.size = z /\ t \in Sized(z) /\ t.count = Cardinality(Used(t))
  BY DEF TableFits
<1>2. PICK m \in Nat : m = Len(s) /\ DOMAIN s = 1 .. m /\ s \in Seq(Int)
  BY DEF Chain
<1>3. s[i] \in Used(t) /\ \A j \in 1 .. m : s[i] = s[j] => i = j
  BY <1>2 DEF Chain
<1>4. t.k[s[i]] \in Keys /\ t.v[s[i]] \in Referred
  <2>1. t.k \in [0 .. z - 1 -> Texts] /\ t.v \in [0 .. z - 1 -> Referred] /\ Used(t) \subseteq 0 .. z - 1
    BY <1>1, FieldsFit
  <2>2. t.k[s[i]] \in Texts /\ t.k[s[i]] \notin {EMPTY, FREED}
    BY <1>3, <2>1 DEF Used
  <2> QED BY <1>3, <2>1, <2>2 DEF Texts
<1>5. PICK key \in Keys : key = t.k[s[i]]
  BY <1>4
<1>6. PICK val \in Referred : val = t.v[s[i]]
  BY <1>4
<1>7. PICK f : f = EntriesOf(t, s)
  OBVIOUS
<1>8. f \in Seq(Entries) /\ Len(f) = m /\ DOMAIN f = 1 .. m
  BY <1>2, <1>7, EntriesFit
<1>9. \A j \in 1 .. m : f[j] = Entry(t.k[s[j]], t.v[s[j]])
  BY <1>2, <1>7 DEF EntriesOf
<1>10. PICK q : Chain(u, q) /\ EntriesOf(u, q) = SubSeq(f, 1, i - 1)
  BY <1>7 DEF HasMoved
<1>11. PICK g : g = SubSeq(f, 1, i - 1)
  OBVIOUS
<1>12. g \in Seq(Entries) /\ Len(g) = i - 1 /\ \A j \in 1 .. i - 1 : g[j] = f[j]
  <2>1. \A j \in 1 .. i - 1 : f[j] \in Entries
    BY <1>2, <1>8
  <2>2. 1 \in Int /\ i - 1 \in Int /\ i \in 1 .. m
    BY <1>2
  <2>3. /\ g \in Seq(Entries) /\ Len(g) = IF 1 <= i - 1 THEN (i - 1) - 1 + 1 ELSE 0
        /\ \A j \in 1 .. (i - 1) - 1 + 1 : g[j] = f[1 + j - 1]
    BY <1>11, <2>1, <2>2, SubSeqProperties
  <2> QED BY <2>2, <2>3
<1>13. TableFits(u) /\ u.count < u.size
  BY TakesOne
<1>14. Findable(u, hash)
  BY DEF HasMoved
<1>15. \A n \in Used(u) : u.k[n] # key
  <2>1. ASSUME NEW n \in Used(u), u.k[n] = key PROVE FALSE
    <3>1. PICK j \in DOMAIN q : q[j] = n
      BY <1>10 DEF Chain
    <3>2. EntriesOf(u, q)[j] = Entry(key, u.v[n])
      BY <2>1, <3>1 DEF EntriesOf
    <3>3. DOMAIN q = DOMAIN g
      BY <1>10, <1>11, <1>13, EntriesFit
    <3>4. j \in 1 .. i - 1 /\ j \in 1 .. m
      BY <1>2, <1>12, <3>1, <3>3
    <3>5. f[j] = Entry(key, u.v[n])
      BY <1>10, <1>11, <1>12, <3>2, <3>4
    <3>6. Entry(t.k[s[j]], t.v[s[j]]) = Entry(key, u.v[n])
      BY <1>9, <3>4, <3>5
    <3>7. t.k[s[j]] = t.k[s[i]]
      BY <1>5, <3>6 DEF Entry
    <3>8. s[j] \in Used(t)
      BY <1>2, <3>4 DEF Chain
    <3>9. s[j] = s[i]
      BY <1>3, <3>7, <3>8 DEF Findable
    <3> QED BY <1>3, <3>4, <3>9
  <2> QED BY <2>1
<1>16. PICK w : w = Place(u, hash, key, val)
  OBVIOUS
<1>17. /\ Findable(w, hash)
       /\ \E r : /\ Chain(w, r)
                 /\ EntriesOf(w, r) = Append(EntriesOf(u, q), Entry(key, val))
  <2> DEFINE p == Place(u, hash, key, val)
  <2>1. Chain(u, q)
    BY <1>10
  <2>2. /\ Findable(p, hash)
        /\ \E r : /\ Chain(p, r)
                  /\ EntriesOf(p, r) = Append(EntriesOf(u, q), Entry(key, val))
    BY <1>13, <1>14, <1>15, <2>1, PlaceFindable
  <2> QED BY <1>16, <2>2
<1>18. Append(g, Entry(key, val)) = SubSeq(f, 1, i)
  <2>1. f[i] = Entry(key, val) /\ f[i] \in Entries
    BY <1>2, <1>5, <1>6, <1>8, <1>9
  <2>2. Append(g, f[i]) = g \o <<f[i]>>
    BY <1>12, <2>1, AppendIsConcat
  <2>3. 1 \in 1 .. Len(f) /\ i \in 1 .. Len(f)
    BY <1>2, <1>8
  <2>4. SubSeq(f, 1, i) = SubSeq(f, 1, i - 1) \o <<f[i]>>
    BY <1>8, <2>3, SubSeqRecursiveSecond
  <2> QED BY <1>11, <2>1, <2>2, <2>4
<1>19. HasMoved(w, t, s, i)
  BY <1>7, <1>10, <1>11, <1>17, <1>18 DEF HasMoved
<1> QED BY <1>5, <1>6, <1>16, <1>19


(* All entries move to the larger table, in their order.                   *)
LEMMA ResizeFindable ==
    ASSUME NEW t, TableFits(t), NEW s, Chain(t, s), Findable(t, hash), NEW size \in Nat \ {0},
           t.count =< size, hash \in [Keys -> Nat]
    PROVE  HasMoved(LhTableResize(t, hash, size), t, s, Len(s))
<1>1. PICK m \in Nat : m = Len(s) /\ DOMAIN s = 1 .. m
  <2>1. s \in Seq(Int)
    BY DEF Chain
  <2> QED BY <2>1
<1>2. PICK f : Tables(f, t, s, size) /\ LhTableResize(t, hash, size) = f[m]
  BY <1>1, GrowthSteps
<1>3. /\ f[0] = LhTableNew(size)
      /\ \A i \in 1 .. m : f[i] = Place(f[i - 1], hash, t.k[s[i]], t.v[s[i]])
      /\ \A i \in 0 .. m : HasTaken(f[i], t, s, i, size)
  BY <1>1, <1>2 DEF Tables
<1>4. HasMoved(f[0], t, s, 0)
  <2>1. PICK n : n = LhTableNew(size)
    OBVIOUS
  <2>2. Used(n) = {} /\ Chain(n, << >>)
    BY <2>1, NewFits
  <2>3. Findable(n, hash)
    BY <2>2 DEF Findable
  <2>4. EntriesOf(n, << >>) = << >>
    BY DEF EntriesOf
  <2>5. SubSeq(EntriesOf(t, s), 1, 0) = << >>
    <3>1. 1 \in Int /\ 0 \in Int /\ 0 < 1
      OBVIOUS
    <3> QED BY <3>1, SubSeqEmpty
  <2>6. HasMoved(n, t, s, 0)
    BY <2>2, <2>3, <2>4, <2>5 DEF HasMoved
  <2> QED BY <1>3, <2>1, <2>6
<1>5. HasMoved(f[m], t, s, m)
  <2> DEFINE Bad == {i \in 0 .. m : ~ HasMoved(f[i], t, s, i)}
  <2>1. SUFFICES ASSUME Bad # {} PROVE FALSE
    <3>1. m \in 0 .. m
      OBVIOUS
    <3> QED BY <2>1, <3>1
  <2>2. PICK i \in Bad : \A x \in Bad : ~(x < i)
    <3>1. Bad \in SUBSET Nat
      OBVIOUS
    <3> QED BY <2>1, <3>1, Least
  <2>3. i # 0 /\ i \in 0 .. m
    BY <1>4, <2>2
  <2>4. i \in 1 .. m /\ i - 1 \in 0 .. m /\ i - 1 < i
    BY <2>3
  <2>5. HasMoved(f[i - 1], t, s, i - 1) /\ HasTaken(f[i - 1], t, s, i - 1, size)
    BY <1>3, <2>2, <2>4
  <2>6. HasMoved(Place(f[i - 1], hash, t.k[s[i]], t.v[s[i]]), t, s, i)
    BY <1>1, <2>4, <2>5, MovesOne
  <2>7. HasMoved(f[i], t, s, i)
    BY <1>3, <2>4, <2>6
  <2> QED BY <2>2, <2>7
<1> QED BY <1>1, <1>2, <1>5

(* The keys of the used slots are the keys of the entries.                 *)
LEMMA KeysOfEntries ==
    ASSUME NEW t, NEW s, Chain(t, s), NEW key
    PROVE  HasKey(EntriesOf(t, s), key) <=> \E n \in Used(t) : t.k[n] = key
<1>1. PICK f : f = EntriesOf(t, s)
  OBVIOUS
<1>2. DOMAIN f = DOMAIN s /\ \A i \in DOMAIN s : f[i].key = t.k[s[i]]
  BY <1>1 DEF EntriesOf, Entry
<1>3. /\ \A n \in Used(t) : \E i \in DOMAIN s : s[i] = n
      /\ \A i \in DOMAIN s : s[i] \in Used(t)
  BY Zenon DEF Chain
<1>4. HasKey(f, key) <=> \E n \in Used(t) : t.k[n] = key
  BY <1>2, <1>3 DEF HasKey
<1> QED BY <1>1, <1>4

(* The entry of a key is the one of its slot.                              *)
LEMMA FindEntry ==
    ASSUME NEW t, NEW s, Chain(t, s), Findable(t, hash), NEW i \in DOMAIN s
    PROVE  /\ HasKey(EntriesOf(t, s), t.k[s[i]])
           /\ Find(EntriesOf(t, s), t.k[s[i]]) = i
           /\ EntriesOf(t, s)[i] = Entry(t.k[s[i]], t.v[s[i]])
<1>1. PICK f : f = EntriesOf(t, s)
  OBVIOUS
<1>2. /\ DOMAIN f = DOMAIN s /\ f[i] = Entry(t.k[s[i]], t.v[s[i]])
      /\ \A j \in DOMAIN s : f[j].key = t.k[s[j]]
  BY <1>1 DEF EntriesOf, Entry
<1>3. \A j \in DOMAIN s : s[j] \in Used(t) /\ (s[i] = s[j] => i = j)
  BY Zenon DEF Chain
<1>4. ASSUME NEW j \in DOMAIN s, f[j].key = t.k[s[i]] PROVE j = i
  <2>1. t.k[s[j]] = t.k[s[i]] /\ s[j] \in Used(t) /\ s[i] \in Used(t)
    BY <1>2, <1>3, <1>4
  <2>2. s[j] = s[i]
    BY <2>1 DEF Findable
  <2> QED BY <1>3, <2>2
<1>5. f[i].key = t.k[s[i]]
  BY <1>2
<1>6. Find(f, t.k[s[i]]) = i
  BY <1>2, <1>4, <1>5 DEF Find
<1>7. HasKey(f, t.k[s[i]])
  BY <1>2, <1>5 DEF HasKey
<1> QED BY <1>1, <1>2, <1>6, <1>7

(* An insertion, with or without growth, puts its entry behind the others. *)
LEMMA InsertFindable ==
    ASSUME NEW t, TableFits(t), NEW s, Chain(t, s), Findable(t, hash), t.count =< Limit(t.size),
           NEW key \in Keys, NEW val \in Referred, hash \in [Keys -> Nat],
           ~ HasKey(EntriesOf(t, s), key)
    PROVE  LET u == LhTableInsert(t, hash, key, val)
           IN  /\ Findable(u, hash)
               /\ \E r : /\ Chain(u, r)
                         /\ EntriesOf(u, r) = Append(EntriesOf(t, s), Entry(key, val))
<1> DEFINE g == LhTableResize(t, hash, 2 * t.size)
<1>1. PICK z \in Nat \ {0} : t.size = z /\ t \in Sized(z)
  BY DEF TableFits
<1>2. t.count \in Nat
  BY <1>1, FieldsFit
<1>3. PICK p, q : /\ LhTableInsert(t, hash, key, val) = Place(p, hash, key, val)
                  /\ TableFits(p) /\ p.count < p.size
                  /\ Findable(p, hash) /\ Chain(p, q) /\ EntriesOf(p, q) = EntriesOf(t, s)
  <2>1. CASE Loaded(t)
    <3>1. 2 * t.size \in Nat \ {0} /\ t.count < 2 * t.size /\ t.count =< 2 * t.size
      BY <1>1, <1>2 DEF Limit
    <3>2. TableFits(g) /\ g.size = 2 * t.size /\ g.count = t.count
      BY <3>1, ResizeFits
    <3>3. HasMoved(g, t, s, Len(s))
      BY <3>1, ResizeFindable
    <3> HIDE DEF g
    <3>4. SubSeq(EntriesOf(t, s), 1, Len(s)) = EntriesOf(t, s)
      BY EntriesFit, SubSeqFull
    <3>5. LhTableInsert(t, hash, key, val) = Place(g, hash, key, val)
      BY <2>1 DEF LhTableInsert, g
    <3> QED BY <3>1, <3>2, <3>3, <3>4, <3>5 DEF HasMoved
  <2>2. CASE ~ Loaded(t)
    <3>1. t.count < t.size
      BY <1>1, <1>2, <2>2 DEF Loaded
    <3>2. LhTableInsert(t, hash, key, val) = Place(t, hash, key, val)
      BY <2>2 DEF LhTableInsert
    <3> QED BY <3>1, <3>2
  <2> QED BY <2>1, <2>2
<1>4. \A n \in Used(p) : p.k[n] # key
  BY <1>3, KeysOfEntries
<1> DEFINE u == Place(p, hash, key, val)
<1>5. /\ Findable(u, hash)
      /\ \E r : /\ Chain(u, r)
                /\ EntriesOf(u, r) = Append(EntriesOf(p, q), Entry(key, val))
  BY <1>3, <1>4, PlaceFindable
<1> HIDE DEF u
<1>6. LhTableInsert(t, hash, key, val) = u
  BY <1>3 DEF u
<1> QED BY <1>3, <1>5, <1>6

(* A lookup finds the entry of its key, or there is none.                  *)
LEMMA LookupMeets ==
    ASSUME NEW t, TableFits(t), NEW s, Chain(t, s), Findable(t, hash), NEW key \in Keys,
           hash \in [Keys -> Nat], ~LhLookupLoops(t, key)
    PROVE  LET n == LhLookupEntry(t, hash, key)
               f == EntriesOf(t, s)
           IN  \/ n = NoSlot /\ ~ HasKey(f, key)
               \/ /\ n \in Used(t) /\ n # NoSlot /\ HasKey(f, key)
                  /\ Find(f, key) \in DOMAIN s /\ s[Find(f, key)] = n
                  /\ f[Find(f, key)] = Entry(key, t.v[n])
<1>1. PICK n : n = LhLookupEntry(t, hash, key)
  OBVIOUS
<1>2. n = NoSlot \/ (n \in Used(t) /\ t.k[n] = key)
  BY <1>1, LookupFits
<1>3. PICK f : f = EntriesOf(t, s)
  OBVIOUS
<1>4. PICK z \in Nat \ {0} : t.size = z /\ t \in Sized(z)
  BY DEF TableFits
<1>5. NoSlot \notin Used(t)
  <2>1. Used(t) \subseteq 0 .. z - 1
    BY <1>4, FieldsFit
  <2> QED BY <2>1 DEF NoSlot
<1>6. CASE n = NoSlot
  <2>1. ASSUME NEW m \in Used(t), t.k[m] = key PROVE FALSE
    <3>1. LhLookupEntry(t, hash, t.k[m]) = m
      BY <2>1, LookupFinds
    <3> QED BY <1>1, <1>5, <1>6, <2>1, <3>1
  <2>2. ~ HasKey(f, key)
    BY <1>3, <2>1, KeysOfEntries
  <2> QED BY <1>1, <1>3, <1>6, <2>2
<1>7. CASE n # NoSlot
  <2>1. n \in Used(t) /\ t.k[n] = key
    BY <1>2, <1>7
  <2>2. PICK i \in DOMAIN s : s[i] = n
    BY <2>1 DEF Chain
  <2>3. HasKey(f, key) /\ Find(f, key) = i /\ f[i] = Entry(key, t.v[n])
    BY <1>3, <2>1, <2>2, FindEntry
  <2> QED BY <1>1, <1>3, <1>7, <2>1, <2>2, <2>3
<1> QED BY <1>6, <1>7

(* What a deletion leaves are the entries without the key's.               *)
LEMMA DeletedEntries ==
    ASSUME Together, NEW s, Chain(table, s), Findable(table, hash), NEW key \in Keys,
           ~LhLookupLoops(table, key)
    PROVE  LET d == Deleted(key)
           IN  /\ Findable(d.table, hash)
               /\ \E r : /\ Chain(d.table, r)
                         /\ EntriesOf(d.table, r) = Without(EntriesOf(table, s), key)
                         /\ ~ HasKey(EntriesOf(d.table, r), key)
<1>1. PICK n : n = LhLookupEntry(table, hash, key)
  OBVIOUS
<1>2. TableFits(table) /\ hash \in [Keys -> Nat]
  BY DEF Together
<1>3. PICK f : f = EntriesOf(table, s)
  OBVIOUS
<1>4. PICK a : a = Find(f, key)
  OBVIOUS
<1>5. \/ n = NoSlot /\ ~ HasKey(f, key)
      \/ /\ n \in Used(table) /\ n # NoSlot /\ HasKey(f, key)
         /\ a \in DOMAIN s /\ s[a] = n /\ f[a] = Entry(key, table.v[n])
  BY <1>1, <1>2, <1>3, <1>4, LookupMeets
<1>6. PICK t : t = Deleted(key).table
  OBVIOUS
<1>7. CASE n = NoSlot
  <2>1. t = table
    BY <1>1, <1>6, <1>7 DEF Deleted
  <2>2. ~ HasKey(f, key) /\ Without(f, key) = f
    BY <1>5, <1>7 DEF Without
  <2> QED BY <1>3, <1>6, <2>1, <2>2
<1>8. CASE n # NoSlot
  <2>1. /\ n \in Used(table) /\ HasKey(f, key)
        /\ a \in DOMAIN s /\ s[a] = n /\ f[a] = Entry(key, table.v[n])
    BY <1>5, <1>8
  <2>2. t = LhDeleteEntry(table, n)
    BY <1>1, <1>6, <1>8 DEF Deleted
  <2>3. /\ Findable(t, hash) /\ \A m \in Used(t) : t.k[m] = table.k[m] /\ m # n
        /\ Used(t) \subseteq Used(table)
        /\ \E r : Chain(t, r) /\ EntriesOf(t, r) = RemoveAt(f, a)
    BY <1>2, <1>3, <2>1, <2>2, DeleteFindable
  <2>4. PICK r : Chain(t, r) /\ EntriesOf(t, r) = RemoveAt(f, a)
    BY <2>3
  <2>5. Without(f, key) = RemoveAt(f, a)
    BY <1>4, <2>1 DEF Without
  <2>6. table.k[n] = key
    <3>1. f[a] = Entry(table.k[n], table.v[n])
      BY <1>3, <2>1 DEF EntriesOf
    <3> QED BY <2>1, <3>1 DEF Entry
  <2>7. \A m \in Used(t) : t.k[m] # key
    BY <2>1, <2>3, <2>6 DEF Findable
  <2>8. ~ HasKey(EntriesOf(t, r), key)
    BY <2>4, <2>7, KeysOfEntries
  <2> QED BY <1>3, <1>6, <2>3, <2>4, <2>5, <2>8
<1> QED BY <1>7, <1>8

(* The container's contents: the entries of its chain, or its items.       *)
LEMMA KidsOfObject ==
    ASSUME TableFits(table), NEW s, Chain(table, s), kind = "object"
    PROVE  Kids = EntriesOf(table, s)
<1>1. NoSlot \notin DOMAIN table.k
  BY FieldsFit DEF TableFits, NoSlot
<1>2. LhForeach(table) = s
  BY <1>1, ForeachFits
<1> QED BY <1>2 DEF Kids, EntriesOf

LEMMA KidsOfObjectNext ==
    ASSUME TableFits(table'), NEW s, Chain(table', s), kind' = "object"
    PROVE  Kids' = EntriesOf(table', s)
<1>1. NoSlot \notin DOMAIN table'.k
  BY FieldsFit DEF TableFits, NoSlot
<1>2. LhForeach(table') = s
  BY <1>1, ForeachFits
<1> QED BY <1>2 DEF Kids, EntriesOf

(* What the container's contents are the contents of: the invariant of     *)
(* the counts, and that every key is found.                                *)
StoreInv == CountInv /\ Findable(table, hash)

(* The abstract container's words for entries are the same.                *)
LEMMA SameWords ==
    ASSUME NEW f, NEW key
    PROVE  /\ Abstract!Without(f, key) = Without(f, key)
           /\ Abstract!Under(f, key) = Under(f, key)
           /\ \A v : Abstract!Entry(key, v) = Entry(key, v)
           /\ Abstract!NULL = NULL
<1>1. Abstract!HasKey(f, key) <=> HasKey(f, key)
  BY DEF Abstract!HasKey, HasKey
<1>2. Abstract!Find(f, key) = Find(f, key)
  BY Zenon DEF Abstract!Find, Find
<1>3. Abstract!Without(f, key) = Without(f, key)
  BY Zenon, <1>1, <1>2 DEF Abstract!Without, Without, Abstract!RemoveAt, RemoveAt
<1>4. Abstract!Under(f, key) = Under(f, key)
  BY <1>1, <1>2 DEF Abstract!Under, Under
<1>5. \A v : Abstract!Entry(key, v) = Entry(key, v)
  BY DEF Abstract!Entry, Entry
<1>6. Abstract!NULL = NULL
  BY DEF Abstract!NULL, NULL
<1> QED BY <1>3, <1>4, <1>5, <1>6

LEMMA InitStored == Init => StoreInv /\ Abstract!Init
<1> SUFFICES ASSUME Init PROVE StoreInv /\ Abstract!Init
  OBVIOUS
<1>1. CountInv
  BY InitCounts
<1>2. Used(table) = {} /\ Chain(table, << >>)
  <2>1. table = LhTableNew(HashSize)
    BY DEF Init
  <2> QED BY <2>1, HashSizeAssumption, NewFits
<1>3. Findable(table, hash)
  BY <1>2 DEF Findable
<1>4. kind \in {"object", "array"}
  BY UsesAssumption DEF Init, kind
<1>5. Kids = << >>
  <2>1. CASE kind = "object"
    <3>1. Kids = EntriesOf(table, << >>)
      BY <1>1, <1>2, <2>1, KidsOfObject DEF CountInv, Together
    <3> QED BY <3>1 DEF EntriesOf
  <2>2. CASE kind = "array"
    <3>1. list.length = 0
      BY DEF Init, ArrayListNew
    <3>2. Items(list) = << >>
      BY <3>1 DEF Items
    <3> QED BY <2>2, <3>2 DEF Kids
  <2> QED BY <1>4, <2>1, <2>2
<1>6. got = NULL
  BY DEF Init
<1> QED BY <1>1, <1>3, <1>4, <1>5, <1>6 DEF StoreInv, Abstract!Init, Abstract!NULL, NULL

LEMMA AddKeyStores ==
    ASSUME StoreInv, NEW key \in Keys, NEW v \in Referred, ObjectAddKey(key, v)
    PROVE  StoreInv' /\ Abstract!Store(key, v)
<1>1. /\ Together /\ Findable(table, hash) /\ CountInv /\ kind = "object"
      /\ ~LhLookupLoops(table, key)
  BY DEF StoreInv, CountInv, ObjectAddKey, InObject
<1>2. CountInv'
  BY <1>1, AddKeyCounts
<1>3. PICK s : Chain(table, s)
  BY <1>1 DEF Together, TableFits
<1>4. Kids = EntriesOf(table, s)
  BY <1>1, <1>3, KidsOfObject DEF Together
<1>5. PICK t : t = Deleted(key).table
  OBVIOUS
<1>6. TableFits(t) /\ t.count =< Limit(t.size)
  BY <1>1, <1>5, DeletedFits
<1>7. /\ Findable(t, hash)
      /\ \E r : /\ Chain(t, r) /\ EntriesOf(t, r) = Without(EntriesOf(table, s), key)
                /\ ~ HasKey(EntriesOf(t, r), key)
  BY <1>1, <1>3, <1>5, DeletedEntries
<1>8. PICK r : /\ Chain(t, r) /\ EntriesOf(t, r) = Without(Kids, key)
               /\ ~ HasKey(EntriesOf(t, r), key)
  BY <1>4, <1>7
<1>9. hash \in [Keys -> Nat]
  BY <1>1 DEF Together
<1>10. /\ table' = LhTableInsert(t, hash, key, v)
       /\ use' = use /\ hash' = hash /\ got' = NULL
  BY <1>5 DEF ObjectAddKey, Returns
<1>11. PICK u : u = LhTableInsert(t, hash, key, v)
  OBVIOUS
<1>12. /\ Findable(u, hash)
       /\ \E q : /\ Chain(u, q)
                 /\ EntriesOf(u, q) = Append(EntriesOf(t, r), Entry(key, v))
  BY <1>6, <1>7, <1>8, <1>9, <1>11, InsertFindable
<1>13. PICK q : Chain(u, q) /\ EntriesOf(u, q) = Append(Without(Kids, key), Entry(key, v))
  BY <1>8, <1>12
<1>14. table' = u /\ kind' = "object" /\ kind' = kind
  BY <1>1, <1>10, <1>11 DEF kind
<1>15. Kids' = Append(Without(Kids, key), Entry(key, v))
  <2>1. TableFits(table')
    BY <1>2 DEF CountInv, Together
  <2> QED BY <1>13, <1>14, <2>1, KidsOfObjectNext
<1>16. StoreInv'
  BY <1>2, <1>10, <1>12, <1>14 DEF StoreInv
<1>17. Abstract!Store(key, v)
  BY <1>1, <1>10, <1>14, <1>15, SameWords DEF Abstract!Store, Abstract!Becomes
<1> QED BY <1>16, <1>17

LEMMA DelErases ==
    ASSUME StoreInv, NEW key \in Keys, ObjectDel(key)
    PROVE  StoreInv' /\ Abstract!Erase(key)
<1>1. /\ Together /\ Findable(table, hash) /\ CountInv /\ kind = "object"
      /\ ~LhLookupLoops(table, key)
  BY DEF StoreInv, CountInv, ObjectDel, InObject
<1>2. CountInv'
  BY <1>1, DelCounts
<1>3. PICK s : Chain(table, s)
  BY <1>1 DEF Together, TableFits
<1>4. Kids = EntriesOf(table, s)
  BY <1>1, <1>3, KidsOfObject DEF Together
<1>5. PICK t : t = Deleted(key).table
  OBVIOUS
<1>6. /\ Findable(t, hash)
      /\ \E r : Chain(t, r) /\ EntriesOf(t, r) = Without(Kids, key)
  BY <1>1, <1>3, <1>4, <1>5, DeletedEntries
<1>7. /\ table' = t /\ use' = use /\ hash' = hash /\ got' = NULL /\ kind' = "object"
      /\ kind' = kind
  BY <1>1, <1>5 DEF ObjectDel, Returns, kind
<1>8. Kids' = Without(Kids, key)
  <2>1. TableFits(table')
    BY <1>2 DEF CountInv, Together
  <2> QED BY <1>6, <1>7, <2>1, KidsOfObjectNext
<1>9. StoreInv'
  BY <1>2, <1>6, <1>7 DEF StoreInv
<1>10. Abstract!Erase(key)
  BY <1>1, <1>7, <1>8, SameWords DEF Abstract!Erase, Abstract!Becomes
<1> QED BY <1>9, <1>10

(* Nothing of the contents changes.                                        *)
LEMMA SameKids ==
    ASSUME StoreInv, CountInv', UNCHANGED <<use, hash, table, list>>
    PROVE  StoreInv' /\ Kids' = Kids /\ kind' = kind
<1>1. Findable(table', hash')
  BY DEF StoreInv
<1>2. Kids' = Kids
  BY DEF Kids, kind
<1> QED BY <1>1, <1>2 DEF StoreInv, kind

LEMMA GetLooksUp ==
    ASSUME StoreInv, NEW key \in Keys, ObjectGet(key)
    PROVE  Abstract!Lookup(key)
<1>1. /\ Together /\ Findable(table, hash) /\ kind = "object" /\ ~LhLookupLoops(table, key)
  BY DEF StoreInv, CountInv, ObjectGet, InObject
<1>2. /\ UNCHANGED <<use, hash, table, list>>
      /\ got' = EntryValue(LhLookupEntry(table, hash, key))
  BY DEF ObjectGet, Returns, store
<1>3. Kids' = Kids /\ kind' = kind
  BY <1>2 DEF Kids, kind
<1>4. PICK s : Chain(table, s)
  BY <1>1 DEF Together, TableFits
<1>5. PICK f : f = EntriesOf(table, s)
  OBVIOUS
<1>6. Kids = f
  BY <1>1, <1>4, <1>5, KidsOfObject DEF Together
<1>7. PICK n : n = LhLookupEntry(table, hash, key)
  OBVIOUS
<1>8. \/ n = NoSlot /\ ~ HasKey(f, key)
      \/ /\ n \in Used(table) /\ n # NoSlot /\ HasKey(f, key)
         /\ f[Find(f, key)] = Entry(key, table.v[n])
  BY <1>1, <1>4, <1>5, <1>7, LookupMeets DEF Together
<1>9. Abstract!First(Under(f, key)) = EntryValue(n)
  <2>1. CASE n = NoSlot
    BY <1>8, <2>1 DEF Abstract!First, Under, EntryValue, Abstract!NULL, NULL
  <2>2. CASE n # NoSlot
    <3>1. Under(f, key) = <<Entry(key, table.v[n])>>
      BY <1>8, <2>2 DEF Under
    <3>2. Under(f, key) # << >> /\ Under(f, key)[1] = Entry(key, table.v[n])
      BY <3>1
    <3> QED BY <2>2, <3>2 DEF Abstract!First, EntryValue, Entry
  <2> QED BY <2>1, <2>2
<1> QED BY <1>1, <1>2, <1>3, <1>6, <1>7, <1>9, SameWords DEF Abstract!Lookup, Abstract!Returns

(* An array's items after a put: the new one in its place, the old ones in *)
(* theirs, NULL in between.                                                *)
LEMMA ItemsPut ==
    ASSUME NEW a, ArrayFits(a), NEW i \in Nat, NEW v, ~ Outside(a, i)
    PROVE  LET c == PutIdx(a, i, v)
           IN  /\ c.length = (IF i < a.length THEN a.length ELSE i + 1)
               /\ \A j \in 1 .. c.length :
                     c.array[j - 1] = IF j = i + 1 THEN v
                                      ELSE IF j =< a.length THEN a.array[j - 1] ELSE NULL
<1> DEFINE b == ExpandInternal(a, i)
           c == PutIdx(a, i, v)
<1>1. /\ ArrayFits(b) /\ b.length = a.length /\ a.size =< b.size
      /\ \A j \in 0 .. b.size - 1 : b.array[j] = IF j < a.size THEN a.array[j] ELSE NULL
  BY ExpandFits
<1>2. i < b.size
  <2>1. b.size \in Nat
    BY <1>1 DEF ArrayFits, Fits
  <2> QED BY <2>1 DEF Outside
<1>3. c = [b EXCEPT !.array[i] = v, !.length = IF @ =< i THEN i + 1 ELSE @]
  BY DEF PutIdx
<1> HIDE DEF b, c
<1>4. /\ DOMAIN b = {"size", "length", "array"} /\ b = [f \in DOMAIN b |-> b[f]]
      /\ b.size \in Nat \ {0} /\ DOMAIN b.array = 0 .. b.size - 1
  BY <1>1 DEF ArrayFits, Fits
<1>5. /\ a.size \in Nat /\ a.length \in Nat /\ a.length =< a.size
      /\ \A j \in 0 .. a.size - 1 : j >= a.length => a.array[j] = NULL
  BY DEF ArrayFits, Fits
<1>6. /\ c.array = [b.array EXCEPT ![i] = v]
      /\ c.length = IF b.length =< i THEN i + 1 ELSE b.length
  BY <1>3, <1>4
<1>7. c.length = (IF i < a.length THEN a.length ELSE i + 1) /\ c.length =< b.size
  BY <1>1, <1>2, <1>4, <1>5, <1>6
<1>8. ASSUME NEW j \in 1 .. c.length
      PROVE  c.array[j - 1] = IF j = i + 1 THEN v
                              ELSE IF j =< a.length THEN a.array[j - 1] ELSE NULL
  <2>1. j - 1 \in 0 .. b.size - 1 /\ (j - 1 = i <=> j = i + 1)
    BY <1>4, <1>5, <1>7
  <2>2. CASE j = i + 1
    BY <1>4, <1>6, <2>1, <2>2
  <2>3. CASE j # i + 1
    <3>1. c.array[j - 1] = b.array[j - 1]
      BY <1>4, <1>6, <2>1, <2>3
    <3>2. b.array[j - 1] = IF j - 1 < a.size THEN a.array[j - 1] ELSE NULL
      BY <1>1, <2>1
    <3>3. CASE j =< a.length
      <4>1. j - 1 < a.size
        BY <1>5, <3>3
      <4> QED BY <2>3, <3>1, <3>2, <3>3, <4>1
    <3>4. CASE ~ (j =< a.length)
      <4>1. j - 1 < a.size => j - 1 \in 0 .. a.size - 1 /\ j - 1 >= a.length
        BY <1>5, <2>1, <3>4
      <4> QED BY <1>5, <2>3, <3>1, <3>2, <3>4, <4>1
    <3> QED BY <3>3, <3>4
  <2> QED BY <2>2, <2>3
<1> QED BY <1>7, <1>8 DEF c

LEMMA KidsOfArray ==
    ASSUME ArrayFits(list), kind = "array"
    PROVE  /\ list.length \in Nat /\ Len(Kids) = list.length /\ DOMAIN Kids = 1 .. list.length
           /\ \A j \in 1 .. list.length : Kids[j] = Entry(<< >>, list.array[j - 1])
<1>1. PICK m \in Nat : m = list.length
  BY DEF ArrayFits, Fits
<1>2. Kids = [j \in 1 .. m |-> Entry(<< >>, list.array[j - 1])]
  BY <1>1 DEF Kids, Items
<1>3. DOMAIN Kids = 1 .. m /\ \A j \in 1 .. m : Kids[j] = Entry(<< >>, list.array[j - 1])
  BY <1>2
<1>4. Len(Kids) = m
  BY <1>2
<1> QED BY <1>1, <1>3, <1>4

LEMMA PutIdxPuts ==
    ASSUME StoreInv, NEW i \in Nat, NEW v \in Referred, ArrayPutIdx(i, v)
    PROVE  StoreInv' /\ Abstract!PutAt(i, v)
<1>1. /\ Together /\ CountInv /\ Findable(table, hash) /\ kind = "array" /\ ~ Outside(list, i)
  BY DEF StoreInv, CountInv, ArrayPutIdx, InArray
<1>2. CountInv'
  BY <1>1, PutIdxKeepsCounts
<1>3. /\ list' = PutIdx(list, i, v) /\ table' = table /\ hash' = hash
      /\ got' = NULL /\ kind' = kind
  BY DEF ArrayPutIdx, Returns, kind
<1>4. PICK m \in Nat :
           /\ m = list.length /\ Len(Kids) = m /\ DOMAIN Kids = 1 .. m
           /\ \A j \in 1 .. m : Kids[j] = Entry(<< >>, list.array[j - 1])
  BY <1>1, KidsOfArray DEF Together
<1>5. PICK c : c = PutIdx(list, i, v)
  OBVIOUS
<1>6. PICK k \in Nat : k = IF i < m THEN m ELSE i + 1
  OBVIOUS
<1>7. /\ c.length = k
      /\ \A j \in 1 .. k :
            c.array[j - 1] = IF j = i + 1 THEN v
                             ELSE IF j =< m THEN list.array[j - 1] ELSE NULL
  BY <1>1, <1>4, <1>5, <1>6, ItemsPut DEF Together
<1>8. Kids' = [j \in 1 .. k |-> Entry(<< >>, c.array[j - 1])]
  BY <1>1, <1>3, <1>5, <1>7 DEF Kids, Items
<1>9. ASSUME NEW j \in 1 .. k
      PROVE  Entry(<< >>, c.array[j - 1]) =
                IF j = i + 1 THEN Entry(<< >>, v)
                ELSE IF j =< m THEN Kids[j] ELSE Entry(<< >>, NULL)
  BY <1>4, <1>7
<1>10. Kids' = [j \in 1 .. k |-> IF j = i + 1 THEN Entry(<< >>, v)
                                 ELSE IF j =< m THEN Kids[j] ELSE Entry(<< >>, NULL)]
  BY <1>8, <1>9
<1>11. StoreInv'
  BY <1>1, <1>2, <1>3 DEF StoreInv
<1>12. Abstract!PutAt(i, v)
  BY <1>1, <1>3, <1>4, <1>6, <1>10, SameWords DEF Abstract!PutAt, Abstract!Becomes
<1> QED BY <1>11, <1>12

LEMMA GetIdxReads ==
    ASSUME StoreInv, NEW i \in Nat, ArrayGetIdx(i)
    PROVE  Abstract!At(i)
<1>1. Together /\ kind = "array"
  BY DEF StoreInv, CountInv, ArrayGetIdx, InArray
<1>2. UNCHANGED <<use, hash, table, list>> /\ got' = GetIdx(list, i)
  BY DEF ArrayGetIdx, Returns, store
<1>3. Kids' = Kids /\ kind' = kind
  BY <1>2 DEF Kids, kind
<1>4. PICK m \in Nat :
           /\ m = list.length /\ Len(Kids) = m
           /\ \A j \in 1 .. m : Kids[j] = Entry(<< >>, list.array[j - 1])
  BY <1>1, KidsOfArray DEF Together
<1>5. got' = IF i < m THEN Kids[i + 1].val ELSE NULL
  <2>1. CASE i < m
    <3>1. i + 1 \in 1 .. m /\ (i + 1) - 1 = i
      BY <2>1
    <3>2. Kids[i + 1] = Entry(<< >>, list.array[i])
      BY <1>4, <3>1
    <3>3. Kids[i + 1].val = list.array[i]
      BY <3>2 DEF Entry
    <3> QED BY <1>2, <1>4, <2>1, <3>3 DEF GetIdx
  <2>2. CASE ~ (i < m)
    BY <1>2, <1>4, <2>2 DEF GetIdx, NULL
  <2> QED BY <2>1, <2>2
<1> QED BY <1>1, <1>3, <1>4, <1>5, SameWords DEF Abstract!At, Abstract!Returns

(* Every call is a step of the abstract container, or concerns its         *)
(* contents in nothing.                                                    *)
LEMMA NextStored ==
    StoreInv /\ [Next]_vars => StoreInv' /\ [Abstract!Next]_Abstract!vars
<1> SUFFICES ASSUME StoreInv, [Next]_vars PROVE StoreInv' /\ [Abstract!Next]_Abstract!vars
  OBVIOUS
<1>1. /\ use.keys \subseteq Keys /\ use.nodes \cup {NULL} \subseteq Referred
      /\ Referred = Nodes \cup {Abstract!NULL} /\ MaxIdx \in Nat
  BY UsesAssumption, MaxIdxAssumption
     DEF StoreInv, CountInv, Together, Referred, Abstract!NULL, NULL
<1>2. CountInv'
  BY NextCounts DEF StoreInv
<1>3. ASSUME UNCHANGED <<use, hash, table, list, got>>
      PROVE  StoreInv' /\ UNCHANGED Abstract!vars
  BY <1>2, <1>3, SameKids DEF Abstract!vars
<1>4. ASSUME UNCHANGED <<use, hash, table, list>>, got' = NULL
      PROVE  StoreInv' /\ Abstract!Next
  BY <1>2, <1>4, SameKids DEF Abstract!Next, Abstract!Other, Abstract!Returns, Abstract!NULL, NULL
<1>5. ASSUME NEW key \in use.keys, Hangs(key) PROVE StoreInv' /\ UNCHANGED Abstract!vars
  BY <1>3, <1>5 DEF Hangs, store
<1>6. ASSUME NEW key \in use.keys, ObjectDel(key) PROVE StoreInv' /\ Abstract!Next
  BY <1>1, <1>6, DelErases DEF Abstract!Next
<1>7. ASSUME NEW key \in use.keys, ObjectGet(key) PROVE StoreInv' /\ Abstract!Next
  <2>1. UNCHANGED <<use, hash, table, list>>
    BY <1>7 DEF ObjectGet, Returns, store
  <2>2. Abstract!Lookup(key)
    BY <1>1, <1>7, GetLooksUp
  <2> QED BY <1>1, <1>2, <2>1, <2>2, SameKids DEF Abstract!Next
<1>8. ASSUME NEW key \in use.keys, NEW v \in use.nodes \cup {NULL}, ObjectAddKey(key, v)
      PROVE  StoreInv' /\ Abstract!Next
  <2>1. StoreInv' /\ Abstract!Store(key, v)
    BY <1>1, <1>8, AddKeyStores
  <2> QED BY <1>1, <2>1 DEF Abstract!Next
<1>9. ASSUME NEW v \in use.nodes \cup {NULL}, NEW i \in 0 .. MaxIdx, ArrayPutIdx(i, v)
      PROVE  StoreInv' /\ Abstract!Next
  <2>1. StoreInv' /\ Abstract!PutAt(i, v)
    BY <1>1, <1>9, PutIdxPuts
  <2> QED BY <1>1, <2>1 DEF Abstract!Next
<1>10. ASSUME NEW i \in Nat, Overruns(i) PROVE StoreInv' /\ UNCHANGED Abstract!vars
  BY <1>3, <1>10 DEF Overruns, store
<1>11. ASSUME NEW v \in use.nodes \cup {NULL}, ArrayAppend(v)
       PROVE  StoreInv' /\ [Abstract!Next]_Abstract!vars
  <2>1. ArrayFits(list)
    BY DEF StoreInv, CountInv, Together
  <2>2. list.length \in Nat
    BY <2>1 DEF ArrayFits, Fits
  <2>3. CASE ArrayPutIdx(list.length, v)
    <3>1. StoreInv' /\ Abstract!PutAt(list.length, v)
      BY <1>1, <1>11, <2>2, <2>3, PutIdxPuts
    <3>2. Len(Kids) = list.length
      BY <2>1, <2>3, KidsOfArray DEF ArrayPutIdx, InArray
    <3>3. Abstract!Push(v)
      BY <3>1, <3>2 DEF Abstract!Push
    <3> QED BY <1>1, <3>1, <3>3 DEF Abstract!Next
  <2>4. CASE Overruns(list.length)
    BY <1>10, <2>2, <2>4
  <2> QED BY <1>11, <2>3, <2>4 DEF ArrayAppend
<1>12. ASSUME NEW i \in 0 .. MaxIdx, ArrayGetIdx(i) PROVE StoreInv' /\ Abstract!Next
  <2>1. UNCHANGED <<use, hash, table, list>>
    BY <1>12 DEF ArrayGetIdx, Returns, store
  <2>2. Abstract!At(i)
    BY <1>1, <1>12, GetIdxReads
  <2> QED BY <1>2, <2>1, <2>2, SameKids DEF Abstract!Next
<1>13. ASSUME NEW v \in use.nodes, JsonObjectGet(v) PROVE StoreInv' /\ Abstract!Next
  BY <1>4, <1>13 DEF JsonObjectGet, Returns
<1>14. ASSUME NEW v \in use.nodes, JsonObjectPut(v) PROVE StoreInv' /\ UNCHANGED Abstract!vars
  BY <1>3, <1>14 DEF JsonObjectPut
<1>15. ASSUME ToJsonString PROVE StoreInv' /\ Abstract!Next
  BY <1>4, <1>15 DEF ToJsonString, store
<1>16. ASSUME AppendPiece \/ AppendFails PROVE StoreInv' /\ UNCHANGED Abstract!vars
  BY <1>3, <1>16 DEF AppendPiece, AppendFails, PieceDone, store
<1>17. ASSUME Delete PROVE StoreInv' /\ Abstract!Next
  BY <1>4, <1>17 DEF Delete
<1>18. CASE UNCHANGED vars
  BY <1>3, <1>18 DEF vars, store
<1>19. ASSUME NEW i \in 0 .. MaxIdx PROVE i \in Nat
  BY <1>1
<1> QED BY <1>5, <1>6, <1>7, <1>8, <1>9, <1>10, <1>11, <1>12, <1>13, <1>14, <1>15, <1>16, <1>17,
           <1>18, <1>19 DEF Next

(* Through collisions, deletions, the reuse of freed slots and growth, the *)
(* hash table and the array list remain the map and the list that          *)
(* json_object.h describes, for every hash function, size and way to use   *)
(* the container: lh_table_insert, lh_table_resize, lh_table_delete_entry, *)
(* lh_table_lookup_entry and array_list_put_idx each do to the entries and *)
(* return what the abstract call does and returns.                         *)
THEOREM StoreImplemented == Spec => ImplementsStore
<1>1. Init => StoreInv /\ Abstract!Init
  BY InitStored
<1>2. StoreInv /\ [Next]_vars => StoreInv' /\ [Abstract!Next]_Abstract!vars
  BY NextStored
<1> QED BY <1>1, <1>2, PTL DEF Spec, ImplementsStore, Abstract!Spec

-----------------------------------------------------------------------------
(* What is built up step by step, each step given as a function.           *)
Steps(f, first, step, m) ==
    f[0] = first /\ \A n \in 1..m : f[n] = step[n][f[n - 1]]

LEMMA StepsThere ==
    ASSUME NEW X, NEW first \in X, NEW m \in Nat, NEW step,
           \A n \in 1..m : \A x \in X : step[n][x] \in X
    PROVE  \E f \in [0..m -> X] : Steps(f, first, step, m)
<1> DEFINE S == {k \in 0..m : \E f \in [0..m -> X] : Steps(f, first, step, k)}
<1>1. 0 \in S
  <2>1. PICK f \in [0..m -> X] : f = [n \in 0..m |-> first]
    OBVIOUS
  <2>2. Steps(f, first, step, 0)
    BY <2>1 DEF Steps
  <2> QED BY <2>2
<1>2. ASSUME NEW k \in 0..m - 1, k \in S PROVE k + 1 \in S
  <2>1. PICK f \in [0..m -> X] : Steps(f, first, step, k)
    BY <1>2
  <2>2. k + 1 \in 1..m /\ k \in 0..m /\ k + 1 \in 0..m
    OBVIOUS
  <2>3. PICK x \in X : x = step[k + 1][f[k]]
    BY <2>1, <2>2
  <2>4. PICK g \in [0..m -> X] : g = [f EXCEPT ![k + 1] = x]
    BY <2>1, <2>3
  <2>5. g[k + 1] = x /\ \A n \in 0..k : g[n] = f[n]
    BY <2>1, <2>2, <2>4
  <2>6. ASSUME NEW n \in 1..k + 1 PROVE g[n] = step[n][g[n - 1]]
    <3>1. n - 1 \in 0..k
      OBVIOUS
    <3>2. CASE n = k + 1
      BY <2>3, <2>5, <3>1, <3>2
    <3>3. CASE n # k + 1
      <4>1. n \in 1..k /\ n \in 0..k
        BY <3>3
      <4> QED BY <2>1, <2>5, <3>1, <4>1 DEF Steps
    <3> QED BY <3>2, <3>3
  <2>7. Steps(g, first, step, k + 1)
    BY <2>1, <2>5, <2>6 DEF Steps
  <2> QED BY <2>2, <2>7
<1> HIDE DEF S
<1>3. m \in S
  BY <1>1, <1>2, Induct
<1> QED BY <1>3 DEF S

(* The pieces of a text put together.                                      *)
Flats(f, l) ==
    DOMAIN f = 0..Len(l) /\ f[0] = << >> /\ \A i \in 1..Len(l) : f[i] = f[i - 1] \o l[i]

LEMMA FlatThere ==
    ASSUME NEW A, NEW l \in Seq(Seq(A))
    PROVE  \E f \in [0..Len(l) -> Seq(A)] : Flats(f, l) /\ FlattenSeq(l) = f[Len(l)]
<1>1. PICK m \in Nat : m = Len(l)
  OBVIOUS
<1>2. \A i \in 1..m : l[i] \in Seq(A)
  BY <1>1
<1>3. PICK step : step = [i \in 1..m |-> [x \in Seq(A) |-> x \o l[i]]]
  OBVIOUS
<1>4. \A n \in 1..m : \A x \in Seq(A) : step[n][x] = x \o l[n] /\ step[n][x] \in Seq(A)
  <2>1. \A n \in 1..m : step[n] = [x \in Seq(A) |-> x \o l[n]]
    BY <1>3
  <2>2. \A n \in 1..m : \A x \in Seq(A) : step[n][x] = x \o l[n]
    BY <2>1
  <2>3. \A n \in 1..m : \A x \in Seq(A) : x \o l[n] \in Seq(A)
    BY <1>2
  <2> QED BY <2>2, <2>3
<1>5. PICK f \in [0..m -> Seq(A)] : Steps(f, << >>, step, m)
  <2>1. << >> \in Seq(A)
    OBVIOUS
  <2> QED BY <1>4, <2>1, StepsThere
<1>6. f[0] = << >> /\ \A i \in 1..m : f[i] = f[i - 1] \o l[i]
  <2>1. \A i \in 1..m : i - 1 \in 0..m
    OBVIOUS
  <2> QED BY <1>4, <1>5, <2>1 DEF Steps
<1>7. Flats(f, l)
  BY <1>1, <1>6 DEF Flats
<1>8. CASE m = 0
  <2>1. l = << >>
    BY <1>1, <1>8, EmptySeq
  <2> QED BY <1>1, <1>6, <1>7, <1>8, <2>1 DEF FlattenSeq
<1>9. CASE m # 0
  <2>1. PICK h : h = CHOOSE g : g = [i \in 1..Len(l) |-> IF i = 1 THEN l[i] ELSE g[i - 1] \o l[i]]
    OBVIOUS
  <2>2. PICK e : e = [i \in 1..m |-> f[i]]
    OBVIOUS
  <2>3. \A i \in 1..m : f[i] = IF i = 1 THEN l[i] ELSE e[i - 1] \o l[i]
    <3>1. \A i \in 1..m : i # 1 => i - 1 \in 1..m
      OBVIOUS
    <3>2. 1 \in 1..m /\ 1 - 1 = 0 /\ << >> \o l[1] = l[1]
      BY <1>2, <1>9
    <3> QED BY <1>6, <2>2, <3>1, <3>2
  <2>4. e = [i \in 1..Len(l) |-> IF i = 1 THEN l[i] ELSE e[i - 1] \o l[i]]
    BY <1>1, <2>2, <2>3
  <2>5. h = [i \in 1..Len(l) |-> IF i = 1 THEN l[i] ELSE h[i - 1] \o l[i]]
    BY <2>1, <2>4
  <2>6. \A k \in 0..m : k # 0 => h[k] = f[k]
    <3> DEFINE S == {k \in 0..m : k # 0 => h[k] = f[k]}
    <3>1. 0 \in S
      OBVIOUS
    <3>2. ASSUME NEW k \in 0..m - 1, k \in S PROVE k + 1 \in S
      <4>1. k + 1 \in 1..m /\ (k + 1) - 1 = k /\ k + 1 \in 0..m
        OBVIOUS
      <4>2. h[k + 1] = IF k + 1 = 1 THEN l[k + 1] ELSE h[k] \o l[k + 1]
        BY <1>1, <2>5, <4>1
      <4>3. f[k + 1] = f[k] \o l[k + 1]
        BY <1>6, <4>1
      <4>4. CASE k = 0
        <5>1. l[1] \in Seq(A) /\ << >> \o l[1] = l[1]
          BY <1>2, <4>1, <4>4
        <5>2. f[1] = f[0] \o l[1] /\ h[1] = l[1] /\ k + 1 = 1
          BY <4>2, <4>3, <4>4
        <5>3. f[0] = << >>
          BY <1>6
        <5> QED BY <5>1, <5>2, <5>3
      <4>5. CASE k # 0
        <5>1. h[k] = f[k]
          BY <3>2, <4>5
        <5>2. k + 1 # 1
          BY <4>5
        <5> QED BY <4>1, <4>2, <4>3, <5>1, <5>2
      <4> QED BY <4>4, <4>5
    <3> HIDE DEF S
    <3>3. \A k \in 0..m : k \in S
      BY <3>1, <3>2, Induct
    <3> QED BY <3>3 DEF S
  <2>7. FlattenSeq(l) = h[Len(l)]
    BY <1>1, <1>9, <2>1 DEF FlattenSeq
  <2> QED BY <1>1, <1>7, <1>9, <2>6, <2>7
<1> QED BY <1>8, <1>9

LEMMA AppendFits ==
    ASSUME NEW X, NEW l \in Seq(X), NEW x \in X
    PROVE  /\ Append(l, x) \in Seq(X) /\ Len(Append(l, x)) = Len(l) + 1
           /\ Append(l, x)[Len(l) + 1] = x /\ \A i \in 1..Len(l) : Append(l, x)[i] = l[i]
OBVIOUS

LEMMA FlatIs ==
    ASSUME NEW A, NEW l \in Seq(Seq(A)), NEW x \in Seq(A)
    PROVE  /\ FlattenSeq(<< >>) = << >> /\ FlattenSeq(l) \in Seq(A)
           /\ FlattenSeq(Append(l, x)) = FlattenSeq(l) \o x
<1>1. PICK m \in Nat : m = Len(l)
  OBVIOUS
<1>2. PICK k \in Seq(Seq(A)) : k = Append(l, x)
  BY AppendFits
<1>3. Len(k) = m + 1 /\ k[m + 1] = x /\ \A i \in 1..m : k[i] = l[i]
  BY <1>1, <1>2, AppendFits
<1>4. PICK f \in [0..m -> Seq(A)] : Flats(f, l) /\ FlattenSeq(l) = f[m]
  BY <1>1, FlatThere
<1>5. PICK g \in [0..m + 1 -> Seq(A)] : Flats(g, k) /\ FlattenSeq(k) = g[m + 1]
  BY <1>3, FlatThere
<1>6. \A i \in 0..m : f[i] = g[i]
  <2> DEFINE S == {i \in 0..m : f[i] = g[i]}
  <2>1. 0 \in S
    BY <1>4, <1>5 DEF Flats
  <2>2. ASSUME NEW i \in 0..m - 1, i \in S PROVE i + 1 \in S
    <3>1. i + 1 \in 1..m /\ i + 1 \in 1..m + 1 /\ (i + 1) - 1 = i /\ i + 1 \in 0..m
      OBVIOUS
    <3>2. f[i + 1] = f[i] \o l[i + 1]
      BY <1>1, <1>4, <3>1 DEF Flats
    <3>3. g[i + 1] = g[i] \o k[i + 1]
      BY <1>3, <1>5, <3>1 DEF Flats
    <3> QED BY <1>3, <2>2, <3>1, <3>2, <3>3
  <2> HIDE DEF S
  <2>3. \A i \in 0..m : i \in S
    BY <2>1, <2>2, Induct
  <2> QED BY <2>3 DEF S
<1>7. g[m + 1] = g[m] \o x
  <2>1. m + 1 \in 1..m + 1 /\ (m + 1) - 1 = m
    OBVIOUS
  <2> QED BY <1>3, <1>5, <2>1 DEF Flats
<1>8. m \in 0..m
  OBVIOUS
<1>9. FlattenSeq(<< >>) = << >>
  BY DEF FlattenSeq
<1> QED BY <1>2, <1>4, <1>5, <1>6, <1>7, <1>8, <1>9

(* A sequence and another one behind it, element by element.               *)
LEMMA FirstOnes ==
    ASSUME NEW X, NEW k \in Seq(X), NEW i \in 0..Len(k)
    PROVE  /\ SubSeq(k, 1, i) \in Seq(X) /\ Len(SubSeq(k, 1, i)) = i
           /\ SubSeq(k, 1, 0) = << >> /\ SubSeq(k, 1, Len(k)) = k
           /\ i < Len(k) => SubSeq(k, 1, i + 1) = Append(SubSeq(k, 1, i), k[i + 1]) /\ k[i + 1] \in X
           /\ \A j \in 1..i : SubSeq(k, 1, i)[j] = k[j]
<1>1. PICK m \in Nat : m = Len(k)
  OBVIOUS
<1>2. SubSeq(k, 1, i) \in Seq(X) /\ Len(SubSeq(k, 1, i)) = i /\ SubSeq(k, 1, 0) = << >>
  BY <1>1
<1>3. SubSeq(k, 1, m) = k
  BY <1>1
<1>4. \A j \in 1..i : SubSeq(k, 1, i)[j] = k[j]
  BY <1>1
<1>5. ASSUME i < m
      PROVE  SubSeq(k, 1, i + 1) = Append(SubSeq(k, 1, i), k[i + 1]) /\ k[i + 1] \in X
  <2>1. i + 1 \in 1..m /\ k[i + 1] \in X
    BY <1>1, <1>5
  <2>2. PICK a \in Seq(X) : a = SubSeq(k, 1, i + 1)
    <3>1. \A j \in 1..i + 1 : k[j] \in X
      BY <1>1, <1>5
    <3>2. 1 \in Int /\ i + 1 \in Int
      OBVIOUS
    <3>3. SubSeq(k, 1, i + 1) \in Seq(X)
      BY <3>1, <3>2, SubSeqProperties
    <3> QED BY <3>3
  <2>3. Len(a) = i + 1 /\ \A j \in 1..i + 1 : a[j] = k[j]
    BY <1>1, <2>1, <2>2
  <2>4. PICK c \in Seq(X) : c = SubSeq(k, 1, i) /\ Len(c) = i /\ \A j \in 1..i : c[j] = k[j]
    BY <1>2, <1>4
  <2>5. PICK b \in Seq(X) : /\ b = Append(c, k[i + 1]) /\ Len(b) = i + 1 /\ b[i + 1] = k[i + 1]
                            /\ \A j \in 1..i : b[j] = c[j]
    <3>1. PICK e \in X : e = k[i + 1]
      BY <2>1
    <3>2. /\ Append(c, e) \in Seq(X) /\ Len(Append(c, e)) = i + 1
          /\ Append(c, e)[i + 1] = e /\ \A j \in 1..i : Append(c, e)[j] = c[j]
      BY <2>4, AppendFits
    <3> QED BY <3>1, <3>2
  <2>6. \A j \in 1..i + 1 : j = i + 1 \/ j \in 1..i
    OBVIOUS
  <2>7. a = b
    BY <2>3, <2>4, <2>5, <2>6, SeqEqual
  <2> QED BY <2>1, <2>2, <2>4, <2>5, <2>7
<1> QED BY <1>1, <1>2, <1>3, <1>4, <1>5

LEMMA FlatJoin ==
    ASSUME NEW A, NEW l \in Seq(Seq(A)), NEW k \in Seq(Seq(A))
    PROVE  FlattenSeq(l \o k) = FlattenSeq(l) \o FlattenSeq(k)
<1>1. PICK m \in Nat : m = Len(k)
  OBVIOUS
<1> DEFINE P(i) == SubSeq(k, 1, i)
           S == {i \in 0..m : FlattenSeq(l \o P(i)) = FlattenSeq(l) \o FlattenSeq(P(i))}
<1>2. FlattenSeq(l) \in Seq(A)
  BY FlatIs, EmptySeq
<1>3. 0 \in S
  <2>1. SubSeq(k, 1, 0) = << >>
    BY <1>1, FirstOnes
  <2>2. l \o << >> = l /\ FlattenSeq(l) \o << >> = FlattenSeq(l)
    BY <1>2, ConcatEmptySeq
  <2>3. FlattenSeq(<< >>) = << >>
    BY DEF FlattenSeq
  <2>4. P(0) = << >> /\ 0 \in 0..m
    BY <2>1
  <2>5. FlattenSeq(l \o P(0)) = FlattenSeq(l) \o FlattenSeq(P(0))
    BY <2>2, <2>3, <2>4
  <2> QED BY <2>4, <2>5
<1>4. ASSUME NEW i \in 0..m - 1, i \in S PROVE i + 1 \in S
  <2>1. PICK x \in Seq(A), p \in Seq(Seq(A)) :
            x = k[i + 1] /\ p = P(i) /\ P(i + 1) = Append(p, x)
    <3>1. i < Len(k) /\ i \in 0..Len(k)
      BY <1>1
    <3>2. PICK B : B = Seq(A) /\ k \in Seq(B)
      OBVIOUS
    <3>3. /\ SubSeq(k, 1, i) \in Seq(B) /\ k[i + 1] \in B
          /\ SubSeq(k, 1, i + 1) = Append(SubSeq(k, 1, i), k[i + 1])
      BY <3>1, <3>2, FirstOnes
    <3> QED BY <3>2, <3>3
  <2>2. l \o p \in Seq(Seq(A)) /\ l \o Append(p, x) = Append(l \o p, x)
    <3>1. PICK B : B = Seq(A)
      OBVIOUS
    <3>2. l \in Seq(B) /\ p \in Seq(B) /\ x \in B
      BY <3>1
    <3>3. l \o p \in Seq(B) /\ l \o Append(p, x) = Append(l \o p, x)
      BY <3>2
    <3> QED BY <3>1, <3>3
  <2>3. /\ FlattenSeq(Append(l \o p, x)) = FlattenSeq(l \o p) \o x
        /\ FlattenSeq(Append(p, x)) = FlattenSeq(p) \o x /\ FlattenSeq(p) \in Seq(A)
    BY <2>2, FlatIs
  <2>4. FlattenSeq(l \o p) = FlattenSeq(l) \o FlattenSeq(p)
    BY <1>4, <2>1
  <2>5. (FlattenSeq(l) \o FlattenSeq(p)) \o x = FlattenSeq(l) \o (FlattenSeq(p) \o x)
    BY <1>2, <2>3, ConcatAssociative
  <2>6. FlattenSeq(l \o P(i + 1)) = FlattenSeq(l) \o FlattenSeq(P(i + 1))
    BY <2>1, <2>2, <2>3, <2>4, <2>5
  <2>7. i + 1 \in 0..m
    OBVIOUS
  <2> QED BY <2>6, <2>7
<1>5. m \in S
  <2> HIDE DEF S, P
  <2>1. m \in 0..m
    OBVIOUS
  <2> QED BY <1>3, <1>4, <2>1, Induct
<1>6. P(m) = k
  BY <1>1, FirstOnes
<1> QED BY <1>5, <1>6

LEMMA FlatHead ==
    ASSUME NEW A, NEW l \in Seq(Seq(A)), l # << >>
    PROVE  /\ FlattenSeq(l) = Head(l) \o FlattenSeq(Tail(l))
           /\ Head(l) \in Seq(A) /\ Tail(l) \in Seq(Seq(A)) /\ FlattenSeq(Tail(l)) \in Seq(A)
           /\ Len(l) \in Nat /\ (Len(l) > 1 <=> Tail(l) # << >>)
<1>1. PICK B : B = Seq(A) /\ l \in Seq(B)
  OBVIOUS
<1>2. Head(l) \in B /\ Tail(l) \in Seq(B) /\ l = <<Head(l)>> \o Tail(l) /\ <<Head(l)>> \in Seq(B)
  BY <1>1
<1>3. Len(l) \in Nat /\ (Len(l) > 1 <=> Tail(l) # << >>)
  <2>1. Len(Tail(l)) = Len(l) - 1 /\ Len(l) \in Nat
    BY <1>1
  <2>2. Tail(l) # << >> <=> Len(Tail(l)) # 0
    BY <1>2, EmptySeq
  <2>3. PICK n \in Nat : n = Len(l)
    BY <2>1
  <2>4. n > 1 <=> n - 1 # 0
    <3>1. n # 0
      BY <1>1, <2>3, EmptySeq
    <3> QED BY <3>1
  <2> QED BY <2>1, <2>2, <2>3, <2>4
<1>4. FlattenSeq(<<Head(l)>> \o Tail(l)) = FlattenSeq(<<Head(l)>>) \o FlattenSeq(Tail(l))
  BY <1>1, <1>2, FlatJoin
<1>5. FlattenSeq(<<Head(l)>>) = Head(l)
  <2>1. PICK x \in Seq(A) : x = Head(l)
    BY <1>1, <1>2
  <2>2. <<x>> = Append(<< >>, x) /\ << >> \in Seq(Seq(A))
    OBVIOUS
  <2>3. FlattenSeq(Append(<< >>, x)) = FlattenSeq(<< >>) \o x /\ FlattenSeq(<< >>) = << >>
    BY <2>2, FlatIs
  <2>4. << >> \o x = x
    BY ConcatEmptySeq
  <2> QED BY <2>1, <2>2, <2>3, <2>4
<1>6. FlattenSeq(Tail(l)) \in Seq(A)
  <2>1. Tail(l) \in Seq(Seq(A)) /\ << >> \in Seq(A)
    BY <1>1, <1>2
  <2> QED BY <2>1, FlatIs
<1> QED BY <1>1, <1>2, <1>3, <1>4, <1>5, <1>6

(* Pieces of pieces.                                                       *)
LEMMA FlatFlat ==
    ASSUME NEW A, NEW k \in Seq(Seq(Seq(A))),
           NEW t \in Seq(Seq(A)), Len(t) = Len(k), \A i \in 1..Len(k) : t[i] = FlattenSeq(k[i])
    PROVE  /\ FlattenSeq(k) \in Seq(Seq(A))
           /\ FlattenSeq(FlattenSeq(k)) = FlattenSeq(t)
<1>1. PICK B, C : B = Seq(A) /\ C = Seq(Seq(A)) /\ k \in Seq(C) /\ t \in Seq(B)
  OBVIOUS
<1>2. PICK m \in Nat : m = Len(k) /\ m = Len(t)
  BY <1>1
<1> DEFINE P(i) == SubSeq(k, 1, i)
           Q(i) == SubSeq(t, 1, i)
           S == {i \in 0..m : FlattenSeq(FlattenSeq(P(i))) = FlattenSeq(Q(i))}
<1>3. 0 \in S
  <2>1. SubSeq(k, 1, 0) = << >> /\ SubSeq(t, 1, 0) = << >>
    BY <1>1, <1>2, FirstOnes
  <2>2. FlattenSeq(<< >>) = << >>
    BY DEF FlattenSeq
  <2>3. 0 \in 0..m /\ P(0) = << >> /\ Q(0) = << >>
    BY <2>1
  <2>4. FlattenSeq(FlattenSeq(P(0))) = FlattenSeq(Q(0))
    BY <2>2, <2>3
  <2> QED BY <2>3, <2>4
<1>4. ASSUME NEW i \in 0..m - 1, i \in S PROVE i + 1 \in S
  <2>1. i < m /\ i \in 0..m /\ i + 1 \in 0..m /\ i + 1 \in 1..m
    OBVIOUS
  <2>2. PICK x \in C, p \in Seq(C) : x = k[i + 1] /\ p = P(i) /\ P(i + 1) = Append(p, x)
    <3>1. i < Len(k) /\ i \in 0..Len(k) /\ k \in Seq(C)
      BY <1>1, <1>2, <2>1
    <3>2. /\ SubSeq(k, 1, i) \in Seq(C) /\ k[i + 1] \in C
          /\ SubSeq(k, 1, i + 1) = Append(SubSeq(k, 1, i), k[i + 1])
      BY <3>1, FirstOnes
    <3> QED BY <3>2
  <2>3. PICK y \in B, q \in Seq(B) : y = t[i + 1] /\ q = Q(i) /\ Q(i + 1) = Append(q, y)
    <3>1. i < Len(t) /\ i \in 0..Len(t) /\ t \in Seq(B)
      BY <1>1, <1>2, <2>1
    <3>2. /\ SubSeq(t, 1, i) \in Seq(B) /\ t[i + 1] \in B
          /\ SubSeq(t, 1, i + 1) = Append(SubSeq(t, 1, i), t[i + 1])
      BY <3>1, FirstOnes
    <3> QED BY <3>2
  <2>4. FlattenSeq(Append(p, x)) = FlattenSeq(p) \o x /\ FlattenSeq(p) \in Seq(B)
    BY <1>1, <2>2, FlatIs
  <2>5. FlattenSeq(FlattenSeq(p) \o x) = FlattenSeq(FlattenSeq(p)) \o FlattenSeq(x)
    BY <1>1, <2>2, <2>4, FlatJoin
  <2>6. FlattenSeq(Append(q, y)) = FlattenSeq(q) \o y
    BY <1>1, <2>3, FlatIs
  <2>7. y = FlattenSeq(x)
    BY <1>2, <2>1, <2>2, <2>3
  <2>8. FlattenSeq(FlattenSeq(p)) = FlattenSeq(q)
    BY <1>4, <2>2, <2>3
  <2> QED BY <2>1, <2>2, <2>3, <2>4, <2>5, <2>6, <2>7, <2>8
<1>5. m \in S
  <2> HIDE DEF S, P, Q
  <2>1. m \in 0..m
    OBVIOUS
  <2> QED BY <1>3, <1>4, <2>1, Induct
<1>6. P(m) = k /\ Q(m) = t
  BY <1>1, <1>2, FirstOnes
<1>7. FlattenSeq(k) \in Seq(B)
  BY <1>1, FlatIs, EmptySeq
<1> QED BY <1>1, <1>5, <1>6, <1>7

-----------------------------------------------------------------------------
(* A text that is in a source from place i on, with something behind it.   *)
Occurs(s, i, t) ==
    /\ i \in 1..Len(s) /\ Len(t) \in Nat /\ i + Len(t) \in 1..Len(s)
    /\ \A k \in 1..Len(t) : s[i + k - 1] = t[k]

LEMMA OccursJoin ==
    ASSUME NEW A, NEW s, IsSeq(s), NEW i, NEW a \in Seq(A), NEW b \in Seq(A), Occurs(s, i, a \o b)
    PROVE  /\ Occurs(s, i, a) /\ Occurs(s, i + Len(a), b)
           /\ i + Len(a \o b) = (i + Len(a)) + Len(b)
<1>1. PICK c \in Seq(A) : c = a \o b /\ Occurs(s, i, c)
  BY ConcatProperties
<1>2. PICK m \in Nat, n \in Nat, z \in Nat : m = Len(a) /\ n = Len(b) /\ z = Len(s)
  <2>1. Len(a) \in Nat /\ Len(b) \in Nat
    BY LenProperties
  <2>2. Len(s) \in Nat
    BY SeqFits
  <2> QED BY <2>1, <2>2
<1>3. Len(c) = m + n /\ (\A k \in 1..m : c[k] = a[k]) /\ \A k \in 1..n : c[m + k] = b[k]
  BY <1>1, <1>2
<1>4. i \in 1..z /\ i + (m + n) \in 1..z /\ \A k \in 1..m + n : s[i + k - 1] = c[k]
  BY <1>1, <1>2, <1>3 DEF Occurs
<1>5. Occurs(s, i, a)
  <2>1. i + m \in 1..z /\ \A k \in 1..m : k \in 1..m + n
    BY <1>4
  <2> QED BY <1>2, <1>3, <1>4, <2>1 DEF Occurs
<1>6. Occurs(s, i + m, b)
  <2>1. i + m \in 1..z /\ (i + m) + n = i + (m + n)
    BY <1>4
  <2>2. \A k \in 1..n : m + k \in 1..m + n /\ i + (m + k) - 1 = (i + m) + k - 1
    BY <1>4
  <2>3. \A k \in 1..n : s[(i + m) + k - 1] = b[k]
    BY <1>3, <1>4, <2>2
  <2> QED BY <1>2, <1>4, <2>1, <2>3 DEF Occurs
<1> QED BY <1>1, <1>2, <1>3, <1>4, <1>5, <1>6

LEMMA OccursLast ==
    ASSUME NEW A, NEW s, IsSeq(s), NEW i, NEW a \in Seq(A), NEW c \in A, Occurs(s, i, a \o <<c>>)
    PROVE  /\ Occurs(s, i, a) /\ i + Len(a) \in 1..Len(s) /\ s[i + Len(a)] = c
           /\ i + Len(a \o <<c>>) = (i + Len(a)) + 1
<1>1. PICK b \in Seq(A) : b = <<c>> /\ Len(b) = 1 /\ b[1] = c
  <2>1. <<c>> \in Seq(A) /\ Len(<<c>>) = 1 /\ <<c>>[1] = c
    OBVIOUS
  <2> QED BY <2>1
<1>2. Occurs(s, i, a \o b)
  BY <1>1
<1>3. /\ Occurs(s, i, a) /\ Occurs(s, i + Len(a), b)
      /\ i + Len(a \o b) = (i + Len(a)) + Len(b)
  BY <1>2, OccursJoin
<1>4. i + Len(a) \in 1..Len(s) /\ s[(i + Len(a)) + 1 - 1] = b[1]
  <2>1. 1 \in 1..Len(b)
    BY <1>1
  <2> QED BY <1>3, <2>1 DEF Occurs
<1>5. (i + Len(a)) + 1 - 1 = i + Len(a)
  <2>1. i + Len(a) \in Int
    BY <1>4
  <2> QED BY <2>1
<1> QED BY <1>1, <1>3, <1>4, <1>5

(* The places of the pieces.                                               *)
PlacesOf(q, l, p) == q[1] = p /\ \A i \in 1..Len(l) : q[i + 1] = q[i] + Len(l[i])

LEMMA OccursFlat ==
    ASSUME NEW A, NEW s, IsSeq(s), NEW p, NEW l \in Seq(Seq(A)), Occurs(s, p, FlattenSeq(l))
    PROVE  \E q : /\ PlacesOf(q, l, p) /\ \A i \in 1..Len(l) : Occurs(s, q[i], l[i])
                  /\ q[Len(l) + 1] = p + Len(FlattenSeq(l))
<1>1. PICK m \in Nat : m = Len(l)
  OBVIOUS
<1>2. PICK B : B = Seq(A) /\ l \in Seq(B)
  OBVIOUS
<1>3. PICK f \in [0..m -> Seq(A)] : Flats(f, l) /\ FlattenSeq(l) = f[m]
  BY <1>1, FlatThere
<1>4. /\ f[0] = << >>
      /\ \A i \in 1..m : f[i] = f[i - 1] \o l[i] /\ i - 1 \in 0..m /\ i \in 0..m /\ l[i] \in Seq(A)
  <2>1. f[0] = << >> /\ \A i \in 1..m : f[i] = f[i - 1] \o l[i]
    BY <1>1, <1>3 DEF Flats
  <2>2. \A i \in 1..m : i - 1 \in 0..m /\ i \in 0..m
    OBVIOUS
  <2>3. \A i \in 1..m : l[i] \in B
    BY <1>1, <1>2, ElementOfSeq
  <2> QED BY <1>2, <2>1, <2>2, <2>3
<1>5. p \in Nat /\ \A i \in 0..m : Len(f[i]) \in Nat
  BY <1>3 DEF Occurs
<1>6. \A k \in 0..m : Occurs(s, p, f[m - k])
  <2> DEFINE S == {k \in 0..m : Occurs(s, p, f[m - k])}
  <2>1. 0 \in S
    BY <1>3
  <2>2. ASSUME NEW k \in 0..m - 1, k \in S PROVE k + 1 \in S
    <3>1. m - k \in 1..m /\ m - (k + 1) = (m - k) - 1 /\ k + 1 \in 0..m /\ m - (k + 1) \in 0..m
      OBVIOUS
    <3>2. PICK a \in Seq(A), b \in Seq(A) : a = f[m - (k + 1)] /\ b = l[m - k]
      BY <1>3, <1>4, <3>1
    <3>3. Occurs(s, p, a \o b)
      BY <1>4, <2>2, <3>1, <3>2
    <3>4. Occurs(s, p, a)
      BY <3>3, OccursJoin
    <3> QED BY <3>1, <3>2, <3>4
  <2> HIDE DEF S
  <2>3. \A k \in 0..m : k \in S
    BY <2>1, <2>2, Induct
  <2> QED BY <2>3 DEF S
<1>7. PICK q : q = [i \in 1..m + 1 |-> p + Len(f[i - 1])]
  OBVIOUS
<1>8. ASSUME NEW i \in 1..m PROVE Occurs(s, q[i], l[i]) /\ q[i + 1] = q[i] + Len(l[i])
  <2>1. PICK a \in Seq(A), b \in Seq(A) : a = f[i - 1] /\ b = l[i] /\ f[i] = a \o b
    BY <1>3, <1>4
  <2>2. Occurs(s, p, a \o b)
    <3>1. m - i \in 0..m /\ m - (m - i) = i
      OBVIOUS
    <3> QED BY <1>6, <2>1, <3>1
  <2>3. Occurs(s, p + Len(a), b) /\ p + Len(a \o b) = (p + Len(a)) + Len(b)
    BY <2>2, OccursJoin
  <2>4. i \in 1..m + 1 /\ i + 1 \in 1..m + 1 /\ (i + 1) - 1 = i
    OBVIOUS
  <2>5. q[i] = p + Len(a) /\ q[i + 1] = p + Len(a \o b)
    BY <1>7, <2>1, <2>4
  <2> QED BY <2>1, <2>3, <2>5
<1>9. q[1] = p /\ q[m + 1] = p + Len(f[m])
  <2>1. 1 \in 1..m + 1 /\ m + 1 \in 1..m + 1 /\ 1 - 1 = 0 /\ (m + 1) - 1 = m
    OBVIOUS
  <2>2. q[1] = p + Len(f[0]) /\ q[m + 1] = p + Len(f[m])
    BY <1>7, <2>1
  <2>3. Len(f[0]) = 0
    BY <1>4, EmptySeq
  <2> QED BY <1>5, <2>2, <2>3
<1> QED BY <1>1, <1>3, <1>8, <1>9 DEF PlacesOf

-----------------------------------------------------------------------------
(* Strings.                                                                *)

Spelling(c) == IF c \in Escaped THEN <<"bs", c>> ELSE <<c>>

LEMMA TupleFits ==
    ASSUME NEW x, NEW y
    PROVE  /\ Len(<<x>>) = 1 /\ <<x>>[1] = x
           /\ Len(<<x, y>>) = 2 /\ <<x, y>>[1] = x /\ <<x, y>>[2] = y
OBVIOUS

LEMMA SpellingFits ==
    ASSUME NEW A, "bs" \in A, NEW c \in A
    PROVE  Spelling(c) \in Seq(A)
BY DEF Spelling

(* However a text is cut into pieces, it gets the spelling of the symbol.  *)
LEMMA AppendEscapedFits ==
    ASSUME NEW A, "bs" \in A, NEW p \in Seq(Seq(A)), NEW c \in A
    PROVE  /\ AppendEscaped(p, c) \in Seq(Seq(A))
           /\ FlattenSeq(AppendEscaped(p, c)) = FlattenSeq(p) \o Spelling(c)
<1>1. PICK x \in Seq(A) : x = Spelling(c)
  BY SpellingFits
<1>2. Append(p, x) \in Seq(Seq(A)) /\ FlattenSeq(Append(p, x)) = FlattenSeq(p) \o x
  BY FlatIs, AppendFits
<1>3. CASE c \in Escaped \/ p = << >> \/ Last(Last(p)) \in Escaped
  <2>1. AppendEscaped(p, c) = Append(p, x)
    BY <1>1, <1>3 DEF AppendEscaped, Spelling
  <2> QED BY <1>1, <1>2, <2>1
<1>4. CASE ~(c \in Escaped \/ p = << >> \/ Last(Last(p)) \in Escaped)
  <2>1. PICK B : B = Seq(A) /\ p \in Seq(B)
    OBVIOUS
  <2>2. Front(p) \in Seq(B) /\ Last(p) \in B /\ p = Append(Front(p), Last(p))
    <3>1. PICK m \in Nat \ {0} : m = Len(p)
      BY <1>4, <2>1, EmptySeq
    <3>2. m - 1 < Len(p) /\ m - 1 \in 0..Len(p) /\ (m - 1) + 1 = m
      BY <3>1
    <3>3. /\ SubSeq(p, 1, m - 1) \in Seq(B) /\ SubSeq(p, 1, m) = p /\ p[m] \in B
          /\ SubSeq(p, 1, m) = Append(SubSeq(p, 1, m - 1), p[m])
      BY <2>1, <3>1, <3>2, FirstOnes
    <3> QED BY <3>1, <3>3 DEF Front, Last
  <2>3. PICK a \in Seq(Seq(A)), b \in Seq(A) : a = Front(p) /\ b = Last(p) /\ p = Append(a, b)
    BY <2>1, <2>2
  <2>4. Append(b, c) \in Seq(A) /\ Append(b, c) = b \o <<c>> /\ <<c>> \in Seq(A)
    OBVIOUS
  <2>5. AppendEscaped(p, c) = Append(a, Append(b, c)) /\ x = <<c>>
    BY <1>1, <1>4, <2>3 DEF AppendEscaped, Spelling
  <2>6. /\ Append(a, Append(b, c)) \in Seq(Seq(A))
        /\ FlattenSeq(Append(a, Append(b, c))) = FlattenSeq(a) \o Append(b, c)
        /\ FlattenSeq(Append(a, b)) = FlattenSeq(a) \o b /\ FlattenSeq(a) \in Seq(A)
    BY <2>4, FlatIs, AppendFits
  <2>7. FlattenSeq(a) \o (b \o <<c>>) = (FlattenSeq(a) \o b) \o <<c>>
    <3>1. PICK d \in Seq(A), e \in Seq(A) : d = FlattenSeq(a) /\ e = <<c>>
      BY <2>4, <2>6
    <3>2. (d \o b) \o e = d \o (b \o e)
      BY ConcatAssociative
    <3> QED BY <3>1, <3>2
  <2> QED BY <1>1, <2>3, <2>4, <2>5, <2>6, <2>7
<1> QED BY <1>3, <1>4

LEMMA EscapeFits ==
    ASSUME NEW A, "bs" \in A, NEW t \in Seq(A),
           NEW l, Len(l) = Len(t), l \in Seq(Seq(A)), \A i \in 1..Len(t) : l[i] = Spelling(t[i])
    PROVE  /\ JsonEscapeStr(t) \in Seq(Seq(A))
           /\ FlattenSeq(JsonEscapeStr(t)) = FlattenSeq(l)
<1> SUFFICES ASSUME NEW m \in Nat, m = Len(t), NEW B, B = Seq(Seq(A))
             PROVE  /\ JsonEscapeStr(t) \in Seq(Seq(A))
                    /\ FlattenSeq(JsonEscapeStr(t)) = FlattenSeq(l)
  OBVIOUS
<1>1. m = Len(t) /\ B = Seq(Seq(A))
  OBVIOUS
<1>2. PICK step : step = [n \in 1..m |-> [p \in B |-> AppendEscaped(p, t[n])]]
  OBVIOUS
<1>3. \A n \in 1..m : \A p \in B : step[n][p] = AppendEscaped(p, t[n]) /\ step[n][p] \in B
  <2>1. \A n \in 1..m : step[n] = [p \in B |-> AppendEscaped(p, t[n])] /\ t[n] \in A
    BY <1>1, <1>2
  <2>2. \A n \in 1..m : \A p \in B : step[n][p] = AppendEscaped(p, t[n])
    BY <2>1
  <2>3. \A n \in 1..m : \A p \in B : AppendEscaped(p, t[n]) \in B
    BY <1>1, <2>1, AppendEscapedFits
  <2> QED BY <2>2, <2>3
<1>4. PICK f \in [0..m -> B] : Steps(f, << >>, step, m)
  <2>1. << >> \in B
    BY <1>1
  <2> QED BY <1>3, <2>1, StepsThere
<1>5. f[0] = << >> /\ \A n \in 1..m : f[n] = AppendEscaped(f[n - 1], t[n]) /\ n - 1 \in 0..m
  <2>1. \A n \in 1..m : n - 1 \in 0..m
    OBVIOUS
  <2> QED BY <1>3, <1>4, <2>1 DEF Steps
<1>6. PICK g : g = CHOOSE p : p = [n \in 0..Len(t) |->
                    IF n = 0 THEN << >> ELSE AppendEscaped(p[n - 1], t[n])]
  OBVIOUS
<1>7. f = [n \in 0..Len(t) |-> IF n = 0 THEN << >> ELSE AppendEscaped(f[n - 1], t[n])]
  <2>1. \A n \in 0..m : f[n] = IF n = 0 THEN << >> ELSE AppendEscaped(f[n - 1], t[n])
    BY <1>5
  <2> QED BY <1>1, <2>1
<1>8. g = [n \in 0..Len(t) |-> IF n = 0 THEN << >> ELSE AppendEscaped(g[n - 1], t[n])]
  BY <1>6, <1>7
<1>9. \A k \in 0..m : g[k] = f[k]
  <2> DEFINE S == {k \in 0..m : g[k] = f[k]}
  <2>1. 0 \in S
    <3>1. 0 \in 0..m
      OBVIOUS
    <3> QED BY <1>1, <1>5, <1>8, <3>1
  <2>2. ASSUME NEW k \in 0..m - 1, k \in S PROVE k + 1 \in S
    <3>1. k + 1 \in 1..m /\ k + 1 \in 0..m /\ k + 1 # 0 /\ (k + 1) - 1 = k
      OBVIOUS
    <3>2. g[k + 1] = AppendEscaped(g[k], t[k + 1])
      BY <1>1, <1>8, <3>1
    <3>3. f[k + 1] = AppendEscaped(f[k], t[k + 1])
      BY <1>5, <3>1
    <3> QED BY <2>2, <3>1, <3>2, <3>3
  <2> HIDE DEF S
  <2>3. \A k \in 0..m : k \in S
    BY <2>1, <2>2, Induct
  <2> QED BY <2>3 DEF S
<1>10. JsonEscapeStr(t) = f[m] /\ f[m] \in Seq(Seq(A))
  <2>1. JsonEscapeStr(t) = g[m]
    BY <1>1, <1>6 DEF JsonEscapeStr
  <2>2. m \in 0..m
    OBVIOUS
  <2> QED BY <1>1, <1>4, <1>9, <2>1, <2>2
<1>11. PICK h \in [0..m -> Seq(A)] : Flats(h, l) /\ FlattenSeq(l) = h[m]
  BY <1>1, FlatThere
<1>12. \A k \in 0..m : FlattenSeq(f[k]) = h[k]
  <2> DEFINE S == {k \in 0..m : FlattenSeq(f[k]) = h[k]}
  <2>1. 0 \in S
    <3>1. FlattenSeq(<< >>) = << >> /\ h[0] = << >>
      BY <1>11 DEF FlattenSeq, Flats
    <3> QED BY <1>5, <3>1
  <2>2. ASSUME NEW k \in 0..m - 1, k \in S PROVE k + 1 \in S
    <3>1. k + 1 \in 1..m /\ k + 1 \in 0..m /\ (k + 1) - 1 = k /\ k \in 0..m
      OBVIOUS
    <3>2. PICK p \in Seq(Seq(A)), c \in A : p = f[k] /\ c = t[k + 1]
      <4>1. f[k] \in B
        BY <1>4, <3>1
      <4>2. t[k + 1] \in A
        BY <1>1, <3>1
      <4> QED BY <1>1, <4>1, <4>2
    <3>3. FlattenSeq(AppendEscaped(p, c)) = FlattenSeq(p) \o Spelling(c)
      BY AppendEscapedFits
    <3>4. f[k + 1] = AppendEscaped(p, c)
      BY <1>5, <3>1, <3>2
    <3>5. h[k + 1] = h[k] \o l[k + 1]
      BY <1>1, <1>11, <3>1 DEF Flats
    <3>6. l[k + 1] = Spelling(c) /\ FlattenSeq(p) = h[k]
      BY <1>1, <2>2, <3>1, <3>2
    <3> QED BY <3>1, <3>3, <3>4, <3>5, <3>6
  <2> HIDE DEF S
  <2>3. \A k \in 0..m : k \in S
    BY <2>1, <2>2, Induct
  <2> QED BY <2>3 DEF S
<1>13. m \in 0..m
  OBVIOUS
<1> QED BY <1>10, <1>11, <1>12, <1>13

(* A string that is printed is read back.                                  *)
LEMMA BehindNothing ==
    ASSUME NEW s, NEW g, NEW i, FineText(s, g, i)
    PROVE  Behind(<< >>, g) = g
<1>1. CASE Failed(g)
  BY <1>1, GotFits DEF FineText, Fine, Behind
<1>2. CASE ~Failed(g)
  <2>1. /\ g = Got(g.val, g.next) /\ g.val = Value("string", g.val.text, << >>) /\ IsSeq(g.val.text)
    BY <1>2, GotFits DEF FineText, Fine
  <2>2. << >> \o g.val.text = g.val.text
    BY <2>1, Regroup
  <2> QED BY <1>2, <2>1, <2>2 DEF Behind
<1> QED BY <1>1, <1>2

(* A text without what ends it, or changes its meaning.                    *)
Clean(t) == \A i \in 1..Len(t) : t[i] \notin {NUL, "bs"}

LEMMA TextRead ==
    ASSUME NEW A, {"bs", "dq"} \subseteq A, NEW s, Source(s), NEW t \in Seq(A), Clean(t), NEW i,
           NEW x \in Seq(A), x = FlattenSeq(JsonEscapeStr(t)), Occurs(s, i, x), s[i + Len(x)] = "dq"
    PROVE  Text(s, "dq")[i] = Got(Value("string", t, << >>), (i + Len(x)) + 1)
<1>1. PICK m \in Nat : m = Len(t)
  OBVIOUS
<1>2. \A n \in 1..m : t[n] \in A /\ Spelling(t[n]) \in Seq(A)
  BY <1>1, SpellingFits
<1>3. PICK l \in Seq(Seq(A)) : l = [n \in 1..m |-> Spelling(t[n])] /\ Len(l) = m
  <2>1. PICK B, l : B = Seq(A) /\ l = [n \in 1..m |-> Spelling(t[n])]
    OBVIOUS
  <2>2. l \in [1..m -> B]
    BY <1>2, <2>1
  <2>3. l \in Seq(B) /\ Len(l) = m
    BY <2>2
  <2> QED BY <2>1, <2>3
<1>4. x = FlattenSeq(l)
  BY <1>1, <1>3, EscapeFits
<1>5. i + Len(x) \in 1..Len(s) /\ IsSeq(s)
  BY DEF Source, Occurs
<1>6. PICK q : PlacesOf(q, l, i) /\ q[m + 1] = i + Len(x) /\ \A n \in 1..m : Occurs(s, q[n], l[n])
  BY <1>3, <1>4, <1>5, OccursFlat
<1>7. \A n \in 1..m + 1 : q[n] \in 1..Len(s)
  <2>1. q[m + 1] \in 1..Len(s)
    BY <1>5, <1>6 DEF Occurs
  <2>2. \A n \in 1..m : q[n] \in 1..Len(s)
    BY <1>6 DEF Occurs
  <2> QED BY <2>1, <2>2
<1>8. PICK u : u = Text(s, "dq")
  OBVIOUS
<1> DEFINE P(k) == SubSeq(t, 1, k)
           S == {k \in 0..m : Behind(P(k), u[q[k + 1]]) = u[i]}
<1>9. 0 \in S
  <2>1. SubSeq(t, 1, 0) = << >> /\ q[0 + 1] = i /\ i \in 1..Len(s)
    <3>1. 0 \in 0..Len(t)
      BY <1>1
    <3>2. SubSeq(t, 1, 0) = << >>
      BY <3>1, FirstOnes
    <3> QED BY <1>1, <1>6, <1>7, <3>2 DEF PlacesOf
  <2>2. FineText(s, u[i], i)
    BY <1>8, <2>1, TextThere DEF NUL
  <2>3. Behind(<< >>, u[i]) = u[i]
    BY <2>2, BehindNothing
  <2>4. Behind(P(0), u[q[0 + 1]]) = u[i]
    BY <2>1, <2>3
  <2> QED BY <2>4
<1>10. ASSUME NEW k \in 0..m - 1, k \in S PROVE k + 1 \in S
  <2>1. k + 1 \in 1..m /\ k + 1 \in 1..m + 1 /\ k + 1 \in 0..m /\ k < m
    OBVIOUS
  <2>2. PICK c \in A, p \in Seq(A) : c = t[k + 1] /\ p = P(k) /\ P(k + 1) = Append(p, c)
    <3>1. k < Len(t) /\ k \in 0..Len(t)
      BY <1>1, <2>1
    <3>2. /\ SubSeq(t, 1, k) \in Seq(A) /\ t[k + 1] \in A
          /\ SubSeq(t, 1, k + 1) = Append(SubSeq(t, 1, k), t[k + 1])
      BY <3>1, FirstOnes
    <3> QED BY <3>2
  <2>3. PICK j \in 1..Len(s) : j = q[k + 1] /\ Behind(p, u[j]) = u[i]
    BY <1>7, <1>10, <2>1, <2>2
  <2>4. Occurs(s, j, Spelling(c)) /\ q[(k + 1) + 1] = j + Len(Spelling(c))
    BY <1>3, <1>6, <2>1, <2>2, <2>3 DEF PlacesOf
  <2>5. c \notin {NUL, "bs"} /\ IsSeq(p) /\ "dq" \in Quotes
    BY <1>1, <2>1, <2>2 DEF Clean, IsSeq, Quotes
  <2>6. CASE c \in Escaped
    <3>1. PICK w : w = Spelling(c) /\ Len(w) = 2 /\ w[1] = "bs" /\ w[2] = c
      <4>1. Spelling(c) = <<"bs", c>>
        BY <2>6 DEF Spelling
      <4>2. Len(<<"bs", c>>) = 2 /\ <<"bs", c>>[1] = "bs" /\ <<"bs", c>>[2] = c
        BY TupleFits
      <4> QED BY <4>1, <4>2
    <3>2. s[j] = "bs" /\ s[j + 1] = c /\ q[(k + 1) + 1] = j + 2
      <4>1. 1 \in 1..Len(w) /\ 2 \in 1..Len(w) /\ j + 1 - 1 = j /\ j + 2 - 1 = j + 1
        BY <3>1
      <4> QED BY <2>4, <3>1, <4>1 DEF Occurs
    <3>3. c \in Escapable
      BY <2>6 DEF Escaped, Escapable
    <3>4. Behind(p, u[j]) = Behind(Append(p, c), u[j + 2])
      BY <1>8, <2>5, <3>2, <3>3, BehindIs
    <3> QED BY <2>1, <2>2, <2>3, <3>2, <3>4
  <2>7. CASE c \notin Escaped
    <3>1. PICK w : w = Spelling(c) /\ Len(w) = 1 /\ w[1] = c
      <4>1. Spelling(c) = <<c>>
        BY <2>7 DEF Spelling
      <4>2. Len(<<c>>) = 1 /\ <<c>>[1] = c
        BY TupleFits
      <4> QED BY <4>1, <4>2
    <3>2. s[j] = c /\ q[(k + 1) + 1] = j + 1
      <4>1. 1 \in 1..Len(w) /\ j + 1 - 1 = j
        BY <3>1
      <4> QED BY <2>4, <3>1, <4>1 DEF Occurs
    <3>3. s[j] \notin {"dq", "bs", NUL}
      BY <2>5, <2>7, <3>2 DEF Escaped
    <3>4. Behind(p, u[j]) = Behind(Append(p, c), u[j + 1])
      BY <1>8, <2>5, <3>2, <3>3, BehindIs
    <3> QED BY <2>1, <2>2, <2>3, <3>2, <3>4
  <2> QED BY <2>6, <2>7
<1>11. m \in S /\ P(m) = t
  <2>1. P(m) = t
    BY <1>1, FirstOnes
  <2> HIDE DEF S, P
  <2>2. m \in 0..m
    OBVIOUS
  <2> QED BY <1>9, <1>10, <2>1, <2>2, Induct
<1>12. PICK j \in 1..Len(s) : j = i + Len(x) /\ s[j] = "dq"
  BY <1>5
<1>13. Behind(t, u[j]) = Got(Value("string", t, << >>), j + 1)
  <2>1. IsSeq(t) /\ "dq" \in Quotes
    BY DEF IsSeq, Quotes
  <2> QED BY <1>8, <1>12, <2>1, BehindIs
<1> QED BY <1>6, <1>8, <1>11, <1>12, <1>13

-----------------------------------------------------------------------------
(* Values.                                                                 *)

(* The symbols of what is printed.                                         *)
Marks == {"null", "true", "dq", "bs", "sp", ",", ":"}
Letters ==
    Marks \cup {Opener(what) : what \in Whats} \cup {Close(what) : what \in Whats}
    \cup (UNION {ToSet(key) : key \in Keys}) \cup (UNION {ToSet(Of[v].text) : v \in Nodes})

LEMMA SeqOver ==
    ASSUME NEW A, NEW t, IsSeq(t), ToSet(t) \subseteq A
    PROVE  t \in Seq(A)
<1>1. PICK C : t \in Seq(C)
  BY DEF IsSeq
<1>2. \A i \in 1..Len(t) : t[i] \in A
  BY <1>1 DEF ToSet
<1>3. PICK n \in Nat : n = Len(t) /\ t = [i \in 1..n |-> t[i]]
  BY <1>1
<1>4. t \in [1..n -> A]
  BY <1>2, <1>3
<1> QED BY <1>4

LEMMA LettersFit ==
    /\ Marks \subseteq Letters
    /\ \A what \in Whats : Opener(what) \in Letters /\ Close(what) \in Letters
    /\ \A key \in Keys : key \in Seq(Letters) /\ \A i \in 1..Len(key) : key[i] # NUL
    /\ \A v \in Nodes : Of[v].text \in Seq(Letters)
<1>1. Marks \subseteq Letters
  BY DEF Letters
<1>2. \A what \in Whats : Opener(what) \in Letters /\ Close(what) \in Letters
  BY DEF Letters
<1>3. ASSUME NEW key \in Keys
      PROVE  key \in Seq(Letters) /\ \A i \in 1..Len(key) : key[i] # NUL
  <2>1. key \in Seq(ToSet(key)) /\ NUL \notin ToSet(key)
    BY TextsAssumption DEF CString
  <2>2. ToSet(key) \subseteq Letters
    BY DEF Letters
  <2>3. key \in Seq(Letters)
    BY <2>1, <2>2, SeqOver DEF IsSeq
  <2>4. \A i \in 1..Len(key) : key[i] \in ToSet(key)
    BY <2>1
  <2> QED BY <2>1, <2>3, <2>4
<1>4. ASSUME NEW v \in Nodes PROVE Of[v].text \in Seq(Letters)
  <2>1. ToSet(Of[v].text) \subseteq Letters
    BY DEF Letters
  <2>2. IsSeq(Of[v].text)
    <3>1. Spelt(Of[v])
      BY TextsAssumption
    <3>2. CASE CString(Of[v].text)
      BY <3>2 DEF CString, IsSeq
    <3>3. CASE Of[v].text \in Seq(NumberChars)
      BY <3>3 DEF IsSeq
    <3>4. CASE Of[v].text = <<"true">>
      <4>1. <<"true">> \in Seq({"true"})
        OBVIOUS
      <4> QED BY <3>4, <4>1 DEF IsSeq
    <3> QED BY <3>1, <3>2, <3>3, <3>4 DEF Spelt
  <2> QED BY <2>1, <2>2, SeqOver
<1> QED BY <1>1, <1>2, <1>3, <1>4

LEMMA OneFlat ==
    ASSUME NEW A, NEW x \in Seq(A)
    PROVE  <<x>> \in Seq(Seq(A)) /\ FlattenSeq(<<x>>) = x
<1>1. <<x>> = Append(<< >>, x) /\ << >> \in Seq(Seq(A)) /\ <<x>> \in Seq(Seq(A))
  OBVIOUS
<1>2. FlattenSeq(Append(<< >>, x)) = FlattenSeq(<< >>) \o x /\ FlattenSeq(<< >>) = << >>
  BY <1>1, FlatIs
<1>3. << >> \o x = x
  BY ConcatEmptySeq
<1> QED BY <1>1, <1>2, <1>3

LEMMA EscapeSeq ==
    ASSUME NEW A, "bs" \in A, NEW t \in Seq(A)
    PROVE  JsonEscapeStr(t) \in Seq(Seq(A)) /\ FlattenSeq(JsonEscapeStr(t)) \in Seq(A)
<1>1. PICK m \in Nat : m = Len(t)
  OBVIOUS
<1>2. \A n \in 1..m : t[n] \in A /\ Spelling(t[n]) \in Seq(A)
  BY <1>1, SpellingFits
<1>3. PICK l \in Seq(Seq(A)) : l = [n \in 1..m |-> Spelling(t[n])] /\ Len(l) = m
  <2>1. PICK B, l : B = Seq(A) /\ l = [n \in 1..m |-> Spelling(t[n])]
    OBVIOUS
  <2>2. l \in [1..m -> B]
    BY <1>2, <2>1
  <2>3. l \in Seq(B) /\ Len(l) = m
    BY <2>2
  <2> QED BY <2>1, <2>3
<1>4. JsonEscapeStr(t) \in Seq(Seq(A))
  BY <1>1, <1>3, EscapeFits
<1>5. << >> \in Seq(A)
  OBVIOUS
<1> QED BY <1>4, <1>5, FlatIs

LEMMA JoinFits ==
    ASSUME NEW A, NEW a \in Seq(A), NEW b \in Seq(A)
    PROVE  a \o b \in Seq(A) /\ << >> \o a = a /\ a \o << >> = a
OBVIOUS

QuotedIs(A, a, t, b) ==
    /\ Quoted(a, t, b) \in Seq(Seq(A)) /\ FlattenSeq(JsonEscapeStr(t)) \in Seq(A)
    /\ FlattenSeq(Quoted(a, t, b)) =
           ((a \o <<"dq">>) \o FlattenSeq(JsonEscapeStr(t))) \o (<<"dq">> \o b)

LEMMA QuotedFits ==
    ASSUME NEW A, "bs" \in A, "dq" \in A, NEW t \in Seq(A), NEW a \in Seq(A), NEW b \in Seq(A)
    PROVE  QuotedIs(A, a, t, b)
<1>10. PICK x : x = FlattenSeq(JsonEscapeStr(t))
  OBVIOUS
<1>1. PICK d \in Seq(A) : d = <<"dq">>
  <2>1. PICK c \in A : c = "dq"
    OBVIOUS
  <2>2. <<c>> \in Seq(A)
    OBVIOUS
  <2> QED BY <2>1, <2>2
<1>2. PICK e \in Seq(A), f \in Seq(A) : e = a \o d /\ f = d \o b
  BY JoinFits
<1>3. PICK l \in Seq(Seq(A)) : l = JsonEscapeStr(t) /\ x = FlattenSeq(l) /\ x \in Seq(A)
  BY <1>10, EscapeSeq
<1>4. PICK g \in Seq(Seq(A)), h \in Seq(Seq(A)) :
          g = <<e>> /\ FlattenSeq(g) = e /\ h = <<f>> /\ FlattenSeq(h) = f
  <2>1. <<e>> \in Seq(Seq(A)) /\ FlattenSeq(<<e>>) = e /\ <<f>> \in Seq(Seq(A)) /\ FlattenSeq(<<f>>) = f
    BY OneFlat
  <2> QED BY <2>1
<1>5. PICK k \in Seq(Seq(A)) : k = g \o l
  <2>1. PICK B : B = Seq(A) /\ g \in Seq(B) /\ l \in Seq(B)
    BY <1>4
  <2>2. g \o l \in Seq(B)
    BY <2>1
  <2> QED BY <2>1, <2>2
<1>6. FlattenSeq(k) = e \o x
  <2>1. FlattenSeq(g \o l) = FlattenSeq(g) \o FlattenSeq(l)
    BY FlatJoin
  <2> QED BY <1>3, <1>4, <1>5, <2>1
<1>7. FlattenSeq(k \o h) = (e \o x) \o f
  <2>1. FlattenSeq(k \o h) = FlattenSeq(k) \o FlattenSeq(h)
    BY FlatJoin
  <2> QED BY <1>4, <1>6, <2>1
<1>8. k \o h \in Seq(Seq(A))
  <2>1. PICK B : B = Seq(A) /\ h \in Seq(B) /\ k \in Seq(B)
    BY <1>4
  <2>2. k \o h \in Seq(B)
    BY <2>1
  <2> QED BY <2>1, <2>2
<1>9. Quoted(a, t, b) = k \o h
  BY <1>1, <1>2, <1>3, <1>4, <1>5 DEF Quoted
<1> QED BY <1>1, <1>2, <1>3, <1>7, <1>8, <1>9, <1>10 DEF QuotedIs

(* What a value is printed as.                                             *)
Shown(v) == FlattenSeq(ValueToJsonString(v))

LEMMA ShownFits ==
    ASSUME NEW v \in Nodes \cup {NULL}
    PROVE  /\ ValueToJsonString(v) \in Seq(Seq(Letters)) /\ Shown(v) \in Seq(Letters)
           /\ v = NULL => Shown(v) = <<"null">>
           /\ v # NULL /\ Of[v].kind # "string" => Shown(v) = Of[v].text
           /\ v # NULL /\ Of[v].kind = "string" =>
                 /\ FlattenSeq(JsonEscapeStr(Of[v].text)) \in Seq(Letters)
                 /\ Shown(v) = (<<"dq">> \o FlattenSeq(JsonEscapeStr(Of[v].text))) \o <<"dq">>
<1>1. PICK A : A = Letters /\ Marks \subseteq A
  BY LettersFit
<1>2. CASE v = NULL
  <2>1. PICK c \in A : c = "null"
    BY <1>1 DEF Marks
  <2>2. PICK x \in Seq(A) : x = <<c>>
    <3>1. <<c>> \in Seq(A)
      OBVIOUS
    <3> QED BY <3>1
  <2>3. <<x>> \in Seq(Seq(A)) /\ FlattenSeq(<<x>>) = x
    BY OneFlat
  <2>4. ValueToJsonString(v) = <<x>> /\ x = <<"null">>
    BY <1>2, <2>1, <2>2 DEF ValueToJsonString
  <2> QED BY <1>1, <1>2, <2>3, <2>4 DEF Shown
<1>3. CASE v # NULL /\ Of[v].kind # "string"
  <2>1. PICK x \in Seq(A) : x = Of[v].text
    BY <1>1, <1>3, LettersFit
  <2>2. <<x>> \in Seq(Seq(A)) /\ FlattenSeq(<<x>>) = x
    BY OneFlat
  <2>3. ValueToJsonString(v) = <<x>>
    BY <1>3, <2>1 DEF ValueToJsonString
  <2> QED BY <1>1, <1>3, <2>1, <2>2, <2>3 DEF Shown
<1>4. CASE v # NULL /\ Of[v].kind = "string"
  <2>1. PICK t \in Seq(A) : t = Of[v].text
    BY <1>1, <1>4, LettersFit
  <2>2. "bs" \in A /\ "dq" \in A
    BY <1>1 DEF Marks
  <2>3. PICK x : x = FlattenSeq(JsonEscapeStr(t))
    OBVIOUS
  <2>9. PICK n \in Seq(A) : n = << >>
    <3>1. << >> \in Seq(A)
      OBVIOUS
    <3> QED BY <3>1
  <2>4. /\ Quoted(n, t, n) \in Seq(Seq(A)) /\ x \in Seq(A)
        /\ FlattenSeq(Quoted(n, t, n)) = ((n \o <<"dq">>) \o x) \o (<<"dq">> \o n)
    <3>1. QuotedIs(A, n, t, n)
      BY <2>2, QuotedFits
    <3> QED BY <2>3, <3>1 DEF QuotedIs
  <2>5. n \o <<"dq">> = <<"dq">> /\ <<"dq">> \o n = <<"dq">>
    <3>1. PICK c \in A : c = "dq"
      BY <2>2
    <3>2. <<c>> \in Seq(A)
      OBVIOUS
    <3>3. << >> \o <<c>> = <<c>> /\ <<c>> \o << >> = <<c>>
      BY <3>2, JoinFits
    <3> QED BY <2>9, <3>1, <3>3
  <2>6. PICK y : y = ((n \o <<"dq">>) \o x) \o (<<"dq">> \o n) /\ y = (<<"dq">> \o x) \o <<"dq">>
    BY <2>5
  <2>7. PICK l \in Seq(Seq(A)) : l = ValueToJsonString(v) /\ FlattenSeq(l) = y
    BY <1>4, <2>1, <2>4, <2>6, <2>9 DEF ValueToJsonString
  <2>8. y \in Seq(A)
    BY <2>7, <2>9, FlatIs
  <2> QED BY <1>1, <1>4, <2>1, <2>3, <2>4, <2>6, <2>7, <2>8 DEF Shown
<1> QED BY <1>2, <1>3, <1>4

(* A value that is printed is read back.                                   *)
Firsts == {"null", "true", "dq"} \cup NumberChars

LEMMA FirstsFit ==
    ASSUME NEW c \in Firsts
    PROVE  c \notin White /\ \A what \in Whats : c # Close(what)
<1>1. c \notin White
  BY DEF Firsts, White, NumberChars, Digits
<1>2. c # Close("array")
  BY DEF Firsts, NumberChars, Digits, Close
<1>3. c # Close("object")
  BY DEF Firsts, NumberChars, Digits, Close
<1> QED BY <1>1, <1>2, <1>3 DEF Whats

LEMMA CoreNull ==
    ASSUME NEW s, NEW h, NEW i, s[i] = "null"
    PROVE  Core(s, h, i) = Got(NullValue, i + 1)
BY CoreArms
LEMMA CoreTrue ==
    ASSUME NEW s, NEW h, NEW i, s[i] = "true"
    PROVE  Core(s, h, i) = Got(Value("boolean", <<"true">>, << >>), i + 1)
BY CoreArms
LEMMA CoreQuote ==
    ASSUME NEW s, NEW h, NEW i, s[i] = "dq"
    PROVE  Core(s, h, i) = Text(s, "dq")[i + 1]
<1>1. s[i] \in Quotes
  BY DEF Quotes
<1>2. s[i] \in Quotes => Core(s, h, i) = Text(s, s[i])[i + 1]
  BY CoreArms
<1> QED BY <1>1, <1>2
LEMMA CoreNumber ==
    ASSUME NEW s, NEW h, NEW i, s[i] \in NumberChars
    PROVE  Core(s, h, i) = Numeral(SubSeq(s, i, Run(s, i) - 1), Run(s, i))
BY CoreArms

LEMMA NumberRead ==
    ASSUME NEW s, Source(s), NEW t \in Seq(NumberChars), t # << >>, IsNumber(t), NEW p,
           Occurs(s, p, t), s[p + Len(t)] \notin NumberChars
    PROVE  /\ s[p] \in NumberChars
           /\ Numeral(SubSeq(s, p, Run(s, p) - 1), Run(s, p)) =
                  Got(Value("number", t, << >>), p + Len(t))
<1>1. PICK z \in Nat : z = Len(s) /\ \A i \in 1..z : s[i] = s[i]
  BY SourceFits
<1>2. PICK n \in Nat \ {0} : n = Len(t)
  BY EmptySeq
<1>4. p \in 1..z /\ p + n \in 1..z /\ \A k \in 1..n : s[p + k - 1] = t[k] /\ t[k] \in NumberChars
  BY <1>1, <1>2 DEF Occurs
<1>5. \A k \in p..(p + n) - 1 : s[k] \in NumberChars
  <2>1. \A k \in p..(p + n) - 1 : (k - p) + 1 \in 1..n /\ p + ((k - p) + 1) - 1 = k
    BY <1>4
  <2>2. \A k \in p..(p + n) - 1 : s[p + ((k - p) + 1) - 1] \in NumberChars
    BY <1>4, <2>1
  <2> QED BY <2>1, <2>2
<1>6. Run(s, p) = p + n
  <2>1. p + n \in p..z /\ s[p + n] \notin NumberChars
    BY <1>2, <1>4
  <2>2. Past(s, p, NumberChars) = p + n
    BY <1>1, <1>4, <1>5, <2>1, PastIs
  <2> QED BY <2>2 DEF Run
<1>7. SubSeq(s, p, (p + n) - 1) = t
  <2>1. PICK y \in Seq(NumberChars) : y = SubSeq(s, p, (p + n) - 1) /\ Len(y) = n /\ \A k \in 1..n : y[k] = s[p + k - 1]
    <3>1. PICK r \in Int : r = (p + n) - 1
      BY <1>4
    <3>2. p \in Int /\ p =< r /\ (r - p) + 1 = n
      BY <1>4, <3>1
    <3>3. \A k \in p..r : s[k] \in NumberChars
      BY <1>5, <3>1
    <3>4. /\ SubSeq(s, p, r) \in Seq(NumberChars) /\ Len(SubSeq(s, p, r)) = n
          /\ \A k \in 1..n : SubSeq(s, p, r)[k] = s[p + k - 1]
      BY <3>2, <3>3, SubSeqProperties
    <3> QED BY <3>1, <3>4
  <2>2. \A k \in 1..n : y[k] = t[k]
    BY <1>4, <2>1
  <2> QED BY <1>2, <2>1, <2>2, SeqEqual
<1>8. s[p] \in NumberChars
  <2>1. p \in p..(p + n) - 1
    BY <1>4
  <2> QED BY <1>5, <2>1
<1> QED BY <1>2, <1>6, <1>7, <1>8 DEF Numeral

PlainValue(v) == v # NULL => "bs" \notin ToSet(Of[v].text)

(* What the place after a printed value is to be read as.                  *)
ReadAt(s, h, p, v) ==
    /\ p \in 1..Len(s) /\ p + Len(Shown(v)) \in 1..Len(s) /\ s[p] \in Firsts
    /\ Core(s, h, p) = Got(TreeOf(v), p + Len(Shown(v))) /\ TreeOf(v).kind # "error"

LEMMA CoreRead ==
    ASSUME NEW s, Source(s), NEW h, NEW v \in Nodes \cup {NULL}, PlainValue(v), NEW p,
           Occurs(s, p, Shown(v)), s[p + Len(Shown(v))] \notin NumberChars
    PROVE  ReadAt(s, h, p, v)
<1>1. PICK x \in Seq(Letters) : x = Shown(v)
  BY ShownFits
<1>2. p \in 1..Len(s) /\ p + Len(x) \in 1..Len(s) /\ \A k \in 1..Len(x) : s[p + k - 1] = x[k]
  BY <1>1 DEF Occurs
<1>3. ASSUME NEW c, x = <<c>> PROVE s[p] = c /\ Len(x) = 1
  <2>1. Len(x) = 1 /\ x[1] = c
    BY <1>3, TupleFits
  <2>2. 1 \in 1..Len(x) /\ p + 1 - 1 = p
    BY <1>2, <2>1
  <2> QED BY <1>2, <2>1, <2>2
<1>4. CASE v = NULL
  <2>1. x = <<"null">>
    BY <1>1, <1>4, ShownFits
  <2>2. s[p] = "null" /\ Len(x) = 1
    BY <1>3, <2>1
  <2>3. Core(s, h, p) = Got(NullValue, p + 1)
    BY <2>2, CoreNull
  <2>4. TreeOf(v) = NullValue /\ NullValue.kind # "error"
    BY <1>4, ValueFits DEF TreeOf, NullValue
  <2>5. s[p] \in Firsts
    BY <2>2 DEF Firsts
  <2> QED BY <1>1, <1>2, <2>2, <2>3, <2>4, <2>5 DEF ReadAt
<1>5. ASSUME v # NULL PROVE v \in Nodes /\ Spelt(Of[v])
  BY <1>5, TextsAssumption
<1>6. PICK t : v # NULL => t = Of[v].text
  OBVIOUS
<1>7. CASE v # NULL /\ Of[v].kind = "string"
  <2>1. PICK e \in Seq(Letters), q \in Seq(Letters), d \in Letters :
            e = FlattenSeq(JsonEscapeStr(t)) /\ d = "dq" /\ q = <<d>> /\ Len(q) = 1 /\ q[1] = d
    <3>1. FlattenSeq(JsonEscapeStr(t)) \in Seq(Letters)
      BY <1>6, <1>7, ShownFits
    <3>2. PICK d \in Letters : d = "dq"
      BY LettersFit DEF Marks
    <3>3. <<d>> \in Seq(Letters) /\ Len(<<d>>) = 1 /\ <<d>>[1] = d
      BY <3>2
    <3> QED BY <3>1, <3>2, <3>3
  <2>2. x = (q \o e) \o <<d>>
    <3>1. Shown(v) = (<<"dq">> \o FlattenSeq(JsonEscapeStr(Of[v].text))) \o <<"dq">>
      BY <1>7, ShownFits
    <3> QED BY <1>1, <1>6, <1>7, <2>1, <3>1
  <2>3. PICK y \in Seq(Letters) : y = q \o e
    BY JoinFits
  <2>4. IsSeq(s) /\ Occurs(s, p, y \o <<d>>)
    BY <1>1, <2>2, <2>3 DEF Source
  <2>5. /\ Occurs(s, p, y) /\ p + Len(y) \in 1..Len(s) /\ s[p + Len(y)] = d
        /\ p + Len(y \o <<d>>) = (p + Len(y)) + 1
    BY <2>4, OccursLast
  <2>6. Occurs(s, p, q \o e)
    BY <2>3, <2>5
  <2>7. /\ Occurs(s, p, q) /\ Occurs(s, p + Len(q), e)
        /\ p + Len(q \o e) = (p + Len(q)) + Len(e)
    BY <2>4, <2>6, OccursJoin
  <2>8. s[p] = "dq" /\ Occurs(s, p + 1, e) /\ p + Len(y) = (p + 1) + Len(e)
    <3>1. 1 \in 1..Len(q) /\ p + 1 - 1 = p
      BY <1>2, <2>1
    <3> QED BY <2>1, <2>3, <2>7, <3>1 DEF Occurs
  <2>9. t \in Seq(Letters) /\ Clean(t)
    <3>1. t \in Seq(Letters)
      BY <1>5, <1>6, <1>7, LettersFit
    <3>2. CString(t)
      BY <1>5, <1>6, <1>7 DEF Spelt
    <3>3. "bs" \notin ToSet(t)
      BY <1>6, <1>7 DEF PlainValue
    <3>4. \A i \in 1..Len(t) : t[i] \in ToSet(t)
      BY <3>1 DEF ToSet
    <3> QED BY <3>1, <3>2, <3>3, <3>4 DEF CString, Clean
  <2>10. Text(s, "dq")[p + 1] = Got(Value("string", t, << >>), ((p + 1) + Len(e)) + 1)
    <3>1. {"bs", "dq"} \subseteq Letters
      BY LettersFit DEF Marks
    <3>2. s[(p + 1) + Len(e)] = "dq"
      BY <2>1, <2>5, <2>8
    <3> QED BY <2>1, <2>8, <2>9, <3>1, <3>2, TextRead
  <2>11. Core(s, h, p) = Text(s, "dq")[p + 1]
    BY <2>8, CoreQuote
  <2>12. TreeOf(v) = Value("string", t, << >>) /\ TreeOf(v).kind # "error"
    BY <1>6, <1>7, ValueFits DEF TreeOf
  <2>13. s[p] \in Firsts
    BY <2>8 DEF Firsts
  <2> QED BY <1>1, <1>2, <2>2, <2>3, <2>5, <2>8, <2>10, <2>11, <2>12, <2>13 DEF ReadAt
<1>8. CASE v # NULL /\ Of[v].kind # "string"
  <2>1. x = t
    BY <1>1, <1>6, <1>8, ShownFits
  <2>2. CASE Of[v].kind = "boolean"
    <3>1. x = <<"true">>
      BY <1>5, <1>6, <1>8, <2>1, <2>2 DEF Spelt
    <3>2. s[p] = "true" /\ Len(x) = 1
      BY <1>3, <3>1
    <3>3. Core(s, h, p) = Got(Value("boolean", <<"true">>, << >>), p + 1)
      BY <3>2, CoreTrue
    <3>4. TreeOf(v) = Value("boolean", <<"true">>, << >>) /\ TreeOf(v).kind # "error"
      BY <1>6, <1>8, <2>1, <2>2, <3>1, ValueFits DEF TreeOf
    <3>5. s[p] \in Firsts
      BY <3>2 DEF Firsts
    <3> QED BY <1>1, <1>2, <3>2, <3>3, <3>4, <3>5 DEF ReadAt
  <2>3. CASE Of[v].kind = "number"
    <3>1. t # << >> /\ t \in Seq(NumberChars) /\ IsNumber(t)
      BY <1>5, <1>6, <1>8, <2>3 DEF Spelt
    <3>2. Occurs(s, p, t) /\ s[p + Len(t)] \notin NumberChars
      BY <1>1, <2>1
    <3>3. /\ s[p] \in NumberChars
          /\ Numeral(SubSeq(s, p, Run(s, p) - 1), Run(s, p)) =
                 Got(Value("number", t, << >>), p + Len(t))
      BY <3>1, <3>2, NumberRead
    <3>4. Core(s, h, p) = Got(Value("number", t, << >>), p + Len(x))
      BY <2>1, <3>3, CoreNumber
    <3>5. TreeOf(v) = Value("number", t, << >>) /\ TreeOf(v).kind # "error"
      BY <1>6, <1>8, <2>3, ValueFits DEF TreeOf
    <3>6. s[p] \in Firsts
      BY <3>3 DEF Firsts
    <3> QED BY <1>1, <1>2, <3>4, <3>5, <3>6 DEF ReadAt
  <2>4. Of[v].kind \in {"boolean", "number"}
    BY <1>5, <1>8 DEF Spelt
  <2> QED BY <2>2, <2>3, <2>4
<1> QED BY <1>4, <1>7, <1>8

-----------------------------------------------------------------------------
(* Items.                                                                  *)

FirstAt(s, i, c, b) ==
    /\ i \in 1..Len(s) /\ s[i] = c /\ Occurs(s, i + 1, b)
    /\ i + Len(<<c>> \o b) = (i + 1) + Len(b)

LEMMA OccursFirst ==
    ASSUME NEW A, NEW s, IsSeq(s), NEW i, NEW c \in A, NEW b \in Seq(A), Occurs(s, i, <<c>> \o b)
    PROVE  FirstAt(s, i, c, b)
<1>1. PICK a \in Seq(A) : a = <<c>> /\ Len(a) = 1 /\ a[1] = c
  <2>1. <<c>> \in Seq(A) /\ Len(<<c>>) = 1 /\ <<c>>[1] = c
    OBVIOUS
  <2> QED BY <2>1
<1>2. Occurs(s, i, a \o b)
  BY <1>1
<1>3. /\ Occurs(s, i, a) /\ Occurs(s, i + Len(a), b)
      /\ i + Len(a \o b) = (i + Len(a)) + Len(b)
  BY <1>2, OccursJoin
<1>4. i \in 1..Len(s) /\ s[i + 1 - 1] = c
  <2>1. 1 \in 1..Len(a)
    BY <1>1
  <2> QED BY <1>1, <1>3, <2>1 DEF Occurs
<1>5. i + 1 - 1 = i
  <2>1. i \in Int
    BY <1>4
  <2> QED BY <2>1
<1> QED BY <1>1, <1>3, <1>4, <1>5 DEF FirstAt

(* The text of an item, without the comma in front of it and with it.      *)
Colon(e) == <<"dq">> \o (<<":">> \o (<<"sp">> \o Shown(e.val)))
Body(what, e) ==
    IF what = "array" THEN <<"sp">> \o Shown(e.val)
    ELSE <<"sp">> \o (<<"dq">> \o (FlattenSeq(JsonEscapeStr(e.key)) \o Colon(e)))
ItemText(what, i, e) == IF i > 1 THEN <<",">> \o Body(what, e) ELSE Body(what, e)

(* An item that can be printed, and one that can be read back.             *)
Printable(what, e) ==
    e.val \in Nodes \cup {NULL} /\ IF what = "array" THEN e.key = << >> ELSE e.key \in Seq(Letters)
Proper(what, e) == Printable(what, e) /\ PlainValue(e.val) /\ (what = "object" => Clean(e.key))

LEMMA InFront ==
    ASSUME NEW A, NEW c \in A, NEW b \in Seq(A)
    PROVE  <<c>> \o b \in Seq(A)
OBVIOUS

LEMMA MarkIn ==
    ASSUME NEW c \in Marks
    PROVE  c \in Letters
BY LettersFit

LEMMA ColonFits ==
    ASSUME NEW e, e.val \in Nodes \cup {NULL}
    PROVE  /\ Shown(e.val) \in Seq(Letters) /\ <<"sp">> \o Shown(e.val) \in Seq(Letters)
           /\ <<":">> \o (<<"sp">> \o Shown(e.val)) \in Seq(Letters)
           /\ Colon(e) \in Seq(Letters)
<1>1. Shown(e.val) \in Seq(Letters)
  BY ShownFits
<1>2. "sp" \in Letters /\ ":" \in Letters /\ "dq" \in Letters
  BY MarkIn DEF Marks
<1>3. <<"sp">> \o Shown(e.val) \in Seq(Letters)
  BY <1>1, <1>2, InFront
<1>4. <<":">> \o (<<"sp">> \o Shown(e.val)) \in Seq(Letters)
  BY <1>2, <1>3, InFront
<1>5. Colon(e) \in Seq(Letters)
  BY <1>2, <1>4, InFront DEF Colon
<1> QED BY <1>1, <1>3, <1>4, <1>5

LEMMA BodyFits ==
    ASSUME NEW what \in Whats, NEW e, Printable(what, e), NEW i
    PROVE  Body(what, e) \in Seq(Letters) /\ ItemText(what, i, e) \in Seq(Letters)
<1>1. "sp" \in Letters /\ "," \in Letters /\ "dq" \in Letters /\ "bs" \in Letters
  BY MarkIn DEF Marks
<1>2. e.val \in Nodes \cup {NULL}
  BY DEF Proper, Printable
<1>3. Body(what, e) \in Seq(Letters)
  <2>1. CASE what = "array"
    BY <1>2, <2>1, ColonFits DEF Body
  <2>2. CASE what # "array"
    <3>1. e.key \in Seq(Letters)
      BY <2>2 DEF Printable
    <3>2. PICK x \in Seq(Letters) : x = FlattenSeq(JsonEscapeStr(e.key))
      BY <1>1, <3>1, EscapeSeq
    <3>3. PICK y \in Seq(Letters) : y = Colon(e)
      BY <1>2, ColonFits
    <3>4. x \o y \in Seq(Letters)
      BY JoinFits
    <3>5. <<"dq">> \o (x \o y) \in Seq(Letters)
      BY <1>1, <3>4, InFront
    <3>6. <<"sp">> \o (<<"dq">> \o (x \o y)) \in Seq(Letters)
      BY <1>1, <3>5, InFront
    <3> QED BY <2>2, <3>2, <3>3, <3>6 DEF Body
  <2> QED BY <2>1, <2>2
<1>4. <<",">> \o Body(what, e) \in Seq(Letters)
  BY <1>1, <1>3, InFront
<1> QED BY <1>3, <1>4 DEF ItemText

LEMMA AfterSkip ==
    ASSUME NEW s, Source(s), NEW h, NEW what, NEW i \in 1..Len(s)
    PROVE  AfterItem(s, h, what, Skip(s, i)) = AfterItem(s, h, what, i)
<1>1. Skip(s, Skip(s, i)) = Skip(s, i)
  BY SkipFits
<1> QED BY <1>1 DEF AfterItem

LEMMA ValueBehind ==
    ASSUME NEW s, Source(s), NEW h, NEW v, NEW i, NEW j, Skip(s, i) = j, ReadAt(s, h, j, v),
           NEW what, NEW key
    PROVE  WithItem(s, h, what, key, ValueAt(s, h, i)) =
               Item(Entry(key, TreeOf(v)), AfterItem(s, h, what, j + Len(Shown(v))))
<1> DEFINE y == TreeOf(v)
<1>1. PICK n \in 1..Len(s) : /\ n = j + Len(Shown(v)) /\ y.kind # "error"
                              /\ Core(s, h, j) = Got(y, n)
  BY DEF ReadAt
<1> HIDE DEF y
<1>2. ValueAt(s, h, i) = Trimmed(s, Got(y, n))
  BY <1>1, ValueIs
<1>3. Trimmed(s, Got(y, n)) = Got(y, Skip(s, n))
  BY <1>1, TrimmedGot
<1>4. PICK g : g = Got(y, Skip(s, n)) /\ ValueAt(s, h, i) = g
  BY <1>2, <1>3
<1>5. ~Failed(g) /\ g.val = y /\ g.next = Skip(s, n)
  BY <1>1, <1>4, GotFits
<1>6. WithItem(s, h, what, key, g) = Item(Entry(key, y), AfterItem(s, h, what, Skip(s, n)))
  BY <1>5 DEF WithItem
<1>7. AfterItem(s, h, what, Skip(s, n)) = AfterItem(s, h, what, n)
  BY AfterSkip
<1> QED BY <1>1, <1>4, <1>6, <1>7 DEF y

(* A space and what is not one.                                            *)
LEMMA SkipsSpace ==
    ASSUME NEW s, Source(s), NEW i \in 1..Len(s), s[i] = "sp", i + 1 \in 1..Len(s), s[i + 1] \notin White
    PROVE  Skip(s, i) = i + 1 /\ Skip(s, i + 1) = i + 1
<1>1. s[i] \in White
  BY DEF White
<1> QED BY <1>1, SkipFits

(* What is left of a container at an item.                                 *)
ItemReads(s, h, what, e, b, c) ==
    /\ b \in 1..Len(s) /\ c \in 1..Len(s) /\ s[b] = "sp"
    /\ PartAt(s, h, what, b) = Item(Entry(e.key, TreeOf(e.val)), AfterItem(s, h, what, c))

LEMMA ElementRead ==
    ASSUME NEW s, Source(s), NEW h, NEW e, Proper("array", e), NEW b,
           Occurs(s, b, Body("array", e)), NEW c, c = b + Len(Body("array", e)), s[c] \notin NumberChars
    PROVE  ItemReads(s, h, "array", e, b, c)
<1>1. PICK v \in Nodes \cup {NULL} : v = e.val /\ PlainValue(v) /\ e.key = << >>
  BY DEF Proper, Printable
<1>2. PICK x \in Seq(Letters) : x = Shown(v)
  BY <1>1, ShownFits
<1>3. PICK d \in Letters : d = "sp"
  BY MarkIn DEF Marks
<1>4. IsSeq(s) /\ Occurs(s, b, <<d>> \o x) /\ c = b + Len(<<d>> \o x)
  BY <1>1, <1>2, <1>3 DEF Source, Body
<1>5. /\ b \in 1..Len(s) /\ s[b] = d /\ Occurs(s, b + 1, x)
      /\ b + Len(<<d>> \o x) = (b + 1) + Len(x)
  <2>1. FirstAt(s, b, d, x)
    BY <1>4, OccursFirst
  <2> QED BY <2>1 DEF FirstAt
<1>6. ReadAt(s, h, b + 1, v)
  <2>1. Occurs(s, b + 1, Shown(v)) /\ s[(b + 1) + Len(Shown(v))] \notin NumberChars
    BY <1>2, <1>4, <1>5
  <2> QED BY <1>1, <2>1, CoreRead
<1>7. /\ b + 1 \in 1..Len(s) /\ c \in 1..Len(s)
      /\ s[b + 1] \notin White /\ s[b + 1] # Close("array")
  <2>1. b + 1 \in 1..Len(s) /\ c \in 1..Len(s) /\ s[b + 1] \in Firsts
    BY <1>2, <1>4, <1>5, <1>6 DEF ReadAt
  <2> QED BY <2>1, FirstsFit DEF Whats
<1>8. Skip(s, b) = b + 1 /\ Skip(s, b + 1) = b + 1
  BY <1>3, <1>5, <1>7, SkipsSpace
<1>9. PartAt(s, h, "array", b) = WithItem(s, h, "array", << >>, ValueAt(s, h, b + 1))
  BY <1>7, <1>8 DEF PartAt
<1>10. WithItem(s, h, "array", << >>, ValueAt(s, h, b + 1)) =
           Item(Entry(<< >>, TreeOf(v)), AfterItem(s, h, "array", (b + 1) + Len(Shown(v))))
  BY <1>6, <1>8, ValueBehind
<1> QED BY <1>1, <1>2, <1>3, <1>4, <1>5, <1>7, <1>9, <1>10 DEF ItemReads

LEMMA FieldRead ==
    ASSUME NEW s, Source(s), NEW h, NEW e, Proper("object", e), NEW b,
           Occurs(s, b, Body("object", e)), NEW c, c = b + Len(Body("object", e)), s[c] \notin NumberChars
    PROVE  ItemReads(s, h, "object", e, b, c)
<1>1. PICK v \in Nodes \cup {NULL}, key \in Seq(Letters) :
          v = e.val /\ PlainValue(v) /\ key = e.key /\ Clean(key)
  BY DEF Proper, Printable
<1>2. PICK x \in Seq(Letters) : x = Shown(v)
  BY <1>1, ShownFits
<1>3. PICK sp \in Letters, dq \in Letters, co \in Letters : sp = "sp" /\ dq = "dq" /\ co = ":"
  BY MarkIn DEF Marks
<1>4. "bs" \in Letters /\ {"bs", "dq"} \subseteq Letters
  BY LettersFit DEF Marks
<1>5. PICK y \in Seq(Letters) : y = FlattenSeq(JsonEscapeStr(key))
  BY <1>4, EscapeSeq
<1>6. PICK x1 \in Seq(Letters), x2 \in Seq(Letters), x3 \in Seq(Letters) :
          x1 = <<sp>> \o x /\ x2 = <<co>> \o x1 /\ x3 = <<dq>> \o x2
  <2>1. PICK x1 \in Seq(Letters) : x1 = <<sp>> \o x
    BY InFront
  <2>2. PICK x2 \in Seq(Letters) : x2 = <<co>> \o x1
    BY InFront
  <2>3. PICK x3 \in Seq(Letters) : x3 = <<dq>> \o x2
    BY InFront
  <2> QED BY <2>1, <2>2, <2>3
<1>7. PICK x4 \in Seq(Letters), x5 \in Seq(Letters), x6 \in Seq(Letters) :
          x4 = y \o x3 /\ x5 = <<dq>> \o x4 /\ x6 = <<sp>> \o x5
  <2>1. PICK x4 \in Seq(Letters) : x4 = y \o x3
    BY JoinFits
  <2>2. PICK x5 \in Seq(Letters) : x5 = <<dq>> \o x4
    BY InFront
  <2>3. PICK x6 \in Seq(Letters) : x6 = <<sp>> \o x5
    BY InFront
  <2> QED BY <2>1, <2>2, <2>3
<1>8. Body("object", e) = x6
  BY <1>1, <1>2, <1>3, <1>5, <1>6, <1>7 DEF Body, Colon
<1>9. IsSeq(s) /\ Occurs(s, b, <<sp>> \o x5)
  BY <1>7, <1>8 DEF Source
<1>10. b \in 1..Len(s) /\ s[b] = sp /\ Occurs(s, b + 1, <<dq>> \o x4) /\ c = (b + 1) + Len(x5)
  <2>1. /\ b \in 1..Len(s) /\ s[b] = sp /\ Occurs(s, b + 1, x5)
        /\ b + Len(<<sp>> \o x5) = (b + 1) + Len(x5)
    <3>1. FirstAt(s, b, sp, x5)
      BY <1>9, OccursFirst
    <3> QED BY <3>1 DEF FirstAt
  <2> QED BY <1>7, <1>8, <2>1
<1>11. /\ b + 1 \in 1..Len(s) /\ s[b + 1] = dq /\ Occurs(s, (b + 1) + 1, y \o x3)
       /\ c = ((b + 1) + 1) + Len(x4)
  <2>1. /\ b + 1 \in 1..Len(s) /\ s[b + 1] = dq /\ Occurs(s, (b + 1) + 1, x4)
        /\ (b + 1) + Len(<<dq>> \o x4) = ((b + 1) + 1) + Len(x4)
    <3>1. FirstAt(s, b + 1, dq, x4)
      BY <1>9, <1>10, OccursFirst
    <3> QED BY <3>1 DEF FirstAt
  <2> QED BY <1>7, <1>10, <2>1
<1>12. PICK k : k = ((b + 1) + 1) + Len(y)
  OBVIOUS
<1>13. Occurs(s, (b + 1) + 1, y) /\ Occurs(s, k, <<dq>> \o x2) /\ c = k + Len(x3)
  <2>1. /\ Occurs(s, (b + 1) + 1, y) /\ Occurs(s, ((b + 1) + 1) + Len(y), x3)
        /\ ((b + 1) + 1) + Len(y \o x3) = (((b + 1) + 1) + Len(y)) + Len(x3)
    BY <1>9, <1>11, OccursJoin
  <2> QED BY <1>6, <1>7, <1>11, <1>12, <2>1
<1>14. k \in 1..Len(s) /\ s[k] = dq /\ Occurs(s, k + 1, <<co>> \o x1) /\ c = (k + 1) + Len(x2)
  <2>1. /\ k \in 1..Len(s) /\ s[k] = dq /\ Occurs(s, k + 1, x2)
        /\ k + Len(<<dq>> \o x2) = (k + 1) + Len(x2)
    <3>1. FirstAt(s, k, dq, x2)
      BY <1>9, <1>13, OccursFirst
    <3> QED BY <3>1 DEF FirstAt
  <2> QED BY <1>6, <1>13, <2>1
<1>15. /\ k + 1 \in 1..Len(s) /\ s[k + 1] = co /\ Occurs(s, (k + 1) + 1, <<sp>> \o x)
       /\ c = ((k + 1) + 1) + Len(x1)
  <2>1. /\ k + 1 \in 1..Len(s) /\ s[k + 1] = co /\ Occurs(s, (k + 1) + 1, x1)
        /\ (k + 1) + Len(<<co>> \o x1) = ((k + 1) + 1) + Len(x1)
    <3>1. FirstAt(s, k + 1, co, x1)
      BY <1>9, <1>14, OccursFirst
    <3> QED BY <3>1 DEF FirstAt
  <2> QED BY <1>6, <1>14, <2>1
<1>16. PICK j : j = (k + 1) + 1
  OBVIOUS
<1>17. j \in 1..Len(s) /\ s[j] = sp /\ Occurs(s, j + 1, x) /\ c = (j + 1) + Len(x)
  <2>1. Occurs(s, j, <<sp>> \o x)
    BY <1>15, <1>16
  <2>2. /\ j \in 1..Len(s) /\ s[j] = sp /\ Occurs(s, j + 1, x)
        /\ j + Len(<<sp>> \o x) = (j + 1) + Len(x)
    <3>1. FirstAt(s, j, sp, x)
      BY <1>9, <2>1, OccursFirst
    <3> QED BY <3>1 DEF FirstAt
  <2> QED BY <1>6, <1>15, <1>16, <2>2
<1>18. ReadAt(s, h, j + 1, v)
  <2>1. Occurs(s, j + 1, Shown(v)) /\ s[(j + 1) + Len(Shown(v))] \notin NumberChars
    BY <1>2, <1>17
  <2> QED BY <1>1, <2>1, CoreRead
<1>19. Skip(s, j) = j + 1 /\ c \in 1..Len(s)
  <2>1. j + 1 \in 1..Len(s) /\ c \in 1..Len(s) /\ s[j + 1] \in Firsts
    BY <1>2, <1>17, <1>18 DEF ReadAt
  <2>2. s[j + 1] \notin White
    BY <2>1, FirstsFit
  <2> QED BY <1>3, <1>17, <2>1, <2>2, SkipsSpace
<1>20. Text(s, "dq")[(b + 1) + 1] = Got(Value("string", key, << >>), k + 1)
  <2>1. s[((b + 1) + 1) + Len(y)] = "dq"
    BY <1>3, <1>12, <1>14
  <2>2. Text(s, "dq")[(b + 1) + 1] = Got(Value("string", key, << >>), (((b + 1) + 1) + Len(y)) + 1)
    BY <1>1, <1>4, <1>5, <1>13, <2>1, TextRead
  <2> QED BY <1>12, <2>2
<1>21. Skip(s, b) = b + 1 /\ s[b + 1] = "dq" /\ s[b + 1] # Close("object") /\ s[b + 1] \in Quotes
  <2>1. s[b + 1] \in Firsts
    BY <1>3, <1>11 DEF Firsts
  <2>2. s[b + 1] \notin White /\ s[b + 1] # Close("object")
    BY <2>1, FirstsFit DEF Whats
  <2>3. Skip(s, b) = b + 1
    BY <1>3, <1>10, <1>11, <2>2, SkipsSpace
  <2> QED BY <1>3, <1>11, <2>2, <2>3 DEF Quotes
<1>22. PICK g : g = Text(s, "dq")[(b + 1) + 1] /\ PartAt(s, h, "object", b) = AfterName(s, h, g)
  BY <1>21 DEF PartAt
<1>23. ~Failed(g) /\ g.next = k + 1 /\ g.val.text = key
  BY <1>20, <1>22, GotFits, ValueFits
<1>24. Skip(s, k + 1) = k + 1 /\ s[k + 1] = ":"
  <2>1. s[k + 1] \notin White
    BY <1>3, <1>15 DEF White
  <2> QED BY <1>3, <1>15, <2>1, SkipFits
<1>25. AfterName(s, h, g) = WithItem(s, h, "object", key, ValueAt(s, h, j))
  BY <1>16, <1>23, <1>24 DEF AfterName
<1>26. WithItem(s, h, "object", key, ValueAt(s, h, j)) =
           Item(Entry(key, TreeOf(v)), AfterItem(s, h, "object", (j + 1) + Len(Shown(v))))
  BY <1>18, <1>19, ValueBehind
<1> QED BY <1>1, <1>2, <1>3, <1>10, <1>17, <1>19, <1>22, <1>25, <1>26 DEF ItemReads

-----------------------------------------------------------------------------
(* Containers.                                                             *)

LEMMA ItemRead ==
    ASSUME NEW s, Source(s), NEW h, NEW what \in Whats, NEW e, Proper(what, e), NEW b,
           Occurs(s, b, Body(what, e)), NEW c, c = b + Len(Body(what, e)), s[c] \notin NumberChars
    PROVE  ItemReads(s, h, what, e, b, c)
<1>1. CASE what = "array"
  BY <1>1, ElementRead
<1>2. CASE what = "object"
  BY <1>2, FieldRead
<1> QED BY <1>1, <1>2 DEF Whats

(* The end of a container.                                                 *)
Ending(what) == <<"sp">> \o <<Close(what)>>

LEMMA EndRead ==
    ASSUME NEW s, Source(s), NEW h, NEW what \in Whats, NEW d, Occurs(s, d, Ending(what))
    PROVE  /\ d \in 1..Len(s) /\ s[d] = "sp" /\ d + 2 \in 1..Len(s)
           /\ PartAt(s, h, what, d) = Closed(what, d + 2)
           /\ AfterItem(s, h, what, d) = Closed(what, d + 2)
<1>1. PICK sp \in Letters, c \in Letters : sp = "sp" /\ c = Close(what)
  BY MarkIn, LettersFit DEF Marks
<1>2. PICK b \in Seq(Letters) : b = <<c>> /\ Len(b) = 1 /\ b[1] = c
  <2>1. <<c>> \in Seq(Letters) /\ Len(<<c>>) = 1 /\ <<c>>[1] = c
    OBVIOUS
  <2> QED BY <2>1
<1>3. IsSeq(s) /\ Occurs(s, d, <<sp>> \o b)
  BY <1>1, <1>2 DEF Source, Ending
<1>4. FirstAt(s, d, sp, b)
  BY <1>3, OccursFirst
<1>5. d \in 1..Len(s) /\ s[d] = "sp" /\ Occurs(s, d + 1, b)
  BY <1>1, <1>4 DEF FirstAt
<1>6. d + 1 \in 1..Len(s) /\ (d + 1) + 1 \in 1..Len(s) /\ s[(d + 1) + 1 - 1] = c
  <2>1. 1 \in 1..Len(b)
    BY <1>2
  <2> QED BY <1>2, <1>5, <2>1 DEF Occurs
<1>7. (d + 1) + 1 - 1 = d + 1 /\ (d + 1) + 1 = d + 2
  <2>1. d \in Int
    BY <1>5
  <2> QED BY <2>1
<1>8. s[d + 1] = Close(what) /\ s[d + 1] \notin White /\ s[d + 1] # ","
  <2>1. Close(what) \notin White
    BY DEF Close, White
  <2>2. Close(what) # ","
    BY CloseFits
  <2> QED BY <1>1, <1>6, <1>7, <2>1, <2>2
<1>9. Skip(s, d) = d + 1
  BY <1>5, <1>6, <1>8, SkipsSpace
<1>10. PartAt(s, h, what, d) = Closed(what, (d + 1) + 1)
  BY <1>8, <1>9 DEF PartAt
<1>11. AfterItem(s, h, what, d) = Closed(what, (d + 1) + 1)
  BY <1>8, <1>9 DEF AfterItem
<1> QED BY <1>5, <1>6, <1>7, <1>10, <1>11

(* The places of the pieces of a text.                                     *)
FlatAt(s, l, p) ==
    \E q : /\ PlacesOf(q, l, p) /\ \A i \in 1..Len(l) : Occurs(s, q[i], l[i])
           /\ q[Len(l) + 1] = p + Len(FlattenSeq(l))

LEMMA OccursPieces ==
    ASSUME NEW A, NEW s, IsSeq(s), NEW p, NEW l \in Seq(Seq(A)), Occurs(s, p, FlattenSeq(l))
    PROVE  FlatAt(s, l, p)
BY OccursFlat DEF FlatAt

(* The whole text, given the texts of its items.                           *)
Framed(what, x) == <<Opener(what)>> \o (x \o Ending(what))

Spells(s, what, n, kids, l, r) ==
    /\ Source(s) /\ \A i \in 1..n : Proper(what, kids[i])
    /\ Len(l) = n /\ \A i \in 1..n : l[i] = ItemText(what, i, kids[i])
    /\ Occurs(s, 1, Framed(what, FlattenSeq(l)))
    /\ IsSeq(r) /\ Len(r) = n /\ \A i \in 1..n : r[i] = Entry(kids[i].key, TreeOf(kids[i].val))

LEMMA ContainerRead ==
    ASSUME NEW s, NEW what \in Whats, NEW n \in Nat, NEW kids, NEW l \in Seq(Seq(Letters)), NEW r,
           Spells(s, what, n, kids, l, r)
    PROVE  ValueAt(s, Parts(s), 1).val = Value(what, << >>, Whole(what, r))
<1> SUFFICES
      ASSUME Source(s), \A i \in 1..n : Proper(what, kids[i]),
             Len(l) = n, \A i \in 1..n : l[i] = ItemText(what, i, kids[i]),
             Occurs(s, 1, Framed(what, FlattenSeq(l))),
             IsSeq(r), Len(r) = n,
             \A i \in 1..n : r[i] = Entry(kids[i].key, TreeOf(kids[i].val))
      PROVE  ValueAt(s, Parts(s), 1).val = Value(what, << >>, Whole(what, r))
  BY DEF Spells
<1>1. PICK x \in Seq(Letters) : x = FlattenSeq(l)
  <2>1. << >> \in Seq(Letters)
    OBVIOUS
  <2> QED BY <2>1, FlatIs
<1>2. PICK op \in Letters : op = Opener(what)
  BY LettersFit
<1>3. PICK z \in Seq(Letters) : z = Ending(what)
  <2>1. PICK sp \in Letters, c \in Letters : sp = "sp" /\ c = Close(what)
    BY MarkIn, LettersFit DEF Marks
  <2>2. <<c>> \in Seq(Letters)
    OBVIOUS
  <2>3. <<sp>> \o <<c>> \in Seq(Letters)
    BY <2>2, InFront
  <2> QED BY <2>1, <2>3 DEF Ending
<1>4. PICK y \in Seq(Letters) : y = x \o z
  BY JoinFits
<1>5. IsSeq(s) /\ Occurs(s, 1, <<op>> \o y)
  BY <1>1, <1>2, <1>3, <1>4 DEF Source, Framed
<1>6. 1 \in 1..Len(s) /\ s[1] = op /\ Occurs(s, 2, x \o z)
  <2>1. FirstAt(s, 1, op, y)
    BY <1>5, OccursFirst
  <2>2. 1 + 1 = 2
    OBVIOUS
  <2> QED BY <1>4, <2>1, <2>2 DEF FirstAt
<1>7. Occurs(s, 2, x) /\ Occurs(s, 2 + Len(x), z)
  <2>1. /\ Occurs(s, 2, x) /\ Occurs(s, 2 + Len(x), z)
        /\ 2 + Len(x \o z) = (2 + Len(x)) + Len(z)
    BY <1>5, <1>6, OccursJoin
  <2> QED BY <2>1
<1>8. PICK q : /\ PlacesOf(q, l, 2) /\ \A i \in 1..Len(l) : Occurs(s, q[i], l[i])
               /\ q[Len(l) + 1] = 2 + Len(FlattenSeq(l))
  <2>1. PICK p : p = 2 /\ Occurs(s, p, FlattenSeq(l))
    BY <1>1, <1>7
  <2>2. Occurs(s, p, FlattenSeq(l)) /\ IsSeq(s)
    BY <1>5, <2>1
  <2>3. FlatAt(s, l, p)
    BY <2>2, OccursPieces
  <2> QED BY <2>1, <2>3 DEF FlatAt
<1>9. /\ q[1] = 2 /\ \A i \in 1..n : q[i + 1] = q[i] + Len(l[i]) /\ Occurs(s, q[i], l[i])
      /\ Occurs(s, q[n + 1], Ending(what))
  BY <1>1, <1>3, <1>7, <1>8 DEF PlacesOf
<1>10. PICK h : h = Parts(s)
  OBVIOUS
<1>11. /\ q[n + 1] \in 1..Len(s) /\ s[q[n + 1]] = "sp" /\ q[n + 1] + 2 \in 1..Len(s)
       /\ PartAt(s, h, what, q[n + 1]) = Closed(what, q[n + 1] + 2)
       /\ AfterItem(s, h, what, q[n + 1]) = Closed(what, q[n + 1] + 2)
  BY <1>9, EndRead
(* An item's text, cut at its comma.                                       *)
<1>12. \A i \in 1..n : Body(what, kids[i]) \in Seq(Letters)
  BY BodyFits DEF Proper
<1>13. ASSUME NEW i \in 1..n, i > 1
       PROVE  FirstAt(s, q[i], ",", Body(what, kids[i])) /\ l[i] = <<",">> \o Body(what, kids[i])
  <2>1. PICK b \in Seq(Letters), c \in Letters : b = Body(what, kids[i]) /\ c = ","
    BY <1>12, MarkIn DEF Marks
  <2>2. l[i] = <<c>> \o b
    BY <1>13, <2>1 DEF ItemText
  <2>3. Occurs(s, q[i], <<c>> \o b)
    BY <1>9, <2>2
  <2>4. FirstAt(s, q[i], c, b)
    BY <1>5, <2>3, OccursFirst
  <2> QED BY <2>1, <2>2, <2>4
<1>14. ASSUME NEW i \in 1..n, i = 1
       PROVE  Occurs(s, q[i], Body(what, kids[i])) /\ l[i] = Body(what, kids[i])
  <2>1. ~(i > 1) /\ l[i] = ItemText(what, i, kids[i])
    BY <1>14
  <2>2. l[i] = Body(what, kids[i])
    BY <2>1 DEF ItemText
  <2>3. Occurs(s, q[i], l[i])
    BY <1>9
  <2> QED BY <2>2, <2>3
(* Where an item ends there is a comma, or the space before the end.       *)
<1>15. \A i \in 1..n : q[i + 1] \in 1..Len(s) /\ s[q[i + 1]] \notin NumberChars
  <2> SUFFICES ASSUME NEW i \in 1..n PROVE q[i + 1] \in 1..Len(s) /\ s[q[i + 1]] \in {",", "sp"}
    BY DEF NumberChars, Digits
  <2>1. CASE i = n
    BY <1>11, <2>1
  <2>2. CASE i # n
    <3>1. i + 1 \in 1..n /\ i + 1 > 1
      BY <2>2
    <3>2. FirstAt(s, q[i + 1], ",", Body(what, kids[i + 1]))
      BY <1>13, <3>1
    <3> QED BY <3>2 DEF FirstAt
  <2> QED BY <2>1, <2>2
<1> DEFINE Rest(i) == IF i = 0 THEN h[<<what, 2>>] ELSE AfterItem(s, h, what, q[i + 1])
(* What is left in front of an item is the item and what is left behind.   *)
<1>16. ASSUME NEW i \in 0..n - 1 PROVE Rest(i) = Item(r[i + 1], Rest(i + 1))
  <2>1. i + 1 \in 1..n /\ i + 1 # 0 /\ (i + 1) + 1 \in 1..n + 1
    OBVIOUS
  <2>2. PICK e : e = kids[i + 1] /\ Proper(what, e) /\ r[i + 1] = Entry(e.key, TreeOf(e.val))
    BY <2>1
  <2>3. PICK c : c = q[(i + 1) + 1] /\ s[c] \notin NumberChars
    BY <1>15, <2>1
  <2>4. Rest(i + 1) = AfterItem(s, h, what, c)
    BY <2>1, <2>3
  <2>5. CASE i = 0
    <3>1. Occurs(s, 2, Body(what, e)) /\ c = 2 + Len(Body(what, e))
      <4>1. i + 1 = 1 /\ l[i + 1] = Body(what, e)
        BY <1>14, <2>1, <2>2, <2>5
      <4> QED BY <1>9, <2>1, <2>3, <4>1
    <3>2. ItemReads(s, h, what, e, 2, c)
      BY <2>2, <2>3, <3>1, ItemRead
    <3>3. h[<<what, 2>>] = PartAt(s, h, what, 2)
      <4>1. 2 \in 1..Len(s)
        BY <3>2 DEF ItemReads
      <4> QED BY <1>10, <4>1, GrammarFits
    <3>4. Rest(i) = h[<<what, 2>>]
      BY <2>5
    <3> QED BY <2>2, <2>4, <3>2, <3>3, <3>4 DEF ItemReads
  <2>6. CASE i # 0
    <3>1. PICK b : b = q[i + 1]
      OBVIOUS
    <3>2. FirstAt(s, b, ",", Body(what, e)) /\ l[i + 1] = <<",">> \o Body(what, e)
      <4>1. i + 1 > 1
        BY <2>6
      <4> QED BY <1>13, <2>1, <2>2, <3>1, <4>1
    <3>3. /\ b \in 1..Len(s) /\ s[b] = "," /\ Occurs(s, b + 1, Body(what, e))
          /\ b + Len(l[i + 1]) = (b + 1) + Len(Body(what, e))
      BY <3>2 DEF FirstAt
    <3>4. c = (b + 1) + Len(Body(what, e))
      BY <1>9, <2>1, <2>3, <3>1, <3>3
    <3>5. ItemReads(s, h, what, e, b + 1, c)
      BY <2>2, <2>3, <3>3, <3>4, ItemRead
    <3>6. h[<<what, b + 1>>] = PartAt(s, h, what, b + 1)
      <4>1. b + 1 \in 1..Len(s)
        BY <3>5 DEF ItemReads
      <4> QED BY <1>10, <4>1, GrammarFits
    <3>7. Skip(s, b) = b
      <4>1. s[b] \notin White
        BY <3>3 DEF White
      <4> QED BY <3>3, <4>1, SkipFits
    <3>8. AfterItem(s, h, what, b) = h[<<what, b + 1>>]
      BY <3>3, <3>7 DEF AfterItem
    <3>9. Rest(i) = AfterItem(s, h, what, b)
      BY <2>6, <3>1
    <3> QED BY <2>2, <2>4, <3>5, <3>6, <3>8, <3>9 DEF ItemReads
  <2> QED BY <2>5, <2>6
<1>17. \A i \in 1..n : FinePart(s, Rest(i), what, q[i + 1]) /\ q[i + 1] \in 1..Len(s)
  <2> SUFFICES ASSUME NEW i \in 1..n
               PROVE  FinePart(s, Rest(i), what, q[i + 1]) /\ q[i + 1] \in 1..Len(s)
    OBVIOUS
  <2>1. PICK c \in 1..Len(s) : c = q[i + 1]
    BY <1>15
  <2>2. FinePart(s, AfterItem(s, h, what, c), what, c)
    BY <1>10, GrammarFits
  <2>3. Rest(i) = AfterItem(s, h, what, c)
    BY <2>1
  <2> QED BY <2>1, <2>2, <2>3
<1>18. Rest(n) = Closed(what, q[n + 1] + 2)
  <2>1. CASE n = 0
    <3>1. q[n + 1] = 2 /\ Rest(n) = h[<<what, 2>>]
      BY <1>9, <2>1
    <3>2. h[<<what, 2>>] = PartAt(s, h, what, 2)
      <4>1. 2 \in 1..Len(s)
        BY <1>11, <3>1
      <4> QED BY <1>10, <4>1, GrammarFits
    <3> QED BY <1>11, <3>1, <3>2
  <2>2. CASE n # 0
    BY <1>11, <2>2
  <2> QED BY <2>1, <2>2
<1>19. PICK g : g = Gathered(s, what, << >>, h[<<what, 2>>])
  OBVIOUS
<1>20. PICK X : r \in Seq(X)
  BY DEF IsSeq
<1> DEFINE P(i) == SubSeq(r, 1, i)
           S == {i \in 0..n : Gathered(s, what, P(i), Rest(i)) = g}
<1>21. 0 \in S
  <2>1. SubSeq(r, 1, 0) = << >>
    <3>1. 0 \in 0..Len(r)
      OBVIOUS
    <3> QED BY <1>20, <3>1, FirstOnes
  <2>2. P(0) = << >> /\ Rest(0) = h[<<what, 2>>] /\ 0 \in 0..n
    BY <2>1
  <2>3. Gathered(s, what, P(0), Rest(0)) = g
    BY <1>19, <2>2
  <2> QED BY <2>2, <2>3
<1>22. ASSUME NEW i \in 0..n - 1, i \in S PROVE i + 1 \in S
  <2>1. i < Len(r) /\ i \in 0..Len(r) /\ i + 1 \in 1..n /\ i + 1 \in 0..n
    OBVIOUS
  <2>2. PICK p \in Seq(X), e \in X : p = P(i) /\ e = r[i + 1] /\ P(i + 1) = Append(p, e)
    <3>1. /\ SubSeq(r, 1, i) \in Seq(X) /\ r[i + 1] \in X
          /\ SubSeq(r, 1, i + 1) = Append(SubSeq(r, 1, i), r[i + 1])
      BY <1>20, <2>1, FirstOnes
    <3> QED BY <3>1
  <2>3. PICK c \in 1..Len(s) : FinePart(s, Rest(i + 1), what, c)
    BY <1>17, <2>1
  <2>9. PICK t : t = Rest(i + 1) /\ FinePart(s, t, what, c)
    BY <2>3
  <2>4. IsSeq(p)
    BY DEF IsSeq
  <2>5. Gathered(s, what, p, Item(e, t)) = Gathered(s, what, Append(p, e), t)
    BY <2>4, <2>9, GatheredItem
  <2>6. Rest(i) = Item(e, t)
    BY <1>16, <2>2, <2>9
  <2>7. Gathered(s, what, P(i), Rest(i)) = g
    BY <1>22
  <2>8. Gathered(s, what, P(i + 1), Rest(i + 1)) = g
    BY <2>2, <2>5, <2>6, <2>7, <2>9
  <2> QED BY <2>1, <2>8
<1>23. g = Gathered(s, what, r, Closed(what, q[n + 1] + 2))
  <2>1. P(n) = r
    BY <1>20, FirstOnes
  <2>2. n \in S
    <3> HIDE DEF S, P, Rest
    <3>1. n \in 0..n
      OBVIOUS
    <3> QED BY <1>21, <1>22, <3>1, Induct
  <2> QED BY <1>18, <2>1, <2>2
<1>24. g = Got(Value(what, << >>, Whole(what, r)), Skip(s, q[n + 1] + 2))
  BY <1>23, ClosedSays
<1>25. ValueAt(s, h, 1) = g
  <2>1. s[1] \notin White
    <3>1. Opener(what) \notin White
      BY DEF Opener, White
    <3> QED BY <1>2, <1>6, <3>1
  <2>2. Skip(s, 1) = 1
    BY <1>6, <2>1, SkipFits
  <2>3. ValueAt(s, h, 1) = Trimmed(s, Core(s, h, 1))
    BY <2>2, ValueIs
  <2>4. 1 + 1 = 2 /\ 2 \in 1..Len(s)
    BY <1>7 DEF Occurs
  <2>5. Trimmed(s, Core(s, h, 1)) = Gathered(s, what, << >>, h[<<what, 1 + 1>>])
    <3>1. s[1] = Opener(what) /\ 1 + 1 \in 1..Len(s)
      BY <1>2, <1>6, <2>4
    <3>2. Trimmed(s, Core(s, h, 1)) = Gathered(s, what, << >>, h[<<what, 1 + 1>>])
      BY <1>10, <3>1, OpenedIs
    <3> QED BY <3>2
  <2> QED BY <1>19, <2>3, <2>4, <2>5
<1>26. g.val = Value(what, << >>, Whole(what, r))
  BY <1>24, GotFits
<1> QED BY <1>10, <1>25, <1>26

-----------------------------------------------------------------------------
(* The pieces and the text they make.                                      *)

Shifts(a, b, c) == (a \o b) \o c = a \o (b \o c)
LEMMA Shift ==
    ASSUME NEW A, NEW a \in Seq(A), NEW b \in Seq(A), NEW c \in Seq(A)
    PROVE  Shifts(a, b, c)
BY ConcatAssociative DEF Shifts

ShiftsAll(a, b, x, d, c, e, v) ==
    (((a \o b) \o x) \o (d \o (c \o e))) \o v = a \o (b \o (x \o (d \o (c \o (e \o v)))))
LEMMA ShiftAll ==
    ASSUME NEW A, NEW a \in Seq(A), NEW b \in Seq(A), NEW x \in Seq(A), NEW d \in Seq(A),
           NEW c \in Seq(A), NEW e \in Seq(A), NEW v \in Seq(A)
    PROVE  ShiftsAll(a, b, x, d, c, e, v)
<1>1. PICK ce \in Seq(A) : ce = c \o e
  BY JoinFits
<1>2. PICK dce \in Seq(A) : dce = d \o ce
  BY JoinFits
<1>3. PICK ab \in Seq(A) : ab = a \o b
  BY JoinFits
<1>4. PICK dcev \in Seq(A) : dcev = dce \o v
  BY JoinFits
<1>5. PICK abx \in Seq(A) : abx = ab \o x
  BY JoinFits
<1>6. (abx \o dce) \o v = abx \o dcev
  <2>1. Shifts(abx, dce, v)
    BY Shift
  <2> QED BY <1>4, <2>1 DEF Shifts
<1>7. PICK xdcev \in Seq(A) : xdcev = x \o dcev
  BY JoinFits
<1>8. (ab \o x) \o dcev = ab \o xdcev
  <2>1. Shifts(ab, x, dcev)
    BY Shift
  <2> QED BY <1>7, <2>1 DEF Shifts
<1>9. (a \o b) \o xdcev = a \o (b \o xdcev)
  <2>1. Shifts(a, b, xdcev)
    BY Shift
  <2> QED BY <2>1 DEF Shifts
<1>10. PICK cev \in Seq(A) : cev = ce \o v
  BY JoinFits
<1>11. (d \o ce) \o v = d \o cev
  <2>1. Shifts(d, ce, v)
    BY Shift
  <2> QED BY <1>10, <2>1 DEF Shifts
<1>12. (c \o e) \o v = c \o (e \o v)
  <2>1. Shifts(c, e, v)
    BY Shift
  <2> QED BY <2>1 DEF Shifts
<1> QED BY <1>1, <1>2, <1>3, <1>4, <1>5, <1>6, <1>7, <1>8, <1>9, <1>10, <1>11, <1>12
       DEF ShiftsAll

LEMMA TwoPieces ==
    ASSUME NEW A, NEW l \in Seq(Seq(A)), NEW k \in Seq(Seq(A))
    PROVE  l \o k \in Seq(Seq(A)) /\ FlattenSeq(l) \in Seq(A)
<1>1. PICK B : B = Seq(A) /\ l \in Seq(B) /\ k \in Seq(B)
  OBVIOUS
<1>2. l \o k \in Seq(B)
  BY <1>1
<1>3. << >> \in Seq(A)
  OBVIOUS
<1> QED BY <1>1, <1>2, <1>3, FlatIs

LEMMA OneIn ==
    ASSUME NEW A, NEW c \in A
    PROVE  <<c>> \in Seq(A)
OBVIOUS

LEMMA TwoIn ==
    ASSUME NEW A, NEW c \in A, NEW d \in A
    PROVE  <<c, d>> = <<c>> \o <<d>> /\ <<c, d>> \in Seq(A)
<1>1. PICK x \in Seq(A) : x = <<c>>
  BY OneIn
<1>2. Append(x, d) = x \o <<d>> /\ Append(x, d) \in Seq(A)
  OBVIOUS
<1>3. <<c, d>> = Append(x, d)
  BY <1>1
<1> QED BY <1>1, <1>2, <1>3

(* The pieces p of an item make its text.                                  *)
PiecesOf(what, i, e, p) == p \in Seq(Seq(Letters)) /\ FlattenSeq(p) = ItemText(what, i, e)

(* Item i of an array, and of an object.                                   *)
ElementPieces(i, e) ==
    <<IF i > 1 THEN <<",", "sp">> ELSE <<"sp">>>> \o ValueToJsonString(e.val)
FieldPieces(i, e) ==
    (IF i > 1 THEN <<<<",">>>> ELSE << >>) \o Quoted(<<"sp">>, e.key, <<":", "sp">>)
    \o ValueToJsonString(e.val)

LEMMA ElementFits ==
    ASSUME NEW e, Printable("array", e), NEW i
    PROVE  PiecesOf("array", i, e, ElementPieces(i, e))
<1>1. PICK sp \in Letters, co \in Letters : sp = "sp" /\ co = ","
  BY MarkIn DEF Marks
<1>2. PICK v : v = e.val /\ v \in Nodes \cup {NULL}
  BY DEF Printable
<1>3. PICK y \in Seq(Seq(Letters)), x \in Seq(Letters) :
          y = ValueToJsonString(v) /\ x = FlattenSeq(y) /\ x = Shown(v)
  BY <1>2, ShownFits DEF Shown
<1>4. PICK s1 \in Seq(Letters), c1 \in Seq(Letters) : s1 = <<sp>> /\ c1 = <<co>>
  <2>1. <<sp>> \in Seq(Letters) /\ <<co>> \in Seq(Letters)
    BY OneIn
  <2> QED BY <2>1
<1>5. <<co, sp>> = c1 \o s1 /\ <<co, sp>> \in Seq(Letters)
  BY <1>4, TwoIn
<1>6. PICK f \in Seq(Letters) : f = IF i > 1 THEN <<co, sp>> ELSE <<sp>>
  BY <1>4, <1>5
<1>7. PICK g \in Seq(Seq(Letters)) : g = <<f>> /\ FlattenSeq(g) = f
  <2>1. <<f>> \in Seq(Seq(Letters)) /\ FlattenSeq(<<f>>) = f
    BY OneFlat
  <2> QED BY <2>1
<1>8. g \o y \in Seq(Seq(Letters))
  BY TwoPieces
<1>9. FlattenSeq(g \o y) = FlattenSeq(g) \o FlattenSeq(y)
  BY FlatJoin
<1>10. ElementPieces(i, e) = g \o y
  BY <1>1, <1>2, <1>3, <1>6, <1>7 DEF ElementPieces
<1>11. (c1 \o s1) \o x = c1 \o (s1 \o x)
  <2>1. Shifts(c1, s1, x)
    BY Shift
  <2> QED BY <2>1 DEF Shifts
<1>12. f \o x = ItemText("array", i, e)
  <2>1. Body("array", e) = s1 \o x
    BY <1>1, <1>2, <1>3, <1>4 DEF Body
  <2>2. CASE i > 1
    BY <1>1, <1>4, <1>5, <1>6, <1>11, <2>1, <2>2 DEF ItemText
  <2>3. CASE ~(i > 1)
    BY <1>4, <1>6, <2>1, <2>3 DEF ItemText
  <2> QED BY <2>2, <2>3
<1> QED BY <1>3, <1>7, <1>8, <1>9, <1>10, <1>12 DEF PiecesOf

LEMMA FieldFits ==
    ASSUME NEW e, Printable("object", e), NEW i
    PROVE  PiecesOf("object", i, e, FieldPieces(i, e))
<1>1. PICK sp \in Letters, co \in Letters, cm \in Letters, dq \in Letters :
          sp = "sp" /\ co = ":" /\ cm = "," /\ dq = "dq"
  BY MarkIn DEF Marks
<1>2. PICK v, key : v = e.val /\ key = e.key /\ v \in Nodes \cup {NULL} /\ key \in Seq(Letters)
  BY DEF Printable
<1>3. PICK y \in Seq(Seq(Letters)), x \in Seq(Letters) :
          y = ValueToJsonString(v) /\ x = FlattenSeq(y) /\ x = Shown(v)
  BY <1>2, ShownFits DEF Shown
<1>4. PICK s1 \in Seq(Letters), o1 \in Seq(Letters), m1 \in Seq(Letters), d1 \in Seq(Letters) :
          s1 = <<sp>> /\ o1 = <<co>> /\ m1 = <<cm>> /\ d1 = <<dq>>
  <2>1. /\ <<sp>> \in Seq(Letters) /\ <<co>> \in Seq(Letters) /\ <<cm>> \in Seq(Letters)
        /\ <<dq>> \in Seq(Letters)
    BY OneIn
  <2> QED BY <2>1
<1>5. PICK os \in Seq(Letters) : os = <<co, sp>> /\ os = o1 \o s1
  <2>1. <<co, sp>> = <<co>> \o <<sp>> /\ <<co, sp>> \in Seq(Letters)
    BY TwoIn
  <2> QED BY <1>4, <2>1
<1>6. QuotedIs(Letters, s1, key, os)
  <2>1. "bs" \in Letters /\ "dq" \in Letters
    BY MarkIn DEF Marks
  <2> QED BY <1>2, <2>1, QuotedFits
<1>7. PICK q \in Seq(Seq(Letters)), z \in Seq(Letters) :
          /\ q = Quoted(s1, key, os) /\ z = FlattenSeq(JsonEscapeStr(key))
          /\ FlattenSeq(q) = ((s1 \o d1) \o z) \o (d1 \o (o1 \o s1))
  BY <1>1, <1>4, <1>5, <1>6 DEF QuotedIs
<1>8. PICK g \in Seq(Seq(Letters)), f \in Seq(Letters) :
          /\ g = IF i > 1 THEN <<<<cm>>>> ELSE << >>
          /\ FlattenSeq(g) = f /\ f = IF i > 1 THEN m1 ELSE << >>
  <2>1. CASE i > 1
    <3>1. <<m1>> \in Seq(Seq(Letters)) /\ FlattenSeq(<<m1>>) = m1
      BY OneFlat
    <3> QED BY <1>4, <2>1, <3>1
  <2>2. CASE ~(i > 1)
    <3>1. << >> \in Seq(Seq(Letters)) /\ << >> \in Seq(Letters)
      OBVIOUS
    <3>2. FlattenSeq(<< >>) = << >>
      BY DEF FlattenSeq
    <3> QED BY <2>2, <3>1, <3>2
  <2> QED BY <2>1, <2>2
<1>9. PICK gq \in Seq(Seq(Letters)) : gq = g \o q
  BY TwoPieces
<1>10. gq \o y \in Seq(Seq(Letters))
  BY TwoPieces
<1>11. FlattenSeq(g \o q) = FlattenSeq(g) \o FlattenSeq(q)
  BY FlatJoin
<1>12. FlattenSeq(gq \o y) = FlattenSeq(gq) \o FlattenSeq(y)
  BY FlatJoin
<1>13. PICK w \in Seq(Letters) : w = FlattenSeq(q)
  BY TwoPieces
<1>14. FlattenSeq(gq \o y) = f \o (w \o x)
  <2>1. Shifts(f, w, x)
    BY Shift
  <2> QED BY <1>3, <1>8, <1>9, <1>11, <1>12, <1>13, <2>1 DEF Shifts
<1>15. FieldPieces(i, e) = gq \o y
  BY <1>1, <1>2, <1>3, <1>4, <1>5, <1>7, <1>8, <1>9 DEF FieldPieces
<1>16. (((s1 \o d1) \o z) \o (d1 \o (o1 \o s1))) \o x = s1 \o (d1 \o (z \o (d1 \o (o1 \o (s1 \o x)))))
  <2>1. ShiftsAll(s1, d1, z, d1, o1, s1, x)
    BY ShiftAll
  <2> QED BY <2>1 DEF ShiftsAll
<1>17. PICK b : b = Body("object", e) /\ b = s1 \o (d1 \o (z \o (d1 \o (o1 \o (s1 \o x)))))
  BY <1>1, <1>2, <1>3, <1>4, <1>7 DEF Body, Colon
<1>18. b = w \o x
  BY <1>7, <1>13, <1>16, <1>17
<1>19. f \o (w \o x) = ItemText("object", i, e)
  <2>1. CASE i > 1
    BY <1>1, <1>4, <1>8, <1>17, <1>18, <2>1 DEF ItemText
  <2>2. CASE ~(i > 1)
    <3>1. << >> \o (w \o x) = w \o x
      <4>1. w \o x \in Seq(Letters)
        BY JoinFits
      <4> QED BY <4>1, JoinFits
    <3> QED BY <1>8, <1>17, <1>18, <2>2, <3>1 DEF ItemText
  <2> QED BY <2>1, <2>2
<1> QED BY <1>10, <1>14, <1>15, <1>19 DEF PiecesOf

-----------------------------------------------------------------------------
(* The pieces of a container, given the pieces of its items.               *)
Wrapped(what, k) == (<<<<Opener(what)>>>> \o FlattenSeq(k)) \o <<<<"sp", Close(what)>>>>
WrapIs(what, k, l) ==
    /\ Wrapped(what, k) \in Seq(Seq(Letters)) /\ Wrapped(what, k) # << >>
    /\ FlattenSeq(Wrapped(what, k)) = Framed(what, FlattenSeq(l))

LEMMA JoinedIs ==
    ASSUME NEW A, NEW a \in Seq(A), NEW b \in Seq(A), Len(b) = 1
    PROVE  a \o b # << >>
OBVIOUS

LEMMA PiecesJoin ==
    ASSUME NEW what \in Whats, NEW n \in Nat, NEW kids,
           NEW k \in Seq(Seq(Seq(Letters))), Len(k) = n, NEW l \in Seq(Seq(Letters)), Len(l) = n,
           \A i \in 1..n : PiecesOf(what, i, kids[i], k[i]) /\ l[i] = ItemText(what, i, kids[i])
    PROVE  WrapIs(what, k, l)
<1>1. PICK m \in Seq(Seq(Letters)), x \in Seq(Letters) :
          m = FlattenSeq(k) /\ FlattenSeq(m) = x /\ x = FlattenSeq(l)
  <2>1. \A i \in 1..Len(k) : l[i] = FlattenSeq(k[i])
    BY DEF PiecesOf
  <2>2. FlattenSeq(k) \in Seq(Seq(Letters)) /\ FlattenSeq(FlattenSeq(k)) = FlattenSeq(l)
    BY <2>1, FlatFlat
  <2>3. FlattenSeq(l) \in Seq(Letters)
    BY TwoPieces
  <2> QED BY <2>2, <2>3
<1>2. PICK op \in Letters, sp \in Letters, cl \in Letters :
          op = Opener(what) /\ sp = "sp" /\ cl = Close(what)
  BY MarkIn, LettersFit DEF Marks
<1>3. PICK a \in Seq(Letters), b \in Seq(Letters) : a = <<op>> /\ b = <<sp, cl>> /\ b = <<sp>> \o <<cl>>
  <2>1. <<op>> \in Seq(Letters)
    BY OneIn
  <2>2. <<sp, cl>> = <<sp>> \o <<cl>> /\ <<sp, cl>> \in Seq(Letters)
    BY TwoIn
  <2> QED BY <2>1, <2>2
<1>4. PICK g \in Seq(Seq(Letters)), h \in Seq(Seq(Letters)) :
          g = <<a>> /\ FlattenSeq(g) = a /\ h = <<b>> /\ FlattenSeq(h) = b
  <2>1. /\ <<a>> \in Seq(Seq(Letters)) /\ FlattenSeq(<<a>>) = a
        /\ <<b>> \in Seq(Seq(Letters)) /\ FlattenSeq(<<b>>) = b
    BY OneFlat
  <2> QED BY <2>1
<1>5. PICK gm \in Seq(Seq(Letters)) : gm = g \o m
  BY TwoPieces
<1>6. gm \o h \in Seq(Seq(Letters))
  BY TwoPieces
<1>7. FlattenSeq(g \o m) = FlattenSeq(g) \o FlattenSeq(m)
  BY FlatJoin
<1>8. FlattenSeq(gm \o h) = FlattenSeq(gm) \o FlattenSeq(h)
  BY FlatJoin
<1>9. FlattenSeq(gm \o h) = a \o (x \o b)
  <2>1. Shifts(a, x, b)
    BY Shift
  <2> QED BY <1>1, <1>4, <1>5, <1>7, <1>8, <2>1 DEF Shifts
<1>10. gm \o h # << >>
  <2>1. Len(<<b>>) = 1
    OBVIOUS
  <2>2. Len(h) = 1
    BY <1>4, <2>1
  <2> QED BY <2>2, JoinedIs
<1>11. Wrapped(what, k) = gm \o h
  BY <1>1, <1>2, <1>3, <1>4, <1>5 DEF Wrapped
<1>12. Framed(what, FlattenSeq(l)) = a \o (x \o b)
  BY <1>1, <1>2, <1>3 DEF Framed, Ending
<1> QED BY <1>6, <1>9, <1>10, <1>11, <1>12 DEF WrapIs

(* What the code prints are such pieces.                                   *)
ObjectItems(t, slots) == [i \in DOMAIN slots |-> FieldPieces(i, Entry(t.k[slots[i]], t.v[slots[i]]))]
ArrayItems(items) == [i \in DOMAIN items |-> ElementPieces(i, Entry(<< >>, items[i]))]

LEMMA ObjectWrapped ==
    ASSUME NEW t
    PROVE  ObjectPieces(t) = Wrapped("object", ObjectItems(t, LhForeach(t)))
<1>2. \A x, y : Entry(x, y).key = x /\ Entry(x, y).val = y
  BY DEF Entry
<1>1. \A i, x, y : FieldPieces(i, Entry(x, y)) =
          (IF i > 1 THEN <<<<",">>>> ELSE << >>) \o Quoted(<<"sp">>, x, <<":", "sp">>)
          \o ValueToJsonString(y)
  BY <1>2, Zenon DEF FieldPieces
<1>3. PICK slots : slots = LhForeach(t)
  OBVIOUS
<1>4. ObjectItems(t, slots) =
          [i \in DOMAIN slots |->
              (IF i > 1 THEN <<<<",">>>> ELSE << >>)
              \o Quoted(<<"sp">>, t.k[slots[i]], <<":", "sp">>)
              \o ValueToJsonString(t.v[slots[i]])]
  BY <1>1, Zenon DEF ObjectItems
<1>5. Opener("object") = "{" /\ Close("object") = "}"
  BY Zenon DEF Opener, Close
<1> QED BY <1>3, <1>4, <1>5, Zenon DEF ObjectPieces, Wrapped

LEMMA ArrayWrapped ==
    ASSUME NEW a
    PROVE  ArrayPieces(a) = Wrapped("array", ArrayItems(Items(a)))
<1>2. \A x, y : Entry(x, y).key = x /\ Entry(x, y).val = y
  BY DEF Entry
<1>3. PICK items : items = Items(a)
  OBVIOUS
<1>4. ArrayItems(items) =
          [i \in DOMAIN items |->
              <<IF i > 1 THEN <<",", "sp">> ELSE <<"sp">>>> \o ValueToJsonString(items[i])]
  BY <1>2, Zenon DEF ArrayItems, ElementPieces
<1>5. Opener("array") = "[" /\ Close("array") = "]"
  BY Zenon DEF Opener, Close
<1> QED BY <1>3, <1>4, <1>5, Zenon DEF ArrayPieces, Wrapped

-----------------------------------------------------------------------------
(* Fields of different names all count.                                    *)
LEMMA AllLast ==
    ASSUME NEW X, NEW r \in Seq(X), \A i, j \in 1..Len(r) : r[i].key = r[j].key => i = j
    PROVE  LastOnes(r) = r
<1>1. PICK n \in Nat : n = Len(r)
  OBVIOUS
<1> DEFINE P(i) == SubSeq(r, 1, i)
           S == {i \in 0..n : LastOnes(P(i)) = P(i)}
<1>2. 0 \in S
  <2>1. P(0) = << >>
    <3>1. 0 \in 0..Len(r)
      BY <1>1
    <3> QED BY <3>1, FirstOnes
  <2>2. << >> \in Seq(X)
    OBVIOUS
  <2>3. IsSeq(<< >>)
    BY <2>2 DEF IsSeq
  <2>4. LastOnes(<< >>) = << >>
    BY <2>3, LastOnesFits
  <2>5. LastOnes(P(0)) = P(0)
    BY <2>1, <2>4, Zenon
  <2>6. 0 \in 0..n
    BY <1>1
  <2> QED BY <2>5, <2>6, Zenon
<1>3. ASSUME NEW i \in 0..n - 1, i \in S PROVE i + 1 \in S
  <2>1. i < Len(r) /\ i \in 0..Len(r) /\ i + 1 \in 1..n /\ i + 1 \in 0..n
    BY <1>1
  <2>2. PICK p \in Seq(X), e \in X :
            /\ p = P(i) /\ e = r[i + 1] /\ P(i + 1) = Append(p, e)
            /\ Len(p) = i /\ \A j \in 1..i : p[j] = r[j]
    <3>1. /\ SubSeq(r, 1, i) \in Seq(X) /\ r[i + 1] \in X /\ Len(SubSeq(r, 1, i)) = i
          /\ SubSeq(r, 1, i + 1) = Append(SubSeq(r, 1, i), r[i + 1])
          /\ \A j \in 1..i : SubSeq(r, 1, i)[j] = r[j]
      BY <2>1, FirstOnes
    <3> QED BY <3>1
  <2>3. IsSeq(p) /\ LastOnes(p) = p
    <3>1. LastOnes(P(i)) = P(i)
      BY <1>3
    <3> QED BY <2>2, <3>1 DEF IsSeq
  <2>4. ~HasKey(p, e.key)
    <3> SUFFICES ASSUME NEW j \in 1..i, p[j].key = e.key PROVE FALSE
      BY <2>2 DEF HasKey
    <3>1. j \in 1..Len(r) /\ i + 1 \in 1..Len(r) /\ r[j].key = r[i + 1].key
      BY <1>1, <2>1, <2>2
    <3>2. j = i + 1
      BY <3>1
    <3> QED BY <3>2
  <2>5. Without(p, e.key) = p
    BY <2>4 DEF Without
  <2>6. LastOnes(Append(p, e)) = Append(Without(LastOnes(p), e.key), e)
    BY <2>3, LastOnesFits
  <2> QED BY <2>1, <2>2, <2>3, <2>5, <2>6
<1>4. P(n) = r
  BY <1>1, FirstOnes
<1>5. n \in S
  <2> HIDE DEF S, P
  <2>1. n \in 0..n
    BY <1>1
  <2> QED BY <1>1, <1>2, <1>3, <2>1, Induct
<1> QED BY <1>4, <1>5

(* The contents of a container that is printed: each has its text, and no  *)
(* two fields have one name.                                               *)
Contents(what, kids) ==
    /\ IsSeq(kids)
    /\ \A i \in 1..Len(kids) :
          /\ Printable(what, kids[i]) /\ kids[i] = Entry(kids[i].key, kids[i].val)
          /\ what = "object" =>
                /\ kids[i].key \in Keys
                /\ \A j \in 1..Len(kids) : kids[i].key = kids[j].key => i = j
ItemTexts(what, kids) == [i \in 1..Len(kids) |-> ItemText(what, i, kids[i])]

LEMMA TextsFit ==
    ASSUME NEW what \in Whats, NEW kids, Contents(what, kids)
    PROVE  /\ ItemTexts(what, kids) \in Seq(Seq(Letters))
           /\ Len(ItemTexts(what, kids)) = Len(kids) /\ Len(kids) \in Nat
           /\ \A i \in 1..Len(kids) : ItemTexts(what, kids)[i] = ItemText(what, i, kids[i])
<1>1. PICK n \in Nat : n = Len(kids)
  BY SeqFits DEF Contents
<1>2. PICK B, l : B = Seq(Letters) /\ l = ItemTexts(what, kids)
  OBVIOUS
<1>3. \A i \in 1..n : ItemText(what, i, kids[i]) \in B
  BY <1>1, <1>2, BodyFits DEF Contents
<1>4. l = [i \in 1..n |-> ItemText(what, i, kids[i])]
  BY <1>1, <1>2 DEF ItemTexts
<1>5. l \in [1..n -> B] /\ \A i \in 1..n : l[i] = ItemText(what, i, kids[i])
  BY <1>3, <1>4
<1>6. l \in Seq(B) /\ Len(l) = n
  BY <1>5
<1> QED BY <1>1, <1>2, <1>5, <1>6

(* What a container was printed from.                                      *)
Trees(kids) == [i \in DOMAIN kids |-> [kids[i] EXCEPT !.val = TreeOf(@)]]

LEMMA TreesFit ==
    ASSUME NEW what \in Whats, NEW kids, Contents(what, kids)
    PROVE  /\ IsSeq(Trees(kids)) /\ Len(Trees(kids)) = Len(kids)
           /\ \A i \in 1..Len(kids) : Trees(kids)[i] = Entry(kids[i].key, TreeOf(kids[i].val))
           /\ Whole(what, Trees(kids)) = Trees(kids)
<1>1. PICK n \in Nat : n = Len(kids) /\ DOMAIN kids = 1..n
  BY SeqFits DEF Contents
<1>2. PICK r : r = Trees(kids)
  OBVIOUS
<1>3. \A i \in 1..n : [kids[i] EXCEPT !.val = TreeOf(@)] = Entry(kids[i].key, TreeOf(kids[i].val))
  <2> SUFFICES ASSUME NEW i \in 1..n
               PROVE  [kids[i] EXCEPT !.val = TreeOf(@)] = Entry(kids[i].key, TreeOf(kids[i].val))
    OBVIOUS
  <2>1. PICK x, y : kids[i] = [key |-> x, val |-> y]
    BY <1>1 DEF Contents, Entry
  <2>2. [[key |-> x, val |-> y] EXCEPT !.val = TreeOf(@)] = [key |-> x, val |-> TreeOf(y)]
    OBVIOUS
  <2> QED BY <2>1, <2>2 DEF Entry
<1>4. r = [i \in 1..n |-> [kids[i] EXCEPT !.val = TreeOf(@)]]
  BY <1>1, <1>2 DEF Trees
<1>5. \A i \in 1..n : r[i] = Entry(kids[i].key, TreeOf(kids[i].val))
  BY <1>3, <1>4
<1>6. PICK X : r \in Seq(X) /\ Len(r) = n
  <2>1. PICK X : X = {r[i] : i \in 1..n}
    OBVIOUS
  <2>2. r \in [1..n -> X]
    BY <1>4, <2>1
  <2>3. r \in Seq(X) /\ Len(r) = n
    BY <2>2
  <2> QED BY <2>3
<1>7. Whole(what, r) = r
  <2>1. CASE what = "object"
    <3>0. \A i, j \in 1..n : kids[i].key = kids[j].key => i = j
      BY <1>1, <2>1 DEF Contents
    <3>1. \A i, j \in 1..Len(r) : r[i].key = r[j].key => i = j
      <4> SUFFICES ASSUME NEW i \in 1..n, NEW j \in 1..n, r[i].key = r[j].key PROVE i = j
        BY <1>6
      <4>1. \A x, y : Entry(x, y).key = x
        BY DEF Entry
      <4>2. r[i].key = kids[i].key /\ r[j].key = kids[j].key
        BY <1>5, <4>1
      <4> QED BY <1>1, <2>1, <3>0, <4>2
    <3>2. LastOnes(r) = r
      BY <1>6, <3>1, AllLast
    <3> QED BY <2>1, <3>2 DEF Whole
  <2>2. CASE what # "object"
    BY <2>2 DEF Whole
  <2> QED BY <2>1, <2>2
<1>8. IsSeq(r)
  BY <1>6 DEF IsSeq
<1> QED BY <1>1, <1>2, <1>5, <1>6, <1>7, <1>8

(* The text of plain contents denotes them.                                *)
LEMMA FramedMeans ==
    ASSUME NEW what \in Whats, NEW kids, Contents(what, kids),
           \A i \in 1..Len(kids) : Proper(what, kids[i])
    PROVE  Meaning(Framed(what, FlattenSeq(ItemTexts(what, kids)))) =
               Value(what, << >>, Trees(kids))
<1>1. PICK n \in Nat : n = Len(kids)
  BY TextsFit
<1>2. PICK l \in Seq(Seq(Letters)) :
          /\ l = ItemTexts(what, kids) /\ Len(l) = n
          /\ \A i \in 1..n : l[i] = ItemText(what, i, kids[i])
  BY <1>1, TextsFit
<1>3. PICK t \in Seq(Letters) : t = Framed(what, FlattenSeq(l))
  <2>1. PICK op \in Letters, sp \in Letters, cl \in Letters :
            op = Opener(what) /\ sp = "sp" /\ cl = Close(what)
    BY MarkIn, LettersFit DEF Marks
  <2>2. PICK x \in Seq(Letters) : x = FlattenSeq(l)
    BY TwoPieces
  <2>3. PICK z \in Seq(Letters) : z = <<sp>> \o <<cl>>
    <3>1. <<cl>> \in Seq(Letters)
      BY OneIn
    <3>2. <<sp>> \o <<cl>> \in Seq(Letters)
      BY <3>1, InFront
    <3> QED BY <3>2
  <2>4. x \o z \in Seq(Letters)
    BY JoinFits
  <2>5. <<op>> \o (x \o z) \in Seq(Letters)
    BY <2>4, InFront
  <2> QED BY <2>1, <2>2, <2>3, <2>5 DEF Framed, Ending
<1>4. PICK s : s = Append(t, NUL)
  OBVIOUS
<1>5. Source(s) /\ Occurs(s, 1, t)
  <2>1. PICK A : t \in Seq(A) /\ NUL \in A
    <3>1. t \in Seq(Letters \cup {NUL})
      OBVIOUS
    <3> QED BY <3>1
  <2>2. /\ s \in Seq(A) /\ Len(s) = Len(t) + 1 /\ s[Len(t) + 1] = NUL
        /\ \A i \in 1..Len(t) : s[i] = t[i]
    BY <1>4, <2>1, AppendFits
  <2>3. Len(t) \in Nat
    OBVIOUS
  <2>4. s # << >>
    BY <2>2, <2>3
  <2> QED BY <2>2, <2>3, <2>4 DEF Source, IsSeq, Occurs
<1>6. PICK r : r = Trees(kids)
  OBVIOUS
<1>7. /\ IsSeq(r) /\ Len(r) = n /\ Whole(what, r) = r
      /\ \A i \in 1..n : r[i] = Entry(kids[i].key, TreeOf(kids[i].val))
  BY <1>1, <1>6, TreesFit
<1>8. \A i \in 1..n : Proper(what, kids[i])
  BY <1>1
<1>9. Occurs(s, 1, Framed(what, FlattenSeq(l)))
  BY <1>3, <1>5
<1>10. ValueAt(s, Parts(s), 1).val = Value(what, << >>, Whole(what, r))
  <2>1. Source(s)
    BY <1>5
  <2>2. n \in Nat /\ Len(l) = n /\ IsSeq(r) /\ Len(r) = n
    BY <1>2, <1>7
  <2>3. \A i \in 1..n : l[i] = ItemText(what, i, kids[i])
    BY <1>2
  <2>4. \A i \in 1..n : r[i] = Entry(kids[i].key, TreeOf(kids[i].val))
    BY <1>7
  <2>5. Spells(s, what, n, kids, l, r)
    BY <2>1, <2>2, <2>3, <2>4, <1>8, <1>9 DEF Spells
  <2> QED BY <2>5, ContainerRead
<1> QED BY <1>2, <1>3, <1>4, <1>6, <1>7, <1>10 DEF Meaning

-----------------------------------------------------------------------------
(* The pieces of the container as it is.                                   *)
Pieces == IF kind = "object" THEN ObjectPieces(table) ELSE ArrayPieces(list)
PiecesMake(what, kids, w) ==
    /\ w \in Seq(Seq(Letters)) /\ w # << >>
    /\ FlattenSeq(w) = Framed(what, FlattenSeq(ItemTexts(what, kids)))

(* Pieces that are those of the items, one after the other.                *)
LEMMA WrappedMake ==
    ASSUME NEW what \in Whats, NEW kids, Contents(what, kids), NEW k, NEW n \in Nat, n = Len(kids),
           k = [i \in 1..n |-> k[i]], \A i \in 1..n : PiecesOf(what, i, kids[i], k[i])
    PROVE  PiecesMake(what, kids, Wrapped(what, k))
<1>1. PICK B : B = Seq(Seq(Letters))
  OBVIOUS
<1>2. \A i \in 1..n : k[i] \in B
  BY <1>1 DEF PiecesOf
<1>3. k \in [1..n -> B]
  BY <1>2
<1>4. k \in Seq(B) /\ Len(k) = n
  BY <1>3
<1>5. PICK c \in Seq(Seq(Seq(Letters))) : c = k /\ Len(c) = n
  BY <1>1, <1>4
<1>6. PICK l \in Seq(Seq(Letters)) :
          /\ l = ItemTexts(what, kids) /\ Len(l) = n
          /\ \A i \in 1..n : l[i] = ItemText(what, i, kids[i])
  BY TextsFit
<1>7. \A i \in 1..n : PiecesOf(what, i, kids[i], c[i]) /\ l[i] = ItemText(what, i, kids[i])
  BY <1>5, <1>6
<1>8. WrapIs(what, c, l)
  BY <1>5, <1>6, <1>7, PiecesJoin
<1> QED BY <1>5, <1>6, <1>8 DEF WrapIs, PiecesMake

Printed(what, kids, w) == Contents(what, kids) /\ PiecesMake(what, kids, w)

LEMMA ObjectPrinted ==
    ASSUME TableFits(table), Findable(table, hash), kind = "object"
    PROVE  Printed("object", Kids, ObjectPieces(table))
<1>1. PICK s : Chain(table, s)
  BY DEF TableFits
<1>2. PICK f : f = Kids /\ f = EntriesOf(table, s)
  BY <1>1, KidsOfObject
<1>3. PICK n \in Nat : /\ n = Len(s) /\ DOMAIN s = 1..n /\ Len(f) = n /\ f \in Seq(Entries)
  <2>1. Len(s) \in Nat /\ DOMAIN s = 1..Len(s)
    BY <1>1 DEF Chain
  <2>2. f \in Seq(Entries) /\ Len(f) = Len(s)
    BY <1>1, <1>2, EntriesFit
  <2> QED BY <2>1, <2>2
<1>4. \A i \in 1..n : f[i] = Entry(table.k[s[i]], table.v[s[i]]) /\ f[i] \in Entries
  <2>1. \A i \in 1..n : f[i] = Entry(table.k[s[i]], table.v[s[i]])
    BY <1>2, <1>3 DEF EntriesOf
  <2>2. \A i \in 1..n : f[i] \in Entries
    BY <1>3
  <2> QED BY <2>1, <2>2
<1>5. \A e \in Entries : e.key \in Keys /\ e.val \in Nodes \cup {NULL} /\ e = Entry(e.key, e.val)
  BY DEF Entries, Entry, Referred
<1>6. ASSUME NEW i \in 1..n, NEW j \in 1..n, f[i].key = f[j].key PROVE i = j
  <2>1. f[i].key = table.k[s[i]] /\ f[j].key = table.k[s[j]]
    <3>1. \A x, y : Entry(x, y).key = x
      BY DEF Entry
    <3> QED BY <1>4, <3>1
  <2>2. s[i] \in Used(table) /\ s[j] \in Used(table) /\ (s[i] = s[j] => i = j)
    BY <1>1, <1>3 DEF Chain
  <2>3. s[i] = s[j]
    BY <1>6, <2>1, <2>2 DEF Findable
  <2> QED BY <2>2, <2>3
<1>7. \A i \in 1..n : Printable("object", f[i])
  <2> SUFFICES ASSUME NEW i \in 1..n PROVE Printable("object", f[i])
    OBVIOUS
  <2>1. f[i].key \in Keys /\ f[i].val \in Nodes \cup {NULL}
    BY <1>4, <1>5
  <2>2. f[i].key \in Seq(Letters)
    BY <2>1, LettersFit
  <2> QED BY <2>1, <2>2 DEF Printable
<1>8. Contents("object", f)
  <2>1. IsSeq(f)
    BY <1>3 DEF IsSeq
  <2>2. \A i \in 1..n : f[i] = Entry(f[i].key, f[i].val)
    BY <1>4, <1>5
  <2>3. \A i \in 1..n : f[i].key \in Keys
    BY <1>4, <1>5
  <2> QED BY <1>3, <1>6, <2>3, <1>7, <2>1, <2>2 DEF Contents
<1>9. LhForeach(table) = s
  <2>1. NoSlot \notin DOMAIN table.k
    BY FieldsFit DEF TableFits, NoSlot
  <2> QED BY <1>1, <2>1, ForeachFits
<1>10. PICK k : k = [i \in 1..n |-> FieldPieces(i, f[i])]
  OBVIOUS
<1>11. ObjectItems(table, LhForeach(table)) = k
  BY <1>3, <1>4, <1>9, <1>10 DEF ObjectItems
<1>12. \A i \in 1..n : PiecesOf("object", i, f[i], k[i])
  BY <1>7, <1>10, FieldFits
<1>13. k = [i \in 1..n |-> k[i]]
  BY <1>10
<1>14. PiecesMake("object", f, Wrapped("object", k))
  <2>1. "object" \in Whats
    BY DEF Whats
  <2> QED BY <1>3, <1>8, <1>12, <1>13, <2>1, WrappedMake
<1>15. ObjectPieces(table) = Wrapped("object", k)
  BY <1>11, ObjectWrapped
<1> QED BY <1>2, <1>8, <1>14, <1>15 DEF Printed

LEMMA ArrayPrinted ==
    ASSUME ArrayFits(list), kind = "array"
    PROVE  Printed("array", Kids, ArrayPieces(list))
<1>0. PICK f : f = Kids
  OBVIOUS
<1>1. PICK n \in Nat : /\ n = list.length /\ Len(f) = n /\ DOMAIN f = 1..n
                        /\ \A j \in 1..n : f[j] = Entry(<< >>, list.array[j - 1])
  BY <1>0, KidsOfArray
<1>2. \A j \in 1..n : list.array[j - 1] \in Nodes \cup {NULL}
  BY <1>1 DEF ArrayFits, Fits, Referred
<1>3. \A x, y : Entry(x, y).key = x /\ Entry(x, y).val = y
  BY DEF Entry
<1>4. \A j \in 1..n : Printable("array", f[j]) /\ f[j] = Entry(f[j].key, f[j].val)
  BY <1>1, <1>2, <1>3 DEF Printable
<1>5. IsSeq(f)
  <2>1. PICK X : X = {f[j] : j \in 1..n}
    OBVIOUS
  <2>2. f = [j \in 1..n |-> f[j]]
    <3>1. f = [j \in 1..n |-> Entry(<< >>, list.array[j - 1])]
      BY <1>0, <1>1 DEF Kids, Items
    <3> QED BY <1>1, <3>1
  <2>3. f \in [1..n -> X]
    BY <2>1, <2>2
  <2>4. f \in Seq(X)
    BY <2>3
  <2> QED BY <2>4 DEF IsSeq
<1>6. Contents("array", f)
  BY <1>1, <1>4, <1>5 DEF Contents
<1>7. PICK k : k = [i \in 1..n |-> ElementPieces(i, f[i])]
  OBVIOUS
<1>8. ArrayItems(Items(list)) = k
  <2>1. Items(list) = [i \in 1..n |-> list.array[i - 1]]
    BY <1>1 DEF Items
  <2>2. DOMAIN Items(list) = 1..n /\ \A i \in 1..n : Items(list)[i] = list.array[i - 1]
    BY <2>1
  <2> QED BY <1>1, <1>7, <2>2 DEF ArrayItems
<1>9. \A i \in 1..n : PiecesOf("array", i, f[i], k[i])
  BY <1>4, <1>7, ElementFits
<1>10. k = [i \in 1..n |-> k[i]]
  BY <1>7
<1>11. PiecesMake("array", f, Wrapped("array", k))
  <2>1. "array" \in Whats
    BY DEF Whats
  <2> QED BY <1>1, <1>6, <1>9, <1>10, <2>1, WrappedMake
<1>12. ArrayPieces(list) = Wrapped("array", k)
  BY <1>8, ArrayWrapped
<1> QED BY <1>0, <1>6, <1>11, <1>12 DEF Printed

LEMMA PiecesFit ==
    ASSUME StoreInv
    PROVE  kind \in Whats /\ Printed(kind, Kids, Pieces)
<1>1. TableFits(table) /\ Findable(table, hash) /\ ArrayFits(list) /\ use \in Uses
  BY DEF StoreInv, CountInv, Together
<1>2. kind \in Whats
  BY <1>1, UsesAssumption DEF kind, Whats
<1>3. CASE kind = "object"
  BY <1>1, <1>2, <1>3, ObjectPrinted DEF Pieces
<1>4. CASE kind = "array"
  BY <1>1, <1>2, <1>4, ArrayPrinted DEF Pieces
<1> QED BY <1>2, <1>3, <1>4 DEF Whats

-----------------------------------------------------------------------------
(* The invariant of printing: what is in the buffer and what is still to   *)
(* be appended are the pieces of the container, which no call changes in   *)
(* between.                                                                *)
Midway(w, l, t) ==
    /\ l \in Seq(Seq(Letters)) /\ l # << >> /\ t \in Seq(Letters)
    /\ t \o FlattenSeq(l) = FlattenSeq(w)
PrintInv ==
    /\ StoreInv
    /\ phase = "printing" => Midway(Pieces, left, text)
    /\ phase = "printed" => text = FlattenSeq(Pieces)

LEMMA MidwayStep ==
    ASSUME NEW w, NEW l, NEW t, Midway(w, l, t)
    PROVE  /\ Len(l) > 1 => Midway(w, Tail(l), t \o Head(l))
           /\ ~(Len(l) > 1) => t \o Head(l) = FlattenSeq(w)
<1>1. PICK p \in Seq(Seq(Letters)), a \in Seq(Letters) :
          p = l /\ p # << >> /\ a = t /\ a \o FlattenSeq(p) = FlattenSeq(w)
  BY DEF Midway
<1>2. /\ FlattenSeq(p) = Head(p) \o FlattenSeq(Tail(p))
      /\ Head(p) \in Seq(Letters) /\ Tail(p) \in Seq(Seq(Letters))
      /\ FlattenSeq(Tail(p)) \in Seq(Letters) /\ (Len(p) > 1 <=> Tail(p) # << >>)
  BY <1>1, FlatHead
<1>3. PICK b \in Seq(Letters), q \in Seq(Seq(Letters)), c \in Seq(Letters) :
          b = Head(p) /\ q = Tail(p) /\ c = FlattenSeq(q)
  BY <1>2
<1>4. a \o (b \o c) = FlattenSeq(w)
  BY <1>1, <1>2, <1>3
<1>5. (a \o b) \o c = a \o (b \o c)
  <2>1. Shifts(a, b, c)
    BY Shift
  <2> QED BY <2>1 DEF Shifts
<1>6. a \o b \in Seq(Letters)
  BY JoinFits
<1>7. CASE Len(l) > 1
  <2>1. q # << >>
    BY <1>1, <1>2, <1>3, <1>7
  <2>2. Midway(w, q, a \o b)
    BY <1>3, <1>4, <1>5, <1>6, <2>1 DEF Midway
  <2> QED BY <1>1, <1>3, <1>7, <2>2
<1>8. CASE ~(Len(l) > 1)
  <2>1. q = << >>
    BY <1>1, <1>2, <1>3, <1>8
  <2>2. FlattenSeq(<< >>) = << >>
    BY DEF FlattenSeq
  <2>3. (a \o b) \o << >> = a \o b
    BY <1>6, JoinFits
  <2>4. a \o b = FlattenSeq(w)
    BY <1>3, <1>4, <1>5, <2>1, <2>2, <2>3
  <2> QED BY <1>1, <1>3, <1>8, <2>4
<1> QED BY <1>7, <1>8

LEMMA InitPrinted == Init => PrintInv
<1> SUFFICES ASSUME Init PROVE PrintInv
  OBVIOUS
<1>1. StoreInv
  BY InitStored
<1>2. phase = "ready"
  BY DEF Init
<1> QED BY <1>1, <1>2 DEF PrintInv

LEMMA NextPrinted == PrintInv /\ [Next]_vars => PrintInv'
<1> SUFFICES ASSUME PrintInv, [Next]_vars PROVE PrintInv'
  OBVIOUS
<1>1. StoreInv /\ StoreInv'
  BY NextStored DEF PrintInv
<1>2. ASSUME phase' \notin {"printing", "printed"} PROVE PrintInv'
  BY <1>1, <1>2 DEF PrintInv
<1>3. ASSUME UNCHANGED <<use, table, list>> PROVE Pieces' = Pieces
  BY <1>3 DEF Pieces, kind
<1>4. ASSUME UNCHANGED <<use, table, list, phase, left, text>> PROVE PrintInv'
  BY <1>1, <1>3, <1>4 DEF PrintInv
<1>5. CASE UNCHANGED vars
  BY <1>4, <1>5 DEF vars, store
<1>6. ASSUME NEW key \in use.keys,
             \/ Hangs(key) \/ ObjectDel(key) \/ ObjectGet(key)
             \/ \E v \in use.nodes \cup {NULL} : ObjectAddKey(key, v)
      PROVE  PrintInv'
  BY <1>2, <1>6 DEF Hangs, ObjectDel, ObjectGet, ObjectAddKey, Returns
<1>7. ASSUME NEW v, NEW i, ArrayPutIdx(i, v) \/ Overruns(i) \/ ArrayGetIdx(i) PROVE PrintInv'
  BY <1>2, <1>7 DEF ArrayPutIdx, Overruns, ArrayGetIdx, Returns
<1>8. ASSUME NEW v, ArrayAppend(v) PROVE PrintInv'
  BY <1>7, <1>8 DEF ArrayAppend
<1>9. ASSUME NEW v, JsonObjectGet(v) PROVE PrintInv'
  BY <1>2, <1>9 DEF JsonObjectGet, Returns
<1>10. ASSUME NEW v, JsonObjectPut(v) PROVE PrintInv'
  BY <1>4, <1>10 DEF JsonObjectPut
<1>11. ASSUME ToJsonString PROVE PrintInv'
  <2>1. /\ phase' = "printing" /\ text' = << >> /\ left' = Pieces
        /\ UNCHANGED <<use, table, list>>
    BY <1>11 DEF ToJsonString, Pieces, store
  <2>2. PICK l \in Seq(Seq(Letters)) : l = Pieces /\ l # << >>
    BY <1>1, PiecesFit DEF Printed, PiecesMake
  <2>3. << >> \in Seq(Letters) /\ FlattenSeq(l) \in Seq(Letters)
    <3>1. << >> \in Seq(Letters)
      OBVIOUS
    <3> QED BY <3>1, TwoPieces
  <2>4. << >> \o FlattenSeq(l) = FlattenSeq(l)
    BY <2>3, JoinFits
  <2>5. Midway(l, l, << >>)
    BY <2>2, <2>3, <2>4 DEF Midway
  <2> QED BY <1>1, <1>3, <2>1, <2>2, <2>5 DEF PrintInv
<1>12. ASSUME AppendPiece PROVE PrintInv'
  <2>1. /\ text' = text \o Head(left) /\ left' = Tail(left) /\ UNCHANGED <<use, table, list>>
        /\ phase' = IF Len(left) > 1 THEN phase ELSE IF phase = "torn" THEN "ready" ELSE "printed"
        /\ phase \in {"printing", "torn"}
    BY <1>12 DEF AppendPiece, PieceDone, Printing, store
  <2>2. CASE phase = "torn"
    BY <1>2, <2>1, <2>2
  <2>3. CASE phase = "printing"
    <3>1. Midway(Pieces, left, text)
      BY <2>3 DEF PrintInv
    <3>2. /\ Len(left) > 1 => Midway(Pieces, Tail(left), text \o Head(left))
          /\ ~(Len(left) > 1) => text \o Head(left) = FlattenSeq(Pieces)
      BY <3>1, MidwayStep
    <3>3. Pieces' = Pieces
      BY <1>3, <2>1
    <3> QED BY <1>1, <2>1, <2>3, <3>2, <3>3 DEF PrintInv
  <2> QED BY <2>1, <2>2, <2>3
<1>13. ASSUME AppendFails PROVE PrintInv'
  <2>1. phase' = IF Len(left) > 1 THEN "torn" ELSE "ready"
    BY <1>13 DEF AppendFails
  <2> QED BY <1>2, <2>1
<1>14. ASSUME Delete PROVE PrintInv'
  BY <1>2, <1>14 DEF Delete
<1> QED BY <1>5, <1>6, <1>7, <1>8, <1>9, <1>10, <1>11, <1>12, <1>13, <1>14 DEF Next

(* The text of a container whose keys and values have no backslash is read *)
(* back as its contents.                                                   *)
LEMMA PrintedMeans == PrintInv => PrintedTextParsesBack
<1> SUFFICES ASSUME PrintInv, phase = "printed", Plain PROVE Meaning(text) = Tree
  BY DEF PrintedTextParsesBack
<1>1. PICK what \in Whats : what = kind
  BY PiecesFit DEF PrintInv
<1>2. PICK f : f = Kids
  OBVIOUS
<1>3. Contents(what, f) /\ FlattenSeq(Pieces) = Framed(what, FlattenSeq(ItemTexts(what, f)))
  BY <1>1, <1>2, PiecesFit DEF PrintInv, Printed, PiecesMake
<1>4. PICK n \in Nat : n = Len(f) /\ DOMAIN f = 1..n
  BY <1>3, SeqFits DEF Contents
<1>5. \A i \in 1..n : /\ "bs" \notin ToSet(f[i].key)
                      /\ f[i].val # NULL => "bs" \notin ToSet(Of[f[i].val].text)
  BY <1>2, <1>4 DEF Plain
<1>6. ASSUME NEW i \in 1..n PROVE Proper(what, f[i])
  <2>1. Printable(what, f[i]) /\ (what = "object" => f[i].key \in Keys)
    BY <1>3, <1>4 DEF Contents
  <2>2. PlainValue(f[i].val)
    BY <1>5 DEF PlainValue
  <2>3. ASSUME what = "object" PROVE Clean(f[i].key)
    <3>1. PICK key \in Seq(Letters) :
              key = f[i].key /\ \A j \in 1..Len(key) : key[j] # NUL
      BY <2>1, <2>3, LettersFit
    <3>2. \A j \in 1..Len(key) : key[j] \in ToSet(key)
      BY DEF ToSet
    <3>3. \A j \in 1..Len(key) : key[j] \notin {NUL, "bs"}
      BY <1>5, <3>1, <3>2
    <3> QED BY <3>1, <3>3 DEF Clean
  <2> QED BY <2>1, <2>2, <2>3 DEF Proper
<1>7. Meaning(Framed(what, FlattenSeq(ItemTexts(what, f)))) = Value(what, << >>, Trees(f))
  BY <1>3, <1>4, <1>6, FramedMeans
<1>8. text = FlattenSeq(Pieces)
  BY DEF PrintInv
<1>9. Tree = Value(what, << >>, Trees(f))
  BY <1>1, <1>2 DEF Tree, Trees
<1> QED BY <1>3, <1>7, <1>8, <1>9

(* A text that json_object_to_json_string() returned without a failed      *)
(* append denotes the container it was made from: its keys, in the order   *)
(* of their entries, with their values, or the elements of the array.      *)
(* Keys and values are any C strings without a backslash, which            *)
(* json_escape_str() leaves as it is.                                      *)
THEOREM PrintedReadBack == Spec => []PrintedTextParsesBack
<1>1. PrintInv => PrintedTextParsesBack
  BY PrintedMeans
<1> QED BY <1>1, InitPrinted, NextPrinted, PTL DEF Spec
=============================================================================
