-------------------------- MODULE JsonParseProofs --------------------------
(***************************************************************************)
(* The parser implements the grammar: for sources of any symbols and       *)
(* length without comments, the state machine of JsonTokener returns the   *)
(* value that the recursive descent of JsonGrammar finds, and an error     *)
(* where it finds none.                                                    *)
(***************************************************************************)
EXTENDS JsonPacketProofs

-----------------------------------------------------------------------------
(* The tree of values under a pointer, in a given heap.                    *)

TreeAt(h, t, p) ==
    IF p \in DOMAIN h
    THEN [kind |-> h[p].kind, text |-> h[p].text,
          kids |-> [i \in DOMAIN h[p].kids |->
                       Entry(h[p].kids[i].key, t[h[p].kids[i].val])]]
    ELSE IF p = NULL THEN NullValue ELSE ErrorValue
TreeIn(h) == CHOOSE t : t = [p \in Int |-> TreeAt(h, t, p)]

(* A container comes before the values in it.                              *)
Ordered(h) ==
    /\ Len(h) \in Nat /\ DOMAIN h = 1..Len(h)
    /\ \A c \in DOMAIN h : \A k \in DOMAIN h[c].kids :
          h[c].kids[k].val \in Int /\ (h[c].kids[k].val > 0 => c < h[c].kids[k].val)

(* A node's tree depends on the trees of its values.                       *)
LEMMA TreeLocal ==
    ASSUME NEW h, NEW f, NEW g, NEW p,
           p \in DOMAIN h => \A k \in DOMAIN h[p].kids : f[h[p].kids[k].val] = g[h[p].kids[k].val]
    PROVE  TreeAt(h, f, p) = TreeAt(h, g, p)
<1>1. CASE p \in DOMAIN h
  <2>1. [i \in DOMAIN h[p].kids |-> Entry(h[p].kids[i].key, f[h[p].kids[i].val])]
        = [i \in DOMAIN h[p].kids |-> Entry(h[p].kids[i].key, g[h[p].kids[i].val])]
    BY <1>1
  <2> QED BY <1>1, <2>1 DEF TreeAt
<1>2. CASE p \notin DOMAIN h
  BY <1>2 DEF TreeAt
<1> QED BY <1>1, <1>2

LEMMA TreeThere ==
    ASSUME NEW h, Ordered(h)
    PROVE  \E t : t = [p \in Int |-> TreeAt(h, t, p)]
<1>1. PICK n \in Nat : n = Len(h) /\ DOMAIN h = 1..n
  BY DEF Ordered
<1> DEFINE Stage(f, k) ==
               /\ DOMAIN f = Int
               /\ \A p \in Int : p \in Final(n, k) \/ p \notin 1..n => f[p] = TreeAt(h, f, p)
           S == {k \in 0..n : \E f : Stage(f, k)}
<1>2. 0 \in S
  <2>1. PICK f, g : g = [q \in Int |-> ErrorValue] /\ f = [p \in Int |-> TreeAt(h, g, p)]
    OBVIOUS
  <2>2. ASSUME NEW p \in Int, p \notin 1..n PROVE f[p] = TreeAt(h, f, p)
    <3>1. TreeAt(h, g, p) = TreeAt(h, f, p)
      BY <1>1, <2>2, TreeLocal
    <3> QED BY <2>1, <3>1
  <2>3. Stage(f, 0)
    BY <2>1, <2>2, FinalFits
  <2> QED BY <2>3
<1>3. ASSUME NEW k \in 0..n - 1, k \in S PROVE k + 1 \in S
  <2>1. PICK f : Stage(f, k)
    BY <1>3
  <2>2. PICK i \in 1..n : /\ i = n - k /\ i \notin Final(n, k)
                          /\ \A j \in Final(n, k + 1) : j = i \/ j \in Final(n, k)
                          /\ \A j \in Final(n, k + 1) : \A l \in j + 1..n : l \in Final(n, k)
                          /\ Final(n, k) \subseteq 1..n /\ Final(n, k + 1) \subseteq 1..n
    BY FinalFits
  <2>3. PICK g : g = [p \in Int |-> IF p = i THEN TreeAt(h, f, i) ELSE f[p]]
    OBVIOUS
  <2>4. ASSUME NEW p \in Int, p \in Final(n, k + 1) \/ p \notin 1..n
        PROVE  TreeAt(h, f, p) = TreeAt(h, g, p)
    <3>1. ASSUME p \in DOMAIN h, NEW m \in DOMAIN h[p].kids
          PROVE  f[h[p].kids[m].val] = g[h[p].kids[m].val]
      <4>1. PICK v \in Int : v = h[p].kids[m].val /\ (v > 0 => p < v)
        BY <3>1 DEF Ordered
      <4>2. p \in Final(n, k + 1)
        BY <1>1, <2>4, <3>1
      <4>3. v # i
        <5>1. p = i \/ i < p
          BY <2>2, <4>2 DEF Final
        <5> QED BY <4>1, <5>1
      <4> QED BY <2>3, <4>1, <4>3
    <3> QED BY <3>1, TreeLocal
  <2>5. ASSUME NEW p \in Int, p \in Final(n, k + 1) \/ p \notin 1..n
        PROVE  g[p] = TreeAt(h, g, p)
    <3>1. CASE p = i
      BY <2>3, <2>4, <2>5, <3>1
    <3>2. CASE p # i
      <4>1. p \in Final(n, k) \/ p \notin 1..n
        BY <2>2, <2>5, <3>2
      <4> QED BY <2>1, <2>3, <2>4, <2>5, <3>2, <4>1
    <3> QED BY <3>1, <3>2
  <2>6. Stage(g, k + 1) /\ k + 1 \in 0..n
    BY <2>3, <2>5
  <2> QED BY <2>6
<1> HIDE DEF S
<1>4. \A k \in 0..n : k \in S
  BY <1>2, <1>3, Induct
<1>5. PICK f : Stage(f, n)
  <2>1. n \in S
    BY <1>1, <1>4
  <2> QED BY <2>1 DEF S
<1>6. \A p \in Int : f[p] = TreeAt(h, f, p)
  BY <1>5, FinalFits
<1>7. PICK g : g = [p \in Int |-> TreeAt(h, f, p)]
  OBVIOUS
<1>8. ASSUME NEW p \in Int PROVE TreeAt(h, f, p) = TreeAt(h, g, p)
  <2>1. ASSUME p \in DOMAIN h, NEW m \in DOMAIN h[p].kids
        PROVE  f[h[p].kids[m].val] = g[h[p].kids[m].val]
    <3>1. h[p].kids[m].val \in Int
      BY <2>1 DEF Ordered
    <3> QED BY <1>6, <1>7, <3>1
  <2> QED BY <2>1, TreeLocal
<1>9. g = [p \in Int |-> TreeAt(h, g, p)]
  BY <1>7, <1>8
<1> QED BY <1>9

LEMMA TreeFits ==
    ASSUME NEW h, Ordered(h), NEW p \in Int
    PROVE  TreeIn(h)[p] = TreeAt(h, TreeIn(h), p)
<1>1. PICK t : t = TreeIn(h)
  OBVIOUS
<1>2. t = [q \in Int |-> TreeAt(h, t, q)]
  BY <1>1, TreeThere DEF TreeIn
<1> QED BY <1>1, <1>2

(* Pointers have the same trees in two heaps that agree on what can be     *)
(* reached from them.                                                      *)
Agrees(h, g, p) ==
    /\ p \in DOMAIN h <=> p \in DOMAIN g
    /\ p \in DOMAIN h =>
          g[p].kind = h[p].kind /\ g[p].text = h[p].text /\ g[p].kids = h[p].kids

LEMMA TreeSame ==
    ASSUME NEW h, NEW g, Ordered(h), Ordered(g), NEW K \in SUBSET Int,
           \A p \in K : /\ Agrees(h, g, p)
                        /\ p \in DOMAIN h => \A k \in DOMAIN h[p].kids : h[p].kids[k].val \in K
    PROVE  \A p \in K : TreeIn(g)[p] = TreeIn(h)[p]
<1>1. PICK n \in Nat : n = Len(h) /\ DOMAIN h = 1..n
  BY DEF Ordered
<1>2. PICK t, u : t = TreeIn(h) /\ u = TreeIn(g)
  OBVIOUS
<1>3. \A p \in Int : t[p] = TreeAt(h, t, p) /\ u[p] = TreeAt(g, u, p)
  BY <1>2, TreeFits
<1>4. ASSUME NEW p \in K PROVE TreeAt(g, u, p) = TreeAt(h, u, p)
  <2>1. Agrees(h, g, p)
    OBVIOUS
  <2> QED BY <2>1 DEF Agrees, TreeAt
<1>5. ASSUME NEW p \in K, p \in DOMAIN h => \A k \in DOMAIN h[p].kids : t[h[p].kids[k].val] = u[h[p].kids[k].val]
      PROVE  u[p] = t[p]
  <2>1. TreeAt(h, t, p) = TreeAt(h, u, p)
    BY <1>5, TreeLocal
  <2> QED BY <1>3, <1>4, <2>1
<1> DEFINE R == {k \in 0..n : \A p \in K : p \in Final(n, k) \/ p \notin 1..n => u[p] = t[p]}
<1>6. 0 \in R
  BY <1>1, <1>5, FinalFits
<1>7. ASSUME NEW k \in 0..n - 1, k \in R PROVE k + 1 \in R
  <2>1. ASSUME NEW p \in K, p \in Final(n, k + 1) PROVE u[p] = t[p]
    <3>1. ASSUME p \in DOMAIN h, NEW m \in DOMAIN h[p].kids
          PROVE  t[h[p].kids[m].val] = u[h[p].kids[m].val]
      <4>1. PICK v \in K : v = h[p].kids[m].val /\ (v > 0 => p < v)
        BY <3>1 DEF Ordered
      <4>2. v \in Final(n, k) \/ v \notin 1..n
        <5>1. v \in 1..n => v \in p + 1..n
          BY <1>1, <3>1, <4>1
        <5> QED BY <2>1, <5>1, FinalFits
      <4> QED BY <1>7, <4>1, <4>2
    <3> QED BY <1>5, <3>1
  <2>2. k + 1 \in 0..n
    OBVIOUS
  <2> QED BY <1>7, <2>1, <2>2
<1> HIDE DEF R
<1>8. \A k \in 0..n : k \in R
  BY <1>6, <1>7, Induct
<1>9. n \in R
  BY <1>1, <1>8
<1> QED BY <1>2, <1>9, FinalFits DEF R

-----------------------------------------------------------------------------
(* What a call says about the value g that the grammar finds where it      *)
(* began: g is made of what the call has read and of what is found from    *)
(* the place p on, where the call is.                                      *)

(* The states that are come to over white space.                           *)
Spaced == {"start", "finish", "array", "array_sep",
           "object", "object_field_end", "object_value", "object_sep"}

(* In state x, outside of a container; t gives the trees of the pointers.  *)
SaysValue(s, t, x, f, p, g) ==
    /\ x = "start" => f.text = << >> /\ g = ValueAt(s, Parts(s), p)
    /\ x = "finish" => g = Got(t[f.current], Skip(s, p))
    /\ x = "null" => \/ f.text = <<"null">> /\ g = Got(NullValue, Skip(s, p))
                     \/ f.text = <<"nulx">> /\ g = None
    /\ x = "boolean" =>
          \/ f.text = <<"true">> /\ g = Got(Value("boolean", <<"true">>, << >>), Skip(s, p))
          \/ f.text = <<"trux">> /\ g = None
    /\ x = "string" => g = Trimmed(s, Behind(f.text, Text(s, f.quote)[p]))
    /\ x = "number" => g = Trimmed(s, Numeral(f.text \o SubSeq(s, p, Run(s, p) - 1), Run(s, p)))

(* In a container, r is what is left of it.                                *)
Left(s, x, f, p, r) ==
    /\ x = "array" => r = Parts(s)[<<"array", p>>]
    /\ x = "array_sep" => r = AfterItem(s, Parts(s), "array", p)
    /\ x \in {"object", "object_field_start"} => r = Parts(s)[<<"object", p>>]
    /\ x = "object_field" => r = AfterName(s, Parts(s), Behind(f.text, Text(s, f.quote)[p]))
    /\ x = "object_field_end" => r = AfterName(s, Parts(s), Got(Value("string", f.name, << >>), p))
    /\ x = "object_value" => r = WithItem(s, Parts(s), "object", f.name, ValueAt(s, Parts(s), p))
    /\ x = "object_sep" => r = AfterItem(s, Parts(s), "object", p)

(* l are the items or fields read so far.                                  *)
WhatIn(x) == IF x \in {"array", "array_sep"} THEN "array" ELSE "object"
Says(s, t, x, f, l, p, g) ==
    IF x \in Filling THEN \E r : Left(s, x, f, p, r) /\ g = Gathered(s, WhatIn(x), l, r)
    ELSE SaysValue(s, t, x, f, p, g)

FrameSays(s, t, f, l, p, g) ==
    /\ p \in 1..Len(s) /\ f.state \in {"eatws", "string_escape"} \cup Goals
    /\ f.state = "eatws" => f.saved \in Spaced /\ Says(s, t, f.saved, f, l, Skip(s, p), g)
    /\ f.state = "string_escape" =>
          /\ f.saved \in {"string", "object_field"} /\ p - 1 \in 1..Len(s) /\ s[p - 1] = "bs"
          /\ Says(s, t, f.saved, f, l, p - 1, g)
    /\ f.state \in Goals => Says(s, t, f.state, f, l, p, g)
    /\ f.state \in Spaced \cup {"object_field_start"} => s[p] \notin White

(* The object a call builds has the items or fields read so far.           *)
KidsSay(t, f, l) ==
    Aim(f) \in Filling =>
        IsSeq(l) /\ t[f.current] = Value(WhatIn(Aim(f)), << >>, Whole(WhatIn(Aim(f)), l))

LEMMA SaysSkip ==
    ASSUME NEW s, Source(s), NEW t, NEW x \in Spaced, NEW f, NEW l, NEW i \in 1..Len(s), NEW g,
           Says(s, t, x, f, l, i, g)
    PROVE  Says(s, t, x, f, l, Skip(s, i), g)
<1>1. PICK j, h : j = Skip(s, i) /\ h = Parts(s) /\ j \in 1..Len(s) /\ Skip(s, j) = j
  BY SkipFits
<1>2. ValueAt(s, h, i) = ValueAt(s, h, j)
  BY <1>1 DEF ValueAt
<1>3. \A what \in Whats : h[<<what, i>>] = h[<<what, j>>]
  <2>1. \A what \in Whats : h[<<what, i>>] = PartAt(s, h, what, i) /\ h[<<what, j>>] = PartAt(s, h, what, j)
    BY <1>1, GrammarFits
  <2>2. \A what \in Whats : PartAt(s, h, what, i) = PartAt(s, h, what, j)
    BY <1>1 DEF PartAt
  <2> QED BY <2>1, <2>2
<1>4. \A what : AfterItem(s, h, what, i) = AfterItem(s, h, what, j)
  BY <1>1 DEF AfterItem
<1>5. \A n : AfterName(s, h, Got(Value("string", n, << >>), i)) = AfterName(s, h, Got(Value("string", n, << >>), j))
  <2> TAKE n
  <2>1. PICK a, b : a = Got(Value("string", n, << >>), i) /\ b = Got(Value("string", n, << >>), j)
    OBVIOUS
  <2>2. a.next = i /\ b.next = j /\ a.val = b.val /\ (Failed(a) <=> Failed(b))
    BY <2>1 DEF Got, Failed
  <2>3. AfterName(s, h, a) = AfterName(s, h, b)
    BY <1>1, <2>2 DEF AfterName
  <2> QED BY <2>1, <2>3
<1>6. CASE x \notin Filling
  <2>1. SaysValue(s, t, x, f, i, g)
    BY <1>6 DEF Says
  <2>2. SaysValue(s, t, x, f, j, g)
    BY <1>1, <1>2, <2>1 DEF SaysValue, Spaced
  <2> QED BY <1>1, <1>6, <2>2 DEF Says
<1>7. CASE x \in Filling
  <2>1. PICK r : Left(s, x, f, i, r) /\ g = Gathered(s, WhatIn(x), l, r)
    BY <1>7 DEF Says
  <2>2. Left(s, x, f, j, r)
    BY <1>1, <1>2, <1>3, <1>4, <1>5, <2>1 DEF Left, Spaced, Whats
  <2> QED BY <1>1, <1>7, <2>1, <2>2 DEF Says
<1> QED BY <1>6, <1>7

(* A call that is to go on in state x, over white space.                   *)
LEMMA SaysThen ==
    ASSUME NEW s, Source(s), NEW t, NEW x \in Spaced, NEW f, NEW l, NEW i \in 1..Len(s), NEW g,
           f.state = "eatws", f.saved = x, Says(s, t, x, f, l, i, g)
    PROVE  FrameSays(s, t, f, l, i, g)
<1>1. Says(s, t, x, f, l, Skip(s, i), g)
  BY SaysSkip
<1> QED BY <1>1 DEF FrameSays, Goals, Empty, Filling, Spaced

(* The state is not part of what is said.                                  *)
Alike(f, k) == k.current = f.current /\ k.quote = f.quote /\ k.text = f.text /\ k.name = f.name

LEMMA SaysAlike ==
    ASSUME NEW s, NEW t, NEW x, NEW f, NEW k, Alike(f, k), NEW l, NEW p, NEW g,
           Says(s, t, x, f, l, p, g)
    PROVE  Says(s, t, x, k, l, p, g)
<1>1. CASE x \notin Filling
  <2>1. SaysValue(s, t, x, f, p, g)
    BY <1>1 DEF Says
  <2>2. SaysValue(s, t, x, k, p, g)
    BY <2>1 DEF SaysValue, Alike
  <2> QED BY <1>1, <2>2 DEF Says
<1>2. CASE x \in Filling
  <2>1. PICK r : Left(s, x, f, p, r) /\ g = Gathered(s, WhatIn(x), l, r)
    BY <1>2 DEF Says
  <2>2. Left(s, x, k, p, r)
    BY <2>1 DEF Left, Alike
  <2> QED BY <1>2, <2>1, <2>2 DEF Says
<1> QED BY <1>1, <1>2

LEMMA EatWsSays ==
    ASSUME NEW s, Source(s), NEW t, NEW f, NEW l, NEW p, NEW g, FrameSays(s, t, f, l, p, g),
           f.state = "eatws"
    PROVE  /\ s[p] \in White => FrameSays(s, t, f, l, p + 1, g)
           /\ \A k : s[p] \notin White /\ Alike(f, k) /\ k.state = f.saved =>
                         FrameSays(s, t, k, l, p, g)
<1>1. p \in 1..Len(s) /\ f.saved \in Spaced /\ Says(s, t, f.saved, f, l, Skip(s, p), g)
  BY DEF FrameSays
<1>2. ASSUME s[p] \in White PROVE FrameSays(s, t, f, l, p + 1, g)
  <2>1. p + 1 \in 1..Len(s) /\ Skip(s, p + 1) = Skip(s, p)
    BY <1>1, <1>2, SkipFits
  <2> QED BY <1>1, <2>1 DEF FrameSays, Goals, Empty, Filling, Spaced
<1>3. ASSUME NEW k, s[p] \notin White, Alike(f, k), k.state = f.saved
      PROVE  FrameSays(s, t, k, l, p, g)
  <2>1. Skip(s, p) = p
    BY <1>1, <1>3, SkipFits
  <2>2. Says(s, t, f.saved, k, l, p, g)
    BY <1>1, <1>3, <2>1, SaysAlike
  <2> QED BY <1>1, <1>3, <2>2 DEF FrameSays, Goals, Empty, Filling, Spaced
<1> QED BY <1>2, <1>3

(* What is left of a container, from a place on that has no white space.   *)
LEMMA ArrayIs ==
    ASSUME NEW s, Source(s), NEW p \in 1..Len(s), s[p] \notin White, NEW f, NEW r,
           Left(s, "array", f, p, r)
    PROVE  r = IF s[p] = "]" THEN Closed("array", p + 1)
               ELSE WithItem(s, Parts(s), "array", << >>, ValueAt(s, Parts(s), p))
<1>1. Skip(s, p) = p
  BY SkipFits
<1>2. Parts(s)[<<"array", p>>] = PartAt(s, Parts(s), "array", p)
  BY GrammarFits DEF Whats
<1> QED BY <1>1, <1>2 DEF Left, PartAt, Close

LEMMA SepIs ==
    ASSUME NEW s, Source(s), NEW p \in 1..Len(s), s[p] \notin White, NEW f, NEW r,
           NEW x \in {"array_sep", "object_sep"}, Left(s, x, f, p, r)
    PROVE  r = IF s[p] = "," THEN Parts(s)[<<WhatIn(x), p + 1>>]
               ELSE IF s[p] = Close(WhatIn(x)) THEN Closed(WhatIn(x), p + 1) ELSE None
<1>1. Skip(s, p) = p
  BY SkipFits
<1> QED BY <1>1 DEF Left, AfterItem, WhatIn

LEMMA ObjectIs ==
    ASSUME NEW s, Source(s), NEW p \in 1..Len(s), s[p] \notin White, NEW f, NEW r,
           NEW x \in {"object", "object_field_start"}, Left(s, x, f, p, r)
    PROVE  r = IF s[p] = "}" THEN Closed("object", p + 1)
               ELSE IF s[p] \in Quotes THEN AfterName(s, Parts(s), Text(s, s[p])[p + 1]) ELSE None
<1>1. Skip(s, p) = p
  BY SkipFits
<1>2. Parts(s)[<<"object", p>>] = PartAt(s, Parts(s), "object", p)
  BY GrammarFits DEF Whats
<1> QED BY <1>1, <1>2 DEF Left, PartAt, Close

LEMMA FieldEndIs ==
    ASSUME NEW s, Source(s), NEW p \in 1..Len(s), s[p] \notin White, NEW f, NEW r,
           Left(s, "object_field_end", f, p, r)
    PROVE  r = IF s[p] = ":" THEN WithItem(s, Parts(s), "object", f.name, ValueAt(s, Parts(s), p + 1))
               ELSE None
<1>1. Skip(s, p) = p
  BY SkipFits
<1>2. PICK y : y = Got(Value("string", f.name, << >>), p)
  OBVIOUS
<1>3. y.next = p /\ y.val.text = f.name /\ ~Failed(y)
  BY <1>2 DEF Got, Failed, Value
<1>4. r = AfterName(s, Parts(s), y)
  BY <1>2 DEF Left
<1> QED BY <1>1, <1>3, <1>4 DEF AfterName

-----------------------------------------------------------------------------
(* Inside quotes.                                                          *)

(* What a string or the name of a field is, once its text is known.        *)
InText == {"string", "object_field"}
Quoted(s, x, l, y, g) ==
    IF x = "string" THEN g = Trimmed(s, y)
    ELSE g = Gathered(s, "object", l, AfterName(s, Parts(s), y))

LEMMA QuotedIs ==
    ASSUME NEW s, NEW t, NEW x \in InText, NEW f, NEW l, NEW p, NEW g
    PROVE  Says(s, t, x, f, l, p, g) <=> Quoted(s, x, l, Behind(f.text, Text(s, f.quote)[p]), g)
<1>1. CASE x = "string"
  BY <1>1 DEF Says, SaysValue, Quoted, Filling
<1>2. CASE x = "object_field"
  <2>1. PICK y : y = AfterName(s, Parts(s), Behind(f.text, Text(s, f.quote)[p]))
    OBVIOUS
  <2>2. \A r : Left(s, x, f, p, r) <=> r = y
    BY <1>2, <2>1 DEF Left
  <2> QED BY <1>2, <2>1, <2>2 DEF Says, Quoted, WhatIn, Filling
<1> QED BY <1>1, <1>2 DEF InText

LEMMA QuotedNone ==
    ASSUME NEW s, NEW x, NEW l, NEW g, Quoted(s, x, l, None, g)
    PROVE  g = None
<1>1. Trimmed(s, None) = None /\ AfterName(s, Parts(s), None) = None
  BY GotFits DEF Trimmed, AfterName
<1> QED BY <1>1, GotFits DEF Quoted, Gathered

(* A turn inside quotes, and after a backslash.                            *)
Extends(f, k, c) ==
    k.current = f.current /\ k.quote = f.quote /\ k.text = Append(f.text, c) /\ k.name = f.name

LEMMA InQuotesSays ==
    ASSUME NEW s, Source(s), NEW t, NEW f, NEW l, NEW p, NEW g, FrameSays(s, t, f, l, p, g),
           f.state \in InText, f.quote \in Quotes, IsSeq(f.text)
    PROVE  /\ s[p] = "bs" =>
                 \A k : Alike(f, k) /\ k.state = "string_escape" /\ k.saved = f.state =>
                            FrameSays(s, t, k, l, p + 1, g)
           /\ s[p] = NUL => g = None
           /\ s[p] \notin {f.quote, "bs", NUL} =>
                 \A k : Extends(f, k, s[p]) /\ k.state = f.state => FrameSays(s, t, k, l, p + 1, g)
<1>1. p \in 1..Len(s) /\ Says(s, t, f.state, f, l, p, g) /\ f.state \notin {"eatws", "string_escape"}
      /\ f.state \in Goals /\ f.state \notin Spaced \cup {"object_field_start"}
  BY DEF FrameSays, InText, Goals, Empty, Filling, Spaced
<1>2. Quoted(s, f.state, l, Behind(f.text, Text(s, f.quote)[p]), g)
  BY <1>1, QuotedIs
<1>3. ASSUME s[p] = "bs", NEW k, Alike(f, k), k.state = "string_escape", k.saved = f.state
      PROVE  FrameSays(s, t, k, l, p + 1, g)
  <2>1. p + 1 \in 1..Len(s) /\ (p + 1) - 1 = p
    BY <1>1, <1>3, SourceFits DEF NUL
  <2>2. Says(s, t, f.state, k, l, p, g)
    BY <1>1, <1>3, SaysAlike
  <2> QED BY <1>1, <1>3, <2>1, <2>2 DEF FrameSays, InText, Goals, Empty, Filling, Spaced
<1>4. ASSUME s[p] = NUL PROVE g = None
  <2>1. Behind(f.text, Text(s, f.quote)[p]) = None
    BY <1>1, <1>4, BehindIs
  <2> QED BY <1>2, <2>1, QuotedNone
<1>5. ASSUME s[p] \notin {f.quote, "bs", NUL}, NEW k, Extends(f, k, s[p]), k.state = f.state
      PROVE  FrameSays(s, t, k, l, p + 1, g)
  <2>1. p + 1 \in 1..Len(s)
    BY <1>1, <1>5, SourceFits
  <2>2. Behind(f.text, Text(s, f.quote)[p]) = Behind(Append(f.text, s[p]), Text(s, f.quote)[p + 1])
    BY <1>1, <1>5, BehindIs
  <2>3. Quoted(s, k.state, l, Behind(k.text, Text(s, k.quote)[p + 1]), g)
    BY <1>2, <1>5, <2>2 DEF Extends
  <2>4. Says(s, t, k.state, k, l, p + 1, g)
    BY <1>5, <2>3, QuotedIs
  <2> QED BY <1>1, <1>5, <2>1, <2>4 DEF FrameSays
<1> QED BY <1>3, <1>4, <1>5

LEMMA EscapeSays ==
    ASSUME NEW s, Source(s), NEW t, NEW f, NEW l, NEW p, NEW g, FrameSays(s, t, f, l, p, g),
           f.state = "string_escape", f.quote \in Quotes, IsSeq(f.text)
    PROVE  /\ s[p] \in Escapable =>
                 \A k : Extends(f, k, s[p]) /\ k.state = f.saved => FrameSays(s, t, k, l, p + 1, g)
           /\ s[p] \notin Escapable => g = None
<1>1. /\ p \in 1..Len(s) /\ f.saved \in InText /\ p - 1 \in 1..Len(s) /\ s[p - 1] = "bs"
      /\ Says(s, t, f.saved, f, l, p - 1, g)
  BY DEF FrameSays, InText
<1>2. PICK i \in 1..Len(s) : i = p - 1 /\ i + 1 = p /\ i + 2 = p + 1
  BY <1>1
<1>3. Quoted(s, f.saved, l, Behind(f.text, Text(s, f.quote)[i]), g)
  BY <1>1, <1>2, QuotedIs
<1>4. ASSUME s[p] \in Escapable, NEW k, Extends(f, k, s[p]), k.state = f.saved
      PROVE  FrameSays(s, t, k, l, p + 1, g)
  <2>1. p + 1 \in 1..Len(s)
    BY <1>1, <1>4, SourceFits DEF Escapable, NUL
  <2>2. Behind(f.text, Text(s, f.quote)[i]) = Behind(Append(f.text, s[i + 1]), Text(s, f.quote)[i + 2])
    BY <1>1, <1>2, <1>4, BehindIs
  <2>3. Quoted(s, k.state, l, Behind(k.text, Text(s, k.quote)[p + 1]), g)
    BY <1>2, <1>3, <1>4, <2>2 DEF Extends
  <2>4. Says(s, t, k.state, k, l, p + 1, g)
    BY <1>1, <1>4, <2>3, QuotedIs
  <2> QED BY <1>1, <1>4, <2>1, <2>4 DEF FrameSays, InText, Goals, Empty, Filling, Spaced
<1>5. ASSUME s[p] \notin Escapable PROVE g = None
  <2>1. Behind(f.text, Text(s, f.quote)[i]) = None
    BY <1>1, <1>2, <1>5, BehindIs
  <2> QED BY <1>3, <2>1, QuotedNone
<1> QED BY <1>4, <1>5

-----------------------------------------------------------------------------
(* The turns outside of a container.                                       *)

(* A call that has its value.                                              *)
LEMMA FoundSays ==
    ASSUME NEW s, Source(s), NEW t, NEW k, NEW l, NEW p \in 1..Len(s), NEW g,
           k.state = "eatws", k.saved = "finish", g = Got(t[k.current], Skip(s, p))
    PROVE  FrameSays(s, t, k, l, p, g)
<1>1. Says(s, t, "finish", k, l, p, g)
  BY DEF Says, SaysValue, Filling
<1> QED BY <1>1, SaysThen DEF Spaced

LEMMA FinishSays ==
    ASSUME NEW s, Source(s), NEW t, NEW f, NEW l, NEW p, NEW g, FrameSays(s, t, f, l, p, g),
           f.state = "finish" \/ (f.state = "eatws" /\ f.saved = "finish")
    PROVE  g = Got(t[f.current], Skip(s, p))
<1>1. p \in 1..Len(s) /\ Skip(s, Skip(s, p)) = Skip(s, p)
  BY SkipFits DEF FrameSays
<1>2. CASE f.state = "finish"
  <2>1. Says(s, t, "finish", f, l, p, g)
    BY <1>2 DEF FrameSays, Goals
  <2> QED BY <2>1 DEF Says, SaysValue, Filling
<1>3. CASE f.state = "eatws" /\ f.saved = "finish"
  <2>1. Says(s, t, "finish", f, l, Skip(s, p), g)
    BY <1>3 DEF FrameSays
  <2> QED BY <1>1, <2>1 DEF Says, SaysValue, Filling
<1> QED BY <1>2, <1>3

LEMMA StringSays ==
    ASSUME NEW s, Source(s), NEW t, NEW f, NEW l, NEW p, NEW g, FrameSays(s, t, f, l, p, g),
           f.state = "string", f.quote \in Quotes, IsSeq(f.text), s[p] = f.quote,
           NEW u, NEW k, k.state = "eatws", k.saved = "finish",
           u[k.current] = Value("string", f.text, << >>)
    PROVE  FrameSays(s, u, k, l, p + 1, g)
<1>1. p \in 1..Len(s) /\ g = Trimmed(s, Behind(f.text, Text(s, f.quote)[p]))
  BY DEF FrameSays, Goals, Empty, Says, Filling, SaysValue
<1>2. p + 1 \in 1..Len(s)
  BY <1>1, SourceFits DEF NUL, Quotes
<1>3. Behind(f.text, Text(s, f.quote)[p]) = Got(Value("string", f.text, << >>), p + 1)
  BY <1>1, BehindIs
<1>4. g = Got(Value("string", f.text, << >>), Skip(s, p + 1))
  <2>1. Value("string", f.text, << >>).kind # "error"
    BY DEF Value
  <2>2. PICK v : v = Value("string", f.text, << >>) /\ v.kind # "error"
    BY <2>1
  <2>3. Trimmed(s, Got(v, p + 1)) = Got(v, Skip(s, p + 1))
    BY <2>2, TrimmedGot
  <2> QED BY <1>1, <1>3, <2>2, <2>3
<1> QED BY <1>2, <1>4, FoundSays

Starts == {"{", "[", "null", "true"} \cup Quotes \cup NumberChars

LEMMA StartSays ==
    ASSUME NEW s, Source(s), NEW t, NEW f, NEW l, NEW p, NEW g, FrameSays(s, t, f, l, p, g),
           f.state = "start"
    PROVE  /\ f.text = << >>
           /\ \A what \in Whats : s[p] = Opener(what) =>
                 \A u, k : k.state = "eatws" /\ k.saved = what => FrameSays(s, u, k, << >>, p + 1, g)
           /\ s[p] \in Quotes =>
                 \A k : k.state = "string" /\ k.quote = s[p] /\ k.text = << >> =>
                            FrameSays(s, t, k, l, p + 1, g)
           /\ s[p] \in NumberChars =>
                 \A k : k.state = "number" /\ k.text = <<s[p]>> => FrameSays(s, t, k, l, p + 1, g)
           /\ s[p] \in {"null", "nulx"} =>
                 \A k : k.state = "null" /\ k.text = <<s[p]>> => FrameSays(s, t, k, l, p + 1, g)
           /\ s[p] \in {"true", "trux"} =>
                 \A k : k.state = "boolean" /\ k.text = <<s[p]>> => FrameSays(s, t, k, l, p + 1, g)
           /\ s[p] \notin Starts => g = None
<1>1. /\ p \in 1..Len(s) /\ s[p] \notin White
      /\ SaysValue(s, t, "start", f, p, g)
  BY DEF FrameSays, Goals, Empty, Spaced, Says, Filling
<1>2. PICK h : h = Parts(s)
  OBVIOUS
<1>3. f.text = << >> /\ g = ValueAt(s, h, p)
  BY <1>1, <1>2 DEF SaysValue
<1>4. g = Trimmed(s, Core(s, h, p))
  BY <1>1, <1>3, SkipFits, ValueIs
<1>5. ASSUME s[p] # NUL PROVE p + 1 \in 1..Len(s)
  BY <1>1, <1>5, SourceFits
<1>12. s[p] \notin Starts => g = None
  <2>1. s[p] \notin Starts => Core(s, h, p) = None
    BY CoreArms DEF Starts
  <2>2. Trimmed(s, None) = None
    BY GotFits DEF Trimmed
  <2> QED BY <1>4, <2>1, <2>2
<1>6. ASSUME NEW what \in Whats, s[p] = Opener(what),
             NEW u, NEW k, k.state = "eatws", k.saved = what
      PROVE  FrameSays(s, u, k, << >>, p + 1, g)
  <2>1. p + 1 \in 1..Len(s)
    BY <1>5, <1>6 DEF NUL, Opener
  <2>2. g = Gathered(s, what, << >>, h[<<what, p + 1>>])
    BY <1>2, <1>4, <1>6, <2>1, OpenedIs
  <2>3. Left(s, what, k, p + 1, h[<<what, p + 1>>])
    BY <1>2 DEF Left, Whats
  <2>4. Says(s, u, what, k, << >>, p + 1, g)
    BY <2>2, <2>3 DEF Says, Whats, Filling, WhatIn
  <2> QED BY <1>6, <2>1, <2>4, SaysThen DEF Whats, Spaced
<1>7. ASSUME s[p] \in Quotes, NEW k, k.state = "string", k.quote = s[p], k.text = << >>
      PROVE  FrameSays(s, t, k, l, p + 1, g)
  <2>1. s[p] # NUL /\ p + 1 \in 1..Len(s)
    BY <1>5, <1>7 DEF NUL, Quotes
  <2>2. PICK y : y = Text(s, s[p])[p + 1] /\ FineText(s, y, p + 1)
    BY <2>1, TextThere
  <2>3. g = Trimmed(s, y)
    BY <1>4, <1>7, <2>2, CoreArms
  <2>4. Behind(<< >>, y) = y
    <3>1. CASE Failed(y)
      BY <2>2, <3>1, GotFits DEF Behind, FineText, Fine
    <3>2. CASE ~Failed(y)
      <4>1. /\ IsSeq(y.val.text) /\ y = Got(y.val, y.next)
            /\ y.val = Value("string", y.val.text, << >>)
        BY <2>2, <3>2, GotFits DEF FineText, Fine
      <4>2. << >> \o y.val.text = y.val.text
        BY <4>1, Regroup
      <4> QED BY <3>2, <4>1, <4>2 DEF Behind
    <3> QED BY <3>1, <3>2
  <2>5. Quoted(s, "string", l, Behind(k.text, Text(s, k.quote)[p + 1]), g)
    BY <1>7, <2>2, <2>3, <2>4 DEF Quoted
  <2>6. Says(s, t, "string", k, l, p + 1, g)
    BY <2>5, QuotedIs DEF InText
  <2> QED BY <1>7, <2>1, <2>6 DEF FrameSays, Goals, Empty, Spaced
<1>8. ASSUME s[p] \in NumberChars, NEW k, k.state = "number", k.text = <<s[p]>>
      PROVE  FrameSays(s, t, k, l, p + 1, g)
  <2>1. PICK n : n = Run(s, p) /\ n = Run(s, p + 1) /\ n \in p + 1..Len(s) /\ p + 1 \in 1..Len(s)
    BY <1>1, <1>8, RunFits
  <2>2. g = Trimmed(s, Numeral(SubSeq(s, p, n - 1), n))
    BY <1>4, <1>8, <2>1, CoreArms
  <2>3. SubSeq(s, p, n - 1) = <<s[p]>> \o SubSeq(s, p + 1, n - 1)
    <3>1. PICK A : s \in Seq(A)
      BY DEF Source, IsSeq
    <3>2. p \in Nat \ {0} /\ n - 1 \in Nat /\ p =< n - 1 /\ n - 1 =< Len(s) /\ Len(s) \in Nat
      BY <1>1, <2>1, SourceFits
    <3>3. PICK m \in Nat : m = n - 1
      BY <3>2
    <3>4. SubSeq(s, p, m) = <<s[p]>> \o SubSeq(s, p + 1, m)
      BY <3>1, <3>2, <3>3
    <3> QED BY <3>3, <3>4
  <2>4. SaysValue(s, t, "number", k, p + 1, g)
    BY <1>8, <2>1, <2>2, <2>3 DEF SaysValue
  <2> QED BY <1>8, <2>1, <2>4 DEF FrameSays, Says, Goals, Empty, Spaced, Filling
<1>9. ASSUME s[p] \in {"null", "nulx"}, NEW k, k.state = "null", k.text = <<s[p]>>
      PROVE  FrameSays(s, t, k, l, p + 1, g)
  <2>1. p + 1 \in 1..Len(s)
    BY <1>5, <1>9 DEF NUL
  <2>2. s[p] = "null" => g = Got(NullValue, Skip(s, p + 1))
    <3>1. PICK v : v = NullValue
      OBVIOUS
    <3>2. v.kind # "error"
      BY <3>1, ValueFits DEF NullValue
    <3>3. s[p] = "null" => Core(s, h, p) = Got(v, p + 1)
      BY <3>1, CoreArms
    <3>4. Trimmed(s, Got(v, p + 1)) = Got(v, Skip(s, p + 1))
      BY <3>2, TrimmedGot
    <3> QED BY <1>4, <3>1, <3>3, <3>4
  <2>3. s[p] = "nulx" => g = None
    BY <1>12 DEF Quotes, NumberChars, Digits, Starts
  <2>4. SaysValue(s, t, "null", k, p + 1, g)
    BY <1>9, <2>2, <2>3 DEF SaysValue
  <2> QED BY <1>9, <2>1, <2>4 DEF FrameSays, Says, Goals, Empty, Spaced, Filling
<1>10. ASSUME s[p] \in {"true", "trux"}, NEW k, k.state = "boolean", k.text = <<s[p]>>
       PROVE  FrameSays(s, t, k, l, p + 1, g)
  <2>1. p + 1 \in 1..Len(s)
    BY <1>5, <1>10 DEF NUL
  <2>2. s[p] = "true" => g = Got(Value("boolean", <<"true">>, << >>), Skip(s, p + 1))
    <3>1. PICK v : v = Value("boolean", <<"true">>, << >>)
      OBVIOUS
    <3>2. v.kind # "error"
      BY <3>1, ValueFits
    <3>3. s[p] = "true" => Core(s, h, p) = Got(v, p + 1)
      BY <3>1, CoreArms
    <3>4. Trimmed(s, Got(v, p + 1)) = Got(v, Skip(s, p + 1))
      BY <3>2, TrimmedGot
    <3> QED BY <1>4, <3>1, <3>3, <3>4
  <2>3. s[p] = "trux" => g = None
    BY <1>12 DEF Quotes, NumberChars, Digits, Starts
  <2>4. SaysValue(s, t, "boolean", k, p + 1, g)
    BY <1>10, <2>2, <2>3 DEF SaysValue
  <2> QED BY <1>10, <2>1, <2>4 DEF FrameSays, Says, Goals, Empty, Spaced, Filling
<1> QED BY <1>3, <1>6, <1>7, <1>8, <1>9, <1>10, <1>12

LEMMA NumberSays ==
    ASSUME NEW s, Source(s), NEW t, NEW f, NEW l, NEW p, NEW g, FrameSays(s, t, f, l, p, g),
           f.state = "number", IsSeq(f.text)
    PROVE  /\ s[p] \in NumberChars =>
                 \A k : Extends(f, k, s[p]) /\ k.state = "number" => FrameSays(s, t, k, l, p + 1, g)
           /\ s[p] \notin NumberChars /\ IsNumber(f.text) =>
                 \A u, k : /\ k.state = "eatws" /\ k.saved = "finish"
                           /\ u[k.current] = Value("number", f.text, << >>)
                           => FrameSays(s, u, k, l, p, g)
           /\ s[p] \notin NumberChars /\ ~IsNumber(f.text) => g = None
<1>1. p \in 1..Len(s) /\ SaysValue(s, t, "number", f, p, g)
  BY DEF FrameSays, Goals, Empty, Says, Filling
<1>2. g = Trimmed(s, Numeral(f.text \o SubSeq(s, p, Run(s, p) - 1), Run(s, p)))
  BY <1>1 DEF SaysValue
<1>3. ASSUME s[p] \in NumberChars, NEW k, Extends(f, k, s[p]), k.state = "number"
      PROVE  FrameSays(s, t, k, l, p + 1, g)
  <2>1. PICK n : n = Run(s, p) /\ n = Run(s, p + 1) /\ n \in p + 1..Len(s) /\ p + 1 \in 1..Len(s)
    BY <1>1, <1>3, RunFits
  <2>2. PICK z : z = SubSeq(s, p + 1, n - 1)
    OBVIOUS
  <2>3. IsSeq(z) /\ SubSeq(s, p, n - 1) = <<s[p]>> \o z
    <3>1. PICK A : s \in Seq(A)
      BY DEF Source, IsSeq
    <3>2. p \in Nat \ {0} /\ n - 1 \in Nat /\ p =< n - 1 /\ n - 1 =< Len(s) /\ Len(s) \in Nat
      BY <1>1, <2>1, SourceFits
    <3>3. PICK m \in Nat : m = n - 1
      BY <3>2
    <3>4. SubSeq(s, p, m) = <<s[p]>> \o SubSeq(s, p + 1, m) /\ SubSeq(s, p + 1, m) \in Seq(A)
      BY <3>1, <3>2, <3>3
    <3> QED BY <2>2, <3>3, <3>4 DEF IsSeq
  <2>4. f.text \o (<<s[p]>> \o z) = Append(f.text, s[p]) \o z
    BY <2>3, Regrouped
  <2>5. g = Trimmed(s, Numeral(Append(f.text, s[p]) \o z, n))
    BY <1>2, <2>1, <2>3, <2>4
  <2>6. SaysValue(s, t, "number", k, p + 1, g)
    BY <1>3, <2>1, <2>2, <2>5 DEF SaysValue, Extends
  <2> QED BY <1>3, <2>1, <2>6 DEF FrameSays, Says, Goals, Empty, Spaced, Filling
<1>4. s[p] \notin NumberChars => g = Trimmed(s, Numeral(f.text, p))
  <2>1. s[p] \notin NumberChars => Run(s, p) = p
    BY <1>1, RunFits
  <2>2. SubSeq(s, p, p - 1) = << >>
    <3>1. PICK A : s \in Seq(A)
      BY DEF Source, IsSeq
    <3> QED BY <1>1, <3>1
  <2>3. f.text \o << >> = f.text
    BY Regroup, EmptyIsSeq
  <2> QED BY <1>2, <2>1, <2>2, <2>3
<1>5. ASSUME s[p] \notin NumberChars, IsNumber(f.text),
             NEW u, NEW k, k.state = "eatws", k.saved = "finish",
             u[k.current] = Value("number", f.text, << >>)
      PROVE  FrameSays(s, u, k, l, p, g)
  <2>1. PICK v : v = Value("number", f.text, << >>)
    OBVIOUS
  <2>2. v.kind # "error"
    BY <2>1, ValueFits
  <2>3. Trimmed(s, Got(v, p)) = Got(v, Skip(s, p))
    BY <2>2, TrimmedGot
  <2>4. g = Got(u[k.current], Skip(s, p))
    BY <1>4, <1>5, <2>1, <2>3 DEF Numeral
  <2> QED BY <1>1, <1>5, <2>4, FoundSays
<1>6. s[p] \notin NumberChars /\ ~IsNumber(f.text) => g = None
  BY <1>4, GotFits DEF Numeral, Trimmed
<1> QED BY <1>3, <1>5, <1>6

LEMMA WordSays ==
    ASSUME NEW s, Source(s), NEW t, NEW f, NEW l, NEW p, NEW g, FrameSays(s, t, f, l, p, g),
           f.state \in {"null", "boolean"},
           NEW word, f.text = <<word>>
    PROVE  /\ word \in {"null", "true"} =>
                 \A u, k : /\ k.state = "eatws" /\ k.saved = "finish"
                           /\ u[k.current] = IF word = "null" THEN NullValue
                                             ELSE Value("boolean", <<"true">>, << >>)
                           => FrameSays(s, u, k, l, p, g)
           /\ word \in {"nulx", "trux"} => g = None
           /\ word \in (IF f.state = "null" THEN {"null", "nulx"} ELSE {"true", "trux"})
<1>1. p \in 1..Len(s) /\ SaysValue(s, t, f.state, f, p, g)
  BY DEF FrameSays, Goals, Empty, Says, Filling
<1>2. \/ f.state = "null" /\ word = "null" /\ g = Got(NullValue, Skip(s, p))
      \/ f.state = "null" /\ word = "nulx" /\ g = None
      \/ f.state = "boolean" /\ word = "true" /\ g = Got(Value("boolean", <<"true">>, << >>), Skip(s, p))
      \/ f.state = "boolean" /\ word = "trux" /\ g = None
  <2>1. \A w : f.text = <<w>> => word = w
    OBVIOUS
  <2> QED BY <1>1, <2>1 DEF SaysValue
<1>3. ASSUME word \in {"null", "true"}, NEW u, NEW k, k.state = "eatws", k.saved = "finish",
             u[k.current] = IF word = "null" THEN NullValue
                            ELSE Value("boolean", <<"true">>, << >>)
      PROVE  FrameSays(s, u, k, l, p, g)
  <2>1. g = Got(u[k.current], Skip(s, p))
    BY <1>2, <1>3
  <2> QED BY <1>1, <1>3, <2>1, FoundSays
<1>4. word \in {"nulx", "trux"} => g = None
  BY <1>2
<1>5. word \in (IF f.state = "null" THEN {"null", "nulx"} ELSE {"true", "trux"})
  BY <1>2
<1> QED BY <1>3, <1>4, <1>5

-----------------------------------------------------------------------------
(* The turns inside a container.                                           *)

LEMMA FillingSays ==
    ASSUME NEW s, NEW t, NEW f, NEW l, NEW p, NEW g, FrameSays(s, t, f, l, p, g),
           f.state \in Filling
    PROVE  /\ p \in 1..Len(s) /\ Aim(f) = f.state /\ WhatIn(f.state) \in Whats
           /\ f.state # "object_field" => s[p] \notin White
           /\ \E r : Left(s, f.state, f, p, r) /\ g = Gathered(s, WhatIn(f.state), l, r)
<1>1. p \in 1..Len(s) /\ Says(s, t, f.state, f, l, p, g)
  BY DEF FrameSays, Goals
<1>2. f.state # "object_field" => s[p] \notin White
  BY DEF FrameSays, Filling, Spaced
<1>3. Aim(f) = f.state
  BY DEF Aim, Filling, Aside
<1>4. WhatIn(f.state) \in Whats
  BY DEF WhatIn, Whats
<1> QED BY <1>1, <1>2, <1>3, <1>4 DEF Says

LEMMA CloseSays ==
    ASSUME NEW s, Source(s), NEW t, NEW f, NEW l, NEW p, NEW g, FrameSays(s, t, f, l, p, g),
           f.state \in {"array", "array_sep", "object_field_start", "object_sep"},
           s[p] = Close(WhatIn(f.state)), KidsSay(t, f, l),
           NEW k, k.state = "eatws", k.saved = "finish", k.current = f.current
    PROVE  FrameSays(s, t, k, l, p + 1, g)
<1>1. f.state \in Filling
  BY DEF Filling
<1>2. PICK w \in Whats : w = WhatIn(f.state)
  BY <1>1, FillingSays
<1>3. PICK r : p \in 1..Len(s) /\ s[p] \notin White /\ Aim(f) = f.state
               /\ Left(s, f.state, f, p, r) /\ g = Gathered(s, w, l, r)
  BY <1>1, <1>2, FillingSays
<1>4. s[p] # "," /\ p + 1 \in 1..Len(s)
  BY <1>2, <1>3, CloseFits, SourceFits
<1>5. r = Closed(w, p + 1)
  <2>1. CASE f.state = "array"
    <3>1. r = IF s[p] = "]" THEN Closed("array", p + 1)
              ELSE WithItem(s, Parts(s), "array", << >>, ValueAt(s, Parts(s), p))
      BY <1>3, <2>1, ArrayIs
    <3> QED BY <1>2, <2>1, <3>1 DEF WhatIn, Close
  <2>2. CASE f.state \in {"array_sep", "object_sep"}
    <3>1. r = IF s[p] = "," THEN Parts(s)[<<WhatIn(f.state), p + 1>>]
              ELSE IF s[p] = Close(WhatIn(f.state)) THEN Closed(WhatIn(f.state), p + 1) ELSE None
      BY <1>3, <2>2, SepIs
    <3> QED BY <1>2, <1>4, <3>1
  <2>3. CASE f.state = "object_field_start"
    <3>1. r = IF s[p] = "}" THEN Closed("object", p + 1)
              ELSE IF s[p] \in Quotes THEN AfterName(s, Parts(s), Text(s, s[p])[p + 1]) ELSE None
      BY <1>3, <2>3, ObjectIs
    <3> QED BY <1>2, <2>3, <3>1 DEF WhatIn, Close
  <2> QED BY <2>1, <2>2, <2>3
<1>6. IsSeq(l) /\ t[f.current] = Value(w, << >>, Whole(w, l))
  BY <1>1, <1>2, <1>3 DEF KidsSay
<1>7. g = Got(t[k.current], Skip(s, p + 1))
  BY <1>2, <1>3, <1>5, <1>6, ClosedSays
<1> QED BY <1>4, <1>7, FoundSays

LEMMA CommaSays ==
    ASSUME NEW s, Source(s), NEW t, NEW f, NEW l, NEW p, NEW g, FrameSays(s, t, f, l, p, g),
           f.state \in {"array_sep", "object_sep"}, s[p] = ",",
           NEW k, k.state = "eatws", k.saved = WhatIn(f.state)
    PROVE  FrameSays(s, t, k, l, p + 1, g)
<1>1. f.state \in Filling
  BY DEF Filling
<1>2. PICK w \in Whats : w = WhatIn(f.state)
  BY <1>1, FillingSays
<1>7. p \in 1..Len(s) /\ s[p] \notin White
  BY DEF FrameSays, Spaced
<1>8. \E r : Left(s, f.state, f, p, r) /\ g = Gathered(s, WhatIn(f.state), l, r)
  BY <1>1 DEF FrameSays, Goals, Says
<1>3. PICK r : Left(s, f.state, f, p, r) /\ g = Gathered(s, w, l, r)
  BY <1>2, <1>8
<1>4. r = Parts(s)[<<w, p + 1>>] /\ p + 1 \in 1..Len(s)
  <2>1. r = IF s[p] = "," THEN Parts(s)[<<WhatIn(f.state), p + 1>>]
            ELSE IF s[p] = Close(WhatIn(f.state)) THEN Closed(WhatIn(f.state), p + 1) ELSE None
    BY <1>3, <1>7, SepIs
  <2>2. s[p] # NUL
    BY DEF NUL
  <2> QED BY <1>2, <1>7, <2>1, <2>2, SourceFits
<1>5. Left(s, w, k, p + 1, r)
  BY <1>4 DEF Left, Whats
<1>6. Says(s, t, w, k, l, p + 1, g)
  <2>1. WhatIn(w) = w /\ w \in Filling
    BY DEF WhatIn, Whats, Filling
  <2> QED BY <1>3, <1>5, <2>1 DEF Says
<1> QED BY <1>2, <1>4, <1>6, SaysThen DEF Whats, Spaced

(* No value is found where a container does not go on.                     *)
LEMMA StuckSays ==
    ASSUME NEW s, Source(s), NEW t, NEW f, NEW l, NEW p, NEW g, FrameSays(s, t, f, l, p, g),
           \/ f.state \in {"array_sep", "object_sep"} /\ s[p] \notin {",", Close(WhatIn(f.state))}
           \/ f.state \in {"object", "object_field_start"} /\ s[p] \notin Quotes \cup {"}"}
           \/ f.state = "object_field_end" /\ s[p] # ":"
    PROVE  g = None
<1>1. f.state \in Filling
  BY DEF Filling
<1>2. p \in 1..Len(s) /\ s[p] \notin White
  BY DEF FrameSays, Spaced
<1>3. PICK r : Left(s, f.state, f, p, r) /\ g = Gathered(s, WhatIn(f.state), l, r)
  BY <1>1 DEF FrameSays, Goals, Says
<1>4. r = None
  <2>1. CASE f.state \in {"array_sep", "object_sep"} /\ s[p] \notin {",", Close(WhatIn(f.state))}
    <3>1. r = IF s[p] = "," THEN Parts(s)[<<WhatIn(f.state), p + 1>>]
              ELSE IF s[p] = Close(WhatIn(f.state)) THEN Closed(WhatIn(f.state), p + 1) ELSE None
      BY <1>2, <1>3, <2>1, SepIs
    <3> QED BY <2>1, <3>1
  <2>2. CASE f.state \in {"object", "object_field_start"} /\ s[p] \notin Quotes \cup {"}"}
    <3>1. r = IF s[p] = "}" THEN Closed("object", p + 1)
              ELSE IF s[p] \in Quotes THEN AfterName(s, Parts(s), Text(s, s[p])[p + 1]) ELSE None
      BY <1>2, <1>3, <2>2, ObjectIs
    <3> QED BY <2>2, <3>1
  <2>3. CASE f.state = "object_field_end" /\ s[p] # ":"
    <3>1. r = IF s[p] = ":" THEN WithItem(s, Parts(s), "object", f.name, ValueAt(s, Parts(s), p + 1))
              ELSE None
      BY <1>2, <1>3, <2>3, FieldEndIs
    <3> QED BY <2>3, <3>1
  <2> QED BY <2>1, <2>2, <2>3
<1> QED BY <1>3, <1>4, GotFits DEF Gathered

(* The fields of an object.                                                *)
LEMMA ObjectSays ==
    ASSUME NEW s, Source(s), NEW t, NEW f, NEW l, NEW p, NEW g, FrameSays(s, t, f, l, p, g),
           f.state = "object", NEW k, Alike(f, k), k.state = "object_field_start"
    PROVE  FrameSays(s, t, k, l, p, g)
<1>1. p \in 1..Len(s) /\ s[p] \notin White
  BY DEF FrameSays, Spaced
<1>2. PICK r : Left(s, "object", f, p, r) /\ g = Gathered(s, "object", l, r)
  BY DEF FrameSays, Goals, Says, Filling, WhatIn
<1>3. Left(s, "object_field_start", k, p, r)
  BY <1>2 DEF Left
<1>4. Says(s, t, "object_field_start", k, l, p, g)
  BY <1>2, <1>3 DEF Says, Filling, WhatIn
<1> QED BY <1>1, <1>4 DEF FrameSays, Goals, Filling

LEMMA NameSays ==
    ASSUME NEW s, Source(s), NEW t, NEW f, NEW l, NEW p, NEW g, FrameSays(s, t, f, l, p, g),
           f.state = "object_field_start", s[p] \in Quotes,
           NEW k, k.state = "object_field", k.quote = s[p], k.text = << >>
    PROVE  FrameSays(s, t, k, l, p + 1, g)
<1>1. p \in 1..Len(s) /\ s[p] \notin White
  BY DEF FrameSays, Spaced
<1>2. PICK r : Left(s, "object_field_start", f, p, r) /\ g = Gathered(s, "object", l, r)
  BY DEF FrameSays, Goals, Says, Filling, WhatIn
<1>3. s[p] # NUL /\ s[p] # "}" /\ p + 1 \in 1..Len(s)
  BY <1>1, SourceFits DEF Quotes, NUL
<1>4. PICK y : y = Text(s, s[p])[p + 1] /\ FineText(s, y, p + 1)
  BY <1>3, TextThere
<1>5. Behind(<< >>, y) = y
  <2>1. CASE Failed(y)
    BY <1>4, <2>1, GotFits DEF Behind, FineText, Fine
  <2>2. CASE ~Failed(y)
    <3>1. /\ IsSeq(y.val.text) /\ y = Got(y.val, y.next)
          /\ y.val = Value("string", y.val.text, << >>)
      BY <1>4, <2>2, GotFits DEF FineText, Fine
    <3>2. << >> \o y.val.text = y.val.text
      BY <3>1, Regroup
    <3> QED BY <2>2, <3>1, <3>2 DEF Behind
  <2> QED BY <2>1, <2>2
<1>6. r = AfterName(s, Parts(s), y)
  <2>1. r = IF s[p] = "}" THEN Closed("object", p + 1)
            ELSE IF s[p] \in Quotes THEN AfterName(s, Parts(s), Text(s, s[p])[p + 1]) ELSE None
    BY <1>1, <1>2, ObjectIs
  <2> QED BY <1>3, <1>4, <2>1
<1>7. Quoted(s, "object_field", l, Behind(k.text, Text(s, k.quote)[p + 1]), g)
  BY <1>2, <1>4, <1>5, <1>6 DEF Quoted
<1>8. Says(s, t, "object_field", k, l, p + 1, g)
  BY <1>7, QuotedIs DEF InText
<1> QED BY <1>3, <1>8 DEF FrameSays, Goals, Filling, Spaced

LEMMA NamedSays ==
    ASSUME NEW s, Source(s), NEW t, NEW f, NEW l, NEW p, NEW g, FrameSays(s, t, f, l, p, g),
           f.state = "object_field", f.quote \in Quotes, IsSeq(f.text), s[p] = f.quote,
           NEW k, k.state = "eatws", k.saved = "object_field_end", k.name = f.text
    PROVE  FrameSays(s, t, k, l, p + 1, g)
<1>1. p \in 1..Len(s) /\ Says(s, t, "object_field", f, l, p, g)
  BY DEF FrameSays, Goals, Filling
<1>2. p + 1 \in 1..Len(s)
  BY <1>1, SourceFits DEF Quotes, NUL
<1>3. PICK y : y = Got(Value("string", f.text, << >>), p + 1)
  OBVIOUS
<1>4. Behind(f.text, Text(s, f.quote)[p]) = y
  BY <1>1, <1>3, BehindIs
<1>5. Quoted(s, "object_field", l, y, g)
  BY <1>1, <1>4, QuotedIs DEF InText
<1>6. PICK r : r = AfterName(s, Parts(s), y) /\ g = Gathered(s, "object", l, r)
  BY <1>5 DEF Quoted
<1>7. Left(s, "object_field_end", k, p + 1, r)
  BY <1>3, <1>6 DEF Left
<1>8. Says(s, t, "object_field_end", k, l, p + 1, g)
  BY <1>6, <1>7 DEF Says, Filling, WhatIn
<1> QED BY <1>2, <1>8, SaysThen DEF Spaced

LEMMA ColonSays ==
    ASSUME NEW s, Source(s), NEW t, NEW f, NEW l, NEW p, NEW g, FrameSays(s, t, f, l, p, g),
           f.state = "object_field_end", s[p] = ":",
           NEW k, k.state = "eatws", k.saved = "object_value", k.name = f.name
    PROVE  FrameSays(s, t, k, l, p + 1, g)
<1>1. p \in 1..Len(s) /\ s[p] \notin White
  BY DEF FrameSays, Spaced
<1>2. PICK r : Left(s, "object_field_end", f, p, r) /\ g = Gathered(s, "object", l, r)
  BY DEF FrameSays, Goals, Says, Filling, WhatIn
<1>3. p + 1 \in 1..Len(s)
  BY <1>1, SourceFits DEF NUL
<1>4. r = WithItem(s, Parts(s), "object", f.name, ValueAt(s, Parts(s), p + 1))
  BY <1>1, <1>2, FieldEndIs
<1>5. Left(s, "object_value", k, p + 1, r)
  BY <1>4 DEF Left
<1>6. Says(s, t, "object_value", k, l, p + 1, g)
  BY <1>2, <1>5 DEF Says, Filling, WhatIn
<1> QED BY <1>3, <1>6, SaysThen DEF Spaced

(* What a call that waits for a value y will have found.                   *)
KeyOf(f) == IF f.state = "array" THEN << >> ELSE f.name
Awaited(s, f, l, y) ==
    Gathered(s, WhatIn(f.state), l, WithItem(s, Parts(s), WhatIn(f.state), KeyOf(f), y))

LEMMA ItemSays ==
    ASSUME NEW s, Source(s), NEW t, NEW f, NEW l, NEW p, NEW g, FrameSays(s, t, f, l, p, g),
           f.state = "object_value" \/ (f.state = "array" /\ s[p] # "]")
    PROVE  g = Awaited(s, f, l, ValueAt(s, Parts(s), p))
<1>1. p \in 1..Len(s) /\ s[p] \notin White
  BY DEF FrameSays, Spaced
<1>2. CASE f.state = "object_value"
  <2>1. PICK r : Left(s, "object_value", f, p, r) /\ g = Gathered(s, "object", l, r)
    BY <1>2 DEF FrameSays, Goals, Says, Filling, WhatIn
  <2>2. r = WithItem(s, Parts(s), "object", f.name, ValueAt(s, Parts(s), p))
    BY <2>1 DEF Left
  <2> QED BY <1>2, <2>1, <2>2 DEF Awaited, WhatIn, KeyOf
<1>3. CASE f.state = "array" /\ s[p] # "]"
  <2>1. PICK r : Left(s, "array", f, p, r) /\ g = Gathered(s, "array", l, r)
    BY <1>3 DEF FrameSays, Goals, Says, Filling, WhatIn
  <2>2. r = IF s[p] = "]" THEN Closed("array", p + 1)
            ELSE WithItem(s, Parts(s), "array", << >>, ValueAt(s, Parts(s), p))
    BY <1>1, <2>1, ArrayIs
  <2> QED BY <1>3, <2>1, <2>2 DEF Awaited, WhatIn, KeyOf
<1> QED BY <1>2, <1>3

LEMMA NewFrameSays ==
    ASSUME NEW s, Source(s), NEW t, NEW l, NEW p \in 1..Len(s)
    PROVE  FrameSays(s, t, NewFrame, l, p, ValueAt(s, Parts(s), p))
<1>1. /\ NewFrame.state = "eatws" /\ NewFrame.saved = "start" /\ NewFrame.text = << >>
  BY DEF NewFrame
<1>2. PICK g : g = ValueAt(s, Parts(s), p)
  OBVIOUS
<1>3. SaysValue(s, t, "start", NewFrame, p, g)
  BY <1>1, <1>2 DEF SaysValue
<1>4. Says(s, t, "start", NewFrame, l, p, g)
  BY <1>3 DEF Says, Filling
<1>5. FrameSays(s, t, NewFrame, l, p, g)
  BY <1>1, <1>4, SaysThen DEF Spaced
<1> QED BY <1>2, <1>5

(* At the end of the source nothing more is found.                         *)
LEMMA AtEnd ==
    ASSUME NEW s, Source(s), NEW t, NEW f, NEW l, NEW p, NEW g, FrameSays(s, t, f, l, p, g),
           f.state \in (Spaced \ {"finish"}) \cup {"object_field_start"}, s[p] = NUL
    PROVE  g = None
<1> USE DEF NUL
<1>1. p \in 1..Len(s) /\ s[p] \notin White
  BY DEF FrameSays
<1>2. ValueAt(s, Parts(s), p) = None
  <2>1. Core(s, Parts(s), p) = None
    BY DEF Core, Quotes, NumberChars, Digits
  <2>2. Skip(s, p) = p
    BY <1>1, SkipFits
  <2> QED BY <2>1, <2>2, ValueIs, GotFits DEF Trimmed
<1>3. CASE f.state = "start"
  <2>1. SaysValue(s, t, "start", f, p, g)
    BY <1>3 DEF FrameSays, Goals, Empty, Says, Filling
  <2> QED BY <1>2, <2>1 DEF SaysValue
<1>4. CASE f.state \in {"array", "object_value"}
  <2>1. g = Awaited(s, f, l, None)
    BY <1>2, <1>4, ItemSays
  <2> QED BY <2>1, GotFits DEF Awaited, WithItem, Gathered
<1>5. CASE f.state \in {"array_sep", "object_sep"}
  <2>1. s[p] \notin {",", Close(WhatIn(f.state))}
    BY DEF Close
  <2> QED BY <1>5, <2>1, StuckSays
<1>6. CASE f.state \in {"object", "object_field_start", "object_field_end"}
  <2>1. s[p] \notin Quotes \cup {"}"} /\ s[p] # ":"
    BY DEF Quotes
  <2> QED BY <1>6, <2>1, StuckSays
<1> QED BY <1>3, <1>4, <1>5, <1>6 DEF Spaced

-----------------------------------------------------------------------------
(* One turn of the loop keeps what the innermost call says, or returns     *)
(* the value that it says.                                                 *)

(* What a call that returned r found.                                      *)
Outcome(s, t, r, p, g) ==
    IF IsError(r) THEN g = None ELSE p \in 1..Len(s) /\ g = Got(t[r], Skip(s, p))

Here(s, l, g) == FrameSays(s, TreeIn(heap), Top, l, pos, g) /\ KidsSay(TreeIn(heap), Top, l)
Stays(s, g) ==
    \E f \in Frame : \E l :
        /\ Replaces(f) /\ ret' = NoValue
        /\ FrameSays(s, TreeIn(heap'), f, l, pos', g) /\ KidsSay(TreeIn(heap'), f, l)
Gives(s, g) ==
    /\ frames' = Front(frames) /\ ret' \notin {NoValue, Truncated}
    /\ Outcome(s, TreeIn(heap'), ret', pos', g)

(* A turn that reads c, the symbol of s at this place.                     *)
Turning(s, l, g, c) ==
    /\ SInv /\ Ordered(heap) /\ frames # << >> /\ ret = NoValue /\ ~Wide
    /\ Source(s) /\ Here(s, l, g) /\ s[pos] = c /\ c \in Symbols /\ c # "/"

LEMMA KidsStay ==
    ASSUME NEW t, NEW f, NEW l, KidsSay(t, f, l), NEW k, k.current = f.current,
           \/ Aim(k) = Aim(f)
           \/ Aim(k) \notin Filling
           \/ Aim(f) \in Filling /\ WhatIn(Aim(k)) = WhatIn(Aim(f))
    PROVE  KidsSay(t, k, l)
BY DEF KidsSay

LEMMA FailGives ==
    ASSUME Fail, ~Wide, NEW s
    PROVE  Gives(s, None)
BY DEF Fail, Gives, Return, OutError, Outcome, IsError, NoValue, Truncated, ErrorPtr

LEMMA FinishGives ==
    ASSUME NEW s, Source(s), NEW f, f.current \in Nat, Return(f.current),
           NEW l, NEW g, FrameSays(s, TreeIn(heap'), f, l, pos', g),
           f.state = "finish" \/ (f.state = "eatws" /\ f.saved = "finish")
    PROVE  Gives(s, g)
<1>1. g = Got(TreeIn(heap')[f.current], Skip(s, pos')) /\ pos' \in 1..Len(s)
  BY FinishSays DEF FrameSays
<1> QED BY <1>1 DEF Gives, Return, Outcome, IsError, NoValue, Truncated, ErrorPtr

LEMMA TurningFits ==
    ASSUME NEW s, NEW l, NEW g, NEW c, Turning(s, l, g, c)
    PROVE  /\ Shape /\ Top \in Frame /\ FrameFits(Top) /\ Top.current \in Nat /\ IsSeq(Top.text)
           /\ Top.current \in 0..Len(heap) /\ Len(heap) \in Nat /\ Top.text \in Seq(Symbols)
           /\ Top.state \in States /\ Top.saved \in Goals /\ ret = NoValue /\ ~Wide /\ Source(s)
           /\ FrameSays(s, TreeIn(heap), Top, l, pos, g) /\ KidsSay(TreeIn(heap), Top, l)
           /\ s[pos] = c /\ c \in Symbols /\ pos \in 1..Len(s) /\ pos \in Nat
<1>1. Top \in Frame /\ FrameFits(Top) /\ Top = frames[Len(frames)] /\ Len(frames) \in DOMAIN frames
  BY TopFits DEF Turning, SInv
<1>2. Top.state \in States /\ Top.saved \in Goals /\ Top.text \in Seq(Symbols)
  BY <1>1 DEF Frame
<1>3. Shape /\ Len(heap) \in Nat /\ Top.current \in 0..Len(heap) /\ Top.current \in Nat
  <2>1. Shape /\ InRange(frames, ret, todo, heap) /\ heap \in Seq(HeapNode)
    BY DEF Turning, SInv, Shape
  <2> QED BY <1>1, <2>1 DEF InRange
<1>4. FrameSays(s, TreeIn(heap), Top, l, pos, g) /\ pos \in 1..Len(s) /\ pos \in Nat
  BY <1>3 DEF Turning, Here, FrameSays, Shape
<1>5. IsSeq(Top.text)
  BY <1>2 DEF IsSeq
<1> QED BY <1>1, <1>2, <1>3, <1>4, <1>5 DEF Turning, Here

(* A turn that goes on with another frame and the same objects.            *)
LEMMA GoesStays ==
    ASSUME NEW s, NEW l, NEW g, NEW c, Turning(s, l, g, c), NEW n, NEW f \in Frame, Goes(c, f, n),
           c # NUL, NEW m, FrameSays(s, TreeIn(heap), f, m, pos + n, g), KidsSay(TreeIn(heap), f, m)
    PROVE  Stays(s, g)
<1>1. heap' = heap /\ pos' = pos + n /\ Replaces(f) /\ ret' = NoValue
  BY DEF Goes, Turn, Replaces, Turning
<1> QED BY <1>1 DEF Stays

LEMMA GoesNone ==
    ASSUME NEW s, NEW l, NEW c, Turning(s, l, None, c), NEW n, NEW f, Goes(c, f, n),
           c = NUL, "finish" \notin {f.state, f.saved}
    PROVE  Gives(s, None)
<1>1. Fail /\ ~Wide
  BY DEF Goes, Turn, Turning
<1> QED BY <1>1, FailGives

LEMMA GoesGives ==
    ASSUME NEW s, NEW l, NEW g, NEW c, Turning(s, l, g, c), NEW f \in Frame, Goes(c, f, 0),
           c = NUL, f.current \in Nat,
           f.state = "finish" \/ (f.state = "eatws" /\ f.saved = "finish"),
           FrameSays(s, TreeIn(heap), f, l, pos, g)
    PROVE  Gives(s, g)
<1>1. heap' = heap /\ pos' = pos /\ Return(f.current)
  <2>1. pos' = pos + 0 /\ pos \in Nat
    BY TurningFits DEF Goes, Turn
  <2> QED BY <2>1 DEF Goes, Turn
<1>2. Source(s)
  BY DEF Turning
<1> QED BY <1>1, <1>2, FinishGives

LEMMA RefusesGives ==
    ASSUME NEW s, NEW l, NEW c, Turning(s, l, None, c), Refuses
    PROVE  Gives(s, None)
BY FailGives DEF Refuses, Turning

LEMMA LeavesGives ==
    ASSUME NEW s, Return(ErrorPtr)
    PROVE  Gives(s, None)
BY DEF Gives, Return, Outcome, IsError, NoValue, Truncated, ErrorPtr

(* The frames that a turn goes on with.                                    *)
LEMMA ToAlike ==
    ASSUME Top \in Frame
    PROVE  /\ \A x : Alike(Top, To(x)) /\ To(x).state = x /\ To(x).saved = Top.saved
           /\ \A x : Alike(Top, Then(x)) /\ Then(x).state = "eatws" /\ Then(x).saved = x
           /\ \A x \in States : To(x) \in Frame
           /\ \A x \in Goals : Then(x) \in Frame
<1>1. \A x \in Goals : x \in States /\ "eatws" \in States
  BY DEF States, Aside
<1> QED BY <1>1 DEF Frame, To, Then, Alike

LEMMA EatWsGives ==
    ASSUME NEW s, NEW l, NEW g, NEW c, Turning(s, l, g, c), EatWs(c)
    PROVE  Stays(s, g) \/ Gives(s, g)
<1>1. PICK f, t : f = Top /\ t = TreeIn(heap) /\ f \in Frame
  BY TurningFits
<1>2. /\ Source(s) /\ FrameSays(s, t, f, l, pos, g) /\ KidsSay(t, f, l) /\ s[pos] = c
      /\ f.state = "eatws" /\ f.saved \in Goals /\ pos \in Nat /\ c # "/"
  BY <1>1, TurningFits DEF EatWs, Turning
<1>3. CASE c \in White
  <2>1. Goes(c, f, 1) /\ c # NUL
    BY <1>1, <1>2, <1>3 DEF EatWs, White, NUL
  <2>2. FrameSays(s, t, f, l, pos + 1, g)
    BY <1>2, <1>3, EatWsSays
  <2> QED BY <1>1, <1>2, <2>1, <2>2, GoesStays
<1>4. CASE c \notin White
  <2>1. PICK k \in Frame : /\ Goes(c, k, 0) /\ Alike(f, k) /\ k.state = f.saved
                           /\ k.saved = f.saved
    <3>1. Goes(c, To(f.saved), 0)
      BY <1>1, <1>2, <1>4 DEF EatWs
    <3>2. f.saved \in States
      BY <1>2 DEF States
    <3> QED BY <1>1, <3>1, <3>2, ToAlike
  <2>2. FrameSays(s, t, k, l, pos, g)
    BY <1>2, <1>4, <2>1, EatWsSays
  <2>3. KidsSay(t, k, l)
    <3>1. Aim(k) = Aim(f) /\ k.current = f.current
      BY <1>2, <2>1 DEF Aim, Aside, Alike, Goals, Empty, Filling
    <3> QED BY <1>2, <3>1, KidsStay
  <2>4. CASE c # NUL
    <3>1. pos + 0 = pos
      BY <1>2
    <3> QED BY <1>1, <2>1, <2>2, <2>3, <2>4, <3>1, GoesStays
  <2>5. CASE c = NUL /\ f.saved = "finish"
    <3>1. k.current \in Nat
      BY <1>1, <2>1, TurningFits DEF Alike
    <3> QED BY <1>1, <2>1, <2>2, <2>5, <3>1, GoesGives
  <2>6. CASE c = NUL /\ f.saved # "finish"
    <3>1. f.saved \in Spaced
      BY <1>2 DEF FrameSays
    <3>2. g = None
      BY <1>2, <2>1, <2>2, <2>6, <3>1, AtEnd
    <3> QED BY <2>1, <2>6, <3>2, GoesNone
  <2> QED BY <2>4, <2>5, <2>6
<1> QED BY <1>3, <1>4

(* A node that is made has no values yet, and the others keep their trees. *)
LEMMA NewTree ==
    ASSUME NEW h \in Seq(HeapNode), Ordered(h), NEW n \in HeapNode, n.kids = << >>,
           NEW fs, NEW r, NEW td, InRange(fs, r, td, h), NEW g, g = Append(h, n)
    PROVE  /\ Ordered(g) /\ TreeIn(g)[Len(h) + 1] = Value(n.kind, n.text, << >>)
           /\ \A p \in Int : p <= Len(h) => TreeIn(g)[p] = TreeIn(h)[p]
<1>1. PICK m \in Nat : m = Len(h)
  OBVIOUS
<1>2. /\ Len(g) = m + 1 /\ DOMAIN g = 1..m + 1 /\ DOMAIN h = 1..m
      /\ g[m + 1] = n /\ \A c \in 1..m : g[c] = h[c]
  BY <1>1
<1>3. Ordered(g)
  <2>1. ASSUME NEW c \in DOMAIN g, NEW k \in DOMAIN g[c].kids
        PROVE  g[c].kids[k].val \in Int /\ (g[c].kids[k].val > 0 => c < g[c].kids[k].val)
    <3>1. c \in 1..m /\ g[c] = h[c]
      <4>1. c # m + 1
        BY <1>2, <2>1
      <4> QED BY <1>2, <4>1
    <3> QED BY <1>2, <2>1, <3>1 DEF Ordered
  <2> QED BY <1>2, <2>1 DEF Ordered
<1>4. TreeIn(g)[m + 1] = Value(n.kind, n.text, << >>)
  <2>1. PICK t : t = TreeIn(g)
    OBVIOUS
  <2>2. t[m + 1] = TreeAt(g, t, m + 1)
    BY <1>3, <2>1, TreeFits
  <2>3. [i \in DOMAIN n.kids |-> Entry(n.kids[i].key, t[n.kids[i].val])] = << >>
    <3>1. DOMAIN n.kids = {}
      OBVIOUS
    <3> QED BY <3>1
  <2> QED BY <1>2, <2>1, <2>2, <2>3 DEF TreeAt, Value
<1>5. \A p \in Int : p <= m => TreeIn(g)[p] = TreeIn(h)[p]
  <2>1. PICK K \in SUBSET Int : K = {p \in Int : p <= m}
    OBVIOUS
  <2>2. \A p \in K : /\ Agrees(h, g, p)
                     /\ p \in DOMAIN h => \A k \in DOMAIN h[p].kids : h[p].kids[k].val \in K
    <3>1. ASSUME NEW p \in K PROVE Agrees(h, g, p)
      BY <1>2, <2>1 DEF Agrees
    <3>2. ASSUME NEW p \in DOMAIN h, NEW k \in DOMAIN h[p].kids PROVE h[p].kids[k].val \in K
      <4>1. h[p].kids[k].val \in Truncated..m
        BY <1>1, <3>2 DEF InRange
      <4> QED BY <2>1, <4>1
    <3> QED BY <3>1, <3>2
  <2>3. \A p \in K : TreeIn(g)[p] = TreeIn(h)[p]
    BY <1>3, <2>2, TreeSame
  <2> QED BY <2>1, <2>3
<1> QED BY <1>1, <1>3, <1>4, <1>5

LEMMA MakesFits ==
    ASSUME NEW s, NEW l, NEW g, NEW c, Turning(s, l, g, c), NEW n, NEW f \in Frame,
           NEW kind \in Kinds, Makes(c, f, n, kind)
    PROVE  TreeIn(heap')[Allocated] = Value(kind, f.text, << >>)
<1>1. heap \in Seq(HeapNode) /\ Ordered(heap) /\ InRange(frames, ret, todo, heap)
  BY DEF Turning, SInv, Shape
<1>2. PICK m \in HeapNode : m = Node(kind, f.text) /\ m.kids = << >> /\ m.kind = kind /\ m.text = f.text
  <2>1. f.text \in Seq(Symbols) /\ << >> \in Seq(Kid)
    BY DEF Frame
  <2>2. Node(kind, f.text) \in HeapNode
    BY <2>1 DEF Node, HeapNode
  <2> QED BY <2>2 DEF Node
<1>3. PICK h : h = heap' /\ h = Append(heap, m)
  BY <1>2 DEF Makes
<1>4. TreeIn(h)[Len(heap) + 1] = Value(m.kind, m.text, << >>)
  BY <1>1, <1>2, <1>3, NewTree
<1> QED BY <1>2, <1>3, <1>4 DEF Allocated

LEMMA MakesStays ==
    ASSUME NEW s, NEW l, NEW g, NEW c, Turning(s, l, g, c), NEW n, NEW f \in Frame,
           NEW kind, Makes(c, f, n, kind),
           c # NUL, NEW m, FrameSays(s, TreeIn(heap'), f, m, pos + n, g), KidsSay(TreeIn(heap'), f, m)
    PROVE  Stays(s, g)
<1>1. pos' = pos + n /\ Replaces(f) /\ ret' = NoValue
  BY DEF Makes, Turn, Replaces, Turning
<1> QED BY <1>1 DEF Stays

(* A value that is complete is returned when the source ends behind it.    *)
LEMMA MakesFound ==
    ASSUME NEW s, NEW l, NEW g, NEW c, Turning(s, l, g, c), NEW n \in {0, 1}, NEW f \in Frame,
           NEW kind, Makes(c, f, n, kind), n = 1 => c # NUL,
           f.current \in Nat, f.state = "eatws", f.saved = "finish",
           FrameSays(s, TreeIn(heap'), f, l, pos + n, g)
    PROVE  Stays(s, g) \/ Gives(s, g)
<1>1. pos' = pos + n /\ (c = NUL => pos' = pos)
  BY TurningFits DEF Makes, Turn
<1>2. CASE c # NUL
  <2>1. KidsSay(TreeIn(heap'), f, l)
    BY DEF KidsSay, Aim, Aside, Filling
  <2> QED BY <1>2, <2>1, MakesStays
<1>3. CASE c = NUL
  <2>1. Return(f.current) /\ FrameSays(s, TreeIn(heap'), f, l, pos', g) /\ Source(s)
    BY <1>1, <1>3 DEF Makes, Turn, Turning
  <2> QED BY <2>1, FinishGives
<1> QED BY <1>2, <1>3

(* A container begins.                                                     *)
LEMMA OpenGives ==
    ASSUME NEW s, NEW l, NEW g, NEW c, Turning(s, l, g, c), Top.state = "start",
           NEW what \in Whats, c = Opener(what),
           NEW f, f = [Then(what) EXCEPT !.current = Allocated], Makes(c, f, 1, what)
    PROVE  Stays(s, g)
<1>1. PICK u : u = TreeIn(heap')
  OBVIOUS
<1>2. /\ Top.text = << >>
      /\ \A k : k.state = "eatws" /\ k.saved = what => FrameSays(s, u, k, << >>, pos + 1, g)
  <2>1. Source(s) /\ FrameSays(s, TreeIn(heap), Top, l, pos, g) /\ s[pos] = c
    BY TurningFits
  <2> QED BY <2>1, StartSays
<1>3. /\ f \in Frame /\ f.state = "eatws" /\ f.saved = what /\ f.current = Allocated
      /\ f.text = Top.text /\ what \in Kinds
  <2>1. Top \in Frame /\ Allocated \in Int
    <3>1. Top \in Frame /\ Len(heap) \in Nat /\ s[pos] = c /\ FrameSays(s, TreeIn(heap), Top, l, pos, g)
      BY TurningFits
    <3> QED BY <3>1 DEF Allocated
  <2>2. what \in Goals /\ "eatws" \in States
    BY DEF Goals, Filling, Whats, States, Aside
  <2> QED BY <2>1, <2>2 DEF Frame, Then, Whats, Kinds
<1>4. u[Allocated] = Value(what, << >>, << >>)
  BY <1>1, <1>2, <1>3, MakesFits
<1>5. KidsSay(u, f, << >>)
  <2>1. Aim(f) = what /\ WhatIn(what) = what
    BY <1>3 DEF Aim, Aside, WhatIn, Whats
  <2>2. Whole(what, << >>) = << >> /\ IsSeq(<< >>)
    BY LastOnesFits, EmptyIsSeq DEF Whole
  <2> QED BY <1>3, <1>4, <2>1, <2>2 DEF KidsSay
<1>6. c # NUL
  BY DEF NUL, Opener
<1> QED BY <1>1, <1>2, <1>3, <1>5, <1>6, MakesStays

LEMMA OneFits ==
    ASSUME NEW c \in Symbols, NEW x \in Empty, Top \in Frame
    PROVE  \E k \in Frame : k = [To(x) EXCEPT !.text = <<c>>] /\ k.state = x /\ k.text = <<c>>
<1>1. PICK f \in Frame : f = To(x) /\ f.state = x
  BY ToAlike DEF States, Goals
<1>2. <<c>> \in Seq(Symbols)
  OBVIOUS
<1>3. [f EXCEPT !.text = <<c>>] \in Frame
  BY <1>2 DEF Frame
<1> QED BY <1>1, <1>3 DEF Frame

LEMMA BeginGives ==
    ASSUME NEW s, NEW l, NEW g, NEW c, Turning(s, l, g, c), Begin(c)
    PROVE  Stays(s, g) \/ Gives(s, g)
<1>1. PICK t : t = TreeIn(heap)
  OBVIOUS
<1>2. /\ Source(s) /\ FrameSays(s, t, Top, l, pos, g) /\ s[pos] = c
      /\ Top.state = "start" /\ Top \in Frame /\ c \in Symbols /\ Top.text = << >>
  <2>1. /\ Source(s) /\ FrameSays(s, t, Top, l, pos, g) /\ s[pos] = c
        /\ Top.state = "start" /\ Top \in Frame /\ c \in Symbols
    BY <1>1, TurningFits DEF Begin
  <2> QED BY <2>1, StartSays
<1>3. CASE c \in {"{", "["}
  <2>1. CASE c = "{"
    <3>1. c = Opener("object") /\ "object" \in Whats
      BY <2>1 DEF Opener, Whats
    <3>2. Makes(c, [Then("object") EXCEPT !.current = Allocated], 1, "object")
      BY <2>1 DEF Begin, Quotes, NumberChars, Digits
    <3> QED BY <1>2, <3>1, <3>2, OpenGives
  <2>2. CASE c = "["
    <3>1. c = Opener("array") /\ "array" \in Whats
      BY <2>2 DEF Opener, Whats
    <3>2. Makes(c, [Then("array") EXCEPT !.current = Allocated], 1, "array")
      BY <2>2 DEF Begin, Quotes, NumberChars, Digits
    <3> QED BY <1>2, <3>1, <3>2, OpenGives
  <2> QED BY <1>3, <2>1, <2>2
<1>4. CASE c \in Quotes \cup NumberChars \cup {"null", "nulx", "true", "trux"}
  <2>1. c # NUL
    BY <1>4 DEF Quotes, NumberChars, Digits, NUL
  <2>2. PICK k \in Frame : /\ Goes(c, k, 1) /\ k.state \in Empty
                           /\ FrameSays(s, t, k, l, pos + 1, g)
    <3>1. CASE c \in Quotes
      <4>1. PICK k \in Frame : k = [To("string") EXCEPT !.quote = c] /\ k.state = "string"
                               /\ k.quote = c /\ k.text = << >>
        <5>1. [To("string") EXCEPT !.quote = c] \in Frame /\ To("string").text = << >>
          BY <1>2, <3>1 DEF Frame, To, States, Goals, Empty
        <5> QED BY <1>2, <5>1 DEF Frame, To
      <4>2. Goes(c, k, 1)
        BY <3>1, <4>1 DEF Begin, Quotes, NumberChars, Digits
      <4>3. FrameSays(s, t, k, l, pos + 1, g)
        BY <1>2, <3>1, <4>1, StartSays
      <4> QED BY <4>1, <4>2, <4>3 DEF Empty
    <3>2. CASE c \in NumberChars
      <4>1. PICK k \in Frame : k = [To("number") EXCEPT !.text = <<c>>] /\ k.state = "number"
                               /\ k.text = <<c>>
        BY <1>2, OneFits DEF Empty
      <4>2. Goes(c, k, 1)
        BY <3>2, <4>1 DEF Begin, Quotes, NumberChars, Digits
      <4>3. FrameSays(s, t, k, l, pos + 1, g)
        BY <1>2, <3>2, <4>1, StartSays
      <4> QED BY <4>1, <4>2, <4>3 DEF Empty
    <3>3. CASE c \in {"null", "nulx"}
      <4>1. PICK k \in Frame : k = [To("null") EXCEPT !.text = <<c>>] /\ k.state = "null"
                               /\ k.text = <<c>>
        BY <1>2, OneFits DEF Empty
      <4>2. Goes(c, k, 1)
        BY <3>3, <4>1 DEF Begin, Quotes, NumberChars, Digits
      <4>3. FrameSays(s, t, k, l, pos + 1, g)
        BY <1>2, <3>3, <4>1, StartSays
      <4> QED BY <4>1, <4>2, <4>3 DEF Empty
    <3>4. CASE c \in {"true", "trux"}
      <4>1. PICK k \in Frame : k = [To("boolean") EXCEPT !.text = <<c>>] /\ k.state = "boolean"
                               /\ k.text = <<c>>
        BY <1>2, OneFits DEF Empty
      <4>2. Goes(c, k, 1)
        BY <3>4, <4>1 DEF Begin, Quotes, NumberChars, Digits
      <4>3. FrameSays(s, t, k, l, pos + 1, g)
        BY <1>2, <3>4, <4>1, StartSays
      <4> QED BY <4>1, <4>2, <4>3 DEF Empty
    <3> QED BY <1>4, <3>1, <3>2, <3>3, <3>4
  <2>3. KidsSay(t, k, l)
    BY <2>2 DEF KidsSay, Aim, Aside, Empty, Filling
  <2> QED BY <1>1, <2>1, <2>2, <2>3, GoesStays
<1>5. CASE c \notin {"{", "["} \cup Quotes \cup NumberChars \cup {"null", "nulx", "true", "trux"}
  <2>1. g = None
    <3>1. s[pos] \notin Starts
      BY <1>2, <1>5 DEF Starts
    <3>2. s[pos] \notin Starts => g = None
      BY <1>2, StartSays
    <3> QED BY <3>1, <3>2
  <2>2. Refuses
    BY <1>5 DEF Begin
  <2> QED BY <2>1, <2>2, RefusesGives
<1> QED BY <1>3, <1>4, <1>5

LEMMA GoesFound ==
    ASSUME NEW s, NEW l, NEW g, NEW c, Turning(s, l, g, c), NEW f \in Frame, Goes(c, f, 0),
           f.current \in Nat, f.state = "eatws", f.saved = "finish",
           FrameSays(s, TreeIn(heap), f, l, pos, g)
    PROVE  Stays(s, g) \/ Gives(s, g)
<1>1. CASE c # NUL
  <2>1. KidsSay(TreeIn(heap), f, l)
    BY DEF KidsSay, Aim, Aside, Filling
  <2>2. FrameSays(s, TreeIn(heap), f, l, pos + 0, g)
    <3>1. pos + 0 = pos
      BY TurningFits
    <3> QED BY <3>1
  <2> QED BY <1>1, <2>1, <2>2, GoesStays
<1>2. CASE c = NUL
  BY <1>2, GoesGives
<1> QED BY <1>1, <1>2

LEMMA FinishTurn ==
    ASSUME NEW s, NEW l, NEW g, NEW c, Turning(s, l, g, c), Finish(c)
    PROVE  Gives(s, g)
<1>1. /\ Return(Top.current) /\ pos' = pos /\ heap' = heap /\ Top.state = "finish"
  BY DEF Finish
<1>2. Source(s) /\ Top.current \in Nat /\ FrameSays(s, TreeIn(heap), Top, l, pos, g)
  BY TurningFits
<1>3. FrameSays(s, TreeIn(heap'), Top, l, pos', g)
  BY <1>1, <1>2
<1> QED BY <1>1, <1>2, <1>3, FinishGives

(* The frame of a call that has its value.                                 *)
LEMMA FoundFits ==
    ASSUME Top \in Frame, NEW p \in Int
    PROVE  /\ Found(p) \in Frame /\ Found(p).state = "eatws" /\ Found(p).saved = "finish"
           /\ Found(p).current = p /\ Found(p).text = Top.text
<1>1. "finish" \in Goals /\ "eatws" \in States
  BY DEF Goals, States, Aside
<1> QED BY <1>1 DEF Frame, Found, Then

LEMMA NullGives ==
    ASSUME NEW s, NEW l, NEW g, NEW c, Turning(s, l, g, c), Null(c)
    PROVE  Stays(s, g) \/ Gives(s, g)
<1>1. PICK t : t = TreeIn(heap)
  OBVIOUS
<1>2. /\ Source(s) /\ FrameSays(s, t, Top, l, pos, g) /\ Top \in Frame /\ Top.state = "null"
  BY <1>1, TurningFits DEF Null
<1>3. CASE Top.text = <<"null">> /\ Goes(c, Found(NULL), 0)
  <2>1. PICK k \in Frame : /\ k = Found(NULL) /\ k.state = "eatws" /\ k.saved = "finish"
                           /\ k.current = NULL
    BY <1>2, FoundFits DEF NULL
  <2>2. t[k.current] = NullValue
    <3>1. Ordered(heap) /\ t[NULL] = TreeAt(heap, t, NULL)
      BY <1>1, TreeFits DEF Turning, NULL
    <3> QED BY <2>1, <3>1 DEF TreeAt, NULL, Ordered
  <2>3. FrameSays(s, t, k, l, pos, g)
    <3>1. PICK word : word = "null"
      OBVIOUS
    <3>2. Top.text = <<word>> /\ word \in {"null", "true"}
      BY <1>3, <3>1
    <3> QED BY <1>2, <2>1, <2>2, <3>1, <3>2, WordSays
  <2>4. k.current \in Nat
    BY <2>1 DEF NULL
  <2> QED BY <1>1, <1>3, <2>1, <2>3, <2>4, GoesFound
<1>4. CASE Top.text = <<"nulx">> /\ Leaves
  <2>1. g = None
    <3>1. PICK word : word = "nulx"
      OBVIOUS
    <3>2. Top.text = <<word>> /\ word \in {"nulx", "trux"}
      BY <1>4, <3>1
    <3> QED BY <1>2, <3>2, WordSays
  <2> QED BY <1>4, <2>1, LeavesGives DEF Leaves
<1> QED BY <1>3, <1>4 DEF Null

LEMMA BooleanGives ==
    ASSUME NEW s, NEW l, NEW g, NEW c, Turning(s, l, g, c), Boolean(c)
    PROVE  Stays(s, g) \/ Gives(s, g)
<1>1. PICK u : u = TreeIn(heap')
  OBVIOUS
<1>2. /\ Source(s) /\ FrameSays(s, TreeIn(heap), Top, l, pos, g) /\ Top \in Frame
      /\ Top.state = "boolean" /\ Allocated \in Nat
  BY TurningFits DEF Boolean, Allocated
<1>3. CASE Top.text = <<"true">> /\ Makes(c, Found(Allocated), 0, "boolean")
  <2>1. PICK k \in Frame : /\ k = Found(Allocated) /\ k.state = "eatws" /\ k.saved = "finish"
                           /\ k.current = Allocated /\ k.text = Top.text
    BY <1>2, FoundFits
  <2>2. u[k.current] = Value("boolean", <<"true">>, << >>)
    <3>1. "boolean" \in Kinds
      BY DEF Kinds
    <3> QED BY <1>1, <1>3, <2>1, <3>1, MakesFits
  <2>3. FrameSays(s, u, k, l, pos, g)
    <3>1. PICK word : word = "true"
      OBVIOUS
    <3>2. Top.text = <<word>> /\ word \in {"null", "true"}
      BY <1>3, <3>1
    <3> QED BY <1>2, <2>1, <2>2, <3>1, <3>2, WordSays
  <2>4. FrameSays(s, u, k, l, pos + 0, g) /\ k.current \in Nat
    <3>1. pos + 0 = pos
      BY TurningFits
    <3> QED BY <1>2, <2>1, <2>3, <3>1
  <2>5. 0 \in {0, 1} /\ (0 = 1 => c # NUL)
    OBVIOUS
  <2> QED BY <1>1, <1>3, <2>1, <2>4, <2>5, MakesFound
<1>4. CASE Top.text = <<"trux">> /\ Refuses
  <2>1. g = None
    <3>1. PICK word : word = "trux"
      OBVIOUS
    <3>2. Top.text = <<word>> /\ word \in {"nulx", "trux"}
      BY <1>4, <3>1
    <3> QED BY <1>2, <3>2, WordSays
  <2> QED BY <1>4, <2>1, RefusesGives
<1> QED BY <1>3, <1>4 DEF Boolean

LEMMA ExtendFits ==
    ASSUME NEW f \in Frame, NEW c \in Symbols
    PROVE  LET k == [f EXCEPT !.text = Append(@, c)]
           IN  k \in Frame /\ Extends(f, k, c) /\ k.state = f.state /\ k.saved = f.saved
<1>1. Append(f.text, c) \in Seq(Symbols)
  BY DEF Frame
<1>2. [f EXCEPT !.text = Append(@, c)] \in Frame
  BY <1>1 DEF Frame
<1> QED BY <1>2 DEF Frame, Extends

LEMMA InQuotesGives ==
    ASSUME NEW s, NEW l, NEW g, NEW c, Turning(s, l, g, c), Top.state \in InText, InQuotes(c)
    PROVE  Stays(s, g) \/ Gives(s, g)
<1>1. PICK f, t : f = Top /\ t = TreeIn(heap)
  OBVIOUS
<1>2. /\ Source(s) /\ FrameSays(s, t, f, l, pos, g) /\ KidsSay(t, f, l) /\ s[pos] = c
      /\ f \in Frame /\ f.state \in InText /\ IsSeq(f.text) /\ FrameFits(f) /\ c \in Symbols
  BY <1>1, TurningFits
<1>3. Aim(f) = f.state /\ f.quote \in Quotes /\ f.saved # "finish" /\ f.state # "finish"
  <2>1. Aim(f) = f.state
    BY <1>2 DEF Aim, InText, Aside
  <2> QED BY <1>2, <2>1 DEF FrameFits, InText
<1>4. CASE c = "bs" /\ Goes(c, [To("string_escape") EXCEPT !.saved = f.state], 1)
  <2>1. PICK k \in Frame : /\ k = [To("string_escape") EXCEPT !.saved = f.state]
                           /\ Alike(f, k) /\ k.state = "string_escape" /\ k.saved = f.state
    <3>1. f.state \in Goals /\ "string_escape" \in States
      BY <1>2 DEF InText, Goals, States, Aside, Empty, Filling
    <3>2. PICK j \in Frame : j = To("string_escape") /\ Alike(f, j) /\ j.state = "string_escape"
      BY <1>1, <1>2, <3>1, ToAlike
    <3>3. PICK k \in Frame : /\ k = [j EXCEPT !.saved = f.state] /\ k.state = j.state
                             /\ k.saved = f.state /\ Alike(j, k)
      <4>1. PICK x \in Goals : x = f.state
        BY <3>1
      <4>2. [j EXCEPT !.saved = x] \in Frame
        BY DEF Frame
      <4> QED BY <4>1, <4>2 DEF Frame, Alike
    <3> QED BY <3>2, <3>3 DEF Alike
  <2>2. FrameSays(s, t, k, l, pos + 1, g)
    BY <1>2, <1>3, <1>4, <2>1, InQuotesSays
  <2>3. KidsSay(t, k, l)
    <3>1. Aim(k) = Aim(f) /\ k.current = f.current
      BY <1>3, <2>1 DEF Aim, Aside, Alike
    <3> QED BY <1>2, <3>1, KidsStay
  <2>4. c # NUL
    BY <1>4 DEF NUL
  <2> QED BY <1>1, <1>4, <2>1, <2>2, <2>3, <2>4, GoesStays
<1>5. CASE c \notin {f.quote, "bs"} /\ Goes(c, [f EXCEPT !.text = Append(@, c)], 1)
  <2>1. PICK k \in Frame : /\ k = [f EXCEPT !.text = Append(@, c)] /\ Extends(f, k, c)
                           /\ k.state = f.state /\ k.saved = f.saved
    BY <1>2, ExtendFits
  <2>2. CASE c = NUL
    <3>1. g = None
      BY <1>2, <1>3, <2>2, InQuotesSays
    <3> QED BY <1>3, <1>5, <2>1, <2>2, <3>1, GoesNone
  <2>3. CASE c # NUL
    <3>1. FrameSays(s, t, k, l, pos + 1, g)
      BY <1>2, <1>3, <1>5, <2>1, <2>3, InQuotesSays
    <3>2. KidsSay(t, k, l)
      <4>1. Aim(k) = Aim(f) /\ k.current = f.current
        BY <2>1 DEF Aim, Extends
      <4> QED BY <1>2, <4>1, KidsStay
    <3> QED BY <1>1, <1>5, <2>1, <2>3, <3>1, <3>2, GoesStays
  <2> QED BY <2>2, <2>3
<1> QED BY <1>1, <1>4, <1>5 DEF InQuotes

LEMMA EscapeGives ==
    ASSUME NEW s, NEW l, NEW g, NEW c, Turning(s, l, g, c), Escape(c)
    PROVE  Stays(s, g) \/ Gives(s, g)
<1>1. PICK f, t : f = Top /\ t = TreeIn(heap)
  OBVIOUS
<1>2. /\ Source(s) /\ FrameSays(s, t, f, l, pos, g) /\ KidsSay(t, f, l) /\ s[pos] = c
      /\ f \in Frame /\ f.state = "string_escape" /\ IsSeq(f.text) /\ FrameFits(f) /\ c \in Symbols
  BY <1>1, TurningFits DEF Escape
<1>3. Aim(f) = f.saved /\ f.saved \in InText /\ f.quote \in Quotes
  <2>1. Aim(f) = f.saved /\ f.saved \in InText
    BY <1>2 DEF Aim, Aside, FrameSays, InText
  <2> QED BY <1>2, <2>1 DEF FrameFits, InText
<1>4. CASE c \in Escapable /\ Goes(c, [To(f.saved) EXCEPT !.text = Append(@, c)], 1)
  <2>1. PICK j \in Frame : j = To(f.saved) /\ Alike(f, j) /\ j.state = f.saved
    <3>1. f.saved \in States
      BY <1>3 DEF InText, States, Goals, Empty, Filling
    <3> QED BY <1>1, <1>2, <3>1, ToAlike
  <2>2. PICK k \in Frame : /\ k = [j EXCEPT !.text = Append(@, c)] /\ Extends(j, k, c)
                           /\ k.state = f.saved
    <3>1. PICK k \in Frame : /\ k = [j EXCEPT !.text = Append(@, c)] /\ Extends(j, k, c)
                             /\ k.state = j.state
      BY <1>2, ExtendFits
    <3> QED BY <2>1, <3>1
  <2>3. Extends(f, k, c)
    BY <2>1, <2>2 DEF Extends, Alike
  <2>4. FrameSays(s, t, k, l, pos + 1, g)
    BY <1>2, <1>3, <1>4, <2>2, <2>3, EscapeSays
  <2>5. KidsSay(t, k, l)
    <3>1. Aim(k) = Aim(f) /\ k.current = f.current
      BY <1>3, <2>2, <2>3 DEF Aim, Extends, Aside, InText
    <3> QED BY <1>2, <3>1, KidsStay
  <2>6. c # NUL
    BY <1>4 DEF NUL, Escapable
  <2> QED BY <1>1, <1>4, <2>1, <2>2, <2>4, <2>5, <2>6, GoesStays
<1>5. CASE c \notin Escapable /\ Refuses
  <2>1. g = None
    BY <1>2, <1>3, <1>5, EscapeSays
  <2> QED BY <1>5, <2>1, RefusesGives
<1> QED BY <1>1, <1>4, <1>5 DEF Escape

LEMMA NumberGives ==
    ASSUME NEW s, NEW l, NEW g, NEW c, Turning(s, l, g, c), Number(c)
    PROVE  Stays(s, g) \/ Gives(s, g)
<1>1. PICK f, t, u : f = Top /\ t = TreeIn(heap) /\ u = TreeIn(heap')
  OBVIOUS
<1>2. /\ Source(s) /\ FrameSays(s, t, f, l, pos, g) /\ KidsSay(t, f, l) /\ s[pos] = c
      /\ f \in Frame /\ f.state = "number" /\ IsSeq(f.text) /\ c \in Symbols /\ Allocated \in Nat
      /\ pos + 0 = pos
  BY <1>1, TurningFits DEF Number, Allocated
<1>3. CASE c \in NumberChars /\ Goes(c, [f EXCEPT !.text = Append(@, c)], 1)
  <2>1. PICK k \in Frame : /\ k = [f EXCEPT !.text = Append(@, c)] /\ Extends(f, k, c)
                           /\ k.state = "number"
    BY <1>2, ExtendFits
  <2>2. FrameSays(s, t, k, l, pos + 1, g)
    BY <1>2, <1>3, <2>1, NumberSays
  <2>3. KidsSay(t, k, l)
    BY <2>1 DEF KidsSay, Aim, Aside, Filling
  <2>4. c # NUL
    BY <1>3 DEF NUL, NumberChars, Digits
  <2> QED BY <1>1, <1>3, <2>1, <2>2, <2>3, <2>4, GoesStays
<1>4. CASE c \notin NumberChars /\ IsNumber(f.text) /\ Makes(c, Found(Allocated), 0, "number")
  <2>1. PICK k \in Frame : /\ k = Found(Allocated) /\ k.state = "eatws" /\ k.saved = "finish"
                           /\ k.current = Allocated /\ k.text = f.text
    BY <1>1, <1>2, FoundFits
  <2>2. u[k.current] = Value("number", f.text, << >>)
    <3>1. "number" \in Kinds
      BY DEF Kinds
    <3> QED BY <1>1, <1>4, <2>1, <3>1, MakesFits
  <2>3. FrameSays(s, u, k, l, pos, g)
    BY <1>2, <1>4, <2>1, <2>2, NumberSays
  <2>4. FrameSays(s, u, k, l, pos + 0, g) /\ k.current \in Nat
    BY <1>2, <2>1, <2>3
  <2>5. 0 \in {0, 1} /\ (0 = 1 => c # NUL)
    OBVIOUS
  <2> QED BY <1>1, <1>4, <2>1, <2>4, <2>5, MakesFound
<1>5. CASE c \notin NumberChars /\ ~IsNumber(f.text) /\ Refuses
  <2>1. g = None
    BY <1>2, <1>5, NumberSays
  <2> QED BY <1>5, <2>1, RefusesGives
<1> QED BY <1>1, <1>3, <1>4, <1>5 DEF Number

(* A string is complete.                                                   *)
LEMMA StringGives ==
    ASSUME NEW s, NEW l, NEW g, NEW c, Turning(s, l, g, c), String(c)
    PROVE  Stays(s, g) \/ Gives(s, g)
<1>1. PICK f, u : f = Top /\ u = TreeIn(heap')
  OBVIOUS
<1>2. /\ Source(s) /\ FrameSays(s, TreeIn(heap), f, l, pos, g) /\ s[pos] = c
      /\ f \in Frame /\ f.state = "string" /\ IsSeq(f.text) /\ FrameFits(f) /\ Allocated \in Nat
  BY <1>1, TurningFits DEF String, Allocated
<1>3. f.quote \in Quotes
  <2>1. Aim(f) = "string"
    BY <1>2 DEF Aim, Aside
  <2> QED BY <1>2, <2>1 DEF FrameFits
<1>4. CASE c = f.quote /\ Makes(c, Found(Allocated), 1, "string")
  <2>1. PICK k \in Frame : /\ k = Found(Allocated) /\ k.state = "eatws" /\ k.saved = "finish"
                           /\ k.current = Allocated /\ k.text = f.text
    BY <1>1, <1>2, FoundFits
  <2>2. u[k.current] = Value("string", f.text, << >>)
    <3>1. "string" \in Kinds
      BY DEF Kinds
    <3> QED BY <1>1, <1>4, <2>1, <3>1, MakesFits
  <2>3. FrameSays(s, u, k, l, pos + 1, g)
    BY <1>2, <1>3, <1>4, <2>1, <2>2, StringSays
  <2>4. k.current \in Nat /\ c # NUL
    BY <1>2, <1>3, <1>4, <2>1 DEF NUL, Quotes
  <2>5. 1 \in {0, 1}
    OBVIOUS
  <2> QED BY <1>1, <1>4, <2>1, <2>3, <2>4, <2>5, MakesFound
<1>5. CASE InQuotes(c)
  BY <1>1, <1>2, <1>5, InQuotesGives DEF InText
<1> QED BY <1>1, <1>4, <1>5 DEF String

LEMMA FieldGives ==
    ASSUME NEW s, NEW l, NEW g, NEW c, Turning(s, l, g, c), Field(c)
    PROVE  Stays(s, g) \/ Gives(s, g)
<1>1. PICK f, t : f = Top /\ t = TreeIn(heap)
  OBVIOUS
<1>2. /\ Source(s) /\ FrameSays(s, t, f, l, pos, g) /\ KidsSay(t, f, l) /\ s[pos] = c
      /\ f \in Frame /\ f.state = "object_field" /\ IsSeq(f.text) /\ f.text \in Seq(Symbols)
      /\ FrameFits(f)
  BY <1>1, TurningFits DEF Field
<1>3. Aim(f) = "object_field" /\ f.quote \in Quotes
  <2>1. Aim(f) = "object_field"
    BY <1>2 DEF Aim, Aside
  <2> QED BY <1>2, <2>1 DEF FrameFits
<1>4. CASE c = f.quote /\ Goes(c, [Then("object_field_end") EXCEPT !.name = f.text], 1)
  <2>1. PICK k \in Frame : /\ k = [Then("object_field_end") EXCEPT !.name = f.text]
                           /\ k.state = "eatws" /\ k.saved = "object_field_end"
                           /\ k.name = f.text /\ k.current = f.current
    <3>1. PICK j \in Frame : /\ j = Then("object_field_end") /\ j.state = "eatws"
                             /\ j.saved = "object_field_end" /\ j.current = f.current
      BY <1>1, <1>2, ToAlike DEF Goals, Filling, Alike
    <3>2. PICK k \in Frame : /\ k = [j EXCEPT !.name = f.text] /\ k.state = j.state
                             /\ k.saved = j.saved /\ k.name = f.text /\ k.current = j.current
      <4>1. PICK n \in Seq(Symbols) : n = f.text
        BY <1>2
      <4>2. [j EXCEPT !.name = n] \in Frame
        BY DEF Frame
      <4> QED BY <4>1, <4>2 DEF Frame
    <3> QED BY <3>1, <3>2
  <2>2. FrameSays(s, t, k, l, pos + 1, g)
    BY <1>2, <1>3, <1>4, <2>1, NamedSays
  <2>3. KidsSay(t, k, l)
    <3>1. Aim(f) \in Filling /\ WhatIn(Aim(k)) = WhatIn(Aim(f))
      BY <1>3, <2>1 DEF Aim, Aside, Filling, WhatIn
    <3> QED BY <1>2, <2>1, <3>1, KidsStay
  <2>4. c # NUL
    BY <1>3, <1>4 DEF NUL, Quotes
  <2> QED BY <1>1, <1>4, <2>1, <2>2, <2>3, <2>4, GoesStays
<1>5. CASE InQuotes(c)
  BY <1>1, <1>2, <1>5, InQuotesGives DEF InText
<1> QED BY <1>1, <1>4, <1>5 DEF Field

-----------------------------------------------------------------------------
(* The turns of a container.                                               *)

(* The frame that goes on in another state of the same container, or is    *)
(* done with it.                                                           *)
LEMMA ThenFits ==
    ASSUME NEW f \in Frame, f = Top, NEW x \in Goals
    PROVE  /\ Then(x) \in Frame /\ Then(x).state = "eatws" /\ Then(x).saved = x
           /\ Then(x).current = f.current /\ Then(x).name = f.name /\ Aim(Then(x)) = x
<1>1. /\ Then(x) \in Frame /\ Then(x).state = "eatws" /\ Then(x).saved = x
      /\ Then(x).current = f.current /\ Then(x).name = f.name
  BY ToAlike DEF Alike
<1> QED BY <1>1 DEF Aim, Aside

LEMMA CloseGives ==
    ASSUME NEW s, NEW l, NEW g, NEW c, Turning(s, l, g, c),
           Top.state \in {"array", "array_sep", "object_field_start", "object_sep"},
           c = Close(WhatIn(Top.state)), Goes(c, Then("finish"), 1)
    PROVE  Stays(s, g)
<1>1. PICK f, t : f = Top /\ t = TreeIn(heap)
  OBVIOUS
<1>2. /\ Source(s) /\ FrameSays(s, t, f, l, pos, g) /\ KidsSay(t, f, l) /\ s[pos] = c
      /\ f \in Frame
  BY <1>1, TurningFits
<1>3. PICK k \in Frame : /\ k = Then("finish") /\ k.state = "eatws" /\ k.saved = "finish"
                         /\ k.current = f.current /\ Aim(k) = "finish"
  BY <1>1, <1>2, ThenFits DEF Goals
<1>4. FrameSays(s, t, k, l, pos + 1, g)
  BY <1>1, <1>2, <1>3, CloseSays
<1>5. KidsSay(t, k, l)
  BY <1>3 DEF KidsSay, Filling
<1>6. c # NUL
  BY CloseFits DEF WhatIn, Whats
<1> QED BY <1>1, <1>3, <1>4, <1>5, <1>6, GoesStays

LEMMA CommaGives ==
    ASSUME NEW s, NEW l, NEW g, NEW c, Turning(s, l, g, c),
           Top.state \in {"array_sep", "object_sep"}, c = ",",
           NEW x, x = WhatIn(Top.state), Goes(c, Then(x), 1)
    PROVE  Stays(s, g)
<1>1. PICK f, t : f = Top /\ t = TreeIn(heap)
  OBVIOUS
<1>2. /\ Source(s) /\ FrameSays(s, t, f, l, pos, g) /\ KidsSay(t, f, l) /\ s[pos] = c
      /\ f \in Frame
  BY <1>1, TurningFits
<1>3. x \in Goals /\ x \in Filling /\ WhatIn(x) = x /\ Aim(f) = f.state /\ Aim(f) \in Filling
  BY <1>1 DEF Goals, Filling, WhatIn, Aim, Aside
<1>4. PICK k \in Frame : /\ k = Then(x) /\ k.state = "eatws" /\ k.saved = x
                         /\ k.current = f.current /\ Aim(k) = x
  BY <1>1, <1>2, <1>3, ThenFits
<1>5. FrameSays(s, t, k, l, pos + 1, g)
  BY <1>1, <1>2, <1>4, CommaSays
<1>6. KidsSay(t, k, l)
  BY <1>1, <1>2, <1>3, <1>4, KidsStay
<1>7. c # NUL
  BY DEF NUL
<1> QED BY <1>1, <1>4, <1>5, <1>6, <1>7, GoesStays

(* A call of do_parse() for an item, which begins here.                    *)
Asks(s, l, g) ==
    /\ Waiting(Top) /\ Call
    /\ g = Awaited(s, Top, l, ValueAt(s, Parts(s), pos))
Goal(s, l, g) == Stays(s, g) \/ Gives(s, g) \/ Asks(s, l, g)

LEMMA ArrayGives ==
    ASSUME NEW s, NEW l, NEW g, NEW c, Turning(s, l, g, c), Array(c)
    PROVE  Goal(s, l, g)
<1>1. Source(s) /\ FrameSays(s, TreeIn(heap), Top, l, pos, g) /\ s[pos] = c /\ Top.state = "array"
  BY TurningFits DEF Array
<1>2. CASE c = Close("array") /\ Goes(c, Then("finish"), 1)
  <2>1. c = Close(WhatIn(Top.state)) /\ Top.state \in {"array", "array_sep", "object_field_start", "object_sep"}
    BY <1>1, <1>2 DEF WhatIn
  <2> QED BY <1>2, <2>1, CloseGives DEF Goal
<1>3. CASE c # Close("array") /\ Call
  <2>1. g = Awaited(s, Top, l, ValueAt(s, Parts(s), pos))
    <3>1. Top.state = "array" /\ s[pos] # "]"
      BY <1>1, <1>3 DEF Close
    <3> QED BY <1>1, <3>1, ItemSays
  <2> QED BY <1>1, <1>3, <2>1 DEF Goal, Asks, Waiting
<1>4. (c = "]" /\ Goes(c, Then("finish"), 1)) \/ (c # "]" /\ Call)
  BY DEF Array
<1>5. Close("array") = "]"
  BY DEF Close
<1> QED BY <1>2, <1>3, <1>4, <1>5

LEMMA FieldValueGives ==
    ASSUME NEW s, NEW l, NEW g, NEW c, Turning(s, l, g, c), FieldValue(c)
    PROVE  Goal(s, l, g)
<1>1. /\ Source(s) /\ FrameSays(s, TreeIn(heap), Top, l, pos, g) /\ Top.state = "object_value" /\ Call
  BY TurningFits DEF FieldValue
<1>2. g = Awaited(s, Top, l, ValueAt(s, Parts(s), pos))
  BY <1>1, ItemSays
<1> QED BY <1>1, <1>2 DEF Goal, Asks, Waiting

LEMMA SepGives ==
    ASSUME NEW s, NEW l, NEW g, NEW c, Turning(s, l, g, c), ArraySep(c) \/ ObjectSep(c)
    PROVE  Stays(s, g) \/ Gives(s, g)
<1>1. /\ Source(s) /\ FrameSays(s, TreeIn(heap), Top, l, pos, g) /\ s[pos] = c
      /\ Top.state \in {"array_sep", "object_sep"}
  BY TurningFits DEF ArraySep, ObjectSep
<1>2. PICK x : x = WhatIn(Top.state) /\ Close("array") = "]" /\ Close("object") = "}"
  BY DEF Close
<1>3. \/ c = Close(x) /\ Goes(c, Then("finish"), 1)
      \/ c = "," /\ Goes(c, Then(x), 1)
      \/ c \notin {",", Close(x)} /\ Gives(s, None)
  <2>1. CASE ArraySep(c)
    <3>1. x = "array"
      BY <1>2, <2>1 DEF WhatIn, ArraySep
    <3>2. CASE c \notin {"]", ","}
      <4>1. Return(ErrorPtr)
        BY <2>1, <3>2 DEF ArraySep
      <4> QED BY <1>2, <3>1, <3>2, <4>1, LeavesGives
    <3> QED BY <1>2, <2>1, <3>1, <3>2 DEF ArraySep
  <2>2. CASE ObjectSep(c)
    <3>1. x = "object"
      BY <1>2, <2>2 DEF WhatIn, ObjectSep
    <3>2. CASE c \notin {"}", ","}
      <4>1. Fail /\ ~Wide
        BY <2>2, <3>2 DEF ObjectSep, Refuses, Turning
      <4> QED BY <1>2, <3>1, <3>2, <4>1, FailGives
    <3> QED BY <1>2, <2>2, <3>1, <3>2 DEF ObjectSep
  <2> QED BY <2>1, <2>2
<1>4. CASE c = Close(x) /\ Goes(c, Then("finish"), 1)
  BY <1>1, <1>2, <1>4, CloseGives
<1>5. CASE c = "," /\ Goes(c, Then(x), 1)
  BY <1>1, <1>2, <1>5, CommaGives
<1>6. CASE c \notin {",", Close(x)} /\ Gives(s, None)
  <2>1. g = None
    BY <1>1, <1>2, <1>6, StuckSays
  <2> QED BY <1>6, <2>1
<1> QED BY <1>3, <1>4, <1>5, <1>6

LEMMA ObjectGives ==
    ASSUME NEW s, NEW l, NEW g, NEW c, Turning(s, l, g, c), Object(c)
    PROVE  Stays(s, g) \/ Gives(s, g)
<1>1. PICK f, t : f = Top /\ t = TreeIn(heap)
  OBVIOUS
<1>2. /\ Source(s) /\ FrameSays(s, t, f, l, pos, g) /\ KidsSay(t, f, l) /\ s[pos] = c
      /\ f \in Frame /\ f.state = "object" /\ Aim(f) = "object" /\ FrameFits(f) /\ pos + 0 = pos
  BY <1>1, TurningFits DEF Object, Aim, Aside
<1>3. PICK k \in Frame : /\ k = To("object_field_start") /\ Alike(f, k)
                         /\ k.state = "object_field_start" /\ k.saved = f.saved
  BY <1>1, <1>2, ToAlike DEF States, Goals, Filling
<1>4. FrameSays(s, t, k, l, pos, g)
  BY <1>2, <1>3, ObjectSays
<1>5. Goes(c, k, 0)
  BY <1>3 DEF Object
<1>6. CASE c = NUL
  <2>1. g = None
    BY <1>2, <1>3, <1>4, <1>6, AtEnd
  <2>2. "finish" \notin {k.state, k.saved}
    BY <1>2, <1>3 DEF FrameFits
  <2> QED BY <1>5, <1>6, <2>1, <2>2, GoesNone
<1>7. CASE c # NUL
  <2>1. KidsSay(t, k, l)
    <3>1. Aim(f) \in Filling /\ WhatIn(Aim(k)) = WhatIn(Aim(f)) /\ k.current = f.current
      BY <1>2, <1>3 DEF Aim, Aside, Filling, WhatIn, Alike
    <3> QED BY <1>2, <3>1, KidsStay
  <2>2. FrameSays(s, t, k, l, pos + 0, g)
    BY <1>2, <1>4
  <2> QED BY <1>1, <1>5, <1>7, <2>1, <2>2, GoesStays
<1> QED BY <1>6, <1>7

LEMMA FieldStartGives ==
    ASSUME NEW s, NEW l, NEW g, NEW c, Turning(s, l, g, c), FieldStart(c)
    PROVE  Stays(s, g) \/ Gives(s, g)
<1>1. PICK f, t : f = Top /\ t = TreeIn(heap)
  OBVIOUS
<1>2. /\ Source(s) /\ FrameSays(s, t, f, l, pos, g) /\ KidsSay(t, f, l) /\ s[pos] = c
      /\ f \in Frame /\ f.state = "object_field_start" /\ Aim(f) = "object_field_start"
  BY <1>1, TurningFits DEF FieldStart, Aim, Aside
<1>3. Close("object") = "}" /\ WhatIn(f.state) = "object"
  BY <1>2 DEF Close, WhatIn
<1>4. \/ c = Close("object") /\ Goes(c, Then("finish"), 1)
      \/ c \in Quotes /\ Goes(c, [To("object_field") EXCEPT !.quote = c, !.text = << >>], 1)
      \/ c \notin Quotes \cup {Close("object")} /\ Refuses
  BY <1>3 DEF FieldStart
<1>5. CASE c = Close("object") /\ Goes(c, Then("finish"), 1)
  BY <1>1, <1>2, <1>3, <1>5, CloseGives
<1>6. CASE c \in Quotes /\ Goes(c, [To("object_field") EXCEPT !.quote = c, !.text = << >>], 1)
  <2>1. PICK k \in Frame : /\ k = [To("object_field") EXCEPT !.quote = c, !.text = << >>]
                           /\ k.state = "object_field" /\ k.quote = c /\ k.text = << >>
                           /\ k.current = f.current
    <3>1. PICK j \in Frame : /\ j = To("object_field") /\ j.state = "object_field"
                             /\ j.current = f.current
      BY <1>1, <1>2, ToAlike DEF States, Goals, Filling, Alike
    <3>2. << >> \in Seq(Symbols)
      OBVIOUS
    <3>3. [j EXCEPT !.quote = c, !.text = << >>] \in Frame
      BY <1>6, <3>2 DEF Frame
    <3> QED BY <3>1, <3>3 DEF Frame
  <2>2. FrameSays(s, t, k, l, pos + 1, g)
    BY <1>2, <1>6, <2>1, NameSays
  <2>3. KidsSay(t, k, l)
    <3>1. Aim(f) \in Filling /\ WhatIn(Aim(k)) = WhatIn(Aim(f))
      BY <1>2, <2>1 DEF Aim, Aside, Filling, WhatIn
    <3> QED BY <1>2, <2>1, <3>1, KidsStay
  <2>4. c # NUL
    BY <1>6 DEF NUL, Quotes
  <2> QED BY <1>1, <1>6, <2>1, <2>2, <2>3, <2>4, GoesStays
<1>7. CASE c \notin Quotes \cup {Close("object")} /\ Refuses
  <2>1. g = None
    <3>1. s[pos] \notin Quotes \cup {"}"}
      BY <1>2, <1>3, <1>7
    <3> QED BY <1>2, <3>1, StuckSays
  <2> QED BY <1>7, <2>1, RefusesGives
<1> QED BY <1>4, <1>5, <1>6, <1>7

LEMMA FieldEndGives ==
    ASSUME NEW s, NEW l, NEW g, NEW c, Turning(s, l, g, c), FieldEnd(c)
    PROVE  Stays(s, g) \/ Gives(s, g)
<1>1. PICK f, t : f = Top /\ t = TreeIn(heap)
  OBVIOUS
<1>2. /\ Source(s) /\ FrameSays(s, t, f, l, pos, g) /\ KidsSay(t, f, l) /\ s[pos] = c
      /\ f \in Frame /\ f.state = "object_field_end"
  BY <1>1, TurningFits DEF FieldEnd
<1>3. CASE c = ":" /\ Goes(c, Then("object_value"), 1)
  <2>1. PICK k \in Frame : /\ k = Then("object_value") /\ k.state = "eatws"
                           /\ k.saved = "object_value" /\ k.name = f.name
                           /\ k.current = f.current /\ Aim(k) = "object_value"
    BY <1>1, <1>2, ThenFits DEF Goals, Filling
  <2>2. FrameSays(s, t, k, l, pos + 1, g)
    BY <1>2, <1>3, <2>1, ColonSays
  <2>3. KidsSay(t, k, l)
    <3>1. Aim(f) \in Filling /\ WhatIn(Aim(k)) = WhatIn(Aim(f))
      BY <1>2, <2>1 DEF Aim, Aside, Filling, WhatIn
    <3> QED BY <1>2, <2>1, <3>1, KidsStay
  <2>4. c # NUL
    BY <1>3 DEF NUL
  <2> QED BY <1>1, <1>3, <2>1, <2>2, <2>3, <2>4, GoesStays
<1>4. CASE c # ":" /\ Leaves
  <2>1. g = None
    BY <1>2, <1>4, StuckSays
  <2> QED BY <1>4, <2>1, LeavesGives DEF Leaves
<1> QED BY <1>3, <1>4 DEF FieldEnd

(* Every turn.                                                             *)
LEMMA TurnGives ==
    ASSUME NEW s, NEW l, NEW g, NEW c, Turning(s, l, g, c), Turns(c)
    PROVE  Goal(s, l, g)
<1>1. ~CommentStart(c) /\ ~Comment(c)
  <2>1. Top.state \in {"eatws", "string_escape"} \cup Goals
    BY TurningFits DEF FrameSays
  <2> QED BY <2>1 DEF CommentStart, Comment, Goals, Empty, Filling
<1>2. CASE EatWs(c)
  BY <1>2, EatWsGives DEF Goal
<1>3. CASE Begin(c)
  BY <1>3, BeginGives DEF Goal
<1>4. CASE Finish(c)
  BY <1>4, FinishTurn DEF Goal
<1>5. CASE Null(c)
  BY <1>5, NullGives DEF Goal
<1>6. CASE Boolean(c)
  BY <1>6, BooleanGives DEF Goal
<1>7. CASE String(c)
  BY <1>7, StringGives DEF Goal
<1>8. CASE Escape(c)
  BY <1>8, EscapeGives DEF Goal
<1>9. CASE Number(c)
  BY <1>9, NumberGives DEF Goal
<1>10. CASE Array(c)
  BY <1>10, ArrayGives
<1>11. CASE ArraySep(c) \/ ObjectSep(c)
  BY <1>11, SepGives DEF Goal
<1>12. CASE Object(c)
  BY <1>12, ObjectGives DEF Goal
<1>13. CASE FieldStart(c)
  BY <1>13, FieldStartGives DEF Goal
<1>14. CASE Field(c)
  BY <1>14, FieldGives DEF Goal
<1>15. CASE FieldEnd(c)
  BY <1>15, FieldEndGives DEF Goal
<1>16. CASE FieldValue(c)
  BY <1>16, FieldValueGives
<1> QED BY <1>1, <1>2, <1>3, <1>4, <1>5, <1>6, <1>7, <1>8, <1>9, <1>10, <1>11, <1>12, <1>13,
           <1>14, <1>15, <1>16 DEF Turns

-----------------------------------------------------------------------------
(* What all the calls say together: the value of the source is e[1], what  *)
(* is found where the outermost call began; pre[i] are the items that the  *)
(* i-th call has read, and e[i + 1] the value that it waits for.           *)
Foretells(s, t, fs, r, p, e, pre) ==
    /\ e[1] = ValueAt(s, Parts(s), 1)
    /\ \A i \in DOMAIN fs : KidsSay(t, fs[i], pre[i])
    /\ \A i \in DOMAIN fs : i < Len(fs) \/ r # NoValue => e[i] = Awaited(s, fs[i], pre[i], e[i + 1])
    /\ IF r = NoValue
       THEN fs # << >> /\ FrameSays(s, t, fs[Len(fs)], pre[Len(fs)], p, e[Len(fs)])
       ELSE r # Truncated /\ Outcome(s, t, r, p, e[Len(fs) + 1])
Foretold(s, t, fs, r, p) == \E e, pre : Foretells(s, t, fs, r, p, e, pre)

(* The n calls fs, as they are while the innermost one runs; and that all  *)
(* others stay as they are, with the same items.                           *)
Told(s, t, fs, n, e, pre) ==
    /\ n \in Nat /\ n > 0 /\ DOMAIN fs = 1..n /\ Len(fs) = n
    /\ e[1] = ValueAt(s, Parts(s), 1) /\ \A i \in 1..n : KidsSay(t, fs[i], pre[i])
    /\ \A i \in 1..n : i < n => e[i] = Awaited(s, fs[i], pre[i], e[i + 1])
Others(t, u, fs, gs, n, pre) ==
    \A i \in 1..n : i # n =>
        gs[i] = fs[i] /\ (KidsSay(t, fs[i], pre[i]) => KidsSay(u, fs[i], pre[i]))

LEMMA ForetoldStays ==
    ASSUME NEW s, NEW t, NEW u, NEW fs, NEW gs, NEW n, NEW q, NEW e, NEW pre,
           Told(s, t, fs, n, e, pre), Others(t, u, fs, gs, n, pre), DOMAIN gs = 1..n, Len(gs) = n,
           NEW l, KidsSay(u, gs[n], l), FrameSays(s, u, gs[n], l, q, e[n])
    PROVE  Foretold(s, u, gs, NoValue, q)
<1> USE DEF Told, Others
<1>1. PICK now : now = [i \in 1..n |-> IF i = n THEN l ELSE pre[i]]
  OBVIOUS
<1>2. now[n] = l /\ \A i \in 1..n : i # n => now[i] = pre[i]
  BY <1>1
<1>3. \A i \in 1..n : KidsSay(u, gs[i], now[i])
  BY <1>2
<1>4. \A i \in 1..n : i < n => e[i] = Awaited(s, gs[i], now[i], e[i + 1])
  BY <1>2
<1>5. gs # << >>
  BY EmptyIsSeq
<1>6. Foretells(s, u, gs, NoValue, q, e, now)
  BY <1>2, <1>3, <1>4, <1>5 DEF Foretells
<1> QED BY <1>6 DEF Foretold

LEMMA ForetoldGives ==
    ASSUME NEW s, NEW t, NEW u, NEW fs, NEW gs, NEW n, NEW q, NEW e, NEW pre,
           Told(s, t, fs, n, e, pre), Others(t, u, fs, gs, n, pre),
           DOMAIN gs = 1..n - 1, Len(gs) = n - 1,
           NEW r, r \notin {NoValue, Truncated}, Outcome(s, u, r, q, e[n])
    PROVE  Foretold(s, u, gs, r, q)
<1> USE DEF Told, Others
<1>1. \A i \in 1..n - 1 : KidsSay(u, gs[i], pre[i])
  OBVIOUS
<1>2. \A i \in 1..n - 1 : e[i] = Awaited(s, gs[i], pre[i], e[i + 1])
  OBVIOUS
<1>3. n - 1 + 1 = n
  OBVIOUS
<1>4. Foretells(s, u, gs, r, q, e, pre)
  BY <1>1, <1>2, <1>3 DEF Foretells
<1> QED BY <1>4 DEF Foretold

LEMMA ForetoldAsks ==
    ASSUME NEW s, Source(s), NEW t, NEW fs, NEW gs, NEW n, NEW p \in 1..Len(s),
           NEW e, NEW pre, Told(s, t, fs, n, e, pre),
           DOMAIN gs = 1..n + 1, Len(gs) = n + 1, gs[n + 1] = NewFrame,
           \A i \in 1..n : gs[i] = fs[i],
           e[n] = Awaited(s, fs[n], pre[n], ValueAt(s, Parts(s), p))
    PROVE  Foretold(s, t, gs, NoValue, p)
<1> USE DEF Told
<1>1. PICK g : g = ValueAt(s, Parts(s), p)
  OBVIOUS
<1>2. PICK now, then : /\ now = [i \in 1..n + 1 |-> IF i = n + 1 THEN << >> ELSE pre[i]]
                       /\ then = [i \in 1..n + 1 |-> IF i = n + 1 THEN g ELSE e[i]]
  OBVIOUS
<1>3. /\ now[n + 1] = << >> /\ \A i \in 1..n : now[i] = pre[i]
      /\ then[n + 1] = g /\ \A i \in 1..n : then[i] = e[i]
  BY <1>2
<1>4. then[1] = ValueAt(s, Parts(s), 1)
  BY <1>3
<1>5. \A i \in 1..n + 1 : KidsSay(t, gs[i], now[i])
  <2>1. KidsSay(t, NewFrame, << >>)
    BY DEF KidsSay, NewFrame, Aim, Aside, Filling
  <2> QED BY <1>3, <2>1
<1>6. \A i \in 1..n + 1 : i < n + 1 => then[i] = Awaited(s, gs[i], now[i], then[i + 1])
  <2>1. ASSUME NEW i \in 1..n, i < n PROVE then[i] = Awaited(s, gs[i], now[i], then[i + 1])
    <3>1. i + 1 \in 1..n
      BY <2>1
    <3> QED BY <1>3, <2>1, <3>1
  <2>2. then[n] = Awaited(s, gs[n], now[n], then[n + 1])
    BY <1>1, <1>3
  <2> QED BY <2>1, <2>2
<1>7. FrameSays(s, t, gs[n + 1], now[n + 1], p, then[n + 1])
  BY <1>1, <1>3, NewFrameSays
<1>8. gs # << >>
  BY EmptyIsSeq
<1>9. Foretells(s, t, gs, NoValue, p, then, now)
  BY <1>4, <1>5, <1>6, <1>7, <1>8 DEF Foretells
<1> QED BY <1>9 DEF Foretold

(* A turn of the loop.                                                     *)
LEMMA TreesKept ==
    ASSUME SInv, Ordered(heap), Turned
    PROVE  Ordered(heap') /\ \A p \in Int : p <= Len(heap) => TreeIn(heap')[p] = TreeIn(heap)[p]
<1>1. heap \in Seq(HeapNode) /\ InRange(frames, ret, todo, heap)
  BY DEF SInv, Shape
<1>2. CASE heap' = heap
  BY <1>2
<1>3. ASSUME NEW n \in HeapNode, n.kids = << >>, heap' = Append(heap, n)
      PROVE  Ordered(heap') /\ \A p \in Int : p <= Len(heap) => TreeIn(heap')[p] = TreeIn(heap)[p]
  <2>1. PICK g : g = heap' /\ g = Append(heap, n)
    BY <1>3
  <2>2. Ordered(g) /\ \A p \in Int : p <= Len(heap) => TreeIn(g)[p] = TreeIn(heap)[p]
    BY <1>1, <1>3, <2>1, NewTree
  <2> QED BY <2>1, <2>2
<1>4. heap' = heap \/ \E n \in HeapNode : n.kids = << >> /\ heap' = Append(heap, n)
  BY DEF Turned, KeepsNode, MakesNode, ReturnsNode, ReturnsNew, Fails, Forgets, Calls, NewNode
<1> QED BY <1>2, <1>3, <1>4

LEMMA KidsKept ==
    ASSUME NEW m, NEW t, NEW u, \A p \in Int : p <= m => u[p] = t[p],
           NEW f, f.current \in 0..m, m \in Nat, NEW l, KidsSay(t, f, l)
    PROVE  KidsSay(u, f, l)
<1>1. u[f.current] = t[f.current]
  OBVIOUS
<1> QED BY <1>1 DEF KidsSay

LEMMA TurnForetold ==
    ASSUME SInv, Ordered(heap), Parsing, ret = NoValue, ~Wide, Turned,
           NEW s, Source(s), NEW c \in Symbols, s[pos] = c, c # "/", Turns(c),
           Foretold(s, TreeIn(heap), frames, ret, pos)
    PROVE  Foretold(s, TreeIn(heap'), frames', ret', pos')
<1>1. PICK e, pre : Foretells(s, TreeIn(heap), frames, ret, pos, e, pre)
  BY DEF Foretold
<1>2. PICK n, t, u, l, g :
          /\ n \in Nat /\ n = Len(frames) /\ n > 0 /\ DOMAIN frames = 1..n /\ frames \in Seq(Frame)
          /\ t = TreeIn(heap) /\ u = TreeIn(heap') /\ l = pre[n] /\ g = e[n]
  BY DEF SInv, Shape, Parsing
<1>3. /\ Told(s, t, frames, n, e, pre) /\ KidsSay(t, frames[n], l)
      /\ FrameSays(s, t, frames[n], l, pos, g)
  BY <1>1, <1>2 DEF Foretells, Told
<1>4. Top = frames[n]
  BY <1>2, TopFits DEF SInv, Parsing
<1>5. KidsSay(t, Top, l) /\ FrameSays(s, t, Top, l, pos, g)
  BY <1>2, <1>3, <1>4
<1>6. Goal(s, l, g)
  <2>1. Turning(s, l, g, c)
    BY <1>2, <1>5 DEF Turning, Here, Parsing
  <2> QED BY <2>1, TurnGives
<1>7. \A i \in 1..n : KidsSay(t, frames[i], pre[i]) => KidsSay(u, frames[i], pre[i])
  <2>1. \A p \in Int : p <= Len(heap) => u[p] = t[p]
    BY <1>2, TreesKept
  <2>2. Len(heap) \in Nat /\ \A i \in 1..n : frames[i].current \in 0..Len(heap)
    BY <1>2 DEF SInv, Shape, InRange
  <2> QED BY <2>1, <2>2, KidsKept
<1>8. CASE Stays(s, g)
  <2>1. PICK f, m : /\ f \in Frame /\ Replaces(f) /\ ret' = NoValue
                    /\ FrameSays(s, u, f, m, pos', g) /\ KidsSay(u, f, m)
    BY <1>2, <1>8 DEF Stays
  <2>2. PICK gs : gs = frames' /\ gs = [frames EXCEPT ![n] = f]
    BY <1>2, <2>1 DEF Replaces
  <2>3. DOMAIN gs = 1..n /\ Len(gs) = n /\ gs[n] = f /\ \A i \in 1..n : i # n => gs[i] = frames[i]
    BY <1>2, <2>2, ReplaceFits
  <2>4. Foretold(s, u, gs, NoValue, pos')
    <3>1. Others(t, u, frames, gs, n, pre)
      BY <1>7, <2>3 DEF Others
    <3> QED BY <1>2, <1>3, <2>1, <2>3, <3>1, ForetoldStays
  <2> QED BY <1>2, <2>1, <2>2, <2>4
<1>9. CASE Gives(s, g)
  <2>1. PICK gs, r : /\ gs = frames' /\ gs = Front(frames) /\ r = ret'
                     /\ r \notin {NoValue, Truncated} /\ Outcome(s, u, r, pos', g)
    BY <1>2, <1>9 DEF Gives
  <2>2. DOMAIN gs = 1..n - 1 /\ Len(gs) = n - 1 /\ \A i \in 1..n - 1 : gs[i] = frames[i]
    <3>1. gs \in Seq(Frame) /\ Len(gs) = n - 1 /\ \A i \in 1..n - 1 : gs[i] = frames[i]
      <4>1. frames # << >>
        BY DEF Parsing
      <4> QED BY <1>2, <2>1, <4>1, FrontFits
    <3> QED BY <3>1
  <2>3. \A i \in 1..n : i # n => i \in 1..n - 1
    BY <1>2
  <2>4. Foretold(s, u, gs, r, pos')
    <3>1. Others(t, u, frames, gs, n, pre)
      BY <1>7, <2>2, <2>3 DEF Others
    <3> QED BY <1>2, <1>3, <2>1, <2>2, <3>1, ForetoldGives
  <2> QED BY <1>2, <2>1, <2>4
<1>10. CASE Asks(s, l, g)
  <2>1. PICK gs : /\ gs = frames' /\ gs = Append(frames, NewFrame)
                  /\ g = Awaited(s, frames[n], l, ValueAt(s, Parts(s), pos))
                  /\ heap' = heap /\ pos' = pos /\ ret' = NoValue
    BY <1>4, <1>10 DEF Asks, Call
  <2>2. /\ DOMAIN gs = 1..n + 1 /\ Len(gs) = n + 1 /\ gs[n + 1] = NewFrame
        /\ \A i \in 1..n : gs[i] = frames[i]
    BY <1>2, <2>1
  <2>3. pos \in 1..Len(s)
    BY <1>3 DEF FrameSays
  <2>4. Foretold(s, t, gs, NoValue, pos)
    BY <1>2, <1>3, <2>1, <2>2, <2>3, ForetoldAsks
  <2> QED BY <1>2, <2>1, <2>4
<1> QED BY <1>6, <1>8, <1>9, <1>10 DEF Goal

-----------------------------------------------------------------------------
(* The entries of a container with the trees of their values.              *)
Mapped(t, kids) == [i \in DOMAIN kids |-> Entry(kids[i].key, t[kids[i].val])]

LEMMA MappedFits ==
    ASSUME NEW t, NEW kids \in Seq(Kid)
    PROVE  /\ DOMAIN Mapped(t, kids) = DOMAIN kids /\ Len(Mapped(t, kids)) = Len(kids)
           /\ \E A : Mapped(t, kids) \in Seq(A)
           /\ \A i \in DOMAIN kids : Mapped(t, kids)[i] = Entry(kids[i].key, t[kids[i].val])
<1>1. PICK m, x : m = Len(kids) /\ x = Mapped(t, kids)
  OBVIOUS
<1>2. m \in Nat /\ DOMAIN kids = 1..m
  BY <1>1
<1>3. x = [i \in 1..m |-> x[i]] /\ \A i \in DOMAIN kids : x[i] = Entry(kids[i].key, t[kids[i].val])
  BY <1>1, <1>2 DEF Mapped
<1>4. IsSeq(x) /\ Len(x) = m
  BY <1>2, <1>3, SeqMade
<1> QED BY <1>1, <1>2, <1>3, <1>4 DEF IsSeq

LEMMA MappedAppend ==
    ASSUME NEW t, NEW kids \in Seq(Kid), NEW e \in Kid
    PROVE  Mapped(t, Append(kids, e)) = Append(Mapped(t, kids), Entry(e.key, t[e.val]))
<1>1. PICK m, x, y, z : /\ m = Len(kids) /\ x = Mapped(t, kids) /\ y = Entry(e.key, t[e.val])
                        /\ z = Mapped(t, Append(kids, e))
  OBVIOUS
<1>2. m \in Nat /\ DOMAIN kids = 1..m /\ Append(kids, e) \in Seq(Kid)
  BY <1>1
<1>3. PICK A : x \in Seq(A) /\ Len(x) = m /\ \A i \in 1..m : x[i] = Entry(kids[i].key, t[kids[i].val])
  BY <1>1, <1>2, MappedFits
<1>4. PICK B : z \in Seq(B) /\ Len(z) = m + 1
               /\ \A i \in 1..m + 1 : z[i] = Entry(Append(kids, e)[i].key, t[Append(kids, e)[i].val])
  <2>1. Len(Append(kids, e)) = m + 1 /\ DOMAIN Append(kids, e) = 1..m + 1
    BY <1>1, <1>2
  <2>2. PICK w \in Seq(Kid) : w = Append(kids, e)
    BY <1>2
  <2>3. /\ DOMAIN Mapped(t, w) = DOMAIN w /\ Len(Mapped(t, w)) = Len(w)
        /\ \E B : Mapped(t, w) \in Seq(B)
        /\ \A i \in DOMAIN w : Mapped(t, w)[i] = Entry(w[i].key, t[w[i].val])
    BY MappedFits
  <2> QED BY <1>1, <2>1, <2>2, <2>3
<1>5. \A i \in 1..m : z[i] = x[i]
  BY <1>1, <1>2, <1>3, <1>4
<1>6. z[m + 1] = y
  BY <1>1, <1>2, <1>4
<1>7. Append(x, y) \in Seq(A \cup {y}) /\ Len(Append(x, y)) = m + 1 /\ Append(x, y)[m + 1] = y
      /\ \A i \in 1..m : Append(x, y)[i] = x[i]
  BY <1>2, <1>3
<1>8. \A i \in 1..m + 1 : z[i] = Append(x, y)[i]
  BY <1>2, <1>5, <1>6, <1>7
<1>9. z \in Seq(A \cup B \cup {y}) /\ Append(x, y) \in Seq(A \cup B \cup {y})
  BY <1>4, <1>7, SeqWider
<1>10. z = Append(x, y)
  BY <1>4, <1>7, <1>8, <1>9
<1> QED BY <1>1, <1>10

LEMMA MappedWithout ==
    ASSUME NEW t, NEW kids \in Seq(Kid), NEW key
    PROVE  /\ Without(kids, key) \in Seq(Kid)
           /\ Mapped(t, Without(kids, key)) = Without(Mapped(t, kids), key)
<1>1. PICK m, x : m = Len(kids) /\ x = Mapped(t, kids)
  OBVIOUS
<1>2. m \in Nat /\ DOMAIN kids = 1..m
  BY <1>1
<1>3. PICK A : /\ x \in Seq(A) /\ Len(x) = m /\ DOMAIN x = 1..m
               /\ \A i \in 1..m : x[i] = Entry(kids[i].key, t[kids[i].val])
  BY <1>1, <1>2, MappedFits
<1>4. \A i \in 1..m : x[i].key = kids[i].key
  BY <1>3 DEF Entry
<1>5. (HasKey(x, key) <=> HasKey(kids, key)) /\ Find(x, key) = Find(kids, key)
  BY <1>2, <1>3, <1>4 DEF HasKey, Find
<1>6. CASE ~HasKey(kids, key)
  BY <1>1, <1>5, <1>6 DEF Without
<1>7. CASE HasKey(kids, key)
  <2>1. PICK n \in 1..m : n = Find(kids, key)
    BY <1>2, <1>7, FindFits
  <2>2. PICK y, z, w : y = RemoveAt(kids, n) /\ z = RemoveAt(x, n) /\ w = Mapped(t, y)
    OBVIOUS
  <2>3. y \in Seq(Kid) /\ Len(y) = m - 1 /\ \A k \in 1..m - 1 : y[k] = kids[IF k < n THEN k ELSE k + 1]
    BY <1>1, <1>2, <2>1, <2>2, RemoveAtIs
  <2>4. z \in Seq(A) /\ Len(z) = m - 1 /\ \A k \in 1..m - 1 : z[k] = x[IF k < n THEN k ELSE k + 1]
    BY <1>3, <2>1, <2>2, RemoveAtIs
  <2>5. PICK B : w \in Seq(B) /\ Len(w) = m - 1 /\ \A k \in 1..m - 1 : w[k] = Entry(y[k].key, t[y[k].val])
    BY <2>2, <2>3, MappedFits
  <2>6. \A k \in 1..m - 1 : w[k] = z[k]
    <3> TAKE k \in 1..m - 1
    <3>1. PICK i \in 1..m : i = IF k < n THEN k ELSE k + 1
      BY <1>2, <2>1
    <3> QED BY <1>3, <2>3, <2>4, <2>5, <3>1
  <2>7. w \in Seq(A \cup B) /\ z \in Seq(A \cup B)
    BY <2>4, <2>5, SeqWider
  <2>8. w = z
    BY <2>4, <2>5, <2>6, <2>7
  <2> QED BY <1>1, <1>5, <1>7, <2>1, <2>2, <2>3, <2>8 DEF Without
<1> QED BY <1>6, <1>7

(* Without a value the call that waits for it finds nothing.               *)
LEMMA AwaitedNone ==
    ASSUME NEW s, NEW f, NEW l
    PROVE  Awaited(s, f, l, None) = None
<1>1. PICK w : w = WithItem(s, Parts(s), WhatIn(f.state), KeyOf(f), None)
  OBVIOUS
<1>2. w = None /\ Failed(w)
  BY <1>1, GotFits DEF WithItem
<1>3. Gathered(s, WhatIn(f.state), l, w) = None
  BY <1>2 DEF Gathered
<1> QED BY <1>1, <1>3 DEF Awaited

(* With a value it goes on behind it, with one more item.                  *)
SepOf(f) == IF f.state = "array" THEN "array_sep" ELSE "object_sep"

LEMMA AwaitedSays ==
    ASSUME NEW s, Source(s), NEW f, f.state \in {"array", "object_value"}, NEW l, IsSeq(l),
           NEW p \in 1..Len(s), NEW v, v.kind # "error", NEW u, NEW k,
           k.state = "eatws", k.saved = SepOf(f)
    PROVE  FrameSays(s, u, k, Append(l, Entry(KeyOf(f), v)), p, Awaited(s, f, l, Got(v, Skip(s, p))))
<1>1. PICK what, x, e, y, r :
          /\ what = WhatIn(f.state) /\ x = SepOf(f) /\ e = Entry(KeyOf(f), v)
          /\ y = Got(v, Skip(s, p)) /\ r = AfterItem(s, Parts(s), what, p)
  OBVIOUS
<1>2. what \in Whats /\ x \in {"array_sep", "object_sep"} /\ WhatIn(x) = what
      /\ x = (IF what = "array" THEN "array_sep" ELSE "object_sep")
  BY <1>1 DEF WhatIn, SepOf, Whats
<1>3. y.val = v /\ y.next = Skip(s, p) /\ ~Failed(y)
  BY <1>1, GotFits
<1>4. AfterItem(s, Parts(s), what, Skip(s, p)) = r
  <2>1. Skip(s, Skip(s, p)) = Skip(s, p)
    BY SkipFits
  <2> QED BY <1>1, <2>1 DEF AfterItem
<1>5. WithItem(s, Parts(s), what, KeyOf(f), y) = Item(e, r)
  BY <1>1, <1>3, <1>4 DEF WithItem
<1>6. FinePart(s, r, what, p)
  BY <1>1, <1>2, GrammarFits
<1>7. Gathered(s, what, l, Item(e, r)) = Gathered(s, what, Append(l, e), r)
  BY <1>2, <1>6, GatheredItem
<1>8. PICK g : g = Awaited(s, f, l, y) /\ g = Gathered(s, what, Append(l, e), r)
  BY <1>1, <1>5, <1>7 DEF Awaited
<1>9. Left(s, x, k, p, r)
  BY <1>1, <1>2 DEF Left, Whats
<1>10. Says(s, u, x, k, Append(l, e), p, g)
  BY <1>2, <1>8, <1>9 DEF Says, Filling
<1>11. FrameSays(s, u, k, Append(l, e), p, g)
  BY <1>1, <1>2, <1>10, SaysThen DEF Spaced
<1> QED BY <1>1, <1>8, <1>11

LEMMA GiveUpForetold ==
    ASSUME SInv, Parsing, ~Wide, ret # NoValue, GiveUp,
           NEW s, Source(s), Foretold(s, TreeIn(heap), frames, ret, pos), pos' = pos
    PROVE  Foretold(s, TreeIn(heap'), frames', ret', pos')
<1>1. PICK e, pre : Foretells(s, TreeIn(heap), frames, ret, pos, e, pre)
  BY DEF Foretold
<1>2. PICK n, t, gs, r :
          /\ n \in Nat /\ n = Len(frames) /\ n > 0 /\ DOMAIN frames = 1..n /\ frames \in Seq(Frame)
          /\ t = TreeIn(heap) /\ gs = frames' /\ r = ret'
  BY DEF SInv, Shape, Parsing
<1>3. heap' = heap /\ gs = Front(frames) /\ r = ErrorPtr /\ IsError(ret) /\ IsError(r)
  BY <1>2 DEF GiveUp, Fail, Return, OutError, IsError
<1>4. /\ Told(s, t, frames, n, e, pre)
      /\ e[n] = Awaited(s, frames[n], pre[n], e[n + 1]) /\ e[n + 1] = None
  <2>1. n \in 1..n /\ n \in DOMAIN frames
    BY <1>2
  <2> QED BY <1>1, <1>2, <1>3, <2>1 DEF Foretells, Told, Outcome
<1>5. e[n] = None
  BY <1>4, AwaitedNone
<1>6. DOMAIN gs = 1..n - 1 /\ Len(gs) = n - 1 /\ \A i \in 1..n - 1 : gs[i] = frames[i]
  <2>1. frames # << >>
    BY DEF Parsing
  <2> QED BY <1>2, <1>3, <2>1, FrontFits
<1>7. Others(t, t, frames, gs, n, pre)
  <2>1. \A i \in 1..n : i # n => i \in 1..n - 1
    BY <1>2
  <2> QED BY <1>6, <2>1 DEF Others
<1>8. Foretold(s, t, gs, r, pos)
  <2>1. Outcome(s, t, r, pos, e[n]) /\ r \notin {NoValue, Truncated}
    BY <1>3, <1>5 DEF Outcome, ErrorPtr, NoValue, Truncated
  <2> QED BY <1>4, <1>6, <1>7, <2>1, ForetoldGives
<1> QED BY <1>2, <1>3, <1>8

(* Container c of a heap gets other entries: the trees that c is not in    *)
(* stay as they are.                                                       *)
Changes(h, g, c, new) ==
    /\ DOMAIN g = DOMAIN h /\ \A p \in DOMAIN h : p # c => g[p] = h[p]
    /\ g[c].kind = h[c].kind /\ g[c].text = h[c].text /\ g[c].kids = new

LEMMA KidsChange ==
    ASSUME NEW h \in Seq(HeapNode), NEW c \in DOMAIN h, NEW new
    PROVE  Changes(h, [h EXCEPT ![c].kids = new], c, new)
<1>1. PICK n \in HeapNode : n = h[c]
  OBVIOUS
<1>2. /\ [n EXCEPT !.kids = new].kind = n.kind /\ [n EXCEPT !.kids = new].text = n.text
      /\ [n EXCEPT !.kids = new].kids = new
  BY DEF HeapNode
<1>3. PICK m : m = [n EXCEPT !.kids = new] /\ m.kind = n.kind /\ m.text = n.text /\ m.kids = new
  BY <1>2
<1>4. PICK g : g = [h EXCEPT ![c].kids = new] /\ g = [h EXCEPT ![c] = m]
  BY <1>1, <1>3
<1>5. Changes(h, g, c, new)
  BY <1>1, <1>3, <1>4 DEF Changes
<1> QED BY <1>4, <1>5

Within(h, K) ==
    \A p \in K : p \in DOMAIN h => \A k \in DOMAIN h[p].kids : h[p].kids[k].val \in K

LEMMA TreeChanged ==
    ASSUME NEW h, NEW g, Ordered(h), Ordered(g), NEW c \in DOMAIN h, NEW new,
           Changes(h, g, c, new), NEW K \in SUBSET Int, c \notin K, Within(h, K),
           \A k \in DOMAIN new : new[k].val \in K
    PROVE  /\ \A p \in K : TreeIn(g)[p] = TreeIn(h)[p]
           /\ TreeIn(g)[c] = Value(h[c].kind, h[c].text, Mapped(TreeIn(h), new))
<1>1. \A p \in K : /\ Agrees(h, g, p)
                   /\ p \in DOMAIN h => \A k \in DOMAIN h[p].kids : h[p].kids[k].val \in K
  BY DEF Agrees, Changes, Within
<1>2. \A p \in K : TreeIn(g)[p] = TreeIn(h)[p]
  BY <1>1, TreeSame
<1>3. PICK t, u : t = TreeIn(h) /\ u = TreeIn(g)
  OBVIOUS
<1>4. u[c] = TreeAt(g, u, c)
  <2>1. c \in Int
    BY DEF Ordered
  <2> QED BY <1>3, <2>1, TreeFits
<1>5. [i \in DOMAIN new |-> Entry(new[i].key, u[new[i].val])] = Mapped(t, new)
  BY <1>2, <1>3 DEF Mapped
<1>6. u[c] = Value(h[c].kind, h[c].text, Mapped(t, new))
  BY <1>4, <1>5 DEF TreeAt, Value, Changes
<1> QED BY <1>2, <1>3, <1>6

LEMMA OrderedFits ==
    ASSUME NEW fs, NEW r, NEW td, NEW h, NEW failed, NEW x,
           Typed(fs, r, td, h), Owned(fs, r, td, h, failed, x)
    PROVE  Ordered(h)
BY TypedFits DEF Owned, Sorted, Ordered

(* What can be reached beside the container that the innermost call fills. *)
Beside(h, c) == {p \in Int : p <= 0 \/ (Alive(h, p) /\ p # c)}

LEMMA BesideFits ==
    ASSUME NEW fs, NEW r, NEW td, NEW h, NEW failed,
           Typed(fs, r, td, h), Owned(fs, r, td, h, failed, NULL),
           NEW n \in DOMAIN fs, NEW c, c = fs[n].current, c > 0
    PROVE  /\ c \in DOMAIN h /\ c \notin Beside(h, c) /\ Within(h, Beside(h, c)) /\ r \in Beside(h, c)
           /\ \A k \in DOMAIN h[c].kids : h[c].kids[k].val \in Beside(h, c)
           /\ \A i \in DOMAIN fs : i # n => fs[i].current \in Beside(h, c)
<1>1. c \in Int /\ n \in Int
  BY TypedFits
<1>2. Has(fs, r, td, h, "frame", n, 0, c)
  BY DEF Has
<1>3. Alive(h, c) /\ c \in DOMAIN h /\ c # NULL
  BY <1>1, <1>2 DEF Owned, HeldAlive, Holders, NULL, Alive
<1>4. ASSUME NEW a \in Holders, NEW i \in Int, NEW k \in Int, NEW v \in Int,
             Has(fs, r, td, h, a, i, k, v), ~(a = "frame" /\ i = n)
      PROVE  v \in Beside(h, c)
  <2>1. CASE v <= 0
    BY <2>1 DEF Beside
  <2>2. CASE v > 0
    <3>1. Alive(h, v)
      BY <1>4, <2>2 DEF Owned, HeldAlive, NULL
    <3>2. v # c
      BY <1>1, <1>2, <1>4, <2>2 DEF Owned, HeldOnce, Holders, NULL
    <3> QED BY <3>1, <3>2 DEF Beside
  <2> QED BY <2>1, <2>2
<1>5. r \in Beside(h, c)
  <2>1. Has(fs, r, td, h, "ret", 0, 0, r) /\ r \in Int
    BY DEF Has, Typed
  <2> QED BY <1>4, <2>1 DEF Holders
<1>6. ASSUME NEW p \in DOMAIN h, Alive(h, p), NEW k \in DOMAIN h[p].kids
      PROVE  h[p].kids[k].val \in Beside(h, c)
  <2>1. p \in Int /\ k \in Int /\ h[p].kids[k].val \in Int
    BY <1>6, TypedFits
  <2>2. Has(fs, r, td, h, "kid", p, k, h[p].kids[k].val)
    BY <1>6 DEF Has
  <2> QED BY <1>4, <2>1, <2>2 DEF Holders
<1>7. ASSUME NEW i \in DOMAIN fs, i # n PROVE fs[i].current \in Beside(h, c)
  <2>1. Has(fs, r, td, h, "frame", i, 0, fs[i].current) /\ i \in Int /\ fs[i].current \in Int
    BY TypedFits DEF Has
  <2> QED BY <1>4, <1>7, <2>1 DEF Holders
<1>8. Within(h, Beside(h, c))
  <2>1. ASSUME NEW p \in Beside(h, c), p \in DOMAIN h PROVE Alive(h, p)
    <3>1. p > 0
      BY <2>1, TypedFits
    <3> QED BY <2>1, <3>1 DEF Beside
  <2> QED BY <1>6, <2>1 DEF Within
<1>9. c \notin Beside(h, c)
  BY DEF Beside
<1> QED BY <1>3, <1>5, <1>6, <1>7, <1>8, <1>9

LEMMA EntryFits ==
    ASSUME NEW k, NEW v
    PROVE  Entry(k, v).key = k /\ Entry(k, v).val = v
BY DEF Entry

(* The entries of a container that takes one more.                         *)
Joined(kids, what, e) == Append(IF what = "array" THEN kids ELSE Without(kids, e.key), e)

(* The container has the items read so far, and one more.                  *)
Grows(t, u, h, c, what, l, e) ==
    /\ t[c] = TreeAt(h, t, c) /\ t[c] = Value(what, << >>, Whole(what, l))
    /\ u[c] = Value(h[c].kind, h[c].text, Mapped(t, Joined(h[c].kids, what, e)))

LEMMA KidsGrow ==
    ASSUME NEW t, NEW u, NEW h \in Seq(HeapNode), NEW c \in DOMAIN h, NEW what \in Whats,
           NEW l, IsSeq(l), NEW e \in Kid, Grows(t, u, h, c, what, l, e)
    PROVE  u[c] = Value(what, << >>, Whole(what, Append(l, Entry(e.key, t[e.val]))))
<1>1. PICK kids, old : /\ kids = h[c].kids /\ kids \in Seq(Kid)
                       /\ old = IF what = "array" THEN kids ELSE Without(kids, e.key)
  BY KidInRange
<1>2. t[c] = Value(h[c].kind, h[c].text, Mapped(t, kids))
  BY <1>1 DEF Grows, TreeAt, Value, Mapped
<1>3. h[c].kind = what /\ h[c].text = << >> /\ Mapped(t, kids) = Whole(what, l)
  BY <1>2 DEF Grows, Value
<1>4. old \in Seq(Kid)
      /\ Mapped(t, old) = IF what = "array" THEN Mapped(t, kids) ELSE Without(Mapped(t, kids), e.key)
  BY <1>1, MappedWithout
<1>5. PICK x : x = Entry(e.key, t[e.val]) /\ x.key = e.key
  BY EntryFits
<1>6. Mapped(t, Append(old, e)) = Append(Mapped(t, old), x)
  BY <1>4, <1>5, MappedAppend
<1>7. Append(Mapped(t, old), x) = Whole(what, Append(l, x))
  <2>1. LastOnes(Append(l, x)) = Append(Without(LastOnes(l), x.key), x)
    BY LastOnesFits
  <2> QED BY <1>3, <1>4, <1>5, <2>1 DEF Whole, Whats
<1>8. Joined(h[c].kids, what, e) = Append(old, e)
  BY <1>1 DEF Joined
<1> QED BY <1>3, <1>5, <1>6, <1>7, <1>8 DEF Grows

(* What the two actions that take a value have in common.                  *)
Takes(c, e) ==
    /\ Top.state \in {"array", "object_value"} /\ ~IsError(ret) /\ ret' = NoValue
    /\ heap' = [heap EXCEPT ![c].kids = Joined(heap[c].kids, WhatIn(Top.state), e)]
    /\ frames' = [frames EXCEPT ![Len(frames)] = Then(SepOf(Top))]

LEMMA TakesIn ==
    ASSUME AddItem \/ AddField, NEW c, c = Top.current, c \in DOMAIN heap,
           NEW e, e = Entry(KeyOf(Top), ret)
    PROVE  Takes(c, e)
<1>1. CASE AddItem
  <2>1. Top.state = "array" /\ ~IsError(ret) /\ heap' = ArrayAdd(heap, c, ret) /\ GoesOn("array_sep")
    BY <1>1 DEF AddItem
  <2>2. KeyOf(Top) = << >> /\ SepOf(Top) = "array_sep" /\ WhatIn(Top.state) = "array"
    BY <2>1 DEF KeyOf, SepOf, WhatIn
  <2>3. Joined(heap[c].kids, WhatIn(Top.state), e) = Append(heap[c].kids, Entry(<< >>, ret))
    BY <2>2 DEF Joined
  <2> QED BY <2>1, <2>2, <2>3 DEF ArrayAdd, GoesOn, Takes
<1>2. CASE AddField
  <2>1. /\ Top.state = "object_value" /\ ~IsError(ret) /\ heap' = ObjectAdd(heap, c, Top.name, ret)
        /\ GoesOn("object_sep")
    BY <1>2 DEF AddField
  <2>2. KeyOf(Top) = Top.name /\ SepOf(Top) = "object_sep" /\ WhatIn(Top.state) = "object"
    BY <2>1 DEF KeyOf, SepOf, WhatIn
  <2>3. e.key = Top.name /\ e = Entry(Top.name, ret)
    BY <2>2, EntryFits
  <2>4. Joined(heap[c].kids, WhatIn(Top.state), e)
            = Append(Without(heap[c].kids, Top.name), Entry(Top.name, ret))
    BY <2>2, <2>3 DEF Joined
  <2> QED BY <2>1, <2>2, <2>4 DEF ObjectAdd, GoesOn, Takes
<1> QED BY <1>1, <1>2

(* A value that is returned is no error but where it is one.               *)
LEMMA ReturnedFits ==
    ASSUME SInv, Ordered(heap), ret \notin {NoValue, Truncated}, ~IsError(ret)
    PROVE  TreeIn(heap)[ret].kind # "error"
<1>1. ret \in NoValue..Len(heap) /\ DOMAIN heap = 1..Len(heap) /\ Len(heap) \in Nat
      /\ heap \in Seq(HeapNode)
  BY DEF SInv, InRange, Shape
<1>2. ret = NULL \/ ret \in DOMAIN heap
  BY <1>1 DEF IsError, NoValue, Truncated, ErrorPtr, NULL
<1>3. TreeIn(heap)[ret] = TreeAt(heap, TreeIn(heap), ret)
  BY <1>1, TreeFits
<1>4. CASE ret \in DOMAIN heap
  <2>1. heap[ret] \in HeapNode
    BY <1>1, <1>4, KidInRange
  <2>2. heap[ret].kind \in Kinds
    BY <2>1 DEF HeapNode
  <2>3. TreeAt(heap, TreeIn(heap), ret).kind = heap[ret].kind
    BY <1>4 DEF TreeAt
  <2> QED BY <1>3, <2>2, <2>3 DEF Kinds
<1>5. CASE ret = NULL /\ ret \notin DOMAIN heap
  BY <1>3, <1>5 DEF TreeAt, NullValue, Value
<1> QED BY <1>2, <1>4, <1>5

LEMMA RemovedWithin ==
    ASSUME NEW kids \in Seq(Kid), NEW n \in DOMAIN kids, NEW K,
           \A k \in DOMAIN kids : kids[k].val \in K
    PROVE  RemoveAt(kids, n) \in Seq(Kid)
           /\ \A k \in DOMAIN RemoveAt(kids, n) : RemoveAt(kids, n)[k].val \in K
<1>1. PICK m, old : m = Len(kids) /\ m \in Nat /\ DOMAIN kids = 1..m /\ old = RemoveAt(kids, n)
  OBVIOUS
<1>2. old \in Seq(Kid) /\ Len(old) = m - 1 /\ \A k \in 1..m - 1 : old[k] = kids[IF k < n THEN k ELSE k + 1]
  BY <1>1, RemoveAtIs
<1>3. ASSUME NEW k \in 1..m - 1 PROVE old[k].val \in K
  <2>1. PICK i \in 1..m : i = IF k < n THEN k ELSE k + 1
    BY <1>1
  <2>2. old[k] = kids[i]
    BY <1>2, <2>1
  <2> QED BY <1>1, <2>2
<1>4. DOMAIN old = 1..m - 1
  BY <1>2
<1> QED BY <1>1, <1>2, <1>3, <1>4

LEMMA NewWithin ==
    ASSUME NEW h \in Seq(HeapNode), NEW c \in DOMAIN h, NEW K, NEW what, NEW e \in Kid, e.val \in K,
           \A k \in DOMAIN h[c].kids : h[c].kids[k].val \in K
    PROVE  \A k \in DOMAIN Joined(h[c].kids, what, e) : Joined(h[c].kids, what, e)[k].val \in K
<1>1. h[c].kids \in Seq(Kid)
  BY KidInRange
<1>2. PICK kids : kids = h[c].kids /\ kids \in Seq(Kid) /\ \A k \in DOMAIN kids : kids[k].val \in K
  BY <1>1
<1>3. PICK old : old = IF what = "array" THEN kids ELSE Without(kids, e.key)
  OBVIOUS
<1>4. old \in Seq(Kid) /\ \A k \in DOMAIN old : old[k].val \in K
  <2>1. CASE old = kids
    BY <1>2, <2>1
  <2>2. CASE old # kids
    <3>1. HasKey(kids, e.key) /\ old = RemoveAt(kids, Find(kids, e.key))
      BY <1>3, <2>2 DEF Without
    <3>2. PICK n \in DOMAIN kids : n = Find(kids, e.key)
      BY <1>2, <3>1, FindFits
    <3> QED BY <1>2, <3>1, <3>2, RemovedWithin
  <2> QED BY <2>1, <2>2
<1>5. PICK new, m : new = Append(old, e) /\ m = Len(old) /\ m \in Nat
  <2>1. Len(old) \in Nat
    BY <1>4
  <2> QED BY <2>1
<1>6. DOMAIN new = 1..m + 1 /\ new[m + 1] = e /\ \A k \in 1..m : new[k] = old[k]
  BY <1>4, <1>5
<1>7. \A k \in 1..m : old[k].val \in K
  BY <1>4, <1>5
<1>8. \A k \in 1..m + 1 : new[k].val \in K
  BY <1>5, <1>6, <1>7
<1>9. new = Joined(h[c].kids, what, e)
  BY <1>2, <1>3, <1>5 DEF Joined
<1> QED BY <1>6, <1>8, <1>9

LEMMA AddForetold ==
    ASSUME SInv, Parsing, ret # NoValue, AddItem \/ AddField, Ordered(heap'),
           Owned(frames, ret, todo, heap, failedIn, NULL),
           NEW s, Source(s), Foretold(s, TreeIn(heap), frames, ret, pos), pos' = pos
    PROVE  Foretold(s, TreeIn(heap'), frames', ret', pos')
<1>1. PICK e, pre : Foretells(s, TreeIn(heap), frames, ret, pos, e, pre)
  BY DEF Foretold
<1>2. PICK n, t, u, gs, c, f, l, v, g :
          /\ n \in Nat /\ n = Len(frames) /\ n > 0 /\ DOMAIN frames = 1..n /\ frames \in Seq(Frame)
          /\ t = TreeIn(heap) /\ u = TreeIn(heap') /\ gs = frames' /\ c = Top.current
          /\ f = frames[n] /\ l = pre[n] /\ v = t[ret] /\ g = e[n]
  BY DEF SInv, Shape, Parsing
<1>3. /\ f = Top /\ f \in Frame /\ FrameFits(f) /\ heap \in Seq(HeapNode) /\ n \in 1..n
      /\ Typed(frames, ret, todo, heap) /\ ret \in Int /\ Ordered(heap) /\ f.name \in Seq(Symbols)
  <2>1. /\ f = Top /\ f \in Frame /\ FrameFits(f)
    BY <1>2, TopFits DEF SInv, Parsing
  <2>2. Typed(frames, ret, todo, heap)
    BY DEF SInv, Shape, Typed
  <2>3. f.name \in Seq(Symbols)
    BY <2>1 DEF Frame
  <2> QED BY <1>2, <2>1, <2>2, <2>3, OrderedFits DEF Typed
<1>4. f.state \in {"array", "object_value"} /\ Aim(f) = f.state /\ Aim(f) \in Filling /\ c > 0
  <2>1. f.state \in {"array", "object_value"}
    BY <1>3 DEF AddItem, AddField
  <2>2. Aim(f) = f.state /\ Aim(f) \in Filling
    BY <2>1 DEF Aim, Aside, Filling
  <2> QED BY <1>2, <1>3, <2>1, <2>2 DEF FrameFits, NULL
<1>5. /\ c \in DOMAIN heap /\ c \notin Beside(heap, c) /\ Within(heap, Beside(heap, c))
      /\ ret \in Beside(heap, c)
      /\ \A k \in DOMAIN heap[c].kids : heap[c].kids[k].val \in Beside(heap, c)
      /\ \A i \in DOMAIN frames : i # n => frames[i].current \in Beside(heap, c)
  <2>1. n \in DOMAIN frames /\ c = frames[n].current
    BY <1>2, <1>3
  <2> QED BY <1>3, <1>4, <2>1, BesideFits
<1>6. PICK x, what, new :
          /\ x = Entry(KeyOf(f), ret) /\ x.key = KeyOf(f) /\ x.val = ret
          /\ what = WhatIn(f.state) /\ new = Joined(heap[c].kids, what, x)
  BY EntryFits
<1>7. /\ ~IsError(ret) /\ ret' = NoValue /\ heap' = [heap EXCEPT ![c].kids = new]
      /\ gs = [frames EXCEPT ![n] = Then(SepOf(f))]
  <2>1. Takes(c, x)
    BY <1>2, <1>3, <1>5, <1>6, TakesIn
  <2> QED BY <1>2, <1>3, <1>6, <2>1 DEF Takes
<1>8. /\ what \in Whats /\ x \in Kid /\ IsSeq(l) /\ KidsSay(t, f, l)
      /\ t[c] = Value(what, << >>, Whole(what, l)) /\ t[c] = TreeAt(heap, t, c) /\ c \in Int
  <2>1. KidsSay(t, f, l)
    BY <1>1, <1>2 DEF Foretells
  <2>2. what \in Whats
    BY <1>6 DEF WhatIn, Whats
  <2>3. KeyOf(f) \in Seq(Symbols)
    BY <1>3, <1>4 DEF KeyOf
  <2>4. x \in Kid
    BY <1>3, <1>6, <2>3 DEF Kid, Entry
  <2>5. IsSeq(l) /\ t[c] = Value(what, << >>, Whole(what, l))
    BY <1>2, <1>3, <1>4, <1>6, <2>1 DEF KidsSay
  <2>6. c \in Int
    BY <1>3, <1>5 DEF Ordered
  <2>7. t[c] = TreeAt(heap, t, c)
    BY <1>2, <1>3, <2>6, TreeFits
  <2> QED BY <2>1, <2>2, <2>4, <2>5, <2>6, <2>7
<1>9. PICK K : K = Beside(heap, c) /\ K \in SUBSET Int
  BY DEF Beside
<1>10. /\ \A p \in K : u[p] = t[p]
       /\ u[c] = Value(heap[c].kind, heap[c].text, Mapped(t, new))
  <2>1. PICK h : h = heap' /\ h = [heap EXCEPT ![c].kids = new] /\ Ordered(h)
    BY <1>7
  <2>2. Changes(heap, h, c, new)
    <3>1. heap \in Seq(HeapNode) /\ c \in DOMAIN heap
      BY <1>3, <1>5
    <3>2. Changes(heap, [heap EXCEPT ![c].kids = new], c, new)
      BY <3>1, KidsChange
    <3> QED BY <2>1, <3>2
  <2>3. \A k \in DOMAIN new : new[k].val \in K
    <3>1. x.val \in K /\ \A k \in DOMAIN heap[c].kids : heap[c].kids[k].val \in K
      BY <1>5, <1>6, <1>9
    <3>2. \A k \in DOMAIN Joined(heap[c].kids, what, x) : Joined(heap[c].kids, what, x)[k].val \in K
      BY <1>3, <1>5, <1>8, <3>1, NewWithin
    <3> QED BY <1>6, <3>2
  <2>4. c \notin K /\ Within(heap, K) /\ c \in DOMAIN heap
    BY <1>5, <1>9
  <2>5. (\A p \in K : TreeIn(h)[p] = TreeIn(heap)[p])
        /\ TreeIn(h)[c] = Value(heap[c].kind, heap[c].text, Mapped(TreeIn(heap), new))
    BY <1>3, <1>9, <2>1, <2>2, <2>3, <2>4, TreeChanged
  <2> QED BY <1>2, <2>1, <2>5
<1>11. PICK k : k = Then(SepOf(f)) /\ k.state = "eatws" /\ k.saved = SepOf(f) /\ k.current = c
                /\ Aim(k) = SepOf(f)
  <2>1. SepOf(f) \in Goals
    BY DEF SepOf, Goals, Filling
  <2> QED BY <1>2, <1>3, <2>1, ThenFits
<1>12. PICK m : m = Append(l, Entry(KeyOf(f), v)) /\ IsSeq(m)
  BY <1>8, AppendIsSeq
<1>13. KidsSay(u, k, m)
  <2>1. u[c] = Value(what, << >>, Whole(what, m))
    <3>1. Grows(t, u, heap, c, what, l, x)
      BY <1>6, <1>8, <1>10 DEF Grows
    <3>2. u[c] = Value(what, << >>, Whole(what, Append(l, Entry(x.key, t[x.val]))))
      BY <1>3, <1>5, <1>8, <3>1, KidsGrow
    <3> QED BY <1>2, <1>6, <1>12, <3>2
  <2>2. WhatIn(Aim(k)) = what
    BY <1>4, <1>6, <1>11 DEF WhatIn, SepOf
  <2> QED BY <1>11, <1>12, <2>1, <2>2 DEF KidsSay
<1>14. FrameSays(s, u, k, m, pos, g)
  <2>1. /\ g = Awaited(s, f, l, e[n + 1]) /\ e[n + 1] = Got(v, Skip(s, pos)) /\ pos \in 1..Len(s)
        /\ ret # Truncated
    BY <1>1, <1>2, <1>7 DEF Foretells, Outcome
  <2>2. v.kind # "error"
    BY <1>2, <1>3, <1>7, <2>1, ReturnedFits
  <2>3. FrameSays(s, u, k, Append(l, Entry(KeyOf(f), v)), pos, Awaited(s, f, l, Got(v, Skip(s, pos))))
    BY <1>4, <1>8, <1>11, <2>1, <2>2, AwaitedSays
  <2> QED BY <1>12, <2>1, <2>3
<1>15. DOMAIN gs = 1..n /\ Len(gs) = n /\ gs[n] = k /\ \A i \in 1..n : i # n => gs[i] = frames[i]
  BY <1>2, <1>7, <1>11
<1>16. Others(t, u, frames, gs, n, pre)
  <2>1. \A i \in 1..n : i # n => (KidsSay(t, frames[i], pre[i]) => KidsSay(u, frames[i], pre[i]))
    BY <1>2, <1>5, <1>9, <1>10 DEF KidsSay
  <2> QED BY <1>15, <2>1 DEF Others
<1>17. Told(s, t, frames, n, e, pre)
  BY <1>1, <1>2 DEF Foretells, Told
<1>18. Foretold(s, u, gs, NoValue, pos)
  BY <1>2, <1>13, <1>14, <1>15, <1>16, <1>17, ForetoldStays
<1> QED BY <1>2, <1>7, <1>18

(* A step of the parser, where the loop reads c.                           *)
LEMMA TokenerForetold ==
    ASSUME IInv, IInv', Tokener, ~Wide, NEW s, Source(s), Foretold(s, TreeIn(heap), frames, ret, pos),
           \A c \in Symbols : Reads(c) /\ Turns(c) => s[pos] = c /\ c # "/"
    PROVE  Foretold(s, TreeIn(heap'), frames', ret', pos')
<1>1. SInv /\ SInv' /\ Parsing /\ step = "parse" /\ step' = "parse"
  BY TokenerS DEF IInv, Parsing
<1>2. Owned(frames, ret, todo, heap, failedIn, NULL) /\ Typed(frames, ret, todo, heap)
  BY <1>1 DEF IInv, Ownership, SInv, Shape, Typed
<1>3. Ordered(heap)
  BY <1>2, OrderedFits
<1>4. Ordered(heap')
  <2>1. PICK fs, r, td, h, failed :
            /\ fs = frames' /\ r = ret' /\ td = todo' /\ h = heap' /\ failed = failedIn'
            /\ Owned(fs, r, td, h, failed, NULL) /\ Typed(fs, r, td, h)
    BY <1>1 DEF IInv, Ownership, SInv, Shape, Typed
  <2>2. Ordered(h)
    BY <2>1, OrderedFits
  <2> QED BY <2>1, <2>2
<1>5. CASE Loop
  <2>1. PICK c \in family.symbols \cup {NUL} : Reads(c) /\ Turns(c)
    BY <1>5 DEF Loop
  <2>2. c \in Symbols
    BY <1>1, <2>1 DEF SInv, Shape, Symbols
  <2>3. Turned /\ ret = NoValue
    BY <1>1, <1>5, <2>1, <2>2, TurnKinds DEF SInv, Loop, Parsing
  <2>4. s[pos] = c /\ c # "/"
    BY <2>1, <2>2
  <2> QED BY <1>1, <1>3, <2>1, <2>2, <2>3, <2>4, TurnForetold
<1>6. CASE Resume
  <2>1. ret # NoValue /\ pos' = pos /\ (AddItem \/ AddField \/ GiveUp)
    BY <1>6 DEF Resume
  <2>2. CASE AddItem \/ AddField
    BY <1>1, <1>2, <1>4, <2>1, <2>2, AddForetold
  <2>3. CASE GiveUp
    BY <1>1, <2>1, <2>3, GiveUpForetold
  <2> QED BY <2>1, <2>2, <2>3
<1> QED BY <1>5, <1>6 DEF Tokener

(* A put of an object changes none of the trees.                           *)
LEMMA PutTrees ==
    ASSUME NEW h \in Seq(HeapNode), Ordered(h), NEW o \in DOMAIN h, h[o].refs > 0, NEW p \in Int
    PROVE  TreeIn(Put(h, o))[p] = TreeIn(h)[p]
<1>1. PICK g : g = Put(h, o)
  OBVIOUS
<1>2. PICK n \in HeapNode : n = h[o]
  BY KidInRange
<1>3. PICK m : m = [n EXCEPT !.refs = @ - 1] /\ m.kind = n.kind /\ m.text = n.text /\ m.kids = n.kids
  <2>1. n = [kind |-> n.kind, refs |-> n.refs, text |-> n.text, kids |-> n.kids]
    BY DEF HeapNode
  <2>2. /\ [n EXCEPT !.refs = @ - 1].kind = n.kind /\ [n EXCEPT !.refs = @ - 1].text = n.text
        /\ [n EXCEPT !.refs = @ - 1].kids = n.kids
    BY <2>1
  <2> QED BY <2>2
<1>4. g = [h EXCEPT ![o] = m]
  BY <1>1, <1>2, <1>3 DEF Put
<1>5. Len(g) = Len(h) /\ DOMAIN g = DOMAIN h
  BY <1>1, PutFits
<1>6. ASSUME NEW c \in DOMAIN h
      PROVE  g[c].kind = h[c].kind /\ g[c].text = h[c].text /\ g[c].kids = h[c].kids
  BY <1>2, <1>3, <1>4
<1>7. Ordered(g)
  BY <1>5, <1>6 DEF Ordered
<1>8. \A q \in Int : Agrees(h, g, q)
  BY <1>5, <1>6 DEF Agrees
<1>9. \A q \in Int : q \in DOMAIN h => \A k \in DOMAIN h[q].kids : h[q].kids[k].val \in Int
  BY DEF Ordered
<1>10. PICK K \in SUBSET Int : K = Int
  OBVIOUS
<1>11. \A q \in K : TreeIn(g)[q] = TreeIn(h)[q]
  <2>1. \A q \in K : /\ Agrees(h, g, q)
                     /\ q \in DOMAIN h => \A k \in DOMAIN h[q].kids : h[q].kids[k].val \in K
    BY <1>8, <1>9, <1>10
  <2>2. K \in SUBSET Int /\ Ordered(h) /\ Ordered(g)
    BY <1>7
  <2> QED BY <2>1, <2>2, TreeSame
<1> QED BY <1>1, <1>10, <1>11

(* What is foretold depends on the trees under the pointers.               *)
LEMMA ForetoldKept ==
    ASSUME NEW s, NEW t, NEW u, \A p \in Int : u[p] = t[p], NEW fs \in Seq(Frame),
           NEW r \in Int, NEW p, Foretold(s, t, fs, r, p)
    PROVE  Foretold(s, u, fs, r, p)
<1>1. PICK e, pre : Foretells(s, t, fs, r, p, e, pre)
  BY DEF Foretold
<1>2. PICK n \in Nat : n = Len(fs) /\ DOMAIN fs = 1..n
  OBVIOUS
<1>3. \A i \in 1..n : fs[i] \in Frame /\ fs[i].current \in Int
  <2>1. \A i \in 1..n : fs[i] \in Frame
    BY <1>2
  <2> QED BY <2>1 DEF Frame
<1>4. ASSUME NEW i \in 1..n PROVE KidsSay(u, fs[i], pre[i])
  <2>1. KidsSay(t, fs[i], pre[i]) /\ u[fs[i].current] = t[fs[i].current]
    BY <1>1, <1>2, <1>3 DEF Foretells
  <2> QED BY <2>1 DEF KidsSay
<1>5. Outcome(s, t, r, p, e[n + 1]) => Outcome(s, u, r, p, e[n + 1])
  BY DEF Outcome
<1>6. ASSUME NEW f, f.current \in Int, NEW l, NEW g, FrameSays(s, t, f, l, p, g)
      PROVE  FrameSays(s, u, f, l, p, g)
  <2>1. u[f.current] = t[f.current]
    BY <1>6
  <2>2. \A x, q : Says(s, t, x, f, l, q, g) => Says(s, u, x, f, l, q, g)
    BY <2>1 DEF Says, SaysValue
  <2> QED BY <1>6, <2>2 DEF FrameSays
<1>7. ASSUME r = NoValue PROVE fs # << >> /\ FrameSays(s, u, fs[n], pre[n], p, e[n])
  <2>1. fs # << >> /\ FrameSays(s, t, fs[n], pre[n], p, e[n])
    BY <1>1, <1>2, <1>7 DEF Foretells
  <2>2. n \in 1..n
    BY <1>2, <2>1, EmptySeq
  <2> QED BY <1>3, <1>6, <2>1, <2>2
<1>8. Foretells(s, u, fs, r, p, e, pre)
  BY <1>1, <1>2, <1>4, <1>5, <1>7 DEF Foretells
<1> QED BY <1>8 DEF Foretold

-----------------------------------------------------------------------------
(* The invariant: whatever the rest of the source, the calls foretell the  *)
(* value that the grammar gives it.                                        *)
Begun(s, in) == Source(s) /\ \A i \in 1..Len(in) : s[i] = in[i]
Plain(in) == ~Wide /\ "/" \notin ToSet(in)
Faithful ==
    /\ step = "request" => input = << >>
    /\ step \in {"parse", "check"} /\ Plain(input) =>
          \A s : Begun(s, input) => Foretold(s, TreeIn(heap), frames, ret, pos)

FInv == IInv /\ Faithful

LEMMA ExtendsFits ==
    ASSUME NEW in \in Seq(Symbols), NEW c \in Symbols, NEW on, on \in {in, Append(in, c)}
    PROVE  /\ Plain(on) => Plain(in)
           /\ \A s : Begun(s, on) => Begun(s, in)
           /\ Plain(on) => \A p \in 1..Len(on) : on[p] # "/"
<1>1. PICK n \in Nat : n = Len(in) /\ DOMAIN in = 1..n
  OBVIOUS
<1>2. on \in Seq(Symbols) /\ Len(on) \in {n, n + 1} /\ \A i \in 1..n : on[i] = in[i]
  BY <1>1
<1>3. \A i \in 1..n : i \in 1..Len(on)
  BY <1>1, <1>2
<1>4. ToSet(in) \subseteq ToSet(on)
  BY <1>1, <1>2, <1>3 DEF ToSet
<1>5. \A s : Begun(s, on) => Begun(s, in)
  BY <1>1, <1>2, <1>3 DEF Begun
<1>6. Plain(on) => \A p \in 1..Len(on) : on[p] # "/"
  BY <1>2 DEF Plain, ToSet
<1> QED BY <1>4, <1>5, <1>6 DEF Plain

LEMMA TokenerFaithful ==
    ASSUME FInv, IInv', Tokener
    PROVE  Faithful'
<1>1. SInv /\ step = "parse" /\ step' = "parse" /\ input \in Seq(Symbols)
  BY TokenerS DEF FInv, IInv, Parsing, SInv, Shape
<1>2. \A c \in Symbols : Reads(c) /\ Turns(c) =>
          input' \in {input, Append(input, c)} /\ pos \in 1..Len(input') /\ input'[pos] = c
  BY <1>1, TurnReads DEF SInv
<1>3. input' = input \/ \E c \in Symbols : input' = Append(input, c)
  <2>1. CASE Loop
    <3>1. PICK c \in family.symbols \cup {NUL} : Reads(c) /\ Turns(c)
      BY <2>1 DEF Loop
    <3>2. c \in Symbols
      BY <1>1, <3>1 DEF SInv, Shape, Symbols
    <3> QED BY <1>2, <3>1, <3>2
  <2>2. CASE Resume
    BY <2>2 DEF Resume
  <2> QED BY <2>1, <2>2 DEF Tokener
<1>4. PICK on : on = input' /\ (on = input \/ \E c \in Symbols : on = Append(input, c))
  BY <1>3
<1>5. /\ Plain(on) => Plain(input) /\ \A p \in 1..Len(on) : on[p] # "/"
      /\ \A s : Begun(s, on) => Begun(s, input)
  <2>1. NUL \in Symbols
    BY DEF Symbols
  <2> QED BY <1>1, <1>4, <2>1, ExtendsFits
<1>6. ASSUME Plain(on), NEW s, Begun(s, on)
      PROVE  Foretold(s, TreeIn(heap'), frames', ret', pos')
  <2>1. Source(s) /\ ~Wide /\ Foretold(s, TreeIn(heap), frames, ret, pos)
    BY <1>1, <1>5, <1>6 DEF FInv, Faithful, Begun, Plain
  <2>2. \A c \in Symbols : Reads(c) /\ Turns(c) => s[pos] = c /\ c # "/"
    BY <1>2, <1>4, <1>5, <1>6 DEF Begun
  <2>3. IInv
    BY DEF FInv
  <2> QED BY <2>1, <2>2, <2>3, TokenerForetold
<1>7. step' # "request"
  BY <1>1
<1> QED BY <1>4, <1>6, <1>7 DEF Faithful

LEMMA ReleaseFaithful ==
    ASSUME FInv, Release
    PROVE  Faithful'
<1>1. /\ todo # << >> /\ (Puts \/ Skips \/ Crashes) /\ SInv
      /\ UNCHANGED <<family, input, pos, frames, ret, failedIn>>
  BY ReleaseKinds DEF FInv, IInv
<1>2. CASE Crashes
  BY <1>2 DEF Crashes, Faithful
<1>3. CASE Skips
  BY <1>1, <1>3 DEF Skips, Faithful, FInv
<1>4. CASE Puts /\ step # "parse"
  <2>1. step' = step /\ step # "check"
    BY <1>1, <1>4 DEF Puts, SInv, Phase
  <2> QED BY <1>1, <1>4, <2>1 DEF Faithful, FInv
<1>5. CASE Puts /\ step = "parse"
  <2>1. PICK p : p = Head(todo) /\ p \in DOMAIN heap /\ heap[p].refs > 0 /\ heap' = Put(heap, p)
    BY <1>1, <1>5, HeadFits DEF Puts, NULL
  <2>2. heap \in Seq(HeapNode) /\ frames \in Seq(Frame) /\ ret \in Int
    BY <1>1 DEF SInv, Shape
  <2>3. Ordered(heap)
    <3>1. Owned(frames, ret, todo, heap, failedIn, NULL) /\ Typed(frames, ret, todo, heap)
      BY <1>1, <1>5 DEF FInv, IInv, Ownership, SInv, Shape, Typed
    <3> QED BY <3>1, OrderedFits
  <2>4. PICK u : u = TreeIn(heap') /\ \A q \in Int : u[q] = TreeIn(heap)[q]
    BY <2>1, <2>2, <2>3, PutTrees
  <2>5. ASSUME NEW s, Foretold(s, TreeIn(heap), frames, ret, pos) PROVE Foretold(s, u, frames, ret, pos)
    BY <2>2, <2>4, <2>5, ForetoldKept
  <2>6. step' = "parse"
    BY <1>5 DEF Puts
  <2> QED BY <1>1, <1>5, <2>4, <2>5, <2>6 DEF Faithful, FInv
<1> QED BY <1>1, <1>2, <1>3, <1>4, <1>5

(* The outermost call starts at the first symbol.                          *)
LEMMA ParseFaithful ==
    ASSUME FInv, Parse
    PROVE  Faithful'
<1>1. /\ step = "request" /\ step' = "parse" /\ heap' = << >> /\ frames' = <<NewFrame>>
      /\ input = << >> /\ UNCHANGED <<input, pos>> /\ ret' = NoValue /\ pos = 1
  <2>1. pos \in 1..Len(input) + 1 /\ step = "request" /\ input = << >> /\ ret = NoValue
    BY DEF Parse, FInv, IInv, SInv, Shape, Phase, Faithful
  <2>2. pos = 1
    BY <2>1
  <2> QED BY <2>1, <2>2 DEF Parse
<1>2. ASSUME NEW s, Source(s), NEW t PROVE Foretold(s, t, <<NewFrame>>, NoValue, 1)
  <2>1. PICK fs, g, e, pre : /\ fs = <<NewFrame>> /\ g = ValueAt(s, Parts(s), 1)
                             /\ e = [i \in {1} |-> g] /\ pre = [i \in {1} |-> << >>]
    OBVIOUS
  <2>2. DOMAIN fs = {1} /\ Len(fs) = 1 /\ fs[1] = NewFrame /\ e[1] = g /\ pre[1] = << >> /\ fs # << >>
    BY <2>1
  <2>3. KidsSay(t, NewFrame, << >>)
    BY DEF KidsSay, NewFrame, Aim, Aside, Filling
  <2>4. FrameSays(s, t, NewFrame, << >>, 1, g)
    <3>1. 1 \in 1..Len(s)
      BY <1>2, SourceFits
    <3> QED BY <1>2, <2>1, <3>1, NewFrameSays
  <2>5. \A i \in DOMAIN fs : ~(i < Len(fs) \/ NoValue # NoValue)
    BY <2>2
  <2>6. Foretells(s, t, fs, NoValue, 1, e, pre)
    BY <2>1, <2>2, <2>3, <2>4, <2>5 DEF Foretells
  <2> QED BY <2>1, <2>6 DEF Foretold
<1>3. ASSUME NEW s, Begun(s, input') PROVE Foretold(s, TreeIn(heap'), frames', ret', pos')
  <2>1. Source(s)
    BY <1>3 DEF Begun
  <2> QED BY <1>1, <1>2, <2>1
<1> QED BY <1>1, <1>3 DEF Faithful

LEMMA NextF == FInv /\ [Next]_vars => FInv'
<1> SUFFICES ASSUME FInv, [Next]_vars PROVE FInv'
  OBVIOUS
<1>1. IInv'
  BY NextI DEF FInv
<1>2. ASSUME step' \in {"put", "done"} PROVE Faithful'
  BY <1>2 DEF Faithful
<1>3. ASSUME Overrun PROVE Faithful'
  BY <1>2, <1>3 DEF Overrun, Crash
<1>4. ASSUME Parsed PROVE Faithful'
  BY <1>4 DEF Parsed, tokener, Faithful, FInv
<1>5. ASSUME Check \/ Finished PROVE Faithful'
  BY <1>2, <1>5 DEF Check, CheckNull, CheckCrash, CheckKey, CheckPayload, Answer, Finished
<1>6. ASSUME UNCHANGED vars PROVE Faithful'
  <2>1. UNCHANGED <<step, input, heap, frames, ret, pos>>
    BY <1>6 DEF vars, tokener
  <2> QED BY <2>1 DEF Faithful, FInv
<1>7. Faithful'
  <2>1. Tokener \/ Release \/ Parse => Faithful'
    BY <1>1, TokenerFaithful, ReleaseFaithful, ParseFaithful
  <2> QED BY <1>3, <1>4, <1>5, <1>6, <2>1 DEF Next
<1> QED BY <1>1, <1>7 DEF FInv

LEMMA InitF == Init => FInv
<1>1. Init => Faithful
  BY DEF Init, Faithful
<1> QED BY <1>1, InitI DEF FInv

(* What has been parsed is what the grammar says.                          *)
LEMMA ParsedFits ==
    ASSUME FInv, step = "check", Plain(input)
    PROVE  TreeIn(heap)[ret] = Meaning(input) /\ Ordered(heap)
<1>1. PICK s : s = Append(input, NUL)
  OBVIOUS
<1>2. input \in Seq(Symbols) /\ frames = << >> /\ ret \in Int /\ SInv
  BY DEF FInv, IInv, SInv, Shape, Phase
<1>3. Begun(s, input)
  <2>1. NUL \in Symbols
    BY DEF Symbols
  <2>2. s \in Seq(Symbols) /\ Len(s) = Len(input) + 1 /\ s[Len(s)] = NUL
        /\ \A i \in 1..Len(input) : s[i] = input[i]
    BY <1>1, <1>2, <2>1
  <2>3. s # << >>
    BY <1>2, <2>2
  <2> QED BY <2>2, <2>3 DEF Begun, Source, IsSeq
<1>4. Ordered(heap)
  <2>1. Owned(frames, ret, todo, heap, failedIn, NULL) /\ Typed(frames, ret, todo, heap)
    BY <1>2 DEF FInv, IInv, Ownership, SInv, Shape, Typed
  <2> QED BY <2>1, OrderedFits
<1>5. PICK t, e, pre : t = TreeIn(heap) /\ Foretells(s, t, frames, ret, pos, e, pre)
  BY <1>3 DEF FInv, Faithful, Foretold
<1>6. ret # NoValue /\ Outcome(s, t, ret, pos, e[1]) /\ e[1] = ValueAt(s, Parts(s), 1)
  <2>1. Len(frames) + 1 = 1
    BY <1>2, EmptyIsSeq
  <2> QED BY <1>2, <1>5, <2>1 DEF Foretells
<1>7. e[1].val = t[ret]
  <2>1. CASE IsError(ret)
    <3>1. e[1] = None /\ ret = ErrorPtr
      BY <1>6, <2>1 DEF Outcome, IsError
    <3>2. t[ret] = ErrorValue
      <4>1. t[ret] = TreeAt(heap, t, ret)
        BY <1>2, <1>4, <1>5, TreeFits
      <4>2. ret \notin DOMAIN heap /\ ret # NULL
        BY <1>4, <3>1 DEF Ordered, ErrorPtr, NULL
      <4> QED BY <4>1, <4>2 DEF TreeAt
    <3> QED BY <3>1, <3>2, GotFits DEF None
  <2>2. CASE ~IsError(ret)
    BY <1>6, <2>2, GotFits DEF Outcome
  <2> QED BY <2>1, <2>2
<1>8. Meaning(input) = ValueAt(s, Parts(s), 1).val
  BY <1>1 DEF Meaning
<1> QED BY <1>4, <1>5, <1>6, <1>7, <1>8

LEMMA TreeIs == Tree = TreeIn(heap)
BY Zenon DEF Tree, TreeIn, TreeAt

(* The parser implements the grammar: for sources without comments of any  *)
(* length and symbols, what json_tokener_parse() returns is exactly the    *)
(* value that the grammar gives the source, and an error where it gives    *)
(* none (json_tokener_do_parse, with pointers as wide as an int).          *)
THEOREM ParsedAsGrammar == Spec => []ParsesAsGrammar
<1>1. FInv => ParsesAsGrammar
  BY ParsedFits, TreeIs DEF ParsesAsGrammar, Plain
<1> QED BY InitF, NextF, <1>1, PTL DEF Spec

-----------------------------------------------------------------------------
(* The answer that is taken for a confirmation.                            *)

LEMMA Greatest ==
    ASSUME NEW n \in Nat, NEW S \in SUBSET (1..n), S # {}
    PROVE  Max(S) \in S
<1>1. PICK T \in SUBSET Nat : T = {k \in Nat : n - k \in S}
  OBVIOUS
<1>2. \A y \in S : y \in 1..n /\ n - y \in T /\ n - (n - y) = y
  BY <1>1
<1>3. T # {}
  BY <1>2
<1>4. PICK m \in T : \A k \in T : ~(k < m)
  BY <1>3, Least
<1>5. PICK x \in S : x = n - m
  BY <1>1
<1>6. \A y \in S : x >= y
  BY <1>2, <1>4, <1>5
<1> QED BY <1>6 DEF Max

(* The tree under a pointer, and those of its values.                      *)
LEMMA TreeParts ==
    ASSUME NEW h \in Seq(HeapNode), Ordered(h), NEW p \in DOMAIN h, NEW t, t = TreeIn(h)
    PROVE  /\ t[p].kind = h[p].kind /\ t[p].text = h[p].text
           /\ DOMAIN t[p].kids = DOMAIN h[p].kids
           /\ \A i \in DOMAIN h[p].kids :
                 t[p].kids[i].key = h[p].kids[i].key /\ t[p].kids[i].val = t[h[p].kids[i].val]
<1>1. t[p] = TreeAt(h, t, p)
  <2>1. p \in Int
    BY DEF Ordered
  <2> QED BY <2>1, TreeFits
<1> QED BY <1>1 DEF TreeAt, Entry

(* json_check_srv_resp() finds the result that the tree has.               *)
LEMMA ResultFits ==
    ASSUME heap \in Seq(HeapNode), Ordered(heap), NEW p \in DOMAIN heap, ResultOf(p) = 1,
           NEW fields, fields = TreeIn(heap)[p].kids
    PROVE  /\ Results(fields) # {}
           /\ LastResult(fields).kind = "number" /\ IsOne(LastResult(fields).text)
<1>1. PICK kids, t : kids = heap[p].kids /\ kids \in Seq(Kid) /\ t = TreeIn(heap)
  BY KidInRange
<1>2. DOMAIN fields = DOMAIN kids
      /\ \A i \in DOMAIN kids : fields[i].key = kids[i].key /\ fields[i].val = t[kids[i].val]
  BY <1>1, TreeParts
<1>3. PICK S : S = Results(kids) /\ S = Results(fields)
  BY <1>2 DEF Results
<1>4. S # {} /\ Atoi(LastResult(kids)) = 1
  BY <1>1, <1>3 DEF ResultOf
<1>5. PICK i \in DOMAIN kids : i = Max(S)
  <2>1. PICK n \in Nat : n = Len(kids) /\ DOMAIN kids = 1..n
    BY <1>1
  <2>2. S \in SUBSET (1..n)
    BY <1>3, <2>1 DEF Results
  <2>3. Max(S) \in S
    BY <1>4, <2>2, Greatest
  <2> QED BY <2>1, <2>2, <2>3
<1>6. PICK q : q = kids[i].val /\ q = LastResult(kids) /\ LastResult(fields) = t[q]
  BY <1>2, <1>3, <1>5 DEF LastResult
<1>7. q \in DOMAIN heap /\ heap[q].kind = "number" /\ IsOne(heap[q].text)
  BY <1>4, <1>6 DEF Atoi
<1>8. t[q].kind = "number" /\ t[q].text = heap[q].text
  BY <1>1, <1>7, TreeParts
<1> QED BY <1>3, <1>4, <1>6, <1>7, <1>8

(* The verdict is made of what the grammar says, and stays.                *)
LEMMA ConfirmedFits ==
    ASSUME FInv, CheckPayload, result' = "JSON_PACKET_RECV_OK", Plain(input)
    PROVE  LET first == Meaning(input).kids[1]
               fields == first.val.kids
           IN  /\ Begins(first.key, "name") /\ first.val.kind = "object"
               /\ Results(fields) # {}
               /\ LastResult(fields).kind = "number" /\ IsOne(LastResult(fields).text)
<1>1. /\ step = "check" /\ IsObject(heap, ret) /\ FirstKeyFits(ret)
      /\ IsObject(heap, PayloadOf(ret)) /\ Verdict(PayloadOf(ret)) = "JSON_PACKET_RECV_OK"
  BY DEF CheckPayload, Answer
<1>2. PICK t, p, kids : /\ t = TreeIn(heap) /\ p = PayloadOf(ret) /\ kids = heap[ret].kids
                        /\ t[ret] = Meaning(input) /\ Ordered(heap) /\ heap \in Seq(HeapNode)
  BY <1>1, ParsedFits DEF FInv, IInv, SInv, Shape
<1>3. ret \in DOMAIN heap /\ p \in DOMAIN heap /\ heap[p].kind = "object" /\ ResultOf(p) = 1
  BY <1>1, <1>2 DEF IsObject, Verdict
<1>4. 1 \in DOMAIN kids /\ kids[1].val = p /\ Begins(kids[1].key, "name")
  <2>1. kids # << >> /\ kids[1].val = p
    <3>1. NULL \notin DOMAIN heap
      BY <1>2 DEF NULL, Ordered
    <3> QED BY <1>2, <1>3, <3>1 DEF PayloadOf
  <2>2. kids \in Seq(Kid)
    BY <1>2, <1>3, KidInRange
  <2>3. 1 \in DOMAIN kids
    BY <2>1, <2>2, EmptySeq
  <2> QED BY <1>1, <1>2, <2>1, <2>3 DEF FirstKeyFits
<1>5. t[ret].kids[1].key = kids[1].key /\ t[ret].kids[1].val = t[p]
  BY <1>2, <1>3, <1>4, TreeParts
<1>6. t[p].kind = "object"
  BY <1>2, <1>3, TreeParts
<1>7. /\ Results(t[p].kids) # {}
      /\ LastResult(t[p].kids).kind = "number" /\ IsOne(LastResult(t[p].kids).text)
  BY <1>2, <1>3, ResultFits
<1> QED BY <1>2, <1>4, <1>5, <1>6, <1>7

Confirmed ==
    /\ OkIsSaid
    /\ step \in {"request", "parse", "check"} => result = "JSON_PACKET_NONE"

LEMMA NextConfirmed == FInv /\ Confirmed /\ [Next]_vars => Confirmed'
<1> SUFFICES ASSUME FInv, Confirmed, [Next]_vars PROVE Confirmed'
  OBVIOUS
<1>1. ASSUME result' # "JSON_PACKET_RECV_OK", step' \notin {"request", "parse", "check"}
      PROVE  Confirmed'
  BY <1>1 DEF Confirmed, OkIsSaid
<1>2. ASSUME UNCHANGED <<result, input>>, step' \in {"request", "parse", "check"} =>
                 step \in {"request", "parse", "check"}
      PROVE  Confirmed'
  BY <1>2 DEF Confirmed, OkIsSaid
<1>3. ASSUME result' = result, step = "request" \/ step = "parse", step' = step \/ step' = "parse"
      PROVE  Confirmed'
  BY <1>3 DEF Confirmed, OkIsSaid
<1>4. ASSUME Release PROVE Confirmed'
  <2>1. UNCHANGED input /\ (Puts \/ Skips \/ Crashes)
    BY <1>4, ReleaseKinds DEF FInv, IInv
  <2> QED BY <1>1, <1>2, <2>1 DEF Puts, Skips, Crashes
<1>5. ASSUME Parse \/ Tokener PROVE Confirmed'
  BY <1>3, <1>5 DEF Parse, Tokener
<1>6. ASSUME Overrun PROVE Confirmed'
  BY <1>1, <1>6 DEF Overrun, Crash
<1>7. ASSUME Parsed \/ Finished PROVE Confirmed'
  BY <1>2, <1>7 DEF Parsed, Finished, tokener
<1>8. ASSUME CheckNull \/ CheckCrash \/ CheckKey PROVE Confirmed'
  BY <1>1, <1>8 DEF CheckNull, CheckCrash, CheckKey, Answer
<1>9. ASSUME CheckPayload PROVE Confirmed'
  <2>1. step' \in {"put", "done"} /\ UNCHANGED input
    BY <1>9 DEF CheckPayload, Answer, tokener
  <2>2. result' = "JSON_PACKET_RECV_OK" /\ Plain(input) => OkIsSaid'
    BY <1>9, <2>1, ConfirmedFits DEF OkIsSaid
  <2>3. OkIsSaid'
    BY <2>1, <2>2 DEF OkIsSaid, Plain
  <2> QED BY <2>1, <2>3 DEF Confirmed
<1>10. ASSUME UNCHANGED vars PROVE Confirmed'
  <2>1. UNCHANGED <<result, input, step>>
    BY <1>10 DEF vars, tokener
  <2> QED BY <1>2, <2>1
<1> QED BY <1>4, <1>5, <1>6, <1>7, <1>8, <1>9, <1>10 DEF Next, Check

(* A response is taken for a confirmation only if it says so: the grammar  *)
(* finds an object whose first key is the packet's, in its value an object *)
(* and in that the number 1 as the last `result', for responses without    *)
(* comments of any length (json_check_srv_resp).                           *)
THEOREM ConfirmedIsSaid == Spec => []OkIsSaid
<1>1. Init => Confirmed
  BY DEF Init, Confirmed, OkIsSaid
<1>2. Confirmed => OkIsSaid
  BY DEF Confirmed
<1> QED BY InitF, NextF, NextConfirmed, <1>1, <1>2, PTL DEF Spec
=============================================================================
