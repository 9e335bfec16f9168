------------------------- MODULE JsonGrammarProofs -------------------------
(***************************************************************************)
(* Proofs about the grammar: its recursive functions satisfy their         *)
(* equations on every source that ends, and what they find lies ahead.     *)
(***************************************************************************)
EXTENDS JsonGrammar, SequenceTheorems, NaturalsInduction, WellFoundedInduction, TLAPS

(* A set of numbers has a least one.                                       *)
LEMMA Least ==
    ASSUME NEW S \in SUBSET Nat, S # {}
    PROVE  \E m \in S : \A n \in S : ~(n < m)
<1>1. \E x \in S : \A y \in S : ~(<<y, x>> \in OpToRel(<, Nat))
  BY NatLessThanWellFounded, WFMin
<1>2. PICK x \in S : \A y \in S : ~(<<y, x>> \in OpToRel(<, Nat))
  BY <1>1
<1>3. ASSUME NEW y \in S, y < x PROVE FALSE
  BY <1>2, <1>3 DEF OpToRel
<1> QED BY <1>3

(* What holds of 0 and goes on holding up to n holds up to n; S is the set *)
(* of the numbers it holds of.                                             *)
LEMMA Induct ==
    ASSUME NEW n \in Nat, NEW S, 0 \in S, \A k \in 0..n - 1 : k \in S => k + 1 \in S
    PROVE  \A k \in 0..n : k \in S
<1> DEFINE Bad == {k \in Nat : k \in 0..n /\ k \notin S}
<1> SUFFICES ASSUME Bad # {} PROVE FALSE
  OBVIOUS
<1>1. PICK k \in Bad : \A x \in Bad : ~(x < k)
  <2>1. Bad \in SUBSET Nat
    OBVIOUS
  <2> QED BY <2>1, Least
<1>2. k \in Nat /\ k \in 0..n /\ k # 0 /\ k \notin S
  BY <1>1
<1>3. k - 1 \in 0..n - 1 /\ (k - 1) + 1 = k
  BY <1>2
<1>4. k - 1 \in S
  BY <1>1, <1>3
<1> QED BY <1>2, <1>3, <1>4

(* The last k places of n, and the one that comes next.                    *)
Final(n, k) == n - k + 1..n

LEMMA FinalFits ==
    ASSUME NEW n \in Nat
    PROVE  /\ Final(n, 0) = {} /\ Final(n, n) = 1..n
           /\ \A k \in 0..n : Final(n, k) \subseteq 1..n
           /\ \A k \in 0..n - 1 :
                 /\ k + 1 \in 0..n /\ n - k \in 1..n /\ n - k \notin Final(n, k)
                 /\ (n - k) + 1..n = Final(n, k)
                 /\ \A j \in Final(n, k + 1) : j = n - k \/ j \in Final(n, k)
                 /\ \A j \in Final(n, k + 1) : \A l \in j + 1..n : l \in Final(n, k)
BY DEF Final

-----------------------------------------------------------------------------
(* Sequences, whatever they are made of.                                   *)

IsSeq(x) == \E A : x \in Seq(A)

LEMMA SeqFits ==
    ASSUME NEW x, IsSeq(x)
    PROVE  Len(x) \in Nat /\ DOMAIN x = 1..Len(x) /\ x \in Seq({x[i] : i \in 1..Len(x)})
<1>1. PICK A : x \in Seq(A)
  BY DEF IsSeq
<1>2. Len(x) \in Nat /\ DOMAIN x = 1..Len(x) /\ x = [i \in 1..Len(x) |-> x[i]]
  BY <1>1
<1>3. x \in [1..Len(x) -> {x[i] : i \in 1..Len(x)}]
  BY <1>2
<1> QED BY <1>2, <1>3

LEMMA SeqMade ==
    ASSUME NEW x, NEW n \in Nat, x = [i \in 1..n |-> x[i]]
    PROVE  IsSeq(x) /\ Len(x) = n
<1>1. x \in [1..n -> {x[i] : i \in 1..n}]
  OBVIOUS
<1>2. x \in Seq({x[i] : i \in 1..n})
  BY <1>1
<1>3. Len(x) = n
  BY <1>2
<1> QED BY <1>2, <1>3 DEF IsSeq

LEMMA SeqWider ==
    ASSUME NEW A, NEW B, NEW x \in Seq(A), A \subseteq B
    PROVE  x \in Seq(B)
<1>1. Len(x) \in Nat /\ x \in [1..Len(x) -> A]
  OBVIOUS
<1>2. x \in [1..Len(x) -> B]
  BY <1>1
<1> QED BY <1>1, <1>2

(* Both are sequences over one set.                                        *)
LEMMA SeqShare ==
    ASSUME NEW x, NEW y, NEW e, IsSeq(x), IsSeq(y)
    PROVE  \E A : x \in Seq(A) /\ y \in Seq(A) /\ e \in A
<1>1. PICK A, B : x \in Seq(A) /\ y \in Seq(B)
  BY DEF IsSeq
<1>2. PICK C : C = A \cup B \cup {e}
  OBVIOUS
<1>3. x \in Seq(C) /\ y \in Seq(C) /\ e \in C
  BY <1>1, <1>2, SeqWider
<1> QED BY <1>3

(* Something in front of what follows is something behind what precedes.   *)
LEMMA Regroup ==
    ASSUME NEW x, NEW y, NEW e, IsSeq(x), IsSeq(y)
    PROVE  /\ IsSeq(<<e>> \o y) /\ IsSeq(Append(x, e)) /\ IsSeq(x \o y)
           /\ x \o (<<e>> \o y) = Append(x, e) \o y
           /\ x \o << >> = x /\ << >> \o y = y
           /\ Len(Append(x, e)) = Len(x) + 1
<1>1. PICK A : x \in Seq(A) /\ y \in Seq(A) /\ e \in A
  BY SeqShare
<1>2. <<e>> \in Seq(A)
  BY <1>1
<1>3. <<e>> \o y \in Seq(A) /\ Append(x, e) \in Seq(A) /\ x \o y \in Seq(A)
  BY <1>1, <1>2
<1>4. Append(x, e) = x \o <<e>>
  BY <1>1
<1>5. x \o (<<e>> \o y) = Append(x, e) \o y
  BY <1>1, <1>2, <1>4, ConcatAssociative
<1>6. x \o << >> = x /\ << >> \o y = y /\ Len(Append(x, e)) = Len(x) + 1
  BY <1>1
<1> QED BY <1>3, <1>5, <1>6 DEF IsSeq

LEMMA Regrouped ==
    ASSUME NEW x, NEW y, NEW e, IsSeq(x), IsSeq(y)
    PROVE  x \o (<<e>> \o y) = Append(x, e) \o y
<1>1. /\ IsSeq(<<e>> \o y) /\ IsSeq(Append(x, e)) /\ IsSeq(x \o y)
      /\ x \o (<<e>> \o y) = Append(x, e) \o y
      /\ x \o << >> = x /\ << >> \o y = y
      /\ Len(Append(x, e)) = Len(x) + 1
  BY Regroup
<1> QED BY <1>1

LEMMA AppendIsSeq ==
    ASSUME NEW x, NEW e, IsSeq(x)
    PROVE  IsSeq(Append(x, e))
BY Regroup

LEMMA EmptyIsSeq == IsSeq(<< >>) /\ Len(<< >>) = 0
<1>1. << >> \in Seq({})
  OBVIOUS
<1> QED BY <1>1 DEF IsSeq

-----------------------------------------------------------------------------
(* Sources, and the places in them.                                        *)

Source(s) == IsSeq(s) /\ s # << >> /\ s[Len(s)] = NUL

LEMMA SourceFits ==
    ASSUME NEW s, Source(s)
    PROVE  /\ Len(s) \in Nat \ {0} /\ DOMAIN s = 1..Len(s) /\ s[Len(s)] = NUL
           /\ \A i \in 1..Len(s) : s[i] # NUL => i + 1 \in 1..Len(s)
<1>1. PICK A : s \in Seq(A)
  BY DEF Source, IsSeq
<1>2. Len(s) \in Nat \ {0} /\ DOMAIN s = 1..Len(s) /\ s[Len(s)] = NUL
  BY <1>1 DEF Source
<1> QED BY <1>2

LEMMA PastIs ==
    ASSUME NEW s, Source(s), NEW i \in 1..Len(s), NEW set, NEW j \in i..Len(s),
           s[j] \notin set, \A k \in i..j - 1 : s[k] \in set
    PROVE  Past(s, i, set) = j
<1>1. Len(s) \in Nat
  BY SourceFits
<1>2. ASSUME NEW l \in i..Len(s), s[l] \notin set, \A k \in i..l - 1 : s[k] \in set
      PROVE  l = j
  <2>1. ~(l < j)
    <3>1. l < j => l \in i..j - 1
      BY <1>1, <1>2
    <3> QED BY <1>2, <3>1
  <2>2. ~(j < l)
    <3>1. j < l => j \in i..l - 1
      BY <1>1, <1>2
    <3> QED BY <1>2, <3>1
  <2> QED BY <1>1, <2>1, <2>2
<1>3. Past(s, i, set) \in i..Len(s) /\ s[Past(s, i, set)] \notin set
      /\ \A k \in i..Past(s, i, set) - 1 : s[k] \in set
  BY DEF Past
<1> QED BY <1>2, <1>3

(* The place is there, since NUL ends every search.                        *)
LEMMA PastFits ==
    ASSUME NEW s, Source(s), NEW i \in 1..Len(s), NEW set, NUL \notin set
    PROVE  /\ Past(s, i, set) \in i..Len(s) /\ Past(s, i, set) \in 1..Len(s)
           /\ s[Past(s, i, set)] \notin set
           /\ s[i] \notin set => Past(s, i, set) = i
           /\ s[i] \in set => /\ i + 1 \in 1..Len(s)
                              /\ Past(s, i, set) = Past(s, i + 1, set)
           /\ Past(s, Past(s, i, set), set) = Past(s, i, set)
<1>1. /\ Len(s) \in Nat /\ s[Len(s)] = NUL
      /\ \A k \in 1..Len(s) : s[k] # NUL => k + 1 \in 1..Len(s)
  BY SourceFits
<1>2. ASSUME NEW h \in 1..Len(s)
      PROVE  \E j \in h..Len(s) : s[j] \notin set /\ \A k \in h..j - 1 : s[k] \in set
  <2> DEFINE S == {k \in Nat : k \in h..Len(s) /\ s[k] \notin set}
  <2>1. Len(s) \in S
    BY <1>1
  <2>2. PICK j \in S : \A n \in S : ~(n < j)
    BY <2>1, Least
  <2>3. ASSUME NEW k \in h..j - 1 PROVE s[k] \in set
    <3>1. k \in Nat /\ k < j /\ k \in h..Len(s)
      BY <1>1, <2>2
    <3> QED BY <2>2, <3>1
  <2> QED BY <2>2, <2>3
<1>3. PICK j \in i..Len(s) : s[j] \notin set /\ \A k \in i..j - 1 : s[k] \in set
  BY <1>2
<1>4. Past(s, i, set) = j /\ j \in 1..Len(s)
  BY <1>1, <1>3, PastIs
<1>5. ASSUME NEW h \in 1..Len(s), s[h] \notin set PROVE Past(s, h, set) = h
  <2>1. h \in h..Len(s) /\ \A k \in h..h - 1 : FALSE
    BY <1>1
  <2> QED BY <1>5, <2>1, PastIs
<1>6. ASSUME s[i] \in set
      PROVE  i + 1 \in 1..Len(s) /\ Past(s, i, set) = Past(s, i + 1, set)
  <2>1. i + 1 \in 1..Len(s)
    BY <1>1, <1>6
  <2>2. PICK l \in i + 1..Len(s) : s[l] \notin set /\ \A k \in i + 1..l - 1 : s[k] \in set
    BY <1>2, <2>1
  <2>3. Past(s, i + 1, set) = l
    BY <2>1, <2>2, PastIs
  <2>4. l \in i..Len(s) /\ \A k \in i..l - 1 : s[k] \in set
    <3>1. \A k \in i..l - 1 : k = i \/ k \in i + 1..l - 1
      BY <1>1, <2>2
    <3> QED BY <1>1, <1>6, <2>2, <3>1
  <2>5. Past(s, i, set) = l
    BY <2>2, <2>4, PastIs
  <2> QED BY <2>1, <2>3, <2>5
<1> QED BY <1>3, <1>4, <1>5, <1>6

(* White space is stepped over; a number is read to its end.               *)
LEMMA SkipFits ==
    ASSUME NEW s, Source(s), NEW i \in 1..Len(s)
    PROVE  /\ Skip(s, i) \in i..Len(s) /\ Skip(s, i) \in 1..Len(s) /\ s[Skip(s, i)] \notin White
           /\ s[i] \notin White => Skip(s, i) = i
           /\ s[i] \in White => i + 1 \in 1..Len(s) /\ Skip(s, i) = Skip(s, i + 1)
           /\ Skip(s, Skip(s, i)) = Skip(s, i)
<1>1. NUL \notin White
  BY DEF NUL, White
<1> QED BY <1>1, PastFits DEF Skip

LEMMA RunFits ==
    ASSUME NEW s, Source(s), NEW i \in 1..Len(s)
    PROVE  /\ Run(s, i) \in i..Len(s) /\ Run(s, i) \in 1..Len(s)
           /\ s[i] \notin NumberChars => Run(s, i) = i
           /\ s[i] \in NumberChars => i + 1 \in 1..Len(s) /\ Run(s, i) = Run(s, i + 1)
<1>1. NUL \notin NumberChars
  BY DEF NUL, NumberChars, Digits
<1> QED BY <1>1, PastFits DEF Run

-----------------------------------------------------------------------------
(* What is found.                                                          *)

(* Nothing, or a value that is no error and whose end is ahead.            *)
Fine(s, g, i) ==
    \/ g = None
    \/ /\ ~Failed(g) /\ g = Got(g.val, g.next) /\ g.next \in i + 1..Len(s)
       /\ g.val = Value(g.val.kind, g.val.text, g.val.kids)
       /\ IsSeq(g.val.text) /\ IsSeq(g.val.kids)
FineText(s, g, i) ==
    Fine(s, g, i) /\ (~Failed(g) => g.val.kind = "string" /\ g.val.kids = << >>)
FinePart(s, g, what, i) ==
    Fine(s, g, i) /\ (~Failed(g) => g.val.kind = what /\ g.val.text = << >>)

LEMMA GotFits ==
    ASSUME NEW v, NEW n
    PROVE  /\ Got(v, n).val = v /\ Got(v, n).next = n
           /\ Failed(Got(v, n)) <=> v.kind = "error"
           /\ Failed(None) /\ None.val = ErrorValue /\ ErrorValue.kind = "error"
BY DEF Got, Failed, None, ErrorValue, Value

LEMMA ValueFits ==
    ASSUME NEW k, NEW t, NEW c
    PROVE  Value(k, t, c).kind = k /\ Value(k, t, c).text = t /\ Value(k, t, c).kids = c
BY DEF Value

(* A value that is no error is fine where its end is.                      *)
LEMMA FineMade ==
    ASSUME NEW s, NEW i, NEW k, k # "error", NEW t, IsSeq(t), NEW c, IsSeq(c),
           NEW n \in i + 1..Len(s), NEW g, g = Got(Value(k, t, c), n)
    PROVE  Fine(s, g, i) /\ ~Failed(g)
<1> DEFINE v == Value(k, t, c)
<1>1. v.kind = k /\ v.text = t /\ v.kids = c
  BY ValueFits
<1>2. g.val = v /\ g.next = n /\ ~Failed(g)
  BY <1>1, GotFits
<1>3. v = Value(v.kind, v.text, v.kids)
  BY <1>1
<1> HIDE DEF v
<1>4. g = Got(g.val, g.next)
  BY <1>2 DEF v
<1> QED BY <1>1, <1>2, <1>3, <1>4 DEF Fine

LEMMA FineEarlier ==
    ASSUME NEW s, NEW g, NEW i \in Int, NEW j \in Int, Fine(s, g, j), i =< j, IsSeq(s)
    PROVE  Fine(s, g, i)
<1>1. Len(s) \in Nat /\ (g.next \in j + 1..Len(s) => g.next \in i + 1..Len(s))
  BY SeqFits
<1> QED BY <1>1 DEF Fine

LEMMA SymbolFits ==
    ASSUME NEW s, IsSeq(s), NEW i \in Int, NEW j \in Int, i =< j, NEW g, FineText(s, g, j), NEW x
    PROVE  /\ FineText(s, Symbol(x, g), i)
           /\ Failed(Symbol(x, g)) <=> Failed(g)
           /\ ~Failed(g) => Symbol(x, g) = Got(Value("string", <<x>> \o g.val.text, << >>), g.next)
<1>1. Fine(s, g, i)
  BY FineEarlier DEF FineText
<1>2. CASE Failed(g)
  <2>1. Symbol(x, g) = None
    BY <1>2 DEF Symbol
  <2> QED BY <1>2, <2>1, GotFits DEF FineText, Fine
<1>3. CASE ~Failed(g)
  <2>1. g.next \in i + 1..Len(s) /\ IsSeq(g.val.text)
    BY <1>1, <1>3, GotFits DEF Fine
  <2>2. PICK t : t = <<x>> \o g.val.text
    OBVIOUS
  <2>3. IsSeq(t) /\ IsSeq(<< >>)
    BY <2>1, <2>2, Regroup, EmptyIsSeq
  <2>4. PICK y : y = Symbol(x, g)
    OBVIOUS
  <2>5. y = Got(Value("string", t, << >>), g.next)
    BY <1>3, <2>2, <2>4 DEF Symbol
  <2>6. Fine(s, y, i) /\ ~Failed(y)
    BY <2>1, <2>3, <2>5, FineMade
  <2>7. y.val.kind = "string" /\ y.val.kids = << >>
    BY <2>5 DEF Got, Value
  <2> QED BY <1>3, <2>2, <2>4, <2>5, <2>6, <2>7 DEF FineText
<1> QED BY <1>2, <1>3

LEMMA ItemFits ==
    ASSUME NEW s, IsSeq(s), NEW i \in Int, NEW j \in Int, i =< j, NEW what,
           NEW g, FinePart(s, g, what, j), NEW e
    PROVE  /\ FinePart(s, Item(e, g), what, i)
           /\ Failed(Item(e, g)) <=> Failed(g)
           /\ ~Failed(g) => Item(e, g) = Got(Value(what, << >>, <<e>> \o g.val.kids), g.next)
<1>1. Fine(s, g, i)
  BY FineEarlier DEF FinePart
<1>2. CASE Failed(g)
  <2>1. Item(e, g) = None
    BY <1>2 DEF Item
  <2> QED BY <1>2, <2>1, GotFits DEF FinePart, Fine
<1>3. CASE ~Failed(g)
  <2>1. g.next \in i + 1..Len(s) /\ IsSeq(g.val.kids) /\ g.val.kind = what /\ what # "error"
    BY <1>1, <1>3, GotFits DEF Fine, FinePart, Failed
  <2>2. PICK t : t = <<e>> \o g.val.kids
    OBVIOUS
  <2>3. IsSeq(t) /\ IsSeq(<< >>)
    BY <2>1, <2>2, Regroup, EmptyIsSeq
  <2>4. PICK y : y = Item(e, g)
    OBVIOUS
  <2>5. y = Got(Value(what, << >>, t), g.next)
    BY <1>3, <2>1, <2>2, <2>4 DEF Item
  <2>6. Fine(s, y, i) /\ ~Failed(y)
    BY <2>1, <2>3, <2>5, FineMade
  <2>7. y.val.kind = what /\ y.val.text = << >>
    BY <2>5 DEF Got, Value
  <2> QED BY <1>3, <2>2, <2>4, <2>5, <2>6, <2>7 DEF FinePart
<1> QED BY <1>2, <1>3

-----------------------------------------------------------------------------
(* Texts.                                                                  *)

(* A place of a text depends on the places after it.                       *)
LEMMA TextLocal ==
    ASSUME NEW s, Source(s), NEW q, q # NUL, NEW i \in 1..Len(s), NEW f, NEW g,
           \A j \in i + 1..Len(s) : f[j] = g[j] /\ FineText(s, f[j], j)
    PROVE  TextAt(s, q, f, i) = TextAt(s, q, g, i) /\ FineText(s, TextAt(s, q, f, i), i)
<1>1. /\ Len(s) \in Nat \ {0} /\ i \in Int /\ IsSeq(s)
      /\ \A k \in 1..Len(s) : s[k] # NUL => k + 1 \in i + 1..Len(s) \/ k < i
  <2>1. Len(s) \in Nat \ {0} /\ \A k \in 1..Len(s) : s[k] # NUL => k + 1 \in 1..Len(s)
    BY SourceFits
  <2>2. \A k \in 1..Len(s) : k + 1 \in 1..Len(s) => k + 1 \in i + 1..Len(s) \/ k < i
    OBVIOUS
  <2> QED BY <2>1, <2>2 DEF Source
<1>2. CASE s[i] = q
  <2>1. i + 1 \in i + 1..Len(s)
    BY <1>1, <1>2
  <2>2. PICK y : y = TextAt(s, q, f, i)
    OBVIOUS
  <2>3. y = Got(Value("string", << >>, << >>), i + 1) /\ y = TextAt(s, q, g, i)
    BY <1>2, <2>2 DEF TextAt
  <2>4. Fine(s, y, i) /\ ~Failed(y)
    BY <2>1, <2>3, EmptyIsSeq, FineMade
  <2>5. y.val.kind = "string" /\ y.val.kids = << >>
    BY <2>3 DEF Got, Value
  <2> QED BY <2>2, <2>3, <2>4, <2>5 DEF FineText
<1>3. CASE s[i] # q /\ s[i] = "bs" /\ s[i + 1] \in Escapable
  <2>1. s[i] # NUL /\ s[i + 1] # NUL
    BY <1>3 DEF NUL, Escapable
  <2>2. i + 1 \in 1..Len(s)
    BY <1>1, <2>1
  <2>3. i + 2 \in i + 1..Len(s)
    BY <1>1, <2>1, <2>2
  <2>4. TextAt(s, q, f, i) = Symbol(s[i + 1], f[i + 2]) /\ f[i + 2] = g[i + 2]
        /\ TextAt(s, q, g, i) = Symbol(s[i + 1], g[i + 2])
    BY <1>3, <2>3 DEF TextAt
  <2>5. FineText(s, f[i + 2], i + 2) /\ i + 2 \in Int /\ i =< i + 2
    BY <2>3
  <2>6. FineText(s, Symbol(s[i + 1], f[i + 2]), i)
    BY <1>1, <2>5, SymbolFits
  <2> QED BY <2>4, <2>6
<1>4. CASE s[i] # q /\ ~(s[i] = "bs" /\ s[i + 1] \in Escapable) /\ s[i] \in {NUL, "bs"}
  <2>1. TextAt(s, q, f, i) = None /\ TextAt(s, q, g, i) = None
    BY <1>4 DEF TextAt
  <2> QED BY <2>1, GotFits DEF FineText, Fine
<1>5. CASE s[i] # q /\ ~(s[i] = "bs" /\ s[i + 1] \in Escapable) /\ s[i] \notin {NUL, "bs"}
  <2>1. i + 1 \in i + 1..Len(s)
    BY <1>1, <1>5
  <2>2. TextAt(s, q, f, i) = Symbol(s[i], f[i + 1]) /\ f[i + 1] = g[i + 1]
        /\ TextAt(s, q, g, i) = Symbol(s[i], g[i + 1])
    BY <1>5, <2>1 DEF TextAt
  <2>3. FineText(s, f[i + 1], i + 1) /\ i + 1 \in Int /\ i =< i + 1
    BY <2>1
  <2>4. FineText(s, Symbol(s[i], f[i + 1]), i)
    BY <1>1, <2>3, SymbolFits
  <2> QED BY <2>2, <2>4
<1> QED BY <1>2, <1>3, <1>4, <1>5

(* The function is there, and fine everywhere.                             *)
LEMMA TextThere ==
    ASSUME NEW s, Source(s), NEW q, q # NUL
    PROVE  \A i \in 1..Len(s) :
               /\ Text(s, q)[i] = TextAt(s, q, Text(s, q), i)
               /\ FineText(s, Text(s, q)[i], i)
<1>1. PICK n \in Nat : n = Len(s)
  BY SourceFits
<1> DEFINE Stage(f, k) ==
               /\ DOMAIN f = 1..n
               /\ \A i \in Final(n, k) : f[i] = TextAt(s, q, f, i) /\ FineText(s, f[i], i)
           S == {k \in 0..n : \E f : Stage(f, k)}
<1>2. 0 \in S
  <2>1. Stage([i \in 1..n |-> None], 0)
    BY FinalFits
  <2> QED BY <2>1
<1>3. ASSUME NEW k \in 0..n - 1, k \in S PROVE k + 1 \in S
  <2>1. PICK f : Stage(f, k)
    BY <1>3
  <2>2. PICK i \in 1..n : /\ i = n - k /\ i \notin Final(n, k)
                          /\ \A j \in Final(n, k + 1) : j = i \/ j \in Final(n, k)
                          /\ \A j \in Final(n, k + 1) : \A l \in j + 1..n : l \in Final(n, k)
                          /\ Final(n, k) \subseteq 1..n /\ Final(n, k + 1) \subseteq 1..n
    BY FinalFits
  <2>3. PICK x : x = TextAt(s, q, f, i)
    OBVIOUS
  <2>4. PICK g : g = [f EXCEPT ![i] = x]
    OBVIOUS
  <2>5. DOMAIN g = 1..n /\ g[i] = x /\ \A j \in 1..n : j # i => g[j] = f[j]
    BY <2>1, <2>2, <2>4
  <2>6. ASSUME NEW j \in Final(n, k + 1)
        PROVE  TextAt(s, q, f, j) = TextAt(s, q, g, j) /\ FineText(s, TextAt(s, q, f, j), j)
    <3>1. j \in 1..Len(s) /\ \A l \in j + 1..Len(s) : l \in Final(n, k) /\ l # i /\ l \in 1..n
      BY <1>1, <2>2
    <3>2. \A l \in j + 1..Len(s) : f[l] = g[l] /\ FineText(s, f[l], l)
      BY <2>1, <2>5, <3>1
    <3> QED BY <3>1, <3>2, TextLocal
  <2>7. ASSUME NEW j \in Final(n, k + 1) PROVE g[j] = TextAt(s, q, g, j) /\ FineText(s, g[j], j)
    <3>1. CASE j = i
      BY <2>3, <2>5, <2>6, <3>1
    <3>2. CASE j # i
      <4>1. j \in Final(n, k) /\ j \in 1..n
        BY <2>2, <3>2
      <4> QED BY <2>1, <2>5, <2>6, <3>2, <4>1
    <3> QED BY <3>1, <3>2
  <2>8. Stage(g, k + 1)
    BY <2>5, <2>7
  <2>9. k + 1 \in 0..n
    BY FinalFits
  <2> QED BY <2>8, <2>9
<1> HIDE DEF S
<1>4. \A k \in 0..n : k \in S
  BY <1>2, <1>3, Induct
<1>5. PICK f : Stage(f, n)
  <2>1. n \in S
    BY <1>1, <1>4
  <2> QED BY <2>1 DEF S
<1>6. DOMAIN f = 1..Len(s) /\ \A i \in 1..Len(s) : f[i] = TextAt(s, q, f, i)
  BY <1>1, <1>5, FinalFits
<1>7. PICK g : g = [i \in 1..Len(s) |-> TextAt(s, q, f, i)]
  OBVIOUS
<1>8. \A i \in 1..Len(s) : g[i] = f[i]
  BY <1>6, <1>7
<1>9. ASSUME NEW i \in 1..Len(s) PROVE TextAt(s, q, f, i) = TextAt(s, q, g, i)
  <2>1. \A j \in i + 1..n : j \in 1..n
    BY <1>1
  <2>2. \A j \in 1..n : FineText(s, f[j], j)
    BY <1>5, FinalFits
  <2>3. \A j \in i + 1..Len(s) : f[j] = g[j] /\ FineText(s, f[j], j)
    BY <1>1, <1>8, <2>1, <2>2
  <2> QED BY <2>3, TextLocal
<1>10. g = [i \in 1..Len(s) |-> TextAt(s, q, g, i)]
  BY <1>7, <1>9
<1>11. PICK h : h = Text(s, q)
  OBVIOUS
<1>12. h = [i \in 1..Len(s) |-> TextAt(s, q, h, i)]
  BY <1>10, <1>11 DEF Text
<1>13. \A i \in 1..Len(s) : h[i] = TextAt(s, q, h, i)
  BY <1>12
<1> DEFINE R == {k \in 0..n : \A i \in Final(n, k) : FineText(s, h[i], i)}
<1>14. 0 \in R
  BY FinalFits
<1>15. ASSUME NEW k \in 0..n - 1, k \in R PROVE k + 1 \in R
  <2>1. ASSUME NEW i \in Final(n, k + 1) PROVE FineText(s, h[i], i)
    <3>1. i \in 1..Len(s) /\ \A l \in i + 1..Len(s) : FineText(s, h[l], l)
      BY <1>1, <1>15, FinalFits
    <3>2. FineText(s, TextAt(s, q, h, i), i)
      BY <3>1, TextLocal
    <3> QED BY <1>13, <3>1, <3>2
  <2> QED BY <2>1, FinalFits
<1> HIDE DEF R
<1>16. \A k \in 0..n : k \in R
  BY <1>14, <1>15, Induct
<1>17. \A i \in 1..n : FineText(s, h[i], i)
  <2>1. n \in R
    BY <1>1, <1>16
  <2> QED BY <2>1, FinalFits DEF R
<1> QED BY <1>1, <1>11, <1>13, <1>17

-----------------------------------------------------------------------------
(* Of the fields of one name the last one counts.                          *)

LEMMA WithoutFits ==
    ASSUME NEW kids, IsSeq(kids), NEW key
    PROVE  IsSeq(Without(kids, key))
<1>1. PICK A : kids \in Seq(A) /\ Len(kids) \in Nat /\ DOMAIN kids = 1..Len(kids)
  BY SeqFits DEF IsSeq
<1>2. CASE HasKey(kids, key)
  <2>1. PICK i : i = Find(kids, key) /\ i \in 1..Len(kids)
    BY <1>1, <1>2 DEF HasKey, Find
  <2>2. SubSeq(kids, 1, i - 1) \in Seq(A) /\ SubSeq(kids, i + 1, Len(kids)) \in Seq(A)
    BY <1>1, <2>1
  <2>3. Without(kids, key) = SubSeq(kids, 1, i - 1) \o SubSeq(kids, i + 1, Len(kids))
    BY <1>2, <2>1 DEF Without, RemoveAt
  <2>4. Without(kids, key) \in Seq(A)
    BY <2>2, <2>3
  <2> QED BY <2>4 DEF IsSeq
<1>3. CASE ~HasKey(kids, key)
  BY <1>3 DEF Without
<1> QED BY <1>2, <1>3

(* The fields as they are added one by one.                                *)
Adding(f, fields, n) ==
    IF n = 0 THEN << >> ELSE Append(Without(f[n - 1], fields[n].key), fields[n])
AddsUp(f, fields, m) == \A n \in 0..m : f[n] = Adding(f, fields, n)

LEMMA AddsThere ==
    ASSUME NEW fields, NEW m \in Nat
    PROVE  \E f : f = [n \in 0..m |-> Adding(f, fields, n)]
<1> DEFINE S == {k \in 0..m : \E f : DOMAIN f = 0..m /\ AddsUp(f, fields, k)}
<1>1. 0 \in S
  <2>1. PICK f : f = [n \in 0..m |-> << >>]
    OBVIOUS
  <2>2. DOMAIN f = 0..m /\ AddsUp(f, fields, 0)
    BY <2>1 DEF AddsUp, Adding
  <2> QED BY <2>2
<1>2. ASSUME NEW k \in 0..m - 1, k \in S PROVE k + 1 \in S
  <2>1. PICK f : DOMAIN f = 0..m /\ AddsUp(f, fields, k)
    BY <1>2
  <2>2. PICK x, g : x = Adding(f, fields, k + 1) /\ g = [f EXCEPT ![k + 1] = x]
    OBVIOUS
  <2>3. k + 1 \in 0..m /\ DOMAIN g = 0..m /\ g[k + 1] = x /\ \A n \in 0..k : g[n] = f[n]
    BY <2>1, <2>2
  <2>4. ASSUME NEW n \in 0..k + 1 PROVE Adding(g, fields, n) = Adding(f, fields, n)
    <3>1. n # 0 => n - 1 \in 0..k
      OBVIOUS
    <3> QED BY <2>3, <3>1 DEF Adding
  <2>5. ASSUME NEW n \in 0..k + 1 PROVE g[n] = Adding(g, fields, n)
    <3>1. CASE n = k + 1
      BY <2>2, <2>3, <2>4, <3>1
    <3>2. CASE n # k + 1
      <4>1. n \in 0..k
        BY <3>2
      <4> QED BY <2>1, <2>3, <2>4, <4>1 DEF AddsUp
    <3> QED BY <3>1, <3>2
  <2> QED BY <2>3, <2>5 DEF AddsUp
<1> HIDE DEF S
<1>3. m \in S
  BY <1>1, <1>2, Induct
<1>4. PICK f : DOMAIN f = 0..m /\ AddsUp(f, fields, m)
  BY <1>3 DEF S
<1>5. PICK g : g = [n \in 0..m |-> Adding(f, fields, n)]
  OBVIOUS
<1>6. \A n \in 0..m : g[n] = f[n]
  BY <1>4, <1>5 DEF AddsUp
<1>7. ASSUME NEW n \in 0..m PROVE Adding(f, fields, n) = Adding(g, fields, n)
  <2>1. n # 0 => n - 1 \in 0..m
    OBVIOUS
  <2> QED BY <1>6, <2>1 DEF Adding
<1> QED BY <1>5, <1>7

LEMMA LastOnesFits ==
    ASSUME NEW fields, IsSeq(fields), NEW e
    PROVE  /\ IsSeq(LastOnes(fields))
           /\ LastOnes(Append(fields, e)) = Append(Without(LastOnes(fields), e.key), e)
           /\ LastOnes(<< >>) = << >>
<1>1. ASSUME NEW l, Len(l) \in Nat
      PROVE  \E f : AddsUp(f, l, Len(l)) /\ LastOnes(l) = f[Len(l)]
  <2>1. PICK f : f = CHOOSE kids : kids = [n \in 0..Len(l) |->
                         IF n = 0 THEN << >> ELSE Append(Without(kids[n - 1], l[n].key), l[n])]
    OBVIOUS
  <2>2. \E g : g = [n \in 0..Len(l) |->
                      IF n = 0 THEN << >> ELSE Append(Without(g[n - 1], l[n].key), l[n])]
    BY <1>1, AddsThere DEF Adding
  <2>3. f = [n \in 0..Len(l) |->
                 IF n = 0 THEN << >> ELSE Append(Without(f[n - 1], l[n].key), l[n])]
    BY <2>1, <2>2
  <2>4. AddsUp(f, l, Len(l))
    BY <2>3 DEF AddsUp, Adding
  <2>5. LastOnes(l) = f[Len(l)]
    BY <2>1 DEF LastOnes
  <2> QED BY <2>4, <2>5
<1>2. PICK m \in Nat : m = Len(fields)
  BY SeqFits
<1>3. PICK f : AddsUp(f, fields, m) /\ LastOnes(fields) = f[m]
  BY <1>1, <1>2
<1>4. PICK l : l = Append(fields, e)
  OBVIOUS
<1>5. Len(l) = m + 1 /\ l[m + 1] = e /\ \A n \in 1..m : l[n] = fields[n]
  <2>1. PICK A : fields \in Seq(A) /\ e \in A
    BY SeqShare
  <2> QED BY <1>2, <1>4, <2>1
<1>6. PICK g : AddsUp(g, l, m + 1) /\ LastOnes(l) = g[m + 1]
  BY <1>1, <1>5
<1>7. \A k \in 0..m : g[k] = f[k] /\ IsSeq(f[k])
  <2> DEFINE S == {k \in 0..m : g[k] = f[k] /\ IsSeq(f[k])}
  <2>1. 0 \in S
    <3>1. 0 \in 0..m /\ 0 \in 0..m + 1
      BY <1>2
    <3> QED BY <1>3, <1>6, <3>1, EmptyIsSeq DEF AddsUp, Adding
  <2>2. ASSUME NEW k \in 0..m - 1, k \in S PROVE k + 1 \in S
    <3>1. k + 1 \in 0..m /\ k + 1 \in 0..m + 1 /\ k + 1 \in 1..m /\ k + 1 # 0 /\ (k + 1) - 1 = k
      BY <1>2
    <3>2. f[k + 1] = Adding(f, fields, k + 1) /\ g[k + 1] = Adding(g, l, k + 1)
      BY <1>3, <1>6, <3>1 DEF AddsUp
    <3>3. l[k + 1] = fields[k + 1] /\ g[k] = f[k] /\ IsSeq(f[k])
      BY <1>5, <2>2, <3>1
    <3>4. f[k + 1] = Append(Without(f[k], fields[k + 1].key), fields[k + 1])
          /\ g[k + 1] = f[k + 1]
      BY <3>1, <3>2, <3>3 DEF Adding
    <3>5. IsSeq(f[k + 1])
      <4>1. PICK w : w = Without(f[k], fields[k + 1].key) /\ IsSeq(w)
        BY <3>3, WithoutFits
      <4> QED BY <3>4, <4>1, AppendIsSeq
    <3> QED BY <3>1, <3>4, <3>5
  <2> HIDE DEF S
  <2>3. \A k \in 0..m : k \in S
    BY <2>1, <2>2, Induct
  <2> QED BY <2>3 DEF S
<1>8. LastOnes(l) = Append(Without(g[m], e.key), e)
  <2>1. g[m + 1] = Adding(g, l, m + 1) /\ m + 1 # 0 /\ (m + 1) - 1 = m
    BY <1>2, <1>6 DEF AddsUp
  <2> QED BY <1>5, <1>6, <2>1 DEF Adding
<1>9. LastOnes(<< >>) = << >>
  <2>1. PICK h : AddsUp(h, << >>, 0) /\ LastOnes(<< >>) = h[0]
    BY <1>1, EmptyIsSeq
  <2> QED BY <2>1 DEF AddsUp, Adding
<1> QED BY <1>2, <1>3, <1>4, <1>7, <1>8, <1>9

-----------------------------------------------------------------------------
(* Values and what is left of a container.                                 *)

Whats == {"array", "object"}

(* Two functions are the same, and fine, behind place i.                   *)
Ahead(s, f, g, i) ==
    \A j \in i + 1..Len(s) : \A what \in Whats :
        f[<<what, j>>] = g[<<what, j>>] /\ FinePart(s, f[<<what, j>>], what, j)

LEMMA AheadLater ==
    ASSUME NEW s, NEW f, NEW g, NEW i \in Int, NEW j \in Int, i =< j, Ahead(s, f, g, i), Source(s)
    PROVE  Ahead(s, f, g, j)
<1>1. \A l \in j + 1..Len(s) : l \in i + 1..Len(s)
  BY SourceFits
<1> QED BY <1>1 DEF Ahead

LEMMA FieldsFits ==
    ASSUME NEW s, NEW g, NEW i, FinePart(s, g, "object", i)
    PROVE  /\ FinePart(s, Fields(g), "object", i)
           /\ Failed(Fields(g)) <=> Failed(g)
           /\ ~Failed(g) => Fields(g) = Got(Value("object", << >>, LastOnes(g.val.kids)), g.next)
<1>1. CASE Failed(g)
  BY <1>1, GotFits DEF Fields, FinePart, Fine
<1>2. CASE ~Failed(g)
  <2>1. g.next \in i + 1..Len(s) /\ IsSeq(g.val.kids)
    BY <1>2, GotFits DEF Fine, FinePart
  <2>2. PICK t : t = LastOnes(g.val.kids) /\ IsSeq(t) /\ IsSeq(<< >>)
    BY <2>1, LastOnesFits, EmptyIsSeq
  <2>3. PICK y : y = Fields(g)
    OBVIOUS
  <2>4. y = Got(Value("object", << >>, t), g.next)
    BY <1>2, <2>2, <2>3 DEF Fields
  <2>5. Fine(s, y, i) /\ ~Failed(y)
    BY <2>1, <2>2, <2>4, FineMade
  <2>6. y.val.kind = "object" /\ y.val.text = << >>
    BY <2>4 DEF Got, Value
  <2> QED BY <1>2, <2>2, <2>3, <2>4, <2>5, <2>6 DEF FinePart
<1> QED BY <1>1, <1>2

LEMMA TrimmedFits ==
    ASSUME NEW s, Source(s), NEW i \in Nat, NEW g, Fine(s, g, i)
    PROVE  /\ Fine(s, Trimmed(s, g), i)
           /\ Failed(Trimmed(s, g)) <=> Failed(g)
           /\ Failed(g) => Trimmed(s, g) = None
           /\ ~Failed(g) => /\ Trimmed(s, g) = Got(g.val, Skip(s, g.next))
                            /\ s[Trimmed(s, g).next] \notin White
<1>1. CASE Failed(g)
  BY <1>1, GotFits DEF Trimmed, Fine
<1>2. CASE ~Failed(g)
  <2>1. /\ g.next \in i + 1..Len(s) /\ IsSeq(g.val.kids) /\ IsSeq(g.val.text)
        /\ g.val = Value(g.val.kind, g.val.text, g.val.kids) /\ g.val.kind # "error"
    BY <1>2, GotFits DEF Fine, Failed
  <2>2. PICK n : n = Skip(s, g.next) /\ n \in g.next..Len(s) /\ s[n] \notin White
    <3>1. g.next \in 1..Len(s)
      BY <2>1, SourceFits
    <3> QED BY <3>1, SkipFits
  <2>3. n \in i + 1..Len(s)
    BY <2>1, <2>2, SourceFits
  <2>4. PICK y : y = Trimmed(s, g)
    OBVIOUS
  <2>5. y = Got(Value(g.val.kind, g.val.text, g.val.kids), n)
    BY <1>2, <2>1, <2>2, <2>4 DEF Trimmed
  <2>6. Fine(s, y, i) /\ ~Failed(y)
    BY <2>1, <2>3, <2>5, FineMade
  <2>7. y.next = n /\ y = Got(g.val, n)
    BY <2>1, <2>5, GotFits
  <2> QED BY <1>2, <2>2, <2>4, <2>6, <2>7
<1> QED BY <1>1, <1>2

(* What a value is before the white space behind it.                       *)
Core(s, part, i) ==
    CASE s[i] = "{" -> Fields(part[<<"object", i + 1>>])
      [] s[i] = "[" -> part[<<"array", i + 1>>]
      [] s[i] = "null" -> Got(NullValue, i + 1)
      [] s[i] = "true" -> Got(Value("boolean", <<"true">>, << >>), i + 1)
      [] s[i] \in Quotes -> Text(s, s[i])[i + 1]
      [] s[i] \in NumberChars -> Numeral(SubSeq(s, i, Run(s, i) - 1), Run(s, i))
      [] OTHER -> None

LEMMA CoreArms ==
    ASSUME NEW s, NEW part, NEW i
    PROVE  /\ s[i] = "{" => Core(s, part, i) = Fields(part[<<"object", i + 1>>])
           /\ s[i] = "[" => Core(s, part, i) = part[<<"array", i + 1>>]
           /\ s[i] = "null" => Core(s, part, i) = Got(NullValue, i + 1)
           /\ s[i] = "true" => Core(s, part, i) = Got(Value("boolean", <<"true">>, << >>), i + 1)
           /\ s[i] \in Quotes => Core(s, part, i) = Text(s, s[i])[i + 1]
           /\ s[i] \in NumberChars =>
                  Core(s, part, i) = Numeral(SubSeq(s, i, Run(s, i) - 1), Run(s, i))
           /\ s[i] \notin {"{", "[", "null", "true"} \cup Quotes \cup NumberChars =>
                  Core(s, part, i) = None
<1>1. CASE s[i] = "{"
  BY <1>1 DEF Core, Quotes, NumberChars, Digits
<1>2. CASE s[i] = "["
  BY <1>2 DEF Core, Quotes, NumberChars, Digits
<1>3. CASE s[i] = "null"
  BY <1>3 DEF Core, Quotes, NumberChars, Digits
<1>4. CASE s[i] = "true"
  BY <1>4 DEF Core, Quotes, NumberChars, Digits
<1>5. CASE s[i] \in Quotes
  BY <1>5 DEF Core, Quotes, NumberChars, Digits
<1>6. CASE s[i] \in NumberChars
  BY <1>6 DEF Core, Quotes, NumberChars, Digits
<1>7. CASE s[i] \notin {"{", "[", "null", "true"} \cup Quotes \cup NumberChars
  BY <1>7 DEF Core, Quotes, NumberChars, Digits
<1> QED BY <1>1, <1>2, <1>3, <1>4, <1>5, <1>6, <1>7

LEMMA ValueIs ==
    ASSUME NEW s, NEW part, NEW i
    PROVE  ValueAt(s, part, i) = Trimmed(s, Core(s, part, Skip(s, i)))
BY DEF ValueAt, Core

LEMMA CoreLocal ==
    ASSUME NEW s, Source(s), NEW i \in 1..Len(s), NEW f, NEW g, Ahead(s, f, g, i)
    PROVE  Core(s, f, i) = Core(s, g, i) /\ Fine(s, Core(s, f, i), i)
<1>1. Len(s) \in Nat \ {0} /\ i \in Int /\ i =< i + 1 /\ IsSeq(s)
      /\ (s[i] # NUL => i + 1 \in i + 1..Len(s) /\ i + 1 \in 1..Len(s))
  <2>1. s[i] # NUL => i + 1 \in 1..Len(s)
    BY SourceFits
  <2> QED BY <2>1, SourceFits DEF Source
<1> DEFINE n == i + 1
<1>2. ASSUME NEW y, FinePart(s, y, "object", n) \/ FinePart(s, y, "array", n)
                    \/ FineText(s, y, n)
      PROVE  Fine(s, y, i)
  <2>1. Fine(s, y, n)
    BY <1>2 DEF FinePart, FineText
  <2> QED BY <1>1, <2>1, FineEarlier
<1>3. CASE s[i] \in {"{", "["}
  <2>1. s[i] # NUL
    BY <1>3 DEF NUL
  <2>2. \A what \in Whats : f[<<what, n>>] = g[<<what, n>>] /\ FinePart(s, f[<<what, n>>], what, n)
    BY <1>1, <2>1 DEF Ahead
  <2>3. FinePart(s, Fields(f[<<"object", n>>]), "object", n)
    BY <2>2, FieldsFits DEF Whats
  <2>4. FinePart(s, f[<<"array", n>>], "array", n)
    BY <2>2 DEF Whats
  <2>5. f[<<"object", n>>] = g[<<"object", n>>] /\ f[<<"array", n>>] = g[<<"array", n>>]
    BY <2>2 DEF Whats
  <2>6. CASE s[i] = "{"
    <3>1. \A h : Core(s, h, i) = Fields(h[<<"object", i + 1>>])
      BY <2>6, CoreArms
    <3>2. Core(s, f, i) = Fields(f[<<"object", n>>]) /\ Core(s, g, i) = Fields(g[<<"object", n>>])
      BY <3>1
    <3> QED BY <1>2, <2>3, <2>5, <3>2
  <2>7. CASE s[i] = "["
    <3>1. \A h : Core(s, h, i) = h[<<"array", i + 1>>]
      BY <2>7, CoreArms
    <3>2. Core(s, f, i) = f[<<"array", n>>] /\ Core(s, g, i) = g[<<"array", n>>]
      BY <3>1
    <3> QED BY <1>2, <2>4, <2>5, <3>2
  <2> QED BY <1>3, <2>6, <2>7
<1>4. CASE s[i] = "null"
  <2>1. s[i] # NUL
    BY <1>4 DEF NUL
  <2>2. PICK y : y = Core(s, f, i) /\ y = Core(s, g, i) /\ y = Got(Value("null", << >>, << >>), n)
    BY <1>4, CoreArms DEF NullValue
  <2>3. n \in i + 1..Len(s) /\ "null" # "error"
    BY <1>1, <2>1
  <2>4. Fine(s, y, i) /\ ~Failed(y)
    BY <2>2, <2>3, EmptyIsSeq, FineMade
  <2> QED BY <2>2, <2>4
<1>5. CASE s[i] = "true"
  <2>1. s[i] # NUL
    BY <1>5 DEF NUL
  <2>2. PICK t : t = <<"true">> /\ IsSeq(t)
    <3>1. <<"true">> \in Seq({"true"})
      OBVIOUS
    <3> QED BY <3>1 DEF IsSeq
  <2>3. PICK y : y = Core(s, f, i) /\ y = Core(s, g, i) /\ y = Got(Value("boolean", t, << >>), n)
    BY <1>5, <2>2, CoreArms
  <2>4. n \in i + 1..Len(s) /\ "boolean" # "error"
    BY <1>1, <2>1
  <2>5. Fine(s, y, i) /\ ~Failed(y)
    BY <2>2, <2>3, <2>4, EmptyIsSeq, FineMade
  <2> QED BY <2>3, <2>5
<1>6. CASE s[i] \in Quotes
  <2>1. s[i] # NUL
    BY <1>6 DEF NUL, Quotes
  <2>2. FineText(s, Text(s, s[i])[n], n)
    BY <1>1, <2>1, TextThere
  <2>3. Core(s, f, i) = Text(s, s[i])[n] /\ Core(s, g, i) = Text(s, s[i])[n]
    BY <1>6, CoreArms
  <2> QED BY <1>2, <2>2, <2>3
<1>7. CASE s[i] \in NumberChars
  <2>1. s[i] # NUL
    BY <1>7 DEF NUL, NumberChars, Digits
  <2>2. PICK r : r = Run(s, i) /\ r \in i + 1..Len(s)
    <3>1. Run(s, i) = Run(s, n) /\ Run(s, n) \in n..Len(s)
      BY <1>1, <1>7, <2>1, RunFits
    <3> QED BY <1>1, <3>1
  <2>3. PICK t : t = SubSeq(s, i, r - 1) /\ IsSeq(t)
    <3>1. PICK A : s \in Seq(A)
      BY <1>1 DEF IsSeq
    <3>2. SubSeq(s, i, r - 1) \in Seq(A)
      BY <1>1, <2>2, <3>1
    <3> QED BY <3>2 DEF IsSeq
  <2>4. PICK y : y = Core(s, f, i) /\ y = Core(s, g, i) /\ y = Numeral(t, r)
    BY <1>7, <2>2, <2>3, CoreArms
  <2>5. CASE IsNumber(t)
    <3>1. y = Got(Value("number", t, << >>), r) /\ "number" # "error"
      BY <2>4, <2>5 DEF Numeral
    <3>2. Fine(s, y, i) /\ ~Failed(y)
      BY <2>2, <2>3, <3>1, EmptyIsSeq, FineMade
    <3> QED BY <2>4, <3>2
  <2>6. CASE ~IsNumber(t)
    BY <2>4, <2>6 DEF Numeral, Fine
  <2> QED BY <2>5, <2>6
<1>8. CASE s[i] \notin {"{", "[", "null", "true"} \cup Quotes \cup NumberChars
  <2>1. Core(s, f, i) = None /\ Core(s, g, i) = None
    BY <1>8, CoreArms
  <2> QED BY <2>1 DEF Fine
<1> QED BY <1>3, <1>4, <1>5, <1>6, <1>7, <1>8

LEMMA ValueLocal ==
    ASSUME NEW s, Source(s), NEW i \in 1..Len(s), NEW f, NEW g, Ahead(s, f, g, i)
    PROVE  /\ ValueAt(s, f, i) = ValueAt(s, g, i) /\ Fine(s, ValueAt(s, f, i), i)
           /\ ~Failed(ValueAt(s, f, i)) => s[ValueAt(s, f, i).next] \notin White
<1>1. PICK p : p = Skip(s, i) /\ p \in i..Len(s) /\ p \in 1..Len(s)
  BY SkipFits
<1>2. i \in Int /\ p \in Int /\ p \in Nat /\ i =< p
  BY <1>1
<1>3. Ahead(s, f, g, p)
  BY <1>2, AheadLater
<1>4. Core(s, f, p) = Core(s, g, p) /\ Fine(s, Core(s, f, p), p)
  BY <1>1, <1>3, CoreLocal
<1>5. PICK c : c = Core(s, f, p) /\ Fine(s, c, p)
  BY <1>4
<1>6. PICK y : y = ValueAt(s, f, i) /\ y = Trimmed(s, c) /\ y = ValueAt(s, g, i)
  BY <1>1, <1>4, <1>5, ValueIs
<1>8. Fine(s, y, p) /\ (Failed(y) <=> Failed(c)) /\ (~Failed(c) => s[y.next] \notin White)
  <2>1. Fine(s, Trimmed(s, c), p)
    BY <1>2, <1>5, TrimmedFits
  <2>2. Failed(Trimmed(s, c)) <=> Failed(c)
    BY <1>2, <1>5, TrimmedFits
  <2>3. ~Failed(c) => s[Trimmed(s, c).next] \notin White
    BY <1>2, <1>5, TrimmedFits
  <2> QED BY <1>6, <2>1, <2>2, <2>3
<1>7. Fine(s, y, i)
  BY <1>2, <1>8, FineEarlier DEF Source
<1> QED BY <1>6, <1>7, <1>8

LEMMA ClosedFits ==
    ASSUME NEW s, NEW i, NEW what \in Whats, NEW n \in i + 1..Len(s)
    PROVE  FinePart(s, Closed(what, n), what, i) /\ ~Failed(Closed(what, n))
<1>1. PICK y : y = Closed(what, n) /\ y = Got(Value(what, << >>, << >>), n)
  BY DEF Closed
<1>2. what # "error"
  BY DEF Whats
<1>3. Fine(s, y, i) /\ ~Failed(y)
  BY <1>1, <1>2, EmptyIsSeq, FineMade
<1>4. y.val.kind = what /\ y.val.text = << >>
  BY <1>1 DEF Got, Value
<1> QED BY <1>1, <1>3, <1>4 DEF FinePart

LEMMA NoneFits ==
    ASSUME NEW s, NEW what, NEW i
    PROVE  FinePart(s, None, what, i) /\ Fine(s, None, i) /\ Failed(None)
BY GotFits DEF FinePart, Fine

LEMMA CloseFits ==
    ASSUME NEW what \in Whats
    PROVE  Close(what) # NUL /\ Close(what) # ","
BY DEF Close, NUL, Whats

LEMMA AfterItemLocal ==
    ASSUME NEW s, Source(s), NEW i \in 1..Len(s), NEW f, NEW g, Ahead(s, f, g, i),
           NEW what \in Whats
    PROVE  /\ AfterItem(s, f, what, i) = AfterItem(s, g, what, i)
           /\ FinePart(s, AfterItem(s, f, what, i), what, i)
<1>1. PICK p : p = Skip(s, i) /\ p \in i..Len(s) /\ p \in 1..Len(s)
  BY SkipFits
<1>2. i \in Int /\ p + 1 \in Int /\ i =< p + 1 /\ Len(s) \in Nat
  BY <1>1, SourceFits
<1>3. ASSUME s[p] # NUL PROVE p + 1 \in i + 1..Len(s)
  BY <1>1, <1>3, SourceFits
<1>4. CASE s[p] = ","
  <2>1. p + 1 \in i + 1..Len(s)
    BY <1>3, <1>4 DEF NUL
  <2>2. f[<<what, p + 1>>] = g[<<what, p + 1>>] /\ FinePart(s, f[<<what, p + 1>>], what, p + 1)
    BY <2>1 DEF Ahead
  <2>3. FinePart(s, f[<<what, p + 1>>], what, i)
    BY <1>2, <2>2, FineEarlier DEF FinePart, Source
  <2> QED BY <1>1, <1>4, <2>2, <2>3 DEF AfterItem
<1>5. CASE s[p] # "," /\ s[p] = Close(what)
  <2>1. p + 1 \in i + 1..Len(s)
    BY <1>3, <1>5, CloseFits
  <2>2. AfterItem(s, f, what, i) = Closed(what, p + 1) /\ AfterItem(s, g, what, i) = Closed(what, p + 1)
    BY <1>1, <1>5 DEF AfterItem
  <2> QED BY <2>1, <2>2, ClosedFits
<1>6. CASE s[p] # "," /\ s[p] # Close(what)
  <2>1. AfterItem(s, f, what, i) = None /\ AfterItem(s, g, what, i) = None
    BY <1>1, <1>6 DEF AfterItem
  <2> QED BY <2>1, NoneFits
<1> QED BY <1>4, <1>5, <1>6

LEMMA WithItemLocal ==
    ASSUME NEW s, Source(s), NEW i \in 1..Len(s), NEW f, NEW g, Ahead(s, f, g, i),
           NEW what \in Whats, NEW key, NEW item, Fine(s, item, i)
    PROVE  /\ WithItem(s, f, what, key, item) = WithItem(s, g, what, key, item)
           /\ FinePart(s, WithItem(s, f, what, key, item), what, i)
<1>1. CASE Failed(item)
  BY <1>1, NoneFits DEF WithItem
<1>2. CASE ~Failed(item)
  <2>1. PICK n : n = item.next /\ n \in i + 1..Len(s)
    BY <1>2, GotFits DEF Fine
  <2>2. n \in 1..Len(s) /\ n \in Int /\ i \in Int /\ i =< n
    BY <2>1, SourceFits
  <2>3. Ahead(s, f, g, n)
    BY <2>2, AheadLater
  <2>4. PICK y : y = AfterItem(s, f, what, n) /\ y = AfterItem(s, g, what, n)
                 /\ FinePart(s, y, what, n)
    BY <2>2, <2>3, AfterItemLocal
  <2>5. PICK e : e = Entry(key, item.val)
    OBVIOUS
  <2>6. FinePart(s, Item(e, y), what, i)
    BY <2>2, <2>4, ItemFits DEF Source
  <2>7. WithItem(s, f, what, key, item) = Item(e, y) /\ WithItem(s, g, what, key, item) = Item(e, y)
    BY <1>2, <2>1, <2>4, <2>5 DEF WithItem
  <2> QED BY <2>6, <2>7
<1> QED BY <1>1, <1>2

LEMMA AfterNameLocal ==
    ASSUME NEW s, Source(s), NEW i \in 1..Len(s), NEW f, NEW g, Ahead(s, f, g, i),
           NEW name, ~Failed(name) => name.next \in i..Len(s)
    PROVE  /\ AfterName(s, f, name) = AfterName(s, g, name)
           /\ FinePart(s, AfterName(s, f, name), "object", i)
<1>1. CASE Failed(name)
  BY <1>1, NoneFits DEF AfterName
<1>2. CASE ~Failed(name)
  <2>1. name.next \in 1..Len(s) /\ Len(s) \in Nat
    BY <1>2, SourceFits
  <2>2. PICK p : p = Skip(s, name.next) /\ p \in name.next..Len(s) /\ p \in 1..Len(s)
    BY <2>1, SkipFits
  <2>3. CASE s[p] # ":"
    <3>1. AfterName(s, f, name) = None /\ AfterName(s, g, name) = None
      BY <2>2, <2>3 DEF AfterName
    <3> QED BY <3>1, NoneFits
  <2>4. CASE s[p] = ":"
    <3>1. p + 1 \in 1..Len(s) /\ p + 1 \in Int /\ i \in Int /\ i =< p + 1
      <4>1. s[p] # NUL
        BY <2>4 DEF NUL
      <4> QED BY <1>2, <2>1, <2>2, <4>1, SourceFits
    <3>2. Ahead(s, f, g, p + 1)
      BY <3>1, AheadLater
    <3>3. PICK y : y = ValueAt(s, f, p + 1) /\ y = ValueAt(s, g, p + 1) /\ Fine(s, y, p + 1)
      BY <3>1, <3>2, ValueLocal
    <3>4. Fine(s, y, i)
      BY <3>1, <3>3, FineEarlier DEF Source
    <3>5. PICK key : key = name.val.text
      OBVIOUS
    <3>6. AfterName(s, f, name) = WithItem(s, f, "object", key, y)
          /\ AfterName(s, g, name) = WithItem(s, g, "object", key, y)
      BY <1>2, <2>2, <2>4, <3>3, <3>5 DEF AfterName
    <3> QED BY <3>4, <3>6, WithItemLocal DEF Whats
  <2> QED BY <2>3, <2>4
<1> QED BY <1>1, <1>2

LEMMA PartLocal ==
    ASSUME NEW s, Source(s), NEW i \in 1..Len(s), NEW f, NEW g, Ahead(s, f, g, i),
           NEW what \in Whats
    PROVE  /\ PartAt(s, f, what, i) = PartAt(s, g, what, i)
           /\ FinePart(s, PartAt(s, f, what, i), what, i)
<1>1. PICK p : p = Skip(s, i) /\ p \in i..Len(s) /\ p \in 1..Len(s)
  BY SkipFits
<1>2. i \in Int /\ p \in Int /\ i =< p /\ Len(s) \in Nat /\ IsSeq(s)
      /\ (s[p] # NUL => p + 1 \in i + 1..Len(s) /\ p + 1 \in 1..Len(s))
  BY <1>1, SourceFits DEF Source
<1>3. Ahead(s, f, g, p)
  BY <1>2, AheadLater
<1>4. CASE s[p] = Close(what)
  <2>1. PartAt(s, f, what, i) = Closed(what, p + 1) /\ PartAt(s, g, what, i) = Closed(what, p + 1)
    BY <1>1, <1>4 DEF PartAt
  <2>2. p + 1 \in i + 1..Len(s)
    BY <1>2, <1>4, CloseFits
  <2> QED BY <2>1, <2>2, ClosedFits
<1>5. CASE s[p] # Close(what) /\ what = "array"
  <2>1. PICK y : y = ValueAt(s, f, p) /\ y = ValueAt(s, g, p) /\ Fine(s, y, p)
    BY <1>1, <1>3, ValueLocal
  <2>2. Fine(s, y, i)
    BY <1>2, <2>1, FineEarlier
  <2>3. PartAt(s, f, what, i) = WithItem(s, f, what, << >>, y)
        /\ PartAt(s, g, what, i) = WithItem(s, g, what, << >>, y)
    BY <1>1, <1>5, <2>1 DEF PartAt
  <2> QED BY <2>2, <2>3, WithItemLocal
<1>6. CASE s[p] # Close(what) /\ what # "array" /\ s[p] \in Quotes
  <2>1. s[p] # NUL
    BY <1>6 DEF NUL, Quotes
  <2>2. PICK y : y = Text(s, s[p])[p + 1]
    OBVIOUS
  <2>3. FineText(s, y, p + 1)
    BY <1>2, <2>1, <2>2, TextThere
  <2>4. ~Failed(y) => y.next \in i..Len(s)
    BY <1>2, <2>1, <2>3, GotFits DEF FineText, Fine
  <2>5. PartAt(s, f, what, i) = AfterName(s, f, y) /\ PartAt(s, g, what, i) = AfterName(s, g, y)
    BY <1>1, <1>6, <2>2 DEF PartAt
  <2>6. what = "object"
    BY <1>6 DEF Whats
  <2> QED BY <2>4, <2>5, <2>6, AfterNameLocal
<1>7. CASE s[p] # Close(what) /\ what # "array" /\ s[p] \notin Quotes
  <2>1. PartAt(s, f, what, i) = None /\ PartAt(s, g, what, i) = None
    BY <1>1, <1>7 DEF PartAt
  <2> QED BY <2>1, NoneFits
<1> QED BY <1>4, <1>5, <1>6, <1>7

(* The function of the parts is there, and fine everywhere.                *)
PartIs(s, f, i) ==
    \A what \in Whats :
        f[<<what, i>>] = PartAt(s, f, what, i) /\ FinePart(s, f[<<what, i>>], what, i)

LEMMA PartsThere ==
    ASSUME NEW s, Source(s)
    PROVE  \E f : f = [p \in Whats \X (1..Len(s)) |-> PartAt(s, f, p[1], p[2])]
<1>1. PICK n \in Nat : n = Len(s)
  BY SourceFits
<1> DEFINE D == Whats \X (1..n)
           Stage(f, k) == DOMAIN f = D /\ \A i \in Final(n, k) : PartIs(s, f, i)
           S == {k \in 0..n : \E f : Stage(f, k)}
<1>2. 0 \in S
  <2>1. Stage([p \in D |-> None], 0)
    BY FinalFits
  <2> QED BY <2>1
<1>3. ASSUME NEW k \in 0..n - 1, k \in S PROVE k + 1 \in S
  <2>1. PICK f : Stage(f, k)
    BY <1>3
  <2>2. PICK i \in 1..n : /\ i = n - k /\ i \notin Final(n, k)
                          /\ \A j \in Final(n, k + 1) : j = i \/ j \in Final(n, k)
                          /\ \A j \in Final(n, k + 1) : \A l \in j + 1..n : l \in Final(n, k)
                          /\ Final(n, k) \subseteq 1..n /\ Final(n, k + 1) \subseteq 1..n
    BY FinalFits
  <2>3. PICK g : g = [p \in D |-> IF p[2] = i THEN PartAt(s, f, p[1], i) ELSE f[p]]
    OBVIOUS
  <2>4. DOMAIN g = D
    BY <2>3
  <2>5. \A what \in Whats : g[<<what, i>>] = PartAt(s, f, what, i)
    BY <2>2, <2>3
  <2>6. \A what \in Whats : \A j \in 1..n : j # i => g[<<what, j>>] = f[<<what, j>>]
    BY <2>3
  <2>7. ASSUME NEW j \in Final(n, k + 1) PROVE j \in 1..Len(s) /\ Ahead(s, f, g, j)
    <3>1. j \in 1..Len(s) /\ \A l \in j + 1..Len(s) : l \in Final(n, k) /\ l # i /\ l \in 1..n
      BY <1>1, <2>2
    <3>2. ASSUME NEW l \in j + 1..Len(s), NEW what \in Whats
          PROVE  f[<<what, l>>] = g[<<what, l>>] /\ FinePart(s, f[<<what, l>>], what, l)
      <4>1. l \in Final(n, k) /\ l # i /\ l \in 1..n
        BY <3>1
      <4>2. PartIs(s, f, l)
        BY <2>1, <4>1
      <4> QED BY <2>6, <4>1, <4>2 DEF PartIs
    <3> QED BY <3>1, <3>2 DEF Ahead
  <2>8. ASSUME NEW j \in Final(n, k + 1) PROVE PartIs(s, g, j)
    <3>1. SUFFICES ASSUME NEW what \in Whats
                   PROVE  g[<<what, j>>] = PartAt(s, g, what, j) /\ FinePart(s, g[<<what, j>>], what, j)
      BY DEF PartIs
    <3>2. PartAt(s, f, what, j) = PartAt(s, g, what, j) /\ FinePart(s, PartAt(s, f, what, j), what, j)
      BY <2>7, PartLocal
    <3>3. CASE j = i
      BY <2>5, <3>2, <3>3
    <3>4. CASE j # i
      <4>1. j \in Final(n, k) /\ j \in 1..n
        BY <2>2, <3>4
      <4>2. PartIs(s, f, j)
        BY <2>1, <4>1
      <4> QED BY <2>6, <3>2, <3>4, <4>1, <4>2 DEF PartIs
    <3> QED BY <3>3, <3>4
  <2>9. Stage(g, k + 1) /\ k + 1 \in 0..n
    BY <2>4, <2>8, FinalFits
  <2> QED BY <2>9
<1> HIDE DEF S
<1>4. \A k \in 0..n : k \in S
  BY <1>2, <1>3, Induct
<1>5. PICK f : Stage(f, n)
  <2>1. n \in S
    BY <1>1, <1>4
  <2> QED BY <2>1 DEF S
<1>6. \A i \in 1..n : PartIs(s, f, i)
  BY <1>5, FinalFits
<1>7. PICK g : g = [p \in D |-> PartAt(s, f, p[1], p[2])]
  OBVIOUS
<1>8. \A what \in Whats : \A i \in 1..n : g[<<what, i>>] = f[<<what, i>>]
  BY <1>6, <1>7 DEF PartIs
<1>9. ASSUME NEW i \in 1..n, NEW what \in Whats PROVE PartAt(s, f, what, i) = PartAt(s, g, what, i)
  <2>1. \A j \in i + 1..n : j \in 1..n
    BY <1>1
  <2>2. Ahead(s, f, g, i)
    BY <1>1, <1>6, <1>8, <2>1 DEF Ahead, PartIs
  <2> QED BY <1>1, <2>2, PartLocal
<1>10. g = [p \in D |-> PartAt(s, g, p[1], p[2])]
  <2>1. \A p \in D : PartAt(s, f, p[1], p[2]) = PartAt(s, g, p[1], p[2])
    BY <1>9
  <2> QED BY <1>7, <2>1
<1> QED BY <1>1, <1>10

LEMMA PartsFits ==
    ASSUME NEW s, Source(s)
    PROVE  \A i \in 1..Len(s) : PartIs(s, Parts(s), i)
<1>1. PICK n \in Nat : n = Len(s)
  BY SourceFits
<1>2. PICK h : h = Parts(s)
  OBVIOUS
<1>3. h = [p \in Whats \X (1..Len(s)) |-> PartAt(s, h, p[1], p[2])]
  BY <1>2, PartsThere DEF Parts, Whats
<1>4. \A what \in Whats : \A i \in 1..n : h[<<what, i>>] = PartAt(s, h, what, i)
  BY <1>1, <1>3
<1> DEFINE R == {k \in 0..n : \A i \in Final(n, k) : PartIs(s, h, i)}
<1>5. 0 \in R
  BY FinalFits
<1>6. ASSUME NEW k \in 0..n - 1, k \in R PROVE k + 1 \in R
  <2>1. ASSUME NEW i \in Final(n, k + 1) PROVE PartIs(s, h, i)
    <3>1. i \in 1..Len(s) /\ \A l \in i + 1..Len(s) : PartIs(s, h, l)
      BY <1>1, <1>6, FinalFits
    <3>2. Ahead(s, h, h, i)
      BY <3>1 DEF Ahead, PartIs
    <3>3. \A what \in Whats : FinePart(s, PartAt(s, h, what, i), what, i)
      BY <3>1, <3>2, PartLocal
    <3> QED BY <1>1, <1>4, <3>1, <3>3 DEF PartIs
  <2> QED BY <2>1, FinalFits
<1> HIDE DEF R
<1>7. \A k \in 0..n : k \in R
  BY <1>5, <1>6, Induct
<1>8. n \in R
  BY <1>1, <1>7
<1> QED BY <1>1, <1>2, <1>8, FinalFits DEF R

(* What the meaning of a source is made of, place by place.                *)
LEMMA GrammarFits ==
    ASSUME NEW s, Source(s), NEW i \in 1..Len(s)
    PROVE  /\ \A what \in Whats :
                 /\ Parts(s)[<<what, i>>] = PartAt(s, Parts(s), what, i)
                 /\ FinePart(s, Parts(s)[<<what, i>>], what, i)
                 /\ FinePart(s, AfterItem(s, Parts(s), what, i), what, i)
           /\ Fine(s, ValueAt(s, Parts(s), i), i)
           /\ ~Failed(ValueAt(s, Parts(s), i)) => s[ValueAt(s, Parts(s), i).next] \notin White
<1>1. PICK h : h = Parts(s) /\ \A j \in 1..Len(s) : PartIs(s, h, j)
  BY PartsFits
<1>2. \A j \in i + 1..Len(s) : j \in 1..Len(s)
  BY SourceFits
<1>3. Ahead(s, h, h, i)
  BY <1>1, <1>2 DEF Ahead, PartIs
<1>4. /\ Fine(s, ValueAt(s, h, i), i)
      /\ ~Failed(ValueAt(s, h, i)) => s[ValueAt(s, h, i).next] \notin White
  BY <1>3, ValueLocal
<1>5. \A what \in Whats : FinePart(s, AfterItem(s, h, what, i), what, i)
  BY <1>3, AfterItemLocal
<1> QED BY <1>1, <1>4, <1>5 DEF PartIs

-----------------------------------------------------------------------------
(* Reading from left to right: with a text or items read already, what the *)
(* rest makes of the whole.                                                *)

Behind(text, g) ==
    IF Failed(g) THEN None ELSE Got(Value("string", text \o g.val.text, << >>), g.next)
Whole(what, l) == IF what = "object" THEN LastOnes(l) ELSE l
Gathered(s, what, l, r) ==
    IF Failed(r) THEN None
    ELSE Got(Value(what, << >>, Whole(what, l \o r.val.kids)), Skip(s, r.next))

(* A container that ends here is what has been read of it.                 *)
LEMMA ClosedSays ==
    ASSUME NEW s, NEW what \in Whats, NEW l, IsSeq(l), NEW n
    PROVE  Gathered(s, what, l, Closed(what, n)) = Got(Value(what, << >>, Whole(what, l)), Skip(s, n))
<1>1. PICK y : y = Closed(what, n)
  OBVIOUS
<1>2. y.next = n /\ y.val.kids = << >> /\ ~Failed(y)
  BY <1>1 DEF Closed, Got, Value, Failed, Whats
<1>3. l \o << >> = l
  BY Regroup, EmptyIsSeq
<1> QED BY <1>1, <1>2, <1>3 DEF Gathered

(* With one item more, the rest is what follows it.                        *)
LEMMA GatheredItem ==
    ASSUME NEW s, Source(s), NEW what \in Whats, NEW l, IsSeq(l), NEW e, NEW i \in 1..Len(s), NEW r,
           FinePart(s, r, what, i)
    PROVE  Gathered(s, what, l, Item(e, r)) = Gathered(s, what, Append(l, e), r)
<1>1. CASE Failed(r)
  <2>1. Item(e, r) = None
    BY <1>1 DEF Item
  <2> QED BY <1>1, <2>1, GotFits DEF Gathered
<1>2. CASE ~Failed(r)
  <2>1. IsSeq(r.val.kids)
    BY <1>2, GotFits DEF FinePart, Fine
  <2>2. PICK y : y = Item(e, r)
    OBVIOUS
  <2>3. y = Got(Value(what, << >>, <<e>> \o r.val.kids), r.next)
    BY <1>2, <2>2 DEF Item, FinePart
  <2>4. y.val.kids = <<e>> \o r.val.kids /\ y.next = r.next /\ ~Failed(y)
    BY <2>3 DEF Got, Value, Failed, Whats
  <2>5. PICK z : z = r.val.kids /\ IsSeq(z)
    BY <2>1
  <2>6. IsSeq(z)
    BY <2>5
  <2>7. l \o (<<e>> \o z) = Append(l, e) \o z
    BY <2>6, Regrouped
  <2> QED BY <1>2, <2>2, <2>4, <2>5, <2>7 DEF Gathered
<1> QED BY <1>1, <1>2

(* A container that begins here.                                           *)
LEMMA GatheredNew ==
    ASSUME NEW s, Source(s), NEW i \in 1..Len(s), NEW h, h = Parts(s)
    PROVE  /\ Trimmed(s, h[<<"array", i>>]) = Gathered(s, "array", << >>, h[<<"array", i>>])
           /\ Trimmed(s, Fields(h[<<"object", i>>])) = Gathered(s, "object", << >>, h[<<"object", i>>])
<1>1. PICK a, b : a = h[<<"array", i>>] /\ b = h[<<"object", i>>]
  OBVIOUS
<1>2. FinePart(s, a, "array", i) /\ FinePart(s, b, "object", i)
  BY <1>1, GrammarFits DEF Whats
<1>3. Trimmed(s, a) = Gathered(s, "array", << >>, a)
  <2>1. CASE Failed(a)
    BY <2>1 DEF Trimmed, Gathered
  <2>2. CASE ~Failed(a)
    <3>1. IsSeq(a.val.kids) /\ a.val = Value("array", << >>, a.val.kids)
      BY <1>2, <2>2, GotFits DEF FinePart, Fine
    <3>2. << >> \o a.val.kids = a.val.kids
      BY <3>1, Regroup
    <3> QED BY <2>2, <3>1, <3>2 DEF Trimmed, Gathered, Whole
  <2> QED BY <2>1, <2>2
<1>4. Trimmed(s, Fields(b)) = Gathered(s, "object", << >>, b)
  <2>1. CASE Failed(b)
    BY <2>1, GotFits DEF Trimmed, Gathered, Fields
  <2>2. CASE ~Failed(b)
    <3>1. IsSeq(b.val.kids)
      BY <1>2, <2>2, GotFits DEF FinePart, Fine
    <3>2. << >> \o b.val.kids = b.val.kids
      BY <3>1, Regroup
    <3>3. PICK y : y = Fields(b) /\ y = Got(Value("object", << >>, LastOnes(b.val.kids)), b.next)
      BY <2>2 DEF Fields
    <3>4. y.val = Value("object", << >>, LastOnes(b.val.kids)) /\ y.next = b.next /\ ~Failed(y)
      BY <3>3 DEF Got, Value, Failed
    <3> QED BY <2>2, <3>2, <3>3, <3>4 DEF Trimmed, Gathered, Whole
  <2> QED BY <2>1, <2>2
<1> QED BY <1>1, <1>3, <1>4

(* The next symbol of a text.                                                 *)
LEMMA BehindSymbol ==
    ASSUME NEW s, NEW i, NEW text, IsSeq(text), NEW x, NEW y, FineText(s, y, i)
    PROVE  Behind(text, Symbol(x, y)) = Behind(Append(text, x), y)
<1>1. CASE Failed(y)
  <2>1. Symbol(x, y) = None
    BY <1>1 DEF Symbol
  <2> QED BY <1>1, <2>1, GotFits DEF Behind
<1>2. CASE ~Failed(y)
  <2>1. PICK z : z = y.val.text
    OBVIOUS
  <2>2. IsSeq(z)
    BY <1>2, <2>1, GotFits DEF FineText, Fine
  <2>3. PICK w : w = Symbol(x, y) /\ w = Got(Value("string", <<x>> \o z, << >>), y.next)
    BY <1>2, <2>1 DEF Symbol
  <2>4. w.val.text = <<x>> \o z /\ w.next = y.next /\ ~Failed(w)
    BY <2>3 DEF Got, Value, Failed
  <2>5. text \o (<<x>> \o z) = Append(text, x) \o z
    BY <2>2, Regrouped
  <2> QED BY <1>2, <2>1, <2>3, <2>4, <2>5 DEF Behind
<1> QED BY <1>1, <1>2

LEMMA BehindIs ==
    ASSUME NEW s, Source(s), NEW p \in 1..Len(s), NEW q \in Quotes, NEW text, IsSeq(text)
    PROVE  /\ s[p] = q => Behind(text, Text(s, q)[p]) = Got(Value("string", text, << >>), p + 1)
           /\ s[p] = "bs" /\ s[p + 1] \in Escapable =>
                 Behind(text, Text(s, q)[p]) = Behind(Append(text, s[p + 1]), Text(s, q)[p + 2])
           /\ s[p] = "bs" /\ s[p + 1] \notin Escapable => Behind(text, Text(s, q)[p]) = None
           /\ s[p] = NUL => Behind(text, Text(s, q)[p]) = None
           /\ s[p] \notin {q, "bs", NUL} =>
                 Behind(text, Text(s, q)[p]) = Behind(Append(text, s[p]), Text(s, q)[p + 1])
<1>1. q # NUL /\ q # "bs"
  BY DEF Quotes, NUL
<1>2. PICK u : u = Text(s, q) /\ \A i \in 1..Len(s) : u[i] = TextAt(s, q, u, i) /\ FineText(s, u[i], i)
  BY <1>1, TextThere
<1>3. u[p] = TextAt(s, q, u, p)
  BY <1>2
<1>4. \A i \in 1..Len(s) : s[i] # NUL => i + 1 \in 1..Len(s)
  BY SourceFits
<1>5. CASE s[p] = q
  <2>1. u[p] = Got(Value("string", << >>, << >>), p + 1)
    BY <1>3, <1>5 DEF TextAt
  <2>2. u[p].val.text = << >> /\ u[p].next = p + 1 /\ ~Failed(u[p])
    BY <2>1 DEF Got, Value, Failed
  <2>3. text \o << >> = text
    BY Regroup, EmptyIsSeq
  <2>4. Behind(text, u[p]) = Got(Value("string", text, << >>), p + 1)
    BY <2>2, <2>3 DEF Behind
  <2> QED BY <1>1, <1>2, <1>5, <2>4 DEF NUL
<1>6. CASE s[p] = "bs" /\ s[p + 1] \in Escapable
  <2>1. p + 1 \in 1..Len(s) /\ s[p + 1] # NUL
    BY <1>4, <1>6 DEF NUL, Escapable
  <2>2. (p + 1) + 1 \in 1..Len(s) /\ (p + 1) + 1 = p + 2
    BY <1>4, <2>1
  <2>3. u[p] = Symbol(s[p + 1], u[p + 2])
    BY <1>1, <1>3, <1>6 DEF TextAt
  <2>4. FineText(s, u[p + 2], p + 2)
    BY <1>2, <2>2
  <2>5. Behind(text, u[p]) = Behind(Append(text, s[p + 1]), u[p + 2])
    BY <2>3, <2>4, BehindSymbol
  <2> QED BY <1>1, <1>2, <1>6, <2>5 DEF NUL
<1>7. CASE s[p] = "bs" /\ s[p + 1] \notin Escapable
  <2>1. u[p] = None
    BY <1>1, <1>3, <1>7 DEF TextAt
  <2> QED BY <1>1, <1>2, <1>7, <2>1, GotFits DEF Behind, NUL
<1>8. CASE s[p] = NUL
  <2>1. u[p] = None
    BY <1>1, <1>3, <1>8 DEF TextAt, NUL
  <2> QED BY <1>1, <1>2, <1>8, <2>1, GotFits DEF Behind, NUL
<1>9. CASE s[p] \notin {q, "bs", NUL}
  <2>1. p + 1 \in 1..Len(s)
    BY <1>4, <1>9
  <2>2. u[p] = Symbol(s[p], u[p + 1])
    BY <1>3, <1>9 DEF TextAt
  <2>3. FineText(s, u[p + 1], p + 1)
    BY <1>2, <2>1
  <2>4. Behind(text, u[p]) = Behind(Append(text, s[p]), u[p + 1])
    BY <2>2, <2>3, BehindSymbol
  <2> QED BY <1>2, <1>9, <2>4
<1> QED BY <1>5, <1>6, <1>7, <1>8, <1>9

LEMMA TrimmedGot ==
    ASSUME NEW s, NEW v, v.kind # "error", NEW n
    PROVE  Trimmed(s, Got(v, n)) = Got(v, Skip(s, n))
<1>1. PICK y : y = Got(v, n)
  OBVIOUS
<1>2. y.val = v /\ y.next = n /\ ~Failed(y)
  BY <1>1, GotFits
<1> QED BY <1>1, <1>2 DEF Trimmed

Opener(what) == IF what = "array" THEN "[" ELSE "{"

(* The value of a container is what has been read of it, which is nothing.  *)
LEMMA OpenedIs ==
    ASSUME NEW s, Source(s), NEW p, p + 1 \in 1..Len(s), NEW h, h = Parts(s), NEW what \in Whats,
           s[p] = Opener(what)
    PROVE  Trimmed(s, Core(s, h, p)) = Gathered(s, what, << >>, h[<<what, p + 1>>])
<1>1. CASE what = "array"
  <2>1. s[p] = "["
    BY <1>1 DEF Opener
  <2>2. s[p] = "[" => Core(s, h, p) = h[<<"array", p + 1>>]
    BY CoreArms
  <2>3. Trimmed(s, h[<<"array", p + 1>>]) = Gathered(s, "array", << >>, h[<<"array", p + 1>>])
    BY GatheredNew
  <2> QED BY <1>1, <2>1, <2>2, <2>3
<1>2. CASE what = "object"
  <2>1. s[p] = "{"
    BY <1>2 DEF Opener
  <2>2. s[p] = "{" => Core(s, h, p) = Fields(h[<<"object", p + 1>>])
    BY <2>1 DEF Core, Quotes, NumberChars, Digits
  <2>3. Trimmed(s, Fields(h[<<"object", p + 1>>])) = Gathered(s, "object", << >>, h[<<"object", p + 1>>])
    BY GatheredNew
  <2> QED BY <1>2, <2>1, <2>2, <2>3
<1> QED BY <1>1, <1>2 DEF Whats
=============================================================================
