-------------------------- MODULE JsonPacketProofs --------------------------
(***************************************************************************)
(* Proofs about the parsing, checking and putting of the server's answer:  *)
(* for sources of any symbols and length.                                  *)
(***************************************************************************)
EXTENDS JsonPacket, JsonGrammarProofs, FiniteSetTheorems

(* What the variables range over; a text or a key is made of the symbols   *)
(* of the sources or of the words of the request.                          *)
Symbols ==
    (UNION {f.symbols : f \in Families})
    \cup {RequestFields[i] : i \in DOMAIN RequestFields} \cup {"name", NUL}
Aside == {"eatws", "comment_start", "comment", "comment_eol", "comment_end", "string_escape"}
Empty == {"start", "string", "number", "null", "boolean"}
Filling == {"array", "array_sep", "object", "object_field_start", "object_field",
            "object_field_end", "object_value", "object_sep"}
Goals == Empty \cup Filling \cup {"finish"}
States == Aside \cup Goals
Frame == [state : States, saved : Goals, current : Int,
          quote : Quotes \cup {NUL}, text : Seq(Symbols), name : Seq(Symbols)]
Kid == [key : Seq(Symbols), val : Int]
HeapNode == [kind : Kinds, refs : 0..1, text : Seq(Symbols), kids : Seq(Kid)]
Steps == {"request", "parse", "check", "put", "done"}

Shape ==
    /\ family \in Families /\ input \in Seq(Symbols) /\ pos \in 1..Len(input) + 1
    /\ frames \in Seq(Frame) /\ heap \in Seq(HeapNode) /\ todo \in Seq(Int)
    /\ ret \in Int /\ failedIn \in States \cup {"none"}
    /\ step \in Steps /\ result \in JsonResult /\ fault \subseteq Faults

(* Every pointer is NULL, an error, or a node that was made; a frame never *)
(* holds an error.  For frames fs, a value r, releases td and a heap h.    *)
InRange(fs, r, td, h) ==
    /\ \A i \in DOMAIN fs : fs[i].current \in 0..Len(h)
    /\ r \in NoValue..Len(h)
    /\ \A i \in DOMAIN td : td[i] \in Truncated..Len(h)
    /\ \A c \in DOMAIN h : \A k \in DOMAIN h[c].kids : h[c].kids[k].val \in Truncated..Len(h)

(* The state in which a frame is, or to which it will come back.           *)
Aim(f) == IF f.state \in Aside THEN f.saved ELSE f.state

(* A frame has no object until it has read what kind of value it parses,   *)
(* has one while it parses a container, and knows its quote in a string.   *)
FrameFits(f) ==
    /\ Aim(f) \in Empty => f.current = NULL
    /\ Aim(f) \in Filling => f.current > NULL
    /\ Aim(f) \in {"string", "object_field"} => f.quote \in Quotes
    /\ f.saved = "finish" => Aim(f) = "finish"

(* A call that waits for the value of another one.                         *)
Waiting(f) == f.state \in {"array", "object_value"}

FramesFit ==
    /\ \A i \in DOMAIN frames : FrameFits(frames[i])
    /\ \A i \in DOMAIN frames : i < Len(frames) \/ ret # NoValue => Waiting(frames[i])

Phase ==
    /\ step = "request" => ret = NoValue
    /\ step \in {"request", "check", "put"} => frames = << >>
    /\ step \in {"check", "done"} => todo = << >>
    /\ step = "put" => ret \in DOMAIN heap /\ PayloadOf(ret) \in DOMAIN heap

(* A comment has begun in a source.                                        *)
Open(in) == \E i \in 1..Len(in) - 1 : in[i] = "/" /\ in[i + 1] \in {"*", "/"}

(* What a frame in state s, p symbols into a source, says about it.        *)
Remark(s, p, in) ==
    /\ s = "comment_start" => p > 1 /\ in[p - 1] = "/"
    /\ s \in {"comment", "comment_eol", "comment_end"} => Open(in)

CommentFits == \A i \in DOMAIN frames : Remark(frames[i].state, pos, input)

(* The end was passed in a comment, or in a string whose call failed.      *)
OverrunFits ==
    /\ CommentFits
    /\ step = "request" => input = << >>
    /\ step = "parse" /\ ~Wide /\ Overruns => Open(input) \/ ret = ErrorPtr
    /\ ~Wide /\ "overrun" \in fault => Open(input)

-----------------------------------------------------------------------------
(* What one turn of the loop does to the frames and the objects.           *)

Replaces(f) == frames' = [frames EXCEPT ![Len(frames)] = f]
NewNode(n) == heap' = Append(heap, n)

KeepsNode ==
    \E f \in Frame :
        /\ f.current = Top.current /\ FrameFits(f) /\ Replaces(f)
        /\ UNCHANGED <<ret, heap, todo, failedIn>>
MakesNode ==
    \E f \in Frame, n \in HeapNode :
        /\ Top.current = NULL /\ f.current = Allocated /\ FrameFits(f) /\ Replaces(f)
        /\ n.refs = 1 /\ n.kids = << >> /\ NewNode(n)
        /\ UNCHANGED <<ret, todo, failedIn>>
ReturnsNode == Return(Top.current) /\ UNCHANGED <<heap, todo, failedIn>>
ReturnsNew ==
    \E n \in HeapNode :
        /\ Top.current = NULL /\ Return(Allocated)
        /\ n.refs = 1 /\ n.kids = << >> /\ NewNode(n)
        /\ UNCHANGED <<todo, failedIn>>
Fails ==
    \E p \in {ErrorPtr, Truncated} :
        /\ ~Wide => p = ErrorPtr
        /\ Return(p) /\ todo' = <<Top.current>> /\ FailedHere /\ UNCHANGED heap
Forgets ==
    /\ Top.current = NULL \/ Top.state = "object_field_end"
    /\ Return(ErrorPtr) /\ FailedHere /\ UNCHANGED <<heap, todo>>
Calls ==
    /\ Waiting(Top) /\ frames' = Append(frames, NewFrame)
    /\ UNCHANGED <<ret, heap, todo, failedIn>>

Turned ==
    \/ KeepsNode \/ MakesNode \/ ReturnsNode \/ ReturnsNew
    \/ Fails \/ Forgets \/ Calls

(* The innermost frame is one of the frames.                               *)
LEMMA TopFits ==
    ASSUME Shape, FramesFit, frames # << >>
    PROVE  Top \in Frame /\ FrameFits(Top) /\ Len(frames) \in DOMAIN frames
           /\ Top = frames[Len(frames)]
BY DEF Shape, FramesFit, Top, Last

LEMMA FailKinds ==
    ASSUME Fail, UNCHANGED heap
    PROVE  Fails
BY DEF Fail, Fails, OutError

LEMMA GoesKinds ==
    ASSUME NEW c, NEW n, NEW f \in Frame, Goes(c, f, n),
           f.current = Top.current, FrameFits(f)
    PROVE  KeepsNode \/ ReturnsNode \/ Fails
<1>1. CASE c # NUL
  BY <1>1 DEF Goes, Turn, KeepsNode, Replaces
<1>2. CASE c = NUL /\ "finish" \in {f.state, f.saved}
  BY <1>2 DEF Goes, Turn, ReturnsNode
<1>3. CASE c = NUL /\ ~("finish" \in {f.state, f.saved})
  BY <1>3, FailKinds DEF Goes, Turn
<1> QED BY <1>1, <1>2, <1>3

LEMMA MakesKinds ==
    ASSUME NEW c, NEW n, NEW f \in Frame, NEW kind \in Kinds, Makes(c, f, n, kind),
           Top.current = NULL, f.current = Allocated, FrameFits(f),
           c # NUL \/ f.saved = "finish"
    PROVE  MakesNode \/ ReturnsNew
<1> DEFINE m == Node(kind, f.text)
<1>1. m \in HeapNode /\ m.refs = 1 /\ m.kids = << >> /\ NewNode(m)
  BY DEF Makes, NewNode, Node, HeapNode, Frame, Kid
<1>2. CASE c # NUL
  BY <1>1, <1>2 DEF Makes, Turn, MakesNode, Replaces
<1>3. CASE c = NUL
  BY <1>1, <1>3 DEF Makes, Turn, ReturnsNew
<1> QED BY <1>2, <1>3

(* The fields of a frame that goes to another state.                       *)
LEMMA ToFits ==
    ASSUME Top \in Frame
    PROVE  /\ \A s \in States :
                 /\ To(s) \in Frame /\ To(s).state = s /\ To(s).saved = Top.saved
                 /\ To(s).current = Top.current /\ To(s).quote = Top.quote
           /\ \A s \in Goals :
                 /\ Then(s) \in Frame /\ Then(s).state = "eatws" /\ Then(s).saved = s
                 /\ Then(s).current = Top.current /\ Then(s).quote = Top.quote
<1>1. ASSUME NEW s \in States
      PROVE  /\ To(s) \in Frame /\ To(s).state = s /\ To(s).saved = Top.saved
             /\ To(s).current = Top.current /\ To(s).quote = Top.quote
  BY DEF To, Frame
<1>2. ASSUME NEW s \in Goals
      PROVE  /\ Then(s) \in Frame /\ Then(s).state = "eatws" /\ Then(s).saved = s
             /\ Then(s).current = Top.current /\ Then(s).quote = Top.quote
  BY DEF Then, Frame, States, Goals, Aside
<1> QED BY <1>1, <1>2

(* A text or a quote that is set leaves the other fields alone.            *)
LEMMA TextFits ==
    ASSUME NEW f \in Frame, NEW t \in Seq(Symbols)
    PROVE  LET g == [f EXCEPT !.text = t]
           IN  /\ g \in Frame /\ g.state = f.state /\ g.saved = f.saved
               /\ g.current = f.current /\ g.quote = f.quote
BY DEF Frame

LEMMA QuoteFits ==
    ASSUME NEW f \in Frame, NEW q \in Quotes, NEW t \in Seq(Symbols)
    PROVE  \A g \in {[f EXCEPT !.quote = q], [f EXCEPT !.quote = q, !.text = t]} :
               /\ g \in Frame /\ g.state = f.state /\ g.saved = f.saved
               /\ g.current = f.current /\ g.quote = q
BY DEF Frame

LEMMA CurrentFits ==
    ASSUME NEW f \in Frame, NEW o \in Int
    PROVE  LET g == [f EXCEPT !.current = o]
           IN  g \in Frame /\ g.state = f.state /\ g.saved = f.saved /\ g.current = o
BY DEF Frame

(* Each state's turn is of one of these kinds.                             *)
LEMMA TurnKinds ==
    ASSUME Shape, FramesFit, frames # << >>, NEW c \in Symbols, Turns(c)
    PROVE  Turned
<1>1. /\ Top \in Frame /\ FrameFits(Top)
  BY TopFits
<1>2. Allocated \in Int /\ Allocated > NULL
  BY DEF Shape, Allocated, NULL
<1> DEFINE Fitting(f) == f \in Frame /\ FrameFits(f) /\ f.current = Top.current
           FittingNew(f) == f \in Frame /\ FrameFits(f) /\ f.current = Allocated
<1>3. ASSUME NEW n, NEW f, Goes(c, f, n), Fitting(f) PROVE Turned
  BY <1>3, GoesKinds DEF Turned
<1>4. ASSUME NEW n, NEW f, NEW kind \in Kinds, Makes(c, f, n, kind), FittingNew(f),
             Top.current = NULL, c # NUL \/ f.saved = "finish"
      PROVE  Turned
  BY <1>4, MakesKinds DEF Turned
<1>5. ASSUME Refuses PROVE Turned
  BY <1>5, FailKinds DEF Refuses, Turned
<1>6. ASSUME Leaves, Top.current = NULL \/ Top.state = "object_field_end" PROVE Turned
  BY <1>6 DEF Leaves, Forgets, Turned
<1>7. ASSUME Call, Waiting(Top) PROVE Turned
  BY <1>7 DEF Call, Calls, Turned
<1>28. LET f == [Top EXCEPT !.text = Append(@, c)]
       IN  /\ f \in Frame /\ f.state = Top.state /\ f.saved = Top.saved
           /\ f.current = Top.current /\ f.quote = Top.quote
  <2>1. Append(Top.text, c) \in Seq(Symbols)
    BY <1>1 DEF Frame
  <2> QED BY <1>1, <2>1, TextFits
<1> HIDE DEF Fitting, FittingNew
<1>8. ASSUME EatWs(c) PROVE Turned
  <2>1. Top.state = "eatws" /\ Fitting(Top) /\ Fitting(To("comment_start"))
        /\ Fitting(To(Top.saved))
    BY <1>1, <1>8 DEF EatWs, To, Fitting, Frame, FrameFits, Aim, Aside, Empty, Filling, States, Goals
  <2> QED BY <1>3, <1>8, <2>1 DEF EatWs
<1>9. ASSUME Begin(c) PROVE Turned
  <2>1. Top.state = "start" /\ Top.current = NULL /\ Top.saved # "finish"
    BY <1>1, <1>9 DEF Begin, FrameFits, Aim, Aside, Empty
  <2>2. \A kind \in {"array", "object"} : FittingNew([Then(kind) EXCEPT !.current = Allocated])
    <3> SUFFICES ASSUME NEW kind \in {"array", "object"}
                 PROVE  FittingNew([Then(kind) EXCEPT !.current = Allocated])
      OBVIOUS
    <3> DEFINE f == [Then(kind) EXCEPT !.current = Allocated]
    <3>1. kind \in Goals
      BY DEF Goals, Filling
    <3>2. Then(kind) \in Frame /\ Then(kind).state = "eatws" /\ Then(kind).saved = kind
      BY <1>1, <3>1, ToFits
    <3>3. f \in Frame /\ f.state = "eatws" /\ f.saved = kind /\ f.current = Allocated
      BY <1>2, <3>2, CurrentFits
    <3> HIDE DEF f
    <3>4. FrameFits(f)
      BY <1>2, <3>3 DEF FrameFits, Aim, Aside, Empty, Filling
    <3>5. FittingNew(f)
      BY <3>3, <3>4 DEF FittingNew
    <3> QED BY <3>5 DEF f
  <2>3. c \in Quotes => Fitting([To("string") EXCEPT !.quote = c])
    BY <1>1, <2>1 DEF To, Fitting, Frame, FrameFits, Aim, Aside, Empty, Filling, States, Goals
  <2>4. \A state \in {"number", "null", "boolean"} : Fitting([To(state) EXCEPT !.text = <<c>>])
    <3> SUFFICES ASSUME NEW state \in {"number", "null", "boolean"}
                 PROVE  Fitting([To(state) EXCEPT !.text = <<c>>])
      OBVIOUS
    <3> DEFINE f == [To(state) EXCEPT !.text = <<c>>]
    <3>1. state \in States
      BY DEF States, Goals, Empty
    <3>2. f \in Frame /\ f.state = state /\ f.saved = Top.saved /\ f.current = Top.current
      <4>1. ASSUME NEW u \in Frame
            PROVE  LET g == [u EXCEPT !.text = <<c>>]
                   IN  /\ g \in Frame /\ g.state = u.state /\ g.saved = u.saved
                       /\ g.current = u.current
        <5>1. <<c>> \in Seq(Symbols)
          OBVIOUS
        <5> QED BY <5>1, TextFits
      <4> QED BY <1>1, <3>1, <4>1, ToFits
    <3> QED BY <2>1, <3>2 DEF Fitting, FrameFits, Aim, Aside, Filling
  <2>5. c \in {"{", "["} => c # NUL
    BY DEF NUL
  <2> QED BY <1>3, <1>4, <1>5, <1>9, <2>1, <2>2, <2>3, <2>4, <2>5 DEF Begin, Kinds
<1>10. ASSUME Finish(c) PROVE Turned
  BY <1>10 DEF Finish, ReturnsNode, Turned
<1>11. ASSUME Top.current = NULL PROVE Fitting(Found(NULL)) /\ FittingNew(Found(Allocated))
                                       /\ Found(Allocated).saved = "finish"
  BY <1>1, <1>2, <1>11 DEF Found, Then, Fitting, FittingNew, Frame, FrameFits, Aim, Aside, Empty,
                          Filling, States, Goals, NULL
<1>12. ASSUME Null(c) PROVE Turned
  <2>1. Top.current = NULL
    BY <1>1, <1>12 DEF Null, FrameFits, Aim, Aside, Empty
  <2> QED BY <1>3, <1>6, <1>11, <1>12, <2>1 DEF Null
<1>13. ASSUME Boolean(c) PROVE Turned
  <2>1. Top.current = NULL
    BY <1>1, <1>13 DEF Boolean, FrameFits, Aim, Aside, Empty
  <2> QED BY <1>4, <1>5, <1>11, <1>13, <2>1 DEF Boolean, Kinds
<1>14. ASSUME CommentStart(c) PROVE Turned
  <2>1. Fitting(To("comment")) /\ Fitting(To("comment_eol"))
    BY <1>1, <1>14 DEF CommentStart, To, Fitting, Frame, FrameFits, Aim, Aside, Empty, Filling, States, Goals
  <2> QED BY <1>3, <1>5, <1>14, <2>1 DEF CommentStart
<1>15. ASSUME Comment(c) PROVE Turned
  <2>1. Top.state \in {"comment", "comment_eol", "comment_end"}
    BY <1>15 DEF Comment
  <2>2. Fitting(Top) /\ \A state \in {"eatws", "comment", "comment_end"} : Fitting(To(state))
    BY <1>1, <2>1 DEF To, Fitting, Frame, FrameFits, Aim, Aside, Empty, Filling, States, Goals
  <2> QED BY <1>3, <1>15, <2>2 DEF Comment
<1>16. ASSUME InQuotes(c), Top.state \in {"string", "object_field"} PROVE Turned
  <2>1. Fitting([To("string_escape") EXCEPT !.saved = Top.state])
    BY <1>1, <1>16 DEF To, Fitting, Frame, FrameFits, Aim, Aside, Empty, Filling, States, Goals
  <2>2. Fitting([Top EXCEPT !.text = Append(@, c)])
    BY <1>1, <1>28 DEF Fitting, FrameFits, Aim
  <2> QED BY <1>3, <1>16, <2>1, <2>2 DEF InQuotes
<1>17. ASSUME String(c) PROVE Turned
  <2>1. Top.current = NULL
    BY <1>1, <1>17 DEF String, FrameFits, Aim, Aside, Empty
  <2> QED BY <1>4, <1>11, <1>16, <1>17, <2>1 DEF String, Kinds
<1>18. ASSUME Field(c) PROVE Turned
  <2>1. Fitting([Then("object_field_end") EXCEPT !.name = Top.text])
    BY <1>1, <1>18 DEF Field, Then, Fitting, Frame, FrameFits, Aim, Aside, Empty, Filling, States, Goals
  <2> QED BY <1>3, <1>16, <1>18, <2>1 DEF Field
<1>19. ASSUME Escape(c) PROVE Turned
  <2>1. Fitting([To(Top.saved) EXCEPT !.text = Append(@, c)])
    <3> DEFINE f == [To(Top.saved) EXCEPT !.text = Append(@, c)]
    <3>1. /\ f \in Frame /\ f.state = Top.saved /\ f.saved = Top.saved
          /\ f.current = Top.current /\ f.quote = Top.quote
      <4>1. ASSUME NEW u \in Frame
            PROVE  LET g == [u EXCEPT !.text = Append(@, c)]
                   IN  /\ g \in Frame /\ g.state = u.state /\ g.saved = u.saved
                       /\ g.current = u.current /\ g.quote = u.quote
        <5>1. Append(u.text, c) \in Seq(Symbols)
          BY DEF Frame
        <5> QED BY <5>1, TextFits
      <4>2. Top.saved \in States
        BY <1>1 DEF Frame, States
      <4> QED BY <1>1, <4>1, <4>2, ToFits
    <3>2. Top.state = "string_escape"
      BY <1>19 DEF Escape
    <3> QED BY <1>1, <3>1, <3>2 DEF Fitting, FrameFits, Aim, Aside
  <2> QED BY <1>3, <1>5, <1>19, <2>1 DEF Escape
<1>20. ASSUME Number(c) PROVE Turned
  <2>1. Top.current = NULL
    BY <1>1, <1>20 DEF Number, FrameFits, Aim, Aside, Empty
  <2>2. Fitting([Top EXCEPT !.text = Append(@, c)])
    BY <1>1, <1>28 DEF Fitting, FrameFits, Aim
  <2> QED BY <1>3, <1>4, <1>5, <1>11, <1>20, <2>1, <2>2 DEF Number, Kinds
(* In a container the object stays and the next state belongs to it.       *)
<1>21. ASSUME Top.state \in Filling
       PROVE  /\ \A saved \in {"array", "object", "object_value", "finish"} : Fitting(Then(saved))
              /\ Top.state = "object" => Fitting(To("object_field_start"))
              /\ c \in Quotes => Fitting([To("object_field") EXCEPT !.quote = c, !.text = << >>])
  <2>1. Top.current > NULL /\ Top.saved # "finish"
    BY <1>1, <1>21 DEF FrameFits, Aim, Aside, Filling
  <2>2. \A saved \in {"array", "object", "object_value", "finish"} : Fitting(Then(saved))
    <3> SUFFICES ASSUME NEW saved \in {"array", "object", "object_value", "finish"} PROVE Fitting(Then(saved))
      OBVIOUS
    <3>1. saved \in Goals
      BY DEF Goals, Filling
    <3>2. /\ Then(saved) \in Frame /\ Then(saved).state = "eatws" /\ Then(saved).saved = saved
          /\ Then(saved).current = Top.current /\ Then(saved).quote = Top.quote
      BY <1>1, <3>1, ToFits
    <3> QED BY <2>1, <3>2 DEF Fitting, FrameFits, Aim, Aside, Filling, Empty
  <2>3. Fitting(To("object_field_start"))
    BY <1>1, <2>1 DEF To, Fitting, Frame, FrameFits, Aim, Aside, Empty, Filling, States, Goals
  <2>4. c \in Quotes => Fitting([To("object_field") EXCEPT !.quote = c, !.text = << >>])
    <3>1. "object_field" \in States
      BY DEF States, Goals, Filling
    <3>2. /\ To("object_field") \in Frame /\ To("object_field").state = "object_field"
          /\ To("object_field").saved = Top.saved /\ To("object_field").current = Top.current
      BY <1>1, <3>1, ToFits
    <3>3. << >> \in Seq(Symbols)
      OBVIOUS
    <3>4. ASSUME c \in Quotes
          PROVE  LET g == [To("object_field") EXCEPT !.quote = c, !.text = << >>]
                 IN  /\ g \in Frame /\ g.state = "object_field" /\ g.saved = Top.saved
                     /\ g.current = Top.current /\ g.quote = c
      <4>1. ASSUME NEW u \in Frame, u.state = "object_field", u.saved = Top.saved,
                   u.current = Top.current
            PROVE  LET g == [u EXCEPT !.quote = c, !.text = << >>]
                   IN  /\ g \in Frame /\ g.state = "object_field" /\ g.saved = Top.saved
                       /\ g.current = Top.current /\ g.quote = c
        <5> DEFINE g == [u EXCEPT !.quote = c, !.text = << >>]
        <5>1. /\ g \in Frame /\ g.state = u.state /\ g.saved = u.saved
              /\ g.current = u.current /\ g.quote = c
          BY <3>3, <3>4, QuoteFits
        <5> QED BY <4>1, <5>1
      <4> QED BY <3>2, <4>1
    <3> QED BY <2>1, <3>4 DEF Fitting, FrameFits, Aim, Aside, Filling, Empty
  <2> QED BY <2>2, <2>3, <2>4
<1>22. ASSUME Array(c) \/ ArraySep(c) PROVE Turned
  <2>1. Top.state \in {"array", "array_sep"}
    BY <1>22 DEF Array, ArraySep
  <2>2. Fitting(Then("finish")) /\ Fitting(Then("array"))
    BY <1>21, <2>1 DEF Filling
  <2>3. CASE Array(c)
    BY <1>3, <1>7, <2>2, <2>3 DEF Array, Waiting
  <2>4. CASE ArraySep(c)
    <3>1. CASE c \in {"]", ","}
      BY <1>3, <2>2, <2>4, <3>1 DEF ArraySep
    <3>2. CASE c \notin {"]", ","}
      BY <2>4, <3>2 DEF ArraySep, Fails, Turned
    <3> QED BY <3>1, <3>2
  <2> QED BY <1>22, <2>3, <2>4
<1>23. ASSUME Object(c) PROVE Turned
  BY <1>3, <1>21, <1>23 DEF Object, Filling
<1>24. ASSUME FieldStart(c) PROVE Turned
  BY <1>3, <1>5, <1>21, <1>24 DEF FieldStart, Filling
<1>25. ASSUME FieldEnd(c) PROVE Turned
  BY <1>3, <1>6, <1>21, <1>25 DEF FieldEnd, Filling
<1>26. ASSUME FieldValue(c) PROVE Turned
  BY <1>7, <1>26 DEF FieldValue, Waiting
<1>27. ASSUME ObjectSep(c) PROVE Turned
  BY <1>3, <1>5, <1>21, <1>27 DEF ObjectSep, Filling
<1> QED BY <1>8, <1>9, <1>10, <1>12, <1>13, <1>14, <1>15, <1>17, <1>18, <1>19, <1>20, <1>22,
           <1>23, <1>24, <1>25, <1>26, <1>27 DEF Turns

(* A turn reads the symbol at pos, which is added to the source if it was  *)
(* not looked at before, and goes on at most one symbol.                   *)
LEMMA TurnReads ==
    ASSUME Shape, NEW c \in Symbols, Reads(c), Turns(c)
    PROVE  /\ input' \in Seq(Symbols) /\ input' \in {input, Append(input, c)}
           /\ pos \in 1..Len(input') /\ input'[pos] = c /\ pos' \in {pos, pos + 1}
<1>1. /\ input' \in Seq(Symbols) /\ input' \in {input, Append(input, c)}
      /\ pos \in 1..Len(input') /\ input'[pos] = c
  <2>0. input \in Seq(Symbols) /\ pos \in 1..Len(input) + 1
    BY DEF Shape
  <2>1. CASE pos <= Len(input) /\ c = input[pos] /\ UNCHANGED input
    BY <2>0, <2>1
  <2>2. CASE pos = Len(input) + 1 /\ input' = Append(input, c)
    BY <2>0, <2>2
  <2> QED BY <2>1, <2>2 DEF Reads
<1>2. \A f, n, k : Goes(c, f, n) \/ Makes(c, f, n, k) => pos' = pos + n
  BY DEF Goes, Makes, Turn
<1>3. Refuses \/ Leaves \/ Call => pos' = pos
  BY DEF Refuses, Leaves, Call
<1>4. pos + 0 = pos /\ pos \in Int
  BY DEF Shape
<1>5. EatWs(c) \/ Begin(c) \/ Finish(c) \/ Null(c) \/ Boolean(c) => pos' \in {pos, pos + 1}
  BY <1>2, <1>3, <1>4 DEF EatWs, Begin, Finish, Null, Boolean
<1>6. CommentStart(c) \/ Comment(c) \/ String(c) \/ Escape(c) \/ Number(c)
      => pos' \in {pos, pos + 1}
  BY <1>2, <1>3, <1>4 DEF CommentStart, Comment, String, InQuotes, Escape, Number
<1>7. Array(c) \/ ArraySep(c) \/ Object(c) \/ FieldStart(c) => pos' \in {pos, pos + 1}
  BY <1>2, <1>3, <1>4 DEF Array, ArraySep, Object, FieldStart
<1>8. Field(c) \/ FieldEnd(c) \/ FieldValue(c) \/ ObjectSep(c) => pos' \in {pos, pos + 1}
  BY <1>2, <1>3, <1>4 DEF Field, InQuotes, FieldEnd, FieldValue, ObjectSep
<1> QED BY <1>1, <1>5, <1>6, <1>7, <1>8 DEF Turns

-----------------------------------------------------------------------------
(* Sequences of frames and of nodes.                                       *)

LEMMA FrontFits ==
    ASSUME NEW S, NEW s \in Seq(S), s # << >>
    PROVE  /\ Front(s) \in Seq(S) /\ Len(Front(s)) = Len(s) - 1 /\ Len(s) > 0
           /\ \A i \in 1..Len(s) - 1 : Front(s)[i] = s[i]
<1>1. Len(s) \in Nat \ {0}
  BY EmptySeq
<1>2. /\ SubSeq(s, 1, Len(s) - 1) \in Seq(S) /\ Len(SubSeq(s, 1, Len(s) - 1)) = Len(s) - 1
      /\ \A i \in 1..Len(s) - 1 : SubSeq(s, 1, Len(s) - 1)[i] = s[i]
  <2> DEFINE n == Len(s) - 1
  <2>1. n \in Nat /\ \A i \in 1..n : s[i] \in S
    BY <1>1
  <2> HIDE DEF n
  <2>2. SubSeq(s, 1, n) \in Seq(S) /\ Len(SubSeq(s, 1, n)) = n
        /\ \A i \in 1..n : SubSeq(s, 1, n)[i] = s[i]
    BY <2>1
  <2> QED BY <2>2 DEF n
<1> QED BY <1>1, <1>2 DEF Front

LEMMA TailFits ==
    ASSUME NEW S, NEW s \in Seq(S), s # << >>
    PROVE  /\ Tail(s) \in Seq(S) /\ Len(Tail(s)) = Len(s) - 1
           /\ Head(s) = s[1] /\ Head(s) \in S /\ 1 \in DOMAIN s
           /\ \A i \in 1..Len(s) - 1 : Tail(s)[i] = s[i + 1]
OBVIOUS

LEMMA ReplaceFits ==
    ASSUME NEW s \in Seq(Frame), NEW f \in Frame, s # << >>
    PROVE  LET t == [s EXCEPT ![Len(s)] = f]
           IN  /\ t \in Seq(Frame) /\ Len(t) = Len(s) /\ DOMAIN t = DOMAIN s
               /\ Len(s) \in DOMAIN s /\ t[Len(s)] = f
               /\ \A i \in DOMAIN s : i # Len(s) => t[i] = s[i]
OBVIOUS

LEMMA NodeFits ==
    ASSUME NEW n \in HeapNode
    PROVE  /\ n.refs \in 0..1 /\ n.kids \in Seq(Kid)
           /\ \A kids \in Seq(Kid) :
                 LET m == [n EXCEPT !.kids = kids]
                 IN  m \in HeapNode /\ m.refs = n.refs /\ m.kind = n.kind /\ m.kids = kids
           /\ n.refs = 1 =>
                 LET m == [n EXCEPT !.refs = @ - 1]
                 IN  m \in HeapNode /\ m.refs = 0 /\ m.kind = n.kind /\ m.kids = n.kids
BY DEF HeapNode

(* Another list of values for a container.                                 *)
LEMMA KidsFit ==
    ASSUME NEW h \in Seq(HeapNode), NEW o \in DOMAIN h, NEW kids \in Seq(Kid)
    PROVE  LET g == [h EXCEPT ![o].kids = kids]
           IN  /\ g \in Seq(HeapNode) /\ Len(g) = Len(h) /\ DOMAIN g = DOMAIN h
               /\ \A c \in DOMAIN h :
                     /\ g[c].refs = h[c].refs /\ g[c].kind = h[c].kind
                     /\ g[c].kids = IF c = o THEN kids ELSE h[c].kids
<1>0. h[o] \in HeapNode
  BY ElementOfSeq
<1> DEFINE n == [h[o] EXCEPT !.kids = kids]
<1>1. n \in HeapNode /\ n.refs = h[o].refs /\ n.kind = h[o].kind /\ n.kids = kids
  BY <1>0, NodeFits
<1>2. [h EXCEPT ![o].kids = kids] = [h EXCEPT ![o] = n]
  OBVIOUS
<1> QED BY <1>1, <1>2, ExceptSeq

(* json_object_put() of a node that is alive.                              *)
LEMMA PutFits ==
    ASSUME NEW h \in Seq(HeapNode), NEW o \in DOMAIN h, h[o].refs > 0
    PROVE  /\ Put(h, o) \in Seq(HeapNode) /\ Len(Put(h, o)) = Len(h)
           /\ DOMAIN Put(h, o) = DOMAIN h /\ h[o].refs = 1
           /\ \A c \in DOMAIN h :
                 /\ Put(h, o)[c].refs = IF c = o THEN 0 ELSE h[c].refs
                 /\ Put(h, o)[c].kind = h[c].kind /\ Put(h, o)[c].kids = h[c].kids
<1>0. h[o] \in HeapNode
  BY ElementOfSeq
<1> DEFINE n == [h[o] EXCEPT !.refs = @ - 1]
<1>1. h[o].refs = 1
  <2>1. \A m \in HeapNode : m.refs \in 0..1
    BY DEF HeapNode
  <2>2. h[o].refs \in 0..1
    BY <1>0, <2>1
  <2> QED BY <2>2
<1>2. n \in HeapNode /\ n.refs = 0 /\ n.kind = h[o].kind /\ n.kids = h[o].kids
  BY <1>0, <1>1, NodeFits
<1>3. Put(h, o) = [h EXCEPT ![o] = n]
  BY DEF Put
<1> QED BY <1>1, <1>2, <1>3, ExceptSeq

LEMMA ValuesFit ==
    ASSUME NEW kids \in Seq(Kid)
    PROVE  /\ Values(kids) \in Seq(Int) /\ Len(Values(kids)) = Len(kids)
           /\ DOMAIN Values(kids) = DOMAIN kids
           /\ \A k \in DOMAIN kids : Values(kids)[k] = kids[k].val
<1>1. \A k \in 1..Len(kids) : kids[k].val \in Int
  <2>1. \A e \in Kid : e.val \in Int
    BY DEF Kid
  <2> QED BY <2>1, ElementOfSeq
<1> QED BY <1>1 DEF Values

(* One entry less, if there is one of the key.                             *)
LEMMA RemoveAtIs ==
    ASSUME NEW A, NEW kids \in Seq(A), NEW n \in DOMAIN kids
    PROVE  /\ RemoveAt(kids, n) \in Seq(A) /\ Len(RemoveAt(kids, n)) = Len(kids) - 1
           /\ \A k \in 1..Len(kids) - 1 :
                 RemoveAt(kids, n)[k] = kids[IF k < n THEN k ELSE k + 1]
<1> DEFINE s == SubSeq(kids, 1, n - 1)
           t == SubSeq(kids, n + 1, Len(kids))
<1>1. s \in Seq(A) /\ Len(s) = n - 1 /\ \A k \in 1..n - 1 : s[k] = kids[k]
  BY SubSeqProperties
<1>2. t \in Seq(A) /\ Len(t) = Len(kids) - n /\ \A k \in 1..Len(kids) - n : t[k] = kids[n + k]
  BY SubSeqProperties
<1>3. RemoveAt(kids, n) = s \o t
  BY DEF RemoveAt
<1> HIDE DEF s, t
<1>4. /\ s \o t \in Seq(A) /\ Len(s \o t) = Len(kids) - 1
      /\ \A k \in 1..Len(kids) - 1 : (s \o t)[k] = IF k <= Len(s) THEN s[k] ELSE t[k - Len(s)]
  <2>1. Len(s \o t) = Len(s) + Len(t) /\ s \o t \in Seq(A)
    BY <1>1, <1>2, ConcatProperties
  <2>2. \A k \in 1..Len(s) + Len(t) : (s \o t)[k] = IF k <= Len(s) THEN s[k] ELSE t[k - Len(s)]
    BY <1>1, <1>2, ConcatProperties
  <2>3. Len(s) + Len(t) = Len(kids) - 1
    BY <1>1, <1>2
  <2> QED BY <2>1, <2>2, <2>3
<1>5. ASSUME NEW k \in 1..Len(kids) - 1
      PROVE  (s \o t)[k] = kids[IF k < n THEN k ELSE k + 1]
  <2>1. CASE k < n
    BY <1>1, <1>2, <1>4, <2>1
  <2>2. CASE ~(k < n)
    <3>1. k - (n - 1) \in 1..Len(kids) - n /\ n + (k - (n - 1)) = k + 1
      BY <2>2
    <3>2. Len(s) = n - 1 /\ ~(k <= Len(s)) /\ k - Len(s) = k - (n - 1)
      BY <1>1, <2>2
    <3>3. (s \o t)[k] = t[k - (n - 1)]
      BY <1>4, <3>2
    <3> QED BY <1>2, <2>2, <3>1, <3>3
  <2> QED BY <2>1, <2>2
<1> QED BY <1>3, <1>4, <1>5

LEMMA RemoveAtFits ==
    ASSUME NEW kids \in Seq(Kid), NEW n \in DOMAIN kids
    PROVE  /\ RemoveAt(kids, n) \in Seq(Kid) /\ Len(RemoveAt(kids, n)) = Len(kids) - 1
           /\ \A k \in 1..Len(kids) - 1 :
                 RemoveAt(kids, n)[k] = kids[IF k < n THEN k ELSE k + 1]
BY RemoveAtIs

LEMMA FindFits ==
    ASSUME NEW kids \in Seq(Kid), NEW key, HasKey(kids, key)
    PROVE  Find(kids, key) \in DOMAIN kids
BY DEF HasKey, Find

-----------------------------------------------------------------------------
(* The structure of the parser's state.                                    *)

SInv == Shape /\ InRange(frames, ret, todo, heap) /\ FramesFit /\ Phase

(* What a step of the parser leaves alone or keeps in shape.               *)
Parsing ==
    /\ step = "parse" /\ todo = << >> /\ frames # << >>
    /\ input' \in Seq(Symbols) /\ pos' \in 1..Len(input') + 1
    /\ UNCHANGED <<family, step, result, fault>>

LEMMA FailedFits ==
    ASSUME Shape, FramesFit, frames # << >>, FailedHere
    PROVE  failedIn' \in States \cup {"none"}
<1>1. Top.state \in States
  BY TopFits DEF Frame
<1> QED BY <1>1 DEF FailedHere, Shape

(* The pointers stay in range when the heap grows.                         *)
LEMMA GrowRange ==
    ASSUME NEW h \in Seq(HeapNode), NEW n \in HeapNode, n.kids = << >>,
           NEW fs \in Seq(Frame), NEW r, InRange(fs, r, << >>, h)
    PROVE  /\ Append(h, n) \in Seq(HeapNode) /\ Len(Append(h, n)) = Len(h) + 1
           /\ InRange(fs, r, << >>, Append(h, n))
           /\ \A i \in DOMAIN h : Append(h, n)[i] = h[i]
           /\ Append(h, n)[Len(h) + 1] = n
<1>1. /\ Append(h, n) \in Seq(HeapNode) /\ Len(Append(h, n)) = Len(h) + 1
      /\ \A i \in DOMAIN h : Append(h, n)[i] = h[i]
      /\ Append(h, n)[Len(h) + 1] = n /\ DOMAIN Append(h, n) = 1..Len(h) + 1
      /\ DOMAIN h = 1..Len(h) /\ Len(h) \in Nat
  OBVIOUS
<1> DEFINE g == Append(h, n)
<1> HIDE DEF g
<1>2. ASSUME NEW c \in DOMAIN g, NEW k \in DOMAIN g[c].kids
      PROVE  g[c].kids[k].val \in Truncated..Len(g)
  <2>1. CASE c \in DOMAIN h
    BY <1>1, <1>2, <2>1 DEF g, InRange, Truncated
  <2>2. CASE c = Len(h) + 1
    BY <1>1, <1>2, <2>2 DEF g
  <2> QED BY <1>1, <2>1, <2>2 DEF g
<1>3. \A i \in DOMAIN fs : fs[i].current \in 0..Len(g)
  BY <1>1 DEF g, InRange
<1>4. r \in NoValue..Len(g)
  BY <1>1 DEF g, InRange, NoValue
<1> QED BY <1>1, <1>2, <1>3, <1>4 DEF g, InRange

(* A frame less, and its value for the caller.                             *)
LEMMA ReturnS ==
    ASSUME Shape, FramesFit, frames # << >>,
           NEW p \in Int, p # NoValue, Return(p)
    PROVE  /\ frames' \in Seq(Frame) /\ ret' = p /\ FramesFit'
           /\ Len(frames') = Len(frames) - 1
           /\ \A i \in DOMAIN frames' : i \in DOMAIN frames /\ frames'[i] = frames[i]
<1>1. /\ frames' \in Seq(Frame) /\ Len(frames') = Len(frames) - 1 /\ Len(frames) > 0
      /\ \A i \in 1..Len(frames) - 1 : frames'[i] = frames[i]
  BY FrontFits DEF Return, Shape
<1>2. DOMAIN frames = 1..Len(frames) /\ DOMAIN frames' = 1..Len(frames) - 1
      /\ Len(frames) \in Nat
  BY <1>1 DEF Shape
<1> QED BY <1>1, <1>2 DEF Return, FramesFit

(* Another innermost frame, when no value waits to be looked at.           *)
LEMMA ReplaceS ==
    ASSUME Shape, FramesFit, frames # << >>, ret' = NoValue,
           NEW f \in Frame, FrameFits(f), Replaces(f)
    PROVE  /\ frames' \in Seq(Frame) /\ FramesFit' /\ Len(frames') = Len(frames)
           /\ DOMAIN frames' = DOMAIN frames /\ Len(frames) \in DOMAIN frames
           /\ frames'[Len(frames)] = f
           /\ \A i \in DOMAIN frames : i # Len(frames) => frames'[i] = frames[i]
<1>1. /\ frames' \in Seq(Frame) /\ Len(frames') = Len(frames)
      /\ DOMAIN frames' = DOMAIN frames /\ Len(frames) \in DOMAIN frames
      /\ frames'[Len(frames)] = f
      /\ \A i \in DOMAIN frames : i # Len(frames) => frames'[i] = frames[i]
  BY ReplaceFits DEF Replaces, Shape
<1>2. DOMAIN frames = 1..Len(frames) /\ Len(frames) \in Nat
  BY DEF Shape
<1>3. ASSUME NEW i \in DOMAIN frames' PROVE FrameFits(frames'[i])
  BY <1>1 DEF FramesFit
<1>4. ASSUME NEW i \in DOMAIN frames', i < Len(frames') PROVE Waiting(frames'[i])
  BY <1>1, <1>2, <1>4 DEF FramesFit
<1> QED BY <1>1, <1>3, <1>4 DEF FramesFit

LEMMA NewFrameFits == NewFrame \in Frame /\ FrameFits(NewFrame) /\ NewFrame.current = NULL
<1>1. NewFrame \in Frame
  <2>1. << >> \in Seq(Symbols)
    OBVIOUS
  <2> QED BY <2>1 DEF NewFrame, Frame, States, Goals, Aside, Empty, NULL
<1> QED BY <1>1 DEF NewFrame, FrameFits, Aim, Aside, Empty, Filling

(* A call entered for a value.                                             *)
LEMMA CallS ==
    ASSUME Shape, FramesFit, frames = << >> \/ Waiting(Top), ret' = NoValue,
           frames' = Append(frames, NewFrame)
    PROVE  /\ frames' \in Seq(Frame) /\ FramesFit' /\ Len(frames') = Len(frames) + 1
           /\ frames'[Len(frames) + 1] = NewFrame
           /\ \A i \in DOMAIN frames : i \in DOMAIN frames' /\ frames'[i] = frames[i]
           /\ \A i \in DOMAIN frames' : i \in DOMAIN frames \/ i = Len(frames) + 1
<1>1. DOMAIN frames = 1..Len(frames) /\ Len(frames) \in Nat /\ frames \in Seq(Frame)
  BY DEF Shape
<1>2. /\ frames' \in Seq(Frame) /\ Len(frames') = Len(frames) + 1
      /\ DOMAIN frames' = 1..Len(frames) + 1
      /\ frames'[Len(frames) + 1] = NewFrame
      /\ \A i \in 1..Len(frames) : frames'[i] = frames[i]
  BY <1>1, NewFrameFits
<1>3. ASSUME NEW i \in DOMAIN frames' PROVE FrameFits(frames'[i])
  BY <1>1, <1>2, NewFrameFits DEF FramesFit
<1>4. ASSUME NEW i \in DOMAIN frames', i < Len(frames') PROVE Waiting(frames'[i])
  <2>1. CASE i < Len(frames)
    BY <1>1, <1>2, <2>1 DEF FramesFit
  <2>2. CASE i = Len(frames)
    <3>1. frames # << >> /\ Top = frames[i]
      BY <1>1, <1>2, <2>2 DEF Top, Last
    <3> QED BY <1>1, <1>2, <2>2, <3>1
  <2> QED BY <1>1, <1>2, <1>4, <2>1, <2>2
<1> QED BY <1>1, <1>2, <1>3, <1>4 DEF FramesFit

(* A call that fails keeps the structure.                                  *)
LEMMA FailsS ==
    ASSUME SInv, Parsing, Fails
    PROVE  SInv'
<1> USE DEF NULL, ErrorPtr, Truncated, NoValue
<1>1. Top \in Frame /\ Len(frames) \in DOMAIN frames /\ Top = frames[Len(frames)]
  BY TopFits DEF SInv, Parsing
<1>2. Top.current \in 0..Len(heap) /\ Len(heap) \in Nat
  BY <1>1 DEF SInv, InRange, Shape
<1>3. PICK p \in {ErrorPtr, Truncated} :
          Return(p) /\ todo' = <<Top.current>> /\ FailedHere /\ UNCHANGED heap
  BY DEF Fails
<1>4. /\ frames' \in Seq(Frame) /\ ret' = p /\ FramesFit'
      /\ \A i \in DOMAIN frames' : i \in DOMAIN frames /\ frames'[i] = frames[i]
  BY <1>3, ReturnS DEF SInv, Parsing
<1>5. InRange(frames', ret', todo', heap')
  BY <1>2, <1>3, <1>4 DEF SInv, InRange
<1>6. failedIn' \in States \cup {"none"}
  BY <1>3, FailedFits DEF SInv, Parsing
<1> QED BY <1>2, <1>3, <1>4, <1>5, <1>6 DEF SInv, Shape, Phase, Parsing

(* A turn of the loop keeps the structure.                                 *)
LEMMA TurnedS ==
    ASSUME SInv, Parsing, ret = NoValue, Turned
    PROVE  SInv'
<1> USE DEF NULL, ErrorPtr, Truncated, NoValue
<1>1. /\ Top \in Frame /\ FrameFits(Top) /\ Len(frames) \in DOMAIN frames
      /\ Top = frames[Len(frames)]
  BY TopFits DEF SInv, Parsing
<1>2. Top.current \in 0..Len(heap) /\ Len(heap) \in Nat
  BY <1>1 DEF SInv, InRange, Shape
<1>3. ASSUME heap' \in Seq(HeapNode), InRange(frames', ret', todo', heap'), FramesFit',
             frames' \in Seq(Frame), todo' \in Seq(Int), ret' \in Int,
             failedIn' \in States \cup {"none"}
      PROVE  SInv'
  BY <1>3 DEF SInv, Shape, Phase, Parsing
<1>4. ASSUME FailedHere PROVE failedIn' \in States \cup {"none"}
  BY <1>4, FailedFits DEF SInv, Parsing
<1>5. CASE KeepsNode
  <2>1. PICK f \in Frame : f.current = Top.current /\ FrameFits(f) /\ Replaces(f)
                           /\ UNCHANGED <<ret, heap, todo, failedIn>>
    BY <1>5 DEF KeepsNode
  <2>2. /\ frames' \in Seq(Frame) /\ FramesFit' /\ DOMAIN frames' = DOMAIN frames
        /\ frames'[Len(frames)] = f
        /\ \A i \in DOMAIN frames : i # Len(frames) => frames'[i] = frames[i]
    BY <2>1, ReplaceS DEF SInv, Parsing
  <2>3. InRange(frames', ret', todo', heap')
    BY <1>2, <2>1, <2>2 DEF SInv, InRange
  <2> QED BY <1>3, <2>1, <2>2, <2>3 DEF SInv, Shape
<1>6. CASE MakesNode
  <2>1. PICK f \in Frame, n \in HeapNode :
            /\ f.current = Allocated /\ FrameFits(f) /\ Replaces(f)
            /\ n.kids = << >> /\ NewNode(n) /\ UNCHANGED <<ret, todo, failedIn>>
    BY <1>6 DEF MakesNode
  <2>2. /\ frames' \in Seq(Frame) /\ FramesFit' /\ DOMAIN frames' = DOMAIN frames
        /\ frames'[Len(frames)] = f
        /\ \A i \in DOMAIN frames : i # Len(frames) => frames'[i] = frames[i]
    BY <2>1, ReplaceS DEF SInv, Parsing
  <2>3. heap' \in Seq(HeapNode) /\ Len(heap') = Len(heap) + 1
        /\ InRange(frames, ret, todo, heap')
    BY <2>1, GrowRange DEF SInv, Shape, Parsing, NewNode
  <2>4. InRange(frames', ret', todo', heap')
    BY <1>2, <2>1, <2>2, <2>3 DEF InRange, Allocated
  <2> QED BY <1>3, <2>1, <2>2, <2>3, <2>4 DEF SInv, Shape
<1>7. CASE ReturnsNode
  <2>1. /\ frames' \in Seq(Frame) /\ ret' = Top.current /\ FramesFit'
        /\ \A i \in DOMAIN frames' : i \in DOMAIN frames /\ frames'[i] = frames[i]
    BY <1>2, <1>7, ReturnS DEF SInv, Parsing, ReturnsNode
  <2>2. UNCHANGED <<heap, todo, failedIn>>
    BY <1>7 DEF ReturnsNode
  <2>3. InRange(frames', ret', todo', heap')
    BY <1>2, <2>1, <2>2 DEF SInv, InRange
  <2> QED BY <1>2, <1>3, <2>1, <2>2, <2>3 DEF SInv, Shape
<1>8. CASE ReturnsNew
  <2>1. PICK n \in HeapNode :
            Return(Allocated) /\ n.kids = << >> /\ NewNode(n) /\ UNCHANGED <<todo, failedIn>>
    BY <1>8 DEF ReturnsNew
  <2>2. /\ frames' \in Seq(Frame) /\ ret' = Allocated /\ FramesFit'
        /\ \A i \in DOMAIN frames' : i \in DOMAIN frames /\ frames'[i] = frames[i]
    BY <1>2, <2>1, ReturnS DEF SInv, Parsing, Allocated
  <2>3. heap' \in Seq(HeapNode) /\ Len(heap') = Len(heap) + 1
        /\ InRange(frames, ret, todo, heap')
    BY <2>1, GrowRange DEF SInv, Shape, Parsing, NewNode
  <2>4. InRange(frames', ret', todo', heap')
    BY <1>2, <2>1, <2>2, <2>3 DEF InRange, Allocated
  <2> QED BY <1>2, <1>3, <2>1, <2>2, <2>3, <2>4 DEF SInv, Shape, Allocated
<1>9. CASE Fails
  BY <1>9, FailsS
<1>10. CASE Forgets
  <2>1. /\ frames' \in Seq(Frame) /\ ret' = ErrorPtr /\ FramesFit'
        /\ \A i \in DOMAIN frames' : i \in DOMAIN frames /\ frames'[i] = frames[i]
    BY <1>10, ReturnS DEF SInv, Parsing, Forgets
  <2>2. FailedHere /\ UNCHANGED <<heap, todo>>
    BY <1>10 DEF Forgets
  <2>3. InRange(frames', ret', todo', heap')
    BY <1>2, <2>1, <2>2 DEF SInv, InRange
  <2> QED BY <1>3, <1>4, <2>1, <2>2, <2>3 DEF SInv, Shape
<1>11. CASE Calls
  <2>1. UNCHANGED <<ret, heap, todo, failedIn>>
    BY <1>11 DEF Calls
  <2>2. /\ frames' \in Seq(Frame) /\ FramesFit' /\ frames'[Len(frames) + 1] = NewFrame
        /\ \A i \in DOMAIN frames : i \in DOMAIN frames' /\ frames'[i] = frames[i]
        /\ \A i \in DOMAIN frames' : i \in DOMAIN frames \/ i = Len(frames) + 1
    BY <1>11, <2>1, CallS DEF SInv, Parsing, Calls
  <2>3. InRange(frames', ret', todo', heap')
    BY <1>2, <2>1, <2>2, NewFrameFits DEF SInv, InRange
  <2> QED BY <1>3, <2>1, <2>2, <2>3 DEF SInv, Shape
<1> QED BY <1>5, <1>6, <1>7, <1>8, <1>9, <1>10, <1>11 DEF Turned

-----------------------------------------------------------------------------
(* A value goes into the container of the call that waited for it.         *)

Adds(key, kids, td) ==
    /\ heap' = [heap EXCEPT ![Top.current].kids = Append(kids, Entry(key, ret))]
    /\ todo' = td
AddsLast == \E key \in Seq(Symbols) : Adds(key, heap[Top.current].kids, << >>)
AddsInstead ==
    \E key \in Seq(Symbols), n \in DOMAIN heap[Top.current].kids :
        Adds(key, RemoveAt(heap[Top.current].kids, n), <<heap[Top.current].kids[n].val>>)
Added ==
    /\ AddsLast \/ AddsInstead
    /\ \E f \in Frame : f.current = Top.current /\ FrameFits(f) /\ Replaces(f)
    /\ ret' = NoValue /\ UNCHANGED failedIn

LEMMA AddKinds ==
    ASSUME Shape, FramesFit, todo = << >>, frames # << >>, AddItem \/ AddField
    PROVE  Added /\ Waiting(Top) /\ Top.current > NULL /\ ret # ErrorPtr
<1>1. /\ Top \in Frame /\ FrameFits(Top)
  BY TopFits
<1>2. Waiting(Top) /\ ret # ErrorPtr
  BY DEF AddItem, AddField, Waiting, IsError
<1>3. Top.current > NULL /\ Top.saved # "finish"
  BY <1>1, <1>2 DEF Waiting, FrameFits, Aim, Aside, Filling
<1>4. ASSUME NEW saved \in {"array_sep", "object_sep"}, GoesOn(saved)
      PROVE  /\ \E f \in Frame : f.current = Top.current /\ FrameFits(f) /\ Replaces(f)
             /\ ret' = NoValue /\ UNCHANGED failedIn
  <2>1. saved \in Goals
    BY DEF Goals, Filling
  <2>2. /\ Then(saved) \in Frame /\ Then(saved).state = "eatws" /\ Then(saved).saved = saved
        /\ Then(saved).current = Top.current
    BY <1>1, <2>1, ToFits
  <2>3. FrameFits(Then(saved))
    BY <1>3, <2>2 DEF FrameFits, Aim, Aside, Empty, Filling
  <2> QED BY <1>4, <2>2, <2>3 DEF GoesOn, Replaces
<1>5. CASE AddItem
  <2>1. AddsLast
    <3>1. << >> \in Seq(Symbols)
      OBVIOUS
    <3>2. heap' = [heap EXCEPT ![Top.current].kids = Append(heap[Top.current].kids, Entry(<< >>, ret))]
      BY <1>5 DEF AddItem, ArrayAdd
    <3> QED BY <1>5, <3>1, <3>2 DEF AddItem, AddsLast, Adds
  <2>2. GoesOn("array_sep")
    BY <1>5 DEF AddItem
  <2> QED BY <1>2, <1>3, <1>4, <2>1, <2>2 DEF Added
<1>6. CASE AddField
  <2> DEFINE kids == heap[Top.current].kids
             key == Top.name
  <2>1. key \in Seq(Symbols)
    BY <1>1 DEF Frame
  <2>2. heap' = [heap EXCEPT ![Top.current].kids = Append(Without(kids, key), Entry(key, ret))]
        /\ todo' = Values(Under(kids, key))
    BY <1>6 DEF AddField, ObjectAdd, Displaced
  <2>3. ASSUME HasKey(kids, key) PROVE AddsInstead
    <3> DEFINE n == Find(kids, key)
    <3>1. n \in DOMAIN kids
      BY <2>3 DEF HasKey, Find
    <3>2. Without(kids, key) = RemoveAt(kids, n)
      BY <2>3 DEF Without
    <3>3. Values(Under(kids, key)) = <<kids[n].val>>
      BY <2>3 DEF Under, Values
    <3>4. Adds(key, RemoveAt(kids, n), <<kids[n].val>>)
      BY <2>2, <3>2, <3>3 DEF Adds
    <3> QED BY <2>1, <3>1, <3>4 DEF AddsInstead
  <2>4. ASSUME ~HasKey(kids, key) PROVE AddsLast
    <3>1. Without(kids, key) = kids
      BY <2>4 DEF Without
    <3>2. Values(Under(kids, key)) = << >>
      BY <2>4 DEF Under, Values
    <3>3. Adds(key, kids, << >>)
      BY <2>2, <3>1, <3>2 DEF Adds
    <3> QED BY <2>1, <3>3 DEF AddsLast
  <2>5. GoesOn("object_sep")
    BY <1>6 DEF AddField
  <2> QED BY <1>2, <1>3, <1>4, <2>3, <2>4, <2>5 DEF Added
<1> QED BY <1>5, <1>6

(* The container's values afterwards: the new one is the last, the others  *)
(* keep their order, and at most one of them, the n-th, waits to be put.   *)
(* Without one to be put, n is one beyond them.                            *)
Grown(old, n, r, new, td) ==
    /\ new \in Seq(Kid) /\ Len(new) > 0 /\ new[Len(new)].val = r
    /\ n \in 1..Len(old) + 1
    /\ \A k \in 1..Len(new) - 1 :
          LET l == IF k < n THEN k ELSE k + 1
          IN  l \in DOMAIN old /\ new[k] = old[l]
    /\ \A l \in DOMAIN old : l # n => (IF l < n THEN l ELSE l - 1) \in 1..Len(new) - 1
    /\ IF n \in DOMAIN old THEN td = <<old[n].val>> ELSE td = << >>

LEMMA AddedGrows ==
    ASSUME Shape, Top.current \in DOMAIN heap, AddsLast \/ AddsInstead
    PROVE  \E n \in Int, new \in Seq(Kid) :
               /\ Grown(heap[Top.current].kids, n, ret, new, todo')
               /\ heap' = [heap EXCEPT ![Top.current].kids = new]
<1> DEFINE old == heap[Top.current].kids
<1>1. old \in Seq(Kid)
  <2>1. heap[Top.current] \in HeapNode
    BY DEF Shape
  <2> QED BY <2>1 DEF HeapNode
<1>2. \A key \in Seq(Symbols) : Entry(key, ret) \in Kid /\ Entry(key, ret).val = ret
  BY DEF Shape, Entry, Kid
<1> HIDE DEF old
<1>3. CASE AddsLast
  <2>1. PICK key \in Seq(Symbols) : Adds(key, old, << >>)
    BY <1>3 DEF AddsLast, old
  <2> DEFINE new == Append(old, Entry(key, ret))
  <2>2. /\ new \in Seq(Kid) /\ Len(new) = Len(old) + 1 /\ new[Len(new)].val = ret
        /\ \A k \in 1..Len(old) : new[k] = old[k]
    BY <1>1, <1>2
  <2>3. Grown(old, Len(old) + 1, ret, new, todo')
    <3> HIDE DEF new
    <3> QED BY <1>1, <2>1, <2>2 DEF Grown, Adds
  <2>4. heap' = [heap EXCEPT ![Top.current].kids = new]
    BY <2>1 DEF Adds
  <2>5. new \in Seq(Kid) /\ Len(old) + 1 \in Int
    BY <1>1, <2>2
  <2> HIDE DEF new
  <2> QED BY <2>3, <2>4, <2>5 DEF old
<1>4. CASE AddsInstead
  <2>1. PICK key \in Seq(Symbols), n \in DOMAIN old : Adds(key, RemoveAt(old, n), <<old[n].val>>)
    BY <1>4 DEF AddsInstead, old
  <2> DEFINE less == RemoveAt(old, n)
             new == Append(less, Entry(key, ret))
  <2>2. /\ less \in Seq(Kid) /\ Len(less) = Len(old) - 1
        /\ \A k \in 1..Len(old) - 1 : less[k] = old[IF k < n THEN k ELSE k + 1]
    BY <1>1, RemoveAtFits
  <2> HIDE DEF less
  <2>3. /\ new \in Seq(Kid) /\ Len(new) = Len(old) /\ new[Len(new)].val = ret
        /\ \A k \in 1..Len(old) - 1 : new[k] = less[k]
    BY <1>1, <1>2, <2>2
  <2> HIDE DEF new
  <2>4. Grown(old, n, ret, new, todo')
    <3>1. n \in 1..Len(old) /\ Len(old) \in Nat /\ DOMAIN old = 1..Len(old)
      BY <1>1
    <3>2. \A k \in 1..Len(new) - 1 :
              LET l == IF k < n THEN k ELSE k + 1
              IN  l \in DOMAIN old /\ new[k] = old[l]
      BY <2>2, <2>3, <3>1
    <3>3. \A l \in DOMAIN old : l # n => (IF l < n THEN l ELSE l - 1) \in 1..Len(new) - 1
      BY <2>3, <3>1
    <3> QED BY <2>1, <2>3, <3>1, <3>2, <3>3 DEF Grown, Adds
  <2>5. heap' = [heap EXCEPT ![Top.current].kids = new]
    BY <2>1 DEF Adds, new, less
  <2>6. n \in Int
    BY <1>1
  <2> QED BY <2>3, <2>4, <2>5, <2>6 DEF old
<1> QED BY <1>3, <1>4

-----------------------------------------------------------------------------
(* The structure is kept by every step.                                    *)

(* The structure asks nothing else of a step that leaves the parser alone. *)
LEMMA KidInRange ==
    ASSUME NEW h \in Seq(HeapNode), NEW c \in DOMAIN h
    PROVE  h[c] \in HeapNode /\ h[c].kids \in Seq(Kid) /\ h[c].refs \in 0..1
<1>1. h[c] \in HeapNode
  BY ElementOfSeq
<1> QED BY <1>1, NodeFits

LEMMA AddedS ==
    ASSUME SInv, Parsing, Added, Top.current > NULL, ret # NoValue
    PROVE  SInv'
<1> USE DEF NULL, ErrorPtr, Truncated, NoValue
<1>1. /\ Top \in Frame /\ Len(frames) \in DOMAIN frames /\ Top = frames[Len(frames)]
      /\ frames \in Seq(Frame) /\ heap \in Seq(HeapNode)
  BY TopFits DEF SInv, Parsing, Shape
<1> DEFINE o == Top.current
           old == heap[o].kids
<1>2. o \in DOMAIN heap /\ Len(heap) \in Nat /\ DOMAIN heap = 1..Len(heap)
      /\ old \in Seq(Kid)
  <2>1. o \in 0..Len(heap) /\ Len(heap) \in Nat /\ DOMAIN heap = 1..Len(heap)
    BY <1>1 DEF SInv, InRange
  <2> QED BY <1>1, <2>1, KidInRange
<1> HIDE DEF o, old
<1>3. PICK n \in Int, new \in Seq(Kid) :
          Grown(old, n, ret, new, todo') /\ heap' = [heap EXCEPT ![o].kids = new]
  BY <1>2, AddedGrows DEF SInv, Added, o, old
<1>4. /\ heap' \in Seq(HeapNode) /\ Len(heap') = Len(heap) /\ DOMAIN heap' = DOMAIN heap
      /\ \A c \in DOMAIN heap : heap'[c].kids = IF c = o THEN new ELSE heap[c].kids
  BY <1>1, <1>2, <1>3, KidsFit
<1>5. PICK f \in Frame : f.current = o /\ FrameFits(f) /\ Replaces(f)
  BY DEF Added, o
<1>6. ret' = NoValue /\ UNCHANGED failedIn
  BY DEF Added
<1>7. /\ frames' \in Seq(Frame) /\ FramesFit' /\ DOMAIN frames' = DOMAIN frames
      /\ frames'[Len(frames)] = f
      /\ \A i \in DOMAIN frames : i # Len(frames) => frames'[i] = frames[i]
  BY <1>5, <1>6, ReplaceS DEF SInv, Parsing
<1>8. \A k \in DOMAIN new : new[k].val \in Truncated..Len(heap)
  <2>1. \A l \in DOMAIN old : old[l].val \in Truncated..Len(heap)
    BY <1>2 DEF SInv, InRange, old
  <2>2. ret \in Truncated..Len(heap)
    BY <1>2 DEF SInv, InRange
  <2>3. \A k \in 1..Len(new) - 1 : new[k].val \in Truncated..Len(heap)
    BY <1>3, <2>1 DEF Grown
  <2>4. DOMAIN new = 1..Len(new) /\ Len(new) \in Nat /\ new[Len(new)].val = ret
    BY <1>3 DEF Grown
  <2> QED BY <2>2, <2>3, <2>4
<1>9. todo' \in Seq(Int) /\ \A i \in DOMAIN todo' : todo'[i] \in Truncated..Len(heap)
  <2>1. \A l \in DOMAIN old : old[l].val \in Truncated..Len(heap)
    BY <1>2 DEF SInv, InRange, old
  <2>2. CASE n \in DOMAIN old
    <3>1. old[n].val \in Truncated..Len(heap) /\ old[n].val \in Int
      BY <1>2, <2>1, <2>2
    <3>2. todo' = <<old[n].val>>
      BY <1>3, <2>2 DEF Grown
    <3> QED BY <3>1, <3>2
  <2>3. CASE n \notin DOMAIN old
    BY <1>3, <2>3 DEF Grown
  <2> QED BY <2>2, <2>3
<1>10. InRange(frames', ret', todo', heap')
  <2>1. \A i \in DOMAIN frames' : frames'[i].current \in 0..Len(heap')
    BY <1>1, <1>2, <1>4, <1>5, <1>7 DEF SInv, InRange, o
  <2>2. \A c \in DOMAIN heap' : \A k \in DOMAIN heap'[c].kids :
            heap'[c].kids[k].val \in Truncated..Len(heap')
    BY <1>2, <1>4, <1>8 DEF SInv, InRange
  <2>3. ret' \in NoValue..Len(heap')
    BY <1>2, <1>4, <1>6
  <2> QED BY <1>4, <1>9, <2>1, <2>2, <2>3 DEF InRange
<1> QED BY <1>2, <1>4, <1>6, <1>7, <1>9, <1>10 DEF SInv, Shape, Phase, Parsing

LEMMA ConcatInts ==
    ASSUME NEW s \in Seq(Int), NEW t \in Seq(Int)
    PROVE  /\ s \o t \in Seq(Int) /\ Len(s \o t) = Len(s) + Len(t)
           /\ \A i \in 1..Len(s) + Len(t) :
                 (s \o t)[i] = IF i <= Len(s) THEN s[i] ELSE t[i - Len(s)]
OBVIOUS

(* What json_object_put() leaves to be put is in range.                    *)
LEMMA PutNextFits ==
    ASSUME NEW h \in Seq(HeapNode), NEW td \in Seq(Int), td # << >>,
           NEW p \in DOMAIN h, h[p].refs = 1
    PROVE  /\ PutNext(h, p) \o Tail(td) \in Seq(Int)
           /\ Len(PutNext(h, p) \o Tail(td)) = Len(h[p].kids) + Len(td) - 1
           /\ Len(h[p].kids) \in Nat /\ DOMAIN h[p].kids = 1..Len(h[p].kids)
           /\ Len(td) \in Nat
           /\ \A i \in 1..Len(h[p].kids) :
                 (PutNext(h, p) \o Tail(td))[i] = h[p].kids[i].val
           /\ \A i \in 1..Len(td) - 1 :
                 (PutNext(h, p) \o Tail(td))[Len(h[p].kids) + i] = td[i + 1]
<1> DEFINE kids == h[p].kids
           vals == Values(kids)
           rest == Tail(td)
<1>1. kids \in Seq(Kid)
  BY KidInRange
<1>2. /\ vals \in Seq(Int) /\ Len(vals) = Len(kids) /\ DOMAIN vals = DOMAIN kids
      /\ \A k \in DOMAIN kids : vals[k] = kids[k].val
  BY <1>1, ValuesFit
<1>3. PutNext(h, p) = vals
  BY DEF PutNext
<1>4. /\ rest \in Seq(Int) /\ Len(rest) = Len(td) - 1
      /\ \A i \in 1..Len(td) - 1 : rest[i] = td[i + 1]
  BY TailFits
<1>5. Len(kids) \in Nat /\ DOMAIN kids = 1..Len(kids) /\ Len(td) \in Nat \ {0}
  BY <1>1, EmptySeq
<1> HIDE DEF kids, vals, rest
<1>6. /\ vals \o rest \in Seq(Int) /\ Len(vals \o rest) = Len(kids) + Len(td) - 1
      /\ \A i \in 1..Len(kids) : (vals \o rest)[i] = kids[i].val
      /\ \A i \in 1..Len(td) - 1 : (vals \o rest)[Len(kids) + i] = rest[i]
  <2>1. /\ vals \o rest \in Seq(Int) /\ Len(vals \o rest) = Len(vals) + Len(rest)
        /\ \A i \in 1..Len(vals) + Len(rest) :
              (vals \o rest)[i] = IF i <= Len(vals) THEN vals[i] ELSE rest[i - Len(vals)]
    BY <1>2, <1>4, ConcatInts
  <2>2. ASSUME NEW i \in 1..Len(td) - 1, NEW k, k = Len(kids) + i
        PROVE  (vals \o rest)[k] = rest[i]
    <3>1. k \in 1..Len(vals) + Len(rest) /\ ~(k <= Len(vals)) /\ k - Len(vals) = i
      BY <1>2, <1>4, <1>5, <2>2
    <3> QED BY <2>1, <3>1
  <2>3. \A i \in 1..Len(kids) : (vals \o rest)[i] = kids[i].val
    BY <1>2, <1>4, <1>5, <2>1
  <2> QED BY <1>2, <1>4, <1>5, <2>1, <2>2, <2>3
<1>7. PutNext(h, p) \o Tail(td) = vals \o rest
  BY <1>3 DEF rest
<1> QED BY <1>4, <1>5, <1>6, <1>7 DEF kids

(* The next pointer of those to be put.                                    *)
LEMMA HeadFits ==
    ASSUME SInv, todo # << >>
    PROVE  /\ Head(todo) \in Truncated..Len(heap) /\ Head(todo) = todo[1] /\ 1 \in DOMAIN todo
           /\ Tail(todo) \in Seq(Int) /\ Len(Tail(todo)) = Len(todo) - 1
           /\ \A i \in DOMAIN Tail(todo) :
                 i + 1 \in DOMAIN todo /\ Tail(todo)[i] = todo[i + 1]
           /\ DOMAIN heap = 1..Len(heap)
<1>1. /\ Tail(todo) \in Seq(Int) /\ Len(Tail(todo)) = Len(todo) - 1
      /\ Head(todo) = todo[1] /\ 1 \in DOMAIN todo
      /\ \A i \in 1..Len(todo) - 1 : Tail(todo)[i] = todo[i + 1]
  BY TailFits DEF SInv, Shape
<1>2. Len(todo) \in Nat \ {0} /\ DOMAIN todo = 1..Len(todo)
      /\ DOMAIN Tail(todo) = 1..Len(todo) - 1 /\ DOMAIN heap = 1..Len(heap)
  BY <1>1 DEF SInv, Shape
<1> QED BY <1>1, <1>2 DEF SInv, InRange

(* A put of a live node in steps of the heap and the pointers.             *)
Puts ==
    /\ Head(todo) > NULL /\ heap[Head(todo)].refs = 1
    /\ heap' = Put(heap, Head(todo)) /\ todo' = PutNext(heap, Head(todo)) \o Tail(todo)
    /\ UNCHANGED <<step, result, fault>>
Skips ==
    /\ Head(todo) = NULL \/ (Head(todo) > NULL /\ heap[Head(todo)].refs = 0)
    /\ todo' = Tail(todo) /\ UNCHANGED <<heap, step, result>> /\ fault' \subseteq Faults
    /\ "overrun" \in fault' => "overrun" \in fault
Crashes ==
    /\ step' = "done" /\ result' = "CRASHED" /\ todo' = << >>
    /\ UNCHANGED <<heap, fault>>

LEMMA ReleaseKinds ==
    ASSUME SInv, Release
    PROVE  /\ todo # << >>
           /\ Puts \/ Skips \/ Crashes
           /\ UNCHANGED <<family, input, pos, frames, ret, failedIn>>
<1> DEFINE p == Head(todo)
<1>1. todo # << >> /\ UNCHANGED <<family, input, pos, frames, ret, failedIn>>
  BY DEF Release
<1>2. p \in Truncated..Len(heap) /\ DOMAIN heap = 1..Len(heap) /\ Len(heap) \in Nat
  BY <1>1, HeadFits DEF SInv, Shape
<1>3. p > NULL => heap[p].refs \in 0..1
  <2>1. p > NULL => p \in DOMAIN heap
    BY <1>2 DEF NULL, Truncated
  <2> QED BY <2>1, KidInRange DEF SInv, Shape
<1>4. fault \subseteq Faults
  BY DEF SInv, Shape
<1> HIDE DEF p
<1>5. CASE p = NULL /\ todo' = Tail(todo) /\ UNCHANGED <<heap, step, result, fault>>
  BY <1>1, <1>4, <1>5 DEF Skips, p
<1>6. CASE p < NULL /\ Crash({}) /\ UNCHANGED heap
  BY <1>1, <1>6 DEF Crash, Crashes
<1>7. CASE /\ p > NULL /\ heap[p].refs = 0 /\ fault' = fault \cup {"use_after_free"}
           /\ todo' = Tail(todo) /\ UNCHANGED <<heap, step, result>>
  BY <1>1, <1>4, <1>7 DEF Skips, p, Faults
<1>8. CASE /\ p > NULL /\ heap[p].refs > 0
           /\ heap' = Put(heap, p) /\ todo' = PutNext(heap, p) \o Tail(todo)
           /\ UNCHANGED <<step, result, fault>>
  BY <1>1, <1>3, <1>8 DEF Puts, p
<1> QED BY <1>5, <1>6, <1>7, <1>8 DEF Release, p

(* A step that frees or skips keeps what frames and the payload need.      *)
LEMMA ReleaseS ==
    ASSUME SInv, Release
    PROVE  SInv'
<1> USE DEF NULL, ErrorPtr, Truncated, NoValue
<1>1. /\ todo # << >> /\ (Puts \/ Skips \/ Crashes)
      /\ UNCHANGED <<family, input, pos, frames, ret, failedIn>>
  BY ReleaseKinds
<1>2. /\ heap \in Seq(HeapNode) /\ todo \in Seq(Int) /\ Len(heap) \in Nat
      /\ DOMAIN heap = 1..Len(heap) /\ Head(todo) \in Truncated..Len(heap)
  BY <1>1, HeadFits DEF SInv, Shape
<1>3. FramesFit'
  BY <1>1 DEF SInv, FramesFit
<1>4. CASE Crashes
  <2>1. Shape'
    BY <1>1, <1>4, ReleaseKinds DEF SInv, Shape, Crashes, Steps, JsonResult
  <2>2. InRange(frames', ret', todo', heap')
    BY <1>1, <1>4 DEF SInv, InRange, Crashes
  <2> QED BY <1>3, <1>4, <2>1, <2>2 DEF SInv, Phase, Crashes
<1>5. CASE Skips
  <2>1. Shape'
    BY <1>1, <1>5, HeadFits DEF SInv, Shape, Skips
  <2>2. InRange(frames', ret', todo', heap')
    BY <1>1, <1>5, HeadFits DEF SInv, InRange, Skips
  <2>3. Phase'
    BY <1>1, <1>5 DEF SInv, Phase, Skips, PayloadOf
  <2> QED BY <1>3, <2>1, <2>2, <2>3 DEF SInv
<1>6. CASE Puts
  <2> DEFINE p == Head(todo)
             n == Len(heap[p].kids)
  <2>1. p \in DOMAIN heap /\ heap[p].refs = 1
        /\ heap' = Put(heap, p) /\ todo' = PutNext(heap, p) \o Tail(todo)
    BY <1>2, <1>6 DEF Puts
  <2> HIDE DEF n, p
  <2>2. /\ heap' \in Seq(HeapNode) /\ Len(heap') = Len(heap) /\ DOMAIN heap' = DOMAIN heap
        /\ \A c \in DOMAIN heap : heap'[c].kids = heap[c].kids
    BY <1>2, <2>1, PutFits, SMTT(30)
  <2>3. /\ todo' \in Seq(Int) /\ n \in Nat /\ Len(todo) \in Nat
        /\ Len(todo') = n + Len(todo) - 1
        /\ DOMAIN heap[p].kids = 1..n
        /\ \A i \in 1..n : todo'[i] = heap[p].kids[i].val
        /\ \A i \in 1..Len(todo) - 1 : todo'[n + i] = todo[i + 1]
    BY <1>1, <1>2, <2>1, PutNextFits DEF n
  <2>4. /\ \A k \in DOMAIN heap[p].kids : heap[p].kids[k].val \in Truncated..Len(heap)
        /\ \A k \in DOMAIN todo : todo[k] \in Truncated..Len(heap)
    BY <2>1 DEF SInv, InRange
  <2>5. ASSUME NEW i \in DOMAIN todo' PROVE todo'[i] \in Truncated..Len(heap)
    <3>1. i \in 1..n + Len(todo) - 1 /\ DOMAIN todo = 1..Len(todo)
      BY <1>2, <2>3
    <3>2. CASE i <= n
      <4>1. i \in 1..n
        BY <2>3, <3>1, <3>2
      <4> QED BY <2>3, <2>4, <4>1
    <3>3. CASE ~(i <= n)
      <4>1. PICK j \in 1..Len(todo) - 1 : i = n + j
        <5>1. i - n \in 1..Len(todo) - 1 /\ i = n + (i - n)
          BY <2>3, <3>1, <3>3
        <5> QED BY <5>1
      <4>2. todo'[i] = todo[j + 1] /\ j + 1 \in DOMAIN todo
        BY <2>3, <3>1, <4>1
      <4> QED BY <2>4, <4>2
    <3> QED BY <3>2, <3>3
  <2>6. InRange(frames', ret', todo', heap')
    BY <1>1, <2>2, <2>5 DEF SInv, InRange
  <2>7. Shape'
    BY <1>1, <1>6, <2>2, <2>3 DEF SInv, Shape, Puts
  <2>8. Phase'
    <3>1. step' = step /\ step \notin {"check", "done"}
      BY <1>1, <1>6 DEF SInv, Phase, Puts
    <3>2. step = "put" => PayloadOf(ret)' = PayloadOf(ret)
      BY <1>1, <2>2 DEF SInv, Phase, PayloadOf
    <3> QED BY <1>1, <2>2, <3>1, <3>2 DEF SInv, Phase
  <2> QED BY <1>3, <2>6, <2>7, <2>8 DEF SInv
<1> QED BY <1>1, <1>4, <1>5, <1>6

LEMMA InitS == Init => SInv
<1> SUFFICES ASSUME Init PROVE SInv
  OBVIOUS
<1> USE DEF NULL, ErrorPtr, Truncated, NoValue
<1>1. Payload = 7 /\ RequestFields[1] = "ver" /\ Len(RequestFields) = 6
      /\ DOMAIN RequestFields = 1..6
  BY DEF Payload, RequestFields
<1>2. \A f \in 1..6 : <<RequestFields[f]>> \in Seq(Symbols)
  <2>1. \A f \in 1..6 : RequestFields[f] \in Symbols
    BY <1>1 DEF Symbols
  <2> QED BY <2>1
<1> DEFINE fields == [f \in DOMAIN RequestFields |-> Entry(<<RequestFields[f]>>, f)]
<1>3. fields \in Seq(Kid) /\ DOMAIN fields = 1..6 /\ \A k \in 1..6 : fields[k].val = k
  BY <1>1, <1>2 DEF Entry, Kid
<1> DEFINE outer == <<Entry(<<"name">>, Payload)>>
<1>4. outer \in Seq(Kid) /\ DOMAIN outer = {1} /\ outer[1].val = 7
  <2>1. <<"name">> \in Seq(Symbols)
    <3>1. "name" \in Symbols
      BY DEF Symbols
    <3> QED BY <3>1
  <2> QED BY <1>1, <2>1 DEF Entry, Kid
<1>5. \A kind \in Kinds : Node(kind, << >>) \in HeapNode
                         /\ Node(kind, << >>).kids = << >>
  <2>1. << >> \in Seq(Symbols) /\ << >> \in Seq(Kid)
    OBVIOUS
  <2> QED BY <2>1 DEF Node, HeapNode
<1> HIDE DEF fields, outer
<1>6. ASSUME NEW kids \in Seq(Kid)
      PROVE  LET n == [Node("object", << >>) EXCEPT !.kids = kids]
             IN  n \in HeapNode /\ n.kids = kids
  <2>1. Node("object", << >>) \in HeapNode
    BY <1>5 DEF Kinds
  <2> QED BY <1>6, <2>1, NodeFits
<1>7. Len(heap) = 8 /\ DOMAIN heap = 1..8
      /\ \A i \in 1..6 : heap[i] = Node("string", << >>)
      /\ heap[7] = [Node("object", << >>) EXCEPT !.kids = fields]
      /\ heap[8] = [Node("object", << >>) EXCEPT !.kids = outer]
  BY <1>1 DEF Init, Request, fields, outer
<1>8. \A i \in 1..8 : heap[i] \in HeapNode
  <2>1. \A i \in 1..6 : heap[i] \in HeapNode
    BY <1>5, <1>7 DEF Kinds
  <2>2. heap[7] \in HeapNode /\ heap[8] \in HeapNode
    BY <1>3, <1>4, <1>6, <1>7
  <2> QED BY <2>1, <2>2
<1>9. heap \in Seq(HeapNode)
  <2>1. heap = [i \in 1..8 |-> heap[i]]
    BY <1>1 DEF Init, Request
  <2> QED BY <1>8, <2>1
<1>10. \A c \in DOMAIN heap : \A k \in DOMAIN heap[c].kids :
           heap[c].kids[k].val \in Truncated..Len(heap)
  <2>1. \A c \in 1..6 : heap[c].kids = << >>
    BY <1>5, <1>7 DEF Kinds
  <2>2. heap[7].kids = fields /\ heap[8].kids = outer
    BY <1>7 DEF Node
  <2>3. ASSUME NEW c \in DOMAIN heap, NEW k \in DOMAIN heap[c].kids
        PROVE  heap[c].kids[k].val \in 1..8
    <3>1. CASE c \in 1..6
      BY <2>1, <2>3, <3>1
    <3>2. CASE c = 7
      BY <1>3, <2>2, <2>3, <3>2
    <3>3. CASE c = 8
      BY <1>4, <2>2, <2>3, <3>3
    <3> QED BY <1>7, <3>1, <3>2, <3>3
  <2> QED BY <1>7, <2>3
<1>11. todo \in Seq(Int) /\ \A i \in DOMAIN todo : todo[i] \in Truncated..Len(heap)
  BY <1>1, <1>7 DEF Init
<1>12. Shape
  BY <1>9, <1>11 DEF Init, Shape, Steps, JsonResult, Faults
<1>13. InRange(frames, ret, todo, heap)
  BY <1>7, <1>10, <1>11 DEF Init, InRange
<1> QED BY <1>12, <1>13 DEF Init, SInv, FramesFit, Phase

(* The loop of the parser and the calls that wait for a value.             *)
LEMMA TokenerS ==
    ASSUME SInv, Tokener
    PROVE  /\ SInv' /\ Parsing
           /\ \/ ret = NoValue /\ Turned
              \/ /\ ret # NoValue /\ ret # ErrorPtr /\ Added /\ UNCHANGED <<input, pos>>
                 /\ Waiting(Top) /\ Top.current > NULL
              \/ /\ ret \notin {NoValue, NULL} /\ ret < NULL /\ Fails
                 /\ ret = ErrorPtr /\ UNCHANGED <<input, pos>>
<1>1. /\ step = "parse" /\ frames # << >> /\ todo = << >>
      /\ UNCHANGED <<family, step, result, fault>>
  BY DEF Tokener, Loop, Resume, Running
<1>2. CASE Loop
  <2>1. PICK c \in family.symbols \cup {NUL} : Reads(c) /\ Turns(c)
    BY <1>2 DEF Loop
  <2>2. c \in Symbols
    BY <2>1 DEF SInv, Shape, Symbols
  <2>3. Turned /\ ret = NoValue
    BY <1>1, <1>2, <2>1, <2>2, TurnKinds DEF SInv, Loop
  <2>4. /\ input' \in Seq(Symbols) /\ pos \in 1..Len(input') /\ pos' \in {pos, pos + 1}
    BY <2>1, <2>2, TurnReads DEF SInv
  <2>5. Parsing
    <3>1. Len(input') \in Nat
      BY <2>4
    <3> QED BY <1>1, <2>4, <3>1 DEF Parsing
  <2> QED BY <2>3, <2>5, TurnedS
<1>3. CASE Resume
  <2>1. Parsing /\ UNCHANGED <<input, pos>> /\ ret # NoValue
    BY <1>1, <1>3 DEF Parsing, Resume, SInv, Shape
  <2>2. CASE AddItem \/ AddField
    <3>1. Added /\ Waiting(Top) /\ Top.current > NULL /\ ret # ErrorPtr
      BY <1>1, <2>2, AddKinds DEF SInv
    <3> QED BY <2>1, <3>1, AddedS
  <2>3. CASE GiveUp
    <3>1. ret = ErrorPtr /\ Fails
      BY <2>3, FailKinds DEF GiveUp, IsError
    <3>2. SInv'
      BY <2>1, <3>1, FailsS
    <3> QED BY <2>1, <3>1, <3>2 DEF ErrorPtr, NULL
  <2> QED BY <1>3, <2>2, <2>3 DEF Resume
<1> QED BY <1>2, <1>3 DEF Tokener

(* Every step keeps the structure.                                         *)
LEMMA NextS == SInv /\ [Next]_vars => SInv'
<1> SUFFICES ASSUME SInv, [Next]_vars PROVE SInv'
  OBVIOUS
<1> USE DEF NULL, ErrorPtr, Truncated, NoValue
<1>1. ASSUME Parse PROVE SInv'
  <2>1. /\ step' = "parse" /\ frames' = Append(frames, NewFrame) /\ heap' = << >>
        /\ frames = << >> /\ todo = << >> /\ ret = NoValue
        /\ UNCHANGED <<family, input, pos, ret, todo, failedIn, result, fault>>
    BY <1>1 DEF Parse, SInv, Phase
  <2>2. frames' \in Seq(Frame) /\ FramesFit' /\ Len(frames') = 1 /\ frames'[1] = NewFrame
    BY <2>1, CallS DEF SInv
  <2>3. Shape' /\ Phase'
    BY <2>1, <2>2 DEF SInv, Shape, Phase, Steps
  <2>4. InRange(frames', ret', todo', heap')
    BY <2>1, <2>2, NewFrameFits DEF InRange
  <2> QED BY <2>2, <2>3, <2>4 DEF SInv
<1>2. ASSUME Overrun PROVE SInv'
  BY <1>2 DEF Overrun, Crash, SInv, Shape, InRange, FramesFit, Phase, Steps, JsonResult, Faults
<1>3. ASSUME Parsed PROVE SInv'
  BY <1>3 DEF Parsed, tokener, SInv, Shape, InRange, FramesFit, Phase, Steps
<1>4. ASSUME NEW r \in JsonResult, Answer(r, "done"), step = "check" PROVE SInv'
  BY <1>4 DEF Answer, tokener, SInv, Shape, InRange, FramesFit, Phase, Steps
<1>5. ASSUME CheckNull \/ CheckCrash \/ CheckKey PROVE SInv'
  BY <1>4, <1>5 DEF CheckNull, CheckCrash, CheckKey, JsonResult
<1>6. ASSUME CheckPayload PROVE SInv'
  <2> DEFINE payload == PayloadOf(ret)
  <2>1. CASE Answer("CRASHED", "done")
    BY <1>4, <1>6, <2>1 DEF CheckPayload, JsonResult
  <2>2. CASE ~Answer("CRASHED", "done")
    <3>1. /\ step = "check" /\ ret \in DOMAIN heap /\ payload \in DOMAIN heap
          /\ result' = Verdict(payload) /\ step' = "put" /\ todo' = <<payload, ret>>
          /\ UNCHANGED <<family, input, pos, frames, ret, heap, failedIn, fault>>
      BY <1>6, <2>2 DEF CheckPayload, IsObject
    <3> HIDE DEF payload
    <3>2. Verdict(payload) \in JsonResult
      BY DEF Verdict, JsonResult
    <3>3. heap \in Seq(HeapNode) /\ DOMAIN heap = 1..Len(heap) /\ Len(heap) \in Nat
      BY DEF SInv, Shape
    <3>4. todo' \in Seq(Int) /\ \A i \in DOMAIN todo' : todo'[i] \in 1..Len(heap)
      BY <3>1, <3>3
    <3>5. Shape'
      BY <3>1, <3>2, <3>4 DEF SInv, Shape, Steps
    <3>6. InRange(frames', ret', todo', heap')
      BY <3>1, <3>3, <3>4 DEF SInv, InRange
    <3>7. FramesFit'
      BY <3>1 DEF SInv, FramesFit
    <3>8. Phase'
      <4>1. frames' = << >> /\ PayloadOf(ret)' = payload
        BY <3>1 DEF SInv, Phase, payload, PayloadOf
      <4> QED BY <3>1, <4>1 DEF Phase
    <3> QED BY <3>5, <3>6, <3>7, <3>8 DEF SInv
  <2> QED BY <2>1, <2>2
<1>7. ASSUME Finished PROVE SInv'
  BY <1>7 DEF Finished, tokener, SInv, Shape, InRange, FramesFit, Phase, Steps
<1>8. CASE UNCHANGED vars
  BY <1>8 DEF vars, tokener, SInv, Shape, InRange, FramesFit, Phase, PayloadOf
<1> QED BY <1>1, <1>2, <1>3, <1>5, <1>6, <1>7, <1>8, ReleaseS, TokenerS DEF Next, Check

(* Frames, nodes and pending releases keep their shapes, and no pointer    *)
(* refers to a node that was never made, whatever the source is            *)
(* (json_tokener_do_parse, json_object_object_add, json_object_put).       *)
THEOREM PointersValid == Spec => []TypeOK
<1>1. SInv => TypeOK
  <2> SUFFICES ASSUME SInv PROVE TypeOK
    OBVIOUS
  <2> USE DEF NULL, ErrorPtr, Truncated, NoValue, Pointers
  <2>1. heap \in Seq(HeapNode) /\ DOMAIN heap = 1..Len(heap) /\ Len(heap) \in Nat
    BY DEF SInv, Shape
  <2>2. ASSUME NEW i \in DOMAIN heap
        PROVE  /\ heap[i].kind \in Kinds /\ heap[i].refs \in 0..1
               /\ \A e \in DOMAIN heap[i].kids : heap[i].kids[e].val \in Pointers
    <3>1. heap[i] \in HeapNode
      BY <2>1
    <3>2. heap[i].kind \in Kinds /\ heap[i].refs \in 0..1
      BY <3>1 DEF HeapNode
    <3>3. \A e \in DOMAIN heap[i].kids : heap[i].kids[e].val \in Truncated..Len(heap)
      BY DEF SInv, InRange
    <3> QED BY <2>1, <3>2, <3>3
  <2>3. pos \in 1..Len(input) + 2 /\ ret \in Pointers \cup {NoValue}
    BY <2>1 DEF SInv, Shape, InRange
  <2>4. ASSUME NEW p \in ToSet(todo) \cup {frames[i].current : i \in DOMAIN frames}
        PROVE  p \in DOMAIN heap \cup {NULL, ErrorPtr, Truncated}
    <3>1. p \in Truncated..Len(heap)
      BY <2>1, <2>4 DEF SInv, InRange, ToSet
    <3> QED BY <2>1, <3>1
  <2> QED BY <2>2, <2>3, <2>4 DEF SInv, Shape, TypeOK, Steps
<1> QED BY InitS, NextS, <1>1, PTL DEF Spec

-----------------------------------------------------------------------------
(* Comments, and the end of the source.                                    *)

(* The innermost call after a turn, as far as comments are concerned.      *)
Marks ==
    \/ frames' = Front(frames)
    \/ Waiting(Top) /\ frames' = Append(frames, NewFrame)
    \/ \E f : Replaces(f) /\ Remark(f.state, pos', input')

LEMMA OpenStays ==
    ASSUME Shape, NEW c \in Symbols, input' \in {input, Append(input, c)}, Open(input)
    PROVE  Open(input')
<1>1. PICK i \in 1..Len(input) - 1 : input[i] = "/" /\ input[i + 1] \in {"*", "/"}
  BY DEF Open
<1>2. input \in Seq(Symbols) /\ Len(input) \in Nat
  BY DEF Shape
<1>3. i \in 1..Len(input') - 1 /\ input'[i] = input[i] /\ input'[i + 1] = input[i + 1]
  BY <1>1, <1>2
<1> QED BY <1>1, <1>3 DEF Open

LEMMA MarksFit ==
    ASSUME Shape, FramesFit, frames # << >>, Marks
    PROVE  CommentFits'
<1>1. /\ frames \in Seq(Frame) /\ Len(frames) \in Nat \ {0} /\ DOMAIN frames = 1..Len(frames)
      /\ \A i \in 1..Len(frames) - 1 : Waiting(frames[i])
  BY EmptySeq DEF Shape, FramesFit
<1>2. ASSUME NEW f, Waiting(f) PROVE Remark(f.state, pos', input')
  BY <1>2 DEF Waiting, Remark
<1>3. CASE frames' = Front(frames)
  <2>1. /\ frames' \in Seq(Frame) /\ Len(frames') = Len(frames) - 1
        /\ \A i \in 1..Len(frames) - 1 : frames'[i] = frames[i]
    BY <1>1, <1>3, FrontFits
  <2>2. DOMAIN frames' = 1..Len(frames) - 1
    BY <2>1
  <2> QED BY <1>1, <1>2, <2>1, <2>2 DEF CommentFits
<1>4. CASE Waiting(Top) /\ frames' = Append(frames, NewFrame)
  <2>1. /\ DOMAIN frames' = 1..Len(frames) + 1 /\ frames'[Len(frames) + 1] = NewFrame
        /\ \A i \in 1..Len(frames) : frames'[i] = frames[i]
    BY <1>1, <1>4, NewFrameFits
  <2>2. Waiting(frames[Len(frames)]) /\ Remark(NewFrame.state, pos', input')
    BY <1>4 DEF Top, Last, NewFrame, Remark
  <2>3. \A i \in 1..Len(frames) : Waiting(frames[i])
    BY <1>1, <2>2
  <2> QED BY <1>1, <1>2, <2>1, <2>2, <2>3 DEF CommentFits
<1>5. CASE \E f : Replaces(f) /\ Remark(f.state, pos', input')
  <2>1. PICK f : Replaces(f) /\ Remark(f.state, pos', input')
    BY <1>5
  <2>2. /\ DOMAIN frames' = 1..Len(frames) /\ frames'[Len(frames)] = f
        /\ \A i \in 1..Len(frames) - 1 : frames'[i] = frames[i]
    <3> DEFINE n == Len(frames)
    <3>1. n \in 1..n /\ frames = [i \in 1..n |-> frames[i]]
      BY <1>1
    <3> HIDE DEF n
    <3>2. frames' = [i \in 1..n |-> IF i = n THEN f ELSE frames[i]]
      BY <2>1, <3>1 DEF Replaces, n
    <3>3. DOMAIN frames' = 1..n /\ frames'[n] = f /\ \A i \in 1..n : i # n => frames'[i] = frames[i]
      BY <3>1, <3>2
    <3>4. n \in Nat /\ \A i \in 1..n - 1 : Waiting(frames[i])
      BY <1>1 DEF n
    <3>5. \A i \in 1..n - 1 : frames'[i] = frames[i]
      BY <3>3, <3>4
    <3> QED BY <3>3, <3>5 DEF n
  <2> QED BY <1>1, <1>2, <2>1, <2>2 DEF CommentFits
<1> QED BY <1>3, <1>4, <1>5 DEF Marks

(* Each state's turn says only what is so.                                 *)
LEMMA TurnMarks ==
    ASSUME Shape, FramesFit, CommentFits, frames # << >>,
           NEW c \in Symbols, Reads(c), Turns(c)
    PROVE  Marks
<1>1. /\ Top \in Frame /\ Remark(Top.state, pos, input)
  BY TopFits DEF CommentFits
<1>2. /\ input' \in {input, Append(input, c)} /\ pos \in 1..Len(input') /\ input'[pos] = c
  BY TurnReads
<1>3. input \in Seq(Symbols) /\ pos \in 1..Len(input) + 1 /\ Len(input) \in Nat
  BY DEF Shape
<1> DEFINE Told(f) == f.state \notin {"comment_start", "comment", "comment_eol", "comment_end"}
<1>4. ASSUME NEW f, NEW n, NEW kind, Goes(c, f, n) \/ Makes(c, f, n, kind),
             Remark(f.state, pos', input')
      PROVE  Marks
  BY <1>4 DEF Goes, Makes, Turn, Return, Fail, Marks, Replaces
<1>5. ASSUME NEW f, NEW n, NEW kind, Goes(c, f, n) \/ Makes(c, f, n, kind), Told(f)
      PROVE  Marks
  BY <1>4, <1>5 DEF Remark
<1>6. ASSUME Refuses \/ Leaves PROVE Marks
  BY <1>6 DEF Refuses, Leaves, Fail, Return, Marks
<1>7. ASSUME Call, Waiting(Top) PROVE Marks
  BY <1>7 DEF Call, Marks
<1>8. \A s \in Goals : Told(To(s)) /\ Told(Then(s)) /\ Told([To(s) EXCEPT !.text = Append(@, c)])
  BY <1>1 DEF To, Then, Frame, Goals, Empty, Filling
<1>9. Told(Found(NULL)) /\ Told(Found(Allocated))
  BY <1>1 DEF Found, Then, Frame
<1>10. \A s \in Goals \cup {"comment_start", "comment", "comment_eol", "comment_end", "eatws"} :
           To(s).state = s
  BY <1>1 DEF To, Frame
<1>11. Open(input) => Open(input')
  BY <1>2, OpenStays
<1> HIDE DEF Told
<1>12. ASSUME EatWs(c) PROVE Marks
  <2>1. Told(Top) /\ Told(To(Top.saved))
    BY <1>1, <1>8, <1>12 DEF EatWs, Frame, Told
  <2>2. ASSUME c = "/", Goes(c, To("comment_start"), 1)
        PROVE  Remark(To("comment_start").state, pos', input')
    <3>1. pos' = pos + 1
      BY <2>2 DEF Goes, Turn
    <3>2. pos' > 1 /\ pos' - 1 = pos
      BY <1>3, <3>1
    <3>3. pos' > 1 /\ input'[pos' - 1] = "/"
      BY <1>2, <2>2, <3>2
    <3> QED BY <1>10, <3>3 DEF Remark
  <2> QED BY <1>4, <1>5, <1>12, <2>1, <2>2 DEF EatWs
<1>13. ASSUME CommentStart(c) PROVE Marks
  <2>1. pos > 1 /\ input[pos - 1] = "/"
    BY <1>1, <1>13 DEF CommentStart, Remark
  <2>2. pos - 1 \in 1..Len(input') - 1 /\ (pos - 1) + 1 = pos /\ input'[pos - 1] = "/"
    BY <1>2, <1>3, <2>1
  <2>3. c \in {"*", "/"} => Open(input')
    BY <1>2, <2>2 DEF Open
  <2>4. c \in {"*", "/"} => /\ Remark(To("comment").state, pos', input')
                            /\ Remark(To("comment_eol").state, pos', input')
    BY <1>10, <2>3 DEF Remark
  <2> QED BY <1>4, <1>6, <1>13, <2>4 DEF CommentStart
<1>14. ASSUME Comment(c) PROVE Marks
  <2>1. Top.state \in {"comment", "comment_eol", "comment_end"}
    BY <1>14 DEF Comment
  <2>2. Open(input')
    BY <1>1, <1>11, <2>1 DEF Remark
  <2>3. /\ Remark(Top.state, pos', input')
        /\ \A s \in {"comment", "comment_end", "eatws"} : Remark(To(s).state, pos', input')
    BY <1>10, <2>1, <2>2 DEF Remark
  <2> QED BY <1>4, <1>14, <2>3 DEF Comment
<1>15. ASSUME InQuotes(c), Top.state \in {"string", "object_field"} PROVE Marks
  <2>1. Told([To("string_escape") EXCEPT !.saved = Top.state])
        /\ Told([Top EXCEPT !.text = Append(@, c)])
    BY <1>1, <1>15 DEF To, Frame, Told
  <2> QED BY <1>5, <1>15, <2>1 DEF InQuotes
<1>16. ASSUME Begin(c) PROVE Marks
  <2>1. /\ Told([Then("object") EXCEPT !.current = Allocated])
        /\ Told([Then("array") EXCEPT !.current = Allocated])
        /\ Told([To("string") EXCEPT !.quote = c])
        /\ \A s \in {"number", "null", "boolean"} : Told([To(s) EXCEPT !.text = <<c>>])
    BY <1>1 DEF To, Then, Frame, Told
  <2> QED BY <1>5, <1>6, <1>16, <2>1 DEF Begin
<1>17. ASSUME Finish(c) \/ Null(c) \/ Boolean(c) PROVE Marks
  BY <1>5, <1>6, <1>9, <1>17 DEF Finish, Null, Boolean, Return, Marks
<1>18. ASSUME String(c) PROVE Marks
  BY <1>5, <1>9, <1>15, <1>18 DEF String
<1>19. ASSUME Escape(c) PROVE Marks
  <2>1. Top.saved \in Goals
    BY <1>1 DEF Frame
  <2> QED BY <1>5, <1>6, <1>8, <1>19, <2>1 DEF Escape
<1>20. ASSUME Number(c) PROVE Marks
  <2>1. Told([Top EXCEPT !.text = Append(@, c)])
    BY <1>1, <1>20 DEF Number, Frame, Told
  <2> QED BY <1>5, <1>6, <1>9, <1>20, <2>1 DEF Number
<1>21. ASSUME Array(c) \/ ArraySep(c) PROVE Marks
  <2>1. Told(Then("finish")) /\ Told(Then("array"))
    BY <1>8 DEF Goals, Filling
  <2> QED BY <1>5, <1>6, <1>7, <1>21, <2>1 DEF Array, ArraySep, Waiting, Return, Marks
<1>22. ASSUME Object(c) \/ FieldStart(c) \/ FieldEnd(c) \/ FieldValue(c) \/ ObjectSep(c)
       PROVE  Marks
  <2>1. /\ Told(To("object_field_start")) /\ Told(Then("finish"))
        /\ Told(Then("object_value")) /\ Told(Then("object"))
    BY <1>8 DEF Goals, Filling
  <2>2. Told([To("object_field") EXCEPT !.quote = c, !.text = << >>])
    BY <1>1 DEF To, Frame, Told
  <2> QED BY <1>5, <1>6, <1>7, <1>22, <2>1, <2>2
          DEF Object, FieldStart, FieldEnd, FieldValue, ObjectSep, Waiting
<1>23. ASSUME Field(c) PROVE Marks
  <2>1. Told([Then("object_field_end") EXCEPT !.name = Top.text])
    BY <1>1 DEF Then, Frame, Told
  <2> QED BY <1>5, <1>15, <1>23, <2>1 DEF Field
<1> QED BY <1>12, <1>13, <1>14, <1>16, <1>17, <1>18, <1>19, <1>20, <1>21, <1>22, <1>23
        DEF Turns

(* A turn that goes past the end of the source is one of a comment, or its *)
(* call fails with an error the caller recognises.                         *)
LEMMA EndPassed ==
    ASSUME Shape, FramesFit, frames # << >>, ~Wide,
           NEW c \in Symbols, Reads(c), Turns(c), pos' # pos, c = NUL
    PROVE  Comment(c) \/ ret' = ErrorPtr
<1>1. /\ Top \in Frame /\ FrameFits(Top)
  BY TopFits
<1>2. \A f, k : Goes(c, f, 0) \/ Makes(c, f, 0, k) => pos' = pos
  BY DEF Goes, Makes, Turn, Shape
<1>3. Refuses \/ Leaves \/ Call => pos' = pos
  BY DEF Refuses, Leaves, Call
<1>4. /\ c \notin White \cup Quotes \cup NumberChars \cup Escapable
      /\ c \notin {"/", "{", "[", "}", "]", ",", ":", "*", "null", "nulx", "true", "trux"}
  BY DEF White, Quotes, NumberChars, Digits, Escapable, NUL
<1>5. ~ (EatWs(c) \/ Begin(c) \/ Finish(c) \/ Null(c) \/ Boolean(c) \/ CommentStart(c))
  BY <1>2, <1>3, <1>4 DEF EatWs, Begin, Finish, Null, Boolean, CommentStart
<1>6. ~ (Escape(c) \/ Number(c) \/ Array(c) \/ ArraySep(c) \/ Object(c))
  BY <1>2, <1>3, <1>4 DEF Escape, Number, Array, ArraySep, Object
<1>7. ~ (FieldStart(c) \/ FieldEnd(c) \/ FieldValue(c) \/ ObjectSep(c))
  BY <1>2, <1>3, <1>4 DEF FieldStart, FieldEnd, FieldValue, ObjectSep
<1>8. CASE String(c) \/ Field(c)
  <2>1. Top.state \in {"string", "object_field"}
    BY <1>8 DEF String, Field
  <2>2. Top.quote # c /\ Top.saved # "finish"
    BY <1>1, <1>4, <2>1 DEF FrameFits, Aim, Aside
  <2>3. InQuotes(c) /\ c # "bs"
    BY <1>8, <2>2 DEF String, Field, NUL
  <2> DEFINE f == [Top EXCEPT !.text = Append(@, c)]
  <2>4. Goes(c, f, 1)
    BY <2>3 DEF InQuotes
  <2>5. f.state = Top.state /\ f.saved = Top.saved
    BY <1>1 DEF Frame
  <2> HIDE DEF f
  <2>6. Fail
    BY <2>1, <2>2, <2>4, <2>5 DEF Goes, Turn
  <2> QED BY <2>6 DEF Fail, Return, OutError
<1> QED BY <1>5, <1>6, <1>7, <1>8 DEF Turns

(* A step of the parser keeps what is known of comments and of the end.    *)
LEMMA TokenerOverrun ==
    ASSUME SInv, OverrunFits, Tokener
    PROVE  OverrunFits'
<1>1. /\ step = "parse" /\ frames # << >> /\ todo = << >>
      /\ UNCHANGED <<family, step, result, fault>>
  BY DEF Tokener, Loop, Resume, Running
<1>2. CASE Loop
  <2>1. PICK c \in family.symbols \cup {NUL} : Reads(c) /\ Turns(c)
    BY <1>2 DEF Loop
  <2>2. c \in Symbols
    BY <2>1 DEF SInv, Shape, Symbols
  <2>3. CommentFits'
    BY <1>1, <2>1, <2>2, TurnMarks, MarksFit DEF SInv, OverrunFits
  <2>4. /\ input' \in Seq(Symbols) /\ input' \in {input, Append(input, c)}
        /\ pos \in 1..Len(input') /\ input'[pos] = c /\ pos' \in {pos, pos + 1}
    BY <2>1, <2>2, TurnReads DEF SInv
  <2>5. Open(input) => Open(input')
    BY <2>2, <2>4, OpenStays DEF SInv
  <2>6. ASSUME ~Wide, Overruns' PROVE Open(input') \/ ret' = ErrorPtr
    <3>1. pos' > Len(input') /\ input'[Len(input')] = NUL
      BY <2>6 DEF Overruns, Ended, Last
    <3>2. pos' # pos /\ c = NUL
      <4>1. Len(input') \in Nat
        BY <2>4
      <4> QED BY <2>4, <3>1, <4>1
    <3>3. Comment(c) \/ ret' = ErrorPtr
      BY <1>1, <2>1, <2>2, <2>6, <3>2, EndPassed DEF SInv
    <3>4. ASSUME Comment(c) PROVE Open(input')
      <4>1. Remark(Top.state, pos, input)
        BY <1>1, TopFits DEF SInv, OverrunFits, CommentFits
      <4> QED BY <2>5, <3>4, <4>1 DEF Comment, Remark
    <3> QED BY <3>3, <3>4
  <2> QED BY <1>1, <2>3, <2>5, <2>6 DEF OverrunFits
<1>3. CASE Resume
  <2>1. UNCHANGED <<input, pos>> /\ ret # NoValue
    BY <1>3 DEF Resume
  <2>2. CommentFits'
    <3>1. ASSUME NEW saved, GoesOn(saved) PROVE Marks
      <4>1. Top \in Frame
        BY <1>1, TopFits DEF SInv
      <4>2. Then(saved).state = "eatws"
        BY <4>1 DEF Then, Frame
      <4>3. Remark(Then(saved).state, pos', input') /\ Replaces(Then(saved))
        BY <3>1, <4>2 DEF GoesOn, Replaces, Remark
      <4> QED BY <4>3 DEF Marks
    <3>2. GiveUp => Marks
      BY DEF GiveUp, Fail, Return, Marks
    <3>3. Marks
      BY <1>3, <3>1, <3>2 DEF Resume, AddItem, AddField
    <3> QED BY <1>1, <3>3, MarksFit DEF SInv
  <2>3. ~Wide /\ ret = ErrorPtr => ret' = ErrorPtr
    BY <1>3 DEF Resume, AddItem, AddField, GiveUp, IsError, Fail, Return, OutError
  <2> QED BY <1>1, <2>1, <2>2, <2>3 DEF OverrunFits, Overruns, Ended
<1> QED BY <1>2, <1>3 DEF Tokener

(* The parser reads past the end of the source only when a comment is open *)
(* there, for sources of every length (json_tokener_do_parse, whose loop   *)
(* tests the character it has just stepped over).                          *)
THEOREM OverrunCaused == Spec => []OverrunNeedsComment
<1>1. Init => OverrunFits
  <2> SUFFICES ASSUME Init PROVE OverrunFits
    OBVIOUS
  <2> QED BY DEF Init, OverrunFits, CommentFits
<1>2. SInv /\ OverrunFits /\ [Next]_vars => OverrunFits'
  <2> SUFFICES ASSUME SInv, OverrunFits, [Next]_vars PROVE OverrunFits'
    OBVIOUS
  <2>1. ASSUME UNCHANGED <<input, pos, frames, ret>>, step' \in {"parse", "request"} => step' = step,
               ~Wide /\ "overrun" \in fault' => "overrun" \in fault \/ Open(input)
        PROVE  OverrunFits'
    BY <2>1 DEF OverrunFits, CommentFits, Overruns, Ended
  <2>2. ASSUME Release PROVE OverrunFits'
    BY <2>1, <2>2, ReleaseKinds DEF Puts, Skips, Crashes
  <2>3. ASSUME Parse PROVE OverrunFits'
    <3>1. frames' = <<NewFrame>> /\ UNCHANGED <<input, pos, fault>> /\ step = "request"
      BY <2>3 DEF Parse
    <3>2. CommentFits'
      BY <3>1 DEF CommentFits, Remark, NewFrame
    <3>3. ~Overruns'
      BY <3>1 DEF OverrunFits, Overruns, Ended
    <3> QED BY <3>1, <3>2, <3>3 DEF OverrunFits
  <2>4. ASSUME Overrun PROVE OverrunFits'
    <3>1. /\ step = "parse" /\ ret = NoValue /\ Overruns /\ step' = "done"
          /\ UNCHANGED <<input, pos, frames, ret>>
      BY <2>4 DEF Overrun, Crash
    <3>2. ~Wide => Open(input)
      BY <3>1 DEF OverrunFits, NoValue, ErrorPtr
    <3> QED BY <2>1, <3>1, <3>2
  <2>5. ASSUME Parsed \/ Check \/ Finished PROVE OverrunFits'
    BY <2>1, <2>5 DEF Parsed, Check, CheckNull, CheckCrash, CheckKey, CheckPayload, Answer,
                      Finished, tokener
  <2>6. CASE UNCHANGED vars
    BY <2>1, <2>6 DEF vars, tokener
  <2> QED BY <2>2, <2>3, <2>4, <2>5, <2>6, TokenerOverrun DEF Next
<1>3. OverrunFits => OverrunNeedsComment
  BY DEF OverrunFits, OverrunNeedsComment, Open
<1> QED BY InitS, NextS, <1>1, <1>2, <1>3, PTL DEF Spec

-----------------------------------------------------------------------------
(* Who holds what: a call the object it builds, a caller the value that    *)
(* was returned, the release that is pending or the container its value.   *)

Alive(h, o) == o \in DOMAIN h /\ h[o].refs = 1
Holders == {"frame", "ret", "todo", "kid"}

(* Value v is held by the i-th holder of a kind a, and is the k-th value   *)
(* of a container that was not freed.                                      *)
Has(fs, r, td, h, a, i, k, v) ==
    \/ a = "frame" /\ i \in DOMAIN fs /\ k = 0 /\ fs[i].current = v
    \/ a = "ret" /\ i = 0 /\ k = 0 /\ r = v
    \/ a = "todo" /\ i \in DOMAIN td /\ k = 0 /\ td[i] = v
    \/ a = "kid" /\ Alive(h, i) /\ k \in DOMAIN h[i].kids /\ h[i].kids[k].val = v

(* A call was entered after the calls around it had their objects, and a   *)
(* value was made after the container it is in.                            *)
Sorted(fs, r, h) ==
    /\ \A i, j \in DOMAIN fs : i < j /\ fs[j].current > 0 => fs[i].current < fs[j].current
    /\ \A i \in DOMAIN fs : r > 0 => fs[i].current < r
    /\ \A c \in DOMAIN h : \A k \in DOMAIN h[c].kids :
          h[c].kids[k].val > 0 => c < h[c].kids[k].val

(* What is held is alive, but for node x.                                  *)
HeldAlive(fs, r, td, h, x) ==
    \A a \in Holders : \A i, k, v \in Int :
        Has(fs, r, td, h, a, i, k, v) /\ v > 0 /\ v # x => Alive(h, v)

(* No two hold the same node, but for node x.                              *)
HeldOnce(fs, r, td, h, x) ==
    \A a, b \in Holders : \A i, k, j, l, v \in Int :
        Has(fs, r, td, h, a, i, k, v) /\ Has(fs, r, td, h, b, j, l, v) /\ v > 0 /\ v # x
        => a = b /\ i = j /\ k = l

HeldBySome(fs, r, td, h, o) ==
    \E a \in Holders : \E i, k \in Int : Has(fs, r, td, h, a, i, k, o)

(* A node may be held by no one only if the call that built it forgot it,  *)
(* and then the error is on its way to the caller or, where it was not     *)
(* recognised, in a container made before or in a pending release.         *)
Forgotten(fs, r, td, h, failed, o) ==
    /\ ~Wide => failed = "object_field_end"
    /\ \/ r \in {ErrorPtr, Truncated} /\ \A i \in DOMAIN fs : fs[i].current < o
       \/ \E i, v \in Int : Has(fs, r, td, h, "todo", i, 0, v) /\ v < 0
       \/ \E c, k, v \in Int : Has(fs, r, td, h, "kid", c, k, v) /\ v < 0 /\ c < o

Kept(fs, r, td, h, failed) ==
    \A o \in DOMAIN h :
        Alive(h, o) => HeldBySome(fs, r, td, h, o) \/ Forgotten(fs, r, td, h, failed, o)

Owned(fs, r, td, h, failed, x) ==
    /\ Sorted(fs, r, h) /\ HeldAlive(fs, r, td, h, x)
    /\ HeldOnce(fs, r, td, h, x) /\ Kept(fs, r, td, h, failed)

(* The parser's errors are final where they are recognised.                *)
FirstFailure ==
    /\ step = "request" => failedIn = "none"
    /\ step = "parse" /\ ~Wide /\ failedIn # "none" => ret = ErrorPtr

(* The value parsed is the caller's until it is put; the payload is put    *)
(* by the caller and by its owner.                                         *)
Ownership ==
    /\ step \in {"parse", "check"} => Owned(frames, ret, todo, heap, failedIn, NULL)
    /\ step = "put" => Owned(frames, NoValue, todo, heap, failedIn, PayloadOf(ret))
    /\ NothingLeft

Typed(fs, r, td, h) ==
    fs \in Seq(Frame) /\ r \in Int /\ td \in Seq(Int) /\ h \in Seq(HeapNode)

(* A call returns its object.                                              *)
Popped(fs, gs) ==
    /\ gs \in Seq(Frame) /\ DOMAIN fs = 1..Len(fs) /\ Len(fs) \in DOMAIN fs
    /\ DOMAIN gs = 1..Len(fs) - 1 /\ \A i \in DOMAIN gs : gs[i] = fs[i]

LEMMA TypedFits ==
    ASSUME NEW fs, NEW r, NEW td, NEW h, Typed(fs, r, td, h)
    PROVE  /\ DOMAIN fs = 1..Len(fs) /\ Len(fs) \in Nat
           /\ DOMAIN td = 1..Len(td) /\ Len(td) \in Nat
           /\ DOMAIN h = 1..Len(h) /\ Len(h) \in Nat
           /\ \A i \in DOMAIN fs : fs[i].current \in Int
           /\ \A i \in DOMAIN td : td[i] \in Int
           /\ \A c \in DOMAIN h : /\ h[c].refs \in 0..1 /\ DOMAIN h[c].kids = 1..Len(h[c].kids)
                                  /\ Len(h[c].kids) \in Nat
                                  /\ \A k \in DOMAIN h[c].kids : h[c].kids[k].val \in Int
<1>1. \A i \in DOMAIN fs : fs[i].current \in Int
  <2>1. \A f \in Frame : f.current \in Int
    BY DEF Frame
  <2> QED BY <2>1, ElementOfSeq DEF Typed
<1>2. ASSUME NEW c \in DOMAIN h
      PROVE  /\ h[c].refs \in 0..1 /\ DOMAIN h[c].kids = 1..Len(h[c].kids)
             /\ Len(h[c].kids) \in Nat
             /\ \A k \in DOMAIN h[c].kids : h[c].kids[k].val \in Int
  <2>1. h[c].refs \in 0..1 /\ h[c].kids \in Seq(Kid)
    BY KidInRange DEF Typed
  <2>2. \A e \in Kid : e.val \in Int
    BY DEF Kid
  <2> QED BY <2>1, <2>2, ElementOfSeq
<1> QED BY <1>1, <1>2 DEF Typed

LEMMA OwnedReturn ==
    ASSUME NEW fs, NEW r, NEW td, NEW h, NEW gs, NEW failed, NEW x \in Int,
           Typed(fs, r, td, h), Popped(fs, gs), r = NoValue,
           Owned(fs, r, td, h, failed, x)
    PROVE  Owned(gs, fs[Len(fs)].current, td, h, failed, x)
<1> USE DEF NULL, ErrorPtr, Truncated, NoValue
<1> DEFINE n == Len(fs)
           p == fs[n].current
<1>1. /\ DOMAIN fs = 1..n /\ n \in DOMAIN fs /\ n \in Nat /\ p \in Int
      /\ DOMAIN gs = 1..n - 1 /\ \A i \in DOMAIN gs : gs[i] = fs[i]
      /\ \A i \in DOMAIN fs : fs[i].current \in Int
  BY TypedFits DEF Popped
<1>2. p = fs[n].current
  OBVIOUS
<1> HIDE DEF n, p
<1>3. \A a \in Holders : \A i, k, v \in Int :
          Has(gs, p, td, h, a, i, k, v) =>
              IF a = "ret" THEN Has(fs, r, td, h, "frame", n, 0, v) /\ i = 0 /\ k = 0
              ELSE Has(fs, r, td, h, a, i, k, v) /\ ~(a = "frame" /\ i = n)
  BY <1>1, <1>2 DEF Has, Holders
<1>4. \A a \in Holders : \A i, k, v \in Int :
          Has(fs, r, td, h, a, i, k, v) /\ v > 0 =>
              IF a = "frame" /\ i = n THEN Has(gs, p, td, h, "ret", 0, 0, v)
              ELSE Has(gs, p, td, h, a, i, k, v)
  BY <1>1, <1>2 DEF Has, Holders
<1>5. Sorted(gs, p, h)
  BY <1>1, <1>2 DEF Owned, Sorted
<1>6. HeldAlive(gs, p, td, h, x)
  BY <1>1, <1>3 DEF Owned, HeldAlive, Holders
<1>7. HeldOnce(gs, p, td, h, x)
  BY <1>1, <1>3 DEF Owned, HeldOnce, Holders
<1>8. Kept(gs, p, td, h, failed)
  <2> SUFFICES ASSUME NEW o \in DOMAIN h, Alive(h, o)
               PROVE  HeldBySome(gs, p, td, h, o) \/ Forgotten(gs, p, td, h, failed, o)
    BY DEF Kept
  <2>1. o \in Int /\ o > 0
    BY TypedFits
  <2>2. CASE HeldBySome(fs, r, td, h, o)
    BY <1>4, <2>1, <2>2 DEF HeldBySome, Holders
  <2>3. CASE Forgotten(fs, r, td, h, failed, o)
    <3>1. \A a \in {"todo", "kid"} : \A i, k, v \in Int :
              Has(fs, r, td, h, a, i, k, v) => Has(gs, p, td, h, a, i, k, v)
      BY DEF Has
    <3> QED BY <2>1, <2>3, <3>1 DEF Forgotten
  <2> QED BY <2>2, <2>3 DEF Owned, Kept
<1> QED BY <1>2, <1>5, <1>6, <1>7, <1>8 DEF Owned, n

(* A call goes on with the same object.                                    *)
LEMMA OwnedSame ==
    ASSUME NEW fs, NEW r, NEW td, NEW h, NEW gs, NEW failed, NEW x,
           DOMAIN gs = DOMAIN fs, \A i \in DOMAIN fs : gs[i].current = fs[i].current,
           Owned(fs, r, td, h, failed, x)
    PROVE  Owned(gs, r, td, h, failed, x)
<1>1. \A a, i, k, v : Has(gs, r, td, h, a, i, k, v) <=> Has(fs, r, td, h, a, i, k, v)
  BY DEF Has
<1>2. Sorted(gs, r, h)
  BY DEF Owned, Sorted
<1>3. HeldAlive(gs, r, td, h, x)
  BY <1>1 DEF Owned, HeldAlive
<1>4. HeldOnce(gs, r, td, h, x)
  BY <1>1 DEF Owned, HeldOnce
<1>5. Kept(gs, r, td, h, failed)
  BY <1>1 DEF Owned, Kept, HeldBySome, Forgotten
<1> QED BY <1>2, <1>3, <1>4, <1>5 DEF Owned

(* A call is entered: it has no object yet.                                *)
LEMMA OwnedCall ==
    ASSUME NEW fs, NEW r, NEW td, NEW h, NEW gs, NEW failed, NEW x \in Int,
           Typed(fs, r, td, h), r = NoValue,
           DOMAIN gs = 1..Len(fs) + 1, gs[Len(fs) + 1].current = NULL,
           \A i \in DOMAIN fs : gs[i] = fs[i],
           Owned(fs, r, td, h, failed, x)
    PROVE  Owned(gs, r, td, h, failed, x)
<1> USE DEF NULL, ErrorPtr, Truncated, NoValue
<1>1. DOMAIN fs = 1..Len(fs) /\ Len(fs) \in Nat /\ \A i \in DOMAIN fs : fs[i].current \in Int
  BY TypedFits
<1>2. \A a \in Holders : \A i, k, v \in Int :
          Has(gs, r, td, h, a, i, k, v) /\ v # 0 <=> Has(fs, r, td, h, a, i, k, v) /\ v # 0
  BY <1>1 DEF Has, Holders
<1>3. Sorted(gs, r, h)
  BY <1>1 DEF Owned, Sorted
<1>4. HeldAlive(gs, r, td, h, x)
  BY <1>2 DEF Owned, HeldAlive
<1>5. HeldOnce(gs, r, td, h, x)
  BY <1>2 DEF Owned, HeldOnce
<1>6. Kept(gs, r, td, h, failed)
  <2> SUFFICES ASSUME NEW o \in DOMAIN h, Alive(h, o)
               PROVE  HeldBySome(gs, r, td, h, o) \/ Forgotten(gs, r, td, h, failed, o)
    BY DEF Kept
  <2>1. o \in Int /\ o > 0
    BY TypedFits
  <2>2. CASE HeldBySome(fs, r, td, h, o)
    BY <1>2, <2>1, <2>2 DEF HeldBySome
  <2>3. CASE Forgotten(fs, r, td, h, failed, o)
    <3>1. \A a \in {"todo", "kid"} : \A i, k, v \in Int :
              Has(fs, r, td, h, a, i, k, v) => Has(gs, r, td, h, a, i, k, v)
      BY DEF Has
    <3> QED BY <2>1, <2>3, <3>1 DEF Forgotten
  <2> QED BY <2>2, <2>3 DEF Owned, Kept
<1> QED BY <1>3, <1>4, <1>5, <1>6 DEF Owned

(* A call makes its object.                                                *)
LEMMA OwnedMake ==
    ASSUME NEW fs, NEW r, NEW td, NEW h, NEW gs, NEW g, NEW failed, NEW n,
           Typed(fs, r, td, h), InRange(fs, r, td, h), r = NoValue, td = << >>,
           n = Len(fs), n \in DOMAIN fs, fs[n].current = NULL,
           DOMAIN gs = DOMAIN fs, gs[n].current = Len(h) + 1,
           \A i \in DOMAIN fs : i # n => gs[i] = fs[i],
           DOMAIN g = 1..Len(h) + 1, \A c \in DOMAIN h : g[c] = h[c],
           g[Len(h) + 1].refs = 1, g[Len(h) + 1].kids = << >>,
           Owned(fs, r, td, h, failed, NULL)
    PROVE  Owned(gs, r, td, g, failed, NULL)
<1> USE DEF NULL, ErrorPtr, Truncated, NoValue
<1> DEFINE o == Len(h) + 1
<1>1. /\ DOMAIN fs = 1..n /\ n \in Nat /\ o \in Nat /\ DOMAIN h = 1..o - 1
      /\ \A i \in DOMAIN fs : fs[i].current \in 0..o - 1
      /\ DOMAIN g = 1..o /\ g[o].refs = 1 /\ DOMAIN g[o].kids = {}
      /\ gs[n].current = o
      /\ \A c \in DOMAIN h : \A k \in DOMAIN h[c].kids :
            /\ h[c].kids[k].val \in Int /\ h[c].kids[k].val < o
  BY TypedFits DEF InRange
<1> HIDE DEF o
<1>2. \A v \in Int : Alive(g, v) <=> Alive(h, v) \/ v = o
  BY <1>1 DEF Alive
<1>3. \A a \in Holders : \A i, k, v \in Int :
          Has(gs, r, td, g, a, i, k, v) /\ v # 0 =>
              \/ Has(fs, r, td, h, a, i, k, v)
              \/ a = "frame" /\ i = n /\ k = 0 /\ v = o
  <2>1. \A i, k, v \in Int :
            Has(gs, r, td, g, "frame", i, k, v) /\ v # 0 =>
              Has(fs, r, td, h, "frame", i, k, v) \/ (i = n /\ k = 0 /\ v = o)
    BY <1>1 DEF Has
  <2>2. \A i, k, v \in Int :
            Has(gs, r, td, g, "kid", i, k, v) => Has(fs, r, td, h, "kid", i, k, v)
    BY <1>1, <1>2 DEF Has, Alive
  <2>3. \A a \in {"ret", "todo"} : \A i, k, v \in Int :
            Has(gs, r, td, g, a, i, k, v) => Has(fs, r, td, h, a, i, k, v)
    BY DEF Has
  <2> QED BY <2>1, <2>2, <2>3 DEF Holders
<1>4. \A a \in Holders : \A i, k, v \in Int :
          Has(fs, r, td, h, a, i, k, v) /\ v # 0 => Has(gs, r, td, g, a, i, k, v) /\ v # o
  <2>1. \A i, k, v \in Int :
            Has(fs, r, td, h, "frame", i, k, v) /\ v # 0 =>
              Has(gs, r, td, g, "frame", i, k, v) /\ v # o
    BY <1>1 DEF Has
  <2>2. \A i, k, v \in Int :
            Has(fs, r, td, h, "kid", i, k, v) => Has(gs, r, td, g, "kid", i, k, v) /\ v # o
    <3> SUFFICES ASSUME NEW i \in Int, NEW k \in Int, NEW v \in Int,
                        Has(fs, r, td, h, "kid", i, k, v)
                 PROVE  Has(gs, r, td, g, "kid", i, k, v) /\ v # o
      OBVIOUS
    <3>1. Alive(h, i) /\ k \in DOMAIN h[i].kids /\ h[i].kids[k].val = v
      BY DEF Has
    <3>2. i \in DOMAIN h /\ g[i] = h[i]
      BY <3>1 DEF Alive
    <3>3. Alive(g, i) /\ k \in DOMAIN g[i].kids /\ g[i].kids[k].val = v /\ v # o
      BY <1>1, <1>2, <3>1, <3>2
    <3> QED BY <3>3 DEF Has
  <2>3. \A a \in {"ret", "todo"} : \A i, k, v \in Int :
            Has(fs, r, td, h, a, i, k, v) => Has(gs, r, td, g, a, i, k, v) /\ v # o
    BY <1>1 DEF Has
  <2> QED BY <2>1, <2>2, <2>3 DEF Holders
<1>5. Sorted(gs, r, g)
  <2>1. Sorted(fs, r, h)
    BY DEF Owned
  <2> QED BY <1>1, <2>1, SMTT(30) DEF Sorted
<1>6. HeldAlive(gs, r, td, g, NULL)
  <2> SUFFICES ASSUME NEW a \in Holders, NEW i \in Int, NEW k \in Int, NEW v \in Int,
                      Has(gs, r, td, g, a, i, k, v), v > 0
               PROVE  Alive(g, v)
    BY DEF HeldAlive
  <2>1. Has(fs, r, td, h, a, i, k, v) \/ v = o
    BY <1>3
  <2>2. HeldAlive(fs, r, td, h, NULL)
    BY DEF Owned
  <2>3. Has(fs, r, td, h, a, i, k, v) => Alive(h, v)
    BY <2>2 DEF HeldAlive
  <2> QED BY <1>2, <2>1, <2>3
<1>7. HeldOnce(gs, r, td, g, NULL)
  BY <1>3, <1>4 DEF Owned, HeldOnce
<1>8. Kept(gs, r, td, g, failed)
  <2> SUFFICES ASSUME NEW q \in DOMAIN g, Alive(g, q)
               PROVE  HeldBySome(gs, r, td, g, q) \/ Forgotten(gs, r, td, g, failed, q)
    BY DEF Kept
  <2>1. q \in Int /\ q > 0
    BY <1>1
  <2>2. CASE q = o
    <3>1. Has(gs, r, td, g, "frame", n, 0, o) /\ n \in Int
      BY <1>1 DEF Has
    <3> QED BY <2>2, <3>1 DEF HeldBySome, Holders
  <2>3. CASE HeldBySome(fs, r, td, h, q)
    <3>1. PICK a \in Holders, i \in Int, k \in Int : Has(fs, r, td, h, a, i, k, q)
      BY <2>3 DEF HeldBySome
    <3>2. Has(gs, r, td, g, a, i, k, q)
      BY <1>4, <2>1, <3>1
    <3> QED BY <3>2 DEF HeldBySome
  <2>4. CASE Forgotten(fs, r, td, h, failed, q)
    <3>1. \A a \in {"todo", "kid"} : \A i, k, v \in Int :
              Has(fs, r, td, h, a, i, k, v) /\ v < 0 => Has(gs, r, td, g, a, i, k, v)
      BY <1>4 DEF Holders
    <3> QED BY <2>1, <2>4, <3>1 DEF Forgotten
  <2>5. (Alive(h, q) /\ q \in DOMAIN h) \/ q = o
    BY <1>2, <2>1 DEF Alive
  <2> QED BY <2>2, <2>3, <2>4, <2>5 DEF Owned, Kept
<1> QED BY <1>5, <1>6, <1>7, <1>8 DEF Owned

(* A call fails: its object is to be put and its caller gets an error.     *)
LEMMA OwnedFail ==
    ASSUME NEW fs, NEW r, NEW td, NEW h, NEW gs, NEW p \in {ErrorPtr, Truncated},
           NEW failed, NEW now,
           Typed(fs, r, td, h), Popped(fs, gs), r \in {NoValue, ErrorPtr}, td = << >>,
           now = failed \/ failed = "none",
           Owned(fs, r, td, h, failed, NULL)
    PROVE  Owned(gs, p, <<fs[Len(fs)].current>>, h, now, NULL)
<1> USE DEF NULL, ErrorPtr, Truncated, NoValue
<1> DEFINE n == Len(fs)
           o == fs[n].current
           ts == <<o>>
<1>1. /\ DOMAIN fs = 1..n /\ n \in DOMAIN fs /\ n \in Nat /\ o \in Int
      /\ DOMAIN gs = 1..n - 1 /\ \A i \in DOMAIN gs : gs[i] = fs[i]
      /\ \A i \in DOMAIN fs : fs[i].current \in Int
  BY TypedFits DEF Popped
<1>2. DOMAIN ts = {1} /\ ts[1] = o /\ o = fs[n].current
  OBVIOUS
<1> HIDE DEF n, o, ts
<1>3. \A a \in Holders : \A i, k, v \in Int :
          Has(gs, p, ts, h, a, i, k, v) /\ v > 0 =>
              IF a = "todo" THEN Has(fs, r, td, h, "frame", n, 0, v) /\ i = 1 /\ k = 0
              ELSE Has(fs, r, td, h, a, i, k, v) /\ ~(a = "frame" /\ i = n)
  BY <1>1, <1>2 DEF Has, Holders
<1>4. \A a \in Holders : \A i, k, v \in Int :
          Has(fs, r, td, h, a, i, k, v) /\ v > 0 =>
              IF a = "frame" /\ i = n THEN Has(gs, p, ts, h, "todo", 1, 0, v)
              ELSE Has(gs, p, ts, h, a, i, k, v)
  BY <1>1, <1>2 DEF Has, Holders
<1>5. Sorted(gs, p, h)
  BY <1>1, <1>2 DEF Owned, Sorted
<1>6. HeldAlive(gs, p, ts, h, NULL)
  <2> SUFFICES ASSUME NEW a \in Holders, NEW i \in Int, NEW k \in Int, NEW v \in Int,
                      Has(gs, p, ts, h, a, i, k, v), v > 0
               PROVE  Alive(h, v)
    BY DEF HeldAlive
  <2>1. Has(fs, r, td, h, a, i, k, v) \/ Has(fs, r, td, h, "frame", n, 0, v)
    BY <1>3
  <2> QED BY <1>1, <2>1 DEF Owned, HeldAlive, Holders
<1>7. HeldOnce(gs, p, ts, h, NULL)
  BY <1>1, <1>3 DEF Owned, HeldOnce, Holders
<1>8. Kept(gs, p, ts, h, now)
  <2> SUFFICES ASSUME NEW q \in DOMAIN h, Alive(h, q)
               PROVE  HeldBySome(gs, p, ts, h, q) \/ Forgotten(gs, p, ts, h, now, q)
    BY DEF Kept
  <2>1. q \in Int /\ q > 0
    BY TypedFits
  <2>2. CASE HeldBySome(fs, r, td, h, q)
    BY <1>4, <2>1, <2>2 DEF HeldBySome, Holders
  <2>3. CASE Forgotten(fs, r, td, h, failed, q)
    <3>1. \A i, k, v \in Int : Has(fs, r, td, h, "kid", i, k, v) => Has(gs, p, ts, h, "kid", i, k, v)
      BY DEF Has
    <3>2. \A i, v \in Int : ~Has(fs, r, td, h, "todo", i, 0, v)
      BY DEF Has
    <3>3. (\A i \in DOMAIN fs : fs[i].current < q) => \A i \in DOMAIN gs : gs[i].current < q
      BY <1>1
    <3>4. ~Wide => now = "object_field_end"
      BY <2>3 DEF Forgotten
    <3> QED BY <2>1, <2>3, <3>1, <3>2, <3>3, <3>4 DEF Forgotten
  <2> QED BY <2>2, <2>3 DEF Owned, Kept
<1> QED BY <1>5, <1>6, <1>7, <1>8 DEF Owned, n, o, ts

(* A call returns an error and forgets its object.                         *)
LEMMA OwnedForget ==
    ASSUME NEW fs, NEW r, NEW td, NEW h, NEW gs, NEW failed, NEW now,
           Typed(fs, r, td, h), Popped(fs, gs), r = NoValue, td = << >>,
           now = failed \/ failed = "none",
           fs[Len(fs)].current = NULL \/ (~Wide => now = "object_field_end"),
           Owned(fs, r, td, h, failed, NULL)
    PROVE  Owned(gs, ErrorPtr, td, h, now, NULL)
<1> USE DEF NULL, ErrorPtr, Truncated, NoValue
<1> DEFINE n == Len(fs)
           o == fs[n].current
           p == ErrorPtr
<1>1. /\ DOMAIN fs = 1..n /\ n \in DOMAIN fs /\ n \in Nat /\ o \in Int
      /\ DOMAIN gs = 1..n - 1 /\ \A i \in DOMAIN gs : gs[i] = fs[i]
      /\ \A i \in DOMAIN fs : fs[i].current \in Int
  BY TypedFits DEF Popped
<1>2. o = fs[n].current
  OBVIOUS
<1> HIDE DEF n, o
<1>3. \A a \in Holders : \A i, k, v \in Int :
          Has(gs, p, td, h, a, i, k, v) /\ v > 0 => Has(fs, r, td, h, a, i, k, v)
  BY <1>1, <1>2 DEF Has, Holders
<1>4. \A a \in Holders : \A i, k, v \in Int :
          Has(fs, r, td, h, a, i, k, v) /\ v > 0 =>
              (a = "frame" /\ v = o) \/ Has(gs, p, td, h, a, i, k, v)
  BY <1>1, <1>2 DEF Has, Holders
<1>5. Sorted(gs, p, h)
  BY <1>1, <1>2 DEF Owned, Sorted
<1>6. HeldAlive(gs, p, td, h, NULL)
  BY <1>1, <1>3 DEF Owned, HeldAlive, Holders
<1>7. HeldOnce(gs, p, td, h, NULL)
  BY <1>1, <1>3 DEF Owned, HeldOnce, Holders
<1>8. Kept(gs, p, td, h, now)
  <2> SUFFICES ASSUME NEW q \in DOMAIN h, Alive(h, q)
               PROVE  HeldBySome(gs, p, td, h, q) \/ Forgotten(gs, p, td, h, now, q)
    BY DEF Kept
  <2>1. q \in Int /\ q > 0
    BY TypedFits
  <2>2. CASE q = o
    <3>1. \A i \in DOMAIN gs : gs[i].current < q
      BY <1>1, <1>2, <2>1, <2>2 DEF Owned, Sorted
    <3> QED BY <2>1, <2>2, <3>1 DEF Forgotten, o, n
  <2>3. CASE HeldBySome(fs, r, td, h, q) /\ q # o
    BY <1>4, <2>1, <2>3 DEF HeldBySome, Holders
  <2>4. CASE Forgotten(fs, r, td, h, failed, q)
    <3>1. \A i, k, v \in Int : Has(fs, r, td, h, "kid", i, k, v) => Has(gs, p, td, h, "kid", i, k, v)
      BY DEF Has
    <3>2. \A i, v \in Int : ~Has(fs, r, td, h, "todo", i, 0, v)
      BY DEF Has
    <3>3. ~Wide => now = "object_field_end"
      BY <2>4 DEF Forgotten
    <3> QED BY <2>1, <2>4, <3>1, <3>2, <3>3 DEF Forgotten
  <2> QED BY <2>2, <2>3, <2>4 DEF Owned, Kept
<1> QED BY <1>5, <1>6, <1>7, <1>8 DEF Owned

(* The next pointer is not a live node.                                    *)
LEMMA OwnedSkip ==
    ASSUME NEW fs, NEW r, NEW td, NEW h, NEW ts, NEW failed, NEW x \in Int,
           Typed(fs, r, td, h), 1 \in DOMAIN td, td[1] >= NULL, ~Alive(h, td[1]),
           DOMAIN ts = 1..Len(td) - 1, \A i \in DOMAIN ts : ts[i] = td[i + 1],
           Owned(fs, r, td, h, failed, x)
    PROVE  Owned(fs, r, ts, h, failed, x)
<1> USE DEF NULL
<1>1. /\ DOMAIN td = 1..Len(td) /\ Len(td) \in Nat /\ \A i \in DOMAIN td : td[i] \in Int
  BY TypedFits
<1>2. \A a \in Holders \ {"todo"} : \A i, k, v \in Int :
          Has(fs, r, ts, h, a, i, k, v) <=> Has(fs, r, td, h, a, i, k, v)
  BY DEF Has
<1>3. \A i, k, v \in Int :
          Has(fs, r, ts, h, "todo", i, k, v) => Has(fs, r, td, h, "todo", i + 1, k, v)
  BY <1>1 DEF Has
<1>4. \A i, k, v \in Int :
          Has(fs, r, td, h, "todo", i, k, v) /\ (v < 0 \/ Alive(h, v))
          => Has(fs, r, ts, h, "todo", i - 1, k, v)
  <2> SUFFICES ASSUME NEW i \in DOMAIN td, td[i] < 0 \/ Alive(h, td[i])
               PROVE  i - 1 \in DOMAIN ts /\ ts[i - 1] = td[i]
    BY DEF Has
  <2>1. i # 1
    BY <1>1
  <2> QED BY <1>1, <2>1
<1>5. Sorted(fs, r, h)
  BY DEF Owned
<1>6. HeldAlive(fs, r, ts, h, x)
  <2> SUFFICES ASSUME NEW a \in Holders, NEW i \in Int, NEW k \in Int, NEW v \in Int,
                      Has(fs, r, ts, h, a, i, k, v), v > 0, v # x
               PROVE  Alive(h, v)
    BY DEF HeldAlive
  <2>1. Has(fs, r, td, h, a, i, k, v) \/ Has(fs, r, td, h, a, i + 1, k, v)
    BY <1>2, <1>3
  <2> QED BY <2>1 DEF Owned, HeldAlive
<1>7. HeldOnce(fs, r, ts, h, x)
  <2> SUFFICES ASSUME NEW a \in Holders, NEW b \in Holders, NEW i \in Int, NEW k \in Int,
                      NEW j \in Int, NEW l \in Int, NEW v \in Int,
                      Has(fs, r, ts, h, a, i, k, v), Has(fs, r, ts, h, b, j, l, v), v > 0, v # x
               PROVE  a = b /\ i = j /\ k = l
    BY DEF HeldOnce
  <2>1. IF a = "todo" THEN Has(fs, r, td, h, a, i + 1, k, v) ELSE Has(fs, r, td, h, a, i, k, v)
    BY <1>2, <1>3
  <2>2. IF b = "todo" THEN Has(fs, r, td, h, b, j + 1, l, v) ELSE Has(fs, r, td, h, b, j, l, v)
    BY <1>2, <1>3
  <2>3. i + 1 \in Int /\ j + 1 \in Int /\ (i + 1 = j + 1 => i = j)
    OBVIOUS
  <2> QED BY <2>1, <2>2, <2>3 DEF Owned, HeldOnce
<1>8. Kept(fs, r, ts, h, failed)
  <2> SUFFICES ASSUME NEW q \in DOMAIN h, Alive(h, q)
               PROVE  HeldBySome(fs, r, ts, h, q) \/ Forgotten(fs, r, ts, h, failed, q)
    BY DEF Kept
  <2>1. q \in Int /\ q > 0
    BY TypedFits
  <2>2. CASE HeldBySome(fs, r, td, h, q)
    <3>1. PICK a \in Holders, i \in Int, k \in Int : Has(fs, r, td, h, a, i, k, q)
      BY <2>2 DEF HeldBySome
    <3>2. Has(fs, r, ts, h, a, i, k, q) \/ Has(fs, r, ts, h, a, i - 1, k, q)
      BY <1>2, <1>4, <2>1, <3>1
    <3> QED BY <3>2 DEF HeldBySome
  <2>3. CASE Forgotten(fs, r, td, h, failed, q)
    <3>1. \A i, v \in Int : Has(fs, r, td, h, "todo", i, 0, v) /\ v < 0 =>
              Has(fs, r, ts, h, "todo", i - 1, 0, v) /\ i - 1 \in Int
      BY <1>4
    <3>2. \A i, k, v \in Int : Has(fs, r, td, h, "kid", i, k, v) => Has(fs, r, ts, h, "kid", i, k, v)
      BY <1>2 DEF Holders
    <3> QED BY <2>3, <3>1, <3>2 DEF Forgotten
  <2> QED BY <2>2, <2>3 DEF Owned, Kept
<1> QED BY <1>5, <1>6, <1>7, <1>8 DEF Owned

(* Node p is freed, and the m values it holds come before the others that  *)
(* are to be put.                                                          *)
Frees(h, g, p) ==
    /\ DOMAIN g = DOMAIN h
    /\ \A c \in DOMAIN h : g[c].kids = h[c].kids
                            /\ g[c].refs = IF c = p THEN 0 ELSE h[c].refs
Follows(td, ts, kids, m) ==
    /\ Len(kids) = m /\ DOMAIN ts = 1..m + Len(td) - 1
    /\ \A i \in 1..m : ts[i] = kids[i].val
    /\ \A i \in 1..Len(td) - 1 : ts[m + i] = td[i + 1]

(* A live node is freed: what it held is to be put.                        *)
LEMMA OwnedPut ==
    ASSUME NEW fs, NEW r, NEW td, NEW h, NEW ts, NEW g, NEW failed, NEW x \in Int,
           NEW p \in Int, NEW m \in Nat,
           Typed(fs, r, td, h), 1 \in DOMAIN td, p = td[1], p > 0, Alive(h, p),
           Frees(h, g, p), Follows(td, ts, h[p].kids, m),
           Owned(fs, r, td, h, failed, x)
    PROVE  Owned(fs, r, ts, g, failed, x)
<1>14. /\ DOMAIN g = DOMAIN h
       /\ \A c \in DOMAIN h : g[c].kids = h[c].kids
                               /\ g[c].refs = IF c = p THEN 0 ELSE h[c].refs
  BY DEF Frees
<1>15. /\ Len(h[p].kids) = m /\ DOMAIN ts = 1..m + Len(td) - 1
       /\ \A i \in 1..m : ts[i] = h[p].kids[i].val
       /\ \A i \in 1..Len(td) - 1 : ts[m + i] = td[i + 1]
  BY DEF Follows
<1>1. /\ DOMAIN td = 1..Len(td) /\ Len(td) \in Nat /\ \A i \in DOMAIN td : td[i] \in Int
      /\ m \in Nat /\ DOMAIN h[p].kids = 1..m /\ p \in Int
      /\ \A c \in DOMAIN h : c \in Int /\ c > 0
  BY <1>15, TypedFits DEF Alive
<1>2. \A v \in Int : Alive(g, v) <=> Alive(h, v) /\ v # p
  BY <1>14 DEF Alive
<1>3. \A a \in {"frame", "ret"} : \A i, k, v \in Int :
          Has(fs, r, ts, g, a, i, k, v) <=> Has(fs, r, td, h, a, i, k, v)
  BY DEF Has
<1>4. \A i, k, v \in Int :
          Has(fs, r, ts, g, "kid", i, k, v) <=> Has(fs, r, td, h, "kid", i, k, v) /\ i # p
  <2>1. \A i \in DOMAIN h : g[i].kids = h[i].kids
    BY <1>14
  <2> QED BY <1>2, <2>1 DEF Has, Alive
<1>5. \A i, k, v \in Int :
          Has(fs, r, ts, g, "todo", i, k, v) =>
              /\ k = 0
              /\ IF i <= m THEN Has(fs, r, td, h, "kid", p, i, v)
                 ELSE Has(fs, r, td, h, "todo", i - m + 1, 0, v) /\ i - m + 1 # 1
  <2> SUFFICES ASSUME NEW i \in DOMAIN ts
               PROVE  IF i <= m THEN i \in DOMAIN h[p].kids /\ ts[i] = h[p].kids[i].val
                      ELSE i - m + 1 \in DOMAIN td /\ ts[i] = td[i - m + 1] /\ i - m + 1 # 1
    BY DEF Has
  <2>1. i \in 1..m + Len(td) - 1
    BY <1>15
  <2>2. CASE i <= m
    BY <1>1, <1>15, <2>1, <2>2
  <2>3. CASE ~(i <= m)
    <3> DEFINE j == i - m
    <3>1. j \in 1..Len(td) - 1 /\ i = m + j
      BY <1>1, <2>1, <2>3
    <3> HIDE DEF j
    <3>2. ts[i] = td[j + 1] /\ j + 1 \in DOMAIN td /\ j + 1 # 1
      BY <1>1, <1>15, <3>1
    <3> QED BY <2>3, <3>2 DEF j
  <2> QED BY <2>2, <2>3
<1>6. \A k, v \in Int : Has(fs, r, td, h, "kid", p, k, v) =>
          Has(fs, r, ts, g, "todo", k, 0, v)
  BY <1>1, <1>15 DEF Has
<1>7. \A i, v \in Int : Has(fs, r, td, h, "todo", i, 0, v) /\ v # p =>
          Has(fs, r, ts, g, "todo", m + (i - 1), 0, v)
  <2> SUFFICES ASSUME NEW i \in DOMAIN td, td[i] # p
               PROVE  m + (i - 1) \in DOMAIN ts /\ ts[m + (i - 1)] = td[i]
    BY DEF Has
  <2> DEFINE j == i - 1
  <2>1. j \in 1..Len(td) - 1 /\ i = j + 1
    BY <1>1
  <2> HIDE DEF j
  <2>2. m + j \in DOMAIN ts /\ ts[m + j] = td[i]
    BY <1>1, <1>15, <2>1
  <2> QED BY <2>2 DEF j
<1>8. Has(fs, r, td, h, "todo", 1, 0, p)
  BY DEF Has
<1>9. Sorted(fs, r, g)
  BY <1>14 DEF Owned, Sorted
(* Where a value was held before, and that it is not the one that is freed *)
<1>10. ASSUME NEW a \in Holders, NEW i \in Int, NEW k \in Int, NEW v \in Int,
              Has(fs, r, ts, g, a, i, k, v)
       PROVE  \/ a \in {"frame", "ret"} /\ Has(fs, r, td, h, a, i, k, v)
              \/ a = "kid" /\ i # p /\ Has(fs, r, td, h, "kid", i, k, v)
              \/ a = "todo" /\ k = 0 /\ i <= m /\ Has(fs, r, td, h, "kid", p, i, v)
              \/ /\ a = "todo" /\ k = 0 /\ i > m /\ i - m + 1 # 1
                 /\ Has(fs, r, td, h, "todo", i - m + 1, 0, v)
  BY <1>1, <1>3, <1>4, <1>5, <1>10 DEF Holders
<1>11. HeldAlive(fs, r, ts, g, x)
  <2> SUFFICES ASSUME NEW a \in Holders, NEW i \in Int, NEW k \in Int, NEW v \in Int,
                      Has(fs, r, ts, g, a, i, k, v), v > 0, v # x
               PROVE  Alive(g, v)
    BY DEF HeldAlive
  <2>1. i - m + 1 \in Int
    BY <1>1
  <2>2. PICK b \in Holders, j \in Int, l \in Int :
            Has(fs, r, td, h, b, j, l, v) /\ ~(b = "todo" /\ j = 1)
    BY <1>1, <1>10, <2>1 DEF Holders
  <2>3. Alive(h, v)
    BY <2>2 DEF Owned, HeldAlive
  <2>4. v # p
    BY <1>8, <2>2 DEF Owned, HeldOnce, Holders
  <2> QED BY <1>2, <2>3, <2>4
<1>12. HeldOnce(fs, r, ts, g, x)
  <2> SUFFICES ASSUME NEW a \in Holders, NEW b \in Holders, NEW i \in Int, NEW k \in Int,
                      NEW j \in Int, NEW l \in Int, NEW v \in Int,
                      Has(fs, r, ts, g, a, i, k, v), Has(fs, r, ts, g, b, j, l, v), v > 0, v # x
               PROVE  a = b /\ i = j /\ k = l
    BY DEF HeldOnce
  <2>1. ASSUME NEW c \in Holders, NEW d \in Holders, NEW s \in Int, NEW t \in Int,
               NEW u \in Int, NEW w \in Int,
               Has(fs, r, td, h, c, s, t, v), Has(fs, r, td, h, d, u, w, v)
        PROVE  c = d /\ s = u /\ t = w
    BY <2>1 DEF Owned, HeldOnce
  <2>2. i - m + 1 \in Int /\ j - m + 1 \in Int /\ (i - m + 1 = j - m + 1 => i = j)
    <3>1. m \in Int
      BY <1>1
    <3> QED BY <3>1
  <2>3. \/ a \in {"frame", "ret"} /\ Has(fs, r, td, h, a, i, k, v)
        \/ a = "kid" /\ i # p /\ Has(fs, r, td, h, "kid", i, k, v)
        \/ a = "todo" /\ k = 0 /\ i <= m /\ Has(fs, r, td, h, "kid", p, i, v)
        \/ a = "todo" /\ k = 0 /\ i > m /\ Has(fs, r, td, h, "todo", i - m + 1, 0, v)
    BY <1>10
  <2>4. \/ b \in {"frame", "ret"} /\ Has(fs, r, td, h, b, j, l, v)
        \/ b = "kid" /\ j # p /\ Has(fs, r, td, h, "kid", j, l, v)
        \/ b = "todo" /\ l = 0 /\ j <= m /\ Has(fs, r, td, h, "kid", p, j, v)
        \/ b = "todo" /\ l = 0 /\ j > m /\ Has(fs, r, td, h, "todo", j - m + 1, 0, v)
    BY <1>10
  <2>5. p \in Int
    BY <1>1
  <2> QED BY <2>1, <2>2, <2>3, <2>4, <2>5 DEF Holders
<1>13. Kept(fs, r, ts, g, failed)
  <2> SUFFICES ASSUME NEW q \in DOMAIN g, Alive(g, q)
               PROVE  HeldBySome(fs, r, ts, g, q) \/ Forgotten(fs, r, ts, g, failed, q)
    BY DEF Kept
  <2>1. q \in Int /\ q > 0 /\ q # p /\ Alive(h, q) /\ q \in DOMAIN h
    BY <1>1, <1>2, <1>14
  <2>2. CASE HeldBySome(fs, r, td, h, q)
    <3>1. PICK a \in Holders, i \in Int, k \in Int : Has(fs, r, td, h, a, i, k, q)
      BY <2>2 DEF HeldBySome
    <3>2. CASE a \in {"frame", "ret"}
      BY <1>3, <2>1, <3>1, <3>2 DEF HeldBySome
    <3>3. CASE a = "kid"
      <4>1. Has(fs, r, ts, g, "kid", i, k, q) \/ Has(fs, r, ts, g, "todo", k, 0, q)
        BY <1>4, <1>6, <2>1, <3>1, <3>3
      <4> QED BY <4>1 DEF HeldBySome, Holders
    <3>4. CASE a = "todo"
      <4>1. k = 0
        BY <3>1, <3>4 DEF Has
      <4>2. Has(fs, r, ts, g, "todo", m + (i - 1), 0, q) /\ m + (i - 1) \in Int
        BY <1>1, <1>7, <2>1, <3>1, <3>4, <4>1
      <4> QED BY <4>2 DEF HeldBySome, Holders
    <3> QED BY <3>2, <3>3, <3>4 DEF Holders
  <2>3. CASE Forgotten(fs, r, td, h, failed, q)
    <3>1. ASSUME NEW i \in Int, NEW v \in Int, Has(fs, r, td, h, "todo", i, 0, v), v < 0
          PROVE  Forgotten(fs, r, ts, g, failed, q)
      <4>1. Has(fs, r, ts, g, "todo", m + (i - 1), 0, v) /\ m + (i - 1) \in Int
        BY <1>1, <1>7, <3>1
      <4> QED BY <2>3, <3>1, <4>1 DEF Forgotten
    <3>2. ASSUME NEW i \in Int, NEW k \in Int, NEW v \in Int,
                 Has(fs, r, td, h, "kid", i, k, v), v < 0, i < q
          PROVE  Forgotten(fs, r, ts, g, failed, q)
      <4>1. Has(fs, r, ts, g, "kid", i, k, v) \/ Has(fs, r, ts, g, "todo", k, 0, v)
        BY <1>4, <1>6, <3>2
      <4> QED BY <2>3, <3>2, <4>1 DEF Forgotten
    <3> QED BY <2>3, <3>1, <3>2 DEF Forgotten
  <2> QED BY <2>1, <2>2, <2>3 DEF Owned, Kept
<1> QED BY <1>9, <1>11, <1>12, <1>13 DEF Owned

(* The answer is accepted: its payload will be put, and it as well.        *)
LEMMA OwnedAnswer ==
    ASSUME NEW fs, NEW r, NEW td, NEW h, NEW failed, NEW p,
           Typed(fs, r, td, h), fs = << >>, td = << >>, r \in DOMAIN h,
           1 \in DOMAIN h[r].kids, p = h[r].kids[1].val, p > 0,
           Owned(fs, r, td, h, failed, NULL)
    PROVE  Owned(fs, NoValue, <<p, r>>, h, failed, p)
<1> USE DEF NULL, ErrorPtr, Truncated, NoValue
<1> DEFINE ts == <<p, r>>
<1>1. r \in Int /\ r > 0 /\ p \in Int /\ DOMAIN ts = 1..2 /\ ts[1] = p /\ ts[2] = r
  BY TypedFits
<1> HIDE DEF ts
<1>2. \A a \in Holders : \A i, k, v \in Int :
          Has(fs, NoValue, ts, h, a, i, k, v) /\ v > 0 /\ v # p =>
              \/ a # "todo" /\ a # "ret" /\ Has(fs, r, td, h, a, i, k, v)
              \/ a = "todo" /\ i = 2 /\ k = 0 /\ Has(fs, r, td, h, "ret", 0, 0, v)
  BY <1>1 DEF Has, Holders
<1>3. Sorted(fs, NoValue, h)
  BY DEF Owned, Sorted
<1>4. HeldAlive(fs, NoValue, ts, h, p)
  <2> SUFFICES ASSUME NEW a \in Holders, NEW i \in Int, NEW k \in Int, NEW v \in Int,
                      Has(fs, NoValue, ts, h, a, i, k, v), v > 0, v # p
               PROVE  Alive(h, v)
    BY DEF HeldAlive
  <2>1. Has(fs, r, td, h, a, i, k, v) \/ Has(fs, r, td, h, "ret", 0, 0, v)
    BY <1>2
  <2> QED BY <2>1 DEF Owned, HeldAlive, Holders
<1>5. HeldOnce(fs, NoValue, ts, h, p)
  BY <1>2 DEF Owned, HeldOnce, Holders
<1>6. Kept(fs, NoValue, ts, h, failed)
  <2> SUFFICES ASSUME NEW q \in DOMAIN h, Alive(h, q)
               PROVE  HeldBySome(fs, NoValue, ts, h, q) \/ Forgotten(fs, NoValue, ts, h, failed, q)
    BY DEF Kept
  <2>1. q \in Int
    BY TypedFits
  <2>2. CASE HeldBySome(fs, r, td, h, q)
    <3>1. PICK a \in Holders, i \in Int, k \in Int : Has(fs, r, td, h, a, i, k, q)
      BY <2>2 DEF HeldBySome
    <3>2. Has(fs, NoValue, ts, h, a, i, k, q) \/ Has(fs, NoValue, ts, h, "todo", 2, 0, q)
      BY <1>1, <3>1 DEF Has
    <3> QED BY <3>2 DEF HeldBySome, Holders
  <2>3. CASE Forgotten(fs, r, td, h, failed, q)
    <3>1. \A i, k, v \in Int : Has(fs, r, td, h, "kid", i, k, v) =>
                               Has(fs, NoValue, ts, h, "kid", i, k, v)
      BY DEF Has
    <3>2. \A i, v \in Int : ~Has(fs, r, td, h, "todo", i, 0, v)
      BY DEF Has
    <3>3. r \notin {ErrorPtr, Truncated}
      BY <1>1
    <3>4. PICK c \in Int, k \in Int, v \in Int :
              Has(fs, r, td, h, "kid", c, k, v) /\ v < 0 /\ c < q
      BY <2>3, <3>2, <3>3 DEF Forgotten
    <3> QED BY <2>3, <3>1, <3>4 DEF Forgotten
  <2> QED BY <2>2, <2>3 DEF Owned, Kept
<1> QED BY <1>3, <1>4, <1>5, <1>6 DEF Owned, ts

(* The frames keep their objects; a node gets other values.                *)
Keeps(fs, gs) ==
    DOMAIN gs = DOMAIN fs /\ \A i \in DOMAIN fs : gs[i].current = fs[i].current
Stores(h, g, o, kids) ==
    /\ DOMAIN g = DOMAIN h
    /\ \A c \in DOMAIN h : g[c].refs = h[c].refs
                            /\ g[c].kids = IF c = o THEN kids ELSE h[c].kids

(* The value returned goes into the container of its caller.               *)
LEMMA OwnedAdd ==
    ASSUME NEW fs, NEW r, NEW td, NEW h, NEW gs, NEW ts, NEW g, NEW failed,
           NEW n \in Nat, NEW o \in Int, NEW m \in Int, NEW new,
           Typed(fs, r, td, h), Len(fs) = n, n \in DOMAIN fs, td = << >>, r # ErrorPtr,
           fs[n].current = o, o \in DOMAIN h,
           Keeps(fs, gs), Stores(h, g, o, new),
           Grown(h[o].kids, m, r, new, ts),
           Owned(fs, r, td, h, failed, NULL)
    PROVE  Owned(gs, NoValue, ts, g, failed, NULL)
<1> USE DEF NULL, ErrorPtr, Truncated, NoValue, Keeps, Stores
<1> DEFINE old == h[o].kids
           z == Len(new)
           L == [k \in Int |-> IF k < m THEN k ELSE k + 1]
<1>1. /\ DOMAIN fs = 1..n /\ r \in Int /\ o > 0
      /\ DOMAIN old = 1..Len(old) /\ Len(old) \in Nat
      /\ \A k \in DOMAIN old : old[k].val \in Int
      /\ \A i \in DOMAIN fs : fs[i].current \in Int
      /\ \A c \in DOMAIN h : c \in Int /\ c > 0
  <2>1. /\ DOMAIN fs = 1..n /\ \A i \in DOMAIN fs : fs[i].current \in Int
        /\ \A c \in DOMAIN h : c \in Int /\ c > 0
    BY TypedFits
  <2>2. /\ DOMAIN old = 1..Len(old) /\ Len(old) \in Nat
        /\ \A k \in DOMAIN old : old[k].val \in Int
    BY TypedFits
  <2> QED BY <2>1, <2>2 DEF Typed
<1>2. /\ z \in Nat \ {0} /\ DOMAIN new = 1..z /\ new[z].val = r
      /\ \A k \in 1..z - 1 : L[k] \in DOMAIN old /\ new[k] = old[L[k]]
      /\ \A l \in DOMAIN old : l # m => (IF l < m THEN l ELSE l - 1) \in 1..z - 1
      /\ IF m \in DOMAIN old THEN ts = <<old[m].val>> ELSE ts = << >>
  BY DEF Grown
<1>3. /\ \A k \in Int : L[k] \in Int /\ L[k] # m
      /\ \A j, k \in Int : L[j] = L[k] => j = k
      /\ \A l \in Int : l # m => L[IF l < m THEN l ELSE l - 1] = l
  OBVIOUS
<1>4. old = h[o].kids
  OBVIOUS
<1> HIDE DEF old, z, L
<1>5. Has(fs, r, td, h, "frame", n, 0, o) /\ Has(fs, r, td, h, "ret", 0, 0, r)
  BY DEF Has
<1>6. Alive(h, o)
  BY <1>1, <1>5 DEF Owned, HeldAlive, Holders
<1>7. \A v \in Int : Alive(g, v) <=> Alive(h, v)
  BY DEF Alive
<1>8. \A i, k, v \in Int :
          Has(gs, NoValue, ts, g, "frame", i, k, v) <=> Has(fs, r, td, h, "frame", i, k, v)
  BY DEF Has
<1>9. \A i, k, v \in Int : i # o =>
          (Has(gs, NoValue, ts, g, "kid", i, k, v) <=> Has(fs, r, td, h, "kid", i, k, v))
  <2>1. \A i \in DOMAIN h : i # o => g[i].kids = h[i].kids
    OBVIOUS
  <2> QED BY <1>7, <2>1 DEF Has, Alive
<1>10. \A k, v \in Int : Has(fs, r, td, h, "kid", o, k, v) <=> k \in DOMAIN old /\ old[k].val = v
  BY <1>4, <1>6 DEF Has
<1>11. \A k, v \in Int :
           Has(gs, NoValue, ts, g, "kid", o, k, v) <=> k \in DOMAIN new /\ new[k].val = v
  BY <1>6, <1>7 DEF Has
<1>12. \A i, k, v \in Int :
           Has(gs, NoValue, ts, g, "todo", i, k, v) =>
               i = 1 /\ k = 0 /\ Has(fs, r, td, h, "kid", o, m, v)
  <2>1. CASE m \in DOMAIN old
    <3>1. DOMAIN ts = {1} /\ ts[1] = old[m].val
      BY <1>2, <2>1
    <3> QED BY <1>10, <2>1, <3>1 DEF Has
  <2>2. CASE m \notin DOMAIN old
    BY <1>2, <2>2 DEF Has
  <2> QED BY <2>1, <2>2
<1>13. \A v \in Int : Has(fs, r, td, h, "kid", o, m, v) => Has(gs, NoValue, ts, g, "todo", 1, 0, v)
  <2> SUFFICES ASSUME m \in DOMAIN old PROVE Has(gs, NoValue, ts, g, "todo", 1, 0, old[m].val)
    BY <1>10
  <2>1. DOMAIN ts = {1} /\ ts[1] = old[m].val
    BY <1>2
  <2> QED BY <2>1 DEF Has
<1>14. Has(gs, NoValue, ts, g, "kid", o, z, r)
  BY <1>1, <1>2, <1>11
<1>15. \A k, v \in Int :
           Has(gs, NoValue, ts, g, "kid", o, k, v) =>
               \/ k = z /\ v = r
               \/ Has(fs, r, td, h, "kid", o, L[k], v)
  <2> SUFFICES ASSUME NEW k \in 1..z - 1 PROVE Has(fs, r, td, h, "kid", o, L[k], new[k].val)
    BY <1>2, <1>11
  <2>1. L[k] \in DOMAIN old /\ L[k] \in Int /\ new[k].val = old[L[k]].val
        /\ old[L[k]].val \in Int
    BY <1>1, <1>2, <1>3
  <2> QED BY <1>10, <2>1
<1>16. \A l, v \in Int :
           Has(fs, r, td, h, "kid", o, l, v) /\ l # m =>
               \E k \in Int : Has(gs, NoValue, ts, g, "kid", o, k, v)
  <2> SUFFICES ASSUME NEW l \in DOMAIN old, l # m
               PROVE  \E k \in Int : Has(gs, NoValue, ts, g, "kid", o, k, old[l].val)
    BY <1>10
  <2> DEFINE k == IF l < m THEN l ELSE l - 1
  <2>1. k \in 1..z - 1 /\ l \in Int
    BY <1>1, <1>2
  <2>2. L[k] = l
    BY <1>3, <2>1
  <2> HIDE DEF k
  <2>3. new[k] = old[l] /\ k \in DOMAIN new /\ k \in Int
    BY <1>2, <2>1, <2>2
  <2>4. Has(gs, NoValue, ts, g, "kid", o, k, old[l].val)
    BY <1>1, <1>11, <2>3
  <2> QED BY <2>3, <2>4
<1>17. Sorted(gs, NoValue, g)
  <2>1. \A i, j \in DOMAIN gs : i < j /\ gs[j].current > 0 => gs[i].current < gs[j].current
    BY DEF Owned, Sorted
  <2>2. ASSUME NEW c \in DOMAIN g, NEW k \in DOMAIN g[c].kids, g[c].kids[k].val > 0
        PROVE  c < g[c].kids[k].val
    <3>1. CASE c # o
      BY <2>2, <3>1 DEF Owned, Sorted
    <3>2. CASE c = o /\ k = z
      BY <1>2, <2>2, <3>2 DEF Owned, Sorted
    <3>3. CASE c = o /\ k # z
      <4>1. k \in 1..z - 1 /\ g[c].kids[k] = new[k]
        BY <1>2, <2>2, <3>3
      <4>2. L[k] \in DOMAIN old /\ new[k] = old[L[k]]
        BY <1>2, <4>1
      <4> QED BY <1>4, <2>2, <3>3, <4>1, <4>2 DEF Owned, Sorted
    <3> QED BY <3>1, <3>2, <3>3
  <2> QED BY <2>1, <2>2 DEF Sorted
(* Where a value was held before.                                          *)
<1>18. ASSUME NEW a \in Holders, NEW i \in Int, NEW k \in Int, NEW v \in Int,
              Has(gs, NoValue, ts, g, a, i, k, v), v > 0
       PROVE  \/ a = "frame" /\ Has(fs, r, td, h, "frame", i, k, v)
              \/ a = "kid" /\ i # o /\ Has(fs, r, td, h, "kid", i, k, v)
              \/ a = "kid" /\ i = o /\ k = z /\ Has(fs, r, td, h, "ret", 0, 0, v)
              \/ a = "kid" /\ i = o /\ Has(fs, r, td, h, "kid", o, L[k], v)
              \/ a = "todo" /\ i = 1 /\ k = 0 /\ Has(fs, r, td, h, "kid", o, m, v)
  <2>1. CASE a = "frame"
    BY <1>8, <1>18, <2>1
  <2>2. CASE a = "ret"
    BY <1>18, <2>2 DEF Has
  <2>3. CASE a = "todo"
    BY <1>12, <1>18, <2>3
  <2>4. CASE a = "kid" /\ i # o
    BY <1>9, <1>18, <2>4
  <2>5. CASE a = "kid" /\ i = o
    BY <1>5, <1>15, <1>18, <2>5
  <2> QED BY <2>1, <2>2, <2>3, <2>4, <2>5 DEF Holders
<1>19. HeldAlive(gs, NoValue, ts, g, NULL)
  <2> SUFFICES ASSUME NEW a \in Holders, NEW i \in Int, NEW k \in Int, NEW v \in Int,
                      Has(gs, NoValue, ts, g, a, i, k, v), v > 0
               PROVE  Alive(g, v)
    BY DEF HeldAlive
  <2>1. L[k] \in Int
    BY <1>3
  <2>2. PICK b \in Holders, j \in Int, l \in Int : Has(fs, r, td, h, b, j, l, v)
    BY <1>18, <2>1 DEF Holders
  <2>3. Alive(h, v)
    BY <2>2 DEF Owned, HeldAlive
  <2> QED BY <1>7, <2>3
<1>20. HeldOnce(gs, NoValue, ts, g, NULL)
  <2> SUFFICES ASSUME NEW a \in Holders, NEW b \in Holders, NEW i \in Int, NEW k \in Int,
                      NEW j \in Int, NEW l \in Int, NEW v \in Int,
                      Has(gs, NoValue, ts, g, a, i, k, v), Has(gs, NoValue, ts, g, b, j, l, v), v > 0
               PROVE  a = b /\ i = j /\ k = l
    BY SMTT(90) DEF HeldOnce
  <2>1. ASSUME NEW c \in Holders, NEW d \in Holders, NEW s \in Int, NEW t \in Int,
               NEW u \in Int, NEW w \in Int,
               Has(fs, r, td, h, c, s, t, v), Has(fs, r, td, h, d, u, w, v)
        PROVE  c = d /\ s = u /\ t = w
    BY <2>1 DEF Owned, HeldOnce
  <2>2. L[k] \in Int /\ L[l] \in Int /\ L[k] # m /\ L[l] # m /\ (L[k] = L[l] => k = l)
    BY <1>3
  <2>3. \/ a = "frame" /\ Has(fs, r, td, h, "frame", i, k, v)
        \/ a = "kid" /\ i # o /\ Has(fs, r, td, h, "kid", i, k, v)
        \/ a = "kid" /\ i = o /\ k = z /\ Has(fs, r, td, h, "ret", 0, 0, v)
        \/ a = "kid" /\ i = o /\ Has(fs, r, td, h, "kid", o, L[k], v)
        \/ a = "todo" /\ i = 1 /\ k = 0 /\ Has(fs, r, td, h, "kid", o, m, v)
    BY <1>18
  <2>4. \/ b = "frame" /\ Has(fs, r, td, h, "frame", j, l, v)
        \/ b = "kid" /\ j # o /\ Has(fs, r, td, h, "kid", j, l, v)
        \/ b = "kid" /\ j = o /\ l = z /\ Has(fs, r, td, h, "ret", 0, 0, v)
        \/ b = "kid" /\ j = o /\ Has(fs, r, td, h, "kid", o, L[l], v)
        \/ b = "todo" /\ j = 1 /\ l = 0 /\ Has(fs, r, td, h, "kid", o, m, v)
    BY <1>18
  <2> QED BY <2>1, <2>2, <2>3, <2>4 DEF Holders
<1>21. Kept(gs, NoValue, ts, g, failed)
  <2> SUFFICES ASSUME NEW q \in DOMAIN g, Alive(g, q)
               PROVE  HeldBySome(gs, NoValue, ts, g, q) \/ Forgotten(gs, NoValue, ts, g, failed, q)
    BY DEF Kept
  <2>1. q \in Int /\ q > 0 /\ Alive(h, q) /\ q \in DOMAIN h
    BY <1>1, <1>7
  <2>2. z \in Int
    BY <1>2
  <2>3. CASE HeldBySome(fs, r, td, h, q)
    <3>1. PICK a \in Holders, i \in Int, k \in Int : Has(fs, r, td, h, a, i, k, q)
      BY <2>3 DEF HeldBySome
    <3>2. CASE a = "frame"
      BY <1>8, <2>1, <3>1, <3>2 DEF HeldBySome, Holders
    <3>3. CASE a = "ret"
      <4>1. r = q
        BY <3>1, <3>3 DEF Has
      <4> QED BY <1>14, <2>2, <4>1 DEF HeldBySome, Holders
    <3>4. CASE a = "todo"
      BY <3>1, <3>4 DEF Has
    <3>5. CASE a = "kid" /\ i # o
      BY <1>9, <2>1, <3>1, <3>5 DEF HeldBySome, Holders
    <3>6. CASE a = "kid" /\ i = o
      <4>1. Has(gs, NoValue, ts, g, "todo", 1, 0, q)
            \/ \E l \in Int : Has(gs, NoValue, ts, g, "kid", o, l, q)
        BY <1>13, <1>16, <2>1, <3>1, <3>6
      <4> QED BY <4>1 DEF HeldBySome, Holders
    <3> QED BY <3>2, <3>3, <3>4, <3>5, <3>6 DEF Holders
  <2>4. CASE Forgotten(fs, r, td, h, failed, q)
    <3>1. ~Wide => failed = "object_field_end"
      BY <2>4 DEF Forgotten
    <3>2. CASE r = Truncated /\ \A i \in DOMAIN fs : fs[i].current < q
      <4>1. o < q
        BY <3>2
      <4> QED BY <1>14, <2>2, <3>1, <3>2, <4>1 DEF Forgotten
    <3>3. \A i, v \in Int : ~Has(fs, r, td, h, "todo", i, 0, v)
      BY DEF Has
    <3>4. ASSUME NEW c \in Int, NEW k \in Int, NEW v \in Int,
                 Has(fs, r, td, h, "kid", c, k, v), v < 0, c < q
          PROVE  Forgotten(gs, NoValue, ts, g, failed, q)
      <4>1. CASE c # o
        <5>1. Has(gs, NoValue, ts, g, "kid", c, k, v)
          BY <1>9, <3>4, <4>1
        <5> QED BY <3>1, <3>4, <5>1 DEF Forgotten
      <4>2. CASE c = o /\ k = m
        <5>1. Has(gs, NoValue, ts, g, "todo", 1, 0, v)
          BY <1>13, <3>4, <4>2
        <5> QED BY <3>1, <3>4, <5>1 DEF Forgotten
      <4>3. CASE c = o /\ k # m
        <5>1. PICK l \in Int : Has(gs, NoValue, ts, g, "kid", o, l, v)
          BY <1>16, <3>4, <4>3
        <5> QED BY <3>1, <3>4, <4>3, <5>1 DEF Forgotten
      <4> QED BY <4>1, <4>2, <4>3
    <3> QED BY <2>4, <3>2, <3>3, <3>4 DEF Forgotten
  <2> QED BY <2>1, <2>3, <2>4 DEF Owned, Kept
<1> QED BY <1>17, <1>19, <1>20, <1>21 DEF Owned

-----------------------------------------------------------------------------
(* Who holds what is kept by every step.                                   *)

LEMMA ReturnPops ==
    ASSUME Shape, frames # << >>, NEW p, Return(p)
    PROVE  Popped(frames, frames') /\ ret' = p
<1>1. /\ frames' \in Seq(Frame) /\ Len(frames') = Len(frames) - 1 /\ Len(frames) > 0
      /\ \A i \in 1..Len(frames) - 1 : frames'[i] = frames[i]
  BY FrontFits DEF Return, Shape
<1>2. DOMAIN frames = 1..Len(frames) /\ DOMAIN frames' = 1..Len(frames) - 1
      /\ Len(frames) \in Nat
  BY <1>1 DEF Shape
<1> QED BY <1>1, <1>2 DEF Return, Popped

LEMMA FailsOwned ==
    ASSUME SInv, frames # << >>, todo = << >>, ret \in {NoValue, ErrorPtr},
           Owned(frames, ret, todo, heap, failedIn, NULL), Fails
    PROVE  Owned(frames', ret', todo', heap', failedIn', NULL)
<1>1. PICK p \in {ErrorPtr, Truncated} :
          Return(p) /\ todo' = <<Top.current>> /\ FailedHere /\ UNCHANGED heap
  BY DEF Fails
<1>2. Popped(frames, frames') /\ ret' = p
  BY <1>1, ReturnPops DEF SInv
<1>3. Typed(frames, ret, todo, heap) /\ Top = frames[Len(frames)]
  BY DEF SInv, Shape, Typed, Top, Last
<1>4. failedIn' = failedIn \/ failedIn = "none"
  BY <1>1 DEF FailedHere
<1> QED BY <1>1, <1>2, <1>3, <1>4, OwnedFail

LEMMA TurnedOwned ==
    ASSUME SInv, FirstFailure, Parsing, ret = NoValue,
           Owned(frames, ret, todo, heap, failedIn, NULL), Turned
    PROVE  Owned(frames', ret', todo', heap', failedIn', NULL)
<1> USE DEF NULL, ErrorPtr, Truncated, NoValue
<1> DEFINE n == Len(frames)
<1>1. Typed(frames, ret, todo, heap) /\ InRange(frames, ret, todo, heap)
      /\ Shape /\ todo = << >> /\ frames # << >>
  BY DEF SInv, Shape, Typed, Parsing
<1>2. DOMAIN frames = 1..n /\ n \in Nat \ {0} /\ n \in DOMAIN frames /\ Top = frames[n]
      /\ Len(heap) \in Nat
  BY <1>1, TopFits, TypedFits DEF SInv, Top, Last
<1>3. n = Len(frames)
  OBVIOUS
<1> HIDE DEF n
<1>4. CASE KeepsNode
  <2>1. PICK f \in Frame : f.current = Top.current /\ Replaces(f)
                           /\ UNCHANGED <<ret, heap, todo, failedIn>>
    BY <1>4 DEF KeepsNode
  <2>2. DOMAIN frames' = DOMAIN frames /\ frames'[n] = f
        /\ \A i \in DOMAIN frames : i # n => frames'[i] = frames[i]
    BY <1>1, <1>3, <2>1, ReplaceFits DEF Typed, Replaces
  <2>3. \A i \in DOMAIN frames : frames'[i].current = frames[i].current
    BY <1>2, <2>1, <2>2
  <2> QED BY <2>1, <2>2, <2>3, OwnedSame
(* A node is made for a frame that is, or would be, f.                     *)
<1>5. ASSUME NEW f \in Frame, NEW m \in HeapNode, Top.current = NULL, f.current = Allocated,
             m.refs = 1, m.kids = << >>, NewNode(m)
      PROVE  /\ Owned([frames EXCEPT ![n] = f], ret, todo, heap', failedIn, NULL)
             /\ Typed([frames EXCEPT ![n] = f], ret, todo, heap')
  <2> DEFINE gs == [frames EXCEPT ![n] = f]
  <2>1. /\ gs \in Seq(Frame) /\ DOMAIN gs = DOMAIN frames /\ gs[n] = f
        /\ \A i \in DOMAIN frames : i # n => gs[i] = frames[i]
    BY <1>1, <1>3, ReplaceFits DEF Typed
  <2>2. /\ heap' \in Seq(HeapNode) /\ Len(heap') = Len(heap) + 1
        /\ \A c \in DOMAIN heap : heap'[c] = heap[c]
        /\ heap'[Len(heap) + 1] = m
    BY <1>1, <1>5, GrowRange DEF Typed, NewNode
  <2>3. DOMAIN heap' = 1..Len(heap) + 1
    BY <2>2
  <2> HIDE DEF gs
  <2>4. Owned(gs, ret, todo, heap', failedIn, NULL)
    BY <1>1, <1>2, <1>3, <1>5, <2>1, <2>2, <2>3, OwnedMake DEF Allocated
  <2> QED BY <1>1, <2>1, <2>2, <2>4 DEF gs, Typed
<1>6. CASE MakesNode
  <2>1. PICK f \in Frame, m \in HeapNode :
            /\ Top.current = NULL /\ f.current = Allocated /\ Replaces(f)
            /\ m.refs = 1 /\ m.kids = << >> /\ NewNode(m) /\ UNCHANGED <<ret, todo, failedIn>>
    BY <1>6 DEF MakesNode
  <2>2. frames' = [frames EXCEPT ![n] = f]
    BY <1>3, <2>1 DEF Replaces
  <2> QED BY <1>5, <2>1, <2>2
<1>7. CASE ReturnsNode
  <2>1. Popped(frames, frames') /\ ret' = Top.current /\ UNCHANGED <<heap, todo, failedIn>>
    BY <1>1, <1>7, ReturnPops DEF ReturnsNode
  <2> QED BY <1>1, <1>2, <1>3, <2>1, OwnedReturn
<1>8. CASE ReturnsNew
  <2>1. PICK m \in HeapNode :
            /\ Top.current = NULL /\ Return(Allocated)
            /\ m.refs = 1 /\ m.kids = << >> /\ NewNode(m) /\ UNCHANGED <<todo, failedIn>>
    BY <1>8 DEF ReturnsNew
  <2>2. PICK f \in Frame : f.current = Allocated
    <3>1. [NewFrame EXCEPT !.current = Allocated] \in Frame
          /\ [NewFrame EXCEPT !.current = Allocated].current = Allocated
      <4>1. Allocated \in Int
        BY <1>2 DEF Allocated
      <4>2. ASSUME NEW u \in Frame, NEW p \in Int
            PROVE  [u EXCEPT !.current = p] \in Frame /\ [u EXCEPT !.current = p].current = p
        BY DEF Frame
      <4> QED BY <4>1, <4>2, NewFrameFits
    <3> QED BY <3>1
  <2> DEFINE gs == [frames EXCEPT ![n] = f]
  <2>3. Owned(gs, ret, todo, heap', failedIn, NULL) /\ Typed(gs, ret, todo, heap')
    BY <1>5, <2>1, <2>2
  <2>4. /\ gs \in Seq(Frame) /\ Len(gs) = n /\ DOMAIN gs = DOMAIN frames /\ gs[n] = f
        /\ \A i \in DOMAIN frames : i # n => gs[i] = frames[i]
    BY <1>1, <1>3, ReplaceFits DEF Typed
  <2> HIDE DEF gs
  <2>5. Popped(frames, frames') /\ ret' = Allocated
    BY <1>1, <2>1, ReturnPops
  <2>6. Popped(gs, frames')
    <3>1. /\ frames' \in Seq(Frame) /\ DOMAIN frames' = 1..n - 1
          /\ \A i \in DOMAIN frames' : frames'[i] = frames[i]
      BY <1>3, <2>5 DEF Popped
    <3>2. \A i \in 1..n - 1 : i \in DOMAIN frames /\ i # n
      BY <1>2
    <3>3. \A i \in DOMAIN frames' : frames'[i] = gs[i]
      BY <2>4, <3>1, <3>2
    <3> QED BY <1>2, <2>4, <3>1, <3>3 DEF Popped
  <2>7. Owned(frames', gs[Len(gs)].current, todo, heap', failedIn, NULL)
    BY <2>3, <2>6, OwnedReturn
  <2> QED BY <2>1, <2>2, <2>4, <2>5, <2>7
<1>9. CASE Fails
  BY <1>1, <1>9, FailsOwned
<1>10. CASE Forgets
  <2>1. /\ Popped(frames, frames') /\ ret' = ErrorPtr /\ FailedHere /\ UNCHANGED <<heap, todo>>
        /\ Top.current = NULL \/ Top.state = "object_field_end"
    BY <1>1, <1>10, ReturnPops DEF Forgets
  <2>2. failedIn' = failedIn \/ failedIn = "none"
    BY <2>1 DEF FailedHere
  <2>3. ~Wide => failedIn = "none"
    BY DEF FirstFailure, Parsing
  <2>4. Top.current = NULL \/ (~Wide => failedIn' = "object_field_end")
    BY <2>1, <2>3 DEF FailedHere
  <2> QED BY <1>1, <1>2, <1>3, <2>1, <2>2, <2>4, OwnedForget
<1>11. CASE Calls
  <2>1. frames' = Append(frames, NewFrame) /\ UNCHANGED <<ret, heap, todo, failedIn>>
    BY <1>11 DEF Calls
  <2>2. /\ DOMAIN frames' = 1..Len(frames) + 1 /\ frames'[Len(frames) + 1].current = NULL
        /\ \A i \in DOMAIN frames : frames'[i] = frames[i]
    BY <1>1, <2>1, NewFrameFits DEF Typed
  <2>3. Owned(frames', ret, todo, heap, failedIn, NULL)
    BY <1>1, <2>2, OwnedCall
  <2> QED BY <2>1, <2>3
<1> QED BY <1>4, <1>6, <1>7, <1>8, <1>9, <1>10, <1>11 DEF Turned

LEMMA AddedOwned ==
    ASSUME SInv, Parsing, ret # ErrorPtr, Added, Top.current > NULL,
           Owned(frames, ret, todo, heap, failedIn, NULL)
    PROVE  Owned(frames', ret', todo', heap', failedIn', NULL)
<1> USE DEF NULL
<1> DEFINE n == Len(frames)
           o == Top.current
<1>1. Typed(frames, ret, todo, heap) /\ Shape /\ todo = << >> /\ frames # << >>
  BY DEF SInv, Shape, Typed, Parsing
<1>2. /\ n \in Nat /\ n \in DOMAIN frames /\ frames[n].current = o
      /\ o \in DOMAIN heap /\ o \in Int
  <2>1. n \in Nat /\ n \in DOMAIN frames /\ Top = frames[n]
    BY <1>1, TopFits, TypedFits DEF SInv, Top, Last
  <2>2. o \in 0..Len(heap) /\ DOMAIN heap = 1..Len(heap) /\ Len(heap) \in Nat
    BY <1>1, <2>1, TypedFits DEF SInv, InRange
  <2> QED BY <2>1, <2>2
<1>3. n = Len(frames) /\ o = Top.current
  OBVIOUS
<1> HIDE DEF n, o
<1>4. PICK m \in Int, new \in Seq(Kid) :
          Grown(heap[o].kids, m, ret, new, todo') /\ heap' = [heap EXCEPT ![o].kids = new]
  BY <1>1, <1>2, <1>3, AddedGrows DEF Added
<1>5. Stores(heap, heap', o, new)
  BY <1>1, <1>2, <1>4, KidsFit DEF Typed, Stores
<1>6. PICK f \in Frame : f.current = o /\ Replaces(f)
  BY <1>3 DEF Added
<1>7. /\ DOMAIN frames' = DOMAIN frames /\ frames'[n] = f
      /\ \A i \in DOMAIN frames : i # n => frames'[i] = frames[i]
  BY <1>1, <1>3, <1>6, ReplaceFits DEF Typed, Replaces
<1>8. Keeps(frames, frames')
  BY <1>2, <1>6, <1>7 DEF Keeps
<1>9. ret' = NoValue /\ UNCHANGED failedIn
  BY DEF Added
<1>10. Owned(frames', NoValue, todo', heap', failedIn, NULL)
  <2>1. Len(frames) = n /\ o \in DOMAIN heap
    BY <1>2, <1>3
  <2> QED BY <1>1, <1>2, <1>4, <1>5, <1>8, <2>1, OwnedAdd
<1> QED BY <1>9, <1>10

LEMMA TokenerOwned ==
    ASSUME SInv, FirstFailure, Tokener, Owned(frames, ret, todo, heap, failedIn, NULL)
    PROVE  Owned(frames', ret', todo', heap', failedIn', NULL) /\ FirstFailure'
<1>1. /\ Parsing
      /\ \/ ret = NoValue /\ Turned
         \/ ret # ErrorPtr /\ Added /\ Top.current > NULL
         \/ ret = ErrorPtr /\ Fails
  BY TokenerS
<1>2. Owned(frames', ret', todo', heap', failedIn', NULL)
  BY <1>1, TurnedOwned, AddedOwned, FailsOwned DEF Parsing
<1>3. Fails => (~Wide => ret' = ErrorPtr)
  BY DEF Fails, Return
<1>4. ~Wide /\ ret # ErrorPtr => failedIn = "none"
  BY <1>1 DEF FirstFailure, Parsing
<1>5. Turned => UNCHANGED failedIn \/ Fails \/ ret' = ErrorPtr
  BY DEF Turned, KeepsNode, MakesNode, ReturnsNode, ReturnsNew, Forgets, Calls, Return
<1>6. step' = step /\ step = "parse"
  BY <1>1 DEF Parsing
<1> QED BY <1>1, <1>2, <1>3, <1>4, <1>5, <1>6 DEF FirstFailure, Added, NoValue, ErrorPtr

(* json_object_put() of the next pointer, whoever holds the value r.       *)
LEMMA ReleaseOwned ==
    ASSUME SInv, Release, NEW r \in Int, NEW x \in Int,
           Owned(frames, r, todo, heap, failedIn, x)
    PROVE  \/ step' = "done" /\ result' = "CRASHED"
           \/ Owned(frames', r, todo', heap', failedIn', x)
<1> USE DEF NULL, ErrorPtr, Truncated, NoValue
<1>1. /\ todo # << >> /\ (Puts \/ Skips \/ Crashes)
      /\ UNCHANGED <<family, input, pos, frames, ret, failedIn>>
  BY ReleaseKinds
<1>2. /\ heap \in Seq(HeapNode) /\ todo \in Seq(Int) /\ Len(heap) \in Nat
      /\ DOMAIN heap = 1..Len(heap) /\ Head(todo) \in Truncated..Len(heap)
      /\ Head(todo) = todo[1] /\ 1 \in DOMAIN todo
      /\ Len(Tail(todo)) = Len(todo) - 1 /\ DOMAIN Tail(todo) = 1..Len(todo) - 1
      /\ \A i \in DOMAIN Tail(todo) : Tail(todo)[i] = todo[i + 1]
  <2>1. Tail(todo) \in Seq(Int)
    BY <1>1, HeadFits
  <2> QED BY <1>1, <2>1, HeadFits DEF SInv, Shape
<1>3. Typed(frames, r, todo, heap)
  BY DEF SInv, Shape, Typed
<1>4. CASE Skips
  <2>1. todo[1] >= NULL /\ ~Alive(heap, todo[1])
    BY <1>2, <1>4 DEF Skips, Alive
  <2>2. todo' = Tail(todo) /\ heap' = heap
    BY <1>4 DEF Skips
  <2> QED BY <1>1, <1>2, <1>3, <2>1, <2>2, OwnedSkip
<1>5. CASE Puts
  <2> DEFINE p == todo[1]
             m == Len(heap[p].kids)
  <2>1. p \in DOMAIN heap /\ heap[p].refs = 1 /\ p > 0 /\ p \in Int
        /\ heap' = Put(heap, p) /\ todo' = PutNext(heap, p) \o Tail(todo)
    BY <1>2, <1>5, SMTT(30) DEF Puts
  <2>2. p = todo[1] /\ m = Len(heap[p].kids)
    OBVIOUS
  <2> HIDE DEF m, p
  <2>3. Frees(heap, heap', p)
    <3>1. heap[p].refs > 0
      BY <2>1
    <3> QED BY <1>2, <2>1, <3>1, PutFits DEF Frees
  <2>4. /\ todo' \in Seq(Int) /\ m \in Nat
        /\ Len(todo') = m + Len(todo) - 1
        /\ \A i \in 1..m : todo'[i] = heap[p].kids[i].val
        /\ \A i \in 1..Len(todo) - 1 : todo'[m + i] = todo[i + 1]
    BY <1>1, <1>2, <2>1, <2>2, PutNextFits
  <2>5. Follows(todo, todo', heap[p].kids, m) /\ Alive(heap, p)
    <3>1. DOMAIN todo' = 1..m + Len(todo) - 1
      BY <2>4
    <3> QED BY <2>1, <2>2, <2>4, <3>1 DEF Follows, Alive
  <2>6. Owned(frames, r, todo', heap', failedIn, x)
    BY <1>2, <1>3, <2>1, <2>2, <2>3, <2>4, <2>5, OwnedPut
  <2> QED BY <1>1, <2>6
<1>6. CASE Crashes
  BY <1>6 DEF Crashes
<1> QED BY <1>1, <1>4, <1>5, <1>6

(* With no call, no release and no value, no node is left: the first one   *)
(* made would be in a container that was made before.                      *)
LEMMA NoneAlive ==
    ASSUME NEW fs, NEW r, NEW td, NEW h, NEW failed, NEW x,
           Typed(fs, r, td, h), fs = << >>, td = << >>, r \in {NoValue, NULL},
           Owned(fs, r, td, h, failed, x)
    PROVE  \A o \in DOMAIN h : ~Alive(h, o)
<1> USE DEF NULL, ErrorPtr, Truncated, NoValue
<1> DEFINE S == {o \in DOMAIN h : Alive(h, o)}
<1> SUFFICES ASSUME S # {} PROVE FALSE
  OBVIOUS
<1>1. \A o \in DOMAIN h : o \in Nat /\ o > 0
  BY TypedFits
<1>2. PICK q \in S : \A n \in S : ~(n < q)
  BY <1>1, Least
<1>3. \A i, k, v \in Int : Has(fs, r, td, h, "kid", i, k, v) =>
          i \in S /\ (v > 0 => i < v)
  BY DEF Has, Alive, Owned, Sorted
<1>4. \A i, v \in Int : ~Has(fs, r, td, h, "todo", i, 0, v)
  BY DEF Has
<1>5. ASSUME HeldBySome(fs, r, td, h, q) PROVE FALSE
  <2>1. PICK a \in Holders, i \in Int, k \in Int : Has(fs, r, td, h, a, i, k, q)
    BY <1>5 DEF HeldBySome
  <2>2. a = "kid"
    BY <1>1, <2>1 DEF Has, Holders
  <2> QED BY <1>1, <1>2, <1>3, <2>1, <2>2
<1>6. ~Forgotten(fs, r, td, h, failed, q)
  BY <1>2, <1>3, <1>4 DEF Forgotten
<1> QED BY <1>2, <1>5, <1>6 DEF Owned, Kept

IInv == SInv /\ FirstFailure /\ Ownership

(* Who holds what, as the invariants state it.                             *)
LEMMA NothingLeftFits ==
    ASSUME Shape
    PROVE  Live = {} <=> \A o \in DOMAIN heap : ~Alive(heap, o)
<1>1. \A o \in DOMAIN heap : heap[o].refs \in 0..1
  BY KidInRange DEF Shape
<1> QED BY <1>1 DEF Live, Alive

LEMMA InitI == Init => IInv
<1> SUFFICES ASSUME Init PROVE IInv
  OBVIOUS
<1>1. step = "request" /\ failedIn = "none"
  BY DEF Init
<1> QED BY <1>1, InitS DEF IInv, FirstFailure, Ownership, NothingLeft

(* The answer, once parsed, is looked at.                                  *)
LEMMA CheckOwned ==
    ASSUME SInv, Check, Owned(frames, ret, todo, heap, failedIn, NULL)
    PROVE  Ownership'
<1> USE DEF NULL, ErrorPtr, Truncated, NoValue
<1>1. step = "check" /\ frames = << >> /\ todo = << >> /\ Shape
      /\ Typed(frames, ret, todo, heap) /\ ret \in Int
  BY DEF SInv, Phase, Check, CheckNull, CheckCrash, CheckKey, CheckPayload, Shape, Typed
<1>2. ASSUME NEW r, Answer(r, "done"), r \in {"CRASHED", "JSON_PACKET_KEY_NOTFOUND"}
      PROVE  Ownership'
  BY <1>2 DEF Answer, Ownership, NothingLeft
<1>3. CASE CheckNull
  <2>1. Live = {}
    BY <1>1, <1>3, NoneAlive, NothingLeftFits DEF CheckNull
  <2>2. heap' = heap /\ step' = "done"
    BY <1>3 DEF CheckNull, Answer, tokener
  <2>3. Live' = {}
    BY <2>1, <2>2 DEF Live
  <2> QED BY <2>2, <2>3 DEF Ownership, NothingLeft
<1>4. CASE CheckCrash \/ CheckKey
  BY <1>2, <1>4 DEF CheckCrash, CheckKey
<1>5. CASE CheckPayload
  <2> DEFINE p == PayloadOf(ret)
  <2>1. CASE Answer("CRASHED", "done")
    BY <1>2, <2>1
  <2>2. CASE ~Answer("CRASHED", "done")
    <3>1. /\ ret \in DOMAIN heap /\ p \in DOMAIN heap
          /\ step' = "put" /\ todo' = <<p, ret>> /\ UNCHANGED <<frames, ret, heap, failedIn>>
      BY <1>5, <2>2 DEF CheckPayload, IsObject
    <3>2. p > 0
      BY <1>1, <3>1, TypedFits
    <3>3. 1 \in DOMAIN heap[ret].kids /\ p = heap[ret].kids[1].val
      <4>1. DOMAIN heap[ret].kids = 1..Len(heap[ret].kids) /\ Len(heap[ret].kids) \in Nat
            /\ heap[ret].kids \in Seq(Kid)
        BY <3>1, KidInRange DEF SInv, Shape
      <4>2. heap[ret].kids # << >> /\ p = heap[ret].kids[1].val
        BY <3>2 DEF PayloadOf
      <4> QED BY <4>1, <4>2, EmptySeq
    <3>4. PayloadOf(ret)' = p
      BY <3>1 DEF PayloadOf
    <3> HIDE DEF p
    <3>5. Owned(frames, NoValue, <<p, ret>>, heap, failedIn, p)
      BY <1>1, <3>1, <3>2, <3>3, OwnedAnswer
    <3>6. Owned(frames', NoValue, todo', heap', failedIn', p)
      BY <3>1, <3>5
    <3> QED BY <3>1, <3>4, <3>6 DEF Ownership, NothingLeft
  <2> QED BY <2>1, <2>2
<1> QED BY <1>3, <1>4, <1>5 DEF Check

LEMMA NextI == IInv /\ [Next]_vars => IInv'
<1> SUFFICES ASSUME IInv, [Next]_vars PROVE IInv'
  OBVIOUS
<1> USE DEF NULL, ErrorPtr, Truncated, NoValue
<1>1. SInv /\ SInv' /\ FirstFailure /\ Ownership
  BY NextS DEF IInv
<1>2. ASSUME Release PROVE FirstFailure' /\ Ownership'
  <2>1. /\ todo # << >> /\ (Puts \/ Skips \/ Crashes)
        /\ UNCHANGED <<family, input, pos, frames, ret, failedIn>>
    BY <1>1, <1>2, ReleaseKinds
  <2>2. step' = step \/ (step' = "done" /\ result' = "CRASHED")
    BY <2>1 DEF Puts, Skips, Crashes
  <2>3. step \in {"request", "parse", "put"}
    BY <1>1, <2>1 DEF SInv, Phase, Shape, Steps
  <2>4. FirstFailure'
    BY <1>1, <2>1, <2>2 DEF FirstFailure
  <2>5. CASE step' = "done" /\ result' = "CRASHED"
    BY <2>4, <2>5 DEF Ownership, NothingLeft
  <2>6. CASE ~(step' = "done" /\ result' = "CRASHED") /\ step = "request"
    BY <2>2, <2>4, <2>6 DEF Ownership, NothingLeft
  <2>7. CASE ~(step' = "done" /\ result' = "CRASHED") /\ step = "parse"
    <3>1. Owned(frames, ret, todo, heap, failedIn, NULL) /\ ret \in Int
      BY <1>1, <2>7 DEF Ownership, SInv, Shape
    <3>2. Owned(frames', ret, todo', heap', failedIn', NULL)
      BY <1>1, <1>2, <2>7, <3>1, ReleaseOwned
    <3> QED BY <2>1, <2>2, <2>4, <2>7, <3>2 DEF Ownership, NothingLeft
  <2>8. CASE ~(step' = "done" /\ result' = "CRASHED") /\ step = "put"
    <3>1. /\ Owned(frames, NoValue, todo, heap, failedIn, PayloadOf(ret))
          /\ ret \in DOMAIN heap /\ PayloadOf(ret) \in DOMAIN heap
      BY <1>1, <2>8 DEF Ownership, SInv, Phase
    <3>2. PayloadOf(ret) \in Int
      BY <1>1, <3>1 DEF SInv, Shape
    <3>3. Owned(frames', NoValue, todo', heap', failedIn', PayloadOf(ret))
      BY <1>1, <1>2, <2>8, <3>1, <3>2, ReleaseOwned
    <3>4. PayloadOf(ret)' = PayloadOf(ret)
      <4>1. CASE Puts
        <5>1. /\ Head(todo) \in DOMAIN heap /\ heap[Head(todo)].refs > 0
              /\ heap' = Put(heap, Head(todo)) /\ heap \in Seq(HeapNode)
          BY <1>1, <2>1, <4>1, HeadFits DEF Puts, SInv, Shape
        <5>2. heap'[ret].kids = heap[ret].kids
          BY <3>1, <5>1, PutFits
        <5> QED BY <2>1, <5>2 DEF PayloadOf
      <4>2. CASE Skips \/ Crashes
        BY <2>1, <4>2 DEF Skips, Crashes, PayloadOf
      <4> QED BY <2>1, <4>1, <4>2
    <3> QED BY <2>2, <2>4, <2>8, <3>3, <3>4 DEF Ownership, NothingLeft
  <2> QED BY <2>3, <2>4, <2>5, <2>6, <2>7, <2>8
<1>3. ASSUME Parse PROVE FirstFailure' /\ Ownership'
  <2>1. /\ step = "request" /\ step' = "parse" /\ todo' = << >> /\ heap' = << >>
        /\ frames' = <<NewFrame>> /\ ret' = NoValue /\ failedIn' = "none"
    BY <1>1, <1>3 DEF Parse, SInv, Phase, FirstFailure
  <2>2. DOMAIN frames' = {1} /\ frames'[1].current = NULL /\ DOMAIN heap' = {} /\ DOMAIN todo' = {}
    BY <2>1, NewFrameFits
  <2>3. \A a \in Holders : \A i, k, v \in Int :
            Has(frames', ret', todo', heap', a, i, k, v) => v = NULL \/ v = NoValue
    BY <2>1, <2>2 DEF Has, Holders, Alive
  <2>4. Sorted(frames', ret', heap')
    BY <2>1, <2>2 DEF Sorted
  <2>5. HeldAlive(frames', ret', todo', heap', NULL)
    BY <2>3 DEF HeldAlive
  <2>6. HeldOnce(frames', ret', todo', heap', NULL)
    BY <2>3 DEF HeldOnce
  <2>7. Kept(frames', ret', todo', heap', failedIn')
    BY <2>2 DEF Kept
  <2> QED BY <2>1, <2>4, <2>5, <2>6, <2>7 DEF FirstFailure, Ownership, NothingLeft, Owned
<1>4. ASSUME Overrun PROVE FirstFailure' /\ Ownership'
  BY <1>4 DEF Overrun, Crash, FirstFailure, Ownership, NothingLeft
<1>5. ASSUME Tokener PROVE FirstFailure' /\ Ownership'
  <2>1. step = "parse" /\ step' = "parse" /\ Owned(frames, ret, todo, heap, failedIn, NULL)
    BY <1>1, <1>5 DEF Tokener, Ownership
  <2> QED BY <1>1, <1>5, <2>1, TokenerOwned DEF Ownership, NothingLeft
<1>6. ASSUME Parsed PROVE FirstFailure' /\ Ownership'
  <2>1. step = "parse" /\ step' = "check" /\ UNCHANGED tokener
    BY <1>6 DEF Parsed
  <2> QED BY <1>1, <2>1 DEF tokener, FirstFailure, Ownership, NothingLeft
<1>7. ASSUME Check PROVE FirstFailure' /\ Ownership'
  <2>1. step = "check" /\ step' \in {"put", "done"}
    BY <1>7 DEF Check, CheckNull, CheckCrash, CheckKey, CheckPayload, Answer
  <2>2. Owned(frames, ret, todo, heap, failedIn, NULL)
    BY <1>1, <2>1 DEF Ownership
  <2> QED BY <1>1, <1>7, <2>1, <2>2, CheckOwned DEF FirstFailure
<1>8. ASSUME Finished PROVE FirstFailure' /\ Ownership'
  <2>1. /\ step = "put" /\ todo = << >> /\ frames = << >> /\ step' = "done" /\ heap' = heap
        /\ Typed(frames, NoValue, todo, heap) /\ Shape
        /\ Owned(frames, NoValue, todo, heap, failedIn, PayloadOf(ret))
    BY <1>1, <1>8 DEF Finished, SInv, Shape, Phase, Ownership, Typed, tokener
  <2>2. Live = {}
    BY <2>1, NoneAlive, NothingLeftFits
  <2>3. Live' = {}
    BY <2>1, <2>2 DEF Live
  <2> QED BY <2>1, <2>3 DEF FirstFailure, Ownership, NothingLeft
<1>9. CASE UNCHANGED vars
  BY <1>1, <1>9 DEF vars, tokener, FirstFailure, Ownership, NothingLeft, Live, PayloadOf, IInv
<1> QED BY <1>1, <1>2, <1>3, <1>4, <1>5, <1>6, <1>7, <1>8, <1>9 DEF Next, IInv

(* When the answer has been dealt with nothing stays allocated, except for *)
(* the answers that json_check_srv_resp() gives up because of their first  *)
(* key and those that crash: whatever the source and the nesting, and with *)
(* wide pointers too (json_tokener_do_parse, json_object_put).             *)
THEOREM EverythingFreed == Spec => []NothingLeft
<1>1. IInv => NothingLeft
  BY DEF IInv, Ownership
<1> QED BY InitI, NextI, <1>1, PTL DEF Spec

(* The holders of a node that has at most one.                             *)
LEMMA CountHolders ==
    ASSUME SInv, Owned(frames, ret, todo, heap, failedIn, NULL), NEW o \in DOMAIN heap
    PROVE  Held(o) = IF HeldBySome(frames, ret, todo, heap, o) THEN 1 ELSE 0
<1> USE DEF NULL
<1> DEFINE A == {i \in DOMAIN frames : frames[i].current = o}
           C == {i \in DOMAIN todo : todo[i] = o}
           D == UNION {{<<c, i>> : i \in {k \in DOMAIN heap[c].kids : heap[c].kids[k].val = o}}
                           : c \in Live}
           H(a, i, k) == Has(frames, ret, todo, heap, a, i, k, o)
<1>1. Held(o) = Cardinality(A) + (IF ret = o THEN 1 ELSE 0) + Cardinality(C) + Cardinality(D)
  BY DEF Held, Times
<1>2. Typed(frames, ret, todo, heap) /\ Shape
  BY DEF SInv, Shape, Typed
<1>3. o \in Int /\ o > 0
  BY <1>2, TypedFits
<1>4. \A i : i \in A <=> i \in Int /\ H("frame", i, 0)
  BY <1>2, TypedFits DEF Has
<1>5. ret = o <=> H("ret", 0, 0)
  BY DEF Has
<1>6. \A i : i \in C <=> i \in Int /\ H("todo", i, 0)
  BY <1>2, TypedFits DEF Has
<1>7. \A e : e \in D <=> \E c, k \in Int : e = <<c, k>> /\ H("kid", c, k)
  <2>1. \A c : c \in Live <=> Alive(heap, c)
    <3>1. \A c \in DOMAIN heap : heap[c].refs \in 0..1
      BY <1>2, TypedFits
    <3> QED BY <3>1 DEF Live, Alive
  <2>2. \A c, k : Alive(heap, c) /\ k \in DOMAIN heap[c].kids => c \in Int /\ k \in Int
    BY <1>2, TypedFits DEF Alive
  <2>3. \A c, k : H("kid", c, k) <=>
            Alive(heap, c) /\ k \in DOMAIN heap[c].kids /\ heap[c].kids[k].val = o
    BY DEF Has
  <2>4. \A e : e \in D <=> \E c \in Live : \E k \in DOMAIN heap[c].kids :
            heap[c].kids[k].val = o /\ e = <<c, k>>
    OBVIOUS
  <2> HIDE DEF D, H
  <2> QED BY <2>1, <2>2, <2>3, <2>4
<1>8. ASSUME NEW a \in Holders, NEW b \in Holders, NEW i \in Int, NEW k \in Int,
             NEW j \in Int, NEW l \in Int, H(a, i, k), H(b, j, l)
      PROVE  a = b /\ i = j /\ k = l
  BY <1>3, <1>8 DEF Owned, HeldOnce
<1>9. HeldBySome(frames, ret, todo, heap, o) <=> \E a \in Holders : \E i, k \in Int : H(a, i, k)
  BY DEF HeldBySome
<1>10. \A a \in Holders : \A i, k \in Int : H(a, i, k) /\ a # "kid" => k = 0 /\ (a = "ret" => i = 0)
  BY DEF Has, Holders
<1> HIDE DEF A, C, D, H
<1>11. Cardinality({}) = 0 /\ \A x : Cardinality({x}) = 1
  BY FS_EmptySet, FS_Singleton
<1>12. CASE ~HeldBySome(frames, ret, todo, heap, o)
  <2>1. A = {} /\ C = {} /\ D = {} /\ ret # o
    BY <1>4, <1>5, <1>6, <1>7, <1>9, <1>12 DEF Holders
  <2> QED BY <1>1, <1>11, <1>12, <2>1
<1>13. CASE HeldBySome(frames, ret, todo, heap, o)
  <2>1. PICK a \in Holders, i \in Int, k \in Int : H(a, i, k)
    BY <1>9, <1>13
  <2>2. \A b \in Holders : \A j, l \in Int : H(b, j, l) <=> b = a /\ j = i /\ l = k
    BY <1>8, <2>1
  <2>3. CASE a = "frame"
    <3>1. A = {i} /\ C = {} /\ D = {} /\ ret # o
      BY <1>4, <1>5, <1>6, <1>7, <1>10, <2>1, <2>2, <2>3 DEF Holders
    <3>2. Cardinality(A) = 1 /\ Cardinality(C) = 0 /\ Cardinality(D) = 0
      BY <1>11, <3>1
    <3> QED BY <1>1, <1>13, <3>1, <3>2
  <2>4. CASE a = "ret"
    <3>1. A = {} /\ C = {} /\ D = {} /\ ret = o
      BY <1>4, <1>5, <1>6, <1>7, <1>10, <2>1, <2>2, <2>4 DEF Holders
    <3>2. Cardinality(A) = 0 /\ Cardinality(C) = 0 /\ Cardinality(D) = 0
      BY <1>11, <3>1
    <3> QED BY <1>1, <1>13, <3>1, <3>2
  <2>5. CASE a = "todo"
    <3>1. A = {} /\ C = {i} /\ D = {} /\ ret # o
      BY <1>4, <1>5, <1>6, <1>7, <1>10, <2>1, <2>2, <2>5 DEF Holders
    <3>2. Cardinality(A) = 0 /\ Cardinality(C) = 1 /\ Cardinality(D) = 0
      BY <1>11, <3>1
    <3> QED BY <1>1, <1>13, <3>1, <3>2
  <2>6. CASE a = "kid"
    <3>1. A = {} /\ C = {} /\ D = {<<i, k>>} /\ ret # o
      BY <1>4, <1>5, <1>6, <1>7, <1>10, <2>1, <2>2, <2>6 DEF Holders
    <3>2. Cardinality(A) = 0 /\ Cardinality(C) = 0 /\ Cardinality(D) = 1
      BY <1>11, <3>1
    <3> QED BY <1>1, <1>13, <3>1, <3>2
  <2> QED BY <2>3, <2>4, <2>5, <2>6 DEF Holders
<1> QED BY <1>12, <1>13

(* While an answer is parsed every live object has one holder and no freed *)
(* one has any, for every source, nesting and repetition of keys; a call   *)
(* that missed its colon may have forgotten its object                     *)
(* (json_tokener_do_parse, json_object_object_add).                        *)
THEOREM OneHolderEach == Spec => []OneHolder
<1>1. IInv => OneHolder
  <2> SUFFICES ASSUME IInv, step = "parse", ~Wide, NEW o \in DOMAIN heap
               PROVE  Held(o) = heap[o].refs \/ (failedIn = "object_field_end" /\ Held(o) = 0)
    BY DEF OneHolder
  <2>1. SInv /\ Owned(frames, ret, todo, heap, failedIn, NULL)
    BY DEF IInv, Ownership
  <2>2. heap[o].refs \in 0..1 /\ o \in Int /\ o > 0
    <3>1. Typed(frames, ret, todo, heap)
      BY <2>1 DEF SInv, Shape, Typed
    <3> QED BY <3>1, TypedFits
  <2>3. Held(o) = IF HeldBySome(frames, ret, todo, heap, o) THEN 1 ELSE 0
    BY <2>1, CountHolders
  <2>4. HeldBySome(frames, ret, todo, heap, o) => heap[o].refs = 1
    BY <2>1, <2>2 DEF HeldBySome, Owned, HeldAlive, Alive, NULL
  <2>5. heap[o].refs = 1 => \/ HeldBySome(frames, ret, todo, heap, o)
                            \/ failedIn = "object_field_end"
    BY <2>1 DEF Owned, Kept, Alive, Forgotten
  <2> QED BY <2>2, <2>3, <2>4, <2>5
<1> QED BY InitI, NextI, <1>1, PTL DEF Spec
=============================================================================
