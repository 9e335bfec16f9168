---------------------------- MODULE JsonTokener ----------------------------
(***************************************************************************)
(* json_tokener_parse(), the parser the module reads the server's answer   *)
(* with: a state machine over the characters, one frame per recursive call *)
(* of json_tokener_do_parse().                                             *)
(*                                                                         *)
(* The source is chosen while it is read, one symbol at a time.  A symbol  *)
(* is a character the machine tells apart, or a word it only meets as one: *)
(* "null" and "true", "nulx" and "trux" for such a word with a letter      *)
(* wrong, "uhex" for the four digits of a \u escape with their letter,     *)
(* "name" for `pam_smsauth', "result", and "x" for any other character.  A *)
(* word or an escape cut off by the end of the source is left out: it      *)
(* fails as a string without its closing quote does.  \b, \n, \r and \t    *)
(* are one case with \u, so no word that begins like them meets a "bs".    *)
(***************************************************************************)
EXTENDS JsonGrammar

CONSTANTS
    Families,   \* sources to try: records [symbols, len], len the bound on their length
    MaxText,    \* bound on the characters of a string
    Wide        \* whether a pointer is wider than an int

ASSUME TokenerAssumption ==
    /\ MaxText \in Nat /\ Wide \in BOOLEAN
    /\ \A f \in Families :
          /\ NUL \notin f.symbols /\ f.len \in Nat
          /\ "bs" \in f.symbols =>
                f.symbols \cap {"null", "nulx", "true", "trux", "result"} = {}

VARIABLES
    family,     \* where the source is taken from
    input,      \* the source as far as it was looked at; the last symbol may be NUL
    pos,        \* this->pos, from 1
    frames,     \* the calls of do_parse(), the innermost last
    ret,        \* what the innermost call returned, until its caller looks at it
    heap,       \* the objects
    todo,       \* pointers json_object_put() is still to be called for
    failedIn    \* the state in which a call failed first

NoValue == -3

tokener == <<family, input, pos, frames, ret, heap, todo, failedIn>>

NewFrame == [state |-> "eatws", saved |-> "start", current |-> NULL,
             quote |-> NUL, text |-> << >>, name |-> << >>]

Top == Last(frames)
To(state) == [Top EXCEPT !.state = state]
Then(saved) == [Top EXCEPT !.state = "eatws", !.saved = saved]
Found(p) == [Then("finish") EXCEPT !.current = p]
Allocated == Len(heap) + 1

-----------------------------------------------------------------------------
(* Reading.                                                                *)

Ended == input # << >> /\ Last(input) = NUL

(* Inside strings and comments all symbols but a few are alike: only those *)
(* few and the ones the caller looks for in a key are offered.             *)
InString == Top.state \in {"string", "object_field"}
InComment == Top.state \in {"comment", "comment_eol", "comment_end"}
Offered ==
    {NUL} \cup
    (IF Len(input) >= family.len THEN {}
     ELSE IF InComment THEN family.symbols \cap {"*", "/", "nl"}
     ELSE IF ~InString THEN family.symbols
     ELSE family.symbols \cap
            (Quotes \cup {"bs"} \cup
             (IF Len(Top.text) < MaxText THEN {"name", "result", "x"} ELSE {})))

Reads(c) ==
    \/ pos <= Len(input) /\ c = input[pos] /\ UNCHANGED input
    \/ /\ pos = Len(input) + 1 /\ ~Ended
       /\ c \in Offered /\ input' = Append(input, c)

(* The source is read beyond its end.                                      *)
Overruns == pos > Len(input) /\ Ended

-----------------------------------------------------------------------------
(* Leaving a frame.                                                        *)

Return(p) == frames' = Front(frames) /\ ret' = p

(* `goto out' with an error: the object under construction is put, and     *)
(* error_ptr(-err) of an unsigned err is what a wide pointer cannot carry. *)
FailedHere == failedIn' = IF failedIn = "none" THEN Top.state ELSE failedIn
OutError == IF Wide THEN Truncated ELSE ErrorPtr
Fail == Return(OutError) /\ todo' = <<Top.current>> /\ FailedHere

(* The end of a turn that read c: the loop goes on with frame f and n      *)
(* symbols further, or ends because c was NUL.                             *)
Turn(c, f, n) ==
    /\ pos' = pos + n
    /\ IF c # NUL
       THEN /\ frames' = [frames EXCEPT ![Len(frames)] = f]
            /\ UNCHANGED <<ret, todo, failedIn>>
       ELSE IF "finish" \in {f.state, f.saved}
       THEN Return(f.current) /\ UNCHANGED <<todo, failedIn>>
       ELSE Fail

Goes(c, f, n) == Turn(c, f, n) /\ UNCHANGED heap
Makes(c, f, n, kind) == Turn(c, f, n) /\ heap' = Append(heap, Node(kind, f.text))
Refuses == Fail /\ UNCHANGED <<heap, pos>>

(* `return error_ptr(-<constant>)': nothing is put.                        *)
Leaves ==
    Return(ErrorPtr) /\ FailedHere /\ UNCHANGED <<pos, heap, todo>>

-----------------------------------------------------------------------------
(* One turn of the loop, by the state it starts in.                        *)

(* (A variant with a plausible slip: white space is not stepped over.)     *)
EatWsStuck(c) ==
    /\ Top.state = "eatws"
    /\ \/ c \in White /\ Goes(c, Top, 0)
       \/ c = "/" /\ Goes(c, To("comment_start"), 1)
       \/ c \notin White \cup {"/"} /\ Goes(c, To(Top.saved), 0)

EatWs(c) ==
    /\ Top.state = "eatws"
    /\ \/ c \in White /\ Goes(c, Top, 1)
       \/ c = "/" /\ Goes(c, To("comment_start"), 1)
       \/ c \notin White \cup {"/"} /\ Goes(c, To(Top.saved), 0)

Begin(c) ==
    /\ Top.state = "start"
    /\ \/ c = "{" /\ Makes(c, [Then("object") EXCEPT !.current = Allocated], 1, "object")
       \/ c = "[" /\ Makes(c, [Then("array") EXCEPT !.current = Allocated], 1, "array")
       \/ c \in Quotes /\ Goes(c, [To("string") EXCEPT !.quote = c], 1)
       \/ c \in NumberChars /\ Goes(c, [To("number") EXCEPT !.text = <<c>>], 1)
       \/ c \in {"null", "nulx"} /\ Goes(c, [To("null") EXCEPT !.text = <<c>>], 1)
       \/ c \in {"true", "trux"} /\ Goes(c, [To("boolean") EXCEPT !.text = <<c>>], 1)
       \/ /\ c \notin {"{", "[", "null", "true", "nulx", "trux"} \cup Quotes \cup NumberChars
          /\ Refuses

Finish(c) ==
    /\ Top.state = "finish"
    /\ Return(Top.current)
    /\ UNCHANGED <<pos, heap, todo, failedIn>>

(* The turn after the last letter of a word.  Only null's mismatch leaves   *)
(* by a return of its own.                                                 *)
Null(c) ==
    /\ Top.state = "null"
    /\ \/ Top.text = <<"null">> /\ Goes(c, Found(NULL), 0)
       \/ Top.text = <<"nulx">> /\ Leaves

Boolean(c) ==
    /\ Top.state = "boolean"
    /\ \/ Top.text = <<"true">> /\ Makes(c, Found(Allocated), 0, "boolean")
       \/ Top.text = <<"trux">> /\ Refuses

CommentStart(c) ==
    /\ Top.state = "comment_start"
    /\ \/ c = "*" /\ Goes(c, To("comment"), 1)
       \/ c = "/" /\ Goes(c, To("comment_eol"), 1)
       \/ c \notin {"*", "/"} /\ Refuses

Comment(c) ==
    \/ /\ Top.state = "comment"
       /\ Goes(c, IF c = "*" THEN To("comment_end") ELSE Top, 1)
    \/ /\ Top.state = "comment_eol"
       /\ Goes(c, IF c = "nl" THEN To("eatws") ELSE Top, 1)
    \/ /\ Top.state = "comment_end"
       /\ Goes(c, IF c = "/" THEN To("eatws") ELSE To("comment"), 1)

(* A string ends at the quote it began with, and so does a field's name.   *)
InQuotes(c) ==
    \/ c = "bs" /\ Goes(c, [To("string_escape") EXCEPT !.saved = Top.state], 1)
    \/ c \notin {Top.quote, "bs"} /\ Goes(c, [Top EXCEPT !.text = Append(@, c)], 1)

String(c) ==
    /\ Top.state = "string"
    /\ \/ c = Top.quote /\ Makes(c, Found(Allocated), 1, "string")
       \/ InQuotes(c)

Field(c) ==
    /\ Top.state = "object_field"
    /\ \/ /\ c = Top.quote
          /\ Goes(c, [Then("object_field_end") EXCEPT !.name = Top.text], 1)
       \/ InQuotes(c)

Escape(c) ==
    /\ Top.state = "string_escape"
    /\ \/ c \in Escapable
          /\ Goes(c, [To(Top.saved) EXCEPT !.text = Append(@, c)], 1)
       \/ c \notin Escapable /\ Refuses

(* (A variant with a plausible slip: the symbol after the number is taken.) *)
NumberTakesNext(c) ==
    /\ Top.state = "number"
    /\ \/ c \in NumberChars /\ Goes(c, [Top EXCEPT !.text = Append(@, c)], 1)
       \/ c \notin NumberChars /\ IsNumber(Top.text) /\ Makes(c, Found(Allocated), 1, "number")
       \/ c \notin NumberChars /\ ~IsNumber(Top.text) /\ Refuses

Number(c) ==
    /\ Top.state = "number"
    /\ \/ c \in NumberChars /\ Goes(c, [Top EXCEPT !.text = Append(@, c)], 1)
       \/ /\ c \notin NumberChars /\ IsNumber(Top.text)
          /\ Makes(c, Found(Allocated), 0, "number")
       \/ c \notin NumberChars /\ ~IsNumber(Top.text) /\ Refuses

Call == frames' = Append(frames, NewFrame) /\ UNCHANGED <<pos, ret, heap, todo, failedIn>>

Array(c) ==
    /\ Top.state = "array"
    /\ \/ c = "]" /\ Goes(c, Then("finish"), 1)
       \/ c # "]" /\ Call

ArraySep(c) ==
    /\ Top.state = "array_sep"
    /\ \/ c = "]" /\ Goes(c, Then("finish"), 1)
       \/ c = "," /\ Goes(c, Then("array"), 1)
       \/ /\ c \notin {"]", ","}
          /\ Return(ErrorPtr) /\ todo' = <<Top.current>> /\ FailedHere
          /\ UNCHANGED <<pos, heap>>

Object(c) == Top.state = "object" /\ Goes(c, To("object_field_start"), 0)

FieldStart(c) ==
    /\ Top.state = "object_field_start"
    /\ \/ c = "}" /\ Goes(c, Then("finish"), 1)
       \/ c \in Quotes
          /\ Goes(c, [To("object_field") EXCEPT !.quote = c, !.text = << >>], 1)
       \/ c \notin Quotes \cup {"}"} /\ Refuses

(* Without the colon the call returns at once and forgets its object.      *)
FieldEnd(c) ==
    /\ Top.state = "object_field_end"
    /\ \/ c = ":" /\ Goes(c, Then("object_value"), 1)
       \/ c # ":" /\ Leaves

FieldValue(c) == Top.state = "object_value" /\ Call

ObjectSep(c) ==
    /\ Top.state = "object_sep"
    /\ \/ c = "}" /\ Goes(c, Then("finish"), 1)
       \/ c = "," /\ Goes(c, Then("object"), 1)
       \/ c \notin {"}", ","} /\ Refuses

Turns(c) ==
    \/ EatWs(c) \/ Begin(c) \/ Finish(c) \/ Null(c) \/ Boolean(c)
    \/ CommentStart(c) \/ Comment(c) \/ String(c) \/ Escape(c) \/ Number(c)
    \/ Array(c) \/ ArraySep(c)
    \/ Object(c) \/ FieldStart(c) \/ Field(c) \/ FieldEnd(c) \/ FieldValue(c) \/ ObjectSep(c)

Running == frames # << >> /\ todo = << >>

(* json_tokener_do_parse(): a turn of the innermost call.                  *)
Loop ==
    /\ Running /\ ret = NoValue
    /\ \E c \in family.symbols \cup {NUL} : Reads(c) /\ Turns(c)
    /\ UNCHANGED family

(* The caller inside do_parse() looks at what the recursive call returned: *)
(* an error ends it too, anything else goes into its array or object.      *)
GoesOn(saved) ==
    /\ frames' = [frames EXCEPT ![Len(frames)] = Then(saved)]
    /\ ret' = NoValue /\ UNCHANGED failedIn

AddItem ==
    /\ Top.state = "array" /\ ~IsError(ret)
    /\ heap' = ArrayAdd(heap, Top.current, ret)
    /\ GoesOn("array_sep") /\ UNCHANGED todo

AddField ==
    /\ Top.state = "object_value" /\ ~IsError(ret)
    /\ heap' = ObjectAdd(heap, Top.current, Top.name, ret)
    /\ todo' = Displaced(heap, Top.current, Top.name)
    /\ GoesOn("object_sep")

GiveUp == IsError(ret) /\ Fail /\ UNCHANGED heap

Resume ==
    /\ Running /\ ret # NoValue
    /\ AddItem \/ AddField \/ GiveUp
    /\ UNCHANGED <<family, input, pos>>

=============================================================================
