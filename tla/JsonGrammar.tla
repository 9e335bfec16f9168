---------------------------- MODULE JsonGrammar ----------------------------
(***************************************************************************)
(* The symbols of a source and the value a source denotes, defined by      *)
(* recursive descent: what the state machine of JsonTokener is checked     *)
(* against.  A comma may precede a closing bracket, a later field takes    *)
(* the place of an earlier one of its name, and what follows the value is  *)
(* not looked at.                                                          *)
(***************************************************************************)
EXTENDS JsonObjects, FiniteSets

NUL == "NUL"
White == {"sp", "nl"}
Quotes == {"dq", "sq"}
Digits == {"0", "1"}
NumberChars == Digits \cup {"-"}
Escapable == {"dq", "bs", "uhex"}

(* sscanf() finds a number when a digit comes first, or after a sign.      *)
IsNumber(t) == t[1] \in Digits \/ (Len(t) > 1 /\ t[2] \in Digits)

Value(kind, text, kids) == [kind |-> kind, text |-> text, kids |-> kids]
NullValue == Value("null", << >>, << >>)
ErrorValue == Value("error", << >>, << >>)

Got(val, next) == [val |-> val, next |-> next]
None == Got(ErrorValue, 1)
Failed(g) == g.val.kind = "error"

(* What g found, with x in front of it.                                    *)
Symbol(x, g) ==
    IF Failed(g) THEN None ELSE Got(Value("string", <<x>> \o g.val.text, << >>), g.next)
Item(e, g) ==
    IF Failed(g) THEN None ELSE Got(Value(g.val.kind, << >>, <<e>> \o g.val.kids), g.next)

(* Of the fields of one name the last one counts.                          *)
LastOnes(fields) ==
    LET kids[n \in 0..Len(fields)] ==
            IF n = 0 THEN << >>
            ELSE Append(Without(kids[n - 1], fields[n].key), fields[n])
    IN kids[Len(fields)]
Fields(g) ==
    IF Failed(g) THEN None ELSE Got(Value("object", << >>, LastOnes(g.val.kids)), g.next)

(* The first place from i on whose symbol is not in the set.               *)
Past(s, i, set) ==
    CHOOSE j \in i..Len(s) : s[j] \notin set /\ \A k \in i..j - 1 : s[k] \in set
Skip(s, i) == Past(s, i, White)
Run(s, i) == Past(s, i, NumberChars)

(* The text from i up to quote q; text is what the places after i have.    *)
TextAt(s, q, text, i) ==
    IF s[i] = q THEN Got(Value("string", << >>, << >>), i + 1)
    ELSE IF s[i] = "bs" /\ s[i + 1] \in Escapable THEN Symbol(s[i + 1], text[i + 2])
    ELSE IF s[i] \in {NUL, "bs"} THEN None
    ELSE Symbol(s[i], text[i + 1])
Text(s, q) == LET text[i \in 1..Len(s)] == TextAt(s, q, text, i) IN text

Numeral(digits, next) ==
    IF IsNumber(digits) THEN Got(Value("number", digits, << >>), next) ELSE None

(* A value at i, with the white space behind it; part is what is left of   *)
(* an array or object at the places after i.                               *)
Trimmed(s, g) == IF Failed(g) THEN None ELSE Got(g.val, Skip(s, g.next))
ValueAt(s, part, start) ==
    LET i == Skip(s, start) IN
    Trimmed(s,
        CASE s[i] = "{" -> Fields(part[<<"object", i + 1>>])
          [] s[i] = "[" -> part[<<"array", i + 1>>]
          [] s[i] = "null" -> Got(NullValue, i + 1)
          [] s[i] = "true" -> Got(Value("boolean", <<"true">>, << >>), i + 1)
          [] s[i] \in Quotes -> Text(s, s[i])[i + 1]
          [] s[i] \in NumberChars -> Numeral(SubSeq(s, i, Run(s, i) - 1), Run(s, i))
          [] OTHER -> None)

Close(what) == IF what = "array" THEN "]" ELSE "}"
Closed(what, next) == Got(Value(what, << >>, << >>), next)

(* What is left of an array or object after an item, from an item on, and  *)
(* after the name of a field.                                              *)
AfterItem(s, part, what, i) ==
    LET after == Skip(s, i) IN
    IF s[after] = "," THEN part[<<what, after + 1>>]
    ELSE IF s[after] = Close(what) THEN Closed(what, after + 1) ELSE None
WithItem(s, part, what, key, item) ==
    IF Failed(item) THEN None
    ELSE Item(Entry(key, item.val), AfterItem(s, part, what, item.next))
AfterName(s, part, name) ==
    LET colon == Skip(s, name.next) IN
    IF Failed(name) \/ s[colon] # ":" THEN None
    ELSE WithItem(s, part, "object", name.val.text, ValueAt(s, part, colon + 1))

(* What is left of an array or object at i.                                *)
PartAt(s, part, what, start) ==
    LET i == Skip(s, start) IN
    IF s[i] = Close(what) THEN Closed(what, i + 1)
    ELSE IF what = "array" THEN WithItem(s, part, what, << >>, ValueAt(s, part, i))
    ELSE IF s[i] \in Quotes THEN AfterName(s, part, Text(s, s[i])[i + 1]) ELSE None
Parts(s) ==
    LET part[p \in {"array", "object"} \X (1..Len(s))] == PartAt(s, part, p[1], p[2])
    IN part

(* The value source denotes from its first symbol on.                      *)
Meaning(source) ==
    LET s == Append(source, NUL) IN ValueAt(s, Parts(s), 1).val
=============================================================================
