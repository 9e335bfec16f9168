----------------------------- MODULE JsonPacket -----------------------------
(***************************************************************************)
(* json_proto.c: the request is built and its objects are put, then the    *)
(* answer is parsed, looked through and put.                               *)
(***************************************************************************)
EXTENDS JsonTokener

VARIABLES
    step,       \* request, parse, check, put, done: where the caller is
    result,     \* what json_check_srv_resp() returned, or CRASHED
    fault       \* what went wrong with memory so far

vars == <<tokener, step, result, fault>>

Faults == {"use_after_free", "overrun"}
JsonResult == {"JSON_PACKET_NONE", "JSON_PACKET_RECV_OK", "JSON_PACKET_RECV_ERR",
               "JSON_PACKET_KEY_NOTFOUND", "JSON_PACKET_FIELD_NOTFOUND",
               "JSON_PACKET_PARSE_ERR", "CRASHED"}

(* json_req_2str(): six fields in the payload, the payload under the       *)
(* packet's name; what it calls json_object_put() for.                     *)
RequestFields == <<"ver", "cmd", "id", "provider", "cel_number", "sms">>
Payload == Len(RequestFields) + 1
Request ==
    [i \in 1..Payload + 1 |->
        IF i < Payload THEN Node("string", << >>)
        ELSE [Node("object", << >>) EXCEPT !.kids =
                 IF i = Payload THEN [f \in DOMAIN RequestFields |-> Entry(<<RequestFields[f]>>, f)]
                 ELSE <<Entry(<<"name">>, Payload)>>]]

Init ==
    /\ family \in Families
    /\ input = << >> /\ pos = 1
    /\ frames = << >> /\ ret = NoValue /\ failedIn = "none"
    /\ heap = Request /\ todo = <<Payload, Payload + 1>>
    /\ step = "request" /\ result = "JSON_PACKET_NONE" /\ fault = {}

Crash(f) ==
    /\ step' = "done" /\ result' = "CRASHED"
    /\ fault' = fault \cup f
    /\ todo' = << >>

(* json_object_put() for the next pointer.  The count of a node that was   *)
(* freed goes below zero and nothing more happens; an error is no address. *)
Release ==
    /\ todo # << >>
    /\ LET p == Head(todo) IN
       \/ /\ p = NULL
          /\ todo' = Tail(todo) /\ UNCHANGED <<heap, step, result, fault>>
       \/ p < NULL /\ Crash({}) /\ UNCHANGED heap
       \/ /\ p > NULL /\ heap[p].refs = 0
          /\ fault' = fault \cup {"use_after_free"}
          /\ todo' = Tail(todo) /\ UNCHANGED <<heap, step, result>>
       \/ /\ p > NULL /\ heap[p].refs > 0
          /\ heap' = Put(heap, p) /\ todo' = PutNext(heap, p) \o Tail(todo)
          /\ UNCHANGED <<step, result, fault>>
    /\ UNCHANGED <<family, input, pos, frames, ret, failedIn>>

(* json_tokener_parse() is entered; the request's objects are forgotten.   *)
Parse ==
    /\ step = "request" /\ todo = << >>
    /\ heap' = << >> /\ frames' = <<NewFrame>> /\ step' = "parse"
    /\ UNCHANGED <<family, input, pos, ret, todo, failedIn, result, fault>>

Overrun ==
    /\ step = "parse" /\ Running /\ ret = NoValue /\ Overruns
    /\ Crash({"overrun"})
    /\ UNCHANGED <<family, input, pos, frames, ret, heap, failedIn>>

Tokener ==
    /\ step = "parse" /\ (Loop \/ Resume)
    /\ UNCHANGED <<step, result, fault>>

Parsed ==
    /\ step = "parse" /\ frames = << >> /\ todo = << >>
    /\ step' = "check"
    /\ UNCHANGED <<tokener, result, fault>>

-----------------------------------------------------------------------------
(* json_check_srv_resp().                                                  *)

(* strncmp() over the length of the word: longer keys match as well.       *)
Begins(key, word) == key # << >> /\ key[1] = word

(* atoi() of the value's JSON text, as far as the result tells it apart.   *)
Signed(t) == t[1] = "-"
IsOne(t) ==
    \E n \in DOMAIN t :
        /\ t[n] = "1" /\ \A i \in 1..n - 1 : t[i] = "0"
        /\ n = Len(t) \/ t[n + 1] = "-"
Atoi(p) ==
    IF p \notin DOMAIN heap \/ heap[p].kind # "number" THEN 0
    ELSE LET t == heap[p].text IN
         IF IsOne(t) THEN 1
         ELSE IF Signed(t) /\ IsOne(Tail(t)) THEN -1 ELSE 0

(* The first loop looks at the first key only; without any, payload is     *)
(* still NULL.                                                             *)
FirstKeyFits(p) == \A i \in DOMAIN heap[p].kids : i = 1 => Begins(heap[p].kids[i].key, "name")
PayloadOf(p) == IF heap[p].kids = << >> THEN NULL ELSE heap[p].kids[1].val

(* The second loop: the last key that begins with `result' counts.         *)
Results(kids) == {i \in DOMAIN kids : Begins(kids[i].key, "result")}
LastResult(kids) == kids[Max(Results(kids))].val
ResultOf(p) ==
    LET kids == heap[p].kids IN IF Results(kids) = {} THEN -1 ELSE Atoi(LastResult(kids))
(* A variant with a plausible slip: any result is a confirmation.          *)
VerdictAny(p) ==
    IF ResultOf(p) = -1 THEN "JSON_PACKET_FIELD_NOTFOUND" ELSE "JSON_PACKET_RECV_OK"

Verdict(p) ==
    CASE ResultOf(p) = -1 -> "JSON_PACKET_FIELD_NOTFOUND"
      [] ResultOf(p) = 1 -> "JSON_PACKET_RECV_OK"
      [] OTHER -> "JSON_PACKET_RECV_ERR"

Answer(r, s) == result' = r /\ step' = s /\ UNCHANGED <<tokener, fault>>

CheckNull == step = "check" /\ ret = NULL /\ Answer("JSON_PACKET_PARSE_ERR", "done")

(* json_object_get_object(obj)->head of an error or of another type.       *)
CheckCrash ==
    /\ step = "check" /\ ret # NULL /\ ~IsObject(heap, ret)
    /\ Answer("CRASHED", "done")

CheckKey ==
    /\ step = "check" /\ IsObject(heap, ret) /\ ~FirstKeyFits(ret)
    /\ Answer("JSON_PACKET_KEY_NOTFOUND", "done")

CheckPayload ==
    /\ step = "check" /\ IsObject(heap, ret) /\ FirstKeyFits(ret)
    /\ LET payload == PayloadOf(ret) IN
       \/ ~IsObject(heap, payload) /\ Answer("CRASHED", "done")
       \/ /\ IsObject(heap, payload)
          /\ result' = Verdict(payload) /\ step' = "put"
          /\ todo' = <<payload, ret>>
          /\ UNCHANGED <<family, input, pos, frames, ret, heap, failedIn, fault>>

Finished ==
    /\ step = "put" /\ todo = << >> /\ step' = "done"
    /\ UNCHANGED <<tokener, result, fault>>

Check == CheckNull \/ CheckCrash \/ CheckKey \/ CheckPayload

Next == Release \/ Parse \/ Overrun \/ Tokener \/ Parsed \/ Check \/ Finished

(* One thread and no call that waits: the caller always takes its step.    *)
Spec == Init /\ [][Next]_vars /\ WF_vars(Next)

-----------------------------------------------------------------------------
(* Properties.                                                             *)

Pointers == Nat \cup {ErrorPtr, Truncated}

(* Frames, nodes and pending releases keep their shapes, and nothing       *)
(* refers to a node that was never made.                                   *)
TypeOK ==
    /\ step \in {"request", "parse", "check", "put", "done"}
    /\ result \in JsonResult /\ fault \subseteq Faults
    /\ pos \in 1..Len(input) + 2
    /\ ret \in Pointers \cup {NoValue}
    /\ \A i \in DOMAIN heap :
          /\ heap[i].kind \in Kinds /\ heap[i].refs \in 0..1
          /\ \A e \in DOMAIN heap[i].kids : heap[i].kids[e].val \in Pointers
    /\ \A p \in ToSet(todo) \cup {frames[i].current : i \in DOMAIN frames} :
          p \in DOMAIN heap \cup {NULL, ErrorPtr, Truncated}

Live == {o \in DOMAIN heap : heap[o].refs > 0}

(* The holders of a node: frames that build it, the value on its way to    *)
(* the caller, pending releases and live containers, each counted.         *)
Times(s, o) == Cardinality({i \in DOMAIN s : s[i] = o})
Held(o) ==
    Cardinality({i \in DOMAIN frames : frames[i].current = o})
    + (IF ret = o THEN 1 ELSE 0) + Times(todo, o)
    + Cardinality(UNION {{<<c, i>> : i \in {k \in DOMAIN heap[c].kids : heap[c].kids[k].val = o}}
                             : c \in Live})

(* While the answer is parsed every live object has exactly one holder and *)
(* no one holds a freed one, through nesting, repeated keys and errors at  *)
(* any depth; only a call that missed its colon may forget its object.     *)
OneHolder ==
    step = "parse" /\ ~Wide =>
        \A o \in DOMAIN heap :
            \/ Held(o) = heap[o].refs
            \/ failedIn = "object_field_end" /\ Held(o) = 0

(* When the answer has been dealt with nothing stays allocated, except for *)
(* the object of a call that missed its colon and an answer that was given *)
(* up because of its first key or by a crash.                              *)
NothingLeft ==
    step = "done" /\ result \notin {"JSON_PACKET_KEY_NOTFOUND", "CRASHED"} => Live = {}

(* The parser reads past the end of the source only if a comment begins    *)
(* somewhere in the source. With wide pointers a string that does not end  *)
(* does it as well, and nothing is said.                                   *)
OverrunNeedsComment ==
    ~Wide /\ "overrun" \in fault =>
        \E i \in 1..Len(input) - 1 : input[i] = "/" /\ input[i + 1] \in {"*", "/"}

Tree[p \in Int] ==
    IF p \in DOMAIN heap
    THEN [kind |-> heap[p].kind, text |-> heap[p].text,
          kids |-> [i \in DOMAIN heap[p].kids |->
                       Entry(heap[p].kids[i].key, Tree[heap[p].kids[i].val])]]
    ELSE IF p = NULL THEN NullValue ELSE ErrorValue

(* Without comments, the parser returns exactly the value the grammar      *)
(* gives the source, and an error exactly when it gives none.              *)
ParsesAsGrammar ==
    step = "check" /\ ~Wide /\ "/" \notin ToSet(input) => Tree[ret] = Meaning(input)

(* json/test1.c:136: a source that is not JSON makes is_error() true.      *)
FailureIsAnError ==
    step = "check" /\ "/" \notin ToSet(input) /\ Meaning(input) = ErrorValue => IsError(ret)

(* json/json_object.h:111: json_object_object_add() takes over the value's *)
(* only reference, so its holder does not put it a second time.            *)
NoUseAfterFree == "use_after_free" \notin fault

(* A response is taken for a confirmation only if its first key is the     *)
(* packet's, its value an object, and the last `result' in it the number 1 *)
(* (with wide pointers a field without a value goes unnoticed as well).    *)
OkIsSaid ==
    result = "JSON_PACKET_RECV_OK" /\ ~Wide /\ "/" \notin ToSet(input) =>
        LET first == Meaning(input).kids[1]
            fields == first.val.kids
        IN  /\ Begins(first.key, "name") /\ first.val.kind = "object"
            /\ Results(fields) # {}
            /\ LastResult(fields).kind = "number" /\ IsOne(LastResult(fields).text)

(* Every response is dealt with: no source keeps the parser in a loop.     *)
EveryAnswerEnds == <>(step = "done")
=============================================================================
