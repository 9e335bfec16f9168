---------------------------- MODULE MCJsonValue ----------------------------
(* Instances of JsonValue for TLC.                                         *)
EXTENDS JsonValue

(* A plain key, one that has to be escaped, an empty one, and a fourth.    *)
FourKeys == {<<"x">>, <<"x", "dq">>, << >>, <<"x", "x">>}

Hash(x, xq, e, xx) ==
    [key \in FourKeys |-> CASE key = <<"x">> -> x [] key = <<"x", "dq">> -> xq
                            [] key = << >> -> e [] OTHER -> xx]
(* All keys in one place; spread over the table, with some round the end.  *)
Colliding == Hash(2, 2, 2, 2)
Spread == Hash(1, 5, 4, 0)
SomeHashes == {Colliding, Spread}

SomeValues ==
    <<[kind |-> "string", text |-> <<"uhex", "x", "dq">>],
      [kind |-> "number", text |-> <<"1">>], [kind |-> "string", text |-> <<"bs">>]>>

(* An object that grows and shrinks; one that is printed; an array.        *)
SomeUses ==
    {Use("object", FourKeys, {Spread}, {1}, 2, FALSE, 1),
     Use("object", FourKeys, {Colliding}, {1}, 1, FALSE, 1),
     Use("object", {<<"x">>, <<"x", "dq">>}, {Colliding}, {1, 3}, 1, TRUE, 1),
     Use("array", {}, {Spread}, {2}, 0, TRUE, 1)}
=============================================================================
