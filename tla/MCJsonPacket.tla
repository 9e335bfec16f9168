---------------------------- MODULE MCJsonPacket ----------------------------
(* Instances of JsonPacket for TLC.                                        *)
EXTENDS JsonPacket

Source(symbols, len) == [symbols |-> symbols, len |-> len]

(* Answers of the server's form, long enough for a result; arrays with     *)
(* white space, words and broken words; strings with escapes; comments.    *)
Answers == Source({"{", "}", ":", ",", "dq", "name", "result", "0", "1"}, 13)
Arrays == Source({"[", "]", ",", "sp", "-", "1", "null", "true", "nulx", "trux"}, 6)
Strings == Source({"{", "}", ":", "dq", "sq", "bs", "uhex", "x", "1"}, 7)
Comments == Source({"[", "]", "1", "/", "*", "nl", "x"}, 7)

SomeSources == {Answers, Arrays, Strings, Comments}
ShortSources == {Arrays}
=============================================================================
