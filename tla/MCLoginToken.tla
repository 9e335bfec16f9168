---------------------------- MODULE MCLoginToken ----------------------------
(* Instances of LoginToken for TLC.                                        *)
EXTENDS LoginToken, SequencesExt

Arg(o, f, t, n, s) ==
    [opt |-> o, given |-> TRUE, first |-> f, type |-> t, num |-> n, size |-> s]
Bare(o) ==
    [opt |-> o, given |-> FALSE, first |-> "other", type |-> "unknown", num |-> 0, size |-> 0]
Number(o, n) == Arg(o, "digit", "unknown", n, 2)

(* Values at and beyond the limits, and one argument for each way to fail. *)
Arguments ==
    {Bare("debug"), Bare("otplen"), Bare("undefined"),
     Number("otplen", 3), Number("otplen", 4), Number("otplen", 20),
     Number("otplen", 24), Number("otplen", 25), Number("expir", 48), Number("expir", 60),
     Arg("sockpath", "other", "unknown", 0, 31), Arg("sockpath", "other", "unknown", 0, 40),
     Arg("otptype", "alpha", "alphanum", 0, 8), Arg("otptype", "alpha", "unknown", 0, 7),
     Arg("except", "alpha", "unknown", 0, 4), Arg("except", "alpha", "unknown", 0, 24)}

ShortLines == BoundedSeq(Arguments, 2)

(* README.md:88.                                                           *)
SecureMode ==
    {<<Bare("debug"), Arg("otptype", "alpha", "unknown", 0, 7), Number("otplen", 8)>>}

Fields(sizes, closed) ==
    [bracket |-> TRUE, size |-> sizes, first |-> <<"alpha", "digit", "digit", "alpha">>,
     closed |-> closed]
SomeGecos ==
    {Fields(<<4, 3, 7, 3>>, FALSE), Fields(<<4, 3, 7, 3>>, TRUE),
     Fields(<<4, 10, 7, 3>>, FALSE), Fields(<<4, 9, 23, 40>>, FALSE),
     Fields(<<4, 3, 7>>, FALSE), [Fields(<<4, 3, 7, 3>>, FALSE) EXCEPT !.bracket = FALSE]}

FamiliarLengths == {4, 8, 24}

(* Another name; the name itself, and longer ones that continue with "0"   *)
(* (48) or with a letter.                                                  *)
SomeNames ==
    {[begins |-> FALSE, next |-> 0]} \cup [begins : {TRUE}, next : {0, 48, 97}]
=============================================================================
