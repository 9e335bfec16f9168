-------------------------- MODULE LoginTokenProofs --------------------------
(* Proofs about LoginToken, for every argument list and GECOS field.       *)
EXTENDS LoginToken, TLAPS

USE DEF OtpLenMin, OtpLenMax, TimeMin, TimeMax

(* The lists are finite, and their members are arguments.                  *)
LEMMA ArgvIsList ==
    ASSUME TypeOK
    PROVE  /\ Len(argv) \in Nat
           /\ \A j \in 1 .. Len(argv) : argv[j] \in Argument
BY TokenAssumption DEF TypeOK

(* A valid argument sets its member of pam_arg to a value in range.        *)
LEMMA SetInRange ==
    ASSUME TypeOK, NEW a \in Argument, Valid(a)
    PROVE  Set(arg, a) \in [otp_len : OtpLenMin .. OtpLenMax, otp_type : OtpType,
                            time_expir : TimeMin .. TimeMax, sock_path : 0 .. 31,
                            except_user : 0 .. 24]
<1>1. CASE a.opt \in BareOpt
  BY <1>1 DEF TypeOK, Set, BareOpt
<1>2. CASE a.opt \in TextOpt
  <2>1. a.opt \in {"sockpath", "except"} /\ a.size \in Nat
    BY <1>2 DEF TextOpt, Argument
  <2>2. LessOf(a.size, 31) \in 0 .. 31 /\ LessOf(a.size, 24) \in 0 .. 24
    BY <2>1 DEF LessOf
  <2>3. CASE a.opt = "sockpath"
    BY <2>2, <2>3 DEF TypeOK, Set, BareOpt
  <2>4. CASE a.opt = "except"
    BY <2>2, <2>4 DEF TypeOK, Set, BareOpt
  <2>5. QED
    BY <2>1, <2>3, <2>4
<1>3. CASE a.opt = "otptype"
  BY <1>3 DEF TypeOK, Set, Valid, TextOpt, BareOpt, NumericOpt, Argument
<1>4. CASE a.opt \in NumericOpt
  <2>1. InRange(a) /\ a.num \in Int /\ a.opt \in {"otplen", "expir"}
    BY <1>4 DEF Valid, TextOpt, BareOpt, NumericOpt, Argument
  <2>2. CASE a.opt = "otplen"
    <3>1. a.num \in OtpLenMin .. OtpLenMax
      BY <2>1, <2>2 DEF InRange
    <3>2. Set(arg, a) = [arg EXCEPT !.otp_len = a.num]
      BY <2>2 DEF Set, BareOpt
    <3>3. QED
      BY <3>1, <3>2 DEF TypeOK
  <2>3. CASE a.opt = "expir"
    <3>1. a.num \in TimeMin .. TimeMax
      BY <2>1, <2>3 DEF InRange
    <3>2. Set(arg, a) = [arg EXCEPT !.time_expir = a.num]
      BY <2>3 DEF Set, BareOpt
    <3>3. QED
      BY <3>1, <3>2 DEF TypeOK
  <2>4. QED
    BY <2>1, <2>2, <2>3
<1>5. QED
  BY <1>1, <1>2, <1>3, <1>4 DEF Valid

(* A GECOS field that user_set_info() accepts has an area code.            *)
LEMMA CompleteInfo ==
    ASSUME NEW g \in GecosFields, InfoOk(g)
    PROVE  g.size[2] \in Nat \ {0} /\ g.size[3] \in Nat \ {0}
<1> DEFINE reach(k) == \A i \in 1 .. k :
                          /\ i =< Len(g.size) /\ g.size[i] > 0
                          /\ i < k => g.size[i] =< FieldMax[i]
           best(n) == reach(n) /\ \A k \in n + 1 .. 4 : ~ reach(k)
<1>1. \E n \in 0 .. 4 : best(n)
  <2>1. reach(0)
    OBVIOUS
  <2> HIDE DEF reach
  <2>2. QED
    BY <2>1
<1>2. Converted(g) = CHOOSE n \in 0 .. 4 : best(n)
  BY DEF Converted
<1>3. best(Converted(g))
  <2> HIDE DEF best
  <2>1. QED
    BY <1>1, <1>2
<1>4. Len(g.size) >= 4 /\ g.size[2] > 0 /\ g.size[3] > 0
  BY <1>3 DEF InfoOk
<1>5. QED
  BY <1>4, TokenAssumption DEF Gecos

-----------------------------------------------------------------------------
(* The buffers are never outgrown and the settings stay in their ranges.   *)
THEOREM TypeCorrect == Spec => []TypeOK
<1>1. Init => TypeOK
  <2> SUFFICES ASSUME Init PROVE TypeOK
    OBVIOUS
  <2>1. argv \in CommandLines /\ Len(argv) \in Nat /\ argi \in 1 .. Len(argv) + 1
    BY TokenAssumption DEF Init
  <2>2. arg \in [otp_len : OtpLenMin .. OtpLenMax, otp_type : OtpType,
                 time_expir : TimeMin .. TimeMax, sock_path : 0 .. 31,
                 except_user : 0 .. 24]
    BY DEF Init, Defaults, OtpType
  <2>3. otp \in {0} \cup (OtpLenMin .. OtpLenMax)
    BY TokenAssumption DEF Init
  <2>4. typed \in [chars : 0 .. otp, extra : BOOLEAN]
    BY <2>3 DEF Init, Nothing
  <2>5. /\ ctrl \subseteq Opt /\ step = "args" /\ name \in LoginNames /\ cel = 0
        /\ ret = "none"
    BY DEF Init
  <2>6. own \in BOOLEAN
    BY Zenon DEF Init
  <2>7. QED
    BY <2>1, <2>2, <2>3, <2>4, <2>5, <2>6 DEF TypeOK
<1>2. TypeOK /\ [Next]_vars => TypeOK'
  <2> SUFFICES ASSUME TypeOK, [Next]_vars PROVE TypeOK'
    OBVIOUS
  <2>0. Len(argv) \in Nat /\ \A j \in 1 .. Len(argv) : argv[j] \in Argument
    BY ArgvIsList
  <2>1. CASE Parse
    <3>1. CASE argi =< Len(argv) /\ Valid(argv[argi]) /\ arg' = Set(arg, argv[argi])
               /\ argi' = argi + 1 /\ ctrl' = ctrl \cup {argv[argi].opt}
               /\ UNCHANGED <<step, ret>>
      <4>1. argi \in 1 .. Len(argv) /\ argv[argi] \in Argument
        BY <2>0, <3>1 DEF TypeOK
      <4>2. arg' \in [otp_len : OtpLenMin .. OtpLenMax, otp_type : OtpType,
                      time_expir : TimeMin .. TimeMax, sock_path : 0 .. 31,
                      except_user : 0 .. 24]
        BY <3>1, <4>1, SetInRange
      <4>3. ctrl' \subseteq Opt
        BY <3>1, <4>1 DEF TypeOK, Argument
      <4>4. QED
        BY <2>0, <2>1, <3>1, <4>1, <4>2, <4>3 DEF TypeOK, Parse
    <3>2. CASE UNCHANGED <<argi, arg, ctrl>> /\ Goto("except")
      BY <2>1, <3>2 DEF TypeOK, Parse, Goto
    <3>3. QED
      BY <2>1, <3>1, <3>2 DEF Parse
  <2>2. CASE Except
    BY <2>2 DEF TypeOK, Except, Return, Goto, parsing
  <2>3. CASE UserInfo
    <3>1. PICK g \in GecosFields :
             \/ /\ InfoOk(g)
                /\ cel' = LessOf(g.size[2] + g.size[3], 23)
                /\ Goto("otp")
             \/ ~ InfoOk(g) /\ UNCHANGED cel /\ Return("PAM_IGNORE")
      BY <2>3 DEF UserInfo
    <3>2. InfoOk(g) => g.size[2] \in Nat \ {0} /\ g.size[3] \in Nat \ {0}
      BY CompleteInfo
    <3>3. cel' \in 0 .. 23 /\ (step' = "otp" => cel' > 0)
      <4>1. CASE InfoOk(g) /\ cel' = LessOf(g.size[2] + g.size[3], 23)
        BY <3>2, <4>1 DEF LessOf
      <4>2. CASE cel' = cel /\ Return("PAM_IGNORE")
        BY <4>2 DEF TypeOK, Return
      <4>3. QED
        BY <3>1, <4>1, <4>2
    <3>4. QED
      BY <2>3, <3>1, <3>3 DEF TypeOK, UserInfo, Return, Goto, parsing
  <2>4. CASE OtpGen
    <3>0. own' \in BOOLEAN
      <4>1. own \in BOOLEAN
        BY DEF TypeOK
      <4>2. own' = TRUE \/ own' = own
        BY <2>4 DEF OtpGen
      <4>3. QED
        BY <4>1, <4>2, Zenon
    <3>1. otp' \in {0} \cup (OtpLenMin .. OtpLenMax) /\ otp =< otp'
      <4>0. arg.otp_len \in OtpLenMin .. OtpLenMax
        BY DEF TypeOK
      <4>1. CASE otp = 0 /\ otp' = arg.otp_len
        BY <4>0, <4>1
      <4>2. CASE UNCHANGED <<otp, own>>
        BY <4>2 DEF TypeOK
      <4>3. QED
        BY <2>4, <4>1, <4>2 DEF OtpGen
    <3>2. typed' \in [chars : 0 .. otp', extra : BOOLEAN]
      <4>1. typed' = typed /\ 0 .. otp \subseteq 0 .. otp'
        BY <2>4, <3>1 DEF TypeOK, OtpGen
      <4>2. QED
        BY <4>1 DEF TypeOK
    <3>3. QED
      BY <2>4, <3>0, <3>1, <3>2 DEF TypeOK, OtpGen, Goto, parsing
  <2>5. CASE Prompt
    BY <2>5 DEF TypeOK, Prompt, Goto, parsing
  <2>6. CASE Compare
    BY <2>6 DEF TypeOK, Compare, Return, parsing
  <2>7. CASE UNCHANGED vars
    BY <2>7 DEF TypeOK, vars, parsing
  <2>8. QED
    BY <2>1, <2>2, <2>3, <2>4, <2>5, <2>6, <2>7 DEF Next
<1>3. QED
  BY <1>1, <1>2, PTL DEF Spec

-----------------------------------------------------------------------------
(* While the arguments are read, those already read have settled.          *)
Reading ==
    /\ InForce(argi - 1) /\ Settled(argi - 1)
    /\ step # "args" => (argi =< Len(argv) => ~ Valid(argv[argi]))

(* One more valid argument of another option leaves a setting alone, one   *)
(* of the same option replaces it.                                         *)
LEMMA MeansNext ==
    ASSUME NEW i \in Nat, NEW opt, NEW v, NEW w, NEW default,
           Means(opt, i, v, default),
           IF argv[i + 1].opt = opt THEN w = Value(argv[i + 1]) ELSE w = v
    PROVE  Means(opt, i + 1, w, default)
<1>1. CASE argv[i + 1].opt = opt
  <2>1. i + 1 \in 1 .. i + 1 /\ IsLast(i + 1, opt, i + 1)
    BY <1>1 DEF IsLast
  <2>2. QED
    BY <1>1, <2>1 DEF Means
<1>2. CASE argv[i + 1].opt # opt /\ v = default /\ \A j \in 1 .. i : argv[j].opt # opt
  <2>1. \A j \in 1 .. i + 1 : argv[j].opt # opt
    <3>1. \A j \in 1 .. i + 1 : j \in 1 .. i \/ j = i + 1
      OBVIOUS
    <3>2. QED
      BY <1>2, <3>1
  <2>2. QED
    BY <1>2, <2>1 DEF Means
<1>3. CASE argv[i + 1].opt # opt /\ \E j \in 1 .. i : IsLast(j, opt, i) /\ v = Value(argv[j])
  <2>1. PICK j \in 1 .. i : IsLast(j, opt, i) /\ v = Value(argv[j])
    BY <1>3
  <2>2. \A k \in j + 1 .. i + 1 : k \in j + 1 .. i \/ k = i + 1
    BY <2>1
  <2>3. IsLast(j, opt, i + 1)
    BY <1>3, <2>1, <2>2 DEF IsLast
  <2>4. j \in 1 .. i + 1
    BY <2>1
  <2>5. QED
    BY <1>3, <2>1, <2>3, <2>4 DEF Means
<1>4. QED
  BY <1>1, <1>2, <1>3 DEF Means

(* Reading argument i makes its setting the one in force.                  *)
LEMMA SettledNext ==
    ASSUME TypeOK, Settled(argi - 1), argi \in 1 .. Len(argv),
           argv[argi] \in Argument, Valid(argv[argi]),
           arg' = Set(arg, argv[argi]), ctrl' = ctrl \cup {argv[argi].opt},
           argv' = argv, argi' = argi + 1
    PROVE  Settled(argi - 1)'
<1> DEFINE a == argv[argi]  i == argi - 1
<1>0. argi \in Nat /\ i \in Nat /\ i + 1 = argi
  BY ArgvIsList DEF TypeOK
<1>1. /\ arg'.otp_len = IF a.opt = "otplen" THEN Value(a) ELSE arg.otp_len
      /\ arg'.otp_type = IF a.opt = "otptype" THEN Value(a) ELSE arg.otp_type
      /\ arg'.time_expir = IF a.opt = "expir" THEN Value(a) ELSE arg.time_expir
      /\ arg'.sock_path = IF a.opt = "sockpath" THEN Value(a) ELSE arg.sock_path
      /\ arg'.except_user = IF a.opt = "except" THEN Value(a) ELSE arg.except_user
  <2>1. a.opt \in BareOpt \cup {"sockpath", "except", "otptype", "otplen", "expir"}
    BY DEF Valid, TextOpt, NumericOpt
  <2>2. QED
    BY <2>1 DEF TypeOK, Set, Value, BareOpt, NumericOpt
<1>2. Means("otplen", argi, arg'.otp_len, Defaults.otp_len)
  BY <1>0, <1>1, MeansNext DEF Settled
<1>3. Means("otptype", argi, arg'.otp_type, Defaults.otp_type)
  BY <1>0, <1>1, MeansNext DEF Settled
<1>4. Means("expir", argi, arg'.time_expir, Defaults.time_expir)
  BY <1>0, <1>1, MeansNext DEF Settled
<1>5. Means("sockpath", argi, arg'.sock_path, Defaults.sock_path)
  BY <1>0, <1>1, MeansNext DEF Settled
<1>6. Means("except", argi, arg'.except_user, Defaults.except_user)
  BY <1>0, <1>1, MeansNext DEF Settled
<1>7. ctrl' = {argv[j].opt : j \in 1 .. argi}
  <2>1. 1 .. argi = (1 .. i) \cup {argi}
    BY <1>0
  <2>2. ctrl = {argv[j].opt : j \in 1 .. i}
    BY DEF Settled
  <2>3. QED
    BY <2>1, <2>2
<1>8. (argi - 1)' = argi
  BY <1>0
<1>9. QED
  BY <1>2, <1>3, <1>4, <1>5, <1>6, <1>7, <1>8 DEF Settled, Means, IsLast

(* While the arguments are read, and after.                                *)
LEMMA ReadingHolds == Spec => []Reading
<1>1. Init => Reading
  BY DEF Init, Reading, InForce, Settled, Means, Defaults
<1>2. TypeOK /\ Reading /\ [Next]_vars => Reading'
  <2> SUFFICES ASSUME TypeOK, Reading, [Next]_vars PROVE Reading'
    OBVIOUS
  <2>1. CASE Parse
    <3>1. CASE /\ argi =< Len(argv) /\ Valid(argv[argi])
               /\ argi' = argi + 1 /\ arg' = Set(arg, argv[argi])
               /\ ctrl' = ctrl \cup {argv[argi].opt} /\ UNCHANGED <<step, ret>>
      <4>1. argi \in 1 .. Len(argv) /\ argv[argi] \in Argument /\ argv' = argv
        BY <2>1, <3>1, ArgvIsList DEF TypeOK, Parse
      <4>2. Settled(argi - 1)'
        BY <3>1, <4>1, SettledNext DEF Reading
      <4>3. InForce(argi - 1)'
        <5>1. (argi - 1)' = argi
          BY <3>1, <4>1
        <5>2. \A j \in 1 .. argi : j \in 1 .. argi - 1 \/ j = argi
          BY <4>1
        <5>3. QED
          BY <3>1, <4>1, <5>1, <5>2 DEF Reading, InForce
      <4>4. step' = "args"
        BY <2>1, <3>1 DEF Parse
      <4>5. QED
        BY <4>2, <4>3, <4>4 DEF Reading
    <3>2. CASE /\ argi =< Len(argv) => ~ Valid(argv[argi])
               /\ UNCHANGED <<argi, arg, ctrl>> /\ Goto("except")
      BY <2>1, <3>2 DEF Reading, Parse, InForce, Settled, Means, IsLast
    <3>3. QED
      BY <2>1, <3>1, <3>2 DEF Parse
  <2>2. CASE step # "args" /\ UNCHANGED parsing
    BY <2>2 DEF Reading, InForce, Settled, Means, IsLast, parsing
  <2>3. CASE UNCHANGED vars
    BY <2>3 DEF Reading, InForce, Settled, Means, IsLast, vars, parsing
  <2>4. Except \/ UserInfo \/ OtpGen \/ Prompt \/ Compare => step # "args" /\ UNCHANGED parsing
    BY DEF Except, UserInfo, OtpGen, Prompt, Compare
  <2>5. QED
    BY <2>1, <2>2, <2>3, <2>4 DEF Next
<1>3. QED
  BY <1>1, <1>2, TypeCorrect, PTL DEF Spec

(* pam_arg_parse() leaves the settings of the arguments before the first   *)
(* that is not valid, however long the list is.                            *)
THEOREM ArgumentsTakeEffect == Spec => []ArgumentsInForce
<1>1. Reading => ArgumentsInForce
  BY DEF Reading, ArgumentsInForce
<1>2. QED
  BY <1>1, ReadingHolds, PTL

-----------------------------------------------------------------------------
(* What a call knows before it compares: no phone number and no OTP of its *)
(* own at first, and later an OTP as long as its arguments say.            *)
TokenInv ==
    /\ step \in {"args", "except", "gecos"} => cel = 0 /\ ~ own
    /\ own => otp = arg.otp_len
    /\ AcceptedInFull
    /\ ShownTokenAccepted

LEMMA TokenInvariance == Spec => []TokenInv
<1>1. Init => TokenInv
  BY DEF Init, TokenInv, AcceptedInFull, ShownTokenAccepted
<1>2. TypeOK /\ TokenInv /\ [Next]_vars => TokenInv'
  <2> SUFFICES ASSUME TypeOK, TokenInv, [Next]_vars PROVE TokenInv'
    OBVIOUS
  <2> USE DEF TokenInv, AcceptedInFull, ShownTokenAccepted, Shown
  <2>1. CASE Parse
    BY <2>1 DEF TypeOK, Parse, Goto
  <2>2. CASE Except
    BY <2>2 DEF TypeOK, Except, Return, Goto, parsing
  <2>3. CASE UserInfo
    BY <2>3 DEF TypeOK, UserInfo, Return, Goto, parsing
  <2>4. CASE OtpGen
    BY <2>4 DEF TypeOK, OtpGen, Goto, parsing
  <2>5. CASE Prompt
    BY <2>5 DEF TypeOK, Prompt, Goto, parsing
  <2>6. CASE Compare
    <3>1. /\ arg.otp_len \in OtpLenMin .. OtpLenMax /\ otp \in Nat
          /\ typed.chars \in 0 .. otp
      BY DEF TypeOK
    <3>2. /\ typed' = typed /\ cel' = cel /\ otp' = otp /\ own' = own /\ arg' = arg
          /\ ret' = IF SameToken THEN "PAM_SUCCESS" ELSE "PAM_AUTH_ERR"
          /\ step' = "done"
      BY <2>6 DEF Compare, Return, parsing
    <3>3. otp =< arg.otp_len /\ SameToken => typed.chars = otp
      BY <3>1 DEF SameToken
    <3>4. own /\ arg.otp_len =< 20 /\ typed = [chars |-> LessOf(otp, 20), extra |-> FALSE]
             => SameToken
      BY <3>1 DEF SameToken, LessOf
    <3>5. SmsMaxSize - 1 - 3 = 20
      BY DEF SmsMaxSize
    <3>6. QED
      BY <3>1, <3>2, <3>3, <3>4, <3>5
  <2>7. CASE UNCHANGED vars
    BY <2>7 DEF vars, parsing
  <2>8. QED
    BY <2>1, <2>2, <2>3, <2>4, <2>5, <2>6, <2>7 DEF Next
<1>3. QED
  BY <1>1, <1>2, TypeCorrect, PTL DEF Spec

(* An OTP is compared in its whole length, unless the call that compares   *)
(* has a smaller otplen than the one that made it.                         *)
THEOREM TokensDecide == Spec => []AcceptedInFull
<1>1. TokenInv => AcceptedInFull
  BY DEF TokenInv
<1> QED BY <1>1, TokenInvariance, PTL

(* The SMS shows all of an OTP of 20 characters or less, and whoever types *)
(* what it shows is accepted.                                              *)
THEOREM ShownAccepted == Spec => []ShownTokenAccepted
<1>1. TokenInv => ShownTokenAccepted
  BY DEF TokenInv
<1> QED BY <1>1, TokenInvariance, PTL

-----------------------------------------------------------------------------
(* Without a phone number a call passes only because of except=, when all  *)
(* the arguments up to it were valid, and with 24 characters or more in it *)
(* only under a longer name that continues with the byte of time_expir.    *)
THEOREM UnaskedByExcept == Spec => []PassedUnasked
<1> DEFINE Excused == \E j \in 1 .. argi - 1 :
                         /\ InForce(j) /\ IsLast(j, "except", argi - 1)
                         /\ argv[j].size < 24 \/ name.next = arg.time_expir
           UnaskedInv == /\ PassedUnasked
                         /\ step \notin {"done", "args", "except", "gecos"} => cel > 0
<1>1. Init => UnaskedInv
  BY DEF Init, PassedUnasked
<1>2. TypeOK /\ Reading /\ IsExcepted => Excused
  <2> SUFFICES ASSUME TypeOK, Reading, IsExcepted PROVE Excused
    OBVIOUS
  <2>1. \E j \in 1 .. argi - 1 : argv[j].opt = "except"
    BY DEF Reading, Settled, IsExcepted
  <2>2. PICK j \in 1 .. argi - 1 :
           IsLast(j, "except", argi - 1) /\ arg.except_user = Value(argv[j])
    BY <2>1 DEF Reading, Settled, Means
  <2>3. argi \in 1 .. Len(argv) + 1 /\ Len(argv) \in Nat
    BY ArgvIsList DEF TypeOK
  <2>4. argv[j] \in Argument /\ \A k \in 1 .. j : k \in 1 .. argi - 1
    BY <2>2, <2>3, ArgvIsList
  <2>5. InForce(j)
    BY <2>4 DEF Reading, InForce
  <2>6. argv[j].opt = "except" /\ argv[j].size \in Nat
    BY <2>2, <2>4 DEF IsLast, Argument
  <2>7. arg.except_user = LessOf(argv[j].size, 24)
    BY <2>2, <2>6 DEF Value, NumericOpt
  <2>8. argv[j].size < 24 \/ name.next = arg.time_expir
    BY <2>6, <2>7 DEF IsExcepted, LessOf
  <2> QED BY <2>2, <2>5, <2>8
<1>3. TypeOK /\ Reading /\ UnaskedInv /\ [Next]_vars => UnaskedInv'
  <2> SUFFICES ASSUME TypeOK, Reading, UnaskedInv, [Next]_vars PROVE UnaskedInv'
    OBVIOUS
  <2>1. UNCHANGED <<argv, argi, arg, name>> => (Excused' <=> Excused)
    BY DEF InForce, IsLast
  <2> USE DEF PassedUnasked
  <2>2. CASE Parse
    BY <2>2 DEF Parse, Goto, TypeOK
  <2>3. CASE Except
    <3>1. CASE IsExcepted /\ Return("PAM_SUCCESS")
      <4>1. name.begins /\ Excused
        BY <1>2, <3>1 DEF IsExcepted
      <4> QED BY <2>1, <2>3, <3>1, <4>1 DEF Except, Return, parsing
    <3>2. CASE Goto("gecos")
      BY <2>3, <3>2 DEF Except, Goto, TypeOK
    <3> QED BY <2>3, <3>1, <3>2 DEF Except
  <2>4. CASE UserInfo
    <3>1. CASE \E g \in GecosFields : /\ InfoOk(g) /\ Goto("otp")
                                      /\ cel' = LessOf(g.size[2] + g.size[3], 23)
      <4>1. cel' > 0
        BY <3>1, CompleteInfo DEF LessOf
      <4> QED BY <2>4, <3>1, <4>1 DEF UserInfo, Goto, TypeOK
    <3>2. CASE Return("PAM_IGNORE")
      BY <3>2 DEF Return
    <3> QED BY <2>4, <3>1, <3>2 DEF UserInfo
  <2>5. CASE OtpGen \/ Prompt
    BY <2>5 DEF OtpGen, Prompt, Goto, TypeOK
  <2>6. CASE Compare
    BY <2>6 DEF Compare, Return, TypeOK
  <2>7. CASE UNCHANGED vars
    BY <2>1, <2>7 DEF vars, parsing
  <2> QED BY <2>2, <2>3, <2>4, <2>5, <2>6, <2>7 DEF Next
<1> QED BY <1>1, <1>3, TypeCorrect, ReadingHolds, PTL DEF Spec
=============================================================================
