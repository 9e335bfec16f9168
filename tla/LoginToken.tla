----------------------------- MODULE LoginToken -----------------------------
(***************************************************************************)
(* What the arguments of pam_smsauth.so, the GECOS field and the sizes of  *)
(* the buffers make of one login: whether the user is excepted, how long   *)
(* the OTP is, how much of it the SMS shows, and which input passes.       *)
(*                                                                         *)
(* Strings are known by what the code tells apart: the class of the first  *)
(* character, the keyword they begin with, their length.  An OTP is its    *)
(* length; the inputs are its prefixes, with or without something behind   *)
(* them, and strings that differ in the first character.                   *)
(***************************************************************************)
EXTENDS Integers, Sequences

CONSTANTS
    CommandLines,   \* argument lists an administrator may have written
    GecosFields,    \* GECOS fields of /etc/passwd
    EarlierOtps,    \* lengths of an OTP an earlier login registered
    LoginNames      \* login names, beside the name pam_arg keeps of except=

NumericOpt == {"otplen", "expir"}
BareOpt == {"debug", "relaxed"}
TextOpt == {"sockpath", "except"}
Opt == BareOpt \cup TextOpt \cup NumericOpt \cup {"otptype", "undefined"}
OtpType == {"num", "alpha", "alphanum"}

(* An argument: the option it begins with, whether a value follows "=",    *)
(* the class of its first character, the type set_otp_type() takes it for, *)
(* what atoi() makes of it, and its length.                                *)
Argument == [opt : Opt, given : BOOLEAN, first : {"alpha", "digit", "other"},
             type : OtpType \cup {"unknown"}, num : Int, size : Nat]

FieldMax == <<31, 9, 23, 31>>    \* name, area code, number, provider

(* A GECOS field: with or without "[", the lengths and the first characters*)
(* of its values, and whether "]" follows the provider without a ";".      *)
Gecos == [bracket : BOOLEAN, size : Seq(Nat), first : Seq({"alpha", "digit", "other"}),
          closed : BOOLEAN]

(* A login name: whether it begins with the name pam_arg keeps of except=, *)
(* and the code of the character that follows it there, 0 at its end.      *)
LoginName == [begins : BOOLEAN, next : 0 .. 255]

OtpLenMin == 4
OtpLenMax == 24
TimeMin == 1
TimeMax == 60

ASSUME TokenAssumption ==
    /\ CommandLines \subseteq Seq(Argument)
    /\ GecosFields \subseteq Gecos
    /\ EarlierOtps \subseteq OtpLenMin .. OtpLenMax
    /\ LoginNames \subseteq LoginName

VARIABLES
    argv,       \* the arguments of the call
    argi,       \* the one pam_arg_parse() looks at
    arg,        \* pam_arg
    ctrl,       \* the options that took effect
    step,       \* where pam_sm_authenticate() is
    name,       \* the login name
    cel,        \* characters of user.cel_number
    otp,        \* length of the OTP in the table, 0 before there is one
    own,        \* whether this login made it
    typed,      \* the input: its characters that agree, and one too many
    ret         \* what the call returned

parsing == <<argv, argi, arg, ctrl>>
vars == <<parsing, step, name, cel, otp, own, typed, ret>>

LessOf(a, b) == IF a < b THEN a ELSE b

-----------------------------------------------------------------------------
Defaults == [otp_len |-> 5, otp_type |-> "num", time_expir |-> 5,
             sock_path |-> 29, except_user |-> 0]

Nothing == [chars |-> 0, extra |-> FALSE]

Init ==
    /\ argv \in CommandLines /\ argi = 1
    /\ arg = Defaults /\ ctrl = {}
    /\ step = "args"
    /\ name \in LoginNames
    /\ cel = 0
    /\ otp \in {0} \cup EarlierOtps /\ own = FALSE
    /\ typed = Nothing
    /\ ret = "none"

(* Variant: the upper limits are one too high.                             *)
InRangeOneMore(a) ==
    CASE a.opt = "otplen" -> OtpLenMin =< a.num /\ a.num =< OtpLenMax + 1
      [] a.opt = "expir"  -> TimeMin =< a.num /\ a.num =< TimeMax + 1

(* Whether pam_arg_parse() takes the argument; debug and relaxed are taken *)
(* without a look at what follows them.                                    *)
InRange(a) ==
    CASE a.opt = "otplen" -> OtpLenMin =< a.num /\ a.num =< OtpLenMax
      [] a.opt = "expir"  -> TimeMin =< a.num /\ a.num =< TimeMax

Valid(a) ==
    \/ a.opt \in BareOpt
    \/ a.opt \in TextOpt /\ a.given
    \/ a.opt = "otptype" /\ a.given /\ a.first = "alpha" /\ a.type # "unknown"
    \/ a.opt \in NumericOpt /\ a.given /\ a.first = "digit" /\ InRange(a)

(* The member of pam_arg it sets.  parse_args() reads 31 characters of a   *)
(* value, and the name in except= is cut at 24, without a NUL.             *)
Set(p, a) ==
    CASE a.opt \in BareOpt  -> p
      [] a.opt = "sockpath" -> [p EXCEPT !.sock_path = LessOf(a.size, 31)]
      [] a.opt = "except"   -> [p EXCEPT !.except_user = LessOf(a.size, 24)]
      [] a.opt = "otptype"  -> [p EXCEPT !.otp_type = a.type]
      [] a.opt = "otplen"   -> [p EXCEPT !.otp_len = a.num]
      [] a.opt = "expir"    -> [p EXCEPT !.time_expir = a.num]

Goto(s) == step' = s /\ UNCHANGED ret
Return(r) == step' = "done" /\ ret' = r

(* Variant: an argument that is not understood is skipped.                 *)
ParseSkipsError ==
    /\ step = "args"
    /\ \/ /\ argi =< Len(argv)
          /\ argi' = argi + 1
          /\ IF Valid(argv[argi])
             THEN arg' = Set(arg, argv[argi]) /\ ctrl' = ctrl \cup {argv[argi].opt}
             ELSE UNCHANGED <<arg, ctrl>>
          /\ UNCHANGED <<step, ret>>
       \/ argi > Len(argv) /\ UNCHANGED <<argi, arg, ctrl>> /\ Goto("except")
    /\ UNCHANGED <<argv, name, cel, otp, own, typed>>

(* One turn of the loop of pam_arg_parse().  The first argument it does    *)
(* not take ends it; the caller logs that and goes on with what it has.    *)
Parse ==
    /\ step = "args"
    /\ \/ /\ argi =< Len(argv) /\ Valid(argv[argi])
          /\ argi' = argi + 1
          /\ arg' = Set(arg, argv[argi])
          /\ ctrl' = ctrl \cup {argv[argi].opt}
          /\ UNCHANGED <<step, ret>>
       \/ /\ argi =< Len(argv) => ~ Valid(argv[argi])
          /\ UNCHANGED <<argi, arg, ctrl>>
          /\ Goto("except")
    /\ UNCHANGED <<argv, name, cel, otp, own, typed>>

(* Variant: the empty name of a call without except= begins every name.    *)
IsExceptedByDefault ==
    \/ arg.except_user = 0
    \/ name.begins /\ (arg.except_user < 24 \/ name.next = arg.time_expir)

(* strncmp() over strlen(except_user): a name that begins with the one in  *)
(* except= is excepted as well.  24 characters leave no room for the NUL,  *)
(* and the string runs on into the lowest byte of time_expir, the next one *)
(* being 0: the login name must continue with the character of this code.  *)
IsExcepted ==
    /\ "except" \in ctrl
    /\ name.begins
    /\ arg.except_user < 24 \/ name.next = arg.time_expir

Except ==
    /\ step = "except"
    /\ \/ IsExcepted /\ Return("PAM_SUCCESS")
       \/ ~ IsExcepted /\ Goto("gecos")
    /\ UNCHANGED <<parsing, name, cel, otp, own, typed>>

(* How many of the four values sscanf() converts: each needs a character,  *)
(* and all but the last must be no longer than their width.  A "]" taken   *)
(* for the end of the provider is an error.                                *)
Converted(g) ==
    LET reach(k) == \A i \in 1 .. k :
                       /\ i =< Len(g.size) /\ g.size[i] > 0
                       /\ i < k => g.size[i] =< FieldMax[i]
    IN  CHOOSE n \in 0 .. 4 : reach(n) /\ \A k \in n + 1 .. 4 : ~ reach(k)

InfoOk(g) ==
    /\ g.bracket /\ Converted(g) = 4
    /\ g.first[1] = "alpha" /\ g.first[2] = "digit"
    /\ g.first[3] = "digit" /\ g.first[4] = "alpha"
    /\ g.closed => g.size[4] >= FieldMax[4]

(* user_set_info(): area code and number go into cel_number, 24 bytes.     *)
UserInfo ==
    /\ step = "gecos"
    /\ \E g \in GecosFields :
          \/ /\ InfoOk(g)
             /\ cel' = LessOf(g.size[2] + g.size[3], 23)
             /\ Goto("otp")
          \/ ~ InfoOk(g) /\ UNCHANGED cel /\ Return("PAM_IGNORE")
    /\ UNCHANGED <<parsing, name, otp, own, typed>>

(* otp_gen(), sms_send() and pam_register_otp(), unless there is an OTP.   *)
OtpGen ==
    /\ step = "otp"
    /\ \/ otp = 0 /\ otp' = arg.otp_len /\ own' = TRUE
       \/ otp # 0 /\ UNCHANGED <<otp, own>>
    /\ Goto("prompt")
    /\ UNCHANGED <<parsing, name, cel, typed>>

SmsMaxSize == 24

(* Variant: the text is cut so that the closing stars fit.                 *)
ShownWithFrame == LessOf(otp, SmsMaxSize - 1 - 6)

(* The characters of the OTP in the SMS: "** %s **" in 24 bytes.           *)
Shown == LessOf(otp, SmsMaxSize - 1 - 3)

Prompt ==
    /\ step = "prompt"
    /\ \E k \in 0 .. otp, extra \in BOOLEAN : typed' = [chars |-> k, extra |-> extra]
    /\ Goto("compare")
    /\ UNCHANGED <<parsing, name, cel, otp, own>>

(* Variant: one character less is compared.                                *)
SameTokenShort ==
    \/ typed.chars >= arg.otp_len - 1
    \/ typed.chars = otp /\ ~ typed.extra

(* otp_cmp(): strncmp() over the otp_len of THIS login's arguments.        *)
SameToken ==
    \/ typed.chars >= arg.otp_len
    \/ typed.chars = otp /\ ~ typed.extra

Compare ==
    /\ step = "compare"
    /\ Return(IF SameToken THEN "PAM_SUCCESS" ELSE "PAM_AUTH_ERR")
    /\ UNCHANGED <<parsing, name, cel, otp, own, typed>>

Next == Parse \/ Except \/ UserInfo \/ OtpGen \/ Prompt \/ Compare

Spec == Init /\ [][Next]_vars

-----------------------------------------------------------------------------
(* What the arguments of a list mean: those before the first that is not   *)
(* valid count, and of several for one option the last.                    *)
InForce(i) == \A j \in 1 .. i : Valid(argv[j])

IsLast(j, opt, i) == argv[j].opt = opt /\ \A k \in j + 1 .. i : argv[k].opt # opt

Value(a) ==
    CASE a.opt = "sockpath" -> LessOf(a.size, 31)
      [] a.opt = "except"   -> LessOf(a.size, 24)
      [] a.opt = "otptype"  -> a.type
      [] a.opt \in NumericOpt -> a.num

Means(opt, i, v, default) ==
    \/ v = default /\ \A j \in 1 .. i : argv[j].opt # opt
    \/ \E j \in 1 .. i : IsLast(j, opt, i) /\ v = Value(argv[j])

Settled(i) ==
    /\ Means("otplen", i, arg.otp_len, Defaults.otp_len)
    /\ Means("otptype", i, arg.otp_type, Defaults.otp_type)
    /\ Means("expir", i, arg.time_expir, Defaults.time_expir)
    /\ Means("sockpath", i, arg.sock_path, Defaults.sock_path)
    /\ Means("except", i, arg.except_user, Defaults.except_user)
    /\ ctrl = {argv[j].opt : j \in 1 .. i}

(* The ranges of the variables; in particular the OTP fits its 24 columns, *)
(* the number its buffer, and a call that has an OTP has a phone number.   *)
TypeOK ==
    /\ argv \in CommandLines /\ argi \in 1 .. Len(argv) + 1
    /\ arg \in [otp_len : OtpLenMin .. OtpLenMax, otp_type : OtpType,
                time_expir : TimeMin .. TimeMax, sock_path : 0 .. 31, except_user : 0 .. 24]
    /\ ctrl \subseteq Opt
    /\ step \in {"args", "except", "gecos", "otp", "prompt", "compare", "done"}
    /\ name \in LoginNames
    /\ cel \in 0 .. 23
    /\ otp \in {0} \cup (OtpLenMin .. OtpLenMax) /\ own \in BOOLEAN
    /\ typed \in [chars : 0 .. otp, extra : BOOLEAN]
    /\ ret \in {"none", "PAM_SUCCESS", "PAM_AUTH_ERR", "PAM_IGNORE"}
    /\ step \in {"otp", "prompt", "compare"} => cel > 0
    /\ (step = "done") = (ret # "none")

(* When pam_arg_parse() has returned, the settings are those of the        *)
(* arguments before the first bad one, the last of each option, and the    *)
(* flags in ctrl name just these options.  Defaults and cuts are those of  *)
(* the code: README.md:107 and :115 give another sockpath and 256 bytes.   *)
ArgumentsInForce ==
    step # "args" =>
        /\ InForce(argi - 1)
        /\ argi =< Len(argv) => ~ Valid(argv[argi])
        /\ Settled(argi - 1)

(* Only a valid except=, the last one before a bad argument, lets anyone   *)
(* pass without a token: who has the name given there, or a longer one     *)
(* that begins with it.  One of 24 characters or more, cut without a NUL,  *)
(* excepts only longer names, and of these those that continue with the    *)
(* character whose code is the expir in force (48 to 57 are digits).       *)
PassedUnasked ==
    ret = "PAM_SUCCESS" /\ cel = 0 =>
        /\ name.begins
        /\ \E j \in 1 .. argi - 1 :
              /\ InForce(j) /\ IsLast(j, "except", argi - 1)
              /\ argv[j].size < 24 \/ name.next = arg.time_expir

(* A user who types what the SMS shows is accepted, for every OTP that     *)
(* sms_send() does not cut off: up to 20 of the 24 characters otplen=      *)
(* allows.                                                                 *)
ShownTokenAccepted ==
    ret = "PAM_AUTH_ERR" /\ own =>
        arg.otp_len > 20 \/ typed # [chars |-> Shown, extra |-> FALSE]

(* Less than the whole OTP is accepted only by a service whose otplen is   *)
(* smaller than that of the service that made it.                          *)
AcceptedInFull ==
    ret = "PAM_SUCCESS" /\ cel > 0 /\ otp =< arg.otp_len => typed.chars = otp

(* The secure mode of README.md:88, "debug otptype=alfanum otplen=8",      *)
(* makes OTPs of eight characters.                                         *)
SecureModeInForce == own => otp = 8
=============================================================================
