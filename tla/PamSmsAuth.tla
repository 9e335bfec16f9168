----------------------------- MODULE PamSmsAuth -----------------------------
(***************************************************************************)
(* pam_sm_authenticate(): one session per call, each in the process of the *)
(* application that called PAM, all of them on one pam_status table.       *)
(*                                                                         *)
(* A session is cut at each SQL statement, at the exchange with the SMS    *)
(* server and at the prompt; what happens in between is local to its       *)
(* process.  pc[s] names the step session s is about to take.  The OTP     *)
(* that session s generates is s itself: OTPs of two sessions differ.      *)
(***************************************************************************)
EXTENDS PamStatus

CONSTANTS
    Sessions,       \* calls of pam_sm_authenticate()
    Users,          \* login names
    NoUser,         \* pam_get_username() returned NULL
    Excepted,       \* users that match the except= argument
    NoGecos,        \* users without a well-formed GECOS field
    Relaxed,        \* the relaxed argument was given
    Expir,          \* the expir= argument, in ticks of the clock
    MaxTime,        \* bound on the clock
    SmsOutcomes,    \* results of sms_send() the environment produces
    Wrong,          \* an input that equals no generated OTP
    NoInput,        \* nothing entered (yet)
    Serial,         \* whether calls exclude each other (a bound, not code)
    Tables          \* what earlier calls, ended before their OTP, may have left

SmsInternalErr == {"SMS_SOCKCREATE_ERR", "SMS_JSON2STR_ERR", "SMS_WRITEONSOCK_ERR",
                   "SMS_READFROMSOCK_ERR", "SMS_SNPRINTF_ERR"}
SmsUnavailable == {"SMS_CONN2SERVER_ERR", "SMS_GATEWAY_ERR"}
SmsResult == {"SMS_NONE", "SMS_OK"} \cup SmsInternalErr \cup SmsUnavailable

ASSUME ConstantsAssumption ==
    /\ Excepted \subseteq Users /\ NoGecos \subseteq Users
    /\ NoUser \notin Users
    /\ Relaxed \in BOOLEAN /\ Serial \in BOOLEAN
    /\ Expir \in Nat \ {0} /\ MaxTime \in Nat
    /\ SmsOutcomes \subseteq SmsResult \ {"SMS_NONE"}

ASSUME TablesAssumption ==
    \A t \in Tables :
        /\ \A r \in t : r \in [id : Nat, user : Users, otp : {NoOtp}, ts : Nat \ {0}]
        /\ \A r, q \in t : r.id = q.id => r = q

ASSUME OtpAssumption ==
    /\ NoOtp \notin Sessions /\ Garbage \notin Sessions
    /\ Wrong \notin Sessions /\ NoInput \notin Sessions
    /\ NoOtp # Garbage /\ Wrong # NoInput
    /\ NoOtp \notin {Wrong, NoInput} /\ Garbage \notin {Wrong, NoInput}

VARIABLES
    rows,       \* the pam_status table
    now,        \* the wall clock
    lost,       \* history: calls whose row was purged while they held its rowid
    pc,         \* the step each session is about to take
    user,       \* pam_data.user
    tnow,       \* time_now, read on entry
    rowid,      \* the rowid the function being run has selected
    issued,     \* the OTPs generated so far
    sms,        \* result of sms_send(), kept after the return
    input,      \* otp_input, kept after the return
    otp,        \* the OTP read back from the table
    ret         \* what the call returned, NoRet before

db == <<rows, now, lost>>
control == <<pc, tnow, ret>>
vars == <<db, control, user, rowid, issued, sms, input, otp>>

NoRet == "none"
Ret == {"PAM_SUCCESS", "PAM_AUTH_ERR", "PAM_SYSTEM_ERR", "PAM_IGNORE",
        "PAM_AUTHINFO_UNAVAIL", "PAM_USER_UNKNOWN", "KILLED"}

ReadSteps == {"tsRead", "userRead", "otpRead", "otpUpdate", "getRead", "insert"}
PC == {"start", "tsRowid", "purge", "userRowid", "maxId", "otpRowid", "otpGen",
       "send", "setRowid", "prompt", "getRowid", "compare", "done"} \cup ReadSteps

Idle(s) == pc[s] \in {"start", "done"}

-----------------------------------------------------------------------------
Init ==
    /\ rows \in Tables
    /\ now = 1
    /\ lost = {}
    /\ pc = [s \in Sessions |-> "start"]
    /\ user = [s \in Sessions |-> NoUser]
    /\ tnow = [s \in Sessions |-> 0]
    /\ rowid = [s \in Sessions |-> 0]
    /\ issued = {}
    /\ sms = [s \in Sessions |-> "SMS_NONE"]
    /\ input = [s \in Sessions |-> NoInput]
    /\ otp = [s \in Sessions |-> NoOtp]
    /\ ret = [s \in Sessions |-> NoRet]

Tick ==
    /\ now < MaxTime
    /\ now' = now + 1
    /\ UNCHANGED <<rows, lost, control, user, rowid, issued, sms, input, otp>>

(* The function that selected a rowid for session s returns.               *)
Close(s) == rowid' = [rowid EXCEPT ![s] = 0]

(* Session s moves on to step l.                                           *)
Goto(s, l) == pc' = [pc EXCEPT ![s] = l] /\ UNCHANGED <<tnow, ret>>

(* The call returns r and its time_now is gone.                            *)
Return(s, r) ==
    /\ pc' = [pc EXCEPT ![s] = "done"]
    /\ tnow' = [tnow EXCEPT ![s] = 0]
    /\ ret' = [ret EXCEPT ![s] = r]

-----------------------------------------------------------------------------
(* Entry: the clock and the user name are read; an excepted user passes, a *)
(* user without a phone number is left to the other PAM modules.           *)
Enter(s, u) ==
    \/ u = NoUser /\ Return(s, "PAM_USER_UNKNOWN")
    \/ u \in Excepted /\ Return(s, "PAM_SUCCESS")
    \/ u \in NoGecos \ Excepted /\ Return(s, "PAM_IGNORE")
    \/ /\ u \in Users \ (Excepted \cup NoGecos)
       /\ pc' = [pc EXCEPT ![s] = "tsRowid"]
       /\ tnow' = [tnow EXCEPT ![s] = now]
       /\ UNCHANGED ret

Start(s) ==
    /\ pc[s] = "start"
    /\ Serial => \A q \in Sessions : Idle(q)
    /\ \E u \in Users \cup {NoUser} :
          /\ user' = [user EXCEPT ![s] = u]
          /\ Enter(s, u)
    /\ UNCHANGED <<db, rowid, issued, sms, input, otp>>

(* Variant: a rowid of 0 taken for one that was found.                     *)
GetRowidOrZero(s, l, found, Fail) ==
    /\ pc[s] = l
    /\ \E id \in SelectRowid(rows, user[s]) :
          \/ id >= 0 /\ rowid' = [rowid EXCEPT ![s] = id] /\ Goto(s, found)
          \/ id < 0 /\ UNCHANGED rowid /\ Fail
    /\ UNCHANGED <<db, user, issued, sms, input, otp>>

(* sqlite_get_rowid() on behalf of a read or a write of the user's row:    *)
(* onwards to step found with the rowid, or as the caller reports failure. *)
GetRowid(s, l, found, Fail) ==
    /\ pc[s] = l
    /\ \E id \in SelectRowid(rows, user[s]) :
          \/ id > 0 /\ rowid' = [rowid EXCEPT ![s] = id] /\ Goto(s, found)
          \/ id =< 0 /\ UNCHANGED rowid /\ Fail
    /\ UNCHANGED <<db, user, issued, sms, input, otp>>

(* pam_is_registered_var(user, "timestamp"): purge only when it is.        *)
TsRowid(s) == GetRowid(s, "tsRowid", "tsRead", Goto(s, "userRowid"))

TsRead(s) ==
    /\ pc[s] = "tsRead"
    /\ \E t \in SelectTimestamp(rows, rowid[s]) :
          Goto(s, IF t > 0 THEN "purge" ELSE "userRowid")
    /\ Close(s)
    /\ UNCHANGED <<db, user, issued, sms, input, otp>>

(* Session s is between the two statements of pam_register_otp(), or of    *)
(* pam_get_otp(), and has selected the rowid of one of these rows.         *)
HoldsOneOf(s, S) == pc[s] \in {"otpUpdate", "getRead"} /\ \E r \in S : r.id = rowid[s]

(* pam_unregister_expir_vars(time_now): its failure is not acted upon.     *)
Purge(s) ==
    /\ pc[s] = "purge"
    /\ \/ /\ rows' = DeleteOlder(rows, tnow[s])
          /\ lost' = lost \cup {q \in Sessions : HoldsOneOf(q, rows \ rows')}
       \/ Faults # {} /\ UNCHANGED <<rows, lost>>
    /\ Goto(s, "userRowid")
    /\ UNCHANGED <<now, user, rowid, issued, sms, input, otp>>

(* pam_is_registered_var(user, "user"): open a row when it is not.         *)
UserRowid(s) == GetRowid(s, "userRowid", "userRead", Goto(s, "maxId"))

UserRead(s) ==
    /\ pc[s] = "userRead"
    /\ \E registered \in SelectUser(rows, rowid[s]) :
          Goto(s, IF registered THEN "otpRowid" ELSE "maxId")
    /\ Close(s)
    /\ UNCHANGED <<db, user, issued, sms, input, otp>>

(* Variant: a negative rowid is not noticed.                               *)
MaxIdUnchecked(s) ==
    /\ pc[s] = "maxId"
    /\ \E id \in SelectNextRowid(rows) : rowid' = [rowid EXCEPT ![s] = id]
    /\ Goto(s, "insert")
    /\ UNCHANGED <<db, user, issued, sms, input, otp>>

(* pam_register_init(user, time_expir), the SELECT and the INSERT.         *)
MaxId(s) ==
    /\ pc[s] = "maxId"
    /\ \E id \in SelectNextRowid(rows) :
          \/ id >= 0 /\ rowid' = [rowid EXCEPT ![s] = id] /\ Goto(s, "insert")
          \/ id < 0 /\ UNCHANGED rowid /\ Return(s, "PAM_SYSTEM_ERR")
    /\ UNCHANGED <<db, user, issued, sms, input, otp>>

Insert(s) ==
    /\ pc[s] = "insert"
    /\ \/ /\ ~ IdTaken(rows, rowid[s])
          /\ rows' = InsertRow(rows, rowid[s], user[s], tnow[s] + Expir)
          /\ Goto(s, "otpRowid")
       \/ /\ IdTaken(rows, rowid[s]) \/ Faults # {}
          /\ Return(s, "PAM_SYSTEM_ERR")
          /\ UNCHANGED rows
    /\ Close(s)
    /\ UNCHANGED <<now, lost, user, issued, sms, input, otp>>

-----------------------------------------------------------------------------
(* pam_is_registered_var(user, "otp"): make and send an OTP when it is not *)
OtpRowid(s) == GetRowid(s, "otpRowid", "otpRead", Goto(s, "otpGen"))

(* Variant: every call makes an OTP of its own.                            *)
OtpReadAsUnset(s) ==
    /\ pc[s] = "otpRead"
    /\ Goto(s, "otpGen")
    /\ Close(s)
    /\ UNCHANGED <<db, user, issued, sms, input, otp>>

OtpRead(s) ==
    /\ pc[s] = "otpRead"
    /\ \E o \in SelectOtp(rows, rowid[s]) :
          Goto(s, IF o = NoOtp THEN "otpGen" ELSE "prompt")
    /\ Close(s)
    /\ UNCHANGED <<db, user, issued, sms, input, otp>>

(* otp_gen(), which fails when /dev/urandom cannot be read.                *)
OtpGen(s) ==
    /\ pc[s] = "otpGen"
    /\ \/ issued' = issued \cup {s} /\ Goto(s, "send")
       \/ UNCHANGED issued /\ Return(s, "PAM_SYSTEM_ERR")
    /\ UNCHANGED <<db, user, rowid, sms, input, otp>>

(* Variant: relaxed excuses every failure.                                 *)
OnErrRelaxedAny(r) == IF Relaxed THEN "PAM_SUCCESS" ELSE "PAM_AUTH_ERR"

(* The result sms_on_err() stores in *pam_ret for a failed sms_send().     *)
OnErr(r) ==
    IF r \in SmsInternalErr THEN "PAM_SYSTEM_ERR"
    ELSE IF r \in SmsUnavailable /\ Relaxed THEN "PAM_SUCCESS"
    ELSE "PAM_AUTH_ERR"

(* Variant: the result of sms_send() is not looked at.                     *)
SmsSendUnchecked(s) ==
    /\ pc[s] = "send"
    /\ \E r \in SmsOutcomes :
          sms' = [sms EXCEPT ![s] = r] /\ Goto(s, "setRowid")
    /\ UNCHANGED <<db, user, rowid, issued, input, otp>>

(* sms_send(), up to the server's answer, and sms_on_err().                *)
SmsSend(s) ==
    /\ pc[s] = "send"
    /\ \E r \in SmsOutcomes :
          /\ sms' = [sms EXCEPT ![s] = r]
          /\ \/ r = "SMS_OK" /\ Goto(s, "setRowid")
             \/ r # "SMS_OK" /\ Return(s, OnErr(r))
    /\ UNCHANGED <<db, user, rowid, issued, input, otp>>

(* pam_register_otp(user, otp), the SELECT and the UPDATE.                 *)
SetRowid(s) == GetRowid(s, "setRowid", "otpUpdate", Return(s, "PAM_SYSTEM_ERR"))

OtpUpdate(s) ==
    /\ pc[s] = "otpUpdate"
    /\ \/ rows' = UpdateOtp(rows, rowid[s], s) /\ Goto(s, "prompt")
       \/ Faults # {} /\ UNCHANGED rows /\ Return(s, "PAM_SYSTEM_ERR")
    /\ Close(s)
    /\ UNCHANGED <<now, lost, user, issued, sms, input, otp>>

-----------------------------------------------------------------------------
(* otp_get_from_user(): any OTP generated so far, another string, or no    *)
(* answer.                                                                 *)
Prompt(s) ==
    /\ pc[s] = "prompt"
    /\ \/ \E x \in issued \cup {Wrong} :
             input' = [input EXCEPT ![s] = x] /\ Goto(s, "getRowid")
       \/ UNCHANGED input /\ Return(s, "PAM_AUTHINFO_UNAVAIL")
    /\ UNCHANGED <<db, user, rowid, issued, sms, otp>>

(* pam_get_otp(user), the two SELECTs.                                     *)
OtpGetRowid(s) == GetRowid(s, "getRowid", "getRead", Return(s, "PAM_SYSTEM_ERR"))

OtpGetRead(s) ==
    /\ pc[s] = "getRead"
    /\ \E o \in SelectOtp(rows, rowid[s]) :
          /\ otp' = [otp EXCEPT ![s] = o]
          /\ \/ o # NoOtp /\ Goto(s, "compare")
             \/ o = NoOtp /\ Return(s, "PAM_SYSTEM_ERR")
    /\ Close(s)
    /\ UNCHANGED <<db, user, issued, sms, input>>

(* Variant: the result of strncmp() taken for a truth value.               *)
MatchesInverted(o, x) == IF o = Garbage THEN BOOLEAN ELSE {o # x}

(* otp_cmp(): an unwritten buffer may or may not equal the input.          *)
Matches(o, x) == IF o = Garbage THEN BOOLEAN ELSE {o = x}

Compare(s) ==
    /\ pc[s] = "compare"
    /\ \E equal \in Matches(otp[s], input[s]) :
          Return(s, IF equal THEN "PAM_SUCCESS" ELSE "PAM_AUTH_ERR")
    /\ UNCHANGED <<db, user, rowid, issued, sms, input, otp>>

(* The application may be killed, or give up, at any step of the call.     *)
Kill(s) ==
    /\ ~ Idle(s)
    /\ Return(s, "KILLED")
    /\ Close(s)
    /\ UNCHANGED <<db, user, issued, sms, input, otp>>

Registration(s) ==
    \/ Start(s) \/ TsRowid(s) \/ TsRead(s) \/ Purge(s)
    \/ UserRowid(s) \/ UserRead(s) \/ MaxId(s) \/ Insert(s)

Delivery(s) ==
    \/ OtpRowid(s) \/ OtpRead(s) \/ OtpGen(s) \/ SmsSend(s)
    \/ SetRowid(s) \/ OtpUpdate(s)

Verification(s) == Prompt(s) \/ OtpGetRowid(s) \/ OtpGetRead(s) \/ Compare(s)

Next ==
    \/ Tick
    \/ \E s \in Sessions : Registration(s) \/ Delivery(s) \/ Verification(s) \/ Kill(s)

Spec == Init /\ [][Next]_vars

-----------------------------------------------------------------------------
(* The variables keep the shapes their comments give; NoRet is what a call *)
(* that has not returned shows, and a call that is not reading a row holds *)
(* no rowid.                                                               *)
TypeOK ==
    /\ \A r \in rows : r \in [id : Nat, user : Users, otp : Sessions \cup {NoOtp}, ts : Nat \ {0}]
    /\ now \in Nat \ {0}
    /\ lost \subseteq Sessions
    /\ pc \in [Sessions -> PC]
    /\ user \in [Sessions -> Users \cup {NoUser}]
    /\ tnow \in [Sessions -> 0 .. now]
    /\ rowid \in [Sessions -> Nat]
    /\ issued \subseteq Sessions
    /\ sms \in [Sessions -> SmsResult]
    /\ input \in [Sessions -> Sessions \cup {Wrong, NoInput}]
    /\ otp \in [Sessions -> Sessions \cup {NoOtp, Garbage}]
    /\ ret \in [Sessions -> Ret \cup {NoRet}]
    /\ \A s \in Sessions : rowid[s] = 0 \/ pc[s] \in ReadSteps
    /\ \A s \in Sessions : (ret[s] # NoRet) = (pc[s] = "done")

(* An OTP is in the table only when the SMS server confirmed that it went  *)
(* out: a user is never asked for a token nobody has received.  (The order *)
(* of sms_send, sms_on_err and pam_register_otp in pam_sm_authenticate.)   *)
StoredOtpWasSent ==
    \A r \in rows : r.otp \in Sessions => sms[r.otp] = "SMS_OK"

(* PAM_SUCCESS has a cause: the except= argument, the relaxed argument     *)
(* with a server or gateway that is down, or an entered OTP whose delivery *)
(* was confirmed.  Only an unwritten buffer can excuse anything else.      *)
SuccessHasCause ==
    \A s \in Sessions : ret[s] = "PAM_SUCCESS" =>
        \/ user[s] \in Excepted
        \/ Relaxed /\ sms[s] \in SmsUnavailable
        \/ input[s] \in Sessions /\ sms[input[s]] = "SMS_OK"
        \/ otp[s] = Garbage

(* The OTP in a user's row was made for that user ("@user", whose column   *)
(* sqlite_set_col_str() sets, sqlite_client.h:37-46), although the rowid   *)
(* comes from an earlier statement and max(id)+1 is not reserved.  Only    *)
(* where a purge removed the row between the SELECT and the UPDATE may the *)
(* OTP have gone to whoever was given its rowid.                           *)
RowHoldsOwnOtp ==
    \A r \in rows : r.otp \in Sessions => user[r.otp] = r.user \/ r.otp \in lost

(* Whoever passes with an OTP passes with one made for the same user,      *)
(* unless a purge came between the two statements of the call that stored  *)
(* it or of the call that read it, or an unwritten buffer was compared.    *)
AuthenticatedByOwnOtp ==
    \A s \in Sessions : ret[s] = "PAM_SUCCESS" /\ input[s] \in Sessions =>
        user[input[s]] = user[s] \/ {s, input[s]} \cap lost # {} \/ otp[s] = Garbage

(* The OTP in the user's own SMS is called invalid only where another one  *)
(* took its place: one that another login sent to the same user, or, as    *)
(* above, one that a purge put there or an unwritten buffer.               *)
OwnOtpOutdone ==
    \A s \in Sessions : input[s] = s /\ ret[s] = "PAM_AUTH_ERR" =>
        \/ s \in lost \/ otp[s] = Garbage
        \/ \E q \in Sessions \ {s} : sms[q] = "SMS_OK" /\ (user[q] = user[s] \/ q \in lost)

(* A failed SELECT max(id) opens a row with the rowid 0, which every       *)
(* lookup takes for none: no token that was sent is ever put there.        *)
RowZeroIsDead == \A r \in rows : r.id = 0 => r.otp = NoOtp

(* The table keeps at most one row for a user, so that the row the lookup  *)
(* takes (the last one) is the user's only one.                            *)
OneRowPerUser == \A r, q \in rows : r.user = q.user => r = q

(* No step removes a row before its expiration time, or changes the user   *)
(* or the time of one: purging goes by the time read on entry.             *)
LiveRowsStay ==
    [][\A r \in rows : r.ts >= now =>
          \E q \in rows' : q.id = r.id /\ q.user = r.user /\ q.ts = r.ts]_vars

(* While its row is there a registered OTP is not exchanged for another.   *)
RegisteredOtpStays ==
    [][\A r \in rows, q \in rows' :
          r.otp # NoOtp /\ q.id = r.id /\ q.user = r.user /\ q.ts = r.ts
             => q.otp = r.otp]_vars

(* An OTP is accepted only if its row had not expired when the call began. *)
Accepts(s) == pc[s] = "compare" /\ ret'[s] = "PAM_SUCCESS"

AcceptedWasLiveOnEntry ==
    [][\A s \in Sessions : Accepts(s) =>
          \E r \in RowsOf(rows, user[s]) : r.otp = input[s] /\ r.ts >= tnow[s]]_vars
=============================================================================
