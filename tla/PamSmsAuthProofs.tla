-------------------------- MODULE PamSmsAuthProofs --------------------------
(***************************************************************************)
(* Proofs about PamSmsAuth, for any sessions, users and arguments.         *)
(*                                                                         *)
(* First, for any interleaving of the calls, with database faults, purges  *)
(* and kills: type correctness, StoredOtpWasSent, SuccessHasCause,         *)
(* LiveRowsStay, and whose OTP is written where, passes and is refused.    *)
(* Then of calls that exclude each other, on a database without faults     *)
(* whose table starts empty: the table has one row for a user, the OTP in  *)
(* it stays,                                                               *)
(* and together they implement OtpBook.                                    *)
(***************************************************************************)
EXTENDS PamSmsAuthBook, TLAPS

-----------------------------------------------------------------------------
(* What the properties rest on, step by step of a call.                    *)
BeforeSend == {"start", "tsRowid", "tsRead", "purge", "userRowid", "userRead",
               "maxId", "insert", "otpRowid", "otpRead", "otpGen", "send"}
Sent == {"setRowid", "otpUpdate"}

(* Past its entry a call has the name of a user.                           *)
Entered == \A s \in Sessions : ~ Idle(s) => user[s] \in Users

(* sms is the default up to the answer, SMS_OK where the OTP is stored.    *)
SmsFollowsPc ==
    \A s \in Sessions : /\ pc[s] \in BeforeSend => sms[s] = "SMS_NONE"
                        /\ pc[s] \in Sent => sms[s] = "SMS_OK"

(* What was read back is an OTP whose delivery was confirmed.              *)
ReadOtpWasSent ==
    \A s \in Sessions : /\ otp[s] \in Sessions => sms[otp[s]] = "SMS_OK"
                        /\ pc[s] = "compare" => otp[s] # NoOtp

IInv == /\ TypeOK
        /\ Entered
        /\ SmsFollowsPc
        /\ StoredOtpWasSent
        /\ ReadOtpWasSent
        /\ SuccessHasCause

RowType == [id : Nat, user : Users, otp : Sessions \cup {NoOtp}, ts : Nat \ {0}]

-----------------------------------------------------------------------------
(* The statements on the table.                                            *)

(* A selected rowid is a number.                                           *)
LEMMA SelectRowidInt ==
    ASSUME NEW S, \A r \in S : r \in RowType, NEW u, NEW id \in SelectRowid(S, u)
    PROVE  id \in Int
BY DEF SelectRowid, RowsOf, Latest, OnFault, RowType

(* So is the next one.                                                     *)
LEMMA SelectNextRowidInt ==
    ASSUME NEW S, \A r \in S : r \in RowType, NEW id \in SelectNextRowid(S)
    PROVE  id \in Int
BY DEF SelectNextRowid, Latest, OnFault, RowType

(* What the OTP column reads as: nothing, rubbish, or the OTP of a row.    *)
LEMMA SelectOtpSource ==
    ASSUME NEW S, NEW id, NEW o \in SelectOtp(S, id)
    PROVE  o = NoOtp \/ o = Garbage \/ \E r \in S : r.otp = o
BY DEF SelectOtp, RowsAt

(* An UPDATE keeps every row but for the OTP of the one it is about.       *)
LEMMA UpdateOtpRows ==
    ASSUME NEW S, \A r \in S : r \in RowType, NEW id, NEW o \in Sessions
    PROVE  /\ \A q \in UpdateOtp(S, id, o) : q \in RowType
           /\ \A q \in UpdateOtp(S, id, o) : q.otp = o \/ \E r \in S : q.otp = r.otp
           /\ \A r \in S : \E q \in UpdateOtp(S, id, o) :
                 q.id = r.id /\ q.user = r.user /\ q.ts = r.ts
<1>1. ASSUME NEW r \in S PROVE [r EXCEPT !.otp = o] \in RowType
  BY DEF RowType
<1>2. \A q \in UpdateOtp(S, id, o) : q \in RowType
  BY <1>1 DEF UpdateOtp
<1>3. ASSUME NEW q \in UpdateOtp(S, id, o)
      PROVE  q.otp = o \/ \E r \in S : q.otp = r.otp
  <2>1. PICK r \in S : q = IF r.id = id THEN [r EXCEPT !.otp = o] ELSE r
    BY DEF UpdateOtp
  <2> QED BY <2>1 DEF RowType
<1>4. ASSUME NEW r \in S
      PROVE  \E q \in UpdateOtp(S, id, o) : q.id = r.id /\ q.user = r.user /\ q.ts = r.ts
  <2> DEFINE q == IF r.id = id THEN [r EXCEPT !.otp = o] ELSE r
  <2>1. q \in UpdateOtp(S, id, o)
    BY DEF UpdateOtp
  <2>2. q.id = r.id /\ q.user = r.user /\ q.ts = r.ts
    BY DEF RowType
  <2> QED BY <2>1, <2>2
<1> QED BY <1>2, <1>3, <1>4

-----------------------------------------------------------------------------
(* A step within one call that touches neither the table nor what is kept. *)
Quiet == UNCHANGED <<rows, now, lost, user, sms, input, otp>> /\ issued' \subseteq Sessions

(* The rowid stays with the calls that read a row.                         *)
RowidKept(s) ==
    /\ rowid' \in [Sessions -> Nat]
    /\ \A q \in Sessions : rowid'[q] = rowid[q] \/ q = s
    /\ rowid'[s] = 0 \/ pc'[s] \in ReadSteps

(* Going on to a step of the same phase of the call.                       *)
LEMMA GotoStep ==
    ASSUME IInv, NEW s \in Sessions, ~ Idle(s), Quiet, RowidKept(s),
           NEW l \in PC \ {"start", "compare", "done"}, Goto(s, l),
           l \in BeforeSend => pc[s] \in BeforeSend,
           l \in Sent => pc[s] \in Sent
    PROVE  IInv'
<1> USE DEF Goto, Idle
<1>1. TypeOK'
  BY DEF IInv, TypeOK, Quiet, RowidKept, PC
<1>2. Entered' /\ SmsFollowsPc' /\ ReadOtpWasSent'
  BY DEF IInv, TypeOK, Quiet, Entered, SmsFollowsPc, ReadOtpWasSent
<1>3. StoredOtpWasSent' /\ SuccessHasCause'
  BY DEF IInv, Quiet, StoredOtpWasSent, SuccessHasCause
<1> QED BY <1>1, <1>2, <1>3 DEF IInv

(* Returning anything but PAM_SUCCESS.                                     *)
LEMMA ReturnStep ==
    ASSUME IInv, NEW s \in Sessions, ~ Idle(s), Quiet,
           rowid' \in [Sessions -> Nat], rowid'[s] = 0,
           \A q \in Sessions : rowid'[q] = rowid[q] \/ q = s,
           NEW r \in Ret \ {"PAM_SUCCESS"}, Return(s, r)
    PROVE  IInv'
<1> USE DEF Return, Idle
<1>1. TypeOK'
  BY DEF IInv, TypeOK, Quiet, PC, Ret, NoRet
<1>2. Entered' /\ SmsFollowsPc' /\ ReadOtpWasSent'
  BY DEF IInv, TypeOK, Quiet, Entered, SmsFollowsPc, ReadOtpWasSent, BeforeSend, Sent
<1>3. StoredOtpWasSent' /\ SuccessHasCause'
  BY DEF IInv, TypeOK, Quiet, StoredOtpWasSent, SuccessHasCause
<1> QED BY <1>1, <1>2, <1>3 DEF IInv

(* A call that has selected a rowid goes on to the read or the write.      *)
LEMMA FoundStep ==
    ASSUME IInv, NEW s \in Sessions, ~ Idle(s), Quiet,
           NEW id \in Nat, rowid' = [rowid EXCEPT ![s] = id],
           NEW l \in ReadSteps, Goto(s, l),
           l \in BeforeSend => pc[s] \in BeforeSend,
           l \in Sent => pc[s] \in Sent
    PROVE  IInv'
<1>1. RowidKept(s)
  BY DEF RowidKept, Goto, IInv, TypeOK
<1>2. l \in PC \ {"start", "compare", "done"}
  BY DEF PC, ReadSteps
<1> QED BY <1>1, <1>2, GotoStep

(* A call that has not, and does not hold one, keeps none.                 *)
LEMMA NotFound ==
    ASSUME IInv, NEW s \in Sessions, pc[s] \notin ReadSteps, UNCHANGED rowid
    PROVE  RowidKept(s)
BY DEF RowidKept, IInv, TypeOK

(* sqlite_get_rowid() where failure means going on to another step.        *)
LEMMA GetRowidGoto ==
    ASSUME IInv, NEW s \in Sessions,
           NEW from \in PC \ (ReadSteps \cup {"start", "done"}), NEW found \in ReadSteps,
           NEW to \in PC \ (ReadSteps \cup {"start", "compare", "done"}),
           GetRowid(s, from, found, Goto(s, to)),
           (found \in BeforeSend \/ to \in BeforeSend) => from \in BeforeSend,
           (found \in Sent \/ to \in Sent) => from \in Sent
    PROVE  IInv'
<1>1. ~ Idle(s) /\ pc[s] = from /\ Quiet
  BY DEF GetRowid, Idle, Quiet, db, IInv, TypeOK
<1>2. PICK id \in SelectRowid(rows, user[s]) :
        \/ id > 0 /\ rowid' = [rowid EXCEPT ![s] = id] /\ Goto(s, found)
        \/ id =< 0 /\ UNCHANGED rowid /\ Goto(s, to)
  BY DEF GetRowid
<1>3. id \in Int
  BY SelectRowidInt DEF IInv, TypeOK, RowType
<1>4. CASE id > 0 /\ rowid' = [rowid EXCEPT ![s] = id] /\ Goto(s, found)
  <2>1. id \in Nat
    BY <1>3, <1>4
  <2> QED BY <1>1, <1>4, <2>1, FoundStep
<1>5. CASE UNCHANGED rowid /\ Goto(s, to)
  BY <1>1, <1>5, NotFound, GotoStep
<1> QED BY <1>2, <1>4, <1>5

(* sqlite_get_rowid() where failure ends the call with PAM_SYSTEM_ERR.     *)
LEMMA GetRowidReturn ==
    ASSUME IInv, NEW s \in Sessions,
           NEW from \in PC \ (ReadSteps \cup {"start", "done"}), NEW found \in ReadSteps,
           GetRowid(s, from, found, Return(s, "PAM_SYSTEM_ERR")),
           found \in BeforeSend => from \in BeforeSend,
           found \in Sent => from \in Sent
    PROVE  IInv'
<1>1. ~ Idle(s) /\ pc[s] = from /\ Quiet
  BY DEF GetRowid, Idle, Quiet, db, IInv, TypeOK
<1>2. PICK id \in SelectRowid(rows, user[s]) :
        \/ id > 0 /\ rowid' = [rowid EXCEPT ![s] = id] /\ Goto(s, found)
        \/ id =< 0 /\ UNCHANGED rowid /\ Return(s, "PAM_SYSTEM_ERR")
  BY DEF GetRowid
<1>3. id \in Int
  BY SelectRowidInt DEF IInv, TypeOK, RowType
<1>4. CASE id > 0 /\ rowid' = [rowid EXCEPT ![s] = id] /\ Goto(s, found)
  <2>1. id \in Nat
    BY <1>3, <1>4
  <2> QED BY <1>1, <1>4, <2>1, FoundStep
<1>5. CASE UNCHANGED rowid /\ Return(s, "PAM_SYSTEM_ERR")
  <2>1. rowid' \in [Sessions -> Nat] /\ rowid'[s] = 0
    BY <1>1, <1>5 DEF IInv, TypeOK
  <2> QED BY <1>1, <1>5, <2>1, ReturnStep DEF Ret
<1> QED BY <1>2, <1>4, <1>5

-----------------------------------------------------------------------------
(* The invariant holds initially.                                          *)
LEMMA InitIInv == Init => IInv
<1> SUFFICES ASSUME Init PROVE IInv
  OBVIOUS
<1>1. TypeOK
  BY TablesAssumption DEF Init, TypeOK, PC, ReadSteps, Ret, NoRet, SmsResult
<1>2. Entered /\ SmsFollowsPc /\ SuccessHasCause
  BY DEF Init, Entered, Idle, SmsFollowsPc, SuccessHasCause, Sent, NoRet
<1>3. StoredOtpWasSent /\ ReadOtpWasSent
  BY TablesAssumption, OtpAssumption DEF Init, StoredOtpWasSent, ReadOtpWasSent
<1> QED BY <1>1, <1>2, <1>3 DEF IInv

(* The steps from the entry to the opening of a row keep it.               *)
LEMMA RegistrationIInv ==
    ASSUME IInv, NEW s \in Sessions, Registration(s)
    PROVE  IInv'
<1> USE DEF Idle
<1>1. CASE Start(s)
  <2>1. PICK u \in Users \cup {NoUser} : user' = [user EXCEPT ![s] = u] /\ Enter(s, u)
    BY <1>1 DEF Start
  <2>2. pc[s] = "start" /\ UNCHANGED <<rows, now, lost, rowid, issued, sms, input, otp>>
    BY <1>1 DEF Start, db
  <2>3. TypeOK'
    BY <2>1, <2>2 DEF Enter, Return, IInv, TypeOK, PC, ReadSteps, Ret, NoRet
  <2>4. Entered' /\ SmsFollowsPc' /\ ReadOtpWasSent' /\ StoredOtpWasSent'
    BY <2>1, <2>2 DEF Enter, Return, IInv, TypeOK, Entered, SmsFollowsPc,
                      ReadOtpWasSent, StoredOtpWasSent, BeforeSend, Sent
  <2>5. SuccessHasCause'
    BY <2>1, <2>2 DEF Enter, Return, IInv, TypeOK, SuccessHasCause, NoRet
  <2> QED BY <2>3, <2>4, <2>5 DEF IInv
<1>2. CASE TsRowid(s)
  BY <1>2, GetRowidGoto DEF TsRowid, PC, ReadSteps, BeforeSend, Sent
<1>3. CASE TsRead(s)
  BY <1>3, GotoStep DEF TsRead, Quiet, RowidKept, Close, db, IInv, TypeOK, PC, ReadSteps,
                        BeforeSend, Sent
<1>4. CASE Purge(s)
  <2>1. rows' \subseteq rows /\ lost' \subseteq Sessions
    BY <1>4 DEF Purge, DeleteOlder, IInv, TypeOK
  <2>2. pc[s] = "purge" /\ Goto(s, "userRowid")
        /\ UNCHANGED <<now, user, rowid, issued, sms, input, otp>>
    BY <1>4 DEF Purge
  <2>3. TypeOK'
    BY <2>1, <2>2 DEF Goto, IInv, TypeOK, PC, ReadSteps
  <2>4. Entered' /\ SmsFollowsPc' /\ ReadOtpWasSent' /\ StoredOtpWasSent' /\ SuccessHasCause'
    BY <2>1, <2>2 DEF Goto, IInv, TypeOK, Entered, SmsFollowsPc,
                      ReadOtpWasSent, StoredOtpWasSent, SuccessHasCause, BeforeSend, Sent
  <2> QED BY <2>3, <2>4 DEF IInv
<1>5. CASE UserRowid(s)
  BY <1>5, GetRowidGoto DEF UserRowid, PC, ReadSteps, BeforeSend, Sent
<1>6. CASE UserRead(s)
  BY <1>6, GotoStep DEF UserRead, Quiet, RowidKept, Close, db, IInv, TypeOK, PC, ReadSteps,
                        BeforeSend, Sent
<1>7. CASE MaxId(s)
  <2>1. ~ Idle(s) /\ pc[s] = "maxId" /\ Quiet
    BY <1>7 DEF MaxId, Quiet, db, IInv, TypeOK
  <2>2. PICK id \in SelectNextRowid(rows) :
          \/ id >= 0 /\ rowid' = [rowid EXCEPT ![s] = id] /\ Goto(s, "insert")
          \/ id < 0 /\ UNCHANGED rowid /\ Return(s, "PAM_SYSTEM_ERR")
    BY <1>7 DEF MaxId
  <2>3. id \in Int
    BY SelectNextRowidInt DEF IInv, TypeOK, RowType
  <2>4. CASE id >= 0 /\ rowid' = [rowid EXCEPT ![s] = id] /\ Goto(s, "insert")
    <3>1. id \in Nat
      BY <2>3, <2>4
    <3>2. "insert" \in ReadSteps /\ "insert" \notin Sent /\ pc[s] \in BeforeSend
      BY <2>1 DEF ReadSteps, BeforeSend, Sent
    <3> QED BY <2>1, <2>4, <3>1, <3>2, FoundStep
  <2>5. CASE UNCHANGED rowid /\ Return(s, "PAM_SYSTEM_ERR")
    <3>1. rowid' \in [Sessions -> Nat] /\ rowid'[s] = 0
      BY <2>1, <2>5 DEF IInv, TypeOK, ReadSteps
    <3> QED BY <2>1, <2>5, <3>1, ReturnStep DEF Ret
  <2> QED BY <2>2, <2>4, <2>5
<1>8. CASE Insert(s)
  <2>1. pc[s] = "insert" /\ UNCHANGED <<now, lost, user, issued, sms, input, otp>> /\ Close(s)
    BY <1>8 DEF Insert
  <2>2. CASE /\ rows' = InsertRow(rows, rowid[s], user[s], tnow[s] + Expir)
             /\ Goto(s, "otpRowid")
    <3>1. user[s] \in Users /\ rowid[s] \in Nat /\ tnow[s] + Expir \in Nat \ {0}
      BY <2>1, ConstantsAssumption DEF IInv, TypeOK, Entered
    <3>2. Row(rowid[s], user[s], NoOtp, tnow[s] + Expir) \in RowType
      BY <3>1 DEF Row, RowType
    <3>3. \A r \in rows' : r \in RowType /\ (r \in rows \/ r.otp = NoOtp)
      BY <2>2, <3>2 DEF InsertRow, Row, IInv, TypeOK, RowType
    <3>4. TypeOK'
      BY <2>1, <2>2, <3>3 DEF Goto, Close, IInv, TypeOK, RowType, PC, ReadSteps
    <3>5. StoredOtpWasSent'
      BY <2>1, <3>3, OtpAssumption DEF IInv, StoredOtpWasSent
    <3>6. Entered' /\ SmsFollowsPc' /\ ReadOtpWasSent' /\ SuccessHasCause'
      BY <2>1, <2>2 DEF Goto, IInv, TypeOK, Entered, SmsFollowsPc,
                        ReadOtpWasSent, SuccessHasCause, BeforeSend, Sent
    <3> QED BY <3>4, <3>5, <3>6 DEF IInv
  <2>3. CASE Return(s, "PAM_SYSTEM_ERR") /\ UNCHANGED rows
    BY <2>1, <2>3, ReturnStep DEF Quiet, Close, Ret, IInv, TypeOK
  <2> QED BY <1>8, <2>2, <2>3 DEF Insert
<1> QED BY <1>1, <1>2, <1>3, <1>4, <1>5, <1>6, <1>7, <1>8 DEF Registration

(* The steps from the question for a stored OTP to its registration.       *)
LEMMA DeliveryIInv ==
    ASSUME IInv, NEW s \in Sessions, Delivery(s)
    PROVE  IInv'
<1> USE DEF Idle
<1>1. CASE OtpRowid(s)
  BY <1>1, GetRowidGoto DEF OtpRowid, PC, ReadSteps, BeforeSend, Sent
<1>2. CASE OtpRead(s)
  BY <1>2, GotoStep DEF OtpRead, Quiet, RowidKept, Close, db, IInv, TypeOK, PC, ReadSteps,
                        BeforeSend, Sent
<1>3. CASE OtpGen(s)
  <2>1. ~ Idle(s) /\ pc[s] = "otpGen" /\ Quiet /\ UNCHANGED rowid
    BY <1>3 DEF OtpGen, Quiet, db, IInv, TypeOK
  <2>2. RowidKept(s) /\ rowid' \in [Sessions -> Nat] /\ rowid'[s] = 0
    BY <2>1, NotFound DEF IInv, TypeOK, ReadSteps
  <2>3. CASE Goto(s, "send")
    BY <2>1, <2>2, <2>3, GotoStep DEF PC, BeforeSend, Sent
  <2>4. CASE Return(s, "PAM_SYSTEM_ERR")
    BY <2>1, <2>2, <2>4, ReturnStep DEF Ret
  <2> QED BY <1>3, <2>3, <2>4 DEF OtpGen
<1>4. CASE SmsSend(s)
  <2>1. PICK r \in SmsOutcomes :
          /\ sms' = [sms EXCEPT ![s] = r]
          /\ \/ r = "SMS_OK" /\ Goto(s, "setRowid")
             \/ r # "SMS_OK" /\ Return(s, OnErr(r))
    BY <1>4 DEF SmsSend
  <2>2. pc[s] = "send" /\ UNCHANGED <<rows, now, lost, user, rowid, issued, input, otp>>
    BY <1>4 DEF SmsSend, db
  <2>3. r \in SmsResult /\ OnErr(r) \in Ret
    BY ConstantsAssumption DEF OnErr, Ret
  <2>4. TypeOK'
    BY <2>1, <2>2, <2>3 DEF Goto, Return, IInv, TypeOK, PC, ReadSteps, Ret, NoRet
  <2>5. sms[s] = "SMS_NONE" /\ sms \in [Sessions -> SmsResult]
    BY <2>2 DEF IInv, TypeOK, SmsFollowsPc, BeforeSend
  <2>6. \A o \in Sessions : sms[o] = "SMS_OK" => sms'[o] = "SMS_OK"
    BY <2>1, <2>5
  <2>7. StoredOtpWasSent' /\ ReadOtpWasSent'
    BY <2>1, <2>2, <2>6 DEF Goto, Return, IInv, TypeOK, StoredOtpWasSent, ReadOtpWasSent
  <2>8. Entered' /\ SmsFollowsPc'
    BY <2>1, <2>2, <2>5 DEF Goto, Return, IInv, TypeOK, Entered, SmsFollowsPc,
                            BeforeSend, Sent
  <2>9. SuccessHasCause'
    <3>1. ASSUME NEW q \in Sessions, q # s, ret'[q] = "PAM_SUCCESS"
          PROVE  ret[q] = "PAM_SUCCESS" /\ sms'[q] = sms[q]
      BY <2>1, <2>5, <3>1 DEF Goto, Return, IInv, TypeOK
    <3>2. ASSUME ret'[s] = "PAM_SUCCESS"
          PROVE  Relaxed /\ sms'[s] \in SmsUnavailable
      <4>1. ret[s] # "PAM_SUCCESS"
        BY <2>2 DEF IInv, TypeOK, NoRet
      <4>2. Return(s, OnErr(r))
        BY <2>1, <3>2, <4>1 DEF Goto
      <4>3. OnErr(r) = "PAM_SUCCESS"
        BY <3>2, <4>2 DEF Return, IInv, TypeOK
      <4> QED BY <2>1, <2>5, <4>3 DEF OnErr
    <3> QED BY <2>2, <2>6, <3>1, <3>2 DEF IInv, SuccessHasCause
  <2> QED BY <2>4, <2>7, <2>8, <2>9 DEF IInv
<1>5. CASE SetRowid(s)
  BY <1>5, GetRowidReturn DEF SetRowid, PC, ReadSteps, BeforeSend, Sent
<1>6. CASE OtpUpdate(s)
  <2>1. pc[s] = "otpUpdate" /\ UNCHANGED <<now, lost, user, issued, sms, input, otp>> /\ Close(s)
    BY <1>6 DEF OtpUpdate
  <2>2. CASE rows' = UpdateOtp(rows, rowid[s], s) /\ Goto(s, "prompt")
    <3>1. \A r \in rows : r \in RowType
      BY DEF IInv, TypeOK, RowType
    <3>2. /\ \A q \in rows' : q \in RowType
          /\ \A q \in rows' : q.otp = s \/ \E r \in rows : q.otp = r.otp
      BY <2>2, <3>1, UpdateOtpRows
    <3>3. TypeOK'
      BY <2>1, <2>2, <3>2 DEF Goto, Close, IInv, TypeOK, RowType, PC, ReadSteps
    <3>4. StoredOtpWasSent'
      BY <2>1, <3>2 DEF IInv, StoredOtpWasSent, SmsFollowsPc, Sent
    <3>5. Entered' /\ SmsFollowsPc' /\ ReadOtpWasSent' /\ SuccessHasCause'
      BY <2>1, <2>2 DEF Goto, IInv, TypeOK, Entered, SmsFollowsPc,
                        ReadOtpWasSent, SuccessHasCause, BeforeSend, Sent
    <3> QED BY <3>3, <3>4, <3>5 DEF IInv
  <2>3. CASE Return(s, "PAM_SYSTEM_ERR") /\ UNCHANGED rows
    BY <2>1, <2>3, ReturnStep DEF Quiet, Close, Ret, IInv, TypeOK
  <2> QED BY <1>6, <2>2, <2>3 DEF OtpUpdate
<1> QED BY <1>1, <1>2, <1>3, <1>4, <1>5, <1>6 DEF Delivery

(* The steps from the prompt to the comparison.                            *)
LEMMA VerificationIInv ==
    ASSUME IInv, NEW s \in Sessions, Verification(s)
    PROVE  IInv'
<1> USE DEF Idle
<1>1. CASE Prompt(s)
  <2>1. pc[s] = "prompt" /\ UNCHANGED <<rows, now, lost, user, rowid, issued, sms, otp>>
    BY <1>1 DEF Prompt, db
  <2>2. CASE UNCHANGED input /\ Return(s, "PAM_AUTHINFO_UNAVAIL")
    <3>1. Quiet /\ rowid' \in [Sessions -> Nat] /\ rowid'[s] = 0
      BY <2>1, <2>2 DEF Quiet, IInv, TypeOK, ReadSteps
    <3> QED BY <2>1, <2>2, <3>1, ReturnStep DEF Ret
  <2>3. CASE \E x \in issued \cup {Wrong} :
               input' = [input EXCEPT ![s] = x] /\ Goto(s, "getRowid")
    <3>1. TypeOK'
      BY <2>1, <2>3 DEF Goto, IInv, TypeOK, PC, ReadSteps
    <3>2. Entered' /\ SmsFollowsPc' /\ ReadOtpWasSent' /\ StoredOtpWasSent'
      BY <2>1, <2>3 DEF Goto, IInv, TypeOK, Entered, SmsFollowsPc,
                        ReadOtpWasSent, StoredOtpWasSent, BeforeSend, Sent
    <3>3. SuccessHasCause'
      BY <2>1, <2>3 DEF Goto, IInv, TypeOK, SuccessHasCause, NoRet
    <3> QED BY <3>1, <3>2, <3>3 DEF IInv
  <2> QED BY <1>1, <2>2, <2>3 DEF Prompt
<1>2. CASE OtpGetRowid(s)
  BY <1>2, GetRowidReturn DEF OtpGetRowid, PC, ReadSteps, BeforeSend, Sent
<1>3. CASE OtpGetRead(s)
  <2>1. PICK o \in SelectOtp(rows, rowid[s]) :
          /\ otp' = [otp EXCEPT ![s] = o]
          /\ \/ o # NoOtp /\ Goto(s, "compare")
             \/ o = NoOtp /\ Return(s, "PAM_SYSTEM_ERR")
    BY <1>3 DEF OtpGetRead
  <2>2. pc[s] = "getRead" /\ UNCHANGED <<rows, now, lost, user, issued, sms, input>> /\ Close(s)
    BY <1>3 DEF OtpGetRead, db
  <2>3. o = NoOtp \/ o = Garbage \/ \E r \in rows : r.otp = o
    BY SelectOtpSource
  <2>4. o \in Sessions \cup {NoOtp, Garbage}
    BY <2>3 DEF IInv, TypeOK
  <2>5. o \in Sessions => sms[o] = "SMS_OK"
    BY <2>3, OtpAssumption DEF IInv, StoredOtpWasSent
  <2>6. TypeOK'
    BY <2>1, <2>2, <2>4 DEF Goto, Return, Close, IInv, TypeOK, PC, ReadSteps, Ret, NoRet
  <2>7. Entered' /\ SmsFollowsPc' /\ StoredOtpWasSent'
    BY <2>1, <2>2 DEF Goto, Return, IInv, TypeOK, Entered, SmsFollowsPc, StoredOtpWasSent,
                      BeforeSend, Sent
  <2>8. ReadOtpWasSent'
    BY <2>1, <2>2, <2>5 DEF Goto, Return, IInv, TypeOK, ReadOtpWasSent
  <2>9. SuccessHasCause'
    BY <2>1, <2>2 DEF Goto, Return, IInv, TypeOK, SuccessHasCause, NoRet
  <2> QED BY <2>6, <2>7, <2>8, <2>9 DEF IInv
<1>4. CASE Compare(s)
  <2>1. PICK equal \in Matches(otp[s], input[s]) :
          Return(s, IF equal THEN "PAM_SUCCESS" ELSE "PAM_AUTH_ERR")
    BY <1>4 DEF Compare
  <2>2. pc[s] = "compare" /\ UNCHANGED <<rows, now, lost, user, rowid, issued, sms, input, otp>>
    BY <1>4 DEF Compare, db
  <2>3. TypeOK'
    BY <2>1, <2>2 DEF Return, IInv, TypeOK, PC, ReadSteps, Ret, NoRet
  <2>4. Entered' /\ SmsFollowsPc' /\ ReadOtpWasSent' /\ StoredOtpWasSent'
    BY <2>1, <2>2 DEF Return, IInv, TypeOK, Entered, SmsFollowsPc,
                      ReadOtpWasSent, StoredOtpWasSent, BeforeSend, Sent
  <2>5. SuccessHasCause'
    <3>1. ASSUME ret'[s] = "PAM_SUCCESS", otp[s] # Garbage
          PROVE  input[s] \in Sessions /\ sms[input[s]] = "SMS_OK"
      <4>1. equal
        BY <2>1, <3>1 DEF Return, IInv, TypeOK
      <4>2. otp[s] = input[s]
        BY <3>1, <4>1 DEF Matches
      <4>3. otp[s] \in Sessions
        BY <2>2, <3>1 DEF IInv, TypeOK, ReadOtpWasSent
      <4> QED BY <4>2, <4>3 DEF IInv, ReadOtpWasSent
    <3>2. \A q \in Sessions : q # s => ret'[q] = ret[q]
      BY <2>1 DEF Return, IInv, TypeOK
    <3> QED BY <2>2, <3>1, <3>2 DEF IInv, SuccessHasCause
  <2> QED BY <2>3, <2>4, <2>5 DEF IInv
<1> QED BY <1>1, <1>2, <1>3, <1>4 DEF Verification

(* Every step keeps the invariant.                                         *)
LEMMA NextIInv == IInv /\ [Next]_vars => IInv'
<1> SUFFICES ASSUME IInv, [Next]_vars PROVE IInv'
  OBVIOUS
<1>1. CASE UNCHANGED vars
  BY <1>1 DEF vars, db, control, IInv, TypeOK, Entered, Idle, SmsFollowsPc,
              StoredOtpWasSent, ReadOtpWasSent, SuccessHasCause
<1>2. CASE Tick
  <2>1. TypeOK'
    BY <1>2 DEF Tick, control, IInv, TypeOK
  <2> QED BY <1>2, <2>1 DEF Tick, control, IInv, Entered, Idle, SmsFollowsPc,
              StoredOtpWasSent, ReadOtpWasSent, SuccessHasCause
<1>3. ASSUME NEW s \in Sessions, Kill(s)
      PROVE  IInv'
  BY <1>3, ReturnStep DEF Kill, Close, Quiet, db, Ret, IInv, TypeOK
<1> QED BY <1>1, <1>2, <1>3, RegistrationIInv, DeliveryIInv, VerificationIInv DEF Next

-----------------------------------------------------------------------------
(* The invariant of every behaviour of the specification.                  *)
THEOREM Invariance == Spec => []IInv
BY InitIInv, NextIInv, PTL DEF Spec

(* The variables keep their shapes.                                        *)
THEOREM TypeCorrect == Spec => []TypeOK
BY Invariance, PTL DEF IInv

(* No interleaving, fault or kill puts an OTP into the table whose SMS was *)
(* not confirmed.                                                          *)
THEOREM StoredWasSent == Spec => []StoredOtpWasSent
BY Invariance, PTL DEF IInv

(* Every PAM_SUCCESS has one of the causes the code means it to have.      *)
THEOREM SuccessCaused == Spec => []SuccessHasCause
BY Invariance, PTL DEF IInv

(* A step leaves rows that have not expired with their id, user and time.  *)
LEMMA StepKeepsLiveRows ==
    ASSUME IInv, [Next]_vars, NEW r \in rows, r.ts >= now
    PROVE  \E q \in rows' : q.id = r.id /\ q.user = r.user /\ q.ts = r.ts
<1>1. CASE r \in rows'
  BY <1>1
<1>2. ASSUME NEW s \in Sessions, Purge(s) PROVE r \in rows'
  <2>1. tnow[s] =< now /\ tnow[s] \in Int /\ now \in Int /\ r.ts \in Int
    BY DEF IInv, TypeOK
  <2> QED BY <1>2, <2>1 DEF Purge, DeleteOlder
<1>3. ASSUME NEW s \in Sessions, OtpUpdate(s)
      PROVE  \E q \in rows' : q.id = r.id /\ q.user = r.user /\ q.ts = r.ts
  <2>1. \A x \in rows : x \in RowType
    BY DEF IInv, TypeOK, RowType
  <2> QED BY <1>3, <2>1, UpdateOtpRows DEF OtpUpdate
<1>4. ASSUME NEW s \in Sessions, Insert(s) PROVE r \in rows'
  BY <1>4 DEF Insert, InsertRow
<1>5. ASSUME NEW s \in Sessions,
             Start(s) \/ TsRowid(s) \/ TsRead(s) \/ UserRowid(s) \/ UserRead(s) \/ MaxId(s)
      PROVE  r \in rows'
  BY <1>5 DEF Start, TsRowid, TsRead, UserRowid, UserRead, MaxId, GetRowid, db
<1>6. ASSUME NEW s \in Sessions,
             \/ OtpRowid(s) \/ OtpRead(s) \/ OtpGen(s) \/ SmsSend(s) \/ SetRowid(s)
             \/ Verification(s) \/ Kill(s)
      PROVE  r \in rows'
  BY <1>6 DEF OtpRowid, OtpRead, OtpGen, SmsSend, SetRowid, Verification, Prompt,
              OtpGetRowid, OtpGetRead, Compare, Kill, GetRowid, db
<1>7. CASE Tick \/ UNCHANGED vars
  BY <1>7 DEF Tick, vars, db
<1> QED BY <1>1, <1>2, <1>3, <1>4, <1>5, <1>6, <1>7 DEF Next, Registration, Delivery

(* Nobody's purge, and nothing else, removes a row before its time.        *)
THEOREM LiveRowsKept == Spec => LiveRowsStay
<1>1. IInv /\ [Next]_vars =>
        [\A r \in rows : r.ts >= now =>
            \E q \in rows' : q.id = r.id /\ q.user = r.user /\ q.ts = r.ts]_vars
  BY StepKeepsLiveRows
<1> QED BY <1>1, Invariance, PTL DEF Spec, LiveRowsStay

-----------------------------------------------------------------------------
(* Whoever passes, or fails, after an input does so by a comparison with   *)
(* it, and nothing is read for a comparison without an input.              *)
PassedByOtp ==
    \A s \in Sessions :
        /\ input[s] # NoInput => pc[s] \in {"getRowid", "getRead", "compare", "done"}
        /\ pc[s] \in {"getRowid", "getRead", "compare"} \/ otp[s] # NoOtp => input[s] # NoInput
        /\ ret[s] = "PAM_SUCCESS" /\ input[s] \in Sessions => otp[s] \in {Garbage, input[s]}
        /\ ret[s] = "PAM_AUTH_ERR" /\ input[s] \in Sessions =>
              otp[s] # NoOtp /\ (otp[s] = Garbage \/ otp[s] # input[s])

LEMMA InitPassedByOtp == Init => PassedByOtp
BY DEF Init, PassedByOtp, NoRet

LEMMA NextPassedByOtp == IInv /\ PassedByOtp /\ [Next]_vars => PassedByOtp'
<1> SUFFICES ASSUME IInv, PassedByOtp, [Next]_vars PROVE PassedByOtp'
  OBVIOUS
<1>1. TypeOK
  BY DEF IInv
<1>2. CASE UNCHANGED vars \/ Tick
  BY <1>2 DEF vars, control, db, Tick, PassedByOtp
<1>3. ASSUME NEW s \in Sessions, Registration(s) PROVE PassedByOtp'
  BY <1>1, <1>3, OtpAssumption
     DEF Registration, Start, Enter, TsRowid, TsRead, Purge, UserRowid, UserRead, MaxId, Insert,
         GetRowid, Goto, Return, PassedByOtp, TypeOK
<1>4. ASSUME NEW s \in Sessions, Delivery(s) PROVE PassedByOtp'
  BY <1>1, <1>4, OtpAssumption
     DEF Delivery, OtpRowid, OtpRead, OtpGen, SmsSend, SetRowid, OtpUpdate,
         GetRowid, Goto, Return, PassedByOtp, TypeOK
<1>5. ASSUME NEW s \in Sessions, Prompt(s) PROVE PassedByOtp'
  BY <1>1, <1>5, OtpAssumption DEF Prompt, Goto, Return, PassedByOtp, TypeOK, NoRet
<1>6. ASSUME NEW s \in Sessions, OtpGetRowid(s) PROVE PassedByOtp'
  BY <1>1, <1>6 DEF OtpGetRowid, GetRowid, Goto, Return, PassedByOtp, TypeOK
<1>7. ASSUME NEW s \in Sessions, OtpGetRead(s) PROVE PassedByOtp'
  <2>1. PICK o : /\ otp' = [otp EXCEPT ![s] = o]
                 /\ \/ Goto(s, "compare")
                    \/ Return(s, "PAM_SYSTEM_ERR")
    BY <1>7 DEF OtpGetRead
  <2>2. pc[s] = "getRead" /\ UNCHANGED input /\ ret[s] = NoRet
    BY <1>1, <1>7 DEF OtpGetRead, TypeOK
  <2>3. \A q \in Sessions : q # s => UNCHANGED <<otp[q], ret[q], pc[q]>>
    BY <1>1, <2>1 DEF Goto, Return, TypeOK
  <2>4. ret'[s] \notin {"PAM_SUCCESS", "PAM_AUTH_ERR"} /\ pc'[s] \in {"compare", "done"}
    BY <1>1, <2>1, <2>2 DEF Goto, Return, TypeOK, NoRet
  <2> QED BY <2>2, <2>3, <2>4 DEF PassedByOtp
<1>8. ASSUME NEW s \in Sessions, Compare(s) PROVE PassedByOtp'
  <2>1. PICK equal \in Matches(otp[s], input[s]) :
           Return(s, IF equal THEN "PAM_SUCCESS" ELSE "PAM_AUTH_ERR")
    BY <1>8 DEF Compare
  <2>2. otp[s] = Garbage \/ (equal <=> otp[s] = input[s])
    BY DEF Matches
  <2>3. pc[s] = "compare" /\ UNCHANGED <<input, otp>> /\ otp[s] # NoOtp
    BY <1>8 DEF Compare, IInv, ReadOtpWasSent
  <2> QED BY <1>1, <2>1, <2>2, <2>3 DEF Return, PassedByOtp, TypeOK
<1>9. ASSUME NEW s \in Sessions, Kill(s) PROVE PassedByOtp'
  BY <1>1, <1>9 DEF Kill, Return, PassedByOtp, TypeOK
<1> QED BY <1>2, <1>3, <1>4, <1>5, <1>6, <1>7, <1>8, <1>9 DEF Next, Verification

LEMMA PassesByOtp == Spec => []PassedByOtp
BY InitPassedByOtp, NextPassedByOtp, Invariance, PTL DEF Spec

-----------------------------------------------------------------------------
(* Calls that run at the same time, however many and however their         *)
(* statements interleave, with purges between any two of them.             *)

(* A primary key stands for one user.                                      *)
KeysDiffer == \A r, q \in rows : r.id = q.id => r.user = q.user

(* A call that has selected a rowid has it of a row of its user, which is  *)
(* there until a purge takes it away.                                      *)
Holds(s) == \E r \in rows : r.id = rowid[s] /\ r.user = user[s]
HeldRows ==
    \A s \in Sessions : pc[s] \in {"otpUpdate", "getRead"} =>
        rowid[s] > 0 /\ (s \in lost \/ Holds(s))

RaceInv == KeysDiffer /\ HeldRows /\ RowHoldsOwnOtp /\ RowZeroIsDead

LEMMA InitRaceInv == Init => RaceInv
<1> SUFFICES ASSUME Init PROVE RaceInv
  OBVIOUS
<1>1. KeysDiffer /\ RowZeroIsDead /\ RowHoldsOwnOtp
  BY TablesAssumption, OtpAssumption DEF Init, KeysDiffer, RowZeroIsDead, RowHoldsOwnOtp
<1>2. HeldRows
  BY DEF Init, HeldRows
<1> QED BY <1>1, <1>2 DEF RaceInv

(* A step that gives no call a rowid and leaves the table and the users.   *)
LEMMA QuietRaceInv ==
    ASSUME IInv, RaceInv, UNCHANGED <<rows, lost, user>>,
           \A s \in Sessions :
              pc'[s] \in {"otpUpdate", "getRead"} =>
                 \/ rowid'[s] > 0 /\ Holds(s)'
                 \/ pc[s] = pc'[s] /\ rowid[s] = rowid'[s]
    PROVE  RaceInv'
<1>1. KeysDiffer' /\ RowZeroIsDead'
  BY DEF RaceInv, KeysDiffer, RowZeroIsDead
<1>2. HeldRows'
  BY DEF RaceInv, HeldRows, Holds
<1>3. RowHoldsOwnOtp'
  BY DEF RaceInv, RowHoldsOwnOtp
<1> QED BY <1>1, <1>2, <1>3 DEF RaceInv

(* sqlite_get_rowid() finds the row of the call's user.                    *)
LEMMA GetRowidRaceInv ==
    ASSUME IInv, RaceInv, NEW s \in Sessions, NEW l, NEW found, NEW to, NEW r,
           to \notin {"otpUpdate", "getRead"},
           GetRowid(s, l, found, Goto(s, to)) \/ GetRowid(s, l, found, Return(s, r))
    PROVE  RaceInv'
<1>1. UNCHANGED <<rows, lost, user>>
  BY DEF GetRowid, db
<1>2. PICK id \in SelectRowid(rows, user[s]) :
        \/ id > 0 /\ rowid' = [rowid EXCEPT ![s] = id] /\ Goto(s, found)
        \/ id =< 0 /\ UNCHANGED rowid /\ (Goto(s, to) \/ Return(s, r))
  BY DEF GetRowid
<1>3. CASE id > 0 /\ rowid' = [rowid EXCEPT ![s] = id] /\ Goto(s, found)
  <2>1. \E q \in rows : q.user = user[s] /\ q.id = id
    BY <1>3 DEF SelectRowid, OnFault, RowsOf, Latest
  <2>2. rowid'[s] > 0 /\ Holds(s)'
    BY <1>1, <1>3, <2>1 DEF Holds, IInv, TypeOK
  <2>3. \A q \in Sessions : q # s => pc'[q] = pc[q] /\ rowid'[q] = rowid[q]
    BY <1>3 DEF Goto, IInv, TypeOK
  <2> QED BY <1>1, <2>2, <2>3, QuietRaceInv
<1>4. CASE UNCHANGED rowid /\ Goto(s, to)
  BY <1>1, <1>4, QuietRaceInv DEF Goto, IInv, TypeOK
<1>5. CASE UNCHANGED rowid /\ Return(s, r)
  BY <1>1, <1>5, QuietRaceInv DEF Return, IInv, TypeOK
<1> QED BY <1>2, <1>3, <1>4, <1>5

(* A step that closes the call's read and returns or goes on to l.         *)
LEMMA CloseRaceInv ==
    ASSUME IInv, RaceInv, NEW s \in Sessions, UNCHANGED <<rows, lost, user>>,
           Close(s) \/ UNCHANGED rowid,
           NEW r, NEW l, l \notin {"otpUpdate", "getRead"}, Goto(s, l) \/ Return(s, r)
    PROVE  RaceInv'
<1>1. \A q \in Sessions : q # s => pc'[q] = pc[q] /\ rowid'[q] = rowid[q]
  BY DEF Close, Goto, Return, IInv, TypeOK
<1>2. pc'[s] \notin {"otpUpdate", "getRead"}
  BY DEF Goto, Return, IInv, TypeOK
<1> QED BY <1>1, <1>2, QuietRaceInv

(* A purge makes every call that holds a row it takes away one of the lost.*)
LEMMA PurgeRaceInv ==
    ASSUME IInv, RaceInv, NEW s \in Sessions, Purge(s)
    PROVE  RaceInv'
<1>1. pc[s] = "purge" /\ UNCHANGED <<user, rowid>> /\ Goto(s, "userRowid")
  BY DEF Purge
<1>2. CASE UNCHANGED <<rows, lost>>
  BY <1>1, <1>2, CloseRaceInv
<1>3. CASE /\ rows' = DeleteOlder(rows, tnow[s])
           /\ lost' = lost \cup {q \in Sessions : HoldsOneOf(q, rows \ rows')}
  <2>1. rows' \subseteq rows
    BY <1>3 DEF DeleteOlder
  <2>2. KeysDiffer' /\ RowZeroIsDead'
    BY <2>1 DEF RaceInv, KeysDiffer, RowZeroIsDead
  <2>3. RowHoldsOwnOtp'
    BY <1>1, <1>3, <2>1 DEF RaceInv, RowHoldsOwnOtp
  <2>4. ASSUME NEW q \in Sessions, pc'[q] \in {"otpUpdate", "getRead"}
        PROVE  rowid'[q] > 0 /\ (q \in lost' \/ Holds(q)')
    <3>1. pc[q] = pc'[q] /\ rowid[q] > 0 /\ (q \in lost \/ Holds(q))
      BY <1>1, <2>4 DEF Goto, IInv, TypeOK, RaceInv, HeldRows
    <3>2. ASSUME NEW r \in rows, r.id = rowid[q], r.user = user[q]
          PROVE  q \in lost' \/ Holds(q)'
      <4>1. CASE r \in rows'
        BY <1>1, <3>2, <4>1 DEF Holds
      <4>2. CASE r \notin rows'
        BY <1>3, <2>4, <3>1, <3>2, <4>2 DEF HoldsOneOf
      <4> QED BY <4>1, <4>2
    <3> QED BY <1>1, <1>3, <3>1, <3>2 DEF Holds
  <2> QED BY <2>2, <2>3, <2>4 DEF RaceInv, HeldRows
<1> QED BY <1>2, <1>3 DEF Purge

LEMMA RegistrationRaceInv ==
    ASSUME IInv, RaceInv, NEW s \in Sessions, Registration(s)
    PROVE  RaceInv'
<1>1. CASE Start(s)
  <2>1. PICK u \in Users \cup {NoUser} : user' = [user EXCEPT ![s] = u] /\ Enter(s, u)
    BY <1>1 DEF Start
  <2>2. pc[s] = "start" /\ UNCHANGED <<rows, lost, rowid>>
    BY <1>1 DEF Start, db
  <2>3. /\ \A q \in Sessions : q # s => UNCHANGED <<pc[q], user[q]>>
        /\ pc'[s] \in {"done", "tsRowid"}
    BY <2>1 DEF Enter, Return, IInv, TypeOK
  <2>4. KeysDiffer' /\ RowZeroIsDead'
    BY <2>2 DEF RaceInv, KeysDiffer, RowZeroIsDead
  <2>5. HeldRows'
    BY <2>2, <2>3 DEF RaceInv, HeldRows, Holds
  <2>6. \A r \in rows : r.otp # s
    BY <2>2 DEF IInv, StoredOtpWasSent, SmsFollowsPc, BeforeSend
  <2>7. RowHoldsOwnOtp'
    BY <2>2, <2>3, <2>6 DEF RaceInv, RowHoldsOwnOtp
  <2> QED BY <2>4, <2>5, <2>7 DEF RaceInv
<1>2. CASE TsRowid(s)
  BY <1>2, GetRowidRaceInv DEF TsRowid
<1>3. CASE TsRead(s)
  BY <1>3, CloseRaceInv DEF TsRead, db
<1>4. CASE Purge(s)
  BY <1>4, PurgeRaceInv
<1>5. CASE UserRowid(s)
  BY <1>5, GetRowidRaceInv DEF UserRowid
<1>6. CASE UserRead(s)
  BY <1>6, CloseRaceInv DEF UserRead, db
<1>7. CASE MaxId(s)
  <2>1. pc[s] = "maxId" /\ UNCHANGED <<rows, lost, user>>
    BY <1>7 DEF MaxId, db
  <2>2. PICK id : \/ rowid' = [rowid EXCEPT ![s] = id] /\ Goto(s, "insert")
                  \/ UNCHANGED rowid /\ Return(s, "PAM_SYSTEM_ERR")
    BY <1>7 DEF MaxId
  <2>3. \A q \in Sessions : q # s => UNCHANGED <<pc[q], rowid[q]>>
    BY <2>2 DEF Goto, Return, IInv, TypeOK
  <2>4. pc'[s] \in {"insert", "done"}
    BY <2>2 DEF Goto, Return, IInv, TypeOK
  <2> QED BY <2>1, <2>3, <2>4, QuietRaceInv
<1>8. CASE Insert(s)
  <2>1. pc[s] = "insert" /\ UNCHANGED <<lost, user>> /\ Close(s)
    BY <1>8 DEF Insert
  <2>2. CASE /\ ~ IdTaken(rows, rowid[s])
             /\ rows' = InsertRow(rows, rowid[s], user[s], tnow[s] + Expir)
             /\ Goto(s, "otpRowid")
    <3>1. PICK x : /\ x.id = rowid[s] /\ x.user = user[s] /\ x.otp = NoOtp
                   /\ rows' = rows \cup {x}
      BY <2>2 DEF InsertRow, Row
    <3>2. \A r \in rows : r.id # x.id
      BY <2>2, <3>1 DEF IdTaken, RowsAt
    <3>3. /\ \A q \in Sessions : q # s => UNCHANGED <<pc[q], rowid[q]>>
          /\ pc'[s] = "otpRowid"
      BY <2>1, <2>2 DEF Goto, Close, IInv, TypeOK
    <3>4. KeysDiffer' /\ RowZeroIsDead'
      BY <3>1, <3>2 DEF RaceInv, KeysDiffer, RowZeroIsDead
    <3>5. HeldRows'
      BY <2>1, <3>1, <3>3 DEF RaceInv, HeldRows, Holds
    <3>6. RowHoldsOwnOtp'
      BY <2>1, <3>1, OtpAssumption DEF RaceInv, RowHoldsOwnOtp
    <3> QED BY <3>4, <3>5, <3>6 DEF RaceInv
  <2>3. CASE Return(s, "PAM_SYSTEM_ERR") /\ UNCHANGED rows
    BY <2>1, <2>3, CloseRaceInv
  <2> QED BY <1>8, <2>2, <2>3 DEF Insert
<1> QED BY <1>1, <1>2, <1>3, <1>4, <1>5, <1>6, <1>7, <1>8 DEF Registration

(* The write goes to the row that the call holds, its user's.              *)
LEMMA DeliveryRaceInv ==
    ASSUME IInv, RaceInv, NEW s \in Sessions, Delivery(s)
    PROVE  RaceInv'
<1>1. CASE OtpRowid(s)
  BY <1>1, GetRowidRaceInv DEF OtpRowid
<1>2. CASE OtpRead(s)
  BY <1>2, CloseRaceInv DEF OtpRead, db
<1>3. CASE OtpGen(s)
  BY <1>3, CloseRaceInv DEF OtpGen, db
<1>4. CASE SmsSend(s)
  <2>1. UNCHANGED <<rows, lost, user, rowid>>
    BY <1>4 DEF SmsSend, db
  <2>2. PICK r : Goto(s, "setRowid") \/ Return(s, r)
    BY <1>4 DEF SmsSend
  <2> QED BY <2>1, <2>2, CloseRaceInv
<1>5. CASE SetRowid(s)
  BY <1>5, GetRowidRaceInv DEF SetRowid
<1>6. CASE OtpUpdate(s)
  <2>1. pc[s] = "otpUpdate" /\ UNCHANGED <<lost, user>> /\ Close(s) /\ rowid[s] > 0
    BY <1>6 DEF OtpUpdate, RaceInv, HeldRows
  <2>2. CASE rows' = UpdateOtp(rows, rowid[s], s) /\ Goto(s, "prompt")
    <3>1. /\ \A q \in Sessions : q # s => UNCHANGED <<pc[q], rowid[q]>>
          /\ pc'[s] = "prompt"
      BY <2>1, <2>2 DEF Goto, Close, IInv, TypeOK
    <3>2. \A r \in rows : r \in RowType
      BY DEF IInv, TypeOK, RowType
    <3>3. ASSUME NEW q \in rows'
          PROVE  \E r \in rows : /\ q.id = r.id /\ q.user = r.user
                                 /\ q.otp = r.otp \/ (q.otp = s /\ r.id = rowid[s])
      <4>1. PICK r \in rows : q = IF r.id = rowid[s] THEN [r EXCEPT !.otp = s] ELSE r
        BY <2>2, <3>3 DEF UpdateOtp
      <4> QED BY <3>2, <4>1 DEF RowType
    <3>4. \A r \in rows : \E q \in rows' : q.id = r.id /\ q.user = r.user
      BY <2>2, <3>2, UpdateOtpRows
    <3>5. KeysDiffer'
      BY <3>3 DEF RaceInv, KeysDiffer
    <3>6. HeldRows'
      BY <2>1, <3>1, <3>4 DEF RaceInv, HeldRows, Holds
    <3>7. RowZeroIsDead'
      BY <2>1, <3>3 DEF RaceInv, RowZeroIsDead
    <3>8. RowHoldsOwnOtp'
      <4> SUFFICES ASSUME NEW q \in rows', q.otp \in Sessions
                   PROVE  user'[q.otp] = q.user \/ q.otp \in lost'
        BY DEF RowHoldsOwnOtp
      <4>1. PICK r \in rows : /\ q.user = r.user
                              /\ q.otp = r.otp \/ (q.otp = s /\ r.id = rowid[s])
        BY <3>3
      <4>2. CASE q.otp = r.otp
        BY <2>1, <4>1, <4>2 DEF RaceInv, RowHoldsOwnOtp
      <4>3. CASE q.otp = s /\ r.id = rowid[s]
        BY <2>1, <4>1, <4>3 DEF RaceInv, HeldRows, Holds, KeysDiffer
      <4> QED BY <4>1, <4>2, <4>3
    <3> QED BY <3>5, <3>6, <3>7, <3>8 DEF RaceInv
  <2>3. CASE Return(s, "PAM_SYSTEM_ERR") /\ UNCHANGED rows
    BY <2>1, <2>3, CloseRaceInv
  <2> QED BY <1>6, <2>2, <2>3 DEF OtpUpdate
<1> QED BY <1>1, <1>2, <1>3, <1>4, <1>5, <1>6 DEF Delivery

LEMMA VerificationRaceInv ==
    ASSUME IInv, RaceInv, NEW s \in Sessions, Verification(s)
    PROVE  RaceInv'
<1>1. CASE Prompt(s)
  BY <1>1, CloseRaceInv DEF Prompt, db
<1>2. CASE OtpGetRowid(s)
  BY <1>2, GetRowidRaceInv DEF OtpGetRowid
<1>3. CASE OtpGetRead(s)
  BY <1>3, CloseRaceInv DEF OtpGetRead, db
<1>4. CASE Compare(s)
  BY <1>4, CloseRaceInv DEF Compare, db
<1> QED BY <1>1, <1>2, <1>3, <1>4 DEF Verification

LEMMA NextRaceInv ==
    ASSUME IInv, RaceInv, [Next]_vars
    PROVE  RaceInv'
<1>1. CASE UNCHANGED vars \/ Tick
  BY <1>1, QuietRaceInv DEF vars, db, control, Tick
<1>2. ASSUME NEW s \in Sessions, Kill(s) PROVE RaceInv'
  BY <1>2, CloseRaceInv DEF Kill, db
<1> QED BY <1>1, <1>2, RegistrationRaceInv, DeliveryRaceInv, VerificationRaceInv DEF Next

LEMMA RaceInvariance == Spec => []RaceInv
BY InitRaceInv, NextRaceInv, Invariance, PTL DEF Spec

(* However many calls run at the same time, with rows that expire, faults  *)
(* and kills: the OTP in a row is one of the row's own user, but for the   *)
(* OTP of a call whose row was purged before its UPDATE.                   *)
THEOREM RowsHoldOwn == Spec => []RowHoldsOwnOtp
BY RaceInvariance, PTL DEF RaceInv

(* Where SELECT max(id) failed, the row that is opened stays without OTP.  *)
THEOREM RowZeroStaysDead == Spec => []RowZeroIsDead
BY RaceInvariance, PTL DEF RaceInv

-----------------------------------------------------------------------------
(* What a call has read back was made for its user, but for the lost.      *)
ReadsOwn ==
    \A s \in Sessions :
        /\ otp[s] \in Sessions => user[otp[s]] = user[s] \/ {s, otp[s]} \cap lost # {}
        /\ pc[s] = "start" => otp[s] = NoOtp

LEMMA InitReadsOwn == Init => ReadsOwn
BY OtpAssumption DEF Init, ReadsOwn

LEMMA LostGrows == [Next]_vars => lost \subseteq lost'
<1> SUFFICES ASSUME [Next]_vars PROVE lost \subseteq lost'
  OBVIOUS
<1>1. CASE Tick \/ UNCHANGED vars
  BY <1>1 DEF Tick, vars, db
<1>2. ASSUME NEW s \in Sessions, Registration(s) PROVE lost \subseteq lost'
  BY <1>2 DEF Registration, Start, TsRowid, TsRead, Purge, UserRowid, UserRead, MaxId, Insert,
              GetRowid, db
<1>3. ASSUME NEW s \in Sessions, Delivery(s) \/ Verification(s) \/ Kill(s)
      PROVE  lost \subseteq lost'
  BY <1>3 DEF Delivery, OtpRowid, OtpRead, OtpGen, SmsSend, SetRowid, OtpUpdate, Verification,
              Prompt, OtpGetRowid, OtpGetRead, Compare, Kill, GetRowid, db
<1> QED BY <1>1, <1>2, <1>3 DEF Next

LEMMA NextReadsOwn ==
    ASSUME IInv, RaceInv, ReadsOwn, [Next]_vars
    PROVE  ReadsOwn'
<1>0. lost \subseteq lost'
  BY LostGrows
<1>1. CASE UNCHANGED vars \/ Tick
  BY <1>1 DEF vars, db, control, Tick, ReadsOwn
<1>2. ASSUME NEW s \in Sessions, Start(s) PROVE ReadsOwn'
  <2>1. pc[s] = "start" /\ UNCHANGED otp /\ otp[s] = NoOtp
    BY <1>2 DEF Start, ReadsOwn
  <2>2. \A q \in Sessions : otp[q] # s
    BY <2>1 DEF IInv, ReadOtpWasSent, SmsFollowsPc, BeforeSend
  <2>3. \A q \in Sessions : q # s => user'[q] = user[q]
    BY <1>2 DEF Start, IInv, TypeOK
  <2>4. \A q \in Sessions : pc'[q] = "start" => pc[q] = "start"
    BY <1>2, <2>1 DEF Start, Enter, Return, IInv, TypeOK
  <2> QED BY <1>0, <2>1, <2>2, <2>3, <2>4, OtpAssumption DEF ReadsOwn
<1>3. ASSUME NEW s \in Sessions, OtpGetRead(s) PROVE ReadsOwn'
  <2>1. PICK o \in SelectOtp(rows, rowid[s]) :
           /\ otp' = [otp EXCEPT ![s] = o]
           /\ Goto(s, "compare") \/ Return(s, "PAM_SYSTEM_ERR")
    BY <1>3 DEF OtpGetRead
  <2>2. pc[s] = "getRead" /\ UNCHANGED <<user, lost>>
    BY <1>3 DEF OtpGetRead, db
  <2>3. ASSUME s \notin lost, o \in Sessions PROVE user[o] = user[s] \/ o \in lost
    <3>1. PICK r \in rows : r.id = rowid[s] /\ r.user = user[s]
      BY <2>2, <2>3 DEF RaceInv, HeldRows, Holds
    <3>2. PICK q \in rows : q.id = rowid[s] /\ q.otp = o
      BY <2>3, OtpAssumption DEF SelectOtp, RowsAt
    <3> QED BY <2>3, <3>1, <3>2 DEF RaceInv, KeysDiffer, RowHoldsOwnOtp
  <2>4. \A q \in Sessions : pc'[q] = "start" => pc[q] = "start" /\ q # s
    BY <2>1, <2>2 DEF Goto, Return, IInv, TypeOK
  <2>5. \A q \in Sessions : otp'[q] = IF q = s THEN o ELSE otp[q]
    BY <2>1 DEF IInv, TypeOK
  <2> QED BY <2>2, <2>3, <2>4, <2>5 DEF ReadsOwn
<1>4. ASSUME NEW s \in Sessions, UNCHANGED <<otp, user>>,
             NEW l \in PC \ {"start"}, NEW r, Goto(s, l) \/ Return(s, r)
      PROVE  ReadsOwn'
  <2>1. \A q \in Sessions : pc'[q] = "start" => pc[q] = "start"
    BY <1>4 DEF Goto, Return, IInv, TypeOK
  <2> QED BY <1>0, <1>4, <2>1 DEF ReadsOwn
<1> USE DEF PC, ReadSteps
<1>5. ASSUME NEW s \in Sessions, NEW l, NEW r,
             NEW found \in PC \ {"start"}, NEW to \in PC \ {"start"},
             GetRowid(s, l, found, Goto(s, to)) \/ GetRowid(s, l, found, Return(s, r))
      PROVE  ReadsOwn'
  <2>1. UNCHANGED <<otp, user>> /\ (Goto(s, found) \/ Goto(s, to) \/ Return(s, r))
    BY <1>5 DEF GetRowid
  <2> QED BY <1>4, <2>1
<1>6. ASSUME NEW s \in Sessions,
             TsRowid(s) \/ UserRowid(s) \/ OtpRowid(s) \/ SetRowid(s) \/ OtpGetRowid(s)
      PROVE  ReadsOwn'
  <2>1. CASE TsRowid(s)
    BY <1>5, <2>1 DEF TsRowid
  <2>2. CASE UserRowid(s)
    BY <1>5, <2>2 DEF UserRowid
  <2>3. CASE OtpRowid(s)
    BY <1>5, <2>3 DEF OtpRowid
  <2>4. CASE SetRowid(s)
    BY <1>5, <2>4 DEF SetRowid
  <2>5. CASE OtpGetRowid(s)
    BY <1>5, <2>5 DEF OtpGetRowid
  <2> QED BY <1>6, <2>1, <2>2, <2>3, <2>4, <2>5
<1>7. ASSUME NEW s \in Sessions, TsRead(s) \/ Purge(s) \/ UserRead(s) \/ MaxId(s) \/ Insert(s)
      PROVE  ReadsOwn'
  BY <1>4, <1>7 DEF TsRead, Purge, UserRead, MaxId, Insert
<1>8. ASSUME NEW s \in Sessions,
             \/ OtpRead(s) \/ OtpGen(s) \/ SmsSend(s) \/ OtpUpdate(s)
             \/ Prompt(s) \/ Compare(s) \/ Kill(s)
      PROVE  ReadsOwn'
  BY <1>4, <1>8 DEF OtpRead, OtpGen, SmsSend, OtpUpdate, Prompt, Compare, Kill
<1> QED BY <1>1, <1>2, <1>3, <1>6, <1>7, <1>8 DEF Next, Registration, Delivery, Verification

LEMMA AlwaysReadsOwn == Spec => []ReadsOwn
BY InitReadsOwn, NextReadsOwn, RaceInvariance, Invariance, PTL DEF Spec

(* However many calls run at the same time, whatever expires, fails or is  *)
(* killed: nobody passes with the OTP of another user, but for a purge in  *)
(* the middle of a write or a read and for an unwritten buffer.            *)
THEOREM OwnOtpOnly == Spec => []AuthenticatedByOwnOtp
<1>1. ReadsOwn /\ PassedByOtp => AuthenticatedByOwnOtp
  BY DEF ReadsOwn, PassedByOtp, AuthenticatedByOwnOtp
<1> QED BY <1>1, AlwaysReadsOwn, PassesByOtp, PTL

(* And the OTP a call has sent is refused to the user it went to only for  *)
(* another OTP that was sent to that user, with the same exceptions.       *)
THEOREM OwnOutdone == Spec => []OwnOtpOutdone
<1>1. ASSUME IInv, ReadsOwn, PassedByOtp, NEW s \in Sessions,
             input[s] = s, ret[s] = "PAM_AUTH_ERR", s \notin lost, otp[s] # Garbage
      PROVE  \E q \in Sessions \ {s} : sms[q] = "SMS_OK" /\ (user[q] = user[s] \/ q \in lost)
  <2>1. otp[s] \in Sessions \ {s}
    BY <1>1 DEF PassedByOtp, IInv, TypeOK
  <2>2. sms[otp[s]] = "SMS_OK" /\ (user[otp[s]] = user[s] \/ otp[s] \in lost)
    BY <1>1, <2>1 DEF IInv, ReadOtpWasSent, ReadsOwn
  <2> QED BY <2>1, <2>2
<1>2. IInv /\ ReadsOwn /\ PassedByOtp => OwnOtpOutdone
  BY <1>1 DEF OwnOtpOutdone
<1> QED BY <1>2, Invariance, AlwaysReadsOwn, PassesByOtp, PTL

-----------------------------------------------------------------------------
(* Calls that exclude each other, on a database without faults whose table *)
(* starts empty.                                                           *)

OneAtATime == Serial /\ Faults = {} /\ Tables = {{}}

Own(s) == RowsOf(rows, user[s])

(* The table, between any two statements.                                  *)
Table ==
    /\ \A r, q \in rows : r.id = q.id => r = q
    /\ \A r \in rows : r.id > 0
    /\ OneRowPerUser

AfterPurge == PC \ {"start", "tsRowid", "tsRead", "purge", "done"}
HasRow == {"otpRowid", "otpRead", "otpGen", "send", "setRowid", "otpUpdate",
           "prompt", "getRowid", "getRead", "compare"}
Unset == {"otpGen", "send", "setRowid", "otpUpdate"}
Checking == {"prompt", "getRowid", "getRead", "compare"}

(* What the call that is running may take for granted, step by step.       *)
Phase(s) ==
    /\ pc[s] \in AfterPurge => \A r \in Own(s) : r.ts >= tnow[s]
    /\ pc[s] \in {"maxId", "insert"} => Own(s) = {}
    /\ pc[s] = "insert" => rowid[s] > 0
    /\ pc[s] \in ReadSteps \ {"insert"} => \E r \in Own(s) : r.id = rowid[s]
    /\ pc[s] \in HasRow => Own(s) # {}
    /\ pc[s] \in Unset => \A r \in Own(s) : r.otp = NoOtp
    /\ pc[s] \in Checking /\ sms[s] = "SMS_OK" => \A r \in Own(s) : r.otp = s
    /\ pc[s] \in BeforeSend \ {"send"} => s \notin issued
    /\ pc[s] \in Checking /\ s \in issued => sms[s] = "SMS_OK"
    /\ pc[s] = "compare" => \A r \in Own(s) : r.otp = otp[s]
    /\ input[s] # NoInput => pc[s] \in {"getRowid", "getRead", "compare", "done"}
    /\ input[s] = s => s \in issued /\ ret[s] # "PAM_AUTH_ERR"

SerialInv ==
    /\ \A s, q \in Sessions : s # q => Idle(s) \/ Idle(q)
    /\ Table
    /\ \A s \in Sessions : Phase(s)

LEMMA InitSerialInv == OneAtATime /\ Init => SerialInv
BY OtpAssumption DEF OneAtATime, Init, SerialInv, Table, OneRowPerUser, Phase, Idle, Checking, Unset, HasRow,
    ReadSteps, BeforeSend, AfterPurge, NoRet

(* A rowid that is found is that of a row of the user; none is found only  *)
(* where there is none.                                                    *)
LEMMA Selected ==
    ASSUME Faults = {}, IInv, Table, NEW u, NEW id \in SelectRowid(rows, u)
    PROVE  \/ id > 0 /\ \E r \in RowsOf(rows, u) : r.id = id
           \/ id = 0 /\ RowsOf(rows, u) = {}
BY DEF SelectRowid, OnFault, Latest, RowsOf, Table

(* A step of the only call that is running disturbs no other.              *)
LEMMA SerialStep ==
    ASSUME SerialInv, NEW s \in Sessions,
           \A q \in Sessions : q # s => /\ Idle(q)
                                        /\ UNCHANGED <<pc[q], ret[q], input[q]>>,
           issued \subseteq issued', issued' \subseteq issued \cup {s},
           Table', Phase(s)'
    PROVE  SerialInv'
<1>1. ASSUME NEW q \in Sessions, q # s PROVE Phase(q)'
  BY <1>1 DEF SerialInv, Phase, Idle, Checking, Unset, HasRow, ReadSteps, BeforeSend, AfterPurge
<1> QED BY <1>1 DEF SerialInv, Idle

(* The same where the table is left alone.                                 *)
LEMMA ReadStep ==
    ASSUME SerialInv, NEW s \in Sessions, ~ Idle(s), UNCHANGED rows,
           \A q \in Sessions : q # s => UNCHANGED <<pc[q], ret[q], input[q]>>,
           issued \subseteq issued', issued' \subseteq issued \cup {s},
           Phase(s)'
    PROVE  SerialInv'
<1>1. Table'
  BY DEF SerialInv, Table, OneRowPerUser
<1> QED BY <1>1, SerialStep DEF SerialInv

(* A call that returns, otherwise than by comparing, leaves nothing to say.*)
LEMMA SerialReturn ==
    ASSUME IInv, SerialInv, NEW s \in Sessions, ~ Idle(s), UNCHANGED <<rows, issued, input>>,
           NEW r, Return(s, r), r # "PAM_AUTH_ERR" \/ input[s] # s
    PROVE  SerialInv'
<1>1. /\ \A q \in Sessions : q # s => UNCHANGED <<pc[q], ret[q], input[q]>>
      /\ pc'[s] = "done" /\ ret'[s] = r
  BY DEF Return, IInv, TypeOK
<1>2. Phase(s)'
  BY <1>1 DEF SerialInv, Phase, Checking, Unset, HasRow, ReadSteps, BeforeSend, AfterPurge
<1> QED BY <1>1, <1>2, ReadStep

(* A call that goes on, with its row, its OTP and its input as they are.   *)
LEMMA SerialGoto ==
    ASSUME IInv, SerialInv, NEW s \in Sessions, ~ Idle(s),
           UNCHANGED <<rows, user, sms, issued, input, otp>>, NEW l, Goto(s, l), Phase(s)'
    PROVE  SerialInv'
<1>1. \A q \in Sessions : q # s => UNCHANGED <<pc[q], ret[q], input[q]>>
  BY DEF Goto, IInv, TypeOK
<1> QED BY <1>1, ReadStep

-----------------------------------------------------------------------------
LEMMA StartSerial ==
    ASSUME OneAtATime, IInv, SerialInv, NEW s \in Sessions, Start(s)
    PROVE  SerialInv'
<1>1. PICK u \in Users \cup {NoUser} : user' = [user EXCEPT ![s] = u] /\ Enter(s, u)
  BY DEF Start
<1>2. /\ pc[s] = "start" /\ UNCHANGED <<rows, issued, input>>
      /\ \A q \in Sessions : Idle(q)
  BY DEF Start, db, OneAtATime
<1>3. /\ \A q \in Sessions : q # s => UNCHANGED <<pc[q], ret[q], input[q]>>
      /\ pc'[s] \in {"tsRowid", "done"}
      /\ ret'[s] # "PAM_AUTH_ERR" \/ ret'[s] = ret[s]
  BY <1>1, <1>2 DEF Enter, Return, IInv, TypeOK
<1>4. Phase(s)'
  BY <1>2, <1>3 DEF SerialInv, Phase, Checking, Unset, HasRow, ReadSteps, BeforeSend, AfterPurge
<1>5. Table'
  BY <1>2 DEF SerialInv, Table, OneRowPerUser
<1> QED BY <1>2, <1>3, <1>4, <1>5, SerialStep

(* sqlite_get_rowid() with a row of the user, and without.                 *)
LEMMA GetRowidSerial ==
    ASSUME OneAtATime, IInv, SerialInv, NEW s \in Sessions,
           TsRowid(s) \/ UserRowid(s) \/ OtpRowid(s) \/ SetRowid(s) \/ OtpGetRowid(s)
    PROVE  SerialInv'
<1> USE DEF OneAtATime
<1> DEFINE Found == \E r \in Own(s) : r.id = rowid'[s]
<1>1. ASSUME NEW id \in SelectRowid(rows, user[s])
      PROVE  /\ id \in Int
             /\ id > 0 => (rowid' = [rowid EXCEPT ![s] = id] => Found)
             /\ id =< 0 => Own(s) = {}
  <2>1. id \in Int
    BY SelectRowidInt DEF IInv, TypeOK, RowType
  <2> QED BY <2>1, Selected DEF SerialInv, Own, IInv, TypeOK
<1>2. ASSUME NEW l, NEW found, NEW to, GetRowid(s, l, found, Goto(s, to))
      PROVE  /\ pc[s] = l /\ UNCHANGED <<rows, now, user, issued, sms, input, otp>>
             /\ \/ Goto(s, found) /\ Found
                \/ Goto(s, to) /\ Own(s) = {}
  BY <1>1, <1>2 DEF GetRowid, db
<1>3. ASSUME NEW l, NEW found, NEW r, GetRowid(s, l, found, Return(s, r)), Own(s) # {}
      PROVE  /\ pc[s] = l /\ UNCHANGED <<rows, now, user, issued, sms, input, otp>>
             /\ Goto(s, found) /\ Found
  BY <1>1, <1>3 DEF GetRowid, db
<1>4. pc \in [Sessions -> PC]
  BY DEF IInv, TypeOK
<1> USE DEF Checking, Unset, HasRow, ReadSteps, BeforeSend, AfterPurge
<1>5. CASE TsRowid(s)
  <2>1. /\ pc[s] = "tsRowid" /\ UNCHANGED <<rows, now, user, issued, sms, input, otp>>
        /\ \/ Goto(s, "tsRead") /\ Found
           \/ Goto(s, "userRowid") /\ Own(s) = {}
    BY <1>2, <1>5 DEF TsRowid
  <2>2. Phase(s)'
    BY <1>4, <2>1 DEF SerialInv, Phase, Goto, Own
  <2> QED BY <2>1, <2>2, SerialGoto DEF Idle
<1>6. CASE UserRowid(s)
  <2>1. /\ pc[s] = "userRowid" /\ UNCHANGED <<rows, now, user, issued, sms, input, otp>>
        /\ \/ Goto(s, "userRead") /\ Found
           \/ Goto(s, "maxId") /\ Own(s) = {}
    BY <1>2, <1>6 DEF UserRowid
  <2>2. Phase(s)'
    BY <1>4, <2>1 DEF SerialInv, Phase, Goto, Own, PC
  <2> QED BY <2>1, <2>2, SerialGoto DEF Idle
<1>7. CASE OtpRowid(s)
  <2>1. /\ pc[s] = "otpRowid" /\ UNCHANGED <<rows, now, user, issued, sms, input, otp>>
        /\ Goto(s, "otpRead") /\ Found
    BY <1>2, <1>7 DEF OtpRowid, SerialInv, Phase
  <2>2. Phase(s)'
    BY <1>4, <2>1 DEF SerialInv, Phase, Goto, Own, PC
  <2> QED BY <2>1, <2>2, SerialGoto DEF Idle
<1>8. CASE SetRowid(s)
  <2>1. /\ pc[s] = "setRowid" /\ UNCHANGED <<rows, now, user, issued, sms, input, otp>>
        /\ Goto(s, "otpUpdate") /\ Found
    <3>1. Own(s) # {}
      BY <1>8 DEF SetRowid, GetRowid, SerialInv, Phase
    <3> QED BY <1>3, <1>8, <3>1 DEF SetRowid
  <2>2. Phase(s)'
    BY <1>4, <2>1 DEF SerialInv, Phase, Goto, Own, PC
  <2> QED BY <2>1, <2>2, SerialGoto DEF Idle
<1>9. CASE OtpGetRowid(s)
  <2>1. /\ pc[s] = "getRowid" /\ UNCHANGED <<rows, now, user, issued, sms, input, otp>>
        /\ Goto(s, "getRead") /\ Found
    <3>1. Own(s) # {}
      BY <1>9 DEF OtpGetRowid, GetRowid, SerialInv, Phase
    <3> QED BY <1>3, <1>9, <3>1 DEF OtpGetRowid
  <2>2. Phase(s)'
    BY <1>4, <2>1 DEF SerialInv, Phase, Goto, Own, PC
  <2> QED BY <2>1, <2>2, SerialGoto DEF Idle
<1> QED BY <1>5, <1>6, <1>7, <1>8, <1>9

(* The other steps up to the INSERT.                                       *)
LEMMA RegistrationSerial ==
    ASSUME OneAtATime, IInv, SerialInv, NEW s \in Sessions,
           TsRead(s) \/ Purge(s) \/ UserRead(s) \/ MaxId(s) \/ Insert(s)
    PROVE  SerialInv'
<1> USE DEF OneAtATime, Checking, Unset, HasRow, ReadSteps, BeforeSend, AfterPurge, Idle
<1>1. pc \in [Sessions -> PC] /\ rowid \in [Sessions -> Nat] /\ tnow \in [Sessions -> Nat]
  BY DEF IInv, TypeOK
<1>2. CASE TsRead(s)
  <2>1. PICK r \in Own(s) : r.id = rowid[s]
    BY <1>2 DEF TsRead, SerialInv, Phase
  <2>2. r \in rows /\ r.ts > 0
    BY DEF Own, RowsOf, IInv, TypeOK
  <2>3. \A t \in SelectTimestamp(rows, rowid[s]) : t > 0
    BY <2>1, <2>2 DEF SelectTimestamp, RowsAt, OnFault, IInv, TypeOK
  <2>4. /\ pc[s] = "tsRead" /\ Goto(s, "purge")
        /\ UNCHANGED <<rows, now, user, issued, sms, input, otp>>
    BY <1>2, <2>3 DEF TsRead, db
  <2>5. Phase(s)'
    BY <1>1, <2>4 DEF SerialInv, Phase, Goto, Own
  <2> QED BY <2>4, <2>5, SerialGoto
<1>3. CASE Purge(s)
  <2>1. /\ pc[s] = "purge" /\ Goto(s, "userRowid") /\ rows' = DeleteOlder(rows, tnow[s])
        /\ UNCHANGED <<user, issued, sms, input, otp>>
    BY <1>3 DEF Purge
  <2>2. Table'
    BY <2>1 DEF SerialInv, Table, OneRowPerUser, DeleteOlder
  <2>3. Phase(s)'
    BY <1>1, <2>1 DEF SerialInv, Phase, Goto, Own, RowsOf, DeleteOlder, PC
  <2>4. \A q \in Sessions : q # s => Idle(q) /\ UNCHANGED <<pc[q], ret[q], input[q]>>
    BY <1>1, <2>1 DEF SerialInv, Goto
  <2> QED BY <2>1, <2>2, <2>3, <2>4, SerialStep
<1>4. CASE UserRead(s)
  <2>1. /\ pc[s] = "userRead" /\ Goto(s, "otpRowid")
        /\ UNCHANGED <<rows, now, user, issued, sms, input, otp>>
    BY <1>4 DEF UserRead, SelectUser, db
  <2>2. Phase(s)'
    BY <1>1, <2>1 DEF SerialInv, Phase, Goto, Own, PC
  <2> QED BY <2>1, <2>2, SerialGoto
<1>5. CASE MaxId(s)
  <2>1. pc[s] = "maxId" /\ UNCHANGED <<rows, now, user, issued, sms, input, otp>>
    BY <1>5 DEF MaxId, db
  <2>2. PICK id \in SelectNextRowid(rows) :
          \/ id >= 0 /\ rowid' = [rowid EXCEPT ![s] = id] /\ Goto(s, "insert")
          \/ id < 0 /\ UNCHANGED rowid /\ Return(s, "PAM_SYSTEM_ERR")
    BY <1>5 DEF MaxId
  <2>3. id > 0 /\ id \in Int
    BY DEF SelectNextRowid, OnFault, Latest, IInv, TypeOK
  <2>4. rowid'[s] = id /\ Goto(s, "insert")
    BY <1>1, <2>2, <2>3
  <2>5. Phase(s)'
    BY <1>1, <2>1, <2>3, <2>4 DEF SerialInv, Phase, Goto, Own, PC
  <2> QED BY <2>1, <2>4, <2>5, SerialGoto
<1>6. CASE Insert(s)
  <2>1. /\ pc[s] = "insert" /\ UNCHANGED <<now, user, issued, sms, input, otp>>
        /\ rowid[s] > 0 /\ Own(s) = {}
    BY <1>6 DEF Insert, SerialInv, Phase
  <2>2. CASE Return(s, "PAM_SYSTEM_ERR") /\ UNCHANGED rows
    BY <2>1, <2>2, SerialReturn
  <2>3. CASE /\ ~ IdTaken(rows, rowid[s])
             /\ rows' = InsertRow(rows, rowid[s], user[s], tnow[s] + Expir)
             /\ Goto(s, "otpRowid")
    <3>1. PICK x : /\ x.id = rowid[s] /\ x.user = user[s] /\ x.otp = NoOtp
                   /\ x.ts = tnow[s] + Expir
                   /\ rows' = rows \cup {x}
      BY <2>3 DEF InsertRow, Row
    <3>2. \A r \in rows : r.id # x.id /\ r.user # x.user
      BY <2>1, <2>3, <3>1 DEF IdTaken, RowsAt, Own, RowsOf
    <3>3. Table'
      BY <2>1, <3>1, <3>2 DEF SerialInv, Table, OneRowPerUser
    <3>4. Own(s)' = {x}
      BY <2>1, <3>1, <3>2 DEF Own, RowsOf
    <3>5. x.ts >= tnow[s]
      BY <1>1, <3>1, ConstantsAssumption
    <3>6. Phase(s)'
      BY <1>1, <2>1, <2>3, <3>4, <3>5 DEF SerialInv, Phase, Goto, PC
    <3>7. \A q \in Sessions : q # s => Idle(q) /\ UNCHANGED <<pc[q], ret[q], input[q]>>
      BY <1>1, <2>1, <2>3 DEF SerialInv, Goto
    <3> QED BY <2>1, <3>3, <3>6, <3>7, SerialStep
  <2> QED BY <1>6, <2>2, <2>3 DEF Insert
<1> QED BY <1>2, <1>3, <1>4, <1>5, <1>6

(* From the question for an OTP to its registration.                       *)
LEMMA DeliverySerial ==
    ASSUME OneAtATime, IInv, SerialInv, NEW s \in Sessions,
           OtpRead(s) \/ OtpGen(s) \/ SmsSend(s) \/ OtpUpdate(s)
    PROVE  SerialInv'
<1> USE DEF OneAtATime, Checking, Unset, HasRow, ReadSteps, BeforeSend, AfterPurge, Idle
<1>1. /\ pc \in [Sessions -> PC] /\ sms \in [Sessions -> SmsResult]
      /\ ret \in [Sessions -> Ret \cup {NoRet}]
  BY DEF IInv, TypeOK
<1>2. CASE OtpRead(s)
  <2>1. PICK r \in Own(s) : r.id = rowid[s]
    BY <1>2 DEF OtpRead, SerialInv, Phase
  <2>2. r \in rows /\ \A q \in rows : q.id = rowid[s] \/ q \in Own(s) => q = r
    BY <2>1 DEF Own, RowsOf, SerialInv, Table, OneRowPerUser
  <2>3. SelectOtp(rows, rowid[s]) = {r.otp}
    BY <2>1, <2>2 DEF SelectOtp, RowsAt
  <2>4. /\ pc[s] = "otpRead" /\ UNCHANGED <<rows, now, user, issued, sms, input, otp>>
        /\ \/ r.otp = NoOtp /\ Goto(s, "otpGen")
           \/ r.otp # NoOtp /\ Goto(s, "prompt")
    BY <1>2, <2>3 DEF OtpRead, db
  <2>5. Own(s) \subseteq rows /\ sms[s] = "SMS_NONE" /\ s \notin issued
    BY <2>4 DEF Own, RowsOf, IInv, SmsFollowsPc, SerialInv, Phase
  <2>6. Phase(s)'
    BY <1>1, <2>2, <2>4, <2>5 DEF SerialInv, Phase, Goto, Own, PC
  <2> QED BY <2>4, <2>6, SerialGoto
<1>3. CASE OtpGen(s)
  <2>1. pc[s] = "otpGen" /\ UNCHANGED <<rows, now, user, sms, input, otp>>
    BY <1>3 DEF OtpGen, db
  <2>2. CASE UNCHANGED issued /\ Return(s, "PAM_SYSTEM_ERR")
    BY <2>1, <2>2, SerialReturn
  <2>3. CASE issued' = issued \cup {s} /\ Goto(s, "send")
    <3>1. Phase(s)'
      BY <1>1, <2>1, <2>3, OtpAssumption DEF SerialInv, Phase, Goto, Own, PC
    <3>2. \A q \in Sessions : q # s => UNCHANGED <<pc[q], ret[q], input[q]>>
      BY <1>1, <2>1, <2>3 DEF Goto
    <3> QED BY <2>1, <2>3, <3>1, <3>2, ReadStep
  <2> QED BY <1>3, <2>2, <2>3 DEF OtpGen
<1>4. CASE SmsSend(s)
  <2>1. /\ pc[s] = "send" /\ UNCHANGED <<rows, now, user, rowid, issued, input, otp>>
        /\ input[s] # s
    BY <1>4, OtpAssumption DEF SmsSend, db, SerialInv, Phase
  <2>2. CASE \E r \in SmsOutcomes : Return(s, OnErr(r))
    BY <2>1, <2>2, SerialReturn
  <2>3. CASE Goto(s, "setRowid")
    <3>1. Phase(s)'
      BY <1>1, <2>1, <2>3 DEF SerialInv, Phase, Goto, Own, PC
    <3>2. \A q \in Sessions : q # s => UNCHANGED <<pc[q], ret[q], input[q]>>
      BY <1>1, <2>1, <2>3 DEF Goto
    <3> QED BY <2>1, <2>3, <3>1, <3>2, ReadStep
  <2> QED BY <1>4, <2>2, <2>3 DEF SmsSend
<1>5. CASE OtpUpdate(s)
  <2>1. /\ pc[s] = "otpUpdate" /\ UNCHANGED <<now, user, issued, sms, input, otp>>
        /\ rows' = UpdateOtp(rows, rowid[s], s) /\ Goto(s, "prompt")
    BY <1>5 DEF OtpUpdate
  <2>2. PICK r \in Own(s) : r.id = rowid[s]
    BY <2>1 DEF SerialInv, Phase
  <2>3. /\ r \in rows /\ r.user = user[s]
        /\ \A q \in rows : q.id = rowid[s] \/ q.user = user[s] => q = r
    BY <2>2 DEF Own, RowsOf, SerialInv, Table, OneRowPerUser
  <2>4. PICK x \in RowType : /\ x = [r EXCEPT !.otp = s]
                             /\ x.id = r.id /\ x.user = r.user /\ x.ts = r.ts /\ x.otp = s
    <3>1. r \in RowType
      BY <2>3 DEF IInv, TypeOK, RowType
    <3>2. [r EXCEPT !.otp = s] \in RowType
      BY <3>1 DEF RowType
    <3> QED BY <3>1, <3>2 DEF RowType
  <2>5. rows' = (rows \ {r}) \cup {x}
    BY <2>1, <2>2, <2>3, <2>4 DEF UpdateOtp
  <2>6. Table'
    <3>1. \A q \in rows' : q = x \/ (q \in rows /\ q.id # x.id /\ q.user # x.user)
      BY <2>2, <2>3, <2>4, <2>5
    <3>2. x.id > 0
      BY <2>2, <2>3, <2>4 DEF SerialInv, Table
    <3> QED BY <3>1, <3>2 DEF SerialInv, Table, OneRowPerUser
  <2>7. Own(s)' = {x}
    BY <2>1, <2>3, <2>4, <2>5 DEF Own, RowsOf
  <2>8. r.ts >= tnow[s] /\ sms[s] = "SMS_OK"
    BY <2>1, <2>2 DEF SerialInv, Phase, PC, IInv, SmsFollowsPc, Sent
  <2>9. Phase(s)'
    BY <1>1, <2>1, <2>4, <2>7, <2>8 DEF SerialInv, Phase, Goto, PC
  <2>10. \A q \in Sessions : q # s => Idle(q) /\ UNCHANGED <<pc[q], ret[q], input[q]>>
    BY <1>1, <2>1 DEF SerialInv, Goto
  <2> QED BY <2>1, <2>6, <2>9, <2>10, SerialStep
<1> QED BY <1>2, <1>3, <1>4, <1>5

(* From the prompt to the comparison.                                      *)
LEMMA VerificationSerial ==
    ASSUME OneAtATime, IInv, SerialInv, NEW s \in Sessions,
           Prompt(s) \/ OtpGetRead(s) \/ Compare(s)
    PROVE  SerialInv'
<1> USE DEF OneAtATime, Checking, Unset, HasRow, ReadSteps, BeforeSend, AfterPurge, Idle
<1>1. /\ pc \in [Sessions -> PC] /\ ret \in [Sessions -> Ret \cup {NoRet}]
      /\ input \in [Sessions -> Sessions \cup {Wrong, NoInput}]
      /\ otp \in [Sessions -> Sessions \cup {NoOtp, Garbage}]
  BY DEF IInv, TypeOK
<1>2. CASE Prompt(s)
  <2>1. /\ pc[s] = "prompt" /\ UNCHANGED <<rows, now, user, rowid, issued, sms, otp>>
        /\ ret[s] = NoRet
    BY <1>2 DEF Prompt, db, IInv, TypeOK
  <2>2. CASE UNCHANGED input /\ Return(s, "PAM_AUTHINFO_UNAVAIL")
    BY <2>1, <2>2, SerialReturn
  <2>3. CASE \E x \in issued \cup {Wrong} :
                input' = [input EXCEPT ![s] = x] /\ Goto(s, "getRowid")
    <3>1. /\ input'[s] = s => s \in issued
          /\ \A q \in Sessions : q # s => UNCHANGED <<pc[q], ret[q], input[q]>>
          /\ pc'[s] = "getRowid" /\ UNCHANGED <<tnow, ret>>
      BY <1>1, <2>1, <2>3, OtpAssumption DEF Goto
    <3>2. Phase(s)'
      BY <1>1, <2>1, <3>1 DEF SerialInv, Phase, Own, PC, NoRet
    <3> QED BY <2>1, <3>1, <3>2, ReadStep
  <2> QED BY <1>2, <2>2, <2>3 DEF Prompt
<1>3. CASE OtpGetRead(s)
  <2>1. pc[s] = "getRead" /\ UNCHANGED <<rows, now, user, issued, sms, input>> /\ ret[s] = NoRet
    BY <1>3 DEF OtpGetRead, db, IInv, TypeOK
  <2>2. PICK r \in Own(s) : r.id = rowid[s]
    BY <2>1 DEF SerialInv, Phase
  <2>3. r \in rows /\ \A q \in rows : q.id = rowid[s] \/ q \in Own(s) => q = r
    BY <2>2 DEF Own, RowsOf, SerialInv, Table, OneRowPerUser
  <2>4. SelectOtp(rows, rowid[s]) = {r.otp}
    BY <2>2, <2>3 DEF SelectOtp, RowsAt
  <2>5. /\ otp' = [otp EXCEPT ![s] = r.otp]
        /\ Goto(s, "compare") \/ Return(s, "PAM_SYSTEM_ERR")
    BY <1>3, <2>4 DEF OtpGetRead
  <2>6. otp'[s] = r.otp /\ \A q \in Own(s) : q = r
    BY <1>1, <2>3, <2>5 DEF Own, RowsOf
  <2>7. CASE Goto(s, "compare")
    <3>1. Phase(s)'
      BY <1>1, <2>1, <2>2, <2>6, <2>7 DEF SerialInv, Phase, Goto, Own, PC
    <3>2. \A q \in Sessions : q # s => UNCHANGED <<pc[q], ret[q], input[q]>>
      BY <1>1, <2>1, <2>7 DEF Goto
    <3> QED BY <2>1, <3>1, <3>2, ReadStep
  <2>8. CASE Return(s, "PAM_SYSTEM_ERR")
    BY <2>1, <2>8, SerialReturn
  <2> QED BY <2>5, <2>7, <2>8
<1>4. CASE Compare(s)
  <2>1. pc[s] = "compare" /\ UNCHANGED <<rows, now, user, rowid, issued, sms, input, otp>>
    BY <1>4 DEF Compare, db
  <2>2. PICK r : Return(s, r) /\ (r = "PAM_SUCCESS" \/ input[s] # s)
    <3>1. PICK equal \in Matches(otp[s], input[s]) :
             Return(s, IF equal THEN "PAM_SUCCESS" ELSE "PAM_AUTH_ERR")
      BY <1>4 DEF Compare
    <3>2. ASSUME input[s] = s PROVE otp[s] = s
      BY <2>1, <3>2 DEF SerialInv, Phase
    <3>3. input[s] = s => equal
      BY <3>1, <3>2, OtpAssumption DEF Matches
    <3> QED BY <3>1, <3>3
  <2> QED BY <2>1, <2>2, SerialReturn
<1> QED BY <1>2, <1>3, <1>4

LEMMA NextSerialInv ==
    ASSUME OneAtATime, IInv, SerialInv, [Next]_vars
    PROVE  SerialInv'
<1>1. CASE UNCHANGED vars \/ Tick
  <2>1. UNCHANGED <<rows, pc, user, tnow, rowid, issued, sms, input, otp, ret>>
    BY <1>1 DEF vars, db, control, Tick
  <2>2. Table'
    BY <2>1 DEF SerialInv, Table, OneRowPerUser
  <2>3. \A s \in Sessions : Phase(s)'
    BY <2>1 DEF SerialInv, Phase, Own
  <2> QED BY <2>1, <2>2, <2>3 DEF SerialInv, Idle
<1>2. ASSUME NEW s \in Sessions, Kill(s) PROVE SerialInv'
  BY <1>2, SerialReturn DEF Kill, db
<1> QED BY <1>1, <1>2, StartSerial, GetRowidSerial, RegistrationSerial, DeliverySerial,
           VerificationSerial DEF Next, Registration, Delivery, Verification

LEMMA SerialInvariance == OneAtATime /\ Spec => []SerialInv
<1>1. OneAtATime /\ IInv /\ SerialInv /\ [Next]_vars => SerialInv'
  BY NextSerialInv
<1>2. OneAtATime => OneAtATime'
  BY DEF OneAtATime
<1>3. OneAtATime => []OneAtATime
  BY <1>2, PTL
<1> QED BY <1>1, <1>3, InitSerialInv, Invariance, PTL DEF Spec

-----------------------------------------------------------------------------
(* The lookup by user name cannot find somebody's second row: there is one.*)
THEOREM RowsUnique == OneAtATime /\ Spec => []OneRowPerUser
<1>1. SerialInv => OneRowPerUser
  BY DEF SerialInv, Table
<1> QED BY <1>1, SerialInvariance, PTL

(* The only step that touches an OTP finds none in the row it writes to.   *)
LEMMA StepKeepsOtps ==
    ASSUME OneAtATime, IInv, SerialInv, [Next]_vars,
           NEW r \in rows, NEW q \in rows', r.otp # NoOtp, q.id = r.id
    PROVE  q.otp = r.otp
<1>1. ASSUME rows' \subseteq rows PROVE q = r
  BY <1>1 DEF SerialInv, Table
<1>2. ASSUME NEW s \in Sessions, OtpUpdate(s) PROVE q.otp = r.otp
  <2>1. pc[s] = "otpUpdate" /\ rows' = UpdateOtp(rows, rowid[s], s)
    BY <1>2 DEF OtpUpdate, OneAtATime
  <2>2. PICK x \in Own(s) : x.id = rowid[s]
    BY <2>1 DEF SerialInv, Phase, ReadSteps
  <2>3. x.otp = NoOtp /\ x \in rows
    BY <2>1, <2>2 DEF SerialInv, Phase, Unset, Own, RowsOf
  <2>4. r.id # rowid[s]
    BY <2>2, <2>3 DEF SerialInv, Table
  <2>5. PICK y \in rows : q = IF y.id = rowid[s] THEN [y EXCEPT !.otp = s] ELSE y
    BY <2>1 DEF UpdateOtp
  <2>6. y.id = q.id
    BY <2>5 DEF IInv, TypeOK
  <2> QED BY <2>4, <2>5, <2>6 DEF SerialInv, Table
<1>3. ASSUME NEW s \in Sessions, Insert(s) PROVE q.otp = r.otp
  <2>1. CASE UNCHANGED rows
    BY <1>1, <2>1
  <2>2. CASE /\ ~ IdTaken(rows, rowid[s])
             /\ rows' = InsertRow(rows, rowid[s], user[s], tnow[s] + Expir)
    <3>1. r.id # rowid[s]
      BY <2>2 DEF IdTaken, RowsAt
    <3>2. q \in rows
      BY <2>2, <3>1 DEF InsertRow, Row
    <3> QED BY <3>2 DEF SerialInv, Table
  <2> QED BY <1>3, <2>1, <2>2 DEF Insert
<1>4. ASSUME NEW s \in Sessions, Purge(s) PROVE rows' \subseteq rows
  BY <1>4 DEF Purge, DeleteOlder
<1>5. ASSUME NEW s \in Sessions,
             \/ Start(s) \/ TsRowid(s) \/ TsRead(s) \/ UserRowid(s) \/ UserRead(s) \/ MaxId(s)
             \/ OtpRowid(s) \/ OtpRead(s) \/ OtpGen(s) \/ SmsSend(s) \/ SetRowid(s)
             \/ Verification(s) \/ Kill(s)
      PROVE  UNCHANGED rows
  BY <1>5 DEF Start, TsRowid, TsRead, UserRowid, UserRead, MaxId,
              OtpRowid, OtpRead, OtpGen, SmsSend, SetRowid, Verification, Prompt,
              OtpGetRowid, OtpGetRead, Compare, Kill, GetRowid, db
<1>6. CASE Tick \/ UNCHANGED vars
  BY <1>1, <1>6 DEF Tick, vars, db
<1> QED BY <1>1, <1>2, <1>3, <1>4, <1>5, <1>6 DEF Next, Registration, Delivery

(* A token that was registered stays the one: no later call of the same    *)
(* user, and no retry, exchanges it while its row is there.                *)
THEOREM OtpStays == OneAtATime /\ Spec => RegisteredOtpStays
<1>1. OneAtATime /\ IInv /\ SerialInv /\ [Next]_vars =>
        [\A r \in rows, q \in rows' :
            r.otp # NoOtp /\ q.id = r.id /\ q.user = r.user /\ q.ts = r.ts
               => q.otp = r.otp]_vars
  BY StepKeepsOtps
<1>2. OneAtATime => OneAtATime'
  BY DEF OneAtATime
<1>3. OneAtATime => []OneAtATime
  BY <1>2, PTL
<1> QED BY <1>1, <1>3, Invariance, SerialInvariance, PTL DEF Spec, RegisteredOtpStays

-----------------------------------------------------------------------------
(* The refinement of OtpBook: a row is an entry.                           *)
EntryOf(r) == Book!Entry(r.user, r.otp, r.ts)

(* A call knows when it began, and the OTP it will register is in no row.  *)
Ahead ==
    \A s \in Sessions :
        /\ ~ Idle(s) => tnow[s] > 0
        /\ pc[s] \in BeforeSend \cup Sent => \A r \in rows : r.otp # s

LEMMA InitAhead == Init => Ahead
BY TablesAssumption, OtpAssumption DEF Init, Ahead, Idle

LEMMA NextAhead ==
    ASSUME IInv, Ahead, [Next]_vars
    PROVE  Ahead'
<1> USE DEF BeforeSend, Sent, Idle
<1>1. CASE UNCHANGED vars \/ Tick
  BY <1>1 DEF vars, db, control, Tick, Ahead
<1>2. ASSUME NEW s \in Sessions, Start(s) PROVE Ahead'
  <2>1. pc[s] = "start" /\ UNCHANGED rows /\ \E u : Enter(s, u)
    BY <1>2 DEF Start, db
  <2>2. /\ \A q \in Sessions : q # s => UNCHANGED <<pc[q], tnow[q]>>
        /\ pc'[s] = "done" \/ (pc'[s] = "tsRowid" /\ tnow'[s] = now)
    BY <2>1 DEF Enter, Return, IInv, TypeOK
  <2> QED BY <2>1, <2>2 DEF Ahead, IInv, TypeOK
<1>3. ASSUME NEW s \in Sessions, ~ Idle(s), NEW l, NEW r,
             \A q \in rows' : q.otp = NoOtp \/ \E x \in rows : x.otp = q.otp,
             \/ Goto(s, l) /\ (l \in BeforeSend \cup Sent => pc[s] \in BeforeSend \cup Sent)
             \/ Return(s, r)
      PROVE  Ahead'
  <2>1. /\ \A q \in Sessions : q # s => UNCHANGED <<pc[q], tnow[q]>>
        /\ \/ pc'[s] = "done"
           \/ /\ pc'[s] \in BeforeSend \cup Sent => pc[s] \in BeforeSend \cup Sent
              /\ tnow'[s] = tnow[s]
    BY <1>3 DEF Goto, Return, IInv, TypeOK
  <2> QED BY <1>3, <2>1, OtpAssumption DEF Ahead
<1>4. ASSUME NEW s \in Sessions, NEW l \in BeforeSend \ {"start"}, NEW found, NEW to,
             GetRowid(s, l, found, Goto(s, to))
      PROVE  Ahead'
  BY <1>3, <1>4 DEF GetRowid, db
<1>5. ASSUME NEW s \in Sessions,
             TsRowid(s) \/ UserRowid(s) \/ OtpRowid(s) \/ SetRowid(s) \/ OtpGetRowid(s)
      PROVE  Ahead'
  <2>1. CASE TsRowid(s) \/ UserRowid(s) \/ OtpRowid(s)
    BY <1>4, <2>1 DEF TsRowid, UserRowid, OtpRowid
  <2>2. CASE SetRowid(s) \/ OtpGetRowid(s)
    BY <1>3, <2>2 DEF SetRowid, OtpGetRowid, GetRowid, db
  <2> QED BY <1>5, <2>1, <2>2
<1>6. ASSUME NEW s \in Sessions, TsRead(s) \/ UserRead(s) \/ MaxId(s) \/ OtpRead(s) \/ OtpGen(s)
      PROVE  Ahead'
  BY <1>3, <1>6 DEF TsRead, UserRead, MaxId, OtpRead, OtpGen, db
<1>7. ASSUME NEW s \in Sessions, Purge(s) PROVE Ahead'
  BY <1>3, <1>7 DEF Purge, DeleteOlder
<1>8. ASSUME NEW s \in Sessions, Insert(s) PROVE Ahead'
  <2>1. \A q \in rows' : q.otp = NoOtp \/ \E x \in rows : x.otp = q.otp
    BY <1>8 DEF Insert, InsertRow, Row
  <2> QED BY <1>3, <1>8, <2>1 DEF Insert
<1>9. ASSUME NEW s \in Sessions, SmsSend(s) PROVE Ahead'
  BY <1>3, <1>9 DEF SmsSend, db
<1>10. ASSUME NEW s \in Sessions, OtpUpdate(s) PROVE Ahead'
  <2>1. CASE rows' = UpdateOtp(rows, rowid[s], s) /\ Goto(s, "prompt")
    <3>1. \A r \in rows : r \in RowType
      BY DEF IInv, TypeOK, RowType
    <3>2. \A q \in rows' : q.otp = s \/ \E r \in rows : q.otp = r.otp
      BY <2>1, <3>1, UpdateOtpRows
    <3>3. /\ \A q \in Sessions : q # s => UNCHANGED pc[q]
          /\ pc'[s] = "prompt" /\ UNCHANGED tnow /\ pc[s] = "otpUpdate"
      BY <1>10, <2>1 DEF OtpUpdate, Goto, IInv, TypeOK
    <3> QED BY <3>2, <3>3 DEF Ahead
  <2>2. CASE Return(s, "PAM_SYSTEM_ERR") /\ UNCHANGED rows
    BY <1>3, <1>10, <2>2 DEF OtpUpdate
  <2> QED BY <1>10, <2>1, <2>2 DEF OtpUpdate
<1>11. ASSUME NEW s \in Sessions, Prompt(s) \/ OtpGetRead(s) \/ Compare(s) \/ Kill(s)
       PROVE  Ahead'
  BY <1>3, <1>11 DEF Prompt, OtpGetRead, Compare, Kill, db
<1> QED BY <1>1, <1>2, <1>5, <1>6, <1>7, <1>8, <1>9, <1>10, <1>11
        DEF Next, Registration, Delivery, Verification

-----------------------------------------------------------------------------
(* How the entries follow the rows.                                        *)
LEMMA SameEntries == UNCHANGED rows => Entries' = Entries
BY DEF Entries

LEMMA EntryFields ==
    ASSUME NEW r
    PROVE  /\ EntryOf(r).user = r.user /\ EntryOf(r).otp = r.otp /\ EntryOf(r).exp = r.ts
           /\ EntryOf(r) = [user |-> r.user, otp |-> r.otp, exp |-> r.ts]
BY DEF EntryOf, Book!Entry

(* Nobody is accepted by anything but a comparison.                        *)
LEMMA AcceptedElsewhere ==
    ASSUME IInv, PassedByOtp, NEW s \in Sessions,
           \A q \in Sessions : q # s => UNCHANGED <<user[q], input[q], ret[q]>>,
           ret[s] = NoRet,
           ret'[s] = "PAM_SUCCESS" => input'[s] = NoInput
    PROVE  UNCHANGED Accepted
BY DEF Accepted, NoRet

LEMMA AcceptedKept == UNCHANGED <<user, input, ret>> => UNCHANGED Accepted
BY DEF Accepted

(* A step of one call that is not the end of a comparison.                 *)
LEMMA AcceptedStays ==
    ASSUME IInv, PassedByOtp, NEW s \in Sessions, pc[s] \notin {"compare", "done"},
           NEW l, NEW r, Goto(s, l) \/ Return(s, r),
           r = "PAM_SUCCESS" => UNCHANGED input /\ pc[s] \notin {"getRowid", "getRead"},
           UNCHANGED user,
           \A q \in Sessions : q # s => UNCHANGED input[q]
    PROVE  UNCHANGED Accepted
<1>1. ret[s] = NoRet /\ ret \in [Sessions -> Ret \cup {NoRet}]
  BY DEF IInv, TypeOK
<1>2. \A q \in Sessions : q # s => UNCHANGED <<user[q], input[q], ret[q]>>
  BY <1>1 DEF Goto, Return
<1>3. ret'[s] = "PAM_SUCCESS" => input'[s] = NoInput
  BY <1>1 DEF Goto, Return, NoRet, PassedByOtp
<1> QED BY <1>1, <1>2, <1>3, AcceptedElsewhere

-----------------------------------------------------------------------------
LEMMA PurgeExpires ==
    ASSUME OneAtATime, IInv, SerialInv, Ahead, PassedByOtp, NEW s \in Sessions, Purge(s)
    PROVE  Book!Expire
<1>1. /\ pc[s] = "purge" /\ Goto(s, "userRowid") /\ rows' = DeleteOlder(rows, tnow[s])
      /\ UNCHANGED <<now, user, input>>
  BY DEF Purge, OneAtATime
<1>2. tnow[s] \in 1 .. now
  BY <1>1 DEF Ahead, Idle, IInv, TypeOK
<1>3. Entries' = {e \in Entries : e.exp >= tnow[s]}
  BY <1>1 DEF Entries, DeleteOlder
<1>4. UNCHANGED Accepted
  BY <1>1, AcceptedStays
<1> QED BY <1>1, <1>2, <1>3, <1>4 DEF Book!Expire

LEMMA InsertOpens ==
    ASSUME OneAtATime, IInv, SerialInv, Ahead, PassedByOtp, NEW s \in Sessions, Insert(s)
    PROVE  (\E u \in Users : Book!Open(u)) \/ UNCHANGED Book!vars
<1>1. /\ pc[s] = "insert" /\ UNCHANGED <<now, user, input>> /\ Own(s) = {}
      /\ Goto(s, "otpRowid") \/ Return(s, "PAM_SYSTEM_ERR")
  BY DEF Insert, SerialInv, Phase
<1>2. UNCHANGED Accepted
  BY <1>1, AcceptedStays
<1>3. CASE UNCHANGED rows
  BY <1>1, <1>2, <1>3, SameEntries DEF Book!vars
<1>4. CASE rows' = InsertRow(rows, rowid[s], user[s], tnow[s] + Expir)
  <2>1. user[s] \in Users /\ tnow[s] \in 1 .. now
    BY <1>1 DEF Ahead, Idle, IInv, TypeOK, Entered
  <2>2. Entries' = Entries \cup {Book!Entry(user[s], NoOtp, tnow[s] + Expir)}
    <3>1. PICK x : /\ x.user = user[s] /\ x.otp = NoOtp /\ x.ts = tnow[s] + Expir
                   /\ rows' = rows \cup {x}
      BY <1>4 DEF InsertRow, Row
    <3>2. Entries' = Entries \cup {[user |-> x.user, otp |-> x.otp, exp |-> x.ts]}
      BY <3>1 DEF Entries
    <3> QED BY <3>1, <3>2 DEF Book!Entry
  <2>3. \A e \in Entries : e.user # user[s]
    BY <1>1 DEF Entries, Own, RowsOf
  <2> QED BY <1>1, <1>2, <2>1, <2>2, <2>3 DEF Book!Open
<1> QED BY <1>3, <1>4 DEF Insert

LEMMA UpdateRegisters ==
    ASSUME OneAtATime, IInv, SerialInv, Ahead, PassedByOtp, NEW s \in Sessions, OtpUpdate(s)
    PROVE  \E u \in Users : Book!Register(u, s)
<1>1. /\ pc[s] = "otpUpdate" /\ Goto(s, "prompt") /\ rows' = UpdateOtp(rows, rowid[s], s)
      /\ UNCHANGED <<now, user, input>>
  BY DEF OtpUpdate, OneAtATime
<1>2. PICK r \in Own(s) : r.id = rowid[s]
  BY <1>1 DEF SerialInv, Phase, ReadSteps
<1>3. /\ r \in rows /\ r.user = user[s] /\ r.otp = NoOtp
      /\ \A q \in rows : q.id = rowid[s] \/ q.user = user[s] => q = r
  BY <1>1, <1>2 DEF Own, RowsOf, SerialInv, Table, OneRowPerUser, Phase, Unset
<1>4. PICK x : /\ x = [r EXCEPT !.otp = s]
               /\ x.user = r.user /\ x.ts = r.ts /\ x.otp = s
  <2>1. r \in RowType
    BY <1>3 DEF IInv, TypeOK, RowType
  <2>2. /\ [r EXCEPT !.otp = s].user = r.user
        /\ [r EXCEPT !.otp = s].ts = r.ts
        /\ [r EXCEPT !.otp = s].otp = s
    BY <2>1 DEF RowType
  <2> QED BY <2>2
<1>5. rows' = (rows \ {r}) \cup {x}
  BY <1>1, <1>2, <1>3, <1>4 DEF UpdateOtp
<1>6. \A q \in rows : q # r => q.user # r.user
  BY <1>3
<1>7. Entries' = (Entries \ {EntryOf(r)}) \cup {Book!Entry(user[s], s, r.ts)}
  <2>1. \A q \in rows : q # r => EntryOf(q) # EntryOf(r)
    BY <1>6, EntryFields
  <2>2. Entries = {EntryOf(q) : q \in rows} /\ Entries' = {EntryOf(q) : q \in rows'}
    BY DEF Entries, EntryOf, Book!Entry
  <2>3. EntryOf(x) = Book!Entry(user[s], s, r.ts)
    BY <1>3, <1>4 DEF EntryOf, Book!Entry
  <2> QED BY <1>3, <1>5, <2>1, <2>2, <2>3
<1>8. EntryOf(r) \in Entries /\ \A e \in Entries : e.otp # s
  BY <1>1, <1>3 DEF Entries, EntryOf, Book!Entry, Ahead, Sent
<1>9. user[s] \in Users /\ UNCHANGED Accepted
  BY <1>1, AcceptedStays DEF IInv, Entered, Idle
<1>10. EntryOf(r).user = user[s] /\ EntryOf(r).otp = NoOtp /\ EntryOf(r).exp = r.ts
  BY <1>3, EntryFields
<1>11. Book!Register(user[s], s)
  BY <1>1, <1>7, <1>8, <1>9, <1>10 DEF Book!Register
<1> QED BY <1>9, <1>11

LEMMA CompareAccepts ==
    ASSUME OneAtATime, IInv, SerialInv, Ahead, PassedByOtp, NEW s \in Sessions, Compare(s)
    PROVE  (\E u \in Users : Book!Accept(u)) \/ UNCHANGED Book!vars
<1>1. /\ pc[s] = "compare" /\ UNCHANGED <<rows, now, user, input>> /\ user[s] \in Users
      /\ ret[s] = NoRet /\ ret \in [Sessions -> Ret \cup {NoRet}]
  BY DEF Compare, db, IInv, TypeOK, Entered, Idle
<1>2. PICK equal \in Matches(otp[s], input[s]) :
         Return(s, IF equal THEN "PAM_SUCCESS" ELSE "PAM_AUTH_ERR")
  BY DEF Compare
<1>3. UNCHANGED Entries
  BY <1>1, SameEntries
<1>4. PICK r \in Own(s) : r.otp = otp[s]
  BY <1>1 DEF SerialInv, Phase, HasRow
<1>5. r \in rows /\ r.user = user[s] /\ otp[s] # Garbage /\ otp[s] # NoOtp
  BY <1>1, <1>4, OtpAssumption DEF Own, RowsOf, IInv, TypeOK, ReadOtpWasSent
<1>6. CASE equal
  <2>1. input[s] = otp[s] /\ input[s] # NoInput /\ ret' = [ret EXCEPT ![s] = "PAM_SUCCESS"]
    <3>1. otp[s] = input[s]
      BY <1>5, <1>6 DEF Matches
    <3>2. otp[s] \in Sessions
      BY <1>4, <1>5 DEF IInv, TypeOK
    <3> QED BY <1>2, <1>6, <3>1, <3>2, OtpAssumption DEF Return
  <2>2. Accepted' = Accepted \cup {<<user[s], otp[s]>>}
    BY <1>1, <2>1 DEF Accepted, NoRet
  <2>3. EntryOf(r) \in Entries
    BY <1>5 DEF Entries, EntryOf, Book!Entry
  <2>4. Book!Accept(user[s])
    BY <1>1, <1>3, <1>4, <1>5, <2>2, <2>3, EntryFields DEF Book!Accept
  <2> QED BY <1>1, <2>4
<1>7. CASE ~ equal
  <2>1. ret' = [ret EXCEPT ![s] = "PAM_AUTH_ERR"]
    BY <1>2, <1>7 DEF Return
  <2>2. UNCHANGED Accepted
    BY <1>1, <2>1 DEF Accepted, NoRet
  <2> QED BY <1>1, <1>3, <2>2 DEF Book!vars
<1> QED BY <1>6, <1>7

(* Whatever else a call does, the book does not see it.                    *)
LEMMA OtherSteps ==
    ASSUME IInv, PassedByOtp, NEW s \in Sessions,
           \/ Start(s) \/ TsRowid(s) \/ TsRead(s) \/ UserRowid(s) \/ UserRead(s) \/ MaxId(s)
           \/ OtpRowid(s) \/ OtpRead(s) \/ OtpGen(s) \/ SmsSend(s) \/ SetRowid(s)
           \/ Prompt(s) \/ OtpGetRowid(s) \/ OtpGetRead(s) \/ Kill(s)
    PROVE  UNCHANGED Book!vars
<1> USE DEF db
<1>1. UNCHANGED <<rows, now>>
  BY DEF Start, TsRowid, TsRead, UserRowid, UserRead, MaxId, OtpRowid, OtpRead, OtpGen, SmsSend,
         SetRowid, Prompt, OtpGetRowid, OtpGetRead, Kill, GetRowid
<1>2. ASSUME UNCHANGED Accepted PROVE UNCHANGED Book!vars
  BY <1>1, <1>2, SameEntries DEF Book!vars
<1>3. CASE Start(s)
  <2>1. pc[s] = "start" /\ UNCHANGED input /\ \E u : Enter(s, u)
    BY <1>3 DEF Start
  <2>2. /\ ret[s] = NoRet /\ input[s] = NoInput
        /\ \A q \in Sessions : q # s => UNCHANGED <<user[q], input[q], ret[q]>>
    BY <1>3, <2>1 DEF Start, Enter, Return, IInv, TypeOK, PassedByOtp
  <2> QED BY <1>2, <2>1, <2>2, AcceptedElsewhere
<1>4. CASE TsRowid(s) \/ UserRowid(s) \/ OtpRowid(s) \/ SetRowid(s) \/ OtpGetRowid(s)
  <2>1. \E l : Goto(s, l) \/ Return(s, "PAM_SYSTEM_ERR")
    BY <1>4 DEF TsRowid, UserRowid, OtpRowid, SetRowid, OtpGetRowid, GetRowid
  <2>2. pc[s] \notin {"compare", "done"} /\ UNCHANGED <<user, input>>
    BY <1>4 DEF TsRowid, UserRowid, OtpRowid, SetRowid, OtpGetRowid, GetRowid
  <2> QED BY <1>2, <2>1, <2>2, AcceptedStays
<1>5. CASE TsRead(s) \/ UserRead(s) \/ MaxId(s) \/ OtpRead(s) \/ OtpGen(s)
  <2>1. \E l : Goto(s, l) \/ Return(s, "PAM_SYSTEM_ERR")
    BY <1>5 DEF TsRead, UserRead, MaxId, OtpRead, OtpGen
  <2>2. pc[s] \notin {"compare", "done"} /\ UNCHANGED <<user, input>>
    BY <1>5 DEF TsRead, UserRead, MaxId, OtpRead, OtpGen
  <2> QED BY <1>2, <2>1, <2>2, AcceptedStays
<1>6. CASE SmsSend(s)
  <2>1. \E l, r : Goto(s, l) \/ Return(s, r)
    BY <1>6 DEF SmsSend
  <2>2. pc[s] = "send" /\ UNCHANGED <<user, input>>
    BY <1>6 DEF SmsSend
  <2> QED BY <1>2, <2>1, <2>2, AcceptedStays
<1>7. CASE Prompt(s)
  <2>1. /\ pc[s] = "prompt" /\ UNCHANGED user
        /\ Goto(s, "getRowid") \/ Return(s, "PAM_AUTHINFO_UNAVAIL")
        /\ \A q \in Sessions : q # s => UNCHANGED input[q]
    BY <1>7 DEF Prompt, IInv, TypeOK
  <2> QED BY <1>2, <2>1, AcceptedStays
<1>8. CASE OtpGetRead(s)
  <2>1. /\ pc[s] = "getRead" /\ UNCHANGED <<user, input>>
        /\ Goto(s, "compare") \/ Return(s, "PAM_SYSTEM_ERR")
    BY <1>8 DEF OtpGetRead
  <2> QED BY <1>2, <2>1, AcceptedStays
<1>9. CASE Kill(s)
  <2>1. Return(s, "KILLED") /\ UNCHANGED <<user, input>> /\ ret[s] = NoRet
    BY <1>9 DEF Kill, Idle, IInv, TypeOK
  <2>2. \A q \in Sessions : q # s => UNCHANGED <<user[q], input[q], ret[q]>>
    BY <2>1 DEF Return, IInv, TypeOK
  <2>3. ret'[s] = "KILLED"
    BY <2>1 DEF Return, IInv, TypeOK
  <2> QED BY <1>2, <2>1, <2>2, <2>3, AcceptedElsewhere
<1> QED BY <1>3, <1>4, <1>5, <1>6, <1>7, <1>8, <1>9

LEMMA BookStep ==
    ASSUME OneAtATime, IInv, SerialInv, Ahead, PassedByOtp, [Next]_vars
    PROVE  [Book!Next]_(Book!vars)
<1>1. CASE Tick
  BY <1>1, SameEntries, AcceptedKept DEF Tick, control, Book!Next, Book!Tick
<1>2. CASE UNCHANGED vars
  BY <1>2, SameEntries, AcceptedKept DEF vars, db, control, Book!vars
<1> QED BY <1>1, <1>2, PurgeExpires, InsertOpens, UpdateRegisters, CompareAccepts, OtherSteps
        DEF Next, Registration, Delivery, Verification, Book!Next

(* The six SQL statements of a call, and the comparison, are the book of   *)
(* OtpBook: one entry for a user, an OTP that is set once and dropped when *)
(* it has expired, and nobody accepted with anything but the OTP of its    *)
(* own entry.                                                              *)
THEOREM BookKept == OneAtATime /\ Spec => KeepsBook
<1>1. OneAtATime /\ Init => Book!Init
  BY DEF OneAtATime, Init, Book!Init, Entries, Accepted, NoRet
<1>2. OneAtATime /\ IInv /\ SerialInv /\ Ahead /\ PassedByOtp /\ [Next]_vars
         => [Book!Next]_(Book!vars)
  BY BookStep
<1>3. IInv /\ Ahead /\ [Next]_vars => Ahead'
  BY NextAhead
<1>4. OneAtATime => OneAtATime'
  BY DEF OneAtATime
<1>5. OneAtATime => []OneAtATime
  BY <1>4, PTL
<1> QED BY <1>1, <1>2, <1>3, <1>5, InitAhead, Invariance, SerialInvariance, PassesByOtp, PTL
        DEF Spec, KeepsBook, Book!Spec
=============================================================================
