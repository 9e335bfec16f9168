------------------------- MODULE LoginOverSmsProofs -------------------------
(***************************************************************************)
(* Proofs about LoginOverSms, for any number of logins and gateways: both  *)
(* parts behave as their own modules say, an accepted OTP was taken by a   *)
(* gateway, and whoever passes without one has none on its way.            *)
(*                                                                         *)
(* What is proved of each part alone holds of it here, because each part   *)
(* is refined; what is left to show is how the two are coupled.            *)
(***************************************************************************)
EXTENDS LoginOverSms, PamSmsAuthProofs

-----------------------------------------------------------------------------
(* Each part does a step of its own or none.                               *)
LEMMA LoginStep == [SystemNext]_system => [Next]_vars
<1> SUFFICES ASSUME [SystemNext]_system PROVE [Next]_vars
  OBVIOUS
<1>1. CASE Clock
  BY <1>1 DEF Clock, Next
<1>2. CASE Server
  BY <1>2 DEF Server
<1>3. ASSUME NEW s \in Sessions, Outside(s) PROVE Next
  BY <1>3 DEF Outside, Next, Delivery
<1>4. ASSUME NEW s \in Sessions, Exchange(s) \/ CallFails(s) PROVE UNCHANGED vars
  BY <1>4 DEF Exchange, CallFails
<1>5. ASSUME NEW s \in Sessions, SmsEnds(s) PROVE Next
  BY <1>5 DEF SmsEnds, Next, Delivery
<1>6. ASSUME NEW s \in Sessions, KillAnywhere(s) PROVE Next
  BY <1>6 DEF KillAnywhere, Next
<1>7. CASE UNCHANGED system
  BY <1>7 DEF system
<1> QED BY <1>1, <1>2, <1>3, <1>4, <1>5, <1>6, <1>7 DEF SystemNext

LEMMA ServiceStep == [SystemNext]_system => [Sms!Next]_(Sms!vars)
<1> SUFFICES ASSUME [SystemNext]_system PROVE [Sms!Next]_(Sms!vars)
  OBVIOUS
<1>1. UNCHANGED exchange => UNCHANGED Sms!vars
  BY DEF exchange, Sms!vars, Sms!client, Sms!socket, Sms!service, Sms!history
<1>2. CASE Clock
  BY <1>1, <1>2 DEF Clock, Quietly
<1>3. CASE Server
  BY <1>3 DEF Server, Sms!Next
<1>4. ASSUME NEW s \in Sessions, Outside(s) \/ SmsEnds(s) PROVE UNCHANGED exchange
  BY <1>4 DEF Outside, SmsEnds, Quietly
<1>5. ASSUME NEW s \in Sessions, Exchange(s) \/ CallFails(s) PROVE Sms!Next
  BY <1>5 DEF Exchange, CallFails, Sms!Next
<1>6. ASSUME NEW s \in Sessions, KillAnywhere(s) PROVE Sms!Next \/ UNCHANGED exchange
  BY <1>6 DEF KillAnywhere, Quietly, Sms!Next
<1>7. CASE UNCHANGED system
  BY <1>1, <1>7 DEF system
<1> QED BY <1>1, <1>2, <1>3, <1>4, <1>5, <1>6, <1>7 DEF SystemNext

(* Coupled to the server, the logins do nothing PamSmsAuth does not allow: *)
(* what it takes for results of sms_send() are all there are.              *)
THEOREM LoginRefined == SystemSpec => Spec
<1>1. SystemInit => Init
  BY DEF SystemInit
<1> QED BY <1>1, LoginStep, PTL DEF SystemSpec, Spec

(* Called by logins, sms_send() and the server do nothing SmsService does  *)
(* not allow.                                                              *)
THEOREM ServiceRefined == SystemSpec => Sms!Spec
<1>1. SystemInit => Sms!Init
  BY DEF SystemInit
<1> QED BY <1>1, ServiceStep, PTL DEF SystemSpec, Sms!Spec

-----------------------------------------------------------------------------
(* What SmsServiceProofs proves, for the service of this module.           *)
Proved == INSTANCE SmsServiceProofs WITH Clients <- Sessions, pc <- calling

(* It is about the same steps.                                             *)
LEMMA SameStep == [Sms!Next]_(Sms!vars) => [Proved!Next]_(Proved!vars)
<1> USE DEF Sms!client, Sms!socket, Sms!service, Sms!history,
            Proved!client, Proved!socket, Proved!service, Proved!history
<1>1. UNCHANGED Sms!vars <=> UNCHANGED Proved!vars
  BY DEF Sms!vars, Proved!vars
<1>2. ASSUME NEW s \in Sessions, Sms!CallErr(s) \/ Sms!Send(s) \/ Sms!Kill(s)
      PROVE  Proved!CallErr(s) \/ Proved!Send(s) \/ Proved!Kill(s)
  BY <1>2 DEF Sms!CallErr, Sms!SocketErr, Sms!ConnectErr, Sms!WriteErr, Sms!ReadErr, Sms!Send,
              Sms!Connect, Sms!Write, Sms!Read, Sms!Kill, Sms!Finish, Sms!Response,
              Sms!NoRequest, Proved!CallErr, Proved!SocketErr, Proved!ConnectErr,
              Proved!WriteErr, Proved!ReadErr, Proved!Send, Proved!Connect, Proved!Write,
              Proved!Read, Proved!Kill, Proved!Finish, Proved!Response, Proved!NoRequest
<1>3. Sms!Exit <=> Proved!Exit
  BY DEF Sms!Exit, Proved!Exit, Sms!Pending, Proved!Pending
<1>4. ASSUME Sms!Serve PROVE Proved!Serve
  BY <1>3, <1>4
     DEF Sms!Serve, Sms!Accept, Sms!Recv, Sms!Refuse, Sms!Service, Sms!Attempt, Sms!HandedOver, Sms!Raising,
         Sms!Reply, Sms!ReplyErr, Sms!Answer,
         Proved!Serve, Proved!Accept, Proved!Recv, Proved!Refuse, Proved!Service, Proved!Attempt,
         Proved!HandedOver, Proved!Raising, Proved!Reply, Proved!ReplyErr, Proved!Answer
<1>5. ASSUME Sms!Stop \/ Sms!Restart PROVE Proved!Stop \/ Proved!Restart
  BY <1>3, <1>5 DEF Sms!Stop, Sms!Restart, Proved!Stop, Proved!Restart
<1>6. ASSUME Sms!Next PROVE Proved!Next
  BY <1>2, <1>4, <1>5, <1>6 DEF Sms!Next, Proved!Next
<1> QED BY <1>1, <1>6

LEMMA ServiceProved == SystemSpec => Proved!Spec
<1>1. Sms!Init => Proved!Init
  BY DEF Sms!Init, Proved!Init
<1> QED BY <1>1, SameStep, ServiceRefined, PTL DEF Sms!Spec, Proved!Spec

LEMMA ServiceInvariance == SystemSpec => []Proved!IInv
<1>1. Proved!Spec => []Proved!IInv
  BY Proved!Invariance, SystemAssumption DEF Sms!AllGwOutcomes, Proved!AllGwOutcomes
<1> QED BY <1>1, ServiceProved, PTL

-----------------------------------------------------------------------------
(* A login has taken over what its sms_send() came to, which stays so.     *)
Coupled ==
    \A s \in Sessions : sms[s] # "SMS_NONE" => calling[s] = "done" /\ result[s] = sms[s]

LEMMA CoupledStep ==
    ASSUME IInv, Proved!IInv, Coupled, [SystemNext]_system
    PROVE  Coupled'
<1>1. \A s \in Sessions :
         calling[s] = "done" => calling'[s] = "done" /\ result'[s] = result[s]
  BY Proved!ResultsStay, ServiceStep, SameStep, SystemAssumption
     DEF Sms!AllGwOutcomes, Proved!AllGwOutcomes
<1>2. ASSUME UNCHANGED sms PROVE Coupled'
  BY <1>1, <1>2 DEF Coupled
<1>3. CASE Clock \/ Server \/ UNCHANGED system
  BY <1>2, <1>3 DEF Clock, Tick, Server, system, vars
<1>4. ASSUME NEW s \in Sessions, Outside(s) PROVE Coupled'
  BY <1>2, <1>4
     DEF Outside, Registration, Verification, Start, TsRowid, TsRead, Purge, UserRowid,
         UserRead, MaxId, Insert, OtpRowid, OtpRead, OtpGen, SetRowid, OtpUpdate,
         Prompt, OtpGetRowid, OtpGetRead, Compare, GetRowid
<1>5. ASSUME NEW s \in Sessions, Exchange(s) \/ CallFails(s) \/ KillAnywhere(s) PROVE Coupled'
  BY <1>2, <1>5 DEF Exchange, CallFails, KillAnywhere, Kill, vars
<1>6. ASSUME NEW s \in Sessions, SmsEnds(s) PROVE Coupled'
  <2>1. CASE Kill(s)
    BY <1>2, <2>1 DEF Kill
  <2>2. CASE SmsSend(s) /\ sms'[s] = result[s]
    <3>1. calling[s] = "done" /\ UNCHANGED <<calling, result>>
      BY <1>6 DEF SmsEnds, Quietly, exchange
    <3>2. \A q \in Sessions : q # s => sms'[q] = sms[q]
      BY <2>2 DEF SmsSend, IInv, TypeOK
    <3> QED BY <2>2, <3>1, <3>2 DEF Coupled
  <2> QED BY <1>6, <2>1, <2>2 DEF SmsEnds
<1> QED BY <1>3, <1>4, <1>5, <1>6 DEF SystemNext

LEMMA StaysCoupled == SystemSpec => []Coupled
<1>1. SystemInit => Coupled
  BY DEF SystemInit, Init, Coupled
<1> QED BY <1>1, CoupledStep, ServiceInvariance, LoginRefined, Invariance, PTL DEF SystemSpec

-----------------------------------------------------------------------------
(* Each gateway raises an exception when it does not take the SMS.         *)
GatewaysNotice == \A g \in 1 .. Gateways : "unnoticed" \notin GwOutcomes[g]

(* Where every gateway tells when it does not take an SMS, an OTP that is  *)
(* accepted was taken by one: the chain from the gateway to the row of the *)
(* table and to the comparison has no gap, whatever is killed or stopped   *)
(* on the way.                                                             *)
THEOREM AcceptedDelivered == GatewaysNotice /\ SystemSpec => []AcceptedWasDelivered
<1> SUFFICES ASSUME GatewaysNotice PROVE SystemSpec => []AcceptedWasDelivered
  OBVIOUS
<1>1. Proved!NeverUnnoticed
  BY DEF GatewaysNotice, Proved!NeverUnnoticed
<1>2. Proved!IInv /\ Coupled => \A s \in Sessions : sms[s] = "SMS_OK" => copies[s] > 0
  BY <1>1 DEF Proved!IInv, Proved!AnswerOK, Coupled
<1>3. IInv /\ PassedByOtp /\ Proved!IInv /\ Coupled => AcceptedWasDelivered
  BY <1>2, OtpAssumption DEF IInv, ReadOtpWasSent, PassedByOtp, AcceptedWasDelivered
<1> QED BY <1>3, LoginRefined, Invariance, PassesByOtp, ServiceInvariance, StaysCoupled, PTL

(* Nobody passes without an OTP but with relaxed, and then either all      *)
(* gateways failed for that login or it could not connect, and the server  *)
(* never heard of it: no SMS is on its way to a user who was let in.       *)
THEOREM PassedInOutage == SystemSpec => []PassNeedsOutage
<1>1. ASSUME IInv, PassedByOtp, Proved!IInv, Coupled,
             NEW s \in Sessions, ret[s] = "PAM_SUCCESS", input[s] = NoInput,
             user[s] \notin Excepted
      PROVE  /\ Relaxed
             /\ \/ failed[s] = Gateways
                \/ /\ result[s] = "SMS_CONN2SERVER_ERR"
                   /\ ~ request[s] /\ ~ Sms!Pending(s)
                   /\ copies[s] = 0 /\ failed[s] = 0
  <2>1. otp[s] = NoOtp
    BY <1>1 DEF PassedByOtp
  <2>2. Relaxed /\ sms[s] \in SmsUnavailable
    BY <1>1, <2>1, OtpAssumption DEF IInv, SuccessHasCause
  <2>3. result[s] \in {"SMS_CONN2SERVER_ERR", "SMS_GATEWAY_ERR"}
    BY <1>1, <2>2 DEF SmsUnavailable, Coupled
  <2>4. CASE result[s] = "SMS_GATEWAY_ERR"
    BY <1>1, <2>2, <2>4 DEF Proved!IInv, Proved!AnswerOK
  <2>5. CASE result[s] = "SMS_CONN2SERVER_ERR"
    BY <1>1, <2>2, <2>5 DEF Proved!IInv, Proved!UnreachedOK, Proved!Pending, Sms!Pending
  <2> QED BY <2>3, <2>4, <2>5
<1>2. IInv /\ PassedByOtp /\ Proved!IInv /\ Coupled => PassNeedsOutage
  BY <1>1 DEF PassNeedsOutage
<1> QED BY <1>2, LoginRefined, Invariance, PassesByOtp, ServiceInvariance, StaysCoupled, PTL
=============================================================================
