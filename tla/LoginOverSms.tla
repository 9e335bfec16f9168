---------------------------- MODULE LoginOverSms ----------------------------
(***************************************************************************)
(* The whole path of a token: the logins of PamSmsAuth, each of which,     *)
(* when it comes to sms_send(), is one of the clients of SmsService.       *)
(*                                                                         *)
(* PamSmsAuth takes the result of sms_send() from a set; here it is what   *)
(* the exchange with the server came to.  Where the process of a login     *)
(* ends inside sms_send(), by a signal or by a crash, so does the login.   *)
(***************************************************************************)
EXTENDS PamSmsAuth

CONSTANTS NoConn, Gateways, GwOutcomes, MaxPending, MaxStops,   \* of SmsService
          Unparsable    \* logins whose number or provider holds a backslash

VARIABLES
    calling,    \* pc of SmsService: where the session is in sms_send()
    result, peer, answer, request, backlog, server, conn, gw, copies, failed, stops

Sms == INSTANCE SmsService WITH Clients <- Sessions, pc <- calling

ASSUME SystemAssumption ==
    /\ Sms!SmsResult \subseteq SmsOutcomes
    /\ NoConn \notin Sessions /\ Unparsable \subseteq Sessions
    /\ Gateways \in Nat \ {0} /\ MaxPending \in Nat \ {0} /\ MaxStops \in Nat
    /\ GwOutcomes \in [1 .. Gateways -> SUBSET Sms!AllGwOutcomes]

exchange == <<calling, result, peer, answer, request, backlog, server, conn, gw,
              copies, failed, stops>>
system == <<vars, exchange>>

Quietly == UNCHANGED exchange

SystemInit == Init /\ Sms!Init

(* A step outside sms_send().                                              *)
Outside(s) ==
    /\ \/ Registration(s) \/ Verification(s)
       \/ OtpRowid(s) \/ OtpRead(s) \/ OtpGen(s) \/ SetRowid(s) \/ OtpUpdate(s)
    /\ Quietly

(* A step of sms_send(), and a system call of it that fails.               *)
Exchange(s) == pc[s] = "send" /\ Sms!Send(s) /\ UNCHANGED vars
CallFails(s) == pc[s] = "send" /\ Sms!CallErr(s) /\ UNCHANGED vars

(* Variant: the result is looked at before sms_send() has returned.        *)
SmsEndsEarly(s) ==
    /\ pc[s] = "send" /\ calling[s] = "waiting" /\ Quietly
    /\ SmsSend(s) /\ sms'[s] = "SMS_OK"

(* sms_send() has returned, or the process has not survived it.            *)
SmsEnds(s) ==
    /\ pc[s] = "send" /\ calling[s] = "done" /\ Quietly
    /\ IF result[s] \in Sms!Ended THEN Kill(s) ELSE SmsSend(s) /\ sms'[s] = result[s]

(* The application is killed, which the server notices if it happens       *)
(* inside sms_send().                                                      *)
KillAnywhere(s) ==
    /\ Kill(s)
    /\ IF pc[s] = "send" /\ calling[s] # "done" THEN Sms!Kill(s) ELSE Quietly

Clock == Tick /\ Quietly
Server == (Sms!Serve \/ Sms!Stop \/ Sms!Restart) /\ UNCHANGED vars

SystemNext ==
    \/ Clock \/ Server
    \/ \E s \in Sessions :
          Outside(s) \/ Exchange(s) \/ CallFails(s) \/ SmsEnds(s) \/ KillAnywhere(s)

SystemSpec == SystemInit /\ [][SystemNext]_system

(* The server's loop is scheduled, and so is a call that has been started; *)
(* nobody has to answer its prompt, to start, stop or kill anything.       *)
Running(s) == pc[s] \notin {"start", "prompt"} /\ (Outside(s) \/ Exchange(s) \/ SmsEnds(s))
SystemFairness ==
    /\ WF_system(Sms!Serve /\ UNCHANGED vars)
    /\ \A s \in Sessions : WF_system(Running(s))
FairSystemSpec == SystemSpec /\ SystemFairness

-----------------------------------------------------------------------------
(* An OTP that is accepted is one that a gateway has taken: no result of   *)
(* sms_send() and no row of the table stands for an SMS that never left.   *)
AcceptedWasDelivered ==
    \A s \in Sessions :
        ret[s] = "PAM_SUCCESS" /\ input[s] \in Sessions /\ otp[s] # Garbage
            => copies[input[s]] > 0

(* Nobody passes without an OTP but with relaxed, and then only because    *)
(* every gateway raised an exception for that very login, or because its   *)
(* connect() failed, for whatever reason: then the server has not heard of *)
(* the login, no gateway was tried and no SMS is on its way, even later.   *)
PassNeedsOutage ==
    \A s \in Sessions :
        ret[s] = "PAM_SUCCESS" /\ input[s] = NoInput /\ user[s] \notin Excepted =>
            /\ Relaxed
            /\ \/ failed[s] = Gateways
               \/ /\ result[s] = "SMS_CONN2SERVER_ERR"
                  /\ ~ request[s] /\ ~ Sms!Pending(s)
                  /\ copies[s] = 0 /\ failed[s] = 0

(* In the end every login that has begun waits for its user at the prompt  *)
(* or has returned, whatever becomes of the server and the other logins:   *)
(* none is left inside sms_send(), which has no timeout, or at the table.  *)
LoginsComeToRest ==
    <>[](\A s \in Sessions : pc[s] \in {"start", "prompt", "done"})

(* The logins behave as PamSmsAuth says, the server as SmsService does.    *)
ImplementsLogin == Spec
ImplementsService == Sms!Spec
=============================================================================
