-------------------------- MODULE SmsServiceProofs --------------------------
(***************************************************************************)
(* Proofs about SmsService, for any number of clients, gateways, places in *)
(* the backlog and stops, and for requests it can parse or not: what the   *)
(* answers mean, how often an SMS goes out, and what ends the server.      *)
(***************************************************************************)
EXTENDS SmsService, TLAPS

(* Each gateway raises an exception when it does not take the SMS.         *)
NeverUnnoticed == \A g \in 1 .. Gateways : "unnoticed" \notin GwOutcomes[g]

Serving == {"recv", "service", "reply", "replyErr"}

(* The server is busy with c.                                              *)
InService(c) == server \in Serving /\ c = conn

(* A connection waits once, and not while the server holds it.             *)
QueueOK ==
    /\ \A i, j \in 1 .. Len(backlog) : backlog[i] = backlog[j] => i = j
    /\ \A i \in 1 .. Len(backlog) : backlog[i] # conn

(* How a client may have left the server alone with its connection.        *)
Gone == {"KILLED", "SMS_READFROMSOCK_ERR"} \cup NoRequest

(* A connection that waits or is served is open and unanswered; its client *)
(* cannot have ended otherwise than by leaving it.                         *)
OpenOK ==
    \A c \in Clients : Pending(c) \/ InService(c) =>
        /\ pc[c] # "start" /\ peer[c] = "open" /\ answer[c] = "none"
        /\ pc[c] = "done" => result[c] \in Gone

(* A request that was written comes from a client that waits for the       *)
(* answer, or has waited for it.                                           *)
RequestOK ==
    \A c \in Clients : request[c] \/ (server \in Serving \ {"recv"} /\ c = conn) =>
        pc[c] \in {"waiting", "done"} /\ result[c] \notin NoRequest

(* A client that could not connect has left no trace at the server.        *)
UnreachedOK ==
    \A c \in Clients : result[c] = "SMS_CONN2SERVER_ERR" =>
        /\ ~ request[c] /\ ~ Pending(c) /\ c # conn
        /\ copies[c] = 0 /\ failed[c] = 0

(* A client that has not begun is known to nobody; one that has not ended  *)
(* has no result.                                                          *)
FreshOK ==
    \A c \in Clients :
        /\ pc[c] = "start" => /\ ~ Pending(c) /\ c # conn
                              /\ peer[c] = "open" /\ answer[c] = "none"
        /\ pc[c] = "start" => ~ request[c]
        /\ pc[c] # "done" => result[c] = "SMS_NONE"

(* The counters before, in and after the loop over the gateways.           *)
CountOK ==
    /\ \A c \in Clients :
          /\ pc[c] = "start" \/ Pending(c) \/ (server = "recv" /\ c = conn)
                => copies[c] = 0 /\ failed[c] = 0
          /\ copies[c] =< failed[c] + 1
    /\ server = "service" => copies[conn] =< failed[conn] /\ failed[conn] + 1 = gw
    /\ server = "replyErr" => failed[conn] = Gateways
    /\ server = "reply" /\ NeverUnnoticed => copies[conn] > 0

(* What an answer and the result made from it say about the counters.      *)
AnswerOK ==
    \A c \in Clients :
        /\ answer[c] = "ERR" \/ result[c] = "SMS_GATEWAY_ERR" => failed[c] = Gateways
        /\ (answer[c] = "OK" \/ result[c] = "SMS_OK") /\ NeverUnnoticed
              => copies[c] > 0

IInv ==
    /\ TypeOK /\ QueueOK /\ OpenOK /\ FreshOK
    /\ RequestOK /\ UnreachedOK /\ CountOK /\ AnswerOK

-----------------------------------------------------------------------------
(* The invariant holds initially.                                          *)
LEMMA InitIInv == Init => IInv
<1> SUFFICES ASSUME Init PROVE IInv
  OBVIOUS
<1>1. TypeOK
  BY ServiceAssumption DEF Init, TypeOK
<1>2. QueueOK /\ OpenOK /\ FreshOK
  BY ServiceAssumption DEF Init, QueueOK, OpenOK, FreshOK, Pending, InService, Serving
<1>3. CountOK /\ AnswerOK /\ RequestOK /\ UnreachedOK
  BY DEF Init, CountOK, AnswerOK, RequestOK, UnreachedOK, Serving
<1> QED BY <1>1, <1>2, <1>3 DEF IInv

-----------------------------------------------------------------------------
(* A client ends with r, with nothing else touched.                        *)
LEMMA FinishIInv ==
    ASSUME IInv, NEW c \in Clients, pc[c] # "done",
           NEW r \in SmsResult \cup Ended, Finish(c, r),
           UNCHANGED <<socket, service, history, stops>>,
           Pending(c) \/ InService(c) => r \in Gone,
           r \in NoRequest => pc[c] = "connected",
           r = "SMS_CONN2SERVER_ERR" => pc[c] = "start",
           r = "SMS_GATEWAY_ERR" => failed[c] = Gateways,
           r = "SMS_OK" /\ NeverUnnoticed => copies[c] > 0
    PROVE  IInv'
<1> USE DEF socket, service, history, Finish
<1>1. TypeOK'
  BY DEF IInv, TypeOK
<1>2. pc \in [Clients -> {"start", "connected", "waiting", "done"}]
      /\ result \in [Clients -> {"SMS_NONE"} \cup SmsResult \cup Ended]
  BY DEF IInv, TypeOK
<1>3. \A x \in Clients : Pending(x)' = Pending(x) /\ InService(x)' = InService(x)
  BY DEF Pending, InService
<1>4. QueueOK'
  BY DEF IInv, QueueOK
<1>5. OpenOK'
  BY <1>2, <1>3 DEF IInv, OpenOK
<1>6. FreshOK'
  BY <1>2, <1>3 DEF IInv, FreshOK
<1>7. CountOK'
  BY <1>2, <1>3 DEF IInv, CountOK
<1>8. AnswerOK'
  BY <1>2 DEF IInv, AnswerOK
<1>9. RequestOK'
  BY <1>2 DEF IInv, RequestOK
<1>10. UnreachedOK'
  BY <1>2, <1>3 DEF IInv, UnreachedOK, FreshOK, CountOK
<1> QED BY <1>1, <1>4, <1>5, <1>6, <1>7, <1>8, <1>9, <1>10 DEF IInv

(* The server ends.                                                        *)
LEMMA ExitIInv ==
    ASSUME IInv, Exit, stops' \in 0 .. MaxStops
    PROVE  IInv'
<1> USE DEF history, client
<1>1. TypeOK'
  BY ServiceAssumption DEF Exit, IInv, TypeOK
<1>2. \A x \in Clients : ~ Pending(x)' /\ ~ InService(x)' /\ x # conn'
  BY ServiceAssumption DEF Exit, Pending, InService, Serving
<1>3. QueueOK' /\ OpenOK'
  BY <1>2 DEF Exit, QueueOK, OpenOK
<1>4. FreshOK'
  <2>1. ASSUME NEW x \in Clients, pc[x] = "start" PROVE peer'[x] = "open"
    BY <2>1 DEF Exit, IInv, FreshOK
  <2> QED BY <1>2, <2>1 DEF Exit, IInv, FreshOK
<1>5. CountOK'
  BY <1>2 DEF Exit, IInv, CountOK
<1>6. AnswerOK'
  BY DEF Exit, IInv, AnswerOK
<1>7. RequestOK' /\ UnreachedOK'
  BY <1>2 DEF Exit, IInv, RequestOK, UnreachedOK, Serving
<1> QED BY <1>1, <1>3, <1>4, <1>5, <1>6, <1>7 DEF IInv

(* What the client does.                                                   *)
LEMMA ClientIInv ==
    ASSUME IInv, NEW c \in Clients, CallErr(c) \/ Send(c) \/ Kill(c)
    PROVE  IInv'
<1> USE DEF socket, service, history
<1>1. CASE CallErr(c)
  <2>1. CASE SocketErr(c) \/ ConnectErr(c)
    <3>1. pc[c] = "start" /\ ~ Pending(c) /\ ~ InService(c)
      BY <2>1 DEF SocketErr, ConnectErr, IInv, FreshOK, InService
    <3> QED BY <1>1, <2>1, <3>1, FinishIInv
            DEF CallErr, SocketErr, ConnectErr, SmsResult, NoRequest
  <2>2. CASE WriteErr(c)
    BY <1>1, <2>2, FinishIInv DEF CallErr, WriteErr, SmsResult, Gone, NoRequest
  <2>3. CASE ReadErr(c)
    BY <1>1, <2>3, FinishIInv DEF CallErr, ReadErr, SmsResult, Gone, NoRequest
  <2> QED BY <1>1, <2>1, <2>2, <2>3 DEF CallErr
<1>2. CASE Kill(c)
  BY <1>2, FinishIInv DEF Kill, Ended, Gone, NoRequest
<1>3. CASE Connect(c)
  <2>1. pc[c] = "start" /\ ~ Pending(c) /\ c # conn /\ peer[c] = "open" /\ answer[c] = "none"
    BY <1>3 DEF Connect, IInv, FreshOK
  <2>2. CASE Finish(c, "SMS_CONN2SERVER_ERR") /\ UNCHANGED backlog
    BY <1>3, <2>1, <2>2, FinishIInv DEF Connect, InService, SmsResult, NoRequest
  <2>3. CASE /\ server # "down" /\ Len(backlog) < MaxPending
             /\ backlog' = Append(backlog, c)
             /\ pc' = [pc EXCEPT ![c] = "connected"]
             /\ UNCHANGED result
    <3>1. UNCHANGED <<peer, answer, request, server, conn, gw, copies, failed, stops>>
      BY <1>3 DEF Connect
    <3>2. backlog \in Seq(Clients) /\ pc \in [Clients -> {"start", "connected", "waiting", "done"}]
      BY DEF IInv, TypeOK
    <3>3. TypeOK'
      BY <2>3, <3>1, ServiceAssumption DEF IInv, TypeOK
    <3>4. /\ Len(backlog') = Len(backlog) + 1
          /\ \A i \in 1 .. Len(backlog) : backlog'[i] = backlog[i]
          /\ backlog'[Len(backlog) + 1] = c
      BY <2>3, <3>2
    <3>5. \A x \in Clients : Pending(x)' <=> Pending(x) \/ x = c
      BY <3>2, <3>4 DEF Pending
    <3>6. QueueOK'
      BY <2>1, <3>1, <3>2, <3>4 DEF IInv, QueueOK, Pending
    <3>7. OpenOK'
      BY <2>1, <2>3, <3>1, <3>2, <3>5 DEF IInv, OpenOK, InService
    <3>8. FreshOK' /\ CountOK'
      BY <2>1, <2>3, <3>1, <3>2, <3>5 DEF IInv, FreshOK, CountOK
    <3>9. AnswerOK' /\ RequestOK'
      BY <2>1, <2>3, <3>1, <3>2 DEF IInv, AnswerOK, RequestOK
    <3>10. UnreachedOK'
      BY <2>1, <2>3, <3>1, <3>5 DEF IInv, UnreachedOK, FreshOK
    <3> QED BY <3>3, <3>6, <3>7, <3>8, <3>9, <3>10 DEF IInv
  <2> QED BY <1>3, <2>2, <2>3 DEF Connect
<1>4. CASE Write(c)
  <2>1. CASE peer[c] # "open" /\ (Finish(c, "SMS_WRITEONSOCK_ERR") \/ Finish(c, "KILLED"))
             /\ UNCHANGED request
    <3>1. ~ Pending(c) /\ ~ InService(c)
      BY <2>1 DEF IInv, OpenOK
    <3> QED BY <1>4, <2>1, <3>1, FinishIInv DEF Write, SmsResult, Ended, NoRequest
  <2>2. CASE /\ peer[c] = "open"
             /\ pc' = [pc EXCEPT ![c] = "waiting"]
             /\ request' = [request EXCEPT ![c] = TRUE]
             /\ UNCHANGED result
    <3>1. pc[c] = "connected"
          /\ UNCHANGED <<peer, answer, backlog, server, conn, gw, copies, failed, stops>>
      BY <1>4 DEF Write
    <3>2. TypeOK'
      BY <2>2, <3>1 DEF IInv, TypeOK
    <3>3. pc \in [Clients -> {"start", "connected", "waiting", "done"}]
          /\ \A x \in Clients : Pending(x)' = Pending(x) /\ InService(x)' = InService(x)
      BY <3>1 DEF Pending, InService, IInv, TypeOK
    <3>4. QueueOK' /\ OpenOK'
      BY <2>2, <3>1, <3>3 DEF IInv, QueueOK, OpenOK
    <3>5. FreshOK' /\ CountOK' /\ AnswerOK'
      BY <2>2, <3>1, <3>3 DEF IInv, FreshOK, CountOK, AnswerOK
    <3>6. result[c] = "SMS_NONE"
      BY <3>1 DEF IInv, FreshOK
    <3>7. RequestOK' /\ UnreachedOK'
      BY <2>2, <3>1, <3>3, <3>6 DEF IInv, TypeOK, RequestOK, UnreachedOK, NoRequest
    <3> QED BY <3>2, <3>4, <3>5, <3>7 DEF IInv
  <2> QED BY <1>4, <2>1, <2>2 DEF Write
<1>5. CASE Read(c)
  <2>1. ~ Pending(c) /\ ~ InService(c)
    BY <1>5 DEF Read, IInv, OpenOK
  <2>2. Response(c) \in SmsResult \cup Ended
    BY <1>5 DEF Read, Response, SmsResult, Ended, IInv, TypeOK
  <2>3. Response(c) = "SMS_GATEWAY_ERR" => answer[c] = "ERR"
    BY <1>5 DEF Read, Response, IInv, TypeOK
  <2>4. Response(c) = "SMS_OK" => answer[c] = "OK"
    BY <1>5 DEF Read, Response, IInv, TypeOK
  <2>5. Response(c) \notin NoRequest \cup {"SMS_CONN2SERVER_ERR"}
    BY <1>5 DEF Read, Response, NoRequest, IInv, TypeOK
  <2> QED BY <1>5, <2>1, <2>2, <2>3, <2>4, <2>5, FinishIInv DEF Read, IInv, AnswerOK
<1> QED BY <1>1, <1>2, <1>3, <1>4, <1>5 DEF Send

(* What the server does.                                                   *)
LEMMA ServerIInv ==
    ASSUME IInv, Serve
    PROVE  IInv'
<1> USE DEF socket, client, history
<1>1. CASE Accept
  <2>1. backlog \in Seq(Clients) /\ backlog # << >> /\ server = "accept"
    BY <1>1 DEF Accept, IInv, TypeOK
  <2>2. /\ conn' = backlog[1] /\ backlog' = Tail(backlog) /\ server' = "recv"
        /\ UNCHANGED <<answer, request, gw, pc, result, copies, failed, stops>>
    BY <1>1, <2>1 DEF Accept
  <2>3. /\ Len(backlog') = Len(backlog) - 1 /\ Len(backlog) \in Nat \ {0}
        /\ \A i \in 1 .. Len(backlog') : backlog'[i] = backlog[i + 1]
    BY <2>1, <2>2
  <2>4. conn' \in Clients /\ Pending(conn') /\ conn' # conn
    BY <2>1, <2>2, <2>3 DEF Pending, IInv, QueueOK
  <2>5. \A x \in Clients : Pending(x)' => Pending(x) /\ x # conn'
    BY <2>1, <2>2, <2>3 DEF Pending, IInv, QueueOK
  <2>6. \A x \in Clients : x # conn => peer'[x] = peer[x]
    BY <1>1 DEF Accept
  <2>7. \A x \in Clients : Pending(x) => x # conn
    BY DEF IInv, QueueOK, Pending
  <2>8. TypeOK'
    <3>1. peer' \in [Clients -> {"open", "eof", "reset"}]
      BY <1>1 DEF Accept, IInv, TypeOK
    <3>2. backlog' \in Seq(Clients) /\ Len(backlog') =< MaxPending
      BY <2>1, <2>2, <2>3, ServiceAssumption DEF IInv, TypeOK
    <3> QED BY <2>2, <2>4, <3>1, <3>2 DEF IInv, TypeOK
  <2>9. QueueOK'
    BY <2>1, <2>2, <2>3 DEF IInv, QueueOK
  <2>10. OpenOK'
    BY <2>2, <2>4, <2>5, <2>6, <2>7 DEF IInv, OpenOK, InService
  <2>11. FreshOK'
    BY <2>2, <2>4, <2>5, <2>6 DEF IInv, FreshOK
  <2>12. CountOK' /\ AnswerOK'
    BY <2>2, <2>4, <2>5 DEF IInv, CountOK, AnswerOK
  <2>13. RequestOK' /\ UnreachedOK'
    BY <2>1, <2>2, <2>4, <2>5 DEF IInv, RequestOK, UnreachedOK, Serving
  <2> QED BY <2>8, <2>9, <2>10, <2>11, <2>12, <2>13 DEF IInv
<1>2. CASE Recv
  <2>1. CASE Exit
    BY <1>2, <2>1, ExitIInv DEF Recv, IInv, TypeOK
  <2>2. CASE /\ request[conn]
             /\ request' = [request EXCEPT ![conn] = FALSE]
             /\ server' = "service" /\ gw' = 1
             /\ UNCHANGED <<conn, peer, answer, backlog, client, history>>
    <3>1. server = "recv" /\ conn \in Clients /\ request[conn] /\ UNCHANGED stops
      BY <1>2, <2>2 DEF Recv, IInv, TypeOK
    <3>2. TypeOK'
      BY <2>2, <3>1, ServiceAssumption DEF IInv, TypeOK
    <3>3. \A x \in Clients : Pending(x)' = Pending(x) /\ InService(x)' = InService(x)
      BY <2>2, <3>1 DEF Pending, InService, Serving
    <3>4. QueueOK' /\ OpenOK' /\ FreshOK'
      BY <2>2, <3>3 DEF IInv, QueueOK, OpenOK, FreshOK
    <3>5. CountOK' /\ AnswerOK'
      BY <2>2, <3>1, <3>3 DEF IInv, CountOK, AnswerOK
    <3>6. RequestOK' /\ UnreachedOK'
      BY <2>2, <3>1, <3>3 DEF IInv, TypeOK, RequestOK, UnreachedOK, Serving
    <3> QED BY <3>2, <3>4, <3>5, <3>6 DEF IInv
  <2> QED BY <1>2, <2>1, <2>2 DEF Recv
<1>3. CASE Service
  <2>1. PICK o \in GwOutcomes[gw] :
          /\ Attempt(o)
          /\ \/ o \notin Raising /\ server' = "reply" /\ UNCHANGED gw
             \/ o \in Raising /\ gw < Gateways /\ gw' = gw + 1 /\ UNCHANGED server
             \/ o \in Raising /\ gw = Gateways /\ server' = "replyErr" /\ UNCHANGED gw
    BY <1>3 DEF Service
  <2>2. /\ server = "service" /\ conn \in Clients
        /\ UNCHANGED <<conn, peer, answer, request, backlog, pc, result, stops>>
    BY <1>3 DEF Service, IInv, TypeOK
  <2>3. copies \in [Clients -> Nat] /\ failed \in [Clients -> Nat] /\ gw \in 1 .. Gateways
        /\ Gateways \in Nat
    BY ServiceAssumption DEF IInv, TypeOK
  <2>4. TypeOK'
    BY <2>1, <2>2, <2>3 DEF Attempt, IInv, TypeOK
  <2>5. /\ \A x \in Clients : Pending(x)' = Pending(x) /\ InService(x)' = InService(x)
        /\ ~ Pending(conn) /\ InService(conn)
    BY <2>1, <2>2 DEF Pending, InService, Serving, IInv, QueueOK
  <2>6. QueueOK' /\ OpenOK' /\ FreshOK' /\ RequestOK'
    BY <2>1, <2>2, <2>5 DEF IInv, QueueOK, OpenOK, FreshOK, RequestOK, Serving
  <2>7. /\ \A x \in Clients : x # conn => copies'[x] = copies[x] /\ failed'[x] = failed[x]
        /\ copies'[conn] = copies[conn] + (IF o \in HandedOver THEN 1 ELSE 0)
        /\ failed'[conn] = failed[conn] + (IF o \in Raising THEN 1 ELSE 0)
    BY <2>2, <2>3 , <2>1 DEF Attempt
  <2>8. pc[conn] # "start" /\ answer[conn] = "none"
        /\ result[conn] \notin {"SMS_OK", "SMS_GATEWAY_ERR"}
        /\ copies[conn] =< failed[conn] /\ failed[conn] + 1 = gw
    BY <2>2, <2>5 DEF IInv, OpenOK, FreshOK, CountOK, Gone, NoRequest
  <2>9. CountOK'
    <3>1. o \notin Raising /\ NeverUnnoticed => o \in HandedOver
      BY <2>3, ServiceAssumption DEF NeverUnnoticed, AllGwOutcomes, Raising, HandedOver
    <3>2. \A x \in Clients : copies'[x] =< failed'[x] + 1
      BY <2>3, <2>7, <2>8 DEF IInv, CountOK
    <3>3. \A x \in Clients : pc[x] = "start" \/ Pending(x) => copies'[x] = 0 /\ failed'[x] = 0
      BY <2>5, <2>7, <2>8 DEF IInv, CountOK
    <3>4. server' = "service" => copies'[conn] =< failed'[conn] /\ failed'[conn] + 1 = gw'
      BY <2>1, <2>3, <2>2, <2>7, <2>8
    <3>5. server' = "replyErr" => failed'[conn] = Gateways
      BY <2>1, <2>3, <2>2, <2>7, <2>8
    <3>6. server' = "reply" /\ NeverUnnoticed => copies'[conn] > 0
      BY <2>1, <2>3, <2>2, <2>7, <3>1
    <3> QED BY <2>1, <2>2, <2>5, <3>2, <3>3, <3>4, <3>5, <3>6 DEF CountOK
  <2>10. AnswerOK'
    BY <2>2, <2>7, <2>8 DEF IInv, AnswerOK
  <2>11. UnreachedOK'
    BY <2>2, <2>5, <2>7 DEF IInv, UnreachedOK
  <2> QED BY <2>4, <2>6, <2>9, <2>10, <2>11 DEF IInv
<1>4. ASSUME server \in {"reply", "replyErr"}, NEW a \in {"OK", "ERR"}, Answer(a), UNCHANGED stops,
             a = "OK" => server = "reply", a = "ERR" => server = "replyErr", pc[conn] # "done"
      PROVE  IInv'
  <2>1. conn \in Clients /\ InService(conn) /\ ~ Pending(conn)
    BY <1>4 DEF IInv, TypeOK, QueueOK, Pending, InService, Serving
  <2>2. /\ answer' = [answer EXCEPT ![conn] = a] /\ server' = "accept"
        /\ UNCHANGED <<conn, gw, peer, request, backlog, pc, result, copies, failed, stops>>
    BY <1>4 DEF Answer
  <2>3. TypeOK'
    BY <2>2 DEF IInv, TypeOK
  <2>4. \A x \in Clients : Pending(x)' = Pending(x) /\ ~ InService(x)'
    BY <2>2 DEF Pending, InService, Serving
  <2>5. \A x \in Clients : x # conn => answer'[x] = answer[x]
    BY <2>2 DEF IInv, TypeOK
  <2>6. QueueOK' /\ OpenOK' /\ FreshOK'
    BY <2>1, <2>2, <2>4, <2>5 DEF IInv, QueueOK, OpenOK, FreshOK
  <2>7. CountOK' /\ RequestOK' /\ UnreachedOK'
    BY <2>2, <2>4 DEF IInv, CountOK, RequestOK, UnreachedOK, Serving
  <2>8. AnswerOK'
    BY <1>4, <2>1, <2>2, <2>5 DEF IInv, TypeOK, AnswerOK, CountOK
  <2> QED BY <2>3, <2>6, <2>7, <2>8 DEF IInv
<1>5. CASE Reply
  <2>1. CASE pc[conn] # "done" /\ Answer("OK")
    BY <1>4, <1>5, <2>1 DEF Reply
  <2>2. CASE server' = "accept" /\ UNCHANGED <<conn, gw, socket, client, history>>
    <3>1. UNCHANGED stops
      BY <1>5 DEF Reply
    <3>2. TypeOK'
      BY <2>2, <3>1 DEF IInv, TypeOK
    <3>3. \A x \in Clients : Pending(x)' = Pending(x) /\ ~ InService(x)'
      BY <2>2 DEF Pending, InService, Serving
    <3>4. QueueOK' /\ OpenOK' /\ FreshOK' /\ CountOK' /\ AnswerOK'
      BY <2>2, <3>1, <3>3 DEF IInv, QueueOK, OpenOK, FreshOK, CountOK, AnswerOK
    <3>5. RequestOK' /\ UnreachedOK'
      BY <2>2, <3>1, <3>3 DEF IInv, RequestOK, UnreachedOK, Serving
    <3> QED BY <3>2, <3>4, <3>5 DEF IInv
  <2> QED BY <1>5, <2>1, <2>2 DEF Reply
<1>6. CASE ReplyErr
  <2>1. CASE pc[conn] # "done" /\ Answer("ERR")
    BY <1>4, <1>6, <2>1 DEF ReplyErr
  <2>2. CASE Exit
    BY <1>6, <2>2, ExitIInv DEF ReplyErr, IInv, TypeOK
  <2> QED BY <1>6, <2>1, <2>2 DEF ReplyErr
<1>7. CASE Refuse
  BY <1>7, ExitIInv DEF Refuse, IInv, TypeOK
<1> QED BY <1>1, <1>2, <1>3, <1>5, <1>6, <1>7 DEF Serve

(* Every step keeps the invariant.                                         *)
LEMMA NextIInv == IInv /\ [Next]_vars => IInv'
<1> SUFFICES ASSUME IInv, [Next]_vars PROVE IInv'
  OBVIOUS
<1>1. CASE Stop
  <2>1. stops' \in 0 .. MaxStops
    BY <1>1, ServiceAssumption DEF Stop, IInv, TypeOK
  <2> QED BY <1>1, <2>1, ExitIInv DEF Stop
<1>2. CASE Restart
  <2>1. /\ server' = "accept"
        /\ UNCHANGED <<conn, gw, peer, answer, request, backlog, pc, result, copies, failed, stops>>
    BY <1>2 DEF Restart, socket, client, history
  <2>2. TypeOK'
    BY <2>1 DEF IInv, TypeOK
  <2>3. \A x \in Clients : Pending(x)' = Pending(x) /\ ~ InService(x)'
    BY <2>1 DEF Pending, InService, Serving
  <2>4. QueueOK' /\ OpenOK' /\ FreshOK' /\ CountOK' /\ AnswerOK'
    BY <2>1, <2>3 DEF IInv, QueueOK, OpenOK, FreshOK, CountOK, AnswerOK
  <2>5. RequestOK' /\ UnreachedOK'
    BY <2>1, <2>3 DEF IInv, RequestOK, UnreachedOK, Serving
  <2> QED BY <2>2, <2>4, <2>5 DEF IInv
<1>3. CASE UNCHANGED vars
  <2>1. UNCHANGED <<pc, result, peer, answer, request, backlog, server, conn, gw, copies,
                    failed, stops>>
    BY <1>3 DEF vars, client, socket, service, history
  <2>2. TypeOK'
    BY <2>1 DEF IInv, TypeOK
  <2>3. \A x \in Clients : Pending(x)' = Pending(x) /\ InService(x)' = InService(x)
    BY <2>1 DEF Pending, InService, Serving
  <2>4. QueueOK' /\ OpenOK' /\ FreshOK' /\ CountOK' /\ AnswerOK'
    BY <2>1, <2>3 DEF IInv, QueueOK, OpenOK, FreshOK, CountOK, AnswerOK
  <2>5. RequestOK' /\ UnreachedOK'
    BY <2>1, <2>3 DEF IInv, RequestOK, UnreachedOK
  <2> QED BY <2>2, <2>4, <2>5 DEF IInv
<1> QED BY <1>1, <1>2, <1>3, ClientIInv, ServerIInv DEF Next

-----------------------------------------------------------------------------
(* The invariant of every behaviour.                                       *)
THEOREM Invariance == Spec => []IInv
BY InitIInv, NextIInv, PTL DEF Spec

(* SMS_OK means that a gateway took the SMS, provided that no gateway      *)
(* drops it without an exception.                                          *)
THEOREM OkDelivered == NeverUnnoticed /\ Spec => []OkMeansDelivered
<1> SUFFICES ASSUME NeverUnnoticed PROVE Spec => []OkMeansDelivered
  OBVIOUS
<1>1. IInv => OkMeansDelivered
  BY DEF IInv, AnswerOK, OkMeansDelivered
<1> QED BY <1>1, Invariance, PTL

(* SMS_GATEWAY_ERR means that all gateways were tried and failed.          *)
THEOREM GatewayErrExhaustive == Spec => []GatewayErrMeansAllFailed
<1>1. IInv => GatewayErrMeansAllFailed
  BY DEF IInv, AnswerOK, GatewayErrMeansAllFailed
<1> QED BY <1>1, Invariance, PTL

(* The loop over the gateways sends an SMS once more for every failure, at *)
(* most.                                                                   *)
THEOREM CopiesBounded == Spec => []CopyNeedsFailure
<1>1. IInv => CopyNeedsFailure
  BY DEF IInv, CountOK, CopyNeedsFailure
<1> QED BY <1>1, Invariance, PTL

(* The variables keep their shapes.                                        *)
THEOREM TypeCorrect == Spec => []TypeOK
BY Invariance, PTL DEF IInv

(* The server ends only when it is stopped, or because of the client it    *)
(* serves: its request is not JSON, or it has left in mid-exchange.        *)
THEOREM DownCaused == Spec => DownNeedsCause
<1>1. IInv /\ [Next]_vars =>
        [server # "down" /\ server' = "down" =>
            \/ stops' > stops
            \/ conn \in Unparsable
            \/ result[conn] \in {"KILLED", "SMS_READFROMSOCK_ERR"} \cup NoRequest]_vars
  <2> SUFFICES ASSUME IInv, Next, server # "down", server' = "down"
               PROVE  \/ stops' > stops
                      \/ conn \in Unparsable
                      \/ result[conn] \in Gone
    BY DEF Gone, vars, service
  <2>1. CASE Stop
    BY <2>1, ServiceAssumption DEF Stop, IInv, TypeOK
  <2>2. CASE Restart
    BY <2>2 DEF Restart
  <2>3. ASSUME NEW c \in Clients, CallErr(c) \/ Send(c) \/ Kill(c) PROVE FALSE
    BY <2>3 DEF CallErr, Send, Connect, Write, Read, Kill, service
  <2>4. CASE Serve
    <3>1. Recv \/ Refuse \/ ReplyErr
      BY <2>4 DEF Serve, Accept, Service, Reply, Answer
    <3>2. CASE Refuse
      BY <3>2 DEF Refuse
    <3>3. CASE Recv \/ ReplyErr
      <4>1. pc[conn] = "done" /\ InService(conn) /\ conn \in Clients
        BY <3>3 DEF Recv, ReplyErr, Answer, InService, Serving, IInv, TypeOK
      <4> QED BY <4>1 DEF IInv, OpenOK
    <3> QED BY <3>1, <3>2, <3>3
  <2> QED BY <2>1, <2>2, <2>3, <2>4 DEF Next
<1> QED BY <1>1, Invariance, PTL DEF Spec, DownNeedsCause

(* Nothing is sent for a call that has returned, unless it was killed or   *)
(* its read() failed, and nothing over a connection the server has lost.   *)
THEOREM FailureIsFinal == Spec => NoLateDelivery
<1>1. IInv /\ [Next]_vars =>
        [\A c \in Clients : copies'[c] # copies[c] =>
            /\ result[c] \in {"SMS_NONE", "KILLED", "SMS_READFROMSOCK_ERR"}
            /\ peer[c] = "open"]_vars
  <2> SUFFICES ASSUME IInv, [Next]_vars, NEW c \in Clients, copies'[c] # copies[c]
               PROVE  /\ result[c] \in {"SMS_NONE", "KILLED", "SMS_READFROMSOCK_ERR"}
                      /\ peer[c] = "open"
    OBVIOUS
  <2>1. Service /\ c = conn
    <3>1. ~ UNCHANGED copies
      OBVIOUS
    <3>2. Service
      BY <3>1 DEF Next, vars, history, CallErr, Send, Connect, Write, Read, Kill, Serve,
                  Accept, Recv, Refuse, Reply, ReplyErr, Answer, Exit, Stop, Restart
    <3> QED BY <3>2 DEF Service, Attempt, IInv, TypeOK
  <2>2. InService(c) /\ server \in Serving \ {"recv"}
    BY <2>1 DEF Service, InService, Serving
  <2>3. result[c] \notin NoRequest
    BY <2>1, <2>2 DEF IInv, RequestOK
  <2> QED BY <2>2, <2>3 DEF IInv, OpenOK, FreshOK, Gone
<1> QED BY <1>1, Invariance, PTL DEF Spec, NoLateDelivery

-----------------------------------------------------------------------------
(* A call that has returned keeps its result, and a stop is not undone.    *)
LEMMA ResultsStay ==
    ASSUME IInv, [Next]_vars
    PROVE  /\ stops' \in Nat /\ stops' >= stops
           /\ \A c \in Clients : pc[c] = "done" => pc'[c] = "done" /\ result'[c] = result[c]
<1> USE DEF history, client, socket, service
<1>1. stops \in Nat
  BY ServiceAssumption DEF IInv, TypeOK
<1>2. ASSUME UNCHANGED client, UNCHANGED stops \/ stops' = stops + 1
      PROVE  /\ stops' \in Nat /\ stops' >= stops
             /\ \A c \in Clients : pc[c] = "done" => pc'[c] = "done" /\ result'[c] = result[c]
  BY <1>1, <1>2
<1>3. CASE Stop
  BY <1>2, <1>3 DEF Stop, Exit
<1>4. CASE Restart \/ UNCHANGED vars
  BY <1>2, <1>4 DEF Restart, vars
<1>5. CASE Serve
  BY <1>2, <1>5 DEF Serve, Accept, Recv, Refuse, Exit, Service, Reply, ReplyErr, Answer
<1>6. ASSUME NEW q \in Clients, CallErr(q) \/ Send(q) \/ Kill(q)
      PROVE  /\ stops' \in Nat /\ stops' >= stops
             /\ \A c \in Clients : pc[c] = "done" => pc'[c] = "done" /\ result'[c] = result[c]
  <2>1. UNCHANGED stops /\ pc[q] # "done"
    BY <1>6 DEF CallErr, SocketErr, ConnectErr, WriteErr, ReadErr, Send, Connect, Write, Read,
                Kill
  <2>2. \A c \in Clients : c # q => pc'[c] = pc[c] /\ result'[c] = result[c]
    BY <1>6 DEF CallErr, SocketErr, ConnectErr, WriteErr, ReadErr, Send, Connect, Write, Read,
                Kill, Finish, IInv, TypeOK
  <2> QED BY <1>1, <2>1, <2>2
<1> QED BY <1>3, <1>4, <1>5, <1>6 DEF Next
=============================================================================
