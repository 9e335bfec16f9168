----------------------------- MODULE SmsService -----------------------------
(***************************************************************************)
(* sms_send() of the PAM module and the SMS server it talks to.            *)
(*                                                                         *)
(* Every client is one call of sms_send() in its own process: it connects  *)
(* to the server's UNIX socket, writes one request, reads one response.    *)
(* The server is a single thread: it accepts a connection, receives, tries *)
(* the gateways of server.conf in their order, answers, and accepts the    *)
(* next one.  `conn.close' at the end of its loop calls nothing: a         *)
(* connection is closed when the variable is bound again, or on exit.      *)
(***************************************************************************)
EXTENDS Gateways

CONSTANTS
    Clients,        \* calls of sms_send()
    Unparsable,     \* those whose request simplejson refuses
    NoConn,         \* conn before the first accept()
    Gateways,       \* length of the priority list gwClient
    GwOutcomes,     \* what an attempt at each of them may come to
    MaxPending,     \* connections listen(5) lets wait for accept()
    MaxStops        \* bound on the operator's stops

HandedOver == {"sent", "sentThenRaised"}
Raising == {"raised", "sentThenRaised"}

ASSUME ServiceAssumption ==
    /\ NoConn \notin Clients /\ Unparsable \subseteq Clients
    /\ Gateways \in Nat \ {0} /\ MaxPending \in Nat \ {0} /\ MaxStops \in Nat
    /\ GwOutcomes \in [1 .. Gateways -> SUBSET AllGwOutcomes]

VARIABLES
    pc,         \* start, connected, waiting, done: where each client is
    result,     \* what sms_send() returned, or how its process ended
    peer,       \* the server's end of the client's connection: open, eof, reset
    answer,     \* the response in the client's socket buffer
    request,    \* whether the client's request waits in the server's buffer
    backlog,    \* connections waiting for accept()
    server,     \* the step the server is about to take
    conn,       \* the connection the server's variable holds
    gw,         \* the gateway it tries
    copies,     \* how often the client's SMS was handed to a gateway
    failed,     \* how many gateways raised an exception for the client
    stops       \* stops by the operator so far

client == <<pc, result>>
socket == <<peer, answer, request, backlog>>
service == <<server, conn, gw>>
history == <<copies, failed>>
vars == <<client, socket, service, history, stops>>

NoRequest == {"SMS_JSON2STR_ERR", "SMS_WRITEONSOCK_ERR"}
SmsResult == {"SMS_OK", "SMS_SOCKCREATE_ERR", "SMS_READFROMSOCK_ERR",
              "SMS_CONN2SERVER_ERR", "SMS_GATEWAY_ERR"} \cup NoRequest
Ended == {"KILLED", "CRASHED"}

Init ==
    /\ pc = [c \in Clients |-> "start"]
    /\ result = [c \in Clients |-> "SMS_NONE"]
    /\ peer = [c \in Clients |-> "open"]
    /\ answer = [c \in Clients |-> "none"]
    /\ request = [c \in Clients |-> FALSE]
    /\ backlog = << >>
    /\ server \in {"accept", "down"} /\ conn = NoConn /\ gw = 1
    /\ copies = [c \in Clients |-> 0]
    /\ failed = [c \in Clients |-> 0]
    /\ stops = 0

-----------------------------------------------------------------------------
(* The client.                                                             *)

Finish(c, r) ==
    /\ pc' = [pc EXCEPT ![c] = "done"]
    /\ result' = [result EXCEPT ![c] = r]

(* What can fail at any time and for reasons of its own, a signal among    *)
(* them.  socket():                                                        *)
SocketErr(c) == pc[c] = "start" /\ Finish(c, "SMS_SOCKCREATE_ERR")

(* connect(), with a running server too: a sockpath= that was cut at 31    *)
(* characters or names another file, or a socket the user may not open;    *)
ConnectErr(c) == pc[c] = "start" /\ Finish(c, "SMS_CONN2SERVER_ERR")

(* the making of the request, for want of memory, and write();             *)
WriteErr(c) == pc[c] = "connected" /\ \E r \in NoRequest : Finish(c, r)

(* read(), while the server goes on with the request.                      *)
ReadErr(c) == pc[c] = "waiting" /\ Finish(c, "SMS_READFROMSOCK_ERR")

CallErr(c) ==
    /\ SocketErr(c) \/ ConnectErr(c) \/ WriteErr(c) \/ ReadErr(c)
    /\ UNCHANGED <<socket, service, history, stops>>

(* connect() is refused when nobody listens, and blocks while the backlog  *)
(* is full.                                                                *)
Connect(c) ==
    /\ pc[c] = "start"
    /\ \/ server = "down" /\ Finish(c, "SMS_CONN2SERVER_ERR") /\ UNCHANGED backlog
       \/ /\ server # "down" /\ Len(backlog) < MaxPending
          /\ backlog' = Append(backlog, c)
          /\ pc' = [pc EXCEPT ![c] = "connected"]
          /\ UNCHANGED result
    /\ UNCHANGED <<peer, answer, request, service, history, stops>>

(* write(): with nobody at the other end it fails, or SIGPIPE ends the     *)
(* process where the application does not ignore it.                       *)
Write(c) ==
    /\ pc[c] = "connected"
    /\ \/ /\ peer[c] = "open"
          /\ pc' = [pc EXCEPT ![c] = "waiting"]
          /\ request' = [request EXCEPT ![c] = TRUE]
          /\ UNCHANGED result
       \/ /\ peer[c] # "open"
          /\ Finish(c, "SMS_WRITEONSOCK_ERR") \/ Finish(c, "KILLED")
          /\ UNCHANGED request
    /\ UNCHANGED <<peer, answer, backlog, service, history, stops>>

(* wait4resp().  At the end of the stream an empty string is parsed; the   *)
(* parser reports that with an error pointer, which is not NULL and is     *)
(* dereferenced.                                                           *)
Response(c) ==
    CASE answer[c] = "OK"  -> "SMS_OK"
      [] answer[c] = "ERR" -> "SMS_GATEWAY_ERR"
      [] peer[c] = "eof"   -> "CRASHED"
      [] peer[c] = "reset" -> "SMS_READFROMSOCK_ERR"

Read(c) ==
    /\ pc[c] = "waiting"
    /\ answer[c] # "none" \/ peer[c] # "open"
    /\ Finish(c, Response(c))
    /\ UNCHANGED <<socket, service, history, stops>>

(* The application is killed and its end of the connection closed.         *)
Kill(c) ==
    /\ pc[c] # "done"
    /\ Finish(c, "KILLED")
    /\ UNCHANGED <<socket, service, history, stops>>

-----------------------------------------------------------------------------
(* The server.                                                             *)

Pending(c) == \E i \in 1 .. Len(backlog) : backlog[i] = c

(* Variant: connections outlive the process and wait for the next one.     *)
ExitKeepsBacklog ==
    /\ server' = "down" /\ conn' = NoConn /\ gw' = 1
    /\ peer' = [c \in Clients |-> IF Pending(c) \/ request[c] THEN "reset"
                                  ELSE IF c = conn THEN "eof" ELSE peer[c]]
    /\ UNCHANGED <<answer, request, backlog, client, history>>

(* The process ends.  Its peers read the end of the stream; those whose    *)
(* connection or request it had not taken, a reset.                        *)
Exit ==
    /\ server' = "down" /\ conn' = NoConn /\ gw' = 1
    /\ backlog' = << >>
    /\ peer' = [c \in Clients |-> IF Pending(c) \/ request[c] THEN "reset"
                                  ELSE IF c = conn THEN "eof" ELSE peer[c]]
    /\ UNCHANGED <<answer, request, client, history>>

(* accept(), which also lets go of the connection before.                  *)
Accept ==
    /\ server = "accept" /\ backlog # << >>
    /\ conn' = Head(backlog) /\ backlog' = Tail(backlog)
    /\ peer' = [c \in Clients |-> IF c = conn THEN "eof" ELSE peer[c]]
    /\ server' = "recv"
    /\ UNCHANGED <<answer, request, gw, client, history, stops>>

(* recv(): blocks until there is a request.  From a client that has gone   *)
(* without writing it gives "", which simplejson refuses like any request  *)
(* it cannot parse.                                                        *)
Recv ==
    /\ server = "recv"
    /\ \/ /\ request[conn]
          /\ request' = [request EXCEPT ![conn] = FALSE]
          /\ server' = "service" /\ gw' = 1
          /\ UNCHANGED <<conn, peer, answer, backlog, client, history>>
       \/ ~ request[conn] /\ pc[conn] = "done" /\ Exit
    /\ UNCHANGED stops

(* str2json() at the head of __service(): a request that is not JSON       *)
(* raises an exception nobody catches.  A backslash in the number or the   *)
(* provider of the GECOS field is enough, json_escape_str() leaves it.     *)
Refuse ==
    /\ server = "service" /\ conn \in Unparsable
    /\ Exit
    /\ UNCHANGED stops

(* One turn of the loop over the gateways: the first one that raises no    *)
(* exception ends it, and only the last one's exception is reported.       *)
Attempt(o) ==
    /\ copies' = [copies EXCEPT ![conn] = @ + (IF o \in HandedOver THEN 1 ELSE 0)]
    /\ failed' = [failed EXCEPT ![conn] = @ + (IF o \in Raising THEN 1 ELSE 0)]

(* Variant: a success does not end the loop.                               *)
ServiceNoBreak ==
    /\ server = "service" /\ conn \notin Unparsable
    /\ \E o \in GwOutcomes[gw] :
          /\ Attempt(o)
          /\ \/ gw < Gateways /\ gw' = gw + 1 /\ UNCHANGED server
             \/ /\ gw = Gateways /\ UNCHANGED gw
                /\ server' = IF o \in Raising THEN "replyErr" ELSE "reply"
    /\ UNCHANGED <<conn, socket, client, stops>>

(* Variant: the first exception is reported at once.                       *)
ServiceOneGateway ==
    /\ server = "service" /\ conn \notin Unparsable
    /\ \E o \in GwOutcomes[gw] :
          /\ Attempt(o)
          /\ server' = IF o \in Raising THEN "replyErr" ELSE "reply"
    /\ UNCHANGED <<conn, gw, socket, client, stops>>

(* Variant: the loop runs past the end of the list.                        *)
ServiceOneTooFar ==
    /\ server = "service" /\ conn \notin Unparsable
    /\ \E o \in GwOutcomes[IF gw > Gateways THEN Gateways ELSE gw] :
          /\ Attempt(o)
          /\ \/ o \notin Raising /\ server' = "reply" /\ UNCHANGED gw
             \/ o \in Raising /\ gw =< Gateways /\ gw' = gw + 1 /\ UNCHANGED server
             \/ o \in Raising /\ gw > Gateways /\ server' = "replyErr" /\ UNCHANGED gw
    /\ UNCHANGED <<conn, socket, client, stops>>

Service ==
    /\ server = "service" /\ conn \notin Unparsable
    /\ \E o \in GwOutcomes[gw] :
          /\ Attempt(o)
          /\ \/ o \notin Raising /\ server' = "reply" /\ UNCHANGED gw
             \/ o \in Raising /\ gw < Gateways /\ gw' = gw + 1 /\ UNCHANGED server
             \/ o \in Raising /\ gw = Gateways /\ server' = "replyErr" /\ UNCHANGED gw
    /\ UNCHANGED <<conn, socket, client, stops>>

(* send() of the answer.  When the client has gone the exception is caught *)
(* after a success, but not inside the handler that reports a failure.     *)
Answer(a) ==
    /\ answer' = [answer EXCEPT ![conn] = a]
    /\ server' = "accept"
    /\ UNCHANGED <<conn, gw, peer, request, backlog, client, history>>

Reply ==
    /\ server = "reply"
    /\ \/ pc[conn] # "done" /\ Answer("OK")
       \/ /\ pc[conn] = "done"
          /\ server' = "accept"
          /\ UNCHANGED <<conn, gw, socket, client, history>>
    /\ UNCHANGED stops

(* Variants: the failure is logged and nothing is sent; reported as a      *)
(* success; not caught at all.                                             *)
ReplyErrSilent ==
    /\ server = "replyErr"
    /\ server' = "accept"
    /\ UNCHANGED <<conn, gw, socket, client, history, stops>>

ReplyErrAsOk ==
    /\ server = "replyErr"
    /\ \/ pc[conn] # "done" /\ Answer("OK")
       \/ pc[conn] = "done" /\ Exit
    /\ UNCHANGED stops

ReplyErrUncaught == server = "replyErr" /\ Exit /\ UNCHANGED stops

ReplyErr ==
    /\ server = "replyErr"
    /\ \/ pc[conn] # "done" /\ Answer("ERR")
       \/ pc[conn] = "done" /\ Exit
    /\ UNCHANGED stops

(* The operator stops the server, and starts it again.                     *)
Stop ==
    /\ server # "down" /\ stops < MaxStops
    /\ stops' = stops + 1
    /\ Exit

Restart ==
    /\ server = "down"
    /\ server' = "accept"
    /\ UNCHANGED <<conn, gw, socket, client, history, stops>>

-----------------------------------------------------------------------------
Send(c) == Connect(c) \/ Write(c) \/ Read(c)
Serve == Accept \/ Recv \/ Refuse \/ Service \/ Reply \/ ReplyErr

Next ==
    \/ \E c \in Clients : CallErr(c) \/ Send(c) \/ Kill(c)
    \/ Serve
    \/ Stop \/ Restart

Spec == Init /\ [][Next]_vars

(* The processes are scheduled, and a gateway's answer or its failure      *)
(* comes at some time; nobody has to stop, start or kill anything, and no  *)
(* system call has to fail.                                                *)
Fairness == WF_vars(Serve) /\ \A c \in Clients : WF_vars(Send(c))
FairSpec == Spec /\ Fairness

-----------------------------------------------------------------------------
(* The shapes of the variables; the server holds a connection from the     *)
(* accept to the answer, and waiting connections are never closed ones.    *)
TypeOK ==
    /\ pc \in [Clients -> {"start", "connected", "waiting", "done"}]
    /\ result \in [Clients -> {"SMS_NONE"} \cup SmsResult \cup Ended]
    /\ peer \in [Clients -> {"open", "eof", "reset"}]
    /\ answer \in [Clients -> {"none", "OK", "ERR"}]
    /\ request \in [Clients -> BOOLEAN]
    /\ backlog \in Seq(Clients) /\ Len(backlog) =< MaxPending
    /\ server \in {"accept", "recv", "service", "reply", "replyErr", "down"}
    /\ conn \in Clients \cup {NoConn}
    /\ server \in {"recv", "service", "reply", "replyErr"} => conn \in Clients
    /\ gw \in 1 .. Gateways
    /\ copies \in [Clients -> Nat]
    /\ failed \in [Clients -> Nat]
    /\ stops \in 0 .. MaxStops

(* sms_send() confirms an SMS only if a gateway took it: "If it couldn't   *)
(* send the sms to any gateway, it sends the error to the pam module"      *)
(* (server.py:128).                                                        *)
OkMeansDelivered ==
    \A c \in Clients : result[c] = "SMS_OK" => copies[c] > 0

(* SMS_GATEWAY_ERR means that every gateway of the list was tried for this *)
(* request, and that each of them raised an exception.                     *)
GatewayErrMeansAllFailed ==
    \A c \in Clients : result[c] = "SMS_GATEWAY_ERR" => failed[c] = Gateways

(* An SMS goes out at most once more than gateways raised an exception for *)
(* it: the loop ends with the first success.  (It goes by the number: which*)
(* of them took it before it raised is not asked.)                         *)
CopyNeedsFailure == \A c \in Clients : copies[c] =< failed[c] + 1

(* An SMS goes out only for a call that still waits for its answer, that   *)
(* was killed, or whose read() failed; and never for one that a server     *)
(* which has ended since had taken.  After every other result, the failed  *)
(* connect() and the failed gateways of sms_on_err() above all, none does. *)
NoLateDelivery ==
    [][\A c \in Clients : copies'[c] # copies[c] =>
          /\ result[c] \in {"SMS_NONE", "KILLED", "SMS_READFROMSOCK_ERR"}
          /\ peer[c] = "open"]_vars

(* The server ends only because the operator stops it, or because of the   *)
(* very client it serves: one whose request is not JSON, or one that went  *)
(* away in the middle of the exchange, killed or by a failed call.         *)
DownNeedsCause ==
    [][server # "down" /\ server' = "down" =>
          \/ stops' > stops
          \/ conn \in Unparsable
          \/ result[conn] \in {"KILLED", "SMS_READFROMSOCK_ERR"} \cup NoRequest]_vars

(* Every call of sms_send() returns, whatever becomes of the server: there *)
(* is no timeout that would end the blocking connect() and read().         *)
EverySendEnds == \A c \in Clients : pc[c] = "start" ~> pc[c] = "done"

(* "if it couldn't be parsed" the client returns JSON_PACKET_PARSE_ERR     *)
(* (json_proto.c:103): the end of the stream is an error, not a crash.     *)
NoCrash == \A c \in Clients : result[c] # "CRASHED"
=============================================================================
