---------------------------- MODULE MCSmsService ----------------------------
(* Instances of SmsService for TLC.                                        *)
EXTENDS SmsService, TLC

(* server.conf with mail tried before HTTP; the same with a space behind   *)
(* the comma; and as an editor may leave it while the server runs: gone,   *)
(* without the SMTP section, with a domain missing.                        *)
Providers == <<"cti", "movistar">>
Written == File(HttpOptions \cup SmtpOptions, <<"smtp", "http">>, Providers, <<"d1", "d2">>)
Spaced == [Written EXCEPT !.gwClient = <<"http", " smtp">>]
Edited == {Written, NoFile, [Written EXCEPT !.options = HttpOptions],
           [Written EXCEPT !.domains = <<"d1">>]}

(* The replies of which send_sms() takes notice; an answer that breaks off *)
(* does to an SMS what losing the mail server does.                        *)
Noticed == (HttpReplies \cup SmtpReplies \cup GsmReplies) \ {"502", "brokenOff"}

WrittenGateways == Len(Priority(Written))
NoticedFailures == GatewayOutcomes(Written, Edited, ToSet(Providers), Noticed)
AnyReply == GatewayOutcomes(Spaced, {Spaced}, ToSet(Providers), Noticed \cup {"502", "brokenOff"})
=============================================================================
