------------------------------ MODULE Gateways ------------------------------
(***************************************************************************)
(* The gateways of the SMS server: which client a name in gwClient stands  *)
(* for, which options of server.conf it reads, and what an attempt to send *)
(* an SMS through it comes to.                                             *)
(*                                                                         *)
(* The list of names is read once, when the server starts; everything else *)
(* is read again for every attempt, so that a file is the one that is      *)
(* there at the time.  An attempt reads all its options before it hands    *)
(* anything over.                                                          *)
(***************************************************************************)
EXTENDS Integers, Sequences, SequencesExt

HttpOptions == {"http-method", "http-gateway", "http-script", "http-var-cel",
                "http-var-from", "http-var-provider", "http-var-msg"}
SmtpOptions == {"smtp-provider", "smtp-provider-domain", "smtp-from", "smtp-gateway",
                "smtp-port", "smtp-login-user", "smtp-login-pass"}

(* server.conf: the options that are there and well formed, and the values *)
(* split at their commas.  A section that is missing has no options; has_- *)
(* section() and has_option() are asked and not listened to.               *)
File(options, gwClient, providers, domains) ==
    [options |-> options, gwClient |-> gwClient, providers |-> providers, domains |-> domains]
NoFile == File({}, << >>, << >>, << >>)

(* dict(zip(providers, domains)): the longer list is cut.                  *)
HasDomain(file, provider) ==
    \E i \in DOMAIN file.providers \cap DOMAIN file.domains : file.providers[i] = provider

(* What the other side may do with an SMS.                                 *)
HttpReplies == {"unreachable", "200", "403", "404", "500", "502", "brokenOff"}
SmtpReplies == {"unreachable", "loginRefused", "refused", "accepted", "acceptedThenLost"}
GsmReplies == {"noDevice", "refused", "accepted"}

(* sent: handed over; sentThenRaised: handed over, then an exception;      *)
(* raised: an exception, nothing handed over; unnoticed: nothing handed    *)
(* over and no exception.                                                  *)
AllGwOutcomes == {"sent", "sentThenRaised", "raised", "unnoticed"}

(* Variant: a gateway that is not found goes unnoticed too.                *)
HttpNotFoundIgnored(file, reply) ==
    IF ~ HttpOptions \subseteq file.options THEN "raised"
    ELSE CASE reply = "200" -> "sent"
           [] reply = "brokenOff" -> "sentThenRaised"
           [] reply \in {"404", "502"} -> "unnoticed"
           [] OTHER -> "raised"

(* HttpClient: three statuses raise, every other one passes for a success. *)
Http(file, reply) ==
    IF ~ HttpOptions \subseteq file.options THEN "raised"
    ELSE CASE reply = "200" -> "sent"
           [] reply = "brokenOff" -> "sentThenRaised"
           [] reply \in {"unreachable", "404", "403", "500"} -> "raised"
           [] OTHER -> "unnoticed"

(* SmtpClient: the provider's domain is looked up before anything is sent; *)
(* quit() may raise when the mail has been taken.                          *)
Smtp(file, provider, reply) ==
    IF ~ SmtpOptions \subseteq file.options \/ ~ HasDomain(file, provider) THEN "raised"
    ELSE CASE reply = "accepted" -> "sent"
           [] reply = "acceptedThenLost" -> "sentThenRaised"
           [] OTHER -> "raised"

(* MobileClient reads no option of server.conf.                            *)
Mobile(reply) == IF reply = "accepted" THEN "sent" ELSE "raised"

(* __exec_client(): a name that ClientFactory does not know is an          *)
(* exception like any other.                                               *)
ExecClient(id, file, provider, replies) ==
    CASE id = "http" -> {Http(file, r) : r \in HttpReplies \cap replies}
      [] id = "smtp" -> {Smtp(file, provider, r) : r \in SmtpReplies \cap replies}
      [] id = "mobile" -> {Mobile(r) : r \in GsmReplies \cap replies}
      [] OTHER -> {"raised"}

(* get_gw_priority() of a file that can be read, and what each place of    *)
(* the list may come to while the file is one of files.                    *)
Priority(file) == file.gwClient
GatewayOutcomes(start, files, providers, replies) ==
    [g \in DOMAIN Priority(start) |->
        UNION {ExecClient(Priority(start)[g], f, p, replies) : f \in files, p \in providers}]
=============================================================================
