--------------------------- MODULE MCLoginOverSms ---------------------------
(* Instances of LoginOverSms for TLC.                                      *)
EXTENDS LoginOverSms

CONSTANTS s1, s2, alice, bob    \* model values of the .cfg file

AllResults == Sms!SmsResult

NoTable == {{}}

(* A gateway that may fail and tells so.                                   *)
OneGateway == <<{"sent", "raised"}>>
=============================================================================
