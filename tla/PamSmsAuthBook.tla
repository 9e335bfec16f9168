--------------------------- MODULE PamSmsAuthBook ---------------------------
(***************************************************************************)
(* Calls that exclude each other, on a database without faults, implement  *)
(* OtpBook: rows without their ids are its entries.                        *)
(***************************************************************************)
EXTENDS PamSmsAuth

Entries == {[user |-> r.user, otp |-> r.otp, exp |-> r.ts] : r \in rows}

Accepted ==
    {<<user[s], input[s]>> :
        s \in {x \in Sessions : ret[x] = "PAM_SUCCESS" /\ input[x] # NoInput}}

Book == INSTANCE OtpBook WITH
    Otps <- Sessions, Validity <- Expir,
    book <- Entries, clock <- now, accepted <- Accepted

(* One call at a time keeps the promise of OtpBook: one entry for a user,  *)
(* an OTP set once and dropped when it has expired, and nobody accepted    *)
(* with anything but the OTP of its own entry.                             *)
KeepsBook == Book!Spec
=============================================================================
