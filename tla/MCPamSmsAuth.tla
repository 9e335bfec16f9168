---------------------------- MODULE MCPamSmsAuth ----------------------------
(* Instances of PamSmsAuth for TLC.                                         *)
EXTENDS PamSmsAuthBook, TLC

CONSTANTS s1, s2, s3, alice, bob, root, guest    \* model values of the .cfg files

SessionSymmetry == Permutations(Sessions)
(* Users may be exchanged only where Excepted and NoGecos are empty.        *)
FullSymmetry == Permutations(Sessions) \cup Permutations(Users)

(* A table nobody has used; and one with the rows of two logins that went  *)
(* away before they had an OTP, which expire with the first tick.          *)
Fresh == {{}}
FreshOrLeft == {{}, {Row(1, alice, NoOtp, 1), Row(2, bob, NoOtp, 1)}}
=============================================================================
