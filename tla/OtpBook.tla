------------------------------ MODULE OtpBook ------------------------------
(***************************************************************************)
(* What pam_status promises pam_sm_authenticate(): a book with at most one *)
(* entry for a user, which holds at most one OTP, set once, until the      *)
(* entry expires; and a user is accepted with the OTP of its entry and     *)
(* with nothing else.                                                      *)
(***************************************************************************)
EXTENDS Integers

CONSTANTS Users, Otps, NoOtp, Validity

VARIABLES
    book,       \* the entries: whose, with which OTP, good until when
    clock,
    accepted    \* the pairs <<user, OTP>> that were accepted

vars == <<book, clock, accepted>>

Entry(u, o, t) == [user |-> u, otp |-> o, exp |-> t]

Init == book = {} /\ clock = 1 /\ accepted = {}

Tick == clock' = clock + 1 /\ UNCHANGED <<book, accepted>>

(* An entry is opened for Validity ticks from the moment its call began.   *)
Open(u) ==
    /\ \A e \in book : e.user # u
    /\ \E t \in 1 .. clock : book' = book \cup {Entry(u, NoOtp, t + Validity)}
    /\ UNCHANGED <<clock, accepted>>

(* An OTP that is in no entry is put into one that has none.               *)
Register(u, o) ==
    /\ \A e \in book : e.otp # o
    /\ \E e \in book :
          /\ e.user = u /\ e.otp = NoOtp
          /\ book' = (book \ {e}) \cup {Entry(u, o, e.exp)}
    /\ UNCHANGED <<clock, accepted>>

(* The entries that had expired when a call began are closed.              *)
Expire ==
    /\ \E t \in 1 .. clock : book' = {e \in book : e.exp >= t}
    /\ UNCHANGED <<clock, accepted>>

Accept(u) ==
    /\ \E e \in book :
          /\ e.user = u /\ e.otp # NoOtp
          /\ accepted' = accepted \cup {<<u, e.otp>>}
    /\ UNCHANGED <<book, clock>>

Next ==
    \/ Tick
    \/ Expire
    \/ \E u \in Users : Open(u) \/ Accept(u) \/ \E o \in Otps : Register(u, o)

Spec == Init /\ [][Next]_vars
=============================================================================
