----------------------------- MODULE PamStatus -----------------------------
(***************************************************************************)
(* The table pam_status of the module's SQLite database and the statements *)
(* of sqlite_client.c that read and write it.                              *)
(*                                                                         *)
(* The table is the set of its rows.  Every operator stands for ONE        *)
(* sqlite3_exec() call, the unit that SQLite makes atomic; the functions   *)
(* of sqlite_client.c issue one or two of them, and other processes may    *)
(* run statements in between.  An operator that selects returns the SET of *)
(* the results the call can leave in the caller's variable.                *)
(***************************************************************************)
EXTENDS Integers

CONSTANTS
    NoOtp,      \* the NULL that a fresh row holds in its otp column
    Garbage,    \* what an unwritten malloc'ed buffer reads as
    Faults      \* results other than SQLITE_OK a statement may end with

(* SQLITE_BUSY: another process held the lock for longer than timeout_ms.  *)
(* SQLITE_ERROR: any other failure, sqlite3_open() included.               *)
ASSUME FaultsAssumption == Faults \subseteq {"SQLITE_BUSY", "SQLITE_ERROR"}

Row(id, u, o, t) == [id |-> id, user |-> u, otp |-> o, ts |-> t]

RowsOf(rows, u) == {r \in rows : r.user = u}
RowsAt(rows, id) == {r \in rows : r.id = id}

(* The rows of S with the greatest primary key (at most one).              *)
Latest(S) == {r \in S : \A q \in S : q.id =< r.id}

(* The value an execution leaves when it does not end with SQLITE_OK.      *)
OnFault(v) == {v : f \in Faults}

(* "SELECT id FROM pam_status WHERE user=u": the callback overwrites its   *)
(* result row after row, in primary key order, so the last row wins; 0     *)
(* when there is none, negative when the statement fails.                  *)
SelectRowid(rows, u) ==
    (IF RowsOf(rows, u) = {} THEN {0} ELSE {r.id : r \in Latest(RowsOf(rows, u))})
    \cup OnFault(-2)

(* "SELECT max(id)": on failure id is set to -1 and id+1 is returned; only *)
(* a database that cannot be opened gives the caller a negative number.    *)
SelectNextRowid(rows) ==
    (IF rows = {} THEN {1} ELSE {r.id + 1 : r \in Latest(rows)})
    \cup OnFault(0)
    \cup {-1 : f \in Faults \cap {"SQLITE_ERROR"}}

(* "SELECT otp WHERE id": a NULL column aborts the statement and gives     *)
(* NULL.  SQLITE_BUSY, and a row that is no longer there, leave the buffer *)
(* as malloc() returned it and return it.                                  *)
SelectOtp(rows, id) ==
    (IF RowsAt(rows, id) = {} THEN {Garbage} ELSE {r.otp : r \in RowsAt(rows, id)})
    \cup {Garbage : f \in Faults \cap {"SQLITE_BUSY"}}
    \cup {NoOtp : f \in Faults \cap {"SQLITE_ERROR"}}

(* Variant: a column that is present taken for one that is missing.       *)
SelectUserInverted(rows, id) == {FALSE}

(* "SELECT user WHERE id", of which the caller only asks whether it is     *)
(* NULL: the column never is, and an unwritten buffer is not either.       *)
SelectUser(rows, id) ==
    {TRUE} \cup {FALSE : f \in Faults \cap {"SQLITE_ERROR"}}

(* "SELECT timestamp WHERE id", of which the caller asks whether it is     *)
(* positive; the result variable starts at 0.                              *)
SelectTimestamp(rows, id) ==
    (IF RowsAt(rows, id) = {} THEN {0} ELSE {r.ts : r \in RowsAt(rows, id)})
    \cup OnFault(-4)

(* Variant: an id column that is no primary key.                           *)
IdNeverTaken(rows, id) == FALSE

(* "INSERT INTO pam_status VALUES (id, u, null, t)", refused by the        *)
(* primary key when the id is taken.                                       *)
IdTaken(rows, id) == RowsAt(rows, id) # {}
InsertRow(rows, id, u, t) == rows \cup {Row(id, u, NoOtp, t)}

(* Variant: an UPDATE that lost its WHERE clause.                          *)
UpdateEveryOtp(rows, id, o) == {[r EXCEPT !.otp = o] : r \in rows}

(* "UPDATE pam_status SET otp=o WHERE id": SQLITE_OK with no row too.      *)
UpdateOtp(rows, id, o) ==
    {IF r.id = id THEN [r EXCEPT !.otp = o] ELSE r : r \in rows}

(* Variants: the boundary of the DELETE one tick late, and one early.      *)
DeleteLate(rows, t) == {r \in rows : r.ts >= t - 1}
DeleteEarly(rows, t) == {r \in rows : r.ts > t}

(* "DELETE FROM pam_status WHERE timestamp<t".                             *)
DeleteOlder(rows, t) == {r \in rows : r.ts >= t}
=============================================================================
