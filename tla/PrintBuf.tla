------------------------------ MODULE PrintBuf ------------------------------
(***************************************************************************)
(* printbuf.c: a growing text buffer that is always terminated.  What the  *)
(* text is matters elsewhere; here a buffer is its allocated size and the  *)
(* place of its terminator.  Sizes beyond an int are left out.             *)
(***************************************************************************)
EXTENDS Integers

PrintbufNew(size) == [size |-> size, bpos |-> 0]
PrintbufReset(p) == [p EXCEPT !.bpos = 0]

(* Variant: no room is kept for the terminator.                            *)
FullLate(p, n) == p.size - p.bpos < n

(* printbuf_memappend() of n bytes has to call realloc(), and with what.   *)
Full(p, n) == p.size - p.bpos =< n
NewSize(p, n) == IF 2 * p.size >= p.bpos + n + 8 THEN 2 * p.size ELSE p.bpos + n + 8

Memappend(p, n) ==
    [size |-> IF Full(p, n) THEN NewSize(p, n) ELSE p.size, bpos |-> p.bpos + n]
=============================================================================
