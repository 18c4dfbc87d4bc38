-------------------------------- MODULE Scc ---------------------------------
(***************************************************************************)
(* The serial controller of core/mac_mem.c.  A controller is a record; an  *)
(* operator is one access of the guest or one byte from outside.  The      *)
(* register pointer is shared by the two channels.  Registers other than   *)
(* WR9 and RR0 hold no state that anything reads.                          *)
(***************************************************************************)
EXTENDS Integers

Channels == 0 .. 1
NoByte == 0

SccInit == [ptr |-> 0, irqOn |-> FALSE,
            byte |-> [c \in Channels |-> NoByte],
            avail |-> [c \in Channels |-> FALSE]]

\* mac_scc_rx: a byte that was not read is overwritten.
SccRx(s, c, b) == [s EXCEPT !.byte[c] = b, !.avail[c] = TRUE]

\* Mutant of ReadData: the byte stays available.
ReadData_StaysAvailable(s, c) == s

\* A read of the data port returns the byte whether or not it is new.
ReadData(s, c) == [s EXCEPT !.avail[c] = FALSE]

\* A read of the control port: RR0 has the Rx bit; every other RR is 0.
ReadControl(s) == [s EXCEPT !.ptr = 0]
RxBit(s, c) == s.ptr = 0 /\ s.avail[c]

\* A write to the control port: the pointer first, the register next.
WriteControl(s, v, mie) ==
    IF s.ptr = 0
    THEN [s EXCEPT !.ptr = v]
    ELSE [s EXCEPT !.ptr = 0, !.irqOn = @ \/ (s.ptr = 9 /\ mie)]
=============================================================================
