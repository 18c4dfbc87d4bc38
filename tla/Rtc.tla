-------------------------------- MODULE Rtc ---------------------------------
(***************************************************************************)
(* The clock chip of core/mac_iwm.c, driven bit by bit from VIA port B: a  *)
(* command of Bits bits, then a byte in or out.  A byte is its bits, high  *)
(* bit first, as it goes over the line.  The top bit of a command is the   *)
(* direction, the rest the address.  The registers of the clock can be     *)
(* read; every write goes to the parameter RAM.                            *)
(***************************************************************************)
EXTENDS Integers

CONSTANTS
    Bits,         \* bits of a byte, 8
    CellBits,     \* low bits of an address that select a cell, 5
    ClockBytes    \* address -> byte of the seconds that is read there, at 1, 5, 9 and 13

Byte == [1 .. Bits -> BOOLEAN]
ZeroByte == [k \in 1 .. Bits |-> FALSE]

\* & 0x80, & 0x7F and & 0x1F.
ReadBit(cmd) == cmd[1]
Address(cmd) == [k \in 2 .. Bits |-> cmd[k]]
CellPlaces == (Bits - CellBits + 1) .. Bits
Cell(cmd) == [k \in CellPlaces |-> cmd[k]]
Cells == [CellPlaces -> BOOLEAN]

ClockRegs == DOMAIN ClockBytes

ASSUME RtcAssumption ==
    /\ Bits \in Nat \ {0, 1} /\ CellBits \in 1 .. (Bits - 1)
    /\ ClockRegs \subseteq [2 .. Bits -> BOOLEAN]
    /\ \A reg \in ClockRegs : ClockBytes[reg] \in Byte

RtcInit == [state |-> "command", shift |-> ZeroByte, count |-> 0, cmd |-> ZeroByte,
            clk |-> FALSE, out |-> FALSE, pram |-> [c \in Cells |-> ZeroByte]]

\* The seconds are never advanced: every byte of the clock is a constant.
Preload(r, cmd) ==
    IF Address(cmd) \in ClockRegs THEN ClockBytes[Address(cmd)] ELSE r.pram[Cell(cmd)]

ShiftIn(r, data) == [k \in 1 .. Bits |-> IF k = Bits THEN data ELSE r.shift[k + 1]]

CommandBit(r, data) ==
    LET b == ShiftIn(r, data) IN
    IF r.count + 1 < Bits THEN [r EXCEPT !.shift = b, !.count = @ + 1]
    ELSE IF ReadBit(b)
         THEN [r EXCEPT !.shift = Preload(r, b), !.count = 0, !.cmd = b, !.state = "read"]
         ELSE [r EXCEPT !.shift = b, !.count = 0, !.cmd = b, !.state = "write"]

WriteBit(r, data) ==
    LET b == ShiftIn(r, data) IN
    IF r.count + 1 < Bits THEN [r EXCEPT !.shift = b, !.count = @ + 1]
    ELSE [r EXCEPT !.shift = b, !.count = 0, !.state = "command",
                   !.pram[Cell(r.cmd)] = b]

ReadOutBit(r) ==
    LET last == r.count + 1 = Bits IN
    [r EXCEPT !.out = r.shift[1], !.shift = ShiftIn(r, FALSE),
              !.count = IF last THEN 0 ELSE @ + 1,
              !.state = IF last THEN "command" ELSE @]

\* Mutant of RtcWrite: a bit is taken at every write with the clock high.
RtcWrite_NoEdge(r, enb, clk, data) ==
    IF ~enb THEN [r EXCEPT !.state = "command", !.count = 0, !.clk = clk]
    ELSE IF ~clk THEN [r EXCEPT !.clk = clk]
    ELSE LET q == [r EXCEPT !.clk = clk] IN
         CASE q.state = "command" -> CommandBit(q, data)
           [] q.state = "write" -> WriteBit(q, data)
           [] q.state = "read" -> ReadOutBit(q)

\* rtc_via_write: a bit is taken on the rising clock; deselecting ends the transfer.
RtcWrite(r, enb, clk, data) ==
    IF ~enb THEN [r EXCEPT !.state = "command", !.count = 0, !.clk = clk]
    ELSE IF ~clk \/ r.clk THEN [r EXCEPT !.clk = clk]
    ELSE LET q == [r EXCEPT !.clk = clk] IN
         CASE q.state = "command" -> CommandBit(q, data)
           [] q.state = "write" -> WriteBit(q, data)
           [] q.state = "read" -> ReadOutBit(q)
=============================================================================
