-------------------------------- MODULE Scsi --------------------------------
(***************************************************************************)
(* The NCR 5380 and its disks (core/mac_scsi.c): the initiator drives the  *)
(* bus through register 0 (data), register 1 (SEL, BSY and RST) and reads; *)
(* the target answers within the register access.  A command's bytes are   *)
(* abstracted to its operation, block address and length, which are chosen *)
(* when its first and its last byte arrive.  Registers 2 to 5 are latches  *)
(* that nothing here depends on.                                           *)
(***************************************************************************)
EXTENDS Integers, FiniteSets

CONSTANTS
    Blocks,        \* id -> blocks of its disk, 0 when there is none
    Protected,     \* ids of the disks attached write-protected
    BlockBytes,    \* 512
    ReplyBytes,    \* length of a reply that is not disk data
    ZeroLen,       \* blocks that length 0 of READ(6) and WRITE(6) stands for, 256
    MaxLba,        \* largest block address that a command carries
    MaxLen         \* largest length byte

Ids == DOMAIN Blocks
Present(id) == Blocks[id] > 0

ASSUME ScsiAssumption ==
    /\ Ids \subseteq 0 .. 6 /\ \A id \in Ids : Blocks[id] \in Nat
    /\ Protected \subseteq Ids
    /\ {BlockBytes, ReplyBytes, ZeroLen} \subseteq Nat \ {0}
    /\ MaxLba \in Nat /\ MaxLen \in Nat

Bytes(id) == 0 .. (Blocks[id] * BlockBytes - 1)

VARIABLES
    phase,     \* the bus phase
    target,    \* the selected target, or -1
    sel,       \* SEL in the initiator command register
    odr,       \* ids whose bits are set in the output data register
    cdb,       \* operation of the command and bytes of it received
    win,       \* the transfer: its buffer, where it begins, length and position
    status,    \* the status byte
    image,     \* id -> contents of its disk
    cmd,       \* the command being carried out, for the properties
    initiator  \* the kind of initiator

vars == <<phase, target, sel, odr, cdb, win, status, image, cmd, initiator>>

\* Operations by what they do, with their length.
CdbLengthFor ==
    [test |-> 6, inquiry |-> 6, read6 |-> 6, write6 |-> 6, bad6 |-> 6,
     sync |-> 10, capacity |-> 10, read10 |-> 10, write10 |-> 10, bad12 |-> 12]
Ops == DOMAIN CdbLengthFor
Reads == {"read6", "read10"}
Writes == {"write6", "write10"}
NoCmd == [op |-> "none", lba |-> 0, blocks |-> 0]
NoWin == [buf |-> "none", base |-> 0, len |-> 0, pos |-> 0]

Init ==
    /\ phase = "free" /\ target = -1 /\ sel = FALSE /\ odr = {}
    /\ cdb = [op |-> "none", pos |-> 0] /\ win = NoWin /\ status = "good"
    /\ image = [id \in Ids |-> [b \in Bytes(id) |-> 0]]
    /\ cmd = NoCmd
    /\ initiator \in {"driver", "any"}

-----------------------------------------------------------------------------
\* scsi_execute and its helpers.

Finish(s) == phase' = "status" /\ status' = s /\ UNCHANGED win
SetData(p, buf, base, len) ==
    /\ phase' = p /\ win' = [buf |-> buf, base |-> base, len |-> len, pos |-> 0]
    /\ UNCHANGED status

\* Mutant of Count: a length of 0 is no blocks.
Count_NoZeroRule(op, n) == n

\* Blocks to move: length 0 is 256 in the six-byte commands and nothing in the others.
Count(op, n) == IF n = 0 /\ op \in {"read6", "write6"} THEN ZeroLen ELSE n

\* Mutant of OutOfRange: one block past the end is accepted.
OutOfRange_OffByOne(lba, n) == lba + n > Blocks[target] + 1

OutOfRange(lba, n) == lba + n > Blocks[target]

Refused(op, lba, k) == OutOfRange(lba, k) \/ (op \in Writes /\ target \in Protected)

Execute(op, lba, n) ==
    LET k == Count(op, n) IN
    CASE op \in {"test", "sync"} -> Finish("good")
      [] op \in {"inquiry", "capacity"} -> SetData("data_in", "reply", 0, ReplyBytes)
      [] op \in {"bad6", "bad12"} -> Finish("check")
      [] op \in Reads \cup Writes ->
             IF k = 0 THEN Finish("good")
             ELSE IF Refused(op, lba, k) THEN Finish("check")
             ELSE SetData(IF op \in Reads THEN "data_in" ELSE "data_out", "image",
                          lba * BlockBytes, k * BlockBytes)

\* The blocks that a command names, by the SCSI standard.
Named(op, n) == IF n = 0 /\ CdbLengthFor[op] = 6 THEN ZeroLen ELSE n

\* scsi_recv_cdb_byte.
RecvCdbByte ==
    \E op \in IF cdb.pos = 0 THEN Ops ELSE {cdb.op} :
        /\ cdb' = [op |-> op, pos |-> cdb.pos + 1]
        /\ IF cdb'.pos < CdbLengthFor[op]
           THEN UNCHANGED <<phase, win, status, cmd>>
           ELSE \E lba \in 0 .. MaxLba, n \in 0 .. MaxLen :
                    /\ Execute(op, lba, n)
                    /\ cmd' = [op |-> op, lba |-> lba, blocks |-> Named(op, n)]
        /\ UNCHANGED <<target, image>>

\* One byte of a data phase; the last one ends it.
Moved(w) == w.pos + 1 >= w.len
\* Mutant of Advance: the last data byte leads to the message, not to the status.
Advance_SkipsStatus ==
    /\ win' = [win EXCEPT !.pos = @ + 1]
    /\ IF Moved(win) THEN phase' = "message" /\ status' = "good"
       ELSE UNCHANGED <<phase, status>>

Advance ==
    /\ win' = [win EXCEPT !.pos = @ + 1]
    /\ IF Moved(win) THEN phase' = "status" /\ status' = "good"
       ELSE UNCHANGED <<phase, status>>

\* From the message byte, a selection or a reset on, nothing reads the transfer and
\* the status of the old command: the next command sets them before it uses them.
Forget == win' = NoWin /\ status' = "good" /\ cmd' = NoCmd

-----------------------------------------------------------------------------
\* Register accesses.

\* A write to register 0: the selection's ids, a byte of the command or of the data.
WriteOdr ==
    /\ initiator = "driver" => phase \in {"free", "command", "data_out"}
    /\ odr' \in SUBSET Ids
    /\ \/ /\ phase = "data_out" /\ win.pos < win.len
          /\ \E v \in 0 .. 1 : image' = [image EXCEPT ![target][win.base + win.pos] = v]
          /\ Advance
          /\ UNCHANGED <<target, cdb, cmd>>
       \/ phase = "command" /\ RecvCdbByte
       \/ /\ phase # "command" /\ ~(phase = "data_out" /\ win.pos < win.len)
          /\ UNCHANGED <<phase, target, cdb, win, status, image, cmd>>
    /\ UNCHANGED <<sel, initiator>>

\* Mutant of ReadData: reading the status does not end its phase.
ReadData_StatusStays ==
    /\ initiator = "driver" => phase \in {"data_in", "status", "message"}
    /\ \/ phase = "data_in" /\ win.pos < win.len /\ Advance /\ UNCHANGED <<target, cmd>>
       \/ phase = "message" /\ phase' = "free" /\ target' = -1 /\ Forget
    /\ UNCHANGED <<sel, odr, cdb, image, initiator>>

\* A read of register 0 or 6.
ReadData ==
    /\ initiator = "driver" => phase \in {"data_in", "status", "message"}
    /\ \/ phase = "data_in" /\ win.pos < win.len /\ Advance /\ UNCHANGED <<target, cmd>>
       \/ phase = "status" /\ phase' = "message" /\ UNCHANGED <<target, win, status, cmd>>
       \/ phase = "message" /\ phase' = "free" /\ target' = -1 /\ Forget
    /\ UNCHANGED <<sel, odr, cdb, image, initiator>>

\* scsi_select: the first id whose bit is set and whose disk is there.
Selected == CHOOSE id \in odr : Present(id) /\ \A j \in odr : Present(j) => id <= j
Responds == \E id \in odr : Present(id)

\* A write to register 1.  A reset comes after a selection.
WriteIcr ==
    \E s, bsy, rst \in BOOLEAN :
        LET selects == s /\ ~sel /\ ~bsy IN
        /\ initiator = "driver" => ~rst /\ (phase = "free" \/ ~s)
        /\ sel' = s
        /\ \/ selects /\ Responds /\ ~rst /\ phase' = "command" /\ target' = Selected
           \/ (rst \/ (selects /\ ~Responds)) /\ phase' = "free" /\ target' = -1
           \/ ~rst /\ ~selects /\ UNCHANGED <<phase, target>>
        /\ cdb' = IF selects /\ Responds THEN [op |-> "none", pos |-> 0] ELSE cdb
        /\ IF rst \/ selects THEN Forget ELSE UNCHANGED <<win, status, cmd>>
        /\ UNCHANGED <<odr, image, initiator>>

Next == WriteOdr \/ ReadData \/ WriteIcr

Spec == Init /\ [][Next]_vars

\* A driver polls the bus status and moves the byte that the phase asks for.
Fairness ==
    /\ WF_vars(initiator = "driver" /\ phase \in {"command", "data_out"} /\ WriteOdr)
    /\ WF_vars(initiator = "driver" /\ ReadData)

FairSpec == Spec /\ Fairness

-----------------------------------------------------------------------------
TypeOK ==
    /\ phase \in {"free", "command", "data_in", "data_out", "status", "message"}
    /\ target \in Ids \cup {-1} /\ sel \in BOOLEAN /\ odr \subseteq Ids
    /\ cdb.pos \in 0 .. 12 /\ cdb.op \in Ops \cup {"none"}
    /\ win.buf \in {"none", "image", "reply"} /\ win.pos \in 0 .. win.len
    /\ status \in {"good", "check"}
    /\ image \in [Ids -> UNION {[Bytes(id) -> 0 .. 1] : id \in Ids}]

\* Whatever registers the guest writes, a target holds the bus exactly outside BUS
\* FREE, and it is a disk that is attached.
TargetHoldsBus == (phase = "free") = (target = -1) /\ (target # -1 => Present(target))

\* A data phase always asks for a byte that exists: the initiator that polls REQ is
\* never left in a data phase with nothing to move, and the bytes lie in the reply
\* or inside the image of the selected target.
TransferInside ==
    phase \in {"data_in", "data_out"} =>
        /\ win.pos < win.len
        /\ win.buf = "image" => win.base + win.len <= Blocks[target] * BlockBytes
        /\ phase = "data_out" => win.buf = "image"

\* Whatever registers the guest touches, the target that holds the bus moves bytes
\* that exist (bus_status, reg_read, reg_write and scsi_execute together).
TransferSound == TypeOK /\ TargetHoldsBus /\ TransferInside

\* A disk changes only in the blocks that the WRITE it was sent names, and a
\* write-protected one never.
OnlyWritesChange ==
    \A id \in Ids : \A b \in Bytes(id) : image'[id][b] # image[id][b] =>
        /\ id = target /\ id \notin Protected /\ cmd.op \in Writes
        /\ b \in (cmd.lba * BlockBytes) .. ((cmd.lba + cmd.blocks) * BlockBytes - 1)

\* GOOD status after a READ or a WRITE means that every byte was moved.
GoodMeansMoved ==
    phase \in {"status", "message"} /\ status = "good" /\ cmd.op \in Reads \cup Writes =>
        cmd.blocks = 0 \/ win = [buf |-> "image", base |-> cmd.lba * BlockBytes,
                                 len |-> cmd.blocks * BlockBytes, pos |-> cmd.blocks * BlockBytes]

\* Disks change as they are told to and no other way, and GOOD is the truth: no
\* step of the controller breaks either (scsi_execute, reg_write, reg_read).
DiskExact == [][OnlyWritesChange /\ GoodMeansMoved']_vars

\* The controller keeps the order of the bus phases and the announced lengths.
MaxBytes == LET all == {ReplyBytes} \cup {Blocks[id] * BlockBytes : id \in Ids}
            IN  CHOOSE n \in all : \A k \in all : k <= n
Bus == INSTANCE ScsiBus WITH
    left <- IF phase \in {"data_in", "data_out"} THEN win.len - win.pos ELSE 0,
    failed <- phase \in {"status", "message"} /\ status = "check"
ImplementsScsiBus == Bus!Spec

\* A driver that follows the phases gets every command to its end.
CommandsEnd == (initiator = "driver" /\ phase = "command") ~> phase = "free"
=============================================================================
