----------------------------- MODULE DiskProofs -----------------------------
(***************************************************************************)
(* The two disk drivers.                                                   *)
(*                                                                         *)
(* The SCSI controller, for every set of disks, block size and command and *)
(* for an initiator that writes any register at any moment: the target     *)
(* moves bytes that exist, disks change only as a WRITE tells them to,     *)
(* GOOD is the truth, and the phases keep the order of the bus.            *)
(* TransferSound says nothing of what a data phase is for, so it is not    *)
(* inductive: DataPhase ties the window to the command that opened it, and *)
(* CommandPhase bounds the bytes of a command that is still arriving.      *)
(*                                                                         *)
(* The Sony driver, for every number of drives, every disk size and every  *)
(* request: driver and drive variables agree about what is mounted, and    *)
(* transfers are exact.  MountsSound is not inductive: that a drive which  *)
(* is mounted and off line has its callback under way is only kept because *)
(* nothing is mounted before the driver is open, and only disks that are   *)
(* inserted ever are.                                                      *)
(***************************************************************************)
EXTENDS Scsi, Sony, SequenceTheorems, TLAPS

-----------------------------------------------------------------------------
\* The SCSI controller.

Phases == {"free", "command", "data_in", "data_out", "status", "message"}
Win == [buf : {"none", "image", "reply"}, base : Nat, len : Nat, pos : Nat]
Cmd == [op : Ops \cup {"none"}, lba : Nat, blocks : Nat]

Contents == UNION {[Bytes(id) -> 0 .. 1] : id \in Ids}

Typed ==
    /\ phase \in Phases /\ target \in Ids \cup {-1} /\ sel \in BOOLEAN /\ odr \subseteq Ids
    /\ cdb \in [op : Ops \cup {"none"}, pos : 0 .. 12]
    /\ win \in Win /\ win.pos <= win.len
    /\ status \in {"good", "check"}
    /\ cmd \in Cmd
    /\ image \in [Ids -> Contents] /\ \A id \in Ids : image[id] \in [Bytes(id) -> 0 .. 1]

\* A command that is still arriving is shorter than its length.
CommandPhase ==
    phase = "command" => cdb.pos = 0 \/ (cdb.op \in Ops /\ cdb.pos < CdbLengthFor[cdb.op])

\* A data phase moves a reply, or the blocks that the command named and that the
\* disk has; bytes are taken for a WRITE to an unprotected disk only.
DataPhase ==
    phase \in {"data_in", "data_out"} =>
        /\ win.pos < win.len
        /\ win.buf = "image" =>
              /\ win.base = cmd.lba * BlockBytes /\ win.len = cmd.blocks * BlockBytes
              /\ win.base + win.len <= Blocks[target] * BlockBytes
        /\ cmd.op \in Reads \cup Writes => win.buf = "image"
        /\ phase = "data_out" => /\ win.buf = "image" /\ cmd.op \in Writes
                                 /\ target \notin Protected

Inv == Typed /\ TargetHoldsBus /\ CommandPhase /\ DataPhase /\ GoodMeansMoved

-----------------------------------------------------------------------------
(* Constants and operators *)

\* The assumptions on the constants, in the form the proofs use.
LEMMA ConstantFacts ==
    /\ Ids \subseteq 0 .. 6 /\ -1 \notin Ids /\ \A id \in Ids : Blocks[id] \in Nat
    /\ BlockBytes \in Nat \ {0} /\ ReplyBytes \in Nat \ {0} /\ ZeroLen \in Nat \ {0}
    /\ MaxLba \in Nat /\ MaxLen \in Nat
BY ScsiAssumption

\* The operations and the lengths of their commands.
LEMMA CommandLengths ==
    /\ Ops = {"test", "inquiry", "read6", "write6", "bad6",
              "sync", "capacity", "read10", "write10", "bad12"}
    /\ \A op \in Ops : CdbLengthFor[op] \in 1 .. 12
    /\ CdbLengthFor["read6"] = 6 /\ CdbLengthFor["write6"] = 6
    /\ CdbLengthFor["read10"] = 10 /\ CdbLengthFor["write10"] = 10
    /\ Reads \subseteq Ops /\ Writes \subseteq Ops
BY DEF Ops, CdbLengthFor, Reads, Writes

\* For a READ or a WRITE the controller counts the blocks that the standard names.
LEMMA CountIsNamed ==
    ASSUME NEW op \in Reads \cup Writes, NEW n \in Nat
    PROVE  Count(op, n) = Named(op, n) /\ Named(op, n) \in Nat
BY CommandLengths, ConstantFacts DEF Count, Named, Reads, Writes

\* Blocks inside a disk are bytes inside it.
LEMMA BlocksAreBytes ==
    ASSUME NEW a \in Nat, NEW b \in Nat, NEW c \in Nat, NEW m \in Nat, a + b <= c
    PROVE  a * m + b * m <= c * m /\ (a + b) * m = a * m + b * m
OBVIOUS

\* A nonempty set of SCSI ids has a first one, so scsi_select finds its target.
LEMMA FirstId ==
    ASSUME NEW S, S \subseteq 0 .. 6, S # {}
    PROVE  \E m \in S : \A k \in S : m <= k
<1>1. CASE 0 \in S
  BY <1>1
<1>2. CASE 0 \notin S /\ 1 \in S
  BY <1>2
<1>3. CASE {0, 1} \cap S = {} /\ 2 \in S
  BY <1>3
<1>4. CASE {0, 1, 2} \cap S = {} /\ 3 \in S
  BY <1>4
<1>5. CASE {0, 1, 2, 3} \cap S = {} /\ 4 \in S
  BY <1>5
<1>6. CASE {0, 1, 2, 3, 4} \cap S = {} /\ 5 \in S
  BY <1>6
<1>7. CASE {0, 1, 2, 3, 4, 5} \cap S = {} /\ 6 \in S
  BY <1>7
<1>8. PICK k \in S : k \in 0 .. 6
  OBVIOUS
<1>9. k = 0 \/ k = 1 \/ k = 2 \/ k = 3 \/ k = 4 \/ k = 5 \/ k = 6
  BY <1>8
<1> QED BY <1>1, <1>2, <1>3, <1>4, <1>5, <1>6, <1>7, <1>9

\* scsi_select takes a disk that is attached.
LEMMA SelectedIsPresent ==
    ASSUME odr \subseteq Ids, Responds PROVE Selected \in Ids /\ Present(Selected)
<1> DEFINE S == {id \in odr : Present(id)}
<1>1. S \subseteq 0 .. 6 /\ S # {}
  BY ConstantFacts DEF Responds
<1>2. PICK m \in S : \A k \in S : m <= k
  BY <1>1, FirstId
<1>3. \E id \in odr : Present(id) /\ \A j \in odr : Present(j) => id <= j
  BY <1>2
<1> QED BY <1>3 DEF Selected

-----------------------------------------------------------------------------
(* The steps *)

\* After power-on the bus is free and nothing is under way.
LEMMA InitInv == Init => Inv
<1> SUFFICES ASSUME Init PROVE Inv
  OBVIOUS
<1>1. /\ phase = "free" /\ target = -1 /\ sel = FALSE /\ odr = {} /\ status = "good"
      /\ cdb = [op |-> "none", pos |-> 0] /\ win = NoWin /\ cmd = NoCmd
      /\ image = [id \in Ids |-> [b \in Bytes(id) |-> 0]]
  BY DEF Init
<1>2. win \in Win /\ win.pos <= win.len /\ cmd \in Cmd
  BY <1>1 DEF NoWin, NoCmd, Win, Cmd
<1>3. image \in [Ids -> Contents] /\ \A id \in Ids : image[id] \in [Bytes(id) -> 0 .. 1]
  <2>1. \A id \in Ids : [b \in Bytes(id) |-> 0] \in Contents
    BY DEF Contents
  <2> QED BY <2>1, <1>1
<1>4. cdb \in [op : Ops \cup {"none"}, pos : 0 .. 12]
  BY <1>1
<1>5. Typed
  BY <1>1, <1>2, <1>3, <1>4 DEF Typed, Phases
<1> QED BY <1>1, <1>5 DEF Inv, TargetHoldsBus, CommandPhase, DataPhase, GoodMeansMoved

\* scsi_execute: a data phase is opened for bytes that exist and that the command
\* names, and GOOD without one means that there was nothing to move.
LEMMA ExecuteKeeps ==
    ASSUME Inv, phase = "command", UNCHANGED target,
           NEW op \in Ops, NEW lba \in 0 .. MaxLba, NEW n \in 0 .. MaxLen,
           Execute(op, lba, n), cmd' = [op |-> op, lba |-> lba, blocks |-> Named(op, n)]
    PROVE  /\ phase' \in {"data_in", "data_out", "status"}
           /\ win' \in Win /\ win'.pos <= win'.len /\ cmd' \in Cmd
           /\ status' \in {"good", "check"}
           /\ DataPhase' /\ GoodMeansMoved'
           /\ phase' # "status" => win'.pos = 0 /\ (win'.buf = "image" \/ win'.len = ReplyBytes)
<1> DEFINE k == Count(op, n)
<1>1. lba \in Nat /\ n \in Nat
  BY ConstantFacts
<1>2. target \in Ids /\ Blocks[target] \in Nat
  BY ConstantFacts DEF Inv, Typed, TargetHoldsBus
<1>3. cmd' \in Cmd /\ cmd'.op = op /\ cmd'.lba = lba /\ cmd'.blocks = Named(op, n)
  BY <1>1, ConstantFacts DEF Cmd, Named
<1>4. ASSUME NEW s \in {"good", "check"}, Finish(s),
             s = "good" /\ op \in Reads \cup Writes => Named(op, n) = 0
      PROVE  /\ phase' = "status" /\ win' \in Win /\ win'.pos <= win'.len
             /\ status' \in {"good", "check"} /\ DataPhase' /\ GoodMeansMoved'
  BY <1>3, <1>4 DEF Finish, Inv, Typed, DataPhase, GoodMeansMoved
<1>5. CASE op \in {"test", "sync"}
  <2>1. Finish("good")
    BY <1>5 DEF Execute, Reads, Writes
  <2> QED BY <2>1, <1>3, <1>4, <1>5 DEF Reads, Writes
<1>6. CASE op \in {"bad6", "bad12"}
  <2>1. Finish("check")
    BY <1>6 DEF Execute, Reads, Writes
  <2> QED BY <2>1, <1>3, <1>4, <1>6
<1>7. CASE op \in {"inquiry", "capacity"}
  <2>1. /\ phase' = "data_in" /\ status' = status
        /\ win' = [buf |-> "reply", base |-> 0, len |-> ReplyBytes, pos |-> 0]
    BY <1>7 DEF Execute, SetData, Reads, Writes
  <2>2. win' \in Win /\ win'.pos = 0 /\ win'.len = ReplyBytes /\ win'.buf = "reply"
    BY <2>1, ConstantFacts DEF Win
  <2>3. op \notin Reads \cup Writes
    BY <1>7 DEF Reads, Writes
  <2> QED BY <2>1, <2>2, <2>3, <1>3, ConstantFacts DEF Inv, Typed, DataPhase, GoodMeansMoved
<1>8. CASE op \in Reads \cup Writes
  <2>1. k = Named(op, n) /\ k \in Nat
    BY <1>1, <1>8, CountIsNamed
  <2>2. IF k = 0 THEN Finish("good")
        ELSE IF Refused(op, lba, k) THEN Finish("check")
        ELSE SetData(IF op \in Reads THEN "data_in" ELSE "data_out", "image",
                     lba * BlockBytes, k * BlockBytes)
    BY <1>8 DEF Execute, Reads, Writes
  <2>3. CASE k = 0
    BY <2>1, <2>2, <2>3, <1>3, <1>4
  <2>4. CASE k # 0 /\ Refused(op, lba, k)
    BY <2>2, <2>4, <1>3, <1>4
  <2>5. CASE k # 0 /\ ~Refused(op, lba, k)
    <3>1. /\ phase' = IF op \in Reads THEN "data_in" ELSE "data_out"
          /\ win' = [buf |-> "image", base |-> lba * BlockBytes, len |-> k * BlockBytes, pos |-> 0]
          /\ status' = status
      BY <2>2, <2>5 DEF SetData
    <3>2. lba + k <= Blocks[target] /\ (op \in Writes => target \notin Protected)
      BY <2>1, <2>5, <1>1, <1>2 DEF Refused, OutOfRange
    <3>3. lba * BlockBytes \in Nat /\ k * BlockBytes \in Nat /\ k * BlockBytes > 0
      BY <2>1, <2>5, <1>1, ConstantFacts
    <3>4. lba * BlockBytes + k * BlockBytes <= Blocks[target] * BlockBytes
      BY <3>2, <2>1, <1>1, <1>2, ConstantFacts, BlocksAreBytes
    <3>5. /\ win' \in Win /\ win'.buf = "image" /\ win'.pos = 0
          /\ win'.base = lba * BlockBytes /\ win'.len = k * BlockBytes
      BY <3>1, <3>3 DEF Win
    <3>6. op \in Reads \/ (op \in Writes /\ op \notin Reads)
      BY <1>8 DEF Reads, Writes
    <3>7. phase' \in {"data_in", "data_out"} /\ (phase' = "data_out" => op \in Writes)
      BY <3>1, <3>6
    <3>8. DataPhase'
      BY <3>2, <3>3, <3>4, <3>5, <3>7, <2>1, <1>3 DEF DataPhase
    <3>9. GoodMeansMoved'
      BY <3>7 DEF GoodMeansMoved
    <3> QED BY <3>1, <3>3, <3>5, <3>7, <3>8, <3>9, <1>3 DEF Inv, Typed
  <2> QED BY <2>3, <2>4, <2>5
<1>9. op \in {"test", "sync"} \/ op \in {"bad6", "bad12"} \/ op \in {"inquiry", "capacity"}
      \/ op \in Reads \cup Writes
  BY CommandLengths DEF Reads, Writes
<1> QED BY <1>5, <1>6, <1>7, <1>8, <1>9

\* A byte of a data phase: after the last one every byte of the window was moved.
LEMMA AdvanceKeeps ==
    ASSUME Inv, phase \in {"data_in", "data_out"}, Advance, UNCHANGED <<target, cmd>>
    PROVE  /\ phase' \in {phase, "status"} /\ win' \in Win /\ win'.pos <= win'.len
           /\ win'.len = win.len /\ win'.pos = win.pos + 1
           /\ (phase' = "status" <=> win'.pos = win'.len)
           /\ status' \in {"good", "check"} /\ (phase' = "status" => status' = "good")
           /\ DataPhase' /\ GoodMeansMoved'
<1>1. win \in Win /\ win.pos < win.len /\ win.pos \in Nat /\ win.len \in Nat
  BY DEF Inv, Typed, DataPhase, Win
<1>2. /\ win' \in Win /\ win'.pos = win.pos + 1 /\ win'.len = win.len
      /\ win'.base = win.base /\ win'.buf = win.buf
  BY <1>1 DEF Advance, Win
<1>3. CASE Moved(win)
  <2>1. phase' = "status" /\ status' = "good" /\ win'.pos = win.len
    BY <1>1, <1>2, <1>3 DEF Advance, Moved
  <2>2. DataPhase'
    BY <2>1 DEF DataPhase
  <2>3. ASSUME cmd.op \in Reads \cup Writes
        PROVE  win' = [buf |-> "image", base |-> cmd.lba * BlockBytes,
                       len |-> cmd.blocks * BlockBytes, pos |-> cmd.blocks * BlockBytes]
    <3>1. /\ win.buf = "image" /\ win.base = cmd.lba * BlockBytes
          /\ win.len = cmd.blocks * BlockBytes
      BY <2>3 DEF Inv, DataPhase
    <3> QED BY <3>1, <2>1, <1>2 DEF Win
  <2>4. GoodMeansMoved'
    BY <2>3 DEF GoodMeansMoved
  <2>5. win'.pos = win'.len
    BY <2>1, <1>2
  <2>6. win'.pos <= win'.len
    BY <2>5, <1>1, <1>2
  <2> QED BY <2>1, <2>2, <2>4, <2>5, <2>6, <1>1, <1>2
<1>4. CASE ~Moved(win)
  <2>1. phase' = phase /\ status' = status /\ win'.pos < win'.len
    BY <1>1, <1>2, <1>4 DEF Advance, Moved
  <2>2. DataPhase'
    BY <2>1, <1>2 DEF Inv, DataPhase
  <2>3. GoodMeansMoved'
    BY <2>1 DEF GoodMeansMoved
  <2>4. win'.pos # win'.len /\ phase' # "status" /\ status' \in {"good", "check"}
    BY <2>1, <1>1, <1>2 DEF Inv, Typed
  <2> QED BY <2>1, <2>2, <2>3, <2>4, <1>1, <1>2
<1> QED BY <1>3, <1>4

\* A byte of the data phase of a WRITE goes to a block that the command names, on a
\* disk that is not protected.
LEMMA StoreKeeps ==
    ASSUME Inv, phase = "data_out", NEW v \in 0 .. 1,
           image' = [image EXCEPT ![target][win.base + win.pos] = v]
    PROVE  /\ image' \in [Ids -> Contents] /\ \A id \in Ids : image'[id] \in [Bytes(id) -> 0 .. 1]
           /\ OnlyWritesChange
<1> DEFINE b == win.base + win.pos
<1>1. /\ target \in Ids /\ Blocks[target] \in Nat /\ BlockBytes \in Nat
      /\ target \notin Protected /\ cmd.op \in Writes
  BY ConstantFacts DEF Inv, Typed, TargetHoldsBus, DataPhase
<1>2. /\ win.base \in Nat /\ win.pos \in Nat /\ win.len \in Nat /\ win.pos < win.len
      /\ cmd.lba \in Nat /\ cmd.blocks \in Nat
      /\ win.base = cmd.lba * BlockBytes /\ win.len = cmd.blocks * BlockBytes
      /\ win.base + win.len <= Blocks[target] * BlockBytes
  BY DEF Inv, Typed, DataPhase, Win, Cmd
<1>3. Blocks[target] * BlockBytes \in Nat
  BY <1>1
<1>4. (cmd.lba + cmd.blocks) * BlockBytes = win.base + win.len
  BY <1>1, <1>2, BlocksAreBytes
<1>5. b \in Bytes(target)
  BY <1>2, <1>3 DEF Bytes
<1>6. b \in (cmd.lba * BlockBytes) .. ((cmd.lba + cmd.blocks) * BlockBytes - 1)
  BY <1>2, <1>4
<1> HIDE DEF b
<1>7. image \in [Ids -> Contents] /\ image[target] \in [Bytes(target) -> 0 .. 1]
  BY <1>1 DEF Inv, Typed
<1> DEFINE new == [image[target] EXCEPT ![b] = v]
<1>8. image' = [image EXCEPT ![target] = new]
  BY DEF b
<1>9. new \in [Bytes(target) -> 0 .. 1] /\ \A c \in Bytes(target) : c # b => new[c] = image[target][c]
  BY <1>5, <1>7
<1>10. new \in Contents
  BY <1>1, <1>9 DEF Contents
<1> HIDE DEF new
<1>11. /\ image' \in [Ids -> Contents] /\ image'[target] = new
       /\ \A id \in Ids \ {target} : image'[id] = image[id]
  BY <1>1, <1>7, <1>8, <1>10
<1>12. OnlyWritesChange
  BY <1>1, <1>6, <1>9, <1>11 DEF OnlyWritesChange
<1> QED BY <1>9, <1>11, <1>12 DEF Inv, Typed

\* A write of the output data register, whatever the phase.
LEMMA WriteOdrKeeps ==
    ASSUME Inv, WriteOdr PROVE Inv' /\ OnlyWritesChange
<1>1. odr' \subseteq Ids /\ sel' = sel
  BY DEF WriteOdr
<1>2. CASE /\ phase = "data_out" /\ win.pos < win.len
           /\ \E v \in 0 .. 1 : image' = [image EXCEPT ![target][win.base + win.pos] = v]
           /\ Advance /\ UNCHANGED <<target, cdb, cmd>>
  <2>1. /\ image' \in [Ids -> Contents] /\ \A id \in Ids : image'[id] \in [Bytes(id) -> 0 .. 1]
        /\ OnlyWritesChange
    BY <1>2, StoreKeeps
  <2>2. /\ phase' \in {"data_out", "status"} /\ win' \in Win /\ win'.pos <= win'.len
        /\ status' \in {"good", "check"} /\ DataPhase' /\ GoodMeansMoved'
    BY <1>2, AdvanceKeeps
  <2>3. Typed'
    BY <2>1, <2>2, <1>1, <1>2 DEF Inv, Typed, Phases
  <2>4. TargetHoldsBus' /\ CommandPhase'
    BY <2>2, <1>2 DEF Inv, TargetHoldsBus, CommandPhase, Present
  <2> QED BY <2>1, <2>2, <2>3, <2>4 DEF Inv
<1>3. CASE phase = "command" /\ RecvCdbByte
  <2>1. target' = target /\ image' = image
    BY <1>3 DEF RecvCdbByte
  <2>2. OnlyWritesChange
    BY <2>1 DEF OnlyWritesChange
  <2>3. PICK op \in IF cdb.pos = 0 THEN Ops ELSE {cdb.op} :
          /\ cdb' = [op |-> op, pos |-> cdb.pos + 1]
          /\ IF cdb'.pos < CdbLengthFor[op]
             THEN UNCHANGED <<phase, win, status, cmd>>
             ELSE \E lba \in 0 .. MaxLba, n \in 0 .. MaxLen :
                      /\ Execute(op, lba, n)
                      /\ cmd' = [op |-> op, lba |-> lba, blocks |-> Named(op, n)]
    BY <1>3 DEF RecvCdbByte
  <2>4. op \in Ops /\ CdbLengthFor[op] \in 1 .. 12 /\ cdb.pos < CdbLengthFor[op] /\ cdb.pos \in Nat
    <3>1. CASE cdb.pos = 0
      BY <3>1, <2>3, CommandLengths
    <3>2. CASE cdb.pos # 0
      BY <3>2, <2>3, <1>3, CommandLengths DEF Inv, Typed, CommandPhase
    <3> QED BY <3>1, <3>2
  <2>5. cdb'.op = op /\ cdb'.pos = cdb.pos + 1 /\ cdb' \in [op : Ops \cup {"none"}, pos : 0 .. 12]
    BY <2>3, <2>4
  <2>6. CASE cdb'.pos < CdbLengthFor[op]
    <3>1. UNCHANGED <<phase, win, status, cmd>>
      BY <2>3, <2>6
    <3>2. Typed'
      BY <3>1, <2>1, <2>5, <1>1 DEF Inv, Typed
    <3>3. CommandPhase'
      BY <2>4, <2>5, <2>6 DEF CommandPhase
    <3>4. TargetHoldsBus' /\ DataPhase' /\ GoodMeansMoved'
      BY <3>1, <2>1 DEF Inv, TargetHoldsBus, DataPhase, GoodMeansMoved, Present
    <3> QED BY <3>2, <3>3, <3>4, <2>2 DEF Inv
  <2>7. CASE ~(cdb'.pos < CdbLengthFor[op])
    <3>1. PICK lba \in 0 .. MaxLba, n \in 0 .. MaxLen :
              Execute(op, lba, n) /\ cmd' = [op |-> op, lba |-> lba, blocks |-> Named(op, n)]
      BY <2>3, <2>7
    <3>2. /\ phase' \in {"data_in", "data_out", "status"}
          /\ win' \in Win /\ win'.pos <= win'.len /\ cmd' \in Cmd
          /\ status' \in {"good", "check"} /\ DataPhase' /\ GoodMeansMoved'
      BY <3>1, <2>1, <2>4, <1>3, ExecuteKeeps
    <3>3. Typed'
      BY <3>2, <2>1, <2>5, <1>1 DEF Inv, Typed, Phases
    <3>4. TargetHoldsBus' /\ CommandPhase'
      BY <3>2, <2>1, <1>3 DEF Inv, TargetHoldsBus, CommandPhase, Present
    <3> QED BY <3>2, <3>3, <3>4, <2>2 DEF Inv
  <2> QED BY <2>6, <2>7
<1>4. CASE UNCHANGED <<phase, target, cdb, win, status, image, cmd>>
  BY <1>1, <1>4 DEF Inv, Typed, TargetHoldsBus, CommandPhase, DataPhase, GoodMeansMoved,
                    OnlyWritesChange, Present
<1> QED BY <1>2, <1>3, <1>4 DEF WriteOdr

\* What a selection, a reset and the message byte leave behind is as good as new.
LEMMA ForgetKeeps ==
    ASSUME Forget, phase' \in {"free", "command"}
    PROVE  /\ win' \in Win /\ win'.pos <= win'.len /\ cmd' \in Cmd /\ status' = "good"
           /\ DataPhase' /\ GoodMeansMoved'
<1>1. win' = NoWin /\ cmd' = NoCmd /\ status' = "good"
  BY DEF Forget
<1>2. win' \in Win /\ win'.pos <= win'.len /\ cmd' \in Cmd
  BY <1>1 DEF NoWin, NoCmd, Win, Cmd
<1> QED BY <1>1, <1>2 DEF DataPhase, GoodMeansMoved

\* A read of the data register, whatever the phase.
LEMMA ReadDataKeeps ==
    ASSUME Inv, ReadData PROVE Inv' /\ OnlyWritesChange
<1>1. sel' = sel /\ odr' = odr /\ cdb' = cdb /\ image' = image
  BY DEF ReadData
<1>2. OnlyWritesChange
  BY <1>1 DEF OnlyWritesChange
<1>3. CASE phase = "data_in" /\ Advance /\ UNCHANGED <<target, cmd>>
  <2>1. /\ phase' \in {"data_in", "status"} /\ win' \in Win /\ win'.pos <= win'.len
        /\ status' \in {"good", "check"} /\ DataPhase' /\ GoodMeansMoved'
    BY <1>3, AdvanceKeeps
  <2>2. Typed'
    BY <2>1, <1>1, <1>3 DEF Inv, Typed, Phases
  <2>3. TargetHoldsBus' /\ CommandPhase'
    BY <2>1, <1>3 DEF Inv, TargetHoldsBus, CommandPhase, Present
  <2> QED BY <2>1, <2>2, <2>3, <1>2 DEF Inv
<1>4. CASE phase = "status" /\ phase' = "message" /\ UNCHANGED <<target, win, status, cmd>>
  BY <1>1, <1>2, <1>4 DEF Inv, Typed, Phases, TargetHoldsBus, CommandPhase, DataPhase,
                          GoodMeansMoved, Present
<1>5. CASE phase = "message" /\ phase' = "free" /\ target' = -1 /\ Forget
  <2>1. /\ win' \in Win /\ win'.pos <= win'.len /\ cmd' \in Cmd /\ status' = "good"
        /\ DataPhase' /\ GoodMeansMoved'
    BY <1>5, ForgetKeeps
  <2>2. Typed'
    BY <2>1, <1>1, <1>5 DEF Inv, Typed, Phases
  <2>3. TargetHoldsBus' /\ CommandPhase'
    BY <1>5 DEF TargetHoldsBus, CommandPhase
  <2> QED BY <2>1, <2>2, <2>3, <1>2 DEF Inv
<1> QED BY <1>3, <1>4, <1>5 DEF ReadData

\* A selection or a reset, in the middle of whatever was going on.
LEMMA WriteIcrKeeps ==
    ASSUME Inv, WriteIcr PROVE Inv' /\ OnlyWritesChange
<1>1. PICK s \in BOOLEAN, bsy \in BOOLEAN, rst \in BOOLEAN :
        LET selects == s /\ ~sel /\ ~bsy IN
        /\ sel' = s
        /\ \/ selects /\ Responds /\ ~rst /\ phase' = "command" /\ target' = Selected
           \/ (rst \/ (selects /\ ~Responds)) /\ phase' = "free" /\ target' = -1
           \/ ~rst /\ ~selects /\ UNCHANGED <<phase, target>>
        /\ cdb' = IF selects /\ Responds THEN [op |-> "none", pos |-> 0] ELSE cdb
        /\ IF rst \/ selects THEN Forget ELSE UNCHANGED <<win, status, cmd>>
        /\ UNCHANGED <<odr, image, initiator>>
  BY DEF WriteIcr
<1> DEFINE selects == s /\ ~sel /\ ~bsy
<1>2. odr' = odr /\ image' = image /\ sel' \in BOOLEAN
  BY <1>1
<1>3. OnlyWritesChange
  BY <1>2 DEF OnlyWritesChange
<1>4. cdb' \in [op : Ops \cup {"none"}, pos : 0 .. 12]
  <2>1. cdb' = [op |-> "none", pos |-> 0] \/ cdb' = cdb
    BY <1>1
  <2> QED BY <2>1 DEF Inv, Typed
<1>5. CASE selects /\ Responds /\ ~rst
  <2>1. phase' = "command" /\ target' = Selected /\ cdb' = [op |-> "none", pos |-> 0] /\ Forget
    BY <1>1, <1>5
  <2>2. Selected \in Ids /\ Present(Selected)
    BY <1>5, SelectedIsPresent DEF Inv, Typed
  <2>3. /\ win' \in Win /\ win'.pos <= win'.len /\ cmd' \in Cmd /\ status' = "good"
        /\ DataPhase' /\ GoodMeansMoved'
    BY <2>1, ForgetKeeps
  <2>4. Typed'
    BY <2>1, <2>2, <2>3, <1>2, <1>4 DEF Inv, Typed, Phases
  <2>5. TargetHoldsBus' /\ CommandPhase'
    BY <2>1, <2>2, ConstantFacts DEF TargetHoldsBus, CommandPhase, Present
  <2> QED BY <2>3, <2>4, <2>5, <1>3 DEF Inv
<1>6. CASE rst \/ (selects /\ ~Responds)
  <2>1. phase' = "free" /\ target' = -1 /\ Forget
    BY <1>1, <1>6
  <2>2. /\ win' \in Win /\ win'.pos <= win'.len /\ cmd' \in Cmd /\ status' = "good"
        /\ DataPhase' /\ GoodMeansMoved'
    BY <2>1, ForgetKeeps
  <2>3. Typed'
    BY <2>1, <2>2, <1>2, <1>4 DEF Inv, Typed, Phases
  <2>4. TargetHoldsBus' /\ CommandPhase'
    BY <2>1 DEF TargetHoldsBus, CommandPhase
  <2> QED BY <2>2, <2>3, <2>4, <1>3 DEF Inv
<1>7. CASE ~rst /\ ~selects
  <2>1. UNCHANGED <<phase, target, win, status, cmd, cdb>>
    BY <1>1, <1>7
  <2> QED BY <2>1, <1>2, <1>3 DEF Inv, Typed, TargetHoldsBus, CommandPhase, DataPhase,
                                  GoodMeansMoved, Present
<1> QED BY <1>5, <1>6, <1>7

\* Every step keeps the invariant and changes disks as told.
LEMMA NextInv ==
    ASSUME Inv, [Next]_vars PROVE Inv' /\ [OnlyWritesChange]_vars
<1>1. CASE Next
  BY <1>1, WriteOdrKeeps, ReadDataKeeps, WriteIcrKeeps DEF Next
<1>2. CASE UNCHANGED vars
  BY <1>2 DEF vars, Inv, Typed, TargetHoldsBus, CommandPhase, DataPhase, GoodMeansMoved, Present
<1> QED BY <1>1, <1>2

-----------------------------------------------------------------------------
\* What the controller keeps, whatever registers the guest touches and when.
THEOREM ControllerInvariant == Spec => []Inv
<1>1. Inv /\ [Next]_vars => Inv'
  BY NextInv
<1> QED BY <1>1, InitInv, PTL DEF Spec

\* A target holds the bus exactly outside BUS FREE, and a data phase always has a byte
\* left that exists, for all disks and all commands (bus_status, reg_read, reg_write).
THEOREM TransfersAreSound == Spec => []TransferSound
<1>1. Inv => TransferSound
  <2> SUFFICES ASSUME Inv PROVE TransferSound
    OBVIOUS
  <2>1. image \in [Ids -> UNION {[Bytes(id) -> 0 .. 1] : id \in Ids}]
    BY DEF Inv, Typed, Contents
  <2>2. win.buf \in {"none", "image", "reply"} /\ win.pos \in 0 .. win.len
    BY DEF Inv, Typed, Win
  <2>3. TypeOK
    BY <2>1, <2>2 DEF Inv, Typed, TypeOK, Phases
  <2>4. TransferInside
    BY DEF Inv, DataPhase, TransferInside
  <2> QED BY <2>3, <2>4 DEF Inv, TransferSound
<1> QED BY <1>1, ControllerInvariant, PTL

\* Disks change only where a WRITE says, a protected one never, and GOOD after a READ
\* or a WRITE means that every byte was moved (scsi_execute, reg_write, reg_read).
THEOREM DisksAreExact == Spec => DiskExact
<1>1. Inv /\ [Next]_vars => [OnlyWritesChange /\ GoodMeansMoved']_vars
  <2> SUFFICES ASSUME Inv, [Next]_vars PROVE [OnlyWritesChange /\ GoodMeansMoved']_vars
    OBVIOUS
  <2>1. GoodMeansMoved'
    BY NextInv DEF Inv
  <2> QED BY <2>1, NextInv
<1> QED BY <1>1, ControllerInvariant, PTL DEF Spec, DiskExact

-----------------------------------------------------------------------------
(* The controller implements the bus *)

\* Of seven numbers one is the largest.
LEMMA LargestOfSeven ==
    ASSUME NEW f, \A i \in 0 .. 6 : f[i] \in Nat
    PROVE  \E m \in 0 .. 6 : \A i \in 0 .. 6 : f[i] <= f[m]
<1>1. PICK a \in 0 .. 1 : f[0] <= f[a] /\ f[1] <= f[a]
  OBVIOUS
<1>2. PICK b \in 0 .. 2 : f[a] <= f[b] /\ f[2] <= f[b]
  OBVIOUS
<1>3. PICK c \in 0 .. 3 : f[b] <= f[c] /\ f[3] <= f[c]
  OBVIOUS
<1>4. PICK d \in 0 .. 4 : f[c] <= f[d] /\ f[4] <= f[d]
  OBVIOUS
<1>5. PICK e \in 0 .. 5 : f[d] <= f[e] /\ f[5] <= f[e]
  OBVIOUS
<1>6. PICK m \in 0 .. 6 : f[e] <= f[m] /\ f[6] <= f[m]
  OBVIOUS
<1>7. {a, b, c, d, e, m} \subseteq 0 .. 6
  OBVIOUS
<1>8. /\ f[0] \in Nat /\ f[1] \in Nat /\ f[2] \in Nat /\ f[3] \in Nat /\ f[4] \in Nat
      /\ f[5] \in Nat /\ f[6] \in Nat /\ f[a] \in Nat /\ f[b] \in Nat /\ f[c] \in Nat
      /\ f[d] \in Nat /\ f[e] \in Nat /\ f[m] \in Nat
  BY <1>7
<1>9. /\ f[0] <= f[m] /\ f[1] <= f[m] /\ f[2] <= f[m] /\ f[3] <= f[m] /\ f[4] <= f[m]
      /\ f[5] <= f[m] /\ f[6] <= f[m]
  BY <1>1, <1>2, <1>3, <1>4, <1>5, <1>6, <1>8
<1>10. \A i \in 0 .. 6 : f[i] <= f[m]
  <2> TAKE i \in 0 .. 6
  <2>1. i = 0 \/ i = 1 \/ i = 2 \/ i = 3 \/ i = 4 \/ i = 5 \/ i = 6
    OBVIOUS
  <2> QED BY <2>1, <1>9
<1> QED BY <1>10

\* MaxBytes bounds every reply and every disk.
LEMMA MaxBytesBounds ==
    /\ MaxBytes \in Nat /\ ReplyBytes <= MaxBytes
    /\ \A id \in Ids : Blocks[id] * BlockBytes <= MaxBytes
<1> DEFINE all == {ReplyBytes} \cup {Blocks[id] * BlockBytes : id \in Ids}
           f == [i \in 0 .. 6 |-> IF i \in Ids THEN Blocks[i] * BlockBytes ELSE 0]
<1>1. \A id \in Ids : id \in 0 .. 6 /\ Blocks[id] * BlockBytes \in Nat
  BY ConstantFacts
<1>2. \A i \in 0 .. 6 : f[i] \in Nat
  BY <1>1
<1>3. PICK m \in 0 .. 6 : \A i \in 0 .. 6 : f[i] <= f[m]
  <2> HIDE DEF f
  <2> QED BY <1>2, LargestOfSeven
<1>4. \A id \in Ids : Blocks[id] * BlockBytes <= f[m] /\ f[m] \in Nat
  <2> TAKE id \in Ids
  <2>1. id \in 0 .. 6 /\ f[id] = Blocks[id] * BlockBytes
    BY <1>1
  <2>2. f[id] <= f[m] /\ f[m] \in Nat
    BY <2>1, <1>2, <1>3
  <2> QED BY <2>1, <2>2
<1>5. \E n \in all : \A k \in all : k <= n
  <2>1. CASE m \in Ids /\ f[m] >= ReplyBytes
    <3>1. f[m] \in all
      BY <2>1
    <3>2. \A k \in all : k <= f[m]
      BY <2>1, <1>2, <1>4, ConstantFacts
    <3> QED BY <3>1, <3>2
  <2>2. CASE ~(m \in Ids /\ f[m] >= ReplyBytes)
    <3>1. f[m] <= ReplyBytes /\ f[m] \in Nat
      BY <2>2, <1>2, ConstantFacts
    <3> HIDE DEF f
    <3>2. \A id \in Ids : Blocks[id] * BlockBytes <= ReplyBytes
      <4> TAKE id \in Ids
      <4>1. Blocks[id] * BlockBytes \in Nat /\ Blocks[id] * BlockBytes <= f[m] /\ f[m] \in Nat
        BY <1>1, <1>4
      <4> DEFINE b == Blocks[id] * BlockBytes
      <4> HIDE DEF b
      <4>2. b \in Nat /\ b <= f[m] /\ ReplyBytes \in Nat
        BY <4>1, ConstantFacts DEF b
      <4>3. b <= ReplyBytes
        BY <4>2, <3>1
      <4> QED BY <4>3 DEF b
    <3>3. \A k \in all : k <= ReplyBytes
      <4> TAKE k \in all
      <4>1. CASE k = ReplyBytes
        BY <4>1, ConstantFacts
      <4>2. CASE k # ReplyBytes
        <5>1. PICK id \in Ids : k = Blocks[id] * BlockBytes
          BY <4>2
        <5> QED BY <5>1, <3>2
      <4> QED BY <4>1, <4>2
    <3>4. ReplyBytes \in all
      OBVIOUS
    <3> QED BY <3>3, <3>4
  <2> QED BY <2>1, <2>2
<1> HIDE DEF f
<1>6. MaxBytes \in all /\ \A k \in all : k <= MaxBytes
  BY <1>5 DEF MaxBytes
<1> QED BY <1>1, <1>6, ConstantFacts

\* The bytes the data phase still has to move, and whether the command failed.
Left == IF phase \in {"data_in", "data_out"} THEN win.len - win.pos ELSE 0
Failed == phase \in {"status", "message"} /\ status = "check"

\* The initial state is one of the bus.
LEMMA InitBus == Init => Bus!Init
BY DEF Init, Bus!Init

\* A byte that moves is a Transfer of the bus.
LEMMA AdvanceIsTransfer ==
    ASSUME Inv, phase \in {"data_in", "data_out"}, Advance, UNCHANGED <<target, cmd>>
    PROVE  Bus!Transfer
<1>1. win.pos \in Nat /\ win.len \in Nat /\ win.pos < win.len
  BY DEF Inv, Typed, DataPhase, Win
<1>2. /\ phase' \in {phase, "status"} /\ win'.len = win.len /\ win'.pos = win.pos + 1
      /\ (phase' = "status" <=> win'.pos = win'.len) /\ (phase' = "status" => status' = "good")
  BY AdvanceKeeps
<1>3. Left = win.len - win.pos /\ Left > 0 /\ Left \in Nat
  BY <1>1 DEF Left
<1>4. Left' = Left - 1 /\ phase' = IF Left = 1 THEN "status" ELSE phase
  BY <1>1, <1>2, <1>3 DEF Left
<1>5. Failed' = Failed
  BY <1>2 DEF Failed
<1> QED BY <1>3, <1>4, <1>5 DEF Bus!Transfer, Left, Failed

\* Every step of the controller is a step of the bus, or leaves it alone.
LEMMA NextBus ==
    ASSUME Inv, [Next]_vars PROVE [Bus!Next]_Bus!busvars
<1> DEFINE Same == phase' = phase /\ target' = target /\ win' = win /\ status' = status
<1>1. ASSUME Same PROVE [Bus!Next]_Bus!busvars
  BY <1>1 DEF Bus!busvars
<1>2. ASSUME phase' = "free", target' = -1 PROVE Bus!Reset
  BY <1>2 DEF Bus!Reset
<1>3. CASE WriteOdr
  <2>1. CASE /\ phase = "data_out" /\ Advance /\ UNCHANGED <<target, cmd>>
    BY <2>1, AdvanceIsTransfer DEF Bus!Next
  <2>2. CASE phase = "command" /\ RecvCdbByte
    <3>1. target' = target
      BY <2>2 DEF RecvCdbByte
    <3>2. PICK op \in IF cdb.pos = 0 THEN Ops ELSE {cdb.op} :
            IF cdb'.pos < CdbLengthFor[op]
            THEN UNCHANGED <<phase, win, status, cmd>>
            ELSE \E lba \in 0 .. MaxLba, n \in 0 .. MaxLen :
                     /\ Execute(op, lba, n)
                     /\ cmd' = [op |-> op, lba |-> lba, blocks |-> Named(op, n)]
      BY <2>2 DEF RecvCdbByte
    <3>3. CASE UNCHANGED <<phase, win, status, cmd>>
      BY <3>1, <3>3, <1>1
    <3>4. CASE \E lba \in 0 .. MaxLba, n \in 0 .. MaxLen :
                   /\ Execute(op, lba, n)
                   /\ cmd' = [op |-> op, lba |-> lba, blocks |-> Named(op, n)]
      <4>1. op \in Ops
        BY <3>2, <2>2 DEF Inv, CommandPhase
      <4>2. phase' \in {"data_in", "data_out", "status"}
        BY <4>1, <3>1, <3>4, <2>2, ExecuteKeeps
      <4>3. phase' # "status" => win'.pos = 0 /\ win'.len \in 1 .. MaxBytes
        <5> SUFFICES ASSUME phase' # "status" PROVE win'.pos = 0 /\ win'.len \in 1 .. MaxBytes
          OBVIOUS
        <5>1. /\ win' \in Win /\ DataPhase' /\ phase' \in {"data_in", "data_out"}
              /\ win'.pos = 0 /\ (win'.buf = "image" \/ win'.len = ReplyBytes)
          BY <4>1, <4>2, <3>1, <3>4, <2>2, ExecuteKeeps
        <5>2. target \in Ids /\ Blocks[target] * BlockBytes \in Nat
          BY <2>2, ConstantFacts DEF Inv, Typed, TargetHoldsBus
        <5>3. win'.len \in Nat /\ win'.base \in Nat /\ win'.pos < win'.len
          BY <5>1 DEF Win, DataPhase
        <5>4. CASE win'.buf = "image"
          <6>1. win'.base + win'.len <= Blocks[target] * BlockBytes
            BY <5>1, <5>4, <3>1 DEF DataPhase
          <6> QED BY <6>1, <5>1, <5>2, <5>3, MaxBytesBounds
        <5>5. CASE win'.len = ReplyBytes
          BY <5>1, <5>3, <5>5, MaxBytesBounds
        <5> QED BY <5>1, <5>4, <5>5
      <4> QED BY <4>2, <4>3, <3>1, <2>2 DEF Bus!Next, Bus!Command
    <3> QED BY <3>2, <3>3, <3>4
  <2>3. CASE UNCHANGED <<phase, target, win, status>>
    BY <2>3, <1>1
  <2> QED BY <1>3, <2>1, <2>2, <2>3 DEF WriteOdr
<1>4. CASE ReadData
  <2>1. CASE phase = "data_in" /\ Advance /\ UNCHANGED <<target, cmd>>
    BY <2>1, AdvanceIsTransfer DEF Bus!Next
  <2>2. CASE phase = "status" /\ phase' = "message" /\ UNCHANGED <<target, win, status, cmd>>
    BY <2>2 DEF Bus!Next, Bus!Status
  <2>3. CASE phase = "message" /\ phase' = "free" /\ target' = -1 /\ Forget
    BY <2>3, <1>2 DEF Bus!Next
  <2> QED BY <1>4, <2>1, <2>2, <2>3 DEF ReadData
<1>5. CASE WriteIcr
  <2>1. \/ /\ Responds /\ phase' = "command" /\ target' = Selected
        \/ phase' = "free" /\ target' = -1
        \/ UNCHANGED <<phase, target, win, status>>
    BY <1>5 DEF WriteIcr
  <2>2. Responds => Selected \in Ids
    BY SelectedIsPresent DEF Inv, Typed
  <2> QED BY <2>1, <2>2, <1>1, <1>2 DEF Bus!Next, Bus!Select
<1>6. CASE UNCHANGED vars
  BY <1>1, <1>6 DEF vars
<1> QED BY <1>3, <1>4, <1>5, <1>6 DEF Next

\* Whatever the initiator does, the controller goes through the phases in the order of
\* the bus, and a data phase lasts for exactly the bytes announced, at most the largest
\* disk.
THEOREM ControllerImplementsBus == Spec => ImplementsScsiBus
<1>1. Inv /\ [Next]_vars => [Bus!Next]_Bus!busvars
  BY NextBus
<1> QED BY <1>1, InitBus, ControllerInvariant, PTL DEF Spec, ImplementsScsiBus, Bus!Spec

-----------------------------------------------------------------------------
\* The Sony driver.

Call == [drive : Drives, wp : BOOLEAN]
Result == {"none", "noErr", "eofErr", "wPrErr", "paramErr", "offLinErr", "nsDrvErr"}
Request == [result : Result, drive : Drives \cup {0}, start : Nat, count : Nat, act : Nat]

\* The types, with what the type invariant leaves open.
SonyTyped ==
    /\ wprot \subseteq Inserted /\ mounted \subseteq Inserted
    /\ open \in {"closed", "a", "b", "c"}
    /\ inPlace \in [Drives -> 0 .. 2] /\ dvWprot \in [Drives -> BOOLEAN]
    /\ calls \in Seq(Call)
    /\ last \in Request /\ last.act \in 0 .. MaxCount

ImageTyped ==
    /\ DOMAIN disk = Drives
    /\ \A d \in Drives : disk[d] \in [Units(d) -> 0 .. 1]

\* Before the driver is open nothing is mounted.
QuietUntilOpen ==
    open # "c" => mounted = {} /\ calls = <<>> /\ \A d \in Drives : inPlace[d] = 0

MountInv == SonyTyped /\ QuietUntilOpen /\ MountsSucceed /\ OnLineMatches
SonyInv == MountInv /\ ImageTyped /\ ActCountExact

-----------------------------------------------------------------------------
\* The assumptions on the constants, in the form the proofs use.
LEMMA SizeFacts ==
    /\ \A d \in Drives : Size[d] \in Nat
    /\ \A d \in Inserted : d \in Drives /\ Size[d] > 0
    /\ Inserted \subseteq Drives
    /\ SectorUnits \in Nat \ {0} /\ MaxStart \in Nat /\ MaxCount \in Nat
BY SonyAssumption DEF Inserted

\* The driver starts closed, with nothing mounted.
LEMMA SonyInitInv == SonyInit => SonyInv
<1> SUFFICES ASSUME SonyInit PROVE SonyInv
  OBVIOUS
<1>1. SonyTyped
  <2>0. last = NoPrime
    BY DEF SonyInit
  <2>1. last \in Request /\ last.act \in 0 .. MaxCount
    BY <2>0, SizeFacts DEF NoPrime, Request, Result
  <2> QED BY <2>1, SizeFacts DEF SonyInit, SonyTyped, Call
<1>2. QuietUntilOpen
  BY DEF SonyInit, QuietUntilOpen
<1>3. MountsSucceed /\ OnLineMatches
  BY DEF SonyInit, MountsSucceed, OnLineMatches
<1>4. ImageTyped
  BY DEF SonyInit, ImageTyped
<1>5. ActCountExact
  BY DEF SonyInit, NoPrime, ActCountExact
<1> QED BY <1>1, <1>2, <1>3, <1>4, <1>5 DEF SonyInv, MountInv

-----------------------------------------------------------------------------
(* Mounting *)

\* sony_service schedules a drive that no callback is under way for.
LEMMA SonyServiceKeeps ==
    ASSUME MountInv, SonyService PROVE MountInv'
<1>1. PICK d \in Unmounted :
          /\ mounted' = mounted \cup {d}
          /\ calls' = Append(calls, [drive |-> d, wp |-> d \in wprot])
  BY DEF SonyService
<1>2. /\ open = "c" /\ open' = open /\ wprot' = wprot /\ inPlace' = inPlace
      /\ dvWprot' = dvWprot /\ last' = last
  BY DEF SonyService
<1> DEFINE new == [drive |-> d, wp |-> d \in wprot]
<1>3. d \in Inserted /\ d \notin mounted /\ d \in Drives /\ inPlace[d] = 0
  BY SizeFacts DEF Unmounted, MountInv, OnLineMatches
<1>4. new \in Call
  BY <1>3 DEF Call
<1>5. /\ calls \in Seq(Call) /\ calls' \in Seq(Call) /\ Len(calls') = Len(calls) + 1
      /\ \A i \in 1 .. Len(calls) : calls'[i] = calls[i]
      /\ calls'[Len(calls) + 1] = new
  BY <1>1, <1>4, AppendProperties DEF MountInv, SonyTyped
<1>6. SonyTyped'
  BY <1>1, <1>2, <1>3, <1>5 DEF MountInv, SonyTyped
<1>7. MountsSucceed'
  <2>1. \A i \in 1 .. Len(calls) : calls[i].drive # d
    BY <1>3 DEF MountInv, MountsSucceed
  <2>2. \A i, j \in 1 .. Len(calls') : calls'[i].drive = calls'[j].drive => i = j
    BY <1>5, <2>1, LenProperties DEF MountInv, MountsSucceed
  <2>3. ASSUME NEW i \in 1 .. Len(calls')
        PROVE  /\ inPlace'[calls'[i].drive] = 0 /\ calls'[i].drive \in mounted'
               /\ calls'[i].wp = (calls'[i].drive \in wprot')
    <3>1. CASE i = Len(calls) + 1
      BY <3>1, <1>1, <1>2, <1>3, <1>5
    <3>2. CASE i \in 1 .. Len(calls)
      BY <3>2, <1>1, <1>2, <1>5 DEF MountInv, MountsSucceed
    <3> QED BY <1>5, <3>1, <3>2, LenProperties
  <2> QED BY <2>2, <2>3 DEF MountsSucceed
<1>8. OnLineMatches'
  <2>1. \A e \in Drives : inPlace[e] # 0 => e \in Inserted \cap mounted' /\ dvWprot[e] = (e \in wprot)
    BY <1>1 DEF MountInv, OnLineMatches
  <2>2. ASSUME NEW e \in Drives, e \in mounted', inPlace[e] = 0
        PROVE  \E i \in 1 .. Len(calls') : calls'[i].drive = e
    <3>1. CASE e = d
      BY <3>1, <1>5, LenProperties
    <3>2. CASE e # d
      <4>1. PICK i \in 1 .. Len(calls) : calls[i].drive = e
        BY <3>2, <2>2, <1>1 DEF MountInv, OnLineMatches
      <4> QED BY <4>1, <1>5, LenProperties
    <3> QED BY <3>1, <3>2
  <2> QED BY <2>1, <2>2, <1>2 DEF OnLineMatches
<1>9. QuietUntilOpen'
  BY <1>2 DEF QuietUntilOpen
<1> QED BY <1>6, <1>7, <1>8, <1>9 DEF MountInv

\* sony_mount, called by the callback on top, is never refused.
LEMMA SonyMountKeeps ==
    ASSUME MountInv, SonyMount PROVE MountInv'
<1> DEFINE c == calls[Len(calls)]
           n == Len(calls)
<1>1. /\ calls # <<>> /\ calls' = SubSeq(calls, 1, n - 1)
      /\ wprot' = wprot /\ open' = open /\ last' = last
  BY DEF SonyMount
<1>2. calls \in Seq(Call) /\ n \in Nat /\ n > 0
  BY <1>1, LenProperties, EmptySeq DEF MountInv, SonyTyped
<1>3. c \in Call /\ inPlace[c.drive] = 0 /\ c.drive \in mounted /\ c.wp = (c.drive \in wprot)
  BY <1>2, ElementOfSeq DEF MountInv, MountsSucceed
<1>4. /\ inPlace' = [inPlace EXCEPT ![c.drive] = 1]
      /\ dvWprot' = [dvWprot EXCEPT ![c.drive] = c.wp]
      /\ mounted' = mounted
  BY <1>3 DEF SonyMount
<1>5. /\ calls' \in Seq(Call) /\ Len(calls') = n - 1
      /\ \A i \in 1 .. n - 1 : calls'[i] = calls[i]
  <2>1. \A i \in 1 .. n - 1 : calls[i] \in Call
    BY <1>2, ElementOfSeq
  <2>2. 1 \in Int /\ n - 1 \in Int /\ 1 <= n
    BY <1>2
  <2> DEFINE t == SubSeq(calls, 1, n - 1)
  <2>3. /\ t \in Seq(Call) /\ Len(t) = IF 1 <= n - 1 THEN (n - 1) - 1 + 1 ELSE 0
        /\ \A i \in 1 .. (n - 1) - 1 + 1 : t[i] = calls[1 + i - 1]
    BY <2>1, <2>2, SubSeqProperties
  <2> HIDE DEF t
  <2>4. Len(t) = n - 1
    <3> HIDE DEF n
    <3> QED BY <2>3, <1>2
  <2>5. ASSUME NEW i \in 1 .. n - 1 PROVE t[i] = calls[i]
    <3>1. i \in 1 .. (n - 1) - 1 + 1 /\ 1 + i - 1 = i
      BY <1>2
    <3> QED BY <2>3, <3>1
  <2> QED BY <2>3, <2>4, <2>5, <1>1 DEF t
<1>6. c.drive \in Drives /\ c.wp \in BOOLEAN
  BY <1>3 DEF Call
<1>7. SonyTyped'
  BY <1>1, <1>4, <1>5, <1>6 DEF MountInv, SonyTyped
<1>8. \A i \in 1 .. n - 1 : calls[i].drive # c.drive /\ calls[i].drive \in Drives
  <2> TAKE i \in 1 .. n - 1
  <2>1. i \in 1 .. n /\ n \in 1 .. n /\ i # n
    BY <1>2
  <2>2. calls[i] \in Call
    BY <2>1, <1>2, ElementOfSeq
  <2> QED BY <2>1, <2>2 DEF MountInv, MountsSucceed, Call
<1>9. MountsSucceed'
  <2>1. \A i, j \in 1 .. Len(calls') : calls'[i].drive = calls'[j].drive => i = j
    BY <1>2, <1>5 DEF MountInv, MountsSucceed
  <2>2. ASSUME NEW i \in 1 .. Len(calls')
        PROVE  /\ inPlace'[calls'[i].drive] = 0 /\ calls'[i].drive \in mounted'
               /\ calls'[i].wp = (calls'[i].drive \in wprot')
    <3>1. i \in 1 .. n - 1 /\ i \in 1 .. n /\ calls'[i] = calls[i]
      BY <1>2, <1>5
    <3>2. calls[i].drive # c.drive /\ calls[i].drive \in Drives
      BY <3>1, <1>8
    <3>3. inPlace'[calls[i].drive] = inPlace[calls[i].drive]
      BY <3>2, <1>4 DEF MountInv, SonyTyped
    <3> QED BY <3>1, <3>3, <1>1, <1>4 DEF MountInv, MountsSucceed
  <2> QED BY <2>1, <2>2 DEF MountsSucceed
<1>10. OnLineMatches'
  <2>1. c.drive \in Inserted \cap mounted
    BY <1>3 DEF MountInv, SonyTyped
  <2>2. ASSUME NEW e \in Drives
        PROVE  inPlace'[e] # 0 => e \in Inserted \cap mounted' /\ dvWprot'[e] = (e \in wprot)
    <3>1. CASE e = c.drive
      BY <3>1, <2>1, <1>3, <1>4, <1>6 DEF MountInv, SonyTyped
    <3>2. CASE e # c.drive
      BY <3>2, <1>4 DEF MountInv, SonyTyped, OnLineMatches
    <3> QED BY <3>1, <3>2
  <2>3. ASSUME NEW e \in Drives, e \in mounted', inPlace'[e] = 0
        PROVE  \E i \in 1 .. Len(calls') : calls'[i].drive = e
    <3>1. e # c.drive /\ inPlace[e] = 0
      BY <2>3, <1>4, <1>6 DEF MountInv, SonyTyped
    <3>2. PICK i \in 1 .. n : calls[i].drive = e
      BY <2>3, <3>1, <1>4 DEF MountInv, OnLineMatches
    <3>3. i \in 1 .. n - 1
      BY <3>1, <3>2, <1>2
    <3> QED BY <3>2, <3>3, <1>5
  <2> QED BY <2>2, <2>3, <1>1 DEF OnLineMatches
<1>11. QuietUntilOpen'
  BY <1>1, <1>2 DEF MountInv, QuietUntilOpen
<1> QED BY <1>7, <1>9, <1>10, <1>11 DEF MountInv

\* An ejected drive has no callback under way, so none is orphaned.
LEMMA EjectKeeps ==
    ASSUME MountInv, NEW d \in Drives, Eject(d) PROVE MountInv'
<1>1. /\ open = "c" /\ inPlace[d] # 0 /\ mounted' = mounted \ {d}
      /\ inPlace' = [inPlace EXCEPT ![d] = 0] /\ dvWprot' = [dvWprot EXCEPT ![d] = FALSE]
      /\ wprot' = wprot /\ open' = open /\ calls' = calls /\ last' = last
  BY DEF Eject
<1>2. SonyTyped'
  BY <1>1 DEF MountInv, SonyTyped
<1>3. \A i \in 1 .. Len(calls) : calls[i].drive # d /\ calls[i].drive \in Drives
  <2> TAKE i \in 1 .. Len(calls)
  <2>1. calls[i] \in Call
    BY ElementOfSeq DEF MountInv, SonyTyped
  <2> QED BY <2>1, <1>1 DEF MountInv, MountsSucceed, Call
<1>4. MountsSucceed'
  BY <1>1, <1>3 DEF MountInv, MountsSucceed, SonyTyped
<1>5. OnLineMatches'
  BY <1>1 DEF MountInv, OnLineMatches, SonyTyped
<1> QED BY <1>1, <1>2, <1>4, <1>5 DEF MountInv, QuietUntilOpen

-----------------------------------------------------------------------------
(* Transfers *)

\* The units a request moves, as Prime computes them.
Act(isWrite, d, start, count) ==
    LET result == PrimeResult(isWrite, d, start, count)
    IN  IF result = "noErr" \/ (result = "eofErr" /\ ~PastEnd(d, start))
        THEN Fitting(d, start, count) ELSE 0

\* The units moved are those of the request that the disk has; a request is
\* carried out only on a drive that is on line and, to write, not protected.
LEMMA ActFacts ==
    ASSUME MountInv, NEW d \in Drives, NEW isWrite \in BOOLEAN,
           NEW start \in Nat, NEW count \in Nat
    PROVE  LET result == PrimeResult(isWrite, d, start, count)
               act == Act(isWrite, d, start, count)
           IN  /\ result \in Result /\ act \in 0 .. count
               /\ act > 0 => start + act <= Size[d] /\ inPlace[d] # 0 /\ (isWrite => d \notin wprot)
               /\ result = "noErr" => act = count
               /\ result = "eofErr" /\ start <= Size[d] => start + act = Size[d]
<1> DEFINE result == PrimeResult(isWrite, d, start, count)
           act == Act(isWrite, d, start, count)
           fit == Fitting(d, start, count)
<1>1. Size[d] \in Nat
  BY SizeFacts
<1>2. PastEnd(d, start) <=> start > Size[d]
  BY DEF PastEnd
<1>3. fit \in Int /\ fit <= count /\ fit <= Size[d] - start
      /\ (fit = count \/ fit = Size[d] - start)
  BY <1>1 DEF Fitting
<1>4. act = IF result = "noErr" \/ (result = "eofErr" /\ ~PastEnd(d, start)) THEN fit ELSE 0
  BY DEF Act
<1>5. /\ result = "noErr" => /\ inPlace[d] # 0 /\ (isWrite => d \notin wprot)
                             /\ ~PastEnd(d, start) /\ ~(fit < count)
      /\ result = "eofErr" => /\ inPlace[d] # 0 /\ (isWrite => d \notin wprot)
                              /\ PastEnd(d, start) \/ fit < count
      /\ result \in Result
  <2>1. CASE inPlace[d] = 0
    <3>1. result = "offLinErr"
      BY <2>1 DEF PrimeResult
    <3> QED BY <3>1 DEF Result
  <2>2. CASE inPlace[d] # 0 /\ (~Aligned(start) \/ ~Aligned(count))
    <3>1. result = "paramErr"
      BY <2>2 DEF PrimeResult
    <3> QED BY <3>1 DEF Result
  <2>3. CASE inPlace[d] # 0 /\ Aligned(start) /\ Aligned(count) /\ isWrite /\ dvWprot[d]
    <3>1. result = "wPrErr"
      BY <2>3 DEF PrimeResult
    <3> QED BY <3>1 DEF Result
  <2>4. CASE inPlace[d] # 0 /\ Aligned(start) /\ Aligned(count) /\ ~(isWrite /\ dvWprot[d])
    <3>1. result = TransferResult(isWrite, d, start, count)
      BY <2>4 DEF PrimeResult
    <3>2. CASE d \notin Inserted
      <4>1. result = "nsDrvErr"
        BY <3>1, <3>2 DEF TransferResult
      <4> QED BY <4>1 DEF Result
    <3>3. CASE d \in Inserted /\ isWrite /\ d \in wprot
      <4>1. result = "wPrErr"
        BY <3>1, <3>3 DEF TransferResult
      <4> QED BY <4>1 DEF Result
    <3>4. CASE /\ d \in Inserted /\ ~(isWrite /\ d \in wprot)
               /\ PastEnd(d, start) \/ fit < count
      <4>1. result = "eofErr"
        BY <3>1, <3>4 DEF TransferResult
      <4> QED BY <4>1, <3>4, <2>4 DEF Result
    <3>5. CASE /\ d \in Inserted /\ ~(isWrite /\ d \in wprot)
               /\ ~(PastEnd(d, start) \/ fit < count)
      <4>1. result = "noErr"
        BY <3>1, <3>5 DEF TransferResult
      <4> QED BY <4>1, <3>5, <2>4 DEF Result
    <3> QED BY <3>2, <3>3, <3>4, <3>5
  <2> QED BY <2>1, <2>2, <2>3, <2>4
<1> HIDE DEF result, act, fit
<1>6. act \in 0 .. count
  BY <1>1, <1>2, <1>3, <1>4, <1>5
<1>7. act > 0 => start + act <= Size[d] /\ inPlace[d] # 0 /\ (isWrite => d \notin wprot)
  BY <1>1, <1>2, <1>3, <1>4, <1>5
<1>8. result = "noErr" => act = count
  BY <1>1, <1>2, <1>3, <1>4, <1>5
<1>9. result = "eofErr" /\ start <= Size[d] => start + act = Size[d]
  BY <1>1, <1>2, <1>3, <1>4, <1>5
<1> QED BY <1>5, <1>6, <1>7, <1>8, <1>9 DEF result, act

-----------------------------------------------------------------------------
(* The steps *)

\* The disks and the record of the last request as the other operations leave them.
LEMMA MountingKeeps ==
    ASSUME MountInv, \/ OpenA \/ OpenB \/ OpenC \/ SonyService \/ SonyMount
                     \/ \E d \in Drives : Eject(d)
    PROVE  MountInv' /\ disk' = disk /\ last' = last
<1>1. CASE OpenA \/ OpenB \/ OpenC
  <2>1. /\ open # "c" /\ open' \in {"a", "b", "c"} /\ wprot' = wprot /\ mounted' = mounted
        /\ dvWprot' = dvWprot /\ calls' = calls /\ disk' = disk /\ last' = last
        /\ inPlace' = inPlace \/ inPlace' = [d \in Drives |-> 0]
    BY <1>1 DEF OpenA, OpenB, OpenC
  <2>2. mounted = {} /\ calls = <<>> /\ \A d \in Drives : inPlace[d] = 0
    BY <2>1 DEF MountInv, QuietUntilOpen
  <2>3. inPlace' \in [Drives -> 0 .. 2] /\ \A d \in Drives : inPlace'[d] = 0
    BY <2>1, <2>2 DEF MountInv, SonyTyped
  <2>4. SonyTyped'
    BY <2>1, <2>3 DEF MountInv, SonyTyped
  <2>5. QuietUntilOpen'
    BY <2>1, <2>2, <2>3 DEF QuietUntilOpen
  <2>6. MountsSucceed' /\ OnLineMatches'
    BY <2>1, <2>2, <2>3 DEF MountsSucceed, OnLineMatches
  <2> QED BY <2>1, <2>4, <2>5, <2>6 DEF MountInv
<1>2. CASE SonyService
  BY <1>2, SonyServiceKeeps DEF SonyService
<1>3. CASE SonyMount
  BY <1>3, SonyMountKeeps DEF SonyMount
<1>4. CASE \E d \in Drives : Eject(d)
  <2>1. PICK d \in Drives : Eject(d)
    BY <1>4
  <2> QED BY <2>1, EjectKeeps DEF Eject
<1> QED BY <1>1, <1>2, <1>3, <1>4

\* A prime moves what it reports and leaves the mounts alone.
LEMMA PrimeKeeps ==
    ASSUME SonyInv, NEW d \in Drives, Prime(d) PROVE SonyInv' /\ WritesStayInside
<1>1. PICK isWrite \in BOOLEAN, start \in 0 .. MaxStart, count \in 0 .. MaxCount, v \in 0 .. 1 :
        LET result == PrimeResult(isWrite, d, start, count)
            act == Act(isWrite, d, start, count)
        IN  /\ open = "c"
            /\ inPlace' = [inPlace EXCEPT ![d] = IF @ = 1 THEN 2 ELSE @]
            /\ disk' = IF ~isWrite THEN disk
                        ELSE [disk EXCEPT ![d] =
                                 [u \in DOMAIN @ \cup start .. (start + act - 1) |->
                                     IF u \in start .. (start + act - 1) THEN v ELSE @[u]]]
            /\ last' = [result |-> result, drive |-> d, start |-> start, count |-> count, act |-> act]
            /\ UNCHANGED <<wprot, mounted, open, dvWprot, calls>>
  BY DEF Prime, Act
<1> DEFINE result == PrimeResult(isWrite, d, start, count)
           act == Act(isWrite, d, start, count)
           moved == start .. (start + act - 1)
<1>2. /\ start \in Nat /\ count \in Nat /\ count \in 0 .. MaxCount /\ MaxCount \in Nat
      /\ Size[d] \in Nat
  BY SizeFacts
<1>3. /\ result \in Result /\ act \in 0 .. count
      /\ act > 0 => start + act <= Size[d] /\ inPlace[d] # 0 /\ (isWrite => d \notin wprot)
      /\ result = "noErr" => act = count
      /\ result = "eofErr" /\ start <= Size[d] => start + act = Size[d]
  BY <1>2, ActFacts DEF SonyInv
<1>4. last' = [result |-> result, drive |-> d, start |-> start, count |-> count, act |-> act]
  BY <1>1
<1>5. disk' = IF ~isWrite THEN disk
               ELSE [disk EXCEPT ![d] =
                        [u \in DOMAIN disk[d] \cup moved |-> IF u \in moved THEN v ELSE disk[d][u]]]
  BY <1>1
<1>6. /\ open = "c" /\ open' = open /\ wprot' = wprot /\ mounted' = mounted
      /\ dvWprot' = dvWprot /\ calls' = calls
      /\ inPlace' = [inPlace EXCEPT ![d] = IF inPlace[d] = 1 THEN 2 ELSE inPlace[d]]
  BY <1>1
<1> HIDE DEF result, act
<1>7. last' \in Request /\ last'.act \in 0 .. MaxCount
  BY <1>2, <1>3, <1>4 DEF Request
<1>8. ActCountExact'
  BY <1>2, <1>3, <1>4 DEF ActCountExact
<1>9. MountInv'
  <2>1. inPlace' \in [Drives -> 0 .. 2] /\ \A e \in Drives : inPlace'[e] = 0 <=> inPlace[e] = 0
    BY <1>6 DEF SonyInv, MountInv, SonyTyped
  <2>2. SonyTyped'
    BY <2>1, <1>6, <1>7 DEF SonyInv, MountInv, SonyTyped
  <2>3. \A i \in 1 .. Len(calls) : calls[i].drive \in Drives
    <3> TAKE i \in 1 .. Len(calls)
    <3>1. calls[i] \in Call
      BY ElementOfSeq DEF SonyInv, MountInv, SonyTyped
    <3> QED BY <3>1 DEF Call
  <2>4. MountsSucceed'
    BY <2>1, <2>3, <1>6 DEF SonyInv, MountInv, MountsSucceed
  <2>5. OnLineMatches'
    BY <2>1, <1>6 DEF SonyInv, MountInv, OnLineMatches
  <2> QED BY <2>2, <2>4, <2>5, <1>6 DEF MountInv, QuietUntilOpen
<1>10. moved \subseteq Units(d)
  <2> SUFFICES ASSUME NEW u \in moved PROVE u \in Units(d)
    OBVIOUS
  <2>1. act > 0 /\ u \in Int /\ 0 <= u /\ u <= Size[d] - 1
    BY <1>2, <1>3
  <2> QED BY <2>1, <1>2 DEF Units
<1>11. moved # {} => d \notin wprot \/ ~isWrite
  BY <1>2, <1>3
<1>12. moved # {} => inPlace[d] # 0
  BY <1>2, <1>3
<1>13. \A u \in moved : u \in start .. (start + count - 1)
  BY <1>2, <1>3
<1>14. disk[d] \in [Units(d) -> 0 .. 1] /\ DOMAIN disk = Drives /\ DOMAIN disk[d] = Units(d)
  BY DEF SonyInv, ImageTyped
<1> HIDE DEF moved
<1>15. CASE ~isWrite
  <2>1. disk' = disk
    BY <1>5, <1>15
  <2> QED BY <2>1, <1>8, <1>9 DEF SonyInv, ImageTyped, WritesStayInside
<1>16. CASE isWrite
  <2> DEFINE new == [u \in Units(d) |-> IF u \in moved THEN v ELSE disk[d][u]]
  <2>1. DOMAIN disk[d] \cup moved = Units(d)
    BY <1>10, <1>14
  <2>2. disk' = [disk EXCEPT ![d] = new]
    BY <2>1, <1>5, <1>16
  <2>3. new \in [Units(d) -> 0 .. 1]
    BY <1>14
  <2>4. DOMAIN disk' = Drives /\ disk'[d] = new /\ \A e \in Drives \ {d} : disk'[e] = disk[e]
    BY <2>2, <1>14
  <2>5. ImageTyped'
    BY <2>3, <2>4 DEF SonyInv, ImageTyped
  <2>6. ASSUME new # disk[d] PROVE moved # {}
    BY <2>6, <1>14
  <2>7. ASSUME NEW u \in Units(d), new[u] # disk[d][u] PROVE u \in moved
    BY <2>7
  <2> HIDE DEF new
  <2>8. WritesStayInside
    <3> SUFFICES ASSUME NEW e \in Drives, disk'[e] # disk[e]
                 PROVE  /\ e \notin wprot /\ inPlace[e] # 0 /\ DOMAIN disk'[e] = Units(e)
                        /\ last'.drive = e
                        /\ \A u \in Units(e) : disk'[e][u] # disk[e][u] =>
                               u \in last'.start .. (last'.start + last'.count - 1)
      BY DEF WritesStayInside
    <3>1. e = d
      BY <2>4
    <3>2. moved # {}
      BY <3>1, <2>4, <2>6
    <3>3. e \notin wprot /\ inPlace[e] # 0
      BY <3>1, <3>2, <1>11, <1>12, <1>16
    <3>4. DOMAIN disk'[e] = Units(e)
      BY <3>1, <2>3, <2>4
    <3>5. last'.drive = e /\ last'.start = start /\ last'.count = count
      BY <3>1, <1>4
    <3>6. \A u \in Units(e) : disk'[e][u] # disk[e][u] => u \in start .. (start + count - 1)
      BY <3>1, <2>4, <2>7, <1>13
    <3> QED BY <3>3, <3>4, <3>5, <3>6
  <2> QED BY <2>5, <2>8, <1>8, <1>9 DEF SonyInv
<1> QED BY <1>15, <1>16

\* Every step keeps the invariant, and writes only where it may.
LEMMA SonyNextInv == ASSUME SonyInv, [SonyNext]_sonyVars PROVE SonyInv' /\ (WritesStayInside \/ UNCHANGED sonyVars)
<1>1. CASE \/ OpenA \/ OpenB \/ OpenC \/ SonyService \/ SonyMount
           \/ \E d \in Drives : Eject(d)
  <2>1. MountInv' /\ disk' = disk /\ last' = last
    BY <1>1, MountingKeeps DEF SonyInv
  <2> QED BY <2>1 DEF SonyInv, ImageTyped, ActCountExact, WritesStayInside
<1>2. CASE \E d \in Drives : Prime(d)
  BY <1>2, PrimeKeeps
<1>3. CASE UNCHANGED sonyVars
  BY <1>3 DEF sonyVars, SonyInv, MountInv, SonyTyped, QuietUntilOpen, MountsSucceed, OnLineMatches,
             ImageTyped, ActCountExact
<1> QED BY <1>1, <1>2, <1>3 DEF SonyNext

-----------------------------------------------------------------------------
\* The driver's own account of the drives, the guest's drive variables and the disks
\* keep to the inductive invariant, whatever the guest asks for and in whatever order.
THEOREM DriverInvariant == SonySpec => []SonyInv
<1>1. SonyInv /\ [SonyNext]_sonyVars => SonyInv'
  BY SonyNextInv
<1> QED BY <1>1, SonyInitInv, PTL DEF SonySpec

\* Every callback that sony_service injects finds its drive as it was left, and what
\* is on line is inserted and carries the right protection, for any set of drives.
THEOREM MountsAreSound == SonySpec => []MountsSound
<1>1. SonyInv => MountsSound
  <2> SUFFICES ASSUME SonyInv PROVE MountsSound
    OBVIOUS
  <2>1. \A i \in 1 .. Len(calls) : calls[i].drive \in Drives /\ calls[i].wp \in BOOLEAN
    <3> TAKE i \in 1 .. Len(calls)
    <3>1. calls[i] \in Call
      BY ElementOfSeq DEF SonyInv, MountInv, SonyTyped
    <3> QED BY <3>1 DEF Call
  <2>2. SonyTypeOK
    BY <2>1, SizeFacts DEF SonyInv, MountInv, SonyTyped, ImageTyped, SonyTypeOK
  <2> QED BY <2>2 DEF SonyInv, MountInv, MountsSound
<1> QED BY <1>1, DriverInvariant, PTL

\* Every transfer stays inside its request and its disk and reports what it moved,
\* whatever the sizes of disks, sectors and requests.
THEOREM TransfersAreExact == SonySpec => TransfersExact
<1>1. SonyInv /\ [SonyNext]_sonyVars => [WritesStayInside /\ ActCountExact']_sonyVars
  <2> SUFFICES ASSUME SonyInv, [SonyNext]_sonyVars PROVE [WritesStayInside /\ ActCountExact']_sonyVars
    OBVIOUS
  <2>1. ActCountExact'
    BY SonyNextInv DEF SonyInv
  <2> QED BY <2>1, SonyNextInv
<1> QED BY <1>1, DriverInvariant, PTL DEF SonySpec, TransfersExact
=============================================================================
