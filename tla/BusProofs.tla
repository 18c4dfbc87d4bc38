----------------------------- MODULE BusProofs ------------------------------
(***************************************************************************)
(* Proofs about the memory map.  Memory, the serial line and the clock     *)
(* chip share no state, and the invariant is one part for each.  That of   *)
(* memory is nearly inductive as it stands; that of the serial line ties   *)
(* the byte in the controller to the number of bytes sent; that of the     *)
(* clock chip says where in the shift register the bits of a half-finished *)
(* transfer are, after any number of interruptions and abandoned           *)
(* transfers.  The tests of compiled blocks are a property of the masks    *)
(* and not of the history: they are settled by what the bits of an address *)
(* say of its size and of its remainder.                                   *)
(***************************************************************************)
EXTENDS Bus, SequenceTheorems, TLAPS

SccType == [ptr : 0 .. 15, irqOn : BOOLEAN, byte : [Channels -> Nat], avail : [Channels -> BOOLEAN]]
SerialType == [sent : 0 .. MaxRx, polled : BOOLEAN, got : Seq(1 .. MaxRx)]

\* Memory: the watch covers every block, a block whose bytes were overwritten is on a
\* queued page, and the blocks compiled under the overlay are those that closed their masks.
MemoryInv ==
    /\ machine \in Machines /\ overlay \in BOOLEAN
    /\ blocks \subseteq [pc : CodePcs, ovl : BOOLEAN]
    /\ stale \subseteq {b.pc : b \in blocks}
    /\ dirty \subseteq codePages
    /\ \A b \in blocks : PagesOf(b.pc) \subseteq codePages
    /\ overlay => \A b \in blocks : b.ovl
    /\ WritesSeen

\* Serial line: a byte that is available is the newest, which the guest has not read,
\* and a guest that saw one has not lost sight of it.
SerialInv ==
    /\ scc \in SccType /\ serial \in SerialType
    /\ serial.polled => scc.avail[1]
    /\ scc.avail[1] => /\ serial.sent >= 1 /\ scc.byte[1] = serial.sent
                       /\ \A i \in 1 .. Len(serial.got) : serial.got[i] < serial.sent
    /\ \A i \in 1 .. Len(serial.got) : serial.got[i] <= serial.sent
    /\ RxAtMostOnce

\* The bits the chip has taken of the guest's transfer.
Taken == drv.i + (IF drv.phase = "sample" THEN 1 ELSE 0)

\* What a transfer has made of the chip: its command so far, or the byte to be written so
\* far, stands at the low end of the shift register; the rest of the byte to be read at
\* the high end.
InCommand(r, cmd, n) ==
    r.state = "command" /\ r.count = n /\ \A k \in 1 .. n : r.shift[Bits - n + k] = cmd[k]
InByte(r, cmd, val, n) ==
    /\ r.cmd = cmd /\ r.count = n
    /\ r.state = IF ReadBit(cmd) THEN "read" ELSE "write"
    /\ ReadBit(cmd) => \A k \in 1 .. (Bits - n) : r.shift[k] = Preload(r, cmd)[k + n]
    /\ ~ReadBit(cmd) => \A k \in 1 .. n : r.shift[Bits - n + k] = val[k]
Chip(r, cmd, val, t) ==
    /\ t < Bits => InCommand(r, cmd, t)
    /\ t >= Bits /\ t < 2 * Bits => InByte(r, cmd, val, t - Bits)
    /\ t = 2 * Bits => r.state = "command" /\ r.count = 0

RtcType == [state : {"command", "read", "write"}, shift : Byte, count : 0 .. (Bits - 1),
            cmd : Byte, clk : BOOLEAN, out : BOOLEAN, pram : [Cells -> Byte]]
DrvType == [phase : {"idle", "low", "high", "sample", "done"}, cmd : Byte, val : Byte,
            i : 0 .. (2 * Bits), got : Seq(BOOLEAN)]

\* The byte of the guest is in the chip and not yet known to the history.
JustWritten == drv.phase = "sample" /\ drv.i = 2 * Bits - 1 /\ ~Reading

\* Clock: the chip is where the guest's transfer says, and the bits the guest has read are
\* those of the byte the command selected.
ClockInv ==
    /\ rtc \in RtcType /\ drv \in DrvType /\ written \in [Cells -> Byte]
    /\ drv.phase = "idle" => drv.i = 0
    /\ drv.phase = "done" => drv.i = 2 * Bits
    /\ drv.phase \in {"low", "high", "sample"} => drv.i < 2 * Bits
    /\ drv.phase = "high" => rtc.clk = FALSE
    /\ Chip(rtc, drv.cmd, drv.val, Taken)
    /\ Len(drv.got) = IF Reading /\ drv.i > Bits THEN drv.i - Bits ELSE 0
    /\ \A k \in 1 .. Len(drv.got) : drv.got[k] = Preload(rtc, drv.cmd)[k]
    /\ drv.phase = "sample" /\ Reading /\ drv.i >= Bits =>
           rtc.out = Preload(rtc, drv.cmd)[drv.i - Bits + 1]
    /\ rtc.pram = IF JustWritten THEN [written EXCEPT ![Cell(drv.cmd)] = drv.val] ELSE written

-----------------------------------------------------------------------------
\* Memory.

\* A write that the watch is told of elsewhere than where it lands reaches no byte that
\* is addressed without a mirror: with the overlay RAM is only seen through its window,
\* and without it the address is its own.
LEMMA WatchedWhereWritten ==
    ASSUME machine \in Machines, NEW a \in Nat, Canonical(a)
    PROVE  RamByte(a, machine, overlay) \subseteq WatchAddress(a, machine, overlay)
  <1> DEFINE x == a % AddrSpace
  <1>1. machine.size \in Nat /\ machine.size > 0 /\ machine.size <= RomBase
    BY BusAssumption DEF RomBase, Megabyte
  <1>2. x \in Nat /\ x < machine.size
    BY DEF Canonical, AddrSpace
  <1>3. x % machine.size = x
    BY <1>1, <1>2
  <1> HIDE DEF x
  <1>4. CASE overlay
    BY <1>4 DEF WatchAddress
  <1>5. CASE ~overlay
    <2>1. Reached(a, machine, overlay) = <<"ram", x % machine.size>>
      BY <1>1, <1>2, <1>5 DEF Reached, In, RomBase, x, Megabyte
    <2>2. RamByte(a, machine, overlay) = {x}
      BY <2>1, <1>3 DEF RamByte
    <2> QED BY <2>2, <1>5 DEF WatchAddress, x
  <1> QED BY <1>4, <1>5

\* What a store of helpers or of the host's mouse does to the memory part.
LEMMA StoreBytesKeeps ==
    ASSUME MemoryInv, NEW as, as \subseteq Nat, StoreBytes(as)
    PROVE  MemoryInv'
  <1> DEFINE hit == UNION {RamByte(a, machine, overlay) : a \in {x \in as : Canonical(x)}}
             pages == {Page(w) : w \in UNION {WatchAddress(a, machine, overlay) : a \in as}}
             struck == {c \in blocks : BlockRange(c.pc) \cap hit # {}}
  <1>1. /\ stale' = stale \cup {b.pc : b \in struck}
        /\ dirty' = dirty \cup (pages \cap codePages)
        /\ UNCHANGED <<machine, overlay, blocks, codePages>>
    BY DEF StoreBytes
  <1>2. ASSUME NEW b \in struck PROVE PagesOf(b.pc) \cap dirty' # {}
    <2>1. PICK w \in BlockRange(b.pc) : w \in hit
      OBVIOUS
    <2>2. PICK a \in as : Canonical(a) /\ w \in RamByte(a, machine, overlay)
      BY <2>1
    <2>3. w \in WatchAddress(a, machine, overlay)
      BY <2>2, WatchedWhereWritten DEF MemoryInv
    <2>4. Page(w) \in pages /\ Page(w) \in PagesOf(b.pc)
      BY <2>1, <2>2, <2>3 DEF PagesOf
    <2>5. PagesOf(b.pc) \subseteq codePages
      BY DEF MemoryInv
    <2> QED BY <1>1, <2>4, <2>5
  <1> HIDE DEF pages, struck
  <1>3. WritesSeen'
    <2> SUFFICES ASSUME NEW pc \in stale' PROVE PagesOf(pc) \cap dirty' # {}
      BY DEF WritesSeen, PagesOf, BlockRange, Page
    <2>1. CASE pc \in stale
      BY <2>1, <1>1 DEF MemoryInv, WritesSeen
    <2>2. CASE pc \notin stale
      <3>1. PICK b \in struck : pc = b.pc
        BY <2>2, <1>1
      <3> QED BY <3>1, <1>2
    <2> QED BY <2>1, <2>2
  <1>4. stale' \subseteq {b.pc : b \in blocks'}
    BY <1>1 DEF MemoryInv, struck
  <1> QED BY <1>1, <1>3, <1>4 DEF MemoryInv, PagesOf, BlockRange, Page

\* Every operation on memory keeps the memory part.
LEMMA MemoryKeeps ==
    ASSUME MemoryInv, Memory
    PROVE  MemoryInv'
  <1>1. CASE WriteOra
    BY <1>1 DEF WriteOra, MemoryInv, WritesSeen, PagesOf, BlockRange, Page
  <1>2. ASSUME NEW pc \in CodePcs, Compile(pc)
        PROVE  MemoryInv'
    <2> DEFINE new == [pc |-> pc, ovl |-> overlay]
    <2>1. /\ blocks' = blocks \cup {new} /\ codePages' = codePages \cup PagesOf(pc)
          /\ UNCHANGED <<machine, overlay, stale, dirty>>
      BY <1>2 DEF Compile
    <2>2. new \in [pc : CodePcs, ovl : BOOLEAN] /\ new.pc = pc /\ (overlay => new.ovl)
      BY DEF MemoryInv
    <2> HIDE DEF new
    <2>3. \A b \in blocks' : PagesOf(b.pc) \subseteq codePages'
      BY <2>1, <2>2 DEF MemoryInv
    <2>4. WritesSeen'
      BY <2>1 DEF MemoryInv, WritesSeen, PagesOf, BlockRange, Page
    <2> QED BY <2>1, <2>2, <2>3, <2>4 DEF MemoryInv, PagesOf, BlockRange, Page
  <1>3. ASSUME NEW a \in StoreAddrs, NEW bytes \in {1, 2, 4}, HelperStore(a, bytes)
        PROVE  MemoryInv'
    <2>1. a \in Nat
      BY BusAssumption DEF Addr, AddrSpace
    <2> DEFINE as == {(a + k) % (2 * AddrSpace) : k \in 0 .. (bytes - 1)}
    <2>2. as \subseteq Nat
      BY <2>1 DEF AddrSpace
    <2>3. StoreBytes(as)
      BY <1>3 DEF HelperStore
    <2> HIDE DEF as
    <2> QED BY <2>2, <2>3, StoreBytesKeeps
  <1>4. ASSUME NEW moved \in BOOLEAN, SetMouse(moved)
        PROVE  MemoryInv'
    <2> DEFINE as == IF moved THEN MouseBytes ELSE {}
    <2>1. as \subseteq Nat
      BY BusAssumption DEF Addr, AddrSpace
    <2>2. StoreBytes(as)
      BY <1>4 DEF SetMouse
    <2> HIDE DEF as
    <2> QED BY <2>1, <2>2, StoreBytesKeeps
  <1>5. CASE Flush
    <2> DEFINE dropped == {b \in blocks : PagesOf(b.pc) \cap dirty # {}}
    <2>1. /\ blocks' = blocks \ dropped /\ stale' = stale \ {b.pc : b \in dropped}
          /\ dirty' = {}
          /\ UNCHANGED <<machine, overlay, codePages>>
      BY <1>5 DEF Flush
    <2>2. ASSUME NEW pc \in stale PROVE pc \in {b.pc : b \in dropped}
      <3>1. PICK b \in blocks : pc = b.pc
        BY DEF MemoryInv
      <3>2. PagesOf(b.pc) \cap dirty # {}
        BY <3>1 DEF MemoryInv, WritesSeen
      <3> QED BY <3>1, <3>2
    <2>3. stale' = {}
      BY <2>1, <2>2
    <2> HIDE DEF dropped
    <2> QED BY <2>1, <2>3 DEF MemoryInv, WritesSeen, PagesOf, BlockRange, Page
  <1> QED BY <1>1, <1>2, <1>3, <1>4, <1>5 DEF Memory

-----------------------------------------------------------------------------
\* Serial line.

\* Every operation on the serial line keeps the serial part.
LEMMA SerialKeeps ==
    ASSUME SerialInv, Serial
    PROVE  SerialInv'
  <1>1. /\ 1 \in Channels /\ MaxRx \in Nat
        /\ scc.ptr \in 0 .. 15 /\ scc.irqOn \in BOOLEAN
        /\ scc.byte \in [Channels -> Nat] /\ scc.avail \in [Channels -> BOOLEAN]
        /\ serial.sent \in 0 .. MaxRx /\ serial.polled \in BOOLEAN
        /\ serial.got \in Seq(1 .. MaxRx)
    BY BusAssumption DEF SerialInv, SccType, SerialType, Channels
  <1>2. CASE Rx
    <2>1. scc' = [scc EXCEPT !.byte[1] = serial.sent + 1, !.avail[1] = TRUE]
      BY <1>2 DEF Rx, SccRx
    <2>2. serial' = [serial EXCEPT !.sent = @ + 1] /\ serial.sent < MaxRx
      BY <1>2 DEF Rx
    <2>3. /\ scc'.ptr = scc.ptr /\ scc'.irqOn = scc.irqOn
          /\ scc'.byte = [scc.byte EXCEPT ![1] = serial.sent + 1]
          /\ scc'.avail = [scc.avail EXCEPT ![1] = TRUE]
      BY <2>1 DEF SerialInv, SccType
    <2>4. scc' \in SccType /\ scc'.avail[1] /\ scc'.byte[1] = serial.sent + 1
      <3>1. scc'.byte \in [Channels -> Nat] /\ scc'.avail \in [Channels -> BOOLEAN]
        BY <1>1, <2>3
      <3>2. scc'.avail[1] /\ scc'.byte[1] = serial.sent + 1
        BY <1>1, <2>3
      <3> QED BY <1>1, <2>1, <2>3, <3>1, <3>2 DEF SerialInv, SccType
    <2>5. /\ serial'.sent = serial.sent + 1 /\ serial'.polled = serial.polled
          /\ serial'.got = serial.got /\ serial' \in SerialType
      BY <1>1, <2>2 DEF SerialInv, SerialType
    <2>6. \A i \in 1 .. Len(serial.got) : serial.got[i] \in Nat /\ serial.got[i] <= serial.sent
      BY <1>1 DEF SerialInv
    <2> QED BY <1>1, <2>4, <2>5, <2>6 DEF SerialInv, RxAtMostOnce
  <1>3. CASE Poll
    <2>1. /\ scc' = [scc EXCEPT !.ptr = 0]
          /\ serial' = [serial EXCEPT !.polled = RxBit(scc, 1)]
      BY <1>3 DEF Poll, ReadControl
    <2>2. RxBit(scc, 1) \in BOOLEAN /\ (RxBit(scc, 1) => scc.avail[1])
      BY <1>1 DEF RxBit
    <2>3. scc' \in SccType /\ scc'.byte = scc.byte /\ scc'.avail = scc.avail
      BY <2>1 DEF SerialInv, SccType
    <2>4. serial' \in SerialType /\ serial'.sent = serial.sent /\ serial'.got = serial.got
          /\ serial'.polled = RxBit(scc, 1)
      BY <2>1, <2>2 DEF SerialInv, SerialType
    <2> QED BY <2>2, <2>3, <2>4 DEF SerialInv, RxAtMostOnce
  <1>4. CASE TakeByte
    <2>1. /\ serial.polled
          /\ scc' = [scc EXCEPT !.avail[1] = FALSE]
          /\ serial' = [serial EXCEPT !.polled = FALSE, !.got = Append(@, scc.byte[1])]
      BY <1>4 DEF TakeByte, ReadData
    <2>2. /\ serial.sent >= 1 /\ scc.byte[1] = serial.sent
          /\ \A i \in 1 .. Len(serial.got) : serial.got[i] < serial.sent
      BY <2>1 DEF SerialInv
    <2>3. scc'.avail = [scc.avail EXCEPT ![1] = FALSE] /\ ~scc'.avail[1]
      BY <1>1, <2>1 DEF SerialInv, SccType
    <2>4. scc'.avail \in [Channels -> BOOLEAN]
      BY <1>1, <2>3, FALSE \in BOOLEAN
    <2>5. scc' \in SccType
      BY <2>1, <2>4 DEF SerialInv, SccType
    <2> DEFINE new == Append(serial.got, serial.sent)
    <2>6. serial.sent \in 1 .. MaxRx
      BY <1>1, <2>2
    <2>7. /\ new \in Seq(1 .. MaxRx) /\ Len(new) = Len(serial.got) + 1
          /\ \A i \in 1 .. Len(serial.got) : new[i] = serial.got[i]
          /\ new[Len(serial.got) + 1] = serial.sent
      BY <1>1, <2>6, AppendProperties
    <2>8. /\ serial'.sent = serial.sent /\ ~serial'.polled /\ serial'.got = new
          /\ serial'.polled \in BOOLEAN
      BY <2>1, <2>2 DEF SerialInv, SerialType
    <2> HIDE DEF new
    <2>9. serial' \in SerialType
      <3>1. serial' = [serial EXCEPT !.polled = FALSE, !.got = new]
        BY <2>1, <2>2 DEF new
      <3> QED BY <3>1, <2>7, FALSE \in BOOLEAN DEF SerialInv, SerialType
    <2>10. Len(serial.got) \in Nat
      BY <1>1
    <2>11. \A i \in 1 .. Len(serial.got) : new[i] \in Nat /\ new[i] < serial.sent
      <3>1. \A i \in 1 .. Len(serial.got) : serial.got[i] \in 1 .. MaxRx
        BY <1>1, ElementOfSeq
      <3> QED BY <1>1, <3>1, <2>2, <2>7
    <2>12. \A i \in 1 .. Len(new) : new[i] <= serial.sent
      <3> SUFFICES ASSUME NEW i \in 1 .. Len(new) PROVE new[i] <= serial.sent
        OBVIOUS
      <3>1. CASE i = Len(serial.got) + 1
        BY <3>1, <2>6, <2>7
      <3>2. CASE i # Len(serial.got) + 1
        BY <3>2, <2>6, <2>7, <2>10, <2>11
      <3> QED BY <3>1, <3>2
    <2>13. \A i \in 1 .. (Len(new) - 1) : new[i] < new[i + 1]
      <3> SUFFICES ASSUME NEW i \in 1 .. (Len(new) - 1) PROVE new[i] < new[i + 1]
        OBVIOUS
      <3>1. CASE i = Len(serial.got)
        BY <3>1, <2>7, <2>10, <2>11
      <3>2. CASE i # Len(serial.got)
        <4>1. i \in 1 .. (Len(serial.got) - 1)
          BY <3>2, <2>7, <2>10
        <4>2. serial.got[i] < serial.got[i + 1]
          BY <4>1 DEF SerialInv, RxAtMostOnce
        <4> QED BY <4>1, <4>2, <2>7, <2>10
      <3> QED BY <3>1, <3>2
    <2> QED BY <2>3, <2>5, <2>8, <2>9, <2>12, <2>13 DEF SerialInv, RxAtMostOnce
  <1>5. ASSUME NEW v \in {0, 3, 9}, NEW mie \in BOOLEAN, Control(v, mie)
        PROVE  SerialInv'
    <2>1. serial' = serial /\ scc' = WriteControl(scc, v, mie)
      BY <1>5 DEF Control
    <2>2. scc' \in SccType /\ scc'.byte = scc.byte /\ scc'.avail = scc.avail
      <3>1. CASE scc.ptr = 0
        BY <2>1, <3>1 DEF WriteControl, SerialInv, SccType
      <3>2. CASE scc.ptr # 0
        <4> DEFINE on == scc.irqOn \/ (scc.ptr = 9 /\ mie)
        <4>1. scc' = [scc EXCEPT !.ptr = 0, !.irqOn = on] /\ on \in BOOLEAN
          BY <2>1, <3>2, <1>1 DEF WriteControl
        <4> HIDE DEF on
        <4>2. scc \in SccType
          BY DEF SerialInv
        <4>3. /\ scc = [ptr |-> scc.ptr, irqOn |-> scc.irqOn, byte |-> scc.byte, avail |-> scc.avail]
              /\ scc.byte \in [Channels -> Nat] /\ scc.avail \in [Channels -> BOOLEAN]
          BY <4>2 DEF SccType
        <4>4. scc' = [ptr |-> 0, irqOn |-> on, byte |-> scc.byte, avail |-> scc.avail]
          BY <4>1, <4>3
        <4>5. scc' \in SccType
          <5>1. 0 \in 0 .. 15
            OBVIOUS
          <5> QED BY <4>1, <4>3, <4>4, <5>1, Zenon DEF SccType
        <4> QED BY <4>4, <4>5
      <3> QED BY <3>1, <3>2
    <2> QED BY <2>1, <2>2 DEF SerialInv, RxAtMostOnce
  <1> QED BY <1>2, <1>3, <1>4, <1>5 DEF Serial

-----------------------------------------------------------------------------
\* Clock chip.

\* Widths, and where the bits of a command lie.
LEMMA BitFacts ==
    /\ Bits \in Nat /\ Bits >= 2 /\ CellBits \in Nat /\ CellBits >= 1 /\ CellBits < Bits
    /\ ZeroByte \in Byte
    /\ \A cmd \in Byte : Cell(cmd) \in Cells
    /\ \A b \in Byte, k \in 1 .. Bits : b[k] \in BOOLEAN
  <1>1. Bits \in Nat /\ Bits >= 2 /\ CellBits \in Nat /\ CellBits >= 1 /\ CellBits < Bits
    BY RtcAssumption
  <1>2. ZeroByte \in Byte
    BY FALSE \in BOOLEAN DEF ZeroByte, Byte
  <1>3. CellPlaces \subseteq 1 .. Bits
    BY <1>1 DEF CellPlaces
  <1>4. ASSUME NEW cmd \in Byte PROVE Cell(cmd) \in Cells
    BY <1>3 DEF Cell, Cells, Byte
  <1> QED BY <1>1, <1>2, <1>4 DEF Byte

\* The byte a command selects.
LEMMA PreloadTyped ==
    ASSUME NEW r \in RtcType, NEW cmd \in Byte
    PROVE  Preload(r, cmd) \in Byte
  <1>1. r.pram \in [Cells -> Byte] /\ Cell(cmd) \in Cells
    BY BitFacts DEF RtcType
  <1>2. \A reg \in ClockRegs : ClockBytes[reg] \in Byte
    BY RtcAssumption
  <1> QED BY <1>1, <1>2 DEF Preload

\* It depends on nothing but the parameter RAM.
LEMMA PreloadSame ==
    ASSUME NEW r, NEW q, NEW cmd, q.pram = r.pram
    PROVE  Preload(q, cmd) = Preload(r, cmd)
  BY DEF Preload

\* Bytes with the same bits are equal.
LEMMA SameBits ==
    ASSUME NEW b \in Byte, NEW c \in Byte, \A k \in 1 .. Bits : b[k] = c[k]
    PROVE  b = c
  <1>1. b = [k \in 1 .. Bits |-> b[k]] /\ c = [k \in 1 .. Bits |-> c[k]]
    BY DEF Byte
  <1> QED BY <1>1

\* A bit goes in at the low end.
LEMMA ShiftInFacts ==
    ASSUME NEW r \in RtcType, NEW data \in BOOLEAN
    PROVE  /\ ShiftIn(r, data) \in Byte
           /\ ShiftIn(r, data)[Bits] = data
           /\ \A k \in 1 .. (Bits - 1) : ShiftIn(r, data)[k] = r.shift[k + 1]
  <1>1. Bits \in Nat /\ Bits >= 2 /\ r.shift \in [1 .. Bits -> BOOLEAN]
    BY BitFacts DEF RtcType, Byte
  <1>2. \A k \in 1 .. Bits : k # Bits => k + 1 \in 1 .. Bits /\ r.shift[k + 1] \in BOOLEAN
    BY <1>1
  <1>3. ASSUME NEW k \in 1 .. Bits
        PROVE  (IF k = Bits THEN data ELSE r.shift[k + 1]) \in BOOLEAN
    BY <1>2
  <1>4. ShiftIn(r, data) \in Byte
    BY <1>3 DEF ShiftIn, Byte
  <1>5. ShiftIn(r, data)[Bits] = data
    BY <1>1 DEF ShiftIn
  <1>6. \A k \in 1 .. (Bits - 1) : ShiftIn(r, data)[k] = r.shift[k + 1]
    BY <1>1 DEF ShiftIn
  <1> QED BY <1>4, <1>5, <1>6

\* The bit of a transfer that is on the line, and the outcome of a rising clock with it.
LineBit(cmd, val, t) == IF t < Bits THEN cmd[t + 1] ELSE val[t - Bits + 1]
TookBit(r, q, cmd, val, t) ==
    /\ q \in RtcType
    /\ Chip(q, cmd, val, t + 1)
    /\ t = 2 * Bits - 1 /\ ~ReadBit(cmd) => q.pram = [r.pram EXCEPT ![Cell(cmd)] = val]
    /\ t # 2 * Bits - 1 \/ ReadBit(cmd) => q.pram = r.pram
    /\ ReadBit(cmd) /\ t >= Bits => q.out = Preload(r, cmd)[t - Bits + 1]

\* A rising clock with bit t of the transfer on the line takes the chip from t bits to
\* t + 1; the parameter RAM changes with the last bit of a write only, and the bit that
\* is read is the next one of the selected byte.
LEMMA TakeBit ==
    ASSUME NEW r \in RtcType, NEW cmd \in Byte, NEW val \in Byte, NEW t \in 0 .. (2 * Bits - 1),
           Chip(r, cmd, val, t), r.clk = FALSE, NEW data,
           data = LineBit(cmd, val, t), NEW q, q = RtcWrite(r, TRUE, TRUE, data)
    PROVE  TookBit(r, q, cmd, val, t)
  <1> DEFINE p == [r EXCEPT !.clk = TRUE]
             b == ShiftIn(p, data)
  <1>1. Bits \in Nat /\ Bits >= 2 /\ t \in Nat /\ t < 2 * Bits
    BY BitFacts
  <1>2. data \in BOOLEAN
    <2>1. CASE t < Bits
      BY <2>1, <1>1, BitFacts DEF LineBit
    <2>2. CASE t >= Bits
      BY <2>2, <1>1, BitFacts DEF LineBit
    <2> QED BY <2>1, <2>2, <1>1
  <1>3. /\ p \in RtcType /\ p.state = r.state /\ p.shift = r.shift /\ p.count = r.count
        /\ p.cmd = r.cmd /\ p.out = r.out /\ p.pram = r.pram
    BY TRUE \in BOOLEAN DEF RtcType
  <1>4. q = CASE p.state = "command" -> CommandBit(p, data)
              [] p.state = "write" -> WriteBit(p, data)
              [] p.state = "read" -> ReadOutBit(p)
    BY DEF RtcWrite
  <1> HIDE DEF p
  <1>5. b \in Byte /\ b[Bits] = data /\ \A k \in 1 .. (Bits - 1) : b[k] = r.shift[k + 1]
    BY <1>2, <1>3, ShiftInFacts
  <1> HIDE DEF b
  <1>6. p.count \in 0 .. (Bits - 1) /\ p.count \in Nat
    BY <1>1, <1>3 DEF RtcType
  <1>7. CASE t + 1 < Bits
    <2>1. r.state = "command" /\ r.count = t /\ \A k \in 1 .. t : r.shift[Bits - t + k] = cmd[k]
      BY <1>1, <1>7 DEF Chip, InCommand
    <2>2. q = [p EXCEPT !.shift = b, !.count = t + 1]
      BY <1>3, <1>4, <1>7, <2>1 DEF CommandBit, b, RtcType
    <2>3. t + 1 \in 0 .. (Bits - 1)
      BY <1>1, <1>7
    <2>4. q \in RtcType /\ q.state = "command" /\ q.count = t + 1 /\ q.shift = b /\ q.pram = r.pram
      BY <1>3, <1>5, <2>1, <2>2, <2>3 DEF RtcType
    <2>5. ASSUME NEW k \in 1 .. (t + 1) PROVE b[Bits - (t + 1) + k] = cmd[k]
      <3>1. CASE k = t + 1
        <4>1. Bits - (t + 1) + k = Bits /\ t < Bits
          BY <3>1, <1>1, <1>7
        <4>2. data = cmd[t + 1]
          BY <4>1 DEF LineBit
        <4> QED BY <3>1, <4>1, <4>2, <1>5
      <3>2. CASE k # t + 1
        <4>1. k \in 1 .. t /\ Bits - (t + 1) + k \in 1 .. (Bits - 1)
              /\ Bits - (t + 1) + k + 1 = Bits - t + k
          BY <3>2, <1>1, <1>7
        <4> QED BY <4>1, <1>5, <2>1
      <3> QED BY <3>1, <3>2
    <2>6. InCommand(q, cmd, t + 1)
      BY <2>4, <2>5, Zenon DEF InCommand
    <2>7. ~(t + 1 >= Bits) /\ t + 1 # 2 * Bits /\ t # 2 * Bits - 1 /\ ~(t >= Bits)
      BY <1>1, <1>7
    <2> QED BY <2>4, <2>6, <2>7, Zenon DEF TookBit, Chip
  <1>8. CASE t + 1 = Bits
    <2>1. r.state = "command" /\ r.count = t /\ \A k \in 1 .. t : r.shift[Bits - t + k] = cmd[k]
      BY <1>1, <1>8 DEF Chip, InCommand
    <2>2. b = cmd
      <3>1. ASSUME NEW k \in 1 .. Bits PROVE b[k] = cmd[k]
        <4>1. CASE k = Bits
          BY <4>1, <1>1, <1>5, <1>8 DEF LineBit
        <4>2. CASE k # Bits
          <5>1. k \in 1 .. t /\ k \in 1 .. (Bits - 1) /\ Bits - t + k = k + 1
            BY <4>2, <1>1, <1>8
          <5> QED BY <5>1, <1>5, <2>1
        <4> QED BY <4>1, <4>2
      <3> QED BY <3>1, <1>5, SameBits
    <2>3. q = IF ReadBit(cmd)
              THEN [p EXCEPT !.shift = Preload(p, cmd), !.count = 0, !.cmd = cmd, !.state = "read"]
              ELSE [p EXCEPT !.shift = cmd, !.count = 0, !.cmd = cmd, !.state = "write"]
      <3>1. ~(p.count + 1 < Bits)
        BY <1>1, <1>3, <1>8, <2>1
      <3>2. q = CommandBit(p, data)
        BY <1>3, <1>4, <2>1
      <3> QED BY <2>2, <3>1, <3>2 DEF CommandBit, b
    <2>4. Preload(p, cmd) \in Byte
      BY <1>3, PreloadTyped
    <2>5. 0 \in 0 .. (Bits - 1)
      BY <1>1
    <2>6. /\ ~(t + 1 < Bits) /\ t + 1 # 2 * Bits /\ (t + 1) - Bits = 0
          /\ t # 2 * Bits - 1 /\ ~(t >= Bits)
      BY <1>1, <1>8
    <2>7. q \in RtcType /\ q.pram = r.pram /\ InByte(q, cmd, val, 0)
      <3>1. CASE ReadBit(cmd)
        <4>1. q = [p EXCEPT !.shift = Preload(p, cmd), !.count = 0, !.cmd = cmd, !.state = "read"]
          BY <2>3, <3>1
        <4>2. /\ q \in RtcType /\ q.shift = Preload(p, cmd) /\ q.count = 0 /\ q.cmd = cmd
              /\ q.state = "read" /\ q.pram = r.pram /\ q.pram = p.pram
          BY <4>1, <2>4, <2>5, <1>3 DEF RtcType
        <4>3. Preload(q, cmd) = Preload(p, cmd)
          <5>1. q.pram = p.pram
            BY <4>2
          <5> QED BY <5>1 DEF Preload
        <4>4. \A k \in 1 .. (Bits - 0) : k + 0 = k
          BY <1>1
        <4> QED BY <3>1, <4>2, <4>3, <4>4 DEF InByte
      <3>2. CASE ~ReadBit(cmd)
        <4>1. q = [p EXCEPT !.shift = cmd, !.count = 0, !.cmd = cmd, !.state = "write"]
          BY <2>3, <3>2
        <4>2. /\ q \in RtcType /\ q.count = 0 /\ q.cmd = cmd
              /\ q.state = "write" /\ q.pram = r.pram
          BY <4>1, <2>5, <1>3 DEF RtcType
        <4>3. ~\E k \in 1 .. 0 : TRUE
          OBVIOUS
        <4> QED BY <3>2, <4>2, <4>3, Zenon DEF InByte
      <3> QED BY <3>1, <3>2
    <2>8. InByte(q, cmd, val, (t + 1) - Bits)
      BY <2>6, <2>7, Zenon
    <2> QED BY <2>6, <2>7, <2>8, Zenon DEF TookBit, Chip
  <1>9. CASE t >= Bits
    <2> DEFINE n == t - Bits
    <2>1. n \in Nat /\ n < Bits /\ (t + 1 < 2 * Bits <=> n + 1 < Bits)
          /\ (t + 1 = 2 * Bits <=> n + 1 = Bits) /\ (t = 2 * Bits - 1 <=> n + 1 = Bits)
          /\ (t + 1) - Bits = n + 1 /\ ~(t + 1 < Bits) /\ (n + 1 < Bits \/ n + 1 = Bits)
      BY <1>1, <1>9
    <2>2. InByte(r, cmd, val, n) /\ data = val[n + 1]
      BY <1>1, <1>9 DEF Chip, LineBit
    <2>3. q \in RtcType /\ (n + 1 < Bits => InByte(q, cmd, val, n + 1))
          /\ (n + 1 = Bits => q.state = "command" /\ q.count = 0)
          /\ (n + 1 = Bits /\ ~ReadBit(cmd) => q.pram = [r.pram EXCEPT ![Cell(cmd)] = val])
          /\ (n + 1 # Bits \/ ReadBit(cmd) => q.pram = r.pram)
          /\ (ReadBit(cmd) => q.out = Preload(r, cmd)[n + 1])
      <3> HIDE DEF n
      <3>1. CASE ReadBit(cmd)
        <4> DEFINE v == Preload(r, cmd)
                   e == ShiftIn(p, FALSE)
        <4>1. /\ r.cmd = cmd /\ r.count = n /\ r.state = "read"
              /\ \A k \in 1 .. (Bits - n) : r.shift[k] = v[k + n]
          BY <2>2, <3>1 DEF InByte
        <4>2. q = [p EXCEPT !.out = p.shift[1], !.shift = e,
                            !.count = IF p.count + 1 = Bits THEN 0 ELSE @ + 1,
                            !.state = IF p.count + 1 = Bits THEN "command" ELSE @]
          BY <1>3, <1>4, <4>1 DEF ReadOutBit
        <4>3. e \in Byte /\ \A k \in 1 .. (Bits - 1) : e[k] = r.shift[k + 1]
          BY <1>3, ShiftInFacts
        <4> HIDE DEF e, v
        <4>4. r.shift[1] = v[n + 1] /\ r.shift[1] \in BOOLEAN
          <5>1. 1 \in 1 .. (Bits - n) /\ 1 + n = n + 1 /\ 1 \in 1 .. Bits
            BY <1>1, <2>1
          <5> QED BY <5>1, <4>1, BitFacts DEF RtcType
        <4>5. CASE n + 1 < Bits
          <5>1. p.count + 1 # Bits /\ p.count + 1 = n + 1 /\ n + 1 \in 0 .. (Bits - 1)
            BY <1>1, <1>3, <2>1, <4>1, <4>5
          <5>2. q = [p EXCEPT !.out = r.shift[1], !.shift = e, !.count = n + 1]
            BY <4>2, <5>1, <1>3 DEF RtcType
          <5>3. /\ q \in RtcType /\ q.shift = e /\ q.count = n + 1 /\ q.cmd = cmd
                /\ q.state = "read" /\ q.pram = r.pram /\ q.out = r.shift[1]
            BY <5>1, <5>2, <4>1, <4>3, <4>4, <1>3 DEF RtcType
          <5>4. Preload(q, cmd) = v
            BY <5>3, PreloadSame DEF v
          <5>5. ASSUME NEW k \in 1 .. (Bits - (n + 1)) PROVE e[k] = v[k + (n + 1)]
            <6>1. k \in 1 .. (Bits - 1) /\ k + 1 \in 1 .. (Bits - n) /\ k + 1 + n = k + (n + 1)
              BY <1>1, <2>1, <4>5
            <6> QED BY <6>1, <4>1, <4>3
          <5>6. InByte(q, cmd, val, n + 1)
            BY <3>1, <5>3, <5>4, <5>5 DEF InByte
          <5>7. n + 1 # Bits
            BY <2>1, <4>5
          <5> QED BY <3>1, <4>4, <5>3, <5>6, <5>7, Zenon DEF v
        <4>6. CASE n + 1 = Bits
          <5>1. p.count + 1 = Bits /\ 0 \in 0 .. (Bits - 1) /\ ~(n + 1 < Bits)
            BY <1>1, <1>3, <2>1, <4>1, <4>6
          <5>2. q = [p EXCEPT !.out = r.shift[1], !.shift = e, !.count = 0, !.state = "command"]
            BY <4>2, <5>1, <1>3 DEF e
          <5>3. /\ q \in RtcType /\ q.count = 0
                /\ q.state = "command" /\ q.pram = r.pram /\ q.out = r.shift[1]
            <6> DEFINE z == [p EXCEPT !.out = r.shift[1], !.shift = e, !.count = 0]
            <6>1. /\ z \in RtcType /\ z.count = 0 /\ z.pram = r.pram /\ z.out = r.shift[1]
              BY <5>1, <4>3, <4>4, <1>3 DEF RtcType
            <6>2. q = [z EXCEPT !.state = "command"]
              BY <5>2, <1>3 DEF RtcType
            <6> HIDE DEF z
            <6> QED BY <6>1, <6>2 DEF RtcType
          <5> QED BY <3>1, <4>4, <4>6, <5>1, <5>3, Zenon DEF v
        <4> QED BY <4>5, <4>6, <2>1
      <3>2. CASE ~ReadBit(cmd)
        <4>1. /\ r.cmd = cmd /\ r.count = n /\ r.state = "write"
              /\ \A k \in 1 .. n : r.shift[Bits - n + k] = val[k]
          BY <2>2, <3>2 DEF InByte
        <4>2. CASE n + 1 < Bits
          <5>1. p.count + 1 < Bits /\ p.count + 1 = n + 1 /\ n + 1 \in 0 .. (Bits - 1)
            BY <1>1, <1>3, <2>1, <4>1, <4>2
          <5>2. q = [p EXCEPT !.shift = b, !.count = n + 1]
            BY <1>3, <1>4, <4>1, <5>1 DEF WriteBit, b, RtcType
          <5>3. /\ q \in RtcType /\ q.shift = b /\ q.count = n + 1 /\ q.cmd = cmd
                /\ q.state = "write" /\ q.pram = r.pram
            BY <5>1, <5>2, <4>1, <1>3, <1>5 DEF RtcType
          <5>4. ASSUME NEW k \in 1 .. (n + 1) PROVE b[Bits - (n + 1) + k] = val[k]
            <6>1. CASE k = n + 1
              <7>1. Bits - (n + 1) + k = Bits
                BY <6>1, <1>1, <2>1
              <7> QED BY <6>1, <7>1, <1>5, <2>2
            <6>2. CASE k # n + 1
              <7>1. k \in 1 .. n /\ Bits - (n + 1) + k \in 1 .. (Bits - 1)
                    /\ Bits - (n + 1) + k + 1 = Bits - n + k
                BY <6>2, <1>1, <2>1, <4>2
              <7> QED BY <7>1, <1>5, <4>1
            <6> QED BY <6>1, <6>2
          <5>5. InByte(q, cmd, val, n + 1)
            BY <3>2, <5>3, <5>4 DEF InByte
          <5>6. n + 1 # Bits
            BY <2>1, <4>2
          <5> QED BY <3>2, <5>3, <5>5, <5>6, Zenon
        <4>3. CASE n + 1 = Bits
          <5>1. b = val
            <6>1. ASSUME NEW k \in 1 .. Bits PROVE b[k] = val[k]
              <7>1. CASE k = Bits
                BY <7>1, <4>3, <1>5, <2>2
              <7>2. CASE k # Bits
                <8>1. k \in 1 .. n /\ k \in 1 .. (Bits - 1) /\ Bits - n + k = k + 1
                  BY <7>2, <1>1, <2>1, <4>3
                <8> QED BY <8>1, <1>5, <4>1
              <7> QED BY <7>1, <7>2
            <6> QED BY <6>1, <1>5, SameBits
          <5>2. ~(p.count + 1 < Bits) /\ 0 \in 0 .. (Bits - 1) /\ ~(n + 1 < Bits)
            BY <1>1, <1>3, <2>1, <4>1, <4>3
          <5>3. q = [p EXCEPT !.shift = val, !.count = 0, !.state = "command", !.pram[Cell(cmd)] = val]
            BY <1>3, <1>4, <4>1, <5>1, <5>2 DEF WriteBit, b
          <5>4. q.pram = [r.pram EXCEPT ![Cell(cmd)] = val]
            BY <5>3, <1>3 DEF RtcType
          <5>5. [r.pram EXCEPT ![Cell(cmd)] = val] \in [Cells -> Byte]
            BY BitFacts DEF RtcType
          <5>6. q \in RtcType /\ q.count = 0 /\ q.state = "command"
            BY <5>2, <5>3, <5>4, <5>5, <1>3 DEF RtcType
          <5> QED BY <3>2, <4>3, <5>2, <5>4, <5>6, Zenon
        <4> QED BY <4>2, <4>3, <2>1
      <3> QED BY <3>1, <3>2
    <2>4. t + 1 < 2 * Bits => InByte(q, cmd, val, (t + 1) - Bits)
      BY <2>1, <2>3, Zenon
    <2>5. t - Bits + 1 = n + 1
      OBVIOUS
    <2> HIDE DEF n
    <2> QED BY <2>1, <2>3, <2>4, <2>5, Zenon DEF TookBit, Chip
  <1>10. t + 1 < Bits \/ t + 1 = Bits \/ t >= Bits
    BY <1>1
  <1> QED BY <1>7, <1>8, <1>9, <1>10, Zenon

\* The place of a transfer in the chip's fields other than its clock and its output.
LEMMA ChipSame ==
    ASSUME NEW r, NEW q, NEW cmd, NEW val, NEW t, Chip(r, cmd, val, t),
           q.state = r.state, q.shift = r.shift, q.count = r.count, q.cmd = r.cmd,
           q.pram = r.pram
    PROVE  Chip(q, cmd, val, t)
  <1>1. Preload(q, cmd) = Preload(r, cmd)
    BY DEF Preload
  <1>2. ASSUME NEW n, InCommand(r, cmd, n) PROVE InCommand(q, cmd, n)
    BY <1>2 DEF InCommand
  <1>3. ASSUME NEW n, InByte(r, cmd, val, n) PROVE InByte(q, cmd, val, n)
    BY <1>1, <1>3, Zenon DEF InByte
  <1> QED BY <1>2, <1>3, Zenon DEF Chip

\* The state of the driver, field by field.
LEMMA DrvFacts ==
    ASSUME drv \in DrvType
    PROVE  /\ drv.phase \in {"idle", "low", "high", "sample", "done"}
           /\ drv.cmd \in Byte /\ drv.val \in Byte /\ drv.i \in 0 .. (2 * Bits)
           /\ drv.i \in Nat /\ drv.got \in Seq(BOOLEAN) /\ Reading \in BOOLEAN
           /\ Cell(drv.cmd) \in Cells
  <1>1. /\ drv.phase \in {"idle", "low", "high", "sample", "done"}
        /\ drv.cmd \in Byte /\ drv.val \in Byte /\ drv.i \in 0 .. (2 * Bits)
        /\ drv.got \in Seq(BOOLEAN)
    BY DEF DrvType
  <1>2. drv.i \in Nat
    BY <1>1, BitFacts
  <1>3. Reading \in BOOLEAN
    <2>1. 1 \in 1 .. Bits
      BY BitFacts
    <2> QED BY <1>1, <2>1, BitFacts DEF Reading, ReadBit
  <1> QED BY <1>1, <1>2, <1>3, BitFacts

\* Starting a transfer.
LEMMA StartKeeps ==
    ASSUME ClockInv, NEW cmd \in Byte, NEW val \in Values, StartTransfer(cmd, val)
    PROVE  ClockInv'
  <1>1. /\ drv.phase \in {"idle", "done"} /\ rtc' = rtc /\ written' = written
        /\ drv' = [phase |-> "low", cmd |-> cmd, val |-> val, i |-> 0, got |-> <<>>]
    BY DEF StartTransfer, Idle
  <1>2. /\ drv'.phase = "low" /\ drv'.cmd = cmd /\ drv'.val = val /\ drv'.i = 0 /\ drv'.got = <<>>
    BY <1>1
  <1>3. Bits \in Nat /\ Bits >= 2 /\ val \in Byte
    BY BitFacts, BusAssumption
  <1>4. drv' \in DrvType
    <2>1. 0 \in 0 .. (2 * Bits) /\ <<>> \in Seq(BOOLEAN)
      BY <1>3
    <2> QED BY <1>1, <1>3, <2>1 DEF DrvType
  <1>5. rtc.state = "command" /\ rtc.count = 0
    <2>1. Chip(rtc, drv.cmd, drv.val, Taken)
      BY DEF ClockInv
    <2>2. CASE drv.phase = "idle"
      <3>1. Taken = 0 /\ 0 < Bits
        BY <2>2, <1>3 DEF ClockInv, Taken
      <3> QED BY <2>1, <3>1 DEF Chip, InCommand
    <2>3. CASE drv.phase = "done"
      <3>1. Taken = 2 * Bits
        BY <2>3, <1>3 DEF ClockInv, Taken
      <3> QED BY <2>1, <3>1 DEF Chip
    <2> QED BY <1>1, <2>2, <2>3
  <1>6. Chip(rtc, cmd, val, 0)
    <2>1. 0 < Bits /\ ~(0 >= Bits) /\ 0 # 2 * Bits /\ ~\E k \in 1 .. 0 : TRUE
      BY <1>3
    <2> QED BY <1>5, <2>1, Zenon DEF Chip, InCommand
  <1>7. Taken' = 0
    BY <1>2 DEF Taken
  <1>8. ~JustWritten /\ ~JustWritten'
    BY <1>1, <1>2 DEF JustWritten
  <1>9. rtc.pram = written /\ rtc' \in RtcType /\ written' \in [Cells -> Byte]
    BY <1>1, <1>8, Zenon DEF ClockInv
  <1>10. Chip(rtc', drv'.cmd, drv'.val, Taken')
    BY <1>1, <1>2, <1>6, <1>7, Zenon
  <1>11. ~(drv'.i > Bits) /\ drv'.i < 2 * Bits
    BY <1>2, <1>3
  <1>12. Len(drv'.got) = 0 /\ ~\E k \in 1 .. Len(drv'.got) : TRUE
    BY <1>2
  <1> QED BY <1>1, <1>2, <1>4, <1>8, <1>9, <1>10, <1>11, <1>12 DEF ClockInv, Reading

\* The falling clock.
LEMMA LowKeeps ==
    ASSUME ClockInv, ClockLow
    PROVE  ClockInv'
  <1>1. /\ drv.phase = "low" /\ written' = written
        /\ rtc' = [rtc EXCEPT !.clk = FALSE] /\ drv' = [drv EXCEPT !.phase = "high"]
    BY DEF ClockLow, RtcWrite
  <1>2. /\ rtc' \in RtcType /\ rtc'.clk = FALSE /\ rtc'.state = rtc.state
        /\ rtc'.shift = rtc.shift /\ rtc'.count = rtc.count /\ rtc'.cmd = rtc.cmd
        /\ rtc'.pram = rtc.pram
    BY <1>1, FALSE \in BOOLEAN DEF ClockInv, RtcType
  <1>3. /\ drv' \in DrvType /\ drv'.phase = "high" /\ drv'.cmd = drv.cmd /\ drv'.val = drv.val
        /\ drv'.i = drv.i /\ drv'.got = drv.got
    BY <1>1 DEF ClockInv, DrvType
  <1>4. Taken' = Taken
    BY <1>1, <1>3 DEF Taken
  <1>5. Chip(rtc, drv.cmd, drv.val, Taken)
    BY DEF ClockInv
  <1>6. Chip(rtc', drv'.cmd, drv'.val, Taken')
    <2>1. Chip(rtc', drv.cmd, drv.val, Taken)
      BY <1>2, <1>5, ChipSame
    <2> QED BY <2>1, <1>3, <1>4, Zenon
  <1>7. ~JustWritten /\ ~JustWritten'
    BY <1>1, <1>3 DEF JustWritten
  <1>8. rtc'.pram = written'
    BY <1>1, <1>2, <1>7, Zenon DEF ClockInv
  <1>9. Preload(rtc', drv'.cmd) = Preload(rtc, drv.cmd) /\ (Reading' <=> Reading)
    BY <1>2, <1>3 DEF Preload, Reading
  <1> QED BY <1>1, <1>2, <1>3, <1>6, <1>7, <1>8, <1>9 DEF ClockInv

\* The rising clock: the chip takes the bit on the line.
LEMMA HighKeeps ==
    ASSUME ClockInv, ClockHigh
    PROVE  ClockInv'
  <1>1. /\ drv.phase = "high" /\ written' = written
        /\ rtc' = RtcWrite(rtc, TRUE, TRUE, DataBit) /\ drv' = [drv EXCEPT !.phase = "sample"]
    BY DEF ClockHigh
  <1>2. /\ drv' \in DrvType /\ drv'.phase = "sample" /\ drv'.cmd = drv.cmd /\ drv'.val = drv.val
        /\ drv'.i = drv.i /\ drv'.got = drv.got
    BY <1>1 DEF ClockInv, DrvType
  <1>3. drv \in DrvType
    BY DEF ClockInv
  <1>4. Bits \in Nat /\ Bits >= 2 /\ drv.i \in Nat /\ drv.i < 2 * Bits
    BY <1>1, <1>3, BitFacts, DrvFacts DEF ClockInv
  <1>5. Taken = drv.i /\ Taken' = drv.i + 1
    BY <1>1, <1>2, <1>4 DEF Taken
  <1>6. Chip(rtc, drv.cmd, drv.val, drv.i)
    BY <1>5, Zenon DEF ClockInv
  <1>7. TookBit(rtc, rtc', drv.cmd, drv.val, drv.i)
    <2>1. drv.i \in 0 .. (2 * Bits - 1)
      BY <1>4
    <2>2. rtc \in RtcType /\ rtc.clk = FALSE
      BY <1>1, Zenon DEF ClockInv
    <2>3. DataBit = LineBit(drv.cmd, drv.val, drv.i)
      BY DEF DataBit, LineBit
    <2> QED BY <1>1, <1>3, <1>6, <2>1, <2>2, <2>3, DrvFacts, TakeBit
  <1>8. rtc' \in RtcType /\ Chip(rtc', drv'.cmd, drv'.val, Taken')
    BY <1>2, <1>5, <1>7, Zenon DEF TookBit
  <1>9. rtc.pram = written
    <2>1. ~JustWritten
      BY <1>1 DEF JustWritten
    <2> QED BY <2>1, Zenon DEF ClockInv
  <1>10. Reading' <=> Reading
    BY <1>2 DEF Reading
  <1>11. JustWritten' <=> drv.i = 2 * Bits - 1 /\ ~Reading
    BY <1>2, <1>10 DEF JustWritten
  <1>12. rtc'.pram = IF JustWritten' THEN [written' EXCEPT ![Cell(drv'.cmd)] = drv'.val] ELSE written'
    <2>1. CASE JustWritten'
      <3>1. rtc'.pram = [rtc.pram EXCEPT ![Cell(drv.cmd)] = drv.val]
        BY <2>1, <1>7, <1>11, Zenon DEF TookBit, Reading
      <3> QED BY <2>1, <3>1, <1>1, <1>2, <1>9, Zenon
    <2>2. CASE ~JustWritten'
      <3>1. rtc'.pram = rtc.pram
        BY <2>2, <1>7, <1>11, Zenon DEF TookBit, Reading
      <3> QED BY <2>2, <3>1, <1>1, <1>9, Zenon
    <2> QED BY <2>1, <2>2, Zenon
  <1>13. ASSUME Reading PROVE Preload(rtc', drv'.cmd) = Preload(rtc, drv.cmd)
    <2>1. rtc'.pram = rtc.pram
      BY <1>13, <1>7, Zenon DEF TookBit, Reading
    <2> QED BY <2>1, <1>2 DEF Preload
  <1>14. ASSUME Reading, drv.i >= Bits
         PROVE  rtc'.out = Preload(rtc, drv.cmd)[drv.i - Bits + 1]
    BY <1>14, <1>7, Zenon DEF TookBit, Reading
  <1>15. \A k \in 1 .. Len(drv'.got) : drv'.got[k] = Preload(rtc', drv'.cmd)[k]
    <2>1. CASE Reading
      BY <2>1, <1>2, <1>13 DEF ClockInv
    <2>2. CASE ~Reading
      <3>1. Len(drv'.got) = 0
        BY <2>2, <1>2 DEF ClockInv
      <3> QED BY <3>1
    <2> QED BY <2>1, <2>2
  <1>16. Len(drv'.got) = IF Reading' /\ drv'.i > Bits THEN drv'.i - Bits ELSE 0
    BY <1>2, <1>10, Zenon DEF ClockInv
  <1>17. drv'.phase = "sample" /\ Reading' /\ drv'.i >= Bits =>
             rtc'.out = Preload(rtc', drv'.cmd)[drv'.i - Bits + 1]
    BY <1>2, <1>10, <1>13, <1>14, Zenon
  <1>18. written' \in [Cells -> Byte]
    BY <1>1, Zenon DEF ClockInv
  <1> QED BY <1>2, <1>4, <1>8, <1>12, <1>15, <1>16, <1>17, <1>18 DEF ClockInv

\* A bit at the end of the bits read so far.
LEMMA BitAppended ==
    ASSUME NEW s \in Seq(BOOLEAN), NEW bit \in BOOLEAN
    PROVE  /\ Append(s, bit) \in Seq(BOOLEAN)
           /\ Len(Append(s, bit)) = Len(s) + 1
           /\ \A k \in 1 .. Len(s) : Append(s, bit)[k] = s[k]
           /\ Append(s, bit)[Len(s) + 1] = bit
  BY AppendProperties

\* The driver reads PB0 and counts the bit.
LEMMA SampleKeeps ==
    ASSUME ClockInv, Sample
    PROVE  ClockInv'
  <1> DEFINE last == drv.i + 1 = 2 * Bits
             reads == Reading /\ drv.i >= Bits
  <1>1. /\ drv.phase = "sample" /\ rtc' = rtc
        /\ drv' = [drv EXCEPT !.i = drv.i + 1, !.phase = IF last THEN "done" ELSE "low",
                              !.got = IF reads THEN Append(drv.got, rtc.out) ELSE drv.got]
        /\ written' = IF last /\ ~Reading
                      THEN [written EXCEPT ![Cell(drv.cmd)] = drv.val] ELSE written
    BY DEF Sample, ClockInv, DrvType
  <1>2. drv \in DrvType /\ rtc \in RtcType /\ written \in [Cells -> Byte]
    BY DEF ClockInv
  <1>3. Bits \in Nat /\ Bits >= 2 /\ drv.i \in Nat /\ drv.i < 2 * Bits
        /\ Reading \in BOOLEAN /\ last \in BOOLEAN
    BY <1>1, <1>2, BitFacts, DrvFacts DEF ClockInv
  <1> DEFINE g == IF reads THEN Append(drv.got, rtc.out) ELSE drv.got
  <1>4. /\ g \in Seq(BOOLEAN)
        /\ Len(g) = Len(drv.got) + (IF reads THEN 1 ELSE 0)
        /\ \A k \in 1 .. Len(drv.got) : g[k] = drv.got[k]
        /\ reads => g[Len(drv.got) + 1] = rtc.out
    <2>1. rtc.out \in BOOLEAN /\ drv.got \in Seq(BOOLEAN)
      BY <1>2, DrvFacts DEF RtcType
    <2>2. /\ Append(drv.got, rtc.out) \in Seq(BOOLEAN)
          /\ Len(Append(drv.got, rtc.out)) = Len(drv.got) + 1
          /\ \A k \in 1 .. Len(drv.got) : Append(drv.got, rtc.out)[k] = drv.got[k]
          /\ Append(drv.got, rtc.out)[Len(drv.got) + 1] = rtc.out
      BY <2>1, BitAppended
    <2>3. Len(drv.got) + 0 = Len(drv.got)
      BY <2>1, LenProperties
    <2> HIDE DEF reads
    <2>4. CASE reads
      <3>1. g = Append(drv.got, rtc.out)
        BY <2>4 DEF g
      <3> QED BY <2>2, <2>4, <3>1, Zenon
    <2>5. CASE ~reads
      <3>1. g = drv.got
        BY <2>5 DEF g
      <3> QED BY <2>1, <2>3, <2>5, <3>1, Zenon
    <2> QED BY <2>4, <2>5
  <1> HIDE DEF g
  <1>5. drv' = [drv EXCEPT !.i = drv.i + 1, !.phase = IF last THEN "done" ELSE "low", !.got = g]
    BY <1>1 DEF g
  <1>6. /\ drv' \in DrvType /\ drv'.phase = (IF last THEN "done" ELSE "low")
        /\ drv'.cmd = drv.cmd /\ drv'.val = drv.val /\ drv'.i = drv.i + 1 /\ drv'.got = g
    <2>1. drv.i + 1 \in 0 .. (2 * Bits)
      BY <1>3
    <2> QED BY <1>2, <1>4, <1>5, <2>1 DEF DrvType
  <1>7. Taken = drv.i + 1 /\ Taken' = drv.i + 1
    BY <1>1, <1>3, <1>6 DEF Taken
  <1>8. Chip(rtc', drv'.cmd, drv'.val, Taken')
    <2>1. Chip(rtc, drv.cmd, drv.val, Taken)
      BY DEF ClockInv
    <2> QED BY <2>1, <1>1, <1>6, <1>7, Zenon
  <1>9. /\ Reading' <=> Reading
        /\ Preload(rtc', drv'.cmd) = Preload(rtc, drv.cmd)
    BY <1>1, <1>6 DEF Reading, Preload
  <1>10. Len(drv.got) = IF Reading /\ drv.i > Bits THEN drv.i - Bits ELSE 0
    BY Zenon DEF ClockInv
  <1>11. Len(g) = IF Reading /\ drv.i + 1 > Bits THEN drv.i + 1 - Bits ELSE 0
    <2>1. CASE reads
      BY <2>1, <1>3, <1>4, <1>10
    <2>2. CASE ~reads
      BY <2>2, <1>3, <1>4, <1>10
    <2> QED BY <2>1, <2>2
  <1>12. \A k \in 1 .. Len(g) : g[k] = Preload(rtc, drv.cmd)[k]
    <2> SUFFICES ASSUME NEW k \in 1 .. Len(g) PROVE g[k] = Preload(rtc, drv.cmd)[k]
      OBVIOUS
    <2>1. CASE k \in 1 .. Len(drv.got)
      BY <2>1, <1>4 DEF ClockInv
    <2>2. CASE k \notin 1 .. Len(drv.got)
      <3>1. reads /\ k = Len(drv.got) + 1 /\ k = drv.i - Bits + 1
        BY <2>2, <1>3, <1>4, <1>10
      <3>2. rtc.out = Preload(rtc, drv.cmd)[drv.i - Bits + 1]
        BY <3>1, <1>1 DEF ClockInv
      <3> QED BY <3>1, <3>2, <1>4
    <2> QED BY <2>1, <2>2
  <1>13. JustWritten <=> (last /\ ~Reading)
    BY <1>1, <1>3 DEF JustWritten
  <1>14. ~JustWritten' /\ rtc'.pram = written'
    <2>1. ~JustWritten'
      BY <1>6 DEF JustWritten
    <2>2. rtc.pram = IF JustWritten THEN [written EXCEPT ![Cell(drv.cmd)] = drv.val] ELSE written
      BY Zenon DEF ClockInv
    <2> HIDE DEF last
    <2>3. CASE JustWritten
      BY <2>1, <2>2, <2>3, <1>1, <1>13, Zenon
    <2>4. CASE ~JustWritten
      BY <2>1, <2>2, <2>4, <1>1, <1>13, Zenon
    <2> QED BY <2>3, <2>4
  <1>15. written' \in [Cells -> Byte]
    <2>1. rtc.pram \in [Cells -> Byte]
      BY <1>2 DEF RtcType
    <2> QED BY <2>1, <1>1, <1>14
  <1>16. /\ drv'.phase = "done" => drv'.i = 2 * Bits
         /\ drv'.phase \in {"low", "high", "sample"} => drv'.i < 2 * Bits
         /\ drv'.phase # "idle" /\ drv'.phase # "high" /\ drv'.phase # "sample"
    BY <1>3, <1>6
  <1>17. Len(drv'.got) = IF Reading' /\ drv'.i > Bits THEN drv'.i - Bits ELSE 0
    BY <1>3, <1>6, <1>9, <1>11
  <1>18. \A k \in 1 .. Len(drv'.got) : drv'.got[k] = Preload(rtc', drv'.cmd)[k]
    BY <1>6, <1>9, <1>12
  <1> HIDE DEF last, reads
  <1> QED BY <1>1, <1>2, <1>6, <1>8, <1>14, <1>15, <1>16, <1>17, <1>18, Zenon DEF ClockInv

\* Deselecting the chip.
LEMMA DeselectKeeps ==
    ASSUME ClockInv, NEW clk \in BOOLEAN, Deselect(clk)
    PROVE  ClockInv'
  <1>1. /\ drv.phase \in {"low", "done"} /\ written' = written /\ drv' = Idle
        /\ rtc' = [rtc EXCEPT !.state = "command", !.count = 0, !.clk = clk]
    BY DEF Deselect, RtcWrite
  <1>2. Bits \in Nat /\ Bits >= 2 /\ ZeroByte \in Byte /\ 0 \in 0 .. (Bits - 1)
    BY BitFacts
  <1>3. /\ rtc' \in RtcType /\ rtc'.state = "command" /\ rtc'.count = 0
        /\ rtc'.pram = rtc.pram
    BY <1>1, <1>2 DEF ClockInv, RtcType
  <1>4. /\ drv'.phase = "idle" /\ drv'.cmd = ZeroByte /\ drv'.val = ZeroByte /\ drv'.i = 0
        /\ drv'.got = <<>>
    BY <1>1 DEF Idle
  <1>5. drv' \in DrvType
    <2>1. 0 \in 0 .. (2 * Bits) /\ <<>> \in Seq(BOOLEAN)
      BY <1>2
    <2> QED BY <1>1, <1>2, <2>1 DEF DrvType, Idle
  <1>6. Taken' = 0
    BY <1>4 DEF Taken
  <1>7. Chip(rtc', drv'.cmd, drv'.val, Taken')
    <2>1. 0 < Bits /\ ~(0 >= Bits) /\ 0 # 2 * Bits /\ ~\E k \in 1 .. 0 : TRUE
      BY <1>2
    <2> QED BY <1>3, <1>6, <2>1, Zenon DEF Chip, InCommand
  <1>8. ~JustWritten /\ ~JustWritten'
    BY <1>1, <1>4 DEF JustWritten
  <1>9. rtc'.pram = written' /\ written' \in [Cells -> Byte]
    BY <1>1, <1>3, <1>8, Zenon DEF ClockInv
  <1>10. ~(drv'.i > Bits) /\ Len(drv'.got) = 0 /\ ~\E k \in 1 .. Len(drv'.got) : TRUE
    BY <1>2, <1>4
  <1> QED BY <1>3, <1>4, <1>5, <1>7, <1>8, <1>9, <1>10 DEF ClockInv, Reading

\* Every operation on the clock chip keeps the clock part.
LEMMA ClockKeeps ==
    ASSUME ClockInv, Clock
    PROVE  ClockInv'
  <1>1. ASSUME NEW data \in BOOLEAN, OtherPortBWrite(data)
        PROVE  ClockInv'
    <2>1. rtc' = [rtc EXCEPT !.clk = rtc.clk] /\ drv' = drv /\ written' = written
      BY <1>1 DEF OtherPortBWrite, RtcWrite
    <2>2. rtc \in RtcType
      BY DEF ClockInv
    <2>3. rtc' = rtc
      BY <2>1, <2>2 DEF RtcType
    <2> QED BY <2>1, <2>3 DEF ClockInv, RtcType, DrvType, Chip, InCommand, InByte, Preload,
                              Taken, JustWritten, Reading
  <1> QED BY <1>1, StartKeeps, LowKeeps, HighKeeps, SampleKeeps, DeselectKeeps DEF Clock

-----------------------------------------------------------------------------
Inv == MemoryInv /\ SerialInv /\ ClockInv

\* The parts share no state, so that what changes one leaves the others.
LEMMA MemoryFrame == ASSUME MemoryInv, UNCHANGED memory PROVE MemoryInv'
  BY DEF MemoryInv, memory, WritesSeen, PagesOf, BlockRange, Page

LEMMA SerialFrame == ASSUME SerialInv, UNCHANGED <<scc, serial>> PROVE SerialInv'
  BY DEF SerialInv, SccType, SerialType, RxAtMostOnce

LEMMA ClockFrame == ASSUME ClockInv, UNCHANGED clock PROVE ClockInv'
  BY DEF ClockInv, clock, RtcType, DrvType, Chip, InCommand, InByte, Preload, Taken,
         JustWritten, Reading

\* The machine starts with its invariant.
LEMMA InitInv == Init => Inv
  <1> SUFFICES ASSUME Init PROVE Inv
    OBVIOUS
  <1>1. MemoryInv
    <2>1. machine \in Machines /\ overlay \in BOOLEAN
      BY BusAssumption DEF Init
    <2> QED BY <2>1 DEF Init, MemoryInv, WritesSeen
  <1>2. SerialInv
    <2>1. /\ scc = [ptr |-> 0, irqOn |-> FALSE, byte |-> [c \in Channels |-> 0],
                    avail |-> [c \in Channels |-> FALSE]]
          /\ serial = [sent |-> 0, polled |-> FALSE, got |-> <<>>]
      BY DEF Init, SccInit, NoByte
    <2>2. scc \in SccType /\ ~scc.avail[1]
      BY <2>1, FALSE \in BOOLEAN DEF SccType, Channels
    <2>3. serial \in SerialType /\ ~serial.polled /\ Len(serial.got) = 0
      BY <2>1, BusAssumption DEF SerialType
    <2> QED BY <2>1, <2>2, <2>3 DEF SerialInv, RxAtMostOnce
  <1>3. ClockInv
    <2>1. Bits \in Nat /\ Bits >= 2 /\ ZeroByte \in Byte
      BY BitFacts
    <2>2. rtc = RtcInit /\ drv = Idle /\ written = rtc.pram
      BY DEF Init
    <2>3. /\ rtc \in RtcType /\ rtc.state = "command" /\ rtc.count = 0
          /\ rtc.pram \in [Cells -> Byte]
      <3>1. 0 \in 0 .. (Bits - 1) /\ FALSE \in BOOLEAN
        BY <2>1
      <3> QED BY <2>1, <2>2, <3>1 DEF RtcInit, RtcType
    <2>4. /\ drv \in DrvType /\ drv.phase = "idle" /\ drv.i = 0 /\ drv.got = <<>>
      <3>1. 0 \in 0 .. (2 * Bits) /\ <<>> \in Seq(BOOLEAN)
        BY <2>1
      <3> QED BY <2>1, <2>2, <3>1 DEF Idle, DrvType
    <2>5. Taken = 0
      BY <2>4 DEF Taken
    <2>6. Chip(rtc, drv.cmd, drv.val, Taken)
      <3>1. 0 < Bits /\ ~(0 >= Bits) /\ 0 # 2 * Bits /\ ~\E k \in 1 .. 0 : TRUE
        BY <2>1
      <3> QED BY <2>3, <2>5, <3>1, Zenon DEF Chip, InCommand
    <2>7. ~(drv.i > Bits) /\ Len(drv.got) = 0 /\ ~\E k \in 1 .. Len(drv.got) : TRUE
      BY <2>1, <2>4
    <2>8. rtc.pram = written /\ ~JustWritten
      BY <2>2, <2>4 DEF JustWritten
    <2> QED BY <2>2, <2>3, <2>4, <2>6, <2>7, <2>8 DEF ClockInv
  <1> QED BY <1>1, <1>2, <1>3 DEF Inv

\* Every step keeps the invariant.
LEMMA NextInv == Inv /\ [Next]_vars => Inv'
  <1> SUFFICES ASSUME Inv, [Next]_vars PROVE Inv'
    OBVIOUS
  <1>1. CASE Memory
    <2>1. UNCHANGED <<scc, serial>> /\ UNCHANGED clock
      BY <1>1 DEF Memory
    <2> QED BY <1>1, <2>1, MemoryKeeps, SerialFrame, ClockFrame, Zenon DEF Inv
  <1>2. CASE Serial
    <2>1. UNCHANGED memory /\ UNCHANGED clock
      BY <1>2 DEF Serial
    <2> QED BY <1>2, <2>1, MemoryFrame, SerialKeeps, ClockFrame, Zenon DEF Inv
  <1>3. CASE Clock
    <2>1. UNCHANGED memory /\ UNCHANGED <<scc, serial>>
      BY <1>3 DEF Clock
    <2> QED BY <1>3, <2>1, MemoryFrame, SerialFrame, ClockKeeps, Zenon DEF Inv
  <1>4. CASE UNCHANGED vars
    <2>1. UNCHANGED memory /\ UNCHANGED <<scc, serial>> /\ UNCHANGED clock
      BY <1>4 DEF vars
    <2> QED BY <2>1, MemoryFrame, SerialFrame, ClockFrame, Zenon DEF Inv
  <1> QED BY <1>1, <1>2, <1>3, <1>4 DEF Next

\* The invariant holds in every state.
THEOREM Invariant == Spec => []Inv
  BY InitInv, NextInv, PTL DEF Spec

\* A write that a helper or the host makes to the bytes of a block is on a queued page
\* until the flush: the watch misses none.
THEOREM AllWritesSeen == Spec => []WritesSeen
  <1>1. Inv => WritesSeen
    BY DEF Inv, MemoryInv
  <1> QED BY <1>1, Invariant, PTL

\* A guest that polls before it reads never reads a byte twice or out of order.
THEOREM SerialInOrder == Spec => []RxAtMostOnce
  <1>1. Inv => RxAtMostOnce
    BY DEF Inv, SerialInv
  <1> QED BY <1>1, Invariant, PTL

\* What the guest reads from parameter RAM is what it last wrote there completely, and a
\* register of the clock reads as the clock.
THEOREM PramKept == Spec => []PramKeepsBytes
  <1>1. ASSUME Inv PROVE PramKeepsBytes
    <2>1. ClockInv
      BY <1>1 DEF Inv
    <2>2. drv \in DrvType /\ rtc \in RtcType
      BY <2>1 DEF ClockInv
    <2>3. ASSUME drv.phase \in {"idle", "done"} PROVE rtc.pram = written
      <3>1. ~JustWritten
        BY <2>3 DEF JustWritten
      <3> QED BY <2>1, <3>1, Zenon DEF ClockInv
    <2>4. ASSUME drv.phase = "done", Reading PROVE drv.got = Preload(rtc, drv.cmd)
      <3> DEFINE v == Preload(rtc, drv.cmd)
      <3>1. Bits \in Nat /\ Bits >= 2 /\ drv.got \in Seq(BOOLEAN) /\ drv.cmd \in Byte
        BY <2>2, BitFacts, DrvFacts
      <3>2. v \in Byte
        BY <2>2, <3>1, PreloadTyped
      <3>3. Len(drv.got) = IF drv.i > Bits THEN drv.i - Bits ELSE 0
        BY <2>1, <2>4 DEF ClockInv
      <3>4. drv.i = 2 * Bits
        BY <2>1, <2>4 DEF ClockInv
      <3>5. Len(drv.got) = Bits
        BY <3>1, <3>3, <3>4
      <3>6. \A k \in 1 .. Len(drv.got) : drv.got[k] = v[k]
        BY <2>1 DEF ClockInv
      <3> HIDE DEF v
      <3>7. drv.got \in Byte
        <4>1. drv.got \in [1 .. Len(drv.got) -> BOOLEAN]
          BY <3>1, LenProperties
        <4> QED BY <3>5, <4>1, Zenon DEF Byte
      <3>8. drv.got = v
        BY <3>2, <3>5, <3>6, <3>7, SameBits
      <3> QED BY <3>8 DEF v
    <2>5. drv.phase = "done" => drv.phase \in {"idle", "done"}
      OBVIOUS
    <2>6. Preload(rtc, drv.cmd) = IF Address(drv.cmd) \in ClockRegs
              THEN ClockBytes[Address(drv.cmd)] ELSE rtc.pram[Cell(drv.cmd)]
      BY DEF Preload
    <2>7. ASSUME drv.phase = "done", Reading
          PROVE  drv.got = IF Address(drv.cmd) \in ClockRegs
                           THEN ClockBytes[Address(drv.cmd)] ELSE written[Cell(drv.cmd)]
      <3>1. rtc.pram = written
        BY <2>3, <2>5, <2>7, Zenon
      <3> QED BY <2>4, <2>6, <2>7, <3>1, Zenon
    <2> QED BY <2>3, <2>7, Zenon DEF PramKeepsBytes
  <1> QED BY <1>1, Invariant, PTL

-----------------------------------------------------------------------------
\* The tests of compiled blocks.

\* Ten digits, and the number they stand for.
Digit(n, k) == (n \div Place[k]) % 2
Digits == [AllBits -> 0 .. 1]
High5(c) == 2 * (2 * (2 * (2 * c[10] + c[9]) + c[8]) + c[7]) + c[6]
Sum10(c) == 2 * (2 * (2 * (2 * (2 * High5(c) + c[5]) + c[4]) + c[3]) + c[2]) + c[1]

LEMMA PlaceFacts ==
    /\ Place[1] = 1 /\ Place[2] = 2 /\ Place[3] = 4 /\ Place[4] = 8 /\ Place[5] = 16
    /\ Place[6] = 32 /\ Place[7] = 64 /\ Place[8] = 128 /\ Place[9] = 256 /\ Place[10] = 512
    /\ AllBits = {1, 2, 3, 4, 5, 6, 7, 8, 9, 10}
  BY DEF Place, AllBits

\* Halving.
LEMMA Halves ==
    ASSUME NEW n \in Nat
    PROVE  n \div 2 \in Nat /\ n % 2 \in 0 .. 1 /\ n = 2 * (n \div 2) + (n % 2)
  OBVIOUS

LEMMA HalfOf ==
    ASSUME NEW h \in Nat, NEW b \in 0 .. 1
    PROVE  2 * h + b \in Nat /\ (2 * h + b) \div 2 = h /\ (2 * h + b) % 2 = b
  OBVIOUS

\* Halving again and again.
LEMMA Quotients ==
    ASSUME NEW n \in Nat
    PROVE  /\ n \div 4 = (n \div 2) \div 2
           /\ n \div 8 = (n \div 4) \div 2
           /\ n \div 16 = (n \div 8) \div 2
           /\ n \div 32 = (n \div 16) \div 2
           /\ n \div 64 = (n \div 32) \div 2
           /\ n \div 128 = (n \div 64) \div 2
           /\ n \div 256 = (n \div 128) \div 2
           /\ n \div 512 = (n \div 256) \div 2
  <1>1. n \div 4 = (n \div 2) \div 2
    OBVIOUS
  <1>2. n \div 8 = (n \div 4) \div 2
    OBVIOUS
  <1>3. n \div 16 = (n \div 8) \div 2
    OBVIOUS
  <1>4. n \div 32 = (n \div 16) \div 2
    OBVIOUS
  <1>5. n \div 64 = (n \div 32) \div 2
    OBVIOUS
  <1>6. n \div 128 = (n \div 64) \div 2
    OBVIOUS
  <1>7. n \div 256 = (n \div 128) \div 2
    OBVIOUS
  <1>8. n \div 512 = (n \div 256) \div 2
    OBVIOUS
  <1> QED BY <1>1, <1>2, <1>3, <1>4, <1>5, <1>6, <1>7, <1>8

\* An address is the sum of its digits.
LEMMA AddrSum ==
    ASSUME NEW n \in Addr
    PROVE  [k \in AllBits |-> Digit(n, k)] \in Digits /\ n = Sum10([k \in AllBits |-> Digit(n, k)])
  <1> DEFINE c == [k \in AllBits |-> Digit(n, k)]
  <1>1. n \in Nat /\ n \div 512 < 2
    BY DEF Addr, AddrSpace
  <1>2. \A k \in AllBits : n \div Place[k] \in Nat
    BY <1>1, PlaceFacts
  <1>3. c \in Digits
    BY <1>2 DEF Digits, Digit
  <1>4. /\ n \div 1 = n
        /\ n \div 2 \in Nat /\ n \div 4 \in Nat /\ n \div 8 \in Nat /\ n \div 16 \in Nat
        /\ n \div 32 \in Nat /\ n \div 64 \in Nat /\ n \div 128 \in Nat /\ n \div 256 \in Nat
        /\ n \div 512 \in Nat
    BY <1>1
  <1>5. \A k \in AllBits : c[k] = (n \div Place[k]) % 2
    BY DEF Digit
  <1> HIDE DEF c
  <1>6. n = 2 * (n \div 2) + c[1]
    <2>1. c[1] = n % 2
      BY <1>4, <1>5, PlaceFacts
    <2>2. n = 2 * (n \div 2) + (n % 2)
      BY <1>1, <1>4, Halves
    <2>3. n \div 2 = n \div 2
      BY <1>1, Quotients
    <2> QED BY <2>1, <2>2, <2>3, Zenon
  <1>7. n \div 2 = 2 * (n \div 4) + c[2]
    <2>1. c[2] = (n \div 2) % 2
      BY <1>4, <1>5, PlaceFacts
    <2>2. n \div 2 = 2 * ((n \div 2) \div 2) + ((n \div 2) % 2)
      BY <1>1, <1>4, Halves
    <2>3. n \div 4 = (n \div 2) \div 2
      BY <1>1, Quotients
    <2> QED BY <2>1, <2>2, <2>3, Zenon
  <1>8. n \div 4 = 2 * (n \div 8) + c[3]
    <2>1. c[3] = (n \div 4) % 2
      BY <1>4, <1>5, PlaceFacts
    <2>2. n \div 4 = 2 * ((n \div 4) \div 2) + ((n \div 4) % 2)
      BY <1>1, <1>4, Halves
    <2>3. n \div 8 = (n \div 4) \div 2
      BY <1>1, Quotients
    <2> QED BY <2>1, <2>2, <2>3, Zenon
  <1>9. n \div 8 = 2 * (n \div 16) + c[4]
    <2>1. c[4] = (n \div 8) % 2
      BY <1>4, <1>5, PlaceFacts
    <2>2. n \div 8 = 2 * ((n \div 8) \div 2) + ((n \div 8) % 2)
      BY <1>1, <1>4, Halves
    <2>3. n \div 16 = (n \div 8) \div 2
      BY <1>1, Quotients
    <2> QED BY <2>1, <2>2, <2>3, Zenon
  <1>10. n \div 16 = 2 * (n \div 32) + c[5]
    <2>1. c[5] = (n \div 16) % 2
      BY <1>4, <1>5, PlaceFacts
    <2>2. n \div 16 = 2 * ((n \div 16) \div 2) + ((n \div 16) % 2)
      BY <1>1, <1>4, Halves
    <2>3. n \div 32 = (n \div 16) \div 2
      BY <1>1, Quotients
    <2> QED BY <2>1, <2>2, <2>3, Zenon
  <1>11. n \div 32 = 2 * (n \div 64) + c[6]
    <2>1. c[6] = (n \div 32) % 2
      BY <1>4, <1>5, PlaceFacts
    <2>2. n \div 32 = 2 * ((n \div 32) \div 2) + ((n \div 32) % 2)
      BY <1>1, <1>4, Halves
    <2>3. n \div 64 = (n \div 32) \div 2
      BY <1>1, Quotients
    <2> QED BY <2>1, <2>2, <2>3, Zenon
  <1>12. n \div 64 = 2 * (n \div 128) + c[7]
    <2>1. c[7] = (n \div 64) % 2
      BY <1>4, <1>5, PlaceFacts
    <2>2. n \div 64 = 2 * ((n \div 64) \div 2) + ((n \div 64) % 2)
      BY <1>1, <1>4, Halves
    <2>3. n \div 128 = (n \div 64) \div 2
      BY <1>1, Quotients
    <2> QED BY <2>1, <2>2, <2>3, Zenon
  <1>13. n \div 128 = 2 * (n \div 256) + c[8]
    <2>1. c[8] = (n \div 128) % 2
      BY <1>4, <1>5, PlaceFacts
    <2>2. n \div 128 = 2 * ((n \div 128) \div 2) + ((n \div 128) % 2)
      BY <1>1, <1>4, Halves
    <2>3. n \div 256 = (n \div 128) \div 2
      BY <1>1, Quotients
    <2> QED BY <2>1, <2>2, <2>3, Zenon
  <1>14. n \div 256 = 2 * (n \div 512) + c[9]
    <2>1. c[9] = (n \div 256) % 2
      BY <1>4, <1>5, PlaceFacts
    <2>2. n \div 256 = 2 * ((n \div 256) \div 2) + ((n \div 256) % 2)
      BY <1>1, <1>4, Halves
    <2>3. n \div 512 = (n \div 256) \div 2
      BY <1>1, Quotients
    <2> QED BY <2>1, <2>2, <2>3, Zenon
  <1>15. n \div 512 = c[10]
    <2>1. c[10] = (n \div 512) % 2
      BY <1>5, PlaceFacts
    <2>2. (n \div 512) % 2 = n \div 512
      BY <1>1, <1>4
    <2> QED BY <2>1, <2>2, Zenon
  <1>16. n \div 32 = High5(c)
    <2>1. n \div 128 = 2 * (2 * c[10] + c[9]) + c[8]
      BY <1>13, <1>14, <1>15, Zenon
    <2>2. n \div 32 = 2 * (2 * (n \div 128) + c[7]) + c[6]
      BY <1>11, <1>12, Zenon
    <2> QED BY <2>1, <2>2, Zenon DEF High5
  <1>17. n = Sum10(c)
    BY <1>6, <1>7, <1>8, <1>9, <1>10, <1>16, Zenon DEF Sum10
  <1> QED BY <1>3, <1>17 DEF c

\* Ten digits are those of their sum, which is an address.
LEMMA SumAddr ==
    ASSUME NEW c \in Digits
    PROVE  Sum10(c) \in Addr /\ \A k \in AllBits : Digit(Sum10(c), k) = c[k]
  <1>1. \A k \in AllBits : c[k] \in 0 .. 1
    BY DEF Digits
  <1>2. /\ c[1] \in 0 .. 1 /\ c[2] \in 0 .. 1 /\ c[3] \in 0 .. 1 /\ c[4] \in 0 .. 1
        /\ c[5] \in 0 .. 1 /\ c[6] \in 0 .. 1 /\ c[7] \in 0 .. 1 /\ c[8] \in 0 .. 1
        /\ c[9] \in 0 .. 1 /\ c[10] \in 0 .. 1
    BY <1>1, PlaceFacts
  <1> DEFINE h9 == 2 * c[10] + c[9]
             h8 == 2 * h9 + c[8]
             h7 == 2 * h8 + c[7]
             h6 == 2 * h7 + c[6]
             h5 == 2 * h6 + c[5]
             h4 == 2 * h5 + c[4]
             h3 == 2 * h4 + c[3]
             h2 == 2 * h3 + c[2]
             h1 == 2 * h2 + c[1]
  <1>3. h1 = Sum10(c)
    BY Zenon DEF Sum10, High5
  <1>4. h9 \in Nat /\ h9 <= 3 /\ h9 \div 2 = c[10] /\ h9 % 2 = c[9]
    <2>1. c[10] \in Nat
      BY <1>2
    <2>2. h9 \in Nat /\ h9 \div 2 = c[10] /\ h9 % 2 = c[9]
      BY <1>2, <2>1, HalfOf
    <2>3. h9 <= 3
      <3>1. c[10] <= 1 /\ c[9] <= 1 /\ c[9] \in Nat
        BY <2>1, <1>2
      <3> QED BY <2>1, <3>1
    <2> QED BY <2>2, <2>3
  <1>5. h8 \in Nat /\ h8 <= 7 /\ h8 \div 2 = h9 /\ h8 % 2 = c[8]
    <2> HIDE DEF h9
    <2>1. h9 \in Nat
      BY <1>4
    <2>2. h8 \in Nat /\ h8 \div 2 = h9 /\ h8 % 2 = c[8]
      BY <1>2, <2>1, HalfOf
    <2>3. h8 <= 7
      <3>1. h9 <= 3
        BY <1>4, Zenon
      <3>2. c[8] <= 1 /\ c[8] \in Nat
        BY <1>2
      <3> QED BY <2>1, <3>1, <3>2
    <2> QED BY <2>2, <2>3
  <1>6. h7 \in Nat /\ h7 <= 15 /\ h7 \div 2 = h8 /\ h7 % 2 = c[7]
    <2> HIDE DEF h8
    <2>1. h8 \in Nat
      BY <1>5
    <2>2. h7 \in Nat /\ h7 \div 2 = h8 /\ h7 % 2 = c[7]
      BY <1>2, <2>1, HalfOf
    <2>3. h7 <= 15
      <3>1. h8 <= 7
        BY <1>5, Zenon
      <3>2. c[7] <= 1 /\ c[7] \in Nat
        BY <1>2
      <3> QED BY <2>1, <3>1, <3>2
    <2> QED BY <2>2, <2>3
  <1>7. h6 \in Nat /\ h6 <= 31 /\ h6 \div 2 = h7 /\ h6 % 2 = c[6]
    <2> HIDE DEF h7
    <2>1. h7 \in Nat
      BY <1>6
    <2>2. h6 \in Nat /\ h6 \div 2 = h7 /\ h6 % 2 = c[6]
      BY <1>2, <2>1, HalfOf
    <2>3. h6 <= 31
      <3>1. h7 <= 15
        BY <1>6, Zenon
      <3>2. c[6] <= 1 /\ c[6] \in Nat
        BY <1>2
      <3> QED BY <2>1, <3>1, <3>2
    <2> QED BY <2>2, <2>3
  <1>8. h5 \in Nat /\ h5 <= 63 /\ h5 \div 2 = h6 /\ h5 % 2 = c[5]
    <2> HIDE DEF h6
    <2>1. h6 \in Nat
      BY <1>7
    <2>2. h5 \in Nat /\ h5 \div 2 = h6 /\ h5 % 2 = c[5]
      BY <1>2, <2>1, HalfOf
    <2>3. h5 <= 63
      <3>1. h6 <= 31
        BY <1>7, Zenon
      <3>2. c[5] <= 1 /\ c[5] \in Nat
        BY <1>2
      <3> QED BY <2>1, <3>1, <3>2
    <2> QED BY <2>2, <2>3
  <1>9. h4 \in Nat /\ h4 <= 127 /\ h4 \div 2 = h5 /\ h4 % 2 = c[4]
    <2> HIDE DEF h5
    <2>1. h5 \in Nat
      BY <1>8
    <2>2. h4 \in Nat /\ h4 \div 2 = h5 /\ h4 % 2 = c[4]
      BY <1>2, <2>1, HalfOf
    <2>3. h4 <= 127
      <3>1. h5 <= 63
        BY <1>8, Zenon
      <3>2. c[4] <= 1 /\ c[4] \in Nat
        BY <1>2
      <3> QED BY <2>1, <3>1, <3>2
    <2> QED BY <2>2, <2>3
  <1>10. h3 \in Nat /\ h3 <= 255 /\ h3 \div 2 = h4 /\ h3 % 2 = c[3]
    <2> HIDE DEF h4
    <2>1. h4 \in Nat
      BY <1>9
    <2>2. h3 \in Nat /\ h3 \div 2 = h4 /\ h3 % 2 = c[3]
      BY <1>2, <2>1, HalfOf
    <2>3. h3 <= 255
      <3>1. h4 <= 127
        BY <1>9, Zenon
      <3>2. c[3] <= 1 /\ c[3] \in Nat
        BY <1>2
      <3> QED BY <2>1, <3>1, <3>2
    <2> QED BY <2>2, <2>3
  <1>11. h2 \in Nat /\ h2 <= 511 /\ h2 \div 2 = h3 /\ h2 % 2 = c[2]
    <2> HIDE DEF h3
    <2>1. h3 \in Nat
      BY <1>10
    <2>2. h2 \in Nat /\ h2 \div 2 = h3 /\ h2 % 2 = c[2]
      BY <1>2, <2>1, HalfOf
    <2>3. h2 <= 511
      <3>1. h3 <= 255
        BY <1>10, Zenon
      <3>2. c[2] <= 1 /\ c[2] \in Nat
        BY <1>2
      <3> QED BY <2>1, <3>1, <3>2
    <2> QED BY <2>2, <2>3
  <1>12. h1 \in Nat /\ h1 <= 1023 /\ h1 \div 2 = h2 /\ h1 % 2 = c[1]
    <2> HIDE DEF h2
    <2>1. h2 \in Nat
      BY <1>11
    <2>2. h1 \in Nat /\ h1 \div 2 = h2 /\ h1 % 2 = c[1]
      BY <1>2, <2>1, HalfOf
    <2>3. h1 <= 1023
      <3>1. h2 <= 511
        BY <1>11, Zenon
      <3>2. c[1] <= 1 /\ c[1] \in Nat
        BY <1>2
      <3> QED BY <2>1, <3>1, <3>2
    <2> QED BY <2>2, <2>3
  <1> HIDE DEF h1, h2, h3, h4, h5, h6, h7, h8, h9
  <1>13. h1 \div 1 = h1 /\ c[10] % 2 = c[10]
    BY <1>2, <1>12
  <1>14. /\ h1 \div 2 = h2
         /\ h1 \div 4 = h3
         /\ h1 \div 8 = h4
         /\ h1 \div 16 = h5
         /\ h1 \div 32 = h6
         /\ h1 \div 64 = h7
         /\ h1 \div 128 = h8
         /\ h1 \div 256 = h9
         /\ h1 \div 512 = c[10]
    <2>2. h1 \div 2 = h2
      BY <1>12
    <2>3. h1 \div 4 = h3
      BY <1>12, <2>2, <1>11, Quotients
    <2>4. h1 \div 8 = h4
      BY <1>12, <2>3, <1>10, Quotients
    <2>5. h1 \div 16 = h5
      BY <1>12, <2>4, <1>9, Quotients
    <2>6. h1 \div 32 = h6
      BY <1>12, <2>5, <1>8, Quotients
    <2>7. h1 \div 64 = h7
      BY <1>12, <2>6, <1>7, Quotients
    <2>8. h1 \div 128 = h8
      BY <1>12, <2>7, <1>6, Quotients
    <2>9. h1 \div 256 = h9
      BY <1>12, <2>8, <1>5, Quotients
    <2>10. h1 \div 512 = c[10]
      BY <1>12, <2>9, <1>4, Quotients
    <2> QED BY <2>2, <2>3, <2>4, <2>5, <2>6, <2>7, <2>8, <2>9, <2>10, Zenon
  <1>15. \A k \in AllBits : Digit(h1, k) = c[k]
    <2> SUFFICES ASSUME NEW k \in AllBits PROVE Digit(h1, k) = c[k]
      OBVIOUS
    <2>1. CASE k = 1
      <3>1. Digit(h1, 1) = (h1 \div 1) % 2
        BY PlaceFacts DEF Digit
      <3> QED BY <2>1, <3>1, <1>13, <1>14, <1>12, Zenon
    <2>2. CASE k = 2
      <3>1. Digit(h1, 2) = (h1 \div 2) % 2
        BY PlaceFacts DEF Digit
      <3> QED BY <2>2, <3>1, <1>13, <1>14, <1>11, Zenon
    <2>3. CASE k = 3
      <3>1. Digit(h1, 3) = (h1 \div 4) % 2
        BY PlaceFacts DEF Digit
      <3> QED BY <2>3, <3>1, <1>13, <1>14, <1>10, Zenon
    <2>4. CASE k = 4
      <3>1. Digit(h1, 4) = (h1 \div 8) % 2
        BY PlaceFacts DEF Digit
      <3> QED BY <2>4, <3>1, <1>13, <1>14, <1>9, Zenon
    <2>5. CASE k = 5
      <3>1. Digit(h1, 5) = (h1 \div 16) % 2
        BY PlaceFacts DEF Digit
      <3> QED BY <2>5, <3>1, <1>13, <1>14, <1>8, Zenon
    <2>6. CASE k = 6
      <3>1. Digit(h1, 6) = (h1 \div 32) % 2
        BY PlaceFacts DEF Digit
      <3> QED BY <2>6, <3>1, <1>13, <1>14, <1>7, Zenon
    <2>7. CASE k = 7
      <3>1. Digit(h1, 7) = (h1 \div 64) % 2
        BY PlaceFacts DEF Digit
      <3> QED BY <2>7, <3>1, <1>13, <1>14, <1>6, Zenon
    <2>8. CASE k = 8
      <3>1. Digit(h1, 8) = (h1 \div 128) % 2
        BY PlaceFacts DEF Digit
      <3> QED BY <2>8, <3>1, <1>13, <1>14, <1>5, Zenon
    <2>9. CASE k = 9
      <3>1. Digit(h1, 9) = (h1 \div 256) % 2
        BY PlaceFacts DEF Digit
      <3> QED BY <2>9, <3>1, <1>13, <1>14, <1>4, Zenon
    <2>10. CASE k = 10
      <3>1. Digit(h1, 10) = (h1 \div 512) % 2
        BY PlaceFacts DEF Digit
      <3> QED BY <2>10, <3>1, <1>13, <1>14, Zenon
    <2> QED BY <2>1, <2>2, <2>3, <2>4, <2>5, <2>6, <2>7, <2>8, <2>9, <2>10, PlaceFacts
  <1> QED BY <1>3, <1>12, <1>15 DEF Addr, AddrSpace

\* Two addresses with the same bits are equal.
LEMMA SameAddr ==
    ASSUME NEW n \in Addr, NEW m \in Addr, BitsOf(n) = BitsOf(m)
    PROVE  n = m
  <1> DEFINE c == [k \in AllBits |-> Digit(n, k)]
             d == [k \in AllBits |-> Digit(m, k)]
  <1>1. c \in Digits /\ n = Sum10(c) /\ d \in Digits /\ m = Sum10(d)
    BY AddrSum
  <1>2. ASSUME NEW k \in AllBits PROVE Digit(n, k) = Digit(m, k)
    <2>1. Digit(n, k) \in 0 .. 1 /\ Digit(m, k) \in 0 .. 1
      BY <1>1 DEF Digits
    <2>2. Digit(n, k) = 1 <=> Digit(m, k) = 1
      BY DEF BitsOf, Digit
    <2> QED BY <2>1, <2>2
  <1>3. c = d
    BY <1>2
  <1> HIDE DEF c, d
  <1> QED BY <1>1, <1>3

\* The number of a set of bits.
LEMMA NumberFacts ==
    ASSUME NEW S, S \subseteq AllBits
    PROVE  /\ NumberOf(S) \in Addr /\ BitsOf(NumberOf(S)) = S
           /\ \A n \in Addr : BitsOf(n) = S => NumberOf(S) = n
  <1> DEFINE c == [k \in AllBits |-> IF k \in S THEN 1 ELSE 0]
  <1>1. c \in Digits
    BY DEF Digits
  <1>2. \A k \in AllBits : c[k] = 1 <=> k \in S
    OBVIOUS
  <1> HIDE DEF c
  <1>3. Sum10(c) \in Addr /\ \A k \in AllBits : Digit(Sum10(c), k) = c[k]
    BY <1>1, SumAddr
  <1> DEFINE w == Sum10(c)
  <1> HIDE DEF w
  <1>4. w \in Addr /\ BitsOf(w) = S
    BY <1>2, <1>3 DEF w, BitsOf, Digit
  <1>5. NumberOf(S) \in Addr /\ BitsOf(NumberOf(S)) = S
    BY <1>4 DEF NumberOf
  <1> QED BY <1>5, SameAddr

\* The bits of a few numbers.
Powers == {4, 8, 16, 32, 64, 128, 256}
LEMMA LowBits ==
    /\ BitsOf(0) = {}
    /\ BitsOf(3) = {1, 2}
    /\ BitsOf(7) = {1, 2, 3}
    /\ BitsOf(15) = {1, 2, 3, 4}
    /\ BitsOf(31) = {1, 2, 3, 4, 5}
    /\ BitsOf(63) = {1, 2, 3, 4, 5, 6}
    /\ BitsOf(127) = {1, 2, 3, 4, 5, 6, 7}
    /\ BitsOf(255) = {1, 2, 3, 4, 5, 6, 7, 8}
    /\ BitsOf(95) = {1, 2, 3, 4, 5, 7}
    /\ BitsOf(128) = {8}
  <1>1. BitsOf(0) = {}
    BY PlaceFacts DEF BitsOf
  <1>2. BitsOf(3) = {1, 2}
    BY PlaceFacts DEF BitsOf
  <1>3. BitsOf(7) = {1, 2, 3}
    BY PlaceFacts DEF BitsOf
  <1>4. BitsOf(15) = {1, 2, 3, 4}
    BY PlaceFacts DEF BitsOf
  <1>5. BitsOf(31) = {1, 2, 3, 4, 5}
    BY PlaceFacts DEF BitsOf
  <1>6. BitsOf(63) = {1, 2, 3, 4, 5, 6}
    BY PlaceFacts DEF BitsOf
  <1>7. BitsOf(127) = {1, 2, 3, 4, 5, 6, 7}
    BY PlaceFacts DEF BitsOf
  <1>8. BitsOf(255) = {1, 2, 3, 4, 5, 6, 7, 8}
    BY PlaceFacts DEF BitsOf
  <1>9. BitsOf(95) = {1, 2, 3, 4, 5, 7}
    BY PlaceFacts DEF BitsOf
  <1>10. BitsOf(128) = {8}
    BY PlaceFacts DEF BitsOf
  <1> QED BY <1>1, <1>2, <1>3, <1>4, <1>5, <1>6, <1>7, <1>8, <1>9, <1>10

\* The remainder by a power of two keeps the low bits.
LEMMA Remainders ==
    ASSUME NEW n \in Addr, NEW size \in Powers
    PROVE  n % size \in Addr /\ BitsOf(n % size) = BitsOf(n) \cap BitsOf(size - 1)
  <1>1. n \in Nat /\ n < 1024 /\ n % size \in Addr
    BY DEF Addr, AddrSpace, Powers
  <1>2. CASE size = 4
    <2>1. BitsOf(4 - 1) = {1, 2}
      BY LowBits
    <2>2. ((n % 4) \div 1) % 2 = (n \div 1) % 2
      BY <1>1
    <2>3. ((n % 4) \div 2) % 2 = (n \div 2) % 2
      BY <1>1
    <2>4. ((n % 4) \div 4) % 2 = 0
      BY <1>1
    <2>5. ((n % 4) \div 8) % 2 = 0
      BY <1>1
    <2>6. ((n % 4) \div 16) % 2 = 0
      BY <1>1
    <2>7. ((n % 4) \div 32) % 2 = 0
      BY <1>1
    <2>8. ((n % 4) \div 64) % 2 = 0
      BY <1>1
    <2>9. ((n % 4) \div 128) % 2 = 0
      BY <1>1
    <2>10. ((n % 4) \div 256) % 2 = 0
      BY <1>1
    <2>11. ((n % 4) \div 512) % 2 = 0
      BY <1>1
    <2>12. ASSUME NEW k \in AllBits
           PROVE  k \in BitsOf(n % 4) <=> k \in BitsOf(n) /\ k \in BitsOf(4 - 1)
      BY <2>1, <2>2, <2>3, <2>4, <2>5, <2>6, <2>7, <2>8, <2>9, <2>10, <2>11, PlaceFacts DEF BitsOf
    <2>13. BitsOf(n % 4) = BitsOf(n) \cap BitsOf(4 - 1)
      BY <2>12 DEF BitsOf
    <2> QED BY <1>2, <1>1, <2>13
  <1>3. CASE size = 8
    <2>1. BitsOf(8 - 1) = {1, 2, 3}
      BY LowBits
    <2>2. ((n % 8) \div 1) % 2 = (n \div 1) % 2
      BY <1>1
    <2>3. ((n % 8) \div 2) % 2 = (n \div 2) % 2
      BY <1>1
    <2>4. ((n % 8) \div 4) % 2 = (n \div 4) % 2
      BY <1>1
    <2>5. ((n % 8) \div 8) % 2 = 0
      BY <1>1
    <2>6. ((n % 8) \div 16) % 2 = 0
      BY <1>1
    <2>7. ((n % 8) \div 32) % 2 = 0
      BY <1>1
    <2>8. ((n % 8) \div 64) % 2 = 0
      BY <1>1
    <2>9. ((n % 8) \div 128) % 2 = 0
      BY <1>1
    <2>10. ((n % 8) \div 256) % 2 = 0
      BY <1>1
    <2>11. ((n % 8) \div 512) % 2 = 0
      BY <1>1
    <2>12. ASSUME NEW k \in AllBits
           PROVE  k \in BitsOf(n % 8) <=> k \in BitsOf(n) /\ k \in BitsOf(8 - 1)
      BY <2>1, <2>2, <2>3, <2>4, <2>5, <2>6, <2>7, <2>8, <2>9, <2>10, <2>11, PlaceFacts DEF BitsOf
    <2>13. BitsOf(n % 8) = BitsOf(n) \cap BitsOf(8 - 1)
      BY <2>12 DEF BitsOf
    <2> QED BY <1>3, <1>1, <2>13
  <1>4. CASE size = 16
    <2>1. BitsOf(16 - 1) = {1, 2, 3, 4}
      BY LowBits
    <2>2. ((n % 16) \div 1) % 2 = (n \div 1) % 2
      BY <1>1
    <2>3. ((n % 16) \div 2) % 2 = (n \div 2) % 2
      BY <1>1
    <2>4. ((n % 16) \div 4) % 2 = (n \div 4) % 2
      BY <1>1
    <2>5. ((n % 16) \div 8) % 2 = (n \div 8) % 2
      BY <1>1
    <2>6. ((n % 16) \div 16) % 2 = 0
      BY <1>1
    <2>7. ((n % 16) \div 32) % 2 = 0
      BY <1>1
    <2>8. ((n % 16) \div 64) % 2 = 0
      BY <1>1
    <2>9. ((n % 16) \div 128) % 2 = 0
      BY <1>1
    <2>10. ((n % 16) \div 256) % 2 = 0
      BY <1>1
    <2>11. ((n % 16) \div 512) % 2 = 0
      BY <1>1
    <2>12. ASSUME NEW k \in AllBits
           PROVE  k \in BitsOf(n % 16) <=> k \in BitsOf(n) /\ k \in BitsOf(16 - 1)
      BY <2>1, <2>2, <2>3, <2>4, <2>5, <2>6, <2>7, <2>8, <2>9, <2>10, <2>11, PlaceFacts DEF BitsOf
    <2>13. BitsOf(n % 16) = BitsOf(n) \cap BitsOf(16 - 1)
      BY <2>12 DEF BitsOf
    <2> QED BY <1>4, <1>1, <2>13
  <1>5. CASE size = 32
    <2>1. BitsOf(32 - 1) = {1, 2, 3, 4, 5}
      BY LowBits
    <2>2. ((n % 32) \div 1) % 2 = (n \div 1) % 2
      BY <1>1
    <2>3. ((n % 32) \div 2) % 2 = (n \div 2) % 2
      BY <1>1
    <2>4. ((n % 32) \div 4) % 2 = (n \div 4) % 2
      BY <1>1
    <2>5. ((n % 32) \div 8) % 2 = (n \div 8) % 2
      BY <1>1
    <2>6. ((n % 32) \div 16) % 2 = (n \div 16) % 2
      BY <1>1
    <2>7. ((n % 32) \div 32) % 2 = 0
      BY <1>1
    <2>8. ((n % 32) \div 64) % 2 = 0
      BY <1>1
    <2>9. ((n % 32) \div 128) % 2 = 0
      BY <1>1
    <2>10. ((n % 32) \div 256) % 2 = 0
      BY <1>1
    <2>11. ((n % 32) \div 512) % 2 = 0
      BY <1>1
    <2>12. ASSUME NEW k \in AllBits
           PROVE  k \in BitsOf(n % 32) <=> k \in BitsOf(n) /\ k \in BitsOf(32 - 1)
      BY <2>1, <2>2, <2>3, <2>4, <2>5, <2>6, <2>7, <2>8, <2>9, <2>10, <2>11, PlaceFacts DEF BitsOf
    <2>13. BitsOf(n % 32) = BitsOf(n) \cap BitsOf(32 - 1)
      BY <2>12 DEF BitsOf
    <2> QED BY <1>5, <1>1, <2>13
  <1>6. CASE size = 64
    <2>1. BitsOf(64 - 1) = {1, 2, 3, 4, 5, 6}
      BY LowBits
    <2>2. ((n % 64) \div 1) % 2 = (n \div 1) % 2
      BY <1>1
    <2>3. ((n % 64) \div 2) % 2 = (n \div 2) % 2
      BY <1>1
    <2>4. ((n % 64) \div 4) % 2 = (n \div 4) % 2
      BY <1>1
    <2>5. ((n % 64) \div 8) % 2 = (n \div 8) % 2
      BY <1>1
    <2>6. ((n % 64) \div 16) % 2 = (n \div 16) % 2
      BY <1>1
    <2>7. ((n % 64) \div 32) % 2 = (n \div 32) % 2
      BY <1>1
    <2>8. ((n % 64) \div 64) % 2 = 0
      BY <1>1
    <2>9. ((n % 64) \div 128) % 2 = 0
      BY <1>1
    <2>10. ((n % 64) \div 256) % 2 = 0
      BY <1>1
    <2>11. ((n % 64) \div 512) % 2 = 0
      BY <1>1
    <2>12. ASSUME NEW k \in AllBits
           PROVE  k \in BitsOf(n % 64) <=> k \in BitsOf(n) /\ k \in BitsOf(64 - 1)
      BY <2>1, <2>2, <2>3, <2>4, <2>5, <2>6, <2>7, <2>8, <2>9, <2>10, <2>11, PlaceFacts DEF BitsOf
    <2>13. BitsOf(n % 64) = BitsOf(n) \cap BitsOf(64 - 1)
      BY <2>12 DEF BitsOf
    <2> QED BY <1>6, <1>1, <2>13
  <1>7. CASE size = 128
    <2>1. BitsOf(128 - 1) = {1, 2, 3, 4, 5, 6, 7}
      BY LowBits
    <2>2. ((n % 128) \div 1) % 2 = (n \div 1) % 2
      BY <1>1
    <2>3. ((n % 128) \div 2) % 2 = (n \div 2) % 2
      BY <1>1
    <2>4. ((n % 128) \div 4) % 2 = (n \div 4) % 2
      BY <1>1
    <2>5. ((n % 128) \div 8) % 2 = (n \div 8) % 2
      BY <1>1
    <2>6. ((n % 128) \div 16) % 2 = (n \div 16) % 2
      BY <1>1
    <2>7. ((n % 128) \div 32) % 2 = (n \div 32) % 2
      BY <1>1
    <2>8. ((n % 128) \div 64) % 2 = (n \div 64) % 2
      BY <1>1
    <2>9. ((n % 128) \div 128) % 2 = 0
      BY <1>1
    <2>10. ((n % 128) \div 256) % 2 = 0
      BY <1>1
    <2>11. ((n % 128) \div 512) % 2 = 0
      BY <1>1
    <2>12. ASSUME NEW k \in AllBits
           PROVE  k \in BitsOf(n % 128) <=> k \in BitsOf(n) /\ k \in BitsOf(128 - 1)
      BY <2>1, <2>2, <2>3, <2>4, <2>5, <2>6, <2>7, <2>8, <2>9, <2>10, <2>11, PlaceFacts DEF BitsOf
    <2>13. BitsOf(n % 128) = BitsOf(n) \cap BitsOf(128 - 1)
      BY <2>12 DEF BitsOf
    <2> QED BY <1>7, <1>1, <2>13
  <1>8. CASE size = 256
    <2>1. BitsOf(256 - 1) = {1, 2, 3, 4, 5, 6, 7, 8}
      BY LowBits
    <2>2. ((n % 256) \div 1) % 2 = (n \div 1) % 2
      BY <1>1
    <2>3. ((n % 256) \div 2) % 2 = (n \div 2) % 2
      BY <1>1
    <2>4. ((n % 256) \div 4) % 2 = (n \div 4) % 2
      BY <1>1
    <2>5. ((n % 256) \div 8) % 2 = (n \div 8) % 2
      BY <1>1
    <2>6. ((n % 256) \div 16) % 2 = (n \div 16) % 2
      BY <1>1
    <2>7. ((n % 256) \div 32) % 2 = (n \div 32) % 2
      BY <1>1
    <2>8. ((n % 256) \div 64) % 2 = (n \div 64) % 2
      BY <1>1
    <2>9. ((n % 256) \div 128) % 2 = (n \div 128) % 2
      BY <1>1
    <2>10. ((n % 256) \div 256) % 2 = 0
      BY <1>1
    <2>11. ((n % 256) \div 512) % 2 = 0
      BY <1>1
    <2>12. ASSUME NEW k \in AllBits
           PROVE  k \in BitsOf(n % 256) <=> k \in BitsOf(n) /\ k \in BitsOf(256 - 1)
      BY <2>1, <2>2, <2>3, <2>4, <2>5, <2>6, <2>7, <2>8, <2>9, <2>10, <2>11, PlaceFacts DEF BitsOf
    <2>13. BitsOf(n % 256) = BitsOf(n) \cap BitsOf(256 - 1)
      BY <2>12 DEF BitsOf
    <2> QED BY <1>8, <1>1, <2>13
  <1> QED BY <1>2, <1>3, <1>4, <1>5, <1>6, <1>7, <1>8 DEF Powers

\* What a mask of high bits says of an address, and where it is mirrored.
LEMMA BoundFacts ==
    ASSUME NEW a \in Addr, NEW size \in Powers
    PROVE  /\ Mirror(a, size) = a % size
           /\ BitsOf(a) \subseteq BitsOf(size - 1) <=> a < size
           /\ a < size => Mirror(a, size) = a
  <1>1. a \in Nat /\ size \in Nat /\ size > 0
    BY DEF Addr, AddrSpace, Powers
  <1>2. a % size \in Addr /\ BitsOf(a % size) = BitsOf(a) \cap BitsOf(size - 1)
    BY Remainders
  <1>3. BitsOf(a) \cap BitsOf(size - 1) \subseteq AllBits
    BY DEF BitsOf
  <1>4. Mirror(a, size) = a % size
    BY <1>2, <1>3, NumberFacts DEF Mirror
  <1>5. ASSUME BitsOf(a) \subseteq BitsOf(size - 1) PROVE a < size
    <2>1. BitsOf(a % size) = BitsOf(a)
      BY <1>2, <1>5
    <2>2. a % size = a
      BY <1>2, <2>1, SameAddr
    <2> QED BY <1>1, <2>2
  <1>6. ASSUME a < size PROVE BitsOf(a) \subseteq BitsOf(size - 1) /\ Mirror(a, size) = a
    <2>1. a % size = a
      BY <1>1, <1>6
    <2> QED BY <2>1, <1>2, <1>4
  <1> QED BY <1>4, <1>5, <1>6

\* Low addresses, odd ones, and those that are not a mirror in the 3 MB machine.
LEMMA SmallFacts ==
    ASSUME NEW a \in Addr
    PROVE  /\ BitsOf(a) = {} => a = 0
           /\ BitsOf(a) = {8} => a = 128
           /\ 1 \in BitsOf(a) <=> a % 2 = 1
           /\ a < 32 => Mirror(a, 96) = a
  <1>1. 0 \in Addr /\ 128 \in Addr /\ a \in Nat
    BY DEF Addr, AddrSpace
  <1>2. BitsOf(a) = {} => a = 0
    BY <1>1, LowBits, SameAddr
  <1>3. BitsOf(a) = {8} => a = 128
    BY <1>1, LowBits, SameAddr
  <1>4. 1 \in BitsOf(a) <=> a % 2 = 1
    BY <1>1, PlaceFacts DEF BitsOf
  <1>5. ASSUME a < 32 PROVE Mirror(a, 96) = a
    <2>1. BitsOf(a) \subseteq BitsOf(32 - 1)
      BY <1>5, BoundFacts DEF Powers
    <2>2. BitsOf(32 - 1) = {1, 2, 3, 4, 5} /\ BitsOf(96 - 1) = {1, 2, 3, 4, 5, 7}
      BY LowBits
    <2>3. BitsOf(a) \cap BitsOf(96 - 1) = BitsOf(a)
      BY <2>1, <2>2
    <2>4. BitsOf(a) \subseteq AllBits
      BY DEF BitsOf
    <2> QED BY <2>3, <2>4, NumberFacts DEF Mirror
  <1> QED BY <1>2, <1>3, <1>4, <1>5

\* The sizes of RAM: all but that of the 3 MB machine are powers of two.
LEMMA MachineFacts ==
    ASSUME NEW m \in Machines
    PROVE  /\ m.size \in {4, 8, 16, 32, 64, 96, 128} /\ m.rom \in BOOLEAN
           /\ m.build = "host" \/ (m.build = "esp32" /\ m.size # 96)
           /\ PowerOfTwo(m.size) <=> m.size # 96
           /\ PowerOfTwo(RomSize)
           /\ m.size # 96 => m.size \in Powers
  <1>1. m \in [size : 1 .. RomBase, rom : BOOLEAN, build : {"host", "esp32"}]
    BY BusAssumption
  <1>2. \/ m.build = "host" /\ m.size \in {n * Megabyte : n \in 1 .. 4}
        \/ m.build = "esp32" /\ m.size \in {4, 8, 16, 32, 64, 128}
    BY BusAssumption
  <1>3. {n * Megabyte : n \in 1 .. 4} = {32, 64, 96, 128}
    BY DEF Megabyte
  <1>4. m.size \in {4, 8, 16, 32, 64, 96, 128}
    BY <1>2, <1>3
  <1>5. ~PowerOfTwo(96)
    BY PlaceFacts DEF PowerOfTwo
  <1>6. \A n \in {4, 8, 16, 32, 64, 128} : PowerOfTwo(n)
    <2>1. PowerOfTwo(4) /\ PowerOfTwo(8) /\ PowerOfTwo(16)
      BY PlaceFacts DEF PowerOfTwo
    <2>2. PowerOfTwo(32) /\ PowerOfTwo(64) /\ PowerOfTwo(128)
      BY PlaceFacts DEF PowerOfTwo
    <2> QED BY <2>1, <2>2
  <1>7. m.rom \in BOOLEAN
    BY <1>1
  <1> QED BY <1>2, <1>3, <1>4, <1>5, <1>6, <1>7 DEF RomSize, Powers

\* Below the ROM and without the overlay, a host address that is no mirror, or any in a
\* machine whose size is a power of two, is decoded as the bus decodes it; so are the
\* two addresses behind 4 MB.
LEMMA HostFacts ==
    ASSUME NEW m \in Machines, m.build = "host", NEW x \in 0 .. 129,
           m.size # 96 \/ x < 32
    PROVE  FromRam(x, m) = Reached(x, m, FALSE)
  <1>1. /\ m.size \in {4, 8, 16, 32, 64, 96, 128} /\ m.rom \in BOOLEAN
        /\ m.size # 96 => m.size \in Powers
    BY MachineFacts
  <1>2. x \in Addr /\ x \in 0 .. (2 * AddrSpace + 2) /\ x \in Nat /\ x % AddrSpace = x
    BY DEF Addr, AddrSpace
  <1>3. FromRam(x, m) =
            IF x < RomBase /\ Mirror(x, m.size) < m.size THEN <<"ram", Mirror(x, m.size)>>
            ELSE IF m.rom /\ In(x, RomBase, RomSize) THEN <<"rom", x - RomBase>>
            ELSE <<"none", 0>>
    <2>1. FromRam(x, m) = HostByte[m][x]
      BY DEF FromRam
    <2>2. x < RomBase => ~In(x, RomBase, RomSize)
      BY <1>2 DEF In, RomBase, RomSize
    <2>3. HostByte[m][x] =
            CASE x < RomBase /\ Mirror(x, m.size) < m.size -> <<"ram", Mirror(x, m.size)>>
              [] m.rom /\ In(x, RomBase, RomSize) -> <<"rom", x - RomBase>>
              [] OTHER -> <<"none", 0>>
      BY <1>2, Zenon DEF HostByte
    <2>4. CASE x < RomBase /\ Mirror(x, m.size) < m.size
      BY <2>1, <2>2, <2>3, <2>4
    <2>5. CASE ~(x < RomBase /\ Mirror(x, m.size) < m.size)
      BY <2>1, <2>3, <2>5
    <2> QED BY <2>4, <2>5
  <1>4. CASE x < 128
    <2>1. Mirror(x, m.size) = x % m.size
      <3>1. CASE m.size # 96
        BY <1>1, <1>2, <3>1, BoundFacts
      <3>2. CASE m.size = 96
        <4>1. x < 32
          BY <3>2
        <4>2. x % 96 = x
          BY <1>2, <4>1
        <4> QED BY <1>2, <3>2, <4>1, <4>2, SmallFacts
      <3> QED BY <3>1, <3>2
    <2>2. x % m.size < m.size
      BY <1>1, <1>2
    <2>3. FromRam(x, m) = <<"ram", x % m.size>>
      <3>1. x < RomBase /\ Mirror(x, m.size) < m.size
        BY <1>4, <2>1, <2>2 DEF RomBase
      <3> QED BY <1>3, <2>1, <3>1, Zenon
    <2>4. Reached(x, m, FALSE) = <<"ram", x % m.size>>
      BY <1>2, <1>4 DEF Reached, In, RomBase
    <2> QED BY <2>3, <2>4
  <1>5. CASE x = 128 \/ x = 129
    <2>1. FromRam(x, m) = IF m.rom THEN <<"rom", x - 128>> ELSE <<"none", 0>>
      BY <1>1, <1>3, <1>5 DEF RomBase, RomSize, In
    <2>2. Region(x) = "none"
      BY <1>5 DEF Region, In, DebugBase, ViaBase, IwmBase, SccBase, ScsiBase, OvlRamBase
    <2>3. (x - 128) % 4 = x - 128
      BY <1>5
    <2>4. Reached(x, m, FALSE) = IF m.rom THEN <<"rom", x - 128>> ELSE <<"none", 0>>
      <3>1. CASE m.rom
        BY <3>1, <1>2, <1>5, <2>3 DEF Reached, In, RomBase, RomSize, Megabyte
      <3>2. CASE ~m.rom
        BY <3>2, <1>2, <1>5, <2>2 DEF Reached, In, RomBase, RomSize, Megabyte
      <3> QED BY <3>1, <3>2
    <2> DEFINE y == IF m.rom THEN <<"rom", x - 128>> ELSE <<"none", 0>>
    <2>5. FromRam(x, m) = y /\ Reached(x, m, FALSE) = y
      BY <2>1, <2>4
    <2> HIDE DEF y
    <2> QED BY <2>5, Zenon
  <1>6. x < 128 \/ x = 128 \/ x = 129
    BY <1>2
  <1> QED BY <1>4, <1>5, <1>6, Zenon

\* The tests as sets of bits.
Odd(bytes) == IF bytes = 1 THEN {} ELSE {1}
TestsAre(m, a, ovl, bytes) ==
    /\ ovl \/ m.size = 96 => RamTest(a, m, ovl, bytes) = BitsOf(a)
    /\ ~ovl /\ m.size # 96 =>
           RamTest(a, m, ovl, bytes)
             = BitsOf(a) \cap ((AllBits \ BitsOf(m.size - 1)) \cup Odd(bytes))
    /\ m.rom /\ ovl => RomTest(a, m, ovl, bytes) = Xor(BitsOf(a), {8})
    /\ m.rom /\ ~ovl =>
           RomTest(a, m, ovl, bytes)
             = Xor(BitsOf(a) \cap ((AllBits \ {1, 2}) \cup Odd(bytes)), {8})

\* They are.
LEMMA TestFacts ==
    ASSUME NEW m \in Machines, NEW a \in Addr, NEW ovl, NEW bytes \in Sizes
    PROVE  TestsAre(m, a, ovl, bytes)
  <1>1. /\ PowerOfTwo(m.size) <=> m.size # 96
        /\ PowerOfTwo(RomSize)
    BY MachineFacts
  <1>2. BitsOf(a) \cap AllBits = BitsOf(a)
    BY DEF BitsOf
  <1>3. BitsOf(RomBase) = {8} /\ BitsOf(RomSize - 1) = {1, 2}
    BY LowBits DEF RomBase, RomSize
  <1>4. ovl \/ m.size = 96 => RamTest(a, m, ovl, bytes) = BitsOf(a)
    BY <1>1, <1>2 DEF RamTest, BoundsMask
  <1>5. ~ovl /\ m.size # 96 =>
            RamTest(a, m, ovl, bytes)
              = BitsOf(a) \cap ((AllBits \ BitsOf(m.size - 1)) \cup Odd(bytes))
    BY <1>1 DEF RamTest, BoundsMask, Odd
  <1>6. m.rom /\ ovl => RomTest(a, m, ovl, bytes) = Xor(BitsOf(a), {8})
    BY <1>2, <1>3 DEF RomTest, BoundsMask
  <1>7. m.rom /\ ~ovl =>
            RomTest(a, m, ovl, bytes)
              = Xor(BitsOf(a) \cap ((AllBits \ {1, 2}) \cup Odd(bytes)), {8})
    BY <1>1, <1>3 DEF RomTest, BoundsMask, Odd
  <1> QED BY <1>4, <1>5, <1>6, <1>7, Zenon DEF TestsAre

\* What the inline accesses of RAM accept they find where the bus has it.
LEMMA RamProbeRight == ASSUME MemoryInv PROVE RamProbeExact
  <1> SUFFICES ASSUME NEW b \in blocks, NEW bytes \in Sizes,
                      NEW a \in RamProbe[machine][b.ovl][bytes],
                      ~(overlay /\ a = 0),
                      ~(machine.build = "esp32" /\ a = machine.size - 2 /\ bytes = 4),
                      NEW k \in 0 .. (bytes - 1)
               PROVE  FromRam(a + k, machine) = Reached(a + k, machine, overlay)
    BY Zenon DEF RamProbeExact
  <1> DEFINE m == machine
             x == a + k
  <1>1. m \in Machines /\ overlay \in BOOLEAN /\ b.ovl \in BOOLEAN /\ (overlay => b.ovl)
    BY DEF MemoryInv
  <1>2. /\ a \in Addr
        /\ RamTest(a, m, b.ovl, bytes) = {} \/ Absolute(a, m, b.ovl, bytes)
    <2>1. RamProbe[m][b.ovl][bytes] = {d \in Addr : RamTest(d, m, b.ovl, bytes) = {}
                                                      \/ Absolute(d, m, b.ovl, bytes)}
      BY <1>1 DEF RamProbe
    <2> QED BY <2>1
  <1>3. /\ m.size \in {4, 8, 16, 32, 64, 96, 128}
        /\ m.build = "host" \/ (m.build = "esp32" /\ m.size # 96)
        /\ PowerOfTwo(m.size) <=> m.size # 96
        /\ m.size # 96 => m.size \in Powers
    BY <1>1, MachineFacts
  <1>4. a \in Nat /\ bytes \in {1, 2, 4} /\ k \in 0 .. 3 /\ k < bytes /\ k \in Nat
    BY <1>2 DEF Addr, AddrSpace, Sizes
  <1> HIDE DEF m
  <1>5. TestsAre(m, a, b.ovl, bytes)
    BY <1>1, <1>2, TestFacts
  <1>6. ~overlay /\ x \in 0 .. 129 /\ (m.build = "host" \/ x < m.size) /\ (m.size # 96 \/ x < 32)
    <2>1. CASE b.ovl \/ m.size = 96
      <3>1. ~Absolute(a, m, b.ovl, bytes)
        BY <2>1, <1>3 DEF Absolute
      <3>2. RamTest(a, m, b.ovl, bytes) = BitsOf(a)
        BY <2>1, <1>5, Zenon DEF TestsAre
      <3>3. a = 0
        BY <3>1, <3>2, <1>2, SmallFacts
      <3>4. ~overlay
        BY <3>3
      <3> QED BY <3>3, <3>4, <1>3, <1>4
    <2>2. CASE ~b.ovl /\ m.size # 96
      <3>1. ~overlay
        BY <2>2, <1>1
      <3>2. CASE Absolute(a, m, b.ovl, bytes)
        BY <3>1, <3>2, <2>2, <1>3, <1>4 DEF Absolute
      <3>3. CASE RamTest(a, m, b.ovl, bytes) = {}
        <4>1. BitsOf(a) \cap ((AllBits \ BitsOf(m.size - 1)) \cup Odd(bytes)) = {}
          BY <2>2, <3>3, <1>5, Zenon DEF TestsAre
        <4>2. BitsOf(a) \subseteq BitsOf(m.size - 1)
          BY <4>1 DEF BitsOf
        <4>3. a < m.size
          BY <4>2, <2>2, <1>2, <1>3, BoundFacts
        <4>4. bytes # 1 => a % 2 = 0
          <5>1. bytes # 1 => 1 \notin BitsOf(a)
            BY <4>1 DEF Odd
          <5> QED BY <5>1, <1>2, <1>4, SmallFacts
        <4>5. m.build = "esp32" => ~(a = m.size - 2 /\ bytes = 4)
          BY DEF m
        <4>6. x \in 0 .. 129
          BY <1>3, <1>4, <4>3, <4>4
        <4>7. m.build = "esp32" => x < m.size
          <5>1. m.size % 2 = 0 /\ m.size \in Nat
            BY <1>3
          <5>2. CASE bytes = 1
            BY <5>2, <1>4, <4>3
          <5>3. CASE bytes = 2
            BY <5>3, <5>1, <1>4, <4>3, <4>4
          <5>4. CASE bytes = 4
            BY <5>4, <5>1, <1>4, <4>3, <4>4, <4>5
          <5> QED BY <5>2, <5>3, <5>4, <1>4
        <4> QED BY <3>1, <2>2, <4>6, <4>7, <1>3
      <3> QED BY <3>2, <3>3, <1>2
    <2> QED BY <2>1, <2>2
  <1>7. Reached(x, m, overlay) = Reached(x, m, FALSE)
    BY <1>1, <1>6
  <1>8. CASE m.build = "host"
    <2>1. FromRam(x, m) = Reached(x, m, FALSE)
      BY <1>1, <1>6, <1>8, HostFacts DEF m
    <2> QED BY <2>1, <1>7 DEF m
  <1>9. CASE m.build # "host" /\ x < m.size
    <2>1. FromRam(x, m) = <<"ram", x>>
      BY <1>9 DEF FromRam
    <2>2. Reached(x, m, FALSE) = <<"ram", x>>
      <3>1. x % AddrSpace = x /\ x % m.size = x /\ x < RomBase /\ x \in Nat
        BY <1>3, <1>6, <1>9 DEF AddrSpace, RomBase
      <3> QED BY <3>1 DEF Reached, In, RomBase
    <2> QED BY <2>1, <2>2, <1>7 DEF m
  <1> QED BY <1>6, <1>8, <1>9

\* An address that the RAM-or-ROM test accepts is below 256; what it accepts of RAM as it
\* is addressed without a mirror, and of the ROM proper, the access finds where the bus
\* has it.
LEMMA EitherProbeRight == ASSUME MemoryInv PROVE EitherProbeSparesDevices
  <1> DEFINE m == machine
  <1>1. m \in Machines /\ overlay \in BOOLEAN /\ \A b \in blocks : b.ovl \in BOOLEAN
    BY DEF MemoryInv
  <1>2. overlay => \A b \in blocks : b.ovl
    BY DEF MemoryInv
  <1>3. /\ m.size \in {4, 8, 16, 32, 64, 96, 128} /\ m.rom \in BOOLEAN
        /\ m.build = "host" \/ (m.build = "esp32" /\ m.size # 96)
        /\ m.size # 96 => m.size \in Powers
    BY <1>1, MachineFacts
  <1> HIDE DEF m
  <1> SUFFICES ASSUME m.rom, NEW b \in blocks, NEW bytes \in Sizes,
                      NEW a \in EitherProbe[m][b.ovl][bytes], NEW r,
                      r = Reached(a, m, overlay)
               PROVE  /\ r[1] \notin {"via", "iwm", "scc", "debug"}
                      /\ In(a, RomBase, RomSize) \/ (r[1] = "ram" /\ a < m.size) =>
                             r = EitherByte(a, m, b.ovl, bytes)
    BY DEF EitherProbeSparesDevices, m
  <1> DEFINE ramTest == RamTest(a, m, b.ovl, bytes)
             romTest == RomTest(a, m, b.ovl, bytes)
  <1>4. a \in Addr /\ ramTest \cap romTest = {}
    <2>1. EitherProbe[m][b.ovl][bytes] =
              {d \in Addr : RamTest(d, m, b.ovl, bytes) \cap RomTest(d, m, b.ovl, bytes) = {}}
      BY <1>1 DEF EitherProbe
    <2> QED BY <2>1
  <1>5. a \in Nat /\ bytes \in {1, 2, 4} /\ BitsOf(a) \subseteq AllBits
    BY <1>4 DEF Addr, AddrSpace, Sizes, BitsOf
  <1>6. /\ b.ovl \/ m.size = 96 => ramTest = BitsOf(a)
        /\ ~b.ovl /\ m.size # 96 =>
               ramTest = BitsOf(a) \cap ((AllBits \ BitsOf(m.size - 1)) \cup Odd(bytes))
        /\ b.ovl => romTest = Xor(BitsOf(a), {8})
        /\ ~b.ovl => romTest = Xor(BitsOf(a) \cap ((AllBits \ {1, 2}) \cup Odd(bytes)), {8})
    <2>1. TestsAre(m, a, b.ovl, bytes)
      BY <1>1, <1>4, TestFacts
    <2> QED BY <2>1, Zenon DEF TestsAre
  <1> HIDE DEF ramTest, romTest
  \* Bits 8 to 10 are in the mask of RAM, and all but the lowest two in that of the ROM.
  <1>7. BitsOf(m.size - 1) \subseteq {1, 2, 3, 4, 5, 6, 7}
    BY <1>3, LowBits
  <1>8. {8, 9, 10} \cap BitsOf(a) \subseteq ramTest
    <2>1. {8, 9, 10} \subseteq AllBits
      BY PlaceFacts
    <2>2. CASE b.ovl \/ m.size = 96
      BY <2>2, <1>6
    <2>3. CASE ~(b.ovl \/ m.size = 96)
      BY <2>1, <2>3, <1>6, <1>7
    <2> QED BY <2>2, <2>3
  <1>9. ASSUME NEW k \in BitsOf(a), k \notin {1, 2, 8} PROVE k \in romTest /\ k \notin ramTest
    <2>1. k \in AllBits
      BY <1>5
    <2>2. CASE b.ovl
      BY <1>4, <1>6, <1>9, <2>1, <2>2 DEF Xor
    <2>3. CASE ~b.ovl
      BY <1>4, <1>6, <1>9, <2>1, <2>3 DEF Xor
    <2> QED BY <2>2, <2>3
  <1>10. a < 256
    <2>1. BitsOf(a) \subseteq {1, 2, 3, 4, 5, 6, 7, 8}
      BY <1>5, <1>8, <1>9, PlaceFacts
    <2>2. BitsOf(256 - 1) = {1, 2, 3, 4, 5, 6, 7, 8} /\ 256 \in Powers
      BY LowBits DEF Powers
    <2> QED BY <2>1, <2>2, <1>4, BoundFacts
  <1>11. a % AddrSpace = a
    BY <1>5, <1>10 DEF AddrSpace
  <1>12. r[1] \notin {"via", "iwm", "scc", "debug"}
    <2>1. Region(a) \in {"scsi", "none"}
      BY <1>5, <1>10 DEF Region, In, DebugBase, ViaBase, IwmBase, SccBase, ScsiBase, OvlRamBase
    <2> QED BY <2>1, <1>11 DEF Reached
  <1>13. ASSUME In(a, RomBase, RomSize) PROVE r = EitherByte(a, m, b.ovl, bytes)
    <2>1. a \in 128 .. 131
      BY <1>13 DEF In, RomBase, RomSize
    <2>2. ramTest # {}
      <3>1. BitsOf(128 - 1) = {1, 2, 3, 4, 5, 6, 7} /\ 128 \in Powers
        BY LowBits DEF Powers
      <3>2. ~(BitsOf(a) \subseteq {1, 2, 3, 4, 5, 6, 7})
        BY <2>1, <3>1, <1>4, BoundFacts
      <3>3. PICK k \in BitsOf(a) : k \notin {1, 2, 3, 4, 5, 6, 7}
        BY <3>2
      <3>4. k \in {8, 9, 10}
        BY <3>3, <1>5, PlaceFacts
      <3> QED BY <3>3, <3>4, <1>8
    <2>3. EitherByte(a, m, b.ovl, bytes) = <<"rom", a - 128>>
      <3>1. EitherByte(a, m, b.ovl, bytes) = FromRom(a, m)
        BY <2>2 DEF EitherByte, ramTest
      <3>2. HostByte[m][a] = <<"rom", a - 128>>
        <4>1. a \in 0 .. (2 * AddrSpace + 2) /\ ~(a < RomBase)
          BY <2>1 DEF AddrSpace, RomBase
        <4> QED BY <4>1, <1>1, <1>13 DEF HostByte, RomBase
      <3>3. CASE m.build = "host"
        BY <3>1, <3>2, <3>3 DEF FromRom
      <3>4. CASE m.build # "host"
        BY <3>1, <3>4 DEF FromRom, RomBase
      <3> QED BY <3>3, <3>4
    <2>4. r = <<"rom", a - 128>>
      <3>1. (a - 128) % 4 = a - 128
        BY <2>1
      <3> QED BY <2>1, <3>1, <1>11 DEF Reached, In, RomBase, RomSize, OvlRamBase, Megabyte
    <2> QED BY <2>3, <2>4
  <1>14. ASSUME r[1] = "ram", a < m.size PROVE r = EitherByte(a, m, b.ovl, bytes)
    <2>1. a < 128 /\ 8 \notin BitsOf(a)
      <3>1. a < 128 /\ 128 \in Powers /\ BitsOf(128 - 1) = {1, 2, 3, 4, 5, 6, 7}
        BY <1>3, <1>5, <1>14, LowBits DEF Powers
      <3> QED BY <3>1, <1>4, BoundFacts
    <2>2. ~overlay
      <3>1. Region(a) = "none"
        BY <1>5, <2>1 DEF Region, In, DebugBase, ViaBase, IwmBase, SccBase, ScsiBase, OvlRamBase
      <3>2. CASE overlay
        BY <1>5, <1>11, <1>14, <2>1, <3>1, <3>2 DEF Reached, In, OvlRamBase, Megabyte, RomBase
      <3> QED BY <3>2
    <2>3. r = <<"ram", a>>
      <3>1. a % m.size = a
        BY <1>3, <1>5, <1>14
      <3> QED BY <3>1, <1>5, <1>11, <2>1, <2>2 DEF Reached, In, RomBase
    <2>4. m.size # 96 \/ a < 32
      <3> SUFFICES ASSUME m.size = 96 PROVE a < 32
        OBVIOUS
      <3>1. BitsOf(a) \subseteq {1, 2}
        BY <1>6, <1>9, <2>1
      <3>2. BitsOf(4 - 1) = {1, 2} /\ 4 \in Powers
        BY LowBits DEF Powers
      <3>3. a < 4
        BY <3>1, <3>2, <1>4, BoundFacts
      <3> QED BY <3>3, <1>5
    <2>5. FromRam(a, m) = <<"ram", a>>
      <3>1. CASE m.build = "host"
        <4>1. FromRam(a, m) = Reached(a, m, FALSE)
          <5>1. a \in 0 .. 129
            BY <1>5, <2>1
          <5> QED BY <5>1, <1>1, <2>4, <3>1, HostFacts
        <4>2. r = Reached(a, m, FALSE)
          BY <1>1, <2>2
        <4> QED BY <4>1, <4>2, <2>3
      <3>2. CASE m.build # "host"
        BY <3>2 DEF FromRam
      <3> QED BY <3>1, <3>2
    <2>6. CASE ramTest = {}
      BY <2>3, <2>5, <2>6 DEF EitherByte, ramTest
    <2>7. CASE ramTest # {}
      <3>1. PICK k : k \in ramTest
        BY <2>7
      <3>2. k \in BitsOf(a) /\ k \in {1, 2}
        BY <3>1, <1>6, <1>9, <2>1
      <3>3. m.size = 96 /\ ~b.ovl
        <4>1. CASE b.ovl
          BY <4>1, <3>1, <3>2, <1>4, <1>6 DEF Xor
        <4>2. CASE ~b.ovl /\ m.size # 96
          <5>1. BitsOf(a) \subseteq BitsOf(m.size - 1)
            BY <4>2, <1>3, <1>4, <1>14, BoundFacts
          <5>2. k \in Odd(bytes)
            BY <4>2, <5>1, <3>1, <1>6
          <5>3. k \in romTest
            BY <4>2, <5>2, <3>2, <1>5, <1>6 DEF Xor
          <5> QED BY <5>3, <3>1, <1>4
        <4> QED BY <4>1, <4>2
      <3>4. EitherByte(a, m, b.ovl, bytes) = FromRom(a, m)
        BY <2>7 DEF EitherByte, ramTest
      <3>5. FromRom(a, m) = HostByte[m][a] /\ FromRam(a, m) = HostByte[m][a]
        BY <1>3, <3>3 DEF FromRom, FromRam
      <3> QED BY <2>3, <2>5, <3>4, <3>5
    <2> QED BY <2>6, <2>7
  <1> QED BY <1>12, <1>13, <1>14

\* The tests compiled into blocks agree with the bus, across the overlay switch, on every
\* machine the code can be built or started for.
THEOREM ProbesAlwaysExact == Spec => []ProbesExact
  <1>1. ASSUME Inv PROVE TypeOK
    <2>1. MemoryInv /\ SerialInv /\ ClockInv
      BY <1>1 DEF Inv
    <2>2. /\ machine \in Machines /\ overlay \in BOOLEAN
          /\ blocks \subseteq [pc : CodePcs, ovl : BOOLEAN]
          /\ stale \subseteq {b.pc : b \in blocks} /\ dirty \subseteq codePages
      BY <2>1 DEF MemoryInv
    <2>3. /\ scc.ptr \in 0 .. 15 /\ scc.irqOn \in BOOLEAN
          /\ serial.sent \in 0 .. MaxRx /\ serial.got \in Seq(1 .. MaxRx)
      BY <2>1 DEF SerialInv, SccType, SerialType
    <2>4. /\ rtc.state \in {"command", "read", "write"}
          /\ rtc.count \in 0 .. (Bits - 1) /\ rtc.shift \in Byte
          /\ written \in [Cells -> Byte]
      BY <2>1 DEF ClockInv, RtcType
    <2> QED BY <2>2, <2>3, <2>4, Zenon DEF TypeOK
  <1>2. Inv => ProbesExact
    BY <1>1, RamProbeRight, EitherProbeRight DEF Inv, ProbesExact
  <1> QED BY <1>2, Invariant, PTL
=============================================================================
