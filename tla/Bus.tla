-------------------------------- MODULE Bus ---------------------------------
(***************************************************************************)
(* The memory map of core/mac_mem.c as its three users see it: the bus     *)
(* itself (mem_ptr, region_of, mac_read8, mac_write8), the inline accesses *)
(* of compiled blocks, which test an address against masks fixed when the  *)
(* block was compiled, and the write watch that tells the dispatcher what  *)
(* the guest overwrote.  Behind the bus: the serial controller and the     *)
(* clock chip.                                                             *)
(*                                                                         *)
(* The map is drawn to scale: one address of the model is 0x8000 bytes of  *)
(* the machine, so a megabyte is 32, the ROM at 0x400000 is at 128 and its *)
(* 128 KB are 4.  Guest addresses have 32 bits, of which the bus uses 24;  *)
(* here 10, of which it uses 9.  A mask, and the outcome of a test, is the  *)
(* set of the places of its bits.                                          *)
(***************************************************************************)
EXTENDS Scc, Rtc, Sequences

CONSTANTS
    Machines,     \* size of RAM, whether there is a ROM, and the build that runs blocks
    DeviceMachine, \* the machine on which the devices are explored
    CodePcs,      \* guest pcs of the blocks
    BlockBytes,   \* bytes of a block
    PageBytes,    \* bytes of a page of the write watch
    StoreAddrs,   \* addresses the guest stores to
    MouseBytes,   \* the low-memory globals mac_set_mouse writes
    MaxRx,        \* bytes that arrive on the serial line
    Values        \* bytes the guest writes to the clock chip

Megabyte == 32
AddrSpace == 512
Addr == 0 .. (2 * AddrSpace - 1)
RomBase == 128
RomSize == 4
OvlRamBase == 192
ScsiBase == 176
SccBase == 256
IwmBase == 384
ViaBase == 464
DebugBase == 480

ASSUME BusAssumption ==
    /\ Machines \subseteq [size : 1 .. RomBase, rom : BOOLEAN, build : {"host", "esp32"}]
    /\ \A m \in Machines :
           \/ m.build = "host" /\ m.size \in {n * Megabyte : n \in 1 .. 4}      \* --ram-mb
           \/ m.build = "esp32" /\ m.size \in {4, 8, 16, 32, 64, 128}          \* MAC_RAM_BYTES
    /\ DeviceMachine \in Machines
    /\ CodePcs \cup StoreAddrs \cup MouseBytes \subseteq Addr
    /\ {BlockBytes, PageBytes} \subseteq Nat \ {0} /\ MaxRx \in Nat
    /\ Values \subseteq Byte

VARIABLES
    machine,      \* what does not change: ram_size, rom, the build
    overlay,      \* ROM is mapped at 0 and RAM at OvlRamBase
    blocks,       \* compiled blocks: pc and the overlay their masks were made under
    stale,        \* history: pcs of blocks overwritten since they were compiled
    codePages,    \* code_pages
    dirty,        \* dirty_pages
    scc,          \* m->scc
    serial,       \* bytes sent, what the guest last polled, bytes the guest has read
    rtc,          \* m->rtc
    drv,          \* the guest's transfer with the clock chip
    written       \* history: the last byte written to each cell of parameter RAM

memory == <<machine, overlay, blocks, stale, codePages, dirty>>
clock == <<rtc, drv, written>>
vars == <<memory, scc, serial, clock>>

-----------------------------------------------------------------------------
\* What the bus reaches at an address.

In(a, lo, n) == a \in lo .. (lo + n - 1)

Region(a) ==
    CASE In(a, DebugBase, 1) -> "debug"
      [] a \in ViaBase .. (DebugBase - 1) -> "via"
      [] a \in IwmBase .. (ViaBase - 1) -> "iwm"
      [] a \in SccBase .. (IwmBase - 1) -> "scc"
      [] a \in ScsiBase .. (OvlRamBase - 1) -> "scsi"
      [] OTHER -> "none"

\* mem_ptr, and the device region_of selects when it returns NULL.
Reached(a32, m, ovl) ==
    LET a == a32 % AddrSpace IN
    CASE ovl /\ In(a, 0, Megabyte) /\ m.rom -> <<"rom", a % RomSize>>
      [] ovl /\ In(a, OvlRamBase, Megabyte) -> <<"ram", (a - OvlRamBase) % m.size>>
      [] ~ovl /\ In(a, 0, RomBase) -> <<"ram", a % m.size>>
      [] In(a, RomBase, Megabyte) /\ m.rom -> <<"rom", (a - RomBase) % RomSize>>
      [] OTHER -> <<Region(a), 0>>

\* The byte mac_write8 changes and the address it gives to the watch.
RamByte(a32, m, ovl) ==
    LET r == Reached(a32, m, ovl) IN IF r[1] = "ram" THEN {r[2]} ELSE {}
\* Mutant of WatchAddress: the watch is given the 32-bit address.
WatchAddress_Unmasked(a32, m, ovl) ==
    IF ovl \/ RamByte(a32, m, ovl) = {} THEN RamByte(a32, m, ovl) ELSE {a32}

WatchAddress(a32, m, ovl) ==
    IF ovl \/ RamByte(a32, m, ovl) = {} THEN RamByte(a32, m, ovl) ELSE {a32 % AddrSpace}

-----------------------------------------------------------------------------
\* What an inline access reaches: a test of the address against masks that
\* were made when the block was compiled, then an offset from a base.

AllBits == 1 .. 10
Place == <<1, 2, 4, 8, 16, 32, 64, 128, 256, 512>>
BitsOf(n) == {k \in AllBits : (n \div Place[k]) % 2 = 1}
Xor(S, T) == (S \ T) \cup (T \ S)

PowerOfTwo(n) == \E k \in AllBits : n = Place[k]

\* Mutant of BoundsMask: the overlay does not close the mask.
BoundsMask_IgnoresOverlay(size, ovl, bytes) ==
    IF ~PowerOfTwo(size) THEN AllBits
    ELSE (AllBits \ BitsOf(size - 1)) \cup (IF bytes = 1 THEN {} ELSE {1})

\* ram_bounds_mask, rom_bounds_mask and their _byte forms.
BoundsMask(size, ovl, bytes) ==
    IF ovl \/ ~PowerOfTwo(size) THEN AllBits
    ELSE (AllBits \ BitsOf(size - 1)) \cup (IF bytes = 1 THEN {} ELSE {1})

RamTest(a, m, ovl, bytes) == BitsOf(a) \cap BoundsMask(m.size, ovl, bytes)

\* LITERAL_ROM_BASE is all ones when there is no ROM.
RomTest(a, m, ovl, bytes) ==
    IF m.rom THEN Xor(BitsOf(a) \cap BoundsMask(RomSize, ovl, bytes), BitsOf(RomBase))
    ELSE Xor(BitsOf(a), AllBits)

Sizes == {1, 2, 4}

\* The arms with an absolute address decide at compile time.
Absolute(a, m, ovl, bytes) ==
    ~ovl /\ PowerOfTwo(m.size) /\ a + bytes - 1 < m.size /\ (bytes > 1 => a % 2 = 0)

\* The addresses an access of RAM is inlined for.
RamProbe == [m \in Machines |-> [ovl \in BOOLEAN |-> [bytes \in Sizes |->
                {a \in Addr : RamTest(a, m, ovl, bytes) = {} \/ Absolute(a, m, ovl, bytes)}]]]

\* The addresses the arms that read RAM or ROM accept: the AND of the tests is 0.
EitherProbe == [m \in Machines |-> [ovl \in BOOLEAN |-> [bytes \in Sizes |->
                   {a \in Addr : RamTest(a, m, ovl, bytes) \cap RomTest(a, m, ovl, bytes) = {}}]]]

\* The byte at a host address: the simulator decodes RAM and ROM once more
\* (sim_translate), the ESP32 adds to a pointer.
NumberOf(S) == CHOOSE n \in Addr : BitsOf(n) = S
Mirror(a, size) == NumberOf(BitsOf(a) \cap BitsOf(size - 1))
HostByte == [m \in Machines |-> [a \in 0 .. (2 * AddrSpace + 2) |->
    CASE a < RomBase /\ Mirror(a, m.size) < m.size -> <<"ram", Mirror(a, m.size)>>
      [] m.rom /\ In(a, RomBase, RomSize) -> <<"rom", a - RomBase>>
      [] OTHER -> <<"none", 0>>]]
FromRam(a, m) == IF m.build = "host" THEN HostByte[m][a] ELSE <<"ram", a>>
FromRom(a, m) ==
    CASE ~m.rom -> <<"none", 0>>
      [] m.rom /\ m.build = "host" -> HostByte[m][a]
      [] OTHER -> <<"rom", a - RomBase>>

\* The RAM test selects the base.
EitherByte(a, m, ovl, bytes) ==
    IF RamTest(a, m, ovl, bytes) = {} THEN FromRam(a, m) ELSE FromRom(a, m)

-----------------------------------------------------------------------------
\* The dispatcher's side of the watch.

BlockRange(pc) == pc .. (pc + BlockBytes - 1)
Page(a) == a \div PageBytes
PagesOf(pc) == {Page(a) : a \in BlockRange(pc)}

\* A mirror of RAM below RomBase is RAM under another address: see WritesSeen.
Canonical(a32) == a32 % AddrSpace < machine.size

\* mac_write8 for each byte of an access, and smc_watch.
StoreBytes(as) ==
    LET hit == UNION {RamByte(a, machine, overlay) : a \in {x \in as : Canonical(x)}}
        pages == {Page(w) : w \in UNION {WatchAddress(a, machine, overlay) : a \in as}}
    IN  /\ stale' = stale \cup {b.pc : b \in {c \in blocks : BlockRange(c.pc) \cap hit # {}}}
        /\ dirty' = dirty \cup (pages \cap codePages)
        /\ UNCHANGED <<machine, overlay, blocks, codePages>>

-----------------------------------------------------------------------------
Idle == [phase |-> "idle", cmd |-> ZeroByte, val |-> ZeroByte, i |-> 0, got |-> <<>>]

Init ==
    /\ machine \in Machines
    /\ overlay = machine.rom          \* mac_load_ram_image takes the overlay away
    /\ blocks = {} /\ stale = {} /\ codePages = {} /\ dirty = {}
    /\ scc = SccInit
    /\ serial = [sent |-> 0, polled |-> FALSE, got |-> <<>>]
    /\ rtc = RtcInit /\ drv = Idle /\ written = rtc.pram

\* Each part of the guest is explored with the others at rest: they share
\* no state but the serial interrupt enable, and the devices are the same in
\* every machine.
SerialAtRest == serial.sent = 0
ClockAtRest == rtc = RtcInit /\ drv = Idle
MemoryAtRest == blocks = {} /\ overlay = machine.rom

\* Memory.

\* The boot ROM writes ORA with PA4 clear once, and never sets it again.
WriteOra == overlay' = FALSE /\ UNCHANGED <<machine, blocks, stale, codePages, dirty>>

\* The guest runs from the ROM's own addresses, and from RAM without the overlay.
CodeAt(pc) == IF machine.rom /\ In(pc, RomBase, RomSize) THEN TRUE
              ELSE ~overlay /\ pc + BlockBytes <= machine.size
Compile(pc) ==
    /\ CodeAt(pc)
    /\ \A b \in blocks : b.pc # pc
    /\ blocks' = blocks \cup {[pc |-> pc, ovl |-> overlay]}
    /\ codePages' = codePages \cup PagesOf(pc)
    /\ UNCHANGED <<machine, overlay, stale, dirty>>

HelperStore(a, bytes) == StoreBytes({(a + k) % (2 * AddrSpace) : k \in 0 .. (bytes - 1)})

\* mac_set_mouse; the position can be the one that is already there.
SetMouse(moved) == scc.irqOn /\ StoreBytes(IF moved THEN MouseBytes ELSE {})

\* smc_flush: every block on a dirty page is dropped.
Flush ==
    LET dropped == {b \in blocks : PagesOf(b.pc) \cap dirty # {}} IN
    /\ dirty # {}
    /\ blocks' = blocks \ dropped /\ stale' = stale \ {b.pc : b \in dropped}
    /\ dirty' = {}
    /\ UNCHANGED <<machine, overlay, codePages>>

Memory ==
    /\ SerialAtRest /\ ClockAtRest /\ UNCHANGED <<scc, serial, clock>>
    /\ \/ WriteOra
       \/ \E pc \in CodePcs : Compile(pc)
       \/ \E a \in StoreAddrs, bytes \in {1, 2, 4} : HelperStore(a, bytes)
       \/ \E moved \in BOOLEAN : SetMouse(moved)
       \/ Flush

-----------------------------------------------------------------------------
\* Serial line: the host sends bytes to channel 1; the guest's driver polls
\* and then reads, and any code of the guest writes control registers.

Rx == /\ serial.sent < MaxRx
      /\ scc' = SccRx(scc, 1, serial.sent + 1)
      /\ serial' = [serial EXCEPT !.sent = @ + 1]

Poll == /\ scc' = ReadControl(scc)
        /\ serial' = [serial EXCEPT !.polled = RxBit(scc, 1)]

TakeByte ==
    /\ serial.polled
    /\ scc' = ReadData(scc, 1)
    /\ serial' = [serial EXCEPT !.polled = FALSE, !.got = Append(@, scc.byte[1])]

Control(v, mie) == scc' = WriteControl(scc, v, mie) /\ UNCHANGED serial

Serial ==
    /\ ClockAtRest /\ UNCHANGED <<memory, clock>>
    /\ \/ machine = DeviceMachine /\ MemoryAtRest /\ (Rx \/ Poll \/ TakeByte)
       \/ \E v \in {0, 3, 9}, mie \in BOOLEAN : Control(v, mie)

-----------------------------------------------------------------------------
\* Clock chip: the guest's driver writes a command and a byte, or a command
\* and reads a byte; other code of the guest writes port B meanwhile with
\* the chip's enable and clock as they are.

Reading == ReadBit(drv.cmd)
DataBit == IF drv.i < Bits THEN drv.cmd[drv.i + 1] ELSE drv.val[drv.i - Bits + 1]

StartTransfer(cmd, val) ==
    /\ drv.phase \in {"idle", "done"}
    /\ ReadBit(cmd) => val = ZeroByte
    /\ drv' = [Idle EXCEPT !.phase = "low", !.cmd = cmd, !.val = val]
    /\ UNCHANGED <<rtc, written>>

ClockLow ==
    /\ drv.phase = "low"
    /\ rtc' = RtcWrite(rtc, TRUE, FALSE, DataBit)
    /\ drv' = [drv EXCEPT !.phase = "high"]
    /\ UNCHANGED written

ClockHigh ==
    /\ drv.phase = "high"
    /\ rtc' = RtcWrite(rtc, TRUE, TRUE, DataBit)
    /\ drv' = [drv EXCEPT !.phase = "sample"]
    /\ UNCHANGED written

\* After the rising edge the driver reads PB0, and it counts the bit.
Sample ==
    /\ drv.phase = "sample"
    /\ drv' = [drv EXCEPT !.i = @ + 1,
                          !.phase = IF drv.i + 1 = 2 * Bits THEN "done" ELSE "low",
                          !.got = IF Reading /\ drv.i >= Bits THEN Append(@, rtc.out) ELSE @]
    /\ written' = IF drv.i + 1 = 2 * Bits /\ ~Reading
                  THEN [written EXCEPT ![Cell(drv.cmd)] = drv.val] ELSE written
    /\ UNCHANGED rtc

\* The driver gives up, or ends, by deselecting the chip, between bits.
Deselect(clk) ==
    /\ drv.phase \in {"low", "done"}
    /\ rtc' = RtcWrite(rtc, FALSE, clk, FALSE)
    /\ drv' = Idle
    /\ UNCHANGED written

OtherPortBWrite(data) ==
    /\ drv.phase \in {"high", "sample", "low"} /\ drv.i > 0
    /\ rtc' = RtcWrite(rtc, TRUE, rtc.clk, data)
    /\ UNCHANGED <<drv, written>>

Clock ==
    /\ machine = DeviceMachine /\ SerialAtRest /\ MemoryAtRest /\ scc = SccInit
    /\ UNCHANGED <<memory, scc, serial>>
    /\ \/ \E cmd \in Byte, val \in Values : StartTransfer(cmd, val)
       \/ ClockLow \/ ClockHigh \/ Sample
       \/ \E clk \in BOOLEAN : Deselect(clk)
       \/ \E data \in BOOLEAN : OtherPortBWrite(data)

Next == Memory \/ Serial \/ Clock
Spec == Init /\ [][Next]_vars

-----------------------------------------------------------------------------
\* Every variable has its type.
TypeOK ==
    /\ machine \in Machines /\ overlay \in BOOLEAN
    /\ blocks \subseteq [pc : CodePcs, ovl : BOOLEAN]
    /\ stale \subseteq {b.pc : b \in blocks}
    /\ dirty \subseteq codePages
    /\ scc.ptr \in 0 .. 15 /\ scc.irqOn \in BOOLEAN
    /\ serial.sent \in 0 .. MaxRx /\ serial.got \in Seq(1 .. MaxRx)
    /\ rtc.state \in {"command", "read", "write"}
    /\ rtc.count \in 0 .. (Bits - 1) /\ rtc.shift \in Byte
    /\ written \in [Cells -> Byte]

\* An inline access of a cached block that its RAM test or its compile-time
\* test accepts reaches the bytes the bus reaches now, whether the block was
\* compiled before or after the overlay went away.  Two accesses are left
\* out because the code gets them wrong: address 0 while the overlay is on
\* (0 passes the mask of all ones) and, on the ESP32, a long at the last word
\* of RAM (the mask sees its first byte only).
RamProbeExact ==
    \A b \in blocks, bytes \in Sizes :
        \A a \in RamProbe[machine][b.ovl][bytes] :
            \/ overlay /\ a = 0
            \/ machine.build = "esp32" /\ a = machine.size - 2 /\ bytes = 4
            \/ \A k \in 0 .. (bytes - 1) :
                   FromRam(a + k, machine) = Reached(a + k, machine, overlay)

\* On a machine with a ROM the RAM-or-ROM test never lets an inline read pass
\* by the VIA, the IWM, the serial controller or the debug port, whose reads
\* have effects, and in RAM and in the ROM proper it reads what the bus reads.
EitherProbeSparesDevices ==
    machine.rom =>
    \A b \in blocks, bytes \in Sizes : \A a \in EitherProbe[machine][b.ovl][bytes] :
        LET r == Reached(a, machine, overlay) IN
        /\ r[1] \notin {"via", "iwm", "scc", "debug"}
        /\ In(a, RomBase, RomSize) \/ (r[1] = "ram" /\ a < machine.size) =>
               r = EitherByte(a, machine, b.ovl, bytes)

\* The tests compiled into blocks agree with the bus, across the overlay switch.
ProbesExact == TypeOK /\ RamProbeExact /\ EitherProbeSparesDevices

\* What codegen.c says of the RAM-or-ROM test: it accepts RAM and ROM only.
EitherProbeExact ==
    \A b \in blocks, bytes \in Sizes : \A a \in EitherProbe[machine][b.ovl][bytes] :
        Reached(a, machine, overlay)[1] \in {"ram", "rom"}

\* A block whose bytes a helper or the host's mouse overwrote is on a page
\* that is queued, whatever the upper byte of the address, the size of the
\* access and the pages it crosses.  A write through a mirror of RAM is left
\* out: the watch is given the address of the mirror.
WritesSeen == \A pc \in stale : PagesOf(pc) \cap dirty # {}

\* A guest that polls before it reads never reads a byte twice or out of
\* order, however the bytes arrive and whatever control registers other
\* code writes; bytes can be lost.
RxAtMostOnce == \A i \in 1 .. Len(serial.got) - 1 : serial.got[i] < serial.got[i + 1]

\* A byte the guest reads from parameter RAM is the last byte it completely
\* wrote to that cell, and an abandoned transfer changes nothing; a clock
\* register reads as the clock.
PramKeepsBytes ==
    /\ drv.phase \in {"idle", "done"} => rtc.pram = written
    /\ drv.phase = "done" /\ Reading =>
           drv.got = IF Address(drv.cmd) \in ClockRegs THEN ClockBytes[Address(drv.cmd)]
                     ELSE written[Cell(drv.cmd)]
=============================================================================
