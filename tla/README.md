# Verification of mac68k-jit-xtensa

TLA+ models of mac68k-jit-xtensa, a Macintosh Plus emulator whose 68000 is
compiled, block by block, to Xtensa code: the JIT, the processor's modes and
arithmetic, and the devices. Paths are relative to `src/`.

## 1. The system

### Parts, state and operations

| Part | State | Operations |
|---|---|---|
| Code cache (`jit/codecache.c`) | arena, cursor `used`, intrusive free list, policy | alloc (bump, LRU first fit, FIFO ring), free, trim, reset, the eviction callbacks |
| Dispatcher (`jit/dispatcher.c`) | hash table of blocks, `prev`, `predicted_next`, code pages, dirty-page queue, counters | `get_block` (find, compile, retry, prefetch), `smc_watch`, `smc_flush`, `lru_evict_cb`, `fifo_evict_range_cb`, the run loop, `enter_block` |
| Code generator (`jit/codegen.c`) | per block: register cache and dirty mask, `g_sr_dirty`, `g_pc_acc`, `g_sext_valid`, helper masks | one arm per family of instructions; flush, reload and bridge emitters; prologue and epilogue |
| Interpreter (`core/m68k_interp.c`) | `m68k_cpu` | `m68k_step`, fast helpers, `m68k_decode_at`, exceptions, interrupt polling |
| Memory map (`core/mac_mem.c`) | RAM, ROM, overlay | reads and writes with `mac_write_watch` |
| VIA (`core/mac_mem.c`) | timers, IFR, IER, port registers | register access, `mac_mem_tick`, `mac_via_recalc_irq` |
| Keyboard and mouse (`core/mac_input.c`) | event ring, shift-register protocol | key events, commands, timed replies |
| SCSI, Sony, SCC, RTC, IWM, sound (`core/`) | device registers and phases | register access, insert and eject, ticks |
| Xtensa encoder and simulator (`jit/emit_xtensa.c`, `jit/xtensa_sim.c`) | code buffer; register file | emit; run one block |
| Host driver, GUI, ESP32 port (`port/`, `gui/`) | options, sockets | around the run loop |

### Interaction

The run loop is one thread. In each iteration it ticks the devices, polls
interrupts (which may push an exception frame), asks `get_block` for the block
at `cpu->pc` and enters it. `get_block` looks the pc up, or calls
`m68k_compile_block`, which reserves a worst-case span of the code cache,
emits, and trims. The code cache calls back into the dispatcher to evict
blocks. A block calls helpers, which run interpreter code on `m68k_cpu`; their
stores call `mac_write_watch`, by which the dispatcher queues pages of
compiled code for the flush after the block. On the ESP32 a block jumps to its
predicted successor without returning to the loop.

### What is hard

There is one thread, and nothing is persisted, so there are no data races and
no crash recovery. The difficulties are of other kinds.

* Callbacks. `get_block` may free blocks that its caller holds (`prev`), that
  other blocks point at (`predicted_next`), or that it is about to return.
* Stale code. Stores come from helpers, inline code, interrupt frames and the
  disk driver, at points the flush may not follow soon enough.
* Copies. A guest register may be in a slot, in `m68k_cpu` or in both; the
  notes that say which are compile-time values, while the path is chosen at
  run time. A flush emitted inside a conditional bridge changes the notes for
  the code after it on both paths.
* Limits. The arena and the dirty-page queue fill up, compiles fail at three
  places, the retry must end.
* Time. Devices see time only in `mac_mem_tick`, after a block, and must not
  lose, repeat or misattribute what happened between two ticks.
* Protocols. Keyboard, SCSI, clock chip and disk driver are state machines
  driven by registers that a guest may touch in any order.
* Two engines. Emitted code and interpreter compute flags, and decide what an
  address reaches, in different ways, and must agree.

What makes each part correct: spans of the code cache never overlap, headers
of the free list are never written into code, and allocation ends; the
dispatcher never follows a pointer to a freed block and never enters code that
has been overwritten; a compiled block leaves `m68k_cpu` as the interpreter
would; each exception frame is found again by its RTE; inline flags are those
of the interpreter; the interrupt line follows the flags; each device follows
its protocol, and moves every byte once. `PROJECT.json` lists the hazards line
by line.

## 2. Plan

Ordered by importance. Steps 1 to 9 are done; step 10 is what is left.

1. Code cache: `CodeCacheOps`, `CodeCache`, abstract specification `Arena`,
   histories in `CodeCacheHistory`, proofs in `CodeCacheProofs`.
2. Dispatcher: `Dispatcher` over `CodeCacheOps`, shown to implement
   `CodeCache`; TLC instance `MCDispatcher`.
3. Code generator: `Arms`, `BlockCodegen`, `DisciplinedCodegen`, proofs in
   `BlockCodegenProofs`, TLC instances `MCBlockCodegen`, `MCBlockFaults`.
4. CPU modes: `CpuModes`, abstract specification `TwoStacks`.
5. VIA and keyboard: `Via`, `Keyboard`, composed with a guest in `MacIo`.
6. Flags and arithmetic: `AluOps`, `Alu`.
7. Disks: `Scsi` with its abstract specification `ScsiBus`; `Sony`.
8. Memory map, write watch, serial line and clock chip: `Scc`, `Rtc`, `Bus`.
9. Proofs, one module for each part: `DispatcherProofs`, `CpuModesProofs`,
   `AluProofs`, `MacIoProofs`, `DiskProofs` (for `Scsi` and `Sony`) and
   `BusProofs`, beside those of steps 1 and 3.
10. Operand order where source and destination are one register
    (`jit/codegen.c:4229`), the one listed hazard without a property.

## 3. The modules

### CodeCacheOps, CodeCache, Arena, CodeCacheHistory

`CodeCacheOps` holds the pure functions of the allocator. The free list, a
linked list in address order, is the set of its spans; first fit is the span
of lowest offset that is large enough. `CodeCache` adds the state (`used`,
`free`, the spans of cached blocks `live`, the reservation in progress) and
one action per outcome of `codecache_alloc`, per end of a compilation
(`Finish`, `FinishNoDescriptor`, `Overflow`), `Drop` for `smc_drop_range`,
which frees descriptors without freeing bytes, and `Reset`. Each turn of the
loop in `lru_alloc` is a step, because it calls back into the dispatcher. The
coldest block may be any block. `Arena` says what clients rely on: spans are
granted clear of all others, shortened in place, or taken away.
`CodeCacheHistory` adds the spans lost to `Drop`. `HeapSound` is the conjunction
of the named parts `TypeOK`, `InsideArena`, `SpansDisjoint`, `FreeListApart`
and `FullyCoalesced`; the other modules build their main invariants alike.
`CC_MODE_RANDOM` of the header has no code of its own: `codecache_alloc` sends
it to the bump allocator.

### Dispatcher

The block table over the real allocator, with an abstract compiler and guest.
Guest memory is a few words. A block remembers what the words it was compiled
from held, so "stale" is a comparison with `mem`. What a block does when it
runs is chosen freely: stores, STOP, halt and any next pc.

| Code | Model |
|---|---|
| place in `m68k_dispatcher_run_until` and `get_block_impl` | `ctl` |
| descriptors by address; hash buckets | `heap`; `table` |
| recursion of `get_block_impl` for prefetch | `job`, `todo` |
| `arena_resets`, `smc_invalidations` compared around `get_block` | `moved` |
| `code_pages`, `dirty_pages`, `smc_overflow` | `codePages`, `dirty`, `overflow` |
| `chain_budget`, `current_block`, `predicted_next_entry` | `budget`, `cur`, `entry` |

A freed descriptor's address can be handed out again by `calloc`, as in the
code. `StoresBy` says who stores to memory in a run: helpers (with the write
watch), inline fast paths (without it), or frames pushed between blocks.
`cycles` counts iterations, and only under LRU, where it orders the blocks.
`Succ` gives the static successors of a pc, at most two (`SuccAssumption`), as
`m68k_block_static_successors` fills an array of two.

### Arms, BlockCodegen, DisciplinedCodegen

`Arms` has one definition per arm of the `if` chain of `m68k_compile_block`:
the set of records that say which registers its inline code reads, which
registers and SR parts the instruction changes, whether a bounds check chooses
a path, which helper and which masks it uses, and what it does to a13.
`BlockCodegen` executes blocks made of arms. An action applies the
compile-time effect of an emit function always, and the effect of the code it
emits only if that code is on the executed path.

| Code | Model |
|---|---|
| slots a4..a7; `rc.dirty` | `slot` over `cached`; `dirty` |
| R_SR; `g_sr_dirty`; `was_sr_dirty` | `rsr`; `srDirty`; `wasDirty` |
| `g_pc_acc`; `op_pc[i]`; `cpu->pc` | `acc`; `opPc`; `pc` |
| `g_sext_src_reg`; a13 | `memo`; `word` |
| `cpu->d`, `cpu->a`; `cpu->sr` | `file`; `sr` |
| the pc of an interpreter run beside it | `gPc` |

Values are not modelled. `slot`, `rsr`, `file` and `sr` are the registers and
SR parts whose copy there is the value the interpreter would have. An
instruction makes every copy of its results stale except the one its code
stores, and that one too if an operand was stale. An instruction on the way
through a bridge takes several steps: `StartBridge` (flush before the branch),
`BridgeFlush`, `Call`, `BridgeReload`, `FastPath`. Cycles are kept by the same
functions as the pc and left out. Any set of registers may be cached, where
the code picks at most four.

`DisciplinedCodegen` states what each arm must see to by itself, as the
assumption `ArmDiscipline`: the touched mask covers what the helper writes, a
helper called without SR does not use it, instructions that use R_SR make the
block load it, a hand-written bridge sets the flags it may lose, only the last
instruction jumps. TLC evaluates the assumption on all modelled arms when it
checks `codegen_blocks`.

### TwoStacks, CpuModes

`CpuModes` is the loop of `m68k_run_until` around supervisor and user mode:
exceptions, interrupts, the mount calls that `sony_service` injects, RTE, every
instruction that writes SR (in the interpreter, in a helper and inline), MOVE
USP, STOP and RESET. Of SR the S bit and the mask are kept. `sps` holds the
fields a[7], usp and ssp; memory is the two stacks, one cell per pushed value;
`due` counts the drives with a disk that `sony_service` has yet to announce,
one in each turn; `frames` is history. `OpenDriver` is the guest's call that
sets the callback. `InsertDrive` is the host's: between two calls of the run
loop it inserts a disk (`service_hd_insert` of `port/host/main.c`), also while
the processor is stopped. `TwoStacks` is the programmer's view: one pointer per
mode. The refinement mapping finds each in a[7] or in the stored field.

### AluOps, Alu

`AluOps` translates the flag functions of the interpreter (`set_flags_*`,
`cond_true`, `do_shift`, the decimal and division instructions) and the bit
formulas that `codegen.c` emits in their place, for operands of `2 * Half`
values, so that byte, word and long are values of one constant. `DivS` is the
set of the outcomes of DIVS: one, or any at all for the most negative dividend
by -1 (`UndefinedDiv`), whose division C does not define. The emitted
code works on whole registers and extracts the top bit; the model works on the
top bits. `Alu` runs one instruction, or two chained through X, on all
operands, and says in terms of integers what the results must be. What shifts
and rotates must be is said with powers of two: a rotate (`Rot`) puts the low
part of a number above its high part, and `Alu` assumes for it that a word is a
word of bits, as 8, 16 and 32 bits are.

### Via, Keyboard, MacIo

`Via` has the registers of the 6522 and the part of `mac_mem_tick` that
advances them; `Keyboard` the functions of `mac_input.c`. Both are operators on
records; `MacIo` has the state. Absolute times are kept as cycles left or
passed. A timer is written in one access.

| Code | Model |
|---|---|
| `v->ifr`, `v->ier`, `cpu->pending_irq` | `via.ifr`, `via.ier`, `via.irq` |
| `cycles - last_cycle`, `via_tick_rem`, `next_vbl - cycles` | `via.gap`, `via.rem`, `via.vbl` |
| bits 2 to 4 and bit 6 of ACR | `via.mode`, `via.free` |
| `K.state`, `K.timed_action`, deadlines | `kbd.state`, `kbd.action`, `kbd.left`, `kbd.inquiryLeft` |
| ring of key events | `kbd.keyq`, `kbd.head`, `kbd.tail` |

Four guests, one per behaviour: one for each timer, one that talks to the
keyboard as the ROM does, with its timeout and retry, and one that writes the
shift register and its mode at will. The guests are not in the repository;
they are assumptions about its environment.

### ScsiBus, Scsi

`Scsi` has one action for each register access that acts (`WriteOdr`,
`ReadData`, `WriteIcr`); the target answers inside the access, as in the code.
A command is its operation, block address and length. Two initiators: a driver
that follows the phases, and one that touches registers in any order. `ScsiBus`
is the phase protocol with the number of bytes each data phase still owes.

### Sony

The calls of the driver stub (`OpenA` to `OpenC`, `Prime`, `Eject`,
`SonyMount`) and `SonyService` of the run loop. The drive variables
`kDiskInPlace` and `kWriteProt`, which live in guest memory, are `inPlace` and
`dvWprot`. Injected callbacks nest, so `calls` is a stack. A disk is a function
from units to contents, with `SectorUnits` units to a sector. The definitions
that `Scsi` has too are called `SonyInit`, `SonyNext` and so on, so that
`DiskProofs` can extend both modules.

### Scc, Rtc, Bus

`Bus` has an address space of 512 addresses, and 512 more for those with an
upper byte, in the proportions of the Mac's (1 MB is 32). `Reached` is what
`mem_ptr` and `region_of` find at an address; `RamProbe`, `EitherProbe` and
`HostByte` are what the masks compiled into a block accept and what the
emitted access then reaches, on the host, where the simulator decodes the
address again, and on the ESP32, where a pointer is added. A mask, and the
outcome of a test, is the set of the places of its bits, so that `&` is an
intersection and `^` a symmetric difference; `Absolute` is the test that arms
with a fixed address make at compile time. Blocks carry the overlay under
which they were compiled. Stores go through the write watch to pages; `stale`
is history. The serial line uses `Scc`, and a clock driver that may be
interrupted and may give up uses `Rtc` through port B. In `Rtc` a byte is its
bits, in the order in which they go over the line; `ClockBytes` gives the
addresses that read the clock, whose seconds the code never advances.

## 4. The runs

Passing runs:

| Run | Checks | States |
|---|---|---|
| `codecache_safe` | The three policies: `HeapSound`; no bytes leak except by `Drop`; an LRU request fails only for lost bytes; `Arena` is implemented; allocation returns | 14,181 |
| `dispatcher_smc` | Bump arena, host and ESP32 builds, stores by helpers: stale blocks are queued, no stale block is entered, chains stop for STOP, halt and dirty pages, no freed block runs | 927,880 |
| `dispatcher_evict` | All policies in an arena too small for the guest, compiles that fail at allocation, in the emitter and at `calloc`, with and without `no_cache`, with both kinds of prefetch where nothing is evicted, stores of the other two kinds: `prev` and predictions are live, one block per pc, `CodeCache` is implemented, `get_block` returns | 802,461 |
| `codegen_blocks` | All arms except those that may trap in mid block, any two in a block: lock step, helpers see the guest, operands are current, the right instruction runs | 330,125 |
| `cpu_modes` | Exceptions, interrupts and mount calls in either mode: each RTE finds its frame, `TwoStacks` is implemented, a STOP with interrupts enabled ends, whatever disks are inserted meanwhile | 1,345,080 |
| `alu` | Conditions, overflow and carry mean what they say; inline flags are the interpreter's; chains through X, shifts, decimal arithmetic and division are exact, but for the one DIVS that C leaves undefined | 195,220 |
| `io` | The interrupt line follows the flags and one-shots fire once and in time; replies answer the command that was sent, and keys arrive once, in order, and all | 295,601 |
| `scsi` | The target moves bytes that exist, disks change as commands say, GOOD means all was moved, `ScsiBus` is implemented, commands end | 259,728 |
| `sony` | Mounts and ejects in any order leave driver and drive variables in agreement; transfers at the edges of the disk are exact; disks come on line | 30,151 |
| `bus` | Inline accesses reach what the bus reaches across the overlay switch; stores to code are seen; serial bytes are read at most once; parameter RAM keeps its bytes | 107,669 |

Violations, each a disagreement between the code and what the repository says
of it (quoted in `PROJECT.json` under findings):

| Run | Shows |
|---|---|
| `codegen_memo` | The sign-extended word in a13 counts as valid after add and subtract flags have used a13, and after a write to its source. |
| `bus_either` | The RAM test and the ROM test of an inline read are joined by a bitwise AND, which with 4 MB is 0 for addresses that are neither. |

`dispatcher_smc` has stores by helpers only, because the other two kinds break
its properties: frames pushed between blocks (section 5), and inline stores
because they never reach `mac_write_watch`, as the code itself remarks
(`jit/codegen.c:6217`). The fallback interpreter stores through the same
watch as the helpers, so it stores in both runs.

The options depend on the policy. In `dispatcher_evict` the list of prefetches
is filled, and must come to an end for `GetBlockReturns`, under the bump arena,
with static and with chain prefetch and a cache that is soon full, so that the
prefetch fails at every place where a compile can. Under LRU and FIFO the run
has no prefetch with a cache, because a prefetch that evicts may drop the block
that `get_block` returns (section 5).

### Bounds

* `ArenaCap` 48 or 50 bytes: six granules of 8, and 2 bytes that alignment of
  the capacity must drop. Requests of 16, 20, 32 and 56 bytes need one to four
  granules, alignment, and one more than fits. Three blocks suffice for a
  neighbour on either side of a freed span, a hole, and a ring wrap.
* Three words in pages of two: a block that spans two pages, two blocks that
  overlap, and two that share a page only.
* `MaxDirty` 1: the queue overflows at the second page. `Until` 4 bounds the
  LRU clock; the other policies run without bound on iterations.
* Two or three descriptors, so that addresses are reused. `dispatcher_smc` is
  symmetric under `Permutations(BlockId)`; `dispatcher_evict`, with its
  liveness property, does not use symmetry.
* One data register and two address registers, one of them A7: the arms
  distinguish only equal, different and A7. `MaxOps` 2 checks every ordered
  pair of arms, which is every way one arm's notes reach another; blocks
  follow each other without bound, and the theorem covers all lengths.
  `Target` {-2, 4} has jumps that differ from falling through.
* `cpu_modes`: two drives. Six supervisor cells hold three frames, or two mount
  calls, or one and the interrupt that ends a STOP, so an interrupt may come
  inside an exception or a mount call in either mode. The code checks no stack,
  so the model must say who leaves room (`MountRoom`, `Spare`): a disk is
  inserted only while its call still fits, and the program keeps `Spare` 3 cells
  free for it. Masks 0 and 7, and 1 by the interrupt.
* `alu`: three bits (`Half` 4) have a sign bit, a top bit and carries between
  them; shift counts go to 9, past twice the width and past the ring with X.
  The formulas combine corresponding bits and the carry into the top bit, so
  more width adds no new case. Decimal operands, which keep their eight bits,
  are taken where a digit's correction begins and ends.
* `io`: timers of four values, loaded with the least and the largest value,
  with up to three cycles between two ticks and two to a VIA count; a ring of
  three slots, full with two events; an inquiry that lasts two keyboard ticks;
  three key events.
* `scsi`: blocks of two bytes, disks of two, no and one block, the last one
  protected; length 0 stands for two blocks, so that it can fit.
* `sony`: sectors of two units; a disk of three units, which ends in mid
  sector, one of two, and an empty drive; requests to one sector past the end.
* `bus`: the four RAM sizes of the Mac Plus, one of them no power of two, and
  the two demo machines; addresses at both ends of RAM, in mirrors, the ROM,
  the devices and with an upper byte. The three parts share nothing but the
  serial interrupt enable, so each is explored with the others at rest. Bytes
  of the clock chip have three bits.

### Fairness

* `AllocReturns`, `GetBlockReturns`: weak fairness of the steps of the call in
  progress. The calls are sequential code of the only thread; nothing is
  assumed of the guest or of devices.
* `StopEnds`: weak fairness of the interrupt. `mac_mem_tick` raises CA1 at
  every vertical blank, also while the processor is stopped; a guest that
  enters STOP with the interrupt disabled is outside the property. Nothing is
  assumed of the host, which may insert disks during the STOP or not.
* `KeysArrive`: the processor executes and the loop ticks; the ROM serves the
  shift-register interrupt, comes to its timeout, and asks for keys again and
  again (strong fairness of choosing Inquiry or Instant, because in between it
  may ask for the model or a test).
* `CommandsEnd`: the driver moves the byte that the phase asks for. It need not
  select a target again.
* `DisksComeOnLine`: the stub opens the driver in three calls, the loop calls
  `sony_service` in each iteration, and callbacks run. The property excludes
  guests that eject for ever: one that ejects drive 0 whenever it is mounted
  keeps `sony_service`, which takes the first drive, from coming to drive 1.

## 5. Disagreements that have no run

Met while modelling; the properties of the passing runs are stated so as to
leave out exactly these, each with a comment where it does.

* FIFO does not evict "always the oldest-compiled run"
  (`jit/codecache.c:107-109`): a wrap that skips the tail of the arena leaves
  older blocks there while newer ones are evicted.
* With LRU or FIFO and static prefetch, a prefetch compiled at
  `jit/dispatcher.c:668` can evict the block that `get_block` is about to
  return. `RunningBlockLive` is checked for the bump arena.
* A frame pushed between two blocks over compiled code queues its page, but
  the next block is entered before the flush (`jit/dispatcher.c:704`).
* On the ESP32 a block that ends with a helper chains past the prologue of a
  successor with the same cached registers, whose slots are then stale
  (`jit/dispatcher.c:750-755`, `jit/codegen.c:384-385`).
* An instruction that traps in mid block does not end it; the following code
  runs on the state of the handler (`jit/codegen.c:5-6`).
* Inline ADDX and SUBX set Z for a zero result even if it was clear, though
  "Z is STICKY" (`jit/codegen.c:2759`): the mask they pass is widened at
  `jit/codegen.c:918`.
* `MOVEA.L (An)+,An` with one register writes the increment over the loaded
  value on its fast path (`jit/codegen.c:4229`).
* With the overlay on, address 0 passes a mask of all ones
  (`jit/dispatcher.c:34-38`); a long at the last word of RAM passes on the
  ESP32.
* A store through a mirror of RAM gives the watch the address of the mirror
  (`core/mac_mem.c:412`), so code in RAM proper is not invalidated by it.
* `scc_chan` and `scc_is_data` take bits 1 and 2 (`core/mac_mem.c:268-269`)
  where `core/mac_mem.h:149-150` has the channel on bit 2. `mac_scc_rx` raises
  no interrupt, against `core/mac_mem.h:217-218`. `--serial-in` sends its file
  into the one-byte latch before the guest starts, so that only the last byte
  is left (`port/host/main.c:1087`).
* A free-running T1 is loaded with the overshoot, not with the latch less the
  overshoot (`core/mac_mem.c:494-495`), though the count is called "exact over
  the long run" (`core/mac_mem.c:475-476`). Timers may fire up to one tick
  interval and one count early.
* CB2 starts low, so the keyboard misses the first command after power-up.
* The interpreter checks no privilege on RTE, STOP, MOVE USP or writes of SR.
  `cpu_modes` has a guest that uses RTE and MOVE USP in supervisor mode.
* `enter_block` is declared with two parameters on the ESP32
  (`jit/dispatcher.c:460`) and called with three (`jit/dispatcher.c:789`).
* DIVS of the most negative dividend by -1 is undefined in C, because the
  division comes before the test of its range (`core/m68k_interp.c:1631`). The
  model lets it have any result and flags, and no property speaks of it.

## 6. The proofs

TLC checks small instances; the theorems hold for every value of the constants
that satisfies the assumptions named in the modules. Those say no more than
that sizes are natural numbers, that capacities which are divided by or
stepped through are not 0, and that sets of options are sets of options the
code knows. Two are about the machine: `AluAssumption` has operands that are
words of bits, and `BusAssumption` the sizes of RAM that the builds offer, 1 to
4 MB on the host (`--ram-mb`) and `MAC_RAM_BYTES`, a power of two, on the
ESP32. Every safety property and every refinement that a passing run checks is
also a theorem. Each part has one inductive invariant, checked by TLC before
it was proved, and one lemma per action.

| Module | Proves | The invariant adds |
|---|---|---|
| `CodeCacheProofs` | `HeapSound` and its parts; `NoOtherLeak`, `OnlyLostBytesFail`; `CodeCache` implements `Arena` | alignment, footprints, the bump cursor |
| `DispatcherProofs` | `PointersLive`, `OneBlockPerPc`, `StaleIsQueued`, `EntersCurrentCode`, `ChainStopsForEvents`, `RunningBlockLive`; `Dispatcher` implements `CodeCache` | where `get_block` stands and what it holds |
| `BlockCodegenProofs` | `LockStep`, `HelperSeesGuest`, `OperandsCurrent`, `RunsGuestOp` | where the current copy of each register is |
| `CpuModesProofs` | `FramesSound`; `CpuModes` implements `TwoStacks` | stacks that stay apart |
| `AluProofs` | `FlagsMean`, `InlineAgrees`, `ChainsCarry`, `ShiftsMean`, `DecimalAndDivisionMean` | which operators gave the results |
| `MacIoProofs` | `TimersInTime`, `RepliesMatch`, `KeysInOrder` | the account of a one-shot, both sides of the exchange |
| `DiskProofs` | `TransferSound`, `DiskExact`, `Scsi` implements `ScsiBus`; `MountsSound`, `TransfersExact` | what a data phase is for; nothing is mounted before the driver is open |
| `BusProofs` | `ProbesExact`, `WritesSeen`, `RxAtMostOnce`, `PramKeepsBytes` | which blocks can have which masks, which byte is in the latch, where the bits of a transfer are |

**Code cache.** None of the properties is inductive. `Inv` adds what the
allocator relies on without saying so: offsets and free sizes are multiples of
8, spans are not empty, policies without a free list leave it alone, a
reservation's footprint is clear of all the rest, and the bump cursor is above
every block. For the histories the argument is by coverage: every operation on
the free list keeps every byte that was free, cached or reserved in one of
these, but for `Drop`, which counts what it loses; and a list that is fully
coalesced and covers the whole arena is one span, so that the request fits.

**Dispatcher.** `Inv` follows `get_block` from place to place: the demand call
comes first and holds nothing, prefetches come when it has its block, between
a miss and the insertion the pc stays absent from the table, and unless one of
the two counters moved, the result is still there. That last part is why
`prev` and the predictions are never dangling, and it holds for every policy,
option and kind of store. Three theorems have a hypothesis, and each excludes
what section 5 lists:

* `StaleIsAlwaysQueued` needs stores that reach the write watch, so no inline
  ones. `SmcInv` adds that a block's words were read from memory and that the
  pages it touches are marked as code.
* `AlwaysEntersCurrentCode` and `ChainsAlwaysStop` need stores by helpers
  and the fallback interpreter only, which is what inline stores and frames
  pushed between blocks break.
  `ChainInv` ties the queue, STOP and the halt to a chain budget of 0. The
  fallback interpreter goes back to the head of the loop without a flush; that
  this is harmless is because the cache is empty when a compile has failed
  (`EmptyInv`): all blocks there are until the next flush were compiled after
  the store, and predict nothing.
* `RunningBlockAlwaysLive` needs `NoLateEviction`, a bump arena or no
  prefetch, because a prefetch under LRU or FIFO may evict the result.

`DispatcherImplementsCodeCache` takes the spans of the descriptors for the live
spans; the mapping is one-to-one because the code cache's own invariant, which
`DispatcherProofs` obtains by instantiating `CodeCacheProofs`, keeps spans
apart. So the results about the arena carry over (`DispatcherHeapIsSound`).

**Code generator.** The theorems hold for every set of registers, every block
length and every set of arms that satisfies `ArmDiscipline`. The invariant
`Coherent` says for each place in the emission of an instruction where the
current copy is: between instructions every slot is current, and a register
that is not dirty is current in `m68k_cpu` too; R_SR is current if it was
loaded or is dirty, and `cpu->sr` if it is not dirty; `cpu->pc` lags by the
accumulated sum. Inside a bridge the cases differ by path, which is what the
properties alone do not tell. `CarefulSpec` restricts `HostSpec` to blocks in
which a valid memo is right. The code does not guarantee it (`codegen_memo`),
so the theorems do not speak of blocks that hit that fault, nor of trapping
instructions, which `ArmDiscipline` excludes, nor of native chains.

**Processor modes.** Frames nest on the supervisor stack. That no push reaches
one needs the two stacks to stay apart, in whichever field their pointers are
at the moment, and that `sony_service`, which checks nothing, finds room for
every call that is due.

**Arithmetic.** The specification is two steps long; the work is in lemmas
about the operators, for operands of every width. Two things need induction,
the loop of `do_shift` and the powers of two, and both are done by least
counterexample (`CountUp` takes a set, not an operator). LSR, ASR, LSL and ASL
keep, after each bit, the quotient or the product by the power of two; for V of
ASL the invariant is that once the exact product is out of range, doubling
does not bring it back. A rotate by one bit is `Left`; `RotNext` shows that
`Left` takes a rotate by m bits to one by m + 1, from the high and the low part
of the number, and ROXL is the same on a ring of one more bit. ROR and ROXR undo
`Left`, so a rotate to the right is one to the left read backwards.

**VIA and keyboard.** A one-shot keeps an account: the cycles it has waited and
the cycles its counter still owes (the count times the divider, less the
remainder and what has passed since the last tick) add up to the load, but for
one interval and one count. Executing moves cycles from one side to the other,
a tick changes neither sum, and when the counter comes to 0 the bound on early
firing is what is left. For the keyboard, `Protocol` holds of every guest.
`Exchange` follows the ROM's conversation on both sides and says where the one
key event is that left the ring and was not read: held back, in the shift
register, or as the second half that Instant will fetch. It also shows that
the ROM's timeout is reached in one situation only: the keyboard did not see
the command because CB2 was low already.

**Disks.** `DataPhase` ties the window of a transfer to the command that opened
it, without which "a byte left that exists" is not kept by the next register
access. In `Sony`, a drive that is mounted and off line has its callback under
way only because `sony_service` waits for the driver to be open.

**Memory map, serial line, clock chip.** `Inv` is a conjunction of three
invariants, one for each part of the state, and each step changes one of them.
`WritesSeen` needs that every page of a cached block is watched, for every size
of page and block and whatever bytes a store crosses. The byte in the latch,
if it is marked as available, is the last one sent and later than all the guest
has read. For the clock chip, `Chip` says at every bit of a transfer what is in
the shift register, the counter and the state, whatever was abandoned before;
the driver's own account of the bits it has sent (`Taken`) runs ahead of it by
one between the edge and the sample. `ProbesExact` follows from one fact about
the blocks (while the overlay is on, all were compiled under it) and lemmas
about masks: an address passes the mask of a power of two exactly if it is
below it, and even where the access has more than one byte; and the bits of the
device addresses lie in both masks, so that neither test can hide the other's
outcome there. That is less than the code says of the second test, whose
outcomes can cancel between RAM and ROM (`bus_either`).

Only model-checked are the liveness properties, since the prover does not do
fairness: `AllocReturns`, `GetBlockReturns`, `StopEnds`, `KeysArrive`,
`CommandsEnd`, `DisksComeOnLine`. Of the first the measure is proved all the
same (`EvictionsRunOut`): only finitely many blocks are cached, and every step
of `codecache_alloc` that leaves the call in progress leaves one fewer.

## 7. Not modelled

* Effective addresses, MUL, MOVEM, bit instructions and the values arms move;
  cycle counts; the literal pool and sizes of emitted code.
* The IWM: the Sony driver replaces it, and nothing inserts a disk into it.
  Sound: a copy of a buffer. The encoder and the simulator: bit layouts and a
  sequential interpreter, covered by the repository's tests. Demo ROM, GUI,
  host driver and the assembly of the ESP32 port: input and output around the
  run loop. The reasons are in `PROJECT.json`.
* Guests. The ROM is not in the repository. It is assumed to clear the overlay
  once and not to set it again (`Bus`), to speak the keyboard protocol
  (`MacIo`) and to keep its stacks in order (`CpuModes`). Properties that need
  none of this are checked for guests that do what they like.

## 8. Running

    tlc -config CodeCache_safe.cfg CodeCacheHistory
    tlc -config Dispatcher_smc.cfg MCDispatcher
    tlc -config BlockCodegen_blocks.cfg MCBlockCodegen
    tlc -config CpuModes.cfg CpuModes
    tlc -config MacIo.cfg MacIo
    tlc -config Bus.cfg MCBus
    tlapm CodeCacheProofs.tla
    tlapm DispatcherProofs.tla
    tlapm MacIoProofs.tla

and likewise for the other runs and the other `...Proofs` modules in
`PROJECT.json`, which also maps every
definition to its source lines and gives for each property a mutant of the
code that breaks it.
