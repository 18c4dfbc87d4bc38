---------------------------- MODULE BlockCodegen ----------------------------
(***************************************************************************)
(* The state a compiled block keeps outside m68k_cpu (jit/codegen.c): the  *)
(* guest registers held in Xtensa registers and written back late, the     *)
(* status register in R_SR, the program counter kept as a compile-time     *)
(* sum, and the sign-extended word remembered in a13.                      *)
(*                                                                         *)
(* m68k_compile_block emits the code of a block once, from top to bottom,  *)
(* while its compile-time notes (which slots are dirty, is R_SR dirty)     *)
(* follow the text.  The code is then executed along one path: where an    *)
(* arm checks its address, either the bridge to a helper runs or the fast  *)
(* path after it.  The model does both at once: each step applies an emit  *)
(* function's compile-time effect always, and the effect of the code it    *)
(* emits only when that code is on the executed path.                      *)
(*                                                                         *)
(* Values are abstracted to what the properties tell apart: is a copy of a *)
(* register the one the interpreter would have at this point?  slot, file, *)
(* rsr and sr are the sets of registers and of SR parts whose copy in that *)
(* place is current.  An instruction that writes a register makes every    *)
(* copy stale but the one its code stores, and that one too if the code    *)
(* used a stale operand.  Cycles are accumulated, flushed and undone by    *)
(* the same functions as the pc and are left out.                          *)
(***************************************************************************)
EXTENDS Arms

CONSTANTS
    Arm,            \* the instructions blocks are made of
    NoArm,
    Target,         \* where a jump may go, relative to its block
    MaxOps          \* instructions per block

ASSUME ArmAssumption == Arm \subseteq ArmType /\ NoArm \notin Arm
ASSUME BoundAssumption == MaxOps \in Nat /\ Target \subseteq Int

VARIABLES
    at,             \* place in the block: "done" between blocks
    cached,         \* registers with a slot (rc.xt)
    srLoaded,       \* block_needs_sr_load
    dirty,          \* rc.dirty
    srDirty,        \* g_sr_dirty
    wasDirty,       \* was_sr_dirty of the bridge being emitted
    memo,           \* g_sext_src_reg if g_sext_valid
    acc,            \* g_pc_acc
    opPc,           \* op_pc[i], relative to the block
    n,              \* instructions emitted so far
    arm, path,      \* the instruction in progress, and its executed path
    right,          \* its operands were current when it read them
    last,           \* is_last_op
    slot, rsr,      \* current copies in a4..a7 and in R_SR
    word,           \* a13 holds the word of memo
    file, sr,       \* current copies in cpu->d, cpu->a and in cpu->sr
    pc,             \* cpu->pc
    gPc             \* the pc the interpreter would have

notes  == <<cached, srLoaded, dirty, srDirty, memo, acc>>
place  == <<opPc, n, arm, path, right, last, wasDirty>>
copies == <<slot, rsr, word, file, sr>>

vars == <<at, notes, place, copies, pc, gPc>>

PlaceOK ==
    /\ at \in {"done", "op", "bridge", "call", "reload", "fast", "exit"}
    /\ path \in {"slow", "fast"}
    /\ IF at \in {"bridge", "call", "reload", "fast"}
       THEN arm \in ArmType ELSE arm = NoArm
CopiesOK ==
    /\ cached \subseteq Reg /\ dirty \subseteq cached /\ slot \subseteq cached
    /\ file \subseteq Reg /\ rsr \subseteq SrPart /\ sr \subseteq SrPart
    /\ memo \in Reg \cup {NoReg}
NotesOK ==
    /\ srLoaded \in BOOLEAN /\ srDirty \in BOOLEAN /\ wasDirty \in BOOLEAN
    /\ right \in BOOLEAN /\ last \in BOOLEAN /\ word \in BOOLEAN
SumsOK ==
    /\ acc \in Int /\ opPc \in Int /\ pc \in Int /\ gPc \in Int
    /\ n \in 0 .. MaxOps

\* Types, for the notes of the compiler and the copies of the guest's state.
TypeOK == PlaceOK /\ CopiesOK /\ NotesOK /\ SumsOK

-----------------------------------------------------------------------------
(* Copies *)

\* emit_cache_flush: dirty slots are written back.
FlushedFile == (file \ dirty) \cup (dirty \cap slot)

\* emit_cache_reload: slots the helper may have changed are read again.
ReloadedSlots(touched) == (slot \ touched) \cup (cached \cap touched \cap file)

\* emit_sr_flush.
FlushedSr == IF srDirty THEN rsr ELSE sr

\* emit_read_g: operands are taken from the slots, or from m68k_cpu.
Visible == slot \cup (file \ cached)

-----------------------------------------------------------------------------
Init ==
    /\ at = "done"
    /\ cached = {} /\ srLoaded = FALSE /\ dirty = {} /\ srDirty = FALSE
    /\ wasDirty = FALSE /\ memo = NoReg /\ acc = 0
    /\ opPc = 0 /\ n = 0 /\ arm = NoArm /\ path = "fast" /\ right = TRUE
    /\ last = FALSE
    /\ slot = {} /\ rsr = {} /\ word = FALSE
    /\ file = Reg /\ sr = SrPart /\ pc = 0 /\ gPc = 0

\* A block that caches the registers cs is compiled at cpu->pc and entered;
\* pcs are relative to its start from now on.
NewBlock(cs, load) ==
    /\ at = "done" /\ at' = "op"
    /\ cached' = cs /\ srLoaded' = load
    /\ dirty' = {} /\ srDirty' = FALSE /\ memo' = NoReg /\ acc' = 0
    /\ opPc' = 0 /\ n' = 0
    /\ pc' = 0 /\ gPc' = gPc - pc
    /\ UNCHANGED <<arm, path, right, last, wasDirty, word, file, sr>>

\* The prologue reads every slot, and R_SR if the block needs it; otherwise
\* R_SR is what it was.
Prologue(cs, load, was) ==
    /\ slot' = cs \cap file
    /\ rsr' = IF load THEN sr ELSE was

\* enter_block from the dispatcher.  The host build enters a predicted block
\* past its prologue, but loads the registers of its fresh simulator as the
\* prologue would have.
Dispatch(cs, load) == NewBlock(cs, load) /\ Prologue(cs, load, {})

-----------------------------------------------------------------------------
(* Operands and results *)

NextPcs(a) == CASE a.jump = "no" -> {gPc + a.len}
                [] a.jump = "trap" -> Target \cup {gPc + a.len}
                [] OTHER -> Target

\* The word an ADDA.W or an indexed address sign-extends, from a13 if the
\* memo says it is there.
WordCurrent(a) == IF memo = a.sext THEN word ELSE a.sext \in Visible

OperandsRight(a) ==
    /\ a.reads \subseteq Visible
    /\ a.uses \subseteq rsr
    /\ a.sext # NoReg => WordCurrent(a)

\* What ok operands put in place of the stale copies of s.
Stored(s, ok) == IF ok THEN s ELSE {}

\* emit_write_g and the R_SR updates of inline code.
InlineResults(a, ok) ==
    /\ slot' = (slot \ a.writes) \cup Stored(a.writes \cap cached, ok)
    /\ file' = (file \ a.writes) \cup Stored(a.writes \ cached, ok)
    /\ rsr' = (rsr \ a.sets) \cup Stored(a.sets, ok)
    /\ sr' = sr \ a.sets

Marks(a) ==
    /\ dirty' = dirty \cup (a.writes \cap cached)
    /\ srDirty' = (srDirty \/ a.sets # {})

\* A jump stores its target, anywhere if an operand is stale.
Lands(a, ok, t) ==
    pc' \in IF a.jump = "no" THEN {pc} ELSE IF ok THEN {t} ELSE Target

\* emit_advance, or a jump that sets the pc and drops the sum.
Advance(a) == acc' = IF a.jump = "yes" THEN 0 ELSE acc + a.len

\* Mutant of EndOp: the block goes on after a jump.
EndOp_Continues(a) ==
    /\ opPc' = opPc + a.len /\ n' = n + 1
    /\ arm' = NoArm /\ path' = "fast" /\ right' = TRUE /\ last' = FALSE
    /\ at' = IF last THEN "exit" ELSE "op"

\* The next instruction follows, unless m68k_decode_at ends the block.
EndOp(a) ==
    /\ opPc' = opPc + a.len /\ n' = n + 1
    /\ arm' = NoArm /\ path' = "fast" /\ right' = TRUE /\ last' = FALSE
    /\ at' = IF a.ends \/ last THEN "exit" ELSE "op"

\* The instruction may follow here: R_SR is loaded if it needs it.
Fits(a) == at = "op" /\ n < MaxOps /\ (a.needsSr => srLoaded)

-----------------------------------------------------------------------------
(* Inline instructions *)

\* The memo and a13 after inline code: the word read through the memo stays
\* there unless the code uses a13 for something else or changes its source.
MemoAfter(a) ==
    IF a.forget THEN NoReg ELSE IF a.sext # NoReg THEN a.sext ELSE memo
WordAfter(a) ==
    /\ ~ a.scratch /\ MemoAfter(a) \notin a.writes
    /\ IF a.sext = NoReg THEN word ELSE WordCurrent(a)

Inline(a) ==
    /\ Fits(a) /\ a.via = "none"
    /\ InlineResults(a, OperandsRight(a)) /\ Marks(a)
    /\ \E t \in NextPcs(a) :
          gPc' = t /\ Lands(a, OperandsRight(a), t)
    /\ Advance(a)
    /\ memo' = MemoAfter(a) /\ word' = WordAfter(a)
    /\ EndOp(a)
    /\ UNCHANGED <<cached, srLoaded, wasDirty>>

-----------------------------------------------------------------------------
(* Helpers *)

Bridged(a) == a.via \in {"step", "fast", "custom"}

\* Mutant of StartBridge: the cache is not flushed before the branch.
StartBridge_NoFlush(a, way) ==
    /\ Fits(a) /\ Bridged(a)
    /\ way = "fast" => a.check
    /\ arm' = a /\ path' = way /\ right' = OperandsRight(a)
    /\ pc' = pc + acc /\ acc' = 0
    /\ memo' = NoReg
    /\ at' = "bridge"
    /\ UNCHANGED <<cached, srLoaded, srDirty, opPc, n, last, wasDirty, gPc,
                   dirty, copies>>

\* An arm with a bridge computes its address and flushes the sum and the
\* slots before the branch; the memo is invalid after it on both paths.
StartBridge(a, way) ==
    /\ Fits(a) /\ Bridged(a)
    /\ way = "fast" => a.check
    /\ arm' = a /\ path' = way /\ right' = OperandsRight(a)
    /\ pc' = pc + acc /\ acc' = 0
    /\ file' = FlushedFile /\ dirty' = {}
    /\ memo' = NoReg
    /\ at' = "bridge"
    /\ UNCHANGED <<cached, srLoaded, srDirty, opPc, n, last, wasDirty, gPc,
                   slot, rsr, word, sr>>

\* emit_helper_step_after_flush_undo has no mask; a fast helper that neither
\* reads nor writes SR is called without flush and reload.
MovesSr(a) == a.via # "fast" \/ a.srmask

\* The head of the bridge: R_SR is flushed on the slow path only.
BridgeFlush ==
    /\ at = "bridge"
    /\ wasDirty' = srDirty
    /\ srDirty' = (srDirty /\ ~ MovesSr(arm))
    /\ sr' = IF path = "slow" /\ MovesSr(arm) THEN FlushedSr ELSE sr
    /\ at' = IF path = "slow" THEN "call" ELSE "reload"
    /\ UNCHANGED <<cached, srLoaded, dirty, memo, acc, opPc, n, arm, path,
                   right, last, slot, rsr, word, file, pc, gPc>>

\* emit_helper_step: m68k_step is the whole instruction.
StartHelper(a, final) ==
    /\ Fits(a) /\ a.via = "default"
    /\ a.ends \/ n + 1 = MaxOps => final
    /\ arm' = a /\ path' = "slow" /\ last' = final
    /\ pc' = pc + acc /\ acc' = 0
    /\ file' = FlushedFile /\ dirty' = {}
    /\ sr' = FlushedSr /\ srDirty' = FALSE
    /\ memo' = NoReg
    /\ at' = "call"
    /\ UNCHANGED <<cached, srLoaded, opPc, n, right, wasDirty, slot, rsr, word,
                   gPc>>

\* A fast helper gets its address in jit_arg1; m68k_step computes it again.
HelperRight ==
    /\ file = Reg /\ arm.uses \subseteq sr /\ pc = gPc
    /\ arm.via \in {"fast", "custom"} => right

\* The helper executes the instruction on m68k_cpu; a13 held its address.
\* m68k_step moves the pc itself, a fast helper only when it jumps.
Call ==
    /\ at = "call"
    /\ file' = (file \ arm.writes) \cup Stored(arm.writes, HelperRight)
    /\ sr' = (sr \ arm.sets) \cup Stored(arm.sets, HelperRight)
    /\ slot' = slot \ arm.writes
    /\ rsr' = rsr \ arm.sets
    /\ \E t \in NextPcs(arm) :
          /\ gPc' = t
          /\ pc' = IF arm.via \in {"fast", "custom"} /\ arm.jump = "no"
                   THEN pc ELSE t
    /\ word' = FALSE
    /\ at' = "reload"
    /\ UNCHANGED <<notes, place>>

\* pc_undo: what m68k_step advanced is taken back for the common advance.
Undone == IF path = "slow" /\ arm.via = "step" /\ arm.jump # "yes"
          THEN pc - arm.len ELSE pc

\* Mutant of BridgeReload: the dirty state of R_SR before it is forgotten.
BridgeReload_Forgets ==
    /\ at = "reload" /\ Bridged(arm) /\ ~ arm.terminal
    /\ slot' = IF path = "slow" THEN ReloadedSlots(arm.touched) ELSE slot
    /\ rsr' = IF path = "slow" /\ MovesSr(arm) THEN sr ELSE rsr
    /\ pc' = Undone
    /\ srDirty' = (srDirty /\ ~ MovesSr(arm))
    /\ at' = "fast"
    /\ UNCHANGED <<cached, srLoaded, dirty, memo, acc, place, word, file, sr,
                   gPc>>

\* The tail of the bridge: undo the helper's advance, reload, and note R_SR
\* dirty again if it was, for the fast path that skipped the flush.  The
\* bridges written out by hand do not, and touch no register.
BridgeReload ==
    /\ at = "reload" /\ Bridged(arm) /\ ~ arm.terminal
    /\ slot' = IF path = "slow" /\ arm.via # "custom"
               THEN ReloadedSlots(arm.touched) ELSE slot
    /\ rsr' = IF path = "slow" /\ MovesSr(arm) THEN sr ELSE rsr
    /\ pc' = Undone
    /\ srDirty' = (arm.via # "custom" /\ wasDirty)
    /\ at' = "fast"
    /\ UNCHANGED <<cached, srLoaded, dirty, memo, acc, place, word, file, sr,
                   gPc>>

\* After the bridge: the fast path, skipped when the bridge ran, and the
\* notes and the advance that are common to both.
FastPath ==
    /\ at = "fast"
    /\ IF path = "fast"
       THEN /\ InlineResults(arm, right)
            /\ \E t \in NextPcs(arm) : gPc' = t /\ Lands(arm, right, t)
       ELSE UNCHANGED <<slot, file, rsr, sr, pc, gPc>>
    /\ IF arm.check THEN Marks(arm) ELSE UNCHANGED <<dirty, srDirty>>
    /\ Advance(arm)
    /\ EndOp(arm)
    /\ UNCHANGED <<cached, srLoaded, memo, wasDirty, word>>

\* Mutant of HelperReload: the last instruction's rule is used for all.
HelperReload_Never ==
    /\ at = "reload" /\ (arm.via = "default" \/ arm.terminal)
    /\ UNCHANGED <<slot, rsr>>
    /\ EndOp(arm)
    /\ UNCHANGED <<cached, srLoaded, dirty, srDirty, memo, acc, wasDirty, word,
                   file, sr, pc, gPc>>

\* After emit_helper_step or a terminal trap bridge: nothing is reloaded
\* when the block ends here.
HelperReload ==
    /\ at = "reload" /\ (arm.via = "default" \/ arm.terminal)
    /\ IF last \/ arm.terminal
       THEN UNCHANGED <<slot, rsr>>
       ELSE slot' = ReloadedSlots(arm.touched) /\ rsr' = sr
    /\ EndOp(arm)
    /\ UNCHANGED <<cached, srLoaded, dirty, srDirty, memo, acc, wasDirty, word,
                   file, sr, pc, gPc>>

-----------------------------------------------------------------------------
\* The block reached its cap.
LastOp ==
    /\ at = "op" /\ n > 0
    /\ at' = "exit"
    /\ UNCHANGED <<notes, place, copies, pc, gPc>>

\* The epilogue flushes what the notes say is unflushed.
Epilogue ==
    /\ at = "exit" /\ at' = "done"
    /\ pc' = pc + acc /\ acc' = 0
    /\ file' = FlushedFile /\ dirty' = {}
    /\ sr' = FlushedSr /\ srDirty' = FALSE
    /\ UNCHANGED <<cached, srLoaded, memo, place, slot, rsr, word, gPc>>

HostNext ==
    \/ \E cs \in SUBSET Reg, load \in BOOLEAN : Dispatch(cs, load)
    \/ at = "op" /\ \E a \in Arm :
          \/ Inline(a)
          \/ \E way \in {"slow", "fast"} : StartBridge(a, way)
          \/ \E final \in BOOLEAN : StartHelper(a, final)
    \/ BridgeFlush \/ Call \/ BridgeReload \/ FastPath \/ HelperReload
    \/ LastOp \/ Epilogue

\* The host build: every block is entered from the dispatcher.
HostSpec == Init /\ [][HostNext]_vars

\* Blocks in which no valid memo is stale.  The code does not see to it: see
\* MemoFresh.
MemoUsable == memo # NoReg => word
CarefulSpec == Init /\ [][HostNext /\ MemoUsable']_vars

-----------------------------------------------------------------------------
(* Properties *)

\* Between blocks m68k_cpu is what the interpreter would have made it: no
\* write-back, flag or pc is lost on any path through any block, as
\* codegen.c's emit_cache_flush, emit_sr_flush and emit_advance_flush intend.
LockStep == at = "done" => file = Reg /\ sr = SrPart /\ pc = gPc

\* Wherever compiled code calls a helper, the helper finds the guest's
\* registers, the flags it depends on and the pc in m68k_cpu.
HelperSeesGuest ==
    at = "call" => file = Reg /\ arm.uses \subseteq sr /\ pc = gPc

\* Every inline operand is the guest's: between two instructions each slot
\* holds its register, and R_SR the status register if it was loaded.
OperandsCurrent ==
    at = "op" => Visible = Reg /\ (srLoaded => rsr = SrPart)

\* The instruction about to run is the one the guest is at.
RunsGuestOp == at \in {"op", "bridge", "call"} => gPc = opPc

\* codegen.c on the sign-extension memo: it is invalidated on "helper-step,
\* flag emit, emit_cond, any write to g_sext_src_reg".  While it is valid a13
\* holds the word of that register.
MemoFresh == at = "op" => MemoUsable

=============================================================================
