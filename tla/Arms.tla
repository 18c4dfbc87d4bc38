-------------------------------- MODULE Arms --------------------------------
(***************************************************************************)
(* The arms of m68k_compile_block (jit/codegen.c): for each family of      *)
(* instructions, what the code generator emits for it.  A definition is    *)
(* the set of records of ArmType of one arm: which guest registers the     *)
(* inline code reads, which registers and SR parts the instruction         *)
(* changes, whether a bounds check chooses between inline code and a       *)
(* helper, which kind of helper, which registers are reloaded after it,    *)
(* and what the arm does to the word remembered in a13. What an            *)
(* instruction computes, its memory accesses and its cycles are left out.  *)
(*                                                                         *)
(* Names give the operands as source_destination: D and A registers, R     *)
(* either, Ind (An), Post (An)+, Pre -(An), Disp (d16,An), Idx (d8,An,Xn), *)
(* AbsW and AbsL (xxx), Imm #data.  A compare or a test that is fused with *)
(* the branch after it is that compare and the branch in sequence.         *)
(***************************************************************************)
EXTENDS Integers

CONSTANTS DReg, AReg,   \* data and address registers
          A7,           \* the stack pointer
          NoReg         \* no register

ASSUME RegisterAssumption ==
    A7 \in AReg /\ DReg \cap AReg = {} /\ NoReg \notin DReg \cup AReg

Reg == DReg \cup AReg

\* X, the other condition codes, and the system byte.
SrPart == {"X", "NZVC", "SYS"}
CCR    == {"X", "NZVC"}

\* What the emitter does for one instruction, and what the interpreter does.
ArmType ==
    [via    : {"none", "step", "fast", "custom", "default"},
                            \* the helper on its slow path: none, m68k_step
                            \* with undo, a fast helper, a fast helper called
                            \* by code of its own, or m68k_step as the whole
                            \* instruction
     check  : BOOLEAN,      \* a bounds check chooses slow or fast path
     reads  : SUBSET Reg,   \* operands of the inline code
     writes : SUBSET Reg,   \* registers the instruction changes
     touched : SUBSET Reg,  \* g_helper_touched_mask
     uses   : SUBSET SrPart,    \* parts of SR the instruction depends on
     sets   : SUBSET SrPart,    \* parts of SR it changes
     srmask : BOOLEAN,      \* g_helper_sr_mask: 3 or 0
     needsSr : BOOLEAN,     \* it makes the block load R_SR
     sext   : Reg \cup {NoReg},     \* its word comes through a13's memo
     scratch : BOOLEAN,     \* its inline code overwrites a13
     forget : BOOLEAN,      \* it calls sext_memo_invalidate
     len    : Nat \ {0},    \* bytes of the instruction
     jump   : {"no", "trap", "yes"},    \* it never, perhaps, always jumps
     ends   : BOOLEAN,      \* m68k_decode_at: the block ends here
     terminal : BOOLEAN]    \* g_helper_terminal_no_fastpath

-----------------------------------------------------------------------------
(* Shapes *)

\* Inline code that changes no flag, two bytes long.  All registers count as
\* touched by a helper unless the arm sets g_helper_touched_mask.
Plain(rd, wr) ==
    [via |-> "none", check |-> FALSE, reads |-> rd, writes |-> wr,
     touched |-> Reg, uses |-> {}, sets |-> {}, srmask |-> TRUE,
     needsSr |-> TRUE, sext |-> NoReg, scratch |-> FALSE, forget |-> FALSE,
     len |-> 2, jump |-> "no", ends |-> FALSE, terminal |-> FALSE]

Long(bytes, op) == [op EXCEPT !.len = bytes]

\* classify_op: 0, the instruction neither sets nor consumes flags.
NoFlags(op) == [op EXCEPT !.needsSr = FALSE]

Forgets(op) == [op EXCEPT !.forget = TRUE]

\* emit_logic_flags and the flag code like it.
Logic(op) == Forgets([op EXCEPT !.sets = {"NZVC"}])

\* emit_addsub_flags_long_masked takes its full-mask path, which uses a13 and
\* returns before the memo is invalidated; keep_x for compares.
AddSub(op)  == [op EXCEPT !.sets = CCR, !.scratch = TRUE]
Compare(op) == [op EXCEPT !.sets = {"NZVC"}, !.scratch = TRUE]

\* The flag code of shifts writes X too.
Shift(op) == Forgets([op EXCEPT !.sets = CCR])

\* Bit instructions change Z and keep N, V and C.
BitTest(op) == Forgets([op EXCEPT !.uses = {"NZVC"}, !.sets = {"NZVC"}])

\* emit_cond and code like it: a13 is the N bit.
Cond(op) == Forgets([op EXCEPT !.uses = {"NZVC"}, !.scratch = TRUE])

\* The word of register x through the memo.
SignExtends(x, op) == [op EXCEPT !.sext = x]

Jumps(op) == [op EXCEPT !.jump = "yes", !.ends = TRUE]

\* A bounds check, and m68k_step with undo on the slow path.
Step(touched, op) ==
    [op EXCEPT !.via = "step", !.check = TRUE, !.touched = touched]

\* A bounds check, and a fast helper on the slow path.
Fast(touched, op) ==
    [op EXCEPT !.via = "fast", !.check = TRUE, !.touched = touched]

\* A fast helper as the whole instruction.
Always(touched, op) == [Fast(touched, op) EXCEPT !.check = FALSE]

\* g_helper_sr_mask = 0.
SrMask0(op) == [op EXCEPT !.srmask = FALSE]

\* A bridge written out by hand: no cache reload, g_sr_dirty not restored.
Custom(op) == [op EXCEPT !.via = "custom", !.check = TRUE, !.touched = {}]

\* The default arm: m68k_step is the whole instruction.
Whole(touched, op) ==
    [op EXCEPT !.via = "default", !.reads = {}, !.touched = touched]

\* Inline when the absolute address is RAM at compile time, else a helper.
InRam(touched, op) == {op, Whole(touched, op)}

\* A pushed or popped long word on the stack.
Stack(rd) == NoFlags(Plain(rd \cup {A7}, {A7}))

-----------------------------------------------------------------------------
(* Status register and control flow *)

MOVE_Post_SR == {Always({a, A7}, [Plain({}, {a, A7}) EXCEPT !.uses = {"SYS"},
                                                     !.sets = SrPart])
                 : a \in AReg}
MOVE_SR_Pre  == {Step({a}, [Plain({a}, {a}) EXCEPT !.uses = SrPart])
                 : a \in AReg}
ORI_SR       == {Long(4, Forgets([Plain({}, {}) EXCEPT !.uses = SrPart,
                                                 !.sets = SrPart]))}

\* A trap pushes SR and changes its system byte; the block ends.
Trap(changed) ==
    [Always({A7}, Jumps([Plain({}, {A7}) EXCEPT !.uses = SrPart,
                                          !.sets = changed]))
     EXCEPT !.terminal = TRUE]
ALine == {Trap({"SYS"})}
FLine == {Trap({"SYS"})}
RTE   == {Trap(SrPart)}

NOP      == {Plain({}, {})}
JMP_Ind  == {Jumps(Forgets(Plain({a}, {}))) : a \in AReg}
JMP_Idx  == {Jumps(Forgets([Plain({a, x}, {}) EXCEPT !.scratch = word,
                                                !.len = 4]))
             : a \in AReg, x \in Reg, word \in BOOLEAN}
JMP_AbsL == {Long(6, Jumps(Forgets(Plain({}, {}))))}

\* classify_op counts RTS and JSR among the consumers of flags, BSR not.
Calls(op)   == SrMask0(Fast({A7}, Jumps(op)))
Consumes(op) == [op EXCEPT !.needsSr = TRUE]
RTS         == {Calls(Consumes(Stack({})))}
JSR_DispPC  == {Long(4, Calls(Consumes(Stack({}))))}
JSR_Disp    == {Long(4, Step({A7}, Jumps(Consumes(Stack({a}))))) : a \in AReg}
JSR_Ind     == {Calls(Consumes(Stack({a}))) : a \in AReg}
BSR_S       == {Calls(Stack({}))}
BSR_W       == {Long(4, Calls(Stack({})))}

\* BRA does not read the flags.
Bcc_S == {Jumps(NoFlags(Plain({}, {}))), Jumps(Cond(Plain({}, {})))}
Bcc_W == {Long(4, b) : b \in Bcc_S}
\* DBF reads no flag but uses a13 all the same.
DBcc  == {Long(4, Jumps([Cond(Plain({d}, {d})) EXCEPT
                            !.uses = IF false THEN {} ELSE {"NZVC"},
                            !.needsSr = ~ false]))
          : d \in DReg, false \in BOOLEAN}
\* ST and SF do not call emit_cond.
Scc_D == {Plain({d}, {d}) : d \in DReg} \cup {Cond(Plain({d}, {d})) : d \in DReg}

-----------------------------------------------------------------------------
(* Registers and immediates *)

MOVEQ         == {Logic(Plain({}, {d})) : d \in DReg}
ADD_L_R_D     == {AddSub(Plain({r, d}, {d})) : r \in Reg, d \in DReg}
ADD_L_Imm_D   == {Long(6, AddSub(Plain({d}, {d}))) : d \in DReg}
ADDX_L        == {Forgets([AddSub(Plain({s, d}, {d})) EXCEPT !.uses = CCR])
                  : s, d \in DReg}
ADDQ_L_D      == {AddSub(Plain({d}, {d})) : d \in DReg}
ADDQ_A        == {NoFlags(Plain({a}, {a})) : a \in AReg}
MOVE_L_Imm_R  == {Long(6, Logic(Plain({}, {d}))) : d \in DReg} \cup
                 {Long(6, NoFlags(Plain({}, {a}))) : a \in AReg}
MOVE_L_D_D    == {Logic(Plain({s}, {d})) : s, d \in DReg}
MOVE_W_A_D    == {Logic(Plain({a, d}, {d})) : a \in AReg, d \in DReg}
MOVE_L_A_D    == {Logic(Plain({a}, {d})) : a \in AReg, d \in DReg}
MOVEA_L_R     == {NoFlags(Plain({r}, {a})) : r \in Reg, a \in AReg}
ADDA_W_R      == {SignExtends(r, NoFlags(Plain({a}, {a})))
                  : r \in Reg, a \in AReg}
ADDA_L_R      == {NoFlags(Plain({r, a}, {a})) : r \in Reg, a \in AReg}
SUBA_L_R      == {NoFlags(Plain({r, a}, {a})) : r \in Reg, a \in AReg}
ADDA_W_Imm    == {Long(4, NoFlags(Plain({a}, {a}))) : a \in AReg}
ADDQ_W_D      == {AddSub(Plain({d}, {d})) : d \in DReg}
\* Inline only if its flags were dead, and they never are.
ADDQ_L_AbsW   == {Long(4, Whole(Reg, AddSub(Plain({}, {}))))}
ADDQ_B_D      == {AddSub(Plain({d}, {d})) : d \in DReg}
MOVE_W_D_D    == {Logic(Plain({s, d}, {d})) : s, d \in DReg}
MOVE_W_Imm_D  == {Long(4, Logic(Plain({d}, {d}))) : d \in DReg}
MOVE_B_D_D    == {Logic(Plain({s, d}, {d})) : s, d \in DReg}
MOVEA_W_D     == {NoFlags(Plain({d}, {a})) : d \in DReg, a \in AReg}
CMPA_L_R      == {Compare(Plain({r, a}, {})) : r \in Reg, a \in AReg}
LEA_DispPC    == {Long(4, NoFlags(Plain({}, {a}))) : a \in AReg}
LEA           == {NoFlags(Plain({a}, {b})) : a, b \in AReg} \cup
                 {Long(4, NoFlags(Plain({a}, {b}))) : a, b \in AReg} \cup
                 {Long(4, SignExtends(x, NoFlags(Plain({a}, {b}))))
                  : a, b \in AReg, x \in Reg} \cup
                 {Long(4, NoFlags(Plain({a, x}, {b})))
                  : a, b \in AReg, x \in Reg}
ADD_BW_D_D    == {AddSub(Plain({s, d}, {d})) : s, d \in DReg}
TST_B_D       == {Logic(Plain({d}, {})) : d \in DReg}
CLR_D         == {Logic(Plain({d}, {d})) : d \in DReg}
NOT_D         == {Logic(Plain({d}, {d})) : d \in DReg}
TST_W_D       == {Logic(Plain({d}, {})) : d \in DReg}
TST_L_D       == {Logic(Plain({d}, {})) : d \in DReg}
SWAP          == {Logic(Plain({d}, {d})) : d \in DReg}
EXT_L         == {Logic(Plain({d}, {d})) : d \in DReg}
EXT_W         == {Logic(Plain({d}, {d})) : d \in DReg}
NEG_L_D       == {AddSub(Plain({d}, {d})) : d \in DReg}
CMP_LW_D_D    == {Compare(Plain({s, d}, {})) : s, d \in DReg}
SUB_L_R_D     == {AddSub(Plain({r, d}, {d})) : r \in Reg, d \in DReg}
MUL_Imm_D     == {Long(4, Logic(Plain({d}, {d}))) : d \in DReg}
MUL_D_D       == {Logic(Plain({s, d}, {d})) : s, d \in DReg}
AND_OR_L_D_D  == {Logic(Plain({s, d}, {d})) : s, d \in DReg}
EOR_L_D_D     == {Logic(Plain({s, d}, {d})) : s, d \in DReg}
Logic_BW_D_D  == {Logic(Plain({s, d}, {d})) : s, d \in DReg}
\* ORI, ANDI, EORI; ADDI, SUBI; CMPI: four bytes, or six for .L.
Immediate_D   == {Long(n, op) : n \in {4, 6},
                               op \in {Logic(Plain({d}, {d})) : d \in DReg} \cup
                                      {AddSub(Plain({d}, {d})) : d \in DReg} \cup
                                      {Compare(Plain({d}, {})) : d \in DReg}}
\* BTST, then BCHG, BCLR and BSET.
BitOp_Imm_D   == {Long(4, BitTest(Plain({d}, {}))) : d \in DReg} \cup
                 {Long(4, BitTest(Plain({d}, {d}))) : d \in DReg}
Shift_Imm_D   == {Shift(Plain({d}, {d})) : d \in DReg}
LSR_ASR_L     == Shift_Imm_D
LSR_ASR_BW    == Shift_Imm_D
LSL_BW        == Shift_Imm_D
LSL_L         == Shift_Imm_D
\* Rotates through X; ASL computes V in a13; plain rotates keep X.
ROXR          == {[op EXCEPT !.uses = {"X"}] : op \in Shift_Imm_D}
ROXL          == {[op EXCEPT !.uses = {"X"}] : op \in Shift_Imm_D}
ASL_BW        == {[op EXCEPT !.scratch = TRUE] : op \in Shift_Imm_D}
ASL_L         == {[op EXCEPT !.scratch = TRUE] : op \in Shift_Imm_D}
ROR_ROL       == {Logic(Plain({d}, {d})) : d \in DReg}

-----------------------------------------------------------------------------
(* Moves to and from memory *)

MOVE_W_Ind_Ind   == {Step(Reg, Logic(Plain({a, b}, {}))) : a, b \in AReg}
MOVE_W_Post_D    == {Fast({d, a}, Logic(Plain({a, d}, {d, a})))
                     : a \in AReg, d \in DReg}
MOVE_L_Ind_D     == {Fast({d}, Logic(Plain({a}, {d}))) : a \in AReg, d \in DReg}
MOVE_L_AbsW_D    == UNION {InRam({d}, Long(4, Logic(Plain({}, {d}))))
                           : d \in DReg}
MOVE_L_AbsW_Pre  == {Long(4, op) : op \in
                     {Step({a}, Logic(Plain({a}, {a}))) : a \in AReg} \cup
                     {Whole({a}, Logic(Plain({}, {a}))) : a \in AReg}}
MOVE_L_Disp_Pre  == {Long(4, Step({b}, Logic(Plain({a, b}, {b}))))
                     : a, b \in AReg}
MOVE_B_AbsW_Disp == {Long(6, op) : op \in
                     {Step({}, Logic(Plain({a}, {}))) : a \in AReg} \cup
                     {Whole({}, Logic(Plain({}, {})))}}
MOVE_L_AbsW_Disp == {Long(6, op) : op \in
                     {Step({}, Logic(Plain({a}, {}))) : a \in AReg} \cup
                     {Whole({}, Logic(Plain({}, {})))}}
MOVEA_L_AbsW     == UNION {InRam({a}, Long(4, NoFlags(Plain({}, {a}))))
                           : a \in AReg}
MOVE_L_AbsW_Ind  == {Long(4, Always({a}, Logic(Plain({}, {})))) : a \in AReg}
MOVEA_L_Ind      == {Step(Reg, NoFlags(Plain({a}, {b}))) : a, b \in AReg}
MOVE_L_Post_D    == {Fast({d, a}, Logic(Plain({a}, {d, a})))
                     : a \in AReg, d \in DReg}
MOVEA_L_Post     == {Step({a, b}, NoFlags(Plain({a}, {a, b}))) : a, b \in AReg}
MOVE_L_R_Pre     == {Step(Reg, Logic(Plain({r, a}, {a}))) : r \in Reg, a \in AReg}
MOVE_W_Imm_Pre   == {Long(4, Step({a}, Logic(Plain({a}, {a})))) : a \in AReg}
MOVE_L_Imm_Pre   == {Long(6, Step(Reg, Logic(Plain({a}, {a})))) : a \in AReg}
MOVE_L_R_Ind     == {Step(Reg, Logic(Plain({r, a}, {}))) : r \in Reg, a \in AReg}
MOVE_L_R_Post    == {Fast({a}, Logic(Plain({r, a}, {a}))) : r \in Reg, a \in AReg}
MOVE_L_Post_Post == {Step({a, b}, Logic(Plain({a, b}, {a, b}))) : a, b \in AReg}
MOVE_L_Post_Disp == {Long(4, Step(Reg, Logic(Plain({a, b}, {a})))) : a, b \in AReg}

\* A load of a displaced or indirect operand with a narrow touched mask.
LoadD(a, d)      == Fast({d}, Logic(Plain({a, d}, {d})))
MOVE_L_Disp_D    == {Long(4, Fast({d}, Logic(Plain({a}, {d}))))
                     : a \in AReg, d \in DReg}
MOVE_W_Disp_D    == {Long(4, LoadD(a, d)) : a \in AReg, d \in DReg}
MOVE_B_Disp_D    == {Long(4, LoadD(a, d)) : a \in AReg, d \in DReg}
MOVE_B_Disp_Ind  == {Long(4, Fast({}, Logic(Plain({a, b}, {})))) : a, b \in AReg}
MOVE_B_Disp_Disp == {Long(6, Custom(Logic(Plain({a, b}, {})))) : a, b \in AReg}
MOVE_B_Ind_D     == {LoadD(a, d) : a \in AReg, d \in DReg}
MOVE_B_Post_D    == {Fast({d, a}, Logic(Plain({a, d}, {d, a})))
                     : a \in AReg, d \in DReg}
MOVE_B_D_Post    == {Step({a}, Logic(Plain({d, a}, {a}))) : a \in AReg, d \in DReg}
MOVE_B_Imm_Disp  == {Long(6, Fast({}, Logic(Plain({a}, {})))) : a \in AReg}
MOVE_B_D_Ind     == {Fast({}, Logic(Plain({d, a}, {}))) : a \in AReg, d \in DReg}
MOVEA_L_Disp     == {Long(4, SrMask0(Fast({b}, NoFlags(Plain({a}, {b})))))
                     : a, b \in AReg}
MOVE_L_Idx_D     == {Long(4, Fast({d}, Logic(Plain({a, x}, {d}))))
                     : a \in AReg, x \in Reg, d \in DReg}
MOVE_L_Idx_Disp  == {Long(6, Custom(Logic(Plain({a, x, b}, {}))))
                     : a, b \in AReg, x \in Reg}
MOVE_L_Disp_Disp == {Long(6, Custom(Logic(Plain({a, b}, {})))) : a, b \in AReg}
MOVE_W_Disp_Post == {Long(4, Always({b}, Logic(Plain({a}, {b}))))
                     : a, b \in AReg}
MOVEA_L_Idx      == {Long(4, Step({b}, NoFlags(Plain({a, x}, {b}))))
                     : a, b \in AReg, x \in Reg}
MOVE_L_R_Disp    == {Long(4, Step(Reg, Logic(Plain({r, a}, {}))))
                     : r \in Reg, a \in AReg}

\* A store of Dn that leaves the registers alone, and one that moves An.
StoreD(a, d)     == Step({}, Logic(Plain({d, a}, {})))
PushD(a, d)      == Step({a}, Logic(Plain({d, a}, {a})))
MOVE_W_D_Ind     == {StoreD(a, d) : a \in AReg, d \in DReg}
MOVE_B_D_Disp    == {Long(4, StoreD(a, d)) : a \in AReg, d \in DReg}
MOVE_W_D_Disp    == {Long(4, StoreD(a, d)) : a \in AReg, d \in DReg}
MOVE_W_D_Pre     == {PushD(a, d) : a \in AReg, d \in DReg}
MOVEA_W_Disp     == {Long(4, SrMask0(Fast({b}, NoFlags(Plain({a}, {b})))))
                     : a, b \in AReg}
MOVE_W_D_Post    == {PushD(a, d) : a \in AReg, d \in DReg}
MOVE_W_Idx_D     == {Long(4, Fast({d}, SignExtends(x, Logic(Plain({a, d}, {d})))))
                     : a \in AReg, x \in Reg, d \in DReg} \cup
                    {Long(4, Fast({d}, Logic(Plain({a, x, d}, {d}))))
                     : a \in AReg, x \in Reg, d \in DReg}
MOVE_W_D_AbsW    == UNION {InRam({}, Long(4, Logic(Plain({d}, {})))) : d \in DReg}
MOVE_B_D_AbsW    == UNION {InRam({}, Long(4, Logic(Plain({d}, {})))) : d \in DReg}
MOVE_W_AbsW_D    == UNION {InRam({d}, Long(4, Logic(Plain({d}, {d}))))
                           : d \in DReg}
\* Outside RAM the helper takes the absolute address.
MOVE_B_AbsL_D    == {Long(6, op) : op \in
                     {Logic(Plain({d}, {d})) : d \in DReg} \cup
                     {Always({d}, Logic(Plain({}, {d}))) : d \in DReg}}
MOVE_B_AbsW_D    == UNION {InRam({d}, Long(4, Logic(Plain({d}, {d}))))
                           : d \in DReg}
MOVE_W_Ind_D     == {Step({d}, Logic(Plain({a, d}, {d}))) : a \in AReg, d \in DReg}

\* MOVEM: any list of registers, every slot reloaded; a long list is left to
\* the helper, a list of words to -(An) to m68k_step.
Movem(rd, wr)    == {SrMask0(op) : op \in
                     {Fast(Reg, Long(4, NoFlags(Plain(rd, wr)))),
                      Always(Reg, Long(4, NoFlags(Plain({}, wr))))}}
MOVEM_Ind        == UNION {Movem(list \cup {a}, {})
                           : a \in AReg, list \in SUBSET Reg}
MOVEM_Pre        == UNION {Movem(list \cup {a}, {a})
                           : a \in AReg, list \in SUBSET Reg} \cup
                    {Step(Reg, Long(4, NoFlags(Plain(list \cup {a}, {a}))))
                     : a \in AReg, list \in SUBSET Reg}
MOVEM_Post       == UNION {Movem({a}, list \cup {a})
                           : a \in AReg, list \in SUBSET Reg}

-----------------------------------------------------------------------------
(* Arithmetic and logic on memory *)

ADD_L_Idx_D     == {Long(4, Step({d}, AddSub(Plain({a, x, d}, {d}))))
                    : a \in AReg, x \in Reg, d \in DReg}
ADDA_L_Disp     == {Long(4, Step(Reg, NoFlags(Plain({a, b}, {b}))))
                    : a, b \in AReg}
CLR_L_Post      == {Step({a}, Logic(Plain({a}, {a}))) : a \in AReg}
CLR_W_Ind       == {Step({}, Logic(Plain({a}, {}))) : a \in AReg}
OR_W_D_Ind      == {StoreD(a, d) : a \in AReg, d \in DReg}
OR_W_D_Post     == {PushD(a, d) : a \in AReg, d \in DReg}
CLR_W_Disp      == {Long(4, op) : op \in CLR_W_Ind}
CLR_L_Disp      == {Long(4, op) : op \in CLR_W_Ind}
CLR_W_Post      == {Fast({a}, Logic(Plain({a}, {a}))) : a \in AReg}

\* Compares of Dn or An with memory.
CompareWith(a, r) == Step({}, Compare(Plain({a, r}, {})))
CMPA_W_Disp     == {Long(4, CompareWith(a, b)) : a, b \in AReg}
CMPA_L_Disp     == {Long(4, CompareWith(a, b)) : a, b \in AReg}
CMPA_L_Ind      == {CompareWith(a, b) : a, b \in AReg}
CMP_L_AbsW_D    == UNION {InRam({}, Long(4, Compare(Plain({d}, {})))) : d \in DReg}
CMP_L_Disp_D    == {Long(4, CompareWith(a, d)) : a \in AReg, d \in DReg}
CMP_L_Post_D    == {Step({a}, Compare(Plain({a, d}, {a})))
                    : a \in AReg, d \in DReg}
CMP_W_Post_D    == {Step({a}, Compare(Plain({a, d}, {a})))
                    : a \in AReg, d \in DReg}
CMP_W_Disp_D    == {Long(4, Fast({}, Compare(Plain({a, d}, {}))))
                    : a \in AReg, d \in DReg}
CMP_W_Ind_D     == {CompareWith(a, d) : a \in AReg, d \in DReg}
CMPI_W_Idx      == {Long(6, CompareWith(a, x)) : a \in AReg, x \in Reg}
CMPI_W_Ind      == {Long(4, Step({}, Compare(Plain({a}, {})))) : a \in AReg}
CMPI_W_Disp     == {Long(6, Step({}, Compare(Plain({a}, {})))) : a \in AReg}

AND_W_Post_D    == {Step({d, a}, Logic(Plain({a, d}, {d, a})))
                    : a \in AReg, d \in DReg}
AND_W_Ind_D     == {Step({d}, Logic(Plain({a, d}, {d}))) : a \in AReg, d \in DReg}
AND_W_AbsW_D    == UNION {InRam({d}, Long(4, Logic(Plain({d}, {d})))) : d \in DReg}
AND_OR_L_AbsW_D == UNION {InRam(Reg, Long(4, Logic(Plain({d}, {d})))) : d \in DReg}
ADD_B_Disp_D    == {Long(4, Step(Reg, AddSub(Plain({a, d}, {d}))))
                    : a \in AReg, d \in DReg}
ADD_W_Disp_D    == {Long(4, Step(Reg, AddSub(Plain({a, d}, {d}))))
                    : a \in AReg, d \in DReg}
MUL_Disp_D      == {Long(4, Step(Reg, Logic(Plain({a, d}, {d}))))
                    : a \in AReg, d \in DReg}
LINK            == {Long(4, Step({a, A7}, NoFlags(Plain({a, A7}, {a, A7}))))
                    : a \in AReg}
UNLK            == {Step({a, A7}, NoFlags(Plain({a}, {a, A7}))) : a \in AReg}
PEA_Disp        == {Long(4, Step({A7}, Stack({a}))) : a \in AReg}
TST_B_AbsW      == InRam({}, Long(4, Logic(Plain({}, {}))))
TST_W_AbsW      == InRam({}, Long(4, Logic(Plain({}, {}))))
TST_W_Disp      == {Long(4, Step({}, Logic(Plain({a}, {})))) : a \in AReg}
TST_B_Disp      == {Long(4, Custom(Logic(Plain({a}, {})))) : a \in AReg}

BitOp_D_Ind     == {Fast({}, BitTest(Plain({d, a}, {}))) : a \in AReg, d \in DReg}
BitOp_Imm_AbsW  == InRam(Reg, Long(6, BitTest(Plain({}, {}))))
BitOp_Imm_Ind   == {Long(4, Step({}, BitTest(Plain({a}, {})))) : a \in AReg}
BTST_Imm_Disp   == {Long(6, Custom(BitTest(Plain({a}, {})))) : a \in AReg}
BitOp_Imm_Disp  == {Long(6, Step({}, BitTest(Plain({a}, {})))) : a \in AReg}
ORI_B_Disp      == {Long(6, Custom(Logic(Plain({a}, {})))) : a \in AReg}

-----------------------------------------------------------------------------
(* The remaining instructions *)

\* MOVE #imm,SR: inline in supervisor mode, where it writes R_SR.  In user
\* mode m68k_step takes the privilege exception, and the block goes on.
MOVE_Imm_SR  == {Long(4, Step(Reg, [Plain({}, {}) EXCEPT !.uses = {"SYS"},
                                                   !.sets = SrPart]))}
MOVE_SR_User == {[op EXCEPT !.jump = "trap", !.check = FALSE, !.writes = {A7}]
                 : op \in MOVE_Imm_SR}

\* m68k_step as the whole instruction: any register, any flag; TRAP and STOP
\* end the block, CHK, TRAPV, DIV and illegal instructions do not.
Default      == {Whole(Reg, [Plain({}, wr) EXCEPT !.uses = SrPart, !.sets = st])
                 : wr \in SUBSET Reg, st \in {{}, CCR, SrPart}}
DefaultEnds  == {Jumps(Whole(Reg, [Plain({}, {A7}) EXCEPT !.uses = SrPart,
                                                   !.sets = SrPart]))}
DefaultTraps == {Whole(Reg, [Plain({}, {A7}) EXCEPT !.uses = SrPart,
                              !.sets = SrPart, !.jump = "trap"])}

\* Everything, apart from what may take an exception in mid block.
Regular ==
    UNION {MOVE_Post_SR, MOVE_SR_Pre, ORI_SR, ALine, FLine, RTE, NOP, JMP_Ind,
           JMP_Idx, JMP_AbsL, RTS, JSR_DispPC, JSR_Disp, JSR_Ind, BSR_S,
           BSR_W, Bcc_S, Bcc_W, DBcc, Scc_D} \cup
    UNION {MOVEQ, ADD_L_R_D, ADD_L_Imm_D, ADDX_L, ADDQ_L_D, ADDQ_A,
           MOVE_L_Imm_R, MOVE_L_D_D, MOVE_W_A_D, MOVE_L_A_D, MOVEA_L_R,
           ADDA_W_R, ADDA_L_R, SUBA_L_R, ADDA_W_Imm, ADDQ_W_D, ADDQ_L_AbsW,
           ADDQ_B_D, MOVE_W_D_D, MOVE_W_Imm_D, MOVE_B_D_D, MOVEA_W_D,
           CMPA_L_R, LEA_DispPC, LEA, ADD_BW_D_D, TST_B_D, CLR_D, NOT_D,
           TST_W_D, TST_L_D, SWAP, EXT_L, EXT_W, NEG_L_D, CMP_LW_D_D,
           SUB_L_R_D, MUL_Imm_D, MUL_D_D, AND_OR_L_D_D, EOR_L_D_D,
           Logic_BW_D_D, Immediate_D, BitOp_Imm_D, LSR_ASR_L, LSR_ASR_BW,
           LSL_BW, LSL_L, ROXR, ROXL, ASL_BW, ASL_L, ROR_ROL} \cup
    UNION {MOVE_W_Ind_Ind, MOVE_W_Post_D, MOVE_L_Ind_D, MOVE_L_AbsW_D,
           MOVE_L_AbsW_Pre, MOVE_L_Disp_Pre, MOVE_B_AbsW_Disp,
           MOVE_L_AbsW_Disp, MOVEA_L_AbsW, MOVE_L_AbsW_Ind, MOVEA_L_Ind,
           MOVE_L_Post_D, MOVEA_L_Post, MOVE_L_R_Pre, MOVE_W_Imm_Pre,
           MOVE_L_Imm_Pre, MOVE_L_R_Ind, MOVE_L_R_Post, MOVE_L_Post_Post,
           MOVE_L_Post_Disp, MOVE_L_Disp_D, MOVE_W_Disp_D, MOVE_B_Disp_D,
           MOVE_B_Disp_Ind, MOVE_B_Disp_Disp, MOVE_B_Ind_D, MOVE_B_Post_D,
           MOVE_B_D_Post, MOVE_B_Imm_Disp, MOVE_B_D_Ind, MOVEA_L_Disp,
           MOVE_L_Idx_D, MOVE_L_Idx_Disp, MOVE_L_Disp_Disp, MOVE_W_Disp_Post,
           MOVEA_L_Idx, MOVE_L_R_Disp, MOVE_W_D_Ind, MOVE_B_D_Disp,
           MOVE_W_D_Disp, MOVE_W_D_Pre, MOVEA_W_Disp, MOVE_W_D_Post,
           MOVE_W_Idx_D, MOVE_W_D_AbsW, MOVE_B_D_AbsW, MOVE_W_AbsW_D,
           MOVE_B_AbsL_D, MOVE_B_AbsW_D, MOVE_W_Ind_D, MOVEM_Ind, MOVEM_Pre,
           MOVEM_Post} \cup
    UNION {ADD_L_Idx_D, ADDA_L_Disp, CLR_L_Post, CLR_W_Ind, OR_W_D_Ind,
           OR_W_D_Post, CLR_W_Disp, CLR_L_Disp, CLR_W_Post, CMPA_W_Disp,
           CMPA_L_Disp, CMPA_L_Ind, CMP_L_AbsW_D, CMP_L_Disp_D, CMP_L_Post_D,
           CMP_W_Post_D, CMP_W_Disp_D, CMP_W_Ind_D, CMPI_W_Idx, CMPI_W_Ind,
           CMPI_W_Disp, AND_W_Post_D, AND_W_Ind_D, AND_W_AbsW_D,
           AND_OR_L_AbsW_D, ADD_B_Disp_D, ADD_W_Disp_D, MUL_Disp_D, LINK,
           UNLK, PEA_Disp, TST_B_AbsW, TST_W_AbsW, TST_W_Disp, TST_B_Disp,
           BitOp_D_Ind, BitOp_Imm_AbsW, BitOp_Imm_Ind, BTST_Imm_Disp,
           BitOp_Imm_Disp, ORI_B_Disp, MOVE_Imm_SR, Default, DefaultEnds}

Trapping == MOVE_SR_User \cup DefaultTraps

=============================================================================
