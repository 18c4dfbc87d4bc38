------------------------ MODULE BlockCodegenProofs ------------------------
(***************************************************************************)
(* Blocks of any length, made of any arms that keep the discipline, leave  *)
(* m68k_cpu as the interpreter would (BlockCodegen, CarefulSpec).          *)
(*                                                                         *)
(* The invariant says, for each place in the emission of an instruction,   *)
(* where the current copy of each register and of SR is: a slot that is    *)
(* not dirty agrees with m68k_cpu, a dirty one is the only current copy,   *)
(* R_SR is current once it is loaded, and cpu->pc lags the guest by the    *)
(* accumulated sum.                                                        *)
(***************************************************************************)
EXTENDS DisciplinedCodegen, TLAPS

InOp == {"bridge", "call", "reload", "fast"}

\* A register's slot or its copy in m68k_cpu is current; SR likewise.
RegsKept == slot = cached /\ Reg \ dirty \subseteq file
SrKept(unflushed) ==
    /\ unflushed => rsr = SrPart
    /\ ~ unflushed => sr = SrPart
Loaded == srLoaded => rsr = SrPart

DoneInv ==
    at = "done" =>
        /\ file = Reg /\ sr = SrPart /\ pc = gPc /\ acc = 0
OpInv ==
    at = "op" =>
        /\ RegsKept /\ SrKept(srDirty) /\ Loaded
        /\ gPc = opPc /\ pc + acc = opPc
ExitInv ==
    at = "exit" =>
        /\ dirty \subseteq slot /\ Reg \ dirty \subseteq file
        /\ SrKept(srDirty) /\ pc + acc = gPc

\* In the middle of an instruction the sum and the slots have been flushed.
ArmInv ==
    at \in InOp =>
        /\ arm \in Arm /\ (arm.needsSr => srLoaded)
        /\ Bridged(arm) \/ arm.via = "default"
        /\ path = "fast" => arm.check /\ Bridged(arm)
        /\ Bridged(arm) => right /\ ~ last
        /\ dirty = {} /\ file = Reg /\ acc = 0
        /\ n < MaxOps
BridgeInv ==
    at = "bridge" =>
        /\ Bridged(arm) /\ slot = cached
        /\ SrKept(srDirty) /\ Loaded /\ pc = opPc /\ gPc = opPc

\* SR on the slow path: flushed, or left alone with R_SR.
SlowSr == IF arm.via = "default" \/ MovesSr(arm)
          THEN sr = SrPart /\ ~ srDirty
          ELSE SrKept(srDirty) /\ Loaded /\ wasDirty = srDirty
CallInv ==
    at = "call" =>
        /\ path = "slow" /\ slot = cached
        /\ SlowSr /\ pc = opPc /\ gPc = opPc
ReloadInv ==
    at = "reload" =>
        IF path = "slow"
        THEN /\ slot = cached \ arm.writes /\ SlowSr
             /\ IF arm.via \in {"fast", "custom"} /\ arm.jump = "no"
                THEN pc = opPc /\ gPc = opPc + arm.len
                ELSE pc = gPc
             /\ arm.jump = "no" => gPc = opPc + arm.len
        ELSE /\ slot = cached /\ SrKept(wasDirty) /\ Loaded
             /\ pc = opPc /\ gPc = opPc
FastInv ==
    at = "fast" =>
        /\ Bridged(arm) /\ ~ arm.terminal /\ slot = cached /\ Loaded
        /\ srDirty = (arm.via # "custom" /\ wasDirty)
        /\ IF path = "slow"
           THEN /\ srDirty \/ sr = SrPart
                /\ srDirty => rsr = SrPart
                /\ arm.jump = "no" => pc = opPc /\ gPc = opPc + arm.len
                /\ arm.jump # "no" => pc = gPc
           ELSE SrKept(wasDirty) /\ pc = opPc /\ gPc = opPc

\* is_last_op is known only while its instruction is emitted.
LastInv == at \notin InOp => ~ last

Coherent ==
    /\ TypeOK /\ MemoUsable /\ LastInv
    /\ DoneInv /\ OpInv /\ ExitInv
    /\ ArmInv /\ BridgeInv /\ CallInv /\ ReloadInv /\ FastInv

-----------------------------------------------------------------------------
\* What ArmType and the discipline say of one arm of codegen.c.
LEMMA ArmFacts ==
    ASSUME NEW a \in Arm
    PROVE  /\ a \in ArmType /\ Disciplined(a)
           /\ a.reads \subseteq Reg /\ a.writes \subseteq Reg
           /\ a.uses \subseteq SrPart /\ a.sets \subseteq SrPart
           /\ a.sext \in Reg \cup {NoReg} /\ a.len \in Int
           /\ a.jump \in {"no", "trap", "yes"}
           /\ a.check \in BOOLEAN /\ a.srmask \in BOOLEAN
           /\ a.needsSr \in BOOLEAN /\ a.terminal \in BOOLEAN
BY ArmAssumption, ArmDiscipline DEF ArmType

\* Between instructions every operand of inline code is current.
LEMMA OperandsAreRight ==
    ASSUME Coherent, at = "op", NEW a \in Arm, Fits(a)
    PROVE  OperandsRight(a) /\ Visible = Reg
<1>1. Visible = Reg
  BY DEF Coherent, OpInv, RegsKept, Visible, TypeOK, CopiesOK
<1>2. a.reads \subseteq Visible
  BY <1>1, ArmFacts
<1>3. a.uses \subseteq rsr
  BY ArmFacts DEF Disciplined, Fits, Coherent, OpInv, Loaded
<1>4. a.sext # NoReg => WordCurrent(a)
  BY <1>1, ArmFacts DEF WordCurrent, Coherent, MemoUsable
<1> QED
  BY <1>1, <1>2, <1>3, <1>4 DEF OperandsRight

\* The initial state is coherent.
LEMMA InitCoherent == Init => Coherent
<1> SUFFICES ASSUME Init PROVE Coherent
  OBVIOUS
<1>1. PlaceOK /\ CopiesOK
  BY DEF Init, PlaceOK, CopiesOK
<1>2. NotesOK
  BY DEF Init, NotesOK
<1>3. SumsOK
  BY BoundAssumption DEF Init, SumsOK
<1> QED
  BY <1>1, <1>2, <1>3
     DEF Init, Coherent, TypeOK, MemoUsable, LastInv, DoneInv, OpInv, ExitInv, ArmInv, InOp,
              BridgeInv, CallInv, ReloadInv, FastInv

\* Entering a block reads every slot from m68k_cpu.
LEMMA DispatchKeeps ==
    ASSUME Coherent, NEW cs \in SUBSET Reg, NEW load \in BOOLEAN,
           Dispatch(cs, load)
    PROVE  Coherent'
<1> USE DEF Dispatch, NewBlock, Prologue
<1>1. PlaceOK' /\ CopiesOK'
  BY DEF Coherent, TypeOK, PlaceOK, CopiesOK
<1>2. NotesOK'
  BY DEF Coherent, TypeOK, NotesOK
<1>3. SumsOK'
  BY BoundAssumption DEF Coherent, TypeOK, SumsOK
<1>4. OpInv'
  BY DEF Coherent, TypeOK, CopiesOK, SumsOK, DoneInv, OpInv, RegsKept, SrKept, Loaded
<1>5. LastInv'
  BY DEF Coherent, LastInv, InOp
<1> QED
  BY <1>1, <1>2, <1>3, <1>4, <1>5
     DEF Coherent, TypeOK, MemoUsable, DoneInv, ExitInv, ArmInv, InOp,
         BridgeInv, CallInv, ReloadInv, FastInv

\* Inline code with current operands leaves the current copy of a register it
\* writes where the notes say, and R_SR current.
LEMMA ResultsKept ==
    ASSUME CopiesOK, NotesOK, RegsKept, Loaded, NEW a \in Arm,
           a.needsSr => srLoaded,
           srDirty => rsr = SrPart,
           srDirty \/ a.sets # {} \/ sr = SrPart,
           InlineResults(a, TRUE), Marks(a)
    PROVE  /\ slot' = cached /\ Reg \ dirty' \subseteq file'
           /\ dirty' \subseteq cached /\ file' \subseteq Reg
           /\ rsr' \subseteq SrPart /\ sr' \subseteq SrPart
           /\ srLoaded => rsr' = SrPart
           /\ srDirty' => rsr' = SrPart
           /\ ~ srDirty' => sr' = SrPart
           /\ srDirty' \in BOOLEAN
<1>1. /\ slot' = cached /\ Reg \ dirty' \subseteq file'
      /\ dirty' \subseteq cached /\ file' \subseteq Reg
  BY ArmFacts DEF InlineResults, Stored, Marks, RegsKept, CopiesOK
<1>2. /\ rsr' \subseteq SrPart /\ sr' \subseteq SrPart
      /\ srLoaded => rsr' = SrPart
  BY ArmFacts DEF InlineResults, Stored, Loaded, CopiesOK
<1>3. CASE a.sets = {}
  BY <1>1, <1>2, <1>3 DEF InlineResults, Stored, Marks, NotesOK
<1>4. CASE a.sets # {}
  <2>1. srLoaded
    BY <1>4, ArmFacts DEF Disciplined
  <2>2. srDirty'
    BY <1>4 DEF Marks
  <2> QED
    BY <1>1, <1>2, <2>1, <2>2 DEF Marks, NotesOK
<1> QED
  BY <1>3, <1>4

\* An inline instruction.
LEMMA InlineKeeps ==
    ASSUME Coherent, NEW a \in Arm, Inline(a), MemoUsable'
    PROVE  Coherent'
<1>1. at = "op" /\ Fits(a) /\ OperandsRight(a)
  BY OperandsAreRight DEF Inline, Fits
<1>2. InlineResults(a, TRUE) /\ Marks(a)
  BY <1>1 DEF Inline
<1>3. /\ CopiesOK /\ NotesOK /\ RegsKept /\ Loaded
      /\ srDirty => rsr = SrPart
      /\ srDirty \/ sr = SrPart
      /\ a.needsSr => srLoaded
  BY <1>1 DEF Coherent, TypeOK, OpInv, SrKept, Fits
<1>4. /\ slot' = cached /\ Reg \ dirty' \subseteq file'
      /\ dirty' \subseteq cached /\ file' \subseteq Reg
      /\ rsr' \subseteq SrPart /\ sr' \subseteq SrPart
      /\ srLoaded => rsr' = SrPart
      /\ srDirty' => rsr' = SrPart
      /\ ~ srDirty' => sr' = SrPart
      /\ srDirty' \in BOOLEAN
  BY <1>2, <1>3, ResultsKept
<1>5. cached' = cached /\ srLoaded' = srLoaded /\ wasDirty' = wasDirty
  BY DEF Inline
<1>6. /\ at' \in {"op", "exit"} /\ arm' = NoArm /\ path' = "fast"
      /\ right' = TRUE /\ last' = FALSE
      /\ opPc' = opPc + a.len /\ n' = n + 1
      /\ a.ends => at' = "exit"
  BY DEF Inline, EndOp
<1>7. /\ pc' + acc' = gPc' /\ acc' \in Int /\ pc' \in Int /\ gPc' \in Int
      /\ ~ a.ends => gPc' = opPc'
  <2>1. PICK t \in NextPcs(a) : gPc' = t /\ Lands(a, OperandsRight(a), t)
    BY DEF Inline
  <2>2. /\ pc \in Int /\ acc \in Int /\ opPc \in Int /\ gPc = opPc
        /\ pc + acc = opPc
    BY <1>1 DEF Coherent, TypeOK, SumsOK, OpInv
  <2>3. CASE a.jump = "no"
    <3>1. pc' = pc /\ acc' = acc + a.len /\ gPc' = gPc + a.len
      BY <2>1, <2>3 DEF Lands, NextPcs, Inline, Advance
    <3> QED
      BY <3>1, <2>2, <1>6, ArmFacts
  <2>4. CASE a.jump = "yes"
    <3>1. pc' = t /\ gPc' = t /\ t \in Int /\ acc' = 0 /\ a.ends
      BY <1>1, <2>1, <2>4, BoundAssumption, ArmFacts
         DEF Lands, NextPcs, Inline, Advance, Disciplined
    <3> QED
      BY <3>1
  <2> QED
    BY <2>3, <2>4, ArmFacts DEF Disciplined
<1>8. memo' \in Reg \cup {NoReg} /\ word' \in BOOLEAN
  BY ArmFacts, <1>3 DEF Inline, MemoAfter, WordAfter, CopiesOK
<1>9. TypeOK'
  <2>1. PlaceOK' /\ CopiesOK'
    BY <1>3, <1>4, <1>5, <1>6, <1>8 DEF PlaceOK, CopiesOK
  <2>2. NotesOK'
    BY <1>3, <1>4, <1>5, <1>6, <1>8 DEF NotesOK
  <2>3. SumsOK'
    BY <1>1, <1>6, <1>7, ArmFacts, BoundAssumption
       DEF Coherent, TypeOK, SumsOK, Fits
  <2> QED
    BY <2>1, <2>2, <2>3 DEF TypeOK
<1>10. OpInv'
  BY <1>4, <1>5, <1>6, <1>7 DEF OpInv, RegsKept, SrKept, Loaded
<1>11. ExitInv'
  BY <1>4, <1>5, <1>6, <1>7 DEF ExitInv, SrKept
<1> QED
  BY <1>6, <1>9, <1>10, <1>11
     DEF Coherent, LastInv, DoneInv, ArmInv, InOp, BridgeInv, CallInv, ReloadInv,
         FastInv

\* The head of an arm with a bridge: the sum and the slots are flushed.
LEMMA StartBridgeKeeps ==
    ASSUME Coherent, NEW a \in Arm, NEW way \in {"slow", "fast"},
           StartBridge(a, way)
    PROVE  Coherent'
<1>1. at = "op" /\ Fits(a) /\ OperandsRight(a) /\ Bridged(a)
  BY OperandsAreRight DEF StartBridge, Fits
<1>2. /\ at' = "bridge" /\ arm' = a /\ path' = way /\ right' = TRUE
      /\ way = "fast" => a.check
      /\ dirty' = {} /\ acc' = 0 /\ memo' = NoReg
      /\ pc' = pc + acc /\ file' = FlushedFile
  BY <1>1 DEF StartBridge
<1>3. /\ cached' = cached /\ srLoaded' = srLoaded /\ srDirty' = srDirty
      /\ opPc' = opPc /\ n' = n /\ last' = last /\ wasDirty' = wasDirty
      /\ gPc' = gPc /\ slot' = slot /\ rsr' = rsr /\ word' = word /\ sr' = sr
  BY DEF StartBridge
<1>4. file' = Reg
  BY <1>1, <1>2 DEF FlushedFile, Coherent, TypeOK, CopiesOK, OpInv, RegsKept
<1>5. pc' = opPc /\ gPc = opPc
  BY <1>1, <1>2 DEF Coherent, OpInv
<1>6. TypeOK'
  <2>1. PlaceOK' /\ CopiesOK'
    BY <1>2, <1>3, <1>4, ArmFacts DEF Coherent, TypeOK, PlaceOK, CopiesOK
  <2>2. NotesOK'
    BY <1>2, <1>3 DEF Coherent, TypeOK, NotesOK
  <2>3. SumsOK'
    BY <1>2, <1>3, <1>5 DEF Coherent, TypeOK, SumsOK
  <2> QED
    BY <2>1, <2>2, <2>3 DEF TypeOK
<1>7. ArmInv'
  <2>1. n < MaxOps /\ (a.needsSr => srLoaded) /\ ~ last
    BY <1>1 DEF Fits, Coherent, LastInv, InOp
  <2> QED
    BY <1>1, <1>2, <1>3, <1>4, <2>1 DEF ArmInv, Bridged
<1>8. BridgeInv'
  BY <1>1, <1>2, <1>3, <1>5
     DEF BridgeInv, Coherent, OpInv, RegsKept, SrKept, Loaded, Bridged
<1> QED
  BY <1>2, <1>6, <1>7, <1>8
     DEF Coherent, MemoUsable, LastInv, InOp, DoneInv, OpInv, ExitInv, CallInv,
         ReloadInv, FastInv

\* The head of the bridge flushes R_SR on the slow path.
LEMMA BridgeFlushKeeps ==
    ASSUME Coherent, BridgeFlush
    PROVE  Coherent'
<1>1. /\ at = "bridge" /\ Bridged(arm) /\ slot = cached /\ arm \in Arm
      /\ SrKept(srDirty) /\ Loaded /\ pc = opPc /\ gPc = opPc
      /\ srDirty \in BOOLEAN /\ sr \subseteq SrPart
  BY DEF BridgeFlush, Coherent, BridgeInv, ArmInv, InOp, TypeOK, NotesOK, CopiesOK
<1>2. /\ wasDirty' = srDirty
      /\ srDirty' = (srDirty /\ ~ MovesSr(arm))
      /\ sr' = IF path = "slow" /\ MovesSr(arm) THEN FlushedSr ELSE sr
      /\ at' = IF path = "slow" THEN "call" ELSE "reload"
  BY DEF BridgeFlush
<1>3. /\ cached' = cached /\ srLoaded' = srLoaded /\ dirty' = dirty
      /\ memo' = memo /\ acc' = acc /\ opPc' = opPc /\ n' = n /\ arm' = arm
      /\ path' = path /\ right' = right /\ last' = last /\ slot' = slot
      /\ rsr' = rsr /\ word' = word /\ file' = file /\ pc' = pc /\ gPc' = gPc
  BY DEF BridgeFlush
<1>4. FlushedSr = SrPart
  BY <1>1 DEF FlushedSr, SrKept
<1>5. TypeOK'
  <2>1. PlaceOK' /\ CopiesOK'
    BY <1>1, <1>2, <1>3, <1>4 DEF Coherent, TypeOK, PlaceOK, CopiesOK
  <2>2. NotesOK'
    BY <1>1, <1>2, <1>3 DEF Coherent, TypeOK, NotesOK
  <2>3. SumsOK'
    BY <1>3 DEF Coherent, TypeOK, SumsOK
  <2> QED
    BY <2>1, <2>2, <2>3 DEF TypeOK
<1>6. ArmInv'
  BY <1>1, <1>2, <1>3 DEF ArmInv, InOp, Coherent, Bridged
<1>7. CallInv'
  <2> SUFFICES ASSUME path = "slow" PROVE SlowSr'
    BY <1>1, <1>2, <1>3 DEF CallInv, Coherent, TypeOK, PlaceOK
  <2>1. CASE MovesSr(arm)
    BY <1>2, <1>3, <1>4, <2>1 DEF SlowSr, MovesSr
  <2>2. CASE ~ MovesSr(arm)
    <3>1. srDirty' = srDirty /\ sr' = sr
      BY <1>1, <1>2, <2>2
    <3> QED
      BY <1>1, <1>2, <1>3, <2>2, <3>1 DEF SlowSr, MovesSr, SrKept, Loaded, Bridged
  <2> QED
    BY <2>1, <2>2
<1>8. ReloadInv'
  BY <1>1, <1>2, <1>3 DEF ReloadInv, SrKept, Loaded
<1> QED
  BY <1>2, <1>3, <1>5, <1>6, <1>7, <1>8
     DEF Coherent, MemoUsable, LastInv, InOp, DoneInv, OpInv, ExitInv, BridgeInv,
         FastInv

\* emit_helper_step flushes everything before the call.
LEMMA StartHelperKeeps ==
    ASSUME Coherent, NEW a \in Arm, NEW final \in BOOLEAN, StartHelper(a, final)
    PROVE  Coherent'
<1>1. /\ at = "op" /\ n < MaxOps /\ (a.needsSr => srLoaded)
      /\ a.via = "default"
  BY DEF StartHelper, Fits
<1>2. /\ at' = "call" /\ arm' = a /\ path' = "slow" /\ last' = final
      /\ pc' = pc + acc /\ acc' = 0 /\ dirty' = {} /\ srDirty' = FALSE
      /\ memo' = NoReg
  BY DEF StartHelper
<1>3. /\ cached' = cached /\ srLoaded' = srLoaded /\ opPc' = opPc /\ n' = n
      /\ right' = right /\ wasDirty' = wasDirty /\ slot' = slot /\ rsr' = rsr
      /\ word' = word /\ gPc' = gPc
  BY DEF StartHelper
<1>4. file' = Reg
  BY <1>1 DEF StartHelper, FlushedFile, Coherent, TypeOK, CopiesOK, OpInv, RegsKept
<1>5. sr' = SrPart
  BY <1>1 DEF StartHelper, FlushedSr, Coherent, OpInv, SrKept
<1>6. pc' = opPc /\ gPc = opPc /\ slot = cached
  BY <1>1, <1>2 DEF Coherent, OpInv, RegsKept
<1>7. TypeOK'
  <2>1. PlaceOK' /\ CopiesOK'
    BY <1>2, <1>3, <1>4, <1>5, ArmFacts DEF Coherent, TypeOK, PlaceOK, CopiesOK
  <2>2. NotesOK'
    BY <1>2, <1>3 DEF Coherent, TypeOK, NotesOK
  <2>3. SumsOK'
    BY <1>2, <1>3, <1>6 DEF Coherent, TypeOK, SumsOK
  <2> QED
    BY <2>1, <2>2, <2>3 DEF TypeOK
<1>8. ArmInv'
  BY <1>1, <1>2, <1>3, <1>4 DEF ArmInv, Bridged
<1>9. CallInv'
  BY <1>1, <1>2, <1>3, <1>5, <1>6 DEF CallInv, SlowSr
<1> QED
  BY <1>2, <1>7, <1>8, <1>9
     DEF Coherent, MemoUsable, LastInv, InOp, DoneInv, OpInv, ExitInv, BridgeInv,
         ReloadInv, FastInv

\* The helper runs on a current m68k_cpu and leaves it current.
LEMMA CallKeeps ==
    ASSUME Coherent, Call, MemoUsable'
    PROVE  Coherent'
<1>1. /\ at = "call" /\ arm \in Arm /\ path = "slow" /\ slot = cached
      /\ SlowSr /\ pc = opPc /\ gPc = opPc /\ file = Reg
      /\ Bridged(arm) => right
  BY DEF Call, Coherent, CallInv, ArmInv, InOp
<1>2. HelperRight
  <2>1. arm.uses \subseteq sr
    BY <1>1, ArmFacts DEF SlowSr, MovesSr, Disciplined
  <2>2. arm.via \in {"fast", "custom"} => right
    BY <1>1 DEF Bridged
  <2> QED
    BY <1>1, <2>1, <2>2 DEF HelperRight
<1>3. /\ at' = "reload" /\ cached' = cached /\ srLoaded' = srLoaded
      /\ dirty' = dirty /\ srDirty' = srDirty /\ memo' = memo /\ acc' = acc
      /\ opPc' = opPc /\ n' = n /\ arm' = arm /\ path' = path
      /\ right' = right /\ last' = last /\ wasDirty' = wasDirty
      /\ word' = FALSE
  BY DEF Call, notes, place
<1>4. /\ file' = Reg /\ slot' = cached \ arm.writes
      /\ sr' = (sr \ arm.sets) \cup arm.sets /\ rsr' = rsr \ arm.sets
  BY <1>1, <1>2, ArmFacts DEF Call, Stored
<1>5. /\ IF arm.via \in {"fast", "custom"} /\ arm.jump = "no"
         THEN pc' = opPc ELSE pc' = gPc'
      /\ arm.jump = "no" => gPc' = opPc + arm.len
      /\ pc' \in Int /\ gPc' \in Int
  <2>1. PICK t \in NextPcs(arm) :
          /\ gPc' = t
          /\ pc' = IF arm.via \in {"fast", "custom"} /\ arm.jump = "no"
                   THEN pc ELSE t
    BY DEF Call
  <2>2. pc \in Int /\ gPc \in Int
    BY DEF Coherent, TypeOK, SumsOK
  <2>3. t \in Int
    BY <1>1, <2>2, ArmFacts, BoundAssumption DEF NextPcs, Disciplined
  <2>4. arm.jump = "no" => t = opPc + arm.len
    BY <1>1, <2>1 DEF NextPcs
  <2> QED
    BY <1>1, <2>1, <2>2, <2>3, <2>4
<1>6. TypeOK'
  <2>1. PlaceOK' /\ CopiesOK'
    BY <1>1, <1>3, <1>4, ArmFacts DEF Coherent, TypeOK, PlaceOK, CopiesOK
  <2>2. NotesOK'
    BY <1>3 DEF Coherent, TypeOK, NotesOK
  <2>3. SumsOK'
    BY <1>3, <1>5 DEF Coherent, TypeOK, SumsOK
  <2> QED
    BY <2>1, <2>2, <2>3 DEF TypeOK
<1>7. ArmInv'
  BY <1>1, <1>3, <1>4 DEF ArmInv, InOp, Coherent, Bridged
<1>8. SlowSr'
  <2>1. CASE arm.via = "default" \/ MovesSr(arm)
    <3>1. sr' = SrPart /\ ~ srDirty'
      BY <1>1, <1>3, <1>4, <2>1, ArmFacts DEF SlowSr
    <3> QED
      BY <1>3, <2>1, <3>1 DEF SlowSr, MovesSr
  <2>2. CASE ~ (arm.via = "default" \/ MovesSr(arm))
    <3>1. arm.sets = {}
      BY <1>1, <2>2, ArmFacts DEF MovesSr, Disciplined
    <3>2. sr' = sr /\ rsr' = rsr
      BY <1>4, <3>1
    <3> QED
      BY <1>1, <1>3, <2>2, <3>2 DEF SlowSr, MovesSr, SrKept, Loaded
  <2> QED
    BY <2>1, <2>2
<1>9. ReloadInv'
  BY <1>1, <1>3, <1>4, <1>5, <1>8 DEF ReloadInv
<1> QED
  BY <1>3, <1>6, <1>7, <1>9
     DEF Coherent, LastInv, InOp, DoneInv, OpInv, ExitInv, BridgeInv, CallInv,
         FastInv

\* The tail of the bridge reloads what the helper may have changed.
LEMMA BridgeReloadKeeps ==
    ASSUME Coherent, BridgeReload
    PROVE  Coherent'
<1>1. /\ at = "reload" /\ Bridged(arm) /\ ~ arm.terminal /\ arm \in Arm
      /\ file = Reg /\ ReloadInv /\ CopiesOK /\ wasDirty \in BOOLEAN
      /\ path \in {"slow", "fast"}
  BY DEF BridgeReload, Coherent, ArmInv, InOp, TypeOK, PlaceOK, NotesOK
<1>2. /\ at' = "fast" /\ pc' = Undone
      /\ srDirty' = (arm.via # "custom" /\ wasDirty)
      /\ slot' = IF path = "slow" /\ arm.via # "custom"
                 THEN ReloadedSlots(arm.touched) ELSE slot
      /\ rsr' = IF path = "slow" /\ MovesSr(arm) THEN sr ELSE rsr
  BY DEF BridgeReload
<1>3. /\ cached' = cached /\ srLoaded' = srLoaded /\ dirty' = dirty
      /\ memo' = memo /\ acc' = acc /\ opPc' = opPc /\ n' = n /\ arm' = arm
      /\ path' = path /\ right' = right /\ last' = last
      /\ wasDirty' = wasDirty /\ word' = word /\ file' = file /\ sr' = sr
      /\ gPc' = gPc
  BY DEF BridgeReload, place
<1>4. slot' = cached
  <2>1. CASE path = "fast"
    BY <1>1, <1>2, <2>1 DEF ReloadInv
  <2>2. CASE path = "slow" /\ arm.via = "custom"
    BY <1>1, <1>2, <2>2, ArmFacts DEF ReloadInv, Disciplined
  <2>3. CASE path = "slow" /\ arm.via # "custom"
    <3>1. arm.writes \subseteq arm.touched
      BY <1>1, ArmFacts DEF Disciplined
    <3>2. slot = cached \ arm.writes
      BY <1>1, <2>3 DEF ReloadInv
    <3> QED
      BY <1>1, <1>2, <2>3, <3>1, <3>2 DEF ReloadedSlots, CopiesOK
  <2> QED
    BY <1>1, <2>1, <2>2, <2>3
<1>5. /\ path = "slow" => /\ srDirty' \/ sr = SrPart
                          /\ srDirty' => rsr' = SrPart
      /\ path = "fast" => SrKept(wasDirty)'
      /\ srLoaded => rsr' = SrPart
  <2>1. CASE path = "fast"
    BY <1>1, <1>2, <1>3, <2>1 DEF ReloadInv, SrKept, Loaded
  <2>2. CASE path = "slow" /\ MovesSr(arm)
    BY <1>1, <1>2, <2>2 DEF ReloadInv, SlowSr
  <2>3. CASE path = "slow" /\ ~ MovesSr(arm)
    <3>1. arm.via = "fast"
      BY <2>3 DEF MovesSr
    <3>2. SrKept(srDirty) /\ Loaded /\ wasDirty = srDirty
      BY <1>1, <2>3, <3>1 DEF ReloadInv, SlowSr
    <3>3. srDirty' = wasDirty /\ rsr' = rsr
      BY <1>1, <1>2, <2>3, <3>1
    <3> QED
      BY <2>3, <3>2, <3>3 DEF SrKept, Loaded
  <2> QED
    BY <1>1, <2>1, <2>2, <2>3
<1>6. /\ path = "fast" => pc' = opPc /\ gPc = opPc
      /\ path = "slow" /\ arm.jump = "no" => pc' = opPc /\ gPc = opPc + arm.len
      /\ path = "slow" /\ arm.jump # "no" => pc' = gPc
      /\ pc' \in Int
  <2>1. pc \in Int /\ opPc \in Int /\ gPc \in Int /\ arm.len \in Int
    BY <1>1, ArmFacts DEF Coherent, TypeOK, SumsOK
  <2>2. arm.jump \in {"no", "yes"}
    BY <1>1, ArmFacts DEF Disciplined
  <2>3. arm.via \in {"step", "fast", "custom"}
    BY <1>1 DEF Bridged
  <2> QED
    BY <1>1, <1>2, <2>1, <2>2, <2>3 DEF ReloadInv, Undone
<1>7. TypeOK'
  <2>1. PlaceOK' /\ CopiesOK'
    <3>1. rsr' \subseteq SrPart
      BY <1>1, <1>2 DEF CopiesOK
    <3> QED
      BY <1>1, <1>2, <1>3, <1>4, <3>1 DEF Coherent, TypeOK, PlaceOK, CopiesOK
  <2>2. NotesOK'
    BY <1>1, <1>2, <1>3 DEF Coherent, TypeOK, NotesOK
  <2>3. SumsOK'
    BY <1>3, <1>6 DEF Coherent, TypeOK, SumsOK
  <2> QED
    BY <2>1, <2>2, <2>3 DEF TypeOK
<1>8. ArmInv'
  BY <1>1, <1>2, <1>3 DEF ArmInv, InOp, Coherent, Bridged
<1>9. FastInv'
  BY <1>1, <1>2, <1>3, <1>4, <1>5, <1>6 DEF FastInv, Loaded, Bridged, SrKept
<1> QED
  BY <1>2, <1>3, <1>7, <1>8, <1>9
     DEF Coherent, MemoUsable, LastInv, InOp, DoneInv, OpInv, ExitInv, BridgeInv,
         CallInv, ReloadInv

\* After the bridge: the fast path, or what it and the slow path share.
LEMMA FastPathKeeps ==
    ASSUME Coherent, FastPath
    PROVE  Coherent'
<1>1. /\ at = "fast" /\ Bridged(arm) /\ arm \in Arm /\ FastInv
      /\ right = TRUE /\ last = FALSE /\ acc = 0 /\ n < MaxOps
      /\ dirty = {} /\ file = Reg /\ slot = cached /\ Loaded
      /\ CopiesOK /\ NotesOK /\ path \in {"slow", "fast"}
      /\ arm.needsSr => srLoaded
      /\ path = "fast" => arm.check
  BY DEF FastPath, Coherent, FastInv, ArmInv, InOp, TypeOK, PlaceOK, NotesOK
<1>2. /\ cached' = cached /\ srLoaded' = srLoaded /\ memo' = memo
      /\ wasDirty' = wasDirty /\ word' = word
  BY DEF FastPath
<1>3. /\ at' = IF arm.ends THEN "exit" ELSE "op"
      /\ arm' = NoArm /\ path' = "fast" /\ right' = TRUE /\ last' = FALSE
      /\ opPc' = opPc + arm.len /\ n' = n + 1
  BY <1>1 DEF FastPath, EndOp
<1>4. /\ slot' = cached /\ Reg \ dirty' \subseteq file'
      /\ dirty' \subseteq cached /\ file' \subseteq Reg
      /\ rsr' \subseteq SrPart /\ sr' \subseteq SrPart
      /\ srLoaded => rsr' = SrPart
      /\ srDirty' => rsr' = SrPart
      /\ ~ srDirty' => sr' = SrPart
      /\ srDirty' \in BOOLEAN
  <2>1. CASE path = "fast"
    <3>1. InlineResults(arm, TRUE) /\ Marks(arm) /\ RegsKept
      BY <1>1, <2>1 DEF FastPath, RegsKept
    <3>2. SrKept(wasDirty) /\ srDirty = (arm.via # "custom" /\ wasDirty)
      BY <1>1, <2>1 DEF FastInv
    <3>3. arm.via = "custom" => arm.sets # {}
      BY <1>1, ArmFacts DEF Disciplined
    <3>4. /\ srDirty => rsr = SrPart
          /\ srDirty \/ arm.sets # {} \/ sr = SrPart
      BY <1>1, <3>2, <3>3 DEF SrKept, NotesOK
    <3> QED
      BY <1>1, <3>1, <3>4, ResultsKept
  <2>2. CASE path = "slow"
    <3>1. /\ slot' = slot /\ file' = file /\ rsr' = rsr /\ sr' = sr
      BY <2>2 DEF FastPath
    <3>2. /\ srDirty \/ sr = SrPart
          /\ srDirty => rsr = SrPart
      BY <1>1, <2>2 DEF FastInv
    <3>3. CASE arm.check /\ arm.sets # {}
      <4>1. srLoaded /\ srDirty' = TRUE
        BY <1>1, <3>3, ArmFacts DEF Disciplined, FastPath, Marks
      <4>2. dirty' \subseteq cached
        BY <1>1, <3>3 DEF FastPath, Marks
      <4> QED
        BY <1>1, <3>1, <4>1, <4>2 DEF Loaded, CopiesOK
    <3>4. CASE ~ (arm.check /\ arm.sets # {})
      <4>1. srDirty' = srDirty
        BY <1>1, <3>4 DEF FastPath, Marks, NotesOK
      <4>2. dirty' \subseteq cached
        BY <1>1, <3>4 DEF FastPath, Marks
      <4> QED
        BY <1>1, <3>1, <3>2, <4>1, <4>2 DEF Loaded, CopiesOK, NotesOK
    <3> QED
      BY <3>3, <3>4
  <2> QED
    BY <1>1, <2>1, <2>2
<1>5. /\ pc' + acc' = gPc' /\ acc' \in Int /\ pc' \in Int /\ gPc' \in Int
      /\ ~ arm.ends => gPc' = opPc'
  <2>1. /\ pc \in Int /\ opPc \in Int /\ gPc \in Int /\ arm.len \in Int
        /\ arm.jump \in {"no", "yes"} /\ (arm.jump = "yes" => arm.ends)
    BY <1>1, ArmFacts DEF Coherent, TypeOK, SumsOK, Disciplined
  <2>2. acc' = IF arm.jump = "yes" THEN 0 ELSE arm.len
    BY <1>1, <2>1 DEF FastPath, Advance
  <2>3. CASE path = "slow"
    <3>1. pc' = pc /\ gPc' = gPc
      BY <2>3 DEF FastPath
    <3> QED
      BY <1>1, <1>3, <2>1, <2>2, <2>3, <3>1 DEF FastInv
  <2>4. CASE path = "fast"
    <3>1. PICK t \in NextPcs(arm) : gPc' = t /\ Lands(arm, TRUE, t)
      BY <1>1, <2>4 DEF FastPath
    <3>2. pc = opPc /\ gPc = opPc
      BY <1>1, <2>4 DEF FastInv
    <3>3. CASE arm.jump = "no"
      <4>1. pc' = pc /\ gPc' = gPc + arm.len
        BY <3>1, <3>3 DEF Lands, NextPcs
      <4> QED
        BY <1>3, <2>1, <2>2, <3>2, <3>3, <4>1
    <3>4. CASE arm.jump = "yes"
      <4>1. pc' = t /\ gPc' = t /\ t \in Int
        BY <3>1, <3>4, BoundAssumption DEF Lands, NextPcs
      <4> QED
        BY <2>1, <2>2, <3>4, <4>1
    <3> QED
      BY <2>1, <3>3, <3>4
  <2> QED
    BY <1>1, <2>3, <2>4
<1>6. TypeOK'
  <2>1. PlaceOK' /\ CopiesOK'
    BY <1>1, <1>2, <1>3, <1>4 DEF PlaceOK, CopiesOK
  <2>2. NotesOK'
    BY <1>1, <1>2, <1>3, <1>4 DEF NotesOK
  <2>3. SumsOK'
    BY <1>1, <1>3, <1>5, ArmFacts, BoundAssumption DEF Coherent, TypeOK, SumsOK
  <2> QED
    BY <2>1, <2>2, <2>3 DEF TypeOK
<1>7. OpInv'
  BY <1>2, <1>3, <1>4, <1>5 DEF OpInv, RegsKept, SrKept, Loaded
<1>8. ExitInv'
  BY <1>2, <1>3, <1>4, <1>5 DEF ExitInv, SrKept
<1> QED
  BY <1>2, <1>3, <1>6, <1>7, <1>8
     DEF Coherent, MemoUsable, LastInv, DoneInv, ArmInv, InOp, BridgeInv, CallInv,
         ReloadInv, FastInv

\* After a helper that is the whole instruction.
LEMMA HelperReloadKeeps ==
    ASSUME Coherent, HelperReload
    PROVE  Coherent'
<1>1. /\ at = "reload" /\ arm \in Arm /\ ReloadInv /\ CopiesOK /\ NotesOK
      /\ arm.via = "default" \/ arm.terminal
      /\ dirty = {} /\ file = Reg /\ acc = 0 /\ n < MaxOps
  BY DEF HelperReload, Coherent, ArmInv, InOp, TypeOK
<1>2. /\ path = "slow" /\ slot = cached \ arm.writes
      /\ sr = SrPart /\ ~ srDirty /\ pc = gPc
      /\ arm.jump = "no" => gPc = opPc + arm.len
  <2>1. arm.via = "default" => ~ Bridged(arm)
    BY DEF Bridged
  <2>2. arm.terminal => ~ arm.check /\ MovesSr(arm) /\ arm.jump = "yes"
    BY <1>1, ArmFacts DEF Disciplined, MovesSr
  <2>3. path = "slow"
    BY <1>1, <2>1, <2>2 DEF Coherent, TypeOK, PlaceOK, ArmInv, InOp
  <2> QED
    BY <1>1, <2>2, <2>3 DEF ReloadInv, SlowSr
<1>3. /\ cached' = cached /\ srLoaded' = srLoaded /\ memo' = memo
      /\ wasDirty' = wasDirty /\ word' = word /\ dirty' = dirty
      /\ srDirty' = srDirty /\ acc' = acc /\ file' = file /\ sr' = sr
      /\ pc' = pc /\ gPc' = gPc
  BY DEF HelperReload
<1>4. /\ at' = IF arm.ends \/ last THEN "exit" ELSE "op"
      /\ arm' = NoArm /\ path' = "fast" /\ right' = TRUE /\ last' = FALSE
      /\ opPc' = opPc + arm.len /\ n' = n + 1
  BY DEF HelperReload, EndOp
<1>5. at' = "op" => slot' = cached /\ rsr' = SrPart
  <2>1. SUFFICES ASSUME ~ arm.ends, ~ last PROVE slot' = cached /\ rsr' = SrPart
    BY <1>4
  <2>2. ~ arm.terminal /\ arm.writes \subseteq arm.touched
    BY <1>1, <2>1, ArmFacts DEF Disciplined
  <2>3. slot' = ReloadedSlots(arm.touched) /\ rsr' = sr
    BY <2>1, <2>2 DEF HelperReload
  <2> QED
    BY <1>1, <1>2, <2>2, <2>3 DEF ReloadedSlots, CopiesOK
<1>6. slot' \subseteq cached /\ rsr' \subseteq SrPart
  BY <1>1 DEF HelperReload, ReloadedSlots, CopiesOK
<1>7. at' = "op" => gPc' = opPc'
  BY <1>1, <1>2, <1>3, <1>4, ArmFacts DEF Disciplined
<1>8. TypeOK'
  <2>1. PlaceOK' /\ CopiesOK'
    BY <1>1, <1>3, <1>4, <1>6 DEF PlaceOK, CopiesOK
  <2>2. NotesOK'
    BY <1>1, <1>3, <1>4 DEF NotesOK
  <2>3. SumsOK'
    BY <1>1, <1>3, <1>4, ArmFacts, BoundAssumption DEF Coherent, TypeOK, SumsOK
  <2> QED
    BY <2>1, <2>2, <2>3 DEF TypeOK
<1>9. pc' + acc' = gPc'
  BY <1>1, <1>2, <1>3 DEF Coherent, TypeOK, SumsOK
<1>10. OpInv'
  BY <1>1, <1>2, <1>3, <1>5, <1>7, <1>9 DEF OpInv, RegsKept, SrKept, Loaded
<1>11. ExitInv'
  BY <1>1, <1>2, <1>3, <1>9 DEF ExitInv, SrKept
<1> QED
  BY <1>3, <1>4, <1>8, <1>10, <1>11
     DEF Coherent, MemoUsable, LastInv, DoneInv, ArmInv, InOp, BridgeInv, CallInv,
         ReloadInv, FastInv

\* The cap of the block is reached between two instructions.
LEMMA LastOpKeeps ==
    ASSUME Coherent, LastOp
    PROVE  Coherent'
<1>1. /\ at = "op" /\ at' = "exit"
      /\ UNCHANGED <<cached, srLoaded, dirty, srDirty, memo, acc>>
      /\ UNCHANGED <<opPc, n, arm, path, right, last, wasDirty>>
      /\ UNCHANGED <<slot, rsr, word, file, sr, pc, gPc>>
  BY DEF LastOp, notes, place, copies
<1>2. TypeOK'
  <2>1. PlaceOK' /\ CopiesOK'
    BY <1>1 DEF Coherent, TypeOK, PlaceOK, CopiesOK
  <2>2. NotesOK'
    BY <1>1 DEF Coherent, TypeOK, NotesOK
  <2>3. SumsOK'
    BY <1>1 DEF Coherent, TypeOK, SumsOK
  <2> QED
    BY <2>1, <2>2, <2>3 DEF TypeOK
<1>3. ExitInv'
  BY <1>1 DEF Coherent, OpInv, ExitInv, RegsKept, SrKept, TypeOK, CopiesOK
<1> QED
  BY <1>1, <1>2, <1>3
     DEF Coherent, MemoUsable, LastInv, DoneInv, OpInv, ArmInv, InOp, BridgeInv,
         CallInv, ReloadInv, FastInv

\* The epilogue writes back the rest.
LEMMA EpilogueKeeps ==
    ASSUME Coherent, Epilogue
    PROVE  Coherent'
<1>1. /\ at = "exit" /\ at' = "done"
      /\ pc' = pc + acc /\ acc' = 0
      /\ file' = FlushedFile /\ dirty' = {}
      /\ sr' = FlushedSr /\ srDirty' = FALSE
      /\ UNCHANGED <<cached, srLoaded, memo, slot, rsr, word, gPc>>
      /\ UNCHANGED <<opPc, n, arm, path, right, last, wasDirty>>
  BY DEF Epilogue, place
<1>2. /\ file' = Reg
  BY <1>1 DEF FlushedFile, Coherent, ExitInv, TypeOK, CopiesOK
<1>3. sr' = SrPart
  BY <1>1 DEF FlushedSr, Coherent, ExitInv, SrKept
<1>4. pc' = gPc
  BY <1>1 DEF Coherent, ExitInv
<1>5. TypeOK'
  <2>1. PlaceOK' /\ CopiesOK'
    BY <1>1, <1>2, <1>3 DEF Coherent, TypeOK, PlaceOK, CopiesOK
  <2>2. NotesOK'
    BY <1>1 DEF Coherent, TypeOK, NotesOK
  <2>3. SumsOK'
    BY <1>1, <1>4 DEF Coherent, TypeOK, SumsOK
  <2> QED
    BY <2>1, <2>2, <2>3 DEF TypeOK
<1> QED
  BY <1>1, <1>2, <1>3, <1>4, <1>5
     DEF Coherent, MemoUsable, LastInv, DoneInv, OpInv, ExitInv, ArmInv, InOp,
         BridgeInv, CallInv, ReloadInv, FastInv

\* Every step of CarefulSpec keeps the invariant.
LEMMA StepKeeps ==
    ASSUME Coherent, [HostNext /\ MemoUsable']_vars
    PROVE  Coherent'
<1>1. ASSUME NEW cs \in SUBSET Reg, NEW load \in BOOLEAN, Dispatch(cs, load)
      PROVE  Coherent'
  BY <1>1, DispatchKeeps
<1>2. ASSUME NEW a \in Arm, Inline(a), MemoUsable' PROVE Coherent'
  BY <1>2, InlineKeeps
<1>3. ASSUME NEW a \in Arm, NEW way \in {"slow", "fast"}, StartBridge(a, way)
      PROVE  Coherent'
  BY <1>3, StartBridgeKeeps
<1>4. ASSUME NEW a \in Arm, NEW final \in BOOLEAN, StartHelper(a, final)
      PROVE  Coherent'
  BY <1>4, StartHelperKeeps
<1>5. CASE BridgeFlush
  BY <1>5, BridgeFlushKeeps
<1>6. CASE Call /\ MemoUsable'
  BY <1>6, CallKeeps
<1>7. CASE BridgeReload
  BY <1>7, BridgeReloadKeeps
<1>8. CASE FastPath
  BY <1>8, FastPathKeeps
<1>9. CASE HelperReload
  BY <1>9, HelperReloadKeeps
<1>10. CASE LastOp
  BY <1>10, LastOpKeeps
<1>11. CASE Epilogue
  BY <1>11, EpilogueKeeps
<1>12. CASE UNCHANGED vars
  BY <1>12 DEF vars, notes, place, copies, Coherent, TypeOK, PlaceOK, CopiesOK,
     NotesOK, SumsOK, MemoUsable, LastInv, DoneInv, OpInv, ExitInv, ArmInv,
     BridgeInv, CallInv, ReloadInv, FastInv, RegsKept, SrKept, Loaded, SlowSr
<1> QED
  BY <1>1, <1>2, <1>3, <1>4, <1>5, <1>6, <1>7, <1>8, <1>9, <1>10, <1>11, <1>12
     DEF HostNext

-----------------------------------------------------------------------------
\* In every reachable state each register, SR and the pc has its current copy
\* where the compiler's notes say it has.
THEOREM Coherence == CarefulSpec => []Coherent
<1>1. Init => Coherent
  BY InitCoherent
<1>2. Coherent /\ [HostNext /\ MemoUsable']_vars => Coherent'
  BY StepKeeps
<1> QED
  BY <1>1, <1>2, PTL DEF CarefulSpec

\* The compiler's notes and the copies keep their types.
THEOREM TypeCorrect == CarefulSpec => []TypeOK
<1>1. Coherent => TypeOK
  BY DEF Coherent
<1> QED
  BY <1>1, Coherence, PTL

\* When a block of codegen.c ends, on any path through it, m68k_cpu is as the
\* interpreter would have left it.
THEOREM BlocksInLockStep == CarefulSpec => []LockStep
<1>1. Coherent => LockStep
  BY DEF Coherent, DoneInv, LockStep
<1> QED
  BY <1>1, Coherence, PTL

\* Every helper that compiled code calls finds the guest's registers, flags
\* and pc in m68k_cpu.
THEOREM HelpersSeeGuest == CarefulSpec => []HelperSeesGuest
<1>1. Coherent => HelperSeesGuest
  <2> SUFFICES ASSUME Coherent, at = "call"
               PROVE  file = Reg /\ arm.uses \subseteq sr /\ pc = gPc
    BY DEF HelperSeesGuest
  <2>1. arm \in Arm /\ file = Reg /\ pc = gPc /\ SlowSr
    BY DEF Coherent, ArmInv, CallInv, InOp
  <2> QED
    BY <2>1, ArmFacts DEF SlowSr, MovesSr, Disciplined
<1> QED
  BY <1>1, Coherence, PTL

\* Inline code always reads the guest's registers and flags.
THEOREM OperandsAlwaysCurrent == CarefulSpec => []OperandsCurrent
<1>1. Coherent => OperandsCurrent
  BY DEF Coherent, OpInv, RegsKept, Loaded, OperandsCurrent, Visible, TypeOK,
         CopiesOK
<1> QED
  BY <1>1, Coherence, PTL

\* The code that runs is always that of the instruction the guest is at.
THEOREM RunsRightOp == CarefulSpec => []RunsGuestOp
<1>1. Coherent => RunsGuestOp
  BY DEF Coherent, OpInv, BridgeInv, CallInv, RunsGuestOp
<1> QED
  BY <1>1, Coherence, PTL

=============================================================================
