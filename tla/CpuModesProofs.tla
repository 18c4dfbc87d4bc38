--------------------------- MODULE CpuModesProofs ---------------------------
(***************************************************************************)
(* The processor's modes for stacks and programs of every size: each RTE   *)
(* finds the frame of the code it returns to, and a[7], usp and ssp        *)
(* implement two stack pointers.                                           *)
(*                                                                         *)
(* FramesSound is not inductive.  That no push reaches a frame needs the   *)
(* two stacks to stay apart, in whichever field their pointers are, and    *)
(* that sony_service, which checks nothing, finds room for what it pushes. *)
(***************************************************************************)
EXTENDS CpuModes, SequenceTheorems, TLAPS

Sps == [a7 : 0 .. SuperTop, usp : 0 .. SuperTop, ssp : 0 .. SuperTop]
Value == Sr \cup {Data} \cup [pc : Pc]
Frame == [at : Cell, sr : Sr, pc : Pc]

\* The two pointers in a register file p of a processor in mode m.
SuperOf(p, m) == IF m THEN p.a7 ELSE p.ssp
UserOf(p, m) == IF m THEN p.usp ELSE p.a7

\* Frames fs lie in memory m, nested, at or above the pointer top.
FramesAt(fs, m, top) ==
    /\ \A i \in 1 .. Len(fs) :
           /\ top <= fs[i].at /\ fs[i].at + 2 <= SuperTop
           /\ m[fs[i].at] = fs[i].sr /\ m[fs[i].at + 1] = [pc |-> fs[i].pc]
    /\ \A i, j \in 1 .. Len(fs) : i < j => fs[j].at + 2 <= fs[i].at

\* The stacks stay apart, and the mount calls that are due have room.
StacksApart ==
    /\ SuperSp \in UserTop .. SuperTop /\ UserSp \in 0 .. UserTop /\ an \in 0 .. UserTop
    /\ due # 0 => SuperSp - 3 * due >= UserTop

Inv == TypeOK /\ StacksApart /\ FramesAt(frames, mem, SuperSp)

-----------------------------------------------------------------------------
(* Operators *)

\* The assumptions on the constants, in the form the proofs use.
LEMMA ConstantFacts ==
    /\ UserTop \in Nat /\ SuperTop \in Nat /\ UserTop > 0 /\ UserTop < SuperTop
    /\ MaxPc \in Nat /\ Masks \subseteq 0 .. 7 /\ 7 \in Masks
    /\ Drives \in Nat /\ Spared \in Nat
    /\ Vector \in Pc /\ Callback \in Pc /\ (pc \in Pc => AfterPc \in Pc)
BY StackAssumption DEF Spared, Vector, Callback, AfterPc, Pc

\* The exchange of a[7] leaves both pointers what they were, whichever mode is left
\* and whichever is entered.
LEMMA SyncKeepsPointers ==
    ASSUME NEW p \in Sps, NEW was \in BOOLEAN, NEW now \in BOOLEAN
    PROVE  /\ SyncSp(p, was, now) \in Sps
           /\ SuperOf(SyncSp(p, was, now), now) = SuperOf(p, was)
           /\ UserOf(SyncSp(p, was, now), now) = UserOf(p, was)
<1>1. CASE was = now
  BY <1>1 DEF SyncSp
<1>2. CASE was # now /\ was
  BY <1>2 DEF SyncSp, SuperOf, UserOf, Sps
<1>3. CASE was # now /\ ~was
  BY <1>3 DEF SyncSp, SuperOf, UserOf, Sps
<1> QED BY <1>1, <1>2, <1>3

\* The frames stay where memory and pointer change only below them.
LEMMA FramesStay ==
    ASSUME NEW fs \in Seq(Frame), NEW m, NEW n, NEW top, NEW low \in Int, FramesAt(fs, m, top),
           \A i \in 1 .. Len(fs) : low <= fs[i].at,
           \A c \in Cell : low <= c => n[c] = m[c]
    PROVE  FramesAt(fs, n, low)
<1>1. ASSUME NEW i \in 1 .. Len(fs)
      PROVE  n[fs[i].at] = m[fs[i].at] /\ n[fs[i].at + 1] = m[fs[i].at + 1]
  <2>1. fs[i] \in Frame
    BY ElementOfSeq
  <2>2. fs[i].at \in Cell /\ fs[i].at \in Int /\ fs[i].at + 2 <= SuperTop /\ low <= fs[i].at
    <3>1. fs[i].at \in Cell
      BY <2>1 DEF Frame
    <3>2. fs[i].at \in Int
      BY <3>1 DEF Cell
    <3> QED BY <3>1, <3>2 DEF FramesAt
  <2>3. fs[i].at + 1 \in Cell /\ low <= fs[i].at + 1
    BY <2>1, <2>2, ConstantFacts DEF Cell
  <2> QED BY <2>2, <2>3
<1> QED BY <1>1 DEF FramesAt

\* A frame pushed below the others is nested in them.
LEMMA FramePushed ==
    ASSUME NEW fs \in Seq(Frame), NEW m, NEW n, NEW top \in Int, NEW low \in Int, FramesAt(fs, m, top),
           low <= top - 2, top <= SuperTop, NEW f \in Frame, f.at = top - 2,
           n[top - 2] = f.sr, n[top - 1] = [pc |-> f.pc],
           \A c \in Cell : top <= c => n[c] = m[c]
    PROVE  Append(fs, f) \in Seq(Frame) /\ FramesAt(Append(fs, f), n, low)
<1> DEFINE gs == Append(fs, f)
           l == Len(fs)
<1>1. /\ gs \in Seq(Frame) /\ Len(gs) = l + 1 /\ l \in Nat /\ gs[l + 1] = f
      /\ \A i \in 1 .. l : gs[i] = fs[i]
  BY AppendProperties, LenProperties
<1>2. \A i \in 1 .. l : top <= fs[i].at
  BY DEF FramesAt
<1>3. FramesAt(fs, n, top)
  BY <1>2, FramesStay
<1> HIDE DEF gs
<1>4. ASSUME NEW i \in 1 .. Len(gs)
      PROVE  /\ low <= gs[i].at /\ gs[i].at + 2 <= SuperTop
             /\ n[gs[i].at] = gs[i].sr /\ n[gs[i].at + 1] = [pc |-> gs[i].pc]
  <2>1. CASE i = l + 1
    <3>1. gs[i] = f /\ top - 2 + 1 = top - 1 /\ top - 2 + 2 = top
      BY <2>1, <1>1
    <3> QED BY <3>1
  <2>2. CASE i \in 1 .. l
    <3>1. gs[i] = fs[i] /\ fs[i] \in Frame
      BY <2>2, <1>1, ElementOfSeq
    <3>2. fs[i].at \in Int
      BY <3>1 DEF Frame, Cell
    <3> QED BY <2>2, <3>1, <3>2, <1>3 DEF FramesAt
  <2> QED BY <2>1, <2>2, <1>1
<1>5. ASSUME NEW i \in 1 .. Len(gs), NEW j \in 1 .. Len(gs), i < j
      PROVE  gs[j].at + 2 <= gs[i].at
  <2>1. i \in 1 .. l /\ gs[i] = fs[i]
    BY <1>1, <1>5
  <2>2. CASE j = l + 1
    <3>1. gs[j].at + 2 = top
      BY <2>2, <1>1
    <3> QED BY <3>1, <2>1, <1>2
  <2>3. CASE j \in 1 .. l
    <3>1. gs[j] = fs[j]
      BY <2>3, <1>1
    <3> QED BY <3>1, <2>1, <2>3, <1>5 DEF FramesAt
  <2> QED BY <2>2, <2>3, <1>1
<1> QED BY <1>1, <1>4, <1>5 DEF FramesAt, gs

\* Without its last frame the stack of frames is as it was before it.
LEMMA FramePopped ==
    ASSUME NEW fs \in Seq(Frame), NEW m, NEW n, NEW top \in Int, FramesAt(fs, m, top),
           fs # <<>>, fs[Len(fs)].at = top,
           \A c \in Cell : top + 2 <= c => n[c] = m[c]
    PROVE  LET gs == SubSeq(fs, 1, Len(fs) - 1)
           IN  gs \in Seq(Frame) /\ FramesAt(gs, n, top + 2)
<1> DEFINE gs == SubSeq(fs, 1, Len(fs) - 1)
           l == Len(fs)
<1>1. l \in Nat /\ l > 0
  BY LenProperties, EmptySeq
<1>2. \A i \in 1 .. l - 1 : fs[i] \in Frame
  BY <1>1, ElementOfSeq
<1>3. /\ gs \in Seq(Frame) /\ Len(gs) = IF 1 <= l - 1 THEN (l - 1) - 1 + 1 ELSE 0
      /\ \A i \in 1 .. (l - 1) - 1 + 1 : gs[i] = fs[1 + i - 1]
  <2>1. 1 \in Int /\ l - 1 \in Int
    BY <1>1
  <2> QED BY <1>2, <2>1, SubSeqProperties
<1> HIDE DEF gs
<1>4. Len(gs) = l - 1
  <2> HIDE DEF l
  <2> QED BY <1>1, <1>3
<1>5. ASSUME NEW i \in 1 .. l - 1 PROVE gs[i] = fs[i]
  <2>1. i \in 1 .. (l - 1) - 1 + 1 /\ 1 + i - 1 = i
    BY <1>1
  <2> QED BY <1>3, <2>1
<1>6. FramesAt(gs, m, top)
  BY <1>1, <1>4, <1>5 DEF FramesAt
<1>7. \A i \in 1 .. Len(gs) : top + 2 <= gs[i].at
  BY <1>1, <1>4, <1>5 DEF FramesAt
<1>8. FramesAt(gs, n, top + 2)
  BY <1>3, <1>6, <1>7, FramesStay
<1> QED BY <1>3, <1>8 DEF gs

-----------------------------------------------------------------------------
(* What the invariant says of the state *)

\* The types and bounds, in the form the proofs use.
LEMMA InvFacts ==
    ASSUME Inv
    PROVE  /\ sps \in Sps /\ sr \in Sr /\ sr.s \in BOOLEAN /\ sr.mask \in Masks \cup {1}
           /\ pc \in Pc /\ AfterPc \in Pc
           /\ mem \in [Cell -> Value] /\ frames \in Seq(Frame)
           /\ SuperSp = SuperOf(sps, sr.s) /\ UserSp = UserOf(sps, sr.s)
           /\ SuperSp \in UserTop .. SuperTop /\ UserSp \in 0 .. UserTop /\ an \in 0 .. UserTop
           /\ SuperSp \in Int /\ UserSp \in Int
           /\ sr.s => sps.a7 = SuperSp
           /\ ~sr.s => sps.a7 = UserSp
           /\ due \in 0 .. Drives /\ due \in Nat
           /\ opened \in BOOLEAN /\ stopped \in BOOLEAN /\ halted \in BOOLEAN
<1>1. /\ sps \in Sps /\ sr \in Sr /\ pc \in Pc /\ mem \in [Cell -> Value] /\ frames \in Seq(Frame)
      /\ due \in 0 .. Drives /\ opened \in BOOLEAN /\ stopped \in BOOLEAN
      /\ halted \in BOOLEAN
  BY DEF Inv, TypeOK, Sps, Value, Frame
<1>2. sr.s \in BOOLEAN /\ sr.mask \in Masks \cup {1}
  BY <1>1 DEF Sr
<1>3. SuperSp = SuperOf(sps, sr.s) /\ UserSp = UserOf(sps, sr.s)
  BY DEF SuperSp, UserSp, SuperOf, UserOf
<1>4. (sr.s => sps.a7 = SuperSp) /\ (~sr.s => sps.a7 = UserSp)
  BY DEF SuperSp, UserSp
<1>5. /\ SuperSp \in UserTop .. SuperTop /\ UserSp \in 0 .. UserTop /\ an \in 0 .. UserTop
      /\ SuperSp \in Int /\ UserSp \in Int
  BY ConstantFacts DEF Inv, StacksApart
<1>6. AfterPc \in Pc /\ due \in Nat
  BY <1>1, ConstantFacts
<1> QED BY <1>1, <1>2, <1>3, <1>4, <1>5, <1>6

\* The pieces of the invariant after a step, put together.
LEMMA InvFrom ==
    ASSUME sps' \in Sps, sr' \in Sr, pc' \in Pc, an' \in 0 .. UserTop, mem' \in [Cell -> Value],
           due' \in 0 .. Drives, opened' \in BOOLEAN, stopped' \in BOOLEAN,
           halted' \in BOOLEAN, frames' \in Seq(Frame),
           SuperSp' \in UserTop .. SuperTop, UserSp' \in 0 .. UserTop,
           due' # 0 => SuperSp' - 3 * due' >= UserTop,
           FramesAt(frames', mem', SuperSp')
    PROVE  Inv'
<1>1. an' \in 0 .. SuperTop
  BY ConstantFacts
<1>2. TypeOK'
  BY <1>1 DEF TypeOK, Sps, Value, Frame
<1>3. StacksApart'
  BY DEF StacksApart
<1>4. FramesAt(frames, mem, SuperSp)'
  BY DEF FramesAt
<1> QED BY <1>2, <1>3, <1>4 DEF Inv

\* m68k_reset.
LEMMA InitInv == Init => Inv
<1> SUFFICES ASSUME Init PROVE Inv
  OBVIOUS
<1>1. /\ sr = [s |-> TRUE, mask |-> 7] /\ sps = [a7 |-> SuperTop, usp |-> 0, ssp |-> SuperTop]
      /\ pc = Vector /\ an = 0 /\ mem = [c \in Cell |-> Data] /\ frames = <<>>
      /\ opened = FALSE /\ due = 0 /\ stopped = FALSE /\ halted = FALSE
  BY DEF Init
<1>2. sr \in Sr /\ sr.s /\ sps \in Sps /\ pc \in Pc /\ an \in 0 .. SuperTop
  BY <1>1, ConstantFacts DEF Sr, Sps
<1>3. mem \in [Cell -> Value] /\ frames \in Seq(Frame)
  BY <1>1 DEF Value
<1>4. TypeOK
  <2>1. due \in 0 .. Drives
    BY <1>1, ConstantFacts
  <2>2. {opened, stopped, halted} \subseteq BOOLEAN
    BY <1>1
  <2> QED BY <1>1, <1>2, <1>3, <2>1, <2>2 DEF TypeOK, Sps, Value, Frame
<1>5. SuperSp = SuperTop /\ UserSp = 0
  BY <1>1, <1>2 DEF SuperSp, UserSp
<1>6. StacksApart
  BY <1>1, <1>5, ConstantFacts DEF StacksApart
<1>7. FramesAt(frames, mem, SuperSp)
  BY <1>1 DEF FramesAt
<1> QED BY <1>4, <1>6, <1>7 DEF Inv

-----------------------------------------------------------------------------
(* What the actions do, in terms of the two pointers *)

\* A frame, and an argument below it, on the supervisor's stack.
Enters(mask, ret, args) ==
    /\ sr' = [s |-> TRUE, mask |-> mask] /\ sps' \in Sps
    /\ SuperSp' = SuperSp - 2 - args /\ UserSp' = UserSp
    /\ mem' = LET f == [mem EXCEPT ![SuperSp - 1] = [pc |-> ret], ![SuperSp - 2] = sr]
              IN  IF args = 0 THEN f ELSE [f EXCEPT ![SuperSp - 3] = Data]
    /\ frames' = Append(frames, [at |-> SuperSp - 2, sr |-> sr, pc |-> ret])
    /\ UNCHANGED <<an, opened, halted>>

\* The registers after the entry to supervisor mode and n pushes.
LEMMA EnteredFacts ==
    ASSUME Inv, NEW n \in 2 .. 3, SuperSp - n >= UserTop, sr'.s = TRUE,
           sps' = [Entered(sps, sr.s) EXCEPT !.a7 = @ - n]
    PROVE  /\ Entered(sps, sr.s).a7 = SuperSp /\ sps' \in Sps
           /\ SuperSp' = SuperSp - n /\ UserSp' = UserSp
<1> DEFINE p == Entered(sps, sr.s)
<1>1. p \in Sps /\ SuperOf(p, TRUE) = SuperSp /\ UserOf(p, TRUE) = UserSp
  BY InvFacts, SyncKeepsPointers DEF Entered
<1>2. p.a7 = SuperSp /\ p.usp = UserSp
  BY <1>1 DEF SuperOf, UserOf
<1> HIDE DEF p
<1>3. SuperSp - n \in 0 .. SuperTop
  BY InvFacts, ConstantFacts
<1>4. sps' = [p EXCEPT !.a7 = SuperSp - n]
  BY <1>2 DEF p
<1>5. sps' \in Sps /\ sps'.a7 = SuperSp - n /\ sps'.usp = UserSp
  BY <1>1, <1>2, <1>3, <1>4 DEF Sps
<1>6. SuperSp' = sps'.a7 /\ UserSp' = sps'.usp
  BY DEF SuperSp, UserSp
<1> QED BY <1>2, <1>5, <1>6 DEF p

\* A program counter that an exception may push.
Return == {pc, AfterPc}

\* m68k_exception enters supervisor mode.
LEMMA ExceptionEnters ==
    ASSUME Inv, Exception
    PROVE  /\ SuperSp - 2 >= UserTop
           /\ \E ret \in Return : Enters(sr.mask, ret, 0)
           /\ pc' = Vector /\ due' = due /\ stopped' = stopped
<1> DEFINE p == Entered(sps, sr.s)
<1>1. PICK ret \in Return :
          /\ mem' = [mem EXCEPT ![p.a7 - 1] = [pc |-> ret], ![p.a7 - 2] = sr]
          /\ sps' = [p EXCEPT !.a7 = @ - 2]
          /\ frames' = Append(frames, [at |-> p.a7 - 2, sr |-> sr, pc |-> ret])
  BY DEF Exception, PushFrame, Return
<1>2. /\ Room(p, TRUE, 2 + Spared) /\ sr' = [sr EXCEPT !.s = TRUE] /\ pc' = Vector
      /\ an' = an /\ opened' = opened /\ due' = due /\ stopped' = stopped /\ halted' = halted
  BY DEF Exception
<1>3. p \in Sps /\ p.a7 = SuperSp
  BY InvFacts, SyncKeepsPointers DEF Entered, SuperOf
<1>4. SuperSp - 2 >= UserTop
  BY <1>2, <1>3, InvFacts, ConstantFacts DEF Room, Bottom
<1>5. sr' = [s |-> TRUE, mask |-> sr.mask] /\ sr'.s = TRUE
  BY <1>2, InvFacts DEF Sr
<1>6. sps' \in Sps /\ SuperSp' = SuperSp - 2 /\ UserSp' = UserSp
  BY <1>1, <1>4, <1>5, EnteredFacts
<1>7. SuperSp - 2 = SuperSp - 2 - 0
  BY InvFacts
<1> HIDE DEF p
<1>8. Enters(sr.mask, ret, 0)
  BY <1>1, <1>2, <1>3, <1>5, <1>6, <1>7 DEF Enters
<1> QED BY <1>2, <1>4, <1>8

\* m68k_poll_interrupts enters supervisor mode and ends a STOP; it leaves the mount
\* calls that are due their room.
LEMMA InterruptEnters ==
    ASSUME Inv, Interrupt
    PROVE  /\ SuperSp - 2 >= UserTop /\ SuperSp - 2 - 3 * due >= UserTop
           /\ Enters(1, pc, 0) /\ ~halted
           /\ pc' = Vector /\ due' = due /\ stopped' = FALSE
<1> DEFINE p == Entered(sps, sr.s)
<1>1. /\ mem' = [mem EXCEPT ![p.a7 - 1] = [pc |-> pc], ![p.a7 - 2] = sr]
      /\ sps' = [p EXCEPT !.a7 = @ - 2]
      /\ frames' = Append(frames, [at |-> p.a7 - 2, sr |-> sr, pc |-> pc])
      /\ Room(p, TRUE, 2 + 3 * due + Spared)
      /\ sr' = [s |-> TRUE, mask |-> 1] /\ pc' = Vector
      /\ an' = an /\ opened' = opened /\ due' = due /\ stopped' = FALSE
      /\ halted' = halted /\ ~halted
  BY DEF Interrupt, PollInterrupts, PushFrame
<1>2. p \in Sps /\ p.a7 = SuperSp
  BY InvFacts, SyncKeepsPointers DEF Entered, SuperOf
<1>3. SuperSp - 2 >= UserTop /\ SuperSp - 2 - 3 * due >= UserTop
  <2>1. SuperSp - (2 + 3 * due + Spared) >= UserTop
    BY <1>1, <1>2 DEF Room, Bottom
  <2>2. SuperSp \in Int /\ due \in Nat /\ Spared \in Nat /\ UserTop \in Nat
    BY InvFacts, ConstantFacts
  <2> HIDE DEF p
  <2> QED BY <2>1, <2>2
<1>4. sps' \in Sps /\ SuperSp' = SuperSp - 2 /\ UserSp' = UserSp
  BY <1>1, <1>3, EnteredFacts
<1>5. SuperSp - 2 = SuperSp - 2 - 0
  BY InvFacts
<1> HIDE DEF p
<1>6. Enters(1, pc, 0)
  BY <1>1, <1>2, <1>4, <1>5 DEF Enters
<1> QED BY <1>1, <1>3, <1>6

\* sony_service does the same, with an argument, for one of the drives that are due.
LEMMA MountEnters ==
    ASSUME Inv, Mount
    PROVE  /\ SuperSp - 3 >= UserTop /\ Enters(sr.mask, pc, 1) /\ ~halted
           /\ pc' = Callback /\ due # 0 /\ due' = due - 1 /\ stopped' = stopped
<1> DEFINE p == Entered(sps, sr.s)
<1>1. /\ due > 0 /\ ~halted /\ sr' = [sr EXCEPT !.s = TRUE]
      /\ mem' = [mem EXCEPT ![p.a7 - 1] = [pc |-> pc], ![p.a7 - 2] = sr, ![p.a7 - 3] = Data]
      /\ sps' = [p EXCEPT !.a7 = @ - 3]
      /\ frames' = Append(frames, [at |-> p.a7 - 2, sr |-> sr, pc |-> pc])
      /\ pc' = Callback /\ due' = due - 1 /\ an' = an /\ opened' = opened
      /\ stopped' = stopped /\ halted' = halted
  BY DEF Mount, SonyService
<1>2. p \in Sps /\ p.a7 = SuperSp
  BY InvFacts, SyncKeepsPointers DEF Entered, SuperOf
<1>3. SuperSp - 3 >= UserTop
  BY <1>1, InvFacts, ConstantFacts DEF Inv, StacksApart
<1>4. sr' = [s |-> TRUE, mask |-> sr.mask] /\ sr'.s = TRUE
  BY <1>1, InvFacts DEF Sr
<1>5. sps' \in Sps /\ SuperSp' = SuperSp - 3 /\ UserSp' = UserSp
  BY <1>1, <1>3, <1>4, EnteredFacts
<1>6. SuperSp - 3 = SuperSp - 2 - 1
  BY InvFacts
<1> HIDE DEF p
<1>7. Enters(sr.mask, pc, 1)
  <2>1. mem' = [[mem EXCEPT ![SuperSp - 1] = [pc |-> pc], ![SuperSp - 2] = sr]
                   EXCEPT ![SuperSp - 3] = Data]
    BY <1>1, <1>2
  <2>2. mem' = LET g == [mem EXCEPT ![SuperSp - 1] = [pc |-> pc], ![SuperSp - 2] = sr]
               IN  IF 1 = 0 THEN g ELSE [g EXCEPT ![SuperSp - 3] = Data]
    BY <2>1
  <2>3. SuperSp' = SuperSp - 2 - 1
    BY <1>5, <1>6
  <2>4. frames' = Append(frames, [at |-> SuperSp - 2, sr |-> sr, pc |-> pc])
    BY <1>1, <1>2
  <2> QED BY <2>2, <2>3, <2>4, <1>1, <1>4, <1>5 DEF Enters
<1> QED BY <1>1, <1>3, <1>7

\* An entry with room for it keeps the invariant.
LEMMA EntersKeeps ==
    ASSUME Inv, NEW mask \in Masks \cup {1}, NEW ret \in Pc, NEW args \in 0 .. 1,
           SuperSp - 2 - args >= UserTop, Enters(mask, ret, args), pc' \in Pc,
           due' \in 0 .. Drives, due' # 0 => SuperSp - 2 - args - 3 * due' >= UserTop,
           stopped' \in BOOLEAN
    PROVE  Inv'
<1> DEFINE f == [at |-> SuperSp - 2, sr |-> sr, pc |-> ret]
           top == SuperSp
<1>1. /\ sps \in Sps /\ sr \in Sr /\ mem \in [Cell -> Value] /\ frames \in Seq(Frame)
      /\ SuperSp \in UserTop .. SuperTop /\ UserSp \in 0 .. UserTop /\ an \in 0 .. UserTop
      /\ SuperSp \in Int /\ halted \in BOOLEAN /\ opened \in BOOLEAN
  BY InvFacts
<1>2. top - 1 \in Cell /\ top - 2 \in Cell /\ (args = 1 => top - 3 \in Cell)
  BY <1>1, ConstantFacts DEF Cell
<1>3. f \in Frame /\ f.at = top - 2 /\ f.sr = sr /\ f.pc = ret
  BY <1>1, <1>2 DEF Frame
<1>4. sr \in Value /\ [pc |-> ret] \in Value /\ Data \in Value
  BY <1>1 DEF Value
<1>5. /\ mem' \in [Cell -> Value] /\ mem'[top - 2] = sr /\ mem'[top - 1] = [pc |-> ret]
      /\ \A c \in Cell : top <= c => mem'[c] = mem[c]
  <2> DEFINE g == [mem EXCEPT ![top - 1] = [pc |-> ret], ![top - 2] = sr]
             h == [g EXCEPT ![top - 3] = Data]
  <2>1. /\ g \in [Cell -> Value] /\ g[top - 2] = sr /\ g[top - 1] = [pc |-> ret]
        /\ \A c \in Cell : top <= c => g[c] = mem[c]
    BY <1>1, <1>2, <1>4 DEF Cell
  <2>2. mem' = IF args = 0 THEN g ELSE h
    BY DEF Enters
  <2> HIDE DEF g
  <2>3. CASE args = 0
    BY <2>1, <2>2, <2>3
  <2>4. CASE args = 1
    <3>1. top - 3 \in Cell /\ top - 3 # top - 2 /\ top - 3 # top - 1
      BY <2>4, <1>1, <1>2
    <3>2. /\ h \in [Cell -> Value] /\ h[top - 2] = sr /\ h[top - 1] = [pc |-> ret]
          /\ \A c \in Cell : c # top - 3 => h[c] = g[c]
      BY <2>1, <3>1, <1>2, <1>4
    <3>3. \A c \in Cell : top <= c => c # top - 3
      BY <1>1 DEF Cell
    <3> QED BY <2>1, <2>2, <2>4, <3>2, <3>3
  <2> QED BY <2>3, <2>4
<1>6. frames' = Append(frames, f) /\ SuperSp' = SuperSp - 2 - args /\ UserSp' = UserSp
  BY DEF Enters
<1>7. SuperSp - 2 - args \in Int /\ SuperSp - 2 - args <= top - 2 /\ top <= SuperTop
  BY <1>1, ConstantFacts
<1>8. frames' \in Seq(Frame) /\ FramesAt(frames', mem', SuperSp')
  <2>1. FramesAt(frames, mem, top)
    BY DEF Inv
  <2> DEFINE low == SuperSp - 2 - args
             n == mem'
  <2>2. top \in Int /\ low \in Int /\ low <= top - 2 /\ top <= SuperTop
    BY <1>1, <1>7
  <2>3. /\ n[top - 2] = f.sr /\ n[top - 1] = [pc |-> f.pc]
        /\ \A c \in Cell : top <= c => n[c] = mem[c]
    BY <1>3, <1>5
  <2> HIDE DEF f, top, low, n
  <2>4. Append(frames, f) \in Seq(Frame) /\ FramesAt(Append(frames, f), n, low)
    BY <2>1, <2>2, <2>3, <1>1, <1>3, FramePushed
  <2> QED BY <2>4, <1>6 DEF low, n
<1>9. sr' \in Sr /\ sps' \in Sps /\ an' = an /\ opened' = opened /\ halted' = halted
  BY DEF Enters, Sr
<1>10. SuperSp' \in UserTop .. SuperTop
  BY <1>1, <1>6, <1>7, ConstantFacts
<1> QED BY <1>1, <1>5, <1>6, <1>8, <1>9, <1>10, InvFrom

-----------------------------------------------------------------------------
(* Instructions *)

\* MOVE SR,-(A7) in either mode.
LEMMA PushFacts ==
    ASSUME Inv, Push
    PROVE  /\ sps' \in Sps
           /\ sr.s => SuperSp' = SuperSp - 1 /\ UserSp' = UserSp
           /\ ~sr.s => SuperSp' = SuperSp /\ UserSp' = UserSp - 1
           /\ sps.a7 - 1 >= Bottom(sr.s)
<1>1. sps' = [sps EXCEPT !.a7 = sps.a7 - 1] /\ sr' = sr
      /\ Room(sps, sr.s, IF sr.s THEN 1 + Spared ELSE 1)
  BY DEF Push
<1>2. Bottom(sr.s) \in Nat
  BY ConstantFacts DEF Bottom
<1>3. sps.a7 \in 0 .. SuperTop /\ sps.a7 - 1 >= Bottom(sr.s)
  <2>1. sps.a7 \in 0 .. SuperTop
    BY InvFacts DEF Sps
  <2>2. sps.a7 - (IF sr.s THEN 1 + Spared ELSE 1) >= Bottom(sr.s)
    BY <1>1 DEF Room
  <2>3. Spared \in Nat /\ SuperTop \in Nat
    BY ConstantFacts
  <2> QED BY <1>2, <2>1, <2>2, <2>3
<1>4. sps.a7 - 1 \in 0 .. SuperTop
  BY <1>2, <1>3, ConstantFacts
<1>5. sps' \in Sps /\ sps'.a7 = sps.a7 - 1 /\ sps'.usp = sps.usp /\ sps'.ssp = sps.ssp
  BY <1>1, <1>4, InvFacts DEF Sps
<1>6. CASE sr.s
  BY <1>1, <1>3, <1>5, <1>6 DEF SuperSp, UserSp
<1>7. CASE ~sr.s
  BY <1>1, <1>3, <1>5, <1>7 DEF SuperSp, UserSp
<1> QED BY <1>3, <1>6, <1>7

\* A push does not reach a frame: the supervisor's is below them, and the user's
\* stack ends below the supervisor's.
LEMMA PushKeeps ==
    ASSUME Inv, due = 0, Push PROVE Inv'
<1>1. /\ mem' = [mem EXCEPT ![sps.a7 - 1] = sr] /\ sr' = sr /\ pc' = AfterPc
      /\ an' = an /\ opened' = opened /\ due' = due /\ stopped' = stopped
      /\ halted' = halted /\ frames' = frames
  BY DEF Push
<1>2. /\ SuperSp' \in UserTop .. SuperTop /\ UserSp' \in 0 .. UserTop /\ SuperSp' <= SuperSp
      /\ SuperSp' \in Int /\ sps.a7 - 1 < SuperSp /\ sps.a7 - 1 \in Cell
  <2>1. CASE sr.s
    <3>1. /\ SuperSp' = SuperSp - 1 /\ UserSp' = UserSp /\ sps.a7 = SuperSp
          /\ SuperSp - 1 >= UserTop
      BY <2>1, PushFacts, InvFacts DEF Bottom
    <3>2. SuperSp \in UserTop .. SuperTop /\ UserSp \in 0 .. UserTop
      BY InvFacts
    <3>3. SuperSp' \in UserTop .. SuperTop /\ UserSp' \in 0 .. UserTop /\ SuperSp' \in Int
      BY <3>1, <3>2, ConstantFacts
    <3>4. SuperSp - 1 < SuperSp /\ SuperSp - 1 \in Cell /\ SuperSp - 1 <= SuperSp
      BY <3>1, <3>2, ConstantFacts DEF Cell
    <3> QED BY <3>1, <3>3, <3>4
  <2>2. CASE ~sr.s
    <3>1. SuperSp' = SuperSp /\ UserSp' = UserSp - 1 /\ sps.a7 = UserSp /\ UserSp - 1 >= 0
      BY <2>2, PushFacts, InvFacts DEF Bottom
    <3>2. SuperSp \in UserTop .. SuperTop /\ UserSp \in 0 .. UserTop
      BY InvFacts
    <3>3. SuperSp' \in UserTop .. SuperTop /\ UserSp' \in 0 .. UserTop
      BY <3>1, <3>2, ConstantFacts
    <3>4. UserSp - 1 < SuperSp /\ UserSp - 1 \in Cell /\ SuperSp \in Int
      BY <3>1, <3>2, ConstantFacts DEF Cell
    <3> QED BY <3>1, <3>3, <3>4
  <2> QED BY <2>1, <2>2
<1>3. mem' \in [Cell -> Value] /\ \A c \in Cell : SuperSp <= c => mem'[c] = mem[c]
  <2>1. sr \in Value
    BY InvFacts DEF Value
  <2> QED BY <2>1, <1>1, <1>2, InvFacts DEF Cell
<1>4. FramesAt(frames, mem', SuperSp')
  <2> DEFINE n == mem'
             low == SuperSp
             now == SuperSp'
  <2>1. low \in Int /\ now \in Int /\ now <= low /\ frames \in Seq(Frame)
    BY <1>2, InvFacts
  <2>2. FramesAt(frames, mem, low) /\ \A c \in Cell : low <= c => n[c] = mem[c]
    BY <1>3 DEF Inv
  <2>3. \A j \in 1 .. Len(frames) : low <= frames[j].at /\ frames[j].at \in Int
    <3> TAKE j \in 1 .. Len(frames)
    <3>1. frames[j] \in Frame
      BY <2>1, ElementOfSeq
    <3>2. frames[j].at \in Int
      BY <3>1 DEF Frame, Cell
    <3> QED BY <2>2, <3>2 DEF FramesAt
  <2> HIDE DEF n, low, now
  <2>4. FramesAt(frames, n, low)
    BY <2>1, <2>2, <2>3, FramesStay
  <2>5. FramesAt(frames, n, now)
    BY <2>1, <2>3, <2>4 DEF FramesAt
  <2> QED BY <2>5 DEF n, now
<1> QED BY <1>1, <1>2, <1>3, <1>4, PushFacts, InvFacts, InvFrom

\* The pointers after n cells were popped and the status register was written.
LEMMA PopFacts ==
    ASSUME Inv, NEW n \in 1 .. 2, sr' \in Sr,
           sps.a7 + n <= IF sr.s THEN SuperTop ELSE UserTop,
           sps' = SyncSp([sps EXCEPT !.a7 = @ + n], sr.s, sr'.s)
    PROVE  /\ sps' \in Sps
           /\ sr.s => SuperSp' = SuperSp + n /\ UserSp' = UserSp
           /\ ~sr.s => SuperSp' = SuperSp /\ UserSp' = UserSp + n
<1> DEFINE q == [sps EXCEPT !.a7 = sps.a7 + n]
<1>1. sr'.s \in BOOLEAN /\ sr.s \in BOOLEAN
  BY InvFacts DEF Sr
<1>2. sps.a7 \in 0 .. SuperTop
  BY InvFacts DEF Sps
<1>3. sps.a7 + n \in 0 .. SuperTop
  <2>1. CASE sr.s
    BY <2>1, <1>2, ConstantFacts
  <2>2. CASE ~sr.s
    BY <2>2, <1>2, ConstantFacts
  <2> QED BY <2>1, <2>2
<1>4. q \in Sps /\ q.a7 = sps.a7 + n /\ q.usp = sps.usp /\ q.ssp = sps.ssp
  BY <1>3, InvFacts DEF Sps
<1>5. sps' = SyncSp(q, sr.s, sr'.s)
  OBVIOUS
<1> HIDE DEF q
<1>6. /\ sps' \in Sps /\ SuperOf(sps', sr'.s) = SuperOf(q, sr.s)
      /\ UserOf(sps', sr'.s) = UserOf(q, sr.s)
  BY <1>1, <1>4, <1>5, SyncKeepsPointers
<1>7. SuperSp' = SuperOf(q, sr.s) /\ UserSp' = UserOf(q, sr.s)
  BY <1>6 DEF SuperSp, UserSp, SuperOf, UserOf
<1>8. CASE sr.s
  BY <1>4, <1>6, <1>7, <1>8, InvFacts DEF SuperOf, UserOf
<1>9. CASE ~sr.s
  BY <1>4, <1>6, <1>7, <1>9, InvFacts DEF SuperOf, UserOf
<1> QED BY <1>8, <1>9

\* The last frame is the lowest, and the disciplined program does not pop into it.
LEMMA TopFrameIsLowest ==
    ASSUME Inv, frames # <<>>
    PROVE  /\ Len(frames) \in 1 .. Len(frames) /\ TopFrame \in Frame
           /\ TopFrame.at \in Int /\ SuperSp <= TopFrame.at /\ TopFrame.at + 2 <= SuperTop
           /\ mem[TopFrame.at] = TopFrame.sr /\ mem[TopFrame.at + 1] = [pc |-> TopFrame.pc]
           /\ \A i \in 1 .. Len(frames) : TopFrame.at <= frames[i].at
<1>1. frames \in Seq(Frame) /\ Len(frames) \in Nat /\ Len(frames) > 0
  BY InvFacts, LenProperties, EmptySeq
<1>2. TopFrame \in Frame
  BY <1>1, ElementOfSeq DEF TopFrame
<1>3. TopFrame.at \in Int
  BY <1>2 DEF Frame, Cell
<1>4. ASSUME NEW i \in 1 .. Len(frames) PROVE TopFrame.at <= frames[i].at
  <2>1. frames[i] \in Frame
    BY <1>1, ElementOfSeq
  <2>2. frames[i].at \in Int
    BY <2>1 DEF Frame, Cell
  <2>3. CASE i = Len(frames)
    BY <2>3, <1>3 DEF TopFrame
  <2>4. CASE i < Len(frames)
    BY <2>2, <2>4, <1>1, <1>3 DEF Inv, FramesAt, TopFrame
  <2> QED BY <2>3, <2>4, <1>1
<1> QED BY <1>1, <1>2, <1>3, <1>4 DEF Inv, FramesAt, TopFrame

\* Room to pop one cell, and what that leaves of memory.
LEMMA HoldsFacts ==
    ASSUME Inv, Holds(1)
    PROVE  /\ sps.a7 \in Cell /\ sps.a7 + 1 <= IF sr.s THEN SuperTop ELSE UserTop
           /\ sr.s => \A i \in 1 .. Len(frames) : SuperSp + 1 <= frames[i].at
           /\ mem[sps.a7] \in Value
<1>1. sps.a7 \in Int /\ 0 <= sps.a7
  BY InvFacts, ConstantFacts DEF Sps
<1>2. CASE sr.s
  <2>1. CASE frames = <<>>
    <3>1. sps.a7 + 1 <= SuperTop
      BY <2>1, <1>2 DEF Holds
    <3> QED BY <3>1, <2>1, <1>1, <1>2, InvFacts, ConstantFacts DEF Cell
  <2>2. CASE frames # <<>>
    <3>1. sps.a7 + 1 <= TopFrame.at
      BY <2>2, <1>2 DEF Holds
    <3>2. \A i \in 1 .. Len(frames) : frames[i].at \in Int
      <4> TAKE i \in 1 .. Len(frames)
      <4>1. frames[i] \in Frame
        BY InvFacts, ElementOfSeq
      <4> QED BY <4>1 DEF Frame, Cell
    <3>3. \A i \in 1 .. Len(frames) : SuperSp + 1 <= frames[i].at
      <4> TAKE i \in 1 .. Len(frames)
      <4>1. TopFrame.at \in Int /\ TopFrame.at <= frames[i].at
        BY <2>2, TopFrameIsLowest
      <4>2. SuperSp = sps.a7
        BY <1>2, InvFacts
      <4> QED BY <4>1, <4>2, <3>1, <3>2, <1>1
    <3>4. sps.a7 + 1 <= SuperTop
      BY <3>1, <2>2, <1>1, TopFrameIsLowest, ConstantFacts
    <3>5. sps.a7 \in Cell
      BY <3>4, <1>1, ConstantFacts DEF Cell
    <3>6. mem[sps.a7] \in Value
      BY <3>5, InvFacts
    <3> QED BY <3>3, <3>4, <3>5, <3>6, <1>2
  <2> QED BY <2>1, <2>2
<1>3. CASE ~sr.s
  <2>1. sps.a7 + 1 <= UserTop
    BY <1>3 DEF Holds
  <2> QED BY <2>1, <1>1, <1>3, InvFacts, ConstantFacts DEF Cell
<1> QED BY <1>2, <1>3

\* A pop, with or without the status register, does not reach a frame.
LEMMA PopKeeps ==
    ASSUME Inv, due = 0, Pop \/ PopSr
    PROVE  /\ Inv' /\ sps.a7 \in Cell
           /\ sr' = sr \/ sr' = mem[sps.a7]
           /\ sr.s => SuperSp' = SuperSp + 1 /\ UserSp' = UserSp
           /\ ~sr.s => SuperSp' = SuperSp /\ UserSp' = UserSp + 1
<1>1. /\ Holds(1) /\ mem' = Popped(1) /\ pc' = AfterPc /\ an' = an /\ due' = due
      /\ opened' = opened /\ stopped' = stopped /\ halted' = halted /\ frames' = frames
  BY DEF Pop, PopSr
<1>2. /\ sr' \in Sr /\ (sr' = sr \/ sr' = mem[sps.a7])
      /\ sps' = SyncSp([sps EXCEPT !.a7 = @ + 1], sr.s, sr'.s)
  <2>1. CASE Pop
    BY <2>1, InvFacts DEF Pop, SyncSp
  <2>2. CASE PopSr
    BY <2>2 DEF PopSr
  <2> QED BY <2>1, <2>2
<1>3. /\ sps.a7 \in Cell /\ sps.a7 + 1 <= IF sr.s THEN SuperTop ELSE UserTop
      /\ sr.s => \A i \in 1 .. Len(frames) : SuperSp + 1 <= frames[i].at
  BY <1>1, HoldsFacts
<1>4. /\ sps' \in Sps
      /\ sr.s => SuperSp' = SuperSp + 1 /\ UserSp' = UserSp
      /\ ~sr.s => SuperSp' = SuperSp /\ UserSp' = UserSp + 1
  BY <1>2, <1>3, PopFacts
<1>5. mem' = [c \in Cell |-> IF sps.a7 <= c /\ c < sps.a7 + 1 THEN Data ELSE mem[c]]
  BY <1>1 DEF Popped
<1>6. mem' \in [Cell -> Value]
  BY <1>5, InvFacts DEF Value
<1>7. SuperSp' \in UserTop .. SuperTop /\ UserSp' \in 0 .. UserTop
  <2>1. CASE sr.s
    <3>1. SuperSp' = SuperSp + 1 /\ UserSp' = UserSp /\ SuperSp + 1 <= SuperTop
      BY <2>1, <1>3, <1>4, InvFacts
    <3>2. SuperSp \in UserTop .. SuperTop /\ UserSp \in 0 .. UserTop
      BY InvFacts
    <3> QED BY <3>1, <3>2, ConstantFacts
  <2>2. CASE ~sr.s
    <3>1. SuperSp' = SuperSp /\ UserSp' = UserSp + 1 /\ UserSp + 1 <= UserTop
      BY <2>2, <1>3, <1>4, InvFacts
    <3>2. SuperSp \in UserTop .. SuperTop /\ UserSp \in 0 .. UserTop
      BY InvFacts
    <3> QED BY <3>1, <3>2, ConstantFacts
  <2> QED BY <2>1, <2>2
<1>8. FramesAt(frames, mem', SuperSp')
  <2> DEFINE n == mem'
             top == SuperSp
             low == SuperSp'
  <2>1. low \in Int /\ frames \in Seq(Frame) /\ FramesAt(frames, mem, top)
    BY <1>7, InvFacts, ConstantFacts DEF Inv
  <2>2. \A i \in 1 .. Len(frames) : low <= frames[i].at
    <3>1. CASE sr.s
      BY <3>1, <1>3, <1>4
    <3>2. CASE ~sr.s
      BY <3>2, <1>4 DEF Inv, FramesAt
    <3> QED BY <3>1, <3>2
  <2>3. \A c \in Cell : low <= c => n[c] = mem[c]
    <3> TAKE c \in Cell
    <3>1. c \in Int
      BY DEF Cell
    <3>2. low >= sps.a7 + 1 /\ sps.a7 \in Int
      <4>1. CASE sr.s
        <5>1. low = SuperSp + 1 /\ sps.a7 = SuperSp /\ SuperSp \in Int
          BY <4>1, <1>4, InvFacts
        <5> QED BY <5>1
      <4>2. CASE ~sr.s
        <5>1. low = SuperSp /\ sps.a7 = UserSp /\ UserSp + 1 <= UserTop
          BY <4>2, <1>3, <1>4, InvFacts
        <5>2. SuperSp \in UserTop .. SuperTop /\ UserSp \in 0 .. UserTop
          BY InvFacts
        <5> QED BY <5>1, <5>2, ConstantFacts
      <4> QED BY <4>1, <4>2
    <3> QED BY <3>1, <3>2, <2>1, <1>5
  <2> HIDE DEF n, top, low
  <2>4. FramesAt(frames, n, low)
    BY <2>1, <2>2, <2>3, FramesStay
  <2> QED BY <2>4 DEF n, low
<1>9. Inv'
  BY <1>1, <1>2, <1>4, <1>6, <1>7, <1>8, InvFacts, InvFrom
<1> QED BY <1>2, <1>3, <1>4, <1>9

\* RTE takes back the status register and the program counter of its frame, from the
\* stack it was pushed on.
LEMMA RteKeeps ==
    ASSUME Inv, due = 0, Rte
    PROVE  /\ Inv' /\ sr.s /\ sps.a7 = SuperSp /\ SuperSp \in Cell /\ SuperSp + 1 \in Cell
           /\ sr' = mem[SuperSp] /\ mem[SuperSp + 1] = [pc |-> pc']
           /\ SuperSp' = SuperSp + 2 /\ UserSp' = UserSp
<1>1. /\ frames # <<>> /\ sr.s /\ sps.a7 = TopFrame.at /\ sr' = mem[sps.a7]
      /\ pc' = mem[sps.a7 + 1].pc
      /\ sps' = SyncSp([sps EXCEPT !.a7 = @ + 2], sr.s, sr'.s)
      /\ mem' = Popped(2) /\ frames' = SubSeq(frames, 1, Len(frames) - 1)
      /\ an' = an /\ opened' = opened /\ due' = due /\ stopped' = stopped
      /\ halted' = halted
  BY DEF Rte
<1>2. /\ TopFrame \in Frame /\ TopFrame.at \in Int /\ TopFrame.at + 2 <= SuperTop
      /\ mem[TopFrame.at] = TopFrame.sr /\ mem[TopFrame.at + 1] = [pc |-> TopFrame.pc]
  BY <1>1, TopFrameIsLowest
<1>3. TopFrame.sr \in Sr /\ TopFrame.pc \in Pc
  BY <1>2 DEF Frame
<1>4. sps.a7 = SuperSp
  BY <1>1, InvFacts
<1>5. sr' = TopFrame.sr /\ sr' \in Sr /\ pc' = TopFrame.pc /\ pc' \in Pc
  BY <1>1, <1>2, <1>3
<1>6. SuperSp \in Cell /\ SuperSp + 1 \in Cell /\ SuperSp + 2 <= SuperTop
  <2>1. SuperSp \in UserTop .. SuperTop /\ SuperSp + 2 <= SuperTop
    BY <1>1, <1>2, <1>4, InvFacts
  <2> QED BY <2>1, ConstantFacts DEF Cell
<1>7. sps' \in Sps /\ SuperSp' = SuperSp + 2 /\ UserSp' = UserSp
  <2>1. sps.a7 + 2 <= IF sr.s THEN SuperTop ELSE UserTop
    BY <1>1, <1>4, <1>6
  <2>2. sps' = SyncSp([sps EXCEPT !.a7 = @ + 2], sr.s, sr'.s) /\ 2 \in 1 .. 2
    BY <1>1
  <2> QED BY <2>1, <2>2, <1>1, <1>5, PopFacts
<1>8. mem' = [c \in Cell |-> IF SuperSp <= c /\ c < SuperSp + 2 THEN Data ELSE mem[c]]
  BY <1>1, <1>4 DEF Popped
<1>9. mem' \in [Cell -> Value]
  BY <1>8, InvFacts DEF Value
<1>10. frames' \in Seq(Frame) /\ FramesAt(frames', mem', SuperSp')
  <2> DEFINE n == mem'
             top == SuperSp
  <2>1. top \in Int /\ frames \in Seq(Frame) /\ FramesAt(frames, mem, top)
    BY InvFacts DEF Inv
  <2>2. frames # <<>> /\ frames[Len(frames)].at = top
    BY <1>1, <1>4 DEF TopFrame
  <2>3. \A c \in Cell : top + 2 <= c => n[c] = mem[c]
    BY <2>1, <1>8 DEF Cell
  <2> HIDE DEF n, top
  <2>4. /\ SubSeq(frames, 1, Len(frames) - 1) \in Seq(Frame)
        /\ FramesAt(SubSeq(frames, 1, Len(frames) - 1), n, top + 2)
    BY <2>1, <2>2, <2>3, FramePopped
  <2> QED BY <2>4, <1>1, <1>7 DEF n, top
<1>11. SuperSp' \in UserTop .. SuperTop /\ UserSp' \in 0 .. UserTop
  BY <1>6, <1>7, InvFacts, ConstantFacts
<1>12. Inv'
  BY <1>1, <1>5, <1>7, <1>9, <1>10, <1>11, InvFacts, InvFrom
<1>13. mem[SuperSp + 1] = [pc |-> pc'] /\ sr' = mem[SuperSp]
  BY <1>1, <1>2, <1>4, <1>5
<1> QED BY <1>1, <1>4, <1>6, <1>7, <1>12, <1>13

\* The other instructions leave both pointers, memory and the frames alone, MOVE
\* An,USP apart, which moves the user's.
Others ==
    \/ \E v \in Written : WriteSr(v) \/ Stop(v) \/ InlineOriSr(v)
    \/ Halt \/ MoveToUsp \/ MoveFromUsp \/ LoadAn \/ OpenDriver

\* They keep the pointers apart, and mount calls become due only with room for them.
LEMMA OthersFacts ==
    ASSUME Inv, due = 0, Others
    PROVE  /\ sps' \in Sps /\ sr' \in Sr /\ pc' \in Pc /\ mem' = mem /\ frames' = frames
           /\ SuperSp' = SuperSp /\ (UserSp' = UserSp \/ (MoveToUsp /\ UserSp' = an))
           /\ an' \in {an, UserTop, UserSp}
           /\ due' \in 0 .. Drives /\ opened' \in BOOLEAN /\ stopped' \in BOOLEAN
           /\ halted' \in BOOLEAN
           /\ due' # 0 => SuperSp - 3 * due' >= UserTop
<1>1. CASE \E v \in Written : WriteSr(v) \/ Stop(v)
  <2>1. PICK v \in Written : /\ sr' = v /\ sps' = SyncSp(sps, sr.s, v.s) /\ pc' = AfterPc
                             /\ an' = an /\ mem' = mem /\ due' = due /\ halted' = halted
                             /\ opened' = opened /\ frames' = frames /\ stopped' \in {stopped, TRUE}
    BY <1>1 DEF WriteSr, Stop
  <2>2. v \in Sr /\ v.s \in BOOLEAN
    BY DEF Written, Sr
  <2>3. /\ sps' \in Sps /\ SuperOf(sps', v.s) = SuperOf(sps, sr.s)
        /\ UserOf(sps', v.s) = UserOf(sps, sr.s)
    BY <2>1, <2>2, InvFacts, SyncKeepsPointers
  <2>4. SuperSp' = SuperSp /\ UserSp' = UserSp
    BY <2>1, <2>3, InvFacts DEF SuperSp, UserSp, SuperOf, UserOf
  <2> QED BY <2>1, <2>2, <2>3, <2>4, InvFacts
<1>2. CASE \E v \in Written : InlineOriSr(v)
  <2>1. PICK v \in Written : InlineOriSr(v)
    BY <1>2
  <2>2. v.mask \in Masks
    BY DEF Written
  <2>3. /\ sr' = [sr EXCEPT !.mask = IF v.mask > sr.mask THEN v.mask ELSE sr.mask]
        /\ sps' = sps /\ pc' = AfterPc /\ an' = an /\ mem' = mem /\ due' = due
        /\ opened' = opened /\ halted' = halted /\ frames' = frames /\ stopped' = stopped
    BY <2>1 DEF InlineOriSr
  <2>4. sr' \in Sr /\ sr'.s = sr.s
    BY <2>2, <2>3, InvFacts DEF Sr
  <2>5. SuperSp' = SuperSp /\ UserSp' = UserSp
    BY <2>3, <2>4 DEF SuperSp, UserSp
  <2> QED BY <2>3, <2>4, <2>5, InvFacts
<1>3. CASE MoveToUsp
  <2>1. /\ sr.s /\ sps' = [sps EXCEPT !.usp = an] /\ pc' = AfterPc /\ sr' = sr /\ an' = an
        /\ mem' = mem /\ opened' = opened /\ due' = due /\ halted' = halted
        /\ frames' = frames /\ stopped' = stopped
    BY <1>3 DEF MoveToUsp
  <2>2. an \in 0 .. SuperTop
    BY InvFacts, ConstantFacts
  <2>3. sps' \in Sps /\ sps'.a7 = sps.a7 /\ sps'.usp = an
    BY <2>1, <2>2, InvFacts DEF Sps
  <2>4. SuperSp' = SuperSp /\ UserSp' = an
    BY <2>1, <2>3 DEF SuperSp, UserSp
  <2> QED BY <2>1, <2>3, <2>4, <1>3, InvFacts
<1>4. CASE Halt \/ MoveFromUsp \/ LoadAn \/ OpenDriver
  <2>1. /\ sps' = sps /\ sr' = sr /\ pc' = AfterPc /\ mem' = mem /\ frames' = frames
        /\ stopped' = stopped
    BY <1>4 DEF Halt, MoveFromUsp, LoadAn, OpenDriver
  <2>2. SuperSp' = SuperSp /\ UserSp' = UserSp
    BY <2>1 DEF SuperSp, UserSp
  <2>3. an' \in {an, UserTop, UserSp}
    BY <1>4 DEF Halt, MoveFromUsp, LoadAn, OpenDriver, UserSp
  <2>4. opened' \in BOOLEAN /\ halted' \in BOOLEAN
    BY <1>4, InvFacts DEF Halt, MoveFromUsp, LoadAn, OpenDriver
  <2>5. ~ OpenDriver => due' = due
    BY <1>4 DEF Halt, MoveFromUsp, LoadAn
  <2>6. ASSUME OpenDriver PROVE due' \in 0 .. Drives /\ SuperSp - 3 * due' >= UserTop
    <3> DEFINE p == Entered(sps, sr.s)
    <3>1. due' \in 0 .. Drives /\ Room(p, TRUE, MountRoom(due'))
      BY <2>6 DEF OpenDriver
    <3>2. p \in Sps /\ p.a7 = SuperSp
      BY InvFacts, SyncKeepsPointers DEF Entered, SuperOf
    <3> QED BY <3>1, <3>2, InvFacts, ConstantFacts DEF Room, Bottom, MountRoom
  <2> QED BY <2>1, <2>2, <2>3, <2>4, <2>5, <2>6, InvFacts
<1> QED BY <1>1, <1>2, <1>3, <1>4 DEF Others

\* So they keep the invariant.
LEMMA OthersKeeps ==
    ASSUME Inv, due = 0, Others PROVE Inv'
<1>1. UserSp' \in 0 .. UserTop /\ an' \in 0 .. UserTop /\ SuperSp' \in UserTop .. SuperTop
  BY OthersFacts, InvFacts, ConstantFacts
<1>2. mem' \in [Cell -> Value] /\ frames' \in Seq(Frame)
  BY OthersFacts, InvFacts
<1>3. FramesAt(frames', mem', SuperSp')
  BY OthersFacts DEF Inv
<1>4. due' # 0 => SuperSp' - 3 * due' >= UserTop
  BY OthersFacts
<1> QED BY <1>1, <1>2, <1>3, <1>4, OthersFacts, InvFrom

\* The entries to supervisor mode, with what each leaves.
LEMMA EntriesKeep ==
    ASSUME Inv, \/ Exception /\ due = 0
                \/ Interrupt
                \/ Mount
    PROVE  Inv'
<1>1. /\ sr.mask \in Masks \cup {1} /\ pc \in Pc /\ Return \subseteq Pc /\ SuperSp \in Int
      /\ stopped \in BOOLEAN /\ due \in 0 .. Drives /\ due \in Nat /\ Drives \in Nat
      /\ Vector \in Pc /\ Callback \in Pc
  BY InvFacts, ConstantFacts DEF Return
<1>2. CASE Exception /\ due = 0
  <2>1. /\ SuperSp - 2 >= UserTop /\ pc' = Vector /\ due' = due /\ stopped' = stopped
        /\ \E ret \in Return : Enters(sr.mask, ret, 0)
    BY <1>2, ExceptionEnters
  <2>2. PICK ret \in Return : Enters(sr.mask, ret, 0)
    BY <2>1
  <2>3. SuperSp - 2 - 0 >= UserTop /\ 0 \in 0 .. 1 /\ due' = 0
    BY <2>1, <1>1, <1>2
  <2> QED BY <2>1, <2>2, <2>3, <1>1, EntersKeeps
<1>3. CASE Interrupt
  <2>1. /\ SuperSp - 2 >= UserTop /\ SuperSp - 2 - 3 * due >= UserTop
        /\ Enters(1, pc, 0) /\ pc' = Vector /\ due' = due /\ stopped' = FALSE
    BY <1>3, InterruptEnters
  <2>2. /\ SuperSp - 2 - 0 >= UserTop /\ 0 \in 0 .. 1 /\ 1 \in Masks \cup {1}
        /\ SuperSp - 2 - 0 - 3 * due' >= UserTop
    BY <2>1, <1>1
  <2> QED BY <2>1, <2>2, <1>1, EntersKeeps
<1>4. CASE Mount
  <2>1. /\ SuperSp - 3 >= UserTop /\ Enters(sr.mask, pc, 1)
        /\ pc' = Callback /\ due # 0 /\ due' = due - 1 /\ stopped' = stopped
    BY <1>4, MountEnters
  <2>2. SuperSp - 3 * due >= UserTop
    BY <2>1 DEF Inv, StacksApart
  <2>3. UserTop \in Nat
    BY ConstantFacts
  <2>4. /\ SuperSp - 2 - 1 >= UserTop /\ 1 \in 0 .. 1 /\ due' \in 0 .. Drives
        /\ SuperSp - 2 - 1 - 3 * due' >= UserTop
    BY <2>1, <2>2, <2>3, <1>1
  <2> QED BY <2>1, <2>4, <1>1, EntersKeeps
<1> QED BY <1>2, <1>3, <1>4

\* Every turn of m68k_run_until keeps the invariant.
LEMMA NextInv == ASSUME Inv, [Next]_vars PROVE Inv'
<1>1. CASE Interrupt \/ Mount
  BY <1>1, EntriesKeep
<1>2. CASE Execute
  <2>1. due = 0 /\ Step
    BY <1>2 DEF Execute
  <2>2. Exception \/ Push \/ Pop \/ PopSr \/ Rte \/ Others
    BY <2>1 DEF Step, Others
  <2> QED BY <2>1, <2>2, EntriesKeep, PushKeeps, PopKeeps, RteKeeps, OthersKeeps
<1>3. CASE UNCHANGED vars
  <2>1. /\ sps' = sps /\ sr' = sr /\ pc' = pc /\ an' = an /\ mem' = mem /\ due' = due
        /\ opened' = opened /\ stopped' = stopped /\ halted' = halted /\ frames' = frames
    BY <1>3 DEF vars
  <2>2. SuperSp' = SuperSp /\ UserSp' = UserSp
    BY <2>1 DEF SuperSp, UserSp
  <2> QED BY <2>1, <2>2, InvFacts, InvFrom DEF Inv, StacksApart
<1>4. CASE Idle \/ Halted
  BY <1>3, <1>4 DEF Idle, Halted
<1>5. CASE InsertDrive
  <2> DEFINE p == Entered(sps, sr.s)
  <2>1. /\ sps' = sps /\ sr' = sr /\ pc' = pc /\ an' = an /\ mem' = mem /\ opened' = opened
        /\ stopped' = stopped /\ halted' = halted /\ frames' = frames
        /\ due < Drives /\ due' = due + 1 /\ Room(p, TRUE, MountRoom(due + 1))
    BY <1>5 DEF InsertDrive
  <2>2. SuperSp' = SuperSp /\ UserSp' = UserSp
    BY <2>1 DEF SuperSp, UserSp
  <2>3. p \in Sps /\ p.a7 = SuperSp
    BY InvFacts, SyncKeepsPointers DEF Entered, SuperOf
  <2>4. due' \in 0 .. Drives /\ SuperSp - 3 * due' >= UserTop
    <3>1. SuperSp - MountRoom(due + 1) >= UserTop
      BY <2>1, <2>3 DEF Room, Bottom
    <3>2. MountRoom(due + 1) >= 3 * (due + 1) /\ MountRoom(due + 1) \in Nat
      BY InvFacts DEF MountRoom
    <3> QED BY <2>1, <3>1, <3>2, InvFacts, ConstantFacts
  <2> QED BY <2>1, <2>2, <2>4, InvFacts, InvFrom DEF Inv
<1> QED BY <1>1, <1>2, <1>3, <1>4, <1>5 DEF Next

-----------------------------------------------------------------------------
\* The stacks stay apart and the frames nested, for stacks of every size.
THEOREM ProcessorInvariant == Spec => []Inv
<1>1. Inv /\ [Next]_vars => Inv'
  BY NextInv
<1> QED BY <1>1, InitInv, PTL DEF Spec

\* Whatever interrupts what, in whichever mode, every frame that is still to be
\* returned from holds the pc and the status register of the code it interrupted,
\* where RTE looks for them.
THEOREM FramesAreSound == Spec => []FramesSound
<1>1. Inv => FramesSound
  <2> SUFFICES ASSUME Inv PROVE FramesSound
    OBVIOUS
  <2>1. frames \in Seq(Frame) /\ DOMAIN frames = 1 .. Len(frames)
    BY InvFacts, LenProperties
  <2>2. FramesIntact
    BY <2>1 DEF Inv, FramesAt, FramesIntact
  <2>3. FramesNested
    <3>1. \A i \in 1 .. Len(frames) : frames[i].at >= SuperSp
      <4> TAKE i \in 1 .. Len(frames)
      <4>1. frames[i] \in Frame
        BY <2>1, ElementOfSeq
      <4>2. frames[i].at \in Int
        BY <4>1 DEF Frame, Cell
      <4> QED BY <4>2, InvFacts DEF Inv, FramesAt
    <3> QED BY <3>1, <2>1 DEF Inv, FramesAt, FramesNested
  <2> QED BY <2>2, <2>3 DEF Inv, FramesSound
<1> QED BY <1>1, ProcessorInvariant, PTL

-----------------------------------------------------------------------------
(* a[7], usp and ssp implement two stack pointers *)

\* The pointers of the specification, as Stacks is instantiated with them.
Pointers == [m \in {"user", "super"} |-> IF m = "super" THEN SuperSp ELSE UserSp]

\* Reset leaves an initial state of the two stacks.
LEMMA InitStacks == Init => Stacks!Init
<1> SUFFICES ASSUME Init PROVE Stacks!Init
  OBVIOUS
<1>1. /\ sr = [s |-> TRUE, mask |-> 7] /\ pc \in Pc /\ an = 0 /\ ~stopped /\ ~halted
      /\ mem = [c \in Cell |-> Data]
  BY ConstantFacts DEF Init
<1>2. mem \in [DOMAIN mem -> Sr \cup {Data}]
  BY <1>1
<1>3. SuperSp \in Int /\ UserSp \in Int
  BY InitInv, InvFacts
<1>4. Pointers \in [{"user", "super"} -> Int]
  BY <1>3 DEF Pointers
<1> QED BY <1>1, <1>2, <1>4 DEF Stacks!Init, Pointers

\* The active pointer is a[7].
LEMMA ActivePointer ==
    ASSUME Inv
    PROVE  /\ Stacks!Mode = IF sr.s THEN "super" ELSE "user"
           /\ Pointers["super"] = SuperSp /\ Pointers["user"] = UserSp
           /\ Pointers[Stacks!Mode] = sps.a7 /\ Stacks!Mode \in {"user", "super"}
<1>1. Stacks!Mode = IF sr.s THEN "super" ELSE "user"
  BY DEF Stacks!Mode
<1>2. Pointers["super"] = SuperSp /\ Pointers["user"] = UserSp
  BY DEF Pointers
<1>3. CASE sr.s
  BY <1>1, <1>2, <1>3, InvFacts
<1>4. CASE ~sr.s
  BY <1>1, <1>2, <1>4, InvFacts
<1> QED BY <1>1, <1>2, <1>3, <1>4

\* The pointers after a step that moved the supervisor's, or the user's.
LEMMA PointersMoved ==
    ASSUME NEW a, NEW b, SuperSp' = a, UserSp' = b
    PROVE  /\ b = UserSp => Pointers' = [Pointers EXCEPT !["super"] = a]
           /\ a = SuperSp => Pointers' = [Pointers EXCEPT !["user"] = b]
           /\ a = SuperSp /\ b = UserSp => Pointers' = Pointers
BY DEF Pointers

\* An entry to supervisor mode is one of the two stacks.
LEMMA EntersIsEnter ==
    ASSUME Inv, ~halted, NEW mask \in {sr.mask, 1}, NEW ret \in Pc, NEW args \in 0 .. 1,
           Enters(mask, ret, args), pc' \in Pc, stopped' \in {stopped, FALSE}
    PROVE  Stacks!Next
<1> DEFINE top == SuperSp
<1>1. Pointers["super"] = top /\ top \in Int
  BY ActivePointer, InvFacts
<1>2. Pointers' = [Pointers EXCEPT !["super"] = top - 2 - args]
  BY PointersMoved DEF Enters
<1>3. top - 1 - 1 = top - 2 /\ top - 2 - 1 = top - 3
  BY <1>1
<1>4. mem' = LET f == [[mem EXCEPT ![top - 1] = [pc |-> ret]] EXCEPT ![top - 1 - 1] = sr]
             IN  IF args = 0 THEN f ELSE [f EXCEPT ![top - 2 - 1] = Data]
  BY <1>3 DEF Enters
<1>5. sr' = [s |-> TRUE, mask |-> mask] /\ an' = an /\ halted' = halted
  BY DEF Enters
<1> HIDE DEF top
<1>6. Stacks!Enter(mask, pc', ret, args)
  BY <1>1, <1>2, <1>4, <1>5 DEF Stacks!Enter, Stacks!Pushed, Pointers
<1> QED BY <1>6 DEF Stacks!Next

\* RTE is the return.
LEMMA RteIsReturn ==
    ASSUME Inv, due = 0, ~halted, ~stopped, Rte PROVE Stacks!Next
<1>1. /\ sr.s /\ sps.a7 = SuperSp /\ SuperSp \in Cell /\ SuperSp + 1 \in Cell
      /\ sr' = mem[SuperSp] /\ mem[SuperSp + 1] = [pc |-> pc']
      /\ SuperSp' = SuperSp + 2 /\ UserSp' = UserSp
  BY RteKeeps
<1>2. /\ mem' = Popped(2) /\ an' = an /\ stopped' = stopped /\ halted' = halted
  BY DEF Rte
<1>3. mem' = [mem EXCEPT ![SuperSp] = Data, ![SuperSp + 1] = Data]
  <2>1. mem' = [c \in Cell |-> IF SuperSp <= c /\ c < SuperSp + 2 THEN Data ELSE mem[c]]
    BY <1>1, <1>2 DEF Popped
  <2>2. \A c \in Cell : SuperSp <= c /\ c < SuperSp + 2 <=> c = SuperSp \/ c = SuperSp + 1
    BY InvFacts DEF Cell
  <2>3. mem' = [c \in Cell |-> IF c = SuperSp \/ c = SuperSp + 1 THEN Data ELSE mem[c]]
    BY <2>1, <2>2
  <2>4. mem = [c \in Cell |-> mem[c]]
    BY InvFacts
  <2> QED BY <2>3, <2>4, <1>1
<1>4. Stacks!Mode = "super" /\ Pointers["super"] = SuperSp
  BY <1>1, ActivePointer
<1>5. Pointers' = [Pointers EXCEPT !["super"] = SuperSp + 2]
  BY <1>1, PointersMoved
<1>6. {SuperSp, SuperSp + 1} \subseteq DOMAIN mem
  BY <1>1, InvFacts
<1>7. Stacks!Return
  BY <1>1, <1>2, <1>3, <1>4, <1>5, <1>6 DEF Stacks!Return, Stacks!Running, Pointers
<1> QED BY <1>7 DEF Stacks!Next

\* Pushes and pops move the pointer of the mode they are executed in.
LEMMA PushIsPush ==
    ASSUME Inv, ~halted, ~stopped, Push PROVE Stacks!Next
<1>1. /\ mem' = [mem EXCEPT ![sps.a7 - 1] = sr] /\ sr' = sr /\ pc' = AfterPc
      /\ an' = an /\ stopped' = stopped /\ halted' = halted
  BY DEF Push
<1>2. sr \in Sr \cup {Data} /\ pc' \in Pc
  BY <1>1, InvFacts
<1>3. Pointers' = [Pointers EXCEPT ![Stacks!Mode] = sps.a7 - 1]
  <2>1. CASE sr.s
    BY <2>1, PushFacts, InvFacts, ActivePointer, PointersMoved
  <2>2. CASE ~sr.s
    BY <2>2, PushFacts, InvFacts, ActivePointer, PointersMoved
  <2> QED BY <2>1, <2>2
<1>4. Pointers[Stacks!Mode] = sps.a7
  BY ActivePointer
<1>5. Stacks!Push
  BY <1>1, <1>2, <1>3, <1>4 DEF Stacks!Push, Stacks!Running, Stacks!Pushed, Pointers
<1> QED BY <1>5 DEF Stacks!Next

\* A pop may load the status register; the pointer moved is that of the old mode.
LEMMA PopIsPop ==
    ASSUME Inv, due = 0, ~halted, ~stopped, Pop \/ PopSr PROVE Stacks!Next
<1>1. /\ mem' = Popped(1) /\ pc' = AfterPc /\ an' = an /\ stopped' = stopped /\ halted' = halted
  BY DEF Pop, PopSr
<1>2. /\ sps.a7 \in Cell /\ (sr' = sr \/ sr' = mem[sps.a7])
      /\ sr.s => SuperSp' = SuperSp + 1 /\ UserSp' = UserSp
      /\ ~sr.s => SuperSp' = SuperSp /\ UserSp' = UserSp + 1
  BY PopKeeps
<1>3. mem' = [mem EXCEPT ![sps.a7] = Data]
  <2>1. mem' = [c \in Cell |-> IF sps.a7 <= c /\ c < sps.a7 + 1 THEN Data ELSE mem[c]]
    BY <1>1 DEF Popped
  <2>2. \A c \in Cell : sps.a7 <= c /\ c < sps.a7 + 1 <=> c = sps.a7
    BY <1>2 DEF Cell
  <2>3. mem' = [c \in Cell |-> IF c = sps.a7 THEN Data ELSE mem[c]]
    BY <2>1, <2>2
  <2>4. mem = [c \in Cell |-> mem[c]]
    BY InvFacts
  <2> QED BY <2>3, <2>4, <1>2
<1>4. Pointers' = [Pointers EXCEPT ![Stacks!Mode] = sps.a7 + 1]
  <2>1. CASE sr.s
    BY <2>1, <1>2, InvFacts, ActivePointer, PointersMoved
  <2>2. CASE ~sr.s
    BY <2>2, <1>2, InvFacts, ActivePointer, PointersMoved
  <2> QED BY <2>1, <2>2
<1>5. Pointers[Stacks!Mode] = sps.a7
  BY ActivePointer
<1>6. sps.a7 \in DOMAIN mem /\ pc' \in Pc
  BY <1>1, <1>2, InvFacts
<1>7. Stacks!Pop
  BY <1>1, <1>2, <1>3, <1>4, <1>5, <1>6 DEF Stacks!Pop, Stacks!Running, Pointers
<1> QED BY <1>7 DEF Stacks!Next

\* The other instructions are too.
LEMMA OthersAreOther ==
    ASSUME Inv, due = 0, ~halted, ~stopped, Others PROVE Stacks!Next
<1>1. CASE MoveToUsp
  <2>1. /\ sr' = sr /\ an' = an /\ mem' = mem /\ halted' = halted /\ stopped' = stopped
        /\ sr.s /\ sps' = [sps EXCEPT !.usp = an] /\ pc' = AfterPc
    BY <1>1 DEF MoveToUsp
  <2>2. SuperSp' = SuperSp /\ UserSp' = an
    <3>1. sps'.a7 = sps.a7 /\ sps'.usp = an
      BY <2>1, InvFacts DEF Sps
    <3> QED BY <2>1, <3>1 DEF SuperSp, UserSp
  <2>3. Pointers' = [Pointers EXCEPT !["user"] = an]
    BY <2>2, PointersMoved
  <2>4. pc' \in Pc
    BY <2>1, InvFacts
  <2>5. Stacks!LoadUsp
    BY <2>1, <2>3, <2>4 DEF Stacks!LoadUsp, Stacks!Running, Pointers
  <2> QED BY <2>5 DEF Stacks!Next
<1>2. CASE ~MoveToUsp
  <2>1. SuperSp' = SuperSp /\ UserSp' = UserSp
    BY <1>2, OthersFacts
  <2>2. Pointers' = Pointers /\ Pointers["user"] = UserSp
    BY <2>1, PointersMoved, ActivePointer
  <2>3. /\ sr' \in Sr /\ pc' \in Pc /\ mem' = mem /\ an' \in {an, UserTop, UserSp}
        /\ stopped' \in BOOLEAN /\ halted' \in BOOLEAN
    BY OthersFacts
  <2>4. Stacks!Other
    BY <2>2, <2>3 DEF Stacks!Other, Stacks!Running, Pointers
  <2> QED BY <2>4 DEF Stacks!Next
<1> QED BY <1>1, <1>2

\* Every step of the processor is a step of the two stacks, or leaves them alone.
LEMMA NextStacks ==
    ASSUME Inv, [Next]_vars PROVE [Stacks!Next]_Stacks!vars
<1>1. /\ sr.mask \in {sr.mask, 1} /\ 1 \in {sr.mask, 1} /\ pc \in Pc /\ Return \subseteq Pc
      /\ Vector \in Pc /\ Callback \in Pc /\ 0 \in 0 .. 1 /\ 1 \in 0 .. 1
  BY InvFacts, ConstantFacts DEF Return
<1>2. CASE Interrupt
  BY <1>1, <1>2, InterruptEnters, EntersIsEnter
<1>3. CASE Mount
  BY <1>1, <1>3, MountEnters, EntersIsEnter
<1>4. CASE Execute
  <2>1. due = 0 /\ ~halted /\ ~stopped /\ Step
    BY <1>4 DEF Execute
  <2>2. CASE Exception
    <3>1. PICK ret \in Return : Enters(sr.mask, ret, 0)
      BY <2>2, ExceptionEnters
    <3>2. pc' = Vector /\ stopped' = stopped
      BY <2>2, ExceptionEnters
    <3> QED BY <3>1, <3>2, <2>1, <1>1, EntersIsEnter
  <2>3. Exception \/ Push \/ Pop \/ PopSr \/ Rte \/ Others
    BY <2>1 DEF Step, Others
  <2> QED BY <2>1, <2>2, <2>3, PushIsPush, PopIsPop, RteIsReturn, OthersAreOther
<1>5. CASE UNCHANGED vars
  <2>1. SuperSp' = SuperSp /\ UserSp' = UserSp
    BY <1>5 DEF vars, SuperSp, UserSp
  <2>2. Pointers' = Pointers
    BY <2>1, PointersMoved
  <2> QED BY <2>2, <1>5 DEF vars, Stacks!vars, Pointers
<1>6. CASE Idle \/ Halted
  BY <1>5, <1>6 DEF Idle, Halted
<1>7. CASE InsertDrive
  <2>1. UNCHANGED <<sps, sr, pc, an, mem, stopped, halted>>
    BY <1>7 DEF InsertDrive
  <2>2. SuperSp' = SuperSp /\ UserSp' = UserSp
    BY <2>1 DEF SuperSp, UserSp
  <2>3. Pointers' = Pointers
    BY <2>2, PointersMoved
  <2> QED BY <2>1, <2>3 DEF Stacks!vars, Pointers
<1> QED BY <1>2, <1>3, <1>4, <1>5, <1>6, <1>7 DEF Next

\* The emulator, which keeps the active pointer in a[7] and swaps on every change of
\* the S bit, implements one stack pointer per mode.
THEOREM ProcessorImplementsTwoStacks == Spec => ImplementsTwoStacks
<1>1. Inv /\ [Next]_vars => [Stacks!Next]_Stacks!vars
  BY NextStacks
<1> QED BY <1>1, InitStacks, ProcessorInvariant, PTL DEF Spec, ImplementsTwoStacks, Stacks!Spec
=============================================================================
