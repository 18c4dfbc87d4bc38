------------------------------ MODULE CpuModes ------------------------------
(***************************************************************************)
(* Supervisor and user mode of the interpreter (core/m68k_interp.c): the   *)
(* exchange of a[7] with usp and ssp, exceptions, interrupts, the mount    *)
(* call injected by the Sony driver, RTE, STOP, RESET and every write of   *)
(* the status register, inside the loop of m68k_run_until.  The helpers    *)
(* and the inline arms of the JIT that do the same work are actions too.   *)
(*                                                                         *)
(* Of the status register the S bit and the interrupt mask are kept.       *)
(* Memory is the two stacks: the cells below UserTop are the user's and    *)
(* those from UserTop to SuperTop the supervisor's; a cell holds one       *)
(* pushed value whatever its width, and what has been popped is forgotten, *)
(* as nothing may be read below a stack pointer.  `frames` is history: the *)
(* exception frames that no RTE has taken back yet.                        *)
(***************************************************************************)
EXTENDS Integers, Sequences

CONSTANTS
    UserTop,     \* first cell above the user's stack
    SuperTop,    \* first cell above the supervisor's stack
    Masks,       \* interrupt masks the program writes
    MaxPc,       \* the program has the instructions 0 .. MaxPc
    MaxPush,     \* words the program keeps on the supervisor's stack
    Drives,      \* NUM_DRIVES
    Spare        \* cells of the supervisor's stack that are left to the host

ASSUME StackAssumption ==
    /\ UserTop \in Nat \ {0} /\ SuperTop \in Nat /\ UserTop < SuperTop
    /\ Masks \subseteq 0 .. 7 /\ 7 \in Masks
    /\ MaxPc \in Nat /\ MaxPush \in Nat /\ Drives \in Nat /\ Spare \in Nat

VARIABLES
    sps,         \* the fields a[7], usp and ssp of m68k_cpu
    sr, pc,
    an,          \* an address register other than a[7]
    mem,
    opened,      \* the driver has set mount_callback
    due,         \* drives inserted, not mounted, that sony_service would mount
    stopped, halted,
    frames

vars == <<sps, sr, pc, an, mem, opened, due, stopped, halted, frames>>

Pc == 0 .. MaxPc
Sr == [s : BOOLEAN, mask : Masks \cup {1}]
Written == [s : BOOLEAN, mask : Masks]
Data == [data |-> TRUE]
Cell == 0 .. (SuperTop - 1)

\* Where the vectors and the driver's mount callback point.
Vector == 0
Callback == MaxPc

AfterPc == (pc + 1) % (MaxPc + 1)

-----------------------------------------------------------------------------
\* Mutant of SyncSp: ssp is not saved when the S bit is cleared.
SyncSp_ForgetsSsp(p, was, now) ==
    IF was = now THEN p
    ELSE IF was THEN [p EXCEPT !.a7 = p.usp]
    ELSE [p EXCEPT !.usp = p.a7, !.a7 = p.ssp]

\* a[7] is exchanged with the stored pointer when the S bit has changed.
SyncSp(p, was, now) ==
    IF was = now THEN p
    ELSE IF was THEN [p EXCEPT !.ssp = p.a7, !.a7 = p.usp]
    ELSE [p EXCEPT !.usp = p.a7, !.a7 = p.ssp]

Popped(n) == [c \in Cell |-> IF sps.a7 <= c /\ c < sps.a7 + n THEN Data ELSE mem[c]]

\* The bottom of the stack that a[7] is on: a bound of the exploration, the
\* program leaves room on its stacks.
Bottom(super) == IF super THEN UserTop ELSE 0
Room(p, super, n) == p.a7 - n >= Bottom(super) /\ p.a7 <= IF super THEN SuperTop ELSE UserTop

\* Another bound: the running processor's own frames leave Spare cells free, for
\* mount calls and for the interrupt of a STOP.
Spared == IF stopped THEN 0 ELSE Spare

\* The frame pushed by exceptions, interrupts and sony_service: the program
\* counter, then the status register, on the stack that is active in the new mode.
Entered(p, was) == SyncSp(p, was, TRUE)

PushFrame(p, ret) ==
    /\ mem' = [mem EXCEPT ![p.a7 - 1] = [pc |-> ret], ![p.a7 - 2] = sr]
    /\ sps' = [p EXCEPT !.a7 = @ - 2]
    /\ frames' = Append(frames, [at |-> p.a7 - 2, sr |-> sr, pc |-> ret])

\* m68k_exception: TRAP, TRAPV and CHK push the next pc, the line-A, line-F
\* and illegal instructions their own.
Exception ==
    LET p == Entered(sps, sr.s) IN
    /\ Room(p, TRUE, 2 + Spared)
    /\ sr' = [sr EXCEPT !.s = TRUE]
    /\ \E ret \in {pc, AfterPc} : PushFrame(p, ret)
    /\ pc' = Vector
    /\ UNCHANGED <<an, opened, due, stopped, halted>>

\* What n mount calls need, each for its frame and its argument, and during a
\* STOP the frame of the interrupt that ends it.
MountRoom(n) == 3 * n + IF stopped THEN 2 ELSE 0

Unmasked(level) == level # 0 /\ (level = 7 \/ level > sr.mask)

PollInterrupts(level) ==
    LET p == Entered(sps, sr.s) IN
    /\ Unmasked(level)
    /\ Room(p, TRUE, 2 + 3 * due + Spared)
    /\ sr' = [s |-> TRUE, mask |-> level]
    /\ PushFrame(p, pc)
    /\ pc' = Vector
    /\ stopped' = FALSE
    /\ UNCHANGED <<an, opened, due, halted>>

\* Mutant of SonyService: the mount call runs with interrupts masked.
SonyService_Masks ==
    LET p == Entered(sps, sr.s) IN
    /\ due > 0
    /\ sr' = [s |-> TRUE, mask |-> 1]
    /\ mem' = [mem EXCEPT ![p.a7 - 1] = [pc |-> pc], ![p.a7 - 2] = sr, ![p.a7 - 3] = Data]
    /\ sps' = [p EXCEPT !.a7 = @ - 3]
    /\ frames' = Append(frames, [at |-> p.a7 - 2, sr |-> sr, pc |-> pc])
    /\ pc' = Callback
    /\ due' = due - 1
    /\ UNCHANGED <<an, opened, stopped, halted>>

\* sony_service: the mount callback with its argument, for one drive; `stopped`
\* and the interrupt mask are left as they were.
SonyService ==
    LET p == Entered(sps, sr.s) IN
    /\ due > 0
    /\ sr' = [sr EXCEPT !.s = TRUE]
    /\ mem' = [mem EXCEPT ![p.a7 - 1] = [pc |-> pc], ![p.a7 - 2] = sr, ![p.a7 - 3] = Data]
    /\ sps' = [p EXCEPT !.a7 = @ - 3]
    /\ frames' = Append(frames, [at |-> p.a7 - 2, sr |-> sr, pc |-> pc])
    /\ pc' = Callback
    /\ due' = due - 1
    /\ UNCHANGED <<an, opened, stopped, halted>>

-----------------------------------------------------------------------------
(***************************************************************************)
(* Instructions.  The program is disciplined: it does not pop below the    *)
(* frame it runs on, and executes RTE and MOVE USP, which are privileged   *)
(* on a 68000, in supervisor mode only.  The code has no such checks.      *)
(***************************************************************************)
TopFrame == frames[Len(frames)]
Holds(n) == sps.a7 + n <= IF sr.s THEN IF frames = <<>> THEN SuperTop ELSE TopFrame.at
                          ELSE UserTop

\* MOVE SR,-(A7), for every push.
Push ==
    /\ Room(sps, sr.s, IF sr.s THEN 1 + Spared ELSE 1)
    /\ sr.s => SuperTop - sps.a7 - 2 * Len(frames) < MaxPush
    /\ mem' = [mem EXCEPT ![sps.a7 - 1] = sr]
    /\ sps' = [sps EXCEPT !.a7 = @ - 1]
    /\ pc' = AfterPc
    /\ UNCHANGED <<sr, an, opened, due, stopped, halted, frames>>

Pop ==
    /\ Holds(1)
    /\ sps' = [sps EXCEPT !.a7 = @ + 1]
    /\ mem' = Popped(1)
    /\ pc' = AfterPc
    /\ UNCHANGED <<sr, an, opened, due, stopped, halted, frames>>

Rte ==
    /\ frames # <<>> /\ sr.s /\ sps.a7 = TopFrame.at
    /\ sr' = mem[sps.a7]
    /\ pc' = mem[sps.a7 + 1].pc
    /\ sps' = SyncSp([sps EXCEPT !.a7 = @ + 2], sr.s, mem[sps.a7].s)
    /\ mem' = Popped(2)
    /\ frames' = SubSeq(frames, 1, Len(frames) - 1)
    /\ UNCHANGED <<an, opened, due, stopped, halted>>

\* ORI, ANDI, EORI and MOVE to SR.
WriteSr(v) ==
    /\ sr' = v
    /\ sps' = SyncSp(sps, sr.s, v.s)
    /\ pc' = AfterPc
    /\ UNCHANGED <<an, mem, opened, due, stopped, halted, frames>>

\* MOVE (A7)+,SR, in the interpreter and in its helper.
PopSr ==
    /\ Holds(1) /\ mem[sps.a7] \in Sr
    /\ sr' = mem[sps.a7]
    /\ sps' = SyncSp([sps EXCEPT !.a7 = @ + 1], sr.s, mem[sps.a7].s)
    /\ mem' = Popped(1)
    /\ pc' = AfterPc
    /\ UNCHANGED <<an, opened, due, stopped, halted, frames>>

\* Mutant of InlineOriSr: inlined although the immediate sets S.
InlineOriSr_AnyImm(imm) ==
    /\ sr' = [s |-> sr.s \/ imm.s, mask |-> IF imm.mask > sr.mask THEN imm.mask ELSE sr.mask]
    /\ pc' = AfterPc
    /\ UNCHANGED <<sps, an, mem, opened, due, stopped, halted, frames>>

\* The inline arm of ORI #imm,SR: only for an immediate without the S bit.
\* The masks the program writes are ordered bitwise (0, 1, 7).
InlineOriSr(imm) ==
    /\ ~imm.s
    /\ sr' = [sr EXCEPT !.mask = IF imm.mask > @ THEN imm.mask ELSE @]
    /\ pc' = AfterPc
    /\ UNCHANGED <<sps, an, mem, opened, due, stopped, halted, frames>>

Stop(v) ==
    /\ sr' = v
    /\ sps' = SyncSp(sps, sr.s, v.s)
    /\ stopped' = TRUE
    /\ pc' = AfterPc
    /\ UNCHANGED <<an, mem, opened, due, halted, frames>>

\* RESET, and a write to the debug exit port.
Halt ==
    /\ halted' = TRUE
    /\ pc' = AfterPc
    /\ UNCHANGED <<sps, sr, an, mem, opened, due, stopped, frames>>

MoveToUsp ==
    /\ sr.s
    /\ sps' = [sps EXCEPT !.usp = an]
    /\ pc' = AfterPc
    /\ UNCHANGED <<sr, an, mem, opened, due, stopped, halted, frames>>

MoveFromUsp ==
    /\ sr.s
    /\ an' = sps.usp
    /\ pc' = AfterPc
    /\ UNCHANGED <<sps, sr, mem, opened, due, stopped, halted, frames>>

\* LEA of the bottom of a fresh user stack.
LoadAn ==
    /\ an' = UserTop
    /\ pc' = AfterPc
    /\ UNCHANGED <<sps, sr, mem, opened, due, stopped, halted, frames>>

\* The driver's OpenC, once: it sets the callback, and the drives inserted so
\* far are due.
OpenDriver ==
    /\ ~opened /\ opened' = TRUE
    /\ \E n \in 0 .. Drives : Room(Entered(sps, sr.s), TRUE, MountRoom(n)) /\ due' = n
    /\ pc' = AfterPc
    /\ UNCHANGED <<sps, sr, an, mem, stopped, halted, frames>>

Step ==
    \/ Exception \/ Push \/ Pop \/ Rte \/ PopSr \/ Halt
    \/ \E v \in Written : WriteSr(v) \/ Stop(v) \/ InlineOriSr(v)
    \/ MoveToUsp \/ MoveFromUsp \/ LoadAn \/ OpenDriver

-----------------------------------------------------------------------------
\* One turn of m68k_run_until: the tick leaves an interrupt level (0 or 1, the
\* level of the VIA), then the first of interrupt, mount call, idling and one
\* instruction that applies.  A tick that leaves level 0 is always possible.
Interrupt ==
    /\ ~halted
    /\ PollInterrupts(1)

Mount ==
    /\ ~halted
    /\ SonyService

Idle ==
    /\ ~halted /\ stopped /\ due = 0
    /\ UNCHANGED vars

Execute ==
    /\ ~halted /\ ~stopped /\ due = 0
    /\ Step

\* m68k_run_until has returned.
Halted == halted /\ UNCHANGED vars

\* Between two calls of m68k_run_until the host inserts a disk, whatever the
\* processor is doing; a drive that is due already stays due.  Bounded by the
\* room on the supervisor's stack.
InsertDrive ==
    /\ opened /\ due < Drives
    /\ Room(Entered(sps, sr.s), TRUE, MountRoom(due + 1))
    /\ due' = due + 1
    /\ UNCHANGED <<sps, sr, pc, an, mem, opened, stopped, halted, frames>>

Next == Interrupt \/ Mount \/ Idle \/ Execute \/ Halted \/ InsertDrive

\* m68k_reset
Init ==
    /\ sr = [s |-> TRUE, mask |-> 7]
    /\ sps = [a7 |-> SuperTop, usp |-> 0, ssp |-> SuperTop]
    /\ pc = Vector
    /\ an = 0
    /\ mem = [c \in Cell |-> Data]
    /\ opened = FALSE /\ due = 0 /\ stopped = FALSE /\ halted = FALSE
    /\ frames = <<>>

Spec == Init /\ [][Next]_vars

\* The vertical blank raises its interrupt again and again.
FairSpec == Spec /\ WF_vars(Interrupt)

-----------------------------------------------------------------------------
TypeOK ==
    /\ sps \in [a7 : 0 .. SuperTop, usp : 0 .. SuperTop, ssp : 0 .. SuperTop]
    /\ sr \in Sr /\ pc \in Pc
    /\ an \in 0 .. SuperTop
    /\ mem \in [Cell -> Sr \cup {Data} \cup [pc : Pc]]
    /\ due \in 0 .. Drives /\ {opened, stopped, halted} \subseteq BOOLEAN
    /\ frames \in Seq([at : Cell, sr : Sr, pc : Pc])

\* Every frame that is still to be returned from holds, where RTE will look for it,
\* the pc and the status register of the code that was interrupted (m68k_exception,
\* m68k_poll_interrupts, sony_service and RTE agree on one layout and one stack).
FramesIntact ==
    \A i \in DOMAIN frames :
        /\ mem[frames[i].at] = frames[i].sr
        /\ mem[frames[i].at + 1] = [pc |-> frames[i].pc]

\* The frames are nested on the supervisor's stack, wherever the pointer to it is
\* kept: none is above the current top, and an interrupted supervisor gets back
\* the pointer it had when it takes its frame.
SuperSp == IF sr.s THEN sps.a7 ELSE sps.ssp
UserSp == IF sr.s THEN sps.usp ELSE sps.a7
FramesNested ==
    /\ \A i \in DOMAIN frames : frames[i].at >= SuperSp
    /\ \A i, j \in DOMAIN frames : i < j => frames[j].at + 2 <= frames[i].at

\* Whatever interrupts what, and in whichever mode, each RTE finds its own frame.
FramesSound == TypeOK /\ FramesIntact /\ FramesNested

\* a[7], usp and ssp implement two stack pointers, one per mode.
Stacks == INSTANCE TwoStacks WITH
              sp <- [m \in {"user", "super"} |-> IF m = "super" THEN SuperSp ELSE UserSp]
ImplementsTwoStacks == Stacks!Spec

\* A STOP that leaves interrupts enabled ends, also when the host inserts disks
\* meanwhile and sony_service, which neither clears cpu->stopped nor runs what it
\* injects, pushes a call for each: the mask stays what STOP loaded, and the
\* interrupt comes before the calls.
StopEnds == (stopped /\ sr.mask = 0 /\ Room(Entered(sps, sr.s), TRUE, 2)) ~> ~stopped
=============================================================================
