----------------------------- MODULE TwoStacks ------------------------------
(***************************************************************************)
(* What a 68000 program may assume of its two stack pointers.  There is    *)
(* one pointer per mode, whichever mode the processor is in; an exception  *)
(* pushes the program counter and the status register on the supervisor's  *)
(* stack, and RTE takes them back; what is popped is lost.  CpuModes shows *)
(* that the emulator, which keeps the active pointer in a[7] and the other *)
(* one in usp or ssp, implements this.                                     *)
(***************************************************************************)
EXTENDS Integers

CONSTANTS Pc, Sr, Data, UserTop

VARIABLES sp, sr, pc, mem, an, stopped, halted

vars == <<sp, sr, pc, mem, an, stopped, halted>>

Mode == IF sr.s THEN "super" ELSE "user"

\* Memory with one value pushed below address a.
Pushed(m, a, v) == [m EXCEPT ![a - 1] = v]

Running == ~halted /\ ~stopped

\* Entry to supervisor mode: the frame and, for the disk driver, an argument.
Enter(mask, target, ret, args) ==
    LET top == sp["super"] IN
    /\ ~halted
    /\ sr' = [s |-> TRUE, mask |-> mask]
    /\ sp' = [sp EXCEPT !["super"] = top - 2 - args]
    /\ mem' = LET f == Pushed(Pushed(mem, top, [pc |-> ret]), top - 1, sr)
              IN  IF args = 0 THEN f ELSE Pushed(f, top - 2, Data)
    /\ pc' = target
    /\ UNCHANGED <<an, halted>>

Return ==
    /\ Running
    /\ {sp[Mode], sp[Mode] + 1} \subseteq DOMAIN mem
    /\ mem[sp[Mode]] = sr'
    /\ mem[sp[Mode] + 1] = [pc |-> pc']
    /\ sp' = [sp EXCEPT ![Mode] = @ + 2]
    /\ mem' = [mem EXCEPT ![sp[Mode]] = Data, ![sp[Mode] + 1] = Data]
    /\ UNCHANGED <<an, stopped, halted>>

Push ==
    /\ Running
    /\ sp' = [sp EXCEPT ![Mode] = @ - 1]
    /\ \E v \in Sr \cup {Data} : mem' = Pushed(mem, sp[Mode], v)
    /\ pc' \in Pc
    /\ UNCHANGED <<sr, an, stopped, halted>>

Pop ==
    /\ Running
    /\ sp' = [sp EXCEPT ![Mode] = @ + 1]
    /\ sp[Mode] \in DOMAIN mem
    /\ sr' \in {sr, mem[sp[Mode]]}
    /\ mem' = [mem EXCEPT ![sp[Mode]] = Data]
    /\ pc' \in Pc
    /\ UNCHANGED <<an, stopped, halted>>

\* An instruction that may write the status register, stop or halt.
Other ==
    /\ Running
    /\ sr' \in Sr
    /\ pc' \in Pc
    /\ an' \in {an, UserTop, sp["user"]}
    /\ stopped' \in BOOLEAN /\ halted' \in BOOLEAN
    /\ UNCHANGED <<sp, mem>>

\* MOVE An,USP
LoadUsp ==
    /\ Running
    /\ sp' = [sp EXCEPT !["user"] = an]
    /\ pc' \in Pc
    /\ UNCHANGED <<sr, mem, an, stopped, halted>>

Next ==
    \/ Other \/ LoadUsp \/ Push \/ Pop \/ Return
    \/ \E mask \in {sr.mask, 1}, target \in Pc, ret \in Pc, args \in 0 .. 1 :
          Enter(mask, target, ret, args) /\ stopped' \in {stopped, FALSE}

Init ==
    /\ sr = [s |-> TRUE, mask |-> 7]
    /\ sp \in [{"user", "super"} -> Int]
    /\ an = 0 /\ ~stopped /\ ~halted
    /\ pc \in Pc
    /\ mem \in [DOMAIN mem -> Sr \cup {Data}]

Spec == Init /\ [][Next]_vars
=============================================================================
