-------------------------------- MODULE Via ---------------------------------
(***************************************************************************)
(* The 6522 VIA of core/mac_mem.c: interrupt flags, the two timers, the    *)
(* shift register and its CB2 line, and the part of mac_mem_tick that      *)
(* advances them.  A VIA is a record; each operator is one register access *)
(* or one step of the tick.  Times are relative to the cycle counter:      *)
(* gap is cycles - last_cycle and vbl is next_vbl - cycles.  A timer       *)
(* value is written in one access; the code assembles it from two bytes.   *)
(***************************************************************************)
EXTENDS Integers, FiniteSets

CONSTANTS
    TimerMod,     \* values of a timer, 65536
    Divider,      \* CPU cycles per VIA count, 10
    VblCycles     \* CPU cycles per vertical blank

ASSUME ViaAssumption == {TimerMod, Divider, VblCycles} \subseteq Nat \ {0}

Irqs == {"CA1", "CA2", "SR", "CB1", "CB2", "T1", "T2"}
Modes == {0, 3, 6, 7}
Timer == 0 .. (TimerMod - 1)

ViaInit == [ifr |-> {}, ier |-> {}, irq |-> FALSE,
            free |-> FALSE, mode |-> 0, sr |-> 0, icb2 |-> 0,
            t1c |-> TimerMod - 1, t1l |-> 0, t1armed |-> FALSE,
            t2c |-> TimerMod - 1, t2armed |-> FALSE,
            gap |-> 0, lastZero |-> TRUE, rem |-> 0, vbl |-> VblCycles]

\* mac_via_recalc_irq: bit 7 of IFR and the interrupt line of the CPU.
RecalcIrq(v) == [v EXCEPT !.irq = v.ifr \cap v.ier # {}]

Clear(v, flags) == RecalcIrq([v EXCEPT !.ifr = @ \ flags])
SetIrq(v, flags) == RecalcIrq([v EXCEPT !.ifr = @ \cup flags])

-----------------------------------------------------------------------------
\* Register accesses.

\* Reads of ORB, ORA, T1C-L, T2C-L and SR clear the flags of their source.
ClearedBy == [orb |-> {"CB1", "CB2"}, ora |-> {"CA1", "CA2"}, t1cl |-> {"T1"},
              t2cl |-> {"T2"}, sr |-> {"SR"}]
ReadRegister(v, reg) == Clear(v, ClearedBy[reg])

WriteIfr(v, flags) == Clear(v, flags)
WriteIer(v, set, flags) ==
    RecalcIrq([v EXCEPT !.ier = IF set THEN @ \cup flags ELSE @ \ flags])

WriteT1Latch(v, n) == [v EXCEPT !.t1l = n]

WriteT1Counter(v, n) == Clear([v EXCEPT !.t1l = n, !.t1c = n, !.t1armed = TRUE], {"T1"})

WriteT2Counter(v, n) == Clear([v EXCEPT !.t2c = n, !.t2armed = TRUE], {"T2"})

\* Bit 6 of ACR.
WriteFree(v, b) == [v EXCEPT !.free = b]

-----------------------------------------------------------------------------
\* mac_mem_tick.

\* Cycles since the last tick; a stamp of 0 stands for no stamp.
ElapsedCycles(v) == IF v.lastZero THEN 0 ELSE v.gap
Counts(v) == (v.rem + ElapsedCycles(v)) \div Divider

Stamp(v) ==
    [v EXCEPT !.gap = 0, !.lastZero = @ /\ v.gap = 0,
              !.rem = (@ + ElapsedCycles(v)) % Divider]

\* Mutant of T1Tick: a one-shot stays armed.
T1Tick_StaysArmed(v, n) ==
    IF n >= v.t1c
    THEN [v EXCEPT !.ifr = IF v.t1armed THEN @ \cup {"T1"} ELSE @,
                   !.t1c = IF v.t1l = 0 THEN 0 ELSE (n - v.t1c) % (v.t1l + 1)]
    ELSE [v EXCEPT !.t1c = @ - n]

T1Tick(v, n) ==
    IF n >= v.t1c
    THEN [v EXCEPT !.ifr = IF v.t1armed THEN @ \cup {"T1"} ELSE @,
                   !.t1armed = @ /\ v.free,
                   !.t1c = IF v.t1l = 0 THEN 0 ELSE (n - v.t1c) % (v.t1l + 1)]
    ELSE [v EXCEPT !.t1c = @ - n]

T2Tick(v, n) ==
    LET fires == v.t2armed /\ n >= v.t2c IN
    [v EXCEPT !.ifr = IF fires THEN @ \cup {"T2"} ELSE @,
              !.t2armed = @ /\ ~fires,
              !.t2c = (@ - n) % TimerMod]

\* Several vertical blanks can have passed since the last tick.
VblTick(v) ==
    IF v.vbl > 0 THEN v
    ELSE [v EXCEPT !.ifr = @ \cup {"CA1"}, !.vbl = @ + VblCycles * ((-@) \div VblCycles + 1)]

\* The line is computed again only when a flag was raised.
Raised(v, n) ==
    \/ n > 0 /\ v.t1armed /\ n >= v.t1c
    \/ n > 0 /\ v.t2armed /\ n >= v.t2c
ViaTick(v) ==
    LET n == Counts(v)
        done == VblTick(IF n > 0 THEN T2Tick(T1Tick(v, n), n) ELSE v)
    IN  Stamp(IF Raised(v, n) \/ v.vbl <= 0 THEN RecalcIrq(done) ELSE done)
=============================================================================
