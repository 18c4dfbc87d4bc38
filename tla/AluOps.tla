------------------------------- MODULE AluOps -------------------------------
(***************************************************************************)
(* Results and condition codes: the flag functions of the interpreter      *)
(* (core/m68k_interp.c) and the code that the JIT emits in their place     *)
(* (jit/codegen.c).  Operands are the unsigned values of Mod = 2 * Half    *)
(* (Half = 2^(w-1) for operands of w bits), so that every size of operand  *)
(* is one value of Half.  The emitted code combines whole registers with   *)
(* and, or and xor and then extracts the top bit; that is the same         *)
(* combination of the operands' top bits.                                  *)
(***************************************************************************)
EXTENDS Integers

CONSTANT Half

ASSUME HalfAssumption == Half \in Nat \ {0}

Mod == 2 * Half
Word == 0 .. (Mod - 1)
Msb(v) == v >= Half
Wrap(v) == v % Mod
Signed(v) == IF Msb(v) THEN v - Mod ELSE v

Ccr == [x : BOOLEAN, n : BOOLEAN, z : BOOLEAN, v : BOOLEAN, c : BOOLEAN]
Bit(b) == IF b THEN 1 ELSE 0

-----------------------------------------------------------------------------
\* The interpreter.

SetFlagsLogic(f, r) == [f EXCEPT !.n = Msb(r), !.z = r = 0, !.v = FALSE, !.c = FALSE]

SetFlagsAdd(s, d, r) ==
    LET carry == s + d > Mod - 1 IN
    [x |-> carry, n |-> Msb(r), z |-> r = 0, c |-> carry,
     v |-> Msb(s) # Msb(r) /\ Msb(d) # Msb(r)]

SetFlagsSub(s, d, r) ==
    [x |-> s > d, n |-> Msb(r), z |-> r = 0, c |-> s > d,
     v |-> Msb(s) # Msb(d) /\ Msb(d) # Msb(r)]

SetFlagsCmp(f, s, d, r) == [SetFlagsSub(s, d, r) EXCEPT !.x = f.x]

\* Mutant of Ge: GE looks at N only.
Ge_IsPl(f) == ~f.n

Ge(f) == f.n = f.v

\* Bcc, Scc and DBcc: conditions 0 to 15.
CondTrue(f, cc) ==
    CASE cc = 0  -> TRUE
      [] cc = 1  -> FALSE
      [] cc = 2  -> ~f.c /\ ~f.z
      [] cc = 3  -> f.c \/ f.z
      [] cc = 4  -> ~f.c
      [] cc = 5  -> f.c
      [] cc = 6  -> ~f.z
      [] cc = 7  -> f.z
      [] cc = 8  -> ~f.v
      [] cc = 9  -> f.v
      [] cc = 10 -> ~f.n
      [] cc = 11 -> f.n
      [] cc = 12 -> Ge(f)
      [] cc = 13 -> ~Ge(f)
      [] cc = 14 -> ~f.z /\ Ge(f)
      [] cc = 15 -> f.z \/ ~Ge(f)

\* A result and the flags after it.
Out(r, f) == [r |-> r, f |-> f]

Add(f, s, d) == LET r == Wrap(d + s) IN Out(r, SetFlagsAdd(s, d, r))
Sub(f, s, d) == LET r == Wrap(d - s) IN Out(r, SetFlagsSub(s, d, r))
Cmp(f, s, d) == Out(d, SetFlagsCmp(f, s, d, Wrap(d - s)))

\* Mutant of AddX: Z is set afresh.
AddX_NewZ(f, s, d) ==
    LET r == Wrap(d + s + Bit(f.x))
        carry == s + d + Bit(f.x) > Mod - 1
    IN  Out(r, [x |-> carry, n |-> Msb(r), z |-> r = 0, c |-> carry,
                v |-> Msb(s) # Msb(r) /\ Msb(d) # Msb(r)])

AddX(f, s, d) ==
    LET r == Wrap(d + s + Bit(f.x))
        carry == s + d + Bit(f.x) > Mod - 1
    IN  Out(r, [x |-> carry, n |-> Msb(r), z |-> f.z /\ r = 0, c |-> carry,
                v |-> Msb(s) # Msb(r) /\ Msb(d) # Msb(r)])

SubX(f, s, d) ==
    LET r == Wrap(d - s - Bit(f.x))
        borrow == s + Bit(f.x) > d
    IN  Out(r, [x |-> borrow, n |-> Msb(r), z |-> f.z /\ r = 0, c |-> borrow,
                v |-> Msb(s) # Msb(d) /\ Msb(d) # Msb(r)])

NegX(f, d) ==
    LET r == Wrap(0 - d - Bit(f.x))
        borrow == d # 0 \/ f.x
    IN  Out(r, [x |-> borrow, n |-> Msb(r), z |-> f.z /\ r = 0, c |-> borrow,
                v |-> Msb(d) /\ Msb(r)])

-----------------------------------------------------------------------------
\* Shifts and rotates: the loop of do_shift, one bit at a time.

ShiftOps == {"asr", "lsr", "roxr", "ror", "asl", "lsl", "roxl", "rol"}

\* Mutant of AslChanged: only the last shift counts for V.
AslChanged_LastBit(t, up) == Msb(up) # Msb(t.val)

AslChanged(t, up) == t.ovf \/ (Msb(up) # Msb(t.val))

ShiftOnce(op, t) ==
    LET top == Msb(t.val)
        low == t.val % 2 = 1
        up == (2 * t.val) % Mod
        down == t.val \div 2
    IN  CASE op = "asr"  -> [t EXCEPT !.val = down + Half * Bit(top), !.out = low]
          [] op = "lsr"  -> [t EXCEPT !.val = down, !.out = low]
          [] op = "roxr" -> [t EXCEPT !.val = down + Half * Bit(t.x), !.x = low, !.out = low]
          [] op = "ror"  -> [t EXCEPT !.val = down + Half * Bit(low), !.out = low]
          [] op = "asl"  -> [t EXCEPT !.val = up, !.out = top, !.ovf = AslChanged(t, up)]
          [] op = "lsl"  -> [t EXCEPT !.val = up, !.out = top]
          [] op = "roxl" -> [t EXCEPT !.val = up + Bit(t.x), !.x = top, !.out = top]
          [] op = "rol"  -> [t EXCEPT !.val = up + Bit(top), !.out = top]

Shifted(op, f, val, cnt) ==
    LET after[i \in 0 .. cnt] ==
            IF i = 0 THEN [val |-> val, x |-> f.x, out |-> FALSE, ovf |-> FALSE]
            ELSE ShiftOnce(op, after[i - 1])
    IN  after[cnt]

DoShift(op, f, val, cnt) ==
    IF cnt = 0
    THEN Out(val, [f EXCEPT !.c = op \in {"roxr", "roxl"} /\ f.x, !.v = FALSE,
                            !.n = Msb(val), !.z = val = 0])
    ELSE LET t == Shifted(op, f, val, cnt) IN
         Out(t.val, [z |-> t.val = 0, n |-> Msb(t.val), c |-> t.out, v |-> t.ovf,
                     x |-> CASE op \in {"roxr", "roxl"} -> t.x
                             [] op \in {"ror", "rol"} -> f.x
                             [] OTHER -> t.out])

-----------------------------------------------------------------------------
\* Packed decimal bytes, in 16-bit arithmetic.

Low(b) == b % 16
High(b) == b - (b % 16)
U16(v) == v % 65536
OverNinety(v) == (v % 512) - (v % 16) > 144

BcdFlags(f, res, carry, src, dst) ==
    LET neg == res >= 128 IN
    [x |-> carry, c |-> carry, n |-> neg, z |-> f.z /\ res = 0,
     v |-> (src >= 128) # (dst >= 128) /\ neg # (dst >= 128)]

\* Mutant of BcdAbcd: the low digit does not carry.
BcdAbcd_NoLowCarry(f, src, dst) ==
    LET v == High(src) + High(dst) + Low(src) + Low(dst) + Bit(f.x)
        carry == OverNinety(v)
        res == (IF carry THEN v + 96 ELSE v) % 256
    IN  Out(res, BcdFlags(f, res, carry, src, dst))

BcdAbcd(f, src, dst) ==
    LET lo0 == Low(src) + Low(dst) + Bit(f.x)
        lo == IF lo0 > 9 THEN lo0 + 6 ELSE lo0
        v == High(src) + High(dst) + lo
        carry == OverNinety(v)
        res == (IF carry THEN v + 96 ELSE v) % 256
    IN  Out(res, BcdFlags(f, res, carry, src, dst))

BcdDiff(f, src, dst) ==
    LET lo0 == U16(Low(dst) - Low(src) - Bit(f.x))
        hi0 == U16(High(dst) - High(src))
        lo == IF lo0 > 9 THEN U16(lo0 - 6) ELSE lo0
        hi == IF lo0 > 9 THEN U16(hi0 - 16) ELSE hi0
        v == U16(hi + (lo % 16))
        carry == OverNinety(hi)
    IN  [carry |-> carry, res |-> (IF carry THEN U16(v - 96) ELSE v) % 256]

BcdSbcd(f, src, dst) ==
    LET t == BcdDiff(f, src, dst) IN Out(t.res, BcdFlags(f, t.res, t.carry, src, dst))

BcdNbcd(f, dst) ==
    LET t == BcdDiff(f, dst, 0) IN
    Out(t.res, [BcdFlags(f, t.res, t.carry, dst, 0) EXCEPT !.v = FALSE])

-----------------------------------------------------------------------------
\* Division of a double word by a word.

Wide == Mod * Mod
SignedWide(v) == IF v >= Wide \div 2 THEN v - Wide ELSE v
Overflowed(f, dv) == [zero |-> FALSE, r |-> dv,
                      f |-> [f EXCEPT !.n = FALSE, !.z = FALSE, !.v = TRUE, !.c = FALSE]]
Divided(f, q, r) == [zero |-> FALSE,
                     r |-> Wrap(r) * Mod + Wrap(q), f |-> SetFlagsLogic(f, Wrap(q))]
NoDivision(f, dv) == [zero |-> TRUE, r |-> dv, f |-> f]

DivU(f, div, dv) ==
    IF div = 0 THEN NoDivision(f, dv)
    ELSE IF dv \div div > Mod - 1 THEN Overflowed(f, dv)
    ELSE Divided(f, dv \div div, dv % div)

\* The quotient of C, which rounds towards zero.
Trunc(a, b) == LET q == (IF a < 0 THEN -a ELSE a) \div (IF b < 0 THEN -b ELSE b)
               IN  IF (a < 0) # (b < 0) THEN -q ELSE q

\* The division is made before its quotient is compared with the range of a word,
\* and C does not define that of the most negative dividend by -1.
UndefinedDiv(div, dv) == SignedWide(dv) = -(Wide \div 2) /\ Signed(div) = -1

\* The outcomes of DIVS: one, or where C defines none any result, with any flags
\* and with or without the exception of a division by zero.  A processor on which
\* the division traps makes no step at all.
DivS(f, div, dv) ==
    LET a == SignedWide(dv)
        b == Signed(div)
        q == Trunc(a, b)
    IN  IF div = 0 THEN {NoDivision(f, dv)}
        ELSE IF UndefinedDiv(div, dv) THEN [zero : BOOLEAN, r : 0 .. (Wide - 1), f : Ccr]
        ELSE IF q > Half - 1 \/ q < -Half THEN {Overflowed(f, dv)}
        ELSE {Divided(f, q, a - q * b)}

-----------------------------------------------------------------------------
\* The code emitted by the JIT.

EmitLogicFlags(f, r) == [x |-> f.x, n |-> Msb(r), z |-> r = 0, v |-> FALSE, c |-> FALSE]

\* Mutant of EmitAddSubFlags: the borrow formula is that of the carry.
EmitAddSubFlags_BorrowAsCarry(f, isSub, keepX, s, d, r) ==
    LET carry == (Msb(s) /\ Msb(d)) \/ ((Msb(s) \/ Msb(d)) /\ ~Msb(r)) IN
    [x |-> IF keepX THEN f.x ELSE carry, c |-> carry, n |-> Msb(r), z |-> r = 0,
     v |-> (Msb(s) # IF isSub THEN Msb(d) ELSE Msb(r)) /\ (Msb(d) # Msb(r))]

\* emit_addsub_flags_long_masked: the mask is widened to N, Z, V and C before
\* it is looked at, so the sequence is always the full one.
EmitAddSubFlags(f, isSub, keepX, s, d, r) ==
    LET dd == IF isSub THEN ~Msb(d) ELSE Msb(d)
        rr == IF isSub THEN Msb(r) ELSE ~Msb(r)
        carry == (Msb(s) /\ dd) \/ ((Msb(s) \/ dd) /\ rr)
    IN  [x |-> IF keepX THEN f.x ELSE carry, c |-> carry, n |-> Msb(r), z |-> r = 0,
         v |-> (Msb(s) # IF isSub THEN Msb(d) ELSE Msb(r)) /\ (Msb(d) # Msb(r))]

InlineAdd(f, s, d) == LET r == Wrap(s + d) IN Out(r, EmitAddSubFlags(f, FALSE, FALSE, s, d, r))
InlineSub(f, s, d) == LET r == Wrap(d - s) IN Out(r, EmitAddSubFlags(f, TRUE, FALSE, s, d, r))
InlineCmp(f, s, d) ==
    LET r == Wrap(d - s) IN Out(d, EmitAddSubFlags(f, TRUE, TRUE, s, d, r))

\* The inline ADDX.L and SUBX.L: Z is cleared when the result is not 0, after
\* the flag code has written it.
InlineAddX(f, isSub, s, d) ==
    LET r == IF isSub THEN Wrap(d - s - Bit(f.x)) ELSE Wrap(s + d + Bit(f.x))
        g == EmitAddSubFlags(f, isSub, FALSE, s, d, r)
    IN  Out(r, [g EXCEPT !.z = @ /\ r = 0])
=============================================================================
