-------------------------------- MODULE Alu ---------------------------------
(***************************************************************************)
(* Every arithmetic instruction on every operand of a small width, run by  *)
(* the interpreter and, where the JIT has an inline arm for it, by the     *)
(* emitted code; and the sequences of two instructions that add, subtract  *)
(* and negate numbers of two words.  What the flags and results must be is *)
(* stated in terms of integers.                                            *)
(***************************************************************************)
EXTENDS AluOps, Sequences

CONSTANTS
    MaxCount,    \* largest shift count
    Decimals     \* decimal operands, packed two digits to a byte

Pow2[n \in Nat] == IF n = 0 THEN 1 ELSE 2 * Pow2[n - 1]

\* Operands are words of bits: 8, 16 or 32 of them in the code.
ASSUME AluAssumption ==
    /\ MaxCount \in Nat /\ Decimals \subseteq 0 .. 99
    /\ \E w \in 1 .. Mod : Pow2[w] = Mod

VARIABLES
    job,         \* the instruction, its operands and the flags before it
    step,        \* instructions executed
    out,         \* the interpreter's results, one per instruction
    inline       \* the emitted code's

vars == <<job, step, out, inline>>

\* The flags that no instruction reads are clear before it.
Before == {[x |-> x, n |-> FALSE, z |-> z, v |-> FALSE, c |-> FALSE] : x, z \in BOOLEAN}

Jobs ==
    [op : {"add", "sub", "cmp", "addx", "subx", "logic"}, f : Before, s : Word, d : Word]
    \cup [op : ShiftOps, f : Before, s : 0 .. MaxCount, d : Word]
    \cup [op : {"abcd", "sbcd", "nbcd"}, f : Before, s : Decimals, d : Decimals]
    \cup [op : {"divu", "divs"}, f : Before, s : Word, d : 0 .. (Wide - 1)]
    \cup [op : {"addx2", "subx2", "negx2"}, f : Before, s : 0 .. (Wide - 1), d : 0 .. (Wide - 1)]

Init == job \in Jobs /\ step = 0 /\ out = <<>> /\ inline = <<>>

Finish(o, j) == step' = 1 /\ out' = <<o>> /\ inline' = j /\ UNCHANGED job

Arith ==
    /\ step = 0
    /\ LET f == job.f  s == job.s  d == job.d IN
       \/ job.op = "add" /\ Finish(Add(f, s, d), <<InlineAdd(f, s, d)>>)
       \/ job.op = "sub" /\ Finish(Sub(f, s, d), <<InlineSub(f, s, d)>>)
       \/ job.op = "cmp" /\ Finish(Cmp(f, s, d), <<InlineCmp(f, s, d)>>)
       \/ job.op = "addx" /\ Finish(AddX(f, s, d), <<InlineAddX(f, FALSE, s, d)>>)
       \/ job.op = "subx" /\ Finish(SubX(f, s, d), <<InlineAddX(f, TRUE, s, d)>>)
       \/ job.op = "logic" /\ Finish(Out(d, SetFlagsLogic(f, d)), <<Out(d, EmitLogicFlags(f, d))>>)

Shift == step = 0 /\ job.op \in ShiftOps /\ Finish(DoShift(job.op, job.f, job.d, job.s), <<>>)

\* A packed decimal byte.
Packed(n) == 16 * (n \div 10) + (n % 10)

Bcd ==
    /\ step = 0
    /\ \/ job.op = "abcd" /\ Finish(BcdAbcd(job.f, Packed(job.s), Packed(job.d)), <<>>)
       \/ job.op = "sbcd" /\ Finish(BcdSbcd(job.f, Packed(job.s), Packed(job.d)), <<>>)
       \/ job.op = "nbcd" /\ Finish(BcdNbcd(job.f, Packed(job.d)), <<>>)

Div ==
    /\ step = 0
    /\ \/ job.op = "divu" /\ Finish(DivU(job.f, job.s, job.d), <<>>)
       \/ job.op = "divs" /\ \E o \in DivS(job.f, job.s, job.d) : Finish(o, <<>>)

\* Two instructions on the low and then on the high words; the second reads the
\* flags the first left.
Chain ==
    /\ job.op \in {"addx2", "subx2", "negx2"} /\ step < 2
    /\ LET f == IF step = 0 THEN job.f ELSE out[1].f
           s == IF step = 0 THEN job.s % Mod ELSE job.s \div Mod
           d == IF step = 0 THEN job.d % Mod ELSE job.d \div Mod
       IN  out' = Append(out, CASE job.op = "addx2" -> AddX(f, s, d)
                                [] job.op = "subx2" -> SubX(f, s, d)
                                [] job.op = "negx2" -> NegX(f, d))
    /\ step' = step + 1
    /\ UNCHANGED <<job, inline>>

Done == step > 0 /\ (Len(out) = 2 \/ job.op \notin {"addx2", "subx2", "negx2"}) /\ UNCHANGED vars

Next == Arith \/ Shift \/ Bcd \/ Div \/ Chain \/ Done

Spec == Init /\ [][Next]_vars

-----------------------------------------------------------------------------
TypeOK ==
    /\ job \in Jobs /\ step \in 0 .. 2
    /\ \A i \in DOMAIN out : out[i].f \in Ccr /\ out[i].r \in 0 .. (Wide - 1) \cup 0 .. 255
    /\ \A i \in DOMAIN inline : inline[i].f \in Ccr /\ inline[i].r \in Word

\* After CMP each of the sixteen conditions of cond_true says of the operands what
\* its name says: HI, LS, CC, CS of the unsigned, GE, LT, GT, LE of the signed ones.
Compares(cc, s, d) ==
    CASE cc = 2 -> d > s          [] cc = 3 -> d <= s
      [] cc = 4 -> d >= s         [] cc = 5 -> d < s
      [] cc = 6 -> d # s          [] cc = 7 -> d = s
      [] cc = 12 -> Signed(d) >= Signed(s) [] cc = 13 -> Signed(d) < Signed(s)
      [] cc = 14 -> Signed(d) > Signed(s)  [] cc = 15 -> Signed(d) <= Signed(s)
ConditionsMean ==
    step = 1 /\ job.op = "cmp" =>
        \A cc \in {2, 3, 4, 5, 6, 7, 12, 13, 14, 15} :
            CondTrue(out[1].f, cc) = Compares(cc, job.s, job.d)

\* The V and C flags of ADD and SUB tell whether the exact result fits, as a signed
\* and as an unsigned word (set_flags_add, set_flags_sub).
OverflowMeans ==
    step = 1 /\ job.op \in {"add", "sub"} =>
        LET exact(a, b) == IF job.op = "add" THEN a + b ELSE a - b
            sum == exact(Signed(job.d), Signed(job.s))
            f == out[1].f
        IN  /\ f.v = (sum < -Half \/ sum > Half - 1)
            /\ f.c = (exact(job.d, job.s) \notin Word)
            /\ ~f.v => Signed(out[1].r) = sum

\* The flags mean what the 68000 says they mean, for every pair of operands.
FlagsMean == TypeOK /\ ConditionsMean /\ OverflowMeans

\* The emitted code of ADD, SUB, CMP and the logic instructions leaves the result
\* and the flags of the interpreter.
InlinePlainAgrees ==
    step = 1 /\ job.op \in {"add", "sub", "cmp", "logic"} => inline[1] = out[1]

\* The inline ADDX and SUBX agree in everything but Z; in Z too when the program
\* had set it, as it does before the first word of a chain.
InlineXAgrees ==
    step = 1 /\ job.op \in {"addx", "subx"} =>
        /\ inline[1].r = out[1].r
        /\ inline[1].f = [out[1].f EXCEPT !.z = inline[1].f.z]
        /\ job.f.z => inline[1].f.z = out[1].f.z

\* The code generator and the interpreter compute the same results and flags from
\* different formulas, but for the Z of ADDX and SUBX (emit_addsub_flags_long_masked).
InlineAgrees == InlinePlainAgrees /\ InlineXAgrees

\* Two words chained through X are the sum, difference or negation of the double
\* words, with its carry, and Z tells whether the whole result is 0.
ChainsCarry ==
    step = 2 =>
        LET x == Bit(job.f.x)
            exact == CASE job.op = "addx2" -> job.d + job.s + x
                       [] job.op = "subx2" -> job.d - job.s - x
                       [] job.op = "negx2" -> -job.d - x
            result == out[2].r * Mod + out[1].r
        IN  /\ result = exact % Wide
            /\ out[2].f.c = (exact \notin 0 .. (Wide - 1))
            /\ out[2].f.z = (job.f.z /\ result = 0)

\* The width of an operand, and a rotated to the left by k places in a ring of size
\* bits, which has mod values.
Width == CHOOSE w \in 1 .. Mod : Pow2[w] = Mod
Rot(a, m, size, mod) == ((a * Pow2[m]) % mod) + (a \div Pow2[size - m])
Rotl(a, k, size, mod) == Rot(a, k % size, size, mod)

\* do_shift computes what shifting and rotating by the whole count computes; V after
\* ASL tells whether the sign changed on the way, C is the last bit out, and X follows
\* it except in the plain rotates.
ShiftsMean ==
    step = 1 /\ job.op \in ShiftOps =>
        LET n == job.s
            v == job.d
            res == out[1].r
            f == out[1].f
            ring == v + Mod * Bit(job.f.x)       \* X above the operand
            after == res + Mod * Bit(f.x)
        IN  /\ job.op = "lsr" => res = v \div Pow2[n]
            /\ job.op \in {"lsl", "asl"} => res = (v * Pow2[n]) % Mod
            /\ job.op = "asr" => Signed(res) = Signed(v) \div Pow2[n]
            /\ job.op = "rol" => res = Rotl(v, n, Width, Mod)
            /\ job.op = "ror" => v = Rotl(res, n, Width, Mod)
            /\ job.op = "roxl" => after = Rotl(ring, n, Width + 1, 2 * Mod)
            /\ job.op = "roxr" => ring = Rotl(after, n, Width + 1, 2 * Mod)
            /\ f.v = (job.op = "asl" /\ Signed(v) * Pow2[n] \notin (-Half) .. (Half - 1))
            /\ n > 0 /\ job.op = "lsr" => f.c = ((v \div Pow2[n - 1]) % 2 = 1)
            /\ n > 0 /\ job.op = "asr" => f.c = ((Signed(v) \div Pow2[n - 1]) % 2 = 1)
            /\ n > 0 /\ job.op \in {"lsl", "asl"} => f.c = Msb((v * Pow2[n - 1]) % Mod)
            /\ n > 0 /\ job.op = "rol" => f.c = (res % 2 = 1)
            /\ n > 0 /\ job.op = "ror" => f.c = Msb(res)
            /\ job.op \in {"roxl", "roxr"} => f.c = f.x
            /\ n = 0 \/ job.op \in {"rol", "ror"} => f.x = job.f.x
            /\ n > 0 /\ job.op \in {"lsr", "asr", "lsl", "asl"} => f.x = f.c

\* ABCD, SBCD and NBCD on packed digits are decimal arithmetic modulo 100, chained
\* through X, with Z never set.
BcdMeans ==
    step = 1 /\ job.op \in {"abcd", "sbcd", "nbcd"} =>
        LET x == Bit(job.f.x)
            exact == CASE job.op = "abcd" -> job.d + job.s + x
                       [] job.op = "sbcd" -> job.d - job.s - x
                       [] job.op = "nbcd" -> -job.d - x
        IN  /\ out[1].r = Packed(exact % 100)
            /\ out[1].f.c = (exact \notin 0 .. 99) /\ out[1].f.x = out[1].f.c
            /\ out[1].f.z = (job.f.z /\ exact % 100 = 0)

\* A quotient and a remainder that fit are those of the dividend, with the
\* remainder's sign that of the dividend; one that does not fit leaves the register
\* and sets V.  Nothing is said of the one division that C does not define.
DivMeans ==
    /\ step = 1 /\ job.op \in {"divu", "divs"} /\ ~out[1].zero
    /\ ~(job.op = "divs" /\ UndefinedDiv(job.s, job.d))
    =>
        LET sg(v) == IF job.op = "divs" THEN Signed(v) ELSE v
            dv == IF job.op = "divs" THEN SignedWide(job.d) ELSE job.d
            q == sg(out[1].r % Mod)
            r == sg(out[1].r \div Mod)
            abs(a) == IF a < 0 THEN -a ELSE a
            fits == \E k \in Word : \E rr \in (-Mod) .. Mod :
                        /\ sg(k) * sg(job.s) + rr = dv /\ abs(rr) < abs(sg(job.s))
                        /\ (rr = 0 \/ (rr < 0) = (dv < 0))
        IN  /\ out[1].f.v = ~fits
            /\ ~fits => out[1].r = job.d
            /\ fits => /\ q * sg(job.s) + r = dv /\ abs(r) < abs(sg(job.s))
                       /\ r = 0 \/ (r < 0) = (dv < 0)

\* Decimal arithmetic and division give the mathematical result or say they cannot
\* (bcd_abcd, bcd_sbcd, bcd_nbcd, DIVU, and DIVS wherever C defines it).
DecimalAndDivisionMean == BcdMeans /\ DivMeans
=============================================================================
