----------------------------- MODULE AluProofs ------------------------------
(***************************************************************************)
(* Proofs about Alu: the flags and results of the arithmetic instructions  *)
(* mean what they should, and the emitted code agrees with the             *)
(* interpreter, for operands of every width.                               *)
(*                                                                         *)
(* The specification runs one instruction, or two, and stops: its          *)
(* invariant says which operator of AluOps produced the results it holds   *)
(* (Ran), and what the results are is a matter of lemmas about the         *)
(* operators.  The recursions are the loop of do_shift and the powers of   *)
(* two; what holds along them is shown by least counterexample (CountUp).  *)
(***************************************************************************)
EXTENDS Alu, WellFoundedInduction, NaturalsInduction, TLAPS

-----------------------------------------------------------------------------
\* Arithmetic modulo Mod.

\* The modulus is even and at least 2.
LEMMA ModFacts == Half \in Nat /\ Half >= 1 /\ Mod \in Nat /\ Mod = 2 * Half /\ Mod >= 2
  BY HalfAssumption DEF Mod

\* A quotient and a remainder are the only ones that fit.
LEMMA DivisionUnique ==
    ASSUME NEW m \in Nat, m > 0, NEW v \in Int, NEW k \in Int, 0 <= v - k * m, v - k * m < m
    PROVE  v % m = v - k * m /\ v \div m = k
  OBVIOUS

\* Wrap adds or subtracts the modulus once when the value is one modulus away.
LEMMA WrapFacts ==
    ASSUME NEW v \in Int
    PROVE  /\ Wrap(v) \in Word
           /\ 0 <= v /\ v < Mod => Wrap(v) = v
           /\ Mod <= v /\ v < 2 * Mod => Wrap(v) = v - Mod
           /\ -Mod <= v /\ v < 0 => Wrap(v) = v + Mod
  <1>1. Wrap(v) \in Word
    BY ModFacts DEF Wrap, Word
  <1>2. 0 <= v /\ v < Mod => Wrap(v) = v
    BY ModFacts, DivisionUnique, 0 \in Int, v - 0 * Mod = v DEF Wrap
  <1>3. Mod <= v /\ v < 2 * Mod => Wrap(v) = v - Mod
    BY ModFacts, DivisionUnique, 1 \in Int, v - 1 * Mod = v - Mod DEF Wrap
  <1>4. -Mod <= v /\ v < 0 => Wrap(v) = v + Mod
    BY ModFacts, DivisionUnique, -1 \in Int, v - (-1) * Mod = v + Mod DEF Wrap
  <1> QED BY <1>1, <1>2, <1>3, <1>4

-----------------------------------------------------------------------------
\* The sum and the difference of two operands and a carry, with what their top
\* bits say.

\* A sum and its carry.
LEMMA SumFacts ==
    ASSUME NEW s \in Word, NEW d \in Word, NEW b \in {0, 1}, NEW r, r = Wrap(d + s + b)
    PROVE  /\ r \in Word
           /\ s + d + b > Mod - 1 => r = s + d + b - Mod
           /\ ~(s + d + b > Mod - 1) => r = s + d + b
  <1>1. s \in Int /\ d \in Int /\ 0 <= s /\ 0 <= d /\ s < Mod /\ d < Mod /\ d + s + b = s + d + b
    BY ModFacts DEF Word
  <1>2. d + s + b \in Int /\ 0 <= d + s + b /\ d + s + b < 2 * Mod
    BY <1>1, ModFacts
  <1> QED BY <1>1, <1>2, WrapFacts, ModFacts

\* A difference and its borrow.
LEMMA DifferenceFacts ==
    ASSUME NEW s \in Word, NEW d \in Word, NEW b \in {0, 1}, NEW r, r = Wrap(d - s - b)
    PROVE  /\ r \in Word
           /\ s + b > d => r = d - s - b + Mod
           /\ ~(s + b > d) => r = d - s - b
  <1>1. s \in Int /\ d \in Int /\ 0 <= s /\ 0 <= d /\ s < Mod /\ d < Mod
    BY ModFacts DEF Word
  <1>2. d - s - b \in Int /\ -Mod <= d - s - b /\ d - s - b < Mod
    BY <1>1, ModFacts
  <1>3. (s + b > d) <=> (d - s - b < 0)
    BY <1>1
  <1> QED BY <1>1, <1>2, <1>3, WrapFacts, ModFacts

\* Bit is 0 or 1.
LEMMA BitFacts == \A b \in BOOLEAN : Bit(b) \in {0, 1} /\ (b => Bit(b) = 1) /\ (~b => Bit(b) = 0)
  BY DEF Bit

\* A record of five flags.
LEMMA FlagRecord ==
    ASSUME NEW x \in BOOLEAN, NEW n \in BOOLEAN, NEW z \in BOOLEAN, NEW c \in BOOLEAN,
           NEW v \in BOOLEAN
    PROVE  LET f == [x |-> x, n |-> n, z |-> z, c |-> c, v |-> v] IN
           /\ f \in Ccr
           /\ (f.x <=> x) /\ (f.n <=> n) /\ (f.z <=> z) /\ (f.c <=> c) /\ (f.v <=> v)
  BY DEF Ccr

-----------------------------------------------------------------------------
\* What each instruction computes.

\* The flags of a sum: set_flags_add, and the ADDX case that adds X.
LEMMA AddMeans ==
    ASSUME NEW f \in Ccr, NEW s \in Word, NEW d \in Word
    PROVE  LET o == Add(f, s, d)
               sum == Signed(d) + Signed(s)
           IN  /\ o.r \in Word /\ o.f \in Ccr
               /\ o.f.v <=> (sum < -Half \/ sum > Half - 1)
               /\ o.f.c <=> d + s \notin Word
               /\ ~o.f.v => Signed(o.r) = sum
  <1> DEFINE r == Wrap(d + s)
             carry == s + d > Mod - 1
  <1>1. s \in Int /\ d \in Int /\ 0 <= s /\ 0 <= d /\ s < Mod /\ d < Mod
    BY ModFacts DEF Word
  <1>2. r = Wrap(d + s + 0) /\ s + d + 0 = s + d
    BY <1>1
  <1> HIDE DEF r
  <1>3. /\ r \in Word
        /\ s + d > Mod - 1 => r = s + d - Mod
        /\ ~(s + d > Mod - 1) => r = s + d
    <2>1. /\ r \in Word
          /\ s + d + 0 > Mod - 1 => r = s + d + 0 - Mod
          /\ ~(s + d + 0 > Mod - 1) => r = s + d + 0
      BY <1>2, SumFacts, 0 \in {0, 1}
    <2> QED BY <2>1, <1>1, <1>2, ModFacts
  <1>4. r \in Int /\ 0 <= r /\ r < Mod
    BY <1>3, ModFacts DEF Word
  <1>5. Add(f, s, d).r = r /\ Add(f, s, d).f = SetFlagsAdd(s, d, r)
    BY DEF Add, Out, r
  <1>6. /\ SetFlagsAdd(s, d, r) \in Ccr
        /\ SetFlagsAdd(s, d, r).v <=> Msb(s) # Msb(r) /\ Msb(d) # Msb(r)
        /\ SetFlagsAdd(s, d, r).c <=> s + d > Mod - 1
    <2>1. /\ (s + d > Mod - 1) \in BOOLEAN /\ Msb(r) \in BOOLEAN /\ (r = 0) \in BOOLEAN
          /\ (Msb(s) # Msb(r) /\ Msb(d) # Msb(r)) \in BOOLEAN
      BY DEF Msb
    <2> QED BY <2>1, FlagRecord DEF SetFlagsAdd
  <1>7. /\ (Msb(s) # Msb(r) /\ Msb(d) # Msb(r))
             <=> (Signed(d) + Signed(s) < -Half \/ Signed(d) + Signed(s) > Half - 1)
        /\ ~(Msb(s) # Msb(r) /\ Msb(d) # Msb(r)) => Signed(r) = Signed(d) + Signed(s)
    BY <1>1, <1>3, <1>4, ModFacts DEF Msb, Signed
  <1>8. s + d > Mod - 1 <=> d + s \notin Word
    BY <1>1, ModFacts DEF Word
  <1> QED BY <1>3, <1>5, <1>6, <1>7, <1>8

\* The flags of a difference: set_flags_sub.
LEMMA SubMeans ==
    ASSUME NEW f \in Ccr, NEW s \in Word, NEW d \in Word
    PROVE  LET o == Sub(f, s, d)
               diff == Signed(d) - Signed(s)
           IN  /\ o.r \in Word /\ o.f \in Ccr
               /\ o.f.v <=> (diff < -Half \/ diff > Half - 1)
               /\ o.f.c <=> d - s \notin Word
               /\ ~o.f.v => Signed(o.r) = diff
               /\ o.f.c <=> d < s
               /\ o.f.z <=> d = s
               /\ (o.f.n <=> o.f.v) <=> Signed(d) >= Signed(s)
  <1> DEFINE r == Wrap(d - s)
  <1>1. s \in Int /\ d \in Int /\ 0 <= s /\ 0 <= d /\ s < Mod /\ d < Mod
    BY ModFacts DEF Word
  <1>2. r = Wrap(d - s - 0) /\ s + 0 = s /\ d - s - 0 = d - s
    BY <1>1
  <1>3. /\ r \in Word
        /\ s > d => r = d - s + Mod
        /\ ~(s > d) => r = d - s
    BY <1>1, <1>2, DifferenceFacts, 0 \in {0, 1}
  <1>4. r \in Int /\ 0 <= r /\ r < Mod
    BY <1>3, ModFacts DEF Word
  <1>5. Sub(f, s, d).r = r /\ Sub(f, s, d).f = SetFlagsSub(s, d, r)
    BY DEF Sub, Out
  <1>6. /\ SetFlagsSub(s, d, r) \in Ccr
        /\ SetFlagsSub(s, d, r).v <=> Msb(s) # Msb(d) /\ Msb(d) # Msb(r)
        /\ SetFlagsSub(s, d, r).c <=> s > d
        /\ SetFlagsSub(s, d, r).z <=> r = 0
        /\ SetFlagsSub(s, d, r).n <=> Msb(r)
    <2>1. /\ (s > d) \in BOOLEAN /\ Msb(r) \in BOOLEAN /\ (r = 0) \in BOOLEAN
          /\ (Msb(s) # Msb(d) /\ Msb(d) # Msb(r)) \in BOOLEAN
      BY DEF Msb
    <2> QED BY <2>1, FlagRecord DEF SetFlagsSub
  <1> HIDE DEF r
  <1>7. /\ (Msb(s) # Msb(d) /\ Msb(d) # Msb(r))
             <=> (Signed(d) - Signed(s) < -Half \/ Signed(d) - Signed(s) > Half - 1)
        /\ ~(Msb(s) # Msb(d) /\ Msb(d) # Msb(r)) => Signed(r) = Signed(d) - Signed(s)
    BY <1>1, <1>3, <1>4, ModFacts DEF Msb, Signed
  <1>8. (Msb(r) <=> (Msb(s) # Msb(d) /\ Msb(d) # Msb(r))) <=> Signed(d) >= Signed(s)
    BY <1>1, <1>3, <1>4, ModFacts DEF Msb, Signed
  <1>9. (s > d <=> d - s \notin Word) /\ (s > d <=> d < s) /\ (r = 0 <=> d = s)
    BY <1>1, <1>3, ModFacts DEF Word
  <1> QED BY <1>3, <1>5, <1>6, <1>7, <1>8, <1>9

\* Every condition of cond_true says of the operands of CMP what its name says.
LEMMA CmpMeans ==
    ASSUME NEW f \in Ccr, NEW s \in Word, NEW d \in Word
    PROVE  LET o == Cmp(f, s, d) IN
           /\ o.r \in Word /\ o.f \in Ccr
           /\ \A cc \in {2, 3, 4, 5, 6, 7, 12, 13, 14, 15} :
                  CondTrue(o.f, cc) <=> Compares(cc, s, d)
  <1> DEFINE g == Cmp(f, s, d).f
             h == Sub(f, s, d).f
  <1>1. s \in Int /\ d \in Int /\ Signed(s) \in Int /\ Signed(d) \in Int
    BY ModFacts DEF Word, Signed
  <1>2. Signed(d) = Signed(s) <=> d = s
    BY ModFacts DEF Word, Signed, Msb
  <1>3. /\ h \in Ccr
        /\ h.c <=> d < s
        /\ h.z <=> d = s
        /\ (h.n <=> h.v) <=> Signed(d) >= Signed(s)
    BY SubMeans
  <1>4. g = [h EXCEPT !.x = f.x] /\ Cmp(f, s, d).r = d
    BY DEF Cmp, Sub, Out, SetFlagsCmp
  <1>5. g \in Ccr /\ g.c = h.c /\ g.z = h.z /\ g.n = h.n /\ g.v = h.v
    BY <1>3, <1>4 DEF Ccr
  <1> HIDE DEF g, h
  <1>6. Ge(g) <=> Signed(d) >= Signed(s)
    <2>1. h.n \in BOOLEAN /\ h.v \in BOOLEAN
      BY <1>3 DEF Ccr
    <2>2. Ge(g) <=> (h.n <=> h.v)
      BY <2>1, <1>5 DEF Ge
    <2> QED BY <2>2, <1>3
  <1>7. (g.c <=> d < s) /\ (g.z <=> d = s)
    BY <1>3, <1>5
  <1>8. /\ d > s <=> ~(d < s) /\ ~(d = s)
        /\ d <= s <=> (d < s \/ d = s)
        /\ d >= s <=> ~(d < s)
        /\ Signed(d) < Signed(s) <=> ~(Signed(d) >= Signed(s))
        /\ Signed(d) > Signed(s) <=> ~(d = s) /\ Signed(d) >= Signed(s)
        /\ Signed(d) <= Signed(s) <=> (d = s \/ ~(Signed(d) >= Signed(s)))
    BY <1>1, <1>2
  <1>9. ASSUME NEW cc \in {2, 3, 4, 5, 6, 7, 12, 13, 14, 15}
        PROVE  CondTrue(g, cc) <=> Compares(cc, s, d)
    <2>1. /\ CondTrue(g, 2) <=> ~g.c /\ ~g.z
          /\ CondTrue(g, 3) <=> (g.c \/ g.z)
          /\ CondTrue(g, 4) <=> ~g.c
          /\ CondTrue(g, 5) <=> g.c
          /\ CondTrue(g, 6) <=> ~g.z
          /\ CondTrue(g, 7) <=> g.z
      BY DEF CondTrue
    <2>2. /\ CondTrue(g, 12) <=> Ge(g)
          /\ CondTrue(g, 13) <=> ~Ge(g)
          /\ CondTrue(g, 14) <=> ~g.z /\ Ge(g)
          /\ CondTrue(g, 15) <=> (g.z \/ ~Ge(g))
      BY DEF CondTrue
    <2>3. /\ Compares(2, s, d) <=> d > s
          /\ Compares(3, s, d) <=> d <= s
          /\ Compares(4, s, d) <=> d >= s
          /\ Compares(5, s, d) <=> d < s
          /\ Compares(6, s, d) <=> d # s
          /\ Compares(7, s, d) <=> d = s
      BY DEF Compares
    <2>4. /\ Compares(12, s, d) <=> Signed(d) >= Signed(s)
          /\ Compares(13, s, d) <=> Signed(d) < Signed(s)
          /\ Compares(14, s, d) <=> Signed(d) > Signed(s)
          /\ Compares(15, s, d) <=> Signed(d) <= Signed(s)
      BY DEF Compares
    <2>5. cc = 2 \/ cc = 3 \/ cc = 4 \/ cc = 5 \/ cc = 6 \/ cc = 7
          \/ cc = 12 \/ cc = 13 \/ cc = 14 \/ cc = 15
      OBVIOUS
    <2>6. CASE cc = 2 \/ cc = 3 \/ cc = 4 \/ cc = 5 \/ cc = 6 \/ cc = 7
      BY <2>1, <2>3, <2>6, <1>7, <1>8
    <2>7. CASE cc = 12 \/ cc = 13 \/ cc = 14 \/ cc = 15
      BY <2>2, <2>4, <2>7, <1>6, <1>7, <1>8
    <2> QED BY <2>5, <2>6, <2>7
  <1> QED BY <1>4, <1>5, <1>9 DEF g

\* ADDX: a sum with X; Z is only ever cleared.
LEMMA AddXMeans ==
    ASSUME NEW f \in Ccr, NEW s \in Word, NEW d \in Word
    PROVE  LET o == AddX(f, s, d)
               b == Bit(f.x)
           IN  /\ o.r \in Word /\ o.f \in Ccr
               /\ o.f.c <=> s + d + b > Mod - 1
               /\ o.f.x <=> o.f.c
               /\ o.f.z <=> f.z /\ o.r = 0
               /\ o.f.c => o.r = s + d + b - Mod
               /\ ~o.f.c => o.r = s + d + b
               /\ o.f.n <=> Msb(o.r)
               /\ o.f.v <=> Msb(s) # Msb(o.r) /\ Msb(d) # Msb(o.r)
  <1> DEFINE b == Bit(f.x)
             r == Wrap(d + s + b)
             carry == s + d + b > Mod - 1
             g == [x |-> carry, n |-> Msb(r), z |-> f.z /\ r = 0, c |-> carry,
                   v |-> Msb(s) # Msb(r) /\ Msb(d) # Msb(r)]
  <1>1. b \in {0, 1} /\ f.z \in BOOLEAN
    BY BitFacts DEF Ccr
  <1>2. AddX(f, s, d).r = r /\ AddX(f, s, d).f = g
    BY DEF AddX, Out
  <1>3. /\ r \in Word
        /\ carry => r = s + d + b - Mod
        /\ ~carry => r = s + d + b
    BY <1>1, SumFacts
  <1>4. /\ carry \in BOOLEAN /\ Msb(r) \in BOOLEAN /\ (f.z /\ r = 0) \in BOOLEAN
        /\ (Msb(s) # Msb(r) /\ Msb(d) # Msb(r)) \in BOOLEAN
    BY <1>1 DEF Msb
  <1> HIDE DEF b, r, carry
  <1>5. /\ g \in Ccr
        /\ (g.x <=> carry) /\ (g.n <=> Msb(r)) /\ (g.z <=> f.z /\ r = 0) /\ (g.c <=> carry)
        /\ g.v <=> Msb(s) # Msb(r) /\ Msb(d) # Msb(r)
    BY <1>4, FlagRecord
  <1> HIDE DEF g
  <1> QED BY <1>2, <1>3, <1>5 DEF b, carry

\* SUBX: a difference with X.
LEMMA SubXMeans ==
    ASSUME NEW f \in Ccr, NEW s \in Word, NEW d \in Word
    PROVE  LET o == SubX(f, s, d)
               b == Bit(f.x)
           IN  /\ o.r \in Word /\ o.f \in Ccr
               /\ o.f.c <=> s + b > d
               /\ o.f.x <=> o.f.c
               /\ o.f.z <=> f.z /\ o.r = 0
               /\ o.f.c => o.r = d - s - b + Mod
               /\ ~o.f.c => o.r = d - s - b
               /\ o.f.n <=> Msb(o.r)
               /\ o.f.v <=> Msb(s) # Msb(d) /\ Msb(d) # Msb(o.r)
  <1> DEFINE b == Bit(f.x)
             r == Wrap(d - s - b)
             borrow == s + b > d
             g == [x |-> borrow, n |-> Msb(r), z |-> f.z /\ r = 0, c |-> borrow,
                   v |-> Msb(s) # Msb(d) /\ Msb(d) # Msb(r)]
  <1>1. b \in {0, 1} /\ f.z \in BOOLEAN
    BY BitFacts DEF Ccr
  <1>2. SubX(f, s, d).r = r /\ SubX(f, s, d).f = g
    BY DEF SubX, Out
  <1>3. /\ r \in Word
        /\ borrow => r = d - s - b + Mod
        /\ ~borrow => r = d - s - b
    BY <1>1, DifferenceFacts
  <1>4. /\ borrow \in BOOLEAN /\ Msb(r) \in BOOLEAN /\ (f.z /\ r = 0) \in BOOLEAN
        /\ (Msb(s) # Msb(d) /\ Msb(d) # Msb(r)) \in BOOLEAN
    BY <1>1 DEF Msb
  <1> HIDE DEF b, r, borrow
  <1>5. /\ g \in Ccr
        /\ (g.x <=> borrow) /\ (g.n <=> Msb(r)) /\ (g.z <=> f.z /\ r = 0) /\ (g.c <=> borrow)
        /\ g.v <=> Msb(s) # Msb(d) /\ Msb(d) # Msb(r)
    BY <1>4, FlagRecord
  <1> HIDE DEF g
  <1> QED BY <1>2, <1>3, <1>5 DEF b, borrow

\* NEGX: 0 minus the operand and X.
LEMMA NegXMeans ==
    ASSUME NEW f \in Ccr, NEW d \in Word
    PROVE  LET o == NegX(f, d)
               b == Bit(f.x)
           IN  /\ o.r \in Word /\ o.f \in Ccr
               /\ o.f.c <=> d + b > 0
               /\ o.f.x <=> o.f.c
               /\ o.f.z <=> f.z /\ o.r = 0
               /\ o.f.c => o.r = Mod - d - b
               /\ ~o.f.c => o.r = 0
  <1> DEFINE b == Bit(f.x)
             r == Wrap(0 - d - b)
             borrow == d # 0 \/ f.x
             g == [x |-> borrow, n |-> Msb(r), z |-> f.z /\ r = 0, c |-> borrow,
                   v |-> Msb(d) /\ Msb(r)]
  <1>1. b \in {0, 1} /\ f.z \in BOOLEAN /\ f.x \in BOOLEAN /\ (f.x <=> b = 1)
    BY BitFacts DEF Ccr
  <1>2. NegX(f, d).r = r /\ NegX(f, d).f = g
    BY DEF NegX, Out
  <1>3. d \in Int /\ 0 <= d /\ d < Mod /\ 0 \in Word
    BY ModFacts DEF Word
  <1>4. /\ borrow \in BOOLEAN /\ Msb(r) \in BOOLEAN /\ (f.z /\ r = 0) \in BOOLEAN
        /\ (Msb(d) /\ Msb(r)) \in BOOLEAN
    BY <1>1 DEF Msb
  <1> HIDE DEF b
  <1>5. borrow <=> d + b > 0
    BY <1>1, <1>3
  <1>6. /\ r \in Word
        /\ d + b > 0 => r = Mod - d - b
        /\ ~(d + b > 0) => r = 0
    <2>1. /\ r \in Word
          /\ d + b > 0 => r = 0 - d - b + Mod
          /\ ~(d + b > 0) => r = 0 - d - b
      BY <1>1, <1>3, DifferenceFacts
    <2> QED BY <2>1, <1>1, <1>3, ModFacts
  <1> HIDE DEF r, borrow
  <1>7. /\ g \in Ccr
        /\ (g.x <=> borrow) /\ (g.z <=> f.z /\ r = 0) /\ (g.c <=> borrow)
    BY <1>4, FlagRecord
  <1> HIDE DEF g
  <1> QED BY <1>2, <1>5, <1>6, <1>7 DEF b

-----------------------------------------------------------------------------
\* The emitted code computes the same flags from the top bits alone.

\* Flags that agree one by one are equal.
LEMMA CcrEqual ==
    ASSUME NEW f \in Ccr, NEW g \in Ccr, f.x <=> g.x, f.n <=> g.n, f.z <=> g.z, f.v <=> g.v,
           f.c <=> g.c
    PROVE  f = g
  <1>1. f.x = g.x /\ f.n = g.n /\ f.z = g.z /\ f.v = g.v /\ f.c = g.c
    BY DEF Ccr
  <1> QED BY <1>1 DEF Ccr

\* The carry out of the top bits is the carry of the sum.
LEMMA CarryOfTopBits ==
    ASSUME NEW s \in Word, NEW d \in Word, NEW b \in {0, 1}, NEW r, r = Wrap(d + s + b)
    PROVE  (Msb(s) /\ Msb(d)) \/ ((Msb(s) \/ Msb(d)) /\ ~Msb(r)) <=> s + d + b > Mod - 1
  <1>1. /\ s \in Int /\ d \in Int /\ 0 <= s /\ 0 <= d /\ s < Mod /\ d < Mod
        /\ r \in Int /\ 0 <= r /\ r < Mod
    <2>1. r \in Word
      BY SumFacts
    <2> QED BY <2>1, ModFacts DEF Word
  <1>2. /\ s + d + b > Mod - 1 => r = s + d + b - Mod
        /\ ~(s + d + b > Mod - 1) => r = s + d + b
    BY SumFacts
  <1> QED BY <1>1, <1>2, ModFacts DEF Msb

\* The borrow out of the top bits is the borrow of the difference.
LEMMA BorrowOfTopBits ==
    ASSUME NEW s \in Word, NEW d \in Word, NEW b \in {0, 1}, NEW r, r = Wrap(d - s - b)
    PROVE  (Msb(s) /\ ~Msb(d)) \/ ((Msb(s) \/ ~Msb(d)) /\ Msb(r)) <=> s + b > d
  <1>1. /\ s \in Int /\ d \in Int /\ 0 <= s /\ 0 <= d /\ s < Mod /\ d < Mod
        /\ r \in Int /\ 0 <= r /\ r < Mod
    <2>1. r \in Word
      BY DifferenceFacts
    <2> QED BY <2>1, ModFacts DEF Word
  <1>2. /\ s + b > d => r = d - s - b + Mod
        /\ ~(s + b > d) => r = d - s - b
    BY DifferenceFacts
  <1> QED BY <1>1, <1>2, ModFacts DEF Msb

\* The emitted ADD leaves what the interpreter leaves.
LEMMA InlineAddAgrees ==
    ASSUME NEW f, NEW s \in Word, NEW d \in Word
    PROVE  InlineAdd(f, s, d) = Add(f, s, d)
  <1> DEFINE r == Wrap(d + s)
  <1>1. s \in Int /\ d \in Int /\ d + s + 0 = d + s /\ s + d + 0 = s + d /\ s + d = d + s
    BY ModFacts DEF Word
  <1>2. r = Wrap(d + s + 0)
    BY <1>1
  <1>3. InlineAdd(f, s, d) = Out(r, EmitAddSubFlags(f, FALSE, FALSE, s, d, r))
    BY <1>1 DEF InlineAdd
  <1>4. Add(f, s, d) = Out(r, SetFlagsAdd(s, d, r))
    BY DEF Add
  <1> HIDE DEF r
  <1> DEFINE carry == (Msb(s) /\ Msb(d)) \/ ((Msb(s) \/ Msb(d)) /\ ~Msb(r))
  <1>5. carry <=> s + d + 0 > Mod - 1
    BY <1>2, CarryOfTopBits, 0 \in {0, 1}
  <1>6. EmitAddSubFlags(f, FALSE, FALSE, s, d, r) = SetFlagsAdd(s, d, r)
    <2>1. EmitAddSubFlags(f, FALSE, FALSE, s, d, r) =
              [x |-> carry, n |-> Msb(r), z |-> r = 0, c |-> carry,
               v |-> Msb(s) # Msb(r) /\ Msb(d) # Msb(r)]
      BY DEF EmitAddSubFlags
    <2>2. carry = (s + d > Mod - 1)
      BY <1>1, <1>5
    <2> HIDE DEF carry
    <2> QED BY <2>1, <2>2 DEF SetFlagsAdd
  <1> QED BY <1>3, <1>4, <1>6

\* The emitted SUB leaves what the interpreter leaves, and so does CMP.
LEMMA InlineSubAgrees ==
    ASSUME NEW f, NEW s \in Word, NEW d \in Word
    PROVE  InlineSub(f, s, d) = Sub(f, s, d) /\ InlineCmp(f, s, d) = Cmp(f, s, d)
  <1> DEFINE r == Wrap(d - s)
             h == SetFlagsSub(s, d, r)
  <1>1. s \in Int /\ d \in Int /\ d - s - 0 = d - s /\ s + 0 = s
    BY ModFacts DEF Word
  <1>2. r = Wrap(d - s - 0)
    BY <1>1
  <1>3. /\ InlineSub(f, s, d) = Out(r, EmitAddSubFlags(f, TRUE, FALSE, s, d, r))
        /\ Sub(f, s, d) = Out(r, SetFlagsSub(s, d, r))
        /\ InlineCmp(f, s, d) = Out(d, EmitAddSubFlags(f, TRUE, TRUE, s, d, r))
        /\ Cmp(f, s, d) = Out(d, SetFlagsCmp(f, s, d, r))
    BY DEF InlineSub, Sub, InlineCmp, Cmp
  <1> HIDE DEF r
  <1> DEFINE borrow == (Msb(s) /\ ~Msb(d)) \/ ((Msb(s) \/ ~Msb(d)) /\ Msb(r))
             over == Msb(s) # Msb(d) /\ Msb(d) # Msb(r)
  <1>4. borrow <=> s + 0 > d
    BY <1>2, BorrowOfTopBits, 0 \in {0, 1}
  <1>5. /\ EmitAddSubFlags(f, TRUE, FALSE, s, d, r) = SetFlagsSub(s, d, r)
        /\ EmitAddSubFlags(f, TRUE, TRUE, s, d, r) = SetFlagsCmp(f, s, d, r)
    <2>1. EmitAddSubFlags(f, TRUE, FALSE, s, d, r) =
              [x |-> borrow, n |-> Msb(r), z |-> r = 0, c |-> borrow, v |-> over]
      BY DEF EmitAddSubFlags
    <2>2. EmitAddSubFlags(f, TRUE, TRUE, s, d, r) =
              [x |-> f.x, n |-> Msb(r), z |-> r = 0, c |-> borrow, v |-> over]
      BY DEF EmitAddSubFlags
    <2>3. borrow = (s > d)
      BY <1>1, <1>4
    <2> HIDE DEF borrow
    <2>4. EmitAddSubFlags(f, TRUE, FALSE, s, d, r) = SetFlagsSub(s, d, r)
      BY <2>1, <2>3 DEF SetFlagsSub
    <2>5. SetFlagsCmp(f, s, d, r) =
              [x |-> f.x, n |-> Msb(r), z |-> r = 0, c |-> s > d, v |-> over]
      BY DEF SetFlagsCmp, SetFlagsSub
    <2>6. EmitAddSubFlags(f, TRUE, TRUE, s, d, r) = SetFlagsCmp(f, s, d, r)
      BY <2>2, <2>3, <2>5
    <2> QED BY <2>4, <2>6
  <1> QED BY <1>3, <1>5

\* The emitted ADDX leaves what the interpreter leaves, but for a Z that was clear.
LEMMA InlineAddXAgrees ==
    ASSUME NEW f \in Ccr, NEW s \in Word, NEW d \in Word
    PROVE  LET i == InlineAddX(f, FALSE, s, d)
               o == AddX(f, s, d)
           IN  /\ i.r = o.r /\ i.f \in Ccr
               /\ i.f = [o.f EXCEPT !.z = i.f.z]
               /\ f.z => i.f.z = o.f.z
  <1> DEFINE b == Bit(f.x)
             r == Wrap(d + s + b)
             carry == s + d + b > Mod - 1
             over == Msb(s) # Msb(r) /\ Msb(d) # Msb(r)
             g == [x |-> carry, n |-> Msb(r), z |-> r = 0, c |-> carry, v |-> over]
             h == [x |-> carry, n |-> Msb(r), z |-> f.z /\ r = 0, c |-> carry, v |-> over]
             e == [x |-> carry, n |-> Msb(r), z |-> r = 0 /\ r = 0, c |-> carry, v |-> over]
             i == InlineAddX(f, FALSE, s, d)
             o == AddX(f, s, d)
  <1>1. b \in {0, 1} /\ f.z \in BOOLEAN
    BY BitFacts DEF Ccr
  <1>2. s \in Int /\ d \in Int /\ s + d + b = d + s + b
    BY <1>1, ModFacts DEF Word
  <1>3. EmitAddSubFlags(f, FALSE, FALSE, s, d, r) = g
    <2> DEFINE top == (Msb(s) /\ Msb(d)) \/ ((Msb(s) \/ Msb(d)) /\ ~Msb(r))
    <2>1. EmitAddSubFlags(f, FALSE, FALSE, s, d, r) =
              [x |-> top, n |-> Msb(r), z |-> r = 0, c |-> top, v |-> over]
      BY DEF EmitAddSubFlags
    <2>2. top <=> carry
      BY <1>1, CarryOfTopBits
    <2> HIDE DEF r
    <2>3. top = carry
      BY <2>2
    <2> HIDE DEF top, carry, over
    <2> QED BY <2>1, <2>3
  <1>4. i = Out(r, e)
    <2>1. i = Out(r, [g EXCEPT !.z = @ /\ r = 0])
      BY <1>2, <1>3 DEF InlineAddX
    <2> HIDE DEF r, carry, over
    <2>2. [g EXCEPT !.z = @ /\ r = 0] = e
      <3> DEFINE w == r = 0 /\ r = 0
      <3>1. (g.z /\ r = 0) = w
        OBVIOUS
      <3> HIDE DEF w
      <3>2. [g EXCEPT !.z = w] = [x |-> carry, n |-> Msb(r), z |-> w, c |-> carry, v |-> over]
        OBVIOUS
      <3> QED BY <3>1, <3>2 DEF w
    <2> QED BY <2>1, <2>2
  <1>5. o = Out(r, h)
    BY DEF AddX
  <1>6. e = g
    <2>1. (r = 0) = (r = 0 /\ r = 0)
      OBVIOUS
    <2> HIDE DEF r, over, carry
    <2> QED BY <2>1
  <1>7. carry \in BOOLEAN /\ Msb(r) \in BOOLEAN /\ (r = 0) \in BOOLEAN /\ over \in BOOLEAN
    BY DEF Msb
  <1> HIDE DEF r, carry, over, e, i, o
  <1>8. g \in Ccr /\ g = [h EXCEPT !.z = g.z] /\ (f.z => g.z = h.z)
    BY <1>1, <1>7 DEF Ccr
  <1>9. i.r = r /\ i.f = g /\ o.r = r /\ o.f = h
    BY <1>4, <1>5, <1>6 DEF Out
  <1> HIDE DEF g, h
  <1> QED BY <1>8, <1>9 DEF i, o

\* The emitted SUBX leaves what the interpreter leaves, but for a Z that was clear.
LEMMA InlineSubXAgrees ==
    ASSUME NEW f \in Ccr, NEW s \in Word, NEW d \in Word
    PROVE  LET i == InlineAddX(f, TRUE, s, d)
               o == SubX(f, s, d)
           IN  /\ i.r = o.r /\ i.f \in Ccr
               /\ i.f = [o.f EXCEPT !.z = i.f.z]
               /\ f.z => i.f.z = o.f.z
  <1> DEFINE b == Bit(f.x)
             r == Wrap(d - s - b)
             borrow == s + b > d
             over == Msb(s) # Msb(d) /\ Msb(d) # Msb(r)
             g == [x |-> borrow, n |-> Msb(r), z |-> r = 0, c |-> borrow, v |-> over]
             h == [x |-> borrow, n |-> Msb(r), z |-> f.z /\ r = 0, c |-> borrow, v |-> over]
             e == [x |-> borrow, n |-> Msb(r), z |-> r = 0 /\ r = 0, c |-> borrow, v |-> over]
             i == InlineAddX(f, TRUE, s, d)
             o == SubX(f, s, d)
  <1>1. b \in {0, 1} /\ f.z \in BOOLEAN
    BY BitFacts DEF Ccr
  <1>3. EmitAddSubFlags(f, TRUE, FALSE, s, d, r) = g
    <2> DEFINE top == (Msb(s) /\ ~Msb(d)) \/ ((Msb(s) \/ ~Msb(d)) /\ Msb(r))
    <2>1. EmitAddSubFlags(f, TRUE, FALSE, s, d, r) =
              [x |-> top, n |-> Msb(r), z |-> r = 0, c |-> top, v |-> over]
      BY DEF EmitAddSubFlags
    <2>2. top <=> borrow
      BY <1>1, BorrowOfTopBits
    <2> HIDE DEF r
    <2>3. top = borrow
      BY <2>2
    <2> HIDE DEF top, borrow, over
    <2> QED BY <2>1, <2>3
  <1>4. i = Out(r, e)
    <2>1. i = Out(r, [g EXCEPT !.z = @ /\ r = 0])
      BY <1>3 DEF InlineAddX
    <2> HIDE DEF r, borrow, over
    <2>2. [g EXCEPT !.z = @ /\ r = 0] = e
      <3> DEFINE w == r = 0 /\ r = 0
      <3>1. (g.z /\ r = 0) = w
        OBVIOUS
      <3> HIDE DEF w
      <3>2. [g EXCEPT !.z = w] = [x |-> borrow, n |-> Msb(r), z |-> w, c |-> borrow, v |-> over]
        OBVIOUS
      <3> QED BY <3>1, <3>2 DEF w
    <2> QED BY <2>1, <2>2
  <1>5. o = Out(r, h)
    BY DEF SubX
  <1>6. e = g
    <2>1. (r = 0) = (r = 0 /\ r = 0)
      OBVIOUS
    <2> HIDE DEF r, over, borrow
    <2> QED BY <2>1
  <1>7. borrow \in BOOLEAN /\ Msb(r) \in BOOLEAN /\ (r = 0) \in BOOLEAN /\ over \in BOOLEAN
    BY DEF Msb
  <1> HIDE DEF r, borrow, over, e, i, o
  <1>8. g \in Ccr /\ g = [h EXCEPT !.z = g.z] /\ (f.z => g.z = h.z)
    BY <1>1, <1>7 DEF Ccr
  <1>9. i.r = r /\ i.f = g /\ o.r = r /\ o.f = h
    BY <1>4, <1>5, <1>6 DEF Out
  <1> HIDE DEF g, h
  <1> QED BY <1>8, <1>9 DEF i, o

\* The emitted flags of the logic instructions.
LEMMA InlineLogicAgrees ==
    ASSUME NEW f \in Ccr, NEW r
    PROVE  SetFlagsLogic(f, r) = EmitLogicFlags(f, r) /\ SetFlagsLogic(f, r) \in Ccr
  <1> DEFINE g == SetFlagsLogic(f, r)
             h == EmitLogicFlags(f, r)
  <1>1. Msb(r) \in BOOLEAN /\ (r = 0) \in BOOLEAN /\ f.x \in BOOLEAN
    BY DEF Msb, Ccr
  <1>2. g \in Ccr /\ g.x = f.x /\ g.n = Msb(r) /\ g.z = (r = 0) /\ g.v = FALSE /\ g.c = FALSE
    BY <1>1 DEF SetFlagsLogic, Ccr
  <1>3. h \in Ccr /\ h.x = f.x /\ h.n = Msb(r) /\ h.z = (r = 0) /\ h.v = FALSE /\ h.c = FALSE
    BY <1>1 DEF EmitLogicFlags, Ccr
  <1> HIDE DEF g, h
  <1>4. g = h
    BY <1>2, <1>3 DEF Ccr
  <1> QED BY <1>2, <1>4 DEF g, h

-----------------------------------------------------------------------------
\* Shifts.  The loop of do_shift is a function of the number of bits shifted so far;
\* that it exists and what it keeps are shown by least counterexample.

\* A set of numbers that is not empty has a least element.
LEMMA LeastNumber ==
    ASSUME NEW T, T \subseteq Nat, T # {}
    PROVE  \E n \in T : \A k \in T : ~(k < n)
  <1>1. IsWellFoundedOn(OpToRel(<, Nat), Nat)
    BY NatLessThanWellFounded
  <1>2. PICK n \in T : \A k \in T : ~(<<k, n>> \in OpToRel(<, Nat))
    BY <1>1, WFMin
  <1> QED BY <1>2 DEF OpToRel

\* The state of the loop.
ShiftState == [val : Word, x : BOOLEAN, out : BOOLEAN, ovf : BOOLEAN]
ShiftStart(f, val) == [val |-> val, x |-> f.x, out |-> FALSE, ovf |-> FALSE]

\* The trace of the loop: g[i] is its state after i bits.
ShiftTrace(op, f, val, cnt, g) ==
    g = [i \in 0 .. cnt |-> IF i = 0 THEN ShiftStart(f, val) ELSE ShiftOnce(op, g[i - 1])]

\* The loop has a trace of every length.
LEMMA ShiftTraceExists ==
    ASSUME NEW op, NEW f, NEW val, NEW cnt \in Nat
    PROVE  \E g : ShiftTrace(op, f, val, cnt, g)
  <1> DEFINE T == {n \in Nat : ~\E g : ShiftTrace(op, f, val, n, g)}
  <1>1. SUFFICES ASSUME T # {} PROVE FALSE
    OBVIOUS
  <1>2. PICK n \in T : \A k \in T : ~(k < n)
    BY <1>1, LeastNumber
  <1>3. n \in Nat /\ ~\E g : ShiftTrace(op, f, val, n, g)
    OBVIOUS
  <1>4. CASE n = 0
    <2> DEFINE g == [i \in 0 .. 0 |-> ShiftStart(f, val)]
    <2>1. \A i \in 0 .. 0 : i = 0
      OBVIOUS
    <2>2. g = [i \in 0 .. 0 |-> IF i = 0 THEN ShiftStart(f, val) ELSE ShiftOnce(op, g[i - 1])]
      BY <2>1
    <2> QED BY <2>2, <1>3, <1>4 DEF ShiftTrace
  <1>5. CASE n # 0
    <2>1. n - 1 \in Nat /\ n - 1 < n
      BY <1>3, <1>5
    <2>2. n - 1 \notin T
      BY <1>2, <2>1
    <2>3. PICK h : ShiftTrace(op, f, val, n - 1, h)
      BY <2>1, <2>2
    <2> DEFINE g == [i \in 0 .. n |-> IF i = 0 THEN ShiftStart(f, val) ELSE ShiftOnce(op, h[i - 1])]
    <2>4. ASSUME NEW i \in 0 .. n, i # 0
          PROVE  g[i - 1] = h[i - 1]
      <3>1. i - 1 \in 0 .. n /\ i - 1 \in 0 .. (n - 1)
        BY <1>3, <2>4
      <3>2. h[i - 1] = IF i - 1 = 0 THEN ShiftStart(f, val) ELSE ShiftOnce(op, h[i - 1 - 1])
        BY <2>3, <3>1 DEF ShiftTrace
      <3>3. g[i - 1] = IF i - 1 = 0 THEN ShiftStart(f, val) ELSE ShiftOnce(op, h[i - 1 - 1])
        BY <3>1
      <3> QED BY <3>2, <3>3
    <2> DEFINE e == [i \in 0 .. n |-> IF i = 0 THEN ShiftStart(f, val) ELSE ShiftOnce(op, g[i - 1])]
    <2>5. ASSUME NEW i \in 0 .. n
          PROVE  g[i] = e[i]
      <3>1. CASE i = 0
        BY <3>1
      <3>2. CASE i # 0
        BY <3>2, <2>4
      <3> QED BY <3>1, <3>2
    <2>6. g = e
      BY <2>5
    <2> QED BY <2>6, <1>3 DEF ShiftTrace
  <1> QED BY <1>4, <1>5

\* One bit of a shift keeps the state in its range.
LEMMA ShiftOnceTyped ==
    ASSUME NEW op \in ShiftOps, NEW t \in ShiftState
    PROVE  ShiftOnce(op, t) \in ShiftState
  <1> DEFINE top == Msb(t.val)
             low == t.val % 2 = 1
             up == (2 * t.val) % Mod
             down == t.val \div 2
  <1>1. t.val \in Word /\ t.x \in BOOLEAN /\ t.out \in BOOLEAN /\ t.ovf \in BOOLEAN
    BY DEF ShiftState
  <1>2. t.val \in Int /\ 0 <= t.val /\ t.val < Mod
    BY <1>1, ModFacts DEF Word
  <1>3. /\ top \in BOOLEAN /\ low \in BOOLEAN /\ AslChanged(t, up) \in BOOLEAN
    BY <1>1 DEF Msb, AslChanged
  <1>4. down \in Int /\ 0 <= down /\ down < Half /\ down \in Word
    BY <1>2, ModFacts DEF Word
  <1>5. \A b \in BOOLEAN : down + Half * Bit(b) \in Word
    BY <1>4, BitFacts, ModFacts DEF Word
  <1>6. /\ up \in Word
        /\ \A b \in BOOLEAN : up + Bit(b) \in Word
    <2>1. 2 * t.val < Mod => up = 2 * t.val
      BY <1>2, WrapFacts DEF Wrap
    <2>2. 2 * t.val >= Mod => up = 2 * t.val - Mod
      BY <1>2, WrapFacts, ModFacts DEF Wrap
    <2> HIDE DEF up
    <2>3. up \in Int /\ 0 <= up /\ up <= Mod - 2
      BY <2>1, <2>2, <1>2, ModFacts
    <2> QED BY <2>3, BitFacts, ModFacts DEF Word
  <1> HIDE DEF top, low, up, down
  <1>7. CASE op = "asr"
    <2>1. ShiftOnce(op, t) = [t EXCEPT !.val = down + Half * Bit(top), !.out = low]
      BY <1>7 DEF ShiftOnce, top, low, down
    <2> QED BY <2>1, <1>1, <1>3, <1>5 DEF ShiftState
  <1>8. CASE op = "lsr"
    <2>1. ShiftOnce(op, t) = [t EXCEPT !.val = down, !.out = low]
      BY <1>8 DEF ShiftOnce, low, down
    <2> QED BY <2>1, <1>1, <1>3, <1>4 DEF ShiftState
  <1>9. CASE op = "roxr"
    <2>1. ShiftOnce(op, t) = [t EXCEPT !.val = down + Half * Bit(t.x), !.x = low, !.out = low]
      BY <1>9 DEF ShiftOnce, low, down
    <2> QED BY <2>1, <1>1, <1>3, <1>5 DEF ShiftState
  <1>10. CASE op = "ror"
    <2>1. ShiftOnce(op, t) = [t EXCEPT !.val = down + Half * Bit(low), !.out = low]
      BY <1>10 DEF ShiftOnce, low, down
    <2> QED BY <2>1, <1>1, <1>3, <1>5 DEF ShiftState
  <1>11. CASE op = "asl"
    <2>1. ShiftOnce(op, t) = [t EXCEPT !.val = up, !.out = top, !.ovf = AslChanged(t, up)]
      BY <1>11 DEF ShiftOnce, top, up
    <2> QED BY <2>1, <1>1, <1>3, <1>6 DEF ShiftState
  <1>12. CASE op = "lsl"
    <2>1. ShiftOnce(op, t) = [t EXCEPT !.val = up, !.out = top]
      BY <1>12 DEF ShiftOnce, top, up
    <2> QED BY <2>1, <1>1, <1>3, <1>6 DEF ShiftState
  <1>13. CASE op = "roxl"
    <2>1. ShiftOnce(op, t) = [t EXCEPT !.val = up + Bit(t.x), !.x = top, !.out = top]
      BY <1>13 DEF ShiftOnce, top, up
    <2> QED BY <2>1, <1>1, <1>3, <1>6 DEF ShiftState
  <1>14. CASE op = "rol"
    <2>1. ShiftOnce(op, t) = [t EXCEPT !.val = up + Bit(top), !.out = top]
      BY <1>14 DEF ShiftOnce, top, up
    <2> QED BY <2>1, <1>1, <1>3, <1>6 DEF ShiftState
  <1> QED BY <1>7, <1>8, <1>9, <1>10, <1>11, <1>12, <1>13, <1>14 DEF ShiftOps

\* Shifted is the last state of a trace, every state of which is in its range.
LEMMA ShiftedIsTrace ==
    ASSUME NEW op \in ShiftOps, NEW f \in Ccr, NEW val \in Word, NEW cnt \in Nat
    PROVE  \E g : /\ g \in [0 .. cnt -> ShiftState]
                  /\ g[0] = ShiftStart(f, val)
                  /\ \A i \in 1 .. cnt : g[i] = ShiftOnce(op, g[i - 1])
                  /\ Shifted(op, f, val, cnt) = g[cnt]
  <1> DEFINE g == CHOOSE h : ShiftTrace(op, f, val, cnt, h)
  <1>1. ShiftTrace(op, f, val, cnt, g)
    BY ShiftTraceExists
  <1>2. Shifted(op, f, val, cnt) = g[cnt]
    BY DEF Shifted, ShiftTrace, ShiftStart
  <1> HIDE DEF g
  <1>3. g[0] = ShiftStart(f, val) /\ \A i \in 1 .. cnt : g[i] = ShiftOnce(op, g[i - 1])
    BY <1>1 DEF ShiftTrace
  <1>4. ASSUME NEW i \in 0 .. cnt PROVE g[i] \in ShiftState
    <2> DEFINE T == {k \in 0 .. cnt : g[k] \notin ShiftState}
    <2>1. SUFFICES ASSUME T # {} PROVE FALSE
      OBVIOUS
    <2>2. T \subseteq Nat
      OBVIOUS
    <2>3. PICK n \in T : \A k \in T : ~(k < n)
      BY <2>1, <2>2, LeastNumber
    <2>4. n # 0
      <3>1. ShiftStart(f, val) \in ShiftState
        BY FALSE \in BOOLEAN DEF ShiftState, ShiftStart, Ccr
      <3> QED BY <1>3, <2>3, <3>1
    <2>5. n \in 1 .. cnt /\ n - 1 \in 0 .. cnt /\ n - 1 < n
      BY <2>3, <2>4
    <2>6. g[n - 1] \in ShiftState
      BY <2>3, <2>5
    <2> QED BY <1>3, <2>3, <2>5, <2>6, ShiftOnceTyped
  <1>5. g \in [0 .. cnt -> ShiftState]
    BY <1>1, <1>4 DEF ShiftTrace
  <1> QED BY <1>2, <1>3, <1>5

\* The result and the flags of a shift are in their range.
LEMMA ShiftTyped ==
    ASSUME NEW op \in ShiftOps, NEW f \in Ccr, NEW val \in Word, NEW cnt \in Nat
    PROVE  DoShift(op, f, val, cnt).r \in Word /\ DoShift(op, f, val, cnt).f \in Ccr
  <1>1. CASE cnt = 0
    <2> DEFINE carry == op \in {"roxr", "roxl"} /\ f.x
               g == [f EXCEPT !.c = carry, !.v = FALSE, !.n = Msb(val), !.z = val = 0]
    <2>1. DoShift(op, f, val, cnt) = Out(val, g)
      BY <1>1 DEF DoShift
    <2>2. carry \in BOOLEAN /\ Msb(val) \in BOOLEAN /\ (val = 0) \in BOOLEAN
      BY DEF Msb, Ccr
    <2> HIDE DEF carry
    <2>3. g \in Ccr
      BY <2>2 DEF Ccr
    <2> QED BY <2>1, <2>3 DEF Out
  <1>2. CASE cnt # 0
    <2> DEFINE t == Shifted(op, f, val, cnt)
               newX == CASE op \in {"roxr", "roxl"} -> t.x
                         [] op \in {"ror", "rol"} -> f.x
                         [] OTHER -> t.out
               g == [z |-> t.val = 0, n |-> Msb(t.val), c |-> t.out, v |-> t.ovf, x |-> newX]
    <2>1. DoShift(op, f, val, cnt) = Out(t.val, g)
      BY <1>2 DEF DoShift
    <2>2. cnt \in 0 .. cnt
      OBVIOUS
    <2>3. t \in ShiftState
      BY <2>2, ShiftedIsTrace
    <2> HIDE DEF t
    <2>4. /\ t.val \in Word /\ (t.val = 0) \in BOOLEAN /\ Msb(t.val) \in BOOLEAN
          /\ t.out \in BOOLEAN /\ t.ovf \in BOOLEAN /\ t.x \in BOOLEAN /\ f.x \in BOOLEAN
      BY <2>3 DEF ShiftState, Msb, Ccr
    <2>5. newX \in BOOLEAN
      BY <2>4
    <2> HIDE DEF newX
    <2>6. g \in Ccr
      BY <2>4, <2>5 DEF Ccr
    <2> HIDE DEF g
    <2> QED BY <2>1, <2>4, <2>6 DEF Out
  <1> QED BY <1>1, <1>2

-----------------------------------------------------------------------------
\* Powers of two.  Pow2 is a recursive function; that it is what its definition says
\* is shown from its finite parts.

\* Counting up: what holds of 0 and is passed on by each number below n holds of 0 to n.
LEMMA CountUp ==
    ASSUME NEW S, NEW n \in Nat, 0 \in S, \A i \in 0 .. (n - 1) : i \in S => i + 1 \in S
    PROVE  \A i \in 0 .. n : i \in S
  <1> DEFINE T == {i \in 0 .. n : i \notin S}
  <1>1. SUFFICES ASSUME T # {} PROVE FALSE
    OBVIOUS
  <1>2. T \subseteq Nat
    OBVIOUS
  <1>3. PICK i \in T : \A k \in T : ~(k < i)
    BY <1>1, <1>2, LeastNumber
  <1>4. i \in 0 .. n /\ i \notin S /\ i # 0
    OBVIOUS
  <1>5. i - 1 \in 0 .. (n - 1) /\ i - 1 \in 0 .. n /\ i - 1 < i /\ (i - 1) + 1 = i
    BY <1>4
  <1>6. i - 1 \in S
    BY <1>3, <1>5
  <1> QED BY <1>4, <1>5, <1>6

\* The powers of two up to n, as a function.
PowTrace(n, g) == g = [i \in 0 .. n |-> IF i = 0 THEN 1 ELSE 2 * g[i - 1]]

\* There is one for every n.
LEMMA PowTraceExists == \A n \in Nat : \E g : PowTrace(n, g)
  <1> DEFINE T == {n \in Nat : ~\E g : PowTrace(n, g)}
  <1>1. SUFFICES ASSUME T # {} PROVE FALSE
    OBVIOUS
  <1>2. PICK n \in T : \A k \in T : ~(k < n)
    BY <1>1, LeastNumber
  <1>3. n \in Nat /\ ~\E g : PowTrace(n, g)
    OBVIOUS
  <1>4. CASE n = 0
    <2> DEFINE g == [i \in 0 .. 0 |-> 1]
    <2>1. \A i \in 0 .. 0 : i = 0
      OBVIOUS
    <2>2. g = [i \in 0 .. 0 |-> IF i = 0 THEN 1 ELSE 2 * g[i - 1]]
      BY <2>1
    <2> QED BY <2>2, <1>3, <1>4 DEF PowTrace
  <1>5. CASE n # 0
    <2>1. n - 1 \in Nat /\ n - 1 < n
      BY <1>3, <1>5
    <2>2. n - 1 \notin T
      BY <1>2, <2>1
    <2>3. PICK h : PowTrace(n - 1, h)
      BY <2>1, <2>2
    <2> DEFINE g == [i \in 0 .. n |-> IF i = 0 THEN 1 ELSE 2 * h[i - 1]]
    <2>4. ASSUME NEW i \in 0 .. n, i # 0
          PROVE  g[i - 1] = h[i - 1]
      <3>1. i - 1 \in 0 .. n /\ i - 1 \in 0 .. (n - 1)
        BY <1>3, <2>4
      <3>2. h[i - 1] = IF i - 1 = 0 THEN 1 ELSE 2 * h[i - 1 - 1]
        BY <2>3, <3>1 DEF PowTrace
      <3>3. g[i - 1] = IF i - 1 = 0 THEN 1 ELSE 2 * h[i - 1 - 1]
        BY <3>1
      <3> QED BY <3>2, <3>3
    <2> DEFINE e == [i \in 0 .. n |-> IF i = 0 THEN 1 ELSE 2 * g[i - 1]]
    <2>5. ASSUME NEW i \in 0 .. n
          PROVE  g[i] = e[i]
      <3>1. CASE i = 0
        BY <3>1
      <3>2. CASE i # 0
        BY <3>2, <2>4
      <3> QED BY <3>1, <3>2
    <2>6. g = e
      BY <2>5
    <2> QED BY <2>6, <1>3 DEF PowTrace
  <1> QED BY <1>4, <1>5

\* Two of them agree where both are defined.
LEMMA PowTracesAgree ==
    ASSUME NEW m \in Nat, NEW n \in Nat, m <= n, NEW g, NEW h, PowTrace(m, g), PowTrace(n, h)
    PROVE  \A i \in 0 .. m : g[i] = h[i]
  <1> DEFINE S == {i \in 0 .. m : g[i] = h[i]}
  <1>1. \A i \in 0 .. m : /\ g[i] = IF i = 0 THEN 1 ELSE 2 * g[i - 1]
                          /\ h[i] = IF i = 0 THEN 1 ELSE 2 * h[i - 1]
    <2>1. \A i \in 0 .. m : i \in 0 .. n
      OBVIOUS
    <2> QED BY <2>1 DEF PowTrace
  <1>2. 0 \in S
    BY <1>1
  <1>3. ASSUME NEW i \in 0 .. (m - 1), i \in S PROVE i + 1 \in S
    <2>1. i + 1 \in 0 .. m /\ i + 1 # 0 /\ (i + 1) - 1 = i
      OBVIOUS
    <2> QED BY <1>1, <1>3, <2>1
  <1> HIDE DEF S
  <1>4. \A i \in 0 .. m : i \in S
    BY <1>2, <1>3, CountUp
  <1> QED BY <1>4 DEF S

\* Pow2 is what its definition says.
LEMMA Pow2Unfold == Pow2[0] = 1 /\ \A n \in Nat : Pow2[n + 1] = 2 * Pow2[n]
  <1> DEFINE H(n) == CHOOSE g : PowTrace(n, g)
             G == [n \in Nat |-> H(n)[n]]
             E == [n \in Nat |-> IF n = 0 THEN 1 ELSE 2 * G[n - 1]]
  <1>1. \A n \in Nat : PowTrace(n, H(n))
    BY PowTraceExists
  <1> HIDE DEF H
  <1>2. ASSUME NEW n \in Nat PROVE G[n] = E[n]
    <2>1. H(n)[n] = IF n = 0 THEN 1 ELSE 2 * H(n)[n - 1]
      <3>1. n \in 0 .. n
        OBVIOUS
      <3> QED BY <1>1, <3>1 DEF PowTrace
    <2>2. CASE n = 0
      BY <2>1, <2>2
    <2>3. CASE n # 0
      <3>1. n - 1 \in Nat /\ n - 1 <= n /\ n - 1 \in 0 .. (n - 1)
        BY <2>3
      <3>2. H(n - 1)[n - 1] = H(n)[n - 1]
        BY <1>1, <3>1, PowTracesAgree
      <3>3. G[n - 1] = H(n - 1)[n - 1]
        BY <3>1
      <3> QED BY <2>1, <2>3, <3>2, <3>3
    <2> QED BY <2>2, <2>3
  <1>3. G = E
    BY <1>2
  <1>4. G = [n \in Nat |-> IF n = 0 THEN 1 ELSE 2 * G[n - 1]]
    BY <1>3
  <1>5. Pow2 = [n \in Nat |-> IF n = 0 THEN 1 ELSE 2 * Pow2[n - 1]]
    BY <1>4 DEF Pow2
  <1>6. ASSUME NEW n \in Nat PROVE Pow2[n + 1] = 2 * Pow2[n]
    <2>1. n + 1 \in Nat /\ n + 1 # 0 /\ (n + 1) - 1 = n
      OBVIOUS
    <2> QED BY <1>5, <2>1
  <1> QED BY <1>5, <1>6

\* Powers of two are positive.
LEMMA Pow2Positive == \A n \in Nat : Pow2[n] \in Nat \ {0}
  <1> SUFFICES ASSUME NEW n \in Nat PROVE Pow2[n] \in Nat \ {0}
    OBVIOUS
  <1> DEFINE S == {i \in Nat : Pow2[i] \in Nat \ {0}}
  <1>1. 0 \in S
    BY Pow2Unfold
  <1>2. \A i \in 0 .. (n - 1) : i \in S => i + 1 \in S
    BY Pow2Unfold
  <1> HIDE DEF S
  <1>3. \A i \in 0 .. n : i \in S
    BY <1>1, <1>2, CountUp
  <1> QED BY <1>3 DEF S

\* Powers multiply by adding their exponents.
LEMMA Pow2Product ==
    ASSUME NEW w \in Nat, NEW m \in 0 .. w
    PROVE  Pow2[m] * Pow2[w - m] = Pow2[w]
  <1> DEFINE S == {i \in 0 .. w : Pow2[i] * Pow2[w - i] = Pow2[w]}
  <1>1. 0 \in S
    <2>1. Pow2[w] \in Nat /\ w - 0 = w
      BY Pow2Positive
    <2> QED BY <2>1, Pow2Unfold
  <1>2. ASSUME NEW i \in 0 .. (w - 1), i \in S PROVE i + 1 \in S
    <2>1. i \in Nat /\ w - (i + 1) \in Nat /\ (w - (i + 1)) + 1 = w - i /\ i + 1 \in 0 .. w
      OBVIOUS
    <2>2. Pow2[i + 1] = 2 * Pow2[i] /\ Pow2[w - i] = 2 * Pow2[w - (i + 1)]
      BY <2>1, Pow2Unfold
    <2>3. Pow2[i] \in Nat /\ Pow2[w - (i + 1)] \in Nat
      BY <2>1, Pow2Positive
    <2>4. \A a, b \in Nat : (2 * a) * b = a * (2 * b)
      OBVIOUS
    <2>5. Pow2[i + 1] * Pow2[w - (i + 1)] = Pow2[i] * Pow2[w - i]
      BY <2>2, <2>3, <2>4
    <2> QED BY <1>2, <2>1, <2>5
  <1> HIDE DEF S
  <1>3. \A i \in 0 .. w : i \in S
    BY <1>1, <1>2, CountUp
  <1> QED BY <1>3 DEF S

\* The width of an operand.
LEMMA WidthFacts == Width \in Nat \ {0} /\ Pow2[Width] = Mod /\ Pow2[Width - 1] = Half
  <1>1. Width \in 1 .. Mod /\ Pow2[Width] = Mod
    BY AluAssumption DEF Width
  <1>2. Width - 1 \in Nat /\ (Width - 1) + 1 = Width /\ Width \in Nat \ {0}
    BY <1>1, ModFacts
  <1>3. Pow2[Width] = 2 * Pow2[Width - 1] /\ Pow2[Width - 1] \in Nat
    BY <1>2, Pow2Unfold, Pow2Positive
  <1>4. \A a, b, m \in Nat : m = 2 * a /\ m = 2 * b => a = b
    OBVIOUS
  <1>5. Pow2[Width - 1] = Half
    BY <1>1, <1>3, <1>4, ModFacts
  <1> QED BY <1>1, <1>2, <1>5

-----------------------------------------------------------------------------
\* The trace of a shift, its outcome and what one turn of the loop changes.

\* g is the trace of a shift by n bits.
ShiftRun(op, f, v, n, g) ==
    /\ g \in [0 .. n -> ShiftState]
    /\ g[0] = ShiftStart(f, v)
    /\ \A i \in 1 .. n : g[i] = ShiftOnce(op, g[i - 1])

\* What do_shift takes from the last state of its loop.
Outcome(op, f, n, t, o) ==
    /\ o.r = t.val /\ o.f.v = t.ovf
    /\ n > 0 => o.f.c = t.out
    /\ op \in {"roxl", "roxr"} => o.f.x = t.x /\ (n = 0 => o.f.c = f.x)
    /\ n = 0 \/ op \in {"rol", "ror"} => o.f.x = f.x
    /\ n > 0 /\ op \in {"lsr", "asr", "lsl", "asl"} => o.f.x = t.out

\* A shift is the last state of a trace.
LEMMA ShiftHasRun ==
    ASSUME NEW op \in ShiftOps, NEW f \in Ccr, NEW v \in Word, NEW n \in Nat
    PROVE  \E g : ShiftRun(op, f, v, n, g) /\ Outcome(op, f, n, g[n], DoShift(op, f, v, n))
  <1>1. PICK g : /\ g \in [0 .. n -> ShiftState]
                 /\ g[0] = ShiftStart(f, v)
                 /\ \A i \in 1 .. n : g[i] = ShiftOnce(op, g[i - 1])
                 /\ Shifted(op, f, v, n) = g[n]
    BY ShiftedIsTrace
  <1>2. ShiftRun(op, f, v, n, g)
    BY <1>1 DEF ShiftRun
  <1> DEFINE o == DoShift(op, f, v, n)
  <1>3. CASE n = 0
    <2> DEFINE carry == op \in {"roxr", "roxl"} /\ f.x
               e == [f EXCEPT !.c = carry, !.v = FALSE, !.n = Msb(v), !.z = v = 0]
    <2>1. o = Out(v, e)
      BY <1>3 DEF DoShift
    <2>2. g[n].val = v /\ g[n].ovf = FALSE /\ g[n].x = f.x
      BY <1>1, <1>3 DEF ShiftStart
    <2>3. e.c = carry /\ e.v = FALSE /\ e.x = f.x
      BY DEF Ccr
    <2> HIDE DEF o, carry, e
    <2>4. o.r = v /\ o.f.c = carry /\ o.f.v = FALSE /\ o.f.x = f.x
      BY <2>1, <2>3 DEF Out
    <2>5. op \in {"roxl", "roxr"} => carry = f.x
      BY DEF Ccr, carry
    <2>6. ~(n > 0)
      BY <1>3
    <2> QED BY <1>2, <1>3, <2>2, <2>4, <2>5, <2>6, Zenon DEF Outcome, o
  <1>4. CASE n # 0
    <2> DEFINE t == Shifted(op, f, v, n)
               newX == CASE op \in {"roxr", "roxl"} -> t.x
                         [] op \in {"ror", "rol"} -> f.x
                         [] OTHER -> t.out
               e == [z |-> t.val = 0, n |-> Msb(t.val), c |-> t.out, v |-> t.ovf, x |-> newX]
    <2>1. o = Out(t.val, e)
      BY <1>4 DEF DoShift
    <2> HIDE DEF t
    <2>2. t = g[n]
      BY <1>1 DEF t
    <2>3. /\ op \in {"roxl", "roxr"} => newX = t.x
          /\ op \in {"rol", "ror"} => newX = f.x
          /\ op \in {"lsr", "asr", "lsl", "asl"} => newX = t.out
      BY SMT
    <2> HIDE DEF newX
    <2>4. o.r = t.val /\ o.f.c = t.out /\ o.f.v = t.ovf /\ o.f.x = newX
      BY <2>1 DEF Out
    <2> HIDE DEF o, e
    <2>5. Outcome(op, f, n, t, o)
      BY <1>4, <2>3, <2>4, Zenon DEF Outcome
    <2> QED BY <1>2, <2>2, <2>5 DEF o
  <1> QED BY <1>3, <1>4

\* The fields that one turn of the loop changes.
LEMMA StepFields ==
    ASSUME NEW op \in ShiftOps, NEW t \in ShiftState, NEW u, u = ShiftOnce(op, t)
    PROVE  LET top == Msb(t.val)
               low == t.val % 2 = 1
               up == (2 * t.val) % Mod
               down == t.val \div 2
           IN  /\ op # "asl" => u.ovf = t.ovf
               /\ op = "asr" => u.val = down + Half * Bit(top) /\ u.out = low
               /\ op = "lsr" => u.val = down /\ u.out = low
               /\ op = "roxr" => u.val = down + Half * Bit(t.x) /\ u.x = low /\ u.out = low
               /\ op = "ror" => u.val = down + Half * Bit(low) /\ u.out = low
               /\ op = "asl" => u.val = up /\ u.out = top /\ u.ovf = (t.ovf \/ (Msb(up) # top))
               /\ op = "lsl" => u.val = up /\ u.out = top
               /\ op = "roxl" => u.val = up + Bit(t.x) /\ u.x = top /\ u.out = top
               /\ op = "rol" => u.val = up + Bit(top) /\ u.out = top
  <1> DEFINE top == Msb(t.val)
             low == t.val % 2 = 1
             up == (2 * t.val) % Mod
             down == t.val \div 2
             changed == t.ovf \/ (Msb(up) # top)
  <1>0. t = [val |-> t.val, x |-> t.x, out |-> t.out, ovf |-> t.ovf]
    BY DEF ShiftState
  <1>1. CASE op = "asr"
    <2>1. u = [t EXCEPT !.val = down + Half * Bit(top), !.out = low]
      BY <1>1 DEF ShiftOnce
    <2> HIDE DEF down, top, low
    <2>2. u.val = down + Half * Bit(top) /\ u.out = low /\ u.ovf = t.ovf
      BY <1>0, <2>1
    <2> QED BY <1>1, <2>2 DEF down, top, low
  <1>2. CASE op = "lsr"
    <2>1. u = [t EXCEPT !.val = down, !.out = low]
      BY <1>2 DEF ShiftOnce
    <2> HIDE DEF down, top, low
    <2>2. u.val = down /\ u.out = low /\ u.ovf = t.ovf
      BY <1>0, <2>1
    <2> QED BY <1>2, <2>2 DEF down, top, low
  <1>3. CASE op = "roxr"
    <2>1. u = [t EXCEPT !.val = down + Half * Bit(t.x), !.x = low, !.out = low]
      BY <1>3 DEF ShiftOnce
    <2> HIDE DEF down, top, low
    <2>2. u.val = down + Half * Bit(t.x) /\ u.x = low /\ u.out = low /\ u.ovf = t.ovf
      BY <1>0, <2>1
    <2> QED BY <1>3, <2>2 DEF down, top, low
  <1>4. CASE op = "ror"
    <2>1. u = [t EXCEPT !.val = down + Half * Bit(low), !.out = low]
      BY <1>4 DEF ShiftOnce
    <2> HIDE DEF down, top, low
    <2>2. u.val = down + Half * Bit(low) /\ u.out = low /\ u.ovf = t.ovf
      BY <1>0, <2>1
    <2> QED BY <1>4, <2>2 DEF down, top, low
  <1>5. CASE op = "asl"
    <2>1. u = [t EXCEPT !.val = up, !.out = top, !.ovf = changed]
      BY <1>5 DEF ShiftOnce, AslChanged
    <2> HIDE DEF up, top, low, changed
    <2>2. u.val = up /\ u.out = top /\ u.ovf = changed
      BY <1>0, <2>1
    <2> QED BY <1>5, <2>2 DEF up, top, low, changed
  <1>6. CASE op = "lsl"
    <2>1. u = [t EXCEPT !.val = up, !.out = top]
      BY <1>6 DEF ShiftOnce
    <2> HIDE DEF up, top, low
    <2>2. u.val = up /\ u.out = top /\ u.ovf = t.ovf
      BY <1>0, <2>1
    <2> QED BY <1>6, <2>2 DEF up, top, low
  <1>7. CASE op = "roxl"
    <2>1. u = [t EXCEPT !.val = up + Bit(t.x), !.x = top, !.out = top]
      BY <1>7 DEF ShiftOnce
    <2> HIDE DEF up, top, low
    <2>2. u.val = up + Bit(t.x) /\ u.x = top /\ u.out = top /\ u.ovf = t.ovf
      BY <1>0, <2>1
    <2> QED BY <1>7, <2>2 DEF up, top, low
  <1>8. CASE op = "rol"
    <2>1. u = [t EXCEPT !.val = up + Bit(top), !.out = top]
      BY <1>8 DEF ShiftOnce
    <2> HIDE DEF up, top, low
    <2>2. u.val = up + Bit(top) /\ u.out = top /\ u.ovf = t.ovf
      BY <1>0, <2>1
    <2> QED BY <1>8, <2>2 DEF up, top, low
  <1> QED BY <1>1, <1>2, <1>3, <1>4, <1>5, <1>6, <1>7, <1>8 DEF ShiftOps

-----------------------------------------------------------------------------
\* Double words.

\* A double word has a high and a low word, and only those.
LEMMA WideFacts ==
    /\ Wide \in Nat /\ Wide >= Mod
    /\ \A h, l \in Word : h * Mod + l \in 0 .. (Wide - 1)
    /\ \A w \in 0 .. (Wide - 1) :
           /\ w \div Mod \in Word /\ w % Mod \in Word /\ w = (w \div Mod) * Mod + (w % Mod)
  <1>1. Wide \in Nat /\ Wide >= Mod
    BY ModFacts DEF Wide
  <1>2. ASSUME NEW h \in Word, NEW l \in Word
        PROVE  h * Mod + l \in 0 .. (Wide - 1)
    <2>1. h \in Int /\ 0 <= h /\ h <= Mod - 1 /\ l \in Int /\ 0 <= l /\ l <= Mod - 1
      BY ModFacts DEF Word
    <2>2. h * Mod \in Int /\ 0 <= h * Mod /\ h * Mod <= (Mod - 1) * Mod
      BY <2>1, ModFacts
    <2>3. (Mod - 1) * Mod = Mod * Mod - Mod
      BY ModFacts
    <2> QED BY <2>1, <2>2, <2>3, <1>1, ModFacts DEF Wide
  <1>3. ASSUME NEW w \in 0 .. (Wide - 1)
        PROVE  /\ w \div Mod \in Word /\ w % Mod \in Word /\ w = (w \div Mod) * Mod + (w % Mod)
    <2>1. w \in Int /\ 0 <= w /\ w < Mod * Mod
      BY <1>1 DEF Wide
    <2> DEFINE q == w \div Mod
               r == w % Mod
    <2>2. q \in Int /\ r \in Int /\ 0 <= r /\ r < Mod /\ w = q * Mod + r
      BY <2>1, ModFacts
    <2> HIDE DEF q, r
    <2>3. 0 <= q
      <3>1. SUFFICES ASSUME q <= -1 PROVE FALSE
        BY <2>2
      <3>2. q * Mod <= (-1) * Mod
        BY <3>1, <2>2, ModFacts
      <3> QED BY <3>2, <2>1, <2>2, ModFacts
    <2>4. q < Mod
      <3>1. SUFFICES ASSUME q >= Mod PROVE FALSE
        BY <2>2, ModFacts
      <3>2. q * Mod >= Mod * Mod
        BY <3>1, <2>2, ModFacts
      <3> QED BY <3>2, <2>1, <2>2, ModFacts
    <2>5. q \in Word /\ r \in Word
      BY <2>2, <2>3, <2>4, ModFacts DEF Word
    <2> QED BY <2>2, <2>5 DEF q, r
  <1> QED BY <1>1, <1>2, <1>3

\* A double word that differs from a number by k times Wide is that number modulo
\* Wide, and k tells whether the number fits.
LEMMA WideWrap ==
    ASSUME NEW h \in Word, NEW l \in Word, NEW exact \in Int, NEW k \in {-1, 0, 1},
           h * Mod + l = exact - k * Wide
    PROVE  /\ h * Mod + l = exact % Wide
           /\ exact \notin 0 .. (Wide - 1) <=> k # 0
           /\ h * Mod + l = 0 <=> h = 0 /\ l = 0
  <1> DEFINE w == h * Mod + l
  <1>1. w \in Int /\ 0 <= w /\ w < Wide /\ Wide \in Nat /\ Wide > 0
    BY WideFacts, ModFacts
  <1>2. h * Mod + l = exact % Wide
    BY <1>1, DivisionUnique
  <1>3. exact \notin 0 .. (Wide - 1) <=> k # 0
    <2> HIDE DEF w
    <2>1. w = exact - k * Wide
      BY DEF w
    <2> QED BY <2>1, <1>1
  <1>4. h * Mod + l = 0 <=> h = 0 /\ l = 0
    <2>1. h \in Int /\ 0 <= h /\ l \in Int /\ 0 <= l
      BY ModFacts DEF Word
    <2>2. h = 0 => h * Mod = 0
      BY ModFacts
    <2>3. h # 0 => h * Mod > 0
      BY <2>1, ModFacts
    <2>4. h * Mod \in Int
      BY <2>1, ModFacts
    <2> QED BY <2>1, <2>2, <2>3, <2>4
  <1> QED BY <1>2, <1>3, <1>4

\* Two ADDX add double words.
LEMMA AddChain ==
    ASSUME NEW f \in Ccr, NEW s \in 0 .. (Wide - 1), NEW d \in 0 .. (Wide - 1)
    PROVE  LET lo == AddX(f, s % Mod, d % Mod)
               hi == AddX(lo.f, s \div Mod, d \div Mod)
               exact == d + s + Bit(f.x)
               result == hi.r * Mod + lo.r
           IN  /\ lo.f \in Ccr /\ hi.f \in Ccr /\ lo.r \in Word /\ hi.r \in Word
               /\ result = exact % Wide
               /\ hi.f.c <=> exact \notin 0 .. (Wide - 1)
               /\ hi.f.z <=> f.z /\ result = 0
  <1> DEFINE sl == s % Mod
             sh == s \div Mod
             dl == d % Mod
             dh == d \div Mod
             lo == AddX(f, sl, dl)
             hi == AddX(lo.f, sh, dh)
             b0 == Bit(f.x)
             b1 == Bit(lo.f.x)
             b2 == Bit(hi.f.c)
             exact == d + s + b0
  <1>1. /\ sl \in Word /\ sh \in Word /\ dl \in Word /\ dh \in Word
        /\ s = sh * Mod + sl /\ d = dh * Mod + dl
    BY WideFacts
  <1> HIDE DEF sl, sh, dl, dh
  <1>2. /\ sl \in Int /\ sh \in Int /\ dl \in Int /\ dh \in Int
    BY <1>1, ModFacts DEF Word
  <1>3. /\ lo.r \in Word /\ lo.f \in Ccr /\ (lo.f.x <=> lo.f.c) /\ (lo.f.z <=> f.z /\ lo.r = 0)
        /\ lo.f.c => lo.r = sl + dl + b0 - Mod
        /\ ~lo.f.c => lo.r = sl + dl + b0
    BY <1>1, AddXMeans
  <1> HIDE DEF lo
  <1>4. /\ hi.r \in Word /\ hi.f \in Ccr /\ (hi.f.z <=> lo.f.z /\ hi.r = 0)
        /\ hi.f.c => hi.r = sh + dh + b1 - Mod
        /\ ~hi.f.c => hi.r = sh + dh + b1
    BY <1>1, <1>3, AddXMeans
  <1> HIDE DEF hi
  <1>5. /\ b0 \in {0, 1} /\ b1 \in {0, 1} /\ b2 \in {0, 1}
        /\ (lo.f.c <=> b1 = 1) /\ (hi.f.c <=> b2 = 1)
    BY <1>3, <1>4, BitFacts DEF Ccr
  <1> HIDE DEF b0, b1, b2
  <1>6. lo.r = sl + dl + b0 - b1 * Mod /\ hi.r = sh + dh + b1 - b2 * Mod
    BY <1>2, <1>3, <1>4, <1>5, ModFacts
  <1>7. hi.r * Mod + lo.r = exact - b2 * Wide
    <2>1. (sh + dh + b1 - b2 * Mod) * Mod = sh * Mod + dh * Mod + b1 * Mod - b2 * (Mod * Mod)
      BY <1>2, <1>5, ModFacts
    <2> QED BY <2>1, <1>1, <1>2, <1>5, <1>6, ModFacts DEF Wide
  <1>8. exact \in Int /\ b2 \in {-1, 0, 1}
    BY <1>5, WideFacts
  <1> HIDE DEF exact
  <1>9. /\ hi.r * Mod + lo.r = exact % Wide
        /\ exact \notin 0 .. (Wide - 1) <=> b2 # 0
        /\ hi.r * Mod + lo.r = 0 <=> hi.r = 0 /\ lo.r = 0
    BY <1>3, <1>4, <1>7, <1>8, WideWrap
  <1>10. hi.f.c <=> exact \notin 0 .. (Wide - 1)
    BY <1>5, <1>9
  <1>11. hi.f.z <=> f.z /\ hi.r * Mod + lo.r = 0
    BY <1>3, <1>4, <1>9
  <1> QED BY <1>3, <1>4, <1>9, <1>10, <1>11 DEF lo, hi, sl, sh, dl, dh, exact, b0

\* Two SUBX subtract double words.
LEMMA SubChain ==
    ASSUME NEW f \in Ccr, NEW s \in 0 .. (Wide - 1), NEW d \in 0 .. (Wide - 1)
    PROVE  LET lo == SubX(f, s % Mod, d % Mod)
               hi == SubX(lo.f, s \div Mod, d \div Mod)
               exact == d - s - Bit(f.x)
               result == hi.r * Mod + lo.r
           IN  /\ lo.f \in Ccr /\ hi.f \in Ccr /\ lo.r \in Word /\ hi.r \in Word
               /\ result = exact % Wide
               /\ hi.f.c <=> exact \notin 0 .. (Wide - 1)
               /\ hi.f.z <=> f.z /\ result = 0
  <1> DEFINE sl == s % Mod
             sh == s \div Mod
             dl == d % Mod
             dh == d \div Mod
             lo == SubX(f, sl, dl)
             hi == SubX(lo.f, sh, dh)
             b0 == Bit(f.x)
             b1 == Bit(lo.f.x)
             b2 == Bit(hi.f.c)
             k == -b2
             exact == d - s - b0
  <1>1. /\ sl \in Word /\ sh \in Word /\ dl \in Word /\ dh \in Word
        /\ s = sh * Mod + sl /\ d = dh * Mod + dl
    BY WideFacts
  <1> HIDE DEF sl, sh, dl, dh
  <1>2. /\ sl \in Int /\ sh \in Int /\ dl \in Int /\ dh \in Int
    BY <1>1, ModFacts DEF Word
  <1>3. /\ lo.r \in Word /\ lo.f \in Ccr /\ (lo.f.x <=> lo.f.c) /\ (lo.f.z <=> f.z /\ lo.r = 0)
        /\ lo.f.c => lo.r = dl - sl - b0 + Mod
        /\ ~lo.f.c => lo.r = dl - sl - b0
    BY <1>1, SubXMeans
  <1> HIDE DEF lo
  <1>4. /\ hi.r \in Word /\ hi.f \in Ccr /\ (hi.f.z <=> lo.f.z /\ hi.r = 0)
        /\ hi.f.c => hi.r = dh - sh - b1 + Mod
        /\ ~hi.f.c => hi.r = dh - sh - b1
    BY <1>1, <1>3, SubXMeans
  <1> HIDE DEF hi
  <1>5. /\ b0 \in {0, 1} /\ b1 \in {0, 1} /\ b2 \in {0, 1}
        /\ (lo.f.c <=> b1 = 1) /\ (hi.f.c <=> b2 = 1)
    BY <1>3, <1>4, BitFacts DEF Ccr
  <1> HIDE DEF b0, b1, b2
  <1>6. lo.r = dl - sl - b0 + b1 * Mod /\ hi.r = dh - sh - b1 + b2 * Mod
    BY <1>2, <1>3, <1>4, <1>5, ModFacts
  <1>7. hi.r * Mod + lo.r = exact - k * Wide
    <2>1. (dh - sh - b1 + b2 * Mod) * Mod = dh * Mod - sh * Mod - b1 * Mod + b2 * (Mod * Mod)
      BY <1>2, <1>5, ModFacts
    <2> QED BY <2>1, <1>1, <1>2, <1>5, <1>6, ModFacts DEF Wide
  <1>8. exact \in Int /\ k \in {-1, 0, 1} /\ (k # 0 <=> b2 = 1)
    BY <1>5, WideFacts
  <1> HIDE DEF exact, k
  <1>9. /\ hi.r * Mod + lo.r = exact % Wide
        /\ exact \notin 0 .. (Wide - 1) <=> k # 0
        /\ hi.r * Mod + lo.r = 0 <=> hi.r = 0 /\ lo.r = 0
    BY <1>3, <1>4, <1>7, <1>8, WideWrap
  <1>10. hi.f.c <=> exact \notin 0 .. (Wide - 1)
    BY <1>5, <1>8, <1>9
  <1>11. hi.f.z <=> f.z /\ hi.r * Mod + lo.r = 0
    BY <1>3, <1>4, <1>9
  <1> QED BY <1>3, <1>4, <1>9, <1>10, <1>11 DEF lo, hi, sl, sh, dl, dh, exact, b0

\* Two NEGX negate a double word.
LEMMA NegChain ==
    ASSUME NEW f \in Ccr, NEW d \in 0 .. (Wide - 1)
    PROVE  LET lo == NegX(f, d % Mod)
               hi == NegX(lo.f, d \div Mod)
               exact == -d - Bit(f.x)
               result == hi.r * Mod + lo.r
           IN  /\ lo.f \in Ccr /\ hi.f \in Ccr /\ lo.r \in Word /\ hi.r \in Word
               /\ result = exact % Wide
               /\ hi.f.c <=> exact \notin 0 .. (Wide - 1)
               /\ hi.f.z <=> f.z /\ result = 0
  <1> DEFINE dl == d % Mod
             dh == d \div Mod
             lo == NegX(f, dl)
             hi == NegX(lo.f, dh)
             b0 == Bit(f.x)
             b1 == Bit(lo.f.x)
             b2 == Bit(hi.f.c)
             k == -b2
             exact == -d - b0
  <1>1. dl \in Word /\ dh \in Word /\ d = dh * Mod + dl
    BY WideFacts
  <1> HIDE DEF dl, dh
  <1>2. dl \in Int /\ dh \in Int /\ 0 <= dl /\ 0 <= dh
    BY <1>1, ModFacts DEF Word
  <1>3. /\ lo.r \in Word /\ lo.f \in Ccr /\ (lo.f.x <=> lo.f.c) /\ (lo.f.z <=> f.z /\ lo.r = 0)
        /\ lo.f.c <=> dl + b0 > 0
        /\ lo.f.c => lo.r = Mod - dl - b0
        /\ ~lo.f.c => lo.r = 0
    BY <1>1, NegXMeans
  <1> HIDE DEF lo
  <1>4. /\ hi.r \in Word /\ hi.f \in Ccr /\ (hi.f.z <=> lo.f.z /\ hi.r = 0)
        /\ hi.f.c <=> dh + b1 > 0
        /\ hi.f.c => hi.r = Mod - dh - b1
        /\ ~hi.f.c => hi.r = 0
    BY <1>1, <1>3, NegXMeans
  <1> HIDE DEF hi
  <1>5. /\ b0 \in {0, 1} /\ b1 \in {0, 1} /\ b2 \in {0, 1}
        /\ (lo.f.c <=> b1 = 1) /\ (hi.f.c <=> b2 = 1)
    BY <1>3, <1>4, BitFacts DEF Ccr
  <1> HIDE DEF b0, b1, b2
  <1>6. lo.r = 0 - dl - b0 + b1 * Mod /\ hi.r = 0 - dh - b1 + b2 * Mod
    BY <1>2, <1>3, <1>4, <1>5, ModFacts
  <1>7. hi.r * Mod + lo.r = exact - k * Wide
    <2>1. (0 - dh - b1 + b2 * Mod) * Mod = 0 - dh * Mod - b1 * Mod + b2 * (Mod * Mod)
      BY <1>2, <1>5, ModFacts
    <2> QED BY <2>1, <1>1, <1>2, <1>5, <1>6, ModFacts DEF Wide
  <1>8. exact \in Int /\ k \in {-1, 0, 1} /\ (k # 0 <=> b2 = 1)
    BY <1>5, WideFacts
  <1> HIDE DEF exact, k
  <1>9. /\ hi.r * Mod + lo.r = exact % Wide
        /\ exact \notin 0 .. (Wide - 1) <=> k # 0
        /\ hi.r * Mod + lo.r = 0 <=> hi.r = 0 /\ lo.r = 0
    BY <1>3, <1>4, <1>7, <1>8, WideWrap
  <1>10. hi.f.c <=> exact \notin 0 .. (Wide - 1)
    BY <1>5, <1>8, <1>9
  <1>11. hi.f.z <=> f.z /\ hi.r * Mod + lo.r = 0
    BY <1>3, <1>4, <1>9
  <1> QED BY <1>3, <1>4, <1>9, <1>10, <1>11 DEF lo, hi, dl, dh, exact, b0

-----------------------------------------------------------------------------
\* Packed decimal.

\* A number below 100 has two digits, and its packed byte a nibble for each.
LEMMA PackedFacts ==
    ASSUME NEW n \in 0 .. 99
    PROVE  /\ n \div 10 \in 0 .. 9 /\ n % 10 \in 0 .. 9
           /\ n = 10 * (n \div 10) + (n % 10)
           /\ Low(Packed(n)) = n % 10
           /\ High(Packed(n)) = 16 * (n \div 10)
           /\ Packed(n) \in 0 .. 255
  <1> DEFINE a == n \div 10
             b == n % 10
  <1>1. a \in Int /\ b \in Int /\ 0 <= a /\ a <= 9 /\ 0 <= b /\ b <= 9 /\ n = 10 * a + b
    OBVIOUS
  <1>2. Packed(n) = 16 * a + b
    BY DEF Packed
  <1> HIDE DEF a, b
  <1>3. (16 * a + b) % 16 = b
    BY <1>1
  <1>4. Low(Packed(n)) = b /\ High(Packed(n)) = 16 * a
    BY <1>1, <1>2, <1>3 DEF Low, High
  <1>5. Packed(n) \in 0 .. 255
    BY <1>1, <1>2
  <1> QED BY <1>1, <1>4, <1>5 DEF a, b

\* The packed byte of given digits.
LEMMA PackedDigits ==
    ASSUME NEW h \in 0 .. 9, NEW l \in 0 .. 9
    PROVE  Packed(10 * h + l) = 16 * h + l
  <1>1. (10 * h + l) \div 10 = h /\ (10 * h + l) % 10 = l
    OBVIOUS
  <1> QED BY <1>1 DEF Packed

\* bcd_abcd adds decimally.
LEMMA AbcdMeans ==
    ASSUME NEW f \in Ccr, NEW s \in 0 .. 99, NEW d \in 0 .. 99
    PROVE  LET o == BcdAbcd(f, Packed(s), Packed(d))
               exact == d + s + Bit(f.x)
           IN  \E carry \in BOOLEAN :
                   /\ o = Out(Packed(exact % 100),
                              BcdFlags(f, Packed(exact % 100), carry, Packed(s), Packed(d)))
                   /\ carry <=> exact \notin 0 .. 99
                   /\ exact % 100 \in 0 .. 99
  <1> DEFINE a1 == s \div 10
             b1 == s % 10
             a2 == d \div 10
             b2 == d % 10
             x == Bit(f.x)
             lo0 == b1 + b2 + x
             lo == IF lo0 > 9 THEN lo0 + 6 ELSE lo0
             v == 16 * a1 + 16 * a2 + lo
             carry == OverNinety(v)
             res == (IF carry THEN v + 96 ELSE v) % 256
             H == a1 + a2 + (IF lo0 > 9 THEN 1 ELSE 0)
             L == IF lo0 > 9 THEN lo0 - 10 ELSE lo0
             H1 == IF H > 9 THEN H - 10 ELSE H
             exact == d + s + x
  <1>1. /\ a1 \in 0 .. 9 /\ b1 \in 0 .. 9 /\ a2 \in 0 .. 9 /\ b2 \in 0 .. 9
        /\ s = 10 * a1 + b1 /\ d = 10 * a2 + b2
        /\ Low(Packed(s)) = b1 /\ High(Packed(s)) = 16 * a1
        /\ Low(Packed(d)) = b2 /\ High(Packed(d)) = 16 * a2
    BY PackedFacts
  <1>2. BcdAbcd(f, Packed(s), Packed(d)) = Out(res, BcdFlags(f, res, carry, Packed(s), Packed(d)))
    BY <1>1 DEF BcdAbcd
  <1>3. x \in {0, 1}
    BY BitFacts DEF Ccr
  <1> HIDE DEF a1, b1, a2, b2, x
  <1>4. lo0 \in Int /\ 0 <= lo0 /\ lo0 <= 19
    BY <1>1, <1>3
  <1>5. exact = 10 * H + L /\ H \in 0 .. 19 /\ L \in 0 .. 9
    BY <1>1, <1>3, <1>4
  <1>6. v = 16 * H + L
    BY <1>1, <1>4
  <1> HIDE DEF H, L, v, lo0, exact
  <1>7. carry <=> H > 9
    <2>1. v % 512 = v /\ v % 16 = L
      BY <1>5, <1>6
    <2> QED BY <2>1, <1>5, <1>6 DEF OverNinety
  <1> HIDE DEF carry
  <1>8. H1 \in 0 .. 9 /\ res = 16 * H1 + L
    BY <1>5, <1>6, <1>7
  <1>9. exact % 100 = 10 * H1 + L /\ (exact \notin 0 .. 99 <=> H > 9)
    BY <1>5
  <1> HIDE DEF H1, res
  <1>10. res = Packed(exact % 100) /\ exact % 100 \in 0 .. 99
    BY <1>5, <1>8, <1>9, PackedDigits
  <1>11. carry \in BOOLEAN
    BY DEF carry, OverNinety
  <1> QED BY <1>2, <1>7, <1>9, <1>10, <1>11 DEF exact, x

\* The difference of bcd_sbcd and bcd_nbcd is decimal.
LEMMA BcdDiffMeans ==
    ASSUME NEW f \in Ccr, NEW s \in 0 .. 99, NEW d \in 0 .. 99
    PROVE  LET t == BcdDiff(f, Packed(s), Packed(d))
               exact == d - s - Bit(f.x)
           IN  /\ t.res = Packed(exact % 100)
               /\ t.carry \in BOOLEAN
               /\ t.carry <=> exact \notin 0 .. 99
               /\ exact % 100 \in 0 .. 99
  <1> DEFINE a1 == s \div 10
             b1 == s % 10
             a2 == d \div 10
             b2 == d % 10
             x == Bit(f.x)
             lo0 == U16(b2 - b1 - x)
             hi0 == U16(16 * a2 - 16 * a1)
             lo == IF lo0 > 9 THEN U16(lo0 - 6) ELSE lo0
             hi == IF lo0 > 9 THEN U16(hi0 - 16) ELSE hi0
             v == U16(hi + (lo % 16))
             carry == OverNinety(hi)
             res == (IF carry THEN U16(v - 96) ELSE v) % 256
             borrow == b2 - b1 - x < 0
             H == a2 - a1 - (IF borrow THEN 1 ELSE 0)
             L == IF borrow THEN b2 - b1 - x + 10 ELSE b2 - b1 - x
             H1 == IF H < 0 THEN H + 10 ELSE H
             exact == d - s - x
  <1>1. /\ a1 \in 0 .. 9 /\ b1 \in 0 .. 9 /\ a2 \in 0 .. 9 /\ b2 \in 0 .. 9
        /\ s = 10 * a1 + b1 /\ d = 10 * a2 + b2
        /\ Low(Packed(s)) = b1 /\ High(Packed(s)) = 16 * a1
        /\ Low(Packed(d)) = b2 /\ High(Packed(d)) = 16 * a2
    BY PackedFacts
  <1>2. BcdDiff(f, Packed(s), Packed(d)) = [carry |-> carry, res |-> res]
    BY <1>1 DEF BcdDiff
  <1>3. x \in {0, 1}
    BY BitFacts DEF Ccr
  <1> HIDE DEF a1, b1, a2, b2, x
  <1>4. /\ borrow => lo0 = b2 - b1 - x + 65536
        /\ ~borrow => lo0 = b2 - b1 - x
        /\ lo0 > 9 <=> borrow
    BY <1>1, <1>3 DEF U16
  <1>5. exact = 10 * H + L /\ H \in -10 .. 9 /\ L \in 0 .. 9
    BY <1>1, <1>3
  <1>6. lo % 16 = L
    BY <1>1, <1>3, <1>4 DEF U16
  <1>7. hi = U16(16 * H)
    <2>1. a1 \in Int /\ a2 \in Int /\ 0 <= a1 /\ a1 <= 9 /\ 0 <= a2 /\ a2 <= 9
      BY <1>1
    <2> HIDE DEF borrow
    <2> QED BY <1>4, <2>1 DEF U16
  <1> HIDE DEF H, L, lo, exact, hi
  <1>8. (H < 0 => hi = 65536 + 16 * H) /\ (H >= 0 => hi = 16 * H)
    BY <1>5, <1>7 DEF U16
  <1>9. carry <=> H < 0
    BY <1>5, <1>8 DEF OverNinety
  <1>10. v = hi + L
    BY <1>5, <1>6, <1>8 DEF U16
  <1>11. carry \in BOOLEAN
    BY DEF OverNinety
  <1> HIDE DEF carry, v
  <1>12. H1 \in 0 .. 9 /\ res = 16 * H1 + L
    BY <1>5, <1>8, <1>9, <1>10 DEF U16
  <1>13. exact % 100 = 10 * H1 + L /\ (exact \notin 0 .. 99 <=> H < 0)
    BY <1>5
  <1> HIDE DEF H1, res
  <1>14. res = Packed(exact % 100) /\ exact % 100 \in 0 .. 99
    BY <1>5, <1>12, <1>13, PackedDigits
  <1> QED BY <1>2, <1>9, <1>11, <1>13, <1>14 DEF exact, x

\* The flags of the decimal instructions.
LEMMA BcdFlagsFacts ==
    ASSUME NEW f \in Ccr, NEW res, NEW carry \in BOOLEAN, NEW src, NEW dst
    PROVE  LET g == BcdFlags(f, res, carry, src, dst) IN
           /\ g \in Ccr
           /\ (g.c <=> carry) /\ (g.x <=> carry) /\ (g.z <=> f.z /\ res = 0)
  <1> DEFINE neg == res >= 128
             over == (src >= 128) # (dst >= 128) /\ neg # (dst >= 128)
             zero == f.z /\ res = 0
  <1>1. BcdFlags(f, res, carry, src, dst) =
            [x |-> carry, n |-> neg, z |-> zero, c |-> carry, v |-> over]
    BY DEF BcdFlags
  <1>2. neg \in BOOLEAN /\ over \in BOOLEAN /\ zero \in BOOLEAN
    OBVIOUS
  <1> HIDE DEF neg, over, zero
  <1> DEFINE g == [x |-> carry, n |-> neg, z |-> zero, c |-> carry, v |-> over]
  <1>3. g \in Ccr /\ (g.c <=> carry) /\ (g.x <=> carry) /\ (g.z <=> zero)
    BY <1>2, FlagRecord
  <1> HIDE DEF g
  <1> QED BY <1>1, <1>3 DEF zero, g

\* Packed is 0 for 0 only.
LEMMA PackedZero == Packed(0) = 0 /\ \A n \in 0 .. 99 : Packed(n) = 0 <=> n = 0
  BY DEF Packed

\* What a decimal instruction promises of its result.
Decimal(f, o, exact) ==
    /\ o.r = Packed(exact % 100) /\ o.r \in 0 .. 255 /\ o.f \in Ccr
    /\ o.f.c <=> exact \notin 0 .. 99
    /\ o.f.x <=> o.f.c
    /\ o.f.z <=> f.z /\ exact % 100 = 0

\* ABCD.
LEMMA AbcdDecimal ==
    ASSUME NEW f \in Ccr, NEW s \in 0 .. 99, NEW d \in 0 .. 99
    PROVE  Decimal(f, BcdAbcd(f, Packed(s), Packed(d)), d + s + Bit(f.x))
  <1> DEFINE o == BcdAbcd(f, Packed(s), Packed(d))
             exact == d + s + Bit(f.x)
             n == exact % 100
  <1>1. PICK carry \in BOOLEAN :
            /\ o = Out(Packed(n), BcdFlags(f, Packed(n), carry, Packed(s), Packed(d)))
            /\ carry <=> exact \notin 0 .. 99
            /\ n \in 0 .. 99
    BY AbcdMeans
  <1> DEFINE g == BcdFlags(f, Packed(n), carry, Packed(s), Packed(d))
  <1> HIDE DEF o, exact
  <1>2. g \in Ccr /\ (g.c <=> carry) /\ (g.x <=> carry) /\ (g.z <=> f.z /\ Packed(n) = 0)
    BY BcdFlagsFacts
  <1>3. o.r = Packed(n) /\ o.f = g
    BY <1>1 DEF Out
  <1> HIDE DEF g
  <1>4. (Packed(n) = 0 <=> n = 0) /\ Packed(n) \in 0 .. 255
    BY <1>1, PackedZero, PackedFacts
  <1>5. Decimal(f, o, exact)
    BY <1>1, <1>2, <1>3, <1>4 DEF Decimal
  <1> QED BY <1>5 DEF o, exact

\* SBCD.
LEMMA SbcdDecimal ==
    ASSUME NEW f \in Ccr, NEW s \in 0 .. 99, NEW d \in 0 .. 99
    PROVE  Decimal(f, BcdSbcd(f, Packed(s), Packed(d)), d - s - Bit(f.x))
  <1> DEFINE o == BcdSbcd(f, Packed(s), Packed(d))
             t == BcdDiff(f, Packed(s), Packed(d))
             exact == d - s - Bit(f.x)
             n == exact % 100
             g == BcdFlags(f, t.res, t.carry, Packed(s), Packed(d))
  <1>1. t.res = Packed(n) /\ t.carry \in BOOLEAN /\ (t.carry <=> exact \notin 0 .. 99) /\ n \in 0 .. 99
    BY BcdDiffMeans
  <1>2. o = Out(t.res, g)
    BY DEF BcdSbcd
  <1> HIDE DEF o, exact, t
  <1>3. g \in Ccr /\ (g.c <=> t.carry) /\ (g.x <=> t.carry) /\ (g.z <=> f.z /\ t.res = 0)
    BY <1>1, BcdFlagsFacts
  <1>4. o.r = Packed(n) /\ o.f = g
    BY <1>1, <1>2 DEF Out
  <1> HIDE DEF g
  <1>5. (Packed(n) = 0 <=> n = 0) /\ Packed(n) \in 0 .. 255
    BY <1>1, PackedZero, PackedFacts
  <1>6. Decimal(f, o, exact)
    BY <1>1, <1>3, <1>4, <1>5 DEF Decimal
  <1> QED BY <1>6 DEF o, exact

\* NBCD subtracts from 0 and clears V.
LEMMA NbcdDecimal ==
    ASSUME NEW f \in Ccr, NEW d \in 0 .. 99
    PROVE  Decimal(f, BcdNbcd(f, Packed(d)), -d - Bit(f.x))
  <1> DEFINE o == BcdNbcd(f, Packed(d))
             t == BcdDiff(f, Packed(d), Packed(0))
             exact == 0 - d - Bit(f.x)
             n == exact % 100
             h == BcdFlags(f, t.res, t.carry, Packed(d), Packed(0))
             g == [h EXCEPT !.v = FALSE]
  <1>0. 0 - d = -d
    OBVIOUS
  <1>1. t.res = Packed(n) /\ t.carry \in BOOLEAN /\ (t.carry <=> exact \notin 0 .. 99) /\ n \in 0 .. 99
    <2>1. 0 \in 0 .. 99
      BY SMT
    <2> QED BY <2>1, BcdDiffMeans
  <1>2. o = Out(t.res, g)
    BY PackedZero DEF BcdNbcd
  <1> HIDE DEF o, exact, t
  <1>3. h \in Ccr /\ (h.c <=> t.carry) /\ (h.x <=> t.carry) /\ (h.z <=> f.z /\ t.res = 0)
    BY <1>1, BcdFlagsFacts
  <1> HIDE DEF h
  <1>4. g \in Ccr /\ g.c = h.c /\ g.x = h.x /\ g.z = h.z
    BY <1>3 DEF Ccr
  <1>5. o.r = Packed(n) /\ o.f = g
    BY <1>1, <1>2 DEF Out
  <1> HIDE DEF g
  <1>6. (Packed(n) = 0 <=> n = 0) /\ Packed(n) \in 0 .. 255
    BY <1>1, PackedZero, PackedFacts
  <1>7. Decimal(f, o, exact)
    BY <1>1, <1>3, <1>4, <1>5, <1>6 DEF Decimal
  <1> QED BY <1>0, <1>7 DEF o, exact

-----------------------------------------------------------------------------
\* Division.

Magnitude(a) == IF a < 0 THEN -a ELSE a

\* q and r are the quotient and the remainder of a by b in C.
Quotient(a, b, q, r) ==
    /\ q * b + r = a
    /\ Magnitude(r) < Magnitude(b)
    /\ r = 0 \/ (r < 0) = (a < 0)

\* C's quotient exists: it is Trunc.
LEMMA TruncFacts ==
    ASSUME NEW a \in Int, NEW b \in Int, b # 0
    PROVE  Trunc(a, b) \in Int /\ Quotient(a, b, Trunc(a, b), a - Trunc(a, b) * b)
  <1> DEFINE A == Magnitude(a)
             B == Magnitude(b)
             Q == A \div B
             R == A % B
             q == Trunc(a, b)
             r == a - q * b
  <1>1. A \in Int /\ A >= 0 /\ B \in Int /\ B > 0
    BY DEF Magnitude
  <1>2. q = IF (a < 0) # (b < 0) THEN -Q ELSE Q
    BY DEF Trunc, Magnitude
  <1>3. /\ a < 0 => A = -a
        /\ ~(a < 0) => A = a
        /\ b < 0 => B = -b
        /\ ~(b < 0) => B = b
    BY DEF Magnitude
  <1> HIDE DEF A, B, q
  <1>4. Q \in Int /\ R \in Int /\ 0 <= R /\ R < B /\ A = Q * B + R
    BY <1>1
  <1> HIDE DEF Q, R
  <1>5. q \in Int
    BY <1>2, <1>4
  <1>6. q * b = IF a < 0 THEN -(Q * B) ELSE Q * B
    <2>1. CASE a < 0 /\ b < 0
      <3>1. q = Q /\ b = -B
        BY <2>1, <1>1, <1>2, <1>3
      <3>2. Q * (-B) = -(Q * B)
        BY <1>1, <1>4
      <3> QED BY <2>1, <3>1, <3>2
    <2>2. CASE a < 0 /\ ~(b < 0)
      <3>1. q = -Q /\ b = B
        BY <2>2, <1>1, <1>2, <1>3
      <3>2. (-Q) * B = -(Q * B)
        BY <1>1, <1>4
      <3> QED BY <2>2, <3>1, <3>2
    <2>3. CASE ~(a < 0) /\ b < 0
      <3>1. q = -Q /\ b = -B
        BY <2>3, <1>1, <1>2, <1>3
      <3>2. (-Q) * (-B) = Q * B
        BY <1>1, <1>4
      <3> QED BY <2>3, <3>1, <3>2
    <2>4. CASE ~(a < 0) /\ ~(b < 0)
      BY <2>4, <1>1, <1>2, <1>3
    <2> QED BY <2>1, <2>2, <2>3, <2>4
  <1>7. q * b \in Int /\ Q * B \in Int
    BY <1>1, <1>4, <1>5
  <1>8. r \in Int /\ (a < 0 => r = -R) /\ (~(a < 0) => r = R)
    BY <1>3, <1>4, <1>6, <1>7
  <1>9. q * b + r = a
    BY <1>7
  <1> HIDE DEF r
  <1>10. Magnitude(r) < B
    BY <1>4, <1>8 DEF Magnitude
  <1>11. r = 0 \/ (r < 0) = (a < 0)
    BY <1>4, <1>8
  <1> QED BY <1>5, <1>9, <1>10, <1>11 DEF Quotient, q, r, B

\* C's quotient is the only one.
LEMMA QuotientUnique ==
    ASSUME NEW a \in Int, NEW b \in Int, NEW q1 \in Int, NEW r1 \in Int, NEW q2 \in Int,
           NEW r2 \in Int, Quotient(a, b, q1, r1), Quotient(a, b, q2, r2)
    PROVE  q1 = q2 /\ r1 = r2
  <1> DEFINE B == Magnitude(b)
             k == q1 - q2
  <1>1. B \in Int /\ (b = B \/ b = -B) /\ B > 0
    BY DEF Magnitude, Quotient
  <1>2. (q1 - q2) * b = r2 - r1
    BY DEF Quotient
  <1>3. -B < r2 - r1 /\ r2 - r1 < B
    BY DEF Quotient, Magnitude
  <1>4. k \in Int
    OBVIOUS
  <1> HIDE DEF B, k
  <1>5. k * b = r2 - r1
    BY <1>2 DEF k
  <1>6. ~(k >= 1)
    <2>1. SUFFICES ASSUME k >= 1 PROVE FALSE
      OBVIOUS
    <2>2. k * B >= B /\ k * B \in Int /\ k * (-B) = -(k * B)
      BY <2>1, <1>1, <1>4
    <2> QED BY <2>2, <1>1, <1>3, <1>5
  <1>7. ~(k <= -1)
    <2>1. SUFFICES ASSUME k <= -1 PROVE FALSE
      OBVIOUS
    <2>2. k * B <= -B /\ k * B \in Int /\ k * (-B) = -(k * B)
      BY <2>1, <1>1, <1>4
    <2> QED BY <2>2, <1>1, <1>3, <1>5
  <1>8. k = 0
    BY <1>4, <1>6, <1>7
  <1>9. q1 = q2
    BY <1>8 DEF k
  <1> QED BY <1>9 DEF Quotient

\* The two words of a quotient and remainder that were put together.
LEMMA DividedFacts ==
    ASSUME NEW f \in Ccr, NEW q \in Int, NEW r \in Int
    PROVE  LET o == Divided(f, q, r) IN
           /\ o.r \in 0 .. (Wide - 1) /\ o.f \in Ccr
           /\ o.r % Mod = Wrap(q) /\ o.r \div Mod = Wrap(r)
           /\ ~o.f.v /\ ~o.zero
  <1> DEFINE h == Wrap(r)
             l == Wrap(q)
             w == h * Mod + l
  <1>1. h \in Word /\ l \in Word
    BY WrapFacts
  <1>2. Divided(f, q, r) = [zero |-> FALSE, r |-> w, f |-> SetFlagsLogic(f, l)]
    BY DEF Divided
  <1> HIDE DEF h, l
  <1>3. w \in 0 .. (Wide - 1)
    BY <1>1, WideFacts
  <1>4. h \in Int /\ l \in Int /\ 0 <= l /\ l < Mod
    BY <1>1, ModFacts DEF Word
  <1>5. w \in Int /\ w - h * Mod = l
    BY <1>4, ModFacts
  <1>6. w % Mod = l /\ w \div Mod = h
    BY <1>4, <1>5, DivisionUnique, ModFacts
  <1>7. SetFlagsLogic(f, l) \in Ccr /\ ~SetFlagsLogic(f, l).v
    <2>1. SetFlagsLogic(f, l) \in Ccr
      BY InlineLogicAgrees
    <2> QED BY <2>1 DEF SetFlagsLogic, Ccr
  <1> HIDE DEF w
  <1> QED BY <1>2, <1>3, <1>6, <1>7 DEF h, l

\* A quotient that does not fit leaves the register and sets V.
LEMMA OverflowedFacts ==
    ASSUME NEW f \in Ccr, NEW d
    PROVE  LET o == Overflowed(f, d) IN
           o.r = d /\ o.f \in Ccr /\ o.f.v /\ ~o.zero
  <1> DEFINE g == [f EXCEPT !.n = FALSE, !.z = FALSE, !.v = TRUE, !.c = FALSE]
  <1>1. g \in Ccr /\ g.v
    BY DEF Ccr
  <1>2. Overflowed(f, d) = [zero |-> FALSE, r |-> d, f |-> g]
    BY DEF Overflowed
  <1> HIDE DEF g
  <1> QED BY <1>1, <1>2

\* DIVU: the quotient and the remainder, or V.
LEMMA DivUMeans ==
    ASSUME NEW f \in Ccr, NEW s \in Word, NEW d \in 0 .. (Wide - 1)
    PROVE  LET o == DivU(f, s, d)
               fits == \E k \in Word : \E rr \in (-Mod) .. Mod : Quotient(d, s, k, rr)
           IN  /\ o.r \in 0 .. (Wide - 1) /\ o.f \in Ccr
               /\ ~o.zero => /\ o.f.v <=> ~fits
                             /\ ~fits => o.r = d
                             /\ fits => Quotient(d, s, o.r % Mod, o.r \div Mod)
  <1> DEFINE o == DivU(f, s, d)
             q == d \div s
             r == d % s
             fits == \E k \in Word : \E rr \in (-Mod) .. Mod : Quotient(d, s, k, rr)
  <1>1. s \in Int /\ 0 <= s /\ s < Mod /\ d \in Int /\ 0 <= d
    BY ModFacts, WideFacts DEF Word
  <1>2. CASE s = 0
    <2>1. o = NoDivision(f, d)
      BY <1>2 DEF DivU
    <2> HIDE DEF o
    <2>2. o.r = d /\ o.f = f /\ o.zero
      BY <2>1 DEF NoDivision
    <2> QED BY <2>2 DEF o
  <1>3. CASE s # 0
    <2>1. q \in Int /\ r \in Int /\ 0 <= r /\ r < s /\ d = q * s + r
      BY <1>1, <1>3
    <2>2. 0 <= q
      <3> HIDE DEF q, r
      <3>1. SUFFICES ASSUME q <= -1 PROVE FALSE
        BY <2>1
      <3>2. q * s <= (-1) * s
        BY <3>1, <2>1, <1>1
      <3> QED BY <3>2, <2>1, <1>1
    <2>3. DivU(f, s, d) = IF q > Mod - 1 THEN Overflowed(f, d) ELSE Divided(f, q, r)
      BY <1>3 DEF DivU
    <2> HIDE DEF q, r
    <2>4. Quotient(d, s, q, r)
      BY <2>1, <1>1 DEF Quotient, Magnitude
    <2>5. fits <=> q <= Mod - 1
      <3>1. ASSUME fits PROVE q <= Mod - 1
        <4>1. PICK k \in Word : \E rr \in (-Mod) .. Mod : Quotient(d, s, k, rr)
          BY <3>1
        <4>2. PICK rr \in (-Mod) .. Mod : Quotient(d, s, k, rr)
          BY <4>1
        <4>3. k \in Int /\ k <= Mod - 1 /\ rr \in Int
          BY ModFacts DEF Word
        <4>4. k = q
          BY <4>2, <4>3, <2>1, <2>4, <1>1, QuotientUnique
        <4> QED BY <4>3, <4>4
      <3>2. ASSUME q <= Mod - 1 PROVE fits
        <4>1. q \in Word /\ r \in (-Mod) .. Mod
          BY <3>2, <2>1, <2>2, <1>1, ModFacts DEF Word
        <4> QED BY <4>1, <2>4
      <3> QED BY <3>1, <3>2
    <2> HIDE DEF fits
    <2>6. CASE q > Mod - 1
      <3>1. o = Overflowed(f, d)
        BY <2>3, <2>6
      <3>2. ~fits
        BY <2>1, <2>5, <2>6, ModFacts
      <3> HIDE DEF o
      <3>3. o.r = d /\ o.f \in Ccr /\ o.f.v /\ ~o.zero
        BY <3>1, OverflowedFacts
      <3> QED BY <3>2, <3>3 DEF o, fits
    <2>7. CASE ~(q > Mod - 1)
      <3>1. o = Divided(f, q, r)
        BY <2>3, <2>7
      <3>2. fits
        BY <2>1, <2>5, <2>7, ModFacts
      <3>3. Wrap(q) = q /\ Wrap(r) = r
        BY <2>1, <2>2, <2>7, <1>1, ModFacts, WrapFacts
      <3> HIDE DEF o
      <3>4. /\ o.r \in 0 .. (Wide - 1) /\ o.f \in Ccr
            /\ o.r % Mod = q /\ o.r \div Mod = r
            /\ ~o.f.v /\ ~o.zero
        BY <3>1, <3>3, <2>1, DividedFacts
      <3> QED BY <3>2, <3>4, <2>4 DEF o, fits
    <2> QED BY <2>6, <2>7
  <1> QED BY <1>2, <1>3

\* The signed values of words are those between -Half and Half - 1.
LEMMA SignedFacts ==
    /\ \A v \in Word : Signed(v) \in Int /\ -Half <= Signed(v) /\ Signed(v) <= Half - 1
    /\ \A v \in Word : Signed(v) = 0 <=> v = 0
    /\ \A n \in Int : -Half <= n /\ n <= Half - 1 => Wrap(n) \in Word /\ Signed(Wrap(n)) = n
  <1>1. \A v \in Word : Signed(v) \in Int /\ -Half <= Signed(v) /\ Signed(v) <= Half - 1
    BY ModFacts DEF Word, Signed, Msb
  <1>2. \A v \in Word : Signed(v) = 0 <=> v = 0
    BY ModFacts DEF Word, Signed, Msb
  <1>3. ASSUME NEW n \in Int, -Half <= n, n <= Half - 1
        PROVE  Wrap(n) \in Word /\ Signed(Wrap(n)) = n
    <2>1. Wrap(n) \in Word /\ (0 <= n => Wrap(n) = n) /\ (n < 0 => Wrap(n) = n + Mod)
      BY <1>3, WrapFacts, ModFacts
    <2> QED BY <2>1, <1>3, ModFacts DEF Signed, Msb
  <1> QED BY <1>1, <1>2, <1>3

\* DIVS, where C defines it: the quotient and the remainder of C, or V.
LEMMA DivSMeans ==
    ASSUME NEW f \in Ccr, NEW s \in Word, NEW d \in 0 .. (Wide - 1), NEW o \in DivS(f, s, d)
    PROVE  LET a == SignedWide(d)
               b == Signed(s)
               fits == \E k \in Word : \E rr \in (-Mod) .. Mod : Quotient(a, b, Signed(k), rr)
           IN  /\ o.r \in 0 .. (Wide - 1) /\ o.f \in Ccr
               /\ ~o.zero /\ ~UndefinedDiv(s, d) =>
                      /\ o.f.v <=> ~fits
                      /\ ~fits => o.r = d
                      /\ fits => Quotient(a, b, Signed(o.r % Mod), Signed(o.r \div Mod))
  <1> DEFINE a == SignedWide(d)
             b == Signed(s)
             q == Trunc(a, b)
             r == a - q * b
             fits == \E k \in Word : \E rr \in (-Mod) .. Mod : Quotient(a, b, Signed(k), rr)
  <1>1. a \in Int /\ b \in Int /\ -Half <= b /\ b <= Half - 1 /\ (b = 0 <=> s = 0)
    <2>1. Wide \div 2 \in Int /\ d \in Int /\ Wide \in Int
      BY WideFacts
    <2>2. a \in Int
      BY <2>1 DEF SignedWide
    <2> QED BY <2>2, SignedFacts
  <1>2. CASE s = 0
    <2>1. o = NoDivision(f, d)
      BY <1>2 DEF DivS
    <2>2. o.r = d /\ o.f = f /\ o.zero
      BY <2>1 DEF NoDivision
    <2> QED BY <2>2
  <1>3. CASE s # 0
    <2>1. q \in Int /\ Quotient(a, b, q, r)
      BY <1>1, <1>3, TruncFacts
    <2>2. DivS(f, s, d) =
              IF UndefinedDiv(s, d) THEN [zero : BOOLEAN, r : 0 .. (Wide - 1), f : Ccr]
              ELSE IF q > Half - 1 \/ q < -Half THEN {Overflowed(f, d)}
              ELSE {Divided(f, q, r)}
      BY <1>3 DEF DivS
    <2>3. q * b \in Int
      BY <2>1, <1>1
    <2>4. r \in Int
      BY <2>3, <1>1
    <2> HIDE DEF q, r, a, b
    <2>5. -Half < r /\ r < Half /\ r \in (-Mod) .. Mod
      BY <2>1, <2>4, <1>1, ModFacts DEF Quotient, Magnitude
    <2>6. fits <=> -Half <= q /\ q <= Half - 1
      <3>1. ASSUME fits PROVE -Half <= q /\ q <= Half - 1
        <4>1. PICK k \in Word : \E rr \in (-Mod) .. Mod : Quotient(a, b, Signed(k), rr)
          BY <3>1
        <4>2. PICK rr \in (-Mod) .. Mod : Quotient(a, b, Signed(k), rr)
          BY <4>1
        <4>3. Signed(k) \in Int /\ -Half <= Signed(k) /\ Signed(k) <= Half - 1
          BY SignedFacts
        <4>4. rr \in Int
          BY ModFacts
        <4>5. Signed(k) = q
          BY <4>2, <4>3, <4>4, <2>1, <2>4, <1>1, QuotientUnique
        <4> QED BY <4>3, <4>5
      <3>2. ASSUME -Half <= q, q <= Half - 1 PROVE fits
        <4>1. Wrap(q) \in Word /\ Signed(Wrap(q)) = q
          BY <3>2, <2>1, SignedFacts
        <4> QED BY <4>1, <2>1, <2>5
      <3> QED BY <3>1, <3>2
    <2> HIDE DEF fits
    <2>7. CASE UndefinedDiv(s, d)
      <3>1. o \in [zero : BOOLEAN, r : 0 .. (Wide - 1), f : Ccr]
        BY <2>2, <2>7
      <3> QED BY <2>7, <3>1
    <2>8. CASE ~UndefinedDiv(s, d) /\ (q > Half - 1 \/ q < -Half)
      <3>1. o = Overflowed(f, d)
        BY <2>2, <2>8
      <3>2. ~fits
        BY <2>1, <2>6, <2>8, ModFacts
      <3>3. o.r = d /\ o.f \in Ccr /\ o.f.v /\ ~o.zero
        BY <3>1, OverflowedFacts
      <3>4. o.r \in 0 .. (Wide - 1)
        BY <3>3
      <3> QED BY <3>2, <3>3, <3>4 DEF fits, a, b
    <2>9. CASE ~UndefinedDiv(s, d) /\ ~(q > Half - 1 \/ q < -Half)
      <3>1. o = Divided(f, q, r)
        BY <2>2, <2>9
      <3>2. fits /\ -Half <= q /\ q <= Half - 1
        BY <2>1, <2>6, <2>9, ModFacts
      <3>3. Signed(Wrap(q)) = q /\ Signed(Wrap(r)) = r
        <4>1. -Half <= r /\ r <= Half - 1
          BY <2>4, <2>5, ModFacts
        <4> QED BY <4>1, <3>2, <2>1, <2>4, SignedFacts
      <3>4. /\ o.r \in 0 .. (Wide - 1) /\ o.f \in Ccr
            /\ o.r % Mod = Wrap(q) /\ o.r \div Mod = Wrap(r)
            /\ ~o.f.v /\ ~o.zero
        BY <3>1, <2>1, <2>4, DividedFacts
      <3> QED BY <3>2, <3>3, <3>4, <2>1 DEF fits, a, b
    <2> QED BY <2>7, <2>8, <2>9
  <1> QED BY <1>2, <1>3

-----------------------------------------------------------------------------
\* Shifts multiply and divide by powers of two.

\* A quotient.
LEMMA DivisionFacts ==
    ASSUME NEW v \in Int, NEW p \in Nat \ {0}
    PROVE  /\ v \div p \in Int /\ v % p \in Int
           /\ v = (v \div p) * p + (v % p) /\ 0 <= v % p /\ v % p < p
  OBVIOUS

\* Halving a quotient divides by twice as much.
LEMMA DivHalves ==
    ASSUME NEW v \in Int, NEW p \in Nat \ {0}
    PROVE  (v \div p) \div 2 = v \div (2 * p)
  <1> DEFINE q == v \div p
             r == v % p
             k == q \div 2
             b == q % 2
  <1>1. q \in Int /\ r \in Int /\ v = q * p + r /\ 0 <= r /\ r < p
    BY DivisionFacts
  <1> HIDE DEF q, r
  <1>2. k \in Int /\ b \in {0, 1} /\ q = 2 * k + b
    BY <1>1
  <1> HIDE DEF k, b
  <1>3. v = k * (2 * p) + (b * p + r)
    <2>1. (2 * k + b) * p = k * (2 * p) + b * p
      BY <1>2
    <2> QED BY <1>1, <1>2, <2>1
  <1>4. 0 <= b * p + r /\ b * p + r < 2 * p
    BY <1>1, <1>2
  <1>5. k * (2 * p) \in Int /\ b * p + r \in Int /\ 2 * p \in Nat /\ 2 * p > 0
    BY <1>1, <1>2
  <1>6. 0 <= v - k * (2 * p) /\ v - k * (2 * p) < 2 * p
    BY <1>3, <1>4, <1>5
  <1>7. v \div (2 * p) = k
    BY <1>2, <1>5, <1>6, DivisionUnique
  <1> QED BY <1>7 DEF k, q

\* Doubling a remainder.
LEMMA ModDouble ==
    ASSUME NEW a \in Int, NEW m \in Nat \ {0}
    PROVE  (2 * (a % m)) % m = (2 * a) % m
  <1> DEFINE k == a \div m
             r == a % m
             j == (2 * r) \div m
             s == (2 * r) % m
  <1>1. k \in Int /\ r \in Int /\ a = k * m + r
    BY DivisionFacts
  <1> HIDE DEF k, r
  <1>2. j \in Int /\ s \in Int /\ 2 * r = j * m + s /\ 0 <= s /\ s < m
    <2>1. 2 * r \in Int
      BY <1>1
    <2> QED BY <2>1, DivisionFacts
  <1> HIDE DEF j, s
  <1> DEFINE q == 2 * k + j
             c == 2 * a
  <1>3. c = q * m + s
    BY <1>1, <1>2
  <1>4. q \in Int /\ c \in Int /\ q * m \in Int
    BY <1>1, <1>2
  <1> HIDE DEF q, c
  <1>5. c - q * m = s
    BY <1>2, <1>3, <1>4
  <1>6. c % m = c - q * m
    BY <1>2, <1>4, <1>5, DivisionUnique
  <1>7. c % m = s
    BY <1>5, <1>6
  <1> QED BY <1>7 DEF s, r, c

\* Only ASL sets V.
LEMMA NoOverflow ==
    ASSUME NEW op \in ShiftOps, op # "asl", NEW f, NEW v, NEW n \in Nat, NEW g,
           ShiftRun(op, f, v, n, g)
    PROVE  g[n].ovf = FALSE
  <1> DEFINE S == {i \in 0 .. n : g[i].ovf = FALSE}
  <1>1. 0 \in S
    BY DEF ShiftRun, ShiftStart
  <1>2. ASSUME NEW i \in 0 .. (n - 1), i \in S PROVE i + 1 \in S
    <2>1. i + 1 \in 1 .. n /\ i + 1 \in 0 .. n /\ (i + 1) - 1 = i /\ i \in 0 .. n
      OBVIOUS
    <2>2. g[i + 1] = ShiftOnce(op, g[i]) /\ g[i] \in ShiftState
      BY <2>1 DEF ShiftRun
    <2>3. g[i + 1].ovf = g[i].ovf
      BY <2>2, StepFields
    <2> QED BY <1>2, <2>1, <2>3
  <1> HIDE DEF S
  <1>3. \A i \in 0 .. n : i \in S
    BY <1>1, <1>2, CountUp
  <1>4. n \in S
    BY <1>3
  <1> QED BY <1>4 DEF S

\* LSR divides.
LEMMA LsrRun ==
    ASSUME NEW f, NEW v \in Word, NEW n \in Nat, NEW g, ShiftRun("lsr", f, v, n, g)
    PROVE  \A i \in 0 .. n : g[i].val = v \div Pow2[i]
  <1> DEFINE S == {i \in 0 .. n : g[i].val = v \div Pow2[i]}
  <1>0. v \in Int
    BY DEF Word
  <1>1. 0 \in S
    <2>1. v \div 1 = v
      BY <1>0
    <2> QED BY <2>1, Pow2Unfold DEF ShiftRun, ShiftStart
  <1>2. ASSUME NEW i \in 0 .. (n - 1), i \in S PROVE i + 1 \in S
    <2>1. i + 1 \in 1 .. n /\ i + 1 \in 0 .. n /\ (i + 1) - 1 = i /\ i \in 0 .. n /\ i \in Nat
      OBVIOUS
    <2>2. g[i + 1] = ShiftOnce("lsr", g[i]) /\ g[i] \in ShiftState
      BY <2>1 DEF ShiftRun
    <2>3. g[i + 1].val = g[i].val \div 2
      BY <2>2, StepFields DEF ShiftOps
    <2>4. Pow2[i] \in Nat \ {0} /\ Pow2[i + 1] = 2 * Pow2[i]
      BY <2>1, Pow2Positive, Pow2Unfold
    <2>5. (v \div Pow2[i]) \div 2 = v \div Pow2[i + 1]
      BY <1>0, <2>4, DivHalves
    <2> QED BY <1>2, <2>1, <2>3, <2>5
  <1> HIDE DEF S
  <1>3. \A i \in 0 .. n : i \in S
    BY <1>1, <1>2, CountUp
  <1> QED BY <1>3 DEF S

\* ASR divides the signed value.
LEMMA AsrRun ==
    ASSUME NEW f, NEW v \in Word, NEW n \in Nat, NEW g, ShiftRun("asr", f, v, n, g)
    PROVE  \A i \in 0 .. n : Signed(g[i].val) = Signed(v) \div Pow2[i]
  <1> DEFINE S == {i \in 0 .. n : Signed(g[i].val) = Signed(v) \div Pow2[i]}
  <1>0. Signed(v) \in Int
    BY SignedFacts
  <1>1. 0 \in S
    <2>1. Signed(v) \div 1 = Signed(v)
      BY <1>0
    <2> QED BY <2>1, Pow2Unfold DEF ShiftRun, ShiftStart
  <1>2. ASSUME NEW i \in 0 .. (n - 1), i \in S PROVE i + 1 \in S
    <2>1. i + 1 \in 1 .. n /\ i + 1 \in 0 .. n /\ (i + 1) - 1 = i /\ i \in 0 .. n /\ i \in Nat
      OBVIOUS
    <2>2. g[i + 1] = ShiftOnce("asr", g[i]) /\ g[i] \in ShiftState
      BY <2>1 DEF ShiftRun
    <2> DEFINE t == g[i].val
               u == g[i + 1].val
    <2>3. u = (t \div 2) + Half * Bit(Msb(t))
      BY <2>2, StepFields DEF ShiftOps
    <2>4. t \in Int /\ 0 <= t /\ t < Mod
      BY <2>2, ModFacts DEF ShiftState, Word
    <2> HIDE DEF t, u
    <2>5. Signed(u) = Signed(t) \div 2
      <3>1. CASE t >= Half
        <4>1. u = (t \div 2) + Half
          BY <2>3, <2>4, <3>1, ModFacts DEF Bit, Msb
        <4>2. Signed(t) = t - 2 * Half /\ Signed(u) = u - 2 * Half
          BY <2>4, <3>1, <4>1, ModFacts DEF Signed, Msb
        <4>3. (t - 2 * Half) \div 2 = (t \div 2) - Half
          BY <2>4, ModFacts
        <4> QED BY <2>4, <4>1, <4>2, <4>3, ModFacts
      <3>2. CASE ~(t >= Half)
        <4>1. u = t \div 2
          BY <2>3, <2>4, <3>2, ModFacts DEF Bit, Msb
        <4> QED BY <2>4, <3>2, <4>1, ModFacts DEF Signed, Msb
      <3> QED BY <3>1, <3>2
    <2>6. Pow2[i] \in Nat \ {0} /\ Pow2[i + 1] = 2 * Pow2[i]
      BY <2>1, Pow2Positive, Pow2Unfold
    <2>7. (Signed(v) \div Pow2[i]) \div 2 = Signed(v) \div Pow2[i + 1]
      BY <1>0, <2>6, DivHalves
    <2>8. Signed(u) = Signed(v) \div Pow2[i + 1]
      BY <1>2, <2>5, <2>7 DEF t
    <2> QED BY <2>1, <2>8 DEF u
  <1> HIDE DEF S
  <1>3. \A i \in 0 .. n : i \in S
    BY <1>1, <1>2, CountUp
  <1> QED BY <1>3 DEF S

\* LSL and ASL multiply, modulo the number of operands.
LEMMA LslRun ==
    ASSUME NEW op, op = "lsl" \/ op = "asl", NEW f, NEW v \in Word, NEW n \in Nat, NEW g,
           ShiftRun(op, f, v, n, g)
    PROVE  \A i \in 0 .. n : g[i].val = (v * Pow2[i]) % Mod
  <1> DEFINE S == {i \in 0 .. n : g[i].val = (v * Pow2[i]) % Mod}
  <1>0. v \in Int /\ 0 <= v /\ v < Mod /\ op \in ShiftOps /\ Mod \in Nat \ {0}
    BY ModFacts DEF Word, ShiftOps
  <1>1. 0 \in S
    <2>1. v * 1 = v /\ v % Mod = v
      BY <1>0, WrapFacts DEF Wrap
    <2> QED BY <2>1, Pow2Unfold DEF ShiftRun, ShiftStart
  <1>2. ASSUME NEW i \in 0 .. (n - 1), i \in S PROVE i + 1 \in S
    <2>1. i + 1 \in 1 .. n /\ i + 1 \in 0 .. n /\ (i + 1) - 1 = i /\ i \in 0 .. n /\ i \in Nat
      OBVIOUS
    <2>2. g[i + 1] = ShiftOnce(op, g[i]) /\ g[i] \in ShiftState
      BY <2>1 DEF ShiftRun
    <2>3. g[i + 1].val = (2 * g[i].val) % Mod
      BY <1>0, <2>2, StepFields
    <2>4. Pow2[i] \in Nat \ {0} /\ Pow2[i + 1] = 2 * Pow2[i]
      BY <2>1, Pow2Positive, Pow2Unfold
    <2>5. v * Pow2[i] \in Int /\ 2 * (v * Pow2[i]) = v * Pow2[i + 1]
      BY <1>0, <2>4
    <2>6. (2 * ((v * Pow2[i]) % Mod)) % Mod = (2 * (v * Pow2[i])) % Mod
      BY <1>0, <2>5, ModDouble
    <2> QED BY <1>2, <2>1, <2>3, <2>5, <2>6
  <1> HIDE DEF S
  <1>3. \A i \in 0 .. n : i \in S
    BY <1>1, <1>2, CountUp
  <1> QED BY <1>3 DEF S

SignedRange == (-Half) .. (Half - 1)

\* ASL notes whether the signed result, or one on the way, was out of range; once it is,
\* doubling does not bring it back.
LEMMA AslRun ==
    ASSUME NEW f, NEW v \in Word, NEW n \in Nat, NEW g, ShiftRun("asl", f, v, n, g)
    PROVE  g[n].ovf = (Signed(v) * Pow2[n] \notin SignedRange)
  <1> DEFINE E(i) == Signed(v) * Pow2[i]
             S == {i \in 0 .. n : /\ g[i].ovf = (E(i) \notin SignedRange)
                                  /\ E(i) \in SignedRange => Signed(g[i].val) = E(i)}
  <1>0. Signed(v) \in Int /\ Signed(v) \in SignedRange
    BY SignedFacts, ModFacts DEF SignedRange
  <1>1. 0 \in S
    <2>1. E(0) = Signed(v)
      BY <1>0, Pow2Unfold
    <2>2. g[0].ovf = FALSE /\ g[0].val = v
      BY DEF ShiftRun, ShiftStart
    <2> HIDE DEF E
    <2>3. (E(0) \notin SignedRange) = FALSE /\ Signed(g[0].val) = E(0) /\ 0 \in 0 .. n
      BY <1>0, <2>1, <2>2
    <2> QED BY <2>2, <2>3
  <1>2. ASSUME NEW i \in 0 .. (n - 1), i \in S PROVE i + 1 \in S
    <2>1. i + 1 \in 1 .. n /\ i + 1 \in 0 .. n /\ (i + 1) - 1 = i /\ i \in 0 .. n /\ i \in Nat
      OBVIOUS
    <2>2. g[i + 1] = ShiftOnce("asl", g[i]) /\ g[i] \in ShiftState
      BY <2>1 DEF ShiftRun
    <2> DEFINE t == g[i].val
               u == (2 * t) % Mod
               b == g[i].ovf
               e == E(i)
    <2>3. g[i + 1].val = u /\ g[i + 1].ovf = (b \/ (Msb(u) # Msb(t)))
      BY <2>2, StepFields DEF ShiftOps
    <2>4. Pow2[i] \in Nat \ {0} /\ Pow2[i + 1] = 2 * Pow2[i]
      BY <2>1, Pow2Positive, Pow2Unfold
    <2>5. e \in Int /\ E(i + 1) = 2 * e
      BY <1>0, <2>4
    <2>6. t \in Int /\ 0 <= t /\ t < Mod /\ b \in BOOLEAN
      BY <2>2, ModFacts DEF ShiftState, Word
    <2>7. b = (e \notin SignedRange) /\ (e \in SignedRange => Signed(t) = e)
      BY <1>2
    <2> HIDE DEF t, b, e, E
    <2>8. u = IF 2 * t < Mod THEN 2 * t ELSE 2 * t - Mod
      <3>1. 2 * t \in Int /\ 0 <= 2 * t /\ 2 * t < 2 * Mod
        BY <2>6, ModFacts
      <3> QED BY <3>1, WrapFacts, ModFacts DEF Wrap
    <2> HIDE DEF u
    <2>9. /\ (b \/ (Msb(u) # Msb(t))) = (2 * e \notin SignedRange)
          /\ 2 * e \in SignedRange => Signed(u) = 2 * e
      <3>1. CASE e \notin SignedRange
        <4>1. b = TRUE
          BY <2>7, <3>1
        <4>2. 2 * e \notin SignedRange
          BY <2>5, <3>1, ModFacts DEF SignedRange
        <4> QED BY <4>1, <4>2
      <3>2. CASE e \in SignedRange
        <4>1. b = FALSE /\ Signed(t) = e
          BY <2>7, <3>2
        <4>2. (u >= Half) \in BOOLEAN /\ (t >= Half) \in BOOLEAN
          OBVIOUS
        <4>3. CASE t >= Half
          <5>1. e = t - Mod /\ u = 2 * t - Mod
            BY <2>6, <2>8, <4>1, <4>3, ModFacts DEF Signed, Msb
          <5>2. (u >= Half) <=> (2 * e \in SignedRange)
            BY <2>5, <2>6, <5>1, <4>3, ModFacts DEF SignedRange
          <5>3. u >= Half => Signed(u) = 2 * e
            BY <2>6, <5>1, ModFacts DEF Signed, Msb
          <5>4. (b \/ (Msb(u) # Msb(t))) = (2 * e \notin SignedRange)
            <6>1. CASE u >= Half
              BY <4>1, <4>3, <5>2, <6>1 DEF Msb
            <6>2. CASE ~(u >= Half)
              BY <4>1, <4>3, <5>2, <6>2 DEF Msb
            <6> QED BY <6>1, <6>2
          <5> QED BY <5>2, <5>3, <5>4
        <4>4. CASE ~(t >= Half)
          <5>1. e = t /\ u = 2 * t
            BY <2>6, <2>8, <4>1, <4>4, ModFacts DEF Signed, Msb
          <5>2. (u >= Half) <=> ~(2 * e \in SignedRange)
            BY <2>5, <2>6, <5>1, <4>4, ModFacts DEF SignedRange
          <5>3. ~(u >= Half) => Signed(u) = 2 * e
            BY <2>6, <5>1, ModFacts DEF Signed, Msb
          <5>4. (b \/ (Msb(u) # Msb(t))) = (2 * e \notin SignedRange)
            <6>1. CASE u >= Half
              BY <4>1, <4>4, <5>2, <6>1 DEF Msb
            <6>2. CASE ~(u >= Half)
              BY <4>1, <4>4, <5>2, <6>2 DEF Msb
            <6> QED BY <6>1, <6>2
          <5> QED BY <5>2, <5>3, <5>4
        <4> QED BY <4>3, <4>4
      <3> QED BY <3>1, <3>2
    <2> QED BY <2>1, <2>3, <2>5, <2>9
  <1> HIDE DEF S
  <1>3. \A i \in 0 .. n : i \in S
    BY <1>1, <1>2, CountUp
  <1>4. n \in S
    BY <1>3
  <1> QED BY <1>4 DEF S

-----------------------------------------------------------------------------
\* Rotates.  A rotate to the left by m bits puts the low part of a number above its
\* high part; doing it once more moves one bit from one to the other.

\* Rotating to the left by one bit in a ring of 2 * half values.
Left(a, half) == IF a >= half THEN 2 * a - 2 * half + 1 ELSE 2 * a

\* A product of less.
LEMMA LessTimes ==
    ASSUME NEW a \in Nat, NEW b \in Nat, a < b, NEW p \in Nat \ {0}
    PROVE  a * p + p <= b * p
  <1> DEFINE d == b - a - 1
  <1>1. d \in Nat /\ b = a + 1 + d
    OBVIOUS
  <1> HIDE DEF d
  <1>2. d * p \in Nat /\ a * p \in Nat /\ b * p = a * p + p + d * p
    BY <1>1
  <1> QED BY <1>2

\* A rotated number is its low part above its high part.
Rotated(a, P, Q, hi, lo) == ((a * P) % (P * Q)) + (a \div Q) = lo * P + hi
Parts(a, P, Q, hi, lo) ==
    /\ P \in Nat \ {0} /\ Q \in Nat \ {0} /\ hi \in Nat /\ lo \in Nat
    /\ hi < P /\ lo < Q /\ a = hi * Q + lo

\* It is so of every number with these parts.
LEMMA RotForm ==
    ASSUME NEW a, NEW P, NEW Q, NEW hi, NEW lo, Parts(a, P, Q, hi, lo)
    PROVE  Rotated(a, P, Q, hi, lo)
  <1>0. /\ P \in Nat \ {0} /\ Q \in Nat \ {0} /\ hi \in Nat /\ lo \in Nat
        /\ hi < P /\ lo < Q /\ a = hi * Q + lo
    BY DEF Parts
  <1> DEFINE M == P * Q
             z == lo * P
             b == a * P
             y == hi * Q
  <1>1. /\ M \in Nat /\ z \in Nat /\ z + P <= Q * P /\ Q * P = M
        /\ y \in Nat /\ a = y + lo
    BY <1>0, LessTimes
  <1>2. b = hi * M + z /\ b \in Nat /\ hi * M \in Nat
    BY <1>0, <1>1
  <1>3. 0 <= z /\ z < M
    BY <1>0, <1>1
  <1> HIDE DEF M, z, b, y
  <1>4. b - hi * M = z
    BY <1>0, <1>1, <1>2
  <1>5. b % M = b - hi * M
    BY <1>0, <1>1, <1>2, <1>3, <1>4, DivisionUnique
  <1>6. b % M = z
    BY <1>4, <1>5
  <1>7. a \div Q = hi
    <2>1. a \in Int /\ a - hi * Q = lo /\ Q > 0 /\ 0 <= lo
      BY <1>0, <1>1 DEF y
    <2> QED BY <1>0, <2>1, DivisionUnique
  <1>8. (b % M) + (a \div Q) = z + hi
    BY <1>6, <1>7
  <1> QED BY <1>8 DEF b, M, z, Rotated

\* Rotating by no bit, and by all.
LEMMA RotEnds ==
    ASSUME NEW size \in Nat, NEW a \in 0 .. (Pow2[size] - 1)
    PROVE  Rot(a, 0, size, Pow2[size]) = a /\ Rot(a, size, size, Pow2[size]) = a
  <1> DEFINE M == Pow2[size]
  <1>1. M \in Nat \ {0} /\ Pow2[0] = 1 /\ size - 0 = size /\ size - size = 0
    BY Pow2Positive, Pow2Unfold
  <1> HIDE DEF M
  <1>2. a \in Nat /\ a < M
    BY <1>1 DEF M
  <1>3. ((a * 1) % (1 * M)) + (a \div M) = a * 1 + 0
    <2>1. a = 0 * M + a /\ 0 \in Nat /\ 0 < 1 /\ 1 \in Nat \ {0}
      BY <1>1, <1>2
    <2>2. Parts(a, 1, M, 0, a)
      BY <1>1, <1>2, <2>1 DEF Parts
    <2> QED BY <2>2, RotForm DEF Rotated
  <1>4. ((a * M) % (M * 1)) + (a \div 1) = 0 * M + a
    <2>1. a = a * 1 + 0 /\ 0 \in Nat /\ 0 < 1 /\ 1 \in Nat \ {0}
      BY <1>1, <1>2
    <2>2. Parts(a, M, 1, a, 0)
      BY <1>1, <1>2, <2>1 DEF Parts
    <2> QED BY <2>2, RotForm DEF Rotated
  <1>5. a * 1 = a /\ 1 * M = M /\ M * 1 = M /\ 0 * M = 0 /\ a + 0 = a /\ 0 + a = a
    BY <1>1, <1>2
  <1>6. Rot(a, 0, size, M) = a
    BY <1>1, <1>3, <1>5 DEF Rot, M
  <1>7. Rot(a, size, size, M) = a
    BY <1>1, <1>4, <1>5 DEF Rot, M
  <1> QED BY <1>6, <1>7 DEF M

\* One more bit.
LEMMA RotNext ==
    ASSUME NEW size \in Nat \ {0}, NEW a \in 0 .. (Pow2[size] - 1), NEW m \in 0 .. (size - 1)
    PROVE  Left(Rot(a, m, size, Pow2[size]), Pow2[size - 1]) = Rot(a, m + 1, size, Pow2[size])
  <1> DEFINE P == Pow2[m]
             Q == Pow2[size - (m + 1)]
             M == Pow2[size]
             half == Pow2[size - 1]
  <1>1. /\ m \in Nat /\ m \in 0 .. size /\ m \in 0 .. (size - 1) /\ size - 1 \in Nat
        /\ size - (m + 1) \in Nat /\ (size - 1) - m = size - (m + 1)
        /\ (size - (m + 1)) + 1 = size - m /\ (size - 1) + 1 = size
    OBVIOUS
  <1>2. P \in Nat \ {0} /\ Q \in Nat \ {0} /\ M \in Nat \ {0} /\ half \in Nat \ {0}
    BY <1>1, Pow2Positive
  <1>3. Pow2[m + 1] = 2 * P /\ Pow2[size - m] = 2 * Q /\ M = 2 * half
    BY <1>1, Pow2Unfold
  <1>4. P * Q = half /\ P * (2 * Q) = M /\ (2 * P) * Q = M
    <2>1. P * Q = half
      BY <1>1, Pow2Product
    <2>2. P * (2 * Q) = 2 * (P * Q) /\ (2 * P) * Q = 2 * (P * Q)
      BY <1>2
    <2> QED BY <2>1, <2>2, <1>3
  <1>5. a \in Nat /\ a < M
    BY <1>2
  <1> DEFINE left == Rot(a, m, size, M)
             right == Rot(a, m + 1, size, M)
  <1>6. left = ((a * P) % (P * (2 * Q))) + (a \div (2 * Q))
    BY <1>3, <1>4 DEF Rot
  <1>7. right = ((a * (2 * P)) % ((2 * P) * Q)) + (a \div Q)
    BY <1>3, <1>4 DEF Rot
  <1> HIDE DEF P, Q, M, half, left, right
  <1> DEFINE hi == a \div (2 * Q)
             lo == a % (2 * Q)
  <1>8. /\ hi \in Int /\ lo \in Int /\ a = hi * (2 * Q) + lo /\ 0 <= lo /\ lo < 2 * Q
        /\ 2 * Q \in Nat \ {0}
    <2>1. 2 * Q \in Nat \ {0} /\ a \in Int
      BY <1>2, <1>5
    <2> QED BY <2>1, DivisionFacts
  <1> HIDE DEF hi, lo
  <1>9. hi \in Nat /\ lo \in Nat /\ hi < P
    <2> DEFINE q == 2 * Q
    <2>1. q \in Nat \ {0} /\ a = hi * q + lo /\ lo \in Nat /\ lo < q /\ P * q = M
      BY <1>4, <1>8
    <2> HIDE DEF q
    <2>2. ~(hi < 0)
      <3>1. ASSUME hi < 0 PROVE FALSE
        <4>1. -hi \in Nat /\ 0 < -hi
          BY <1>8, <3>1
        <4>2. 0 * q + q <= (-hi) * q
          BY <2>1, <4>1, LessTimes
        <4>3. (-hi) * q = -(hi * q) /\ 0 * q = 0 /\ hi * q \in Int
          BY <1>8, <2>1
        <4> QED BY <1>5, <2>1, <4>2, <4>3
      <3> QED BY <3>1
    <2>3. hi \in Nat
      BY <1>8, <2>2
    <2>4. ~(hi >= P)
      <3>1. ASSUME hi >= P PROVE FALSE
        <4>1. P < hi + 1 /\ hi + 1 \in Nat
          BY <1>2, <2>3, <3>1
        <4>2. P * q + q <= (hi + 1) * q
          BY <1>2, <2>1, <4>1, LessTimes
        <4>3. (hi + 1) * q = hi * q + q /\ hi * q \in Nat
          BY <2>1, <2>3
        <4> QED BY <1>2, <1>5, <2>1, <4>2, <4>3
      <3> QED BY <3>1
    <2> QED BY <1>2, <1>8, <2>3, <2>4
  <1>10. left = lo * P + hi
    <2> DEFINE q == 2 * Q
    <2>1. q \in Nat \ {0} /\ a = hi * q + lo /\ lo < q /\ left = ((a * P) % (P * q)) + (a \div q)
      BY <1>6, <1>8
    <2> HIDE DEF q
    <2>2. Parts(a, P, q, hi, lo)
      BY <1>2, <1>9, <2>1 DEF Parts
    <2>3. Rotated(a, P, q, hi, lo)
      BY <2>2, RotForm
    <2> QED BY <2>1, <2>3 DEF Rotated
  <1>11. CASE lo >= Q
    <2> DEFINE k == lo - Q
    <2>1. k \in Nat /\ k < Q /\ lo = Q + k
      BY <1>2, <1>8, <1>9, <1>11
    <2> HIDE DEF k
    <2>2. a = (2 * hi + 1) * Q + k /\ 2 * hi + 1 \in Nat /\ 2 * hi + 1 < 2 * P /\ 2 * P \in Nat \ {0}
      <3>1. (2 * hi + 1) * Q = hi * (2 * Q) + Q
        BY <1>2, <1>9
      <3>2. hi * (2 * Q) \in Nat
        BY <1>2, <1>9
      <3> QED BY <1>2, <1>8, <1>9, <2>1, <3>1, <3>2
    <2>3. right = k * (2 * P) + (2 * hi + 1)
      <3> DEFINE p == 2 * P
                 h == 2 * hi + 1
      <3>1. /\ p \in Nat \ {0} /\ h \in Nat /\ h < p /\ a = h * Q + k
            /\ right = ((a * p) % (p * Q)) + (a \div Q)
        BY <1>7, <2>2
      <3> HIDE DEF p, h
      <3>2. Parts(a, p, Q, h, k)
        BY <1>2, <2>1, <3>1 DEF Parts
      <3>3. Rotated(a, p, Q, h, k)
        BY <3>2, RotForm
      <3>4. right = k * p + h
        BY <3>1, <3>3 DEF Rotated
      <3> QED BY <3>4 DEF p, h
    <2>4. k * P \in Nat /\ k * (2 * P) = 2 * (k * P) /\ left = half + k * P + hi
      <3>1. (Q + k) * P = P * Q + k * P /\ k * P \in Nat
        BY <1>2, <2>1
      <3>2. k * (2 * P) = 2 * (k * P)
        BY <1>2, <2>1
      <3> QED BY <1>4, <1>10, <2>1, <3>1, <3>2
    <2>5. left >= half /\ 2 * left - 2 * half + 1 = right
      BY <1>2, <1>9, <2>3, <2>4
    <2>6. Left(left, half) = right
      BY <2>5 DEF Left
    <2> QED BY <2>6 DEF left, right, M, half
  <1>12. CASE ~(lo >= Q)
    <2>1. lo < Q
      BY <1>2, <1>9, <1>12
    <2>2. a = (2 * hi) * Q + lo /\ 2 * hi \in Nat /\ 2 * hi < 2 * P /\ 2 * P \in Nat \ {0}
      <3>1. (2 * hi) * Q = hi * (2 * Q)
        BY <1>2, <1>9
      <3> QED BY <1>2, <1>8, <1>9, <3>1
    <2>3. right = lo * (2 * P) + 2 * hi
      <3> DEFINE p == 2 * P
                 h == 2 * hi
      <3>1. /\ p \in Nat \ {0} /\ h \in Nat /\ h < p /\ a = h * Q + lo
            /\ right = ((a * p) % (p * Q)) + (a \div Q)
        BY <1>7, <2>2
      <3> HIDE DEF p, h
      <3>2. Parts(a, p, Q, h, lo)
        BY <1>2, <1>9, <2>1, <3>1 DEF Parts
      <3>3. Rotated(a, p, Q, h, lo)
        BY <3>2, RotForm
      <3>4. right = lo * p + h
        BY <3>1, <3>3 DEF Rotated
      <3> QED BY <3>4 DEF p, h
    <2>4. lo * P \in Nat /\ lo * (2 * P) = 2 * (lo * P) /\ lo * P + P <= Q * P /\ Q * P = P * Q
      BY <1>2, <1>9, <2>1, LessTimes
    <2>5. left < half /\ 2 * left = right
      BY <1>2, <1>4, <1>9, <1>10, <2>3, <2>4
    <2>6. Left(left, half) = right
      <3>1. left \in Nat
        BY <1>9, <1>10, <2>4
      <3> QED BY <1>2, <2>5, <3>1 DEF Left
    <2> QED BY <2>6 DEF left, right, M, half
  <1> QED BY <1>11, <1>12

\* A sequence of numbers, each rotated to the left to give the next.
LEMMA RotSteps ==
    ASSUME NEW size \in Nat \ {0}, NEW n \in Nat, NEW r,
           r[0] \in 0 .. (Pow2[size] - 1),
           \A i \in 0 .. (n - 1) : r[i + 1] = Left(r[i], Pow2[size - 1])
    PROVE  r[n] = Rotl(r[0], n, size, Pow2[size])
  <1> DEFINE M == Pow2[size]
             S == {i \in 0 .. n : r[i] = Rot(r[0], i % size, size, M)}
  <1>1. 0 \in S
    <2>1. 0 % size = 0
      OBVIOUS
    <2>2. Rot(r[0], 0, size, M) = r[0]
      BY RotEnds
    <2> QED BY <2>1, <2>2
  <1>2. ASSUME NEW i \in 0 .. (n - 1), i \in S PROVE i + 1 \in S
    <2> DEFINE m == i % size
    <2>1. i \in Nat /\ i + 1 \in 0 .. n
      OBVIOUS
    <2>2. m \in 0 .. (size - 1)
      BY <2>1
    <2>3. r[i + 1] = Rot(r[0], m + 1, size, M)
      <3>1. r[i] = Rot(r[0], m, size, M)
        BY <1>2
      <3>2. Left(Rot(r[0], m, size, M), Pow2[size - 1]) = Rot(r[0], m + 1, size, M)
        BY <2>2, RotNext
      <3> QED BY <3>1, <3>2
    <2>4. CASE m + 1 = size
      <3>1. (i + 1) % size = 0
        <4>1. i = (i \div size) * size + m /\ i \div size \in Int
          BY <2>1, DivisionFacts
        <4> DEFINE q == i \div size + 1
                   c == i + 1
        <4>2. q \in Int /\ c - q * size = 0 /\ c \in Int /\ size > 0
          <5>1. q * size = (i \div size) * size + size
            BY <4>1
          <5> QED BY <2>1, <2>4, <4>1, <5>1
        <4> HIDE DEF q, c
        <4>3. c % size = 0
          BY <4>2, DivisionUnique
        <4> QED BY <4>3 DEF c
      <3>2. Rot(r[0], size, size, M) = r[0] /\ Rot(r[0], 0, size, M) = r[0]
        BY RotEnds
      <3> QED BY <2>1, <2>3, <2>4, <3>1, <3>2
    <2>5. CASE m + 1 # size
      <3>1. (i + 1) % size = m + 1
        <4>1. i = (i \div size) * size + m /\ i \div size \in Int
          BY <2>1, DivisionFacts
        <4> DEFINE q == i \div size
        <4>2. q \in Int /\ (i + 1) - q * size = m + 1 /\ i + 1 \in Int /\ size > 0
          BY <2>1, <2>2, <4>1
        <4>3. 0 <= m + 1 /\ m + 1 < size
          BY <2>2, <2>5
        <4> HIDE DEF q, m
        <4> QED BY <4>2, <4>3, DivisionUnique
      <3> QED BY <2>1, <2>3, <3>1
    <2> QED BY <2>4, <2>5
  <1> HIDE DEF S
  <1>3. \A i \in 0 .. n : i \in S
    BY <1>1, <1>2, CountUp
  <1>4. n \in S
    BY <1>3
  <1> QED BY <1>4 DEF S, Rotl

-----------------------------------------------------------------------------
\* Rotates of the operand, and of the ring of the operand and X.  Those to the right
\* are rotates to the left read backwards.

\* The operand with X above it.
Ring(t) == t.val + Mod * Bit(t.x)

\* A state of the loop in numbers.
LEMMA StateFacts ==
    ASSUME NEW t \in ShiftState
    PROVE  /\ t.val \in 0 .. (Mod - 1) /\ Ring(t) \in 0 .. (2 * Mod - 1)
           /\ t.x \in BOOLEAN /\ t.out \in BOOLEAN
  <1>1. t.val \in Int /\ 0 <= t.val /\ t.val < Mod /\ t.x \in BOOLEAN /\ t.out \in BOOLEAN
    BY ModFacts DEF ShiftState, Word
  <1>2. CASE t.x
    <2>1. Ring(t) = t.val + Mod
      BY <1>1, <1>2, ModFacts DEF Ring, Bit
    <2> QED BY <1>1, <2>1, ModFacts
  <1>3. CASE ~t.x
    <2>1. Ring(t) = t.val
      BY <1>1, <1>3, ModFacts DEF Ring, Bit
    <2> QED BY <1>1, <2>1, ModFacts
  <1> QED BY <1>1, <1>2, <1>3

\* ROL rotates the operand by one bit to the left; C is the bit that comes in below.
LEMMA RolStep ==
    ASSUME NEW t \in ShiftState, NEW u, u = ShiftOnce("rol", t)
    PROVE  u.val = Left(t.val, Half) /\ u.out = (u.val % 2 = 1)
  <1> DEFINE v == t.val
             w == u.val
             up == (2 * v) % Mod
  <1>1. w = up + Bit(Msb(v)) /\ u.out = Msb(v)
    BY StepFields DEF ShiftOps
  <1>2. v \in Int /\ 0 <= v /\ v < Mod
    BY StateFacts, ModFacts
  <1> HIDE DEF v, w
  <1>3. up = IF 2 * v < Mod THEN 2 * v ELSE 2 * v - Mod
    <2>1. 2 * v \in Int /\ 0 <= 2 * v /\ 2 * v < 2 * Mod
      BY <1>2, ModFacts
    <2> QED BY <2>1, WrapFacts, ModFacts DEF Wrap
  <1> HIDE DEF up
  <1>4. CASE v >= Half
    <2>0. Msb(v) = TRUE /\ Bit(TRUE) = 1
      BY <1>4 DEF Msb, Bit
    <2>1. w = up + 1 /\ u.out = TRUE
      BY <1>1, <2>0
    <2>2. w = 2 * v - 2 * Half + 1
      BY <1>2, <1>3, <1>4, <2>1, ModFacts
    <2>3. w % 2 = 1
      BY <1>2, <2>2, ModFacts
    <2>4. (w % 2 = 1) = TRUE
      BY <2>3
    <2>5. w = Left(v, Half)
      BY <1>4, <2>2 DEF Left
    <2> QED BY <2>1, <2>4, <2>5 DEF v, w
  <1>5. CASE ~(v >= Half)
    <2>0. Msb(v) = FALSE /\ Bit(FALSE) = 0
      BY <1>5 DEF Msb, Bit
    <2>1. w = up + 0 /\ u.out = FALSE
      BY <1>1, <2>0
    <2>2. w = 2 * v
      BY <1>2, <1>3, <1>5, <2>1, ModFacts
    <2>3. w % 2 = 0
      BY <1>2, <2>2, ModFacts
    <2>4. (w % 2 = 1) = FALSE
      BY <2>3
    <2>5. w = Left(v, Half)
      BY <1>5, <2>2 DEF Left
    <2> QED BY <2>1, <2>4, <2>5 DEF v, w
  <1> QED BY <1>4, <1>5

\* ROR undoes it; C is the bit that comes in above.
LEMMA RorStep ==
    ASSUME NEW t \in ShiftState, NEW u, u = ShiftOnce("ror", t)
    PROVE  t.val = Left(u.val, Half) /\ u.out = Msb(u.val)
  <1> DEFINE v == t.val
             w == u.val
             low == v % 2 = 1
             down == v \div 2
  <1>1. w = down + Half * Bit(low) /\ u.out = low
    BY StepFields DEF ShiftOps
  <1>2. v \in Int /\ 0 <= v /\ v < Mod
    BY StateFacts, ModFacts
  <1> HIDE DEF v, w
  <1>3. down \in Int /\ 0 <= down /\ down < Half /\ v = 2 * down + (v % 2) /\ v % 2 \in {0, 1}
    BY <1>2, ModFacts
  <1> HIDE DEF down
  <1>4. CASE low
    <2>0. low = TRUE /\ Bit(TRUE) = 1
      BY <1>4 DEF Bit
    <2>1. w = down + Half * 1 /\ u.out = TRUE
      BY <1>1, <2>0
    <2>2. v = 2 * down + 1 /\ w = down + Half
      BY <1>3, <1>4, <2>1, ModFacts
    <2>3. w >= Half
      BY <1>3, <2>2, ModFacts
    <2>4. v = Left(w, Half)
      BY <1>3, <2>2, <2>3, ModFacts DEF Left
    <2>5. Msb(w) = TRUE
      BY <2>3 DEF Msb
    <2> QED BY <2>1, <2>4, <2>5 DEF v, w
  <1>5. CASE ~low
    <2>0. low = FALSE /\ Bit(FALSE) = 0
      BY <1>5 DEF Bit
    <2>1. w = down + Half * 0 /\ u.out = FALSE
      BY <1>1, <2>0
    <2>2. v = 2 * down /\ w = down
      BY <1>3, <1>5, <2>1, ModFacts
    <2>3. ~(w >= Half)
      BY <1>3, <2>2, ModFacts
    <2>4. v = Left(w, Half)
      BY <1>3, <2>2, <2>3, ModFacts DEF Left
    <2>5. Msb(w) = FALSE
      BY <2>3 DEF Msb
    <2> QED BY <2>1, <2>4, <2>5 DEF v, w
  <1> QED BY <1>4, <1>5

\* ROXL rotates the ring of the operand and X.
LEMMA RoxlStep ==
    ASSUME NEW t \in ShiftState, NEW u, u = ShiftOnce("roxl", t)
    PROVE  Ring(u) = Left(Ring(t), Mod) /\ u.out = u.x
  <1> DEFINE v == t.val
             up == (2 * v) % Mod
             top == Msb(v)
             b == Bit(t.x)
             r == Ring(t)
  <1>1. u.val = up + b /\ u.x = top /\ u.out = top
    BY StepFields DEF ShiftOps
  <1>2. v \in Int /\ 0 <= v /\ v < Mod /\ b \in {0, 1} /\ r = v + Mod * b
    BY StateFacts, BitFacts, ModFacts DEF Ring
  <1> HIDE DEF v, b, r
  <1>3. up = IF 2 * v < Mod THEN 2 * v ELSE 2 * v - Mod
    <2>1. 2 * v \in Int /\ 0 <= 2 * v /\ 2 * v < 2 * Mod
      BY <1>2, ModFacts
    <2> QED BY <2>1, WrapFacts, ModFacts DEF Wrap
  <1> HIDE DEF up
  <1>4. Ring(u) = 2 * v + b
    <2>1. CASE v >= Half
      <3>1. Bit(u.x) = 1
        BY <1>1, <2>1 DEF Bit, Msb
      <3> QED BY <1>1, <1>2, <1>3, <2>1, <3>1, ModFacts DEF Ring
    <2>2. CASE ~(v >= Half)
      <3>1. Bit(u.x) = 0
        BY <1>1, <2>2 DEF Bit, Msb
      <3> QED BY <1>1, <1>2, <1>3, <2>2, <3>1, ModFacts DEF Ring
    <2> QED BY <2>1, <2>2
  <1>5. Left(r, Mod) = 2 * v + b
    <2>1. CASE b = 1
      <3>1. r = v + Mod
        BY <1>2, <2>1, ModFacts
      <3> QED BY <1>2, <2>1, <3>1, ModFacts DEF Left
    <2>2. CASE b = 0
      <3>1. r = v
        BY <1>2, <2>2, ModFacts
      <3> QED BY <1>2, <2>2, <3>1, ModFacts DEF Left
    <2> QED BY <1>2, <2>1, <2>2
  <1> QED BY <1>1, <1>4, <1>5 DEF r

\* ROXR undoes it.
LEMMA RoxrStep ==
    ASSUME NEW t \in ShiftState, NEW u, u = ShiftOnce("roxr", t)
    PROVE  Ring(t) = Left(Ring(u), Mod) /\ u.out = u.x
  <1> DEFINE v == t.val
             low == v % 2 = 1
             down == v \div 2
             b == Bit(t.x)
             c == Bit(low)
             r == Ring(u)
  <1>1. u.val = down + Half * b /\ u.x = low /\ u.out = low
    BY StepFields DEF ShiftOps
  <1>2. v \in Int /\ 0 <= v /\ v < Mod /\ b \in {0, 1} /\ Ring(t) = v + Mod * b
    BY StateFacts, BitFacts, ModFacts DEF Ring
  <1>3. down \in Int /\ 0 <= down /\ down < Half /\ c \in {0, 1} /\ v = 2 * down + c
    BY <1>2, ModFacts DEF Bit
  <1>4. r = down + Half * b + Mod * c
    BY <1>1 DEF Ring
  <1> HIDE DEF v, down, b, c, r
  <1>5. Left(r, Mod) = 2 * down + Mod * b + c
    <2>1. CASE b = 1
      <3>1. CASE c = 1
        <4>1. r = down + Half + Mod
          BY <1>3, <1>4, <2>1, <3>1, ModFacts
        <4> QED BY <1>3, <2>1, <3>1, <4>1, ModFacts DEF Left
      <3>2. CASE c = 0
        <4>1. r = down + Half
          BY <1>3, <1>4, <2>1, <3>2, ModFacts
        <4> QED BY <1>3, <2>1, <3>2, <4>1, ModFacts DEF Left
      <3> QED BY <1>3, <3>1, <3>2
    <2>2. CASE b = 0
      <3>1. CASE c = 1
        <4>1. r = down + Mod
          BY <1>3, <1>4, <2>2, <3>1, ModFacts
        <4> QED BY <1>3, <2>2, <3>1, <4>1, ModFacts DEF Left
      <3>2. CASE c = 0
        <4>1. r = down
          BY <1>3, <1>4, <2>2, <3>2, ModFacts
        <4> QED BY <1>3, <2>2, <3>2, <4>1, ModFacts DEF Left
      <3> QED BY <1>3, <3>1, <3>2
    <2> QED BY <1>2, <2>1, <2>2
  <1>6. v + Mod * b = 2 * down + Mod * b + c
    <2>1. CASE b = 1
      BY <1>2, <1>3, <2>1, ModFacts
    <2>2. CASE b = 0
      BY <1>2, <1>3, <2>2, ModFacts
    <2> QED BY <1>2, <2>1, <2>2
  <1> QED BY <1>1, <1>2, <1>5, <1>6 DEF r

\* The ring of X is one bit longer than the operand.
LEMMA RingSize ==
    /\ Width + 1 \in Nat \ {0} /\ Pow2[Width + 1] = 2 * Mod /\ (Width + 1) - 1 = Width
    /\ Pow2[Width] = Mod
  <1>1. Width \in Nat /\ Pow2[Width] = Mod
    BY WidthFacts
  <1>2. Pow2[Width + 1] = 2 * Pow2[Width]
    BY <1>1, Pow2Unfold
  <1> QED BY <1>1, <1>2

\* ROL of n bits.
LEMMA RolRun ==
    ASSUME NEW f, NEW v, NEW n \in Nat, NEW g, ShiftRun("rol", f, v, n, g)
    PROVE  g[n].val = Rotl(g[0].val, n, Width, Mod)
  <1> DEFINE r == [i \in 0 .. n |-> g[i].val]
  <1>1. 0 \in 0 .. n /\ n \in 0 .. n /\ r[0] = g[0].val /\ r[n] = g[n].val
    OBVIOUS
  <1>2. r[0] \in 0 .. (Pow2[Width] - 1)
    <2>1. g[0] \in ShiftState
      BY <1>1 DEF ShiftRun
    <2> QED BY <2>1, StateFacts, WidthFacts
  <1>3. ASSUME NEW i \in 0 .. (n - 1) PROVE r[i + 1] = Left(r[i], Pow2[Width - 1])
    <2>1. i + 1 \in 1 .. n /\ i + 1 \in 0 .. n /\ (i + 1) - 1 = i /\ i \in 0 .. n
      OBVIOUS
    <2>2. g[i + 1] = ShiftOnce("rol", g[i]) /\ g[i] \in ShiftState
      BY <2>1 DEF ShiftRun
    <2>3. g[i + 1].val = Left(g[i].val, Half)
      BY <2>2, RolStep
    <2> QED BY <2>1, <2>3, WidthFacts
  <1> HIDE DEF r
  <1>4. r[n] = Rotl(r[0], n, Width, Pow2[Width])
    BY <1>2, <1>3, RotSteps, WidthFacts
  <1> QED BY <1>1, <1>4, WidthFacts

\* ROR of n bits, read backwards.
LEMMA RorRun ==
    ASSUME NEW f, NEW v, NEW n \in Nat, NEW g, ShiftRun("ror", f, v, n, g)
    PROVE  g[0].val = Rotl(g[n].val, n, Width, Mod)
  <1> DEFINE r == [i \in 0 .. n |-> g[n - i].val]
  <1>1. 0 \in 0 .. n /\ n \in 0 .. n /\ r[0] = g[n].val /\ r[n] = g[0].val
    <2>1. n - 0 = n /\ n - n = 0
      OBVIOUS
    <2> QED BY <2>1
  <1>2. r[0] \in 0 .. (Pow2[Width] - 1)
    <2>1. g[n] \in ShiftState
      BY <1>1 DEF ShiftRun
    <2> QED BY <1>1, <2>1, StateFacts, WidthFacts
  <1>3. ASSUME NEW i \in 0 .. (n - 1) PROVE r[i + 1] = Left(r[i], Pow2[Width - 1])
    <2> DEFINE k == n - (i + 1)
    <2>1. n - i \in 1 .. n /\ (n - i) - 1 = k /\ k \in 0 .. n /\ i \in 0 .. n /\ i + 1 \in 0 .. n
      OBVIOUS
    <2>2. g[n - i] = ShiftOnce("ror", g[k]) /\ g[k] \in ShiftState
      BY <2>1 DEF ShiftRun
    <2>3. g[k].val = Left(g[n - i].val, Half)
      BY <2>2, RorStep
    <2>4. r[i + 1] = g[k].val /\ r[i] = g[n - i].val
      BY <2>1
    <2> QED BY <2>3, <2>4, WidthFacts
  <1> HIDE DEF r
  <1>4. r[n] = Rotl(r[0], n, Width, Pow2[Width])
    BY <1>2, <1>3, RotSteps, WidthFacts
  <1> QED BY <1>1, <1>4, WidthFacts

\* ROXL of n bits.
LEMMA RoxlRun ==
    ASSUME NEW f, NEW v, NEW n \in Nat, NEW g, ShiftRun("roxl", f, v, n, g)
    PROVE  Ring(g[n]) = Rotl(Ring(g[0]), n, Width + 1, 2 * Mod)
  <1> DEFINE r == [i \in 0 .. n |-> Ring(g[i])]
             w == Width + 1
  <1>1. 0 \in 0 .. n /\ n \in 0 .. n /\ r[0] = Ring(g[0]) /\ r[n] = Ring(g[n])
    OBVIOUS
  <1>2. r[0] \in 0 .. (Pow2[w] - 1)
    <2>1. g[0] \in ShiftState
      BY <1>1 DEF ShiftRun
    <2> QED BY <2>1, StateFacts, RingSize
  <1>3. ASSUME NEW i \in 0 .. (n - 1) PROVE r[i + 1] = Left(r[i], Pow2[w - 1])
    <2>1. i + 1 \in 1 .. n /\ i + 1 \in 0 .. n /\ (i + 1) - 1 = i /\ i \in 0 .. n
      OBVIOUS
    <2>2. g[i + 1] = ShiftOnce("roxl", g[i]) /\ g[i] \in ShiftState
      BY <2>1 DEF ShiftRun
    <2>3. Ring(g[i + 1]) = Left(Ring(g[i]), Mod)
      BY <2>2, RoxlStep
    <2> QED BY <2>1, <2>3, RingSize
  <1> HIDE DEF r, w
  <1>4. r[n] = Rotl(r[0], n, w, Pow2[w])
    BY <1>2, <1>3, RotSteps, RingSize DEF w
  <1> QED BY <1>1, <1>4, RingSize DEF w

\* ROXR of n bits, read backwards.
LEMMA RoxrRun ==
    ASSUME NEW f, NEW v, NEW n \in Nat, NEW g, ShiftRun("roxr", f, v, n, g)
    PROVE  Ring(g[0]) = Rotl(Ring(g[n]), n, Width + 1, 2 * Mod)
  <1> DEFINE r == [i \in 0 .. n |-> Ring(g[n - i])]
             w == Width + 1
  <1>1. 0 \in 0 .. n /\ n \in 0 .. n /\ r[0] = Ring(g[n]) /\ r[n] = Ring(g[0])
    <2>1. n - 0 = n /\ n - n = 0
      OBVIOUS
    <2> QED BY <2>1
  <1>2. r[0] \in 0 .. (Pow2[w] - 1)
    <2>1. g[n] \in ShiftState
      BY <1>1 DEF ShiftRun
    <2> QED BY <1>1, <2>1, StateFacts, RingSize
  <1>3. ASSUME NEW i \in 0 .. (n - 1) PROVE r[i + 1] = Left(r[i], Pow2[w - 1])
    <2> DEFINE k == n - (i + 1)
    <2>1. n - i \in 1 .. n /\ (n - i) - 1 = k /\ k \in 0 .. n /\ i \in 0 .. n /\ i + 1 \in 0 .. n
      OBVIOUS
    <2>2. g[n - i] = ShiftOnce("roxr", g[k]) /\ g[k] \in ShiftState
      BY <2>1 DEF ShiftRun
    <2>3. Ring(g[k]) = Left(Ring(g[n - i]), Mod)
      BY <2>2, RoxrStep
    <2>4. r[i + 1] = Ring(g[k]) /\ r[i] = Ring(g[n - i])
      BY <2>1
    <2> QED BY <2>3, <2>4, RingSize
  <1> HIDE DEF r, w
  <1>4. r[n] = Rotl(r[0], n, w, Pow2[w])
    BY <1>2, <1>3, RotSteps, RingSize DEF w
  <1> QED BY <1>1, <1>4, RingSize DEF w

-----------------------------------------------------------------------------
\* The invariant: the results are those of the job's operators.

\* The operands of a job by its instruction.
LEMMA JobTypes ==
    ASSUME NEW j \in Jobs
    PROVE  /\ j.f \in Ccr
           /\ j.op \in {"add", "sub", "cmp", "addx", "subx", "logic"} => j.s \in Word /\ j.d \in Word
           /\ j.op \in ShiftOps => j.s \in Nat /\ j.d \in Word
           /\ j.op \in {"abcd", "sbcd", "nbcd"} => j.s \in 0 .. 99 /\ j.d \in 0 .. 99
           /\ j.op \in {"divu", "divs"} => j.s \in Word /\ j.d \in 0 .. (Wide - 1)
           /\ j.op \in {"addx2", "subx2", "negx2"} =>
                  j.s \in 0 .. (Wide - 1) /\ j.d \in 0 .. (Wide - 1)
  <1>1. Before \subseteq Ccr
    <2>1. ASSUME NEW e \in Before PROVE e \in Ccr
      <3>1. PICK x \in BOOLEAN, z \in BOOLEAN :
                e = [x |-> x, n |-> FALSE, z |-> z, v |-> FALSE, c |-> FALSE]
        BY DEF Before
      <3> QED BY <3>1, FALSE \in BOOLEAN DEF Ccr
    <2> QED BY <2>1
  <1>2. 0 .. MaxCount \subseteq Nat /\ Decimals \subseteq 0 .. 99
    BY AluAssumption
  <1>3. CASE j \in [op : {"add", "sub", "cmp", "addx", "subx", "logic"}, f : Before, s : Word, d : Word]
    BY <1>1, <1>3 DEF ShiftOps
  <1>4. CASE j \in [op : ShiftOps, f : Before, s : 0 .. MaxCount, d : Word]
    BY <1>1, <1>2, <1>4 DEF ShiftOps
  <1>5. CASE j \in [op : {"abcd", "sbcd", "nbcd"}, f : Before, s : Decimals, d : Decimals]
    BY <1>1, <1>2, <1>5 DEF ShiftOps
  <1>6. CASE j \in [op : {"divu", "divs"}, f : Before, s : Word, d : 0 .. (Wide - 1)]
    BY <1>1, <1>6 DEF ShiftOps
  <1>7. CASE j \in [op : {"addx2", "subx2", "negx2"}, f : Before, s : 0 .. (Wide - 1),
                    d : 0 .. (Wide - 1)]
    BY <1>1, <1>7 DEF ShiftOps
  <1> QED BY <1>3, <1>4, <1>5, <1>6, <1>7 DEF Jobs

Fresh == step = 0 /\ out = <<>> /\ inline = <<>>

\* One instruction has run, with these results.
Ran(o, i) == step = 1 /\ out = <<o>> /\ inline = i

ArithRan ==
    LET f == job.f  s == job.s  d == job.d IN
    \/ job.op = "add" /\ Ran(Add(f, s, d), <<InlineAdd(f, s, d)>>)
    \/ job.op = "sub" /\ Ran(Sub(f, s, d), <<InlineSub(f, s, d)>>)
    \/ job.op = "cmp" /\ Ran(Cmp(f, s, d), <<InlineCmp(f, s, d)>>)
    \/ job.op = "addx" /\ Ran(AddX(f, s, d), <<InlineAddX(f, FALSE, s, d)>>)
    \/ job.op = "subx" /\ Ran(SubX(f, s, d), <<InlineAddX(f, TRUE, s, d)>>)
    \/ job.op = "logic" /\ Ran(Out(d, SetFlagsLogic(f, d)), <<Out(d, EmitLogicFlags(f, d))>>)

ShiftRan == job.op \in ShiftOps /\ Ran(DoShift(job.op, job.f, job.d, job.s), <<>>)

BcdRan ==
    \/ job.op = "abcd" /\ Ran(BcdAbcd(job.f, Packed(job.s), Packed(job.d)), <<>>)
    \/ job.op = "sbcd" /\ Ran(BcdSbcd(job.f, Packed(job.s), Packed(job.d)), <<>>)
    \/ job.op = "nbcd" /\ Ran(BcdNbcd(job.f, Packed(job.d)), <<>>)

DivRan ==
    \/ job.op = "divu" /\ Ran(DivU(job.f, job.s, job.d), <<>>)
    \/ job.op = "divs" /\ \E o \in DivS(job.f, job.s, job.d) : Ran(o, <<>>)

\* One or both words of a chain.
Halves(lo, hi) ==
    /\ inline = <<>>
    /\ (step = 1 /\ out = <<lo>>) \/ (step = 2 /\ out = Append(<<lo>>, hi))

AddLow == AddX(job.f, job.s % Mod, job.d % Mod)
SubLow == SubX(job.f, job.s % Mod, job.d % Mod)
NegLow == NegX(job.f, job.d % Mod)

ChainRan ==
    \/ job.op = "addx2" /\ Halves(AddLow, AddX(AddLow.f, job.s \div Mod, job.d \div Mod))
    \/ job.op = "subx2" /\ Halves(SubLow, SubX(SubLow.f, job.s \div Mod, job.d \div Mod))
    \/ job.op = "negx2" /\ Halves(NegLow, NegX(NegLow.f, job.d \div Mod))

Inv == job \in Jobs /\ (Fresh \/ ArithRan \/ ShiftRan \/ BcdRan \/ DivRan \/ ChainRan)

\* A sequence of two.
LEMMA PairFacts ==
    ASSUME NEW a, NEW b
    PROVE  LET t == Append(<<a>>, b) IN DOMAIN t = 1 .. 2 /\ t[1] = a /\ t[2] = b
  OBVIOUS

\* One word of a chain adds its result to those before it.
LEMMA ChainStep ==
    ASSUME NEW lo, NEW hi, NEW o, Fresh \/ Halves(lo, hi), step < 2,
           step = 0 => o = lo, step = 1 => o = hi,
           out' = Append(out, o), step' = step + 1, inline' = inline
    PROVE  /\ inline' = <<>>
           /\ (step' = 1 /\ out' = <<lo>>) \/ (step' = 2 /\ out' = Append(<<lo>>, hi))
  <1>1. CASE Fresh
    <2>1. Append(<<>>, lo) = <<lo>>
      OBVIOUS
    <2>2. step = 0 /\ out = <<>> /\ inline = <<>>
      BY <1>1 DEF Fresh
    <2> QED BY <2>1, <2>2
  <1>2. CASE Halves(lo, hi)
    <2>1. step = 1 /\ out = <<lo>> /\ inline = <<>>
      BY <1>2 DEF Halves
    <2> QED BY <2>1
  <1> QED BY <1>1, <1>2

\* Every step keeps the invariant.
LEMMA NextInv == Inv /\ [Next]_vars => Inv'
  <1> SUFFICES ASSUME Inv, [Next]_vars PROVE Inv'
    OBVIOUS
  <1>1. CASE Arith
    BY <1>1 DEF Inv, Arith, Finish, ArithRan, Ran
  <1>2. CASE Shift
    BY <1>2 DEF Inv, Shift, Finish, ShiftRan, Ran
  <1>3. CASE Bcd
    BY <1>3 DEF Inv, Bcd, Finish, BcdRan, Ran
  <1>4. CASE Div
    BY <1>4 DEF Inv, Div, Finish, DivRan, Ran
  <1>5. CASE Chain
    <2>1. /\ job' = job /\ inline' = inline /\ step' = step + 1 /\ step < 2
          /\ job.op \in {"addx2", "subx2", "negx2"}
      BY <1>5 DEF Chain
    <2>2. Fresh \/ ChainRan
      BY <2>1 DEF Inv, ArithRan, ShiftRan, BcdRan, DivRan, ShiftOps
    <2>3. step \in {0, 1} /\ (Fresh => step = 0) /\ (step = 1 => out[1] = Head(out) /\ Len(out) = 1)
      BY <2>1, <2>2 DEF Fresh, ChainRan, Halves
    <2>4. CASE job.op = "addx2"
      <3> DEFINE hi == AddX(AddLow.f, job.s \div Mod, job.d \div Mod)
                 o == IF step = 0 THEN AddLow ELSE AddX(out[1].f, job.s \div Mod, job.d \div Mod)
      <3>1. Fresh \/ Halves(AddLow, hi)
        BY <2>2, <2>4 DEF ChainRan
      <3>2. out' = Append(out, o)
        BY <1>5, <2>3, <2>4 DEF Chain, AddLow
      <3>3. step = 1 => out[1] = AddLow
        BY <3>1 DEF Fresh, Halves
      <3>4. (step = 0 => o = AddLow) /\ (step = 1 => o = hi)
        BY <3>3
      <3> HIDE DEF o, hi
      <3>5. /\ inline' = <<>>
            /\ (step' = 1 /\ out' = <<AddLow>>) \/ (step' = 2 /\ out' = Append(<<AddLow>>, hi))
        BY <2>1, <3>1, <3>2, <3>4, ChainStep
      <3>6. AddLow' = AddLow /\ hi' = hi
        BY <2>1 DEF AddLow, hi
      <3>7. Halves(AddLow, hi)'
        <4>1. CASE step' = 1 /\ out' = <<AddLow>>
          BY <4>1, <3>5, <3>6 DEF Halves
        <4>2. CASE step' = 2 /\ out' = Append(<<AddLow>>, hi)
          BY <4>2, <3>5, <3>6 DEF Halves
        <4> QED BY <3>5, <4>1, <4>2
      <3>8. ChainRan'
        BY <2>1, <2>4, <3>7 DEF ChainRan, hi
      <3> QED BY <2>1, <3>8 DEF Inv
    <2>5. CASE job.op = "subx2"
      <3> DEFINE hi == SubX(SubLow.f, job.s \div Mod, job.d \div Mod)
                 o == IF step = 0 THEN SubLow ELSE SubX(out[1].f, job.s \div Mod, job.d \div Mod)
      <3>1. Fresh \/ Halves(SubLow, hi)
        BY <2>2, <2>5 DEF ChainRan
      <3>2. out' = Append(out, o)
        BY <1>5, <2>3, <2>5 DEF Chain, SubLow
      <3>3. step = 1 => out[1] = SubLow
        BY <3>1 DEF Fresh, Halves
      <3>4. (step = 0 => o = SubLow) /\ (step = 1 => o = hi)
        BY <3>3
      <3> HIDE DEF o, hi
      <3>5. /\ inline' = <<>>
            /\ (step' = 1 /\ out' = <<SubLow>>) \/ (step' = 2 /\ out' = Append(<<SubLow>>, hi))
        BY <2>1, <3>1, <3>2, <3>4, ChainStep
      <3>6. SubLow' = SubLow /\ hi' = hi
        BY <2>1 DEF SubLow, hi
      <3>7. Halves(SubLow, hi)'
        <4>1. CASE step' = 1 /\ out' = <<SubLow>>
          BY <4>1, <3>5, <3>6 DEF Halves
        <4>2. CASE step' = 2 /\ out' = Append(<<SubLow>>, hi)
          BY <4>2, <3>5, <3>6 DEF Halves
        <4> QED BY <3>5, <4>1, <4>2
      <3>8. ChainRan'
        BY <2>1, <2>5, <3>7 DEF ChainRan, hi
      <3> QED BY <2>1, <3>8 DEF Inv
    <2>6. CASE job.op = "negx2"
      <3> DEFINE hi == NegX(NegLow.f, job.d \div Mod)
                 o == IF step = 0 THEN NegLow ELSE NegX(out[1].f, job.d \div Mod)
      <3>1. Fresh \/ Halves(NegLow, hi)
        BY <2>2, <2>6 DEF ChainRan
      <3>2. out' = Append(out, o)
        BY <1>5, <2>3, <2>6 DEF Chain, NegLow
      <3>3. step = 1 => out[1] = NegLow
        BY <3>1 DEF Fresh, Halves
      <3>4. (step = 0 => o = NegLow) /\ (step = 1 => o = hi)
        BY <3>3
      <3> HIDE DEF o, hi
      <3>5. /\ inline' = <<>>
            /\ (step' = 1 /\ out' = <<NegLow>>) \/ (step' = 2 /\ out' = Append(<<NegLow>>, hi))
        BY <2>1, <3>1, <3>2, <3>4, ChainStep
      <3>6. NegLow' = NegLow /\ hi' = hi
        BY <2>1 DEF NegLow, hi
      <3>7. Halves(NegLow, hi)'
        <4>1. CASE step' = 1 /\ out' = <<NegLow>>
          BY <4>1, <3>5, <3>6 DEF Halves
        <4>2. CASE step' = 2 /\ out' = Append(<<NegLow>>, hi)
          BY <4>2, <3>5, <3>6 DEF Halves
        <4> QED BY <3>5, <4>1, <4>2
      <3>8. ChainRan'
        BY <2>1, <2>6, <3>7 DEF ChainRan, hi
      <3> QED BY <2>1, <3>8 DEF Inv
    <2> QED BY <2>1, <2>4, <2>5, <2>6
  <1>6. CASE Done
    BY <1>6 DEF Done, vars, Inv, Fresh, ArithRan, ShiftRan, BcdRan, DivRan, ChainRan, Ran, Halves,
                AddLow, SubLow, NegLow
  <1>7. CASE UNCHANGED vars
    BY <1>7 DEF vars, Inv, Fresh, ArithRan, ShiftRan, BcdRan, DivRan, ChainRan, Ran, Halves,
                AddLow, SubLow, NegLow
  <1> QED BY <1>1, <1>2, <1>3, <1>4, <1>5, <1>6, <1>7 DEF Next

\* The instruction that runs is always the one the invariant says: the results of
\* the interpreter and of the emitted code are those of the job's operators.
THEOREM Invariance == Spec => []Inv
  <1>1. Init => Inv
    BY DEF Init, Inv, Fresh
  <1> QED BY <1>1, NextInv, PTL DEF Spec

-----------------------------------------------------------------------------
\* What the invariant implies.

\* Results and flags in their range.
LEMMA InvTyped == Inv => TypeOK
  <1> SUFFICES ASSUME Inv PROVE TypeOK
    OBVIOUS
  <1> DEFINE f == job.f
             s == job.s
             d == job.d
             GoodOut(o) == o.f \in Ccr /\ o.r \in 0 .. (Wide - 1) \cup 0 .. 255
             GoodIn(i) == i.f \in Ccr /\ i.r \in Word
  <1>1. job \in Jobs /\ f \in Ccr
    BY JobTypes DEF Inv
  <1>2. Word \subseteq 0 .. (Wide - 1)
    BY ModFacts, WideFacts DEF Word
  <1>3. SUFFICES /\ step \in 0 .. 2
                 /\ \A i \in DOMAIN out : GoodOut(out[i])
                 /\ \A i \in DOMAIN inline : GoodIn(inline[i])
    BY <1>1 DEF TypeOK
  <1> HIDE DEF GoodOut, GoodIn
  <1>4. ASSUME NEW o, NEW i, Ran(o, <<i>>), GoodOut(o), GoodIn(i)
        PROVE  /\ step \in 0 .. 2
               /\ \A k \in DOMAIN out : GoodOut(out[k])
               /\ \A k \in DOMAIN inline : GoodIn(inline[k])
    <2>1. step = 1 /\ out = <<o>> /\ inline = <<i>>
      BY <1>4 DEF Ran
    <2>2. DOMAIN out = {1} /\ out[1] = o /\ DOMAIN inline = {1} /\ inline[1] = i
      BY <2>1
    <2>3. step \in 0 .. 2
      BY <2>1
    <2>4. \A k \in DOMAIN out : GoodOut(out[k])
      BY <1>4, <2>2, Zenon
    <2>5. \A k \in DOMAIN inline : GoodIn(inline[k])
      BY <1>4, <2>2, Zenon
    <2> QED BY <2>3, <2>4, <2>5
  <1>5. ASSUME NEW o, Ran(o, <<>>), GoodOut(o)
        PROVE  /\ step \in 0 .. 2
               /\ \A k \in DOMAIN out : GoodOut(out[k])
               /\ \A k \in DOMAIN inline : GoodIn(inline[k])
    BY <1>5 DEF Ran
  <1>6. ASSUME NEW lo, NEW hi, Halves(lo, hi), GoodOut(lo), GoodOut(hi)
        PROVE  /\ step \in 0 .. 2
               /\ \A k \in DOMAIN out : GoodOut(out[k])
               /\ \A k \in DOMAIN inline : GoodIn(inline[k])
    <2>1. CASE step = 1 /\ out = <<lo>> /\ inline = <<>>
      BY <1>6, <2>1
    <2>2. CASE step = 2 /\ out = Append(<<lo>>, hi) /\ inline = <<>>
      <3>1. DOMAIN out = {1, 2} /\ out[1] = lo /\ out[2] = hi
        BY <2>2, PairFacts
      <3> QED BY <1>6, <2>2, <3>1
    <2> QED BY <1>6, <2>1, <2>2 DEF Halves
  <1>7. CASE Fresh
    BY <1>7 DEF Fresh
  <1>8. CASE ArithRan
    <2>1. s \in Word /\ d \in Word
      BY <1>1, <1>8, JobTypes DEF ArithRan
    <2>2. CASE job.op = "add" /\ Ran(Add(f, s, d), <<InlineAdd(f, s, d)>>)
      <3>1. Add(f, s, d).r \in Word /\ Add(f, s, d).f \in Ccr /\ InlineAdd(f, s, d) = Add(f, s, d)
        BY <1>1, <2>1, AddMeans, InlineAddAgrees
      <3>2. GoodOut(Add(f, s, d)) /\ GoodIn(InlineAdd(f, s, d))
        BY <3>1, <1>2 DEF GoodOut, GoodIn
      <3> QED BY <2>2, <3>2, <1>4
    <2>3. CASE job.op = "sub" /\ Ran(Sub(f, s, d), <<InlineSub(f, s, d)>>)
      <3>1. Sub(f, s, d).r \in Word /\ Sub(f, s, d).f \in Ccr /\ InlineSub(f, s, d) = Sub(f, s, d)
        BY <1>1, <2>1, SubMeans, InlineSubAgrees
      <3>2. GoodOut(Sub(f, s, d)) /\ GoodIn(InlineSub(f, s, d))
        BY <3>1, <1>2 DEF GoodOut, GoodIn
      <3> QED BY <2>3, <3>2, <1>4
    <2>4. CASE job.op = "cmp" /\ Ran(Cmp(f, s, d), <<InlineCmp(f, s, d)>>)
      <3>1. Cmp(f, s, d).r \in Word /\ Cmp(f, s, d).f \in Ccr /\ InlineCmp(f, s, d) = Cmp(f, s, d)
        BY <1>1, <2>1, CmpMeans, InlineSubAgrees
      <3>2. GoodOut(Cmp(f, s, d)) /\ GoodIn(InlineCmp(f, s, d))
        BY <3>1, <1>2 DEF GoodOut, GoodIn
      <3> QED BY <2>4, <3>2, <1>4
    <2>5. CASE job.op = "addx" /\ Ran(AddX(f, s, d), <<InlineAddX(f, FALSE, s, d)>>)
      <3> DEFINE i == InlineAddX(f, FALSE, s, d)
      <3>1. AddX(f, s, d).r \in Word /\ AddX(f, s, d).f \in Ccr
        BY <1>1, <2>1, AddXMeans
      <3>2. i.r = AddX(f, s, d).r /\ i.f \in Ccr
        BY <1>1, <2>1, InlineAddXAgrees
      <3>3. Ran(AddX(f, s, d), <<i>>)
        BY <2>5
      <3> HIDE DEF i
      <3>4. GoodOut(AddX(f, s, d)) /\ GoodIn(i)
        BY <3>1, <3>2, <1>2 DEF GoodOut, GoodIn
      <3> QED BY <3>3, <3>4, <1>4
    <2>6. CASE job.op = "subx" /\ Ran(SubX(f, s, d), <<InlineAddX(f, TRUE, s, d)>>)
      <3> DEFINE i == InlineAddX(f, TRUE, s, d)
      <3>1. SubX(f, s, d).r \in Word /\ SubX(f, s, d).f \in Ccr
        BY <1>1, <2>1, SubXMeans
      <3>2. i.r = SubX(f, s, d).r /\ i.f \in Ccr
        BY <1>1, <2>1, InlineSubXAgrees
      <3>3. Ran(SubX(f, s, d), <<i>>)
        BY <2>6
      <3> HIDE DEF i
      <3>4. GoodOut(SubX(f, s, d)) /\ GoodIn(i)
        BY <3>1, <3>2, <1>2 DEF GoodOut, GoodIn
      <3> QED BY <3>3, <3>4, <1>4
    <2>7. CASE job.op = "logic" /\ Ran(Out(d, SetFlagsLogic(f, d)), <<Out(d, EmitLogicFlags(f, d))>>)
      <3>1. SetFlagsLogic(f, d) \in Ccr /\ EmitLogicFlags(f, d) \in Ccr
        BY <1>1, InlineLogicAgrees
      <3>2. GoodOut(Out(d, SetFlagsLogic(f, d))) /\ GoodIn(Out(d, EmitLogicFlags(f, d)))
        BY <3>1, <2>1, <1>2 DEF GoodOut, GoodIn, Out
      <3> QED BY <2>7, <3>2, <1>4
    <2> QED BY <1>8, <2>2, <2>3, <2>4, <2>5, <2>6, <2>7 DEF ArithRan
  <1>9. CASE ShiftRan
    <2>1. s \in Nat /\ d \in Word /\ job.op \in ShiftOps
      BY <1>1, <1>9, JobTypes DEF ShiftRan
    <2>2. GoodOut(DoShift(job.op, f, d, s))
      BY <1>1, <1>2, <2>1, ShiftTyped DEF GoodOut
    <2> QED BY <1>5, <1>9, <2>2 DEF ShiftRan
  <1>10. CASE BcdRan
    <2>1. s \in 0 .. 99 /\ d \in 0 .. 99
      BY <1>1, <1>10, JobTypes DEF BcdRan
    <2>2. GoodOut(BcdAbcd(f, Packed(s), Packed(d)))
      <3>1. Decimal(f, BcdAbcd(f, Packed(s), Packed(d)), d + s + Bit(f.x))
        BY <1>1, <2>1, AbcdDecimal
      <3> QED BY <3>1 DEF GoodOut, Decimal
    <2>3. GoodOut(BcdSbcd(f, Packed(s), Packed(d)))
      <3>1. Decimal(f, BcdSbcd(f, Packed(s), Packed(d)), d - s - Bit(f.x))
        BY <1>1, <2>1, SbcdDecimal
      <3> QED BY <3>1 DEF GoodOut, Decimal
    <2>4. GoodOut(BcdNbcd(f, Packed(d)))
      <3>1. Decimal(f, BcdNbcd(f, Packed(d)), -d - Bit(f.x))
        BY <1>1, <2>1, NbcdDecimal
      <3> QED BY <3>1 DEF GoodOut, Decimal
    <2> QED BY <1>5, <1>10, <2>2, <2>3, <2>4 DEF BcdRan
  <1>11. CASE DivRan
    <2>1. s \in Word /\ d \in 0 .. (Wide - 1)
      BY <1>1, <1>11, JobTypes DEF DivRan
    <2>2. DivU(f, s, d).r \in 0 .. (Wide - 1) /\ DivU(f, s, d).f \in Ccr
      BY <1>1, <2>1, DivUMeans
    <2>3. \A o \in DivS(f, s, d) : o.r \in 0 .. (Wide - 1) /\ o.f \in Ccr
      BY <1>1, <2>1, DivSMeans
    <2>4. GoodOut(DivU(f, s, d)) /\ \A o \in DivS(f, s, d) : GoodOut(o)
      BY <2>2, <2>3 DEF GoodOut
    <2> QED BY <1>5, <1>11, <2>4 DEF DivRan
  <1>12. CASE ChainRan
    <2>1. s \in 0 .. (Wide - 1) /\ d \in 0 .. (Wide - 1)
      BY <1>1, <1>12, JobTypes DEF ChainRan
    <2>2. CASE job.op = "addx2" /\ Halves(AddLow, AddX(AddLow.f, s \div Mod, d \div Mod))
      <3> DEFINE hi == AddX(AddLow.f, s \div Mod, d \div Mod)
      <3>1. AddLow.f \in Ccr /\ hi.f \in Ccr /\ AddLow.r \in Word /\ hi.r \in Word
        BY <1>1, <2>1, AddChain DEF AddLow
      <3>2. Halves(AddLow, hi)
        BY <2>2
      <3> HIDE DEF hi
      <3>3. GoodOut(AddLow) /\ GoodOut(hi)
        BY <3>1, <1>2 DEF GoodOut
      <3> QED BY <3>2, <3>3, <1>6
    <2>3. CASE job.op = "subx2" /\ Halves(SubLow, SubX(SubLow.f, s \div Mod, d \div Mod))
      <3> DEFINE hi == SubX(SubLow.f, s \div Mod, d \div Mod)
      <3>1. SubLow.f \in Ccr /\ hi.f \in Ccr /\ SubLow.r \in Word /\ hi.r \in Word
        BY <1>1, <2>1, SubChain DEF SubLow
      <3>2. Halves(SubLow, hi)
        BY <2>3
      <3> HIDE DEF hi
      <3>3. GoodOut(SubLow) /\ GoodOut(hi)
        BY <3>1, <1>2 DEF GoodOut
      <3> QED BY <3>2, <3>3, <1>6
    <2>4. CASE job.op = "negx2" /\ Halves(NegLow, NegX(NegLow.f, d \div Mod))
      <3> DEFINE hi == NegX(NegLow.f, d \div Mod)
      <3>1. NegLow.f \in Ccr /\ hi.f \in Ccr /\ NegLow.r \in Word /\ hi.r \in Word
        BY <1>1, <2>1, NegChain DEF NegLow
      <3>2. Halves(NegLow, hi)
        BY <2>4
      <3> HIDE DEF hi
      <3>3. GoodOut(NegLow) /\ GoodOut(hi)
        BY <3>1, <1>2 DEF GoodOut
      <3> QED BY <3>2, <3>3, <1>6
    <2> QED BY <1>12, <2>2, <2>3, <2>4 DEF ChainRan
  <1> QED BY <1>7, <1>8, <1>9, <1>10, <1>11, <1>12 DEF Inv

\* The conditions and the comparisons are truth values.
LEMMA BooleanConditions ==
    ASSUME NEW g \in Ccr, NEW s, NEW d, NEW cc \in {2, 3, 4, 5, 6, 7, 12, 13, 14, 15}
    PROVE  CondTrue(g, cc) \in BOOLEAN /\ Compares(cc, s, d) \in BOOLEAN
  <1>1. g.c \in BOOLEAN /\ g.z \in BOOLEAN /\ Ge(g) \in BOOLEAN
    BY DEF Ccr, Ge
  <1>2. CondTrue(g, cc) \in BOOLEAN
    <2>1. /\ CondTrue(g, 2) = (~g.c /\ ~g.z)
          /\ CondTrue(g, 3) = (g.c \/ g.z)
          /\ CondTrue(g, 4) = (~g.c)
          /\ CondTrue(g, 5) = (g.c)
          /\ CondTrue(g, 6) = (~g.z)
          /\ CondTrue(g, 7) = (g.z)
          /\ CondTrue(g, 12) = (Ge(g))
          /\ CondTrue(g, 13) = (~Ge(g))
          /\ CondTrue(g, 14) = (~g.z /\ Ge(g))
          /\ CondTrue(g, 15) = (g.z \/ ~Ge(g))
      BY DEF CondTrue
    <2> QED BY <1>1, <2>1
  <1>3. Compares(cc, s, d) \in BOOLEAN
    <2>1. /\ Compares(2, s, d) = (d > s)
          /\ Compares(3, s, d) = (d <= s)
          /\ Compares(4, s, d) = (d >= s)
          /\ Compares(5, s, d) = (d < s)
          /\ Compares(6, s, d) = (d # s)
          /\ Compares(7, s, d) = (d = s)
          /\ Compares(12, s, d) = (Signed(d) >= Signed(s))
          /\ Compares(13, s, d) = (Signed(d) < Signed(s))
          /\ Compares(14, s, d) = (Signed(d) > Signed(s))
          /\ Compares(15, s, d) = (Signed(d) <= Signed(s))
      BY DEF Compares
    <2>2. /\ (d > s) \in BOOLEAN /\ (d <= s) \in BOOLEAN /\ (d >= s) \in BOOLEAN
          /\ (d < s) \in BOOLEAN /\ (d # s) \in BOOLEAN /\ (d = s) \in BOOLEAN
      OBVIOUS
    <2>3. /\ (Signed(d) >= Signed(s)) \in BOOLEAN /\ (Signed(d) < Signed(s)) \in BOOLEAN
          /\ (Signed(d) > Signed(s)) \in BOOLEAN /\ (Signed(d) <= Signed(s)) \in BOOLEAN
      OBVIOUS
    <2>4. /\ Compares(2, s, d) \in BOOLEAN /\ Compares(3, s, d) \in BOOLEAN
          /\ Compares(4, s, d) \in BOOLEAN /\ Compares(5, s, d) \in BOOLEAN
          /\ Compares(6, s, d) \in BOOLEAN /\ Compares(7, s, d) \in BOOLEAN
      BY <2>1, <2>2
    <2>5. /\ Compares(12, s, d) \in BOOLEAN /\ Compares(13, s, d) \in BOOLEAN
          /\ Compares(14, s, d) \in BOOLEAN /\ Compares(15, s, d) \in BOOLEAN
      BY <2>1, <2>3
    <2> QED BY <2>4, <2>5
  <1> QED BY <1>2, <1>3

\* The flags of CMP, ADD and SUB.
LEMMA InvFlagsMean == Inv => ConditionsMean /\ OverflowMeans
  <1> SUFFICES ASSUME Inv PROVE ConditionsMean /\ OverflowMeans
    OBVIOUS
  <1> DEFINE f == job.f
             s == job.s
             d == job.d
  <1>1. job \in Jobs /\ f \in Ccr
    BY JobTypes DEF Inv
  <1>2. ConditionsMean
    <2>1. SUFFICES ASSUME step = 1, job.op = "cmp"
                   PROVE  \A cc \in {2, 3, 4, 5, 6, 7, 12, 13, 14, 15} :
                              CondTrue(out[1].f, cc) = Compares(cc, s, d)
      BY DEF ConditionsMean
    <2>2. out = <<Cmp(f, s, d)>> /\ s \in Word /\ d \in Word
      <3>1. s \in Word /\ d \in Word
        BY <1>1, <2>1, JobTypes
      <3>2. Ran(Cmp(f, s, d), <<InlineCmp(f, s, d)>>)
        BY <2>1 DEF Inv, Fresh, ArithRan, ShiftRan, ShiftOps, BcdRan, DivRan, ChainRan
      <3> QED BY <3>1, <3>2 DEF Ran
    <2>3. out[1] = Cmp(f, s, d)
      BY <2>2
    <2>4. ASSUME NEW cc \in {2, 3, 4, 5, 6, 7, 12, 13, 14, 15}
          PROVE  CondTrue(out[1].f, cc) = Compares(cc, s, d)
      <3>1. CondTrue(out[1].f, cc) <=> Compares(cc, s, d)
        BY <1>1, <2>2, <2>3, CmpMeans
      <3>2. out[1].f \in Ccr
        BY <1>1, <2>2, <2>3, CmpMeans
      <3> QED BY <3>1, <3>2, BooleanConditions
    <2> QED BY <2>4
  <1>3. OverflowMeans
    <2>1. SUFFICES ASSUME step = 1, job.op \in {"add", "sub"} PROVE OverflowMeans
      BY DEF OverflowMeans
    <2>2. s \in Word /\ d \in Word
      BY <1>1, <2>1, JobTypes
    <2>3. CASE job.op = "add"
      <3>1. out = <<Add(f, s, d)>>
        <4>1. Ran(Add(f, s, d), <<InlineAdd(f, s, d)>>)
          BY <2>1, <2>3 DEF Inv, Fresh, ArithRan, ShiftRan, ShiftOps, BcdRan, DivRan, ChainRan
        <4> QED BY <4>1 DEF Ran
      <3> DEFINE o == out[1]
                 sum == Signed(d) + Signed(s)
      <3>2. /\ o.f \in Ccr
            /\ o.f.v <=> (sum < -Half \/ sum > Half - 1)
            /\ o.f.c <=> d + s \notin Word
            /\ ~o.f.v => Signed(o.r) = sum
        BY <1>1, <2>2, <3>1, AddMeans
      <3>3. o.f.v \in BOOLEAN /\ o.f.c \in BOOLEAN
        BY <3>2 DEF Ccr
      <3>4. o.f.v = (sum < -Half \/ sum > Half - 1) /\ o.f.c = (d + s \notin Word)
        BY <3>2, <3>3
      <3> QED BY <2>1, <2>3, <3>2, <3>4 DEF OverflowMeans
    <2>4. CASE job.op = "sub"
      <3>1. out = <<Sub(f, s, d)>>
        <4>1. Ran(Sub(f, s, d), <<InlineSub(f, s, d)>>)
          BY <2>1, <2>4 DEF Inv, Fresh, ArithRan, ShiftRan, ShiftOps, BcdRan, DivRan, ChainRan
        <4> QED BY <4>1 DEF Ran
      <3> DEFINE o == out[1]
                 diff == Signed(d) - Signed(s)
      <3>2. /\ o.f \in Ccr
            /\ o.f.v <=> (diff < -Half \/ diff > Half - 1)
            /\ o.f.c <=> d - s \notin Word
            /\ ~o.f.v => Signed(o.r) = diff
        BY <1>1, <2>2, <3>1, SubMeans
      <3>3. o.f.v \in BOOLEAN /\ o.f.c \in BOOLEAN
        BY <3>2 DEF Ccr
      <3>4. o.f.v = (diff < -Half \/ diff > Half - 1) /\ o.f.c = (d - s \notin Word)
        BY <3>2, <3>3
      <3> QED BY <2>1, <2>4, <3>2, <3>4 DEF OverflowMeans
    <2> QED BY <2>1, <2>3, <2>4
  <1> QED BY <1>2, <1>3

\* Results and flags are in their range, every condition after CMP says what its name
\* says, and V and C of ADD and SUB tell whether the exact result fits (cond_true,
\* set_flags_add, set_flags_sub): for operands of every width.
THEOREM FlagsAlwaysMean == Spec => []FlagsMean
  <1>1. Inv => FlagsMean
    BY InvTyped, InvFlagsMean DEF FlagsMean
  <1> QED BY <1>1, Invariance, PTL

\* The emitted code of one instruction against the interpreter.
LEMMA InvInlineAgrees == Inv => InlineAgrees
  <1> SUFFICES ASSUME Inv PROVE InlineAgrees
    OBVIOUS
  <1> DEFINE f == job.f
             s == job.s
             d == job.d
  <1>1. job \in Jobs /\ f \in Ccr
    BY JobTypes DEF Inv
  <1>2. ASSUME step = 1, job.op \in {"add", "sub", "cmp", "addx", "subx", "logic"}
        PROVE  ArithRan /\ s \in Word /\ d \in Word
    BY <1>1, <1>2, JobTypes DEF Inv, Fresh, ShiftRan, ShiftOps, BcdRan, DivRan, ChainRan
  <1>3. InlinePlainAgrees
    <2>1. SUFFICES ASSUME step = 1, job.op \in {"add", "sub", "cmp", "logic"}
                   PROVE  inline[1] = out[1]
      BY DEF InlinePlainAgrees
    <2>2. ArithRan /\ s \in Word /\ d \in Word
      BY <1>2, <2>1
    <2>3. ASSUME NEW o, NEW i, Ran(o, <<i>>), i = o
          PROVE  inline[1] = out[1]
      BY <2>3 DEF Ran
    <2>4. CASE job.op = "add"
      BY <2>2, <2>3, <2>4, InlineAddAgrees DEF ArithRan
    <2>5. CASE job.op = "sub"
      BY <2>2, <2>3, <2>5, InlineSubAgrees DEF ArithRan
    <2>6. CASE job.op = "cmp"
      BY <2>2, <2>3, <2>6, InlineSubAgrees DEF ArithRan
    <2>7. CASE job.op = "logic"
      BY <1>1, <2>2, <2>3, <2>7, InlineLogicAgrees DEF ArithRan
    <2> QED BY <2>1, <2>4, <2>5, <2>6, <2>7
  <1>4. InlineXAgrees
    <2>1. SUFFICES ASSUME step = 1, job.op \in {"addx", "subx"}
                   PROVE  /\ inline[1].r = out[1].r
                          /\ inline[1].f = [out[1].f EXCEPT !.z = inline[1].f.z]
                          /\ f.z => inline[1].f.z = out[1].f.z
      BY DEF InlineXAgrees
    <2>2. ArithRan /\ s \in Word /\ d \in Word
      BY <1>2, <2>1
    <2>3. CASE job.op = "addx"
      <3> DEFINE i == InlineAddX(f, FALSE, s, d)
                 o == AddX(f, s, d)
      <3>1. Ran(o, <<i>>)
        BY <2>2, <2>3 DEF ArithRan
      <3>2. /\ i.r = o.r /\ i.f \in Ccr
            /\ i.f = [o.f EXCEPT !.z = i.f.z]
            /\ f.z => i.f.z = o.f.z
        <4> HIDE DEF f, s, d
        <4> QED BY <1>1, <2>2, InlineAddXAgrees
      <3> HIDE DEF i, o
      <3>3. out[1] = o /\ inline[1] = i
        BY <3>1 DEF Ran
      <3> QED BY <3>2, <3>3
    <2>4. CASE job.op = "subx"
      <3> DEFINE i == InlineAddX(f, TRUE, s, d)
                 o == SubX(f, s, d)
      <3>1. Ran(o, <<i>>)
        BY <2>2, <2>4 DEF ArithRan
      <3>2. /\ i.r = o.r /\ i.f \in Ccr
            /\ i.f = [o.f EXCEPT !.z = i.f.z]
            /\ f.z => i.f.z = o.f.z
        <4> HIDE DEF f, s, d
        <4> QED BY <1>1, <2>2, InlineSubXAgrees
      <3> HIDE DEF i, o
      <3>3. out[1] = o /\ inline[1] = i
        BY <3>1 DEF Ran
      <3> QED BY <3>2, <3>3
    <2> QED BY <2>1, <2>3, <2>4
  <1> QED BY <1>3, <1>4 DEF InlineAgrees

\* The code emitted for ADD, SUB, CMP, the logic instructions, ADDX and SUBX computes
\* from top bits the results and flags that the interpreter computes by comparing
\* sums: for operands of every width.
THEOREM EmittedCodeAgrees == Spec => []InlineAgrees
  BY InvInlineAgrees, Invariance, PTL

\* Two words chained through X.
LEMMA InvChainsCarry == Inv => ChainsCarry
  <1> SUFFICES ASSUME Inv, step = 2 PROVE ChainsCarry
    BY DEF ChainsCarry
  <1> DEFINE f == job.f
             s == job.s
             d == job.d
             sh == s \div Mod
             dh == d \div Mod
             result == out[2].r * Mod + out[1].r
  <1>1. job \in Jobs /\ f \in Ccr
    BY JobTypes DEF Inv
  <1>2. ChainRan
    BY DEF Inv, Fresh, ArithRan, ShiftRan, BcdRan, DivRan, Ran
  <1>3. s \in 0 .. (Wide - 1) /\ d \in 0 .. (Wide - 1)
    BY <1>1, <1>2, JobTypes DEF ChainRan
  <1>4. ASSUME NEW lo, NEW hi, Halves(lo, hi)
        PROVE  out[1] = lo /\ out[2] = hi
    BY <1>4, PairFacts DEF Halves
  <1>5. ASSUME NEW lo, NEW hi, NEW exact, Halves(lo, hi), hi.f \in Ccr,
               hi.r * Mod + lo.r = exact % Wide,
               hi.f.c <=> exact \notin 0 .. (Wide - 1),
               hi.f.z <=> f.z /\ hi.r * Mod + lo.r = 0
        PROVE  /\ result = exact % Wide
               /\ out[2].f.c = (exact \notin 0 .. (Wide - 1))
               /\ out[2].f.z = (f.z /\ result = 0)
    <2>1. out[1] = lo /\ out[2] = hi
      BY <1>4, <1>5
    <2>2. hi.f.c \in BOOLEAN /\ hi.f.z \in BOOLEAN
      BY <1>5 DEF Ccr
    <2>3. hi.f.c = (exact \notin 0 .. (Wide - 1)) /\ hi.f.z = (f.z /\ hi.r * Mod + lo.r = 0)
      BY <1>5, <2>2
    <2> QED BY <1>5, <2>1, <2>3
  <1>6. CASE job.op = "addx2"
    <2> DEFINE hi == AddX(AddLow.f, sh, dh)
               exact == d + s + Bit(f.x)
    <2>1. Halves(AddLow, hi)
      BY <1>2, <1>6 DEF ChainRan
    <2>2. /\ hi.f \in Ccr
          /\ hi.r * Mod + AddLow.r = exact % Wide
          /\ hi.f.c <=> exact \notin 0 .. (Wide - 1)
          /\ hi.f.z <=> f.z /\ hi.r * Mod + AddLow.r = 0
      BY <1>1, <1>3, AddChain DEF AddLow
    <2> HIDE DEF hi, exact
    <2>3. /\ result = exact % Wide
          /\ out[2].f.c = (exact \notin 0 .. (Wide - 1))
          /\ out[2].f.z = (f.z /\ result = 0)
      BY <1>5, <2>1, <2>2
    <2> QED BY <1>6, <2>3 DEF ChainsCarry, exact
  <1>7. CASE job.op = "subx2"
    <2> DEFINE hi == SubX(SubLow.f, sh, dh)
               exact == d - s - Bit(f.x)
    <2>1. Halves(SubLow, hi)
      BY <1>2, <1>7 DEF ChainRan
    <2>2. /\ hi.f \in Ccr
          /\ hi.r * Mod + SubLow.r = exact % Wide
          /\ hi.f.c <=> exact \notin 0 .. (Wide - 1)
          /\ hi.f.z <=> f.z /\ hi.r * Mod + SubLow.r = 0
      BY <1>1, <1>3, SubChain DEF SubLow
    <2> HIDE DEF hi, exact
    <2>3. /\ result = exact % Wide
          /\ out[2].f.c = (exact \notin 0 .. (Wide - 1))
          /\ out[2].f.z = (f.z /\ result = 0)
      BY <1>5, <2>1, <2>2
    <2> QED BY <1>7, <2>3 DEF ChainsCarry, exact
  <1>8. CASE job.op = "negx2"
    <2> DEFINE hi == NegX(NegLow.f, dh)
               exact == -d - Bit(f.x)
    <2>1. Halves(NegLow, hi)
      BY <1>2, <1>8 DEF ChainRan
    <2>2. /\ hi.f \in Ccr
          /\ hi.r * Mod + NegLow.r = exact % Wide
          /\ hi.f.c <=> exact \notin 0 .. (Wide - 1)
          /\ hi.f.z <=> f.z /\ hi.r * Mod + NegLow.r = 0
      BY <1>1, <1>3, NegChain DEF NegLow
    <2> HIDE DEF hi, exact
    <2>3. /\ result = exact % Wide
          /\ out[2].f.c = (exact \notin 0 .. (Wide - 1))
          /\ out[2].f.z = (f.z /\ result = 0)
      BY <1>5, <2>1, <2>2
    <2> QED BY <1>8, <2>3 DEF ChainsCarry, exact
  <1> QED BY <1>2, <1>6, <1>7, <1>8 DEF ChainRan

\* ADDX, SUBX and NEGX chained over two words are addition, subtraction and negation
\* of double words, with the carry and the zero flag of the whole.
THEOREM ChainsAlwaysCarry == Spec => []ChainsCarry
  BY InvChainsCarry, Invariance, PTL

\* The last turn of the loop.
LEMMA LastTurn ==
    ASSUME NEW op, NEW f, NEW v, NEW n \in Nat, n > 0, NEW g, ShiftRun(op, f, v, n, g)
    PROVE  n - 1 \in 0 .. n /\ g[n] = ShiftOnce(op, g[n - 1]) /\ g[n - 1] \in ShiftState
  <1>1. n \in 1 .. n /\ n - 1 \in 0 .. n
    OBVIOUS
  <1> QED BY <1>1 DEF ShiftRun

\* Shifts and rotates.
LEMMA InvShiftsMean == Inv => ShiftsMean
  <1> SUFFICES ASSUME Inv, step = 1, job.op \in ShiftOps PROVE ShiftsMean
    BY DEF ShiftsMean
  <1> DEFINE op == job.op
             n == job.s
             v == job.d
             x == job.f.x
             o == out[1]
             res == o.r
             f == o.f
             before == v + Mod * Bit(x)
             after == res + Mod * Bit(f.x)
             exact == Signed(v) * Pow2[n]
  <1>1. job \in Jobs /\ job.f \in Ccr /\ op \in ShiftOps
    BY JobTypes DEF Inv
  <1>2. ShiftRan
    BY DEF Inv, Fresh, ArithRan, ShiftOps, BcdRan, DivRan, ChainRan
  <1>3. n \in Nat /\ v \in Word /\ n \in 0 .. n
    <2>1. n \in Nat /\ v \in Word
      BY <1>1, JobTypes
    <2> QED BY <2>1
  <1>4. o = DoShift(op, job.f, v, n)
    BY <1>2 DEF ShiftRan, Ran
  <1>5. PICK g : ShiftRun(op, job.f, v, n, g) /\ Outcome(op, job.f, n, g[n], DoShift(op, job.f, v, n))
    BY <1>1, <1>3, ShiftHasRun
  <1>6. ShiftRun(op, job.f, v, n, g) /\ Outcome(op, job.f, n, g[n], o)
    BY <1>4, <1>5
  <1>7. /\ g[0] \in ShiftState /\ g[n] \in ShiftState /\ g[0].val = v /\ g[0].x = x
        /\ g[0].ovf = FALSE
    BY <1>3, <1>6 DEF ShiftRun, ShiftStart
  <1>8. /\ res = g[n].val /\ f.v = g[n].ovf
        /\ n > 0 => f.c = g[n].out
        /\ op \in {"roxl", "roxr"} => f.x = g[n].x /\ (n = 0 => f.c = x)
        /\ n = 0 \/ op \in {"rol", "ror"} => f.x = x
        /\ n > 0 /\ op \in {"lsr", "asr", "lsl", "asl"} => f.x = g[n].out
    BY <1>6, Zenon DEF Outcome
  <1> HIDE DEF op, n, v, x, o, res, f
  <1>9. op = "lsr" => res = v \div Pow2[n]
    BY <1>3, <1>6, <1>8, LsrRun
  <1>10. op \in {"lsl", "asl"} => res = (v * Pow2[n]) % Mod
    <2>1. op \in {"lsl", "asl"} => \A i \in 0 .. n : g[i].val = (v * Pow2[i]) % Mod
      BY <1>3, <1>6, LslRun
    <2> QED BY <1>3, <1>8, <2>1
  <1>11. op = "asr" => Signed(res) = Signed(v) \div Pow2[n]
    BY <1>3, <1>6, <1>8, AsrRun
  <1>12. op = "rol" => res = Rotl(v, n, Width, Mod)
    BY <1>3, <1>6, <1>7, <1>8, RolRun
  <1>13. op = "ror" => v = Rotl(res, n, Width, Mod)
    BY <1>3, <1>6, <1>7, <1>8, RorRun
  <1>14. Ring(g[0]) = before /\ (op \in {"roxl", "roxr"} => Ring(g[n]) = after)
    BY <1>7, <1>8 DEF Ring
  <1> HIDE DEF before, after
  <1>15. op = "roxl" => after = Rotl(before, n, Width + 1, 2 * Mod)
    BY <1>3, <1>6, <1>14, RoxlRun
  <1>16. op = "roxr" => before = Rotl(after, n, Width + 1, 2 * Mod)
    BY <1>3, <1>6, <1>14, RoxrRun
  <1>17. f.v = (op = "asl" /\ exact \notin SignedRange)
    <2> HIDE DEF exact
    <2>1. CASE op = "asl"
      <3>1. g[n].ovf = (exact \notin SignedRange)
        BY <1>3, <1>6, <2>1, AslRun DEF exact
      <3> QED BY <1>8, <2>1, <3>1
    <2>2. CASE op # "asl"
      <3>1. g[n].ovf = FALSE
        BY <1>1, <1>3, <1>6, <2>2, NoOverflow DEF op
      <3> QED BY <1>8, <2>2, <3>1
    <2> QED BY <2>1, <2>2
  <1>18. ASSUME n > 0
         PROVE  /\ op = "lsr" => f.c = ((v \div Pow2[n - 1]) % 2 = 1)
                /\ op = "asr" => f.c = ((Signed(v) \div Pow2[n - 1]) % 2 = 1)
                /\ op \in {"lsl", "asl"} => f.c = Msb((v * Pow2[n - 1]) % Mod)
                /\ op = "rol" => f.c = (res % 2 = 1)
                /\ op = "ror" => f.c = Msb(res)
                /\ op \in {"roxl", "roxr"} => f.c = f.x
                /\ op \in {"lsr", "asr", "lsl", "asl"} => f.x = f.c
    <2> DEFINE t == g[n - 1]
               u == g[n]
    <2>1. u = ShiftOnce(op, t) /\ t \in ShiftState /\ n - 1 \in 0 .. n
      BY <1>3, <1>6, <1>18, LastTurn
    <2> HIDE DEF t, u
    <2>2. f.c = u.out
      BY <1>8, <1>18 DEF u
    <2>3. op = "lsr" => f.c = ((v \div Pow2[n - 1]) % 2 = 1)
      <3> SUFFICES ASSUME op = "lsr" PROVE f.c = ((v \div Pow2[n - 1]) % 2 = 1)
        OBVIOUS
      <3>1. u.out = (t.val % 2 = 1)
        BY <2>1, StepFields DEF ShiftOps
      <3>2. t.val = v \div Pow2[n - 1]
        BY <1>3, <1>6, <2>1, LsrRun DEF t
      <3> QED BY <2>2, <3>1, <3>2
    <2>4. op = "asr" => f.c = ((Signed(v) \div Pow2[n - 1]) % 2 = 1)
      <3> SUFFICES ASSUME op = "asr" PROVE f.c = ((Signed(v) \div Pow2[n - 1]) % 2 = 1)
        OBVIOUS
      <3>1. u.out = (t.val % 2 = 1)
        BY <2>1, StepFields DEF ShiftOps
      <3>2. Signed(t.val) = Signed(v) \div Pow2[n - 1]
        BY <1>3, <1>6, <2>1, AsrRun DEF t
      <3>3. t.val % 2 = Signed(t.val) % 2
        <4>1. t.val \in Int
          BY <2>1 DEF ShiftState, Word
        <4>2. (t.val - 2 * Half) % 2 = t.val % 2
          BY <4>1, ModFacts
        <4> QED BY <4>1, <4>2, ModFacts DEF Signed
      <3> QED BY <2>2, <3>1, <3>2, <3>3
    <2>5. op \in {"lsl", "asl"} => f.c = Msb((v * Pow2[n - 1]) % Mod)
      <3> SUFFICES ASSUME op \in {"lsl", "asl"} PROVE f.c = Msb((v * Pow2[n - 1]) % Mod)
        OBVIOUS
      <3>1. u.out = Msb(t.val)
        BY <2>1, StepFields DEF ShiftOps
      <3>2. \A i \in 0 .. n : g[i].val = (v * Pow2[i]) % Mod
        BY <1>3, <1>6, LslRun
      <3>3. t.val = (v * Pow2[n - 1]) % Mod
        BY <2>1, <3>2 DEF t
      <3> QED BY <2>2, <3>1, <3>3
    <2>6. op = "rol" => f.c = (res % 2 = 1)
      BY <1>8, <2>1, <2>2, RolStep DEF u
    <2>7. op = "ror" => f.c = Msb(res)
      BY <1>8, <2>1, <2>2, RorStep DEF u
    <2>8. op \in {"roxl", "roxr"} => f.c = f.x
      <3>1. op = "roxl" => u.out = u.x
        BY <2>1, RoxlStep
      <3>2. op = "roxr" => u.out = u.x
        BY <2>1, RoxrStep
      <3> QED BY <1>8, <2>2, <3>1, <3>2 DEF u
    <2>9. op \in {"lsr", "asr", "lsl", "asl"} => f.x = f.c
      BY <1>8, <1>18
    <2> QED BY <2>3, <2>4, <2>5, <2>6, <2>7, <2>8, <2>9, Zenon
  <1>19. op \in {"roxl", "roxr"} => f.c = f.x
    <2>1. CASE n > 0
      BY <1>18, <2>1, Zenon
    <2>2. CASE n = 0
      BY <1>8, <2>2, Zenon
    <2> QED BY <1>3, <2>1, <2>2
  <1> QED BY <1>8, <1>9, <1>10, <1>11, <1>12, <1>13, <1>15, <1>16, <1>17, <1>18, <1>19, Zenon
       DEF ShiftsMean, SignedRange, op, n, v, x, o, res, f, before, after, exact

\* do_shift gives the result, X, V and C of the whole shift or rotate, for every count
\* and operands of every width.
THEOREM ShiftsAlwaysMean == Spec => []ShiftsMean
  BY InvShiftsMean, Invariance, PTL

\* Decimal arithmetic.
LEMMA InvBcdMeans == Inv => BcdMeans
  <1> SUFFICES ASSUME Inv, step = 1, job.op \in {"abcd", "sbcd", "nbcd"} PROVE BcdMeans
    BY DEF BcdMeans
  <1> DEFINE f == job.f
             s == job.s
             d == job.d
  <1>1. job \in Jobs /\ f \in Ccr
    BY JobTypes DEF Inv
  <1>2. BcdRan
    BY DEF Inv, Fresh, ArithRan, ShiftRan, ShiftOps, DivRan, ChainRan
  <1>3. s \in 0 .. 99 /\ d \in 0 .. 99
    BY <1>1, JobTypes
  <1>4. ASSUME NEW o, NEW exact, Ran(o, <<>>), Decimal(f, o, exact)
        PROVE  /\ out[1].r = Packed(exact % 100)
               /\ out[1].f.c = (exact \notin 0 .. 99) /\ out[1].f.x = out[1].f.c
               /\ out[1].f.z = (f.z /\ exact % 100 = 0)
    <2>1. out[1] = o
      BY <1>4 DEF Ran
    <2>2. o.f.c \in BOOLEAN /\ o.f.x \in BOOLEAN /\ o.f.z \in BOOLEAN
      BY <1>4 DEF Decimal, Ccr
    <2>3. /\ o.f.c = (exact \notin 0 .. 99) /\ o.f.x = o.f.c
          /\ o.f.z = (f.z /\ exact % 100 = 0)
      BY <1>4, <2>2 DEF Decimal
    <2> QED BY <1>4, <2>1, <2>3 DEF Decimal
  <1>5. CASE job.op = "abcd"
    <2> DEFINE o == BcdAbcd(f, Packed(s), Packed(d))
               exact == d + s + Bit(f.x)
    <2>1. Ran(o, <<>>)
      BY <1>2, <1>5 DEF BcdRan
    <2>2. Decimal(f, o, exact)
      BY <1>1, <1>3, AbcdDecimal
    <2> HIDE DEF o, exact
    <2>3. /\ out[1].r = Packed(exact % 100)
          /\ out[1].f.c = (exact \notin 0 .. 99) /\ out[1].f.x = out[1].f.c
          /\ out[1].f.z = (f.z /\ exact % 100 = 0)
      BY <1>4, <2>1, <2>2
    <2> QED BY <1>5, <2>3 DEF BcdMeans, exact
  <1>6. CASE job.op = "sbcd"
    <2> DEFINE o == BcdSbcd(f, Packed(s), Packed(d))
               exact == d - s - Bit(f.x)
    <2>1. Ran(o, <<>>)
      BY <1>2, <1>6 DEF BcdRan
    <2>2. Decimal(f, o, exact)
      BY <1>1, <1>3, SbcdDecimal
    <2> HIDE DEF o, exact
    <2>3. /\ out[1].r = Packed(exact % 100)
          /\ out[1].f.c = (exact \notin 0 .. 99) /\ out[1].f.x = out[1].f.c
          /\ out[1].f.z = (f.z /\ exact % 100 = 0)
      BY <1>4, <2>1, <2>2
    <2> QED BY <1>6, <2>3 DEF BcdMeans, exact
  <1>7. CASE job.op = "nbcd"
    <2> DEFINE o == BcdNbcd(f, Packed(d))
               exact == -d - Bit(f.x)
    <2>1. Ran(o, <<>>)
      BY <1>2, <1>7 DEF BcdRan
    <2>2. Decimal(f, o, exact)
      BY <1>1, <1>3, NbcdDecimal
    <2> HIDE DEF o, exact
    <2>3. /\ out[1].r = Packed(exact % 100)
          /\ out[1].f.c = (exact \notin 0 .. 99) /\ out[1].f.x = out[1].f.c
          /\ out[1].f.z = (f.z /\ exact % 100 = 0)
      BY <1>4, <2>1, <2>2
    <2> QED BY <1>7, <2>3 DEF BcdMeans, exact
  <1> QED BY <1>5, <1>6, <1>7

\* Division.
LEMMA InvDivMeans == Inv => DivMeans
  <1> SUFFICES ASSUME Inv, step = 1, job.op \in {"divu", "divs"}, ~out[1].zero,
                      ~(job.op = "divs" /\ UndefinedDiv(job.s, job.d))
               PROVE  DivMeans
    BY DEF DivMeans
  <1> DEFINE f == job.f
             s == job.s
             d == job.d
             o == out[1]
  <1>1. job \in Jobs /\ f \in Ccr
    BY JobTypes DEF Inv
  <1>2. DivRan
    BY DEF Inv, Fresh, ArithRan, ShiftRan, ShiftOps, BcdRan, ChainRan
  <1>3. s \in Word /\ d \in 0 .. (Wide - 1)
    BY <1>1, JobTypes
  <1>4. CASE job.op = "divu"
    <2> DEFINE fits == \E k \in Word : \E rr \in (-Mod) .. Mod : Quotient(d, s, k, rr)
    <2>1. o = DivU(f, s, d)
      BY <1>2, <1>4 DEF DivRan, Ran
    <2>2. /\ o.f \in Ccr
          /\ o.f.v <=> ~fits
          /\ ~fits => o.r = d
          /\ fits => Quotient(d, s, o.r % Mod, o.r \div Mod)
      BY <1>1, <1>3, <2>1, DivUMeans
    <2>3. o.f.v = ~fits
      BY <2>2 DEF Ccr
    <2> QED BY <1>4, <2>2, <2>3 DEF DivMeans, Quotient, Magnitude
  <1>5. CASE job.op = "divs"
    <2> DEFINE a == SignedWide(d)
               b == Signed(s)
               fits == \E k \in Word : \E rr \in (-Mod) .. Mod : Quotient(a, b, Signed(k), rr)
    <2>1. o \in DivS(f, s, d)
      BY <1>2, <1>5 DEF DivRan, Ran
    <2>2. ~o.zero /\ ~UndefinedDiv(s, d)
      BY <1>5
    <2> HIDE DEF o
    <2>3. /\ o.f \in Ccr
          /\ o.f.v <=> ~fits
          /\ ~fits => o.r = d
          /\ fits => Quotient(a, b, Signed(o.r % Mod), Signed(o.r \div Mod))
      BY <1>1, <1>3, <2>1, <2>2, DivSMeans
    <2>4. o.f.v = ~fits
      BY <2>3 DEF Ccr
    <2> QED BY <1>5, <2>3, <2>4 DEF o, DivMeans, Quotient, Magnitude
  <1> QED BY <1>4, <1>5

\* ABCD, SBCD and NBCD are decimal arithmetic modulo 100, and DIVU and DIVS give the
\* quotient and remainder of the dividend or set V and leave it, except where C does
\* not define the division: for every width.
THEOREM DecimalAndDivisionAlwaysMean == Spec => []DecimalAndDivisionMean
  <1>1. Inv => DecimalAndDivisionMean
    BY InvBcdMeans, InvDivMeans DEF DecimalAndDivisionMean
  <1> QED BY <1>1, Invariance, PTL

=============================================================================
