----------------------------- MODULE MacIoProofs -----------------------------
(***************************************************************************)
(* Proofs about the VIA, its timers and the keyboard, for timers, dividers *)
(* and tick intervals of every size, rings of every length and any number  *)
(* of key events.                                                          *)
(*                                                                         *)
(* Typed and ClockInv give the registers their ranges.  ShotInv keeps the  *)
(* account of a one-shot: what its counter still owes, less the remainder  *)
(* and the cycles not yet ticked, against the cycles since it was started. *)
(* Protocol holds of the keyboard whatever the guest writes.  Exchange     *)
(* follows the ROM's conversation from both sides and says where the key   *)
(* event is that has left the ring and was not read: held back, in the     *)
(* shift register, or as the second half that Instant will fetch.          *)
(***************************************************************************)
EXTENDS MacIo, TLAPS

Event == [id : 0 .. MaxEvents, two : BOOLEAN]

ViaState ==
    [ifr : SUBSET Irqs, ier : SUBSET Irqs, irq : BOOLEAN,
     free : BOOLEAN, mode : Modes, sr : Bytes, icb2 : 0 .. 1,
     t1c : Timer, t1l : Timer, t1armed : BOOLEAN, t2c : Timer, t2armed : BOOLEAN,
     gap : Nat, lastZero : BOOLEAN, rem : 0 .. (Divider - 1), vbl : Int]

KbdState ==
    [state : {"idle", "rx_cmd", "got_cmd", "rx_end"}, have : BOOLEAN,
     result : Bytes, instant : Bytes, pending : BOOLEAN,
     inquiryLeft : 0 .. KbdInquiry, action : 0 .. 2, left : 0 .. KbdDelay,
     keyq : [Slots -> Event], head : Slots, tail : Slots]

Machine == [via : ViaState, kbd : KbdState]

Commands == {Inquiry, Instant, Model, Test}
Guests == [who : TimerNames \cup {"rom", "any"}, at : {"idle", "sent", "listen"},
           cmd : Commands]
KeyCounts == [accepted : 0 .. MaxEvents, got : 0 .. MaxEvents, bytes : 0 .. MaxEvents]
Shots == [one : BOOLEAN, load : Timer, age : Nat, fired : 0 .. 2, early : Nat]

Typed == m \in Machine /\ guest \in Guests /\ keys \in KeyCounts /\ shot \in Shots

\* The longest time between two ticks.
Interval == IF UsesTimer THEN MaxGap ELSE KbdStep

ClockInv ==
    /\ m.via.gap <= Interval
    /\ m.via.vbl + m.via.gap > 0 /\ m.via.vbl <= VblCycles

-----------------------------------------------------------------------------
(* One-shots *)

Counter == IF guest.who = "T1" THEN m.via.t1c ELSE m.via.t2c
Armed == IF guest.who = "T1" THEN m.via.t1armed ELSE m.via.t2armed

\* The cycles until the counter comes to 0.
Owed(v, c) == Divider * c - v.rem - ElapsedCycles(v)

\* The cycles owed and the cycles waited are those of the load, but for the cycles
\* that had passed when the timer was started and those that no tick will count.
Balanced(v, c, load, age) ==
    /\ age + Owed(v, c) > Divider * load - Divider - MaxGap
    /\ age + Owed(v, c) <= Divider * load + MaxGap
    /\ v.lastZero => c = load /\ age <= v.gap

ShotInv ==
    shot.one =>
        /\ UsesTimer
        /\ guest.who = "T1" => ~m.via.free
        /\ \/ shot.fired = 0 /\ shot.early = 0 /\ Armed
              /\ Balanced(m.via, Counter, shot.load, shot.age)
           \/ shot.fired = 1 /\ shot.early < MaxGap + Divider /\ ~Armed

-----------------------------------------------------------------------------
(* The keyboard's protocol, whatever the guest writes *)

Protocol(k) ==
    /\ (k.action = 1) <=> (k.state = "rx_cmd")
    /\ (k.action = 2) <=> (k.state = "rx_end")
    /\ k.have => k.state \in {"got_cmd", "rx_end"} /\ ~k.pending
    /\ k.pending => k.state # "rx_cmd"

-----------------------------------------------------------------------------
(* The ring, and the key event that is on its way *)

\* How many slots i lies behind head.
Behind(k, i) == IF k.head <= i THEN i - k.head ELSE i - k.head + Ring
Count(k) == Behind(k, k.tail)

\* The ring holds the last of n events accepted, in their order.
RingHolds(k, n) ==
    /\ Count(k) <= n
    /\ \A i \in Slots : Behind(k, i) < Count(k) =>
           k.keyq[i].id = n - Count(k) + Behind(k, i) + 1

\* The events that have left the ring; the last of them may still be on its way.
Taken(M, ks) == ks.accepted - Count(M.kbd)
NothingFlies(M, ks) == Taken(M, ks) = ks.bytes
KeyFlies(M, ks, byte) == Taken(M, ks) = ks.bytes + 1 /\ byte = Key(ks.bytes + 1)

\* A command that the keyboard has not seen.
Asked(M, g, ks) == IF g.cmd = Instant THEN KeyFlies(M, ks, M.kbd.instant)
                   ELSE NothingFlies(M, ks)

\* A reply to the command.
Answer(M, g, ks, byte) ==
    \/ g.cmd = Model /\ byte = ModelId /\ NothingFlies(M, ks)
    \/ g.cmd = Test /\ byte = Ack /\ NothingFlies(M, ks)
    \/ g.cmd = Inquiry /\ byte = Null /\ NothingFlies(M, ks)
    \/ g.cmd = Inquiry /\ byte = Pad /\ KeyFlies(M, ks, M.kbd.instant)
    \/ g.cmd \in {Inquiry, Instant} /\ KeyFlies(M, ks, byte)

\* An Inquiry that waits for a key.
Open(M, g, ks) == M.kbd.pending /\ g.cmd = Inquiry /\ NothingFlies(M, ks)

\* What a command that was seen has led to.
Held(M, g, ks) ==
    \/ M.kbd.have /\ Answer(M, g, ks, M.kbd.result)
    \/ ~M.kbd.have /\ Open(M, g, ks)

Quiet(M) == ~M.kbd.have /\ ~M.kbd.pending

AtIdle(M, g, ks) ==
    M.kbd.state = "idle" /\ Quiet(M) /\ Asked(M, g, ks) /\ M.via.mode \in {0, 3}

AtSent(M, g, ks) ==
    /\ M.via.mode = 7 /\ M.via.sr = g.cmd /\ M.via.icb2 = 0
    /\ \/ M.kbd.state = "idle" /\ "SR" \notin M.via.ifr /\ Quiet(M) /\ Asked(M, g, ks)
       \/ M.kbd.state = "rx_cmd" /\ "SR" \notin M.via.ifr /\ Asked(M, g, ks)
       \/ M.kbd.state = "got_cmd" /\ "SR" \in M.via.ifr /\ Held(M, g, ks)

AtListen(M, g, ks) ==
    /\ M.via.mode = 3 /\ M.via.icb2 = 1
    /\ \/ M.kbd.state = "rx_end" /\ "SR" \notin M.via.ifr /\ Held(M, g, ks)
       \/ /\ M.kbd.state = "idle" /\ "SR" \in M.via.ifr /\ Quiet(M)
          /\ Answer(M, g, ks, M.via.sr)
       \/ M.kbd.state = "idle" /\ "SR" \notin M.via.ifr /\ ~M.kbd.have /\ Open(M, g, ks)

\* The ROM's exchange with the keyboard, seen from both sides.
Exchange(M, g, ks) ==
    /\ "SR" \in M.via.ier
    /\ g.at = "idle" => AtIdle(M, g, ks)
    /\ g.at = "sent" => AtSent(M, g, ks)
    /\ g.at = "listen" => AtListen(M, g, ks)

\* The interrupt line of a VIA is that of its flags.
LineRight(v) == v.irq <=> (v.ifr \cap v.ier # {})

MachineInv(M, g, ks) ==
    /\ M \in Machine /\ LineRight(M.via)
    /\ Protocol(M.kbd) /\ RingHolds(M.kbd, ks.accepted)
    /\ g.who = "rom" => Exchange(M, g, ks)

Inv ==
    /\ Typed /\ ClockInv /\ ShotInv
    /\ MachineInv(m, guest, keys) /\ KeysInOrder

-----------------------------------------------------------------------------
(* Arithmetic *)

\* What the assumptions say of the parameters, one by one.
LEMMA Parameters ==
    /\ TimerMod \in Nat /\ TimerMod > 0 /\ Divider \in Nat /\ Divider > 0
    /\ VblCycles \in Nat /\ VblCycles > 0
    /\ MaxGap \in Nat /\ MaxGap > 0 /\ KbdStep \in Nat /\ KbdStep > 0
    /\ MaxEvents \in Nat /\ MaxEvents > 0
    /\ KbdDelay \in Nat /\ KbdDelay > 0 /\ KbdInquiry \in Nat /\ KbdInquiry > 0
    /\ Ring \in Nat /\ Ring > 1
    /\ Loads \subseteq Timer
<1>1. /\ TimerMod \in Nat \ {0} /\ Divider \in Nat \ {0} /\ VblCycles \in Nat \ {0}
      /\ MaxGap \in Nat \ {0} /\ KbdStep \in Nat \ {0} /\ MaxEvents \in Nat \ {0}
      /\ KbdDelay \in Nat \ {0} /\ KbdInquiry \in Nat \ {0} /\ Ring \in Nat \ {0, 1}
      /\ Loads \subseteq Timer
  BY ViaAssumption, KeyboardAssumption, MacIoAssumption
<1> QED BY <1>1

\* Quotient and remainder.
LEMMA DivMod ==
    ASSUME NEW a \in Int, NEW d \in Nat, d > 0
    PROVE  /\ a \div d \in Int /\ a % d \in 0 .. (d - 1)
           /\ a = d * (a \div d) + (a % d)
           /\ a >= 0 => a \div d \in Nat
OBVIOUS

\* A number below the modulus is its own remainder.
LEMMA SmallMod ==
    ASSUME NEW d \in Nat, d > 0, NEW a \in 0 .. (d - 1)
    PROVE  a % d = a /\ a \div d = 0
<1>1. /\ a \div d \in Nat /\ a % d \in 0 .. (d - 1) /\ a = d * (a \div d) + (a % d)
  BY DivMod
<1>2. PICK q \in Nat : q = a \div d
  BY <1>1
<1>3. CASE q = 0
  BY <1>1, <1>2, <1>3
<1>4. CASE q # 0
  <2>1. q >= 1 /\ d * q >= d
    BY <1>4
  <2> QED BY <1>1, <1>2, <2>1
<1> QED BY <1>3, <1>4

-----------------------------------------------------------------------------
(* The VIA *)

\* Registers that neither the timers nor the flags use.
SameShift(v, w) == w.sr = v.sr /\ w.icb2 = v.icb2 /\ w.mode = v.mode
SameTimers(v, w) ==
    /\ w.t1c = v.t1c /\ w.t1armed = v.t1armed /\ w.t2c = v.t2c /\ w.t2armed = v.t2armed
    /\ w.free = v.free
SameClock(v, w) ==
    w.gap = v.gap /\ w.lastZero = v.lastZero /\ w.rem = v.rem /\ w.vbl = v.vbl

\* Raising and lowering flags leaves the line right and the rest alone.
LEMMA FlagFacts ==
    ASSUME NEW v \in ViaState, NEW flags \in SUBSET Irqs
    PROVE  /\ \A w \in {Clear(v, flags), SetIrq(v, flags), RecalcIrq(v)} :
                 /\ w \in ViaState /\ LineRight(w) /\ w.ier = v.ier
                 /\ SameShift(v, w) /\ SameTimers(v, w) /\ SameClock(v, w)
           /\ Clear(v, flags).ifr = v.ifr \ flags
           /\ SetIrq(v, flags).ifr = v.ifr \cup flags
           /\ RecalcIrq(v).ifr = v.ifr
<1> USE DEF ViaState, LineRight, SameShift, SameTimers, SameClock
<1>1. ASSUME NEW u \in ViaState
      PROVE  /\ RecalcIrq(u) \in ViaState /\ LineRight(RecalcIrq(u))
             /\ RecalcIrq(u).ier = u.ier /\ RecalcIrq(u).ifr = u.ifr
             /\ SameShift(u, RecalcIrq(u)) /\ SameTimers(u, RecalcIrq(u))
             /\ SameClock(u, RecalcIrq(u))
  BY <1>1 DEF RecalcIrq
<1> DEFINE c == [v EXCEPT !.ifr = v.ifr \ flags]
           s == [v EXCEPT !.ifr = v.ifr \cup flags]
<1>2. /\ c \in ViaState /\ c.ifr = v.ifr \ flags /\ c.ier = v.ier
      /\ SameShift(v, c) /\ SameTimers(v, c) /\ SameClock(v, c)
  OBVIOUS
<1>3. /\ s \in ViaState /\ s.ifr = v.ifr \cup flags /\ s.ier = v.ier
      /\ SameShift(v, s) /\ SameTimers(v, s) /\ SameClock(v, s)
  OBVIOUS
<1>4. Clear(v, flags) = RecalcIrq(c) /\ SetIrq(v, flags) = RecalcIrq(s)
  BY DEF Clear, SetIrq
<1> HIDE DEF c, s
<1>5. /\ RecalcIrq(c) \in ViaState /\ LineRight(RecalcIrq(c))
      /\ RecalcIrq(c).ier = c.ier /\ RecalcIrq(c).ifr = c.ifr
      /\ SameShift(c, RecalcIrq(c)) /\ SameTimers(c, RecalcIrq(c)) /\ SameClock(c, RecalcIrq(c))
  BY <1>1, <1>2
<1>6. /\ RecalcIrq(s) \in ViaState /\ LineRight(RecalcIrq(s))
      /\ RecalcIrq(s).ier = s.ier /\ RecalcIrq(s).ifr = s.ifr
      /\ SameShift(s, RecalcIrq(s)) /\ SameTimers(s, RecalcIrq(s)) /\ SameClock(s, RecalcIrq(s))
  BY <1>1, <1>3
<1> HIDE DEF ViaState, LineRight
<1> QED BY <1>1, <1>2, <1>3, <1>4, <1>5, <1>6

\* Register reads of the guest clear flags and nothing else.
LEMMA ReadFacts ==
    ASSUME NEW v \in ViaState, NEW reg \in {"orb", "ora", "t1cl", "t2cl", "sr"}
    PROVE  LET w == ReadRegister(v, reg)
           IN  /\ w \in ViaState /\ LineRight(w) /\ w.ier = v.ier
               /\ SameShift(v, w) /\ SameTimers(v, w) /\ SameClock(v, w)
               /\ reg = "sr" => w.ifr = v.ifr \ {"SR"}
<1>1. /\ ClearedBy[reg] \in SUBSET Irqs
      /\ reg = "sr" => ClearedBy[reg] = {"SR"}
  BY DEF ClearedBy, Irqs
<1> QED BY <1>1, FlagFacts DEF ReadRegister

\* The part of the tick that one counter takes.
LEMMA TimerTicks ==
    ASSUME NEW v \in ViaState, NEW n \in Nat, n > 0
    PROVE  LET w == T2Tick(T1Tick(v, n), n)
           IN  /\ w \in ViaState /\ w.ier = v.ier /\ w.irq = v.irq /\ w.free = v.free
               /\ SameShift(v, w) /\ SameClock(v, w)
               /\ "SR" \in w.ifr <=> "SR" \in v.ifr
               /\ ~Raised(v, n) => w.ifr = v.ifr
               /\ v.t1armed /\ n < v.t1c => w.t1armed /\ w.t1c = v.t1c - n
               /\ v.t2armed /\ n < v.t2c => w.t2armed /\ w.t2c = v.t2c - n
               /\ ~v.free /\ n >= v.t1c => ~w.t1armed
               /\ ~v.t1armed => ~w.t1armed
               /\ n >= v.t2c \/ ~v.t2armed => ~w.t2armed
<1> USE Parameters
<1> DEFINE u == T1Tick(v, n)
           w == T2Tick(u, n)
<1>0. /\ v.t1c \in Timer /\ v.t1l \in Timer /\ v.t2c \in Timer /\ v.t1armed \in BOOLEAN
      /\ v.t2armed \in BOOLEAN /\ v.free \in BOOLEAN /\ v.ifr \subseteq Irqs
  BY DEF ViaState
<1>1. /\ u \in ViaState /\ u.ier = v.ier /\ u.irq = v.irq /\ u.free = v.free
      /\ SameShift(v, u) /\ SameClock(v, u) /\ u.t2c = v.t2c /\ u.t2armed = v.t2armed
      /\ u.ifr = IF n >= v.t1c /\ v.t1armed THEN v.ifr \cup {"T1"} ELSE v.ifr
      /\ n < v.t1c => u.t1c = v.t1c - n /\ (u.t1armed <=> v.t1armed)
      /\ n >= v.t1c => (u.t1armed <=> v.t1armed /\ v.free)
  <2>1. CASE n < v.t1c
    <3>1. v.t1c - n \in Timer
      BY <1>0, <2>1 DEF Timer
    <3>2. u = [v EXCEPT !.t1c = v.t1c - n]
      BY <1>0, <2>1 DEF T1Tick, Timer
    <3> HIDE DEF u
    <3> QED BY <1>0, <2>1, <3>1, <3>2 DEF ViaState, SameShift, SameClock, Timer
  <2>2. CASE n >= v.t1c
    <3> DEFINE flags == IF v.t1armed THEN v.ifr \cup {"T1"} ELSE v.ifr
               armed == v.t1armed /\ v.free
               count == IF v.t1l = 0 THEN 0 ELSE (n - v.t1c) % (v.t1l + 1)
    <3>1. flags \in SUBSET Irqs /\ armed \in BOOLEAN
      BY <1>0 DEF Irqs
    <3>2. count \in Timer
      <4>1. CASE v.t1l = 0
        BY <4>1 DEF Timer
      <4>2. CASE v.t1l # 0
        <5>1. n - v.t1c \in Int /\ v.t1l + 1 \in Nat /\ v.t1l + 1 > 0
          BY <1>0 DEF Timer
        <5>2. (n - v.t1c) % (v.t1l + 1) \in 0 .. ((v.t1l + 1) - 1)
          BY <5>1, DivMod
        <5> QED BY <1>0, <4>2, <5>2 DEF Timer
      <4> QED BY <4>1, <4>2
    <3>3. u = [v EXCEPT !.ifr = flags, !.t1armed = armed, !.t1c = count]
      BY <2>2 DEF T1Tick
    <3> HIDE DEF u, count, flags, armed
    <3>4. /\ u \in ViaState /\ u.ier = v.ier /\ u.irq = v.irq /\ u.free = v.free
          /\ SameShift(v, u) /\ SameClock(v, u) /\ u.t2c = v.t2c /\ u.t2armed = v.t2armed
          /\ u.ifr = flags /\ u.t1armed = armed
      BY <1>0, <3>1, <3>2, <3>3 DEF ViaState, SameShift, SameClock
    <3>5. /\ u.t1armed <=> v.t1armed /\ v.free
          /\ u.ifr = IF v.t1armed THEN v.ifr \cup {"T1"} ELSE v.ifr
      BY <1>0, <3>4 DEF armed, flags
    <3> QED BY <1>0, <2>2, <3>4, <3>5 DEF Timer
  <2> QED BY <1>0, <2>1, <2>2 DEF Timer
<1> HIDE DEF u
<1>2. /\ w \in ViaState /\ w.ier = u.ier /\ w.irq = u.irq /\ w.free = u.free
      /\ SameShift(u, w) /\ SameClock(u, w) /\ w.t1c = u.t1c /\ w.t1armed = u.t1armed
      /\ w.ifr = IF n >= u.t2c /\ u.t2armed THEN u.ifr \cup {"T2"} ELSE u.ifr
      /\ w.t2c = (u.t2c - n) % TimerMod
      /\ w.t2armed <=> u.t2armed /\ n < u.t2c
  <2> DEFINE fires == u.t2armed /\ n >= u.t2c
             flags == IF fires THEN u.ifr \cup {"T2"} ELSE u.ifr
             armed == u.t2armed /\ ~fires
             count == (u.t2c - n) % TimerMod
  <2>1. flags \in SUBSET Irqs /\ armed \in BOOLEAN /\ u.t2c \in Timer
    BY <1>1 DEF ViaState, Irqs
  <2>2. count \in Timer
    <3>1. u.t2c - n \in Int
      BY <2>1 DEF Timer
    <3> QED BY <3>1, DivMod DEF Timer
  <2>3. w = [u EXCEPT !.ifr = flags, !.t2armed = armed, !.t2c = count]
    BY DEF T2Tick
  <2> HIDE DEF w, count, flags, armed, fires
  <2>4. /\ w \in ViaState /\ w.ier = u.ier /\ w.irq = u.irq /\ w.free = u.free
        /\ SameShift(u, w) /\ SameClock(u, w) /\ w.t1c = u.t1c /\ w.t1armed = u.t1armed
        /\ w.ifr = flags /\ w.t2c = count /\ w.t2armed = armed
    BY <1>1, <2>1, <2>2, <2>3 DEF ViaState, SameShift, SameClock
  <2>5. u.t2armed \in BOOLEAN
    BY <1>1 DEF ViaState
  <2>6. (fires <=> u.t2armed /\ n >= u.t2c) /\ (armed <=> u.t2armed /\ n < u.t2c)
    BY <2>1, <2>5 DEF fires, armed, Timer
  <2>7. w.ifr = IF n >= u.t2c /\ u.t2armed THEN u.ifr \cup {"T2"} ELSE u.ifr
    BY <2>4, <2>6 DEF flags
  <2>8. w.t2armed <=> u.t2armed /\ n < u.t2c
    BY <2>4, <2>6
  <2> QED BY <2>4, <2>7, <2>8 DEF count
<1> HIDE DEF w
<1>3. v.t2armed /\ n < v.t2c => w.t2c = v.t2c - n
  <2> SUFFICES ASSUME n < v.t2c PROVE (v.t2c - n) % TimerMod = v.t2c - n
    BY <1>1, <1>2
  <2>1. v.t2c - n \in 0 .. (TimerMod - 1)
    BY <1>0 DEF Timer
  <2> QED BY <2>1, SmallMod
<1>4. /\ SameShift(v, w) /\ SameClock(v, w)
      /\ w \in ViaState /\ w.ier = v.ier /\ w.irq = v.irq /\ w.free = v.free
  BY <1>1, <1>2 DEF SameShift, SameClock
<1>5. /\ "SR" \in w.ifr <=> "SR" \in v.ifr
      /\ ~Raised(v, n) => w.ifr = v.ifr
  BY <1>1, <1>2 DEF Raised
<1>6. /\ v.t1armed /\ n < v.t1c => w.t1armed /\ w.t1c = v.t1c - n
      /\ v.t2armed /\ n < v.t2c => w.t2armed /\ w.t2c = v.t2c - n
      /\ ~v.free /\ n >= v.t1c => ~w.t1armed
      /\ ~v.t1armed => ~w.t1armed
      /\ n >= v.t2c \/ ~v.t2armed => ~w.t2armed
  BY <1>0, <1>1, <1>2, <1>3 DEF Timer
<1> QED BY <1>4, <1>5, <1>6 DEF w, u

\* The next vertical blank lies ahead after the tick.
LEMMA VblFacts ==
    ASSUME NEW v \in ViaState, v.vbl <= VblCycles
    PROVE  LET w == VblTick(v)
           IN  /\ w \in ViaState /\ w.ier = v.ier /\ w.irq = v.irq
               /\ SameShift(v, w) /\ SameTimers(v, w)
               /\ w.gap = v.gap /\ w.lastZero = v.lastZero /\ w.rem = v.rem
               /\ w.vbl \in 1 .. VblCycles
               /\ "SR" \in w.ifr <=> "SR" \in v.ifr
               /\ v.vbl > 0 => w.ifr = v.ifr
<1> USE Parameters
<1>0. v.vbl \in Int /\ v.ifr \subseteq Irqs
  BY DEF ViaState
<1>1. CASE v.vbl > 0
  BY <1>0, <1>1 DEF VblTick, SameShift, SameTimers
<1>2. CASE v.vbl <= 0
  <2> DEFINE late == v.vbl + VblCycles * ((-v.vbl) \div VblCycles + 1)
             flags == v.ifr \cup {"CA1"}
  <2>1. late \in 1 .. VblCycles
    <3>1. -v.vbl \in Int
      BY <1>0
    <3>2. PICK q \in Int, r \in 0 .. (VblCycles - 1) :
             q = (-v.vbl) \div VblCycles /\ -v.vbl = VblCycles * q + r
      BY <3>1, DivMod
    <3>3. VblCycles * (q + 1) = VblCycles * q + VblCycles /\ VblCycles * q \in Int
      OBVIOUS
    <3>4. late = v.vbl + VblCycles * (q + 1)
      BY <3>2
    <3>5. late = VblCycles - r
      <4> HIDE DEF late
      <4>1. PICK x \in Int : x = VblCycles * q
        BY <3>3
      <4>2. late = v.vbl + (x + VblCycles) /\ -v.vbl = x + r
        BY <3>2, <3>3, <3>4, <4>1
      <4> QED BY <1>0, <4>2
    <3> QED BY <3>2, <3>5
  <2>2. flags \in SUBSET Irqs /\ ("SR" \in flags <=> "SR" \in v.ifr)
    BY <1>0 DEF Irqs
  <2>3. VblTick(v) = [v EXCEPT !.ifr = flags, !.vbl = late]
    BY <1>0, <1>2 DEF VblTick
  <2> DEFINE w == VblTick(v)
  <2> HIDE DEF late, flags, w
  <2>4. w = [v EXCEPT !.ifr = flags, !.vbl = late]
    BY <2>3 DEF w
  <2>5. late \in Int
    BY <2>1
  <2>6. /\ w \in ViaState /\ w.ier = v.ier /\ w.irq = v.irq
        /\ SameShift(v, w) /\ SameTimers(v, w)
        /\ w.gap = v.gap /\ w.lastZero = v.lastZero /\ w.rem = v.rem
        /\ w.vbl = late /\ w.ifr = flags
    BY <2>2, <2>4, <2>5 DEF ViaState, SameShift, SameTimers
  <2> QED BY <1>0, <1>2, <2>1, <2>2, <2>6 DEF w
<1> QED BY <1>0, <1>1, <1>2

\* mac_mem_tick's part of the VIA: the flags, the counters and the clock after it.
LEMMA ViaTickFacts ==
    ASSUME NEW v \in ViaState, LineRight(v), v.vbl <= VblCycles, v.gap > 0
    PROVE  LET w == ViaTick(v)
               n == Counts(v)
           IN  /\ w \in ViaState /\ LineRight(w) /\ w.ier = v.ier /\ w.free = v.free
               /\ SameShift(v, w) /\ ("SR" \in w.ifr <=> "SR" \in v.ifr)
               /\ w.gap = 0 /\ ~w.lastZero /\ w.vbl \in 1 .. VblCycles
               /\ n \in Nat /\ v.rem + ElapsedCycles(v) = Divider * n + w.rem
               /\ v.lastZero => n = 0
               /\ n = 0 => SameTimers(v, w)
               /\ n > 0 =>
                     /\ v.t1armed /\ n < v.t1c => w.t1armed /\ w.t1c = v.t1c - n
                     /\ v.t2armed /\ n < v.t2c => w.t2armed /\ w.t2c = v.t2c - n
                     /\ ~v.free /\ n >= v.t1c => ~w.t1armed
                     /\ ~v.t1armed => ~w.t1armed
                     /\ n >= v.t2c \/ ~v.t2armed => ~w.t2armed
<1> USE Parameters
<1> DEFINE n == Counts(v)
           a == IF n > 0 THEN T2Tick(T1Tick(v, n), n) ELSE v
           b == VblTick(a)
           c == IF Raised(v, n) \/ v.vbl <= 0 THEN RecalcIrq(b) ELSE b
           w == Stamp(c)
           e == v.rem + ElapsedCycles(v)
<1>0. /\ v.rem \in 0 .. (Divider - 1) /\ v.gap \in Nat /\ v.lastZero \in BOOLEAN
      /\ v.ifr \subseteq Irqs /\ v.ier \subseteq Irqs /\ v.vbl \in Int
  BY DEF ViaState
<1>1. e \in Nat /\ (v.lastZero => e = v.rem)
  BY <1>0 DEF ElapsedCycles
<1>2. n = e \div Divider
  BY DEF Counts
<1>3. n \in Nat /\ e % Divider \in 0 .. (Divider - 1) /\ e = Divider * n + (e % Divider)
  <2> HIDE DEF n, e
  <2>1. e \in Int /\ e >= 0
    BY <1>1
  <2> QED BY <1>2, <2>1, DivMod
<1>4. v.lastZero => n = 0
  BY <1>0, <1>1, <1>2, SmallMod
<1>5. ViaTick(v) = w
  BY DEF ViaTick
<1> HIDE DEF n, e
<1>6. /\ a \in ViaState /\ a.ier = v.ier /\ a.irq = v.irq /\ a.free = v.free
      /\ SameShift(v, a) /\ SameClock(v, a)
      /\ "SR" \in a.ifr <=> "SR" \in v.ifr
      /\ ~Raised(v, n) => a.ifr = v.ifr
      /\ n = 0 => a = v
      /\ n > 0 =>
            /\ v.t1armed /\ n < v.t1c => a.t1armed /\ a.t1c = v.t1c - n
            /\ v.t2armed /\ n < v.t2c => a.t2armed /\ a.t2c = v.t2c - n
            /\ ~v.free /\ n >= v.t1c => ~a.t1armed
            /\ ~v.t1armed => ~a.t1armed
            /\ n >= v.t2c \/ ~v.t2armed => ~a.t2armed
  <2>1. CASE n > 0
    <3> DEFINE t == T2Tick(T1Tick(v, n), n)
    <3>1. a = t
      BY <2>1
    <3>2. /\ t \in ViaState /\ t.ier = v.ier /\ t.irq = v.irq /\ t.free = v.free
          /\ SameShift(v, t) /\ SameClock(v, t)
          /\ "SR" \in t.ifr <=> "SR" \in v.ifr
          /\ ~Raised(v, n) => t.ifr = v.ifr
          /\ v.t1armed /\ n < v.t1c => t.t1armed /\ t.t1c = v.t1c - n
          /\ v.t2armed /\ n < v.t2c => t.t2armed /\ t.t2c = v.t2c - n
          /\ ~v.free /\ n >= v.t1c => ~t.t1armed
          /\ ~v.t1armed => ~t.t1armed
          /\ n >= v.t2c \/ ~v.t2armed => ~t.t2armed
      BY <1>3, <2>1, TimerTicks
    <3> HIDE DEF a, t
    <3> QED BY <1>3, <2>1, <3>1, <3>2
  <2>2. CASE n = 0
    <3>1. a = v
      BY <2>2
    <3> HIDE DEF a
    <3> QED BY <2>2, <3>1 DEF SameShift, SameClock
  <2> QED BY <1>3, <2>1, <2>2
<1> HIDE DEF a
<1>7. /\ b \in ViaState /\ b.ier = a.ier /\ b.irq = a.irq
      /\ SameShift(a, b) /\ SameTimers(a, b)
      /\ b.gap = a.gap /\ b.lastZero = a.lastZero /\ b.rem = a.rem
      /\ b.vbl \in 1 .. VblCycles
      /\ "SR" \in b.ifr <=> "SR" \in a.ifr
      /\ a.vbl > 0 => b.ifr = a.ifr
  <2>1. a.vbl <= VblCycles
    BY <1>6 DEF SameClock
  <2> QED BY <1>6, <2>1, VblFacts
<1> HIDE DEF b
<1>8. /\ c \in ViaState /\ c.ier = b.ier /\ c.ifr = b.ifr /\ LineRight(c)
      /\ SameShift(b, c) /\ SameTimers(b, c) /\ SameClock(b, c)
  <2>1. CASE Raised(v, n) \/ v.vbl <= 0
    <3>1. c = RecalcIrq(b)
      BY <2>1
    <3> HIDE DEF c
    <3>2. {} \in SUBSET Irqs
      OBVIOUS
    <3> QED BY <1>7, <3>1, <3>2, FlagFacts
  <2>2. CASE ~(Raised(v, n) \/ v.vbl <= 0)
    <3>1. c = b
      BY <2>2
    <3> HIDE DEF c
    <3>2. b.ifr = v.ifr /\ b.ier = v.ier /\ b.irq = v.irq
      BY <1>0, <1>6, <1>7, <2>2 DEF SameClock
    <3>3. LineRight(b)
      BY <3>2 DEF LineRight
    <3> QED BY <1>7, <3>1, <3>3 DEF SameShift, SameTimers, SameClock
  <2> QED BY <2>1, <2>2
<1> HIDE DEF c
<1>9. /\ c.gap = v.gap /\ c.lastZero = v.lastZero /\ c.rem = v.rem
  BY <1>6, <1>7, <1>8 DEF SameClock
<1>10. c.rem + ElapsedCycles(c) = e
  BY <1>9 DEF ElapsedCycles, e
<1>11. /\ w \in ViaState /\ w.ier = c.ier /\ w.ifr = c.ifr /\ w.irq = c.irq
       /\ SameShift(c, w) /\ SameTimers(c, w) /\ w.gap = 0 /\ ~w.lastZero
       /\ w.vbl = c.vbl /\ w.rem = e % Divider
  <2>1. w = [c EXCEPT !.gap = 0, !.lastZero = FALSE, !.rem = e % Divider]
    <3>1. (c.lastZero /\ c.gap = 0) = FALSE
      BY <1>0, <1>9
    <3> QED BY <1>10, <3>1 DEF Stamp
  <2> HIDE DEF w
  <2> QED BY <1>3, <1>8, <2>1 DEF ViaState, SameShift, SameTimers
<1> HIDE DEF w
<1>12. LineRight(w) /\ SameShift(v, w) /\ SameTimers(a, w)
  BY <1>6, <1>7, <1>8, <1>11 DEF LineRight, SameShift, SameTimers
<1>13. w.ier = v.ier /\ w.free = v.free /\ ("SR" \in w.ifr <=> "SR" \in v.ifr)
  BY <1>6, <1>7, <1>8, <1>11 DEF SameTimers
<1>14. w.vbl \in 1 .. VblCycles
  BY <1>7, <1>8, <1>11 DEF SameClock
<1>15. e = Divider * n + w.rem
  BY <1>3, <1>11
<1>16. n = 0 => SameTimers(v, w)
  BY <1>6, <1>12
<1>17. n > 0 =>
         /\ v.t1armed /\ n < v.t1c => w.t1armed /\ w.t1c = v.t1c - n
         /\ v.t2armed /\ n < v.t2c => w.t2armed /\ w.t2c = v.t2c - n
         /\ ~v.free /\ n >= v.t1c => ~w.t1armed
         /\ ~v.t1armed => ~w.t1armed
         /\ n >= v.t2c \/ ~v.t2armed => ~w.t2armed
  BY <1>6, <1>12 DEF SameTimers
<1> QED BY <1>3, <1>4, <1>5, <1>11, <1>12, <1>13, <1>14, <1>15, <1>16, <1>17 DEF n, e

-----------------------------------------------------------------------------
(* The keyboard's functions *)

\* What neither the keyboard nor the shift register touches.
SameRest(M, R) ==
    /\ R.via.ier = M.via.ier
    /\ SameTimers(M.via, R.via) /\ SameClock(M.via, R.via)

SameRing(k, l) == l.keyq = k.keyq /\ l.head = k.head /\ l.tail = k.tail

\* Every byte of the protocol is one.
LEMMA ByteFacts ==
    /\ {Zero, Inquiry, Instant, Model, Test, Odd, Null, Pad, ModelId, Ack} \subseteq Bytes
    /\ \A i \in 0 .. MaxEvents : Key(i) \in Bytes
<1>1. Key(0) = Zero
  BY DEF Key, Zero
<1>2. \A i \in 0 .. MaxEvents : i = 0 \/ i \in 1 .. MaxEvents
  BY Parameters
<1> QED BY <1>1, <1>2 DEF Bytes

\* Putting a byte into the shift register for the guest.
LEMMA ShiftInFacts ==
    ASSUME NEW M \in Machine, NEW byte \in Bytes
    PROVE  LET R == ShiftInData(M, byte)
           IN  /\ R \in Machine /\ LineRight(R.via) /\ SameRest(M, R)
               /\ R.kbd = M.kbd /\ R.via.sr = byte /\ R.via.icb2 = 1
               /\ R.via.mode = M.via.mode /\ "SR" \in R.via.ifr
<1> DEFINE v == [M.via EXCEPT !.sr = byte, !.icb2 = 1]
           w == SetIrq(v, {"SR", "CB1"})
           R == ShiftInData(M, byte)
<1>1. /\ v \in ViaState /\ v.sr = byte /\ v.icb2 = 1 /\ v.mode = M.via.mode
      /\ v.ier = M.via.ier /\ SameTimers(M.via, v) /\ SameClock(M.via, v)
  <2>1. M.via \in ViaState /\ 1 \in 0 .. 1
    BY DEF Machine
  <2> QED BY <2>1 DEF ViaState, SameTimers, SameClock
<1>2. {"SR", "CB1"} \in SUBSET Irqs
  BY DEF Irqs
<1>3. R = [M EXCEPT !.via = w]
  BY DEF ShiftInData
<1> HIDE DEF v
<1>4. /\ w \in ViaState /\ LineRight(w) /\ w.ier = v.ier /\ w.ifr = v.ifr \cup {"SR", "CB1"}
      /\ SameShift(v, w) /\ SameTimers(v, w) /\ SameClock(v, w)
  BY <1>1, <1>2, FlagFacts
<1> HIDE DEF w, R
<1>5. R \in Machine /\ R.via = w /\ R.kbd = M.kbd
  BY <1>3, <1>4 DEF Machine
<1>6. SameRest(M, R)
  BY <1>1, <1>4, <1>5 DEF SameRest, SameTimers, SameClock
<1>7. R.via.sr = byte /\ R.via.icb2 = 1 /\ R.via.mode = M.via.mode /\ "SR" \in R.via.ifr
  BY <1>1, <1>4, <1>5 DEF SameShift
<1> QED BY <1>4, <1>5, <1>6, <1>7 DEF R

\* Taking the byte that the guest has written.
LEMMA ShiftOutFacts ==
    ASSUME NEW M \in Machine
    PROVE  LET R == ShiftOutData(M)
           IN  /\ R \in Machine /\ LineRight(R.via) /\ SameRest(M, R)
               /\ R.kbd = M.kbd /\ R.via.sr = M.via.sr /\ R.via.icb2 = M.via.sr % 2
               /\ R.via.mode = M.via.mode /\ "SR" \in R.via.ifr
<1> DEFINE v == M.via
           u == SetIrq(v, {"SR", "CB1"})
           w == [u EXCEPT !.icb2 = v.sr % 2]
           R == ShiftOutData(M)
<1>1. {"SR", "CB1"} \in SUBSET Irqs /\ v \in ViaState
  BY DEF Irqs, Machine
<1>2. R = [M EXCEPT !.via = w]
  BY DEF ShiftOutData
<1>3. /\ u \in ViaState /\ LineRight(u) /\ u.ier = v.ier /\ u.ifr = v.ifr \cup {"SR", "CB1"}
      /\ SameShift(v, u) /\ SameTimers(v, u) /\ SameClock(v, u)
  BY <1>1, FlagFacts
<1>4. v.sr % 2 \in 0 .. 1
  <2>1. v.sr \in Int
    BY <1>1, Parameters DEF ViaState, Bytes, Zero, Inquiry, Instant, Model, Test, Odd, Null,
       Pad, ModelId, Ack, Key
  <2> QED BY <2>1
<1> HIDE DEF u, v
<1>5. /\ w \in ViaState /\ w.irq = u.irq /\ w.ier = u.ier /\ w.ifr = u.ifr /\ w.sr = u.sr
      /\ w.icb2 = v.sr % 2 /\ w.mode = u.mode /\ SameTimers(u, w) /\ SameClock(u, w)
  BY <1>3, <1>4 DEF ViaState, SameTimers, SameClock
<1> HIDE DEF w, R
<1>6. R \in Machine /\ R.via = w /\ R.kbd = M.kbd
  BY <1>2, <1>5 DEF Machine
<1>7. LineRight(w)
  BY <1>3, <1>5 DEF LineRight
<1>8. SameRest(M, R)
  BY <1>3, <1>5, <1>6 DEF SameRest, SameTimers, SameClock, v
<1>9. R.via.sr = M.via.sr /\ R.via.mode = M.via.mode /\ "SR" \in R.via.ifr
  BY <1>3, <1>5, <1>6 DEF SameShift, v
<1> QED BY <1>5, <1>6, <1>7, <1>8, <1>9 DEF R, v

\* A reply goes out at once or is held back.
LEMMA GotDataFacts ==
    ASSUME NEW M \in Machine, LineRight(M.via), NEW byte \in Bytes
    PROVE  LET R == GotKeyboardData(M, byte)
           IN  /\ R \in Machine /\ LineRight(R.via) /\ SameRest(M, R)
               /\ R.via.mode = M.via.mode
               /\ M.kbd.state = "idle" =>
                     R.kbd = M.kbd /\ R.via.sr = byte /\ R.via.icb2 = 1 /\ "SR" \in R.via.ifr
               /\ M.kbd.state # "idle" =>
                     R.via = M.via /\ R.kbd = [M.kbd EXCEPT !.have = TRUE, !.result = byte]
<1>1. CASE M.kbd.state = "idle"
  BY <1>1, ShiftInFacts DEF GotKeyboardData
<1>2. CASE M.kbd.state # "idle"
  <2> DEFINE k == [M.kbd EXCEPT !.have = TRUE, !.result = byte]
             R == GotKeyboardData(M, byte)
  <2>1. k \in KbdState
    BY DEF Machine, KbdState
  <2>2. R = [M EXCEPT !.kbd = k]
    BY <1>2 DEF GotKeyboardData, Machine, KbdState
  <2> HIDE DEF k, R
  <2>3. R \in Machine /\ R.via = M.via /\ R.kbd = k
    BY <2>1, <2>2 DEF Machine
  <2> QED BY <1>2, <2>3 DEF R, k, SameRest, SameTimers, SameClock
<1> QED BY <1>1, <1>2

-----------------------------------------------------------------------------
(* The ring of key events *)

\* The next slot, without the remainder.
LEMMA RingNextFacts ==
    ASSUME NEW i \in Slots
    PROVE  /\ RingNext(i) = IF i + 1 = Ring THEN 0 ELSE i + 1
           /\ RingNext(i) \in Slots /\ RingNext(i) # i
<1> USE Parameters
<1>1. i \in Nat /\ i < Ring
  BY DEF Slots
<1>2. CASE i + 1 = Ring
  <2>1. Ring % Ring = 0
    <3>1. PICK q \in Int, r \in 0 .. (Ring - 1) : r = Ring % Ring /\ Ring = Ring * q + r
      BY DivMod
    <3>2. CASE q <= 0
      <4>1. Ring * q <= 0
        BY <3>2
      <4> QED BY <3>1, <4>1
    <3>3. CASE q >= 2
      <4>1. Ring * q >= Ring + Ring
        BY <3>3
      <4> QED BY <3>1, <4>1
    <3>4. CASE q = 1
      BY <3>1, <3>4
    <3> QED BY <3>1, <3>2, <3>3, <3>4
  <2> QED BY <1>1, <1>2, <2>1 DEF RingNext, Slots
<1>3. CASE i + 1 # Ring
  <2>1. i + 1 \in 0 .. (Ring - 1)
    BY <1>1, <1>3
  <2>2. (i + 1) % Ring = i + 1
    BY <2>1, SmallMod
  <2> QED BY <1>1, <1>3, <2>1, <2>2 DEF RingNext, Slots
<1> QED BY <1>2, <1>3

\* Distances from the head are those of a ring.
LEMMA BehindFacts ==
    ASSUME NEW k, k.head \in Slots, NEW i \in Slots
    PROVE  Behind(k, i) \in Slots /\ (Behind(k, i) = 0 <=> i = k.head)
BY Parameters DEF Behind, Slots

\* Taking the first event.
LEMMA RingPop ==
    ASSUME NEW k, NEW l, NEW n \in Nat, k.head \in Slots, k.tail \in Slots,
           RingHolds(k, n), Waiting(k),
           l.keyq = k.keyq, l.tail = k.tail, l.head = RingNext(k.head)
    PROVE  /\ Count(k) \in Nat /\ Count(k) > 0 /\ Count(l) = Count(k) - 1
           /\ k.keyq[k.head].id = n - Count(k) + 1
           /\ RingHolds(l, n)
<1> USE Parameters
<1>1. /\ l.head = IF k.head + 1 = Ring THEN 0 ELSE k.head + 1
      /\ l.head \in Slots
  BY RingNextFacts
<1>2. /\ Count(k) \in Slots /\ Count(k) # 0
  BY BehindFacts DEF Count, Waiting
<1>3. Behind(k, k.head) = 0
  BY BehindFacts
<1>4. \A i \in Slots : i # k.head => Behind(l, i) = Behind(k, i) - 1
  BY <1>1 DEF Behind, Slots
<1>5. Behind(l, k.head) = Ring - 1
  BY <1>1 DEF Behind, Slots
<1>6. Count(l) = Count(k) - 1
  BY <1>4 DEF Count, Waiting
<1>7. k.keyq[k.head].id = n - Count(k) + 1
  BY <1>2, <1>3 DEF RingHolds, Slots
<1>8. Count(l) <= n
  BY <1>2, <1>6 DEF RingHolds, Slots
<1>9. ASSUME NEW i \in Slots, Behind(l, i) < Count(l)
      PROVE  l.keyq[i].id = n - Count(l) + Behind(l, i) + 1
  <2>1. i # k.head
    BY <1>2, <1>5, <1>6, <1>9 DEF Slots
  <2>2. Behind(l, i) = Behind(k, i) - 1 /\ Behind(k, i) \in Slots
    BY <1>4, <2>1, BehindFacts
  <2>3. Behind(k, i) < Count(k)
    BY <1>2, <1>6, <1>9, <2>2 DEF Slots
  <2>4. k.keyq[i].id = n - Count(k) + Behind(k, i) + 1
    BY <2>3 DEF RingHolds
  <2> QED BY <1>2, <1>6, <2>2, <2>4 DEF Slots
<1> QED BY <1>2, <1>6, <1>7, <1>8, <1>9 DEF RingHolds, Slots

\* Adding an event behind the last one.
LEMMA RingPush ==
    ASSUME NEW k \in KbdState, NEW l, NEW n \in Nat, NEW e \in Event,
           RingHolds(k, n), RingNext(k.tail) # k.head, e.id = n + 1,
           l.keyq = [k.keyq EXCEPT ![k.tail] = e], l.tail = RingNext(k.tail),
           l.head = k.head
    PROVE  RingHolds(l, n + 1) /\ Count(l) = Count(k) + 1 /\ Count(k) \in Nat
<1> USE Parameters
<1>0. k.head \in Slots /\ k.tail \in Slots /\ k.keyq \in [Slots -> Event]
  BY DEF KbdState
<1>1. /\ l.tail = IF k.tail + 1 = Ring THEN 0 ELSE k.tail + 1
      /\ l.tail \in Slots
  BY <1>0, RingNextFacts
<1>2. \A i \in Slots : Behind(l, i) = Behind(k, i) /\ Behind(k, i) \in Slots
  BY <1>0, BehindFacts DEF Behind
<1>3. Count(l) = Count(k) + 1
  <2>1. Behind(k, l.tail) = Behind(k, k.tail) + 1
    BY <1>0, <1>1 DEF Behind, Slots
  <2> QED BY <1>1, <1>2, <2>1 DEF Count
<1>4. Count(k) \in Slots
  BY <1>0, <1>2 DEF Count
<1>5. ASSUME NEW i \in Slots, Behind(l, i) < Count(l)
      PROVE  l.keyq[i].id = (n + 1) - Count(l) + Behind(l, i) + 1
  <2>1. CASE i = k.tail
    <3>1. l.keyq[i] = e
      BY <1>0, <2>1
    <3>2. Behind(l, i) = Count(k)
      BY <1>2, <2>1 DEF Count
    <3> QED BY <1>3, <1>4, <3>1, <3>2 DEF Slots
  <2>2. CASE i # k.tail
    <3>1. l.keyq[i] = k.keyq[i]
      BY <1>0, <2>2
    <3>2. Behind(k, i) # Count(k)
      BY <1>0, <2>2 DEF Behind, Count, Slots
    <3>3. Behind(k, i) < Count(k)
      BY <1>2, <1>3, <1>4, <1>5, <3>2 DEF Slots
    <3>4. k.keyq[i].id = n - Count(k) + Behind(k, i) + 1
      BY <3>3 DEF RingHolds
    <3> QED BY <1>2, <1>3, <1>4, <3>1, <3>4 DEF Slots
  <2> QED BY <2>1, <2>2
<1>6. Count(l) <= n + 1
  BY <1>3, <1>4 DEF RingHolds, Slots
<1> QED BY <1>3, <1>4, <1>5, <1>6 DEF RingHolds, Slots

\* A ring that is left alone.
LEMMA RingKept ==
    ASSUME NEW k, NEW l, NEW n, SameRing(k, l), RingHolds(k, n)
    PROVE  RingHolds(l, n) /\ Count(l) = Count(k)
BY DEF SameRing, RingHolds, Count, Behind

-----------------------------------------------------------------------------
(* The keyboard's timed actions *)

\* The reply to an Inquiry that finds an event.
EventByte(k) == LET e == k.keyq[k.head] IN IF e.two THEN Pad ELSE Key(e.id)

\* A change of the keyboard's record gives a machine.
LEMMA KbdChange ==
    ASSUME NEW M \in Machine, NEW k \in KbdState
    PROVE  LET R == [M EXCEPT !.kbd = k]
           IN  R \in Machine /\ R.via = M.via /\ R.kbd = k /\ SameRest(M, R)
BY DEF Machine, SameRest, SameTimers, SameClock

\* FinishInquiry pops the first event and replies with it, or with its first half.
LEMMA FinishFacts ==
    ASSUME NEW M \in Machine, LineRight(M.via)
    PROVE  LET R == FinishInquiry(M)
               e == M.kbd.keyq[M.kbd.head]
           IN  /\ R \in Machine /\ LineRight(R.via) /\ SameRest(M, R)
               /\ R.via.mode = M.via.mode
               /\ R.kbd.keyq = M.kbd.keyq /\ R.kbd.tail = M.kbd.tail
               /\ R.kbd.head = RingNext(M.kbd.head)
               /\ R.kbd.state = M.kbd.state /\ R.kbd.pending = M.kbd.pending
               /\ R.kbd.action = M.kbd.action
               /\ e.two => R.kbd.instant = Key(e.id)
               /\ M.kbd.state = "idle" =>
                     /\ R.kbd.have = M.kbd.have
                     /\ R.via.sr = EventByte(M.kbd) /\ R.via.icb2 = 1 /\ "SR" \in R.via.ifr
               /\ M.kbd.state # "idle" =>
                     R.via = M.via /\ R.kbd.have /\ R.kbd.result = EventByte(M.kbd)
<1> DEFINE e == M.kbd.keyq[M.kbd.head]
           k == IF e.two THEN [M.kbd EXCEPT !.head = RingNext(M.kbd.head),
                                            !.instant = Key(e.id)]
                ELSE [M.kbd EXCEPT !.head = RingNext(M.kbd.head)]
           P == [M EXCEPT !.kbd = k]
           byte == EventByte(M.kbd)
           R == GotKeyboardData(P, byte)
<1>0. M.kbd \in KbdState /\ M.kbd.head \in Slots
  BY DEF Machine, KbdState
<1>1. e \in Event /\ RingNext(M.kbd.head) \in Slots
  BY <1>0, RingNextFacts DEF KbdState
<1>2. Key(e.id) \in Bytes /\ byte \in Bytes /\ e.two \in BOOLEAN
  BY <1>1, ByteFacts DEF Event, EventByte
<1>3. FinishInquiry(M) = R
  <2>1. CASE e.two
    <3>1. P = [[M EXCEPT !.kbd.head = RingNext(M.kbd.head)] EXCEPT !.kbd.instant = Key(e.id)]
      BY <2>1 DEF Machine, KbdState
    <3> QED BY <2>1, <3>1 DEF FinishInquiry, EventByte
  <2>2. CASE ~e.two
    <3>1. P = [M EXCEPT !.kbd.head = RingNext(M.kbd.head)]
      BY <2>2 DEF Machine, KbdState
    <3> QED BY <2>2, <3>1 DEF FinishInquiry, EventByte
  <2> QED BY <2>1, <2>2
<1>4. /\ k \in KbdState
      /\ k.keyq = M.kbd.keyq /\ k.tail = M.kbd.tail /\ k.head = RingNext(M.kbd.head)
      /\ k.state = M.kbd.state /\ k.pending = M.kbd.pending
      /\ k.action = M.kbd.action /\ k.have = M.kbd.have
      /\ e.two => k.instant = Key(e.id)
  <2> HIDE DEF e
  <2>1. CASE e.two
    BY <1>0, <1>1, <1>2, <2>1 DEF KbdState
  <2>2. CASE ~e.two
    BY <1>0, <1>1, <1>2, <2>2 DEF KbdState
  <2> QED BY <2>1, <2>2
<1> HIDE DEF e, k, byte
<1>5. P \in Machine /\ P.via = M.via /\ P.kbd = k /\ SameRest(M, P)
  BY <1>4, KbdChange
<1> HIDE DEF P
<1>6. /\ R \in Machine /\ LineRight(R.via) /\ SameRest(P, R)
      /\ R.via.mode = P.via.mode
      /\ k.state = "idle" =>
            R.kbd = k /\ R.via.sr = byte /\ R.via.icb2 = 1 /\ "SR" \in R.via.ifr
      /\ k.state # "idle" =>
            R.via = M.via /\ R.kbd = [k EXCEPT !.have = TRUE, !.result = byte]
  BY <1>2, <1>5, GotDataFacts
<1> HIDE DEF R
<1>7. SameRest(M, R) /\ R.via.mode = M.via.mode
  BY <1>5, <1>6 DEF SameRest, SameTimers, SameClock
<1>8. /\ R.kbd.keyq = k.keyq /\ R.kbd.tail = k.tail /\ R.kbd.head = k.head
      /\ R.kbd.state = k.state /\ R.kbd.pending = k.pending
      /\ R.kbd.action = k.action /\ R.kbd.instant = k.instant
      /\ k.state = "idle" => R.kbd.have = k.have
      /\ k.state # "idle" => R.kbd.have /\ R.kbd.result = byte
  BY <1>4, <1>6 DEF KbdState
<1> QED BY <1>3, <1>4, <1>6, <1>7, <1>8 DEF e, byte

\* The event that is popped is the next one the guest is to read.
LEMMA PoppedAnswers ==
    ASSUME NEW M \in Machine, NEW R, NEW g, NEW ks \in KeyCounts,
           RingHolds(M.kbd, ks.accepted), Waiting(M.kbd),
           R.kbd.keyq = M.kbd.keyq, R.kbd.tail = M.kbd.tail,
           R.kbd.head = RingNext(M.kbd.head),
           M.kbd.keyq[M.kbd.head].two => R.kbd.instant = Key(M.kbd.keyq[M.kbd.head].id)
    PROVE  /\ RingHolds(R.kbd, ks.accepted)
           /\ NothingFlies(M, ks) /\ g.cmd = Inquiry =>
                 Answer(R, g, ks, EventByte(M.kbd))
<1>0. /\ M.kbd.head \in Slots /\ M.kbd.tail \in Slots /\ ks.accepted \in Nat
      /\ ks.bytes \in Nat
  BY DEF Machine, KbdState, KeyCounts
<1> DEFINE e == M.kbd.keyq[M.kbd.head]
<1>1. /\ Count(M.kbd) \in Nat /\ Count(R.kbd) = Count(M.kbd) - 1
      /\ e.id = ks.accepted - Count(M.kbd) + 1
      /\ RingHolds(R.kbd, ks.accepted)
  BY <1>0, RingPop
<1>2. ASSUME NothingFlies(M, ks), g.cmd = Inquiry
      PROVE  Answer(R, g, ks, EventByte(M.kbd))
  <2>1. Taken(R, ks) = ks.bytes + 1 /\ e.id = ks.bytes + 1
    BY <1>0, <1>1, <1>2 DEF NothingFlies, Taken
  <2>2. KeyFlies(R, ks, Key(e.id))
    BY <2>1 DEF KeyFlies
  <2>3. CASE e.two
    BY <1>2, <2>2, <2>3 DEF Answer, EventByte
  <2>4. CASE ~e.two
    BY <1>2, <2>2, <2>4 DEF Answer, EventByte
  <2> QED BY <2>3, <2>4
<1> QED BY <1>1, <1>2

\* A reply to an open Inquiry keeps the invariant, sent at once or held back.
LEMMA DeliverOk ==
    ASSUME NEW M, NEW R \in Machine, NEW g \in Guests, NEW ks, NEW byte,
           MachineInv(M, g, ks), M.kbd.pending,
           LineRight(R.via), SameRest(M, R), R.via.mode = M.via.mode,
           ~R.kbd.pending, R.kbd.state = M.kbd.state, R.kbd.action = M.kbd.action,
           RingHolds(R.kbd, ks.accepted),
           M.kbd.state = "idle" =>
               /\ R.kbd.have = M.kbd.have
               /\ R.via.sr = byte /\ R.via.icb2 = 1 /\ "SR" \in R.via.ifr,
           M.kbd.state # "idle" => R.via = M.via /\ R.kbd.have /\ R.kbd.result = byte,
           Open(M, g, ks) => Answer(R, g, ks, byte)
    PROVE  MachineInv(R, g, ks)
<1>1. /\ Protocol(M.kbd) /\ ~M.kbd.have /\ M.kbd.state # "rx_cmd"
      /\ M.kbd.state \in {"idle", "rx_cmd", "got_cmd", "rx_end"}
  BY DEF MachineInv, Protocol, Machine, KbdState
<1>2. Protocol(R.kbd)
  BY <1>1 DEF Protocol
<1>3. ASSUME g.who = "rom" PROVE Exchange(R, g, ks)
  <2>1. Exchange(M, g, ks) /\ "SR" \in R.via.ier
    BY <1>3 DEF MachineInv, Exchange, SameRest
  <2>2. g.at # "idle"
    BY <2>1 DEF Exchange, AtIdle, Quiet
  <2>3. CASE g.at = "sent"
    <3>1. M.kbd.state = "got_cmd" /\ Open(M, g, ks) /\ AtSent(M, g, ks)
      BY <1>1, <2>1, <2>3 DEF Exchange, AtSent, Quiet, Held
    <3>2. AtSent(R, g, ks)
      BY <3>1 DEF AtSent, Held
    <3> QED BY <2>1, <2>3, <3>2 DEF Exchange
  <2>4. CASE g.at = "listen"
    <3>1. AtListen(M, g, ks) /\ Open(M, g, ks)
      BY <1>1, <2>1, <2>4 DEF Exchange, AtListen, Quiet, Held
    <3>2. CASE M.kbd.state = "idle"
      <4>1. AtListen(R, g, ks)
        BY <1>1, <3>1, <3>2 DEF AtListen, Quiet
      <4> QED BY <2>1, <2>4, <4>1 DEF Exchange
    <3>3. CASE M.kbd.state # "idle"
      <4>1. AtListen(R, g, ks)
        BY <1>1, <3>1, <3>3 DEF AtListen, Held
      <4> QED BY <2>1, <2>4, <4>1 DEF Exchange
    <3> QED BY <3>2, <3>3
  <2> QED BY <2>2, <2>3, <2>4 DEF Guests
<1> QED BY <1>2, <1>3 DEF MachineInv

\* The part of KbdTick that looks after an open Inquiry.
Inquire(M) ==
    LET done == [M EXCEPT !.kbd.pending = FALSE]
    IN  IF ~M.kbd.pending THEN M
        ELSE IF Waiting(M.kbd) THEN FinishInquiry(done)
        ELSE IF M.kbd.inquiryLeft = 0 THEN GotKeyboardData(done, Null) ELSE M

\* It keeps the invariant.
LEMMA InquireOk ==
    ASSUME NEW M, NEW g \in Guests, NEW ks \in KeyCounts, MachineInv(M, g, ks)
    PROVE  MachineInv(Inquire(M), g, ks) /\ SameRest(M, Inquire(M))
<1>0. M \in Machine /\ M.kbd \in KbdState /\ LineRight(M.via) /\ RingHolds(M.kbd, ks.accepted)
  BY DEF MachineInv, Machine
<1>1. CASE Inquire(M) = M
  BY <1>1 DEF SameRest, SameTimers, SameClock
<1>2. CASE Inquire(M) # M
  <2> DEFINE k == [M.kbd EXCEPT !.pending = FALSE]
             D == [M EXCEPT !.kbd = k]
  <2>1. /\ k \in KbdState /\ ~k.pending /\ SameRing(M.kbd, k) /\ k.state = M.kbd.state
        /\ k.have = M.kbd.have /\ k.action = M.kbd.action
    BY <1>0 DEF KbdState, SameRing
  <2>2. D = [M EXCEPT !.kbd.pending = FALSE]
    BY <1>0 DEF Machine, KbdState
  <2> HIDE DEF k
  <2>3. D \in Machine /\ D.via = M.via /\ D.kbd = k /\ SameRest(M, D)
    BY <1>0, <2>1, KbdChange
  <2>4. RingHolds(k, ks.accepted) /\ Count(k) = Count(M.kbd)
    BY <1>0, <2>1, RingKept
  <2>5. M.kbd.pending /\ (Open(M, g, ks) => NothingFlies(D, ks) /\ g.cmd = Inquiry)
    BY <1>2, <2>3, <2>4 DEF Inquire, Open, NothingFlies, Taken
  <2> HIDE DEF D
  <2>6. CASE Waiting(M.kbd)
    <3> DEFINE R == FinishInquiry(D)
    <3>1. Inquire(M) = R
      BY <2>2, <2>5, <2>6 DEF Inquire, D
    <3>2. Waiting(k)
      BY <2>1, <2>6 DEF Waiting, SameRing
    <3>3. /\ R \in Machine /\ LineRight(R.via) /\ SameRest(D, R)
          /\ R.via.mode = D.via.mode
          /\ R.kbd.keyq = k.keyq /\ R.kbd.tail = k.tail
          /\ R.kbd.head = RingNext(k.head)
          /\ R.kbd.state = k.state /\ R.kbd.pending = k.pending
          /\ R.kbd.action = k.action
          /\ k.keyq[k.head].two => R.kbd.instant = Key(k.keyq[k.head].id)
          /\ k.state = "idle" =>
                /\ R.kbd.have = k.have
                /\ R.via.sr = EventByte(k) /\ R.via.icb2 = 1 /\ "SR" \in R.via.ifr
          /\ k.state # "idle" => R.via = D.via /\ R.kbd.have /\ R.kbd.result = EventByte(k)
      BY <1>0, <2>3, FinishFacts
    <3> HIDE DEF R
    <3>4. /\ RingHolds(R.kbd, ks.accepted)
          /\ NothingFlies(D, ks) /\ g.cmd = Inquiry => Answer(R, g, ks, EventByte(k))
      BY <2>3, <2>4, <3>2, <3>3, PoppedAnswers
    <3>5. SameRest(M, R)
      BY <2>3, <3>3 DEF SameRest, SameTimers, SameClock
    <3>6. MachineInv(R, g, ks)
      BY <2>1, <2>3, <2>5, <3>3, <3>4, <3>5, DeliverOk
    <3> QED BY <3>1, <3>5, <3>6
  <2>7. CASE ~Waiting(M.kbd)
    <3> DEFINE R == GotKeyboardData(D, Null)
    <3>1. Inquire(M) = R
      BY <1>2, <2>2, <2>5, <2>7 DEF Inquire, D
    <3>2. /\ R \in Machine /\ LineRight(R.via) /\ SameRest(D, R)
          /\ R.via.mode = D.via.mode
          /\ k.state = "idle" =>
                R.kbd = k /\ R.via.sr = Null /\ R.via.icb2 = 1 /\ "SR" \in R.via.ifr
          /\ k.state # "idle" =>
                R.via = D.via /\ R.kbd = [k EXCEPT !.have = TRUE, !.result = Null]
      BY <1>0, <2>3, ByteFacts, GotDataFacts
    <3> HIDE DEF R
    <3>3. /\ SameRing(k, R.kbd) /\ R.kbd.state = k.state /\ R.kbd.pending = k.pending
          /\ R.kbd.action = k.action
          /\ k.state = "idle" => R.kbd.have = k.have
          /\ k.state # "idle" => R.kbd.have /\ R.kbd.result = Null
      BY <2>1, <3>2 DEF KbdState, SameRing
    <3>4. RingHolds(R.kbd, ks.accepted) /\ Count(R.kbd) = Count(k)
      BY <2>4, <3>3, RingKept
    <3>5. NothingFlies(D, ks) /\ g.cmd = Inquiry => Answer(R, g, ks, Null)
      BY <2>3, <3>4 DEF NothingFlies, Taken, Answer
    <3>6. SameRest(M, R)
      BY <2>3, <3>2 DEF SameRest, SameTimers, SameClock
    <3>7. MachineInv(R, g, ks)
      BY <2>1, <2>3, <2>5, <3>2, <3>3, <3>4, <3>5, <3>6, DeliverOk
    <3> QED BY <3>1, <3>6, <3>7
  <2> QED BY <2>6, <2>7
<1> QED BY <1>1, <1>2

\* A command takes its byte, and is answered or, if it is an Inquiry that finds no
\* event, left open.
LEMMA CommandFacts ==
    ASSUME NEW M \in Machine
    PROVE  LET R == DoReceiveCommand(M)
               k == M.kbd
           IN  /\ R \in Machine /\ LineRight(R.via) /\ SameRest(M, R)
               /\ R.via.sr = M.via.sr /\ R.via.icb2 = M.via.sr % 2
               /\ R.via.mode = M.via.mode /\ "SR" \in R.via.ifr
               /\ R.kbd.state = "got_cmd" /\ R.kbd.action = k.action
               /\ M.via.sr = Inquiry /\ Waiting(k) =>
                     /\ R.kbd.keyq = k.keyq /\ R.kbd.tail = k.tail
                     /\ R.kbd.head = RingNext(k.head)
                     /\ k.keyq[k.head].two => R.kbd.instant = Key(k.keyq[k.head].id)
                     /\ R.kbd.have /\ R.kbd.result = EventByte(k)
                     /\ R.kbd.pending = k.pending
               /\ M.via.sr = Inquiry /\ ~Waiting(k) =>
                     SameRing(k, R.kbd) /\ R.kbd.pending /\ R.kbd.have = k.have
               /\ M.via.sr # Inquiry =>
                     SameRing(k, R.kbd) /\ R.kbd.have /\ R.kbd.pending = k.pending
               /\ M.via.sr = Instant => R.kbd.result = k.instant
               /\ M.via.sr = Model => R.kbd.result = ModelId
               /\ M.via.sr = Test => R.kbd.result = Ack
<1> DEFINE in == M.via.sr
           S == ShiftOutData(M)
           k == [M.kbd EXCEPT !.state = "got_cmd"]
           N == [S EXCEPT !.kbd = k]
           R == DoReceiveCommand(M)
<1>1. /\ S \in Machine /\ LineRight(S.via) /\ SameRest(M, S)
      /\ S.kbd = M.kbd /\ S.via.sr = in /\ S.via.icb2 = in % 2
      /\ S.via.mode = M.via.mode /\ "SR" \in S.via.ifr
  BY ShiftOutFacts
<1>2. M.kbd \in KbdState /\ M.kbd.instant \in Bytes
  BY DEF Machine, KbdState
<1>3. /\ k \in KbdState /\ k.state = "got_cmd" /\ k.action = M.kbd.action
      /\ k.keyq = M.kbd.keyq /\ k.head = M.kbd.head /\ k.tail = M.kbd.tail
      /\ k.have = M.kbd.have /\ k.pending = M.kbd.pending /\ k.instant = M.kbd.instant
  BY <1>2 DEF KbdState
<1>4. N = [S EXCEPT !.kbd.state = "got_cmd"]
  BY <1>1 DEF Machine
<1>5. R = CASE in = Inquiry ->
                 IF Waiting(N.kbd) THEN FinishInquiry(N)
                 ELSE [N EXCEPT !.kbd.pending = TRUE, !.kbd.inquiryLeft = KbdInquiry]
          [] in = Instant -> [GotKeyboardData(N, N.kbd.instant) EXCEPT !.kbd.instant = Null]
          [] in = Model   -> GotKeyboardData(N, ModelId)
          [] in = Test    -> GotKeyboardData(N, Ack)
          [] OTHER        -> GotKeyboardData(N, Zero)
  BY <1>4 DEF DoReceiveCommand
<1> HIDE DEF S, k, R, in
<1>6. N \in Machine /\ N.via = S.via /\ N.kbd = k /\ SameRest(S, N)
  BY <1>1, <1>3, KbdChange
<1> HIDE DEF N
<1>7. SameRest(M, N)
  BY <1>1, <1>6 DEF SameRest, SameTimers, SameClock
<1>8. Waiting(k) <=> Waiting(M.kbd)
  BY <1>3 DEF Waiting
<1>9. EventByte(k) = EventByte(M.kbd)
  BY <1>3 DEF EventByte
<1>10. ASSUME NEW byte \in Bytes
       PROVE  LET G == GotKeyboardData(N, byte)
              IN  /\ G \in Machine /\ G.via = N.via /\ SameRest(N, G)
                  /\ G.kbd = [k EXCEPT !.have = TRUE, !.result = byte]
  BY <1>1, <1>3, <1>6, <1>10, GotDataFacts
<1>11. ASSUME NEW byte \in Bytes, R = GotKeyboardData(N, byte)
       PROVE  /\ R \in Machine /\ R.via = N.via /\ SameRest(N, R)
              /\ R.kbd.state = "got_cmd" /\ R.kbd.action = k.action
              /\ SameRing(k, R.kbd) /\ R.kbd.have /\ R.kbd.pending = k.pending
              /\ R.kbd.result = byte
  <2>1. /\ R \in Machine /\ R.via = N.via /\ SameRest(N, R)
        /\ R.kbd = [k EXCEPT !.have = TRUE, !.result = byte]
    BY <1>10, <1>11
  <2> QED BY <1>3, <2>1 DEF KbdState, SameRing
<1>12. ASSUME R.via = N.via
       PROVE  /\ LineRight(R.via) /\ R.via.sr = in /\ R.via.icb2 = in % 2
              /\ R.via.mode = M.via.mode /\ "SR" \in R.via.ifr
  BY <1>1, <1>6, <1>12
<1>13. ASSUME SameRest(N, R)
       PROVE  SameRest(M, R)
  BY <1>7, <1>13 DEF SameRest, SameTimers, SameClock
<1>14. CASE in = Inquiry /\ Waiting(k)
  <2>1. R = FinishInquiry(N)
    BY <1>5, <1>6, <1>14 DEF Inquiry, Instant, Model, Test
  <2>2. /\ R \in Machine /\ SameRest(N, R) /\ R.via = N.via
        /\ R.kbd.keyq = k.keyq /\ R.kbd.tail = k.tail
        /\ R.kbd.head = RingNext(k.head)
        /\ R.kbd.state = k.state /\ R.kbd.pending = k.pending
        /\ R.kbd.action = k.action
        /\ k.keyq[k.head].two => R.kbd.instant = Key(k.keyq[k.head].id)
        /\ R.kbd.have /\ R.kbd.result = EventByte(k)
    BY <1>1, <1>3, <1>6, <2>1, FinishFacts
  <2>3. in # Instant /\ in # Model /\ in # Test
    BY <1>14 DEF Inquiry, Instant, Model, Test
  <2> QED BY <1>3, <1>8, <1>9, <1>12, <1>13, <1>14, <2>2, <2>3 DEF R, in
<1>15. CASE in = Inquiry /\ ~Waiting(k)
  <2> DEFINE l == [k EXCEPT !.pending = TRUE, !.inquiryLeft = KbdInquiry]
  <2>1. R = [N EXCEPT !.kbd = l]
    <3>1. R = [N EXCEPT !.kbd.pending = TRUE, !.kbd.inquiryLeft = KbdInquiry]
      BY <1>5, <1>6, <1>15 DEF Inquiry, Instant, Model, Test
    <3> QED BY <1>6, <3>1 DEF Machine
  <2>0. KbdInquiry \in 0 .. KbdInquiry
    BY Parameters
  <2>2. /\ l \in KbdState /\ SameRing(k, l) /\ l.pending /\ l.have = k.have
        /\ l.state = k.state /\ l.action = k.action
    BY <1>3, <2>0 DEF KbdState, SameRing
  <2> HIDE DEF l
  <2>3. R \in Machine /\ R.via = N.via /\ R.kbd = l /\ SameRest(N, R)
    BY <1>6, <2>1, <2>2, KbdChange
  <2>4. in # Instant /\ in # Model /\ in # Test
    BY <1>15 DEF Inquiry, Instant, Model, Test
  <2>5. SameRing(M.kbd, R.kbd)
    BY <1>3, <2>2, <2>3 DEF SameRing
  <2> QED BY <1>3, <1>8, <1>12, <1>13, <1>15, <2>2, <2>3, <2>4, <2>5 DEF R, in
<1>16. CASE in = Instant
  <2> DEFINE G == GotKeyboardData(N, k.instant)
             l == [G.kbd EXCEPT !.instant = Null]
  <2>1. /\ G \in Machine /\ G.via = N.via /\ SameRest(N, G)
        /\ G.kbd = [k EXCEPT !.have = TRUE, !.result = k.instant]
    BY <1>2, <1>3, <1>10
  <2>2. /\ l \in KbdState /\ SameRing(k, l) /\ l.have /\ l.result = k.instant
        /\ l.state = k.state /\ l.action = k.action /\ l.pending = k.pending
    BY <1>2, <1>3, <2>1, ByteFacts DEF KbdState, SameRing
  <2>3. R = [G EXCEPT !.kbd = l]
    <3>1. R = [G EXCEPT !.kbd.instant = Null]
      BY <1>3, <1>5, <1>6, <1>16 DEF Inquiry, Instant, Model, Test
    <3> HIDE DEF G
    <3> QED BY <2>1, <3>1 DEF Machine
  <2> HIDE DEF G, l
  <2>4. R \in Machine /\ R.via = G.via /\ R.kbd = l /\ SameRest(G, R)
    BY <2>1, <2>2, <2>3, KbdChange
  <2>5. SameRest(N, R)
    BY <2>1, <2>4 DEF SameRest, SameTimers, SameClock
  <2>6. SameRing(M.kbd, R.kbd)
    BY <1>3, <2>2, <2>4 DEF SameRing
  <2>7. in # Inquiry /\ in # Model /\ in # Test
    BY <1>16 DEF Inquiry, Instant, Model, Test
  <2> QED BY <1>3, <1>12, <1>13, <1>16, <2>1, <2>2, <2>4, <2>5, <2>6, <2>7 DEF R, in
<1>17. CASE in \notin {Inquiry, Instant}
  <2>1. PICK byte \in Bytes : /\ R = GotKeyboardData(N, byte)
                              /\ in = Model => byte = ModelId
                              /\ in = Test => byte = Ack
    <3>1. CASE in = Model
      <4>1. R = GotKeyboardData(N, ModelId)
        BY <1>5, <3>1 DEF Inquiry, Instant, Model, Test
      <4> QED BY <3>1, <4>1, ByteFacts DEF Model, Test
    <3>2. CASE in = Test
      <4>1. R = GotKeyboardData(N, Ack)
        BY <1>5, <3>2 DEF Inquiry, Instant, Model, Test
      <4> QED BY <3>2, <4>1, ByteFacts DEF Model, Test
    <3>3. CASE in \notin {Model, Test}
      <4>1. R = GotKeyboardData(N, Zero)
        BY <1>5, <1>17, <3>3
      <4> QED BY <3>3, <4>1, ByteFacts
    <3> QED BY <3>1, <3>2, <3>3
  <2>2. /\ R \in Machine /\ R.via = N.via /\ SameRest(N, R)
        /\ R.kbd.state = "got_cmd" /\ R.kbd.action = k.action
        /\ SameRing(k, R.kbd) /\ R.kbd.have /\ R.kbd.pending = k.pending
        /\ R.kbd.result = byte
    BY <1>11, <2>1
  <2>3. SameRing(M.kbd, R.kbd)
    BY <1>3, <2>2 DEF SameRing
  <2> QED BY <1>3, <1>12, <1>13, <1>17, <2>1, <2>2, <2>3 DEF R, in
<1> QED BY <1>14, <1>15, <1>16, <1>17

\* The end of a command lets the reply out that was held back.
LEMMA EndCommandFacts ==
    ASSUME NEW M \in Machine, LineRight(M.via)
    PROVE  LET R == DoReceiveEndCommand(M)
           IN  /\ R \in Machine /\ LineRight(R.via) /\ SameRest(M, R)
               /\ R.via.mode = M.via.mode
               /\ R.kbd.state = "idle" /\ ~R.kbd.have /\ R.kbd.action = M.kbd.action
               /\ R.kbd.pending = M.kbd.pending /\ R.kbd.instant = M.kbd.instant
               /\ SameRing(M.kbd, R.kbd)
               /\ M.kbd.have => /\ R.via.sr = M.kbd.result /\ R.via.icb2 = 1
                                /\ "SR" \in R.via.ifr
               /\ ~M.kbd.have => R.via = M.via
<1> DEFINE k == [M.kbd EXCEPT !.state = "idle", !.have = FALSE]
           N == [M EXCEPT !.kbd = k]
<1>1. M.kbd \in KbdState /\ M.kbd.result \in Bytes
  BY DEF Machine, KbdState
<1>2. /\ k \in KbdState /\ k.state = "idle" /\ ~k.have /\ k.action = M.kbd.action
      /\ k.pending = M.kbd.pending /\ k.instant = M.kbd.instant /\ SameRing(M.kbd, k)
  BY <1>1 DEF KbdState, SameRing
<1>3. N = [M EXCEPT !.kbd.state = "idle", !.kbd.have = FALSE]
  BY DEF Machine
<1> HIDE DEF k
<1>4. N \in Machine /\ N.via = M.via /\ N.kbd = k /\ SameRest(M, N)
  BY <1>2, KbdChange
<1>5. CASE M.kbd.have
  <2> DEFINE R == ShiftInData(N, M.kbd.result)
  <2>1. DoReceiveEndCommand(M) = R
    BY <1>3, <1>5 DEF DoReceiveEndCommand
  <2> HIDE DEF N
  <2>2. /\ R \in Machine /\ LineRight(R.via) /\ SameRest(N, R)
        /\ R.kbd = k /\ R.via.sr = M.kbd.result /\ R.via.icb2 = 1
        /\ R.via.mode = N.via.mode /\ "SR" \in R.via.ifr
    BY <1>1, <1>4, ShiftInFacts
  <2> HIDE DEF R
  <2>3. SameRest(M, R)
    BY <1>4, <2>2 DEF SameRest, SameTimers, SameClock
  <2> QED BY <1>2, <1>4, <1>5, <2>1, <2>2, <2>3
<1>6. CASE ~M.kbd.have
  <2>1. DoReceiveEndCommand(M) = N
    BY <1>3, <1>6 DEF DoReceiveEndCommand
  <2> HIDE DEF N
  <2> QED BY <1>2, <1>4, <1>6, <2>1
<1> QED BY <1>5, <1>6

\* A command that is due keeps the invariant.
LEMMA CommandOk ==
    ASSUME NEW M, NEW g \in Guests, NEW ks \in KeyCounts, MachineInv(M, g, ks),
           NEW N \in Machine, N.via = M.via, N.kbd = [M.kbd EXCEPT !.action = 0],
           M.kbd.action = 1
    PROVE  LET R == DoReceiveCommand(N)
           IN  MachineInv(R, g, ks) /\ SameRest(N, R)
<1> DEFINE k == M.kbd
           R == DoReceiveCommand(N)
<1>1. /\ M \in Machine /\ k \in KbdState /\ k.state = "rx_cmd" /\ ~k.have /\ ~k.pending
      /\ RingHolds(k, ks.accepted)
  BY DEF MachineInv, Machine, Protocol
<1>2. /\ N.kbd.action = 0 /\ SameRing(k, N.kbd) /\ N.kbd.have = k.have
      /\ N.kbd.pending = k.pending /\ N.kbd.instant = k.instant
  BY <1>1 DEF KbdState, SameRing
<1>3. RingHolds(N.kbd, ks.accepted) /\ Count(N.kbd) = Count(k)
  BY <1>1, <1>2, RingKept
<1>4. /\ R \in Machine /\ LineRight(R.via) /\ SameRest(N, R)
      /\ R.via.sr = N.via.sr /\ R.via.icb2 = N.via.sr % 2
      /\ R.via.mode = N.via.mode /\ "SR" \in R.via.ifr
      /\ R.kbd.state = "got_cmd" /\ R.kbd.action = N.kbd.action
      /\ N.via.sr = Inquiry /\ Waiting(N.kbd) =>
            /\ R.kbd.keyq = N.kbd.keyq /\ R.kbd.tail = N.kbd.tail
            /\ R.kbd.head = RingNext(N.kbd.head)
            /\ N.kbd.keyq[N.kbd.head].two =>
                  R.kbd.instant = Key(N.kbd.keyq[N.kbd.head].id)
            /\ R.kbd.have /\ R.kbd.result = EventByte(N.kbd)
            /\ R.kbd.pending = N.kbd.pending
      /\ N.via.sr = Inquiry /\ ~Waiting(N.kbd) =>
            SameRing(N.kbd, R.kbd) /\ R.kbd.pending /\ R.kbd.have = N.kbd.have
      /\ N.via.sr # Inquiry =>
            SameRing(N.kbd, R.kbd) /\ R.kbd.have /\ R.kbd.pending = N.kbd.pending
      /\ N.via.sr = Instant => R.kbd.result = N.kbd.instant
      /\ N.via.sr = Model => R.kbd.result = ModelId
      /\ N.via.sr = Test => R.kbd.result = Ack
  BY CommandFacts
<1> HIDE DEF R
<1>5. Protocol(R.kbd)
  <2>1. CASE N.via.sr = Inquiry /\ ~Waiting(N.kbd)
    BY <1>1, <1>2, <1>4, <2>1 DEF Protocol
  <2>2. CASE ~(N.via.sr = Inquiry /\ ~Waiting(N.kbd))
    BY <1>1, <1>2, <1>4, <2>2 DEF Protocol
  <2> QED BY <2>1, <2>2
<1>6. RingHolds(R.kbd, ks.accepted)
  <2>1. CASE N.via.sr = Inquiry /\ Waiting(N.kbd)
    BY <1>3, <1>4, <2>1, PoppedAnswers
  <2>2. CASE ~(N.via.sr = Inquiry /\ Waiting(N.kbd))
    BY <1>3, <1>4, <2>2, RingKept
  <2> QED BY <2>1, <2>2
<1>7. ASSUME g.who = "rom" PROVE Exchange(R, g, ks)
  <2>1. /\ g.at = "sent" /\ N.via.mode = 7 /\ N.via.sr = g.cmd /\ Asked(M, g, ks)
        /\ "SR" \in M.via.ier
    BY <1>1, <1>7 DEF MachineInv, Exchange, AtIdle, AtSent, AtListen, Guests
  <2>2. g.cmd \in Commands /\ g.cmd % 2 = 0
    BY DEF Guests, Commands, Inquiry, Instant, Model, Test
  <2>3. Held(R, g, ks)
    <3>1. CASE g.cmd = Inquiry /\ Waiting(N.kbd)
      <4>1. NothingFlies(N, ks)
        BY <1>3, <2>1, <3>1 DEF Asked, Inquiry, Instant, NothingFlies, Taken
      <4>2. Answer(R, g, ks, EventByte(N.kbd))
        BY <1>3, <1>4, <2>1, <3>1, <4>1, PoppedAnswers
      <4> QED BY <1>4, <2>1, <3>1, <4>2 DEF Held
    <3>2. CASE g.cmd = Inquiry /\ ~Waiting(N.kbd)
      <4>1. SameRing(N.kbd, R.kbd) /\ R.kbd.pending /\ ~R.kbd.have
        BY <1>1, <1>2, <1>4, <2>1, <3>2
      <4>2. Count(R.kbd) = Count(k)
        BY <1>3, <4>1, RingKept
      <4>3. NothingFlies(R, ks)
        BY <2>1, <3>2, <4>2 DEF Asked, Inquiry, Instant, NothingFlies, Taken
      <4> QED BY <3>2, <4>1, <4>3 DEF Held, Open
    <3>3. CASE g.cmd # Inquiry
      <4>1. SameRing(N.kbd, R.kbd) /\ R.kbd.have
        BY <1>4, <2>1, <3>3
      <4>2. Count(R.kbd) = Count(k)
        BY <1>3, <4>1, RingKept
      <4>3. Taken(R, ks) = Taken(M, ks)
        BY <4>2 DEF Taken
      <4>4. CASE g.cmd = Instant
        <5>1. KeyFlies(M, ks, k.instant) /\ R.kbd.result = k.instant
          BY <1>2, <1>4, <2>1, <4>4 DEF Asked
        <5> QED BY <4>1, <4>3, <4>4, <5>1 DEF Held, Answer, KeyFlies
      <4>5. CASE g.cmd = Model
        <5>1. NothingFlies(M, ks) /\ R.kbd.result = ModelId
          BY <1>4, <2>1, <4>5 DEF Asked, Model, Instant
        <5> QED BY <4>1, <4>3, <4>5, <5>1 DEF Held, Answer, NothingFlies
      <4>6. CASE g.cmd = Test
        <5>1. NothingFlies(M, ks) /\ R.kbd.result = Ack
          BY <1>4, <2>1, <4>6 DEF Asked, Test, Instant
        <5> QED BY <4>1, <4>3, <4>6, <5>1 DEF Held, Answer, NothingFlies
      <4> QED BY <2>2, <3>3, <4>4, <4>5, <4>6 DEF Commands
    <3> QED BY <3>1, <3>2, <3>3
  <2>4. AtSent(R, g, ks)
    BY <1>4, <2>1, <2>2, <2>3 DEF AtSent
  <2>5. "SR" \in R.via.ier
    BY <1>4, <2>1 DEF SameRest
  <2> QED BY <2>1, <2>4, <2>5 DEF Exchange
<1> QED BY <1>4, <1>5, <1>6, <1>7 DEF MachineInv, R

\* The end of a command that is due keeps the invariant.
LEMMA EndCommandOk ==
    ASSUME NEW M, NEW g \in Guests, NEW ks \in KeyCounts, MachineInv(M, g, ks),
           NEW N \in Machine, N.via = M.via, N.kbd = [M.kbd EXCEPT !.action = 0],
           M.kbd.action = 2
    PROVE  LET R == DoReceiveEndCommand(N)
           IN  MachineInv(R, g, ks) /\ SameRest(N, R)
<1> DEFINE k == M.kbd
           R == DoReceiveEndCommand(N)
<1>1. /\ M \in Machine /\ k \in KbdState /\ k.state = "rx_end"
      /\ RingHolds(k, ks.accepted) /\ LineRight(N.via) /\ (k.have => ~k.pending)
  BY DEF MachineInv, Machine, Protocol
<1>2. /\ N.kbd.action = 0 /\ SameRing(k, N.kbd) /\ N.kbd.have = k.have
      /\ N.kbd.pending = k.pending /\ N.kbd.instant = k.instant /\ N.kbd.result = k.result
  BY <1>1 DEF KbdState, SameRing
<1>3. /\ R \in Machine /\ LineRight(R.via) /\ SameRest(N, R)
      /\ R.via.mode = N.via.mode
      /\ R.kbd.state = "idle" /\ ~R.kbd.have /\ R.kbd.action = N.kbd.action
      /\ R.kbd.pending = N.kbd.pending /\ R.kbd.instant = N.kbd.instant
      /\ SameRing(N.kbd, R.kbd)
      /\ N.kbd.have => R.via.sr = N.kbd.result /\ R.via.icb2 = 1 /\ "SR" \in R.via.ifr
      /\ ~N.kbd.have => R.via = N.via
  BY <1>1, EndCommandFacts
<1> HIDE DEF R
<1>4. SameRing(k, R.kbd)
  BY <1>2, <1>3 DEF SameRing
<1>5. RingHolds(R.kbd, ks.accepted) /\ Count(R.kbd) = Count(k)
  BY <1>1, <1>4, RingKept
<1>6. Taken(R, ks) = Taken(M, ks)
  BY <1>5 DEF Taken
<1>7. Protocol(R.kbd)
  BY <1>2, <1>3 DEF Protocol
<1>8. ASSUME g.who = "rom" PROVE Exchange(R, g, ks)
  <2>1. /\ g.at = "listen" /\ M.via.mode = 3 /\ M.via.icb2 = 1 /\ "SR" \notin M.via.ifr
        /\ Held(M, g, ks) /\ "SR" \in M.via.ier
    BY <1>1, <1>8 DEF MachineInv, Exchange, AtIdle, AtSent, AtListen, Guests
  <2>2. CASE k.have
    <3>1. Answer(M, g, ks, k.result) /\ R.via.sr = k.result /\ ~R.kbd.pending
      BY <1>1, <1>2, <1>3, <2>1, <2>2 DEF Held
    <3>2. Answer(R, g, ks, R.via.sr)
      BY <1>2, <1>3, <1>6, <3>1 DEF Answer, NothingFlies, KeyFlies
    <3>3. AtListen(R, g, ks)
      BY <1>2, <1>3, <2>1, <2>2, <3>1, <3>2 DEF AtListen, Quiet
    <3> QED BY <1>3, <2>1, <3>3 DEF Exchange, SameRest
  <2>3. CASE ~k.have
    <3>1. Open(M, g, ks) /\ R.via = M.via
      BY <1>2, <1>3, <2>1, <2>3 DEF Held
    <3>2. Open(R, g, ks)
      BY <1>2, <1>3, <1>6, <3>1 DEF Open, NothingFlies
    <3>3. AtListen(R, g, ks)
      BY <1>3, <2>1, <3>1, <3>2 DEF AtListen
    <3> QED BY <1>3, <2>1, <3>3 DEF Exchange, SameRest
  <2> QED BY <2>2, <2>3
<1> QED BY <1>3, <1>5, <1>7, <1>8 DEF MachineInv, R

\* The keyboard's part of mac_mem_tick keeps the invariant.
LEMMA KbdTickOk ==
    ASSUME NEW M, NEW g \in Guests, NEW ks \in KeyCounts, MachineInv(M, g, ks)
    PROVE  MachineInv(KbdTick(M), g, ks) /\ SameRest(M, KbdTick(M))
<1> DEFINE T == TimedAction(M)
<1>1. MachineInv(T, g, ks) /\ SameRest(M, T)
  <2>0. M \in Machine /\ M.kbd \in KbdState /\ M.kbd.action \in {0, 1, 2}
    BY DEF MachineInv, Machine, KbdState
  <2> DEFINE k == [M.kbd EXCEPT !.action = 0]
             N == [M EXCEPT !.kbd = k]
  <2>1. k \in KbdState
    BY <2>0 DEF KbdState
  <2>2. N = [M EXCEPT !.kbd.action = 0]
    BY <2>0 DEF Machine
  <2>3. N \in Machine /\ N.via = M.via /\ N.kbd = k /\ SameRest(M, N)
    <3> HIDE DEF k
    <3> QED BY <2>0, <2>1, KbdChange
  <2>4. CASE M.kbd.action = 0 \/ M.kbd.left > 0
    <3>1. T = M
      BY <2>4 DEF TimedAction
    <3> HIDE DEF T
    <3> QED BY <3>1 DEF SameRest, SameTimers, SameClock
  <2>5. CASE M.kbd.action = 1 /\ ~(M.kbd.left > 0)
    <3> DEFINE R == DoReceiveCommand(N)
    <3>1. T = R
      BY <2>2, <2>5 DEF TimedAction
    <3> HIDE DEF T, N
    <3>2. MachineInv(R, g, ks) /\ SameRest(N, R)
      BY <2>3, <2>5, CommandOk
    <3> HIDE DEF R
    <3> QED BY <2>3, <3>1, <3>2 DEF SameRest, SameTimers, SameClock
  <2>6. CASE M.kbd.action = 2 /\ ~(M.kbd.left > 0)
    <3> DEFINE R == DoReceiveEndCommand(N)
    <3>1. T = R
      BY <2>2, <2>6 DEF TimedAction
    <3> HIDE DEF T, N
    <3>2. MachineInv(R, g, ks) /\ SameRest(N, R)
      BY <2>3, <2>6, EndCommandOk
    <3> HIDE DEF R
    <3> QED BY <2>3, <3>1, <3>2 DEF SameRest, SameTimers, SameClock
  <2> QED BY <2>0, <2>4, <2>5, <2>6
<1>2. KbdTick(M) = Inquire(T)
  BY DEF KbdTick, Inquire
<1> HIDE DEF T
<1>3. MachineInv(Inquire(T), g, ks) /\ SameRest(T, Inquire(T))
  BY <1>1, InquireOk
<1> QED BY <1>1, <1>2, <1>3 DEF SameRest, SameTimers, SameClock

-----------------------------------------------------------------------------
(* The guest's accesses to the shift register *)

SameKbd(k, l) ==
    /\ SameRing(k, l) /\ l.state = k.state /\ l.have = k.have /\ l.result = k.result
    /\ l.instant = k.instant /\ l.pending = k.pending /\ l.action = k.action

\* Whatever leaves the shift register, its flag and the keyboard alone keeps the
\* invariant.
LEMMA Unmoved ==
    ASSUME NEW M, NEW R \in Machine, NEW g, NEW ks, MachineInv(M, g, ks),
           LineRight(R.via), SameShift(M.via, R.via), SameKbd(M.kbd, R.kbd),
           g.who = "rom" => /\ R.via.ier = M.via.ier
                            /\ "SR" \in R.via.ifr <=> "SR" \in M.via.ifr
    PROVE  MachineInv(R, g, ks)
<1>1. RingHolds(R.kbd, ks.accepted) /\ Count(R.kbd) = Count(M.kbd)
  BY RingKept DEF MachineInv, SameKbd
<1>2. Protocol(R.kbd)
  BY DEF MachineInv, Protocol, SameKbd
<1>3. Taken(R, ks) = Taken(M, ks)
  BY <1>1 DEF Taken
<1>4. /\ Asked(R, g, ks) <=> Asked(M, g, ks)
      /\ Held(R, g, ks) <=> Held(M, g, ks)
      /\ Open(R, g, ks) <=> Open(M, g, ks)
      /\ Quiet(R) <=> Quiet(M)
      /\ \A byte : Answer(R, g, ks, byte) <=> Answer(M, g, ks, byte)
  BY <1>3 DEF SameKbd, Asked, Held, Open, Quiet, Answer, NothingFlies, KeyFlies
<1>5. ASSUME g.who = "rom" PROVE Exchange(R, g, ks)
  <2>1. Exchange(M, g, ks) /\ "SR" \in R.via.ier
        /\ ("SR" \in R.via.ifr <=> "SR" \in M.via.ifr)
    BY <1>5 DEF MachineInv, Exchange
  <2>2. g.at = "idle" => AtIdle(R, g, ks)
    BY <1>4, <2>1 DEF Exchange, AtIdle, SameKbd, SameShift
  <2>3. g.at = "sent" => AtSent(R, g, ks)
    BY <1>4, <2>1 DEF Exchange, AtSent, SameKbd, SameShift
  <2>4. g.at = "listen" => AtListen(R, g, ks)
    BY <1>4, <2>1 DEF Exchange, AtListen, SameKbd, SameShift
  <2> QED BY <2>1, <2>2, <2>3, <2>4 DEF Exchange
<1> QED BY <1>1, <1>2, <1>5 DEF MachineInv

\* A change of the VIA gives a machine.
LEMMA ViaChange ==
    ASSUME NEW M \in Machine, NEW v \in ViaState
    PROVE  LET R == [M EXCEPT !.via = v]
           IN  R \in Machine /\ R.via = v /\ R.kbd = M.kbd
BY DEF Machine

\* A machine whose CB2 line has changed.
LEMMA Cb2Facts ==
    ASSUME NEW M \in Machine, Protocol(M.kbd)
    PROVE  LET R == Cb2Changed(M)
           IN  /\ R \in Machine /\ R.via = M.via /\ Protocol(R.kbd)
               /\ SameRing(M.kbd, R.kbd) /\ R.kbd.instant = M.kbd.instant
               /\ R.kbd.have = M.kbd.have /\ R.kbd.result = M.kbd.result
               /\ M.kbd.state = "idle" /\ M.via.icb2 = 0 =>
                     R.kbd.state = "rx_cmd" /\ ~R.kbd.pending
               /\ M.kbd.state = "idle" /\ M.via.icb2 = 1 => R.kbd = M.kbd
               /\ M.kbd.state = "got_cmd" /\ M.via.icb2 = 1 =>
                     R.kbd.state = "rx_end" /\ R.kbd.pending = M.kbd.pending
<1> DEFINE R == Cb2Changed(M)
<1>0. /\ M.kbd \in KbdState
      /\ KbdDelay \in 0 .. KbdDelay /\ 1 \in 0 .. 2 /\ 2 \in 0 .. 2
  <2>1. M.kbd \in KbdState
    BY DEF Machine
  <2>2. KbdDelay \in 0 .. KbdDelay /\ 1 \in 0 .. 2 /\ 2 \in 0 .. 2
    BY Parameters
  <2> QED BY <2>1, <2>2
<1>1. CASE M.kbd.state = "idle" /\ M.via.icb2 = 0
  <2> DEFINE k == [M.kbd EXCEPT !.state = "rx_cmd", !.action = 1, !.left = KbdDelay,
                                !.pending = FALSE]
  <2>1. R = [M EXCEPT !.kbd = k]
    BY <1>1 DEF Cb2Changed, Machine
  <2>2. /\ k \in KbdState /\ k.state = "rx_cmd" /\ ~k.pending /\ k.action = 1
        /\ SameRing(M.kbd, k) /\ k.instant = M.kbd.instant /\ k.have = M.kbd.have
        /\ k.result = M.kbd.result
    BY <1>0 DEF KbdState, SameRing
  <2> HIDE DEF k, R
  <2>3. R \in Machine /\ R.via = M.via /\ R.kbd = k
    BY <2>1, <2>2, KbdChange
  <2>4. Protocol(k)
    BY <1>1, <2>2 DEF Protocol
  <2> QED BY <1>1, <2>2, <2>3, <2>4 DEF R
<1>2. CASE M.kbd.state = "got_cmd" /\ M.via.icb2 = 1
  <2> DEFINE k == [M.kbd EXCEPT !.state = "rx_end", !.action = 2, !.left = KbdDelay]
  <2>1. R = [M EXCEPT !.kbd = k]
    BY <1>2 DEF Cb2Changed, Machine
  <2>2. /\ k \in KbdState /\ k.state = "rx_end" /\ k.pending = M.kbd.pending /\ k.action = 2
        /\ SameRing(M.kbd, k) /\ k.instant = M.kbd.instant /\ k.have = M.kbd.have
        /\ k.result = M.kbd.result
    BY <1>0 DEF KbdState, SameRing
  <2> HIDE DEF k, R
  <2>3. R \in Machine /\ R.via = M.via /\ R.kbd = k
    BY <2>1, <2>2, KbdChange
  <2>4. Protocol(k)
    BY <1>2, <2>2 DEF Protocol
  <2> QED BY <1>2, <2>2, <2>3, <2>4 DEF R
<1>3. CASE ~(M.kbd.state = "idle" /\ M.via.icb2 = 0) /\ ~(M.kbd.state = "got_cmd" /\ M.via.icb2 = 1)
  <2>1. R = M
    BY <1>3 DEF Cb2Changed
  <2> HIDE DEF R
  <2> QED BY <1>3, <2>1 DEF R, SameRing
<1> QED BY <1>1, <1>2, <1>3

\* The guest writes the shift register.
LEMMA WriteSrFacts ==
    ASSUME NEW M \in Machine, LineRight(M.via), Protocol(M.kbd), NEW byte \in Bytes
    PROVE  LET R == WriteSr(M, byte)
           IN  /\ R \in Machine /\ LineRight(R.via) /\ Protocol(R.kbd) /\ SameRest(M, R)
               /\ SameRing(M.kbd, R.kbd) /\ R.kbd.instant = M.kbd.instant
               /\ R.kbd.have = M.kbd.have /\ R.kbd.result = M.kbd.result
               /\ R.via.sr = byte /\ R.via.mode = M.via.mode
               /\ R.via.ifr = M.via.ifr \ {"SR"}
               /\ M.via.mode # 6 => R.kbd = M.kbd /\ R.via.icb2 = M.via.icb2
               /\ M.via.mode = 6 /\ byte = Zero =>
                     /\ R.via.icb2 = 0
                     /\ M.kbd.state = "idle" =>
                           IF M.via.icb2 = 0 THEN R.kbd = M.kbd
                           ELSE R.kbd.state = "rx_cmd" /\ ~R.kbd.pending
<1> DEFINE u == [M.via EXCEPT !.sr = byte]
           v == Clear(u, {"SR"})
           N == [M EXCEPT !.via = v]
           R == WriteSr(M, byte)
<1>0. M.via \in ViaState /\ {"SR"} \in SUBSET Irqs /\ M.via.icb2 \in {0, 1}
  BY DEF Machine, ViaState, Irqs
<1>1. /\ u \in ViaState /\ u.sr = byte /\ u.mode = M.via.mode /\ u.icb2 = M.via.icb2
      /\ u.ifr = M.via.ifr /\ u.ier = M.via.ier
      /\ SameTimers(M.via, u) /\ SameClock(M.via, u)
  BY <1>0 DEF ViaState, SameTimers, SameClock
<1>2. R = IF N.via.mode = 6 /\ byte = Zero /\ N.via.icb2 # 0
          THEN Cb2Changed([N EXCEPT !.via.icb2 = 0]) ELSE N
  BY DEF WriteSr
<1> HIDE DEF u
<1>3. /\ v \in ViaState /\ LineRight(v) /\ v.ier = u.ier /\ SameShift(u, v)
      /\ SameTimers(u, v) /\ SameClock(u, v) /\ v.ifr = u.ifr \ {"SR"}
  BY <1>0, <1>1, FlagFacts
<1> HIDE DEF v
<1>4. N \in Machine /\ N.via = v /\ N.kbd = M.kbd
  BY <1>3, ViaChange
<1> HIDE DEF N, R
<1>5. /\ v.sr = byte /\ v.mode = M.via.mode /\ v.icb2 = M.via.icb2
      /\ v.ifr = M.via.ifr \ {"SR"}
  BY <1>1, <1>3 DEF SameShift
<1>6. v.ier = M.via.ier /\ SameTimers(M.via, v) /\ SameClock(M.via, v)
  BY <1>1, <1>3 DEF SameTimers, SameClock
<1>7. CASE v.mode = 6 /\ byte = Zero /\ v.icb2 # 0
  <2> DEFINE w == [v EXCEPT !.icb2 = 0]
             L == [N EXCEPT !.via = w]
  <2>1. R = Cb2Changed(L)
    BY <1>2, <1>4, <1>7 DEF Machine
  <2>2. /\ w \in ViaState /\ w.icb2 = 0 /\ w.irq = v.irq /\ w.ifr = v.ifr /\ w.ier = v.ier
        /\ w.sr = v.sr /\ w.mode = v.mode /\ SameTimers(v, w) /\ SameClock(v, w)
    BY <1>3 DEF ViaState, SameTimers, SameClock
  <2> HIDE DEF w
  <2>3. L \in Machine /\ L.via = w /\ L.kbd = M.kbd
    BY <1>4, <2>2, ViaChange
  <2> HIDE DEF L
  <2>4. /\ R \in Machine /\ R.via = w /\ Protocol(R.kbd)
        /\ SameRing(M.kbd, R.kbd) /\ R.kbd.instant = M.kbd.instant
        /\ R.kbd.have = M.kbd.have /\ R.kbd.result = M.kbd.result
        /\ M.kbd.state = "idle" => R.kbd.state = "rx_cmd" /\ ~R.kbd.pending
    BY <2>1, <2>2, <2>3, Cb2Facts
  <2>5. LineRight(w)
    BY <1>3, <2>2 DEF LineRight
  <2>6. SameRest(M, R)
    BY <1>6, <2>2, <2>4 DEF SameRest, SameTimers, SameClock
  <2> QED BY <1>5, <1>7, <2>2, <2>4, <2>5, <2>6 DEF R
<1>8. CASE ~(v.mode = 6 /\ byte = Zero /\ v.icb2 # 0)
  <2>1. R = N
    BY <1>2, <1>4, <1>8
  <2>2. SameRest(M, R)
    BY <1>4, <1>6, <2>1 DEF SameRest
  <2>3. SameRing(M.kbd, R.kbd)
    BY <1>4, <2>1 DEF SameRing
  <2>4. M.via.mode = 6 /\ byte = Zero => M.via.icb2 = 0
    BY <1>5, <1>8
  <2> QED BY <1>3, <1>4, <1>5, <2>1, <2>2, <2>3, <2>4 DEF R
<1> QED BY <1>7, <1>8

\* The guest writes the mode of the shift register.
LEMMA WriteAcrFacts ==
    ASSUME NEW M \in Machine, LineRight(M.via), Protocol(M.kbd), NEW mode \in Modes
    PROVE  LET R == WriteAcr(M, mode)
           IN  /\ R \in Machine /\ LineRight(R.via) /\ Protocol(R.kbd) /\ SameRest(M, R)
               /\ SameRing(M.kbd, R.kbd) /\ R.kbd.instant = M.kbd.instant
               /\ R.kbd.have = M.kbd.have /\ R.kbd.result = M.kbd.result
               /\ R.via.sr = M.via.sr /\ R.via.mode = mode /\ R.via.ifr = M.via.ifr
               /\ ~IsOutput(M.via.mode) \/ IsOutput(mode) =>
                     R.kbd = M.kbd /\ R.via.icb2 = M.via.icb2
               /\ IsOutput(M.via.mode) /\ ~IsOutput(mode) =>
                     /\ R.via.icb2 = 1
                     /\ M.kbd.state = "idle" => R.kbd = M.kbd
                     /\ M.kbd.state = "got_cmd" /\ M.via.icb2 = 0 =>
                           R.kbd.state = "rx_end" /\ R.kbd.pending = M.kbd.pending
<1> DEFINE v == [M.via EXCEPT !.mode = mode]
           N == [M EXCEPT !.via = v]
           R == WriteAcr(M, mode)
<1>0. M.via \in ViaState /\ M.via.icb2 \in {0, 1}
  BY DEF Machine, ViaState
<1>1. /\ v \in ViaState /\ v.sr = M.via.sr /\ v.mode = mode /\ v.icb2 = M.via.icb2
      /\ v.ifr = M.via.ifr /\ v.ier = M.via.ier /\ v.irq = M.via.irq
      /\ SameTimers(M.via, v) /\ SameClock(M.via, v)
  BY <1>0 DEF ViaState, SameTimers, SameClock
<1>2. R = IF IsOutput(M.via.mode) /\ ~IsOutput(mode) /\ N.via.icb2 = 0
          THEN Cb2Changed([N EXCEPT !.via.icb2 = 1]) ELSE N
  <2>1. N = [M EXCEPT !.via.mode = mode]
    BY <1>0 DEF Machine
  <2> QED BY <2>1 DEF WriteAcr
<1> HIDE DEF v
<1>3. N \in Machine /\ N.via = v /\ N.kbd = M.kbd
  BY <1>1, ViaChange
<1> HIDE DEF N, R
<1>4. LineRight(v)
  BY <1>1 DEF LineRight
<1>5. CASE IsOutput(M.via.mode) /\ ~IsOutput(mode) /\ v.icb2 = 0
  <2> DEFINE w == [v EXCEPT !.icb2 = 1]
             L == [N EXCEPT !.via = w]
  <2>1. R = Cb2Changed(L)
    BY <1>2, <1>3, <1>5 DEF Machine
  <2>2. /\ w \in ViaState /\ w.icb2 = 1 /\ w.irq = v.irq /\ w.ifr = v.ifr /\ w.ier = v.ier
        /\ w.sr = v.sr /\ w.mode = v.mode /\ SameTimers(v, w) /\ SameClock(v, w)
    BY <1>1 DEF ViaState, SameTimers, SameClock
  <2> HIDE DEF w
  <2>3. L \in Machine /\ L.via = w /\ L.kbd = M.kbd
    BY <1>3, <2>2, ViaChange
  <2> HIDE DEF L
  <2>4. /\ R \in Machine /\ R.via = w /\ Protocol(R.kbd)
        /\ SameRing(M.kbd, R.kbd) /\ R.kbd.instant = M.kbd.instant
        /\ R.kbd.have = M.kbd.have /\ R.kbd.result = M.kbd.result
        /\ M.kbd.state = "idle" => R.kbd = M.kbd
        /\ M.kbd.state = "got_cmd" =>
              R.kbd.state = "rx_end" /\ R.kbd.pending = M.kbd.pending
    BY <2>1, <2>2, <2>3, Cb2Facts
  <2>5. LineRight(w)
    BY <1>4, <2>2 DEF LineRight
  <2>6. SameRest(M, R)
    BY <1>1, <2>2, <2>4 DEF SameRest, SameTimers, SameClock
  <2> QED BY <1>1, <1>5, <2>2, <2>4, <2>5, <2>6 DEF R
<1>6. CASE ~(IsOutput(M.via.mode) /\ ~IsOutput(mode) /\ v.icb2 = 0)
  <2>1. R = N
    BY <1>2, <1>3, <1>6
  <2>2. SameRest(M, R)
    BY <1>1, <1>3, <2>1 DEF SameRest
  <2>3. SameRing(M.kbd, R.kbd)
    BY <1>3, <2>1 DEF SameRing
  <2>4. IsOutput(M.via.mode) /\ ~IsOutput(mode) => M.via.icb2 = 1
    BY <1>0, <1>1, <1>6
  <2> QED BY <1>1, <1>3, <1>4, <2>1, <2>2, <2>3, <2>4 DEF R
<1> QED BY <1>5, <1>6

-----------------------------------------------------------------------------
(* Time *)

\* What keeps the timers and the clock keeps the account of a one-shot.
LEMMA ShotKept ==
    ASSUME ClockInv, ShotInv, shot' = shot, guest'.who = guest.who,
           SameTimers(m.via, m'.via), SameClock(m.via, m'.via)
    PROVE  ClockInv' /\ ShotInv'
<1>1. ClockInv'
  BY DEF ClockInv, Interval, UsesTimer, SameClock
<1>2. /\ Counter' = Counter /\ Armed' = Armed /\ UsesTimer' = UsesTimer
      /\ m'.via.free = m.via.free
  BY DEF Counter, Armed, UsesTimer, SameTimers
<1>3. Balanced(m'.via, Counter, shot.load, shot.age)
      <=> Balanced(m.via, Counter, shot.load, shot.age)
  BY DEF Balanced, Owed, ElapsedCycles, SameClock
<1> QED BY <1>1, <1>2, <1>3 DEF ShotInv

\* The parts of a machine.
LEMMA Parts ==
    ASSUME Inv
    PROVE  /\ m \in Machine /\ m.via \in ViaState /\ m.kbd \in KbdState
           /\ guest \in Guests /\ keys \in KeyCounts /\ shot \in Shots
           /\ LineRight(m.via) /\ Protocol(m.kbd) /\ RingHolds(m.kbd, keys.accepted)
           /\ MachineInv(m, guest, keys) /\ ClockInv /\ ShotInv /\ KeysInOrder
BY DEF Inv, Typed, Machine, MachineInv

\* A one-shot that waits is not due for Never cycles, and the balance is kept while the
\* guest executes.
LEMMA Waits ==
    ASSUME NEW v \in ViaState, NEW w \in ViaState, NEW n \in Timer, NEW load \in Timer,
           NEW age \in Nat, NEW c \in Nat, Balanced(v, n, load, age),
           w.gap = v.gap + c, w.gap <= MaxGap, w.rem = v.rem, w.lastZero = v.lastZero
    PROVE  Min(age + c, Never) = age + c /\ Balanced(w, n, load, age + c)
<1> USE Parameters
<1>0. /\ v.rem \in 0 .. (Divider - 1) /\ v.gap \in Nat /\ v.lastZero \in BOOLEAN
      /\ w.gap \in Nat /\ n \in Nat /\ load \in Nat /\ load <= TimerMod - 1
  BY DEF ViaState, Timer
<1>1. PICK x \in Nat, y \in Nat, z \in Nat :
         x = Divider * n /\ y = Divider * load /\ z = Divider * TimerMod
  BY <1>0
<1>2. y <= z - Divider
  <2>1. Divider * (TimerMod - 1) = z - Divider
    BY <1>1
  <2>2. Divider * load <= Divider * (TimerMod - 1)
    BY <1>0
  <2> QED BY <1>1, <2>1, <2>2
<1>3. CASE ~v.lastZero
  <2>1. Owed(v, n) = x - v.rem - v.gap /\ Owed(w, n) = x - v.rem - (v.gap + c)
    BY <1>0, <1>1, <1>3 DEF Owed, ElapsedCycles
  <2>2. /\ age + (x - v.rem - v.gap) > y - Divider - MaxGap
        /\ age + (x - v.rem - v.gap) <= y + MaxGap
    BY <1>1, <2>1 DEF Balanced
  <2>3. age + c < z + 2 * MaxGap
    BY <1>0, <1>2, <2>2
  <2>4. Min(age + c, Never) = age + c
    BY <1>1, <2>3 DEF Min, Never
  <2>5. /\ (age + c) + Owed(w, n) > y - Divider - MaxGap
        /\ (age + c) + Owed(w, n) <= y + MaxGap
    BY <1>0, <2>1, <2>2
  <2> QED BY <1>1, <1>3, <2>4, <2>5 DEF Balanced
<1>4. CASE v.lastZero
  <2>1. n = load /\ age <= v.gap
    BY <1>4 DEF Balanced
  <2>2. x = y /\ Owed(w, n) = x - v.rem
    BY <1>0, <1>1, <1>4, <2>1 DEF Owed, ElapsedCycles
  <2>3. age + c <= w.gap /\ age + c <= MaxGap
    BY <1>0, <2>1
  <2>4. Min(age + c, Never) = age + c
    <3>1. age + c < z + 2 * MaxGap
      BY <1>0, <1>2, <2>3
    <3> QED BY <1>1, <3>1 DEF Min, Never
  <2>5. /\ (age + c) + Owed(w, n) > y - Divider - MaxGap
        /\ (age + c) + Owed(w, n) <= y + MaxGap
    BY <1>0, <2>2, <2>3
  <2> QED BY <1>1, <2>1, <2>3, <2>4, <2>5 DEF Balanced
<1> QED BY <1>0, <1>3, <1>4

\* The guest executes.
LEMMA RunStep ==
    ASSUME Inv, NEW c \in Nat, Run(c)
    PROVE  Inv'
<1> USE Parameters
<1>0. /\ m \in Machine /\ m.via \in ViaState /\ m.kbd \in KbdState
      /\ guest \in Guests /\ keys \in KeyCounts /\ shot \in Shots
      /\ LineRight(m.via) /\ MachineInv(m, guest, keys) /\ ClockInv /\ ShotInv /\ KeysInOrder
  BY Parts
<1>1. guest' = guest /\ keys' = keys /\ UsesTimer' = UsesTimer /\ Interval' = Interval
  BY DEF Run, UsesTimer, Interval
<1> DEFINE w == [m.via EXCEPT !.gap = m.via.gap + c, !.vbl = m.via.vbl - c]
           k == [m.kbd EXCEPT !.left = Less(m.kbd.left, c),
                              !.inquiryLeft = Less(m.kbd.inquiryLeft, c)]
<1>2. m' = [m EXCEPT !.via = w, !.kbd = k]
  BY <1>0 DEF Run, Machine, ViaState, KbdState
<1>3. /\ w \in ViaState /\ w.ifr = m.via.ifr /\ w.ier = m.via.ier /\ w.irq = m.via.irq
      /\ SameShift(m.via, w) /\ SameTimers(m.via, w)
      /\ w.gap = m.via.gap + c /\ w.vbl = m.via.vbl - c
      /\ w.rem = m.via.rem /\ w.lastZero = m.via.lastZero
  <2>1. m.via.gap + c \in Nat /\ m.via.vbl - c \in Int
    BY <1>0 DEF ViaState
  <2> QED BY <1>0, <2>1 DEF ViaState, SameShift, SameTimers
<1>4. k \in KbdState /\ SameKbd(m.kbd, k)
  <2>1. m.kbd.left \in 0 .. KbdDelay /\ m.kbd.inquiryLeft \in 0 .. KbdInquiry
    BY <1>0 DEF KbdState
  <2>2. Less(m.kbd.left, c) \in 0 .. KbdDelay /\ Less(m.kbd.inquiryLeft, c) \in 0 .. KbdInquiry
    BY <2>1 DEF Less
  <2> QED BY <1>0, <2>2 DEF KbdState, SameKbd, SameRing
<1> HIDE DEF w, k
<1>5. m' \in Machine /\ m'.via = w /\ m'.kbd = k
  BY <1>0, <1>2, <1>3, <1>4 DEF Machine
<1>6. LineRight(w)
  BY <1>0, <1>3 DEF LineRight
<1>7. MachineInv(m', guest', keys')
  BY <1>0, <1>1, <1>3, <1>4, <1>5, <1>6, Unmoved
<1>8. w.gap <= Interval
  <2>1. m.via.gap + c <= Interval
    BY DEF Run, Interval
  <2> QED BY <1>3, <2>1
<1>9. ClockInv'
  <2>1. m.via.gap \in Nat /\ m.via.vbl \in Int
    BY <1>0 DEF ViaState
  <2>2. w.vbl + w.gap > 0 /\ w.vbl <= VblCycles
    BY <1>0, <1>3, <2>1 DEF ClockInv
  <2> QED BY <1>1, <1>5, <1>8, <2>2 DEF ClockInv
<1>10. CASE ~(shot.one /\ shot.fired = 0)
  <2>1. shot' = shot
    BY <1>10 DEF Run
  <2>2. Armed' = Armed /\ (m'.via.free <=> m.via.free)
    BY <1>1, <1>3, <1>5 DEF Armed, SameTimers
  <2>3. ShotInv'
    BY <1>0, <1>1, <1>10, <2>1, <2>2 DEF ShotInv
  <2> QED BY <1>0, <1>1, <1>5, <1>7, <1>9, <2>1, <2>3 DEF Inv, Typed, KeysInOrder
<1>11. CASE shot.one /\ shot.fired = 0
  <2>1. /\ UsesTimer /\ (guest.who = "T1" => ~m.via.free) /\ shot.early = 0 /\ Armed
        /\ Balanced(m.via, Counter, shot.load, shot.age)
    BY <1>0, <1>11 DEF ShotInv
  <2>2. Counter \in Timer /\ shot.load \in Timer /\ shot.age \in Nat
    BY <1>0 DEF Counter, ViaState, Shots
  <2>3. w.gap <= MaxGap
    BY <1>8, <2>1 DEF Interval
  <2>4. /\ Min(shot.age + c, Never) = shot.age + c
        /\ Balanced(w, Counter, shot.load, shot.age + c)
    BY <1>0, <1>3, <2>1, <2>2, <2>3, Waits
  <2>5. shot' = [shot EXCEPT !.age = shot.age + c]
    BY <1>11, <2>4 DEF Run
  <2>6. /\ shot' \in Shots /\ shot'.one /\ shot'.fired = 0 /\ shot'.early = 0
        /\ shot'.load = shot.load /\ shot'.age = shot.age + c
    BY <1>0, <1>11, <2>1, <2>2, <2>5 DEF Shots
  <2>7. Counter' = Counter /\ Armed' = Armed /\ (m'.via.free <=> m.via.free)
    BY <1>1, <1>3, <1>5 DEF Counter, Armed, SameTimers
  <2>8. Balanced(m'.via, Counter', shot'.load, shot'.age)
    BY <1>5, <2>4, <2>6, <2>7
  <2>9. ShotInv'
    BY <1>1, <2>1, <2>6, <2>7, <2>8 DEF ShotInv
  <2> QED BY <1>0, <1>1, <1>5, <1>7, <1>9, <2>6, <2>9 DEF Inv, Typed, KeysInOrder
<1> QED BY <1>10, <1>11

\* The arithmetic of a tick that counts n down from c: the balance is kept when the
\* counter does not come to 0, and when it does the time waited is that of the load, but
\* for one interval and one count.
LEMMA Counted ==
    ASSUME NEW v \in ViaState, NEW w \in ViaState, NEW c \in Timer, NEW load \in Timer,
           NEW age \in Nat, NEW n \in Nat, Balanced(v, c, load, age),
           v.rem + ElapsedCycles(v) = Divider * n + w.rem, w.gap = 0, ~w.lastZero
    PROVE  /\ n < c \/ n = 0 => Balanced(w, c - n, load, age)
           /\ n >= c => Less(Divider * load, age) \in 0 .. (MaxGap + Divider - 1)
<1> USE Parameters
<1>0. /\ v.rem \in 0 .. (Divider - 1) /\ w.rem \in 0 .. (Divider - 1)
      /\ ElapsedCycles(v) \in Nat /\ c \in Nat /\ load \in Nat
  BY DEF ViaState, ElapsedCycles, Timer
<1>1. PICK x \in Nat, y \in Nat, z \in Nat, e \in Nat :
         /\ x = Divider * c /\ y = Divider * load /\ z = Divider * n
         /\ e = ElapsedCycles(v)
  BY <1>0
<1>2. /\ age + (x - v.rem - e) > y - Divider - MaxGap
      /\ age + (x - v.rem - e) <= y + MaxGap
  BY <1>1 DEF Balanced, Owed
<1>3. v.rem + e = z + w.rem
  BY <1>1
<1>4. Divider * (c - n) = x - z
  BY <1>0, <1>1
<1>5. Owed(w, c - n) = x - z - w.rem
  <2>1. ElapsedCycles(w) = 0
    BY DEF ElapsedCycles
  <2> QED BY <1>0, <1>1, <1>4, <2>1 DEF Owed
<1>6. Balanced(w, c - n, load, age)
  <2>1. x - z - w.rem = x - v.rem - e
    BY <1>0, <1>1, <1>3
  <2> QED BY <1>1, <1>2, <1>5, <2>1 DEF Balanced
<1>7. ASSUME n >= c PROVE Less(Divider * load, age) \in 0 .. (MaxGap + Divider - 1)
  <2>1. z >= x
    <3>1. Divider * (n - c) = z - x /\ n - c \in Nat
      BY <1>0, <1>1, <1>7
    <3>2. Divider * (n - c) >= 0
      BY <3>1
    <3> QED BY <1>1, <3>1, <3>2
  <2>2. age > y - Divider - MaxGap
    BY <1>0, <1>1, <1>2, <1>3, <2>1
  <2>3. Less(y, age) \in 0 .. (MaxGap + Divider - 1)
    BY <2>2 DEF Less
  <2> QED BY <1>1, <2>3
<1> QED BY <1>6, <1>7

\* mac_mem_tick.
LEMMA TickStep ==
    ASSUME Inv, Tick
    PROVE  Inv'
<1> USE Parameters
<1>0. /\ m \in Machine /\ m.via \in ViaState /\ m.kbd \in KbdState
      /\ guest \in Guests /\ keys \in KeyCounts /\ shot \in Shots
      /\ LineRight(m.via) /\ MachineInv(m, guest, keys) /\ ClockInv /\ ShotInv /\ KeysInOrder
  BY Parts
<1>1. guest' = guest /\ keys' = keys /\ UsesTimer' = UsesTimer /\ Interval' = Interval
  BY DEF Tick, UsesTimer, Interval
<1> DEFINE v == m.via
           w == ViaTick(m.via)
           n == Counts(m.via)
           N == [m EXCEPT !.via = w]
<1>2. m' = KbdTick(N)
  BY DEF Tick
<1>3. v \in ViaState /\ LineRight(v) /\ v.vbl <= VblCycles /\ v.gap > 0
  BY <1>0 DEF ClockInv, Tick
<1>4. /\ w \in ViaState /\ LineRight(w) /\ w.ier = v.ier /\ w.free = v.free
      /\ SameShift(v, w) /\ ("SR" \in w.ifr <=> "SR" \in v.ifr)
      /\ w.gap = 0 /\ ~w.lastZero /\ w.vbl \in 1 .. VblCycles
      /\ n \in Nat /\ v.rem + ElapsedCycles(v) = Divider * n + w.rem
      /\ n = 0 => SameTimers(v, w)
      /\ n > 0 =>
            /\ v.t1armed /\ n < v.t1c => w.t1armed /\ w.t1c = v.t1c - n
            /\ v.t2armed /\ n < v.t2c => w.t2armed /\ w.t2c = v.t2c - n
            /\ ~v.free /\ n >= v.t1c => ~w.t1armed
            /\ ~v.t1armed => ~w.t1armed
            /\ n >= v.t2c \/ ~v.t2armed => ~w.t2armed
  BY <1>3, ViaTickFacts
<1>5. Fires <=> /\ n > 0
                /\ \/ guest.who = "T1" /\ v.t1armed /\ n >= v.t1c
                   \/ guest.who = "T2" /\ v.t2armed /\ n >= v.t2c
  BY DEF Fires
<1> HIDE DEF w, n
<1>6. N \in Machine /\ N.via = w /\ N.kbd = m.kbd
  BY <1>0, <1>4, ViaChange
<1>7. MachineInv(N, guest, keys)
  <2>1. SameKbd(m.kbd, N.kbd)
    BY <1>6 DEF SameKbd, SameRing
  <2> QED BY <1>0, <1>4, <1>6, <2>1, Unmoved
<1> HIDE DEF N
<1>8. MachineInv(m', guest, keys) /\ SameRest(N, m')
  BY <1>0, <1>2, <1>7, KbdTickOk
<1>9. m' \in Machine /\ m'.via \in ViaState /\ SameTimers(w, m'.via) /\ SameClock(w, m'.via)
  BY <1>6, <1>8 DEF MachineInv, Machine, SameRest
<1>10. ClockInv'
  <2>1. 0 <= Interval /\ w.vbl + 0 > 0 /\ w.vbl <= VblCycles
    BY <1>4 DEF Interval
  <2> QED BY <1>1, <1>4, <1>9, <2>1 DEF ClockInv, SameClock
<1>11. SUFFICES shot' \in Shots /\ ShotInv'
  BY <1>0, <1>1, <1>8, <1>9, <1>10 DEF Inv, Typed, KeysInOrder
<1>12. CASE ~shot.one
  <2>1. shot' = shot
    BY <1>12 DEF Tick
  <2> QED BY <1>0, <1>12, <2>1 DEF ShotInv
<1>13. CASE shot.one
  <2> DEFINE T1 == guest.who = "T1"
  <2>1. UsesTimer /\ (T1 => ~v.free) /\ (~T1 => guest.who = "T2")
    BY <1>0, <1>13 DEF ShotInv, UsesTimer, TimerNames
  <2>2. /\ Counter = IF T1 THEN v.t1c ELSE v.t2c
        /\ Counter' = IF T1 THEN w.t1c ELSE w.t2c
        /\ (Armed <=> IF T1 THEN v.t1armed ELSE v.t2armed)
        /\ (Armed' <=> IF T1 THEN w.t1armed ELSE w.t2armed)
    BY <1>1, <1>9 DEF Counter, Armed, SameTimers
  <2>3. (T1 => ~m'.via.free) /\ UsesTimer'
    BY <1>1, <1>4, <1>9, <2>1 DEF SameTimers
  <2>4. Counter \in Timer /\ Counter \in Nat /\ shot.load \in Timer /\ shot.age \in Nat
    BY <1>0 DEF Counter, ViaState, Shots, Timer
  <2>5. Fires <=> n > 0 /\ Armed /\ n >= Counter
    BY <1>5, <2>1, <2>2
  <2>6. /\ n = 0 => Counter' = Counter /\ (Armed' <=> Armed)
        /\ n > 0 /\ Armed /\ n < Counter => Armed' /\ Counter' = Counter - n
        /\ n > 0 /\ (n >= Counter \/ ~Armed) => ~Armed'
    BY <1>4, <2>1, <2>2 DEF SameTimers
  <2> HIDE DEF T1, v
  <2>7. CASE shot.fired = 1 /\ shot.early < MaxGap + Divider /\ ~Armed
    <3>1. shot' = shot /\ ~Armed'
      BY <1>4, <2>5, <2>6, <2>7 DEF Tick
    <3> QED BY <1>0, <1>1, <1>13, <2>3, <2>7, <3>1 DEF ShotInv, T1
  <2>8. CASE /\ shot.fired = 0 /\ shot.early = 0 /\ Armed
             /\ Balanced(m.via, Counter, shot.load, shot.age)
    <3>1. /\ n < Counter \/ n = 0 => Balanced(w, Counter - n, shot.load, shot.age)
          /\ n >= Counter => Less(Divider * shot.load, shot.age) \in 0 .. (MaxGap + Divider - 1)
      BY <1>0, <1>4, <2>4, <2>8, Counted DEF v
    <3>2. CASE Fires
      <4>1. n > 0 /\ n >= Counter /\ ~Armed'
        BY <2>5, <2>6, <3>2
      <4> DEFINE early == Less(Divider * shot.load, shot.age)
      <4>2. early \in Nat /\ early < MaxGap + Divider
        BY <3>1, <4>1
      <4>3. shot' = [shot EXCEPT !.fired = 1, !.age = 0, !.early = early]
        <5>1. Min(shot.fired + 1, 2) = 1
          BY <2>8 DEF Min
        <5> QED BY <1>13, <3>2, <5>1 DEF Tick
      <4> HIDE DEF early
      <4>4. 1 \in 0 .. 2 /\ 0 \in Nat
        OBVIOUS
      <4>5. shot' \in Shots /\ shot'.fired = 1 /\ shot'.early = early
        BY <1>0, <4>2, <4>3, <4>4 DEF Shots
      <4> QED BY <1>1, <2>3, <4>1, <4>2, <4>5 DEF ShotInv, T1
    <3>3. CASE ~Fires
      <4>1. shot' = shot
        BY <3>3 DEF Tick
      <4>2. n = 0 \/ n < Counter
        BY <1>4, <2>4, <2>5, <2>8, <3>3
      <4>3. Armed' /\ Counter' = Counter - n
        BY <1>4, <2>4, <2>6, <2>8, <4>2
      <4>4. Balanced(w, Counter - n, shot.load, shot.age)
        BY <3>1, <4>2
      <4>5. Balanced(m'.via, Counter', shot'.load, shot'.age)
        BY <1>9, <4>1, <4>3, <4>4 DEF Balanced, Owed, ElapsedCycles, SameClock
      <4> QED BY <1>0, <1>1, <2>3, <2>8, <4>1, <4>3, <4>5 DEF ShotInv, T1
    <3> QED BY <3>2, <3>3
  <2> QED BY <1>0, <1>13, <2>7, <2>8 DEF ShotInv
<1> QED BY <1>12, <1>13

-----------------------------------------------------------------------------
(* Guests that program a timer *)

\* A register access of such a guest leaves the shift register and the clock alone.
LEMMA TimerAccess ==
    ASSUME Inv, NEW who \in SUBSET TimerNames, NEW v \in ViaState, Timers(who, v),
           LineRight(v), SameShift(m.via, v), SameClock(m.via, v)
    PROVE  /\ m'.via = v /\ m' \in Machine /\ MachineInv(m', guest', keys')
           /\ guest' = guest /\ keys' = keys /\ UsesTimer /\ UsesTimer'
           /\ guest \in Guests /\ keys \in KeyCounts /\ ClockInv' /\ KeysInOrder'
<1>0. /\ m \in Machine /\ guest \in Guests /\ keys \in KeyCounts
      /\ MachineInv(m, guest, keys) /\ ClockInv /\ KeysInOrder
  BY Parts
<1>1. /\ guest' = guest /\ keys' = keys /\ guest.who \in TimerNames
      /\ m' = [m EXCEPT !.via = v]
  BY DEF Timers
<1>2. UsesTimer /\ UsesTimer' /\ guest.who # "rom"
  BY <1>1 DEF UsesTimer, TimerNames
<1>3. m' \in Machine /\ m'.via = v /\ m'.kbd = m.kbd
  BY <1>0, <1>1, ViaChange
<1>4. SameKbd(m.kbd, m'.kbd)
  BY <1>3 DEF SameKbd, SameRing
<1>5. MachineInv(m', guest', keys')
  BY <1>0, <1>1, <1>2, <1>3, <1>4, Unmoved
<1>6. ClockInv' /\ KeysInOrder'
  BY <1>0, <1>1, <1>2, <1>3 DEF ClockInv, Interval, SameClock, KeysInOrder
<1> QED BY <1>0, <1>1, <1>2, <1>3, <1>5, <1>6

\* An access that leaves the timers alone too.
LEMMA QuietAccess ==
    ASSUME Inv, NEW who \in SUBSET TimerNames, NEW v \in ViaState, Timers(who, v),
           LineRight(v), SameShift(m.via, v), SameClock(m.via, v), SameTimers(m.via, v),
           shot' = shot
    PROVE  Inv'
<1>1. ClockInv /\ ShotInv /\ shot \in Shots
  BY Parts
<1>2. /\ m'.via = v /\ m' \in Machine /\ MachineInv(m', guest', keys')
      /\ guest' = guest /\ keys' = keys
      /\ guest \in Guests /\ keys \in KeyCounts /\ ClockInv' /\ KeysInOrder'
  BY TimerAccess
<1>3. ShotInv'
  BY <1>1, <1>2, ShotKept
<1> QED BY <1>1, <1>2, <1>3 DEF Inv, Typed

\* A one-shot that is started now owes its load.
LEMMA Started ==
    ASSUME NEW v \in ViaState, NEW n \in Timer, v.gap <= MaxGap
    PROVE  Balanced(v, n, n, 0) /\ Shot(n) \in Shots
<1> USE Parameters
<1>0. v.rem \in 0 .. (Divider - 1) /\ v.gap \in Nat /\ v.lastZero \in BOOLEAN /\ n \in Nat
  BY DEF ViaState, Timer
<1>1. ElapsedCycles(v) \in Nat /\ ElapsedCycles(v) <= MaxGap
  BY <1>0 DEF ElapsedCycles
<1>2. PICK x \in Nat, e \in Nat : x = Divider * n /\ e = ElapsedCycles(v)
  <2>1. Divider * n \in Nat
    BY <1>0
  <2> QED BY <1>1, <2>1
<1>3. 0 + (x - v.rem - e) > x - Divider - MaxGap /\ 0 + (x - v.rem - e) <= x + MaxGap
  BY <1>0, <1>1, <1>2
<1>4. Balanced(v, n, n, 0)
  BY <1>0, <1>2, <1>3 DEF Balanced, Owed
<1>5. 0 \in Nat /\ 0 \in 0 .. 2
  OBVIOUS
<1> QED BY <1>4, <1>5 DEF Shot, NoShot, Shots

\* No one-shot is a shot.
LEMMA NoShotIsShot == NoShot \in Shots /\ ~NoShot.one
<1>1. 0 \in Nat /\ 0 \in 0 .. 2 /\ 0 \in Timer
  BY Parameters DEF Timer
<1> QED BY <1>1 DEF NoShot, Shots

\* The guest starts a timer, sets the latch or the mode of T1, or serves its flags.
LEMMA TimerGuestStep ==
    ASSUME Inv, TimerGuest
    PROVE  Inv'
<1> USE Parameters
<1> DEFINE u == m.via
<1>0. /\ u \in ViaState /\ LineRight(u) /\ ClockInv /\ ShotInv /\ shot \in Shots
      /\ u.ifr \subseteq Irqs /\ u.ier \subseteq Irqs /\ u.gap \in Nat
  BY Parts DEF ViaState
<1>t. {"T1"} \in SUBSET TimerNames /\ {"T2"} \in SUBSET TimerNames
      /\ {"T1"} \in SUBSET Irqs /\ {"T2"} \in SUBSET Irqs
  BY DEF TimerNames, Irqs
<1>1. CASE StartT1
  <2>1. PICK n \in Loads : /\ Timers({"T1"}, WriteT1Counter(u, n))
                           /\ shot' = IF u.free THEN NoShot ELSE Shot(n)
    BY <1>1 DEF StartT1
  <2> DEFINE a == [u EXCEPT !.t1l = n, !.t1c = n, !.t1armed = TRUE]
             v == WriteT1Counter(u, n)
  <2>2. n \in Timer
    OBVIOUS
  <2>3. /\ a \in ViaState /\ SameShift(u, a) /\ SameClock(u, a) /\ a.t1c = n /\ a.t1armed
        /\ a.free = u.free
    BY <1>0, <2>2 DEF ViaState, SameShift, SameClock
  <2>4. v = Clear(a, {"T1"})
    BY DEF WriteT1Counter
  <2> HIDE DEF a, v
  <2>5. /\ v \in ViaState /\ LineRight(v) /\ SameShift(a, v) /\ SameClock(a, v)
        /\ SameTimers(a, v)
    BY <1>t, <2>3, <2>4, FlagFacts
  <2>6. SameShift(u, v) /\ SameClock(u, v) /\ v.t1c = n /\ v.t1armed /\ v.free = u.free
    BY <2>3, <2>5 DEF SameShift, SameClock, SameTimers
  <2>7. Timers({"T1"}, v)
    BY <2>1 DEF v
  <2>8. /\ m'.via = v /\ m' \in Machine /\ MachineInv(m', guest', keys')
        /\ guest' = guest /\ keys' = keys /\ UsesTimer /\ UsesTimer'
        /\ guest \in Guests /\ keys \in KeyCounts /\ ClockInv' /\ KeysInOrder'
    BY <1>t, <2>5, <2>6, <2>7, TimerAccess
  <2>9. guest.who = "T1"
    BY <2>7 DEF Timers
  <2>10. SUFFICES shot' \in Shots /\ ShotInv'
    BY <2>8 DEF Inv, Typed
  <2>11. CASE u.free
    <3>1. shot' = NoShot
      BY <2>1, <2>11
    <3> QED BY <3>1, NoShotIsShot DEF ShotInv
  <2>12. CASE ~u.free
    <3>1. v.gap <= MaxGap
      BY <1>0, <2>6, <2>8 DEF ClockInv, Interval, SameClock
    <3>2. Balanced(v, n, n, 0) /\ Shot(n) \in Shots
      BY <2>2, <2>5, <3>1, Started
    <3>3. shot' = Shot(n)
      BY <2>1, <2>12
    <3>4. /\ shot'.fired = 0 /\ shot'.early = 0 /\ shot'.load = n /\ shot'.age = 0
      BY <3>3 DEF Shot, NoShot
    <3>5. Counter' = n /\ Armed' /\ ~m'.via.free
      BY <2>6, <2>8, <2>9, <2>12 DEF Counter, Armed
    <3> QED BY <2>8, <3>2, <3>3, <3>4, <3>5 DEF ShotInv
  <2> QED BY <1>0, <2>11, <2>12
<1>2. CASE StartT2
  <2>1. PICK n \in Loads : Timers({"T2"}, WriteT2Counter(u, n)) /\ shot' = Shot(n)
    BY <1>2 DEF StartT2
  <2> DEFINE a == [u EXCEPT !.t2c = n, !.t2armed = TRUE]
             v == WriteT2Counter(u, n)
  <2>2. n \in Timer
    OBVIOUS
  <2>3. a \in ViaState /\ SameShift(u, a) /\ SameClock(u, a) /\ a.t2c = n /\ a.t2armed
    BY <1>0, <2>2 DEF ViaState, SameShift, SameClock
  <2>4. v = Clear(a, {"T2"})
    BY DEF WriteT2Counter
  <2> HIDE DEF a, v
  <2>5. /\ v \in ViaState /\ LineRight(v) /\ SameShift(a, v) /\ SameClock(a, v)
        /\ SameTimers(a, v)
    BY <1>t, <2>3, <2>4, FlagFacts
  <2>6. SameShift(u, v) /\ SameClock(u, v) /\ v.t2c = n /\ v.t2armed
    BY <2>3, <2>5 DEF SameShift, SameClock, SameTimers
  <2>7. Timers({"T2"}, v)
    BY <2>1 DEF v
  <2>8. /\ m'.via = v /\ m' \in Machine /\ MachineInv(m', guest', keys')
        /\ guest' = guest /\ keys' = keys /\ UsesTimer /\ UsesTimer'
        /\ guest \in Guests /\ keys \in KeyCounts /\ ClockInv' /\ KeysInOrder'
    BY <1>t, <2>5, <2>6, <2>7, TimerAccess
  <2>9. guest.who = "T2"
    BY <2>7 DEF Timers
  <2>10. v.gap <= MaxGap
    BY <1>0, <2>6, <2>8 DEF ClockInv, Interval, SameClock
  <2>11. Balanced(v, n, n, 0) /\ Shot(n) \in Shots
    BY <2>2, <2>5, <2>10, Started
  <2>12. /\ shot' = Shot(n)
         /\ shot'.fired = 0 /\ shot'.early = 0 /\ shot'.load = n /\ shot'.age = 0
    BY <2>1 DEF Shot, NoShot
  <2>13. Counter' = n /\ Armed'
    BY <2>6, <2>8, <2>9 DEF Counter, Armed
  <2>14. ShotInv'
    BY <2>8, <2>9, <2>11, <2>12, <2>13 DEF ShotInv
  <2> QED BY <2>8, <2>11, <2>12, <2>14 DEF Inv, Typed
<1>3. CASE SetT1Latch
  <2>1. PICK n \in Loads : Timers({"T1"}, WriteT1Latch(u, n)) /\ shot' = shot
    BY <1>3 DEF SetT1Latch
  <2> DEFINE v == WriteT1Latch(u, n)
  <2>2. n \in Timer
    OBVIOUS
  <2>3. /\ v \in ViaState /\ SameShift(u, v) /\ SameClock(u, v) /\ SameTimers(u, v)
        /\ v.ifr = u.ifr /\ v.ier = u.ier /\ v.irq = u.irq
    BY <1>0, <2>2 DEF WriteT1Latch, ViaState, SameShift, SameClock, SameTimers
  <2>4. LineRight(v)
    BY <1>0, <2>3 DEF LineRight
  <2> HIDE DEF v
  <2>5. Timers({"T1"}, v)
    BY <2>1 DEF v
  <2> QED BY <1>t, <2>1, <2>3, <2>4, <2>5, QuietAccess
<1>4. CASE SetFree
  <2>1. PICK b \in BOOLEAN : Timers({"T1"}, WriteFree(u, b)) /\ shot' = NoShot
    BY <1>4 DEF SetFree
  <2> DEFINE v == WriteFree(u, b)
  <2>2. /\ v \in ViaState /\ SameShift(u, v) /\ SameClock(u, v)
        /\ v.ifr = u.ifr /\ v.ier = u.ier /\ v.irq = u.irq
    BY <1>0 DEF WriteFree, ViaState, SameShift, SameClock
  <2>3. LineRight(v)
    BY <1>0, <2>2 DEF LineRight
  <2> HIDE DEF v
  <2>4. Timers({"T1"}, v)
    BY <2>1 DEF v
  <2>5. /\ m'.via = v /\ m' \in Machine /\ MachineInv(m', guest', keys')
        /\ guest' = guest /\ keys' = keys
        /\ guest \in Guests /\ keys \in KeyCounts /\ ClockInv' /\ KeysInOrder'
    BY <1>t, <2>2, <2>3, <2>4, TimerAccess
  <2>6. shot' \in Shots /\ ShotInv'
    BY <2>1, NoShotIsShot DEF ShotInv
  <2> QED BY <2>5, <2>6 DEF Inv, Typed
<1>5. CASE EnableIrq
  <2>1. PICK b \in BOOLEAN, i \in {"CA1", guest.who} :
           Timers(TimerNames, WriteIer(u, b, {i})) /\ shot' = shot
    BY <1>5 DEF EnableIrq
  <2> DEFINE e == IF b THEN u.ier \cup {i} ELSE u.ier \ {i}
             a == [u EXCEPT !.ier = e]
             v == WriteIer(u, b, {i})
  <2>2. i \in Irqs
    BY <2>1 DEF Timers, TimerNames, Irqs
  <2>3. e \in SUBSET Irqs
    BY <1>0, <2>2
  <2>4. v = RecalcIrq(a)
    BY DEF WriteIer
  <2> HIDE DEF e
  <2>5. a \in ViaState /\ SameShift(u, a) /\ SameClock(u, a) /\ SameTimers(u, a)
    BY <1>0, <2>3 DEF ViaState, SameShift, SameClock, SameTimers
  <2> HIDE DEF a, v
  <2>6. v \in ViaState /\ LineRight(v) /\ SameShift(a, v) /\ SameClock(a, v) /\ SameTimers(a, v)
    <3>1. {} \in SUBSET Irqs
      OBVIOUS
    <3> QED BY <2>4, <2>5, <3>1, FlagFacts
  <2>7. SameShift(u, v) /\ SameClock(u, v) /\ SameTimers(u, v)
    BY <2>5, <2>6 DEF SameShift, SameClock, SameTimers
  <2>8. Timers(TimerNames, v) /\ TimerNames \in SUBSET TimerNames
    BY <2>1 DEF v
  <2> QED BY <2>1, <2>6, <2>7, <2>8, QuietAccess
<1>6. CASE Acknowledge
  <2>1. shot' = shot /\ TimerNames \in SUBSET TimerNames
    BY <1>6 DEF Acknowledge
  <2>2. CASE \E reg \in {"ora", "orb", "t1cl", "t2cl"} :
                 Timers(TimerNames, ReadRegister(u, reg))
    <3>1. PICK reg \in {"ora", "orb", "t1cl", "t2cl"} :
             Timers(TimerNames, ReadRegister(u, reg))
      BY <2>2
    <3> DEFINE v == ReadRegister(u, reg)
    <3>2. reg \in {"orb", "ora", "t1cl", "t2cl", "sr"}
      OBVIOUS
    <3>3. v \in ViaState /\ LineRight(v) /\ SameShift(u, v) /\ SameTimers(u, v) /\ SameClock(u, v)
      BY <1>0, <3>2, ReadFacts
    <3>4. Timers(TimerNames, v)
      BY <3>1
    <3> HIDE DEF v
    <3> QED BY <2>1, <3>3, <3>4, QuietAccess
  <2>3. CASE \E i \in {"CA1", guest.who} : Timers(TimerNames, WriteIfr(u, {i}))
    <3>1. PICK i \in {"CA1", guest.who} : Timers(TimerNames, WriteIfr(u, {i}))
      BY <2>3
    <3> DEFINE v == WriteIfr(u, {i})
    <3>2. {i} \in SUBSET Irqs
      BY <3>1 DEF Timers, TimerNames, Irqs
    <3>3. v \in ViaState /\ LineRight(v) /\ SameShift(u, v) /\ SameTimers(u, v) /\ SameClock(u, v)
      BY <1>0, <3>2, FlagFacts DEF WriteIfr
    <3>4. Timers(TimerNames, v)
      BY <3>1
    <3> HIDE DEF v
    <3> QED BY <2>1, <3>3, <3>4, QuietAccess
  <2> QED BY <1>6, <2>2, <2>3 DEF Acknowledge
<1> QED BY <1>1, <1>2, <1>3, <1>4, <1>5, <1>6 DEF TimerGuest

-----------------------------------------------------------------------------
(* The guest that follows the ROM's protocol *)

\* Where the key event is depends on the ring, the second half and the reply held.
LEMMA SameAnswers ==
    ASSUME NEW M, NEW R, NEW g, NEW h, NEW ks, h.cmd = g.cmd,
           SameRing(M.kbd, R.kbd), R.kbd.instant = M.kbd.instant
    PROVE  /\ Asked(R, h, ks) <=> Asked(M, g, ks)
           /\ NothingFlies(R, ks) <=> NothingFlies(M, ks)
           /\ \A byte : Answer(R, h, ks, byte) <=> Answer(M, g, ks, byte)
<1>1. Taken(R, ks) = Taken(M, ks)
  BY DEF Taken, SameRing, Count, Behind
<1> QED BY <1>1 DEF Asked, Answer, NothingFlies, KeyFlies

\* The guest that follows the protocol leaves the timers alone.
LEMMA RomFrame ==
    ASSUME Inv, m' \in Machine, guest' \in Guests, guest'.who = guest.who,
           keys' \in KeyCounts, shot' = shot, KeysInOrder',
           MachineInv(m', guest', keys'), SameRest(m, m')
    PROVE  Inv'
<1>1. ClockInv /\ ShotInv /\ shot \in Shots
  BY Parts
<1>2. ClockInv' /\ ShotInv'
  BY <1>1, ShotKept DEF SameRest
<1> QED BY <1>1, <1>2 DEF Inv, Typed

\* The guest pulls CB2 low and puts its command into the shift register.
LEMMA SendStep ==
    ASSUME Inv, SendCommand
    PROVE  Inv'
<1> DEFINE A == WriteAcr(m, 6)
           B == WriteSr(A, Zero)
           C == WriteAcr(B, 7)
           D == WriteSr(C, guest.cmd)
           g == [guest EXCEPT !.at = "sent"]
<1>0. /\ m \in Machine /\ guest \in Guests /\ keys \in KeyCounts /\ LineRight(m.via)
      /\ Protocol(m.kbd) /\ RingHolds(m.kbd, keys.accepted) /\ MachineInv(m, guest, keys)
      /\ KeysInOrder
  BY Parts
<1>1. /\ guest.who = "rom" /\ guest.at = "idle" /\ shot' = shot
      /\ m' = D /\ guest' = g /\ keys' = keys
  BY DEF SendCommand, RomAt
<1>2. "SR" \in m.via.ier /\ AtIdle(m, guest, keys)
  BY <1>0, <1>1 DEF MachineInv, Exchange
<1>3. /\ 6 \in Modes /\ 7 \in Modes /\ IsOutput(6) /\ IsOutput(7)
      /\ Zero \in Bytes /\ guest.cmd \in Bytes
  BY <1>0, ByteFacts DEF Modes, IsOutput, Guests, Commands
<1>4. /\ A \in Machine /\ LineRight(A.via) /\ Protocol(A.kbd) /\ SameRest(m, A)
      /\ A.kbd = m.kbd /\ A.via.mode = 6
  BY <1>0, <1>3, WriteAcrFacts
<1> HIDE DEF A
<1>5. /\ B \in Machine /\ LineRight(B.via) /\ Protocol(B.kbd) /\ SameRest(A, B)
      /\ SameRing(A.kbd, B.kbd) /\ B.kbd.instant = A.kbd.instant
      /\ B.kbd.have = A.kbd.have /\ B.via.mode = 6 /\ B.via.icb2 = 0
      /\ A.kbd.state = "idle" => \/ B.kbd = A.kbd
                                 \/ B.kbd.state = "rx_cmd" /\ ~B.kbd.pending
  BY <1>3, <1>4, WriteSrFacts
<1> HIDE DEF B
<1>6. /\ C \in Machine /\ LineRight(C.via) /\ Protocol(C.kbd) /\ SameRest(B, C)
      /\ C.kbd = B.kbd /\ C.via.mode = 7 /\ C.via.icb2 = 0
  BY <1>3, <1>5, WriteAcrFacts
<1> HIDE DEF C
<1>7. /\ D \in Machine /\ LineRight(D.via) /\ Protocol(D.kbd) /\ SameRest(C, D)
      /\ D.kbd = C.kbd /\ D.via.mode = 7 /\ D.via.icb2 = 0 /\ D.via.sr = guest.cmd
      /\ D.via.ifr = C.via.ifr \ {"SR"}
  BY <1>3, <1>6, WriteSrFacts
<1> HIDE DEF D
<1>8. SameRest(m, D)
  BY <1>4, <1>5, <1>6, <1>7 DEF SameRest, SameTimers, SameClock
<1>9. SameRing(m.kbd, D.kbd) /\ D.kbd.instant = m.kbd.instant /\ D.kbd.have = m.kbd.have
  BY <1>4, <1>5, <1>6, <1>7
<1>10. RingHolds(D.kbd, keys.accepted)
  BY <1>0, <1>9, RingKept
<1>11. g \in Guests /\ g.who = "rom" /\ g.cmd = guest.cmd /\ g.at = "sent"
  BY <1>0, <1>1 DEF Guests
<1>12. Asked(D, g, keys)
  BY <1>2, <1>9, <1>11, SameAnswers DEF AtIdle
<1>13. AtSent(D, g, keys)
  <2>1. m.kbd.state = "idle" /\ Quiet(m)
    BY <1>2 DEF AtIdle
  <2>2. D.kbd = m.kbd \/ (D.kbd.state = "rx_cmd" /\ ~D.kbd.pending)
    BY <1>4, <1>5, <1>6, <1>7, <2>1
  <2>3. "SR" \notin D.via.ifr
    BY <1>7
  <2> QED BY <1>7, <1>11, <1>12, <2>1, <2>2, <2>3 DEF AtSent, Quiet
<1>14. MachineInv(D, g, keys)
  <2>1. Exchange(D, g, keys)
    BY <1>2, <1>8, <1>11, <1>13 DEF Exchange, SameRest
  <2> QED BY <1>7, <1>10, <2>1 DEF MachineInv
<1>15. KeysInOrder'
  BY <1>0, <1>1 DEF KeysInOrder
<1> HIDE DEF g
<1> QED BY <1>0, <1>1, <1>7, <1>8, <1>11, <1>14, <1>15, RomFrame

\* The keyboard has the command; the guest listens for the reply.
LEMMA TakenStep ==
    ASSUME Inv, CommandTaken
    PROVE  Inv'
<1> DEFINE v == ReadRegister(m.via, "sr")
           A == [m EXCEPT !.via = v]
           D == WriteAcr(A, 3)
           g == [guest EXCEPT !.at = "listen"]
<1>0. /\ m \in Machine /\ guest \in Guests /\ keys \in KeyCounts /\ m.via \in ViaState
      /\ Protocol(m.kbd) /\ RingHolds(m.kbd, keys.accepted) /\ MachineInv(m, guest, keys)
      /\ KeysInOrder
  BY Parts
<1>1. /\ guest.who = "rom" /\ guest.at = "sent" /\ shot' = shot /\ "SR" \in m.via.ifr
      /\ m' = D /\ guest' = g /\ keys' = keys
  BY DEF CommandTaken, RomAt, SrIrq
<1>2. "SR" \in m.via.ier /\ AtSent(m, guest, keys)
  BY <1>0, <1>1 DEF MachineInv, Exchange
<1>3. /\ m.via.mode = 7 /\ m.via.icb2 = 0 /\ m.kbd.state = "got_cmd" /\ Held(m, guest, keys)
  BY <1>1, <1>2 DEF AtSent
<1>4. /\ v \in ViaState /\ LineRight(v) /\ v.ier = m.via.ier /\ SameShift(m.via, v)
      /\ SameTimers(m.via, v) /\ SameClock(m.via, v) /\ v.ifr = m.via.ifr \ {"SR"}
  BY <1>0, ReadFacts
<1> HIDE DEF v
<1>5. A \in Machine /\ A.via = v /\ A.kbd = m.kbd
  BY <1>0, <1>4, ViaChange
<1> HIDE DEF A
<1>6. /\ 3 \in Modes /\ ~IsOutput(3) /\ IsOutput(A.via.mode) /\ A.via.icb2 = 0
  BY <1>3, <1>4, <1>5 DEF Modes, IsOutput, SameShift
<1>7. /\ D \in Machine /\ LineRight(D.via) /\ Protocol(D.kbd) /\ SameRest(A, D)
      /\ SameRing(m.kbd, D.kbd) /\ D.kbd.instant = m.kbd.instant
      /\ D.kbd.have = m.kbd.have /\ D.kbd.result = m.kbd.result
      /\ D.via.mode = 3 /\ D.via.icb2 = 1 /\ D.via.ifr = v.ifr
      /\ D.kbd.state = "rx_end" /\ D.kbd.pending = m.kbd.pending
  BY <1>0, <1>3, <1>4, <1>5, <1>6, WriteAcrFacts
<1> HIDE DEF D
<1>8. SameRest(m, D)
  BY <1>4, <1>5, <1>7 DEF SameRest, SameTimers, SameClock
<1>9. g \in Guests /\ g.who = "rom" /\ g.cmd = guest.cmd /\ g.at = "listen"
  BY <1>0, <1>1 DEF Guests
<1>10. Held(D, g, keys)
  <2>1. /\ NothingFlies(D, keys) <=> NothingFlies(m, keys)
        /\ \A byte : Answer(D, g, keys, byte) <=> Answer(m, guest, keys, byte)
    BY <1>7, <1>9, SameAnswers
  <2> QED BY <1>3, <1>7, <1>9, <2>1 DEF Held, Open
<1>11. AtListen(D, g, keys)
  BY <1>4, <1>7, <1>10 DEF AtListen
<1>12. MachineInv(D, g, keys)
  <2>1. Exchange(D, g, keys)
    BY <1>2, <1>8, <1>9, <1>11 DEF Exchange, SameRest
  <2>2. RingHolds(D.kbd, keys.accepted)
    BY <1>0, <1>7, RingKept
  <2> QED BY <1>7, <2>1, <2>2 DEF MachineInv
<1>13. KeysInOrder'
  BY <1>0, <1>1 DEF KeysInOrder
<1> HIDE DEF g
<1> QED BY <1>0, <1>1, <1>7, <1>8, <1>9, <1>12, <1>13, RomFrame

\* The guest waits in vain only if the keyboard did not see the command, because CB2 was
\* low already, as it is after power-up.
LEMMA TimeoutStep ==
    ASSUME Inv, Timeout
    PROVE  Inv'
<1> DEFINE D == WriteAcr(m, 3)
           g == [guest EXCEPT !.at = "idle"]
<1>0. /\ m \in Machine /\ guest \in Guests /\ keys \in KeyCounts /\ LineRight(m.via)
      /\ Protocol(m.kbd) /\ RingHolds(m.kbd, keys.accepted) /\ MachineInv(m, guest, keys)
      /\ KeysInOrder
  BY Parts
<1>1. /\ guest.who = "rom" /\ guest.at \in {"sent", "listen"} /\ shot' = shot
      /\ ~SrIrq /\ m.kbd.action = 0 /\ ~m.kbd.pending
      /\ m' = D /\ guest' = g /\ keys' = keys
  BY DEF Timeout
<1>2. Exchange(m, guest, keys) /\ "SR" \in m.via.ier
  BY <1>0, <1>1 DEF MachineInv, Exchange
<1>3. "SR" \notin m.via.ifr
  BY <1>0, <1>1, <1>2 DEF LineRight, SrIrq
<1>4. m.kbd.state # "rx_cmd" /\ m.kbd.state # "rx_end"
  BY <1>0, <1>1 DEF Protocol
<1>5. guest.at # "listen"
  <2> SUFFICES ASSUME guest.at = "listen" PROVE FALSE
    OBVIOUS
  <2>1. AtListen(m, guest, keys)
    BY <1>2 DEF Exchange
  <2> QED BY <1>1, <1>3, <1>4, <2>1 DEF AtListen, Open
<1>6. AtSent(m, guest, keys)
  BY <1>1, <1>2, <1>5 DEF Exchange
<1>7. /\ m.via.mode = 7 /\ m.kbd.state = "idle" /\ Quiet(m) /\ Asked(m, guest, keys)
  BY <1>3, <1>4, <1>6 DEF AtSent
<1>8. 3 \in Modes /\ ~IsOutput(3) /\ IsOutput(m.via.mode)
  BY <1>7 DEF Modes, IsOutput
<1>9. /\ D \in Machine /\ LineRight(D.via) /\ Protocol(D.kbd) /\ SameRest(m, D)
      /\ D.kbd = m.kbd /\ D.via.mode = 3 /\ D.via.ifr = m.via.ifr
  BY <1>0, <1>7, <1>8, WriteAcrFacts
<1> HIDE DEF D
<1>10. g \in Guests /\ g.who = "rom" /\ g.cmd = guest.cmd /\ g.at = "idle"
  BY <1>0, <1>1 DEF Guests
<1>11. Asked(D, g, keys)
  <2>1. SameRing(m.kbd, D.kbd)
    BY <1>9 DEF SameRing
  <2> QED BY <1>7, <1>9, <1>10, <2>1, SameAnswers
<1>12. AtIdle(D, g, keys)
  BY <1>7, <1>9, <1>11 DEF AtIdle, Quiet
<1>13. MachineInv(D, g, keys)
  <2>1. Exchange(D, g, keys)
    BY <1>2, <1>9, <1>10, <1>12 DEF Exchange, SameRest
  <2> QED BY <1>0, <1>9, <2>1 DEF MachineInv
<1>14. KeysInOrder'
  BY <1>0, <1>1 DEF KeysInOrder
<1> HIDE DEF g
<1> QED BY <1>0, <1>1, <1>9, <1>10, <1>13, <1>14, RomFrame

\* Keys have even numbers, the other replies odd ones.
LEMMA KeyBytes ==
    /\ \A i \in Nat : Key(i) \notin {Null, Pad, ModelId, Ack} /\ Key(i) \div 2 = i
    /\ \A i, j \in Nat : Key(i) = Key(j) => i = j
<1>1. \A i \in Nat : 2 * i # 123 /\ 2 * i # 121 /\ 2 * i # 11 /\ 2 * i # 125
  OBVIOUS
<1>2. \A i \in Nat : (2 * i) \div 2 = i
  OBVIOUS
<1>3. \A i, j \in Nat : 2 * i = 2 * j => i = j
  OBVIOUS
<1> QED BY <1>1, <1>2, <1>3 DEF Key, Null, Pad, ModelId, Ack

\* The guest reads the reply and chooses its next command.
LEMMA ReadStep ==
    ASSUME Inv, ReadReply
    PROVE  Inv'
<1> USE Parameters
<1>0. /\ m \in Machine /\ guest \in Guests /\ keys \in KeyCounts /\ m.via \in ViaState
      /\ m.kbd \in KbdState /\ Protocol(m.kbd) /\ RingHolds(m.kbd, keys.accepted)
      /\ MachineInv(m, guest, keys) /\ KeysInOrder
  BY Parts
<1> DEFINE sr == m.via.sr
           isKey == sr \in {Key(i) : i \in 1 .. MaxEvents}
           v == ReadRegister(m.via, "sr")
<1>1. /\ guest.who = "rom" /\ guest.at = "listen" /\ shot' = shot /\ "SR" \in m.via.ifr
      /\ m' = [m EXCEPT !.via = v]
      /\ keys' = IF isKey
                 THEN [keys EXCEPT !.got = sr \div 2,
                                   !.bytes = Min(keys.bytes + 1, MaxEvents + 1)]
                 ELSE keys
  BY DEF ReadReply, RomAt, SrIrq
<1>2. PICK next \in IF sr = Pad THEN {Instant} ELSE {Inquiry, Model, Test} :
         guest' = [guest EXCEPT !.at = "idle", !.cmd = next]
  BY DEF ReadReply
<1>3. "SR" \in m.via.ier /\ AtListen(m, guest, keys)
  BY <1>0, <1>1 DEF MachineInv, Exchange
<1>4. /\ m.via.mode = 3 /\ m.kbd.state = "idle" /\ Quiet(m) /\ Answer(m, guest, keys, sr)
  BY <1>1, <1>3 DEF AtListen
<1>5. /\ v \in ViaState /\ LineRight(v) /\ v.ier = m.via.ier /\ SameShift(m.via, v)
      /\ SameTimers(m.via, v) /\ SameClock(m.via, v)
  BY <1>0, ReadFacts
<1> HIDE DEF v
<1>6. m' \in Machine /\ m'.via = v /\ m'.kbd = m.kbd
  BY <1>0, <1>1, <1>5, ViaChange
<1>7. /\ guest' \in Guests /\ guest'.who = "rom" /\ guest'.at = "idle" /\ guest'.cmd = next
      /\ next = Instant <=> sr = Pad
  <2>1. /\ next \in Commands /\ (next = Instant <=> sr = Pad)
    BY DEF Commands, Inquiry, Instant, Model, Test
  <2>2. guest' \in Guests /\ guest'.who = "rom" /\ guest'.at = "idle" /\ guest'.cmd = next
    BY <1>0, <1>1, <1>2, <2>1 DEF Guests
  <2> QED BY <2>1, <2>2
<1>8. /\ keys.bytes \in Nat /\ keys.accepted \in Nat /\ keys.accepted <= MaxEvents
      /\ Count(m.kbd) \in Nat
  <2>1. keys.bytes \in Nat /\ keys.accepted \in Nat /\ keys.accepted <= MaxEvents
    BY <1>0 DEF KeyCounts
  <2>2. m.kbd.head \in Slots /\ m.kbd.tail \in Slots
    BY <1>0 DEF KbdState
  <2>3. Count(m.kbd) \in Slots
    BY <2>2, BehindFacts DEF Count
  <2> QED BY <2>1, <2>3 DEF Slots
<1>9. /\ keys' \in KeyCounts /\ keys'.accepted = keys.accepted /\ KeysInOrder'
      /\ Asked(m, guest', keys')
  <2>1. CASE KeyFlies(m, keys, sr)
    <3>1. /\ sr = Key(keys.bytes + 1)
          /\ keys.accepted - Count(m.kbd) = keys.bytes + 1
      BY <2>1 DEF KeyFlies, Taken
    <3>2. keys.bytes + 1 \in 1 .. MaxEvents
      BY <1>8, <3>1
    <3>3. isKey /\ sr \div 2 = keys.bytes + 1 /\ sr # Pad
      BY <3>1, <3>2, KeyBytes
    <3>4. Min(keys.bytes + 1, MaxEvents + 1) = keys.bytes + 1
      BY <3>2 DEF Min
    <3>5. keys' = [keys EXCEPT !.got = keys.bytes + 1, !.bytes = keys.bytes + 1]
      BY <1>1, <3>3, <3>4
    <3>6. keys.bytes + 1 \in 0 .. MaxEvents
      BY <3>2
    <3>7. /\ keys' \in KeyCounts /\ keys'.accepted = keys.accepted
          /\ keys'.got = keys.bytes + 1 /\ keys'.bytes = keys.bytes + 1
      BY <1>0, <3>5, <3>6 DEF KeyCounts
    <3>8. NothingFlies(m, keys')
      BY <3>1, <3>7 DEF NothingFlies, Taken
    <3>9. Asked(m, guest', keys')
      BY <1>7, <3>3, <3>8 DEF Asked
    <3> QED BY <3>7, <3>9 DEF KeysInOrder
  <2>2. CASE sr = Pad /\ KeyFlies(m, keys, m.kbd.instant)
    <3>1. ~isKey
      BY <2>2, KeyBytes
    <3>2. keys' = keys
      BY <1>1, <3>1
    <3> QED BY <1>0, <1>7, <2>2, <3>2 DEF Asked, KeysInOrder
  <2>3. CASE sr \in {ModelId, Ack, Null} /\ NothingFlies(m, keys)
    <3>1. ~isKey
      BY <2>3, KeyBytes
    <3>2. sr # Pad
      BY <2>3 DEF ModelId, Ack, Null, Pad
    <3>3. keys' = keys
      BY <1>1, <3>1
    <3> QED BY <1>0, <1>7, <2>3, <3>2, <3>3 DEF Asked, KeysInOrder
  <2> QED BY <1>4, <2>1, <2>2, <2>3 DEF Answer
<1>10. AtIdle(m', guest', keys')
  <2>1. Asked(m', guest', keys')
    BY <1>6, <1>9 DEF Asked, KeyFlies, NothingFlies, Taken
  <2> QED BY <1>4, <1>5, <1>6, <2>1 DEF AtIdle, Quiet, SameShift
<1>11. MachineInv(m', guest', keys')
  <2>1. Exchange(m', guest', keys')
    BY <1>3, <1>5, <1>6, <1>7, <1>10 DEF Exchange
  <2> QED BY <1>0, <1>5, <1>6, <1>9, <2>1 DEF MachineInv
<1>12. SameRest(m, m')
  BY <1>5, <1>6 DEF SameRest
<1> QED BY <1>1, <1>6, <1>7, <1>9, <1>11, <1>12, RomFrame

-----------------------------------------------------------------------------
(* The guest that writes what it likes, and the host *)

\* A guest that writes the shift register and its mode in any order.
LEMMA AnyStep ==
    ASSUME Inv, AnyGuest
    PROVE  Inv'
<1>0. /\ m \in Machine /\ guest \in Guests /\ keys \in KeyCounts /\ m.via \in ViaState
      /\ LineRight(m.via) /\ Protocol(m.kbd) /\ RingHolds(m.kbd, keys.accepted)
      /\ KeysInOrder
  BY Parts
<1>1. /\ guest.who = "any" /\ guest' = guest /\ keys' = keys /\ shot' = shot
      /\ \/ \E mode \in Modes : m' = WriteAcr(m, mode)
         \/ \E byte \in {Zero, Inquiry, Instant, Odd} : m' = WriteSr(m, byte)
         \/ m' = [m EXCEPT !.via = ReadRegister(m.via, "sr")]
  BY DEF AnyGuest
<1>2. /\ m' \in Machine /\ LineRight(m'.via) /\ Protocol(m'.kbd) /\ SameRest(m, m')
      /\ SameRing(m.kbd, m'.kbd)
  <2>1. CASE \E mode \in Modes : m' = WriteAcr(m, mode)
    BY <1>0, <2>1, WriteAcrFacts
  <2>2. CASE \E byte \in {Zero, Inquiry, Instant, Odd} : m' = WriteSr(m, byte)
    <3>1. PICK byte \in {Zero, Inquiry, Instant, Odd} : m' = WriteSr(m, byte)
      BY <2>2
    <3>2. byte \in Bytes
      BY ByteFacts
    <3> QED BY <1>0, <3>1, <3>2, WriteSrFacts
  <2>3. CASE m' = [m EXCEPT !.via = ReadRegister(m.via, "sr")]
    <3> DEFINE v == ReadRegister(m.via, "sr")
    <3>1. /\ v \in ViaState /\ LineRight(v) /\ v.ier = m.via.ier
          /\ SameTimers(m.via, v) /\ SameClock(m.via, v)
      BY <1>0, ReadFacts
    <3> HIDE DEF v
    <3>2. m' = [m EXCEPT !.via = v]
      BY <2>3 DEF v
    <3>3. m' \in Machine /\ m'.via = v /\ m'.kbd = m.kbd
      BY <1>0, <3>1, <3>2, ViaChange
    <3> QED BY <1>0, <3>1, <3>3 DEF SameRest, SameRing
  <2> QED BY <1>1, <2>1, <2>2, <2>3
<1>3. MachineInv(m', guest', keys')
  <2>1. RingHolds(m'.kbd, keys.accepted)
    BY <1>0, <1>2, RingKept
  <2> QED BY <1>1, <1>2, <2>1 DEF MachineInv
<1>4. KeysInOrder'
  BY <1>0, <1>1 DEF KeysInOrder
<1> QED BY <1>0, <1>1, <1>2, <1>3, <1>4, RomFrame

\* mac_key_event, accepted or turned away by a full ring.
LEMMA HostStep ==
    ASSUME Inv, HostKey
    PROVE  Inv'
<1> USE Parameters
<1>0. /\ m \in Machine /\ guest \in Guests /\ keys \in KeyCounts /\ m.kbd \in KbdState
      /\ m.via \in ViaState /\ LineRight(m.via) /\ Protocol(m.kbd)
      /\ RingHolds(m.kbd, keys.accepted) /\ MachineInv(m, guest, keys) /\ KeysInOrder
  BY Parts
<1>1. PICK two \in BOOLEAN :
         m' = [m EXCEPT !.kbd = KeyEvent(m.kbd, [id |-> keys.accepted + 1, two |-> two])]
  BY DEF HostKey
<1>2. /\ guest' = guest /\ shot' = shot /\ keys.accepted < MaxEvents
      /\ keys' = IF m'.kbd # m.kbd THEN [keys EXCEPT !.accepted = keys.accepted + 1] ELSE keys
  BY DEF HostKey
<1>3. keys.accepted \in Nat /\ keys.bytes \in Nat
  BY <1>0 DEF KeyCounts
<1> DEFINE k == m.kbd
           e == [id |-> keys.accepted + 1, two |-> two]
           l == KeyEvent(k, e)
<1>4. e \in Event /\ e.id = keys.accepted + 1
  <2>1. keys.accepted + 1 \in 0 .. MaxEvents
    BY <1>2, <1>3
  <2> QED BY <2>1 DEF Event
<1>5. k.tail \in Slots /\ k.head \in Slots /\ k.keyq \in [Slots -> Event]
  BY <1>0 DEF KbdState
<1>6. CASE RingNext(k.tail) = k.head
  <2>1. l = k
    BY <1>6 DEF KeyEvent
  <2>2. m' = [m EXCEPT !.kbd = k]
    BY <1>1, <2>1
  <2>3. m' = m
    BY <1>0, <2>2 DEF Machine
  <2>4. keys' = keys
    BY <1>2, <2>3
  <2> QED BY <1>0, <1>2, <2>3, <2>4, RomFrame
          DEF SameRest, SameTimers, SameClock, KeysInOrder
<1>7. CASE RingNext(k.tail) # k.head
  <2> HIDE DEF e
  <2>1. l = [k EXCEPT !.keyq = [k.keyq EXCEPT ![k.tail] = e], !.tail = RingNext(k.tail)]
    BY <1>0, <1>7 DEF KeyEvent, KbdState
  <2>2. RingNext(k.tail) \in Slots /\ RingNext(k.tail) # k.tail
    BY <1>5, RingNextFacts
  <2>3. [k.keyq EXCEPT ![k.tail] = e] \in [Slots -> Event]
    BY <1>4, <1>5
  <2>4. m' = [m EXCEPT !.kbd = l]
    BY <1>1 DEF e
  <2> HIDE DEF l
  <2>5. /\ l \in KbdState /\ l.keyq = [k.keyq EXCEPT ![k.tail] = e]
        /\ l.tail = RingNext(k.tail) /\ l.head = k.head
        /\ l.state = k.state /\ l.have = k.have /\ l.result = k.result
        /\ l.instant = k.instant /\ l.pending = k.pending /\ l.action = k.action
    BY <1>0, <2>1, <2>2, <2>3 DEF KbdState
  <2>6. m' \in Machine /\ m'.via = m.via /\ m'.kbd = l /\ SameRest(m, m')
    BY <1>0, <2>4, <2>5, KbdChange
  <2>7. keys' = [keys EXCEPT !.accepted = keys.accepted + 1]
    BY <1>2, <2>2, <2>5, <2>6
  <2>8. /\ keys' \in KeyCounts /\ keys'.accepted = keys.accepted + 1
        /\ keys'.got = keys.got /\ keys'.bytes = keys.bytes
    <3>1. keys.accepted + 1 \in 0 .. MaxEvents
      BY <1>2, <1>3
    <3> QED BY <1>0, <2>7, <3>1 DEF KeyCounts
  <2>9. /\ RingHolds(l, keys.accepted + 1) /\ Count(l) = Count(k) + 1 /\ Count(k) \in Nat
    BY <1>0, <1>3, <1>4, <1>7, <2>5, RingPush
  <2>10. Taken(m', keys') = Taken(m, keys)
    BY <1>3, <2>6, <2>8, <2>9 DEF Taken
  <2>11. Protocol(l)
    BY <1>0, <2>5 DEF Protocol
  <2>12. ASSUME guest.who = "rom" PROVE Exchange(m', guest, keys')
    <3>1. /\ Asked(m', guest, keys') <=> Asked(m, guest, keys)
          /\ Held(m', guest, keys') <=> Held(m, guest, keys)
          /\ Open(m', guest, keys') <=> Open(m, guest, keys)
          /\ Quiet(m') <=> Quiet(m)
          /\ \A byte : Answer(m', guest, keys', byte) <=> Answer(m, guest, keys, byte)
      BY <2>5, <2>6, <2>8, <2>10 DEF Asked, Held, Open, Quiet, Answer, NothingFlies, KeyFlies
    <3>2. Exchange(m, guest, keys)
      BY <1>0, <2>12 DEF MachineInv
    <3>3. guest.at = "idle" => AtIdle(m', guest, keys')
      BY <2>5, <2>6, <3>1, <3>2 DEF Exchange, AtIdle
    <3>4. guest.at = "sent" => AtSent(m', guest, keys')
      BY <2>5, <2>6, <3>1, <3>2 DEF Exchange, AtSent
    <3>5. guest.at = "listen" => AtListen(m', guest, keys')
      BY <2>5, <2>6, <3>1, <3>2 DEF Exchange, AtListen
    <3> QED BY <2>6, <3>2, <3>3, <3>4, <3>5 DEF Exchange
  <2>13. MachineInv(m', guest', keys')
    BY <1>0, <1>2, <2>6, <2>8, <2>9, <2>11, <2>12 DEF MachineInv
  <2>14. KeysInOrder'
    BY <1>0, <2>8 DEF KeysInOrder
  <2> QED BY <1>0, <1>2, <2>6, <2>8, <2>13, <2>14, RomFrame
<1> QED BY <1>6, <1>7

-----------------------------------------------------------------------------
(* The invariant, and what it says *)

\* After power-up nothing is on its way.
LEMMA InitInv == Init => Inv
<1> USE Parameters
<1> SUFFICES ASSUME Init PROVE Inv
  OBVIOUS
<1> DEFINE v == [ViaInit EXCEPT !.ier = {"SR"}]
           k == KeyboardInit
<1>1. m = [via |-> v, kbd |-> k]
  BY DEF Init, MachineInit
<1>2. /\ guest \in [who : TimerNames \cup {"rom", "any"}, at : {"idle"}, cmd : {Model}]
      /\ keys = [accepted |-> 0, got |-> 0, bytes |-> 0] /\ shot = NoShot
  BY DEF Init
<1>3. /\ 0 \in Nat /\ 0 \in 0 .. 1 /\ 0 \in 0 .. 2 /\ 0 \in 0 .. (Divider - 1)
      /\ 0 \in 0 .. KbdDelay /\ 0 \in 0 .. KbdInquiry /\ 0 \in 0 .. MaxEvents
      /\ 0 \in Slots /\ 0 \in Timer /\ TimerMod - 1 \in Timer /\ VblCycles \in Int
  BY DEF Slots, Timer
<1>4. 0 \in Bytes /\ Null \in Bytes /\ 0 \in Modes
  BY ByteFacts DEF Zero, Modes
<1>5. /\ v \in ViaState /\ v.ifr = {} /\ v.ier = {"SR"} /\ v.irq = FALSE
      /\ v.gap = 0 /\ v.vbl = VblCycles /\ v.mode = 0
  <2>1. {} \in SUBSET Irqs /\ {"SR"} \in SUBSET Irqs
    BY DEF Irqs
  <2> QED BY <1>3, <1>4, <2>1 DEF ViaInit, ViaState
<1>6. /\ k \in KbdState /\ k.state = "idle" /\ ~k.have /\ ~k.pending /\ k.action = 0
      /\ k.head = 0 /\ k.tail = 0
  <2>1. NoEvent \in Event
    BY <1>3 DEF NoEvent, Event
  <2>2. [i \in Slots |-> NoEvent] \in [Slots -> Event]
    BY <2>1
  <2> QED BY <1>3, <1>4, <2>2 DEF KeyboardInit, KbdState, Zero
<1> HIDE DEF v, k
<1>7. m \in Machine /\ m.via = v /\ m.kbd = k
  BY <1>1, <1>5, <1>6 DEF Machine
<1>8. /\ guest \in Guests /\ guest.at = "idle" /\ guest.cmd = Model
  BY <1>2 DEF Guests, Commands
<1>9. /\ keys \in KeyCounts /\ keys.accepted = 0 /\ keys.bytes = 0 /\ KeysInOrder
  BY <1>2, <1>3 DEF KeyCounts, KeysInOrder
<1>10. shot \in Shots /\ ShotInv
  BY <1>2, NoShotIsShot DEF ShotInv
<1>11. ClockInv
  <2>1. 0 <= Interval /\ VblCycles + 0 > 0 /\ VblCycles <= VblCycles
    BY DEF Interval
  <2> QED BY <1>5, <1>7, <2>1 DEF ClockInv
<1>12. Count(k) = 0
  BY <1>6 DEF Count, Behind
<1>13. RingHolds(k, 0)
  <2>1. \A i \in Slots : Behind(k, i) \in Slots
    BY <1>3, <1>6, BehindFacts
  <2> QED BY <1>12, <2>1 DEF RingHolds, Slots
<1>14. Exchange(m, guest, keys)
  <2>1. NothingFlies(m, keys)
    BY <1>7, <1>9, <1>12 DEF NothingFlies, Taken
  <2>2. Asked(m, guest, keys)
    BY <1>8, <2>1 DEF Asked, Model, Instant
  <2>3. AtIdle(m, guest, keys)
    BY <1>5, <1>6, <1>7, <2>2 DEF AtIdle, Quiet
  <2> QED BY <1>5, <1>7, <1>8, <2>3 DEF Exchange
<1>15. LineRight(v)
  BY <1>5 DEF LineRight
<1>16. Protocol(k)
  BY <1>6 DEF Protocol
<1>17. MachineInv(m, guest, keys)
  BY <1>7, <1>9, <1>13, <1>14, <1>15, <1>16 DEF MachineInv
<1> QED BY <1>7, <1>8, <1>9, <1>10, <1>11, <1>17 DEF Inv, Typed

\* Every step keeps the invariant.
LEMMA NextInv == Inv /\ [Next]_vars => Inv'
<1> SUFFICES ASSUME Inv, [Next]_vars PROVE Inv'
  OBVIOUS
<1>1. CASE Execute
  <2>1. PICK c \in IF UsesTimer THEN 1 .. MaxGap ELSE {KbdStep} : Run(c)
    BY <1>1 DEF Execute
  <2>2. c \in Nat
    BY Parameters
  <2> QED BY <2>1, <2>2, RunStep
<1>2. CASE Tick
  BY <1>2, TickStep
<1>3. CASE TimerGuest
  BY <1>3, TimerGuestStep
<1>4. CASE RomGuest
  BY <1>4, SendStep, TakenStep, ReadStep, TimeoutStep DEF RomGuest
<1>5. CASE AnyGuest
  BY <1>5, AnyStep
<1>6. CASE HostKey
  BY <1>6, HostStep
<1>7. CASE UNCHANGED vars
  <2>1. m' = m /\ guest' = guest /\ keys' = keys /\ shot' = shot
    BY <1>7 DEF vars
  <2> QED BY <2>1 DEF Inv, Typed, ClockInv, Interval, UsesTimer, ShotInv, Counter, Armed,
             KeysInOrder
<1> QED BY <1>1, <1>2, <1>3, <1>4, <1>5, <1>6, <1>7 DEF Next

\* The invariant holds in every state: the registers stay in their ranges, a one-shot's
\* account balances, and the keyboard and the guest agree on where their exchange stands.
THEOREM MachineInvariant == Spec => []Inv
BY InitInv, NextInv, PTL DEF Spec

\* The VIA interrupts when it should, for every divider, timer size and tick interval:
\* its line is that of its flags, and a one-shot fires once, at most one interval and one
\* count early and at most one interval and one count late.
THEOREM TimersAlwaysInTime == Spec => []TimersInTime
<1> USE Parameters
<1>1. Inv => TimersInTime
  <2> SUFFICES ASSUME Inv PROVE TimersInTime
    OBVIOUS
  <2>0. /\ m.via \in ViaState /\ m.kbd \in KbdState /\ keys \in KeyCounts /\ shot \in Shots
        /\ LineRight(m.via) /\ ClockInv /\ ShotInv
    BY Parts
  <2>1. TypeOK
    <3>1. /\ m.via.ifr \subseteq Irqs /\ m.via.ier \subseteq Irqs /\ m.via.irq \in BOOLEAN
          /\ m.via.free \in BOOLEAN /\ m.via.mode \in Modes /\ m.via.sr \in Bytes
          /\ m.via.icb2 \in 0 .. 1 /\ {m.via.t1c, m.via.t1l, m.via.t2c} \subseteq Timer
          /\ m.via.rem \in 0 .. (Divider - 1) /\ m.via.gap \in Nat /\ m.via.vbl \in Int
      BY <2>0 DEF ViaState
    <3>2. /\ m.via.gap \in 0 .. (MaxGap + KbdStep)
          /\ m.via.vbl \in (-(MaxGap + KbdStep)) .. VblCycles
      BY <2>0, <3>1 DEF ClockInv, Interval
    <3>3. /\ m.kbd.state \in {"idle", "rx_cmd", "got_cmd", "rx_end"}
          /\ m.kbd.result \in Bytes /\ m.kbd.instant \in Bytes
          /\ m.kbd.action \in 0 .. 2 /\ m.kbd.left \in 0 .. KbdDelay
          /\ m.kbd.inquiryLeft \in 0 .. KbdInquiry
          /\ m.kbd.head \in Slots /\ m.kbd.tail \in Slots
      BY <2>0 DEF KbdState
    <3>4. /\ keys.accepted \in 0 .. MaxEvents /\ keys.got \in 0 .. MaxEvents
          /\ keys.bytes \in 0 .. MaxEvents
      BY <2>0 DEF KeyCounts
    <3>5. keys.bytes \in 0 .. (MaxEvents + 1)
      BY <3>4
    <3> QED BY <3>1, <3>2, <3>3, <3>4, <3>5 DEF TypeOK
  <2>2. IrqFollowsFlags
    <3>1. m.via.irq \in BOOLEAN
      BY <2>0 DEF ViaState
    <3> QED BY <2>0, <3>1 DEF LineRight, IrqFollowsFlags
  <2>3. OneShotsInTime
    <3> SUFFICES ASSUME shot.one
                 PROVE  /\ shot.fired <= 1
                        /\ shot.early < MaxGap + Divider
                        /\ shot.fired = 0 /\ m.via.gap = 0 =>
                              shot.age < Divider * (shot.load + 1) + MaxGap
      BY DEF OneShotsInTime
    <3>1. CASE shot.fired = 1 /\ shot.early < MaxGap + Divider
      BY <3>1
    <3>2. CASE /\ shot.fired = 0 /\ shot.early = 0
               /\ Balanced(m.via, Counter, shot.load, shot.age)
      <4>1. /\ Counter \in Nat /\ shot.load \in Nat /\ shot.age \in Nat
            /\ m.via.rem \in 0 .. (Divider - 1)
        BY <2>0 DEF Counter, ViaState, Shots, Timer
      <4>2. ASSUME m.via.gap = 0 PROVE shot.age < Divider * (shot.load + 1) + MaxGap
        <5>1. ElapsedCycles(m.via) = 0
          BY <4>2 DEF ElapsedCycles
        <5>2. Divider * Counter \in Nat /\ Divider * shot.load \in Nat
          BY <4>1
        <5>3. PICK x \in Nat, y \in Nat : x = Divider * Counter /\ y = Divider * shot.load
          BY <5>2
        <5>4. shot.age + (x - m.via.rem - 0) <= y + MaxGap
          BY <3>2, <5>1, <5>3 DEF Balanced, Owed
        <5>5. Divider * (shot.load + 1) = y + Divider
          BY <4>1, <5>3
        <5>6. shot.age < y + Divider + MaxGap
          BY <4>1, <5>4
        <5> QED BY <5>5, <5>6
      <4>3. shot.fired <= 1 /\ shot.early < MaxGap + Divider
        BY <3>2
      <4> QED BY <4>2, <4>3
    <3> QED BY <2>0, <3>1, <3>2 DEF ShotInv
  <2> QED BY <2>1, <2>2, <2>3 DEF TimersInTime
<1> QED BY <1>1, MachineInvariant, PTL

\* Whatever the guest writes, the keyboard's timer is the one its state waits for and no
\* reply is overwritten; and a guest that follows the ROM's protocol reads a reply to the
\* command it sent, for rings of every length and every delay.
THEOREM RepliesAlwaysMatch == Spec => []RepliesMatch
<1>1. Inv => RepliesMatch
  <2> SUFFICES ASSUME Inv PROVE RepliesMatch
    OBVIOUS
  <2>0. /\ m.kbd \in KbdState /\ Protocol(m.kbd) /\ MachineInv(m, guest, keys)
        /\ guest \in Guests /\ keys \in KeyCounts
    BY Parts
  <2>1. KbdTimerMatches /\ ReplyNotOverwritten
    BY <2>0 DEF Protocol, KbdTimerMatches, ReplyNotOverwritten
  <2>2. ASSUME guest.who = "rom", guest.at = "listen", SrIrq
        PROVE  m.via.sr \in Replies(guest.cmd)
    <3>1. AtListen(m, guest, keys) /\ "SR" \in m.via.ifr
      BY <2>0, <2>2 DEF MachineInv, Exchange, SrIrq
    <3>2. Answer(m, guest, keys, m.via.sr)
      BY <3>1 DEF AtListen
    <3>3. ASSUME KeyFlies(m, keys, m.via.sr)
          PROVE  m.via.sr \in {Key(i) : i \in 1 .. MaxEvents}
      <4>1. m.kbd.head \in Slots /\ m.kbd.tail \in Slots
        BY <2>0 DEF KbdState
      <4>2. Count(m.kbd) \in Nat
        BY <4>1, BehindFacts DEF Count, Slots
      <4>3. keys.accepted \in 0 .. MaxEvents /\ keys.bytes \in Nat
        BY <2>0 DEF KeyCounts
      <4>4. keys.bytes + 1 \in 1 .. MaxEvents
        BY <3>3, <4>2, <4>3, Parameters DEF KeyFlies, Taken
      <4> QED BY <3>3, <4>4 DEF KeyFlies
    <3>4. /\ Replies(Model) = {ModelId} /\ Replies(Test) = {Ack}
          /\ Replies(Instant) = {Key(i) : i \in 1 .. MaxEvents}
          /\ Replies(Inquiry) = {Null, Pad} \cup {Key(i) : i \in 1 .. MaxEvents}
      BY DEF Replies, Model, Test, Instant, Inquiry
    <3> QED BY <3>2, <3>3, <3>4 DEF Answer
  <2> QED BY <2>1, <2>2 DEF RepliesMatch, AnswersTheCommand
<1> QED BY <1>1, MachineInvariant, PTL

\* The guest that follows the ROM's protocol reads the key events that the ring accepted
\* once each and in order, for rings of every length and any number of events.
THEOREM KeysAlwaysInOrder == Spec => []KeysInOrder
<1>1. Inv => KeysInOrder
  BY DEF Inv
<1> QED BY <1>1, MachineInvariant, PTL

=============================================================================
