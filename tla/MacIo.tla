------------------------------- MODULE MacIo --------------------------------
(***************************************************************************)
(* The VIA and the keyboard driven by a guest, by the clock and by the     *)
(* host's keys.  Guests that program one of the timers are considered, one *)
(* that talks to the keyboard as the ROM does, and one that writes the     *)
(* shift register and its mode in any order.  A guest runs for some        *)
(* cycles, then the loop calls mac_mem_tick.                               *)
(***************************************************************************)
EXTENDS Keyboard

CONSTANTS
    MaxGap,        \* most cycles between two ticks for the guests of the timers
    KbdStep,       \* cycles between two ticks for the other two
    Loads,         \* timer values that the guest writes
    MaxEvents      \* key events accepted in a run

ASSUME MacIoAssumption == /\ {MaxGap, KbdStep, MaxEvents} \subseteq Nat \ {0}
                          /\ Loads \subseteq Timer

VARIABLES
    m,       \* the VIA and the keyboard
    guest,   \* which guest program runs, and where it stands
    keys,    \* key events accepted from the host, the last one that the guest has
             \* read, and how many it has read
    shot     \* what became of the guest's timer since it was started

vars == <<m, guest, keys, shot>>

Min(a, b) == IF a < b THEN a ELSE b

\* The cycles since the guest started its timer as a one-shot, until it fires and up
\* to Never, beyond which all is late; how often it fired, and how much too early.
Never == Divider * TimerMod + 2 * MaxGap
NoShot == [one |-> FALSE, load |-> 0, age |-> 0, fired |-> 0, early |-> 0]
Shot(n) == [NoShot EXCEPT !.one = TRUE, !.load = n]

TimerNames == {"T1", "T2"}
UsesTimer == guest.who \in TimerNames

Init ==
    /\ m = [MachineInit EXCEPT !.via.ier = {"SR"}]
    /\ guest \in [who : TimerNames \cup {"rom", "any"}, at : {"idle"}, cmd : {Model}]
    /\ keys = [accepted |-> 0, got |-> 0, bytes |-> 0]
    /\ shot = NoShot

-----------------------------------------------------------------------------
\* Time.  The guest executes, then the loop ticks.

Less(left, c) == IF left > c THEN left - c ELSE 0

Run(c) ==
    /\ m.via.gap + c <= IF UsesTimer THEN MaxGap ELSE KbdStep
    /\ m' = [m EXCEPT !.via.gap = @ + c, !.via.vbl = @ - c,
                      !.kbd.left = Less(@, c), !.kbd.inquiryLeft = Less(@, c)]
    /\ shot' = IF shot.one /\ shot.fired = 0 THEN [shot EXCEPT !.age = Min(@ + c, Never)] ELSE shot
    /\ UNCHANGED <<guest, keys>>

Execute == \E c \in IF UsesTimer THEN 1 .. MaxGap ELSE {KbdStep} : Run(c)

\* Whether the tick raises the flag of the guest's timer.
Fires ==
    LET v == m.via
        n == Counts(v)
    IN  /\ n > 0
        /\ \/ guest.who = "T1" /\ v.t1armed /\ n >= v.t1c
           \/ guest.who = "T2" /\ v.t2armed /\ n >= v.t2c

\* mac_mem_tick.
Tick ==
    /\ m.via.gap > 0
    /\ m' = KbdTick([m EXCEPT !.via = ViaTick(@)])
    /\ shot' = IF shot.one /\ Fires
               THEN [shot EXCEPT !.fired = Min(@ + 1, 2), !.age = 0,
                                 !.early = Less(Divider * shot.load, shot.age)]
               ELSE shot
    /\ UNCHANGED <<guest, keys>>

-----------------------------------------------------------------------------
\* Guests that program a timer.

Timers(who, v) == guest.who \in who /\ m' = [m EXCEPT !.via = v] /\ UNCHANGED <<guest, keys>>

StartT1 == \E n \in Loads : /\ Timers({"T1"}, WriteT1Counter(m.via, n))
                            /\ shot' = IF m.via.free THEN NoShot ELSE Shot(n)
StartT2 == \E n \in Loads : /\ Timers({"T2"}, WriteT2Counter(m.via, n))
                            /\ shot' = Shot(n)
SetT1Latch == \E n \in Loads : Timers({"T1"}, WriteT1Latch(m.via, n)) /\ UNCHANGED shot
SetFree == \E b \in BOOLEAN : /\ Timers({"T1"}, WriteFree(m.via, b))
                              /\ shot' = NoShot
EnableIrq == \E b \in BOOLEAN, i \in {"CA1", guest.who} :
                 Timers(TimerNames, WriteIer(m.via, b, {i})) /\ UNCHANGED shot
Acknowledge == /\ \/ \E reg \in {"ora", "orb", "t1cl", "t2cl"} :
                         Timers(TimerNames, ReadRegister(m.via, reg))
                  \/ \E i \in {"CA1", guest.who} : Timers(TimerNames, WriteIfr(m.via, {i}))
               /\ UNCHANGED shot

-----------------------------------------------------------------------------
\* A guest that talks to the keyboard as the ROM does: it pulls CB2 low, sends
\* the command, makes the shift register an input when the command is taken,
\* and reads the reply when it has come.  It waits for the interrupt.

RomAt(at) == guest.who = "rom" /\ guest.at = at /\ UNCHANGED shot
SrIrq == m.via.irq /\ "SR" \in m.via.ifr

SendCommand ==
    /\ RomAt("idle")
    /\ m' = WriteSr(WriteAcr(WriteSr(WriteAcr(m, 6), Zero), 7), guest.cmd)
    /\ guest' = [guest EXCEPT !.at = "sent"] /\ UNCHANGED keys

CommandTaken ==
    /\ RomAt("sent") /\ SrIrq
    /\ m' = WriteAcr([m EXCEPT !.via = ReadRegister(@, "sr")], 3)
    /\ guest' = [guest EXCEPT !.at = "listen"] /\ UNCHANGED keys

\* The reply decides the next command: the second half of a key, or whatever
\* the guest wants to know.
ReadReply ==
    /\ RomAt("listen") /\ SrIrq
    /\ m' = [m EXCEPT !.via = ReadRegister(@, "sr")]
    /\ \E next \in IF m.via.sr = Pad THEN {Instant} ELSE {Inquiry, Model, Test} :
           guest' = [guest EXCEPT !.at = "idle", !.cmd = next]
    /\ keys' = IF m.via.sr \in {Key(i) : i \in 1 .. MaxEvents}
               THEN [keys EXCEPT !.got = m.via.sr \div 2, !.bytes = Min(@ + 1, MaxEvents + 1)]
               ELSE keys

\* "the ROM resets the keyboard if it goes quiet too long": longer than any of the
\* keyboard's own delays.  It then sends the command again.
Timeout ==
    /\ guest.who = "rom" /\ guest.at \in {"sent", "listen"} /\ ~SrIrq
    /\ m.kbd.action = 0 /\ ~m.kbd.pending
    /\ m' = WriteAcr(m, 3)
    /\ guest' = [guest EXCEPT !.at = "idle"]
    /\ UNCHANGED <<keys, shot>>

-----------------------------------------------------------------------------
\* A guest that writes what it likes.

Odd == 17
AnyGuest ==
    /\ guest.who = "any" /\ UNCHANGED <<guest, keys, shot>>
    /\ \/ \E mode \in Modes : m' = WriteAcr(m, mode)
       \/ \E byte \in {Zero, Inquiry, Instant, Odd} : m' = WriteSr(m, byte)
       \/ m' = [m EXCEPT !.via = ReadRegister(@, "sr")]

\* mac_key_event, from the host.
HostKey ==
    /\ ~UsesTimer /\ keys.accepted < MaxEvents
    /\ \E two \in BOOLEAN :
           m' = [m EXCEPT !.kbd = KeyEvent(@, [id |-> keys.accepted + 1, two |-> two])]
    /\ keys' = IF m'.kbd # m.kbd THEN [keys EXCEPT !.accepted = @ + 1] ELSE keys
    /\ UNCHANGED <<guest, shot>>

TimerGuest == StartT1 \/ StartT2 \/ SetT1Latch \/ SetFree \/ EnableIrq \/ Acknowledge
RomGuest == SendCommand \/ CommandTaken \/ ReadReply \/ Timeout

Next == Execute \/ Tick \/ TimerGuest \/ RomGuest \/ AnyGuest \/ HostKey

Spec == Init /\ [][Next]_vars

\* The processor keeps executing and the loop ticks after every block; the ROM serves
\* its interrupts, comes to its timeouts, and polls: it sends Inquiry again and again.
Fairness ==
    /\ WF_vars(guest.who = "rom" /\ (Execute \/ Tick))
    /\ WF_vars(RomGuest)
    /\ SF_vars(ReadReply /\ guest'.cmd \in {Instant, Inquiry})

FairSpec == Spec /\ Fairness

-----------------------------------------------------------------------------
Bytes == {Zero, Inquiry, Instant, Model, Test, Odd, Null, Pad, ModelId, Ack}
             \cup {Key(i) : i \in 1 .. MaxEvents}

TypeOK ==
    /\ m.via.ifr \subseteq Irqs /\ m.via.ier \subseteq Irqs /\ m.via.irq \in BOOLEAN
    /\ m.via.free \in BOOLEAN /\ m.via.mode \in Modes /\ m.via.sr \in Bytes /\ m.via.icb2 \in 0 .. 1
    /\ {m.via.t1c, m.via.t1l, m.via.t2c} \subseteq Timer
    /\ m.via.gap \in 0 .. (MaxGap + KbdStep) /\ m.via.rem \in 0 .. (Divider - 1)
    /\ m.via.vbl \in (-(MaxGap + KbdStep)) .. VblCycles
    /\ m.kbd.state \in {"idle", "rx_cmd", "got_cmd", "rx_end"}
    /\ m.kbd.result \in Bytes /\ m.kbd.instant \in Bytes
    /\ m.kbd.action \in 0 .. 2 /\ m.kbd.left \in 0 .. KbdDelay
    /\ m.kbd.inquiryLeft \in 0 .. KbdInquiry
    /\ m.kbd.head \in Slots /\ m.kbd.tail \in Slots
    /\ keys.accepted \in 0 .. MaxEvents /\ keys.got \in 0 .. MaxEvents
    /\ keys.bytes \in 0 .. (MaxEvents + 1)

\* The interrupt line of the CPU is exactly "some enabled flag is up", after every
\* register access, tick and keyboard event (mac_via_recalc_irq).
IrqFollowsFlags == m.via.irq = (m.via.ifr \cap m.via.ier # {})

\* A timer started in one-shot mode fires once.  It fires at most one tick interval
\* and one VIA count early, because the count includes the cycles that had passed
\* since the last tick when it was started (via_write leaves last_cycle alone), and
\* at the latest at the first tick after its time, or one interval later when it was
\* started before the first tick.
OneShotsInTime ==
    shot.one =>
        /\ shot.fired <= 1
        /\ shot.early < MaxGap + Divider
        /\ shot.fired = 0 /\ m.via.gap = 0 => shot.age < Divider * (shot.load + 1) + MaxGap

\* The VIA interrupts when it should: the line follows the flags, and one-shots raise
\* theirs once and in time (mac_via_tick with via_read and via_write between ticks).
TimersInTime == TypeOK /\ IrqFollowsFlags /\ OneShotsInTime

\* Whatever the guest writes, the keyboard's timer is the one its state waits for: a
\* command or an end of command is never processed in another state.
KbdTimerMatches ==
    /\ (m.kbd.action = 1) = (m.kbd.state = "rx_cmd")
    /\ (m.kbd.action = 2) = (m.kbd.state = "rx_end")

\* Whatever the guest writes, a reply held back is sent before another one can take
\* its place: none is held outside a transaction, nor while an Inquiry is open.
ReplyNotOverwritten ==
    m.kbd.have => m.kbd.state \in {"got_cmd", "rx_end"} /\ ~m.kbd.pending

\* A guest that follows the ROM's protocol reads the reply to the command it sent, not
\* to an earlier one, although the first command after power-up is never answered.
Replies(cmd) ==
    CASE cmd = Model -> {ModelId}
      [] cmd = Test -> {Ack}
      [] cmd = Instant -> {Key(i) : i \in 1 .. MaxEvents}
      [] cmd = Inquiry -> {Null, Pad} \cup {Key(i) : i \in 1 .. MaxEvents}
AnswersTheCommand ==
    guest.who = "rom" /\ guest.at = "listen" /\ SrIrq => m.via.sr \in Replies(guest.cmd)

\* Replies and commands that share the shift register are never taken for each other.
RepliesMatch == KbdTimerMatches /\ ReplyNotOverwritten /\ AnswersTheCommand

\* The key events that the ring accepted reach that guest once each and in order.
KeysInOrder == keys.got = keys.bytes

\* Every accepted key event reaches it.
KeysArrive == guest.who = "rom" ~> (guest.who = "rom" /\ keys.got = keys.accepted)
=============================================================================
