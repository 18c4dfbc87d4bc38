------------------------------ MODULE Keyboard ------------------------------
(***************************************************************************)
(* The keyboard of core/mac_input.c: a state machine clocked through the   *)
(* shift register of the VIA, with a ring of key events filled by the      *)
(* host.  A machine m is a record of a VIA and a keyboard; each operator   *)
(* is one function of the file.  Deadlines are kept as cycles left.        *)
(* Bytes are those of the protocol, named for what they say.               *)
(***************************************************************************)
EXTENDS Via, Sequences

CONSTANTS
    Ring,           \* slots of the ring of key events, 64
    KbdDelay,       \* KBD_DELAY_CYCLES
    KbdInquiry      \* KBD_INQUIRY_CYCLES

ASSUME KeyboardAssumption == /\ Ring \in Nat \ {0, 1}
                             /\ {KbdDelay, KbdInquiry} \subseteq Nat \ {0}

Slots == 0 .. (Ring - 1)

\* Commands, and the replies that are not keys.
Zero == 0
Inquiry == 16
Instant == 20
Model == 22
Test == 54
Null == 123
ModelId == 11
Ack == 125
Pad == 121

\* A key event: its number, which stands for code and direction, and whether the
\* code is 64 or more, which takes two replies.
NoEvent == [id |-> 0, two |-> FALSE]
Key(id) == 2 * id

KeyboardInit ==
    [state |-> "idle", have |-> FALSE, result |-> Zero, instant |-> Null,
     pending |-> FALSE, inquiryLeft |-> 0, action |-> 0, left |-> 0,
     keyq |-> [i \in Slots |-> NoEvent], head |-> 0, tail |-> 0]

MachineInit == [via |-> ViaInit, kbd |-> KeyboardInit]

-----------------------------------------------------------------------------
\* The ring.

RingNext(i) == (i + 1) % Ring
\* Mutant of KeyEvent: a full ring is overrun.
KeyEvent_NoFullTest(k, e) == [k EXCEPT !.keyq[k.tail] = e, !.tail = RingNext(k.tail)]

KeyEvent(k, e) ==
    IF RingNext(k.tail) = k.head THEN k
    ELSE [k EXCEPT !.keyq[k.tail] = e, !.tail = RingNext(k.tail)]

Waiting(k) == k.head # k.tail

-----------------------------------------------------------------------------
\* The shift register.

ShiftOutData(m) ==
    [m EXCEPT !.via = [SetIrq(@, {"SR", "CB1"}) EXCEPT !.icb2 = m.via.sr % 2]]

ShiftInData(m, byte) ==
    [m EXCEPT !.via = SetIrq([@ EXCEPT !.sr = byte, !.icb2 = 1], {"SR", "CB1"})]

-----------------------------------------------------------------------------
\* The state machine.

\* Outside a transaction a reply goes out at once, else it is held back.
GotKeyboardData(m, byte) ==
    IF m.kbd.state = "idle" THEN ShiftInData(m, byte)
    ELSE [m EXCEPT !.kbd.have = TRUE, !.kbd.result = byte]

\* Mutant of FinishInquiry: the second byte of a keypad key is not held back.
FinishInquiry_NoSecondHalf(m) ==
    LET e == m.kbd.keyq[m.kbd.head]
        popped == [m EXCEPT !.kbd.head = RingNext(@)]
    IN  GotKeyboardData(popped, IF e.two THEN Pad ELSE Key(e.id))

\* Mutant of FinishInquiry: the event stays in the ring.
FinishInquiry_KeepsHead(m) ==
    LET e == m.kbd.keyq[m.kbd.head] IN
    IF e.two
    THEN GotKeyboardData([m EXCEPT !.kbd.instant = Key(e.id)], Pad)
    ELSE GotKeyboardData(m, Key(e.id))

FinishInquiry(m) ==
    LET e == m.kbd.keyq[m.kbd.head]
        popped == [m EXCEPT !.kbd.head = RingNext(@)]
    IN  IF e.two
        THEN GotKeyboardData([popped EXCEPT !.kbd.instant = Key(e.id)], Pad)
        ELSE GotKeyboardData(popped, Key(e.id))

DoReceiveCommand(m0) ==
    LET in == m0.via.sr
        m == [ShiftOutData(m0) EXCEPT !.kbd.state = "got_cmd"]
    IN  CASE in = Inquiry ->
                 IF Waiting(m.kbd) THEN FinishInquiry(m)
                 ELSE [m EXCEPT !.kbd.pending = TRUE, !.kbd.inquiryLeft = KbdInquiry]
          [] in = Instant -> [GotKeyboardData(m, m.kbd.instant) EXCEPT !.kbd.instant = Null]
          [] in = Model   -> GotKeyboardData(m, ModelId)
          [] in = Test    -> GotKeyboardData(m, Ack)
          [] OTHER          -> GotKeyboardData(m, Zero)

DoReceiveEndCommand(m0) ==
    LET m == [m0 EXCEPT !.kbd.state = "idle", !.kbd.have = FALSE] IN
    IF m0.kbd.have THEN ShiftInData(m, m0.kbd.result) ELSE m

\* Called after a change of CB2.
Cb2Changed(m) ==
    IF m.kbd.state = "idle" /\ m.via.icb2 = 0
    THEN [m EXCEPT !.kbd.state = "rx_cmd", !.kbd.action = 1, !.kbd.left = KbdDelay,
                   !.kbd.pending = FALSE]
    ELSE IF m.kbd.state = "got_cmd" /\ m.via.icb2 = 1
    THEN [m EXCEPT !.kbd.state = "rx_end", !.kbd.action = 2, !.kbd.left = KbdDelay]
    ELSE m

\* The guest writes SR: a 0 in mode 6 pulls CB2 low.
WriteSr(m0, byte) ==
    LET m == [m0 EXCEPT !.via = Clear([@ EXCEPT !.sr = byte], {"SR"})] IN
    IF m.via.mode = 6 /\ byte = Zero /\ m.via.icb2 # 0
    THEN Cb2Changed([m EXCEPT !.via.icb2 = 0]) ELSE m

\* The guest writes the shift mode: an output that becomes an input lets CB2 go high.
IsOutput(mode) == mode \in {6, 7}
WriteAcr(m0, mode) ==
    LET m == [m0 EXCEPT !.via.mode = mode] IN
    IF IsOutput(m0.via.mode) /\ ~IsOutput(mode) /\ m.via.icb2 = 0
    THEN Cb2Changed([m EXCEPT !.via.icb2 = 1]) ELSE m

TimedAction(m0) ==
    LET m == [m0 EXCEPT !.kbd.action = 0] IN
    IF m0.kbd.action = 0 \/ m0.kbd.left > 0 THEN m0
    ELSE IF m0.kbd.action = 1 THEN DoReceiveCommand(m) ELSE DoReceiveEndCommand(m)

KbdTick(m0) ==
    LET m == TimedAction(m0)
        done == [m EXCEPT !.kbd.pending = FALSE]
    IN  IF ~m.kbd.pending THEN m
        ELSE IF Waiting(m.kbd) THEN FinishInquiry(done)
        ELSE IF m.kbd.inquiryLeft = 0 THEN GotKeyboardData(done, Null) ELSE m
=============================================================================
