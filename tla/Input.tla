------------------------------- MODULE Input -------------------------------
(***************************************************************************)
(* Keyboards and mice, by interrupt (PS/2: keyboard.rs, mouse.rs) and by   *)
(* polling (USB: usb/hid.rs, Uhci::poll), the queue they fill (input.rs)   *)
(* and the main loop that empties it (main.rs).  The two mice share one    *)
(* set of button flags.  The loop works with interrupts off and lets them  *)
(* in only while an application runs or the processor halts.               *)
(***************************************************************************)
EXTENDS Naturals, Sequences, FiniteSets

CONSTANTS
  Keys,        \* keys of the keyboards, Ctrl aside
  None,
  HAS_WHEEL,   \* whether the PS/2 mouse sends four bytes
  MaxQueue     \* bound: events that wait

VARIABLES
  pass,                       \* where the main loop is
  EVENT_QUEUE,
  prev_left, prev_right, gui, \* of the main loop
  BTN_LEFT, BTN_RIGHT,
  PACKET_INDEX, flags,        \* the PS/2 packet: bytes so far and the first of them
  CTRL_HELD,
  prev_kbd, REPEAT_CODE,      \* of the USB keyboard
  pending,                    \* inject_relative between the flags and the queue, or None
  said                        \* history: what the devices last said is held

vars == <<pass, EVENT_QUEUE, prev_left, prev_right, gui, BTN_LEFT, BTN_RIGHT, PACKET_INDEX,
          flags, CTRL_HELD, prev_kbd, REPEAT_CODE, pending, said>>

Buttons == [left : BOOLEAN, right : BOOLEAN]
Reports == [keys : SUBSET Keys, ctrl : BOOLEAN]
Key == [kind |-> "key"]
Wheel == [kind |-> "wheel"]
Button(b, double) == [kind |-> "button", left |-> b.left, right |-> b.right, double_clicked |-> double]
Events == {Key, Wheel} \cup {Button(b, d) : b \in Buttons, d \in BOOLEAN}

Room == Len(EVENT_QUEUE) + 2 <= MaxQueue

Init ==
  /\ pass = "open"
  /\ EVENT_QUEUE = <<>>
  /\ prev_left = FALSE /\ prev_right = FALSE /\ gui = FALSE
  /\ BTN_LEFT = FALSE /\ BTN_RIGHT = FALSE
  /\ PACKET_INDEX = 0 /\ flags = [left |-> FALSE, right |-> FALSE]
  /\ CTRL_HELD = FALSE
  /\ prev_kbd = {} /\ REPEAT_CODE = None
  /\ pending = None
  /\ said = [left |-> FALSE, keys |-> {}]

\* A variant of a loop that never turns interrupts off (for the mutation checks).
AlwaysOn == TRUE

\* sti ends a pass; an application runs with interrupts on.
InterruptsOn == pass = "open"

\* keyboard_handler_rust: a key goes down or repeats, or is released.  Ctrl
\* alone decodes to a key event when pressed and to nothing when released.
PsKeyboard ==
  /\ InterruptsOn /\ Room
  /\ \/ EVENT_QUEUE' = Append(EVENT_QUEUE, Key) /\ CTRL_HELD' \in {CTRL_HELD, TRUE}
     \/ CTRL_HELD /\ CTRL_HELD' = FALSE /\ UNCHANGED EVENT_QUEUE
  /\ UNCHANGED <<pass, prev_left, prev_right, gui, BTN_LEFT, BTN_RIGHT, PACKET_INDEX, flags, prev_kbd, REPEAT_CODE, pending, said>>

\* What a mouse pushes when its buttons become b.  A press is a double click if
\* the last was less than ten ticks ago.
Changed(b) == b.left # BTN_LEFT \/ b.right # BTN_RIGHT
Doubles(b) == IF b.left /\ ~BTN_LEFT THEN BOOLEAN ELSE {FALSE}
Pushes(b, wheel) ==
  {(IF wheel THEN <<Wheel>> ELSE <<>>) \o (IF Changed(b) THEN <<Button(b, d)>> ELSE <<>>) :
     d \in Doubles(b)}
Press(b) ==
  /\ BTN_LEFT' = b.left
  /\ BTN_RIGHT' = b.right
  /\ said' = [said EXCEPT !.left = b.left]

\* handle_interrupt: the bytes of a packet, then parse_packet.
LastByte == IF HAS_WHEEL THEN 3 ELSE 2
PsMouseByte ==
  /\ InterruptsOn /\ Room
  /\ \/ /\ PACKET_INDEX = 0
        /\ flags' \in Buttons
        /\ PACKET_INDEX' = 1
        /\ UNCHANGED <<EVENT_QUEUE, BTN_LEFT, BTN_RIGHT, said>>
     \/ /\ PACKET_INDEX \in 1 .. LastByte - 1
        /\ PACKET_INDEX' = PACKET_INDEX + 1
        /\ UNCHANGED <<flags, EVENT_QUEUE, BTN_LEFT, BTN_RIGHT, said>>
     \/ /\ PACKET_INDEX = LastByte
        /\ PACKET_INDEX' = 0
        /\ \E wheel \in {FALSE, HAS_WHEEL} : \E new \in Pushes(flags, wheel) :
             EVENT_QUEUE' = EVENT_QUEUE \o new
        /\ Press(flags)
        /\ UNCHANGED flags
  /\ UNCHANGED <<pass, prev_left, prev_right, gui, CTRL_HELD, prev_kbd,
                 REPEAT_CODE, pending>>

-----------------------------------------------------------------------------

\* cli, and the next pass.
Wake ==
  /\ pass = "open"
  /\ pass' = "drain"
  /\ UNCHANGED <<EVENT_QUEUE, prev_left, prev_right, gui, BTN_LEFT, BTN_RIGHT, PACKET_INDEX, flags,
                 CTRL_HELD, prev_kbd, REPEAT_CODE, pending, said>>

\* One event: the shell keeps only the left button; an event may enter or
\* leave the desktop.
Pop ==
  /\ pass = "drain" /\ EVENT_QUEUE # <<>>
  /\ EVENT_QUEUE' = Tail(EVENT_QUEUE)
  /\ gui' \in BOOLEAN
  /\ LET event == Head(EVENT_QUEUE)
     IN IF event.kind = "button"
        THEN /\ prev_left' = event.left
             /\ prev_right' = IF gui THEN event.right ELSE prev_right
        ELSE UNCHANGED <<prev_left, prev_right>>
  /\ UNCHANGED <<pass, BTN_LEFT, BTN_RIGHT, PACKET_INDEX, flags, CTRL_HELD,
                 prev_kbd, REPEAT_CODE, pending, said>>

Drained ==
  /\ pass = "drain" /\ EVENT_QUEUE = <<>>
  /\ pass' = "keyboard"
  /\ UNCHANGED <<EVENT_QUEUE, prev_left, prev_right, gui, BTN_LEFT, BTN_RIGHT, PACKET_INDEX, flags,
                 CTRL_HELD, prev_kbd, REPEAT_CODE, pending, said>>

\* The repeat ends when its key is no longer reported.
Repeating(code, keys) == IF code \in keys THEN code ELSE None

\* Uhci::poll: the descriptor of the keyboard is still active, or a report has
\* come.  handle_keyboard_report: every key that was not in the report before is
\* pushed, and the last of them repeats; the repeat ends with the key.
UsbKeyboard ==
  /\ pass = "keyboard"
  /\ pass' = "mouse"
  /\ \/ UNCHANGED <<EVENT_QUEUE, CTRL_HELD, prev_kbd, REPEAT_CODE, said>>
     \/ \E report \in Reports :
          LET fresh == report.keys \ prev_kbd
          IN /\ EVENT_QUEUE' = EVENT_QUEUE \o [i \in 1 .. Cardinality(fresh) |-> Key]
             /\ \E last \in IF fresh = {} THEN {REPEAT_CODE} ELSE fresh :
                  REPEAT_CODE' = Repeating(last, report.keys)
             /\ CTRL_HELD' = report.ctrl
             /\ prev_kbd' = report.keys
             /\ said' = [said EXCEPT !.keys = report.keys]
  /\ UNCHANGED <<prev_left, prev_right, gui, BTN_LEFT, BTN_RIGHT, PACKET_INDEX, flags,
                 pending>>

\* inject_relative first swaps the flags ...
UsbMouse ==
  /\ pass = "mouse"
  /\ \/ pass' = "tick" /\ UNCHANGED <<BTN_LEFT, BTN_RIGHT, pending, said>>
     \/ /\ \E report \in Buttons, wheel \in BOOLEAN :
             pending' \in Pushes(report, wheel) /\ Press(report)
        /\ pass' = "push"
  /\ UNCHANGED <<EVENT_QUEUE, prev_left, prev_right, gui, PACKET_INDEX, flags, CTRL_HELD,
                 prev_kbd, REPEAT_CODE>>

\* ... and then pushes what changed.
UsbPush ==
  /\ pass = "push"
  /\ EVENT_QUEUE' = EVENT_QUEUE \o pending
  /\ pending' = None
  /\ pass' = "tick"
  /\ UNCHANGED <<prev_left, prev_right, gui, BTN_LEFT, BTN_RIGHT, PACKET_INDEX, flags, CTRL_HELD, prev_kbd, REPEAT_CODE, said>>

\* hid::tick: the repeating key again, if its time has come.  Then the pass
\* ends: an application runs, or the processor halts.
HidTick ==
  /\ pass = "tick"
  /\ pass' = "open"
  /\ \/ REPEAT_CODE # None /\ EVENT_QUEUE' = Append(EVENT_QUEUE, Key)
     \/ UNCHANGED EVENT_QUEUE
  /\ UNCHANGED <<prev_left, prev_right, gui, BTN_LEFT, BTN_RIGHT, PACKET_INDEX, flags, CTRL_HELD, prev_kbd, REPEAT_CODE, pending, said>>

Next ==
  \/ PsKeyboard \/ PsMouseByte
  \/ Wake \/ Pop \/ Drained \/ UsbKeyboard \/ UsbMouse \/ UsbPush \/ HidTick

Spec == Init /\ [][Next]_vars

-----------------------------------------------------------------------------

(* Every variable keeps its type (input.rs, mouse.rs, keyboard.rs, usb/hid.rs *)
(* and the locals of the loop in main.rs).                                   *)
TypeOK ==
  /\ pass \in {"open", "drain", "keyboard", "mouse", "push", "tick"}
  /\ EVENT_QUEUE \in Seq(Events)
  /\ prev_left \in BOOLEAN /\ prev_right \in BOOLEAN /\ gui \in BOOLEAN
  /\ BTN_LEFT \in BOOLEAN /\ BTN_RIGHT \in BOOLEAN /\ CTRL_HELD \in BOOLEAN
  /\ PACKET_INDEX \in 0 .. LastByte /\ flags \in Buttons
  /\ prev_kbd \subseteq Keys /\ REPEAT_CODE \in Keys \cup {None}
  /\ pending = None \/ pending \in Seq(Events)

(* When the loop has nothing left to handle, what it takes for held is what   *)
(* the devices last said: the left button of whichever mouse moved last, and *)
(* a repeating key only while the USB keyboard reports it.  It rests on the   *)
(* loop's turning interrupts off, since inject_relative changes the flags and *)
(* then the queue (mouse.rs, usb/hid.rs, main.rs).                           *)
LoopKnowsWhatIsHeld ==
  pass \in {"keyboard", "open"} /\ EVENT_QUEUE = <<>> =>
    /\ prev_left = said.left
    /\ REPEAT_CODE # None => REPEAT_CODE \in said.keys
=============================================================================
