------------------------------ MODULE InputEvents ------------------------------
(***************************************************************************)
(* Structured input: the ring of key and pointer events                    *)
(* (src/drivers/keyboard.c), filled by the interrupt handlers of the PS/2  *)
(* keyboard and mouse (src/drivers/mouse.c) and by the polling of USB      *)
(* keyboards (src/drivers/usb_generic_keyboard.c), and emptied by the      *)
(* process that owns the display (src/syscall/syscall.c).                  *)
(*                                                                         *)
(* Filling the ring takes several steps.  An interrupt handler is not      *)
(* interrupted; usb_poll is, when the idle loop calls it.  System calls    *)
(* run with interrupts off.  The bytes that keys type are module Tty's.    *)
(***************************************************************************)
EXTENDS Integers, Sequences, SequencesExt, FiniteSets

CONSTANTS Machines,            \* the devices: usages and modifiers, the keys of the USB
                               \* keyboard by their HID usage; scancodes of the PS/2
                               \* keyboard; packets, the first bytes of mouse packets; how
                               \* many inputs they make
          EventSize,           \* EVENT_QUEUE_SIZE
          Batch,               \* events one sys_input_read takes
          Processes, None

ASSUME InputAssumption ==
    /\ EventSize \in Nat \ {0, 1} /\ Batch \in Nat \ {0} /\ None \notin Processes
    /\ \A m \in Machines :
          /\ m.scancodes \subseteq [key : {"shift", "alt", "caps", "enter", "arrow", "letter"}, released : BOOLEAN]
          /\ m.usages \subseteq 4..223 /\ m.modifiers \subseteq 224..231 /\ m.inputs \in Nat

VARIABLES
    event_queue, event_head, event_tail,
    keys, modifiers,       \* of usb_generic_keyboard_state_t
    caps_lock, shift_down, altgr_down, extended,
    packet, button_state,  \* of the mouse
    usb,                   \* usb_poll at work: usages to report, its "next", may it be interrupted
    user_display_owner,
    accepted,              \* history: events enqueued
    refused,               \* history: keys whose events found no room, and after which event
    read, since, lost,     \* history: the last event read or cleared; the last before the claim;
                           \* events taken out that did not reach the program
    last_code,             \* history: what the PS/2 keyboard sent last
    inputs,
    machine                \* the devices of this behaviour

queue == <<event_queue, event_head>>
ps2 == <<shift_down, altgr_down, extended, last_code>>
display == <<user_display_owner, event_tail, read, since, lost>>
vars == <<queue, keys, modifiers, caps_lock, ps2, packet, button_state, usb, display, accepted, refused, inputs, machine>>

NoPoll == [todo |-> << >>, next |-> None, stored |-> FALSE, interruptible |-> FALSE]
Event(from, key, value) == [from |-> from, key |-> key, value |-> value]
KeyOf(event) == <<event.from, event.key>>

Init ==
    /\ event_queue = [i \in 0..EventSize - 1 |-> None] /\ event_head = 0 /\ event_tail = 0
    /\ keys = {} /\ modifiers = {}
    /\ caps_lock = FALSE /\ shift_down = FALSE /\ altgr_down = FALSE /\ extended = FALSE /\ last_code = "none"
    /\ packet = << >> /\ button_state = {}
    /\ usb = NoPoll /\ user_display_owner = None
    /\ accepted = << >> /\ refused = {} /\ read = 0 /\ since = 0 /\ lost = {} /\ inputs = 0
    /\ machine \in Machines

-----------------------------------------------------------------------------
(* Interrupts: the PS/2 keyboard and the mouse.                            *)

Input == inputs < machine.inputs /\ inputs' = inputs + 1

Interrupted == usb.todo = << >> \/ usb.interruptible

\* Mutant: a full ring starts over.
PutOver(s, event) ==
    [s EXCEPT !.queue[s.head] = event, !.head = (@ + 1) % EventSize, !.accepted = Append(@, event)]

\* keyboard_enqueue_input_event, not interrupted
Put(s, event) ==
    IF (s.head + 1) % EventSize = event_tail
    THEN [s EXCEPT !.refused = @ \cup {[key |-> KeyOf(event), at |-> Len(s.accepted)]}]
    ELSE [s EXCEPT !.queue[s.head] = event, !.head = (@ + 1) % EventSize, !.accepted = Append(@, event)]

keyboard_enqueue_input_event(events) ==
    LET s == FoldLeft(Put, [queue |-> event_queue, head |-> event_head, accepted |-> accepted, refused |-> refused],
                      events)
    IN event_queue' = s.queue /\ event_head' = s.head /\ accepted' = s.accepted /\ refused' = s.refused

\* Mutant: AltGr leaves the prefix in force.
AltGrKeepsPrefix(code) ==
    /\ code.key = "alt" /\ extended
    /\ altgr_down' = ~code.released
    /\ UNCHANGED <<shift_down, caps_lock, extended>>

AltGr(code) ==
    /\ code.key = "alt" /\ extended
    /\ altgr_down' = ~code.released
    /\ extended' = FALSE
    /\ UNCHANGED <<shift_down, caps_lock>>

Shift(code) ==
    /\ code.key = "shift"
    /\ shift_down' = ~code.released
    /\ extended' = FALSE
    /\ UNCHANGED <<altgr_down, caps_lock>>

CapsLock(code) ==
    /\ code.key = "caps" /\ ~code.released
    /\ caps_lock' = ~caps_lock
    /\ extended' = FALSE
    /\ UNCHANGED <<shift_down, altgr_down>>

\* Any other key, and its release; what a key types is left out here.
OtherKey(code) ==
    /\ code.key # "shift" /\ ~(code.key = "alt" /\ extended) /\ ~(code.key = "caps" /\ ~code.released)
    /\ \/ code.released /\ extended' = FALSE
       \/ ~code.released /\ extended /\ extended' = FALSE
       \/ ~code.released /\ ~extended /\ UNCHANGED extended
    /\ UNCHANGED <<shift_down, altgr_down, caps_lock>>

\* An interrupt of the keyboard: the prefix 0xe0, or a key with the modifiers before it
keyboard_irq ==
    /\ Interrupted /\ machine.scancodes # {} /\ Input
    /\ \/ /\ extended' = TRUE /\ last_code' = "prefix"
          /\ UNCHANGED <<queue, accepted, refused, shift_down, altgr_down, caps_lock>>
       \/ \E code \in machine.scancodes :
             /\ keyboard_enqueue_input_event(<< Event("ps2", code.key, ~code.released) >>)
             /\ Shift(code) \/ AltGr(code) \/ CapsLock(code) \/ OtherKey(code)
             /\ last_code' = "key"
    /\ UNCHANGED <<keys, modifiers, packet, button_state, usb, display>>

\* The events of a complete packet: motion, then each button that changed
Moves(bytes) ==
    LET moved == SelectSeq(<< [axis |-> "x", by |-> bytes[2]], [axis |-> "y", by |-> bytes[3]] >>,
                           LAMBDA m : m.by # 0)
    IN IF bytes[1].overflow THEN << >> ELSE [i \in 1..Len(moved) |-> Event("motion", moved[i].axis, moved[i].by)]

Clicks(buttons) ==
    LET changed == SetToSeq((buttons \cup button_state) \ (buttons \cap button_state))
    IN [i \in 1..Len(changed) |-> Event("mouse", changed[i], changed[i] \in buttons)]

\* An interrupt of the mouse: a byte that cannot start a packet is skipped.
mouse_irq ==
    /\ Interrupted /\ machine.packets # {} /\ Input
    /\ \/ packet = << >> /\ UNCHANGED <<packet, button_state, queue, accepted, refused>>
       \/ /\ packet = << >> /\ \E first \in machine.packets : packet' = << first >>
          /\ UNCHANGED <<button_state, queue, accepted, refused>>
       \/ /\ Len(packet) = 1 /\ \E dx \in {0, 1} : packet' = Append(packet, dx)
          /\ UNCHANGED <<button_state, queue, accepted, refused>>
       \/ /\ Len(packet) = 2 /\ packet' = << >>
          /\ \E dy \in {0, 1} :
                LET buttons == packet[1].buttons
                IN /\ keyboard_enqueue_input_event(Moves(Append(packet, dy)) \o Clicks(buttons))
                   /\ button_state' = buttons
    /\ UNCHANGED <<keys, modifiers, caps_lock, ps2, usb, display>>

-----------------------------------------------------------------------------
(* Polling: the USB keyboard.                                              *)

\* usb_usage_to_keycode for usages of each kind: a letter, the two Enters, the two
\* backslashes, Caps Lock, cursor right and the keypad's 6, a modifier.  Other
\* usages here have no code.
usb_usage_to_keycode(usage) ==
    CASE usage = 4 -> 30
      [] usage \in {40, 88} -> 28
      [] usage \in {49, 50} -> 43
      [] usage = 57 -> 58
      [] usage \in {79, 94} -> 77
      [] usage = 225 -> 42
      [] OTHER -> 0

is_extended(usage) == usage \in {79, 88}

\* A cursor key has a code of its own, NPK_KEY_RIGHT.
event_key(usage) == IF usage = 79 THEN 106 ELSE usb_usage_to_keycode(usage)

\* An event names its code and whether it is marked as extended.
UsbKey(usage) == <<event_key(usage), is_extended(usage)>>
UsbEvent(change) == Event("usb", UsbKey(change.usage), change.pressed)

Report(usages, pressed) ==
    LET ordered == SetToSortSeq(usages, <) IN
    [i \in 1..Len(ordered) |-> [usage |-> ordered[i], pressed |-> ordered[i] \in pressed]]

\* Mutant: the keys of a report in error are remembered.
KeysAfterError(pressed, rollover) == pressed

\* A report of too many keys changes no key.
KeysAfter(pressed, rollover) == IF rollover THEN keys ELSE pressed

\* usb_generic_keyboard_process_report: what differs from the last report
Changes(mods, now) ==
    Report((mods \cup modifiers) \ (mods \cap modifiers), mods)
    \o Report(keys \ now, {}) \o Report(now \ keys, now)

\* usb_poll finds a report, in the idle loop or in poll().  A device that reports
\* too many keys reports none.
usb_poll ==
    /\ usb.todo = << >> /\ machine.usages # {} /\ Input
    /\ \E mods \in SUBSET machine.modifiers, pressed \in SUBSET machine.usages, rollover, interruptible \in BOOLEAN :
          LET now == IF rollover THEN keys ELSE pressed
          IN /\ rollover => pressed = {}
             /\ usb' = [NoPoll EXCEPT !.todo = Changes(mods, now), !.interruptible = interruptible]
             /\ keys' = KeysAfter(pressed, rollover)
             /\ modifiers' = mods
    /\ UNCHANGED <<queue, caps_lock, ps2, packet, button_state, display, accepted, refused>>

\* keyboard_usb_hid_event and the first lines of keyboard_enqueue_input_event
Compute ==
    LET change == Head(usb.todo)
        event == UsbEvent(change)
        known == usb_usage_to_keycode(change.usage) # 0
        full == (event_head + 1) % EventSize = event_tail
    IN /\ usb.todo # << >> /\ usb.next = None
       /\ caps_lock' = IF change.usage = 57 /\ change.pressed THEN ~caps_lock ELSE caps_lock
       /\ usb' = IF known /\ ~full THEN [usb EXCEPT !.next = (event_head + 1) % EventSize]
                 ELSE [usb EXCEPT !.todo = Tail(@)]
       /\ refused' = IF known /\ full THEN refused \cup {[key |-> KeyOf(event), at |-> Len(accepted)]} ELSE refused
       /\ UNCHANGED <<queue, keys, modifiers, ps2, packet, button_state, display, accepted, inputs>>

\* the assignment to event_queue[event_head]
Store ==
    /\ usb.next # None /\ ~usb.stored
    /\ event_queue' = [event_queue EXCEPT ![event_head] = UsbEvent(Head(usb.todo))]
    /\ usb' = [usb EXCEPT !.stored = TRUE]
    /\ UNCHANGED <<event_head, keys, modifiers, caps_lock, ps2, packet, button_state, display, accepted, refused, inputs>>

\* event_head = next
Commit ==
    /\ usb.stored
    /\ event_head' = usb.next
    /\ accepted' = Append(accepted, UsbEvent(Head(usb.todo)))
    /\ usb' = [usb EXCEPT !.todo = Tail(@), !.next = None, !.stored = FALSE]
    /\ UNCHANGED <<event_queue, keys, modifiers, caps_lock, ps2, packet, button_state, display, refused, inputs>>

-----------------------------------------------------------------------------
(* The display's owner.                                                    *)

Queued == (event_head - event_tail) % EventSize

\* Mutant: what was typed before is not thrown away.
ClaimKeeps(p) ==
    /\ usb.todo = << >> /\ user_display_owner \in {None, p}
    /\ user_display_owner' = p /\ since' = Len(accepted)
    /\ UNCHANGED <<queue, keys, modifiers, caps_lock, ps2, packet, button_state, usb, event_tail, read, lost,
                   accepted, refused, inputs>>

\* gop_claim_user_display and keyboard_clear_events
sys_display_claim(p) ==
    /\ usb.todo = << >> /\ user_display_owner \in {None, p}
    /\ user_display_owner' = p /\ since' = Len(accepted)
    /\ event_tail' = event_head /\ read' = read + Queued
    /\ UNCHANGED <<queue, keys, modifiers, caps_lock, ps2, packet, button_state, usb, lost, accepted, refused, inputs>>

\* sys_display_release, or the owner's exit
sys_display_release(p) ==
    /\ usb.todo = << >> /\ user_display_owner = p
    /\ user_display_owner' = None
    /\ UNCHANGED <<queue, keys, modifiers, caps_lock, ps2, packet, button_state, usb, event_tail, read, since, lost,
                   accepted, refused, inputs>>

\* As many events as there are and fit; when they cannot be copied to the
\* program (-EFAULT) they are gone.
sys_input_read(p) ==
    LET n == IF Queued < Batch THEN Queued ELSE Batch
    IN /\ usb.todo = << >> /\ user_display_owner = p /\ n > 0
       /\ event_tail' = (event_tail + n) % EventSize
       /\ read' = read + n
       /\ \E copied \in BOOLEAN : lost' = IF copied THEN lost ELSE lost \cup (read + 1..read + n)
       /\ UNCHANGED <<queue, keys, modifiers, caps_lock, ps2, packet, button_state, usb, user_display_owner, since,
                      accepted, refused, inputs>>

Next ==
    /\ UNCHANGED machine
    /\ \/ keyboard_irq \/ mouse_irq \/ usb_poll \/ Compute \/ Store \/ Commit
       \/ \E p \in Processes : sys_display_claim(p) \/ sys_display_release(p) \/ sys_input_read(p)

Spec == Init /\ [][Next]_vars
-----------------------------------------------------------------------------
(* Properties.                                                             *)

\* The ring's indices and the devices' states have their types.
TypeOK ==
    /\ event_head \in 0..EventSize - 1 /\ event_tail \in 0..EventSize - 1
    /\ keys \subseteq machine.usages /\ modifiers \subseteq machine.modifiers
    /\ {caps_lock, shift_down, altgr_down, extended} \subseteq BOOLEAN
    /\ Len(packet) < 3 /\ user_display_owner \in Processes \cup {None}
    /\ usb.next \in 0..EventSize - 1 \cup {None} /\ usb.stored \in BOOLEAN

\* The events enqueued and not yet read are in the ring, in order, none lost,
\* doubled or written over, once no enqueueing is under way.
InOrder ==
    usb.next = None =>
        /\ read + Queued = Len(accepted)
        /\ \A i \in 1..Queued : event_queue[(event_tail + i - 1) % EventSize] = accepted[read + i]

\* What is held, as events name it, and names that two keys share
Held == {<<"usb", UsbKey(u)>> : u \in {v \in keys \cup modifiers : usb_usage_to_keycode(v) # 0}}
        \cup ({"mouse"} \X button_state)
Shared(k) == \E u, v \in machine.usages : u # v /\ k = <<"usb", UsbKey(u)>> /\ UsbKey(u) = UsbKey(v)

\* The events the display's owner has got, and the last one of a key
Got == {i \in since + 1..read : i \notin lost}
LastOfKey(i) ==
    /\ \A j \in i + 1..Len(accepted) : KeyOf(accepted[j]) # KeyOf(accepted[i])
    /\ \A m \in refused : m.key = KeyOf(accepted[i]) => m.at < i

\* The display's owner knows of a key whose last event it has read whether it is
\* held: an event refused by the full ring, thrown away by a claim or lost in a
\* failed copy spoils this for no other key, and for its own only until the next
\* event.  No key or button is held without an event to say so.  (When one of two
\* keys with the same code is let go the other seems to be.)
HeldKnown ==
    usb.todo = << >> =>
        /\ \A i \in Got : LastOfKey(i) /\ accepted[i].from \in {"usb", "mouse"} =>
              IF accepted[i].value THEN KeyOf(accepted[i]) \in Held
              ELSE KeyOf(accepted[i]) \in Held => Shared(KeyOf(accepted[i]))
        /\ \A k \in Held : (\E i \in 1..Len(accepted) : KeyOf(accepted[i]) = k) \/ \E m \in refused : m.key = k

\* The display's owner reads no event from before its claim.
OnlyOwnEvents == user_display_owner # None => read >= since

\* The prefix 0xe0 is in force for the next scan code and no longer, whichever way
\* the handler of that code returns.
PrefixOnce == extended <=> last_code = "prefix"

\* Devices and ring have their types, the prefix is in force for one scan code,
\* the display's owner reads nothing from before its claim, and from the events it
\* has read it knows what is held.
InputConsistent == TypeOK /\ PrefixOnce /\ OnlyOwnEvents /\ HeldKnown
=============================================================================
