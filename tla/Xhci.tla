---------------------------------- MODULE Xhci ----------------------------------
(***************************************************************************)
(* The USB host controller driver (src/drivers/xhci.c) and what the USB    *)
(* core asks of it at boot (src/drivers/usb.c): command, transfer and      *)
(* event rings whose entries (TRBs) change hands by their cycle bit, the   *)
(* enumeration of the ports, one request at a time, and the polling of     *)
(* keyboards afterwards, in usb_poll, whenever the idle thread runs or a   *)
(* program calls poll.  XhciProbe brings the controller up; UsbConfig says *)
(* what is read off a device.                                              *)
(*                                                                         *)
(* The controller runs beside the driver.  It looks at a ring once its     *)
(* doorbell is rung, until it meets a TRB that is not its own; with Late,  *)
(* it has yet to look at the TRB after the one it reported.  Port resets   *)
(* are left out; a TRB carries the number under which it was written, to   *)
(* tell it from others.                                                    *)
(***************************************************************************)
EXTENDS XhciProbe, UsbConfig

CONSTANTS NumSlots,      \* ports at most; each device gets the slot of its port's number
          TrbCount,      \* XHCI_TRB_COUNT
          EventCount,    \* XHCI_EVENT_COUNT
          Late           \* may the controller look at the next TRB some time after
                         \* it has reported the one before it?

Slots == 1..NumSlots
Bit == {0, 1}

\* Of a machine, further: the devices on its ports, the reports a keyboard sends,
\* the ones of them that have less than 8 bytes (short), completions, TRUE for
\* success, FALSE for an error (outcomes), rings that may answer only after
\* XHCI_POLL_LIMIT (slow)
ASSUME XhciAssumption ==
    /\ NumSlots \in Nat \ {0}
    /\ TrbCount \in Nat /\ TrbCount > 4 /\ EventCount \in Nat \ {0, 1} /\ Late \in BOOLEAN
    /\ \A m \in Machines : /\ Len(m.devices) <= NumSlots /\ m.reports \in Nat /\ m.short \subseteq 1..m.reports
                           /\ m.outcomes \subseteq BOOLEAN /\ m.slow \subseteq {"cmd", "ep0"}

Cmd == <<0, "cmd">>
Rings == {Cmd} \cup (Slots \X {"ep0", "int"})

VARIABLES
    rings,       \* by ring: its TRBs, the cycle bit of its link TRB, enqueue index and cycle
    written,     \* by ring: how many TRBs were written
    hc,          \* by ring, the controller's side: index, cycle, looking, halted, number last taken
    event_ring, posted,                  \* the event ring and where the controller is in it
    event_dequeue_index, event_cycle,    \* where the driver is in it
    pc,          \* "write" TRBs, "wait" in wait_event, "poll", or "away": not in the driver
    port, step,  \* the device enumerated and the step of its enumeration
    request,     \* ring written to, TRBs to write; at: the TRB waited for
    blanked,     \* the control word of the next TRB is cleared, not yet written
    interrupt_started, interrupt_pending, pending_transfer_phys, \* by slot
    sent, received,  \* by slot: reports sent by the device, and handed to its driver
    answer           \* the TRB last waited for, and the one whose event was taken for it

driver == <<pc, port, step, request>>
consumer == <<event_dequeue_index, event_cycle>>
slots == <<interrupt_started, interrupt_pending, pending_transfer_phys>>
transfers == <<rings, written, hc, event_ring, posted, consumer, driver, blanked, slots, sent, received, answer>>
vars == <<transfers, probe, machine>>

-----------------------------------------------------------------------------
(* Enumeration: the requests made for one device, in order.                *)

Command == [ring |-> "cmd", trbs |-> 1]
Control(n) == [ring |-> "ep0", trbs |-> n]

\* usb_identify_xhci_device, up to the interfaces: slot, address, 8 bytes of the
\* descriptor, packet size, all of it, configuration header, configuration
Identify == << Command, Command, Control(3), Command, Control(3), Control(3), Control(3) >>

\* prepare_boot_keyboard and the probe: endpoint, configuration, report
\* descriptor, protocol
Prepare == << Command, Control(2), Control(3), Control(2) >>

AllSteps == Identify \o Prepare
Ports == 1..Len(machine.devices)
Asked(s) == Requests(machine.devices[s])

\* Then a keyboard's first report is asked for, in xhci_start_interrupt_in.
Request(s, k) ==
    IF k > Len(AllSteps) THEN [ring |-> <<s, "int">>, left |-> 1, at |-> 0]
    ELSE [ring |-> IF AllSteps[k].ring = "cmd" THEN Cmd ELSE <<s, "ep0">>, left |-> AllSteps[k].trbs, at |-> 0]

\* Step k of slot s is begun.
Enter(s, k) == port' = s /\ step' = k /\ pc' = "write" /\ request' = Request(s, k)

\* The next port with a device of a known speed, or all are done.
NextPort(s) ==
    IF \E t \in Ports : t > s /\ Asked(t) > 0
    THEN Enter(CHOOSE t \in Ports : t > s /\ Asked(t) > 0 /\ \A u \in s + 1..t - 1 : Asked(u) = 0, 1)
    ELSE pc' = "done" /\ port' = NumSlots + 1 /\ step' = 1 /\ UNCHANGED request

\* The pages some steps need first: slot contexts and ring, another input
\* context, interrupt ring and report buffer.
Pages(k) == CASE k = 2 -> 3 [] k = 4 -> 1 [] k = 8 -> 2 [] OTHER -> 0

\* The packet size is updated only if it differs from the one assumed.
Following(k) == IF k = 3 /\ Packet(machine.devices[port]) = Assumed(machine.devices[port]) THEN 5 ELSE k + 1

\* A step succeeded: the next one, unless the device turned out to be of no
\* further use or there are no pages for it.
Succeeds ==
    LET next == Following(step)
    IN IF step = Asked(port) /\ step < Len(AllSteps) THEN NextPort(port) /\ UNCHANGED probe
       ELSE IF Pages(next) = 0 THEN Enter(port, next) /\ UNCHANGED probe
       ELSE /\ Grow(Pages(next))
            /\ IF Enough(Pages(next)) THEN Enter(port, next) ELSE NextPort(port)

Init ==
    /\ rings = [r \in Rings |-> [trbs |-> [i \in 0..TrbCount - 2 |-> [cycle |-> 0, of |-> 0, ioc |-> FALSE]],
                                 link |-> 1, index |-> 0, cycle |-> 1]]
    /\ written = [r \in Rings |-> 0]
    /\ hc = [r \in Rings |-> [index |-> 0, cycle |-> 1, looks |-> FALSE, halted |-> FALSE, last |-> 0]]
    /\ event_ring = [i \in 0..EventCount - 1 |-> [cycle |-> 0, ring |-> Cmd, at |-> 0, of |-> 0, ok |-> TRUE,
                                                whole |-> TRUE]]
    /\ posted = [index |-> 0, cycle |-> 1] /\ event_dequeue_index = 0 /\ event_cycle = 1
    /\ pc = "probe" /\ port = 0 /\ step = 1 /\ request = [ring |-> Cmd, left |-> 0, at |-> 0] /\ blanked = FALSE
    /\ interrupt_started = [s \in Slots |-> FALSE] /\ interrupt_pending = [s \in Slots |-> FALSE]
    /\ pending_transfer_phys = [s \in Slots |-> 0]
    /\ sent = [s \in Slots |-> 0] /\ received = [s \in Slots |-> 0]
    /\ answer = [to |-> 0, of |-> 0] /\ ProbeInit

-----------------------------------------------------------------------------
(* Writing to a ring.                                                      *)

\* Mutant: the link TRB is given the cycle of the next lap.
AdvanceEarly(r) ==
    IF r.index + 1 = TrbCount - 1 THEN [r EXCEPT !.index = 0, !.link = 1 - r.cycle, !.cycle = 1 - @]
    ELSE [r EXCEPT !.index = @ + 1]

\* The last TRB before the link TRB hands the link over and starts another lap.
Advance(r) ==
    IF r.index + 1 = TrbCount - 1 THEN [r EXCEPT !.index = 0, !.link = r.cycle, !.cycle = 1 - @]
    ELSE [r EXCEPT !.index = @ + 1]

\* trb->control = 0, before the other words of the TRB are written
Blank ==
    /\ pc = "write" /\ ~blanked
    /\ blanked' = TRUE
    /\ rings' = [rings EXCEPT ![request.ring].trbs[rings[request.ring].index] = [cycle |-> 0, of |-> 0, ioc |-> FALSE]]
    /\ UNCHANGED <<written, hc, event_ring, posted, consumer, driver, slots, sent, received, answer>>

\* Mutant: like a command, a TRB of a transfer keeps its place until it completes.
PublishInPlace ==
    LET r == request.ring
        trb == [cycle |-> rings[r].cycle, of |-> written[r] + 1, ioc |-> request.left = 1]
    IN /\ pc = "write" /\ blanked
       /\ blanked' = FALSE
       /\ rings' = [rings EXCEPT ![r].trbs[rings[r].index] = trb]
       /\ written' = [written EXCEPT ![r] = @ + 1]

\* enqueue_transfer_trb; a command keeps its place in the ring until it completes
Publish ==
    LET r == request.ring
        ring == rings[r]
        trb == [cycle |-> ring.cycle, of |-> written[r] + 1, ioc |-> request.left = 1]
        full == [ring EXCEPT !.trbs[ring.index] = trb]
    IN /\ pc = "write" /\ blanked
       /\ blanked' = FALSE
       /\ rings' = [rings EXCEPT ![r] = IF r = Cmd THEN full ELSE Advance(full)]
       /\ written' = [written EXCEPT ![r] = @ + 1]

\* One of several TRBs of a control request
enqueue_transfer_trb ==
    /\ request.left > 1 /\ Publish
    /\ request' = [request EXCEPT !.left = @ - 1]
    /\ UNCHANGED <<hc, event_ring, posted, consumer, pc, port, step, slots, sent, received, answer>>

Doorbell == hc' = [hc EXCEPT ![request.ring].looks = TRUE]

\* The last TRB and the doorbell, in issue_command and xhci_control_request
Submit ==
    /\ request.left = 1 /\ request.ring[2] # "int" /\ Publish /\ Doorbell
    /\ request' = [request EXCEPT !.left = 0, !.at = rings[request.ring].index]
    /\ pc' = "wait"
    /\ UNCHANGED <<event_ring, posted, consumer, port, step, slots, sent, received, answer>>

\* enqueue_keyboard_report, at the end of enumeration and for each next report
enqueue_keyboard_report ==
    LET s == request.ring[1]
    IN /\ request.left = 1 /\ request.ring[2] = "int" /\ Publish /\ Doorbell
       /\ interrupt_started' = [interrupt_started EXCEPT ![s] = TRUE]
       /\ interrupt_pending' = [interrupt_pending EXCEPT ![s] = TRUE]
       /\ pending_transfer_phys' = [pending_transfer_phys EXCEPT ![s] = rings[request.ring].index]
       /\ IF port \in Slots THEN NextPort(port) ELSE pc' = "poll" /\ UNCHANGED <<port, step, request>>
       /\ UNCHANGED <<event_ring, posted, consumer, sent, received, answer>>

-----------------------------------------------------------------------------
(* Reading events.                                                         *)

event == event_ring[event_dequeue_index]

HasEvent == event.cycle = event_cycle

\* Mutant: the driver's cycle is not changed when it wraps.
NextEventSameCycle ==
    /\ HasEvent
    /\ event_dequeue_index' = (event_dequeue_index + 1) % EventCount
    /\ UNCHANGED event_cycle

\* next_event finds an event and tells the controller it was read.
next_event ==
    /\ HasEvent
    /\ event_dequeue_index' = (event_dequeue_index + 1) % EventCount
    /\ event_cycle' = IF event_dequeue_index + 1 = EventCount THEN 1 - event_cycle ELSE event_cycle

\* Mutant: the event's TRB is not compared.
MatchesRing == event.ring = request.ring

\* the comparisons of wait_event: type, TRB and slot
Matches == event.ring = request.ring /\ event.at = request.at

\* wait_event passes over an event of anything else.
Discard ==
    /\ pc = "wait" /\ next_event /\ ~Matches
    /\ UNCHANGED <<rings, written, hc, event_ring, posted, driver, blanked, slots, sent, received, answer>>

\* The request completes; after an error the device is given up.
Answered ==
    /\ pc = "wait" /\ next_event /\ Matches
    /\ rings' = IF request.ring = Cmd THEN [rings EXCEPT ![Cmd] = Advance(@)] ELSE rings
    /\ answer' = [to |-> written[request.ring], of |-> event.of]
    /\ IF event.ok THEN Succeeds ELSE NextPort(port) /\ UNCHANGED probe
    /\ UNCHANGED <<written, hc, event_ring, posted, blanked, slots, sent, received>>

\* XHCI_POLL_LIMIT looks found nothing: the device is given up, a command's TRB left.
TimesOut ==
    /\ pc = "wait" /\ ~HasEvent
    /\ request.ring[2] \in machine.slow \/ hc[request.ring].halted
    /\ NextPort(port)
    /\ UNCHANGED <<rings, written, hc, event_ring, posted, consumer, blanked, slots, sent, received, answer>>

\* The event is that of the report asked for.
IsReport ==
    /\ event.ring[2] = "int" /\ interrupt_pending[event.ring[1]]
    /\ event.at = pending_transfer_phys[event.ring[1]]

\* usb_poll is called.
usb_poll ==
    /\ pc = "away"
    /\ pc' = "poll"
    /\ UNCHANGED <<rings, written, hc, event_ring, posted, consumer, port, step, request, blanked, slots, sent,
                   received, answer>>

\* One event: a whole report is handed on, and after it or a short one the next
\* one is asked for.
xhci_poll_keyboard_inputs ==
    /\ pc = "poll" /\ next_event
    /\ LET s == event.ring[1]
       IN \/ /\ ~IsReport
             /\ UNCHANGED <<driver, interrupt_started, interrupt_pending, received>>
          \/ /\ IsReport /\ event.ok
             /\ interrupt_pending' = [interrupt_pending EXCEPT ![s] = FALSE]
             /\ received' = IF event.whole THEN [received EXCEPT ![s] = @ + 1] ELSE received
             /\ pc' = "write" /\ request' = [ring |-> <<s, "int">>, left |-> 1, at |-> 0]
             /\ UNCHANGED <<port, step, interrupt_started>>
          \/ /\ IsReport /\ ~event.ok
             /\ interrupt_pending' = [interrupt_pending EXCEPT ![s] = FALSE]
             /\ interrupt_started' = [interrupt_started EXCEPT ![s] = FALSE]
             /\ UNCHANGED <<driver, received>>
    /\ UNCHANGED <<rings, written, hc, event_ring, posted, blanked, pending_transfer_phys, sent, answer>>

\* There are no more events: the loop ends.
PollEnds ==
    /\ pc = "poll" /\ ~HasEvent
    /\ pc' = "away"
    /\ UNCHANGED <<rings, written, hc, event_ring, posted, consumer, port, step, request, blanked, slots, sent,
                   received, answer>>

\* enumerate_connected_ports begins with the first port, and the probe returns.
BeginPorts == pc = "probe" /\ phase = "ports" /\ NextPort(0)
Return == pc = "done" /\ Enumerated /\ pc' = "away"

Driver ==
    \/ Probing /\ UNCHANGED transfers
    \/ /\ BeginPorts
       /\ UNCHANGED <<rings, written, hc, event_ring, posted, consumer, blanked, slots, sent, received, answer, probe>>
    \/ /\ Return
       /\ UNCHANGED <<rings, written, hc, event_ring, posted, consumer, port, step, request, blanked, slots, sent,
                      received, answer>>
    \/ /\ UNCHANGED probe
       /\ \/ Blank \/ enqueue_transfer_trb \/ Submit \/ enqueue_keyboard_report
          \/ Discard \/ TimesOut \/ xhci_poll_keyboard_inputs \/ PollEnds
    \/ Answered

-----------------------------------------------------------------------------
(* The controller.                                                         *)

\* Its place in ring r, past the link TRB if that was handed over
Place(ring, c) ==
    IF c.index = TrbCount - 1 /\ ring.link = c.cycle THEN [c EXCEPT !.index = 0, !.cycle = 1 - @] ELSE c

Owns(ring, c) ==
    LET p == Place(ring, c) IN p.index # TrbCount - 1 /\ ring.trbs[p.index].cycle = p.cycle

\* There is room for an event as long as one entry stays free.
Room == (posted.index + 1) % EventCount # event_dequeue_index

Post(e) ==
    /\ Room
    /\ event_ring' = [event_ring EXCEPT ![posted.index] = e]
    /\ posted' = IF posted.index + 1 = EventCount THEN [index |-> 0, cycle |-> 1 - posted.cycle]
                 ELSE [posted EXCEPT !.index = @ + 1]

\* It takes a TRB, and reports it when asked to or when it fails; an endpoint
\* that fails halts.  A report is taken only when the keyboard sends one.
Take(r) ==
    LET p == Place(rings[r], hc[r])
        trb == rings[r].trbs[p.index]
        s == r[1]
    IN \E ok \in machine.outcomes :
        /\ hc[r].looks /\ Owns(rings[r], hc[r])
        /\ r[2] = "int" => sent[s] < machine.reports
        /\ LET c == [p EXCEPT !.index = @ + 1, !.last = trb.of, !.halted = ~ok /\ r # Cmd]
           IN hc' = [hc EXCEPT ![r] = [c EXCEPT !.looks = ~c.halted /\ (Late \/ Owns(rings[r], c))]]
        /\ IF trb.ioc \/ ~ok
           THEN Post([cycle |-> posted.cycle, ring |-> r, at |-> p.index, of |-> trb.of, ok |-> ok,
                      whole |-> ~(r[2] = "int" /\ sent[s] + 1 \in machine.short)])
           ELSE UNCHANGED <<event_ring, posted>>
        /\ sent' = IF r[2] = "int" /\ ok THEN [sent EXCEPT ![s] = @ + 1] ELSE sent
        /\ UNCHANGED <<rings, written, consumer, driver, blanked, slots, received, answer>>

Next == UNCHANGED machine /\ (Driver \/ (UNCHANGED probe /\ (usb_poll \/ \E r \in Rings : Take(r))))

\* The driver runs on, once called (at boot nothing else runs, and usb_poll is
\* kernel code, in which the timer switches no thread), and the controller serves
\* every ring.  That usb_poll is called is not assumed.
Spec == Init /\ [][Next]_vars /\ WF_vars(Driver /\ UNCHANGED machine)
        /\ \A r \in Rings : WF_vars(Take(r) /\ UNCHANGED <<probe, machine>>)
-----------------------------------------------------------------------------
(* Properties.                                                             *)

\* Rings, the controller's places in them and the driver's state have their types.
TypeOK ==
    /\ \A r \in Rings :
          /\ rings[r].trbs \in [0..TrbCount - 2 -> [cycle : Bit, of : Nat, ioc : BOOLEAN]]
          /\ rings[r].link \in Bit /\ rings[r].cycle \in Bit /\ rings[r].index \in 0..TrbCount - 2
          /\ hc[r].index \in 0..TrbCount - 1 /\ hc[r].cycle \in Bit
    /\ event_ring \in [0..EventCount - 1 -> [cycle : Bit, ring : Rings, at : 0..TrbCount - 2, of : Nat,
                                           ok : BOOLEAN, whole : BOOLEAN]]
    /\ event_dequeue_index \in 0..EventCount - 1 /\ event_cycle \in Bit
    /\ pc \in {"probe", "write", "wait", "done", "poll", "away"} /\ port \in 0..NumSlots + 1 /\ step \in 1..Len(AllSteps) + 1
    /\ ProbeTypeOK

\* The controller takes the TRBs of a ring one by one as they were written:
\* none twice, none left out, none half written, however often the ring wraps.
TakenInOrder == [][\A r \in Rings : hc'[r].last \in {hc[r].last, hc[r].last + 1}]_vars

\* What was written and not yet taken, and nothing else, looks like its own to
\* the controller.
HandedOver ==
    \A r \in Rings :
        ~(blanked /\ request.ring = r) => (Owns(rings[r], hc[r]) <=> hc[r].last # written[r])

\* The driver finds an event in the event ring exactly when there is one.
EventsSeen == HasEvent <=> event_dequeue_index # posted.index

\* A request is answered by its own completion.
RightAnswer == answer.to = answer.of

\* The driver waits for a report whose event it has thrown away: the keyboard is
\* not heard of again.
Lost(s) ==
    /\ interrupt_pending[s]
    /\ hc[<<s, "int">>].last = written[<<s, "int">>]
    /\ \A i \in 0..EventCount - 1 :
          /\ event_ring[i].ring = <<s, "int">> /\ event_ring[i].of = written[<<s, "int">>]
          => (i - event_dequeue_index) % EventCount >= (posted.index - event_dequeue_index) % EventCount

\* A report the driver waits for is still to come or is in the event ring.
\* The code does not keep this (README, section 3).
NotAbandoned == \A s \in Slots : ~Lost(s)

\* Reports are asked only of a boot keyboard: a device whose configuration has one
\* interface, a boot keyboard with one interrupt endpoint and a usable report
\* descriptor, in whatever order its descriptors come.
OnlyKeyboards == \A s \in Slots : written[<<s, "int">>] > 0 => IsBootKeyboard(machine.devices[s])

\* From boot, if no request fails or is late, there are pages for all and usb_poll
\* is called again and again, every boot keyboard is brought up, whatever is on the
\* ports before it, and everything typed on it, short reports apart, reaches its
\* driver.  A keyboard with a device on a later port may instead lose a report, and
\* with it all later ones, while that device is enumerated.
PagesForAll == ControllerPages + 6 * Len(machine.devices)
Reliable ==
    /\ pc = "probe" /\ machine.outcomes = {TRUE} /\ machine.slow = {} /\ machine.faults = {}
    /\ PagesForAll <= DmaLimit /\ PagesForAll <= Cardinality(machine.frames)
Whole == 1..machine.reports \ machine.short
AllReceived ==
    []<>(pc # "away") =>
        \A s \in Slots :
            Reliable /\ s \in Ports /\ IsBootKeyboard(machine.devices[s]) ~>
                \/ received[s] = Cardinality(Whole)
                \/ Lost(s) /\ \E t \in Ports : t > s /\ Asked(t) > 0

\* Rings have their types and both sides of each, transfer and event rings alike,
\* agree on which entries are whose.
RingsConsistent == TypeOK /\ HandedOver /\ EventsSeen
=============================================================================
