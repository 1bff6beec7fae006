------------------------------- MODULE UsbConfig -------------------------------
(***************************************************************************)
(* What the USB core reads off a device, src/drivers/usb.c, and off the    *)
(* report descriptor of a keyboard, src/drivers/usb_generic_keyboard.c:    *)
(* whether the device is one the keyboard driver can run, and at which     *)
(* request its enumeration ends.                                           *)
(*                                                                         *)
(* A device is the record of the fields the code looks at: its speed, the  *)
(* packet size its descriptor gives (ep0), how many configurations it has, *)
(* whether the configuration fits the buffer and is consistent with its    *)
(* header (fits), the interfaces it declares, its configuration value, the *)
(* list of descriptors in it and the items of its report descriptor.  A    *)
(* descriptor whose length field cannot be right is "bad".                 *)
(***************************************************************************)
EXTENDS Integers, Sequences, FiniteSets, SequencesExt

MaxReport == 512   \* USB_GENERIC_KEYBOARD_MAX_REPORT_DESCRIPTOR
MaxDepth == 16     \* collections open at a time
MinPacket == 8     \* packets of an interrupt endpoint: a report fits,
MaxPacket == 1024  \* and xhci_configure_interrupt_in takes no larger

-----------------------------------------------------------------------------
(* Packet sizes and intervals.                                             *)

\* valid_ep0_packet_size: the size an endpoint of that speed may have
valid_ep0_packet_size(d) ==
    \/ d.speed = 1 /\ d.ep0 \in {8, 16, 32, 64}
    \/ d.speed = 2 /\ d.ep0 = 8
    \/ d.speed = 3 /\ d.ep0 = 64
    \/ d.speed = 4 /\ d.ep0 = 9

Packet(d) == IF d.speed = 4 THEN 512 ELSE d.ep0

\* the size create_slot_context assumes until the device has been asked
Assumed(d) == CASE d.speed = 3 -> 64 [] d.speed = 4 -> 512 [] OTHER -> 8

\* interrupt_interval_context knows no interval for faster devices, nor for
\* the longest intervals at high speed.
interrupt_interval_context(d, interval) == d.speed \in 1..2 \/ (d.speed = 3 /\ interval \in 1..16)

-----------------------------------------------------------------------------
(* The configuration, in register_configuration_interfaces.               *)

\* usb_interface_parse_t of no interface
NoInterface == [active |-> FALSE, boot |-> FALSE, endpoints |-> 0, ins |-> 0, packet |-> 0,
                encoded |-> FALSE, interval |-> 0, number |-> 0, report |-> 0]

valid_boot_keyboard_candidate(i) ==
    /\ i.active /\ i.boot /\ i.endpoints = 1 /\ i.ins = 1 /\ ~i.encoded
    /\ i.report # 0 /\ i.packet >= MinPacket /\ i.interval # 0

Start == [ok |-> TRUE, current |-> NoInterface, keyboard |-> NoInterface, alternates |-> 0]

\* An interface descriptor begins another interface; only the first of its
\* alternate settings counts.
Interface(p, d) ==
    [p EXCEPT !.current = [NoInterface EXCEPT !.active = d.alternate = 0, !.boot = d.boot,
                                              !.endpoints = d.endpoints],
              !.alternates = IF d.alternate = 0 THEN @ + 1 ELSE @]

\* Mutant: a HID descriptor without a report leaves the length found before.
HidKeeps(p, d) ==
    IF d.report = 0 THEN p
    ELSE [p EXCEPT !.current.report = d.report,
                   !.keyboard.report = IF p.current.boot THEN d.report ELSE @]

\* parse_hid_report_descriptor_length: zero if the descriptor names no report
Hid(p, d) ==
    [p EXCEPT !.current.report = d.report, !.keyboard.report = IF p.current.boot THEN d.report ELSE @]

Endpoint(p, d) ==
    LET interface == [p.current EXCEPT !.ins = @ + 1, !.number = d.number, !.encoded = d.encoded,
                                       !.packet = d.packet, !.interval = d.interval]
    IN IF ~d.interrupt THEN p
       ELSE [p EXCEPT !.current = interface, !.keyboard = IF interface.boot THEN interface ELSE @]

Descriptor(p, d) ==
    IF ~p.ok THEN p
    ELSE CASE d.type = "interface" -> Interface(p, d)
           [] d.type = "hid" /\ p.current.active -> Hid(p, d)
           [] d.type = "endpoint" /\ p.current.active -> Endpoint(p, d)
           [] d.type = "bad" -> [p EXCEPT !.ok = FALSE]
           [] OTHER -> p

register_configuration_interfaces(d) == FoldLeft(Descriptor, Start, d.list)

\* prepare_boot_keyboard and xhci_configure_interrupt_in take the device on.
Selected(d) ==
    LET p == register_configuration_interfaces(d)
    IN /\ p.ok /\ p.alternates = 1 /\ d.declared = 1 /\ d.value # 0
       /\ valid_boot_keyboard_candidate(p.keyboard) /\ p.keyboard.number # 0
       /\ p.keyboard.packet <= MaxPacket
       /\ interrupt_interval_context(d, p.keyboard.interval)

-----------------------------------------------------------------------------
(* The report descriptor.                                                  *)

Items == [ok |-> TRUE, page |-> 0, usage |-> 0, depth |-> 0, found |-> FALSE]

\* One item; a usage is for the next main item only.
Item(s, i) ==
    CASE i.type = "page" -> [s EXCEPT !.page = i.value]
      [] i.type = "usage" -> [s EXCEPT !.usage = i.value]
      [] i.type = "collection" ->
            [s EXCEPT !.ok = @ /\ s.depth < MaxDepth, !.depth = @ + 1, !.usage = 0,
                      !.found = @ \/ (s.depth = 0 /\ i.value = 1 /\ s.page = 1 /\ s.usage = 6)]
      [] i.type = "end" -> [s EXCEPT !.ok = @ /\ s.depth > 0, !.depth = @ - 1, !.usage = 0]
      [] i.type = "main" -> [s EXCEPT !.usage = 0]
      [] i.type = "bad" -> [s EXCEPT !.ok = FALSE]
      [] OTHER -> s

report_descriptor_has_keyboard_application(d) ==
    LET s == FoldLeft(Item, Items, d.items) IN s.ok /\ s.found /\ s.depth = 0

\* How many requests are made of a device if all succeed, in
\* enumerate_connected_ports, usb_identify_xhci_device, prepare_boot_keyboard
\* and usb_generic_keyboard_probe
Requests(d) ==
    CASE d.speed \notin 1..4 -> 0
      [] ~valid_ep0_packet_size(d) -> 3
      [] d.configs = 0 -> 5
      [] ~d.fits -> 6
      [] ~Selected(d) -> 7
      [] register_configuration_interfaces(d).keyboard.report > MaxReport -> 9
      [] ~report_descriptor_has_keyboard_application(d) -> 10
      [] OTHER -> 11

-----------------------------------------------------------------------------
(* What a boot keyboard is, without reading it from front to back.         *)

Kind(d, type) == {i \in DOMAIN d.list : d.list[i].type = type}

\* the descriptors that belong to the interface at i
Part(d, i, type) == {j \in Kind(d, type) : j > i /\ ~\E k \in Kind(d, "interface") : i < k /\ k < j}

OneKeyboardInterface(d) ==
    \E i \in Kind(d, "interface") :
        LET ins == {j \in Part(d, i, "endpoint") : d.list[j].interrupt}
            hids == Part(d, i, "hid")
        IN /\ {k \in Kind(d, "interface") : d.list[k].alternate = 0} = {i}
           /\ d.list[i].boot /\ d.list[i].endpoints = 1
           /\ \E j \in hids : (\A k \in hids : k <= j) /\ d.list[j].report \in 1..MaxReport
           /\ Cardinality(ins) = 1
           /\ \A j \in ins : /\ d.list[j].packet \in MinPacket..MaxPacket /\ ~d.list[j].encoded
                             /\ d.list[j].interval # 0 /\ d.list[j].number # 0
                             /\ interrupt_interval_context(d, d.list[j].interval)

\* Main items among the first n
Opened(items, n) == Cardinality({i \in 1..n : items[i].type = "collection"})
Closed(items, n) == Cardinality({i \in 1..n : items[i].type = "end"})

\* Collections nest, and an outermost one is an application collection to
\* which the usage "keyboard" of the page "generic desktop" applies.
KeyboardReport(items) ==
    /\ \A n \in DOMAIN items : Opened(items, n) - Closed(items, n) \in 0..MaxDepth /\ items[n].type # "bad"
    /\ Opened(items, Len(items)) = Closed(items, Len(items))
    /\ \E a, p, u \in DOMAIN items :
          /\ items[a] = [type |-> "collection", value |-> 1]
          /\ Opened(items, a) - 1 = Closed(items, a)
          /\ p < a /\ items[p] = [type |-> "page", value |-> 1] /\ \A i \in p + 1..a - 1 : items[i].type # "page"
          /\ u < a /\ items[u] = [type |-> "usage", value |-> 6]
          /\ \A i \in u + 1..a - 1 : items[i].type \notin {"usage", "collection", "end", "main"}

IsBootKeyboard(d) ==
    /\ d.speed \in 1..3 /\ valid_ep0_packet_size(d)
    /\ d.configs > 0 /\ d.fits /\ d.declared = 1 /\ d.value # 0
    /\ Kind(d, "bad") = {} /\ OneKeyboardInterface(d)
    /\ KeyboardReport(d.items)
=============================================================================
