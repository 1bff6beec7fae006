--------------------------------- MODULE MCXhci ---------------------------------
(* Xhci with the machines TLC explores, one per behaviour.                 *)
EXTENDS Xhci

\* Descriptors and items devices are made of
I == [type |-> "interface", alternate |-> 0, boot |-> TRUE, endpoints |-> 1]
H == [type |-> "hid", report |-> 60]
E == [type |-> "endpoint", interrupt |-> TRUE, packet |-> 8, encoded |-> FALSE, interval |-> 10, number |-> 1]
Descriptors == {I, [I EXCEPT !.alternate = 1], [I EXCEPT !.boot = FALSE], H, [H EXCEPT !.report = 0],
                E, [E EXCEPT !.interrupt = FALSE], [type |-> "bad"]}

Page == [type |-> "page", value |-> 1]
Usage == [type |-> "usage", value |-> 6]
Collection == [type |-> "collection", value |-> 1]
End == [type |-> "end", value |-> 0]
Main == [type |-> "main", value |-> 0]
ItemSet == {Page, Usage, Collection, End, Main}

Keyboard == [speed |-> 1, ep0 |-> 8, configs |-> 1, fits |-> TRUE, declared |-> 1, value |-> 1,
             list |-> <<I, H, E>>, items |-> <<Page, Usage, Collection, End>>]
Mouse == [Keyboard EXCEPT !.speed = 3, !.ep0 = 64, !.list = <<[I EXCEPT !.boot = FALSE], E>>]

\* Devices that differ from the keyboard in one respect
Odd ==
    {[Keyboard EXCEPT !.speed = v, !.ep0 = e] : v \in 0..4, e \in {8, 9, 64}}
    \cup {[Keyboard EXCEPT !.configs = 0], [Keyboard EXCEPT !.fits = FALSE], [Keyboard EXCEPT !.declared = 2],
          [Keyboard EXCEPT !.value = 0]}
    \cup {[Keyboard EXCEPT !.list[1].endpoints = 2], [Keyboard EXCEPT !.list[2].report = MaxReport + 1],
          [Keyboard EXCEPT !.list[3].packet = 7], [Keyboard EXCEPT !.list[3].packet = 1024],
          [Keyboard EXCEPT !.list[3].packet = 1025], [Keyboard EXCEPT !.list[3].encoded = TRUE],
          [Keyboard EXCEPT !.list[3].interval = 0], [Keyboard EXCEPT !.list[3].number = 0],
          [Keyboard EXCEPT !.speed = 3, !.ep0 = 64, !.list[3].interval = 17]}
    \cup {[Keyboard EXCEPT !.list = l] : l \in TupleOf(Descriptors, 3) \cup {<<I>> \o m : m \in TupleOf(Descriptors, 3)}}
    \cup {[Keyboard EXCEPT !.items = i] : i \in TupleOf(ItemSet, 4)
                                                \cup {<<Page, Usage>> \o j : j \in TupleOf(ItemSet, 3)}}

Machine(devices, reports, outcomes, slow, frames, faults) ==
    [devices |-> devices, reports |-> reports, short |-> {2} \cap 1..reports, outcomes |-> outcomes, slow |-> slow,
     frames |-> 1..frames, running |-> {1}, faults |-> faults]

MCFrames == 1..20

MCMachines ==
    \* requests fail and answers are late
    { Machine(<<Mouse, Keyboard>>, 5, BOOLEAN, {"ep0"}, 20, {}),
    \* rings and cycles wrap several times
      Machine(<<Mouse, Keyboard>>, 7, {TRUE}, {}, 20, {}),
    \* a device after the keyboard
      Machine(<<Keyboard, Mouse>>, 2, {TRUE}, {}, 20, {}),
      Machine(<<Keyboard, Mouse>>, 1, BOOLEAN, {"ep0"}, 20, {}),
    \* the controllers do not come up
      Machine(<<Mouse, Keyboard>>, 1, {TRUE}, {}, 20, Faults) }
    \* memory runs out anywhere
    \cup { Machine(<<Mouse, Keyboard>>, 1, {TRUE}, {}, n, {"start"}) : n \in 0..16 }
    \* whatever is plugged in
    \cup { Machine(<<d>>, 1, {TRUE}, {}, 20, {}) : d \in Odd }
=============================================================================
