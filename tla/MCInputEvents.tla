----------------------------- MODULE MCInputEvents -----------------------------
(* InputEvents with the machines TLC explores, one per behaviour.          *)
EXTENDS InputEvents

UsbKeyboard == [usages |-> {4, 57}, modifiers |-> {225}, scancodes |-> {}, packets |-> {}, inputs |-> 3]

\* Keys with one code and one name, keys with one code and two names, and one
\* without a code
UsbAlike == [UsbKeyboard EXCEPT !.usages = {49, 50, 104}, !.modifiers = {}]
UsbEnters == [UsbKeyboard EXCEPT !.usages = {40, 88}, !.modifiers = {}, !.inputs = 2]
UsbSixes == [UsbEnters EXCEPT !.usages = {79, 94}]

Ps2Keyboard ==
    [usages |-> {}, modifiers |-> {},
     scancodes |-> {[key |-> "alt", released |-> FALSE], [key |-> "alt", released |-> TRUE],
                    [key |-> "shift", released |-> FALSE], [key |-> "caps", released |-> FALSE]},
     packets |-> {}, inputs |-> 4]
Ps2Devices ==
    [usages |-> {}, modifiers |-> {}, scancodes |-> {[key |-> "letter", released |-> FALSE]},
     packets |-> {[buttons |-> {"left"}, overflow |-> TRUE], [buttons |-> {}, overflow |-> FALSE]},
     inputs |-> 7]

MCMachines == {UsbKeyboard, UsbAlike, UsbEnters, UsbSixes, Ps2Keyboard, Ps2Devices}
=============================================================================
