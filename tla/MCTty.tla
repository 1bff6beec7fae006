--------------------------------- MODULE MCTty ---------------------------------
(* Tty with the workloads TLC explores, one per behaviour.                 *)
EXTENDS Tty

\* Lines typed and edited
Editing == [keys |-> {"letter", "accented", "enter", "backspace"}, presses |-> 6, modes |-> {}]

\* A program that switches between lines and single bytes
Switching == [keys |-> {"letter", "enter"}, presses |-> 4, modes |-> BOOLEAN]

MCWorkloads == {Editing, Switching}
=============================================================================
