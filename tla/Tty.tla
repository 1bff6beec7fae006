---------------------------------- MODULE Tty ----------------------------------
(***************************************************************************)
(* read(0): the queue of typed bytes and its one waiter                    *)
(* (src/drivers/keyboard.c), and the line discipline on top of it, whose   *)
(* line buffer all readers share (src/syscall/syscall.c, sys_read).        *)
(*                                                                         *)
(* A system call runs with interrupts off until it returns or blocks, so   *)
(* keys arrive only while no reader runs.  Echo is left out, and so are    *)
(* bytes the keyboard never produces.                                      *)
(***************************************************************************)
EXTENDS Integers, Sequences, SequencesExt

CONSTANTS Threads,
          QueueSize,     \* QUEUE_SIZE
          LineMax,       \* TTY_INPUT_LINE_MAX
          Counts,        \* sizes of reads
          Workloads,     \* what happens: the keys pressed, at most how many, and
                         \* the values of ICANON that programs set
          MaxReads,      \* bound on the reads made
          None

ASSUME TtyAssumption ==
    /\ QueueSize \in Nat \ {0, 1} /\ LineMax \in Nat \ {0} /\ Counts \subseteq Nat \ {0}
    /\ \A w \in Workloads : /\ w.keys \subseteq {"letter", "accented", "enter", "backspace"}
                           /\ w.modes \subseteq BOOLEAN /\ w.presses \in Nat
    /\ None \notin Threads

VARIABLES
    queue, head, tail,   \* the ring of typed bytes
    input_waiter,
    canonical,           \* ICANON of terminal_settings
    line, offset,        \* tty_input_line and tty_input_offset
    pc, blocked, count,  \* by thread: where in read(0) it is, THREAD_BLOCKED, bytes asked for
    running,             \* the thread in the system call, or None
    accepted, returned,  \* history: bytes enqueued; reads that returned
    presses,
    load                 \* the workload of this behaviour

ring == <<queue, head, tail>>
tty == <<canonical, line, offset>>
threads == <<pc, blocked, count, running>>
vars == <<ring, input_waiter, tty, threads, accepted, returned, presses, load>>

Bytes == {"plain", "lead", "cont", "nl", "bs"}
Text(key) == CASE key = "letter" -> << "plain" >> [] key = "accented" -> << "lead", "cont" >>
               [] key = "enter" -> << "nl" >> [] key = "backspace" -> << "bs" >>

Init ==
    /\ queue = [i \in 0..QueueSize - 1 |-> "plain"] /\ head = 0 /\ tail = 0
    /\ input_waiter = None
    /\ canonical = TRUE /\ line = << >> /\ offset = 0
    /\ pc = [t \in Threads |-> "user"] /\ blocked = [t \in Threads |-> FALSE]
    /\ count = [t \in Threads |-> 0] /\ running = None
    /\ accepted = << >> /\ returned = << >> /\ presses = 0 /\ load \in Workloads

-----------------------------------------------------------------------------
(* The keyboard.                                                           *)

State == [queue |-> queue, head |-> head, waiter |-> input_waiter, blocked |-> blocked, accepted |-> accepted]

\* Mutant: nobody is woken.
EnqueueQuiet(s, byte) ==
    IF (s.head + 1) % QueueSize = tail THEN s
    ELSE [s EXCEPT !.queue[s.head] = byte, !.head = (s.head + 1) % QueueSize,
                   !.accepted = Append(@, byte)]

\* enqueue_byte, with scheduler_wake_thread; a byte that does not fit is dropped
enqueue_byte(s, byte) ==
    IF (s.head + 1) % QueueSize = tail THEN s
    ELSE [queue |-> [s.queue EXCEPT ![s.head] = byte], head |-> (s.head + 1) % QueueSize, waiter |-> None,
          blocked |-> IF s.waiter = None THEN s.blocked ELSE [s.blocked EXCEPT ![s.waiter] = FALSE],
          accepted |-> Append(s.accepted, byte)]

\* enqueue_text, from the keyboard's interrupt or from usb_poll
Press(key) ==
    /\ running = None /\ presses < load.presses
    /\ LET s == FoldLeft(enqueue_byte, State, Text(key))
       IN /\ queue' = s.queue /\ head' = s.head /\ input_waiter' = s.waiter
          /\ blocked' = s.blocked /\ accepted' = s.accepted
    /\ presses' = presses + 1
    /\ UNCHANGED <<tail, tty, pc, count, running, returned>>

keyboard_has_data == tail # head

-----------------------------------------------------------------------------
(* sys_read of descriptor 0.                                               *)

\* The read of thread t returns bytes, of a line or typed raw.
Returns(t, bytes, of) ==
    /\ returned' = Append(returned, [by |-> t, bytes |-> bytes, of |-> of])
    /\ pc' = [pc EXCEPT ![t] = "user"] /\ running' = None

\* The end of sys_read: as much of the line as was asked for
ReturnLine(t, text, n) ==
    LET amount == IF n < Len(text) - offset THEN n ELSE Len(text) - offset
        done == offset + amount = Len(text)
    IN /\ Returns(t, SubSeq(text, offset + 1, offset + amount), text)
       /\ line' = (IF done THEN << >> ELSE text)
       /\ offset' = (IF done THEN 0 ELSE offset + amount)

\* Up to the first byte it needs; a line that was begun is not collected anew.
sys_read(t, n) ==
    /\ running = None /\ pc[t] = "user" /\ Len(returned) < MaxReads
    /\ count' = [count EXCEPT ![t] = n]
    /\ \/ /\ canonical /\ offset # Len(line)
          /\ ReturnLine(t, line, n)
       \/ /\ canonical /\ offset = Len(line)
          /\ line' = << >> /\ offset' = 0
          /\ pc' = [pc EXCEPT ![t] = "collect"] /\ running' = t
          /\ UNCHANGED returned
       \/ /\ ~canonical
          /\ pc' = [pc EXCEPT ![t] = "raw"] /\ running' = t
          /\ UNCHANGED <<line, offset, returned>>
    /\ UNCHANGED <<ring, input_waiter, canonical, blocked, accepted, presses>>

\* keyboard_getchar_blocking finds nothing: the thread waits, interrupts on
Block(t) ==
    /\ running = t /\ ~keyboard_has_data
    /\ input_waiter' = t
    /\ blocked' = [blocked EXCEPT ![t] = TRUE]
    /\ running' = None
    /\ UNCHANGED <<ring, tty, pc, count, accepted, returned, presses>>

\* It is scheduled again and looks at the queue again.
Resume(t) ==
    /\ running = None /\ pc[t] # "user" /\ ~blocked[t]
    /\ running' = t
    /\ UNCHANGED <<ring, input_waiter, tty, pc, blocked, count, accepted, returned, presses>>

\* Mutant: one byte is erased, whatever the character.
EraseByte(text) == IF text = << >> THEN text ELSE Front(text)

\* The line without its last character: its continuation bytes go with it.
Erase(text) ==
    LET starts == {i \in 1..Len(text) : text[i] # "cont"}
        last == CHOOSE i \in starts \cup {1} : \A j \in starts \cup {1} : j <= i
    IN IF text = << >> THEN text ELSE SubSeq(text, 1, last - 1)

\* tty_collect_canonical_line, one byte
Edit(text, byte) ==
    CASE byte = "bs" -> Erase(text)
      [] byte = "nl" -> IF Len(text) < LineMax THEN Append(text, byte) ELSE text
      [] OTHER -> IF Len(text) + 1 >= LineMax THEN text ELSE Append(text, byte)

\* A byte is taken from the queue, and the read goes on or returns.
Take(t) ==
    /\ running = t /\ keyboard_has_data
    /\ tail' = (tail + 1) % QueueSize
    /\ LET byte == queue[tail]
       IN \/ pc[t] = "raw" /\ Returns(t, << byte >>, << byte >>) /\ UNCHANGED <<line, offset>>
          \/ pc[t] = "collect" /\ byte = "nl" /\ ReturnLine(t, Edit(line, byte), count[t])
          \/ /\ pc[t] = "collect" /\ byte # "nl"
             /\ line' = Edit(line, byte)
             /\ UNCHANGED <<offset, pc, running, returned>>
    /\ UNCHANGED <<queue, head, input_waiter, canonical, blocked, count, accepted, presses>>

\* TCSETS; what was typed or collected stays
sys_ioctl(mode) ==
    /\ running = None /\ canonical # mode
    /\ canonical' = mode
    /\ UNCHANGED <<ring, input_waiter, line, offset, threads, accepted, returned, presses>>

Reading(t) == Block(t) \/ Resume(t) \/ Take(t)

Next ==
    /\ UNCHANGED load
    /\ \/ \E key \in load.keys : Press(key)
       \/ \E t \in Threads, n \in Counts : sys_read(t, n)
       \/ \E t \in Threads : Reading(t)
       \/ \E mode \in load.modes : sys_ioctl(mode)

\* A thread that can run is scheduled, and a system call runs on.
Spec == Init /\ [][Next]_vars /\ \A t \in Threads : WF_vars(Reading(t) /\ UNCHANGED load)
-----------------------------------------------------------------------------
(* Properties.                                                             *)

\* The ring, the line, and the threads have their types.
TypeOK ==
    /\ queue \in [0..QueueSize - 1 -> Bytes] /\ head \in 0..QueueSize - 1 /\ tail \in 0..QueueSize - 1
    /\ input_waiter \in Threads \cup {None} /\ canonical \in BOOLEAN
    /\ line \in Seq(Bytes) /\ Len(line) <= LineMax /\ offset \in 0..Len(line)
    /\ pc \in [Threads -> {"user", "raw", "collect"}] /\ blocked \in [Threads -> BOOLEAN]
    /\ running \in Threads \cup {None}

\* What a terminal makes of typed bytes: finished lines and one being typed.
\* Erasing reaches back to the beginning of the line and no further.
Cook(bytes) ==
    LET Key(s, byte) ==
            CASE byte = "nl" -> [lines |-> s.lines \o Append(s.now, byte), now |-> << >>]
              [] byte = "bs" ->
                    [s EXCEPT !.now =
                        LET starts == {i \in 1..Len(@) : @[i] \in {"plain", "lead"}}
                        IN SubSeq(@, 1, IF starts = {} THEN 0
                                        ELSE (CHOOSE i \in starts : \A j \in starts : j <= i) - 1)]
              [] OTHER -> IF Len(s.now) + 1 < LineMax THEN [s EXCEPT !.now = Append(@, byte)] ELSE s
    IN FoldLeft(Key, [lines |-> << >>, now |-> << >>], bytes).lines

Read == FoldLeft(LAMBDA bytes, r : bytes \o r.bytes, << >>, returned)

EnterQueued ==
    \E i \in 0..QueueSize - 1 : queue[i] = "nl" /\ (i - tail) % QueueSize < (head - tail) % QueueSize

\* A program that leaves the mode alone reads the lines typed, edited, in order,
\* nothing lost, doubled or made up, however its reads cut them.
LinesAsTyped == load.modes = {} => IsPrefix(Read, Cook(accepted))

\* No reader sleeps on a queue that has bytes in it, unless another was woken
\* to take them.
ReaderWoken ==
    (\E t \in Threads : blocked[t]) /\ keyboard_has_data =>
        \E t \in Threads : pc[t] # "user" /\ ~blocked[t]

\* read(0) in canonical mode returns text of a line that was completed.
\* The code does not keep this (README, section 3).
CompleteLines == \A i \in 1..Len(returned) : Last(returned[i].of) = "nl"

\* Enter, once typed, ends the read that waits for it.
EnterReturns == \A t \in Threads : pc[t] = "collect" /\ EnterQueued ~> pc[t] = "user"

\* A key, once typed, ends the read of a program that reads single bytes.
KeyReturns == \A t \in Threads : pc[t] = "raw" /\ keyboard_has_data ~> pc[t] = "user"

\* What poll says of descriptor 0 is whether a read of it would return at once.
\* The code does not keep this (README, section 3).
PollAgrees ==
    running = None /\ canonical /\ (\A t \in Threads : pc[t] = "user") =>
        (keyboard_has_data <=> offset # Len(line) \/ EnterQueued)

\* The terminal's state has its type and no reader sleeps through a key.
TtyConsistent == TypeOK /\ ReaderWoken

\* Enter ends a read of a line and any key a read of single bytes (sys_read and
\* keyboard_getchar_blocking), also when programs switch modes in between.
ReadReturns == EnterReturns /\ KeyReturns
=============================================================================
