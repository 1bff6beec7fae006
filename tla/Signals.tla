------------------------------- MODULE Signals -------------------------------
(***************************************************************************)
(* Signals: pending and blocked sets, the queue of realtime payloads,      *)
(* handler frames, and the points at which the kernel delivers (src/proc/  *)
(* process.c, src/syscall/syscall.c, src/arch/idt.c).                      *)
(*                                                                         *)
(* As in module Process a system call is one step and the timer preempts   *)
(* user mode only.  Delivery happens in the calls that send or unmask, in  *)
(* rt_sigreturn, and when a thread is resumed from an interrupt frame; a   *)
(* thread resumed from the frame of a blocked system call gets none.  A    *)
(* call that gives the CPU away, and a signal that ends the process of the *)
(* current thread, leave that thread not running; then only the step       *)
(* scheduler_yield, the rest of the same kernel entry, is possible.        *)
(*                                                                         *)
(* Left out: what module Process has (wait4, reaping, timeouts, thread     *)
(* accounting; slots are not reused here); sched_yield; the contents of    *)
(* frames but for the register RAX; execve by a thread that is not the     *)
(* only one of its process.  An action whose handler or restorer is not a  *)
(* user address, or whose frame does not fit the stack, ends the process   *)
(* exactly as the default action does, and is not told apart from it.      *)
(***************************************************************************)
EXTENDS Integers, SequencesExt

CONSTANTS MaxThreads,   \* thread slots besides the boot and idle threads
          MaxProcs,     \* process slots
          Signals,      \* the signal numbers the programs use
          ActionMasks,  \* sa_mask values they install
          QueueMax,     \* NPK_SIGNAL_QUEUE_MAX
          MaxSends,     \* bound on the realtime payloads ever queued
          Workloads     \* what programs do: the system calls they make, and the
                        \* signals they use in them

ASSUME SignalsAssumption ==
    /\ MaxThreads \in Nat \ {0} /\ MaxProcs \in Nat \ {0}
    /\ Signals \subseteq 1..64
    /\ ActionMasks \subseteq SUBSET Signals
    /\ QueueMax \in Nat /\ MaxSends \in Nat
    /\ \A w \in Workloads : w.signals \subseteq Signals

VARIABLES k,    \* threads th, processes pr, current thread cur, payloads sent;
                \* history: the last payload of each signal that each thread's
                \* handlers were given
          load  \* the workload of this behaviour

vars == <<k, load>>

Threads == 1..MaxThreads
Procs == 1..MaxProcs
Idle == 0
SIGKILL == 9
RealTime == {x \in Signals : x >= 32}
FaultSignals == Signals \cap {4, 5, 7, 8, 11}
Payloads == [signal : Signals, value : 1..MaxSends]

\* What sigreturn will put in RAX: a result the program may look at, or the
\* number of the call during which the handler was entered.
Rax == {"result", "number"}

Default == [handler |-> "SIG_DFL", mask |-> {}]
Ignore == [handler |-> "SIG_IGN", mask |-> {}]
Handlers == {[handler |-> "user", mask |-> m] : m \in ActionMasks}
Actions == {Default, Ignore} \cup Handlers

UnusedThread == [state |-> "UNUSED", owner |-> 1, frame |-> "irq", blocked |-> {}, pending |-> {},
                 queue |-> <<>>, inflight |-> FALSE, number |-> 0, savedMask |-> {}, savedRax |-> "result"]
FreeProcess == [alive |-> FALSE, act |-> [x \in Signals |-> Default]]

Live(s, t) == s.th[t].state \notin {"UNUSED", "ZOMBIE"}
LiveThreads(s, p) == {t \in Threads : s.th[t].owner = p /\ Live(s, t)}
Lowest(S) == CHOOSE x \in S : \A y \in S : x <= y

\* process_create_user and process_launch_user for the first program
Init ==
    /\ k = [th |-> [t \in Threads |-> IF t = 1 THEN [UnusedThread EXCEPT !.state = "RUNNING"] ELSE UnusedThread],
            pr |-> [p \in Procs |-> IF p = 1 THEN [FreeProcess EXCEPT !.alive = TRUE] ELSE FreeProcess],
            cur |-> 1,
            sent |-> 0,
            last |-> [t \in Threads |-> [x \in Signals |-> 0]]]
    /\ load \in Workloads

-----------------------------------------------------------------------------
(* Delivery to the current thread.                                         *)

Queued(queue, x) == \E i \in DOMAIN queue : queue[i].signal = x

\* Mutant: the newest entry is taken.
PopNewest(queue, x) ==
    RemoveAt(queue, CHOOSE i \in DOMAIN queue :
        queue[i].signal = x /\ \A j \in DOMAIN queue : queue[j].signal = x => j <= i)

\* signal_queue_pop: the queue without its first entry for x
signal_queue_pop(queue, x) == RemoveAt(queue, SelectInSeq(queue, LAMBDA e : e.signal = x))

\* Mutant: the pending bit is dropped although entries for x remain.
TakePendingForgets(thread, x) ==
    LET rest == IF Queued(thread.queue, x) THEN signal_queue_pop(thread.queue, x) ELSE thread.queue
    IN [thread EXCEPT !.queue = rest, !.pending = @ \ {x}]

\* Mutant: the whole pending set is cleared.
TakePendingAll(thread, x) ==
    LET rest == IF Queued(thread.queue, x) THEN signal_queue_pop(thread.queue, x) ELSE thread.queue
    IN [thread EXCEPT !.queue = rest, !.pending = IF Queued(rest, x) THEN {x} ELSE {}]

\* x leaves the pending set unless more payloads of it are queued.
TakePending(thread, x) ==
    LET rest == IF Queued(thread.queue, x) THEN signal_queue_pop(thread.queue, x) ELSE thread.queue
    IN [thread EXCEPT !.queue = rest,
                      !.pending = IF Queued(rest, x) THEN @ ELSE @ \ {x}]

\* The payload of x that left the queue, if one did
PayloadTaken(before, after, default) ==
    IF before.queue = after.queue THEN default
    ELSE (CHOOSE e \in Range(before.queue) : e \notin Range(after.queue)).value

\* process_deliver_signal_with_info, once its checks have passed
EnterHandler(thread, x, action, rax) ==
    [thread EXCEPT !.inflight = TRUE, !.number = x, !.savedMask = thread.blocked, !.savedRax = rax,
                   !.blocked = @ \cup {x} \cup action.mask]

\* process_exit_current: every thread of the process ends.
process_exit_current(s) ==
    LET p == s.th[s.cur].owner
    IN [s EXCEPT !.pr[p].alive = FALSE,
                 !.th = [t \in Threads |-> IF t \in LiveThreads(s, p) THEN [s.th[t] EXCEPT !.state = "ZOMBIE"]
                                           ELSE s.th[t]]]

\* Mutant: the signals are tried from the highest number down.
DeliverPendingHighest(s, rax) ==
    LET thread == s.th[s.cur]
        act == s.pr[thread.owner].act
        ignored == {x \in thread.pending \ thread.blocked : act[x] = Ignore /\ x # SIGKILL}
        caught == (thread.pending \ thread.blocked) \ ignored
        first == CHOOSE x \in caught : \A y \in caught : x >= y
        rest == FoldSet(LAMBDA x, acc : TakePending(acc, x), thread, ignored)
        taken == TakePending(rest, first)
        s1 == [s EXCEPT !.th[s.cur] = taken]
    IN CASE thread.inflight -> s
         [] ~thread.inflight /\ caught = {} -> [s EXCEPT !.th[s.cur] = rest]
         [] ~thread.inflight /\ caught # {} /\ first # SIGKILL /\ act[first] \in Handlers ->
              [s1 EXCEPT !.th[s.cur] = EnterHandler(taken, first, act[first], rax),
                         !.last[s.cur][first] = PayloadTaken(rest, taken, @)]
         [] OTHER -> process_exit_current(s1)

\* process_deliver_pending_common, in the order of signal numbers: an ignored
\* signal is taken and dropped, the first other one ends the loop by entering
\* its handler or, by default and when its action is unusable, by
\* process_terminate_by_signal.
DeliverPending(s, rax) ==
    LET thread == s.th[s.cur]
        act == s.pr[thread.owner].act
        deliverable == thread.pending \ thread.blocked
        caught == {x \in deliverable : act[x] # Ignore \/ x = SIGKILL}
        first == IF caught = {} THEN 65 ELSE Lowest(caught)
        rest == FoldSet(LAMBDA x, acc : TakePending(acc, x), thread, {x \in deliverable : x < first})
        taken == TakePending(rest, first)
        s1 == [s EXCEPT !.th[s.cur] = taken]
    IN CASE thread.inflight -> s
         [] ~thread.inflight /\ caught = {} -> [s EXCEPT !.th[s.cur] = rest]
         [] ~thread.inflight /\ caught # {} /\ first # SIGKILL /\ act[first] \in Handlers ->
              [s1 EXCEPT !.th[s.cur] = EnterHandler(taken, first, act[first], rax),
                         !.last[s.cur][first] = PayloadTaken(rest, taken, @)]
         [] OTHER -> process_exit_current(s1)

\* find_next_runnable: round robin from the current slot
Ready(s) == {t \in Threads : s.th[t].state = "READY"}
Distance(from, t) == (t - from - 1) % (MaxThreads + 1)
NextRunnable(s) ==
    IF Ready(s) = {} THEN Idle
    ELSE CHOOSE t \in Ready(s) : \A u \in Ready(s) : Distance(s.cur, t) <= Distance(s.cur, u)

\* Mutant: pending signals are not looked at when a thread is resumed.
ResumeOnly(s, t) ==
    IF t = Idle THEN [s EXCEPT !.cur = Idle]
    ELSE [s EXCEPT !.cur = t, !.th[t].state = "RUNNING", !.th[t].frame = "irq"]

\* The tail of scheduler_yield and scheduler_preempt
Resume(s, t) ==
    IF t = Idle THEN [s EXCEPT !.cur = Idle]
    ELSE LET s1 == [s EXCEPT !.cur = t, !.th[t].state = "RUNNING", !.th[t].frame = "irq"]
         IN IF s.th[t].frame = "irq" THEN DeliverPending(s1, "result") ELSE s1

-----------------------------------------------------------------------------
(* Sending.                                                                *)

\* Mutant: the first live thread, whatever it blocks.
SelectFirst(s, p, x) == Lowest(LiveThreads(s, p))

\* select_signal_thread: the first live thread that does not block x, or the
\* first live thread.
select_signal_thread(s, p, x) ==
    LET open == {t \in LiveThreads(s, p) : x \notin s.th[t].blocked}
    IN Lowest(IF open # {} THEN open ELSE LiveThreads(s, p))

\* queue_signal_to_thread; info says whether a payload goes with the signal.
\* With a full queue the call fails and nothing changes.
CanQueue(s, t, info) == info => s.sent < MaxSends /\ Len(s.th[t].queue) < QueueMax

queue_signal_to_thread(s, t, x, info) ==
    LET queued == IF info THEN Append(s.th[t].queue, [signal |-> x, value |-> s.sent + 1]) ELSE s.th[t].queue
        interrupts == s.th[t].state = "BLOCKED" /\ (x = SIGKILL \/ x \notin s.th[t].blocked)
    IN [s EXCEPT !.sent = IF info THEN @ + 1 ELSE @,
                 !.th[t] = [@ EXCEPT !.queue = queued, !.pending = @ \cup {x},
                                     !.state = IF interrupts THEN "READY" ELSE @]]

InUserMode == k.cur # Idle /\ k.th[k.cur].state = "RUNNING"
Calling(name) == name \in load.calls /\ InUserMode
Self == k.cur
Own == k.th[k.cur].owner

\* process_send_signal_info, then delivery to the caller
SendProcess(p, x, info) ==
    /\ k.pr[p].alive
    /\ LET t == select_signal_thread(k, p, x)
       IN /\ CanQueue(k, t, info)
          /\ k' = DeliverPending(queue_signal_to_thread(k, t, x, info), "number")

\* process_send_thread_signal_info, which takes an ended thread too
SendThread(t, x, info) ==
    /\ k.th[t].state # "UNUSED" /\ k.pr[k.th[t].owner].alive
    /\ CanQueue(k, t, info)
    /\ k' = DeliverPending(queue_signal_to_thread(k, t, x, info), "number")

kill(p, x) == Calling("kill") /\ SendProcess(p, x, FALSE)
tgkill(t, x) == Calling("tgkill") /\ SendThread(t, x, FALSE)
sys_rt_sigqueueinfo(p, x) == Calling("rt_sigqueueinfo") /\ x \in RealTime /\ SendProcess(p, x, TRUE)
sys_rt_tgsigqueueinfo(t, x) == Calling("rt_tgsigqueueinfo") /\ x \in RealTime /\ SendThread(t, x, TRUE)

-----------------------------------------------------------------------------
(* Actions, masks and the return from a handler.                           *)

sys_rt_sigaction(x, action) ==
    /\ Calling("rt_sigaction")
    /\ x # SIGKILL
    /\ k' = [k EXCEPT !.pr[Own].act[x] = action]

\* Block, unblock and set all lead to some mask, which loses SIGKILL.
sys_rt_sigprocmask(mask) ==
    /\ Calling("rt_sigprocmask")
    /\ k' = DeliverPending([k EXCEPT !.th[Self].blocked = mask \ {SIGKILL}], "number")

\* process_sigreturn from the handler's frame, then delivery with the RAX it
\* restored.  A call that fails the checks on the frame changes nothing; one
\* outside a handler still delivers.
sys_rt_sigreturn ==
    /\ Calling("rt_sigreturn")
    /\ LET thread == k.th[Self]
           back == [thread EXCEPT !.inflight = FALSE, !.number = 0, !.savedMask = {}, !.savedRax = "result",
                                  !.blocked = thread.savedMask]
       IN k' = IF thread.inflight THEN DeliverPending([k EXCEPT !.th[Self] = back], thread.savedRax)
               ELSE DeliverPending(k, "number")

\* exception_dispatch, page_fault_dispatch and general_protection_dispatch for
\* a fault of user code that nothing repairs: the handler, or the end of the
\* process.  Neither the mask nor SIG_IGN matters.
UserFault(x) ==
    /\ Calling("fault")
    /\ LET thread == k.th[Self]
           action == k.pr[Own].act[x]
       IN k' = IF ~thread.inflight /\ action \in Handlers
               THEN [k EXCEPT !.th[Self] = EnterHandler(thread, x, action, "result")]
               ELSE process_exit_current(k)

-----------------------------------------------------------------------------
(* Threads.                                                                *)

FreeThreads == {t \in Threads : k.th[t].state = "UNUSED"}
FreeProcs == {p \in Procs : ~k.pr[p].alive /\ \A t \in Threads : k.th[t].owner = p => k.th[t].state = "UNUSED"}

\* process_fork: the child gets the actions, and the mask of the main thread
process_fork ==
    /\ Calling("fork") /\ FreeThreads # {} /\ FreeProcs # {}
    /\ LET t == Lowest(FreeThreads)
           p == Lowest(FreeProcs)
           main == Lowest(LiveThreads(k, Own))
       IN k' = [k EXCEPT !.pr[p] = k.pr[Own],
                         !.th[t] = [UnusedThread EXCEPT !.state = "READY", !.owner = p,
                                                        !.blocked = k.th[main].blocked]]

\* process_clone: another thread of the process with the caller's mask
process_clone ==
    /\ Calling("clone") /\ FreeThreads # {}
    /\ k' = [k EXCEPT !.th[Lowest(FreeThreads)] =
                          [UnusedThread EXCEPT !.state = "READY", !.owner = Own,
                                               !.blocked = k.th[Self].blocked]]

\* process_exec_current: actions, mask, pending set and handler state are
\* reset, the queue of payloads is not.
process_exec_current ==
    /\ Calling("execve")
    /\ LiveThreads(k, Own) = {Self}
    /\ k' = [k EXCEPT !.pr[Own].act = FreeProcess.act,
                      !.th[Self] = [@ EXCEPT !.inflight = FALSE, !.number = 0, !.blocked = {}, !.pending = {},
                                             !.savedMask = {}, !.savedRax = "result"]]

\* process_futex_wait on a word with the expected value, without a timeout;
\* it does not look at the pending set.
process_futex_wait ==
    /\ Calling("futex_wait")
    /\ k' = [k EXCEPT !.th[Self].state = "BLOCKED", !.th[Self].frame = "syscall"]

\* process_futex_wake with a large count
process_futex_wake ==
    /\ Calling("futex_wake")
    /\ k' = [k EXCEPT !.th = [t \in Threads |->
                IF k.th[t].owner = Own /\ k.th[t].state = "BLOCKED" THEN [k.th[t] EXCEPT !.state = "READY"]
                ELSE k.th[t]]]

\* process_exit_thread_current
sys_exit ==
    /\ Calling("exit")
    /\ LET last == LiveThreads(k, Own) = {Self}
       IN k' = [k EXCEPT !.th[Self].state = "ZOMBIE", !.pr[Own].alive = ~last]

scheduler_yield ==
    /\ k.cur # Idle /\ ~InUserMode
    /\ \E t \in Threads \cup {Idle} : t = NextRunnable(k) /\ k' = Resume(k, t)

\* scheduler_preempt: the thread is resumed later from this interrupt frame.
Tick ==
    /\ InUserMode
    /\ \E t \in Ready(k) :
         /\ t = NextRunnable(k)
         /\ k' = Resume([k EXCEPT !.th[Self].state = "READY", !.th[Self].frame = "irq"], t)

Next ==
    /\ UNCHANGED load
    /\ \/ \E p \in Procs, x \in load.signals : kill(p, x) \/ sys_rt_sigqueueinfo(p, x)
       \/ \E t \in Threads, x \in load.signals : tgkill(t, x) \/ sys_rt_tgsigqueueinfo(t, x)
       \/ \E x \in load.signals, a \in Actions : sys_rt_sigaction(x, a)
       \/ \E mask \in SUBSET load.signals : sys_rt_sigprocmask(mask)
       \/ sys_rt_sigreturn
       \/ \E x \in FaultSignals \cap load.signals : UserFault(x)
       \/ process_fork
       \/ process_clone
       \/ process_exec_current
       \/ process_futex_wait
       \/ process_futex_wake
       \/ sys_exit
       \/ scheduler_yield
       \/ Tick

\* Besides finishing what it has begun, the kernel guarantees only the timer:
\* programs may stop making calls at any time.
Spec == Init /\ [][Next]_vars /\ WF_k(Tick) /\ WF_k(scheduler_yield)

-----------------------------------------------------------------------------
(* Properties.                                                             *)

\* Every table entry has its type, and only the current thread runs.
TypeOK ==
    /\ \A t \in Threads :
         /\ k.th[t].state \in {"UNUSED", "READY", "RUNNING", "BLOCKED", "ZOMBIE"}
         /\ k.th[t].owner \in Procs
         /\ k.th[t].frame \in {"irq", "syscall"}
         /\ k.th[t].blocked \subseteq Signals /\ k.th[t].pending \subseteq Signals
         /\ k.th[t].queue \in Seq(Payloads) /\ Len(k.th[t].queue) <= QueueMax
         /\ k.th[t].number \in Signals \cup {0} /\ (k.th[t].inflight <=> k.th[t].number # 0)
         /\ k.th[t].savedMask \subseteq Signals /\ k.th[t].savedRax \in Rax
         /\ k.th[t].state = "RUNNING" => t = k.cur
    /\ \A p \in Procs : k.pr[p].alive <=> LiveThreads(k, p) # {}

\* A payload in a thread's queue always has its pending bit (signal_queue_push
\* and signal_queue_pop keep the two in step), or nothing would ever pop it.
QueuedIsPending ==
    \A t \in Threads : \A i \in DOMAIN k.th[t].queue : k.th[t].queue[i].signal \in k.th[t].pending

\* The payloads of one signal reach a thread's handlers in the order in which
\* they were sent, none twice, whatever was masked, ignored or interrupted in
\* between: the last one handled, then those still queued, are in sending order.
PayloadsInOrder ==
    \A t \in Threads, x \in Signals :
        LET ofX == SelectSeq(<<[signal |-> x, value |-> k.last[t][x]]>> \o k.th[t].queue, LAMBDA e : e.signal = x)
        IN \A i, j \in DOMAIN ofX : i < j => ofX[i].value < ofX[j].value

\* A thread enters the handler of a signal only when no lower signal that it
\* did not block, and does not ignore, is waiting (the loop of
\* process_deliver_pending_common); a fault of its own comes first.
LowestFirst ==
    [][\A t \in Threads :
         (k'.th[t].inflight /\ ~k.th[t].inflight /\ k'.th[t].number \notin FaultSignals) =>
            \A x \in k'.th[t].pending \ k'.th[t].savedMask :
                x >= k'.th[t].number \/ k'.pr[k'.th[t].owner].act[x] = Ignore]_vars

\* A pending signal disappears only into its handler, by being ignored, with
\* its thread, or by execve: none is dropped on the way ("rather than silently
\* dropping an externally requested event").
NotDropped ==
    [][\A t \in Threads : \A x \in k.th[t].pending \ k'.th[t].pending :
          \/ k'.th[t].inflight /\ k'.th[t].number = x
          \/ k.pr[k.th[t].owner].act[x] = Ignore
          \/ k'.th[t].state = "ZOMBIE"
          \/ process_exec_current]_vars

\* kill prefers a thread that can take the signal: in programs that send to
\* processes and not to threads, a signal is left waiting in a thread that
\* blocks it only if every thread of the process blocks it.
SentToOpenThread ==
    [][load.calls \cap {"tgkill", "rt_tgsigqueueinfo"} = {} =>
         \A t \in Threads : \A x \in (k'.th[t].pending \ k.th[t].pending) \cap k.th[t].blocked :
            \A u \in LiveThreads(k, k.th[t].owner) : x \in k.th[u].blocked]_vars

\* SIGKILL is in no thread's mask.
KillNotMasked == \A t \in Threads : SIGKILL \notin k.th[t].blocked

\* When a handler returns, RAX is what the interrupted code would have had in
\* it: a value of its own or the result of its system call.
\* The code does not keep this (README, section 3).
ResultKept == \A t \in Threads : k.th[t].inflight => k.th[t].savedRax = "result"

\* A signal that can be delivered to a thread outside a handler is delivered.
Deliverable(t, x) ==
    /\ Live(k, t) /\ ~k.th[t].inflight
    /\ x \in k.th[t].pending \ k.th[t].blocked
Delivered == \A t \in Threads, x \in Signals : Deliverable(t, x) ~> ~Deliverable(t, x)

\* A process that was sent SIGKILL ends.
\* The code does not keep this (README, section 3).
KillEnds == \A t \in Threads : (Live(k, t) /\ SIGKILL \in k.th[t].pending) ~> ~Live(k, t)

\* Tables have their types, a queued payload has its pending bit, payloads of one
\* signal are handled in the order they were sent, and SIGKILL is in no mask,
\* through every sequence of sends, masks, handlers and returns.
SignalsConsistent == TypeOK /\ QueuedIsPending /\ PayloadsInOrder /\ KillNotMasked
=============================================================================
