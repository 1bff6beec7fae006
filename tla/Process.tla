------------------------------- MODULE Process -------------------------------
(***************************************************************************)
(* Processes, threads, the scheduler, futexes and wait4 (src/proc/         *)
(* process.c, src/syscall/syscall.c, src/arch/irq.c).                      *)
(*                                                                         *)
(* One CPU runs threads; a system call runs to its end, or to the point    *)
(* where it gives the CPU away, with interrupts disabled, so it is one     *)
(* step.  The timer interrupt preempts user mode only.  The tables of the  *)
(* kernel are one record k; every C function that changes them is an       *)
(* operator from tables to tables, and a system call composes them.        *)
(*                                                                         *)
(* Left out: slot 0 of both tables (boot thread and kernel process, never  *)
(* selected again once the first process runs); signals, descriptors and   *)
(* memory, which have their own modules; error returns without effect      *)
(* beyond the reaping every system call starts with.                       *)
(***************************************************************************)
EXTENDS Integers, FiniteSets

CONSTANTS MaxThreads,  \* NPK_MAX_THREADS, slot 0 included
          MaxProcs,    \* NPK_MAX_PROCESSES, slot 0 excluded
          MaxWaiters,  \* NPK_FUTEX_MAX_WAITERS
          MaxPid,      \* highest pid
          MaxTicks,    \* longest timeout, in timer ticks
          Addrs,       \* futex words (each in a mapped page)
          Workloads    \* what programs do: the system calls they make, the
                       \* highest pid their forks reach, their longest timeout

ASSUME ProcessAssumption ==
    /\ MaxThreads \in Nat /\ MaxThreads >= 3
    /\ MaxProcs \in Nat \ {0}
    /\ MaxWaiters \in Nat
    /\ MaxPid \in Nat /\ MaxPid >= 2
    /\ MaxTicks \in Nat
    /\ \A w \in Workloads : w.maxPid \in 2..MaxPid /\ w.maxTicks \in 0..MaxTicks

VARIABLES k,        \* the kernel's tables: threads th, processes pr, futex
                    \* waiters fu, current thread cur, next_pid; and, as a
                    \* history, how often wait4 reported each pid
          sleep,    \* ticks the running thread still spends in the loop of
                    \* poll: 0 not in it, Forever without a timeout
          data,     \* the polled pipe has data
          load      \* the workload of this behaviour

vars == <<k, sleep, data, load>>

Idle == 1                         \* bsp_idle_thread
Threads == 1..(MaxThreads - 1)
Procs == 1..MaxProcs
Slots == 1..MaxWaiters
NoAddr == "noaddr"
Forever == -1
Pids == 2..MaxPid

\* Address spaces, by the root frame of their page tables: the one a live
\* process has bears the number of the process, one that was destroyed while a
\* saved CR3 or a futex waiter still names it a number above those.
Destroyed == MaxProcs + 1 .. MaxProcs + MaxThreads + MaxWaiters
NoSpace == 0

\* Values a blocked call leaves in the saved RAX or in futex_result
SyscallNumber == -1000            \* RAX still holds the call's own number
EINTR == -4
EFAULT == -14
ETIMEDOUT == -110

UnusedThread == [state |-> "UNUSED", owner |-> 0, frame |-> "none", rax |-> 0,
                 call |-> "none", waiting |-> FALSE, result |-> 0, clearTid |-> NoAddr,
                 space |-> NoSpace]   \* context.cr3
FreeProcess == [pid |-> 0, parent |-> 0, alive |-> FALSE, count |-> 0, main |-> 0,
                waitActive |-> FALSE, waitTarget |-> 0,
                waitCopies |-> FALSE,   \* the status can be copied to wait_status_user
                reapPid |-> 0,
                word |-> [a \in Addrs |-> 0]]
NoWaiter == [thread |-> 0, space |-> NoSpace, addr |-> NoAddr, ticks |-> 0, expected |-> 0]

\* A thread just made by process_create_user, fork or clone, with an IRQ-layout
\* frame for its first return to user mode.
NewThread(p) == [UnusedThread EXCEPT !.state = "READY", !.owner = p, !.frame = "irq", !.space = p]

Live(s, t) == s.th[t].state \notin {"UNUSED", "ZOMBIE"}
OwnThreads(s, p) == {t \in Threads : s.th[t].owner = p /\ s.th[t].state # "UNUSED"}
OwnerAlive(s, t) == s.th[t].owner = 0 \/ s.pr[s.th[t].owner].alive
Lowest(S) == CHOOSE x \in S : \A y \in S : x <= y

\* What named the address space `from` names `to`.
Named(s) == {s.th[t].space : t \in Threads} \cup {s.fu[i].space : i \in Slots}
Rename(s, from, to) ==
    IF from \notin Named(s) \ {NoSpace} THEN s
    ELSE [s EXCEPT !.th = [t \in Threads |-> IF s.th[t].space # from THEN s.th[t]
                                             ELSE [s.th[t] EXCEPT !.space = to]],
                   !.fu = [i \in Slots |-> IF s.fu[i].space # from THEN s.fu[i]
                                           ELSE [s.fu[i] EXCEPT !.space = to]]]

\* vmm_create_address_space takes any free frame for the root of a new space: one
\* that nothing names (NoSpace) or that of a destroyed space, and who names that
\* one then names the new space.
FreeRoots(s) == (Destroyed \cap Named(s)) \cup {NoSpace}

\* The address space of the process p is destroyed; who names it still does.
DestroySpace(s, p) == Rename(s, p, Lowest(Destroyed \ Named(s)))

\* process_init, then process_create_user and process_launch_user for the
\* first program.
Init ==
    /\ k = [th |-> [t \in Threads |->
                       CASE t = Idle -> [UnusedThread EXCEPT !.state = "READY"]
                         [] t = 2 -> [NewThread(1) EXCEPT !.state = "RUNNING", !.frame = "none"]
                         [] OTHER -> UnusedThread],
            pr |-> [p \in Procs |->
                       IF p = 1 THEN [FreeProcess EXCEPT !.pid = 2, !.alive = TRUE, !.count = 1, !.main = 2]
                       ELSE FreeProcess],
            fu |-> [i \in Slots |-> NoWaiter],
            cur |-> 2,
            nextPid |-> 3,
            reports |-> [pid \in Pids |-> 0]]
    /\ sleep = 0
    /\ data = FALSE
    /\ load \in Workloads

-----------------------------------------------------------------------------
(* The scheduler.                                                          *)

\* Round robin: number of slots after `from` at which t is reached.
Distance(from, t) == (t - from - 1) % MaxThreads

\* find_next_runnable
Runnable(s, allowIdle) ==
    {t \in Threads : s.th[t].state = "READY" /\ OwnerAlive(s, t) /\ (t = Idle => allowIdle)}

\* Mutant: not round robin, the lowest slot always wins.
FirstAfterIsLowest(s, S) == Lowest(S)

FirstAfter(s, S) == CHOOSE t \in S : \A u \in S : Distance(s.cur, t) <= Distance(s.cur, u)

\* next_runnable: the idle thread only when nobody else can run.
NextRunnable(s) ==
    IF Runnable(s, FALSE) # {} THEN FirstAfter(s, Runnable(s, FALSE)) ELSE Idle

\* The frame a user thread is resumed from: its saved one or, when it has
\* none, the one materialize_context_frame builds, with kernel CS, from
\* whatever context_switch saved last or the thread was created with.
ResumeFrame(s, t) == IF s.th[t].frame # "none" THEN s.th[t].frame ELSE "kernel"

\* activate_thread and the transfer to the thread.  Its saved frame is used
\* up: the next entry into the kernel overwrites it before anyone reads it.
Activate(s, t) ==
    [s EXCEPT !.cur = t,
              !.th[t] = [@ EXCEPT !.state = "RUNNING", !.frame = "none",
                                  !.rax = 0, !.call = "none", !.result = 0]]

\* process_activate: the main thread of the process is the current one, whatever
\* it did before; CR3 is the process's root, not the one the thread saved.
process_activate(s, p) == Activate(s, s.pr[p].main)

\* scheduler_yield by the current thread, which always finds another one:
\* the idle thread is ready whenever it does not run.  A blocked thread keeps
\* its SYSCALL frame, any other loses its frame.
scheduler_yield(s) ==
    LET old == s.th[s.cur]
        left == [old EXCEPT !.state = IF @ = "RUNNING" THEN "READY" ELSE @,
                            !.frame = IF old.state = "BLOCKED" THEN @ ELSE "none"]
    IN Activate([s EXCEPT !.th[s.cur] = left], NextRunnable(s))

-----------------------------------------------------------------------------
(* Futexes.  A waiter slot names its thread, the address space it waits    *)
(* in, the word, and the ticks left (0: no timeout).                       *)

SlotsOf(s, t) == {i \in Slots : s.fu[i].thread = t}

\* futex_complete_thread for each thread of W: its slots become free, and it
\* becomes ready if it is blocked.  The result matters to a blocked one only.
futex_complete_threads(s, W, result) ==
    [s EXCEPT !.fu = [i \in Slots |-> IF s.fu[i].thread \in W THEN NoWaiter ELSE s.fu[i]],
              !.th = [t \in Threads |->
                        IF t \notin W \/ SlotsOf(s, t) = {} THEN s.th[t]
                        ELSE IF s.th[t].state = "BLOCKED"
                        THEN [s.th[t] EXCEPT !.waiting = FALSE, !.state = "READY", !.result = result]
                        ELSE [s.th[t] EXCEPT !.waiting = FALSE]]]

\* futex_wake_internal in the address space of process p: at most n threads, in
\* the order of their slots.
futex_wake_internal(s, p, a, n) ==
    LET match == {i \in Slots : s.fu[i].thread # 0 /\ s.fu[i].space = p /\ s.fu[i].addr = a}
        waiters == {s.fu[i].thread : i \in match}
        first(t) == Lowest({i \in match : s.fu[i].thread = t})
        woken == {t \in waiters : Cardinality({u \in waiters : first(u) < first(t)}) < n}
    IN futex_complete_threads(s, woken, 0)

\* Mutant: clear_child_tid wakes a single waiter.
ClearWakesOne(s, t) ==
    LET p == s.th[t].owner  a == s.th[t].clearTid IN
    IF a = NoAddr THEN s
    ELSE LET w == futex_wake_internal([s EXCEPT !.pr[p].word[a] = 0], p, a, 1)
         IN [w EXCEPT !.th[t].clearTid = NoAddr]

\* clear_child_tid for the thread t: the word is zeroed and all its waiters wake.
clear_child_tid(s, t) ==
    LET p == s.th[t].owner  a == s.th[t].clearTid IN
    IF a = NoAddr THEN s
    ELSE LET w == futex_wake_internal([s EXCEPT !.pr[p].word[a] = 0], p, a, MaxWaiters)
         IN [w EXCEPT !.th[t].clearTid = NoAddr]

\* futex_expire_waiters, after the tick counter advanced.
futex_expire_waiters(s) ==
    LET due == {s.fu[i].thread : i \in {j \in Slots : s.fu[j].ticks = 1}}
        aged == [s EXCEPT !.fu = [i \in Slots |->
                    IF s.fu[i].ticks > 0 THEN [s.fu[i] EXCEPT !.ticks = @ - 1] ELSE s.fu[i]]]
    IN futex_complete_threads(aged, due, ETIMEDOUT)

-----------------------------------------------------------------------------
(* Process life cycle.                                                     *)

WithPid(s, pid) == {p \in Procs : pid # 0 /\ s.pr[p].pid = pid}    \* find_process_by_pid
TargetMatches(target, pid) == target = -1 \/ target = pid          \* wait_target_matches

\* reap_process: the slots of the process and of its threads become free.
reap_process(s, p) ==
    IF s.pr[p].alive \/ s.pr[p].pid = 0 \/ s.th[s.cur].owner = p THEN s
    ELSE [s EXCEPT !.th = [t \in Threads |-> IF s.th[t].owner = p THEN UnusedThread ELSE s.th[t]],
                   !.pr[p] = FreeProcess]

\* Mutant: the claim is dropped unreaped.
ReapDropsClaim(s) == [s EXCEPT !.pr[s.th[s.cur].owner].reapPid = 0]

\* process_reap_pending, on every system call entry.
process_reap_pending(s) ==
    LET me == s.th[s.cur].owner
        claimed == {p \in WithPid(s, s.pr[me].reapPid) :
                        s.pr[p].parent = s.pr[me].pid /\ ~s.pr[p].alive}
        cleared == [s EXCEPT !.pr[me].reapPid = 0]
    IN IF claimed = {} THEN cleared ELSE reap_process(cleared, Lowest(claimed))

\* wake_parent_waiter: the first blocked thread of the parent gets the pid of
\* the child in its saved frame, or an error if the status could not be copied;
\* then the child is not claimed.
wake_parent_waiter(s, child) ==
    LET parents == {p \in WithPid(s, s.pr[child].parent) :
                        /\ s.pr[p].alive /\ s.pr[p].waitActive
                        /\ TargetMatches(s.pr[p].waitTarget, s.pr[child].pid)}
        blocked == {t \in Threads : s.th[t].owner \in parents /\ s.th[t].state = "BLOCKED"}
    IN IF blocked = {} THEN s
       ELSE LET t == Lowest(blocked)  p == s.th[t].owner IN
            IF s.pr[p].waitCopies
            THEN [s EXCEPT !.pr[p].waitActive = FALSE,
                           !.pr[p].reapPid = s.pr[child].pid,
                           !.th[t].state = "READY",
                           !.th[t].rax = s.pr[child].pid,
                           !.reports[s.pr[child].pid] = @ + 1]
            ELSE [s EXCEPT !.pr[p].waitActive = FALSE,
                           !.th[t].state = "READY",
                           !.th[t].rax = EFAULT]

\* The end of a process: its memory, descriptors and transfers go, the entry
\* stays as a zombie, whose main_thread and user words nobody reads again.
Die(s, p) ==
    wake_parent_waiter([DestroySpace(s, p) EXCEPT
                            !.pr[p] = [FreeProcess EXCEPT !.pid = s.pr[p].pid,
                                                          !.parent = s.pr[p].parent]], p)

\* Mutant: exit leaves the futex waiters of its threads behind.
ExitLeavesWaiters(s) ==
    LET p == s.th[s.cur].owner
        own == OwnThreads(s, p)
    IN Die([s EXCEPT !.th = [t \in Threads |-> IF t \in own
                               THEN [UnusedThread EXCEPT !.state = "ZOMBIE", !.owner = p]
                               ELSE s.th[t]]], p)

\* process_exit_current.  The words cleared on the way have waiters in this
\* process only, which all end anyway.
process_exit_current(s) ==
    LET p == s.th[s.cur].owner
        own == OwnThreads(s, p)
        c == futex_complete_threads(s, own, EINTR)
    IN Die([c EXCEPT !.th = [t \in Threads |-> IF t \in own
                               THEN [UnusedThread EXCEPT !.state = "ZOMBIE", !.owner = p]
                               ELSE c.th[t]]], p)

\* process_exit_thread_current
process_exit_thread_current(s) ==
    LET t == s.cur  p == s.th[t].owner
        c == futex_complete_threads(clear_child_tid(s, t), {t}, EINTR)
        z == [c EXCEPT !.th[t] = [UnusedThread EXCEPT !.state = "ZOMBIE", !.owner = p],
                       !.pr[p].count = @ - 1]
        rest == {u \in Threads : z.th[u].owner = p /\ Live(z, u)}
        m == [z EXCEPT !.pr[p].main = IF @ # t THEN @ ELSE IF rest = {} THEN 0 ELSE Lowest(rest)]
    IN IF m.pr[p].count = 0 THEN Die(m, p) ELSE m

-----------------------------------------------------------------------------
(* System calls of the running user thread.                                *)

Me == k.th[k.cur].owner
Entry == process_reap_pending(k)      \* syscall_dispatch_asm

Calling(c) == c \in load.calls /\ k.cur # Idle /\ sleep = 0

\* The call ends, in its caller or in the thread switched to, with tables s.
Return(s) ==
    /\ k' = s
    /\ UNCHANGED <<sleep, data, load>>

\* The caller blocks in call c: its SYSCALL frame stays, RAX included.
Block(s, c) ==
    Return(scheduler_yield([s EXCEPT !.th[s.cur] =
           [@ EXCEPT !.state = "BLOCKED", !.call = c, !.frame = "syscall", !.rax = SyscallNumber]]))

\* Calls without an effect on these tables, and calls that fail.
getpid == Calling("getpid") /\ Return(Entry)

process_fork ==
    /\ Calling("fork")
    /\ LET s == Entry
           slots == {p \in Procs : s.pr[p].pid = 0}
           free == {t \in Threads : s.th[t].state = "UNUSED"}
       IN /\ slots # {} /\ free # {}
          /\ s.nextPid <= load.maxPid
          /\ LET p == Lowest(slots)  t == Lowest(free) IN
             \E root \in FreeRoots(s) :
             Return([Rename(s, root, p) EXCEPT
                              !.nextPid = @ + 1,
                              !.th[t] = NewThread(p),
                              !.pr[p] = [FreeProcess EXCEPT !.pid = s.nextPid, !.alive = TRUE,
                                            !.parent = s.pr[Me].pid, !.count = 1, !.main = t,
                                            !.word = s.pr[Me].word]])

\* process_clone; a is the word given with CHILD_SETTID and CHILD_CLEARTID.
process_clone ==
    /\ Calling("clone")
    /\ LET s == Entry
           free == {t \in Threads : s.th[t].state = "UNUSED"}
       IN /\ free # {}
          /\ \E a \in Addrs \cup {NoAddr} :
               Return([s EXCEPT !.th[Lowest(free)] = [NewThread(Me) EXCEPT !.clearTid = a],
                                !.pr[Me].count = @ + 1,
                                !.pr[Me].word = IF a = NoAddr THEN @ ELSE [@ EXCEPT ![a] = 1]])

process_set_tid_address ==
    /\ Calling("set_tid_address")
    /\ \E a \in Addrs \cup {NoAddr} : Return([Entry EXCEPT !.th[k.cur].clearTid = a])

\* Mutant: the saved CR3 of the caller stays the one it had.
ExecKeepsRoot ==
    /\ Calling("execve")
    /\ \E root \in FreeRoots(Entry) :
         Return(process_activate([Rename(DestroySpace(Entry, Me), root, Me) EXCEPT
                                     !.pr[Me].word = [a \in Addrs |-> 0]], Me))

\* process_exec_current: the process gets another address space, whose words
\* are zero, and the old one is destroyed.  Of the saved CR3s only the caller's
\* is set; clear_child_tid and the futex waiters stay as they are.  The call
\* returns with the frame of the caller, but as the main thread of the process;
\* a caller that is another thread stays RUNNING.
process_exec_current ==
    /\ Calling("execve")
    /\ \E root \in FreeRoots(Entry) :
         Return(process_activate([Rename(DestroySpace(Entry, Me), root, Me) EXCEPT
                                     !.pr[Me].word = [a \in Addrs |-> 0],
                                     !.th[k.cur].space = Me], Me))

\* process_futex_wait whose comparison succeeds; ticks = 0 is no timeout.
process_futex_wait ==
    /\ Calling("futex_wait")
    /\ \E a \in Addrs, ticks \in 0..load.maxTicks :
         LET s == Entry
             free == {i \in Slots : s.fu[i].thread = 0}
         IN /\ free # {}
            /\ Block([s EXCEPT !.th[s.cur].waiting = TRUE,
                               !.th[s.cur].result = EINTR,
                               !.fu[Lowest(free)] =
                                   [thread |-> s.cur, space |-> Me, addr |-> a,
                                    ticks |-> ticks, expected |-> s.pr[Me].word[a]]],
                     "futex_wait")

process_futex_wake ==
    /\ Calling("futex_wake")
    /\ \E a \in Addrs, n \in 1..2 : Return(futex_wake_internal(Entry, Me, a, n))

\* Mutant: wait4 blocks without looking for a child that has exited already.
WaitIgnoresZombies ==
    /\ Calling("wait4")
    /\ \E target \in {-1} \cup Pids, p \in Procs :
         /\ Entry.pr[p].pid # 0 /\ Entry.pr[p].parent = Entry.pr[Me].pid
         /\ TargetMatches(target, Entry.pr[p].pid)
         /\ Block([Entry EXCEPT !.pr[Me].waitActive = TRUE, !.pr[Me].waitTarget = target,
                                !.pr[Me].waitCopies = TRUE], "wait4")

\* process_wait4; copies: the status pointer is null or can be written to.
process_wait4 ==
    /\ Calling("wait4")
    /\ \E target \in {-1} \cup Pids, copies \in BOOLEAN :
         LET s == Entry
             children == {p \in Procs : /\ s.pr[p].pid # 0 /\ s.pr[p].parent = s.pr[Me].pid
                                        /\ TargetMatches(target, s.pr[p].pid)}
             zombies == {p \in children : ~s.pr[p].alive}
         IN /\ children # {}
            /\ \/ zombies # {} /\ ~copies /\ Return(s)
               \/ /\ zombies # {} /\ copies
                  /\ LET z == Lowest(zombies) IN
                     Return(reap_process([s EXCEPT !.reports[s.pr[z].pid] = @ + 1], z))
               \/ /\ zombies = {}
                  /\ Block([s EXCEPT !.pr[Me].waitActive = TRUE, !.pr[Me].waitTarget = target,
                                     !.pr[Me].waitCopies = copies], "wait4")

sys_exit ==
    /\ Calling("exit")
    /\ Return(scheduler_yield(process_exit_thread_current(Entry)))

sys_exit_group ==
    /\ Calling("exit_group")
    /\ Return(scheduler_yield(process_exit_current(Entry)))

\* A fault or a fatal signal ends the process outside any system call.
terminate_user_exception ==
    /\ Calling("fault")
    /\ Return(scheduler_yield(process_exit_current(k)))

sys_sched_yield ==
    /\ Calling("sched_yield")
    /\ Return(scheduler_yield(Entry))

\* sys_poll_common on a pipe without data, and a write that makes it readable
sys_poll ==
    /\ Calling("poll")
    /\ ~data
    /\ \E ticks \in {Forever} \cup 1..load.maxTicks : sleep' = ticks
    /\ k' = Entry
    /\ UNCHANGED <<data, load>>

sys_write ==
    /\ Calling("write")
    /\ k' = Entry
    /\ data' = TRUE
    /\ UNCHANGED <<sleep, load>>

-----------------------------------------------------------------------------
(* The timer interrupt.                                                    *)

\* scheduler_preempt in user mode
PreemptUser ==
    /\ k.cur # Idle /\ sleep = 0
    /\ LET s == futex_expire_waiters(k)
           ready == Runnable(s, FALSE)
       IN Return(IF ready = {} THEN s
                 ELSE Activate([s EXCEPT !.th[s.cur] = [@ EXCEPT !.state = "READY", !.frame = "irq"]],
                               FirstAfter(s, ready)))

\* scheduler_preempt in kernel mode, within the loop of poll: the thread
\* goes on, and leaves the loop when it finds data or its time is over.
TickInPoll ==
    /\ sleep # 0
    /\ k' = futex_expire_waiters(k)
    /\ sleep' = IF data THEN 0 ELSE IF sleep = Forever THEN Forever ELSE sleep - 1
    /\ UNCHANGED <<data, load>>

\* The same in the idle thread, which then yields if somebody can run.
TickInIdle ==
    /\ k.cur = Idle
    /\ LET s == futex_expire_waiters(k)
       IN Return(IF Runnable(s, FALSE) = {} THEN s ELSE scheduler_yield(s))

Tick == PreemptUser \/ TickInPoll \/ TickInIdle

Next ==
    \/ getpid \/ process_fork \/ process_clone \/ process_set_tid_address
    \/ process_futex_wait \/ process_futex_wake \/ process_wait4
    \/ process_exec_current
    \/ sys_exit \/ sys_exit_group \/ terminate_user_exception
    \/ sys_sched_yield \/ sys_poll \/ sys_write
    \/ Tick

\* The PIT interrupt never stops coming.
Spec == Init /\ [][Next]_vars /\ WF_vars(Tick)

-----------------------------------------------------------------------------
(* Properties.                                                             *)

ThreadRecord ==
    [state : {"UNUSED", "READY", "RUNNING", "BLOCKED", "ZOMBIE"}, owner : Procs \cup {0},
     frame : {"none", "irq", "syscall"}, rax : Pids \cup {0, SyscallNumber, EFAULT},
     call : {"none", "futex_wait", "wait4"},
     waiting : BOOLEAN, result : {0, EINTR, ETIMEDOUT}, clearTid : Addrs \cup {NoAddr},
     space : Procs \cup Destroyed \cup {NoSpace}]
ProcessRecord ==
    [pid : Pids \cup {0}, parent : Pids \cup {0}, alive : BOOLEAN, count : Nat, main : Threads \cup {0},
     waitActive : BOOLEAN, waitTarget : Pids \cup {-1, 0}, waitCopies : BOOLEAN, reapPid : Pids \cup {0},
     word : [Addrs -> {0, 1}]]
WaiterRecord ==
    [thread : Threads \cup {0}, space : Procs \cup Destroyed \cup {NoSpace}, addr : Addrs \cup {NoAddr},
     ticks : 0..MaxTicks, expected : {0, 1}]

\* The tables hold values of their types; next_pid stays within its bound.
TypeOK ==
    /\ k.th \in [Threads -> ThreadRecord]
    /\ k.pr \in [Procs -> ProcessRecord]
    /\ k.fu \in [Slots -> WaiterRecord]
    /\ k.cur \in Threads
    /\ k.nextPid \in 3..(MaxPid + 1)
    /\ k.reports \in [Pids -> Nat]
    /\ sleep \in {Forever} \cup 0..MaxTicks
    /\ data \in BOOLEAN
    /\ load \in Workloads

\* Some thread of a program with several threads may call execve.
ThreadsExec == {"clone", "execve"} \subseteq load.calls

\* The current thread is RUNNING, its process has not exited, so its address
\* space is still there, and no other thread is RUNNING (unless one of several
\* threads called execve: README, section 3).  The idle thread never sleeps.
OneRunning ==
    /\ k.th[k.cur].state = "RUNNING"
    /\ \A t \in Threads : k.th[t].state = "RUNNING" => t = k.cur \/ ThreadsExec
    /\ OwnerAlive(k, k.cur)
    /\ k.th[Idle].state \in {"READY", "RUNNING"}

\* Only the current thread is RUNNING, so that every other live thread can be
\* woken or chosen.  The code does not keep this (README, section 3).
OnlyCurrentRuns == \A t \in Threads : k.th[t].state = "RUNNING" => t = k.cur

\* thread_count is the number of threads of a live process that have not
\* exited and main_thread is one of them (exit of the last one ends the
\* process, exit of the main one hands the role on); a process that exited
\* has zombie threads only, and a free entry has none.
ThreadAccounting ==
    \A p \in Procs :
        LET live == {t \in OwnThreads(k, p) : Live(k, t)} IN
        /\ k.pr[p].alive => k.pr[p].main \in live /\ k.pr[p].count = Cardinality(live)
        /\ ~k.pr[p].alive => live = {}
        /\ k.pr[p].pid = 0 => OwnThreads(k, p) = {}

\* Every thread runs in the address space of its process, through fork, clone
\* and execve.  The code does not keep this when one of several threads calls
\* execve (README, section 3).
InOwnSpace == \A t \in Threads \ {Idle} : Live(k, t) => k.th[t].space = k.th[t].owner

\* No stale futex waiter: a slot names a live thread that still has
\* futex_waiting set, in the address space of its process (unless one of several
\* threads called execve), and a thread with futex_waiting set has a slot that
\* a wake or a timeout will find.
FutexTable ==
    /\ \A i \in Slots : k.fu[i].thread # 0 =>
           LET t == k.fu[i].thread IN
           Live(k, t) /\ k.th[t].waiting /\ (k.fu[i].space = k.th[t].owner \/ ThreadsExec)
    /\ \A t \in Threads : k.th[t].waiting => SlotsOf(k, t) # {}

\* No join is missed: a thread still queued on a thread id word it saw as
\* nonzero waits for a thread that has not cleared it (clear_child_tid wakes
\* every waiter of the word it zeroes; nothing else writes these words, unless
\* one of several threads calls execve).
JoinNotMissed ==
    ~ThreadsExec => \A i \in Slots :
        k.fu[i].thread # 0 /\ k.fu[i].expected # 0 => k.pr[k.th[k.fu[i].thread].owner].word[k.fu[i].addr] # 0

\* A claimed child (pending_reap_pid) is a zombie of the claiming process
\* until that process reaps it, so the claim never falls on a reused entry.
ClaimedZombie ==
    \A p \in Procs : k.pr[p].alive /\ k.pr[p].reapPid # 0 =>
        \E c \in Procs : /\ k.pr[c].pid = k.pr[p].reapPid
                         /\ k.pr[c].parent = k.pr[p].pid
                         /\ ~k.pr[c].alive

\* The exit of a child is reported by one wait4 only, whether the zombie was
\* found by the call or the call was blocked and woken by the exit.
ReportedOnce == \A pid \in Pids : k.reports[pid] <= 1

\* Among programs without threads, a thread blocked in wait4 has something to
\* wait for: its process is marked as waiting, a child that can end the wait
\* is alive, and no child that ends it has exited unnoticed.
WaiterNotForgotten ==
    "clone" \notin load.calls => \A t \in Threads : k.th[t].state = "BLOCKED" /\ k.th[t].call = "wait4" =>
        LET p == k.th[t].owner
            children == {c \in Procs : /\ k.pr[c].pid # 0 /\ k.pr[c].parent = k.pr[p].pid
                                       /\ TargetMatches(k.pr[p].waitTarget, k.pr[c].pid)}
        IN /\ k.pr[p].waitActive
           /\ children # {}
           /\ \A c \in children : k.pr[c].alive

\* No waiter is left behind: one that is queued on a thread id, or blocked in
\* wait4, still has a thread or a child whose exit will wake it.
NoLostWaiter == JoinNotMissed /\ WaiterNotForgotten

\* The exit of a child wakes a thread of its parent that waits for it.
\* The code does not keep this (README, section 3).
ExitWakesWaiter ==
    [][\A c \in Procs, p \in Procs :
           /\ k.pr[c].alive /\ ~k'.pr[c].alive
           /\ k.pr[p].alive /\ k.pr[p].waitActive /\ k.pr[c].parent = k.pr[p].pid
           /\ TargetMatches(k.pr[p].waitTarget, k.pr[c].pid)
           => \E t \in Threads : /\ k.th[t].owner = p /\ k.th[t].call = "wait4"
                                  /\ k.th[t].state = "BLOCKED" /\ k'.th[t].state # "BLOCKED"]_vars

\* Round robin starves nobody: a thread that is ready gets the CPU (or its
\* process ends), however the others use it, as long as the timer ticks and
\* nobody waits in poll, which keeps the CPU.
NoStarvation ==
    \A t \in Threads \ {Idle} : k.th[t].state = "READY" ~> k.th[t].state # "READY" \/ sleep # 0

\* The scheduler does not mix the frame of the timer stub with the frame of
\* a system call: what the stub restores has the layout the stub saved.
FramesNotMixed ==
    [][PreemptUser /\ k'.cur # k.cur => ResumeFrame(k, k'.cur) # "syscall"]_vars

\* A user thread is resumed from a frame on its kernel stack that returns to
\* user mode, whether a tick or a call of its own took the CPU away.
\* The code does not keep this (README, section 3).
ResumedFromSavedFrame ==
    [][k'.cur # k.cur /\ k'.cur # Idle => ResumeFrame(k, k'.cur) # "kernel"]_vars

\* A futex wait returns its result: 0 when woken, an error when it timed out.
\* The code does not keep this (README, section 3).
FutexResultReturned ==
    [][\A t \in Threads :
           k.th[t].state = "READY" /\ k.th[t].call = "futex_wait" /\ k'.cur = t
               => k.th[t].rax = k.th[t].result]_vars

\* While one thread waits in poll the others run, and so can make the
\* descriptor ready that it waits for.
\* The code does not keep this (README, section 3).
ThreadsRunDuringPoll ==
    \A t \in Threads \ {Idle} : sleep # 0 /\ k.th[t].state = "READY" ~> k.cur = t

\* The tables agree with each other after every call, tick and wakeup: one
\* thread runs, thread counts are the live threads, futex slots and blocked
\* threads match, a child claimed by its parent is a zombie, and a thread of a
\* program without threads is in its own address space.
TablesConsistent ==
    /\ TypeOK /\ OneRunning /\ ThreadAccounting /\ FutexTable /\ ClaimedZombie
    /\ "clone" \notin load.calls => InOwnSpace
=============================================================================
