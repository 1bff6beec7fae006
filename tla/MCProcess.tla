------------------------------ MODULE MCProcess ------------------------------
(***************************************************************************)
(* Workloads for module Process: single-threaded processes that fork, exec,*)
(* wait and exit until table slots are reused; one process with threads    *)
(* that join; processes whose threads call execve and fork; and the calls  *)
(* together, so that wait4 and futex waits meet in one process.            *)
(***************************************************************************)
EXTENDS Process

MCWorkloads ==
    {[calls |-> {"getpid", "fork", "execve", "wait4", "exit_group", "fault"}, maxPid |-> 6, maxTicks |-> 0],
     [calls |-> {"clone", "set_tid_address", "futex_wait", "futex_wake", "exit", "exit_group"}, maxPid |-> 2, maxTicks |-> 1],
     [calls |-> {"fork", "clone", "execve", "futex_wait", "futex_wake", "exit", "exit_group"}, maxPid |-> 3, maxTicks |-> 0],
     [calls |-> {"fork", "clone", "wait4", "futex_wait", "futex_wake", "exit", "exit_group",
                 "sched_yield", "poll", "write"}, maxPid |-> 3, maxTicks |-> 1]}

\* Programs that fork and wait, the commonest way to sleep in a system call.
FrameWorkloads == {[calls |-> {"fork", "wait4", "exit_group"}, maxPid |-> 4, maxTicks |-> 0]}
=============================================================================
