------------------------------ MODULE MCSignals ------------------------------
(* Signals with the workloads TLC explores, one per behaviour. *)
EXTENDS Signals

\* Realtime payloads within one process
Queueing == [signals |-> {34, 35},
             calls |-> {"rt_sigqueueinfo", "rt_tgsigqueueinfo", "rt_sigaction", "rt_sigprocmask", "rt_sigreturn",
                        "clone"}]

\* Threads and processes that come, block, go and send SIGKILL and SIGSEGV
Threaded == [signals |-> {9, 11},
             calls |-> {"kill", "rt_sigaction", "rt_sigprocmask", "rt_sigreturn", "clone", "fork", "fault", "exit",
                        "futex_wait", "futex_wake", "execve"}]

\* Processes of one thread that never wait, for what must happen
Delivering == [signals |-> {11},
               calls |-> {"kill", "tgkill", "rt_sigaction", "rt_sigprocmask", "rt_sigreturn", "fault", "fork", "exit"}]

MCWorkloads == {Queueing, Threaded}
MCDelivering == {Delivering}
=============================================================================
