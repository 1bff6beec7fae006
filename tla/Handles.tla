------------------------------- MODULE Handles -------------------------------
(***************************************************************************)
(* Open handles of the VFS and everything that refers to them: descriptor  *)
(* slots of processes, descriptors in transfer, memory mappings and epoll  *)
(* watches (src/fs/vfs.c, the descriptor calls of src/syscall/syscall.c,   *)
(* fork, exec and exit of src/proc/process.c, the mapping list of          *)
(* src/memory/vm.c).                                                       *)
(*                                                                         *)
(* A system call is one step (interrupts are off), processes interleave.   *)
(* The tables are one record t; C functions are operators on it.  File     *)
(* contents and offsets are left out; a pipe keeps its fill level.         *)
(***************************************************************************)
EXTENDS Integers, FiniteSets, Sequences, SequencesExt, FiniteSetsExt

CONSTANTS MaxProcs,      \* process table
          MaxFds,        \* NPK_MAX_FDS
          MinFd,         \* lowest descriptor of a new handle (3); those below
                         \* are the console's at start
          MaxHandles,    \* MAX_OPEN_DESCRIPTORS
          MaxPipes,      \* bound on pipe objects (kernel heap)
          PipeCapacity,  \* PIPE_CAPACITY
          MaxTransfers,  \* NPK_FD_TRANSFER_MAX
          MaxWatches,    \* EPOLL_MAX_WATCHES
          MaxMaps,       \* bound on mappings per process and handle
          Workloads,     \* sets of system calls; the programs of a behaviour
                         \* make those of one of them
          ForkOutcomes   \* "ok", and the allocation that fails in fork

ASSUME HandlesAssumption ==
    /\ MaxProcs \in Nat \ {0} /\ MaxHandles \in Nat \ {0} /\ MaxPipes \in Nat
    /\ MaxFds \in Nat \ {0} /\ MinFd \in 0..(MaxFds - 1)
    /\ PipeCapacity \in Nat \ {0}
    /\ {MaxTransfers, MaxWatches, MaxMaps} \subseteq Nat
    /\ ForkOutcomes \subseteq {"ok", "mappings", "stack"}

VARIABLES t,      \* handles, pipes and processes
          calls   \* the system calls programs make in this behaviour

vars == <<t, calls>>

Procs == 1..MaxProcs
Fds == 0..(MaxFds - 1)
Handles == 1..MaxHandles
Pipes == 1..MaxPipes
None == -1
Console == 0       \* handles 0, 1 and 2, which are never retained or freed

FreeHandle == [kind |-> "free", refs |-> 0, pipe |-> 0, watches |-> {}]
FreePipe == [used |-> FALSE, readers |-> 0, writers |-> 0, count |-> 0]
NoProcess == [alive |-> FALSE, parent |-> 0, fds |-> [f \in Fds |-> None], cloexec |-> {},
              incoming |-> <<>>, maps |-> [h \in Handles |-> 0]]

Init ==
    /\ t = [file |-> [h \in Handles |-> FreeHandle],
            pipe |-> [i \in Pipes |-> FreePipe],
            proc |-> [p \in Procs |-> IF p # 1 THEN NoProcess
                        ELSE [NoProcess EXCEPT !.alive = TRUE,
                                               !.fds = [f \in Fds |-> IF f < MinFd THEN Console ELSE None]]]]
    /\ calls \in Workloads

-----------------------------------------------------------------------------
(* The open-handle layer.                                                  *)

FreeHandles(s) == {h \in Handles : s.file[h].kind = "free"}

\* allocate_descriptor, with the fields its caller sets
Allocate(s, h, kind, pipe) ==
    [s EXCEPT !.file[h] = [FreeHandle EXCEPT !.kind = kind, !.refs = 1, !.pipe = pipe]]

\* Mutant: retaining a pipe end does not count it in the pipe.
RetainIgnoresPipe(s, h) == IF h = Console THEN s ELSE [s EXCEPT !.file[h].refs = @ + 1]

vfs_retain(s, h) ==
    IF h = Console THEN s
    ELSE LET i == s.file[h].pipe IN
         CASE s.file[h].kind = "reader" -> [s EXCEPT !.file[h].refs = @ + 1, !.pipe[i].readers = @ + 1]
           [] s.file[h].kind = "writer" -> [s EXCEPT !.file[h].refs = @ + 1, !.pipe[i].writers = @ + 1]
           [] OTHER -> [s EXCEPT !.file[h].refs = @ + 1]

\* Mutant: the first reference to an end that is closed ends it for all.
EndGone(s, h) ==
    LET i == s.file[h].pipe IN
    CASE s.file[h].kind = "reader" -> [s EXCEPT !.pipe[i].readers = 0]
      [] s.file[h].kind = "writer" -> [s EXCEPT !.pipe[i].writers = 0]
      [] OTHER -> s

\* What vfs_close does to the pipe of an end, whether or not the handle stays
EndClosed(s, h) ==
    LET i == s.file[h].pipe IN
    CASE s.file[h].kind = "reader" -> [s EXCEPT !.pipe[i].readers = Max({@ - 1, 0})]
      [] s.file[h].kind = "writer" -> [s EXCEPT !.pipe[i].writers = Max({@ - 1, 0})]
      [] OTHER -> s

\* vfs_close: the last reference to an epoll handle closes what it watches,
\* the last end of a pipe frees the pipe.
RECURSIVE vfs_close(_, _)
vfs_close(s, h) ==
    IF h = Console \/ s.file[h].refs = 0 THEN s
    ELSE LET f == s.file[h]
             down == [EndClosed(s, h) EXCEPT !.file[h].refs = @ - 1]
         IN IF f.refs > 1 THEN down
            ELSE LET unwatched == FoldSet(LAMBDA w, acc : vfs_close(acc, w), down, f.watches)
                     gone == [unwatched EXCEPT !.file[h] = FreeHandle]
                 IN IF f.pipe # 0 /\ gone.pipe[f.pipe].readers = 0 /\ gone.pipe[f.pipe].writers = 0
                    THEN [gone EXCEPT !.pipe[f.pipe] = FreePipe]
                    ELSE gone

CloseSeq(s, hs) == FoldLeft(LAMBDA acc, h : vfs_close(acc, h), s, hs)

-----------------------------------------------------------------------------
(* Descriptor slots.                                                       *)

FreeFds(s, p, min) == {f \in Fds : f >= min /\ s.proc[p].fds[f] = None}

\* process_install_fd, and what every caller does when the table is full.
InstallOrClose(s, p, h, min, flags) ==
    IF FreeFds(s, p, min) = {} THEN vfs_close(s, h)
    ELSE LET f == Min(FreeFds(s, p, min)) IN
         [s EXCEPT !.proc[p].fds[f] = h,
                   !.proc[p].cloexec = IF flags THEN @ \cup {f} ELSE @ \ {f}]

process_forget_fd(s, p, f) ==
    LET c == vfs_close(s, s.proc[p].fds[f])
    IN [c EXCEPT !.proc[p].fds[f] = None, !.proc[p].cloexec = @ \ {f}]

close_process_fds(s, p) ==
    FoldSet(LAMBDA f, acc : process_forget_fd(acc, p, f), s, {f \in Fds : s.proc[p].fds[f] # None})

\* vm_destroy_all: each mapping with a backing handle drops its reference.
vm_destroy_all(s, p) ==
    LET drop(h, acc) == FoldSet(LAMBDA i, a : vfs_close(a, h), acc, 1..s.proc[p].maps[h])
        c == FoldSet(drop, s, Handles)
    IN [c EXCEPT !.proc[p].maps = [h \in Handles |-> 0]]

-----------------------------------------------------------------------------
(* System calls of the process p.                                          *)

Calling(c, p) == c \in calls /\ t.proc[p].alive
Flags == IF "exec" \in calls THEN BOOLEAN ELSE {FALSE}    \* FD_CLOEXEC
OpenFds(p) == {f \in Fds : t.proc[p].fds[f] # None}
HandleOf(p, f) == t.proc[p].fds[f]
Kind(h) == IF h = Console THEN "console" ELSE t.file[h].kind

\* open, epoll_create1 and shm_create: one handle, one descriptor.  Regular
\* files and shared memory objects behave alike here: both can be mapped.
sys_open(p) ==
    /\ Calling("open", p)
    /\ FreeHandles(t) # {}
    /\ \E kind \in {"file", "epoll"} :
         LET h == Min(FreeHandles(t)) IN
         t' = InstallOrClose(Allocate(t, h, kind, 0), p, h, MinFd, FALSE)

sys_pipe(p) ==
    /\ Calling("pipe", p)
    /\ Cardinality(FreeHandles(t)) >= 2
    /\ \E i \in {Min({j \in Pipes : ~t.pipe[j].used} \cup {MaxPipes + 1})} \cap Pipes, flags \in Flags :
         LET r == Min(FreeHandles(t))
             w == Min(FreeHandles(t) \ {r})
             made == [Allocate(Allocate(t, r, "reader", i), w, "writer", i)
                        EXCEPT !.pipe[i] = [FreePipe EXCEPT !.used = TRUE, !.readers = 1, !.writers = 1]]
         IN t' = CASE Cardinality(FreeFds(t, p, MinFd)) >= 2 ->
                        InstallOrClose(InstallOrClose(made, p, r, MinFd, flags), p, w, MinFd, flags)
                   [] OTHER -> vfs_close(vfs_close(made, r), w)

sys_dup(p) ==
    /\ Calling("dup", p)
    /\ \E f \in OpenFds(p), min \in Fds, flags \in Flags :
         t' = InstallOrClose(vfs_retain(t, HandleOf(p, f)), p, HandleOf(p, f), min, flags)

\* Mutant: the descriptor that is replaced is not closed.
Dup2Overwrites(p) ==
    /\ Calling("dup2", p)
    /\ \E old \in OpenFds(p) : \E new \in Fds \ {old} :
         t' = [vfs_retain(t, HandleOf(p, old)) EXCEPT !.proc[p].fds[new] = HandleOf(p, old)]

sys_dup2(p) ==
    /\ Calling("dup2", p)
    /\ \E old \in OpenFds(p) : \E new \in Fds \ {old} :
         LET kept == vfs_retain(t, HandleOf(p, old))
             cleared == IF new \in OpenFds(p) THEN process_forget_fd(kept, p, new) ELSE kept
         IN t' = [cleared EXCEPT !.proc[p].fds[new] = HandleOf(p, old), !.proc[p].cloexec = @ \ {new}]

sys_close(p) ==
    /\ Calling("close", p)
    /\ \E f \in OpenFds(p) : t' = process_forget_fd(t, p, f)

\* fcntl(F_SETFD)
sys_fcntl(p) ==
    /\ Calling("exec", p)
    /\ \E f \in OpenFds(p), flags \in Flags :
         t' = [t EXCEPT !.proc[p].cloexec = IF flags THEN @ \cup {f} ELSE @ \ {f}]

\* vfs_read and vfs_write on a pipe end; other handles keep no state here.
PipeRead(p) ==
    /\ Calling("pipe_io", p)
    /\ \E f \in OpenFds(p), n \in 1..PipeCapacity :
         /\ Kind(HandleOf(p, f)) = "reader"
         /\ LET i == t.file[HandleOf(p, f)].pipe IN
            /\ t.pipe[i].count # 0
            /\ t' = [t EXCEPT !.pipe[i].count = @ - Min({n, @})]

PipeWrite(p) ==
    /\ Calling("pipe_io", p)
    /\ \E f \in OpenFds(p), n \in 1..PipeCapacity :
         /\ Kind(HandleOf(p, f)) = "writer"
         /\ LET i == t.file[HandleOf(p, f)].pipe IN
            /\ t.pipe[i].readers # 0 /\ t.pipe[i].count < PipeCapacity
            /\ t' = [t EXCEPT !.pipe[i].count = @ + Min({n, PipeCapacity - @})]

\* process_send_fd to oneself, a child or the parent, and process_receive_fd
sys_fd_send(p) ==
    /\ Calling("send", p)
    /\ \E f \in OpenFds(p), q \in Procs :
         /\ t.proc[q].alive
         /\ q = p \/ t.proc[q].parent = p \/ t.proc[p].parent = q
         /\ Len(t.proc[q].incoming) < MaxTransfers
         /\ t' = [vfs_retain(t, HandleOf(p, f)) EXCEPT !.proc[q].incoming = Append(@, HandleOf(p, f))]

sys_fd_recv(p) ==
    /\ Calling("send", p)
    /\ t.proc[p].incoming # <<>>
    /\ t' = InstallOrClose([t EXCEPT !.proc[p].incoming = Tail(@)], p,
                           Head(t.proc[p].incoming), MinFd, FALSE)

\* vfs_epoll_ctl: EPOLL_CTL_ADD and EPOLL_CTL_DEL
EpollAdd(p) ==
    /\ Calling("epoll", p)
    /\ \E e \in OpenFds(p), f \in OpenFds(p) :
         LET ep == HandleOf(p, e)  h == HandleOf(p, f) IN
         /\ Kind(ep) = "epoll"
         /\ h # ep /\ h \notin t.file[ep].watches
         /\ Cardinality(t.file[ep].watches) < MaxWatches
         /\ t' = [vfs_retain(t, h) EXCEPT !.file[ep].watches = @ \cup {h}]

EpollDel(p) ==
    /\ Calling("epoll", p)
    /\ \E e \in OpenFds(p), f \in OpenFds(p) :
         LET ep == HandleOf(p, e)  h == HandleOf(p, f) IN
         /\ Kind(ep) = "epoll"
         /\ h \in t.file[ep].watches
         /\ t' = [vfs_close(t, h) EXCEPT !.file[ep].watches = @ \ {h}]

\* A mapping takes a reference of its own (vm_map_file, vm_map_shared); so
\* does the second part when one is split (split_vma_at, vm_unmap).
sys_mmap(p) ==
    /\ Calling("mmap", p)
    /\ \E h \in Handles :
         /\ t.proc[p].maps[h] > 0 \/ (t.file[h].kind = "file" /\ \E f \in Fds : HandleOf(p, f) = h)
         /\ t.proc[p].maps[h] < MaxMaps
         /\ t' = [vfs_retain(t, h) EXCEPT !.proc[p].maps[h] = @ + 1]

\* vm_unmap of a whole mapping
sys_munmap(p) ==
    /\ Calling("mmap", p)
    /\ \E h \in Handles :
         /\ t.proc[p].maps[h] > 0
         /\ t' = [vfs_close(t, h) EXCEPT !.proc[p].maps[h] = @ - 1]

\* process_fork: the child shares the descriptors and the mappings; not the
\* transfers.  When an allocation fails the child is undone.
process_fork(p) ==
    /\ Calling("fork", p)
    /\ \E q \in Procs, outcome \in ForkOutcomes :
         /\ t.proc[q] = NoProcess
         /\ LET child == [t.proc[p] EXCEPT !.parent = p, !.incoming = <<>>]
                held == FoldSet(LAMBDA f, acc : vfs_retain(acc, child.fds[f]), [t EXCEPT !.proc[q] = child],
                                OpenFds(p))
                mapped == FoldSet(LAMBDA h, acc : FoldSet(LAMBDA i, a : vfs_retain(a, h), acc, 1..child.maps[h]),
                                  held, Handles)
            IN t' = CASE outcome = "ok" -> mapped
                      [] outcome = "mappings" -> [close_process_fds(held, q) EXCEPT !.proc[q] = NoProcess]
                      [] outcome = "stack" -> [vm_destroy_all(mapped, q) EXCEPT !.proc[q] = NoProcess]

\* process_exec_current: close-on-exec descriptors and all mappings go.
process_exec_current(p) ==
    /\ Calling("exec", p)
    /\ t' = vm_destroy_all(FoldSet(LAMBDA f, acc : process_forget_fd(acc, p, f), t, t.proc[p].cloexec), p)

\* process_exit_current
process_exit_current(p) ==
    /\ Calling("exit", p)
    /\ LET closed == close_process_fds(vm_destroy_all(t, p), p)
           dropped == CloseSeq(closed, t.proc[p].incoming)
       IN t' = [dropped EXCEPT !.proc[p] = NoProcess]

Next ==
    /\ UNCHANGED calls
    /\ \E p \in Procs :
        \/ sys_open(p) \/ sys_pipe(p) \/ sys_dup(p) \/ sys_dup2(p) \/ sys_close(p) \/ sys_fcntl(p)
        \/ PipeRead(p) \/ PipeWrite(p) \/ sys_fd_send(p) \/ sys_fd_recv(p)
        \/ EpollAdd(p) \/ EpollDel(p) \/ sys_mmap(p) \/ sys_munmap(p)
        \/ process_fork(p) \/ process_exec_current(p) \/ process_exit_current(p)

Spec == Init /\ [][Next]_vars

-----------------------------------------------------------------------------
(* Properties.                                                             *)

\* The tables hold values of their types and the bounded ones their bounds.
TypeOK ==
    /\ t.file \in [Handles -> [kind : {"free", "file", "reader", "writer", "epoll"}, refs : Nat,
                               pipe : Pipes \cup {0}, watches : SUBSET (Handles \cup {Console})]]
    /\ t.pipe \in [Pipes -> [used : BOOLEAN, readers : Nat, writers : Nat, count : 0..PipeCapacity]]
    /\ \A p \in Procs :
         /\ t.proc[p].fds \in [Fds -> Handles \cup {None, Console}]
         /\ t.proc[p].cloexec \subseteq Fds
         /\ t.proc[p].incoming \in Seq(Handles \cup {Console}) /\ Len(t.proc[p].incoming) <= MaxTransfers
         /\ t.proc[p].maps \in [Handles -> Nat]

\* How many descriptors, transfers, mappings and watches refer to h
Holders(h) ==
    Cardinality({<<p, f>> \in Procs \X Fds : t.proc[p].fds[f] = h})
    + Cardinality({<<p, i>> \in Procs \X (1..MaxTransfers) :
                      i <= Len(t.proc[p].incoming) /\ t.proc[p].incoming[i] = h})
    + MapThenSumSet(LAMBDA p : t.proc[p].maps[h], Procs)
    + Cardinality({e \in Handles : h \in t.file[e].watches})

\* The reference count of an open handle is the number of things that refer
\* to it, and a freed entry has none: no early free, no leak through any
\* order of dup, transfer, mapping, watch, fork, exec and exit.
RefsMatch ==
    \A h \in Handles : t.file[h].refs = Holders(h) /\ (t.file[h].kind = "free" <=> t.file[h].refs = 0)

\* A pipe counts the references to its two ends, so end-of-file and EPIPE
\* mean that the other end is gone, and it lives as long as one of them.
PipeEnds ==
    \A i \in Pipes :
        LET refs(kind) == MapThenSumSet(LAMBDA h : IF t.file[h].kind = kind /\ t.file[h].pipe = i
                                                   THEN t.file[h].refs ELSE 0, Handles)
        IN /\ t.pipe[i].readers = refs("reader") /\ t.pipe[i].writers = refs("writer")
           /\ t.pipe[i].used <=> t.pipe[i].readers + t.pipe[i].writers > 0

\* End of file and EPIPE are final: once nobody can write to a pipe (or read
\* from it) nobody ever can again, whatever descriptors are duplicated, inherited
\* or still on their way to another process, and no data comes after the end.
EndsFinal ==
    [][\A i \in Pipes : t.pipe[i].used /\ t'.pipe[i].used =>
           /\ t.pipe[i].writers = 0 => t'.pipe[i].writers = 0 /\ t'.pipe[i].count <= t.pipe[i].count
           /\ t.pipe[i].readers = 0 => t'.pipe[i].readers = 0]_vars

\* When no process is left, no handle is left: everything is released.
\* The code does not keep this (README, section 3).
NoLeak == (\A p \in Procs : ~t.proc[p].alive) => \A h \in Handles : t.file[h].kind = "free"

\* Only descriptors that are open are marked close-on-exec, so that a later
\* owner of the slot does not lose it at exec.
CloexecOpen == \A p \in Procs : \A f \in t.proc[p].cloexec : t.proc[p].fds[f] # None

\* Reference counts are exact (RefsMatch), a pipe counts its ends, and only an
\* open descriptor is marked close-on-exec, in tables that have their types.
HandlesConsistent == TypeOK /\ RefsMatch /\ PipeEnds /\ CloexecOpen
=============================================================================
