# A TLA+ verification of NPKernel

NPKernel is a small monolithic x86_64 kernel. This directory holds TLA+ models of
the parts of it whose correctness depends on the order of events, the TLC runs
that check them on small instances, and proofs that the TLAPS proof system checks
for every instance. Every definition is translated from the C source;
`PROJECT.json` maps each to the lines it stands for. File names below are relative
to the repository's `src/` directory; documents (`*.md`), `include/` and `arch/x86_64/` are at its root.

## 1. The system and what is hard about it

One CPU, the boot processor, runs everything; the other processors are started and
halt for good. What can happen between two instructions depends on where the CPU is:

| context | interrupts | can be preempted by |
|---|---|---|
| user mode | on | timer, keyboard, mouse, ACPI |
| system call, page fault | off | nothing, until it returns or calls `scheduler_yield` |
| `poll`, `nanosleep`, `epoll_wait` between two scans | on (in `timer_sleep_ticks`) | interrupt handlers, but the timer switches no thread: the frame is a kernel one |
| idle thread, main loop of `kernel.c` | on | interrupt handlers, also in the middle of `usb_poll` |
| interrupt handler | off | nothing |

A system call is therefore one step of the models, unless it gives the CPU away.
The concurrency is between processes and threads (from call to call), between the
kernel and interrupt handlers, between the driver and the USB controller, which
works beside the CPU, and between the disk and a power failure.

| part (source) | state | operations | what is hard |
|---|---|---|---|
| processes, threads, scheduler (`proc/process.c`, `arch/x86_64/entry.asm`) | thread and process tables, futex slots, saved frames | fork, clone, execve, exit, wait4, futex, yield, tick | two kinds of saved frame; who is woken; zombies claimed and reaped later; blocked callers resume past the code that follows the block |
| signals (`proc/process.c`, `syscall/syscall.c`) | pending and blocked sets, payload queue, actions, the handler in progress | kill, tgkill, sigqueue, sigaction, sigprocmask, sigreturn, faults | set and queue in step; when delivery happens; masks combined, saved and inherited |
| handles (`fs/vfs.c`, `syscall/syscall.c`) | handles with counts, descriptors, transfers, epoll watches, pipes | open, dup, pipe, close, fork, exec, exit, send, epoll, mmap | counts over all kinds of reference, also when a call fails half-way |
| memory (`memory/pmm.c`, `vmm.c`, `vm.c`) | frames with counts, page tables, mappings | mmap, munmap, mprotect, brk, fault, fork, execve, exit | copy on write against mprotect; running out of frames at any level |
| kernel heap (`memory/heap.c`) | list of blocks, mapped size, free count | kmalloc, kcalloc, kfree, growth | long sequences of splits and merges; growth that fails half-way |
| NPKFS (`fs/vfs.c`, `drivers/ata.c`) | two slots of superblock and inodes, marker, data areas, whole-file buffers of descriptors | mount, open, create, read, write, truncate, fsync, sync, close | power loss between and within sectors; failed requests; repeated crashes; private buffers written back late |
| paths and directories (`fs/vfs.c`, `syscall/syscall.c`) | initramfs entries, current directory, directory offset | open, chdir, getdents64 | `..` at the root; directories implied by file names; listing in pieces while files are made |
| device manager (`device/device_manager.c`) | drivers, devices, the catalog | register, load, bind, probe | a probe registers devices and re-enters the loop that called it |
| xHCI driver (`drivers/xhci.c`) | DMA pages, rings, cycle bits, slots | start, stop, quarantine, commands, transfers, polling | memory a controller still reaches; ownership by cycle bit over laps; late answers; events of another device |
| USB descriptors (`drivers/usb.c`, `usb_generic_keyboard.c`) | the interface being parsed | identify a device, choose a keyboard, read its report descriptor | descriptors in any order and number |
| terminal (`drivers/keyboard.c`, `syscall/syscall.c`) | byte queue, one waiter, one line buffer | key, read, mode, poll | sleeping in the middle of a line; lost wakeups; full queue |
| input events (`drivers/keyboard.c`, `mouse.c`, `usb_generic_keyboard.c`, `gop.c`) | event ring, keys held, display owner | reports, interrupts, claim, release, read | filling the ring from interrupts and from the idle loop; full ring |
| ELF loader, exec staging (`exec/elf.c`, `proc/process.c`) | a staged address space | validate, load, roll back | sums that wrap; pages shared by segments; undoing a partial load |
| catalog parser (`device/device_config.c`) | categories and products | parse, resolve | nesting and capacities at their limits |
| PCI, ACPI | tables | read at boot | nothing that outlives boot |
| SMP bring-up (`smp.c`) | online count | start, come online | counting with a bounded wait |
| console, font, VGA, log, procfs, panic | cursor, nothing | output | nothing that outlives a call |

`PROJECT.json` lists all parts with their status, and the hazards, each at its line
with the properties that would catch it.

## 2. Modules

Tables of the kernel that one C function changes together are one record (`k`, `t`,
`s`); a C function is an operator from record to record, and a system call composes
them in the order of the code. Most modules have a constant set of *workloads* (of
*machines*, where devices differ) and a variable, chosen in `Init` and never changed,
that says which one a behaviour follows: the system calls its programs make, the signals
or mappings they use, how reliable its devices are. A workload selects actions and
inputs; it never changes what an action does. One run thus explores several scenarios,
each small enough to be explored completely. `MC` modules define the workloads.
The abstractions of each module are stated in its header.

| module | models | abstract counterpart |
|---|---|---|
| `Process` | scheduler, process lifecycle, futexes | |
| `Signals` | signals | |
| `Handles` | handles and references to them | |
| `Elf` (proofs in `ElfProofs`) | what the ELF loader accepts and the pages it makes | a byte-by-byte reference in `Elf` |
| `Memory`, over `Elf` | frames, page tables, copy on write, brk, execve | `AddressSpace` |
| `Heap` (proofs in `HeapProofs`) | kernel heap | |
| `Npkfs` (proofs in `NpkfsProofs`) | file system metadata | `MetaStore` |
| `Files`, over `Npkfs` (proofs in `FilesProofs`) | open persistent files and their data | |
| `Vfs`, over `Files` | initramfs, paths, directories | |
| `DeviceManager` (proofs in `DeviceManagerProofs`) | driver binding | |
| `DeviceCatalog` | the catalog parser | the document tree, in `DeviceCatalog` |
| `UsbConfig` | reading a device's descriptors | a definition by interfaces, in `UsbConfig` |
| `XhciProbe` (proofs in `XhciProbeProofs`) | starting and giving up a controller, DMA pages | |
| `Xhci`, over `XhciProbe` and `UsbConfig` (proofs in `XhciProofs`) | host controller driver beside the controller | `XhciProbe` |
| `Tty` | terminal input | |
| `InputEvents` | structured input, display ownership | |

**Process.** A thread is a record of its state, saved frame and what it waits for; a
process has its thread count, `wait_*` fields and the pid it is to reap. `Tick` is
`scheduler_preempt` called from the timer. Frames are abstracted to their kind (interrupt,
SYSCALL, materialised, none) and the value of RAX that the thread will see. `space` names an
address space by its root frame, in a thread's saved CR3 and in a futex waiter: execve and exit
destroy the space, whose frame may become the root of any later one while it is still named.
`process_activate`, at the end of execve, makes the main thread of the process the current one.
The status of a child may fail to be copied to the parent that wait4 had put to sleep.

**Signals.** Delivery happens exactly where the code does it: at the end of the calls
that send or unmask, at `rt_sigreturn`, and on resumption from an interrupt frame. A
payload is its number in the order of sending.

**Handles.** Each table entry has its stored count; the properties compare it with the
references counted from descriptors, transfers, mappings and watches; an epoll handle may watch
another. `EndsFinal` says that a pipe whose last writer or reader is gone stays so. `vfs_close` closes
the watches of an epoll handle recursively, so the module has a RECURSIVE operator and
is only model-checked.

**Memory.** The page-table tree keeps a root, middle tables and last-level tables, so
that allocation can fail at each level. Values are what programs wrote last. `AddressSpace`
says what programs may rely on; `PrivateMemories` is its specification under the mapping
that reads a page through the tables, as a fault would. `stage_exec_image` is one step, as
in the code: it loads the image, the interpreter and the stack into a space of its own page by
page (a fold that may run out of frames at each), and either replaces the old space or gives
everything back.

**Elf.** Words have `Word` values and wrap; pages have `PageSize` bytes. A byte of a loaded page
is the number of the byte of the file it came from, so that a byte at a wrong place is seen.
`LoadedAsLinked` compares acceptance and pages with a reference in plain numbers. The limits of the
interpreter's path and of the entries of the dynamic table are the constants `InterpMax` and `DynamicEntry`.

**Heap.** Addresses are offsets; a block is the address of its header. `kheap_validate`
is the kernel's own integrity check. In half of the behaviours pages can run out.

**Npkfs.** A commit is a sequence of sector writes; each may be torn by a power loss or
fail. A checksum is the value it was computed from. `MetaStore` says that the disk holds
the table of the last completed commit or of one attempted since; `MetadataAtomic` is its
specification.

**Files** adds to the steps of `Npkfs` what they do to data areas, and the system calls that
start them. A descriptor has its own copy of the whole file. The history variable `promise`
holds, for each file, the size and block contents that calls which returned 0, or failed or
were cut short since, allow to be found.

**Vfs** adds paths, as sequences of components, and one open directory. `PathsAgree` compares
`canonicalize_path` with a definition by counting, and listings with what can be opened.

**DeviceManager.** The C call stack is a variable: `bind_device`, its probe, and the
registrations a probe makes are frames, so that loops are seen standing over tables that
grow. **DeviceCatalog** is a recursive-descent parser over tokens, in which a string has kinds
that only one of `parse_json_string` and `skip_json_string` accepts; `ReadAsWritten` says that it accepts the text of a document tree exactly if the tree is a sound catalog and then yields
its entries. `MCDeviceManager` composes the two: the catalog of the run is what the parser
makes of a document.

**Xhci.** Entries of rings are written in the order of the code's stores. The controller
is an environment process (its definitions are marked external); it takes an entry when
its cycle bit says so and its doorbell was rung. Enumeration is one request at a time, and
which request comes next is what **UsbConfig** makes of the device's descriptors. The steps
that start the controller, allocate pages and give up are those of **XhciProbe**, in which
only the pages, what each controller may reach, and the outcome of waits are left. Between two
calls of `usb_poll` the driver is `"away"`; a report may arrive shorter than a boot report, and is
then not handed on but asked for again.

**Tty** and **InputEvents.** Interrupt handlers are steps; the idle loop's filling of the
event ring is three (read the head, store, advance), between which interrupts happen. Keys of the
USB keyboard are HID usages, and `usb_usage_to_keycode` is the code's table for usages of each kind:
two usages may have one code, and some have none and make no event. `HeldKnown` therefore says what
the owner of the display can know: of a key whose last event it has read, whether it is held, unless
the key shares its code. An event that the full ring refuses, that a claim clears or that a failed
copy of `sys_input_read` loses spoils this for its own key until its next event and for no other.

## 3. Runs

The passing runs:

| run | properties | workloads and bounds |
|---|---|---|
| `process` | `TablesConsistent`, `ReportedOnce`, `NoLostWaiter`, `NoStarvation` | processes that fork, execute programs, wait and exit until slots are reused (3 processes, pids to 6, so grandchildren and two zombies at once); one process whose threads join and time out (3 user threads, timeouts of one tick); one with a child whose threads also fork and call execve; all calls but that together, so that wait4, futex waits and poll meet in one process |
| `handles` | `HandlesConsistent`, `EndsFinal` | 2 processes, 3 descriptors, 2 handles. Pipes of capacity 1 with dup, transfers and fork; dup2 with fork and exec; epoll and mappings with fork and exec. A fork may fail when it copies the mappings |
| `signals` | `SignalsConsistent`, `LowestFirst`, `NotDropped`, `SentToOpenThread` | 2 realtime signals, queue of 2, 3 payloads, so the queue overflows, with a handler that masks the other signal; SIGKILL and SIGSEGV with 2 threads in up to 2 processes and every way to block, fault and end |
| `signal_delivery` | `Delivered` | 2 processes, without calls that sleep |
| `memory` | `FramesConsistent`, `ImagesAsLinked`, `PrivateMemories` | 2 processes and 2 pages; 3 generations, a page and a shared object; 3 pages and 7 frames, where every allocation of a fault can be the one that fails; execve with fork and brk over 2 and 3 processes; execve of plain and dynamic images with 4 to 20 frames, so that staging fails at each page. 64-value words and 4-byte pages; 18,305 images of one or two segments or with an interpreter or dynamic table, around every boundary, are validated, and those accepted are executed |
| `files` | `FilesConsistent`, `WrittenIsFound`, `ListedOnce`, `PathsAgree`, `MetadataAtomic` | 2 files of 2 blocks, 4 generations, 4 calls that write, one fault of any kind per completed commit: one descriptor with every call and fault; two descriptors on one or two files; an archive with directories, a link, a damaged entry and more files than fit, listed in pieces while files are made |
| `device_binding` | `IInv`, `ProbedOnce`, `NothingMissed`, `CatalogAsWritten`, `BoundStays`, `Returns` | 3 devices, 3 drivers, one of them a host controller's; catalogs in which one value, member, entry or nesting differs from a usual one, with every capacity met and exceeded |
| `heap` | `BlocksConsistent`, `Valid` | 4 pages; requests that fit exactly, split and need growth; growth that fails at any page |
| `tty` | `TtyConsistent`, `LinesAsTyped`, `ReadReturns` | queue and line of 4 bytes, which 6 keys fill, with all keys; 4 keys with mode switches at any time; reads of 1 and 9 bytes |
| `xhci` | `RingsConsistent`, `RightAnswer`, `OnlyKeyboards`, `ProbeSafe`, `TakenInOrder`, `AllReceived` | 2 controllers, one left running by the firmware; transfer rings of 5, event ring of 3, 5 and 7 reports: several laps of each; transfers that fail or are late, machines where none is, and one short report in each; the keyboard on either of two ports; start-up that fails at every wait, and with every number of free pages from 0 to 16; devices that differ from a keyboard in one field, in the order and number of their descriptors, or in the items of their report descriptor |
| `input_events` | `InputConsistent`, `InOrder` | ring of 4, 2 processes, reads of 2 events; 3 reports of a USB keyboard with a letter, Caps Lock and Shift, of one with two keys of one code and a key of none, 2 of keyboards with keys told apart by the extended flag or by the event's code; 4 scan codes of a PS/2 keyboard, 7 inputs of one with a mouse |

The invariants named `...Consistent` are conjunctions of a module's type invariant and of
the invariants that relate its tables; each conjunct is a definition with its own comment.
Each property of a passing run has a mutant in `PROJECT.json`: a change to one definition
of the kind a plausible mistake in the code would be, under which TLC finds the property
violated.

The bounds are the smallest at which each thing a property speaks of happens more than
once and each table of the model overflows, wraps or has a slot reused.

Deadlock is checked for `Process`, `Heap`, `Vfs` (with `Files` and `Npkfs`) and `DeviceManager`. In the others
the system may come to rest: all processes have exited, no more keys are typed, no more
reports are sent (these are bounded), or every thread sleeps.

### Where the code does other than the documents say

The run `frame_kinds` (property `FramesNotMixed`) shows one disagreement: the timer
resumes a thread from a SYSCALL frame as if it were an interrupt frame. `PROJECT.json`
quotes the line. Its programs fork, wait and exit, the commonest way to be in such a frame. Modelling met others. Each is a property of a module that TLC finds
violated when the configuration named is changed as the table says; they are why some
combinations are missing from the workloads above.

| module, configuration | change | property violated | shown |
|---|---|---|---|
| `MCProcess.cfg` | none | `ResumedFromSavedFrame` | after `sched_yield` a thread is resumed from a frame with the kernel's CS (`proc/process.c:1659`; `include/npk/process.h:56`) |
| `MCProcess.cfg` | none | `FutexResultReturned` | the result of a futex wait that blocked never reaches the caller (`proc/process.c:550`; `docs/user-abi.md:80`) |
| `MCProcess.cfg` | none | `ExitWakesWaiter` | a child's exit wakes a futex waiter in place of the wait4 caller (`proc/process.c:720`; `README.md:64`) |
| `MCProcess.cfg` | none | `InOwnSpace` | execve by one of several threads leaves the others on the destroyed address space (`proc/process.c:1229`; `docs/syscalls.md:109`) |
| `MCProcess.cfg` | none | `OnlyCurrentRuns` | a thread other than the main one that calls execve stays RUNNING, never to be chosen again, and the new program continues as the main thread (`proc/process.c:1226`, `1413`; `docs/syscalls.md:109`) |
| `MCProcess.cfg` | calls clone, poll, write | `ThreadsRunDuringPoll` | no other thread runs while one waits in `poll` (`arch/timer.c:35`; comment at `syscall/syscall.c:756`) |
| `MCHandles.cfg` | `ForkOutcomes` with "stack" | `RefsMatch` | a fork that fails late leaves reference counts too high (`proc/process.c:1317`; `docs/phase-signal-vm-fd-audit.md:15`) |
| `MCHandles.cfg` | none | `NoLeak` | epoll handles that watch each other are never freed (`fs/vfs.c:883`; `docs/security-report-triage.md:14`) |
| `MCSignals.cfg` | execve added to `Queueing` | `QueuedIsPending` | exec clears the pending set but not the payload queue (`proc/process.c:1206`; `docs/verification.md:136`) |
| `MCSignals.cfg` | `ActionMasks = {{9}}` | `KillNotMasked` | a handler's mask can block SIGKILL (`proc/process.c:321`; `docs/phase-signal-vm-fd-audit.md:9`) |
| `MCSignals.cfg` | none | `ResultKept` | a call that delivers a signal returns its own number (`proc/process.c:425`; `docs/user-abi.md:19`) |
| `MCDelivery.cfg` | futex_wait added | `Delivered` | an interrupted futex wait returns without delivery (`proc/process.c:1673`; `docs/kernel-completion-plan.md:39`) |
| `MCDelivery.cfg` | SIGKILL added | `KillEnds` | SIGKILL waits for the handler to return (`proc/process.c:387`; `docs/phase-signal-vm-fd-audit.md:9`) |
| `MCMemory.cfg` | mprotect and "rx" added to `Forking` | `WriteXorExecute` | a page becomes writable and executable (`memory/vm.c:529`; `docs/syscalls.md:92`) |
| `MCMemory.cfg` | mprotect and "r" added to `Forking` | `PrivateMemories` | a page read-only at fork is later shared writable (`memory/vmm.c:109`; `docs/user-abi.md:90`) |
| `MCMemory.cfg` | `Forking` with 3 pages, 14 frames | `PrivateMemories` | fork succeeds with part of the memory missing (`memory/vmm.c:90`; `docs/syscalls.md:108`) |
| `MCHeap.cfg` | none | `kheap_validate` | a growth that fails half-way fails the integrity check for good (`memory/heap.c:40`; `kernel.c:82`) |
| `MCVfs.cfg` | `MaxFaults = 2`, `Alone` with power losses only | `MetadataAtomic` | a second power loss, in the commit after a recovery, brings back an older table or none (`fs/vfs.c:267`; `docs/kernel-completion-plan.md:31`) |
| `MCTty.cfg` | two threads, `Editing` only | `CompleteLines` | a second reader is given an unfinished line (`syscall/syscall.c:317`; `docs/syscalls.md:62`) |
| `MCTty.cfg` | two threads | `ReaderWoken` | of two blocked readers one is forgotten (`drivers/keyboard.c:332`; `agent.md:94`) |
| `MCTty.cfg` | none | `PollAgrees` | poll and read disagree about the terminal (`fs/vfs.c:822`; `docs/syscalls.md:68`) |
| `MCXhci.cfg` | none | `NotAbandoned` | enumeration throws away the report of a keyboard on an earlier port (`drivers/xhci.c:307`; `docs/usb-xhci-design.md:18`) |
| `MCXhci.cfg` | `Late = TRUE` | `TakenInOrder` | an entry is handed over before it is written, every second lap (`drivers/xhci.c:748`; `docs/usb-xhci-design.md:14`) |
| `MCXhci.cfg` | a machine with `slow` = {"cmd"} | `RightAnswer` | the late completion of a command is taken for the next one's (`drivers/xhci.c:344`) |
| `MCInputEvents.cfg` | a USB keyboard and a mouse in one machine | `InOrder` | an interrupt in the idle loop's enqueue loses an event (`drivers/keyboard.c:77`; `docs/usb-xhci-design.md:10`) |

Modelling also met behaviour that no document speaks of, or that only a definition of a
module shows:

* A write, fsync, sync or close through a descriptor writes back its whole buffer, so that of
  two descriptors of one file the later undoes the other's writes (`fs/vfs.c:812`).
  `WrittenIsFound` leaves such files out (`mixed`). For the same reason a power loss during any
  write-back, a reader's close included, may tear a block that no call changed.
* After a write that failed, size and offset of the descriptor go back, but the in-memory inode
  keeps the new size (`fs/vfs.c:761`); the next commit of any file writes it out.
* A call of getdents64 that fails for a buffer too small or not writable has passed the
  entries; they are not returned again (`fs/vfs.c:1076`, `syscall/syscall.c:199`). `ListedOnce`
  excepts them.
* `interpreter_field_valid` does not see the last component of the path whole: it accepts a
  last `..` and refuses a last `..x` (`exec/elf.c:96`; `docs/elf-adversarial.md:31` says that no
  component is `..`). A path of exactly `NPK_ELF_INTERP_MAX` bytes passes `elf64_validate`, but
  does not fit the buffer of `stage_exec_image`, which then refuses the program (`exec/elf.c:188`).
* An image with a writable segment on the stack's page has the arguments written over it.
* `skip_json_value` takes stray characters as a value (`device/device_config.c:214`), so some
  texts that are no JSON are accepted; the documents of the run are trees, and `ReadAsWritten`
  is about those.
* Two USB keys with one code (the backslashes 0x31 and 0x32, `drivers/keyboard.c:112`) make events
  that cannot be told apart: the release of one looks like that of both. `sys_input_read` takes
  events from the ring before it copies them, so that a failed copy loses them
  (`syscall/syscall.c:1023`).
* execve keeps `clear_child_tid` and the futex waiters of the process; a workload with clone and
  execve therefore does not claim that a join is not missed.

### Fairness

* `Process`, `Signals`: weak fairness of the tick (the timer interrupt keeps coming),
  and in `Signals` of the rest of a kernel entry. Programs need not make calls.
* `DeviceManager`: weak fairness of a call in progress: probes return.
* `Tty`: weak fairness of each reader that is awake; the scheduler's part in that is
  `NoStarvation` in `Process`. Nothing is assumed of who types.
* `Xhci`: weak fairness of the driver's steps inside a call, and of the controller on each ring.
  That `usb_poll` is called is not assumed: the idle and main loops and `poll()` call it, but a
  program that never blocks keeps them from running. `AllReceived` has it as a premise. It excepts
  a report lost while a device on a later port was enumerated (`NotAbandoned` above). Nothing is assumed of the keyboards.
* The other modules state no liveness.

## 4. Proofs

`DeviceManagerProofs` proves for every set of drivers, devices, identities, every
matching relation, catalog and table size (`DeviceManagerAssumption`, which restricts
the number of drivers to the 32 bits of `attempted_driver_mask`):

| theorem | statement |
|---|---|
| `Invariance` | `Spec => []IInv` |
| `TypeCorrect` | `Spec => []TypeOK` |
| `NeverProbedTwice` | `Spec => []ProbedOnce` |
| `BoundCorrectly` | `Spec => []BoundToMatch` |
| `AllServed` | `Spec => []NothingMissed` |
| `BoundForGood` | `Spec => BoundStays` |

None of the last five is inductive: they speak of the tables, and what a step does to the tables
depends on the calls in progress, of which there may be any number, nested. The inductive
invariant `IInv` (in `DeviceManager`, and checked by the run `device_binding`) adds what
the stack means:

* `MaskIsHistory`: the attempted mask of a device is exactly the set of drivers that
  probed it, each once;
* `BindsInProgress`: a bind call that has come to driver *i* has tried every candidate up
  to *i*, and its device is not bound;
* `BoundByOne`: no two calls on the stack bind the same device, so that an inner call
  cannot overtake an outer one;
* `LoopsOutermost`: a loop over the devices is the outermost call;
* `ServedOrPending`: a device is bound, has been offered to all its candidates, or some
  call in progress will still look at it. With an empty stack this is `NothingMissed`.

There is one lemma per action (`RegisterDriver`, `RegisterDevice`, `LoadConfig`,
`LoopReturns`, `LoopGoesOn`, `BindReturns`, `Succeeds`, `Fails`, `GoesOn`, `Probes`), each with one step per
conjunct; `PushFacts`, `TailFacts` and `ReplaceFacts` say what the three operations on the
stack do to it.

`XhciProbeProofs` proves for every set of controllers and pages, every number of pages asked
for, every limit and every machine (`XhciProbeAssumption`) that `ProbeSpec => []ProbeSafe`:
a page that a controller which may be running can reach is held by the driver and not free, and
between probes nothing is held without a reason. `ProbeSafe` is not inductive; `ProbeIInv` adds
what each phase of a probe knows:

* `OthersKnowNothing`: only the controller being started, and only once a start was attempted,
  reaches any page;
* `PhaseInv`: no page is held before `allocate_controller_dma`; the controller is halted from
  its reset until it is started; `start_attempted` and `xhci_quarantined` say which controllers may
  still run, so that pages are freed only when none of them reaches one.

`XhciProofs` proves that the whole driver, with rings, requests and reports, implements this
small specification: `Implements` is `Spec => ProbeSpec`, under the identity on the shared
variables (`StepRefines`: every step is one of `ProbeNext`, or leaves `probe` alone;
`AnsweredGrows`: answers to requests allocate pages only by `Grow`). `DriverIsSafe`
(`Spec => []ProbeSafe`) follows, without a second look at the rings.

`ElfProofs` proves for every word size, page size and address range (`ElfAssumption`: sizes are
positive, the bounds are page-aligned and in order, and a page fits above the user's range):

| theorem | statement |
|---|---|
| `AcceptedIsWellPlaced` | an image that `elf64_validate_at_bias` accepts is `WellPlaced` |
| `PagesAreCovered` | the pages loaded for an accepted segment are those that hold a byte of it, each once |
| `PageAsLinked` | each byte of such a page is the file's byte for its address, or 0 |

The statements are in plain numbers, the checks in words that wrap. `NoWrap` bridges them: for
an accepted segment no sum of the loader wraps, and the pages are where the plain numbers say.
`Apart` turns the comparison of `load_segments_overlap` into disjointness of pages, with the
division lemmas at the top of the module. That the number of pages is within `MaxElfPages`
(a fold) and the converse, that sound images are accepted, are only model-checked.

`HeapProofs` proves for every alignment, header, page and window size and all sets of requests
(`HeapAssumption`: sizes are positive, headers and pages are aligned, a page holds more than a header):

| theorem | statement |
|---|---|
| `HeapConsistent` | `Spec => []BlocksConsistent` |
| `HeapValid` | `Spec => []Valid` |

`BlocksConsistent` (blocks do not overlap, one list runs through all of them, a pointer can be freed
exactly while it is in use) also holds when pages run out; `Valid` (`kheap_validate` succeeds and no two
neighbours are both free) as long as no growth has failed half-way. The inductive invariant says that
the links agree in both directions, that each block ends where the next begins or before, that the
allocations in use are in distinct taken blocks, and that `heap_free` is the sum of the free blocks.
`kheap_validate` is a loop, in the model an iteration over the list; its theorem is proved by induction over
the number of blocks walked. The step from *n* to *n* + 1 is proved of a set of numbers, from the
well-foundedness of `<` (`LeastNatural`, `Induction`), and what the loop has counted is a sum over the
blocks behind it (`RunsAgree`, `RunsExist`).

`FilesProofs`, with what concerns the metadata in `NpkfsProofs`, proves for every number
of files, data areas, blocks, descriptors and generations, all contents, modes and workloads (`NpkfsAssumption`, `FilesAssumption`; `MarkersAssumption` and `FreeAssumption` say that the
values that stand for a blank or torn sector, no inode, no table and no descriptor are no other values):

| theorem | statement, if `MaxFaults <= 1` |
|---|---|
| `FilesAreConsistent` | `FilesSpec => []FilesConsistent` |
| `WrittenIsAlwaysFound` | `FilesSpec => []WrittenIsFound` |
| `StoreIsAtomic` | `FilesSpec => MetadataAtomic` |

`MaxFaults <= 1` says that after a fault the next one comes after a commit was completed. It is needed: with
two faults the code may mount an older table, or format a disk that holds files (section 3). The theorems are stated for `FilesSpec`; the run checks the same properties of `VfsSpec`.
By the definition of `VfsNext` each of its steps is one of `FilesNext` or leaves `allVars` alone, so they carry over;
that last argument is not itself a theorem here. The inductive invariant has three parts.

* `NInv`, the metadata. `Progress`: the sectors before the current step of a commit hold the new table.
  `Fresh`: without a fault since the last completed commit, the disk is blank or both slots are complete with
  equal superblocks; while a commit writes the backup the primary slot stays as it was, and while it writes
  the primary that superblock's generation is below the new one. This makes the first fault harmless
  (`CutShort`: whichever sector is torn or not written, a mount finds a candidate). Whenever no commit is
  running the disk is `Recoverable`: a mount chooses one of the tables the disk may hold, and formats only if
  the empty table is the only one.
* `FInv`, the calls: which job a call waits for, that its descriptor is open, that during its commit the
  inode has the descriptor's size, and that a rollback only runs after a fault, so that no second one can hit it.
* `WInv`, the contents. What calls promise is matched in three places: in memory (`InMemory`; a file being made
  counts as cleared before its area is), in every table that the disk may hold (`OnDisk`) and in every descriptor
  (`InBuffers`). `Extends` keeps them together: a file of any of those tables has the same area in memory, so
  that writing an area never damages another file of a table that may yet be mounted. `Changing` says what a
  write in progress has put where, and that nobody else has the file open. Files in `mixed` are excepted
  throughout, as they are in `WrittenIsFound`.

`AreaWritten` is the lemma about data: a write of an area, whole, cut short or torn, leaves each file as its promise
allows. `StoreStep` maps each step to one of `MetaStore`: a mount to `Mount`, the calls to `Edit`, the beginning
of a commit to `Attempt`, its last sector to `Ack`, a failure to `Fail` or, for the rollback, `Attempt`, a power
loss to `Stop`, everything else to a step that changes nothing.

Only model-checked: `Returns` and every other liveness property (outside the prover's
reach), everything about `Handles` and `DeviceCatalog` (recursive operators), what the folds of
`Vfs`, `UsbConfig` and `Memory` compute, and with them `PathsAgree`, `ListedOnce`, `OnlyKeyboards` and
`ImagesAsLinked`, the refinement of `AddressSpace`, and for now the invariants of `Process`, `Signals`, `Memory`,
`Tty`, `InputEvents` and of the rings of `Xhci`.

## 5. Not modelled

* PCI, ACPI: boot-time table walks; afterwards a stateless test of one register.
* Drawing, fonts, VGA, log, panic, procfs: output only.
* SMP: processors other than the first halt and share nothing. That no two of them use the
  same descriptor tables depends on the order of the boot loader's list (`smp.c:68`,
  `arch/gdt.c:75`), which is not in this repository.
* User programs: the models let programs make any call at any time.
* Within the modelled parts, each module's header says what it leaves out; the larger
  omissions are device mappings and the display's framebuffer, the splitting of memory regions,
  the limit on how far the stack grows at a time, xHCI context layouts and port power, reads of
  initramfs files, and failures of the kernel heap inside other components.

## 6. What could follow

Proofs of `HandedOver` and `EventsSeen` for `Xhci`; `QueuedIsPending` for `Signals` without exec; the
thread-table invariants of `Process`. A model of the display lease:
claim, device mapping, release, fork and exit.
