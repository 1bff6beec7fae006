-------------------------------- MODULE Files --------------------------------
(***************************************************************************)
(* Open persistent files (src/fs/vfs.c) over the metadata store of module  *)
(* Npkfs.  A descriptor has a buffer of its own with the whole file, read  *)
(* when the file is opened and written back, whole, by every write, fsync, *)
(* sync and by the last close, readers included.                           *)
(*                                                                         *)
(* A block stands for the bytes of one sector of a file and is the unit of *)
(* offsets and sizes.  A system call runs with interrupts disabled, so only *)
(* a power loss can come between its steps.  A call that returns an error  *)
(* and changes nothing is a stuttering step.  References to a descriptor   *)
(* (dup, fork) are counted in module Handles.                              *)
(***************************************************************************)
EXTENDS Npkfs, FiniteSetsExt

CONSTANTS FileBlocks,  \* PERSIST_DATA_SECTORS
          MaxOffset,   \* bound on file offsets
          MaxFds,      \* MAX_OPEN_DESCRIPTORS
          Zero,        \* the contents of a block of zeros
          Free         \* a descriptor that is not in use

\* A workload also says what programs do: the values they write, the ways they
\* open, the calls they make, how many files and descriptors they use, and how
\* many calls they make that write to the disk.

Blocks == 1..FileBlocks
Fds == 1..MaxFds
Written == UNION {w.values : w \in Workloads}
Calls == {"read", "write", "lseek", "fsync", "sync", "close"}
Modes == [read : BOOLEAN, write : BOOLEAN, creat : BOOLEAN, trunc : BOOLEAN, append : BOOLEAN]

ASSUME FilesAssumption ==
    /\ FileBlocks \in Nat \ {0} /\ MaxFds \in Nat \ {0}
    /\ MaxOffset \in Nat /\ MaxOffset >= FileBlocks
    /\ Sizes = 0..FileBlocks
    /\ \A w \in Workloads :
         /\ w.modes \subseteq Modes /\ w.calls \subseteq Calls
         /\ w.files \in 1..MaxFiles /\ w.fds \in 1..MaxFds

VARIABLES area,     \* the data areas on the disk
          fds,      \* the descriptors of persistent files
          call,     \* the system call that waits for a job of Npkfs
          promise,  \* history: for every file the sizes, and for every block
                    \* the contents, that completed and failed calls allow
          mixed,    \* history: files changed through one descriptor while
                    \* another had them open
          asked     \* calls that started a job, at most load.jobs

fileVars == <<area, fds, call, promise, mixed, asked, load>>
allVars == <<vars, fileVars>>

Zeros == [b \in Blocks |-> Zero]
NoCall == [op |-> "none", fd |-> 0, mode |-> {}, old |-> 0, at |-> {}, x |-> Zero]
Empty == [size |-> {0}, data |-> [b \in Blocks |-> {Zero}]]
Content == {Zero, Blank, Torn} \cup Written

Descriptor == [file : Files, size : Sizes, data : [Blocks -> Content], offset : 0..MaxOffset,
               readable : BOOLEAN, writable : BOOLEAN]

ASSUME FreeAssumption == Free \notin Descriptor

FilesInit ==
    /\ Init
    /\ area = [a \in 0..(Areas - 1) |-> [b \in Blocks |-> Blank]]
    /\ fds = [d \in Fds |-> Free]
    /\ call = NoCall
    /\ promise = [f \in Files |-> Empty]
    /\ mixed = {}
    /\ asked = 0
    /\ load \in Workloads

Open == {d \in Fds : fds[d] # Free}
OpenOn(f) == {d \in Open : fds[d].file = f}
Ready == up /\ Idle /\ call = NoCall

\* A call that changes file f is under way: what it changes may be old or new
\* until it has returned 0.
Attempt(f, size, at, x) ==
    promise' = [promise EXCEPT ![f] =
        [size |-> @.size \cup {size},
         data |-> [b \in Blocks |-> @.data[b] \cup IF b \in at THEN {x} ELSE {}]]]

\* It has returned 0.
Done(f, sizes, at, x) ==
    promise' = [promise EXCEPT ![f] =
        [size |-> sizes, data |-> [b \in Blocks |-> IF b \in at THEN {x} ELSE @.data[b]]]]

-----------------------------------------------------------------------------
(* open                                                                    *)

\* The part of vfs_open_flags after the file was found or made: the lowest
\* free descriptor, the whole file read into its buffer, O_TRUNC, O_APPEND.
\* Without a descriptor (-24), memory or a readable disk (-5) the call fails
\* and a file it has made stays.
OpenFile(f, mode) ==
    \/ /\ Cardinality(Open) = load.fds
       /\ call' = NoCall
       /\ UNCHANGED <<vars, area, fds, promise, mixed>>
    \/ /\ Cardinality(Open) < load.fds
       /\ "read" \in load.faults /\ faults < MaxFaults
       /\ faults' = faults + 1
       /\ call' = NoCall
       /\ UNCHANGED <<disk, up, gen, next, inodes, job, ret, candidates, area, fds, promise, mixed>>
    \/ /\ Cardinality(Open) < load.fds
       /\ LET d == Min(Fds \ Open)
              cut == mode.trunc /\ mode.write
              size == IF cut THEN 0 ELSE inodes[f].size
          IN /\ fds' = [fds EXCEPT ![d] =
                          [file |-> f, size |-> size,
                           data |-> IF cut THEN Zeros ELSE area[inodes[f].start],
                           offset |-> IF mode.append THEN size ELSE 0,
                           readable |-> mode.read, writable |-> mode.write]]
             /\ IF cut
                THEN /\ persistent_sync_descriptor(f, 0)
                     /\ call' = [NoCall EXCEPT !.op = "trunc", !.fd = d]
                     /\ Attempt(f, 0, Blocks, Zero)
                     /\ mixed' = IF OpenOn(f) = {} THEN mixed ELSE mixed \cup {f}
                ELSE /\ call' = NoCall
                     /\ UNCHANGED <<vars, promise, mixed>>
             /\ UNCHANGED area

vfs_open ==
    /\ Ready
    /\ \E f \in Used(inodes), mode \in load.modes : OpenFile(f, mode)

\* O_CREAT of a name that is not there
vfs_open_create ==
    /\ Ready
    /\ Cardinality(Used(inodes)) < load.files
    /\ \E mode \in load.modes :
         /\ mode.creat
         /\ persistent_create
         /\ call' = [NoCall EXCEPT !.op = "create", !.mode = {mode}, !.fd = job'.file]
         /\ promise' = [promise EXCEPT ![job'.file] = Empty]
         /\ mixed' = mixed \ {job'.file}
    /\ UNCHANGED <<area, fds>>

Created ==
    /\ call.op = "create" /\ Idle
    /\ IF ret = "ok"
       THEN \E mode \in call.mode : OpenFile(call.fd, mode)
       ELSE call' = NoCall /\ UNCHANGED <<vars, area, fds, promise, mixed>>

\* O_TRUNC failed: the descriptor is given back, -EIO.
Truncated ==
    /\ call.op = "trunc" /\ Idle
    /\ call' = NoCall
    /\ LET d == call.fd IN
       IF ret = "ok"
       THEN Done(fds[d].file, {0}, Blocks, Zero) /\ UNCHANGED fds
       ELSE fds' = [fds EXCEPT ![d] = Free] /\ UNCHANGED promise
    /\ UNCHANGED <<vars, area, mixed>>

-----------------------------------------------------------------------------
(* read, lseek and write                                                   *)

vfs_read(d, amount) ==
    /\ Ready
    /\ "read" \in load.calls
    /\ d \in Open /\ fds[d].readable /\ fds[d].offset < fds[d].size
    /\ fds' = [fds EXCEPT ![d].offset = Min({@ + amount, fds[d].size})]
    /\ UNCHANGED <<vars, area, call, promise, mixed>>

\* Any whence: only the target matters, and it may be past the end.
vfs_seek(d, target) ==
    /\ Ready
    /\ "lseek" \in load.calls
    /\ d \in Open
    /\ fds' = [fds EXCEPT ![d].offset = target]
    /\ UNCHANGED <<vars, area, call, promise, mixed>>

\* The part of a write of amount blocks that fits, and the size it leaves
Span(d, amount) == (fds[d].offset + 1)..Min({fds[d].offset + amount, FileBlocks})
SizeAfter(d, amount) == Max({fds[d].size} \cup Span(d, amount))

vfs_write(d, amount, x) ==
    /\ Ready
    /\ "write" \in load.calls
    /\ d \in Open /\ fds[d].writable /\ fds[d].offset < FileBlocks
    /\ LET f == fds[d].file
           span == Span(d, amount)
           size == SizeAfter(d, amount)
       IN /\ fds' = [fds EXCEPT ![d].data = [b \in Blocks |-> IF b \in span THEN x ELSE @[b]],
                                ![d].offset = Max(span), ![d].size = size]
          /\ persistent_sync_descriptor(f, size)
          /\ call' = [NoCall EXCEPT !.op = "write", !.fd = d, !.old = fds[d].size, !.at = span, !.x = x]
          /\ Attempt(f, size, span, x)
          /\ mixed' = IF OpenOn(f) = {d} THEN mixed ELSE mixed \cup {f}
    /\ UNCHANGED area

\* A failed read of a file leaves a prefix of it in the buffer.
PartOf(old, new) == {[b \in Blocks |-> IF b <= k THEN new[b] ELSE old[b]] : k \in 0..FileBlocks}

\* After a failed write-back the buffer is read again, if the disk can be
\* read, and size and offset go back; the in-memory inode keeps the new size.
Wrote ==
    /\ call.op = "write" /\ Idle
    /\ call' = NoCall
    /\ LET d == call.fd
           f == fds[d].file
       IN IF ret = "ok"
          THEN /\ Done(f, {Max({n} \cup call.at) : n \in promise[f].size}, call.at, call.x)
               /\ UNCHANGED <<vars, fds>>
          ELSE /\ \E data \in PartOf(fds[d].data, area[inodes[f].start]) :
                    /\ fds' = [fds EXCEPT ![d].data = data, ![d].size = call.old,
                                          ![d].offset = Min({@, call.old})]
                    /\ IF data = area[inodes[f].start] THEN UNCHANGED faults
                       ELSE /\ "read" \in load.faults /\ faults < MaxFaults
                            /\ faults' = faults + 1
               /\ UNCHANGED <<disk, up, gen, next, inodes, job, ret, candidates, promise>>
    /\ UNCHANGED <<area, mixed>>

-----------------------------------------------------------------------------
(* fsync, sync and close                                                   *)

WriteBack(op, d) ==
    /\ persistent_sync_descriptor(fds[d].file, fds[d].size)
    /\ call' = [NoCall EXCEPT !.op = op, !.fd = d]
    /\ UNCHANGED <<area, fds, promise, mixed>>

vfs_sync_fd(d) == Ready /\ "fsync" \in load.calls /\ d \in Open /\ WriteBack("fsync", d)
vfs_sync_all == Ready /\ "sync" \in load.calls /\ Open # {} /\ WriteBack("sync", Min(Open))
vfs_close(d) == Ready /\ "close" \in load.calls /\ d \in Open /\ WriteBack("close", d)

\* sync goes on to the next descriptor, close frees its own, whatever the
\* write-back returned.
WroteBack ==
    /\ call.op \in {"fsync", "sync", "close"} /\ Idle
    /\ LET later == {d \in Open : d > call.fd} IN
       IF call.op = "sync" /\ later # {}
       THEN WriteBack("sync", Min(later))
       ELSE /\ call' = NoCall
            /\ fds' = IF call.op = "close" THEN [fds EXCEPT ![call.fd] = Free] ELSE fds
            /\ UNCHANGED <<vars, area, promise, mixed>>

-----------------------------------------------------------------------------
(* The disk.  A job writes the blocks of the data area in order, then the  *)
(* metadata; a failure leaves a prefix of the blocks written.              *)

\* Mutant: a new file keeps what its data area held.
BufferUncleared == IF job.op = "create" THEN area[inodes[job.file].start] ELSE fds[call.fd].data

Buffer == IF job.op = "create" THEN Zeros ELSE fds[call.fd].data
Start == inodes[job.file].start

DataWritten ==
    /\ WriteData
    /\ area' = [area EXCEPT ![Start] = Buffer]
    /\ UNCHANGED <<fds, call, promise, mixed>>

MetadataWritten == WriteSector /\ UNCHANGED <<area, fds, call, promise, mixed>>

DiskFails ==
    /\ AtaFailure
    /\ IF job.step = 0
       THEN \E data \in PartOf(area[Start], Buffer) : area' = [area EXCEPT ![Start] = data]
       ELSE UNCHANGED area
    /\ UNCHANGED <<fds, call, promise, mixed>>

\* The block being written when the power goes may be torn, whether or not
\* the call had changed it.
PowerGoes ==
    /\ PowerLoss
    /\ fds' = [d \in Fds |-> Free]
    /\ call' = NoCall
    /\ IF ~Idle /\ job.step = 0
       THEN \E data \in PartOf(area[Start], Buffer) :
            \/ area' = [area EXCEPT ![Start] = data] /\ UNCHANGED promise
            \/ \E b \in Blocks :
                 /\ area' = [area EXCEPT ![Start] = [data EXCEPT ![b] = Torn]]
                 /\ promise' = [promise EXCEPT ![job.file].data[b] = @ \cup {Torn}]
       ELSE UNCHANGED <<area, promise>>
    /\ UNCHANGED mixed

vfs_init == persistent_init /\ UNCHANGED <<area, fds, call, promise, mixed>>

FilesNext ==
    /\ \/ vfs_init
       \/ vfs_open
       \/ vfs_open_create
       \/ Created
       \/ Truncated
       \/ \E d \in Fds : \/ \E n \in Blocks : vfs_read(d, n)
                         \/ \E n \in 0..MaxOffset : vfs_seek(d, n)
                         \/ \E n \in Blocks, x \in load.values : vfs_write(d, n, x)
                         \/ vfs_sync_fd(d)
                         \/ vfs_close(d)
       \/ Wrote
       \/ vfs_sync_all
       \/ WroteBack
       \/ DataWritten
       \/ MetadataWritten
       \/ DiskFails
       \/ PowerGoes
    /\ asked' = IF call = NoCall /\ call' # NoCall THEN asked + 1 ELSE asked
    /\ asked' <= load.jobs
    /\ UNCHANGED load

FilesSpec == FilesInit /\ [][FilesNext]_allVars

-----------------------------------------------------------------------------
(* Properties.                                                             *)

\* Every variable has the type of the C object it models.
FilesTypeOK ==
    /\ TypeOK
    /\ area \in [0..(Areas - 1) -> [Blocks -> Content]]
    /\ fds \in [Fds -> Descriptor \cup {Free}]
    /\ \A d \in Open : up /\ fds[d].file \in Used(inodes)
    /\ call.fd \in Fds \cup Files \cup {0}

\* The store is consistent and so are the descriptors over it.
FilesConsistent == FilesTypeOK /\ AreasDisjoint /\ SlotSurvivesNextFault

\* A file with this size and these blocks is one the calls so far allow.
Allowed(f, size, data) ==
    f \in mixed \/ (size \in promise[f].size /\ \A b \in Blocks : data[b] \in promise[f].data[b])

\* What was written is what is found: the size and blocks of every file are
\* those of the last calls that returned 0, or of calls that failed or were
\* cut short since, in the table and area in memory and on the disk, in those
\* a mount would choose after a power loss, and in every open descriptor.
\* No call changes another file, and a close changes nothing.  (Not for a file
\* changed while two descriptors had it open: each writes back all of its own
\* buffer.)
WrittenIsFound ==
    /\ \A f \in Used(inodes) : Idle => Allowed(f, inodes[f].size, area[inodes[f].start])
    /\ \A d \in Open : call = NoCall => Allowed(fds[d].file, fds[d].size, fds[d].data)
    /\ \A s \in Chosen(disk, Slots) : \A f \in Used(SlotTable(disk, s)) :
           LET inode == SlotTable(disk, s)[f] IN Idle => Allowed(f, inode.size, area[inode.start])
=============================================================================
