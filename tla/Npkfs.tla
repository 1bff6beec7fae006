-------------------------------- MODULE Npkfs --------------------------------
(***************************************************************************)
(* The NPKFS metadata commit and its recovery (src/fs/vfs.c): two copies   *)
(* (slots) of superblock and inode table, a transaction marker, and the    *)
(* file operations that commit them.  The disk is written one sector at a  *)
(* time by ata_write_sectors; the machine may stop between two sectors or  *)
(* within one (which tears it), and the controller may fail a request.     *)
(*                                                                         *)
(* Abstractions.  One inode per inode sector.  A checksum is the value it  *)
(* is computed from, so CRC collisions are excluded.  File names are left  *)
(* out: a file is its index in the inode table.  The data areas and the    *)
(* descriptors that fill them are in module Files, which adds them to the  *)
(* actions of this module and has the specification.                       *)
(***************************************************************************)
EXTENDS Naturals, Sequences, FiniteSets

CONSTANTS MaxFiles,       \* PERSIST_MAX_FILES
          Areas,          \* data areas the device has room for
          Sizes,          \* file sizes
          MaxGeneration,  \* UINT32_MAX
          MaxFaults,      \* faults between two completed commits
          Workloads,      \* what happens: here, the kinds of faults
          NoInode, Torn, Blank, NoTable

ASSUME NpkfsAssumption ==
    /\ MaxFiles \in Nat \ {0}
    /\ Areas \in Nat
    /\ 0 \in Sizes
    /\ MaxGeneration \in Nat \ {0}
    /\ MaxFaults \in Nat
    /\ \A w \in Workloads : w.faults \subseteq {"read", "write", "power"}

VARIABLES disk,    \* contents of the metadata sectors
          up,      \* persistent_ready: the file system is mounted
          gen,     \* persistent_super.generation
          next,    \* persistent_super.next_sector, in data areas
          inodes,  \* persistent_inodes
          job,     \* the operation in progress and its next sector write
          ret,     \* return value of the last finished operation
          faults,  \* faults since both slots were last written completely
          candidates, \* history: the table of the last completed commit or
                      \* mount, and those of the commits started since
          load     \* the workload of this behaviour

vars == <<disk, up, gen, next, inodes, job, ret, faults, candidates>>

Files == 1..MaxFiles
Inode == [size : Sizes, start : 0..(Areas - 1)]
Tables == [Files -> Inode \cup {NoInode}]
EmptyTable == [f \in Files |-> NoInode]
Used(table) == {f \in Files : table[f] # NoInode}

-----------------------------------------------------------------------------
(* The disk layout and the order in which a commit writes it.              *)

Slots == {"primary", "backup"}
Txn == <<"txn", "only", 0>>
Super(slot) == <<"super", slot, 0>>
InodeSector(slot, f) == <<"inode", slot, f>>
Sectors == {Txn} \cup {Super(s) : s \in Slots}
                 \cup {InodeSector(s, f) : s \in Slots, f \in Files}

InodeSectors(slot) == [f \in Files |-> InodeSector(slot, f)]

Superblock == [gen : 0..MaxGeneration, next : 0..Areas, count : 0..MaxFiles, sum : Tables]

\* The markers are none of the values they stand beside.
ASSUME MarkersAssumption ==
    /\ NoInode \notin Inode
    /\ NoTable \notin Tables
    /\ \A marker \in {Blank, Torn} : marker \notin Superblock /\ marker \notin Inode /\ marker # NoInode

\* Mutant: both inode tables are written before either superblock.
CommitPlanInodesFirst == <<Txn>> \o InodeSectors("backup") \o InodeSectors("primary")
                                 \o <<Super("backup"), Super("primary"), Txn>>

\* The sectors persistent_write_metadata writes, in order.
CommitPlan == <<Txn>> \o InodeSectors("backup") \o <<Super("backup")>>
                      \o InodeSectors("primary") \o <<Super("primary")>>
                      \o <<Txn>>

SlotTable(d, slot) == [f \in Files |-> d[InodeSector(slot, f)]]

\* persistent_super_slot_valid with persistent_inode_valid
SlotValid(d, slot) ==
    LET super == d[Super(slot)]  table == SlotTable(d, slot) IN
    /\ super \notin {Blank, Torn}
    /\ super.gen # 0
    /\ super.next <= Areas
    /\ super.sum = table
    /\ \A f \in Used(table) : table[f].start < Areas
    /\ super.count = Cardinality(Used(table))

\* The slot persistent_init picks among the readable ones: the valid one of
\* the higher generation, the primary when they are equal.
Chosen(d, readable) ==
    LET valid == {s \in Slots \cap readable : SlotValid(d, s)} IN
    IF \/ "primary" \notin valid
       \/ "backup" \in valid /\ d[Super("backup")].gen > d[Super("primary")].gen
    THEN valid \cap {"backup"} ELSE {"primary"}

Init ==
    /\ disk = [s \in Sectors |-> Blank]
    /\ up = FALSE
    /\ gen = 0
    /\ next = 0
    /\ inodes = EmptyTable
    /\ job = [op |-> "idle", file |-> 0, step |-> 0]
    /\ ret = "none"
    /\ faults = 0
    /\ candidates = {EmptyTable}

Idle == job.op = "idle"

\* The superblock of the commit in progress (next_super)
NextSuper == [gen |-> gen + 1, next |-> next, count |-> Cardinality(Used(inodes)), sum |-> inodes]

SectorValue(k) ==
    LET sector == CommitPlan[k] IN
    CASE sector = Txn -> [state |-> IF k = 1 THEN "prepare" ELSE "clear"]
      [] sector[1] = "super" -> NextSuper
      [] sector[1] = "inode" -> inodes[sector[3]]

-----------------------------------------------------------------------------
(* Operations.  Step 0 of a job writes the data area, step k writes sector *)
(* CommitPlan[k].  The kernel runs one job at a time, interrupts disabled. *)

\* What follows a failed ATA write or an exhausted generation: -EIO, except
\* that persistent_create undoes its inode and commits again.
FailJob ==
    IF job.op = "create"
    THEN /\ inodes' = [inodes EXCEPT ![job.file] = NoInode]
         /\ next' = next - 1
         /\ IF gen = MaxGeneration
            THEN /\ job' = [op |-> "idle", file |-> 0, step |-> 0]
                 /\ ret' = "eio"
                 /\ UNCHANGED candidates
            ELSE /\ job' = [op |-> "rollback", file |-> job.file, step |-> 1]
                 /\ ret' = "none"
                 /\ candidates' = candidates \cup {inodes'}
    ELSE /\ job' = [op |-> "idle", file |-> 0, step |-> 0]
         /\ ret' = "eio"
         /\ UNCHANGED <<inodes, next, candidates>>

persistent_init ==
    /\ ~up
    /\ \E readable \in SUBSET Slots :
         /\ faults' = faults + Cardinality(Slots \ readable)
         /\ faults' <= MaxFaults
         /\ readable = Slots \/ "read" \in load.faults
         /\ up' = TRUE
         /\ ret' = "none"
         /\ LET slots == Chosen(disk, readable) IN
            IF slots = {}
            THEN \* persistent_format
                 /\ gen' = 0
                 /\ next' = 0
                 /\ inodes' = EmptyTable
                 /\ job' = [op |-> "format", file |-> 0, step |-> 1]
                 /\ UNCHANGED <<disk, candidates>>
            ELSE \E s \in slots :
                 /\ gen' = disk[Super(s)].gen
                 /\ next' = disk[Super(s)].next
                 /\ inodes' = SlotTable(disk, s)
                 /\ disk' = IF disk[Txn] = [state |-> "prepare"]
                            THEN [disk EXCEPT ![Txn] = [state |-> "clear"]]
                            ELSE disk
                 /\ candidates' = {inodes'}
                 /\ UNCHANGED job

\* Mutant: the allocation pointer is not advanced.
CreateKeepsPointer ==
    /\ up /\ Idle
    /\ next < Areas
    /\ \E f \in Files :
         /\ inodes[f] = NoInode
         /\ \A e \in 1..(f - 1) : inodes[e] # NoInode
         /\ inodes' = [inodes EXCEPT ![f] = [size |-> 0, start |-> next]]
         /\ job' = [op |-> "create", file |-> f, step |-> 0]
    /\ ret' = "none"
    /\ UNCHANGED <<disk, up, gen, next, faults, candidates>>

\* persistent_create: the lowest free inode, the next data area.
persistent_create ==
    /\ up /\ Idle
    /\ next < Areas
    /\ \E f \in Files :
         /\ inodes[f] = NoInode
         /\ \A e \in 1..(f - 1) : inodes[e] # NoInode
         /\ inodes' = [inodes EXCEPT ![f] = [size |-> 0, start |-> next]]
         /\ job' = [op |-> "create", file |-> f, step |-> 0]
    /\ next' = next + 1
    /\ ret' = "none"
    /\ UNCHANGED <<disk, up, gen, faults, candidates>>

\* persistent_sync_descriptor, from write, O_TRUNC, close and fsync: the
\* in-memory inode takes the descriptor's size before anything is written.
persistent_sync_descriptor(f, size) ==
    /\ up /\ Idle
    /\ f \in Used(inodes)
    /\ inodes' = [inodes EXCEPT ![f].size = size]
    /\ job' = [op |-> "sync", file |-> f, step |-> 0]
    /\ ret' = "none"
    /\ UNCHANGED <<disk, up, gen, next, faults, candidates>>

\* The data area is written; persistent_write_metadata is entered.
WriteData ==
    /\ up /\ ~Idle /\ job.step = 0
    /\ IF gen = MaxGeneration
       THEN FailJob
       ELSE /\ job' = [job EXCEPT !.step = 1]
            /\ candidates' = candidates \cup {inodes}
            /\ UNCHANGED <<inodes, next, ret>>
    /\ UNCHANGED <<disk, up, gen, faults>>

\* One sector of persistent_write_metadata; the last one ends the commit.
WriteSector ==
    /\ up /\ job.step \in 1..Len(CommitPlan)
    /\ disk' = [disk EXCEPT ![CommitPlan[job.step]] = SectorValue(job.step)]
    /\ IF job.step < Len(CommitPlan)
       THEN /\ job' = [job EXCEPT !.step = @ + 1]
            /\ UNCHANGED <<gen, ret, faults, candidates>>
       ELSE /\ gen' = gen + 1
            /\ job' = [op |-> "idle", file |-> 0, step |-> 0]
            /\ ret' = IF job.op = "rollback" THEN "eio" ELSE "ok"
            /\ faults' = 0
            /\ candidates' = {inodes}
    /\ UNCHANGED <<up, next, inodes>>

\* ata_write_sectors returns -5, before or after the sector was stored.
AtaFailure ==
    /\ up /\ ~Idle
    /\ "write" \in load.faults
    /\ faults < MaxFaults
    /\ faults' = faults + 1
    /\ \/ UNCHANGED disk
       \/ /\ job.step > 0
          /\ disk' = [disk EXCEPT ![CommitPlan[job.step]] = SectorValue(job.step)]
    /\ FailJob
    /\ UNCHANGED <<up, gen>>

\* The machine stops.  A stop during a commit is a fault and may tear the
\* sector being written; a stop between operations is not.
PowerLoss ==
    /\ up
    /\ IF Idle
       THEN UNCHANGED <<disk, faults>>
       ELSE /\ "power" \in load.faults
            /\ faults < MaxFaults
            /\ faults' = faults + 1
            /\ \/ UNCHANGED disk
               \/ /\ job.step > 0
                  /\ disk' = [disk EXCEPT ![CommitPlan[job.step]] = Torn]
    /\ up' = FALSE
    /\ gen' = 0
    /\ next' = 0
    /\ inodes' = EmptyTable
    /\ job' = [op |-> "idle", file |-> 0, step |-> 0]
    /\ ret' = "none"
    /\ UNCHANGED candidates

-----------------------------------------------------------------------------
(* Properties.                                                             *)

JobOps == {"idle", "create", "sync", "format", "rollback"}

\* Every variable has the type of the C object it models.
TypeOK ==
    /\ disk \in [Sectors -> {Blank, Torn, NoInode} \cup Inode \cup Superblock
                             \cup [state : {"prepare", "clear"}]]
    /\ up \in BOOLEAN
    /\ gen \in 0..MaxGeneration
    /\ next \in 0..Areas
    /\ inodes \in Tables
    /\ job \in [op : JobOps, file : 0..MaxFiles, step : 0..Len(CommitPlan)]
    /\ ret \in {"none", "ok", "eio"}
    /\ faults \in 0..MaxFaults
    /\ candidates \subseteq Tables

\* Two files never share a data area, and the allocation pointer is past all
\* of them, in every valid slot and in memory: a create that fails half-way
\* and hands its area to a later file must not survive in a slot beside it.
AreasDisjoint ==
    LET Disjoint(table, top) ==
            \A f, g \in Used(table) :
                /\ table[f].start < top
                /\ f # g => table[f].start # table[g].start
    IN /\ up => Disjoint(inodes, next)
       /\ \A s \in Slots : SlotValid(disk, s) =>
              Disjoint(SlotTable(disk, s), disk[Super(s)].next)

\* While another interruption is possible before a commit completes, the disk
\* has a valid slot unless an empty file system is one of its legal contents.
SlotSurvivesNextFault ==
    (faults < MaxFaults /\ EmptyTable \notin candidates) => Chosen(disk, Slots) # {}

Store == INSTANCE MetaStore WITH view <- IF up THEN inodes ELSE NoTable

\* The two slots and the marker implement one table: a mount finds the table
\* of the last commit that returned 0 or of one attempted since, never an
\* older table, never a mixture and never an empty file system instead.
MetadataAtomic == Store!StoreSpec
=============================================================================
