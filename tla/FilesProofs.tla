----------------------------- MODULE FilesProofs -----------------------------
(***************************************************************************)
(* With at most one fault between two completed commits, the disk always   *)
(* has a slot to mount, the metadata behave like one table that is written *)
(* at once, and what calls wrote is what is found, for every number of     *)
(* files, areas, blocks, generations and descriptors.                      *)
(***************************************************************************)
EXTENDS Files, NpkfsProofs

-----------------------------------------------------------------------------
(* The invariant: files.                                                   *)

\* The call in progress and the job it waits for
CallOK ==
    \/ call = NoCall /\ job.op \in {"idle", "format"}
    \/ /\ call.op = "create" /\ up /\ call.fd \in Files /\ call.mode \subseteq Modes
       /\ job.op \in {"idle", "create", "rollback"}
       /\ job.op = "create" => job.file = call.fd
       /\ Idle /\ ret = "ok" => call.fd \in Used(inodes)
    \/ /\ call.op \in {"trunc", "write", "fsync", "sync", "close"} /\ up /\ call.fd \in Open
       /\ job.op \in {"idle", "sync"}
       /\ job.op = "sync" => /\ job.file = fds[call.fd].file
                             /\ inodes[job.file].size = fds[call.fd].size

FInv ==
    /\ area \in [0..(Areas - 1) -> [Blocks -> Content]]
    /\ fds \in [Fds -> Descriptor \cup {Free}]
    /\ \A d \in Open : up /\ fds[d].file \in Used(inodes) /\ (job.op = "create" => fds[d].file # job.file)
    /\ job.op = "rollback" => job.file \notin Used(inodes) /\ faults # 0
    /\ CallOK
    /\ promise \in [Files -> [size : SUBSET Sizes, data : [Blocks -> SUBSET Content]]]
    /\ load \in Workloads

\* The data area of file f was not written yet.
Unwritten(f) == job.op = "create" /\ job.step = 0 /\ job.file = f

\* A size and contents that a promise allows
Matches(p, size, data) == size \in p.size /\ \A b \in Blocks : data[b] \in p.data[b]

\* What file f has, once a create has cleared its data area.
Contents(f) == IF Unwritten(f) THEN Zeros ELSE area[inodes[f].start]

InMemory ==
    \A f \in Used(inodes) : f \in mixed \/ Matches(promise[f], inodes[f].size, Contents(f))
OnDisk ==
    \A table \in candidates : \A f \in Used(table) :
        f \in mixed \/ Matches(promise[f], table[f].size, area[table[f].start])
InBuffers ==
    \A d \in Open : \/ fds[d].file \in mixed
                    \/ Matches(promise[fds[d].file], fds[d].size, fds[d].data)

\* The table in memory has the files of every table the disk may hold.
Extends ==
    up => \A table \in candidates : \A f \in Used(table) :
             \/ job.op = "rollback" /\ job.file = f
             \/ f \in Used(inodes) /\ table[f].start = inodes[f].start /\ ~Unwritten(f)

\* A write or truncation in progress: what it put into its buffer, which no
\* other descriptor shares, and what has reached the disk.
Changed(d) ==
    /\ call.op = "trunc" => fds[d].size = 0 /\ fds[d].data = Zeros
    /\ call.op = "write" =>
          /\ call.old \in Sizes /\ call.at \subseteq Blocks
          /\ fds[d].size = Max({call.old} \cup call.at)
          /\ \A b \in call.at : fds[d].data[b] = call.x
          /\ fds[d].file \in mixed \/ call.old \in promise[fds[d].file].size
Landed(d) ==
    LET f == fds[d].file IN
    /\ \/ job.op = "sync" /\ job.step > 0
       \/ Idle /\ ret = "ok"
       => area[inodes[f].start] = fds[d].data
    /\ Idle /\ ret = "ok" => candidates = {inodes} /\ inodes[f].size = fds[d].size
Changing ==
    call.op \in {"trunc", "write"} =>
        /\ fds[call.fd].file \in mixed \/ OpenOn(fds[call.fd].file) = {call.fd}
        /\ Changed(call.fd) /\ Landed(call.fd)

WInv == InMemory /\ OnDisk /\ InBuffers /\ Extends /\ Changing

IInv == NInv /\ FInv /\ WInv

-----------------------------------------------------------------------------
(* Smallest and greatest elements, descriptors and promises.               *)

\* Leaves are for Zenon unless they say otherwise.
USE Zenon

\* A nonempty set of naturals has a least element, and Min finds it.
LEMMA MinOf ==
    ASSUME NEW S, S \subseteq Nat, S # {}
    PROVE  Min(S) \in S /\ \A y \in S : Min(S) <= y
<1> DEFINE R == {ss \in Nat \X Nat : ss[1] < ss[2]}
<1>1. IsWellFoundedOn(R, Nat)
  BY NatLessThanWellFounded DEF OpToRel
<1>2. PICK x \in S : \A y \in S : ~(<<y, x>> \in R)
  <2> HIDE DEF R
  <2> QED BY <1>1, WFMin
<1>3. ASSUME NEW y \in S PROVE x <= y
  <2>1. <<y, x>> \in Nat \X Nat /\ ~(<<y, x>> \in R)
    BY <1>2
  <2>2. ~(y < x)
    BY <2>1
  <2> QED BY <2>1, <2>2, SMTT(30)
<1> QED BY <1>3 DEF Min

\* A nonempty bounded set of naturals has a greatest element, and Max finds it.
LEMMA MaxOf ==
    ASSUME NEW n \in Nat, NEW S, S \subseteq 0..n, S # {}
    PROVE  Max(S) \in S /\ \A y \in S : Max(S) >= y
<1> DEFINE U == {y \in 0..n : n - y \in S}
<1>1. \A x \in S : n - x \in 0..n /\ n - (n - x) = x
  BY SMTT(30)
<1>2. U \subseteq Nat /\ U # {}
  <2>1. PICK x \in S : TRUE
    OBVIOUS
  <2>2. n - x \in U
    BY <1>1
  <2>3. U \subseteq Nat
    BY SMTT(30)
  <2> HIDE DEF U
  <2> QED BY <2>2, <2>3
<1>3. Min(U) \in U /\ \A y \in U : Min(U) <= y
  <2> HIDE DEF U
  <2> QED BY <1>2, MinOf
<1>4. n - Min(U) \in S /\ Min(U) \in 0..n
  BY <1>3
<1>5. \A y \in S : n - y \in U
  BY <1>1
<1>6. \A y \in S : n - Min(U) >= y
  <2> HIDE DEF U
  <2> TAKE y \in S
  <2>1. Min(U) <= n - y
    BY <1>3, <1>5
  <2> QED BY <2>1, <1>4, SMTT(30)
<1> HIDE DEF U
<1> QED BY <1>4, <1>6 DEF Max

\* allocate_descriptor finds a free descriptor while fewer than all are in use.
LEMMA FreeFd ==
    ASSUME load \in Workloads, Cardinality(Open) < load.fds
    PROVE  Min(Fds \ Open) \in Fds \ Open
<1>1. MaxFds \in Nat /\ load.fds \in 1..MaxFds
  BY FilesAssumption
<1>2. Cardinality(1..MaxFds) = MaxFds
  BY <1>1, FS_Interval, SMTT(30)
<1>3. Cardinality(Open) # MaxFds
  BY <1>1, SMTT(30)
<1>4. Open # Fds
  BY <1>2, <1>3 DEF Fds
<1>5. Fds \ Open \subseteq Nat /\ Fds \ Open # {}
  BY <1>4, SMTT(30) DEF Fds, Open
<1> QED BY <1>5, MinOf

FdTable == [Fds -> Descriptor \cup {Free}]

\* A descriptor is put into the table.
LEMMA FdPut ==
    ASSUME fds \in FdTable, NEW d \in Fds, NEW new \in Descriptor, fds' = [fds EXCEPT ![d] = new]
    PROVE  /\ fds' \in FdTable /\ Open' = Open \cup {d} /\ fds'[d] = new
           /\ \A e \in Fds : e # d => fds'[e] = fds[e]
<1>1. fds' \in FdTable /\ fds'[d] = new /\ \A e \in Fds : e # d => fds'[e] = fds[e]
  BY DEF FdTable
<1>2. new # Free
  BY FreeAssumption
<1> QED BY <1>1, <1>2 DEF Open

\* A descriptor is given back.
LEMMA FdFree ==
    ASSUME fds \in FdTable, NEW d \in Fds, fds' = [fds EXCEPT ![d] = Free]
    PROVE  /\ fds' \in FdTable /\ Open' = Open \ {d}
           /\ \A e \in Fds : e # d => fds'[e] = fds[e]
<1>1. fds' \in FdTable /\ fds'[d] = Free /\ \A e \in Fds : e # d => fds'[e] = fds[e]
  BY DEF FdTable
<1> QED BY <1>1 DEF Open

\* What the invariant says of the types of files and descriptors.
LEMMA Typed ==
    ASSUME TypeOK, FInv
    PROVE  /\ fds \in FdTable
           /\ \A d \in Open : /\ d \in Fds /\ fds[d] \in Descriptor /\ fds[d].file \in Files
                              /\ fds[d].size \in Sizes /\ fds[d].data \in [Blocks -> Content]
                              /\ fds[d].offset \in 0..MaxOffset
           /\ \A f \in Used(inodes) : /\ f \in Files /\ inodes[f].size \in Sizes
                                      /\ inodes[f].start \in 0..(Areas - 1)
                                      /\ area[inodes[f].start] \in [Blocks -> Content]
           /\ \A table \in Tables : \A f \in Used(table) :
                 f \in Files /\ table[f].size \in Sizes /\ table[f].start \in 0..(Areas - 1)
           /\ Zeros \in [Blocks -> Content] /\ 0 \in Sizes /\ Sizes = 0..FileBlocks /\ FileBlocks \in Nat
<1>1. fds \in FdTable
  BY DEF FInv, FdTable
<1>2. \A d \in Open : d \in Fds /\ fds[d] \in Descriptor
  BY <1>1 DEF Open, FdTable
<1>3. \A r \in Descriptor : /\ r.file \in Files /\ r.size \in Sizes /\ r.data \in [Blocks -> Content]
                            /\ r.offset \in 0..MaxOffset
  BY DEF Descriptor
<1>4. \A table \in Tables : \A f \in Used(table) :
          f \in Files /\ table[f].size \in Sizes /\ table[f].start \in 0..(Areas - 1)
  BY DEF Tables, Used, Inode
<1>5. inodes \in Tables /\ area \in [0..(Areas - 1) -> [Blocks -> Content]]
  BY DEF TypeOK, FInv
<1>6. \A f \in Used(inodes) : area[inodes[f].start] \in [Blocks -> Content]
  BY <1>4, <1>5
<1>7. Zeros \in [Blocks -> Content]
  BY DEF Zeros, Content
<1>8. 0 \in Sizes /\ Sizes = 0..FileBlocks /\ FileBlocks \in Nat
  BY FilesAssumption, SMTT(30)
<1> QED BY <1>1, <1>2, <1>3, <1>4, <1>5, <1>6, <1>7, <1>8

-----------------------------------------------------------------------------
(* The invariant holds initially, and the calls keep it.                   *)

\* A blank disk, not mounted, satisfies the invariant.
LEMMA InitIInv == FilesInit => IInv
<1> SUFFICES ASSUME FilesInit PROVE IInv
  OBVIOUS
<1>1. /\ Init /\ area = [a \in 0..(Areas - 1) |-> [b \in Blocks |-> Blank]] /\ fds = [d \in Fds |-> Free]
      /\ call = NoCall /\ promise = [f \in Files |-> Empty] /\ load \in Workloads
  BY DEF FilesInit
<1>2. NInv
  BY <1>1, InitNInv
<1>3. inodes = EmptyTable /\ candidates = {EmptyTable} /\ ~up /\ job = IdleJob /\ Used(EmptyTable) = {}
  BY <1>1, EmptyTableOK DEF Init, IdleJob
<1>4. Open = {}
  BY <1>1 DEF Open
<1>5. job.op = "idle" /\ call.op = "none"
  BY <1>1, <1>3, IdleJobOK DEF NoCall
<1>6. FInv
  <2>1. area \in [0..(Areas - 1) -> [Blocks -> Content]]
    BY <1>1 DEF Content
  <2>2. fds \in [Fds -> Descriptor \cup {Free}]
    BY <1>1
  <2>3. Empty \in [size : SUBSET Sizes, data : [Blocks -> SUBSET Content]]
    <3>1. {0} \in SUBSET Sizes /\ [b \in Blocks |-> {Zero}] \in [Blocks -> SUBSET Content]
      BY NpkfsAssumption DEF Content
    <3> QED BY <3>1 DEF Empty
  <2>4. promise \in [Files -> [size : SUBSET Sizes, data : [Blocks -> SUBSET Content]]]
    BY <1>1, <2>3
  <2>5. CallOK
    BY <1>1, <1>5 DEF CallOK
  <2> QED BY <2>1, <2>2, <2>4, <2>5, <1>1, <1>4, <1>5 DEF FInv
<1>7. WInv
  BY <1>3, <1>4, <1>5 DEF WInv, InMemory, OnDisk, InBuffers, Extends, Changing
<1> QED BY <1>2, <1>6, <1>7 DEF IInv

\* Outside calls: no call waits, and while not mounted no file is open.
LEMMA NotMounted ==
    ASSUME FInv, ~up
    PROVE  call = NoCall /\ Open = {}
BY DEF FInv, CallOK

\* No call is none of the calls.
LEMMA NoCallOp == NoCall.op = "none" /\ NoCall.fd = 0
BY DEF NoCall

\* vfs_init
LEMMA vfs_initStep ==
    ASSUME MaxFaults <= 1, IInv, vfs_init, load' = load
    PROVE  IInv'
<1>1. /\ persistent_init /\ area' = area /\ fds' = fds /\ call' = call /\ promise' = promise /\ mixed' = mixed
      /\ NInv /\ FInv /\ WInv
  BY DEF vfs_init, IInv
<1>2. /\ NInv' /\ inodes' \in candidates
      /\ \/ candidates' = {inodes'} /\ job' = job
         \/ /\ inodes' = EmptyTable /\ candidates' = candidates /\ candidates = {EmptyTable}
            /\ job'.op = "format"
  BY <1>1, MountStep
<1>3. ~up /\ call = NoCall /\ Open = {} /\ Idle /\ Open' = {}
  <2>1. ~up /\ Idle
    BY <1>1 DEF persistent_init, NInv, JobOK
  <2>2. call = NoCall /\ Open = {}
    BY <2>1, <1>1, NotMounted
  <2> QED BY <2>1, <2>2, <1>1 DEF Open
<1>4. job'.op \in {"idle", "format"}
  BY <1>2, <1>3 DEF Idle
<1>5. FInv'
  <2>1. CallOK'
    BY <1>1, <1>3, <1>4 DEF CallOK
  <2> QED BY <2>1, <1>1, <1>3, <1>4 DEF FInv
<1>6. WInv'
  <2>1. \A f : ~Unwritten(f)'
    BY <1>4 DEF Unwritten
  <2>2. \A f \in Used(inodes') : f \in mixed \/ Matches(promise[f], inodes'[f].size, area[inodes'[f].start])
    BY <1>1, <1>2 DEF WInv, OnDisk
  <2>3. InMemory'
    BY <1>1, <2>1, <2>2 DEF InMemory, Contents
  <2>4. OnDisk'
    BY <1>1, <1>2, <2>2 DEF WInv, OnDisk
  <2>5. Extends'
    BY <1>2, <2>1, EmptyTableOK DEF Extends
  <2>6. InBuffers' /\ Changing'
    BY <1>1, <1>3, NoCallOp DEF InBuffers, Changing
  <2> QED BY <2>3, <2>4, <2>5, <2>6 DEF WInv
<1> QED BY <1>2, <1>5, <1>6 DEF IInv

\* The metadata invariant depends on the variables of Npkfs only.
LEMMA UnchangedNInv ==
    ASSUME NInv, UNCHANGED vars
    PROVE  NInv'
<1>1. /\ disk' = disk /\ up' = up /\ gen' = gen /\ next' = next /\ inodes' = inodes /\ job' = job /\ ret' = ret
      /\ faults' = faults /\ candidates' = candidates
  BY DEF vars
<1>2. TypeOK' /\ JobOK'
  BY <1>1 DEF NInv, TypeOK, JobOK, Idle
<1>3. Progress'
  BY <1>1 DEF NInv, Progress, NextSuper
<1>4. Fresh'
  BY <1>1 DEF NInv, Fresh
<1> QED BY <1>1, <1>2, <1>3, <1>4 DEF NInv

Promises == [Files -> [size : SUBSET Sizes, data : [Blocks -> SUBSET Content]]]

\* Every open descriptor has a file, and contents its promise allows.
BuffersOK(t, table, m, p) ==
    \A d \in Fds : t[d] # Free =>
        /\ t[d].file \in Used(table)
        /\ t[d].file \in m \/ Matches(p[t[d].file], t[d].size, t[d].data)

\* A call that has nothing left to write returns.
LEMMA CallReturns ==
    ASSUME IInv, up, Idle, NInv', up' = up, inodes' = inodes, job' = job, candidates' = candidates,
           area' = area, promise' = promise, mixed' = mixed, load' = load, call' = NoCall,
           fds' \in FdTable, BuffersOK(fds', inodes, mixed, promise)
    PROVE  IInv'
<1>1. job.op = "idle" /\ NInv /\ FInv /\ WInv
  BY DEF Idle, IInv
<1>2. \A d \in Open' : /\ fds'[d].file \in Used(inodes)
                       /\ fds'[d].file \in mixed \/ Matches(promise[fds'[d].file], fds'[d].size, fds'[d].data)
  BY DEF BuffersOK, Open
<1>3. FInv'
  <2>1. CallOK'
    BY <1>1 DEF CallOK
  <2>2. /\ area \in [0..(Areas - 1) -> [Blocks -> Content]]
        /\ promise \in [Files -> [size : SUBSET Sizes, data : [Blocks -> SUBSET Content]]]
        /\ load \in Workloads
    BY <1>1 DEF FInv
  <2> QED BY <1>1, <1>2, <2>1, <2>2 DEF FInv, FdTable
<1>4. WInv'
  <2>1. \A f : Unwritten(f)' <=> Unwritten(f)
    BY DEF Unwritten
  <2>2. InMemory'
    BY <1>1, <2>1 DEF WInv, InMemory, Contents
  <2>3. OnDisk'
    BY <1>1 DEF WInv, OnDisk
  <2>4. InBuffers'
    BY <1>2 DEF InBuffers
  <2>5. Extends'
    BY <1>1, <2>1 DEF WInv, Extends
  <2>6. Changing'
    BY NoCallOp DEF Changing
  <2> QED BY <2>2, <2>3, <2>4, <2>5, <2>6 DEF WInv
<1> QED BY <1>3, <1>4 DEF IInv

\* The invariant in terms of BuffersOK
LEMMA BuffersNow ==
    ASSUME IInv
    PROVE  BuffersOK(fds, inodes, mixed, promise) /\ (Open # {} => up)
BY DEF IInv, FInv, WInv, InBuffers, BuffersOK, Open

\* A write or truncation that returns 0: what it promises is in its buffer,
\* in memory and in the only table the disk may hold.
LEMMA CallSucceeds ==
    ASSUME IInv, call.op \in {"trunc", "write"}, Idle, ret = "ok", UNCHANGED vars,
           area' = area, fds' = fds, mixed' = mixed, load' = load, call' = NoCall,
           NEW q \in [size : SUBSET Sizes, data : [Blocks -> SUBSET Content]],
           promise' = [promise EXCEPT ![fds[call.fd].file] = q],
           fds[call.fd].file \in mixed \/ Matches(q, fds[call.fd].size, fds[call.fd].data)
    PROVE  IInv'
<1> DEFINE d == call.fd
           f == fds[d].file
<1>1. /\ up' = up /\ inodes' = inodes /\ job' = job /\ candidates' = candidates
      /\ job.op = "idle" /\ NInv /\ FInv /\ WInv /\ NInv'
  BY UnchangedNInv DEF Idle, IInv, vars
<1>2. d \in Open /\ up
  BY <1>1, NoCallOp DEF FInv, CallOK
<1>3. /\ fds \in FdTable /\ f \in Files /\ f \in Used(inodes)
      /\ \A e \in Open : fds[e].file \in Files
      /\ \A table \in Tables : \A g \in Used(table) : g \in Files
      /\ candidates \subseteq Tables /\ inodes \in Tables
  BY <1>1, <1>2, Typed DEF NInv, FInv, TypeOK
<1>4. /\ f \in mixed \/ OpenOn(f) = {d}
      /\ area[inodes[f].start] = fds[d].data /\ candidates = {inodes} /\ inodes[f].size = fds[d].size
  BY <1>1 DEF WInv, Changing, Landed
<1>5. promise \in Promises
  BY <1>1 DEF FInv, Promises
<1>6. promise' \in Promises /\ promise'[f] = q /\ \A g \in Files : g # f => promise'[g] = promise[g]
  BY <1>3, <1>5 DEF Promises
<1>7. f \in mixed \/ Matches(promise'[f], fds[d].size, fds[d].data)
  BY <1>6
<1> HIDE DEF d, f
<1>8. FInv'
  <2>1. CallOK'
    BY <1>1 DEF CallOK
  <2>2. /\ area \in [0..(Areas - 1) -> [Blocks -> Content]] /\ load \in Workloads
        /\ \A e \in Open : up /\ fds[e].file \in Used(inodes)
    BY <1>1 DEF FInv
  <2>3. Open' = Open
    BY DEF Open
  <2> QED BY <1>1, <1>3, <1>6, <2>1, <2>2, <2>3 DEF FInv, FdTable, Promises
<1>9. WInv'
  <2>1. \A g : ~Unwritten(g)' /\ ~Unwritten(g)
    BY <1>1 DEF Unwritten
  <2>2. \A g \in Used(inodes) : g \in mixed \/ Matches(promise'[g], inodes[g].size, area[inodes[g].start])
    <3>1. \A g \in Used(inodes) : g \in mixed \/ Matches(promise[g], inodes[g].size, area[inodes[g].start])
      BY <1>1, <2>1 DEF WInv, InMemory, Contents
    <3> QED BY <3>1, <1>3, <1>4, <1>6, <1>7
  <2>3. InMemory'
    BY <1>1, <2>1, <2>2 DEF InMemory, Contents
  <2>4. OnDisk'
    BY <1>1, <1>4, <2>2 DEF OnDisk
  <2>5. InBuffers'
    <3>1. \A e \in Open : fds[e].file \in mixed \/ Matches(promise[fds[e].file], fds[e].size, fds[e].data)
      BY <1>1 DEF WInv, InBuffers
    <3>2. ASSUME NEW e \in Open
          PROVE  fds[e].file \in mixed \/ Matches(promise'[fds[e].file], fds[e].size, fds[e].data)
      <4>1. CASE fds[e].file # f
        BY <4>1, <3>1, <1>3, <1>6
      <4>2. CASE fds[e].file = f
        <5>1. f \in mixed \/ e = d
          BY <4>2, <1>4 DEF OpenOn
        <5> QED BY <4>2, <5>1, <1>7
      <4> QED BY <4>1, <4>2
    <3>3. Open' = Open
      BY DEF Open
    <3> QED BY <3>2, <3>3 DEF InBuffers
  <2>6. Extends'
    BY <1>1, <2>1 DEF WInv, Extends
  <2>7. Changing'
    BY NoCallOp DEF Changing
  <2> QED BY <2>3, <2>4, <2>5, <2>6, <2>7 DEF WInv
<1> QED BY <1>1, <1>8, <1>9 DEF IInv

\* A promise that allows more
Grown(p, q) == p.size \subseteq q.size /\ \A b \in Blocks : p.data[b] \subseteq q.data[b]

\* What a promise allows, one that allows more allows too.
LEMMA MatchesGrown ==
    ASSUME NEW p, NEW q, Grown(p, q), NEW size, NEW data, Matches(p, size, data)
    PROVE  Matches(q, size, data)
BY DEF Grown, Matches

\* A call starts to write a descriptor back.
LEMMA CallSyncs ==
    ASSUME IInv, NEW f, NEW size \in Sizes, persistent_sync_descriptor(f, size), area' = area, load' = load,
           NEW d, d \in Fds, fds' \in FdTable, fds'[d] \in Descriptor, fds'[d].file = f, fds'[d].size = size,
           \A e \in Fds : e # d => fds'[e] = fds[e],
           promise' \in Promises, \A g \in Files : Grown(promise[g], promise'[g]),
           mixed \subseteq mixed',
           f \in mixed' \/ Matches(promise'[f], size, fds'[d].data),
           call'.fd = d, call'.op \in {"trunc", "write", "fsync", "sync", "close"},
           call'.op \in {"trunc", "write"} => (f \in mixed' \/ OpenOn(f)' = {d}) /\ Changed(d)'
    PROVE  IInv'
<1>1. NInv /\ FInv /\ WInv
  BY DEF IInv
<1>2. /\ up /\ Idle /\ up' = up /\ job' = [op |-> "sync", file |-> f, step |-> 0]
      /\ candidates' = candidates /\ f \in Used(inodes)
  BY DEF persistent_sync_descriptor
<1>3. /\ NInv' /\ Used(inodes') = Used(inodes) /\ inodes'[f].size = size
      /\ \A g \in Used(inodes) : /\ inodes'[g].start = inodes[g].start
                                 /\ g # f => inodes'[g] = inodes[g]
  BY <1>1, SyncStep
<1>4. /\ \A g \in Used(inodes) : g \in Files
      /\ \A table \in Tables : \A g \in Used(table) : g \in Files
      /\ candidates \subseteq Tables /\ fds \in FdTable
  BY <1>1, Typed DEF NInv, TypeOK
<1>5. job'.op = "sync" /\ job'.file = f /\ job'.step = 0 /\ job.op = "idle"
  BY <1>2 DEF Idle
<1>6. Open' = Open \cup {d} /\ d \in Open' /\ \A e \in Open' : e # d => e \in Open /\ fds'[e] = fds[e]
  BY FreeAssumption DEF Open
<1>7. \A e \in Open : fds[e].file \in Files /\ fds[e].file \in Used(inodes)
  BY <1>1, <1>4 DEF FInv
<1>8. FInv'
  <2>1. CallOK'
    BY <1>2, <1>3, <1>5, <1>6 DEF CallOK, Idle
  <2>2. area \in [0..(Areas - 1) -> [Blocks -> Content]] /\ load \in Workloads
    BY <1>1 DEF FInv
  <2>3. \A e \in Open' : fds'[e].file \in Used(inodes)
    BY <1>2, <1>6, <1>7
  <2> QED BY <1>2, <1>3, <1>5, <2>1, <2>2, <2>3 DEF FInv, FdTable, Promises
<1>9. WInv'
  <2>1. \A g : ~Unwritten(g)' /\ ~Unwritten(g)
    BY <1>5 DEF Unwritten
  <2>2. InMemory'
    <3>1. \A g \in Used(inodes) : g \in mixed \/ Matches(promise[g], inodes[g].size, area[inodes[g].start])
      BY <1>1, <2>1 DEF WInv, InMemory, Contents
    <3>2. \A g \in Used(inodes) : g \in mixed' \/ Matches(promise'[g], inodes[g].size, area[inodes[g].start])
      BY <3>1, <1>4, MatchesGrown
    <3>3. f \in mixed' \/ size \in promise'[f].size
      BY DEF Matches
    <3>4. \A g \in Used(inodes) : g \in mixed' \/ Matches(promise'[g], inodes'[g].size, area[inodes'[g].start])
      BY <3>2, <3>3, <1>3, SMTT(30) DEF Matches
    <3> QED BY <3>4, <1>3, <2>1 DEF InMemory, Contents
  <2>3. OnDisk'
    <3>1. \A table \in candidates : \A g \in Used(table) :
              g \in mixed \/ Matches(promise[g], table[g].size, area[table[g].start])
      BY <1>1 DEF WInv, OnDisk
    <3>2. \A table \in candidates : \A g \in Used(table) :
              g \in mixed' \/ Matches(promise'[g], table[g].size, area[table[g].start])
      BY <3>1, <1>4, MatchesGrown
    <3> QED BY <3>2, <1>2 DEF OnDisk
  <2>4. InBuffers'
    <3>1. \A e \in Open : fds[e].file \in mixed \/ Matches(promise[fds[e].file], fds[e].size, fds[e].data)
      BY <1>1 DEF WInv, InBuffers
    <3>2. \A e \in Open : fds[e].file \in mixed' \/ Matches(promise'[fds[e].file], fds[e].size, fds[e].data)
      BY <3>1, <1>7, MatchesGrown, SMTT(30)
    <3> QED BY <3>2, <1>6 DEF InBuffers
  <2>5. Extends'
    BY <1>1, <1>2, <1>3, <1>5, <2>1 DEF WInv, Extends
  <2>6. Changing'
    BY <1>5, SMTT(30) DEF Changing, Landed, Idle
  <2> QED BY <2>2, <2>3, <2>4, <2>5, <2>6 DEF WInv
<1> QED BY <1>3, <1>8, <1>9 DEF IInv

\* O_CREAT: the new file is in no table the disk may hold, and no descriptor
\* is open on it.
LEMMA vfs_open_createStep ==
    ASSUME IInv, vfs_open_create, load' = load
    PROVE  IInv'
<1>1. NInv /\ FInv /\ WInv
  BY DEF IInv
<1>2. PICK mode \in load.modes :
         /\ persistent_create
         /\ call' = [NoCall EXCEPT !.op = "create", !.mode = {mode}, !.fd = job'.file]
         /\ promise' = [promise EXCEPT ![job'.file] = Empty]
         /\ mixed' = mixed \ {job'.file}
  BY DEF vfs_open_create
<1>3. /\ up /\ Idle /\ call = NoCall /\ area' = area /\ fds' = fds /\ job.op = "idle" /\ load \in Workloads
      /\ mode \in Modes
  BY <1>1, FilesAssumption DEF vfs_open_create, Ready, Idle, FInv
<1>4. PICK f \in Files :
        /\ inodes[f] = NoInode
        /\ inodes' = [inodes EXCEPT ![f] = [size |-> 0, start |-> next]]
        /\ job' = [op |-> "create", file |-> f, step |-> 0]
  BY <1>2 DEF persistent_create
<1>5. NInv' /\ up' = up /\ candidates' = candidates
  BY <1>1, <1>2, CreateStep DEF persistent_create
<1>6. job'.op = "create" /\ job'.file = f /\ job'.step = 0
  BY <1>4
<1>7. /\ inodes' \in Tables /\ inodes'[f] = [size |-> 0, start |-> next]
      /\ \A g \in Files : g # f => inodes'[g] = inodes[g]
  BY <1>1, <1>4, <1>5 DEF NInv, TypeOK, Tables
<1>8. /\ \A g : g \in Used(inodes) => g # f /\ g \in Used(inodes') /\ inodes'[g] = inodes[g]
      /\ \A g \in Used(inodes') : g # f => g \in Used(inodes)
      /\ inodes'[f].size = 0
  BY <1>4, <1>7, SMTT(30) DEF Used
<1>9. call'.op = "create" /\ call'.mode = {mode} /\ call'.fd = f
  BY <1>2, <1>6 DEF NoCall
<1>10. Empty \in [size : SUBSET Sizes, data : [Blocks -> SUBSET Content]] /\ Matches(Empty, 0, Zeros)
  <2>1. {0} \in SUBSET Sizes /\ [b \in Blocks |-> {Zero}] \in [Blocks -> SUBSET Content]
    BY NpkfsAssumption DEF Content
  <2>2. Empty \in [size : SUBSET Sizes, data : [Blocks -> SUBSET Content]]
    BY <2>1 DEF Empty
  <2>3. Matches(Empty, 0, Zeros)
    BY DEF Matches, Empty, Zeros
  <2> QED BY <2>2, <2>3
<1>11. /\ promise' \in Promises /\ promise'[f] = Empty
       /\ \A g \in Files : g # f => promise'[g] = promise[g]
  BY <1>1, <1>2, <1>6, <1>10 DEF FInv, Promises
<1>12. /\ \A g \in Used(inodes) : g \in Files
       /\ \A table \in Tables : \A g \in Used(table) : g \in Files
       /\ candidates \subseteq Tables /\ fds \in FdTable
       /\ \A e \in Open : fds[e].file \in Files /\ fds[e].file # f /\ fds[e].file \in Used(inodes)
  BY <1>1, <1>8, Typed DEF NInv, TypeOK, FInv
<1>13. Open' = Open /\ mixed' = mixed \ {f}
  BY <1>2, <1>3, <1>6 DEF Open
<1>14. \A table \in candidates : \A g \in Used(table) : g \in Used(inodes) /\ table[g].start = inodes[g].start
  BY <1>1, <1>3 DEF WInv, Extends
<1>15. FInv'
  <2>1. CallOK'
    <3>1. {mode} \subseteq Modes /\ ~Idle'
      BY <1>3, <1>6 DEF Idle
    <3> QED BY <3>1, <1>3, <1>5, <1>6, <1>9 DEF CallOK
  <2>2. area \in [0..(Areas - 1) -> [Blocks -> Content]] /\ load \in Workloads
    BY <1>1 DEF FInv
  <2>3. \A e \in Open' : up' /\ fds'[e].file \in Used(inodes') /\ fds'[e].file # job'.file
    BY <1>3, <1>5, <1>6, <1>8, <1>12, <1>13
  <2> QED BY <1>3, <1>6, <1>11, <1>12, <2>1, <2>2, <2>3 DEF FInv, FdTable, Promises
<1>16. WInv'
  <2>1. \A g : (Unwritten(g)' <=> g = f) /\ ~Unwritten(g)
    BY <1>3, <1>6 DEF Unwritten
  <2>2. InMemory'
    <3>1. \A g \in Used(inodes) : g \in mixed \/ Matches(promise[g], inodes[g].size, area[inodes[g].start])
      BY <1>1, <2>1 DEF WInv, InMemory, Contents
    <3>2. \A g \in Used(inodes') : g # f =>
              g \in mixed' \/ Matches(promise'[g], inodes'[g].size, area[inodes'[g].start])
      BY <3>1, <1>8, <1>11, <1>12, <1>13
    <3>3. Matches(promise'[f], inodes'[f].size, Zeros)
      BY <1>8, <1>10, <1>11
    <3>4. Zeros' = Zeros
      BY DEF Zeros
    <3> QED BY <3>2, <3>3, <3>4, <2>1, <1>3, SMTT(30) DEF InMemory, Contents
  <2>3. OnDisk'
    <3>1. \A table \in candidates : \A g \in Used(table) :
              g \in mixed \/ Matches(promise[g], table[g].size, area[table[g].start])
      BY <1>1 DEF WInv, OnDisk
    <3>2. \A table \in candidates : \A g \in Used(table) :
              g \in mixed' \/ Matches(promise'[g], table[g].size, area[table[g].start])
      BY <3>1, <1>8, <1>11, <1>12, <1>13, <1>14
    <3> QED BY <3>2, <1>3, <1>5 DEF OnDisk
  <2>4. InBuffers'
    <3>1. \A e \in Open : fds[e].file \in mixed \/ Matches(promise[fds[e].file], fds[e].size, fds[e].data)
      BY <1>1 DEF WInv, InBuffers
    <3> QED BY <3>1, <1>3, <1>11, <1>12, <1>13 DEF InBuffers
  <2>5. Extends'
    BY <1>5, <1>8, <1>14, <2>1 DEF Extends
  <2>6. Changing'
    BY <1>9 DEF Changing
  <2> QED BY <2>2, <2>3, <2>4, <2>5, <2>6 DEF WInv
<1> QED BY <1>5, <1>15, <1>16 DEF IInv

\* What a call under way may have done is allowed.
LEMMA AttemptGrows ==
    ASSUME promise \in Promises, NEW f \in Files, NEW size \in Sizes, NEW at, NEW x \in Content,
           Attempt(f, size, at, x)
    PROVE  /\ promise' \in Promises /\ \A g \in Files : Grown(promise[g], promise'[g])
           /\ size \in promise'[f].size
           /\ \A b \in Blocks : b \in at => x \in promise'[f].data[b]
<1> DEFINE p == promise[f]
           data == [b \in Blocks |-> p.data[b] \cup IF b \in at THEN {x} ELSE {}]
           q == [size |-> p.size \cup {size}, data |-> data]
<1>1. promise' = [promise EXCEPT ![f] = q]
  BY DEF Attempt
<1>2. p.size \subseteq Sizes /\ p.data \in [Blocks -> SUBSET Content]
  BY DEF Promises
<1>3. p.size \cup {size} \in SUBSET Sizes /\ data \in [Blocks -> SUBSET Content]
  BY <1>2
<1>4. \A b \in Blocks : p.data[b] \subseteq data[b] /\ (b \in at => x \in data[b])
  OBVIOUS
<1> HIDE DEF data
<1>5. /\ q \in [size : SUBSET Sizes, data : [Blocks -> SUBSET Content]]
      /\ q.size = p.size \cup {size} /\ q.data = data
  BY <1>3
<1>6. Grown(p, q) /\ size \in q.size /\ \A b \in Blocks : b \in at => x \in q.data[b]
  BY <1>4, <1>5 DEF Grown
<1> HIDE DEF q
<1>7. promise' \in Promises /\ promise'[f] = q /\ \A g \in Files : g # f => promise'[g] = promise[g]
  BY <1>1, <1>5 DEF Promises
<1>8. \A g \in Files : Grown(promise[g], promise[g])
  BY DEF Grown
<1> QED BY <1>6, <1>7, <1>8

\* The rest of vfs_open_flags
LEMMA OpenFileStep ==
    ASSUME IInv, up, Idle, NEW f, f \in Used(inodes), NEW mode \in Modes, OpenFile(f, mode), load' = load
    PROVE  IInv'
<1>1. NInv /\ FInv /\ WInv /\ job.step = 0 /\ job.op = "idle"
  BY DEF IInv, NInv, JobOK, Idle
<1>2. BuffersOK(fds, inodes, mixed, promise) /\ fds \in FdTable /\ promise \in Promises
  BY <1>1, BuffersNow, Typed DEF NInv, FInv, Promises
<1>3. /\ f \in Files /\ inodes[f].size \in Sizes /\ area[inodes[f].start] \in [Blocks -> Content]
      /\ Zeros \in [Blocks -> Content] /\ 0 \in Sizes /\ Sizes = 0..FileBlocks /\ FileBlocks \in Nat
  BY <1>1, Typed DEF NInv
<1>4. ASSUME faults < MaxFaults, faults' = faults + 1, call' = NoCall,
             UNCHANGED <<disk, up, gen, next, inodes, job, ret, candidates, area, fds, promise, mixed>>
      PROVE  IInv'
  <2>1. faults' <= MaxFaults
    BY <1>1, <1>4, NpkfsAssumption, SMTT(30) DEF NInv, TypeOK
  <2>2. NInv'
    BY <1>1, <1>4, <2>1, ReadFaultStep
  <2> QED BY <1>2, <1>4, <2>2, CallReturns
<1> DEFINE d == Min(Fds \ Open)
           cut == mode.trunc /\ mode.write
           size == IF cut THEN 0 ELSE inodes[f].size
           data == IF cut THEN Zeros ELSE area[inodes[f].start]
           new == [file |-> f, size |-> size, data |-> data, offset |-> IF mode.append THEN size ELSE 0,
                   readable |-> mode.read, writable |-> mode.write]
<1>5. ASSUME Cardinality(Open) < load.fds, fds' = [fds EXCEPT ![d] = new],
             IF cut THEN /\ persistent_sync_descriptor(f, 0)
                         /\ call' = [NoCall EXCEPT !.op = "trunc", !.fd = d]
                         /\ Attempt(f, 0, Blocks, Zero)
                         /\ mixed' = IF OpenOn(f) = {} THEN mixed ELSE mixed \cup {f}
                    ELSE call' = NoCall /\ UNCHANGED <<vars, promise, mixed>>,
             area' = area
      PROVE  IInv'
  <2>1. PICK n \in Fds : n = d /\ n \notin Open
    BY <1>1, <1>5, FreeFd DEF FInv
  <2>0. fds' = [fds EXCEPT ![n] = new]
    BY <1>5, <2>1
  <2>2. mode.append \in BOOLEAN /\ mode.read \in BOOLEAN /\ mode.write \in BOOLEAN
    BY DEF Modes
  <2>3. size \in Sizes /\ data \in [Blocks -> Content] /\ (IF mode.append THEN size ELSE 0) \in 0..MaxOffset
    BY <1>3, FilesAssumption, SMTT(30)
  <2>4. new \in Descriptor /\ new.file = f /\ new.size = size /\ new.data = data
    <3> HIDE DEF size, data
    <3>1. new.file = f /\ new.size = size /\ new.data = data
      OBVIOUS
    <3>2. new \in Descriptor
      BY <1>3, <2>2, <2>3 DEF Descriptor
    <3> QED BY <3>1, <3>2
  <2> HIDE DEF new
  <2>5. /\ fds' \in FdTable /\ Open' = Open \cup {n} /\ fds'[n] = new
        /\ \A e \in Fds : e # n => fds'[e] = fds[e]
    BY <1>2, <2>0, <2>4, FdPut
  <2>6. CASE ~cut
    <3>1. call' = NoCall /\ promise' = promise /\ mixed' = mixed /\ UNCHANGED vars
      BY <1>5, <2>6
    <3>2. NInv' /\ up' = up /\ inodes' = inodes /\ job' = job /\ candidates' = candidates
      BY <1>1, <3>1, UnchangedNInv DEF vars
    <3>3. f \in mixed \/ Matches(promise[f], size, data)
      BY <1>1, <2>6 DEF WInv, InMemory, Contents, Unwritten
    <3>4. BuffersOK(fds', inodes, mixed, promise)
      BY <1>2, <2>4, <2>5, <3>3 DEF BuffersOK
    <3> QED BY <1>5, <2>5, <3>1, <3>2, <3>4, CallReturns
  <2>7. CASE cut
    <3>1. /\ persistent_sync_descriptor(f, 0)
          /\ call' = [NoCall EXCEPT !.op = "trunc", !.fd = n]
          /\ Attempt(f, 0, Blocks, Zero)
          /\ mixed' = IF OpenOn(f) = {} THEN mixed ELSE mixed \cup {f}
      BY <1>5, <2>1, <2>7
    <3>2. call'.op = "trunc" /\ call'.fd = n
      BY <3>1 DEF NoCall
    <3>3. size = 0 /\ data = Zeros /\ Zero \in Content
      BY <2>7 DEF Content
    <3>4. /\ promise' \in Promises /\ \A g \in Files : Grown(promise[g], promise'[g])
          /\ 0 \in promise'[f].size /\ \A b \in Blocks : b \in Blocks => Zero \in promise'[f].data[b]
      BY <1>2, <1>3, <3>1, <3>3, AttemptGrows
    <3>5. Matches(promise'[f], 0, Zeros)
      BY <3>4 DEF Matches, Zeros
    <3>6. mixed \subseteq mixed' /\ (f \in mixed' \/ OpenOn(f) = {})
      BY <3>1
    <3>7. f \in mixed' \/ OpenOn(f)' = {n}
      <4>1. ASSUME OpenOn(f) = {} PROVE OpenOn(f)' = {n}
        <5>1. \A e \in Open' : e # n => e \in Open /\ fds'[e] = fds[e]
          BY <2>5 DEF Open
        <5>2. \A e \in Open : fds[e].file # f
          BY <4>1 DEF OpenOn
        <5> QED BY <5>1, <5>2, <2>4, <2>5 DEF OpenOn
      <4> QED BY <4>1, <3>6
    <3>8. fds'[n] \in Descriptor /\ fds'[n].file = f /\ fds'[n].size = 0 /\ fds'[n].data = Zeros
      BY <2>4, <2>5, <3>3
    <3>9. Changed(n)'
      <4>1. Zeros' = Zeros
        BY DEF Zeros
      <4> QED BY <3>2, <3>8, <4>1 DEF Changed
    <3>10. persistent_sync_descriptor(f, 0) /\ area' = area /\ 0 \in Sizes /\ n \in Fds
      BY <1>3, <1>5, <3>1
    <3>11. /\ fds' \in FdTable /\ \A e \in Fds : e # n => fds'[e] = fds[e]
           /\ f \in mixed' \/ Matches(promise'[f], 0, fds'[n].data)
      BY <2>5, <3>5, <3>8
    <3>12. call'.op \in {"trunc", "write", "fsync", "sync", "close"}
      BY <3>2
    <3> HIDE DEF cut, size, data, d
    <3> QED BY <3>2, <3>4, <3>6, <3>7, <3>8, <3>9, <3>10, <3>11, <3>12, CallSyncs, SMTT(30)
  <2> QED BY <2>6, <2>7
<1>6. ASSUME call' = NoCall, UNCHANGED <<vars, area, fds, promise, mixed>>
      PROVE  IInv'
  <2>1. NInv'
    BY <1>1, <1>6, UnchangedNInv
  <2>2. up' = up /\ inodes' = inodes /\ job' = job /\ candidates' = candidates
    BY <1>6 DEF vars
  <2> QED BY <1>2, <1>6, <2>1, <2>2, CallReturns
<1>7. \/ call' = NoCall /\ UNCHANGED <<vars, area, fds, promise, mixed>>
      \/ /\ faults < MaxFaults /\ faults' = faults + 1 /\ call' = NoCall
         /\ UNCHANGED <<disk, up, gen, next, inodes, job, ret, candidates, area, fds, promise, mixed>>
      \/ /\ Cardinality(Open) < load.fds /\ fds' = [fds EXCEPT ![d] = new]
         /\ IF cut THEN /\ persistent_sync_descriptor(f, 0)
                        /\ call' = [NoCall EXCEPT !.op = "trunc", !.fd = d]
                        /\ Attempt(f, 0, Blocks, Zero)
                        /\ mixed' = IF OpenOn(f) = {} THEN mixed ELSE mixed \cup {f}
                   ELSE call' = NoCall /\ UNCHANGED <<vars, promise, mixed>>
         /\ area' = area
  BY DEF OpenFile
<1> HIDE DEF d, new
<1> QED BY <1>4, <1>5, <1>7, <1>6

\* open of a file that is there
LEMMA vfs_openStep ==
    ASSUME IInv, vfs_open, load' = load
    PROVE  IInv'
<1>1. PICK f \in Used(inodes), mode \in load.modes : OpenFile(f, mode)
  BY DEF vfs_open
<1>2. up /\ Idle /\ mode \in Modes
  BY FilesAssumption DEF vfs_open, Ready, IInv, FInv
<1> QED BY <1>1, <1>2, OpenFileStep

\* open of a file that was made
LEMMA CreatedStep ==
    ASSUME IInv, Created, load' = load
    PROVE  IInv'
<1>1. call.op = "create" /\ Idle /\ FInv /\ NInv
  BY DEF Created, IInv
<1>2. up /\ call.mode \subseteq Modes /\ (ret = "ok" => call.fd \in Used(inodes))
  BY <1>1, NoCallOp DEF FInv, CallOK
<1>3. CASE ret = "ok"
  <2>1. PICK mode \in call.mode : OpenFile(call.fd, mode)
    BY <1>3 DEF Created
  <2>2. PICK f : f = call.fd
    OBVIOUS
  <2>3. OpenFile(f, mode) /\ f \in Used(inodes) /\ mode \in Modes
    BY <2>1, <2>2, <1>2, <1>3
  <2> QED BY <2>3, <1>1, <1>2, OpenFileStep
<1>4. CASE ret # "ok"
  <2>1. call' = NoCall /\ UNCHANGED <<vars, area, fds, promise, mixed>>
    BY <1>4 DEF Created
  <2>2. NInv' /\ up' = up /\ inodes' = inodes /\ job' = job /\ candidates' = candidates
    BY <1>1, <2>1, UnchangedNInv DEF vars
  <2>3. fds' \in FdTable /\ BuffersOK(fds', inodes, mixed, promise)
    BY <1>1, <2>1, BuffersNow, Typed DEF NInv
  <2> QED BY <1>1, <1>2, <2>1, <2>2, <2>3, CallReturns
<1> QED BY <1>3, <1>4

\* O_TRUNC returns, or gives its descriptor back.
LEMMA TruncatedStep ==
    ASSUME IInv, Truncated, load' = load
    PROVE  IInv'
<1>1. /\ call.op = "trunc" /\ Idle /\ call' = NoCall /\ UNCHANGED vars /\ area' = area /\ mixed' = mixed
      /\ NInv /\ FInv /\ WInv
  BY DEF Truncated, IInv
<1>2. call.fd \in Open /\ up
  BY <1>1, NoCallOp DEF FInv, CallOK
<1>3. call.fd \in Fds /\ fds \in FdTable /\ fds[call.fd].file \in Files
  BY <1>1, <1>2, Typed DEF NInv
<1>4. CASE ret = "ok"
  <2>1. PICK f \in Files : f = fds[call.fd].file
    BY <1>3
  <2>2. Done(f, {0}, Blocks, Zero) /\ fds' = fds
    BY <1>4, <2>1 DEF Truncated
  <2> DEFINE q == [size |-> {0}, data |-> [b \in Blocks |-> IF b \in Blocks THEN {Zero} ELSE promise[f].data[b]]]
  <2>3. promise' = [promise EXCEPT ![f] = q]
    BY <2>2 DEF Done
  <2>4. q \in [size : SUBSET Sizes, data : [Blocks -> SUBSET Content]]
    <3>1. {0} \in SUBSET Sizes
      BY NpkfsAssumption
    <3>2. [b \in Blocks |-> IF b \in Blocks THEN {Zero} ELSE promise[f].data[b]] \in [Blocks -> SUBSET Content]
      BY DEF Content
    <3> QED BY <3>1, <3>2
  <2>5. fds[call.fd].size = 0 /\ fds[call.fd].data = Zeros
    BY <1>1 DEF WInv, Changing, Changed
  <2>6. Matches(q, 0, Zeros)
    BY DEF Matches, Zeros
  <2>7. PICK r \in [size : SUBSET Sizes, data : [Blocks -> SUBSET Content]] : r = q
    BY <2>4
  <2> HIDE DEF q
  <2>8. /\ promise' = [promise EXCEPT ![fds[call.fd].file] = r]
        /\ Matches(r, fds[call.fd].size, fds[call.fd].data) /\ call.op \in {"trunc", "write"}
    BY <1>1, <2>1, <2>3, <2>5, <2>6, <2>7
  <2> QED BY <1>1, <1>4, <2>2, <2>7, <2>8, CallSucceeds
<1>5. CASE ret # "ok"
  <2>1. PICK d \in Fds : d = call.fd
    BY <1>3
  <2>2. fds' = [fds EXCEPT ![d] = Free] /\ promise' = promise
    BY <1>5, <2>1 DEF Truncated
  <2>3. fds' \in FdTable /\ Open' = Open \ {d} /\ \A e \in Fds : e # d => fds'[e] = fds[e]
    BY <1>3, <2>2, FdFree
  <2>4. NInv' /\ up' = up /\ inodes' = inodes /\ job' = job /\ candidates' = candidates
    BY <1>1, UnchangedNInv DEF vars
  <2>5. fds'[d] = Free
    BY <1>3, <2>2 DEF FdTable
  <2>6. BuffersOK(fds', inodes, mixed, promise)
    BY <2>3, <2>5, BuffersNow DEF BuffersOK
  <2> QED BY <1>1, <1>2, <2>2, <2>3, <2>4, <2>6, CallReturns
<1> QED BY <1>4, <1>5

\* A new offset leaves everything else of a descriptor alone.
LEMMA OffsetMoves ==
    ASSUME fds \in FdTable, NEW d \in Fds, fds[d] \in Descriptor, NEW v \in 0..MaxOffset,
           fds' = [fds EXCEPT ![d].offset = v]
    PROVE  /\ fds' \in FdTable /\ fds'[d] \in Descriptor /\ fds'[d].file = fds[d].file
           /\ fds'[d].size = fds[d].size /\ fds'[d].data = fds[d].data
           /\ \A e \in Fds : e # d => fds'[e] = fds[e]
<1> DEFINE new == [fds[d] EXCEPT !.offset = v]
<1>1. fds' = [fds EXCEPT ![d] = new]
  OBVIOUS
<1>2. new \in Descriptor /\ new.file = fds[d].file /\ new.size = fds[d].size /\ new.data = fds[d].data
  BY DEF Descriptor
<1> HIDE DEF new
<1>3. fds' \in FdTable /\ fds'[d] = new /\ \A e \in Fds : e # d => fds'[e] = fds[e]
  BY <1>1, <1>2, FdPut
<1> QED BY <1>2, <1>3

\* read and lseek
LEMMA OffsetStep ==
    ASSUME IInv, Ready, NEW d \in Open, NEW v \in 0..MaxOffset, fds' = [fds EXCEPT ![d].offset = v],
           UNCHANGED <<vars, area, call, promise, mixed>>, load' = load
    PROVE  IInv'
<1>1. up /\ Idle /\ call' = NoCall /\ NInv /\ FInv
  BY DEF Ready, IInv
<1>2. NInv' /\ up' = up /\ inodes' = inodes /\ job' = job /\ candidates' = candidates
  BY <1>1, UnchangedNInv DEF vars
<1>3. d \in Fds /\ fds \in FdTable /\ fds[d] \in Descriptor
  BY <1>1, Typed DEF NInv
<1>4. /\ fds' \in FdTable /\ fds'[d] \in Descriptor /\ fds'[d].file = fds[d].file
      /\ fds'[d].size = fds[d].size /\ fds'[d].data = fds[d].data
      /\ \A e \in Fds : e # d => fds'[e] = fds[e]
  BY <1>3, OffsetMoves
<1>5. BuffersOK(fds', inodes, mixed, promise)
  <2>1. BuffersOK(fds, inodes, mixed, promise) /\ fds[d] # Free
    BY BuffersNow DEF Open
  <2> QED BY <2>1, <1>4 DEF BuffersOK
<1> QED BY <1>1, <1>2, <1>4, <1>5, CallReturns

\* read moves the offset, to the end of the file at most.
LEMMA vfs_readStep ==
    ASSUME IInv, NEW d, NEW amount \in Blocks, vfs_read(d, amount), load' = load
    PROVE  IInv'
<1> DEFINE v == Min({fds[d].offset + amount, fds[d].size})
<1>1. /\ Ready /\ d \in Open /\ fds[d].offset < fds[d].size /\ fds' = [fds EXCEPT ![d].offset = v]
      /\ UNCHANGED <<vars, area, call, promise, mixed>>
  BY DEF vfs_read
<1>2. /\ fds[d].offset \in 0..MaxOffset /\ fds[d].size \in Sizes /\ Sizes = 0..FileBlocks /\ FileBlocks \in Nat
      /\ amount \in Nat /\ MaxOffset \in Nat /\ MaxOffset >= FileBlocks
  BY <1>1, Typed, FilesAssumption, SMTT(30) DEF IInv, NInv, Blocks
<1>3. {fds[d].offset + amount, fds[d].size} \subseteq Nat /\ {fds[d].offset + amount, fds[d].size} # {}
  BY <1>2, SMTT(30)
<1>4. v \in {fds[d].offset + amount, fds[d].size} /\ v <= fds[d].size
  BY <1>3, MinOf
<1>5. v \in 0..MaxOffset
  BY <1>2, <1>4, SMTT(30)
<1>6. PICK w \in 0..MaxOffset : w = v
  BY <1>5
<1> QED BY <1>1, <1>6, OffsetStep

\* lseek moves the offset.
LEMMA vfs_seekStep ==
    ASSUME IInv, NEW d, NEW target \in 0..MaxOffset, vfs_seek(d, target), load' = load
    PROVE  IInv'
BY OffsetStep DEF vfs_seek

\* A write-back starts: fsync, sync, close.
LEMMA WriteBackStep ==
    ASSUME IInv, NEW op \in {"fsync", "sync", "close"}, NEW d \in Open, WriteBack(op, d), load' = load
    PROVE  IInv'
<1>1. /\ persistent_sync_descriptor(fds[d].file, fds[d].size)
      /\ call' = [NoCall EXCEPT !.op = op, !.fd = d] /\ area' = area /\ fds' = fds /\ promise' = promise /\ mixed' = mixed
      /\ NInv /\ FInv /\ WInv
  BY DEF WriteBack, IInv
<1>2. /\ d \in Fds /\ fds \in FdTable /\ fds[d] \in Descriptor /\ fds[d].file \in Files /\ fds[d].size \in Sizes
      /\ promise \in Promises
  BY <1>1, Typed DEF NInv, FInv, Promises
<1>3. PICK f \in Files, size \in Sizes : f = fds[d].file /\ size = fds[d].size
  BY <1>2
<1>4. call'.op = op /\ call'.fd = d
  BY <1>1 DEF NoCall
<1>5. \A g \in Files : Grown(promise[g], promise'[g])
  BY <1>1 DEF Grown
<1>6. f \in mixed' \/ Matches(promise'[f], size, fds'[d].data)
  BY <1>1, <1>3 DEF WInv, InBuffers
<1>7. /\ persistent_sync_descriptor(f, size) /\ fds' \in FdTable /\ fds'[d] \in Descriptor /\ fds'[d].file = f
      /\ fds'[d].size = size /\ promise' \in Promises /\ mixed \subseteq mixed'
      /\ \A e \in Fds : e # d => fds'[e] = fds[e]
      /\ call'.op \in {"trunc", "write", "fsync", "sync", "close"} /\ call'.op \notin {"trunc", "write"}
  BY <1>1, <1>2, <1>3, <1>4
<1> QED BY <1>1, <1>2, <1>4, <1>5, <1>6, <1>7, CallSyncs

\* A write-back returned: sync goes on, close frees its descriptor.
LEMMA WroteBackStep ==
    ASSUME IInv, WroteBack, load' = load
    PROVE  IInv'
<1>1. call.op \in {"fsync", "sync", "close"} /\ Idle /\ NInv /\ FInv
  BY DEF WroteBack, IInv
<1>2. up /\ call.fd \in Open
  BY <1>1, NoCallOp DEF FInv, CallOK
<1>3. fds \in FdTable /\ call.fd \in Fds
  BY <1>1, <1>2, Typed DEF NInv
<1> DEFINE later == {d \in Open : d > call.fd}
<1>4. CASE call.op = "sync" /\ later # {}
  <2>1. later \subseteq Nat
    BY SMTT(30) DEF Open, Fds
  <2>2. Min(later) \in later
    <3> HIDE DEF later
    <3> QED BY <1>4, <2>1, MinOf
  <2>3. PICK d \in Open : d = Min(later)
    BY <2>2
  <2>4. WriteBack("sync", d)
    BY <1>4, <2>3 DEF WroteBack
  <2> QED BY <2>4, WriteBackStep
<1>5. CASE ~(call.op = "sync" /\ later # {})
  <2>1. /\ call' = NoCall /\ UNCHANGED <<vars, area, promise, mixed>>
        /\ fds' = IF call.op = "close" THEN [fds EXCEPT ![call.fd] = Free] ELSE fds
    BY <1>5 DEF WroteBack
  <2>2. NInv' /\ up' = up /\ inodes' = inodes /\ job' = job /\ candidates' = candidates
    BY <1>1, <2>1, UnchangedNInv DEF vars
  <2>3. fds' \in FdTable /\ \A e \in Fds : fds'[e] = fds[e] \/ fds'[e] = Free
    BY <1>3, <2>1 DEF FdTable
  <2>4. BuffersOK(fds', inodes, mixed, promise)
    BY <2>3, BuffersNow DEF BuffersOK
  <2> QED BY <1>1, <1>2, <2>1, <2>2, <2>3, <2>4, CallReturns
<1> QED BY <1>4, <1>5

\* sync starts with the lowest open descriptor.
LEMMA vfs_sync_allStep ==
    ASSUME IInv, vfs_sync_all, load' = load
    PROVE  IInv'
<1>1. Open # {} /\ WriteBack("sync", Min(Open))
  BY DEF vfs_sync_all
<1>2. Open \subseteq Nat
  BY SMTT(30) DEF Open, Fds
<1>3. PICK d \in Open : d = Min(Open)
  BY <1>1, <1>2, MinOf
<1> QED BY <1>1, <1>3, WriteBackStep

\* The blocks a write changes and the size it leaves are in range.
LEMMA SpanOK ==
    ASSUME NEW d, NEW amount \in Blocks, fds[d].offset \in Nat, fds[d].offset < FileBlocks, fds[d].size \in Sizes
    PROVE  /\ Span(d, amount) \subseteq Blocks /\ Max(Span(d, amount)) \in 0..MaxOffset
           /\ SizeAfter(d, amount) \in Sizes
<1> DEFINE o == fds[d].offset
           m == Min({o + amount, FileBlocks})
           span == (o + 1)..m
<1>1. FileBlocks \in Nat /\ MaxOffset \in Nat /\ MaxOffset >= FileBlocks /\ Sizes = 0..FileBlocks
      /\ amount \in Nat /\ amount # 0
  BY FilesAssumption, SMTT(30) DEF Blocks
<1>2. {o + amount, FileBlocks} \subseteq Nat /\ {o + amount, FileBlocks} # {}
  BY <1>1, SMTT(30)
<1>3. m \in {o + amount, FileBlocks} /\ m <= FileBlocks
  BY <1>2, MinOf
<1>4. m \in Nat /\ o + 1 <= m
  BY <1>1, <1>3, SMTT(30)
<1> HIDE DEF m
<1>5. span \subseteq 1..FileBlocks /\ m \in span
  BY <1>1, <1>3, <1>4, SMTT(30)
<1>6. Span(d, amount) = span
  BY DEF Span, m
<1> HIDE DEF span
<1>7. span \subseteq 0..FileBlocks /\ span # {}
  BY <1>1, <1>5, SMTT(30)
<1>8. Max(span) \in span
  BY <1>1, <1>7, MaxOf
<1>9. Max({fds[d].size} \cup span) \in {fds[d].size} \cup span
  <2>1. {fds[d].size} \cup span \subseteq 0..FileBlocks /\ {fds[d].size} \cup span # {}
    BY <1>1, <1>7
  <2> QED BY <1>1, <2>1, MaxOf
<1>10. SizeAfter(d, amount) = Max({fds[d].size} \cup span)
  BY <1>6 DEF SizeAfter
<1>11. span \subseteq Blocks
  BY <1>5 DEF Blocks
<1>12. Max(span) \in 0..MaxOffset
  <2>1. Max(span) \in 0..FileBlocks
    BY <1>7, <1>8
  <2> QED BY <1>1, <2>1, SMTT(30)
<1>13. SizeAfter(d, amount) \in Sizes
  BY <1>1, <1>7, <1>9, <1>10
<1> QED BY <1>6, <1>11, <1>12, <1>13

\* write
LEMMA vfs_writeStep ==
    ASSUME IInv, NEW d, NEW amount \in Blocks, NEW x \in load.values, vfs_write(d, amount, x), load' = load
    PROVE  IInv'
<1>1. /\ d \in Open /\ fds[d].offset < FileBlocks /\ area' = area
      /\ NInv /\ FInv /\ WInv
  BY DEF vfs_write, IInv
<1>2. /\ d \in Fds /\ fds \in FdTable /\ fds[d] \in Descriptor /\ fds[d].file \in Files /\ fds[d].size \in Sizes
      /\ fds[d].offset \in 0..MaxOffset /\ fds[d].data \in [Blocks -> Content]
      /\ promise \in Promises /\ load \in Workloads
  BY <1>1, Typed DEF NInv, FInv, Promises
<1>3. x \in Content
  BY <1>2 DEF Content, Written
<1>4. /\ Span(d, amount) \subseteq Blocks /\ Max(Span(d, amount)) \in 0..MaxOffset
      /\ SizeAfter(d, amount) \in Sizes
  BY <1>1, <1>2, SpanOK, FilesAssumption, SMTT(30)
<1>5. PICK f \in Files, span \in SUBSET Blocks, size \in Sizes, top \in 0..MaxOffset, old \in Sizes :
        /\ f = fds[d].file /\ span = Span(d, amount) /\ size = SizeAfter(d, amount) /\ top = Max(Span(d, amount))
        /\ old = fds[d].size
  BY <1>2, <1>4
<1>6. size = Max({old} \cup span)
  BY <1>5 DEF SizeAfter
<1>7. /\ fds' = [fds EXCEPT ![d].data = [b \in Blocks |-> IF b \in span THEN x ELSE @[b]],
                            ![d].offset = top, ![d].size = size]
      /\ persistent_sync_descriptor(f, size)
      /\ call' = [NoCall EXCEPT !.op = "write", !.fd = d, !.old = old, !.at = span, !.x = x]
      /\ Attempt(f, size, span, x)
      /\ mixed' = IF OpenOn(f) = {d} THEN mixed ELSE mixed \cup {f}
  BY <1>5 DEF vfs_write
<1> DEFINE data == [b \in Blocks |-> IF b \in span THEN x ELSE fds[d].data[b]]
           new == [fds[d] EXCEPT !.data = data, !.offset = top, !.size = size]
<1>8. data \in [Blocks -> Content]
  BY <1>2, <1>3
<1>9. fds' = [fds EXCEPT ![d] = new]
  <2>1. fds' = [fds EXCEPT ![d].data = data, ![d].offset = top, ![d].size = size]
    BY <1>7
  <2> HIDE DEF data
  <2> QED BY <2>1, <1>2 DEF FdTable
<1>10. new \in Descriptor /\ new.file = f /\ new.size = size /\ new.data = data
  <2> HIDE DEF data
  <2> QED BY <1>2, <1>5, <1>8 DEF Descriptor
<1> HIDE DEF new
<1>11. /\ fds' \in FdTable /\ Open' = Open \cup {d} /\ fds'[d] = new
       /\ \A e \in Fds : e # d => fds'[e] = fds[e]
  BY <1>2, <1>9, <1>10, FdPut
<1>12. /\ promise' \in Promises /\ \A g \in Files : Grown(promise[g], promise'[g])
       /\ size \in promise'[f].size /\ \A b \in Blocks : b \in span => x \in promise'[f].data[b]
  BY <1>2, <1>3, <1>7, AttemptGrows
<1>13. mixed \subseteq mixed' /\ (f \in mixed' \/ OpenOn(f) = {d})
  BY <1>7
<1>14. f \in mixed \/ (old \in promise[f].size /\ \A b \in Blocks : fds[d].data[b] \in promise[f].data[b])
  BY <1>1, <1>5 DEF WInv, InBuffers, Matches
<1>15. f \in mixed' \/ (old \in promise'[f].size /\ Matches(promise'[f], size, data))
  <2>1. Grown(promise[f], promise'[f])
    BY <1>12
  <2>2. CASE f \in mixed
    BY <2>2, <1>13
  <2>3. CASE f \notin mixed
    <3>1. old \in promise'[f].size
      BY <2>1, <2>3, <1>14 DEF Grown
    <3>2. \A b \in Blocks : data[b] \in promise'[f].data[b]
      BY <2>1, <2>3, <1>12, <1>14 DEF Grown
    <3> QED BY <3>1, <3>2, <1>12 DEF Matches
  <2> QED BY <2>2, <2>3
<1>16. \A b \in span : data[b] = x
  OBVIOUS
<1> HIDE DEF data
<1>17. f \in mixed' \/ OpenOn(f)' = {d}
  <2>1. ASSUME OpenOn(f) = {d} PROVE OpenOn(f)' = {d}
    <3>1. \A e \in Open' : e # d => e \in Open /\ fds'[e] = fds[e]
      BY <1>11 DEF Open
    <3>2. \A e \in Open : e # d => fds[e].file # f
      BY <2>1 DEF OpenOn
    <3> QED BY <3>1, <3>2, <1>10, <1>11 DEF OpenOn
  <2> QED BY <2>1, <1>13
<1>18. fds'[d] \in Descriptor /\ fds'[d].file = f /\ fds'[d].size = size /\ fds'[d].data = data
  BY <1>10, <1>11
<1>19. call'.op = "write" /\ call'.fd = d /\ call'.old = old /\ call'.at = span /\ call'.x = x
  BY <1>7 DEF NoCall
<1>20. Changed(d)'
  BY <1>6, <1>15, <1>16, <1>18, <1>19 DEF Changed
<1>21. persistent_sync_descriptor(f, size) /\ call'.op \in {"trunc", "write", "fsync", "sync", "close"}
  BY <1>7, <1>19
<1>22. f \in mixed' \/ Matches(promise'[f], size, fds'[d].data)
  BY <1>15, <1>18
<1>23. call'.op \in {"trunc", "write"} => (f \in mixed' \/ OpenOn(f)' = {d}) /\ Changed(d)'
  BY <1>17, <1>20
<1> QED BY <1>1, <1>2, <1>11, <1>12, <1>13, <1>18, <1>19, <1>21, <1>22, <1>23, CallSyncs, SMTT(30)

\* write returns, or takes its buffer and size back.
LEMMA WroteStep ==
    ASSUME IInv, Wrote, load' = load
    PROVE  IInv'
<1>1. /\ call.op = "write" /\ Idle /\ call' = NoCall /\ area' = area /\ mixed' = mixed
      /\ NInv /\ FInv /\ WInv
  BY DEF Wrote, IInv
<1>2. call.fd \in Open /\ up
  BY <1>1, NoCallOp DEF FInv, CallOK
<1>3. PICK d \in Open : d = call.fd
  BY <1>2
<1>4. /\ d \in Fds /\ fds \in FdTable /\ fds[d] \in Descriptor /\ fds[d].file \in Files /\ fds[d].size \in Sizes
      /\ fds[d].offset \in 0..MaxOffset /\ fds[d].data \in [Blocks -> Content] /\ fds[d].file \in Used(inodes)
      /\ promise \in Promises /\ area[inodes[fds[d].file].start] \in [Blocks -> Content]
  BY <1>1, Typed DEF NInv, FInv, Promises
<1>5. PICK f \in Files : f = fds[d].file
  BY <1>4
<1>6. /\ call.old \in Sizes /\ call.at \subseteq Blocks
      /\ fds[d].size = Max({call.old} \cup call.at)
      /\ \A b \in call.at : fds[d].data[b] = call.x
      /\ f \in mixed \/ call.old \in promise[f].size
  BY <1>1, <1>3, <1>5 DEF WInv, Changing, Changed
<1>7. f \in mixed \/ Matches(promise[f], fds[d].size, fds[d].data)
  BY <1>1, <1>5 DEF WInv, InBuffers
<1>8. CASE ret = "ok"
  <2> DEFINE sizes == {Max({n} \cup call.at) : n \in promise[f].size}
             data == [b \in Blocks |-> IF b \in call.at THEN {call.x} ELSE promise[f].data[b]]
             q == [size |-> sizes, data |-> data]
  <2>1. UNCHANGED vars /\ fds' = fds /\ Done(f, sizes, call.at, call.x)
    BY <1>1, <1>3, <1>5, <1>8 DEF Wrote
  <2>2. promise' = [promise EXCEPT ![f] = q]
    BY <2>1 DEF Done
  <2>3. sizes \in SUBSET Sizes
    <3>1. ASSUME NEW n \in promise[f].size PROVE Max({n} \cup call.at) \in Sizes
      <4>1. FileBlocks \in Nat /\ Sizes = 0..FileBlocks /\ n \in Sizes
        BY <1>4, FilesAssumption DEF Promises
      <4>2. {n} \cup call.at \subseteq 0..FileBlocks /\ {n} \cup call.at # {}
        BY <4>1, <1>6, SMTT(30) DEF Blocks
      <4> QED BY <4>1, <4>2, MaxOf
    <3> QED BY <3>1
  <2>4. data \in [Blocks -> SUBSET Content]
    <3>1. ASSUME NEW b \in Blocks PROVE (IF b \in call.at THEN {call.x} ELSE promise[f].data[b]) \in SUBSET Content
      <4>1. promise[f].data[b] \in SUBSET Content /\ fds[d].data[b] \in Content
        BY <1>4 DEF Promises
      <4> QED BY <4>1, <1>6
    <3> QED BY <3>1
  <2>5. f \in mixed \/ Matches(q, fds[d].size, fds[d].data)
    <3>1. ASSUME f \notin mixed PROVE fds[d].size \in sizes /\ \A b \in Blocks : fds[d].data[b] \in data[b]
      <4>1. fds[d].size \in sizes
        BY <3>1, <1>6
      <4>2. \A b \in Blocks : fds[d].data[b] \in promise[f].data[b]
        BY <3>1, <1>7 DEF Matches
      <4> QED BY <4>1, <4>2, <1>6
    <3> HIDE DEF sizes, data
    <3> QED BY <3>1 DEF Matches
  <2>6. q \in [size : SUBSET Sizes, data : [Blocks -> SUBSET Content]]
    <3> HIDE DEF sizes, data
    <3> QED BY <2>3, <2>4
  <2>7. PICK r \in [size : SUBSET Sizes, data : [Blocks -> SUBSET Content]] : r = q
    BY <2>6
  <2> HIDE DEF q, sizes, data
  <2>8. /\ promise' = [promise EXCEPT ![fds[call.fd].file] = r] /\ call.op \in {"trunc", "write"}
        /\ fds[call.fd].file \in mixed \/ Matches(r, fds[call.fd].size, fds[call.fd].data)
    BY <1>1, <1>3, <1>5, <2>2, <2>5, <2>7
  <2> QED BY <1>1, <1>8, <2>1, <2>7, <2>8, CallSucceeds
<1>9. CASE ret # "ok"
  <2>1. PICK data \in PartOf(fds[d].data, area[inodes[f].start]) :
          /\ fds' = [fds EXCEPT ![d].data = data, ![d].size = call.old, ![d].offset = Min({@, call.old})]
          /\ faults' = faults \/ (faults < MaxFaults /\ faults' = faults + 1)
    BY <1>3, <1>5, <1>9 DEF Wrote
  <2>2. UNCHANGED <<disk, up, gen, next, inodes, job, ret, candidates, promise>>
    BY <1>9 DEF Wrote
  <2>3. NInv'
    <3>1. CASE faults' = faults
      BY <3>1, <2>2, <1>1, UnchangedNInv DEF vars
    <3>2. CASE faults < MaxFaults /\ faults' = faults + 1
      <4>1. faults' <= MaxFaults /\ job.step = 0
        BY <1>1, <3>2, NpkfsAssumption, SMTT(30) DEF NInv, TypeOK, JobOK
      <4> QED BY <4>1, <3>2, <2>2, <1>1, ReadFaultStep
    <3> QED BY <3>1, <3>2, <2>1
  <2>4. /\ data \in [Blocks -> Content]
        /\ \A b \in Blocks : data[b] = fds[d].data[b] \/ data[b] = area[inodes[f].start][b]
    BY <1>4, <1>5 DEF PartOf
  <2>5. f \in mixed \/ Matches(promise[f], call.old, data)
    <3>1. f \in mixed \/ Matches(promise[f], inodes[f].size, area[inodes[f].start])
      BY <1>1, <1>4, <1>5 DEF WInv, InMemory, Contents, Unwritten, Idle
    <3> QED BY <3>1, <2>4, <1>6, <1>7 DEF Matches
  <2>6. PICK top \in 0..MaxOffset : top = Min({fds[d].offset, call.old})
    <3>1. FileBlocks \in Nat /\ Sizes = 0..FileBlocks /\ MaxOffset \in Nat
      BY FilesAssumption
    <3>2. {fds[d].offset, call.old} \subseteq Nat /\ {fds[d].offset, call.old} # {}
      BY <3>1, <1>4, <1>6, SMTT(30)
    <3>3. Min({fds[d].offset, call.old}) \in {fds[d].offset, call.old} /\ Min({fds[d].offset, call.old}) <= fds[d].offset
      BY <3>2, MinOf
    <3>4. Min({fds[d].offset, call.old}) \in 0..MaxOffset
      BY <3>1, <3>2, <3>3, <1>4, SMTT(30)
    <3> QED BY <3>4
  <2> DEFINE new == [fds[d] EXCEPT !.data = data, !.size = call.old, !.offset = top]
  <2>7. fds' = [fds EXCEPT ![d] = new]
    <3>1. fds' = [fds EXCEPT ![d].data = data, ![d].size = call.old, ![d].offset = Min({@, call.old})]
      BY <2>1
    <3>2. [fds EXCEPT ![d].data = data, ![d].size = call.old, ![d].offset = Min({@, call.old})]
          = [fds EXCEPT ![d] = new]
      BY <2>6, <1>4 DEF FdTable, Descriptor
    <3> QED BY <3>1, <3>2
  <2>8. new \in Descriptor /\ new.file = f /\ new.size = call.old /\ new.data = data
    BY <1>4, <1>5, <1>6, <2>4 DEF Descriptor
  <2> HIDE DEF new
  <2>9. fds' \in FdTable /\ fds'[d] = new /\ \A e \in Fds : e # d => fds'[e] = fds[e]
    BY <1>4, <2>7, <2>8, FdPut
  <2>10. BuffersOK(fds', inodes, mixed, promise)
    BY <1>4, <1>5, <2>5, <2>8, <2>9, BuffersNow DEF BuffersOK
  <2> QED BY <1>1, <1>2, <2>2, <2>3, <2>9, <2>10, CallReturns
<1> QED BY <1>8, <1>9

-----------------------------------------------------------------------------
(* The invariant under the steps of the disk.                              *)

\* What is written to a data area, whole or in part, is allowed there, and no
\* other file of memory or of the disk has that area.
LEMMA AreaWritten ==
    ASSUME IInv, up, ~Idle, job.step = 0, NEW data \in [Blocks -> Content], area' = [area EXCEPT ![Start] = data],
           NEW p \in Promises, \A g \in Files : Grown(promise[g], p[g]),
           \A b \in Blocks : \/ data[b] = area[Start][b]
                             \/ data[b] = Buffer[b]
                             \/ data[b] \in p[job.file].data[b]
    PROVE  /\ area' \in [0..(Areas - 1) -> [Blocks -> Content]] /\ area'[Start] = data
           /\ \A table \in candidates : \A g \in Used(table) :
                 g \in mixed \/ Matches(p[g], table[g].size, area'[table[g].start])
           /\ \A g \in Used(inodes) : \/ g = job.file /\ job.op = "create"
                                      \/ g \in mixed \/ Matches(p[g], inodes[g].size, area'[inodes[g].start])
           /\ job.file \in mixed \/ Matches(p[job.file], inodes[job.file].size, Buffer)
<1>1. NInv /\ FInv /\ WInv /\ job.op \in {"create", "sync"} /\ Apart(inodes, next)
  BY DEF IInv, NInv, JobOK, Idle
<1>2. PICK f : f = job.file
  OBVIOUS
<1>3. /\ f \in Used(inodes) /\ f \in Files /\ Start = inodes[f].start /\ Start \in 0..(Areas - 1)
      /\ \A g \in Used(inodes) : g \in Files /\ inodes[g].start \in 0..(Areas - 1)
      /\ \A table \in Tables : \A g \in Used(table) : g \in Files
      /\ candidates \subseteq Tables /\ area \in [0..(Areas - 1) -> [Blocks -> Content]]
  BY <1>1, <1>2, Typed DEF NInv, JobOK, Start, TypeOK, FInv
<1>4. /\ area' \in [0..(Areas - 1) -> [Blocks -> Content]] /\ area'[Start] = data
      /\ \A a \in 0..(Areas - 1) : a # Start => area'[a] = area[a]
  BY <1>3
<1>5. \A g \in Used(inodes) : g # f => inodes[g].start # Start
  BY <1>1, <1>3 DEF Apart
<1>6. f \in mixed \/ Matches(promise[f], inodes[f].size, Buffer)
  <2>1. CASE job.op = "create"
    <3>1. Unwritten(f) /\ Buffer = Zeros
      BY <2>1, <1>2 DEF Unwritten, Buffer
    <3> QED BY <3>1, <1>1, <1>3 DEF WInv, InMemory, Contents
  <2>2. CASE job.op = "sync"
    <3>1. call.fd \in Open /\ fds[call.fd].file = f /\ inodes[f].size = fds[call.fd].size
      BY <2>2, <1>1, <1>2, NoCallOp DEF FInv, CallOK
    <3>2. Buffer = fds[call.fd].data
      BY <2>2 DEF Buffer
    <3> QED BY <3>1, <3>2, <1>1 DEF WInv, InBuffers
  <2> QED BY <2>1, <2>2, <1>1
<1>7. f \in mixed \/ Matches(p[f], inodes[f].size, Buffer)
  BY <1>3, <1>6, MatchesGrown
<1>8. ASSUME job.op = "sync"
      PROVE  f \in mixed \/ \A b \in Blocks : data[b] \in p[f].data[b]
  <2>1. f \in mixed \/ Matches(promise[f], inodes[f].size, area[Start])
    BY <1>8, <1>1, <1>3 DEF WInv, InMemory, Contents, Unwritten
  <2>2. f \in mixed \/ Matches(p[f], inodes[f].size, area[Start])
    BY <2>1, <1>3, MatchesGrown
  <2> QED BY <2>2, <1>2, <1>7 DEF Matches
<1>9. ASSUME NEW table \in candidates, NEW g \in Used(table)
      PROVE  g \in mixed \/ Matches(p[g], table[g].size, area'[table[g].start])
  <2>1. g \in Files /\ g \in Used(inodes) /\ table[g].start = inodes[g].start /\ ~Unwritten(g)
    BY <1>1, <1>3 DEF WInv, Extends
  <2>2. g \in mixed \/ Matches(promise[g], table[g].size, area[table[g].start])
    BY <1>1 DEF WInv, OnDisk
  <2>3. g \in mixed \/ Matches(p[g], table[g].size, area[table[g].start])
    BY <2>1, <2>2, MatchesGrown
  <2>4. CASE g # f
    <3>1. area'[table[g].start] = area[table[g].start]
      BY <2>1, <2>4, <1>3, <1>4, <1>5
    <3> QED BY <3>1, <2>3
  <2>5. CASE g = f
    <3>1. job.op = "sync"
      BY <2>1, <2>5, <1>1, <1>2 DEF Unwritten
    <3>2. area'[table[g].start] = data
      BY <2>1, <2>5, <1>3, <1>4
    <3> QED BY <3>1, <3>2, <2>3, <2>5, <1>8 DEF Matches
  <2> QED BY <2>4, <2>5
<1>10. ASSUME NEW g \in Used(inodes), ~(g = job.file /\ job.op = "create")
       PROVE  g \in mixed \/ Matches(p[g], inodes[g].size, area'[inodes[g].start])
  <2>1. ~Unwritten(g)
    BY <1>10 DEF Unwritten
  <2>2. g \in mixed \/ Matches(promise[g], inodes[g].size, area[inodes[g].start])
    BY <2>1, <1>1 DEF WInv, InMemory, Contents
  <2>3. g \in mixed \/ Matches(p[g], inodes[g].size, area[inodes[g].start])
    BY <2>2, <1>3, MatchesGrown
  <2>4. CASE g # f
    <3>1. area'[inodes[g].start] = area[inodes[g].start]
      BY <2>4, <1>3, <1>4, <1>5
    <3> QED BY <3>1, <2>3
  <2>5. CASE g = f
    <3>1. job.op = "sync"
      BY <2>5, <1>1, <1>2, <1>10
    <3>2. area'[inodes[g].start] = data
      BY <2>5, <1>3, <1>4
    <3> QED BY <3>1, <3>2, <2>3, <2>5, <1>8 DEF Matches
  <2> QED BY <2>4, <2>5
<1> QED BY <1>2, <1>4, <1>7, <1>9, <1>10

\* A job fails: the call will return an error, or a create rolls back.
LEMMA JobFails ==
    ASSUME IInv, NInv', up, ~Idle, job.op # "rollback", up' = up, fds' = fds, call' = call, promise' = promise,
           mixed' = mixed, load' = load,
           \/ /\ job'.step = 0 /\ job'.op = "idle" /\ ret' = "eio" /\ candidates' = candidates
              /\ job.op = "create" => job.step = 0
           \/ /\ job'.step = 1 /\ job'.op = "rollback" /\ job.op = "create" /\ job'.file = job.file
              /\ ret' = "none" /\ candidates' = candidates \cup {inodes'} /\ faults' # 0,
           job.op # "create" => inodes' = inodes,
           job.op = "create" => /\ Used(inodes') = Used(inodes) \ {job.file}
                                /\ \A g \in Used(inodes') : inodes'[g] = inodes[g],
           area' \in [0..(Areas - 1) -> [Blocks -> Content]],
           \A table \in candidates : \A g \in Used(table) :
               g \in mixed \/ Matches(promise[g], table[g].size, area'[table[g].start]),
           \A g \in Used(inodes) : \/ g = job.file /\ job.op = "create"
                                   \/ g \in mixed \/ Matches(promise[g], inodes[g].size, area'[inodes[g].start])
    PROVE  IInv'
<1>1. NInv /\ FInv /\ WInv
  BY DEF IInv
<1>2. PICK f : f = job.file
  OBVIOUS
<1>3. Open' = Open
  BY DEF Open
<1>4. job'.op = "idle" \/ (job'.op = "rollback" /\ job.op = "create")
  OBVIOUS
<1>5. \A g \in Used(inodes') : /\ g \in Used(inodes) /\ inodes'[g] = inodes[g]
                               /\ job.op = "create" => g # f
  BY <1>2
<1>6. \A g \in Used(inodes) : g \in Used(inodes') \/ (g = f /\ job.op = "create")
  BY <1>2
<1>7. FInv'
  <2>1. CallOK'
    <3>1. CASE call = NoCall
      <4>1. job.op # "create"
        BY <3>1, <1>1, NoCallOp DEF FInv, CallOK
      <4> QED BY <3>1, <4>1, <1>4 DEF CallOK
    <3>2. CASE call.op = "create"
      <4>1. call.fd \in Files /\ call.mode \subseteq Modes
        BY <3>2, <1>1, NoCallOp DEF FInv, CallOK
      <4>2. ~(Idle' /\ ret' = "ok")
        BY DEF Idle
      <4> QED BY <3>2, <4>1, <4>2, <1>4 DEF CallOK
    <3>3. CASE call.op \in {"trunc", "write", "fsync", "sync", "close"}
      <4>1. call.fd \in Open /\ job.op \in {"idle", "sync"}
        BY <3>3, <1>1, NoCallOp DEF FInv, CallOK
      <4> QED BY <3>3, <4>1, <1>3, <1>4 DEF CallOK
    <3> QED BY <3>1, <3>2, <3>3, <1>1 DEF FInv, CallOK
  <2>2. \A d \in Open : fds[d].file \in Used(inodes')
    BY <1>1, <1>2, <1>6 DEF FInv
  <2>3. job'.op = "rollback" => job'.file \notin Used(inodes') /\ faults' # 0
    BY <1>2, <1>5
  <2>4. /\ fds \in [Fds -> Descriptor \cup {Free}] /\ load \in Workloads
        /\ promise \in [Files -> [size : SUBSET Sizes, data : [Blocks -> SUBSET Content]]]
    BY <1>1 DEF FInv
  <2> QED BY <1>3, <1>4, <2>1, <2>2, <2>3, <2>4 DEF FInv
<1>8. WInv'
  <2>1. \A g : ~Unwritten(g)'
    BY <1>4 DEF Unwritten
  <2>2. \A g \in Used(inodes') : g \in mixed \/ Matches(promise[g], inodes'[g].size, area'[inodes'[g].start])
    BY <1>2, <1>5
  <2>3. InMemory'
    BY <2>1, <2>2 DEF InMemory, Contents
  <2>4. OnDisk'
    BY <2>2 DEF OnDisk
  <2>5. InBuffers'
    BY <1>1, <1>3 DEF WInv, InBuffers
  <2>6. Extends'
    <3>1. ASSUME NEW table \in candidates, NEW g \in Used(table)
          PROVE  \/ job'.op = "rollback" /\ job'.file = g
                 \/ g \in Used(inodes') /\ table[g].start = inodes'[g].start
      <4>1. g \in Used(inodes) /\ table[g].start = inodes[g].start /\ ~Unwritten(g)
        BY <1>1 DEF WInv, Extends
      <4>2. CASE g = f /\ job.op = "create"
        BY <4>1, <4>2, <1>2 DEF Unwritten
      <4>3. CASE ~(g = f /\ job.op = "create")
        BY <4>1, <4>3, <1>5, <1>6
      <4> QED BY <4>2, <4>3
    <3> QED BY <3>1, <2>1 DEF Extends
  <2>7. Changing'
    <3>1. ASSUME call.op \in {"trunc", "write"} PROVE job.op # "create"
      BY <3>1, <1>1, NoCallOp DEF FInv, CallOK
    <3>2. OpenOn(fds[call.fd].file)' = OpenOn(fds[call.fd].file)
      BY <1>3 DEF OpenOn
    <3>3. ASSUME call.op \in {"trunc", "write"} PROVE Changed(call.fd)'
      <4>1. Changed(call.fd)
        BY <3>3, <1>1 DEF WInv, Changing
      <4>2. Zeros' = Zeros
        BY DEF Zeros
      <4> QED BY <4>1, <4>2 DEF Changed
    <3>4. ASSUME call.op \in {"trunc", "write"} PROVE Landed(call.fd)'
      BY <3>1, <3>4 DEF Landed, Idle
    <3> QED BY <3>2, <3>3, <3>4, <1>1 DEF WInv, Changing
  <2> QED BY <2>3, <2>4, <2>5, <2>6, <2>7 DEF WInv
<1> QED BY <1>7, <1>8 DEF IInv

\* What a job writes to its data area, and what an interrupted one leaves
\* there, block by block.
LEMMA BufferTyped ==
    ASSUME IInv, up, ~Idle, job.step = 0
    PROVE  /\ Buffer \in [Blocks -> Content] /\ area[Start] \in [Blocks -> Content]
           /\ \A data \in PartOf(area[Start], Buffer) :
                 /\ data \in [Blocks -> Content]
                 /\ \A b \in Blocks : data[b] = area[Start][b] \/ data[b] = Buffer[b]
<1>1. NInv /\ FInv /\ job.op \in {"create", "sync"} /\ job.file \in Used(inodes)
  BY DEF IInv, NInv, JobOK, Idle
<1>2. area[Start] \in [Blocks -> Content] /\ Zeros \in [Blocks -> Content]
  BY <1>1, Typed DEF NInv, Start
<1>3. Buffer \in [Blocks -> Content]
  <2>1. CASE job.op = "create"
    BY <2>1, <1>2 DEF Buffer
  <2>2. CASE job.op = "sync"
    <3>1. call.fd \in Open
      BY <2>2, <1>1, NoCallOp DEF FInv, CallOK
    <3>2. fds[call.fd].data \in [Blocks -> Content]
      BY <3>1, <1>1, Typed DEF NInv
    <3> QED BY <3>2, <2>2 DEF Buffer
  <2> QED BY <2>1, <2>2, <1>1
<1>4. ASSUME NEW old \in [Blocks -> Content], NEW new \in [Blocks -> Content], NEW data \in PartOf(old, new)
      PROVE  data \in [Blocks -> Content] /\ \A b \in Blocks : data[b] = old[b] \/ data[b] = new[b]
  <2>1. PICK k \in 0..FileBlocks : data = [b \in Blocks |-> IF b <= k THEN new[b] ELSE old[b]]
    BY DEF PartOf
  <2> QED BY <2>1
<1> QED BY <1>2, <1>3, <1>4

\* The data area is written and the commit starts, or has no generation left.
LEMMA DataWrittenStep ==
    ASSUME IInv, DataWritten, load' = load
    PROVE  IInv'
<1>1. /\ WriteData /\ area' = [area EXCEPT ![Start] = Buffer] /\ up /\ ~Idle /\ job.step = 0
      /\ fds' = fds /\ call' = call /\ promise' = promise /\ mixed' = mixed
      /\ disk' = disk /\ up' = up /\ gen' = gen /\ faults' = faults
      /\ NInv /\ FInv /\ WInv /\ NInv'
  BY WriteDataStep DEF DataWritten, WriteData, IInv
<1>2. /\ area' \in [0..(Areas - 1) -> [Blocks -> Content]] /\ area'[Start] = Buffer
      /\ \A table \in candidates : \A g \in Used(table) :
            g \in mixed \/ Matches(promise[g], table[g].size, area'[table[g].start])
      /\ \A g \in Used(inodes) : \/ g = job.file /\ job.op = "create"
                                 \/ g \in mixed \/ Matches(promise[g], inodes[g].size, area'[inodes[g].start])
      /\ job.file \in mixed \/ Matches(promise[job.file], inodes[job.file].size, Buffer)
  <2>1. Buffer \in [Blocks -> Content]
    BY <1>1, BufferTyped
  <2>2. PICK data \in [Blocks -> Content] : data = Buffer
    BY <2>1
  <2>3. PICK p \in Promises : p = promise
    BY <1>1 DEF FInv, Promises
  <2>4. /\ \A g \in Files : Grown(promise[g], p[g])
        /\ area' = [area EXCEPT ![Start] = data]
        /\ \A b \in Blocks : \/ data[b] = area[Start][b]
                             \/ data[b] = Buffer[b]
                             \/ data[b] \in p[job.file].data[b]
    BY <1>1, <2>2, <2>3 DEF Grown
  <2> QED BY <1>1, <2>2, <2>3, <2>4, AreaWritten
<1>3. job.op \in {"create", "sync"}
  BY <1>1 DEF NInv, JobOK, Idle
<1>4. CASE gen = MaxGeneration
  <2>1. FailJob
    BY <1>1, <1>4 DEF WriteData
  <2>2. /\ job'.step = 0 /\ job'.op = "idle" /\ ret' = "eio" /\ candidates' = candidates
        /\ job.op # "create" => inodes' = inodes
        /\ job.op = "create" => /\ Used(inodes') = Used(inodes) \ {job.file}
                                /\ \A g \in Used(inodes') : inodes'[g] = inodes[g]
    <3>1. /\ faults' \in 0..MaxFaults /\ TypeOK /\ JobOK
          /\ disk' \in [Sectors -> {Blank, Torn, NoInode} \cup Inode \cup Superblock
                                    \cup [state : {"prepare", "clear"}]]
      BY <1>1 DEF NInv, TypeOK
    <3>2. job' = IdleJob
      BY <2>1, <1>4 DEF FailJob, IdleJob
    <3> QED BY <3>1, <3>2, <2>1, <1>1, IdleJobOK, FailStep
  <2> QED BY <2>2, <1>1, <1>2, <1>3, JobFails
<1>5. CASE gen # MaxGeneration
  <2>1. /\ job' = [job EXCEPT !.step = 1] /\ candidates' = candidates \cup {inodes}
        /\ inodes' = inodes /\ ret' = ret
    BY <1>1, <1>5 DEF WriteData
  <2>2. job'.op = job.op /\ job'.file = job.file /\ job'.step = 1
    BY <2>1, <1>1 DEF NInv, TypeOK
  <2>3. Open' = Open /\ (Idle' <=> Idle)
    BY <1>1, <2>2 DEF Open, Idle
  <2>4. FInv'
    <3>1. CallOK'
      BY <1>1, <2>1, <2>2, <2>3 DEF FInv, CallOK
    <3> QED BY <1>1, <1>2, <2>1, <2>2, <2>3, <3>1 DEF FInv
  <2>5. WInv'
    <3>1. \A g : ~Unwritten(g)'
      BY <2>2, SMTT(30) DEF Unwritten
    <3>2. \A g \in Used(inodes) : g \in mixed \/ Matches(promise[g], inodes[g].size, area'[inodes[g].start])
      BY <1>2 DEF Start
    <3>3. InMemory'
      BY <1>1, <2>1, <3>1, <3>2 DEF InMemory, Contents
    <3>4. OnDisk'
      BY <1>1, <1>2, <2>1, <3>2 DEF OnDisk
    <3>5. InBuffers'
      BY <1>1, <2>3 DEF WInv, InBuffers
    <3>6. Extends'
      <4>1. \A table \in candidates : \A g \in Used(table) : g \in Used(inodes) /\ table[g].start = inodes[g].start
        BY <1>1, <1>3 DEF WInv, Extends
      <4> QED BY <4>1, <2>1, <3>1 DEF Extends
    <3>7. Changing'
      <4>1. ASSUME call.op \in {"trunc", "write"}
            PROVE  area'[inodes[fds[call.fd].file].start] = fds[call.fd].data
        <5>1. job.op = "sync" /\ job.file = fds[call.fd].file
          BY <4>1, <1>1, <1>3, NoCallOp DEF FInv, CallOK
        <5> QED BY <5>1, <1>2 DEF Buffer, Start
      <4>2. ASSUME call.op \in {"trunc", "write"} PROVE Landed(call.fd)'
        BY <4>1, <4>2, <1>1, <2>1, <2>3 DEF Landed
      <4>3. OpenOn(fds[call.fd].file)' = OpenOn(fds[call.fd].file)
        BY <1>1, <2>3 DEF OpenOn
      <4>4. ASSUME call.op \in {"trunc", "write"} PROVE Changed(call.fd)'
        <5>1. Changed(call.fd)
          BY <4>4, <1>1 DEF WInv, Changing
        <5>2. Zeros' = Zeros
          BY DEF Zeros
        <5> QED BY <5>1, <5>2, <1>1 DEF Changed
      <4> QED BY <4>2, <4>3, <4>4, <1>1 DEF WInv, Changing
    <3> QED BY <3>3, <3>4, <3>5, <3>6, <3>7 DEF WInv
  <2> QED BY <1>1, <2>4, <2>5 DEF IInv
<1> QED BY <1>4, <1>5

\* A metadata sector is written; the last one completes the commit.
LEMMA MetadataWrittenStep ==
    ASSUME IInv, MetadataWritten, load' = load
    PROVE  IInv'
<1>1. /\ WriteSector /\ area' = area /\ fds' = fds /\ call' = call /\ promise' = promise /\ mixed' = mixed
      /\ up /\ job.step \in 1..Len(CommitPlan) /\ up' = up /\ inodes' = inodes
      /\ NInv /\ FInv /\ WInv /\ NInv'
  BY WriteSectorStep DEF MetadataWritten, WriteSector, IInv
<1>2. job.step > 0 /\ ~Idle /\ Open' = Open
  BY <1>1, SMTT(30) DEF NInv, JobOK, Open
<1>3. \A g : ~Unwritten(g)
  BY <1>2, SMTT(30) DEF Unwritten
<1>4. \A g \in Used(inodes) : g \in mixed \/ Matches(promise[g], inodes[g].size, area[inodes[g].start])
  BY <1>1, <1>3 DEF WInv, InMemory, Contents
<1>5. OpenOn(fds[call.fd].file)' = OpenOn(fds[call.fd].file)
  BY <1>1, <1>2 DEF OpenOn
<1>6. ASSUME call.op \in {"trunc", "write"} PROVE Changed(call.fd)'
  <2>1. Changed(call.fd)
    BY <1>6, <1>1 DEF WInv, Changing
  <2>2. Zeros' = Zeros
    BY DEF Zeros
  <2> QED BY <2>1, <2>2, <1>1 DEF Changed
<1>7. InBuffers'
  BY <1>1, <1>2 DEF WInv, InBuffers
<1>8. CASE job.step < Len(CommitPlan)
  <2>1. job' = [job EXCEPT !.step = @ + 1] /\ ret' = ret /\ faults' = faults /\ candidates' = candidates
    BY <1>1, <1>8 DEF WriteSector
  <2>2. job'.op = job.op /\ job'.file = job.file /\ job'.step = job.step + 1
    BY <2>1, <1>1 DEF NInv, TypeOK
  <2>3. job'.step > 0 /\ (Idle' <=> Idle)
    BY <2>2, <1>1, SMTT(30) DEF Idle
  <2>4. FInv'
    <3>1. CallOK'
      BY <1>1, <1>2, <2>1, <2>2, <2>3 DEF FInv, CallOK
    <3> QED BY <1>1, <1>2, <2>1, <2>2, <3>1 DEF FInv
  <2>5. WInv'
    <3>1. \A g : ~Unwritten(g)'
      BY <2>3, SMTT(30) DEF Unwritten
    <3>2. InMemory'
      BY <1>1, <1>4, <3>1 DEF InMemory, Contents
    <3>3. OnDisk'
      BY <1>1, <2>1 DEF WInv, OnDisk
    <3>4. Extends'
      BY <1>1, <2>1, <2>2, <3>1 DEF WInv, Extends
    <3>5. ASSUME call.op \in {"trunc", "write"} PROVE Landed(call.fd)'
      <4>1. Landed(call.fd)
        BY <3>5, <1>1 DEF WInv, Changing
      <4> QED BY <4>1, <1>1, <1>2, <2>1, <2>2, <2>3 DEF Landed
    <3>6. Changing'
      BY <1>1, <1>5, <1>6, <3>5 DEF WInv, Changing
    <3> QED BY <1>7, <3>2, <3>3, <3>4, <3>6 DEF WInv
  <2> QED BY <1>1, <2>4, <2>5 DEF IInv
<1>9. CASE ~(job.step < Len(CommitPlan))
  <2>1. /\ job' = IdleJob /\ candidates' = {inodes}
        /\ ret' = IF job.op = "rollback" THEN "eio" ELSE "ok"
    BY <1>1, <1>9 DEF WriteSector, IdleJob
  <2>2. job'.op = "idle" /\ job'.step = 0 /\ Idle'
    BY <2>1, IdleJobOK DEF Idle
  <2>3. FInv'
    <3>1. CallOK'
      <4>1. CASE call = NoCall
        BY <4>1, <1>1, <2>2 DEF CallOK
      <4>2. CASE call.op = "create"
        <5>1. /\ call.fd \in Files /\ call.mode \subseteq Modes /\ job.op \in {"create", "rollback"}
              /\ job.op = "create" => job.file = call.fd
          BY <4>2, <1>1, <1>2, NoCallOp DEF FInv, CallOK, Idle
        <5>2. job.op = "create" => job.file \in Used(inodes)
          BY <1>1 DEF NInv, JobOK
        <5> QED BY <5>1, <5>2, <4>2, <1>1, <2>1, <2>2 DEF CallOK
      <4>3. CASE call.op \in {"trunc", "write", "fsync", "sync", "close"}
        <5>1. call.fd \in Open
          BY <4>3, <1>1, NoCallOp DEF FInv, CallOK
        <5> QED BY <5>1, <4>3, <1>1, <1>2, <2>2 DEF CallOK
      <4> QED BY <4>1, <4>2, <4>3, <1>1 DEF FInv, CallOK
    <3> QED BY <1>1, <1>2, <2>2, <3>1 DEF FInv
  <2>4. WInv'
    <3>1. \A g : ~Unwritten(g)'
      BY <2>2 DEF Unwritten
    <3>2. InMemory'
      BY <1>1, <1>4, <3>1 DEF InMemory, Contents
    <3>3. OnDisk'
      BY <1>1, <1>4, <2>1 DEF OnDisk
    <3>4. Extends'
      BY <1>1, <2>1, <3>1 DEF Extends
    <3>5. ASSUME call.op \in {"trunc", "write"} PROVE Landed(call.fd)'
      <4>1. Landed(call.fd)
        BY <3>5, <1>1 DEF WInv, Changing
      <4>2. job.op = "sync" /\ inodes[fds[call.fd].file].size = fds[call.fd].size
        BY <3>5, <1>1, <1>2, NoCallOp DEF FInv, CallOK, Idle
      <4>3. area[inodes[fds[call.fd].file].start] = fds[call.fd].data
        BY <4>1, <4>2, <1>2 DEF Landed
      <4> QED BY <4>2, <4>3, <1>1, <2>1 DEF Landed
    <3>6. Changing'
      BY <1>1, <1>5, <1>6, <3>5 DEF WInv, Changing
    <3> QED BY <1>7, <3>2, <3>3, <3>4, <3>6 DEF WInv
  <2> QED BY <1>1, <2>3, <2>4 DEF IInv
<1> QED BY <1>8, <1>9

\* The controller fails a request.  The one fault is then used up, so the
\* rollback that may follow does not fail.
LEMMA DiskFailsStep ==
    ASSUME MaxFaults <= 1, IInv, DiskFails, load' = load
    PROVE  IInv'
<1>1. /\ AtaFailure /\ FailJob /\ up /\ ~Idle /\ up' = up /\ gen' = gen /\ faults < MaxFaults /\ faults' = faults + 1
      /\ fds' = fds /\ call' = call /\ promise' = promise /\ mixed' = mixed
      /\ NInv /\ FInv /\ WInv /\ NInv'
  BY AtaFailureStep DEF DiskFails, AtaFailure, IInv
<1>2. /\ faults = 0 /\ faults' # 0 /\ faults' \in 0..MaxFaults /\ job.op # "rollback"
      /\ disk' \in [Sectors -> {Blank, Torn, NoInode} \cup Inode \cup Superblock \cup [state : {"prepare", "clear"}]]
  BY <1>1, NpkfsAssumption, SMTT(30) DEF NInv, FInv, TypeOK
<1>3. /\ \/ /\ job'.step = 0 /\ job'.op = "idle" /\ ret' = "eio" /\ candidates' = candidates
            /\ job.op = "create" => job.step = 0
         \/ /\ job'.step = 1 /\ job'.op = "rollback" /\ job.op = "create" /\ job'.file = job.file
            /\ ret' = "none" /\ candidates' = candidates \cup {inodes'} /\ faults' # 0
      /\ job.op # "create" => inodes' = inodes
      /\ job.op = "create" => /\ Used(inodes') = Used(inodes) \ {job.file}
                              /\ \A g \in Used(inodes') : inodes'[g] = inodes[g]
  <2>1. TypeOK /\ JobOK
    BY <1>1 DEF NInv
  <2> QED BY <2>1, <1>1, <1>2, FailStep
<1>4. /\ area' \in [0..(Areas - 1) -> [Blocks -> Content]]
      /\ \A table \in candidates : \A g \in Used(table) :
            g \in mixed \/ Matches(promise[g], table[g].size, area'[table[g].start])
      /\ \A g \in Used(inodes) : \/ g = job.file /\ job.op = "create"
                                 \/ g \in mixed \/ Matches(promise[g], inodes[g].size, area'[inodes[g].start])
  <2>1. CASE job.step = 0
    <3>1. PICK data \in PartOf(area[Start], Buffer) : area' = [area EXCEPT ![Start] = data]
      BY <2>1 DEF DiskFails
    <3>2. data \in [Blocks -> Content] /\ \A b \in Blocks : data[b] = area[Start][b] \/ data[b] = Buffer[b]
      BY <1>1, <2>1, BufferTyped
    <3>3. PICK p \in Promises : p = promise
      BY <1>1 DEF FInv, Promises
    <3>4. \A g \in Files : Grown(promise[g], p[g])
      BY <3>3 DEF Grown
    <3>5. \A b \in Blocks : data[b] = area[Start][b] \/ data[b] = Buffer[b] \/ data[b] \in p[job.file].data[b]
      BY <3>2
    <3> QED BY <1>1, <2>1, <3>1, <3>2, <3>3, <3>4, <3>5, AreaWritten
  <2>2. CASE job.step # 0
    <3>1. area' = area
      BY <2>2 DEF DiskFails
    <3>2. \A g : ~Unwritten(g)
      BY <2>2 DEF Unwritten
    <3> QED BY <3>1, <3>2, <1>1 DEF FInv, WInv, OnDisk, InMemory, Contents
  <2> QED BY <2>1, <2>2
<1> QED BY <1>1, <1>2, <1>3, <1>4, JobFails

\* Power fails: memory is gone, the data area may be written in part and one
\* block of it torn.
LEMMA PowerGoesStep ==
    ASSUME MaxFaults <= 1, IInv, PowerGoes, load' = load
    PROVE  IInv'
<1>1. /\ PowerLoss /\ fds' = [d \in Fds |-> Free] /\ call' = NoCall /\ mixed' = mixed
      /\ up /\ up' = FALSE /\ inodes' = EmptyTable /\ job' = IdleJob /\ candidates' = candidates
      /\ NInv /\ FInv /\ WInv /\ NInv'
  BY PowerLossStep DEF PowerGoes, PowerLoss, IInv, IdleJob
<1>2. job'.op = "idle" /\ job'.step = 0 /\ Open' = {} /\ Used(inodes') = {}
  BY <1>1, IdleJobOK, EmptyTableOK DEF Open
<1>3. promise \in Promises
  BY <1>1 DEF FInv, Promises
<1>4. /\ area' \in [0..(Areas - 1) -> [Blocks -> Content]] /\ promise' \in Promises
      /\ \A table \in candidates : \A g \in Used(table) :
            g \in mixed \/ Matches(promise'[g], table[g].size, area'[table[g].start])
  <2>1. CASE ~Idle /\ job.step = 0
    <3>1. PICK data \in PartOf(area[Start], Buffer) :
            \/ area' = [area EXCEPT ![Start] = data] /\ promise' = promise
            \/ \E b \in Blocks :
                 /\ area' = [area EXCEPT ![Start] = [data EXCEPT ![b] = Torn]]
                 /\ promise' = [promise EXCEPT ![job.file].data[b] = @ \cup {Torn}]
      BY <2>1 DEF PowerGoes
    <3>2. data \in [Blocks -> Content] /\ \A b \in Blocks : data[b] = area[Start][b] \/ data[b] = Buffer[b]
      BY <1>1, <2>1, BufferTyped
    <3>3. CASE area' = [area EXCEPT ![Start] = data] /\ promise' = promise
      <4>1. PICK p \in Promises : p = promise
        BY <1>3
      <4>2. \A g \in Files : Grown(promise[g], p[g])
        BY <4>1 DEF Grown
      <4>3. \A b \in Blocks : data[b] = area[Start][b] \/ data[b] = Buffer[b] \/ data[b] \in p[job.file].data[b]
        BY <3>2
      <4>4. area' = [area EXCEPT ![Start] = data] /\ promise' = p
        BY <3>3, <4>1
      <4>5. /\ area' \in [0..(Areas - 1) -> [Blocks -> Content]]
            /\ \A table \in candidates : \A g \in Used(table) :
                  g \in mixed \/ Matches(p[g], table[g].size, area'[table[g].start])
        BY <1>1, <2>1, <3>2, <4>2, <4>3, <4>4, AreaWritten
      <4> QED BY <4>4, <4>5
    <3>4. ASSUME NEW b \in Blocks, area' = [area EXCEPT ![Start] = [data EXCEPT ![b] = Torn]],
                 promise' = [promise EXCEPT ![job.file].data[b] = @ \cup {Torn}]
          PROVE  /\ area' \in [0..(Areas - 1) -> [Blocks -> Content]] /\ promise' \in Promises
                 /\ \A table \in candidates : \A g \in Used(table) :
                       g \in mixed \/ Matches(promise'[g], table[g].size, area'[table[g].start])
      <4>1. PICK f \in Files : f = job.file
        <5>1. job.file \in Used(inodes)
          BY <2>1, <1>1 DEF NInv, JobOK, Idle
        <5> QED BY <5>1 DEF Used
      <4>2. Torn \in Content
        BY DEF Content
      <4>3. PICK torn \in [Blocks -> Content] : torn = [data EXCEPT ![b] = Torn]
        BY <3>2, <4>2
      <4>4. \A e \in Blocks : \/ e # b /\ torn[e] = data[e]
                              \/ e = b /\ torn[e] = Torn
        BY <3>2, <4>3
      <4>5. PICK q : q = [promise[f] EXCEPT !.data[b] = @ \cup {Torn}]
        OBVIOUS
      <4>6. /\ q \in [size : SUBSET Sizes, data : [Blocks -> SUBSET Content]]
            /\ Grown(promise[f], q) /\ Torn \in q.data[b]
        <5>1. promise[f] \in [size : SUBSET Sizes, data : [Blocks -> SUBSET Content]]
          BY <1>3 DEF Promises
        <5> QED BY <5>1, <4>2, <4>5 DEF Grown
      <4>7. promise' = [promise EXCEPT ![f] = q]
        BY <3>4, <4>1, <4>5
      <4>8. PICK p \in Promises : p = promise' /\ p[f] = q /\ \A g \in Files : g # f => p[g] = promise[g]
        BY <4>6, <4>7, <1>3 DEF Promises
      <4>9. \A g \in Files : Grown(promise[g], p[g])
        BY <4>6, <4>8 DEF Grown
      <4>10. \A e \in Blocks : torn[e] = area[Start][e] \/ torn[e] = Buffer[e] \/ torn[e] \in p[job.file].data[e]
        BY <4>1, <4>4, <4>6, <4>8, <3>2
      <4>11. area' = [area EXCEPT ![Start] = torn]
        BY <3>4, <4>3
      <4>12. /\ area' \in [0..(Areas - 1) -> [Blocks -> Content]]
             /\ \A table \in candidates : \A g \in Used(table) :
                   g \in mixed \/ Matches(p[g], table[g].size, area'[table[g].start])
        BY <1>1, <2>1, <4>9, <4>10, <4>11, AreaWritten
      <4> QED BY <4>8, <4>12
    <3> QED BY <3>1, <3>3, <3>4, <1>3
  <2>2. CASE ~(~Idle /\ job.step = 0)
    <3>1. area' = area /\ promise' = promise
      BY <2>2 DEF PowerGoes
    <3> QED BY <3>1, <1>1, <1>3 DEF FInv, WInv, OnDisk
  <2> QED BY <2>1, <2>2
<1>5. FInv'
  <2>1. CallOK'
    BY <1>1, <1>2 DEF CallOK
  <2> QED BY <1>1, <1>2, <1>4, <2>1 DEF FInv, Promises
<1>6. WInv'
  <2>1. OnDisk'
    BY <1>1, <1>4 DEF OnDisk
  <2>2. InMemory' /\ InBuffers' /\ Extends' /\ Changing'
    BY <1>1, <1>2, NoCallOp DEF InMemory, InBuffers, Extends, Changing
  <2> QED BY <2>1, <2>2 DEF WInv
<1> QED BY <1>1, <1>5, <1>6 DEF IInv

\* Every step keeps the invariant.
LEMMA NextIInv ==
    ASSUME MaxFaults <= 1, IInv, [FilesNext]_allVars
    PROVE  IInv'
<1>1. CASE FilesNext
  <2>1. load' = load
    BY <1>1 DEF FilesNext
  <2>2. CASE vfs_init
    BY <2>1, <2>2, vfs_initStep
  <2>3. CASE vfs_open
    BY <2>1, <2>3, vfs_openStep
  <2>4. CASE vfs_open_create
    BY <2>1, <2>4, vfs_open_createStep
  <2>5. CASE Created
    BY <2>1, <2>5, CreatedStep
  <2>6. CASE Truncated
    BY <2>1, <2>6, TruncatedStep
  <2>7. ASSUME NEW d \in Fds, NEW n \in Blocks, vfs_read(d, n) PROVE IInv'
    BY <2>1, <2>7, vfs_readStep
  <2>8. ASSUME NEW d \in Fds, NEW n \in 0..MaxOffset, vfs_seek(d, n) PROVE IInv'
    BY <2>1, <2>8, vfs_seekStep
  <2>9. ASSUME NEW d \in Fds, NEW n \in Blocks, NEW x \in load.values, vfs_write(d, n, x) PROVE IInv'
    BY <2>1, <2>9, vfs_writeStep
  <2>10. ASSUME NEW d \in Fds, vfs_sync_fd(d) PROVE IInv'
    BY <2>1, <2>10, WriteBackStep DEF vfs_sync_fd
  <2>11. ASSUME NEW d \in Fds, vfs_close(d) PROVE IInv'
    BY <2>1, <2>11, WriteBackStep DEF vfs_close
  <2>12. CASE Wrote
    BY <2>1, <2>12, WroteStep
  <2>13. CASE vfs_sync_all
    BY <2>1, <2>13, vfs_sync_allStep
  <2>14. CASE WroteBack
    BY <2>1, <2>14, WroteBackStep
  <2>15. CASE DataWritten
    BY <2>1, <2>15, DataWrittenStep
  <2>16. CASE MetadataWritten
    BY <2>1, <2>16, MetadataWrittenStep
  <2>17. CASE DiskFails
    BY <2>1, <2>17, DiskFailsStep
  <2>18. CASE PowerGoes
    BY <2>1, <2>18, PowerGoesStep
  <2> QED BY <1>1, <2>2, <2>3, <2>4, <2>5, <2>6, <2>7, <2>8, <2>9, <2>10, <2>11, <2>12, <2>13, <2>14, <2>15,
             <2>16, <2>17, <2>18 DEF FilesNext
<1>2. CASE UNCHANGED allVars
  <2>1. UNCHANGED vars /\ area' = area /\ fds' = fds /\ call' = call /\ promise' = promise /\ mixed' = mixed
        /\ load' = load
    BY <1>2 DEF allVars, fileVars
  <2>2. NInv'
    BY <2>1, UnchangedNInv DEF IInv
  <2>3. up' = up /\ inodes' = inodes /\ job' = job /\ ret' = ret /\ faults' = faults /\ candidates' = candidates
    BY <2>1 DEF vars
  <2>4. FInv'
    BY <2>1, <2>3 DEF IInv, FInv, CallOK, Open, Idle
  <2>5. WInv'
    <3>1. InMemory' /\ OnDisk' /\ InBuffers' /\ Extends'
      BY <2>1, <2>3 DEF IInv, WInv, InMemory, Contents, Unwritten, Zeros, OnDisk, InBuffers, Open, Extends
    <3>2. Changing'
      BY <2>1, <2>3 DEF IInv, WInv, Changing, Changed, Landed, OpenOn, Open, Zeros, Idle
    <3> QED BY <3>1, <3>2 DEF WInv
  <2> QED BY <2>2, <2>4, <2>5 DEF IInv
<1> QED BY <1>1, <1>2

-----------------------------------------------------------------------------
(* What the invariant says.                                                *)

\* The invariant holds in every reachable state, while at most one fault
\* happens between two completed commits.
LEMMA AlwaysIInv ==
    ASSUME MaxFaults <= 1
    PROVE  FilesSpec => []IInv
<1>1. IInv /\ [FilesNext]_allVars => IInv'
  BY NextIInv
<1> QED BY <1>1, InitIInv, PTL DEF FilesSpec

\* In every reachable state the types are those of the C objects, an open
\* descriptor has a file, no two files share an area, in memory or in a slot
\* that persistent_init would accept, and a disk with files that may still
\* meet a fault has such a slot.
THEOREM FilesAreConsistent ==
    ASSUME MaxFaults <= 1
    PROVE  FilesSpec => []FilesConsistent
<1>1. IInv => FilesConsistent
  <2> SUFFICES ASSUME IInv PROVE FilesConsistent
    OBVIOUS
  <2>1. NInv /\ FInv /\ TypeOK /\ JobOK /\ Supers(disk)
    BY SMTT(30) DEF IInv, NInv
  <2>2. FilesTypeOK
    <3>1. call.fd \in Fds \cup Files \cup {0}
      BY <2>1, NoCallOp DEF FInv, CallOK, Open
    <3> QED BY <3>1, <2>1 DEF FilesTypeOK, FInv
  <2>3. AreasDisjoint
    <3>1. \A s \in Slots : SlotValid(disk, s) => Apart(SlotTable(disk, s), disk[Super(s)].next)
      BY <2>1, ValidHolds DEF Holds, GoodSuper
    <3>2. up => Apart(inodes, next)
      BY <2>1 DEF JobOK
    <3> QED BY <3>1, <3>2 DEF AreasDisjoint, Apart
  <2>4. SlotSurvivesNextFault
    <3> SUFFICES ASSUME faults < MaxFaults, EmptyTable \notin candidates PROVE Chosen(disk, Slots) # {}
      BY DEF SlotSurvivesNextFault
    <3>1. faults = 0 /\ job.step \in Nat
      BY <2>1, NpkfsAssumption, SMTT(30) DEF TypeOK
    <3>2. Recoverable(disk, candidates)
      <4>1. CASE job.step = 0
        BY <4>1, <2>1 DEF NInv
      <4>2. CASE job.step > 0
        <5>1. Interrupted(disk)
          BY DEF Interrupted
        <5> QED BY <5>1, <4>2, <3>1, <2>1, CutShort
      <4> QED BY <4>1, <4>2, <3>1, SMTT(30)
    <3> QED BY <3>2 DEF Recoverable
  <2> QED BY <2>2, <2>3, <2>4 DEF FilesConsistent
<1> QED BY <1>1, AlwaysIInv, PTL

\* Every file has the size and the blocks that the calls so far allow: in
\* memory, in every open descriptor and in what a mount would find.
THEOREM WrittenIsAlwaysFound ==
    ASSUME MaxFaults <= 1
    PROVE  FilesSpec => []WrittenIsFound
<1>1. IInv => WrittenIsFound
  <2> SUFFICES ASSUME IInv PROVE WrittenIsFound
    OBVIOUS
  <2>1. NInv /\ WInv
    BY DEF IInv
  <2>2. \A f, size, data : f \in mixed \/ Matches(promise[f], size, data) => Allowed(f, size, data)
    BY DEF Allowed, Matches
  <2>3. ASSUME NEW f \in Used(inodes), Idle PROVE Allowed(f, inodes[f].size, area[inodes[f].start])
    <3>1. ~Unwritten(f)
      BY <2>3 DEF Unwritten, Idle
    <3> QED BY <3>1, <2>1, <2>2 DEF WInv, InMemory, Contents
  <2>4. ASSUME NEW d \in Open PROVE Allowed(fds[d].file, fds[d].size, fds[d].data)
    BY <2>1, <2>2 DEF WInv, InBuffers
  <2>5. ASSUME NEW s \in Chosen(disk, Slots), NEW f \in Used(SlotTable(disk, s)), Idle
        PROVE  Allowed(f, SlotTable(disk, s)[f].size, area[SlotTable(disk, s)[f].start])
    <3>1. SlotTable(disk, s) \in candidates
      BY <2>1, <2>5 DEF NInv, JobOK, Recoverable
    <3> QED BY <3>1, <2>1, <2>2 DEF WInv, OnDisk
  <2> QED BY <2>3, <2>4, <2>5 DEF WrittenIsFound
<1> QED BY <1>1, AlwaysIInv, PTL

-----------------------------------------------------------------------------
(* The metadata implement one table.                                       *)

\* A step that changes at most the table in memory
Calm == /\ up' = up /\ candidates' = candidates
        /\ \/ inodes' = inodes /\ ret' = ret
           \/ up /\ ret' = "none"

\* Opening a file leaves the disk's tables alone.
LEMMA OpenCalm ==
    ASSUME NEW f, NEW mode, OpenFile(f, mode)
    PROVE  Calm
BY DEF OpenFile, Calm, vars, persistent_sync_descriptor

\* The calls edit the table in memory or change nothing of the metadata: only
\* a mount and the steps of the disk do more.
LEMMA CallsCalm ==
    ASSUME FilesNext, ~vfs_init, ~DataWritten, ~MetadataWritten, ~DiskFails, ~PowerGoes
    PROVE  Calm
<1>1. CASE vfs_open
  BY <1>1, OpenCalm DEF vfs_open
<1>2. CASE vfs_open_create
  BY <1>2 DEF vfs_open_create, persistent_create, Calm
<1>3. CASE Created
  BY <1>3, OpenCalm DEF Created, Calm, vars
<1>4. CASE Truncated
  BY <1>4 DEF Truncated, Calm, vars
<1>5. ASSUME NEW d \in Fds, NEW n, vfs_read(d, n) \/ vfs_seek(d, n) PROVE Calm
  BY <1>5 DEF vfs_read, vfs_seek, Calm, vars
<1>6. ASSUME NEW d \in Fds, NEW n, NEW x, vfs_write(d, n, x) PROVE Calm
  BY <1>6 DEF vfs_write, persistent_sync_descriptor, Calm
<1>7. ASSUME NEW d, NEW op, WriteBack(op, d) PROVE Calm
  BY <1>7 DEF WriteBack, persistent_sync_descriptor, Calm
<1>8. ASSUME NEW d \in Fds, vfs_sync_fd(d) \/ vfs_close(d) PROVE Calm
  BY <1>7, <1>8 DEF vfs_sync_fd, vfs_close
<1>9. CASE Wrote
  BY <1>9 DEF Wrote, Calm, vars
<1>10. CASE vfs_sync_all
  BY <1>7, <1>10 DEF vfs_sync_all
<1>11. CASE WroteBack
  <2>1. (\E d : WriteBack("sync", d)) \/ UNCHANGED vars
    BY <1>11 DEF WroteBack
  <2>2. CASE UNCHANGED vars
    BY <2>2 DEF Calm, vars
  <2> QED BY <2>1, <2>2, <1>7
<1> QED BY <1>1, <1>2, <1>3, <1>4, <1>5, <1>6, <1>8, <1>9, <1>10, <1>11 DEF FilesNext

\* The table in memory, as MetaStore sees it
View == IF up THEN inodes ELSE NoTable

\* Every step is a step of MetaStore or leaves its variables alone.
LEMMA StoreStep ==
    ASSUME MaxFaults <= 1, IInv, IInv', [FilesNext]_allVars
    PROVE  [Store!StoreNext]_(Store!storeVars)
<1>1. /\ NInv /\ FInv /\ JobOK /\ inodes \in Tables /\ inodes' \in Tables /\ NoTable \notin Tables
      /\ up \in BOOLEAN /\ up' \in BOOLEAN
  BY MarkersAssumption DEF IInv, NInv, TypeOK
<1>2. PICK old, new : old = View /\ new = View'
  OBVIOUS
<1>3. /\ up => old = inodes /\ old # NoTable
      /\ ~up => old = NoTable
      /\ up' => new = inodes' /\ new \in Tables
      /\ ~up' => new = NoTable
  BY <1>1, <1>2 DEF View
<1>4. SUFFICES \/ /\ old = NoTable /\ new \in candidates /\ ret' = "none"
                  /\ candidates' = {new} \/ (new = EmptyTable /\ candidates' = candidates)
               \/ old # NoTable /\ new \in Tables /\ ret' = "none" /\ candidates' = candidates
               \/ old # NoTable /\ new \in Tables /\ ret' = "none" /\ candidates' = candidates \cup {new}
               \/ old # NoTable /\ new = old /\ ret' \in {"ok", "eio"} /\ candidates' = {old}
               \/ old # NoTable /\ new \in Tables /\ ret' = "eio" /\ candidates' = candidates
               \/ new = NoTable /\ ret' = "none" /\ candidates' = candidates
               \/ new = old /\ ret' = ret /\ candidates' = candidates
  BY <1>2 DEF View, Store!StoreNext, Store!storeVars, Store!Mount, Store!Edit, Store!Attempt, Store!Ack,
                     Store!Fail, Store!Stop
<1>5. CASE FilesNext
  <2>1. CASE vfs_init
    <3>1. persistent_init /\ ~up /\ up' /\ ret' = "none"
      BY <2>1 DEF vfs_init, persistent_init
    <3> QED BY <3>1, <1>1, <1>3, MountStep
  <2>2. CASE DataWritten
    <3>1. up /\ up' = up /\ ~Idle /\ WriteData
      BY <2>2 DEF DataWritten, WriteData
    <3>2. CASE gen = MaxGeneration
      <4>1. ret' = "eio" /\ candidates' = candidates
        BY <3>1, <3>2 DEF WriteData, FailJob
      <4> QED BY <4>1, <3>1, <1>3
    <3>3. CASE gen # MaxGeneration
      <4>1. ret' = ret /\ candidates' = candidates \cup {inodes} /\ inodes' = inodes
        BY <3>1, <3>3 DEF WriteData
      <4>2. ret = "none"
        BY <3>1, <1>1 DEF JobOK
      <4> QED BY <4>1, <4>2, <3>1, <1>3
    <3> QED BY <3>2, <3>3
  <2>3. CASE MetadataWritten
    <3>1. up /\ up' = up /\ inodes' = inodes /\ WriteSector
      BY <2>3 DEF MetadataWritten, WriteSector
    <3>2. \/ ret' = ret /\ candidates' = candidates
          \/ ret' \in {"ok", "eio"} /\ candidates' = {inodes}
      BY <3>1 DEF WriteSector
    <3> QED BY <3>1, <3>2, <1>3
  <2>4. CASE DiskFails
    <3>1. up /\ up' = up /\ FailJob
      BY <2>4 DEF DiskFails, AtaFailure
    <3>2. \/ ret' = "eio" /\ candidates' = candidates
          \/ ret' = "none" /\ candidates' = candidates \cup {inodes'}
      BY <3>1 DEF FailJob
    <3> QED BY <3>1, <3>2, <1>3
  <2>5. CASE PowerGoes
    <3>1. ~up' /\ ret' = "none" /\ candidates' = candidates
      BY <2>5 DEF PowerGoes, PowerLoss
    <3> QED BY <3>1, <1>3
  <2>6. CASE Calm
    BY <2>6, <1>3 DEF Calm
  <2> QED BY <1>5, <2>1, <2>2, <2>3, <2>4, <2>5, <2>6, CallsCalm
<1>6. CASE ~FilesNext
  <2>1. UNCHANGED <<up, inodes, ret, candidates>>
    BY <1>6 DEF allVars, vars
  <2> QED BY <2>1, <1>2 DEF View
<1> QED BY <1>5, <1>6

\* Two slots, a marker and the order of their writes implement one inode
\* table: a mount finds the table of the last commit that returned 0 or of a
\* later attempt.
THEOREM StoreIsAtomic ==
    ASSUME MaxFaults <= 1
    PROVE  FilesSpec => MetadataAtomic
<1>1. FilesInit => Store!StoreInit
  BY DEF FilesInit, Init, Store!StoreInit
<1>2. IInv /\ IInv' /\ [FilesNext]_allVars => [Store!StoreNext]_(Store!storeVars)
  BY StoreStep
<1> QED BY <1>1, <1>2, AlwaysIInv, PTL DEF FilesSpec, MetadataAtomic, Store!StoreSpec
=============================================================================
