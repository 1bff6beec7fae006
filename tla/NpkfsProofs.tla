----------------------------- MODULE NpkfsProofs -----------------------------
(***************************************************************************)
(* With at most one fault between two completed commits, the disk always   *)
(* has a slot to mount, and mounting finds a table that a commit wrote,    *)
(* for every number of files, areas, blocks and generations.               *)
(***************************************************************************)
EXTENDS Npkfs, SequenceTheorems, FiniteSetTheorems, TLAPS

-----------------------------------------------------------------------------
(* The invariant: metadata.                                                *)

\* Two files of a table never share an area, and all areas are below top.
Apart(table, top) ==
    \A f, g \in Used(table) : table[f].start < top /\ (f # g => table[f].start # table[g].start)

\* A superblock that a commit wrote completely
GoodSuper(super) ==
    /\ super \in Superblock /\ super.gen # 0
    /\ super.count = Cardinality(Used(super.sum)) /\ Apart(super.sum, super.next)

Holds(d, slot) == GoodSuper(d[Super(slot)]) /\ SlotTable(d, slot) = d[Super(slot)].sum
Virgin(d) == \A slot \in Slots : d[Super(slot)] = Blank
Twin(d) == Holds(d, "primary") /\ Holds(d, "backup") /\ d[Super("primary")] = d[Super("backup")]

\* What a mount finds is a candidate; it formats only what has no files.
Recoverable(d, C) ==
    /\ Chosen(d, Slots) = {} => C = {EmptyTable}
    /\ \A slot \in Chosen(d, Slots) : SlotTable(d, slot) \in C

JobOK ==
    /\ (~up => Idle) /\ (Idle => job.step = 0) /\ (~Idle => ret = "none")
    /\ job.step = 0 => job.op \in {"idle", "create", "sync"}
    /\ job.op \in {"create", "sync"} => job.file \in Used(inodes)
    /\ job.op = "create" => inodes[job.file].start = next - 1
    /\ job.step > 0 => gen < MaxGeneration /\ inodes \in candidates
    /\ up => Apart(inodes, next)

Supers(d) == \A slot \in Slots : d[Super(slot)] \in {Blank, Torn} \/ GoodSuper(d[Super(slot)])

\* What the commit in progress has written so far
Progress ==
    job.step > 0 =>
        /\ \A f \in Files : /\ 1 + f < job.step => disk[InodeSector("backup", f)] = inodes[f]
                            /\ MaxFiles + 2 + f < job.step => disk[InodeSector("primary", f)] = inodes[f]
        /\ MaxFiles + 2 < job.step => disk[Super("backup")] = NextSuper
        /\ 2 * MaxFiles + 3 < job.step => disk[Super("primary")] = NextSuper

\* Without a fault since the last commit both slots are complete, and while a
\* commit writes one the other is.
Fresh ==
    faults = 0 =>
        /\ job.step = 0 =>
              \/ ~up /\ Virgin(disk) /\ candidates = {EmptyTable}
              \/ /\ Twin(disk) /\ disk[Super("primary")].sum \in candidates
                 /\ up => gen = disk[Super("primary")].gen
        /\ job.step \in 1..(MaxFiles + 2) =>
              \/ Virgin(disk) /\ candidates = {EmptyTable}
              \/ /\ Holds(disk, "primary") /\ disk[Super("backup")] = disk[Super("primary")]
                 /\ disk[Super("primary")].sum \in candidates /\ gen = disk[Super("primary")].gen
        /\ job.step \in (MaxFiles + 3)..(2 * MaxFiles + 3) =>
              \/ disk[Super("primary")] = Blank
              \/ GoodSuper(disk[Super("primary")]) /\ disk[Super("primary")].gen <= gen

NInv == TypeOK /\ JobOK /\ Supers(disk) /\ Progress /\ Fresh /\ (job.step = 0 => Recoverable(disk, candidates))

-----------------------------------------------------------------------------
(* The layout of the disk.                                                 *)

LastStep == 2 * MaxFiles + 4

\* Leaves are for Zenon unless they say otherwise.
USE Zenon

\* The sectors of the layout are distinct.
LEMMA SectorsDiffer ==
    /\ \A s \in Slots : Super(s) # Txn /\ Super(s) \in Sectors
    /\ \A s, t \in Slots : Super(s) = Super(t) => s = t
    /\ \A s \in Slots, f \in Files : InodeSector(s, f) # Txn /\ InodeSector(s, f) \in Sectors
    /\ \A s, t \in Slots, f \in Files : InodeSector(s, f) # Super(t)
    /\ \A s, t \in Slots, f, g \in Files : InodeSector(s, f) = InodeSector(t, g) => s = t /\ f = g
    /\ Txn \in Sectors
    /\ \A sector \in Sectors : \/ sector = Txn
                               \/ \E s \in Slots : sector = Super(s)
                               \/ \E s \in Slots, f \in Files : sector = InodeSector(s, f)
<1>1. \A s, t : Super(s) # Txn /\ (Super(s) = Super(t) => s = t)
  BY DEF Super, Txn
<1>2. \A s, t, f, g : /\ InodeSector(s, f) # Txn /\ InodeSector(s, f) # Super(t)
                      /\ InodeSector(s, f) = InodeSector(t, g) => s = t /\ f = g
  BY DEF Super, Txn, InodeSector
<1>3. \A sector : sector \in Sectors <=> \/ sector = Txn
                                         \/ \E s \in Slots : sector = Super(s)
                                         \/ \E s \in Slots, f \in Files : sector = InodeSector(s, f)
  BY SMTT(30) DEF Sectors
<1> QED BY <1>1, <1>2, <1>3, SMTT(30)

\* The order in which a commit writes them.
LEMMA PlanOrder ==
    /\ Len(CommitPlan) = LastStep /\ LastStep \in Nat
    /\ CommitPlan[1] = Txn /\ CommitPlan[LastStep] = Txn
    /\ CommitPlan[MaxFiles + 2] = Super("backup")
    /\ CommitPlan[2 * MaxFiles + 3] = Super("primary")
    /\ \A f \in Files : /\ CommitPlan[1 + f] = InodeSector("backup", f)
                        /\ CommitPlan[MaxFiles + 2 + f] = InodeSector("primary", f)
<1> DEFINE B == InodeSectors("backup")
           P == InodeSectors("primary")
           T == <<Txn>>
           SB == <<Super("backup")>>
           SP == <<Super("primary")>>
           S1 == T \o B
           S2 == S1 \o SB
           S3 == S2 \o P
           S4 == S3 \o SP
           S5 == S4 \o T
<1>m. MaxFiles \in Nat /\ MaxFiles # 0
  BY NpkfsAssumption
<1>0. CommitPlan = S5
  BY DEF CommitPlan
<1>1. B \in Seq(Sectors) /\ Len(B) = MaxFiles /\ \A f \in Files : B[f] = InodeSector("backup", f)
  BY <1>m, SectorsDiffer, SMTT(30) DEF InodeSectors, Files, Slots
<1>2. P \in Seq(Sectors) /\ Len(P) = MaxFiles /\ \A f \in Files : P[f] = InodeSector("primary", f)
  BY <1>m, SectorsDiffer, SMTT(30) DEF InodeSectors, Files, Slots
<1>3. Txn \in Sectors /\ Super("backup") \in Sectors /\ Super("primary") \in Sectors
  BY SectorsDiffer DEF Slots
<1>4. /\ T \in Seq(Sectors) /\ Len(T) = 1 /\ T[1] = Txn
      /\ SB \in Seq(Sectors) /\ Len(SB) = 1 /\ SB[1] = Super("backup")
      /\ SP \in Seq(Sectors) /\ Len(SP) = 1 /\ SP[1] = Super("primary")
  BY <1>3, SMTT(30)
<1> HIDE DEF B, P, T, SB, SP
<1>5. /\ S1 \in Seq(Sectors) /\ Len(S1) = MaxFiles + 1 /\ S1[1] = Txn
      /\ \A f \in Files : S1[1 + f] = InodeSector("backup", f)
  <2>1. /\ T \o B \in Seq(Sectors) /\ Len(T \o B) = Len(T) + Len(B)
        /\ \A i \in 1..(Len(T) + Len(B)) :
              (T \o B)[i] = IF i <= Len(T) THEN T[i] ELSE B[i - Len(T)]
    BY <1>1, <1>4, ConcatProperties
  <2> QED BY <2>1, <1>m, <1>1, <1>4, SMTT(30) DEF Files
<1> HIDE DEF S1
<1>6. /\ S2 \in Seq(Sectors) /\ Len(S2) = MaxFiles + 2 /\ S2[1] = Txn
      /\ \A f \in Files : S2[1 + f] = InodeSector("backup", f)
      /\ S2[MaxFiles + 2] = Super("backup")
  <2>1. /\ S2 \in Seq(Sectors) /\ Len(S2) = Len(S1) + Len(SB)
        /\ \A i \in 1..(Len(S1) + Len(SB)) :
              S2[i] = IF i <= Len(S1) THEN S1[i] ELSE SB[i - Len(S1)]
    BY <1>5, <1>4, ConcatProperties
  <2> QED BY <2>1, <1>m, <1>5, <1>4, SMTT(30) DEF Files
<1> HIDE DEF S2
<1>7. /\ S3 \in Seq(Sectors) /\ Len(S3) = 2 * MaxFiles + 2 /\ S3[1] = Txn
      /\ \A f \in Files : S3[1 + f] = InodeSector("backup", f)
      /\ S3[MaxFiles + 2] = Super("backup")
      /\ \A f \in Files : S3[MaxFiles + 2 + f] = InodeSector("primary", f)
  <2>1. /\ S3 \in Seq(Sectors) /\ Len(S3) = Len(S2) + Len(P)
        /\ \A i \in 1..(Len(S2) + Len(P)) : S3[i] = IF i <= Len(S2) THEN S2[i] ELSE P[i - Len(S2)]
    BY <1>6, <1>2, ConcatProperties
  <2> QED BY <2>1, <1>m, <1>6, <1>2, SMTT(30) DEF Files
<1> HIDE DEF S3
<1>8. /\ S4 \in Seq(Sectors) /\ Len(S4) = 2 * MaxFiles + 3 /\ S4[1] = Txn
      /\ \A f \in Files : S4[1 + f] = InodeSector("backup", f)
      /\ S4[MaxFiles + 2] = Super("backup")
      /\ \A f \in Files : S4[MaxFiles + 2 + f] = InodeSector("primary", f)
      /\ S4[2 * MaxFiles + 3] = Super("primary")
  <2>1. /\ S4 \in Seq(Sectors) /\ Len(S4) = Len(S3) + Len(SP)
        /\ \A i \in 1..(Len(S3) + Len(SP)) :
              S4[i] = IF i <= Len(S3) THEN S3[i] ELSE SP[i - Len(S3)]
    BY <1>7, <1>4, ConcatProperties
  <2> QED BY <2>1, <1>m, <1>7, <1>4, SMTT(30) DEF Files
<1> HIDE DEF S4
<1>9. /\ S5 \in Seq(Sectors) /\ Len(S5) = Len(S4) + Len(T)
      /\ \A i \in 1..(Len(S4) + Len(T)) :
            S5[i] = IF i <= Len(S4) THEN S4[i] ELSE T[i - Len(S4)]
  BY <1>8, <1>4, ConcatProperties
<1> HIDE DEF S5
<1> QED BY <1>0, <1>9, <1>m, <1>8, <1>4, SMTT(30) DEF Files, LastStep

\* Every step of a commit writes one of these.
LEMMA PlanCases ==
    ASSUME NEW k \in 1..LastStep
    PROVE  \/ k \in {1, MaxFiles + 2, 2 * MaxFiles + 3, LastStep}
           \/ \E f \in Files : k = 1 + f \/ k = MaxFiles + 2 + f
<1>1. MaxFiles \in Nat
  BY NpkfsAssumption
<1>2. CASE k \in 2..(MaxFiles + 1)
  <2>1. k - 1 \in Files /\ k = 1 + (k - 1)
    BY <1>1, <1>2, SMTT(30) DEF Files
  <2> QED BY <2>1
<1>3. CASE k \in (MaxFiles + 3)..(2 * MaxFiles + 2)
  <2>1. k - (MaxFiles + 2) \in Files /\ k = MaxFiles + 2 + (k - (MaxFiles + 2))
    BY <1>1, <1>3, SMTT(30) DEF Files
  <2> QED BY <2>1
<1> QED BY <1>1, <1>2, <1>3, SMTT(30) DEF LastStep

\* What it writes there (SectorValue).
LEMMA SectorValues ==
    /\ SectorValue(MaxFiles + 2) = NextSuper /\ SectorValue(2 * MaxFiles + 3) = NextSuper
    /\ \A f \in Files : SectorValue(1 + f) = inodes[f] /\ SectorValue(MaxFiles + 2 + f) = inodes[f]
    /\ SectorValue(1) \in [state : {"prepare", "clear"}]
    /\ SectorValue(LastStep) \in [state : {"prepare", "clear"}]
    /\ \A k, s : CommitPlan[k] = Super(s) => SectorValue(k) = NextSuper
    /\ \A k, s, f : CommitPlan[k] = InodeSector(s, f) => SectorValue(k) = inodes[f]
<1>1. \A s : Super(s)[1] = "super" /\ Super(s) # Txn
  BY DEF Super, Txn
<1>2. \A s, f : InodeSector(s, f)[1] = "inode" /\ InodeSector(s, f)[3] = f /\ InodeSector(s, f) # Txn
  BY DEF InodeSector, Txn
<1>3. \A k : CommitPlan[k] = Txn => SectorValue(k) \in [state : {"prepare", "clear"}]
  BY Txn[1] = "txn", "txn" # "super", "txn" # "inode" DEF SectorValue, Txn
<1>4. \A k, s : CommitPlan[k] = Super(s) => SectorValue(k) = NextSuper
  BY <1>1, "super" # "inode" DEF SectorValue
<1>5. \A k, s, f : CommitPlan[k] = InodeSector(s, f) => SectorValue(k) = inodes[f]
  BY <1>2, "super" # "inode", SMTT(30) DEF SectorValue
<1> QED BY <1>3, <1>4, <1>5, PlanOrder, SMTT(30)

\* The superblock a commit writes is well formed.
LEMMA NextSuperGood ==
    ASSUME TypeOK, Apart(inodes, next), gen < MaxGeneration
    PROVE  GoodSuper(NextSuper) /\ NextSuper.gen = gen + 1 /\ NextSuper.sum = inodes
<1>0. IsFiniteSet(1..MaxFiles) /\ Cardinality(1..MaxFiles) = MaxFiles
  BY FS_Interval, NpkfsAssumption, SMTT(30)
<1>1. Used(inodes) \subseteq Files /\ IsFiniteSet(Files) /\ Cardinality(Files) = MaxFiles
  BY <1>0 DEF Used, Files
<1>2. Cardinality(Used(inodes)) \in 0..MaxFiles
  BY <1>1, FS_Subset, FS_CardinalityType, NpkfsAssumption, SMTT(30)
<1>3. gen + 1 \in 0..MaxGeneration /\ gen + 1 # 0 /\ next \in 0..Areas /\ inodes \in Tables
  BY NpkfsAssumption, SMTT(30) DEF TypeOK
<1>4. /\ NextSuper.gen = gen + 1 /\ NextSuper.next = next /\ NextSuper.sum = inodes
      /\ NextSuper.count = Cardinality(Used(inodes))
  BY DEF NextSuper
<1>5. NextSuper \in Superblock
  BY <1>2, <1>3 DEF NextSuper, Superblock
<1> QED BY <1>3, <1>4, <1>5 DEF GoodSuper

\* persistent_super_slot_valid accepts exactly the complete slots.
LEMMA ValidHolds ==
    ASSUME NEW d, Supers(d), NEW slot \in Slots
    PROVE  SlotValid(d, slot) <=> Holds(d, slot)
<1> DEFINE super == d[Super(slot)]
<1>1. CASE super \in {Blank, Torn}
  BY <1>1, MarkersAssumption DEF SlotValid, Holds, GoodSuper
<1>2. CASE GoodSuper(super)
  <2>1. /\ super \notin {Blank, Torn} /\ super.gen # 0 /\ super.next <= Areas
        /\ super.sum \in Tables /\ super.count = Cardinality(Used(super.sum))
    BY <1>2, MarkersAssumption, NpkfsAssumption, SMTT(30) DEF GoodSuper, Superblock
  <2>2. \A f \in Used(super.sum) : super.sum[f].start < Areas
    BY <2>1, NpkfsAssumption, SMTT(30) DEF Tables, Used, Inode
  <2> QED BY <1>2, <2>1, <2>2 DEF SlotValid, Holds
<1> QED BY <1>1, <1>2 DEF Supers

\* persistent_init picks a complete slot of the highest generation.
LEMMA ChosenHolds ==
    ASSUME NEW d, Supers(d), NEW readable \in SUBSET Slots
    PROVE  /\ \A s \in Chosen(d, readable) :
                 /\ s \in readable /\ s \in Slots /\ Holds(d, s)
                 /\ \A t \in readable : Holds(d, t) => d[Super(t)].gen <= d[Super(s)].gen
           /\ \A s, t \in Chosen(d, readable) : s = t
           /\ \A s \in readable : Holds(d, s) => Chosen(d, readable) # {}
<1>1. \A s \in Slots : SlotValid(d, s) <=> Holds(d, s)
  BY ValidHolds
<1>2. \A s \in Slots : Holds(d, s) => d[Super(s)].gen \in Int
  BY NpkfsAssumption, SMTT(30) DEF Holds, GoodSuper, Superblock
<1>3. Chosen(d, readable) =
          LET valid == {s \in Slots \cap readable : Holds(d, s)} IN
          IF \/ "primary" \notin valid
             \/ "backup" \in valid /\ d[Super("backup")].gen > d[Super("primary")].gen
          THEN valid \cap {"backup"} ELSE {"primary"}
  BY <1>1 DEF Chosen
<1> QED BY <1>2, <1>3, SMTT(30) DEF Slots

-----------------------------------------------------------------------------
(* A commit that is cut short.                                             *)

\* The disk d after the current step, which may have been done or torn.
Interrupted(d) ==
    \A sector \in Sectors :
        \/ d[sector] = disk[sector]
        \/ sector = CommitPlan[job.step] /\ d[sector] \in {SectorValue(job.step), Torn}

\* One step of a commit writes one slot, or neither.
LEMMA StepWritesOneSlot ==
    ASSUME job.step \in 1..LastStep, NEW d, Interrupted(d)
    PROVE  /\ job.step <= MaxFiles + 2 \/ job.step = LastStep =>
                 /\ d[Super("primary")] = disk[Super("primary")]
                 /\ \A f \in Files : d[InodeSector("primary", f)] = disk[InodeSector("primary", f)]
           /\ job.step > MaxFiles + 2 =>
                 /\ d[Super("backup")] = disk[Super("backup")]
                 /\ \A f \in Files : d[InodeSector("backup", f)] = disk[InodeSector("backup", f)]
           /\ \A s \in Slots : d[Super(s)] = disk[Super(s)] \/ d[Super(s)] \in {NextSuper, Torn}
<1> DEFINE k == job.step
<1>1. MaxFiles \in Nat /\ "primary" \in Slots /\ "backup" \in Slots
  BY NpkfsAssumption DEF Slots
<1>2. PICK sector : sector = CommitPlan[k]
  OBVIOUS
<1>3. \/ sector = Txn /\ k \in {1, LastStep}
      \/ sector = Super("backup") /\ k = MaxFiles + 2
      \/ sector = Super("primary") /\ k = 2 * MaxFiles + 3
      \/ \E f \in Files : sector = InodeSector("backup", f) /\ k = 1 + f
      \/ \E f \in Files : sector = InodeSector("primary", f) /\ k = MaxFiles + 2 + f
  BY <1>2, PlanCases, PlanOrder
<1>4. \A other \in Sectors : other # sector => d[other] = disk[other]
  BY <1>2 DEF Interrupted
<1>5. \A s \in Slots : Super(s) \in Sectors /\ \A f \in Files : InodeSector(s, f) \in Sectors
  BY SectorsDiffer
<1>6. \A s \in Slots : d[Super(s)] = disk[Super(s)] \/ d[Super(s)] \in {NextSuper, Torn}
  <2> TAKE s \in Slots
  <2>1. CASE Super(s) # sector
    BY <2>1, <1>4, <1>5
  <2>2. CASE Super(s) = sector
    <3>1. k = MaxFiles + 2 \/ k = 2 * MaxFiles + 3
      BY <1>3, <2>2, <1>1, SectorsDiffer, SMTT(30)
    <3>2. SectorValue(k) = NextSuper
      BY <3>1, SectorValues
    <3> QED BY <3>2, <2>2, <1>5 DEF Interrupted
  <2> QED BY <2>1, <2>2
<1>7. ASSUME k <= MaxFiles + 2 \/ k = LastStep
      PROVE  /\ sector # Super("primary")
             /\ \A f \in Files : sector # InodeSector("primary", f)
  <2>1. k # 2 * MaxFiles + 3 /\ \A f \in Files : k # MaxFiles + 2 + f
    BY <1>7, <1>1, SMTT(30) DEF LastStep, Files
  <2> QED BY <2>1, <1>1, <1>3, SectorsDiffer, SMTT(30)
<1>8. ASSUME k > MaxFiles + 2
      PROVE  /\ sector # Super("backup")
             /\ \A f \in Files : sector # InodeSector("backup", f)
  <2>1. k # MaxFiles + 2 /\ \A f \in Files : k # 1 + f
    BY <1>8, <1>1, SMTT(30) DEF LastStep, Files
  <2> QED BY <2>1, <1>1, <1>3, SectorsDiffer, SMTT(30)
<1> QED BY <1>1, <1>4, <1>5, <1>6, <1>7, <1>8

\* The superblocks on the disk stay well formed or unreadable.
LEMMA SupersStay ==
    ASSUME NInv, job.step > 0, NEW d, Interrupted(d)
    PROVE  Supers(d) /\ GoodSuper(NextSuper) /\ NextSuper.gen = gen + 1 /\ NextSuper.sum = inodes
<1>1. job.step \in 1..LastStep /\ gen \in 0..MaxGeneration
  BY PlanOrder, SMTT(30) DEF NInv, TypeOK
<1>2. Apart(inodes, next) /\ gen < MaxGeneration
  BY SMTT(30) DEF NInv, JobOK
<1>3. GoodSuper(NextSuper) /\ NextSuper.gen = gen + 1 /\ NextSuper.sum = inodes
  BY <1>2, NextSuperGood DEF NInv
<1>4. \A s \in Slots : d[Super(s)] = disk[Super(s)] \/ d[Super(s)] \in {NextSuper, Torn}
  BY <1>1, StepWritesOneSlot
<1>5. \A s \in Slots : disk[Super(s)] \in {Blank, Torn} \/ GoodSuper(disk[Super(s)])
  BY DEF NInv, Supers
<1> QED BY <1>3, <1>4, <1>5 DEF Supers

\* The equality of a slot's sectors and a table, one inode at a time.
LEMMA TableOf ==
    ASSUME NEW d, NEW slot, NEW table \in Tables, \A f \in Files : d[InodeSector(slot, f)] = table[f]
    PROVE  SlotTable(d, slot) = table
BY DEF SlotTable, Tables

\* A first fault in a commit leaves a disk whose mount finds a candidate.
LEMMA CutShort ==
    ASSUME NInv, job.step > 0, faults = 0, NEW d, Interrupted(d)
    PROVE  Recoverable(d, candidates)
<1>1. job.step \in 1..LastStep /\ gen \in 0..MaxGeneration /\ inodes \in Tables /\ MaxFiles \in Nat
  BY PlanOrder, NpkfsAssumption, SMTT(30) DEF NInv, TypeOK
<1>2. Supers(d) /\ GoodSuper(NextSuper) /\ NextSuper.gen = gen + 1 /\ NextSuper.sum = inodes
  BY SupersStay
<1>3. inodes \in candidates
  BY DEF NInv, JobOK
<1>4. /\ \A s \in Chosen(d, Slots) :
            /\ s \in Slots /\ Holds(d, s)
            /\ \A t \in Slots : Holds(d, t) => d[Super(t)].gen <= d[Super(s)].gen
      /\ \A s \in Slots : Holds(d, s) => Chosen(d, Slots) # {}
  BY <1>2, ChosenHolds
<1>5. \A s \in Slots : d[Super(s)] = disk[Super(s)] \/ d[Super(s)] \in {NextSuper, Torn}
  BY <1>1, StepWritesOneSlot
<1>6. SUFFICES /\ candidates = {EmptyTable} \/ \E s \in Slots : Holds(d, s)
               /\ \A s \in Chosen(d, Slots) : d[Super(s)].sum \in candidates
  BY <1>4 DEF Recoverable, Holds
<1>7. "primary" \in Slots /\ "backup" \in Slots /\ \A s \in Slots : s = "primary" \/ s = "backup"
  BY DEF Slots
<1>8. \A s \in Slots : Holds(d, s) => d[Super(s)] \notin {Blank, Torn}
  BY MarkersAssumption DEF Holds, GoodSuper
<1>9. CASE job.step <= MaxFiles + 2
  <2>1. /\ d[Super("primary")] = disk[Super("primary")]
        /\ \A f \in Files : d[InodeSector("primary", f)] = disk[InodeSector("primary", f)]
    BY <1>1, <1>9, StepWritesOneSlot
  <2>2. \/ Virgin(disk) /\ candidates = {EmptyTable}
        \/ /\ Holds(disk, "primary") /\ disk[Super("backup")] = disk[Super("primary")]
           /\ disk[Super("primary")].sum \in candidates
    BY <1>1, <1>9, SMTT(30) DEF NInv, Fresh
  <2>3. CASE Virgin(disk) /\ candidates = {EmptyTable}
    <3>1. \A s \in Slots : disk[Super(s)] = Blank
      BY <2>3 DEF Virgin
    <3> QED BY <3>1, <2>3, <1>2, <1>3, <1>4, <1>5, <1>8
  <2>4. CASE /\ Holds(disk, "primary") /\ disk[Super("backup")] = disk[Super("primary")]
             /\ disk[Super("primary")].sum \in candidates
    <3>1. SlotTable(d, "primary") = SlotTable(disk, "primary")
      BY <2>1 DEF SlotTable
    <3>2. Holds(d, "primary")
      BY <2>1, <2>4, <3>1 DEF Holds
    <3> QED BY <3>2, <2>4, <1>2, <1>3, <1>4, <1>5, <1>7, <1>8
  <2> QED BY <2>2, <2>3, <2>4
<1>10. CASE job.step > MaxFiles + 2
  <2>1. /\ d[Super("backup")] = disk[Super("backup")]
        /\ \A f \in Files : d[InodeSector("backup", f)] = disk[InodeSector("backup", f)]
    BY <1>1, <1>10, StepWritesOneSlot
  <2>2. /\ disk[Super("backup")] = NextSuper
        /\ \A f \in Files : disk[InodeSector("backup", f)] = inodes[f]
    BY <1>1, <1>10, SMTT(30) DEF NInv, Progress, Files
  <2>3. SlotTable(d, "backup") = inodes
    BY <2>1, <2>2, <1>1, TableOf
  <2>4. Holds(d, "backup")
    BY <2>1, <2>2, <2>3, <1>2 DEF Holds
  <2>5. \A s \in Slots : \/ d[Super(s)] \in {Blank, Torn, NextSuper}
                         \/ GoodSuper(d[Super(s)]) /\ d[Super(s)].gen <= gen
    <3>1. CASE job.step = LastStep
      BY <3>1, <1>1, <1>5, <1>7, <2>2, SMTT(30) DEF NInv, Progress, LastStep
    <3>2. CASE job.step # LastStep
      <4>1. \/ disk[Super("primary")] = Blank
            \/ GoodSuper(disk[Super("primary")]) /\ disk[Super("primary")].gen <= gen
        BY <3>2, <1>1, <1>10, SMTT(30) DEF NInv, Fresh, LastStep
      <4> QED BY <4>1, <1>5, <1>7, <2>2
    <3> QED BY <3>1, <3>2
  <2>6. \A s \in Chosen(d, Slots) : d[Super(s)] = NextSuper
    <3> TAKE s \in Chosen(d, Slots)
    <3>1. s \in Slots /\ Holds(d, s) /\ d[Super("backup")].gen <= d[Super(s)].gen
      BY <1>4, <1>7, <2>4
    <3>2. gen + 1 <= d[Super(s)].gen
      BY <3>1, <2>1, <2>2, <1>2
    <3>3. d[Super(s)].gen \in Int
      BY <3>1, SMTT(30) DEF Holds, GoodSuper, Superblock
    <3> QED BY <3>1, <3>2, <3>3, <2>5, <1>8, <1>1, SMTT(30)
  <2> QED BY <2>4, <2>6, <1>2, <1>3, <1>7
<1> QED BY <1>9, <1>10, <1>1, SMTT(30)

-----------------------------------------------------------------------------
(* The metadata invariant holds initially and every operation keeps it.    *)

\* Only the superblocks and inode sectors matter, not the marker.
LEMMA SameSlots ==
    ASSUME NEW d, NEW e, Supers(d),
           \A s \in Slots : /\ e[Super(s)] = d[Super(s)]
                            /\ \A f \in Files : e[InodeSector(s, f)] = d[InodeSector(s, f)]
    PROVE  /\ Supers(e) /\ (Virgin(d) => Virgin(e)) /\ (Twin(d) => Twin(e))
           /\ \A s \in Slots : SlotTable(e, s) = SlotTable(d, s) /\ (Holds(e, s) <=> Holds(d, s))
           /\ Chosen(e, Slots) = Chosen(d, Slots)
<1>1. \A s \in Slots : SlotTable(e, s) = SlotTable(d, s)
  BY DEF SlotTable
<1>2. \A s \in Slots : Holds(e, s) <=> Holds(d, s)
  BY <1>1 DEF Holds
<1>3. \A s \in Slots : SlotValid(e, s) <=> SlotValid(d, s)
  BY <1>1 DEF SlotValid
<1>4. "primary" \in Slots /\ "backup" \in Slots
  BY DEF Slots
<1>5. {s \in Slots \cap Slots : SlotValid(e, s)} = {s \in Slots \cap Slots : SlotValid(d, s)}
  BY <1>3
<1>6. Chosen(e, Slots) = Chosen(d, Slots)
  BY <1>4, <1>5 DEF Chosen
<1>7. Supers(e)
  BY DEF Supers
<1> QED BY <1>1, <1>2, <1>4, <1>6, <1>7 DEF Virgin, Twin

\* An empty table has no files.
LEMMA EmptyTableOK == EmptyTable \in Tables /\ Used(EmptyTable) = {} /\ \A top : Apart(EmptyTable, top)
BY DEF EmptyTable, Tables, Used, Apart

IdleJob == [op |-> "idle", file |-> 0, step |-> 0]

\* The job of an idle file system is well formed.
LEMMA IdleJobOK ==
    /\ IdleJob \in [op : JobOps, file : 0..MaxFiles, step : 0..Len(CommitPlan)]
    /\ IdleJob.op = "idle" /\ IdleJob.step = 0
<1>1. 0 \in 0..MaxFiles /\ 0 \in 0..Len(CommitPlan)
  BY PlanOrder, NpkfsAssumption, SMTT(30)
<1> QED BY <1>1 DEF IdleJob, JobOps

\* The blank disk at power-on.
LEMMA InitNInv == Init => NInv
<1> SUFFICES ASSUME Init PROVE NInv
  OBVIOUS
<1>1. \A s \in Slots : disk[Super(s)] = Blank
  BY SectorsDiffer DEF Init
<1>2. Supers(disk) /\ Virgin(disk)
  BY <1>1 DEF Supers, Virgin
<1>3. \A s \in Slots : ~Holds(disk, s)
  BY <1>1, MarkersAssumption DEF Holds, GoodSuper
<1>4. Chosen(disk, Slots) = {}
  BY <1>2, <1>3, ChosenHolds
<1>5. Recoverable(disk, candidates)
  BY <1>4 DEF Recoverable, Init
<1>6. job = IdleJob
  BY DEF Init, IdleJob
<1>7. TypeOK
  <2>1. disk \in [Sectors -> {Blank, Torn, NoInode} \cup Inode \cup Superblock \cup [state : {"prepare", "clear"}]]
    BY DEF Init
  <2>2. gen \in 0..MaxGeneration /\ next \in 0..Areas /\ faults \in 0..MaxFaults
    BY NpkfsAssumption, SMTT(30) DEF Init
  <2> QED BY <2>1, <2>2, <1>6, IdleJobOK, EmptyTableOK DEF TypeOK, Init
<1>8. JobOK
  BY <1>6, IdleJobOK, SMTT(30) DEF JobOK, Init, Idle
<1>9. Progress
  BY <1>6, IdleJobOK, SMTT(30) DEF Progress
<1>10. Fresh
  BY <1>6, IdleJobOK, <1>2, NpkfsAssumption, SMTT(30) DEF Fresh, Init
<1> QED BY <1>2, <1>5, <1>7, <1>8, <1>9, <1>10 DEF NInv

\* A mount that cannot read a slot uses up the one fault.
LEMMA MountReads ==
    ASSUME MaxFaults <= 1, faults \in 0..MaxFaults, NEW readable \in SUBSET Slots,
           faults + Cardinality(Slots \ readable) <= MaxFaults
    PROVE  \/ readable = Slots /\ Cardinality(Slots \ readable) = 0
           \/ faults = 0 /\ Cardinality(Slots \ readable) = 1 /\ \E s \in Slots : s \in readable
<1>1. Cardinality({}) = 0
  BY FS_EmptySet
<1>2. Cardinality({"primary"}) = 1 /\ Cardinality({"backup"}) = 1 /\ IsFiniteSet({"primary"})
  BY FS_Singleton
<1>3. Cardinality({"primary"} \cup {"backup"}) = 2
  BY <1>2, FS_AddElement, "backup" # "primary", SMTT(30)
<1>4. Slots \ readable \in {{}, {"primary"}, {"backup"}, {"primary"} \cup {"backup"}}
  BY DEF Slots
<1>5. CASE Slots \ readable = {}
  BY <1>5, <1>1
<1>6. CASE Slots \ readable # {}
  <2>1. Cardinality(Slots \ readable) \in {1, 2}
    BY <1>2, <1>3, <1>4, <1>6
  <2>2. Cardinality(Slots \ readable) = 1 /\ faults = 0
    BY <2>1, NpkfsAssumption, SMTT(30)
  <2>3. Slots \ readable # {"primary"} \cup {"backup"}
    BY <2>2, <1>3, SMTT(30)
  <2> QED BY <2>2, <2>3 DEF Slots
<1> QED BY <1>5, <1>6

\* persistent_init
LEMMA MountStep ==
    ASSUME MaxFaults <= 1, NInv, persistent_init
    PROVE  /\ NInv' /\ inodes' \in candidates
           /\ \/ candidates' = {inodes'} /\ job' = job
              \/ /\ inodes' = EmptyTable /\ candidates' = candidates /\ candidates = {EmptyTable}
                 /\ job'.op = "format"
<1>1. PICK readable \in SUBSET Slots :
         /\ faults' = faults + Cardinality(Slots \ readable)
         /\ faults' <= MaxFaults
         /\ up' = TRUE
         /\ ret' = "none"
         /\ LET slots == Chosen(disk, readable) IN
            IF slots = {}
            THEN /\ gen' = 0
                 /\ next' = 0
                 /\ inodes' = EmptyTable
                 /\ job' = [op |-> "format", file |-> 0, step |-> 1]
                 /\ UNCHANGED <<disk, candidates>>
            ELSE \E s \in slots :
                 /\ gen' = disk[Super(s)].gen
                 /\ next' = disk[Super(s)].next
                 /\ inodes' = SlotTable(disk, s)
                 /\ disk' = IF disk[Txn] = [state |-> "prepare"]
                            THEN [disk EXCEPT ![Txn] = [state |-> "clear"]]
                            ELSE disk
                 /\ candidates' = {inodes'}
                 /\ UNCHANGED job
  BY DEF persistent_init
<1>2. /\ TypeOK /\ Supers(disk) /\ ~up /\ Idle /\ job.step = 0
      /\ Recoverable(disk, candidates)
  BY DEF persistent_init, NInv, JobOK
<1>3. faults \in 0..MaxFaults /\ MaxFaults \in Nat
  BY <1>2, NpkfsAssumption DEF TypeOK
<1>4. \/ readable = Slots /\ faults' = faults
      \/ faults = 0 /\ faults' = 1 /\ \E s \in Slots : s \in readable
  <2>1. faults' = faults + Cardinality(Slots \ readable) /\ faults' <= MaxFaults
    BY <1>1
  <2>2. faults + Cardinality(Slots \ readable) <= MaxFaults
    BY <2>1
  <2>3. \/ readable = Slots /\ Cardinality(Slots \ readable) = 0
        \/ faults = 0 /\ Cardinality(Slots \ readable) = 1 /\ \E s \in Slots : s \in readable
    BY <2>2, <1>3, MountReads
  <2> QED BY <2>1, <2>3, <1>3, SMTT(30)
<1>5. faults' \in 0..MaxFaults
  BY <1>1, <1>3, <1>4, SMTT(30)
<1>6. faults = 0 => \/ Virgin(disk) /\ candidates = {EmptyTable}
                    \/ Twin(disk) /\ disk[Super("primary")].sum \in candidates
  BY <1>2 DEF NInv, Fresh
<1>7. /\ \A s \in Chosen(disk, readable) : s \in Slots /\ Holds(disk, s)
      /\ \A s, t \in Chosen(disk, readable) : s = t
      /\ \A s \in readable : Holds(disk, s) => Chosen(disk, readable) # {}
  BY <1>2, ChosenHolds
<1>8. Twin(disk) => \A s \in Slots : Holds(disk, s) /\ disk[Super(s)] = disk[Super("primary")]
  BY DEF Twin, Slots
<1>9. Virgin(disk) => \A s \in Slots : ~Holds(disk, s)
  BY MarkersAssumption DEF Virgin, Holds, GoodSuper
<1>10. CASE Chosen(disk, readable) = {}
  <2>1. /\ gen' = 0 /\ next' = 0 /\ inodes' = EmptyTable /\ disk' = disk /\ candidates' = candidates
        /\ job' = [op |-> "format", file |-> 0, step |-> 1]
    BY <1>1, <1>10
  <2>2. job'.op = "format" /\ job'.step = 1 /\ job'.file = 0
    BY <2>1
  <2>3. candidates = {EmptyTable} /\ (faults = 0 => Virgin(disk))
    <3>1. \E s \in Slots : s \in readable
      BY <1>4 DEF Slots
    <3>2. ~Twin(disk)
      BY <3>1, <1>7, <1>8, <1>10
    <3> QED BY <3>2, <1>2, <1>4, <1>6, <1>10 DEF Recoverable
  <2>4. TypeOK'
    <3>1. job' \in [op : JobOps, file : 0..MaxFiles, step : 0..Len(CommitPlan)]
      BY <2>1, PlanOrder, NpkfsAssumption, SMTT(30) DEF JobOps, LastStep
    <3>2. gen' \in 0..MaxGeneration /\ next' \in 0..Areas
      BY <2>1, NpkfsAssumption, SMTT(30)
    <3> QED BY <3>1, <3>2, <1>1, <1>2, <1>5, <2>1, EmptyTableOK DEF TypeOK
  <2>5. JobOK'
    BY <1>1, <2>1, <2>2, <2>3, EmptyTableOK, NpkfsAssumption, SMTT(30) DEF JobOK, Idle
  <2>6. Progress'
    BY <2>2, NpkfsAssumption, SMTT(30) DEF Progress, Files
  <2>7. Fresh'
    <3>1. (faults' = 0) => Virgin(disk') /\ candidates' = {EmptyTable}
      BY <1>4, <2>1, <2>3
    <3> QED BY <3>1, <2>2, NpkfsAssumption, SMTT(30) DEF Fresh
  <2>8. NInv'
    BY <2>1, <2>2, <2>4, <2>5, <2>6, <2>7, <1>2 DEF NInv
  <2> QED BY <2>1, <2>2, <2>3, <2>8
<1>11. CASE Chosen(disk, readable) # {}
  <2>1. PICK s \in Chosen(disk, readable) :
          /\ gen' = disk[Super(s)].gen
          /\ next' = disk[Super(s)].next
          /\ inodes' = SlotTable(disk, s)
          /\ disk' = IF disk[Txn] = [state |-> "prepare"]
                     THEN [disk EXCEPT ![Txn] = [state |-> "clear"]]
                     ELSE disk
          /\ candidates' = {inodes'}
          /\ UNCHANGED job
    BY <1>1, <1>11
  <2>2. s \in Slots /\ Holds(disk, s) /\ \A t \in Chosen(disk, readable) : t = s
    BY <1>7
  <2>3. /\ GoodSuper(disk[Super(s)]) /\ SlotTable(disk, s) = disk[Super(s)].sum
        /\ disk[Super(s)] \in Superblock /\ Apart(disk[Super(s)].sum, disk[Super(s)].next)
    BY <2>2 DEF Holds, GoodSuper
  <2>4. TypeOK'
    <3>1. gen' \in 0..MaxGeneration /\ next' \in 0..Areas /\ inodes' \in Tables
      BY <2>1, <2>3 DEF Superblock
    <3>2. disk' \in [Sectors -> {Blank, Torn, NoInode} \cup Inode \cup Superblock \cup [state : {"prepare", "clear"}]]
      <4>1. [state |-> "clear"] \in [state : {"prepare", "clear"}]
        OBVIOUS
      <4> QED BY <4>1, <2>1, <1>2 DEF TypeOK
    <3> QED BY <3>1, <3>2, <1>1, <1>2, <1>5, <2>1 DEF TypeOK
  <2>5. \A t \in Slots : /\ disk'[Super(t)] = disk[Super(t)]
                         /\ \A f \in Files : disk'[InodeSector(t, f)] = disk[InodeSector(t, f)]
    BY <2>1, <1>2, SectorsDiffer DEF TypeOK
  <2>6. /\ Supers(disk') /\ (Twin(disk) => Twin(disk'))
        /\ \A t \in Slots : SlotTable(disk', t) = SlotTable(disk, t) /\ (Holds(disk', t) <=> Holds(disk, t))
        /\ Chosen(disk', Slots) = Chosen(disk, Slots)
    BY <2>5, <1>2, SameSlots
  <2>7. JobOK'
    BY <1>1, <1>2, <2>1, <2>3, NpkfsAssumption, SMTT(30) DEF JobOK, Idle
  <2>8. Progress'
    BY <2>1, <1>2, NpkfsAssumption, SMTT(30) DEF Progress
  <2>9. faults = 0 => Twin(disk)
    BY <1>6, <1>9, <2>2
  <2>10. Fresh'
    <3>1. ASSUME faults' = 0
          PROVE  Twin(disk') /\ disk'[Super("primary")].sum \in candidates' /\ gen' = disk'[Super("primary")].gen
      <4>1. Twin(disk)
        BY <3>1, <1>4, <2>9
      <4>2. disk[Super(s)] = disk[Super("primary")] /\ disk'[Super("primary")] = disk[Super("primary")]
        BY <4>1, <1>8, <2>2, <2>5 DEF Slots
      <4> QED BY <4>1, <4>2, <2>1, <2>3, <2>6, SMTT(30)
    <3> QED BY <3>1, <1>2, <2>1, NpkfsAssumption, SMTT(30) DEF Fresh
  <2>11. Recoverable(disk', candidates')
    <3>1. \A t \in Chosen(disk', Slots) : t \in Slots /\ Holds(disk, t)
      BY <2>6, <1>2, ChosenHolds
    <3>2. \A t \in Slots : Holds(disk, t) => Chosen(disk', Slots) # {}
      BY <2>6, <1>2, ChosenHolds
    <3>3. \A t \in Chosen(disk', Slots) : SlotTable(disk', t) = SlotTable(disk, s)
      <4>1. CASE readable = Slots
        BY <4>1, <2>2, <2>6
      <4>2. CASE faults = 0
        <5>1. Twin(disk)
          BY <4>2, <2>9
        <5>2. \A t \in Slots : SlotTable(disk, t) = disk[Super("primary")].sum
          BY <5>1, <1>8 DEF Holds
        <5> QED BY <5>2, <3>1, <2>2, <2>6
      <4> QED BY <4>1, <4>2, <1>4
    <3> QED BY <3>2, <3>3, <2>1, <2>2 DEF Recoverable
  <2>12. SlotTable(disk, s) \in candidates
    <3>1. CASE readable = Slots
      BY <3>1, <1>2 DEF Recoverable
    <3>2. CASE faults = 0
      <4>1. Twin(disk) /\ disk[Super("primary")].sum \in candidates
        BY <3>2, <1>6, <1>9, <2>2
      <4>2. disk[Super(s)] = disk[Super("primary")]
        BY <4>1, <1>8, <2>2
      <4> QED BY <4>1, <4>2, <2>3
    <3> QED BY <3>1, <3>2, <1>4
  <2>13. NInv'
    BY <2>4, <2>6, <2>7, <2>8, <2>10, <2>11 DEF NInv
  <2> QED BY <2>1, <2>12, <2>13
<1> QED BY <1>10, <1>11

\* A step outside commits that leaves the disk alone.
LEMMA QuietStep ==
    ASSUME NInv, job.step = 0, disk' = disk, up' = up, gen' = gen, faults' = faults, candidates' = candidates,
           job'.step = 0, TypeOK', JobOK'
    PROVE  NInv'
<1>1. Progress'
  BY SMTT(30) DEF Progress
<1>2. Fresh'
  BY NpkfsAssumption DEF Fresh, NInv
<1> QED BY <1>1, <1>2 DEF NInv

\* persistent_create
LEMMA CreateStep ==
    ASSUME NInv, persistent_create
    PROVE  NInv'
<1>1. PICK f \in Files :
        /\ inodes[f] = NoInode
        /\ inodes' = [inodes EXCEPT ![f] = [size |-> 0, start |-> next]]
        /\ job' = [op |-> "create", file |-> f, step |-> 0]
  BY DEF persistent_create
<1>2. /\ TypeOK /\ job.step = 0 /\ up /\ next < Areas /\ next' = next + 1 /\ ret' = "none"
      /\ disk' = disk /\ up' = up /\ gen' = gen /\ faults' = faults /\ candidates' = candidates
      /\ Apart(inodes, next)
  BY DEF persistent_create, NInv, JobOK
<1>3. next \in 0..Areas /\ Areas \in Nat /\ inodes \in Tables
  BY <1>2, NpkfsAssumption DEF TypeOK
<1>4. job'.op = "create" /\ job'.file = f /\ job'.step = 0
  BY <1>1
<1>5. [size |-> 0, start |-> next] \in Inode /\ [size |-> 0, start |-> next].start = next
  BY <1>2, <1>3, NpkfsAssumption, SMTT(30) DEF Inode
<1>6. /\ inodes' \in Tables /\ inodes'[f] = [size |-> 0, start |-> next]
      /\ \A g \in Files : g # f => inodes'[g] = inodes[g]
  BY <1>1, <1>3, <1>5 DEF Tables
<1>7. /\ \A g \in Files : g \in Used(inodes') <=> g = f \/ g \in Used(inodes)
      /\ Used(inodes) \subseteq Files /\ Used(inodes') \subseteq Files
  BY <1>5, <1>6, MarkersAssumption DEF Used
<1>8. \A g \in Used(inodes) : inodes[g].start \in Nat
  BY <1>3, NpkfsAssumption, SMTT(30) DEF Used, Tables, Inode
<1>9. Apart(inodes', next')
  <2>0. f \notin Used(inodes) /\ inodes'[f].start = next
    BY <1>1, <1>5, <1>6 DEF Used
  <2>1. \A g \in Used(inodes') : \/ g = f /\ inodes'[g].start = next
                                 \/ g \in Used(inodes) /\ g # f /\ inodes'[g].start = inodes[g].start
    BY <2>0, <1>6, <1>7
  <2>2. \A g, h \in Used(inodes) : inodes[g].start < next /\ (g # h => inodes[g].start # inodes[h].start)
    BY <1>2 DEF Apart
  <2> QED BY <2>1, <2>2, <1>2, <1>3, <1>8, SMTT(30) DEF Apart
<1>10. TypeOK'
  <2>1. job' \in [op : JobOps, file : 0..MaxFiles, step : 0..Len(CommitPlan)]
    BY <1>1, PlanOrder, NpkfsAssumption, SMTT(30) DEF JobOps, Files
  <2>2. next' \in 0..Areas
    BY <1>2, <1>3, SMTT(30)
  <2> QED BY <2>1, <2>2, <1>2, <1>6 DEF TypeOK
<1>11. JobOK'
  <2>1. inodes'[f].start = next' - 1 /\ f \in Used(inodes')
    BY <1>2, <1>3, <1>5, <1>6, <1>7, SMTT(30)
  <2> QED BY <2>1, <1>2, <1>4, <1>9, SMTT(30) DEF JobOK, Idle
<1> QED BY <1>2, <1>4, <1>10, <1>11, QuietStep

\* persistent_sync_descriptor, up to its first write
LEMMA SyncStep ==
    ASSUME NInv, NEW f, NEW size \in Sizes, persistent_sync_descriptor(f, size)
    PROVE  /\ NInv' /\ f \in Used(inodes') /\ Used(inodes') = Used(inodes)
           /\ inodes'[f].size = size
           /\ \A g \in Used(inodes) : /\ inodes'[g].start = inodes[g].start
                                      /\ g # f => inodes'[g] = inodes[g]
<1>1. /\ f \in Used(inodes) /\ inodes' = [inodes EXCEPT ![f].size = size]
      /\ job' = [op |-> "sync", file |-> f, step |-> 0]
      /\ TypeOK /\ job.step = 0 /\ up /\ next' = next /\ ret' = "none"
      /\ disk' = disk /\ up' = up /\ gen' = gen /\ faults' = faults /\ candidates' = candidates
      /\ Apart(inodes, next)
  BY DEF persistent_sync_descriptor, NInv, JobOK
<1>2. f \in Files /\ inodes \in Tables /\ inodes[f] \in Inode
  BY <1>1 DEF TypeOK, Tables, Used
<1>3. /\ inodes'[f] \in Inode /\ inodes'[f].size = size /\ inodes'[f].start = inodes[f].start
      /\ inodes' \in Tables
      /\ \A g \in Files : g # f => inodes'[g] = inodes[g]
  <2> DEFINE new == [inodes[f] EXCEPT !.size = size]
  <2>1. new \in Inode /\ new.size = size /\ new.start = inodes[f].start
    BY <1>2 DEF Inode
  <2>2. inodes' = [inodes EXCEPT ![f] = new]
    BY <1>1
  <2> HIDE DEF new
  <2> QED BY <2>1, <2>2, <1>2 DEF Tables
<1>4. Used(inodes') = Used(inodes)
  BY <1>1, <1>2, <1>3, MarkersAssumption DEF Used
<1>5. \A g \in Used(inodes) : inodes'[g].start = inodes[g].start /\ (g # f => inodes'[g] = inodes[g])
  BY <1>3 DEF Used
<1>6. job'.op = "sync" /\ job'.file = f /\ job'.step = 0
  BY <1>1
<1>7. TypeOK'
  <2>1. job' \in [op : JobOps, file : 0..MaxFiles, step : 0..Len(CommitPlan)]
    BY <1>1, <1>2, PlanOrder, NpkfsAssumption, SMTT(30) DEF JobOps, Files
  <2> QED BY <2>1, <1>1, <1>3 DEF TypeOK
<1>8. Apart(inodes', next')
  BY <1>1, <1>4, <1>5, SMTT(30) DEF Apart
<1>9. JobOK'
  BY <1>1, <1>4, <1>6, <1>8, SMTT(30) DEF JobOK, Idle
<1>10. NInv'
  BY <1>1, <1>6, <1>7, <1>9, QuietStep
<1> QED BY <1>1, <1>3, <1>4, <1>5, <1>10

\* FailJob gives up, or takes the new inode back and commits again.
LEMMA FailStep ==
    ASSUME TypeOK, JobOK, ~Idle, FailJob, up' = up, gen' = gen, faults' \in 0..MaxFaults,
           disk' \in [Sectors -> {Blank, Torn, NoInode} \cup Inode \cup Superblock \cup [state : {"prepare", "clear"}]]
    PROVE  /\ TypeOK' /\ JobOK'
           /\ \/ /\ job'.step = 0 /\ job'.op = "idle" /\ ret' = "eio" /\ candidates' = candidates
                 /\ job.op = "create" => job.step = 0
              \/ /\ job'.step = 1 /\ job'.op = "rollback" /\ job.op = "create" /\ job'.file = job.file
                 /\ ret' = "none" /\ candidates' = candidates \cup {inodes'}
           /\ job.op # "create" => inodes' = inodes
           /\ job.op = "create" => /\ Used(inodes') = Used(inodes) \ {job.file}
                                   /\ \A g \in Used(inodes') : inodes'[g] = inodes[g]
<1>1. /\ up /\ Apart(inodes, next) /\ inodes \in Tables /\ next \in 0..Areas /\ gen \in 0..MaxGeneration
      /\ job \in [op : JobOps, file : 0..MaxFiles, step : 0..Len(CommitPlan)] /\ candidates \subseteq Tables
  BY DEF TypeOK, JobOK
<1>2. IdleJob.op = "idle" /\ IdleJob.step = 0 /\ MaxFaults \in Nat /\ Areas \in Nat /\ MaxGeneration \in Nat
  BY IdleJobOK, NpkfsAssumption
<1>3. CASE job.op # "create"
  <2>1. job' = IdleJob /\ ret' = "eio" /\ inodes' = inodes /\ next' = next /\ candidates' = candidates
    BY <1>3 DEF FailJob, IdleJob
  <2>2. TypeOK'
    BY <2>1, <1>1, IdleJobOK DEF TypeOK
  <2>3. JobOK'
    BY <2>1, <1>1, <1>2, SMTT(30) DEF JobOK, Idle
  <2> QED BY <2>1, <2>2, <2>3, <1>2, <1>3
<1>4. CASE job.op = "create"
  <2> DEFINE f == job.file
  <2>1. inodes' = [inodes EXCEPT ![f] = NoInode] /\ next' = next - 1
    BY <1>4 DEF FailJob
  <2>2. f \in Used(inodes) /\ inodes[f].start = next - 1 /\ f \in Files
    BY <1>4 DEF JobOK, Used
  <2>3. inodes' \in Tables /\ inodes'[f] = NoInode /\ \A g \in Files : g # f => inodes'[g] = inodes[g]
    BY <2>1, <2>2, <1>1 DEF Tables
  <2>4. Used(inodes') = Used(inodes) \ {f} /\ \A g \in Used(inodes') : inodes'[g] = inodes[g]
    BY <2>3 DEF Used
  <2>5. \A g \in Used(inodes) : inodes[g].start \in Nat
    BY <1>1, NpkfsAssumption, SMTT(30) DEF Used, Tables, Inode
  <2>6. \A g, h \in Used(inodes) : inodes[g].start < next /\ (g # h => inodes[g].start # inodes[h].start)
    BY <1>1 DEF Apart
  <2>7. Apart(inodes', next')
    <3>1. next' = next - 1
      BY <2>1
    <3> HIDE DEF f
    <3> QED BY <3>1, <1>1, <1>2, <2>2, <2>4, <2>5, <2>6, SMTT(30) DEF Apart
  <2>8. next' \in 0..Areas
    BY <2>1, <2>2, <2>5, <1>1, <1>2, SMTT(30)
  <2>9. CASE gen = MaxGeneration
    <3>1. job' = IdleJob /\ ret' = "eio" /\ candidates' = candidates
      BY <1>4, <2>9 DEF FailJob, IdleJob
    <3>2. job.step = 0
      BY <2>9, <1>1, <1>2, PlanOrder, SMTT(30) DEF JobOK
    <3>3. TypeOK'
      BY <3>1, <1>1, <2>3, <2>8, IdleJobOK DEF TypeOK
    <3>4. JobOK'
      BY <3>1, <1>1, <1>2, <2>7, SMTT(30) DEF JobOK, Idle
    <3> QED BY <3>1, <3>2, <3>3, <3>4, <1>2, <1>4, <2>4
  <2>10. CASE gen # MaxGeneration
    <3>1. /\ job' = [op |-> "rollback", file |-> job.file, step |-> 1]
          /\ ret' = "none" /\ candidates' = candidates \cup {inodes'}
      BY <1>4, <2>10 DEF FailJob
    <3>2. job'.op = "rollback" /\ job'.file = job.file /\ job'.step = 1
      BY <3>1
    <3>3. job' \in [op : JobOps, file : 0..MaxFiles, step : 0..Len(CommitPlan)]
      <4>1. 1 \in 0..Len(CommitPlan) /\ "rollback" \in JobOps /\ job.file \in 0..MaxFiles
        BY PlanOrder, NpkfsAssumption, <1>1, SMTT(30) DEF JobOps, LastStep
      <4> QED BY <4>1, <3>1
    <3>4. TypeOK'
      BY <3>1, <3>3, <1>1, <2>3, <2>8 DEF TypeOK
    <3>5. JobOK'
      <4>1. gen' < MaxGeneration
        BY <1>1, <1>2, <2>10, SMTT(30)
      <4> QED BY <4>1, <3>1, <3>2, <1>1, <2>7, SMTT(30) DEF JobOK, Idle
    <3> QED BY <3>1, <3>2, <3>4, <3>5, <1>4, <2>4
  <2> QED BY <2>9, <2>10
<1> QED BY <1>3, <1>4

\* The disk after the current step of a commit
Stores(e, v) == e = [disk EXCEPT ![CommitPlan[job.step]] = v]

\* Writing one sector keeps the type of the disk and changes nothing else.
LEMMA StoreTyped ==
    ASSUME NInv, job.step > 0, NEW v, v = SectorValue(job.step) \/ v = Torn, NEW e, Stores(e, v)
    PROVE  /\ e \in [Sectors -> {Blank, Torn, NoInode} \cup Inode \cup Superblock \cup [state : {"prepare", "clear"}]]
           /\ e[CommitPlan[job.step]] = v /\ Interrupted(e)
           /\ \A sector \in Sectors : sector # CommitPlan[job.step] => e[sector] = disk[sector]
<1> DEFINE k == job.step
           Values == {Blank, Torn, NoInode} \cup Inode \cup Superblock \cup [state : {"prepare", "clear"}]
<1>1. k \in 1..LastStep /\ inodes \in Tables /\ disk \in [Sectors -> Values]
  BY PlanOrder, SMTT(30) DEF NInv, TypeOK
<1>2. CommitPlan[k] \in Sectors
  <2>1. "primary" \in Slots /\ "backup" \in Slots
    BY DEF Slots
  <2> QED BY <2>1, <1>1, PlanCases, PlanOrder, SectorsDiffer, SMTT(30)
<1>3. NextSuper \in Superblock
  BY NextSuperGood, SMTT(30) DEF NInv, JobOK, GoodSuper
<1>4. \A f \in Files : inodes[f] \in Inode \cup {NoInode}
  BY <1>1 DEF Tables
<1>5. SectorValue(k) \in Inode \cup {NoInode} \cup Superblock \cup [state : {"prepare", "clear"}]
  BY <1>1, <1>3, <1>4, PlanCases, SectorValues, SMTT(30)
<1>6. v \in Values
  BY <1>5
<1> HIDE DEF Values
<1>7. e \in [Sectors -> Values] /\ e[CommitPlan[k]] = v
      /\ \A sector \in Sectors : sector # CommitPlan[job.step] => e[sector] = disk[sector]
  BY <1>1, <1>2, <1>6 DEF Stores
<1>8. Interrupted(e)
  BY <1>7 DEF Interrupted
<1> QED BY <1>7, <1>8 DEF Values

\* Entering persistent_write_metadata
LEMMA WriteDataStep ==
    ASSUME NInv, WriteData
    PROVE  NInv'
<1>1. /\ TypeOK /\ JobOK /\ up /\ ~Idle /\ job.step = 0
      /\ disk' = disk /\ up' = up /\ gen' = gen /\ faults' = faults
  BY DEF NInv, WriteData
<1>2. CASE gen = MaxGeneration
  <2>1. FailJob
    BY <1>2 DEF WriteData
  <2>2. job' = IdleJob /\ candidates' = candidates
    BY <2>1, <1>2 DEF FailJob, IdleJob
  <2>3. faults' \in 0..MaxFaults /\ job'.step = 0
    BY <1>1, <2>2, IdleJobOK DEF TypeOK
  <2>4. disk' \in [Sectors -> {Blank, Torn, NoInode} \cup Inode \cup Superblock \cup [state : {"prepare", "clear"}]]
    BY <1>1 DEF TypeOK
  <2>5. TypeOK' /\ JobOK'
    BY <1>1, <2>1, <2>3, <2>4, FailStep
  <2> QED BY <1>1, <2>2, <2>3, <2>5, QuietStep
<1>3. CASE gen # MaxGeneration
  <2>1. /\ job' = [job EXCEPT !.step = 1] /\ candidates' = candidates \cup {inodes}
        /\ inodes' = inodes /\ next' = next /\ ret' = ret
    BY <1>3 DEF WriteData
  <2>2. /\ job'.op = job.op /\ job'.file = job.file /\ job'.step = 1
        /\ job' \in [op : JobOps, file : 0..MaxFiles, step : 0..Len(CommitPlan)]
    <3>1. 1 \in 0..Len(CommitPlan)
      BY PlanOrder, NpkfsAssumption, SMTT(30) DEF LastStep
    <3> QED BY <3>1, <1>1, <2>1 DEF TypeOK
  <2>3. TypeOK'
    BY <1>1, <2>1, <2>2 DEF TypeOK
  <2>4. JobOK'
    <3>1. gen' < MaxGeneration
      BY <1>1, <1>3, NpkfsAssumption, SMTT(30) DEF TypeOK
    <3> QED BY <3>1, <1>1, <2>1, <2>2 DEF JobOK, Idle
  <2>5. Progress'
    BY <2>2, NpkfsAssumption, SMTT(30) DEF Progress, Files
  <2>6. Fresh'
    <3>1. ASSUME faults = 0
          PROVE  /\ Twin(disk) /\ disk[Super("primary")].sum \in candidates
                 /\ gen = disk[Super("primary")].gen
      BY <3>1, <1>1 DEF NInv, Fresh
    <3>2. ASSUME faults' = 0
          PROVE  /\ Holds(disk', "primary") /\ disk'[Super("backup")] = disk'[Super("primary")]
                 /\ disk'[Super("primary")].sum \in candidates' /\ gen' = disk'[Super("primary")].gen
      BY <3>1, <3>2, <1>1, <2>1 DEF Twin
    <3> QED BY <3>2, <2>2, NpkfsAssumption, SMTT(30) DEF Fresh
  <2> QED BY <1>1, <2>2, <2>3, <2>4, <2>5, <2>6, SMTT(30) DEF NInv
<1> QED BY <1>2, <1>3

\* ata_write_sectors fails.
LEMMA AtaFailureStep ==
    ASSUME MaxFaults <= 1, NInv, AtaFailure
    PROVE  NInv'
<1>1. /\ TypeOK /\ JobOK /\ Supers(disk) /\ up /\ ~Idle /\ up' = up /\ gen' = gen /\ FailJob
      /\ faults < MaxFaults /\ faults' = faults + 1
  BY DEF NInv, AtaFailure
<1>2. faults = 0 /\ faults' = 1 /\ faults' \in 0..MaxFaults /\ job.step \in Nat
  BY <1>1, NpkfsAssumption, SMTT(30) DEF TypeOK
<1>3. /\ disk' \in [Sectors -> {Blank, Torn, NoInode} \cup Inode \cup Superblock \cup [state : {"prepare", "clear"}]]
      /\ Supers(disk') /\ Recoverable(disk', candidates)
  <2>1. CASE job.step = 0
    <3>1. disk' = disk
      BY <2>1, SMTT(30) DEF AtaFailure
    <3> QED BY <3>1, <2>1, <1>1 DEF NInv, TypeOK
  <2>2. CASE job.step > 0
    <3>1. CASE disk' = disk
      <4>1. Interrupted(disk')
        BY <3>1 DEF Interrupted
      <4> QED BY <3>1, <4>1, <2>2, <1>1, <1>2, CutShort DEF TypeOK
    <3>2. CASE disk' = [disk EXCEPT ![CommitPlan[job.step]] = SectorValue(job.step)]
      <4>1. /\ disk' \in [Sectors -> {Blank, Torn, NoInode} \cup Inode \cup Superblock \cup [state : {"prepare", "clear"}]]
            /\ Interrupted(disk')
        BY <3>2, <2>2, StoreTyped DEF Stores
      <4> QED BY <4>1, <2>2, <1>2, CutShort, SupersStay
    <3> QED BY <3>1, <3>2 DEF AtaFailure
  <2> QED BY <2>1, <2>2, <1>2, SMTT(30)
<1>4. /\ TypeOK' /\ JobOK'
      /\ \/ job'.step = 0 /\ candidates' = candidates
         \/ job'.step = 1
  BY <1>1, <1>2, <1>3, FailStep
<1>5. Progress'
  BY <1>4, NpkfsAssumption, SMTT(30) DEF Progress, Files
<1>6. Fresh'
  BY <1>2, SMTT(30) DEF Fresh
<1> QED BY <1>3, <1>4, <1>5, <1>6, SMTT(30) DEF NInv

\* Power fails.
LEMMA PowerLossStep ==
    ASSUME MaxFaults <= 1, NInv, PowerLoss
    PROVE  NInv'
<1>1. /\ TypeOK /\ JobOK /\ Supers(disk) /\ up /\ ~up' /\ gen' = 0 /\ next' = 0 /\ inodes' = EmptyTable
      /\ job' = IdleJob /\ ret' = "none" /\ candidates' = candidates
  BY DEF NInv, PowerLoss, IdleJob
<1>2. /\ faults \in 0..MaxFaults /\ MaxFaults \in Nat /\ job.step \in Nat
      /\ job'.op = "idle" /\ job'.step = 0
  BY <1>1, IdleJobOK, NpkfsAssumption, SMTT(30) DEF TypeOK
<1>3. /\ disk' \in [Sectors -> {Blank, Torn, NoInode} \cup Inode \cup Superblock \cup [state : {"prepare", "clear"}]]
      /\ Supers(disk') /\ Recoverable(disk', candidates) /\ faults' \in 0..MaxFaults
      /\ \/ faults' = faults /\ disk' = disk /\ job.step = 0
         \/ faults' # 0
  <2>1. CASE Idle
    <3>1. disk' = disk /\ faults' = faults /\ job.step = 0
      BY <2>1 DEF PowerLoss, NInv, JobOK
    <3> QED BY <3>1, <1>1, <1>2 DEF NInv, TypeOK
  <2>2. CASE ~Idle
    <3>1. faults' = 1 /\ faults = 0 /\ faults' \in 0..MaxFaults
      BY <2>2, <1>2, SMTT(30) DEF PowerLoss
    <3>2. CASE job.step = 0
      <4>1. disk' = disk
        BY <2>2, <3>2, SMTT(30) DEF PowerLoss
      <4> QED BY <4>1, <3>1, <3>2, <1>1 DEF NInv, TypeOK
    <3>3. CASE job.step > 0 /\ disk' = disk
      <4>1. Interrupted(disk')
        BY <3>3 DEF Interrupted
      <4> QED BY <3>1, <3>3, <4>1, <1>1, CutShort, SMTT(30) DEF TypeOK
    <3>4. CASE job.step > 0 /\ disk' = [disk EXCEPT ![CommitPlan[job.step]] = Torn]
      <4>1. /\ disk' \in [Sectors -> {Blank, Torn, NoInode} \cup Inode \cup Superblock \cup [state : {"prepare", "clear"}]]
            /\ Interrupted(disk')
        BY <3>4, StoreTyped DEF Stores
      <4> QED BY <4>1, <3>1, <3>4, CutShort, SupersStay, SMTT(30)
    <3> QED BY <3>2, <3>3, <3>4, <2>2, <1>2, SMTT(30) DEF PowerLoss
  <2> QED BY <2>1, <2>2
<1>4. TypeOK'
  <2>1. gen' \in 0..MaxGeneration /\ next' \in 0..Areas
    BY <1>1, NpkfsAssumption, SMTT(30)
  <2>2. up' \in BOOLEAN
    BY DEF PowerLoss
  <2> QED BY <2>1, <2>2, <1>1, <1>3, IdleJobOK, EmptyTableOK DEF TypeOK
<1>5. JobOK'
  BY <1>1, <1>2, SMTT(30) DEF JobOK, Idle
<1>6. Progress'
  BY <1>2, SMTT(30) DEF Progress
<1>7. Fresh'
  <2>1. ASSUME faults' = 0 PROVE Twin(disk') /\ disk'[Super("primary")].sum \in candidates'
    <3>1. faults = 0 /\ disk' = disk /\ job.step = 0
      BY <2>1, <1>3
    <3>2. Twin(disk) /\ disk[Super("primary")].sum \in candidates
      BY <3>1, <1>1 DEF NInv, Fresh
    <3> QED BY <3>1, <3>2, <1>1
  <2> QED BY <2>1, <1>1, <1>2, NpkfsAssumption, SMTT(30) DEF Fresh
<1> QED BY <1>1, <1>2, <1>3, <1>4, <1>5, <1>6, <1>7 DEF NInv

\* A disk that cannot be read when a file is opened or read again.
LEMMA ReadFaultStep ==
    ASSUME NInv, job.step = 0, faults' = faults + 1, faults' <= MaxFaults,
           UNCHANGED <<disk, up, gen, next, inodes, job, ret, candidates>>
    PROVE  NInv'
<1>1. faults' \in 0..MaxFaults /\ faults' # 0
  BY NpkfsAssumption, SMTT(30) DEF NInv, TypeOK
<1>2. TypeOK'
  BY <1>1 DEF NInv, TypeOK
<1>3. JobOK'
  BY DEF NInv, JobOK, Idle
<1>4. Progress' /\ Fresh'
  BY <1>1, SMTT(30) DEF Progress, Fresh
<1> QED BY <1>2, <1>3, <1>4 DEF NInv

\* One sector of persistent_write_metadata.
LEMMA WriteSectorStep ==
    ASSUME NInv, WriteSector
    PROVE  NInv'
<1> DEFINE k == job.step
<1>1. /\ TypeOK /\ JobOK /\ up /\ up' = up /\ next' = next /\ inodes' = inodes
      /\ k \in 1..LastStep /\ k > 0 /\ inodes \in Tables /\ gen \in 0..MaxGeneration
      /\ disk' = [disk EXCEPT ![CommitPlan[k]] = SectorValue(k)]
      /\ gen < MaxGeneration /\ Apart(inodes, next) /\ inodes \in candidates /\ candidates \subseteq Tables
  BY PlanOrder, SMTT(30) DEF NInv, WriteSector, TypeOK, JobOK
<1>2. /\ disk' \in [Sectors -> {Blank, Torn, NoInode} \cup Inode \cup Superblock \cup [state : {"prepare", "clear"}]]
      /\ disk'[CommitPlan[k]] = SectorValue(k) /\ Interrupted(disk')
      /\ \A sector \in Sectors : sector # CommitPlan[k] => disk'[sector] = disk[sector]
  <2>1. job.step > 0 /\ Stores(disk', SectorValue(job.step))
    BY <1>1 DEF Stores
  <2> QED BY <2>1, StoreTyped, SMTT(30)
<1>3. Supers(disk') /\ GoodSuper(NextSuper) /\ NextSuper.gen = gen + 1 /\ NextSuper.sum = inodes
  BY <1>1, <1>2, SupersStay
<1>4. /\ MaxFiles \in Nat /\ MaxGeneration \in Nat /\ MaxFaults \in Nat
      /\ "primary" \in Slots /\ "backup" \in Slots
  BY NpkfsAssumption DEF Slots
<1>5. /\ \A s \in Slots : \/ disk'[Super(s)] = disk[Super(s)] /\ Super(s) # CommitPlan[k]
                          \/ disk'[Super(s)] = NextSuper
      /\ \A s \in Slots, f \in Files :
            \/ disk'[InodeSector(s, f)] = disk[InodeSector(s, f)] /\ InodeSector(s, f) # CommitPlan[k]
            \/ disk'[InodeSector(s, f)] = inodes[f]
  <2>1. \A s \in Slots : Super(s) \in Sectors /\ \A f \in Files : InodeSector(s, f) \in Sectors
    BY SectorsDiffer
  <2>2. \A s : CommitPlan[k] = Super(s) => SectorValue(k) = NextSuper
    BY SectorValues
  <2>3. \A s, f : CommitPlan[k] = InodeSector(s, f) => SectorValue(k) = inodes[f]
    BY SectorValues
  <2> HIDE DEF k
  <2> QED BY <2>1, <2>2, <2>3, <1>2
\* What is written after this step
<1>6. /\ \A f \in Files : /\ 1 + f < k + 1 => disk'[InodeSector("backup", f)] = inodes[f]
                          /\ MaxFiles + 2 + f < k + 1 => disk'[InodeSector("primary", f)] = inodes[f]
      /\ MaxFiles + 2 < k + 1 => disk'[Super("backup")] = NextSuper
      /\ 2 * MaxFiles + 3 < k + 1 => disk'[Super("primary")] = NextSuper
  <2>1. /\ \A f \in Files : /\ 1 + f < k => disk[InodeSector("backup", f)] = inodes[f]
                            /\ MaxFiles + 2 + f < k => disk[InodeSector("primary", f)] = inodes[f]
        /\ MaxFiles + 2 < k => disk[Super("backup")] = NextSuper
        /\ 2 * MaxFiles + 3 < k => disk[Super("primary")] = NextSuper
    BY <1>1 DEF NInv, Progress
  <2>2. Files \subseteq Nat
    BY <1>4, SMTT(30) DEF Files
  <2>3. ASSUME NEW f \in Files
        PROVE  /\ 1 + f < k + 1 => disk'[InodeSector("backup", f)] = inodes[f]
               /\ MaxFiles + 2 + f < k + 1 => disk'[InodeSector("primary", f)] = inodes[f]
    <3>1. CommitPlan[1 + f] = InodeSector("backup", f) /\ CommitPlan[MaxFiles + 2 + f] = InodeSector("primary", f)
      BY PlanOrder
    <3>2. (1 + f < k + 1 => 1 + f < k \/ k = 1 + f) /\ (MaxFiles + 2 + f < k + 1 => MaxFiles + 2 + f < k \/ k = MaxFiles + 2 + f)
      BY <1>1, <1>4, <2>2, SMTT(30)
    <3> HIDE DEF k
    <3> QED BY <3>1, <3>2, <2>1, <1>4, <1>5
  <2>4. /\ MaxFiles + 2 < k + 1 => MaxFiles + 2 < k \/ k = MaxFiles + 2
        /\ 2 * MaxFiles + 3 < k + 1 => 2 * MaxFiles + 3 < k \/ k = 2 * MaxFiles + 3
    BY <1>1, <1>4, SMTT(30)
  <2>5. CommitPlan[MaxFiles + 2] = Super("backup") /\ CommitPlan[2 * MaxFiles + 3] = Super("primary")
    BY PlanOrder
  <2> HIDE DEF k
  <2> QED BY <2>1, <2>3, <2>4, <2>5, <1>4, <1>5
<1>7. CASE k < LastStep
  <2>1. /\ job' = [job EXCEPT !.step = @ + 1] /\ gen' = gen /\ ret' = ret /\ faults' = faults
        /\ candidates' = candidates
    BY <1>7, PlanOrder DEF WriteSector
  <2>2. /\ job'.op = job.op /\ job'.file = job.file /\ job'.step = k + 1
        /\ job' \in [op : JobOps, file : 0..MaxFiles, step : 0..Len(CommitPlan)]
    <3>1. job.step + 1 \in 0..Len(CommitPlan)
      BY PlanOrder, <1>1, <1>7, SMTT(30)
    <3> QED BY <3>1, <1>1, <2>1 DEF TypeOK
  <2>3. TypeOK'
    BY <1>1, <1>2, <2>1, <2>2 DEF TypeOK
  <2>4. JobOK'
    BY <1>1, <2>1, <2>2, SMTT(30) DEF JobOK, Idle
  <2>5. NextSuper' = NextSuper
    BY <1>1, <2>1 DEF NextSuper
  <2>6. Progress'
    BY <1>1, <1>6, <2>2, <2>5 DEF Progress
  <2>7. Fresh'
    <3>1. CASE faults = 0 /\ k <= MaxFiles + 1
      <4>1. /\ disk'[Super("primary")] = disk[Super("primary")] /\ disk'[Super("backup")] = disk[Super("backup")]
            /\ \A f \in Files : disk'[InodeSector("primary", f)] = disk[InodeSector("primary", f)]
        <5>1. \A f \in Files : f \in 1..MaxFiles
          BY DEF Files
        <5>2. k # MaxFiles + 2 /\ k # 2 * MaxFiles + 3 /\ \A f \in Files : k # MaxFiles + 2 + f
          BY <3>1, <1>1, <1>4, <5>1, SMTT(30)
        <5>3. CommitPlan[k] = Txn \/ \E f \in Files : CommitPlan[k] = InodeSector("backup", f)
          BY <5>2, <1>1, PlanCases, PlanOrder
        <5> HIDE DEF k
        <5> QED BY <5>3, <1>2, <1>4, SectorsDiffer, SMTT(30)
      <4>2. SlotTable(disk', "primary") = SlotTable(disk, "primary")
        BY <4>1 DEF SlotTable
      <4>3. \/ Virgin(disk) /\ candidates = {EmptyTable}
            \/ /\ Holds(disk, "primary") /\ disk[Super("backup")] = disk[Super("primary")]
               /\ disk[Super("primary")].sum \in candidates /\ gen = disk[Super("primary")].gen
        BY <3>1, <1>1, <1>4, SMTT(30) DEF NInv, Fresh
      <4>4. \/ Virgin(disk') /\ candidates' = {EmptyTable}
            \/ /\ Holds(disk', "primary") /\ disk'[Super("backup")] = disk'[Super("primary")]
               /\ disk'[Super("primary")].sum \in candidates' /\ gen' = disk'[Super("primary")].gen
        <5>1. CASE Virgin(disk) /\ candidates = {EmptyTable}
          BY <5>1, <4>1, <2>1 DEF Virgin, Slots
        <5>2. CASE /\ Holds(disk, "primary") /\ disk[Super("backup")] = disk[Super("primary")]
                   /\ disk[Super("primary")].sum \in candidates /\ gen = disk[Super("primary")].gen
          BY <5>2, <4>1, <4>2, <2>1 DEF Holds
        <5> QED BY <4>3, <5>1, <5>2
      <4> QED BY <4>4, <3>1, <2>2, <1>1, <1>4, SMTT(30) DEF Fresh
    <3>2. CASE faults = 0 /\ k = MaxFiles + 2
      <4>1. disk'[Super("primary")] = disk[Super("primary")]
        <5>1. CommitPlan[k] = Super("backup")
          BY <3>2, PlanOrder
        <5> QED BY <5>1, <1>2, <1>4, SectorsDiffer
      <4>2. \/ Virgin(disk)
            \/ Holds(disk, "primary") /\ gen = disk[Super("primary")].gen
        BY <3>2, <1>1, <1>4, SMTT(30) DEF NInv, Fresh
      <4>3. \/ disk'[Super("primary")] = Blank
            \/ GoodSuper(disk'[Super("primary")]) /\ disk'[Super("primary")].gen <= gen'
        BY <4>1, <4>2, <1>1, <1>4, <2>1, SMTT(30) DEF Virgin, Holds
      <4> QED BY <4>3, <3>2, <2>2, <1>4, SMTT(30) DEF Fresh
    <3>3. CASE faults = 0 /\ k > MaxFiles + 2 /\ k < 2 * MaxFiles + 3
      <4>1. disk'[Super("primary")] = disk[Super("primary")]
        <5>1. \A f \in Files : f \in 1..MaxFiles
          BY DEF Files
        <5>2. k # MaxFiles + 2 /\ k # 2 * MaxFiles + 3 /\ \A f \in Files : k # 1 + f
          BY <3>3, <1>1, <1>4, <5>1, SMTT(30)
        <5>3. CommitPlan[k] = Txn \/ \E f \in Files : CommitPlan[k] = InodeSector("primary", f)
          BY <5>2, <1>1, PlanCases, PlanOrder
        <5> HIDE DEF k
        <5> QED BY <5>3, <1>2, <1>4, SectorsDiffer, SMTT(30)
      <4>2. \/ disk[Super("primary")] = Blank
            \/ GoodSuper(disk[Super("primary")]) /\ disk[Super("primary")].gen <= gen
        BY <3>3, <1>1, <1>4, SMTT(30) DEF NInv, Fresh
      <4>3. \/ disk'[Super("primary")] = Blank
            \/ GoodSuper(disk'[Super("primary")]) /\ disk'[Super("primary")].gen <= gen'
        BY <4>1, <4>2, <2>1
      <4> QED BY <4>3, <3>3, <2>2, <1>1, <1>4, SMTT(30) DEF Fresh
    <3>4. CASE faults = 0 /\ k >= 2 * MaxFiles + 3
      BY <3>4, <2>2, <1>1, <1>4, SMTT(30) DEF Fresh
    <3> QED BY <3>1, <3>2, <3>3, <3>4, <2>1, <1>1, <1>4, SMTT(30) DEF Fresh
  <2> QED BY <1>1, <1>3, <2>2, <2>3, <2>4, <2>6, <2>7, SMTT(30) DEF NInv
<1>8. CASE k = LastStep
  <2>1. /\ job' = IdleJob /\ gen' = gen + 1 /\ faults' = 0 /\ candidates' = {inodes}
        /\ ret' \in {"ok", "eio"}
    BY <1>8, PlanOrder, SMTT(30) DEF WriteSector, IdleJob
  <2>2. job'.op = "idle" /\ job'.step = 0
    BY <2>1, IdleJobOK
  <2>3. TypeOK'
    <3>1. gen' \in 0..MaxGeneration /\ faults' \in 0..MaxFaults /\ candidates' \subseteq Tables
      BY <1>1, <1>4, <2>1, SMTT(30)
    <3> QED BY <3>1, <1>1, <1>2, <2>1, IdleJobOK DEF TypeOK
  <2>4. JobOK'
    BY <1>1, <2>2, SMTT(30) DEF JobOK, Idle
  <2>5. Progress'
    BY <2>2, SMTT(30) DEF Progress
  <2>6. /\ \A s \in Slots : disk'[Super(s)] = NextSuper
        /\ \A s \in Slots, f \in Files : disk'[InodeSector(s, f)] = inodes[f]
    <3>1. \A f \in Files : f \in 1..MaxFiles
      BY DEF Files
    <3>2. /\ \A f \in Files : 1 + f < k + 1 /\ MaxFiles + 2 + f < k + 1
          /\ MaxFiles + 2 < k + 1 /\ 2 * MaxFiles + 3 < k + 1
      BY <3>1, <1>4, <1>8, SMTT(30) DEF LastStep
    <3> QED BY <3>2, <1>6 DEF Slots
  <2>7. ASSUME NEW s \in Slots PROVE SlotTable(disk', s) = inodes
    <3>1. inodes \in Tables /\ \A f \in Files : disk'[InodeSector(s, f)] = inodes[f]
      BY <2>6, <1>1
    <3> QED BY <3>1, TableOf
  <2>8. \A s \in Slots : Holds(disk', s) /\ disk'[Super(s)].sum = inodes
    BY <2>6, <2>7, <1>3 DEF Holds
  <2>9. Twin(disk') /\ disk'[Super("primary")].sum = inodes /\ gen' = disk'[Super("primary")].gen
    BY <2>1, <2>6, <2>8, <1>3, <1>4 DEF Twin
  <2>10. Fresh'
    BY <2>1, <2>2, <2>9, <1>4, SMTT(30) DEF Fresh
  <2>11. Recoverable(disk', candidates')
    <3>1. Chosen(disk', Slots) # {} /\ Chosen(disk', Slots) \subseteq Slots
      BY <1>3, <1>4, <2>8, ChosenHolds
    <3> QED BY <3>1, <2>1, <2>7 DEF Recoverable
  <2> QED BY <1>3, <2>3, <2>4, <2>5, <2>10, <2>11 DEF NInv
<1> QED BY <1>1, <1>7, <1>8, PlanOrder, SMTT(30)
==============================================================================
