----------------------------- MODULE AddressSpace -----------------------------
(***************************************************************************)
(* What processes may rely on about their memory: pages of its own that    *)
(* nobody else's writes reach, a copy of them for a forked child, a new    *)
(* program in their place after execve, and one shared object.  Module     *)
(* Memory implements this with reference-counted frames, lazy allocation   *)
(* and copy on write.                                                      *)
(***************************************************************************)
CONSTANTS Procs, Pages,
          Fresh,    \* contents a new page may have
          Written   \* contents programs write

VARIABLES mem,      \* what each process sees at each page: contents, or
                    \* Absent, or Shared for a page of the shared object
          object,   \* contents of the shared object
          programs  \* the memories a new program may start with; never changes

Absent == "absent"
Shared == "shared"
Image == "image"   \* contents of a page of a program
Values == Fresh \cup {Image} \cup Written
Nothing == [v \in Pages |-> Absent]

Init == mem = [p \in Procs |-> Nothing] /\ object \in Fresh

Map(p, v) ==
    /\ mem[p][v] = Absent
    /\ \E x \in Fresh \cup {Shared} : mem' = [mem EXCEPT ![p][v] = x]
    /\ UNCHANGED object

\* The object may be replaced once nobody maps it any more
MayDrop == object' = object \/ (object' \in Fresh /\ \A p \in Procs, v \in Pages : mem'[p][v] # Shared)

Unmap(p, v) ==
    /\ mem' = [mem EXCEPT ![p][v] = Absent]
    /\ MayDrop

Write(p, v) ==
    /\ mem[p][v] \in Values
    /\ \E x \in Written : mem' = [mem EXCEPT ![p][v] = x]
    /\ UNCHANGED object

WriteShared(p, v) ==
    /\ mem[p][v] = Shared
    /\ object' \in Written
    /\ UNCHANGED mem

Create == UNCHANGED mem /\ MayDrop

Fork(p, q) ==
    /\ mem[q] = Nothing
    /\ mem' = [mem EXCEPT ![q] = mem[p]]
    /\ UNCHANGED object

Exit(p) ==
    /\ mem' = [mem EXCEPT ![p] = Nothing]
    /\ MayDrop

\* A heap that grows or shrinks by several pages
Resize(p) ==
    /\ mem' = [mem EXCEPT ![p] = mem'[p]]
    /\ \E x \in {Absent} \cup Fresh : \A v \in Pages :
         mem'[p][v] = mem[p][v] \/ (mem'[p][v] = x /\ (x # Absent => mem[p][v] = Absent))
    /\ UNCHANGED object

\* execve, or a first program in a new process
Exec(p) ==
    /\ \E program \in programs : mem' = [mem EXCEPT ![p] = program]
    /\ MayDrop

Next ==
    /\ UNCHANGED programs
    /\ \/ Create
       \/ \E p \in Procs : Exit(p) \/ Exec(p)
       \/ \E p, q \in Procs : Fork(p, q)
       \/ \E p \in Procs, v \in Pages : Map(p, v) \/ Unmap(p, v) \/ Write(p, v) \/ WriteShared(p, v)
       \/ \E p \in Procs : Resize(p)

Spec == Init /\ [][Next]_<<mem, object, programs>>
=============================================================================
