-------------------------------- MODULE Memory --------------------------------
(***************************************************************************)
(* User memory: page frames with reference counts (src/memory/pmm.c), page *)
(* tables, copy on write and address spaces (src/memory/vmm.c), mappings   *)
(* and page faults (src/memory/vm.c), the pages of a shared-memory object  *)
(* (src/fs/vfs.c), and execve, which stages a new address space from an    *)
(* ELF image (src/proc/process.c, module Elf) and then replaces the old.   *)
(*                                                                         *)
(* A page table tree has a root, a middle table for every two pages        *)
(* (levels 3 and 2 in one) and a last-level table for each page, so that   *)
(* every table can be missing.  A table is never shared, so the frames of  *)
(* tables are only counted; frames of pages are told apart.  Mappings are  *)
(* kept page by page: the list of regions and its splitting are            *)
(* bookkeeping for this function.                                          *)
(*                                                                         *)
(* Left out: device mappings, which own no frames; failures of the kernel  *)
(* heap.  The stack is one page: how far below the stack pointer it may    *)
(* grow is not modelled.                                                   *)
(***************************************************************************)
EXTENDS Elf

CONSTANTS MaxProcs,
          MaxPages,    \* user pages of an address space
          MaxFrames,   \* bound on the frames of pages, tables not counted
          StackPage,   \* the page of the stack
          HeapPages,   \* pages reserved for brk
          Images,      \* images whose loading is examined
          Written,     \* values programs write
          Workloads    \* the frames the machine has and what programs do: system
                       \* calls, kinds and protections of their mappings, how
                       \* many processes they make and pages they use, images
                       \* they execute and the interpreter installed

ASSUME MemoryAssumption ==
    /\ MaxProcs \in Nat \ {0} /\ MaxPages \in Nat \ {0} /\ MaxFrames \in Nat \ {0}
    /\ StackPage \in 1..MaxPages /\ HeapPages \in Nat \ {0}
    /\ UserMin = PageSize /\ UserMax = (MaxPages + 1) * PageSize
    /\ \A w \in Workloads : /\ w.frames \in Nat \ {0} /\ w.procs \in 1..MaxProcs /\ w.pages \in 1..MaxPages
                           /\ w.kinds \subseteq {"anon", "file", "shm"} /\ w.prots \subseteq {"r", "rw", "rx"}
    /\ "absent" \notin Written /\ "shared" \notin Written

VARIABLES s,    \* frames of pages: refs and content; the number of frames that
                \* are tables; address spaces sp; the frame shm of the shared
                \* object and whether a descriptor of it is open, fd
          load  \* the workload of this behaviour

vars == <<s, load>>

Procs == 1..MaxProcs
Pages == 1..MaxPages
Frames == 1..MaxFrames
Mid(v) == (v + 1) \div 2
Mids == {Mid(v) : v \in Pages}
Null == 0
Fresh == {"zero", "file"}
Values == Fresh \cup {"image"} \cup Written

NoPte == [frame |-> Null, w |-> FALSE, x |-> FALSE, cow |-> FALSE, shared |-> FALSE]
NoVma == [kind |-> "none", prot |-> "r"]
Staged == 0     \* the place of the address space execve is building
NoSpace == [root |-> FALSE,
            mid |-> [m \in Mids |-> FALSE],
            pt |-> [v \in Pages |-> FALSE],
            leaf |-> [v \in Pages |-> NoPte],
            vma |-> [v \in Pages |-> NoVma],
            brk |-> 0]     \* the first page of the heap beyond the break

Alive(p) == s.sp[p].root
Present(t, p, v) == t.sp[p].leaf[v].frame # Null
FreshOf(kind) == IF kind = "file" THEN "file" ELSE "zero"

\* A page that may be made present: inside a mapping, and below the break if
\* that is the heap's
Usable(t, p, v) ==
    LET kind == t.sp[p].vma[v].kind
    IN kind # "none" /\ (kind = "heap" => v < t.sp[p].brk)

-----------------------------------------------------------------------------
(* Frames.                                                                 *)

Unused(t) == {f \in Frames : t.refs[f] = 0}
Full(t) == t.tables + Cardinality(Frames \ Unused(t)) >= load.frames

\* pmm_alloc_page for a page and for a table, when memory is not full
NewFrame(t) == CHOOSE f \in Unused(t) : \A g \in Unused(t) : f <= g
AllocPage(t, x) == [t EXCEPT !.refs[NewFrame(t)] = 1, !.content[NewFrame(t)] = x]
AllocTable(t) == [t EXCEPT !.tables = @ + 1]
FreeTable(t) == [t EXCEPT !.tables = @ - 1]

pmm_retain_page(t, f) == [t EXCEPT !.refs[f] = @ + 1]

\* pmm_free_page: one reference less.  What a free frame holds is forgotten:
\* every user of a new frame fills it.
pmm_free_page(t, f) ==
    IF f = Null THEN t
    ELSE [t EXCEPT !.refs[f] = @ - 1, !.content[f] = IF t.refs[f] = 1 THEN "zero" ELSE @]

\* The first process, with nothing mapped yet
Init ==
    /\ s = [refs |-> [f \in Frames |-> 0],
            content |-> [f \in Frames |-> "zero"],
            tables |-> 1,
            sp |-> [p \in {Staged} \cup Procs |-> [NoSpace EXCEPT !.root = p = 1]],
            shm |-> Null,
            fd |-> FALSE]
    /\ load \in Workloads

-----------------------------------------------------------------------------
(* Mapping a page.  ensure_table twice, then the leaf entry.               *)

ensure_mid(t, p, v) ==
    IF t.sp[p].mid[Mid(v)] \/ Full(t) THEN t
    ELSE [AllocTable(t) EXCEPT !.sp[p].mid[Mid(v)] = TRUE]

ensure_pt(t, p, v) ==
    IF ~t.sp[p].mid[Mid(v)] \/ t.sp[p].pt[v] \/ Full(t) THEN t
    ELSE [AllocTable(t) EXCEPT !.sp[p].pt[v] = TRUE]

\* Mutant: the caller keeps the frame when no table could be made.
MapPageLeaks(t, p, v, f, prot, shared) ==
    LET t1 == ensure_pt(ensure_mid(t, p, v), p, v)
    IN IF ~t1.sp[p].pt[v] \/ Present(t1, p, v) THEN t1
       ELSE [t1 EXCEPT !.sp[p].leaf[v] = [frame |-> f, w |-> prot = "rw", x |-> prot = "rx",
                                          cow |-> FALSE, shared |-> shared]]

\* vmm_map_page_root for a frame the caller holds a reference to, which it
\* gives back if a table is missing or the page is taken; tables made on the
\* way stay.
MapPage(t, p, v, f, prot, shared) ==
    LET t1 == ensure_pt(ensure_mid(t, p, v), p, v)
    IN IF ~t1.sp[p].pt[v] \/ Present(t1, p, v) THEN pmm_free_page(t1, f)
       ELSE [t1 EXCEPT !.sp[p].leaf[v] = [frame |-> f, w |-> prot = "rw", x |-> prot = "rx",
                                          cow |-> FALSE, shared |-> shared]]

\* map_zero_page, map_file_page and map_shared_page
Materialize(t, p, v) ==
    LET kind == t.sp[p].vma[v].kind
        prot == t.sp[p].vma[v].prot
    IN IF kind = "shm" THEN MapPage(pmm_retain_page(t, t.shm), p, v, t.shm, prot, TRUE)
       ELSE IF Full(t) THEN t
       ELSE MapPage(AllocPage(t, FreshOf(kind)), p, v, NewFrame(t), prot, FALSE)

\* vmm_resolve_cow_fault
vmm_resolve_cow_fault(t, p, v) ==
    LET old == t.sp[p].leaf[v].frame
        writable == [t.sp[p].leaf[v] EXCEPT !.w = TRUE, !.cow = FALSE]
    IN IF t.refs[old] = 1 THEN [t EXCEPT !.sp[p].leaf[v] = writable]
       ELSE IF Full(t) THEN t
       ELSE pmm_free_page([AllocPage(t, t.content[old]) EXCEPT
                               !.sp[p].leaf[v] = [writable EXCEPT !.frame = NewFrame(t)]], old)

\* The page fault of a write, vm_handle_page_fault, and the way vmm_copyout
\* makes a page writable for the kernel: an entry marked copy on write is
\* resolved whatever the mapping says, a missing one is made.
WriteFault(t, p, v) ==
    LET pte == t.sp[p].leaf[v]
        vma == t.sp[p].vma[v]
    IN CASE Present(t, p, v) /\ pte.cow -> vmm_resolve_cow_fault(t, p, v)
         [] ~Present(t, p, v) /\ Usable(t, p, v) /\ vma.prot = "rw" -> Materialize(t, p, v)
         [] OTHER -> t

-----------------------------------------------------------------------------
(* Programs.                                                               *)

\* A write of x: the page is made writable if it is not; if that fails the
\* program gets a signal and nothing is written.
Write(p, v, x) ==
    /\ Alive(p)
    /\ LET t == IF s.sp[p].leaf[v].w THEN s ELSE WriteFault(s, p, v)
       IN s' = IF t.sp[p].leaf[v].w THEN [t EXCEPT !.content[t.sp[p].leaf[v].frame] = x] ELSE t

\* A read that faults
Read(p, v) ==
    /\ Alive(p) /\ ~Present(s, p, v) /\ Usable(s, p, v)
    /\ s' = Materialize(s, p, v)

vm_map(p, v, kind, prot) ==
    /\ "mmap" \in load.calls
    /\ v <= load.pages /\ kind \in load.kinds /\ prot \in load.prots
    /\ Alive(p) /\ s.sp[p].vma[v] = NoVma
    /\ kind = "shm" => s.fd
    /\ s' = [s EXCEPT !.sp[p].vma[v] = [kind |-> kind, prot |-> prot]]

\* vfs_close of the shared object: its page goes with the last reference.
Users(t) == {p \in Procs : \E v \in Pages : t.sp[p].vma[v].kind = "shm"}
DropObject(t) == IF ~t.fd /\ Users(t) = {} THEN [pmm_free_page(t, t.shm) EXCEPT !.shm = Null] ELSE t

\* A mapping of the program's or its image's; the heap's cannot be cut, and
\* the stack is not a mapping.
Mapped(p, v) == s.sp[p].vma[v].kind \in {"anon", "file", "shm"}

vm_unmap(p, v) ==
    /\ "munmap" \in load.calls
    /\ Alive(p) /\ Mapped(p, v)
    /\ s' = DropObject([pmm_free_page(s, s.sp[p].leaf[v].frame) EXCEPT
                           !.sp[p].vma[v] = NoVma, !.sp[p].leaf[v] = NoPte])

\* Mutant: the new permissions are added to the old ones.
ProtectAdds(p, v, prot) ==
    /\ "mprotect" \in load.calls /\ prot \in load.prots
    /\ Alive(p) /\ Mapped(p, v)
    /\ s' = [s EXCEPT !.sp[p].vma[v].prot = prot,
                      !.sp[p].leaf[v] = IF @.frame = Null THEN @
                          ELSE [@ EXCEPT !.w = @ \/ prot = "rw", !.x = @ \/ prot = "rx"]]

\* vm_protect, and vmm_protect_page_root for a page that is present
vm_protect(p, v, prot) ==
    /\ "mprotect" \in load.calls /\ prot \in load.prots
    /\ Alive(p) /\ Mapped(p, v)
    /\ s' = [s EXCEPT !.sp[p].vma[v].prot = prot,
                      !.sp[p].leaf[v] = IF @.frame = Null THEN @
                          ELSE [@ EXCEPT !.w = prot = "rw" /\ ~s.sp[p].leaf[v].cow, !.x = prot = "rx"]]

vfs_shm_create ==
    /\ "shm" \in load.calls
    /\ s.shm = Null /\ ~Full(s)
    /\ s' = [AllocPage(s, "zero") EXCEPT !.shm = NewFrame(s), !.fd = TRUE]

shm_close ==
    /\ s.fd
    /\ s' = DropObject([s EXCEPT !.fd = FALSE])

-----------------------------------------------------------------------------
(* fork and exit.                                                          *)

\* clone_user_table for the last-level table of page v.  acc: the tables so
\* far, whether an entry was found, whether the allocation of a table failed.
\* The table of a page that is not there is given back at once.
ClonePt(acc, p, q, v) ==
    LET t == acc.t
        pte == t.sp[p].leaf[v]
    IN CASE acc.failed \/ ~t.sp[p].pt[v] -> acc
         [] ~acc.failed /\ t.sp[p].pt[v] /\ Full(t) -> [acc EXCEPT !.failed = TRUE]
         [] OTHER -> IF pte = NoPte THEN acc
                     ELSE [acc EXCEPT !.found = TRUE,
                                      !.t = [pmm_retain_page(AllocTable(t), pte.frame) EXCEPT
                                                !.sp[q].pt[v] = TRUE, !.sp[q].leaf[v] = pte]]

\* ... and for a middle table.  When nothing was found, or a table below is
\* missing, the middle table is given back and what hung below it is lost.
CloneMid(acc, p, q, m) ==
    LET t == acc.t
        below == SetToSortSeq({v \in Pages : Mid(v) = m}, <)
        sub == FoldLeft(LAMBDA a, v : ClonePt(a, p, q, v),
                        [t |-> AllocTable(t), found |-> FALSE, failed |-> FALSE], below)
    IN CASE acc.failed \/ ~t.sp[p].mid[m] -> acc
         [] ~acc.failed /\ t.sp[p].mid[m] /\ Full(t) -> [acc EXCEPT !.failed = TRUE]
         [] OTHER -> IF sub.found /\ ~sub.failed
                     THEN [acc EXCEPT !.found = TRUE, !.t = [sub.t EXCEPT !.sp[q].mid[m] = TRUE]]
                     ELSE [acc EXCEPT !.t = [FreeTable(sub.t) EXCEPT !.sp[q] = t.sp[q]]]

\* Mutant: only the child's entry is protected.
MarkCowChildOnly(t, p, q) ==
    [t EXCEPT !.sp[q].leaf = [v \in Pages |->
        IF @[v].w /\ ~@[v].shared THEN [@[v] EXCEPT !.w = FALSE, !.cow = TRUE] ELSE @[v]]]

\* mark_cow_table, for pages both have
mark_cow_table(t, p, q) ==
    LET both == {v \in Pages : Present(t, p, v) /\ Present(t, q, v)
                                /\ t.sp[p].leaf[v].w /\ ~t.sp[p].leaf[v].shared}
        marked(leaf) == [v \in Pages |->
                            IF v \in both THEN [leaf[v] EXCEPT !.w = FALSE, !.cow = TRUE] ELSE leaf[v]]
    IN [t EXCEPT !.sp[p].leaf = marked(@), !.sp[q].leaf = marked(@)]

\* vmm_destroy_address_space: the pages, the tables and the root
vmm_destroy_address_space(t, p) ==
    LET space == t.sp[p]
        tables == 1 + Cardinality({m \in Mids : space.mid[m]}) + Cardinality({v \in Pages : space.pt[v]})
        freed == FoldLeft(LAMBDA acc, v : pmm_free_page(acc, space.leaf[v].frame), t, [v \in Pages |-> v])
    IN [freed EXCEPT !.tables = @ - tables, !.sp[p] = NoSpace]

\* vmm_clone_user_space.  The kernel's half is walked last and needs a frame
\* for a table it then gives back.  Without it, without a middle table, or
\* without a single page found, what was cloned is destroyed and fork fails.
\* It also fails, late, when a thread, a descriptor, the list of mappings or a
\* kernel stack cannot be had (late): the parent's pages stay marked.
process_fork(p, q, late) ==
    /\ "fork" \in load.calls
    /\ Alive(p) /\ ~Alive(q) /\ q <= load.procs
    /\ ~Full(s)
    /\ LET t == [AllocTable(s) EXCEPT !.sp[q].root = TRUE]
           cloned == FoldLeft(LAMBDA a, m : CloneMid(a, p, q, m),
                              [t |-> t, found |-> FALSE, failed |-> FALSE], [m \in Mids |-> m])
           marked == mark_cow_table(cloned.t, p, q)
       IN s' = IF ~cloned.found \/ cloned.failed \/ Full(cloned.t)
               THEN vmm_destroy_address_space(cloned.t, q)
               ELSE IF late THEN vmm_destroy_address_space(marked, q)
               ELSE [marked EXCEPT !.sp[q].vma = s.sp[p].vma, !.sp[q].brk = s.sp[p].brk]

\* destroy_process_memory: the mappings, then the address space
process_exit(p) ==
    /\ "exit" \in load.calls
    /\ Alive(p)
    /\ s' = DropObject(vmm_destroy_address_space(s, p))

-----------------------------------------------------------------------------
(* The heap of a program, and execve.                                      *)

Unmapped(t, p, v) == [pmm_free_page(t, t.sp[p].leaf[v].frame) EXCEPT !.sp[p].leaf[v] = NoPte]

\* Mutant: the break moves and the pages above it stay.
ResizeKeepsPages(p, end) ==
    /\ "brk" \in load.calls
    /\ LET heap == {v \in Pages : s.sp[p].vma[v].kind = "heap"}
       IN Alive(p) /\ heap # {} /\ end \in Min(heap)..Max(heap) + 1
    /\ s' = [s EXCEPT !.sp[p].brk = end]

\* sys_brk and vm_resize_heap: the pages above a lower break are given back.
vm_resize_heap(p, end) ==
    /\ "brk" \in load.calls
    /\ LET heap == {v \in Pages : s.sp[p].vma[v].kind = "heap"}
       IN Alive(p) /\ heap # {} /\ end \in Min(heap)..Max(heap) + 1
    /\ LET above == {v \in Pages : end <= v /\ v < s.sp[p].brk}
       IN s' = [FoldSet(LAMBDA v, t : Unmapped(t, p, v), s, above) EXCEPT !.sp[p].brk = end]

\* The steps of stage_exec_image take the space built so far and whether all
\* went well, and do nothing once something failed.
LoadPage(acc, page) ==
    LET v == page.va \div PageSize
        t == MapPage(AllocPage(acc.t, "image"), Staged, v, NewFrame(acc.t), page.prot, FALSE)
    IN IF ~acc.ok THEN acc
       ELSE IF Full(acc.t) THEN [acc EXCEPT !.ok = FALSE]
       ELSE IF Present(acc.t, Staged, v) \/ ~Present(t, Staged, v) THEN [acc EXCEPT !.ok = FALSE, !.t = t]
       ELSE [acc EXCEPT !.t = t, !.pages = Append(@, v)]

\* When a page cannot be had, the pages of this image are unmapped again.
elf64_load_in_address_space(acc, image, bias) ==
    LET loaded == FoldLeft(LoadPage, [acc EXCEPT !.pages = <<>>], ImagePages(image, bias))
    IN IF ~acc.ok THEN acc
       ELSE IF ~elf64_validate_at_bias(image, bias) THEN [acc EXCEPT !.ok = FALSE]
       ELSE IF loaded.ok THEN loaded
       ELSE [loaded EXCEPT !.t = FoldLeft(LAMBDA t, v : Unmapped(t, Staged, v), @, loaded.pages)]

\* A mapping for each segment
register_exec_vmas(acc, image, bias) ==
    LET pages == ImagePages(image, bias)
        register(t, page) == [t EXCEPT !.sp[Staged].vma[page.va \div PageSize] = [kind |-> "anon", prot |-> page.prot]]
    IN IF ~acc.ok THEN acc ELSE [acc EXCEPT !.t = FoldLeft(register, @, pages)]

LoadImage(acc, image, bias) ==
    register_exec_vmas(elf64_load_in_address_space(acc, image, bias), image, bias)

\* vm_reserve_heap above the highest image
vm_reserve_heap(acc, image_end) ==
    LET start == align_up(image_end)
        wanted == Plus(start, HeapPages * PageSize)
        limit == IF wanted < start \/ wanted > UserMax THEN UserMax - PageSize ELSE wanted
        heap == {v \in Pages : start <= v * PageSize /\ v * PageSize < limit}
    IN IF ~acc.ok THEN acc
       ELSE IF start >= limit THEN [acc EXCEPT !.ok = FALSE]
       ELSE [acc EXCEPT !.t.sp[Staged].vma = [v \in Pages |-> IF v \in heap THEN [kind |-> "heap", prot |-> "rw"] ELSE @[v]],
                        !.t.sp[Staged].brk = start \div PageSize]

\* build_initial_user_stack writes the arguments x into the stack's page, which
\* user_stack_write makes present unless a page of the image is there already.
build_initial_user_stack(acc, x) ==
    LET space == acc.t.sp[Staged]
        stack == [acc.t EXCEPT !.sp[Staged].vma[StackPage] = [kind |-> "stack", prot |-> "rw"]]
        t == IF space.vma[StackPage] = NoVma THEN Materialize(stack, Staged, StackPage) ELSE acc.t
        pte == t.sp[Staged].leaf[StackPage]
    IN IF ~acc.ok THEN acc
       ELSE IF pte.w THEN [acc EXCEPT !.t = [t EXCEPT !.content[pte.frame] = x]]
       ELSE [acc EXCEPT !.t = t, !.ok = FALSE]

\* The checks of the image and of the interpreter it names, which must name none
Executable(image) ==
    /\ elf64_validate(image)
    /\ \/ elf64_get_interpreter(image) = "none"
       \/ /\ elf64_get_interpreter(image) = "named" /\ elf64_get_interpreter(load.interp) = "none"
          /\ load.interp.type = "dyn" /\ elf64_validate(load.interp)

stage_exec_image(image, x) ==
    LET root == [t |-> [AllocTable(s) EXCEPT !.sp[Staged].root = TRUE], ok |-> TRUE, pages |-> <<>>]
        main == LoadImage(root, image, Bias(image))
        interpreted == elf64_get_interpreter(image) = "named"
        both == IF interpreted THEN LoadImage(main, load.interp, InterpBase) ELSE main
        ends == {ImageEnd(image, Bias(image))} \cup (IF interpreted THEN {ImageEnd(load.interp, InterpBase)} ELSE {})
    IN build_initial_user_stack(vm_reserve_heap(both, Max(ends)), x)

\* process_exec_current: the new space is complete before the old one is
\* touched.  close says whether the descriptor of the shared object goes.
process_exec_current(p, image, x, close) ==
    /\ "exec" \in load.calls /\ image \in load.images
    /\ Alive(p)
    /\ LET staged == stage_exec_image(image, x)
           swapped == [staged.t EXCEPT !.sp[p] = staged.t.sp[Staged], !.sp[Staged] = s.sp[p],
                                       !.fd = @ /\ ~close]
       IN s' = IF ~Executable(image) \/ Full(s) THEN s
               ELSE IF ~staged.ok THEN vmm_destroy_address_space(staged.t, Staged)
               ELSE DropObject(vmm_destroy_address_space(swapped, Staged))

\* process_exec_image_with_args, which the kernel uses to start a program.  The
\* process may not be had (late).
process_exec_image_with_args(q, image, x, late) ==
    /\ "spawn" \in load.calls /\ image \in load.images
    /\ ~Alive(q) /\ q <= load.procs
    /\ LET staged == stage_exec_image(image, x)
       IN s' = IF ~Executable(image) \/ Full(s) THEN s
               ELSE IF ~staged.ok \/ late THEN vmm_destroy_address_space(staged.t, Staged)
               ELSE [staged.t EXCEPT !.sp[q] = staged.t.sp[Staged], !.sp[Staged] = NoSpace]

Next ==
    /\ UNCHANGED load
    /\ \/ \E p \in Procs, v \in Pages, x \in Written : Write(p, v, x)
       \/ \E p \in Procs, v \in Pages : Read(p, v) \/ vm_unmap(p, v)
       \/ \E p \in Procs, v \in Pages, kind \in {"anon", "file", "shm"}, prot \in {"r", "rw", "rx"} :
              vm_map(p, v, kind, prot)
       \/ \E p \in Procs, v \in Pages, prot \in {"r", "rw", "rx"} : vm_protect(p, v, prot)
       \/ \E p, q \in Procs, late \in BOOLEAN : process_fork(p, q, late)
       \/ \E p \in Procs : process_exit(p)
       \/ \E p \in Procs, end \in 1..MaxPages + 1 : vm_resize_heap(p, end)
       \/ \E p \in Procs, image \in load.images, x \in Written, flag \in BOOLEAN :
              \/ process_exec_current(p, image, x, flag)
              \/ process_exec_image_with_args(p, image, x, flag)
       \/ vfs_shm_create
       \/ shm_close

Spec == Init /\ [][Next]_vars

-----------------------------------------------------------------------------
(* Properties.                                                             *)

\* Every entry has its type; an entry marked copy on write is not writable,
\* and a page is present only under tables, inside a mapping and, in the heap,
\* below the break.  Nothing stays staged.
TypeOK ==
    /\ s.refs \in [Frames -> Nat] /\ s.content \in [Frames -> Values]
    /\ s.sp[Staged] = NoSpace
    /\ s.tables \in Nat /\ s.shm \in Frames \cup {Null} /\ s.fd \in BOOLEAN
    /\ \A p \in Procs, v \in Pages :
         LET space == s.sp[p] IN
         /\ space.root \in BOOLEAN
         /\ space.leaf[v].frame # Null => space.pt[v] /\ Usable(s, p, v)
         /\ space.pt[v] => space.mid[Mid(v)]
         /\ ~(space.leaf[v].cow /\ space.leaf[v].w)

\* The count of every frame is the number of references to it, from leaf
\* entries and the shared object, and there are as many tables as the trees
\* have.  So no frame is freed while in use, and none is lost.
References(f) ==
    Cardinality({r \in Procs \X Pages : s.sp[r[1]].leaf[r[2]].frame = f})
    + (IF s.shm = f THEN 1 ELSE 0)
Tables ==
    Cardinality({p \in Procs : s.sp[p].root})
    + Cardinality({r \in Procs \X Mids : s.sp[r[1]].mid[r[2]]})
    + Cardinality({r \in Procs \X Pages : s.sp[r[1]].pt[r[2]]})
RefsMatch == s.tables = Tables /\ \A f \in Frames : s.refs[f] = References(f)

\* No page can be both written and executed ("W^X").
WriteXorExecute == \A p \in Procs, v \in Pages : ~(s.sp[p].leaf[v].w /\ s.sp[p].leaf[v].x)

\* What a process sees at a page, present or not
Sees(p, v) ==
    LET vma == s.sp[p].vma[v]
    IN CASE ~Usable(s, p, v) -> "absent"
         [] vma.kind = "shm" -> "shared"
         [] Usable(s, p, v) /\ vma.kind # "shm" /\ Present(s, p, v) -> s.content[s.sp[p].leaf[v].frame]
         [] OTHER -> FreshOf(vma.kind)

\* What a program finds when it starts: the pages its segments, and those of its
\* interpreter, have bytes in, and its arguments x
Linked(image, x) ==
    LET bytes(i, bias) == UNION {Covers(Loads(i)[n], bias) : n \in DOMAIN Loads(i)}
        image_pages == bytes(image, Bias(image))
                       \cup IF elf64_get_interpreter(image) = "named" THEN bytes(load.interp, InterpBase) ELSE {}
    IN [v \in Pages |-> IF v = StackPage THEN x ELSE IF v \in image_pages THEN "image" ELSE "absent"]

\* Frames, lazy pages and copy on write implement private memories that fork
\* copies, that execve replaces by a well-formed program, completely or not at
\* all, and one shared object.
Abstract == INSTANCE AddressSpace WITH
    programs <- {Linked(i, x) : i \in {i \in load.images : WellFormed(i, Bias(i))}, x \in Written},
    mem <- [p \in Procs |-> [v \in Pages |-> Sees(p, v)]],
    object <- IF s.shm = Null THEN "zero" ELSE s.content[s.shm]
PrivateMemories == Abstract!Spec

\* Entries have their types, every frame and table is accounted for, and no page
\* is both writable and executable.
FramesConsistent == TypeOK /\ RefsMatch /\ WriteXorExecute

\* The loader accepts only images a linker could have meant, and the pages it
\* loads hold their bytes, at both places an image can go to.
ImagesAsLinked ==
    "validate" \in load.calls =>
        \A image \in Images : LoadedAsLinked(image, Bias(image)) /\ LoadedAsLinked(image, InterpBase)
=============================================================================
