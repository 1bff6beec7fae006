--------------------------------- MODULE Heap ---------------------------------
(***************************************************************************)
(* The kernel heap, src/memory/heap.c: a list of blocks, each behind its   *)
(* header, in a window that grows by pages.  Addresses are offsets into    *)
(* the window.  Of what memory holds outside the headers on the list only  *)
(* this is kept: it is not a header (HEAP_FREED, zeros, a caller's data).  *)
(* kcalloc is kmalloc, then zeros written to memory the caller owns.       *)
(***************************************************************************)
EXTENDS Integers, FiniteSets

CONSTANTS Align,      \* NPK_HEAP_ALIGNMENT
          Header,     \* sizeof(heap_block_t)
          Page,       \* NPK_PAGE_SIZE
          Limit,      \* size of the window, NPK_HEAP_LIMIT - NPK_HEAP_BASE
          Requests,   \* sizes asked for
          Null

ASSUME HeapAssumption ==
    /\ Align \in Nat \ {0} /\ Header \in Nat \ {0} /\ Page \in Nat /\ Limit \in Nat
    /\ Header % Align = 0 /\ Page % Align = 0 /\ Page > Header /\ Limit >= Page
    /\ Requests \subseteq Nat \ {0} /\ Null \notin Nat

VARIABLES
    headers,       \* what memory holds at each place a header can be
    heap_mapped, heap_free,
    exhausted,     \* whether pages can run out in this behaviour
    live           \* history: allocations in use, by pointer, with the size asked for

vars == <<headers, heap_mapped, heap_free, exhausted, live>>

Addresses == 0..Limit - 1
Magics == {"HEAP_MAGIC", "other"}

\* heap_block_t
HeaderType == [magic : Magics, size : Nat, free : BOOLEAN,
               next : Addresses \cup {Null}, prev : Addresses \cup {Null}]
NoHeader == [magic |-> "other", size |-> 0, free |-> FALSE, next |-> Null, prev |-> Null]

\* The blocks on the list: heap_head is the one at address 0, if any.
Blocks == {b \in Addresses : headers[b].magic = "HEAP_MAGIC"}
End(b) == b + Header + headers[b].size

align_up(value, alignment) == ((value + alignment - 1) \div alignment) * alignment

\* kheap_init, whose first page is mapped
Init ==
    /\ headers = [b \in Addresses |->
                     IF b = 0 THEN [magic |-> "HEAP_MAGIC", size |-> Page - Header, free |-> TRUE,
                                    next |-> Null, prev |-> Null]
                     ELSE NoHeader]
    /\ heap_mapped = Page
    /\ heap_free = Page - Header
    /\ exhausted \in BOOLEAN
    /\ live = << >>

-----------------------------------------------------------------------------
(* kmalloc and kcalloc.                                                    *)

Fits(b, size) == headers[b].free /\ headers[b].size >= size

\* find_free: the first on the list, which is in the order of addresses.
IsFirstFit(b, size) == Fits(b, size) /\ \A c \in Blocks : Fits(c, size) => b <= c

Splits(h, b, size) == h[b].size >= size + Header + Align

\* Mutant: the block after the tail keeps its link to the block split.
SplitUnlinked(h, b, size) ==
    LET tail == b + Header + size
    IN [h EXCEPT ![tail] = [magic |-> "HEAP_MAGIC", size |-> h[b].size - size - Header, free |-> TRUE,
                            next |-> h[b].next, prev |-> b],
                 ![b].next = tail, ![b].size = size]

split_block(h, b, size) ==
    LET tail == b + Header + size
        split == [h EXCEPT ![tail] = [magic |-> "HEAP_MAGIC", size |-> h[b].size - size - Header, free |-> TRUE,
                                      next |-> h[b].next, prev |-> b],
                           ![b].next = tail, ![b].size = size]
    IN IF h[b].next = Null THEN split ELSE [split EXCEPT ![h[b].next].prev = tail]

\* Block b of list h, with free bytes counted, is handed out.
Take(h, free, b, size) ==
    LET aligned == align_up(size, Align)
        split == Splits(h, b, aligned)
        taken == [(IF split THEN split_block(h, b, aligned) ELSE h) EXCEPT ![b].free = FALSE]
        p == b + Header
    IN /\ headers' = taken
       /\ heap_free' = free - (IF split THEN h[b].size - taken[taken[b].next].size ELSE h[b].size)
       /\ live' = [q \in DOMAIN live \cup {p} |-> IF q = p THEN size ELSE live[q]]

kmalloc(size) ==
    /\ \E b \in Blocks :
         /\ IsFirstFit(b, align_up(size, Align))
         /\ Take(headers, heap_free, b, size)
    /\ UNCHANGED heap_mapped

\* map_more: what the heap must grow to
Needed(size) == align_up(heap_mapped + Header + align_up(size, Align), Page)
NoneFits(size) == \A b \in Blocks : ~Fits(b, align_up(size, Align))

\* No block fits: the heap grows by one block, put last on the list.
kmalloc_grows(size) ==
    /\ NoneFits(size) /\ Needed(size) <= Limit
    /\ heap_mapped' = Needed(size)
    /\ \E last \in Blocks :
         LET room == Needed(size) - heap_mapped - Header
         IN /\ headers[last].next = Null
            /\ Take([headers EXCEPT
                        ![heap_mapped] = [magic |-> "HEAP_MAGIC", size |-> room, free |-> TRUE,
                                          next |-> Null, prev |-> last],
                        ![last].next = heap_mapped], heap_free + room, heap_mapped, size)

\* A page is missing: the pages mapped before it stay mapped.
kmalloc_fails(size) ==
    /\ exhausted /\ NoneFits(size) /\ Needed(size) <= Limit
    /\ \E pages \in 0..Limit :
         /\ heap_mapped + pages * Page < Needed(size)
         /\ heap_mapped' = heap_mapped + pages * Page
    /\ UNCHANGED <<headers, heap_free, live>>

-----------------------------------------------------------------------------
(* kfree.                                                                  *)

Joins(h, b) ==
    LET next == h[b].next
    IN /\ next # Null
       /\ h[next].free /\ next = b + Header + h[b].size /\ h[next].magic = "HEAP_MAGIC"

\* Mutant: the header merged away keeps its mark.
MergeUnmarked(h, b) ==
    LET next == h[b].next
        merged == [h EXCEPT ![b].size = @ + Header + h[next].size, ![b].next = h[next].next]
    IN IF ~Joins(h, b) THEN h
       ELSE IF h[next].next = Null THEN merged
       ELSE [merged EXCEPT ![h[next].next].prev = b]

merge_with_next(h, b) ==
    LET next == h[b].next
        merged == [h EXCEPT ![b].size = @ + Header + h[next].size, ![b].next = h[next].next,
                            ![next] = NoHeader]
    IN IF ~Joins(h, b) THEN h
       ELSE IF h[next].next = Null THEN merged
       ELSE [merged EXCEPT ![h[next].next].prev = b]

Gained(h, b) == IF Joins(h, b) THEN Header ELSE 0

Accepts(p) ==
    /\ p >= Header /\ p < heap_mapped
    /\ headers[p - Header].magic = "HEAP_MAGIC" /\ ~headers[p - Header].free /\ headers[p - Header].size # 0

\* Mutant: merges with the block after, never with the one before.
FreeForward(p) ==
    /\ Accepts(p)
    /\ LET b == p - Header
           freed == [headers EXCEPT ![b].free = TRUE]
       IN /\ headers' = merge_with_next(freed, b)
          /\ heap_free' = heap_free + headers[b].size + Gained(freed, b)
    /\ live' = [q \in DOMAIN live \ {p} |-> live[q]]
    /\ UNCHANGED heap_mapped

kfree(p) ==
    /\ Accepts(p)
    /\ LET b == p - Header
           before == headers[b].prev
           freed == [headers EXCEPT ![b].free = TRUE]
           back == before # Null /\ headers[before].free
           start == IF back THEN before ELSE b
           first == IF back THEN merge_with_next(freed, before) ELSE freed
       IN /\ headers' = merge_with_next(first, start)
          /\ heap_free' = heap_free + headers[b].size + (IF back THEN Gained(freed, before) ELSE 0)
                                    + Gained(first, start)
    /\ live' = [q \in DOMAIN live \ {p} |-> live[q]]
    /\ UNCHANGED heap_mapped

Next ==
    /\ UNCHANGED exhausted
    /\ \/ \E size \in Requests : kmalloc(size) \/ kmalloc_grows(size) \/ kmalloc_fails(size)
       \/ \E p \in Addresses : kfree(p)

Spec == Init /\ [][Next]_vars
-----------------------------------------------------------------------------
(* Properties.                                                             *)

\* Headers, counters and history have their types.
TypeOK ==
    /\ headers \in [Addresses -> HeaderType]
    /\ heap_mapped \in 0..Limit /\ heap_free \in Nat /\ exhausted \in BOOLEAN
    /\ DOMAIN live \subseteq Addresses /\ \A p \in DOMAIN live : live[p] \in Requests

\* What a caller was given is all its own: it lies in its block, the block is
\* in mapped memory, and no block, header or contents, overlaps another.
NoOverlap ==
    /\ \A p \in DOMAIN live :
          /\ p - Header \in Blocks /\ ~headers[p - Header].free
          /\ live[p] <= headers[p - Header].size
    /\ \A b \in Blocks : End(b) <= heap_mapped
    /\ \A b, c \in Blocks : b < c => End(b) <= c

\* A pointer is accepted by kfree exactly while its allocation is in use:
\* a second free is rejected, whatever became of the block since.
FreedOnce == \A p \in Addresses : Accepts(p) <=> p \in DOMAIN live

\* The links run through all blocks in the order of their addresses, both ways.
Linked ==
    /\ 0 \in Blocks
    /\ \A b \in Blocks :
          /\ headers[b].next = Null <=> \A c \in Blocks : c <= b
          /\ headers[b].prev = Null <=> b = 0
          /\ headers[b].next # Null =>
                /\ headers[b].next \in Blocks /\ headers[b].next > b /\ headers[headers[b].next].prev = b
                /\ \A c \in Blocks : c <= b \/ c >= headers[b].next

\* The walk of kheap_validate after n blocks.
Walk[n \in Nat] ==
    IF n = 0 THEN [block |-> 0, address |-> 0, previous |-> Null, free |-> 0, ok |-> TRUE]
    ELSE LET w == Walk[n - 1]
             h == headers[w.block]
         IN IF w.block = Null \/ ~w.ok THEN w
            ELSE [block |-> h.next, address |-> End(w.block), previous |-> w.block,
                  free |-> w.free + (IF h.free THEN h.size ELSE 0),
                  ok |-> /\ w.block = w.address /\ h.magic = "HEAP_MAGIC" /\ h.prev = w.previous
                         /\ h.size # 0 /\ h.size <= Limit]

\* The heap's own check: blocks tile the mapped window, and the free bytes are
\* counted right.
kheap_validate ==
    LET w == Walk[Limit \div Header + 1]
    IN w.block = Null /\ w.ok /\ w.address = heap_mapped /\ w.free = heap_free

\* Neighbours are merged as soon as both are free, so that a large block comes
\* back once all its parts are freed.
Merged == \A b \in Blocks : ~(headers[b].free /\ Joins(headers, b))

\* As long as no growth has failed half-way, the heap passes kheap_validate, which
\* kernel_demo calls after kmalloc, kcalloc and kfree, and is merged.
Valid == ~exhausted => kheap_validate /\ Merged

\* Even when pages run out, headers have their types, blocks do not overlap, the
\* list runs through all of them, and kfree accepts a pointer exactly while its
\* allocation is in use.
BlocksConsistent == TypeOK /\ NoOverlap /\ Linked /\ FreedOnce
=============================================================================
