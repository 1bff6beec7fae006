--------------------------------- MODULE Elf ----------------------------------
(***************************************************************************)
(* The ELF loader's checks and arithmetic (src/exec/elf.c), with machine   *)
(* words of Word values, so that sums can wrap, and pages of PageSize      *)
(* bytes.  Nothing here has state: module Memory maps the pages.           *)
(*                                                                         *)
(* An image is its size, whether the fixed fields of its header are right, *)
(* its type, entry point and program headers.  A program header's text is  *)
(* what the file holds at it: the components of the interpreter's path,    *)
(* "bad" for one that is not absolute, terminated and printable, or the    *)
(* tags of the dynamic table.  A byte of a loaded page is the number of    *)
(* the byte of the file it comes from, counted from 1, or 0.               *)
(***************************************************************************)
EXTENDS Integers, Sequences, FiniteSets, SequencesExt

CONSTANTS Word, PageSize, UserMin, UserMax, DynBase, InterpBase, MaxElfPages,
          InterpMax,           \* NPK_ELF_INTERP_MAX
          DynamicEntry         \* ELF_DYNAMIC_ENTRY_SIZE

ASSUME ElfAssumption ==
    /\ {Word, PageSize, UserMin, UserMax, DynBase, InterpBase, MaxElfPages, InterpMax, DynamicEntry} \subseteq Nat \ {0}
    /\ \A a \in {UserMin, UserMax, DynBase, InterpBase} : a % PageSize = 0
    /\ UserMin <= DynBase /\ DynBase <= InterpBase /\ InterpBase < UserMax
    /\ UserMax + PageSize <= Word

Offsets == 0..PageSize - 1

-----------------------------------------------------------------------------
(* Arithmetic on words.                                                    *)

add_overflows(a, b) == b > Word - 1 - a
Plus(a, b) == (a + b) % Word
align_down(a) == a - (a % PageSize)
AlignOverflows(a) == a > Word - PageSize
align_up(a) == align_down(Plus(a, PageSize - 1))
is_power_of_two(a) == \E k \in 0..a : 2^k = a

-----------------------------------------------------------------------------
(* Program headers.                                                        *)

Loads(image) == SelectSeq(image.headers, LAMBDA h : h.type = "load")
OfType(image, type) == {i \in DOMAIN image.headers : image.headers[i].type = type}

SegmentStart(h, bias) == Plus(h.vaddr, bias)
SegmentEnd(h, bias) == Plus(SegmentStart(h, bias), h.memsz)       \* one beyond
PageStart(h, bias) == align_down(SegmentStart(h, bias))
PageEnd(h, bias) == align_up(SegmentEnd(h, bias))
InFile(h, image) == h.offset <= image.size /\ h.filesz <= image.size - h.offset

user_span(start, length, bias) ==
    LET absolute == Plus(start, bias)
        end == Plus(absolute, length)
    IN /\ ~add_overflows(start, bias)
       /\ absolute >= UserMin /\ absolute < UserMax /\ length # 0
       /\ ~add_overflows(absolute, length)
       /\ end <= UserMax /\ end > absolute

segment_range_valid(h, image, bias) ==
    /\ h.filesz <= h.memsz /\ h.memsz # 0
    /\ InFile(h, image)
    /\ h.align > 1 => is_power_of_two(h.align) /\ h.vaddr % h.align = h.offset % h.align
    /\ ~("w" \in h.flags /\ "x" \in h.flags)
    /\ user_span(h.vaddr, h.memsz, bias)
    /\ ~AlignOverflows(SegmentEnd(h, bias))
    /\ PageEnd(h, bias) <= UserMax /\ PageEnd(h, bias) > PageStart(h, bias)

\* Mutant: segments are compared by their bytes, not by their pages.
OverlapInBytes(h, before, bias) ==
    \E j \in DOMAIN before :
        SegmentStart(h, bias) < SegmentEnd(before[j], bias) /\ SegmentStart(before[j], bias) < SegmentEnd(h, bias)

load_segments_overlap(h, before, bias) ==
    \E j \in DOMAIN before :
        PageStart(h, bias) < PageEnd(before[j], bias) /\ SegmentStart(before[j], bias) < PageEnd(h, bias)

\* Whole entries, terminated, with no negative tag before the terminator
dynamic_table_valid(h, image) ==
    /\ h.filesz # 0 /\ h.filesz <= h.memsz /\ h.filesz % DynamicEntry = 0 /\ InFile(h, image)
    /\ \E i \in DOMAIN h.text : /\ i <= h.filesz \div DynamicEntry /\ h.text[i] = "null"
                                /\ \A j \in 1..i - 1 : h.text[j] # "negative"

\* A component ends at a slash or one before the terminator, and its length is
\* counted without the byte the loop stands on: the last one is cut short, so
\* that it is refused as "..x" and taken as "..".
interpreter_field_valid(h, image) ==
    /\ h.filesz # 0 /\ h.filesz <= h.memsz /\ h.filesz <= InterpMax /\ InFile(h, image)
    /\ \A i \in DOMAIN h.text :
         /\ h.text[i] # "bad"
         /\ h.text[i] = ".." => i = Len(h.text)
         /\ h.text[i] = "..x" => i # Len(h.text)

header_valid(image) ==
    image.header /\ image.type \in {"exec", "dyn"} /\ image.headers # <<>>

PagesIn(h, bias) == (PageEnd(h, bias) - PageStart(h, bias)) \div PageSize
PageCount(loads, bias) == FoldLeft(LAMBDA n, h : n + PagesIn(h, bias), 0, loads)

elf64_validate_at_bias(image, bias) ==
    LET loads == Loads(image)
        entry == Plus(image.entry, bias)
    IN /\ header_valid(image)
       /\ bias % PageSize = 0
       /\ image.type = "exec" => bias = 0
       /\ image.type = "dyn" => bias >= DynBase
       /\ ~add_overflows(image.entry, bias)
       /\ Cardinality(OfType(image, "interp")) <= 1 /\ Cardinality(OfType(image, "dynamic")) <= 1
       /\ \A i \in OfType(image, "interp") : interpreter_field_valid(image.headers[i], image)
       /\ \A i \in OfType(image, "dynamic") : dynamic_table_valid(image.headers[i], image)
       /\ \A i \in DOMAIN loads :
            /\ segment_range_valid(loads[i], image, bias)
            /\ ~load_segments_overlap(loads[i], SubSeq(loads, 1, i - 1), bias)
            /\ PageCount(SubSeq(loads, 1, i), bias) <= MaxElfPages
       /\ \E i \in DOMAIN loads : /\ "x" \in loads[i].flags
                                  /\ entry >= SegmentStart(loads[i], bias) /\ entry < SegmentEnd(loads[i], bias)

Bias(image) == IF image.type = "dyn" THEN DynBase ELSE 0
elf64_validate(image) == header_valid(image) /\ elf64_validate_at_bias(image, Bias(image))

\* Whether the image names an interpreter, or must be refused: the callers' buffer
\* has InterpMax bytes, one too few for the longest path the checks allow.
elf64_get_interpreter(image) ==
    LET named == OfType(image, "interp")
        first == image.headers[CHOOSE i \in named : \A j \in named : i <= j]
    IN IF ~header_valid(image) THEN "refused"
       ELSE IF named = {} THEN "none"
       ELSE IF interpreter_field_valid(first, image) /\ first.filesz < InterpMax THEN "named" ELSE "refused"

-----------------------------------------------------------------------------
(* Loading.                                                                *)

Protection(h) == IF "w" \in h.flags THEN "rw" ELSE IF "x" \in h.flags THEN "rx" ELSE "r"

\* Mutant: the bytes of a segment's first page are put at the page's start.
PageBytesAligned(h, bias, va) ==
    LET file_end == Plus(SegmentStart(h, bias), h.filesz)
        copy_end == IF file_end < va + PageSize THEN file_end ELSE va + PageSize
    IN [k \in Offsets |-> IF va + k < copy_end THEN h.offset + (va - align_down(SegmentStart(h, bias))) + k + 1 ELSE 0]

\* The bytes elf64_load_in_address_space puts into the page at va: zeros, and
\* the part of the file's bytes that falls into the page
PageBytes(h, bias, va) ==
    LET start == SegmentStart(h, bias)
        file_end == Plus(start, h.filesz)
        copy_start == IF start > va THEN start ELSE va
        copy_end == IF file_end < va + PageSize THEN file_end ELSE va + PageSize
    IN [k \in Offsets |-> IF va + k >= copy_start /\ va + k < copy_end
                          THEN h.offset + (copy_start - start) + (va + k - copy_start) + 1 ELSE 0]

\* The pages of the image in the order in which they are mapped
PagesOf(h, bias) ==
    [i \in 1..PagesIn(h, bias) |-> [va |-> PageStart(h, bias) + (i - 1) * PageSize,
                                    prot |-> Protection(h),
                                    bytes |-> PageBytes(h, bias, PageStart(h, bias) + (i - 1) * PageSize)]]
ImagePages(image, bias) == FoldLeft(LAMBDA pages, h : pages \o PagesOf(h, bias), <<>>, Loads(image))

\* image_end: where the highest segment ends
ImageEnd(image, bias) ==
    FoldLeft(LAMBDA high, h : IF SegmentEnd(h, bias) > high THEN SegmentEnd(h, bias) ELSE high, 0, Loads(image))

-----------------------------------------------------------------------------
(* Reference: the image a linker describes, byte by byte, with numbers     *)
(* that do not wrap.                                                       *)

Bytes(h, bias) == h.vaddr + bias .. h.vaddr + bias + h.memsz - 1
Covers(h, bias) == {a \div PageSize : a \in Bytes(h, bias)}

\* Every byte of a segment is a user address, no two segments share a page,
\* none is both writable and executable, and execution starts inside an
\* executable one.
WellPlaced(image, bias) ==
    LET loads == Loads(image)
        numbers == DOMAIN loads
    IN /\ numbers # {}
       /\ \A i \in numbers : /\ loads[i].memsz > 0 /\ loads[i].filesz <= loads[i].memsz
                             /\ Bytes(loads[i], bias) \subseteq UserMin..UserMax - 1
                             /\ loads[i].offset + loads[i].filesz <= image.size
                             /\ ~({"w", "x"} \subseteq loads[i].flags)
       /\ \A i, j \in numbers : i # j => Covers(loads[i], bias) \cap Covers(loads[j], bias) = {}
       /\ \E i \in numbers : "x" \in loads[i].flags /\ image.entry + bias \in Bytes(loads[i], bias)

\* ... and the pages are not too many.
WellFormed(image, bias) ==
    /\ WellPlaced(image, bias)
    /\ Cardinality(UNION {Covers(Loads(image)[i], bias) : i \in DOMAIN Loads(image)}) <= MaxElfPages

\* What the program finds at address a
ByteAt(image, bias, a) ==
    LET own == {i \in DOMAIN Loads(image) : a \in Bytes(Loads(image)[i], bias)}
    IN IF own = {} THEN 0
       ELSE LET h == Loads(image)[CHOOSE i \in own : TRUE]
                k == a - (h.vaddr + bias)
            IN IF k < h.filesz THEN h.offset + k + 1 ELSE 0

\* An image is accepted only if it is well formed, and then every page of it,
\* and no other, is loaded, with the bytes the linker put there; a well-formed
\* image whose alignments, interpreter and dynamic table are in order is
\* accepted.
LoadedAsLinked(image, bias) ==
    LET pages == ImagePages(image, bias)
        plain == /\ header_valid(image) /\ image.type = IF bias = 0 THEN "exec" ELSE "dyn"
                 /\ \A i \in DOMAIN image.headers : image.headers[i].type = "load"
                                                    /\ image.headers[i].align <= 1
    IN /\ elf64_validate_at_bias(image, bias) =>
            /\ WellFormed(image, bias)
            /\ {pages[i].va \div PageSize : i \in DOMAIN pages}
                 = UNION {Covers(Loads(image)[i], bias) : i \in DOMAIN Loads(image)}
            /\ \A i \in DOMAIN pages, k \in Offsets :
                 pages[i].bytes[k] = ByteAt(image, bias, pages[i].va + k)
       /\ plain /\ WellFormed(image, bias) => elf64_validate_at_bias(image, bias)
=============================================================================
