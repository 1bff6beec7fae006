------------------------------ MODULE ElfProofs ------------------------------
(***************************************************************************)
(* What the ELF loader accepts and loads, proved for every word and page   *)
(* size and every address range.  The checks of src/exec/elf.c compute     *)
(* with words that wrap; the statements below are about plain numbers.     *)
(***************************************************************************)
EXTENDS Elf, TLAPS

Words == 0..Word - 1

\* A program header of type load, as the file gives it
Segment == [type : STRING, vaddr : Words, memsz : Words, filesz : Words, offset : Words, align : Words,
            flags : SUBSET {"r", "w", "x"}, text : Seq(STRING)]

-----------------------------------------------------------------------------
(* Division.                                                               *)

\* A number below the modulus is its own remainder.
LEMMA SmallMod == ASSUME NEW a \in Nat, NEW n \in Nat \ {0}, a < n PROVE a % n = a
  OBVIOUS

\* A number is made of its quotient and its remainder.
LEMMA DivMod ==
    ASSUME NEW a \in Nat, NEW n \in Nat \ {0}
    PROVE /\ a % n \in 0..n - 1 /\ a \div n \in Nat
          /\ a = n * (a \div n) + (a % n)
  OBVIOUS

\* Multiplication keeps the order.
LEMMA MulMono ==
    ASSUME NEW n \in Nat \ {0}, NEW x \in Nat, NEW y \in Nat, x <= y
    PROVE n * x <= n * y
  OBVIOUS

\* A multiple has no remainder and its factor as the quotient.
LEMMA Multiple ==
    ASSUME NEW n \in Nat \ {0}, NEW x \in Nat
    PROVE (n * x) % n = 0 /\ (n * x) \div n = x
  OBVIOUS

\* So does division.
LEMMA DivMono ==
    ASSUME NEW a \in Nat, NEW b \in Nat, NEW n \in Nat \ {0}, a <= b
    PROVE a \div n <= b \div n
  <1>1. ASSUME a \div n > b \div n PROVE FALSE
    <2>1. n * (a \div n) >= n * (b \div n + 1)  BY <1>1, DivMod, MulMono
    <2> QED BY <2>1, DivMod
  <1> QED BY <1>1, DivMod

\* A run of numbers between two bounds.
LEMMA RunWithin ==
    ASSUME NEW a \in Nat, NEW n \in Nat, NEW low \in Nat, NEW high \in Nat, low <= a, a + n <= high
    PROVE a..a + n - 1 \subseteq low..high - 1
  OBVIOUS

\* What lies before the start of a page lies in an earlier page.
LEMMA DivBelow ==
    ASSUME NEW a \in Nat, NEW b \in Nat, NEW n \in Nat \ {0}, a < b, b % n = 0
    PROVE a \div n < b \div n
  <1>1. a \div n <= b \div n BY DivMono
  <1>2. b = n * (b \div n) BY DivMod
  <1>3. ASSUME a \div n = b \div n PROVE FALSE
    <2>1. a = n * (a \div n) + (a % n) /\ a % n \in 0..n - 1 BY DivMod
    <2>2. n * (a \div n) = b BY <1>2, <1>3
    <2> QED BY <2>1, <2>2
  <1> QED BY <1>1, <1>3, DivMod

-----------------------------------------------------------------------------
(* Pages and words.                                                        *)

\* align_down gives the start of the page of an address.
LEMMA AlignDown ==
    ASSUME NEW a \in Nat
    PROVE /\ align_down(a) \in Nat /\ align_down(a) <= a /\ a < align_down(a) + PageSize
          /\ align_down(a) = PageSize * (a \div PageSize)
          /\ align_down(a) % PageSize = 0 /\ align_down(a) \div PageSize = a \div PageSize
  <1>1. PageSize \in Nat \ {0} BY ElfAssumption
  <1>2. a % PageSize \in 0..PageSize - 1 /\ a \div PageSize \in Nat
        /\ a = PageSize * (a \div PageSize) + (a % PageSize)
    BY <1>1, DivMod
  <1>3. PageSize * (a \div PageSize) \in Nat BY <1>1, <1>2
  <1>4. align_down(a) = PageSize * (a \div PageSize) BY <1>2, <1>3 DEF align_down
  <1>5. align_down(a) % PageSize = 0 /\ align_down(a) \div PageSize = a \div PageSize
    BY <1>1, <1>2, <1>4, Multiple
  <1>6. align_down(a) \in Nat /\ align_down(a) <= a /\ a < align_down(a) + PageSize
    BY <1>1, <1>2, <1>3, <1>4
  <1> QED BY <1>4, <1>5, <1>6

\* align_up, where it does not overflow, gives the first page start from there on.
LEMMA AlignUp ==
    ASSUME NEW a \in Nat, ~AlignOverflows(a)
    PROVE /\ align_up(a) \in Nat /\ a <= align_up(a) /\ align_up(a) < a + PageSize
          /\ align_up(a) % PageSize = 0
  <1>1. PageSize \in Nat \ {0} /\ Word \in Nat \ {0} BY ElfAssumption
  <1>2. a + PageSize - 1 \in Nat /\ a + PageSize - 1 < Word BY <1>1 DEF AlignOverflows
  <1>3. Plus(a, PageSize - 1) = a + PageSize - 1
    <2>1. a + (PageSize - 1) = a + PageSize - 1 BY <1>1
    <2> QED BY <1>1, <1>2, <2>1, SmallMod DEF Plus
  <1>4. align_up(a) = align_down(a + PageSize - 1) BY <1>3 DEF align_up
  <1>5. LET b == a + PageSize - 1
        IN /\ align_down(b) \in Nat /\ align_down(b) <= b /\ b < align_down(b) + PageSize
           /\ align_down(b) % PageSize = 0
    BY <1>2, AlignDown
  <1> QED BY <1>1, <1>4, <1>5

\* A sum that add_overflows lets pass is the sum.
LEMMA PlusIsSum ==
    ASSUME NEW a \in Words, NEW b \in Words, ~add_overflows(a, b)
    PROVE Plus(a, b) = a + b /\ a + b \in Words
  <1>1. Word \in Nat \ {0} BY ElfAssumption
  <1>2. a + b \in Nat /\ a + b < Word BY <1>1 DEF Words, add_overflows
  <1> QED BY <1>1, <1>2, SmallMod DEF Plus, Words

\* The addresses the loader computes for a segment it accepts are those of the
\* file plus the bias, and the pages it maps are in the user's range.
LEMMA NoWrap ==
    ASSUME NEW image, NEW h \in Segment, NEW bias \in Words, segment_range_valid(h, image, bias)
    PROVE /\ SegmentStart(h, bias) = h.vaddr + bias
          /\ SegmentEnd(h, bias) = h.vaddr + bias + h.memsz
          /\ h.memsz > 0 /\ UserMin <= h.vaddr + bias /\ h.vaddr + bias + h.memsz <= UserMax
          /\ PageStart(h, bias) \in Nat /\ PageEnd(h, bias) \in Nat
          /\ PageStart(h, bias) <= h.vaddr + bias /\ h.vaddr + bias < PageStart(h, bias) + PageSize
          /\ h.vaddr + bias + h.memsz <= PageEnd(h, bias)
          /\ PageEnd(h, bias) < h.vaddr + bias + h.memsz + PageSize
          /\ PageStart(h, bias) % PageSize = 0 /\ PageEnd(h, bias) % PageSize = 0
          /\ PageEnd(h, bias) <= UserMax
  <1>1. h.vaddr \in Words /\ h.memsz \in Words BY DEF Segment
  <1>2. user_span(h.vaddr, h.memsz, bias) /\ ~AlignOverflows(SegmentEnd(h, bias))
        /\ PageEnd(h, bias) <= UserMax /\ h.memsz # 0
    BY DEF segment_range_valid
  <1>3. Plus(h.vaddr, bias) = h.vaddr + bias /\ h.vaddr + bias \in Words
    BY <1>1, <1>2, PlusIsSum DEF user_span
  <1>4. Plus(h.vaddr + bias, h.memsz) = h.vaddr + bias + h.memsz /\ h.vaddr + bias + h.memsz \in Words
    <2>1. ~add_overflows(h.vaddr + bias, h.memsz) BY <1>2, <1>3 DEF user_span
    <2> QED BY <1>1, <1>3, <2>1, PlusIsSum
  <1>5. SegmentStart(h, bias) = h.vaddr + bias /\ SegmentEnd(h, bias) = h.vaddr + bias + h.memsz
    BY <1>3, <1>4 DEF SegmentStart, SegmentEnd
  <1>6. UserMin <= h.vaddr + bias /\ h.vaddr + bias + h.memsz <= UserMax
    BY <1>2, <1>3, <1>4 DEF user_span
  <1>7. h.vaddr + bias \in Nat /\ h.vaddr + bias + h.memsz \in Nat /\ h.memsz \in Nat /\ h.memsz > 0
    BY <1>1, <1>2, <1>3, <1>4 DEF Words
  <1>8. PageStart(h, bias) = align_down(h.vaddr + bias) /\ PageEnd(h, bias) = align_up(h.vaddr + bias + h.memsz)
    BY <1>5 DEF PageStart, PageEnd
  <1>9. /\ PageStart(h, bias) \in Nat /\ PageStart(h, bias) <= h.vaddr + bias
        /\ h.vaddr + bias < PageStart(h, bias) + PageSize /\ PageStart(h, bias) % PageSize = 0
    BY <1>7, <1>8, AlignDown
  <1>10. /\ PageEnd(h, bias) \in Nat /\ h.vaddr + bias + h.memsz <= PageEnd(h, bias)
         /\ PageEnd(h, bias) < h.vaddr + bias + h.memsz + PageSize /\ PageEnd(h, bias) % PageSize = 0
    BY <1>2, <1>5, <1>7, <1>8, AlignUp
  <1> QED BY <1>2, <1>5, <1>6, <1>7, <1>9, <1>10

\* The numbers of a segment, and its addresses at a bias, are natural numbers.
LEMMA SegmentNumbers ==
    ASSUME NEW h \in Segment, NEW bias \in Words
    PROVE /\ h.vaddr \in Nat /\ h.memsz \in Nat /\ h.filesz \in Nat /\ h.offset \in Nat /\ bias \in Nat
          /\ h.vaddr + bias \in Nat /\ h.vaddr + bias + h.memsz \in Nat /\ h.vaddr + bias + h.filesz \in Nat
  <1>1. Word \in Nat BY ElfAssumption
  <1>2. h.vaddr \in Words /\ h.memsz \in Words /\ h.filesz \in Words /\ h.offset \in Words BY DEF Segment
  <1>3. h.vaddr \in Nat /\ h.memsz \in Nat /\ h.filesz \in Nat /\ h.offset \in Nat /\ bias \in Nat
    BY <1>1, <1>2 DEF Words
  <1> QED BY <1>3

\* The addresses of the bytes of a segment.
LEMMA InBytes ==
    ASSUME NEW h \in Segment, NEW bias \in Words, NEW a \in Nat
    PROVE a \in Bytes(h, bias) <=> h.vaddr + bias <= a /\ a < h.vaddr + bias + h.memsz
  <1>1. h.vaddr \in Nat /\ h.memsz \in Nat /\ bias \in Nat BY SegmentNumbers
  <1> QED BY <1>1 DEF Bytes

\* They are natural numbers.
LEMMA BytesNat ==
    ASSUME NEW h \in Segment, NEW bias \in Words, NEW a \in Bytes(h, bias)
    PROVE a \in Nat
  <1>1. h.vaddr \in Nat /\ h.memsz \in Nat /\ bias \in Nat BY SegmentNumbers
  <1> QED BY <1>1 DEF Bytes

-----------------------------------------------------------------------------
(* What is accepted.                                                       *)

\* Segments of which one starts after the last page of the other share no page.
LEMMA Apart ==
    ASSUME NEW image, NEW bias \in Words,
           NEW g \in Segment, segment_range_valid(g, image, bias),
           NEW h \in Segment, segment_range_valid(h, image, bias),
           PageEnd(g, bias) <= SegmentStart(h, bias)
    PROVE Covers(g, bias) \cap Covers(h, bias) = {}
  <1>1. PageSize \in Nat \ {0} BY ElfAssumption
  <1>2. SUFFICES ASSUME NEW a \in Bytes(g, bias), NEW b \in Bytes(h, bias), a \div PageSize = b \div PageSize
                 PROVE FALSE
    BY DEF Covers
  <1>3. /\ g.vaddr + bias \in Nat /\ g.vaddr + bias + g.memsz \in Nat
        /\ h.vaddr + bias \in Nat /\ h.vaddr + bias + h.memsz \in Nat
    BY SegmentNumbers
  <1>4. a \in Nat /\ a < PageEnd(g, bias) /\ PageEnd(g, bias) \in Nat /\ PageEnd(g, bias) % PageSize = 0
    <2>1. a \in Nat /\ a < g.vaddr + bias + g.memsz BY BytesNat, InBytes
    <2>2. /\ g.vaddr + bias + g.memsz <= PageEnd(g, bias) /\ PageEnd(g, bias) \in Nat
          /\ PageEnd(g, bias) % PageSize = 0
      BY NoWrap
    <2> QED BY <1>3, <2>1, <2>2
  <1>5. b \in Nat /\ PageEnd(g, bias) <= b
    <2>1. b \in Nat /\ h.vaddr + bias <= b BY BytesNat, InBytes
    <2>2. SegmentStart(h, bias) = h.vaddr + bias BY NoWrap
    <2> QED BY <1>3, <1>4, <2>1, <2>2
  <1>6. a \div PageSize < PageEnd(g, bias) \div PageSize BY <1>1, <1>4, DivBelow
  <1>7. PageEnd(g, bias) \div PageSize <= b \div PageSize BY <1>1, <1>4, <1>5, DivMono
  <1>8. /\ a \div PageSize \in Nat /\ b \div PageSize \in Nat /\ PageEnd(g, bias) \div PageSize \in Nat
    BY <1>1, <1>4, <1>5, DivMod
  <1> QED BY <1>2, <1>6, <1>7, <1>8

\* An image that elf64_validate_at_bias accepts is well placed: although the
\* checks compute with words that wrap, every byte of every segment is in the
\* user's range and in the file, no two segments share a page, and the entry
\* point is a byte of an executable segment.
THEOREM AcceptedIsWellPlaced ==
    ASSUME NEW image, NEW bias \in Words,
           Loads(image) \in Seq(Segment), image.entry \in Words, image.size \in Nat,
           elf64_validate_at_bias(image, bias)
    PROVE WellPlaced(image, bias)
  <1> DEFINE loads == Loads(image)
  <1>1. loads \in Seq(Segment) OBVIOUS
  <1>2. /\ \A i \in DOMAIN loads : /\ segment_range_valid(loads[i], image, bias)
                                    /\ ~load_segments_overlap(loads[i], SubSeq(loads, 1, i - 1), bias)
        /\ ~add_overflows(image.entry, bias)
        /\ \E i \in DOMAIN loads : /\ "x" \in loads[i].flags
                                   /\ Plus(image.entry, bias) >= SegmentStart(loads[i], bias)
                                   /\ Plus(image.entry, bias) < SegmentEnd(loads[i], bias)
    BY DEF elf64_validate_at_bias
  <1> HIDE DEF loads
  <1>3. \A i \in DOMAIN loads : loads[i] \in Segment BY <1>1
  <1>4. ASSUME NEW i \in DOMAIN loads
        PROVE /\ loads[i].memsz > 0 /\ loads[i].filesz <= loads[i].memsz
              /\ Bytes(loads[i], bias) \subseteq UserMin..UserMax - 1
              /\ loads[i].offset + loads[i].filesz <= image.size
              /\ ~({"w", "x"} \subseteq loads[i].flags)
    <2> DEFINE h == loads[i]
    <2>1. h \in Segment /\ segment_range_valid(h, image, bias) BY <1>2, <1>3
    <2> HIDE DEF h
    <2>2. /\ h.memsz > 0 /\ UserMin <= h.vaddr + bias /\ h.vaddr + bias + h.memsz <= UserMax
      BY <2>1, NoWrap
    <2>3. /\ h.vaddr \in Nat /\ h.memsz \in Nat /\ h.offset \in Nat /\ h.filesz \in Nat /\ bias \in Nat
          /\ UserMin \in Nat /\ UserMax \in Nat
      BY <2>1, SegmentNumbers, ElfAssumption
    <2>4. Bytes(h, bias) \subseteq UserMin..UserMax - 1
      <3>1. h.vaddr + bias \in Nat BY <2>3
      <3>2. h.vaddr + bias..h.vaddr + bias + h.memsz - 1 \subseteq UserMin..UserMax - 1
        BY <2>2, <2>3, <3>1, RunWithin
      <3> QED BY <3>2 DEF Bytes
    <2>5. h.filesz <= h.memsz /\ h.offset + h.filesz <= image.size /\ ~({"w", "x"} \subseteq h.flags)
      BY <2>1, <2>3 DEF segment_range_valid, InFile
    <2> QED BY <2>2, <2>4, <2>5 DEF h
  <1>5. ASSUME NEW i \in DOMAIN loads, NEW j \in DOMAIN loads, i < j
        PROVE Covers(loads[i], bias) \cap Covers(loads[j], bias) = {}
    <2>1. /\ loads[i] \in Segment /\ segment_range_valid(loads[i], image, bias)
          /\ loads[j] \in Segment /\ segment_range_valid(loads[j], image, bias)
      BY <1>2, <1>3
    <2>2. i \in DOMAIN SubSeq(loads, 1, j - 1) /\ SubSeq(loads, 1, j - 1)[i] = loads[i]
      BY <1>1, <1>5
    <2>3. ~(PageStart(loads[j], bias) < PageEnd(loads[i], bias)
            /\ SegmentStart(loads[i], bias) < PageEnd(loads[j], bias))
      BY <1>2, <2>2, SMTT(30) DEF load_segments_overlap
    <2>4. /\ PageStart(loads[j], bias) <= SegmentStart(loads[j], bias)
          /\ PageStart(loads[j], bias) \in Nat /\ SegmentStart(loads[j], bias) \in Nat
          /\ PageEnd(loads[j], bias) \in Nat /\ PageEnd(loads[i], bias) \in Nat
          /\ SegmentStart(loads[i], bias) \in Nat
      <3>1. /\ loads[i].vaddr + bias \in Nat /\ loads[j].vaddr + bias \in Nat
        BY <2>1, SegmentNumbers
      <3>2. SegmentStart(loads[i], bias) = loads[i].vaddr + bias /\ PageEnd(loads[i], bias) \in Nat
        BY <2>1, NoWrap
      <3>3. /\ SegmentStart(loads[j], bias) = loads[j].vaddr + bias /\ PageEnd(loads[j], bias) \in Nat
            /\ PageStart(loads[j], bias) \in Nat /\ PageStart(loads[j], bias) <= loads[j].vaddr + bias
        BY <2>1, NoWrap
      <3> QED BY <3>1, <3>2, <3>3
    <2>5. CASE PageEnd(loads[i], bias) <= PageStart(loads[j], bias)
      <3>1. PageEnd(loads[i], bias) <= SegmentStart(loads[j], bias) BY <2>4, <2>5
      <3> QED BY <2>1, <3>1, Apart
    <2>6. CASE PageEnd(loads[j], bias) <= SegmentStart(loads[i], bias)
      <3>1. Covers(loads[j], bias) \cap Covers(loads[i], bias) = {} BY <2>1, <2>6, Apart
      <3> QED BY <3>1
    <2> QED BY <2>3, <2>4, <2>5, <2>6
  <1>6. \A i, j \in DOMAIN loads : i # j => Covers(loads[i], bias) \cap Covers(loads[j], bias) = {}
    <2> SUFFICES ASSUME NEW i \in DOMAIN loads, NEW j \in DOMAIN loads, i # j
                 PROVE Covers(loads[i], bias) \cap Covers(loads[j], bias) = {}
      OBVIOUS
    <2>1. i \in Nat /\ j \in Nat BY <1>1
    <2>2. CASE i < j BY <1>5, <2>2
    <2>3. CASE j < i
      <3>1. Covers(loads[j], bias) \cap Covers(loads[i], bias) = {} BY <1>5, <2>3
      <3> QED BY <3>1
    <2> QED BY <2>1, <2>2, <2>3
  <1>7. \E i \in DOMAIN loads : "x" \in loads[i].flags /\ image.entry + bias \in Bytes(loads[i], bias)
    <2>1. PICK i \in DOMAIN loads : /\ "x" \in loads[i].flags
                                    /\ Plus(image.entry, bias) >= SegmentStart(loads[i], bias)
                                    /\ Plus(image.entry, bias) < SegmentEnd(loads[i], bias)
      BY <1>2
    <2>2. loads[i] \in Segment /\ segment_range_valid(loads[i], image, bias) BY <1>2, <1>3
    <2>3. Plus(image.entry, bias) = image.entry + bias BY <1>2, PlusIsSum
    <2>4. /\ SegmentStart(loads[i], bias) = loads[i].vaddr + bias
          /\ SegmentEnd(loads[i], bias) = loads[i].vaddr + bias + loads[i].memsz
      BY <2>2, NoWrap
    <2>5. image.entry + bias \in Nat
      <3>1. Word \in Nat BY ElfAssumption
      <3> QED BY <3>1 DEF Words
    <2>6. image.entry + bias >= loads[i].vaddr + bias /\ image.entry + bias < loads[i].vaddr + bias + loads[i].memsz
      BY <2>1, <2>3, <2>4
    <2>7. image.entry + bias \in Bytes(loads[i], bias) BY <2>2, <2>5, <2>6, InBytes
    <2> QED BY <2>1, <2>7
  <1>8. DOMAIN loads # {} BY <1>7
  <1> QED BY <1>4, <1>6, <1>7, <1>8 DEF WellPlaced, loads

-----------------------------------------------------------------------------
(* What is loaded.                                                         *)

\* The pages elf64_load_in_address_space maps for a segment are those that hold
\* a byte of it, each of them once and no other.
THEOREM PagesAreCovered ==
    ASSUME NEW image, NEW h \in Segment, NEW bias \in Words, segment_range_valid(h, image, bias)
    PROVE /\ \A i, j \in DOMAIN PagesOf(h, bias) : PagesOf(h, bias)[i].va = PagesOf(h, bias)[j].va => i = j
          /\ {PagesOf(h, bias)[i].va \div PageSize : i \in DOMAIN PagesOf(h, bias)} = Covers(h, bias)
  <1> DEFINE first == PageStart(h, bias) \div PageSize
             beyond == PageEnd(h, bias) \div PageSize
             start == h.vaddr + bias
             end == h.vaddr + bias + h.memsz
  <1>1. PageSize \in Nat \ {0} BY ElfAssumption
  <1>2. /\ PageStart(h, bias) \in Nat /\ PageEnd(h, bias) \in Nat
        /\ PageStart(h, bias) <= start /\ start < PageStart(h, bias) + PageSize
        /\ end <= PageEnd(h, bias) /\ PageEnd(h, bias) < end + PageSize
        /\ PageStart(h, bias) % PageSize = 0 /\ PageEnd(h, bias) % PageSize = 0
    BY NoWrap
  <1>3. start \in Nat /\ end \in Nat /\ start < end
    <2>1. h.memsz > 0 BY NoWrap
    <2>2. start \in Nat /\ end \in Nat /\ h.memsz \in Nat BY SegmentNumbers
    <2> QED BY <2>1, <2>2
  <1>4. \A a \in Nat : a \in Bytes(h, bias) <=> start <= a /\ a < end BY InBytes
  <1>5. Bytes(h, bias) \subseteq Nat BY BytesNat
  <1>6. first \in Nat /\ PageStart(h, bias) = PageSize * first
    <2>1. first \in Nat /\ PageStart(h, bias) = PageSize * first + (PageStart(h, bias) % PageSize)
      BY <1>1, <1>2, DivMod
    <2>2. PageSize * first \in Nat BY <1>1, <2>1
    <2> QED BY <1>2, <2>1, <2>2
  <1>7. beyond \in Nat /\ PageEnd(h, bias) = PageSize * beyond
    <2>1. beyond \in Nat /\ PageEnd(h, bias) = PageSize * beyond + (PageEnd(h, bias) % PageSize)
      BY <1>1, <1>2, DivMod
    <2>2. PageSize * beyond \in Nat BY <1>1, <2>1
    <2> QED BY <1>2, <2>1, <2>2
  <1> HIDE DEF first, beyond, start, end
  <1>8. first <= beyond
    <2>1. PageStart(h, bias) <= PageEnd(h, bias) BY <1>2, <1>3
    <2> QED BY <1>1, <1>2, <2>1, DivMono DEF first, beyond
  <1>9. PagesIn(h, bias) = beyond - first
    <2>1. PageSize * beyond - PageSize * first = PageSize * (beyond - first) BY <1>1, <1>6, <1>7
    <2>2. beyond - first \in Nat BY <1>6, <1>7, <1>8
    <2>3. (PageSize * (beyond - first)) \div PageSize = beyond - first BY <1>1, <2>2, Multiple
    <2>4. PageEnd(h, bias) - PageStart(h, bias) = PageSize * (beyond - first) BY <1>6, <1>7, <2>1
    <2> QED BY <2>3, <2>4 DEF PagesIn
  <1>10. DOMAIN PagesOf(h, bias) = 1..beyond - first BY <1>9 DEF PagesOf
  <1>11. ASSUME NEW i \in 1..beyond - first
         PROVE /\ PagesOf(h, bias)[i].va = PageSize * (first + i - 1)
               /\ PagesOf(h, bias)[i].va \div PageSize = first + i - 1
    <2>1. first + i - 1 \in Nat /\ i - 1 \in Nat BY <1>6, <1>7
    <2>2. PagesOf(h, bias)[i].va = PageStart(h, bias) + (i - 1) * PageSize BY <1>9 DEF PagesOf
    <2>3. PageSize * first + (i - 1) * PageSize = PageSize * (first + i - 1) BY <1>1, <1>6, <2>1
    <2>4. (PageSize * (first + i - 1)) \div PageSize = first + i - 1 BY <1>1, <2>1, Multiple
    <2> QED BY <1>6, <2>2, <2>3, <2>4
  <1>12. ASSUME NEW i \in DOMAIN PagesOf(h, bias), NEW j \in DOMAIN PagesOf(h, bias),
                PagesOf(h, bias)[i].va = PagesOf(h, bias)[j].va
         PROVE i = j
    <2>1. first + i - 1 = first + j - 1 BY <1>10, <1>11, <1>12
    <2>2. i \in Int /\ j \in Int BY <1>10
    <2> QED BY <1>6, <2>1, <2>2
  <1>13. ASSUME NEW i \in DOMAIN PagesOf(h, bias)
         PROVE PagesOf(h, bias)[i].va \div PageSize \in Covers(h, bias)
    <2> DEFINE q == first + i - 1
    <2>1. q \in Nat /\ first <= q /\ q + 1 <= beyond BY <1>6, <1>7, <1>10
    <2>2. PagesOf(h, bias)[i].va \div PageSize = q BY <1>10, <1>11
    <2> HIDE DEF q
    <2>3. CASE q = first
      <3>1. PageStart(h, bias) \div PageSize <= start \div PageSize BY <1>1, <1>2, <1>3, DivMono
      <3>2. start \div PageSize < (PageStart(h, bias) + PageSize) \div PageSize
        <4>1. PageStart(h, bias) + PageSize = PageSize * (first + 1) /\ first + 1 \in Nat BY <1>1, <1>6
        <4>2. (PageSize * (first + 1)) % PageSize = 0 BY <1>1, <4>1, Multiple
        <4>3. PageStart(h, bias) + PageSize \in Nat /\ (PageStart(h, bias) + PageSize) % PageSize = 0
          BY <1>1, <1>2, <4>1, <4>2
        <4> QED BY <1>1, <1>2, <1>3, <4>3, DivBelow
      <3>3. (PageStart(h, bias) + PageSize) \div PageSize = first + 1
        <4>1. PageStart(h, bias) + PageSize = PageSize * (first + 1) /\ first + 1 \in Nat BY <1>1, <1>6
        <4> QED BY <1>1, <4>1, Multiple
      <3>4. start \div PageSize \in Nat BY <1>1, <1>3, DivMod
      <3>5. start \div PageSize = q BY <1>6, <2>3, <3>1, <3>2, <3>3, <3>4 DEF first
      <3>6. start \in Bytes(h, bias) BY <1>3, <1>4
      <3> QED BY <2>2, <3>5, <3>6 DEF Covers
    <2>4. CASE q > first
      <3>1. PageSize * (first + 1) <= PageSize * q BY <1>1, <1>6, <2>1, <2>4, MulMono
      <3>2. PageSize * (q + 1) <= PageSize * beyond BY <1>1, <1>7, <2>1, MulMono
      <3>3. PageSize * (first + 1) = PageStart(h, bias) + PageSize BY <1>1, <1>6
      <3>4. PageSize * (q + 1) = PageSize * q + PageSize /\ PageSize * q \in Nat BY <1>1, <2>1
      <3>5. start <= PageSize * q BY <1>1, <1>2, <1>3, <3>1, <3>3, <3>4
      <3>6. PageSize * q < end BY <1>1, <1>2, <1>3, <1>7, <3>2, <3>4
      <3>7. PageSize * q \in Bytes(h, bias) BY <1>4, <3>4, <3>5, <3>6
      <3>8. (PageSize * q) \div PageSize = q BY <1>1, <2>1, Multiple
      <3> QED BY <2>2, <3>7, <3>8 DEF Covers
    <2> QED BY <1>6, <2>1, <2>3, <2>4
  <1>14. ASSUME NEW a \in Bytes(h, bias)
         PROVE \E i \in DOMAIN PagesOf(h, bias) : PagesOf(h, bias)[i].va \div PageSize = a \div PageSize
    <2>1. a \in Nat /\ start <= a /\ a < end BY <1>4, <1>5
    <2>2. PageStart(h, bias) <= a /\ a < PageEnd(h, bias) BY <1>2, <1>3, <2>1
    <2>3. first <= a \div PageSize BY <1>1, <1>2, <2>1, <2>2, DivMono DEF first
    <2>4. a \div PageSize < beyond BY <1>1, <1>2, <2>1, <2>2, DivBelow DEF beyond
    <2>5. a \div PageSize \in Nat BY <1>1, <2>1, DivMod
    <2> DEFINE i == (a \div PageSize) - first + 1
    <2>6. i \in 1..beyond - first /\ first + i - 1 = a \div PageSize BY <1>6, <1>7, <2>3, <2>4, <2>5
    <2> HIDE DEF i
    <2> QED BY <1>10, <1>11, <2>6
  <1> QED BY <1>12, <1>13, <1>14 DEF Covers

\* Every byte of a page loaded for a segment is the byte that the file holds
\* for its address, and zero where the file holds none: elf64_load_in_address_space
\* copies neither too much nor to a wrong place, whatever the segment's offset
\* in its first page.
THEOREM PageAsLinked ==
    ASSUME NEW image, NEW h \in Segment, NEW bias \in Words, segment_range_valid(h, image, bias),
           NEW va \in Nat, NEW k \in Offsets
    PROVE PageBytes(h, bias, va)[k]
            = IF h.vaddr + bias <= va + k /\ va + k < h.vaddr + bias + h.filesz
              THEN h.offset + (va + k - (h.vaddr + bias)) + 1 ELSE 0
  <1> DEFINE start == h.vaddr + bias
             file_end == h.vaddr + bias + h.filesz
             copy_start == IF start > va THEN start ELSE va
             copy_end == IF file_end < va + PageSize THEN file_end ELSE va + PageSize
  <1>1. PageSize \in Nat \ {0} /\ Word \in Nat \ {0} /\ UserMax \in Nat /\ UserMax < Word
    BY ElfAssumption
  <1>2. SegmentStart(h, bias) = start /\ h.vaddr + bias + h.memsz <= UserMax BY NoWrap
  <1>3. /\ h.filesz \in Nat /\ h.memsz \in Nat /\ h.offset \in Nat /\ start \in Nat /\ file_end \in Nat
    BY SegmentNumbers
  <1>4. h.filesz <= h.memsz BY DEF segment_range_valid
  <1>5. file_end < Word BY <1>1, <1>2, <1>3, <1>4
  <1>6. Plus(start, h.filesz) = file_end BY <1>1, <1>3, <1>5, SmallMod DEF Plus
  <1>7. k \in Nat /\ k < PageSize BY <1>1 DEF Offsets
  <1>8. PageBytes(h, bias, va)[k] = IF va + k >= copy_start /\ va + k < copy_end
                                    THEN h.offset + (copy_start - start) + (va + k - copy_start) + 1 ELSE 0
    BY <1>2, <1>6 DEF PageBytes
  <1> HIDE DEF start, file_end
  <1> QED BY <1>1, <1>3, <1>7, <1>8 DEF start, file_end
=============================================================================
