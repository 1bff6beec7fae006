------------------------------ MODULE HeapProofs ------------------------------
(***************************************************************************)
(* The kernel heap keeps its list, its callers' memory and its count of    *)
(* free bytes consistent, for every alignment, header, page and window     *)
(* size and all requests; and kheap_validate, which walks the list, finds  *)
(* nothing wrong as long as no growth has failed half-way.                 *)
(***************************************************************************)
EXTENDS Heap, NaturalsInduction, WellFoundedInduction, TLAPS

-----------------------------------------------------------------------------
(* Numbers, iteration and sums.                                            *)

\* Leaves are for Zenon unless they say otherwise.
USE Zenon

\* A set of natural numbers that is not empty has a least one.
LEMMA LeastNatural ==
    ASSUME NEW T, T \subseteq Nat, T # {}
    PROVE \E x \in T : \A y \in T : x <= y
  <1> DEFINE R == {ss \in Nat \X Nat : ss[1] < ss[2]}
  <1>1. IsWellFoundedOn(R, Nat) BY NatLessThanWellFounded DEF OpToRel
  <1>2. \E x \in T : \A y \in T : ~(<<y, x>> \in R)
    <2> HIDE DEF R
    <2> QED BY <1>1, WFMin
  <1>3. PICK x \in T : \A y \in T : ~(<<y, x>> \in R) BY <1>2
  <1>4. ASSUME NEW y \in T PROVE x <= y
    <2>1. <<y, x>> \in Nat \X Nat /\ ~(<<y, x>> \in R) BY <1>3
    <2>2. ~(y < x) BY <2>1
    <2> QED BY <2>1, <2>2, SMTT(30)
  <1> QED BY <1>4

\* Induction: a set that has 0, and the successor of each of its members, is all of Nat.
LEMMA Induction ==
    ASSUME NEW T, 0 \in T, \A n \in Nat : n \in T => n + 1 \in T
    PROVE \A n \in Nat : n \in T
  <1>1. SUFFICES ASSUME Nat \ T # {} PROVE FALSE OBVIOUS
  <1>2. PICK x \in Nat \ T : \A y \in Nat \ T : x <= y BY <1>1, LeastNatural
  <1>3. x # 0 BY <1>2
  <1>4. x - 1 \in Nat BY <1>2, <1>3, SMTT(30)
  <1>5. x - 1 \in T BY <1>2, <1>4, SMTT(30)
  <1>6. x - 1 + 1 \in T BY <1>4, <1>5
  <1>7. x - 1 + 1 = x BY <1>2, SMTT(30)
  <1> QED BY <1>2, <1>6, <1>7

\* The runs of n steps from x0
Runs(S, x0, F, n) ==
    {s \in [0..n -> S] : s[0] = x0 /\ \A i \in 0..n - 1 : s[i + 1] = F[s[i]]}

\* Two runs from the same start agree as far as both go.
LEMMA RunsAgree ==
    ASSUME NEW S, NEW x0 \in S, NEW F \in [S -> S], NEW m \in Nat, NEW n \in Nat, m <= n,
           NEW s \in Runs(S, x0, F, m), NEW t \in Runs(S, x0, F, n)
    PROVE s[m] = t[m]
  <1> DEFINE T == {i \in Nat : i <= m => s[i] = t[i]}
  <1>1. 0 \in T BY DEF Runs
  <1>2. ASSUME NEW i \in Nat, i \in T PROVE i + 1 \in T
    <2>1. CASE ~(i + 1 <= m) BY <2>1, SMTT(30)
    <2>2. CASE i + 1 <= m
      <3>1. i \in 0..m - 1 /\ i \in 0..n - 1 BY <2>2, SMTT(30)
      <3>2. s[i] = t[i] BY <1>2, <2>2, SMTT(30)
      <3>3. s[i + 1] = F[s[i]] BY <3>1 DEF Runs
      <3>4. t[i + 1] = F[t[i]] BY <3>1 DEF Runs
      <3> QED BY <3>2, <3>3, <3>4, SMTT(30)
    <2> QED BY <2>1, <2>2
  <1> HIDE DEF T
  <1>3. \A i \in Nat : i \in T BY <1>1, <1>2, Induction
  <1>4. m \in T BY <1>3
  <1> QED BY <1>4, SMTT(30) DEF T

\* There are runs of every length.
LEMMA RunsExist ==
    ASSUME NEW S, NEW x0 \in S, NEW F \in [S -> S]
    PROVE \A n \in Nat : Runs(S, x0, F, n) # {}
  <1> DEFINE T == {n \in Nat : Runs(S, x0, F, n) # {}}
  <1>1. 0 \in T
    <2>1. [i \in 0..0 |-> x0] \in Runs(S, x0, F, 0) BY SMTT(30) DEF Runs
    <2> QED BY <2>1
  <1>2. ASSUME NEW n \in Nat, n \in T PROVE n + 1 \in T
    <2>1. PICK s : s \in Runs(S, x0, F, n) BY <1>2
    <2> DEFINE t == [i \in 0..n + 1 |-> IF i = n + 1 THEN F[s[n]] ELSE s[i]]
    <2>2. s \in [0..n -> S] /\ s[0] = x0 /\ \A i \in 0..n - 1 : s[i + 1] = F[s[i]] BY <2>1 DEF Runs
    <2>3. t \in [0..n + 1 -> S] BY <2>2, SMTT(30)
    <2>4. t[0] = x0 BY <2>2, SMTT(30)
    <2>5. ASSUME NEW i \in 0..(n + 1) - 1 PROVE t[i + 1] = F[t[i]]
      <3>1. CASE i = n BY <3>1, SMTT(30)
      <3>2. CASE i # n
        <4>1. i \in 0..n - 1 BY <3>2, SMTT(30)
        <4> QED BY <4>1, <2>2, SMTT(30)
      <3> QED BY <3>1, <3>2
    <2> HIDE DEF t
    <2>6. t \in Runs(S, x0, F, n + 1) BY <2>3, <2>4, <2>5 DEF Runs
    <2> QED BY <2>6, SMTT(30)
  <1> HIDE DEF T
  <1>3. \A n \in Nat : n \in T BY <1>1, <1>2, Induction
  <1> QED BY <1>3 DEF T

\* What taking step F again and again from x0 gives
Iterates(g, S, x0, F) == g \in [Nat -> S] /\ g[0] = x0 /\ \A n \in Nat : g[n + 1] = F[g[n]]

\* A step taken again and again defines a function on Nat.
LEMMA Iteration ==
    ASSUME NEW S, NEW x0 \in S, NEW F \in [S -> S]
    PROVE \E g : Iterates(g, S, x0, F)
  <1> DEFINE r(n) == CHOOSE s : s \in Runs(S, x0, F, n)
             g == [n \in Nat |-> r(n)[n]]
  <1>1. ASSUME NEW n \in Nat PROVE r(n) \in Runs(S, x0, F, n) BY RunsExist
  <1>2. g \in [Nat -> S]
    <2>1. ASSUME NEW n \in Nat PROVE r(n)[n] \in S
      <3>1. r(n) \in [0..n -> S] BY <1>1 DEF Runs
      <3> QED BY <3>1, SMTT(30)
    <2> QED BY <2>1
  <1>3. g[0] = x0
    <2>1. r(0)[0] = x0 BY <1>1 DEF Runs
    <2> QED BY <2>1
  <1>4. ASSUME NEW n \in Nat PROVE g[n + 1] = F[g[n]]
    <2>1. r(n) \in Runs(S, x0, F, n) /\ r(n + 1) \in Runs(S, x0, F, n + 1) BY <1>1, SMTT(30)
    <2> HIDE DEF r
    <2>2. r(n)[n] = r(n + 1)[n] BY <2>1, RunsAgree, SMTT(30)
    <2>3. n \in 0..(n + 1) - 1 BY SMTT(30)
    <2>4. r(n + 1)[n + 1] = F[r(n + 1)[n]] BY <2>1, <2>3 DEF Runs
    <2> QED BY <2>2, <2>4, SMTT(30)
  <1> HIDE DEF g
  <1>5. Iterates(g, S, x0, F) BY <1>2, <1>3, <1>4 DEF Iterates
  <1> QED BY <1>5

\* The sum of the first n values of f
Sums(f) ==
    LET s[n \in Nat] == IF n = 0 THEN 0 ELSE s[n - 1] + f[n - 1]
    IN s

\* Sums is what its equation says.
LEMMA SumsDef ==
    ASSUME NEW f \in [Nat -> Nat]
    PROVE /\ Sums(f) \in [Nat -> Nat] /\ Sums(f)[0] = 0
          /\ \A n \in Nat : Sums(f)[n + 1] = Sums(f)[n] + f[n]
  <1> DEFINE S == Nat \X Nat
             F == [w \in S |-> <<w[1] + 1, w[2] + f[w[1]]>>]
             x0 == <<0, 0>>
  <1>1. F \in [S -> S] /\ x0 \in S BY SMTT(30)
  <1>2. PICK g : Iterates(g, S, x0, F)
    <2> HIDE DEF S, F, x0
    <2> QED BY <1>1, Iteration
  <1> USE DEF Iterates
  <1>3. \A n \in Nat : g[n] \in S /\ g[n + 1] = <<g[n][1] + 1, g[n][2] + f[g[n][1]]>> BY <1>2
  <1> DEFINE T == {n \in Nat : g[n][1] = n}
             G == [n \in Nat |-> g[n][2]]
  <1>4. \A n \in Nat : n \in T
    <2>1. 0 \in T BY <1>2, SMTT(30)
    <2>2. ASSUME NEW n \in Nat, n \in T PROVE n + 1 \in T
      <3>1. g[n + 1][1] = g[n][1] + 1 BY <1>3, SMTT(30)
      <3>2. g[n + 1][1] = n + 1 BY <2>2, <3>1
      <3> QED BY <3>2, SMTT(30)
    <2> HIDE DEF T
    <2> QED BY <2>1, <2>2, Induction
  <1>5. G \in [Nat -> Nat] BY <1>2
  <1>6. G[0] = 0 BY <1>2, SMTT(30)
  <1>7. ASSUME NEW n \in Nat PROVE G[n + 1] = G[n] + f[n]
    <2>1. g[n][1] = n BY <1>4
    <2> QED BY <1>3, <2>1, SMTT(30)
  <1> HIDE DEF G
  <1>8. G = [n \in Nat |-> IF n = 0 THEN 0 ELSE G[n - 1] + f[n - 1]]
    <2>1. ASSUME NEW n \in Nat PROVE G[n] = IF n = 0 THEN 0 ELSE G[n - 1] + f[n - 1]
      <3>1. CASE n = 0 BY <3>1, <1>6
      <3>2. CASE n # 0
        <4>1. n - 1 \in Nat /\ n - 1 + 1 = n BY <3>2, SMTT(30)
        <4> QED BY <4>1, <3>2, <1>7
      <3> QED BY <3>1, <3>2
    <2> QED BY <2>1, <1>2, <1>5
  <1> DEFINE E(s) == s = [n \in Nat |-> IF n = 0 THEN 0 ELSE s[n - 1] + f[n - 1]]
  <1>9. E(Sums(f))
    <2>1. E(G) BY <1>8
    <2>2. Sums(f) = CHOOSE s : E(s) BY DEF Sums
    <2> HIDE DEF E
    <2> QED BY <2>1, <2>2
  <1> DEFINE s == Sums(f)
  <1>10. s = [n \in Nat |-> IF n = 0 THEN 0 ELSE s[n - 1] + f[n - 1]] BY <1>9
  <1> HIDE DEF s
  <1>11. s[0] = 0 BY <1>10
  <1>12. \A n \in Nat : s[n + 1] = s[n] + f[n]
    <2>1. ASSUME NEW n \in Nat PROVE s[n + 1] = s[n] + f[n]
      <3>1. n + 1 \in Nat /\ n + 1 # 0 /\ n + 1 - 1 = n BY SMTT(30)
      <3>2. \A i \in Nat : s[i] = IF i = 0 THEN 0 ELSE s[i - 1] + f[i - 1] BY <1>10
      <3>3. s[n + 1] = s[n + 1 - 1] + f[n + 1 - 1] BY <3>1, <3>2, SMTT(30)
      <3> QED BY <3>1, <3>3
    <2> QED BY <2>1
  <1> DEFINE U == {n \in Nat : s[n] \in Nat}
  <1>13. \A n \in Nat : n \in U
    <2>1. 0 \in U BY <1>11
    <2>2. ASSUME NEW n \in Nat, n \in U PROVE n + 1 \in U
      <3>1. s[n] + f[n] \in Nat BY <2>2, SMTT(30)
      <3>2. s[n + 1] \in Nat BY <3>1, <1>12
      <3> QED BY <3>2, SMTT(30)
    <2> HIDE DEF U
    <2> QED BY <2>1, <2>2, Induction
  <1>14. s \in [Nat -> Nat] BY <1>10, <1>13
  <1> QED BY <1>11, <1>12, <1>14 DEF s

\* Functions that differ in one value have sums that differ by as much past it.
LEMMA SumsChange ==
    ASSUME NEW f \in [Nat -> Nat], NEW e \in [Nat -> Nat], NEW b \in Nat, NEW n \in Nat,
           \A i \in Nat \ {b} : e[i] = f[i]
    PROVE Sums(e)[n] = IF n <= b THEN Sums(f)[n] ELSE Sums(f)[n] - f[b] + e[b]
  <1> DEFINE s == Sums(f)
             t == Sums(e)
             T == {i \in Nat : t[i] = IF i <= b THEN s[i] ELSE s[i] - f[b] + e[b]}
  <1>1. /\ s \in [Nat -> Nat] /\ s[0] = 0 /\ \A i \in Nat : s[i + 1] = s[i] + f[i]
        /\ t \in [Nat -> Nat] /\ t[0] = 0 /\ \A i \in Nat : t[i + 1] = t[i] + e[i]
    BY SumsDef
  <1> HIDE DEF s, t
  <1>2. 0 \in T BY <1>1, SMTT(30)
  <1>3. ASSUME NEW i \in Nat, i \in T PROVE i + 1 \in T
    <2>1. s[i + 1] = s[i] + f[i] /\ t[i + 1] = t[i] + e[i] /\ s[i] \in Nat /\ t[i] \in Nat
          /\ f[i] \in Nat /\ f[b] \in Nat /\ e[b] \in Nat
      BY <1>1
    <2>2. CASE i = b BY <2>1, <2>2, <1>3, SMTT(30)
    <2>3. CASE i # b BY <2>1, <2>3, <1>3, SMTT(30)
    <2> QED BY <2>2, <2>3
  <1> HIDE DEF T
  <1>4. n \in T BY <1>2, <1>3, Induction
  <1> QED BY <1>4 DEF T, s, t

\* align_up gives a multiple that is not smaller.
LEMMA AlignUp ==
    ASSUME NEW value \in Nat, NEW alignment \in Nat \ {0}
    PROVE align_up(value, alignment) \in Nat /\ value <= align_up(value, alignment)
  <1> DEFINE v == value + alignment - 1
             q == v \div alignment
  <1>1. v \in Nat BY SMTT(30)
  <1>2. q \in Nat /\ v % alignment \in 0..alignment - 1 /\ v = alignment * q + (v % alignment) BY <1>1, SMTT(30)
  <1>3. align_up(value, alignment) = q * alignment BY DEF align_up
  <1>4. q * alignment = alignment * q BY <1>2, SMTT(30)
  <1> HIDE DEF q
  <1>5. alignment * q \in Nat BY <1>2, SMTT(30)
  <1> QED BY <1>2, <1>3, <1>4, <1>5, SMTT(30)

-----------------------------------------------------------------------------
(* The list of blocks.                                                     *)

InList(h) == {b \in Addresses : h[b].magic = "HEAP_MAGIC"}
EndOf(h, b) == b + Header + h[b].size

\* Every block has contents and lies below top.
Sized(h, top) == \A b \in InList(h) : h[b].size >= 1 /\ EndOf(h, b) <= top

\* No block reaches into the next.
Apart(h) == \A b, c \in InList(h) : b < c => EndOf(h, b) <= c

\* The link forward is to the block that follows in memory, if there is one.
Forward(h) ==
    \A b \in InList(h) :
       IF h[b].next = Null THEN \A c \in InList(h) : c <= b
       ELSE /\ h[b].next \in InList(h) /\ h[b].next > b /\ h[h[b].next].prev = b
            /\ \A c \in InList(h) : c <= b \/ c >= h[b].next

\* Every block but the first is linked to by the one its link backward names.
Backward(h) ==
    \A b \in InList(h) :
       IF b = 0 THEN h[b].prev = Null ELSE h[b].prev \in InList(h) /\ h[h[b].prev].next = b

ListOK(h, top) ==
    /\ h \in [Addresses -> HeaderType] /\ 0 \in InList(h)
    /\ Sized(h, top) /\ Apart(h) /\ Forward(h) /\ Backward(h)

\* The blocks fill memory up to top.
Tiled(h, top) ==
    \A b \in InList(h) : EndOf(h, b) = IF h[b].next = Null THEN top ELSE h[b].next

\* The free bytes of list h, counted over all addresses.
Weight(h) == [a \in Nat |-> IF a \in InList(h) THEN (IF h[a].free THEN h[a].size ELSE 0) ELSE 0]
FreeBytes(h) == Sums(Weight(h))[Limit]

\* The parts of a header have their types.
LEMMA HeaderTypes ==
    ASSUME NEW h \in [Addresses -> HeaderType], NEW a \in Addresses
    PROVE /\ a \in Nat /\ a < Limit /\ a # Null
          /\ h[a].magic \in Magics /\ h[a].size \in Nat /\ h[a].free \in BOOLEAN
          /\ h[a].next \in Addresses \cup {Null} /\ h[a].prev \in Addresses \cup {Null}
  <1>1. h[a] \in HeaderType OBVIOUS
  <1>2. a \in Nat /\ a < Limit /\ a # Null BY HeapAssumption, SMTT(30) DEF Addresses
  <1> QED BY <1>1, <1>2 DEF HeaderType

\* What the list says of one block, in numbers.
LEMMA BlockFacts ==
    ASSUME NEW h, NEW top \in 0..Limit, ListOK(h, top), NEW b \in InList(h)
    PROVE /\ b \in Addresses /\ b \in Nat /\ b # Null /\ h[b].size \in Nat \ {0} /\ h[b].free \in BOOLEAN
          /\ h[b].next \in Addresses \cup {Null} /\ h[b].prev \in Addresses \cup {Null}
          /\ EndOf(h, b) = b + Header + h[b].size /\ EndOf(h, b) \in Nat /\ b < EndOf(h, b) /\ EndOf(h, b) <= top
  <1>1. h \in [Addresses -> HeaderType] /\ b \in Addresses BY DEF ListOK, InList
  <1>2. /\ b \in Nat /\ b # Null /\ h[b].size \in Nat /\ h[b].free \in BOOLEAN
        /\ h[b].next \in Addresses \cup {Null} /\ h[b].prev \in Addresses \cup {Null}
    BY <1>1, HeaderTypes
  <1>3. h[b].size >= 1 /\ EndOf(h, b) <= top BY DEF ListOK, Sized
  <1>4. Header \in Nat \ {0} BY HeapAssumption
  <1> QED BY <1>1, <1>2, <1>3, <1>4, SMTT(30) DEF EndOf

\* The free bytes are a number.
LEMMA FreeBytesType ==
    ASSUME NEW h \in [Addresses -> HeaderType]
    PROVE Weight(h) \in [Nat -> Nat] /\ FreeBytes(h) \in Nat
  <1>1. ASSUME NEW a \in InList(h) PROVE h[a].size \in Nat BY HeaderTypes DEF InList
  <1>2. Weight(h) \in [Nat -> Nat] BY <1>1 DEF Weight
  <1>3. Limit \in Nat BY HeapAssumption
  <1>4. Sums(Weight(h)) \in [Nat -> Nat] BY <1>2, SumsDef
  <1> QED BY <1>2, <1>3, <1>4 DEF FreeBytes

\* When lists differ in the weight of one address only, so do their free bytes.
LEMMA FreeBytesOne ==
    ASSUME NEW h \in [Addresses -> HeaderType], NEW g \in [Addresses -> HeaderType], NEW b \in Addresses,
           \A a \in Addresses \ {b} : Weight(g)[a] = Weight(h)[a]
    PROVE FreeBytes(g) = FreeBytes(h) - Weight(h)[b] + Weight(g)[b]
  <1>1. Weight(h) \in [Nat -> Nat] /\ Weight(g) \in [Nat -> Nat] BY FreeBytesType
  <1>2. b \in Nat /\ b < Limit /\ Limit \in Nat BY HeapAssumption, SMTT(30) DEF Addresses
  <1>3. ASSUME NEW a \in Nat \ {b} PROVE Weight(g)[a] = Weight(h)[a]
    <2>1. CASE a \in Addresses BY <2>1
    <2>2. CASE a \notin Addresses BY <2>2 DEF Weight, InList
    <2> QED BY <2>1, <2>2
  <1>4. Sums(Weight(g))[Limit] = IF Limit <= b THEN Sums(Weight(h))[Limit]
                                 ELSE Sums(Weight(h))[Limit] - Weight(h)[b] + Weight(g)[b]
    BY <1>1, <1>2, <1>3, SumsChange
  <1> QED BY <1>2, <1>4, SMTT(30) DEF FreeBytes

\* The same for two addresses.
LEMMA FreeBytesTwo ==
    ASSUME NEW h \in [Addresses -> HeaderType], NEW g \in [Addresses -> HeaderType],
           NEW b \in Addresses, NEW c \in Addresses, b # c,
           \A a \in Addresses \ {b, c} : Weight(g)[a] = Weight(h)[a]
    PROVE FreeBytes(g) = FreeBytes(h) - Weight(h)[b] + Weight(g)[b] - Weight(h)[c] + Weight(g)[c]
  <1> DEFINE m == [h EXCEPT ![b] = g[b]]
  <1>1. m \in [Addresses -> HeaderType] OBVIOUS
  <1>2. Addresses \subseteq Nat BY HeapAssumption, SMTT(30) DEF Addresses
  <1>3. ASSUME NEW a \in Addresses PROVE Weight(m)[a] = IF a = b THEN Weight(g)[a] ELSE Weight(h)[a]
    <2>1. m[a] = IF a = b THEN g[a] ELSE h[a] OBVIOUS
    <2> QED BY <1>2, <2>1 DEF Weight, InList
  <1> HIDE DEF m
  <1>4. FreeBytes(m) = FreeBytes(h) - Weight(h)[b] + Weight(g)[b]
    <2>1. \A a \in Addresses \ {b} : Weight(m)[a] = Weight(h)[a] BY <1>3
    <2> QED BY <1>1, <1>3, <2>1, FreeBytesOne
  <1>5. FreeBytes(g) = FreeBytes(m) - Weight(h)[c] + Weight(g)[c]
    <2>1. \A a \in Addresses \ {c} : Weight(g)[a] = Weight(m)[a] BY <1>3
    <2>2. FreeBytes(g) = FreeBytes(m) - Weight(m)[c] + Weight(g)[c] BY <1>1, <2>1, FreeBytesOne
    <2> QED BY <1>3, <2>2
  <1>6. /\ FreeBytes(h) \in Nat /\ Weight(h)[b] \in Nat /\ Weight(h)[c] \in Nat
        /\ Weight(g)[b] \in Nat /\ Weight(g)[c] \in Nat
    BY <1>2, FreeBytesType
  <1> QED BY <1>4, <1>5, <1>6, SMTT(30)

-----------------------------------------------------------------------------
(* Splitting a block.                                                      *)

\* g is h with block b split: the tail at t, a header where there was none, is
\* linked in between the block and the one after it.
IsSplit(h, g, b, size, t) ==
    /\ t = b + Header + size /\ t \in Addresses /\ t \notin InList(h) /\ t > b
    /\ h[b].size - size - Header \in Nat \ {0}
    /\ g \in [Addresses -> HeaderType]
    /\ \A a \in Addresses :
          /\ g[a].magic = IF a = t THEN "HEAP_MAGIC" ELSE h[a].magic
          /\ g[a].size = IF a = t THEN h[b].size - size - Header ELSE IF a = b THEN size ELSE h[a].size
          /\ g[a].free = IF a = t THEN TRUE ELSE h[a].free
          /\ g[a].next = IF a = t THEN h[b].next ELSE IF a = b THEN t ELSE h[a].next
          /\ g[a].prev = IF a = t THEN b ELSE IF a = h[b].next THEN t ELSE h[a].prev

\* This is what split_block writes.
LEMMA SplitWrites ==
    ASSUME NEW h, NEW top \in 0..Limit, ListOK(h, top), NEW b \in InList(h), NEW size \in Nat \ {0},
           Splits(h, b, size)
    PROVE IsSplit(h, split_block(h, b, size), b, size, b + Header + size)
  <1> DEFINE t == b + Header + size
             n == h[b].next
             r == [magic |-> "HEAP_MAGIC", size |-> h[b].size - size - Header, free |-> TRUE, next |-> n, prev |-> b]
             s == [h EXCEPT ![t] = r, ![b].next = t, ![b].size = size]
             g == split_block(h, b, size)
  <1>1. h \in [Addresses -> HeaderType] /\ b \in Addresses BY DEF ListOK, InList
  <1>2. /\ b \in Nat /\ h[b].size \in Nat /\ n \in Addresses \cup {Null}
        /\ Header \in Nat \ {0} /\ Align \in Nat \ {0} /\ Limit \in Nat /\ Null \notin Nat
    BY <1>1, HeaderTypes, HeapAssumption
  <1>3. h[b].size >= size + Header + Align BY DEF Splits
  <1>4. b + Header + h[b].size <= top BY DEF ListOK, Sized, EndOf
  <1>5. t \in Nat /\ t > b /\ t < b + Header + h[b].size /\ t < Limit BY <1>2, <1>3, <1>4, SMTT(30)
  <1>6. t \in Addresses BY <1>2, <1>5, SMTT(30) DEF Addresses
  <1>7. t \notin InList(h)
    <2>1. \A c \in InList(h) : b < c => b + Header + h[b].size <= c BY DEF ListOK, Apart, EndOf
    <2> QED BY <2>1, <1>2, <1>5, SMTT(30)
  <1>8. n # Null => n \in InList(h) /\ n \in Addresses /\ n > b /\ n # t
    BY <1>7, SMTT(30) DEF ListOK, Forward, InList
  <1>9. h[b].size - size - Header \in Nat /\ h[b].size - size - Header >= 1 BY <1>2, <1>3, SMTT(30)
  <1>10. r \in HeaderType BY <1>1, <1>2, <1>9 DEF HeaderType, Magics
  <1> HIDE DEF r
  <1>11. /\ s \in [Addresses -> HeaderType]
         /\ \A a \in Addresses :
               /\ s[a].magic = IF a = t THEN r.magic ELSE h[a].magic
               /\ s[a].size = IF a = t THEN r.size ELSE IF a = b THEN size ELSE h[a].size
               /\ s[a].free = IF a = t THEN r.free ELSE h[a].free
               /\ s[a].next = IF a = t THEN r.next ELSE IF a = b THEN t ELSE h[a].next
               /\ s[a].prev = IF a = t THEN r.prev ELSE h[a].prev
    <2> HIDE DEF t
    <2>1. size \in Nat /\ b # t BY <1>2, <1>5, SMTT(30)
    <2> USE <1>1, <1>6, <1>10, <2>1 DEF HeaderType
    <2>2. s \in [Addresses -> HeaderType] OBVIOUS
    <2>3. ASSUME NEW a \in Addresses PROVE s[a].magic = IF a = t THEN r.magic ELSE h[a].magic OBVIOUS
    <2>4. ASSUME NEW a \in Addresses
          PROVE s[a].size = IF a = t THEN r.size ELSE IF a = b THEN size ELSE h[a].size
      OBVIOUS
    <2>5. ASSUME NEW a \in Addresses PROVE s[a].free = IF a = t THEN r.free ELSE h[a].free OBVIOUS
    <2>6. ASSUME NEW a \in Addresses
          PROVE s[a].next = IF a = t THEN r.next ELSE IF a = b THEN t ELSE h[a].next
      OBVIOUS
    <2>7. ASSUME NEW a \in Addresses PROVE s[a].prev = IF a = t THEN r.prev ELSE h[a].prev OBVIOUS
    <2> HIDE DEF s
    <2> QED BY <2>2, <2>3, <2>4, <2>5, <2>6, <2>7
  <1> HIDE DEF s
  <1>12. g = IF n = Null THEN s ELSE [s EXCEPT ![n].prev = t] BY DEF split_block, s, r
  <1>13. /\ g \in [Addresses -> HeaderType]
         /\ \A a \in Addresses :
               /\ g[a].magic = s[a].magic /\ g[a].size = s[a].size /\ g[a].free = s[a].free /\ g[a].next = s[a].next
               /\ g[a].prev = IF a = n THEN t ELSE s[a].prev
    <2>1. CASE n = Null BY <1>2, <1>11, <1>12, <2>1, SMTT(30) DEF Addresses
    <2>2. CASE n # Null BY <1>6, <1>8, <1>11, <1>12, <2>2, SMTT(30) DEF HeaderType
    <2> QED BY <2>1, <2>2
  <1> HIDE DEF g, t, n
  <1>14. ASSUME NEW a \in Addresses
         PROVE /\ g[a].magic = IF a = t THEN "HEAP_MAGIC" ELSE h[a].magic
               /\ g[a].size = IF a = t THEN h[b].size - size - Header ELSE IF a = b THEN size ELSE h[a].size
               /\ g[a].free = IF a = t THEN TRUE ELSE h[a].free
               /\ g[a].next = IF a = t THEN n ELSE IF a = b THEN t ELSE h[a].next
               /\ g[a].prev = IF a = t THEN b ELSE IF a = n THEN t ELSE h[a].prev
    <2>1. t # n BY <1>2, <1>5, <1>8
    <2>2. /\ r.magic = "HEAP_MAGIC" /\ r.size = h[b].size - size - Header /\ r.free = TRUE
          /\ r.next = n /\ r.prev = b
      BY DEF r
    <2>3. g[a].free = IF a = t THEN TRUE ELSE h[a].free
      <3>1. g[a].free = s[a].free BY <1>13
      <3>2. s[a].free = IF a = t THEN r.free ELSE h[a].free BY <1>11
      <3> QED BY <2>2, <3>1, <3>2
    <2> QED BY <1>11, <1>13, <2>1, <2>2, <2>3, SMTT(30)
  <1>15. IsSplit(h, g, b, size, t)
    <2>1. t = b + Header + size BY DEF t
    <2>2. h[b].size - size - Header \in Nat \ {0} BY <1>9, SMTT(30)
    <2> QED BY <1>5, <1>6, <1>7, <1>13, <1>14, <2>1, <2>2 DEF IsSplit, n
  <1> QED BY <1>15 DEF g, t

\* The list has one block more.
LEMMA SplitAdds ==
    ASSUME NEW h, NEW g, NEW b, NEW size, NEW t, IsSplit(h, g, b, size, t)
    PROVE InList(g) = InList(h) \cup {t}
  <1>1. \A a \in Addresses : a \in InList(g) <=> a = t \/ a \in InList(h) BY DEF InList, IsSplit
  <1>2. InList(g) \subseteq Addresses /\ InList(h) \subseteq Addresses /\ t \in Addresses BY DEF InList, IsSplit
  <1> QED BY <1>1, <1>2

\* The list stays in order.
LEMMA SplitKeeps ==
    ASSUME NEW h, NEW g, NEW top \in 0..Limit, ListOK(h, top), NEW b \in InList(h), NEW size \in Nat \ {0},
           NEW t, IsSplit(h, g, b, size, t)
    PROVE ListOK(g, top)
  <1> DEFINE n == h[b].next
  <1>1. h \in [Addresses -> HeaderType] /\ b \in Addresses /\ 0 \in InList(h) BY DEF ListOK, InList
  <1>2. g \in [Addresses -> HeaderType] /\ t \in Addresses /\ t \notin InList(h) BY DEF IsSplit
  <1>3. /\ Header \in Nat \ {0} /\ Null \notin Nat /\ Addresses \subseteq Nat
    BY HeapAssumption, SMTT(30) DEF Addresses
  <1>4. InList(g) = InList(h) \cup {t} BY SplitAdds, SMTT(30)
  <1>5. t = b + Header + size /\ t > b /\ h[b].size \in Nat /\ b \in Nat /\ t \in Nat
    BY <1>1, <1>3, HeaderTypes DEF IsSplit
  <1>6. ASSUME NEW a \in InList(h)
        PROVE a \in Addresses /\ a # t /\ a \in Nat /\ h[a].size \in Nat \ {0} /\ h[a].next \in Nat \cup {Null}
              /\ EndOf(h, a) = a + Header + h[a].size /\ EndOf(h, a) \in Nat /\ EndOf(h, a) <= top
              /\ a < EndOf(h, a)
    BY <1>2, <1>3, BlockFacts
  <1>7. \A a \in InList(h) : EndOf(g, a) = IF a = b THEN t ELSE EndOf(h, a)
    <2>1. \A a \in InList(h) : g[a].size = IF a = b THEN size ELSE h[a].size BY <1>6 DEF IsSplit
    <2> QED BY <1>5, <1>6, <2>1 DEF EndOf
  <1>8. EndOf(g, t) = EndOf(h, b) /\ g[t].size >= 1
    <2>1. g[t].size = h[b].size - size - Header /\ g[t].size \in Nat \ {0} BY <1>2 DEF IsSplit
    <2> QED BY <1>3, <1>5, <2>1, SMTT(30) DEF EndOf
  <1>9. t < EndOf(h, b)
    <2>1. h[b].size - size - Header \in Nat \ {0} BY DEF IsSplit
    <2> QED BY <1>3, <1>5, <1>6, <2>1, SMTT(30)
  <1>10. Sized(g, top)
    <2>1. ASSUME NEW a \in InList(h) PROVE g[a].size >= 1 /\ EndOf(g, a) <= top
      <3>1. g[a].size = IF a = b THEN size ELSE h[a].size BY <1>6 DEF IsSplit
      <3>2. EndOf(g, a) = IF a = b THEN t ELSE EndOf(h, a) BY <1>7
      <3> QED BY <3>1, <3>2, <1>5, <1>6, <1>9, SMTT(30)
    <2> QED BY <2>1, <1>4, <1>6, <1>8 DEF Sized
  <1>11. \A c \in InList(h) : c <= b \/ c >= EndOf(h, b) BY <1>6, SMTT(30) DEF ListOK, Apart
  <1>12. Apart(g)
    <2>1. SUFFICES ASSUME NEW c \in InList(g), NEW d \in InList(g), c < d PROVE EndOf(g, c) <= d BY DEF Apart
    <2>2. CASE c = t
      <3>1. d \in InList(h) /\ d > b BY <2>1, <2>2, <1>4, <1>5, <1>6, SMTT(30)
      <3> QED BY <2>2, <3>1, <1>6, <1>8, <1>11, SMTT(30)
    <2>3. CASE d = t /\ c # t
      <3>1. c \in InList(h) /\ c < EndOf(h, b) BY <2>1, <2>3, <1>4, <1>5, <1>6, <1>9, SMTT(30)
      <3>2. CASE c = b BY <3>2, <2>3, <3>1, <1>7, <1>5, SMTT(30)
      <3>3. CASE c # b
        <4>1. c < b BY <3>1, <3>3, <1>6, <1>11, <1>5, SMTT(30)
        <4>2. EndOf(h, c) <= b BY <3>1, <4>1 DEF ListOK, Apart
        <4> QED BY <3>1, <3>3, <4>2, <2>3, <1>5, <1>6, <1>7, SMTT(30)
      <3> QED BY <3>2, <3>3
    <2>4. CASE c # t /\ d # t
      <3>1. c \in InList(h) /\ d \in InList(h) /\ EndOf(h, c) <= d BY <2>1, <2>4, <1>4 DEF ListOK, Apart
      <3> QED BY <3>1, <1>6, <1>7, <1>9, <1>5, SMTT(30)
    <2> QED BY <2>2, <2>3, <2>4
  <1>13. Forward(g)
    <2>1. SUFFICES ASSUME NEW c \in InList(g)
                   PROVE IF g[c].next = Null THEN \A d \in InList(g) : d <= c
                         ELSE /\ g[c].next \in InList(g) /\ g[c].next > c /\ g[g[c].next].prev = c
                              /\ \A d \in InList(g) : d <= c \/ d >= g[c].next
      BY DEF Forward
    <2>2. CASE c = b
      <3>1. g[c].next = t /\ g[t].prev = b BY <2>2, <1>1, <1>2, <1>5 DEF IsSplit
      <3>2. ASSUME NEW d \in InList(g) PROVE d <= b \/ d >= t
        BY <1>4, <1>6, <1>9, <1>11, <1>5, SMTT(30)
      <3> QED BY <2>2, <3>1, <3>2, <1>3, <1>4, <1>5
    <2>3. CASE c = t
      <3>1. g[c].next = n BY <2>3, <1>2 DEF IsSplit
      <3>2. CASE n = Null
        <4>1. \A d \in InList(h) : d <= b BY <3>2 DEF ListOK, Forward
        <4> QED BY <2>3, <3>1, <3>2, <4>1, <1>4, <1>5, <1>6, SMTT(30)
      <3>3. CASE n # Null
        <4>1. n \in InList(h) /\ n > b /\ \A d \in InList(h) : d <= b \/ d >= n
          BY <3>3 DEF ListOK, Forward
        <4>4. n \in Nat /\ EndOf(h, b) \in Nat BY <4>1, <1>6
        <4>2. n # t /\ n > t
          <5> HIDE DEF n
          <5>1. n >= EndOf(h, b) BY <4>1, <4>4, <1>5, <1>11, SMTT(30)
          <5> QED BY <4>4, <5>1, <1>5, <1>9, SMTT(30)
        <4>3. g[n].prev = t BY <4>1, <4>2, <1>6 DEF IsSplit
        <4> QED BY <2>3, <3>1, <3>3, <4>1, <4>2, <4>3, <1>4, <1>5, <1>6, SMTT(30)
      <3> QED BY <3>2, <3>3
    <2>4. CASE c # b /\ c # t
      <3>1. c \in InList(h) /\ g[c].next = h[c].next BY <2>4, <1>4, <1>6 DEF IsSplit
      <3>2. CASE h[c].next = Null
        <4>1. \A d \in InList(h) : d <= c BY <3>1, <3>2 DEF ListOK, Forward
        <4>2. b < c BY <4>1, <2>4, <1>5, <3>1, <1>6, SMTT(30)
        <4>3. t <= c
          <5>1. c <= b \/ c >= EndOf(h, b) BY <3>1, <1>11
          <5>2. c \in Nat /\ EndOf(h, b) \in Nat BY <3>1, <1>6, <1>5, HeapAssumption, SMTT(30) DEF EndOf
          <5> QED BY <4>2, <5>1, <5>2, <1>5, <1>9, SMTT(30)
        <4> QED BY <3>1, <3>2, <4>1, <4>3, <1>4
      <3>3. CASE h[c].next # Null
        <4> DEFINE m == h[c].next
        <4>1. m \in InList(h) /\ m > c /\ h[m].prev = c /\ \A d \in InList(h) : d <= c \/ d >= m
          BY <3>1, <3>3 DEF ListOK, Forward
        <4>2. m # n
          <5>1. CASE m = n
            <6>1. h[n].prev = b BY <5>1, <3>3 DEF ListOK, Forward
            <6> QED BY <5>1, <6>1, <4>1, <2>4
          <5> QED BY <5>1
        <4>3. g[m].prev = c BY <4>1, <4>2, <1>6 DEF IsSplit
        <4>4. t <= c \/ t >= m
          <5>1. b <= c \/ b >= m BY <4>1
          <5> HIDE DEF m
          <5>4. m \in Nat /\ c \in Nat /\ EndOf(h, b) \in Nat BY <1>6, <3>1, <4>1
          <5>2. CASE b >= m BY <5>2, <5>4, <1>5, SMTT(30)
          <5>3. CASE b < c
            <6>1. c >= EndOf(h, b) BY <5>3, <5>4, <3>1, <1>5, <1>11, SMTT(30)
            <6> QED BY <5>4, <6>1, <1>5, <1>9, SMTT(30)
          <5> QED BY <5>1, <5>2, <5>3, <2>4, <3>1, <1>5, <1>6, SMTT(30)
        <4> QED BY <3>1, <3>3, <4>1, <4>3, <4>4, <1>4
      <3> QED BY <3>2, <3>3
    <2> QED BY <2>2, <2>3, <2>4
  <1>14. Backward(g)
    <2>1. SUFFICES ASSUME NEW c \in InList(g)
                   PROVE IF c = 0 THEN g[c].prev = Null
                         ELSE g[c].prev \in InList(g) /\ g[g[c].prev].next = c
      BY DEF Backward
    <2>2. CASE c = t
      <3>1. g[c].prev = b /\ g[b].next = t BY <2>2, <1>1, <1>2, <1>5 DEF IsSplit
      <3> QED BY <2>2, <3>1, <1>4, <1>5, SMTT(30)
    <2>3. CASE c = n /\ c # t
      <3>1. c \in InList(h) /\ c > b BY <2>3, <1>4, <1>6, <1>3, SMTT(30) DEF ListOK, Forward
      <3>2. g[c].prev = t /\ g[t].next = n BY <2>3, <3>1, <1>2, <1>6 DEF IsSplit
      <3> QED BY <2>3, <3>1, <3>2, <1>4, <1>5, <1>6, SMTT(30)
    <2>4. CASE c # n /\ c # t
      <3>1. c \in InList(h) /\ g[c].prev = h[c].prev BY <2>4, <1>4, <1>6 DEF IsSplit
      <3>2. CASE c = 0 BY <3>1, <3>2 DEF ListOK, Backward
      <3>3. CASE c # 0
        <4> DEFINE m == h[c].prev
        <4>1. m \in InList(h) /\ h[m].next = c BY <3>1, <3>3 DEF ListOK, Backward
        <4>2. m # b BY <4>1, <2>4
        <4>3. g[m].next = c BY <4>1, <4>2, <1>6 DEF IsSplit
        <4> QED BY <3>1, <3>3, <4>1, <4>3, <1>4
      <3> QED BY <3>2, <3>3
    <2> QED BY <2>2, <2>3, <2>4
  <1> QED BY <1>1, <1>2, <1>4, <1>10, <1>12, <1>13, <1>14 DEF ListOK

\* So does the tiling.
LEMMA SplitTiles ==
    ASSUME NEW h, NEW g, NEW top \in 0..Limit, ListOK(h, top), NEW b \in InList(h), NEW size \in Nat \ {0},
           NEW t, IsSplit(h, g, b, size, t), Tiled(h, top)
    PROVE Tiled(g, top)
  <1>1. SUFFICES ASSUME NEW c \in InList(g)
                 PROVE EndOf(g, c) = IF g[c].next = Null THEN top ELSE g[c].next
    BY DEF Tiled
  <1>2. c \in Addresses /\ InList(g) = InList(h) \cup {t} /\ b \in Addresses /\ t \in Addresses /\ t # Null
    <2>1. InList(g) = InList(h) \cup {t} BY SplitAdds, SMTT(30)
    <2> QED BY <2>1, HeapAssumption, SMTT(30) DEF InList, IsSplit, Addresses
  <1>3. CASE c = t
    <2>1. g[c].next = h[b].next /\ g[c].size = h[b].size - size - Header BY <1>3, <1>2 DEF IsSplit
    <2>2. EndOf(h, b) = b + Header + h[b].size /\ b \in Nat /\ h[b].size \in Nat /\ Header \in Nat
      BY BlockFacts, HeapAssumption
    <2>3. EndOf(g, c) = EndOf(h, b) BY <1>3, <2>1, <2>2, SMTT(30) DEF EndOf, IsSplit
    <2> QED BY <2>1, <2>3 DEF Tiled
  <1>4. CASE c = b
    <2>1. t = b + Header + size /\ b # t /\ b \in Nat /\ Header \in Nat BY HeapAssumption, BlockFacts DEF IsSplit
    <2>2. g[c].next = t /\ g[c].size = size BY <1>4, <1>2, <2>1 DEF IsSplit
    <2> QED BY <1>2, <1>4, <2>1, <2>2 DEF EndOf
  <1>5. CASE c # b /\ c # t
    <2>1. c \in InList(h) /\ g[c].next = h[c].next /\ g[c].size = h[c].size BY <1>2, <1>5 DEF IsSplit
    <2> QED BY <2>1 DEF Tiled, EndOf
  <1> QED BY <1>3, <1>4, <1>5

\* The header of the tail comes out of the free bytes.
LEMMA SplitFree ==
    ASSUME NEW h, NEW g, NEW top \in 0..Limit, ListOK(h, top), NEW b \in InList(h), NEW size \in Nat \ {0},
           NEW t, IsSplit(h, g, b, size, t), h[b].free
    PROVE FreeBytes(g) = FreeBytes(h) - Header
  <1>1. /\ h \in [Addresses -> HeaderType] /\ g \in [Addresses -> HeaderType] /\ b \in Addresses /\ t \in Addresses
        /\ t # b /\ t \notin InList(h) /\ Addresses \subseteq Nat /\ Header \in Nat
    BY HeapAssumption, SMTT(30) DEF ListOK, IsSplit, InList, Addresses
  <1>2. InList(g) = InList(h) \cup {t} BY SplitAdds, SMTT(30)
  <1>3. ASSUME NEW a \in Addresses \ {b, t} PROVE Weight(g)[a] = Weight(h)[a]
    <2>1. a \in InList(g) <=> a \in InList(h) BY <1>2
    <2>2. g[a].size = h[a].size /\ g[a].free = h[a].free BY <1>1 DEF IsSplit
    <2>3. a \in Nat BY <1>1
    <2> QED BY <2>1, <2>2, <2>3 DEF Weight
  <1>4. Weight(h)[b] = h[b].size /\ Weight(h)[t] = 0 BY <1>1 DEF Weight
  <1>5. Weight(g)[b] = size
    <2>1. g[b].size = size /\ g[b].free = h[b].free BY <1>1 DEF IsSplit
    <2>2. b \in InList(g) /\ b \in Nat BY <1>1, <1>2
    <2> QED BY <2>1, <2>2 DEF Weight
  <1>6. Weight(g)[t] = h[b].size - size - Header
    <2>1. g[t].size = h[b].size - size - Header /\ g[t].free = TRUE BY <1>1 DEF IsSplit
    <2>2. t \in InList(g) /\ t \in Nat BY <1>1, <1>2
    <2> QED BY <2>1, <2>2 DEF Weight
  <1>7. FreeBytes(g) = FreeBytes(h) - Weight(h)[b] + Weight(g)[b] - Weight(h)[t] + Weight(g)[t]
    BY <1>1, <1>3, FreeBytesTwo, SMTT(30)
  <1>8. FreeBytes(h) \in Nat /\ h[b].size \in Nat BY <1>1, FreeBytesType, HeaderTypes
  <1> QED BY <1>1, <1>4, <1>5, <1>6, <1>7, <1>8, SMTT(30)

-----------------------------------------------------------------------------
(* Merging a block with the next.                                          *)

\* g is h with block b and the block n that follows it made one.
IsMerge(h, g, b, n) ==
    /\ n = h[b].next /\ n \in InList(h) /\ n > b /\ n = EndOf(h, b)
    /\ g \in [Addresses -> HeaderType]
    /\ \A a \in Addresses :
          /\ g[a].magic = IF a = n THEN "other" ELSE h[a].magic
          /\ g[a].size = IF a = n THEN 0 ELSE IF a = b THEN h[b].size + Header + h[n].size ELSE h[a].size
          /\ g[a].free = IF a = n THEN FALSE ELSE h[a].free
          /\ g[a].next = IF a = n THEN Null ELSE IF a = b THEN h[n].next ELSE h[a].next
          /\ g[a].prev = IF a = n THEN Null ELSE IF a = h[n].next THEN b ELSE h[a].prev

\* This is what merge_with_next writes where it merges.
LEMMA MergeWrites ==
    ASSUME NEW h, NEW top \in 0..Limit, ListOK(h, top), NEW b \in InList(h), Joins(h, b)
    PROVE IsMerge(h, merge_with_next(h, b), b, h[b].next)
  <1> DEFINE n == h[b].next
             m == h[n].next
             z == h[b].size + Header + h[n].size
             s == [h EXCEPT ![b].size = z, ![b].next = m, ![n] = NoHeader]
             g == merge_with_next(h, b)
  <1>1. h \in [Addresses -> HeaderType] /\ b \in Addresses BY DEF ListOK, InList
  <1>2. n # Null /\ n = b + Header + h[b].size BY DEF Joins
  <1>3. n \in InList(h) /\ n \in Addresses /\ n > b BY <1>2 DEF ListOK, Forward, InList
  <1>4. h[b].size \in Nat /\ h[n].size \in Nat /\ m \in Addresses \cup {Null} /\ b \in Nat /\ n \in Nat
        /\ Header \in Nat
    BY <1>1, <1>3, HeaderTypes, HeapAssumption
  <1>5. z \in Nat BY <1>4, SMTT(30)
  <1>6. m # Null => m \in InList(h) /\ m \in Addresses /\ m > n BY <1>3 DEF ListOK, Forward, InList
  <1>7. NoHeader \in HeaderType BY DEF NoHeader, HeaderType, Magics
  <1>8. g = IF m = Null THEN s ELSE [s EXCEPT ![m].prev = b] BY DEF merge_with_next
  <1>9. n # b BY <1>3, <1>4, SMTT(30)
  <1>10. m # n /\ m # b BY <1>3, <1>4, <1>6, HeapAssumption, SMTT(30)
  <1> HIDE DEF m, z, g
  <1>11. /\ s \in [Addresses -> HeaderType]
         /\ \A a \in Addresses :
               /\ s[a].magic = IF a = n THEN "other" ELSE h[a].magic
               /\ s[a].size = IF a = n THEN 0 ELSE IF a = b THEN z ELSE h[a].size
               /\ s[a].free = IF a = n THEN FALSE ELSE h[a].free
               /\ s[a].next = IF a = n THEN Null ELSE IF a = b THEN m ELSE h[a].next
               /\ s[a].prev = IF a = n THEN Null ELSE h[a].prev
    <2> HIDE DEF n
    <2> USE <1>1, <1>3, <1>4, <1>5, <1>7, <1>9 DEF HeaderType
    <2>1. NoHeader.magic = "other" /\ NoHeader.size = 0 /\ NoHeader.free = FALSE
          /\ NoHeader.next = Null /\ NoHeader.prev = Null
      BY DEF NoHeader
    <2>2. s \in [Addresses -> HeaderType] OBVIOUS
    <2>3. ASSUME NEW a \in Addresses PROVE s[a].magic = IF a = n THEN "other" ELSE h[a].magic BY <2>1
    <2>4. ASSUME NEW a \in Addresses PROVE s[a].size = IF a = n THEN 0 ELSE IF a = b THEN z ELSE h[a].size BY <2>1
    <2>5. ASSUME NEW a \in Addresses PROVE s[a].free = IF a = n THEN FALSE ELSE h[a].free BY <2>1
    <2>6. ASSUME NEW a \in Addresses PROVE s[a].next = IF a = n THEN Null ELSE IF a = b THEN m ELSE h[a].next BY <2>1
    <2>7. ASSUME NEW a \in Addresses PROVE s[a].prev = IF a = n THEN Null ELSE h[a].prev BY <2>1
    <2> HIDE DEF s
    <2> QED BY <2>2, <2>3, <2>4, <2>5, <2>6, <2>7
  <1> HIDE DEF s
  <1>12. /\ g \in [Addresses -> HeaderType]
         /\ \A a \in Addresses :
               /\ g[a].magic = s[a].magic /\ g[a].size = s[a].size /\ g[a].free = s[a].free /\ g[a].next = s[a].next
               /\ g[a].prev = IF a = m THEN b ELSE s[a].prev
    <2>1. CASE m = Null
      <3>1. Null \notin Addresses BY HeapAssumption, SMTT(30) DEF Addresses
      <3> QED BY <1>8, <1>11, <2>1, <3>1
    <2>2. CASE m # Null BY <1>1, <1>6, <1>8, <1>11, <2>2, SMTT(30) DEF HeaderType
    <2> QED BY <2>1, <2>2
  <1>13. ASSUME NEW a \in Addresses
         PROVE /\ g[a].magic = IF a = n THEN "other" ELSE h[a].magic
               /\ g[a].size = IF a = n THEN 0 ELSE IF a = b THEN z ELSE h[a].size
               /\ g[a].free = IF a = n THEN FALSE ELSE h[a].free
               /\ g[a].next = IF a = n THEN Null ELSE IF a = b THEN m ELSE h[a].next
               /\ g[a].prev = IF a = n THEN Null ELSE IF a = m THEN b ELSE h[a].prev
    <2> HIDE DEF n
    <2>1. g[a].free = IF a = n THEN FALSE ELSE h[a].free
      <3>1. g[a].free = s[a].free BY <1>12
      <3>2. s[a].free = IF a = n THEN FALSE ELSE h[a].free BY <1>11
      <3> QED BY <3>1, <3>2
    <2>2. g[a].prev = IF a = n THEN Null ELSE IF a = m THEN b ELSE h[a].prev
      <3>1. CASE a = m BY <1>10, <1>12, <3>1
      <3>2. CASE a # m BY <1>11, <1>12, <3>2
      <3> QED BY <3>1, <3>2
    <2>3. g[a].magic = s[a].magic /\ g[a].size = s[a].size /\ g[a].next = s[a].next BY <1>12
    <2>4. s[a].magic = IF a = n THEN "other" ELSE h[a].magic BY <1>11
    <2>5. s[a].size = IF a = n THEN 0 ELSE IF a = b THEN z ELSE h[a].size BY <1>11
    <2>6. s[a].next = IF a = n THEN Null ELSE IF a = b THEN m ELSE h[a].next BY <1>11
    <2> QED BY <2>1, <2>2, <2>3, <2>4, <2>5, <2>6
  <1>14. n = EndOf(h, b) BY <1>2 DEF EndOf
  <1>15. IsMerge(h, g, b, n)
    <2> USE DEF z, m
    <2> QED BY <1>3, <1>12, <1>13, <1>14 DEF IsMerge
  <1> QED BY <1>15 DEF g

\* The list has one block less.
LEMMA MergeRemoves ==
    ASSUME NEW h, NEW g, NEW b, NEW n, IsMerge(h, g, b, n)
    PROVE InList(g) = InList(h) \ {n}
  <1>1. \A a \in Addresses : a \in InList(g) <=> a # n /\ a \in InList(h) BY DEF InList, IsMerge
  <1>2. InList(g) \subseteq Addresses /\ InList(h) \subseteq Addresses BY DEF InList
  <1> QED BY <1>1, <1>2

\* The list stays in order.
LEMMA MergeKeeps ==
    ASSUME NEW h, NEW g, NEW top \in 0..Limit, ListOK(h, top), NEW b \in InList(h), NEW n, IsMerge(h, g, b, n)
    PROVE ListOK(g, top)
  <1> DEFINE m == h[n].next
  <1>1. n = h[b].next /\ n \in InList(h) /\ n > b /\ n = EndOf(h, b) /\ g \in [Addresses -> HeaderType]
    BY DEF IsMerge
  <1>2. ASSUME NEW a \in InList(h)
        PROVE /\ a \in Addresses /\ a \in Nat /\ a # Null /\ h[a].size \in Nat \ {0}
              /\ EndOf(h, a) = a + Header + h[a].size /\ EndOf(h, a) \in Nat /\ EndOf(h, a) <= top /\ a < EndOf(h, a)
    BY BlockFacts
  <1>3. InList(g) = InList(h) \ {n} BY MergeRemoves
  <1>4. b \in InList(g) /\ b \in Nat /\ n \in Nat /\ b # n BY <1>1, <1>2, <1>3, SMTT(30)
  <1>5. \A a \in InList(g) :
           /\ g[a].size = IF a = b THEN h[b].size + Header + h[n].size ELSE h[a].size
           /\ g[a].next = IF a = b THEN m ELSE h[a].next
           /\ g[a].prev = IF a = m THEN b ELSE h[a].prev
    BY <1>2, <1>3 DEF IsMerge
  <1>6. \A a \in InList(g) : EndOf(g, a) = IF a = b THEN EndOf(h, n) ELSE EndOf(h, a)
    <2>1. Header \in Nat BY HeapAssumption
    <2>2. h[b].size \in Nat /\ h[n].size \in Nat /\ EndOf(h, n) = n + Header + h[n].size /\ n = b + Header + h[b].size
      BY <1>1, <1>2
    <2>3. EndOf(g, b) = EndOf(h, n)
      <3>1. g[b].size = h[b].size + Header + h[n].size BY <1>4, <1>5
      <3> QED BY <2>1, <2>2, <3>1, <1>4, SMTT(30) DEF EndOf
    <2> QED BY <2>3, <1>5 DEF EndOf
  <1>7. 0 \in InList(g)
    <2>1. 0 \in InList(h) BY DEF ListOK
    <2> QED BY <2>1, <1>1, <1>3, <1>4, SMTT(30)
  <1>8. Sized(g, top)
    <2>1. ASSUME NEW a \in InList(g) PROVE g[a].size >= 1 /\ EndOf(g, a) <= top
      <3>1. a \in InList(h) /\ h[b].size \in Nat \ {0} /\ h[a].size \in Nat \ {0} /\ h[n].size \in Nat \ {0}
            /\ Header \in Nat /\ EndOf(h, a) <= top /\ EndOf(h, n) <= top
        BY <1>1, <1>2, <1>3, HeapAssumption
      <3> QED BY <3>1, <1>5, <1>6, SMTT(30)
    <2> QED BY <2>1 DEF Sized
  <1>9. /\ \A c \in InList(h) : c <= b \/ c >= n
        /\ \A c, d \in InList(h) : c < d => EndOf(h, c) <= d
        /\ h[n].prev = b
    BY <1>1, <1>2 DEF ListOK, Apart, Forward
  <1>10. Apart(g)
    <2>1. SUFFICES ASSUME NEW c \in InList(g), NEW d \in InList(g), c < d PROVE EndOf(g, c) <= d BY DEF Apart
    <2>2. c \in InList(h) /\ d \in InList(h) /\ d # n /\ c \in Nat /\ d \in Nat BY <1>2, <1>3
    <2>3. CASE c = b
      <3>1. d > n BY <2>1, <2>2, <2>3, <1>4, <1>9, SMTT(30)
      <3>2. EndOf(h, n) <= d BY <3>1, <2>2, <1>1, <1>4, <1>9
      <3> QED BY <2>3, <3>2, <1>6
    <2>4. CASE c # b BY <2>1, <2>2, <2>4, <1>6, <1>9
    <2> QED BY <2>3, <2>4
  <1>11. m = Null => \A c \in InList(h) : c <= n BY <1>1 DEF ListOK, Forward
  <1>12. m # Null => m \in InList(h) /\ m > n /\ h[m].prev = n /\ \A c \in InList(h) : c <= n \/ c >= m
    BY <1>1 DEF ListOK, Forward
  <1> HIDE DEF m
  <1>13. Forward(g)
    <2>1. SUFFICES ASSUME NEW c \in InList(g)
                   PROVE IF g[c].next = Null THEN \A d \in InList(g) : d <= c
                         ELSE /\ g[c].next \in InList(g) /\ g[c].next > c /\ g[g[c].next].prev = c
                              /\ \A d \in InList(g) : d <= c \/ d >= g[c].next
      BY DEF Forward
    <2>2. ASSUME NEW d \in InList(g) PROVE d \in InList(h) /\ d # n /\ d \in Nat BY <1>2, <1>3
    <2>3. CASE c = b
      <3>1. g[c].next = m BY <2>3, <1>5
      <3>2. CASE m = Null BY <2>2, <2>3, <3>1, <3>2, <1>4, <1>9, <1>11, SMTT(30)
      <3>3. CASE m # Null
        <4>1. m \in InList(g) /\ m \in Nat /\ m > n
          <5>1. m \in InList(h) /\ m > n BY <3>3, <1>12
          <5>2. m \in Nat BY <5>1, <1>2
          <5> QED BY <5>1, <5>2, <1>3, <1>4, SMTT(30)
        <4>2. g[m].prev = b BY <4>1, <1>5
        <4>3. ASSUME NEW d \in InList(g) PROVE d <= b \/ d >= m
          <5>1. d <= b \/ d >= n BY <2>2, <1>9
          <5>2. d <= n \/ d >= m BY <2>2, <3>3, <1>12
          <5> QED BY <5>1, <5>2, <2>2, <1>4, SMTT(30)
        <4> QED BY <2>3, <3>1, <3>3, <4>1, <4>2, <4>3, <1>1, <1>4, SMTT(30)
      <3> QED BY <3>2, <3>3
    <2>4. CASE c # b
      <3> DEFINE k == h[c].next
      <3>1. g[c].next = k /\ c \in InList(h) BY <2>2, <2>4, <1>5
      <3>2. CASE k = Null
        <4>1. \A d \in InList(h) : d <= c BY <3>1, <3>2 DEF ListOK, Forward
        <4> QED BY <3>1, <3>2, <4>1, <1>3
      <3>3. CASE k # Null
        <4>1. k \in InList(h) /\ k > c /\ h[k].prev = c /\ \A d \in InList(h) : d <= c \/ d >= k
          BY <3>1, <3>3 DEF ListOK, Forward
        <4> HIDE DEF k
        <4>2. k # n BY <4>1, <2>4, <1>9
        <4>3. k # m
          <5>1. CASE k = m
            <6>1. h[m].prev = n BY <5>1, <3>3, <1>12
            <6> QED BY <5>1, <6>1, <4>1, <2>2
          <5> QED BY <5>1
        <4>4. k \in InList(g) BY <4>1, <4>2, <1>3
        <4>5. g[k].prev = c BY <4>1, <4>3, <4>4, <1>5
        <4> QED BY <3>1, <3>3, <4>1, <4>4, <4>5, <1>3
      <3> QED BY <3>2, <3>3
    <2> QED BY <2>3, <2>4
  <1>14. Backward(g)
    <2>1. SUFFICES ASSUME NEW c \in InList(g)
                   PROVE IF c = 0 THEN g[c].prev = Null
                         ELSE g[c].prev \in InList(g) /\ g[g[c].prev].next = c
      BY DEF Backward
    <2>2. c \in InList(h) /\ c # n /\ c \in Nat /\ c # Null BY <1>2, <1>3
    <2>3. CASE c = m
      <3>1. c > n BY <2>2, <2>3, <1>12
      <3>2. g[c].prev = b /\ g[b].next = m BY <2>3, <1>4, <1>5
      <3> QED BY <2>2, <2>3, <3>1, <3>2, <1>4, SMTT(30)
    <2>4. CASE c # m
      <3>1. g[c].prev = h[c].prev BY <2>4, <1>5
      <3>2. CASE c = 0 BY <2>2, <3>1, <3>2 DEF ListOK, Backward
      <3>3. CASE c # 0
        <4> DEFINE k == h[c].prev
        <4>1. k \in InList(h) /\ h[k].next = c BY <2>2, <3>3 DEF ListOK, Backward
        <4> HIDE DEF k
        <4>2. k # n BY <4>1, <2>4 DEF m
        <4>3. k # b BY <4>1, <2>2, <1>1
        <4>4. k \in InList(g) /\ g[k].next = c BY <4>1, <4>2, <4>3, <1>3, <1>5
        <4> QED BY <3>1, <3>3, <4>4 DEF k
      <3> QED BY <3>2, <3>3
    <2> QED BY <2>3, <2>4
  <1> QED BY <1>1, <1>7, <1>8, <1>10, <1>13, <1>14 DEF ListOK

\* So does the tiling.
LEMMA MergeTiles ==
    ASSUME NEW h, NEW g, NEW top \in 0..Limit, ListOK(h, top), NEW b \in InList(h), NEW n, IsMerge(h, g, b, n),
           Tiled(h, top)
    PROVE Tiled(g, top)
  <1>1. SUFFICES ASSUME NEW c \in InList(g)
                 PROVE EndOf(g, c) = IF g[c].next = Null THEN top ELSE g[c].next
    BY DEF Tiled
  <1>2. InList(g) = InList(h) \ {n} BY MergeRemoves
  <1>3. c \in InList(h) /\ c # n /\ c \in Addresses BY <1>2 DEF InList
  <1>4. n \in InList(h) /\ n = EndOf(h, b) BY DEF IsMerge
  <1>5. CASE c = b
    <2>1. /\ EndOf(h, b) = b + Header + h[b].size /\ b \in Nat /\ h[b].size \in Nat /\ Header \in Nat
      BY BlockFacts, HeapAssumption
    <2>2. EndOf(h, n) = n + Header + h[n].size /\ n \in Nat /\ h[n].size \in Nat
      BY <1>4, BlockFacts
    <2>3. g[c].size = h[b].size + Header + h[n].size /\ g[c].next = h[n].next BY <1>3, <1>5 DEF IsMerge
    <2>4. EndOf(g, c) = EndOf(h, n) BY <1>4, <1>5, <2>1, <2>2, <2>3, SMTT(30) DEF EndOf
    <2> QED BY <1>4, <2>3, <2>4 DEF Tiled
  <1>6. CASE c # b
    <2>1. g[c].next = h[c].next /\ g[c].size = h[c].size BY <1>3, <1>6 DEF IsMerge
    <2> QED BY <1>3, <2>1 DEF Tiled, EndOf
  <1> QED BY <1>5, <1>6

\* The header merged away becomes free.
LEMMA MergeFree ==
    ASSUME NEW h, NEW g, NEW top \in 0..Limit, ListOK(h, top), NEW b \in InList(h), NEW n, IsMerge(h, g, b, n),
           h[b].free, h[n].free
    PROVE FreeBytes(g) = FreeBytes(h) + Header
  <1>1. /\ h \in [Addresses -> HeaderType] /\ g \in [Addresses -> HeaderType] /\ b \in Addresses /\ n \in Addresses
        /\ n \in InList(h) /\ n > b /\ Addresses \subseteq Nat /\ Header \in Nat
    BY HeapAssumption, SMTT(30) DEF ListOK, IsMerge, InList, Addresses
  <1>2. b # n /\ b \in Nat /\ n \in Nat BY <1>1, SMTT(30)
  <1>3. InList(g) = InList(h) \ {n} BY MergeRemoves
  <1>4. ASSUME NEW a \in Addresses \ {b, n} PROVE Weight(g)[a] = Weight(h)[a]
    <2>1. a \in InList(g) <=> a \in InList(h) BY <1>3
    <2>2. g[a].size = h[a].size /\ g[a].free = h[a].free BY <1>1 DEF IsMerge
    <2>3. a \in Nat BY <1>1
    <2> QED BY <2>1, <2>2, <2>3 DEF Weight
  <1>5. Weight(h)[b] = h[b].size /\ Weight(h)[n] = h[n].size BY <1>1, <1>2 DEF Weight
  <1>6. Weight(g)[n] = 0 BY <1>2, <1>3 DEF Weight
  <1>7. Weight(g)[b] = h[b].size + Header + h[n].size
    <2>1. g[b].size = h[b].size + Header + h[n].size /\ g[b].free = h[b].free BY <1>1, <1>2 DEF IsMerge
    <2>2. b \in InList(g) BY <1>2, <1>3
    <2> QED BY <2>1, <2>2, <1>2 DEF Weight
  <1>8. FreeBytes(g) = FreeBytes(h) - Weight(h)[b] + Weight(g)[b] - Weight(h)[n] + Weight(g)[n]
    BY <1>1, <1>2, <1>4, FreeBytesTwo
  <1>9. FreeBytes(h) \in Nat /\ h[b].size \in Nat /\ h[n].size \in Nat BY <1>1, FreeBytesType, HeaderTypes
  <1> QED BY <1>1, <1>5, <1>6, <1>7, <1>8, <1>9, SMTT(30)

-----------------------------------------------------------------------------
(* Marking a block, and a new block at the end.                            *)

\* g is h with block b marked free or taken.
IsMarked(h, g, b, free) ==
    /\ g \in [Addresses -> HeaderType]
    /\ \A a \in Addresses :
          /\ g[a].magic = h[a].magic /\ g[a].size = h[a].size /\ g[a].next = h[a].next /\ g[a].prev = h[a].prev
          /\ g[a].free = IF a = b THEN free ELSE h[a].free

\* What setting the free flag of a block writes.
LEMMA MarkWrites ==
    ASSUME NEW h \in [Addresses -> HeaderType], NEW b \in Addresses, NEW free \in BOOLEAN
    PROVE IsMarked(h, [h EXCEPT ![b].free = free], b, free)
  <1> DEFINE g == [h EXCEPT ![b].free = free]
  <1> USE DEF HeaderType
  <1>1. g \in [Addresses -> HeaderType] OBVIOUS
  <1>2. ASSUME NEW a \in Addresses
        PROVE /\ g[a].magic = h[a].magic /\ g[a].size = h[a].size /\ g[a].next = h[a].next /\ g[a].prev = h[a].prev
    OBVIOUS
  <1>3. ASSUME NEW a \in Addresses PROVE g[a].free = IF a = b THEN free ELSE h[a].free OBVIOUS
  <1> HIDE DEF g
  <1>4. IsMarked(h, g, b, free) BY <1>1, <1>2, <1>3 DEF IsMarked
  <1> QED BY <1>4 DEF g

\* The list is the same.
LEMMA MarkKeeps ==
    ASSUME NEW h, NEW g, NEW top, ListOK(h, top), NEW b, NEW free, IsMarked(h, g, b, free)
    PROVE ListOK(g, top) /\ InList(g) = InList(h) /\ (Tiled(h, top) => Tiled(g, top))
  <1>1. InList(g) = InList(h) BY DEF InList, IsMarked
  <1>2. \A a \in InList(h) :
           a \in Addresses /\ g[a].size = h[a].size /\ g[a].next = h[a].next /\ g[a].prev = h[a].prev
    BY DEF InList, IsMarked
  <1>3. \A a \in InList(h) : EndOf(g, a) = EndOf(h, a) BY <1>2 DEF EndOf
  <1>4. g \in [Addresses -> HeaderType] /\ 0 \in InList(g) BY <1>1 DEF ListOK, IsMarked
  <1>5. Sized(g, top) BY <1>1, <1>2, <1>3 DEF ListOK, Sized
  <1>6. Apart(g) BY <1>1, <1>2, <1>3 DEF ListOK, Apart
  <1>7. Forward(g) BY <1>1, <1>2, SMTT(30) DEF ListOK, Forward
  <1>8. Backward(g) BY <1>1, <1>2, SMTT(30) DEF ListOK, Backward
  <1>9. Tiled(h, top) => Tiled(g, top) BY <1>1, <1>2, <1>3 DEF Tiled
  <1> QED BY <1>1, <1>4, <1>5, <1>6, <1>7, <1>8, <1>9 DEF ListOK

\* A block taken is no longer counted; a block freed is.
LEMMA MarkFree ==
    ASSUME NEW h, NEW g, NEW top, ListOK(h, top), NEW b \in InList(h), NEW free \in BOOLEAN,
           IsMarked(h, g, b, free), h[b].free # free
    PROVE FreeBytes(g) = IF free THEN FreeBytes(h) + h[b].size ELSE FreeBytes(h) - h[b].size
  <1>1. /\ h \in [Addresses -> HeaderType] /\ g \in [Addresses -> HeaderType] /\ b \in Addresses
        /\ Addresses \subseteq Nat
    BY HeapAssumption, SMTT(30) DEF ListOK, IsMarked, InList, Addresses
  <1>2. InList(g) = InList(h) BY DEF InList, IsMarked
  <1>3. ASSUME NEW a \in Addresses \ {b} PROVE Weight(g)[a] = Weight(h)[a]
    <2>1. g[a].size = h[a].size /\ g[a].free = h[a].free BY DEF IsMarked
    <2>2. a \in Nat BY <1>1
    <2> QED BY <2>1, <2>2, <1>2 DEF Weight
  <1>4. FreeBytes(g) = FreeBytes(h) - Weight(h)[b] + Weight(g)[b] BY <1>1, <1>3, FreeBytesOne
  <1>5. FreeBytes(h) \in Nat /\ h[b].size \in Nat /\ h[b].free \in BOOLEAN BY <1>1, FreeBytesType, HeaderTypes
  <1>6. g[b].size = h[b].size /\ g[b].free = free BY <1>1 DEF IsMarked
  <1>7. Weight(h)[b] = IF h[b].free THEN h[b].size ELSE 0 BY <1>1 DEF Weight
  <1>8. Weight(g)[b] = IF free THEN h[b].size ELSE 0
    <2>1. Weight(g)[b] = IF g[b].free THEN g[b].size ELSE 0 BY <1>1, <1>2 DEF Weight
    <2> QED BY <2>1, <1>6
  <1>9. CASE free
    <2>1. ~h[b].free BY <1>9, <1>5
    <2> QED BY <1>9, <2>1, <1>4, <1>5, <1>7, <1>8, SMTT(30)
  <1>10. CASE ~free
    <2>1. h[b].free BY <1>10, <1>5
    <2> QED BY <1>10, <2>1, <1>4, <1>5, <1>7, <1>8, SMTT(30)
  <1> QED BY <1>9, <1>10

\* g is h with a free block put at top, after the last one.
IsGrown(h, g, top, last, room) ==
    /\ g \in [Addresses -> HeaderType]
    /\ \A a \in Addresses :
          /\ g[a].magic = IF a = top THEN "HEAP_MAGIC" ELSE h[a].magic
          /\ g[a].size = IF a = top THEN room ELSE h[a].size
          /\ g[a].free = IF a = top THEN TRUE ELSE h[a].free
          /\ g[a].next = IF a = top THEN Null ELSE IF a = last THEN top ELSE h[a].next
          /\ g[a].prev = IF a = top THEN last ELSE h[a].prev

\* What appending a block at the top writes.
LEMMA GrowWrites ==
    ASSUME NEW h \in [Addresses -> HeaderType], NEW top \in Addresses, NEW last \in Addresses, top # last,
           NEW room \in Nat
    PROVE IsGrown(h, [h EXCEPT ![top] = [magic |-> "HEAP_MAGIC", size |-> room, free |-> TRUE,
                                         next |-> Null, prev |-> last],
                               ![last].next = top], top, last, room)
  <1> DEFINE r == [magic |-> "HEAP_MAGIC", size |-> room, free |-> TRUE, next |-> Null, prev |-> last]
             g == [h EXCEPT ![top] = r, ![last].next = top]
  <1>1. r \in HeaderType BY DEF HeaderType, Magics
  <1>2. r.magic = "HEAP_MAGIC" /\ r.size = room /\ r.free = TRUE /\ r.next = Null /\ r.prev = last OBVIOUS
  <1> HIDE DEF r
  <1> USE <1>1, <1>2 DEF HeaderType
  <1>3. g \in [Addresses -> HeaderType] BY SMTT(30)
  <1>4. ASSUME NEW a \in Addresses PROVE g[a].magic = IF a = top THEN "HEAP_MAGIC" ELSE h[a].magic BY SMTT(30)
  <1>5. ASSUME NEW a \in Addresses PROVE g[a].size = IF a = top THEN room ELSE h[a].size BY SMTT(30)
  <1>6. ASSUME NEW a \in Addresses PROVE g[a].free = IF a = top THEN TRUE ELSE h[a].free
    <2>1. g[a].free = IF a = top THEN r.free ELSE h[a].free BY SMTT(30)
    <2> HIDE DEF g
    <2> QED BY <2>1
  <1>7. ASSUME NEW a \in Addresses
        PROVE g[a].next = IF a = top THEN Null ELSE IF a = last THEN top ELSE h[a].next
    BY SMTT(30)
  <1>8. ASSUME NEW a \in Addresses PROVE g[a].prev = IF a = top THEN last ELSE h[a].prev BY SMTT(30)
  <1> HIDE DEF g
  <1>9. IsGrown(h, g, top, last, room) BY <1>3, <1>4, <1>5, <1>6, <1>7, <1>8 DEF IsGrown
  <1> QED BY <1>9 DEF g, r

\* The list stays in order, and the new block is counted.
LEMMA GrowKeeps ==
    ASSUME NEW h, NEW g, NEW top \in Addresses, ListOK(h, top), NEW last \in InList(h), h[last].next = Null,
           NEW room \in Nat \ {0}, top + Header + room <= Limit, IsGrown(h, g, top, last, room)
    PROVE /\ ListOK(g, top + Header + room) /\ InList(g) = InList(h) \cup {top} /\ top \notin InList(h)
          /\ (Tiled(h, top) => Tiled(g, top + Header + room))
          /\ FreeBytes(g) = FreeBytes(h) + room
  <1> DEFINE end == top + Header + room
  <1>1. /\ Header \in Nat \ {0} /\ Limit \in Nat /\ Null \notin Nat /\ Addresses \subseteq Nat /\ top \in 0..Limit
        /\ top \in Nat /\ end \in 0..Limit /\ h \in [Addresses -> HeaderType] /\ g \in [Addresses -> HeaderType]
    BY HeapAssumption, SMTT(30) DEF Addresses, ListOK, IsGrown
  <1>2. ASSUME NEW a \in InList(h)
        PROVE /\ a \in Addresses /\ a \in Nat /\ a # Null /\ h[a].size \in Nat \ {0}
              /\ EndOf(h, a) \in Nat /\ EndOf(h, a) <= top /\ a < EndOf(h, a) /\ a < top /\ a # top
              /\ h[a].prev \in Addresses \cup {Null} /\ h[a].next \in Addresses \cup {Null}
    <2>1. /\ a \in Addresses /\ a \in Nat /\ a # Null /\ h[a].size \in Nat \ {0}
          /\ EndOf(h, a) \in Nat /\ EndOf(h, a) <= top /\ a < EndOf(h, a)
          /\ h[a].prev \in Addresses \cup {Null} /\ h[a].next \in Addresses \cup {Null}
      BY <1>1, BlockFacts
    <2> QED BY <2>1, <1>1, SMTT(30)
  <1>3. InList(g) = InList(h) \cup {top}
    <2>1. \A a \in Addresses : a \in InList(g) <=> a = top \/ a \in InList(h) BY DEF InList, IsGrown
    <2>2. InList(g) \subseteq Addresses /\ InList(h) \subseteq Addresses BY DEF InList
    <2> QED BY <2>1, <2>2
  <1>4. \A a \in InList(h) :
           /\ g[a].size = h[a].size /\ g[a].prev = h[a].prev /\ g[a].free = h[a].free
           /\ g[a].next = IF a = last THEN top ELSE h[a].next
    BY <1>2 DEF IsGrown
  <1>5. g[top].size = room /\ g[top].next = Null /\ g[top].prev = last /\ g[top].free = TRUE BY DEF IsGrown
  <1>6. \A a \in InList(h) : EndOf(g, a) = EndOf(h, a) BY <1>4 DEF EndOf
  <1>7. EndOf(g, top) = end BY <1>5 DEF EndOf
  <1>8. Sized(g, end)
    <2>1. ASSUME NEW a \in InList(h) PROVE g[a].size >= 1 /\ EndOf(g, a) <= end
      <3>1. h[a].size \in Nat \ {0} /\ EndOf(h, a) \in Nat /\ EndOf(h, a) <= top BY <1>2
      <3> QED BY <3>1, <1>1, <1>4, <1>6, SMTT(30)
    <2> QED BY <2>1, <1>1, <1>3, <1>5, <1>7, SMTT(30) DEF Sized
  <1>9. Apart(g)
    <2>1. SUFFICES ASSUME NEW c \in InList(g), NEW d \in InList(g), c < d PROVE EndOf(g, c) <= d BY DEF Apart
    <2>2. CASE c = top
      <3>1. d <= top BY <1>1, <1>2, <1>3, SMTT(30)
      <3>2. d \in Nat BY <1>1, <1>2, <1>3
      <3> QED BY <3>1, <3>2, <2>1, <2>2, <1>1, SMTT(30)
    <2>3. CASE c # top
      <3>1. c \in InList(h) BY <2>3, <1>3
      <3>2. CASE d = top BY <3>1, <3>2, <1>2, <1>6
      <3>3. CASE d # top
        <4>1. EndOf(h, c) <= d BY <2>1, <3>1, <3>3, <1>3 DEF ListOK, Apart
        <4> QED BY <3>1, <4>1, <1>6
      <3> QED BY <3>2, <3>3
    <2> QED BY <2>2, <2>3
  <1>10. \A c \in InList(h) : c <= last BY DEF ListOK, Forward
  <1>11. Forward(g)
    <2>1. SUFFICES ASSUME NEW c \in InList(g)
                   PROVE IF g[c].next = Null THEN \A d \in InList(g) : d <= c
                         ELSE /\ g[c].next \in InList(g) /\ g[c].next > c /\ g[g[c].next].prev = c
                              /\ \A d \in InList(g) : d <= c \/ d >= g[c].next
      BY DEF Forward
    <2>2. CASE c = top
      <3>1. \A d \in InList(g) : d <= top BY <1>1, <1>2, <1>3, SMTT(30)
      <3> QED BY <2>2, <3>1, <1>5
    <2>3. CASE c = last
      <3>1. g[c].next = top /\ top > last /\ top # Null BY <2>3, <1>1, <1>2, <1>4
      <3>2. \A d \in InList(g) : d <= c \/ d >= top BY <2>3, <1>1, <1>3, <1>10, SMTT(30)
      <3> QED BY <2>3, <3>1, <3>2, <1>3, <1>5
    <2>4. CASE c # top /\ c # last
      <3>1. c \in InList(h) /\ g[c].next = h[c].next BY <2>4, <1>3, <1>4
      <3>2. h[c].next # Null
        <4>1. CASE h[c].next = Null
          <5>1. last <= c BY <3>1, <4>1 DEF ListOK, Forward
          <5>2. c <= last /\ c \in Nat /\ last \in Nat BY <3>1, <1>2, <1>10
          <5> QED BY <5>1, <5>2, <2>4, SMTT(30)
        <4> QED BY <4>1
      <3> DEFINE k == h[c].next
      <3>3. k \in InList(h) /\ k > c /\ h[k].prev = c /\ \A d \in InList(h) : d <= c \/ d >= k
        BY <3>1, <3>2 DEF ListOK, Forward
      <3>4. k \in Nat /\ k < top BY <3>3, <1>2
      <3>5. top >= k BY <3>4, <1>1, SMTT(30)
      <3> HIDE DEF k
      <3>6. k \in InList(g) /\ g[k].prev = c BY <3>3, <1>3, <1>4
      <3>7. \A d \in InList(g) : d <= c \/ d >= k BY <3>3, <3>5, <1>3
      <3> QED BY <3>1, <3>2, <3>3, <3>6, <3>7 DEF k
    <2> QED BY <2>2, <2>3, <2>4
  <1>12. Backward(g)
    <2>1. SUFFICES ASSUME NEW c \in InList(g)
                   PROVE IF c = 0 THEN g[c].prev = Null
                         ELSE g[c].prev \in InList(g) /\ g[g[c].prev].next = c
      BY DEF Backward
    <2>2. CASE c = top
      <3>1. top # 0 BY <1>1, <1>2, SMTT(30)
      <3>2. g[last].next = top BY <1>4
      <3> QED BY <2>2, <3>1, <3>2, <1>3, <1>5
    <2>3. CASE c # top
      <3>1. c \in InList(h) /\ g[c].prev = h[c].prev BY <2>3, <1>3, <1>4
      <3>2. CASE c = 0 BY <3>1, <3>2 DEF ListOK, Backward
      <3>3. CASE c # 0
        <4> DEFINE k == h[c].prev
        <4>1. k \in InList(h) /\ h[k].next = c BY <3>1, <3>3 DEF ListOK, Backward
        <4> HIDE DEF k
        <4>2. c # Null BY <3>1, <1>2
        <4>3. k # last BY <4>1, <4>2
        <4>4. k \in InList(g) /\ g[k].next = c BY <4>1, <4>3, <1>3, <1>4
        <4> QED BY <3>1, <3>3, <4>4 DEF k
      <3> QED BY <3>2, <3>3
    <2> QED BY <2>2, <2>3
  <1>13. ListOK(g, end)
    <2>1. 0 \in InList(g) BY <1>3 DEF ListOK
    <2> QED BY <2>1, <1>1, <1>8, <1>9, <1>11, <1>12 DEF ListOK
  <1>14. ASSUME Tiled(h, top) PROVE Tiled(g, end)
    <2>1. SUFFICES ASSUME NEW c \in InList(g)
                   PROVE EndOf(g, c) = IF g[c].next = Null THEN end ELSE g[c].next
      BY DEF Tiled
    <2>2. CASE c = top BY <2>2, <1>5, <1>7
    <2>3. CASE c # top
      <3>1. c \in InList(h) BY <2>3, <1>3
      <3>2. EndOf(h, c) = IF h[c].next = Null THEN top ELSE h[c].next BY <3>1, <1>14 DEF Tiled
      <3>3. h[c].next = Null => c = last
        <4>1. CASE h[c].next = Null
          <5>1. last <= c BY <3>1, <4>1 DEF ListOK, Forward
          <5>2. c <= last /\ c \in Nat /\ last \in Nat BY <3>1, <1>2, <1>10
          <5> QED BY <5>1, <5>2, SMTT(30)
        <4> QED BY <4>1
      <3>4. top # Null BY <1>1
      <3> QED BY <3>1, <3>2, <3>3, <3>4, <1>4, <1>6
    <2> QED BY <2>2, <2>3
  <1>15. FreeBytes(g) = FreeBytes(h) + room
    <2>1. ASSUME NEW a \in Addresses \ {top} PROVE Weight(g)[a] = Weight(h)[a]
      <3>1. a \in InList(g) <=> a \in InList(h) BY <1>3
      <3>2. a \in Nat BY <1>1
      <3> QED BY <3>1, <3>2, <1>4 DEF Weight
    <2>2. FreeBytes(g) = FreeBytes(h) - Weight(h)[top] + Weight(g)[top] BY <1>1, <2>1, FreeBytesOne, SMTT(30)
    <2>3. Weight(h)[top] = 0 BY <1>1, <1>2 DEF Weight
    <2>4. Weight(g)[top] = room BY <1>1, <1>3, <1>5 DEF Weight
    <2>5. FreeBytes(h) \in Nat BY <1>1, FreeBytesType
    <2> QED BY <2>2, <2>3, <2>4, <2>5, SMTT(30)
  <1> QED BY <1>2, <1>3, <1>13, <1>14, <1>15

-----------------------------------------------------------------------------
(* The invariant.                                                          *)

\* No two neighbours are free, but for those of which the second is block x.
NoTwoFree(h, x) ==
    \A b \in InList(h) : h[b].free /\ h[b].next # Null /\ h[b].next # x => ~h[h[b].next].free

\* The allocations in use are the blocks that are not free.
LiveOK(h, l) ==
    /\ \A p \in DOMAIN l :
          /\ p \in Addresses /\ l[p] \in Requests
          /\ p - Header \in InList(h) /\ ~h[p - Header].free /\ l[p] <= h[p - Header].size
    /\ \A b \in InList(h) : ~h[b].free => b + Header \in DOMAIN l

\* The list is in order, its taken blocks are the allocations in use, its free
\* bytes are counted; and while no growth has failed half-way it fills the
\* mapped memory, with no two free neighbours.
IInv ==
    /\ heap_mapped \in 0..Limit /\ exhausted \in BOOLEAN
    /\ ListOK(headers, heap_mapped)
    /\ LiveOK(headers, live)
    /\ heap_free = FreeBytes(headers)
    /\ ~exhausted => Tiled(headers, heap_mapped) /\ NoTwoFree(headers, Null)

\* Handing out a block: g is what Take leaves of h.
LEMMA TakeKeeps ==
    ASSUME NEW h, NEW top \in 0..Limit, ListOK(h, top), NEW b \in InList(h), h[b].free,
           NEW size \in Requests, h[b].size >= align_up(size, Align),
           LiveOK(h, live), Take(h, FreeBytes(h), b, size)
    PROVE /\ ListOK(headers', top) /\ LiveOK(headers', live') /\ heap_free' = FreeBytes(headers')
          /\ Tiled(h, top) => Tiled(headers', top)
          /\ NoTwoFree(h, b) => NoTwoFree(headers', Null)
  <1> DEFINE aligned == align_up(size, Align)
             t == b + Header + aligned
             split == Splits(h, b, aligned)
             s == IF split THEN split_block(h, b, aligned) ELSE h
             g == [s EXCEPT ![b].free = FALSE]
             p == b + Header
  <1>1. /\ headers' = g
        /\ heap_free' = FreeBytes(h) - (IF split THEN h[b].size - g[g[b].next].size ELSE h[b].size)
        /\ live' = [q \in DOMAIN live \cup {p} |-> IF q = p THEN size ELSE live[q]]
    BY DEF Take
  <1>2. size \in Nat \ {0} /\ Header \in Nat \ {0} /\ Align \in Nat \ {0} /\ Null \notin Nat /\ Limit \in Nat
        /\ Addresses \subseteq Nat
    BY HeapAssumption, SMTT(30) DEF Addresses
  <1>3. aligned \in Nat \ {0} /\ size <= aligned
    <2>1. align_up(size, Align) \in Nat /\ size <= align_up(size, Align) BY <1>2, AlignUp
    <2> QED BY <2>1, <1>2, SMTT(30)
  <1> HIDE DEF aligned
  <1>4. /\ h \in [Addresses -> HeaderType] /\ b \in Addresses /\ b \in Nat /\ h[b].size \in Nat \ {0} /\ b # Null
        /\ EndOf(h, b) = b + Header + h[b].size /\ EndOf(h, b) <= top
    BY BlockFacts DEF ListOK
  <1>5. split => IsSplit(h, s, b, aligned, t)
    <2>1. ASSUME split PROVE IsSplit(h, split_block(h, b, aligned), b, aligned, t) BY <2>1, <1>3, SplitWrites
    <2> QED BY <2>1
  <1>6. ~split => s = h OBVIOUS
  <1>7. h[b].size >= aligned BY DEF aligned
  <1> HIDE DEF split, s, t
  <1>8. ListOK(s, top) /\ (Tiled(h, top) => Tiled(s, top))
    <2>1. CASE split BY <2>1, <1>3, <1>5, SplitKeeps, SplitTiles
    <2>2. CASE ~split BY <2>2, <1>6
    <2> QED BY <2>1, <2>2
  <1>9. /\ s \in [Addresses -> HeaderType]
        /\ InList(s) = IF split THEN InList(h) \cup {t} ELSE InList(h)
        /\ s[b].free = TRUE
        /\ s[b].size = IF split THEN aligned ELSE h[b].size
        /\ s[b].next = IF split THEN t ELSE h[b].next
        /\ \A a \in InList(h) \ {b} :
             s[a].size = h[a].size /\ s[a].free = h[a].free /\ s[a].next = h[a].next
        /\ split => /\ t \notin InList(h) /\ t \in Addresses /\ t # b /\ s[t].next = h[b].next /\ s[t].free = TRUE
                    /\ s[t].size = h[b].size - aligned - Header
    <2>1. CASE split
      <3>1. IsSplit(h, s, b, aligned, t) BY <2>1, <1>5
      <3>2. t \in Addresses /\ t \notin InList(h) /\ t # b BY <3>1 DEF IsSplit
      <3>3. InList(s) = InList(h) \cup {t} BY <3>1, SplitAdds, SMTT(30)
      <3>4. s[b].free = TRUE
        <4>1. s[b].free = IF b = t THEN TRUE ELSE h[b].free BY <3>1, <1>4 DEF IsSplit
        <4> QED BY <4>1
      <3>5. s[t].free = TRUE
        <4>1. s[t].free = IF t = t THEN TRUE ELSE h[t].free BY <3>1, <3>2 DEF IsSplit
        <4> QED BY <4>1
      <3>6. s[b].size = aligned /\ s[b].next = t BY <3>1, <3>2, <1>4 DEF IsSplit
      <3>7. s[t].next = h[b].next /\ s[t].size = h[b].size - aligned - Header BY <3>1, <3>2 DEF IsSplit
      <3>8. ASSUME NEW a \in InList(h) \ {b}
            PROVE s[a].size = h[a].size /\ s[a].free = h[a].free /\ s[a].next = h[a].next
        <4>1. a \in Addresses /\ a # t /\ a # b BY <3>2 DEF InList
        <4> QED BY <4>1, <3>1 DEF IsSplit
      <3>9. s \in [Addresses -> HeaderType] BY <3>1 DEF IsSplit
      <3> QED BY <2>1, <3>2, <3>3, <3>4, <3>5, <3>6, <3>7, <3>8, <3>9
    <2>2. CASE ~split BY <2>2, <1>4, <1>6
    <2> QED BY <2>1, <2>2
  <1>10. IsMarked(s, g, b, FALSE) BY <1>4, <1>9, MarkWrites
  <1> HIDE DEF g
  <1>11. b \in InList(s) BY <1>9
  <1>12. ListOK(g, top) /\ InList(g) = InList(s) /\ (Tiled(s, top) => Tiled(g, top)) BY <1>8, <1>10, MarkKeeps
  <1>13. /\ ~g[b].free /\ g[b].size = s[b].size /\ g[b].next = s[b].next
         /\ \A a \in InList(s) \ {b} : g[a].free = s[a].free /\ g[a].size = s[a].size /\ g[a].next = s[a].next
    <2>1. g[b].free = FALSE /\ g[b].size = s[b].size /\ g[b].next = s[b].next BY <1>4, <1>10 DEF IsMarked
    <2>2. ASSUME NEW a \in InList(s) \ {b}
          PROVE g[a].free = s[a].free /\ g[a].size = s[a].size /\ g[a].next = s[a].next
      <3>1. a \in Addresses /\ a # b BY DEF InList
      <3> QED BY <3>1, <1>10 DEF IsMarked
    <2> QED BY <2>1, <2>2
  <1>14. heap_free' = FreeBytes(headers')
    <2>1. s[b].free # FALSE BY <1>9
    <2>2. FreeBytes(g) = FreeBytes(s) - s[b].size
      <3>1. FreeBytes(g) = IF FALSE THEN FreeBytes(s) + s[b].size ELSE FreeBytes(s) - s[b].size
        BY <2>1, <1>8, <1>10, <1>11, MarkFree
      <3> QED BY <3>1
    <2>3. FreeBytes(h) \in Nat BY <1>4, FreeBytesType
    <2>4. CASE split
      <3>1. FreeBytes(s) = FreeBytes(h) - Header BY <2>4, <1>3, <1>5, SplitFree
      <3>2. g[g[b].next].size = h[b].size - aligned - Header
        <4>1. g[b].next = t /\ t \in InList(s) \ {b} BY <2>4, <1>9, <1>13
        <4> QED BY <4>1, <2>4, <1>9, <1>13
      <3>3. heap_free' = FreeBytes(h) - (h[b].size - (h[b].size - aligned - Header)) BY <2>4, <3>2, <1>1
      <3>4. FreeBytes(g) = FreeBytes(h) - Header - aligned BY <2>2, <2>4, <3>1, <1>9
      <3> QED BY <3>3, <3>4, <2>3, <1>1, <1>2, <1>3, <1>4, SMTT(30)
    <2>5. CASE ~split
      <3>1. heap_free' = FreeBytes(h) - h[b].size BY <2>5, <1>1
      <3> QED BY <2>2, <2>5, <3>1, <1>1, <1>6
    <2> QED BY <2>4, <2>5
  <1>15. LiveOK(g, live')
    <2>1. DOMAIN live' = DOMAIN live \cup {p} /\ live'[p] = size /\ \A q \in DOMAIN live : q # p => live'[q] = live[q]
      BY <1>1
    <2>2. p \in Addresses /\ p - Header = b
      <3>1. p \in Nat /\ p < Limit BY <1>2, <1>4, SMTT(30)
      <3> QED BY <3>1, <1>2, <1>4, SMTT(30) DEF Addresses
    <2>3. ASSUME NEW q \in DOMAIN live'
          PROVE /\ q \in Addresses /\ live'[q] \in Requests
                /\ q - Header \in InList(g) /\ ~g[q - Header].free /\ live'[q] <= g[q - Header].size
      <3>1. CASE q = p
        <4>1. size <= g[b].size BY <1>2, <1>3, <1>4, <1>7, <1>9, <1>13, SMTT(30)
        <4> QED BY <3>1, <4>1, <2>1, <2>2, <1>11, <1>12, <1>13
      <3>2. CASE q # p
        <4> DEFINE c == q - Header
        <4>1. q \in Addresses /\ live[q] \in Requests /\ c \in InList(h) /\ ~h[c].free /\ live[q] <= h[c].size
          BY <3>2, <2>1 DEF LiveOK
        <4> HIDE DEF c
        <4>2. c # b BY <4>1
        <4>3. c \in InList(s) \ {b} BY <4>1, <4>2, <1>9
        <4>4. g[c].free = h[c].free /\ g[c].size = h[c].size BY <4>1, <4>2, <4>3, <1>9, <1>13
        <4>5. ~g[c].free /\ live[q] <= g[c].size BY <4>1, <4>4
        <4> QED BY <3>2, <4>1, <4>3, <4>5, <2>1, <1>12 DEF c
      <3> QED BY <3>1, <3>2
    <2>4. ASSUME NEW c \in InList(g), ~g[c].free PROVE c + Header \in DOMAIN live'
      <3>1. CASE c = b BY <3>1, <2>1
      <3>2. CASE c # b
        <4>1. c \in InList(s) \ {b} BY <3>2, <1>12
        <4>2. ~s[c].free BY <4>1, <2>4, <1>13
        <4>3. c \in InList(h) \ {b} /\ ~h[c].free BY <4>1, <4>2, <1>9
        <4> QED BY <4>3, <2>1 DEF LiveOK
      <3> QED BY <3>1, <3>2
    <2> QED BY <2>3, <2>4 DEF LiveOK
  <1>16. ASSUME NoTwoFree(h, b) PROVE NoTwoFree(g, Null)
    <2>1. SUFFICES ASSUME NEW c \in InList(g), g[c].free, g[c].next # Null PROVE ~g[g[c].next].free
      BY DEF NoTwoFree
    <2>2. c # b /\ c \in InList(s) \ {b} BY <2>1, <1>12, <1>13
    <2>3. s[c].free /\ g[c].next = s[c].next BY <2>1, <2>2, <1>13
    <2> DEFINE k == s[c].next
    <2>4. k \in InList(s)
      <3>1. k # Null BY <2>1, <2>3
      <3> QED BY <2>2, <3>1, <1>8 DEF ListOK, Forward
    <2>5. CASE k = b BY <2>3, <2>5, <1>13
    <2>6. CASE k # b
      <3>1. ASSUME k \in InList(h), ~h[k].free PROVE ~g[k].free
        <4>1. s[k].free = h[k].free BY <2>6, <3>1, <1>9
        <4>2. g[k].free = s[k].free BY <2>4, <2>6, <1>13
        <4> QED BY <3>1, <4>1, <4>2
      <3>2. CASE split /\ c = t
        <4>1. k = h[b].next BY <3>2, <1>9
        <4>2. k \in InList(h)
          <5>1. h[b].next # Null BY <4>1, <2>1, <2>3
          <5> QED BY <4>1, <5>1 DEF ListOK, Forward
        <4>3. ~h[k].free BY <4>1, <2>1, <2>3, <2>6, <1>16 DEF NoTwoFree
        <4> QED BY <4>2, <4>3, <3>1, <2>3
      <3>3. CASE ~(split /\ c = t)
        <4>1. c \in InList(h) \ {b} BY <3>3, <2>2, <1>9
        <4>2. h[c].free /\ k = h[c].next BY <4>1, <2>3, <1>9
        <4>3. k \in InList(h)
          <5>1. h[c].next # Null BY <4>2, <2>1, <2>3
          <5> QED BY <4>1, <4>2, <5>1 DEF ListOK, Forward
        <4>4. ~h[k].free BY <4>1, <4>2, <2>1, <2>3, <2>6, <1>16 DEF NoTwoFree
        <4> QED BY <4>3, <4>4, <3>1, <2>3
      <3> QED BY <3>2, <3>3
    <2> QED BY <2>5, <2>6
  <1> QED BY <1>1, <1>8, <1>12, <1>14, <1>15, <1>16

\* kmalloc, from a block that fits.
LEMMA MallocStep ==
    ASSUME IInv, NEW size \in Requests, kmalloc(size), UNCHANGED exhausted
    PROVE IInv'
  <1>1. PICK b \in Blocks : IsFirstFit(b, align_up(size, Align)) /\ Take(headers, heap_free, b, size) BY DEF kmalloc
  <1>2. b \in InList(headers) /\ headers[b].free /\ headers[b].size >= align_up(size, Align)
    BY <1>1 DEF Blocks, InList, IsFirstFit, Fits
  <1>3. heap_mapped' = heap_mapped BY DEF kmalloc
  <1>4. heap_mapped \in 0..Limit /\ ListOK(headers, heap_mapped) /\ LiveOK(headers, live)
        /\ Take(headers, FreeBytes(headers), b, size)
    BY <1>1 DEF IInv
  <1>5. /\ ListOK(headers', heap_mapped) /\ LiveOK(headers', live') /\ heap_free' = FreeBytes(headers')
        /\ Tiled(headers, heap_mapped) => Tiled(headers', heap_mapped)
        /\ NoTwoFree(headers, b) => NoTwoFree(headers', Null)
    BY <1>2, <1>4, TakeKeeps
  <1>6. NoTwoFree(headers, Null) => NoTwoFree(headers, b) BY DEF NoTwoFree
  <1> QED BY <1>3, <1>5, <1>6 DEF IInv

\* kmalloc, from a block put last on the list.
LEMMA GrowStep ==
    ASSUME IInv, NEW size \in Requests, kmalloc_grows(size), UNCHANGED exhausted
    PROVE IInv'
  <1> DEFINE top == heap_mapped
             aligned == align_up(size, Align)
             end == Needed(size)
             room == end - top - Header
             g(last) == [headers EXCEPT ![top] = [magic |-> "HEAP_MAGIC", size |-> room, free |-> TRUE,
                                                  next |-> Null, prev |-> last],
                                        ![last].next = top]
  <1>1. end <= Limit /\ heap_mapped' = end BY DEF kmalloc_grows
  <1>2. PICK last \in Blocks : headers[last].next = Null /\ Take(g(last), heap_free + room, top, size)
    BY DEF kmalloc_grows
  <1>3. /\ top \in Nat /\ Header \in Nat \ {0} /\ Limit \in Nat /\ Page \in Nat \ {0} /\ Align \in Nat \ {0}
        /\ size \in Nat \ {0}
    BY HeapAssumption, SMTT(30) DEF IInv
  <1>4. aligned \in Nat \ {0}
    <2>1. align_up(size, Align) \in Nat /\ size <= align_up(size, Align) BY <1>3, AlignUp
    <2> QED BY <2>1, <1>3, SMTT(30)
  <1>5. end \in Nat /\ top + Header + aligned <= end
    <2>1. top + Header + aligned \in Nat BY <1>3, <1>4, SMTT(30)
    <2> HIDE DEF aligned
    <2>2. align_up(top + Header + aligned, Page) \in Nat
          /\ top + Header + aligned <= align_up(top + Header + aligned, Page)
      BY <2>1, <1>3, AlignUp
    <2> QED BY <2>2 DEF Needed, aligned
  <1> HIDE DEF aligned, end
  <1>6. room \in Nat \ {0} /\ room >= aligned /\ top + Header + room = end /\ top < Limit BY <1>1, <1>3, <1>4, <1>5, SMTT(30)
  <1>7. top \in Addresses /\ ListOK(headers, top) /\ headers \in [Addresses -> HeaderType]
        /\ last \in InList(headers) /\ last \in Addresses
    BY <1>3, <1>6, SMTT(30) DEF Addresses, IInv, ListOK, Blocks, InList
  <1>8. top # last
    <2>1. last \in Nat /\ EndOf(headers, last) \in Nat /\ last < EndOf(headers, last) /\ EndOf(headers, last) <= top
      BY <1>7, BlockFacts DEF IInv
    <2> QED BY <2>1, <1>3, SMTT(30)
  <1> HIDE DEF room
  <1>9. IsGrown(headers, g(last), top, last, room) BY <1>6, <1>7, <1>8, GrowWrites
  <1> DEFINE h == g(last)
  <1> HIDE DEF g
  <1>10. /\ ListOK(h, end) /\ InList(h) = InList(headers) \cup {top} /\ top \notin InList(headers)
         /\ Tiled(headers, top) => Tiled(h, end)
         /\ FreeBytes(h) = FreeBytes(headers) + room
    BY <1>1, <1>2, <1>6, <1>7, <1>9, GrowKeeps
  <1>11. /\ h[top].free = TRUE /\ h[top].size = room
         /\ \A a \in InList(headers) : h[a].free = headers[a].free /\ h[a].size = headers[a].size
         /\ \A a \in InList(headers) \ {last} : h[a].next = headers[a].next
         /\ h[last].next = top /\ h[top].next = Null
    <2>1. h[top].free = TRUE /\ h[top].size = room /\ h[top].next = Null BY <1>7, <1>9 DEF IsGrown
    <2>2. h[last].next = top BY <1>7, <1>8, <1>9 DEF IsGrown
    <2>3. ASSUME NEW a \in InList(headers)
          PROVE h[a].free = headers[a].free /\ h[a].size = headers[a].size
                /\ (a # last => h[a].next = headers[a].next)
      <3>1. a \in Addresses /\ a # top BY <1>10 DEF InList
      <3> QED BY <3>1, <1>9 DEF IsGrown
    <2> QED BY <2>1, <2>2, <2>3
  <1> HIDE DEF h, top
  <1>12. LiveOK(h, live)
    <2>1. LiveOK(headers, live) BY DEF IInv
    <2>2. ASSUME NEW p \in DOMAIN live
          PROVE /\ p \in Addresses /\ live[p] \in Requests
                /\ p - Header \in InList(h) /\ ~h[p - Header].free /\ live[p] <= h[p - Header].size
      BY <2>1, <1>10, <1>11 DEF LiveOK
    <2>3. ASSUME NEW b \in InList(h), ~h[b].free PROVE b + Header \in DOMAIN live
      <3>1. b # top BY <2>3, <1>11
      <3>2. b \in InList(headers) BY <3>1, <1>10
      <3>3. ~headers[b].free BY <3>2, <2>3, <1>11
      <3> QED BY <3>2, <3>3, <2>1 DEF LiveOK
    <2> QED BY <2>2, <2>3 DEF LiveOK
  <1>13. ASSUME NoTwoFree(headers, Null) PROVE NoTwoFree(h, top)
    <2>1. SUFFICES ASSUME NEW c \in InList(h), h[c].free, h[c].next # Null, h[c].next # top PROVE ~h[h[c].next].free
      BY DEF NoTwoFree
    <2>2. c # top /\ c # last BY <2>1, <1>11
    <2>3. c \in InList(headers) /\ h[c].next = headers[c].next /\ headers[c].free BY <2>1, <2>2, <1>10, <1>11
    <2>4. headers[c].next \in InList(headers) BY <2>1, <2>3, <1>7 DEF ListOK, Forward
    <2>5. ~headers[headers[c].next].free BY <2>1, <2>3, <1>13 DEF NoTwoFree
    <2> QED BY <2>3, <2>4, <2>5, <1>11
  <1>14. Take(h, FreeBytes(h), top, size)
    <2>1. heap_free + room = FreeBytes(h) BY <1>10 DEF IInv
    <2> QED BY <2>1, <1>2 DEF h, top
  <1>15. end \in 0..Limit /\ top \in InList(h) /\ h[top].free /\ h[top].size >= align_up(size, Align)
    BY <1>1, <1>3, <1>5, <1>6, <1>10, <1>11, SMTT(30) DEF aligned
  <1>16. /\ ListOK(headers', end) /\ LiveOK(headers', live') /\ heap_free' = FreeBytes(headers')
         /\ Tiled(h, end) => Tiled(headers', end)
         /\ NoTwoFree(h, top) => NoTwoFree(headers', Null)
    BY <1>10, <1>12, <1>14, <1>15, TakeKeeps
  <1> QED BY <1>1, <1>10, <1>13, <1>15, <1>16 DEF IInv, top

\* kmalloc, out of pages.
LEMMA FailStep ==
    ASSUME IInv, NEW size \in Requests, kmalloc_fails(size), UNCHANGED exhausted
    PROVE IInv'
  <1>1. PICK pages \in 0..Limit : heap_mapped + pages * Page < Needed(size) /\ heap_mapped' = heap_mapped + pages * Page
    BY DEF kmalloc_fails
  <1>2. Needed(size) <= Limit /\ exhausted /\ UNCHANGED <<headers, heap_free, live>> BY DEF kmalloc_fails
  <1>3. /\ heap_mapped \in Nat /\ Header \in Nat \ {0} /\ Limit \in Nat /\ Page \in Nat \ {0} /\ Align \in Nat \ {0}
        /\ size \in Nat \ {0} /\ pages \in Nat
    BY HeapAssumption, SMTT(30) DEF IInv
  <1>4. Needed(size) \in Nat
    <2>1. align_up(size, Align) \in Nat BY <1>3, AlignUp
    <2>2. heap_mapped + Header + align_up(size, Align) \in Nat BY <2>1, <1>3, SMTT(30)
    <2> QED BY <2>2, <1>3, AlignUp DEF Needed
  <1>5. pages * Page \in Nat BY <1>3, SMTT(30)
  <1>6. heap_mapped' \in 0..Limit /\ heap_mapped <= heap_mapped' BY <1>1, <1>2, <1>3, <1>4, <1>5, SMTT(30)
  <1>7. ListOK(headers, heap_mapped')
    <2>1. ListOK(headers, heap_mapped) /\ heap_mapped \in 0..Limit BY DEF IInv
    <2>2. ASSUME NEW b \in InList(headers)
          PROVE headers[b].size >= 1 /\ EndOf(headers, b) <= heap_mapped'
      <3>1. headers[b].size \in Nat \ {0} /\ EndOf(headers, b) \in Nat /\ EndOf(headers, b) <= heap_mapped
        BY <2>1, BlockFacts
      <3> QED BY <3>1, <1>3, <1>6, SMTT(30)
    <2>3. Sized(headers, heap_mapped') BY <2>2 DEF Sized
    <2> QED BY <2>1, <2>3 DEF ListOK
  <1> QED BY <1>2, <1>6, <1>7 DEF IInv

-----------------------------------------------------------------------------
(* kfree.                                                                  *)

\* merge_with_next on a free block keeps the list, its allocations and its count.
LEMMA MergeStep ==
    ASSUME NEW h, NEW top \in 0..Limit, ListOK(h, top), NEW b \in InList(h), h[b].free
    PROVE LET g == merge_with_next(h, b)
          IN /\ ListOK(g, top) /\ b \in InList(g) /\ g[b].free /\ InList(g) \subseteq InList(h)
             /\ FreeBytes(g) = FreeBytes(h) + Gained(h, b)
             /\ Tiled(h, top) => Tiled(g, top)
             /\ \A l : LiveOK(h, l) => LiveOK(g, l)
  <1> DEFINE g == merge_with_next(h, b)
             n == h[b].next
  <1>1. CASE ~Joins(h, b)
    <2>1. g = h /\ Gained(h, b) = 0 BY <1>1 DEF merge_with_next, Gained
    <2>2. FreeBytes(h) \in Nat BY FreeBytesType DEF ListOK
    <2> HIDE DEF g
    <2>3. FreeBytes(g) = FreeBytes(h) + Gained(h, b) BY <2>1, <2>2, SMTT(30)
    <2> QED BY <2>1, <2>3 DEF g
  <1>2. CASE Joins(h, b)
    <2>1. IsMerge(h, g, b, n) BY <1>2, MergeWrites
    <2>2. h[n].free BY <1>2 DEF Joins
    <2> HIDE DEF g, n
    <2>3. InList(g) = InList(h) \ {n} BY <2>1, MergeRemoves
    <2>4. n # b /\ n \in InList(h)
      <3>1. n \in InList(h) /\ n > b BY <2>1 DEF IsMerge
      <3>2. n \in Nat /\ b \in Nat BY <3>1, BlockFacts
      <3> QED BY <3>1, <3>2, SMTT(30)
    <2>5. ASSUME NEW a \in InList(g)
          PROVE /\ a \in InList(h) /\ g[a].free = h[a].free
                /\ a # b => g[a].size = h[a].size
      <3>1. a \in Addresses /\ a # n /\ a \in InList(h) BY <2>3 DEF InList
      <3> QED BY <3>1, <2>1 DEF IsMerge
    <2>6. b \in InList(g) /\ g[b].free
      <3>1. b \in InList(g) BY <2>3, <2>4
      <3> QED BY <3>1, <2>5
    <2>7. FreeBytes(g) = FreeBytes(h) + Header BY <2>1, <2>2, MergeFree
    <2>8. Gained(h, b) = Header BY <1>2 DEF Gained
    <2>9. ListOK(g, top) BY <2>1, MergeKeeps
    <2>10. Tiled(h, top) => Tiled(g, top) BY <2>1, MergeTiles
    <2>11. ASSUME NEW l, LiveOK(h, l) PROVE LiveOK(g, l)
      <3>1. ASSUME NEW p \in DOMAIN l
            PROVE /\ p \in Addresses /\ l[p] \in Requests
                  /\ p - Header \in InList(g) /\ ~g[p - Header].free /\ l[p] <= g[p - Header].size
        <4> DEFINE c == p - Header
        <4>1. p \in Addresses /\ l[p] \in Requests /\ c \in InList(h) /\ ~h[c].free /\ l[p] <= h[c].size
          BY <2>11 DEF LiveOK
        <4> HIDE DEF c
        <4>2. c # n /\ c # b BY <4>1, <2>2
        <4>3. c \in InList(g) BY <4>1, <4>2, <2>3
        <4>4. ~g[c].free /\ g[c].size = h[c].size BY <4>1, <4>2, <4>3, <2>5
        <4> QED BY <4>1, <4>3, <4>4 DEF c
      <3>2. ASSUME NEW c \in InList(g), ~g[c].free PROVE c + Header \in DOMAIN l
        <4>1. c \in InList(h) /\ ~h[c].free BY <3>2, <2>5
        <4> QED BY <4>1, <2>11 DEF LiveOK
      <3> QED BY <3>1, <3>2 DEF LiveOK
    <2>12. InList(g) \subseteq InList(h) BY <2>3
    <2> QED BY <2>6, <2>7, <2>8, <2>9, <2>10, <2>11, <2>12 DEF g
  <1> QED BY <1>1, <1>2

\* No two neighbours are free, but for those of which the first is in X.
Unmerged(h, X) ==
    \A b \in InList(h) \ X : h[b].free /\ h[b].next # Null => ~h[h[b].next].free

\* Where blocks tile memory, merging leaves block b without a free neighbour after
\* it, unless the block merged away had one.
LEMMA MergeMerges ==
    ASSUME NEW h, NEW top \in 0..Limit, ListOK(h, top), Tiled(h, top), NEW b \in InList(h),
           NEW X, Unmerged(h, X)
    PROVE LET g == merge_with_next(h, b)
          IN /\ Unmerged(g, X \cup {b})
             /\ h[b].next \notin X => Unmerged(g, X \ {b})
             /\ Joins(h, b) => InList(g) = InList(h) \ {h[b].next}
             /\ h[b].next # Null /\ h[h[b].next].free => Joins(h, b)
  <1> DEFINE g == merge_with_next(h, b)
             n == h[b].next
  <1>1. n # Null => /\ n \in InList(h) /\ n = EndOf(h, b) /\ n \in Nat /\ n > b /\ h[n].prev = b /\ b \in Nat
                    /\ h[n].magic = "HEAP_MAGIC"
    <2>1. n # Null => n \in InList(h) /\ n = EndOf(h, b) /\ n > b /\ h[n].prev = b BY DEF ListOK, Forward, Tiled
    <2>2. n # Null => n \in Nat /\ b \in Nat BY <2>1, BlockFacts
    <2> QED BY <2>1, <2>2 DEF InList
  <1>2. n # Null /\ h[n].free => Joins(h, b) BY <1>1 DEF Joins, EndOf
  <1>3. CASE ~Joins(h, b)
    <2>1. g = h BY <1>3 DEF merge_with_next
    <2>2. Unmerged(h, X \ {b}) BY <1>2, <1>3 DEF Unmerged
    <2>3. Unmerged(h, X \cup {b}) BY DEF Unmerged
    <2> HIDE DEF g
    <2> QED BY <1>2, <1>3, <2>1, <2>2, <2>3 DEF g
  <1>4. CASE Joins(h, b)
    <2>1. IsMerge(h, g, b, n) BY <1>4, MergeWrites
    <2>2. n # Null /\ h[n].free BY <1>4 DEF Joins
    <2>3. n \in InList(h) /\ n # b /\ h[n].prev = b BY <1>1, <2>2, SMTT(30)
    <2> HIDE DEF g, n
    <2>4. InList(g) = InList(h) \ {n} BY <2>1, MergeRemoves
    <2>5. ASSUME NEW a \in InList(g)
          PROVE /\ a \in InList(h) /\ a # n /\ g[a].free = h[a].free
                /\ g[a].next = IF a = b THEN h[n].next ELSE h[a].next
      <3>1. a \in Addresses /\ a # n /\ a \in InList(h) BY <2>4 DEF InList
      <3> QED BY <3>1, <2>1 DEF IsMerge
    <2>6. ListOK(g, top) BY <2>1, MergeKeeps
    <2>7. ASSUME NEW c \in InList(g) \ (X \cup {b}), g[c].free, g[c].next # Null PROVE ~g[g[c].next].free
      <3> DEFINE k == g[c].next
      <3>1. c \in InList(h) \ X /\ k = h[c].next /\ h[c].free BY <2>5, <2>7
      <3>2. k \in InList(g) BY <2>6, <2>7 DEF ListOK, Forward
      <3>3. ~h[k].free BY <3>1, <2>7 DEF Unmerged
      <3> HIDE DEF k
      <3>4. ~g[k].free BY <3>2, <3>3, <2>5
      <3> QED BY <3>4 DEF k
    <2>8. ASSUME n \notin X, b \in InList(g), g[b].next # Null PROVE ~g[g[b].next].free
      <3> DEFINE k == g[b].next
      <3>1. k = h[n].next BY <2>5, <2>8
      <3>2. k \in InList(g) BY <2>6, <2>8 DEF ListOK, Forward
      <3>3. ~h[k].free BY <3>1, <2>2, <2>3, <2>8 DEF Unmerged
      <3> HIDE DEF k
      <3>4. ~g[k].free BY <3>2, <3>3, <2>5
      <3> QED BY <3>4 DEF k
    <2>9. Unmerged(g, X \cup {b}) BY <2>7 DEF Unmerged
    <2>10. ASSUME n \notin X PROVE Unmerged(g, X \ {b})
      <3>1. SUFFICES ASSUME NEW c \in InList(g) \ (X \ {b}), g[c].free, g[c].next # Null PROVE ~g[g[c].next].free
        BY DEF Unmerged
      <3>2. CASE c = b BY <3>1, <3>2, <2>8, <2>10
      <3>3. CASE c # b BY <3>1, <3>3, <2>7
      <3> QED BY <3>2, <3>3
    <2> QED BY <1>4, <2>4, <2>9, <2>10 DEF g, n
  <1> QED BY <1>3, <1>4

\* kfree: the block is marked, then merged with its neighbours.
LEMMA FreeStep ==
    ASSUME IInv, NEW p \in Addresses, kfree(p), UNCHANGED exhausted
    PROVE IInv'
  <1> DEFINE b == p - Header
             before == headers[b].prev
             freed == [headers EXCEPT ![b].free = TRUE]
             back == before # Null /\ headers[before].free
             start == IF back THEN before ELSE b
             first == IF back THEN merge_with_next(freed, before) ELSE freed
             g == merge_with_next(first, start)
             l == [q \in DOMAIN live \ {p} |-> live[q]]
  <1>1. Accepts(p) BY DEF kfree
  <1>2. /\ headers' = g /\ live' = l /\ heap_mapped' = heap_mapped
        /\ heap_free' = heap_free + headers[b].size + (IF back THEN Gained(freed, before) ELSE 0) + Gained(first, start)
    BY DEF kfree
  <1>3. /\ heap_mapped \in 0..Limit /\ heap_mapped \in Nat /\ ListOK(headers, heap_mapped) /\ LiveOK(headers, live)
        /\ headers \in [Addresses -> HeaderType] /\ heap_free = FreeBytes(headers)
    BY HeapAssumption, SMTT(30) DEF IInv, ListOK
  <1>4. /\ p \in Nat /\ p < Limit /\ Header \in Nat \ {0} /\ Limit \in Nat /\ Null \notin Nat
    BY HeapAssumption, SMTT(30) DEF Addresses
  <1>5. b \in InList(headers) /\ b \in Addresses /\ ~headers[b].free /\ b + Header = p
    <2>1. p >= Header /\ headers[b].magic = "HEAP_MAGIC" /\ ~headers[b].free BY <1>1 DEF Accepts
    <2>2. b \in Addresses /\ b + Header = p BY <2>1, <1>4, SMTT(30) DEF Addresses
    <2> QED BY <2>1, <2>2 DEF InList
  <1> HIDE DEF b
  <1>6. IsMarked(headers, freed, b, TRUE) BY <1>3, <1>5, MarkWrites
  <1> HIDE DEF freed
  <1>7. /\ ListOK(freed, heap_mapped) /\ InList(freed) = InList(headers)
        /\ Tiled(headers, heap_mapped) => Tiled(freed, heap_mapped)
    BY <1>3, <1>6, MarkKeeps
  <1>8. /\ freed[b].free = TRUE
        /\ \A a \in InList(headers) : freed[a].size = headers[a].size /\ freed[a].next = headers[a].next
                                      /\ freed[a].prev = headers[a].prev
        /\ \A a \in InList(headers) \ {b} : freed[a].free = headers[a].free
    <2>1. freed[b].free = TRUE BY <1>5, <1>6 DEF IsMarked
    <2>2. ASSUME NEW a \in InList(headers)
          PROVE /\ freed[a].size = headers[a].size /\ freed[a].next = headers[a].next /\ freed[a].prev = headers[a].prev
                /\ a # b => freed[a].free = headers[a].free
      <3>1. a \in Addresses BY DEF InList
      <3> QED BY <3>1, <1>6 DEF IsMarked
    <2> QED BY <2>1, <2>2
  <1>9. FreeBytes(freed) = FreeBytes(headers) + headers[b].size
    <2>1. headers[b].free # TRUE BY <1>5
    <2>2. FreeBytes(freed) = IF TRUE THEN FreeBytes(headers) + headers[b].size ELSE FreeBytes(headers) - headers[b].size
      BY <2>1, <1>3, <1>5, <1>6, MarkFree
    <2> QED BY <2>2
  <1>10. LiveOK(freed, l)
    <2>1. ASSUME NEW q \in DOMAIN l
          PROVE /\ q \in Addresses /\ l[q] \in Requests
                /\ q - Header \in InList(freed) /\ ~freed[q - Header].free /\ l[q] <= freed[q - Header].size
      <3> DEFINE c == q - Header
      <3>1. q \in DOMAIN live /\ q # p /\ l[q] = live[q] OBVIOUS
      <3>2. q \in Addresses /\ live[q] \in Requests /\ c \in InList(headers) /\ ~headers[c].free
            /\ live[q] <= headers[c].size
        BY <3>1, <1>3 DEF LiveOK
      <3>3. c # b
        <4>1. q \in Nat BY <3>2, <1>4, SMTT(30) DEF Addresses
        <4> QED BY <3>1, <4>1, <1>4, <1>5, SMTT(30)
      <3> HIDE DEF c, l
      <3>4. ~freed[c].free /\ freed[c].size = headers[c].size BY <3>2, <3>3, <1>8
      <3> QED BY <3>1, <3>2, <3>4, <1>7 DEF c
    <2>2. ASSUME NEW c \in InList(freed), ~freed[c].free PROVE c + Header \in DOMAIN l
      <3>1. c # b BY <2>2, <1>8
      <3>2. c \in InList(headers) /\ ~headers[c].free BY <2>2, <3>1, <1>7, <1>8
      <3>3. c + Header \in DOMAIN live BY <3>2, <1>3 DEF LiveOK
      <3>4. c \in Nat /\ b \in Nat BY <3>2, <1>3, <1>5, BlockFacts
      <3>5. c + Header # p BY <3>1, <3>4, <1>4, <1>5, SMTT(30)
      <3> QED BY <3>3, <3>5
    <2> QED BY <2>1, <2>2 DEF LiveOK
  <1> HIDE DEF l
  <1>11. before # Null => before \in InList(headers) /\ headers[before].next = b /\ before # b
    <2>1. ASSUME before # Null PROVE before \in InList(headers) /\ headers[before].next = b
      BY <2>1, <1>3, <1>5 DEF ListOK, Backward
    <2>2. ASSUME before # Null PROVE before # b
      <3>1. b \in Nat /\ b # Null BY <1>3, <1>5, BlockFacts
      <3>2. headers[before].next > before BY <2>1, <2>2, <3>1, <1>3 DEF ListOK, Forward
      <3> QED BY <2>1, <2>2, <3>1, <3>2, SMTT(30)
    <2> QED BY <2>1, <2>2
  <1> HIDE DEF before
  <1>12. start \in InList(freed) /\ freed[start].free
    <2>1. CASE back
      <3>1. before \in InList(headers) \ {b} /\ headers[before].free BY <2>1, <1>11
      <3>2. freed[before].free BY <3>1, <1>8
      <3> QED BY <2>1, <3>1, <3>2, <1>7
    <2>2. CASE ~back BY <2>2, <1>5, <1>7, <1>8
    <2> QED BY <2>1, <2>2
  <1>13. /\ ListOK(first, heap_mapped) /\ start \in InList(first) /\ first[start].free
         /\ InList(first) \subseteq InList(freed)
         /\ FreeBytes(first) = FreeBytes(freed) + (IF back THEN Gained(freed, before) ELSE 0)
         /\ Tiled(freed, heap_mapped) => Tiled(first, heap_mapped)
         /\ LiveOK(first, l)
    <2>1. CASE back
      <3>1. before \in InList(freed) /\ freed[before].free BY <2>1, <1>12
      <3> DEFINE m == merge_with_next(freed, before)
      <3>2. /\ ListOK(m, heap_mapped) /\ before \in InList(m) /\ m[before].free
            /\ InList(m) \subseteq InList(freed)
            /\ FreeBytes(m) = FreeBytes(freed) + Gained(freed, before)
            /\ Tiled(freed, heap_mapped) => Tiled(m, heap_mapped)
            /\ \A ll : LiveOK(freed, ll) => LiveOK(m, ll)
        BY <3>1, <1>3, <1>7, MergeStep
      <3>3. first = m /\ start = before BY <2>1
      <3> HIDE DEF m, first, start
      <3> QED BY <2>1, <3>2, <3>3, <1>10
    <2>2. CASE ~back
      <3>1. first = freed /\ start = b BY <2>2
      <3>2. FreeBytes(freed) \in Nat BY <1>7, FreeBytesType DEF ListOK
      <3>3. FreeBytes(first) = FreeBytes(freed) + (IF back THEN Gained(freed, before) ELSE 0) BY <2>2, <3>1, <3>2, SMTT(30)
      <3> HIDE DEF first
      <3> QED BY <2>2, <3>1, <3>3, <1>7, <1>10, <1>12
    <2> QED BY <2>1, <2>2
  <1>14. ASSUME Tiled(headers, heap_mapped), NoTwoFree(headers, Null) PROVE NoTwoFree(g, Null)
    <2>1. SUFFICES Unmerged(g, {}) BY DEF Unmerged, NoTwoFree
    <2>2. Tiled(freed, heap_mapped) BY <1>7, <1>14
    <2>3. \A c \in InList(headers) : headers[c].free /\ headers[c].next # Null => ~headers[headers[c].next].free
      BY <1>14, <1>5 DEF NoTwoFree
    <2>4. ASSUME NEW c \in InList(freed), c # b, c # before, freed[c].free, freed[c].next # Null
          PROVE ~freed[freed[c].next].free
      <3> DEFINE k == headers[c].next
      <3>1. c \in InList(headers) /\ headers[c].free /\ freed[c].next = k BY <2>4, <1>7, <1>8
      <3>2. k \in InList(headers) /\ headers[k].prev = c BY <2>4, <3>1, <1>3 DEF ListOK, Forward
      <3>3. ~headers[k].free BY <2>3, <2>4, <3>1
      <3> HIDE DEF k
      <3>4. k # b BY <2>4, <3>2 DEF before
      <3>5. ~freed[k].free BY <3>2, <3>3, <3>4, <1>8
      <3> QED BY <3>1, <3>5
    <2>5. CASE back
      <3> DEFINE m == merge_with_next(freed, before)
      <3>1. before \in InList(freed) /\ freed[before].next = b BY <2>5, <1>7, <1>8, <1>11
      <3>2. Unmerged(freed, {before, b}) BY <2>4 DEF Unmerged
      <3>3. b # Null BY <1>3, <1>5, BlockFacts
      <3>4. /\ Unmerged(m, {before, b} \cup {before})
            /\ Joins(freed, before) => InList(m) = InList(freed) \ {freed[before].next}
            /\ freed[before].next # Null /\ freed[freed[before].next].free => Joins(freed, before)
        BY <2>2, <3>1, <3>2, <1>3, <1>7, MergeMerges
      <3>5. InList(m) = InList(freed) \ {b} BY <3>1, <3>3, <3>4, <1>8
      <3>6. first = m /\ start = before BY <2>5
      <3> HIDE DEF m, first, start
      <3>7. Unmerged(first, {before}) BY <3>4, <3>5, <3>6 DEF Unmerged
      <3>8. before \in InList(first) BY <3>1, <3>5, <3>6, <2>5, <1>11
      <3>9. first[before].next \notin {before}
        <4>1. first[before].next # Null => first[before].next > before BY <3>8, <1>13 DEF ListOK, Forward
        <4>2. before \in Nat /\ before # Null BY <3>8, <1>3, <1>13, BlockFacts
        <4> QED BY <4>1, <4>2, SMTT(30)
      <3>10. Tiled(first, heap_mapped) BY <2>2, <1>13
      <3>11. Unmerged(g, {before} \ {before}) BY <3>6, <3>7, <3>8, <3>9, <3>10, <1>3, <1>13, MergeMerges
      <3>12. {before} \ {before} = {} OBVIOUS
      <3> HIDE DEF g
      <3> QED BY <3>11, <3>12
    <2>6. CASE ~back
      <3>1. first = freed /\ start = b BY <2>6
      <3>2. Unmerged(freed, {b})
        <4>1. SUFFICES ASSUME NEW c \in InList(freed) \ {b}, freed[c].free, freed[c].next # Null
                       PROVE ~freed[freed[c].next].free
          BY DEF Unmerged
        <4>2. CASE c = before
          <5>1. before \in InList(headers) \ {b} BY <4>2, <1>7
          <5>2. headers[before].free BY <5>1, <4>1, <4>2, <1>8
          <5>3. before # Null BY <5>1, <1>3, BlockFacts
          <5> QED BY <5>2, <5>3, <2>6
        <4>3. CASE c # before BY <4>1, <4>3, <2>4
        <4> QED BY <4>2, <4>3
      <3>3. b \in InList(freed) BY <1>5, <1>7
      <3>4. freed[b].next \notin {b}
        <4>1. freed[b].next # Null => freed[b].next > b BY <3>3, <1>7 DEF ListOK, Forward
        <4>2. b \in Nat /\ b # Null BY <1>3, <1>5, BlockFacts
        <4> QED BY <4>1, <4>2, SMTT(30)
      <3>5. Unmerged(merge_with_next(freed, b), {b} \ {b}) BY <2>2, <3>2, <3>3, <3>4, <1>3, <1>7, MergeMerges
      <3>6. {b} \ {b} = {} OBVIOUS
      <3>7. g = merge_with_next(freed, b) BY <3>1
      <3> HIDE DEF g
      <3> QED BY <3>5, <3>6, <3>7
    <2> QED BY <2>5, <2>6
  <1> HIDE DEF first, start
  <1>15. /\ ListOK(g, heap_mapped) /\ FreeBytes(g) = FreeBytes(first) + Gained(first, start)
         /\ Tiled(first, heap_mapped) => Tiled(g, heap_mapped)
         /\ \A ll : LiveOK(first, ll) => LiveOK(g, ll)
    BY <1>3, <1>13, MergeStep
  <1> HIDE DEF g, back
  <1>16. heap_free' = FreeBytes(g) BY <1>2, <1>3, <1>9, <1>13, <1>15
  <1> QED BY <1>2, <1>3, <1>7, <1>13, <1>14, <1>15, <1>16 DEF IInv

-----------------------------------------------------------------------------
(* The heap keeps the invariant.                                           *)

\* kheap_init sets up one free block that is all of the first page.
LEMMA InitIInv == Init => IInv
  <1> SUFFICES ASSUME Init PROVE IInv OBVIOUS
  <1>1. /\ Header \in Nat \ {0} /\ Page \in Nat /\ Page > Header /\ Limit \in Nat /\ Limit >= Page /\ Null \notin Nat
    BY HeapAssumption
  <1> DEFINE r == [magic |-> "HEAP_MAGIC", size |-> Page - Header, free |-> TRUE, next |-> Null, prev |-> Null]
             h == headers
  <1>2. h = [a \in Addresses |-> IF a = 0 THEN r ELSE NoHeader] /\ heap_mapped = Page /\ heap_free = Page - Header
        /\ exhausted \in BOOLEAN /\ live = << >>
    BY DEF Init
  <1>3. Page - Header \in Nat \ {0} /\ Page \in 0..Limit /\ 0 \in Addresses BY <1>1, SMTT(30) DEF Addresses
  <1>4. r \in HeaderType /\ NoHeader \in HeaderType BY <1>3 DEF HeaderType, Magics, NoHeader
  <1>5. h \in [Addresses -> HeaderType] BY <1>2, <1>4
  <1>6. h[0] = r BY <1>2, <1>3
  <1>7. InList(h) = {0}
    <2>1. \A a \in Addresses : a # 0 => h[a] = NoHeader BY <1>2
    <2>2. NoHeader.magic = "other" /\ "other" # "HEAP_MAGIC" BY DEF NoHeader
    <2>3. r.magic = "HEAP_MAGIC" OBVIOUS
    <2> HIDE DEF r, h
    <2> QED BY <2>1, <2>2, <2>3, <1>3, <1>6 DEF InList
  <1>8. h[0].size = Page - Header /\ h[0].next = Null /\ h[0].prev = Null /\ h[0].free = TRUE BY <1>6, SMTT(30)
  <1> HIDE DEF h, r
  <1>9. EndOf(h, 0) = Page BY <1>1, <1>8, SMTT(30) DEF EndOf
  <1>10. ListOK(h, Page)
    <2>1. Sized(h, Page) BY <1>1, <1>3, <1>7, <1>8, <1>9, SMTT(30) DEF Sized
    <2>2. Apart(h) BY <1>7, SMTT(30) DEF Apart
    <2>3. Forward(h) BY <1>7, <1>8, SMTT(30) DEF Forward
    <2>4. Backward(h) BY <1>7, <1>8 DEF Backward
    <2> QED BY <2>1, <2>2, <2>3, <2>4, <1>5, <1>7 DEF ListOK
  <1>11. LiveOK(h, live)
    <2>1. DOMAIN live = {} BY <1>2, SMTT(30)
    <2> QED BY <2>1, <1>7, <1>8 DEF LiveOK
  <1>12. Tiled(h, Page) BY <1>7, <1>8, <1>9 DEF Tiled
  <1>13. NoTwoFree(h, Null) BY <1>7, <1>8 DEF NoTwoFree
  <1>14. FreeBytes(h) = Page - Header
    <2> DEFINE e == [a \in Addresses |-> NoHeader]
    <2>1. e \in [Addresses -> HeaderType] /\ InList(e) = {} BY <1>4 DEF InList, NoHeader
    <2> HIDE DEF e
    <2>2. \A a \in Nat : Weight(e)[a] = 0 BY <2>1 DEF Weight
    <2>3. Weight(e) \in [Nat -> Nat] BY <2>1, FreeBytesType
    <2>4. FreeBytes(e) = 0
      <3> DEFINE s == Sums(Weight(e))
                 T == {n \in Nat : s[n] = 0}
      <3>1. s \in [Nat -> Nat] /\ s[0] = 0 /\ \A n \in Nat : s[n + 1] = s[n] + Weight(e)[n] BY <2>3, SumsDef
      <3> HIDE DEF s
      <3>2. 0 \in T BY <3>1
      <3>3. ASSUME NEW n \in Nat, n \in T PROVE n + 1 \in T
        <4>1. s[n + 1] = 0 BY <3>1, <3>3, <2>2, SMTT(30)
        <4> QED BY <4>1, SMTT(30)
      <3> HIDE DEF T
      <3>4. Limit \in T BY <3>2, <3>3, <1>1, Induction
      <3> QED BY <3>4 DEF T, s, FreeBytes
    <2>5. \A a \in Addresses \ {0} : Weight(h)[a] = Weight(e)[a]
      <3>1. Addresses \subseteq Nat BY SMTT(30) DEF Addresses
      <3> QED BY <3>1, <2>1, <1>7 DEF Weight
    <2>6. FreeBytes(h) = FreeBytes(e) - Weight(e)[0] + Weight(h)[0] BY <2>1, <2>5, <1>3, <1>5, FreeBytesOne
    <2>7. Weight(h)[0] = Page - Header BY <1>7, <1>8 DEF Weight
    <2> QED BY <2>2, <2>4, <2>6, <2>7, <1>3, SMTT(30)
  <1> QED BY <1>2, <1>3, <1>10, <1>11, <1>12, <1>13, <1>14 DEF IInv, h

\* Every step of the heap keeps the invariant.
LEMMA NextIInv == IInv /\ [Next]_vars => IInv'
  <1> SUFFICES ASSUME IInv, [Next]_vars PROVE IInv' OBVIOUS
  <1>1. ASSUME NEW size \in Requests, UNCHANGED exhausted, kmalloc(size) PROVE IInv' BY <1>1, MallocStep
  <1>2. ASSUME NEW size \in Requests, UNCHANGED exhausted, kmalloc_grows(size) PROVE IInv' BY <1>2, GrowStep
  <1>3. ASSUME NEW size \in Requests, UNCHANGED exhausted, kmalloc_fails(size) PROVE IInv' BY <1>3, FailStep
  <1>4. ASSUME NEW p \in Addresses, UNCHANGED exhausted, kfree(p) PROVE IInv' BY <1>4, FreeStep
  <1>5. CASE UNCHANGED vars BY <1>5 DEF vars, IInv
  <1> QED BY <1>1, <1>2, <1>3, <1>4, <1>5 DEF Next

\* The invariant says what BlocksConsistent says.
LEMMA IInvConsistent == IInv => BlocksConsistent
  <1> SUFFICES ASSUME IInv PROVE BlocksConsistent OBVIOUS
  <1>1. /\ ListOK(headers, heap_mapped) /\ LiveOK(headers, live) /\ headers \in [Addresses -> HeaderType]
        /\ heap_mapped \in 0..Limit /\ exhausted \in BOOLEAN /\ heap_free = FreeBytes(headers)
    BY DEF IInv, ListOK
  <1>2. /\ Blocks = InList(headers) /\ \A b : End(b) = EndOf(headers, b) BY DEF Blocks, InList, End, EndOf
  <1>3. Header \in Nat \ {0} /\ Limit \in Nat /\ Null \notin Nat BY HeapAssumption
  <1>4. ASSUME NEW b \in Blocks
        PROVE b \in Addresses /\ b \in Nat /\ headers[b].size \in Nat \ {0} /\ EndOf(headers, b) \in Nat
              /\ EndOf(headers, b) = b + Header + headers[b].size /\ EndOf(headers, b) <= heap_mapped
    BY <1>1, <1>2, BlockFacts
  <1>5. TypeOK
    <2>1. heap_free \in Nat BY <1>1, FreeBytesType
    <2> QED BY <2>1, <1>1 DEF TypeOK, LiveOK
  <1>6. NoOverlap BY <1>1, <1>2, <1>4 DEF NoOverlap, LiveOK, ListOK, Apart
  <1>7. Linked
    <2>1. 0 \in Blocks BY <1>1, <1>2 DEF ListOK
    <2>2. ASSUME NEW b \in Blocks
          PROVE /\ headers[b].next = Null <=> \A c \in Blocks : c <= b
                /\ headers[b].prev = Null <=> b = 0
                /\ headers[b].next # Null =>
                      /\ headers[b].next \in Blocks /\ headers[b].next > b /\ headers[headers[b].next].prev = b
                      /\ \A c \in Blocks : c <= b \/ c >= headers[b].next
      <3>1. IF headers[b].next = Null THEN \A c \in Blocks : c <= b
            ELSE /\ headers[b].next \in Blocks /\ headers[b].next > b /\ headers[headers[b].next].prev = b
                 /\ \A c \in Blocks : c <= b \/ c >= headers[b].next
        BY <1>1, <1>2 DEF ListOK, Forward
      <3>2. IF b = 0 THEN headers[b].prev = Null ELSE headers[b].prev \in Blocks
        BY <1>1, <1>2 DEF ListOK, Backward
      <3>3. headers[b].next # Null => headers[b].next \in Nat BY <3>1, <1>4
      <3>4. headers[b].prev \in Blocks => headers[b].prev # Null BY <1>3, <1>4
      <3> QED BY <3>1, <3>2, <3>3, <3>4, <1>4, SMTT(30)
    <2> QED BY <2>1, <2>2 DEF Linked
  <1>8. FreedOnce
    <2>1. SUFFICES ASSUME NEW p \in Addresses PROVE Accepts(p) <=> p \in DOMAIN live BY DEF FreedOnce
    <2> DEFINE b == p - Header
    <2>2. p \in Nat BY <1>3, SMTT(30) DEF Addresses
    <2>3. ASSUME Accepts(p) PROVE p \in DOMAIN live
      <3>1. p >= Header /\ p < heap_mapped /\ headers[b].magic = "HEAP_MAGIC" /\ ~headers[b].free
        BY <2>3 DEF Accepts
      <3>2. b \in Addresses BY <2>2, <3>1, <1>1, <1>3, SMTT(30) DEF Addresses
      <3>3. b \in InList(headers) /\ b + Header = p BY <2>2, <3>1, <3>2, <1>3, SMTT(30) DEF InList
      <3> HIDE DEF b
      <3> QED BY <3>1, <3>3, <1>1 DEF LiveOK
    <2>4. ASSUME p \in DOMAIN live PROVE Accepts(p)
      <3>1. b \in InList(headers) /\ ~headers[b].free BY <2>4, <1>1 DEF LiveOK
      <3>2. b \in Nat /\ headers[b].size \in Nat \ {0} /\ EndOf(headers, b) = b + Header + headers[b].size
            /\ EndOf(headers, b) <= heap_mapped
        BY <3>1, <1>2, <1>4
      <3>3. headers[b].magic = "HEAP_MAGIC" BY <3>1 DEF InList
      <3>4. p >= Header /\ p < heap_mapped BY <2>2, <3>2, <1>1, <1>3, SMTT(30)
      <3> QED BY <3>1, <3>2, <3>3, <3>4 DEF Accepts
    <2> QED BY <2>3, <2>4
  <1> QED BY <1>5, <1>6, <1>7, <1>8 DEF BlocksConsistent

\* The heap hands out and takes back memory consistently, whatever the sizes: no two
\* blocks overlap, the list runs through all of them both ways, and kfree accepts
\* a pointer exactly while its allocation is in use, even when pages run out.
THEOREM HeapConsistent == Spec => []BlocksConsistent
  <1>1. Init => IInv BY InitIInv
  <1>2. IInv /\ [Next]_vars => IInv' BY NextIInv
  <1>3. IInv => BlocksConsistent BY IInvConsistent
  <1> QED BY <1>1, <1>2, <1>3, PTL DEF Spec

-----------------------------------------------------------------------------
(* kheap_validate.                                                         *)

\* One block of the walk
WalkStep(w) ==
    LET h == headers[w.block]
    IN IF w.block = Null \/ ~w.ok THEN w
       ELSE [block |-> h.next, address |-> End(w.block), previous |-> w.block,
             free |-> w.free + (IF h.free THEN h.size ELSE 0),
             ok |-> /\ w.block = w.address /\ h.magic = "HEAP_MAGIC" /\ h.prev = w.previous
                    /\ h.size # 0 /\ h.size <= Limit]

WalkType == [block : Addresses \cup {Null}, address : Nat, previous : Addresses \cup {Null},
             free : Nat, ok : BOOLEAN]
WalkStart == [block |-> 0, address |-> 0, previous |-> Null, free |-> 0, ok |-> TRUE]

\* The walk is what its equation says.
LEMMA WalkDef ==
    ASSUME headers \in [Addresses -> HeaderType]
    PROVE Walk[0] = WalkStart /\ \A n \in Nat : Walk[n + 1] = WalkStep(Walk[n])
  <1>1. ASSUME NEW w \in WalkType PROVE WalkStep(w) \in WalkType
    <2>1. CASE w.block = Null \/ ~w.ok BY <2>1 DEF WalkStep
    <2>2. CASE ~(w.block = Null \/ ~w.ok)
      <3> DEFINE h == headers[w.block]
      <3>1. w.block \in Addresses /\ w.address \in Nat /\ w.free \in Nat BY <2>2 DEF WalkType
      <3>2. h.size \in Nat /\ h.free \in BOOLEAN /\ h.next \in Addresses \cup {Null} /\ w.block \in Nat
        BY <3>1, HeaderTypes
      <3>3. End(w.block) \in Nat /\ w.free + (IF h.free THEN h.size ELSE 0) \in Nat
        BY <3>1, <3>2, HeapAssumption, SMTT(30) DEF End
      <3> DEFINE k == /\ w.block = w.address /\ h.magic = "HEAP_MAGIC" /\ h.prev = w.previous
                      /\ h.size # 0 /\ h.size <= Limit
                 f == w.free + (IF h.free THEN h.size ELSE 0)
      <3>4. k \in BOOLEAN OBVIOUS
      <3>5. WalkStep(w) = [block |-> h.next, address |-> End(w.block), previous |-> w.block, free |-> f, ok |-> k]
        BY <2>2 DEF WalkStep
      <3> HIDE DEF k, f
      <3>6. f \in Nat BY <3>3 DEF f
      <3> QED BY <3>1, <3>2, <3>3, <3>4, <3>5, <3>6, SMTT(30) DEF WalkType
    <2> QED BY <2>1, <2>2
  <1> DEFINE F == [w \in WalkType |-> WalkStep(w)]
  <1>2. F \in [WalkType -> WalkType] BY <1>1
  <1>3. WalkStart \in WalkType
    <2>1. 0 \in Addresses BY HeapAssumption, SMTT(30) DEF Addresses
    <2> QED BY <2>1 DEF WalkStart, WalkType
  <1> HIDE DEF F
  <1>4. PICK g : Iterates(g, WalkType, WalkStart, F) BY <1>2, <1>3, Iteration
  <1>5. g \in [Nat -> WalkType] /\ g[0] = WalkStart /\ \A n \in Nat : g[n + 1] = WalkStep(g[n])
    <2>1. g \in [Nat -> WalkType] /\ g[0] = WalkStart /\ \A n \in Nat : g[n + 1] = F[g[n]] BY <1>4 DEF Iterates
    <2> QED BY <2>1 DEF F
  <1> DEFINE E(v) == v = [n \in Nat |-> IF n = 0 THEN WalkStart ELSE WalkStep(v[n - 1])]
  <1>6. E(g)
    <2>1. ASSUME NEW n \in Nat PROVE g[n] = IF n = 0 THEN WalkStart ELSE WalkStep(g[n - 1])
      <3>1. CASE n = 0 BY <3>1, <1>5
      <3>2. CASE n # 0
        <4>1. n - 1 \in Nat /\ n - 1 + 1 = n BY <3>2, SMTT(30)
        <4>2. g[n - 1 + 1] = WalkStep(g[n - 1]) BY <4>1, <1>5
        <4> QED BY <3>2, <4>1, <4>2
      <3> QED BY <3>1, <3>2
    <2> QED BY <2>1, <1>5
  <1>7. Walk = CHOOSE v : E(v) BY DEF Walk, WalkStep, WalkStart
  <1>8. E(Walk)
    <2> HIDE DEF E
    <2> QED BY <1>6, <1>7
  <1> DEFINE v == Walk
  <1>9. v = [n \in Nat |-> IF n = 0 THEN WalkStart ELSE WalkStep(v[n - 1])] BY <1>8
  <1> HIDE DEF v
  <1>10. \A n \in Nat : v[n] = IF n = 0 THEN WalkStart ELSE WalkStep(v[n - 1]) BY <1>9
  <1>11. v[0] = WalkStart BY <1>10
  <1>12. ASSUME NEW n \in Nat PROVE v[n + 1] = WalkStep(v[n])
    <2>1. n + 1 \in Nat /\ n + 1 # 0 /\ n + 1 - 1 = n BY SMTT(30)
    <2>2. v[n + 1] = WalkStep(v[n + 1 - 1]) BY <2>1, <1>10, SMTT(30)
    <2> QED BY <2>1, <2>2
  <1> QED BY <1>11, <1>12 DEF v

\* Past zeros the sum stays the same.
LEMMA SumsFlat ==
    ASSUME NEW f \in [Nat -> Nat], NEW a \in Nat, NEW n \in Nat, a <= n, \A i \in a..n - 1 : f[i] = 0
    PROVE Sums(f)[n] = Sums(f)[a]
  <1> DEFINE s == Sums(f)
             T == {i \in Nat : a <= i /\ i <= n => s[i] = s[a]}
  <1>1. s \in [Nat -> Nat] /\ \A i \in Nat : s[i + 1] = s[i] + f[i] BY SumsDef
  <1> HIDE DEF s
  <1>2. 0 \in T BY <1>1, SMTT(30)
  <1>3. ASSUME NEW i \in Nat, i \in T PROVE i + 1 \in T
    <2>1. SUFFICES ASSUME a <= i + 1, i + 1 <= n PROVE s[i + 1] = s[a] BY SMTT(30)
    <2>2. CASE a = i + 1 BY <2>2
    <2>3. CASE a # i + 1
      <3>1. i \in a..n - 1 BY <2>1, <2>3, SMTT(30)
      <3>2. f[i] = 0 /\ s[i] = s[a] BY <3>1, <1>3, SMTT(30)
      <3>3. s[i + 1] = s[i] + f[i] /\ s[i] \in Nat BY <1>1
      <3> QED BY <3>2, <3>3, SMTT(30)
    <2> QED BY <2>2, <2>3
  <1> HIDE DEF T
  <1>4. n \in T BY <1>2, <1>3, Induction
  <1> QED BY <1>4, SMTT(30) DEF T, s

\* Where the walk is after n blocks: at a block that lies at least n headers on, or
\* at the end of the mapped memory; it has counted the free bytes before it.
WalkAt(w, n) ==
    /\ w.ok = TRUE /\ w.address \in Nat /\ w.free = Sums(Weight(headers))[w.address]
    /\ \/ w.block = Null /\ w.address = heap_mapped
       \/ /\ w.block \in InList(headers) /\ w.address = w.block /\ w.previous = headers[w.block].prev
          /\ w.address >= n * Header

\* One block further it is again at such a place.
LEMMA WalkOn ==
    ASSUME IInv, Tiled(headers, heap_mapped), NEW w, NEW n \in Nat, WalkAt(w, n)
    PROVE WalkAt(WalkStep(w), n + 1)
  <1>1. ListOK(headers, heap_mapped) /\ heap_mapped \in 0..Limit /\ headers \in [Addresses -> HeaderType]
    BY DEF IInv, ListOK
  <1>2. Header \in Nat \ {0} /\ Limit \in Nat /\ Null \notin Nat BY HeapAssumption
  <1>3. CASE w.block = Null
    <2>1. WalkStep(w) = w BY <1>3 DEF WalkStep
    <2>2. w.block \notin InList(headers) BY <1>2, <1>3, SMTT(30) DEF InList, Addresses
    <2> QED BY <2>1, <2>2, <1>3 DEF WalkAt
  <1>4. CASE w.block # Null
    <2> DEFINE b == w.block
               h == headers[b]
               e == EndOf(headers, b)
               W == Weight(headers)
               k == /\ w.block = w.address /\ h.magic = "HEAP_MAGIC" /\ h.prev = w.previous
                    /\ h.size # 0 /\ h.size <= Limit
               f == w.free + (IF h.free THEN h.size ELSE 0)
    <2>1. /\ b \in InList(headers) /\ w.address = b /\ w.previous = h.prev /\ b >= n * Header
          /\ w.ok = TRUE /\ w.free = Sums(W)[b]
      BY <1>4 DEF WalkAt
    <2>2. /\ b \in Nat /\ h.size \in Nat \ {0} /\ e = b + Header + h.size /\ e \in Nat /\ e <= heap_mapped
          /\ h.free \in BOOLEAN
      BY <2>1, <1>1, BlockFacts
    <2>3. k
      <3>1. h.magic = "HEAP_MAGIC" BY <2>1 DEF InList
      <3>2. h.size # 0 /\ h.size <= Limit BY <2>2, <1>1, <1>2, SMTT(30)
      <3> QED BY <2>1, <3>1, <3>2
    <2>4. WalkStep(w) = [block |-> h.next, address |-> End(b), previous |-> b, free |-> f, ok |-> k]
      <3>1. ~(w.block = Null \/ ~w.ok) BY <1>4, <2>1
      <3> QED BY <3>1 DEF WalkStep
    <2>5. End(b) = e BY DEF End, EndOf
    <2> HIDE DEF k, f, e
    <2>6. f = Sums(W)[e]
      <3> HIDE DEF b, W
      <3>1. W \in [Nat -> Nat] BY <1>1, FreeBytesType DEF W
      <3>2. Sums(W) \in [Nat -> Nat] /\ Sums(W)[b + 1] = Sums(W)[b] + W[b] BY <2>2, <3>1, SumsDef
      <3>3. W[b] = IF h.free THEN h.size ELSE 0 BY <2>1, <2>2 DEF W, Weight
      <3>4. ASSUME NEW i \in (b + 1)..(e - 1) PROVE W[i] = 0
        <4>1. i \in Nat /\ b < i /\ i < e BY <2>2, SMTT(30)
        <4>2. i \notin InList(headers) BY <4>1, <2>1, <2>2, <1>1, SMTT(30) DEF ListOK, Apart, e
        <4> QED BY <4>1, <4>2 DEF W, Weight
      <3>5. b + 1 \in Nat /\ b + 1 <= e BY <2>2, <1>2, SMTT(30)
      <3>6. Sums(W)[e] = Sums(W)[b + 1] BY <2>2, <3>1, <3>4, <3>5, SumsFlat
      <3>7. Sums(W)[e] = w.free + W[b] BY <2>1, <3>2, <3>6
      <3> QED BY <3>3, <3>7 DEF f
    <2>7. e >= (n + 1) * Header
      <3>1. (n + 1) * Header = n * Header + Header /\ n * Header \in Nat BY <1>2, SMTT(30)
      <3> QED BY <2>1, <2>2, <3>1, <1>2, SMTT(30)
    <2>8. h.next = Null => e = heap_mapped BY <2>1 DEF Tiled, e
    <2>9. h.next # Null => h.next \in InList(headers) /\ h.next = e /\ headers[h.next].prev = b
      BY <2>1, <1>1 DEF ListOK, Forward, Tiled, e
    <2> HIDE DEF h, b
    <2> DEFINE v == WalkStep(w)
    <2>10. v.block = h.next /\ v.address = e /\ v.previous = b /\ v.free = f /\ v.ok = k BY <2>4, <2>5, SMTT(30)
    <2> HIDE DEF v
    <2>11. v.ok = TRUE BY <2>3, <2>10
    <2>12. WalkAt(v, n + 1) BY <2>2, <2>6, <2>7, <2>8, <2>9, <2>10, <2>11 DEF WalkAt, W
    <2> QED BY <2>12 DEF v
  <1> QED BY <1>3, <1>4

\* The walk passes every check, ends at the end of the mapped memory and counts as
\* many free bytes as the heap does.
LEMMA Validates ==
    ASSUME IInv, Tiled(headers, heap_mapped)
    PROVE kheap_validate
  <1>1. ListOK(headers, heap_mapped) /\ heap_mapped \in 0..Limit /\ headers \in [Addresses -> HeaderType]
        /\ heap_free = FreeBytes(headers)
    BY DEF IInv, ListOK
  <1>2. Header \in Nat \ {0} /\ Limit \in Nat /\ Null \notin Nat BY HeapAssumption
  <1> DEFINE T == {n \in Nat : WalkAt(Walk[n], n)}
             N == Limit \div Header + 1
             w == Walk[N]
  <1>3. Walk[0] = WalkStart /\ \A n \in Nat : Walk[n + 1] = WalkStep(Walk[n]) BY <1>1, WalkDef
  <1>4. 0 \in T
    <2>1. 0 \in InList(headers) /\ headers[0].prev = Null BY <1>1 DEF ListOK, Backward
    <2>2. Sums(Weight(headers))[0] = 0
      <3>1. Weight(headers) \in [Nat -> Nat] BY <1>1, FreeBytesType
      <3> QED BY <3>1, SumsDef
    <2>3. WalkStart.block = 0 /\ WalkStart.address = 0 /\ WalkStart.previous = Null /\ WalkStart.free = 0
          /\ WalkStart.ok = TRUE
      BY DEF WalkStart
    <2>4. 0 >= 0 * Header BY <1>2, SMTT(30)
    <2>5. WalkAt(WalkStart, 0) BY <2>1, <2>2, <2>3, <2>4, SMTT(30) DEF WalkAt
    <2> QED BY <2>5, <1>3
  <1>5. ASSUME NEW n \in Nat, n \in T PROVE n + 1 \in T
    <2>1. WalkAt(Walk[n], n) BY <1>5
    <2>2. WalkAt(WalkStep(Walk[n]), n + 1) BY <2>1, WalkOn
    <2>3. WalkAt(Walk[n + 1], n + 1) BY <2>2, <1>3
    <2> QED BY <2>3, SMTT(30)
  <1> HIDE DEF T
  <1>6. N \in Nat /\ N * Header > Limit
    <2> DEFINE q == Limit \div Header
    <2>1. q \in Nat /\ Limit % Header \in 0..Header - 1 /\ Limit = Header * q + (Limit % Header) BY <1>2, SMTT(30)
    <2> HIDE DEF q
    <2>2. (q + 1) * Header = Header * q + Header BY <2>1, <1>2, SMTT(30)
    <2>3. Header * q \in Nat BY <2>1, <1>2, SMTT(30)
    <2> QED BY <2>1, <2>2, <2>3, <1>2, SMTT(30) DEF q
  <1> HIDE DEF N
  <1>7. N \in T BY <1>4, <1>5, <1>6, Induction
  <1>8. WalkAt(w, N) BY <1>7 DEF T
  <1> HIDE DEF w
  <1>9. w.block = Null /\ w.address = heap_mapped
    <2>1. CASE w.block \in InList(headers) /\ w.address = w.block /\ w.address >= N * Header
      <3>1. w.address \in Nat /\ w.address < Limit BY <2>1, <1>2, SMTT(30) DEF InList, Addresses
      <3>2. N * Header \in Nat BY <1>2, <1>6, SMTT(30)
      <3> QED BY <2>1, <3>1, <3>2, <1>2, <1>6, SMTT(30)
    <2> QED BY <2>1, <1>8 DEF WalkAt
  <1>10. w.free = heap_free
    <2> DEFINE W == Weight(headers)
    <2>1. W \in [Nat -> Nat] BY <1>1, FreeBytesType
    <2>2. ASSUME NEW i \in heap_mapped..Limit - 1 PROVE W[i] = 0
      <3>1. i \in Nat /\ i >= heap_mapped BY <1>1, SMTT(30)
      <3>2. i \notin InList(headers)
        <4>1. ASSUME i \in InList(headers) PROVE FALSE
          <5>1. EndOf(headers, i) \in Nat /\ i < EndOf(headers, i) /\ EndOf(headers, i) <= heap_mapped
            BY <4>1, <1>1, BlockFacts
          <5> QED BY <5>1, <3>1, <1>1, SMTT(30)
        <4> QED BY <4>1
      <3> QED BY <3>1, <3>2 DEF Weight
    <2> HIDE DEF W
    <2>3. heap_mapped \in Nat /\ heap_mapped <= Limit BY <1>1, SMTT(30)
    <2>4. Sums(W)[Limit] = Sums(W)[heap_mapped] BY <2>1, <2>2, <2>3, <1>2, SumsFlat
    <2>5. w.free = Sums(W)[heap_mapped] BY <1>8, <1>9 DEF WalkAt, W
    <2> QED BY <2>4, <2>5, <1>1 DEF FreeBytes, W
  <1>11. w.ok BY <1>8 DEF WalkAt
  <1> QED BY <1>9, <1>10, <1>11 DEF kheap_validate, w, N

\* As long as no growth has failed half-way, kheap_validate finds the heap in order,
\* and free neighbours have been merged.
THEOREM HeapValid == Spec => []Valid
  <1>1. Init => IInv BY InitIInv
  <1>2. IInv /\ [Next]_vars => IInv' BY NextIInv
  <1>3. IInv => Valid
    <2>1. SUFFICES ASSUME IInv, ~exhausted PROVE kheap_validate /\ Merged BY DEF Valid
    <2>2. Tiled(headers, heap_mapped) /\ NoTwoFree(headers, Null) BY <2>1 DEF IInv
    <2>3. Merged BY <2>2 DEF Merged, NoTwoFree, Joins, Blocks, InList
    <2> QED BY <2>1, <2>2, <2>3, Validates
  <1> QED BY <1>1, <1>2, <1>3, PTL DEF Spec
=============================================================================
