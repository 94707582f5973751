----------------------------- MODULE PmmProofs -----------------------------
(***************************************************************************)
(* Proofs about Pmm, for every page size, memory map and set of amounts.   *)
(***************************************************************************)
EXTENDS Pmm, FiniteSetTheorems, SequenceTheorems,
        WellFoundedInduction, TLAPS

(***************************************************************************)
(* Page arithmetic.                                                        *)
(***************************************************************************)

\* A page index survives the multiplication by PAGE_SIZE at pmm.c:93 and the
\* division at pmm.c:66.
LEMMA DivMul ==
    ASSUME NEW i \in Nat
    PROVE  (i * PAGE_SIZE) \div PAGE_SIZE = i
  <1>1. PAGE_SIZE \in Nat /\ PAGE_SIZE > 0
    BY PageSizeAssumption
  <1>2. QED
    BY <1>1, SMTT(30)

\* The page after a page-aligned range, as pmm.c:106 computes it.
LEMMA DivMulAdd ==
    ASSUME NEW i \in Nat, NEW k \in Nat
    PROVE  (i * PAGE_SIZE + k * PAGE_SIZE) \div PAGE_SIZE = i + k
  <1>1. PAGE_SIZE \in Nat /\ PAGE_SIZE > 0
    BY PageSizeAssumption
  <1>2. i * PAGE_SIZE + k * PAGE_SIZE = (i + k) * PAGE_SIZE
    BY <1>1, SMTT(30)
  <1>3. QED
    BY <1>2, DivMul

\* Byte counts become page counts.
LEMMA DivNat ==
    ASSUME NEW n \in Nat
    PROVE  n \div PAGE_SIZE \in Nat
    BY PageSizeAssumption, SMTT(30)

\* A positive byte count asks for at least one page.
LEMMA PagesForPositive ==
    ASSUME NEW n \in Nat
    PROVE  PagesFor(n) \in Nat /\ (n > 0 => PagesFor(n) > 0)
    BY PageSizeAssumption, SMTT(30) DEF PagesFor

\* ALIGN_UP rounds a byte count up to a page boundary.
LEMMA AlignUpBounds ==
    ASSUME NEW n \in Nat
    PROVE  /\ PagesFor(n) \in Nat
           /\ AlignUp(n) = PagesFor(n) * PAGE_SIZE
           /\ AlignUp(n) >= n
           /\ \A l \in Nat : n <= l * PAGE_SIZE => PagesFor(n) <= l
  <1>1. PAGE_SIZE \in Nat /\ PAGE_SIZE > 0
    BY PageSizeAssumption
  <1>2. PagesFor(n) \in Nat /\ AlignUp(n) = PagesFor(n) * PAGE_SIZE
    BY PagesForPositive DEF AlignUp, PagesFor
  <1>3. PagesFor(n) * PAGE_SIZE >= n
    BY <1>1, SMTT(30) DEF PagesFor
  <1>4. ASSUME NEW l \in Nat, n <= l * PAGE_SIZE PROVE PagesFor(n) <= l
    BY <1>1, <1>4, SMTT(30) DEF PagesFor
  <1>5. QED
    BY <1>2, <1>3, <1>4

\* A multiple of the page size is some number of pages.
LEMMA Aligned ==
    ASSUME NEW n \in Nat, n % PAGE_SIZE = 0
    PROVE  \E k \in Nat : n = k * PAGE_SIZE
  <1>1. n \div PAGE_SIZE \in Nat /\ n = (n \div PAGE_SIZE) * PAGE_SIZE
    BY PageSizeAssumption, SMTT(30)
  <1>2. QED
    BY <1>1

\* Aligning an aligned byte count changes nothing.
LEMMA AlignOfMultiple ==
    ASSUME NEW k \in Nat
    PROVE  /\ PagesFor(k * PAGE_SIZE) = k
           /\ AlignUp(k * PAGE_SIZE) = k * PAGE_SIZE
           /\ AlignDown(k * PAGE_SIZE) = k * PAGE_SIZE
           /\ k * PAGE_SIZE \in Nat
  <1>1. PAGE_SIZE \in Nat /\ PAGE_SIZE > 0
    BY PageSizeAssumption
  <1>2. PagesFor(k * PAGE_SIZE) = k
    BY <1>1, SMTT(30) DEF PagesFor
  <1>3. QED
    BY <1>1, <1>2, DivMul DEF AlignUp, AlignDown, PagesFor

\* The bits pmm_init clears for an aligned entry.
LEMMA EntryPages ==
    ASSUME NEW b \in Nat, NEW l \in Nat, NEW e,
           e.base = b * PAGE_SIZE, e.length = l * PAGE_SIZE
    PROVE  PagesOf(EntryRange(e)) = b .. b + l - 1
  <1>1. EntryRange(e) = [base |-> b * PAGE_SIZE, length |-> l * PAGE_SIZE]
    BY AlignOfMultiple DEF EntryRange
  <1>2. FirstPage(EntryRange(e)) = b /\ PagesIn(EntryRange(e)) = l
    BY <1>1, DivMul DEF FirstPage, PagesIn
  <1>3. QED
    BY <1>2 DEF PagesOf

\* The bits of a range are page indexes.
LEMMA PagesOfNat ==
    ASSUME NEW r \in range_t
    PROVE  PagesOf(r) \subseteq Nat /\ PagesIn(r) \in Nat /\ FirstPage(r) \in Nat
  <1>1. r.base \in Nat /\ r.length \in Nat
    BY DEF range_t
  <1>2. PagesIn(r) \in Nat /\ FirstPage(r) \in Nat
    BY <1>1, DivNat DEF PagesIn, FirstPage
  <1>3. QED
    BY <1>2 DEF PagesOf

\* What a successful scan returns: page-aligned, at or after last_page.
LEMMA FoundRange ==
    ASSUME NEW bits, NEW from \in Nat, NEW limit \in Nat, NEW amount \in Nat,
           NEW r \in FoundRanges(bits, from, limit, amount)
    PROVE  /\ r \in range_t
           /\ amount = 0 => r.length = 0
           /\ amount > 0 => \E page \in Nat, n \in Nat \ {0} :
                /\ page >= from
                /\ page + n <= limit
                /\ FirstPage(r) = page
                /\ PagesIn(r) = n
                /\ PagesOf(r) = page .. page + n - 1
                /\ PagesOf(r) \cap bits = {}
                /\ (r.base + r.length) \div PAGE_SIZE = page + n
                /\ r.length > 0
  <1>1. CASE amount = 0
    BY <1>1 DEF FoundRanges, range_t
  <1>2. CASE amount # 0
    <2> DEFINE n == PagesFor(amount)
    <2>1. n \in Nat \ {0}
      BY <1>2, PagesForPositive
    <2>2. PICK page \in FoundAt(bits, from, limit, amount) :
             r = [base |-> page * PAGE_SIZE, length |-> n * PAGE_SIZE]
      BY <1>2 DEF FoundRanges
    <2>3. page \in Nat /\ page >= from /\ IsFit(bits, from, limit, n, page)
      BY <2>2 DEF FoundAt
    <2>4. PAGE_SIZE \in Nat /\ PAGE_SIZE > 0
      BY PageSizeAssumption
    <2>5. page * PAGE_SIZE \in Nat /\ n * PAGE_SIZE \in Nat /\ n * PAGE_SIZE > 0
      <3> HIDE DEF n
      <3> QED BY <2>1, <2>3, <2>4, SMTT(30)
    <2>6. r \in range_t /\ r.length > 0
      <3> HIDE DEF n
      <3> QED BY <2>2, <2>5 DEF range_t
    <2>7. FirstPage(r) = page /\ PagesIn(r) = n
      <3> HIDE DEF n
      <3> QED BY <2>1, <2>2, <2>3, DivMul DEF FirstPage, PagesIn
    <2>8. PagesOf(r) = page .. page + n - 1
      BY <2>7 DEF PagesOf
    <2>9. (r.base + r.length) \div PAGE_SIZE = page + n
      <3> HIDE DEF n
      <3> QED BY <2>1, <2>2, <2>3, DivMulAdd
    <2>10. page + n <= limit /\ PagesOf(r) \cap bits = {}
      <3> HIDE DEF n
      <3> QED BY <2>3, <2>8 DEF IsFit
    <2>11. QED
      <3> HIDE DEF n
      <3> QED BY <1>2, <2>1, <2>3, <2>6, <2>7, <2>8, <2>9, <2>10
  <1>3. QED
    BY <1>1, <1>2

-----------------------------------------------------------------------------
(***************************************************************************)
(* The inductive invariant: while the system runs, every page ever handed  *)
(* out lies below last_page, which is what keeps a freed page from being   *)
(* found again, and hence a second pmm_free of it from touching a page     *)
(* somebody else holds.                                                    *)
(***************************************************************************)
Issued == held \cup stale

IssuedBelowLastPage ==
    status = "running" =>
        \A r \in Issued : \A p \in PagesOf(r) : p < last_page

IssuedDisjoint ==
    \A r, s \in Issued : r # s => PagesOf(r) \cap PagesOf(s) = {}

HeldMarked == \A r \in held : PagesOf(r) \subseteq bitmap

NothingIssuedAtBoot == status = "boot" => held = {} /\ stale = {}

HeldNotStale == held \cap stale = {}

\* A range that was handed out is not empty, so it differs from every other.
IssuedNonEmpty == \A r \in Issued : PagesOf(r) # {}

\* Until pmm_init has run, the map is the one the boot loader handed over.
MapAtBoot == status = "boot" => memory_map \in MemoryMaps

\* What the scan may still find, and what it ever found, is usable memory.
ClearIsUsable ==
    status = "running" =>
        \A p \in 0 .. 8 * bitmap_size - 1 : p \notin bitmap => UsablePage(p)

IssuedIsUsable == \A r \in Issued : \A p \in PagesOf(r) : UsablePage(p)

IInv ==
    /\ TypeOK
    /\ MapAtBoot
    /\ ClearIsUsable
    /\ IssuedIsUsable
    /\ IssuedBelowLastPage
    /\ IssuedDisjoint
    /\ HeldMarked
    /\ NothingIssuedAtBoot
    /\ HeldNotStale
    /\ IssuedNonEmpty

\* Before pmm_init nothing is mapped, marked or held.
LEMMA InitIInv == Init => IInv
  <1> SUFFICES ASSUME Init PROVE IInv
    OBVIOUS
  <1>1. memory_map \in Seq([base : Nat, length : Nat, is_free : BOOLEAN])
    BY MemoryMapsAssumption DEF Init, WellFormedMap
  <1>2. TypeOK
    <2>1. refreed \in BOOLEAN
      BY Zenon DEF Init
    <2>2. usable_pages \in 0 .. SizeRange - 1
      BY SizeRangeAssumption, SMT DEF Init
    <2>3. QED
      BY <1>1, <2>1, <2>2 DEF Init, TypeOK
  <1>3. QED
    BY <1>2 DEF Init, IInv, IssuedBelowLastPage, IssuedDisjoint, HeldMarked,
                NothingIssuedAtBoot, HeldNotStale, IssuedNonEmpty, Issued,
                MapAtBoot, ClearIsUsable, IssuedIsUsable

\* usable_pages stays a size_t.
LEMMA WrapsAround ==
    ASSUME NEW n \in Int
    PROVE  n % SizeRange \in 0 .. SizeRange - 1
    BY SizeRangeAssumption, SMTT(30)

\* The size of the bitmap of a well-formed map is a number of bytes.
LEMMA BitmapSizeNat ==
    ASSUME NEW map, WellFormedMap(map)
    PROVE  BitmapSize(map) \in Nat \ {0}
  <1>1. Len(map) \in 1 .. Len(map)
    BY EmptySeq, LenProperties DEF WellFormedMap
  <1>2. map[Len(map)] \in [base : Nat, length : Nat, is_free : BOOLEAN]
    BY <1>1, ElementOfSeq DEF WellFormedMap
  <1>3. MemoryEnd(map) \in Nat
    BY <1>2 DEF MemoryEnd
  <1>4. PAGE_SIZE * 8 \in Nat /\ PAGE_SIZE * 8 > 0
    BY PageSizeAssumption
  <1>5. BitmapSize(map) \in Nat
    <2> DEFINE d == PAGE_SIZE * 8
           n == MemoryEnd(map)
    <2>1. n \in Nat /\ d \in Nat /\ d > 0
      BY <1>3, <1>4
    <2> HIDE DEF d, n
    <2>2. n \div d \in Nat
      BY <2>1, SMTT(30)
    <2>3. QED
      BY <2>2 DEF BitmapSize, d, n
  <1>6. QED
    BY <1>5 DEF WellFormedMap

\* A set of indexes has a least element: the entry the loop at pmm.c:157 meets
\* first.
LEMMA LeastHost ==
    ASSUME NEW S \in SUBSET Nat, S # {}
    PROVE  \E i \in S : \A j \in S : i <= j
  <1>1. PICK i \in S : \A j \in S : ~(<< j, i >> \in OpToRel(<, Nat))
    BY NatLessThanWellFounded, WFMin
  <1>2. \A j \in S : ~(j < i)
    BY <1>1 DEF OpToRel
  <1>3. QED
    BY <1>2

\* Trimming keeps the entries aligned, moves the host's base past the bitmap
\* and leaves the others alone.
LEMMA Trimming ==
    ASSUME NEW map, WellFormedMap(map), HostEntries(map) # {}
    PROVE  /\ BitmapHost(map) \in HostEntries(map)
           /\ TrimmedMap(map) \in Seq([base : Nat, length : Nat, is_free : BOOLEAN])
           /\ Len(TrimmedMap(map)) = Len(map)
           /\ \A i \in 1 .. Len(map) : TrimmedMap(map)[i].is_free = map[i].is_free
           /\ \A i \in 1 .. Len(map) : map[i].is_free =>
                \E b \in Nat, l \in Nat :
                   /\ TrimmedMap(map)[i].base = b * PAGE_SIZE
                   /\ TrimmedMap(map)[i].length = l * PAGE_SIZE
                   /\ b + l <= 8 * BitmapSize(map)
                   /\ IF i = BitmapHost(map)
                      THEN /\ b * PAGE_SIZE >= map[i].base + BitmapSize(map)
                           /\ (b + l) * PAGE_SIZE = map[i].base + map[i].length
                      ELSE TrimmedMap(map)[i] = map[i]
  <1> DEFINE Entry == [base : Nat, length : Nat, is_free : BOOLEAN]
             h == BitmapHost(map)
             size == BitmapSize(map)
             c == PagesFor(size)
             trimmed == [base |-> map[h].base + AlignUp(size),
                         length |-> map[h].length - AlignUp(size),
                         is_free |-> map[h].is_free]
  <1>1. h \in HostEntries(map)
    <2>1. HostEntries(map) \in SUBSET Nat /\ HostEntries(map) # {}
      BY DEF HostEntries
    <2>2. \E i \in HostEntries(map) : \A j \in HostEntries(map) : i <= j
      BY <2>1, LeastHost
    <2>3. QED
      BY <2>2 DEF BitmapHost
  <1>2. map \in Seq(Entry) /\ h \in 1 .. Len(map) /\ map[h].is_free
    BY <1>1 DEF WellFormedMap, HostEntries
  <1>3. size \in Nat /\ map[h].length > size /\ map[h] \in Entry
    BY <1>1, <1>2, BitmapSizeNat, ElementOfSeq DEF HostEntries
  <1>4. \A i \in 1 .. Len(map) : map[i].is_free =>
          \E b \in Nat, l \in Nat :
             /\ map[i].base = b * PAGE_SIZE
             /\ map[i].length = l * PAGE_SIZE
             /\ b + l <= 8 * size
    <2> SUFFICES ASSUME NEW i \in 1 .. Len(map), map[i].is_free
                 PROVE  \E b \in Nat, l \in Nat :
                           /\ map[i].base = b * PAGE_SIZE
                           /\ map[i].length = l * PAGE_SIZE
                           /\ b + l <= 8 * size
      OBVIOUS
    <2>1. map[i] \in Entry
      BY <1>2, ElementOfSeq
    <2>2. /\ map[i].base % PAGE_SIZE = 0
          /\ map[i].length % PAGE_SIZE = 0
          /\ (map[i].base + map[i].length) \div PAGE_SIZE <= 8 * size
      BY DEF WellFormedMap
    <2>3. PICK b \in Nat : map[i].base = b * PAGE_SIZE
      BY <2>1, <2>2, Aligned
    <2>4. PICK l \in Nat : map[i].length = l * PAGE_SIZE
      BY <2>1, <2>2, Aligned
    <2>5. b + l <= 8 * size
      BY <2>2, <2>3, <2>4, DivMulAdd
    <2>6. QED
      BY <2>3, <2>4, <2>5
  <1>5. PICK b \in Nat, l \in Nat :
           /\ map[h].base = b * PAGE_SIZE
           /\ map[h].length = l * PAGE_SIZE
           /\ b + l <= 8 * size
    BY <1>2, <1>4
  <1>6. /\ c \in Nat
        /\ AlignUp(size) = c * PAGE_SIZE
        /\ AlignUp(size) >= size
        /\ c <= l
    <2> HIDE DEF size, h
    <2>1. size <= l * PAGE_SIZE
      BY <1>3, <1>5, PageSizeAssumption
    <2>2. QED
      BY <1>3, <2>1, AlignUpBounds
  <1>7. PAGE_SIZE \in Nat /\ PAGE_SIZE > 0
    BY PageSizeAssumption
  <1>8. /\ trimmed.base = (b + c) * PAGE_SIZE
        /\ trimmed.length = (l - c) * PAGE_SIZE
        /\ (b + c) * PAGE_SIZE >= map[h].base + size
        /\ ((b + c) + (l - c)) * PAGE_SIZE = map[h].base + map[h].length
        /\ b + c \in Nat /\ l - c \in Nat
        /\ trimmed.base \in Nat /\ trimmed.length \in Nat
    <2> HIDE DEF size, h, c
    <2>1. b + c \in Nat /\ l - c \in Nat
      BY <1>6
    <2>2. (b + c) * PAGE_SIZE = b * PAGE_SIZE + c * PAGE_SIZE
      BY <1>6, <1>7, SMTT(30)
    <2>3. (l - c) * PAGE_SIZE = l * PAGE_SIZE - c * PAGE_SIZE
      BY <1>6, <1>7, SMTT(30)
    <2>4. ((b + c) + (l - c)) * PAGE_SIZE = b * PAGE_SIZE + l * PAGE_SIZE
      BY <1>6, <1>7, SMTT(30)
    <2>5. (b + c) * PAGE_SIZE \in Nat /\ (l - c) * PAGE_SIZE \in Nat
      BY <1>7, <2>1, SMTT(30)
    <2>6. b * PAGE_SIZE \in Nat
      BY <1>7, SMTT(30)
    <2>7. /\ trimmed.base = b * PAGE_SIZE + c * PAGE_SIZE
          /\ trimmed.length = l * PAGE_SIZE - c * PAGE_SIZE
      BY <1>5, <1>6
    <2>8. (b + c) * PAGE_SIZE >= map[h].base + size
      <3>1. c * PAGE_SIZE >= size /\ c * PAGE_SIZE \in Nat
        BY <1>6, <1>7, SMTT(30)
      <3>2. b * PAGE_SIZE + c * PAGE_SIZE >= b * PAGE_SIZE + size
        <4> DEFINE x == c * PAGE_SIZE
                   y == b * PAGE_SIZE
        <4>1. x \in Nat /\ y \in Nat /\ size \in Nat /\ x >= size
          BY <1>3, <2>6, <3>1
        <4> HIDE DEF x, y
        <4>2. y + x >= y + size
          BY <4>1
        <4>3. QED
          BY <4>2 DEF x, y
      <3>3. QED
        BY <1>5, <2>2, <3>2
    <2>9. QED
      BY <1>5, <2>1, <2>2, <2>3, <2>4, <2>5, <2>7, <2>8
  <1>9. trimmed \in Entry
    BY <1>3, <1>8
  <1>10. TrimmedMap(map) = [map EXCEPT ![h] = trimmed]
    BY DEF TrimmedMap
  <1>11. /\ TrimmedMap(map) \in Seq(Entry)
         /\ Len(TrimmedMap(map)) = Len(map)
         /\ \A j \in 1 .. Len(map) :
               TrimmedMap(map)[j] = IF j = h THEN trimmed ELSE map[j]
    <2> HIDE DEF trimmed, h, Entry
    <2> QED BY <1>2, <1>9, <1>10, ExceptSeq
  <1>12. ASSUME NEW i \in 1 .. Len(map), map[i].is_free
         PROVE  \E b0 \in Nat, l0 \in Nat :
                   /\ TrimmedMap(map)[i].base = b0 * PAGE_SIZE
                   /\ TrimmedMap(map)[i].length = l0 * PAGE_SIZE
                   /\ b0 + l0 <= 8 * size
                   /\ IF i = h
                      THEN /\ b0 * PAGE_SIZE >= map[i].base + size
                           /\ (b0 + l0) * PAGE_SIZE = map[i].base + map[i].length
                      ELSE TrimmedMap(map)[i] = map[i]
    <2>1. CASE i = h
      <3> HIDE DEF trimmed, h, Entry, size, c
      <3>1. (b + c) + (l - c) <= 8 * size
        BY <1>5, <1>6
      <3>2. TrimmedMap(map)[i] = trimmed
        BY <1>11, <1>12, <2>1
      <3>3. QED
        BY <1>8, <2>1, <3>1, <3>2, Zenon
    <2>2. CASE i # h
      <3> HIDE DEF trimmed, h, Entry, size, c
      <3>1. TrimmedMap(map)[i] = map[i]
        BY <1>11, <1>12, <2>2
      <3>2. QED
        BY <1>4, <1>12, <2>2, <3>1
    <2>3. QED
      BY <2>1, <2>2
  <1>13. \A i \in 1 .. Len(map) : TrimmedMap(map)[i].is_free = map[i].is_free
    BY <1>11
  <1>14. QED
    BY <1>1, <1>11, <1>12, <1>13

\* Every bit pmm_init clears has a bit in the bitmap and is usable memory.
LEMMA UnusedIsUsable ==
    ASSUME IInv, pmm_init
    PROVE  \A p \in UnusedPages(memory_map') :
             p \in 0 .. 8 * BitmapSize(memory_map) - 1 /\ UsablePage(p)'
  <1> DEFINE size == BitmapSize(memory_map)
             h == BitmapHost(memory_map)
             unused == UnusedPages(memory_map')
  <1>1. /\ memory_map' = TrimmedMap(memory_map)
        /\ bitmap_size' = size
        /\ bitmap_base' = memory_map[h].base
        /\ status = "boot"
    BY DEF pmm_init
  <1>2. WellFormedMap(memory_map) /\ HostEntries(memory_map) # {}
    BY <1>1, MemoryMapsAssumption DEF IInv, MapAtBoot, pmm_init
  <1>3. size \in Nat
    BY <1>2, BitmapSizeNat
  <1>4. h \in 1 .. Len(memory_map) /\ memory_map[h].is_free
    BY <1>2, Trimming DEF HostEntries
  <1>5. /\ memory_map \in Seq([base : Nat, length : Nat, is_free : BOOLEAN])
        /\ \A i \in 1 .. Len(memory_map) :
              memory_map[i] \in [base : Nat, length : Nat, is_free : BOOLEAN]
    BY <1>2, ElementOfSeq DEF WellFormedMap
  <1>6. \A i \in FreeEntries(memory_map') :
           i \in 1 .. Len(memory_map) /\ memory_map[i].is_free
    BY <1>1, <1>2, Trimming DEF FreeEntries
  <1>7. \A p \in unused : p \in 0 .. 8 * size - 1 /\ UsablePage(p)'
    <2> SUFFICES ASSUME NEW p \in unused
                 PROVE  p \in 0 .. 8 * size - 1 /\ UsablePage(p)'
      OBVIOUS
    <2>1. PICK i \in FreeEntries(memory_map') : p \in PagesOf(EntryRange(memory_map'[i]))
      BY DEF UnusedPages
    <2>2. i \in 1 .. Len(memory_map) /\ memory_map[i].is_free
      BY <1>6, <2>1
    <2>3. PICK b \in Nat, l \in Nat :
             /\ memory_map'[i].base = b * PAGE_SIZE
             /\ memory_map'[i].length = l * PAGE_SIZE
             /\ b + l <= 8 * size
             /\ IF i = h
                THEN /\ b * PAGE_SIZE >= memory_map[i].base + size
                     /\ (b + l) * PAGE_SIZE = memory_map[i].base + memory_map[i].length
                ELSE memory_map'[i] = memory_map[i]
      BY <1>1, <1>2, <2>2, Trimming
    <2>4. p \in b .. b + l - 1
      BY <2>1, <2>3, EntryPages
    <2>5. p \in Nat /\ p \in 0 .. 8 * size - 1
      BY <1>3, <2>3, <2>4
    <2>6. /\ p * PAGE_SIZE >= b * PAGE_SIZE
          /\ (p + 1) * PAGE_SIZE <= b * PAGE_SIZE + l * PAGE_SIZE
      <3>1. PAGE_SIZE \in Nat /\ PAGE_SIZE > 0 /\ p >= b /\ p + 1 <= b + l
        BY <2>4, <2>5, PageSizeAssumption
      <3>2. p * PAGE_SIZE >= b * PAGE_SIZE
        BY <2>5, <3>1, SMTT(30)
      <3>3. (p + 1) * PAGE_SIZE <= (b + l) * PAGE_SIZE
        BY <2>5, <3>1, SMTT(30)
      <3>4. (b + l) * PAGE_SIZE = b * PAGE_SIZE + l * PAGE_SIZE
        BY <3>1, SMTT(30)
      <3>5. QED
        BY <3>2, <3>3, <3>4
    <2>7. \/ (p + 1) * PAGE_SIZE <= bitmap_base'
          \/ p * PAGE_SIZE >= bitmap_base' + bitmap_size'
      <3> DEFINE lo == p * PAGE_SIZE
                 hi == (p + 1) * PAGE_SIZE
      <3>1. lo \in Nat /\ hi \in Nat
        BY <2>5, PageSizeAssumption, SMTT(30)
      <3>2. /\ memory_map[i].base \in Nat /\ memory_map[i].length \in Nat
            /\ memory_map[h].base \in Nat /\ memory_map[h].length \in Nat
        BY <1>4, <1>5, <2>2
      <3>3. CASE i = h
        <4>1. b * PAGE_SIZE >= memory_map[h].base + size
          BY <2>3, <3>3
        <4>2. b * PAGE_SIZE \in Nat
          BY PageSizeAssumption, SMTT(30)
        <4>3. lo >= memory_map[h].base + size
          <5> DEFINE x == b * PAGE_SIZE
          <5>1. x \in Nat /\ lo >= x /\ x >= memory_map[h].base + size
            BY <2>6, <4>1, <4>2
          <5> HIDE DEF x, lo, h, size
          <5>2. QED
            BY <1>3, <3>1, <3>2, <5>1
        <4>4. QED
          BY <1>1, <4>3
      <3>4. CASE i # h
        <4>1. memory_map'[i] = memory_map[i]
          BY <2>3, <3>4
        <4>2. /\ lo >= memory_map[i].base
              /\ hi <= memory_map[i].base + memory_map[i].length
          BY <2>3, <2>6, <4>1
        <4>3. \/ memory_map[i].base + memory_map[i].length <= memory_map[h].base
              \/ memory_map[h].base + memory_map[h].length <= memory_map[i].base
          BY <1>2, <1>4, <2>2, <3>4 DEF WellFormedMap
        <4>4. memory_map[h].length > size
          BY <1>2, Trimming DEF HostEntries
        <4>5. hi <= memory_map[h].base \/ lo >= memory_map[h].base + size
          <5> HIDE DEF lo, hi, h, size
          <5> QED BY <1>3, <3>1, <3>2, <4>2, <4>3, <4>4
        <4>6. QED
          BY <1>1, <4>5
      <3>5. QED
        BY <3>3, <3>4
    <2>8. \E j \in FreeEntries(memory_map') :
             /\ p * PAGE_SIZE >= memory_map'[j].base
             /\ (p + 1) * PAGE_SIZE <= memory_map'[j].base + memory_map'[j].length
      BY <2>1, <2>3, <2>6
    <2>9. QED
      BY <2>5, <2>7, <2>8 DEF UsablePage, FreeEntries
  <1>8. QED
    BY <1>7

\* pmm_init builds a bitmap of page indexes and hands nothing out.
LEMMA InitStep == IInv /\ pmm_init => IInv'
  <1> SUFFICES ASSUME IInv, pmm_init PROVE IInv'
    OBVIOUS
  <1> DEFINE size == BitmapSize(memory_map)
             h == BitmapHost(memory_map)
             unused == UnusedPages(memory_map')
             own == [base |-> bitmap_base', length |-> bitmap_size']
  <1>1. /\ memory_map' = TrimmedMap(memory_map)
        /\ bitmap_size' = size
        /\ bitmap_base' = memory_map[h].base
        /\ bitmap' = ((0 .. 8 * bitmap_size' - 1) \ unused) \cup PagesOf(own)
        /\ usable_pages' = (Cardinality(unused) - PagesIn(own)) % SizeRange
        /\ status = "boot" /\ status' = "running"
        /\ UNCHANGED << last_page, held, stale, refreed >>
    BY DEF pmm_init, pmm_range_used
  <1>2. WellFormedMap(memory_map) /\ HostEntries(memory_map) # {}
    BY <1>1, MemoryMapsAssumption DEF IInv, MapAtBoot, pmm_init
  <1>3. size \in Nat
    BY <1>2, BitmapSizeNat
  <1>4. h \in 1 .. Len(memory_map) /\ memory_map[h].is_free
    BY <1>2, Trimming DEF HostEntries
  <1>5. /\ memory_map \in Seq([base : Nat, length : Nat, is_free : BOOLEAN])
        /\ \A i \in 1 .. Len(memory_map) :
              memory_map[i] \in [base : Nat, length : Nat, is_free : BOOLEAN]
    BY <1>2, ElementOfSeq DEF WellFormedMap
  <1>7. \A p \in unused : p \in 0 .. 8 * size - 1 /\ UsablePage(p)'
    BY UnusedIsUsable
  <1>8. TypeOK'
    <2>1. own \in range_t
      BY <1>1, <1>3, <1>4, <1>5 DEF range_t
    <2>2. PagesOf(own) \subseteq Nat /\ PagesIn(own) \in Nat
      BY <2>1, PagesOfNat
    <2>3. IsFiniteSet(unused)
      <3>1. unused \in SUBSET (0 .. 8 * size - 1)
        BY <1>7
      <3>2. 0 \in Int /\ 8 * size - 1 \in Int
        BY <1>3
      <3>3. IsFiniteSet(0 .. 8 * size - 1)
        BY <3>2, FS_Interval
      <3>4. QED
        BY <3>1, <3>3, FS_Subset
    <2>4. Cardinality(unused) \in Nat
      BY <2>3, FS_CardinalityType
    <2>5. Cardinality(unused) - PagesIn(own) \in Int
      BY <2>2, <2>4
    <2>6. usable_pages' \in 0 .. SizeRange - 1
      BY <1>1, <2>5, WrapsAround
    <2>7. bitmap' \subseteq Nat
      BY <1>1, <1>3, <2>2
    <2>8. bitmap_base' \in Nat /\ bitmap_size' \in Nat
      BY <1>1, <1>3, <1>4, <1>5
    <2>9. memory_map' \in Seq([base : Nat, length : Nat, is_free : BOOLEAN])
      BY <1>1, <1>2, Trimming
    <2>10. QED
      BY <1>1, <2>6, <2>7, <2>8, <2>9 DEF IInv, TypeOK
  <1>9. ClearIsUsable'
    BY <1>1, <1>7 DEF ClearIsUsable
  <1>10. QED
    BY <1>1, <1>8, <1>9 DEF IInv, IssuedBelowLastPage, IssuedDisjoint, HeldMarked,
                NothingIssuedAtBoot, HeldNotStale, IssuedNonEmpty, Issued,
                MapAtBoot, IssuedIsUsable

\* Usable memory is what it is once pmm_init has run.
LEMMA UsableUnchanged ==
    ASSUME UNCHANGED << memory_map, bitmap_base, bitmap_size >>, NEW p
    PROVE  UsablePage(p)' <=> UsablePage(p)
    BY DEF UsablePage, FreeEntries

\* A step that stops the system and leaves the issued ranges alone.
LEMMA QuietStep ==
    ASSUME IInv, TypeOK',
           UNCHANGED << bitmap, last_page, held, stale >>,
           \/ UNCHANGED << memory_map, bitmap_base, bitmap_size >>
           \/ status = "boot",
           status' \in {"hung", "panic"}
    PROVE  IInv'
  <1>1. IssuedIsUsable'
    <2>1. CASE UNCHANGED << memory_map, bitmap_base, bitmap_size >>
      BY <2>1, UsableUnchanged DEF IInv, IssuedIsUsable, Issued, PagesOf, FirstPage,
                                   PagesIn
    <2>2. CASE status = "boot"
      BY <2>2 DEF IInv, NothingIssuedAtBoot, IssuedIsUsable, Issued
    <2>3. QED
      BY <2>1, <2>2
  <1>2. QED
    BY <1>1 DEF IInv, IssuedBelowLastPage, IssuedDisjoint, HeldMarked, PagesOf,
           NothingIssuedAtBoot, HeldNotStale, IssuedNonEmpty, Issued,
           FirstPage, PagesIn, MapAtBoot, ClearIsUsable

\* The pages found start at last_page or later, so they are new.
LEMMA AllocStep ==
    ASSUME IInv, NEW amount \in Amounts, pmm_alloc(amount)
    PROVE  IInv'
  <1> USE DEF IInv
  <1>1. PICK range \in Found(amount) :
          LET marked == pmm_range_used(range, bitmap, usable_pages)
          IN  /\ last_page' = (range.base + range.length) \div PAGE_SIZE
              /\ bitmap' = marked.bits
              /\ usable_pages' = marked.count
              /\ IF range.length > 0
                 THEN held' = held \cup {range} /\ status' = status
                 ELSE held' = held /\ status' = "panic"
    BY DEF pmm_alloc
  <1>2. /\ bitmap' = bitmap \cup PagesOf(range)
        /\ usable_pages' = (usable_pages - PagesIn(range)) % SizeRange
        /\ last_page' = (range.base + range.length) \div PAGE_SIZE
    BY <1>1 DEF pmm_range_used
  <1>3. /\ UNCHANGED << memory_map, bitmap_base, bitmap_size, stale, refreed >>
        /\ status = "running"
    BY DEF pmm_alloc
  <1>4. /\ range \in range_t
        /\ amount = 0 => range.length = 0
        /\ amount > 0 => \E page \in Nat, n \in Nat \ {0} :
             /\ page >= last_page
             /\ page + n <= bitmap_size
             /\ FirstPage(range) = page
             /\ PagesIn(range) = n
             /\ PagesOf(range) = page .. page + n - 1
             /\ PagesOf(range) \cap bitmap = {}
             /\ (range.base + range.length) \div PAGE_SIZE = page + n
             /\ range.length > 0
    <2>1. last_page \in Nat /\ bitmap_size \in Nat /\ amount \in Nat
      BY AmountsAssumption DEF TypeOK
    <2>2. range \in FoundRanges(bitmap, last_page, bitmap_size, amount)
      BY <1>1 DEF Found
    <2>3. QED
      BY <2>1, <2>2, FoundRange
  <1>5. TypeOK'
    <2>1. PagesOf(range) \subseteq Nat /\ PagesIn(range) \in Nat
      BY <1>4, PagesOfNat
    <2>2. usable_pages' \in 0 .. SizeRange - 1
      <3>1. usable_pages \in Int
        BY SizeRangeAssumption DEF TypeOK
      <3>2. usable_pages - PagesIn(range) \in Int
        BY <2>1, <3>1
      <3>3. QED
        BY <1>2, <3>2, WrapsAround
    <2>3. last_page' \in Nat
      <3>1. range.base + range.length \in Nat
        BY <1>4 DEF range_t
      <3>2. QED
        BY <1>2, <3>1, DivNat
    <2>4. bitmap' \subseteq Nat
      BY <1>2, <2>1 DEF TypeOK
    <2>5. held' \subseteq range_t /\ status' \in {"boot", "running", "hung", "panic"}
      BY <1>1, <1>4 DEF TypeOK
    <2>6. QED
      BY <1>3, <2>2, <2>3, <2>4, <2>5 DEF TypeOK
  <1>6. CASE amount = 0
    <2>1. held' = held /\ status' = "panic"
      BY <1>1, <1>4, <1>6
    <2>2. QED
      BY <1>2, <1>3, <1>5, <2>1 DEF IssuedBelowLastPage, IssuedDisjoint, HeldMarked,
           NothingIssuedAtBoot, HeldNotStale, IssuedNonEmpty, Issued, PagesOf,
           FirstPage, PagesIn, MapAtBoot, ClearIsUsable, IssuedIsUsable, UsablePage,
           FreeEntries
  <1>7. CASE amount # 0
    <2>1. PICK page \in Nat, n \in Nat \ {0} :
             /\ page >= last_page
             /\ page + n <= bitmap_size
             /\ PagesOf(range) \cap bitmap = {}
             /\ PagesOf(range) = page .. page + n - 1
             /\ (range.base + range.length) \div PAGE_SIZE = page + n
             /\ range.length > 0
      <3>1. amount > 0
        BY <1>7, AmountsAssumption
      <3>2. QED
        BY <1>4, <3>1, Zenon
    <2>2. held' = held \cup {range} /\ status' = "running"
      BY <1>1, <1>3, <2>1
    <2>3. /\ last_page \in Nat /\ last_page' \in Nat
          /\ last_page' = page + n
          /\ last_page <= last_page'
      BY <1>2, <2>1 DEF TypeOK
    <2>4. \A s \in Issued : PagesOf(s) \subseteq Nat
      BY PagesOfNat DEF Issued, TypeOK
    <2>5. \A s \in Issued : PagesOf(s) \cap PagesOf(range) = {}
      <3>1. \A s \in Issued : \A p \in PagesOf(s) : p \in Nat /\ p < last_page
        BY <1>3, <2>4 DEF IssuedBelowLastPage
      <3>2. \A p \in PagesOf(range) : p >= last_page
        BY <2>1, <2>3
      <3>3. \A p \in Nat : ~(p < last_page /\ p >= last_page)
        BY <2>3
      <3>4. QED
        BY <3>1, <3>2, <3>3
    <2>6. PagesOf(range) # {}
      <3>1. page \in PagesOf(range)
        BY <2>1
      <3>2. QED
        BY <3>1
    <2>7. range \notin Issued
      BY <2>5, <2>6
    <2>8. Issued' = Issued \cup {range}
      BY <1>3, <2>2 DEF Issued
    <2>9. IssuedBelowLastPage'
      <3>1. \A p \in PagesOf(range) : p < last_page'
        BY <2>1, <2>3
      <3>2. \A s \in Issued : \A p \in PagesOf(s) : p < last_page'
        BY <1>3, <2>3, <2>4 DEF IssuedBelowLastPage
      <3>3. QED
        BY <2>8, <3>1, <3>2 DEF IssuedBelowLastPage, PagesOf, FirstPage, PagesIn
    <2>10. IssuedDisjoint'
      BY <2>5, <2>8 DEF IssuedDisjoint, PagesOf, FirstPage, PagesIn
    <2>11. HeldMarked'
      BY <1>2, <2>2 DEF HeldMarked, PagesOf, FirstPage, PagesIn
    <2>12. HeldNotStale' /\ NothingIssuedAtBoot'
      BY <1>3, <2>2, <2>7 DEF HeldNotStale, NothingIssuedAtBoot, Issued
    <2>13. IssuedNonEmpty'
      BY <2>6, <2>8 DEF IssuedNonEmpty, PagesOf, FirstPage, PagesIn
    <2>14. \A p : UsablePage(p)' <=> UsablePage(p)
      BY <1>3, UsableUnchanged
    <2>15. ClearIsUsable'
      BY <1>2, <1>3, <2>14 DEF ClearIsUsable
    <2>16. IssuedIsUsable'
      <3>1. \A p \in PagesOf(range) : p \in 0 .. 8 * bitmap_size - 1 /\ p \notin bitmap
        BY <2>1 DEF TypeOK
      <3>2. \A p \in PagesOf(range) : UsablePage(p)
        BY <1>3, <3>1 DEF ClearIsUsable
      <3>3. \A s \in Issued' : \A p \in PagesOf(s) : UsablePage(p)
        BY <2>8, <3>2 DEF IssuedIsUsable
      <3>4. QED
        BY <2>14, <3>3 DEF IssuedIsUsable, PagesOf, FirstPage, PagesIn
    <2>17. QED
      BY <1>3, <1>5, <2>2, <2>9, <2>10, <2>11, <2>12, <2>13, <2>15, <2>16 DEF MapAtBoot
  <1>8. QED
    BY <1>6, <1>7

\* Giving a held range back clears only its own bits.
LEMMA FreeStep ==
    ASSUME IInv, NEW range \in held, pmm_free(range)
    PROVE  IInv'
  <1> USE DEF IInv
  <1>1. /\ bitmap' = bitmap \ PagesOf(range)
        /\ usable_pages' = (usable_pages + PagesIn(range)) % SizeRange
        /\ held' = held \ {range}
        /\ stale' = stale \cup {range}
        /\ UNCHANGED << memory_map, bitmap_base, bitmap_size, last_page, status,
                        refreed >>
    BY DEF pmm_free, pmm_range_unused
  <1>2. range \in range_t
    BY DEF TypeOK
  <1>3. TypeOK'
    <2>1. usable_pages' \in 0 .. SizeRange - 1
      <3>1. usable_pages \in Int /\ PagesIn(range) \in Nat
        BY <1>2, PagesOfNat, SizeRangeAssumption DEF TypeOK
      <3>2. usable_pages + PagesIn(range) \in Int
        BY <3>1
      <3>3. QED
        BY <1>1, <3>2, WrapsAround
    <2>2. bitmap' \subseteq Nat /\ held' \subseteq range_t /\ stale' \subseteq range_t
      BY <1>1, <1>2 DEF TypeOK
    <2>3. QED
      BY <1>1, <2>1, <2>2 DEF TypeOK
  <1>4. Issued' = Issued
    BY <1>1 DEF Issued
  <1>5. IssuedBelowLastPage' /\ IssuedDisjoint' /\ IssuedNonEmpty'
    BY <1>1, <1>4 DEF IssuedBelowLastPage, IssuedDisjoint, IssuedNonEmpty, PagesOf,
                      FirstPage, PagesIn
  <1>6. HeldMarked'
    <2>1. \A s \in held' : PagesOf(s) \cap PagesOf(range) = {}
      BY <1>1 DEF IssuedDisjoint, Issued
    <2>2. \A s \in held' : PagesOf(s) \subseteq bitmap
      BY <1>1 DEF HeldMarked
    <2>3. \A s \in held' : PagesOf(s) \subseteq bitmap'
      BY <1>1, <2>1, <2>2
    <2>4. QED
      BY <2>3 DEF HeldMarked, PagesOf, FirstPage, PagesIn
  <1>7. HeldNotStale' /\ NothingIssuedAtBoot'
    BY <1>1 DEF HeldNotStale, NothingIssuedAtBoot
  <1>8. \A p : UsablePage(p)' <=> UsablePage(p)
    BY <1>1, UsableUnchanged
  <1>9. IssuedIsUsable'
    BY <1>4, <1>8 DEF IssuedIsUsable, PagesOf, FirstPage, PagesIn
  <1>10. ClearIsUsable'
    <2>1. \A p \in PagesOf(range) : UsablePage(p)
      BY DEF IssuedIsUsable, Issued
    <2>2. QED
      BY <1>1, <1>8, <2>1 DEF ClearIsUsable
  <1>11. QED
    BY <1>1, <1>3, <1>5, <1>6, <1>7, <1>9, <1>10 DEF MapAtBoot

\* Nor does freeing a stale range once more: no held page is in it.
LEMMA FreeAgainStep ==
    ASSUME IInv, NEW range \in stale, pmm_free_again(range)
    PROVE  IInv'
  <1> USE DEF IInv
  <1>1. /\ bitmap' = bitmap \ PagesOf(range)
        /\ usable_pages' = (usable_pages + PagesIn(range)) % SizeRange
        /\ refreed' = TRUE
        /\ UNCHANGED << memory_map, bitmap_base, bitmap_size, last_page, status,
                        held, stale >>
    BY DEF pmm_free_again, pmm_range_unused
  <1>2. range \in range_t
    BY DEF TypeOK
  <1>3. TypeOK'
    <2>1. usable_pages' \in 0 .. SizeRange - 1
      <3>1. usable_pages \in Int /\ PagesIn(range) \in Nat
        BY <1>2, PagesOfNat, SizeRangeAssumption DEF TypeOK
      <3>2. usable_pages + PagesIn(range) \in Int
        BY <3>1
      <3>3. QED
        BY <1>1, <3>2, WrapsAround
    <2>2. refreed' \in BOOLEAN
      BY <1>1, Zenon
    <2>3. bitmap' \subseteq Nat
      BY <1>1 DEF TypeOK
    <2>4. QED
      BY <1>1, <2>1, <2>2, <2>3 DEF TypeOK
  <1>4. IssuedBelowLastPage' /\ IssuedDisjoint' /\ IssuedNonEmpty'
    BY <1>1 DEF IssuedBelowLastPage, IssuedDisjoint, IssuedNonEmpty, Issued,
                PagesOf, FirstPage, PagesIn
  <1>5. HeldMarked'
    <2>1. \A s \in held : PagesOf(s) \cap PagesOf(range) = {}
      BY DEF IssuedDisjoint, Issued, HeldNotStale
    <2>2. \A s \in held : PagesOf(s) \subseteq bitmap'
      BY <1>1, <2>1 DEF HeldMarked
    <2>3. QED
      BY <1>1, <2>2 DEF HeldMarked, PagesOf, FirstPage, PagesIn
  <1>6. HeldNotStale' /\ NothingIssuedAtBoot'
    BY <1>1 DEF HeldNotStale, NothingIssuedAtBoot
  <1>7. \A p : UsablePage(p)' <=> UsablePage(p)
    BY <1>1, UsableUnchanged
  <1>8. IssuedIsUsable'
    BY <1>1, <1>7 DEF IssuedIsUsable, Issued, PagesOf, FirstPage, PagesIn
  <1>9. ClearIsUsable'
    <2>1. \A p \in PagesOf(range) : UsablePage(p)
      BY DEF IssuedIsUsable, Issued
    <2>2. QED
      BY <1>1, <1>7, <2>1 DEF ClearIsUsable
  <1>10. QED
    BY <1>1, <1>3, <1>4, <1>5, <1>6, <1>8, <1>9 DEF MapAtBoot

\* The invariant is inductive.
LEMMA NextIInv == IInv /\ [Next]_vars => IInv'
  <1> SUFFICES ASSUME IInv, [Next]_vars PROVE IInv'
    OBVIOUS
  <1>1. CASE pmm_init
    BY <1>1, InitStep
  <1>2. CASE pmm_init_no_room
    <2>1. bitmap_size' \in Nat
      BY <1>2, BitmapSizeNat, MemoryMapsAssumption DEF IInv, MapAtBoot, pmm_init_no_room
    <2>2. TypeOK'
      BY <1>2, <2>1 DEF IInv, TypeOK, pmm_init_no_room
    <2>3. QED
      BY <1>2, <2>2, QuietStep DEF pmm_init_no_room
  <1>3. CASE pmm_alloc_no_pages
    <2>1. TypeOK'
      BY <1>3 DEF IInv, TypeOK, pmm_alloc_no_pages
    <2>2. QED
      BY <1>3, <2>1, QuietStep DEF pmm_alloc_no_pages
  <1>4. ASSUME NEW amount \in Amounts, pmm_alloc(amount)
        PROVE  IInv'
    BY <1>4, AllocStep
  <1>5. ASSUME NEW amount \in Amounts, pmm_alloc_not_found(amount)
        PROVE  IInv'
    <2>1. TypeOK'
      BY <1>5 DEF IInv, TypeOK, pmm_alloc_not_found
    <2>2. QED
      BY <1>5, <2>1, QuietStep DEF pmm_alloc_not_found
  <1>6. ASSUME NEW range \in held, pmm_free(range)
        PROVE  IInv'
    BY <1>6, FreeStep
  <1>7. ASSUME NEW range \in stale, pmm_free_again(range)
        PROVE  IInv'
    BY <1>7, FreeAgainStep
  <1>8. CASE UNCHANGED vars
    BY <1>8 DEF vars, IInv, TypeOK, IssuedBelowLastPage, IssuedDisjoint, HeldMarked,
           NothingIssuedAtBoot, HeldNotStale, IssuedNonEmpty, Issued, PagesOf,
           FirstPage, PagesIn, MapAtBoot, ClearIsUsable, IssuedIsUsable, UsablePage,
           FreeEntries
  <1>9. QED
    BY <1>1, <1>2, <1>3, <1>4, <1>5, <1>6, <1>7, <1>8 DEF Next, Stopped

-----------------------------------------------------------------------------
(***************************************************************************)
(* The count of usable pages.                                              *)
(***************************************************************************)

\* The remainder is the only number below SizeRange that differs from a by a
\* multiple of it.
LEMMA Remainder ==
    ASSUME NEW a \in Int, NEW k \in Int, NEW r \in Int, 0 <= r, r < SizeRange,
           a = k * SizeRange + r
    PROVE  a % SizeRange = r
  <1>1. SizeRange \in Nat /\ SizeRange > 0
    BY SizeRangeAssumption
  <1>2. PICK q \in Int, m \in Int :
          a = q * SizeRange + m /\ 0 <= m /\ m < SizeRange /\ m = a % SizeRange
    <2>1. a \div SizeRange \in Int /\ a % SizeRange \in Int
      BY <1>1, SMTT(30)
    <2>2. a = (a \div SizeRange) * SizeRange + (a % SizeRange)
      BY <1>1, SMTT(30)
    <2>3. 0 <= a % SizeRange /\ a % SizeRange < SizeRange
      BY <1>1, SMTT(30)
    <2>4. QED
      BY <2>1, <2>2, <2>3, Zenon
  <1>3. q = k
    <2>1. CASE q > k
      <3>1. (q - k) * SizeRange >= SizeRange
        BY <1>1, <2>1, SMTT(30)
      <3>2. (q - k) * SizeRange = q * SizeRange - k * SizeRange
        BY <1>1, SMTT(30)
      <3>3. QED
        BY <1>1, <1>2, <3>1, <3>2, SMTT(30)
    <2>2. CASE k > q
      <3>1. (k - q) * SizeRange >= SizeRange
        BY <1>1, <2>2, SMTT(30)
      <3>2. (k - q) * SizeRange = k * SizeRange - q * SizeRange
        BY <1>1, SMTT(30)
      <3>3. QED
        BY <1>1, <1>2, <3>1, <3>2, SMTT(30)
    <2>3. QED
      BY <2>1, <2>2
  <1>4. PICK x \in Int : x = k * SizeRange
    <2>1. k * SizeRange \in Int
      BY <1>1, SMTT(30)
    <2>2. QED
      BY <2>1
  <1>5. a = x + m /\ a = x + r
    BY <1>2, <1>3, <1>4
  <1>6. m = r
    BY <1>5
  <1>7. QED
    BY <1>2, <1>6

\* Counting on from a count that has wrapped around.
LEMMA CountOn ==
    ASSUME NEW x \in Int, NEW y \in Int
    PROVE  ((x % SizeRange) + y) % SizeRange = (x + y) % SizeRange
  <1>1. SizeRange \in Nat /\ SizeRange > 0
    BY SizeRangeAssumption
  <1>2. PICK q \in Int, m \in Int : x = q * SizeRange + m /\ m = x % SizeRange
    <2>1. x \div SizeRange \in Int /\ x % SizeRange \in Int
      BY <1>1, SMTT(30)
    <2>2. x = (x \div SizeRange) * SizeRange + (x % SizeRange)
      BY <1>1, SMTT(30)
    <2>3. QED
      BY <2>1, <2>2, Zenon
  <1>3. PICK p \in Int, r \in Int :
          m + y = p * SizeRange + r /\ 0 <= r /\ r < SizeRange /\ r = (m + y) % SizeRange
    <2>1. m + y \in Int
      OBVIOUS
    <2>2. (m + y) \div SizeRange \in Int /\ (m + y) % SizeRange \in Int
      BY <1>1, <2>1, SMTT(30)
    <2>3. m + y = ((m + y) \div SizeRange) * SizeRange + ((m + y) % SizeRange)
      BY <1>1, <2>1, SMTT(30)
    <2>4. 0 <= (m + y) % SizeRange /\ (m + y) % SizeRange < SizeRange
      BY <1>1, <2>1, SMTT(30)
    <2>5. QED
      BY <2>2, <2>3, <2>4, Zenon
  <1>4. x + y = (q + p) * SizeRange + r
    <2>1. (q + p) * SizeRange = q * SizeRange + p * SizeRange
      BY <1>1, SMTT(30)
    <2>2. q * SizeRange \in Int /\ p * SizeRange \in Int
      BY <1>1, SMTT(30)
    <2>3. QED
      BY <1>2, <1>3, <2>1, <2>2, SMTT(30)
  <1>5. x + y \in Int /\ q + p \in Int
    OBVIOUS
  <1>6. (x + y) % SizeRange = r
    BY <1>3, <1>4, <1>5, Remainder
  <1>7. QED
    BY <1>2, <1>3, <1>6

\* The bits of the bitmap that are clear.
Clear == (0 .. 8 * bitmap_size - 1) \ bitmap

\* Whatever was handed out has its bits in the bitmap.
IssuedInBitmap == \A r \in Issued : PagesOf(r) \subseteq 0 .. 8 * bitmap_size - 1

CountInv == UsablePagesCountClearBits /\ IssuedInBitmap

\* Clear is finite, and a range has as many bits as pages.
LEMMA ClearFinite ==
    ASSUME TypeOK
    PROVE  IsFiniteSet(Clear) /\ Cardinality(Clear) \in Nat
  <1>1. 0 \in Int /\ 8 * bitmap_size - 1 \in Int
    BY DEF TypeOK
  <1>2. IsFiniteSet(0 .. 8 * bitmap_size - 1)
    BY <1>1, FS_Interval
  <1>3. IsFiniteSet(Clear)
    BY <1>2, FS_Subset DEF Clear
  <1>4. QED
    BY <1>3, FS_CardinalityType

\* A range has as many bits as pages.
LEMMA BitsOfRange ==
    ASSUME NEW r \in range_t
    PROVE  /\ IsFiniteSet(PagesOf(r)) /\ Cardinality(PagesOf(r)) = PagesIn(r)
           /\ PagesIn(r) \in Nat
  <1>1. PICK f \in Nat, n \in Nat : f = FirstPage(r) /\ n = PagesIn(r)
    BY PagesOfNat
  <1>2. PagesOf(r) = f .. f + n - 1
    BY <1>1 DEF PagesOf
  <1>3. f \in Int /\ f + n - 1 \in Int
    OBVIOUS
  <1>4. IsFiniteSet(f .. f + n - 1)
    BY <1>3, FS_Interval
  <1>5. Cardinality(f .. f + n - 1) = n
    <2>1. Cardinality(f .. f + n - 1) = IF f > f + n - 1 THEN 0 ELSE (f + n - 1) - f + 1
      BY <1>3, FS_Interval
    <2>2. QED
      BY <2>1
  <1>6. QED
    BY <1>1, <1>2, <1>4, <1>5

\* After pmm_init the clear bits are those of the usable entries; the pages of
\* the bitmap, which are none of them, are subtracted all the same.
LEMMA CountInitStep ==
    ASSUME IInv, IInv', pmm_init
    PROVE  CountInv'
  <1> DEFINE size == BitmapSize(memory_map)
             h == BitmapHost(memory_map)
             unused == UnusedPages(memory_map')
             own == [base |-> bitmap_base', length |-> bitmap_size']
  <1>1. /\ bitmap_size' = size /\ bitmap_base' = memory_map[h].base
        /\ bitmap' = ((0 .. 8 * bitmap_size' - 1) \ unused) \cup PagesOf(own)
        /\ usable_pages' = (Cardinality(unused) - PagesIn(own)) % SizeRange
        /\ held' = held /\ stale' = stale /\ status = "boot"
    BY DEF pmm_init, pmm_range_used
  <1>2. \A p \in unused : p \in 0 .. 8 * size - 1 /\ UsablePage(p)'
    BY UnusedIsUsable
  <1>3. PICK b \in Nat, n \in Nat : bitmap_base' = b * PAGE_SIZE /\ n = bitmap_size'
    <2>1. WellFormedMap(memory_map) /\ HostEntries(memory_map) # {}
      BY <1>1, MemoryMapsAssumption DEF IInv, MapAtBoot, pmm_init
    <2>2. h \in 1 .. Len(memory_map) /\ memory_map[h].is_free
      BY <2>1, Trimming DEF HostEntries
    <2>3. memory_map[h].base \in Nat /\ memory_map[h].base % PAGE_SIZE = 0
      <3>1. memory_map[h] \in [base : Nat, length : Nat, is_free : BOOLEAN]
        BY <2>1, <2>2, ElementOfSeq DEF WellFormedMap
      <3>2. QED
        BY <2>1, <2>2, <3>1 DEF WellFormedMap
    <2>4. bitmap_size' \in Nat
      BY DEF IInv, TypeOK
    <2>5. QED
      BY <1>1, <2>3, <2>4, Aligned
  <1>4. PAGE_SIZE \in Nat /\ PAGE_SIZE > 0
    BY PageSizeAssumption
  <1>5. PICK k \in Nat : k = n \div PAGE_SIZE /\ k * PAGE_SIZE <= n
    <2>1. n \div PAGE_SIZE \in Nat /\ (n \div PAGE_SIZE) * PAGE_SIZE <= n
      BY <1>4, SMTT(30)
    <2>2. QED
      BY <2>1
  <1>6. PagesOf(own) = b .. b + k - 1 /\ PagesIn(own) = k
    <2>1. FirstPage(own) = b /\ PagesIn(own) = k
      BY <1>3, <1>5, DivMul DEF FirstPage, PagesIn
    <2>2. QED
      BY <2>1 DEF PagesOf
  <1>7. ASSUME NEW p \in unused, p \in PagesOf(own) PROVE FALSE
    <2>1. p \in Nat /\ b <= p /\ p + 1 <= b + k
      BY <1>2, <1>6, <1>7
    <2>2. \/ (p + 1) * PAGE_SIZE <= b * PAGE_SIZE
          \/ p * PAGE_SIZE >= b * PAGE_SIZE + n
      BY <1>2, <1>3, <1>7 DEF UsablePage
    <2>3. (p + 1) * PAGE_SIZE > b * PAGE_SIZE
      BY <1>4, <2>1, SMTT(30)
    <2>4. p * PAGE_SIZE < b * PAGE_SIZE + n
      <3>1. (p + 1) * PAGE_SIZE <= (b + k) * PAGE_SIZE
        BY <1>4, <2>1, SMTT(30)
      <3>2. (p + 1) * PAGE_SIZE = p * PAGE_SIZE + PAGE_SIZE
        BY <1>4, <2>1, SMTT(30)
      <3>3. (b + k) * PAGE_SIZE = b * PAGE_SIZE + k * PAGE_SIZE
        BY <1>4, SMTT(30)
      <3>4. p * PAGE_SIZE \in Nat /\ b * PAGE_SIZE \in Nat /\ k * PAGE_SIZE \in Nat
        BY <1>4, <2>1, SMTT(30)
      <3>5. QED
        BY <1>4, <1>5, <3>1, <3>2, <3>3, <3>4, SMTT(30)
    <2>5. (p + 1) * PAGE_SIZE \in Nat /\ p * PAGE_SIZE \in Nat /\ b * PAGE_SIZE \in Nat
      BY <1>4, <2>1, SMTT(30)
    <2>6. QED
      BY <2>2, <2>3, <2>4, <2>5, SMTT(30)
  <1>8. Clear' = unused
    BY <1>1, <1>2, <1>7 DEF Clear
  <1>9. UsablePagesCountClearBits'
    BY <1>1, <1>3, <1>5, <1>6, <1>8 DEF UsablePagesCountClearBits, Clear
  <1>10. IssuedInBitmap'
    BY <1>1 DEF IInv, NothingIssuedAtBoot, IssuedInBitmap, Issued
  <1>11. QED
    BY <1>9, <1>10 DEF CountInv

\* An allocation takes as many bits from the clear ones as it subtracts.
LEMMA CountAllocStep ==
    ASSUME IInv, IInv', CountInv, NEW amount \in Amounts, pmm_alloc(amount)
    PROVE  CountInv'
  <1>1. PICK range \in Found(amount) :
          /\ bitmap' = bitmap \cup PagesOf(range)
          /\ usable_pages' = (usable_pages - PagesIn(range)) % SizeRange
          /\ IF range.length > 0
             THEN held' = held \cup {range} /\ status' = status
             ELSE held' = held /\ status' = "panic"
    BY DEF pmm_alloc, pmm_range_used
  <1>2. bitmap_size' = bitmap_size /\ stale' = stale /\ refreed' = refreed /\ status = "running"
    BY DEF pmm_alloc
  <1>3. /\ range \in range_t
        /\ amount = 0 => range.length = 0
        /\ amount > 0 => \E page \in Nat, n \in Nat \ {0} :
             /\ page + n <= bitmap_size
             /\ PagesOf(range) = page .. page + n - 1
             /\ PagesOf(range) \cap bitmap = {}
             /\ range.length > 0
    <2>1. last_page \in Nat /\ bitmap_size \in Nat /\ amount \in Nat
      BY AmountsAssumption DEF IInv, TypeOK
    <2>2. range \in FoundRanges(bitmap, last_page, bitmap_size, amount)
      BY <1>1 DEF Found
    <2>3. /\ range \in range_t
          /\ amount = 0 => range.length = 0
          /\ amount > 0 => \E page \in Nat, n \in Nat \ {0} :
               /\ page >= last_page
               /\ page + n <= bitmap_size
               /\ FirstPage(range) = page
               /\ PagesIn(range) = n
               /\ PagesOf(range) = page .. page + n - 1
               /\ PagesOf(range) \cap bitmap = {}
               /\ (range.base + range.length) \div PAGE_SIZE = page + n
               /\ range.length > 0
      BY <2>1, <2>2, FoundRange
    <2>4. QED
      BY <2>3, Zenon
  <1>4. CASE amount = 0
    <2>1. held' = held /\ status' = "panic"
      BY <1>1, <1>3, <1>4
    <2>2. QED
      BY <1>2, <2>1 DEF CountInv, UsablePagesCountClearBits, IssuedInBitmap, Issued, PagesOf,
           FirstPage, PagesIn
  <1>5. CASE amount # 0
    <2>1. /\ PagesOf(range) \subseteq Clear /\ range.length > 0
          /\ PagesOf(range) \subseteq 0 .. 8 * bitmap_size - 1
      <3>1. amount > 0
        BY <1>5, AmountsAssumption
      <3>2. PICK page \in Nat, n \in Nat \ {0} :
             /\ page + n <= bitmap_size
             /\ PagesOf(range) = page .. page + n - 1
             /\ PagesOf(range) \cap bitmap = {}
             /\ range.length > 0
        BY <1>3, <3>1, Zenon
      <3>3. page .. page + n - 1 \subseteq 0 .. 8 * bitmap_size - 1
        BY <3>2 DEF IInv, TypeOK
      <3>4. QED
        BY <3>2, <3>3 DEF Clear
    <2>2. held' = held \cup {range} /\ status' = status
      BY <1>1, <2>1
    <2>3. Clear' = Clear \ PagesOf(range)
      BY <1>1, <1>2 DEF Clear
    <2>4. PICK c \in Nat, k \in Nat, u \in Int :
            c = Cardinality(Clear) /\ k = PagesIn(range) /\ u = bitmap_size \div PAGE_SIZE
      <3>1. Cardinality(Clear) \in Nat /\ PagesIn(range) \in Nat
        BY <1>3, ClearFinite, BitsOfRange DEF IInv
      <3>2. bitmap_size \div PAGE_SIZE \in Nat
        BY DivNat DEF IInv, TypeOK
      <3>3. QED
        BY <3>1, <3>2
    <2>5. Cardinality(Clear') = c - k
      <3>1. IsFiniteSet(Clear) /\ Clear \cap PagesOf(range) = PagesOf(range)
        BY <2>1, ClearFinite DEF IInv
      <3>2. Cardinality(Clear \ PagesOf(range))
              = Cardinality(Clear) - Cardinality(Clear \cap PagesOf(range))
        BY <3>1, FS_Difference
      <3>3. Cardinality(PagesOf(range)) = k
        BY <1>3, <2>4, BitsOfRange
      <3>4. QED
        BY <2>3, <2>4, <3>1, <3>2, <3>3
    <2>6. ASSUME ~refreed PROVE usable_pages' = ((c - k) - u) % SizeRange
      <3>1. usable_pages = (c - u) % SizeRange
        BY <1>2, <2>4, <2>6 DEF CountInv, UsablePagesCountClearBits, Clear
      <3>2. (((c - u) % SizeRange) + (-k)) % SizeRange = ((c - u) + (-k)) % SizeRange
        <4>1. c - u \in Int /\ -k \in Int
          OBVIOUS
        <4>2. QED
          BY <4>1, CountOn
      <3>3. (c - u) + (-k) = (c - k) - u
        OBVIOUS
      <3>4. usable_pages - k = ((c - u) % SizeRange) + (-k)
        <4>1. (c - u) % SizeRange \in Int
          BY WrapsAround, SizeRangeAssumption
        <4>2. QED
          BY <3>1, <4>1
      <3>5. QED
        BY <1>1, <2>4, <3>2, <3>3, <3>4
    <2>7. UsablePagesCountClearBits'
      BY <1>2, <2>4, <2>5, <2>6 DEF UsablePagesCountClearBits, Clear
    <2>8. IssuedInBitmap'
      BY <1>2, <2>1, <2>2 DEF CountInv, IssuedInBitmap, Issued, PagesOf, FirstPage, PagesIn
    <2>9. QED
      BY <2>7, <2>8 DEF CountInv
  <1>6. QED
    BY <1>4, <1>5

\* Giving a held range back clears as many bits as it adds: all were set.
LEMMA CountFreeStep ==
    ASSUME IInv, IInv', CountInv, NEW range \in held, pmm_free(range)
    PROVE  CountInv'
  <1>1. /\ bitmap' = bitmap \ PagesOf(range)
        /\ usable_pages' = (usable_pages + PagesIn(range)) % SizeRange
        /\ held' = held \ {range} /\ stale' = stale \cup {range}
        /\ UNCHANGED << bitmap_size, status, refreed >> /\ status = "running"
    BY DEF pmm_free, pmm_range_unused
  <1>2. /\ range \in range_t /\ PagesOf(range) \subseteq bitmap
        /\ PagesOf(range) \subseteq 0 .. 8 * bitmap_size - 1
    BY DEF IInv, TypeOK, HeldMarked, CountInv, IssuedInBitmap, Issued
  <1>3. Clear' = Clear \cup PagesOf(range) /\ Clear \cap PagesOf(range) = {}
    BY <1>1, <1>2 DEF Clear
  <1>4. PICK c \in Nat, k \in Nat, u \in Int :
          c = Cardinality(Clear) /\ k = PagesIn(range) /\ u = bitmap_size \div PAGE_SIZE
    <2>1. Cardinality(Clear) \in Nat /\ PagesIn(range) \in Nat
      BY <1>2, ClearFinite, BitsOfRange DEF IInv
    <2>2. bitmap_size \div PAGE_SIZE \in Nat
      BY DivNat DEF IInv, TypeOK
    <2>3. QED
      BY <2>1, <2>2
  <1>5. Cardinality(Clear') = c + k
    <2>1. IsFiniteSet(Clear) /\ IsFiniteSet(PagesOf(range)) /\ Cardinality(PagesOf(range)) = k
      BY <1>2, <1>4, ClearFinite, BitsOfRange DEF IInv
    <2>2. Cardinality(Clear \cup PagesOf(range))
            = Cardinality(Clear) + Cardinality(PagesOf(range))
                - Cardinality(Clear \cap PagesOf(range))
      BY <2>1, FS_Union
    <2>3. Cardinality(Clear \cap PagesOf(range)) = 0
      BY <1>3, FS_EmptySet
    <2>4. QED
      BY <1>3, <1>4, <2>1, <2>2, <2>3
  <1>6. ASSUME ~refreed PROVE usable_pages' = ((c + k) - u) % SizeRange
    <2>1. usable_pages = (c - u) % SizeRange
      BY <1>1, <1>4, <1>6 DEF CountInv, UsablePagesCountClearBits, Clear
    <2>2. (((c - u) % SizeRange) + k) % SizeRange = ((c - u) + k) % SizeRange
      <3>1. c - u \in Int /\ k \in Int
        OBVIOUS
      <3>2. QED
        BY <3>1, CountOn
    <2>3. (c - u) + k = (c + k) - u
      OBVIOUS
    <2>4. QED
      BY <1>1, <1>4, <2>1, <2>2, <2>3
  <1>7. UsablePagesCountClearBits'
    BY <1>1, <1>4, <1>5, <1>6 DEF UsablePagesCountClearBits, Clear
  <1>8. IssuedInBitmap'
    BY <1>1 DEF CountInv, IssuedInBitmap, Issued, PagesOf, FirstPage, PagesIn
  <1>9. QED
    BY <1>7, <1>8 DEF CountInv

\* The count stays right until something is freed twice.
LEMMA CountStep == IInv /\ IInv' /\ CountInv /\ [Next]_vars => CountInv'
  <1> SUFFICES ASSUME IInv, IInv', CountInv, [Next]_vars PROVE CountInv'
    OBVIOUS
  <1> USE DEF UsablePagesCountClearBits, IssuedInBitmap, Issued, PagesOf, FirstPage, PagesIn
  <1>1. CASE pmm_init
    BY <1>1, CountInitStep
  <1>2. CASE pmm_init_no_room
    BY <1>2 DEF CountInv, pmm_init_no_room, IInv, NothingIssuedAtBoot
  <1>3. CASE pmm_alloc_no_pages
    BY <1>3 DEF CountInv, pmm_alloc_no_pages
  <1>4. ASSUME NEW amount \in Amounts, pmm_alloc(amount) PROVE CountInv'
    BY <1>4, CountAllocStep
  <1>5. ASSUME NEW amount \in Amounts, pmm_alloc_not_found(amount) PROVE CountInv'
    BY <1>5 DEF CountInv, pmm_alloc_not_found
  <1>6. ASSUME NEW range \in held, pmm_free(range) PROVE CountInv'
    BY <1>6, CountFreeStep
  <1>7. ASSUME NEW range \in stale, pmm_free_again(range) PROVE CountInv'
    BY <1>7 DEF CountInv, pmm_free_again
  <1>8. CASE UNCHANGED vars
    BY <1>8 DEF vars, CountInv
  <1>9. QED
    BY <1>1, <1>2, <1>3, <1>4, <1>5, <1>6, <1>7, <1>8 DEF Next, Stopped

-----------------------------------------------------------------------------
(***************************************************************************)
(* The scan.  A property of all numbers from a to b is proved by way of    *)
(* the set of the numbers that have it.                                    *)
(***************************************************************************)

\* Induction from a up to b, over a set.
LEMMA Upwards ==
    ASSUME NEW a \in Nat, NEW b \in Nat, NEW S, a \in S,
           \A i \in a .. b - 1 : i \in S => i + 1 \in S
    PROVE  \A i \in a .. b : i \in S
  <1> DEFINE bad == {i \in Nat : i \in a .. b /\ i \notin S}
  <1>1. ASSUME bad # {} PROVE FALSE
    <2>1. PICK m \in bad : \A j \in bad : m <= j
      <3>1. bad \in SUBSET Nat
        OBVIOUS
      <3>2. QED
        BY <1>1, <3>1, LeastHost
    <2>2. m \in Nat /\ m \in a .. b /\ m \notin S /\ m # a
      OBVIOUS
    <2>3. m - 1 \in Nat /\ m - 1 \in a .. b - 1 /\ m - 1 \in a .. b /\ m = (m - 1) + 1
      BY <2>2
    <2>4. m - 1 \notin bad
      BY <2>1, <2>3
    <2>5. m - 1 \in S
      BY <2>3, <2>4
    <2>6. QED
      BY <2>2, <2>3, <2>5
  <1>2. QED
    BY <1>1

\* A turn of the loop keeps a range a range.
LEMMA ScanStepTyped ==
    ASSUME NEW bits, NEW amount \in Nat, NEW r \in range_t, NEW page \in Nat
    PROVE  ScanStep(bits, amount, r, page) \in range_t
  <1>1. PAGE_SIZE \in Nat /\ page * PAGE_SIZE \in Nat
    BY PageSizeAssumption, SMTT(30)
  <1>2. r.base \in Nat /\ r.length \in Nat
    BY DEF range_t
  <1>3. CASE r.length >= amount
    BY <1>2, <1>3 DEF ScanStep
  <1>4. CASE r.length < amount /\ page \in bits
    <2>1. ScanStep(bits, amount, r, page) = [r EXCEPT !.length = 0]
      BY <1>2, <1>4 DEF ScanStep
    <2>2. QED
      BY <2>1 DEF range_t
  <1>5. CASE r.length < amount /\ page \notin bits
    <2>1. ScanStep(bits, amount, r, page)
            = [base |-> IF r.length = 0 THEN page * PAGE_SIZE ELSE r.base,
               length |-> r.length + PAGE_SIZE]
      BY <1>2, <1>5 DEF ScanStep
    <2>2. QED
      BY <1>1, <1>2, <2>1 DEF range_t
  <1>6. QED
    BY <1>2, <1>3, <1>4, <1>5

Zero == [base |-> 0, length |-> 0]

\* f holds what the loop holds before each page from a to n.
Turns(f, bits, amount, a, n) ==
    /\ f \in [a .. n -> range_t] /\ f[a] = Zero
    /\ \A i \in a + 1 .. n : f[i] = ScanStep(bits, amount, f[i - 1], i - 1)

\* The loop has turns up to any page.
LEMMA TurnsExist ==
    ASSUME NEW bits, NEW amount \in Nat, NEW a \in Nat, NEW b \in Nat, a <= b
    PROVE  \E f : Turns(f, bits, amount, a, b)
  <1> DEFINE S == {n \in Nat : \E f : Turns(f, bits, amount, a, n)}
  <1>1. Zero \in range_t
    BY DEF Zero, range_t
  <1>2. a \in S
    <2>1. PICK f : f = [i \in a .. a |-> Zero]
      OBVIOUS
    <2>2. f \in [a .. a -> range_t] /\ f[a] = Zero /\ a + 1 .. a = {}
      BY <1>1, <2>1
    <2>3. Turns(f, bits, amount, a, a)
      BY <2>2 DEF Turns
    <2>4. QED
      BY <2>3
  <1>3. ASSUME NEW n \in a .. b - 1, n \in S PROVE n + 1 \in S
    <2>1. PICK g : Turns(g, bits, amount, a, n)
      BY <1>3
    <2>2. /\ g \in [a .. n -> range_t] /\ g[a] = Zero
          /\ \A i \in a + 1 .. n : g[i] = ScanStep(bits, amount, g[i - 1], i - 1)
      BY <2>1 DEF Turns
    <2>3. n \in Nat /\ n \in a .. n /\ g[n] \in range_t
      BY <2>2
    <2>4. PICK t \in range_t : t = ScanStep(bits, amount, g[n], n)
      BY <2>3, ScanStepTyped
    <2>5. PICK f : f = [i \in a .. n + 1 |-> IF i = n + 1 THEN t ELSE g[i]]
      OBVIOUS
    <2>6. \A i \in a .. n : i \in a .. n + 1 /\ i # n + 1 /\ f[i] = g[i]
      BY <2>3, <2>5
    <2>7. f[n + 1] = t /\ (n + 1) - 1 = n
      BY <2>3, <2>5
    <2>8. f \in [a .. n + 1 -> range_t]
      <3>1. \A i \in a .. n + 1 : (IF i = n + 1 THEN t ELSE g[i]) \in range_t
        BY <2>2, <2>3, <2>4
      <3>2. QED
        BY <2>5, <3>1
    <2>9. ASSUME NEW i \in a + 1 .. n + 1
          PROVE  f[i] = ScanStep(bits, amount, f[i - 1], i - 1)
      <3>1. CASE i = n + 1
        BY <2>3, <2>4, <2>6, <2>7, <3>1
      <3>2. CASE i # n + 1
        <4>1. i \in a + 1 .. n /\ i \in a .. n /\ i - 1 \in a .. n
          BY <2>3, <3>2
        <4>2. QED
          BY <2>2, <2>6, <4>1
      <3>3. QED
        BY <3>1, <3>2
    <2>10. f[a] = Zero
      BY <2>2, <2>3, <2>6
    <2>11. Turns(f, bits, amount, a, n + 1)
      BY <2>8, <2>9, <2>10 DEF Turns
    <2>12. QED
      BY <2>3, <2>11
  <1>4. \A n \in a .. b : n \in S
    <2> HIDE DEF S
    <2>1. QED
      BY <1>2, <1>3, Upwards
  <1>5. QED
    BY <1>4

\* ScanLoop is the last of the turns.
LEMMA ScanLoopIs ==
    ASSUME NEW bits, NEW from \in Nat, NEW limit \in Nat, NEW amount \in Nat,
           NEW last, last = IF limit > from THEN limit ELSE from
    PROVE  \E f : Turns(f, bits, amount, from, last) /\ ScanLoop(bits, from, limit, amount) = f[last]
  <1> DEFINE body(f) == [i \in from .. last |->
                           IF i = from THEN [base |-> 0, length |-> 0]
                           ELSE ScanStep(bits, amount, f[i - 1], i - 1)]
  <1>1. last \in Nat /\ from <= last /\ from \in from .. last
    OBVIOUS
  <1>2. \E f : f = body(f)
    <2>1. PICK f : Turns(f, bits, amount, from, last)
      BY <1>1, TurnsExist
    <2>2. f \in [from .. last -> range_t] /\ f[from] = Zero
      BY <2>1 DEF Turns
    <2>3. ASSUME NEW i \in from .. last PROVE f[i] = body(f)[i]
      <3>1. CASE i = from
        BY <2>2, <3>1 DEF Zero
      <3>2. CASE i # from
        <4>1. i \in from + 1 .. last
          BY <1>1, <3>2
        <4>2. QED
          BY <2>1, <3>2, <4>1 DEF Turns
      <3>3. QED
        BY <3>1, <3>2
    <2>4. f = body(f)
      BY <2>2, <2>3
    <2>5. QED
      BY <2>4
  <1>3. PICK f : f = (CHOOSE g : g = body(g))
    OBVIOUS
  <1>4. f = body(f)
    BY <1>2, <1>3
  <1>5. ScanLoop(bits, from, limit, amount) = f[last]
    BY <1>3 DEF ScanLoop
  <1>6. Turns(f, bits, amount, from, last)
    <2>1. DOMAIN f = from .. last /\ f[from] = Zero
      BY <1>1, <1>4 DEF Zero
    <2>2. \A i \in from + 1 .. last : f[i] = ScanStep(bits, amount, f[i - 1], i - 1)
      BY <1>1, <1>4
    <2>3. \A i \in from .. last : f[i] \in range_t
      <3> DEFINE S == {i \in Nat : f[i] \in range_t}
      <3>1. from \in S
        BY <2>1 DEF Zero, range_t
      <3>2. ASSUME NEW i \in from .. last - 1, i \in S PROVE i + 1 \in S
        <4>1. i \in Nat /\ i + 1 \in from + 1 .. last /\ (i + 1) - 1 = i /\ f[i] \in range_t
          BY <1>1, <3>2
        <4>2. f[i + 1] = ScanStep(bits, amount, f[i], i)
          BY <2>2, <4>1
        <4>3. QED
          BY <4>1, <4>2, ScanStepTyped
      <3> HIDE DEF S
      <3>3. \A i \in from .. last : i \in S
        BY <1>1, <3>1, <3>2, Upwards
      <3>4. QED
        BY <3>3 DEF S
    <2>4. f \in [from .. last -> range_t]
      BY <1>4, <2>1, <2>3
    <2>5. QED
      BY <2>1, <2>2, <2>4 DEF Turns
  <1>7. QED
    BY <1>5, <1>6

\* The pages q to q + k - 1 are clear.
IsClear(bits, q, k) == \A x \in q .. q + k - 1 : x \notin bits

\* Before page i the loop has met n clear pages in a row and no fit.
Searching(bits, amount, from, i, r) ==
    /\ r.length < amount
    /\ \E n \in Nat :
         /\ r.length = n * PAGE_SIZE /\ n < PagesFor(amount) /\ from + n <= i
         /\ n > 0 => r.base = (i - n) * PAGE_SIZE
         /\ IsClear(bits, i - n, n)
         /\ i - n = from \/ i - n - 1 \in bits
    /\ \A q \in from .. i : q + PagesFor(amount) <= i => ~IsClear(bits, q, PagesFor(amount))

\* Before page i the loop has found the first fit.
Fitted(bits, amount, from, i, r) ==
    /\ r.length >= amount
    /\ \E page \in from .. i :
         /\ r = [base |-> page * PAGE_SIZE, length |-> PagesFor(amount) * PAGE_SIZE]
         /\ page + PagesFor(amount) <= i
         /\ IsClear(bits, page, PagesFor(amount))
         /\ \A q \in from .. page - 1 : ~IsClear(bits, q, PagesFor(amount))

\* A number of pages reaches the amount exactly when it reaches PagesFor.
LEMMA PagesReach ==
    ASSUME NEW amount \in Nat, NEW n \in Nat
    PROVE  n * PAGE_SIZE \in Nat /\ (n * PAGE_SIZE >= amount <=> n >= PagesFor(amount))
  <1>1. PAGE_SIZE \in Nat /\ n * PAGE_SIZE \in Nat
    BY PageSizeAssumption, SMTT(30)
  <1>2. PICK k \in Nat : k = PagesFor(amount) /\ k * PAGE_SIZE >= amount
    BY AlignUpBounds
  <1>3. ASSUME n >= k PROVE n * PAGE_SIZE >= amount
    <2>1. n * PAGE_SIZE >= k * PAGE_SIZE
      BY <1>1, <1>3, SMTT(30)
    <2>2. k * PAGE_SIZE \in Nat
      BY <1>1, SMTT(30)
    <2>3. QED
      BY <1>1, <1>2, <2>1, <2>2
  <1>4. ASSUME n * PAGE_SIZE >= amount PROVE n >= k
    BY <1>1, <1>2, <1>4, AlignUpBounds
  <1>5. QED
    BY <1>1, <1>2, <1>3, <1>4

\* A turn of the loop goes on searching, or finds the first fit.
LEMMA ScanTurn ==
    ASSUME NEW bits, NEW amount \in Nat \ {0}, NEW from \in Nat, NEW i \in Nat, from <= i,
           NEW r \in range_t, NEW t, t = ScanStep(bits, amount, r, i),
           Searching(bits, amount, from, i, r) \/ Fitted(bits, amount, from, i, r)
    PROVE  Searching(bits, amount, from, i + 1, t) \/ Fitted(bits, amount, from, i + 1, t)
  <1>1. PICK k \in Nat : k = PagesFor(amount) /\ k > 0
    BY PagesForPositive
  <1>2. r.base \in Nat /\ r.length \in Nat
    BY DEF range_t
  <1>3. CASE Fitted(bits, amount, from, i, r)
    <2>1. t = r
      BY <1>2, <1>3 DEF Fitted, ScanStep
    <2>2. \A page \in from .. i : page \in from .. i + 1 /\ (page + k <= i => page + k <= i + 1)
      OBVIOUS
    <2>3. QED
      BY <1>1, <1>3, <2>1, <2>2 DEF Fitted
  <1>4. CASE Searching(bits, amount, from, i, r)
    <2>1. PICK n \in Nat :
            /\ r.length = n * PAGE_SIZE /\ n < k /\ from + n <= i
            /\ n > 0 => r.base = (i - n) * PAGE_SIZE
            /\ IsClear(bits, i - n, n)
            /\ i - n = from \/ i - n - 1 \in bits
      BY <1>1, <1>4 DEF Searching
    <2>2. \A q \in from .. i : q + k <= i => ~IsClear(bits, q, k)
      BY <1>1, <1>4 DEF Searching
    <2>3. r.length < amount
      BY <1>4 DEF Searching
    <2>4. CASE i \in bits
      <3>1. t = [r EXCEPT !.length = 0]
        BY <1>2, <2>3, <2>4 DEF ScanStep
      <3>2. t.length = 0 /\ 0 * PAGE_SIZE = 0
        BY <3>1, PageSizeAssumption DEF range_t
      <3>3. /\ t.length = 0 * PAGE_SIZE /\ 0 < k /\ from + 0 <= i + 1 /\ ~(0 > 0)
            /\ IsClear(bits, (i + 1) - 0, 0)
            /\ (i + 1) - 0 - 1 \in bits
        BY <1>1, <2>4, <3>2 DEF IsClear
      <3>4. ASSUME NEW q \in from .. i + 1, q + k <= i + 1 PROVE ~IsClear(bits, q, k)
        <4>1. CASE q + k <= i
          BY <1>1, <2>2, <3>4, <4>1
        <4>2. CASE q + k = i + 1
          <5>1. i \in q .. q + k - 1
            BY <1>1, <4>2
          <5>2. QED
            BY <2>4, <5>1 DEF IsClear
        <4>3. QED
          BY <1>1, <3>4, <4>1, <4>2
      <3>5. t.length < amount
        BY <3>2
      <3>6. Searching(bits, amount, from, i + 1, t)
        BY <1>1, <3>3, <3>4, <3>5 DEF Searching
      <3>7. QED
        BY <3>6
    <2>5. CASE i \notin bits
      <3>1. t = [base |-> IF r.length = 0 THEN i * PAGE_SIZE ELSE r.base,
                 length |-> r.length + PAGE_SIZE]
        BY <1>2, <2>3, <2>5 DEF ScanStep
      <3>2. t.length = (n + 1) * PAGE_SIZE
        <4>1. (n + 1) * PAGE_SIZE = n * PAGE_SIZE + PAGE_SIZE
          BY PageSizeAssumption, SMTT(30)
        <4>2. QED
          BY <2>1, <3>1, <4>1
      <3>3. t.base = (i - n) * PAGE_SIZE
        <4>1. CASE n = 0
          <5>1. r.length = 0 /\ i - n = i
            BY <2>1, <4>1, PageSizeAssumption
          <5>2. QED
            BY <3>1, <5>1
        <4>2. CASE n > 0
          <5>1. r.length # 0
            BY <2>1, <4>2, PageSizeAssumption, SMTT(30)
          <5>2. QED
            BY <2>1, <3>1, <4>2, <5>1
        <4>3. QED
          BY <4>1, <4>2
      <3>4. IsClear(bits, i - n, n + 1)
        <4>1. ASSUME NEW x \in (i - n) .. (i - n) + (n + 1) - 1 PROVE x \notin bits
          <5>1. x = i \/ x \in (i - n) .. (i - n) + n - 1
            OBVIOUS
          <5>2. QED
            BY <2>1, <2>5, <5>1 DEF IsClear
        <4>2. QED
          BY <4>1 DEF IsClear
      <3>5. CASE n + 1 < k
        <4>1. t.length < amount
          <5>1. n + 1 \in Nat /\ ~(n + 1 >= k)
            BY <1>1, <3>5
          <5>2. (n + 1) * PAGE_SIZE \in Nat /\ ~((n + 1) * PAGE_SIZE >= amount)
            BY <1>1, <5>1, PagesReach
          <5>3. QED
            BY <3>2, <5>2
        <4>2. (i + 1) - (n + 1) = i - n /\ n + 1 \in Nat /\ from + (n + 1) <= i + 1
          BY <2>1
        <4>3. ASSUME NEW q \in from .. i + 1, q + k <= i + 1 PROVE ~IsClear(bits, q, k)
          <5>1. CASE q + k <= i
            BY <1>1, <2>2, <4>3, <5>1
          <5>2. CASE q + k = i + 1
            <6>1. q < i - n
              BY <1>1, <3>5, <5>2
            <6>2. i - n - 1 \in bits
              BY <2>1, <6>1
            <6>3. i - n - 1 \in q .. q + k - 1
              BY <1>1, <2>1, <5>2, <6>1
            <6>4. QED
              BY <6>2, <6>3 DEF IsClear
          <5>3. QED
            BY <1>1, <4>3, <5>1, <5>2
        <4>4. Searching(bits, amount, from, i + 1, t)
          BY <1>1, <2>1, <3>2, <3>3, <3>4, <3>5, <4>1, <4>2, <4>3 DEF Searching
        <4>5. QED
          BY <4>4
      <3>6. CASE n + 1 = k
        <4>1. PICK page \in Nat : page = i - n /\ page \in from .. i + 1 /\ page + k = i + 1
          BY <1>1, <2>1, <3>6
        <4>2. t = [base |-> page * PAGE_SIZE, length |-> k * PAGE_SIZE]
          BY <3>1, <3>2, <3>3, <3>6, <4>1
        <4>3. IsClear(bits, page, k)
          BY <3>4, <3>6, <4>1
        <4>4. ASSUME NEW q \in from .. page - 1 PROVE ~IsClear(bits, q, k)
          <5>1. q \in from .. i /\ q + k <= i
            BY <1>1, <4>1
          <5>2. QED
            BY <2>2, <5>1
        <4>5. t.length >= amount
          <5>1. n + 1 \in Nat /\ n + 1 >= k
            BY <1>1, <3>6
          <5>2. QED
            BY <1>1, <3>2, <5>1, PagesReach
        <4>6. Fitted(bits, amount, from, i + 1, t)
          BY <1>1, <4>1, <4>2, <4>3, <4>4, <4>5 DEF Fitted
        <4>7. QED
          BY <4>6
      <3>7. QED
        BY <1>1, <2>1, <3>5, <3>6
    <2>6. QED
      BY <2>4, <2>5
  <1>5. QED
    BY <1>3, <1>4

\* The loop ends searching in vain or with the first fit, for any amount but 0.
LEMMA ScanEnds ==
    ASSUME NEW bits, NEW amount \in Nat \ {0}, NEW from \in Nat, NEW last \in Nat, from <= last,
           NEW f, Turns(f, bits, amount, from, last)
    PROVE  \/ Searching(bits, amount, from, last, f[last])
           \/ Fitted(bits, amount, from, last, f[last])
  <1> DEFINE S == {i \in Nat : \/ Searching(bits, amount, from, i, f[i])
                               \/ Fitted(bits, amount, from, i, f[i])}
  <1>1. PICK k \in Nat : k = PagesFor(amount) /\ k > 0
    BY PagesForPositive
  <1>2. /\ f \in [from .. last -> range_t] /\ f[from] = Zero
        /\ \A i \in from + 1 .. last : f[i] = ScanStep(bits, amount, f[i - 1], i - 1)
    BY DEF Turns
  <1>3. from \in S
    <2>1. f[from].length = 0 /\ 0 * PAGE_SIZE = 0
      BY <1>2, PageSizeAssumption DEF Zero
    <2>2. /\ f[from].length = 0 * PAGE_SIZE /\ 0 < k /\ from + 0 <= from /\ ~(0 > 0)
          /\ IsClear(bits, from - 0, 0) /\ from - 0 = from
      BY <1>1, <2>1 DEF IsClear
    <2>3. \A q \in from .. from : ~(q + k <= from)
      BY <1>1
    <2>4. Searching(bits, amount, from, from, f[from])
      BY <1>1, <2>1, <2>2, <2>3 DEF Searching
    <2>5. QED
      BY <2>4
  <1>4. ASSUME NEW i \in from .. last - 1, i \in S PROVE i + 1 \in S
    <2>1. i \in Nat /\ from <= i /\ i \in from .. last /\ i + 1 \in from + 1 .. last /\ (i + 1) - 1 = i
      OBVIOUS
    <2>2. f[i] \in range_t /\ f[i + 1] = ScanStep(bits, amount, f[i], i)
      BY <1>2, <2>1
    <2>3. Searching(bits, amount, from, i, f[i]) \/ Fitted(bits, amount, from, i, f[i])
      BY <1>4
    <2>4. \/ Searching(bits, amount, from, i + 1, f[i + 1])
          \/ Fitted(bits, amount, from, i + 1, f[i + 1])
      BY <2>1, <2>2, <2>3, ScanTurn
    <2>5. QED
      BY <2>1, <2>4
  <1> HIDE DEF S
  <1>5. \A i \in from .. last : i \in S
    BY <1>3, <1>4, Upwards
  <1>6. last \in S
    BY <1>5
  <1>7. QED
    BY <1>6 DEF S

\* For amount 0 the loop does nothing.
LEMMA ScanOfNothing ==
    ASSUME NEW bits, NEW from \in Nat, NEW last \in Nat, from <= last,
           NEW f, Turns(f, bits, 0, from, last)
    PROVE  f[last] = Zero
  <1> DEFINE S == {i \in Nat : f[i] = Zero}
  <1>1. /\ f[from] = Zero
        /\ \A i \in from + 1 .. last : f[i] = ScanStep(bits, 0, f[i - 1], i - 1)
    BY DEF Turns
  <1>2. ASSUME NEW i \in from .. last - 1, i \in S PROVE i + 1 \in S
    <2>1. i + 1 \in from + 1 .. last /\ (i + 1) - 1 = i /\ i + 1 \in Nat
      OBVIOUS
    <2>2. f[i + 1] = ScanStep(bits, 0, Zero, i)
      BY <1>1, <1>2, <2>1
    <2>3. ScanStep(bits, 0, Zero, i) = Zero
      BY DEF ScanStep, Zero
    <2>4. QED
      BY <2>1, <2>2, <2>3
  <1>3. from \in S
    BY <1>1
  <1> HIDE DEF S
  <1>4. \A i \in from .. last : i \in S
    BY <1>2, <1>3, Upwards
  <1>5. last \in S
    BY <1>4
  <1>6. QED
    BY <1>5 DEF S

\* The loop computes the first fit, whatever the bitmap.
LEMMA FirstFit ==
    ASSUME NEW bits, NEW from \in Nat, NEW limit \in Nat, NEW amount \in Nat,
           NEW r, r = ScanLoop(bits, from, limit, amount)
    PROVE  FoundRanges(bits, from, limit, amount) = IF r.length >= amount THEN {r} ELSE {}
  <1>1. PICK last \in Nat : last = IF limit > from THEN limit ELSE from
    OBVIOUS
  <1>2. from <= last /\ (last = limit \/ (limit <= from /\ last = from))
    BY <1>1
  <1>3. PICK f : Turns(f, bits, amount, from, last) /\ r = f[last]
    BY <1>1, ScanLoopIs
  <1>4. CASE amount = 0
    <2>1. r = Zero
      BY <1>2, <1>3, <1>4, ScanOfNothing
    <2>2. QED
      BY <1>4, <2>1 DEF FoundRanges, Zero
  <1>5. CASE amount # 0
    <2>1. PICK k \in Nat : k = PagesFor(amount) /\ k > 0
      BY <1>5, PagesForPositive
    <2>2. FoundRanges(bits, from, limit, amount)
            = {[base |-> page * PAGE_SIZE, length |-> k * PAGE_SIZE] :
                 page \in FoundAt(bits, from, limit, amount)}
      BY <1>5, <2>1 DEF FoundRanges
    <2>3. \A q \in Int : IsFit(bits, from, limit, k, q)
                           <=> q >= from /\ q + k <= limit /\ IsClear(bits, q, k)
      BY DEF IsFit, IsClear
    <2>4. CASE Searching(bits, amount, from, last, r)
      <3>1. \A q \in from .. limit : ~IsFit(bits, from, limit, k, q)
        <4>1. ASSUME NEW q \in from .. limit, IsFit(bits, from, limit, k, q) PROVE FALSE
          <5>1. q + k <= limit /\ IsClear(bits, q, k) /\ q >= from
            BY <2>3, <4>1
          <5>2. last = limit /\ q \in from .. last
            BY <1>2, <2>1, <5>1
          <5>3. QED
            BY <2>1, <2>4, <5>1, <5>2 DEF Searching
        <4>2. QED
          BY <4>1
      <3>2. FoundAt(bits, from, limit, amount) = {}
        BY <2>1, <3>1 DEF FoundAt
      <3>3. r.length < amount /\ r.length \in Nat
        <4>1. r \in range_t
          BY <1>2, <1>3 DEF Turns
        <4>2. QED
          BY <2>4, <4>1 DEF Searching, range_t
      <3>4. QED
        BY <2>2, <3>2, <3>3
    <2>5. CASE Fitted(bits, amount, from, last, r)
      <3>1. PICK page \in from .. last :
              /\ r = [base |-> page * PAGE_SIZE, length |-> k * PAGE_SIZE]
              /\ page + k <= last /\ IsClear(bits, page, k)
              /\ \A q \in from .. page - 1 : ~IsClear(bits, q, k)
        BY <2>1, <2>5 DEF Fitted
      <3>2. last = limit /\ page \in from .. limit
        BY <1>2, <2>1, <3>1
      <3>3. /\ IsFit(bits, from, limit, k, page)
            /\ \A q \in from .. page - 1 : ~IsFit(bits, from, limit, k, q)
        BY <2>3, <3>1, <3>2
      <3>4. FoundAt(bits, from, limit, amount) = {page}
        <4>1. page \in FoundAt(bits, from, limit, amount)
          BY <2>1, <3>2, <3>3 DEF FoundAt
        <4>2. ASSUME NEW q \in FoundAt(bits, from, limit, amount) PROVE q = page
          <5>1. /\ q \in from .. limit /\ IsFit(bits, from, limit, k, q)
                /\ \A x \in from .. q - 1 : ~IsFit(bits, from, limit, k, x)
            BY <2>1, <4>2 DEF FoundAt
          <5>2. ~(q \in from .. page - 1) /\ ~(page \in from .. q - 1)
            BY <3>3, <5>1
          <5>3. QED
            BY <3>2, <5>1, <5>2
        <4>3. QED
          BY <4>1, <4>2
      <3>5. r.length >= amount
        BY <2>5 DEF Fitted
      <3>6. QED
        BY <2>2, <3>1, <3>4, <3>5
    <2>6. QED
      BY <1>2, <1>3, <1>5, <2>4, <2>5, ScanEnds
  <1>6. QED
    BY <1>4, <1>5

-----------------------------------------------------------------------------
(***************************************************************************)
(* The theorems.                                                           *)
(***************************************************************************)

\* Every variable keeps its type: in particular usable_pages stays a size_t
\* and every range handed out is a pair of natural numbers.
THEOREM TypeCorrect == Spec => []TypeOK
  <1>1. IInv => TypeOK
    BY DEF IInv
  <1>2. QED
    BY InitIInv, NextIInv, <1>1, PTL DEF Spec

\* Whatever is allocated, freed and freed again, two owners never share a page
\* and every held page is marked used (pmm.c:104-109, sched.c:104-105).
THEOREM Exclusion == Spec => []HeldExclusively
  <1>1. IInv => HeldExclusively
    BY DEF IInv, IssuedDisjoint, HeldMarked, Issued, HeldExclusively
  <1>2. QED
    BY InitIInv, NextIInv, <1>1, PTL DEF Spec

\* Only usable memory is handed out, never the bitmap (pmm.c:157-189), for every
\* memory map the boot protocol allows.
THEOREM UsableMemoryOnly == Spec => []HeldIsUsableMemory
  <1>1. IInv => HeldIsUsableMemory
    BY DEF IInv, IssuedIsUsable, Issued, HeldIsUsableMemory
  <1>2. QED
    BY InitIInv, NextIInv, <1>1, PTL DEF Spec

\* No page is handed out twice in the life of the system (pmm.c:87, 106: the
\* scan starts at last_page, which no allocation moves back).
THEOREM NoReissue == Spec => NeverReissued
  <1> DEFINE A == \A r \in held' \ held : \A s \in held \cup stale :
                     PagesOf(r) \cap PagesOf(s) = {}
  <1>1. IInv /\ IInv' /\ [Next]_vars => [A]_vars
    <2> SUFFICES ASSUME IInv, IInv', Next PROVE A
      BY DEF A, vars
    <2>1. ASSUME NEW amount \in Amounts, pmm_alloc(amount)
          PROVE  A
      <3>1. stale' = stale /\ held \subseteq held'
        BY <2>1 DEF pmm_alloc
      <3>2. Issued \subseteq Issued'
        BY <3>1 DEF Issued
      <3>3. \A r \in held' \ held : r \in Issued' /\ r \notin Issued
        BY <3>1 DEF IInv, HeldNotStale, Issued
      <3>4. \A r \in held' \ held : \A s \in Issued : r # s
        BY <3>3
      <3>5. QED
        BY <3>2, <3>3, <3>4 DEF IInv, IssuedDisjoint, Issued, PagesOf, FirstPage, PagesIn
    <2>2. CASE held' \subseteq held
      BY <2>2
    <2>3. QED
      BY <2>1, <2>2 DEF Next, pmm_init, pmm_init_no_room, pmm_alloc_no_pages,
           pmm_alloc_not_found, pmm_free, pmm_free_again, Stopped, vars
  <1>2. QED
    BY InitIInv, NextIInv, <1>1, PTL DEF Spec, NeverReissued

\* As long as nothing is freed twice, usable_pages is the number of clear bits
\* less the pages of the bitmap, modulo the range of size_t (pmm.c:22-44, 189).
THEOREM CountIsRight == Spec => []UsablePagesCountClearBits
  <1>1. Init => CountInv
    BY DEF Init, CountInv, UsablePagesCountClearBits, IssuedInBitmap, Issued
  <1>2. CountInv => UsablePagesCountClearBits
    BY DEF CountInv
  <1>3. QED
    BY InitIInv, NextIInv, CountStep, <1>1, <1>2, PTL DEF Spec

\* In every state and for every amount, the loop of pmm_find_pages (pmm.c:87-101)
\* ends with the range that FoundRanges describes, or too short when there is
\* none: it computes the first fit at or after last_page.
THEOREM ScanFindsFirstFit == Spec => []ScanIsFirstFit
  <1>1. IInv => ScanIsFirstFit
    <2> SUFFICES ASSUME IInv, NEW amount \in Amounts, NEW range,
                        range = ScanLoop(bitmap, last_page, bitmap_size, amount)
                 PROVE  Found(amount) = IF range.length >= amount THEN {range} ELSE {}
      BY DEF ScanIsFirstFit
    <2>1. last_page \in Nat /\ bitmap_size \in Nat /\ amount \in Nat
      BY AmountsAssumption DEF IInv, TypeOK
    <2>2. QED
      BY <2>1, FirstFit DEF Found
  <1>2. QED
    BY InitIInv, NextIInv, <1>1, PTL DEF Spec
=============================================================================
