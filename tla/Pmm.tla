-------------------------------- MODULE Pmm --------------------------------
(***************************************************************************)
(* The physical page allocator of sources/arch/x86_64/pmm.c.               *)
(*                                                                         *)
(* Addresses and lengths are bytes, as in the code; a range is a record    *)
(* [base, length].  The bitmap is the set of the page indexes whose bit    *)
(* is 1.  Every public operation runs between arch_acquire and             *)
(* arch_release of a lock that is never held across another acquire        *)
(* (module Locks), hence each is one action.                               *)
(***************************************************************************)
EXTENDS Integers, FiniteSets, Sequences

CONSTANTS PAGE_SIZE,    \* bytes in a page
          SizeRange,    \* number of values of size_t (2^64 in the build)
          MemoryMaps,   \* the memory maps the boot loader may hand over
          Amounts       \* the byte counts callers ask for

(***************************************************************************)
(* A page range, and what the boot protocol promises of a memory map       *)
(* (STIVALE2.md: sorted by base; usable entries are page aligned and do    *)
(* not overlap).  The last conjunct is needed because bitmap_size is       *)
(* rounded down: without it pmm_init writes past the bitmap.               *)
(***************************************************************************)
range_t == [base : Nat, length : Nat]

MemoryEnd(map) == map[Len(map)].base + map[Len(map)].length

BitmapSize(map) == MemoryEnd(map) \div (PAGE_SIZE * 8)

WellFormedMap(map) ==
    /\ map \in Seq([base : Nat, length : Nat, is_free : BOOLEAN])
    /\ map # << >>
    /\ BitmapSize(map) > 0
    /\ \A i \in 1 .. Len(map) : map[i].is_free =>
          /\ map[i].base % PAGE_SIZE = 0
          /\ map[i].length % PAGE_SIZE = 0
          /\ (map[i].base + map[i].length) \div PAGE_SIZE <= 8 * BitmapSize(map)
    /\ \A i, j \in 1 .. Len(map) :
          i < j => map[i].base + map[i].length <= map[j].base

ASSUME PageSizeAssumption == PAGE_SIZE \in Nat \ {0}
ASSUME SizeRangeAssumption == SizeRange \in Nat \ {0}
ASSUME AmountsAssumption == Amounts \subseteq Nat
ASSUME MemoryMapsAssumption == \A map \in MemoryMaps : WellFormedMap(map)

VARIABLES memory_map,   \* handover->mmap
          bitmap,       \* page indexes whose bit is set
          bitmap_base,  \* physical address of the bitmap
          bitmap_size,  \* its size in bytes
          usable_pages,
          last_page,
          status,       \* "boot", "running", "hung" or "panic"
          held,         \* ranges returned and not freed since
          stale,        \* ranges freed, whose former owner may free them again
          refreed       \* one of them was

vars == << memory_map, bitmap, bitmap_base, bitmap_size, usable_pages,
           last_page, status, held, stale, refreed >>

-----------------------------------------------------------------------------
(***************************************************************************)
(* Ranges and the bitmap.                                                  *)
(***************************************************************************)
PagesIn(range) == range.length \div PAGE_SIZE

FirstPage(range) == range.base \div PAGE_SIZE

\* The bits pmm_range_used and pmm_range_unused visit.
PagesOf(range) ==
    FirstPage(range) .. FirstPage(range) + PagesIn(range) - 1

AlignUp(n) == ((n + PAGE_SIZE - 1) \div PAGE_SIZE) * PAGE_SIZE

AlignDown(n) == (n \div PAGE_SIZE) * PAGE_SIZE

\* Mutant: the count is not a size_t.
pmm_range_used_no_wrap(range, bits, count) ==
    [bits |-> bits \cup PagesOf(range), count |-> count - PagesIn(range)]

\* Mutant: bits are cleared without counting the pages.
pmm_range_unused_uncounted(range, bits, count) ==
    [bits |-> bits \ PagesOf(range), count |-> count]

\* usable_pages is a size_t and changes by one per bit visited, whatever
\* the bit was before.
pmm_range_used(range, bits, count) ==
    [bits |-> bits \cup PagesOf(range),
     count |-> (count - PagesIn(range)) % SizeRange]

pmm_range_unused(range, bits, count) ==
    [bits |-> bits \ PagesOf(range),
     count |-> (count + PagesIn(range)) % SizeRange]

-----------------------------------------------------------------------------
(***************************************************************************)
(* pmm_find_pages: the scan.  i runs from last_page up to bitmap_size,     *)
(* which is a number of bytes although i indexes pages.                    *)
(***************************************************************************)

\* Pages the loop must see in a row before range.length reaches amount.
PagesFor(amount) == (amount + PAGE_SIZE - 1) \div PAGE_SIZE

IsFit(bits, from, limit, count, page) ==
    /\ page >= from
    /\ page + count <= limit
    /\ \A k \in page .. page + count - 1 : k \notin bits

\* Mutant: the scan starts again at page 0 when last_page yields nothing.
FoundAt_rewinds(bits, from, limit, amount) ==
    LET fits(start) == {page \in start .. limit :
                          IsFit(bits, start, limit, PagesFor(amount), page)}
        pages == IF fits(from) = {} THEN fits(0) ELSE fits(from)
    IN  {page \in pages : \A q \in pages : page <= q}

\* What the loop finds: the first pages in a row, at or after last_page, with
\* a clear bit.
FoundAt(bits, from, limit, amount) ==
    {page \in from .. limit :
        /\ IsFit(bits, from, limit, PagesFor(amount), page)
        /\ \A q \in from .. page - 1 :
              ~IsFit(bits, from, limit, PagesFor(amount), q)}

\* The range the scan ends with on success; for amount 0 the loop body never
\* runs and the range is still {0, 0}.
FoundRanges(bits, from, limit, amount) ==
    IF amount = 0
    THEN {[base |-> 0, length |-> 0]}
    ELSE {[base |-> page * PAGE_SIZE, length |-> PagesFor(amount) * PAGE_SIZE] :
            page \in FoundAt(bits, from, limit, amount)}

\* Mutant: a used page does not reset the length.
ScanStep_no_reset(bits, amount, range, page) ==
    IF range.length >= amount \/ page \in bits
    THEN range
    ELSE [base |-> IF range.length = 0 THEN page * PAGE_SIZE ELSE range.base,
          length |-> range.length + PAGE_SIZE]

\* One turn of the loop, at the given page.
ScanStep(bits, amount, range, page) ==
    CASE range.length >= amount -> range
      [] range.length < amount /\ page \in bits -> [range EXCEPT !.length = 0]
      [] range.length < amount /\ page \notin bits ->
           [base |-> IF range.length = 0 THEN page * PAGE_SIZE ELSE range.base,
            length |-> range.length + PAGE_SIZE]

\* The loop itself, as the recursive function of i that it is.
ScanLoop(bits, from, limit, amount) ==
    LET last == IF limit > from THEN limit ELSE from
        body[i \in from .. last] ==
          IF i = from THEN [base |-> 0, length |-> 0]
          ELSE ScanStep(bits, amount, body[i - 1], i - 1)
    IN  body[last]

-----------------------------------------------------------------------------
(***************************************************************************)
(* pmm_init.                                                               *)
(***************************************************************************)

\* The first free entry longer than the bitmap hosts it and is trimmed.
HostEntries(map) ==
    {i \in 1 .. Len(map) : map[i].is_free /\ map[i].length > BitmapSize(map)}

BitmapHost(map) ==
    CHOOSE i \in HostEntries(map) : \A j \in HostEntries(map) : i <= j

\* Mutant: the bitmap stays in the entry that hosts it.
TrimmedMap_untrimmed(map) == map

TrimmedMap(map) ==
    [map EXCEPT ![BitmapHost(map)] =
        [base |-> @.base + AlignUp(BitmapSize(map)),
         length |-> @.length - AlignUp(BitmapSize(map)),
         is_free |-> @.is_free]]

EntryRange(entry) ==
    [base |-> AlignDown(entry.base), length |-> AlignUp(entry.length)]

FreeEntries(map) == {i \in 1 .. Len(map) : map[i].is_free}

UnusedPages(map) == UNION {PagesOf(EntryRange(map[i])) : i \in FreeEntries(map)}

Init ==
    /\ memory_map \in MemoryMaps
    /\ bitmap = {}
    /\ bitmap_base = 0
    /\ bitmap_size = 0
    /\ usable_pages = 0
    /\ last_page = 0
    /\ status = "boot"
    /\ held = {}
    /\ stale = {}
    /\ refreed = FALSE

\* memset(bitmap, 0xff), pmm_range_unused of every free entry, then
\* pmm_range_used of the bitmap, whose length is not rounded up.
pmm_init ==
    /\ status = "boot"
    /\ HostEntries(memory_map) # {}
    /\ memory_map' = TrimmedMap(memory_map)
    /\ bitmap_size' = BitmapSize(memory_map)
    /\ bitmap_base' = memory_map[BitmapHost(memory_map)].base
    /\ LET own == [base |-> bitmap_base', length |-> bitmap_size']
           all == 0 .. 8 * bitmap_size' - 1
           marked == pmm_range_used(own, all \ UnusedPages(memory_map'),
                                    Cardinality(UnusedPages(memory_map')))
       IN  /\ bitmap' = marked.bits
           /\ usable_pages' = marked.count
    /\ status' = "running"
    /\ UNCHANGED << last_page, held, stale, refreed >>

\* assert(bitmap != NULL)
pmm_init_no_room ==
    /\ status = "boot"
    /\ HostEntries(memory_map) = {}
    /\ status' = "panic"
    /\ bitmap_size' = BitmapSize(memory_map)
    /\ UNCHANGED << memory_map, bitmap, bitmap_base, usable_pages, last_page,
                    held, stale, refreed >>

-----------------------------------------------------------------------------
(***************************************************************************)
(* pmm_alloc and pmm_free.                                                 *)
(***************************************************************************)
Found(amount) == FoundRanges(bitmap, last_page, bitmap_size, amount)

\* assert(usable_pages > 0)
pmm_alloc_no_pages ==
    /\ status = "running"
    /\ usable_pages = 0
    /\ status' = "panic"
    /\ UNCHANGED << memory_map, bitmap, bitmap_base, bitmap_size, usable_pages,
                    last_page, held, stale, refreed >>

\* The range is marked, and the next scan starts after it.
pmm_alloc(amount) ==
    /\ status = "running"
    /\ usable_pages > 0
    /\ \E range \in Found(amount) :
         LET marked == pmm_range_used(range, bitmap, usable_pages)
         IN  /\ last_page' = (range.base + range.length) \div PAGE_SIZE
             /\ bitmap' = marked.bits
             /\ usable_pages' = marked.count
             /\ IF range.length > 0
                THEN held' = held \cup {range} /\ status' = status
                \* every caller asserts that the length is positive
                ELSE held' = held /\ status' = "panic"
    /\ UNCHANGED << memory_map, bitmap_base, bitmap_size, stale, refreed >>

\* Nothing found: with last_page = 0 an empty range is returned, on which
\* every caller asserts; otherwise the function calls itself with the same
\* arguments and the same globals, for ever, with interrupts disabled.
pmm_alloc_not_found(amount) ==
    /\ status = "running"
    /\ usable_pages > 0
    /\ Found(amount) = {}
    /\ status' = IF last_page = 0 THEN "panic" ELSE "hung"
    /\ UNCHANGED << memory_map, bitmap, bitmap_base, bitmap_size, usable_pages,
                    last_page, held, stale, refreed >>

\* The owner gives a range back.
pmm_free(range) ==
    /\ status = "running"
    /\ range \in held
    /\ LET cleared == pmm_range_unused(range, bitmap, usable_pages)
       IN  bitmap' = cleared.bits /\ usable_pages' = cleared.count
    /\ held' = held \ {range}
    /\ stale' = stale \cup {range}
    /\ UNCHANGED << memory_map, bitmap_base, bitmap_size, last_page, status,
                    refreed >>

\* task_slayer never leaves TASK_WAITINGFORDEATH: every pass frees the stack
\* and the page table of a dead process once more.
pmm_free_again(range) ==
    /\ status = "running"
    /\ range \in stale
    /\ LET cleared == pmm_range_unused(range, bitmap, usable_pages)
       IN  bitmap' = cleared.bits /\ usable_pages' = cleared.count
    /\ refreed' = TRUE
    /\ UNCHANGED << memory_map, bitmap_base, bitmap_size, last_page, status,
                    held, stale >>

\* The kernel is halted, or spins with interrupts disabled.
Stopped ==
    /\ status \in {"hung", "panic"}
    /\ UNCHANGED vars

Next ==
    \/ pmm_init
    \/ pmm_init_no_room
    \/ pmm_alloc_no_pages
    \/ \E amount \in Amounts : pmm_alloc(amount) \/ pmm_alloc_not_found(amount)
    \/ \E range \in held : pmm_free(range)
    \/ \E range \in stale : pmm_free_again(range)
    \/ Stopped

Spec == Init /\ [][Next]_vars

-----------------------------------------------------------------------------
(***************************************************************************)
(* Properties.                                                             *)
(***************************************************************************)
TypeOK ==
    /\ memory_map \in Seq([base : Nat, length : Nat, is_free : BOOLEAN])
    /\ bitmap \subseteq Nat
    /\ bitmap_base \in Nat
    /\ bitmap_size \in Nat
    /\ usable_pages \in 0 .. SizeRange - 1
    /\ last_page \in Nat
    /\ status \in {"boot", "running", "hung", "panic"}
    /\ held \subseteq range_t
    /\ stale \subseteq range_t
    /\ refreed \in BOOLEAN

\* Two owners never hold the same page, and a page somebody holds is marked
\* used, although the slayer keeps freeing ranges it no longer owns
\* (sched.c:104-105): pmm_find_pages never goes back before last_page, so a
\* freed page is never handed out again.
HeldExclusively ==
    /\ \A r, s \in held : r # s => PagesOf(r) \cap PagesOf(s) = {}
    /\ \A r \in held : PagesOf(r) \subseteq bitmap

\* A page that holds no byte of the bitmap and lies in a usable entry.
UsablePage(p) ==
    /\ \/ (p + 1) * PAGE_SIZE <= bitmap_base
       \/ p * PAGE_SIZE >= bitmap_base + bitmap_size
    /\ \E i \in FreeEntries(memory_map) :
          /\ p * PAGE_SIZE >= memory_map[i].base
          /\ (p + 1) * PAGE_SIZE <= memory_map[i].base + memory_map[i].length

\* No page handed out holds a byte of the bitmap, and each one lies in an
\* entry the boot loader called usable (pmm_init trims and marks the memory
\* map so that pmm_find_pages can only meet such pages).
HeldIsUsableMemory ==
    \A r \in held : \A p \in PagesOf(r) : UsablePage(p)

\* usable_pages counts the clear bits, less the pages of the bitmap that
\* pmm_init subtracts although trimming the host entry had already left them
\* out.  (Only while nothing is freed twice: bitmap_unused counts without
\* looking at the bit.)
UsablePagesCountClearBits ==
    status \in {"running", "hung"} /\ ~refreed =>
        usable_pages = (Cardinality((0 .. 8 * bitmap_size - 1) \ bitmap)
                          - bitmap_size \div PAGE_SIZE) % SizeRange

\* A page is handed out at most once in the life of the system, freed or not.
NeverReissued ==
    [][\A r \in held' \ held : \A s \in held \cup stale :
          PagesOf(r) \cap PagesOf(s) = {}]_vars

\* The loop of pmm_find_pages computes the first fit: whatever the bitmap,
\* it ends with length >= amount exactly when a fit exists, and then with the
\* lowest one.
ScanIsFirstFit ==
    status = "running" => \A amount \in Amounts :
        LET range == ScanLoop(bitmap, last_page, bitmap_size, amount)
        IN  Found(amount) = IF range.length >= amount THEN {range} ELSE {}

\* compat.c:61 hands pmm_alloc's answer to the heap, whose hook promises an
\* answer also when no pages can be had (liballoc.h: "return NULL if the
\* pages were not allocated"): an allocation never fails to return.
AllocReturns == status # "hung"
=============================================================================
