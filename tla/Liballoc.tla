------------------------------ MODULE Liballoc ------------------------------
(***************************************************************************)
(* The kernel heap: sources/libs/liballoc/liballoc.c and its hooks in      *)
(* compat.c, behind kmalloc.c and the allocation functions of stdlib.c.    *)
(*                                                                         *)
(* A major is a chunk of pages with the list of the blocks (minors) in it, *)
(* both kept in list order; addresses are bytes.  malloc and free run      *)
(* under the heap's lock (module Locks: whoever finds it taken spins for   *)
(* ever), so each is one action; realloc takes the lock three times.       *)
(* Counters of warnings and errors, which nobody reads, are left out.      *)
(***************************************************************************)
EXTENDS Integers, Sequences, SequencesExt

CONSTANTS Owner,         \* who allocates: each has one block at a time
          Stack,         \* owners that are system-call stacks of processes
          Amount,        \* the sizes asked for
          MAJOR, MINOR,  \* sizeof(struct liballoc_major), ..._minor
          ALIGNMENT, ALIGN_INFO,
          l_pageSize,
          l_pageCount,   \* least number of pages in a major
          MemoryPages    \* pages the page allocator can hand out

NULL == 0

ASSUME SizesAssumption ==
    /\ {MAJOR, MINOR, ALIGNMENT, l_pageSize, l_pageCount} \subseteq Nat \ {0}
    /\ {ALIGN_INFO, MemoryPages} \subseteq Nat
    /\ Amount \subseteq Nat
    /\ Stack \subseteq Owner

VARIABLES heap,     \* l_memRoot's list, l_bestBet, l_inuse, l_allocated, and
                    \* the pages taken from and given back to the allocator
          own,      \* what each owner knows of its block
          stolen,   \* a block was freed under its owner
          halted    \* an assertion failed

vars == << heap, own, stolen, halted >>

-----------------------------------------------------------------------------
(***************************************************************************)
(* Majors, minors and pointers.                                            *)
(***************************************************************************)
Size(maj) == maj.pages * l_pageSize

Space(maj) == Size(maj) - maj.usage

End(min) == min.at + MINOR + min.size

\* The hole behind the i-th minor; hole 0 is the one before the first.
HoleStart(maj, i) == IF i = 0 THEN maj.base + MAJOR ELSE End(maj.minors[i])

HoleEnd(maj, i) ==
    IF i = Len(maj.minors) THEN maj.base + Size(maj) ELSE maj.minors[i + 1].at

HoleFits(maj, i, size) ==
    HoleEnd(maj, i) - HoleStart(maj, i) >= size + MINOR

\* ALIGN: room for the alignment information, then up to the alignment.
ALIGN(p) ==
    LET q == p + ALIGN_INFO
    IN  IF q % ALIGNMENT = 0 THEN q ELSE q + ALIGNMENT - (q % ALIGNMENT)

Pointer(min) == ALIGN(min.at + MINOR)

\* UNALIGN finds the header of a living block from its pointer, whoever got
\* the pointer.  In front of any other pointer there is no LIBALLOC_MAGIC: a
\* freed header says LIBALLOC_DEAD, and data is taken not to imitate one.
Found(p) ==
    UNION {{<< i, j >> : j \in {k \in 1 .. Len(heap.majors[i].minors) :
                                  Pointer(heap.majors[i].minors[k]) = p}} :
             i \in 1 .. Len(heap.majors)}

-----------------------------------------------------------------------------
(***************************************************************************)
(* liballoc_malloc.                                                        *)
(***************************************************************************)

\* allocate_new_page: pages enough for both headers, and no fewer than
\* l_pageCount.  Pages are never handed out twice (Pmm!NeverReissued).
PagesFor(size) ==
    LET bytes == size + MAJOR + MINOR
        pages == IF bytes % l_pageSize = 0 THEN bytes \div l_pageSize
                                           ELSE bytes \div l_pageSize + 1
    IN  IF pages < l_pageCount THEN l_pageCount ELSE pages

allocate_new_page(size) ==
    [base |-> (heap.taken + 1) * l_pageSize, pages |-> PagesFor(size),
     usage |-> MAJOR, minors |-> << >>]

\* Mutant: the header of the new block is forgotten when a hole is measured.
FirstHole_no_header(maj, size) ==
    {i \in 0 .. Len(maj.minors) :
        /\ HoleEnd(maj, i) - HoleStart(maj, i) >= size
        /\ \A k \in 0 .. i - 1 : HoleEnd(maj, k) - HoleStart(maj, k) < size}

\* CASE 2 (no minor), 3 (before the first), 4.1 (after the last) and 4.2
\* (between two): the first hole large enough, if the major's free space
\* (CASE 1) promises one at all.  CASE 5 is that there is none.
FirstHole(maj, size) ==
    {i \in 0 .. Len(maj.minors) :
        /\ Space(maj) >= size + MINOR
        /\ HoleFits(maj, i, size)
        /\ \A k \in 0 .. i - 1 : ~HoleFits(maj, k, size)}

IndexOf(base) == CHOOSE i \in 1 .. Len(heap.majors) : heap.majors[i].base = base

BetSpace == IF heap.bestBet = NULL THEN 0
            ELSE Space(heap.majors[IndexOf(heap.bestBet)])

\* Mutant: a search that started at the best bet never goes back to the root.
Route_no_restart(size) ==
    LET n == Len(heap.majors)
    IN  IF BetSpace > size + MINOR
        THEN [k \in 1 .. n + 1 - IndexOf(heap.bestBet) |-> IndexOf(heap.bestBet) + k - 1]
        ELSE [k \in 1 .. n |-> k]

\* The majors in the order the search meets them: from the best bet to the
\* end of the list when it has more than enough, and then all of them.
Route(size) ==
    LET n == Len(heap.majors)
        all == [k \in 1 .. n |-> k]
    IN  IF BetSpace > size + MINOR
        THEN SubSeq(all, IndexOf(heap.bestBet), n) \o all
        ELSE all

\* The part of the route that is walked: up to the first major with a hole.
Walked(size) ==
    LET stops == {k \in 1 .. Len(Route(size)) :
                    FirstHole(heap.majors[Route(size)[k]], size) # {}}
    IN  IF stops = {} THEN Route(size)
        ELSE SubSeq(Route(size), 1, CHOOSE k \in stops : \A j \in stops : k <= j)

\* The search compares the space of every major it meets with the best.
Better(bet, maj) ==
    IF Space(maj) > bet.space THEN [at |-> maj.base, space |-> Space(maj)] ELSE bet

\* On the way l_bestBet moves to every major with more space than the last.
BetAfter(size) ==
    LET walked == Walked(size)
        bet[k \in 0 .. Len(walked)] ==
            IF k = 0 THEN [at |-> heap.bestBet, space |-> BetSpace]
            ELSE Better(bet[k - 1], heap.majors[walked[k]])
    IN  bet[Len(walked)]

\* The new minor goes into hole i of the major.
Placed(maj, i, size, req) ==
    [maj EXCEPT !.minors = InsertAt(@, i + 1,
                              [at |-> HoleStart(maj, i), size |-> size, req |-> req]),
                !.usage = @ + size + MINOR]

\* What malloc makes of the heap: the block is placed in the last major
\* walked, or in a new one behind it.  A new major becomes the best bet when
\* it has more space, unless CASE 1 fell through to CASE 2.
Grown(req) ==
    LET size == req + ALIGNMENT + ALIGN_INFO
        walked == Walked(size)
        last == IF walked = << >> THEN 0 ELSE walked[Len(walked)]
        holes == IF last = 0 THEN {} ELSE FirstHole(heap.majors[last], size)
        new == allocate_new_page(size)
        fallsThrough == last # 0 /\ Space(heap.majors[last]) < size + MINOR
        bet == BetAfter(size)
    IN  IF holes # {}
        THEN [heap EXCEPT
                !.majors[last] = Placed(@, CHOOSE i \in holes : TRUE, size, req),
                !.bestBet = bet.at,
                !.inuse = @ + size]
        ELSE [majors |-> Append(heap.majors, Placed(new, 0, size, req)),
              bestBet |-> IF Space(new) > bet.space /\ ~fallsThrough
                          THEN new.base ELSE bet.at,
              inuse |-> heap.inuse + size,
              allocated |-> heap.allocated + Size(new),
              taken |-> heap.taken + new.pages,
              returned |-> heap.returned]

\* liballoc_alloc asserts that pages are left (compat.c:62).
HasMemory(new) == new.taken - new.returned <= MemoryPages

\* The pointer malloc returns: that of the one block it has added.
Added(new) ==
    LET pointers(majors) == UNION {{Pointer(majors[i].minors[j]) :
                                      j \in 1 .. Len(majors[i].minors)} : i \in 1 .. Len(majors)}
    IN  CHOOSE p \in pointers(new.majors) : p \notin pointers(heap.majors)

-----------------------------------------------------------------------------
(***************************************************************************)
(* liballoc_free.                                                          *)
(***************************************************************************)

\* Mutant: the length is given in bytes, as pmm_free expects it.
liballoc_free_in_bytes(pages) == pages

\* compat.c:74 passes the number of pages where pmm_free expects bytes, and
\* pmm_free divides it by the page size.
liballoc_free_(pages) == pages \div l_pageSize

\* Mutant: the best bet is not dropped with its major.
Emptied_keeps_bet(i) ==
    [heap EXCEPT !.majors = RemoveAt(@, i),
                 !.allocated = @ - Size(heap.majors[i]),
                 !.returned = @ + liballoc_free_(heap.majors[i].pages)]

\* The last minor of a major is gone: so is the major.
Emptied(i) ==
    [heap EXCEPT !.majors = RemoveAt(@, i),
                 !.bestBet = IF @ = heap.majors[i].base THEN NULL ELSE @,
                 !.allocated = @ - Size(heap.majors[i]),
                 !.returned = @ + liballoc_free_(heap.majors[i].pages)]

\* Mutant: the block's header stays counted as used.
Unlinked_keeps_header(i, j) ==
    LET maj == heap.majors[i]
        left == [maj EXCEPT !.minors = RemoveAt(@, j),
                            !.usage = @ - maj.minors[j].size]
    IN  IF left.minors = << >> THEN Emptied(i)
        ELSE [heap EXCEPT
                !.majors[i] = left,
                !.bestBet = IF @ # NULL /\ Space(left) > BetSpace THEN left.base ELSE @]

\* The j-th minor of the i-th major is unlinked.  The best bet is measured
\* after usage has changed, which matters when it is this major.
Unlinked(i, j) ==
    LET maj == heap.majors[i]
        left == [maj EXCEPT !.minors = RemoveAt(@, j),
                            !.usage = @ - maj.minors[j].size - MINOR]
        betSpace == IF heap.bestBet = maj.base THEN Space(left) ELSE BetSpace
    IN  IF left.minors = << >> THEN Emptied(i)
        ELSE [heap EXCEPT
                !.majors[i] = left,
                !.bestBet = IF @ # NULL /\ Space(left) > betSpace THEN left.base ELSE @]

Freed(p) ==
    IF Found(p) = {} THEN heap
    ELSE LET ij == CHOOSE ij \in Found(p) : TRUE
             size == heap.majors[ij[1]].minors[ij[2]].size
         IN  [Unlinked(ij[1], ij[2]) EXCEPT !.inuse = heap.inuse - size]

-----------------------------------------------------------------------------
(***************************************************************************)
(* The owners.                                                             *)
(***************************************************************************)
\* An owner whose block was freed under it goes on writing to memory that holds
\* headers or belongs to others: nothing can be said of what follows.
Running == ~halted /\ ~stolen

Nothing == [pc |-> "none", ptr |-> NULL, want |-> 0, new |-> NULL, target |-> 0]

Init ==
    /\ heap = [majors |-> << >>, bestBet |-> NULL, inuse |-> 0,
               allocated |-> 0, taken |-> 0, returned |-> 0]
    /\ own = [o \in Owner |-> Nothing]
    /\ stolen = FALSE
    /\ halted = FALSE

\* kmalloc, kcalloc, malloc and calloc; realloc of a NULL pointer.
liballoc_malloc(o, req) ==
    /\ Running /\ own[o].pc = "none"
    /\ heap' = Grown(req)
    /\ HasMemory(heap')
    /\ own' = [own EXCEPT ![o] = [Nothing EXCEPT
                  !.pc = "live", !.ptr = Added(heap'), !.want = req]]
    /\ UNCHANGED << stolen, halted >>

\* assert(phys_range.length > 0)
liballoc_alloc_fails(o, req) ==
    /\ Running
    /\ \/ own[o].pc = "none"
       \/ own[o].pc = "grow" /\ own[o].target = req
    /\ ~HasMemory(Grown(req))
    /\ halted' = TRUE
    /\ UNCHANGED << heap, own, stolen >>

\* Another owner than o believes that the block at p is its own.
Belongs(o, p) == \E q \in Owner \ {o} :
    own[q].pc # "dead" /\ p \in {own[q].ptr, own[q].new} \ {NULL}

\* kfree, free, and realloc to size 0.  A stack remembers its pointer.
liballoc_free(o) ==
    /\ Running /\ own[o].pc = "live"
    /\ heap' = Freed(own[o].ptr)
    /\ own' = [own EXCEPT ![o] = IF o \in Stack
                 THEN [Nothing EXCEPT !.pc = "dead", !.ptr = own[o].ptr] ELSE Nothing]
    /\ stolen' = (stolen \/ Belongs(o, own[o].ptr))
    /\ UNCHANGED halted

\* task_slayer frees the stack of a dead process again in every pass.
free_again(o) ==
    /\ Running /\ own[o].pc = "dead"
    /\ heap' = Freed(own[o].ptr)
    /\ stolen' = (stolen \/ Belongs(o, own[o].ptr))
    /\ UNCHANGED << own, halted >>

ReqOf(p) == LET ij == CHOOSE ij \in Found(p) : TRUE
            IN  heap.majors[ij[1]].minors[ij[2]].req

\* Mutant: the size asked for is not recorded when the block is kept.
realloc_in_place_unrecorded(o, req) ==
    /\ Running /\ own[o].pc = "live" /\ o \notin Stack /\ req > 0
    /\ Found(own[o].ptr) # {}
    /\ req <= ReqOf(own[o].ptr)
    /\ own' = [own EXCEPT ![o].want = req]
    /\ UNCHANGED << heap, stolen, halted >>

\* A block no larger than it was asked to be is kept.
realloc_in_place(o, req) ==
    /\ Running /\ own[o].pc = "live" /\ o \notin Stack /\ req > 0
    /\ Found(own[o].ptr) # {}
    /\ req <= ReqOf(own[o].ptr)
    /\ \E ij \in Found(own[o].ptr) :
         heap' = [heap EXCEPT !.majors[ij[1]].minors[ij[2]].req = req]
    /\ own' = [own EXCEPT ![o].want = req]
    /\ UNCHANGED << stolen, halted >>

\* A larger one is allocated after the lock has been released.
realloc_grow(o, req) ==
    /\ Running /\ own[o].pc = "live" /\ o \notin Stack /\ req > 0
    /\ Found(own[o].ptr) # {}
    /\ req > ReqOf(own[o].ptr)
    /\ own' = [own EXCEPT ![o].pc = "grow", ![o].target = req]
    /\ UNCHANGED << heap, stolen, halted >>

realloc_malloc(o) ==
    /\ Running /\ own[o].pc = "grow"
    /\ heap' = Grown(own[o].target)
    /\ HasMemory(heap')
    /\ own' = [own EXCEPT ![o].pc = "copy", ![o].new = Added(heap')]
    /\ UNCHANGED << stolen, halted >>

\* The copy, of req_size bytes, touches only the two blocks.
realloc_free(o) ==
    /\ Running /\ own[o].pc = "copy"
    /\ heap' = Freed(own[o].ptr)
    /\ own' = [own EXCEPT ![o] = [Nothing EXCEPT
                  !.pc = "live", !.ptr = own[o].new, !.want = own[o].target]]
    /\ stolen' = (stolen \/ Belongs(o, own[o].ptr))
    /\ UNCHANGED halted

Stopped == ~Running /\ UNCHANGED vars

Next ==
    \/ \E o \in Owner, req \in Amount :
         \/ liballoc_malloc(o, req)
         \/ liballoc_alloc_fails(o, req)
         \/ realloc_in_place(o, req)
         \/ realloc_grow(o, req)
    \/ \E o \in Owner :
         \/ liballoc_free(o)
         \/ free_again(o)
         \/ realloc_malloc(o)
         \/ realloc_free(o)
    \/ Stopped

Spec == Init /\ [][Next]_vars
-----------------------------------------------------------------------------
(***************************************************************************)
(* Properties.                                                             *)
(***************************************************************************)
\* The sum of f[1] to f[n].
SumTo(n, f) ==
    LET sum[k \in 0 .. n] == IF k = 0 THEN 0 ELSE sum[k - 1] + f[k]
    IN  sum[n]

\* What the blocks of a major take, without and with their headers.
Used(maj) == SumTo(Len(maj.minors), [j \in 1 .. Len(maj.minors) |-> maj.minors[j].size])

UsedWithHeaders(maj) ==
    SumTo(Len(maj.minors), [j \in 1 .. Len(maj.minors) |-> maj.minors[j].size + MINOR])

\* The running totals agree with the lists after any history of calls, the
\* slayer's repeated frees included: usage counts the headers and blocks of a
\* major, l_inuse the blocks and l_allocated the majors that are listed.  An
\* error here makes CASE 1 skip memory that is free or enter one that is full.
TotalsMatchLists ==
    LET n == Len(heap.majors)
    IN  /\ \A i \in 1 .. n : heap.majors[i].usage = MAJOR + UsedWithHeaders(heap.majors[i])
        /\ heap.inuse = SumTo(n, [i \in 1 .. n |-> Used(heap.majors[i])])
        /\ heap.allocated = SumTo(n, [i \in 1 .. n |-> Size(heap.majors[i])])

\* l_bestBet is NULL or a listed major: malloc and free read its size and
\* usage, and malloc starts there, without looking whether it still exists.
BestBetIsListed ==
    heap.bestBet # NULL =>
        \E i \in 1 .. Len(heap.majors) : heap.majors[i].base = heap.bestBet

\* malloc takes pages from the page allocator only when no hole of any major
\* can hold the block, whether the search began at the root or the best bet.
AsksOnlyWhenFull ==
    [][heap'.taken > heap.taken =>
         LET size == heap'.majors[Len(heap'.majors)].minors[1].size
         IN  \A i \in 1 .. Len(heap.majors) :
               \A k \in 0 .. Len(heap.majors[i].minors) : ~HoleFits(heap.majors[i], k, size)]_vars

\* Until a block is freed under its owner, every pointer an owner holds leads
\* to a block that records the size the owner asked for last, through any
\* sequence of reallocations, and is long enough for it behind the alignment:
\* realloc copies as many bytes as the record says.
BlockFitsOwner ==
    ~stolen => \A o \in Owner :
        \A pw \in {<< own[o].ptr, own[o].want >>, << own[o].new, own[o].target >>} :
            (own[o].pc # "dead" /\ pw[1] # NULL) =>
                \E ij \in Found(pw[1]) :
                    LET min == heap.majors[ij[1]].minors[ij[2]]
                    IN  min.req = pw[2] /\ pw[1] + pw[2] <= End(min)

\* The memory of an emptied major is lost: compat.c:74 counts pages where
\* bytes are expected, so the page allocator never gets a page back and every
\* major ever allocated counts against the memory of the machine.
EmptiedMajorsAreLost ==
    [][heap'.allocated < heap.allocated =>
         heap'.taken - heap'.returned = heap.taken - heap.returned]_vars

\* The block behind a pointer, its header included.
Block(p) ==
    UNION {heap.majors[ij[1]].minors[ij[2]].at .. End(heap.majors[ij[1]].minors[ij[2]]) - 1 :
             ij \in Found(p)}

Claim(o) == IF own[o].pc = "dead" THEN {} ELSE Block(own[o].ptr) \cup Block(own[o].new)

Abs == INSTANCE HeapAbs WITH claim <- [o \in Owner |-> Claim(o)], intact <- ~stolen

\* The bytes and the header of one owner's block are never another's, in
\* whatever order blocks are allocated, moved and freed by interleaved callers,
\* as long as no freed stack is freed again after its memory has a new owner
\* (sched.c:103).
ImplementsHeapAbs == Abs!Spec
=============================================================================
