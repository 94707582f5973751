-------------------------------- MODULE Vmm ---------------------------------
(***************************************************************************)
(* Virtual memory (sources/arch/x86_64/vmm.c), from the boot loader's      *)
(* information (module Handover) to processes loaded from ELF images       *)
(* (kernel/elf.c), with the translations the CPU caches.                   *)
(*                                                                         *)
(* Four levels of tables with ENTRIES entries each; an address space is    *)
(* the frame of its top table.  Addresses and lengths are bytes.  The      *)
(* page allocator is module Pmm: frames come one after another and none    *)
(* comes twice.  Operations hold the lock of vmm.c, and those that do not  *)
(* follow each other on one CPU; each is one action.                       *)
(***************************************************************************)
EXTENDS Handover, FiniteSets

CONSTANTS ENTRIES,           \* entries of a table (512)
          SHARED_FIRST,      \* first top-level entry spaces share (255)
          MMAP_IO_BASE, MMAP_KERNEL_BASE, USER_STACK_BASE,
          KERNEL_STACK_SIZE,
          IO_LENGTH,         \* bytes mapped for I/O whatever the map (0xffffffff)
          Boots,             \* what boot loaders may hand over
          ModuleNames,       \* the names modules are looked up by
          Images,            \* ELF images
          HeapBytes,         \* sizes of heap chunks
          MaxSpaces,         \* bound: processes loaded
          Touched,           \* bound: pages whose translations are cached
          Observed           \* bound: pages the abstract views are compared on

VARIABLES boot,       \* the boot loader's information
          handover,
          mem,        \* page tables, contents of loaded frames, next free frame
          kernel,     \* kernel_pml4
          spaces,     \* the image each living space was loaded from
          dead,       \* spaces of dead processes, destroyed in every pass
          cr3,
          mapped,     \* entries of the memory map vmm_init has mapped
          tlb,        \* cached translations of the current space
          status      \* "off", "booted", "mapping", "running", "corrupt" or "panic"

vars == << boot, handover, mem, kernel, spaces, dead, cr3, mapped, tlb,
           status >>

VPages == ENTRIES * ENTRIES * ENTRIES * ENTRIES

AlignUp(n) == ((n + PAGE_SIZE - 1) \div PAGE_SIZE) * PAGE_SIZE

AlignDown(n) == (n \div PAGE_SIZE) * PAGE_SIZE

\* The upper half of the address space.
KernelPage == VPages \div 2 .. VPages - 1

PageOf(addr) == (addr \div PAGE_SIZE) % VPages

mmap_phys_to_io(addr) == addr + MMAP_IO_BASE

mmap_phys_to_kernel(addr) == addr + MMAP_KERNEL_BASE

\* Half of the top table is the kernel's, at least that half is shared.
ASSUME TablesAssumption ==
    /\ PAGE_SIZE \in Nat \ {0}
    /\ ENTRIES \in Nat \ {0} /\ ENTRIES % 2 = 0
    /\ SHARED_FIRST \in 0 .. ENTRIES \div 2

\* I/O memory begins in the upper half and ends where the kernel begins.
ASSUME LayoutAssumption ==
    /\ MMAP_IO_BASE \in Nat /\ MMAP_IO_BASE % PAGE_SIZE = 0
    /\ MMAP_KERNEL_BASE \in Nat /\ MMAP_KERNEL_BASE % PAGE_SIZE = 0
    /\ (VPages \div 2) * PAGE_SIZE <= MMAP_IO_BASE
    /\ MMAP_IO_BASE <= MMAP_KERNEL_BASE
    /\ MMAP_KERNEL_BASE <= VPages * PAGE_SIZE
    /\ IO_LENGTH \in 0 .. MMAP_KERNEL_BASE - MMAP_IO_BASE

\* Programs and their stacks are linked into the lower half (app_link.ld).
ASSUME ProgramAssumption ==
    /\ USER_STACK_BASE \in Nat /\ KERNEL_STACK_SIZE \in Nat
    /\ USER_STACK_BASE + KERNEL_STACK_SIZE <= (VPages \div 2) * PAGE_SIZE
    /\ Images \subseteq Seq([type : STRING, vaddr : Nat, filesz : Nat, memsz : Nat])
    /\ \A image \in Images : \A i \in 1 .. Len(image) :
         image[i].type = "PT_LOAD" =>
           image[i].vaddr + AlignUp(image[i].memsz) <= (VPages \div 2) * PAGE_SIZE
    /\ HeapBytes \subseteq Nat
    /\ Touched \subseteq 0 .. VPages - 1 /\ Observed \subseteq 0 .. VPages - 1

-----------------------------------------------------------------------------
(***************************************************************************)
(* Page tables.                                                            *)
(***************************************************************************)
Absent == [present |-> FALSE, frame |-> 0, user |-> FALSE]

pml_make_entry(frame, is_user) == [present |-> TRUE, frame |-> frame, user |-> is_user]

EmptyTable == [i \in 0 .. ENTRIES - 1 |-> Absent]

\* PMLX_GET_INDEX: level 3 is the top table, level 0 the one of the pages.
PMLX_GET_INDEX(page, level) ==
    (page \div <<1, ENTRIES, ENTRIES * ENTRIES, ENTRIES * ENTRIES * ENTRIES>>[level + 1]) % ENTRIES

WithTable(m, frame) ==
    [m EXCEPT !.tables = [f \in DOMAIN m.tables \cup {frame} |->
                            IF f = frame THEN EmptyTable ELSE m.tables[f]],
              !.next = frame + 1]

\* The table an entry points to, allocated and cleared if there is none.
\* The entry of a new table is always accessible to users.
vmm_get_pml_alloc(m, table, index) ==
    IF m.tables[table][index].present
    THEN [mem |-> m, table |-> m.tables[table][index].frame]
    ELSE [mem |-> [WithTable(m, m.next) EXCEPT
                     !.tables[table][index] = pml_make_entry(m.next, TRUE)],
          table |-> m.next]

vmm_map_page(m, pml, page, frame, is_user) ==
    LET pml3 == vmm_get_pml_alloc(m, pml, PMLX_GET_INDEX(page, 3))
        pml2 == vmm_get_pml_alloc(pml3.mem, pml3.table, PMLX_GET_INDEX(page, 2))
        pml1 == vmm_get_pml_alloc(pml2.mem, pml2.table, PMLX_GET_INDEX(page, 1))
    IN  [pml1.mem EXCEPT
           !.tables[pml1.table][PMLX_GET_INDEX(page, 0)] = pml_make_entry(frame, is_user)]

\* Page after page; the callers pass equal lengths, as the assertion wants.
vmm_map_range(m, pml, virt, phys, is_user) ==
    LET n == virt.length \div PAGE_SIZE
        after[i \in 0 .. n] ==
          IF i = 0 THEN m
          ELSE vmm_map_page(after[i - 1], pml, (PageOf(virt.base) + (i - 1)) % VPages,
                            phys.base \div PAGE_SIZE + (i - 1), is_user)
    IN  after[n]

\* vmm_get_pml along the levels: the entry of a page, or none.
Walk(m, pml, page) ==
    LET e3 == m.tables[pml][PMLX_GET_INDEX(page, 3)]
        e2 == m.tables[e3.frame][PMLX_GET_INDEX(page, 2)]
        e1 == m.tables[e2.frame][PMLX_GET_INDEX(page, 1)]
    IN  IF ~e3.present THEN Absent
        ELSE IF ~e2.present THEN Absent
        ELSE IF ~e1.present THEN Absent
        ELSE m.tables[e1.frame][PMLX_GET_INDEX(page, 0)]

\* The table that holds the entry of a page; asserted to exist.
LeafTable(m, pml, page) ==
    LET e3 == m.tables[pml][PMLX_GET_INDEX(page, 3)]
        e2 == m.tables[e3.frame][PMLX_GET_INDEX(page, 2)]
        e1 == m.tables[e2.frame][PMLX_GET_INDEX(page, 1)]
    IN  IF e3.present /\ e2.present /\ e1.present THEN {e1.frame} ELSE {}

vmm_unmap_page(m, pml, page) ==
    [m EXCEPT !.tables[CHOOSE t \in LeafTable(m, pml, page) : TRUE]
                      [PMLX_GET_INDEX(page, 0)] = Absent]

\* For every page of the range, invlpg of the page after the first one.
vmm_flush(range, cached) ==
    IF range.length \div PAGE_SIZE = 0 THEN cached
    ELSE {t \in cached : t.page # (PageOf(range.base) + 1) % VPages}

-----------------------------------------------------------------------------
(***************************************************************************)
(* vmm_init.                                                               *)
(***************************************************************************)

\* Mutant: one page too few for an entry that begins inside a page.
EntryLength_no_extra_page(entry) == AlignUp(entry.length)

EntryLength(entry) == AlignUp(entry.length) + PAGE_SIZE

\* The memory map entry at its I/O address and, for the kernel and the
\* modules, at its kernel address.
MapEntry(m, entry) ==
    LET phys == range_t(AlignDown(entry.base), EntryLength(entry))
        io == range_t(mmap_phys_to_io(phys.base), phys.length)
        low == range_t(mmap_phys_to_kernel(phys.base), phys.length)
        first == IF entry.type = "kernel" THEN vmm_map_range(m, kernel, low, phys, FALSE) ELSE m
    IN  vmm_map_range(first, kernel, io, phys, FALSE)

\* Mutant: the I/O mapping is open to user mode.
IoMapped_for_users(m) ==
    vmm_map_range(m, kernel', range_t(mmap_phys_to_io(0), IO_LENGTH), range_t(0, IO_LENGTH), TRUE)

IoMapped(m) ==
    vmm_map_range(m, kernel', range_t(mmap_phys_to_io(0), IO_LENGTH), range_t(0, IO_LENGTH), FALSE)

\* pmm_init, before, has cut the bitmap out of the entry that hosts it.
pmm_init(b, map) ==
    [map EXCEPT ![b.host].base = @ + b.cut * PAGE_SIZE,
                ![b.host].length = @ - b.cut * PAGE_SIZE]

\* The tags of stivale2 the kernel knows, and one it ignores.  The string of
\* a module fits into the array it is copied to.
MapEntries == [base : Nat, length : Nat, type : STRING]

ModuleEntries ==
    {m \in [string : Seq(STRING \ {NUL}), begin : Nat, end : Nat,
            stack : [1 .. NAME_SIZE -> STRING]] : Len(m.string) <= NAME_SIZE}

Tag == [id : {"memmap"}, entries : Seq(MapEntries)]
         \cup [id : {"modules"}, entries : Seq(ModuleEntries)]
         \cup [id : {"rsdp"}, rsdt : STRING]
         \cup [id : {"framebuffer"}, fb : STRING]
         \cup [id : {"smp"}]

\* The kernel asks for names that are shorter than the part that is cleared.
ASSUME TagsAssumption ==
    /\ \A b \in Boots : b.tags \in Seq(Tag)
    /\ \A name \in ModuleNames : name \in Seq(STRING \ {NUL}) /\ Len(name) < NAME_CLEARED

\* The memory map vmm_init works with is that of a machine: memory fits
\* between the I/O and the kernel address, a kernel that wraps past the last
\* address stays out of the shared entries, and the pages that pmm_init frees
\* are the only ones handed out.
BootMap(b) == pmm_init(b, stivale2_parse_header(b.tags).mmap)

FreedPages(entry) ==
    entry.base \div PAGE_SIZE .. entry.base \div PAGE_SIZE + AlignUp(entry.length) \div PAGE_SIZE - 1

MachineEntry(entry) ==
    /\ entry.base + entry.length > 0
    /\ AlignDown(entry.base) + EntryLength(entry) <= MMAP_KERNEL_BASE - MMAP_IO_BASE
    /\ entry.type = "kernel" =>
         mmap_phys_to_kernel(AlignDown(entry.base) + EntryLength(entry)) <=
           (VPages + SHARED_FIRST * (ENTRIES * ENTRIES * ENTRIES)) * PAGE_SIZE

ASSUME BootAssumption ==
    \A b \in Boots :
        /\ b.first \in Nat /\ b.limit \in Nat
        /\ ~stivale2_parse_header(b.tags).overrun =>
             /\ BootMap(b) \in Seq([base : Nat, length : Nat, type : STRING, is_free : BOOLEAN])
             /\ \A i \in 1 .. Len(BootMap(b)) : MachineEntry(BootMap(b)[i])
             /\ \A f \in b.first .. b.limit - 1 :
                  \E i \in 1 .. Len(BootMap(b)) : f \in FreedPages(BootMap(b)[i])

Init ==
    /\ boot \in Boots
    /\ handover = EmptyHandover
    /\ mem = [tables |-> << >>, content |-> << >>, next |-> boot.first]
    /\ kernel = 0
    /\ spaces = << >>
    /\ dead = {}
    /\ cr3 = 0
    /\ mapped = 0
    /\ tlb = {}
    /\ status = "off"

\* stivale2_entry: what is past the end of an array is lost, whoever owned it.
stivale2_entry ==
    /\ status = "off"
    /\ handover' = stivale2_parse_header(boot.tags)
    /\ status' = IF handover'.overrun THEN "corrupt" ELSE "booted"
    /\ UNCHANGED << boot, mapped, mem, kernel, spaces, dead, cr3, tlb >>

\* assert(length > 0) wherever frames are allocated.
HasFrames(m) == m.next <= boot.limit

\* The top table and the I/O mapping,
vmm_init ==
    /\ status = "booted"
    /\ kernel' = mem.next
    /\ handover' = [handover EXCEPT !.mmap = pmm_init(boot, @)]
    /\ mem' = IoMapped(WithTable(mem, kernel'))
    /\ status' = "mapping"
    /\ UNCHANGED << boot, spaces, dead, cr3, mapped, tlb >>

\* then one turn of the loop for each entry of the memory map,
vmm_init_entry ==
    /\ status = "mapping"
    /\ mapped < Len(handover.mmap)
    /\ mem' = MapEntry(mem, handover.mmap[mapped + 1])
    /\ mapped' = mapped + 1
    /\ UNCHANGED << boot, handover, kernel, spaces, dead, cr3, tlb, status >>

\* and the kernel leaves the boot loader's tables.
vmm_init_done ==
    /\ status = "mapping"
    /\ mapped = Len(handover.mmap)
    /\ HasFrames(mem)
    /\ cr3' = kernel
    /\ status' = "running"
    /\ UNCHANGED << boot, handover, mem, kernel, spaces, dead, mapped, tlb >>

-----------------------------------------------------------------------------
(***************************************************************************)
(* Spaces and processes.                                                   *)
(***************************************************************************)

\* Mutant: spaces share the last top-level entry only.
vmm_space_create_shares_last(m) ==
    [WithTable(m, m.next) EXCEPT !.tables[m.next] =
        [i \in 0 .. ENTRIES - 1 |->
            IF i = ENTRIES - 1 THEN m.tables[kernel][i] ELSE Absent]]

\* A top table with the kernel's entries, copied as they are now.
vmm_space_create(m) ==
    [WithTable(m, m.next) EXCEPT !.tables[m.next] =
        [i \in 0 .. ENTRIES - 1 |->
            IF i >= SHARED_FIRST THEN m.tables[kernel][i] ELSE Absent]]

\* What memcpy and memset leave in the frames of a segment; what lies behind
\* is not cleared.
SegmentByte(phdr, b) ==
    IF b < phdr.filesz THEN << phdr.vaddr, b >>
    ELSE IF b < phdr.memsz THEN << "zero" >> ELSE << "garbage" >>

\* Mutant: as much is allocated and mapped as the file holds.
SegmentLength_filesz(phdr) == AlignUp(phdr.filesz)

SegmentLength(phdr) == AlignUp(phdr.memsz)

\* One PT_LOAD segment; an empty one fails assert(addr.length).
load_segment(m, pml, phdr) ==
    IF phdr.type # "PT_LOAD" THEN m
    ELSE LET addr == range_t(m.next * PAGE_SIZE, SegmentLength(phdr))
             frames == m.next .. m.next + addr.length \div PAGE_SIZE - 1
             filled == [m EXCEPT
               !.next = @ + addr.length \div PAGE_SIZE,
               !.content = [f \in DOMAIN @ \cup frames |->
                  IF f \in frames
                  THEN [b \in 0 .. PAGE_SIZE - 1 |->
                          SegmentByte(phdr, (f - m.next) * PAGE_SIZE + b)]
                  ELSE m.content[f]]]
         IN  vmm_map_range(filled, pml, range_t(phdr.vaddr, addr.length), addr, TRUE)

\* The stack of task_init.
task_init(m, pml) ==
    vmm_map_range([m EXCEPT !.next = @ + KERNEL_STACK_SIZE \div PAGE_SIZE], pml,
                  range_t(USER_STACK_BASE, KERNEL_STACK_SIZE),
                  range_t(m.next * PAGE_SIZE, KERNEL_STACK_SIZE), TRUE)

Loaded(image) ==
    LET pml == mem.next
        after[i \in 0 .. Len(image)] ==
          IF i = 0 THEN vmm_space_create(mem) ELSE load_segment(after[i - 1], pml, image[i])
    IN  task_init(after[Len(image)], pml)

\* Each mapping flushes, in the current space.
Flushed(image) ==
    LET load == {i \in 1 .. Len(image) : image[i].type = "PT_LOAD"}
        ranges == {range_t(image[i].vaddr, SegmentLength(image[i])) : i \in load}
                    \cup {range_t(USER_STACK_BASE, KERNEL_STACK_SIZE)}
    IN  {t \in tlb : \A range \in ranges : t \in vmm_flush(range, tlb)}

load_elf_module(image) ==
    /\ status = "running"
    /\ Cardinality(DOMAIN spaces \cup dead) < MaxSpaces
    /\ IF /\ HasFrames(Loaded(image))
          /\ \A i \in 1 .. Len(image) : image[i].type = "PT_LOAD" => image[i].memsz > 0
       THEN /\ mem' = Loaded(image)
            /\ spaces' = [s \in DOMAIN spaces \cup {mem.next} |->
                            IF s = mem.next THEN image ELSE spaces[s]]
            /\ tlb' = Flushed(image)
            /\ status' = status
       ELSE status' = "panic" /\ UNCHANGED << mem, spaces, tlb >>
    /\ UNCHANGED << boot, mapped, handover, kernel, dead, cr3 >>

\* Mutant: the chunk is mapped to the frames behind those it was given.
liballoc_alloc_frames_behind(bytes) ==
    LET phys == range_t((mem.next + bytes \div PAGE_SIZE) * PAGE_SIZE, bytes)
        io == range_t(mmap_phys_to_io(mem.next * PAGE_SIZE), bytes)
    IN  /\ status = "running"
        /\ mem' = vmm_map_range([mem EXCEPT !.next = @ + bytes \div PAGE_SIZE], cr3, io, phys, TRUE)
        /\ tlb' = vmm_flush(io, tlb)
        /\ UNCHANGED << boot, mapped, handover, kernel, spaces, dead, cr3, status >>

\* liballoc_alloc maps the frames of a heap chunk at their I/O address, for
\* users, in the space of the current process.
liballoc_alloc(bytes) ==
    LET phys == range_t(mem.next * PAGE_SIZE, bytes)
        io == range_t(mmap_phys_to_io(phys.base), bytes)
        chunk == vmm_map_range([mem EXCEPT !.next = @ + bytes \div PAGE_SIZE], cr3, io, phys, TRUE)
    IN  /\ status = "running"
        /\ IF HasFrames(chunk)
           THEN mem' = chunk /\ tlb' = vmm_flush(io, tlb) /\ status' = status
           ELSE status' = "panic" /\ UNCHANGED << mem, tlb >>
        /\ UNCHANGED << boot, mapped, handover, kernel, spaces, dead, cr3 >>

\* arch_space_switch; loading cr3 empties the TLB, since no entry is global.
vmm_switch_space(s) ==
    /\ status = "running"
    /\ s \in DOMAIN spaces \cup {kernel}
    /\ cr3' = s
    /\ tlb' = {}
    /\ UNCHANGED << boot, mapped, handover, mem, kernel, spaces, dead, status >>

\* The CPU uses a page of the current space.
touch(page) ==
    /\ status = "running"
    /\ \A t \in tlb : t.page # page
    /\ Walk(mem, cr3, page).present
    /\ tlb' = tlb \cup {[page |-> page, entry |-> Walk(mem, cr3, page)]}
    /\ UNCHANGED << boot, mapped, handover, mem, kernel, spaces, dead, cr3, status >>

\* Nothing is flushed.  (arch_vmm_unmap has no caller yet.)
vmm_unmap(s, page) ==
    /\ status = "running"
    /\ s \in DOMAIN spaces
    /\ IF LeafTable(mem, s, page) # {}
       THEN mem' = vmm_unmap_page(mem, s, page) /\ status' = status
       ELSE status' = "panic" /\ UNCHANGED mem
    /\ UNCHANGED << boot, mapped, handover, kernel, spaces, dead, cr3, tlb >>

\* The slayer destroys the space of an exited process, which is never the
\* current one (Sched!FreedNeverRuns), in this and in every later pass: the
\* top table is cleared and its frame given back, the tables below are not.
vmm_space_destroy(s) ==
    /\ status = "running"
    /\ s # cr3
    /\ s \in DOMAIN spaces \cup dead
    /\ mem' = [mem EXCEPT !.tables[s] = EmptyTable]
    /\ spaces' = [t \in DOMAIN spaces \ {s} |-> spaces[t]]
    /\ dead' = dead \cup {s}
    /\ UNCHANGED << boot, mapped, handover, kernel, cr3, tlb, status >>

Stopped == status \in {"corrupt", "panic"} /\ UNCHANGED vars

Next ==
    \/ stivale2_entry
    \/ vmm_init
    \/ vmm_init_entry
    \/ vmm_init_done
    \/ \E image \in Images : load_elf_module(image)
    \/ \E bytes \in HeapBytes : liballoc_alloc(bytes)
    \/ \E s \in DOMAIN spaces \cup {kernel} : vmm_switch_space(s)
    \/ \E page \in Touched : touch(page)
    \/ \E s \in DOMAIN spaces, page \in Touched \ KernelPage : vmm_unmap(s, page)
    \/ \E s \in DOMAIN spaces \cup dead : vmm_space_destroy(s)
    \/ Stopped

Spec == Init /\ [][Next]_vars
-----------------------------------------------------------------------------
(***************************************************************************)
(* Properties.                                                             *)
(***************************************************************************)

\* What the boot loader listed under a kind of tag, in order.
With(id, all, tag) == IF tag.id = id THEN all \o tag.entries ELSE all

Listed(id, tags) ==
    LET upto[i \in 0 .. Len(tags)] ==
          IF i = 0 THEN << >> ELSE With(id, upto[i - 1], tags[i])
    IN  upto[Len(tags)]

\* The memory the entries of a map call usable.
Plus(n, entry) == IF entry.type = "usable" THEN n + entry.length ELSE n

UsableBytes(map) ==
    LET upto[i \in 0 .. Len(map)] == IF i = 0 THEN 0 ELSE Plus(upto[i - 1], map[i])
    IN  upto[Len(map)]

\* The first module of a name, as the boot loader listed them.
ModuleNamed(mods, name) ==
    LET named == {i \in 1 .. Len(mods) : mods[i].string = name}
    IN  IF named = {} THEN range_t(0, 0)
        ELSE LET m == mods[CHOOSE i \in named : \A j \in named : i <= j]
             IN  range_t(m.begin, m.end - m.begin)

\* Unless the fixed arrays overflow, the handover holds the memory map as it
\* was listed and counts exactly the usable memory, in whatever order the tags
\* come, and a module is found by its name, first come first, whatever the
\* uninitialised rest of other names holds (handover.c:29).
HandoverIsFaithful ==
    status = "booted" =>
        LET map == Listed("memmap", boot.tags)
            mods == Listed("modules", boot.tags)
        IN  /\ Len(handover.mmap) = Len(map)
            /\ \A i \in 1 .. Len(map) :
                 /\ handover.mmap[i].base = map[i].base
                 /\ handover.mmap[i].length = map[i].length
                 /\ handover.mmap[i].type = map[i].type
            /\ handover.memory_usable = UsableBytes(map)
            /\ \A name \in ModuleNames :
                 handover_find_module(handover, name) = ModuleNamed(mods, name)

Living == DOMAIN spaces \cup {kernel}

\* From vmm_init on, every frame of the memory map, the frames handed out
\* later included, is mapped at its I/O address in every space: the kernel
\* reaches it there to clear tables, fill images and use the heap, whichever
\* process runs (vmm.c:151-180, 225).
MemoryIsReachable ==
    status = "running" => \A i \in 1 .. Len(handover.mmap), s \in Living :
        \A f \in PageOf(handover.mmap[i].base) ..
                   PageOf(handover.mmap[i].base + handover.mmap[i].length - 1) :
            LET e == Walk(mem, s, PageOf(mmap_phys_to_io(f * PAGE_SIZE)))
            IN  e.present /\ e.frame = f

\* The tables, or at the end the pages, that the entries of some tables
\* lead to.
Below(tables) == {e.frame : e \in
    UNION {{mem.tables[t][i] : i \in {j \in 0 .. ENTRIES - 1 : mem.tables[t][j].present}} : t \in tables}}

UserFrames(s) == {e.frame : e \in
    UNION {{mem.tables[t][i] : i \in {j \in 0 .. ENTRIES - 1 : mem.tables[t][j].user}} :
             t \in Below(Below(Below({s})))}}

PrivateFrames(s) ==
    LET low == {mem.tables[s][i].frame : i \in
                  {j \in 0 .. ENTRIES \div 2 - 1 : mem.tables[s][j].present}}
    IN  Below(Below(Below(low)))

\* No translation open to user mode leads to a page table or to memory that
\* was not allocated (the kernel, the bitmap), although the entries above the
\* pages are all open and the heap is mapped for users; and what a process
\* has in the lower half no other process has.
UserReachesOnlyItsOwn ==
    status = "running" =>
        /\ \A s \in Living :
             /\ UserFrames(s) \cap DOMAIN mem.tables = {}
             /\ UserFrames(s) \subseteq boot.first .. mem.next - 1
        /\ \A s, t \in DOMAIN spaces : s # t => PrivateFrames(s) \cap PrivateFrames(t) = {}

\* A cached translation names the frame the tables name, as long as they name
\* one: vmm_flush invalidates the wrong page (vmm.c:46), which stays harmless
\* because no page in use is ever mapped to another frame.
CachedFrameIsCurrent ==
    status = "running" => \A t \in tlb :
        LET e == Walk(mem, cr3, t.page) IN e.present => e.frame = t.entry.frame

\* What app_link.ld makes of a program: segments that begin on a page, have
\* pages of their own and keep clear of the stack.
WellFormedImage(image) ==
    LET load == {i \in 1 .. Len(image) : image[i].type = "PT_LOAD"}
        pages(i) == PageOf(image[i].vaddr) .. PageOf(image[i].vaddr + image[i].memsz - 1)
        stack == PageOf(USER_STACK_BASE) .. PageOf(USER_STACK_BASE + KERNEL_STACK_SIZE - 1)
    IN  /\ \A i \in load : /\ image[i].vaddr % PAGE_SIZE = 0
                           /\ image[i].filesz <= image[i].memsz
                           /\ pages(i) \cap stack = {}
        /\ \A i, j \in load : i # j => pages(i) \cap pages(j) = {}

\* The byte of a process at a virtual address.
ByteAt(m, s, addr) ==
    LET e == Walk(m, s, PageOf(addr))
    IN  IF e.present /\ e.user THEN m.content[e.frame][addr % PAGE_SIZE] ELSE << "fault" >>

\* A process starts with its image in memory: for a well-formed image, every
\* byte of every segment reads as in the file, or as zero behind it, until the
\* process itself unmaps pages.
ImageIsLoaded ==
    [][\A s \in DOMAIN spaces' \ DOMAIN spaces :
         WellFormedImage(spaces'[s]) =>
           \A i \in 1 .. Len(spaces'[s]) :
             LET phdr == spaces'[s][i]
             IN  phdr.type = "PT_LOAD" => \A b \in 0 .. phdr.memsz - 1 :
                   ByteAt(mem', s, phdr.vaddr + b) =
                     IF b < phdr.filesz THEN << phdr.vaddr, b >> ELSE << "zero" >>]_vars

Abs == INSTANCE VmmAbs WITH
    Page <- Observed,
    KernelPage <- Observed \cap KernelPage,
    view <- [s \in IF status = "running" THEN Living ELSE {} |->
               [p \in Observed |-> Walk(mem, s, p)]],
    up <- status = "running"

\* Page tables implement address spaces: mapping, unmapping and destroying
\* change the one space they are given, except for the kernel's half, which is
\* the same everywhere at all times although each space has a copy of the
\* kernel's top-level entries (vmm.c:227) that is never brought up to date.
ImplementsVmmAbs == Abs!Spec
=============================================================================
