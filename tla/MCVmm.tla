------------------------------- MODULE MCVmm --------------------------------
(***************************************************************************)
(* An instance of Vmm with tables of four entries and pages of two bytes:  *)
(* 256 pages, the upper 128 of them the kernel's.  I/O memory is mapped    *)
(* from page 128, the kernel from page 240, and entry 1 of the top table   *)
(* is one that spaces share though it is in the lower half.                *)
(***************************************************************************)
EXTENDS Vmm, SequencesExt

Entry(base, length, type) == [base |-> base, length |-> length, type |-> type]

\* Memory above the I/O mapping (page 19 on), an entry that begins and ends
\* inside a page, and a kernel high enough to wrap past the last address.
MemoryMap ==
    << Entry(0, 4, "reserved"), Entry(4, 8, "kernel"), Entry(12, 32, "usable"),
       Entry(44, 34, "usable"), Entry(78, 40, "usable"), Entry(119, 4, "acpi") >>

HighModules ==
    << Entry(0, 28, "usable"), Entry(28, 6, "kernel"), Entry(34, 30, "usable"),
       Entry(64, 30, "usable"), Entry(94, 20, "usable") >>

Module(string, begin, stack) ==
    [string |-> string, begin |-> begin, end |-> begin + 2, stack |-> stack]

\* Names up to three characters in arrays of four bytes, three of which are
\* cleared.
Clean == << NUL, NUL, NUL, NUL >>
Dirty == << "t", "e", "t", "e" >>

Modules ==
    << Module(<< "s", "y" >>, 4, Dirty), Module(<< "s" >>, 6, Dirty),
       Module(<< "t", "e", "s" >>, 8, Dirty), Module(<< "t", "e" >>, 10, Dirty) >>

MapTag(map) == [id |-> "memmap", entries |-> map]
ModuleTag(mods) == [id |-> "modules", entries |-> mods]
OtherTags ==
    << [id |-> "smp"], [id |-> "rsdp", rsdt |-> "rsdt"], [id |-> "framebuffer", fb |-> "fb"] >>

MCBoots ==
    {[tags |-> << MapTag(MemoryMap), ModuleTag(Modules) >> \o OtherTags,
      host |-> 3, cut |-> 1, first |-> 7, limit |-> 59],
     [tags |-> << ModuleTag(Reverse(Modules)), MapTag(HighModules) >>,
      host |-> 1, cut |-> 1, first |-> 17, limit |-> 57],
     [tags |-> << MapTag(MemoryMap \o HighModules) >>,
      host |-> 1, cut |-> 1, first |-> 17, limit |-> 57]}

MCModuleNames == {<< "s" >>, << "t" >>, << "t", "e" >>}

Load(vaddr, filesz, memsz) ==
    [type |-> "PT_LOAD", vaddr |-> vaddr, filesz |-> filesz, memsz |-> memsz]

\* Text, then data with a page of zeroes behind; a segment among the shared
\* entries that is not page aligned; a segment without memory.
MCImages ==
    {<< Load(8, 2, 2), [type |-> "PT_NULL", vaddr |-> 0, filesz |-> 0, memsz |-> 0], Load(10, 1, 4) >>,
     << Load(131, 3, 3) >>,
     << Load(8, 0, 0) >>}
=============================================================================
