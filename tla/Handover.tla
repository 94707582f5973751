------------------------------ MODULE Handover ------------------------------
(***************************************************************************)
(* What the kernel makes of the boot loader's information:                 *)
(* stivale2_handover.c, handover.c, and the string functions they use.     *)
(* A list of tags is turned into a handover record; modules are then       *)
(* found by name.  A name is a sequence of characters without its NUL; a   *)
(* char array is a sequence in which NUL may occur.                        *)
(***************************************************************************)
EXTENDS Integers, Sequences

CONSTANTS LIMIT_MEMORY_MAP_SIZE,  \* entries of handover.mmap (64)
          LIMIT_MODULES,          \* entries of handover.modules (64)
          NAME_SIZE,              \* sizeof handover_module.name (128)
          NAME_CLEARED,           \* bytes of it that are set to 0 (64)
          PAGE_SIZE               \* bytes in a page

ASSUME NameAssumption == NAME_SIZE \in Nat /\ NAME_CLEARED \in 1 .. NAME_SIZE

NUL == "NUL"

-----------------------------------------------------------------------------
(***************************************************************************)
(* string.c                                                                *)
(***************************************************************************)

\* The characters in front of the first NUL; in an array without one, strlen
\* runs past the end.
CString(array) ==
    LET ends == {i \in 1 .. Len(array) : array[i] = NUL}
    IN  IF ends = {} THEN Append(array, "past the end")
        ELSE SubSeq(array, 1, (CHOOSE i \in ends : \A j \in ends : i <= j) - 1)

strlen(array) == Len(CString(array))

\* Only whether the result is 0 matters to the callers; the order of the
\* other results is taken from the second characters, wherever they differ.
strncmp(s1, s2, n) ==
    IF \A i \in 1 .. n : CString(s1)[i] = CString(s2)[i] THEN 0 ELSE 1

\* Mutant: the lengths are not compared first.
strcmp_prefix(s1, s2) ==
    IF strlen(s1) > strlen(s2) THEN 1 ELSE strncmp(s1, s2, strlen(s1))

strcmp(s1, s2) ==
    IF strlen(s1) # strlen(s2) THEN strlen(s1) - strlen(s2)
    ELSE strncmp(s1, s2, strlen(s1))

-----------------------------------------------------------------------------
(***************************************************************************)
(* stivale2_handover.c                                                     *)
(***************************************************************************)
range_t(base, length) == [base |-> base, length |-> length]

\* handover = {0}.  overrun: an array was written past its end.
EmptyHandover ==
    [memory_usable |-> 0, usable_pages |-> 0, mmap |-> << >>, modules |-> << >>,
     rsdt |-> "none", framebuffer |-> "none", overrun |-> FALSE]

\* One turn of the loop: the entry is appended without looking at the limit.
parse_mmap_entry(this, entry) ==
    IF Len(this.mmap) = LIMIT_MEMORY_MAP_SIZE THEN [this EXCEPT !.overrun = TRUE]
    ELSE [this EXCEPT
            !.mmap = Append(@, [base |-> entry.base, length |-> entry.length,
                                type |-> entry.type, is_free |-> entry.type = "usable"]),
            !.memory_usable = @ + (IF entry.type = "usable" THEN entry.length ELSE 0)]

parse_mmap(this, entries) ==
    LET after[i \in 0 .. Len(entries)] ==
          IF i = 0 THEN this ELSE parse_mmap_entry(after[i - 1], entries[i])
        parsed == after[Len(entries)]
    IN  [parsed EXCEPT !.usable_pages = parsed.memory_usable \div PAGE_SIZE]

\* The local struct is not initialised: behind the part that is set to 0 and
\* the copied name, the array holds what the stack held.
ModuleName(string, stack) ==
    [i \in 1 .. NAME_SIZE |->
        IF i <= Len(string) THEN string[i] ELSE IF i <= NAME_CLEARED THEN NUL ELSE stack[i]]

parse_module_entry(this, m) ==
    IF Len(this.modules) = LIMIT_MODULES THEN [this EXCEPT !.overrun = TRUE]
    ELSE [this EXCEPT !.modules = Append(@,
            [name |-> ModuleName(m.string, m.stack), addr |-> range_t(m.begin, m.end - m.begin)])]

parse_module(this, mods) ==
    LET after[i \in 0 .. Len(mods)] ==
          IF i = 0 THEN this ELSE parse_module_entry(after[i - 1], mods[i])
    IN  after[Len(mods)]

\* The tags in the order of the list; smp and unknown ones leave no trace.
parse_tag(this, tag) ==
    CASE tag.id = "memmap"      -> parse_mmap(this, tag.entries)
      [] tag.id = "modules"     -> parse_module(this, tag.entries)
      [] tag.id = "rsdp"        -> [this EXCEPT !.rsdt = tag.rsdt]
      [] tag.id = "framebuffer" -> [this EXCEPT !.framebuffer = tag.fb]
      [] OTHER                  -> this

stivale2_parse_header(tags) ==
    LET after[i \in 0 .. Len(tags)] ==
          IF i = 0 THEN EmptyHandover ELSE parse_tag(after[i - 1], tags[i])
    IN  after[Len(tags)]

-----------------------------------------------------------------------------
(***************************************************************************)
(* handover.c                                                              *)
(***************************************************************************)
AsArray(name) == Append(name, NUL)

handover_find_module(handover, name) ==
    LET matches == {i \in 1 .. Len(handover.modules) :
                      strcmp(AsArray(name), handover.modules[i].name) = 0}
    IN  IF matches = {} THEN range_t(0, 0)
        ELSE handover.modules[CHOOSE i \in matches : \A j \in matches : i <= j].addr
=============================================================================
