------------------------------ MODULE MCLocks ------------------------------
(***************************************************************************)
(* The kernel's locks and the acquires its code nests, with two threads:   *)
(* kmain, which becomes the task slayer, and one user process.             *)
(***************************************************************************)
EXTENDS Locks, TLC

CONSTANTS elf, usertask, liballoc, vmm, pmm, serial

MCLock == {elf, usertask, liballoc, vmm, pmm, serial}

\* sched.c: task_init and sched_push_process hold usertask_lock around kcalloc,
\* pmm_alloc, arch_vmm_map and vec_push; compat.c: the heap asks pmm.c and
\* vmm.c for pages; vmm.c asks pmm.c for page tables; elf.c logs,
\* creates a space, allocates and maps under its own lock.
MCNested ==
    {<< usertask, liballoc >>, << usertask, pmm >>, << usertask, vmm >>,
     << liballoc, pmm >>, << liballoc, vmm >>, << vmm, pmm >>,
     << elf, serial >>, << elf, vmm >>, << elf, pmm >>}

\* kmain loads modules, pushes processes and frees what dead ones leave; a
\* process logs, and grows a mailbox (vec_push, hence realloc).
Busy == 0 :> {elf, usertask, liballoc, pmm, serial} @@ 1 :> {liballoc, serial}

\* No mailbox has to grow, and the slayer only frees pages.
LeafOnly == 0 :> {pmm, serial} @@ 1 :> {serial}

MCWorkloads == {Busy, LeafOnly}

BusyWorkload == {Busy}
=============================================================================
