------------------------------- MODULE Locks -------------------------------
(***************************************************************************)
(* The kernel's spin locks: arch_acquire and arch_release of               *)
(* sources/arch/cross-x86/lock.s, one action per instruction that touches  *)
(* the lock word or the interrupt flag, on the one CPU the kernel runs.    *)
(*                                                                         *)
(* Threads are the processes executing kernel code (a system call, kmain,  *)
(* the task slayer).  What kernel code does between locks is abstracted to *)
(* which lock a thread may acquire first, and which lock may be acquired   *)
(* while which is held.                                                    *)
(***************************************************************************)
EXTENDS Naturals, Sequences

CONSTANTS N,            \* number of threads
          Lock,         \* the lock words
          Nested,       \* pairs << held, acquired >> of the kernel's code
          Workloads     \* the locks each thread acquires holding none

Thread == 0 .. N - 1

ASSUME NAssumption == N \in Nat \ {0}
ASSUME NestedAssumption == Nested \subseteq Lock \X Lock
ASSUME WorkloadsAssumption == Workloads \subseteq [Thread -> SUBSET Lock]

VARIABLES word,     \* the dword at [rdi]: 0 or 1
          intr,     \* the interrupt flag
          cur,      \* the thread the CPU executes
          pc,       \* where a thread stands in lock.s
          want,     \* the argument of its last arch_acquire
          stack,    \* the locks it holds, the innermost first
          outer     \* the workload: what the threads do in this run

vars == << word, intr, cur, pc, want, stack, outer >>

\* "run" is outside lock.s; "cli" and "bts" are the instructions of
\* arch_acquire, "spin" its loop; "sti" is the second one of arch_release.
Label == {"run", "cli", "bts", "spin", "sti"}

Holds(t, l) == \E i \in DOMAIN stack[t] : stack[t][i] = l

Leaf(l) == \A m \in Lock : << l, m >> \notin Nested

-----------------------------------------------------------------------------
Init ==
    /\ outer \in Workloads
    /\ word = [l \in Lock |-> 0]
    /\ intr = TRUE
    /\ cur \in Thread
    /\ pc = [t \in Thread |-> "run"]
    /\ want \in [Thread -> Lock]
    /\ \A t, u \in Thread : want[t] = want[u]
    /\ stack = [t \in Thread |-> << >>]

\* Kernel code calls arch_acquire(&l).
call_acquire(t, l) ==
    /\ cur = t
    /\ pc[t] = "run"
    /\ IF stack[t] = << >>
       THEN l \in outer[t]
       ELSE << Head(stack[t]), l >> \in Nested
    /\ want' = [want EXCEPT ![t] = l]
    /\ pc' = [pc EXCEPT ![t] = "cli"]
    /\ UNCHANGED << word, intr, cur, stack, outer >>

\* Mutant: interrupts stay enabled.
acquire_cli_missing(t) ==
    /\ cur = t
    /\ pc[t] = "cli"
    /\ pc' = [pc EXCEPT ![t] = "bts"]
    /\ UNCHANGED << word, intr, cur, want, stack, outer >>

acquire_cli(t) ==
    /\ cur = t
    /\ pc[t] = "cli"
    /\ intr' = FALSE
    /\ pc' = [pc EXCEPT ![t] = "bts"]
    /\ UNCHANGED << word, cur, want, stack, outer >>

\* Mutant: the carry flag is not tested.
acquire_bts_no_jc(t) ==
    /\ cur = t
    /\ pc[t] = "bts"
    /\ word' = [word EXCEPT ![want[t]] = 1]
    /\ pc' = [pc EXCEPT ![t] = "run"]
    /\ stack' = [stack EXCEPT ![t] = << want[t] >> \o @]
    /\ UNCHANGED << intr, cur, want, outer >>

\* lock bts; jc .spin
acquire_bts(t) ==
    /\ cur = t
    /\ pc[t] = "bts"
    /\ word' = [word EXCEPT ![want[t]] = 1]
    /\ IF word[want[t]] = 0
       THEN /\ pc' = [pc EXCEPT ![t] = "run"]
            /\ stack' = [stack EXCEPT ![t] = << want[t] >> \o @]
       ELSE /\ pc' = [pc EXCEPT ![t] = "spin"]
            /\ stack' = stack
    /\ UNCHANGED << intr, cur, want, outer >>

\* Mutant: the loop waits with interrupts enabled.
acquire_spin_sti(t) ==
    /\ cur = t
    /\ pc[t] = "spin"
    /\ intr' = TRUE
    /\ pc' = [pc EXCEPT ![t] = IF word[want[t]] = 1 THEN "spin" ELSE "cli"]
    /\ UNCHANGED << word, cur, want, stack, outer >>

\* pause; test; jnz .spin; jmp arch_acquire
acquire_spin(t) ==
    /\ cur = t
    /\ pc[t] = "spin"
    /\ pc' = [pc EXCEPT ![t] = IF word[want[t]] = 1 THEN "spin" ELSE "cli"]
    /\ UNCHANGED << word, intr, cur, want, stack, outer >>

\* Kernel code calls arch_release(&l) for the lock it acquired last.
release_mov(t) ==
    /\ cur = t
    /\ pc[t] = "run"
    /\ stack[t] # << >>
    /\ word' = [word EXCEPT ![Head(stack[t])] = 0]
    /\ stack' = [stack EXCEPT ![t] = Tail(@)]
    /\ pc' = [pc EXCEPT ![t] = "sti"]
    /\ UNCHANGED << intr, cur, want, outer >>

\* Mutant: interrupts are left as arch_acquire disabled them.
release_sti_missing(t) ==
    /\ cur = t
    /\ pc[t] = "sti"
    /\ pc' = [pc EXCEPT ![t] = "run"]
    /\ UNCHANGED << word, intr, cur, want, stack, outer >>

\* sti, whether or not another lock is still held.
release_sti(t) ==
    /\ cur = t
    /\ pc[t] = "sti"
    /\ intr' = TRUE
    /\ pc' = [pc EXCEPT ![t] = "run"]
    /\ UNCHANGED << word, cur, want, stack, outer >>

\* Mutant: the last thread is not followed by the first.
timer_no_wrap(t) ==
    /\ cur = t
    /\ intr
    /\ cur' = t + 1
    /\ UNCHANGED << word, intr, pc, want, stack, outer >>

\* The timer interrupt is taken: yield_task resumes the next thread, whose
\* saved flags have interrupts enabled, since it was interrupted itself.
timer(t) ==
    /\ cur = t
    /\ intr
    /\ cur' = (t + 1) % N
    /\ UNCHANGED << word, intr, pc, want, stack, outer >>

\* An instruction that a thread inside lock.s, or holding a lock, executes next.
lock_step(t) ==
    \/ acquire_cli(t)
    \/ acquire_bts(t)
    \/ acquire_spin(t)
    \/ release_mov(t)
    \/ release_sti(t)

Next ==
    \E t \in Thread :
        \/ \E l \in Lock : call_acquire(t, l)
        \/ lock_step(t)
        \/ timer(t)

(***************************************************************************)
(* The timer keeps ticking, and every time slice is long enough for the    *)
(* thread to get further (SWITCH_TICK timer periods).                      *)
(***************************************************************************)
Fairness ==
    \A t \in Thread : SF_vars(lock_step(t)) /\ SF_vars(timer(t))

Spec == Init /\ [][Next]_vars

FairSpec == Spec /\ Fairness

-----------------------------------------------------------------------------
TypeOK ==
    /\ word \in [Lock -> {0, 1}]
    /\ intr \in BOOLEAN
    /\ cur \in Thread
    /\ pc \in [Thread -> Label]
    /\ want \in [Thread -> Lock]
    /\ stack \in [Thread -> Seq(Lock)]
    /\ outer \in Workloads

\* A lock is held by one thread at a time, and exactly when its word is 1:
\* in whatever order interrupts, nested acquires and releases come.
MutualExclusion ==
    /\ \A l \in Lock : word[l] = 1 <=> \E t \in Thread : Holds(t, l)
    /\ \A t, u \in Thread : t # u => \A l \in Lock : ~(Holds(t, l) /\ Holds(u, l))

\* A lock under which no other lock is taken (pmm.c, arch_serial_puts, the
\* scheduler's own) is only ever held by the running thread with interrupts
\* disabled, so what it guards is atomic and nobody ever spins on it.
LeafSectionsAreAtomic ==
    \A l \in Lock : Leaf(l) =>
        /\ \A t \in Thread : Holds(t, l) => cur = t /\ ~intr
        /\ \A t \in Thread : pc[t] = "spin" => want[t] # l

\* Whoever finds a lock taken spins for ever, and nothing else runs again: the
\* loop of arch_acquire runs with interrupts disabled on the only CPU.
ContentionIsFatal ==
    [][(\E t \in Thread : pc[t] = "spin") => UNCHANGED vars]_vars

\* While processes only make system calls that take one lock at a time (log,
\* and a slayer that frees pages), every arch_acquire returns.
LeafAcquireReturns ==
    (\A t \in Thread : \A l \in outer[t] : Leaf(l)) =>
        \A t \in Thread : (pc[t] \in {"cli", "bts", "spin"}) ~> (pc[t] = "run")

\* liballoc.h: liballoc_lock "\return 0 if the lock was acquired
\* successfully": whatever the processes and the kernel do, every
\* arch_acquire returns.
AcquireReturns ==
    \A t \in Thread : (pc[t] \in {"cli", "bts", "spin"}) ~> (pc[t] = "run")
=============================================================================
