------------------------------- MODULE Sched -------------------------------
(***************************************************************************)
(* The scheduler of sources/kernel/sched.c with the processes it runs, and *)
(* kmain (sources/kernel/entry.c), which pushes the processes and becomes  *)
(* the task slayer.                                                        *)
(*                                                                         *)
(* One CPU.  The timer handler runs with interrupts disabled up to the     *)
(* release of the scheduler's lock, after which it only acknowledges the   *)
(* interrupt, so it is one action.  kmain is interrupted wherever its      *)
(* interrupt flag is set, so it is a sequence of steps.                    *)
(***************************************************************************)
EXTENDS Integers, FiniteSets

CONSTANTS LastProc,     \* kmain pushes the processes 1 .. LastProc
          SWITCH_TICK   \* ticks of a time slice

ASSUME LastProcAssumption == LastProc \in Nat
ASSUME SwitchTickAssumption == SWITCH_TICK \in Nat

Proc == 0 .. LastProc   \* the process_t objects; 0 is the kernel's own

Garbage == -1           \* the contents of a slot that was never written

Resources == << "bstack", "stack", "pml", "mailbox" >>

VARIABLES data,         \* processes.data, by index
          length,       \* processes.length
          capacity,     \* processes.capacity
          current_pid, tick, last_pid,
          pid,          \* process_t.pid
          state,        \* process_t.state
          gs,           \* the process whose context is loaded
          cr3,          \* the process whose address space is loaded
          intr,         \* the interrupt flag
          kpc,          \* where kmain stands
          pending,      \* the stores of vec_push still to be done
          pushed,       \* the process being pushed
          index,        \* i of task_slayer
          freeing,      \* how many resources it has freed of process i
          freed,        \* what was freed of each process, ever
          status        \* "running" or "panic"

vec_vars == << data, length, capacity >>
cpu_vars == << current_pid, tick, gs, cr3 >>
push_vars == << last_pid, pid, pending, pushed >>
slayer_vars == << index, freeing, freed >>
vars == << vec_vars, cpu_vars, push_vars, slayer_vars, state, intr, kpc, status >>

-----------------------------------------------------------------------------
\* After sched_init: the kernel's process is pushed and the timer switches;
\* the processes are loaded (task_init) but not pushed.
Init ==
    /\ data = [i \in 0 .. LastProc |-> IF i = 0 THEN 0 ELSE Garbage]
    /\ length = 1
    /\ capacity = 1
    /\ current_pid = 0
    /\ tick = 0
    /\ last_pid = 1
    /\ pid = [p \in Proc |-> 0]
    /\ state = [p \in Proc |-> "TASK_RUNNING"]
    /\ gs = 0
    /\ cr3 = 0
    /\ intr = TRUE
    /\ kpc = IF LastProc = 0 THEN "slayer" ELSE "push"
    /\ pending = {}
    /\ pushed = 1
    /\ index = 0
    /\ freeing = 0
    /\ freed = [p \in Proc |-> {}]
    /\ status = "running"

sched_current_process == data[current_pid]

-----------------------------------------------------------------------------
(***************************************************************************)
(* yield_task: the timer interrupt.                                        *)
(***************************************************************************)

\* The index after k calls of next_pid.
next_pid(k) == (current_pid + k) % length

Runnable(i) == data[i] # Garbage /\ state[data[i]] = "TASK_RUNNING"

\* Mutant: the loop takes the next process whatever its state.
Successors_any_state == {k \in 1 .. length : k = 1}

\* Mutant: the search starts at the first process each time.
Successors_from_zero ==
    {k \in 1 .. length :
        \A j \in 1 .. length :
            (Runnable(next_pid(j)) \/ data[next_pid(j)] = Garbage)
                => next_pid(k) <= next_pid(j)}

\* Where the loop of yield_task stops: the first running process, or a slot
\* that holds no process.
Successors ==
    {k \in 1 .. length :
        /\ Runnable(next_pid(k)) \/ data[next_pid(k)] = Garbage
        /\ \A j \in 1 .. k - 1 :
              ~Runnable(next_pid(j)) /\ data[next_pid(j)] # Garbage}

yield_tick ==
    /\ status = "running" /\ intr
    /\ tick + 1 < SWITCH_TICK + 1
    /\ tick' = tick + 1
    /\ UNCHANGED << vec_vars, current_pid, gs, cr3, push_vars, slayer_vars, state,
                    intr, kpc, status >>

\* arch_context_save, next_pid, arch_context_switch, arch_space_switch; the
\* saved flags of every process have interrupts enabled.
yield_switch ==
    /\ status = "running" /\ intr
    /\ tick + 1 >= SWITCH_TICK + 1
    /\ tick' = 0
    /\ \E k \in Successors :
         /\ data[next_pid(k)] # Garbage
         /\ current_pid' = next_pid(k)
         /\ gs' = data[next_pid(k)]
         /\ cr3' = data[next_pid(k)]
    /\ UNCHANGED << vec_vars, push_vars, slayer_vars, state, intr, kpc, status >>

\* The slot's contents are dereferenced: a page fault, and the kernel halts.
yield_fault ==
    /\ status = "running" /\ intr
    /\ tick + 1 >= SWITCH_TICK + 1
    /\ tick' = 0
    /\ \E k \in Successors :
         /\ data[next_pid(k)] = Garbage
         /\ current_pid' = next_pid(k)
    /\ status' = "panic"
    /\ UNCHANGED << vec_vars, gs, cr3, push_vars, slayer_vars, state, intr, kpc >>

yield_task == yield_tick \/ yield_switch \/ yield_fault

-----------------------------------------------------------------------------
(***************************************************************************)
(* System calls of the process on the CPU.                                 *)
(***************************************************************************)
OnCpu(p) ==
    /\ status = "running"
    /\ p = sched_current_process
    /\ p # 0
    /\ state[p] = "TASK_RUNNING"

\* The process then loops until the timer takes the CPU away.
syscall_exit(p) ==
    /\ OnCpu(p)
    /\ state' = [state EXCEPT ![p] = "TASK_WAITINGFORDEATH"]
    /\ UNCHANGED << vec_vars, cpu_vars, push_vars, slayer_vars, intr, kpc, status >>

\* Mutant: one tick too many.
force_yield_one_more(p) ==
    /\ OnCpu(p)
    /\ tick' = SWITCH_TICK + 1
    /\ UNCHANGED << vec_vars, current_pid, gs, cr3, push_vars, slayer_vars, state,
                    intr, kpc, status >>

\* syscall_ipcrcv_sync on an empty mailbox.
force_yield(p) ==
    /\ OnCpu(p)
    /\ tick' = SWITCH_TICK
    /\ UNCHANGED << vec_vars, current_pid, gs, cr3, push_vars, slayer_vars, state,
                    intr, kpc, status >>

-----------------------------------------------------------------------------
(***************************************************************************)
(* kmain: sched_push_process for each loaded process.                      *)
(***************************************************************************)
InKmain == status = "running" /\ sched_current_process = 0

\* Mutant: usertask_lock is not taken.
sched_push_process_unlocked ==
    /\ InKmain /\ kpc = "push"
    /\ pid' = [pid EXCEPT ![pushed] = last_pid]
    /\ last_pid' = last_pid + 1
    /\ kpc' = "expand"
    /\ UNCHANGED << vec_vars, cpu_vars, pending, pushed, slayer_vars, state, intr,
                    status >>

\* Mutant: the first pid given out is 2.
sched_push_process_skips ==
    /\ InKmain /\ kpc = "push"
    /\ intr' = FALSE
    /\ pid' = [pid EXCEPT ![pushed] = last_pid + 1]
    /\ last_pid' = last_pid + 1
    /\ kpc' = "expand"
    /\ UNCHANGED << vec_vars, cpu_vars, pending, pushed, slayer_vars, state, status >>

\* arch_acquire(&usertask_lock), which only kmain uses; pid = last_pid++.
sched_push_process ==
    /\ InKmain /\ kpc = "push"
    /\ intr' = FALSE
    /\ pid' = [pid EXCEPT ![pushed] = last_pid]
    /\ last_pid' = last_pid + 1
    /\ kpc' = "expand"
    /\ UNCHANGED << vec_vars, cpu_vars, pending, pushed, slayer_vars, state, status >>

\* When the vector must grow, realloc takes and releases the heap's lock,
\* whose release enables interrupts although usertask_lock is held.
vec_expand_ ==
    /\ InKmain /\ kpc = "expand"
    /\ IF length + 1 > capacity
       THEN /\ capacity' = IF capacity = 0 THEN 1 ELSE 2 * capacity
            /\ intr' = TRUE
       ELSE UNCHANGED << capacity, intr >>
    /\ pending' = {"length", "slot"}
    /\ kpc' = "store"
    /\ UNCHANGED << data, length, cpu_vars, last_pid, pid, pushed, slayer_vars, state,
                    status >>

\* data[length++] = val: two stores, in an order C leaves open (the compilers
\* tried store the length first).
vec_push_length ==
    /\ InKmain /\ kpc = "store" /\ "length" \in pending
    /\ length' = length + 1
    /\ pending' = pending \ {"length"}
    /\ UNCHANGED << data, capacity, cpu_vars, last_pid, pid, pushed, slayer_vars,
                    state, intr, kpc, status >>

vec_push_slot ==
    /\ InKmain /\ kpc = "store" /\ "slot" \in pending
    /\ data' = [data EXCEPT ![IF "length" \in pending THEN length ELSE length - 1]
                    = pushed]
    /\ pending' = pending \ {"slot"}
    /\ UNCHANGED << length, capacity, cpu_vars, last_pid, pid, pushed, slayer_vars,
                    state, intr, kpc, status >>

\* arch_release(&usertask_lock); the next process, or task_slayer.
sched_push_process_release ==
    /\ InKmain /\ kpc = "store" /\ pending = {}
    /\ intr' = TRUE
    /\ pushed' = pushed + 1
    /\ kpc' = IF pushed < LastProc THEN "push" ELSE "slayer"
    /\ UNCHANGED << vec_vars, cpu_vars, last_pid, pid, pending, slayer_vars, state,
                    status >>

-----------------------------------------------------------------------------
(***************************************************************************)
(* task_slayer.                                                            *)
(***************************************************************************)

slayer_check ==
    /\ InKmain /\ kpc = "slayer" /\ index < length
    /\ IF state[data[index]] = "TASK_WAITINGFORDEATH"
       THEN kpc' = "free" /\ index' = index
       ELSE kpc' = kpc /\ index' = index + 1
    /\ UNCHANGED << vec_vars, cpu_vars, push_vars, freeing, freed, state, intr, status >>

\* Mutant: the slayer stops after one pass.
slayer_pass_last ==
    /\ InKmain /\ kpc = "slayer" /\ index = length
    /\ kpc' = "done"
    /\ UNCHANGED << vec_vars, cpu_vars, push_vars, index, freeing, freed, state, intr,
                    status >>

\* The next pass of for(;;).
slayer_pass ==
    /\ InKmain /\ kpc = "slayer" /\ index = length
    /\ index' = 0
    /\ UNCHANGED << vec_vars, cpu_vars, push_vars, freeing, freed, state, intr, kpc,
                    status >>

\* kfree, pmm_free, arch_space_destroy and vec_free in turn.  The state stays
\* TASK_WAITINGFORDEATH, so every pass frees everything again.
slayer_free ==
    /\ InKmain /\ kpc = "free"
    /\ freed' = [freed EXCEPT ![data[index]] = @ \cup {Resources[freeing + 1]}]
    /\ IF freeing + 1 = 4
       THEN freeing' = 0 /\ index' = index + 1 /\ kpc' = "slayer"
       ELSE freeing' = freeing + 1 /\ UNCHANGED << index, kpc >>
    /\ UNCHANGED << vec_vars, cpu_vars, push_vars, state, intr, status >>

kmain ==
    \/ sched_push_process \/ vec_expand_ \/ vec_push_length \/ vec_push_slot
    \/ sched_push_process_release
    \/ slayer_check \/ slayer_pass \/ slayer_free

-----------------------------------------------------------------------------
Stopped == status = "panic" /\ UNCHANGED vars

Next ==
    \/ yield_task
    \/ \E p \in Proc : syscall_exit(p) \/ force_yield(p)
    \/ kmain
    \/ Stopped

(***************************************************************************)
(* The timer keeps ticking; a time slice is long enough for kmain to get   *)
(* further whenever it has the CPU again and again.                        *)
(***************************************************************************)
Fairness == WF_vars(yield_task) /\ SF_vars(kmain)

Spec == Init /\ [][Next]_vars

FairSpec == Spec /\ Fairness

-----------------------------------------------------------------------------
TypeOK ==
    /\ data \in [0 .. LastProc -> Proc \cup {Garbage}]
    /\ length \in 1 .. LastProc + 1
    /\ capacity \in Nat
    /\ current_pid \in 0 .. length - 1
    /\ tick \in 0 .. SWITCH_TICK
    /\ last_pid \in 1 .. LastProc + 1
    /\ pid \in [Proc -> 0 .. LastProc]
    /\ state \in [Proc -> {"TASK_RUNNING", "TASK_WAITINGFORDEATH"}]
    /\ gs \in Proc /\ cr3 \in Proc
    /\ intr \in BOOLEAN
    /\ kpc \in {"push", "expand", "store", "slayer", "free"}
    /\ pending \subseteq {"length", "slot"}
    /\ pushed \in 1 .. LastProc + 1
    /\ index \in 0 .. length
    /\ freeing \in 0 .. 3
    /\ freed \in [Proc -> SUBSET {"bstack", "stack", "pml", "mailbox"}]
    /\ status \in {"running", "panic"}

\* sched_get_by_pid and sched_current_process use a pid as an index: the
\* process in slot i has pid i, whatever interrupts the pushes.
PidIsIndex ==
    \A i \in 0 .. length - 1 : data[i] # Garbage => pid[data[i]] = i

\* The stack, the page table and the mailbox of a process are freed only while
\* its context and its address space are off the CPU, and it never gets the
\* CPU back, although task_slayer reads its state without a lock.
FreedNeverRuns ==
    \A p \in Proc : freed[p] # {} => gs # p /\ cr3 # p /\ state[p] # "TASK_RUNNING"

\* yield_task meets an unwritten slot only when the timer fires in the middle
\* of a push that had to grow the vector, after the new length was stored and
\* before the slot: the only place where a tick can bring the kernel down.
FaultOnlyInGrowingPush ==
    status = "panic" =>
        /\ kpc = "store" /\ pending = {"slot"}
        /\ capacity = 2 * (length - 1)
        /\ current_pid = length - 1

Abs == INSTANCE SchedAbs WITH
          Kernel <- 0,
          ready <- {p \in Proc :
                      /\ \E i \in 0 .. length - 1 : data[i] = p
                      /\ state[p] = "TASK_RUNNING"},
          exited <- {p \in Proc : state[p] = "TASK_WAITINGFORDEATH"},
          running <- gs,
          reclaimed <- {p \in Proc : freed[p] # {}},
          up <- status = "running"

\* The scheduler and the slayer implement SchedAbs: only ready processes are
\* dispatched, each of them again and again, and what an exited process leaves
\* is reclaimed, after it left the CPU.
ImplementsSchedAbs == Abs!FairSpec

\* Everything an exited process holds is freed in the end.
ExitedIsReaped ==
    \A p \in Proc :
        (state[p] = "TASK_WAITINGFORDEATH")
            ~> (freed[p] = {"bstack", "stack", "pml", "mailbox"} \/ status = "panic")
=============================================================================
