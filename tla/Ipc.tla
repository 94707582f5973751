-------------------------------- MODULE Ipc --------------------------------
(***************************************************************************)
(* Message passing: the IPC system calls of sources/kernel/syscall.c on    *)
(* mailboxes that are vectors (sources/libs/navy/vec.h, vec.c) in heap     *)
(* blocks (realloc and free of sources/libs/liballoc/liballoc.c), and the  *)
(* task slayer, which frees the mailbox of every dead process in every one *)
(* of its passes.                                                          *)
(*                                                                         *)
(* System calls run with interrupts enabled and mailboxes have no lock, so *)
(* a call is split at each access to shared state: the timer may switch    *)
(* to another process between any two.  malloc and free are one step each: *)
(* a process that met the heap's lock taken would hang (module Locks).     *)
(*                                                                         *)
(* Two history variables tell the behaviours in which the missing lock or  *)
(* the repeated frees have bitten from the others: raced and stolen.       *)
(***************************************************************************)
EXTENDS Integers, Sequences, FiniteSets, SequencesExt

CONSTANTS Proc,             \* the user processes, by pid
          Mortal,           \* those that may exit
          MaxSends          \* bound: messages sent

ASSUME ProcAssumption == Proc \subseteq Nat \ {0}
ASSUME MortalAssumption == Mortal \subseteq Proc
ASSUME MaxSendsAssumption == MaxSends \in Nat

Null == 0               \* the data pointer of an empty vector
\* The contents of a cell nobody has written.
Unwritten == [sender |-> 0, receiver |-> 0, number |-> 0]

\* The heap's blocks: a call of vec_push allocates one at most.
Blocks == 1 .. MaxSends

Message == [sender : Proc, receiver : Proc, number : 1 .. MaxSends]

VARIABLES pc,       \* where each process stands
          loc,      \* its local variables in the kernel
          alive,    \* processes in TASK_RUNNING
          data, length, capacity,   \* process_t.mailbox
          size,     \* requested size of each heap block, 0 when it is free
          cells,    \* contents of each heap block
          count,    \* messages sent, which numbers them
          got,      \* messages received, in order
          status,   \* "running", "panic_receiver", "panic_ptr" or "overrun"
          raced,    \* two actors were inside one mailbox at a time
          stolen    \* the slayer has freed a block somebody else owned

box_vars == << data, length, capacity >>
heap_vars == << size, cells >>
vars == << pc, loc, alive, box_vars, heap_vars, count, got, status, raced, stolen >>

\* Labels of vec_push, in order, and of vec_pop.
PushLabel == {"expand", "realloc", "malloc", "copy", "free", "data", "capacity",
              "load", "length", "slot"}
PopLabel == {"pop_load", "pop_length", "pop_read"}

\* Lengths, and indexes in a block.
Cell == 0 .. MaxSends

Local == [to |-> 0, msg |-> Unwritten, n |-> 0, old |-> Null,
          real |-> 0, new |-> Null, i |-> 0]

Init ==
    /\ pc = [p \in Proc |-> "user"]
    /\ loc = [p \in Proc |-> Local]
    /\ alive = Proc
    /\ data = [p \in Proc |-> Null]
    /\ length = [p \in Proc |-> 0]
    /\ capacity = [p \in Proc |-> 0]
    /\ size = [b \in Blocks |-> 0]
    /\ cells = [b \in Blocks |-> [i \in Cell |-> Unwritten]]
    /\ count = 0
    /\ got = [p \in Proc |-> << >>]
    /\ status = "running"
    /\ raced = FALSE
    /\ stolen = FALSE

\* p stands at a label and gets the CPU.
At(p, label) == status = "running" /\ pc[p] = label

Goto(p, label) == pc' = [pc EXCEPT ![p] = label]

\* Processes in the middle of a vec_push or vec_pop on the mailbox of r.
Inside(r) ==
    {q \in Proc : \/ pc[q] \in PushLabel /\ loc[q].to = r
                  \/ pc[q] \in PopLabel /\ q = r}

\* Somebody enters the mailbox of r.
Enter(r) == raced' = (raced \/ Inside(r) # {})

-----------------------------------------------------------------------------
(***************************************************************************)
(* The heap.                                                               *)
(***************************************************************************)

\* The block of a former owner may be handed out again; of the blocks nobody
\* points to, which one is immaterial.
Pointed ==
    {data[p] : p \in Proc} \cup {loc[p].old : p \in Proc} \cup {loc[p].new : p \in Proc}

Fresh == {b \in Blocks : size[b] = 0 /\ b \notin Pointed}

malloc_choices ==
    {b \in Blocks : size[b] = 0 /\ b \in Pointed}
        \cup {b \in Fresh : \A c \in Fresh : b <= c}

\* free of a block that is not allocated only counts an error.
FreedSize(b) == [c \in Blocks |-> IF c = b THEN 0 ELSE size[c]]

-----------------------------------------------------------------------------
(***************************************************************************)
(* syscall_ipcsend: stamp the sender, look the receiver up, vec_push.      *)
(***************************************************************************)
syscall_ipcsend(p, r) ==
    /\ At(p, "user") /\ count < MaxSends
    /\ count' = count + 1
    /\ IF r \in alive
       THEN /\ loc' = [loc EXCEPT ![p] =
                  [Local EXCEPT !.to = r,
                                !.msg = [sender |-> p, receiver |-> r,
                                         number |-> count']]]
            /\ Goto(p, "expand")
            /\ Enter(r)
            /\ status' = status
       \* assert(proc != NULL)
       ELSE /\ status' = "panic_receiver"
            /\ UNCHANGED << loc, pc, raced >>
    /\ UNCHANGED << alive, box_vars, heap_vars, got, stolen >>

\* Mutant: the vector grows one element too late.
vec_expand_late(p) ==
    /\ At(p, "expand")
    /\ LET r == loc[p].to
       IN  IF length[r] > capacity[r] \/ capacity[r] = 0
           THEN /\ loc' = [loc EXCEPT
                             ![p].n = IF capacity[r] = 0 THEN 1 ELSE 2 * capacity[r],
                             ![p].old = data[r]]
                /\ Goto(p, "realloc")
           ELSE /\ Goto(p, "load")
                /\ UNCHANGED loc
    /\ UNCHANGED << alive, box_vars, heap_vars, count, got, status, raced, stolen >>

\* vec_expand_: is there room for one more?
vec_expand_(p) ==
    /\ At(p, "expand")
    /\ LET r == loc[p].to
       IN  IF length[r] + 1 > capacity[r]
           THEN /\ loc' = [loc EXCEPT
                             ![p].n = IF capacity[r] = 0 THEN 1 ELSE 2 * capacity[r],
                             ![p].old = data[r]]
                /\ Goto(p, "realloc")
           ELSE /\ Goto(p, "load")
                /\ UNCHANGED loc
    /\ UNCHANGED << alive, box_vars, heap_vars, count, got, status, raced, stolen >>

\* realloc: NULL when the old block is not allocated, which vec_expand_
\* asserts against; the same block when it is large enough.
realloc(p) ==
    /\ At(p, "realloc")
    /\ LET old == loc[p].old
           real == IF old = Null THEN 0 ELSE size[old]
           dead == old # Null /\ real = 0
       IN  \/ /\ dead
              /\ status' = "panic_ptr"
              /\ UNCHANGED << pc, loc, size >>
           \/ /\ real >= loc[p].n
              /\ size' = [size EXCEPT ![old] = loc[p].n]
              /\ loc' = [loc EXCEPT ![p].new = old]
              /\ Goto(p, "data")
              /\ UNCHANGED status
           \/ /\ ~dead /\ real < loc[p].n
              /\ loc' = [loc EXCEPT ![p].real = real]
              /\ Goto(p, "malloc")
              /\ UNCHANGED << size, status >>
    /\ UNCHANGED << alive, box_vars, cells, count, got, raced, stolen >>

\* ... else liballoc_malloc(size), whose memory holds nothing of the new owner's.
realloc_malloc(p) ==
    /\ At(p, "malloc")
    /\ \E b \in malloc_choices :
         /\ size' = [size EXCEPT ![b] = loc[p].n]
         /\ cells' = [cells EXCEPT ![b] = [i \in Cell |-> Unwritten]]
         /\ loc' = [loc EXCEPT ![p].new = b]
    /\ Goto(p, IF loc[p].old = Null THEN "data" ELSE "copy")
    /\ UNCHANGED << alive, box_vars, count, got, status, raced, stolen >>

\* Mutant: the old contents are not copied.
realloc_copy_nothing(p) ==
    /\ At(p, "copy")
    /\ Goto(p, "free")
    /\ UNCHANGED << loc, alive, box_vars, heap_vars, count, got, status, raced, stolen >>

\* liballoc_memcpy(ptr, p, real_size)
realloc_copy(p) ==
    /\ At(p, "copy")
    /\ cells' = [cells EXCEPT ![loc[p].new] =
                    [i \in Cell |-> IF i < loc[p].real
                                    THEN cells[loc[p].old][i]
                                    ELSE @[i]]]
    /\ Goto(p, "free")
    /\ UNCHANGED << loc, alive, box_vars, size, count, got, status, raced, stolen >>

realloc_free(p) ==
    /\ At(p, "free")
    /\ size' = FreedSize(loc[p].old)
    /\ Goto(p, "data")
    /\ UNCHANGED << loc, alive, box_vars, cells, count, got, status, raced, stolen >>

\* *data = ptr
vec_expand_data(p) ==
    /\ At(p, "data")
    /\ data' = [data EXCEPT ![loc[p].to] = loc[p].new]
    /\ loc' = [loc EXCEPT ![p].old = Null, ![p].real = 0, ![p].new = Null]
    /\ Goto(p, "capacity")
    /\ UNCHANGED << alive, length, capacity, heap_vars, count, got, status, raced, stolen >>

\* *capacity = n
vec_expand_capacity(p) ==
    /\ At(p, "capacity")
    /\ capacity' = [capacity EXCEPT ![loc[p].to] = loc[p].n]
    /\ loc' = [loc EXCEPT ![p].n = 0]
    /\ Goto(p, "load")
    /\ UNCHANGED << alive, data, length, heap_vars, count, got, status, raced, stolen >>

\* data[length++] = val: load the length, store the length, store the cell.
vec_push_load(p) ==
    /\ At(p, "load")
    /\ loc' = [loc EXCEPT ![p].i = length[loc[p].to]]
    /\ Goto(p, "length")
    /\ UNCHANGED << alive, box_vars, heap_vars, count, got, status, raced, stolen >>

\* Mutant: the length grows by two.
vec_push_length_twice(p) ==
    /\ At(p, "length")
    /\ length' = [length EXCEPT ![loc[p].to] = loc[p].i + 2]
    /\ Goto(p, "slot")
    /\ UNCHANGED << loc, alive, data, capacity, heap_vars, count, got, status, raced,
                    stolen >>

vec_push_length(p) ==
    /\ At(p, "length")
    /\ length' = [length EXCEPT ![loc[p].to] = loc[p].i + 1]
    /\ Goto(p, "slot")
    /\ UNCHANGED << loc, alive, data, capacity, heap_vars, count, got, status, raced, stolen >>

\* A store past the end of the block overwrites the heap's own headers.
vec_push_slot(p) ==
    /\ At(p, "slot")
    /\ LET b == data[loc[p].to]
       IN  IF loc[p].i < capacity[loc[p].to]
           THEN /\ cells' = [cells EXCEPT ![b][loc[p].i] = loc[p].msg]
                /\ status' = status
           ELSE /\ status' = "overrun"
                /\ cells' = cells
    /\ loc' = [loc EXCEPT ![p] = Local]
    /\ Goto(p, "user")
    /\ UNCHANGED << alive, box_vars, size, count, got, raced, stolen >>

-----------------------------------------------------------------------------
(***************************************************************************)
(* syscall_ipcrcv_sync, syscall_ipcrcv_oneshot: vec_pop of the own mailbox.*)
(***************************************************************************)
syscall_ipcrcv_sync(p) ==
    /\ At(p, "user")
    /\ Goto(p, "wait")
    /\ UNCHANGED << loc, alive, box_vars, heap_vars, count, got, status, raced, stolen >>

\* force_yield(): the process looks again in its next time slice.
rcv_sync_yield(p) ==
    /\ At(p, "wait") /\ length[p] = 0
    /\ UNCHANGED vars

\* Mutant: the loop does not end.
rcv_sync_done_never(p) ==
    /\ At(p, "wait") /\ length[p] # 0
    /\ Goto(p, "wait")
    /\ UNCHANGED << loc, alive, box_vars, heap_vars, count, got, status, raced, stolen >>

\* while (proc->mailbox.length == 0) force_yield();
rcv_sync_done(p) ==
    /\ At(p, "wait") /\ length[p] # 0
    /\ Goto(p, "pop_load")
    /\ Enter(p)
    /\ UNCHANGED << loc, alive, box_vars, heap_vars, count, got, status, stolen >>

\* Mutant: the length is not tested.
syscall_ipcrcv_oneshot_untested(p) ==
    /\ At(p, "user")
    /\ Goto(p, "pop_load")
    /\ Enter(p)
    /\ UNCHANGED << loc, alive, box_vars, heap_vars, count, got, status, stolen >>

syscall_ipcrcv_oneshot(p) ==
    /\ At(p, "user") /\ length[p] # 0
    /\ Goto(p, "pop_load")
    /\ Enter(p)
    /\ UNCHANGED << loc, alive, box_vars, heap_vars, count, got, status, stolen >>

vec_pop_load(p) ==
    /\ At(p, "pop_load")
    /\ loc' = [loc EXCEPT ![p].i = length[p] - 1]
    /\ Goto(p, "pop_length")
    /\ UNCHANGED << alive, box_vars, heap_vars, count, got, status, raced, stolen >>

\* Mutant: the length is not stored.
vec_pop_length_lost(p) ==
    /\ At(p, "pop_length")
    /\ Goto(p, "pop_read")
    /\ UNCHANGED << loc, alive, box_vars, heap_vars, count, got, status, raced, stolen >>

vec_pop_length(p) ==
    /\ At(p, "pop_length")
    /\ length' = [length EXCEPT ![p] = loc[p].i]
    /\ Goto(p, "pop_read")
    /\ UNCHANGED << loc, alive, data, capacity, heap_vars, count, got, status, raced, stolen >>

vec_pop_read(p) ==
    /\ At(p, "pop_read")
    /\ got' = [got EXCEPT ![p] = Append(@, cells[data[p]][loc[p].i])]
    /\ loc' = [loc EXCEPT ![p] = Local]
    /\ Goto(p, "user")
    /\ UNCHANGED << alive, box_vars, heap_vars, count, status, raced, stolen >>

-----------------------------------------------------------------------------
(***************************************************************************)
(* syscall_exit and task_slayer.                                           *)
(***************************************************************************)
syscall_exit(p) ==
    /\ At(p, "user") /\ p \in Mortal
    /\ alive' = alive \ {p}
    /\ Goto(p, "exited")
    /\ UNCHANGED << loc, box_vars, heap_vars, count, got, status, raced, stolen >>

\* vec_free(&proc->mailbox), in every pass; the pointer is kept.
slayer_vec_free(p) ==
    /\ status = "running"
    /\ p \notin alive
    /\ data[p] # Null /\ size[data[p]] # 0
    /\ size' = FreedSize(data[p])
    /\ Enter(p)
    /\ stolen' = (stolen \/ \E q \in Proc :
                      \/ (q \in alive \/ Inside(q) # {}) /\ data[q] = data[p]
                      \/ loc[q].new = data[p])
    /\ UNCHANGED << pc, loc, alive, box_vars, cells, count, got, status >>

-----------------------------------------------------------------------------
push_step(p) ==
    \/ vec_expand_(p) \/ realloc(p) \/ realloc_malloc(p) \/ realloc_copy(p)
    \/ realloc_free(p) \/ vec_expand_data(p) \/ vec_expand_capacity(p)
    \/ vec_push_load(p) \/ vec_push_length(p) \/ vec_push_slot(p)

pop_step(p) ==
    rcv_sync_done(p) \/ vec_pop_load(p) \/ vec_pop_length(p) \/ vec_pop_read(p)

call(p) ==
    \/ \E r \in Proc : syscall_ipcsend(p, r)
    \/ syscall_ipcrcv_sync(p) \/ rcv_sync_yield(p)
    \/ syscall_ipcrcv_oneshot(p)
    \/ syscall_exit(p)

\* A failed assertion halts the kernel, and no process calls any more when all
\* have exited.
Stopped ==
    /\ status # "running" \/ alive = {}
    /\ UNCHANGED vars

Next ==
    \/ \E p \in Proc : call(p) \/ push_step(p) \/ pop_step(p) \/ slayer_vec_free(p)
    \/ Stopped

\* The scheduler runs every process again and again (module Sched), and what
\* remains of a system call does not depend on anybody else.
Fairness == \A p \in Proc : WF_vars(push_step(p)) /\ WF_vars(pop_step(p))

Spec == Init /\ [][Next]_vars

FairSpec == Spec /\ Fairness

-----------------------------------------------------------------------------
(***************************************************************************)
(* Properties.                                                             *)
(***************************************************************************)
TypeOK ==
    /\ pc \in [Proc -> {"user", "wait", "exited"} \cup PushLabel \cup PopLabel]
    /\ loc \in [Proc -> [to : Proc \cup {0}, msg : Message \cup {Unwritten},
                         n : Nat, old : Blocks \cup {Null}, real : Nat,
                         new : Blocks \cup {Null}, i : Cell]]
    /\ alive \subseteq Proc
    /\ data \in [Proc -> Blocks \cup {Null}]
    /\ length \in [Proc -> Cell] /\ capacity \in [Proc -> Nat]
    /\ size \in [Blocks -> Nat]
    /\ cells \in [Blocks -> [Cell -> Message \cup {Unwritten}]]
    /\ count \in 0 .. MaxSends
    /\ got \in [Proc -> Seq(Message \cup {Unwritten})]
    /\ status \in {"running", "panic_receiver", "panic_ptr", "overrun"}
    /\ raced \in BOOLEAN /\ stolen \in BOOLEAN

\* Nobody has met anybody else in a mailbox, and no block in use was freed.
Orderly == ~raced /\ ~stolen

\* pkg/test/main.c: 'log("Got IPC from {} with value {x}", msg.sender,
\* msg.data)': what ipc_rcv_sync and ipc_rcv_oneshot return is a message
\* somebody sent to this process, and each message is received once.
ReceivedWasSent ==
    \A p \in Proc : \A i \in DOMAIN got[p] :
        LET m == got[p][i]
        IN  /\ m # Unwritten
            /\ m.receiver = p /\ m.number <= count
            /\ \A q \in Proc : \A j \in DOMAIN got[q] :
                  got[q][j] = m => q = p /\ j = i

\* Interrupts inside the system calls, exits between the lookup of a receiver
\* and the push, and blocks passing from one mailbox to the next do no harm
\* by themselves: messages are lost, doubled or read before they are written
\* only after two actors were inside one mailbox.
OrderlyDelivery == Orderly => ReceivedWasSent

\* Nor does the kernel halt, except for a send to a process that has exited,
\* nor is a message stored outside its block.
OrderlyRuns == Orderly => status \in {"running", "panic_receiver"}

\* However system calls interleave, vec_pop never takes a message from an
\* empty mailbox: between the test of the length and vec_pop's load other
\* processes only store lengths above zero.
PopNeverUnderflows ==
    \A p \in Proc : pc[p] = "pop_load" => length[p] > 0

Pushing(p, label) == {q \in Proc : pc[q] = label /\ loc[q].to = p}

\* The block that holds the mailbox of p: in the middle of vec_expand_, the
\* copy that realloc returned.
Holder(p) ==
    IF Pushing(p, "data") # {}
    THEN loc[CHOOSE q \in Pushing(p, "data") : TRUE].new
    ELSE data[p]

\* The messages in it: a push counts from its last store, a pop from its read.
Waiting(p) ==
    CASE Pushing(p, "slot") # {} -> length[p] - 1
      [] pc[p] = "pop_read" -> length[p] + 1
      [] OTHER -> length[p]

Abs == INSTANCE IpcAbs WITH
          box <- [p \in Proc |->
                    IF p \in alive
                    THEN [i \in 1 .. Waiting(p) |-> cells[Holder(p)][i - 1]]
                    ELSE << >>],
          up <- status = "running" /\ Orderly

\* While orderly, message passing implements IpcAbs: a stack of messages per
\* process, although every push and pop takes many steps and moves the stack
\* from block to block.
ImplementsIpcAbs == Abs!Spec

\* Whoever waits in syscall_ipcrcv_sync when a push to it has still to store
\* the new length returns, orderly or not: however the stores interleave, the
\* others never take the length back to zero.
WaiterReturns ==
    \A p, q \in Proc :
        (pc[p] = "wait" /\ pc[q] \in PushLabel \ {"slot"} /\ loc[q].to = p)
            ~> (pc[p] = "user" \/ status # "running")

\* vec.c: 'assert(ptr != NULL)': the block of a mailbox can be grown.
AssertPtr == status # "panic_ptr"
=============================================================================
