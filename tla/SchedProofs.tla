---------------------------- MODULE SchedProofs ----------------------------
(***************************************************************************)
(* Proofs about Sched, for any number of processes and any time slice.     *)
(***************************************************************************)
EXTENDS Sched, TLAPS

USE LastProcAssumption, SwitchTickAssumption

(***************************************************************************)
(* The inductive invariant.                                                *)
(***************************************************************************)

\* What each step of a push has done: the counters agree with the number of
\* processes pushed, and the process being pushed has its pid.
PushStage ==
    /\ kpc \in {"push", "expand"} =>
         /\ length = pushed /\ pushed <= LastProc /\ pending = {}
    /\ kpc = "push" => last_pid = pushed
    /\ kpc \in {"expand", "store"} => last_pid = pushed + 1 /\ pushed <= LastProc
    /\ kpc = "store" => length = IF "length" \in pending THEN pushed ELSE pushed + 1
    /\ kpc \in {"slayer", "free"} =>
         length = LastProc + 1 /\ pushed = LastProc + 1 /\ pending = {}

\* Slot i holds process i once it has been written.
Written(i) == i < pushed \/ (i = pushed /\ kpc = "store" /\ "slot" \notin pending)

Slots == \A i \in 0 .. LastProc : data[i] = IF Written(i) THEN i ELSE Garbage

Pids == \A p \in Proc :
    (p < pushed \/ (p = pushed /\ kpc \in {"expand", "store"})) => pid[p] = p

\* The vector is never full beyond its capacity, and interrupts are on inside
\* a push only after it has grown to twice its length.
Room ==
    /\ length <= capacity
    /\ kpc = "expand" => ~intr
    /\ kpc = "store" => pushed + 1 <= capacity /\ (intr => capacity = 2 * pushed)

\* The CPU executes the process the table calls current; it faults nowhere
\* but on the unwritten slot.
OnCpuIsCurrent ==
    /\ gs = cr3
    /\ status = "running" => gs = current_pid /\ data[current_pid] = current_pid

\* The kernel's process never exits, and only what was pushed does.
ExitedWasPushed ==
    \A p \in Proc : state[p] = "TASK_WAITINGFORDEATH" => p # 0 /\ p < length /\ data[p] = p

\* The slayer frees dead processes only.
SlayerFreesDead ==
    /\ kpc = "free" => index < length /\ state[data[index]] = "TASK_WAITINGFORDEATH"
    /\ \A p \in Proc : freed[p] # {} => state[p] = "TASK_WAITINGFORDEATH" /\ gs # p

IInv ==
    /\ TypeOK /\ PushStage /\ Slots /\ Pids /\ Room /\ OnCpuIsCurrent
    /\ ExitedWasPushed /\ SlayerFreesDead /\ FaultOnlyInGrowingPush

-----------------------------------------------------------------------------
(***************************************************************************)
(* The type invariant in parts, by the component whose steps change them.  *)
(***************************************************************************)
VecTyped ==
    /\ data \in [0 .. LastProc -> Proc \cup {Garbage}]
    /\ length \in 1 .. LastProc + 1
    /\ capacity \in Nat

CpuTyped ==
    /\ current_pid \in 0 .. length - 1
    /\ tick \in 0 .. SWITCH_TICK
    /\ gs \in Proc /\ cr3 \in Proc
    /\ intr \in BOOLEAN
    /\ status \in {"running", "panic"}
    /\ state \in [Proc -> {"TASK_RUNNING", "TASK_WAITINGFORDEATH"}]

PushTyped ==
    /\ last_pid \in 1 .. LastProc + 1
    /\ pid \in [Proc -> 0 .. LastProc]
    /\ kpc \in {"push", "expand", "store", "slayer", "free"}
    /\ pending \subseteq {"length", "slot"}
    /\ pushed \in 1 .. LastProc + 1

SlayerTyped ==
    /\ index \in 0 .. length
    /\ freeing \in 0 .. 3
    /\ freed \in [Proc -> SUBSET {"bstack", "stack", "pml", "mailbox"}]

\* The parts make up the whole, before and after a step.
LEMMA TypeParts ==
    /\ TypeOK <=> VecTyped /\ CpuTyped /\ PushTyped /\ SlayerTyped
    /\ TypeOK' <=> VecTyped' /\ CpuTyped' /\ PushTyped' /\ SlayerTyped'
  <1>1. TypeOK <=> VecTyped /\ CpuTyped /\ PushTyped /\ SlayerTyped
    BY DEF TypeOK, VecTyped, CpuTyped, PushTyped, SlayerTyped
  <1>2. TypeOK' <=> VecTyped' /\ CpuTyped' /\ PushTyped' /\ SlayerTyped'
    BY DEF TypeOK, VecTyped, CpuTyped, PushTyped, SlayerTyped
  <1>3. QED
    BY <1>1, <1>2

\* It holds after sched_init,
LEMMA InitIInv == Init => IInv
  BY DEF Init, IInv, TypeOK, PushStage, Slots, Written, Pids, Room, OnCpuIsCurrent,
         ExitedWasPushed, SlayerFreesDead, FaultOnlyInGrowingPush, Proc, Garbage

\* The loop of yield_task stays inside the vector.
LEMMA NextPidInside ==
    ASSUME TypeOK, NEW k \in 1 .. length
    PROVE  next_pid(k) \in 0 .. length - 1 /\ next_pid(k) \in 0 .. LastProc
  BY DEF TypeOK, next_pid

\* A tick inside a time slice.
LEMMA Step_yield_tick ==
    ASSUME IInv, yield_tick PROVE IInv'
  <1> USE DEF yield_tick, vec_vars, cpu_vars, push_vars, slayer_vars
  <1>a. TypeOK /\ VecTyped /\ CpuTyped /\ PushTyped /\ SlayerTyped
    BY TypeParts DEF IInv
  <1>1. TypeOK'
    <2>1. VecTyped'
      BY <1>a DEF IInv, VecTyped, PushTyped, PushStage, Room, Proc
    <2>2. CpuTyped'
      BY <1>a DEF IInv, CpuTyped, VecTyped
    <2>3. PushTyped'
      BY <1>a DEF IInv, PushTyped, VecTyped, PushStage, Proc
    <2>4. SlayerTyped'
      BY <1>a DEF IInv, SlayerTyped, VecTyped, Proc
    <2>5. QED
      BY <2>1, <2>2, <2>3, <2>4, TypeParts
  <1>2. PushStage'
    BY <1>a DEF IInv, PushTyped, VecTyped, PushStage
  <1>3. Slots'
    BY <1>a DEF IInv, VecTyped, PushTyped, PushStage, Slots, Written
  <1>4. Pids'
    BY <1>a DEF IInv, PushTyped, PushStage, Pids, Proc
  <1>5. Room'
    BY <1>a DEF IInv, VecTyped, PushTyped, PushStage, Room
  <1>6. OnCpuIsCurrent'
    BY <1>a DEF IInv, VecTyped, CpuTyped, PushTyped, PushStage, Slots, Written,
       OnCpuIsCurrent, Proc, Garbage
  <1>7. ExitedWasPushed'
    BY <1>a DEF IInv, VecTyped, CpuTyped, PushTyped, PushStage, Slots, Written,
       ExitedWasPushed, OnCpuIsCurrent, Proc, Garbage
  <1>8. SlayerFreesDead'
    BY <1>a DEF IInv, VecTyped, CpuTyped, SlayerTyped, OnCpuIsCurrent, ExitedWasPushed,
       SlayerFreesDead, Proc
  <1>9. FaultOnlyInGrowingPush'
    BY <1>a DEF IInv, VecTyped, PushTyped, PushStage, Slots, Written, Room,
       FaultOnlyInGrowingPush, Garbage
  <1>10. QED
    BY <1>1, <1>2, <1>3, <1>4, <1>5, <1>6, <1>7, <1>8, <1>9 DEF IInv

\* A switch dispatches a running process of the table.
LEMMA Step_yield_switch ==
    ASSUME IInv, yield_switch PROVE IInv'
  <1> USE DEF yield_switch, Successors, Runnable, vec_vars, cpu_vars, push_vars, slayer_vars
  <1>a. TypeOK /\ VecTyped /\ CpuTyped /\ PushTyped /\ SlayerTyped
    BY TypeParts DEF IInv
  <1>1. TypeOK'
    <2>1. VecTyped'
      BY <1>a, NextPidInside DEF IInv, VecTyped, PushTyped, PushStage, Room, Proc
    <2>2. CpuTyped'
      BY <1>a, NextPidInside DEF IInv, CpuTyped, VecTyped
    <2>3. PushTyped'
      BY <1>a, NextPidInside DEF IInv, PushTyped, VecTyped, PushStage, Proc
    <2>4. SlayerTyped'
      BY <1>a, NextPidInside DEF IInv, SlayerTyped, VecTyped, Proc
    <2>5. QED
      BY <2>1, <2>2, <2>3, <2>4, TypeParts
  <1>2. PushStage'
    BY <1>a, NextPidInside DEF IInv, PushTyped, VecTyped, PushStage
  <1>3. Slots'
    BY <1>a, NextPidInside DEF IInv, VecTyped, PushTyped, PushStage, Slots, Written
  <1>4. Pids'
    BY <1>a, NextPidInside DEF IInv, PushTyped, PushStage, Pids, Proc
  <1>5. Room'
    BY <1>a, NextPidInside DEF IInv, VecTyped, PushTyped, PushStage, Room
  <1>6. OnCpuIsCurrent'
    BY <1>a, NextPidInside DEF IInv, VecTyped, CpuTyped, PushTyped, PushStage, Slots,
       Written, OnCpuIsCurrent, Proc, Garbage
  <1>7. ExitedWasPushed'
    BY <1>a, NextPidInside DEF IInv, VecTyped, CpuTyped, PushTyped, PushStage, Slots,
       Written, ExitedWasPushed, OnCpuIsCurrent, Proc, Garbage
  <1>8. SlayerFreesDead'
    BY <1>a, NextPidInside DEF IInv, VecTyped, CpuTyped, SlayerTyped, OnCpuIsCurrent,
       ExitedWasPushed, SlayerFreesDead, Proc
  <1>9. FaultOnlyInGrowingPush'
    BY <1>a, NextPidInside DEF IInv, VecTyped, PushTyped, PushStage, Slots, Written, Room,
       FaultOnlyInGrowingPush, Garbage
  <1>10. QED
    BY <1>1, <1>2, <1>3, <1>4, <1>5, <1>6, <1>7, <1>8, <1>9 DEF IInv

\* The one unwritten slot is that of a push that has grown the vector.
LEMMA Step_yield_fault ==
    ASSUME IInv, yield_fault PROVE IInv'
  <1> USE DEF yield_fault, Successors, Runnable, vec_vars, cpu_vars, push_vars, slayer_vars
  <1>a. TypeOK /\ VecTyped /\ CpuTyped /\ PushTyped /\ SlayerTyped
    BY TypeParts DEF IInv
  <1>1. TypeOK'
    <2>1. VecTyped'
      BY <1>a, NextPidInside DEF IInv, VecTyped, PushTyped, PushStage, Room, Proc
    <2>2. CpuTyped'
      BY <1>a, NextPidInside DEF IInv, CpuTyped, VecTyped
    <2>3. PushTyped'
      BY <1>a, NextPidInside DEF IInv, PushTyped, VecTyped, PushStage, Proc
    <2>4. SlayerTyped'
      BY <1>a, NextPidInside DEF IInv, SlayerTyped, VecTyped, Proc
    <2>5. QED
      BY <2>1, <2>2, <2>3, <2>4, TypeParts
  <1>2. PushStage'
    BY <1>a, NextPidInside DEF IInv, PushTyped, VecTyped, PushStage
  <1>3. Slots'
    BY <1>a, NextPidInside DEF IInv, VecTyped, PushTyped, PushStage, Slots, Written
  <1>4. Pids'
    BY <1>a, NextPidInside DEF IInv, PushTyped, PushStage, Pids, Proc
  <1>5. Room'
    BY <1>a, NextPidInside DEF IInv, VecTyped, PushTyped, PushStage, Room
  <1>6. OnCpuIsCurrent'
    BY <1>a, NextPidInside DEF IInv, VecTyped, CpuTyped, PushTyped, PushStage, Slots,
       Written, OnCpuIsCurrent, Proc, Garbage
  <1>7. ExitedWasPushed'
    BY <1>a, NextPidInside DEF IInv, VecTyped, CpuTyped, PushTyped, PushStage, Slots,
       Written, ExitedWasPushed, OnCpuIsCurrent, Proc, Garbage
  <1>8. SlayerFreesDead'
    BY <1>a, NextPidInside DEF IInv, VecTyped, CpuTyped, SlayerTyped, OnCpuIsCurrent,
       ExitedWasPushed, SlayerFreesDead, Proc
  <1>9. FaultOnlyInGrowingPush'
    <2>1. PICK k \in 1 .. length : data[next_pid(k)] = Garbage /\ current_pid' = next_pid(k)
      OBVIOUS
    <2>2. next_pid(k) \in 0 .. length - 1 /\ next_pid(k) \in 0 .. LastProc
      BY <1>a, NextPidInside
    <2>3. ~Written(next_pid(k))
      BY <2>1, <2>2 DEF IInv, Slots, Garbage
    <2>4. kpc = "store" /\ pending = {"slot"} /\ next_pid(k) = length - 1
      <3>1. next_pid(k) >= pushed /\ length > pushed
        BY <1>a, <2>2, <2>3 DEF Written, VecTyped, PushTyped
      <3>2. kpc = "store" /\ length = pushed + 1 /\ "length" \notin pending
        BY <1>a, <2>2, <3>1 DEF IInv, PushStage, VecTyped, PushTyped
      <3>3. next_pid(k) = pushed /\ "slot" \in pending
        BY <1>a, <2>2, <2>3, <3>1, <3>2 DEF Written, VecTyped, PushTyped
      <3>4. pending = {"slot"}
        BY <1>a, <3>2, <3>3, Zenon DEF PushTyped
      <3>5. QED
        BY <1>a, <3>2, <3>3, <3>4 DEF PushTyped
    <2>5. capacity = 2 * (length - 1)
      BY <1>a, <2>4 DEF IInv, PushStage, Room, VecTyped, PushTyped
    <2>6. QED
      BY <2>1, <2>4, <2>5 DEF FaultOnlyInGrowingPush
  <1>10. QED
    BY <1>1, <1>2, <1>3, <1>4, <1>5, <1>6, <1>7, <1>8, <1>9 DEF IInv

\* The process gets the next pid, which is its index.
LEMMA Step_sched_push_process ==
    ASSUME IInv, sched_push_process PROVE IInv'
  <1> USE DEF sched_push_process, InKmain, sched_current_process, vec_vars, cpu_vars,
     push_vars, slayer_vars
  <1>a. TypeOK /\ VecTyped /\ CpuTyped /\ PushTyped /\ SlayerTyped
    BY TypeParts DEF IInv
  <1>1. TypeOK'
    <2>1. VecTyped'
      BY <1>a DEF IInv, VecTyped, PushTyped, PushStage, Room, Proc
    <2>2. CpuTyped'
      BY <1>a DEF IInv, CpuTyped, VecTyped
    <2>3. PushTyped'
      BY <1>a DEF IInv, PushTyped, VecTyped, PushStage, Proc
    <2>4. SlayerTyped'
      BY <1>a DEF IInv, SlayerTyped, VecTyped, Proc
    <2>5. QED
      BY <2>1, <2>2, <2>3, <2>4, TypeParts
  <1>2. PushStage'
    BY <1>a DEF IInv, PushTyped, VecTyped, PushStage
  <1>3. Slots'
    BY <1>a DEF IInv, VecTyped, PushTyped, PushStage, Slots, Written
  <1>4. Pids'
    BY <1>a DEF IInv, PushTyped, PushStage, Pids, Proc
  <1>5. Room'
    BY <1>a DEF IInv, VecTyped, PushTyped, PushStage, Room
  <1>6. OnCpuIsCurrent'
    BY <1>a DEF IInv, VecTyped, CpuTyped, PushTyped, PushStage, Slots, Written,
       OnCpuIsCurrent, Proc, Garbage
  <1>7. ExitedWasPushed'
    BY <1>a DEF IInv, VecTyped, CpuTyped, PushTyped, PushStage, Slots, Written,
       ExitedWasPushed, OnCpuIsCurrent, Proc, Garbage
  <1>8. SlayerFreesDead'
    BY <1>a DEF IInv, VecTyped, CpuTyped, SlayerTyped, OnCpuIsCurrent, ExitedWasPushed,
       SlayerFreesDead, Proc
  <1>9. FaultOnlyInGrowingPush'
    BY <1>a DEF IInv, VecTyped, PushTyped, PushStage, Slots, Written, Room,
       FaultOnlyInGrowingPush, Garbage
  <1>10. QED
    BY <1>1, <1>2, <1>3, <1>4, <1>5, <1>6, <1>7, <1>8, <1>9 DEF IInv

\* The vector doubles exactly when it is full.
LEMMA Step_vec_expand_ ==
    ASSUME IInv, vec_expand_ PROVE IInv'
  <1> USE DEF vec_expand_, InKmain, sched_current_process, vec_vars, cpu_vars, push_vars,
     slayer_vars
  <1>a. TypeOK /\ VecTyped /\ CpuTyped /\ PushTyped /\ SlayerTyped
    BY TypeParts DEF IInv
  <1>1. TypeOK'
    <2>1. VecTyped'
      BY <1>a DEF IInv, VecTyped, PushTyped, PushStage, Room, Proc
    <2>2. CpuTyped'
      BY <1>a DEF IInv, CpuTyped, VecTyped
    <2>3. PushTyped'
      BY <1>a DEF IInv, PushTyped, VecTyped, PushStage, Proc
    <2>4. SlayerTyped'
      BY <1>a DEF IInv, SlayerTyped, VecTyped, Proc
    <2>5. QED
      BY <2>1, <2>2, <2>3, <2>4, TypeParts
  <1>2. PushStage'
    BY <1>a DEF IInv, PushTyped, VecTyped, PushStage
  <1>3. Slots'
    BY <1>a DEF IInv, VecTyped, PushTyped, PushStage, Slots, Written
  <1>4. Pids'
    BY <1>a DEF IInv, PushTyped, PushStage, Pids, Proc
  <1>5. Room'
    BY <1>a DEF IInv, VecTyped, PushTyped, PushStage, Room
  <1>6. OnCpuIsCurrent'
    BY <1>a DEF IInv, VecTyped, CpuTyped, PushTyped, PushStage, Slots, Written,
       OnCpuIsCurrent, Proc, Garbage
  <1>7. ExitedWasPushed'
    BY <1>a DEF IInv, VecTyped, CpuTyped, PushTyped, PushStage, Slots, Written,
       ExitedWasPushed, OnCpuIsCurrent, Proc, Garbage
  <1>8. SlayerFreesDead'
    BY <1>a DEF IInv, VecTyped, CpuTyped, SlayerTyped, OnCpuIsCurrent, ExitedWasPushed,
       SlayerFreesDead, Proc
  <1>9. FaultOnlyInGrowingPush'
    BY <1>a DEF IInv, VecTyped, PushTyped, PushStage, Slots, Written, Room,
       FaultOnlyInGrowingPush, Garbage
  <1>10. QED
    BY <1>1, <1>2, <1>3, <1>4, <1>5, <1>6, <1>7, <1>8, <1>9 DEF IInv

\* The new length covers the slot of the process pushed.
LEMMA Step_vec_push_length ==
    ASSUME IInv, vec_push_length PROVE IInv'
  <1> USE DEF vec_push_length, InKmain, sched_current_process, vec_vars, cpu_vars,
     push_vars, slayer_vars
  <1>a. TypeOK /\ VecTyped /\ CpuTyped /\ PushTyped /\ SlayerTyped
    BY TypeParts DEF IInv
  <1>1. TypeOK'
    <2>1. VecTyped'
      BY <1>a DEF IInv, VecTyped, PushTyped, PushStage, Room, Proc
    <2>2. CpuTyped'
      BY <1>a DEF IInv, CpuTyped, VecTyped
    <2>3. PushTyped'
      BY <1>a DEF IInv, PushTyped, VecTyped, PushStage, Proc
    <2>4. SlayerTyped'
      BY <1>a DEF IInv, SlayerTyped, VecTyped, Proc
    <2>5. QED
      BY <2>1, <2>2, <2>3, <2>4, TypeParts
  <1>2. PushStage'
    BY <1>a DEF IInv, PushTyped, VecTyped, PushStage
  <1>3. Slots'
    BY <1>a DEF IInv, VecTyped, PushTyped, PushStage, Slots, Written
  <1>4. Pids'
    BY <1>a DEF IInv, PushTyped, PushStage, Pids, Proc
  <1>5. Room'
    BY <1>a DEF IInv, VecTyped, PushTyped, PushStage, Room
  <1>6. OnCpuIsCurrent'
    BY <1>a DEF IInv, VecTyped, CpuTyped, PushTyped, PushStage, Slots, Written,
       OnCpuIsCurrent, Proc, Garbage
  <1>7. ExitedWasPushed'
    BY <1>a DEF IInv, VecTyped, CpuTyped, PushTyped, PushStage, Slots, Written,
       ExitedWasPushed, OnCpuIsCurrent, Proc, Garbage
  <1>8. SlayerFreesDead'
    BY <1>a DEF IInv, VecTyped, CpuTyped, SlayerTyped, OnCpuIsCurrent, ExitedWasPushed,
       SlayerFreesDead, Proc
  <1>9. FaultOnlyInGrowingPush'
    BY <1>a DEF IInv, VecTyped, PushTyped, PushStage, Slots, Written, Room,
       FaultOnlyInGrowingPush, Garbage
  <1>10. QED
    BY <1>1, <1>2, <1>3, <1>4, <1>5, <1>6, <1>7, <1>8, <1>9 DEF IInv

\* The slot written is that of the process pushed, in either order.
LEMMA Step_vec_push_slot ==
    ASSUME IInv, vec_push_slot PROVE IInv'
  <1> USE DEF vec_push_slot, InKmain, sched_current_process, vec_vars, cpu_vars, push_vars,
     slayer_vars
  <1>a. TypeOK /\ VecTyped /\ CpuTyped /\ PushTyped /\ SlayerTyped
    BY TypeParts DEF IInv
  <1>1. TypeOK'
    <2>1. VecTyped'
      BY <1>a DEF IInv, VecTyped, PushTyped, PushStage, Room, Proc
    <2>2. CpuTyped'
      BY <1>a DEF IInv, CpuTyped, VecTyped
    <2>3. PushTyped'
      BY <1>a DEF IInv, PushTyped, VecTyped, PushStage, Proc
    <2>4. SlayerTyped'
      BY <1>a DEF IInv, SlayerTyped, VecTyped, Proc
    <2>5. QED
      BY <2>1, <2>2, <2>3, <2>4, TypeParts
  <1>2. PushStage'
    BY <1>a DEF IInv, PushTyped, VecTyped, PushStage
  <1>3. Slots'
    BY <1>a DEF IInv, VecTyped, PushTyped, PushStage, Slots, Written
  <1>4. Pids'
    BY <1>a DEF IInv, PushTyped, PushStage, Pids, Proc
  <1>5. Room'
    BY <1>a DEF IInv, VecTyped, PushTyped, PushStage, Room
  <1>6. OnCpuIsCurrent'
    BY <1>a DEF IInv, VecTyped, CpuTyped, PushTyped, PushStage, Slots, Written,
       OnCpuIsCurrent, Proc, Garbage
  <1>7. ExitedWasPushed'
    BY <1>a DEF IInv, VecTyped, CpuTyped, PushTyped, PushStage, Slots, Written,
       ExitedWasPushed, OnCpuIsCurrent, Proc, Garbage
  <1>8. SlayerFreesDead'
    BY <1>a DEF IInv, VecTyped, CpuTyped, SlayerTyped, OnCpuIsCurrent, ExitedWasPushed,
       SlayerFreesDead, Proc
  <1>9. FaultOnlyInGrowingPush'
    BY <1>a DEF IInv, VecTyped, PushTyped, PushStage, Slots, Written, Room,
       FaultOnlyInGrowingPush, Garbage
  <1>10. QED
    BY <1>1, <1>2, <1>3, <1>4, <1>5, <1>6, <1>7, <1>8, <1>9 DEF IInv

\* The push is complete.
LEMMA Step_sched_push_process_release ==
    ASSUME IInv, sched_push_process_release PROVE IInv'
  <1> USE DEF sched_push_process_release, InKmain, sched_current_process, vec_vars,
     cpu_vars, push_vars, slayer_vars
  <1>a. TypeOK /\ VecTyped /\ CpuTyped /\ PushTyped /\ SlayerTyped
    BY TypeParts DEF IInv
  <1>1. TypeOK'
    <2>1. VecTyped'
      BY <1>a DEF IInv, VecTyped, PushTyped, PushStage, Room, Proc
    <2>2. CpuTyped'
      BY <1>a DEF IInv, CpuTyped, VecTyped
    <2>3. PushTyped'
      BY <1>a DEF IInv, PushTyped, VecTyped, PushStage, Proc
    <2>4. SlayerTyped'
      BY <1>a DEF IInv, SlayerTyped, VecTyped, Proc
    <2>5. QED
      BY <2>1, <2>2, <2>3, <2>4, TypeParts
  <1>2. PushStage'
    BY <1>a DEF IInv, PushTyped, VecTyped, PushStage
  <1>3. Slots'
    BY <1>a DEF IInv, VecTyped, PushTyped, PushStage, Slots, Written
  <1>4. Pids'
    BY <1>a DEF IInv, PushTyped, PushStage, Pids, Proc
  <1>5. Room'
    BY <1>a DEF IInv, VecTyped, PushTyped, PushStage, Room
  <1>6. OnCpuIsCurrent'
    BY <1>a DEF IInv, VecTyped, CpuTyped, PushTyped, PushStage, Slots, Written,
       OnCpuIsCurrent, Proc, Garbage
  <1>7. ExitedWasPushed'
    BY <1>a DEF IInv, VecTyped, CpuTyped, PushTyped, PushStage, Slots, Written,
       ExitedWasPushed, OnCpuIsCurrent, Proc, Garbage
  <1>8. SlayerFreesDead'
    BY <1>a DEF IInv, VecTyped, CpuTyped, SlayerTyped, OnCpuIsCurrent, ExitedWasPushed,
       SlayerFreesDead, Proc
  <1>9. FaultOnlyInGrowingPush'
    BY <1>a DEF IInv, VecTyped, PushTyped, PushStage, Slots, Written, Room,
       FaultOnlyInGrowingPush, Garbage
  <1>10. QED
    BY <1>1, <1>2, <1>3, <1>4, <1>5, <1>6, <1>7, <1>8, <1>9 DEF IInv

\* The slayer stops at dead processes only.
LEMMA Step_slayer_check ==
    ASSUME IInv, slayer_check PROVE IInv'
  <1> USE DEF slayer_check, InKmain, sched_current_process, vec_vars, cpu_vars, push_vars,
     slayer_vars
  <1>a. TypeOK /\ VecTyped /\ CpuTyped /\ PushTyped /\ SlayerTyped
    BY TypeParts DEF IInv
  <1>1. TypeOK'
    <2>1. VecTyped'
      BY <1>a DEF IInv, VecTyped, PushTyped, PushStage, Room, Proc
    <2>2. CpuTyped'
      BY <1>a DEF IInv, CpuTyped, VecTyped
    <2>3. PushTyped'
      BY <1>a DEF IInv, PushTyped, VecTyped, PushStage, Proc
    <2>4. SlayerTyped'
      BY <1>a DEF IInv, SlayerTyped, VecTyped, Proc
    <2>5. QED
      BY <2>1, <2>2, <2>3, <2>4, TypeParts
  <1>2. PushStage'
    BY <1>a DEF IInv, PushTyped, VecTyped, PushStage
  <1>3. Slots'
    BY <1>a DEF IInv, VecTyped, PushTyped, PushStage, Slots, Written
  <1>4. Pids'
    BY <1>a DEF IInv, PushTyped, PushStage, Pids, Proc
  <1>5. Room'
    BY <1>a DEF IInv, VecTyped, PushTyped, PushStage, Room
  <1>6. OnCpuIsCurrent'
    BY <1>a DEF IInv, VecTyped, CpuTyped, PushTyped, PushStage, Slots, Written,
       OnCpuIsCurrent, Proc, Garbage
  <1>7. ExitedWasPushed'
    BY <1>a DEF IInv, VecTyped, CpuTyped, PushTyped, PushStage, Slots, Written,
       ExitedWasPushed, OnCpuIsCurrent, Proc, Garbage
  <1>8. SlayerFreesDead'
    BY <1>a DEF IInv, VecTyped, CpuTyped, SlayerTyped, OnCpuIsCurrent, ExitedWasPushed,
       SlayerFreesDead, Proc
  <1>9. FaultOnlyInGrowingPush'
    BY <1>a DEF IInv, VecTyped, PushTyped, PushStage, Slots, Written, Room,
       FaultOnlyInGrowingPush, Garbage
  <1>10. QED
    BY <1>1, <1>2, <1>3, <1>4, <1>5, <1>6, <1>7, <1>8, <1>9 DEF IInv

\* The next pass begins at the first process.
LEMMA Step_slayer_pass ==
    ASSUME IInv, slayer_pass PROVE IInv'
  <1> USE DEF slayer_pass, InKmain, sched_current_process, vec_vars, cpu_vars, push_vars,
     slayer_vars
  <1>a. TypeOK /\ VecTyped /\ CpuTyped /\ PushTyped /\ SlayerTyped
    BY TypeParts DEF IInv
  <1>1. TypeOK'
    <2>1. VecTyped'
      BY <1>a DEF IInv, VecTyped, PushTyped, PushStage, Room, Proc
    <2>2. CpuTyped'
      BY <1>a DEF IInv, CpuTyped, VecTyped
    <2>3. PushTyped'
      BY <1>a DEF IInv, PushTyped, VecTyped, PushStage, Proc
    <2>4. SlayerTyped'
      BY <1>a DEF IInv, SlayerTyped, VecTyped, Proc
    <2>5. QED
      BY <2>1, <2>2, <2>3, <2>4, TypeParts
  <1>2. PushStage'
    BY <1>a DEF IInv, PushTyped, VecTyped, PushStage
  <1>3. Slots'
    BY <1>a DEF IInv, VecTyped, PushTyped, PushStage, Slots, Written
  <1>4. Pids'
    BY <1>a DEF IInv, PushTyped, PushStage, Pids, Proc
  <1>5. Room'
    BY <1>a DEF IInv, VecTyped, PushTyped, PushStage, Room
  <1>6. OnCpuIsCurrent'
    BY <1>a DEF IInv, VecTyped, CpuTyped, PushTyped, PushStage, Slots, Written,
       OnCpuIsCurrent, Proc, Garbage
  <1>7. ExitedWasPushed'
    BY <1>a DEF IInv, VecTyped, CpuTyped, PushTyped, PushStage, Slots, Written,
       ExitedWasPushed, OnCpuIsCurrent, Proc, Garbage
  <1>8. SlayerFreesDead'
    BY <1>a DEF IInv, VecTyped, CpuTyped, SlayerTyped, OnCpuIsCurrent, ExitedWasPushed,
       SlayerFreesDead, Proc
  <1>9. FaultOnlyInGrowingPush'
    BY <1>a DEF IInv, VecTyped, PushTyped, PushStage, Slots, Written, Room,
       FaultOnlyInGrowingPush, Garbage
  <1>10. QED
    BY <1>1, <1>2, <1>3, <1>4, <1>5, <1>6, <1>7, <1>8, <1>9 DEF IInv

\* Who is freed is dead, and kmain has the CPU.
LEMMA Step_slayer_free ==
    ASSUME IInv, slayer_free PROVE IInv'
  <1> USE DEF slayer_free, InKmain, sched_current_process, vec_vars, cpu_vars, push_vars,
     slayer_vars
  <1>a. TypeOK /\ VecTyped /\ CpuTyped /\ PushTyped /\ SlayerTyped
    BY TypeParts DEF IInv
  <1>1. TypeOK'
    <2>1. VecTyped'
      BY <1>a DEF IInv, VecTyped, PushTyped, PushStage, Room, Proc
    <2>2. CpuTyped'
      BY <1>a DEF IInv, CpuTyped, VecTyped
    <2>3. PushTyped'
      BY <1>a DEF IInv, PushTyped, VecTyped, PushStage, Proc
    <2>4. SlayerTyped'
      <3>1. Resources[freeing + 1] \in {"bstack", "stack", "pml", "mailbox"}
        BY <1>a DEF SlayerTyped, Resources
      <3>2. freed' \in [Proc -> SUBSET {"bstack", "stack", "pml", "mailbox"}]
        BY <1>a, <3>1 DEF SlayerTyped
      <3>3. index' \in 0 .. length' /\ freeing' \in 0 .. 3
        BY <1>a DEF IInv, SlayerFreesDead, SlayerTyped, VecTyped
      <3>4. QED
        BY <3>2, <3>3 DEF SlayerTyped
    <2>5. QED
      BY <2>1, <2>2, <2>3, <2>4, TypeParts
  <1>2. PushStage'
    BY <1>a DEF IInv, PushTyped, VecTyped, PushStage
  <1>3. Slots'
    BY <1>a DEF IInv, VecTyped, PushTyped, PushStage, Slots, Written
  <1>4. Pids'
    BY <1>a DEF IInv, PushTyped, PushStage, Pids, Proc
  <1>5. Room'
    BY <1>a DEF IInv, VecTyped, PushTyped, PushStage, Room
  <1>6. OnCpuIsCurrent'
    BY <1>a DEF IInv, VecTyped, CpuTyped, PushTyped, PushStage, Slots, Written,
       OnCpuIsCurrent, Proc, Garbage
  <1>7. ExitedWasPushed'
    BY <1>a DEF IInv, VecTyped, CpuTyped, PushTyped, PushStage, Slots, Written,
       ExitedWasPushed, OnCpuIsCurrent, Proc, Garbage
  <1>8. SlayerFreesDead'
    BY <1>a DEF IInv, VecTyped, CpuTyped, SlayerTyped, OnCpuIsCurrent, ExitedWasPushed,
       SlayerFreesDead, Proc
  <1>9. FaultOnlyInGrowingPush'
    BY <1>a DEF IInv, VecTyped, PushTyped, PushStage, Slots, Written, Room,
       FaultOnlyInGrowingPush, Garbage
  <1>10. QED
    BY <1>1, <1>2, <1>3, <1>4, <1>5, <1>6, <1>7, <1>8, <1>9 DEF IInv

\* The process that exits is on the CPU, so nothing of it has been freed.
LEMMA Step_syscall_exit ==
    ASSUME IInv, NEW p \in Proc, syscall_exit(p) PROVE IInv'
  <1> USE DEF syscall_exit, OnCpu, sched_current_process, vec_vars, cpu_vars, push_vars,
     slayer_vars
  <1>a. TypeOK /\ VecTyped /\ CpuTyped /\ PushTyped /\ SlayerTyped
    BY TypeParts DEF IInv
  <1>1. TypeOK'
    <2>1. VecTyped'
      BY <1>a DEF IInv, VecTyped, PushTyped, PushStage, Room, Proc
    <2>2. CpuTyped'
      BY <1>a DEF IInv, CpuTyped, VecTyped
    <2>3. PushTyped'
      BY <1>a DEF IInv, PushTyped, VecTyped, PushStage, Proc
    <2>4. SlayerTyped'
      BY <1>a DEF IInv, SlayerTyped, VecTyped, Proc
    <2>5. QED
      BY <2>1, <2>2, <2>3, <2>4, TypeParts
  <1>2. PushStage'
    BY <1>a DEF IInv, PushTyped, VecTyped, PushStage
  <1>3. Slots'
    BY <1>a DEF IInv, VecTyped, PushTyped, PushStage, Slots, Written
  <1>4. Pids'
    BY <1>a DEF IInv, PushTyped, PushStage, Pids, Proc
  <1>5. Room'
    BY <1>a DEF IInv, VecTyped, PushTyped, PushStage, Room
  <1>6. OnCpuIsCurrent'
    BY <1>a DEF IInv, VecTyped, CpuTyped, PushTyped, PushStage, Slots, Written,
       OnCpuIsCurrent, Proc, Garbage
  <1>7. ExitedWasPushed'
    BY <1>a DEF IInv, VecTyped, CpuTyped, PushTyped, PushStage, Slots, Written,
       ExitedWasPushed, OnCpuIsCurrent, Proc, Garbage
  <1>8. SlayerFreesDead'
    BY <1>a DEF IInv, VecTyped, CpuTyped, SlayerTyped, OnCpuIsCurrent, ExitedWasPushed,
       SlayerFreesDead, Proc
  <1>9. FaultOnlyInGrowingPush'
    BY <1>a DEF IInv, VecTyped, PushTyped, PushStage, Slots, Written, Room,
       FaultOnlyInGrowingPush, Garbage
  <1>10. QED
    BY <1>1, <1>2, <1>3, <1>4, <1>5, <1>6, <1>7, <1>8, <1>9 DEF IInv

\* The slice ends early.
LEMMA Step_force_yield ==
    ASSUME IInv, NEW p \in Proc, force_yield(p) PROVE IInv'
  <1> USE DEF force_yield, OnCpu, sched_current_process, vec_vars, cpu_vars, push_vars,
     slayer_vars
  <1>a. TypeOK /\ VecTyped /\ CpuTyped /\ PushTyped /\ SlayerTyped
    BY TypeParts DEF IInv
  <1>1. TypeOK'
    <2>1. VecTyped'
      BY <1>a DEF IInv, VecTyped, PushTyped, PushStage, Room, Proc
    <2>2. CpuTyped'
      BY <1>a DEF IInv, CpuTyped, VecTyped
    <2>3. PushTyped'
      BY <1>a DEF IInv, PushTyped, VecTyped, PushStage, Proc
    <2>4. SlayerTyped'
      BY <1>a DEF IInv, SlayerTyped, VecTyped, Proc
    <2>5. QED
      BY <2>1, <2>2, <2>3, <2>4, TypeParts
  <1>2. PushStage'
    BY <1>a DEF IInv, PushTyped, VecTyped, PushStage
  <1>3. Slots'
    BY <1>a DEF IInv, VecTyped, PushTyped, PushStage, Slots, Written
  <1>4. Pids'
    BY <1>a DEF IInv, PushTyped, PushStage, Pids, Proc
  <1>5. Room'
    BY <1>a DEF IInv, VecTyped, PushTyped, PushStage, Room
  <1>6. OnCpuIsCurrent'
    BY <1>a DEF IInv, VecTyped, CpuTyped, PushTyped, PushStage, Slots, Written,
       OnCpuIsCurrent, Proc, Garbage
  <1>7. ExitedWasPushed'
    BY <1>a DEF IInv, VecTyped, CpuTyped, PushTyped, PushStage, Slots, Written,
       ExitedWasPushed, OnCpuIsCurrent, Proc, Garbage
  <1>8. SlayerFreesDead'
    BY <1>a DEF IInv, VecTyped, CpuTyped, SlayerTyped, OnCpuIsCurrent, ExitedWasPushed,
       SlayerFreesDead, Proc
  <1>9. FaultOnlyInGrowingPush'
    BY <1>a DEF IInv, VecTyped, PushTyped, PushStage, Slots, Written, Room,
       FaultOnlyInGrowingPush, Garbage
  <1>10. QED
    BY <1>1, <1>2, <1>3, <1>4, <1>5, <1>6, <1>7, <1>8, <1>9 DEF IInv

\* every step keeps it,
LEMMA NextIInv == IInv /\ [Next]_vars => IInv'
  <1> SUFFICES ASSUME IInv, [Next]_vars PROVE IInv'
    OBVIOUS
  <1>1. CASE yield_task
    BY <1>1, Step_yield_tick, Step_yield_switch, Step_yield_fault DEF yield_task
  <1>2. CASE \E p \in Proc : syscall_exit(p) \/ force_yield(p)
    BY <1>2, Step_syscall_exit, Step_force_yield
  <1>3. CASE kmain
    BY <1>3, Step_sched_push_process, Step_vec_expand_, Step_vec_push_length,
       Step_vec_push_slot, Step_sched_push_process_release, Step_slayer_check,
       Step_slayer_pass, Step_slayer_free DEF kmain
  <1>4. CASE UNCHANGED vars
    BY <1>4 DEF IInv, TypeOK, PushStage, Slots, Written, Pids, Room, OnCpuIsCurrent,
       ExitedWasPushed, SlayerFreesDead, FaultOnlyInGrowingPush, vars, vec_vars, cpu_vars,
       push_vars, slayer_vars
  <1>5. QED
    BY <1>1, <1>2, <1>3, <1>4 DEF Next, Stopped

\* so it holds always.
LEMMA Invariance == Spec => []IInv
  BY InitIInv, NextIInv, PTL DEF Spec

-----------------------------------------------------------------------------
(***************************************************************************)
(* The theorems.                                                           *)
(***************************************************************************)

\* The variables of the scheduler and of kmain keep their types: no index
\* leaves the process table (sched.c).
THEOREM TypeCorrect == Spec => []TypeOK
  <1>1. IInv => TypeOK
    BY DEF IInv
  <1>2. QED
    BY Invariance, <1>1, PTL

\* A pid is the index of its process, wherever the timer interrupts the pushes
\* (sched.c:167-196).
THEOREM PidsAreIndexes == Spec => []PidIsIndex
  <1>1. IInv => PidIsIndex
    <2> SUFFICES ASSUME IInv, NEW i \in 0 .. length - 1, data[i] # Garbage
                 PROVE  pid[data[i]] = i
      BY DEF PidIsIndex
    <2>1. i \in 0 .. LastProc
      BY DEF IInv, TypeOK
    <2>2. Written(i) /\ data[i] = i
      BY <2>1 DEF IInv, Slots
    <2>3. QED
      BY <2>1, <2>2 DEF IInv, Pids, Written, Proc
  <1>2. QED
    BY Invariance, <1>1, PTL

\* What the slayer has freed is never used by the CPU (sched.c:94-110).
THEOREM FreedStaysOff == Spec => []FreedNeverRuns
  <1>1. IInv => FreedNeverRuns
    BY DEF IInv, FreedNeverRuns, SlayerFreesDead, OnCpuIsCurrent
  <1>2. QED
    BY Invariance, <1>1, PTL

\* A tick brings the kernel down only between the two stores of a push that
\* had to grow the vector (sched.c:52-70, vec.h).
THEOREM FaultsOnlyInGrowingPush == Spec => []FaultOnlyInGrowingPush
  <1>1. IInv => FaultOnlyInGrowingPush
    BY DEF IInv
  <1>2. QED
    BY Invariance, <1>1, PTL
-----------------------------------------------------------------------------
(***************************************************************************)
(* The refinement: what each step of Sched is to SchedAbs.                 *)
(***************************************************************************)
Ready == {p \in Proc : /\ \E i \in 0 .. length - 1 : data[i] = p
                       /\ state[p] = "TASK_RUNNING"}

Exited == {p \in Proc : state[p] = "TASK_WAITINGFORDEATH"}

Reclaimed == {p \in Proc : freed[p] # {}}

Up == status = "running"

\* Admitted are exactly the processes below the length whose slot is written.
ReadyIsWritten ==
    \A p \in Proc : p \in Ready <=> p < length /\ Written(p) /\ state[p] = "TASK_RUNNING"

\* A consequence of the invariant.
LEMMA ReadyIs == IInv => ReadyIsWritten
  <1> SUFFICES ASSUME IInv, NEW p \in Proc
               PROVE  (\E i \in 0 .. length - 1 : data[i] = p) <=> p < length /\ Written(p)
    BY DEF Ready, ReadyIsWritten
  <1>1. \A i \in 0 .. length - 1 : i \in 0 .. LastProc
    BY DEF IInv, TypeOK
  <1>2. ASSUME NEW i \in 0 .. length - 1, data[i] = p PROVE p < length /\ Written(p)
    <2>1. Written(i) /\ p = i
      BY <1>1, <1>2 DEF IInv, Slots, Proc, Garbage
    <2>2. QED
      BY <2>1 DEF IInv, TypeOK
  <1>3. ASSUME p < length, Written(p) PROVE \E i \in 0 .. length - 1 : data[i] = p
    <2>1. p \in 0 .. length - 1 /\ data[p] = p
      BY <1>3 DEF IInv, TypeOK, Slots, Proc
    <2>2. QED
      BY <2>1
  <1>4. QED
    BY <1>2, <1>3

\* Steps that leave what SchedAbs sees alone.
LEMMA Invisible ==
    ASSUME IInv, IInv', UNCHANGED << gs, state, status, freed >>, Ready' = Ready
    PROVE  UNCHANGED Abs!vars
  BY DEF Abs!vars, Ready

\* What is below the length and written decides who is admitted.
LEMMA SameReady ==
    ASSUME ReadyIsWritten, ReadyIsWritten', state' = state,
           \A p \in Proc : p < length' /\ Written(p)' <=> p < length /\ Written(p)
    PROVE  Ready' = Ready
  <1>1. \A p \in Proc : p \in Ready' <=> p \in Ready
    BY DEF ReadyIsWritten
  <1>2. QED
    BY <1>1 DEF Ready

\* The second store of a push admits the process.
LEMMA Admission ==
    ASSUME ReadyIsWritten, ReadyIsWritten', IInv, pushed \in Proc, status = "running",
           UNCHANGED << gs, state, status, freed >>,
           ~(pushed < length /\ Written(pushed)),
           \A p \in Proc : p < length' /\ Written(p)' <=> (p < length /\ Written(p)) \/ p = pushed
    PROVE  Abs!Next
  <1>1. state[pushed] = "TASK_RUNNING"
    BY DEF IInv, TypeOK, ExitedWasPushed, Slots, Proc, Garbage
  <1>2. \A p \in Proc : p \in Ready' <=> p \in Ready \cup {pushed}
    BY <1>1 DEF ReadyIsWritten
  <1>3. Ready' = Ready \cup {pushed}
    BY <1>2 DEF Ready
  <1>4. pushed \notin Ready \cup Exited
    BY <1>1 DEF ReadyIsWritten, Exited
  <1>5. PICK p \in Proc : p = pushed
    OBVIOUS
  <1>6. Abs!Admit(p)
    BY <1>3, <1>4, <1>5 DEF Abs!Admit, Ready, Exited
  <1>7. QED
    BY <1>6 DEF Abs!Next

\* The scheduler and the slayer implement SchedAbs up to its fairness: every
\* dispatch is of a ready process, every process is admitted once and reclaimed
\* off the CPU (sched.c:52-110).
THEOREM Refinement == Spec => Abs!Spec
  <1>1. Init => Abs!Init
    BY DEF Init, Abs!Init, Proc, Garbage
  <1>2. IInv /\ IInv' /\ [Next]_vars => [Abs!Next]_(Abs!vars)
    <2> SUFFICES ASSUME IInv, IInv', [Next]_vars
                 PROVE  Abs!Next \/ UNCHANGED Abs!vars
      OBVIOUS
    <2>a. ReadyIsWritten /\ ReadyIsWritten'
      <3>1. (IInv => ReadyIsWritten) /\ (IInv' => ReadyIsWritten')
        BY ReadyIs, PTL
      <3>2. QED
        BY <3>1
    <2>1. CASE yield_tick
      BY <2>1 DEF yield_tick, Abs!vars, vec_vars, slayer_vars
    <2>2. CASE yield_switch
      <3>1. PICK k \in 1 .. length : Runnable(next_pid(k)) /\ gs' = data[next_pid(k)]
        BY <2>2 DEF yield_switch, Successors, Runnable
      <3>2. next_pid(k) \in 0 .. length - 1 /\ next_pid(k) \in 0 .. LastProc
        BY NextPidInside DEF IInv
      <3>3. gs' \in Proc /\ gs' \in Ready
        BY <3>1, <3>2 DEF IInv, TypeOK, Runnable, Ready
      <3>4. Abs!Dispatch(gs')
        BY <2>2, <3>3 DEF yield_switch, Abs!Dispatch, Ready, vec_vars, slayer_vars
      <3>5. QED
        BY <3>3, <3>4 DEF Abs!Next
    <2>3. CASE yield_fault
      BY <2>3 DEF yield_fault, Abs!Next, Abs!Halt, vec_vars, slayer_vars
    <2>4. ASSUME NEW p \in Proc, syscall_exit(p) PROVE Abs!Next
      <3>1. gs = p /\ p # 0 /\ p \in Ready
        BY <2>4 DEF syscall_exit, OnCpu, sched_current_process, IInv, OnCpuIsCurrent,
           TypeOK, Ready
      <3>2. Ready' = Ready \ {p}
        BY <2>4 DEF syscall_exit, vec_vars, Ready, IInv, TypeOK
      <3>3. Exited' = Exited \cup {p}
        BY <2>4, SMTT(40) DEF syscall_exit, Exited, IInv, TypeOK
      <3>4. Abs!Exit(p)
        BY <2>4, <3>1, <3>2, <3>3 DEF syscall_exit, OnCpu, Abs!Exit, Ready, Exited,
           cpu_vars, slayer_vars
      <3>5. QED
        BY <3>4 DEF Abs!Next
    <2>5. ASSUME NEW p \in Proc, force_yield(p) PROVE UNCHANGED Abs!vars
      BY <2>5 DEF force_yield, Abs!vars, vec_vars, slayer_vars
    <2>6. CASE sched_push_process \/ vec_expand_ \/ sched_push_process_release
               \/ slayer_check \/ slayer_pass
      BY <2>6 DEF sched_push_process, vec_expand_, sched_push_process_release, slayer_check,
         slayer_pass, Abs!vars, vec_vars, cpu_vars, push_vars, slayer_vars
    <2>7. CASE vec_push_length
      <3>1. UNCHANGED << gs, state, status, freed >> /\ status = "running"
        BY <2>7 DEF vec_push_length, InKmain, cpu_vars, slayer_vars
      <3>2. length = pushed /\ length' = pushed + 1 /\ pushed \in Proc
            /\ UNCHANGED << pushed, kpc >> /\ kpc = "store" /\ pending' = pending \ {"length"}
        BY <2>7 DEF vec_push_length, IInv, PushStage, TypeOK, Proc
      <3>3. CASE "slot" \in pending
        <4>1. \A p \in Proc : p < length' /\ Written(p)' <=> p < length /\ Written(p)
          BY <3>2, <3>3 DEF Written, Proc
        <4>2. Ready' = Ready
          BY <2>a, <3>1, <4>1, SameReady
        <4>3. QED
          BY <3>1, <4>2, Invisible
      <3>4. CASE "slot" \notin pending
        <4>1. \A p \in Proc : p < length' /\ Written(p)' <=> (p < length /\ Written(p)) \/ p = pushed
          BY <3>2, <3>4 DEF Written, Proc
        <4>2. ~(pushed < length /\ Written(pushed))
          BY <3>2 DEF Proc
        <4>3. QED
          BY <2>a, <3>1, <3>2, <4>1, <4>2, Admission
      <3>5. QED
        BY <3>3, <3>4
    <2>8. CASE vec_push_slot
      <3>1. UNCHANGED << gs, state, status, freed >> /\ status = "running"
        BY <2>8 DEF vec_push_slot, InKmain, cpu_vars, slayer_vars
      <3>2. pushed \in Proc /\ UNCHANGED << length, pushed, kpc >> /\ kpc = "store"
            /\ "slot" \in pending /\ pending' = pending \ {"slot"}
            /\ length = IF "length" \in pending THEN pushed ELSE pushed + 1
        BY <2>8 DEF vec_push_slot, IInv, PushStage, TypeOK, Proc
      <3>3. CASE "length" \in pending
        <4>1. \A p \in Proc : p < length' /\ Written(p)' <=> p < length /\ Written(p)
          BY <3>2, <3>3 DEF Written, Proc
        <4>2. Ready' = Ready
          BY <2>a, <3>1, <4>1, SameReady
        <4>3. QED
          BY <3>1, <4>2, Invisible
      <3>4. CASE "length" \notin pending
        <4>1. \A p \in Proc : p < length' /\ Written(p)' <=> (p < length /\ Written(p)) \/ p = pushed
          BY <3>2, <3>4 DEF Written, Proc
        <4>2. ~(pushed < length /\ Written(pushed))
          BY <3>2 DEF Written, Proc
        <4>3. QED
          BY <2>a, <3>1, <3>2, <4>1, <4>2, Admission
      <3>5. QED
        BY <3>3, <3>4
    <2>9. CASE slayer_free
      <3>1. index \in 0 .. LastProc /\ data[index] \in Exited /\ gs = 0
            /\ data[index] # 0 /\ data[index] \in Proc
        BY <2>9 DEF slayer_free, InKmain, sched_current_process, IInv, SlayerFreesDead,
           OnCpuIsCurrent, ExitedWasPushed, TypeOK, Exited, PushStage, Slots, Written, Proc, Garbage
      <3>2. PICK p \in Proc : p = data[index]
        BY <3>1
      <3>3. freed'[p] # {} /\ \A q \in Proc \ {p} : freed'[q] = freed[q]
        BY <2>9, <3>2, ZenonT(40) DEF slayer_free, IInv, TypeOK
      <3>4. Reclaimed' = Reclaimed \cup {p}
        BY <3>3 DEF Reclaimed
      <3>5. Abs!Reclaim(p)
        BY <2>9, <3>1, <3>2, <3>4 DEF slayer_free, InKmain, Abs!Reclaim, Reclaimed, Exited,
           vec_vars, cpu_vars
      <3>6. QED
        BY <3>5 DEF Abs!Next
    <2>10. CASE UNCHANGED vars
      BY <2>10 DEF vars, vec_vars, cpu_vars, slayer_vars, Abs!vars
    <2>11. QED
      BY <2>1, <2>2, <2>3, <2>4, <2>5, <2>6, <2>7, <2>8, <2>9, <2>10
      DEF Next, yield_task, kmain, Stopped
  <1>3. QED
    BY Invariance, <1>1, <1>2, PTL DEF Spec, Abs!Spec
=============================================================================
