----------------------------- MODULE SchedAbs ------------------------------
(***************************************************************************)
(* What the scheduler promises its processes: one of the processes that    *)
(* are ready is dispatched at a time, each again and again; a process that *)
(* exited is never dispatched, and its resources are reclaimed some time   *)
(* after it has left the CPU.  Module Sched implements this specification. *)
(***************************************************************************)
CONSTANTS Proc,     \* process objects
          Kernel    \* the one that runs kmain

VARIABLES ready,      \* admitted and not exited
          exited,     \* called exit
          running,    \* whose context the CPU executes
          reclaimed,  \* some of its memory has been freed
          up          \* FALSE once the kernel has halted

vars == << ready, exited, running, reclaimed, up >>

Init ==
    /\ ready = {Kernel}
    /\ exited = {}
    /\ running = Kernel
    /\ reclaimed = {}
    /\ up = TRUE

Admit(p) ==
    /\ up
    /\ p \notin ready \cup exited
    /\ ready' = ready \cup {p}
    /\ UNCHANGED << exited, running, reclaimed, up >>

Dispatch(p) ==
    /\ up
    /\ p \in ready
    /\ running' = p
    /\ UNCHANGED << ready, exited, reclaimed, up >>

\* The process stays on the CPU until the next dispatch.
Exit(p) ==
    /\ up
    /\ p \in ready /\ running = p /\ p # Kernel
    /\ ready' = ready \ {p}
    /\ exited' = exited \cup {p}
    /\ UNCHANGED << running, reclaimed, up >>

Reclaim(p) ==
    /\ up
    /\ p \in exited /\ running # p
    /\ reclaimed' = reclaimed \cup {p}
    /\ UNCHANGED << ready, exited, running, up >>

Halt ==
    /\ up
    /\ up' = FALSE
    /\ UNCHANGED << ready, exited, running, reclaimed >>

Next ==
    \/ \E p \in Proc : Admit(p) \/ Dispatch(p) \/ Exit(p) \/ Reclaim(p)
    \/ Halt

Fairness == \A p \in Proc : WF_vars(Dispatch(p)) /\ WF_vars(Reclaim(p))

Spec == Init /\ [][Next]_vars

FairSpec == Spec /\ Fairness
=============================================================================
