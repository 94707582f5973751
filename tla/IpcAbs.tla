------------------------------ MODULE IpcAbs -------------------------------
(***************************************************************************)
(* What message passing promises: a message sent to a living process stays *)
(* in its mailbox until that process receives it, once, and the most       *)
(* recent message is received first.  Module Ipc implements this as long   *)
(* as no two actors meet in a mailbox.                                     *)
(***************************************************************************)
EXTENDS Integers, Sequences

CONSTANTS Proc,     \* processes
          Message   \* messages: records with the fields sender and receiver

VARIABLES box,      \* the messages waiting for each process
          got,      \* the messages each process has received
          alive,    \* the processes that have not exited
          up        \* the kernel runs and its heap is intact

vars == << box, got, alive, up >>

Init ==
    /\ box = [p \in Proc |-> << >>]
    /\ got = [p \in Proc |-> << >>]
    /\ alive = Proc
    /\ up = TRUE

Send(m) ==
    /\ up
    /\ m.receiver \in alive
    /\ box' = [box EXCEPT ![m.receiver] = Append(@, m)]
    /\ UNCHANGED << got, alive, up >>

Receive(p) ==
    /\ up
    /\ box[p] # << >>
    /\ got' = [got EXCEPT ![p] = Append(@, box[p][Len(box[p])])]
    /\ box' = [box EXCEPT ![p] = SubSeq(@, 1, Len(@) - 1)]
    /\ UNCHANGED << alive, up >>

\* What an exiting process has not received is lost.
Exit(p) ==
    /\ up
    /\ p \in alive
    /\ alive' = alive \ {p}
    /\ box' = [box EXCEPT ![p] = << >>]
    /\ UNCHANGED << got, up >>

\* A failed assertion, or the slayer freeing memory in use: all bets are off.
Fail == up /\ up' = FALSE

Failed == ~up /\ ~up'

Next ==
    \/ \E m \in Message : Send(m)
    \/ \E p \in Proc : Receive(p) \/ Exit(p)
    \/ Fail
    \/ Failed

Spec == Init /\ [][Next]_vars
=============================================================================
