------------------------------- MODULE VmmAbs -------------------------------
(***************************************************************************)
(* What virtual memory promises: an address space is a function from       *)
(* pages to frames.  The kernel's pages look the same in every space; the  *)
(* other pages of a space change only by operations on that space.         *)
(* Module Vmm implements this with page tables.                            *)
(***************************************************************************)
CONSTANTS Page,         \* virtual pages
          KernelPage    \* those above the user half

VARIABLES view,         \* the translation of each page, by space
          up            \* the kernel has its own tables and runs

vars == << view, up >>

Spaces == DOMAIN view

Init == Spaces = {} /\ up = FALSE

Private(s) == [p \in Page \ KernelPage |-> view[s][p]]

\* In every state: one kernel, in all the spaces there are.
OneKernel == \A s, t \in Spaces, p \in KernelPage : view[s][p] = view[t][p]

\* The kernel's own tables are the first space.
Boot == ~up /\ up'

\* A step concerns the private pages of one space, old or new; kernel pages
\* may change in all spaces at once.
Change(s) ==
    /\ up
    /\ s \in Spaces'
    /\ Spaces \cup {s} = Spaces'
    /\ \A t \in Spaces \ {s} : Private(t)' = Private(t)
    /\ OneKernel'
    /\ UNCHANGED up

Destroy(s) ==
    /\ up
    /\ view' = [t \in Spaces \ {s} |-> view[t]]
    /\ UNCHANGED up

\* A failed assertion ends every promise.
Fail == up /\ up' = FALSE

Down == ~up /\ ~up'

Next ==
    \/ Boot
    \/ \E s \in Spaces \cup Spaces' : Change(s) \/ Destroy(s)
    \/ Fail
    \/ Down

Spec == Init /\ [][Next]_vars
=============================================================================
