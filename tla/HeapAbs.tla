------------------------------ MODULE HeapAbs ------------------------------
(***************************************************************************)
(* What a heap promises: the bytes it hands to one owner belong to nobody  *)
(* else until that owner gives them back.  Module Liballoc implements this *)
(* as long as nobody frees a block that is no longer its own.              *)
(***************************************************************************)
CONSTANT Owner

VARIABLES claim,    \* the bytes each owner may use
          intact    \* nobody has freed somebody else's bytes

vars == << claim, intact >>

Init ==
    /\ claim = [o \in Owner |-> {}]
    /\ intact = TRUE

\* Only the claim of o changes, and it meets nobody else's.
Resize(o) ==
    /\ intact
    /\ claim' = [claim EXCEPT ![o] = claim'[o]]
    /\ \A p \in Owner \ {o} : claim'[o] \cap claim[p] = {}
    /\ UNCHANGED intact

Take(o) == Resize(o) /\ claim[o] \subseteq claim'[o]

Give(o) == Resize(o) /\ claim'[o] \subseteq claim[o]

\* A free of a block that belongs to somebody else: all bets are off.
Steal == intact /\ ~intact'

Broken == ~intact /\ ~intact'

Next ==
    \/ \E o \in Owner : Take(o) \/ Give(o)
    \/ Steal
    \/ Broken

Spec == Init /\ [][Next]_vars
=============================================================================
