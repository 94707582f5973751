----------------------------- MODULE MCLiballoc -----------------------------
(***************************************************************************)
(* An instance of Liballoc in units of eight bytes: the headers of 40      *)
(* bytes and the alignment of 16 bytes are exact, a major is 320 bytes.    *)
(* Three blocks for 1 fit in it, or one for 1 and one for 12, or exactly   *)
(* one for 26.                                                             *)
(***************************************************************************)
EXTENDS Liballoc, TLC

\* Owners that are not stacks are interchangeable.
Interchangeable == Permutations(Owner \ Stack)
=============================================================================
