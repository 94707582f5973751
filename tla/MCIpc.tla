------------------------------- MODULE MCIpc -------------------------------
(***************************************************************************)
(* Instances of Ipc: two or three processes that may send to everybody.    *)
(***************************************************************************)
EXTENDS Ipc
=============================================================================
