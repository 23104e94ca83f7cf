----------------------------- MODULE MCTaskPool ------------------------------
(***************************************************************************)
(* TaskPool with a few helpers, all of its properties at once.  Liveness   *)
(* is among them, so that the helpers are not declared symmetric.          *)
(***************************************************************************)
EXTENDS TaskPool
=============================================================================
