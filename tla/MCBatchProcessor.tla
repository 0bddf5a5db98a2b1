--------------------------- MODULE MCBatchProcessor ---------------------------
(***************************************************************************)
(* BatchAccounting for TLC, with no client of its own: the caller of       *)
(* add_event is the owner.  No symmetry, for the runs check liveness.      *)
(***************************************************************************)
EXTENDS BatchAccounting
=============================================================================
