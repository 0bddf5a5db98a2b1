------------------------------ MODULE MCPipeline ------------------------------
(***************************************************************************)
(* Pipeline for TLC.                                                       *)
(***************************************************************************)
EXTENDS Pipeline

\* A configured suffix, and a group that starts at the beginning.
Keeping == {[stable_group |-> TRUE, offset_reset |-> "earliest"]}
=============================================================================
