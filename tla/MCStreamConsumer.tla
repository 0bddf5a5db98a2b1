--------------------------- MODULE MCStreamConsumer ---------------------------
(***************************************************************************)
(* StreamConsumer for TLC.  There are no workers in these runs, so the     *)
(* resource check always passes; Pipeline exercises the two together.      *)
(***************************************************************************)
EXTENDS StreamConsumer

\* A configured suffix, and a group that starts at the beginning.
Keeping == {[stable_group |-> TRUE, offset_reset |-> "earliest"]}

AllDeployments ==
    [stable_group : BOOLEAN, offset_reset : {"earliest", "latest"}]

Symmetry == Permutations(Clients)
=============================================================================
