------------------------------ MODULE EventOrder ------------------------------
(***************************************************************************)
(* What it means for numbered events to be in order, for the properties of *)
(* the components that queue them: the order of acceptance in              *)
(* BatchProcessor, the offsets of the log in StreamConsumer.               *)
(***************************************************************************)
EXTENDS Integers, SequencesExt

Ascending(s) == \A i, j \in DOMAIN s : i < j => s[i] < s[j]

AllBefore(S, T) == \A e \in S, f \in T : e < f
=============================================================================
