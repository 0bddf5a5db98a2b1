--------------------------- MODULE TransparentCodec ---------------------------
(***************************************************************************)
(* What Base58Cache promises: a codec.  A call is made, answered with what *)
(* the codec computes for its argument, and returns.                       *)
(***************************************************************************)
CONSTANTS
    CodecThreads,
    Operations,
    Arguments(_),     \* of an operation
    Compute(_, _)     \* the answer of an operation to an argument

VARIABLE pending   \* of each thread: its call

CodecInit == pending = [t \in CodecThreads |-> [at |-> "idle"]]

Ask(t, op, arg) ==
    /\ pending[t].at = "idle"
    /\ pending' = [pending EXCEPT ![t] =
                      [op |-> op, arg |-> arg, at |-> "look_up"]]

Answer(t) ==
    /\ pending[t].at = "look_up"
    /\ pending' = [pending EXCEPT ![t] =
                      [op |-> @.op, arg |-> @.arg, at |-> "done",
                       result |-> Compute(@.op, @.arg)]]

Return(t) ==
    /\ pending[t].at = "done"
    /\ pending' = [pending EXCEPT ![t] = [at |-> "idle"]]

CodecNext ==
    \E t \in CodecThreads :
       \/ \E op \in Operations : \E arg \in Arguments(op) : Ask(t, op, arg)
       \/ Answer(t)
       \/ Return(t)

CodecSpec == CodecInit /\ [][CodecNext]_pending
=============================================================================
