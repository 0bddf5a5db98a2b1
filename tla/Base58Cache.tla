----------------------------- MODULE Base58Cache -----------------------------
(***************************************************************************)
(* core/utils/base58_cache.rs: one LRU cache of encodings and one of       *)
(* decodings, each behind a std::sync::Mutex.  encode and decode hold the  *)
(* lock to look a key up, release it, compute, and take it again to store  *)
(* the result: in between other threads look up and store.                 *)
(* Nothing panics under the lock, so it is never poisoned.                 *)
(***************************************************************************)
EXTENDS LruCache

CONSTANTS
    CodecThreads,
    Data,             \* byte strings
    NotBase58,        \* strings that are not base58
    cache_max_size    \* 0 stands for the default of 1000

ASSUME Base58Assumption == cache_max_size \in Nat

Operations == {"encode", "decode"}

\* bs58 (external).  An Ok is a sequence of one value, an Err the empty one.
Encoded(data) == <<"base58", data>>

Arguments(op) ==
    IF op = "encode" THEN Data ELSE {Encoded(d) : d \in Data} \cup NotBase58

Compute(op, arg) ==
    IF op = "encode" THEN <<Encoded(arg)>>
    ELSE IF arg \in NotBase58 THEN <<>> ELSE <<arg[2]>>

VARIABLES
    codec_cache,   \* encode_cache and decode_cache
    codec_call     \* of each thread: [op, arg, at, result]

base58Vars == <<codec_cache, codec_call>>

codec_capacity == IF cache_max_size = 0 THEN 1000 ELSE cache_max_size

NoCall == [at |-> "idle"]

Base58Init ==
    /\ codec_cache = [op \in Operations |-> <<>>]
    /\ codec_call = [t \in CodecThreads |-> NoCall]

CallCodec(t, op, arg) ==
    /\ codec_call[t].at = "idle"
    /\ codec_call' = [codec_call EXCEPT ![t] =
                         [op |-> op, arg |-> arg, at |-> "look_up"]]
    /\ UNCHANGED codec_cache

Finish(t, result) ==
    codec_call' = [codec_call EXCEPT ![t] =
                     [op |-> @.op, arg |-> @.arg, at |-> "done",
                      result |-> result]]

\* The first critical section.
LookUp(t) ==
    LET call == codec_call[t]
        cache == codec_cache[call.op]
        found == Entries(cache, call.arg)
    IN  /\ call.at = "look_up"
        /\ \/ /\ found = {}
              /\ codec_call' = [codec_call EXCEPT ![t].at = "compute"]
              /\ UNCHANGED codec_cache
           \/ \E i \in found :
              /\ Finish(t, <<cache[i].value>>)
              /\ codec_cache' = [codec_cache EXCEPT ![call.op] =
                                   UseEntry(@, call.arg, cache[i].value)]

\* Mutant: a failed decoding is cached as the string it was asked for.
ComputeAndPut_KeepsErr(t) ==
    LET call == codec_call[t]
        result == Compute(call.op, call.arg)
    IN  /\ call.at = "compute"
        /\ Finish(t, result)
        /\ codec_cache' = [codec_cache EXCEPT ![call.op] =
              PutEntry(@, codec_capacity, call.arg,
                       IF result = <<>> THEN call.arg ELSE result[1])]

\* The computation, and the second critical section: put may find the key,
\* stored by another thread in the meantime.  A failed decoding is not stored.
ComputeAndPut(t) ==
    LET call == codec_call[t]
        result == Compute(call.op, call.arg)
    IN  /\ call.at = "compute"
        /\ Finish(t, result)
        /\ codec_cache' = [codec_cache EXCEPT ![call.op] =
              IF result = <<>> THEN @
              ELSE PutEntry(@, codec_capacity, call.arg, result[1])]

ReturnFromCodec(t) ==
    /\ codec_call[t].at = "done"
    /\ codec_call' = [codec_call EXCEPT ![t] = NoCall]
    /\ UNCHANGED codec_cache

CodecStep(t) == LookUp(t) \/ ComputeAndPut(t)

Base58Next ==
    \E t \in CodecThreads :
       \/ \E op \in Operations : \E arg \in Arguments(op) : CallCodec(t, op, arg)
       \/ CodecStep(t)
       \/ ReturnFromCodec(t)

Base58Spec == Base58Init /\ [][Base58Next]_base58Vars
-----------------------------------------------------------------------------
\* A caller cannot tell the caches are there: with the look-up hidden, every
\* call answers what bs58 answers, errors included.
AsSeen(t) ==
    IF codec_call[t].at = "compute"
    THEN [codec_call[t] EXCEPT !.at = "look_up"] ELSE codec_call[t]

Codec == INSTANCE TransparentCodec
             WITH pending <- [t \in CodecThreads |-> AsSeen(t)]

Base58ImplementsCodec == Codec!CodecSpec
=============================================================================
