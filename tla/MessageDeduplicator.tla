------------------------- MODULE MessageDeduplicator -------------------------
(***************************************************************************)
(* core/utils/deduplicator.rs: should_process over an LRU cache of the     *)
(* times signatures were last seen.  The whole method runs under a         *)
(* std::sync::Mutex, so a call is one step.                                *)
(***************************************************************************)
EXTENDS LruCache

CONSTANTS
    Sigs,
    max_size,     \* 0 stands for the default of 10000
    time_window,
    MaxTime,      \* bound: the clock
    MaxCalls      \* bound: calls of should_process

ASSUME DedupAssumption ==
    /\ max_size \in Nat /\ time_window \in Nat
    /\ MaxTime \in Nat /\ MaxCalls \in Nat

VARIABLES
    cache,   \* signature to the time it was last seen
    now,     \* Instant::now()
    calls    \* history: [sig, at, processed] of every call

dedupVars == <<cache, now, calls>>

capacity == IF max_size = 0 THEN 10000 ELSE max_size

DedupInit == cache = <<>> /\ now = 0 /\ calls = <<>>

Tick ==
    /\ now < MaxTime
    /\ now' = now + 1
    /\ UNCHANGED <<cache, calls>>

SeenWithinWindow(sig) ==
    \E i \in Entries(cache, sig) : now - cache[i].value < time_window

\* Mutant: a duplicate leaves its entry as it was.
ShouldProcess_NoRefresh(sig) ==
    /\ Len(calls) < MaxCalls
    /\ cache' = IF SeenWithinWindow(sig) THEN cache
                ELSE PutEntry(cache, capacity, sig, now)
    /\ calls' = Append(calls, [sig |-> sig, at |-> now,
                               processed |-> ~SeenWithinWindow(sig)])
    /\ UNCHANGED now

\* A duplicate has its time refreshed; anything else is put in the cache.
ShouldProcess(sig) ==
    /\ Len(calls) < MaxCalls
    /\ cache' = IF SeenWithinWindow(sig) THEN UseEntry(cache, sig, now)
                ELSE PutEntry(cache, capacity, sig, now)
    /\ calls' = Append(calls, [sig |-> sig, at |-> now,
                               processed |-> ~SeenWithinWindow(sig)])
    /\ UNCHANGED now

DedupNext == Tick \/ \E sig \in Sigs : ShouldProcess(sig)

DedupSpec == DedupInit /\ [][DedupNext]_dedupVars
-----------------------------------------------------------------------------
\* The call before n with the same signature, if any.
LastCall(n) == {i \in 1..(n - 1) :
                   /\ calls[i].sig = calls[n].sig
                   /\ \A j \in (i + 1)..(n - 1) : calls[j].sig # calls[n].sig}

\* What a caller may rely on, said without the cache: a call is refused
\* exactly when the signature was last offered less than time_window ago and
\* fewer than max_size other signatures were offered since.
RefusedIffRecent ==
    \A n \in DOMAIN calls :
        ~calls[n].processed <=>
            \E i \in LastCall(n) :
                /\ calls[n].at - calls[i].at < time_window
                /\ Cardinality({calls[j].sig : j \in (i + 1)..(n - 1)})
                      < capacity
=============================================================================
