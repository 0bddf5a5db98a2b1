------------------------------- MODULE MCParts -------------------------------
(***************************************************************************)
(* For TLC, the parts that share no state with each other.  In a behaviour *)
(* one of them, the subject, runs and the others stay as they are, so the  *)
(* behaviours are those of each part by itself.                            *)
(***************************************************************************)
EXTENDS CircuitBreaker, MessageDeduplicator, Base58Cache, RetryStrategy,
        MessagePath

VARIABLE subject

partsVars ==
    <<subject, cbVars, dedupVars, base58Vars, retryVars, filter, pathVars>>

\* A choice made initially is made only for the part that runs.
ChosenFor(part, value, set) == subject = part \/ value = CHOOSE v \in set : TRUE

PartsInit ==
    /\ subject \in {"breaker", "deduplicator", "base58", "retry", "builder", "path"}
    /\ CBInit /\ DedupInit /\ Base58Init /\ RetryInit /\ FilterInit /\ PathInit
    /\ ChosenFor("retry", retry_config, RetryConfig)
    /\ ChosenFor("path", setup, [filter : ClientFilters, processor : Processors])

BreakerRuns(A) ==
    /\ subject = "breaker" /\ A
    /\ UNCHANGED <<subject, dedupVars, base58Vars, retryVars, filter, pathVars>>

DeduplicatorRuns ==
    /\ subject = "deduplicator" /\ DedupNext
    /\ UNCHANGED <<subject, cbVars, base58Vars, retryVars, filter, pathVars>>

Base58Runs ==
    /\ subject = "base58" /\ Base58Next
    /\ UNCHANGED <<subject, cbVars, dedupVars, retryVars, filter, pathVars>>

RetryRuns ==
    /\ subject = "retry" /\ RetryNext
    /\ UNCHANGED <<subject, cbVars, dedupVars, base58Vars, filter, pathVars>>

BuilderRuns ==
    /\ subject = "builder" /\ FilterNext
    /\ UNCHANGED <<subject, cbVars, dedupVars, base58Vars, retryVars, pathVars>>

PathRuns ==
    /\ subject = "path" /\ PathNext
    /\ UNCHANGED <<subject, cbVars, dedupVars, base58Vars, retryVars, filter>>

PartsNext ==
    \/ BreakerRuns(CBNext) \/ DeduplicatorRuns \/ Base58Runs
    \/ RetryRuns \/ BuilderRuns \/ PathRuns

\* The fairness of CBFairSpec, and that a retried operation and its sleeps end.
PartsSpec ==
    /\ PartsInit /\ [][PartsNext]_partsVars
    /\ WF_partsVars(BreakerRuns(TimeoutElapses))
    /\ \A c \in Callers : WF_partsVars(BreakerRuns(CallerStep(c)))
    /\ WF_partsVars(RetryRuns)
-----------------------------------------------------------------------------
(* Payloads on both sides of each bound of the heuristics.  A gzip header  *)
(* read as a size is 559903, or more when it has flags.                    *)

Payload(encoding, len, size_prefix) ==
    [encoding |-> encoding, len |-> len, size_prefix |-> size_prefix]

Plain == Payload("none", 200, 600000)

Payloads ==
    {Plain, Payload("none", 0, 0), Payload("none", 70000, 600000),
     Payload("gzip", 12, 559903), Payload("gzip", 200, 559903),
     Payload("gzip", 60000, 559903), Payload("gzip", 60000, 134777631),
     Payload("lz4", 12, 20), Payload("lz4", 16, 120), Payload("lz4", 16, 121),
     Payload("lz4", 24, 2), Payload("lz4", 24, 1)}

Transaction(signature, status, items) ==
    [signature |-> signature, status |-> status, parts |-> {"header"},
     fee |-> 5, items |-> items]

Item(parts) == [parts |-> parts, amount |-> 7]

Full == Item({"sender", "currency", "dex", "market", "sides"})

Block(transactions) == [header |-> {1}, transactions |-> transactions]

FullBlock == Block(<<Transaction("s1", "success", <<Full>>)>>)

MCMessages ==
    [topic : {"transactions", "tokens", "dextrades", "other"}, payload : {Plain},
     block : {FullBlock,
              Block(<<Transaction("s1", "failed", <<>>),
                      Transaction("s2", "success", <<Full>>)>>),
              Block(<<Transaction("s2", "none", <<Item({"dex"})>>)>>),
              Block(<<Transaction("", "success", <<Full>>)>>),
              [header |-> {}, transactions |-> <<>>]}]
    \cup [topic : {"dextrades"}, payload : Payloads, block : {FullBlock}]

MCClientFilters ==
    {NoFilter, [NoFilter EXCEPT !.min_amount = {1}],
     [NoFilter EXCEPT !.event_types = {{"DexTrade"}}]}

Dex(min_amount_usd, target_programs) ==
    [kind |-> "dex", min_amount_usd |-> min_amount_usd,
     target_programs |-> target_programs]

MCProcessors ==
    {Dex(1000, {pumpfun}), Dex(1, {}), Dex(0, {}), Dex(0, {pumpfun}),
     Dex(0, {Hex("program")}),
     Dex(0, {pumpfun, Hex("program")}), [Dex(0, {}) EXCEPT !.kind = "transaction"]}

\* What the consumer makes, and an event an application makes.
MCEvents ==
    UNION {parse_message(m.topic, m.block) :
              m \in {m \in MCMessages : m.topic # "other"}}
    \cup {[event_type |-> "BalanceUpdate", slot |-> 2, signature |-> Hex("s1"),
           data |-> [program |-> JsonText(Hex("program"))]]}

MCTypeLists == {{}, {"DexTrade"}, {"Transaction", "TokenTransfer"}}
MCProgramLists == {{}, {Hex("program")}}
MCSignatureLists == {{}, {Hex("s1")}}
MCCustomFilters == {{Hex("s2")}}
=============================================================================
