----------------------------- MODULE MessagePath -----------------------------
(***************************************************************************)
(* One message after the other on its way through a client: decompressed,  *)
(* decoded and parsed, checked for a duplicate, filtered (consumer.rs:     *)
(* 122-144, 174-262) and given to a processor (processors/).  What         *)
(* StreamConsumer knows as kinds of records is spelled out here; commits   *)
(* and concurrency are there.                                              *)
(***************************************************************************)
EXTENDS EventFilter

CONSTANTS
    Messages,        \* [topic, payload, block]: what Kafka may deliver
    ClientFilters,
    Processors,      \* [kind, min_amount_usd, target_programs]
    MaxMessages      \* bound: messages received

\* What Kafka may deliver: a payload as one of the encodings, and a block in
\* which a header, like every option, is there or not.
ASSUME MessageAssumption ==
    /\ MaxMessages \in Nat
    /\ \A m \in Messages :
          /\ m.topic \in {"transactions", "tokens", "dextrades", "other"}
          /\ m.payload.encoding \in {"none", "gzip", "lz4"}
          /\ m.payload.len \in Nat
          /\ \A slot1, slot2 \in m.block.header : slot1 = slot2
          /\ DOMAIN m.block.transactions \subseteq Nat

VARIABLES
    setup,       \* the client's filter and its processor
    message,     \* the message in hand, if any
    at,          \* what happens to it next
    bytes,       \* what decompress_safe made of its payload
    event,       \* the event in hand, if any
    seen,        \* seen_signatures_cache
    received,    \* history: how many messages
    returned,    \* history: the events that went to the processor
    handled      \* what the processor did with the last one

pathVars == <<setup, message, at, bytes, event, seen, received, returned, handled>>

PathInit ==
    /\ setup \in [filter : ClientFilters, processor : Processors]
    /\ message = {} /\ at = "recv" /\ bytes = "none" /\ event = {}
    /\ seen = {} /\ received = 0 /\ returned = {} /\ handled = "none"

ReceiveMessage(m) ==
    /\ at = "recv" /\ received < MaxMessages
    /\ received' = received + 1
    /\ message' = {m}
    /\ at' = "decompress"
    /\ handled' = "none"
    /\ UNCHANGED <<setup, bytes, event, seen, returned>>

DecompressPayload ==
    /\ at = "decompress"
    /\ at' = "parse"
    /\ \E m \in message : bytes' \in decompress_safe(m.payload)
    /\ UNCHANGED <<setup, message, event, seen, received, returned, handled>>

\* The message is done with; on an error the loop of the caller goes on.
NextMessage == /\ at' = "recv" /\ message' = {} /\ event' = {} /\ bytes' = "none"

\* Bytes that are not the content do not decode, or decode as any block.
Decoded(m) ==
    IF bytes = "content" THEN {m.block} ELSE {other.block : other \in Messages}

Undecodable ==
    /\ at = "parse" /\ bytes # "content"
    /\ \E m \in message : m.topic # "other"
    /\ NextMessage
    /\ UNCHANGED <<setup, seen, received, returned, handled>>

UnhandledTopic ==
    /\ at = "parse" /\ \E m \in message : m.topic = "other"
    /\ NextMessage
    /\ UNCHANGED <<setup, seen, received, returned, handled>>

\* Parsing yields an event or an error.
ParseMessage ==
    /\ at = "parse"
    /\ \E m \in message :
          /\ m.topic # "other"
          /\ \E block \in Decoded(m) :
                LET parsed == parse_message(m.topic, block) IN
                IF parsed = {} THEN NextMessage
                ELSE /\ event' = parsed
                     /\ at' = "dedup"
                     /\ UNCHANGED <<message, bytes>>
    /\ UNCHANGED <<setup, seen, received, returned, handled>>

\* Mutant: a signature is a duplicate only of an event of the same type.
CheckDuplicate_PerType ==
    /\ at = "dedup"
    /\ \E e \in event :
          IF <<e.event_type, e.signature>> \in seen
          THEN NextMessage /\ UNCHANGED seen
          ELSE /\ seen' = seen \cup {<<e.event_type, e.signature>>}
               /\ at' = "filter"
               /\ UNCHANGED <<message, bytes, event>>
    /\ UNCHANGED <<setup, received, returned, handled>>

\* The cache knows signatures, not what kind of event they came with.
CheckDuplicate ==
    /\ at = "dedup"
    /\ \E e \in event :
          IF e.signature \in seen
          THEN NextMessage /\ UNCHANGED seen
          ELSE /\ seen' = seen \cup {e.signature}
               /\ at' = "filter"
               /\ UNCHANGED <<message, bytes, event>>
    /\ UNCHANGED <<setup, received, returned, handled>>

FilterEvent ==
    /\ at = "filter"
    /\ \E e \in event :
          IF matches(setup.filter, e)
          THEN /\ returned' = returned \cup {e}
               /\ at' = "process"
               /\ UNCHANGED <<message, bytes, event>>
          ELSE NextMessage /\ UNCHANGED returned
    /\ UNCHANGED <<setup, seen, received, handled>>
-----------------------------------------------------------------------------
(* processors/dex_processor.rs and transaction_processor.rs.               *)

DexShouldProcess(processor, e) ==
    /\ e.event_type = "DexTrade"
    /\ processor.target_programs # {} =>
          program_id(e) \cap processor.target_programs # {}
    /\ processor.min_amount_usd > 0 =>
          \E amount \in amount_base(e), p \in price(e) :
             p > 0 /\ amount * p >= processor.min_amount_usd

TransactionShouldProcess(e) == e.event_type = "Transaction"

should_process(processor, e) ==
    IF processor.kind = "dex" THEN DexShouldProcess(processor, e)
    ELSE TransactionShouldProcess(e)

\* The program id process() compares with.
pumpfun == Base58("6EF8...hRvf")

\* Mutant: eighty characters are taken.
sliceable_Eighty(text) == text.chars >= 80

\* &text[..8]
sliceable(text) == text.chars >= 8

\* For trades elsewhere than on Pump.fun both the market address, or "N/A",
\* and the signature are cut to eight characters.
DexProcess(e) ==
    LET market_address == get_data_string_field(e, "market_address") IN
    IF /\ sliceable(e.signature)
       /\ \/ pumpfun \in program_id(e)
          \/ market_address # {} /\ \A text \in market_address : sliceable(text)
    THEN "ok" ELSE "panicked"

\* process() asks should_process() again, and the fee it logs is read as u64.
TransactionProcess(e) == "ok"

HandleEvent ==
    /\ at = "process"
    /\ \E e \in event :
          handled' = IF ~should_process(setup.processor, e) THEN "skipped"
                     ELSE IF setup.processor.kind = "dex" THEN DexProcess(e)
                     ELSE TransactionProcess(e)
    /\ NextMessage
    /\ UNCHANGED <<setup, seen, received, returned>>
-----------------------------------------------------------------------------
PathNext == \/ \E m \in Messages : ReceiveMessage(m)
            \/ DecompressPayload
            \/ Undecodable
            \/ UnhandledTopic
            \/ ParseMessage
            \/ CheckDuplicate
            \/ FilterEvent
            \/ HandleEvent

PathSpec == PathInit /\ [][PathNext]_pathVars
-----------------------------------------------------------------------------
\* What the parsers are given is the content, also when a gzip or plain payload
\* looks like LZ4 and has to fall through, unless foreign bytes happen to be
\* valid LZ4.  LZ4 outside the heuristic's bounds is handed on compressed
\* (compression.rs:54-94, 137-169).
ContentRecovered ==
    at = "parse" => \A m \in message :
        LET payload == m.payload IN
        /\ bytes = "garbage" =>
              payload.encoding # "lz4" /\ is_likely_lz4_compressed(payload)
        /\ bytes = "compressed" =>
              \/ payload.encoding = "lz4" /\ ~is_likely_lz4_compressed(payload)
              \/ payload.encoding = "gzip" /\ payload.len < 20

\* The topics carry the same transactions.  A signature is returned once,
\* whatever the topic: a client of two topics gets the transfer, the trade or
\* the transaction, whichever comes first, and never the others, not even when
\* its filter rejects the first (consumer.rs:236).
OneEventPerSignature ==
    \A e1, e2 \in returned : e1.signature = e2.signature => e1 = e2

\* Conditions that no event of the consumer meets: amounts are written as text
\* and read as numbers (consumer.rs:338, filters.rs:87), there is no price
\* (consumer.rs:394-405, dex_processor.rs:200), and program ids are spelled in
\* hex, those of DexProcessor in base58 (consumer.rs:357, dex_processor.rs:36);
\* a list of targets with a hex one among them may be met.
DeadConditions ==
    /\ setup.filter.min_amount # {} =>
          \A e \in returned : e.event_type # "TokenTransfer"
    /\ \/ setup.processor.min_amount_usd > 0
       \/ /\ setup.processor.target_programs # {}
          /\ \A text \in setup.processor.target_programs : text.form = "base58"
       => handled \notin {"ok", "panicked"} \/ setup.processor.kind # "dex"

\* The parser writes "unknown" for what a message lacks and the processor cuts
\* strings to eight characters: only a trade without a market, or a transaction
\* without a signature, makes it panic (consumer.rs:360-362, dex_processor.rs:152).
PanicsOnlyIfIncomplete ==
    [][handled' = "panicked" /\ bytes = "content" =>
          \E m \in message : \E i \in DOMAIN m.block.transactions :
             LET tx == m.block.transactions[i] IN
             \/ tx.signature = ""
             \/ tx.items # <<>> /\ "market" \notin tx.items[1].parts]_pathVars
=============================================================================
