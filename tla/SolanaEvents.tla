----------------------------- MODULE SolanaEvents -----------------------------
(***************************************************************************)
(* From the bytes of a Kafka message to a SolanaEvent, and what its        *)
(* accessors read from it: core/utils/compression.rs, the parse functions  *)
(* of consumer.rs and events.rs.                                           *)
(*                                                                         *)
(* A text is known by what it spells and how many chars it has.  An option *)
(* is a set of at most one value.                                          *)
(***************************************************************************)
EXTENDS Integers, Sequences

Hex(bytes) == [form |-> "hex", of |-> bytes,
               chars |-> IF bytes = "" THEN 0 ELSE 64]
Base58(bytes) == [form |-> "base58", of |-> bytes, chars |-> 44]
Literal(word, chars) == [form |-> "literal", of |-> word, chars |-> chars]

unknown == Literal("unknown", 7)

\* Values of the data field: text, text that spells a number, a number.
JsonText(text) == [json |-> "text", value |-> text]
JsonDigits(n) == [json |-> "digits", value |-> n]
JsonNumber(n) == [json |-> "number", value |-> n]
-----------------------------------------------------------------------------
(* compression.rs.  A payload has an encoding, which decides what the      *)
(* codecs (external) make of it, a length and a first little-endian word.  *)

\* Between 16 bytes and 100 MiB, at a ratio between 0.1 and 10.
is_likely_lz4_compressed(payload) ==
    /\ payload.len >= 16
    /\ payload.size_prefix > 0 /\ payload.size_prefix <= 100 * 1024 * 1024
    /\ payload.size_prefix <= 10 * (payload.len - 4)
    /\ 10 * payload.size_prefix >= payload.len - 4

is_likely_gzip_compressed(payload) ==
    payload.encoding = "gzip" /\ payload.len >= 20

\* Other bytes may happen to be valid LZ4 sequences.
decompress_lz4(payload) ==
    IF payload.encoding = "lz4" THEN {"content"} ELSE {"garbage", "error"}

decompress_gzip(payload) ==
    IF payload.encoding = "gzip" THEN {"content"} ELSE {"error"}

raw(payload) ==
    IF payload.encoding = "none" THEN "content" ELSE "compressed"

\* Mutant: what looks like LZ4 is not tried as anything else.
decompress_safe_NoFallThrough(payload) ==
    IF is_likely_lz4_compressed(payload)
    THEN {IF result = "error" THEN raw(payload) ELSE result :
             result \in decompress_lz4(payload)}
    ELSE IF is_likely_gzip_compressed(payload) THEN decompress_gzip(payload)
    ELSE {raw(payload)}

\* LZ4, then gzip, then the bytes as they are.
decompress_safe(payload) ==
    LET lz4 == IF is_likely_lz4_compressed(payload)
               THEN decompress_lz4(payload) ELSE {"error"}
        gzip == IF is_likely_gzip_compressed(payload)
                THEN decompress_gzip(payload) ELSE {"error"}
        orElse(results, others) ==
            (results \ {"error"}) \cup (IF "error" \in results THEN others ELSE {})
    IN  orElse(lz4, orElse(gzip, {raw(payload)}))
-----------------------------------------------------------------------------
(* consumer.rs.  A decoded block may have a header; each transaction has a *)
(* signature, a status, optional parts, and transfers or trades, of which  *)
(* each is the set of its optional parts that are there.                   *)

block_event(slot, tx) ==
    [event_type |-> "Transaction", slot |-> slot,
     signature |-> Hex(tx.signature),
     data |-> [signer |-> JsonText(IF "header" \in tx.parts
                                   THEN Hex("payer") ELSE unknown),
               fee |-> JsonDigits(IF "header" \in tx.parts THEN tx.fee ELSE 0),
               instructions_count |-> JsonNumber(1)]]

\* Mutant: the amount is written as a number.
token_event_Number(slot, tx) ==
    LET transfer == tx.items[1]
        has(part, bytes) ==
            JsonText(IF part \in transfer.parts THEN Hex(bytes) ELSE unknown)
    IN  [event_type |-> "TokenTransfer", slot |-> slot,
         signature |-> Hex(tx.signature),
         data |-> [from_account |-> has("sender", "from"),
                   mint |-> has("currency", "mint"),
                   amount |-> JsonNumber(transfer.amount)]]

token_event(slot, tx) ==
    LET transfer == tx.items[1]
        has(part, bytes) ==
            JsonText(IF part \in transfer.parts THEN Hex(bytes) ELSE unknown)
    IN  [event_type |-> "TokenTransfer", slot |-> slot,
         signature |-> Hex(tx.signature),
         data |-> [from_account |-> has("sender", "from"),
                   mint |-> has("currency", "mint"),
                   amount |-> JsonDigits(transfer.amount)]]

\* No price is among the fields.
dex_event(slot, tx) ==
    LET trade == tx.items[1]
        has(part, bytes) ==
            JsonText(IF part \in trade.parts THEN Hex(bytes) ELSE unknown)
    IN  [event_type |-> "DexTrade", slot |-> slot,
         signature |-> Hex(tx.signature),
         data |-> [program_id |-> has("dex", "program"),
                   market_address |-> has("market", "market"),
                   amount_base |-> JsonDigits(IF "sides" \in trade.parts
                                              THEN trade.amount ELSE 0)]]

\* One transaction represents the block: the first that fits.  Without a
\* header, or when none fits, parsing fails.
the_first(block, fitting) ==
    {block.transactions[i] : i \in {i \in fitting : \A j \in fitting : i <= j}}

successful(block) ==
    {i \in DOMAIN block.transactions : block.transactions[i].status = "success"}

with_items(block) ==
    {i \in DOMAIN block.transactions : block.transactions[i].items # <<>>}

parse_block_message_content(block) ==
    {block_event(slot, tx) : slot \in block.header,
                             tx \in the_first(block, successful(block))}

parse_token_message_content(block) ==
    {token_event(slot, tx) : slot \in block.header,
                             tx \in the_first(block, with_items(block))}

parse_dex_message_content(block) ==
    {dex_event(slot, tx) : slot \in block.header,
                           tx \in the_first(block, with_items(block))}

parse_message(topic, block) ==
    CASE topic = "transactions" -> parse_block_message_content(block)
      [] topic = "tokens" -> parse_token_message_content(block)
      [] topic = "dextrades" -> parse_dex_message_content(block)
-----------------------------------------------------------------------------
(* events.rs: the accessors of the data field.                             *)

get_data_string_field(event, name) ==
    {event.data[f].value : f \in
        {f \in DOMAIN event.data \cap {name} : event.data[f].json = "text"}}

get_data_u64_field(event, name) ==
    {event.data[f].value : f \in
        {f \in DOMAIN event.data \cap {name} : event.data[f].json = "number"}}

\* as_str() of text that spells a number, parsed.
parsed_f64_field(event, name) ==
    {event.data[f].value : f \in
        {f \in DOMAIN event.data \cap {name} : event.data[f].json = "digits"}}

\* "program" is looked at only when there is no "program_id".
program_id(event) ==
    get_data_string_field(event,
        IF "program_id" \in DOMAIN event.data THEN "program_id" ELSE "program")

amount_base(event) ==
    IF event.event_type = "DexTrade"
    THEN parsed_f64_field(event, "amount_base") ELSE {}

price(event) ==
    IF event.event_type = "DexTrade" THEN parsed_f64_field(event, "price") ELSE {}
=============================================================================
