----------------------------- MODULE PartsProofs -----------------------------
(***************************************************************************)
(* Proofs about the parts that share no state with each other, one section *)
(* for each.  For any number of callers and any threshold the breaker      *)
(* keeps its types and its mutex has one holder; for every configuration   *)
(* the number of attempts is exact and the waits are bounded; for all      *)
(* messages, filters and processors the path of a message recovers its     *)
(* content and returns one event per signature; a condition added to a     *)
(* filter passes fewer events; the Base58 caches implement a codec without *)
(* any; and for every window and size of its cache the deduplicator        *)
(* refuses what was offered recently and nothing else.                     *)
(***************************************************************************)
EXTENDS CircuitBreaker, RetryStrategy, MessagePath, Base58Cache,
        MessageDeduplicator, SequenceTheorems, FiniteSetTheorems, TLAPS

-----------------------------------------------------------------------------
(* CircuitBreaker.                                                         *)

Labels == {"out", "check", "reset", "reset_count", "call", "succeeded",
           "success_count", "success_time", "failed", "refresh", "add",
           "swap", "stamp"}

Resetting == {c \in Callers : pc[c] \in {"reset", "reset_count"}}

Types ==
    /\ failure_count \in 0..threshold
    /\ is_open \in BOOLEAN
    /\ opened_at \in {"None", "recent", "elapsed"}
    /\ pc \in [Callers -> Labels]

\* The cardinality is replaced by what an induction can use.
MutexInv ==
    /\ Types
    /\ holder = Resetting
    /\ \A c, d \in holder : c = d

\* A set without two different members has at most one.
LEMMA AtMostOne ==
    ASSUME NEW S, \A c, d \in S : c = d
    PROVE  Cardinality(S) <= 1
<1>1. CASE S = {}
  BY <1>1, FS_EmptySet
<1>2. CASE S # {}
  <2>1. PICK c \in S : TRUE
    BY <1>2
  <2>2. S = {c}
    BY <2>1
  <2>3. Cardinality(S) = 1
    BY <2>2, FS_Singleton, Zenon
  <2> QED  BY <2>3
<1> QED  BY <1>1, <1>2

LEMMA MutexInvImplies == MutexInv => CBTypeOK
<1> SUFFICES ASSUME MutexInv PROVE CBTypeOK
  OBVIOUS
<1>1. Cardinality(holder) <= 1
  BY AtMostOne DEF MutexInv
<1> QED  BY <1>1 DEF MutexInv, Types, Labels, Resetting, CBTypeOK

\* A step of c between two labels that do not hold the mutex leaves it alone.
LEMMA OutsideStep ==
    ASSUME MutexInv, NEW c \in Callers, NEW next \in Labels,
           pc[c] \notin {"reset", "reset_count"},
           next \notin {"reset", "reset_count"},
           pc' = [pc EXCEPT ![c] = next], holder' = holder
    PROVE  /\ pc' \in [Callers -> Labels]
           /\ (holder = Resetting)'
           /\ \A d, e \in holder' : d = e
  BY DEF MutexInv, Types, Resetting

LEMMA CallerStepKeeps ==
    ASSUME MutexInv, NEW c \in Callers, CallerStep(c)
    PROVE  MutexInv'
<1> USE DEF Goto, Locked
<1>1. CASE IsOpen(c)
  BY <1>1, OutsideStep DEF IsOpen, Labels, MutexInv, Types
<1>2. CASE CheckTime(c)
  <2>1. CASE opened_at = "recent"
    BY <1>2, <2>1, OutsideStep DEF CheckTime, Labels, MutexInv, Types
  <2>2. CASE opened_at # "recent"
    <3>1. /\ holder = {} /\ holder' = {c}
          /\ pc[c] = "check" /\ pc' = [pc EXCEPT ![c] = "reset"]
          /\ UNCHANGED <<failure_count, is_open, opened_at>>
      BY <1>2, <2>2 DEF CheckTime, MutexInv, Types
    <3> QED  BY <3>1 DEF MutexInv, Types, Labels, Resetting
  <2> QED  BY <2>1, <2>2
<1>3. CASE ResetOpen(c)
  BY <1>3 DEF ResetOpen, MutexInv, Types, Labels, Resetting
<1>4. CASE ResetCount(c)
  <2>1. c \in holder
    BY <1>4 DEF ResetCount, MutexInv, Resetting
  <2>2. holder = {c}
    BY <2>1 DEF MutexInv
  <2> QED  BY <1>4, <2>2, BreakerAssumption
             DEF ResetCount, MutexInv, Types, Labels, Resetting
<1>5. CASE OperationEnds(c)
  BY <1>5, OutsideStep DEF OperationEnds, Labels, MutexInv, Types
<1>6. CASE SuccessCloses(c)
  BY <1>6, OutsideStep DEF SuccessCloses, Labels, MutexInv, Types
<1>7. CASE SuccessCount(c)
  <2>1. failure_count' \in 0..threshold
    BY <1>7, BreakerAssumption DEF SuccessCount
  <2> QED  BY <1>7, <2>1, OutsideStep DEF SuccessCount, Labels, MutexInv, Types
<1>8. CASE SuccessTime(c)
  BY <1>8, OutsideStep DEF SuccessTime, Labels, MutexInv, Types
<1>9. CASE FailureLoad(c)
  BY <1>9, OutsideStep DEF FailureLoad, Labels, MutexInv, Types
<1>10. CASE FailureRefresh(c)
  BY <1>10, OutsideStep DEF FailureRefresh, Labels, MutexInv, Types
<1>11. CASE FailureAdd(c)
  <2>1. failure_count' \in 0..threshold
    BY <1>11, BreakerAssumption DEF FailureAdd, Increment, MutexInv, Types
  <2> QED  BY <1>11, <2>1, OutsideStep DEF FailureAdd, Labels, MutexInv, Types
<1>12. CASE FailureSwap(c)
  BY <1>12, OutsideStep DEF FailureSwap, Labels, MutexInv, Types
<1>13. CASE FailureStamp(c)
  BY <1>13, OutsideStep DEF FailureStamp, Labels, MutexInv, Types
<1> QED  BY <1>1, <1>2, <1>3, <1>4, <1>5, <1>6, <1>7, <1>8, <1>9, <1>10,
            <1>11, <1>12, <1>13 DEF CallerStep

\* Any number of callers, however their accesses interleave, leave the counts
\* and times in their ranges, and no two of them are between the first and the
\* last store of a reset (circuit_breaker.rs:96-120).
THEOREM CBTypeOKAlways == CBSpec => []CBTypeOK
<1>1. CBInit => MutexInv
  <2> SUFFICES ASSUME CBInit PROVE MutexInv
    OBVIOUS
  <2>1. Resetting = {}
    BY DEF CBInit, Resetting
  <2>2. Types
    <3>1. pc \in [Callers -> Labels]
      BY DEF CBInit, Labels
    <3>2. failure_count \in 0..threshold
      BY BreakerAssumption DEF CBInit
    <3> QED  BY <3>1, <3>2 DEF CBInit, Types
  <2>3. holder = {}
    BY DEF CBInit
  <2> QED  BY <2>1, <2>2, <2>3 DEF MutexInv
<1>2. MutexInv /\ [CBNext]_cbVars => MutexInv'
  <2> SUFFICES ASSUME MutexInv, [CBNext]_cbVars PROVE MutexInv'
    OBVIOUS
  <2>1. CASE TimeoutElapses
    BY <2>1 DEF TimeoutElapses, MutexInv, Types, Resetting
  <2>2. ASSUME NEW c \in Callers, CallerStep(c) PROVE MutexInv'
    BY <2>2, CallerStepKeeps
  <2>3. CASE UNCHANGED cbVars
    BY <2>3 DEF cbVars, MutexInv, Types, Resetting
  <2> QED  BY <2>1, <2>2, <2>3 DEF CBNext
<1> QED  BY <1>1, <1>2, MutexInvImplies, PTL DEF CBSpec
-----------------------------------------------------------------------------
(* RetryStrategy.                                                          *)

RetryTypeOK ==
    /\ retry_config \in RetryConfig
    /\ retry_at \in {"call", "sleep", "ok", "exhausted"}
    /\ attempts \in Nat
    /\ current_delay \in Nat
    /\ slept \in Nat \cup {-1}

\* RetriesExact is inductive only with the attempts that led to a call: before
\* one, a retry is left.
AttemptsInv ==
    /\ RetryTypeOK
    /\ RetriesExact
    /\ retry_at = "call" => attempts <= retry_config.max_retries

\* What NextDelay yields is a delay again (retry.rs:115-128): a percentage of
\* one, which Nat multipliers keep in Nat.
LEMMA NextDelayNat ==
    ASSUME RetryTypeOK, NEW next \in NextDelay(current_delay)
    PROVE  next \in Nat /\ next <= retry_config.max_delay
<1> DEFINE product == current_delay * retry_config.multiplier
           grown == Cap(product \div 100)
<1>1. retry_config.max_delay \in Nat /\ retry_config.multiplier \in Nat
  BY RetryAssumption DEF RetryTypeOK, RetryConfig
<1>2. product \in Nat
  BY <1>1, SMT DEF RetryTypeOK
<1>3. grown \in Nat
  <2> HIDE DEF product
  <2> QED  BY <1>1, <1>2 DEF Cap
<1>4. PICK jitter \in 0..(grown \div 10) : next = Cap(grown + jitter)
  BY DEF NextDelay
<1>5. jitter \in Nat /\ grown + jitter \in Nat
  <2> HIDE DEF grown
  <2> QED  BY <1>3, <1>4
<1> HIDE DEF grown
<1> QED  BY <1>1, <1>4, <1>5 DEF Cap

\* With a multiplier of at least 100 percent no delay is below the one before,
\* as long as that one is capped (retry.rs:115-128).
LEMMA NextDelayGrows ==
    ASSUME RetryTypeOK, BackoffConfig, current_delay <= retry_config.max_delay,
           NEW next \in NextDelay(current_delay)
    PROVE  next >= current_delay
<1> DEFINE product == current_delay * retry_config.multiplier
           grown == Cap(product \div 100)
<1>1. retry_config.max_delay \in Nat /\ retry_config.multiplier \in Nat
  BY RetryAssumption DEF RetryTypeOK, RetryConfig
<1>2. product \in Nat /\ product >= current_delay * 100
  BY <1>1, SMT DEF RetryTypeOK, BackoffConfig
<1>3. grown \in Nat /\ grown >= current_delay
  <2> HIDE DEF product
  <2> QED  BY <1>1, <1>2 DEF Cap, RetryTypeOK
<1>4. PICK jitter \in 0..(grown \div 10) : next = Cap(grown + jitter)
  BY DEF NextDelay
<1>5. jitter \in Nat /\ grown + jitter >= grown
  <2> HIDE DEF grown
  <2> QED  BY <1>3, <1>4
<1> HIDE DEF grown
<1> QED  BY <1>1, <1>3, <1>4, <1>5 DEF Cap, RetryTypeOK
-----------------------------------------------------------------------------
LEMMA RetryInitTypes == RetryInit => RetryTypeOK
  BY RetryAssumption DEF RetryInit, RetryTypeOK, RetryConfig

LEMMA RetryStepTypes ==
    ASSUME RetryTypeOK, [RetryNext]_retryVars
    PROVE  RetryTypeOK'
<1>1. CASE OperationSucceeds
  BY <1>1 DEF OperationSucceeds, RetryTypeOK
<1>2. CASE OperationFails
  BY <1>2 DEF OperationFails, RetryTypeOK
<1>3. CASE SleepEnds
  BY <1>3, NextDelayNat DEF SleepEnds, RetryTypeOK
<1>4. CASE UNCHANGED retryVars
  BY <1>4 DEF retryVars, RetryTypeOK
<1> QED  BY <1>1, <1>2, <1>3, <1>4 DEF RetryNext

LEMMA AttemptsInvStep ==
    ASSUME AttemptsInv, [RetryNext]_retryVars
    PROVE  AttemptsInv'
<1>1. RetryTypeOK'
  BY RetryStepTypes DEF AttemptsInv
<1>2. retry_config.max_retries \in Nat
  BY RetryAssumption DEF AttemptsInv, RetryTypeOK, RetryConfig
<1>3. CASE OperationSucceeds
  BY <1>1, <1>2, <1>3 DEF OperationSucceeds, AttemptsInv, RetriesExact, RetryTypeOK
<1>4. CASE OperationFails
  BY <1>1, <1>2, <1>4 DEF OperationFails, AttemptsInv, RetriesExact, RetryTypeOK
<1>5. CASE SleepEnds
  BY <1>1, <1>2, <1>5 DEF SleepEnds, AttemptsInv, RetriesExact
<1>6. CASE UNCHANGED retryVars
  BY <1>1, <1>6 DEF retryVars, AttemptsInv, RetriesExact
<1> QED  BY <1>3, <1>4, <1>5, <1>6 DEF RetryNext

\* Whatever the configuration and the operation do, retry() calls the operation
\* at most max_retries + 1 times, and gives up only after exactly that many
\* (retry.rs:83-105).
THEOREM RetriesExactAlways == RetrySpec => []RetriesExact
<1>1. RetryInit => AttemptsInv
  <2> SUFFICES ASSUME RetryInit PROVE AttemptsInv
    OBVIOUS
  <2>1. retry_config.max_retries \in Nat
    BY RetryAssumption DEF RetryInit, RetryConfig
  <2> QED  BY <2>1, RetryInitTypes DEF RetryInit, AttemptsInv, RetriesExact
<1>2. AttemptsInv /\ [RetryNext]_retryVars => AttemptsInv'
  BY AttemptsInvStep
<1>3. AttemptsInv => RetriesExact
  BY DEF AttemptsInv
<1> QED  BY <1>1, <1>2, <1>3, PTL DEF RetrySpec
-----------------------------------------------------------------------------
\* The delay that is due is capped, unless it is the initial one of a
\* configuration nobody validated, and is no shorter than the last wait.
WaitInv ==
    /\ RetryTypeOK
    /\ slept >= 0 \/ BackoffConfig => current_delay <= retry_config.max_delay
    /\ BackoffConfig => current_delay >= slept

LEMMA WaitInvStep ==
    ASSUME WaitInv, [RetryNext]_retryVars
    PROVE  WaitInv'
<1>1. RetryTypeOK'
  BY RetryStepTypes DEF WaitInv
<1>2. CASE OperationSucceeds
  BY <1>1, <1>2 DEF OperationSucceeds, WaitInv, BackoffConfig
<1>3. CASE OperationFails
  BY <1>1, <1>3 DEF OperationFails, WaitInv, BackoffConfig
<1>4. CASE SleepEnds
  <2>1. /\ retry_config' = retry_config
        /\ slept' = current_delay
        /\ current_delay' \in NextDelay(current_delay)
    BY <1>4 DEF SleepEnds
  <2>2. current_delay' <= retry_config.max_delay
    BY <2>1, NextDelayNat DEF WaitInv
  <2>3. BackoffConfig => current_delay' >= current_delay
    BY <2>1, NextDelayGrows DEF WaitInv
  <2> QED  BY <1>1, <2>1, <2>2, <2>3 DEF WaitInv, BackoffConfig
<1>5. CASE UNCHANGED retryVars
  BY <1>1, <1>5 DEF retryVars, WaitInv, BackoffConfig
<1> QED  BY <1>2, <1>3, <1>4, <1>5 DEF RetryNext

\* With a configuration as validate() wants it, no wait is shorter than the one
\* before and none exceeds max_delay; with any other, only the first one may
\* (retry.rs:80, 115-128).
THEOREM BackoffGrowsAlways == RetrySpec => BackoffGrows
<1>1. RetryInit => WaitInv
  <2> SUFFICES ASSUME RetryInit PROVE WaitInv
    OBVIOUS
  <2>1. RetryTypeOK
    BY RetryInitTypes
  <2> QED  BY <2>1 DEF RetryInit, WaitInv, BackoffConfig, RetryTypeOK
<1>2. WaitInv /\ [RetryNext]_retryVars => WaitInv'
  BY WaitInvStep
<1>3. WaitInv /\ [RetryNext]_retryVars =>
        [slept' # slept =>
            /\ slept >= 0 \/ BackoffConfig => slept' <= retry_config.max_delay
            /\ BackoffConfig => slept' >= slept]_retryVars
  BY DEF WaitInv, RetryNext, OperationSucceeds, OperationFails, SleepEnds,
         retryVars
<1> QED  BY <1>1, <1>2, <1>3, PTL DEF RetrySpec, BackoffGrows

-----------------------------------------------------------------------------
(* MessagePath: what parsing makes of a block.                             *)

\* At most one transaction represents a block.
LEMMA TheFirst ==
    ASSUME NEW m \in Messages,
           NEW fitting \in SUBSET DOMAIN m.block.transactions
    PROVE  \A tx1, tx2 \in the_first(m.block, fitting) : tx1 = tx2
<1>1. DOMAIN m.block.transactions \subseteq Nat
    BY MessageAssumption
<1> QED
    BY <1>1 DEF the_first

\* A block has one slot at most, and so makes one event at most.
LEMMA OneEventParsed ==
    ASSUME NEW m \in Messages, NEW topic \in {"transactions", "tokens", "dextrades"}
    PROVE  \A e1, e2 \in parse_message(topic, m.block) : e1 = e2
<1>1. \A slot1, slot2 \in m.block.header : slot1 = slot2
    BY MessageAssumption
<1>2. CASE topic = "transactions"
    <2>1. \A tx1, tx2 \in the_first(m.block, successful(m.block)) :
             tx1 = tx2
        BY TheFirst DEF successful, with_items
    <2>2. parse_message(topic, m.block) = parse_block_message_content(m.block)
        BY <1>2 DEF parse_message
    <2> QED
        BY <1>1, <2>1, <2>2 DEF parse_block_message_content
<1>3. CASE topic = "tokens"
    <2>1. \A tx1, tx2 \in the_first(m.block, with_items(m.block)) :
             tx1 = tx2
        BY TheFirst DEF successful, with_items
    <2>2. parse_message(topic, m.block) = parse_token_message_content(m.block)
        BY <1>3 DEF parse_message
    <2> QED
        BY <1>1, <2>1, <2>2 DEF parse_token_message_content
<1>4. CASE topic = "dextrades"
    <2>1. \A tx1, tx2 \in the_first(m.block, with_items(m.block)) :
             tx1 = tx2
        BY TheFirst DEF successful, with_items
    <2>2. parse_message(topic, m.block) = parse_dex_message_content(m.block)
        BY <1>4 DEF parse_message
    <2> QED
        BY <1>1, <2>1, <2>2 DEF parse_dex_message_content
<1> QED
    BY <1>2, <1>3, <1>4

\* Which function made an event can be told from its type.
LEMMA ParsedBy ==
    ASSUME NEW m \in Messages, NEW topic \in {"transactions", "tokens", "dextrades"},
           NEW e \in parse_message(topic, m.block)
    PROVE  /\ e.event_type \in {"Transaction", "TokenTransfer", "DexTrade"}
           /\ e.event_type = "TokenTransfer" => e \in parse_token_message_content(m.block)
           /\ e.event_type = "DexTrade" => e \in parse_dex_message_content(m.block)
<1>1. CASE topic = "transactions"
    <2>1. parse_message(topic, m.block) = parse_block_message_content(m.block)
        BY <1>1 DEF parse_message
    <2>2. PICK slot \in m.block.header,
               tx \in the_first(m.block, successful(m.block)) :
                  e = block_event(slot, tx)
        BY <2>1 DEF parse_block_message_content
    <2>3. e.event_type = "Transaction"
        BY <2>2 DEF block_event
    <2> QED
        BY <2>3
<1>2. CASE topic = "tokens"
    <2>1. parse_message(topic, m.block) = parse_token_message_content(m.block)
        BY <1>2 DEF parse_message
    <2>2. PICK slot \in m.block.header,
               tx \in the_first(m.block, with_items(m.block)) :
                  e = token_event(slot, tx)
        BY <2>1 DEF parse_token_message_content
    <2>3. e.event_type = "TokenTransfer"
        BY <2>2 DEF token_event
    <2> QED
        BY <2>1, <2>3
<1>3. CASE topic = "dextrades"
    <2>1. parse_message(topic, m.block) = parse_dex_message_content(m.block)
        BY <1>3 DEF parse_message
    <2>2. PICK slot \in m.block.header,
               tx \in the_first(m.block, with_items(m.block)) :
                  e = dex_event(slot, tx)
        BY <2>1 DEF parse_dex_message_content
    <2>3. e.event_type = "DexTrade"
        BY <2>2 DEF dex_event
    <2> QED
        BY <2>1, <2>3
<1> QED
    BY <1>1, <1>2, <1>3

\* What the trade processor can read from an event that was parsed: never a
\* price, never a program spelled in base58, and strings long enough to be cut
\* unless the market or the signature is missing.
LEMMA TradeParsed ==
    ASSUME NEW m \in Messages, NEW topic \in {"transactions", "tokens", "dextrades"},
           NEW e \in parse_message(topic, m.block), e.event_type = "DexTrade"
    PROVE  /\ price(e) = {}
           /\ \A text \in program_id(e) : text.form # "base58"
           /\ DexProcess(e) = "panicked" =>
                 \E i \in DOMAIN m.block.transactions :
                    LET tx == m.block.transactions[i] IN
                    \/ tx.signature = ""
                    \/ tx.items # <<>> /\ "market" \notin tx.items[1].parts
<1>1. e \in parse_dex_message_content(m.block)
    BY ParsedBy
<1>2. PICK slot \in m.block.header,
           tx \in the_first(m.block, with_items(m.block)) :
              e = dex_event(slot, tx)
    BY <1>1 DEF parse_dex_message_content
<1>3. PICK i \in DOMAIN m.block.transactions :
             tx = m.block.transactions[i] /\ tx.items # <<>>
    BY <1>2 DEF the_first, with_items
<1> DEFINE trade == tx.items[1]
           program == IF "dex" \in trade.parts THEN Hex("program") ELSE unknown
           market == IF "market" \in trade.parts THEN Hex("market") ELSE unknown
           amount == IF "sides" \in trade.parts THEN trade.amount ELSE 0
           data == [program_id |-> JsonText(program),
                    market_address |-> JsonText(market),
                    amount_base |-> JsonDigits(amount)]
<1>4. e = [event_type |-> "DexTrade", slot |-> slot,
           signature |-> Hex(tx.signature), data |-> data]
    BY <1>2 DEF dex_event
<1>5. /\ e.event_type = "DexTrade" /\ e.signature = Hex(tx.signature)
      /\ DOMAIN e.data = {"program_id", "market_address", "amount_base"}
      /\ e.data["program_id"] = JsonText(program)
      /\ e.data["market_address"] = JsonText(market)
    BY <1>4
<1> HIDE DEF data, amount
<1>6. price(e) = {}
    BY <1>5 DEF price, parsed_f64_field
<1>7. program_id(e) = {program}
    <2>1. program_id(e) = get_data_string_field(e, "program_id")
        BY <1>5 DEF program_id
    <2> QED
        BY <1>5, <2>1 DEF get_data_string_field, JsonText
<1>8. get_data_string_field(e, "market_address") = {market}
    BY <1>5 DEF get_data_string_field, JsonText
<1>9. program.form # "base58"
    BY DEF Hex, unknown, Literal
<1>10. ASSUME DexProcess(e) = "panicked"
       PROVE  tx.signature = "" \/ "market" \notin trade.parts
    <2>1. ~sliceable(e.signature) \/ ~sliceable(market)
        BY <1>8, <1>10 DEF DexProcess
    <2>2. ~sliceable(e.signature) => tx.signature = ""
        <3>1. e.signature = Hex(tx.signature)
            BY <1>5
        <3>2. ASSUME tx.signature # ""
              PROVE  Hex(tx.signature).chars = 64
            BY <3>2 DEF Hex
        <3>3. \A text : text.chars = 64 => sliceable(text)
            BY DEF sliceable
        <3> QED
            BY <3>1, <3>2, <3>3
    <2>3. ~sliceable(market) => "market" \notin trade.parts
        BY DEF sliceable, Hex
    <2> QED
        BY <2>1, <2>2, <2>3
<1> QED
    BY <1>3, <1>6, <1>7, <1>9, <1>10

\* An amount of tokens is written as text that spells a number, and is not read.
LEMMA TransferParsed ==
    ASSUME NEW m \in Messages, NEW topic \in {"transactions", "tokens", "dextrades"},
           NEW e \in parse_message(topic, m.block), e.event_type = "TokenTransfer"
    PROVE  event_value(e) = {}
<1>1. e \in parse_token_message_content(m.block)
    BY ParsedBy
<1>2. PICK slot \in m.block.header,
           tx \in the_first(m.block, with_items(m.block)) :
              e = token_event(slot, tx)
    BY <1>1 DEF parse_token_message_content
<1>3. e.data["amount"] = JsonDigits(tx.items[1].amount) /\ "amount" \in DOMAIN e.data
    BY <1>2 DEF token_event
<1>4. get_data_u64_field(e, "amount") = {}
    BY <1>3 DEF get_data_u64_field, JsonDigits
<1> QED
    BY <1>4 DEF event_value

\* What decompress_safe yields that is not the content.
LEMMA Decompressed ==
    ASSUME NEW m \in Messages, NEW result \in decompress_safe(m.payload)
    PROVE  /\ result = "garbage" =>
                 m.payload.encoding # "lz4" /\ is_likely_lz4_compressed(m.payload)
           /\ result = "compressed" =>
                 \/ m.payload.encoding = "lz4" /\ ~is_likely_lz4_compressed(m.payload)
                 \/ m.payload.encoding = "gzip" /\ m.payload.len < 20
<1>1. m.payload.encoding \in {"none", "gzip", "lz4"} /\ m.payload.len \in Nat
    BY MessageAssumption
<1>2. m.payload.len >= 20 \/ m.payload.len < 20
    BY <1>1
<1> QED
    BY <1>1, <1>2 DEF decompress_safe, decompress_lz4, decompress_gzip, raw,
                      is_likely_gzip_compressed

-----------------------------------------------------------------------------
(* MessagePath: the message and the event in hand.                         *)

Topics == {"transactions", "tokens", "dextrades"}

\* The event in hand was parsed from what became of the message in hand.
ParsedFrom(m, block) ==
    /\ m \in message /\ m.topic # "other"
    /\ event \subseteq parse_message(m.topic, block)

HandInv ==
    /\ message \subseteq Messages
    /\ \A m1, m2 \in message : m1 = m2
    /\ at = "parse" => \A m \in message : bytes \in decompress_safe(m.payload)
    /\ at \in {"dedup", "filter", "process"} =>
          \E m, other \in Messages :
             ParsedFrom(m, other.block) /\ (bytes = "content" => other = m)

LEMMA HandStep ==
    ASSUME HandInv, [PathNext]_pathVars
    PROVE  HandInv'
<1>1. CASE \E m \in Messages : ReceiveMessage(m)
    BY <1>1 DEF ReceiveMessage, HandInv
<1>2. CASE DecompressPayload
    BY <1>2 DEF DecompressPayload, HandInv
<1>3. CASE Undecodable \/ UnhandledTopic \/ HandleEvent
    BY <1>3 DEF Undecodable, UnhandledTopic, HandleEvent, NextMessage, HandInv
<1>4. CASE ParseMessage
    <2>1. PICK m \in message :
             /\ m.topic # "other"
             /\ \E block \in Decoded(m) :
                   LET parsed == parse_message(m.topic, block) IN
                   IF parsed = {} THEN NextMessage
                   ELSE /\ event' = parsed
                        /\ at' = "dedup"
                        /\ UNCHANGED <<message, bytes>>
        BY <1>4 DEF ParseMessage
    <2>2. CASE NextMessage
        BY <2>2 DEF NextMessage, HandInv
    <2>3. CASE ~NextMessage
        <3>1. PICK block \in Decoded(m) :
                 /\ event' = parse_message(m.topic, block)
                 /\ at' = "dedup"
                 /\ UNCHANGED <<message, bytes>>
            BY <2>1, <2>3
        <3>2. PICK other \in Messages :
                 block = other.block /\ (bytes = "content" => other = m)
            BY <3>1 DEF Decoded, HandInv
        <3>3. m \in Messages /\ ParsedFrom(m, other.block)'
            BY <2>1, <3>1, <3>2 DEF HandInv, ParsedFrom
        <3> QED
            BY <3>1, <3>2, <3>3 DEF HandInv
    <2> QED
        BY <2>2, <2>3
<1>5. CASE CheckDuplicate \/ FilterEvent \/ UNCHANGED pathVars
    <2>1. CASE NextMessage
        BY <2>1 DEF NextMessage, HandInv
    <2>2. CASE ~NextMessage
        <3>1. /\ UNCHANGED <<message, bytes, event>>
              /\ at' = at \/ at \in {"dedup", "filter"}
              /\ at' = "parse" => at = "parse"
            BY <1>5, <2>2 DEF CheckDuplicate, FilterEvent, pathVars
        <3>2. at' \in {"dedup", "filter", "process"} => at \in {"dedup", "filter", "process"}
            BY <3>1
        <3> QED
            BY <3>1, <3>2 DEF HandInv, ParsedFrom
    <2> QED
        BY <2>1, <2>2
<1> QED
    BY <1>1, <1>2, <1>3, <1>4, <1>5 DEF PathNext

\* The event in hand, if there is one, is one event that parsing made.
LEMMA EventInHand ==
    ASSUME HandInv, at \in {"dedup", "filter", "process"}
    PROVE  /\ \A e1, e2 \in event : e1 = e2
           /\ \A e \in event : \E m \in Messages, topic \in Topics :
                 e \in parse_message(topic, m.block)
<1>1. PICK m, other \in Messages : ParsedFrom(m, other.block)
    BY DEF HandInv
<1>2. m.topic \in Topics
    BY <1>1, MessageAssumption DEF ParsedFrom, Topics
<1> QED
    BY <1>1, <1>2, OneEventParsed DEF ParsedFrom, Topics

\* The parsers are given the content of a message, also when its bytes look like
\* LZ4 and are not, unless they happen to be valid LZ4 (compression.rs:54-94,
\* 137-169), for any payloads.
THEOREM ContentRecoveredAlways == PathSpec => []ContentRecovered
<1>1. PathInit => HandInv
    BY DEF PathInit, HandInv
<1>2. HandInv /\ [PathNext]_pathVars => HandInv'
    BY HandStep
<1>3. HandInv => ContentRecovered
    BY Decompressed DEF HandInv, ContentRecovered
<1> QED
    BY <1>1, <1>2, <1>3, PTL DEF PathSpec
-----------------------------------------------------------------------------
(* MessagePath: signatures.                                                *)

\* A signature is in the cache before an event with it is returned.
SignatureInv ==
    /\ \A e \in returned : e.signature \in seen
    /\ at = "filter" =>
          \A e \in event :
             /\ e.signature \in seen
             /\ \A r \in returned : r.signature # e.signature
    /\ OneEventPerSignature

LEMMA SignatureStep ==
    ASSUME HandInv, SignatureInv, [PathNext]_pathVars
    PROVE  SignatureInv'
<1>1. CASE CheckDuplicate
    <2>1. \A e1, e2 \in event : e1 = e2
        BY <1>1, EventInHand DEF CheckDuplicate
    <2>2. PICK e \in event :
             IF e.signature \in seen
             THEN NextMessage /\ UNCHANGED seen
             ELSE /\ seen' = seen \cup {e.signature}
                  /\ at' = "filter"
                  /\ UNCHANGED <<message, bytes, event>>
        BY <1>1 DEF CheckDuplicate
    <2>3. returned' = returned
        BY <1>1 DEF CheckDuplicate
    <2>4. CASE e.signature \in seen
        BY <2>2, <2>3, <2>4 DEF NextMessage, SignatureInv, OneEventPerSignature
    <2>5. CASE e.signature \notin seen
        BY <2>1, <2>2, <2>3, <2>5 DEF SignatureInv, OneEventPerSignature
    <2> QED
        BY <2>4, <2>5
<1>2. CASE FilterEvent
    <2>1. seen' = seen /\ at = "filter" /\ at' # "filter"
        BY <1>2 DEF FilterEvent, NextMessage
    <2>2. returned' = returned \/ \E e \in event : returned' = returned \cup {e}
        BY <1>2 DEF FilterEvent
    <2> QED
        BY <2>1, <2>2 DEF SignatureInv, OneEventPerSignature
<1>3. CASE UNCHANGED <<seen, returned>> /\ at' # "filter"
    BY <1>3 DEF SignatureInv, OneEventPerSignature
<1>4. CASE UNCHANGED pathVars
    BY <1>4 DEF pathVars, SignatureInv, OneEventPerSignature
<1>5. \/ CheckDuplicate \/ FilterEvent \/ UNCHANGED pathVars
      \/ UNCHANGED <<seen, returned>> /\ at' # "filter"
    BY DEF PathNext, ReceiveMessage, DecompressPayload, Undecodable,
           UnhandledTopic, ParseMessage, HandleEvent, NextMessage
<1> QED
    BY <1>1, <1>2, <1>3, <1>4, <1>5

\* Whatever topics carry a signature, at most one event with it is returned
\* (consumer.rs:236-240).
THEOREM OneEventPerSignatureAlways == PathSpec => []OneEventPerSignature
<1>1. PathInit => HandInv /\ SignatureInv
    BY DEF PathInit, HandInv, SignatureInv, OneEventPerSignature
<1>2. HandInv /\ SignatureInv /\ [PathNext]_pathVars => (HandInv /\ SignatureInv)'
    BY HandStep, SignatureStep
<1>3. SignatureInv => OneEventPerSignature
    BY DEF SignatureInv
<1> QED
    BY <1>1, <1>2, <1>3, PTL DEF PathSpec
-----------------------------------------------------------------------------
(* MessagePath: conditions that no event meets.                            *)

\* Inductive as it stands, since filters and processors only ever see events
\* that parsing made.
LEMMA DeadStep ==
    ASSUME HandInv, DeadConditions, [PathNext]_pathVars
    PROVE  DeadConditions'
<1>1. setup' = setup
    BY DEF PathNext, ReceiveMessage, DecompressPayload, Undecodable,
           UnhandledTopic, ParseMessage, CheckDuplicate, FilterEvent,
           HandleEvent, pathVars
<1>2. CASE FilterEvent
    <2>1. ASSUME setup.filter.min_amount # {}, NEW e \in event,
                 e.event_type = "TokenTransfer"
          PROVE  ~matches(setup.filter, e)
        <3>1. PICK m \in Messages, topic \in Topics : e \in parse_message(topic, m.block)
            BY <1>2, EventInHand DEF FilterEvent
        <3>2. event_value(e) = {}
            BY <2>1, <3>1, TransferParsed DEF Topics
        <3> QED
            BY <2>1, <3>2 DEF matches
    <2>2. handled' = handled
        BY <1>2 DEF FilterEvent
    <2>3. returned' = returned
            \/ \E e \in event : matches(setup.filter, e) /\ returned' = returned \cup {e}
        BY <1>2 DEF FilterEvent
    <2> QED
        BY <1>1, <2>1, <2>2, <2>3 DEF DeadConditions
<1>3. CASE HandleEvent
    <2>1. PICK e \in event :
             handled' = IF ~should_process(setup.processor, e) THEN "skipped"
                        ELSE IF setup.processor.kind = "dex" THEN DexProcess(e)
                        ELSE TransactionProcess(e)
        BY <1>3 DEF HandleEvent
    <2>2. returned' = returned
        BY <1>3 DEF HandleEvent
    <2>3. ASSUME setup.processor.kind = "dex",
                 \/ setup.processor.min_amount_usd > 0
                 \/ /\ setup.processor.target_programs # {}
                    /\ \A text \in setup.processor.target_programs : text.form = "base58"
          PROVE  ~should_process(setup.processor, e)
        <3>1. PICK m \in Messages, topic \in Topics : e \in parse_message(topic, m.block)
            BY <1>3, EventInHand DEF HandleEvent
        <3>2. e.event_type = "DexTrade" =>
                 price(e) = {} /\ \A text \in program_id(e) : text.form # "base58"
            BY <3>1, TradeParsed DEF Topics
        <3>3. ~DexShouldProcess(setup.processor, e)
            BY <2>3, <3>2 DEF DexShouldProcess
        <3> QED
            BY <2>3, <3>3 DEF should_process
    <2> QED
        BY <1>1, <2>1, <2>2, <2>3 DEF DeadConditions
<1>4. CASE UNCHANGED returned /\ handled' \in {handled, "none"}
    BY <1>1, <1>4 DEF DeadConditions
<1>5. \/ FilterEvent
      \/ HandleEvent
      \/ UNCHANGED returned /\ handled' \in {handled, "none"}
    BY DEF PathNext, ReceiveMessage, DecompressPayload, Undecodable,
           UnhandledTopic, ParseMessage, CheckDuplicate, pathVars
<1> QED
    BY <1>2, <1>3, <1>4, <1>5

\* No event of the consumer meets a minimal amount of tokens, a minimal value of
\* a trade, or a list of targets in base58 only (consumer.rs:338-405,
\* filters.rs:87, dex_processor.rs:36-200), for any filters, processors and
\* messages.
THEOREM DeadConditionsAlways == PathSpec => []DeadConditions
<1>1. PathInit => HandInv /\ DeadConditions
    BY DEF PathInit, HandInv, DeadConditions
<1>2. HandInv /\ DeadConditions /\ [PathNext]_pathVars => (HandInv /\ DeadConditions)'
    BY HandStep, DeadStep
<1> QED
    BY <1>1, <1>2, PTL DEF PathSpec

-----------------------------------------------------------------------------
(* MessagePath: panics.                                                    *)

\* The outcome of the last event is forgotten when the next message comes.
HandledInv == at # "recv" => handled = "none"

LEMMA HandledStep == HandledInv /\ [PathNext]_pathVars => HandledInv'
BY DEF HandledInv, PathNext, ReceiveMessage, DecompressPayload, Undecodable,
       UnhandledTopic, ParseMessage, CheckDuplicate, FilterEvent, HandleEvent,
       NextMessage, pathVars

\* If the content of a message was recovered, a processor panics only on a
\* trade without a market or a transaction without a signature
\* (dex_processor.rs:152), for any messages and processors.
THEOREM PanicsOnlyIfIncompleteAlways == PathSpec => PanicsOnlyIfIncomplete
<1>1. PathInit => HandInv /\ HandledInv
    BY DEF PathInit, HandInv, HandledInv
<1>2. HandInv /\ HandledInv /\ [PathNext]_pathVars => (HandInv /\ HandledInv)'
    BY HandStep, HandledStep
<1>3. HandInv /\ HandledInv /\ [PathNext]_pathVars =>
        [handled' = "panicked" /\ bytes = "content" =>
            \E m \in message : \E i \in DOMAIN m.block.transactions :
               LET tx == m.block.transactions[i] IN
               \/ tx.signature = ""
               \/ tx.items # <<>> /\ "market" \notin tx.items[1].parts]_pathVars
    <2> SUFFICES ASSUME HandInv, HandledInv, PathNext,
                        handled' = "panicked", bytes = "content"
                 PROVE  \E m \in message : \E i \in DOMAIN m.block.transactions :
                           LET tx == m.block.transactions[i] IN
                           \/ tx.signature = ""
                           \/ tx.items # <<>> /\ "market" \notin tx.items[1].parts
        OBVIOUS
    <2>1. HandleEvent
        BY DEF HandledInv, PathNext, ReceiveMessage, DecompressPayload, Undecodable,
               UnhandledTopic, ParseMessage, CheckDuplicate, FilterEvent
    <2>2. PICK e \in event : should_process(setup.processor, e) /\ DexProcess(e) = "panicked"
        BY <2>1 DEF HandleEvent, TransactionProcess
    <2>3. PICK m \in Messages : ParsedFrom(m, m.block)
        BY <2>1 DEF HandInv, HandleEvent
    <2>4. m \in message /\ m.topic \in Topics /\ e \in parse_message(m.topic, m.block)
        BY <2>2, <2>3, MessageAssumption DEF ParsedFrom, Topics
    <2>5. e.event_type \in {"DexTrade"}
        <3>1. CASE setup.processor.kind = "dex"
            BY <2>2, <3>1 DEF should_process, DexShouldProcess
        <3>2. CASE setup.processor.kind # "dex"
            BY <2>1, <3>2 DEF HandleEvent, TransactionProcess
        <3> QED
            BY <3>1, <3>2
    <2> QED
        BY <2>2, <2>4, <2>5, TradeParsed DEF Topics
<1> QED
    BY <1>1, <1>2, <1>3, PTL DEF PathSpec, PanicsOnlyIfIncomplete
-----------------------------------------------------------------------------
(* EventFilter.                                                            *)

\* A filter without some of the conditions lets pass all that it let pass.
LEMMA FewerConditions ==
    ASSUME NEW f, NEW g, NEW e, matches(f, e),
           \A field \in DOMAIN NoFilter : g[field] \in {f[field], {}}
    PROVE  matches(g, e)
<1>1. \A field \in {"event_types", "min_slot", "max_slot", "program_ids",
                    "min_amount", "signatures", "custom_filter"} :
         g[field] = f[field] \/ g[field] = {}
    BY DEF NoFilter
<1>2. listed(g.event_types, {e.event_type}) /\ listed(g.program_ids, program_id(e))
      /\ listed(g.signatures, {e.signature})
    BY <1>1 DEF matches, listed
<1>3. /\ \A min \in g.min_slot : e.slot >= min
      /\ \A max \in g.max_slot : e.slot <= max
      /\ \A passing \in g.custom_filter : e.signature \in passing
    BY <1>1 DEF matches
<1>4. \A min \in g.min_amount :
          e.event_type \in {"DexTrade", "TokenTransfer"} =>
              \E amount \in event_value(e) : amount >= min
    BY <1>1 DEF matches
<1> QED
    BY <1>2, <1>3, <1>4 DEF matches

FilterFields == DOMAIN filter = DOMAIN NoFilter

\* However a FilterBuilder is used, a condition that is set or replaced only
\* narrows what the conditions kept let pass (filters.rs:44-125), for any
\* events and any conditions.
THEOREM ConditionsNarrowAlways == FilterSpec => ConditionsNarrow
<1>1. FilterInit => FilterFields
    BY DEF FilterInit, FilterFields
<1>2. FilterFields /\ [FilterNext]_filter => FilterFields'
    BY DEF FilterFields, FilterNext, Set, slot_range
<1>3. FilterFields /\ [FilterNext]_filter =>
        [filter' # filter =>
          Passing(filter') \subseteq
             Passing([field \in DOMAIN filter |->
                         IF field \in Unchanged THEN filter[field] ELSE {}])]_filter
    <2> SUFFICES ASSUME FilterFields, NEW e \in Passing(filter')
                 PROVE  e \in Passing([field \in DOMAIN filter |->
                                 IF field \in Unchanged THEN filter[field] ELSE {}])
        OBVIOUS
    <2> DEFINE kept == [field \in DOMAIN filter |->
                           IF field \in Unchanged THEN filter[field] ELSE {}]
    <2>1. \A field \in DOMAIN NoFilter : kept[field] \in {filter'[field], {}}
        BY DEF FilterFields, Unchanged
    <2> HIDE DEF kept
    <2>2. matches(filter', e) /\ e \in Events
        BY DEF Passing
    <2>3. matches(kept, e)
        BY <2>1, <2>2, FewerConditions
    <2> QED
        BY <2>2, <2>3 DEF Passing, kept
<1> QED
    BY <1>1, <1>2, <1>3, PTL DEF FilterSpec, ConditionsNarrow

-----------------------------------------------------------------------------
(* LruCache.                                                               *)

\* Taking an entry out and moving the others up.
LEMMA RemoveAtFacts ==
    ASSUME NEW S, NEW s \in Seq(S), NEW i \in 1..Len(s)
    PROVE  /\ RemoveAt(s, i) \in Seq(S)
           /\ Len(RemoveAt(s, i)) = Len(s) - 1
           /\ \A j \in 1..(i - 1) : RemoveAt(s, i)[j] = s[j]
           /\ \A j \in i..(Len(s) - 1) : RemoveAt(s, i)[j] = s[j + 1]
<1> DEFINE before == SubSeq(s, 1, i - 1)
           after == SubSeq(s, i + 1, Len(s))
<1>1. Len(s) \in Nat /\ i \in Nat /\ i >= 1 /\ i <= Len(s)
    BY LenProperties
<1>2. /\ before \in Seq(S) /\ Len(before) = i - 1
      /\ \A j \in 1..(i - 1) : before[j] = s[j]
    <2>1. \A j \in 1..(i - 1) : j \in 1..Len(s)
        BY <1>1
    <2> QED
        BY <1>1, <2>1, SubSeqProperties
<1>3. /\ after \in Seq(S) /\ Len(after) = Len(s) - i
      /\ \A j \in 1..(Len(s) - i) : after[j] = s[i + j]
    <2>1. \A j \in (i + 1)..Len(s) : j \in 1..Len(s)
        BY <1>1
    <2> QED
        BY <1>1, <2>1, SubSeqProperties
<1>4. RemoveAt(s, i) = before \o after
    BY DEF RemoveAt
<1> HIDE DEF before, after
<1>5. /\ before \o after \in Seq(S)
      /\ Len(before \o after) = Len(before) + Len(after)
      /\ \A j \in 1..(Len(before) + Len(after)) :
            (before \o after)[j] = IF j <= Len(before) THEN before[j]
                                   ELSE after[j - Len(before)]
    BY <1>2, <1>3, ConcatProperties
<1>6. \A j \in 1..(i - 1) : (before \o after)[j] = s[j]
    BY <1>1, <1>2, <1>3, <1>5
<1>7. ASSUME NEW j \in i..(Len(s) - 1)
      PROVE  (before \o after)[j] = s[j + 1]
    <2>1. /\ j - (i - 1) \in 1..(Len(s) - i) /\ i + (j - (i - 1)) = j + 1
          /\ j \in 1..(Len(before) + Len(after)) /\ ~(j <= Len(before))
        BY <1>1, <1>2, <1>3
    <2> QED
        BY <1>2, <1>3, <1>5, <2>1
<1> QED
    BY <1>1, <1>2, <1>3, <1>4, <1>5, <1>6, <1>7

\* A sequence of entries stays one when an entry is used or put.
LEMMA CacheTyped ==
    ASSUME NEW S, NEW lru \in Seq(S), NEW key, NEW value,
           [key |-> key, value |-> value] \in S, NEW size
    PROVE  /\ UseEntry(lru, key, value) \in Seq(S)
           /\ PutEntry(lru, size, key, value) \in Seq(S)
<1>1. Without(lru, key) \in Seq(S)
    <2>1. CASE Entries(lru, key) = {}
        BY <2>1 DEF Without
    <2>2. CASE Entries(lru, key) # {}
        <3> DEFINE i == CHOOSE i \in Entries(lru, key) : TRUE
        <3>1. i \in Entries(lru, key)
            BY <2>2
        <3>2. i \in 1..Len(lru)
            BY <3>1 DEF Entries
        <3>3. Without(lru, key) = RemoveAt(lru, i)
            BY <2>2 DEF Without
        <3> HIDE DEF i
        <3> QED
            BY <3>2, <3>3, RemoveAtFacts
    <2> QED
        BY <2>1, <2>2
<1>2. /\ UseEntry(lru, key, value) \in Seq(S)
      /\ UseEntry(lru, key, value) # <<>>
    BY <1>1, AppendProperties DEF UseEntry
<1>3. Tail(UseEntry(lru, key, value)) \in Seq(S)
    BY <1>2, HeadTailProperties
<1> QED
    BY <1>2, <1>3 DEF PutEntry
-----------------------------------------------------------------------------
(* Base58Cache.                                                            *)

\* What may be cached for an operation: an argument with its answer.
Answers(op) ==
    {[key |-> arg, value |-> Compute(op, arg)[1]] :
        arg \in {a \in Arguments(op) : Compute(op, a) # <<>>}}

\* The calls a thread can be in.
CallsInProgress ==
    UNION {[op : {op}, arg : Arguments(op), at : {"look_up", "compute"}] : op \in Operations}

CallsDone ==
    {[op |-> c.op, arg |-> c.arg, at |-> "done", result |-> Compute(c.op, c.arg)] :
        c \in CallsInProgress}

\* Only right answers are cached and returned.
CodecInv ==
    /\ DOMAIN codec_cache = Operations
    /\ \A op \in Operations : codec_cache[op] \in Seq(Answers(op))
    /\ codec_call \in [CodecThreads -> {NoCall} \cup CallsInProgress \cup CallsDone]

LEMMA Computed ==
    ASSUME NEW op, NEW arg, Compute(op, arg) # <<>>
    PROVE  Compute(op, arg) = <<Compute(op, arg)[1]>>
BY DEF Compute

\* What a caller sees of a call.
Seen(c) == IF c.at = "compute" THEN [c EXCEPT !.at = "look_up"] ELSE c

pending == [t \in CodecThreads |-> AsSeen(t)]

LEMMA SeenAfter ==
    ASSUME CodecInv, NEW t \in CodecThreads, NEW c,
           codec_call' = [codec_call EXCEPT ![t] = c]
    PROVE  pending' = [pending EXCEPT ![t] = Seen(c)]
BY DEF CodecInv, pending, AsSeen, Seen

\* A call in progress and its answer, field by field.
LEMMA CallFields ==
    ASSUME NEW c \in CallsInProgress
    PROVE  /\ c.op \in Operations /\ c.arg \in Arguments(c.op)
           /\ c.at \in {"look_up", "compute"}
           /\ c = [op |-> c.op, arg |-> c.arg, at |-> c.at]
           /\ [c EXCEPT !.at = "compute"] \in CallsInProgress
           /\ [c EXCEPT !.at = "look_up"]
                 = [op |-> c.op, arg |-> c.arg, at |-> "look_up"]
           /\ [op |-> c.op, arg |-> c.arg, at |-> "done", result |-> Compute(c.op, c.arg)]
                 \in CallsDone
<1>1. PICK op \in Operations :
         c \in [op : {op}, arg : Arguments(op), at : {"look_up", "compute"}]
    BY DEF CallsInProgress
<1>2. /\ c.op = op /\ c.arg \in Arguments(op) /\ c.at \in {"look_up", "compute"}
      /\ c = [op |-> c.op, arg |-> c.arg, at |-> c.at]
    BY <1>1
<1>3. [c EXCEPT !.at = "compute"]
         \in [op : {op}, arg : Arguments(op), at : {"look_up", "compute"}]
    BY <1>1
<1>4. [c EXCEPT !.at = "look_up"] = [op |-> c.op, arg |-> c.arg, at |-> "look_up"]
    BY <1>1, <1>2
<1> QED
    BY <1>2, <1>3, <1>4 DEF CallsInProgress, CallsDone

\* A thread that is neither idle nor done is in the middle of a call.
LEMMA InProgress ==
    ASSUME CodecInv, NEW t \in CodecThreads,
           codec_call[t].at \in {"look_up", "compute"}
    PROVE  codec_call[t] \in CallsInProgress
<1>1. codec_call[t] \in {NoCall} \cup CallsInProgress \cup CallsDone
    BY DEF CodecInv
<1>2. NoCall.at = "idle"
    BY DEF NoCall
<1>3. \A c \in CallsDone : c.at = "done"
    BY DEF CallsDone
<1> QED
    BY <1>1, <1>2, <1>3

LEMMA CallStep ==
    ASSUME CodecInv, NEW t \in CodecThreads, NEW op \in Operations,
           NEW arg \in Arguments(op), CallCodec(t, op, arg)
    PROVE  CodecInv' /\ Codec!Ask(t, op, arg)
<1> DEFINE c == [op |-> op, arg |-> arg, at |-> "look_up"]
<1>1. c \in CallsInProgress
    BY DEF CallsInProgress
<1>2. codec_call' = [codec_call EXCEPT ![t] = c] /\ codec_cache' = codec_cache
    BY DEF CallCodec
<1>3. pending' = [pending EXCEPT ![t] = Seen(c)] /\ Seen(c) = c
    BY <1>2, SeenAfter DEF Seen
<1>4. AsSeen(t).at = "idle"
    BY DEF CallCodec, AsSeen
<1> HIDE DEF c
<1>5. CodecInv'
    BY <1>1, <1>2 DEF CodecInv
<1> QED
    BY <1>3, <1>4, <1>5 DEF Codec!Ask, pending, c

LEMMA ReturnStep ==
    ASSUME CodecInv, NEW t \in CodecThreads, ReturnFromCodec(t)
    PROVE  CodecInv' /\ Codec!Return(t)
<1>1. codec_call' = [codec_call EXCEPT ![t] = NoCall] /\ codec_cache' = codec_cache
      /\ codec_call[t].at = "done"
    BY DEF ReturnFromCodec
<1>2. pending' = [pending EXCEPT ![t] = Seen(NoCall)] /\ Seen(NoCall) = [at |-> "idle"]
    BY <1>1, SeenAfter DEF Seen, NoCall
<1>3. AsSeen(t).at = "done"
    BY <1>1 DEF AsSeen
<1>4. CodecInv'
    BY <1>1 DEF CodecInv
<1> QED
    BY <1>2, <1>3, <1>4 DEF Codec!Return, pending

\* A call that is answered with what is computed for its argument.
LEMMA FinishStep ==
    ASSUME CodecInv, NEW t \in CodecThreads, codec_call[t] \in CallsInProgress,
           Finish(t, Compute(codec_call[t].op, codec_call[t].arg))
    PROVE  /\ codec_call' \in [CodecThreads -> {NoCall} \cup CallsInProgress \cup CallsDone]
           /\ Codec!Answer(t)
<1> DEFINE c == codec_call[t]
           d == [op |-> c.op, arg |-> c.arg, at |-> "done",
                 result |-> Compute(c.op, c.arg)]
<1>1. codec_call' = [codec_call EXCEPT ![t] = d] /\ d \in CallsDone
    BY CallFields DEF Finish, CodecInv
<1>2. pending' = [pending EXCEPT ![t] = Seen(d)] /\ Seen(d) = d
    BY <1>1, SeenAfter DEF Seen
<1>3. pending[t] = [op |-> c.op, arg |-> c.arg, at |-> "look_up"]
    <2>1. pending[t] = AsSeen(t)
        BY DEF pending
    <2>2. CASE c.at = "compute"
        BY <2>1, <2>2, CallFields DEF AsSeen
    <2>3. CASE c.at = "look_up"
        BY <2>1, <2>3, CallFields DEF AsSeen
    <2> QED
        BY <2>2, <2>3, CallFields
<1>4. codec_call' \in [CodecThreads -> {NoCall} \cup CallsInProgress \cup CallsDone]
    <2> HIDE DEF d
    <2> QED
        BY <1>1 DEF CodecInv
<1>5. /\ pending[t].at = "look_up" /\ pending[t].op = c.op /\ pending[t].arg = c.arg
      /\ pending \in [CodecThreads -> {pending[u] : u \in CodecThreads}]
    BY <1>3 DEF pending
<1> HIDE DEF pending, c
<1>6. pending' = [pending EXCEPT ![t] =
                    [op |-> @.op, arg |-> @.arg, at |-> "done",
                     result |-> Compute(@.op, @.arg)]]
    BY <1>2, <1>5
<1> QED
    BY <1>4, <1>5, <1>6 DEF Codec!Answer, pending

LEMMA LookUpStep ==
    ASSUME CodecInv, NEW t \in CodecThreads, LookUp(t)
    PROVE  CodecInv' /\ (Codec!Answer(t) \/ UNCHANGED pending)
<1> DEFINE c == codec_call[t]
           lru == codec_cache[c.op]
<1>1. c \in CallsInProgress /\ c.at = "look_up"
    BY InProgress DEF LookUp
<1>2. c.op \in Operations /\ c.arg \in Arguments(c.op) /\ lru \in Seq(Answers(c.op))
    BY <1>1, CallFields DEF CodecInv
<1>3. CASE /\ codec_call' = [codec_call EXCEPT ![t].at = "compute"]
           /\ UNCHANGED codec_cache
    <2>1. codec_call' = [codec_call EXCEPT ![t] = [c EXCEPT !.at = "compute"]]
        BY <1>3
    <2>2. [c EXCEPT !.at = "compute"] \in CallsInProgress
        BY <1>1, CallFields
    <2>3. CodecInv'
        BY <1>3, <2>1, <2>2 DEF CodecInv
    <2>4. pending' = [pending EXCEPT ![t] = Seen([c EXCEPT !.at = "compute"])]
        BY <2>1, SeenAfter
    <2>5. Seen([c EXCEPT !.at = "compute"]) = c
        <3>1. c = [op |-> c.op, arg |-> c.arg, at |-> "look_up"]
            BY <1>1, CallFields
        <3> HIDE DEF c
        <3>2. \A op, arg :
                 LET d == [op |-> op, arg |-> arg, at |-> "look_up"] IN
                 Seen([d EXCEPT !.at = "compute"]) = d
            BY DEF Seen
        <3> QED
            BY <3>1, <3>2
    <2>6. pending[t] = c
        BY <1>1 DEF pending, AsSeen
    <2>7. pending' = pending
        BY <2>4, <2>5, <2>6 DEF pending
    <2> QED
        BY <2>3, <2>7
<1>4. CASE \E i \in Entries(lru, c.arg) :
              /\ Finish(t, <<lru[i].value>>)
              /\ codec_cache' = [codec_cache EXCEPT ![c.op] =
                                   UseEntry(@, c.arg, lru[i].value)]
    <2>1. PICK i \in Entries(lru, c.arg) :
              /\ Finish(t, <<lru[i].value>>)
              /\ codec_cache' = [codec_cache EXCEPT ![c.op] =
                                   UseEntry(@, c.arg, lru[i].value)]
        BY <1>4
    <2>2. i \in 1..Len(lru) /\ lru[i].key = c.arg
        BY <1>2 DEF Entries
    <2>3. lru[i] \in Answers(c.op)
        BY <1>2, <2>2, ElementOfSeq
    <2>4. /\ Compute(c.op, c.arg) # <<>> /\ lru[i].value = Compute(c.op, c.arg)[1]
          /\ lru[i] = [key |-> c.arg, value |-> lru[i].value]
        <3>1. PICK arg \in {a \in Arguments(c.op) : Compute(c.op, a) # <<>>} :
                 lru[i] = [key |-> arg, value |-> Compute(c.op, arg)[1]]
            BY <2>3 DEF Answers
        <3> HIDE DEF lru, c
        <3>2. arg = c.arg
            BY <2>2, <3>1
        <3> QED
            BY <3>1, <3>2
    <2>5. <<lru[i].value>> = Compute(c.op, c.arg)
        BY <2>4, Computed
    <2>6. /\ Codec!Answer(t)
          /\ codec_call' \in [CodecThreads -> {NoCall} \cup CallsInProgress \cup CallsDone]
        BY <1>1, <2>1, <2>5, FinishStep
    <2>7. UseEntry(lru, c.arg, lru[i].value) \in Seq(Answers(c.op))
        BY <1>2, <2>3, <2>4, CacheTyped
    <2>8. /\ DOMAIN codec_cache' = Operations
          /\ \A op \in Operations : codec_cache'[op] \in Seq(Answers(op))
        BY <1>2, <2>1, <2>7 DEF CodecInv
    <2> QED
        BY <2>6, <2>8 DEF CodecInv
<1> QED
    BY <1>3, <1>4 DEF LookUp

LEMMA ComputeStep ==
    ASSUME CodecInv, NEW t \in CodecThreads, ComputeAndPut(t)
    PROVE  CodecInv' /\ Codec!Answer(t)
<1> DEFINE c == codec_call[t]
           lru == codec_cache[c.op]
           result == Compute(c.op, c.arg)
<1>1. c \in CallsInProgress
    BY InProgress DEF ComputeAndPut
<1>2. c.op \in Operations /\ c.arg \in Arguments(c.op) /\ lru \in Seq(Answers(c.op))
    BY <1>1, CallFields DEF CodecInv
<1>3. /\ Finish(t, result)
      /\ codec_cache' = [codec_cache EXCEPT ![c.op] =
              IF result = <<>> THEN @
              ELSE PutEntry(@, codec_capacity, c.arg, result[1])]
    BY DEF ComputeAndPut
<1>4. /\ Codec!Answer(t)
      /\ codec_call' \in [CodecThreads -> {NoCall} \cup CallsInProgress \cup CallsDone]
    BY <1>1, <1>3, FinishStep
<1>5. ASSUME result # <<>>
      PROVE  PutEntry(lru, codec_capacity, c.arg, result[1]) \in Seq(Answers(c.op))
    <2>1. [key |-> c.arg, value |-> result[1]] \in Answers(c.op)
        BY <1>2, <1>5 DEF Answers
    <2> QED
        BY <1>2, <2>1, CacheTyped
<1>6. /\ DOMAIN codec_cache' = Operations
      /\ \A op \in Operations : codec_cache'[op] \in Seq(Answers(op))
    BY <1>2, <1>3, <1>5 DEF CodecInv
<1> QED
    BY <1>4, <1>6 DEF CodecInv

\* With the look-ups hidden, the caches implement a codec without any: for any
\* threads, data and capacity every call is answered with what bs58 computes
\* for its argument (base58_cache.rs encode and decode).
THEOREM Base58ImplementsCodecAlways == Base58Spec => Base58ImplementsCodec
<1>1. Base58Init => CodecInv /\ Codec!CodecInit
    <2> SUFFICES ASSUME Base58Init PROVE CodecInv /\ Codec!CodecInit
        OBVIOUS
    <2>1. \A op \in Operations : codec_cache[op] \in Seq(Answers(op))
        BY EmptySeq DEF Base58Init
    <2> QED
        BY <2>1 DEF Base58Init, CodecInv, Codec!CodecInit, AsSeen, NoCall
<1>2. CodecInv /\ [Base58Next]_base58Vars =>
         CodecInv' /\ [Codec!CodecNext]_([t \in CodecThreads |-> AsSeen(t)])
    <2> SUFFICES ASSUME CodecInv, [Base58Next]_base58Vars
                 PROVE  CodecInv' /\ (Codec!CodecNext \/ UNCHANGED pending)
        BY DEF pending
    <2>1. CASE UNCHANGED base58Vars
        BY <2>1 DEF base58Vars, CodecInv, pending, AsSeen
    <2>2. CASE Base58Next
        BY <2>2, CallStep, ReturnStep, LookUpStep, ComputeStep
        DEF Base58Next, CodecStep, Codec!CodecNext
    <2> QED
        BY <2>1, <2>2
<1> QED
    BY <1>1, <1>2, PTL DEF Base58Spec, Base58ImplementsCodec, Codec!CodecSpec

-----------------------------------------------------------------------------
(* LruCache: what is left in which order when an entry is used or put.     *)

\* The keys from an entry on.
KeysFrom(lru, i) == {lru[j].key : j \in i..Len(lru)}

DistinctKeys(lru) ==
    \A i, j \in 1..Len(lru) : lru[i].key = lru[j].key => i = j

\* The cache without a key: every other entry is there, with the same ones
\* after it but for the key.
LEMMA WithoutFacts ==
    ASSUME NEW S, NEW lru \in Seq(S), DistinctKeys(lru), NEW key
    PROVE  /\ Without(lru, key) \in Seq(S)
           /\ Len(Without(lru, key)) =
                 IF Entries(lru, key) = {} THEN Len(lru) ELSE Len(lru) - 1
           /\ DistinctKeys(Without(lru, key))
           /\ \A i \in 1..Len(Without(lru, key)) : \E o \in 1..Len(lru) :
                 /\ Without(lru, key)[i] = lru[o] /\ lru[o].key # key
                 /\ KeysFrom(Without(lru, key), i + 1) = KeysFrom(lru, o + 1) \ {key}
           /\ \A o \in 1..Len(lru) : lru[o].key # key =>
                 \E i \in 1..Len(Without(lru, key)) : Without(lru, key)[i] = lru[o]
<1> DEFINE w == Without(lru, key)
<1>1. Len(lru) \in Nat /\ DOMAIN lru = 1..Len(lru)
    BY LenProperties
<1>2. CASE Entries(lru, key) = {}
    <2>1. w = lru /\ \A o \in 1..Len(lru) : lru[o].key # key
        BY <1>1, <1>2 DEF Without, Entries
    <2>2. \A i \in 1..Len(lru) : KeysFrom(lru, i + 1) = KeysFrom(lru, i + 1) \ {key}
        BY <1>1, <2>1 DEF KeysFrom
    <2> HIDE DEF w
    <2> QED
        BY <1>1, <1>2, <2>1, <2>2 DEF w
<1>3. CASE Entries(lru, key) # {}
    <2> DEFINE p == CHOOSE i \in Entries(lru, key) : TRUE
    <2>1. p \in 1..Len(lru) /\ lru[p].key = key
        <3>1. p \in Entries(lru, key)
            BY <1>3
        <3> QED
            BY <1>1, <3>1 DEF Entries
    <2>2. w = RemoveAt(lru, p)
        BY <1>3 DEF Without
    <2> HIDE DEF p, w
    <2>3. /\ w \in Seq(S) /\ Len(w) = Len(lru) - 1
          /\ \A j \in 1..(p - 1) : w[j] = lru[j]
          /\ \A j \in p..(Len(lru) - 1) : w[j] = lru[j + 1]
        BY <2>1, <2>2, RemoveAtFacts
    <2> DEFINE old(i) == IF i < p THEN i ELSE i + 1
    <2>4. \A i \in 1..Len(w) : /\ old(i) \in 1..Len(lru) /\ old(i) # p
                               /\ w[i] = lru[old(i)]
        BY <1>1, <2>1, <2>3
    <2>5. \A o \in 1..Len(lru) : o # p => \E i \in 1..Len(w) : old(i) = o
        <3> SUFFICES ASSUME NEW o \in 1..Len(lru), o # p
                     PROVE  \E i \in 1..Len(w) : old(i) = o
            OBVIOUS
        <3>1. CASE o < p
            <4>1. o \in 1..Len(w) /\ old(o) = o
                BY <1>1, <2>1, <2>3, <3>1
            <4> QED
                BY <4>1
        <3>2. CASE o > p
            <4>1. o - 1 \in 1..Len(w) /\ old(o - 1) = o
                BY <1>1, <2>1, <2>3, <3>2
            <4> QED
                BY <4>1
        <3> QED
            BY <1>1, <2>1, <3>1, <3>2
    <2>6. \A o \in 1..Len(lru) : lru[o].key # key <=> o # p
        BY <2>1 DEF DistinctKeys
    <2>7. \A i, j \in 1..Len(w) : (i < j <=> old(i) < old(j)) /\ (old(i) = old(j) => i = j)
        BY <1>1, <2>1, <2>3
    <2> HIDE DEF old
    <2>8. DistinctKeys(w)
        BY <2>4, <2>7 DEF DistinctKeys
    <2>9. ASSUME NEW i \in 1..Len(w)
          PROVE  KeysFrom(w, i + 1) = KeysFrom(lru, old(i) + 1) \ {key}
        <3>1. ASSUME NEW k \in KeysFrom(w, i + 1)
              PROVE  k \in KeysFrom(lru, old(i) + 1) \ {key}
            <4>1. PICK j \in (i + 1)..Len(w) : k = w[j].key
                BY <3>1 DEF KeysFrom
            <4>2. j \in 1..Len(w) /\ i < j
                BY <1>1, <2>3, <4>1
            <4>3. /\ old(j) \in 1..Len(lru) /\ old(i) \in 1..Len(lru)
                  /\ old(i) < old(j) /\ k = lru[old(j)].key /\ k # key
                BY <2>4, <2>6, <2>7, <4>1, <4>2
            <4>4. old(j) \in (old(i) + 1)..Len(lru)
                BY <1>1, <4>3
            <4> QED
                BY <4>3, <4>4 DEF KeysFrom
        <3>2. ASSUME NEW k \in KeysFrom(lru, old(i) + 1) \ {key}
              PROVE  k \in KeysFrom(w, i + 1)
            <4>1. PICK o \in (old(i) + 1)..Len(lru) : k = lru[o].key
                BY <3>2 DEF KeysFrom
            <4>2. old(i) \in 1..Len(lru)
                BY <2>4
            <4>3. o \in 1..Len(lru) /\ old(i) < o
                BY <1>1, <4>1, <4>2
            <4>4. o # p
                BY <2>6, <3>2, <4>1, <4>3
            <4>5. PICK j \in 1..Len(w) : old(j) = o
                BY <2>5, <4>3, <4>4
            <4>6. i < j /\ w[j] = lru[o]
                BY <2>4, <2>7, <4>3, <4>5
            <4>7. j \in (i + 1)..Len(w)
                BY <1>1, <2>3, <4>6
            <4> QED
                BY <4>1, <4>6, <4>7 DEF KeysFrom
        <3> QED
            BY <3>1, <3>2
    <2>10. \A i \in 1..Len(w) : \E o \in 1..Len(lru) :
              /\ w[i] = lru[o] /\ lru[o].key # key
              /\ KeysFrom(w, i + 1) = KeysFrom(lru, o + 1) \ {key}
        BY <2>4, <2>6, <2>9
    <2>11. \A o \in 1..Len(lru) : lru[o].key # key =>
              \E i \in 1..Len(w) : w[i] = lru[o]
        BY <2>4, <2>5, <2>6
    <2> QED
        BY <1>3, <2>3, <2>8, <2>10, <2>11 DEF w
<1> QED
    BY <1>2, <1>3

\* The key is the last one of the new cache, and the others are as before, but
\* that the key now comes after all of them.
Refreshed(new, lru, key, value) ==
    /\ Len(new) >= 1 /\ DistinctKeys(new)
    /\ new[Len(new)] = [key |-> key, value |-> value]
    /\ \A i \in 1..(Len(new) - 1) : \E o \in 1..Len(lru) :
          /\ new[i] = lru[o] /\ lru[o].key # key
          /\ KeysFrom(new, i + 1) = KeysFrom(lru, o + 1) \cup {key}

LEMMA UseFacts ==
    ASSUME NEW S, NEW lru \in Seq(S), DistinctKeys(lru), NEW key, NEW value,
           [key |-> key, value |-> value] \in S
    PROVE  /\ UseEntry(lru, key, value) \in Seq(S)
           /\ Len(UseEntry(lru, key, value)) =
                 IF Entries(lru, key) = {} THEN Len(lru) + 1 ELSE Len(lru)
           /\ Refreshed(UseEntry(lru, key, value), lru, key, value)
           /\ \A o \in 1..Len(lru) : lru[o].key # key =>
                 \E i \in 1..Len(UseEntry(lru, key, value)) :
                    UseEntry(lru, key, value)[i] = lru[o]
<1> DEFINE w == Without(lru, key)
           u == UseEntry(lru, key, value)
           e == [key |-> key, value |-> value]
<1>1. /\ w \in Seq(S) /\ Len(w) \in Nat /\ Len(lru) \in Nat
      /\ Len(w) = IF Entries(lru, key) = {} THEN Len(lru) ELSE Len(lru) - 1
      /\ DistinctKeys(w)
      /\ \A i \in 1..Len(w) : \E o \in 1..Len(lru) :
            /\ w[i] = lru[o] /\ lru[o].key # key
            /\ KeysFrom(w, i + 1) = KeysFrom(lru, o + 1) \ {key}
      /\ \A o \in 1..Len(lru) : lru[o].key # key =>
            \E i \in 1..Len(w) : w[i] = lru[o]
    BY WithoutFacts, LenProperties
<1>2. /\ u \in Seq(S) /\ Len(u) = Len(w) + 1
      /\ \A i \in 1..Len(w) : u[i] = w[i]
      /\ u[Len(u)] = e
    BY <1>1, AppendProperties DEF UseEntry
<1>3. e.key = key
    OBVIOUS
<1> HIDE DEF w, u, e
<1>4. \A i \in 1..Len(w) : u[i].key # key
    BY <1>1, <1>2
<1>5. DistinctKeys(u)
    <2> SUFFICES ASSUME NEW i \in 1..Len(u), NEW j \in 1..Len(u), u[i].key = u[j].key
                 PROVE  i = j
        BY DEF DistinctKeys
    <2>1. \A k \in 1..Len(u) : k \in 1..Len(w) \/ k = Len(u)
        BY <1>1, <1>2
    <2> QED
        BY <1>1, <1>2, <1>3, <1>4, <2>1 DEF DistinctKeys
<1>6. ASSUME NEW i \in 1..Len(w)
      PROVE  KeysFrom(u, i + 1) = KeysFrom(w, i + 1) \cup {key}
    <2>1. (i + 1)..Len(u) = ((i + 1)..Len(w)) \cup {Len(u)}
        BY <1>1, <1>2
    <2>2. \A j \in (i + 1)..Len(w) : u[j] = w[j]
        BY <1>1, <1>2
    <2> QED
        BY <1>2, <1>3, <2>1, <2>2 DEF KeysFrom
<1>7. Refreshed(u, lru, key, value)
    <2>1. Len(u) >= 1 /\ Len(u) - 1 = Len(w)
        BY <1>1, <1>2
    <2>2. ASSUME NEW i \in 1..Len(w)
          PROVE  \E o \in 1..Len(lru) :
                    /\ u[i] = lru[o] /\ lru[o].key # key
                    /\ KeysFrom(u, i + 1) = KeysFrom(lru, o + 1) \cup {key}
        <3>1. PICK o \in 1..Len(lru) :
                 /\ w[i] = lru[o] /\ lru[o].key # key
                 /\ KeysFrom(w, i + 1) = KeysFrom(lru, o + 1) \ {key}
            BY <1>1
        <3>2. u[i] = lru[o] /\ KeysFrom(u, i + 1) = KeysFrom(lru, o + 1) \cup {key}
            BY <1>2, <1>6, <3>1
        <3> QED
            BY <3>1, <3>2
    <2> QED
        BY <1>2, <1>5, <2>1, <2>2 DEF Refreshed, e
<1>8. \A o \in 1..Len(lru) : lru[o].key # key => \E i \in 1..Len(u) : u[i] = lru[o]
    <2>1. \A i \in 1..Len(w) : i \in 1..Len(u)
        BY <1>1, <1>2
    <2> QED
        BY <1>1, <1>2, <2>1
<1>9. Len(u) = IF Entries(lru, key) = {} THEN Len(lru) + 1 ELSE Len(lru)
    BY <1>1, <1>2
<1> QED
    BY <1>2, <1>7, <1>8, <1>9 DEF u

\* Putting a new entry in a full cache drops the first of the others.
LEMMA PutFacts ==
    ASSUME NEW S, NEW lru \in Seq(S), DistinctKeys(lru), NEW key, NEW value,
           [key |-> key, value |-> value] \in S, NEW size \in Nat \ {0},
           Len(lru) <= size
    PROVE  /\ PutEntry(lru, size, key, value) \in Seq(S)
           /\ Len(PutEntry(lru, size, key, value)) <= size
           /\ Refreshed(PutEntry(lru, size, key, value), lru, key, value)
           /\ \A o \in 1..Len(lru) : lru[o].key # key =>
                 \/ \E i \in 1..Len(PutEntry(lru, size, key, value)) :
                       PutEntry(lru, size, key, value)[i] = lru[o]
                 \/ o = 1 /\ Len(lru) = size /\ Entries(lru, key) = {}
<1> DEFINE u == UseEntry(lru, key, value)
           p == PutEntry(lru, size, key, value)
<1>1. /\ u \in Seq(S) /\ Len(lru) \in Nat /\ Len(u) \in Nat
      /\ Len(u) = IF Entries(lru, key) = {} THEN Len(lru) + 1 ELSE Len(lru)
      /\ Refreshed(u, lru, key, value)
      /\ \A o \in 1..Len(lru) : lru[o].key # key => \E i \in 1..Len(u) : u[i] = lru[o]
    BY UseFacts, LenProperties
<1>2. p = IF Entries(lru, key) = {} /\ Len(lru) = size THEN Tail(u) ELSE u
    BY DEF PutEntry
<1> HIDE DEF u, p
<1>3. CASE ~(Entries(lru, key) = {} /\ Len(lru) = size)
    <2>1. p = u /\ Len(u) <= size
        BY <1>1, <1>2, <1>3
    <2> QED
        BY <1>1, <2>1 DEF p
<1>4. CASE Entries(lru, key) = {} /\ Len(lru) = size
    <2>1. p = Tail(u) /\ u # <<>> /\ Len(u) = Len(lru) + 1
        BY <1>1, <1>2, <1>4, EmptySeq
    <2>2. /\ p \in Seq(S) /\ Len(p) = Len(u) - 1
          /\ \A i \in 1..Len(p) : p[i] = u[i + 1]
        BY <1>1, <2>1, HeadTailProperties
    <2>3. Len(p) = size /\ Len(p) >= 1
        BY <1>1, <1>4, <2>1, <2>2
    <2>4. DistinctKeys(p)
        <3> SUFFICES ASSUME NEW i \in 1..Len(p), NEW j \in 1..Len(p), p[i].key = p[j].key
                     PROVE  i = j
            BY DEF DistinctKeys
        <3>1. i + 1 \in 1..Len(u) /\ j + 1 \in 1..Len(u)
            BY <1>1, <2>2
        <3>2. u[i + 1].key = u[j + 1].key
            BY <2>2
        <3>3. i + 1 = j + 1
            BY <1>1, <3>1, <3>2 DEF Refreshed, DistinctKeys
        <3> QED
            BY <3>3
    <2>5. p[Len(p)] = [key |-> key, value |-> value]
        <3>1. p[Len(p)] = u[Len(u)]
            BY <1>1, <2>2, <2>3
        <3> QED
            BY <1>1, <3>1 DEF Refreshed
    <2>6. ASSUME NEW i \in 1..(Len(p) - 1)
          PROVE  \E o \in 1..Len(lru) :
                    /\ p[i] = lru[o] /\ lru[o].key # key
                    /\ KeysFrom(p, i + 1) = KeysFrom(lru, o + 1) \cup {key}
        <3>1. i + 1 \in 1..(Len(u) - 1) /\ p[i] = u[i + 1]
            BY <1>1, <2>2
        <3>2. PICK o \in 1..Len(lru) :
                 /\ u[i + 1] = lru[o] /\ lru[o].key # key
                 /\ KeysFrom(u, (i + 1) + 1) = KeysFrom(lru, o + 1) \cup {key}
            BY <1>1, <3>1 DEF Refreshed
        <3>3. KeysFrom(p, i + 1) = KeysFrom(u, (i + 1) + 1)
            <4>1. \A j \in (i + 1)..Len(p) : j + 1 \in ((i + 1) + 1)..Len(u) /\ p[j] = u[j + 1]
                BY <1>1, <2>2
            <4>2. \A j \in ((i + 1) + 1)..Len(u) : j - 1 \in (i + 1)..Len(p) /\ p[j - 1] = u[j]
                BY <1>1, <2>2
            <4>3. ASSUME NEW k \in KeysFrom(p, i + 1)
                  PROVE  k \in KeysFrom(u, (i + 1) + 1)
                <5>1. PICK j \in (i + 1)..Len(p) : k = p[j].key
                    BY <4>3 DEF KeysFrom
                <5>2. j + 1 \in ((i + 1) + 1)..Len(u) /\ k = u[j + 1].key
                    BY <4>1, <5>1
                <5> QED
                    BY <5>2 DEF KeysFrom
            <4>4. ASSUME NEW k \in KeysFrom(u, (i + 1) + 1)
                  PROVE  k \in KeysFrom(p, i + 1)
                <5>1. PICK j \in ((i + 1) + 1)..Len(u) : k = u[j].key
                    BY <4>4 DEF KeysFrom
                <5>2. j - 1 \in (i + 1)..Len(p) /\ k = p[j - 1].key
                    BY <4>2, <5>1
                <5> QED
                    BY <5>2 DEF KeysFrom
            <4> QED
                BY <4>3, <4>4
        <3> QED
            BY <3>1, <3>2, <3>3
    <2>7. Refreshed(p, lru, key, value)
        BY <2>3, <2>4, <2>5, <2>6 DEF Refreshed
    <2>8. ASSUME NEW o \in 1..Len(lru), o # 1
          PROVE  \E i \in 1..Len(p) : p[i] = lru[o]
        <3>1. u = Append(lru, [key |-> key, value |-> value])
            BY <1>4 DEF u, UseEntry, Without
        <3>2. u[o] = lru[o]
            BY <3>1, AppendProperties
        <3>3. o - 1 \in 1..Len(p) /\ p[o - 1] = u[o]
            BY <1>1, <2>1, <2>2, <2>8
        <3> QED
            BY <3>2, <3>3
    <2> QED
        BY <1>4, <2>2, <2>3, <2>7, <2>8 DEF p
<1> QED
    BY <1>3, <1>4

\* How many keys there are from an entry on.
LEMMA KeysCount ==
    ASSUME NEW S, NEW lru \in Seq(S), DistinctKeys(lru), NEW i \in 1..(Len(lru) + 1)
    PROVE  /\ IsFiniteSet(KeysFrom(lru, i))
           /\ Cardinality(KeysFrom(lru, i)) = Len(lru) - i + 1
<1> DEFINE f == [j \in i..Len(lru) |-> lru[j].key]
<1>1. Len(lru) \in Nat /\ i \in Int /\ i >= 1 /\ i <= Len(lru) + 1
    BY LenProperties
<1>2. f \in Surjection(i..Len(lru), KeysFrom(lru, i))
    BY DEF Surjection, KeysFrom
<1>3. f \in Injection(i..Len(lru), KeysFrom(lru, i))
    <2>1. \A j \in i..Len(lru) : j \in 1..Len(lru)
        BY <1>1
    <2>2. IsInjective(f)
        BY <2>1 DEF IsInjective, DistinctKeys
    <2> QED
        BY <1>2, <2>2 DEF Injection, Surjection
<1>4. /\ IsFiniteSet(i..Len(lru))
      /\ Cardinality(i..Len(lru)) = Len(lru) - i + 1
    <2>1. /\ IsFiniteSet(i..Len(lru))
          /\ Cardinality(i..Len(lru)) = IF i > Len(lru) THEN 0 ELSE Len(lru) - i + 1
        <3>1. \A a, b \in Int : /\ IsFiniteSet(a..b)
                                /\ Cardinality(a..b) = IF a > b THEN 0 ELSE b - a + 1
            BY FS_Interval
        <3>2. i \in Int /\ Len(lru) \in Int
            BY <1>1
        <3> QED
            BY <3>1, <3>2, Zenon
    <2>2. i > Len(lru) => Len(lru) - i + 1 = 0
        BY <1>1
    <2> QED
        BY <2>1, <2>2
<1> QED
    BY <1>2, <1>3, <1>4, FS_Surjection
-----------------------------------------------------------------------------
(* MessageDeduplicator: the cache holds the last calls.                    *)

\* Call k is the last one with its signature, and what was offered after it.
IsLast(k) ==
    /\ k \in 1..Len(calls)
    /\ \A j \in (k + 1)..Len(calls) : calls[j].sig # calls[k].sig

After(k) == {calls[j].sig : j \in (k + 1)..Len(calls)}

DedupTypes ==
    /\ cache \in Seq([key : Sigs, value : Nat])
    /\ calls \in Seq([sig : Sigs, at : Nat, processed : BOOLEAN])
    /\ now \in Nat

\* An entry stands for the last call with its signature, and the entries after
\* it for what was offered since; a signature without an entry was pushed out
\* by as many others as the cache holds.
CacheInv ==
    /\ DistinctKeys(cache) /\ Len(cache) <= capacity
    /\ \A i \in 1..Len(cache) : \E k \in 1..Len(calls) :
          /\ IsLast(k) /\ calls[k].sig = cache[i].key /\ calls[k].at = cache[i].value
          /\ After(k) = KeysFrom(cache, i + 1)
    /\ \A k \in 1..Len(calls) : IsLast(k) =>
          \/ \E i \in 1..Len(cache) : cache[i].key = calls[k].sig
          \/ Cardinality(After(k)) >= capacity

LEMMA CapacityPositive == capacity \in Nat \ {0}
BY DedupAssumption DEF capacity

LEMMA AfterFinite ==
    ASSUME DedupTypes, NEW k \in 1..Len(calls)
    PROVE  IsFiniteSet(After(k)) /\ Cardinality(After(k)) \in Nat
<1> DEFINE f == [j \in (k + 1)..Len(calls) |-> calls[j].sig]
<1>1. Len(calls) \in Nat
    BY LenProperties DEF DedupTypes
<1>2. f \in Surjection((k + 1)..Len(calls), After(k))
    BY DEF Surjection, After
<1>3. IsFiniteSet((k + 1)..Len(calls))
    BY <1>1, FS_Interval
<1> QED
    BY <1>2, <1>3, FS_Surjection, FS_CardinalityType

\* Two last calls with one signature are the same call.
LEMMA OneLast ==
    ASSUME DedupTypes, NEW k, NEW l, IsLast(k), IsLast(l), calls[k].sig = calls[l].sig
    PROVE  k = l
<1>1. Len(calls) \in Nat
    BY LenProperties DEF DedupTypes
<1> QED
    BY <1>1 DEF IsLast

\* The cache refuses a signature exactly when it should.
LEMMA RefusedRight ==
    ASSUME DedupTypes, CacheInv, NEW sig \in Sigs
    PROVE  SeenWithinWindow(sig) <=>
              \E k \in 1..Len(calls) :
                 /\ IsLast(k) /\ calls[k].sig = sig
                 /\ now - calls[k].at < time_window
                 /\ Cardinality(After(k)) < capacity
<1>1. Len(cache) \in Nat /\ DOMAIN cache = 1..Len(cache) /\ capacity \in Nat
    BY LenProperties, CapacityPositive DEF DedupTypes
<1>2. ASSUME NEW i \in 1..Len(cache), cache[i].key = sig,
             now - cache[i].value < time_window
      PROVE  \E k \in 1..Len(calls) :
                 /\ IsLast(k) /\ calls[k].sig = sig
                 /\ now - calls[k].at < time_window
                 /\ Cardinality(After(k)) < capacity
    <2>1. PICK k \in 1..Len(calls) :
             /\ IsLast(k) /\ calls[k].sig = cache[i].key /\ calls[k].at = cache[i].value
             /\ After(k) = KeysFrom(cache, i + 1)
        BY DEF CacheInv
    <2>2. Cardinality(After(k)) = Len(cache) - (i + 1) + 1
        <3>1. i + 1 \in 1..(Len(cache) + 1)
            BY <1>1
        <3>2. cache \in Seq([key : Sigs, value : Nat]) /\ DistinctKeys(cache)
            BY DEF DedupTypes, CacheInv
        <3>3. Cardinality(KeysFrom(cache, i + 1)) = Len(cache) - (i + 1) + 1
            BY <3>1, <3>2, KeysCount
        <3> QED
            BY <2>1, <3>3
    <2>3. Cardinality(After(k)) < capacity
        BY <1>1, <2>2 DEF CacheInv
    <2> QED
        BY <1>2, <2>1, <2>3
<1>3. ASSUME NEW k \in 1..Len(calls), IsLast(k), calls[k].sig = sig,
             now - calls[k].at < time_window, Cardinality(After(k)) < capacity
      PROVE  \E i \in 1..Len(cache) :
                cache[i].key = sig /\ now - cache[i].value < time_window
    <2>1. Cardinality(After(k)) \in Nat
        BY AfterFinite
    <2>2. PICK i \in 1..Len(cache) : cache[i].key = sig
        BY <1>1, <1>3, <2>1 DEF CacheInv
    <2>3. PICK l \in 1..Len(calls) :
             IsLast(l) /\ calls[l].sig = sig /\ calls[l].at = cache[i].value
        BY <2>2 DEF CacheInv
    <2>4. l = k
        BY <1>3, <2>3, OneLast
    <2> QED
        BY <1>3, <2>2, <2>3, <2>4
<1> QED
    BY <1>1, <1>2, <1>3 DEF SeenWithinWindow, Entries

\* What a call adds to the history.
LEMMA OneMoreCall ==
    ASSUME DedupTypes, NEW sig \in Sigs, ShouldProcess(sig),
           NEW n, n = Len(calls) + 1
    PROVE  /\ calls' \in Seq([sig : Sigs, at : Nat, processed : BOOLEAN])
           /\ Len(calls') = n /\ n \in Nat /\ n >= 1
           /\ \A k \in 1..(n - 1) : calls'[k] = calls[k]
           /\ calls'[n].sig = sig /\ calls'[n].at = now
           /\ calls'[n].processed = ~SeenWithinWindow(sig)
           /\ IsLast(n)' /\ After(n)' = {}
           /\ \A k \in 1..(n - 1) :
                 /\ After(k)' = After(k) \cup {sig}
                 /\ IsLast(k)' <=> (IsLast(k) /\ calls[k].sig # sig)
<1> DEFINE e == [sig |-> sig, at |-> now, processed |-> ~SeenWithinWindow(sig)]
<1>1. /\ e \in [sig : Sigs, at : Nat, processed : BOOLEAN]
      /\ e.sig = sig /\ e.at = now /\ e.processed = ~SeenWithinWindow(sig)
    BY DEF DedupTypes
<1>2. calls' = Append(calls, e)
    BY DEF ShouldProcess
<1>3. Len(calls) \in Nat /\ Len(calls) = n - 1 /\ n \in Nat /\ n >= 1
    BY LenProperties DEF DedupTypes
<1> HIDE DEF e
<1>4. /\ calls' \in Seq([sig : Sigs, at : Nat, processed : BOOLEAN])
      /\ Len(calls') = n
      /\ \A k \in 1..(n - 1) : calls'[k] = calls[k]
      /\ calls'[n] = e
    BY <1>1, <1>2, <1>3, AppendProperties DEF DedupTypes
<1>6. IsLast(n)' /\ After(n)' = {}
    BY <1>3, <1>4 DEF IsLast, After
<1>7. ASSUME NEW k \in 1..(n - 1)
      PROVE  /\ After(k)' = After(k) \cup {sig}
             /\ IsLast(k)' <=> (IsLast(k) /\ calls[k].sig # sig)
    <2>1. (k + 1)..n = ((k + 1)..(n - 1)) \cup {n}
        BY <1>3
    <2>2. \A j \in (k + 1)..(n - 1) : calls'[j] = calls[j]
        BY <1>3, <1>4
    <2>3. After(k)' = After(k) \cup {sig}
        <3>1. After(k)' = {calls'[j].sig : j \in (k + 1)..n}
            BY <1>4 DEF After
        <3>2. After(k) = {calls[j].sig : j \in (k + 1)..(n - 1)}
            BY <1>3 DEF After
        <3>3. calls'[n].sig = sig
            BY <1>1, <1>4
        <3> QED
            BY <2>1, <2>2, <3>1, <3>2, <3>3
    <2>4. k \in 1..n /\ calls'[k] = calls[k]
        BY <1>3, <1>4
    <2>5. IsLast(k)' <=> \A j \in (k + 1)..n : calls'[j].sig # calls'[k].sig
        BY <1>4, <2>4 DEF IsLast
    <2>6. IsLast(k) <=> \A j \in (k + 1)..(n - 1) : calls[j].sig # calls[k].sig
        BY <1>3 DEF IsLast
    <2> QED
        BY <1>1, <1>4, <2>1, <2>2, <2>3, <2>4, <2>5, <2>6
<1> QED
    BY <1>1, <1>3, <1>4, <1>6, <1>7

\* Both branches of a call leave the cache as a put would.
LEMMA PutByCall ==
    ASSUME DedupTypes, CacheInv, NEW sig \in Sigs, ShouldProcess(sig)
    PROVE  /\ cache' = PutEntry(cache, capacity, sig, now)
           /\ cache' \in Seq([key : Sigs, value : Nat])
           /\ Len(cache') <= capacity
           /\ Refreshed(cache', cache, sig, now)
           /\ \A o \in 1..Len(cache) : cache[o].key # sig =>
                 \/ \E i \in 1..Len(cache') : cache'[i] = cache[o]
                 \/ o = 1 /\ Len(cache) = capacity /\ Entries(cache, sig) = {}
<1>1. cache' = PutEntry(cache, capacity, sig, now)
    <2>1. CASE SeenWithinWindow(sig)
        BY <2>1 DEF ShouldProcess, SeenWithinWindow, PutEntry
    <2>2. CASE ~SeenWithinWindow(sig)
        BY <2>2 DEF ShouldProcess
    <2> QED
        BY <2>1, <2>2
<1>2. [key |-> sig, value |-> now] \in [key : Sigs, value : Nat]
    BY DEF DedupTypes
<1>3. /\ cache \in Seq([key : Sigs, value : Nat]) /\ DistinctKeys(cache)
      /\ Len(cache) <= capacity
    BY DEF DedupTypes, CacheInv
<1> DEFINE p == PutEntry(cache, capacity, sig, now)
           S == [key : Sigs, value : Nat]
<1> HIDE DEF S
<1>4. /\ p \in Seq(S)
      /\ Len(p) <= capacity
      /\ Refreshed(p, cache, sig, now)
      /\ \A o \in 1..Len(cache) : cache[o].key # sig =>
            \/ \E i \in 1..Len(p) : p[i] = cache[o]
            \/ o = 1 /\ Len(cache) = capacity /\ Entries(cache, sig) = {}
    <2>1. capacity \in Nat \ {0} /\ [key |-> sig, value |-> now] \in S /\ cache \in Seq(S)
        BY <1>2, <1>3, CapacityPositive DEF S
    <2>2. \A size \in Nat \ {0} : Len(cache) <= size =>
            LET q == PutEntry(cache, size, sig, now) IN
            /\ q \in Seq(S)
            /\ Len(q) <= size
            /\ Refreshed(q, cache, sig, now)
            /\ \A o \in 1..Len(cache) : cache[o].key # sig =>
                  \/ \E i \in 1..Len(q) : q[i] = cache[o]
                  \/ o = 1 /\ Len(cache) = size /\ Entries(cache, sig) = {}
        <3>1. ASSUME NEW size \in Nat \ {0}, Len(cache) <= size
              PROVE  LET q == PutEntry(cache, size, sig, now) IN
                     /\ q \in Seq(S)
                     /\ Len(q) <= size
                     /\ Refreshed(q, cache, sig, now)
                     /\ \A o \in 1..Len(cache) : cache[o].key # sig =>
                           \/ \E i \in 1..Len(q) : q[i] = cache[o]
                           \/ o = 1 /\ Len(cache) = size /\ Entries(cache, sig) = {}
            <4> DEFINE q == PutEntry(cache, size, sig, now)
            <4>1. cache \in Seq(S) /\ DistinctKeys(cache)
                  /\ [key |-> sig, value |-> now] \in S
                BY <1>3, <2>1
            <4>2. /\ q \in Seq(S)
                  /\ Len(q) <= size
                  /\ Refreshed(q, cache, sig, now)
                BY <3>1, <4>1, PutFacts
            <4>3. \A o \in 1..Len(cache) : cache[o].key # sig =>
                     \/ \E i \in 1..Len(q) : q[i] = cache[o]
                     \/ o = 1 /\ Len(cache) = size /\ Entries(cache, sig) = {}
                BY <3>1, <4>1, PutFacts
            <4> QED
                BY <4>2, <4>3, Zenon
        <3> QED
            BY <3>1, Zenon
    <2> QED
        BY <1>3, <2>1, <2>2, Zenon
<1>5. cache' = p
    BY <1>1
<1> HIDE DEF p
<1> QED
    BY <1>1, <1>4, <1>5 DEF S

\* Every entry stands for a last call after a call as it did before it.
LEMMA EntriesStep ==
    ASSUME DedupTypes, CacheInv, NEW sig \in Sigs, ShouldProcess(sig),
           NEW n, n = Len(calls) + 1, NEW i \in 1..Len(cache')
    PROVE  \E k \in 1..n :
              /\ IsLast(k)' /\ calls'[k].sig = cache'[i].key
              /\ calls'[k].at = cache'[i].value
              /\ After(k)' = KeysFrom(cache', i + 1)
<1>1. /\ n \in Nat /\ n >= 1
      /\ \A k \in 1..(n - 1) : calls'[k] = calls[k]
      /\ calls'[n].sig = sig /\ calls'[n].at = now
      /\ IsLast(n)' /\ After(n)' = {}
      /\ \A k \in 1..(n - 1) :
            /\ After(k)' = After(k) \cup {sig}
            /\ IsLast(k)' <=> (IsLast(k) /\ calls[k].sig # sig)
    BY OneMoreCall, Zenon
<1>2. /\ Refreshed(cache', cache, sig, now)
      /\ Len(cache') \in Nat /\ Len(calls) = n - 1
    BY PutByCall, LenProperties, <1>1 DEF DedupTypes
<1>3. CASE i = Len(cache')
    <2>1. cache'[i].key = sig /\ cache'[i].value = now
        BY <1>2, <1>3 DEF Refreshed
    <2>2. KeysFrom(cache', i + 1) = {}
        BY <1>2, <1>3 DEF KeysFrom
    <2>3. n \in 1..n
        BY <1>1
    <2> QED
        BY <1>1, <2>1, <2>2, <2>3
<1>4. CASE i # Len(cache')
    <2>1. i \in 1..(Len(cache') - 1)
        BY <1>2, <1>4
    <2>2. PICK o \in 1..Len(cache) :
             /\ cache'[i] = cache[o] /\ cache[o].key # sig
             /\ KeysFrom(cache', i + 1) = KeysFrom(cache, o + 1) \cup {sig}
        BY <1>2, <2>1 DEF Refreshed
    <2>3. PICK k \in 1..Len(calls) :
             /\ IsLast(k) /\ calls[k].sig = cache[o].key
             /\ calls[k].at = cache[o].value
             /\ After(k) = KeysFrom(cache, o + 1)
        BY DEF CacheInv
    <2>4. k \in 1..(n - 1) /\ k \in 1..n
        BY <1>1, <1>2
    <2>5. After(k)' = After(k) \cup {sig} /\ IsLast(k)' /\ calls'[k] = calls[k]
        BY <1>1, <2>2, <2>3, <2>4
    <2> QED
        BY <2>2, <2>3, <2>4, <2>5
<1> QED
    BY <1>3, <1>4

\* A signature without an entry has been pushed out.
LEMMA ForgottenStep ==
    ASSUME DedupTypes, CacheInv, NEW sig \in Sigs, ShouldProcess(sig),
           NEW n, n = Len(calls) + 1, NEW k \in 1..n, IsLast(k)'
    PROVE  \/ \E i \in 1..Len(cache') : cache'[i].key = calls'[k].sig
           \/ Cardinality(After(k)') >= capacity
<1>1. /\ n \in Nat /\ n >= 1
      /\ \A l \in 1..(n - 1) : calls'[l] = calls[l]
      /\ calls'[n].sig = sig
      /\ \A l \in 1..(n - 1) :
            /\ After(l)' = After(l) \cup {sig}
            /\ IsLast(l)' <=> (IsLast(l) /\ calls[l].sig # sig)
    BY OneMoreCall, Zenon
<1>2. /\ Refreshed(cache', cache, sig, now)
      /\ \A o \in 1..Len(cache) : cache[o].key # sig =>
            \/ \E i \in 1..Len(cache') : cache'[i] = cache[o]
            \/ o = 1 /\ Len(cache) = capacity /\ Entries(cache, sig) = {}
      /\ Len(calls) = n - 1 /\ Len(cache) \in Nat /\ capacity \in Nat
      /\ DOMAIN cache = 1..Len(cache)
    BY PutByCall, LenProperties, CapacityPositive, <1>1 DEF DedupTypes
<1>3. CASE k = n
    <2>1. Len(cache') \in 1..Len(cache') /\ cache'[Len(cache')].key = sig
        <3>1. Len(cache') \in Nat
            BY PutByCall, LenProperties
        <3> QED
            BY <1>2, <3>1 DEF Refreshed
    <2> QED
        BY <1>1, <1>3, <2>1
<1>4. CASE k \in 1..(n - 1)
    <2>1. /\ IsLast(k) /\ calls[k].sig # sig /\ calls'[k] = calls[k]
          /\ After(k)' = After(k) \cup {sig} /\ k \in 1..Len(calls)
        BY <1>1, <1>2, <1>4
    <2>2. IsFiniteSet(After(k)) /\ Cardinality(After(k)) \in Nat
        BY <2>1, AfterFinite
    <2>3. Cardinality(After(k)') =
             IF sig \in After(k) THEN Cardinality(After(k))
             ELSE Cardinality(After(k)) + 1
        <3>1. CASE sig \in After(k)
            <4>1. After(k)' = After(k)
                BY <2>1, <3>1
            <4> QED
                BY <3>1, <4>1
        <3>2. CASE sig \notin After(k)
            BY <2>1, <2>2, <3>2, FS_AddElement
        <3> QED
            BY <3>1, <3>2
    <2>4. CASE Cardinality(After(k)) >= capacity
        <3>1. Cardinality(After(k)') >= Cardinality(After(k))
            BY <2>2, <2>3
        <3>2. Cardinality(After(k)') \in Nat
            BY <2>2, <2>3
        <3> DEFINE m == Cardinality(After(k)')
                   l == Cardinality(After(k))
        <3>3. m \in Nat /\ l \in Nat /\ m >= l /\ l >= capacity
            BY <2>2, <2>4, <3>1, <3>2
        <3> HIDE DEF m, l
        <3>4. m >= capacity
            BY <1>2, <3>3
        <3> QED
            BY <3>4 DEF m
    <2>5. CASE ~(Cardinality(After(k)) >= capacity)
        <3>1. PICK o \in 1..Len(cache) : cache[o].key = calls[k].sig
            BY <2>1, <2>5 DEF CacheInv
        <3>2. CASE \E i \in 1..Len(cache') : cache'[i] = cache[o]
            BY <2>1, <3>1, <3>2
        <3>3. CASE o = 1 /\ Len(cache) = capacity /\ Entries(cache, sig) = {}
            <4>1. PICK l \in 1..Len(calls) :
                     /\ IsLast(l) /\ calls[l].sig = cache[o].key
                     /\ After(l) = KeysFrom(cache, o + 1)
                BY DEF CacheInv
            <4>2. l = k
                BY <2>1, <3>1, <4>1, OneLast
            <4>3. Cardinality(KeysFrom(cache, o + 1)) = Len(cache) - (o + 1) + 1
                <5>1. cache \in Seq([key : Sigs, value : Nat]) /\ DistinctKeys(cache)
                    BY DEF DedupTypes, CacheInv
                <5>2. o + 1 \in 1..(Len(cache) + 1)
                    BY <1>2, <3>3
                <5> QED
                    BY <5>1, <5>2, KeysCount
            <4>4. sig \notin KeysFrom(cache, o + 1)
                BY <1>2, <3>3 DEF Entries, KeysFrom
            <4>5. Cardinality(After(k)) = capacity - 1 /\ sig \notin After(k)
                BY <1>2, <3>3, <4>1, <4>2, <4>3, <4>4
            <4>6. Cardinality(After(k)') = (capacity - 1) + 1
                BY <2>3, <4>5
            <4>7. (capacity - 1) + 1 >= capacity
                BY CapacityPositive
            <4> QED
                BY <4>6, <4>7
        <3> QED
            BY <1>2, <2>1, <3>1, <3>2, <3>3
    <2> QED
        BY <2>4, <2>5
<1> QED
    BY <1>1, <1>3, <1>4

\* The answers given before a call stay right, and its own is.
LEMMA RefusedStep ==
    ASSUME DedupTypes, CacheInv, RefusedIffRecent, NEW sig \in Sigs,
           ShouldProcess(sig), NEW n, n = Len(calls) + 1
    PROVE  RefusedIffRecent'
<1>1. /\ n \in Nat /\ n >= 1 /\ calls' \in Seq([sig : Sigs, at : Nat, processed : BOOLEAN])
      /\ Len(calls') = n
      /\ \A k \in 1..(n - 1) : calls'[k] = calls[k]
      /\ calls'[n].sig = sig /\ calls'[n].at = now
      /\ calls'[n].processed = ~SeenWithinWindow(sig)
    BY OneMoreCall, Zenon
<1>2. /\ DOMAIN calls = 1..Len(calls) /\ DOMAIN calls' = 1..Len(calls')
      /\ Len(calls) = n - 1
    BY <1>1, LenProperties DEF DedupTypes
<1>3. ASSUME NEW m \in 1..(n - 1)
      PROVE  ~calls'[m].processed <=>
                \E i \in LastCall(m)' :
                   /\ calls'[m].at - calls'[i].at < time_window
                   /\ Cardinality({calls'[j].sig : j \in (i + 1)..(m - 1)}) < capacity
    <2>1. \A j \in 1..m : j \in 1..(n - 1) /\ calls'[j] = calls[j]
        BY <1>1
    <2>2. \A j \in 1..(m - 1) : j \in 1..m
        BY <1>1
    <2>3. LastCall(m)' = LastCall(m)
        <3>1. \A i \in 1..(m - 1) : \A j \in (i + 1)..(m - 1) : j \in 1..m
            BY <1>1
        <3>2. m \in 1..m
            BY <1>1
        <3> QED
            BY <2>1, <2>2, <3>1, <3>2 DEF LastCall
    <2>4. ASSUME NEW i \in LastCall(m)
          PROVE  /\ calls'[i] = calls[i] /\ calls'[m] = calls[m]
                 /\ {calls'[j].sig : j \in (i + 1)..(m - 1)}
                       = {calls[j].sig : j \in (i + 1)..(m - 1)}
        <3>1. i \in 1..(m - 1)
            BY DEF LastCall
        <3>2. i \in 1..(n - 1) /\ \A j \in (i + 1)..(m - 1) : j \in 1..(n - 1)
            BY <1>1, <3>1
        <3>3. calls'[i] = calls[i] /\ calls'[m] = calls[m]
            BY <1>1, <3>2
        <3>4. \A j \in (i + 1)..(m - 1) : calls'[j] = calls[j]
            BY <1>1, <3>2
        <3> QED
            BY <3>3, <3>4
    <2>5. ~calls[m].processed <=>
             \E i \in LastCall(m) :
                /\ calls[m].at - calls[i].at < time_window
                /\ Cardinality({calls[j].sig : j \in (i + 1)..(m - 1)}) < capacity
        BY <1>2 DEF RefusedIffRecent
    <2>6. calls'[m] = calls[m]
        BY <1>1
    <2> QED
        BY <2>3, <2>4, <2>5, <2>6, ZenonT(60)
<1>4. ~calls'[n].processed <=>
         \E i \in LastCall(n)' :
            /\ calls'[n].at - calls'[i].at < time_window
            /\ Cardinality({calls'[j].sig : j \in (i + 1)..(n - 1)}) < capacity
    <2>1. SeenWithinWindow(sig) <=>
              \E k \in 1..Len(calls) :
                 /\ IsLast(k) /\ calls[k].sig = sig
                 /\ now - calls[k].at < time_window
                 /\ Cardinality(After(k)) < capacity
        BY RefusedRight
    <2>2. ASSUME NEW k \in 1..(n - 1)
          PROVE  /\ k \in LastCall(n)' <=> (IsLast(k) /\ calls[k].sig = sig)
                 /\ calls'[k] = calls[k]
                 /\ {calls'[j].sig : j \in (k + 1)..(n - 1)} = After(k)
        <3>1. \A j \in (k + 1)..(n - 1) : calls'[j] = calls[j]
            BY <1>1
        <3>2. calls'[k] = calls[k]
            BY <1>1
        <3>3. {calls'[j].sig : j \in (k + 1)..(n - 1)} = After(k)
            BY <1>2, <3>1 DEF After
        <3>4. k \in LastCall(n)' <=>
                 /\ calls'[k].sig = calls'[n].sig
                 /\ \A j \in (k + 1)..(n - 1) : calls'[j].sig # calls'[n].sig
            BY DEF LastCall
        <3>5. IsLast(k) <=> \A j \in (k + 1)..(n - 1) : calls[j].sig # calls[k].sig
            BY <1>2 DEF IsLast
        <3> QED
            BY <1>1, <3>1, <3>2, <3>3, <3>4, <3>5
    <2>3. LastCall(n)' \subseteq 1..(n - 1)
        BY DEF LastCall
    <2>4. ASSUME SeenWithinWindow(sig)
          PROVE  \E i \in LastCall(n)' :
                    /\ calls'[n].at - calls'[i].at < time_window
                    /\ Cardinality({calls'[j].sig : j \in (i + 1)..(n - 1)}) < capacity
        BY <1>1, <1>2, <2>1, <2>2, <2>4
    <2>5. ASSUME NEW i \in 1..(n - 1), i \in LastCall(n)',
                 calls'[n].at - calls'[i].at < time_window,
                 Cardinality({calls'[j].sig : j \in (i + 1)..(n - 1)}) < capacity
          PROVE  SeenWithinWindow(sig)
        BY <1>1, <1>2, <2>1, <2>2, <2>3, <2>5
    <2>6. ~calls'[n].processed <=> SeenWithinWindow(sig)
        BY <1>1, Zenon
    <2> QED
        BY <2>3, <2>4, <2>5, <2>6, Zenon
<1>5. \A m \in 1..n : m = n \/ m \in 1..(n - 1)
    BY <1>1
<1> QED
    BY <1>1, <1>2, <1>3, <1>4, <1>5 DEF RefusedIffRecent

\* For all signatures, windows and sizes of the cache, should_process refuses
\* a signature exactly when it was offered less than time_window ago and fewer
\* than max_size others were since (deduplicator.rs:28-52): the order of the
\* entries, refreshed by duplicates too, is the order of the last calls.
THEOREM RefusedIffRecentAlways == DedupSpec => []RefusedIffRecent
<1> DEFINE Inv == DedupTypes /\ CacheInv /\ RefusedIffRecent
<1>1. DedupInit => Inv
    <2> SUFFICES ASSUME DedupInit PROVE Inv
        OBVIOUS
    <2>1. Len(cache) = 0 /\ Len(calls) = 0 /\ DOMAIN calls = {}
        BY EmptySeq DEF DedupInit
    <2>2. DedupTypes
        BY EmptySeq DEF DedupInit, DedupTypes
    <2>3. CacheInv
        BY <2>1, CapacityPositive DEF CacheInv, DistinctKeys
    <2> QED
        BY <2>1, <2>2, <2>3 DEF RefusedIffRecent
<1>2. Inv /\ [DedupNext]_dedupVars => Inv'
    <2> SUFFICES ASSUME Inv, [DedupNext]_dedupVars PROVE Inv'
        OBVIOUS
    <2>1. CASE UNCHANGED dedupVars \/ Tick
        <3>1. cache' = cache /\ calls' = calls /\ now' \in Nat
            BY <2>1 DEF dedupVars, Tick, DedupTypes
        <3>2. DedupTypes'
            BY <3>1 DEF DedupTypes
        <3>3. CacheInv'
            <4>1. \A k : (IsLast(k)' <=> IsLast(k)) /\ After(k)' = After(k)
                BY <3>1 DEF IsLast, After
            <4> QED
                BY <3>1, <4>1 DEF CacheInv
        <3>4. RefusedIffRecent'
            <4>1. \A n : LastCall(n)' = LastCall(n)
                BY <3>1 DEF LastCall
            <4>2. \A i, n : {calls'[j].sig : j \in (i + 1)..(n - 1)}
                               = {calls[j].sig : j \in (i + 1)..(n - 1)}
                BY <3>1
            <4> QED
                BY <3>1, <4>1, <4>2, Zenon DEF RefusedIffRecent
        <3> QED
            BY <3>2, <3>3, <3>4
    <2>2. ASSUME NEW sig \in Sigs, ShouldProcess(sig) PROVE Inv'
        <3> DEFINE n == Len(calls) + 1
        <3>1. /\ \A i \in 1..Len(cache') : \E k \in 1..n :
                    /\ IsLast(k)' /\ calls'[k].sig = cache'[i].key
                    /\ calls'[k].at = cache'[i].value
                    /\ After(k)' = KeysFrom(cache', i + 1)
              /\ \A k \in 1..n : IsLast(k)' =>
                    \/ \E i \in 1..Len(cache') : cache'[i].key = calls'[k].sig
                    \/ Cardinality(After(k)') >= capacity
              /\ RefusedIffRecent'
            BY <2>2, EntriesStep, ForgottenStep, RefusedStep
        <3>2. /\ calls' \in Seq([sig : Sigs, at : Nat, processed : BOOLEAN])
              /\ Len(calls') = n
            BY <2>2, OneMoreCall
        <3>3. /\ cache' \in Seq([key : Sigs, value : Nat])
              /\ Len(cache') <= capacity /\ DistinctKeys(cache')
            BY <2>2, PutByCall DEF Refreshed
        <3>4. DedupTypes'
            BY <2>2, <3>2, <3>3 DEF DedupTypes, ShouldProcess
        <3> HIDE DEF n
        <3>5. CacheInv'
            BY <3>1, <3>2, <3>3 DEF CacheInv
        <3> QED
            BY <3>1, <3>4, <3>5
    <2> QED
        BY <2>1, <2>2 DEF DedupNext
<1> QED
    BY <1>1, <1>2, PTL DEF DedupSpec
=============================================================================
