----------------------------- MODULE EventFilter -----------------------------
(***************************************************************************)
(* filters.rs: EventFilter::matches and the FilterBuilder.  A field of a   *)
(* filter is an Option, here the set of its value, if it has one.          *)
(***************************************************************************)
EXTENDS SolanaEvents

CONSTANTS
    Events,          \* the events a filter is asked about
    TypeLists,       \* what the fields of a filter may be set to
    SlotBounds,
    ProgramLists,
    Amounts,
    SignatureLists,
    CustomFilters    \* each as the set of signatures it lets through

VARIABLE filter

NoFilter ==
    [event_types |-> {}, min_slot |-> {}, max_slot |-> {}, program_ids |-> {},
     min_amount |-> {}, signatures |-> {}, custom_filter |-> {}]

\* An empty list is no condition.
listed(option, values) ==
    \A list \in option : list # {} => values \cap list # {}

event_value(event) ==
    CASE event.event_type = "DexTrade" -> amount_base(event)
      [] event.event_type = "TokenTransfer" -> get_data_u64_field(event, "amount")
      [] OTHER -> {}

\* Mutant: an amount that is large enough decides.
matches_AmountDecides(f, event) ==
    /\ listed(f.event_types, {event.event_type})
    /\ \A min \in f.min_slot : event.slot >= min
    /\ \A max \in f.max_slot : event.slot <= max
    /\ listed(f.program_ids, program_id(event))
    /\ \/ \E min \in f.min_amount, a \in event_value(event) : a >= min
       \/ /\ f.min_amount = {}
             \/ event.event_type \notin {"DexTrade", "TokenTransfer"}
          /\ listed(f.signatures, {event.signature})
          /\ \A passing \in f.custom_filter : event.signature \in passing

matches(f, event) ==
    /\ listed(f.event_types, {event.event_type})
    /\ \A min \in f.min_slot : event.slot >= min
    /\ \A max \in f.max_slot : event.slot <= max
    /\ listed(f.program_ids, program_id(event))
    /\ \A min \in f.min_amount :
          event.event_type \in {"DexTrade", "TokenTransfer"} =>
              \E amount \in event_value(event) : amount >= min
    /\ listed(f.signatures, {event.signature})
    /\ \A passing \in f.custom_filter : event.signature \in passing
-----------------------------------------------------------------------------
(* FilterBuilder: a chain of calls, each of which overwrites its fields.   *)

FilterInit == filter = NoFilter

Set(field, value) == filter' = [filter EXCEPT ![field] = {value}]

slot_range(min, max) ==
    filter' = [filter EXCEPT !.min_slot = {min}, !.max_slot = {max}]

FilterNext ==
    \/ \E types \in TypeLists : Set("event_types", types)
    \/ \E slot \in SlotBounds : Set("min_slot", slot) \/ Set("max_slot", slot)
    \/ \E min, max \in SlotBounds : slot_range(min, max)
    \/ \E ids \in ProgramLists : Set("program_ids", ids)
    \/ \E amount \in Amounts : Set("min_amount", amount)
    \/ \E list \in SignatureLists : Set("signatures", list)
    \/ \E passing \in CustomFilters : Set("custom_filter", passing)

FilterSpec == FilterInit /\ [][FilterNext]_filter
-----------------------------------------------------------------------------
Passing(f) == {event \in Events : matches(f, event)}

\* A condition that is added or replaced can only narrow what the others let
\* pass, whichever conditions and kinds of events there are
\* (filters.rs:44-125; "For an event to pass the filter, it must satisfy all
\* specified (non-`None`) conditions", filters.rs:11).
Unchanged == {field \in DOMAIN filter : filter'[field] = filter[field]}

ConditionsNarrow ==
    [][filter' # filter =>
          Passing(filter') \subseteq
             Passing([field \in DOMAIN filter |->
                         IF field \in Unchanged THEN filter[field] ELSE {}])]_filter
=============================================================================
