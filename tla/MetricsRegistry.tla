---------------------------- MODULE MetricsRegistry ----------------------------
(***************************************************************************)
(* MetricsRegistry and DexMetricsCollector of                              *)
(* src/src/observability/metrics.rs.                                       *)
(*                                                                         *)
(* The registry is three maps, each behind a tokio RwLock, which is fair:  *)
(* waiting tasks are served in the order of their requests, readers that   *)
(* stand next to each other together.  A metric that exists is recorded    *)
(* under the read guard; a metric that does not is inserted under a write  *)
(* guard, asked for after the read guard was dropped.                      *)
(*                                                                         *)
(* A section between a guard and the next await is one step: under a read  *)
(* guard no entry can be replaced, and the atomic or lock of one entry is  *)
(* accessed once.  The work of a task is the list of its accesses to come. *)
(***************************************************************************)
EXTENDS Integers, Sequences, SequencesExt, Functions

CONSTANTS MetricTasks,  \* the tasks that use the registry
          MetricNames,  \* the strings that name metrics
          Menu(_),      \* the calls a task makes: each a sequence of accesses
          MaxMetricCalls(_)  \* bound: how many of them it makes

Maps == {"counters", "gauges", "histograms"}

\* Counters are unsigned.
Accesses ==
    {a \in [op : {"record", "get", "hold"}, map : Maps, name : MetricNames, value : Int] :
        a.map = "counters" => a.value >= 0}

ASSUME RegistryAssumption ==
    /\ IsFiniteSet(MetricTasks)
    /\ \A t \in MetricTasks : Menu(t) \subseteq Seq(Accesses)

VARIABLES metrics,      \* per map, its entries
          queue,        \* per map, the requests for its lock, oldest first
          guards,       \* per map, the tasks that keep a read guard on it
          todo, at,     \* per task, its accesses to come, and where it is
          read,         \* per task, the counters its latest call has read
          recorded,     \* per task, the map and name of the metrics it has recorded
          overwritten,  \* the metrics an insertion has replaced
          metric_calls  \* per task, the calls it has made

registryVars ==
    <<metrics, queue, guards, todo, at, read, recorded, overwritten, metric_calls>>

RegistryInit ==
    /\ metrics = [map \in Maps |-> << >>]
    /\ queue = [map \in Maps |-> << >>]
    /\ guards = [map \in Maps |-> {}]
    /\ todo = [t \in MetricTasks |-> << >>]
    /\ at = [t \in MetricTasks |-> "next"]
    /\ read = [t \in MetricTasks |-> << >>]
    /\ recorded = [t \in MetricTasks |-> {}]
    /\ overwritten = {}
    /\ metric_calls = [t \in MetricTasks |-> 0]
-----------------------------------------------------------------------------
(* The accesses, and the calls that are made of them.                      *)

Access(op, map, name, value) ==
    [op |-> op, map |-> map, name |-> name, value |-> value]

increment_counter(name, value) == Access("record", "counters", name, value)
set_gauge(name, value) == Access("record", "gauges", name, value)
record_histogram(name, value) == Access("record", "histograms", name, value)
get_counter(name) == Access("get", "counters", name, 0)
get_gauge(name) == Access("get", "gauges", name, 0)

\* A scrape keeps the guard of each map until the text is complete.
export_prometheus ==
    <<Access("hold", "counters", "", 0), Access("hold", "gauges", "", 0),
      Access("hold", "histograms", "", 0)>>

pair_trades(pair) == "trades_total_pair_" \o pair

\* Mutant: the pair is counted before the total.
record_trade_PairFirst(pair, price, volume) ==
    Reverse(<<increment_counter("trades_total", 1),
              increment_counter(pair_trades(pair), 1)>>)

record_trade(pair, price, volume) ==
    <<increment_counter("trades_total", 1),
      record_histogram("trade_size_usd", volume),
      record_histogram("trade_price", price),
      increment_counter(pair_trades(pair), 1),
      set_gauge("volume_usd_pair_" \o pair, volume)>>

record_dex_interaction(program_id, instruction_type) ==
    <<increment_counter(
        "dex_instructions_" \o program_id \o "_" \o instruction_type, 1)>>

record_processing_latency(operation, millis) ==
    <<record_histogram("processing_latency_" \o operation, millis)>>

record_user_activity(wallet) ==
    <<increment_counter("unique_users_total", 1),
      set_gauge("daily_active_users_" \o wallet, 1)>>

summary_pairs == <<pair_trades("SOL/USDC"), pair_trades("ETH/SOL")>>

\* The three counters of a summary have different names.
ASSUME SummaryAssumption ==
    /\ summary_pairs[1] # summary_pairs[2]
    /\ "trades_total" \notin {summary_pairs[1], summary_pairs[2]}

get_business_metrics ==
    <<get_counter(summary_pairs[1]), get_counter(summary_pairs[2]),
      get_counter("trades_total")>>

Gauges(names) == [i \in DOMAIN names |-> set_gauge(names[i], 1)]

\* What is set is constant, except that the whole uptime is added each time.
update_system_metrics(uptime) ==
    Gauges(<<"cpu_usage_percent", "memory_usage_mb">>)
    \o <<increment_counter("process_uptime_seconds", uptime)>>
    \o Gauges(<<"network_bytes_in_per_sec", "network_bytes_out_per_sec",
                "network_packets_in_per_sec", "network_packets_out_per_sec",
                "process_thread_count", "process_fd_count",
                "jvm_memory_used_mb", "jvm_memory_peak_mb">>)
    \o <<increment_counter("jvm_gc_count", 1), set_gauge("jvm_gc_total_time_ms", 1)>>

\* Reads what update_system_metrics records, each entry under its own guard.
get_system_metrics ==
    LET written == update_system_metrics(0)
    IN  [i \in DOMAIN written |-> [written[i] EXCEPT !.op = "get"]]
-----------------------------------------------------------------------------
(* The locks.                                                              *)

Request(t, mode) == [task |-> t, mode |-> mode]

Ahead(t, map) ==
    SubSeq(queue[map], 1, SelectInSeq(queue[map], LAMBDA r : r.task = t) - 1)

\* Nobody waits: the guard is had at once.  Otherwise the task's turn comes.
MayRead(t, map) ==
    \/ at[t] = "next" /\ queue[map] = << >>
    \/ /\ at[t] = "reading"
       /\ \A i \in DOMAIN Ahead(t, map) : Ahead(t, map)[i].mode = "read"

MayWrite(t, map) ==
    /\ guards[map] = {}
    /\ \/ at[t] = "missed" /\ queue[map] = << >>
       \/ at[t] = "writing" /\ Ahead(t, map) = << >>

Served(t, map) ==
    [queue EXCEPT ![map] = SelectSeq(@, LAMBDA r : r.task # t)]

Doing(t, op) == todo[t] # << >> /\ Head(todo[t]).op = op

Done(t) ==
    /\ todo' = [todo EXCEPT ![t] = Tail(@)]
    /\ at' = [at EXCEPT ![t] = "next"]

Exists(op) == op.name \in DOMAIN metrics[op.map]

\* fetch_add, store, or a push onto the values.
Recorded(op) ==
    CASE op.map = "counters" -> metrics.counters[op.name] + op.value
      [] op.map = "gauges" -> op.value
      [] op.map = "histograms" -> Append(metrics.histograms[op.name], op.value)

Fresh(op) == IF op.map = "histograms" THEN <<op.value>> ELSE op.value

Put(f, name, value) ==
    [x \in {name} \cup DOMAIN f |-> IF x = name THEN value ELSE f[x]]

With(op, value) == [metrics EXCEPT ![op.map] = Put(@, op.name, value)]

WaitToRead(t) ==
    /\ todo[t] # << >> /\ at[t] = "next"
    /\ LET map == Head(todo[t]).map
       IN  /\ queue[map] # << >>
           /\ queue' = [queue EXCEPT ![map] = Append(@, Request(t, "read"))]
    /\ at' = [at EXCEPT ![t] = "reading"]
    /\ UNCHANGED <<metrics, guards, todo, read, recorded, overwritten, metric_calls>>

RecordFound(t) ==
    /\ Doing(t, "record")
    /\ LET op == Head(todo[t])
       IN  /\ MayRead(t, op.map) /\ Exists(op)
           /\ metrics' = With(op, Recorded(op))
           /\ queue' = Served(t, op.map)
           /\ recorded' = [recorded EXCEPT ![t] = @ \cup {<<op.map, op.name>>}]
    /\ Done(t)
    /\ UNCHANGED <<guards, read, overwritten, metric_calls>>

\* Mutant: the entry is also missed when it is there.
RecordMissed_Always(t) ==
    /\ Doing(t, "record")
    /\ LET op == Head(todo[t])
       IN  /\ MayRead(t, op.map)
           /\ queue' = Served(t, op.map)
    /\ at' = [at EXCEPT ![t] = "missed"]
    /\ UNCHANGED <<metrics, guards, todo, read, recorded, overwritten, metric_calls>>

\* Mutant: the read guard is still held when the write guard is asked for.
RecordMissed_KeepsGuard(t) ==
    /\ Doing(t, "record")
    /\ LET op == Head(todo[t])
       IN  /\ MayRead(t, op.map) /\ ~Exists(op)
           /\ queue' = Served(t, op.map)
           /\ guards' = [guards EXCEPT ![op.map] = @ \cup {t}]
    /\ at' = [at EXCEPT ![t] = "missed"]
    /\ UNCHANGED <<metrics, todo, read, recorded, overwritten, metric_calls>>

RecordMissed(t) ==
    /\ Doing(t, "record")
    /\ LET op == Head(todo[t])
       IN  /\ MayRead(t, op.map) /\ ~Exists(op)
           /\ queue' = Served(t, op.map)
    /\ at' = [at EXCEPT ![t] = "missed"]
    /\ UNCHANGED <<metrics, guards, todo, read, recorded, overwritten, metric_calls>>

WaitToWrite(t) ==
    /\ at[t] = "missed"
    /\ LET map == Head(todo[t]).map
       IN  /\ ~MayWrite(t, map)
           /\ queue' = [queue EXCEPT ![map] = Append(@, Request(t, "write"))]
    /\ at' = [at EXCEPT ![t] = "writing"]
    /\ UNCHANGED <<metrics, guards, todo, read, recorded, overwritten, metric_calls>>

\* The entry is inserted without another look at the map.
Insert(t) ==
    /\ Doing(t, "record")
    /\ LET op == Head(todo[t])
       IN  /\ MayWrite(t, op.map)
           /\ metrics' = With(op, Fresh(op))
           /\ overwritten' = overwritten \cup ({op.name} \cap DOMAIN metrics[op.map])
           /\ queue' = Served(t, op.map)
           /\ recorded' = [recorded EXCEPT ![t] = @ \cup {<<op.map, op.name>>}]
    /\ Done(t)
    /\ UNCHANGED <<guards, read, metric_calls>>

\* get_counter and get_gauge: zero for a metric that does not exist.
Get(t) ==
    /\ Doing(t, "get")
    /\ LET op == Head(todo[t])
           value == IF Exists(op) THEN metrics[op.map][op.name] ELSE 0
       IN  /\ MayRead(t, op.map)
           /\ queue' = Served(t, op.map)
           /\ read' = IF op.map = "counters"
                        THEN [read EXCEPT ![t] = Put(@, op.name, value)]
                        ELSE read
    /\ Done(t)
    /\ UNCHANGED <<metrics, guards, recorded, overwritten, metric_calls>>

\* The guards go when export_prometheus returns, after the histograms.
Hold(t) ==
    /\ Doing(t, "hold")
    /\ LET map == Head(todo[t]).map
       IN  /\ MayRead(t, map)
           /\ queue' = Served(t, map)
           /\ guards' = IF map = "histograms"
                          THEN [m \in Maps |-> guards[m] \ {t}]
                          ELSE [guards EXCEPT ![map] = @ \cup {t}]
    /\ Done(t)
    /\ UNCHANGED <<metrics, read, recorded, overwritten, metric_calls>>

RegistryStep(t) ==
    \/ WaitToRead(t) \/ RecordFound(t) \/ RecordMissed(t)
    \/ WaitToWrite(t) \/ Insert(t) \/ Get(t) \/ Hold(t)

Call(t) ==
    /\ todo[t] = << >> /\ metric_calls[t] < MaxMetricCalls(t)
    /\ todo' \in {[todo EXCEPT ![t] = call] : call \in Menu(t)}
    /\ read' = [read EXCEPT ![t] = << >>]
    /\ metric_calls' = [metric_calls EXCEPT ![t] = @ + 1]
    /\ UNCHANGED <<metrics, queue, guards, at, recorded, overwritten>>

RegistryNext == \E t \in MetricTasks : RegistryStep(t) \/ Call(t)

RegistrySpec ==
    /\ RegistryInit /\ [][RegistryNext]_registryVars
    /\ \A t \in MetricTasks : WF_registryVars(RegistryStep(t))
-----------------------------------------------------------------------------
(* A counter goes back only when a task that has not recorded it before    *)
(* finishes its first increment_counter, having found it missing: what is  *)
(* lost may be everything counted so far, but a task loses nothing more    *)
(* once it has recorded the counter itself.                                *)
LossOnlyAtFirst ==
    [][metrics' # metrics =>
         \A name \in DOMAIN metrics.counters :
             metrics'.counters[name] < metrics.counters[name] =>
                 \E t \in MetricTasks :
                     /\ todo'[t] # todo[t] /\ todo[t] # << >>
                     /\ Head(todo[t]).name = name
                     /\ <<"counters", name>> \notin recorded[t]]_registryVars

(* As long as no insertion has replaced the total, a summary of            *)
(* get_business_metrics never shows more trades of its pairs than trades:  *)
(* record_trade counts the total first and the summary reads it last.      *)
SummaryConsistent ==
    \A t \in MetricTasks :
        "trades_total" \in DOMAIN read[t] \ overwritten =>
            read[t][summary_pairs[1]] + read[t][summary_pairs[2]]
               <= read[t]["trades_total"]

\* What it rests on: a call counts at most one trade of a pair, its total
\* first, and reads the total after all it reads of the pairs.
Counts(op, name) == op.op = "record" /\ op.map = "counters" /\ op.name = name

Gets(op, name) == op.op = "get" /\ op.map = "counters" /\ op.name = name

CountsPair(op) == Counts(op, summary_pairs[1]) \/ Counts(op, summary_pairs[2])

GetsPair(op) == Gets(op, summary_pairs[1]) \/ Gets(op, summary_pairs[2])

CountsTotal(op) == Counts(op, "trades_total") /\ op.value >= 1

TradesInOrder(call) ==
    /\ \A i \in DOMAIN call : CountsPair(call[i]) =>
          /\ call[i].value = 1
          /\ \E k \in 1..(i - 1) : CountsTotal(call[k])
          /\ \A j \in DOMAIN call : CountsPair(call[j]) => j = i
    /\ \A i \in DOMAIN call : Gets(call[i], "trades_total") =>
          /\ \A p \in {1, 2} : \E k \in 1..(i - 1) : Gets(call[k], summary_pairs[p])
          /\ \A j \in DOMAIN call : GetsPair(call[j]) => j < i

(* Every call returns: no scrape that keeps guards, and no insertion after *)
(* a look-up, waits for ever, whatever the other tasks ask for.            *)
CallsReturn == \A t \in MetricTasks : []<>(todo[t] = << >>)
=============================================================================
