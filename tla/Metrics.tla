------------------------------ MODULE Metrics -------------------------------
(***************************************************************************)
(* The metrics pipeline: workers count responses per batch and hand their  *)
(* counters over with publish_metrics (worker.rs), a bounded channel of    *)
(* num_workers * 2 snapshots (main.rs), and the MetricsAggregator thread   *)
(* that drains it, accumulates per worker and reports.  Of the counters,   *)
(* ResponseMetrics stands for all: it is the one with the u8 histogram.    *)
(***************************************************************************)
EXTENDS Naturals, Sequences, FiniteSets, Functions

CONSTANTS
  Workers,           \* worker ids
  BatchSize,         \* largest batch
  MetricsInterval,   \* Args::metrics_interval: publication and report interval, seconds
  MaxDrainGap,       \* bound: seconds between the end of one drain and of the next
  MaxBatches,        \* bound: batches handled by each worker
  MaxClock           \* bound: last value of the clock

ASSUME MetricsAssumption ==
  /\ IsFiniteSet(Workers) /\ Workers # {}
  /\ BatchSize \in 1..64 /\ MetricsInterval \in Nat
  /\ MaxDrainGap \in Nat /\ MaxBatches \in Nat /\ MaxClock \in Nat

VARIABLES
  clock, keep_running,
  counters,        \* per worker: ResponseMetrics since its last publication
  next_publish,    \* per worker: Worker.next_metrics_publication
  chan,            \* the channel: snapshots with their worker id
  apc,             \* aggregator: "sleep", "drain", "report", "done"
  aggregated,      \* MetricsAggregator.aggregated_metrics
  next_report, last_report_time,
  report,          \* the last report: [duration, num_responses]
  drained,         \* clock when the last drain found the channel empty
  handled, lost,   \* history, per worker: responses counted, responses in dropped snapshots
  batches          \* history, per worker: batches handled

wvars == <<counters, next_publish, handled, lost, batches>>
avars == <<apc, aggregated, next_report, last_report_time, report, drained>>
vars == <<clock, keep_running, chan, wvars, avars>>

\* Mutant: room for one snapshot per worker.
Capacity_Single == Cardinality(Workers)

\* bounded(num_workers * 2)
Capacity == 2 * Cardinality(Workers)

Zeros == [num_responses |-> 0, batch_sizes |-> [n \in 1..BatchSize |-> 0]]

\* ResponseMetrics::add_batch_size: the histogram entries are u8 and wrap in a
\* release build.
add_batch_size(m, n) ==
  [num_responses |-> m.num_responses + n,
   batch_sizes |-> [m.batch_sizes EXCEPT ![n] = (@ + 1) % 256]]

\* AddAssign for ResponseMetrics.
add_assign(m, r) ==
  [num_responses |-> m.num_responses + r.num_responses,
   batch_sizes |-> [n \in 1..BatchSize |-> (m.batch_sizes[n] + r.batch_sizes[n]) % 256]]

\* calc_aggregated_metrics: the total the report divides by its duration.
TotalResponses(agg) == SumFunction([w \in Workers |-> agg[w].num_responses])

Init ==
  /\ clock = 0 /\ keep_running = TRUE
  /\ counters = [w \in Workers |-> Zeros]
  /\ next_publish = [w \in Workers |-> MetricsInterval]
  /\ chan = <<>>
  /\ apc = "sleep" /\ aggregated = [w \in Workers |-> Zeros]
  /\ next_report = MetricsInterval /\ last_report_time = 0
  /\ report = [duration |-> 0, num_responses |-> 0]
  /\ drained = 0
  /\ handled = [w \in Workers |-> 0] /\ lost = [w \in Workers |-> 0]
  /\ batches = [w \in Workers |-> 0]

\* process_responses counts a batch of n requests.
HandleBatch(w, n) ==
  /\ batches[w] < MaxBatches
  /\ counters' = [counters EXCEPT ![w] = add_batch_size(@, n)]
  /\ batches' = [batches EXCEPT ![w] = @ + 1]
  /\ handled' = [handled EXCEPT ![w] = @ + n]
  /\ UNCHANGED <<clock, keep_running, chan, next_publish, lost, avars>>

HasRoom == Len(chan) < Capacity

\* publish_metrics: try_send drops the snapshot when the channel is full, and the
\* counters start again either way.  Reading the flag at the loop top and publishing
\* are one step: no other thread can tell the difference.
PublishMetrics(w) ==
  /\ keep_running /\ clock >= next_publish[w]
  /\ IF HasRoom
     THEN chan' = Append(chan, [worker_id |-> w, response |-> counters[w]]) /\ UNCHANGED lost
     ELSE lost' = [lost EXCEPT ![w] = @ + counters[w].num_responses] /\ UNCHANGED chan
  /\ counters' = [counters EXCEPT ![w] = Zeros]
  /\ next_publish' = [next_publish EXCEPT ![w] = clock + MetricsInterval]
  /\ UNCHANGED <<clock, keep_running, handled, batches, avars>>

\* MetricsAggregator::run, top of the loop: sleep 500 ms, or leave without a last
\* look at the channel.
Wake ==
  /\ apc = "sleep"
  /\ apc' = IF keep_running THEN "drain" ELSE "done"
  /\ UNCHANGED <<clock, keep_running, chan, wvars, aggregated, next_report,
                 last_report_time, report, drained>>

\* Mutants: the drain stops at once; every snapshot goes to one accumulator.
Drained_Always == TRUE
Slot_One(s) == CHOOSE w \in Workers : TRUE

Drained == chan = <<>>
Slot(s) == s.worker_id

\* while let Ok(metrics) = try_recv()
Drain ==
  /\ apc = "drain"
  /\ IF Drained
     THEN apc' = "report" /\ drained' = clock /\ UNCHANGED <<chan, aggregated>>
     ELSE LET s == Head(chan)
          IN  /\ aggregated' = [aggregated EXCEPT ![Slot(s)] = add_assign(@, s.response)]
              /\ chan' = Tail(chan)
              /\ UNCHANGED <<apc, drained>>
  /\ UNCHANGED <<clock, keep_running, wvars, next_report, last_report_time, report>>

\* The report, when due, covers the time since the one before.
ReportMetrics ==
  /\ apc = "report"
  /\ apc' = "sleep"
  /\ IF clock >= next_report
     THEN /\ report' = [duration |-> clock - last_report_time,
                        num_responses |-> TotalResponses(aggregated)]
          /\ last_report_time' = clock
          /\ next_report' = clock + MetricsInterval
     ELSE UNCHANGED <<report, last_report_time, next_report>>
  /\ UNCHANGED <<clock, keep_running, chan, wvars, aggregated, drained>>

\* Time passes, but not more than MaxDrainGap without a completed drain.
Tick ==
  /\ clock < MaxClock
  /\ apc = "done" \/ clock - drained < MaxDrainGap
  /\ clock' = clock + 1
  /\ UNCHANGED <<keep_running, chan, wvars, avars>>

CtrlC ==
  /\ keep_running
  /\ keep_running' = FALSE
  /\ UNCHANGED <<clock, chan, wvars, avars>>

Terminated == apc = "done" /\ UNCHANGED vars

Aggregator == Wake \/ Drain \/ ReportMetrics

Next ==
  \/ \E w \in Workers : PublishMetrics(w) \/ \E n \in 1..BatchSize : HandleBatch(w, n)
  \/ Aggregator \/ Tick \/ CtrlC \/ Terminated

\* The aggregator thread is scheduled by the OS and never blocks for good.
Spec == Init /\ [][Next]_vars /\ WF_vars(Aggregator)

-----------------------------------------------------------------------------
InChannel(w) ==
  SumFunction([i \in DOMAIN chan |->
                 IF chan[i].worker_id = w THEN chan[i].response.num_responses ELSE 0])

\* The responses that a histogram of batch sizes stands for.
InBatches(m) == SumFunction([n \in 1..BatchSize |-> n * m.batch_sizes[n]])

\* Every response a worker counted is in exactly one place: its live counters, a
\* snapshot in the channel, its own accumulator, or a dropped snapshot.  Nothing
\* is counted twice or credited to another worker; and wherever responses are, the
\* histogram beside them accounts for them, while no u8 counter can have wrapped.
Conservation ==
  \A w \in Workers :
    /\ handled[w] = counters[w].num_responses + InChannel(w) + aggregated[w].num_responses + lost[w]
    /\ batches[w] < 256 => /\ InBatches(counters[w]) = counters[w].num_responses
                           /\ InBatches(aggregated[w]) = aggregated[w].num_responses

\* main.rs:222 "Each worker pushes at most once per interval, so num_workers * 2
\* should be plenty": a snapshot is dropped only if the aggregator has not completed
\* a drain for two intervals.
LostOnlyAfterStall == [][lost' # lost => clock - drained >= 2 * MetricsInterval]_vars

\* What was handed over is accounted for before the aggregator can stop, unless
\* Ctrl-C comes first.
ChannelEmptied == chan # <<>> ~> (chan = <<>> \/ ~keep_running)
=============================================================================
