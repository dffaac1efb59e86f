------------------------------ MODULE Reports ------------------------------
(***************************************************************************)
(* The figures oxana computes from the counters it keeps in Redis: what a  *)
(* worker result adds to them, the minutes a query covers, totals, series  *)
(* and histogram of the execution metrics, the queue statistics behind the *)
(* dashboard, and the gauges exported to Prometheus.                       *)
(*                                                                         *)
(* Everything here is a function of its arguments.  Rates are kept as      *)
(* whole numbers per rate window; u64 and i64 counters do not overflow at  *)
(* these sizes (the code saturates), the u16 histogram buckets do, and     *)
(* saturate at BucketMax.  A dynamic queue "base#suffix" is the pair       *)
(* <<base, suffix>>, a static one <<base, None>>.                          *)
(***************************************************************************)
EXTENDS Integers, Sequences, FiniteSets, FiniteSetsExt, Functions

CONSTANTS
    Queue,           \* queue names
    Worker,          \* worker names (MetricIdentity)
    None,            \* nil
    Upper,           \* HISTOGRAM_BUCKET_INTERVALS_MS, the last (u64::MAX) left out
    BucketMax,       \* largest value of a u16 bucket
    DefaultMinutes,  \* DEFAULT_METRIC_MINUTES
    MaxMinutes,      \* MAX_METRIC_MINUTES
    RateMinutes,     \* QUEUE_RATE_WINDOW_MINUTES
    MinuteLength     \* seconds in a minute

Counters == [processed : Nat, succeeded : Nat, panicked : Nat, failed : Nat]

ASSUME ReportsAssumption ==
    /\ Upper \in Seq(Nat) /\ Len(Upper) > 0
    /\ \A i \in 1..Len(Upper)-1 : Upper[i] < Upper[i + 1]
    /\ {BucketMax, DefaultMinutes, MaxMinutes, RateMinutes, MinuteLength} \subseteq Nat \ {0}
    /\ DefaultMinutes <= MaxMinutes
    /\ IsFiniteSet(Queue) /\ IsFiniteSet(Worker)
    /\ \A q \in Queue : q = <<q[1], q[2]>>
    /\ None \notin [counters : Counters, enqueued : Nat, eta : Nat \cup {None}]

Kind == {"success", "panicked", "failed"}
Bucket == 1..Len(Upper) + 1

---------------------------------------------------------------------------
(* What a worker result adds: QueueResultStats and PendingJobMetrics *)

NoCounters == [processed |-> 0, succeeded |-> 0, panicked |-> 0, failed |-> 0]

Record(c, r) ==
    [processed |-> c.processed + r.count,
     succeeded |-> c.succeeded + (IF r.kind = "success" THEN r.count ELSE 0),
     panicked  |-> c.panicked + (IF r.kind = "panicked" THEN r.count ELSE 0),
     failed    |-> c.failed + (IF r.kind /= "success" THEN r.count ELSE 0)]

Plus(c, d) == [f \in DOMAIN c |-> c[f] + d[f]]

(* Jobs are counted one by one, executions once per batch (xs, xf, xpn); *)
(* only a success adds to the execution time and the histogram.          *)
Metrics == [processed : Nat, failed : Nat, panicked : Nat,
            xs : Nat, xf : Nat, xpn : Nat, ms : Nat]
NoMetrics == [processed |-> 0, failed |-> 0, panicked |-> 0, xs |-> 0, xf |-> 0, xpn |-> 0, ms |-> 0]

RecordMetrics(m, r) ==
    LET success == r.kind = "success" IN
    [processed |-> m.processed + r.count,
     failed    |-> m.failed + (IF success THEN 0 ELSE r.count),
     panicked  |-> m.panicked + (IF r.kind = "panicked" THEN r.count ELSE 0),
     xs        |-> m.xs + (IF success THEN 1 ELSE 0),
     xf        |-> m.xf + (IF success THEN 0 ELSE 1),
     xpn       |-> m.xpn + (IF r.kind = "panicked" THEN 1 ELSE 0),
     ms        |-> m.ms + (IF success THEN r.ms ELSE 0)]

BucketIndex(ms) ==
    LET above == { i \in DOMAIN Upper : ms < Upper[i] }
    IN  IF above = {} THEN Len(Upper) + 1 ELSE Min(above)

NoHistogram == [b \in Bucket |-> 0]

RecordHistogram(h, r) ==
    IF r.kind = "success" THEN [h EXCEPT ![BucketIndex(r.ms)] = @ + 1] ELSE h

(* BITFIELD OVERFLOW SAT INCRBY u16 *)
AddHistogram(h, d) ==
    [b \in Bucket |-> IF h[b] + d[b] > BucketMax THEN BucketMax ELSE h[b] + d[b]]

---------------------------------------------------------------------------
(* Queries over the last minutes *)

Minute(time) == time \div MinuteLength

EffectiveMinutes(n) ==
    IF n = 0 THEN DefaultMinutes ELSE IF n > MaxMinutes THEN MaxMinutes ELSE n

MetricMinutes(time, n) == Minute(time) - EffectiveMinutes(n) + 1..Minute(time)

(* The counters of a table, added up. *)
SumMetrics(table) ==
    [f \in DOMAIN NoMetrics |-> SumFunction([x \in DOMAIN table |-> table[x][f]])]

(* A minute written before executions were counted shows its jobs instead. *)
Finalize(t) ==
    LET succeeded == IF t.processed > t.failed THEN t.processed - t.failed ELSE 0
        jobs == t.xs + t.xf + t.xpn = 0
    IN  [processed |-> t.processed, succeeded |-> succeeded, failed |-> t.failed,
         panicked |-> t.panicked,
         xs  |-> IF jobs THEN succeeded ELSE t.xs,
         xf  |-> IF jobs THEN t.failed ELSE t.xf,
         xpn |-> IF jobs THEN t.panicked ELSE t.xpn,
         ms  |-> t.ms]

(* aggregate_counter_hashes: hash[m][w] is the counters of worker w in     *)
(* minute m, or NoMetrics where Redis has no field.                        *)
Aggregate(minutes, hash) ==
    [totals  |-> Finalize(SumMetrics([m \in minutes |-> SumMetrics(hash[m])])),
     series  |-> [m \in minutes |-> Finalize(SumMetrics(hash[m]))],
     workers |-> [w \in Worker |-> Finalize(SumMetrics([m \in minutes |-> hash[m][w]]))]]

(* metrics_counter_hashes_for: only the fields of one worker are read *)
OnlyWorker(hash, w) ==
    [m \in DOMAIN hash |-> [x \in Worker |-> IF x = w THEN hash[m][x] ELSE NoMetrics]]

(* metrics_histogram_counts_for *)
HistogramTotals(minutes, hist, w) ==
    [b \in Bucket |-> SumFunction([m \in minutes |-> hist[m][w][b]])]

(* aggregate_queue_counter_hashes; QueueCounterTotals has no panics *)
QueueTotals(minutes, hash, q) ==
    [f \in DOMAIN NoCounters \ {"panicked"} |-> SumFunction([m \in minutes |-> hash[m][q][f]])]

(* queue_length_series_from_hashes: minutes without a sample show 0 *)
LengthSeries(minutes, samples, q) ==
    [m \in minutes |-> IF samples[m][q] = None THEN 0 ELSE samples[m][q]]

---------------------------------------------------------------------------
(* QueueRateStats, per window of RateMinutes *)

EffectiveDrain(processed, growth) == IF processed > 0 /\ growth < 0 THEN -growth ELSE 0

(* Seconds until the queue is empty. *)
Eta(enqueued, drain) ==
    IF enqueued = 0 THEN 0
    ELSE IF drain > 0 THEN (enqueued * RateMinutes * MinuteLength) \div drain
    ELSE None

CalculateRate(enqueued, start, counters) ==
    LET growth == enqueued - start
        drain == EffectiveDrain(counters.processed, growth)
    IN  [processed |-> counters.processed, succeeded |-> counters.succeeded,
         failed |-> counters.failed, growth |-> growth, drain |-> drain,
         eta |-> Eta(enqueued, drain)]

AggregateRate(enqueued, rates) ==
    LET sum(f) == SumFunction([q \in DOMAIN rates |-> rates[q][f]])
        drain == EffectiveDrain(sum("processed"), sum("growth"))
    IN  [processed |-> sum("processed"), succeeded |-> sum("succeeded"),
         failed |-> sum("failed"), growth |-> sum("growth"), drain |-> drain,
         eta |-> Eta(enqueued, drain)]

---------------------------------------------------------------------------
(* build_queue_stats.  Its inputs, in: the queues with a list (listed),    *)
(* the counters (stats) and snapshots of each queue, its LLEN (length),    *)
(* its length at the start of the rate window (start) and its counters     *)
(* over that window (window).                                              *)

(* Mutant: a snapshot counts whatever its age. *)
FreshSnapshotAnyAge(snapshot) == IF snapshot = None THEN None ELSE snapshot.enqueued

(* fresh_queue_length_snapshot *)
FreshSnapshot(snapshot) ==
    IF snapshot = None \/ ~snapshot.fresh THEN None ELSE snapshot.enqueued

(* The number of jobs shown for a queue: its snapshot, or else LLEN. *)
Enqueued(in, q) ==
    LET fresh == FreshSnapshot(in.snapshot[q])
    IN  IF fresh = None THEN in.length[q] ELSE fresh

(* Mutant: queues without waiting jobs are left out. *)
KnownWaiting(in) ==
    { q \in Queue : \/ q \in in.listed
                    \/ FreshSnapshot(in.snapshot[q]) \notin {None, 0} }

(* Queues with a list, a counter, or a snapshot above 0. *)
Known(in) ==
    { q \in Queue : \/ q \in in.listed
                    \/ in.stats[q] /= NoCounters
                    \/ FreshSnapshot(in.snapshot[q]) \notin {None, 0} }

(* queue_rate_stats *)
QueueRate(in, q) == CalculateRate(Enqueued(in, q), in.start[q], in.window[q])

(* One row per base key: the counters of all its keys; the jobs waiting in *)
(* its dynamic queues, or in its own list when it has none.                *)
QueueRow(in, base) ==
    LET keys == { q \in Known(in) : q[1] = base }
        dynamic == { q \in keys : q[2] /= None }
        own == <<base, None>>
        waiting == SumFunction([q \in dynamic |-> Enqueued(in, q)])
    IN  [counters |-> [f \in DOMAIN NoCounters |-> SumFunction([q \in keys |-> in.stats[q][f]])],
         enqueued |-> IF dynamic = {} THEN Enqueued(in, own) ELSE waiting,
         rate     |-> IF dynamic = {} THEN QueueRate(in, own)
                      ELSE AggregateRate(waiting, [q \in dynamic |-> QueueRate(in, q)]),
         queues   |-> [q \in dynamic |-> [counters |-> in.stats[q], enqueued |-> Enqueued(in, q),
                                          rate |-> QueueRate(in, q)]]]

(* The list of a base key itself, beside dynamic queues of that key: the   *)
(* row has the jobs and the rate of the dynamic queues only.               *)
Overshadowed(in) ==
    { q \in Known(in) : q[2] = None /\ \E x \in Known(in) : x[1] = q[1] /\ x[2] /= None }

(* ensure_queue_stats_entry: a row for the base key of every key *)
Entries(keys) == { q[1] : q \in keys }

Rows(in) == [base \in Entries(Known(in)) |-> QueueRow(in, base)]

(* stats_key_matches_filter: the key, or another one of its base *)
MatchesFilter(q, queues) == \E x \in queues : x[1] = q[1] \/ x = q

(* stats_queues_for: the rows of what was asked for. *)
RowsFor(in, queues) ==
    [base \in Entries({ q \in Known(in) : MatchesFilter(q, queues) }) |-> QueueRow(in, base)]

(* StatsGlobal of stats() *)
Global(rows) ==
    [processed |-> SumFunction([b \in DOMAIN rows |-> rows[b].counters.processed]),
     failed    |-> SumFunction([b \in DOMAIN rows |-> rows[b].counters.failed]),
     enqueued  |-> SumFunction([b \in DOMAIN rows |-> rows[b].enqueued])]

(* queue_detail_queue_stats: the row of the queue page, or None; the jobs  *)
(* and the ETA are computed afresh from the LLEN of the page.              *)
DetailRow(in, rows, q) ==
    LET live(row) == [counters |-> row.counters, enqueued |-> in.length[q],
                      eta |-> Eta(in.length[q], row.rate.drain)]
    IN  IF q[1] \notin DOMAIN rows THEN None
        ELSE IF q[2] = None THEN live(rows[q[1]])
        ELSE IF q \in DOMAIN rows[q[1]].queues THEN live(rows[q[1]].queues[q])
        ELSE None

---------------------------------------------------------------------------
(* from_stats_with_prefix: the gauges of the Prometheus exporter *)

GlobalGauges(rows) ==
    [processed_total |-> Global(rows).processed,
     failed_total    |-> Global(rows).failed,
     enqueued_total  |-> Global(rows).enqueued]

QueueGauges(rows) ==
    [b \in DOMAIN rows |-> [queue_processed_total |-> rows[b].counters.processed,
                            queue_succeeded_total |-> rows[b].counters.succeeded,
                            queue_panicked_total  |-> rows[b].counters.panicked,
                            queue_failed_total    |-> rows[b].counters.failed,
                            queue_enqueued        |-> rows[b].enqueued]]

DynamicQueueGauges(rows) ==
    [q \in UNION { DOMAIN rows[b].queues : b \in DOMAIN rows } |->
        [dynamic_queue_processed_total |-> rows[q[1]].queues[q].counters.processed,
         dynamic_queue_succeeded_total |-> rows[q[1]].queues[q].counters.succeeded,
         dynamic_queue_panicked_total  |-> rows[q[1]].queues[q].counters.panicked,
         dynamic_queue_failed_total    |-> rows[q[1]].queues[q].counters.failed,
         dynamic_queue_enqueued        |-> rows[q[1]].queues[q].enqueued]]

=============================================================================
