----------------------------- MODULE Statistics -----------------------------
(***************************************************************************)
(* The result collector of each coordinator: it counts the results of its  *)
(* workers in memory and, on timers, adds them to the counters in Redis    *)
(* that the dashboard, the metrics pages and the Prometheus exporter read. *)
(*                                                                         *)
(* A flush is one pipe of increments.  When it fails the counts are kept   *)
(* and sent again with the next flush; a failure may also be reported for  *)
(* a pipe that Redis applied.  The collector ends with the error once      *)
(* redis_failure_tolerance failures follow each other, and after a last    *)
(* flush when every sender of results is gone.                             *)
(*                                                                         *)
(* The snapshot of a queue length is fresh until it ages out               *)
(* (QUEUE_LENGTH_SNAPSHOT_TTL_SECS); the keys of a minute live Retention   *)
(* seconds after their last write, the samples of queue lengths likewise   *)
(* (no query reaches one that old).  The LLENs of a refresh are one step:  *)
(* the lengths of different queues are not related to each other.          *)
(*                                                                         *)
(* A query for the rows of the dashboard is a sequence of reads between    *)
(* which anything may happen; it writes nothing, so one at a time is       *)
(* enough.  Age is not timed: a snapshot that the query finds fresh may    *)
(* have aged by the time it answers.                                       *)
(***************************************************************************)
EXTENDS Reports

CONSTANTS
    Proc,         \* result collectors
    Result,       \* results a worker may report: [worker, queue, kind, count, ms]
    Tolerance,    \* settings.redis_failure_tolerance
    ExitWhen,     \* settings.exit_when_processed, or None
    Retention,    \* METRICS_RETENTION_SECS
    MaxLength,    \* bound on the length of a queue
    MaxTime,      \* bound on the clock
    Budget        \* bounds of a behaviour: [results, changes (of lengths), faults, ticks, queries]

ASSUME StatisticsAssumption ==
    /\ IsFiniteSet(Proc)
    /\ \A r \in Result : /\ r.queue \in Queue /\ r.worker \in Worker /\ r.kind \in Kind
                         /\ r.count \in Nat \ {0} /\ r.ms \in Nat
    /\ Retention = MaxMinutes * MinuteLength
    /\ {Tolerance, MaxLength, MaxTime} \subseteq Nat
    /\ Budget \subseteq [results : Nat, changes : Nat, faults : Nat, ticks : 0..MaxTime, queries : Nat]

Minutes == 0..Minute(MaxTime)
Cell == [worker |-> [w \in Worker |-> NoMetrics], histogram |-> [w \in Worker |-> NoHistogram],
         queue |-> [q \in Queue |-> NoCounters]]     \* the counters of one minute
NoCells == [m \in Minutes |-> Cell]
NoPending == [q \in Queue |-> NoCounters]
NoLengths == [q \in Queue |-> 0]
NoSnapshots == [q \in Queue |-> None]
NoInputs == [listed |-> {}, at |-> 0, stats |-> NoPending, snapshot |-> NoSnapshots,
             start |-> NoLengths, window |-> NoPending, length |-> NoLengths,
             unread |-> {}]

VARIABLES
    now,
    \* Redis
    length,      \* LLEN of each queue
    stats,       \* hash "stats": counters of each queue
    snapshot,    \* hash "stats": enqueued and enqueued_at of each queue
    cells,       \* metrics keys of each minute
    until,       \* when the keys of a minute expire
    sample,      \* length of each queue by minute, or None
    \* the collectors
    chan, open,  \* results in the channel; some sender is left
    pc,          \* "run", the three steps of flush_before_exit, "done" or "failed"
    buffer,      \* JobMetricsBuffer
    pending,     \* pending_stats
    active,      \* active_queues
    read,        \* lengths read by a refresh that has not written them yet
    failures,    \* consecutive_redis_failures, of all loops of the process
    total,       \* Stats.processed of the process
    cancelled,   \* cancel_token
    \* a query for the rows of the dashboard
    query,       \* what it reads next, or "idle"
    inputs,      \* what it has read, and when it began (at)
    \* history and bound
    recorded,    \* what the results of each queue add up to
    truth,       \* jobs processed in each minute
    twice, twiceIn, \* counts of flushes applied but reported as failed, by queue and by minute
    page,        \* what the metrics page showed when the query read its counters
    settled,     \* when it read the hash "stats" all was flushed, and nothing was counted since
    left         \* what is left of the budget

redis == <<stats, snapshot, cells, until, sample>>
collector == <<pc, buffer, pending, active, read, failures>>
history == <<recorded, truth, twice, twiceIn>>
reader == <<query, inputs, page, settled>>
vars == <<now, length, redis, chan, open, collector, total, cancelled, reader, history, left>>

Init ==
    /\ now = 0
    /\ length = NoLengths
    /\ stats = NoPending
    /\ snapshot = NoSnapshots
    /\ cells = NoCells
    /\ until = [m \in Minutes |-> 0]
    /\ sample = [m \in Minutes |-> [q \in Queue |-> None]]
    /\ chan = [p \in Proc |-> <<>>]
    /\ open = [p \in Proc |-> TRUE]
    /\ pc = [p \in Proc |-> "run"]
    /\ buffer = [p \in Proc |-> NoCells]
    /\ pending = [p \in Proc |-> NoPending]
    /\ active = [p \in Proc |-> {}]
    /\ read = [p \in Proc |-> None]
    /\ failures = [p \in Proc |-> 0]
    /\ total = [p \in Proc |-> 0]
    /\ cancelled = [p \in Proc |-> FALSE]
    /\ recorded = NoPending
    /\ truth = [m \in Minutes |-> 0]
    /\ twice = NoPending
    /\ twiceIn = [m \in Minutes |-> 0]
    /\ query = "idle"
    /\ inputs = NoInputs
    /\ page = 0
    /\ settled = FALSE
    /\ left \in Budget

---------------------------------------------------------------------------
(* Around the collectors *)

Tick ==
    /\ left.ticks > 0
    /\ left' = [left EXCEPT !.ticks = @ - 1]
    /\ now' = now + 1
    /\ UNCHANGED <<length, redis, chan, open, collector, total, cancelled, reader, history>>

(* Jobs are enqueued and dequeued. *)
LengthChanges(q) ==
    /\ left.changes > 0
    /\ left' = [left EXCEPT !.changes = @ - 1]
    /\ \E n \in {length[q] - 1, length[q] + 1} \cap 0..MaxLength :
         length' = [length EXCEPT ![q] = n]
    /\ UNCHANGED <<now, redis, chan, open, collector, total, cancelled, reader, history>>

(* QUEUE_LENGTH_SNAPSHOT_TTL_SECS have passed. *)
Age(q) ==
    /\ snapshot[q] /= None
    /\ snapshot[q].fresh
    /\ snapshot' = [snapshot EXCEPT ![q].fresh = FALSE]
    /\ UNCHANGED <<now, length, stats, cells, until, sample, chan, open, collector, total, cancelled,
                   reader, history, left>>

(* process_result sends a WorkerResult. *)
SendResult(p, r) ==
    /\ open[p]
    /\ left.results > 0
    /\ chan' = [chan EXCEPT ![p] = Append(@, r)]
    /\ left' = [left EXCEPT !.results = @ - 1]
    /\ UNCHANGED <<now, length, redis, open, collector, total, cancelled, reader, history>>

(* The last task of the coordinator is over. *)
DropSenders(p) ==
    /\ open[p]
    /\ open' = [open EXCEPT ![p] = FALSE]
    /\ UNCHANGED <<now, length, redis, chan, collector, total, cancelled, reader, history, left>>

---------------------------------------------------------------------------
(* run *)

Selecting(p) == pc[p] = "run" /\ read[p] = None

(* JobMetricsBuffer::record *)
RecordCell(c, r) ==
    [worker    |-> [c.worker EXCEPT ![r.worker] = RecordMetrics(@, r)],
     histogram |-> [c.histogram EXCEPT ![r.worker] = RecordHistogram(@, r)],
     queue     |-> [c.queue EXCEPT ![r.queue] = Record(@, r)]]

(* rx.recv() is Some: metrics.record and update_stats *)
Collect(p) ==
    LET r == Head(chan[p])
        m == Minute(now)
    IN
    /\ Selecting(p)
    /\ chan[p] /= <<>>
    /\ chan' = [chan EXCEPT ![p] = Tail(@)]
    /\ buffer' = [buffer EXCEPT ![p][m] = RecordCell(@, r)]
    /\ total' = [total EXCEPT ![p] = @ + r.count]
    /\ pending' = [pending EXCEPT ![p][r.queue] = Record(@, r)]
    /\ active' = [active EXCEPT ![p] = @ \cup {r.queue}]
    /\ cancelled' = [cancelled EXCEPT ![p] = @ \/ (ExitWhen /= None /\ total'[p] >= ExitWhen)]
    /\ recorded' = [recorded EXCEPT ![r.queue] = Record(@, r)]
    /\ truth' = [truth EXCEPT ![m] = @ + r.count]
    /\ settled' = FALSE
    /\ UNCHANGED <<now, length, redis, open, pc, read, failures, query, inputs, page, twice, twiceIn, left>>

(* Mutant: the closed channel is polled again. *)
RecvNoneAgain(p) ==
    /\ Selecting(p)
    /\ ~open[p]
    /\ chan[p] = <<>>
    /\ UNCHANGED vars

(* rx.recv() is None: flush_before_exit begins *)
RecvNone(p) ==
    /\ Selecting(p)
    /\ ~open[p]
    /\ chan[p] = <<>>
    /\ pc' = [pc EXCEPT ![p] = "metrics"]
    /\ UNCHANGED <<now, length, redis, chan, open, buffer, pending, active, read, failures, total,
                   cancelled, reader, history, left>>

(* A timer's arm of the select, or its turn in flush_before_exit. *)
Turn(p, step) == Selecting(p) \/ (pc[p] = step /\ read[p] = None)

(* Where the collector goes after the step. *)
After(p) ==
    CASE pc[p] = "run" -> "run"
      [] pc[p] = "metrics" -> "stats"
      [] pc[p] = "stats" -> "lengths"
      [] pc[p] = "lengths" -> "done"

(* flush_before_exit has nothing to do in this step. *)
NothingToFlush(p) ==
    /\ \/ pc[p] = "metrics" /\ buffer[p] = NoCells
       \/ pc[p] = "stats" /\ pending[p] = NoPending
       \/ pc[p] = "lengths" /\ active[p] = {}
    /\ pc' = [pc EXCEPT ![p] = After(p)]
    /\ UNCHANGED <<now, length, redis, chan, open, buffer, pending, active, read, failures, total,
                   cancelled, reader, history, left>>

(* track_redis_result: Ok resets the count of failures ... *)
Success(p) ==
    /\ failures' = [failures EXCEPT ![p] = 0]
    /\ pc' = [pc EXCEPT ![p] = After(p)]
    /\ UNCHANGED left

(* record_redis_failure *)
CountFailure(p) ==
    /\ left.faults > 0
    /\ left' = [left EXCEPT !.faults = @ - 1]
    /\ failures' = [failures EXCEPT ![p] = @ + 1]

(* ... Err is passed on only when there were too many in a row *)
Failure(p) ==
    /\ CountFailure(p)
    /\ pc' = [pc EXCEPT ![p] = IF failures[p] + 1 >= Tolerance THEN "failed" ELSE After(p)]

(* The other loops of the process report to the same count. *)
OtherLoop(p) ==
    /\ \/ failures[p] /= 0 /\ failures' = [failures EXCEPT ![p] = 0] /\ UNCHANGED left
       \/ CountFailure(p)
    /\ UNCHANGED <<now, length, redis, chan, open, pc, buffer, pending, active, read, total, cancelled,
                   reader, history>>

---------------------------------------------------------------------------
(* The keys of minute m, which Redis may have expired. *)
Kept(m) == IF now < until[m] THEN cells[m] ELSE Cell

(* The increments of one minute *)
AddCell(c, d) ==
    [worker    |-> [w \in Worker |-> Plus(c.worker[w], d.worker[w])],
     histogram |-> [w \in Worker |-> AddHistogram(c.histogram[w], d.histogram[w])],
     queue     |-> [q \in Queue |-> Plus(c.queue[q], d.queue[q])]]

(* Mutant: the keys are kept for one minute less than the longest query. *)
AddCellsShort(p) ==
    LET written == { m \in Minutes : buffer[p][m] /= Cell } IN
    /\ cells' = [m \in Minutes |-> AddCell(Kept(m), buffer[p][m])]
    /\ until' = [m \in Minutes |-> IF m \in written THEN now + Retention - MinuteLength ELSE until[m]]

(* flush_job_metrics: increments, and EXPIRE for every key written *)
AddCells(p) ==
    LET written == { m \in Minutes : buffer[p][m] /= Cell } IN
    /\ cells' = [m \in Minutes |-> AddCell(Kept(m), buffer[p][m])]
    /\ until' = [m \in Minutes |-> IF m \in written THEN now + Retention ELSE until[m]]

(* Jobs a collector has counted in minute m and not flushed. *)
Processed(c) == SumFunction([w \in Worker |-> c.worker[w].processed])
Buffered(p, m) == Processed(buffer[p][m])

FlushMetrics(p) ==
    /\ Turn(p, "metrics")
    /\ buffer[p] /= NoCells
    /\ AddCells(p)
    /\ buffer' = [buffer EXCEPT ![p] = NoCells]
    /\ Success(p)
    /\ UNCHANGED <<now, length, stats, snapshot, sample, chan, open, pending, active, read, total,
                   cancelled, reader, history>>

(* The buffer is kept, whether Redis applied the pipe or not. *)
FlushMetricsFails(p) ==
    /\ Turn(p, "metrics")
    /\ buffer[p] /= NoCells
    /\ \/ UNCHANGED <<cells, until, twiceIn>>
       \/ /\ AddCells(p)
          /\ twiceIn' = [m \in Minutes |-> twiceIn[m] + Buffered(p, m)]
    /\ Failure(p)
    /\ UNCHANGED <<now, length, stats, snapshot, sample, chan, open, buffer, pending, active, read, total,
                   cancelled, reader, recorded, truth, twice>>

(* flush_result_stats *)
AddStats(p) == stats' = [q \in Queue |-> Plus(stats[q], pending[p][q])]

FlushStats(p) ==
    /\ Turn(p, "stats")
    /\ pending[p] /= NoPending
    /\ AddStats(p)
    /\ pending' = [pending EXCEPT ![p] = NoPending]
    /\ Success(p)
    /\ UNCHANGED <<now, length, snapshot, cells, until, sample, chan, open, buffer, active, read, total,
                   cancelled, reader, history>>

(* Mutant: the counts are cleared after a flush that failed. *)
FlushStatsFailsClears(p) ==
    /\ Turn(p, "stats")
    /\ pending[p] /= NoPending
    /\ pending' = [pending EXCEPT ![p] = NoPending]
    /\ Failure(p)
    /\ UNCHANGED <<now, length, redis, chan, open, buffer, active, read, total, cancelled, reader, history>>

FlushStatsFails(p) ==
    /\ Turn(p, "stats")
    /\ pending[p] /= NoPending
    /\ \/ UNCHANGED <<stats, twice>>
       \/ /\ AddStats(p)
          /\ twice' = [q \in Queue |-> Plus(twice[q], pending[p][q])]
    /\ Failure(p)
    /\ UNCHANGED <<now, length, snapshot, cells, until, sample, chan, open, buffer, pending, active, read,
                   total, cancelled, reader, recorded, truth, twiceIn>>

---------------------------------------------------------------------------
(* refresh_active_queue_lengths *)

RefreshRead(p) ==
    /\ Turn(p, "lengths")
    /\ active[p] /= {}
    /\ read' = [read EXCEPT ![p] = [q \in active[p] |-> length[q]]]
    /\ UNCHANGED <<now, length, redis, chan, open, pc, buffer, pending, active, failures, total,
                   cancelled, reader, history, left>>

(* write_queue_length_stats *)
WriteLengths(p) ==
    /\ snapshot' = [q \in Queue |-> IF q \in DOMAIN read[p]
                                    THEN [enqueued |-> read[p][q], fresh |-> TRUE]
                                    ELSE snapshot[q]]
    /\ sample' = [sample EXCEPT ![Minute(now)] =
                     [q \in Queue |-> IF q \in DOMAIN read[p] THEN read[p][q] ELSE @[q]]]

(* The lengths are written, then prune_active_queues. *)
RefreshWrite(p) ==
    /\ read[p] /= None
    /\ WriteLengths(p)
    /\ active' = [active EXCEPT ![p] = { q \in @ : read[p][q] > 0 }]
    /\ read' = [read EXCEPT ![p] = None]
    /\ Success(p)
    /\ UNCHANGED <<now, length, stats, cells, until, chan, open, buffer, pending, total, cancelled,
                   reader, history>>

(* No LLEN, or the pipe failed, applied or not: the queues stay active. *)
RefreshFails(p) ==
    /\ read[p] /= None
    /\ WriteLengths(p) \/ UNCHANGED <<snapshot, sample>>
    /\ read' = [read EXCEPT ![p] = None]
    /\ Failure(p)
    /\ UNCHANGED <<now, length, stats, cells, until, chan, open, buffer, pending, active, total, cancelled,
                   reader, history>>

---------------------------------------------------------------------------
(* Queries.  The minutes of a query of n minutes at some time, as far as   *)
(* the model keeps them.                                                   *)
WindowAt(time, n) == MetricMinutes(time, n) \cap Minutes

(* metrics_counter_hashes and aggregate_counter_hashes, over some minutes *)
Report(minutes) == Aggregate(minutes, [m \in minutes |-> Kept(m).worker])

(* stats, stats_queues: the KEYS of the lists, and the time *)
QueryBegins ==
    /\ query = "idle"
    /\ left.queries > 0
    /\ left' = [left EXCEPT !.queries = @ - 1]
    /\ query' = "stats"
    /\ inputs' = [NoInputs EXCEPT !.listed = { q \in Queue : length[q] > 0 }, !.at = now]
    /\ UNCHANGED <<now, length, redis, chan, open, collector, total, cancelled, page, settled, history>>

(* queue_stats_inputs_w_conn: the hash "stats" ... *)
ReadStats ==
    /\ query = "stats"
    /\ query' = "lengths"
    /\ inputs' = [inputs EXCEPT !.stats = stats, !.snapshot = snapshot]
    /\ settled' = (\A p \in Proc : pending[p] = NoPending)
    /\ UNCHANGED <<now, length, redis, chan, open, collector, total, cancelled, page, history, left>>

(* ... the samples of queue lengths, of which the first minute counts ... *)
ReadSamples ==
    LET first == Minute(inputs.at) - EffectiveMinutes(RateMinutes) + 1 IN
    /\ query = "lengths"
    /\ query' = "counters"
    /\ inputs' = [inputs EXCEPT !.start = [q \in Queue |->
                     IF first \in Minutes THEN LengthSeries({first}, sample, q)[first] ELSE 0]]
    /\ UNCHANGED <<now, length, redis, chan, open, collector, total, cancelled, page, settled, history, left>>

(* ... and the counters of the queues in the minutes of the rates. *)
ReadCounters ==
    LET minutes == WindowAt(inputs.at, RateMinutes) IN
    /\ query = "counters"
    /\ query' = "rows"
    /\ inputs' = [inputs EXCEPT !.window =
                     [q \in Queue |-> QueueTotals(minutes, [m \in minutes |-> Kept(m).queue], q)],
                     !.unread = { q \in Known(inputs) : FreshSnapshot(inputs.snapshot[q]) = None }]
    /\ page' = Report(minutes).totals.processed
    /\ UNCHANGED <<now, length, redis, chan, open, collector, total, cancelled, settled, history, left>>

QueryEnds ==
    /\ query' = "idle"
    /\ inputs' = NoInputs
    /\ page' = 0
    /\ settled' = FALSE
    /\ UNCHANGED <<now, length, redis, chan, open, collector, total, cancelled, history, left>>

(* build_queue_stats: LLEN for the queues without a fresh snapshot, one by *)
(* one in any order.  That of a list beside dynamic queues of its key is   *)
(* read for RowsAddUp only.                                                *)
ReadLength(q) ==
    /\ query = "rows"
    /\ q \in inputs.unread
    /\ inputs' = [inputs EXCEPT !.length[q] = length[q], !.unread = @ \ {q}]
    /\ UNCHANGED <<now, length, redis, chan, open, collector, total, cancelled, query, page, settled,
                   history, left>>

(* ... and the rows are put together. *)
BuildRows == query = "rows" /\ inputs.unread = {} /\ QueryEnds

(* A read failed: the query has no answer. *)
QueryFails ==
    /\ query \notin {"idle", "rows"} \/ inputs.unread /= {}
    /\ QueryEnds

Query ==
    \/ QueryBegins \/ ReadStats \/ ReadSamples \/ ReadCounters
    \/ \E q \in Queue : ReadLength(q)
    \/ BuildRows \/ QueryFails

---------------------------------------------------------------------------
(* The select of the collector; its timers never stop. *)
Step(p) ==
    \/ Collect(p) \/ RecvNone(p) \/ NothingToFlush(p)
    \/ FlushMetrics(p) \/ FlushStats(p) \/ RefreshRead(p) \/ RefreshWrite(p)

Fails(p) == FlushMetricsFails(p) \/ FlushStatsFails(p) \/ RefreshFails(p)

Done ==
    /\ \A p \in Proc : pc[p] \in {"done", "failed"}
    /\ UNCHANGED vars

Next ==
    \/ Tick
    \/ \E q \in Queue : LengthChanges(q) \/ Age(q)
    \/ \E p \in Proc : \/ \E r \in Result : SendResult(p, r)
                       \/ DropSenders(p) \/ Step(p) \/ Fails(p) \/ OtherLoop(p)
    \/ Query
    \/ Done

Spec == Init /\ [][Next]_vars

(* A collector is polled again, its receiver is not starved by its timers, *)
(* snapshots age, and the senders of a coordinator end some day.           *)
FairSpec ==
    /\ Spec
    /\ \A p \in Proc : /\ WF_vars(Step(p))
                       /\ WF_vars(DropSenders(p))
                       /\ SF_vars(Collect(p)) /\ SF_vars(RecvNone(p))
    /\ \A q \in Queue : WF_vars(Age(q))

---------------------------------------------------------------------------
(* What the collectors have counted and not flushed; a collector that gave *)
(* up, or whose last flush failed, keeps it to the end of its process.     *)
Unflushed(q, f) == SumFunction([p \in Proc |-> pending[p][q][f]])

(* Failed flushes lose nothing: what a collector has counted is in Redis   *)
(* or still in its hands, and a result is counted twice only by a flush    *)
(* that was applied but reported as failed: flush_pending_stats clears     *)
(* what it sent exactly when it went well.  In every counter a reader can  *)
(* see successes and failures add up to what was processed, and panics are *)
(* failures.                                                               *)
CountsKept ==
    \A q \in Queue :
        /\ \A f \in DOMAIN NoCounters :
             stats[q][f] + Unflushed(q, f) = recorded[q][f] + twice[q][f]
        /\ stats[q].succeeded + stats[q].failed = stats[q].processed
        /\ stats[q].panicked <= stats[q].failed
        /\ \A m \in Minutes :
             cells[m].queue[q].succeeded + cells[m].queue[q].failed = cells[m].queue[q].processed

Window(n) == WindowAt(now, n)

(* job_metrics *)
JobMetrics(n) == Report(Window(n))

(* job_metrics_for: the page of one worker *)
JobMetricsFor(w, n) ==
    [metrics   |-> Aggregate(Window(n), OnlyWorker([m \in Window(n) |-> Kept(m).worker], w)),
     histogram |-> HistogramTotals(Window(n), [m \in Window(n) |-> Kept(m).histogram], w)]

(* What a query over the last minutes shows, with what is still buffered,  *)
(* is what was processed in those minutes: no key of the window has        *)
(* expired, no minute of it is left out, and totals, series, workers,      *)
(* queues and the page of each worker agree.                               *)
WindowComplete ==
    \A n \in 0..MaxMinutes + 1 :
        LET minutes == Window(n)
            report == JobMetrics(n)
            unflushed == SumFunction([m \in minutes |-> SumFunction([p \in Proc |-> Buffered(p, m)])])
            processed == SumFunction([m \in minutes |-> truth[m] + twiceIn[m]])
        IN
        /\ report.totals.processed + unflushed = processed
        /\ report.totals.processed =
             SumFunction([m \in minutes |-> report.series[m].processed])
        /\ report.totals.xs + report.totals.xf =
             SumFunction([w \in Worker |-> report.workers[w].xs + report.workers[w].xf])
        /\ report.totals.processed =
             SumFunction([q \in Queue |-> QueueTotals(minutes, [m \in minutes |-> Kept(m).queue], q).processed])
        /\ \A w \in Worker :
             LET own == JobMetricsFor(w, n) IN
             /\ own.metrics.totals = report.workers[w]
             /\ SumFunction(own.histogram) <= report.workers[w].xs

(* What the dashboard and the exporter make of the inputs of a query. *)
AddsUp(in) ==
    LET rows == Rows(in)
        gauges == QueueGauges(rows)
        dynamic == DynamicQueueGauges(rows)
        global == GlobalGauges(rows)
        rate == SumFunction([b \in DOMAIN rows |-> rows[b].rate.processed])
        hidden == SumFunction([q \in Overshadowed(in) |-> in.window[q].processed])
    IN
    /\ global.processed_total = SumFunction([q \in Queue |-> in.stats[q].processed])
    /\ global.processed_total =
         SumFunction([b \in DOMAIN gauges |->
                          gauges[b].queue_succeeded_total + gauges[b].queue_failed_total])
    /\ global.enqueued_total + SumFunction([q \in Overshadowed(in) |-> Enqueued(in, q)]) =
         SumFunction([q \in Known(in) |-> Enqueued(in, q)])
    /\ \A b \in DOMAIN gauges :
         SumFunction([q \in { x \in DOMAIN dynamic : x[1] = b } |->
                          dynamic[q].dynamic_queue_failed_total]) <= gauges[b].queue_failed_total
    /\ \A q \in DOMAIN dynamic : DetailRow(in, rows, q) /= None
    /\ LET some == RowsFor(in, in.listed)
       IN  some = [b \in DOMAIN some |-> rows[b]]
    /\ rate + hidden <= page
    /\ settled => rate + hidden = page

(* Whatever happens between the reads of a query, its answer shows every   *)
(* counter it read once: the rows add up to the hash "stats", dynamic      *)
(* queues are counted in their parent and nowhere else, the gauges agree   *)
(* with each other, and the rates of the rows never exceed what the        *)
(* metrics page, which other keys hold, showed at that moment; they are    *)
(* equal to it when the counters had been flushed.  The jobs and the rate  *)
(* of a list beside dynamic queues of the same key, and nothing else, are  *)
(* in no row.                                                              *)
RowsAddUp == [][BuildRows => AddsUp(inputs)]_vars

(* Once the queues stop changing, the number of waiting jobs a query shows *)
(* for each is right and stays right, though the last snapshot may have    *)
(* been taken before the last change.                                      *)
LengthsSettle ==
    <>[](\A q \in Queue : Enqueued([snapshot |-> snapshot, length |-> length], q) = length[q])

(* A collector whose senders are gone ends, failed flushes or not: the     *)
(* coordinator joins it at shutdown.                                       *)
CollectorEnds == \A p \in Proc : <>(pc[p] \in {"done", "failed"})

=============================================================================
