------------------------- MODULE StatisticsProofs -------------------------
(***************************************************************************)
(* Proofs about the result collectors and the figures read from their      *)
(* counters: nothing counted is lost, a query over the last minutes is     *)
(* complete, and the rows of the dashboard add up.                         *)
(***************************************************************************)
EXTENDS Statistics, Sums

(* Successes and failures make up what was processed; panics are failures. *)
Sound(c) ==
    /\ c \in Counters
    /\ c.succeeded + c.failed = c.processed
    /\ c.panicked <= c.failed

(* Nothing is processed without an execution. *)
SoundMetrics(t) ==
    /\ t \in Metrics
    /\ t.failed <= t.processed
    /\ t.panicked <= t.processed
    /\ t.xs = 0 /\ t.xf = 0 => t.processed = 0

Cells == [worker : [Worker -> Metrics], histogram : [Worker -> [Bucket -> Nat]],
          queue : [Queue -> Counters]]

QueueProcessed(c) == SumFunction([q \in Queue |-> c.queue[q].processed])

(* The counters of a minute agree with each other. *)
SoundCell(c) ==
    /\ c \in Cells
    /\ \A w \in Worker : SoundMetrics(c.worker[w]) /\ SumFunction(c.histogram[w]) <= c.worker[w].xs
    /\ \A q \in Queue : Sound(c.queue[q])
    /\ Processed(c) = QueueProcessed(c)

Bounds == [results : Nat, changes : Nat, faults : Nat, ticks : Nat, queries : Nat]

Types ==
    /\ now \in Nat
    /\ left \in Bounds
    /\ now + left.ticks <= MaxTime
    /\ length \in [Queue -> Nat]
    /\ snapshot \in [Queue -> {None} \cup [enqueued : Nat, fresh : BOOLEAN]]
    /\ sample \in [Minutes -> [Queue -> Nat \cup {None}]]
    /\ chan \in [Proc -> Seq(Result)]
    /\ active \in [Proc -> SUBSET Queue]
    /\ DOMAIN read = Proc
    /\ \A p \in Proc : read[p] # None => read[p] \in [DOMAIN read[p] -> Nat]

(* stats, pending_stats and the history of a queue *)
Counts ==
    /\ stats \in [Queue -> Counters]
    /\ pending \in [Proc -> [Queue -> Counters]]
    /\ recorded \in [Queue -> Counters]
    /\ twice \in [Queue -> Counters]
    /\ \A q \in Queue : /\ Sound(stats[q])
                        /\ \A p \in Proc : Sound(pending[p][q])
                        /\ \A f \in DOMAIN NoCounters :
                             stats[q][f] + Unflushed(q, f) = recorded[q][f] + twice[q][f]

(* The keys of a minute: they are whole, they outlive the longest query,   *)
(* and with the buffers they hold what was processed in the minute.        *)
MinuteCounts ==
    /\ cells \in [Minutes -> Cells]
    /\ until \in [Minutes -> Nat]
    /\ buffer \in [Proc -> [Minutes -> Cells]]
    /\ truth \in [Minutes -> Nat]
    /\ twiceIn \in [Minutes -> Nat]
    /\ \A m \in Minutes :
         /\ SoundCell(cells[m])
         /\ \A p \in Proc : SoundCell(buffer[p][m])
         /\ \A p \in Proc : buffer[p][m] # Cell => m * MinuteLength <= now
         /\ cells[m] # Cell => m * MinuteLength + Retention <= until[m]
         /\ m > Minute(now) - MaxMinutes =>
              Processed(cells[m]) + SumFunction([p \in Proc |-> Buffered(p, m)]) = truth[m] + twiceIn[m]

(* A queue without results has no counter of any minute. *)
Untouched ==
    \A q \in Queue : recorded[q].processed = 0 =>
        \A m \in Minutes : /\ cells[m].queue[q].processed = 0
                           /\ \A p \in Proc : buffer[p][m].queue[q].processed = 0

(* What build_queue_stats works with. *)
InputsOK(in) ==
    /\ DOMAIN in = DOMAIN NoInputs
    /\ in.listed \subseteq Queue /\ in.unread \subseteq Queue
    /\ in.at \in Nat
    /\ \A q \in Queue :
         /\ Sound(in.stats[q])
         /\ in.snapshot[q] \in {None} \cup [enqueued : Nat, fresh : BOOLEAN]
         /\ in.start[q] \in Nat /\ in.length[q] \in Nat
         /\ in.window[q].processed \in Nat

(* A query under way: the counters of the minutes were those of the        *)
(* metrics page, and a queue without a counter in the hash that was read   *)
(* when all was flushed has no counter in the minutes.                     *)
Reading ==
    /\ InputsOK(inputs)
    /\ query = "rows" => page = SumFunction([q \in Queue |-> inputs.window[q].processed])
    /\ settled => \A q \in Queue : inputs.stats[q] = NoCounters =>
         /\ query \in {"lengths", "counters"} => recorded[q].processed = 0
         /\ query = "rows" => inputs.window[q].processed = 0

IInv == Types /\ Counts /\ MinuteCounts /\ Untouched /\ Reading

---------------------------------------------------------------------------
(* The operators of Reports *)

(* The fields of a record of counters. *)
LEMMA CounterFields ==
    /\ DOMAIN NoCounters = {"processed", "succeeded", "panicked", "failed"}
    /\ \A c \in Counters : DOMAIN c = {"processed", "succeeded", "panicked", "failed"}
BY DEF NoCounters, Counters

(* The fields of the counters of a worker. *)
LEMMA MetricFields ==
    /\ DOMAIN NoMetrics = {"processed", "failed", "panicked", "xs", "xf", "xpn", "ms"}
    /\ \A t \in Metrics : DOMAIN t = {"processed", "failed", "panicked", "xs", "xf", "xpn", "ms"}
BY DEF NoMetrics, Metrics

(* The increments of a flush are added field by field. *)
LEMMA PlusCounters ==
    ASSUME NEW c \in Counters, NEW d \in Counters
    PROVE  /\ Plus(c, d) \in Counters
           /\ \A f \in DOMAIN NoCounters : Plus(c, d)[f] = c[f] + d[f]
           /\ Plus(c, d).processed = c.processed + d.processed
           /\ Sound(c) /\ Sound(d) => Sound(Plus(c, d))
<1>1. DOMAIN c = {"processed", "succeeded", "panicked", "failed"}
  BY CounterFields
<1>2. Plus(c, d) = [processed |-> c.processed + d.processed, succeeded |-> c.succeeded + d.succeeded,
                    panicked |-> c.panicked + d.panicked, failed |-> c.failed + d.failed]
  BY <1>1 DEF Plus, Counters
<1>3. Plus(c, d) \in Counters
  BY <1>2 DEF Counters
<1>4. \A f \in DOMAIN NoCounters : Plus(c, d)[f] = c[f] + d[f]
  BY <1>1, CounterFields DEF Plus
<1>5. Sound(c) /\ Sound(d) => Sound(Plus(c, d))
  BY <1>2, <1>3 DEF Sound, Counters
<1> QED
  BY <1>2, <1>3, <1>4, <1>5

(* The same for the counters of a worker. *)
LEMMA PlusMetrics ==
    ASSUME NEW t \in Metrics, NEW u \in Metrics
    PROVE  /\ Plus(t, u) \in Metrics
           /\ Plus(t, u).processed = t.processed + u.processed
           /\ Plus(t, u).xs = t.xs + u.xs
           /\ SoundMetrics(t) /\ SoundMetrics(u) => SoundMetrics(Plus(t, u))
<1>1. DOMAIN t = {"processed", "failed", "panicked", "xs", "xf", "xpn", "ms"}
  BY MetricFields
<1>2. Plus(t, u) = [processed |-> t.processed + u.processed, failed |-> t.failed + u.failed,
                    panicked |-> t.panicked + u.panicked, xs |-> t.xs + u.xs, xf |-> t.xf + u.xf,
                    xpn |-> t.xpn + u.xpn, ms |-> t.ms + u.ms]
  BY <1>1 DEF Plus, Metrics
<1>3. Plus(t, u) \in Metrics
  BY <1>2 DEF Metrics
<1>4. ASSUME SoundMetrics(t), SoundMetrics(u) PROVE SoundMetrics(Plus(t, u))
  <2>1. /\ t.processed \in Nat /\ t.failed \in Nat /\ t.panicked \in Nat /\ t.xs \in Nat /\ t.xf \in Nat
        /\ u.processed \in Nat /\ u.failed \in Nat /\ u.panicked \in Nat /\ u.xs \in Nat /\ u.xf \in Nat
    BY DEF Metrics
  <2>2. /\ Plus(t, u).processed = t.processed + u.processed /\ Plus(t, u).failed = t.failed + u.failed
        /\ Plus(t, u).panicked = t.panicked + u.panicked
        /\ Plus(t, u).xs = t.xs + u.xs /\ Plus(t, u).xf = t.xf + u.xf
    BY <1>2
  <2>3. /\ t.failed <= t.processed /\ t.panicked <= t.processed /\ (t.xs = 0 /\ t.xf = 0 => t.processed = 0)
        /\ u.failed <= u.processed /\ u.panicked <= u.processed /\ (u.xs = 0 /\ u.xf = 0 => u.processed = 0)
    BY <1>4 DEF SoundMetrics
  <2>4. Plus(t, u).failed <= Plus(t, u).processed /\ Plus(t, u).panicked <= Plus(t, u).processed
    BY <2>1, <2>2, <2>3
  <2>5. ASSUME Plus(t, u).xs = 0, Plus(t, u).xf = 0 PROVE Plus(t, u).processed = 0
    <3>1. t.xs = 0 /\ u.xs = 0
      BY <2>1, <2>2, <2>5
    <3>2. t.xf = 0 /\ u.xf = 0
      BY <2>1, <2>2, <2>5
    <3> QED
      BY <2>2, <2>3, <3>1, <3>2
  <2> QED
    BY <1>3, <2>4, <2>5 DEF SoundMetrics
<1> QED
  BY <1>2, <1>3, <1>4

(* What a worker reports. *)
LEMMA ResultType ==
    ASSUME NEW r \in Result
    PROVE  /\ r.queue \in Queue /\ r.worker \in Worker /\ r.kind \in Kind
           /\ r.count \in Nat \ {0} /\ r.ms \in Nat
BY StatisticsAssumption

(* A result keeps the counters of a queue sound. *)
LEMMA RecordCounters ==
    ASSUME NEW c \in Counters, NEW r \in Result
    PROVE  /\ Record(c, r) \in Counters
           /\ Record(c, r).processed = c.processed + r.count
           /\ Sound(c) => Sound(Record(c, r))
<1>1. r.kind \in Kind /\ r.count \in Nat
  BY ResultType
<1>2. Record(c, r) \in Counters
  BY <1>1 DEF Record, Counters
<1>3. Sound(c) => Sound(Record(c, r))
  BY <1>1, <1>2 DEF Record, Sound, Counters, Kind
<1> QED
  BY <1>2, <1>3 DEF Record

(* A result adds the same to every counter. *)
LEMMA RecordAdds ==
    ASSUME NEW c \in Counters, NEW d \in Counters, NEW r \in Result, NEW f \in DOMAIN NoCounters
    PROVE  /\ c[f] \in Nat /\ d[f] \in Nat /\ Record(c, r)[f] \in Nat /\ Record(d, r)[f] \in Nat
           /\ Record(c, r)[f] - c[f] = Record(d, r)[f] - d[f]
<1>1. r.count \in Nat
  BY ResultType
<1>2. CASE f = "processed"
  BY <1>1, <1>2 DEF Record, Counters
<1>3. CASE f = "succeeded"
  BY <1>1, <1>3 DEF Record, Counters
<1>4. CASE f = "panicked"
  BY <1>1, <1>4 DEF Record, Counters
<1>5. CASE f = "failed"
  BY <1>1, <1>5 DEF Record, Counters
<1> QED
  BY <1>2, <1>3, <1>4, <1>5, CounterFields

(* A result keeps the counters of a worker sound. *)
LEMMA RecordMetricsSound ==
    ASSUME NEW t \in Metrics, NEW r \in Result
    PROVE  /\ RecordMetrics(t, r) \in Metrics
           /\ RecordMetrics(t, r).processed = t.processed + r.count
           /\ RecordMetrics(t, r).xs = t.xs + (IF r.kind = "success" THEN 1 ELSE 0)
           /\ SoundMetrics(t) => SoundMetrics(RecordMetrics(t, r))
<1>1. r.kind \in Kind /\ r.count \in Nat /\ r.ms \in Nat
  BY ResultType
<1>2. RecordMetrics(t, r) \in Metrics
  BY <1>1 DEF RecordMetrics, Metrics
<1>3. SoundMetrics(t) => SoundMetrics(RecordMetrics(t, r))
  BY <1>1, <1>2 DEF RecordMetrics, SoundMetrics, Metrics, Kind
<1> QED
  BY <1>2, <1>3 DEF RecordMetrics

(* The sets a sum goes over are finite. *)
LEMMA Finite ==
    /\ IsFiniteSet(Queue) /\ IsFiniteSet(Worker) /\ IsFiniteSet(Proc)
    /\ IsFiniteSet(Bucket)
    /\ \A a, b \in Int : IsFiniteSet(a..b)
<1>1. Len(Upper) + 1 \in Int
  BY ReportsAssumption
<1>2. \A a, b \in Int : IsFiniteSet(a..b)
  BY FS_Interval
<1>3. IsFiniteSet(Bucket)
  BY <1>1, FS_Interval DEF Bucket
<1>4. IsFiniteSet(Queue) /\ IsFiniteSet(Worker)
  BY ReportsAssumption
<1>5. IsFiniteSet(Proc)
  BY StatisticsAssumption
<1> QED
  BY <1>2, <1>3, <1>4, <1>5

(* A saturating histogram never shows more than was added. *)
LEMMA HistogramAdd ==
    ASSUME NEW h \in [Bucket -> Nat], NEW d \in [Bucket -> Nat]
    PROVE  /\ AddHistogram(h, d) \in [Bucket -> Nat]
           /\ SumFunction(AddHistogram(h, d)) <= SumFunction(h) + SumFunction(d)
<1> DEFINE e == [b \in Bucket |-> h[b] + d[b]]
           a == AddHistogram(h, d)
<1>1. BucketMax \in Nat
  BY ReportsAssumption
<1>2. a \in [Bucket -> Nat] /\ e \in [Bucket -> Nat] /\ \A b \in Bucket : a[b] <= e[b]
  BY <1>1 DEF AddHistogram
<1>3. \A b \in Bucket : e[b] = h[b] + d[b]
  OBVIOUS
<1> HIDE DEF e, a
<1>t. a \in [Bucket -> Int] /\ e \in [Bucket -> Int] /\ h \in [Bucket -> Int] /\ d \in [Bucket -> Int]
  BY <1>2
<1>4. Below(Bucket, a, e) /\ Adds(Bucket, h, d, e)
  BY <1>2, <1>3, <1>t, Finite DEF Below, Adds
<1>5. SumFunction(a) <= SumFunction(e)
  BY <1>4, FunLeq
<1>6. SumFunction(e) = SumFunction(h) + SumFunction(d)
  BY <1>4, FunPlus
<1> QED
  BY <1>2, <1>5, <1>6 DEF a

(* An execution is in at most one bucket. *)
LEMMA HistogramRecord ==
    ASSUME NEW h \in [Bucket -> Nat], NEW r \in Result
    PROVE  /\ RecordHistogram(h, r) \in [Bucket -> Nat]
           /\ SumFunction(RecordHistogram(h, r)) <= SumFunction(h) + (IF r.kind = "success" THEN 1 ELSE 0)
<1> DEFINE i == BucketIndex(r.ms)
           g == RecordHistogram(h, r)
<1>0. SumFunction(h) \in Nat
  BY Finite, FunNat
<1>1. CASE r.kind # "success" \/ i \notin Bucket
  <2>1. g = h
    BY <1>1 DEF RecordHistogram
  <2> QED
    BY <1>0, <2>1
<1>2. CASE r.kind = "success" /\ i \in Bucket
  <2>1. g \in [Bucket -> Nat] /\ g[i] = h[i] + 1 /\ \A b \in Bucket \ {i} : g[b] = h[b]
    BY <1>2 DEF RecordHistogram
  <2>2. i \in Bucket /\ h \in [Bucket -> Int] /\ g \in [Bucket -> Int] /\ h[i] \in Nat
    BY <1>2, <2>1
  <2> HIDE DEF i, g
  <2>3. Differ(Bucket, g, h, i)
    BY <2>1, <2>2, Finite DEF Differ
  <2>4. SumFunction(g) = SumFunction(h) - h[i] + g[i]
    BY <2>3, FunUpdate
  <2> QED
    BY <1>0, <1>2, <2>1, <2>2, <2>4 DEF g
<1> QED
  BY <1>1, <1>2

---------------------------------------------------------------------------
(* The counters of a minute *)

(* What the sums of a cell are made of. *)
LEMMA CellParts ==
    ASSUME NEW c \in Cells
    PROVE  /\ c.worker \in [Worker -> Metrics] /\ c.histogram \in [Worker -> [Bucket -> Nat]]
           /\ c.queue \in [Queue -> Counters]
           /\ [w \in Worker |-> c.worker[w].processed] \in [Worker -> Nat]
           /\ [q \in Queue |-> c.queue[q].processed] \in [Queue -> Nat]
           /\ Processed(c) \in Nat /\ QueueProcessed(c) \in Nat
           /\ \A w \in Worker : SumFunction(c.histogram[w]) \in Nat /\ c.worker[w].xs \in Nat
<1>1. /\ c.worker \in [Worker -> Metrics] /\ c.histogram \in [Worker -> [Bucket -> Nat]]
      /\ c.queue \in [Queue -> Counters]
  BY DEF Cells
<1>2. \A w \in Worker : c.worker[w].processed \in Nat /\ c.worker[w].xs \in Nat
  BY <1>1 DEF Metrics
<1>3. \A q \in Queue : c.queue[q].processed \in Nat
  BY <1>1 DEF Counters
<1> DEFINE f == [w \in Worker |-> c.worker[w].processed]
           g == [q \in Queue |-> c.queue[q].processed]
<1>4. f \in [Worker -> Nat] /\ g \in [Queue -> Nat]
  BY <1>2, <1>3
<1>5. SumFunction(f) \in Nat /\ SumFunction(g) \in Nat
  <2> HIDE DEF f, g
  <2> QED
    BY <1>4, Finite, FunNat
<1>6. \A w \in Worker : SumFunction(c.histogram[w]) \in Nat
  <2> TAKE w \in Worker
  <2>1. c.histogram[w] \in [Bucket -> Nat]
    BY <1>1
  <2> QED
    BY <2>1, Finite, FunNat
<1> QED
  BY <1>1, <1>2, <1>4, <1>5, <1>6 DEF Processed, QueueProcessed

(* A minute without counters. *)
LEMMA EmptyCell ==
    /\ SoundCell(Cell) /\ Processed(Cell) = 0
    /\ \A q \in Queue : Cell.queue[q] = NoCounters
<1>1. NoMetrics \in Metrics /\ SoundMetrics(NoMetrics) /\ NoMetrics.xs = 0 /\ NoMetrics.processed = 0
  BY DEF NoMetrics, Metrics, SoundMetrics
<1>2. NoCounters \in Counters /\ Sound(NoCounters) /\ NoCounters.processed = 0
  BY DEF NoCounters, Counters, Sound
<1>3. NoHistogram \in [Bucket -> Nat] /\ \A b \in Bucket : NoHistogram[b] = 0
  BY DEF NoHistogram
<1>4. Cell \in Cells
  BY <1>1, <1>2, <1>3 DEF Cell, Cells
<1>5. SumFunction(NoHistogram) = 0
  <2>1. NoHistogram \in [Bucket -> Int]
    BY <1>3
  <2> QED
    BY <1>3, <2>1, Finite, FunZero
<1>6. /\ \A w \in Worker : Cell.worker[w] = NoMetrics /\ Cell.histogram[w] = NoHistogram
      /\ \A q \in Queue : Cell.queue[q] = NoCounters
  BY DEF Cell
<1> DEFINE f == [w \in Worker |-> Cell.worker[w].processed]
           g == [q \in Queue |-> Cell.queue[q].processed]
<1>7. f \in [Worker -> Int] /\ (\A w \in Worker : f[w] = 0) /\ g \in [Queue -> Int] /\ \A q \in Queue : g[q] = 0
  BY <1>1, <1>2, <1>6
<1>8. Processed(Cell) = 0 /\ QueueProcessed(Cell) = 0
  <2> HIDE DEF f, g
  <2>1. SumFunction(f) = 0 /\ SumFunction(g) = 0
    BY <1>7, Finite, FunZero
  <2> QED
    BY <2>1 DEF f, g, Processed, QueueProcessed
<1> QED
  BY <1>1, <1>2, <1>4, <1>5, <1>6, <1>8 DEF SoundCell

(* A result is counted once for its worker and once for its queue. *)
LEMMA CellRecord ==
    ASSUME NEW c, SoundCell(c), NEW r \in Result
    PROVE  /\ SoundCell(RecordCell(c, r))
           /\ Processed(RecordCell(c, r)) = Processed(c) + r.count
           /\ RecordCell(c, r) # Cell
           /\ \A q \in Queue \ {r.queue} : RecordCell(c, r).queue[q] = c.queue[q]
<1> DEFINE d == RecordCell(c, r)
           w0 == r.worker
           q0 == r.queue
           n == r.count
<1>1. w0 \in Worker /\ q0 \in Queue /\ n \in Nat \ {0}
  BY ResultType
<1>2. c \in Cells
  BY DEF SoundCell
<1>3. /\ c.worker \in [Worker -> Metrics] /\ c.histogram \in [Worker -> [Bucket -> Nat]]
      /\ c.queue \in [Queue -> Counters]
      /\ Processed(c) \in Nat /\ QueueProcessed(c) \in Nat
  BY <1>2, CellParts
<1>4. /\ d.worker = [c.worker EXCEPT ![w0] = RecordMetrics(c.worker[w0], r)]
      /\ d.histogram = [c.histogram EXCEPT ![w0] = RecordHistogram(c.histogram[w0], r)]
      /\ d.queue = [c.queue EXCEPT ![q0] = Record(c.queue[q0], r)]
      /\ d = [worker |-> d.worker, histogram |-> d.histogram, queue |-> d.queue]
  BY DEF RecordCell
<1>5. c.worker[w0] \in Metrics /\ c.histogram[w0] \in [Bucket -> Nat] /\ c.queue[q0] \in Counters
  BY <1>1, <1>3
<1>6. /\ RecordMetrics(c.worker[w0], r) \in Metrics
      /\ RecordHistogram(c.histogram[w0], r) \in [Bucket -> Nat]
      /\ Record(c.queue[q0], r) \in Counters
  BY <1>5, RecordMetricsSound, HistogramRecord, RecordCounters
<1>7. d \in Cells
  <2>1. d.worker \in [Worker -> Metrics]
    BY <1>1, <1>3, <1>4, <1>6
  <2>2. d.histogram \in [Worker -> [Bucket -> Nat]]
    BY <1>1, <1>3, <1>4, <1>6
  <2>3. d.queue \in [Queue -> Counters]
    BY <1>1, <1>3, <1>4, <1>6
  <2> QED
    BY <1>4, <2>1, <2>2, <2>3 DEF Cells
<1>8. \A w \in Worker : SoundMetrics(d.worker[w]) /\ SumFunction(d.histogram[w]) <= d.worker[w].xs
  <2> TAKE w \in Worker
  <2>1. SoundMetrics(c.worker[w]) /\ SumFunction(c.histogram[w]) <= c.worker[w].xs
    BY DEF SoundCell
  <2>2. CASE w # w0
    <3>1. d.worker[w] = c.worker[w] /\ d.histogram[w] = c.histogram[w]
      BY <1>3, <1>4, <2>2
    <3> QED
      BY <2>1, <3>1
  <2>3. CASE w = w0
    <3>1. d.worker[w] = RecordMetrics(c.worker[w0], r) /\ d.histogram[w] = RecordHistogram(c.histogram[w0], r)
      BY <1>1, <1>3, <1>4, <2>3
    <3>2. SoundMetrics(d.worker[w]) /\ d.worker[w].xs = c.worker[w0].xs + (IF r.kind = "success" THEN 1 ELSE 0)
      BY <1>5, <2>1, <2>3, <3>1, RecordMetricsSound
    <3>3. SumFunction(d.histogram[w]) <= SumFunction(c.histogram[w0]) + (IF r.kind = "success" THEN 1 ELSE 0)
      BY <1>5, <3>1, HistogramRecord
    <3>4. SumFunction(d.histogram[w]) \in Nat /\ SumFunction(c.histogram[w0]) \in Nat /\ c.worker[w0].xs \in Nat
      BY <1>1, <1>2, <1>7, CellParts
    <3> QED
      BY <2>1, <2>3, <3>2, <3>3, <3>4
  <2> QED
    BY <2>2, <2>3
<1>9. \A q \in Queue : Sound(d.queue[q])
  <2> TAKE q \in Queue
  <2>1. Sound(c.queue[q])
    BY DEF SoundCell
  <2>2. CASE q # q0
    BY <1>3, <1>4, <2>1, <2>2
  <2>3. CASE q = q0
    BY <1>1, <1>3, <1>4, <1>5, <2>1, <2>3, RecordCounters
  <2> QED
    BY <2>2, <2>3
<1>10. Processed(d) = Processed(c) + n
  <2> DEFINE f == [w \in Worker |-> d.worker[w].processed]
             g == [w \in Worker |-> c.worker[w].processed]
  <2>1. f \in [Worker -> Nat] /\ g \in [Worker -> Nat]
    BY <1>2, <1>7, CellParts
  <2>2. f[w0] = g[w0] + n
    BY <1>1, <1>3, <1>4, <1>5, RecordMetricsSound
  <2>3. \A w \in Worker \ {w0} : f[w] = g[w]
    BY <1>3, <1>4
  <2>4. Processed(d) = SumFunction(f) /\ Processed(c) = SumFunction(g)
    BY DEF Processed
  <2> HIDE DEF f, g, d, w0, n
  <2>5. Differ(Worker, f, g, w0) /\ g[w0] \in Nat
    BY <1>1, <2>1, <2>3, Finite DEF Differ
  <2>6. SumFunction(f) = SumFunction(g) - g[w0] + f[w0]
    BY <2>5, FunUpdate
  <2> QED
    BY <1>1, <1>3, <2>2, <2>4, <2>5, <2>6
<1>11. QueueProcessed(d) = QueueProcessed(c) + n
  <2> DEFINE f == [q \in Queue |-> d.queue[q].processed]
             g == [q \in Queue |-> c.queue[q].processed]
  <2>1. f \in [Queue -> Nat] /\ g \in [Queue -> Nat]
    BY <1>2, <1>7, CellParts
  <2>2. f[q0] = g[q0] + n
    BY <1>1, <1>3, <1>4, <1>5, RecordCounters
  <2>3. \A q \in Queue \ {q0} : f[q] = g[q]
    BY <1>3, <1>4
  <2>4. QueueProcessed(d) = SumFunction(f) /\ QueueProcessed(c) = SumFunction(g)
    BY DEF QueueProcessed
  <2> HIDE DEF f, g, d, q0, n
  <2>5. Differ(Queue, f, g, q0) /\ g[q0] \in Nat
    BY <1>1, <2>1, <2>3, Finite DEF Differ
  <2>6. SumFunction(f) = SumFunction(g) - g[q0] + f[q0]
    BY <2>5, FunUpdate
  <2> QED
    BY <1>1, <1>3, <2>2, <2>4, <2>5, <2>6
<1>12. SoundCell(d)
  <2>1. Processed(c) = QueueProcessed(c)
    BY DEF SoundCell
  <2> QED
    BY <1>7, <1>8, <1>9, <1>10, <1>11, <2>1 DEF SoundCell
<1>13. d # Cell
  <2>1. Processed(d) # 0
    BY <1>1, <1>3, <1>10
  <2> QED
    BY <2>1, EmptyCell
<1>14. \A q \in Queue \ {r.queue} : d.queue[q] = c.queue[q]
  BY <1>3, <1>4
<1> QED
  BY <1>10, <1>12, <1>13, <1>14

(* A flush adds a buffer to the counters of its minute. *)
LEMMA CellAdd ==
    ASSUME NEW c, SoundCell(c), NEW d, SoundCell(d)
    PROVE  /\ SoundCell(AddCell(c, d))
           /\ Processed(AddCell(c, d)) = Processed(c) + Processed(d)
           /\ \A q \in Queue :
                AddCell(c, d).queue[q].processed = c.queue[q].processed + d.queue[q].processed
<1> DEFINE e == AddCell(c, d)
<1>1. c \in Cells /\ d \in Cells
  BY DEF SoundCell
<1>2. /\ c.worker \in [Worker -> Metrics] /\ c.histogram \in [Worker -> [Bucket -> Nat]]
      /\ c.queue \in [Queue -> Counters]
      /\ Processed(c) \in Nat /\ QueueProcessed(c) \in Nat
  BY <1>1, CellParts
<1>3. /\ d.worker \in [Worker -> Metrics] /\ d.histogram \in [Worker -> [Bucket -> Nat]]
      /\ d.queue \in [Queue -> Counters]
      /\ Processed(d) \in Nat /\ QueueProcessed(d) \in Nat
  BY <1>1, CellParts
<1>4. /\ e.worker = [w \in Worker |-> Plus(c.worker[w], d.worker[w])]
      /\ e.histogram = [w \in Worker |-> AddHistogram(c.histogram[w], d.histogram[w])]
      /\ e.queue = [q \in Queue |-> Plus(c.queue[q], d.queue[q])]
      /\ e = [worker |-> e.worker, histogram |-> e.histogram, queue |-> e.queue]
  BY DEF AddCell
<1> HIDE DEF e
<1>5. ASSUME NEW w \in Worker
      PROVE  /\ e.worker[w] \in Metrics /\ e.histogram[w] \in [Bucket -> Nat]
             /\ e.worker[w].processed = c.worker[w].processed + d.worker[w].processed
             /\ SoundMetrics(e.worker[w]) /\ SumFunction(e.histogram[w]) <= e.worker[w].xs
  <2>1. /\ c.worker[w] \in Metrics /\ d.worker[w] \in Metrics
        /\ c.histogram[w] \in [Bucket -> Nat] /\ d.histogram[w] \in [Bucket -> Nat]
    BY <1>2, <1>3
  <2>2. /\ SoundMetrics(c.worker[w]) /\ SumFunction(c.histogram[w]) <= c.worker[w].xs
        /\ SoundMetrics(d.worker[w]) /\ SumFunction(d.histogram[w]) <= d.worker[w].xs
    BY DEF SoundCell
  <2>3. e.worker[w] = Plus(c.worker[w], d.worker[w])
    BY <1>4
  <2>4. e.histogram[w] = AddHistogram(c.histogram[w], d.histogram[w])
    BY <1>4
  <2>5. /\ e.worker[w] \in Metrics /\ SoundMetrics(e.worker[w])
        /\ e.worker[w].processed = c.worker[w].processed + d.worker[w].processed
        /\ e.worker[w].xs = c.worker[w].xs + d.worker[w].xs
    BY <2>1, <2>2, <2>3, PlusMetrics
  <2>6. /\ e.histogram[w] \in [Bucket -> Nat]
        /\ SumFunction(e.histogram[w]) <= SumFunction(c.histogram[w]) + SumFunction(d.histogram[w])
    BY <2>1, <2>4, HistogramAdd
  <2>7. SumFunction(e.histogram[w]) \in Nat
    BY <2>6, Finite, FunNat
  <2>8. /\ SumFunction(c.histogram[w]) \in Nat /\ c.worker[w].xs \in Nat
        /\ SumFunction(d.histogram[w]) \in Nat /\ d.worker[w].xs \in Nat
    BY <1>1, CellParts
  <2> QED
    BY <2>2, <2>5, <2>6, <2>7, <2>8
<1>6. ASSUME NEW q \in Queue
      PROVE  /\ e.queue[q] \in Counters /\ Sound(e.queue[q])
             /\ e.queue[q].processed = c.queue[q].processed + d.queue[q].processed
  <2>1. c.queue[q] \in Counters /\ d.queue[q] \in Counters /\ e.queue[q] = Plus(c.queue[q], d.queue[q])
    BY <1>2, <1>3, <1>4
  <2>2. Sound(c.queue[q]) /\ Sound(d.queue[q])
    BY DEF SoundCell
  <2> QED
    BY <2>1, <2>2, PlusCounters
<1>7. e \in Cells
  <2>1. e.worker \in [Worker -> Metrics] /\ e.queue \in [Queue -> Counters]
    BY <1>4, <1>5, <1>6
  <2>2. e.histogram \in [Worker -> [Bucket -> Nat]]
    BY <1>4, <1>5
  <2> QED
    BY <1>4, <2>1, <2>2 DEF Cells
<1>8. Processed(e) = Processed(c) + Processed(d)
  <2> DEFINE f == [w \in Worker |-> c.worker[w].processed]
             g == [w \in Worker |-> d.worker[w].processed]
             h == [w \in Worker |-> e.worker[w].processed]
  <2>1. f \in [Worker -> Nat] /\ g \in [Worker -> Nat] /\ h \in [Worker -> Nat]
    BY <1>1, <1>7, CellParts
  <2>2. \A w \in Worker : h[w] = f[w] + g[w]
    BY <1>5
  <2>3. Processed(c) = SumFunction(f) /\ Processed(d) = SumFunction(g) /\ Processed(e) = SumFunction(h)
    BY DEF Processed
  <2> HIDE DEF f, g, h
  <2>4. Adds(Worker, f, g, h)
    BY <2>1, <2>2, Finite DEF Adds
  <2> QED
    BY <2>3, <2>4, FunPlus
<1>9. QueueProcessed(e) = QueueProcessed(c) + QueueProcessed(d)
  <2> DEFINE f == [q \in Queue |-> c.queue[q].processed]
             g == [q \in Queue |-> d.queue[q].processed]
             h == [q \in Queue |-> e.queue[q].processed]
  <2>1. f \in [Queue -> Nat] /\ g \in [Queue -> Nat] /\ h \in [Queue -> Nat]
    BY <1>1, <1>7, CellParts
  <2>2. \A q \in Queue : h[q] = f[q] + g[q]
    BY <1>6
  <2>3. /\ QueueProcessed(c) = SumFunction(f) /\ QueueProcessed(d) = SumFunction(g)
        /\ QueueProcessed(e) = SumFunction(h)
    BY DEF QueueProcessed
  <2> HIDE DEF f, g, h
  <2>4. Adds(Queue, f, g, h)
    BY <2>1, <2>2, Finite DEF Adds
  <2> QED
    BY <2>3, <2>4, FunPlus
<1>10. Processed(c) = QueueProcessed(c) /\ Processed(d) = QueueProcessed(d)
  BY DEF SoundCell
<1>11. SoundCell(e)
  BY <1>5, <1>6, <1>7, <1>8, <1>9, <1>10 DEF SoundCell
<1> QED
  BY <1>6, <1>8, <1>11 DEF e

---------------------------------------------------------------------------
(* The clock *)

(* The lengths of time. *)
LEMMA Sizes ==
    /\ MinuteLength \in Nat \ {0} /\ MaxMinutes \in Nat \ {0} /\ RateMinutes \in Nat \ {0}
    /\ DefaultMinutes \in Nat \ {0} /\ DefaultMinutes <= MaxMinutes
    /\ Retention = MaxMinutes * MinuteLength /\ Retention \in Nat
    /\ MaxTime \in Nat
<1>1. /\ MinuteLength \in Nat \ {0} /\ MaxMinutes \in Nat \ {0} /\ RateMinutes \in Nat \ {0}
      /\ DefaultMinutes \in Nat \ {0} /\ DefaultMinutes <= MaxMinutes
  BY ReportsAssumption
<1>2. Retention = MaxMinutes * MinuteLength /\ MaxTime \in Nat
  BY StatisticsAssumption
<1> QED
  BY <1>1, <1>2

(* What the bounds of a behaviour become. *)
LEMMA Spend ==
    ASSUME NEW b \in Bounds
    PROVE  /\ b.results \in Nat /\ b.changes \in Nat /\ b.faults \in Nat /\ b.ticks \in Nat /\ b.queries \in Nat
           /\ b.results > 0 => /\ [b EXCEPT !.results = @ - 1] \in Bounds
                               /\ [b EXCEPT !.results = @ - 1].ticks = b.ticks
           /\ b.changes > 0 => /\ [b EXCEPT !.changes = @ - 1] \in Bounds
                               /\ [b EXCEPT !.changes = @ - 1].ticks = b.ticks
           /\ b.faults > 0 => /\ [b EXCEPT !.faults = @ - 1] \in Bounds
                              /\ [b EXCEPT !.faults = @ - 1].ticks = b.ticks
           /\ b.queries > 0 => /\ [b EXCEPT !.queries = @ - 1] \in Bounds
                               /\ [b EXCEPT !.queries = @ - 1].ticks = b.ticks
           /\ b.ticks > 0 => /\ [b EXCEPT !.ticks = @ - 1] \in Bounds
                             /\ [b EXCEPT !.ticks = @ - 1].ticks = b.ticks - 1
<1>1. b.results \in Nat /\ b.changes \in Nat /\ b.faults \in Nat /\ b.ticks \in Nat /\ b.queries \in Nat
  BY DEF Bounds
<1>2. ASSUME b.results > 0
      PROVE  [b EXCEPT !.results = @ - 1] \in Bounds /\ [b EXCEPT !.results = @ - 1].ticks = b.ticks
  BY <1>1, <1>2 DEF Bounds
<1>3. ASSUME b.changes > 0
      PROVE  [b EXCEPT !.changes = @ - 1] \in Bounds /\ [b EXCEPT !.changes = @ - 1].ticks = b.ticks
  BY <1>1, <1>3 DEF Bounds
<1>4. ASSUME b.faults > 0
      PROVE  [b EXCEPT !.faults = @ - 1] \in Bounds /\ [b EXCEPT !.faults = @ - 1].ticks = b.ticks
  BY <1>1, <1>4 DEF Bounds
<1>5. ASSUME b.ticks > 0
      PROVE  [b EXCEPT !.ticks = @ - 1] \in Bounds /\ [b EXCEPT !.ticks = @ - 1].ticks = b.ticks - 1
  BY <1>1, <1>5 DEF Bounds
<1>6. ASSUME b.queries > 0
      PROVE  [b EXCEPT !.queries = @ - 1] \in Bounds /\ [b EXCEPT !.queries = @ - 1].ticks = b.ticks
  BY <1>1, <1>6 DEF Bounds
<1> QED
  BY <1>1, <1>2, <1>3, <1>4, <1>5, <1>6

(* The minute of a time holds it. *)
LEMMA MinuteOf ==
    ASSUME NEW t \in Nat
    PROVE  /\ Minute(t) \in Nat
           /\ Minute(t) * MinuteLength <= t
           /\ t < (Minute(t) + 1) * MinuteLength
<1>1. MinuteLength \in Nat /\ MinuteLength > 0
  BY Sizes
<1> QED
  BY <1>1, Z3 DEF Minute

(* Multiplication keeps the order. *)
LEMMA TimesMonotone ==
    ASSUME NEW a \in Int, NEW b \in Int, NEW k \in Nat, a <= b
    PROVE  a * k <= b * k
<1>1. (b - a) * k >= 0
  BY Z3
<1>2. (b - a) * k = b * k - a * k
  BY Z3
<1>3. a * k \in Int /\ b * k \in Int
  OBVIOUS
<1> QED
  BY <1>1, <1>2, <1>3

(* Later times are in later minutes. *)
LEMMA MinuteMonotone ==
    ASSUME NEW s \in Nat, NEW t \in Nat, s <= t
    PROVE  Minute(s) <= Minute(t)
<1> DEFINE a == Minute(s)
           b == Minute(t)
           k == MinuteLength
<1>1. a \in Nat /\ b \in Nat /\ a * k <= s /\ t < (b + 1) * k
  BY MinuteOf
<1>2. k \in Nat
  BY Sizes
<1> HIDE DEF a, b, k
<1> SUFFICES ASSUME b < a PROVE FALSE
  BY <1>1 DEF a, b
<1>3. (b + 1) * k <= a * k
  BY <1>1, <1>2, TimesMonotone
<1>4. a * k \in Int /\ (b + 1) * k \in Int
  BY <1>1, <1>2
<1> QED
  BY <1>1, <1>3, <1>4

(* The current minute is one of those the model keeps. *)
LEMMA CurrentMinute ==
    ASSUME Types
    PROVE  Minute(now) \in Minutes
<1>0. now \in Nat /\ left \in Bounds /\ now + left.ticks <= MaxTime
  BY DEF Types
<1>1. now \in Nat /\ MaxTime \in Nat /\ now <= MaxTime
  <2>1. left.ticks \in Nat
    BY <1>0, Spend
  <2> QED
    BY <1>0, <2>1, Sizes
<1>2. Minute(now) <= Minute(MaxTime) /\ Minute(now) \in Nat /\ Minute(MaxTime) \in Nat
  BY <1>1, MinuteMonotone, MinuteOf
<1> QED
  BY <1>2 DEF Minutes

(* The minutes of a behaviour are finitely many. *)
LEMMA MinutesType == Minutes \subseteq Nat /\ IsFiniteSet(Minutes)
<1>1. Minute(MaxTime) \in Nat
  BY Sizes, MinuteOf
<1>2. IsFiniteSet(0..Minute(MaxTime))
  BY <1>1, FS_Interval
<1> QED
  BY <1>1, <1>2 DEF Minutes

(* The keys of a minute outlive every query that covers it. *)
LEMMA KeyAlive ==
    ASSUME Types, MinuteCounts, NEW m \in Minutes, m > Minute(now) - MaxMinutes
    PROVE  Kept(m) = cells[m]
<1> DEFINE k == MinuteLength
           c == Minute(now)
<1>1. now \in Nat /\ c \in Nat /\ now < (c + 1) * k /\ m \in Nat /\ k \in Nat /\ MaxMinutes \in Nat
  BY MinuteOf, MinutesType, Sizes DEF Types
<1>2. SUFFICES ASSUME cells[m] # Cell PROVE now < until[m]
  BY DEF Kept
<1>3. m * k + Retention <= until[m] /\ until[m] \in Nat
  BY <1>2 DEF MinuteCounts
<1>4. (c + 1) * k <= (m + MaxMinutes) * k
  <2>1. c + 1 <= m + MaxMinutes
    BY <1>1
  <2> HIDE DEF c, k
  <2> QED
    BY <1>1, <2>1, TimesMonotone
<1>5. (m + MaxMinutes) * k = m * k + Retention
  <2>1. Retention = MaxMinutes * k
    BY Sizes
  <2> HIDE DEF c, k
  <2> QED
    BY <1>1, <2>1, Z3
<1>6. (c + 1) * k \in Int /\ (m + MaxMinutes) * k \in Int
  <2> HIDE DEF c, k
  <2> QED
    BY <1>1
<1> HIDE DEF c, k
<1> QED
  BY <1>1, <1>3, <1>4, <1>5, <1>6

---------------------------------------------------------------------------
(* Queries *)

(* A query that has read nothing. *)
LEMMA NoInputsOK == InputsOK(NoInputs)
<1>1. Sound(NoCounters) /\ NoCounters.processed \in Nat
  BY DEF NoCounters, Counters, Sound
<1> QED
  BY <1>1 DEF InputsOK, NoInputs, NoPending, NoSnapshots, NoLengths

(* One more read. *)
LEMMA InputsSet ==
    ASSUME NEW in, InputsOK(in)
    PROVE  /\ \A s : (\A q \in Queue : s[q] \in Nat) =>
                InputsOK([in EXCEPT !.start = s])
           /\ \A q \in Queue, n \in Nat : InputsOK([in EXCEPT !.length[q] = n, !.unread = @ \ {q}])
           /\ \A s, t : (\A q \in Queue : Sound(s[q]) /\ t[q] \in {None} \cup [enqueued : Nat, fresh : BOOLEAN])
                => InputsOK([in EXCEPT !.stats = s, !.snapshot = t])
           /\ \A s : (\A q \in Queue : s[q].processed \in Nat) =>
                \A u \in SUBSET Queue : InputsOK([in EXCEPT !.window = s, !.unread = u])
<1>1. DOMAIN in = {"listed", "at", "stats", "snapshot", "start", "window", "length", "unread"}
  BY DEF InputsOK, NoInputs
<1> QED
  BY <1>1 DEF InputsOK

---------------------------------------------------------------------------
(* The inductive invariant: initially *)

(* Nothing is counted yet. *)
LEMMA InitInv == Init => IInv
<1> SUFFICES ASSUME Init PROVE IInv
  OBVIOUS
<1>1. NoCounters \in Counters /\ Sound(NoCounters) /\ \A f \in DOMAIN NoCounters : NoCounters[f] = 0
  <2>1. \A f \in DOMAIN NoCounters : NoCounters[f] = 0
    BY CounterFields DEF NoCounters
  <2> QED
    BY <2>1 DEF NoCounters, Counters, Sound
<1>2. Types
  <2>1. left \in [results : Nat, changes : Nat, faults : Nat, ticks : 0..MaxTime, queries : Nat] /\ MaxTime \in Nat
    BY StatisticsAssumption DEF Init
  <2>2. left \in Bounds /\ left.ticks <= MaxTime
    BY <2>1 DEF Bounds
  <2>3. left.ticks \in Nat
    BY <2>2, Spend
  <2> QED
    BY <2>2, <2>3 DEF Types, Init, NoLengths, NoSnapshots
<1>3. Counts
  <2>1. /\ stats \in [Queue -> Counters] /\ pending \in [Proc -> [Queue -> Counters]]
        /\ recorded \in [Queue -> Counters] /\ twice \in [Queue -> Counters]
    BY <1>1 DEF Init, NoPending
  <2>2. ASSUME NEW q \in Queue, NEW f \in DOMAIN NoCounters
        PROVE  stats[q][f] + Unflushed(q, f) = recorded[q][f] + twice[q][f]
    <3> DEFINE u == [p \in Proc |-> pending[p][q][f]]
    <3>1. \A p \in Proc : pending[p][q] = NoCounters
      BY DEF Init, NoPending
    <3>2. stats[q] = NoCounters /\ recorded[q] = NoCounters /\ twice[q] = NoCounters
      BY DEF Init, NoPending
    <3>3. u \in [Proc -> Int] /\ \A p \in Proc : u[p] = 0
      BY <1>1, <3>1
    <3>4. Unflushed(q, f) = SumFunction(u)
      BY DEF Unflushed
    <3> HIDE DEF u
    <3>5. SumFunction(u) = 0
      BY <3>3, Finite, FunZero
    <3> QED
      BY <1>1, <3>2, <3>4, <3>5
  <2>3. \A q \in Queue : Sound(stats[q]) /\ \A p \in Proc : Sound(pending[p][q])
    BY <1>1 DEF Init, NoPending
  <2> QED
    BY <2>1, <2>2, <2>3 DEF Counts
<1>4. MinuteCounts
  <2>1. Cell \in Cells /\ SoundCell(Cell) /\ Processed(Cell) = 0
    BY EmptyCell DEF SoundCell
  <2>2. \A m \in Minutes : cells[m] = Cell /\ \A p \in Proc : buffer[p][m] = Cell
    BY DEF Init, NoCells
  <2>3. cells \in [Minutes -> Cells] /\ buffer \in [Proc -> [Minutes -> Cells]]
    BY <2>1 DEF Init, NoCells
  <2>4. until \in [Minutes -> Nat] /\ truth \in [Minutes -> Nat] /\ twiceIn \in [Minutes -> Nat]
    BY DEF Init
  <2>5. ASSUME NEW m \in Minutes
        PROVE  Processed(cells[m]) + SumFunction([p \in Proc |-> Buffered(p, m)]) = truth[m] + twiceIn[m]
    <3> DEFINE u == [p \in Proc |-> Buffered(p, m)]
    <3>1. u \in [Proc -> Int] /\ \A p \in Proc : u[p] = 0
      BY <2>1, <2>2 DEF Buffered
    <3> HIDE DEF u
    <3>2. SumFunction(u) = 0
      BY <3>1, Finite, FunZero
    <3>3. truth[m] = 0 /\ twiceIn[m] = 0 /\ Processed(cells[m]) = 0
      BY <2>1, <2>2 DEF Init
    <3> QED
      BY <3>2, <3>3 DEF u
  <2> QED
    BY <2>1, <2>2, <2>3, <2>4, <2>5 DEF MinuteCounts
<1>5. Untouched
  <2>1. \A m \in Minutes : \A q \in Queue : /\ cells[m].queue[q] = NoCounters
                                            /\ \A p \in Proc : buffer[p][m].queue[q] = NoCounters
    BY EmptyCell DEF Init, NoCells
  <2>2. NoCounters.processed = 0
    BY DEF NoCounters
  <2> QED
    BY <2>1, <2>2 DEF Untouched
<1>6. Reading
  <2>1. inputs = NoInputs /\ settled = FALSE /\ query = "idle"
    BY DEF Init
  <2> QED
    BY <2>1, NoInputsOK DEF Reading
<1> QED
  BY <1>2, <1>3, <1>4, <1>5, <1>6 DEF IInv

---------------------------------------------------------------------------
(* What a step leaves alone *)

(* The parts of the invariant depend on these variables only. *)
LEMMA CountsFrame ==
    ASSUME Counts, UNCHANGED <<stats, pending, recorded, twice>>
    PROVE  Counts'
BY DEF Counts, Unflushed

(* The keys of the minutes, the buffers and the history. *)
LEMMA MinutesFrame ==
    ASSUME MinuteCounts, UNCHANGED <<now, cells, until, buffer, truth, twiceIn>>
    PROVE  MinuteCounts'
BY DEF MinuteCounts, Buffered

(* The counters by queue. *)
LEMMA UntouchedFrame ==
    ASSUME Untouched, UNCHANGED <<recorded, cells, buffer>>
    PROVE  Untouched'
BY DEF Untouched

(* The rest of the state. *)
LEMMA TypesFrame ==
    ASSUME Types, UNCHANGED <<now, length, snapshot, sample, chan, active, read>>,
           \/ UNCHANGED left
           \/ left' = [left EXCEPT !.faults = @ - 1] /\ left.faults > 0
    PROVE  Types'
<1>1. left' \in Bounds /\ left'.ticks = left.ticks
  BY Spend DEF Types
<1> QED
  BY <1>1 DEF Types

(* A step of a collector pays for a fault or leaves the budget alone. *)
LEMMA Outcome ==
    ASSUME NEW p \in Proc, Success(p) \/ Failure(p)
    PROVE  \/ UNCHANGED left
           \/ left' = [left EXCEPT !.faults = @ - 1] /\ left.faults > 0
BY DEF Success, Failure, CountFailure

---------------------------------------------------------------------------
(* The counters of the queues *)

(* The terms of a sum over the collectors. *)
LEMMA PendingTerms ==
    ASSUME Counts, NEW q \in Queue, NEW f \in DOMAIN NoCounters
    PROVE  /\ [p \in Proc |-> pending[p][q][f]] \in [Proc -> Nat]
           /\ Unflushed(q, f) \in Nat
           /\ stats[q][f] \in Nat /\ recorded[q][f] \in Nat /\ twice[q][f] \in Nat
<1> DEFINE u == [p \in Proc |-> pending[p][q][f]]
<1>1. \A c \in Counters : c[f] \in Nat
  BY CounterFields DEF Counters
<1>2. u \in [Proc -> Nat] /\ stats[q][f] \in Nat /\ recorded[q][f] \in Nat /\ twice[q][f] \in Nat
  BY <1>1 DEF Counts
<1>3. Unflushed(q, f) = SumFunction(u)
  BY DEF Unflushed
<1> HIDE DEF u
<1>4. SumFunction(u) \in Nat
  BY <1>2, Finite, FunNat
<1> QED
  BY <1>2, <1>3, <1>4 DEF u

(* A collected result is pending, and recorded. *)
LEMMA CollectCounts ==
    ASSUME Types, Counts, NEW p \in Proc, Collect(p)
    PROVE  Counts'
<1> DEFINE r == Head(chan[p])
<1>1. r \in Result
  BY DEF Types, Collect
<1>2. r.queue \in Queue
  BY <1>1, ResultType
<1>3. /\ pending' = [pending EXCEPT ![p][r.queue] = Record(pending[p][r.queue], r)]
      /\ recorded' = [recorded EXCEPT ![r.queue] = Record(recorded[r.queue], r)]
      /\ stats' = stats /\ twice' = twice
  BY DEF Collect, redis
<1> HIDE DEF r
<1>4. /\ pending[p][r.queue] \in Counters /\ recorded[r.queue] \in Counters
      /\ pending \in [Proc -> [Queue -> Counters]] /\ recorded \in [Queue -> Counters]
      /\ Sound(pending[p][r.queue])
  BY <1>2 DEF Counts
<1>5. /\ Record(pending[p][r.queue], r) \in Counters /\ Record(recorded[r.queue], r) \in Counters
      /\ Sound(Record(pending[p][r.queue], r))
  BY <1>1, <1>4, RecordCounters
<1>6. /\ pending' \in [Proc -> [Queue -> Counters]] /\ recorded' \in [Queue -> Counters]
      /\ pending'[p][r.queue] = Record(pending[p][r.queue], r)
      /\ recorded'[r.queue] = Record(recorded[r.queue], r)
      /\ \A q \in Queue \ {r.queue} : recorded'[q] = recorded[q] /\ pending'[p][q] = pending[p][q]
      /\ \A o \in Proc \ {p} : pending'[o] = pending[o]
  BY <1>2, <1>3, <1>4, <1>5
<1>7. \A q \in Queue : Sound(stats'[q]) /\ \A o \in Proc : Sound(pending'[o][q])
  <2> TAKE q \in Queue
  <2>1. Sound(stats'[q])
    BY <1>3 DEF Counts
  <2>2. ASSUME NEW o \in Proc PROVE Sound(pending'[o][q])
    <3>1. Sound(pending[o][q])
      BY DEF Counts
    <3>2. CASE o = p /\ q = r.queue
      BY <1>5, <1>6, <3>2
    <3>3. CASE ~(o = p /\ q = r.queue)
      <4>1. pending'[o][q] = pending[o][q]
        BY <1>6, <3>3
      <4> QED
        BY <3>1, <4>1
    <3> QED
      BY <3>2, <3>3
  <2> QED
    BY <2>1, <2>2
<1>8. ASSUME NEW q \in Queue, NEW f \in DOMAIN NoCounters
      PROVE  stats'[q][f] + Unflushed(q, f)' = recorded'[q][f] + twice'[q][f]
  <2> DEFINE u == [o \in Proc |-> pending[o][q][f]]
             v == [o \in Proc |-> pending'[o][q][f]]
  <2>1. stats[q][f] + Unflushed(q, f) = recorded[q][f] + twice[q][f]
    BY DEF Counts
  <2>2. Unflushed(q, f) = SumFunction(u) /\ Unflushed(q, f)' = SumFunction(v)
    BY DEF Unflushed
  <2>3. /\ u \in [Proc -> Nat] /\ SumFunction(u) \in Nat
        /\ stats[q][f] \in Nat /\ recorded[q][f] \in Nat /\ twice[q][f] \in Nat
    BY <2>2, PendingTerms
  <2>4. CASE q # r.queue
    <3>1. u = v /\ recorded'[q] = recorded[q]
      BY <1>6, <2>4
    <3> QED
      BY <1>3, <2>1, <2>2, <3>1
  <2>5. CASE q = r.queue
    <3>1. /\ u[p] = pending[p][q][f] /\ v[p] = Record(pending[p][q], r)[f]
          /\ recorded'[q][f] = Record(recorded[q], r)[f]
      BY <1>6, <2>5
    <3>2. /\ u[p] \in Nat /\ v[p] \in Nat /\ recorded'[q][f] \in Nat
          /\ v[p] - u[p] = recorded'[q][f] - recorded[q][f]
      BY <1>1, <1>4, <2>5, <3>1, RecordAdds
    <3>3. \A o \in Proc \ {p} : v[o] = u[o]
      BY <1>6
    <3>4. v \in [Proc -> Int]
      BY <2>3, <3>2, <3>3
    <3> HIDE DEF u, v
    <3>5. Differ(Proc, v, u, p)
      BY <2>3, <3>3, <3>4, Finite DEF Differ
    <3>6. SumFunction(v) = SumFunction(u) - u[p] + v[p]
      BY <3>5, FunUpdate
    <3> QED
      BY <1>3, <2>1, <2>2, <2>3, <3>2, <3>6
  <2> QED
    BY <2>4, <2>5
<1> QED
  BY <1>3, <1>6, <1>7, <1>8 DEF Counts

(* A flush moves the pending counts of a collector to Redis. *)
LEMMA FlushStatsCounts ==
    ASSUME Counts, NEW p \in Proc, AddStats(p), UNCHANGED <<recorded, twice>>,
           pending' = [pending EXCEPT ![p] = NoPending]
    PROVE  Counts'
<1>1. NoCounters \in Counters /\ Sound(NoCounters) /\ \A f \in DOMAIN NoCounters : NoCounters[f] = 0
  <2>1. \A f \in DOMAIN NoCounters : NoCounters[f] = 0
    BY CounterFields DEF NoCounters
  <2> QED
    BY <2>1 DEF NoCounters, Counters, Sound
<1>2. \A q \in Queue : /\ stats[q] \in Counters /\ Sound(stats[q])
                       /\ pending[p][q] \in Counters /\ Sound(pending[p][q])
  BY DEF Counts
<1>3. \A q \in Queue : stats'[q] = Plus(stats[q], pending[p][q])
  BY DEF AddStats
<1>4. \A q \in Queue : stats'[q] \in Counters /\ Sound(stats'[q])
  BY <1>2, <1>3, PlusCounters
<1>5. stats' \in [Queue -> Counters] /\ pending' \in [Proc -> [Queue -> Counters]]
  BY <1>1, <1>4 DEF AddStats, Counts, NoPending
<1>6. /\ \A q \in Queue : pending'[p][q] = NoCounters
      /\ \A o \in Proc \ {p} : pending'[o] = pending[o]
  BY DEF Counts, NoPending
<1>7. \A q \in Queue : \A o \in Proc : Sound(pending'[o][q])
  BY <1>1, <1>6 DEF Counts
<1>8. ASSUME NEW q \in Queue, NEW f \in DOMAIN NoCounters
      PROVE  stats'[q][f] + Unflushed(q, f)' = recorded'[q][f] + twice'[q][f]
  <2> DEFINE u == [o \in Proc |-> pending[o][q][f]]
             v == [o \in Proc |-> pending'[o][q][f]]
  <2>1. stats[q][f] + Unflushed(q, f) = recorded[q][f] + twice[q][f]
    BY DEF Counts
  <2>2. Unflushed(q, f) = SumFunction(u) /\ Unflushed(q, f)' = SumFunction(v)
    BY DEF Unflushed
  <2>3. /\ u \in [Proc -> Nat] /\ SumFunction(u) \in Nat
        /\ stats[q][f] \in Nat /\ recorded[q][f] \in Nat /\ twice[q][f] \in Nat
    BY <2>2, PendingTerms
  <2>4. u[p] = pending[p][q][f] /\ v[p] = 0 /\ \A o \in Proc \ {p} : v[o] = u[o]
    BY <1>1, <1>6
  <2>5. stats'[q][f] = stats[q][f] + u[p]
    BY <1>2, <1>3, <2>4, PlusCounters
  <2>6. v \in [Proc -> Int] /\ u[p] \in Nat
    BY <2>3, <2>4
  <2> HIDE DEF u, v
  <2>7. Differ(Proc, v, u, p)
    BY <2>3, <2>4, <2>6, Finite DEF Differ
  <2>8. SumFunction(v) = SumFunction(u) - u[p] + v[p]
    BY <2>7, FunUpdate
  <2> QED
    BY <2>1, <2>2, <2>3, <2>4, <2>5, <2>6, <2>8
<1> QED
  BY <1>4, <1>5, <1>7, <1>8 DEF Counts

(* A flush that was applied and reported as failed is counted again. *)
LEMMA FlushTwiceCounts ==
    ASSUME Counts, NEW p \in Proc, AddStats(p), UNCHANGED <<recorded, pending>>,
           twice' = [q \in Queue |-> Plus(twice[q], pending[p][q])]
    PROVE  Counts'
<1>1. \A q \in Queue : /\ stats[q] \in Counters /\ Sound(stats[q]) /\ twice[q] \in Counters
                       /\ pending[p][q] \in Counters /\ Sound(pending[p][q])
  BY DEF Counts
<1>2. \A q \in Queue : stats'[q] = Plus(stats[q], pending[p][q]) /\ twice'[q] = Plus(twice[q], pending[p][q])
  BY DEF AddStats
<1>3. \A q \in Queue : stats'[q] \in Counters /\ Sound(stats'[q]) /\ twice'[q] \in Counters
  BY <1>1, <1>2, PlusCounters
<1>4. stats' \in [Queue -> Counters] /\ twice' \in [Queue -> Counters]
  BY <1>3 DEF AddStats
<1>5. ASSUME NEW q \in Queue, NEW f \in DOMAIN NoCounters
      PROVE  stats'[q][f] + Unflushed(q, f)' = recorded'[q][f] + twice'[q][f]
  <2>1. stats[q][f] + Unflushed(q, f) = recorded[q][f] + twice[q][f]
    BY DEF Counts
  <2>2. Unflushed(q, f)' = Unflushed(q, f)
    BY DEF Unflushed
  <2>3. /\ Unflushed(q, f) \in Nat /\ stats[q][f] \in Nat /\ recorded[q][f] \in Nat /\ twice[q][f] \in Nat
        /\ pending[p][q][f] \in Nat
    BY PendingTerms
  <2>4. /\ stats'[q][f] = stats[q][f] + pending[p][q][f]
        /\ twice'[q][f] = twice[q][f] + pending[p][q][f]
    BY <1>1, <1>2, PlusCounters
  <2> QED
    BY <2>1, <2>2, <2>3, <2>4
<1> QED
  BY <1>3, <1>4, <1>5 DEF Counts

---------------------------------------------------------------------------
(* The counters of the minutes *)

(* What is buffered is a number. *)
LEMMA BufferTerms ==
    ASSUME MinuteCounts, NEW m \in Minutes
    PROVE  /\ [p \in Proc |-> Buffered(p, m)] \in [Proc -> Nat]
           /\ SumFunction([p \in Proc |-> Buffered(p, m)]) \in Nat
           /\ Processed(cells[m]) \in Nat /\ truth[m] \in Nat /\ twiceIn[m] \in Nat
<1> DEFINE u == [p \in Proc |-> Buffered(p, m)]
<1>1. \A p \in Proc : buffer[p][m] \in Cells
  BY DEF MinuteCounts
<1>2. cells[m] \in Cells /\ truth[m] \in Nat /\ twiceIn[m] \in Nat
  BY DEF MinuteCounts
<1>3. u \in [Proc -> Nat]
  BY <1>1, CellParts DEF Buffered
<1>4. SumFunction(u) \in Nat
  <2> HIDE DEF u
  <2> QED
    BY <1>3, Finite, FunNat
<1> QED
  BY <1>2, <1>3, <1>4, CellParts

(* Time passes: keys expire only when no query covers their minute. *)
LEMMA TickMinutes ==
    ASSUME Types, MinuteCounts, Tick
    PROVE  MinuteCounts'
<1>1. now \in Nat /\ now' = now + 1 /\ UNCHANGED <<cells, until, buffer, truth, twiceIn>>
  BY DEF Tick, Types, redis, collector, history
<1>2. Minute(now) <= Minute(now') /\ Minute(now) \in Nat /\ Minute(now') \in Nat /\ Minute(now)' = Minute(now')
  BY <1>1, MinuteMonotone, MinuteOf
<1>3. Minutes \subseteq Nat /\ MaxMinutes \in Nat /\ MinuteLength \in Nat
  BY MinutesType, Sizes
<1>4. ASSUME NEW m \in Minutes, m > Minute(now)' - MaxMinutes
      PROVE  /\ m > Minute(now) - MaxMinutes
             /\ SumFunction([p \in Proc |-> Buffered(p, m)])' = SumFunction([p \in Proc |-> Buffered(p, m)])
  <2>1. m > Minute(now) - MaxMinutes
    BY <1>2, <1>3, <1>4
  <2>2. \A p \in Proc : Buffered(p, m)' = Buffered(p, m)
    BY <1>1 DEF Buffered
  <2> QED
    BY <2>1, <2>2
<1>5. \A m \in Minutes : \A p \in Proc : buffer'[p][m] # Cell => m * MinuteLength <= now'
  <2> TAKE m \in Minutes
  <2> TAKE p \in Proc
  <2> HAVE buffer'[p][m] # Cell
  <2>1. m * MinuteLength <= now
    BY <1>1 DEF MinuteCounts
  <2>2. m * MinuteLength \in Int
    BY <1>3
  <2> QED
    BY <1>1, <2>1, <2>2
<1> QED
  BY <1>1, <1>4, <1>5 DEF MinuteCounts

(* A collected result is in the buffer of its minute, and in its history. *)
LEMMA CollectMinutes ==
    ASSUME Types, MinuteCounts, NEW p \in Proc, Collect(p)
    PROVE  MinuteCounts'
<1> DEFINE r == Head(chan[p])
           k == Minute(now)
<1>1. r \in Result
  BY DEF Types, Collect
<1>2. k \in Minutes /\ r.count \in Nat
  BY <1>1, CurrentMinute, ResultType
<1>3. /\ buffer' = [buffer EXCEPT ![p][k] = RecordCell(buffer[p][k], r)]
      /\ truth' = [truth EXCEPT ![k] = truth[k] + r.count]
      /\ UNCHANGED <<now, cells, until, twiceIn>>
  BY DEF Collect, redis
<1>4. k * MinuteLength <= now
  BY MinuteOf DEF Types
<1>5. Minute(now)' = Minute(now)
  BY <1>3 DEF Minute
<1> HIDE DEF r, k
<1>6. buffer \in [Proc -> [Minutes -> Cells]] /\ SoundCell(buffer[p][k])
  BY <1>2 DEF MinuteCounts
<1>7. /\ SoundCell(RecordCell(buffer[p][k], r))
      /\ RecordCell(buffer[p][k], r) \in Cells
      /\ Processed(RecordCell(buffer[p][k], r)) = Processed(buffer[p][k]) + r.count
  BY <1>1, <1>6, CellRecord DEF SoundCell
<1>8. /\ buffer' \in [Proc -> [Minutes -> Cells]]
      /\ buffer'[p][k] = RecordCell(buffer[p][k], r)
      /\ \A o \in Proc : \A m \in Minutes : (o # p \/ m # k) => buffer'[o][m] = buffer[o][m]
  BY <1>2, <1>3, <1>6, <1>7
<1>9. truth' \in [Minutes -> Nat] /\ truth'[k] = truth[k] + r.count /\ \A m \in Minutes \ {k} : truth'[m] = truth[m]
  BY <1>2, <1>3 DEF MinuteCounts
<1>10. \A m \in Minutes : \A o \in Proc : /\ SoundCell(buffer'[o][m])
                                          /\ buffer'[o][m] # Cell => m * MinuteLength <= now
  BY <1>4, <1>7, <1>8 DEF MinuteCounts
<1>11. ASSUME NEW m \in Minutes, m > Minute(now) - MaxMinutes
       PROVE  Processed(cells[m]) + SumFunction([o \in Proc |-> Buffered(o, m)])' = truth'[m] + twiceIn[m]
  <2> DEFINE u == [o \in Proc |-> Buffered(o, m)]
             v == [o \in Proc |-> Buffered(o, m)']
  <2>0. SumFunction([o \in Proc |-> Buffered(o, m)])' = SumFunction(v)
    OBVIOUS
  <2>1. Processed(cells[m]) + SumFunction(u) = truth[m] + twiceIn[m]
    BY <1>11 DEF MinuteCounts
  <2>2. /\ u \in [Proc -> Nat] /\ SumFunction(u) \in Nat
        /\ Processed(cells[m]) \in Nat /\ truth[m] \in Nat /\ twiceIn[m] \in Nat
    BY BufferTerms
  <2>3. CASE m # k
    <3>1. \A o \in Proc : Buffered(o, m)' = Buffered(o, m)
      BY <1>8, <2>3 DEF Buffered
    <3>2. u = v
      BY <3>1
    <3>3. truth'[m] = truth[m]
      BY <1>9, <2>3
    <3> QED
      BY <2>0, <2>1, <3>2, <3>3
  <2>4. CASE m = k
    <3>1. \A o \in Proc \ {p} : Buffered(o, m)' = Buffered(o, m)
      BY <1>8 DEF Buffered
    <3>2. Buffered(p, m)' = Buffered(p, m) + r.count
      BY <1>7, <1>8, <2>4 DEF Buffered
    <3>3. v[p] = u[p] + r.count /\ u[p] \in Nat /\ \A o \in Proc \ {p} : v[o] = u[o]
      BY <2>2, <3>1, <3>2
    <3>4. v \in [Proc -> Int]
      BY <1>2, <2>2, <3>3
    <3> HIDE DEF u, v
    <3>5. Differ(Proc, v, u, p)
      BY <2>2, <3>3, <3>4, Finite DEF Differ
    <3>6. SumFunction(v) = SumFunction(u) - u[p] + v[p]
      BY <3>5, FunUpdate
    <3>7. SumFunction(v) = SumFunction(u) + r.count
      BY <1>2, <2>2, <3>3, <3>6
    <3> QED
      BY <1>2, <1>9, <2>0, <2>1, <2>2, <2>4, <3>7
  <2> QED
    BY <2>3, <2>4
<1> QED
  BY <1>3, <1>5, <1>8, <1>9, <1>10, <1>11 DEF MinuteCounts

(* A minute without increments does not change. *)
LEMMA AddNothing == AddCell(Cell, Cell) = Cell
<1>1. Plus(NoMetrics, NoMetrics) = NoMetrics /\ Plus(NoCounters, NoCounters) = NoCounters
  BY DEF Plus, NoMetrics, NoCounters
<1>2. AddHistogram(NoHistogram, NoHistogram) = NoHistogram
  BY ReportsAssumption DEF AddHistogram, NoHistogram
<1>3. /\ \A w \in Worker : Cell.worker[w] = NoMetrics /\ Cell.histogram[w] = NoHistogram
      /\ \A q \in Queue : Cell.queue[q] = NoCounters
  BY DEF Cell
<1>4. AddCell(Cell, Cell) =
        [worker |-> [w \in Worker |-> NoMetrics], histogram |-> [w \in Worker |-> NoHistogram],
         queue |-> [q \in Queue |-> NoCounters]]
  BY <1>1, <1>2, <1>3 DEF AddCell
<1> QED
  BY <1>4 DEF Cell

(* What a flush of the metrics does to the keys of a minute. *)
LEMMA AddCellsMinute ==
    ASSUME Types, MinuteCounts, NEW p \in Proc, AddCells(p), UNCHANGED now, NEW m \in Minutes
    PROVE  /\ SoundCell(cells'[m]) /\ until'[m] \in Nat
           /\ cells'[m] # Cell => m * MinuteLength + Retention <= until'[m]
           /\ m > Minute(now) - MaxMinutes => Processed(cells'[m]) = Processed(cells[m]) + Buffered(p, m)
           /\ \A q \in Queue : cells[m].queue[q].processed = 0 /\ buffer[p][m].queue[q].processed = 0
                                 => cells'[m].queue[q].processed = 0
<1>1. /\ SoundCell(cells[m]) /\ SoundCell(buffer[p][m]) /\ until[m] \in Nat
      /\ buffer[p][m] # Cell => m * MinuteLength <= now
      /\ cells[m] # Cell => m * MinuteLength + Retention <= until[m]
  BY DEF MinuteCounts
<1>2. now \in Nat /\ Retention \in Nat /\ m \in Nat /\ MinuteLength \in Nat
  BY MinutesType, Sizes DEF Types
<1>3. /\ cells'[m] = AddCell(Kept(m), buffer[p][m])
      /\ until'[m] = IF buffer[p][m] # Cell THEN now + Retention ELSE until[m]
  BY DEF AddCells
<1>4. SoundCell(Kept(m)) /\ (Kept(m) # Cell => Kept(m) = cells[m])
  BY <1>1, EmptyCell DEF Kept
<1>5. /\ SoundCell(cells'[m])
      /\ Processed(cells'[m]) = Processed(Kept(m)) + Processed(buffer[p][m])
      /\ \A q \in Queue : cells'[m].queue[q].processed
                            = Kept(m).queue[q].processed + buffer[p][m].queue[q].processed
  BY <1>1, <1>3, <1>4, CellAdd
<1>6. until'[m] \in Nat
  BY <1>1, <1>2, <1>3
<1>7. ASSUME cells'[m] # Cell PROVE m * MinuteLength + Retention <= until'[m]
  <2>0. m * MinuteLength \in Int
    BY <1>2
  <2>1. CASE buffer[p][m] # Cell
    BY <1>1, <1>2, <1>3, <2>0, <2>1
  <2>2. CASE buffer[p][m] = Cell
    <3>1. Kept(m) # Cell
      BY <1>3, <1>7, <2>2, AddNothing
    <3> QED
      BY <1>1, <1>3, <1>4, <2>2, <3>1
  <2> QED
    BY <2>1, <2>2
<1>8. m > Minute(now) - MaxMinutes => Processed(cells'[m]) = Processed(cells[m]) + Buffered(p, m)
  BY <1>5, KeyAlive DEF Buffered
<1>9. \A q \in Queue : cells[m].queue[q].processed = 0 => Kept(m).queue[q].processed = 0
  <2>1. NoCounters.processed = 0
    BY DEF NoCounters
  <2> QED
    BY <1>4, <2>1, EmptyCell
<1> QED
  BY <1>5, <1>6, <1>7, <1>8, <1>9

(* A flush of the metrics keeps the types. *)
LEMMA AddCellsTypes ==
    ASSUME Types, MinuteCounts, NEW p \in Proc, AddCells(p), UNCHANGED now
    PROVE  cells' \in [Minutes -> Cells] /\ until' \in [Minutes -> Nat]
<1>1. \A m \in Minutes : cells'[m] \in Cells /\ until'[m] \in Nat
  BY AddCellsMinute DEF SoundCell
<1>2. DOMAIN cells' = Minutes /\ DOMAIN until' = Minutes
  BY DEF AddCells
<1>3. cells' = [m \in Minutes |-> cells'[m]] /\ until' = [m \in Minutes |-> until'[m]]
  BY DEF AddCells
<1> QED
  BY <1>1, <1>3

(* A flush moves what was buffered to Redis. *)
LEMMA FlushMetricsMinutes ==
    ASSUME Types, MinuteCounts, NEW p \in Proc, FlushMetrics(p)
    PROVE  MinuteCounts'
<1>1. /\ AddCells(p) /\ UNCHANGED <<now, truth, twiceIn>>
      /\ buffer' = [buffer EXCEPT ![p] = NoCells]
  BY DEF FlushMetrics, history
<1>2. cells' \in [Minutes -> Cells] /\ until' \in [Minutes -> Nat]
  BY <1>1, AddCellsTypes
<1>3. Cell \in Cells /\ SoundCell(Cell) /\ Processed(Cell) = 0
  BY EmptyCell DEF SoundCell
<1>4. /\ buffer' \in [Proc -> [Minutes -> Cells]]
      /\ \A m \in Minutes : buffer'[p][m] = Cell
      /\ \A o \in Proc \ {p} : buffer'[o] = buffer[o]
  BY <1>1, <1>3 DEF MinuteCounts, NoCells
<1>5. Minute(now)' = Minute(now)
  BY <1>1 DEF Minute
<1>6. \A m \in Minutes : \A o \in Proc : /\ SoundCell(buffer'[o][m])
                                         /\ buffer'[o][m] # Cell => m * MinuteLength <= now
  BY <1>3, <1>4 DEF MinuteCounts
<1>7. ASSUME NEW m \in Minutes, m > Minute(now) - MaxMinutes
      PROVE  Processed(cells'[m]) + SumFunction([o \in Proc |-> Buffered(o, m)])' = truth[m] + twiceIn[m]
  <2> DEFINE u == [o \in Proc |-> Buffered(o, m)]
             v == [o \in Proc |-> Buffered(o, m)']
  <2>0. SumFunction([o \in Proc |-> Buffered(o, m)])' = SumFunction(v)
    OBVIOUS
  <2>1. Processed(cells[m]) + SumFunction(u) = truth[m] + twiceIn[m]
    BY <1>7 DEF MinuteCounts
  <2>2. /\ u \in [Proc -> Nat] /\ SumFunction(u) \in Nat
        /\ Processed(cells[m]) \in Nat /\ truth[m] \in Nat /\ twiceIn[m] \in Nat
    BY BufferTerms
  <2>3. \A o \in Proc \ {p} : Buffered(o, m)' = Buffered(o, m)
    BY <1>4 DEF Buffered
  <2>4. Buffered(p, m)' = 0
    BY <1>3, <1>4 DEF Buffered
  <2>5. v[p] = 0 /\ u[p] = Buffered(p, m) /\ u[p] \in Nat /\ \A o \in Proc \ {p} : v[o] = u[o]
    BY <2>2, <2>3, <2>4
  <2>6. v \in [Proc -> Int]
    BY <2>2, <2>5
  <2>7. Processed(cells'[m]) = Processed(cells[m]) + u[p]
    BY <1>1, <1>7, <2>5, AddCellsMinute
  <2> HIDE DEF u, v
  <2>8. Differ(Proc, v, u, p)
    BY <2>2, <2>5, <2>6, Finite DEF Differ
  <2>9. SumFunction(v) = SumFunction(u) - u[p] + v[p]
    BY <2>8, FunUpdate
  <2> QED
    BY <2>0, <2>1, <2>2, <2>5, <2>7, <2>9
<1>8. \A m \in Minutes : SoundCell(cells'[m]) /\ (cells'[m] # Cell => m * MinuteLength + Retention <= until'[m])
  BY <1>1, AddCellsMinute
<1>9. truth' \in [Minutes -> Nat] /\ twiceIn' \in [Minutes -> Nat]
  BY <1>1 DEF MinuteCounts
<1> QED
  BY <1>1, <1>2, <1>4, <1>5, <1>6, <1>7, <1>8, <1>9 DEF MinuteCounts

(* A flush applied but reported as failed counts twice, as the history says. *)
LEMMA FlushMetricsFailsMinutes ==
    ASSUME Types, MinuteCounts, NEW p \in Proc, FlushMetricsFails(p)
    PROVE  MinuteCounts'
<1>1. UNCHANGED <<now, truth, buffer>>
  BY DEF FlushMetricsFails
<1>2. CASE UNCHANGED <<cells, until, twiceIn>>
  BY <1>1, <1>2, MinutesFrame
<1>3. CASE AddCells(p) /\ twiceIn' = [m \in Minutes |-> twiceIn[m] + Buffered(p, m)]
  <2>1. cells' \in [Minutes -> Cells] /\ until' \in [Minutes -> Nat]
    BY <1>1, <1>3, AddCellsTypes
  <2>2. \A m \in Minutes : Buffered(p, m) \in Nat /\ twiceIn[m] \in Nat
    BY BufferTerms
  <2>3. twiceIn' \in [Minutes -> Nat] /\ \A m \in Minutes : twiceIn'[m] = twiceIn[m] + Buffered(p, m)
    BY <1>3, <2>2
  <2>4. Minute(now)' = Minute(now)
    BY <1>1 DEF Minute
  <2>5. ASSUME NEW m \in Minutes, m > Minute(now) - MaxMinutes
        PROVE  Processed(cells'[m]) + SumFunction([o \in Proc |-> Buffered(o, m)])' = truth[m] + twiceIn'[m]
    <3>1. SumFunction([o \in Proc |-> Buffered(o, m)])' = SumFunction([o \in Proc |-> Buffered(o, m)])
      BY <1>1 DEF Buffered
    <3>2. Processed(cells[m]) + SumFunction([o \in Proc |-> Buffered(o, m)]) = truth[m] + twiceIn[m]
      BY <2>5 DEF MinuteCounts
    <3>3. Processed(cells'[m]) = Processed(cells[m]) + Buffered(p, m)
      BY <1>1, <1>3, <2>5, AddCellsMinute
    <3> DEFINE S == SumFunction([o \in Proc |-> Buffered(o, m)])
    <3>4. S \in Nat /\ Processed(cells[m]) \in Nat /\ truth[m] \in Nat /\ twiceIn[m] \in Nat
      BY BufferTerms
    <3> HIDE DEF S
    <3> QED
      BY <2>2, <2>3, <3>1, <3>2, <3>3, <3>4 DEF S
  <2>6. \A m \in Minutes : SoundCell(cells'[m]) /\ (cells'[m] # Cell => m * MinuteLength + Retention <= until'[m])
    BY <1>1, <1>3, AddCellsMinute
  <2> QED
    BY <1>1, <2>1, <2>3, <2>4, <2>5, <2>6 DEF MinuteCounts
<1> QED
  BY <1>2, <1>3 DEF FlushMetricsFails

---------------------------------------------------------------------------
(* Queues without results *)

(* A result touches its own queue only. *)
LEMMA CollectUntouched ==
    ASSUME Types, Counts, MinuteCounts, Untouched, NEW p \in Proc, Collect(p)
    PROVE  Untouched'
<1> DEFINE r == Head(chan[p])
           k == Minute(now)
<1>1. r \in Result
  BY DEF Types, Collect
<1>2. k \in Minutes /\ r.count \in Nat \ {0} /\ r.queue \in Queue
  BY <1>1, CurrentMinute, ResultType
<1>3. /\ buffer' = [buffer EXCEPT ![p][k] = RecordCell(buffer[p][k], r)]
      /\ recorded' = [recorded EXCEPT ![r.queue] = Record(recorded[r.queue], r)]
      /\ UNCHANGED cells
  BY DEF Collect, redis
<1> HIDE DEF r, k
<1>4. recorded[r.queue] \in Counters /\ recorded \in [Queue -> Counters] /\ recorded[r.queue].processed \in Nat
  BY <1>2 DEF Counts, Counters
<1>5. recorded'[r.queue].processed # 0
  <2>1. recorded'[r.queue].processed = recorded[r.queue].processed + r.count
    BY <1>1, <1>2, <1>3, <1>4, RecordCounters
  <2> QED
    BY <1>2, <1>4, <2>1
<1>6. ASSUME NEW q \in Queue, recorded'[q].processed = 0, NEW m \in Minutes
      PROVE  cells'[m].queue[q].processed = 0 /\ \A o \in Proc : buffer'[o][m].queue[q].processed = 0
  <2>1. q # r.queue
    BY <1>5, <1>6
  <2>2. recorded[q].processed = 0
    BY <1>3, <1>4, <1>6, <2>1
  <2>3. cells[m].queue[q].processed = 0 /\ \A o \in Proc : buffer[o][m].queue[q].processed = 0
    BY <2>2 DEF Untouched
  <2>4. ASSUME NEW o \in Proc PROVE buffer'[o][m].queue[q] = buffer[o][m].queue[q]
    <3>1. buffer \in [Proc -> [Minutes -> Cells]] /\ SoundCell(buffer[p][k])
      BY <1>2 DEF MinuteCounts
    <3>2. CASE o = p /\ m = k
      <4>1. buffer'[o][m] = RecordCell(buffer[p][k], r)
        BY <1>2, <1>3, <3>1, <3>2
      <4> QED
        BY <1>1, <2>1, <3>1, <3>2, <4>1, CellRecord
    <3>3. CASE ~(o = p /\ m = k)
      BY <1>2, <1>3, <3>1, <3>3
    <3> QED
      BY <3>2, <3>3
  <2> QED
    BY <1>3, <2>3, <2>4
<1> QED
  BY <1>6 DEF Untouched

(* A flush adds to the queues that have results. *)
LEMMA AddCellsUntouched ==
    ASSUME Types, MinuteCounts, Untouched, NEW p \in Proc, AddCells(p), UNCHANGED <<now, recorded>>,
           UNCHANGED buffer \/ buffer' = [buffer EXCEPT ![p] = NoCells]
    PROVE  Untouched'
<1> SUFFICES ASSUME NEW q \in Queue, recorded[q].processed = 0, NEW m \in Minutes
             PROVE  /\ cells'[m].queue[q].processed = 0
                    /\ \A o \in Proc : buffer'[o][m].queue[q].processed = 0
  BY DEF Untouched
<1>1. cells[m].queue[q].processed = 0 /\ \A o \in Proc : buffer[o][m].queue[q].processed = 0
  BY DEF Untouched
<1>2. cells'[m].queue[q].processed = 0
  BY <1>1, AddCellsMinute
<1>3. \A o \in Proc : buffer'[o][m] = buffer[o][m] \/ buffer'[o][m] = Cell
  BY DEF MinuteCounts, NoCells
<1>4. Cell.queue[q].processed = 0
  BY EmptyCell DEF NoCounters
<1> QED
  BY <1>1, <1>2, <1>3, <1>4

---------------------------------------------------------------------------
(* ... and preserved by every step. *)

(* What write_queue_length_stats writes. *)
LEMMA LengthsWritten ==
    ASSUME Types, NEW p \in Proc, WriteLengths(p), read[p] \in [DOMAIN read[p] -> Nat]
    PROVE  /\ snapshot' \in [Queue -> {None} \cup [enqueued : Nat, fresh : BOOLEAN]]
           /\ sample' \in [Minutes -> [Queue -> Nat \cup {None}]]
<1>1. snapshot' \in [Queue -> {None} \cup [enqueued : Nat, fresh : BOOLEAN]]
  <2>1. \A q \in DOMAIN read[p] : [enqueued |-> read[p][q], fresh |-> TRUE] \in [enqueued : Nat, fresh : BOOLEAN]
    OBVIOUS
  <2> QED
    BY <2>1 DEF WriteLengths, Types
<1>2. sample' \in [Minutes -> [Queue -> Nat \cup {None}]]
  <2> DEFINE row == [q \in Queue |-> IF q \in DOMAIN read[p] THEN read[p][q] ELSE sample[Minute(now)][q]]
  <2>1. row \in [Queue -> Nat \cup {None}]
    BY CurrentMinute DEF Types
  <2>2. sample' = [sample EXCEPT ![Minute(now)] = row]
    BY DEF WriteLengths
  <2> HIDE DEF row
  <2> QED
    BY <2>1, <2>2 DEF Types
<1> QED
  BY <1>1, <1>2

(* The types, for every action. *)
LEMMA NextTypes ==
    ASSUME Types, [Next]_vars
    PROVE  Types'
<1> USE DEF redis, collector, reader, history
<1>1. CASE UNCHANGED vars
  BY <1>1, TypesFrame DEF vars
<1>2. CASE Tick
  <2>1. left.ticks \in Nat /\ left.ticks > 0 /\ now \in Nat /\ MaxTime \in Nat /\ now + left.ticks <= MaxTime
    BY <1>2, Sizes, Spend DEF Tick, Types
  <2>2. left' \in Bounds /\ left'.ticks = left.ticks - 1
    BY <1>2, <2>1, Spend DEF Tick, Types
  <2>3. now' \in Nat /\ now' + left'.ticks <= MaxTime
    BY <1>2, <2>1, <2>2 DEF Tick
  <2>4. UNCHANGED <<length, snapshot, sample, chan, active, read>>
    BY <1>2 DEF Tick
  <2> QED
    BY <2>2, <2>3, <2>4 DEF Types
<1>3. ASSUME NEW q \in Queue, LengthChanges(q) PROVE Types'
  <2>1. left' \in Bounds /\ left'.ticks = left.ticks
    BY <1>3, Spend DEF LengthChanges, Types
  <2>2. length' \in [Queue -> Nat]
    BY <1>3, StatisticsAssumption DEF LengthChanges, Types
  <2>3. UNCHANGED <<now, snapshot, sample, chan, active, read>>
    BY <1>3 DEF LengthChanges
  <2> QED
    BY <2>1, <2>2, <2>3 DEF Types
<1>4. ASSUME NEW q \in Queue, Age(q) PROVE Types'
  <2>1. snapshot[q] \in [enqueued : Nat, fresh : BOOLEAN]
    BY <1>4 DEF Age, Types
  <2>2. [snapshot[q] EXCEPT !.fresh = FALSE] \in [enqueued : Nat, fresh : BOOLEAN]
    BY <2>1
  <2>3. snapshot' = [snapshot EXCEPT ![q] = [snapshot[q] EXCEPT !.fresh = FALSE]]
    BY <1>4 DEF Age
  <2>4. snapshot' \in [Queue -> {None} \cup [enqueued : Nat, fresh : BOOLEAN]]
    BY <2>2, <2>3 DEF Types
  <2>5. UNCHANGED <<now, left, length, sample, chan, active, read>>
    BY <1>4 DEF Age
  <2> QED
    BY <2>4, <2>5 DEF Types
<1>5. ASSUME NEW p \in Proc, NEW r \in Result, SendResult(p, r) PROVE Types'
  <2>1. left' \in Bounds /\ left'.ticks = left.ticks
    BY <1>5, Spend DEF SendResult, Types
  <2>2. chan' \in [Proc -> Seq(Result)]
    BY <1>5 DEF SendResult, Types
  <2>3. UNCHANGED <<now, length, snapshot, sample, active, read>>
    BY <1>5 DEF SendResult
  <2> QED
    BY <2>1, <2>2, <2>3 DEF Types
<1>6. ASSUME NEW p \in Proc, DropSenders(p) PROVE Types'
  BY <1>6, TypesFrame DEF DropSenders
<1>7. ASSUME NEW p \in Proc, Collect(p) PROVE Types'
  <2>1. chan[p] \in Seq(Result) /\ chan[p] # <<>>
    BY <1>7 DEF Collect, Types
  <2>2. Head(chan[p]) \in Result /\ Tail(chan[p]) \in Seq(Result)
    BY <2>1
  <2>3. chan' \in [Proc -> Seq(Result)] /\ UNCHANGED <<now, length, snapshot, sample, read, left>>
    BY <1>7, <2>2 DEF Collect, Types
  <2>4. Head(chan[p]).queue \in Queue
    BY <2>2, ResultType
  <2>5. active' \in [Proc -> SUBSET Queue]
    BY <1>7, <2>4 DEF Collect, Types
  <2> QED
    BY <2>3, <2>5 DEF Types
<1>8. ASSUME NEW p \in Proc, RecvNone(p) \/ NothingToFlush(p) PROVE Types'
  BY <1>8, TypesFrame DEF RecvNone, NothingToFlush
<1>9. ASSUME NEW p \in Proc, FlushMetrics(p) \/ FlushStats(p) PROVE Types'
  <2>1. UNCHANGED <<now, length, snapshot, sample, chan, active, read>> /\ Success(p)
    BY <1>9 DEF FlushMetrics, FlushStats
  <2> QED
    BY <2>1, TypesFrame, Outcome
<1>10. ASSUME NEW p \in Proc, FlushMetricsFails(p) \/ FlushStatsFails(p) PROVE Types'
  <2>1. UNCHANGED <<now, length, snapshot, sample, chan, active, read>> /\ Failure(p)
    BY <1>10 DEF FlushMetricsFails, FlushStatsFails
  <2> QED
    BY <2>1, TypesFrame, Outcome
<1>11. ASSUME NEW p \in Proc, RefreshRead(p) PROVE Types'
  <2>1. [q \in active[p] |-> length[q]] \in [active[p] -> Nat]
    BY DEF Types
  <2>2. /\ DOMAIN read' = Proc /\ read'[p] = [q \in active[p] |-> length[q]]
        /\ \A o \in Proc \ {p} : read'[o] = read[o]
    BY <1>11 DEF RefreshRead, Types
  <2>3. \A o \in Proc : read'[o] # None => read'[o] \in [DOMAIN read'[o] -> Nat]
    BY <2>1, <2>2 DEF Types
  <2>4. UNCHANGED <<now, left, length, snapshot, sample, chan, active>>
    BY <1>11 DEF RefreshRead
  <2> QED
    BY <2>2, <2>3, <2>4 DEF Types
<1>12. ASSUME NEW p \in Proc, RefreshWrite(p) PROVE Types'
  <2>1. read[p] \in [DOMAIN read[p] -> Nat] /\ WriteLengths(p)
    BY <1>12 DEF RefreshWrite, Types
  <2>2. /\ snapshot' \in [Queue -> {None} \cup [enqueued : Nat, fresh : BOOLEAN]]
        /\ sample' \in [Minutes -> [Queue -> Nat \cup {None}]]
    BY <2>1, LengthsWritten
  <2>4. active' \in [Proc -> SUBSET Queue]
    BY <1>12 DEF RefreshWrite, Types
  <2>5. DOMAIN read' = Proc /\ read'[p] = None /\ \A o \in Proc \ {p} : read'[o] = read[o]
    BY <1>12 DEF RefreshWrite, Types
  <2>6. UNCHANGED <<now, left, length, chan>>
    BY <1>12 DEF RefreshWrite, Success
  <2> QED
    BY <2>2, <2>4, <2>5, <2>6 DEF Types
<1>13. ASSUME NEW p \in Proc, RefreshFails(p) PROVE Types'
  <2>1. DOMAIN read' = Proc /\ read'[p] = None /\ \A o \in Proc \ {p} : read'[o] = read[o]
    BY <1>13 DEF RefreshFails, Types
  <2>2. left' \in Bounds /\ left'.ticks = left.ticks
    BY <1>13, Spend DEF RefreshFails, Failure, CountFailure, Types
  <2>3. UNCHANGED <<now, length, chan, active>>
    BY <1>13 DEF RefreshFails
  <2>4. read[p] \in [DOMAIN read[p] -> Nat]
    BY <1>13 DEF RefreshFails, Types
  <2>5. /\ snapshot' \in [Queue -> {None} \cup [enqueued : Nat, fresh : BOOLEAN]]
        /\ sample' \in [Minutes -> [Queue -> Nat \cup {None}]]
    <3>1. CASE WriteLengths(p)
      BY <2>4, <3>1, LengthsWritten
    <3>2. CASE UNCHANGED <<snapshot, sample>>
      BY <3>2 DEF Types
    <3> QED
      BY <1>13, <3>1, <3>2 DEF RefreshFails
  <2> QED
    BY <2>1, <2>2, <2>3, <2>5 DEF Types
<1>14. ASSUME NEW p \in Proc, OtherLoop(p) PROVE Types'
  <2>1. UNCHANGED <<now, length, snapshot, sample, chan, active, read>>
    BY <1>14 DEF OtherLoop
  <2>2. UNCHANGED left \/ (left' = [left EXCEPT !.faults = @ - 1] /\ left.faults > 0)
    BY <1>14 DEF OtherLoop, CountFailure
  <2> QED
    BY <2>1, <2>2, TypesFrame
<1>15. ASSUME QueryBegins PROVE Types'
  <2>1. left' \in Bounds /\ left'.ticks = left.ticks
    BY <1>15, Spend DEF QueryBegins, Types
  <2>2. UNCHANGED <<now, length, snapshot, sample, chan, active, read>>
    BY <1>15 DEF QueryBegins
  <2> QED
    BY <2>1, <2>2 DEF Types
<1>16. ASSUME \/ ReadStats \/ ReadSamples \/ ReadCounters \/ (\E q \in Queue : ReadLength(q))
              \/ BuildRows \/ QueryFails
       PROVE  Types'
  BY <1>16, TypesFrame DEF ReadStats, ReadSamples, ReadCounters, ReadLength, BuildRows, QueryFails, QueryEnds
<1> QED
  BY <1>1, <1>2, <1>3, <1>4, <1>5, <1>6, <1>7, <1>8, <1>9, <1>10, <1>11, <1>12, <1>13, <1>14, <1>15, <1>16
     DEF Next, Step, Fails, Done, Query

(* The counters of the queues, for every action. *)
LEMMA NextCounts ==
    ASSUME Types, Counts, [Next]_vars
    PROVE  Counts'
<1> USE DEF redis, collector, reader, history
<1>1. CASE UNCHANGED <<stats, pending, recorded, twice>>
  BY <1>1, CountsFrame
<1>2. ASSUME NEW p \in Proc, Collect(p) PROVE Counts'
  BY <1>2, CollectCounts
<1>3. ASSUME NEW p \in Proc, FlushStats(p) PROVE Counts'
  BY <1>3, FlushStatsCounts DEF FlushStats
<1>4. ASSUME NEW p \in Proc, FlushStatsFails(p) PROVE Counts'
  <2>1. UNCHANGED <<pending, recorded>>
    BY <1>4 DEF FlushStatsFails
  <2>2. CASE UNCHANGED <<stats, twice>>
    BY <2>1, <2>2, CountsFrame
  <2>3. CASE AddStats(p) /\ twice' = [q \in Queue |-> Plus(twice[q], pending[p][q])]
    BY <2>1, <2>3, FlushTwiceCounts
  <2> QED
    BY <1>4, <2>2, <2>3 DEF FlushStatsFails
<1>5. CASE UNCHANGED vars
  BY <1>1, <1>5 DEF vars
<1>6. CASE Tick \/ \E q \in Queue : LengthChanges(q) \/ Age(q)
  BY <1>1, <1>6 DEF Tick, LengthChanges, Age
<1>7. ASSUME NEW p \in Proc, (\E r \in Result : SendResult(p, r)) \/ DropSenders(p)
      PROVE  UNCHANGED <<stats, pending, recorded, twice>>
  BY <1>7 DEF SendResult, DropSenders
<1>8. ASSUME NEW p \in Proc, \/ RecvNone(p) \/ NothingToFlush(p) \/ FlushMetrics(p) \/ RefreshRead(p)
                             \/ RefreshWrite(p) \/ FlushMetricsFails(p) \/ RefreshFails(p) \/ OtherLoop(p)
      PROVE  UNCHANGED <<stats, pending, recorded, twice>>
  BY <1>8 DEF RecvNone, NothingToFlush, FlushMetrics, RefreshRead, RefreshWrite, FlushMetricsFails, RefreshFails,
              OtherLoop
<1>9. ASSUME Query PROVE UNCHANGED <<stats, pending, recorded, twice>>
  BY <1>9 DEF Query, QueryBegins, ReadStats, ReadSamples, ReadCounters, ReadLength, BuildRows, QueryFails, QueryEnds
<1> QED
  BY <1>1, <1>2, <1>3, <1>4, <1>5, <1>6, <1>7, <1>8, <1>9 DEF Next, Step, Fails, Done

(* The counters of the minutes, for every action. *)
LEMMA NextMinutes ==
    ASSUME Types, Counts, MinuteCounts, Untouched, [Next]_vars
    PROVE  MinuteCounts' /\ Untouched'
<1> USE DEF redis, collector, reader, history
<1>1. CASE UNCHANGED <<now, cells, until, buffer, truth, twiceIn, recorded>>
  BY <1>1, MinutesFrame, UntouchedFrame
<1>2. CASE Tick
  <2>1. UNCHANGED <<recorded, cells, buffer>>
    BY <1>2 DEF Tick
  <2> QED
    BY <1>2, <2>1, TickMinutes, UntouchedFrame
<1>3. ASSUME NEW p \in Proc, Collect(p) PROVE MinuteCounts' /\ Untouched'
  BY <1>3, CollectMinutes, CollectUntouched
<1>4. ASSUME NEW p \in Proc, FlushMetrics(p) PROVE MinuteCounts' /\ Untouched'
  <2>1. AddCells(p) /\ UNCHANGED <<now, recorded>> /\ buffer' = [buffer EXCEPT ![p] = NoCells]
    BY <1>4 DEF FlushMetrics
  <2> QED
    BY <1>4, <2>1, FlushMetricsMinutes, AddCellsUntouched
<1>5. ASSUME NEW p \in Proc, FlushMetricsFails(p) PROVE MinuteCounts' /\ Untouched'
  <2>1. UNCHANGED <<now, recorded, buffer>> /\ (UNCHANGED cells \/ AddCells(p))
    BY <1>5 DEF FlushMetricsFails
  <2>2. Untouched'
    BY <2>1, UntouchedFrame, AddCellsUntouched
  <2> QED
    BY <1>5, <2>2, FlushMetricsFailsMinutes
<1>6. CASE UNCHANGED vars
  BY <1>1, <1>6 DEF vars
<1>7. CASE \E q \in Queue : LengthChanges(q) \/ Age(q)
  BY <1>1, <1>7 DEF LengthChanges, Age
<1>8. ASSUME NEW p \in Proc, (\E r \in Result : SendResult(p, r)) \/ DropSenders(p)
      PROVE  UNCHANGED <<now, cells, until, buffer, truth, twiceIn, recorded>>
  BY <1>8 DEF SendResult, DropSenders
<1>9. ASSUME NEW p \in Proc, \/ RecvNone(p) \/ NothingToFlush(p) \/ FlushStats(p) \/ RefreshRead(p)
                             \/ RefreshWrite(p) \/ FlushStatsFails(p) \/ RefreshFails(p) \/ OtherLoop(p)
      PROVE  UNCHANGED <<now, cells, until, buffer, truth, twiceIn, recorded>>
  BY <1>9 DEF RecvNone, NothingToFlush, FlushStats, RefreshRead, RefreshWrite, FlushStatsFails, RefreshFails,
              OtherLoop
<1>10. ASSUME Query PROVE UNCHANGED <<now, cells, until, buffer, truth, twiceIn, recorded>>
  BY <1>10 DEF Query, QueryBegins, ReadStats, ReadSamples, ReadCounters, ReadLength, BuildRows, QueryFails, QueryEnds
<1> QED
  BY <1>1, <1>2, <1>3, <1>4, <1>5, <1>6, <1>7, <1>8, <1>9, <1>10 DEF Next, Step, Fails, Done

---------------------------------------------------------------------------
(* The figures of a query *)

(* The counters of a table are added up field by field. *)
LEMMA SumMetricsFields ==
    ASSUME NEW D, IsFiniteSet(D), NEW t \in [D -> Metrics]
    PROVE  /\ SumMetrics(t) \in Metrics
           /\ \A f \in DOMAIN NoMetrics : /\ SumMetrics(t)[f] = SumFunction([x \in D |-> t[x][f]])
                                          /\ [x \in D |-> t[x][f]] \in [D -> Nat]
           /\ SumMetrics(t).processed = SumFunction([x \in D |-> t[x].processed])
           /\ SumMetrics(t).xs = SumFunction([x \in D |-> t[x].xs])
           /\ SumMetrics(t).xf = SumFunction([x \in D |-> t[x].xf])
<1> DEFINE fields == {"processed", "failed", "panicked", "xs", "xf", "xpn", "ms"}
<1>1. DOMAIN NoMetrics = fields /\ DOMAIN t = D
  BY MetricFields
<1>2. \A u \in Metrics : \A f \in fields : u[f] \in Nat
  BY DEF Metrics
<1>3. ASSUME NEW f \in fields
      PROVE  /\ SumMetrics(t)[f] = SumFunction([x \in D |-> t[x][f]]) /\ SumMetrics(t)[f] \in Nat
             /\ [x \in D |-> t[x][f]] \in [D -> Nat]
  <2> DEFINE g == [x \in D |-> t[x][f]]
  <2>1. g \in [D -> Nat]
    BY <1>2
  <2>2. SumMetrics(t)[f] = SumFunction(g)
    BY <1>1 DEF SumMetrics
  <2> HIDE DEF g
  <2>3. SumFunction(g) \in Nat
    BY <2>1, FunNat
  <2> QED
    BY <2>1, <2>2, <2>3 DEF g
<1>4. DOMAIN SumMetrics(t) = fields
  BY <1>1 DEF SumMetrics
<1>5. SumMetrics(t) = [f \in fields |-> SumMetrics(t)[f]]
  BY <1>1 DEF SumMetrics
<1>6. SumMetrics(t) = [processed |-> SumMetrics(t)["processed"], failed |-> SumMetrics(t)["failed"],
                       panicked |-> SumMetrics(t)["panicked"], xs |-> SumMetrics(t)["xs"],
                       xf |-> SumMetrics(t)["xf"], xpn |-> SumMetrics(t)["xpn"], ms |-> SumMetrics(t)["ms"]]
  BY <1>4, <1>5
<1>7. SumMetrics(t) \in Metrics
  BY <1>3, <1>6 DEF Metrics
<1>8. SumMetrics(t).processed = SumFunction([x \in D |-> t[x].processed])
  BY <1>3
<1>9. SumMetrics(t).xs = SumFunction([x \in D |-> t[x].xs])
  BY <1>3
<1>10. SumMetrics(t).xf = SumFunction([x \in D |-> t[x].xf])
  BY <1>3
<1> QED
  BY <1>1, <1>3, <1>7, <1>8, <1>9, <1>10

(* Sums of sound counters are sound. *)
LEMMA SumMetricsSound ==
    ASSUME NEW D, IsFiniteSet(D), NEW t \in [D -> Metrics], \A x \in D : SoundMetrics(t[x])
    PROVE  SoundMetrics(SumMetrics(t))
<1> DEFINE p == [x \in D |-> t[x]["processed"]]
           f == [x \in D |-> t[x]["failed"]]
           n == [x \in D |-> t[x]["panicked"]]
           s == [x \in D |-> t[x]["xs"]]
           e == [x \in D |-> t[x]["xf"]]
           u == SumMetrics(t)
<1>1. {"processed", "failed", "panicked", "xs", "xf"} \subseteq DOMAIN NoMetrics
  BY MetricFields
<1>2. /\ u["processed"] = SumFunction(p) /\ u["failed"] = SumFunction(f) /\ u["panicked"] = SumFunction(n)
      /\ u["xs"] = SumFunction(s) /\ u["xf"] = SumFunction(e) /\ u \in Metrics
      /\ p \in [D -> Nat] /\ f \in [D -> Nat] /\ n \in [D -> Nat] /\ s \in [D -> Nat] /\ e \in [D -> Nat]
  <2>1. u \in Metrics /\ \A k \in DOMAIN NoMetrics : /\ u[k] = SumFunction([x \in D |-> t[x][k]])
                                                    /\ [x \in D |-> t[x][k]] \in [D -> Nat]
    BY SumMetricsFields
  <2>2. u["processed"] = SumFunction(p) /\ p \in [D -> Nat]
    BY <1>1, <2>1
  <2>3. u["failed"] = SumFunction(f) /\ f \in [D -> Nat]
    BY <1>1, <2>1
  <2>4. u["panicked"] = SumFunction(n) /\ n \in [D -> Nat]
    BY <1>1, <2>1
  <2>5. u["xs"] = SumFunction(s) /\ s \in [D -> Nat]
    BY <1>1, <2>1
  <2>6. u["xf"] = SumFunction(e) /\ e \in [D -> Nat]
    BY <1>1, <2>1
  <2> HIDE DEF u, p, f, n, s, e
  <2> QED
    BY <2>1, <2>2, <2>3, <2>4, <2>5, <2>6
<1>3. \A x \in D : f[x] <= p[x] /\ n[x] <= p[x] /\ (s[x] = 0 /\ e[x] = 0 => p[x] = 0)
  BY DEF SoundMetrics
<1> HIDE DEF p, f, n, s, e, u
<1>t. p \in [D -> Int] /\ f \in [D -> Int] /\ n \in [D -> Int]
  BY <1>2
<1>4. Below(D, f, p) /\ Below(D, n, p)
  BY <1>3, <1>t DEF Below
<1>5. SumFunction(f) <= SumFunction(p) /\ SumFunction(n) <= SumFunction(p)
  BY <1>4, FunLeq
<1>6. ASSUME SumFunction(s) = 0, SumFunction(e) = 0 PROVE SumFunction(p) = 0
  <2>1. \A x \in D : s[x] <= 0 /\ e[x] <= 0 /\ s[x] \in Nat /\ e[x] \in Nat
    BY <1>2, <1>6, FunNat
  <2>2. \A x \in D : s[x] = 0 /\ e[x] = 0
    BY <2>1
  <2>3. \A x \in D : p[x] = 0
    BY <1>3, <2>2
  <2> QED
    BY <1>t, <2>3, FunZero
<1> QED
  BY <1>2, <1>5, <1>6 DEF SoundMetrics, u

(* Executions are counted since they exist: nothing is read from the jobs. *)
LEMMA FinalizeSound ==
    ASSUME NEW t, SoundMetrics(t)
    PROVE  Finalize(t).processed = t.processed /\ Finalize(t).xs = t.xs /\ Finalize(t).xf = t.xf
<1>1. /\ t.processed \in Nat /\ t.failed \in Nat /\ t.panicked \in Nat
      /\ t.xs \in Nat /\ t.xf \in Nat /\ t.xpn \in Nat
      /\ t.failed <= t.processed /\ (t.xs = 0 /\ t.xf = 0 => t.processed = 0)
  BY DEF SoundMetrics, Metrics
<1>2. CASE t.xs = 0 /\ t.xf = 0
  <2>1. t.processed = 0 /\ t.failed = 0
    BY <1>1, <1>2
  <2> QED
    BY <1>2, <2>1 DEF Finalize
<1>3. CASE ~(t.xs = 0 /\ t.xf = 0)
  <2>1. t.xs + t.xf + t.xpn # 0
    BY <1>1, <1>3
  <2> QED
    BY <2>1 DEF Finalize
<1> QED
  BY <1>2, <1>3

(* A query covers minutes whose keys have not expired. *)
LEMMA WindowFacts ==
    ASSUME IInv, NEW n \in Nat
    PROVE  /\ Window(n) \subseteq Minutes /\ IsFiniteSet(Window(n))
           /\ \A m \in Window(n) : /\ m > Minute(now) - MaxMinutes
                                   /\ Kept(m) = cells[m]
                                   /\ SoundCell(cells[m]) /\ cells[m] \in Cells
<1>0. Types /\ MinuteCounts
  BY DEF IInv
<1>1. Window(n) \subseteq Minutes /\ Minutes \subseteq Nat /\ IsFiniteSet(Minutes)
  BY MinutesType DEF Window, WindowAt
<1>2. IsFiniteSet(Window(n))
  BY <1>1, FS_Subset
<1>3. EffectiveMinutes(n) \in Nat /\ EffectiveMinutes(n) <= MaxMinutes
  BY Sizes DEF EffectiveMinutes
<1>4. Minute(now) \in Nat
  BY <1>0, MinuteOf DEF Types
<1>5. ASSUME NEW m \in Window(n)
      PROVE  m > Minute(now) - MaxMinutes /\ Kept(m) = cells[m] /\ SoundCell(cells[m]) /\ cells[m] \in Cells
  <2>1. m \in Minutes /\ m >= Minute(now) - EffectiveMinutes(n) + 1 /\ m \in Nat
    BY <1>1, <1>3, <1>4, <1>5 DEF Window, WindowAt, MetricMinutes
  <2>2. m > Minute(now) - MaxMinutes
    BY <1>3, <1>4, <2>1, Sizes
  <2>3. Kept(m) = cells[m]
    BY <1>0, <2>1, <2>2, KeyAlive
  <2>4. SoundCell(cells[m])
    BY <1>0, <2>1 DEF MinuteCounts
  <2> QED
    BY <2>2, <2>3, <2>4 DEF SoundCell
<1> QED
  BY <1>1, <1>2, <1>5

(* What job_metrics adds up, from the counters of each minute and worker. *)
Figures(report, M, c) ==
    /\ report.totals.processed = SumFunction([m \in M |-> Processed(c[m])])
    /\ report.totals.xs =
         SumFunction([m \in M |-> SumFunction([w \in Worker |-> c[m].worker[w].xs])])
    /\ report.totals.xf =
         SumFunction([m \in M |-> SumFunction([w \in Worker |-> c[m].worker[w].xf])])
    /\ \A m \in M : report.series[m].processed = Processed(c[m])
    /\ \A w \in Worker :
         LET t == SumMetrics([m \in M |-> c[m].worker[w]])
         IN  /\ report.workers[w] = Finalize(t) /\ SoundMetrics(t)
             /\ report.workers[w].xs = SumFunction([m \in M |-> c[m].worker[w].xs])
             /\ report.workers[w].xf = SumFunction([m \in M |-> c[m].worker[w].xf])

(* What job_metrics reports. *)
LEMMA ReportParts ==
    ASSUME NEW M, IsFiniteSet(M), NEW c, \A m \in M : SoundCell(c[m]) /\ c[m] \in Cells,
           NEW report, report = Aggregate(M, [m \in M |-> c[m].worker])
    PROVE  Figures(report, M, c)
<1> DEFINE hash == [m \in M |-> c[m].worker]
           rows == [m \in M |-> SumMetrics(hash[m])]
<1>1. IsFiniteSet(M) /\ \A m \in M : SoundCell(c[m]) /\ c[m] \in Cells
  OBVIOUS
<1>2. report = Aggregate(M, hash)
  OBVIOUS
<1>3. ASSUME NEW m \in M
      PROVE  /\ hash[m] = c[m].worker /\ hash[m] \in [Worker -> Metrics]
             /\ \A w \in Worker : SoundMetrics(hash[m][w])
  BY <1>1, CellParts DEF SoundCell
<1>4. report =
        [totals  |-> Finalize(SumMetrics(rows)),
         series  |-> [m \in M |-> Finalize(SumMetrics(hash[m]))],
         workers |-> [w \in Worker |-> Finalize(SumMetrics([m \in M |-> hash[m][w]]))]]
  BY <1>2 DEF Aggregate
<1>5. ASSUME NEW m \in M
      PROVE  /\ rows[m] \in Metrics /\ SoundMetrics(rows[m]) /\ rows[m] = SumMetrics(hash[m])
             /\ rows[m].processed = Processed(c[m])
             /\ rows[m].xs = SumFunction([w \in Worker |-> c[m].worker[w].xs])
             /\ rows[m].xf = SumFunction([w \in Worker |-> c[m].worker[w].xf])
  <2> DEFINE t == c[m].worker
  <2>1. rows[m] = SumMetrics(t) /\ t \in [Worker -> Metrics] /\ \A w \in Worker : SoundMetrics(t[w])
    BY <1>3
  <2> HIDE DEF t
  <2>2. SoundMetrics(SumMetrics(t)) /\ SumMetrics(t) \in Metrics
    BY <2>1, Finite, SumMetricsSound DEF SoundMetrics
  <2>3. /\ SumMetrics(t).processed = SumFunction([w \in Worker |-> t[w].processed])
        /\ SumMetrics(t).xs = SumFunction([w \in Worker |-> t[w].xs])
        /\ SumMetrics(t).xf = SumFunction([w \in Worker |-> t[w].xf])
    BY <2>1, Finite, SumMetricsFields
  <2>4. rows[m] = SumMetrics(hash[m])
    OBVIOUS
  <2> HIDE DEF rows, hash
  <2> QED
    BY <2>1, <2>2, <2>3, <2>4 DEF t, Processed
<1>6. rows \in [M -> Metrics] /\ \A m \in M : SoundMetrics(rows[m])
  BY <1>5
<1>7. /\ SoundMetrics(SumMetrics(rows))
      /\ SumMetrics(rows).processed = SumFunction([m \in M |-> rows[m].processed])
      /\ SumMetrics(rows).xs = SumFunction([m \in M |-> rows[m].xs])
      /\ SumMetrics(rows).xf = SumFunction([m \in M |-> rows[m].xf])
  <2> HIDE DEF rows
  <2>1. SoundMetrics(SumMetrics(rows))
    BY <1>1, <1>6, SumMetricsSound
  <2> QED
    BY <1>1, <1>6, <2>1, SumMetricsFields
<1>8. /\ [m \in M |-> rows[m].processed] = [m \in M |-> Processed(c[m])]
      /\ [m \in M |-> rows[m].xs] = [m \in M |-> SumFunction([w \in Worker |-> c[m].worker[w].xs])]
      /\ [m \in M |-> rows[m].xf] = [m \in M |-> SumFunction([w \in Worker |-> c[m].worker[w].xf])]
  <2> HIDE DEF rows
  <2> QED
    BY <1>5
<1>9. /\ report.totals.processed = SumMetrics(rows).processed
      /\ report.totals.xs = SumMetrics(rows).xs
      /\ report.totals.xf = SumMetrics(rows).xf
  <2> HIDE DEF rows
  <2>1. report.totals = Finalize(SumMetrics(rows))
    BY <1>4
  <2> QED
    BY <1>7, <2>1, FinalizeSound
<1>10. ASSUME NEW m \in M PROVE report.series[m].processed = Processed(c[m])
  <2>1. report.series[m] = Finalize(SumMetrics(hash[m]))
    BY <1>4
  <2>2. rows[m] = SumMetrics(hash[m]) /\ SoundMetrics(rows[m]) /\ rows[m].processed = Processed(c[m])
    BY <1>5
  <2> HIDE DEF rows, hash
  <2> QED
    BY <2>1, <2>2, FinalizeSound
<1>11. ASSUME NEW w \in Worker
       PROVE  LET t == SumMetrics([m \in M |-> c[m].worker[w]])
              IN  /\ report.workers[w] = Finalize(t) /\ SoundMetrics(t)
                  /\ report.workers[w].xs = SumFunction([m \in M |-> c[m].worker[w].xs])
                  /\ report.workers[w].xf = SumFunction([m \in M |-> c[m].worker[w].xf])
  <2> DEFINE col == [m \in M |-> c[m].worker[w]]
  <2>1. col \in [M -> Metrics] /\ \A m \in M : SoundMetrics(col[m])
    BY <1>3
  <2>2. report.workers[w] = Finalize(SumMetrics(col))
    <3>1. [m \in M |-> hash[m][w]] = col
      OBVIOUS
    <3>2. report.workers[w] = Finalize(SumMetrics([m \in M |-> hash[m][w]]))
      BY <1>4
    <3> QED
      BY <3>1, <3>2
  <2>3. \A m \in M : col[m] = c[m].worker[w]
    OBVIOUS
  <2> HIDE DEF col
  <2>4. SoundMetrics(SumMetrics(col))
    BY <1>1, <2>1, SumMetricsSound
  <2>5. SumMetrics(col).xs = SumFunction([m \in M |-> col[m].xs]) /\ SumMetrics(col).xf = SumFunction([m \in M |-> col[m].xf])
    BY <1>1, <2>1, SumMetricsFields
  <2>6. /\ [m \in M |-> col[m].xs] = [m \in M |-> c[m].worker[w].xs]
        /\ [m \in M |-> col[m].xf] = [m \in M |-> c[m].worker[w].xf]
    BY <2>3
  <2>7. /\ report.workers[w].xs = SumFunction([m \in M |-> c[m].worker[w].xs])
        /\ report.workers[w].xf = SumFunction([m \in M |-> c[m].worker[w].xf])
    BY <2>2, <2>4, <2>5, <2>6, FinalizeSound
  <2> QED
    BY <2>2, <2>4, <2>7 DEF col
<1> HIDE DEF rows, hash
<1>12. /\ report.totals.processed = SumFunction([m \in M |-> Processed(c[m])])
       /\ report.totals.xs =
            SumFunction([m \in M |-> SumFunction([w \in Worker |-> c[m].worker[w].xs])])
       /\ report.totals.xf =
            SumFunction([m \in M |-> SumFunction([w \in Worker |-> c[m].worker[w].xf])])
  BY <1>7, <1>8, <1>9
<1> QED
  BY <1>10, <1>11, <1>12 DEF Figures

(* What the metrics page reports. *)
LEMMA JobMetricsParts ==
    ASSUME IInv, NEW n \in Nat
    PROVE  Figures(JobMetrics(n), Window(n), cells)
<1>1. PICK M : M = Window(n)
  OBVIOUS
<1>2. IsFiniteSet(M) /\ \A m \in M : Kept(m) = cells[m] /\ SoundCell(cells[m]) /\ cells[m] \in Cells
  BY <1>1, WindowFacts
<1>3. [m \in M |-> Kept(m).worker] = [m \in M |-> cells[m].worker]
  BY <1>2
<1>4. JobMetrics(n) = Aggregate(M, [m \in M |-> cells[m].worker])
  BY <1>1, <1>3 DEF JobMetrics, Report
<1> QED
  BY <1>1, <1>2, <1>4, ReportParts

(* The counters of the queues over the minutes of a query add up to what *)
(* the workers processed in them.                                        *)
QueueFigures(M, c, T) ==
    /\ T \in [Queue -> Nat]
    /\ \A q \in Queue : T[q] = SumFunction([m \in M |-> c[m].queue[q].processed])
    /\ SumFunction(T) = SumFunction([m \in M |-> Processed(c[m])])

WindowOfQueues(M) == [q \in Queue |-> QueueTotals(M, [m \in M |-> Kept(m).queue], q).processed]

(* The queues add up to the minutes. *)
LEMMA QueuesParts ==
    ASSUME NEW M, IsFiniteSet(M), NEW c, \A m \in M : SoundCell(c[m]) /\ c[m] \in Cells,
           NEW T, T = [q \in Queue |-> QueueTotals(M, [m \in M |-> c[m].queue], q).processed]
    PROVE  QueueFigures(M, c, T)
<1> DEFINE hash == [m \in M |-> c[m].queue]
           C == [q \in Queue |-> [m \in M |-> c[m].queue[q].processed]]
           R == [m \in M |-> [q \in Queue |-> c[m].queue[q].processed]]
           row == [m \in M |-> Processed(c[m])]
<1>1. IsFiniteSet(M) /\ \A m \in M : SoundCell(c[m]) /\ c[m] \in Cells
  OBVIOUS
<1>2. \A m \in M : \A q \in Queue : c[m].queue[q].processed \in Nat
  BY <1>1, CellParts DEF Counters
<1>3. ASSUME NEW q \in Queue
      PROVE  T[q] = SumFunction(C[q]) /\ C[q] \in [M -> Nat]
             /\ C[q] = [m \in M |-> c[m].queue[q].processed]
  <2>1. [m \in M |-> hash[m][q]["processed"]] = C[q]
    BY <1>1
  <2>2. "processed" \in DOMAIN NoCounters \ {"panicked"}
    BY CounterFields
  <2>3. QueueTotals(M, hash, q)["processed"] = SumFunction([m \in M |-> hash[m][q]["processed"]])
    <3> HIDE DEF hash
    <3> QED
      BY <2>2 DEF QueueTotals
  <2>4. T[q] = QueueTotals(M, hash, q)["processed"]
    <3>1. T[q] = QueueTotals(M, hash, q).processed
      OBVIOUS
    <3> HIDE DEF hash
    <3> QED
      BY <3>1
  <2>5. C[q] \in [M -> Nat]
    BY <1>2
  <2>6. C[q] = [m \in M |-> c[m].queue[q].processed]
    OBVIOUS
  <2> HIDE DEF hash, C
  <2> QED
    BY <2>1, <2>3, <2>4, <2>5, <2>6
<1>4. ASSUME NEW m \in M PROVE row[m] = SumFunction(R[m])
  <2>1. Processed(c[m]) = QueueProcessed(c[m])
    BY <1>1 DEF SoundCell
  <2> QED
    BY <2>1 DEF QueueProcessed
<1>5. R \in [M -> [Queue -> Int]] /\ C \in [Queue -> [M -> Int]]
  BY <1>2
<1>6. \A m \in M : \A q \in Queue : C[q][m] = R[m][q]
  OBVIOUS
<1>7. DOMAIN T = Queue /\ DOMAIN row = M
  OBVIOUS
<1> HIDE DEF hash, C, R, row
<1>8. Sheet(M, Queue, R, C, row, T)
  BY <1>1, <1>3, <1>4, <1>5, <1>6, <1>7, Finite DEF Sheet
<1>9. SumFunction(row) = SumFunction(T)
  BY <1>8, FunSwap
<1>10. ASSUME NEW q \in Queue PROVE T[q] \in Nat
  <2>1. T[q] = SumFunction(C[q]) /\ C[q] \in [M -> Nat]
    BY <1>3
  <2> QED
    BY <1>1, <2>1, FunNat
<1>11. T \in [Queue -> Nat]
  BY <1>10
<1> QED
  BY <1>3, <1>9, <1>11 DEF row, QueueFigures

(* So they do over the minutes of a query. *)
LEMMA QueueTotalsParts ==
    ASSUME IInv, NEW n \in Nat
    PROVE  QueueFigures(Window(n), cells, WindowOfQueues(Window(n)))
<1>1. PICK M : M = Window(n)
  OBVIOUS
<1>2. IsFiniteSet(M) /\ \A m \in M : Kept(m) = cells[m] /\ SoundCell(cells[m]) /\ cells[m] \in Cells
  BY <1>1, WindowFacts
<1>3. [m \in M |-> Kept(m).queue] = [m \in M |-> cells[m].queue]
  BY <1>2
<1>4. WindowOfQueues(M) = [q \in Queue |-> QueueTotals(M, [m \in M |-> cells[m].queue], q).processed]
  BY <1>3 DEF WindowOfQueues
<1> QED
  BY <1>1, <1>2, <1>4, QueuesParts

---------------------------------------------------------------------------
(* The reads of a query *)

(* The keys of a minute are whole, expired or not. *)
LEMMA KeptSound ==
    ASSUME MinuteCounts, NEW m \in Minutes
    PROVE  SoundCell(Kept(m)) /\ Kept(m) \in Cells
<1>1. SoundCell(Cell) /\ SoundCell(cells[m])
  BY EmptyCell DEF MinuteCounts
<1> QED
  BY <1>1 DEF Kept, SoundCell

(* A queue whose counters are flushed and empty has had no result. *)
LEMMA QuietQueue ==
    ASSUME Counts, \A p \in Proc : pending[p] = NoPending, NEW q \in Queue, stats[q] = NoCounters
    PROVE  recorded[q].processed = 0
<1> DEFINE f == "processed"
           u == [p \in Proc |-> pending[p][q][f]]
<1>1. u \in [Proc -> Int] /\ \A p \in Proc : u[p] = 0
  BY DEF NoPending, NoCounters
<1>2. Unflushed(q, f) = SumFunction(u)
  BY DEF Unflushed
<1> HIDE DEF u
<1>3. Unflushed(q, f) = 0
  BY <1>1, <1>2, Finite, FunZero
<1>4. stats[q]["processed"] + Unflushed(q, "processed") = recorded[q]["processed"] + twice[q]["processed"]
  BY CounterFields DEF Counts
<1>5. stats[q]["processed"] = 0 /\ recorded[q]["processed"] \in Nat /\ twice[q]["processed"] \in Nat
  BY DEF Counts, Counters, NoCounters
<1> QED
  BY <1>3, <1>4, <1>5

(* Steps of others. *)
LEMMA ReadingFrame ==
    ASSUME Reading, UNCHANGED <<query, inputs, page>>, settled' => settled /\ UNCHANGED recorded
    PROVE  Reading'
BY DEF Reading

(* The minutes a query covers, whenever it began. *)
LEMMA RateWindow ==
    ASSUME NEW t
    PROVE  WindowAt(t, RateMinutes) \subseteq Minutes /\ IsFiniteSet(WindowAt(t, RateMinutes))
<1>1. WindowAt(t, RateMinutes) \subseteq Minutes
  BY DEF WindowAt
<1> QED
  BY <1>1, MinutesType, FS_Subset

(* The counters of the minutes, read. *)
LEMMA CountersRead ==
    ASSUME MinuteCounts, Untouched, Reading, ReadCounters
    PROVE  Reading'
<1>1. PICK M : M = WindowAt(inputs.at, RateMinutes)
  OBVIOUS
<1>2. PICK c : c = [m \in M |-> Kept(m)]
  OBVIOUS
<1>3. PICK W : W = [q \in Queue |-> QueueTotals(M, [m \in M |-> c[m].queue], q)]
  OBVIOUS
<1>4. PICK T : T = [q \in Queue |-> QueueTotals(M, [m \in M |-> c[m].queue], q).processed]
  OBVIOUS
<1>5. PICK R : R = Aggregate(M, [m \in M |-> c[m].worker])
  OBVIOUS
<1>6. IsFiniteSet(M) /\ M \subseteq Minutes /\ \A m \in M : SoundCell(c[m]) /\ c[m] \in Cells
  BY <1>1, <1>2, RateWindow, KeptSound
<1>7. QueueFigures(M, c, T)
  BY <1>4, <1>6, QueuesParts
<1>8. Figures(R, M, c)
  BY <1>5, <1>6, ReportParts
<1>9. R.totals.processed = SumFunction(T)
  BY <1>7, <1>8 DEF QueueFigures, Figures
<1>10. T = [q \in Queue |-> W[q].processed] /\ DOMAIN W = Queue
  BY <1>3, <1>4
<1>11. [m \in M |-> Kept(m).queue] = [m \in M |-> c[m].queue] /\ [m \in M |-> Kept(m).worker] = [m \in M |-> c[m].worker]
  BY <1>2
<1>u. PICK u \in SUBSET Queue : u = { q \in Known(inputs) : FreshSnapshot(inputs.snapshot[q]) = None }
  BY DEF Known
<1>12. inputs' = [inputs EXCEPT !.window = W, !.unread = u] /\ page' = R.totals.processed /\ query' = "rows"
  BY <1>1, <1>3, <1>5, <1>11, <1>u DEF ReadCounters, Report
<1>13. query = "counters" /\ UNCHANGED <<settled, recorded>>
  BY DEF ReadCounters, history
<1>14. \A q \in Queue : W[q].processed = T[q] /\ T[q] \in Nat
  BY <1>7, <1>10 DEF QueueFigures
<1>15. InputsOK(inputs')
  BY <1>12, <1>14, InputsSet DEF Reading
<1>16. inputs'.window = W /\ inputs'.stats = inputs.stats
  BY <1>12 DEF Reading, InputsOK, NoInputs
<1>17. ASSUME NEW q \in Queue, settled, inputs.stats[q] = NoCounters PROVE T[q] = 0
  <2> DEFINE z == [m \in M |-> c[m].queue[q].processed]
  <2>1. recorded[q].processed = 0
    BY <1>13, <1>17 DEF Reading
  <2>2. \A m \in M : c[m].queue[q].processed = 0
    <3> TAKE m \in M
    <3>1. cells[m].queue[q].processed = 0
      BY <1>6, <2>1 DEF Untouched
    <3>2. Cell.queue[q].processed = 0
      BY EmptyCell DEF NoCounters
    <3> QED
      BY <1>2, <3>1, <3>2 DEF Kept
  <2>3. z \in [M -> Int] /\ \A m \in M : z[m] = 0
    BY <2>2
  <2>4. T[q] = SumFunction(z)
    BY <1>7 DEF QueueFigures
  <2> HIDE DEF z
  <2> QED
    BY <1>6, <2>3, <2>4, FunZero
<1>18. page' = SumFunction([q \in Queue |-> inputs'.window[q].processed])
  BY <1>9, <1>10, <1>12, <1>16
<1> QED
  BY <1>12, <1>13, <1>14, <1>15, <1>16, <1>17, <1>18 DEF Reading

(* The steps of a query. *)
LEMMA NextReading ==
    ASSUME Types, Counts, MinuteCounts, Untouched, Reading, [Next]_vars
    PROVE  Reading'
<1> USE DEF redis, collector, reader, history
<1>1. CASE UNCHANGED <<query, inputs, page>> /\ (settled' => settled /\ UNCHANGED recorded)
  BY <1>1, ReadingFrame
<1>2. CASE UNCHANGED vars
  BY <1>1, <1>2 DEF vars
<1>3. CASE Tick \/ \E q \in Queue : LengthChanges(q) \/ Age(q)
  BY <1>1, <1>3 DEF Tick, LengthChanges, Age
<1>4. ASSUME NEW p \in Proc, (\E r \in Result : SendResult(p, r)) \/ DropSenders(p) \/ OtherLoop(p)
      PROVE  Reading'
  BY <1>1, <1>4 DEF SendResult, DropSenders, OtherLoop
<1>5. ASSUME NEW p \in Proc, Collect(p) PROVE Reading'
  BY <1>1, <1>5 DEF Collect
<1>6. ASSUME NEW p \in Proc, \/ RecvNone(p) \/ NothingToFlush(p) \/ FlushMetrics(p) \/ FlushStats(p)
                             \/ RefreshRead(p) \/ RefreshWrite(p)
      PROVE  UNCHANGED <<query, inputs, page, settled, recorded>>
  BY <1>6 DEF RecvNone, NothingToFlush, FlushMetrics, FlushStats, RefreshRead, RefreshWrite
<1>7. ASSUME NEW p \in Proc, Fails(p)
      PROVE  UNCHANGED <<query, inputs, page, settled, recorded>>
  BY <1>7 DEF Fails, FlushMetricsFails, FlushStatsFails, RefreshFails
<1>8. ASSUME QueryBegins PROVE Reading'
  <2>1. inputs' = [NoInputs EXCEPT !.listed = { q \in Queue : length[q] > 0 }, !.at = now] /\ query' = "stats"
    BY <1>8 DEF QueryBegins
  <2>2. now \in Nat
    BY DEF Types
  <2>3. InputsOK(inputs')
    BY <2>1, <2>2, NoInputsOK DEF InputsOK, NoInputs
  <2> QED
    BY <2>1, <2>3 DEF Reading
<1>9. ASSUME ReadStats PROVE Reading'
  <2>1. /\ inputs' = [inputs EXCEPT !.stats = stats, !.snapshot = snapshot] /\ query' = "lengths"
        /\ settled' = (\A p \in Proc : pending[p] = NoPending) /\ UNCHANGED recorded
    BY <1>9 DEF ReadStats
  <2>2. \A q \in Queue : Sound(stats[q]) /\ snapshot[q] \in {None} \cup [enqueued : Nat, fresh : BOOLEAN]
    BY DEF Types, Counts
  <2>3. InputsOK(inputs')
    BY <2>1, <2>2, InputsSet DEF Reading
  <2>4. inputs'.stats = stats
    BY <2>1 DEF Reading, InputsOK, NoInputs
  <2>5. ASSUME settled', NEW q \in Queue, stats[q] = NoCounters PROVE recorded'[q].processed = 0
    BY <2>1, <2>5, QuietQueue
  <2> QED
    BY <2>1, <2>3, <2>4, <2>5 DEF Reading
<1>10. ASSUME ReadSamples PROVE Reading'
  <2>1. PICK first : first = Minute(inputs.at) - EffectiveMinutes(RateMinutes) + 1
    OBVIOUS
  <2>2. PICK S : S = [q \in Queue |-> IF first \in Minutes THEN LengthSeries({first}, sample, q)[first] ELSE 0]
    OBVIOUS
  <2>3. inputs' = [inputs EXCEPT !.start = S] /\ query = "lengths" /\ query' = "counters"
        /\ UNCHANGED <<settled, recorded>>
    BY <1>10, <2>1, <2>2 DEF ReadSamples
  <2>4. \A q \in Queue : S[q] \in Nat
    <3> TAKE q \in Queue
    <3>1. CASE first \in Minutes
      <4>1. sample[first][q] \in Nat \cup {None}
        BY <3>1 DEF Types
      <4> QED
        BY <2>2, <3>1, <4>1 DEF LengthSeries
    <3>2. CASE first \notin Minutes
      BY <2>2, <3>2
    <3> QED
      BY <3>1, <3>2
  <2>5. InputsOK(inputs')
    BY <2>3, <2>4, InputsSet DEF Reading
  <2>6. inputs'.stats = inputs.stats
    BY <2>3 DEF Reading, InputsOK, NoInputs
  <2> QED
    BY <2>3, <2>5, <2>6 DEF Reading
<1>11. ASSUME ReadCounters PROVE Reading'
  BY <1>11, CountersRead
<1>13. ASSUME NEW q \in Queue, ReadLength(q) PROVE Reading'
  <2>1. /\ inputs' = [inputs EXCEPT !.length[q] = length[q], !.unread = @ \ {q}]
        /\ UNCHANGED <<query, page, settled, recorded>>
    BY <1>13 DEF ReadLength
  <2>2. length[q] \in Nat
    BY DEF Types
  <2>3. InputsOK(inputs')
    BY <2>1, <2>2, InputsSet DEF Reading
  <2>4. inputs'.stats = inputs.stats /\ inputs'.window = inputs.window
    BY <2>1 DEF Reading, InputsOK, NoInputs
  <2> QED
    BY <2>1, <2>3, <2>4 DEF Reading
<1>12. ASSUME BuildRows \/ QueryFails PROVE Reading'
  <2>1. inputs' = NoInputs /\ query' = "idle"
    BY <1>12 DEF BuildRows, QueryFails, QueryEnds
  <2> QED
    BY <2>1, NoInputsOK DEF Reading
<1> QED
  BY <1>1, <1>2, <1>3, <1>4, <1>5, <1>6, <1>7, <1>8, <1>9, <1>10, <1>11, <1>12, <1>13 DEF Next, Step, Done, Query

(* The invariant is inductive. *)
LEMMA NextInv == IInv /\ [Next]_vars => IInv'
BY NextTypes, NextCounts, NextMinutes, NextReading DEF IInv

(* In every behaviour of the collectors. *)
THEOREM Inductive == Spec => []IInv
BY InitInv, NextInv, PTL DEF Spec

(* Nothing a collector has counted is lost: flush_pending_stats clears     *)
(* what it sent exactly when the flush went well, and only a flush that    *)
(* was applied and reported as failed counts a result twice.               *)
THEOREM CountsAreKept == Spec => []CountsKept
<1>1. IInv => CountsKept
  <2> SUFFICES ASSUME IInv, NEW q \in Queue
               PROVE  /\ \A f \in DOMAIN NoCounters :
                           stats[q][f] + Unflushed(q, f) = recorded[q][f] + twice[q][f]
                      /\ stats[q].succeeded + stats[q].failed = stats[q].processed
                      /\ stats[q].panicked <= stats[q].failed
                      /\ \A m \in Minutes : cells[m].queue[q].succeeded + cells[m].queue[q].failed
                                              = cells[m].queue[q].processed
    BY DEF CountsKept
  <2>1. Counts /\ MinuteCounts
    BY DEF IInv
  <2>2. Sound(stats[q]) /\ \A m \in Minutes : Sound(cells[m].queue[q])
    BY <2>1 DEF Counts, MinuteCounts, SoundCell
  <2> QED
    BY <2>1, <2>2 DEF Counts, Sound
<1> QED
  BY <1>1, Inductive, PTL

---------------------------------------------------------------------------
(* The metrics page *)

(* The executions of the workers are those of the totals. *)
LEMMA ExecutionsAddUp ==
    ASSUME IInv, NEW n \in Nat
    PROVE  JobMetrics(n).totals.xs + JobMetrics(n).totals.xf =
             SumFunction([w \in Worker |-> JobMetrics(n).workers[w].xs + JobMetrics(n).workers[w].xf])
<1> DEFINE M == Window(n)
           S == [m \in M |-> [w \in Worker |-> cells[m].worker[w].xs]]
           SC == [w \in Worker |-> [m \in M |-> cells[m].worker[w].xs]]
           s == [m \in M |-> SumFunction([w \in Worker |-> cells[m].worker[w].xs])]
           sc == [w \in Worker |-> JobMetrics(n).workers[w].xs]
           F == [m \in M |-> [w \in Worker |-> cells[m].worker[w].xf]]
           FC == [w \in Worker |-> [m \in M |-> cells[m].worker[w].xf]]
           f == [m \in M |-> SumFunction([w \in Worker |-> cells[m].worker[w].xf])]
           fc == [w \in Worker |-> JobMetrics(n).workers[w].xf]
           all == [w \in Worker |-> JobMetrics(n).workers[w].xs + JobMetrics(n).workers[w].xf]
<1>1. IsFiniteSet(M) /\ \A m \in M : SoundCell(cells[m]) /\ cells[m] \in Cells
  BY WindowFacts
<1>2. \A m \in M : \A w \in Worker : cells[m].worker[w].xs \in Nat /\ cells[m].worker[w].xf \in Nat
  BY <1>1, CellParts DEF Metrics
<1>3. /\ JobMetrics(n).totals.xs = SumFunction(s) /\ JobMetrics(n).totals.xf = SumFunction(f)
      /\ \A w \in Worker : /\ JobMetrics(n).workers[w].xs = SumFunction([m \in M |-> cells[m].worker[w].xs])
                           /\ JobMetrics(n).workers[w].xf = SumFunction([m \in M |-> cells[m].worker[w].xf])
  BY JobMetricsParts DEF Figures
<1>4. /\ \A m \in M : s[m] = SumFunction(S[m]) /\ f[m] = SumFunction(F[m])
      /\ \A w \in Worker : sc[w] = SumFunction(SC[w]) /\ fc[w] = SumFunction(FC[w])
  BY <1>3
<1>5. /\ S \in [M -> [Worker -> Int]] /\ SC \in [Worker -> [M -> Int]]
      /\ F \in [M -> [Worker -> Int]] /\ FC \in [Worker -> [M -> Int]]
  BY <1>2
<1>6. \A m \in M : \A w \in Worker : SC[w][m] = S[m][w] /\ FC[w][m] = F[m][w]
  OBVIOUS
<1>7. DOMAIN s = M /\ DOMAIN f = M /\ DOMAIN sc = Worker /\ DOMAIN fc = Worker /\ DOMAIN all = Worker
  OBVIOUS
<1>8. (\A w \in Worker : all[w] = sc[w] + fc[w]) /\ all = [w \in Worker |-> all[w]]
      /\ sc = [w \in Worker |-> sc[w]] /\ fc = [w \in Worker |-> fc[w]]
  OBVIOUS
<1> HIDE DEF M, S, SC, s, sc, F, FC, f, fc, all
<1>9. Sheet(M, Worker, S, SC, s, sc) /\ Sheet(M, Worker, F, FC, f, fc)
  BY <1>1, <1>4, <1>5, <1>6, <1>7, Finite DEF Sheet
<1>10. SumFunction(s) = SumFunction(sc) /\ SumFunction(f) = SumFunction(fc)
  BY <1>9, FunSwap
<1>11. \A w \in Worker : sc[w] \in Int /\ fc[w] \in Int
  BY <1>1, <1>4, <1>5, FunInt
<1>12. sc \in [Worker -> Int] /\ fc \in [Worker -> Int] /\ all \in [Worker -> Int]
  BY <1>8, <1>11
<1>13. Adds(Worker, sc, fc, all)
  BY <1>8, <1>12, Finite DEF Adds
<1>14. SumFunction(all) = SumFunction(sc) + SumFunction(fc)
  BY <1>13, FunPlus
<1> QED
  BY <1>3, <1>10, <1>14 DEF all

(* The page of a worker shows what the list of workers shows for it. *)
LEMMA PageAgrees ==
    ASSUME IInv, NEW n \in Nat, NEW w \in Worker
    PROVE  /\ JobMetricsFor(w, n).metrics.totals = JobMetrics(n).workers[w]
           /\ SumFunction(JobMetricsFor(w, n).histogram) <= JobMetrics(n).workers[w].xs
<1> DEFINE M == Window(n)
           hash == [m \in M |-> Kept(m).worker]
           only == OnlyWorker(hash, w)
           rows == [m \in M |-> SumMetrics(only[m])]
           col == [m \in M |-> cells[m].worker[w]]
<1>1. IsFiniteSet(M) /\ \A m \in M : Kept(m) = cells[m] /\ SoundCell(cells[m]) /\ cells[m] \in Cells
  BY WindowFacts
<1>2. ASSUME NEW m \in M, NEW f \in DOMAIN NoMetrics PROVE rows[m][f] = col[m][f]
  <2> DEFINE g == [x \in Worker |-> only[m][x][f]]
  <2>1. only[m] = [x \in Worker |-> IF x = w THEN cells[m].worker[x] ELSE NoMetrics]
    BY <1>1 DEF OnlyWorker
  <2>2. NoMetrics[f] = 0
    BY MetricFields DEF NoMetrics
  <2>3. cells[m].worker[w][f] \in Nat
    BY <1>1, CellParts, MetricFields DEF Metrics
  <2>4. g[w] = cells[m].worker[w][f] /\ \A x \in Worker \ {w} : g[x] = 0
    BY <2>1, <2>2
  <2>5. g \in [Worker -> Int]
    BY <2>3, <2>4
  <2>6. rows[m][f] = SumFunction(g)
    <3>1. DOMAIN only[m] = Worker
      BY <2>1
    <3>2. rows[m] = SumMetrics(only[m])
      OBVIOUS
    <3> HIDE DEF only, rows
    <3> QED
      BY <3>1, <3>2 DEF SumMetrics
  <2> HIDE DEF g
  <2>7. SumFunction(g) = g[w]
    BY <2>4, <2>5, Finite, FunOne
  <2>8. col[m][f] = cells[m].worker[w][f]
    OBVIOUS
  <2> QED
    BY <2>4, <2>6, <2>7, <2>8
<1>3. SumMetrics(rows) = SumMetrics(col)
  <2>1. DOMAIN rows = M /\ DOMAIN col = M
    OBVIOUS
  <2> HIDE DEF rows, col
  <2>2. \A f \in DOMAIN NoMetrics : [m \in M |-> rows[m][f]] = [m \in M |-> col[m][f]]
    BY <1>2
  <2> QED
    BY <2>1, <2>2 DEF SumMetrics
<1>4. JobMetricsFor(w, n).metrics.totals = Finalize(SumMetrics(rows))
  BY DEF JobMetricsFor, Aggregate
<1>5. /\ JobMetrics(n).workers[w] = Finalize(SumMetrics(col))
      /\ JobMetrics(n).workers[w].xs = SumFunction([m \in M |-> cells[m].worker[w].xs])
  BY JobMetricsParts DEF Figures
<1> HIDE DEF rows, col, only, hash
<1>6. JobMetricsFor(w, n).metrics.totals = JobMetrics(n).workers[w]
  BY <1>3, <1>4, <1>5
<1> DEFINE H == JobMetricsFor(w, n).histogram
           C == [b \in Bucket |-> [m \in M |-> cells[m].histogram[w][b]]]
           R == [m \in M |-> cells[m].histogram[w]]
           row == [m \in M |-> SumFunction(cells[m].histogram[w])]
           xs == [m \in M |-> cells[m].worker[w].xs]
<1>7. \A m \in M : cells[m].histogram[w] \in [Bucket -> Nat]
  BY <1>1, CellParts
<1>8. H = [b \in Bucket |-> SumFunction(C[b])]
  <2>1. [m \in M |-> Kept(m).histogram] = [m \in M |-> cells[m].histogram]
    BY <1>1
  <2>2. H = HistogramTotals(M, [m \in M |-> cells[m].histogram], w)
    BY <2>1 DEF JobMetricsFor
  <2> QED
    BY <2>2 DEF HistogramTotals
<1>9. R \in [M -> [Bucket -> Int]] /\ C \in [Bucket -> [M -> Int]]
  BY <1>7
<1>10. \A m \in M : (\A b \in Bucket : C[b][m] = R[m][b]) /\ row[m] = SumFunction(R[m])
  OBVIOUS
<1>11. \A m \in M : row[m] \in Nat /\ xs[m] \in Nat /\ row[m] <= xs[m]
  BY <1>1, CellParts DEF SoundCell
<1>12. DOMAIN row = M /\ DOMAIN H = Bucket /\ (\A b \in Bucket : H[b] = SumFunction(C[b]))
       /\ row = [m \in M |-> row[m]] /\ xs = [m \in M |-> xs[m]]
  BY <1>8
<1> HIDE DEF H, C, R, row, xs, M
<1>13. Sheet(M, Bucket, R, C, row, H)
  BY <1>1, <1>9, <1>10, <1>12, Finite DEF Sheet
<1>14. SumFunction(row) = SumFunction(H)
  BY <1>13, FunSwap
<1>15. row \in [M -> Int] /\ xs \in [M -> Int]
  BY <1>11, <1>12
<1>16. Below(M, row, xs)
  BY <1>1, <1>11, <1>15 DEF Below
<1>17. SumFunction(row) <= SumFunction(xs)
  BY <1>16, FunLeq
<1> QED
  BY <1>5, <1>6, <1>14, <1>17 DEF H, xs

(* What a query over the last minutes shows, with what is still buffered,  *)
(* is what was processed in those minutes, and its parts agree.            *)
THEOREM WindowIsComplete == Spec => []WindowComplete
<1>1. IInv => WindowComplete
  <2> SUFFICES ASSUME IInv PROVE WindowComplete
    OBVIOUS
  <2>0. 0..MaxMinutes + 1 \subseteq Nat
    BY Sizes
  <2>1. ASSUME NEW n \in Nat
        PROVE  /\ JobMetrics(n).totals.processed
                    + SumFunction([m \in Window(n) |-> SumFunction([p \in Proc |-> Buffered(p, m)])])
                  = SumFunction([m \in Window(n) |-> truth[m] + twiceIn[m]])
               /\ JobMetrics(n).totals.processed =
                    SumFunction([m \in Window(n) |-> JobMetrics(n).series[m].processed])
    <3> DEFINE M == Window(n)
               row == [m \in M |-> Processed(cells[m])]
               unflushed == [m \in M |-> SumFunction([p \in Proc |-> Buffered(p, m)])]
               processed == [m \in M |-> truth[m] + twiceIn[m]]
               series == [m \in M |-> JobMetrics(n).series[m].processed]
    <3>1. JobMetrics(n).totals.processed = SumFunction(row) /\ series = row
      BY JobMetricsParts DEF Figures
    <3>2. MinuteCounts /\ IsFiniteSet(M) /\ M \subseteq Minutes /\ \A m \in M : m > Minute(now) - MaxMinutes
      BY WindowFacts DEF IInv
    <3>3. ASSUME NEW m \in M
          PROVE  /\ row[m] \in Nat /\ unflushed[m] \in Nat /\ processed[m] \in Nat
                 /\ processed[m] = row[m] + unflushed[m]
      <4>1. m \in Minutes /\ m > Minute(now) - MaxMinutes
        BY <3>2
      <4>2. Processed(cells[m]) + SumFunction([p \in Proc |-> Buffered(p, m)]) = truth[m] + twiceIn[m]
        BY <3>2, <4>1 DEF MinuteCounts
      <4>3. /\ Processed(cells[m]) \in Nat /\ SumFunction([p \in Proc |-> Buffered(p, m)]) \in Nat
            /\ truth[m] + twiceIn[m] \in Nat
        BY <3>2, <4>1, BufferTerms
      <4> QED
        BY <4>2, <4>3
    <3>4. row \in [M -> Int] /\ unflushed \in [M -> Int] /\ processed \in [M -> Int]
      <4>1. row = [m \in M |-> row[m]] /\ unflushed = [m \in M |-> unflushed[m]]
            /\ processed = [m \in M |-> processed[m]]
        OBVIOUS
      <4> HIDE DEF row, unflushed, processed
      <4> QED
        BY <3>3, <4>1
    <3> HIDE DEF row, unflushed, processed, series, M
    <3>5. Adds(M, row, unflushed, processed)
      BY <3>2, <3>3, <3>4 DEF Adds
    <3>6. SumFunction(processed) = SumFunction(row) + SumFunction(unflushed)
      BY <3>5, FunPlus
    <3> QED
      BY <3>1, <3>6 DEF row, unflushed, processed, series, M
  <2>2. ASSUME NEW n \in Nat
        PROVE  JobMetrics(n).totals.processed =
                 SumFunction([q \in Queue |->
                   QueueTotals(Window(n), [m \in Window(n) |-> Kept(m).queue], q).processed])
    BY JobMetricsParts, QueueTotalsParts DEF Figures, QueueFigures, WindowOfQueues
  <2> QED
    BY <2>0, <2>1, <2>2, ExecutionsAddUp, PageAgrees DEF WindowComplete
<1> QED
  BY <1>1, Inductive, PTL

---------------------------------------------------------------------------
(* The rows of the dashboard *)

(* Figures given by base key, each the sum of those of the known keys. *)
Grouped(K, f, g) ==
    /\ K \subseteq Queue
    /\ f \in [Queue -> Nat]
    /\ DOMAIN g = Entries(K)
    /\ \A b \in Entries(K) : g[b] = SumFunctionOnSet(f, {q \in K : q[1] = b})

(* Grouping loses nothing but what the keys left out hold. *)
LEMMA GroupedSum ==
    ASSUME NEW K, NEW f, NEW g, Grouped(K, f, g)
    PROVE  /\ SumFunction(g) = SumFunction([q \in K |-> f[q]])
           /\ SumFunction(g) <= SumFunction(f)
           /\ (\A q \in Queue \ K : f[q] = 0) => SumFunction(g) = SumFunction(f)
<1> DEFINE k == [q \in K |-> q[1]]
           D == Entries(K)
           h == [q \in K |-> f[q]]
<1>1. IsFiniteSet(K) /\ IsFiniteSet(Queue) /\ K \in SUBSET Queue
  BY Finite, FS_Subset DEF Grouped
<1>2. IsFiniteSet(D)
  <2>1. k \in Surjection(K, D)
    BY DEF Entries, Surjection
  <2> HIDE DEF k, D
  <2> QED
    BY <1>1, <2>1, FS_Surjection
<1>3. \A q \in K : f[q] \in Int /\ k[q] \in D
  BY DEF Grouped, Entries
<1>4. \A d \in D : g[d] = SumFunctionOnSet(f, {q \in K : k[q] = d})
  <2> TAKE d \in D
  <2>1. {q \in K : k[q] = d} = {q \in K : q[1] = d}
    OBVIOUS
  <2> QED
    BY <2>1 DEF Grouped
<1>5. h \in [K -> Nat] /\ (\A q \in K : h[q] = f[q]) /\ DOMAIN g = D /\ DOMAIN h = K /\ f \in [Queue -> Nat]
  BY DEF Grouped
<1> HIDE DEF k, D, h
<1>6. SumFunctionOnSet(g, D) = SumFunctionOnSet(f, K)
  <2>1. Groups(f, K, k, D, g)
    BY <1>1, <1>2, <1>3, <1>4 DEF Groups
  <2> QED
    BY <2>1, SumGroups
<1>7. SumFunctionOnSet(h, K) = SumFunctionOnSet(f, K)
  BY <1>1, <1>3, <1>5, SumEqual
<1>8. SumFunction(g) = SumFunction(h)
  BY <1>5, <1>6, <1>7 DEF SumFunction
<1>9. SumFunction(h) <= SumFunction(f) /\ ((\A q \in Queue \ K : f[q] = 0) => SumFunction(h) = SumFunction(f))
  <2>1. Part(Queue, f, K, h)
    BY <1>1, <1>5 DEF Part
  <2> QED
    BY <2>1, FunPart
<1> QED
  BY <1>8, <1>9 DEF h

(* The sum of one value. *)
LEMMA SumSingle ==
    ASSUME NEW f, NEW x, f[x] \in Int
    PROVE  SumFunctionOnSet(f, {x}) = f[x]
<1>1. IsFiniteSet({x}) /\ x \in {x} /\ {x} \ {x} = {} /\ \A y \in {x} : f[y] \in Int
  BY FS_Singleton
<1>2. SumFunctionOnSet(f, {x}) = f[x] + SumFunctionOnSet(f, {x} \ {x})
  BY <1>1, SumTake
<1> QED
  BY <1>1, <1>2, SumEmpty

(* The keys of a base, the dynamic ones, and those its row is made of. *)
KeysOf(in, b) == { q \in Known(in) : q[1] = b }
DynamicOf(in, b) == { q \in KeysOf(in, b) : q[2] # None }
Shown(in) == Known(in) \ Overshadowed(in)
ShownOf(in, b) == { q \in Shown(in) : q[1] = b }

(* A row is made of the dynamic queues of its base, or of its own list. *)
LEMMA KeysSplit ==
    ASSUME NEW in, NEW b \in Entries(Known(in))
    PROVE  /\ DynamicOf(in, b) # {} => ShownOf(in, b) = DynamicOf(in, b)
           /\ DynamicOf(in, b) = {} => ShownOf(in, b) = {<<b, None>>}
           /\ KeysOf(in, b) \subseteq Queue /\ ShownOf(in, b) \subseteq Queue
           /\ b \in Entries(Shown(in))
<1>1. Known(in) \subseteq Queue
  BY DEF Known
<1>2. \A q \in Queue : q = <<q[1], q[2]>>
  BY ReportsAssumption
<1>3. PICK x \in Known(in) : x[1] = b
  BY DEF Entries
<1>4. \A q : q \in ShownOf(in, b) <=>
        q \in KeysOf(in, b) /\ ~(q[2] = None /\ \E y \in Known(in) : y[1] = q[1] /\ y[2] # None)
  BY DEF ShownOf, Shown, Overshadowed, KeysOf
<1>5. \A q \in KeysOf(in, b) : q[1] = b /\ q \in Known(in)
  BY DEF KeysOf
<1>6. ASSUME DynamicOf(in, b) # {} PROVE ShownOf(in, b) = DynamicOf(in, b)
  <2>1. PICK y \in KeysOf(in, b) : y[2] # None
    BY <1>6 DEF DynamicOf
  <2>2. y \in Known(in) /\ y[1] = b
    BY <1>5
  <2>3. \A q : q \in ShownOf(in, b) <=> q \in KeysOf(in, b) /\ q[2] # None
    BY <1>4, <1>5, <2>1, <2>2
  <2> QED
    BY <2>3 DEF DynamicOf
<1>7. ASSUME DynamicOf(in, b) = {} PROVE ShownOf(in, b) = {<<b, None>>}
  <2>1. \A q \in KeysOf(in, b) : q[2] = None /\ q[1] = b /\ q \in Queue
    BY <1>1, <1>7 DEF DynamicOf, KeysOf
  <2>2. \A q \in KeysOf(in, b) : q = <<b, None>>
    BY <1>2, <2>1
  <2>3. x \in KeysOf(in, b)
    BY <1>3 DEF KeysOf
  <2>4. \A y \in Known(in) : y[1] = b => y[2] = None
    BY <2>1 DEF KeysOf
  <2>5. ShownOf(in, b) = KeysOf(in, b)
    BY <1>4, <1>5, <2>4
  <2> QED
    BY <2>2, <2>3, <2>5
<1>8. ShownOf(in, b) # {}
  BY <1>6, <1>7
<1>9. b \in Entries(Shown(in))
  BY <1>8 DEF ShownOf, Entries
<1>10. KeysOf(in, b) \subseteq Queue /\ ShownOf(in, b) \subseteq Queue
  BY <1>1, <1>4 DEF KeysOf
<1> QED
  BY <1>6, <1>7, <1>9, <1>10

(* What is shown has the same base keys. *)
LEMMA ShownEntries ==
    ASSUME NEW in
    PROVE  Entries(Shown(in)) = Entries(Known(in)) /\ Shown(in) \subseteq Queue
<1>1. Entries(Shown(in)) \subseteq Entries(Known(in)) /\ Shown(in) \subseteq Queue
  BY DEF Entries, Shown, Known
<1>2. \A b \in Entries(Known(in)) : b \in Entries(Shown(in))
  BY KeysSplit
<1> QED
  BY <1>1, <1>2

(* A figure of a row that is that of its own list, or the sum of those of *)
(* its dynamic queues, is the sum over the keys the row is made of.       *)
LEMMA OwnOrDynamic ==
    ASSUME NEW in, NEW b \in Entries(Known(in)), NEW f \in [Queue -> Nat], NEW v, NEW g,
           DynamicOf(in, b) = {} => v = f[<<b, None>>],
           DynamicOf(in, b) # {} => v = SumFunction(g),
           DOMAIN g = DynamicOf(in, b), \A q \in DynamicOf(in, b) : g[q] = f[q]
    PROVE  v = SumFunctionOnSet(f, ShownOf(in, b))
<1>0. ShownOf(in, b) \subseteq Queue
  BY KeysSplit
<1>1. CASE DynamicOf(in, b) = {}
  <2>1. ShownOf(in, b) = {<<b, None>>}
    BY <1>1, KeysSplit
  <2>2. <<b, None>> \in Queue
    BY <1>0, <2>1
  <2>3. f[<<b, None>>] \in Int
    BY <2>2
  <2>4. SumFunctionOnSet(f, {<<b, None>>}) = f[<<b, None>>]
    BY <2>3, SumSingle
  <2> QED
    BY <1>1, <2>1, <2>4
<1>2. CASE DynamicOf(in, b) # {}
  <2>1. DynamicOf(in, b) = ShownOf(in, b)
    BY <1>2, KeysSplit
  <2> DEFINE S == ShownOf(in, b)
  <2>2. IsFiniteSet(S) /\ DOMAIN g = S /\ \A q \in S : f[q] \in Int /\ g[q] = f[q]
    BY <1>0, <2>1, Finite, FS_Subset
  <2> HIDE DEF S
  <2>3. SumFunctionOnSet(g, S) = SumFunctionOnSet(f, S)
    BY <2>2, SumEqual
  <2> QED
    BY <1>2, <2>2, <2>3 DEF S, SumFunction
<1> QED
  BY <1>1, <1>2

(* The inputs of build_queue_stats. *)
LEMMA InputsParts ==
    ASSUME NEW in, InputsOK(in), NEW q \in Queue
    PROVE  /\ Enqueued(in, q) \in Nat /\ in.length[q] \in Nat /\ Sound(in.stats[q])
           /\ in.start[q] \in Nat /\ in.window[q].processed \in Nat
           /\ q \notin Known(in) => in.stats[q] = NoCounters
<1>1. /\ in.length[q] \in Nat /\ in.snapshot[q] \in {None} \cup [enqueued : Nat, fresh : BOOLEAN]
      /\ Sound(in.stats[q]) /\ in.start[q] \in Nat /\ in.window[q].processed \in Nat
  BY DEF InputsOK
<1> DEFINE s == FreshSnapshot(in.snapshot[q])
<1>2. s \in Nat \cup {None}
  BY <1>1 DEF FreshSnapshot
<1>3. Enqueued(in, q) = IF s = None THEN in.length[q] ELSE s
  BY DEF Enqueued
<1>4. q \notin Known(in) => in.stats[q] = NoCounters
  BY DEF Known
<1> HIDE DEF s
<1> QED
  BY <1>1, <1>2, <1>3, <1>4

(* What a row is made of. *)
RowFigures(in, b) ==
    LET row == QueueRow(in, b)
        keys == KeysOf(in, b)
        dynamic == DynamicOf(in, b)
    IN  /\ \A f \in DOMAIN NoCounters : row.counters[f] = SumFunction([q \in keys |-> in.stats[q][f]])
        /\ row.enqueued = IF dynamic = {} THEN Enqueued(in, <<b, None>>)
                          ELSE SumFunction([q \in dynamic |-> Enqueued(in, q)])
        /\ row.rate.processed = IF dynamic = {} THEN in.window[<<b, None>>].processed
                                ELSE SumFunction([q \in dynamic |-> in.window[q].processed])
        /\ row.queues = [q \in dynamic |-> [counters |-> in.stats[q], enqueued |-> Enqueued(in, q),
                                            rate |-> QueueRate(in, q)]]

(* A row has these figures. *)
LEMMA RowParts ==
    ASSUME NEW in, NEW b
    PROVE  RowFigures(in, b)
<1> DEFINE keys == KeysOf(in, b)
           dynamic == DynamicOf(in, b)
           own == <<b, None>>
           waiting == SumFunction([q \in dynamic |-> Enqueued(in, q)])
           rates == [q \in dynamic |-> QueueRate(in, q)]
<1>1. QueueRow(in, b) =
        [counters |-> [f \in DOMAIN NoCounters |-> SumFunction([q \in keys |-> in.stats[q][f]])],
         enqueued |-> IF dynamic = {} THEN Enqueued(in, own) ELSE waiting,
         rate     |-> IF dynamic = {} THEN QueueRate(in, own) ELSE AggregateRate(waiting, rates),
         queues   |-> [q \in dynamic |-> [counters |-> in.stats[q], enqueued |-> Enqueued(in, q),
                                          rate |-> QueueRate(in, q)]]]
  BY DEF QueueRow, KeysOf, DynamicOf
<1>2. \A q : QueueRate(in, q).processed = in.window[q].processed
  BY DEF QueueRate, CalculateRate
<1>3. AggregateRate(waiting, rates).processed = SumFunction([q \in dynamic |-> in.window[q].processed])
  <2>1. DOMAIN rates = dynamic /\ \A q \in dynamic : rates[q]["processed"] = in.window[q].processed
    BY <1>2
  <2>2. [q \in dynamic |-> rates[q]["processed"]] = [q \in dynamic |-> in.window[q].processed]
    BY <2>1
  <2> HIDE DEF rates, waiting, dynamic
  <2>3. AggregateRate(waiting, rates).processed = SumFunction([q \in DOMAIN rates |-> rates[q]["processed"]])
    BY DEF AggregateRate
  <2> QED
    BY <2>1, <2>2, <2>3
<1> HIDE DEF keys, dynamic, own, waiting, rates
<1>4. QueueRow(in, b).rate.processed = IF dynamic = {} THEN in.window[own].processed
                                       ELSE SumFunction([q \in dynamic |-> in.window[q].processed])
  BY <1>1, <1>2, <1>3
<1>5. QueueRow(in, b).enqueued = IF dynamic = {} THEN Enqueued(in, own) ELSE waiting
  BY <1>1
<1>6. \A f \in DOMAIN NoCounters : QueueRow(in, b).counters[f] = SumFunction([q \in keys |-> in.stats[q][f]])
  BY <1>1
<1>7. QueueRow(in, b).queues = [q \in dynamic |-> [counters |-> in.stats[q], enqueued |-> Enqueued(in, q),
                                                   rate |-> QueueRate(in, q)]]
  BY <1>1
<1> QED
  BY <1>4, <1>5, <1>6, <1>7 DEF RowFigures, keys, dynamic, own, waiting

(* A counter of the rows is grouped by base key. *)
LEMMA CountersGrouped ==
    ASSUME NEW in, InputsOK(in), NEW f \in DOMAIN NoCounters
    PROVE  Grouped(Known(in), [q \in Queue |-> in.stats[q][f]],
                   [b \in Entries(Known(in)) |-> QueueRow(in, b).counters[f]])
<1> DEFINE s == [q \in Queue |-> in.stats[q][f]]
           g == [b \in Entries(Known(in)) |-> QueueRow(in, b).counters[f]]
<1>0. \A q \in Queue : in.stats[q] \in Counters
  BY InputsParts DEF Sound
<1>1. s \in [Queue -> Nat]
  BY <1>0, CounterFields DEF Counters
<1>2. Known(in) \subseteq Queue
  BY DEF Known
<1>3. ASSUME NEW b \in Entries(Known(in))
      PROVE  g[b] = SumFunctionOnSet(s, {q \in Known(in) : q[1] = b})
  <2> DEFINE S == KeysOf(in, b)
             h == [q \in S |-> in.stats[q][f]]
  <2>1. g[b] = SumFunction(h)
    <3>1. RowFigures(in, b)
      BY RowParts
    <3>2. QueueRow(in, b).counters[f] = SumFunction(h)
      BY <3>1 DEF RowFigures
    <3>3. g[b] = QueueRow(in, b).counters[f]
      OBVIOUS
    <3> HIDE DEF g, h
    <3> QED
      BY <3>2, <3>3
  <2>2. S \subseteq Queue /\ IsFiniteSet(S)
    BY <1>2, Finite, FS_Subset DEF KeysOf
  <2>3. DOMAIN h = S /\ \A q \in S : s[q] \in Int /\ h[q] = s[q]
    BY <1>1, <2>2
  <2> HIDE DEF S, h, g, s
  <2>4. SumFunctionOnSet(h, S) = SumFunctionOnSet(s, S)
    BY <2>2, <2>3, SumEqual
  <2> QED
    BY <2>1, <2>3, <2>4 DEF SumFunction, S, KeysOf
<1>4. DOMAIN g = Entries(Known(in))
  OBVIOUS
<1> HIDE DEF g, s
<1>5. Grouped(Known(in), s, g)
  BY <1>1, <1>2, <1>3, <1>4 DEF Grouped
<1> QED
  BY <1>5 DEF g, s

(* So are the waiting jobs. *)
LEMMA EnqueuedGrouped ==
    ASSUME NEW in, InputsOK(in)
    PROVE  Grouped(Shown(in), [q \in Queue |-> Enqueued(in, q)],
                   [b \in Entries(Known(in)) |-> QueueRow(in, b).enqueued])
<1> DEFINE e == [q \in Queue |-> Enqueued(in, q)]
           g == [b \in Entries(Known(in)) |-> QueueRow(in, b).enqueued]
<1>1. e \in [Queue -> Nat]
  BY InputsParts
<1>2. Shown(in) \subseteq Queue
  BY ShownEntries
<1>3. ASSUME NEW b \in Entries(Known(in))
      PROVE  g[b] = SumFunctionOnSet(e, {q \in Shown(in) : q[1] = b})
  <2> DEFINE h == [q \in DynamicOf(in, b) |-> Enqueued(in, q)]
  <2>1. g[b] = IF DynamicOf(in, b) = {} THEN Enqueued(in, <<b, None>>) ELSE SumFunction(h)
    <3>1. RowFigures(in, b)
      BY RowParts
    <3>2. QueueRow(in, b).enqueued = IF DynamicOf(in, b) = {} THEN Enqueued(in, <<b, None>>) ELSE SumFunction(h)
      BY <3>1 DEF RowFigures
    <3>3. g[b] = QueueRow(in, b).enqueued
      OBVIOUS
    <3> HIDE DEF g, h
    <3> QED
      BY <3>2, <3>3
  <2>2. KeysOf(in, b) \subseteq Queue /\ (DynamicOf(in, b) = {} => <<b, None>> \in Queue)
    BY KeysSplit
  <2>3. DynamicOf(in, b) \subseteq Queue
    BY <2>2 DEF DynamicOf
  <2>4. /\ DynamicOf(in, b) = {} => g[b] = e[<<b, None>>]
        /\ DynamicOf(in, b) # {} => g[b] = SumFunction(h)
        /\ DOMAIN h = DynamicOf(in, b) /\ \A q \in DynamicOf(in, b) : h[q] = e[q]
    BY <2>1, <2>2, <2>3
  <2> HIDE DEF e, g, h
  <2>5. g[b] = SumFunctionOnSet(e, ShownOf(in, b))
    BY <1>1, <2>4, OwnOrDynamic
  <2> QED
    BY <2>5 DEF ShownOf
<1>4. DOMAIN g = Entries(Known(in)) /\ Entries(Shown(in)) = Entries(Known(in))
  BY ShownEntries
<1> HIDE DEF g, e
<1>5. Grouped(Shown(in), e, g)
  BY <1>1, <1>2, <1>3, <1>4 DEF Grouped
<1> QED
  BY <1>5 DEF g, e

(* So are the rates. *)
LEMMA RatesGrouped ==
    ASSUME NEW in, InputsOK(in)
    PROVE  Grouped(Shown(in), [q \in Queue |-> in.window[q].processed],
                   [b \in Entries(Known(in)) |-> QueueRow(in, b).rate.processed])
<1> DEFINE e == [q \in Queue |-> in.window[q].processed]
           g == [b \in Entries(Known(in)) |-> QueueRow(in, b).rate.processed]
<1>1. e \in [Queue -> Nat]
  BY InputsParts
<1>2. Shown(in) \subseteq Queue
  BY ShownEntries
<1>3. ASSUME NEW b \in Entries(Known(in))
      PROVE  g[b] = SumFunctionOnSet(e, {q \in Shown(in) : q[1] = b})
  <2> DEFINE h == [q \in DynamicOf(in, b) |-> in.window[q].processed]
  <2>1. g[b] = IF DynamicOf(in, b) = {} THEN in.window[<<b, None>>].processed ELSE SumFunction(h)
    <3>1. RowFigures(in, b)
      BY RowParts
    <3>2. QueueRow(in, b).rate.processed = IF DynamicOf(in, b) = {} THEN in.window[<<b, None>>].processed
                                           ELSE SumFunction(h)
      BY <3>1 DEF RowFigures
    <3>3. g[b] = QueueRow(in, b).rate.processed
      OBVIOUS
    <3> HIDE DEF g, h
    <3> QED
      BY <3>2, <3>3
  <2>2. KeysOf(in, b) \subseteq Queue /\ (DynamicOf(in, b) = {} => <<b, None>> \in Queue)
    BY KeysSplit
  <2>3. DynamicOf(in, b) \subseteq Queue
    BY <2>2 DEF DynamicOf
  <2>4. \A q \in Queue : in.window[q].processed = e[q]
    OBVIOUS
  <2>5. DOMAIN h = DynamicOf(in, b) /\ \A q \in DynamicOf(in, b) : h[q] = in.window[q].processed
    OBVIOUS
  <2> HIDE DEF e, g, h
  <2>6. /\ DynamicOf(in, b) = {} => g[b] = e[<<b, None>>]
        /\ DynamicOf(in, b) # {} => g[b] = SumFunction(h)
        /\ DOMAIN h = DynamicOf(in, b) /\ \A q \in DynamicOf(in, b) : h[q] = e[q]
    BY <2>1, <2>2, <2>3, <2>4, <2>5
  <2>7. g[b] = SumFunctionOnSet(e, ShownOf(in, b))
    BY <1>1, <2>6, OwnOrDynamic
  <2> QED
    BY <2>7 DEF ShownOf
<1>4. DOMAIN g = Entries(Known(in)) /\ Entries(Shown(in)) = Entries(Known(in))
  BY ShownEntries
<1> HIDE DEF g, e
<1>5. Grouped(Shown(in), e, g)
  BY <1>1, <1>2, <1>3, <1>4 DEF Grouped
<1> QED
  BY <1>5 DEF g, e

(* The rows, and what the exporter takes from them. *)
LEMMA RowsOf ==
    ASSUME NEW in
    PROVE  /\ DOMAIN Rows(in) = Entries(Known(in))
           /\ \A b \in Entries(Known(in)) : Rows(in)[b] = QueueRow(in, b)
BY DEF Rows

(* A figure of the queues shown, and of those overshadowed. *)
LEMMA TwoParts ==
    ASSUME NEW in, NEW f \in [Queue -> Nat]
    PROVE  SumFunction([q \in Known(in) |-> f[q]]) =
             SumFunction([q \in Shown(in) |-> f[q]]) + SumFunction([q \in Overshadowed(in) |-> f[q]])
<1> DEFINE K == Known(in)
           T == Overshadowed(in)
           a == [q \in K |-> f[q]]
           g == [q \in T |-> f[q]]
           h == [q \in K \ T |-> f[q]]
<1>1. K \subseteq Queue /\ T \in SUBSET K
  BY DEF Known, Overshadowed
<1>2. IsFiniteSet(K)
  BY <1>1, Finite, FS_Subset
<1>3. /\ a \in [K -> Nat] /\ g \in [T -> Nat] /\ h \in [K \ T -> Nat]
      /\ (\A q \in T : g[q] = a[q]) /\ \A q \in K \ T : h[q] = a[q]
  BY <1>1
<1>4. h = [q \in Shown(in) |-> f[q]]
  BY DEF Shown
<1> HIDE DEF K, T, a, g, h
<1>5. SumFunction(a) = SumFunction(g) + SumFunction(h)
  <2>1. Part(K, a, T, g) /\ Part(K, a, K \ T, h)
    BY <1>1, <1>2, <1>3 DEF Part
  <2> QED
    BY <2>1, FunSplit
<1>6. IsFiniteSet(T) /\ IsFiniteSet(K \ T)
  BY <1>1, <1>2, FS_Subset
<1>7. SumFunction(g) \in Nat /\ SumFunction(h) \in Nat
  BY <1>3, <1>6, FunNat
<1>8. SumFunction(a) = SumFunction(h) + SumFunction(g)
  BY <1>5, <1>7
<1> QED
  BY <1>4, <1>8 DEF a, g, K, T

(* The totals of the rows are those of the hash and of the lists. *)
LEMMA RowTotals ==
    ASSUME NEW in, InputsOK(in)
    PROVE  /\ Global(Rows(in)).processed = SumFunction([q \in Queue |-> in.stats[q].processed])
           /\ Global(Rows(in)).enqueued + SumFunction([q \in Overshadowed(in) |-> Enqueued(in, q)]) =
                SumFunction([q \in Known(in) |-> Enqueued(in, q)])
<1> DEFINE f == "processed"
           s == [q \in Queue |-> in.stats[q][f]]
           g == [b \in Entries(Known(in)) |-> QueueRow(in, b).counters[f]]
           e == [q \in Queue |-> Enqueued(in, q)]
           h == [b \in Entries(Known(in)) |-> QueueRow(in, b).enqueued]
<1>1. Grouped(Known(in), s, g) /\ Grouped(Shown(in), e, h)
  BY CountersGrouped, EnqueuedGrouped, CounterFields
<1>2. \A q \in Queue \ Known(in) : s[q] = 0
  BY InputsParts DEF NoCounters
<1>3. Global(Rows(in)).processed = SumFunction(g) /\ Global(Rows(in)).enqueued = SumFunction(h)
  <2>1. /\ Global(Rows(in)).processed =
             SumFunction([b \in DOMAIN Rows(in) |-> Rows(in)[b].counters.processed])
        /\ Global(Rows(in)).enqueued = SumFunction([b \in DOMAIN Rows(in) |-> Rows(in)[b].enqueued])
    BY DEF Global
  <2>2. /\ [b \in DOMAIN Rows(in) |-> Rows(in)[b].counters.processed] = g
        /\ [b \in DOMAIN Rows(in) |-> Rows(in)[b].enqueued] = h
    BY RowsOf
  <2> QED
    BY <2>1, <2>2
<1>4. e \in [Queue -> Nat]
  BY InputsParts
<1>5. /\ [q \in Known(in) |-> e[q]] = [q \in Known(in) |-> Enqueued(in, q)]
      /\ [q \in Overshadowed(in) |-> e[q]] = [q \in Overshadowed(in) |-> Enqueued(in, q)]
  BY DEF Known, Overshadowed
<1> HIDE DEF s, g, e, h
<1>6. SumFunction(g) = SumFunction(s) /\ SumFunction(h) = SumFunction([q \in Shown(in) |-> e[q]])
  <2>1. SumFunction(g) = SumFunction(s)
    BY <1>1, <1>2, GroupedSum
  <2>2. SumFunction(h) = SumFunction([q \in Shown(in) |-> e[q]])
    BY <1>1, GroupedSum
  <2> QED
    BY <2>1, <2>2
<1>7. SumFunction([q \in Known(in) |-> e[q]]) =
        SumFunction([q \in Shown(in) |-> e[q]]) + SumFunction([q \in Overshadowed(in) |-> e[q]])
  BY <1>4, TwoParts
<1> QED
  BY <1>3, <1>5, <1>6, <1>7 DEF s

(* A counter of a row and of the keys it is made of. *)
RowCount(in, b, f) ==
    /\ [q \in KeysOf(in, b) |-> in.stats[q][f]] \in [KeysOf(in, b) -> Nat]
    /\ QueueRow(in, b).counters[f] = SumFunction([q \in KeysOf(in, b) |-> in.stats[q][f]])

(* A row has these counters. *)
LEMMA RowCounters ==
    ASSUME NEW in, InputsOK(in), NEW b \in Entries(Known(in))
    PROVE  /\ IsFiniteSet(KeysOf(in, b)) /\ KeysOf(in, b) \subseteq Queue
           /\ \A f \in DOMAIN NoCounters : RowCount(in, b, f)
<1>1. KeysOf(in, b) \subseteq Queue
  BY KeysSplit
<1>2. IsFiniteSet(KeysOf(in, b))
  BY <1>1, Finite, FS_Subset
<1>3. \A q \in Queue : in.stats[q] \in Counters
  BY InputsParts DEF Sound
<1>4. \A q \in Queue : \A f \in DOMAIN NoCounters : in.stats[q][f] \in Nat
  BY <1>3, CounterFields DEF Counters
<1>5. RowFigures(in, b)
  BY RowParts
<1>6. \A f \in DOMAIN NoCounters :
        QueueRow(in, b).counters[f] = SumFunction([q \in KeysOf(in, b) |-> in.stats[q][f]])
  BY <1>5 DEF RowFigures
<1>8. \A f \in DOMAIN NoCounters : RowCount(in, b, f)
  BY <1>1, <1>4, <1>6 DEF RowCount
<1> QED
  BY <1>1, <1>2, <1>8

(* Successes and failures of a row make up what it processed. *)
LEMMA RowSound ==
    ASSUME NEW in, InputsOK(in), NEW b \in Entries(Known(in))
    PROVE  QueueRow(in, b).counters.processed =
             QueueRow(in, b).counters.succeeded + QueueRow(in, b).counters.failed
<1> DEFINE K == KeysOf(in, b)
           c == QueueRow(in, b).counters
           p == [q \in K |-> in.stats[q]["processed"]]
           s == [q \in K |-> in.stats[q]["succeeded"]]
           f == [q \in K |-> in.stats[q]["failed"]]
<1>1. IsFiniteSet(K) /\ K \subseteq Queue
  BY RowCounters, CounterFields
<1>2. /\ p \in [K -> Nat] /\ s \in [K -> Nat] /\ f \in [K -> Nat]
      /\ c["processed"] = SumFunction(p) /\ c["succeeded"] = SumFunction(s) /\ c["failed"] = SumFunction(f)
  <2>1. RowCount(in, b, "processed") /\ RowCount(in, b, "succeeded") /\ RowCount(in, b, "failed")
    BY RowCounters, CounterFields
  <2> QED
    BY <2>1 DEF RowCount
<1>3. \A q \in K : p[q] = s[q] + f[q]
  BY <1>1, InputsParts DEF Sound
<1> HIDE DEF p, s, f, K
<1>4. p \in [K -> Int] /\ s \in [K -> Int] /\ f \in [K -> Int]
  BY <1>2
<1>5. Adds(K, s, f, p)
  BY <1>1, <1>3, <1>4 DEF Adds
<1>6. SumFunction(p) = SumFunction(s) + SumFunction(f)
  BY <1>5, FunPlus
<1> QED
  BY <1>2, <1>6

(* The dynamic queues the exporter shows are those of the rows. *)
LEMMA DynamicGauges ==
    ASSUME NEW in, InputsOK(in)
    PROVE  /\ \A b \in Entries(Known(in)) :
                { x \in DOMAIN DynamicQueueGauges(Rows(in)) : x[1] = b } = DynamicOf(in, b)
           /\ \A q \in DOMAIN DynamicQueueGauges(Rows(in)) :
                /\ q[1] \in Entries(Known(in)) /\ q \in DynamicOf(in, q[1])
                /\ DynamicQueueGauges(Rows(in))[q].dynamic_queue_failed_total = in.stats[q].failed
<1> DEFINE D == UNION { DOMAIN Rows(in)[b].queues : b \in DOMAIN Rows(in) }
           gauges == DynamicQueueGauges(Rows(in))
<1>1. \A b \in Entries(Known(in)) :
        /\ DOMAIN Rows(in)[b].queues = DynamicOf(in, b)
        /\ \A q \in DynamicOf(in, b) : Rows(in)[b].queues[q].counters = in.stats[q]
  <2> TAKE b \in Entries(Known(in))
  <2>1. RowFigures(in, b) /\ Rows(in)[b] = QueueRow(in, b)
    BY RowParts, RowsOf
  <2>2. QueueRow(in, b).queues = [q \in DynamicOf(in, b) |->
            [counters |-> in.stats[q], enqueued |-> Enqueued(in, q), rate |-> QueueRate(in, q)]]
    BY <2>1 DEF RowFigures
  <2> QED
    BY <2>1, <2>2
<1>2. DOMAIN gauges = D /\ \A q \in D :
        gauges[q].dynamic_queue_failed_total = Rows(in)[q[1]].queues[q].counters.failed
  BY DEF DynamicQueueGauges
<1>3. \A b : \A q \in DynamicOf(in, b) : q[1] = b
  BY DEF DynamicOf, KeysOf
<1>4. ASSUME NEW q \in D PROVE q[1] \in Entries(Known(in)) /\ q \in DynamicOf(in, q[1])
  <2>1. PICK b \in DOMAIN Rows(in) : q \in DOMAIN Rows(in)[b].queues
    OBVIOUS
  <2>2. b \in Entries(Known(in)) /\ q \in DynamicOf(in, b)
    BY <1>1, <2>1, RowsOf
  <2> QED
    BY <1>3, <2>2
<1>5. ASSUME NEW b \in Entries(Known(in)), NEW q \in DynamicOf(in, b) PROVE q \in D
  <2>1. b \in DOMAIN Rows(in) /\ q \in DOMAIN Rows(in)[b].queues
    BY <1>1, RowsOf
  <2> QED
    BY <2>1
<1> HIDE DEF D, gauges
<1>6. \A b \in Entries(Known(in)) : { x \in D : x[1] = b } = DynamicOf(in, b)
  BY <1>3, <1>4, <1>5
<1>7. \A q \in D : gauges[q].dynamic_queue_failed_total = in.stats[q].failed
  BY <1>1, <1>2, <1>4
<1> QED
  BY <1>2, <1>4, <1>6, <1>7 DEF gauges

(* A dynamic queue fails no more often than the row it belongs to. *)
LEMMA DynamicFailures ==
    ASSUME NEW in, InputsOK(in), NEW b \in Entries(Known(in))
    PROVE  SumFunction([q \in { x \in DOMAIN DynamicQueueGauges(Rows(in)) : x[1] = b } |->
                           DynamicQueueGauges(Rows(in))[q].dynamic_queue_failed_total])
             <= QueueRow(in, b).counters.failed
<1> DEFINE K == KeysOf(in, b)
           D == DynamicOf(in, b)
           f == [q \in K |-> in.stats[q]["failed"]]
           g == [q \in D |-> in.stats[q]["failed"]]
           gauges == DynamicQueueGauges(Rows(in))
           shown == [q \in { x \in DOMAIN gauges : x[1] = b } |-> gauges[q].dynamic_queue_failed_total]
<1>1. IsFiniteSet(K) /\ f \in [K -> Nat] /\ QueueRow(in, b).counters["failed"] = SumFunction(f)
  <2>1. IsFiniteSet(K) /\ RowCount(in, b, "failed")
    BY RowCounters, CounterFields
  <2> QED
    BY <2>1 DEF RowCount
<1>2. D \in SUBSET K
  BY DEF DynamicOf
<1>3. g \in [D -> Nat] /\ \A q \in D : g[q] = f[q]
  BY <1>1, <1>2
<1>4. shown = g
  <2>1. { x \in DOMAIN gauges : x[1] = b } = D
    BY DynamicGauges
  <2>2. \A q \in D : gauges[q].dynamic_queue_failed_total = in.stats[q]["failed"]
    BY <2>1, DynamicGauges
  <2> HIDE DEF gauges, D
  <2> QED
    BY <2>1, <2>2
<1> HIDE DEF K, D, f, g, shown
<1>5. SumFunction(g) <= SumFunction(f)
  <2>1. Part(K, f, D, g)
    BY <1>1, <1>2, <1>3 DEF Part
  <2> QED
    BY <2>1, FunPart
<1> QED
  BY <1>1, <1>4, <1>5 DEF shown

(* A time until the queue is empty is a number of seconds, or unknown. *)
LEMMA EtaType ==
    ASSUME NEW n \in Nat, NEW d \in Nat
    PROVE  Eta(n, d) \in Nat \cup {None}
<1>1. n * RateMinutes * MinuteLength \in Nat
  BY Sizes
<1>2. ASSUME d > 0, NEW a \in Nat PROVE a \div d \in Nat
  BY <1>2
<1> QED
  BY <1>1, <1>2 DEF Eta

(* A dynamic queue with a gauge has a page. *)
LEMMA DetailShown ==
    ASSUME NEW in, InputsOK(in), NEW q \in DOMAIN DynamicQueueGauges(Rows(in))
    PROVE  DetailRow(in, Rows(in), q) # None
<1> DEFINE b == q[1]
           row == Rows(in)[b].queues[q]
           drain == row.rate.drain
<1>1. b \in Entries(Known(in)) /\ q \in DynamicOf(in, b)
  BY DynamicGauges
<1>2. q \in Queue /\ q[2] # None
  BY <1>1, KeysSplit DEF DynamicOf
<1>3. RowFigures(in, b) /\ Rows(in)[b] = QueueRow(in, b) /\ b \in DOMAIN Rows(in)
  BY <1>1, RowParts, RowsOf
<1>4. QueueRow(in, b).queues = [x \in DynamicOf(in, b) |->
          [counters |-> in.stats[x], enqueued |-> Enqueued(in, x), rate |-> QueueRate(in, x)]]
  <2> HIDE DEF b
  <2> QED
    BY <1>3 DEF RowFigures
<1>5. q \in DOMAIN Rows(in)[b].queues /\ row.counters = in.stats[q] /\ row.rate = QueueRate(in, q)
  <2> HIDE DEF b
  <2> QED
    BY <1>1, <1>3, <1>4
<1>6. DetailRow(in, Rows(in), q) =
        [counters |-> row.counters, enqueued |-> in.length[q], eta |-> Eta(in.length[q], drain)]
  BY <1>2, <1>3, <1>5 DEF DetailRow
<1>7. in.length[q] \in Nat /\ in.stats[q] \in Counters
      /\ in.start[q] \in Nat /\ Enqueued(in, q) \in Nat
  BY <1>2, InputsParts DEF Sound
<1>8. drain \in Nat
  <2> DEFINE growth == Enqueued(in, q) - in.start[q]
  <2>1. drain = EffectiveDrain(in.window[q].processed, growth)
    <3>1. QueueRate(in, q).drain = EffectiveDrain(in.window[q].processed, growth)
      BY DEF QueueRate, CalculateRate
    <3> HIDE DEF row, growth
    <3> QED
      BY <1>5, <3>1
  <2>2. growth \in Int
    BY <1>7
  <2> HIDE DEF growth, drain
  <2> QED
    BY <2>1, <2>2 DEF EffectiveDrain
<1> HIDE DEF row, drain, b
<1>9. Eta(in.length[q], drain) \in Nat \cup {None}
  BY <1>7, <1>8, EtaType
<1>10. DetailRow(in, Rows(in), q) \in [counters : Counters, enqueued : Nat, eta : Nat \cup {None}]
  BY <1>5, <1>6, <1>7, <1>9
<1> QED
  BY <1>10, ReportsAssumption

(* A filtered report shows the rows of the full one. *)
LEMMA SomeRows ==
    ASSUME NEW in, NEW Q
    PROVE  RowsFor(in, Q) = [b \in DOMAIN RowsFor(in, Q) |-> Rows(in)[b]]
<1> DEFINE some == { q \in Known(in) : MatchesFilter(q, Q) }
<1>1. RowsFor(in, Q) = [b \in Entries(some) |-> QueueRow(in, b)]
  BY DEF RowsFor
<1>2. Entries(some) \subseteq Entries(Known(in))
  BY DEF Entries
<1>3. \A b \in Entries(some) : QueueRow(in, b) = Rows(in)[b]
  BY <1>2, RowsOf
<1> HIDE DEF some
<1> QED
  BY <1>1, <1>3

(* The rates of the rows, and what the metrics page showed. *)
LEMMA RatesAddUp ==
    ASSUME NEW in, InputsOK(in), NEW P, P = SumFunction([q \in Queue |-> in.window[q].processed])
    PROVE  LET rate == SumFunction([b \in DOMAIN Rows(in) |-> Rows(in)[b].rate.processed])
               hidden == SumFunction([q \in Overshadowed(in) |-> in.window[q].processed])
           IN  /\ rate + hidden <= P
               /\ (\A q \in Queue \ Known(in) : in.window[q].processed = 0) => rate + hidden = P
<1> DEFINE e == [q \in Queue |-> in.window[q].processed]
           g == [b \in Entries(Known(in)) |-> QueueRow(in, b).rate.processed]
           rates == [b \in DOMAIN Rows(in) |-> Rows(in)[b].rate.processed]
           hidden == [q \in Overshadowed(in) |-> in.window[q].processed]
           K == Known(in)
           known == [q \in K |-> e[q]]
<1>1. Grouped(Shown(in), e, g)
  BY RatesGrouped
<1>2. rates = g
  BY RowsOf
<1>3. e \in [Queue -> Nat] /\ IsFiniteSet(Queue) /\ K \in SUBSET Queue
  BY InputsParts, Finite DEF Known
<1>4. known \in [K -> Nat] /\ \A q \in K : known[q] = e[q]
  BY <1>3
<1>5. hidden = [q \in Overshadowed(in) |-> e[q]]
  BY DEF Overshadowed, Known
<1>6. (\A q \in Queue \ Known(in) : in.window[q].processed = 0) => \A q \in Queue \ K : e[q] = 0
  OBVIOUS
<1>7. known = [q \in Known(in) |-> e[q]] /\ P = SumFunction(e)
  OBVIOUS
<1> HIDE DEF e, g, rates, hidden, K, known
<1>8. SumFunction(g) = SumFunction([q \in Shown(in) |-> e[q]])
  BY <1>1, GroupedSum
<1>9. SumFunction(known) = SumFunction([q \in Shown(in) |-> e[q]]) + SumFunction(hidden)
  BY <1>3, <1>5, <1>7, TwoParts
<1>10. SumFunction(known) <= SumFunction(e) /\ ((\A q \in Queue \ K : e[q] = 0) => SumFunction(known) = SumFunction(e))
  <2>1. Part(Queue, e, K, known)
    BY <1>3, <1>4 DEF Part
  <2> QED
    BY <2>1, FunPart
<1>11. SumFunction(rates) + SumFunction(hidden) <= P
       /\ ((\A q \in Queue \ Known(in) : in.window[q].processed = 0) => SumFunction(rates) + SumFunction(hidden) = P)
  BY <1>2, <1>6, <1>7, <1>8, <1>9, <1>10
<1> QED
  BY <1>11 DEF rates, hidden

(* What the dashboard and the exporter show adds up, whatever happens      *)
(* between the reads of a query: rows, gauges and rates count every        *)
(* counter once, and only the jobs and the rate of a list beside dynamic   *)
(* queues of its key are in no row.                                        *)
THEOREM RowsAllAddUp == Spec => RowsAddUp
<1>1. ASSUME IInv, query = "rows", NEW in, in = inputs
      PROVE  AddsUp(in)
  <2>0. InputsOK(in)
    BY <1>1 DEF IInv, Reading
  <2> DEFINE rows == Rows(in)
             gauges == QueueGauges(rows)
             dynamic == DynamicQueueGauges(rows)
             global == GlobalGauges(rows)
  <2>1. /\ global.processed_total = SumFunction([q \in Queue |-> in.stats[q].processed])
        /\ global.enqueued_total + SumFunction([q \in Overshadowed(in) |-> Enqueued(in, q)]) =
             SumFunction([q \in Known(in) |-> Enqueued(in, q)])
    <3>1. global.processed_total = Global(rows).processed /\ global.enqueued_total = Global(rows).enqueued
      BY DEF GlobalGauges
    <3> HIDE DEF rows, global
    <3> QED
      BY <2>0, <3>1, RowTotals DEF rows
  <2>2. \A b \in Entries(Known(in)) : rows[b] = QueueRow(in, b) /\ DOMAIN rows = Entries(Known(in))
    BY RowsOf
  <2>3. DOMAIN gauges = DOMAIN rows
    BY DEF QueueGauges
  <2>4. global.processed_total =
          SumFunction([b \in DOMAIN gauges |->
                          gauges[b].queue_succeeded_total + gauges[b].queue_failed_total])
    <3>1. global.processed_total = SumFunction([b \in DOMAIN rows |-> rows[b].counters.processed])
      BY DEF GlobalGauges, Global
    <3>2. ASSUME NEW b \in DOMAIN rows
          PROVE  rows[b].counters.processed = gauges[b].queue_succeeded_total + gauges[b].queue_failed_total
      <4>1. /\ gauges[b].queue_succeeded_total = rows[b].counters.succeeded
            /\ gauges[b].queue_failed_total = rows[b].counters.failed
        BY DEF QueueGauges
      <4>2. b \in Entries(Known(in)) /\ rows[b] = QueueRow(in, b)
        BY RowsOf
      <4>3. QueueRow(in, b).counters.processed =
              QueueRow(in, b).counters.succeeded + QueueRow(in, b).counters.failed
        BY <2>0, <4>2, RowSound
      <4> HIDE DEF rows, gauges
      <4> QED
        BY <4>1, <4>2, <4>3
    <3> HIDE DEF rows, gauges, global
    <3>3. [b \in DOMAIN gauges |-> gauges[b].queue_succeeded_total + gauges[b].queue_failed_total]
            = [b \in DOMAIN rows |-> rows[b].counters.processed]
      BY <2>3, <3>2
    <3> QED
      BY <3>1, <3>3
  <2>5. ASSUME NEW b \in DOMAIN gauges
        PROVE  SumFunction([q \in { x \in DOMAIN dynamic : x[1] = b } |->
                                dynamic[q].dynamic_queue_failed_total]) <= gauges[b].queue_failed_total
    <3>1. b \in Entries(Known(in)) /\ rows[b] = QueueRow(in, b)
      BY <2>3, RowsOf
    <3>2. gauges[b].queue_failed_total = rows[b].counters.failed
      BY <2>3 DEF QueueGauges
    <3>3. SumFunction([q \in { x \in DOMAIN dynamic : x[1] = b } |->
                          dynamic[q].dynamic_queue_failed_total]) <= QueueRow(in, b).counters.failed
      BY <2>0, <3>1, DynamicFailures
    <3> HIDE DEF rows, gauges, dynamic
    <3> QED
      BY <3>1, <3>2, <3>3
  <2>6. \A q \in DOMAIN dynamic : DetailRow(in, rows, q) # None
    BY <2>0, DetailShown
  <2>7. LET some == RowsFor(in, in.listed)
        IN  some = [b \in DOMAIN some |-> rows[b]]
    BY SomeRows
  <2>8. LET rate == SumFunction([b \in DOMAIN rows |-> rows[b].rate.processed])
            hidden == SumFunction([q \in Overshadowed(in) |-> in.window[q].processed])
        IN  rate + hidden <= page /\ (settled => rate + hidden = page)
    <3>1. in.window = inputs.window /\ in.stats = inputs.stats
      BY <1>1
    <3>2. page = SumFunction([q \in Queue |-> in.window[q].processed])
      BY <1>1, <3>1 DEF IInv, Reading
    <3>3. ASSUME settled PROVE \A q \in Queue \ Known(in) : in.window[q].processed = 0
      <4> TAKE q \in Queue \ Known(in)
      <4>1. inputs.stats[q] = NoCounters
        BY <2>0, <3>1, InputsParts
      <4> QED
        BY <1>1, <3>1, <3>3, <4>1 DEF IInv, Reading
    <3> QED
      BY <2>0, <3>2, <3>3, RatesAddUp
  <2> QED
    BY <2>1, <2>4, <2>5, <2>6, <2>7, <2>8 DEF AddsUp
<1>2. IInv /\ [Next]_vars => [BuildRows => AddsUp(inputs)]_vars
  BY <1>1 DEF BuildRows
<1> QED
  BY <1>2, Inductive, PTL DEF RowsAddUp, Spec

=============================================================================
