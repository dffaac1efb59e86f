# A verification of oxana

oxana is a Redis-backed job queue: clients enqueue jobs, the runtimes of any
number of worker processes run them, and everything they share is in Redis.
This directory holds TLA+ models of it, the TLC configurations that check
them, and proofs that TLAPS checks. Paths are relative to the repository;
`oxana/src/` is meant where only a file name is given.

## The system

| Part | State | Operations | Talks to |
|---|---|---|---|
| job storage (`storage_internal.rs`) | Redis: `jobs` hash, a list per queue, a processing list per process, sorted sets `schedule` and `retry`, list `dead`, sorted set `processes` | enqueue, dequeue, load, started, finish, kill, retry, claim, ping, resurrect, cleanup, wipe, revive | every other part calls it |
| dispatcher (`dispatcher.rs`) | a permit, an id | acquire permit, ask the throttle, LMOVE, send to the job channel | permits, throttler, storage, coordinator |
| queue permits (`semaphores_map.rs`) | active count, limit, paused or not, waiters | acquire, release, apply_config | dispatcher, coordinator, config watcher |
| throttler (`throttler.rs`) | Redis: sorted set of times with an expiry | state, consume | dispatcher |
| queue configuration (`queue.rs`, `storage.rs`) | Redis: hash of runtime configs | pause, resume, resize, store, reset, poll | administrators, coordinator, permits |
| coordinator (`coordinator.rs`) | job channel, running tasks, batchers | load, route to a task or a batcher, collect, drain; watch for queues and configs | storage, executor, permits |
| executor (`executor.rs`) | the envelopes of a running job or batch | run, finish, retry or kill | storage |
| job state (`job_state.rs`) | the cursor in the envelope, an iterator | read progress, save it after each item | storage |
| launcher (`launcher.rs`, `runtime.rs`) | cancel token, background loops | start, stop, exit | all of the above |
| background loops | ids in memory between two calls | ping, retry, schedule, resurrect, cron, cleanup | storage |
| drainer (`drainer.rs`) | an id | dequeue, run, finish or kill, without a runtime | storage |
| result collector (`result_collector.rs`, `metrics.rs`, `stats.rs`) | buffered counters; Redis: counters, samples and snapshots | collect, flush, refresh, query | coordinator, dashboard, exporter |
| registry (`config.rs`, `worker_registry.rs`, `registry.rs`, `worker.rs`) | tables of workers, aliases, schedules, queues | register, look up, build a job or a batch, catalog | runtime builder, coordinator, dashboard |
| dashboard (`oxana-web/src/handlers.rs`), exporter (`prometheus.rs`) | none of their own | list, find, operate, enqueue, show | public storage interface |

What is hard here is that the processes share nothing but Redis, no operation
of several steps is a transaction, and each may be cut short: the process can
die, or a call can fail, between any two round trips. On top of that a process
can be taken for dead while it lives, and then two of them work on one job.

What makes the parts correct:

- storage and executor: no accepted job is forgotten; no job runs twice at
  once; a settled job leaves nothing behind; retries are bounded;
- resurrection: only of dead processes, and of all that was left behind;
- permits: the counter is exact, and nobody sleeps while there is room;
- coordinator: a job is always in somebody's hands; shutdown comes to an end
  and leaves what was taken and not run where another process finds it;
- unique jobs: one instance at a time; throttle: a bounded excess, only a delay;
- configuration: changes reach every queue; registry: whatever can be enqueued
  from the catalog can be built and is served;
- operators, cleanup and cron: nothing vanishes, nothing is done twice;
- statistics: counted once, and every view shows the same.

## Modules

| Module | Models |
|---|---|
| `JobLifecycle` | the life of a plain job through Redis and the processes |
| `JobService`, `JobRefinement` | what oxana promises of a job, and the mapping under which `JobLifecycle` implements it |
| `UniqueJobs` | one unique id: enqueue with Skip and Replace, lists, runs, retries, saved progress |
| `QueueControl` | the permit counter |
| `QueueConfig` | runtime configs, administrators, the config watcher; extends `QueueControl` and drives it |
| `Throttle` | dispatchers of one throttled queue |
| `Coordinator` | one queue of one process, from dispatcher to result, with batches and shutdown |
| `Maintenance` | operators, cleanup, cron, schedule and retry loops, drainer |
| `Dashboard` | visitors of the list pages and of the page of a job; extends `Maintenance` |
| `Reports` | the pure part of the statistics: recording, aggregation, rows, rates, gauges |
| `Statistics` | the result collector, its flushes and the queries; extends `Reports` |
| `Registration` | registries, catalog, forms, queue watchers, construction of jobs and batches |
| `MC...` | the instances for TLC |
| `JobProofs` | proofs about `JobLifecycle` and its refinement |
| `UniqueJobsProofs`, `QueueControlProofs`, `CoordinatorProofs`, `MaintenanceProofs`, `RegistrationProofs`, `StatisticsProofs` | proofs about the module of that name; `QueueControlProofs` also about `QueueConfig`, `MaintenanceProofs` about `Dashboard`, `StatisticsProofs` about `Reports` |
| `Sums` | laws of sums over finite sets, for `StatisticsProofs` |

Conventions: one step is one Redis round trip. A `redis::pipe()` goes out in
one buffer and is one step; two awaited calls are two steps. (A plain pipe is
no MULTI: Redis could in principle serve another client inside it. It reads the
buffer of a pipe in one go unless the buffer is large, and the models take it
as one.) Between two awaits code of one process is one step as well. Payloads,
error texts and layout are left out. Variables under "history" in a module only
record what happened, so that a property can speak of it.

### JobLifecycle

Redis is `jobs`, `queue`, `processing`, `zset`, `dead`, `processes`; lists of
ids are bags, since which id is taken first is of no consequence to what is
checked. Timestamps are gone: any member of a sorted set may be due, and a
heartbeat is fresh or stale. An envelope is its retry count.

The memory of the processes is

- `pc`, `job`, `env`: the task that holds a permit, from the LMOVE of the
  dispatcher (`popped`, in the job channel) over `load_pending_job` (`loaded`
  or `missing`) and `executor::run` (`running`) to `handle_err` (`released`
  after `finish_with_failure`, `retrying` inside `retry_in`);
- `mpc`, `mids`: `enqueue_scheduled` of the retry and of the schedule loop,
  after the ZRANGEBYSCORE (`listed`), the ZREM (`claimed`), the HMGET (`fetched`);
- `rpc`, `known`, `dying`, `target`, `batch`, `found`: `resurrect_loop`, from
  the first ping (`init`) over the two calls of `dead_process_ids` to LPOP,
  HGET, and LPUSH or HDEL of each id;
- `phase`: `up`, `cancelled` (the token is set), `draining` (the coordinator
  left its select loop), `down`.

`faults` is the budget of disturbances: `Faults` names which process may crash,
start, be told to stop, miss its heartbeats (`pause`), or see a Redis call fail
(`redis`). A call that fails has no effect here; a call that took effect and
whose answer was lost is modelled in `Maintenance` and `Statistics`. After a
Redis error each caller does what the code does: log and go on (`handle_err`),
log and drop the task, start the loop over, or, for `set_started_at`, end the
coordinator and abort its tasks.

### JobService and JobRefinement

A job is new, waiting, running, settled or lost, and has a retry count. It is
accepted once; it begins when it waits; a failed run makes it wait again and is
counted, at most `MaxRetries` times; an outcome is final; a process that dies
interrupts the jobs it runs, which is no retry, and loses those it carries
between two Redis keys. `StatusOf` maps the state of Redis and of all processes
to this: running from the write of `started_at` to the pipe that settles the
job or the write that schedules its retry. `ImplementsService` is the whole
specification as a property.

### UniqueJobs

One id, enqueued again and again. `gen` numbers the envelopes made for it and
stands for their arguments; with one id a list is a count. A client
(`cpc`, `call`, `cur`, `staged`, `pipe`) goes through `enqueue_list`: HEXISTS
for each envelope whose id it has not staged (`Act`), HGET for the queue of a
job to be replaced (`ActFound`), a local decision for a staged one
(`ActStaged`), and one pipe per chunk (`Send`); `enqueue` and `enqueue_at` are
lists of one. A pipe is kept as its sum: the queues it removes the id from, the
envelopes it writes, and the last of these.

A task (`tpc`, `tenv`, `at`, `saved`) runs as in `JobLifecycle`, with the steps
of `JobProgressIterator` inside: read the cursor (`Iterate`), process an item
(`Process`), `update_state` as a read and a write (`ReadState`, `WriteState`).
The job's code is taken to pass on an error of `next()`. The retry and the
schedule loop are `mpc`, `mqueue`. There is one process, and neither crashes
nor Redis errors: those are the subject of `JobLifecycle`.

`clean` is history: it becomes false when the pipe of a client is overtaken
(`Overtaken`): the id was enqueued after HEXISTS denied it, or the job to be
replaced has changed its queue or is in the hands of a task or a loop.

### QueueControl and QueueConfig

`acquire` creates its `Notified` future (`Arm`), looks at the state under the
mutex (`Acquire` or `FindNoRoom`) and then sleeps (`Await`). `release` and
`apply_config` change the state under the mutex and call `notify_waiters` after
it, a step of its own. `notify_waiters` of tokio is external; it completes every
future that exists, whether it has been polled or not.

`QueueConfig` extends it: its `ApplyConfig` happens only with what the watcher
has read. There are two keys, a base and a child. An administrator's call (`apc`,
`call`, `seen`) reads and then writes the hash; the watcher (`wpc`, `base`)
reads the base's config and then the child's own. `Effective` is what a worker
makes of the hash, `FromMap` what the dashboard makes of it. `dynamic` decides
between `QueueConcurrency::Dynamic` and `Fixed`.

### Throttle

Time passes in ticks and the model keeps ages: `score` is the age of each entry
of the sorted set, `read` the age of the clock reading a call works with,
`since` (history) how long ago a job was dequeued. `state` is asked before the
LMOVE and again inside `consume`; the cost of a job is looked up in between;
the entry is written with the earlier reading. The key expires after the
window in whole seconds, and an EXPIRE of zero deletes it.

### Coordinator

`dpc` is the dispatcher, `chan` the job channel, `cpc` the coordinator's select
loop and shutdown, `bpc`, `bchan`, `bpend` the batchers with their channels and
what they have collected, `groups` the tasks that run one job or one batch:
built (`Build`), then its invalid jobs killed one by one, each giving its permit
up (`KillInvalid`), or all of them killed when a factory gives up, with the
permits kept until the last kill (`KillAll`); then started, run and settled.
A sender is refused exactly when its batcher has closed its channel; the
coordinator then spawns a new one and sends again. Single jobs are in the
coordinator's JoinSet and are aborted with it; batches, dispatchers and config
watchers are detached and report errors over a channel each (`batchError`,
`queueError`). An error of Redis below `redis_failure_tolerance` is passed over,
one that reaches it ends the dispatcher and with it the coordinator. An LMOVE
whose answer nobody reads, because the call failed or was cancelled, may have
been executed (`PopUnread`).

### Maintenance and Dashboard

Time is counted in units of the expiry age and lists are sequences. `pc`, `ids`
are calls of operators and of the schedule and retry loops; `claim` is the
renamed dead list of `revive_all_dead`; `scan` is cleanup, `cron` the loop of
each process, `drain` the drainer, which is the consumer. A cron id is its
occurrence. The order in which a loop takes the ids that are due is left open.
A behaviour uses the operations of one plan, which keeps the
instance within TLC's reach while every pair of operations that share keys
occurs together in some plan.

`Dashboard` adds visitors: a page is ids and then envelopes, `has_next` comes
from one job more than the page shows, and `find_job` is three reads. `stayed`,
`changed` and `gap` are history: which jobs stayed in the list since the first
page, whether what the view is about changed, and whether a page had an id
without an envelope.

### Reports and Statistics

`Reports` has no state: what a result adds, what a query over minutes returns,
and how rows, rates and gauges are put together. `Statistics` has the collector
(`chan`, `pc`, `buffer`, `pending`, `active`, `read`), the keys in Redis, and
flushes that go well, fail, or are applied and reported as failed. The count of
consecutive failures is that of the process: its other loops raise and reset it
too (`OtherLoop`). A query for the rows is a sequence of reads, as in
`build_queue_stats`: the KEYS of the lists, the hash `stats`, the samples, the
counters of the minutes, and LLEN of each queue without a fresh snapshot; flushes,
results and changes of the lists may come between any two of them, and any read
may fail. `inputs` is what it has read so far. The metrics page is one pipe; it is
read (`page`) together with the counters of the minutes, to compare the two. The
properties compare the views with what was recorded (`recorded`, `truth`).

### Registration

`Register` stands for each call of the builder, in any order; `Run` ends the
setup. Then forms enqueue, `Track` starts a dispatcher for each key a watcher
discovers, and `Receive` gives an envelope and its permit to a task of its own or
to the batch that is being collected for its queue and name. A task (`Process`)
goes through the loops of the code: `BuildNext` is one turn of
`job_batch_factory`, which appends to the built jobs or notes the index of an
invalid one; `KillNext` and `KeepNext` are one turn of `process_pending_batch`,
which takes envelopes and permits apart by these indexes, and where a kill may
fail; `RunTask` pairs the built jobs with the envelopes that are left, place by
place. Jobs, envelopes and permits are sequences of their own, so that they could
come out of step; a permit carries the number of the job it was acquired for. A
worker has any number of legacy names. Redis' glob is the constant `Matches`. The
factories are the ones the builder makes (`job_factory`, `job_batch_factory`); a
batch factory that gives up on a whole batch is in `Coordinator`.

## Runs

| Run | Shows |
|---|---|
| `job_steady` | either or both processes may crash for good. No two permits hold one job (`SingleExecution`), a settled job has no envelope and no id (`NothingLeftBehind`), retries are bounded, only processes that are down are emptied, and the whole implements `JobService`. Deadlock is not checked: both processes may be down |
| `job_disturbed` | every kind of disturbance of one process, three in all: a job is lost only by a process that carries it from one Redis key to another (`LostOnlyInTransit`) |
| `job_live` | after a crash, a graceful shutdown, or a crash during the shutdown of one process every job is settled by the other, or was lost in transit |
| `job_loss_by_crash` | finding: a crash between ZREM and LPUSH loses a scheduled job |
| `unique_orders` | no order of calls leaves an envelope without an id, on which Skip would refuse the job for ever (`NeverStranded`). As long as no write is overtaken the id is in one place (`UniqueUnlessOvertaken`), a retry resumes after items done for the same envelope, and what was written is run, killed or replaced |
| `queue_configs` | administrators, watcher and permits: exact counter, no lost wake-up, a waiter is served while there is room, the counter ends up with what the hash says, the dashboard agrees with the worker, and a change is lost only to a call that overlaps it |
| `throttled` | one dispatcher keeps to the limit, each further one adds at most the limit and one; every job is sent, or was dequeued by a call that failed |
| `coordinator` | a job in the processing list is in some hand, or was abandoned for a reason that is named; a shutdown that returns in time has settled all it took; no batch waits for ever; shutdown ends when the jobs do |
| `shutdown_timeout` | finding: a job that does not end keeps the coordinator from returning after the timeout |
| `maintenance` | no job disappears except by an operator, by a cleanup once it can be too old, or by a caller that failed half way; none is revived twice; each cron occurrence is enqueued, and runs once unless a process is late or an operator revives it; orphaned envelopes expire; pages of a queue or of the dead list hide no job that stays there, pages of a sorted set none while the set does not change |
| `statistics` | what was counted is in Redis or with a collector; queries see every kept minute once; rows, gauges, pages and totals agree although a query is torn by flushes and changes, the own list of a base key beside dynamic queues excepted; lengths shown become right; the collector ends |
| `registry` | the last registration under a name decides all its tables; aliases lead to workers; an envelope that is run is run with its own arguments by the worker behind its name, and jobs, envelopes and permits of a batch stay in step when invalid ones are taken out and kills fail; what the forms enqueue is run |

Bounds. Two processes suffice for every role (one that fails, one that looks
on), two permits for two copies of a job, two jobs for a plain and a scheduled
one, one of them not to be resurrected. One retry makes both the retried and
the killed failure happen. `DeadLimit` and `PopLimit` are 1 or 2 instead of 1000
and 10, so that trimming and a second LPOP happen. For a unique id two envelopes
make every race there is (one overtakes, one is overtaken), two queues a job
that moves, and chunks of one put a staged id in a later pipe; one task is
enough for the properties that are not proved for any number of tasks, since
they speak of clean histories, where one task at most has the id. One caller
and one permit in `queue_configs` leave room for two administrators; the
counter's safety is proved for any number of both. Three jobs in `coordinator`
make a batch of two, one of them invalid, around a job that runs by itself, and
two batchers one that closes while the next opens; the one Redis error may
strike a pop, a load, a start, a kill, an outcome or a watcher. Two jobs in
`registry` make batches of a valid and an invalid job in either order, with one
kill that fails. In `statistics` a base key has a list of its own beside a dynamic
queue. Five jobs and a window of two
ticks let a window fill, empty and fill again. Two occurrences, two cron loops
and a clock of two let a process come late; a page of one job makes two pages.
The budgets of `MCStatistics` and the plans of `MCMaintenance` list the
combinations of events a behaviour may have.

`SingleExecution`, `NothingLeftBehind` and `ImplementsService` are checked
without pauses: when a live process is taken for dead they fail by design, and
the documentation of `dead_process_threshold` says so.

Fairness: every task, loop and process that can take a step does so in the end.
tokio polls what is ready, Redis answers, and job code is assumed to return,
except in `shutdown_timeout`, where it is not. Clients, operators, visitors and
disturbances are never fair, and neither is the expiry of a live process's
heartbeat; the heartbeat of a process that is down does expire. In
`QueueControl` only the callers and the code that has left the mutex are fair: a
job may hold its permit for ever; in `QueueConfig` the reads and writes of a call
that has begun and the watcher are fair too. In `Coordinator` the send to a
batcher is strongly fair: a batcher just spawned has an open channel until its
batch times out, and cannot close before every send for ever. In `Statistics`
the receiver is strongly fair: `tokio::select!` picks among ready arms at random,
so the timers cannot always win against it. In `Registration` the watchers,
dispatchers and tasks together are fair. Runs that say `CHECK_DEADLOCK FALSE` end when the
envelopes, jobs or disturbances of the instance are used up.

## Proofs

TLAPS proves, for every value of the constants that satisfies the named
assumptions of the modules:

- `JobProofs!Typing`: `Spec => []TypeOK`. `TypeOK` is inductive: it
  says which variables are set in which state of a task or a loop, so that
  every read of a variable finds a value. One step per action; lemmas on the
  list commands (`ListTypes`, `LPopType`, `LPushTrimType`) carry the data.
- `JobProofs!LossOnlyInTransit`: `Spec => LostOnlyInTransit`, and
  `JobProofs!NothingLost`: `Spec => []NoJobLost` when no process may crash
  or see a call fail; pauses, stops, restarts and the resurrection of live
  processes are included. Both rest on `LossInv`, proved inductive: every id
  anywhere belongs to an accepted job, an accepted job that is not settled has
  its envelope, a task that found no envelope holds a settled job, and the
  resurrector carries ids only inside its inner loop. Without the second part a
  task could find no envelope and delete the id of a live job. `PlacedStep` then
  goes through the actions: each puts the id it takes into another place (a
  key, a task, a loop) or settles the job, except the crash of a process and
  the failed call, which drop what that process carries.
- `JobProofs!RunOnceAtATime`, `OutcomeFinal`, `RetriesAreBounded`,
  `OnlyDeadAreResurrected`: `SingleExecution`, `NothingLeftBehind`,
  `RetriesBounded` and `OnlyDeadResurrected` for any number of jobs, processes
  and permits, of a `Steady` system: one whose disturbances are crashes and
  stops, in any number. That is, pings come in time, no process comes back
  under the id of a dead one, and a call that is made is answered. Without
  these the properties fail by design (see *Behaviour to know of*), so the
  hypothesis is the deployment the code is written for and not a convenience.
  The four need each other, and `SafetyInv` is what is inductive: no process
  that runs is, or will be, in a resurrector's list of the dead (`Heartbeats`,
  over both scans of `dead_process_ids`), a process that is down runs nothing,
  every id is in one place, once, and in none when the job is settled, whoever
  has a job alone has it in its own processing list (`Apart`), and what a task
  knows of its envelope is what Redis holds (`EnvelopeKnown`), without which a
  late write could bring back an older retry count.
- `JobProofs!Implementation`: `Spec => ImplementsService` under `Steady`.
  The initial state maps to the abstract one, and each action is mapped on its
  own: starting, finishing, retrying and crashing change what `StatusOf` says of
  a job, everything else that moves ids between keys is a stutter, because the
  id is still somewhere and its holder has not changed.
- `QueueControlProofs!Typing`, `CounterExact`, `WakeupsKept`:
  `ActiveCountsPermits` and `NoLostWakeup` are inductive together with the types
  and the fact that a future that is armed while there is no room is completed
  by whoever makes room.
- `QueueControlProofs!ConfigImplementsControl`: `ConfigSpec => Spec`, the watcher
  and the administrators drive the counter only through `ApplyConfig`;
  `ControlSafeUnderConfig` carries the counter's safety over.
- `QueueControlProofs!ChangesKept` and `DashboardAgrees`:
  `ChangeLostOnlyByOverlap` and `DashboardShowsEffective` for any number of
  administrators. `ConfigInv` says that the hash holds only what could be asked
  for; the second theorem then compares `FromMap` and `Effective` field by field
  for every such hash.
- `CoordinatorProofs!NothingIsDropped` and `ShutdownIsClean`: `NothingVanishes`
  and `CleanShutdown` for any backlog, batch size, concurrency and number of
  batchers. `CoordinatorInv` adds who owes a job its outcome (`Owed`: a task that
  settles a batch owes only the rest of it) and that nobody can come to hold a
  job after the permits have been waited for (`Drained`).
- `UniqueJobsProofs!Typing` and `NobodyStranded`: `NeverStranded` is inductive
  with the types; a task lets go of the id only together with the envelope, or
  after it has found none.
- `UniqueJobsProofs!UniqueWhenClean`: `UniqueUnlessOvertaken`. `Lone` spells out
  that the kinds of places exclude each other; it needs `SameQueue`: whoever
  holds the id knows the queue its envelope names. Otherwise a replacement,
  which clears that queue, could miss the id.
- `UniqueJobsProofs!NothingPassedOver`: `ResumesWhereItStopped`. `ProgressInv`:
  while the history is clean, the envelope a task works with is the stored one,
  and the items before every cursor, in Redis or in memory, have been processed.
- `MaintenanceProofs!JobsAreKept`: `JobKept`, for any jobs, callers, processes
  and plans. `MaintenanceInv` says that an envelope has its id in some place or
  was cut off from it (`Followed`), that a job without an envelope is dead, still
  to be revived, or accounted for (`Held`), that a call of `revive_all_dead` holds
  only entries of the list it claimed, and that a cleanup has found nothing but
  expired envelopes (`ScanOK`).
- `MaintenanceProofs!NobodyRevivedTwice`: `RevivedOnce`. `OnceInv` adds that a
  client's job is in one place (`Apart`), once (`Unrepeated`), and in none before
  it is enqueued, unless a call was applied and reported as failed or died.
- `MaintenanceProofs!OccurrencesRunOnce`: `CronRunsOnce`. `CronInv` counts the
  executions an occurrence may still have: its copies in the queue, the callers
  that have taken it out of a sorted set and not pushed it (`Carriers`), the
  drainer if it holds it, and the executions it has had (`Left`), with its place
  in the schedule set, are at most one more than the times it was enqueued late.
  A step that pushes an occurrence takes it from one of these places. A process
  that is in time finds the envelope of the first one or writes into the
  schedule set, which holds an id once; that it then adds none needs that before
  its time no occurrence has left the set (`Counted`, `Timely`). Reviving is left
  out: an occurrence that failed, died and is revived runs again, as it should.
- `MaintenanceProofs!VisitorsMissNothing`: `DashboardSpec => []NothingHidden`, for
  any page size and any number of visitors. New entries come in at the end the
  pages start from, or at the far end, and no step takes one from before a job
  that stays, so the place of a job counted from the newest end never decreases
  (`Onward`, with one lemma for each way a list changes). `Reached` is inductive
  then: a job that stayed has been shown, is on the page that is being read, or
  is behind the pages read so far and the visitor has a link to the next. It
  rests on `OnceInv`: an id that is in a list twice has no one place. A sorted set
  loses jobs from the front, and is covered while it does not change. `ReadPage`
  is the arithmetic of `list_opts` and `has_next`.
- `MaintenanceProofs!VisitorsDisturbNothing`: `JobKept`, `RevivedOnce` and
  `CronRunsOnce` also of `DashboardSpec`, which is what the run checks: a visitor
  changes nothing the invariants speak of.
- `StatisticsProofs!CountsAreKept`, `WindowIsComplete`, `RowsAllAddUp`:
  `CountsKept`, `WindowComplete` and `RowsAddUp` for any queues (a base key may be
  static, dynamic or both), workers, results, processes, tolerance and number of
  minutes, with failed flushes, with flushes that were applied and reported as
  failed, and with anything between the reads of a query. `IInv` (`Inductive`) says
  that for each queue and each field Redis and the pending counters hold what
  was recorded and what was flushed twice (`Counts`), the same for each minute a
  query can still reach (`MinuteCounts`, which needs that the key of a minute
  outlives the longest query and that nothing is buffered for a minute to come),
  that a queue without results has nothing in any minute (`Untouched`), and what
  the reads of a query have to do with each other (`Reading`): the counters of the
  minutes are those of the page, and a queue that was missing in the hash when
  everything had been flushed is missing in the minutes too. The
  views then are sums of one table in different orders: `Sums!SumSwap` exchanges
  minutes with workers or queues, `Sums!SumGroups` puts dynamic queues under
  their parent.
- `Sums`: `SumFunction` of the community modules is a recursion over the subsets
  of its domain, in the order `CHOOSE` gives. That every order gives the same sum
  is proved by induction over finite sets; `SetInduction` states it for a family
  of sets instead of a predicate, which is what the provers can instantiate.
- `RegistrationProofs!TablesAgree` and `EachRunAsSent`: `RegistryConsistent` and
  `RunAsSent`, for any workers, names, legacy names, queues and order of calls, and
  batches of any size. `RegistrationInv` says of every task that there is a
  strictly increasing sequence of places (`Places`), one for each job built, such
  that the k-th job has the arguments of the envelope at the k-th place and, as the
  envelopes are sorted, the k-th one kept is the one at that place; that every
  place passed is one of these or invalid; that an envelope in a list waits and is
  in no other place (`ListsOK`); and that all envelopes of a task have one name
  (`TaskEnvelopesOK`), since the first one's name decides over the factories. Both
  need that nothing is sent before `run()` (`NotBeforeRun`), so that the registry
  that decides over an envelope is the final one.

The inductive invariants were model-checked before they were proved.

Assumptions on the constants are those of the modules: `None` is no value it
stands beside, bounds are natural numbers, the sets of jobs of `Coordinator` and
`Maintenance`, and the queues, workers and processes of `Statistics` are finite.
The default window is within the longest, and the keys of a minute are
kept for the longest window.
Clients' ids are no cron ids (`Job \cap Occurrence` is empty): the former are
uuids, the latter name and time.
`AppliedAssumption` says that `Config` of `QueueControl` contains what the watcher
can apply.

Only model-checked:

- liveness, since fairness and ENABLED are out of the prover's reach:
  `SurvivorsSettle`, `WrittenIsRun`, `ConfigReachesQueue`, `WaiterServed`,
  `EveryJobSent`, `HeldIsReleased`, `ShutdownEnds`, `CronEnqueued`,
  `OrphansExpire`, `LengthsSettle`, `CollectorEnds`, `FormsRun`;
- `WindowRespected` of `Throttle`: the excess of several dispatchers is an
  amortised count over a window that slides while the key expires, and the bound
  is that of the instance. It is not one for all constants: every call that fails
  after its LMOVE dequeues a job that is never recorded, and a window that is no
  multiple of a second outlives its key.

`TypeOK` of `Coordinator` is proved as a part of its invariant. `TypeOK` of
`Throttle`, `Maintenance`, `Registration` and `Statistics` documents the states;
for `Maintenance`, `Registration` and `Statistics` the proofs establish the types
they use.

## Behaviour to know of

Two findings are runs: a crash between two Redis keys loses a job, against
`oxana/README.md`, and the shutdown timeout does not bound the shutdown,
against `runtime.rs`. The models show, or modelling them showed, the following
as well; the properties name these cases as their exceptions.

- Two clients that both find a unique id absent both push it, and two instances
  run (`job_enqueue_action`, then a later pipe). A task that has loaded the old
  envelope writes it over a replacement when it starts (`set_started_at`), and
  `update_state` and `retry_in` do likewise. This is what `clean` excludes.
- A process dequeues before its first ping, and can be taken for dead at once; a
  process that restarts under the same host name and pid keeps the processing
  list of its predecessor from being resurrected as long as it lives.
- Cleanup goes by `created_at` alone: a revived, retried or scheduled job older
  than seven days loses its envelope. It deletes by id what it found in a scan.
- `restore_claimed_dead_entries` puts entries back without trimming. A drained
  id without an envelope stays in the processing list of the drainer.
  Deleting a job in the dashboard leaves its id in the queue.
- A page ends early when one of its ids has no envelope, pages of a sorted set
  skip jobs when earlier ones leave, and `find_job` misses a job that is killed
  between its reads.
- A key may be a queue of its own and the base of dynamic queues. Its row then has
  the counters of both, but the jobs and the rate of the dynamic queues only: the
  jobs in its own list are in no row and in no total (`Overshadowed`).
- The collector passes over a failed flush while it exits, and the counters are
  gone with its process; a flush that was applied and reported as failed is counted twice.
- A throttle window below a second never throttles, since its key expires at
  once; a throttled dispatcher sleeps up to twice the window.
- `set_queue_concurrency` on a child of a paused base stores it as active.
- Workers that come through the component registry go to `worker_with`: a cron
  worker brings no queue then, and its arguments are not tried with `{}`.
- The pattern of a dynamic queue also matches other queues that begin with its
  prefix, which get a second dispatcher without their own throttle.
- A failed read of the config of a new queue ends the process at once, unlike
  the failures `redis_failure_tolerance` speaks of; `cron_loop` ignores the
  errors of the loops it joins.

## Plan

1. A proof of `WindowRespected` for one dispatcher and calls that are answered,
   with a bound that names the window in whole seconds.
2. An abstract slot that `UniqueJobs` implements while it is clean.

## Not modelled

The derive macros generate code at compile time. `storage_builder.rs` builds a
connection pool. Templates, filters, sorting, the router and the text format of
the exporter turn values into text and keep nothing. Latencies, percentiles and
retry delays are numbers no other part depends on. Signal handling is a
cancelled token, and the wall clock is "may have passed" except where ages
matter (`Throttle`, `Maintenance`, `Statistics`).
