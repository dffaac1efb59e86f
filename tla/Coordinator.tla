---------------------------- MODULE Coordinator ----------------------------
(***************************************************************************)
(* One queue of one process, from the dispatcher to the result: the job    *)
(* channel, coordinator::run, the batchers it spawns, the tasks that run   *)
(* single jobs and batches, and the shutdown with its timeout.             *)
(*                                                                         *)
(* The steps of a single job inside Redis are JobLifecycle's; here it is   *)
(* in the processing list until it is settled (finished, sent to the retry *)
(* set or killed).  The tasks of single jobs belong to the coordinator's   *)
(* JoinSet and are aborted with it; batchers and batches are detached.     *)
(***************************************************************************)
EXTENDS Integers, Sequences, FiniteSets, Functions

CONSTANTS
    Job,          \* jobs
    Backlog,      \* the jobs of the queue, in the order they were enqueued
    Batched,      \* jobs of a worker with a WorkerBatchConfig, all of one BatchKey
    Invalid,      \* jobs whose arguments the registry cannot build
    Batcher,      \* bound: batchers alive at the same time
    None,
    Size,         \* WorkerBatchConfig::size
    Concurrency,  \* permits of the queue, and capacity of the job channel
    MaxErrors     \* bound: Redis errors in a behaviour

ASSUME JobsAssumption ==
    IsFiniteSet(Job) /\ Backlog \in Seq(Job) /\ Batched \subseteq Job /\ Invalid \subseteq Job
ASSUME NoneAssumption == None \notin Job \cup Batcher
ASSUME SizesAssumption ==
    Size \in Nat \ {0} /\ Concurrency \in Nat \ {0} /\ MaxErrors \in Nat

VARIABLES
    waiting, processing, settled,  \* Redis: queue, processing list; jobs done with
    dpc, djob,                     \* the dispatcher
    chan,                          \* job channel
    cpc, cjob,                     \* the coordinator
    current,                       \* batchers: the sender it keeps for the BatchKey
    bpc, bchan, bpend,             \* the batchers
    groups,                        \* tasks that run a job or a batch
    taskError,                     \* an Err in the JoinSet,
    batchError, queueError,        \* in batch_error_rx, in queue_task_error_rx
    cancelled, timedOut,           \* cancel_token, and shutdown_timeout reached
    left,                          \* history: jobs abandoned in the processing list
    errors                         \* errors left

lists == <<waiting, processing, settled>>
dispatcher == <<dpc, djob>>
coordinator == <<cpc, cjob, current>>
batchers == <<bpc, bchan, bpend>>
failing == <<taskError, batchError, queueError>>
ending == <<cancelled, timedOut>>
vars == <<lists, dispatcher, chan, coordinator, batchers, groups, failing, ending, left, errors>>

BatchPcs == {"unborn", "first", "fill", "flush"}
Group == [batch : BOOLEAN, pc : {"build", "kill", "reject", "start", "run", "settle", "report"},
          jobs : SUBSET Job, hold : SUBSET Job, todo : SUBSET Job]

TypeOK ==
    /\ waiting \in Seq(Job) /\ processing \subseteq Job /\ settled \subseteq Job /\ left \subseteq Job
    /\ dpc \in {"acquire", "pop", "late", "send", "stopped"} /\ djob \in Job \cup {None}
    /\ chan \in Seq(Job) /\ Len(chan) <= Concurrency
    /\ cpc \in {"select", "load", "route", "wait", "join", "ok", "err"} /\ cjob \in Job \cup {None}
    /\ current \in Batcher \cup {None}
    /\ bpc \in [Batcher -> BatchPcs]
    /\ bchan \in [Batcher -> Seq(Batched)]
    /\ bpend \in [Batcher -> SUBSET Batched]
    /\ \A b \in Batcher : Len(bchan[b]) <= 2 * Size /\ Cardinality(bpend[b]) < Size
    /\ groups \subseteq Group
    /\ {taskError, batchError, queueError, cancelled, timedOut} \subseteq BOOLEAN
    /\ errors \in 0..MaxErrors

Init ==
    /\ waiting = Backlog /\ processing = {} /\ settled = {}
    /\ dpc = "acquire" /\ djob = None
    /\ chan = <<>>
    /\ cpc = "select" /\ cjob = None /\ current = None
    /\ bpc = [b \in Batcher |-> "unborn"]
    /\ bchan = [b \in Batcher |-> <<>>]
    /\ bpend = [b \in Batcher |-> {}]
    /\ groups = {}
    /\ taskError = FALSE /\ batchError = FALSE /\ queueError = FALSE
    /\ cancelled = FALSE /\ timedOut = FALSE
    /\ left = {} /\ errors = MaxErrors

Returned == cpc \in {"ok", "err"}

RedisError == errors > 0 /\ errors' = errors - 1

(* Jobs that a task, a channel or the dispatcher's hand still holds, each  *)
(* with its permit.                                                        *)
InBatchers == UNION {Range(bchan[b]) \cup bpend[b] : b \in Batcher}
Held ==
    ({djob, cjob} \ {None}) \cup Range(chan) \cup InBatchers \cup UNION {g.hold : g \in groups}

(* QueueControlsMap::busy_count *)
Busy == Cardinality(Held) + (IF dpc \in {"pop", "late"} THEN 1 ELSE 0)

---------------------------------------------------------------------------
(* dispatcher::run *)

(* After cancellation acquire() may still win its select; the pop that     *)
(* begins then cannot win the next one, where cancelled() is ready at once *)
(* and Redis is not.                                                       *)
Acquire ==
    /\ dpc = "acquire"
    /\ Busy < Concurrency
    /\ dpc' = IF cancelled THEN "late" ELSE "pop"
    /\ UNCHANGED <<lists, djob, chan, coordinator, batchers, groups, failing, ending, left, errors>>

Pop ==
    /\ dpc = "pop"
    /\ \/ /\ waiting # <<>>
          /\ waiting' = Tail(waiting)
          /\ processing' = processing \cup {Head(waiting)}
          /\ dpc' = "send" /\ djob' = Head(waiting)
       \/ /\ waiting = <<>>
          /\ dpc' = "acquire"
          /\ UNCHANGED <<waiting, processing, djob>>
    /\ UNCHANGED <<settled, chan, coordinator, batchers, groups, failing, ending, left, errors>>

(* An LMOVE that nobody reads the answer of: not executed by Redis, or     *)
(* executed all the same.                                                  *)
PopUnread ==
    \/ UNCHANGED <<waiting, processing, left>>
    \/ /\ waiting # <<>>
       /\ waiting' = Tail(waiting)
       /\ processing' = processing \cup {Head(waiting)}
       /\ left' = left \cup {Head(waiting)}

(* track_redis_result: an error below redis_failure_tolerance is passed    *)
(* over; one that reaches it ends the dispatcher, and spawn_queue_task     *)
(* reports it to the coordinator.                                          *)
PopFails ==
    /\ dpc = "pop"
    /\ RedisError
    /\ PopUnread
    /\ \/ dpc' = "acquire" /\ UNCHANGED queueError
       \/ dpc' = "stopped" /\ queueError' = TRUE
    /\ UNCHANGED <<settled, djob, chan, coordinator, batchers, groups, taskError, batchError, ending>>

(* cancelled() wins a select, and the future of the pop is dropped. *)
StopDispatcher ==
    /\ cancelled
    /\ \/ dpc = "acquire" /\ UNCHANGED <<waiting, processing, left>>
       \/ dpc \in {"pop", "late"} /\ PopUnread
    /\ dpc' = "stopped"
    /\ UNCHANGED <<settled, djob, chan, coordinator, batchers, groups, failing, ending, errors>>

(* job_tx.send: waits for room, panics once the receiver is gone. *)
SendJob ==
    /\ dpc = "send"
    /\ \/ /\ ~Returned /\ Len(chan) < Concurrency
          /\ chan' = Append(chan, djob)
          /\ dpc' = "acquire"
          /\ UNCHANGED left
       \/ /\ Returned
          /\ left' = left \cup {djob}
          /\ dpc' = "stopped"
          /\ UNCHANGED chan
    /\ djob' = None
    /\ UNCHANGED <<lists, coordinator, batchers, groups, failing, ending, errors>>

Dispatch == Acquire \/ Pop \/ StopDispatcher \/ SendJob

(* run_queue_watcher, a task of the JoinSet, or the config watcher it      *)
(* spawned for the queue, ends with an error of Redis.                     *)
WatchFails ==
    /\ ~Returned
    /\ RedisError
    /\ \/ taskError' = TRUE /\ UNCHANGED queueError
       \/ queueError' = TRUE /\ UNCHANGED taskError
    /\ UNCHANGED <<lists, dispatcher, chan, coordinator, batchers, groups, batchError, ending, left>>

---------------------------------------------------------------------------
(* coordinator::run: the select loop *)

NewGroup(jobs, isBatch) ==
    [batch |-> isBatch, pc |-> "build", jobs |-> jobs, hold |-> jobs, todo |-> {}]

Receive ==
    /\ cpc = "select" /\ chan # <<>>
    /\ cpc' = "load" /\ cjob' = Head(chan)
    /\ chan' = Tail(chan)
    /\ UNCHANGED <<lists, dispatcher, current, batchers, groups, failing, ending, left, errors>>

(* load_pending_job; an error of get_job drops the job and its permit. *)
LoadPendingJob ==
    /\ cpc = "load"
    /\ \/ cpc' = "route" /\ UNCHANGED <<cjob, left, errors>>
       \/ /\ RedisError
          /\ cpc' = "select" /\ cjob' = None
          /\ left' = left \cup {cjob}
    /\ UNCHANGED <<lists, dispatcher, chan, current, batchers, groups, failing, ending>>

(* route_job of a worker without batches: joinset.spawn *)
SpawnJob ==
    /\ cpc = "route" /\ cjob \notin Batched
    /\ groups' = groups \cup {NewGroup({cjob}, FALSE)}
    /\ cpc' = "select" /\ cjob' = None
    /\ UNCHANGED <<lists, dispatcher, chan, current, batchers, failing, ending, left, errors>>

(* send_to_batcher: or_insert_with(spawn_batcher) *)
SpawnBatcher ==
    /\ cpc = "route" /\ cjob \in Batched
    /\ current = None
    /\ \E b \in Batcher :
         /\ bpc[b] = "unborn"
         /\ current' = b
         /\ bpc' = [bpc EXCEPT ![b] = "first"]
    /\ UNCHANGED <<lists, dispatcher, chan, cpc, cjob, bchan, bpend, groups, failing, ending, left, errors>>

(* A batcher that is flushing has closed its channel, one that is over has dropped it. *)
Open(b) == bpc[b] \in {"first", "fill"}

(* tx.send: waits for room. *)
SendToBatcher ==
    /\ cpc = "route" /\ cjob \in Batched /\ current # None
    /\ Open(current) /\ Len(bchan[current]) < 2 * Size
    /\ bchan' = [bchan EXCEPT ![current] = Append(@, cjob)]
    /\ cpc' = "select" /\ cjob' = None
    /\ UNCHANGED <<lists, dispatcher, chan, current, bpc, bpend, groups, failing, ending, left, errors>>

(* Mutant: the job is dropped with the sender that refused it. *)
SendRefusedOnce ==
    /\ cpc = "route" /\ cjob \in Batched /\ current # None
    /\ ~Open(current)
    /\ current' = None
    /\ cpc' = "select" /\ cjob' = None
    /\ UNCHANGED <<lists, dispatcher, chan, batchers, groups, failing, ending, left, errors>>

(* A closed channel gives the job back, and the loop spawns a new batcher. *)
SendRefused ==
    /\ cpc = "route" /\ cjob \in Batched /\ current # None
    /\ ~Open(current)
    /\ current' = None
    /\ UNCHANGED <<lists, dispatcher, chan, cpc, cjob, batchers, groups, failing, ending, left, errors>>

(* The function returns: the JoinSet is dropped and aborts its tasks, and  *)
(* the job channel is dropped with what is in it.                          *)
Return(result) ==
    /\ cpc' = result
    /\ groups' = {g \in groups : g.batch}
    /\ left' = left \cup Range(chan) \cup UNION {g.jobs : g \in {h \in groups : ~h.batch}}
    /\ chan' = <<>>
    /\ current' = None

(* task_result?? of a task, or an error of a batch, the dispatcher or the config watcher *)
ReturnError ==
    /\ \/ cpc \in {"select", "join"} /\ taskError
       \/ cpc = "select" /\ (batchError \/ queueError)
    /\ Return("err")
    /\ cancelled' = TRUE     \* launcher::run cancels the process
    /\ UNCHANGED <<lists, dispatcher, cjob, batchers, failing, timedOut, errors>>

(* The shutdown signal, or another task of launcher::run that ended. *)
Cancel ==
    /\ ~cancelled
    /\ cancelled' = TRUE
    /\ UNCHANGED <<lists, dispatcher, chan, coordinator, batchers, groups, failing, timedOut, left, errors>>

(* cancelled() wins the select, whatever the job channel holds. *)
Break ==
    /\ cpc = "select" /\ cancelled
    /\ cpc' = "wait"
    /\ current' = None      \* drop(batchers)
    /\ UNCHANGED <<lists, dispatcher, chan, cjob, batchers, groups, failing, ending, left, errors>>

(* Mutant: the permits are not waited for. *)
WaitForNothing ==
    /\ cpc = "wait"
    /\ cpc' = "join"
    /\ UNCHANGED <<lists, dispatcher, chan, cjob, current, batchers, groups, failing, ending, left, errors>>

(* wait_for_workers_to_finish *)
WaitForWorkers ==
    /\ cpc = "wait"
    /\ Busy = 0 \/ timedOut
    /\ cpc' = "join"
    /\ UNCHANGED <<lists, dispatcher, chan, cjob, current, batchers, groups, failing, ending, left, errors>>

Timeout ==
    /\ cpc = "wait" /\ ~timedOut
    /\ timedOut' = TRUE
    /\ UNCHANGED <<lists, dispatcher, chan, coordinator, batchers, groups, failing, cancelled, left, errors>>

(* Mutant: the job channel must be empty as well. *)
JoinDrained ==
    /\ cpc = "join" /\ ~taskError
    /\ groups = {} /\ \A b \in Batcher : bpc[b] = "unborn"
    /\ chan = <<>>
    /\ Return("ok")
    /\ UNCHANGED <<lists, dispatcher, cjob, batchers, failing, ending, errors>>

(* drop(result_tx), and the JoinSet is joined to its end: the result       *)
(* collector is part of it and ends when batchers and batches, which hold  *)
(* a sender each, are gone.                                                *)
Join ==
    /\ cpc = "join" /\ ~taskError
    /\ groups = {} /\ \A b \in Batcher : bpc[b] = "unborn"
    /\ Return("ok")
    /\ UNCHANGED <<lists, dispatcher, cjob, batchers, failing, ending, errors>>

Route == Receive \/ LoadPendingJob \/ SpawnJob \/ SpawnBatcher \/ SendToBatcher \/ SendRefused
Stop == ReturnError \/ Break \/ WaitForWorkers \/ Timeout \/ Join

---------------------------------------------------------------------------
(* run_batcher *)

(* spawn_batch of the pending jobs; next is what the batcher does then. *)
SpawnBatch(b, jobs, next) ==
    /\ groups' = IF jobs = {} THEN groups ELSE groups \cup {NewGroup(jobs, TRUE)}
    /\ bpend' = [bpend EXCEPT ![b] = {}]
    /\ bpc' = [bpc EXCEPT ![b] = next]

(* rx.recv() of a first job and of the ones that fill the batch *)
BatcherReceive(b) ==
    /\ Open(b) /\ bchan[b] # <<>>
    /\ bchan' = [bchan EXCEPT ![b] = Tail(@)]
    /\ LET jobs == bpend[b] \cup {Head(bchan[b])}
       IN  IF Cardinality(jobs) >= Size
           THEN SpawnBatch(b, jobs, "first")
           ELSE /\ bpend' = [bpend EXCEPT ![b] = jobs]
                /\ bpc' = [bpc EXCEPT ![b] = "fill"]
                /\ UNCHANGED groups
    /\ UNCHANGED <<lists, dispatcher, chan, coordinator, failing, ending, left, errors>>

(* Mutant: a batch that is not full waits for more. *)
BatchTimeoutIgnored(b) ==
    /\ bpc[b] = "fill"
    /\ Cardinality(bpend[b]) >= Size
    /\ SpawnBatch(b, bpend[b], "first")
    /\ UNCHANGED <<lists, dispatcher, chan, coordinator, bchan, failing, ending, left, errors>>

(* The timeout of a batch that is not full; a timeout of zero sends every  *)
(* job off by itself.                                                      *)
BatchTimeout(b) ==
    /\ bpc[b] = "fill"
    /\ SpawnBatch(b, bpend[b], "first")
    /\ UNCHANGED <<lists, dispatcher, chan, coordinator, bchan, failing, ending, left, errors>>

(* recv() returns None: the coordinator has dropped the sender. *)
BatcherDisconnected(b) ==
    /\ Open(b) /\ bchan[b] = <<>> /\ current # b
    /\ SpawnBatch(b, bpend[b], "unborn")
    /\ UNCHANGED <<lists, dispatcher, chan, coordinator, bchan, failing, ending, left, errors>>

(* cancelled() wins: flush_batcher closes the channel ... *)
BatcherCancelled(b) ==
    /\ Open(b) /\ cancelled
    /\ bpc' = [bpc EXCEPT ![b] = "flush"]
    /\ UNCHANGED <<lists, dispatcher, chan, coordinator, bchan, bpend, groups, failing, ending, left, errors>>

(* ... and drains what it still holds, in batches. *)
FlushBatcher(b) ==
    /\ bpc[b] = "flush"
    /\ \/ /\ bchan[b] # <<>>
          /\ bchan' = [bchan EXCEPT ![b] = Tail(@)]
          /\ LET jobs == bpend[b] \cup {Head(bchan[b])}
             IN  IF Cardinality(jobs) >= Size
                 THEN SpawnBatch(b, jobs, "flush")
                 ELSE bpend' = [bpend EXCEPT ![b] = jobs] /\ UNCHANGED <<bpc, groups>>
       \/ /\ bchan[b] = <<>>
          /\ SpawnBatch(b, bpend[b], "unborn")
          /\ UNCHANGED bchan
    /\ UNCHANGED <<lists, dispatcher, chan, coordinator, failing, ending, left, errors>>

Batch(b) ==
    \/ BatcherReceive(b) \/ BatchTimeout(b) \/ BatcherDisconnected(b)
    \/ BatcherCancelled(b) \/ FlushBatcher(b)

---------------------------------------------------------------------------
(* process_pending_job and process_pending_batch *)

Become(g, h) == groups' = (groups \ {g}) \cup {h}

(* finish_with_success(_batch), retry and kill: an error there is logged,  *)
(* and the jobs stay in the processing list.                               *)
Settle(jobs) ==
    \/ /\ processing' = processing \ jobs
       /\ settled' = settled \cup jobs
       /\ UNCHANGED <<left, errors>>
    \/ /\ RedisError
       /\ left' = left \cup jobs
       /\ UNCHANGED <<processing, settled>>

(* registry.build and build_batch: a batch factory names the jobs it       *)
(* cannot build, or gives up on the whole batch.                           *)
Build(g) ==
    /\ g.pc = "build"
    /\ \/ /\ g.batch \/ g.jobs \cap Invalid = {}
          /\ Become(g, [g EXCEPT !.pc = "kill", !.todo = g.jobs \cap Invalid])
       \/ /\ g.batch \/ g.jobs \cap Invalid # {}
          /\ Become(g, [g EXCEPT !.pc = "reject", !.todo = g.jobs])
    /\ UNCHANGED <<lists, dispatcher, chan, coordinator, batchers, failing, ending, left, errors>>

(* The invalid jobs of a batch are killed one by one, each giving its      *)
(* permit up; without any other job the task is over.                      *)
KillInvalid(g) ==
    /\ g.pc = "kill"
    /\ \/ \E j \in g.todo :
            /\ Settle({j})
            /\ Become(g, [g EXCEPT !.todo = @ \ {j}, !.jobs = @ \ {j}, !.hold = @ \ {j}])
       \/ /\ g.todo = {}
          /\ IF g.jobs = {} THEN groups' = groups \ {g} ELSE Become(g, [g EXCEPT !.pc = "start"])
          /\ UNCHANGED <<processing, settled, left, errors>>
    /\ UNCHANGED <<waiting, dispatcher, chan, coordinator, batchers, failing, ending>>

(* An invalid job, or a batch that could not be built: its jobs are killed *)
(* one by one, and the permits go with the task.                           *)
KillAll(g) ==
    /\ g.pc = "reject"
    /\ \/ \E j \in g.todo : Settle({j}) /\ Become(g, [g EXCEPT !.todo = @ \ {j}])
       \/ /\ g.todo = {}
          /\ groups' = groups \ {g}
          /\ UNCHANGED <<processing, settled, left, errors>>
    /\ UNCHANGED <<waiting, dispatcher, chan, coordinator, batchers, failing, ending>>

(* set_started_at and set_started_at_batch *)
Start(g) ==
    /\ g.pc = "start"
    /\ Become(g, [g EXCEPT !.pc = "run"])
    /\ UNCHANGED <<lists, dispatcher, chan, coordinator, batchers, failing, ending, left, errors>>

(* An error there leaves executor::run, and the task with it. *)
StartFails(g) ==
    /\ g.pc = "start"
    /\ RedisError
    /\ groups' = groups \ {g}
    /\ left' = left \cup g.jobs
    /\ IF g.batch THEN batchError' = TRUE /\ UNCHANGED taskError
                  ELSE taskError' = TRUE /\ UNCHANGED batchError
    /\ UNCHANGED <<lists, dispatcher, chan, coordinator, batchers, queueError, ending>>

(* run_process returns, and finish_with_success(_batch) is one pipe. *)
Succeed(g) ==
    /\ g.pc = "run"
    /\ Settle(g.jobs)
    /\ Become(g, [g EXCEPT !.pc = "report", !.hold = {}])
    /\ UNCHANGED <<waiting, dispatcher, chan, coordinator, batchers, failing, ending>>

(* An error or a panic: every job of the batch is handled by itself. *)
Fail(g) ==
    /\ g.pc = "run"
    /\ Become(g, [g EXCEPT !.pc = "settle", !.todo = g.jobs])
    /\ UNCHANGED <<lists, dispatcher, chan, coordinator, batchers, failing, ending, left, errors>>

(* handle_err: retried or killed *)
HandleErr(g) ==
    /\ g.pc = "settle"
    /\ \/ \E j \in g.todo : Settle({j}) /\ Become(g, [g EXCEPT !.todo = @ \ {j}])
       \/ /\ g.todo = {}
          /\ Become(g, [g EXCEPT !.pc = "report", !.hold = {}])
          /\ UNCHANGED <<processing, settled, left, errors>>
    /\ UNCHANGED <<waiting, dispatcher, chan, coordinator, batchers, failing, ending>>

(* drop(permits), then process_result *)
ProcessResult(g) ==
    /\ g.pc = "report"
    /\ groups' = groups \ {g}
    /\ UNCHANGED <<lists, dispatcher, chan, coordinator, batchers, failing, ending, left, errors>>

(* What a task does by itself, apart from the worker's own code. *)
Execute(g) == Build(g) \/ KillInvalid(g) \/ KillAll(g) \/ Start(g) \/ HandleErr(g) \/ ProcessResult(g)
Work(g) == Succeed(g) \/ Fail(g)

Next ==
    \/ Dispatch \/ PopFails \/ WatchFails \/ Route \/ Stop \/ Cancel
    \/ \E b \in Batcher : Batch(b)
    \/ \E g \in groups : Execute(g) \/ Work(g) \/ StartFails(g)

Spec == Init /\ [][Next]_vars

(* Tasks are scheduled, Redis answers, a batch that is not full times out  *)
(* and cancellation is noticed; a job may run for ever.  A send that goes  *)
(* straight to a batcher just spawned cannot lose to its closing for ever. *)
FairTasks ==
    /\ WF_vars(Dispatch)
    /\ WF_vars(Route \/ Stop) /\ SF_vars(SendToBatcher)
    /\ \A b \in Batcher : WF_vars(Batch(b))
    /\ WF_vars(\E g \in groups : Execute(g))

LiveSpec == Spec /\ FairTasks /\ WF_vars(\E g \in groups : Work(g))
StuckSpec == Spec /\ FairTasks

---------------------------------------------------------------------------
(* Properties *)

(* A job in the processing list is in the hands of the dispatcher, the     *)
(* coordinator, a batcher or a task, unless it was abandoned by a Redis    *)
(* error, by an LMOVE whose pop was cancelled, or with the coordinator: a  *)
(* batcher that closes or ends keeps none (send_to_batcher,                *)
(* flush_batcher), and a failed batch settles every job.                   *)
NothingVanishes == processing \ Held \subseteq left

(* coordinator::run that returns Ok without having run into the timeout    *)
(* has settled every job it has taken, the ones a cancelled pop or a Redis *)
(* error abandoned excepted, however cancellation, batches and the job     *)
(* channel interleave.                                                     *)
CleanShutdown ==
    [][cpc # "ok" /\ cpc' = "ok" /\ ~timedOut => left' = left /\ Held' = {}]_vars

(* No job stays in the process for ever: a batch that never fills times    *)
(* out, a batcher that closes sends its jobs off or back.                  *)
HeldIsReleased == <>[](Held = {})

(* Cancellation ends the coordinator once the jobs that run come to an end. *)
ShutdownEnds == cancelled ~> Returned

(* What runtime.rs says of shutdown_timeout, "the maximum time to wait for *)
(* in-flight workers": once it is reached the coordinator returns, though  *)
(* a job never ends.                                                       *)
TimeoutEndsShutdown == timedOut ~> Returned

=============================================================================
