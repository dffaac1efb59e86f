---------------------------- MODULE Registration ----------------------------
(***************************************************************************)
(* What a process can run and serve: the calls of RuntimeBuilder that      *)
(* register queues and workers, the catalog the dashboard is given, its    *)
(* forms that enqueue cron and on-demand jobs, the queue watchers that     *)
(* start a dispatcher for each queue, and the construction of a job, or of *)
(* a batch, from its envelope.                                             *)
(*                                                                         *)
(* A worker is registered under the name of its job type; the name of the  *)
(* worker type is an alias, since older versions wrote it into envelopes.  *)
(* Arguments are abstract: a job type deserializes the ones it accepts.    *)
(* A permit is named after the job it was acquired for.  How permits are   *)
(* limited, batch sizes and Redis keys other than the lists are the        *)
(* subject of other modules: a batch is spawned whenever it holds a job.   *)
(***************************************************************************)
EXTENDS Integers, Sequences, FiniteSets, SequencesExt

CONSTANTS
    Name,          \* names of job types and of worker types
    Key,           \* queue keys
    Args,          \* arguments
    Empty,         \* the arguments {}
    None,
    WorkerConfig,  \* workers: [worker, name, legacy, accepts, cron, batch, onDemand]
    QueueConfig,   \* queues: [key, dynamic, limit]
    Matches,       \* Matches[prefix]: keys that Redis matches with "prefix*"
    MaxCalls,      \* bound on registrations
    MaxJobs,       \* bound on jobs enqueued
    MaxFaults      \* bound on failed calls to Redis

ASSUME KeysAssumption ==
    /\ Empty \in Args
    /\ Matches \in [Key -> SUBSET Key]
    /\ \A c \in QueueConfig : c.key \in Key /\ c.dynamic \in BOOLEAN
    /\ {MaxCalls, MaxJobs, MaxFaults} \subseteq Nat
ASSUME WorkersAssumption ==
    /\ None \notin WorkerConfig \cup [config : WorkerConfig, via : {"worker", "worker_with"}]
    /\ \A r \in WorkerConfig :
         /\ r.name \in Name
         /\ r.legacy \subseteq Name
         /\ r.accepts \subseteq Args
         /\ r.cron \in Key \cup {None}
         /\ {r.batch, r.onDemand} \subseteq BOOLEAN

VARIABLES
    phase,       \* "setup" until run(), then "running"
    \* WorkerRegistry and Config
    jobs,        \* name -> the worker registered for it
    aliases,     \* name -> name
    schedules,   \* name -> queue of a cron job
    onDemand,    \* names offered for on-demand enqueue
    queues,      \* set of queue configs
    \* the running process
    dispatchers, \* pairs <<queue config, key>> of run_queue_watcher's tracked queues
    list,        \* Redis: key -> sequence of jobs, as indexes of sent
    sent,        \* envelopes: [queue, name, args, by]
    tasks,       \* batches being collected, and jobs and batches being processed
    outcome,     \* for each envelope what became of it: [state, worker, args]
    faults,      \* calls to Redis that may still fail
    \* history and bound
    last,        \* name -> the last registration under it, and by which call
    explicit,    \* queue configs given by the user, the last one of each kind and key
    calls

registry == <<jobs, aliases, schedules, onDemand>>
running == <<dispatchers, list, sent, tasks, outcome, faults>>
vars == <<phase, registry, queues, running, last, explicit, calls>>

Init ==
    /\ phase = "setup"
    /\ jobs = [n \in Name |-> None]
    /\ aliases = [n \in Name |-> None]
    /\ schedules = [n \in Name |-> None]
    /\ onDemand = {}
    /\ queues = {}
    /\ dispatchers = {}
    /\ list = [k \in Key |-> <<>>]
    /\ sent = <<>>
    /\ tasks = {}
    /\ outcome = <<>>
    /\ faults = MaxFaults
    /\ last = [n \in Name |-> None]
    /\ explicit = {}
    /\ calls = MaxCalls

---------------------------------------------------------------------------
(* RuntimeBuilder: queues.  Two configs are equal when kind and key are.   *)

Setup ==
    /\ phase = "setup"
    /\ calls > 0
    /\ calls' = calls - 1

SameQueue(c, d) == c.key = d.key /\ c.dynamic = d.dynamic

Replace(S, c) == { d \in S : ~SameQueue(c, d) } \cup {c}

(* register_queue_with: the last one wins *)
RegisterQueue(c) ==
    /\ Setup
    /\ queues' = Replace(queues, c)
    /\ explicit' = Replace(explicit, c)
    /\ UNCHANGED <<phase, registry, running, last>>

(* what the queue of a cron worker declares of itself *)
DefaultQueue(key) == [key |-> key, dynamic |-> FALSE, limit |-> 1]

(* register_default_queue *)
WithDefaultQueue(S, key) ==
    IF \E d \in S : SameQueue(d, DefaultQueue(key)) THEN S ELSE S \cup {DefaultQueue(key)}

---------------------------------------------------------------------------
(* RuntimeBuilder: workers *)

(* register_legacy_name for each legacy name, on the tables js and as *)
WithAliases(js, as, name, legacy) ==
    [n \in Name |->
        IF n \in legacy /\ n /= name /\ js[n] = None /\ as[n] = None THEN name ELSE as[n]]

(* Mutant: a plain worker leaves the schedule of the cron worker it replaces. *)
RegisterWorkerWithScheduleKept(r, via) ==
    LET js == [jobs EXCEPT ![r.name] = r] IN
    /\ jobs' = js
    /\ aliases' = WithAliases(js, [aliases EXCEPT ![r.name] = None], r.name, r.legacy)
    /\ onDemand' = IF r.onDemand THEN onDemand \cup {r.name} ELSE onDemand \ {r.name}
    /\ schedules' = IF r.cron = None THEN schedules ELSE [schedules EXCEPT ![r.name] = r.cron]
    /\ last' = [last EXCEPT ![r.name] = [config |-> r, via |-> via]]

(* WorkerRegistry::register_worker_with *)
RegisterWorkerWith(r, via) ==
    LET js == [jobs EXCEPT ![r.name] = r] IN
    /\ jobs' = js
    /\ aliases' = WithAliases(js, [aliases EXCEPT ![r.name] = None], r.name, r.legacy)
    /\ onDemand' = IF r.onDemand THEN onDemand \cup {r.name} ELSE onDemand \ {r.name}
    /\ schedules' = [schedules EXCEPT ![r.name] = r.cron]
    /\ last' = [last EXCEPT ![r.name] = [config |-> r, via |-> via]]

(* job_factory: serde_json::from_value of the job type *)
Deserializes(r, args) == args \in r.accepts

(* worker::<W, A>(): the arguments of a cron job must be deserializable    *)
(* from {}, and its queue is registered                                    *)
Worker(r) ==
    /\ Setup
    /\ r.cron /= None => Deserializes(r, Empty)
    /\ queues' = IF r.cron = None THEN queues ELSE WithDefaultQueue(queues, r.cron)
    /\ RegisterWorkerWith(r, "worker")
    /\ UNCHANGED <<phase, running, explicit>>

(* worker_with(config), which a component registry uses: neither *)
WorkerWith(r) ==
    /\ Setup
    /\ RegisterWorkerWith(r, "worker_with")
    /\ UNCHANGED <<phase, queues, running, explicit>>

Run ==
    /\ phase = "setup"
    /\ phase' = "running"
    /\ calls' = 0
    /\ UNCHANGED <<registry, queues, running, last, explicit>>

---------------------------------------------------------------------------
(* The registry when it is asked *)

Resolve(name) ==
    IF jobs[name] /= None \/ aliases[name] = None THEN name ELSE aliases[name]

FactoriesFor(name) == jobs[Resolve(name)]

(* batch_config: jobs of this name are collected into batches *)
Batched(name) == IF FactoriesFor(name) = None THEN FALSE ELSE FactoriesFor(name).batch

(* build, and each element of build_batch *)
Buildable(e) == FactoriesFor(e.name) /= None /\ Deserializes(FactoriesFor(e.name), e.args)

---------------------------------------------------------------------------
(* The dashboard, given the catalog *)

StaticKeys == { c.key : c \in { d \in queues : ~d.dynamic } }

Outcome(state, worker, args) == [state |-> state, worker |-> worker, args |-> args]

Enqueue(e) ==
    /\ phase = "running"
    /\ Len(sent) < MaxJobs
    /\ sent' = Append(sent, e)
    /\ outcome' = Append(outcome, Outcome("waiting", None, None))
    /\ list' = [list EXCEPT ![e.queue] = Append(@, Len(sent) + 1)]
    /\ UNCHANGED <<phase, registry, queues, dispatchers, tasks, faults, last, explicit, calls>>

Envelope(queue, name, args, by) == [queue |-> queue, name |-> name, args |-> args, by |-> by]

(* OnDemandJobInfo::enqueue_envelope: arguments the job type accepts *)
OnDemandEnvelope(key, name, args) ==
    /\ name \in onDemand
    /\ Deserializes(jobs[name], args)
    /\ Enqueue(Envelope(key, name, args, "on_demand"))

(* Mutant: any queue of the catalog will do. *)
EnqueueOnDemandJobAnywhere(key, name, args) == OnDemandEnvelope(key, name, args)

(* enqueue_on_demand_job: a static queue, a job offered, and arguments its *)
(* type accepts; anything else is an error or a redirect                   *)
EnqueueOnDemandJob(key, name, args) ==
    /\ key \in StaticKeys
    /\ OnDemandEnvelope(key, name, args)

(* enqueue_cron_job: at once, with {} *)
EnqueueCronJob(name) ==
    /\ schedules[name] /= None
    /\ Enqueue(Envelope(schedules[name], name, Empty, "cron"))

(* enqueue_job, from the page of a job; or a client of another version *)
EnqueueJob(key, name, args) == Enqueue(Envelope(key, name, args, "other"))

---------------------------------------------------------------------------
(* The process *)

(* run_queue_watcher: a static queue, or the lists Redis matches with the  *)
(* prefix; each is tracked once                                            *)
AllQueues(c) == IF c.dynamic THEN { k \in Matches[c.key] : list[k] /= <<>> } ELSE {c.key}

Track(c) ==
    /\ phase = "running"
    /\ \E k \in AllQueues(c) :
         /\ <<c, k>> \notin dispatchers
         /\ dispatchers' = dispatchers \cup {<<c, k>>}
    /\ UNCHANGED <<phase, registry, queues, list, sent, tasks, outcome, faults, last, explicit, calls>>

Running == UNCHANGED <<phase, registry, queues, dispatchers, sent, last, explicit, calls>>

(* A task with the envelope and the permit of one pending job.             *)
NewTask(batcher, pc, i) ==
    [batcher |-> batcher, pc |-> pc, envelopes |-> <<i>>, permits |-> <<i>>, next |-> 1,
     jobs |-> <<>>, invalid |-> {}, kept |-> <<>>, keptPermits |-> <<>>]

Collecting(batcher) == { t \in tasks : t.pc = "collect" /\ t.batcher = batcher }

(* The dispatcher pops a job, and route_job gives it to a task of its own, *)
(* or to the batcher of its queue and name.                                *)
Receive(c, key) ==
    /\ <<c, key>> \in dispatchers
    /\ list[key] /= <<>>
    /\ LET i == Head(list[key])
           batcher == <<c, sent[i].queue, sent[i].name>>
       IN  /\ outcome' = [outcome EXCEPT ![i] = Outcome("taken", None, None)]
           /\ \/ /\ ~Batched(sent[i].name)
                 /\ tasks' = tasks \cup {NewTask(batcher, "build", i)}
              \/ /\ Batched(sent[i].name)
                 /\ Collecting(batcher) = {}
                 /\ tasks' = tasks \cup {NewTask(batcher, "collect", i)}
              \/ /\ Batched(sent[i].name)
                 /\ \E t \in Collecting(batcher) :
                      tasks' = (tasks \ {t}) \cup
                               {[t EXCEPT !.envelopes = Append(@, i), !.permits = Append(@, i)]}
    /\ list' = [list EXCEPT ![key] = Tail(@)]
    /\ UNCHANGED faults
    /\ Running

(* spawn_batch: enough jobs, or the batch's time is over *)
SpawnBatch(t) ==
    /\ t.pc = "collect"
    /\ tasks' = (tasks \ {t}) \cup {[t EXCEPT !.pc = "build"]}
    /\ UNCHANGED <<list, outcome, faults>>
    /\ Running

(* The name of the first envelope decides on the factories of all. *)
TaskFactories(t) == FactoriesFor(sent[Head(t.envelopes)].name)

BuildsNext(t) ==
    TaskFactories(t) /= None /\ Deserializes(TaskFactories(t), sent[t.envelopes[t.next]].args)

(* The next turn of the loop that builds, or the loop after it. *)
Turned(t) ==
    IF t.next = Len(t.envelopes) THEN [t EXCEPT !.pc = "sort", !.next = 1] ELSE [t EXCEPT !.next = @ + 1]

(* Mutant: an invalid job is known by its place among the valid ones. *)
BuildNextPlaceAmongValid(t) ==
    /\ t.pc = "build"
    /\ tasks' = (tasks \ {t}) \cup
         {IF BuildsNext(t)
          THEN [Turned(t) EXCEPT !.jobs = Append(@, sent[t.envelopes[t.next]].args)]
          ELSE [Turned(t) EXCEPT !.invalid = @ \cup {Len(t.jobs) + 1}]}
    /\ UNCHANGED <<list, outcome, faults>>
    /\ Running

(* build, or one turn of job_batch_factory: the arguments of a valid job   *)
(* join the jobs of the BoundJob or BoundBatchJob, an invalid one is known *)
(* by its index                                                            *)
BuildNext(t) ==
    /\ t.pc = "build"
    /\ tasks' = (tasks \ {t}) \cup
         {IF BuildsNext(t)
          THEN [Turned(t) EXCEPT !.jobs = Append(@, sent[t.envelopes[t.next]].args)]
          ELSE [Turned(t) EXCEPT !.invalid = @ \cup {t.next}]}
    /\ UNCHANGED <<list, outcome, faults>>
    /\ Running

(* An invalid job is killed and its permit dropped.  A kill that fails is  *)
(* logged, and the job stays in the processing list.                       *)
KillNext(t) ==
    /\ t.pc = "sort"
    /\ t.next \in t.invalid
    /\ tasks' = (tasks \ {t}) \cup {[t EXCEPT !.next = @ + 1]}
    /\ \/ /\ outcome' = [outcome EXCEPT ![t.envelopes[t.next]] = Outcome("killed", None, None)]
          /\ UNCHANGED faults
       \/ /\ faults > 0
          /\ faults' = faults - 1
          /\ outcome' = [outcome EXCEPT ![t.envelopes[t.next]] = Outcome("unkilled", None, None)]
    /\ UNCHANGED list
    /\ Running

KeepNext(t) ==
    /\ t.pc = "sort"
    /\ t.next <= Len(t.envelopes)
    /\ t.next \notin t.invalid
    /\ tasks' = (tasks \ {t}) \cup
         {[t EXCEPT !.next = @ + 1, !.kept = Append(@, t.envelopes[t.next]),
                    !.keptPermits = Append(@, t.permits[t.next])]}
    /\ UNCHANGED <<list, outcome, faults>>
    /\ Running

Sorted(t) == t.pc = "sort" /\ t.next = Len(t.envelopes) + 1

(* executor::run or run_batch, unless no job could be built: process()     *)
(* zips the built jobs with the contexts of the envelopes.  run_batch      *)
(* refuses jobs and envelopes of different numbers (executor.rs:100),      *)
(* which RunAsSent excludes.                                               *)
RunTask(t) ==
    /\ Sorted(t)
    /\ outcome' = [i \in DOMAIN outcome |->
                      IF \E k \in DOMAIN t.jobs \cap DOMAIN t.kept : t.kept[k] = i
                      THEN LET k == CHOOSE k \in DOMAIN t.jobs \cap DOMAIN t.kept : t.kept[k] = i
                           IN  Outcome("ran", TaskFactories(t).worker, t.jobs[k])
                      ELSE outcome[i]]
    /\ tasks' = tasks \ {t}
    /\ UNCHANGED <<list, faults>>
    /\ Running

Process(t) ==
    SpawnBatch(t) \/ BuildNext(t) \/ KillNext(t) \/ KeepNext(t) \/ RunTask(t)

---------------------------------------------------------------------------
Register ==
    \/ \E c \in QueueConfig : RegisterQueue(c)
    \/ \E r \in WorkerConfig : Worker(r) \/ WorkerWith(r)

Form ==
    \/ \E key \in Key, name \in Name, args \in Args :
         EnqueueOnDemandJob(key, name, args) \/ EnqueueJob(key, name, args)
    \/ \E name \in Name : EnqueueCronJob(name)

Serve ==
    \/ \E c \in queues : Track(c) \/ \E key \in Key : Receive(c, key)
    \/ \E t \in tasks : Process(t)

(* Nothing is left to do. *)
Idle ==
    /\ phase = "running"
    /\ Len(sent) = MaxJobs
    /\ UNCHANGED vars

Next == Register \/ Run \/ Form \/ Serve \/ Idle

Spec == Init /\ [][Next]_vars

(* The watchers look again, the dispatchers poll and the tasks are polled. *)
LiveSpec == Spec /\ WF_vars(Serve)

---------------------------------------------------------------------------
(* Whatever the order of registrations, the tables agree: the last worker  *)
(* under a name decides its construction, schedule and on-demand form, an  *)
(* alias never hides a registered name and always leads to one, and a      *)
(* queue the user registered keeps the user's last config.                 *)
RegistryConsistent ==
    /\ \A n \in Name :
         LET c == last[n].config IN
         IF last[n] = None
         THEN jobs[n] = None /\ schedules[n] = None /\ n \notin onDemand
         ELSE jobs[n] = c /\ schedules[n] = c.cron /\ (n \in onDemand <=> c.onDemand)
    /\ \A n \in Name : aliases[n] /= None => jobs[n] = None /\ jobs[aliases[n]] /= None
    /\ explicit \subseteq queues
    /\ \A c, d \in queues : SameQueue(c, d) => c = d

(* Every envelope a worker runs, alone or at any place of a batch, it runs *)
(* with the arguments of that envelope, and it is the worker behind its    *)
(* name: the jobs built, the envelopes and the permits that are left stay  *)
(* in step although the invalid ones are taken out one after the other,    *)
(* and their kills may fail.  Only what cannot be built is killed, and no  *)
(* envelope taken from a list leaves its task undecided.                   *)
RunAsSent ==
    /\ \A i \in DOMAIN sent :
         /\ outcome[i].state = "ran" =>
                /\ Buildable(sent[i])
                /\ outcome[i].worker = FactoriesFor(sent[i].name).worker
                /\ outcome[i].args = sent[i].args
         /\ outcome[i].state \in {"killed", "unkilled"} => ~Buildable(sent[i])
         /\ outcome[i].state = "taken" => \E t \in tasks : \E n \in DOMAIN t.envelopes : t.envelopes[n] = i
    /\ \A t \in tasks :
         Sorted(t) => Len(t.jobs) = Len(t.kept) /\ t.keptPermits = t.kept

(* What the dashboard's forms enqueue is run, not killed and not left in a *)
(* list nobody serves: the catalog offers only jobs the process can build  *)
(* and queues it serves.  A cron worker given to worker_with brings no     *)
(* queue with it, and its arguments are not tried with {}.                 *)
FormsRun ==
    \A i \in 1..MaxJobs :
        (i \in DOMAIN sent
           /\ \/ sent[i].by = "on_demand"
              \/ sent[i].by = "cron" /\ last[sent[i].name].via = "worker")
        ~> (i \in DOMAIN sent /\ outcome[i].state = "ran")

=============================================================================
