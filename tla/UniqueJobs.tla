----------------------------- MODULE UniqueJobs -----------------------------
(***************************************************************************)
(* The life of one unique job id in oxana: clients that enqueue it over    *)
(* and over, with the conflict strategies Skip and Replace, while the      *)
(* tasks of a process run it, retry it and save its progress.              *)
(*                                                                         *)
(* Every call makes a new envelope with the same id; gen, the number of    *)
(* the envelope, stands for its arguments.  A Redis round trip is a step   *)
(* and a pipe is one, as in JobLifecycle.  With a single id, a list is the *)
(* number of times the id is in it.  Neither crashes nor Redis errors      *)
(* happen here: what is studied is the order of calls that all succeed.    *)
(***************************************************************************)
EXTENDS Integers

CONSTANTS
    Client,      \* callers of Storage::enqueue, enqueue_in, enqueue_list
    Task,        \* permits: tasks of the process that may run the job
    Queue,       \* queue keys
    None,        \* nil of an Option, and a missing hash field
    Strategy,    \* conflict strategies in use: "skip", "replace"
    MaxGen,      \* bound: envelopes made in a behaviour
    MaxList,     \* bound: jobs in one enqueue_list
    ChunkSize,   \* ENQUEUE_LIST_CHUNK_SIZE (100)
    MaxRetries,  \* worker.max_retries
    Items,       \* items a job iterates over with iter_with_progress
    Resume       \* Job::should_resume

ASSUME NumbersAssumption ==
    MaxGen \in Nat /\ MaxList \in Nat \ {0} /\ ChunkSize \in Nat \ {0} /\ MaxRetries \in Nat /\ Items \in Nat
ASSUME StrategyAssumption == Strategy \subseteq {"skip", "replace"} /\ Resume \in BOOLEAN

Gen == 1..MaxGen
ZSet == {"schedule", "retry"}

(* JobEnvelope; cursor is the progress in meta.state, 0 when there is none. *)
Envelope == [gen : Gen, queue : Queue, retries : Nat, cursor : 0..Items]

VARIABLES
    \* Redis
    jobs,        \* hash field of the id
    queue,       \* per queue: how often the id is in its list
    processing,  \* how often the id is in the processing list
    zset,        \* the sorted sets the id is a member of
    dead,        \* envelopes pushed to the dead list
    \* clients
    cpc, call,   \* step of enqueue_list, and the call: its queue, strategy, ...
    cur,         \* the envelope that is looked at
    staged,      \* staged_unique_queues of the id
    pipe,        \* the commands put in the pipe so far, see Command
    \* tasks and loops
    tpc, tenv,   \* step of a task, and its copy of the envelope
    at,          \* items its iterator has passed
    saved,       \* envelope update_state has read
    mpc, mqueue, \* claim_and_enqueue_scheduled_job_ids of each loop
    \* history
    made,        \* number of envelopes made
    sent,        \* envelopes written to Redis
    over,        \* envelopes replaced, finished or killed
    done,        \* items processed by runs of each envelope
    clean        \* no write of a client has been overtaken, see Overtaken

redis == <<jobs, queue, processing, zset, dead>>
clients == <<cpc, call, cur, staged, pipe>>
tasks == <<tpc, tenv, at, saved>>
movers == <<mpc, mqueue>>
history == <<sent, over, done, clean>>
vars == <<redis, clients, tasks, movers, made, history>>

(* What a pipe does to the id: the envelopes written and the last of them, *)
(* and the queues the id is removed from; from the sorted sets too, unless *)
(* these are none.                                                         *)
Command == [gens : SUBSET Gen, last : Gen, wipe : SUBSET Queue]

Call == [queue : Queue, strategy : Strategy, to : {"queue", "schedule"}, first : Gen, last : Gen]

ASSUME NoneAssumption == None \notin Envelope \cup Queue \cup Command \cup Call

Init ==
    /\ jobs = None
    /\ queue = [q \in Queue |-> 0]
    /\ processing = 0
    /\ zset = {}
    /\ dead = {}
    /\ cpc = [c \in Client |-> "idle"]
    /\ call = [c \in Client |-> None]
    /\ cur = [c \in Client |-> 0]
    /\ staged = [c \in Client |-> None]
    /\ pipe = [c \in Client |-> None]
    /\ tpc = [t \in Task |-> "free"]
    /\ tenv = [t \in Task |-> None]
    /\ at = [t \in Task |-> 0]
    /\ saved = [t \in Task |-> None]
    /\ mpc = [z \in ZSet |-> "idle"]
    /\ mqueue = [z \in ZSet |-> None]
    /\ made = 0
    /\ sent = {}
    /\ over = {}
    /\ done = [g \in Gen |-> {}]
    /\ clean = TRUE

---------------------------------------------------------------------------
(* Clients.  enqueue and enqueue_at are the case of one envelope.  All     *)
(* envelopes of an enqueue_list go to one queue, at once.                  *)

Begin(c, q, s, to, n) ==
    /\ cpc[c] = "idle"
    /\ made + n <= MaxGen
    /\ to = "schedule" => n = 1
    /\ made' = made + n
    /\ call' = [call EXCEPT ![c] =
                  [queue |-> q, strategy |-> s, to |-> to, first |-> made + 1, last |-> made + n]]
    /\ cur' = [cur EXCEPT ![c] = made + 1]
    /\ staged' = [staged EXCEPT ![c] = None]
    /\ cpc' = [cpc EXCEPT ![c] = "asking"]
    /\ UNCHANGED <<redis, pipe, tasks, movers, history>>

(* The place of the envelope in its chunk is the last one. *)
ChunkEnds(c) ==
    \/ cur[c] = call[c].last
    \/ (cur[c] - call[c].first + 1) % ChunkSize = 0

(* The next envelope, or the end of the call *)
Proceed(c) ==
    LET ends == cur[c] = call[c].last
    IN /\ cpc' = [cpc EXCEPT ![c] = IF ends THEN "idle" ELSE "asking"]
       /\ cur' = [cur EXCEPT ![c] = IF ends THEN 0 ELSE @ + 1]
       /\ call' = [call EXCEPT ![c] = IF ends THEN None ELSE @]

(* After the decision on an envelope: the next one, or the pipe is sent,   *)
(* unless it is empty (has_writes).                                        *)
Advance(c, p) ==
    /\ pipe' = [pipe EXCEPT ![c] = p]
    /\ IF ChunkEnds(c) /\ p /= None
         THEN cpc' = [cpc EXCEPT ![c] = "sending"] /\ UNCHANGED <<cur, call>>
         ELSE Proceed(c)

(* JobEnqueueAction::Skip *)
Skip(c) == Advance(c, pipe[c]) /\ UNCHANGED staged

(* JobEnqueueAction::Default with old = {}, or Replace of a job in the     *)
(* queue old.  What a pipe does to the id is the sum of its commands:      *)
(* each removes what is in the queues it knows of, the earlier ones' own   *)
(* pushes included, and the last one's envelope is the one stored.         *)
Write(c, old) ==
    LET before == IF pipe[c] = None THEN [gens |-> {}, wipe |-> {}] ELSE pipe[c]
    IN /\ Advance(c, [gens |-> before.gens \cup {cur[c]},
                      last |-> cur[c],
                      wipe |-> before.wipe \cup (IF old = {} THEN {} ELSE old \cup {call[c].queue})])
       /\ staged' = [staged EXCEPT ![c] = call[c].queue]

(* enqueue_list_action of an id that is in the pipe, or was in an earlier one *)
ActStaged(c) ==
    /\ cpc[c] = "asking"
    /\ staged[c] /= None
    /\ \/ call[c].strategy = "skip" /\ Skip(c)
       \/ call[c].strategy = "replace" /\ Write(c, {staged[c]})
    /\ UNCHANGED <<redis, tasks, movers, made, history>>

(* job_enqueue_action: HEXISTS *)
Act(c) ==
    /\ cpc[c] = "asking"
    /\ staged[c] = None
    /\ \/ jobs = None /\ Write(c, {})
       \/ jobs /= None /\ call[c].strategy = "skip" /\ Skip(c)
       \/ /\ jobs /= None
          /\ call[c].strategy = "replace"
          /\ cpc' = [cpc EXCEPT ![c] = "found"]
          /\ UNCHANGED <<call, cur, staged, pipe>>
    /\ UNCHANGED <<redis, tasks, movers, made, history>>

(* job_enqueue_action: HGET, for the queue of the existing job *)
ActFound(c) ==
    /\ cpc[c] = "found"
    /\ Write(c, IF jobs = None THEN {} ELSE {jobs.queue})
    /\ UNCHANGED <<redis, tasks, movers, made, history>>

(* Mutant: the state of the job that is replaced is taken over. *)
FreshKeeping(c, g) ==
    [gen |-> g, queue |-> call[c].queue, retries |-> 0, cursor |-> IF jobs = None THEN 0 ELSE jobs.cursor]

(* JobEnvelope::new *)
Fresh(c, g) == [gen |-> g, queue |-> call[c].queue, retries |-> 0, cursor |-> 0]

InHand == {"popped", "missing", "loaded", "running", "working", "processed", "saving", "failed",
           "released", "retrying"}
Held == (\E t \in Task : tpc[t] \in InHand) \/ (\E z \in ZSet : mpc[z] /= "idle")

(* The writes of client c no longer fit what they were decided on: the id  *)
(* was enqueued after HEXISTS denied it, the job to be replaced has moved  *)
(* to another queue, or it is in the hands of a task or a loop, where      *)
(* append_replace does not reach it.                                       *)
Overtaken(c) == jobs /= None /\ (Held \/ jobs.queue \notin pipe[c].wipe)

(* push_to_destination *)
PushTo(c, lists, sets) ==
    /\ queue' = [lists EXCEPT ![call[c].queue] = IF call[c].to = "queue" THEN @ + 1 ELSE @]
    /\ zset' = IF call[c].to = "queue" THEN sets ELSE sets \cup {"schedule"}

(* Mutant: the retry entry of the replaced job stays. *)
SendKeepingRetry(c) ==
    /\ cpc[c] = "sending"
    /\ jobs' = Fresh(c, pipe[c].last)
    /\ PushTo(c, [q \in Queue |-> IF q \in pipe[c].wipe THEN 0 ELSE queue[q]],
              IF pipe[c].wipe = {} THEN zset ELSE zset \ {"schedule"})
    /\ pipe' = [pipe EXCEPT ![c] = None]
    /\ Proceed(c)
    /\ sent' = sent \cup pipe[c].gens
    /\ over' = over \cup ((sent \cup pipe[c].gens) \ {pipe[c].last})
    /\ clean' = (clean /\ ~Overtaken(c))
    /\ UNCHANGED <<processing, dead, staged, tasks, movers, made, done>>

(* The pipe of append_enqueue and append_replace *)
Send(c) ==
    /\ cpc[c] = "sending"
    /\ jobs' = Fresh(c, pipe[c].last)
    /\ PushTo(c, [q \in Queue |-> IF q \in pipe[c].wipe THEN 0 ELSE queue[q]],
              IF pipe[c].wipe = {} THEN zset ELSE {})
    /\ pipe' = [pipe EXCEPT ![c] = None]
    /\ Proceed(c)
    /\ sent' = sent \cup pipe[c].gens
    /\ over' = over \cup ((sent \cup pipe[c].gens) \ {pipe[c].last})
    /\ clean' = (clean /\ ~Overtaken(c))
    /\ UNCHANGED <<processing, dead, staged, tasks, movers, made, done>>

---------------------------------------------------------------------------
(* A task: from the LMOVE of the dispatcher to the end of executor::run *)

To(t, state) == tpc' = [tpc EXCEPT ![t] = state]

(* The task ends and its permit is free. *)
End(t) ==
    /\ To(t, "free")
    /\ tenv' = [tenv EXCEPT ![t] = None]
    /\ at' = [at EXCEPT ![t] = 0]

(* LREM of one occurrence in the processing list *)
LRemOne == processing' = IF processing > 0 THEN processing - 1 ELSE 0

Dequeue(t, q) ==
    /\ tpc[t] = "free" /\ queue[q] > 0
    /\ queue' = [queue EXCEPT ![q] = @ - 1]
    /\ processing' = processing + 1
    /\ To(t, "popped")
    /\ UNCHANGED <<jobs, zset, dead, clients, tenv, at, saved, movers, made, history>>

(* load_pending_job *)
Load(t) ==
    /\ tpc[t] = "popped"
    /\ tenv' = [tenv EXCEPT ![t] = jobs]
    /\ To(t, IF jobs = None THEN "missing" ELSE "loaded")
    /\ UNCHANGED <<redis, clients, at, saved, movers, made, history>>

DeleteMissing(t) ==
    /\ tpc[t] = "missing"
    /\ jobs' = None
    /\ LRemOne
    /\ End(t)
    /\ UNCHANGED <<queue, zset, dead, clients, saved, movers, made, history>>

(* executor::run: set_started_at writes the task's copy of the envelope *)
Start(t) ==
    /\ tpc[t] = "loaded"
    /\ LET e == [tenv[t] EXCEPT !.cursor = IF Resume THEN @ ELSE 0]
       IN tenv' = [tenv EXCEPT ![t] = e] /\ jobs' = e
    /\ To(t, "running")
    /\ UNCHANGED <<queue, processing, zset, dead, clients, at, saved, movers, made, history>>

(* JobProgressIterator::new reads the progress anew *)
Iterate(t) ==
    /\ tpc[t] = "running"
    /\ at' = [at EXCEPT ![t] = IF jobs = None THEN 0 ELSE jobs.cursor]
    /\ To(t, "working")
    /\ UNCHANGED <<redis, clients, tenv, saved, movers, made, history>>

(* Mutant: the iterator goes past its end. *)
ProcessPastEnd(t) ==
    /\ tpc[t] = "working" /\ at[t] <= Items
    /\ done' = [done EXCEPT ![tenv[t].gen] = @ \cup {at[t] + 1}]
    /\ To(t, "processed")
    /\ UNCHANGED <<redis, clients, tenv, at, saved, movers, made, sent, over, clean>>

(* The job's own code on the item next() has returned *)
Process(t) ==
    /\ tpc[t] = "working" /\ at[t] < Items
    /\ done' = [done EXCEPT ![tenv[t].gen] = @ \cup {at[t] + 1}]
    /\ To(t, "processed")
    /\ UNCHANGED <<redis, clients, tenv, at, saved, movers, made, sent, over, clean>>

(* next(): mark_current_completed, which reads the envelope (update_state) ... *)
ReadState(t) ==
    /\ tpc[t] = "processed"
    /\ \/ jobs = None /\ To(t, "failed") /\ UNCHANGED saved     \* JobNotFound
       \/ jobs /= None /\ To(t, "saving") /\ saved' = [saved EXCEPT ![t] = jobs]
    /\ UNCHANGED <<redis, clients, tenv, at, movers, made, history>>

(* ... and writes it back with the new progress *)
WriteState(t) ==
    /\ tpc[t] = "saving"
    /\ jobs' = [saved[t] EXCEPT !.cursor = at[t] + 1]
    /\ at' = [at EXCEPT ![t] = @ + 1]
    /\ saved' = [saved EXCEPT ![t] = None]
    /\ To(t, "working")
    /\ UNCHANGED <<queue, processing, zset, dead, clients, tenv, movers, made, history>>

(* Mutant: the envelope is not deleted. *)
SucceedKeeping(t) ==
    /\ tpc[t] = "working" /\ at[t] = Items
    /\ LRemOne
    /\ over' = over \cup {tenv[t].gen}
    /\ End(t)
    /\ UNCHANGED <<jobs, queue, zset, dead, clients, saved, movers, made, sent, done, clean>>

(* finish_with_success, when the iterator is at its end *)
Succeed(t) ==
    /\ tpc[t] = "working" /\ at[t] = Items
    /\ jobs' = None
    /\ LRemOne
    /\ over' = over \cup {tenv[t].gen}
    /\ End(t)
    /\ UNCHANGED <<queue, zset, dead, clients, saved, movers, made, sent, done, clean>>

(* The job returns an error or panics, at any item, or update_state did. *)
Failing(t) == tpc[t] \in {"running", "working", "processed", "failed"}

(* Mutant: the failed job is deleted and its retry fails to find it. *)
ReleaseDeleting(t) ==
    /\ Failing(t) /\ tenv[t].retries < MaxRetries
    /\ jobs' = None
    /\ LRemOne
    /\ To(t, "released")
    /\ UNCHANGED <<queue, zset, dead, clients, tenv, at, saved, movers, made, history>>

(* handle_err with retries left: finish_with_failure ... *)
Release(t) ==
    /\ Failing(t) /\ tenv[t].retries < MaxRetries
    /\ LRemOne
    /\ To(t, "released")
    /\ UNCHANGED <<jobs, queue, zset, dead, clients, tenv, at, saved, movers, made, history>>

(* ... then retry_in, which reads the envelope again ... *)
RetryRead(t) ==
    /\ tpc[t] = "released"
    /\ \/ jobs = None /\ End(t)
       \/ /\ jobs /= None
          /\ tenv' = [tenv EXCEPT ![t] = [jobs EXCEPT !.retries = @ + 1]]
          /\ To(t, "retrying")
          /\ UNCHANGED at
    /\ UNCHANGED <<redis, clients, saved, movers, made, history>>

(* ... and writes it with one more retry *)
RetryWrite(t) ==
    /\ tpc[t] = "retrying"
    /\ jobs' = tenv[t]
    /\ zset' = zset \cup {"retry"}
    /\ End(t)
    /\ UNCHANGED <<queue, processing, dead, clients, saved, movers, made, history>>

(* kill: handle_err without retries left, or a job the registry cannot build *)
Kill(t) ==
    /\ (Failing(t) /\ tenv[t].retries >= MaxRetries) \/ tpc[t] = "loaded"
    /\ jobs' = None
    /\ LRemOne
    /\ dead' = dead \cup {tenv[t]}
    /\ over' = over \cup {tenv[t].gen}
    /\ End(t)
    /\ UNCHANGED <<queue, zset, clients, saved, movers, made, sent, done, clean>>

---------------------------------------------------------------------------
(* The retry and the schedule loop: enqueue_scheduled.  Any member may be  *)
(* due, so that ZRANGEBYSCORE and ZREM are one step.                       *)

Claim(z) ==
    /\ mpc[z] = "idle" /\ z \in zset
    /\ zset' = zset \ {z}
    /\ mpc' = [mpc EXCEPT ![z] = "claimed"]
    /\ UNCHANGED <<jobs, queue, processing, dead, clients, tasks, mqueue, made, history>>

Fetch(z) ==
    /\ mpc[z] = "claimed"
    /\ mpc' = [mpc EXCEPT ![z] = IF jobs = None THEN "idle" ELSE "fetched"]
    /\ mqueue' = [mqueue EXCEPT ![z] = IF jobs = None THEN None ELSE jobs.queue]
    /\ UNCHANGED <<redis, clients, tasks, made, history>>

Push(z) ==
    /\ mpc[z] = "fetched"
    /\ queue' = [queue EXCEPT ![mqueue[z]] = @ + 1]
    /\ mpc' = [mpc EXCEPT ![z] = "idle"]
    /\ mqueue' = [mqueue EXCEPT ![z] = None]
    /\ UNCHANGED <<jobs, processing, zset, dead, clients, tasks, made, history>>

---------------------------------------------------------------------------
ClientStep(c) ==
    \/ \E q \in Queue, s \in Strategy, to \in {"queue", "schedule"}, n \in 1..MaxList :
         Begin(c, q, s, to, n)
    \/ ActStaged(c) \/ Act(c) \/ ActFound(c) \/ Send(c)

TaskStep(t) ==
    \/ \E q \in Queue : Dequeue(t, q)
    \/ Load(t) \/ DeleteMissing(t) \/ Start(t) \/ Iterate(t) \/ Process(t)
    \/ ReadState(t) \/ WriteState(t) \/ Succeed(t)
    \/ Release(t) \/ RetryRead(t) \/ RetryWrite(t) \/ Kill(t)

MoverStep(z) == Claim(z) \/ Fetch(z) \/ Push(z)

Next ==
    \/ \E c \in Client : ClientStep(c)
    \/ \E t \in Task : TaskStep(t)
    \/ \E z \in ZSet : MoverStep(z)

Spec == Init /\ [][Next]_vars

(* Tasks and loops go on; clients may stop calling, or die. *)
Fairness == (\A t \in Task : WF_vars(TaskStep(t))) /\ (\A z \in ZSet : WF_vars(MoverStep(z)))
LiveSpec == Spec /\ Fairness

---------------------------------------------------------------------------
(* Types, and which variables are set in which state. *)
RedisOK ==
    /\ jobs \in Envelope \cup {None}
    /\ queue \in [Queue -> Nat]
    /\ processing \in Nat
    /\ zset \subseteq ZSet
    /\ dead \subseteq Envelope

ClientOK ==
    /\ cpc \in [Client -> {"idle", "asking", "found", "sending"}]
    /\ call \in [Client -> Call \cup {None}]
    /\ cur \in [Client -> Nat]
    /\ staged \in [Client -> Queue \cup {None}]
    /\ pipe \in [Client -> Command \cup {None}]
    /\ \A c \in Client :
         /\ cpc[c] /= "idle" => call[c] \in Call /\ cur[c] \in call[c].first..call[c].last
         /\ cpc[c] = "sending" => pipe[c] \in Command

TaskOK ==
    /\ tpc \in [Task -> InHand \cup {"free"}]
    /\ tenv \in [Task -> Envelope \cup {None}]
    /\ at \in [Task -> 0..Items]
    /\ saved \in [Task -> Envelope \cup {None}]
    /\ \A t \in Task :
         /\ tpc[t] \in InHand \ {"popped", "missing"} => tenv[t] \in Envelope
         /\ tpc[t] \in {"processed", "saving"} => at[t] < Items
         /\ tpc[t] = "saving" => saved[t] \in Envelope

MoverOK ==
    /\ mpc \in [ZSet -> {"idle", "claimed", "fetched"}]
    /\ mqueue \in [ZSet -> Queue \cup {None}]
    /\ \A z \in ZSet : mpc[z] = "fetched" => mqueue[z] \in Queue

HistoryOK ==
    /\ made \in 0..MaxGen
    /\ sent \subseteq Gen /\ over \subseteq Gen
    /\ done \in [Gen -> SUBSET (1..Items)]
    /\ clean \in BOOLEAN

TypeOK == RedisOK /\ ClientOK /\ TaskOK /\ MoverOK /\ HistoryOK

(* No order of calls leaves an envelope in the jobs hash without an id     *)
(* that a task or a loop will come to: an envelope left behind would make  *)
(* job_enqueue_action skip the job for ever.                               *)
NeverStranded ==
    jobs /= None => Held \/ zset /= {} \/ \E q \in Queue : queue[q] > 0

(* Where the id is: once in each of these places, at least. *)
Places ==
    {<<"queue", q>> : q \in {p \in Queue : queue[p] > 0}}
      \cup {<<"zset", z>> : z \in zset}
      \cup {<<"mover", z>> : z \in {y \in ZSet : mpc[y] /= "idle"}}
      \cup {<<"task", t>> : t \in {u \in Task : tpc[u] \in InHand}}

(* A unique job exists once, unless a client's write was overtaken: its id *)
(* is in one place when it has an envelope and nowhere when it has none,   *)
(* through runs, retries, schedules, skips and replacements.               *)
UniqueUnlessOvertaken ==
    clean =>
      /\ \A p1, p2 \in Places : p1 = p2
      /\ \A q \in Queue : queue[q] <= 1
      /\ jobs = None <=> Places = {}

(* A job resumes after items that were processed for the same envelope: no *)
(* item is passed over, unless a write was overtaken.                      *)
ResumesWhereItStopped ==
    clean =>
      /\ jobs /= None => 1..jobs.cursor \subseteq done[jobs.gen]
      /\ \A t \in Task : tpc[t] \in {"working", "processed", "saving"} => 1..at[t] \subseteq done[tenv[t].gen]

(* An envelope that a client has written is run to its end, killed or      *)
(* replaced, unless a write was overtaken.                                 *)
WrittenIsRun == \A g \in Gen : g \in sent ~> g \in over \/ ~clean

=============================================================================
