--------------------------- MODULE JobLifecycle ---------------------------
(***************************************************************************)
(* The life of a job in oxana: enqueued by a client, moved through the     *)
(* Redis lists and sorted sets by the runtimes of several processes, run,  *)
(* retried, killed, and resurrected when the process that ran it dies.     *)
(*                                                                         *)
(* Every Redis round trip is one step.  A redis::pipe() is sent as one     *)
(* buffer and is one step; two awaited calls are two steps, and anything   *)
(* may happen between them.  A Redis list of job ids is a bag (a function  *)
(* from ids to multiplicities): what an operation may find in a list       *)
(* matters here, its position does not.                                    *)
(*                                                                         *)
(* Jobs here are not unique jobs (meta.unique = false), so their ids are   *)
(* fresh UUIDs and a client enqueues each id once.                         *)
(***************************************************************************)
EXTENDS Integers, Sequences, Functions

CONSTANTS
    Job,            \* job ids
    Proc,           \* process ids, "hostname-pid"
    Worker,         \* permits of the queue's dispatchers, over all processes
    Host,           \* Host[w] is the process that owns permit w
    None,           \* nil of an Option, and a missing hash field
    Scheduled,      \* jobs a client enqueues for a later time
    Resurrectable,  \* jobs with meta.resurrect = true
    MaxRetries,     \* worker.max_retries
    PopLimit,       \* ids taken by one LPOP of the resurrector (10)
    DeadLimit,      \* length the dead list is trimmed to (1000)
    InitialProcs,   \* processes already up and registered at the start
    Faults,         \* which process may suffer which disturbance
    MaxFaults       \* bound: disturbances in a behaviour, LPOPs from live processes included

FaultKinds == {"crash", "start", "stop", "pause", "redis"}

ASSUME HostAssumption == Host \in [Worker -> Proc]
ASSUME NoneAssumption == None \notin Job \cup Proc \cup [retries : Nat]
ASSUME NumbersAssumption ==
    MaxRetries \in Nat /\ PopLimit \in Nat \ {0} /\ DeadLimit \in Nat /\ MaxFaults \in Nat
ASSUME SetsAssumption ==
    /\ Scheduled \subseteq Job
    /\ Resurrectable \subseteq Job
    /\ InitialProcs \subseteq Proc
    /\ Faults \subseteq FaultKinds \X Proc

(* The part of JobEnvelope that decides what happens to a job. *)
Envelope == [retries : Nat]

ZSet == {"schedule", "retry"}
Mover == Proc \X ZSet       \* the retry loop and the schedule loop of each process

VARIABLES
    \* Redis
    jobs,        \* hash: id -> envelope
    queue,       \* list of the queue
    processing,  \* per process: its processing list
    zset,        \* sorted sets "schedule" and "retry"
    dead,        \* dead list
    processes,   \* heartbeat of each process: absent, fresh or stale
    \* memory of the processes
    phase,       \* progress of launcher::run and coordinator::run
    pc, job, env,                   \* the task that holds permit w
    mpc, mids,                      \* enqueue_scheduled of each loop
    rpc, known, dying, target, batch, found, \* resurrect_loop of each process
    \* history and bounds
    accepted,    \* jobs a client enqueued
    settled,     \* jobs finished, killed or deliberately deleted
    faults       \* disturbances left

redis == <<jobs, queue, processing, zset, dead, processes>>
tasks == <<pc, job, env>>
movers == <<mpc, mids>>
resurrectors == <<rpc, known, dying, target, batch, found>>
history == <<accepted, settled>>
vars == <<redis, phase, tasks, movers, resurrectors, history, faults>>

---------------------------------------------------------------------------
(* Redis commands *)

EmptyList == [j \in Job |-> 0]
LPush(list, j) == [list EXCEPT ![j] = @ + 1]
LPushAll(list, ids) == [j \in Job |-> IF j \in ids THEN list[j] + 1 ELSE list[j]]
LRem(list, j) == [list EXCEPT ![j] = IF @ > 0 THEN @ - 1 ELSE 0]

(* What LPOP key n can return: n elements, or all of a shorter list. *)
LPop(list, n) ==
    { b \in [Job -> 0..n] :
        /\ \A j \in Job : b[j] <= list[j]
        /\ \/ b = list /\ SumFunction(list) <= n
           \/ SumFunction(b) = n }
Without(list, b) == [j \in Job |-> list[j] - b[j]]

(* Mutant: the trim keeps one element too many. *)
LPushTrimLate(list, j) ==
    LET l == <<j>> \o list IN IF Len(l) > DeadLimit + 1 THEN SubSeq(l, 1, DeadLimit + 1) ELSE l

LPushTrim(list, j) ==
    LET l == <<j>> \o list IN IF Len(l) > DeadLimit THEN SubSeq(l, 1, DeadLimit) ELSE l

---------------------------------------------------------------------------
Dispatching(p) == phase[p] \in {"up", "cancelled", "draining"}
Looping(p) == phase[p] \in {"up", "cancelled"}

(* A disturbance of process p, taken from the budget. *)
Disturb(kind, p) ==
    /\ <<kind, p>> \in Faults
    /\ faults > 0
    /\ faults' = faults - 1

Init ==
    /\ jobs = [j \in Job |-> None]
    /\ queue = EmptyList
    /\ processing = [p \in Proc |-> EmptyList]
    /\ zset = [z \in ZSet |-> {}]
    /\ dead = <<>>
    /\ processes = [p \in Proc |-> IF p \in InitialProcs THEN "fresh" ELSE "absent"]
    /\ phase = [p \in Proc |-> IF p \in InitialProcs THEN "up" ELSE "down"]
    /\ pc = [w \in Worker |-> "free"]
    /\ job = [w \in Worker |-> None]
    /\ env = [w \in Worker |-> None]
    /\ mpc = [m \in Mover |-> "idle"]
    /\ mids = [m \in Mover |-> {}]
    /\ rpc = [p \in Proc |-> IF p \in InitialProcs THEN "idle" ELSE "init"]
    /\ known = [p \in Proc |-> {}]
    /\ dying = [p \in Proc |-> {}]
    /\ target = [p \in Proc |-> None]
    /\ batch = [p \in Proc |-> EmptyList]
    /\ found = [p \in Proc |-> None]
    /\ accepted = {}
    /\ settled = {}
    /\ faults = MaxFaults

---------------------------------------------------------------------------
(* Clients *)

(* enqueue, and enqueue_in / enqueue_at of a job that is already due *)
Enqueue(j) ==
    /\ j \notin accepted \cup Scheduled
    /\ jobs' = [jobs EXCEPT ![j] = [retries |-> 0]]
    /\ queue' = LPush(queue, j)
    /\ accepted' = accepted \cup {j}
    /\ UNCHANGED <<processing, zset, dead, processes, phase, tasks, movers,
                   resurrectors, settled, faults>>

(* enqueue_in / enqueue_at of a job that is due later *)
EnqueueAt(j) ==
    /\ j \in Scheduled \ accepted
    /\ jobs' = [jobs EXCEPT ![j] = [retries |-> 0]]
    /\ zset' = [zset EXCEPT !["schedule"] = @ \cup {j}]
    /\ accepted' = accepted \cup {j}
    /\ UNCHANGED <<queue, processing, dead, processes, phase, tasks, movers,
                   resurrectors, settled, faults>>

---------------------------------------------------------------------------
(* The task that holds permit w: dispatcher::run, then the coordinator's   *)
(* load_pending_job, then process_pending_job and executor::run.           *)

(* The permit is dropped and the task is over. *)
Free(w) ==
    /\ pc' = [pc EXCEPT ![w] = "free"]
    /\ job' = [job EXCEPT ![w] = None]
    /\ env' = [env EXCEPT ![w] = None]

(* Mutant: RPOP, the id is not recorded in the processing list. *)
DequeueUnrecorded(w) ==
    /\ Dispatching(Host[w])
    /\ pc[w] = "free"
    /\ \E j \in Job :
         /\ queue[j] > 0
         /\ queue' = LRem(queue, j)
         /\ job' = [job EXCEPT ![w] = j]
    /\ pc' = [pc EXCEPT ![w] = "popped"]
    /\ UNCHANGED <<jobs, processing, zset, dead, processes, phase, env, movers,
                   resurrectors, history, faults>>

(* LMOVE; the id then waits in the job channel *)
Dequeue(w) ==
    /\ Dispatching(Host[w])
    /\ pc[w] = "free"
    /\ \E j \in Job :
         /\ queue[j] > 0
         /\ queue' = LRem(queue, j)
         /\ processing' = [processing EXCEPT ![Host[w]] = LPush(@, j)]
         /\ job' = [job EXCEPT ![w] = j]
    /\ pc' = [pc EXCEPT ![w] = "popped"]
    /\ UNCHANGED <<jobs, zset, dead, processes, phase, env, movers, resurrectors,
                   history, faults>>

(* load_pending_job, the envelope is there *)
Load(w) ==
    /\ Looping(Host[w])
    /\ pc[w] = "popped"
    /\ jobs[job[w]] /= None
    /\ env' = [env EXCEPT ![w] = jobs[job[w]]]
    /\ pc' = [pc EXCEPT ![w] = "loaded"]
    /\ UNCHANGED <<redis, phase, job, movers, resurrectors, history, faults>>

(* load_pending_job, the envelope is gone ... *)
LoadMissing(w) ==
    /\ Looping(Host[w])
    /\ pc[w] = "popped"
    /\ jobs[job[w]] = None
    /\ pc' = [pc EXCEPT ![w] = "missing"]
    /\ UNCHANGED <<redis, phase, job, env, movers, resurrectors, history, faults>>

(* ... so delete_job takes the id out of the processing list *)
DeleteJob(w) ==
    /\ pc[w] = "missing"
    /\ jobs' = [jobs EXCEPT ![job[w]] = None]
    /\ processing' = [processing EXCEPT ![Host[w]] = LRem(@, job[w])]
    /\ Free(w)
    /\ UNCHANGED <<queue, zset, dead, processes, phase, movers, resurrectors,
                   history, faults>>

(* load_pending_job, get_job failed: the event and its permit are dropped *)
LoadFails(w) ==
    /\ Looping(Host[w])
    /\ pc[w] = "popped"
    /\ Disturb("redis", Host[w])
    /\ Free(w)
    /\ UNCHANGED <<redis, phase, movers, resurrectors, history>>

(* executor::run writes the envelope it holds back with started_at set *)
SetStartedAt(w) ==
    /\ pc[w] = "loaded"
    /\ jobs' = [jobs EXCEPT ![job[w]] = env[w]]
    /\ pc' = [pc EXCEPT ![w] = "running"]
    /\ UNCHANGED <<queue, processing, zset, dead, processes, phase, job, env, movers,
                   resurrectors, history, faults>>

(* Mutant: the id stays in the processing list. *)
KillUnlisted(w) ==
    /\ \/ pc[w] = "loaded"
       \/ pc[w] = "running" /\ ~(env[w].retries < MaxRetries)
    /\ jobs' = [jobs EXCEPT ![job[w]] = None]
    /\ dead' = LPushTrim(dead, job[w])
    /\ settled' = settled \cup {job[w]}
    /\ Free(w)
    /\ UNCHANGED <<queue, processing, zset, processes, phase, movers, resurrectors,
                   accepted, faults>>

(* kill: by process_pending_job for a job the registry cannot build, by    *)
(* handle_err for a job that is out of retries                             *)
Kill(w) ==
    /\ \/ pc[w] = "loaded"
       \/ pc[w] = "running" /\ ~(env[w].retries < MaxRetries)
    /\ processing' = [processing EXCEPT ![Host[w]] = LRem(@, job[w])]
    /\ jobs' = [jobs EXCEPT ![job[w]] = None]
    /\ dead' = LPushTrim(dead, job[w])
    /\ settled' = settled \cup {job[w]}
    /\ Free(w)
    /\ UNCHANGED <<queue, zset, processes, phase, movers, resurrectors, accepted, faults>>

FinishWithSuccess(w) ==
    /\ pc[w] = "running"
    /\ jobs' = [jobs EXCEPT ![job[w]] = None]
    /\ processing' = [processing EXCEPT ![Host[w]] = LRem(@, job[w])]
    /\ settled' = settled \cup {job[w]}
    /\ Free(w)
    /\ UNCHANGED <<queue, zset, dead, processes, phase, movers, resurrectors,
                   accepted, faults>>

(* The pipe of finish_with_success or kill failed: logged, task over. *)
FinishFails(w) ==
    /\ pc[w] \in {"loaded", "running", "missing"}
    /\ Disturb("redis", Host[w])
    /\ Free(w)
    /\ UNCHANGED <<redis, phase, movers, resurrectors, history>>

(* Mutant: one retry too many. *)
FinishWithFailureOnceMore(w) ==
    /\ pc[w] = "running"
    /\ env[w].retries <= MaxRetries
    /\ processing' = [processing EXCEPT ![Host[w]] = LRem(@, job[w])]
    /\ pc' = [pc EXCEPT ![w] = "released"]
    /\ UNCHANGED <<jobs, queue, zset, dead, processes, phase, job, env, movers,
                   resurrectors, history, faults>>

(* handle_err with retries left, first call *)
FinishWithFailure(w) ==
    /\ pc[w] = "running"
    /\ env[w].retries < MaxRetries
    /\ \/ /\ processing' = [processing EXCEPT ![Host[w]] = LRem(@, job[w])]
          /\ UNCHANGED faults
       \/ /\ Disturb("redis", Host[w])       \* logged, and on to retry_in
          /\ UNCHANGED processing
    /\ pc' = [pc EXCEPT ![w] = "released"]
    /\ UNCHANGED <<jobs, queue, zset, dead, processes, phase, job, env, movers,
                   resurrectors, history>>

(* handle_err, second call: retry_in reads the envelope ... *)
RetryInRead(w) ==
    /\ pc[w] = "released"
    /\ \/ /\ jobs[job[w]] = None             \* JobNotFound, logged
          /\ Free(w)
       \/ /\ jobs[job[w]] /= None
          /\ env' = [env EXCEPT ![w] = [retries |-> jobs[job[w]].retries + 1]]
          /\ pc' = [pc EXCEPT ![w] = "retrying"]
          /\ UNCHANGED job
    /\ UNCHANGED <<redis, phase, movers, resurrectors, history, faults>>

(* ... and writes it back, with the id added to the retry set *)
RetryInWrite(w) ==
    /\ pc[w] = "retrying"
    /\ jobs' = [jobs EXCEPT ![job[w]] = env[w]]
    /\ zset' = [zset EXCEPT !["retry"] = @ \cup {job[w]}]
    /\ Free(w)
    /\ UNCHANGED <<queue, processing, dead, processes, phase, movers, resurrectors,
                   history, faults>>

(* A call of retry_in failed: logged, task over. *)
RetryInFails(w) ==
    /\ pc[w] \in {"released", "retrying"}
    /\ Disturb("redis", Host[w])
    /\ Free(w)
    /\ UNCHANGED <<redis, phase, movers, resurrectors, history>>

---------------------------------------------------------------------------
(* The retry loop and the schedule loop: enqueue_scheduled *)

(* ZRANGEBYSCORE 0 now: any members may be the ones that are due *)
ListDue(m) ==
    /\ Looping(m[1])
    /\ mpc[m] = "idle"
    /\ \E due \in SUBSET zset[m[2]] :
         /\ due /= {}
         /\ mids' = [mids EXCEPT ![m] = due]
    /\ mpc' = [mpc EXCEPT ![m] = "listed"]
    /\ UNCHANGED <<redis, phase, tasks, resurrectors, history, faults>>

(* Mutant: the replies of ZREM are ignored, every listed id is taken. *)
ClaimUnchecked(m) ==
    /\ mpc[m] = "listed"
    /\ zset' = [zset EXCEPT ![m[2]] = @ \ mids[m]]
    /\ mpc' = [mpc EXCEPT ![m] = "claimed"]
    /\ UNCHANGED <<jobs, queue, processing, dead, processes, phase, tasks, mids,
                   resurrectors, history, faults>>

(* a pipe of ZREM; the ids whose ZREM removed something are this loop's *)
Claim(m) ==
    LET claimed == mids[m] \cap zset[m[2]] IN
    /\ mpc[m] = "listed"
    /\ zset' = [zset EXCEPT ![m[2]] = @ \ mids[m]]
    /\ mids' = [mids EXCEPT ![m] = claimed]
    /\ mpc' = [mpc EXCEPT ![m] = IF claimed = {} THEN "idle" ELSE "claimed"]
    /\ UNCHANGED <<jobs, queue, processing, dead, processes, phase, tasks,
                   resurrectors, history, faults>>

(* get_many: HMGET, ids without an envelope are skipped *)
GetMany(m) ==
    /\ mpc[m] = "claimed"
    /\ mids' = [mids EXCEPT ![m] = {j \in @ : jobs[j] /= None}]
    /\ mpc' = [mpc EXCEPT ![m] = "fetched"]
    /\ UNCHANGED <<redis, phase, tasks, resurrectors, history, faults>>

(* a pipe of LPUSH *)
EnqueueClaimed(m) ==
    /\ mpc[m] = "fetched"
    /\ queue' = LPushAll(queue, mids[m])
    /\ mids' = [mids EXCEPT ![m] = {}]
    /\ mpc' = [mpc EXCEPT ![m] = "idle"]
    /\ UNCHANGED <<jobs, processing, zset, dead, processes, phase, tasks,
                   resurrectors, history, faults>>

(* A call of enqueue_scheduled failed: counted by track_redis_result, and  *)
(* the loop starts over.                                                   *)
MoverFails(m) ==
    /\ mpc[m] /= "idle"
    /\ Disturb("redis", m[1])
    /\ mids' = [mids EXCEPT ![m] = {}]
    /\ mpc' = [mpc EXCEPT ![m] = "idle"]
    /\ UNCHANGED <<redis, phase, tasks, resurrectors, history>>

---------------------------------------------------------------------------
(* Heartbeats, and the resurrect loop *)

Ping(p) ==
    /\ phase[p] /= "down"
    /\ processes' = [processes EXCEPT ![p] = "fresh"]
    /\ UNCHANGED <<jobs, queue, processing, zset, dead, phase, tasks, movers,
                   resurrectors, history, faults>>

(* resurrect_loop pings once before it starts to scan *)
InitialPing(p) ==
    /\ Looping(p)
    /\ rpc[p] = "init"
    /\ processes' = [processes EXCEPT ![p] = "fresh"]
    /\ rpc' = [rpc EXCEPT ![p] = "idle"]
    /\ UNCHANGED <<jobs, queue, processing, zset, dead, phase, tasks, movers,
                   known, dying, target, batch, found, history, faults>>

(* dead_process_threshold has passed since the last ping: of a process     *)
(* that is down, or of one that is up and could not ping in time           *)
HeartbeatExpires(p) ==
    /\ processes[p] = "fresh"
    /\ \/ phase[p] = "down" /\ UNCHANGED faults
       \/ phase[p] /= "down" /\ Disturb("pause", p)
    /\ processes' = [processes EXCEPT ![p] = "stale"]
    /\ UNCHANGED <<jobs, queue, processing, zset, dead, phase, tasks, movers,
                   resurrectors, history>>

(* Mutant: no heartbeat is ever too old. *)
ScanProcessesBlind(r) ==
    /\ Looping(r)
    /\ rpc[r] = "idle"
    /\ known' = [known EXCEPT ![r] = {p \in Proc : processes[p] /= "absent"}]
    /\ dying' = [dying EXCEPT ![r] = {}]
    /\ rpc' = [rpc EXCEPT ![r] = "scanning"]
    /\ UNCHANGED <<redis, phase, tasks, movers, target, batch, found, history, faults>>

(* dead_process_ids, first call: ZRANGE processes WITHSCORES *)
ScanProcesses(r) ==
    /\ Looping(r)
    /\ rpc[r] = "idle"
    /\ known' = [known EXCEPT ![r] = {p \in Proc : processes[p] /= "absent"}]
    /\ dying' = [dying EXCEPT ![r] = {p \in Proc : processes[p] = "stale"}]
    /\ rpc' = [rpc EXCEPT ![r] = "scanning"]
    /\ UNCHANGED <<redis, phase, tasks, movers, target, batch, found, history, faults>>

(* The head of the for loop over the dead processes that are left. *)
NextTarget(r, left) ==
    /\ dying' = [dying EXCEPT ![r] = left]
    /\ \/ /\ left = {}
          /\ target' = [target EXCEPT ![r] = None]
          /\ rpc' = [rpc EXCEPT ![r] = "idle"]
       \/ \E p \in left :
            /\ target' = [target EXCEPT ![r] = p]
            /\ rpc' = [rpc EXCEPT ![r] = "popping"]

(* Mutant: every processing list is taken for a dead process's. *)
ScanQueuesOfAll(r) ==
    /\ rpc[r] = "scanning"
    /\ known' = [known EXCEPT ![r] = {}]
    /\ NextTarget(r, dying[r] \cup {p \in Proc : processing[p] /= EmptyList})
    /\ UNCHANGED <<redis, phase, tasks, movers, batch, found, history, faults>>

(* dead_process_ids, second call: SCAN for processing lists of processes   *)
(* the first call did not see                                              *)
ScanQueues(r) ==
    /\ rpc[r] = "scanning"
    /\ known' = [known EXCEPT ![r] = {}]
    /\ NextTarget(r, dying[r] \cup {p \in Proc \ known[r] : processing[p] /= EmptyList})
    /\ UNCHANGED <<redis, phase, tasks, movers, batch, found, history, faults>>

(* LPOP of up to ten ids; none left ends the inner loop.  Every LPOP from   *)
(* a process that is alive makes a second copy of a job, without limit in  *)
(* the code; here each one is taken from the budget.                       *)
PopProcessing(r) ==
    /\ rpc[r] = "popping"
    /\ \E b \in LPop(processing[target[r]], PopLimit) :
         /\ processing' = [processing EXCEPT ![target[r]] = Without(@, b)]
         /\ batch' = [batch EXCEPT ![r] = b]
         /\ rpc' = [rpc EXCEPT ![r] = IF b = EmptyList THEN "unregistering" ELSE "inspecting"]
         /\ IF b = EmptyList \/ phase[target[r]] = "down"
            THEN UNCHANGED faults
            ELSE faults > 0 /\ faults' = faults - 1
    /\ UNCHANGED <<jobs, queue, zset, dead, processes, phase, tasks, movers, known,
                   dying, target, found, history>>

(* The end of the body of the loop over the batch. *)
AfterOne(r, j) ==
    /\ batch' = [batch EXCEPT ![r] = LRem(@, j)]
    /\ found' = [found EXCEPT ![r] = None]
    /\ rpc' = [rpc EXCEPT ![r] = IF LRem(batch[r], j) = EmptyList THEN "popping" ELSE "inspecting"]

(* get_job of an id of the batch: nothing there is a warning; what is done *)
(* with an envelope is the next call                                       *)
Inspect(r) ==
    /\ rpc[r] = "inspecting"
    /\ \E j \in Job :
         /\ batch[r][j] > 0
         /\ \/ jobs[j] = None /\ AfterOne(r, j)
            \/ /\ jobs[j] /= None
               /\ found' = [found EXCEPT ![r] = j]
               /\ rpc' = [rpc EXCEPT ![r] = "found"]
               /\ UNCHANGED batch
    /\ UNCHANGED <<redis, phase, tasks, movers, known, dying, target, history, faults>>

(* Mutant: being resurrected counts as a retry. *)
ResurrectCounted(r) ==
    LET j == found[r] IN
    /\ rpc[r] = "found"
    /\ \/ /\ j \in Resurrectable
          /\ queue' = LPush(queue, j)
          /\ jobs' = [jobs EXCEPT ![j].retries = @ + 1]
          /\ UNCHANGED settled
       \/ /\ j \notin Resurrectable
          /\ jobs' = [jobs EXCEPT ![j] = None]
          /\ settled' = settled \cup {j}
          /\ UNCHANGED queue
    /\ AfterOne(r, j)
    /\ UNCHANGED <<processing, zset, dead, processes, phase, tasks, movers, known,
                   dying, target, accepted, faults>>

(* meta.resurrect: back to its queue; otherwise the job is deleted *)
Resurrect(r) ==
    LET j == found[r] IN
    /\ rpc[r] = "found"
    /\ \/ /\ j \in Resurrectable
          /\ queue' = LPush(queue, j)
          /\ UNCHANGED <<jobs, settled>>
       \/ /\ j \notin Resurrectable
          /\ jobs' = [jobs EXCEPT ![j] = None]
          /\ settled' = settled \cup {j}
          /\ UNCHANGED queue
    /\ AfterOne(r, j)
    /\ UNCHANGED <<processing, zset, dead, processes, phase, tasks, movers, known,
                   dying, target, accepted, faults>>

(* the dead process is taken off the processes set *)
Unregister(r) ==
    /\ rpc[r] = "unregistering"
    /\ processes' = [processes EXCEPT ![target[r]] = "absent"]
    /\ NextTarget(r, dying[r] \ {target[r]})
    /\ UNCHANGED <<jobs, queue, processing, zset, dead, phase, tasks, movers, known,
                   batch, found, history, faults>>

(* resurrect_loop of process p starts over and forgets what it held. *)
ResetResurrector(p, at) ==
    /\ rpc' = [rpc EXCEPT ![p] = at]
    /\ known' = [known EXCEPT ![p] = {}]
    /\ dying' = [dying EXCEPT ![p] = {}]
    /\ target' = [target EXCEPT ![p] = None]
    /\ batch' = [batch EXCEPT ![p] = EmptyList]
    /\ found' = [found EXCEPT ![p] = None]

(* A call of resurrect failed: counted by track_redis_result, and the loop *)
(* starts over.                                                            *)
ResurrectFails(r) ==
    /\ rpc[r] \notin {"init", "idle"}
    /\ Disturb("redis", r)
    /\ ResetResurrector(r, "idle")
    /\ UNCHANGED <<redis, phase, tasks, movers, history>>

---------------------------------------------------------------------------
(* Processes: launcher::run and coordinator::run *)

(* The tasks of process p are gone from memory. *)
DropTasks(p) ==
    /\ pc' = [w \in Worker |-> IF Host[w] = p THEN "free" ELSE pc[w]]
    /\ job' = [w \in Worker |-> IF Host[w] = p THEN None ELSE job[w]]
    /\ env' = [w \in Worker |-> IF Host[w] = p THEN None ELSE env[w]]

(* A process starts, dispatching at once.  A process id that was used      *)
(* before may come back: it is the host name and the pid.                  *)
Start(p) ==
    /\ phase[p] = "down"
    /\ Disturb("start", p)
    /\ phase' = [phase EXCEPT ![p] = "up"]
    /\ UNCHANGED <<redis, tasks, movers, resurrectors, history>>

Crash(p) ==
    /\ phase[p] /= "down"
    /\ Disturb("crash", p)
    /\ phase' = [phase EXCEPT ![p] = "down"]
    /\ DropTasks(p)
    /\ mpc' = [m \in Mover |-> IF m[1] = p THEN "idle" ELSE mpc[m]]
    /\ mids' = [m \in Mover |-> IF m[1] = p THEN {} ELSE mids[m]]
    /\ ResetResurrector(p, "init")
    /\ UNCHANGED <<redis, history>>

(* set_started_at failed: executor::run returns the error, the coordinator *)
(* returns it and its JoinSet aborts every task; the launcher shuts down   *)
SetStartedAtFails(w) ==
    LET p == Host[w] IN
    /\ pc[w] = "loaded"
    /\ Disturb("redis", p)
    /\ phase' = [phase EXCEPT ![p] = "draining"]
    /\ DropTasks(p)
    /\ UNCHANGED <<redis, movers, resurrectors, history>>

(* A shutdown signal, or a background loop that ended: the cancel token *)
Cancel(p) ==
    /\ phase[p] = "up"
    /\ Disturb("stop", p)
    /\ phase' = [phase EXCEPT ![p] = "cancelled"]
    /\ UNCHANGED <<redis, tasks, movers, resurrectors, history>>

(* The coordinator sees the token and leaves its select loop: what waits   *)
(* in the job channel is not loaded any more.                              *)
LeaveLoop(p) ==
    /\ phase[p] = "cancelled"
    /\ phase' = [phase EXCEPT ![p] = "draining"]
    /\ UNCHANGED <<redis, tasks, movers, resurrectors, history, faults>>

(* Every task and loop has ended: self_cleanup, and the process is gone    *)
(* with the ids that were left in the job channel.                         *)
Exit(p) ==
    /\ phase[p] = "draining"
    /\ \A w \in Worker : Host[w] = p => pc[w] \in {"free", "popped"}
    /\ \A z \in ZSet : mpc[<<p, z>>] = "idle"
    /\ rpc[p] \in {"init", "idle"}
    /\ processes' = [processes EXCEPT ![p] = "absent"]
    /\ phase' = [phase EXCEPT ![p] = "down"]
    /\ DropTasks(p)
    /\ ResetResurrector(p, "init")
    /\ UNCHANGED <<jobs, queue, processing, zset, dead, movers, history, faults>>

---------------------------------------------------------------------------
Client == \E j \in Job : Enqueue(j) \/ EnqueueAt(j)

Task(w) ==
    \/ Dequeue(w) \/ Load(w) \/ LoadMissing(w) \/ DeleteJob(w) \/ SetStartedAt(w)
    \/ Kill(w) \/ FinishWithSuccess(w) \/ FinishWithFailure(w)
    \/ RetryInRead(w) \/ RetryInWrite(w)

TaskFails(w) == LoadFails(w) \/ SetStartedAtFails(w) \/ FinishFails(w) \/ RetryInFails(w)

Move(m) == ListDue(m) \/ Claim(m) \/ GetMany(m) \/ EnqueueClaimed(m)

Scan(r) ==
    \/ InitialPing(r) \/ ScanProcesses(r) \/ ScanQueues(r) \/ PopProcessing(r)
    \/ Inspect(r) \/ Resurrect(r) \/ Unregister(r)

Process(p) ==
    \/ Start(p) \/ Crash(p) \/ Cancel(p) \/ LeaveLoop(p) \/ Exit(p)
    \/ Ping(p) \/ HeartbeatExpires(p)

Next ==
    \/ Client
    \/ \E w \in Worker : Task(w) \/ TaskFails(w)
    \/ \E m \in Mover : Move(m) \/ MoverFails(m)
    \/ \E p \in Proc : Scan(p) \/ ResurrectFails(p) \/ Process(p)

Spec == Init /\ [][Next]_vars

---------------------------------------------------------------------------
(* Properties *)

TaskPC == {"free", "popped", "missing", "loaded", "running", "released", "retrying"}
MoverPC == {"idle", "listed", "claimed", "fetched"}
ResurrectorPC ==
    {"init", "idle", "scanning", "popping", "inspecting", "found", "unregistering"}

RedisOK ==
    /\ jobs \in [Job -> Envelope \cup {None}]
    /\ queue \in [Job -> Nat]
    /\ processing \in [Proc -> [Job -> Nat]]
    /\ zset \in [ZSet -> SUBSET Job]
    /\ dead \in Seq(Job) /\ Len(dead) <= DeadLimit
    /\ processes \in [Proc -> {"absent", "fresh", "stale"}]

TasksOK ==
    /\ pc \in [Worker -> TaskPC]
    /\ job \in [Worker -> Job \cup {None}]
    /\ env \in [Worker -> Envelope \cup {None}]
    /\ \A w \in Worker :
         /\ pc[w] /= "free" => job[w] \in Job
         /\ pc[w] \in {"loaded", "running", "released", "retrying"} => env[w] \in Envelope

MoversOK ==
    /\ mpc \in [Mover -> MoverPC]
    /\ mids \in [Mover -> SUBSET Job]

ResurrectorsOK ==
    /\ rpc \in [Proc -> ResurrectorPC]
    /\ known \in [Proc -> SUBSET Proc]
    /\ dying \in [Proc -> SUBSET Proc]
    /\ target \in [Proc -> Proc \cup {None}]
    /\ batch \in [Proc -> [Job -> Nat]]
    /\ found \in [Proc -> Job \cup {None}]
    /\ \A r \in Proc :
         /\ rpc[r] \in {"popping", "inspecting", "found", "unregistering"} => target[r] \in Proc
         /\ rpc[r] = "found" => found[r] \in Job

(* Types, and which of a process's variables are set in which state. *)
TypeOK ==
    /\ RedisOK
    /\ TasksOK
    /\ MoversOK
    /\ ResurrectorsOK
    /\ phase \in [Proc -> {"down", "up", "cancelled", "draining"}]
    /\ accepted \subseteq Job
    /\ settled \subseteq Job
    /\ faults \in Nat

(* Job j is in a list or a sorted set some loop will look at. *)
Durable(j) ==
    \/ queue[j] > 0
    \/ \E p \in Proc : processing[p][j] > 0
    \/ \E z \in ZSet : j \in zset[z]

(* Process p has taken job j out of one place in Redis in order to put it  *)
(* into another, and carries it in memory in between.                      *)
Carries(p, j) ==
    \/ \E w \in Worker : Host[w] = p /\ pc[w] \in {"released", "retrying"} /\ job[w] = j
    \/ \E z \in ZSet : mpc[<<p, z>>] \in {"claimed", "fetched"} /\ j \in mids[<<p, z>>]
    \/ batch[p][j] > 0

(* Job j was settled, or it has its envelope and an id some loop will find. *)
Safe(j) ==
    \/ j \in settled
    \/ jobs[j] /= None /\ (Durable(j) \/ \E p \in Proc : Carries(p, j))

(* No accepted job is forgotten: until it is settled its envelope is in    *)
(* Redis and its id is in Redis or on its way between two Redis keys.      *)
NoJobLost == \A j \in accepted : Safe(j)

(* A job can be forgotten only by a process that carries it between two    *)
(* Redis keys (handle_err between finish_with_failure and retry_in,        *)
(* claim_and_enqueue_scheduled_job_ids after its ZREM, resurrect after its *)
(* LPOP), and only by a crash or a failed call there.  A job that is being *)
(* run is not lost, whatever happens.                                      *)
LostOnlyInTransit ==
    [][\A j \in accepted :
         Safe(j) /\ ~Safe(j)' =>
            \E p \in Proc : Carries(p, j) /\ ~Carries(p, j)' /\ faults' < faults]_vars

(* No two permits, of one process or of two, hold the same job. *)
SingleExecution ==
    \A v, w \in Worker : pc[v] /= "free" /\ pc[w] /= "free" /\ job[v] = job[w] => v = w

(* A job whose outcome is decided is gone: no envelope a late write brought *)
(* back, no id that would run it again.                                    *)
NothingLeftBehind == \A j \in settled : jobs[j] = None /\ ~Durable(j)

(* A job is retried at most max_retries times. *)
RetriesBounded == \A j \in Job : jobs[j] /= None => jobs[j].retries <= MaxRetries

(* The resurrector empties the processing list of a process only when that *)
(* process is not running: "how long a process can miss heartbeats before  *)
(* it is considered dead" (dead_process_threshold).                        *)
OnlyDeadResurrected ==
    \A r \in Proc : rpc[r] = "popping" /\ processing[target[r]] /= EmptyList
                      => phase[target[r]] = "down"

---------------------------------------------------------------------------
(* Every task, loop and process that can take a step eventually does: tokio *)
(* polls every ready task, Redis answers, and job code returns.  Clients   *)
(* and disturbances are not fair.                                          *)
Fairness ==
    /\ \A w \in Worker : WF_vars(Task(w))
    /\ \A m \in Mover : WF_vars(Move(m))
    /\ \A p \in Proc :
         /\ WF_vars(Scan(p))
         /\ WF_vars(Ping(p))
         /\ WF_vars(phase[p] = "down" /\ HeartbeatExpires(p))
         /\ WF_vars(LeaveLoop(p))
         /\ WF_vars(Exit(p))

LiveSpec == Spec /\ Fairness

(* Every accepted job is settled: it succeeds, is killed after its last    *)
(* retry, or is deleted because it must not be resurrected; the one        *)
(* exception is a job lost in transit, which takes a crash (NoJobLost).    *)
SurvivorsSettle == \A j \in Job : j \in accepted ~> (j \in settled \/ ~Safe(j))

=============================================================================
