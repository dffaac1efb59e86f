---------------------------- MODULE Maintenance ----------------------------
(***************************************************************************)
(* What operators and the background loops of oxana do to jobs nobody is   *)
(* running: wiping a queue, reviving the dead list, retrying everything at *)
(* once, deleting a job, the cleanup of old envelopes, the cron loops, and *)
(* the schedule and retry loops that feed the queue.  The queue is         *)
(* consumed by drain().                                                    *)
(*                                                                         *)
(* Every Redis round trip is one step; a pipe or a script is one step.     *)
(* Time is counted in the unit of ExpireAge; lists are sequences whose     *)
(* head is the end LMOVE takes from.  An id of the cron loop is the time   *)
(* of the occurrence, "name-scheduled_at".  A behaviour uses the           *)
(* operations of one plan, chosen at the start.                            *)
(***************************************************************************)
EXTENDS Integers, Sequences, FiniteSets, SequencesExt

CONSTANTS
    Job,          \* ids of jobs enqueued by clients
    Occurrence,   \* times of the cron schedule
    Proc,         \* processes that run the background loops
    Admin,        \* calls of the public interface in flight
    None,         \* nil
    Delay,        \* Delay[j]: delay_s of enqueue_in, 0 for enqueue
    Retried,      \* jobs that wait for a retry at the start of a plan with retry_all
    Killed,       \* jobs in the dead list at the start of a plan with revive
    Looper,       \* processes whose schedule, retry and cleanup loops are followed
    ExpireAge,    \* JOB_EXPIRE_TIME
    Lookahead,    \* settings.cron_lookahead
    DeadLimit,    \* length the dead list is trimmed to
    Plans,        \* sets of operations a behaviour may use
    MaxTime,      \* bound on the clock
    MaxCalls,     \* bound on calls of operators
    MaxFaults     \* bound on failed calls and crashes

Operations == {"enqueue", "enqueue_in", "wipe", "wipe_dead", "revive", "retry_all", "delete",
               "cleanup", "cron", "call_fails", "cron_fails", "drain_fails", "job_fails",
               "browse"}

ASSUME JobAssumption ==
    /\ IsFiniteSet(Job)
    /\ Delay \in [Job -> Nat]
    /\ Retried \cup Killed \subseteq Job
    /\ Retried \cap Killed = {} /\ Job \cap Occurrence = {}
    /\ Looper \subseteq Proc
ASSUME TimeAssumption ==
    /\ Occurrence \subseteq 1..MaxTime
    /\ {ExpireAge, Lookahead, DeadLimit, MaxTime, MaxCalls, MaxFaults} \subseteq Nat
ASSUME PlansAssumption == Plans \subseteq SUBSET Operations

Id == Job \cup Occurrence
ZSet == {"schedule", "retry"}
Mover == Looper \X ZSet          \* the schedule loop and the retry loop of each process
Caller == Admin \cup Mover

ASSUME NoneAssumption == None \notin Nat \cup Job

VARIABLES
    plan, now,
    \* Redis
    jobs,         \* hash: id -> creation time of the envelope
    queue,        \* list of the queue
    zset,         \* "schedule" and "retry": id -> score
    dead,         \* dead list: [id, created] entries
    claim,        \* per caller: the list dead:reviving:<uuid>
    processing,   \* ids in the processing list of the draining process
    \* memory
    pc, ids,      \* progress and ids of each caller
    scan,         \* cleanup of each process: [pc, cutoff, left, found]
    cron,         \* cron_job_loop of each process: [pc, next, previous, due]
    drain,        \* drain(): [pc, id, created]
    \* history and bounds
    accepted,     \* ids ever enqueued
    settled,      \* ids that succeeded
    removed,      \* ids wiped or deleted by an operator, or trimmed off the dead list
    stranded,     \* ids a wipe cut off or a failed caller dropped
    doubled,      \* dead entries whose revival was applied but reported as failed
    runs, late,   \* per id: executions, and cron enqueues after the due time
    calls, faults

redis == <<jobs, queue, zset, dead, claim, processing>>
history == <<accepted, settled, removed, stranded, doubled, runs, late>>
memory == <<pc, ids, scan, cron, drain>>
vars == <<plan, now, redis, memory, history, calls, faults>>

---------------------------------------------------------------------------
DeadIds(entries) == { entries[i].id : i \in DOMAIN entries }

Entry(j, c) == [id |-> j, created |-> c]

HDel(gone) == [j \in Id |-> IF j \in gone THEN None ELSE jobs[j]]

Expired(created, time) == created < time - ExpireAge

Unique(j) == j \in Occurrence

Set(c) == IF c \in Admin THEN "retry" ELSE c[2]

Fault(what) ==
    /\ what \in plan
    /\ faults > 0
    /\ faults' = faults - 1

(* An operator calls operation o of the public interface. *)
Call(a, o) ==
    /\ o \in plan
    /\ pc[a] = "idle"
    /\ calls > 0
    /\ calls' = calls - 1

Goto(c, where, list) ==
    /\ pc' = [pc EXCEPT ![c] = where]
    /\ ids' = [ids EXCEPT ![c] = list]

(* schedule.after(t): the first occurrence later than t *)
After(t) ==
    LET later == { o \in Occurrence : o > t }
    IN  IF later = {} THEN None ELSE CHOOSE o \in later : \A x \in later : o <= x

Init ==
    /\ plan \in Plans
    /\ now = 0
    /\ accepted = (IF "retry_all" \in plan THEN Retried ELSE {})
                     \cup (IF "revive" \in plan THEN Killed ELSE {})
    /\ jobs = [j \in Id |-> IF j \in accepted \cap Retried THEN 0 ELSE None]
    /\ queue = <<>>
    /\ zset = [z \in ZSet |-> [j \in Id |-> IF z = "retry" /\ jobs[j] /= None THEN 1 ELSE None]]
    /\ dead = SetToSeq({ Entry(j, 0) : j \in accepted \cap Killed })
    /\ claim = [a \in Admin |-> <<>>]
    /\ processing = <<>>
    /\ pc = [c \in Caller |-> "idle"]
    /\ ids = [c \in Caller |-> <<>>]
    /\ scan = [p \in Looper |-> [pc |-> "idle", cutoff |-> 0, left |-> {}, found |-> {}]]
    /\ cron = [p \in Proc |-> [pc |-> "down", next |-> None, previous |-> None, due |-> 0]]
    /\ drain = [pc |-> "idle", id |-> None, created |-> 0]
    /\ settled = {}
    /\ removed = {}
    /\ stranded = {}
    /\ doubled = {}
    /\ runs = [j \in Id |-> 0]
    /\ late = [j \in Id |-> 0]
    /\ calls = MaxCalls
    /\ faults = MaxFaults

Tick ==
    /\ now < MaxTime
    /\ now' = now + 1
    /\ UNCHANGED <<plan, redis, memory, history, calls, faults>>

---------------------------------------------------------------------------
(* Clients *)

(* enqueue and enqueue_in of a job that is not unique *)
Enqueue(j) ==
    /\ (IF Delay[j] = 0 THEN "enqueue" ELSE "enqueue_in") \in plan
    /\ j \notin accepted \cup Retried \cup Killed
    /\ jobs' = [jobs EXCEPT ![j] = now]
    /\ IF Delay[j] = 0
       THEN queue' = Append(queue, j) /\ UNCHANGED zset
       ELSE zset' = [zset EXCEPT !["schedule"][j] = now + Delay[j]] /\ UNCHANGED queue
    /\ accepted' = accepted \cup {j}
    /\ UNCHANGED <<plan, now, dead, claim, processing, memory, settled, removed, stranded,
                   doubled, runs, late, calls, faults>>

---------------------------------------------------------------------------
(* Operators *)

(* wipe_queue: LRANGE ... *)
WipeRead(a) ==
    /\ Call(a, "wipe")
    /\ Goto(a, "wipe", queue)
    /\ UNCHANGED <<plan, now, redis, scan, cron, drain, history, faults>>

(* ... then HDEL of the ids read and DEL of whatever the list holds by now *)
WipeDelete(a) ==
    /\ pc[a] = "wipe"
    /\ jobs' = HDel(ToSet(ids[a]))
    /\ queue' = <<>>
    /\ removed' = removed \cup ToSet(ids[a])
    /\ stranded' = stranded \cup (ToSet(queue) \ ToSet(ids[a]))
    /\ Goto(a, "idle", <<>>)
    /\ UNCHANGED <<plan, now, zset, dead, claim, processing, scan, cron, drain, accepted, settled,
                   doubled, runs, late, calls, faults>>

WipeDead(a) ==
    /\ Call(a, "wipe_dead")
    /\ dead' = <<>>
    /\ removed' = removed \cup DeadIds(dead)
    /\ UNCHANGED <<plan, now, jobs, queue, zset, claim, processing, memory, accepted, settled,
                   stranded, doubled, runs, late, faults>>

(* delete_job from the dashboard: the id stays in the queue or sorted set, *)
(* only the caller's own processing list is searched                       *)
DeleteJob(a, j) ==
    /\ Call(a, "delete")
    /\ jobs[j] /= None
    /\ jobs' = HDel({j})
    /\ removed' = removed \cup {j}
    /\ UNCHANGED <<plan, now, queue, zset, dead, claim, processing, memory, accepted, settled,
                   stranded, doubled, runs, late, faults>>

(* Mutant: the list is read in place, and deleted at the end. *)
ReviveClaimInPlace(a) ==
    /\ Call(a, "revive")
    /\ dead /= <<>>
    /\ claim' = [claim EXCEPT ![a] = dead]
    /\ Goto(a, "revive_read", <<>>)
    /\ UNCHANGED <<plan, now, jobs, queue, zset, dead, processing, scan, cron, drain, history,
                   faults>>

(* revive_all_dead: the script renames the dead list ... *)
ReviveClaim(a) ==
    /\ Call(a, "revive")
    /\ dead /= <<>>
    /\ claim' = [claim EXCEPT ![a] = dead]
    /\ dead' = <<>>
    /\ Goto(a, "revive_read", <<>>)
    /\ UNCHANGED <<plan, now, jobs, queue, zset, processing, scan, cron, drain, history, faults>>

(* ... LRANGE reads it, from the newest entry to the oldest ... *)
ReviveRead(a) ==
    /\ pc[a] = "revive_read"
    /\ Goto(a, "revive", Reverse(claim[a]))
    /\ UNCHANGED <<plan, now, redis, scan, cron, drain, history, calls, faults>>

(* ... and each entry is enqueued: HEXISTS for a unique job, which is      *)
(* skipped when it exists ...                                              *)
ReviveCheck(a) ==
    /\ pc[a] = "revive"
    /\ ids[a] /= <<>>
    /\ IF Unique(Head(ids[a]).id) /\ jobs[Head(ids[a]).id] /= None
       THEN Goto(a, "revive", Tail(ids[a]))
       ELSE Goto(a, "revive_write", ids[a])
    /\ UNCHANGED <<plan, now, redis, scan, cron, drain, history, calls, faults>>

Revived(entry) ==
    /\ jobs' = [jobs EXCEPT ![entry.id] = entry.created]
    /\ queue' = Append(queue, entry.id)

(* ... and the pipe of enqueue_w_conn, with the creation time it always had *)
ReviveWrite(a) ==
    /\ pc[a] = "revive_write"
    /\ Revived(Head(ids[a]))
    /\ Goto(a, "revive", Tail(ids[a]))
    /\ UNCHANGED <<plan, now, zset, dead, claim, processing, scan, cron, drain, history, calls,
                   faults>>

(* An enqueue reported an error, whether Redis applied it or not. *)
ReviveFails(a) ==
    /\ Fault("call_fails")
    /\ pc[a] \in {"revive", "revive_write"}
    /\ ids[a] /= <<>>
    /\ \/ UNCHANGED <<jobs, queue, doubled>>
       \/ /\ pc[a] = "revive_write"
          /\ Revived(Head(ids[a]))
          /\ doubled' = doubled \cup {Head(ids[a]).id}
    /\ Goto(a, "restore", ids[a])
    /\ UNCHANGED <<plan, now, zset, dead, claim, processing, scan, cron, drain, accepted, settled,
                   removed, stranded, runs, late, calls>>

(* Mutant: the entry that failed is not put back. *)
RestoreRest(a) ==
    /\ pc[a] = "restore"
    /\ dead' = Reverse(Tail(ids[a])) \o dead
    /\ claim' = [claim EXCEPT ![a] = <<>>]
    /\ Goto(a, "idle", <<>>)
    /\ UNCHANGED <<plan, now, jobs, queue, zset, processing, scan, cron, drain, history, calls,
                   faults>>

(* restore_claimed_dead_entries: RPUSH of the failed entry and the rest, *)
(* without a trim                                                          *)
Restore(a) ==
    /\ pc[a] = "restore"
    /\ dead' = Reverse(ids[a]) \o dead
    /\ claim' = [claim EXCEPT ![a] = <<>>]
    /\ Goto(a, "idle", <<>>)
    /\ UNCHANGED <<plan, now, jobs, queue, zset, processing, scan, cron, drain, history, calls,
                   faults>>

(* DEL of the claimed list once every entry was enqueued *)
ReviveDone(a) ==
    /\ pc[a] = "revive"
    /\ ids[a] = <<>>
    /\ claim' = [claim EXCEPT ![a] = <<>>]
    /\ Goto(a, "idle", <<>>)
    /\ UNCHANGED <<plan, now, jobs, queue, zset, dead, processing, scan, cron, drain, history,
                   calls, faults>>

---------------------------------------------------------------------------
(* claim_and_enqueue_scheduled_job_ids; the order of the ids is left open *)

(* retry_all_now: ZRANGE of the whole retry set *)
RetryAllNow(a) ==
    LET all == { j \in Id : zset["retry"][j] /= None } IN
    /\ Call(a, "retry_all")
    /\ all /= {}
    /\ Goto(a, "claim", SetToSeq(all))
    /\ UNCHANGED <<plan, now, redis, scan, cron, drain, history, faults>>

(* enqueue_scheduled of a loop: ZRANGEBYSCORE 0 now *)
EnqueueScheduled(m) ==
    LET due == { j \in Id : zset[m[2]][j] /= None /\ zset[m[2]][j] <= now } IN
    /\ pc[m] = "idle"
    /\ due /= {}
    /\ Goto(m, "claim", SetToSeq(due))
    /\ UNCHANGED <<plan, now, redis, scan, cron, drain, history, calls, faults>>

(* ZREM of every listed id; the ones this call removed are its own *)
Claim(c) ==
    LET mine == { j \in ToSet(ids[c]) : zset[Set(c)][j] /= None } IN
    /\ pc[c] = "claim"
    /\ zset' = [zset EXCEPT ![Set(c)] = [j \in Id |-> IF j \in mine THEN None ELSE @[j]]]
    /\ IF mine = {} THEN Goto(c, "idle", <<>>) ELSE Goto(c, "get", SetToSeq(mine))
    /\ UNCHANGED <<plan, now, jobs, queue, dead, claim, processing, scan, cron, drain, history,
                   calls, faults>>

(* HMGET: ids without an envelope are dropped *)
GetMany(c) ==
    /\ pc[c] = "get"
    /\ Goto(c, "push", SetToSeq({ j \in ToSet(ids[c]) : jobs[j] /= None }))
    /\ UNCHANGED <<plan, now, redis, scan, cron, drain, history, calls, faults>>

PushAll(c) ==
    /\ pc[c] = "push"
    /\ queue' = queue \o ids[c]
    /\ Goto(c, "idle", <<>>)
    /\ UNCHANGED <<plan, now, jobs, zset, dead, claim, processing, scan, cron, drain, history,
                   calls, faults>>

(* The caller dies, or its next call fails and the error is returned.  What *)
(* it took out of a sorted set, or out of the dead list, stays where it is. *)
Dies(c) ==
    /\ Fault("call_fails")
    /\ pc[c] /= "idle"
    /\ stranded' = stranded \cup
         CASE pc[c] \in {"get", "push"} -> ToSet(ids[c])
           [] c \in Admin /\ pc[c] \notin {"get", "push", "wipe"} -> DeadIds(claim[c])
           [] OTHER -> {}
    /\ claim' = IF c \in Admin THEN [claim EXCEPT ![c] = <<>>] ELSE claim
    /\ Goto(c, "idle", <<>>)
    /\ UNCHANGED <<plan, now, jobs, queue, zset, dead, processing, scan, cron, drain, accepted,
                   settled, removed, doubled, runs, late, calls>>

---------------------------------------------------------------------------
(* cleanup_loop *)

CleanupBegin(p) ==
    /\ "cleanup" \in plan
    /\ scan[p].pc = "idle"
    /\ scan' = [scan EXCEPT ![p] = [pc |-> "scan", cutoff |-> now, left |-> Id, found |-> {}]]
    /\ UNCHANGED <<plan, now, redis, pc, ids, cron, drain, history, calls, faults>>

(* One HSCAN: some of the fields not returned so far. *)
CleanupScan(p) ==
    /\ scan[p].pc = "scan"
    /\ scan[p].left /= {}
    /\ \E page \in { Job \cap scan[p].left, scan[p].left } \ {{}} :
         scan' = [scan EXCEPT ![p].left = @ \ page,
                              ![p].found = @ \cup { j \in page : /\ jobs[j] /= None
                                                               /\ Expired(jobs[j], scan[p].cutoff) }]
    /\ UNCHANGED <<plan, now, redis, pc, ids, cron, drain, history, calls, faults>>

(* Mutant: the ids are collected and never deleted. *)
CleanupDeleteNothing(p) ==
    /\ scan[p].pc = "scan"
    /\ scan[p].left = {}
    /\ scan' = [scan EXCEPT ![p].pc = "idle", ![p].found = {}]
    /\ UNCHANGED <<plan, now, redis, pc, ids, cron, drain, history, calls, faults>>

(* The cursor is back at 0: one HDEL of what was collected. *)
CleanupDelete(p) ==
    /\ scan[p].pc = "scan"
    /\ scan[p].left = {}
    /\ jobs' = HDel(scan[p].found)
    /\ scan' = [scan EXCEPT ![p].pc = "idle", ![p].found = {}]
    /\ UNCHANGED <<plan, now, queue, zset, dead, claim, processing, pc, ids, cron, drain, history,
                   calls, faults>>

---------------------------------------------------------------------------
(* cron_job_loop *)

CronStart(p) ==
    /\ "cron" \in plan
    /\ cron[p].pc = "down"
    /\ cron' = [cron EXCEPT ![p] = [pc |-> "wait", next |-> After(now), previous |-> None, due |-> 0]]
    /\ UNCHANGED <<plan, now, redis, pc, ids, scan, drain, history, calls, faults>>

(* The occurrence is within the lookahead and the previous one has passed: *)
(* new_cron builds the envelope and enqueue_at decides where it goes.      *)
CronReady(p) ==
    /\ cron[p].pc = "wait"
    /\ cron[p].next /= None
    /\ cron[p].next <= now + Lookahead
    /\ cron[p].previous /= None => cron[p].previous <= now
    /\ cron' = [cron EXCEPT ![p].pc = "check",
                            ![p].due = IF cron[p].next > now THEN cron[p].next ELSE now]
    /\ UNCHANGED <<plan, now, redis, pc, ids, scan, drain, history, calls, faults>>

CronAdvance(p) ==
    cron' = [cron EXCEPT ![p] = [pc |-> "wait", next |-> After(@.next), previous |-> @.next, due |-> 0]]

(* Mutant: the occurrence is enqueued at once instead of scheduled. *)
CronCheckNow(p) ==
    /\ cron[p].pc = "check"
    /\ IF jobs[cron[p].next] /= None
       THEN CronAdvance(p)
       ELSE cron' = [cron EXCEPT ![p].pc = "push"]
    /\ UNCHANGED <<plan, now, redis, pc, ids, scan, drain, history, calls, faults>>

(* HEXISTS: the occurrence is skipped when another process enqueued it *)
CronCheck(p) ==
    /\ cron[p].pc = "check"
    /\ IF jobs[cron[p].next] /= None
       THEN CronAdvance(p)
       ELSE cron' = [cron EXCEPT ![p].pc = IF cron[p].due <= now THEN "push" ELSE "add"]
    /\ UNCHANGED <<plan, now, redis, pc, ids, scan, drain, history, calls, faults>>

(* The pipe of enqueue_w_conn. *)
CronStored(p) ==
    LET o == cron[p].next IN
    /\ cron[p].pc \in {"push", "add"}
    /\ jobs' = [jobs EXCEPT ![o] = now]
    /\ IF cron[p].pc = "push"
       THEN queue' = Append(queue, o) /\ UNCHANGED zset
       ELSE zset' = [zset EXCEPT !["schedule"][o] = cron[p].due] /\ UNCHANGED queue
    /\ accepted' = accepted \cup {o}
    /\ late' = [late EXCEPT ![o] = IF now >= o THEN @ + 1 ELSE @]

CronWrite(p) ==
    /\ CronStored(p)
    /\ CronAdvance(p)
    /\ UNCHANGED <<plan, now, dead, claim, processing, pc, ids, scan, drain, settled, removed,
                   stranded, doubled, runs, calls, faults>>

(* Mutant: a failed enqueue is logged and the next occurrence awaited. *)
CronFailsOver(p) ==
    /\ Fault("cron_fails")
    /\ cron[p].pc \in {"check", "push", "add"}
    /\ CronAdvance(p)
    /\ UNCHANGED <<plan, now, redis, pc, ids, scan, drain, history, calls>>

(* A transient failure, whether applied or not: the enqueue is tried again *)
(* after a tick, with a new envelope.                                      *)
CronFails(p) ==
    /\ Fault("cron_fails")
    /\ \/ /\ cron[p].pc \in {"check", "push", "add"}
          /\ UNCHANGED <<jobs, queue, zset, accepted, late>>
       \/ CronStored(p)
    /\ cron' = [cron EXCEPT ![p].pc = "wait"]
    /\ UNCHANGED <<plan, now, dead, claim, processing, pc, ids, scan, drain, settled, removed,
                   stranded, doubled, runs, calls>>

---------------------------------------------------------------------------
(* drain *)

DrainIdle == [pc |-> "idle", id |-> None, created |-> 0]

LRem(list, j) == IF Contains(list, j) THEN RemoveFirst(list, j) ELSE list

(* while let Some(job_id) = dequeue *)
DrainPop ==
    /\ drain.pc = "idle"
    /\ queue /= <<>>
    /\ queue' = Tail(queue)
    /\ processing' = Append(processing, Head(queue))
    /\ drain' = [DrainIdle EXCEPT !.pc = "popped", !.id = Head(queue)]
    /\ UNCHANGED <<plan, now, jobs, zset, dead, claim, pc, ids, scan, cron, history, calls, faults>>

(* process_job: get_job; a missing envelope is counted, its id left behind *)
DrainLoad ==
    /\ drain.pc = "popped"
    /\ drain' = IF jobs[drain.id] = None
                THEN DrainIdle
                ELSE [drain EXCEPT !.pc = "loaded", !.created = jobs[drain.id]]
    /\ UNCHANGED <<plan, now, redis, pc, ids, scan, cron, history, calls, faults>>

(* A worker that does not resume writes the envelope back without state; *)
(* then the job runs.                                                    *)
DrainRun ==
    /\ drain.pc = "loaded"
    /\ \/ jobs' = [jobs EXCEPT ![drain.id] = drain.created]
       \/ UNCHANGED jobs
    /\ drain' = [drain EXCEPT !.pc = "running"]
    /\ runs' = [runs EXCEPT ![drain.id] = @ + 1]
    /\ UNCHANGED <<plan, now, queue, zset, dead, claim, processing, pc, ids, scan, cron, accepted,
                   settled, removed, stranded, doubled, late, calls, faults>>

DrainSuccess ==
    /\ drain.pc = "running"
    /\ jobs' = HDel({drain.id})
    /\ processing' = LRem(processing, drain.id)
    /\ drain' = DrainIdle
    /\ settled' = settled \cup {drain.id}
    /\ UNCHANGED <<plan, now, queue, zset, dead, claim, pc, ids, scan, cron, accepted, removed,
                   stranded, doubled, runs, late, calls, faults>>

(* finish_with_failure ... *)
DrainFailure ==
    /\ "job_fails" \in plan
    /\ drain.pc = "running"
    /\ processing' = LRem(processing, drain.id)
    /\ drain' = [drain EXCEPT !.pc = "failed"]
    /\ UNCHANGED <<plan, now, jobs, queue, zset, dead, claim, pc, ids, scan, cron, history, calls,
                   faults>>

(* ... and kill: LPUSH puts the newest entry first, LTRIM drops the oldest *)
DrainKill ==
    LET all == Append(dead, Entry(drain.id, drain.created))
        cut == IF Len(all) > DeadLimit THEN Len(all) - DeadLimit ELSE 0
    IN
    /\ drain.pc = "failed"
    /\ processing' = LRem(processing, drain.id)
    /\ jobs' = HDel({drain.id})
    /\ dead' = SubSeq(all, cut + 1, Len(all))
    /\ removed' = removed \cup DeadIds(SubSeq(all, 1, cut))
    /\ drain' = DrainIdle
    /\ UNCHANGED <<plan, now, queue, zset, claim, pc, ids, scan, cron, accepted, settled, stranded,
                   doubled, runs, late, calls, faults>>

(* An error ends drain(), the id stays in the processing list; it is       *)
(* called again.                                                           *)
DrainError ==
    /\ Fault("drain_fails")
    /\ drain.pc /= "idle"
    /\ stranded' = stranded \cup {drain.id}
    /\ drain' = DrainIdle
    /\ UNCHANGED <<plan, now, redis, pc, ids, scan, cron, accepted, settled, removed, doubled, runs,
                   late, calls>>

---------------------------------------------------------------------------
Wipe(a) == WipeRead(a) \/ WipeDelete(a)

Revive(a) ==
    \/ ReviveClaim(a) \/ ReviveRead(a) \/ ReviveCheck(a) \/ ReviveWrite(a)
    \/ ReviveFails(a) \/ Restore(a) \/ ReviveDone(a)

Delete(a) == \E j \in Id : DeleteJob(a, j)

Operator(a) == Wipe(a) \/ WipeDead(a) \/ Delete(a) \/ Revive(a) \/ RetryAllNow(a)

Move(c) == Claim(c) \/ GetMany(c) \/ PushAll(c)

Cleanup(p) == CleanupBegin(p) \/ CleanupScan(p) \/ CleanupDelete(p)

Cron(p) == CronStart(p) \/ CronReady(p) \/ CronCheck(p) \/ CronWrite(p)

Drain == DrainPop \/ DrainLoad \/ DrainRun \/ DrainSuccess \/ DrainFailure \/ DrainKill

Done ==
    /\ now = MaxTime
    /\ UNCHANGED vars

Next ==
    \/ Tick
    \/ \E j \in Job : Enqueue(j)
    \/ \E a \in Admin : Operator(a)
    \/ \E m \in Mover : EnqueueScheduled(m)
    \/ \E c \in Caller : Move(c) \/ Dies(c)
    \/ \E p \in Looper : Cleanup(p)
    \/ \E p \in Proc : Cron(p) \/ CronFails(p)
    \/ Drain \/ DrainError
    \/ Done

Spec == Init /\ [][Next]_vars

(* The loops sleep a bounded time and run again; time passes; a call of    *)
(* drain() goes on.                                                        *)
Fairness ==
    /\ WF_vars(Tick)
    /\ \A m \in Mover : WF_vars(EnqueueScheduled(m))
    /\ \A c \in Caller : WF_vars(Move(c))
    /\ \A p \in Looper : WF_vars(Cleanup(p))
    /\ \A p \in Proc : WF_vars(Cron(p))
    /\ WF_vars(Drain)

FairSpec == Spec /\ Fairness

---------------------------------------------------------------------------
TypeOK ==
    /\ plan \in Plans
    /\ now \in 0..MaxTime
    /\ jobs \in [Id -> Nat \cup {None}]
    /\ ToSet(queue) \cup ToSet(processing) \subseteq Id
    /\ zset \in [ZSet -> [Id -> Nat \cup {None}]]
    /\ DeadIds(dead) \subseteq Id
    /\ \A a \in Admin : DeadIds(claim[a]) \subseteq Id
    /\ \A p \in Proc : cron[p].next \in Occurrence \cup {None}
    /\ drain.id \in Id \cup {None}
    /\ calls \in 0..MaxCalls
    /\ faults \in 0..MaxFaults

(* The id is somewhere from where the job will still be run. *)
Placed(j) ==
    \/ j \in ToSet(queue)
    \/ \E z \in ZSet : zset[z][j] /= None
    \/ \E c \in Caller : pc[c] \in {"get", "push"} /\ j \in ToSet(ids[c])
    \/ drain.id = j

(* The dead list holds the job, or a list claimed from it. *)
Buried(j) == j \in DeadIds(dead) \/ \E a \in Admin : j \in DeadIds(claim[a])

(* No job disappears between the lists: a job that was accepted is waiting *)
(* with its envelope, dead, or done, unless an operator removed it, the    *)
(* cleanup runs and an envelope can be older than JOB_EXPIRE_TIME, a       *)
(* wipe_queue ran over its enqueue, or a caller failed half way            *)
(* (claim_and_enqueue, revive_all_dead, drain).                            *)
JobKept ==
    \A j \in accepted :
        \/ jobs[j] /= None /\ Placed(j)
        \/ Buried(j)
        \/ j \in settled \cup removed \cup stranded
        \/ "cleanup" \in plan /\ Expired(0, now)

(* A job is never both waiting and dead: revive_all_dead takes the dead    *)
(* list in one step, so that two calls never revive an entry twice.  Only  *)
(* an enqueue that was applied but reported as failed leaves both, or a    *)
(* caller that died after it.                                              *)
RevivedOnce ==
    \A j \in Job \ (doubled \cup stranded) :
        /\ Cardinality({ i \in DOMAIN queue : queue[i] = j }) <= 1
        /\ ~(j \in DeadIds(dead) /\ j \in ToSet(queue))

(* Every process enqueues every cron occurrence, and it runs once all the  *)
(* same: the id keeps it apart, the schedule set holds it once, and only   *)
(* the loop that removes it from there pushes it.  It runs again only when *)
(* a process was late, past the time of the occurrence, or when an         *)
(* operator revives it after it failed.                                    *)
CronRunsOnce ==
    "revive" \notin plan => \A o \in Occurrence : runs[o] <= 1 + late[o]

(* An envelope that no list or set names (wipe_queue over an enqueue, a    *)
(* crash between ZREM and LPUSH) does not stay for ever: cleanup removes   *)
(* it when it is old enough.                                               *)
OrphansExpire ==
    LET orphaned(j) == jobs[j] /= None /\ Expired(jobs[j], now) /\ ~Placed(j)
    IN  ("cleanup" \in plan /\ \E j \in Job : orphaned(j)) ~> (\A j \in Job : ~orphaned(j))

(* Each occurrence that comes after a process started its loop is enqueued *)
(* by some process, failed calls or not.                                   *)
CronEnqueued ==
    \A o \in Occurrence : (\E p \in Proc : cron[p].next = o) ~> (o \in accepted)

=============================================================================
