------------------------------ MODULE Throttle ------------------------------
(***************************************************************************)
(* The throttle of a queue: a Redis sorted set with one member per unit of *)
(* cost of a recent job, shared by the dispatchers of all processes.  A    *)
(* dispatcher asks it before it dequeues and records the job's cost        *)
(* afterwards (pop_queue_message_w_throttle), four Redis round trips with  *)
(* a fresh reading of the clock before the first and the third.            *)
(*                                                                         *)
(* Time is kept as ages: a tick makes everything one older, so no clock    *)
(* value grows without bound.  A tick is the resolution of the clock.      *)
(***************************************************************************)
EXTENDS Integers, Sequences, FiniteSets, FiniteSetsExt, Functions

CONSTANTS
    Dispatcher,     \* the dispatchers of the queue, one per process
    Job,            \* jobs
    Backlog,        \* the jobs of the queue, in the order they were enqueued
    Cost,           \* meta.throttle_cost of each job; None where it is not set
    None,
    Limit,          \* QueueThrottle::limit
    Window,         \* QueueThrottle::window_ms, in ticks
    Second,         \* ticks of one second, the unit of EXPIRE
    FallbackWait,   \* throttled_queue_fallback_wait, in ticks
    MaxDelay,       \* bound: ticks from a reading of the clock to the command that uses it
    MaxErrors       \* bound: Redis errors in a behaviour

ASSUME CostAssumption == Cost \in [Job -> Nat \cup {None}] /\ None \notin Nat
ASSUME BacklogAssumption == Backlog \in Seq(Job)
ASSUME TimeAssumption ==
    /\ Limit \in Nat /\ MaxErrors \in Nat
    /\ Window \in Nat \ {0} /\ Second \in Nat \ {0} /\ FallbackWait \in Nat
    /\ MaxDelay \in 0..Window

VARIABLES
    queue,      \* jobs waiting in the queue's list
    score,      \* sorted set: age of the members of each job, None without any
    ttl,        \* ticks until the set's key expires, None without expiry
    pc,         \* where a dispatcher is in pop_queue_message_w_throttle
    job,        \* the job it has dequeued
    cost,       \* the cost it has read
    read,       \* age of its last reading of the clock
    sleep,      \* ticks it still sleeps
    since,      \* history: age of the dequeue of each job
    sent,       \* jobs sent to the worker
    stuck,      \* jobs left in the processing list by an error
    errors      \* errors left

sortedSet == <<score, ttl>>
local == <<pc, job, cost, read, sleep>>
vars == <<queue, sortedSet, local, since, sent, stuck, errors>>

OldAge == Window + MaxDelay     \* anything older is out of every window
Age == 0..OldAge
Older(a) == IF a = None \/ a = OldAge THEN a ELSE a + 1

(* consume: cost.unwrap_or(1) *)
Units(c) == IF c = None THEN 1 ELSE c

TypeOK ==
    /\ queue \in Seq(Job) /\ sent \subseteq Job /\ stuck \subseteq Job
    /\ score \in [Job -> Age \cup {None}]
    /\ ttl \in Nat \cup {None}
    /\ pc \in [Dispatcher -> {"idle", "ask", "dequeue", "load", "consume", "check", "record", "sleep"}]
    /\ job \in [Dispatcher -> Job \cup {None}]
    /\ cost \in [Dispatcher -> Nat \cup {None}]
    /\ read \in [Dispatcher -> 0..MaxDelay]
    /\ sleep \in [Dispatcher -> Nat]
    /\ since \in [Job -> Age \cup {None}]
    /\ errors \in 0..MaxErrors

Init ==
    /\ queue = Backlog
    /\ score = [j \in Job |-> None] /\ ttl = None
    /\ pc = [d \in Dispatcher |-> "idle"]
    /\ job = [d \in Dispatcher |-> None]
    /\ cost = [d \in Dispatcher |-> None]
    /\ read = [d \in Dispatcher |-> 0]
    /\ sleep = [d \in Dispatcher |-> 0]
    /\ since = [j \in Job |-> None]
    /\ sent = {} /\ stuck = {}
    /\ errors = MaxErrors

---------------------------------------------------------------------------
(* state_w_conn, as seen by a clock reading that is r ticks old *)

(* zrembyscore key 0 (now - window) *)
Trimmed(r) == [j \in Job |-> IF score[j] # None /\ score[j] >= Window + r THEN None ELSE score[j]]

(* zcard *)
Requests(s) == MapThenSumSet(LAMBDA j : Units(Cost[j]), {j \in Job : s[j] # None})

(* Mutant: the limit itself still passes. *)
AllowedAtLimit(s) == Requests(s) <= Limit

(* Mutant: the job that is about to run is counted as well. *)
AllowedReserving(s) == Requests(s) + 1 < Limit

Allowed(s) == Requests(s) < Limit

(* (now - start + window_micros) / 1000 + 1, start the oldest member *)
ThrottledFor(s, r) ==
    LET ages == {s[j] : j \in Job} \ {None}
    IN  IF ages = {} THEN None ELSE Max(ages) - r + Window + 1

(* The wait of pop_queue_message_w_throttle after a state that gave w. *)
Wait(w) == IF w = None \/ w < 0 THEN FallbackWait ELSE w

(* The pipe of state_w_conn; an empty sorted set has no key and no expiry. *)
Trim(r) ==
    /\ score' = Trimmed(r)
    /\ ttl' = IF \A j \in Job : Trimmed(r)[j] = None THEN None ELSE ttl

Goto(d, l) == pc' = [pc EXCEPT ![d] = l]

(* The clock is read before the pipe is sent. *)
ReadClock(d, from, to) ==
    /\ pc[d] = from
    /\ Goto(d, to)
    /\ read' = [read EXCEPT ![d] = 0]
    /\ UNCHANGED <<queue, sortedSet, job, cost, sleep, since, sent, stuck, errors>>

Begin(d) == ReadClock(d, "idle", "ask")
BeginConsume(d) == ReadClock(d, "consume", "check")

(* Throttler::state *)
Ask(d) ==
    /\ pc[d] = "ask"
    /\ Trim(read[d])
    /\ \/ /\ Allowed(Trimmed(read[d]))
          /\ Goto(d, "dequeue")
          /\ UNCHANGED sleep
       \/ /\ ~Allowed(Trimmed(read[d]))
          /\ Goto(d, "sleep")
          /\ sleep' = [sleep EXCEPT ![d] = Wait(ThrottledFor(Trimmed(read[d]), read[d]))]
    /\ UNCHANGED <<queue, job, cost, read, since, sent, stuck, errors>>

(* StorageInternal::dequeue; an empty queue is waited on for the fallback. *)
Dequeue(d) ==
    /\ pc[d] = "dequeue"
    /\ \/ /\ queue # <<>>
          /\ queue' = Tail(queue)
          /\ job' = [job EXCEPT ![d] = Head(queue)]
          /\ since' = [since EXCEPT ![Head(queue)] = 0]
          /\ Goto(d, "load")
          /\ UNCHANGED sleep
       \/ /\ queue = <<>>
          /\ Goto(d, "sleep")
          /\ sleep' = [sleep EXCEPT ![d] = Wait(None)]
          /\ UNCHANGED <<queue, job, since>>
    /\ UNCHANGED <<sortedSet, cost, read, sent, stuck, errors>>

(* get_job: the cost of the envelope *)
Load(d) ==
    /\ pc[d] = "load"
    /\ cost' = [cost EXCEPT ![d] = Cost[job[d]]]
    /\ Goto(d, "consume")
    /\ UNCHANGED <<queue, sortedSet, job, read, sleep, since, sent, stuck, errors>>

(* Ok(Some(job_id)): the job goes to the worker whatever consume found. *)
Send(d) ==
    /\ sent' = sent \cup {job[d]}
    /\ job' = [job EXCEPT ![d] = None]
    /\ cost' = [cost EXCEPT ![d] = None]
    /\ Goto(d, "idle")

(* consume: the state is asked again; a throttled or free job is not recorded. *)
Check(d) ==
    /\ pc[d] = "check"
    /\ Trim(read[d])
    /\ \/ /\ Allowed(Trimmed(read[d])) /\ Units(cost[d]) > 0
          /\ Goto(d, "record")
          /\ UNCHANGED <<job, cost, sent>>
       \/ /\ ~Allowed(Trimmed(read[d])) \/ Units(cost[d]) = 0
          /\ Send(d)
    /\ UNCHANGED <<queue, read, sleep, since, stuck, errors>>

(* ZADD with the time read before the check, and EXPIRE key window_s.      *)
(* EXPIRE with zero deletes the key.                                       *)
Record(d) ==
    /\ pc[d] = "record"
    /\ IF Window \div Second = 0
       THEN score' = [j \in Job |-> None] /\ ttl' = None
       ELSE score' = [score EXCEPT ![job[d]] = read[d]] /\ ttl' = (Window \div Second) * Second
    /\ Send(d)
    /\ UNCHANGED <<queue, read, sleep, since, stuck, errors>>

(* A Redis call fails: the error leaves pop_queue_message_w_throttle with  *)
(* whatever it had dequeued; run sleeps for a while (dispatcher_idle_sleep)*)
Fail(d) ==
    /\ pc[d] \in {"ask", "dequeue", "load", "check", "record"}
    /\ errors > 0
    /\ errors' = errors - 1
    /\ stuck' = stuck \cup ({job[d]} \ {None})
    /\ job' = [job EXCEPT ![d] = None]
    /\ cost' = [cost EXCEPT ![d] = None]
    /\ Goto(d, "sleep")
    /\ sleep' = [sleep EXCEPT ![d] = FallbackWait]
    /\ UNCHANGED <<queue, sortedSet, read, since, sent>>

Wake(d) ==
    /\ pc[d] = "sleep" /\ sleep[d] = 0
    /\ Goto(d, "idle")
    /\ UNCHANGED <<queue, sortedSet, job, cost, read, sleep, since, sent, stuck, errors>>

(* One tick of time: the key expires when its time is up. *)
Tick ==
    /\ \A d \in Dispatcher : pc[d] \in {"ask", "check", "record"} => read[d] < MaxDelay
    /\ \/ /\ ttl = 1
          /\ score' = [j \in Job |-> None] /\ ttl' = None
       \/ /\ ttl # 1
          /\ score' = [j \in Job |-> Older(score[j])]
          /\ ttl' = IF ttl = None THEN None ELSE ttl - 1
    /\ read' = [d \in Dispatcher |-> IF pc[d] \in {"ask", "check", "record"} THEN read[d] + 1 ELSE 0]
    /\ sleep' = [d \in Dispatcher |-> IF sleep[d] > 0 THEN sleep[d] - 1 ELSE 0]
    /\ since' = [j \in Job |-> Older(since[j])]
    /\ UNCHANGED <<queue, pc, job, cost, sent, stuck, errors>>

Pop(d) ==
    \/ Begin(d) \/ Ask(d) \/ Dequeue(d) \/ Load(d)
    \/ BeginConsume(d) \/ Check(d) \/ Record(d) \/ Wake(d)

Next == Tick \/ \E d \in Dispatcher : Pop(d) \/ Fail(d)

Spec == Init /\ [][Next]_vars

(* A dispatcher's loop never stops while its process is up, time passes,   *)
(* and a call is answered.                                                 *)
LiveSpec == Spec /\ WF_vars(Tick) /\ \A d \in Dispatcher : WF_vars(Pop(d))

---------------------------------------------------------------------------
(* Properties *)

(* The jobs of some cost dequeued in the last window. *)
InWindow == {j \in Job : since[j] # None /\ since[j] < Window /\ Units(Cost[j]) > 0}

(* The rate limit of throttler.rs: one dispatcher dequeues at most Limit   *)
(* jobs in a window.  Dispatchers that ask before another one has recorded *)
(* its job pass together, at the start of a window and whenever a member   *)
(* leaves it, so that each further one adds at most Limit + 1.             *)
WindowRespected == Cardinality(InWindow) <= (Limit + 1) * Cardinality(Dispatcher) - 1

(* Throttling only delays: every job of the queue is sent to the worker,   *)
(* or was dequeued by a pop that failed later, however the sleeps of       *)
(* pop_queue_message_w_throttle and the expiry of the key fall.            *)
EveryJobSent == <>(Range(Backlog) \subseteq sent \cup stuck)

=============================================================================
