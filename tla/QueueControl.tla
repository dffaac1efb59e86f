---------------------------- MODULE QueueControl ----------------------------
(***************************************************************************)
(* The permit counter of one queue (semaphores_map.rs).  A dispatcher      *)
(* calls acquire() in a loop and hands the permit to a job; dropping the   *)
(* permit, and the watcher's apply_config, make room again and wake the    *)
(* callers that wait.  The state is behind a mutex; the wake-up comes      *)
(* after the mutex is released, so a caller on another thread may run in   *)
(* between.                                                                *)
(***************************************************************************)
EXTENDS Integers, FiniteSets

CONSTANTS
    Caller,     \* tasks that call acquire()
    Permit,     \* bound: QueuePermits that may exist at once
    None,       \* a config without a concurrency
    Config      \* configs apply_config may be given

ASSUME PermitAssumption == IsFiniteSet(Permit)
ASSUME ConfigAssumption ==
    Config \subseteq [concurrency : Nat \cup {None}, state : {"active", "paused"}]

VARIABLES
    active,       \* permits handed out
    concurrency,  \* limit
    queue_state,  \* active or paused
    pc,           \* where each caller is in acquire()
    woken,        \* its Notified future has been completed
    permit,       \* of each permit: free, held, or dropped and not yet signalled
    applied       \* apply_config has changed the state and not yet signalled

vars == <<active, concurrency, queue_state, pc, woken, permit, applied>>

(* QueueControl::new *)
Init ==
    /\ active = 0
    /\ \E cfg \in Config :
         /\ concurrency = IF cfg.concurrency = None THEN 1 ELSE cfg.concurrency
         /\ queue_state = cfg.state
    /\ pc = [c \in Caller |-> "calling"]
    /\ woken = [c \in Caller |-> FALSE]
    /\ permit = [x \in Permit |-> "free"]
    /\ applied = FALSE

Room == queue_state = "active" /\ active < concurrency

(* Notify::notify_waiters completes every Notified future that exists. *)
NotifyWaiters ==
    woken' = [c \in Caller |-> woken[c] \/ pc[c] /= "calling"]

---------------------------------------------------------------------------
(* The Notified future is made before the state is looked at. *)
Arm(c) ==
    /\ pc[c] = "calling"
    /\ pc' = [pc EXCEPT ![c] = "armed"]
    /\ woken' = [woken EXCEPT ![c] = FALSE]
    /\ UNCHANGED <<active, concurrency, queue_state, permit, applied>>

(* Under the mutex: room for one more.  The caller uses the permit and     *)
(* calls again.                                                            *)
Acquire(c) ==
    /\ pc[c] = "armed"
    /\ Room
    /\ active' = active + 1
    /\ \E x \in Permit : permit[x] = "free" /\ permit' = [permit EXCEPT ![x] = "held"]
    /\ pc' = [pc EXCEPT ![c] = "calling"]
    /\ UNCHANGED <<concurrency, queue_state, woken, applied>>

(* Under the mutex: no room; the mutex is released ... *)
FindNoRoom(c) ==
    /\ pc[c] = "armed"
    /\ ~Room
    /\ pc' = [pc EXCEPT ![c] = "refused"]
    /\ UNCHANGED <<active, concurrency, queue_state, woken, permit, applied>>

(* Mutant: the Notified future is made only here, after the look. *)
AwaitLate(c) ==
    /\ pc[c] = "refused"
    /\ pc' = [pc EXCEPT ![c] = "waiting"]
    /\ woken' = [woken EXCEPT ![c] = FALSE]
    /\ UNCHANGED <<active, concurrency, queue_state, permit, applied>>

(* ... and the Notified future is awaited. *)
Await(c) ==
    /\ pc[c] = "refused"
    /\ pc' = [pc EXCEPT ![c] = "waiting"]
    /\ UNCHANGED <<active, concurrency, queue_state, woken, permit, applied>>

(* The future completes and the loop starts over. *)
Wake(c) ==
    /\ pc[c] = "waiting"
    /\ woken[c]
    /\ pc' = [pc EXCEPT ![c] = "calling"]
    /\ UNCHANGED <<active, concurrency, queue_state, woken, permit, applied>>

(* Mutant: the permit is not given back. *)
ReleaseNothing(x) ==
    /\ permit[x] = "held"
    /\ permit' = [permit EXCEPT ![x] = "dropped"]
    /\ UNCHANGED <<active, concurrency, queue_state, pc, woken, applied>>

(* Mutant: a permit can be given back twice, and the count wraps. *)
ReleaseTwice(x) ==
    /\ permit[x] \in {"held", "dropped"}
    /\ permit' = [permit EXCEPT ![x] = "dropped"]
    /\ active' = active - 1
    /\ UNCHANGED <<concurrency, queue_state, pc, woken, applied>>

(* Drop of a permit, release(): saturating_sub under the mutex ... *)
Release(x) ==
    /\ permit[x] = "held"
    /\ permit' = [permit EXCEPT ![x] = "dropped"]
    /\ active' = IF active > 0 THEN active - 1 ELSE 0
    /\ UNCHANGED <<concurrency, queue_state, pc, woken, applied>>

(* ... and the signal after it *)
SignalRelease(x) ==
    /\ permit[x] = "dropped"
    /\ permit' = [permit EXCEPT ![x] = "free"]
    /\ NotifyWaiters
    /\ UNCHANGED <<active, concurrency, queue_state, pc, applied>>

(* apply_config by the queue's config watcher: under the mutex ... *)
ApplyConfig(cfg) ==
    /\ ~applied
    /\ concurrency' = IF cfg.concurrency = None THEN concurrency ELSE cfg.concurrency
    /\ queue_state' = cfg.state
    /\ applied' = TRUE
    /\ UNCHANGED <<active, pc, woken, permit>>

(* Mutant: apply_config does not wake anyone. *)
SignalNobody ==
    /\ applied
    /\ applied' = FALSE
    /\ UNCHANGED <<active, concurrency, queue_state, pc, woken, permit>>

(* ... and the signal after it *)
SignalConfig ==
    /\ applied
    /\ applied' = FALSE
    /\ NotifyWaiters
    /\ UNCHANGED <<active, concurrency, queue_state, pc, permit>>

Next ==
    \/ \E c \in Caller : Arm(c) \/ Acquire(c) \/ FindNoRoom(c) \/ Await(c) \/ Wake(c)
    \/ \E x \in Permit : Release(x) \/ SignalRelease(x)
    \/ \E cfg \in Config : ApplyConfig(cfg)
    \/ SignalConfig

Spec == Init /\ [][Next]_vars

(* The callers' tasks are polled when woken, and code that has left the    *)
(* mutex reaches its notify_waiters.  Jobs need not finish and configs     *)
(* need not change.                                                        *)
Fairness ==
    /\ \A c \in Caller : WF_vars(Arm(c) \/ Acquire(c) \/ FindNoRoom(c) \/ Await(c) \/ Wake(c))
    /\ \A x \in Permit : WF_vars(SignalRelease(x))
    /\ WF_vars(SignalConfig)

LiveSpec == Spec /\ Fairness

---------------------------------------------------------------------------
TypeOK ==
    /\ active \in Nat
    /\ concurrency \in Nat
    /\ queue_state \in {"active", "paused"}
    /\ pc \in [Caller -> {"calling", "armed", "refused", "waiting"}]
    /\ woken \in [Caller -> BOOLEAN]
    /\ permit \in [Permit -> {"free", "held", "dropped"}]
    /\ applied \in BOOLEAN

(* The counter that limits the queue, and that shutdown waits on           *)
(* (busy_count), is the number of permits that exist: none leaks, and the  *)
(* saturating_sub of release never hides a permit given back twice.        *)
ActiveCountsPermits == active = Cardinality({x \in Permit : permit[x] = "held"})

(* A caller asleep in acquire() while there is room has been woken, or     *)
(* someone is about to call notify_waiters: no wake-up falls between the   *)
(* look at the state and the await.                                        *)
NoLostWakeup ==
    \A c \in Caller : pc[c] \in {"refused", "waiting"} /\ Room =>
        woken[c] \/ applied \/ \E x \in Permit : permit[x] = "dropped"

(* A caller that waits while there is room stops waiting, unless the room  *)
(* is taken by others or by a new config.                                  *)
WaiterServed == \A c \in Caller : pc[c] = "waiting" /\ Room ~> pc[c] /= "waiting" \/ ~Room

=============================================================================
