----------------------------- MODULE JobService -----------------------------
(***************************************************************************)
(* What oxana promises of a job, seen from outside: it is accepted, it     *)
(* waits, it is run by one worker at a time, it is retried a bounded       *)
(* number of times, and its outcome is final.  Redis, processes, loops and *)
(* heartbeats do not appear.  JobRefinement shows that JobLifecycle, with  *)
(* processes that crash at any point, is an implementation.                *)
(***************************************************************************)
EXTENDS Naturals

CONSTANTS
    Job,         \* job ids
    MaxRetries   \* worker.max_retries

VARIABLES
    status,      \* of each job
    retries      \* how often a job that is not settled was retried

Status == {"new", "waiting", "running", "settled", "lost"}

vars == <<status, retries>>

Init ==
    /\ status = [j \in Job |-> "new"]
    /\ retries = [j \in Job |-> 0]

Become(j, s) == status' = [status EXCEPT ![j] = s]

Accept(j) ==
    /\ status[j] = "new"
    /\ Become(j, "waiting")
    /\ UNCHANGED retries

Begin(j) ==
    /\ status[j] = "waiting"
    /\ Become(j, "running")
    /\ UNCHANGED retries

(* The job failed: it waits again, and this is counted, once. *)
Retry(j) ==
    /\ status[j] = "running"
    /\ retries[j] < MaxRetries
    /\ Become(j, "waiting")
    /\ retries' = [retries EXCEPT ![j] = @ + 1]

(* It succeeded, or was killed, or must not be resurrected. *)
Settle(j) ==
    /\ status[j] \in {"waiting", "running"}
    /\ Become(j, "settled")
    /\ retries' = [retries EXCEPT ![j] = 0]

(* A process dies: jobs it was running wait again, which is no retry, and  *)
(* jobs it carried between two Redis keys are lost.                        *)
Interrupt ==
    /\ \E hit \in SUBSET { j \in Job : status[j] = "running" },
          gone \in SUBSET { j \in Job : status[j] \in {"waiting", "running"} } :
         /\ hit \cup gone /= {}
         /\ status' = [j \in Job |-> IF j \in gone THEN "lost"
                                     ELSE IF j \in hit THEN "waiting" ELSE status[j]]
    /\ UNCHANGED retries

Next == Interrupt \/ \E j \in Job : Accept(j) \/ Begin(j) \/ Retry(j) \/ Settle(j)

Spec == Init /\ [][Next]_vars

=============================================================================
