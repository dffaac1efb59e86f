--------------------------- MODULE JobRefinement ---------------------------
(* JobLifecycle implements JobService. *)
EXTENDS JobLifecycle

(* A job is running from the write of started_at until the pipe that       *)
(* settles it or the write that schedules its retry.                       *)
Running(j) == \E w \in Worker : pc[w] \in {"running", "released", "retrying"} /\ job[w] = j

StatusOf(j) ==
    IF j \notin accepted THEN "new"
    ELSE IF j \in settled THEN "settled"
    ELSE IF ~Safe(j) THEN "lost"
    ELSE IF Running(j) THEN "running"
    ELSE "waiting"

Abstract == INSTANCE JobService WITH
    status <- [j \in Job |-> StatusOf(j)],
    retries <- [j \in Job |-> IF jobs[j] = None THEN 0 ELSE jobs[j].retries]

(* The lists, sets, loops and heartbeats of several processes behave like  *)
(* the service a client expects: an outcome is final, a lost job does not  *)
(* come back half way, an interrupted run is no retry, every failed run is *)
(* counted once, and nothing but the end of a run brings a job back to     *)
(* wait.                                                                   *)
ImplementsService == Abstract!Spec

=============================================================================
