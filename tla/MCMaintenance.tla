-------------------------- MODULE MCMaintenance --------------------------
(* Small instance of Maintenance, with visitors of the dashboard, for TLC. *)
EXTENDS Dashboard

CONSTANTS j1, j2, r1, r2, d1, p1, p2, a1, a2

MCDelay == (j1 :> 0) @@ (j2 :> 1) @@ (r1 :> 0) @@ (r2 :> 0) @@ (d1 :> 0)

(* What a behaviour is about: the operators, the cleanup, the cron loops. *)
MCPlans == {
    {"enqueue", "enqueue_in", "wipe", "delete"},
    {"enqueue", "wipe", "cleanup"},
    {"retry_all", "wipe", "cleanup", "call_fails"},
    {"enqueue", "revive", "wipe_dead", "job_fails", "call_fails", "drain_fails"},
    {"cron", "cron_fails"},
    {"browse", "enqueue", "revive", "job_fails"},
    {"browse", "retry_all", "delete"} }

==========================================================================
