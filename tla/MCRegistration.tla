--------------------------- MODULE MCRegistration ---------------------------
(* Small instance of Registration for TLC: a cron worker, a plain worker   *)
(* for the same job type, a batch worker whose type name is the job name   *)
(* of the cron worker, a cron worker whose arguments {} is not; a prefix   *)
(* that matches a static queue.                                            *)
EXTENDS Registration

CONSTANTS a, b, w

MCWorkers == {
    [worker |-> "W1", name |-> a, legacy |-> {w}, accepts |-> {Empty}, cron |-> "mail",
     batch |-> FALSE, onDemand |-> FALSE],
    [worker |-> "W2", name |-> a, legacy |-> {w, b}, accepts |-> {Empty, "more"}, cron |-> None,
     batch |-> FALSE, onDemand |-> TRUE],
    [worker |-> "W3", name |-> b, legacy |-> {a}, accepts |-> {"more"}, cron |-> None,
     batch |-> TRUE, onDemand |-> TRUE],
    [worker |-> "W4", name |-> b, legacy |-> {b}, accepts |-> {"more"}, cron |-> "ma",
     batch |-> FALSE, onDemand |-> FALSE] }

MCQueues == {
    [key |-> "mail", dynamic |-> FALSE, limit |-> 2],
    [key |-> "ma", dynamic |-> TRUE, limit |-> 1] }

MCKeys == {"mail", "ma"}

MCMatches == [k \in MCKeys |-> IF k = "ma" THEN MCKeys ELSE {k}]

=============================================================================
