--------------------------- MODULE MCQueueConfig ---------------------------
(* Instances of QueueConfig for TLC. *)
EXTENDS QueueConfig

(* What the watcher can apply with the default and the limits below. *)
Applicable == [concurrency : Limits \cup {Default}, state : State]
(* A config stored as a whole. *)
PausedAtTwo == {[concurrency |-> 2, state |-> "paused"]}

=============================================================================
