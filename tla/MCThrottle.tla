----------------------------- MODULE MCThrottle -----------------------------
(* Instances of Throttle for TLC. *)
EXTENDS Throttle

CONSTANTS j1, j2, j3, j4, j5

(* Jobs of the default cost around a free one and two of cost two. *)
FiveJobs == <<j1, j2, j3, j4, j5>>
MixedCost == [j \in Job |-> CASE j = j3 -> 0 [] j \in {j4, j5} -> 2 [] OTHER -> None]

=============================================================================
