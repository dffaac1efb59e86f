-------------------------- MODULE MCJobLifecycle --------------------------
(* Instances of JobLifecycle for TLC: two processes, one or two permits. *)
EXTENDS JobRefinement, TLC

CONSTANTS j1, j2, p1, p2, w1, w2

(* One permit on each process. *)
OnePermitEach == (w1 :> p1) @@ (w2 :> p2)

(* Two permits on p1; p2 serves other queues and runs only the loops. *)
BothPermitsOnFirst == (w1 :> p1) @@ (w2 :> p1)

(* Permits of one process can be interchanged (with BothPermitsOnFirst). *)
Interchangeable == Permutations({w1, w2})

(* Scenarios: which disturbances may happen to which process. *)
BothCrash == {"crash"} \X {p1, p2}
FirstCrashes == {<<"crash", p1>>}
FirstLeaves == {"crash", "stop"} \X {p1}
FirstSuffersAll == FaultKinds \X {p1}
=============================================================================
