--------------------------- MODULE MCCoordinator ---------------------------
(* Instances of Coordinator for TLC. *)
EXTENDS Coordinator

CONSTANTS j1, j2, j3

(* Two jobs for batches around one that runs by itself. *)
ThreeJobs == <<j1, j2, j3>>

=============================================================================
