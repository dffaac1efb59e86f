--------------------------- MODULE MCUniqueJobs ---------------------------
(* Instances of UniqueJobs for TLC: every constant is given in the cfg. *)
EXTENDS UniqueJobs

=============================================================================
