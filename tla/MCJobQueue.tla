----------------------------- MODULE MCJobQueue -----------------------------
(* Instances of JobQueue for TLC. *)
EXTENDS JobQueue

NoSeeds == << >>
RecoverOnly == <<"recover_stuck_jobs">>
=============================================================================
