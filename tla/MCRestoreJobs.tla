---------------------------- MODULE MCRestoreJobs ---------------------------
(* Small instances of RestoreJobs for TLC. *)
EXTENDS RestoreJobs
=============================================================================
