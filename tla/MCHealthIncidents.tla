-------------------------- MODULE MCHealthIncidents -------------------------
(* Small instances of HealthIncidents for TLC. *)
EXTENDS HealthIncidents
=============================================================================
