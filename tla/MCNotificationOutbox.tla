------------------------ MODULE MCNotificationOutbox ------------------------
(* Small instances of NotificationOutbox for TLC. *)
EXTENDS NotificationOutbox, TLC

CONSTANTS f1, o1

\* Every fact belongs to one organization.
OneOrg == [f \in Facts |-> o1]

\* Runners are interchangeable.
RunnerSymmetry == Permutations(Runners)
=============================================================================
