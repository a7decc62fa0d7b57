--------------------------- MODULE DeliveryLedger ---------------------------
(***************************************************************************)
(* What a delivery queue of the platform promises about one row per        *)
(* message and receiver, whatever runners, leases and crashes do: a row    *)
(* says "sent" only of a message its receiver took, and a settled row      *)
(* changes only when an operator starts it over or it is removed.          *)
(* WebhookQueue and NotificationOutbox implement it.                       *)
(***************************************************************************)
EXTENDS Naturals

CONSTANTS
  Rows,         \* delivery rows
  Requeueable,  \* the settled states an operator may start over
  Removable     \* TRUE: rows may be deleted

VARIABLES
  status,  \* row -> absent, pending, sent, failed or skipped
  taken    \* row -> the receiver has taken it since the row was last fresh

LedgerInit ==
  /\ status = [d \in Rows |-> "absent"]
  /\ taken = [d \in Rows |-> FALSE]

\* What one step may do to a row.  Only an operator's requeue and a removal
\* forget that the receiver has taken the message.
Taken(d) == status'[d] = status[d] /\ taken'[d]
Enqueued(d) == status[d] = "absent" /\ status'[d] \in {"pending", "skipped"}
Confirmed(d) == status[d] = "pending" /\ taken[d] /\ status'[d] = "sent"
GivenUp(d) == status[d] = "pending" /\ status'[d] \in {"failed", "skipped"}
Requeued(d) == status[d] \in Requeueable /\ status'[d] = "pending"
Removed(d) == Removable /\ status'[d] = "absent"

Move(d) ==
  \/ Taken(d) \/ Requeued(d) \/ Removed(d)
  \/ /\ taken'[d] = taken[d]
     /\ status'[d] = status[d] \/ Enqueued(d) \/ Confirmed(d) \/ GivenUp(d)

\* One statement may move many rows.
LedgerNext ==
  /\ status' = [d \in Rows |-> status'[d]]
  /\ taken' = [d \in Rows |-> taken'[d]]
  /\ \A d \in Rows : Move(d)

LedgerSpec == LedgerInit /\ [][LedgerNext]_<<status, taken>>
=============================================================================
