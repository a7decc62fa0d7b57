------------------------- MODULE WebhookQueueProofs -------------------------
(***************************************************************************)
(* Proofs about WebhookQueue for any endpoints, tenants, runners, batch    *)
(* size, attempt ceiling, crashes and leases that run out.                 *)
(***************************************************************************)
EXTENDS WebhookQueue, FiniteSetTheorems, TLAPS

-----------------------------------------------------------------------------
(* Rows: every column update of the store yields a row *)

\* The counters of a row are numbers.
LEMMA RowCounters ==
  ASSUME NEW x \in Row PROVE x.attempts \in Nat /\ x.redeliveries \in Nat
  BY DEF Row

\* A queued row, whatever queued it, is a row; so is the absence of one.
LEMMA NewRowType ==
  NewRow \in Row /\ NoRow \in Row
  BY DEF NewRow, NoRow, Row

\* redeliver
LEMMA ReplayType ==
  ASSUME NEW n \in Nat PROVE [NewRow EXCEPT !.redeliveries = n] \in Row
  BY DEF NewRow, NoRow, Row

\* claim_due
LEMMA ClaimType ==
  ASSUME NEW x \in Row, NEW n \in Nat
  PROVE  [x EXCEPT !.attempts = n, !.claim = "live"] \in Row
  BY DEF Row

\* What claim_due leaves of the row.
LEMMA ClaimEffect ==
  ASSUME NEW x \in Row, NEW n \in Nat
  PROVE  LET y == [x EXCEPT !.attempts = n, !.claim = "live"]
         IN  y.status = x.status /\ y.attempts = n /\ y.claim = "live"
  BY DEF Row

\* mark_delivered, mark_failed and cancel_pending_for_disabled
LEMMA SettleType ==
  ASSUME NEW x \in Row, NEW s \in {"delivered", "failed"}
  PROVE  [x EXCEPT !.status = s, !.claim = "none"] \in Row
  BY DEF Row

\* mark_retry
LEMMA RetryType ==
  ASSUME NEW x \in Row PROVE [x EXCEPT !.due = FALSE, !.claim = "none"] \in Row
  BY DEF Row

\* What the mark_* statements leave of the row.
LEMMA MarkEffect ==
  ASSUME NEW x \in Row, NEW s \in {"delivered", "failed"}
  PROVE  /\ [x EXCEPT !.status = s, !.claim = "none"].status = s
         /\ [x EXCEPT !.status = s, !.claim = "none"].attempts = x.attempts
         /\ [x EXCEPT !.due = FALSE, !.claim = "none"].status = x.status
         /\ [x EXCEPT !.due = FALSE, !.claim = "none"].attempts = x.attempts
  BY DEF Row

\* The two columns time moves.
LEMMA ClockType ==
  ASSUME NEW x \in Row
  PROVE  [x EXCEPT !.due = TRUE] \in Row /\ [x EXCEPT !.claim = "expired"] \in Row
<1>1. [x EXCEPT !.due = TRUE] \in Row
  BY DEF Row
<1>2. [x EXCEPT !.claim = "expired"] \in Row
  BY DEF Row
<1> QED
  BY <1>1, <1>2

\* The emission transaction keeps the types of the three tables it writes.
LEMMA RecordType ==
  ASSUME TypeOK, NEW org \in Scopes, NEW targets, Record(org, targets)
  PROVE  /\ lastEvent' \in 0 .. MaxEvents
         /\ event' \in [EventIds -> Event]
         /\ delivery' \in [Deliveries -> Row]
<1>1. lastEvent' \in 0 .. MaxEvents
  BY ConstantsOK DEF TypeOK, Record
<1>2. event' \in [EventIds -> Event]
  BY DEF TypeOK, Record, Event
<1>3. delivery' \in [Deliveries -> Row]
  BY NewRowType DEF TypeOK, Record
<1> QED
  BY <1>1, <1>2, <1>3

-----------------------------------------------------------------------------
(* Type correctness *)

\* Every step of the bus, the runners and the sweep keeps the type invariant.
LEMMA TypePreserved == TypeOK /\ [Next]_vars => TypeOK'
<1> SUFFICES ASSUME TypeOK, [Next]_vars PROVE TypeOK'
  OBVIOUS
<1> USE DEF rows, runner
<1>1. ASSUME NEW e \in Endpoints, InsertEndpoint(e) PROVE TypeOK'
  BY <1>1, ConstantsOK DEF TypeOK, InsertEndpoint
<1>2. ASSUME NEW e \in Endpoints, UpdateEndpoint(e) PROVE TypeOK'
  BY <1>2, ConstantsOK DEF TypeOK, UpdateEndpoint
<1>3. ASSUME NEW e \in Endpoints, DeleteEndpoint(e) PROVE TypeOK'
  <2>1. delivery' \in [Deliveries -> Row] /\ accepts' \in [Deliveries -> Nat]
    BY <1>3, NewRowType DEF TypeOK, DeleteEndpoint
  <2> QED
    BY <1>3, <2>1 DEF TypeOK, DeleteEndpoint
<1>4. ASSUME NEW e \in Endpoints, EmitTo(e) PROVE TypeOK'
  <2>1. OrgOf[e] \in Scopes
    BY ConstantsOK DEF Scopes
  <2> QED
    BY <1>4, <2>1, RecordType DEF TypeOK, EmitTo
<1>5. ASSUME NEW o \in Scopes, Emit("page.published", o) PROVE TypeOK'
  BY <1>5, RecordType DEF TypeOK, Emit
<1>6. ASSUME NEW d \in Deliveries, Redeliver(d) PROVE TypeOK'
  <2>1. delivery[d].redeliveries + 1 \in Nat
    BY RowCounters DEF TypeOK
  <2>2. delivery' \in [Deliveries -> Row]
    BY <1>6, <2>1, ReplayType DEF TypeOK, Redeliver
  <2> QED
    BY <1>6, <2>2 DEF TypeOK, Redeliver
<1>7. ASSUME NEW d \in Deliveries, BackoffElapses(d) PROVE TypeOK'
  <2>1. delivery' \in [Deliveries -> Row]
    BY <1>7, ClockType DEF TypeOK, BackoffElapses
  <2> QED
    BY <1>7, <2>1 DEF TypeOK, BackoffElapses
<1>8. ASSUME NEW d \in Deliveries, LeaseExpires(d) PROVE TypeOK'
  <2>1. delivery' \in [Deliveries -> Row]
    BY <1>8, ClockType DEF TypeOK, LeaseExpires
  <2>2. lapses' \in 0 .. MaxLapses
    BY <1>8, ConstantsOK DEF TypeOK, LeaseExpires
  <2> QED
    BY <1>8, <2>1, <2>2 DEF TypeOK, LeaseExpires
<1>9. ASSUME NEW r \in Runners, CancelDisabled(r) PROVE TypeOK'
  <2>1. delivery' \in [Deliveries -> Row]
    BY <1>9, SettleType DEF TypeOK, CancelDisabled
  <2> QED
    BY <1>9, <2>1 DEF TypeOK, CancelDisabled, Phases
<1>10. ASSUME NEW r \in Runners, NEW S \in SUBSET Deliveries, ClaimDue(r, S) PROVE TypeOK'
  <2>1. \A d \in Deliveries : delivery[d] \in Row /\ delivery[d].attempts + 1 \in Nat
    BY RowCounters DEF TypeOK
  <2>2. delivery' \in [Deliveries -> Row]
    BY <1>10, <2>1, ClaimType DEF TypeOK, ClaimDue
  <2> QED
    BY <1>10, <2>2 DEF TypeOK, ClaimDue, Phases
<1>11. ASSUME NEW r \in Runners, LoadJobs(r) PROVE TypeOK'
  <2>1. Loaded(r) \subseteq Job
    BY RowCounters DEF TypeOK, Loaded, Job, Event, Deliveries
  <2> QED
    BY <1>11, <2>1 DEF TypeOK, LoadJobs, Phases
<1>12. ASSUME NEW r \in Runners, NEW j \in jobs[r], Deliver(r, j) PROVE TypeOK'
  <2>1. j \in Job /\ j.id \in Deliveries /\ j # <<>>
    BY DEF TypeOK, Job
  <2>2. \A ok \in BOOLEAN : [job |-> j, ok |-> ok] \in Sent /\ [job |-> j, ok |-> ok] # NoJob
    BY <2>1 DEF Sent, NoJob
  <2>3. current' \in [Runners -> Sent \cup {NoJob}] /\ current'[r] # NoJob
    BY <1>12, <2>2 DEF TypeOK, Deliver
  <2>4. accepts' \in [Deliveries -> Nat]
    BY <1>12, <2>1 DEF TypeOK, Deliver
  <2> QED
    BY <1>12, <2>3, <2>4 DEF TypeOK, Deliver, Phases
<1>13. ASSUME NEW r \in Runners, phase[r] \in {"settle", "notice"}
       PROVE  current[r] \in Sent /\ current[r].job \in Job /\ current[r].job.id \in Deliveries
  BY <1>13 DEF TypeOK, Sent, Job
<1>14. ASSUME NEW r \in Runners, MarkDelivered(r) PROVE TypeOK'
  <2>1. delivery' \in [Deliveries -> Row]
    BY <1>13, <1>14, SettleType DEF TypeOK, MarkDelivered, WriteRow
  <2> QED
    BY <1>14, <2>1 DEF TypeOK, MarkDelivered, Finish, NextJob, Phases
<1>15. ASSUME NEW r \in Runners, MarkRetry(r) PROVE TypeOK'
  <2>1. delivery' \in [Deliveries -> Row]
    BY <1>13, <1>15, RetryType DEF TypeOK, MarkRetry, WriteRow
  <2> QED
    BY <1>15, <2>1 DEF TypeOK, MarkRetry, Finish, NextJob, Phases
<1>16. ASSUME NEW r \in Runners, MarkFailed(r) PROVE TypeOK'
  <2>1. delivery' \in [Deliveries -> Row]
    BY <1>13, <1>16, SettleType DEF TypeOK, MarkFailed, WriteRow
  <2> QED
    BY <1>16, <2>1 DEF TypeOK, MarkFailed, Finish, Phases
<1>17. ASSUME NEW r \in Runners, EmitFailure(r) PROVE TypeOK'
  <2>1. current[r].job.org \in Scopes
    BY <1>13, <1>17 DEF EmitFailure, Job
  <2>3. /\ lastEvent' \in 0 .. MaxEvents
        /\ event' \in [EventIds -> Event]
        /\ delivery' \in [Deliveries -> Row]
    <3>1. CASE UNCHANGED <<lastEvent, event, delivery>>
      BY <3>1 DEF TypeOK
    <3>2. CASE ~UNCHANGED <<lastEvent, event, delivery>>
      BY <1>17, <2>1, <3>2, RecordType DEF EmitFailure
    <3> QED
      BY <3>1, <3>2
  <2> QED
    BY <1>17, <2>3 DEF TypeOK, EmitFailure, NextJob, Phases
<1>18. ASSUME NEW r \in Runners, Crash(r) PROVE TypeOK'
  BY <1>18, ConstantsOK DEF TypeOK, Crash, Phases
<1>19. ASSUME NEW o \in Scopes, NEW c \in 1 .. lastEvent, SweepDeliveries(o, c) PROVE TypeOK'
  <2>1. c \in 0 .. MaxEvents
    BY ConstantsOK DEF TypeOK
  <2> QED
    BY <1>19, <2>1 DEF TypeOK, SweepDeliveries
<1>20. ASSUME SweepEvents PROVE TypeOK'
  <2>1. delivery' \in [Deliveries -> Row] /\ accepts' \in [Deliveries -> Nat]
    BY <1>20, NewRowType DEF TypeOK, SweepEvents
  <2>2. event' \in [EventIds -> Event]
    BY <1>20 DEF TypeOK, SweepEvents, Event
  <2>3. NoSweep \in [active : BOOLEAN, org : Scopes, cutoff : 0 .. MaxEvents,
                     doomed : SUBSET Deliveries]
    BY ConstantsOK DEF NoSweep, Scopes
  <2> QED
    BY <1>20, <2>1, <2>2, <2>3 DEF TypeOK, SweepEvents
<1>21. ASSUME SweepAborts PROVE TypeOK'
  BY <1>21, ConstantsOK DEF TypeOK, SweepAborts, NoSweep, Scopes
<1>22. CASE UNCHANGED vars
  BY <1>22 DEF TypeOK, vars
<1> QED
  BY <1>1, <1>2, <1>3, <1>4, <1>5, <1>6, <1>7, <1>8, <1>9, <1>10, <1>11, <1>12, <1>14,
     <1>15, <1>16, <1>17, <1>18, <1>19, <1>20, <1>21, <1>22
     DEF Next, Operator, Clock, Tick, Settle, Sweep

\* Nothing is connected, emitted or claimed at the start.
LEMMA TypeInit == Init => TypeOK
  BY ConstantsOK, NewRowType
     DEF Init, TypeOK, NoEvent, NoRow, Row, NoSweep, Event, Names, Scopes, Phases

\* Every row, event and runner-local value stays in its type.
THEOREM TypeCorrect == Spec => []TypeOK
  BY TypeInit, TypePreserved, PTL DEF Spec

-----------------------------------------------------------------------------
(* Tenancy and retention: no assumption on the lease *)

\* Rows and the rows an open sweep has locked belong to recorded events, and
\* the sweep has locked settled rows only.
Fresh == \A d \in Deliveries : Present(d) => d[2] <= lastEvent
Doomed == \A d \in sweep.doomed : d[2] <= lastEvent /\ ~Pending(d)

RetentionInv == TypeOK /\ Fresh /\ Doomed /\ TenantIsolation

\* The emission transaction queues rows of the event's own tenant, for an
\* event id that no row and no open sweep has seen.
LEMMA RecordKeepsRetention ==
  ASSUME RetentionInv, NEW org \in Scopes, NEW targets \in SUBSET Endpoints,
         \A e \in targets : OrgOf[e] = org /\ endpoint[e].state = "live",
         Record(org, targets), UNCHANGED <<endpoint, sweep>>
  PROVE  Fresh' /\ Doomed' /\ TenantIsolation'
<1> USE DEF RetentionInv
<1>1. lastEvent \in Nat /\ lastEvent' = lastEvent + 1 /\ lastEvent + 1 \in EventIds
  BY ConstantsOK DEF TypeOK, Record, EventIds
<1>2. \A d \in Deliveries : d[1] \in Endpoints /\ d[2] \in EventIds /\ d[2] \in Nat
  BY ConstantsOK DEF Deliveries, EventIds
<1>3. \A d \in Deliveries : d[2] # lastEvent + 1 =>
         delivery'[d] = delivery[d] /\ event'[d[2]] = event[d[2]]
  BY <1>1, <1>2 DEF TypeOK, Record
<1>4. \A d \in Deliveries : d[2] = lastEvent + 1 => ~Present(d)
  BY <1>1, <1>2 DEF Fresh
<1>5. Fresh'
  BY <1>1, <1>2, <1>3 DEF Fresh, Present
<1>6. Doomed'
  <2> SUFFICES ASSUME NEW d \in sweep'.doomed PROVE d[2] <= lastEvent' /\ ~Pending(d)'
    BY DEF Doomed
  <2>1. d \in Deliveries /\ d[2] <= lastEvent /\ ~Pending(d)
    BY DEF Doomed, TypeOK
  <2> QED
    BY <1>1, <1>2, <1>3, <2>1 DEF Pending
<1>7. TenantIsolation'
  <2> SUFFICES ASSUME NEW d \in Deliveries, Present(d)'
               PROVE  /\ event'[d[2]].stored /\ event'[d[2]].org = OrgOf[d[1]]
                      /\ endpoint'[d[1]].state = "live"
    BY DEF TenantIsolation
  <2>1. CASE d[2] # lastEvent + 1
    BY <1>3, <2>1 DEF TenantIsolation, Present
  <2>2. CASE d[2] = lastEvent + 1
    <3>1. d[1] \in targets
      BY <1>4, <2>2 DEF Record, Present, TypeOK
    <3>2. event'[d[2]] = [stored |-> TRUE, org |-> org]
      BY <1>1, <2>2 DEF Record, TypeOK
    <3> QED
      BY <3>1, <3>2
  <2> QED
    BY <2>1, <2>2
<1> QED
  BY <1>5, <1>6, <1>7

\* The fan-out names live endpoints of the event's organization.
LEMMA FanOutTenant ==
  ASSUME NEW name, NEW org
  PROVE  /\ FanOut(name, org) \in SUBSET Endpoints
         /\ \A e \in FanOut(name, org) : OrgOf[e] = org /\ endpoint[e].state = "live"
  BY DEF FanOut, Enabled

\* A step that leaves endpoints, events and the sweep alone, creates no row
\* and makes no row pending that was not, keeps the retention invariant.
LEMMA RowStepKeepsRetention ==
  ASSUME RetentionInv, TypeOK', UNCHANGED <<endpoint, lastEvent, event, sweep>>,
         \A d \in Deliveries : Present(d)' => Present(d),
         \A d \in sweep.doomed : delivery'[d] = delivery[d]
  PROVE  RetentionInv'
  BY DEF RetentionInv, Fresh, Doomed, TenantIsolation, Present, Pending, TypeOK

\* Every step keeps the retention invariant.
LEMMA RetentionPreserved == RetentionInv /\ [Next]_vars => RetentionInv'
<1> SUFFICES ASSUME RetentionInv, [Next]_vars PROVE RetentionInv'
  OBVIOUS
<1>0. TypeOK /\ TypeOK'
  BY TypePreserved DEF RetentionInv
<1> USE <1>0 DEF rows, runner
<1>1. ASSUME NEW e \in Endpoints, InsertEndpoint(e) PROVE RetentionInv'
  BY <1>1 DEF InsertEndpoint, RetentionInv, Fresh, Doomed, TenantIsolation, Present, Pending, TypeOK
<1>2. ASSUME NEW e \in Endpoints, UpdateEndpoint(e) PROVE RetentionInv'
  BY <1>2 DEF UpdateEndpoint, RetentionInv, Fresh, Doomed, TenantIsolation, Present, Pending, TypeOK
<1>3. ASSUME NEW e \in Endpoints, DeleteEndpoint(e) PROVE RetentionInv'
  <2>1. \A d \in Deliveries : Present(d)' => d[1] # e /\ delivery'[d] = delivery[d]
    BY <1>3 DEF DeleteEndpoint, Present, NoRow
  <2>2. \A d \in Deliveries : Pending(d)' => Pending(d)
    BY <1>3 DEF DeleteEndpoint, Pending, NoRow
  <2>3. Fresh' /\ TenantIsolation'
    BY <1>3, <2>1 DEF DeleteEndpoint, RetentionInv, Fresh, TenantIsolation, Present, TypeOK
  <2>4. Doomed'
    BY <1>3, <2>2 DEF DeleteEndpoint, RetentionInv, Doomed, TypeOK
  <2> QED
    BY <2>3, <2>4 DEF RetentionInv
<1>4. ASSUME NEW e \in Endpoints, EmitTo(e) PROVE RetentionInv'
  <2>1. OrgOf[e] \in Scopes /\ endpoint[e].state = "live" /\ {e} \in SUBSET Endpoints
    BY <1>4, ConstantsOK DEF EmitTo, Scopes
  <2> QED
    BY <1>4, <2>1, RecordKeepsRetention DEF EmitTo, RetentionInv
<1>5. ASSUME NEW o \in Scopes, Emit("page.published", o) PROVE RetentionInv'
  BY <1>5, FanOutTenant, RecordKeepsRetention DEF Emit, RetentionInv
<1>6. ASSUME NEW d \in Deliveries, Redeliver(d) PROVE RetentionInv'
  <2>1. \A x \in Deliveries : x # d => delivery'[x] = delivery[x]
    BY <1>6 DEF Redeliver, TypeOK
  <2>2. Present(d) /\ d \notin sweep.doomed
    BY <1>6 DEF Redeliver, Present, Locked
  <2> QED
    BY <1>6, <2>1, <2>2, RowStepKeepsRetention DEF Redeliver, Present, TypeOK
<1>7. ASSUME NEW d \in Deliveries, BackoffElapses(d) PROVE RetentionInv'
  <2>1. \A x \in Deliveries : x # d => delivery'[x] = delivery[x]
    BY <1>7 DEF BackoffElapses, TypeOK
  <2>2. Present(d) /\ d \notin sweep.doomed
    BY <1>7 DEF BackoffElapses, Present, Pending, RetentionInv, Doomed
  <2> QED
    BY <1>7, <2>1, <2>2, RowStepKeepsRetention DEF BackoffElapses, Present, TypeOK
<1>8. ASSUME NEW d \in Deliveries, LeaseExpires(d) PROVE RetentionInv'
  <2>1. \A x \in Deliveries : x # d => delivery'[x] = delivery[x]
    BY <1>8 DEF LeaseExpires, TypeOK
  <2>2. Present(d) /\ d \notin sweep.doomed
    BY <1>8 DEF LeaseExpires, Present, Pending, RetentionInv, Doomed
  <2> QED
    BY <1>8, <2>1, <2>2, RowStepKeepsRetention DEF LeaseExpires, Present, TypeOK
<1>9. ASSUME NEW r \in Runners, CancelDisabled(r) PROVE RetentionInv'
  <2>1. \A x \in Deliveries : ~Pending(x) => delivery'[x] = delivery[x]
    BY <1>9 DEF CancelDisabled
  <2>2. \A x \in Deliveries : Pending(x) => Present(x)
    BY DEF Pending, Present
  <2>3. \A x \in Deliveries : Present(x)' => Present(x)
    BY <2>1, <2>2 DEF Present
  <2>4. \A x \in sweep.doomed : delivery'[x] = delivery[x]
    BY <2>1 DEF RetentionInv, Doomed, TypeOK
  <2> QED
    BY <1>9, <2>3, <2>4, RowStepKeepsRetention DEF CancelDisabled
<1>10. ASSUME NEW r \in Runners, NEW S \in SUBSET Deliveries, ClaimDue(r, S) PROVE RetentionInv'
  <2>1. \A x \in Deliveries : ~Pending(x) => delivery'[x] = delivery[x]
    BY <1>10 DEF ClaimDue, Due
  <2>2. \A x \in Deliveries : Pending(x) => Present(x)
    BY DEF Pending, Present
  <2>3. \A x \in Deliveries : Present(x)' => Present(x)
    BY <2>1, <2>2 DEF Present
  <2>4. \A x \in sweep.doomed : delivery'[x] = delivery[x]
    BY <2>1 DEF RetentionInv, Doomed, TypeOK
  <2> QED
    BY <1>10, <2>3, <2>4, RowStepKeepsRetention DEF ClaimDue
<1>11. ASSUME NEW r \in Runners, LoadJobs(r) PROVE RetentionInv'
  BY <1>11, RowStepKeepsRetention DEF LoadJobs, Present
<1>12. ASSUME NEW r \in Runners, NEW j \in jobs[r], Deliver(r, j) PROVE RetentionInv'
  BY <1>12, RowStepKeepsRetention DEF Deliver, Present
<1>13. ASSUME NEW d \in Deliveries, NEW new, WriteRow(d, new),
              UNCHANGED <<endpoint, lastEvent, event, sweep>>
       PROVE  RetentionInv'
  <2>1. \A x \in Deliveries : x # d \/ ~Present(d) => delivery'[x] = delivery[x]
    BY <1>13 DEF WriteRow, TypeOK
  <2>2. d \notin sweep.doomed
    BY <1>13 DEF WriteRow, Locked
  <2>3. \A x \in Deliveries : Present(x)' => Present(x)
    BY <2>1 DEF Present
  <2>4. \A x \in sweep.doomed : delivery'[x] = delivery[x]
    BY <2>1, <2>2 DEF TypeOK
  <2> QED
    BY <1>13, <2>3, <2>4, RowStepKeepsRetention
<1>14. ASSUME NEW r \in Runners, Settle(r) PROVE RetentionInv'
  <2>1. current[r].job.id \in Deliveries
    BY <1>14 DEF Settle, MarkDelivered, MarkRetry, MarkFailed, TypeOK, Sent, Job
  <2> QED
    BY <1>13, <1>14, <2>1 DEF Settle, MarkDelivered, MarkRetry, MarkFailed, Finish
<1>15. ASSUME NEW r \in Runners, EmitFailure(r) PROVE RetentionInv'
  <2>1. current[r].job.org \in Scopes
    BY <1>15 DEF EmitFailure, TypeOK, Sent, Job
  <2>2. CASE UNCHANGED <<lastEvent, event, delivery>>
    BY <1>15, <2>2, RowStepKeepsRetention DEF EmitFailure, Present
  <2>3. CASE ~UNCHANGED <<lastEvent, event, delivery>>
    BY <1>15, <2>1, <2>3, FanOutTenant, RecordKeepsRetention DEF EmitFailure, RetentionInv
  <2> QED
    BY <2>2, <2>3
<1>16. ASSUME NEW r \in Runners, Crash(r) PROVE RetentionInv'
  BY <1>16, RowStepKeepsRetention DEF Crash, Present
<1>17. ASSUME NEW o \in Scopes, NEW c \in 1 .. lastEvent, SweepDeliveries(o, c) PROVE RetentionInv'
  <2>1. \A d \in sweep'.doomed : d \in Deliveries /\ Present(d) /\ d[2] \in Sweepable(o, c)
    BY <1>17 DEF SweepDeliveries
  <2>2. \A d \in Deliveries : d = <<d[1], d[2]>> /\ d[1] \in Endpoints
    BY DEF Deliveries
  <2>3. \A d \in sweep'.doomed : ~Pending(d) /\ d[2] <= lastEvent
    BY <2>1, <2>2 DEF Sweepable, RetentionInv, Fresh
  <2> QED
    BY <1>17, <2>3 DEF SweepDeliveries, RetentionInv, Fresh, Doomed, TenantIsolation, Present, Pending
<1>18. ASSUME SweepEvents PROVE RetentionInv'
  <2>1. \A d \in Deliveries : Present(d)' =>
          /\ Present(d) /\ delivery'[d] = delivery[d]
          /\ d[2] \notin Sweepable(sweep.org, sweep.cutoff)
    BY <1>18 DEF SweepEvents, Present, NoRow
  <2>2. \A d \in Deliveries : Present(d)' => event'[d[2]] = event[d[2]]
    BY <1>18, <2>1 DEF SweepEvents, Deliveries
  <2> QED
    BY <1>18, <2>1, <2>2
       DEF SweepEvents, NoSweep, RetentionInv, Fresh, Doomed, TenantIsolation, Present
<1>19. ASSUME SweepAborts PROVE RetentionInv'
  BY <1>19 DEF SweepAborts, NoSweep, RetentionInv, Fresh, Doomed, TenantIsolation, Present
<1>20. CASE UNCHANGED vars
  BY <1>20 DEF vars, RetentionInv, Fresh, Doomed, TenantIsolation, Present, Pending
<1> QED
  BY <1>1, <1>2, <1>3, <1>4, <1>5, <1>6, <1>7, <1>8, <1>9, <1>10, <1>11, <1>12, <1>14,
     <1>15, <1>16, <1>17, <1>18, <1>19, <1>20
     DEF Next, Operator, Clock, Tick, Sweep

LEMMA RetentionInit == Init => RetentionInv
  BY TypeInit DEF Init, RetentionInv, Fresh, Doomed, TenantIsolation, Present, NoRow, NoSweep

\* For any number of tenants and runners, and whatever the lease: a delivery
\* belongs to a stored event of its endpoint's own organization.
THEOREM TenantsIsolated == Spec => []TenantIsolation
<1>1. Spec => []RetentionInv
  BY RetentionInit, RetentionPreserved, PTL DEF Spec
<1> QED
  BY <1>1, PTL DEF RetentionInv

\* Retention "deletes" no "fact a receiver is still owed", for any number of
\* runners and whatever the lease.
THEOREM PendingNeverSwept == Spec => NoFactDropped
<1>1. RetentionInv /\ [Next]_vars =>
        [\A d \in Deliveries :
           Pending(d) /\ delivery'[d].status = "absent"
             => endpoint'[d[1]].state = "removed"]_vars
  <2> SUFFICES ASSUME RetentionInv, Next, NEW d \in Deliveries,
                      Pending(d), delivery'[d].status = "absent"
               PROVE  endpoint'[d[1]].state = "removed"
    OBVIOUS
  <2> USE DEF RetentionInv, Pending
  <2>1. TypeOK /\ delivery'[d] # delivery[d] /\ d[1] \in Endpoints /\ d = <<d[1], d[2]>>
    BY DEF Deliveries
  <2>2. ASSUME NEW e \in Endpoints, DeleteEndpoint(e) PROVE endpoint'[d[1]].state = "removed"
    BY <2>1, <2>2 DEF DeleteEndpoint, TypeOK
  <2>3. ASSUME NEW o, NEW targets, Record(o, targets) PROVE FALSE
    BY <2>1, <2>3 DEF Record, NewRow, NoRow
  <2>4. ~SweepEvents
    <3> SUFFICES ASSUME SweepEvents PROVE FALSE
      OBVIOUS
    <3>1. d \notin sweep.doomed
      BY DEF Doomed
    <3>2. d[2] \notin Sweepable(sweep.org, sweep.cutoff)
      BY <2>1 DEF Sweepable
    <3> QED
      BY <2>1, <3>1, <3>2 DEF SweepEvents
  <2>5. ASSUME NEW x \in Deliveries, Redeliver(x) \/ BackoffElapses(x) \/ LeaseExpires(x) PROVE FALSE
    <3>1. ~Redeliver(x)
      BY <2>1 DEF Redeliver, NewRow, NoRow, TypeOK
    <3>2. ~BackoffElapses(x)
      BY <2>1 DEF BackoffElapses, TypeOK, Row
    <3>3. ~LeaseExpires(x)
      <4>1. delivery[x] \in Row /\ [delivery[x] EXCEPT !.claim = "expired"].status = delivery[x].status
        BY <2>1 DEF TypeOK, Row
      <4> QED
        BY <2>1, <4>1 DEF LeaseExpires, TypeOK
    <3> QED
      BY <2>5, <3>1, <3>2, <3>3
  <2>6. ASSUME NEW r \in Runners, CancelDisabled(r) PROVE FALSE
    BY <2>1, <2>6 DEF CancelDisabled, TypeOK, Row
  <2>7. ASSUME NEW r \in Runners, NEW S \in SUBSET Deliveries, ClaimDue(r, S) PROVE FALSE
    <3>1. delivery[d] \in Row /\ delivery[d].attempts + 1 \in Nat
      BY RowCounters DEF TypeOK
    <3>2. delivery'[d] = [delivery[d] EXCEPT !.attempts = delivery[d].attempts + 1, !.claim = "live"]
      BY <2>1, <2>7 DEF ClaimDue
    <3> QED
      BY <3>1, <3>2, ClaimEffect
  <2>8. ASSUME NEW r \in Runners, Settle(r) PROVE FALSE
    <3>1. current[r].job.id \in Deliveries /\ delivery[current[r].job.id] \in Row
      BY <2>8 DEF Settle, MarkDelivered, MarkRetry, MarkFailed, TypeOK, Sent, Job
    <3>2. d = current[r].job.id
      BY <2>1, <2>8, <3>1 DEF Settle, MarkDelivered, MarkRetry, MarkFailed, WriteRow, TypeOK
    <3>3. CASE MarkDelivered(r)
      BY <3>1, <3>2, <3>3, MarkEffect, <2>1 DEF MarkDelivered, WriteRow, TypeOK
    <3>4. CASE MarkRetry(r)
      BY <3>1, <3>2, <3>4, MarkEffect, <2>1 DEF MarkRetry, WriteRow, TypeOK
    <3>5. CASE MarkFailed(r)
      BY <3>1, <3>2, <3>5, MarkEffect, <2>1 DEF MarkFailed, WriteRow, TypeOK
    <3> QED
      BY <2>8, <3>3, <3>4, <3>5 DEF Settle
  <2>9. ASSUME NEW r \in Runners, EmitFailure(r) PROVE FALSE
    BY <2>1, <2>3, <2>9 DEF EmitFailure
  <2> QED
    BY <2>1, <2>2, <2>3, <2>4, <2>5, <2>6, <2>7, <2>8, <2>9
       DEF Next, Operator, Clock, Tick, Sweep, Emit, EmitTo, InsertEndpoint, UpdateEndpoint,
           LoadJobs, Deliver, Crash, SweepDeliveries, SweepAborts, rows
<1> QED
  BY <1>1, RetentionInit, RetentionPreserved, PTL DEF Spec, NoFactDropped

-----------------------------------------------------------------------------
(* What a step does to a row *)

\* The columns that count and the acceptances stay as they are.
Same(d) ==
  /\ delivery'[d].status = delivery[d].status /\ delivery'[d].claim = delivery[d].claim
  /\ delivery'[d].attempts = delivery[d].attempts /\ accepts'[d] = accepts[d]

\* The row leaves with its endpoint or its event.
Gone(d) ==
  /\ delivery'[d].status = "absent" /\ delivery'[d].claim = "none"
  /\ delivery'[d].attempts = 0 /\ accepts'[d] = 0

\* redeliver
Replayed(d) ==
  /\ delivery[d].status \in {"delivered", "failed"}
  /\ delivery'[d].status = "pending" /\ delivery'[d].claim = "none"
  /\ delivery'[d].attempts = 0 /\ accepts'[d] = 0

\* enqueue_fanout, under an event id that was never used
Born(d) ==
  /\ d[2] = lastEvent + 1 /\ delivery[d].status = "absent"
  /\ delivery'[d].status = "pending" /\ delivery'[d].claim = "none"
  /\ delivery'[d].attempts = 0 /\ accepts'[d] = accepts[d]

Expired(d) ==
  /\ Pending(d) /\ delivery[d].claim = "live"
  /\ delivery'[d].status = "pending" /\ delivery'[d].claim = "expired"
  /\ delivery'[d].attempts = delivery[d].attempts /\ accepts'[d] = accepts[d]

\* cancel_pending_for_disabled
Cancelled(d) ==
  /\ Pending(d) /\ delivery[d].claim # "live"
  /\ delivery'[d].status = "failed" /\ delivery'[d].claim = "none"
  /\ delivery'[d].attempts = delivery[d].attempts /\ accepts'[d] = accepts[d]

\* claim_due
Taken(d) ==
  /\ Pending(d) /\ delivery[d].claim # "live"
  /\ delivery'[d].status = "pending" /\ delivery'[d].claim = "live"
  /\ delivery'[d].attempts = delivery[d].attempts + 1 /\ accepts'[d] = accepts[d]

LEMMA NewRowColumns ==
  /\ NewRow.status = "pending" /\ NewRow.claim = "none" /\ NewRow.attempts = 0
  /\ NoRow.status = "absent" /\ NoRow.claim = "none" /\ NoRow.attempts = 0
  /\ \A n : LET y == [NewRow EXCEPT !.redeliveries = n]
            IN  y.status = "pending" /\ y.claim = "none" /\ y.attempts = 0
  BY DEF NewRow, NoRow

\* The emission transaction queues rows under a new id and keeps the others.
LEMMA RecordMoves ==
  ASSUME RetentionInv, NEW o, NEW targets, Record(o, targets), accepts' = accepts
  PROVE  lastEvent' = lastEvent + 1 /\ \A d \in Deliveries : Same(d) \/ Born(d)
<1>1. lastEvent' = lastEvent + 1
  BY DEF Record
<1>2. ASSUME NEW d \in Deliveries PROVE Same(d) \/ Born(d)
  <2>1. d[2] \in Nat /\ lastEvent \in Nat
    BY DEF RetentionInv, TypeOK, Deliveries, EventIds
  <2>2. CASE delivery'[d] = delivery[d]
    BY <2>2 DEF Same
  <2>3. CASE delivery'[d] # delivery[d]
    <3>1. d[2] = lastEvent + 1 /\ delivery'[d] = NewRow
      BY <2>3 DEF Record
    <3>2. ~Present(d)
      BY <2>1, <3>1 DEF RetentionInv, Fresh
    <3> QED
      BY <3>1, <3>2, NewRowColumns DEF Born, Present
  <2> QED
    BY <2>2, <2>3
<1> QED
  BY <1>1, <1>2

\* Steps of operators, of the retention worker and of the backoff.
Outside ==
  Operator \/ Sweep \/ (\E d \in Deliveries : BackoffElapses(d)) \/ UNCHANGED vars

LEMMA OutsideMoves ==
  ASSUME RetentionInv, Outside
  PROVE  /\ UNCHANGED <<runner, crashes, lapses>>
         /\ lastEvent' = lastEvent \/ lastEvent' = lastEvent + 1
         /\ \A d \in Deliveries : Same(d) \/ Gone(d) \/ Replayed(d) \/ Born(d)
<1> DEFINE Goal == /\ UNCHANGED <<runner, crashes, lapses>>
                   /\ lastEvent' = lastEvent \/ lastEvent' = lastEvent + 1
                   /\ \A d \in Deliveries : Same(d) \/ Gone(d) \/ Replayed(d) \/ Born(d)
<1>0. TypeOK
  BY DEF RetentionInv
<1>1. ASSUME UNCHANGED <<delivery, accepts, lastEvent, crashes, lapses>>, UNCHANGED runner
      PROVE  Goal
  BY <1>1 DEF Same
<1>2. ASSUME NEW e \in Endpoints, InsertEndpoint(e) \/ UpdateEndpoint(e) PROVE Goal
  BY <1>1, <1>2 DEF InsertEndpoint, UpdateEndpoint
<1>3. ASSUME NEW e \in Endpoints, DeleteEndpoint(e) PROVE Goal
  BY <1>3, NewRowColumns DEF DeleteEndpoint, Same, Gone
<1>4. ASSUME NEW o, NEW targets, Record(o, targets),
             UNCHANGED <<runner, crashes, lapses, accepts>>
      PROVE  Goal
  BY <1>4, RecordMoves
<1>5. ASSUME NEW x \in Deliveries, Redeliver(x) PROVE Goal
  <2>1. \A d \in Deliveries : d # x => Same(d)
    BY <1>0, <1>5 DEF Redeliver, TypeOK, Same
  <2>2. Replayed(x)
    BY <1>0, <1>5, NewRowColumns DEF Redeliver, TypeOK, Replayed
  <2> QED
    BY <1>5, <2>1, <2>2 DEF Redeliver
<1>6. ASSUME NEW x \in Deliveries, BackoffElapses(x) PROVE Goal
  <2>1. \A d \in Deliveries : Same(d)
    BY <1>0, <1>6 DEF BackoffElapses, TypeOK, Row, Same
  <2> QED
    BY <1>6, <2>1 DEF BackoffElapses
<1>7. ASSUME SweepEvents PROVE Goal
  BY <1>7, NewRowColumns DEF SweepEvents, Same, Gone
<1>8. ASSUME SweepAborts \/ \E o \in Scopes, c \in 1 .. lastEvent : SweepDeliveries(o, c)
      PROVE  Goal
  BY <1>1, <1>8 DEF SweepAborts, SweepDeliveries, rows
<1>9. ASSUME UNCHANGED vars PROVE Goal
  BY <1>1, <1>9 DEF vars, runner
<1> HIDE DEF Goal
<1>10. Goal
  BY <1>2, <1>3, <1>4, <1>5, <1>6, <1>7, <1>8, <1>9 DEF Outside, Operator, Sweep, Emit, EmitTo
<1> QED
  BY <1>10 DEF Goal

LEMMA LeaseMoves ==
  ASSUME TypeOK, NEW x \in Deliveries, LeaseExpires(x)
  PROVE  /\ UNCHANGED <<runner, crashes, lastEvent>>
         /\ \/ (\A r \in Runners : ~Holds(r, x)) /\ lapses' = lapses
            \/ lapses' = lapses + 1
         /\ Expired(x) /\ \A d \in Deliveries : d # x => Same(d)
<1>1. \A d \in Deliveries : d # x => Same(d)
  BY DEF LeaseExpires, TypeOK, Same
<1>2. delivery[x] \in Row /\ delivery'[x] = [delivery[x] EXCEPT !.claim = "expired"]
  BY DEF LeaseExpires, TypeOK
<1>3. /\ delivery'[x].status = delivery[x].status /\ delivery'[x].claim = "expired"
      /\ delivery'[x].attempts = delivery[x].attempts
  BY <1>2 DEF Row
<1>4. Expired(x)
  BY <1>3 DEF LeaseExpires, Pending, Expired
<1> QED
  BY <1>1, <1>4 DEF LeaseExpires

LEMMA CancelMoves ==
  ASSUME TypeOK, NEW r \in Runners, CancelDisabled(r)
  PROVE  \A d \in Deliveries : Same(d) \/ Cancelled(d)
<1> TAKE d \in Deliveries
<1>1. delivery[d] \in Row
  BY DEF TypeOK
<1>2. CASE delivery'[d] = delivery[d]
  BY <1>2 DEF CancelDisabled, Same
<1>3. CASE delivery'[d] # delivery[d]
  <2>1. /\ Pending(d) /\ delivery[d].claim # "live"
        /\ delivery'[d] = [delivery[d] EXCEPT !.status = "failed", !.claim = "none"]
    BY <1>3 DEF CancelDisabled
  <2> QED
    BY <1>1, <2>1 DEF CancelDisabled, Row, Cancelled
<1> QED
  BY <1>2, <1>3

LEMMA ClaimMoves ==
  ASSUME TypeOK, NEW r \in Runners, NEW S \in SUBSET Deliveries, ClaimDue(r, S)
  PROVE  /\ \A d \in S : Taken(d)
         /\ \A d \in Deliveries : d \notin S => Same(d)
<1>1. ASSUME NEW d \in S PROVE Taken(d)
  <2>1. delivery[d] \in Row /\ delivery[d].attempts + 1 \in Nat
    BY RowCounters DEF TypeOK
  <2>2. delivery'[d] = [delivery[d] EXCEPT !.attempts = delivery[d].attempts + 1, !.claim = "live"]
    BY DEF ClaimDue
  <2>3. Pending(d) /\ delivery[d].claim # "live"
    BY DEF ClaimDue, Due
  <2> QED
    BY <2>1, <2>2, <2>3, ClaimEffect DEF Taken, Pending, ClaimDue
<1>2. \A d \in Deliveries : d \notin S => Same(d)
  BY DEF ClaimDue, Same
<1> QED
  BY <1>1, <1>2

\* A settling write reaches the row of the job in hand, if it is still there.
LEMMA SettleMoves ==
  ASSUME TypeOK, NEW r \in Runners, Settle(r), NEW own, own = current[r].job.id
  PROVE  /\ own \in Deliveries /\ phase[r] = "settle" /\ lastEvent' = lastEvent
         /\ accepts' = accepts /\ crashes' = crashes /\ lapses' = lapses
         /\ \A d \in Deliveries : d # own \/ ~Present(own) => Same(d)
         /\ Present(own) =>
              /\ delivery'[own].claim = "none" /\ delivery'[own].attempts = delivery[own].attempts
              /\ \/ current[r].ok /\ delivery'[own].status = "delivered"
                 \/ /\ ~current[r].ok /\ current[r].job.attempts >= MaxAttempts
                    /\ delivery'[own].status = "failed"
                 \/ /\ ~current[r].ok /\ current[r].job.attempts < MaxAttempts
                    /\ delivery'[own].status = delivery[own].status
<1>1. phase[r] = "settle" /\ current[r].job.id \in Deliveries
  BY DEF Settle, MarkDelivered, MarkRetry, MarkFailed, TypeOK, Sent, Job
<1>2. /\ lastEvent' = lastEvent /\ accepts' = accepts /\ crashes' = crashes /\ lapses' = lapses
  BY DEF Settle, MarkDelivered, MarkRetry, MarkFailed, Finish
<1>3. \A d \in Deliveries : d # own \/ ~Present(own) => delivery'[d] = delivery[d]
  BY <1>1 DEF Settle, MarkDelivered, MarkRetry, MarkFailed, WriteRow, TypeOK
<1>4. \A d \in Deliveries : d # own \/ ~Present(own) => Same(d)
  BY <1>2, <1>3 DEF Same
<1>5. delivery[own] \in Row
  BY <1>1 DEF TypeOK
<1>6. /\ [delivery[own] EXCEPT !.status = "delivered", !.claim = "none"].claim = "none"
      /\ [delivery[own] EXCEPT !.status = "failed", !.claim = "none"].claim = "none"
      /\ [delivery[own] EXCEPT !.due = FALSE, !.claim = "none"].claim = "none"
  BY <1>5 DEF Row
<1>7. CASE ~Present(own)
  BY <1>1, <1>2, <1>4, <1>7
<1>8. CASE Present(own) /\ MarkDelivered(r)
  BY <1>1, <1>2, <1>4, <1>5, <1>6, <1>8, MarkEffect DEF MarkDelivered, WriteRow, TypeOK
<1>9. CASE Present(own) /\ MarkRetry(r)
  BY <1>1, <1>2, <1>4, <1>5, <1>6, <1>9, MarkEffect DEF MarkRetry, WriteRow, TypeOK
<1>10. CASE Present(own) /\ MarkFailed(r)
  BY <1>1, <1>2, <1>4, <1>5, <1>6, <1>10, MarkEffect DEF MarkFailed, WriteRow, TypeOK
<1> QED
  BY <1>7, <1>8, <1>9, <1>10 DEF Settle

LEMMA NoticeMoves ==
  ASSUME RetentionInv, NEW r \in Runners, EmitFailure(r)
  PROVE  /\ lastEvent' = lastEvent \/ lastEvent' = lastEvent + 1
         /\ \A d \in Deliveries : Same(d) \/ Born(d)
<1>1. CASE UNCHANGED <<lastEvent, event, delivery>>
  BY <1>1 DEF EmitFailure, Same
<1>2. CASE ~UNCHANGED <<lastEvent, event, delivery>>
  BY <1>2, RecordMoves DEF EmitFailure
<1> QED
  BY <1>1, <1>2

-----------------------------------------------------------------------------
(* What a step does to the rows in a runner's hands *)

\* A runner's local state: ids wait for their load only between the two
\* statements of claim_due, a batch is finished before the next one is
\* claimed, it names each row once, and the job being settled has left it.
LocalTo(r) ==
  /\ phase[r] # "load" => claimed[r] = {}
  /\ phase[r] \in {"idle", "claim", "load"} => jobs[r] = {}
  /\ \A j, k \in jobs[r] : j.id = k.id => j = k
  /\ phase[r] = "settle" => \A j \in jobs[r] : j.id # current[r].job.id

Local == \A r \in Runners : LocalTo(r)

\* A runner has the receiver's yes in hand and has not written it yet.
Answered(r, d) == phase[r] = "settle" /\ current[r].ok /\ current[r].job.id = d

\* The runner's refusal puts the row back on the queue: it counts fewer attempts
\* than the ceiling, or will when it loads the row as it is.
HoldsEarly(r, d) ==
  \/ d \in claimed[r] /\ delivery[d].attempts < MaxAttempts
  \/ \E j \in jobs[r] : j.id = d /\ j.attempts < MaxAttempts
  \/ phase[r] = "settle" /\ current[r].job.id = d /\ current[r].job.attempts < MaxAttempts

\* The step leaves the runner's hands as they are.
Still(r) ==
  /\ claimed'[r] = claimed[r] /\ jobs'[r] = jobs[r]
  /\ phase'[r] = "settle" <=> phase[r] = "settle"
  /\ phase[r] = "settle" => current'[r] = current[r]

LEMMA StillHands ==
  ASSUME NEW r \in Runners, Still(r), NEW d
  PROVE  /\ Holds(r, d)' <=> Holds(r, d)
         /\ Answered(r, d)' <=> Answered(r, d)
         /\ delivery'[d].attempts = delivery[d].attempts => (HoldsEarly(r, d)' <=> HoldsEarly(r, d))
<1>1. (Holds(r, d)' <=> Holds(r, d)) /\ (Answered(r, d)' <=> Answered(r, d))
  BY DEF Still, Holds, Answered
<1>2. ASSUME delivery'[d].attempts = delivery[d].attempts
      PROVE  HoldsEarly(r, d)' <=> HoldsEarly(r, d)
  BY <1>2 DEF Still, HoldsEarly
<1> QED
  BY <1>1, <1>2

\* Runners do not reach into each other.
LEMMA OthersStill ==
  ASSUME TypeOK, NEW r \in Runners, Tick(r) \/ Crash(r)
  PROVE  \A q \in Runners \ {r} : /\ Still(q) /\ phase'[q] = phase[q]
                                  /\ current'[q] = current[q]
  BY DEF TypeOK, Tick, Settle, Crash, CancelDisabled, ClaimDue, LoadJobs, Deliver, MarkDelivered,
         MarkRetry, MarkFailed, Finish, EmitFailure, Still

\* Cancelling and the failure notice come before and after a row is in hand.
LEMMA TurnStill ==
  ASSUME TypeOK, NEW r \in Runners, CancelDisabled(r) \/ EmitFailure(r)
  PROVE  /\ Still(r)
         /\ phase'[r] \in {"claim", "idle", "deliver"} /\ phase[r] \in {"idle", "notice"}
         /\ phase'[r] = "claim" => phase[r] = "idle"
         /\ phase'[r] = "idle" => jobs[r] = {}
<1>1. CASE CancelDisabled(r)
  BY <1>1 DEF CancelDisabled, TypeOK, Still
<1>2. CASE EmitFailure(r)
  BY <1>2 DEF EmitFailure, NextJob, TypeOK, Still
<1> QED
  BY <1>1, <1>2

LEMMA ClaimHands ==
  ASSUME TypeOK, NEW r \in Runners, LocalTo(r), NEW S \in SUBSET Deliveries, ClaimDue(r, S)
  PROVE  /\ \A d : /\ ~Holds(r, d) /\ ~Answered(r, d)'
                   /\ Holds(r, d)' <=> d \in S
                   /\ HoldsEarly(r, d)' => delivery'[d].attempts < MaxAttempts
         /\ LocalTo(r)'
<1>1. /\ phase[r] = "claim" /\ claimed[r] = {} /\ jobs[r] = {}
      /\ phase'[r] = IF S = {} THEN "idle" ELSE "load"
      /\ claimed'[r] = S /\ jobs'[r] = {}
  BY DEF ClaimDue, LocalTo, TypeOK
<1> QED
  BY <1>1 DEF Holds, Answered, HoldsEarly, LocalTo

LEMMA LoadHands ==
  ASSUME TypeOK, NEW r \in Runners, LocalTo(r), LoadJobs(r)
  PROVE  /\ \A d : /\ Holds(r, d)' => Holds(r, d)
                   /\ Holds(r, d) /\ Present(d) => Holds(r, d)'
                   /\ ~Answered(r, d) /\ ~Answered(r, d)'
                   /\ HoldsEarly(r, d)' => HoldsEarly(r, d)
         /\ LocalTo(r)'
<1>1. /\ phase[r] = "load" /\ jobs[r] = {} /\ jobs'[r] = Loaded(r) /\ claimed'[r] = {}
      /\ phase'[r] = IF Loaded(r) = {} THEN "idle" ELSE "deliver"
  BY DEF LoadJobs, LocalTo, TypeOK
<1>2. \A j \in Loaded(r) : j.id \in claimed[r] /\ j.attempts = delivery[j.id].attempts
  BY DEF Loaded
<1>3. ASSUME NEW d \in claimed[r], Present(d) PROVE \E j \in Loaded(r) : j.id = d
  <2> DEFINE job == [id |-> d, attempts |-> delivery[d].attempts, org |-> event[d[2]].org]
  <2>1. job \in Loaded(r)
    BY <1>3 DEF Loaded
  <2>2. job.id = d
    OBVIOUS
  <2> QED
    BY <2>1, <2>2
<1>4. \A j, k \in Loaded(r) : j.id = k.id => j = k
  BY DEF Loaded
<1>5. LocalTo(r)'
  BY <1>1, <1>4 DEF LocalTo
<1>6. \A d : /\ Holds(r, d)' => Holds(r, d)
             /\ Holds(r, d) /\ Present(d) => Holds(r, d)'
             /\ ~Answered(r, d) /\ ~Answered(r, d)'
  BY <1>1, <1>2, <1>3 DEF Holds, Answered
<1>7. \A d : HoldsEarly(r, d)' => HoldsEarly(r, d)
  BY <1>1, <1>2 DEF HoldsEarly
<1> QED
  BY <1>5, <1>6, <1>7

LEMMA DeliverHands ==
  ASSUME TypeOK, NEW r \in Runners, LocalTo(r), NEW j \in jobs[r], Deliver(r, j)
  PROVE  /\ \A d : /\ Holds(r, d)' <=> Holds(r, d)
                   /\ HoldsEarly(r, d)' <=> HoldsEarly(r, d)
                   /\ ~Answered(r, d)
                   /\ Answered(r, d)' <=> current'[r].ok /\ j.id = d
         /\ Holds(r, j.id)
         /\ LocalTo(r)'
<1>1. /\ phase[r] = "deliver" /\ phase'[r] = "settle" /\ jobs'[r] = jobs[r] \ {j}
      /\ current'[r].job = j /\ claimed'[r] = claimed[r] /\ claimed[r] = {}
  BY DEF Deliver, LocalTo, TypeOK
<1>2. /\ \A d : /\ Holds(r, d)' <=> Holds(r, d)
                /\ HoldsEarly(r, d)' <=> HoldsEarly(r, d)
      /\ Holds(r, j.id)
  BY <1>1 DEF Holds, HoldsEarly
<1>3. \A d : /\ ~Answered(r, d)
             /\ Answered(r, d)' <=> current'[r].ok /\ j.id = d
  BY <1>1 DEF Answered
<1>4. LocalTo(r)'
  BY <1>1 DEF LocalTo
<1> QED
  BY <1>2, <1>3, <1>4

LEMMA SettleHands ==
  ASSUME TypeOK, NEW r \in Runners, LocalTo(r), Settle(r), NEW own, own = current[r].job.id
  PROVE  /\ \A d : /\ Holds(r, d)' <=> Holds(r, d) /\ d # own
                   /\ d # own => ~Answered(r, d) /\ (HoldsEarly(r, d)' <=> HoldsEarly(r, d))
                   /\ ~Answered(r, d)'
         /\ Holds(r, own) /\ ~HoldsEarly(r, own)' /\ (Answered(r, own) <=> current[r].ok)
         /\ current[r].job.attempts < MaxAttempts => HoldsEarly(r, own)
         /\ LocalTo(r)'
<1>1. /\ phase[r] = "settle" /\ claimed[r] = {} /\ claimed'[r] = {} /\ jobs'[r] = jobs[r]
      /\ \A j \in jobs[r] : j.id # own
  BY DEF Settle, MarkDelivered, MarkRetry, MarkFailed, Finish, LocalTo, TypeOK
<1>2. phase'[r] \in {"idle", "deliver", "notice"} /\ (phase'[r] = "idle" => jobs[r] = {})
  BY DEF Settle, MarkDelivered, MarkRetry, MarkFailed, Finish, NextJob, TypeOK
<1>3. \A d : /\ Holds(r, d)' <=> Holds(r, d) /\ d # own
             /\ d # own => ~Answered(r, d) /\ (HoldsEarly(r, d)' <=> HoldsEarly(r, d))
             /\ ~Answered(r, d)'
  BY <1>1, <1>2 DEF Holds, Answered, HoldsEarly
<1>4. /\ Holds(r, own) /\ ~HoldsEarly(r, own)' /\ (Answered(r, own) <=> current[r].ok)
      /\ current[r].job.attempts < MaxAttempts => HoldsEarly(r, own)
  BY <1>1, <1>2 DEF Holds, Answered, HoldsEarly
<1>5. LocalTo(r)'
  BY <1>1, <1>2 DEF LocalTo
<1> QED
  BY <1>3, <1>4, <1>5

LEMMA CrashHands ==
  ASSUME TypeOK, NEW r \in Runners, Crash(r)
  PROVE  /\ \A d : ~Holds(r, d)' /\ ~Answered(r, d)' /\ ~HoldsEarly(r, d)'
         /\ LocalTo(r)'
<1>1. phase'[r] = "idle" /\ claimed'[r] = {} /\ jobs'[r] = {}
  BY DEF Crash, TypeOK
<1> QED
  BY <1>1 DEF Holds, Answered, HoldsEarly, LocalTo

\* A row in a runner's hands belongs to a recorded event, so it never comes back
\* once it is gone; only a pending row is under a live claim; a row that is not
\* there has no acceptances.
Known == \A r \in Runners, d \in Deliveries : Holds(r, d) => d[2] <= lastEvent
Live == \A d \in Deliveries : delivery[d].claim = "live" => Pending(d)
Clean == \A d \in Deliveries : delivery[d].status = "absent" => accepts[d] = 0

HandsInv == RetentionInv /\ Local /\ Known /\ Live /\ Clean

\* What the moves of a row leave of the last two.
LEMMA MovesKeepRows ==
  ASSUME NEW d \in Deliveries, Live, Clean,
         Same(d) \/ Gone(d) \/ Replayed(d) \/ Born(d) \/ Expired(d) \/ Cancelled(d) \/ Taken(d)
  PROVE  /\ delivery'[d].claim = "live" => delivery'[d].status = "pending"
         /\ delivery'[d].status = "absent" => accepts'[d] = 0
  BY DEF Live, Clean, Pending, Same, Gone, Replayed, Born, Expired, Cancelled, Taken

LEMMA KnownStays ==
  ASSUME TypeOK, Known, lastEvent' = lastEvent \/ lastEvent' = lastEvent + 1,
         \A r \in Runners, d \in Deliveries : Holds(r, d)' => Holds(r, d)
  PROVE  Known'
<1>1. lastEvent \in Nat /\ \A d \in Deliveries : d[2] \in Nat
  BY DEF TypeOK, Deliveries, EventIds
<1> QED
  BY <1>1 DEF Known

LEMMA HandsPreserved == HandsInv /\ [Next]_vars => HandsInv'
<1> SUFFICES ASSUME HandsInv, [Next]_vars PROVE HandsInv'
  OBVIOUS
<1>0. TypeOK /\ RetentionInv /\ RetentionInv' /\ \A r \in Runners : LocalTo(r)
  BY RetentionPreserved DEF HandsInv, RetentionInv, Local
<1> USE <1>0
<1> DEFINE Moved == \A d \in Deliveries :
             \/ Same(d) \/ Gone(d) \/ Replayed(d) \/ Born(d) \/ Expired(d) \/ Cancelled(d)
             \/ Taken(d)
\* Steps of nobody's hands.
<1>1. ASSUME \A r \in Runners : Still(r) /\ LocalTo(r)', Moved,
             lastEvent' = lastEvent \/ lastEvent' = lastEvent + 1
      PROVE  HandsInv'
  <2>1. Known'
    BY <1>1, StillHands, KnownStays DEF HandsInv
  <2>2. Live' /\ Clean'
    BY <1>1, MovesKeepRows DEF HandsInv, Live, Clean, Pending
  <2> QED
    BY <1>1, <2>1, <2>2 DEF HandsInv, Local
<1>2. ASSUME UNCHANGED runner PROVE \A r \in Runners : Still(r) /\ LocalTo(r)'
  BY <1>2 DEF runner, Still, LocalTo
<1>3. CASE Outside
  BY <1>1, <1>2, <1>3, OutsideMoves
<1>4. ASSUME NEW x \in Deliveries, LeaseExpires(x) PROVE HandsInv'
  <2>1. UNCHANGED runner /\ lastEvent' = lastEvent /\ Moved
    BY <1>4, LeaseMoves
  <2> QED
    BY <1>1, <1>2, <2>1
\* The runners other than the one that steps keep their local state.
<1>5. ASSUME NEW r \in Runners, Tick(r) \/ Crash(r), LocalTo(r)' PROVE Local'
  BY <1>5, OthersStill DEF Local, LocalTo, Still
<1>6. ASSUME NEW r \in Runners, CancelDisabled(r) \/ EmitFailure(r) PROVE HandsInv'
  <2>1. Tick(r)
    BY <1>6 DEF Tick
  <2>2. LocalTo(r)'
    BY <1>6, TurnStill DEF Still, LocalTo
  <2>3. Local' /\ \A q \in Runners : Still(q)
    BY <1>5, <1>6, <2>1, <2>2, OthersStill, TurnStill
  <2>4. Moved /\ (lastEvent' = lastEvent \/ lastEvent' = lastEvent + 1)
    BY <1>6, CancelMoves, NoticeMoves DEF CancelDisabled
  <2> QED
    BY <1>1, <2>3, <2>4 DEF Local
<1>7. ASSUME NEW r \in Runners, NEW S \in SUBSET Deliveries, ClaimDue(r, S) PROVE HandsInv'
  <2>1. Tick(r) /\ lastEvent' = lastEvent
    BY <1>7 DEF Tick, ClaimDue
  <2>2. LocalTo(r)' /\ \A d : Holds(r, d)' <=> d \in S
    BY <1>7, ClaimHands
  <2>3. Moved
    BY <1>7, ClaimMoves
  <2>4. \A d \in S : d[2] <= lastEvent
    BY <1>7 DEF ClaimDue, Due, Pending, Present, RetentionInv, Fresh
  <2>5. \A q \in Runners \ {r}, d \in Deliveries : Holds(q, d)' <=> Holds(q, d)
    BY <2>1, OthersStill, StillHands
  <2>6. Known'
    BY <2>1, <2>2, <2>4, <2>5 DEF HandsInv, Known
  <2>7. Live' /\ Clean'
    BY <2>3, MovesKeepRows DEF HandsInv, Live, Clean, Pending
  <2> QED
    BY <1>5, <2>1, <2>2, <2>6, <2>7 DEF HandsInv
<1>8. ASSUME NEW r \in Runners, Tick(r) \/ Crash(r), LocalTo(r)', lastEvent' = lastEvent,
             \A d : Holds(r, d)' => Holds(r, d), Live', Clean'
      PROVE  HandsInv'
  <2>1. \A q \in Runners, d \in Deliveries : Holds(q, d)' => Holds(q, d)
    BY <1>8, OthersStill, StillHands
  <2> QED
    BY <1>5, <1>8, <2>1, KnownStays DEF HandsInv
<1>9. ASSUME NEW r \in Runners, LoadJobs(r) \/ Crash(r) PROVE HandsInv'
  <2>1. delivery' = delivery /\ accepts' = accepts /\ lastEvent' = lastEvent
    BY <1>9 DEF LoadJobs, Crash, rows
  <2>2. Live' /\ Clean'
    BY <2>1 DEF HandsInv, Live, Clean, Pending
  <2> QED
    BY <1>8, <1>9, <2>1, <2>2, LoadHands, CrashHands DEF Tick
<1>10. ASSUME NEW r \in Runners, NEW j \in jobs[r], Deliver(r, j) PROVE HandsInv'
  <2>1. delivery' = delivery /\ lastEvent' = lastEvent
    BY <1>10 DEF Deliver, rows
  <2>2. \A d \in Deliveries : ~Present(d) => accepts'[d] = accepts[d]
    BY <1>10 DEF Deliver, TypeOK
  <2>3. Live' /\ Clean'
    BY <2>1, <2>2 DEF HandsInv, Live, Clean, Pending, Present
  <2> QED
    BY <1>8, <1>10, <2>1, <2>3, DeliverHands DEF Tick
<1>11. ASSUME NEW r \in Runners, Settle(r) PROVE HandsInv'
  <2> DEFINE own == current[r].job.id
  <2>1. /\ LocalTo(r)' /\ lastEvent' = lastEvent
        /\ \A d : Holds(r, d)' => Holds(r, d)
    BY <1>11, SettleHands, SettleMoves
  <2>2. ASSUME NEW d \in Deliveries
        PROVE  /\ delivery'[d].claim = "live" => delivery'[d].status = "pending"
               /\ delivery'[d].status = "absent" => accepts'[d] = 0
    <3>1. CASE Same(d)
      BY <3>1, MovesKeepRows DEF HandsInv
    <3>2. CASE ~Same(d)
      <4>1. d = own /\ Present(own)
        BY <1>11, <3>2, SettleMoves
      <4> QED
        BY <1>11, <4>1, SettleMoves DEF Present
    <3> QED
      BY <3>1, <3>2
  <2>3. Live' /\ Clean'
    BY <2>2 DEF Live, Clean, Pending
  <2> QED
    BY <1>8, <1>11, <2>1, <2>3 DEF Tick
<1> QED
  BY <1>3, <1>4, <1>6, <1>7, <1>9, <1>10, <1>11 DEF Next, Clock, Tick, Outside

LEMMA HandsInit == Init => HandsInv
  BY RetentionInit, NewRowColumns
     DEF Init, HandsInv, Local, LocalTo, Known, Live, Clean, Holds, Pending

-----------------------------------------------------------------------------
(* Acceptances and attempts: who may still add one *)

Faults == crashes + lapses

Holders(d) == {r \in Runners : Holds(r, d)}
Unconfirmed(d) == {r \in Holders(d) : ~Answered(r, d)}
Early(d) == {r \in Holders(d) : HoldsEarly(r, d)}

\* A live claim keeps the row from a next runner while one works on it.
Guarded(d) == delivery[d].claim = "live" /\ Holders(d) # {}

\* The row may get one more holder without a fault, now or after its round ends;
\* one more acceptance in this round; one more attempt.
HoldSlot(d) == IF Present(d) /\ ~Guarded(d) THEN 1 ELSE 0
AcceptSlot(d) == IF Present(d) /\ delivery[d].status # "delivered" /\ ~Guarded(d) THEN 1 ELSE 0
Spare(d) == IF Pending(d) /\ ~Guarded(d) THEN 1 ELSE 0

\* The holders, the acceptances they may still cause and the attempts over the
\* ceiling are paid for by the first claim and by the faults.
Counted(d) ==
  /\ IsFiniteSet(Holders(d))
  /\ Cardinality(Holders(d)) + HoldSlot(d) <= 1 + Faults
  /\ accepts[d] + Cardinality(Unconfirmed(d)) + AcceptSlot(d) <= 1 + Faults
  /\ delivery[d].attempts >= MaxAttempts
       => delivery[d].attempts + Cardinality(Early(d)) + Spare(d) <= MaxAttempts + Faults

CountInv == \A d \in Deliveries : Counted(d)

LEMMA Fewer ==
  ASSUME NEW S, NEW T, IsFiniteSet(S), T \subseteq S
  PROVE  /\ IsFiniteSet(T) /\ Cardinality(T) \in Nat /\ Cardinality(S) \in Nat
         /\ Cardinality(T) <= Cardinality(S)
  BY FS_Subset, FS_CardinalityType

LEMMA OneFewer ==
  ASSUME NEW S, NEW T, IsFiniteSet(S), T \subseteq S, NEW x \in S, x \notin T
  PROVE  /\ IsFiniteSet(T) /\ Cardinality(T) \in Nat /\ Cardinality(S) \in Nat
         /\ Cardinality(T) + 1 <= Cardinality(S)
<1>1. /\ IsFiniteSet(S \ {x}) /\ Cardinality(S \ {x}) = Cardinality(S) - 1
      /\ Cardinality(S) \in Nat
  BY FS_RemoveElement, FS_CardinalityType
<1>2. T \subseteq S \ {x}
  OBVIOUS
<1> QED
  BY <1>1, <1>2, Fewer

LEMMA OneMore ==
  ASSUME NEW S, NEW T, IsFiniteSet(S), NEW x, T \subseteq S \cup {x}
  PROVE  /\ IsFiniteSet(T) /\ Cardinality(T) \in Nat /\ Cardinality(S) \in Nat
         /\ Cardinality(T) <= Cardinality(S) + 1
<1>1. /\ IsFiniteSet(S \cup {x}) /\ Cardinality(S) \in Nat
      /\ Cardinality(S \cup {x}) = IF x \in S THEN Cardinality(S) ELSE Cardinality(S) + 1
  BY FS_AddElement, FS_CardinalityType
<1>2. Cardinality(S \cup {x}) <= Cardinality(S) + 1
  BY <1>1
<1> QED
  BY <1>1, <1>2, Fewer

\* The numbers the counts are made of.
LEMMA Numbers ==
  ASSUME TypeOK, NEW d \in Deliveries
  PROVE  /\ accepts[d] \in Nat /\ Faults \in Nat /\ delivery[d].attempts \in Nat
         /\ MaxAttempts \in Nat /\ MaxAttempts > 0
         /\ HoldSlot(d) \in {0, 1} /\ AcceptSlot(d) \in {0, 1} /\ Spare(d) \in {0, 1}
<1>1. accepts[d] \in Nat /\ crashes \in Nat /\ lapses \in Nat /\ MaxAttempts \in Nat /\ MaxAttempts > 0
  BY ConstantsOK DEF TypeOK
<1>2. delivery[d].attempts \in Nat
  BY RowCounters DEF TypeOK
<1>3. HoldSlot(d) \in {0, 1} /\ AcceptSlot(d) \in {0, 1} /\ Spare(d) \in {0, 1}
  BY DEF HoldSlot, AcceptSlot, Spare
<1> QED
  BY <1>1, <1>2, <1>3 DEF Faults

LEMMA SumOfCounts == \A m, n \in Nat : m + n \in Nat
  OBVIOUS

LEMMA NumbersNext ==
  ASSUME TypeOK', NEW d \in Deliveries
  PROVE  /\ accepts'[d] \in Nat /\ Faults' \in Nat /\ delivery'[d].attempts \in Nat
         /\ HoldSlot(d)' \in {0, 1} /\ AcceptSlot(d)' \in {0, 1} /\ Spare(d)' \in {0, 1}
<1>1. accepts'[d] \in Nat /\ crashes' \in Nat /\ lapses' \in Nat
  BY ConstantsOK DEF TypeOK
<1>2. delivery'[d] \in Row
  BY DEF TypeOK
<1>3. delivery'[d].attempts \in Nat
  BY <1>2, RowCounters
<1>4. HoldSlot(d)' \in {0, 1} /\ AcceptSlot(d)' \in {0, 1} /\ Spare(d)' \in {0, 1}
  BY DEF HoldSlot, AcceptSlot, Spare
<1>5. Faults' = crashes' + lapses'
  BY DEF Faults
<1>6. crashes' + lapses' \in Nat
  BY <1>1, SumOfCounts
<1>7. Faults' \in Nat
  BY <1>5, <1>6
<1> QED
  BY <1>1, <1>3, <1>4, <1>7

LEMMA Cards ==
  ASSUME NEW d, IsFiniteSet(Holders(d))
  PROVE  /\ Unconfirmed(d) \subseteq Holders(d) /\ Early(d) \subseteq Holders(d)
         /\ IsFiniteSet(Unconfirmed(d)) /\ IsFiniteSet(Early(d))
         /\ Cardinality(Holders(d)) \in Nat
         /\ Cardinality(Unconfirmed(d)) \in Nat /\ Cardinality(Unconfirmed(d)) <= Cardinality(Holders(d))
         /\ Cardinality(Early(d)) \in Nat /\ Cardinality(Early(d)) <= Cardinality(Holders(d))
<1>1. Unconfirmed(d) \subseteq Holders(d) /\ Early(d) \subseteq Holders(d)
  BY DEF Unconfirmed, Early
<1> QED
  BY <1>1, Fewer

-----------------------------------------------------------------------------
(* What a step does to the counts of a row *)

Shrinks(d) == Holders(d)' \subseteq Holders(d) /\ Unconfirmed(d)' \subseteq Unconfirmed(d)

\* Nobody gets more room.
Eases(d) ==
  /\ Shrinks(d) /\ Faults' >= Faults /\ accepts'[d] <= accepts[d]
  /\ HoldSlot(d)' <= HoldSlot(d) /\ AcceptSlot(d)' <= AcceptSlot(d)
  /\ \/ /\ delivery'[d].attempts = delivery[d].attempts /\ Spare(d)' <= Spare(d)
        /\ Early(d)' \subseteq Early(d)
     \/ delivery'[d].attempts < MaxAttempts

\* A row queued for the first time, in nobody's hands.
Starts(d) ==
  Holders(d)' = {} /\ accepts'[d] = 0 /\ delivery'[d].attempts < MaxAttempts

\* A settled row queued again; runners that lost their lease may still hold it.
Restarts(d) ==
  /\ Holders(d)' = Holders(d) /\ Faults' = Faults /\ HoldSlot(d) = 1
  /\ accepts'[d] = 0 /\ delivery'[d].attempts < MaxAttempts

\* A crash, or a lease that runs out under its runner.
Faulted(d) ==
  /\ Shrinks(d) /\ Early(d)' \subseteq Early(d) /\ Faults' = Faults + 1
  /\ accepts'[d] = accepts[d] /\ delivery'[d].attempts = delivery[d].attempts

\* A holder settles the row.
Releases(d, r) ==
  /\ Shrinks(d) /\ Early(d)' \subseteq Early(d) /\ Faults' = Faults
  /\ accepts'[d] = accepts[d] /\ delivery'[d].attempts = delivery[d].attempts
  /\ r \in Holders(d) /\ r \notin Holders(d)'
  /\ r \in Unconfirmed(d) \/ AcceptSlot(d)' = 0
  /\ r \in Early(d) \/ Spare(d)' = 0

Claims(d, r) ==
  /\ Holders(d)' \subseteq Holders(d) \cup {r} /\ Unconfirmed(d)' \subseteq Unconfirmed(d) \cup {r}
  /\ delivery[d].attempts + 1 >= MaxAttempts => Early(d)' \subseteq Early(d)
  /\ accepts'[d] = accepts[d] /\ Faults' = Faults
  /\ delivery'[d].attempts = delivery[d].attempts + 1
  /\ HoldSlot(d) = 1 /\ AcceptSlot(d) = 1 /\ Spare(d) = 1
  /\ HoldSlot(d)' = 0 /\ AcceptSlot(d)' = 0 /\ Spare(d)' = 0

\* The receiver takes the fact.
Confirms(d, r) ==
  /\ Holders(d)' = Holders(d) /\ Early(d)' \subseteq Early(d)
  /\ Unconfirmed(d)' \subseteq Unconfirmed(d) /\ r \in Unconfirmed(d) /\ r \notin Unconfirmed(d)'
  /\ delivery'[d] = delivery[d] /\ Faults' = Faults /\ accepts'[d] = accepts[d] + 1

LEMMA ShrinkCards ==
  ASSUME NEW d, IsFiniteSet(Holders(d)), Shrinks(d)
  PROVE  /\ IsFiniteSet(Holders(d)')
         /\ Cardinality(Holders(d)') \in Nat /\ Cardinality(Holders(d)') <= Cardinality(Holders(d))
         /\ Cardinality(Unconfirmed(d)') \in Nat
         /\ Cardinality(Unconfirmed(d)') <= Cardinality(Unconfirmed(d))
         /\ Early(d)' \subseteq Early(d)
              => Cardinality(Early(d)') \in Nat /\ Cardinality(Early(d)') <= Cardinality(Early(d))
  BY Cards, Fewer DEF Shrinks

LEMMA EasesCounted ==
  ASSUME TypeOK, TypeOK', NEW d \in Deliveries, Counted(d), Eases(d)
  PROVE  Counted(d)'
<1>1. Shrinks(d) /\ IsFiniteSet(Holders(d))
  BY DEF Eases, Counted
<1> QED
  BY <1>1, Numbers, NumbersNext, Cards, ShrinkCards DEF Eases, Counted

LEMMA StartsCounted ==
  ASSUME TypeOK, TypeOK', NEW d \in Deliveries, Starts(d)
  PROVE  Counted(d)'
<1>1. Holders(d)' = {} /\ Unconfirmed(d)' = {}
  BY DEF Starts, Unconfirmed
<1>2. IsFiniteSet({}) /\ Cardinality({}) = 0
  BY FS_EmptySet
<1> QED
  BY <1>1, <1>2, Numbers, NumbersNext DEF Starts, Counted

LEMMA RestartsCounted ==
  ASSUME TypeOK, TypeOK', NEW d \in Deliveries, Counted(d), Restarts(d)
  PROVE  Counted(d)'
<1>1. IsFiniteSet(Holders(d)) /\ Holders(d)' = Holders(d) /\ Unconfirmed(d)' \subseteq Holders(d)
  BY DEF Restarts, Counted, Unconfirmed
<1>2. /\ Cardinality(Unconfirmed(d)') \in Nat /\ Cardinality(Holders(d)) \in Nat
      /\ Cardinality(Unconfirmed(d)') <= Cardinality(Holders(d))
  BY <1>1, Fewer
<1> QED
  BY <1>1, <1>2, Numbers, NumbersNext DEF Restarts, Counted

LEMMA FaultedCounted ==
  ASSUME TypeOK, TypeOK', NEW d \in Deliveries, Counted(d), Faulted(d)
  PROVE  Counted(d)'
<1>1. Shrinks(d) /\ IsFiniteSet(Holders(d))
  BY DEF Faulted, Counted
<1> QED
  BY <1>1, Numbers, NumbersNext, Cards, ShrinkCards DEF Faulted, Counted

LEMMA ReleasesCounted ==
  ASSUME TypeOK, TypeOK', NEW d \in Deliveries, Counted(d), NEW r, Releases(d, r)
  PROVE  Counted(d)'
<1>1. Shrinks(d) /\ IsFiniteSet(Holders(d)) /\ Early(d)' \subseteq Early(d)
  BY DEF Releases, Counted
<1>2. r \notin Unconfirmed(d)' /\ r \notin Early(d)'
  BY DEF Releases, Unconfirmed, Early
<1>3. Cardinality(Holders(d)') + 1 <= Cardinality(Holders(d))
  BY <1>1, OneFewer DEF Releases, Shrinks
<1>4. r \in Unconfirmed(d) => Cardinality(Unconfirmed(d)') + 1 <= Cardinality(Unconfirmed(d))
  BY <1>1, <1>2, Cards, OneFewer DEF Shrinks
<1>5. r \in Early(d) => Cardinality(Early(d)') + 1 <= Cardinality(Early(d))
  BY <1>1, <1>2, Cards, OneFewer
<1>6. /\ accepts'[d] = accepts[d] /\ Faults' = Faults
      /\ delivery'[d].attempts = delivery[d].attempts
      /\ r \in Unconfirmed(d) \/ AcceptSlot(d)' = 0
      /\ r \in Early(d) \/ Spare(d)' = 0
  BY DEF Releases
<1> QED
  BY <1>1, <1>3, <1>4, <1>5, <1>6, Numbers, NumbersNext, Cards, ShrinkCards DEF Counted

LEMMA ClaimsCounted ==
  ASSUME TypeOK, TypeOK', NEW d \in Deliveries, Counted(d), NEW r, Claims(d, r)
  PROVE  Counted(d)'
<1>0. IsFiniteSet(Holders(d))
  BY DEF Counted
<1>1. /\ IsFiniteSet(Holders(d)') /\ Cardinality(Holders(d)') \in Nat
      /\ Cardinality(Holders(d)') <= Cardinality(Holders(d)) + 1
  BY <1>0, OneMore DEF Claims
<1>2. /\ Cardinality(Unconfirmed(d)') \in Nat
      /\ Cardinality(Unconfirmed(d)') <= Cardinality(Unconfirmed(d)) + 1
  BY <1>0, Cards, OneMore DEF Claims
<1>3. delivery[d].attempts + 1 >= MaxAttempts
        => Cardinality(Early(d)') \in Nat /\ Cardinality(Early(d)') <= Cardinality(Early(d))
  BY <1>0, Cards, Fewer DEF Claims
<1>4. /\ accepts'[d] = accepts[d] /\ Faults' = Faults
      /\ delivery'[d].attempts = delivery[d].attempts + 1
      /\ HoldSlot(d) = 1 /\ AcceptSlot(d) = 1 /\ Spare(d) = 1
      /\ HoldSlot(d)' = 0 /\ AcceptSlot(d)' = 0 /\ Spare(d)' = 0
  BY DEF Claims
<1> QED
  BY <1>0, <1>1, <1>2, <1>3, <1>4, Numbers, NumbersNext, Cards DEF Counted

LEMMA ConfirmsCounted ==
  ASSUME TypeOK, TypeOK', NEW d \in Deliveries, Counted(d), NEW r, Confirms(d, r)
  PROVE  Counted(d)'
<1>0. IsFiniteSet(Holders(d))
  BY DEF Counted
<1>1. /\ Cardinality(Unconfirmed(d)') \in Nat
      /\ Cardinality(Unconfirmed(d)') + 1 <= Cardinality(Unconfirmed(d))
  BY <1>0, Cards, OneFewer DEF Confirms
<1>2. Cardinality(Early(d)') \in Nat /\ Cardinality(Early(d)') <= Cardinality(Early(d))
  BY <1>0, Cards, Fewer DEF Confirms
<1>3. HoldSlot(d)' = HoldSlot(d) /\ AcceptSlot(d)' = AcceptSlot(d) /\ Spare(d)' = Spare(d)
  BY DEF Confirms, HoldSlot, AcceptSlot, Spare, Guarded, Present, Pending
<1>4. /\ Holders(d)' = Holders(d) /\ delivery'[d] = delivery[d] /\ Faults' = Faults
      /\ accepts'[d] = accepts[d] + 1
  BY DEF Confirms
<1> QED
  BY <1>0, <1>1, <1>2, <1>3, <1>4, Numbers, NumbersNext, Cards DEF Counted

-----------------------------------------------------------------------------
(* Every step keeps the counts *)

\* A row whose columns stay, with the same holders.
LEMMA SameCounted ==
  ASSUME TypeOK, TypeOK', NEW d \in Deliveries, Counted(d), Same(d),
         \A q \in Runners : /\ Holds(q, d)' <=> Holds(q, d)
                            /\ Answered(q, d) => Answered(q, d)'
                            /\ HoldsEarly(q, d)' => HoldsEarly(q, d),
         Faults' >= Faults
  PROVE  Counted(d)'
<1>1. Holders(d)' = Holders(d) /\ Early(d)' \subseteq Early(d)
  BY DEF Holders, Early
<1>2. Unconfirmed(d)' \subseteq Unconfirmed(d)
  BY DEF Holders, Unconfirmed
<1>3. HoldSlot(d)' = HoldSlot(d) /\ AcceptSlot(d)' = AcceptSlot(d) /\ Spare(d)' = Spare(d)
  BY <1>1 DEF Same, HoldSlot, AcceptSlot, Spare, Guarded, Present, Pending
<1>4. Eases(d)
  BY <1>1, <1>2, <1>3, Numbers DEF Same, Eases, Shrinks
<1> QED
  BY <1>4, EasesCounted

\* A step of nobody's hands.
LEMMA StillCounted ==
  ASSUME HandsInv, TypeOK, TypeOK', NEW d \in Deliveries, Counted(d),
         \A q \in Runners : Still(q), Faults' = Faults,
         Same(d) \/ Gone(d) \/ Replayed(d) \/ Born(d) \/ Cancelled(d)
  PROVE  Counted(d)'
<1>1. /\ \A q \in Runners : /\ Holds(q, d)' <=> Holds(q, d)
                            /\ Answered(q, d)' <=> Answered(q, d)
                            /\ delivery'[d].attempts = delivery[d].attempts
                                 => (HoldsEarly(q, d)' <=> HoldsEarly(q, d))
      /\ Faults' >= Faults
  BY StillHands, Numbers
<1>2. Holders(d)' = Holders(d) /\ Unconfirmed(d)' = Unconfirmed(d)
  BY <1>1 DEF Holders, Unconfirmed
<1>3. CASE Same(d)
  BY <1>1, <1>3, SameCounted DEF Same
<1>4. CASE Gone(d)
  <2>1. HoldSlot(d)' = 0 /\ AcceptSlot(d)' = 0
    BY <1>4 DEF Gone, HoldSlot, AcceptSlot, Present
  <2>2. Eases(d)
    BY <1>1, <1>2, <1>4, <2>1, Numbers DEF Gone, Eases, Shrinks
  <2> QED
    BY <2>2, EasesCounted
<1>5. CASE Replayed(d)
  <2>1. HoldSlot(d) = 1
    BY <1>5 DEF Replayed, HoldSlot, Guarded, Present, HandsInv, Live, Pending
  <2>2. Restarts(d)
    BY <1>2, <1>5, <2>1, Numbers DEF Replayed, Restarts
  <2> QED
    BY <2>2, RestartsCounted
<1>6. CASE Born(d)
  <2>1. d[2] \in Nat /\ lastEvent \in Nat
    BY DEF TypeOK, Deliveries, EventIds
  <2>2. Holders(d) = {}
    BY <1>6, <2>1 DEF Born, Holders, HandsInv, Known
  <2>3. accepts'[d] = 0
    BY <1>6 DEF Born, HandsInv, Clean
  <2>4. Starts(d)
    BY <1>2, <1>6, <2>2, <2>3, Numbers DEF Born, Starts
  <2> QED
    BY <2>4, StartsCounted
<1>7. CASE Cancelled(d)
  <2>1. Holders(d)' = Holders(d) /\ Early(d)' \subseteq Early(d)
    BY <1>1, <1>7 DEF Cancelled, Holders, Early
  <2>2. HoldSlot(d) = 1 /\ AcceptSlot(d) = 1 /\ Spare(d)' = 0
    BY <1>7 DEF Cancelled, HoldSlot, AcceptSlot, Spare, Guarded, Present, Pending
  <2>3. HoldSlot(d)' <= HoldSlot(d) /\ AcceptSlot(d)' <= AcceptSlot(d) /\ Spare(d)' <= Spare(d)
    BY <2>2, Numbers, NumbersNext
  <2>4. Eases(d)
    BY <1>1, <1>2, <1>7, <2>1, <2>3, Numbers DEF Cancelled, Eases, Shrinks
  <2> QED
    BY <2>4, EasesCounted
<1> QED
  BY <1>3, <1>4, <1>5, <1>6, <1>7

LEMMA LeaseCounted ==
  ASSUME TypeOK, TypeOK', NEW x \in Deliveries, LeaseExpires(x),
         NEW d \in Deliveries, Counted(d)
  PROVE  Counted(d)'
<1>1. /\ UNCHANGED <<runner, crashes>>
      /\ \/ (\A r \in Runners : ~Holds(r, x)) /\ lapses' = lapses
         \/ lapses' = lapses + 1
      /\ Expired(x) /\ (d # x => Same(d))
  BY LeaseMoves
<1>2. \A q \in Runners : Still(q)
  BY <1>1 DEF runner, Still
<1>3. crashes \in Nat /\ lapses \in Nat
  BY ConstantsOK DEF TypeOK
<1>4. delivery'[d].attempts = delivery[d].attempts /\ accepts'[d] = accepts[d]
  BY <1>1 DEF Same, Expired
<1>5. \A q \in Runners : /\ Holds(q, d)' <=> Holds(q, d)
                         /\ Answered(q, d)' <=> Answered(q, d)
                         /\ HoldsEarly(q, d)' <=> HoldsEarly(q, d)
  BY <1>2, <1>4, StillHands
<1>6. (Faults' = Faults \/ Faults' = Faults + 1) /\ Faults' >= Faults
  BY <1>1, <1>3 DEF Faults
<1>7. Holders(d)' = Holders(d) /\ Unconfirmed(d)' = Unconfirmed(d) /\ Early(d)' = Early(d)
  BY <1>5 DEF Holders, Unconfirmed, Early
<1>8. CASE d # x
  BY <1>1, <1>5, <1>6, <1>8, SameCounted
<1>9. CASE d = x /\ lapses' = lapses + 1
  <2>1. Faulted(d)
    BY <1>1, <1>3, <1>4, <1>7, <1>9 DEF Faulted, Shrinks, Faults
  <2> QED
    BY <2>1, FaultedCounted
<1>10. CASE d = x /\ \A r \in Runners : ~Holds(r, x)
  <2>1. Holders(d) = {}
    BY <1>10 DEF Holders
  <2>2. HoldSlot(d)' = HoldSlot(d) /\ AcceptSlot(d)' = AcceptSlot(d) /\ Spare(d)' = Spare(d)
    BY <1>1, <1>7, <1>10, <2>1
       DEF Expired, HoldSlot, AcceptSlot, Spare, Guarded, Present, Pending
  <2>3. Eases(d)
    BY <1>4, <1>6, <1>7, <2>2, Numbers DEF Eases, Shrinks
  <2> QED
    BY <2>3, EasesCounted
<1> QED
  BY <1>1, <1>8, <1>9, <1>10

LEMMA ClaimCounted ==
  ASSUME TypeOK, TypeOK', Local, NEW r \in Runners, NEW S \in SUBSET Deliveries, ClaimDue(r, S),
         NEW d \in Deliveries, Counted(d)
  PROVE  Counted(d)'
<1>1. LocalTo(r) /\ Tick(r)
  BY DEF Local, Tick
<1>2. \A q \in Runners \ {r} : Still(q)
  BY <1>1, OthersStill
<1>3. Faults' = Faults /\ Faults' >= Faults
  <2>1. crashes' = crashes /\ lapses' = lapses
    BY DEF ClaimDue
  <2> QED
    BY <2>1, Numbers DEF Faults
<1>4. /\ ~Holds(r, d) /\ ~Answered(r, d)' /\ (Holds(r, d)' <=> d \in S)
      /\ HoldsEarly(r, d)' => delivery'[d].attempts < MaxAttempts
  BY <1>1, ClaimHands
<1>5. \A q \in Runners \ {r} : /\ Holds(q, d)' <=> Holds(q, d)
                               /\ Answered(q, d)' <=> Answered(q, d)
                               /\ delivery'[d].attempts = delivery[d].attempts
                                    => (HoldsEarly(q, d)' <=> HoldsEarly(q, d))
  BY <1>2, StillHands
<1>6. CASE d \notin S
  <2>1. Same(d)
    BY <1>6, ClaimMoves
  <2>2. Holders(d)' = Holders(d) /\ Early(d)' \subseteq Early(d) /\ Unconfirmed(d)' \subseteq Unconfirmed(d)
    BY <1>4, <1>5, <1>6, <2>1 DEF Holders, Early, Unconfirmed, Same
  <2>3. HoldSlot(d)' = HoldSlot(d) /\ AcceptSlot(d)' = AcceptSlot(d) /\ Spare(d)' = Spare(d)
    BY <2>1, <2>2 DEF Same, HoldSlot, AcceptSlot, Spare, Guarded, Present, Pending
  <2>4. Eases(d)
    BY <1>3, <2>1, <2>2, <2>3, Numbers DEF Same, Eases, Shrinks
  <2> QED
    BY <2>4, EasesCounted
<1>7. CASE d \in S
  <2>1. Taken(d)
    BY <1>7, ClaimMoves
  <2>2. /\ Holders(d)' \subseteq Holders(d) \cup {r}
        /\ Unconfirmed(d)' \subseteq Unconfirmed(d) \cup {r} /\ r \in Holders(d)'
    BY <1>4, <1>5, <1>7 DEF Holders, Unconfirmed
  <2>3. HoldSlot(d) = 1 /\ AcceptSlot(d) = 1 /\ Spare(d) = 1
    BY <2>1 DEF Taken, HoldSlot, AcceptSlot, Spare, Guarded, Present, Pending
  <2>4. HoldSlot(d)' = 0 /\ AcceptSlot(d)' = 0 /\ Spare(d)' = 0
    BY <2>1, <2>2 DEF Taken, HoldSlot, AcceptSlot, Spare, Guarded
  <2>5. ASSUME delivery[d].attempts + 1 >= MaxAttempts PROVE Early(d)' \subseteq Early(d)
    <3>1. delivery'[d].attempts >= MaxAttempts /\ ~(delivery'[d].attempts < MaxAttempts)
      BY <2>1, <2>5, Numbers DEF Taken
    <3>2. \A q \in Runners \ {r} : HoldsEarly(q, d)' => HoldsEarly(q, d)
      BY <1>2, <3>1 DEF Still, HoldsEarly
    <3> QED
      BY <1>4, <1>5, <3>1, <3>2 DEF Early, Holders
  <2>6. Claims(d, r)
    BY <1>3, <2>1, <2>2, <2>3, <2>4, <2>5 DEF Taken, Claims
  <2> QED
    BY <2>6, ClaimsCounted
<1> QED
  BY <1>6, <1>7

LEMMA LoadCounted ==
  ASSUME HandsInv, TypeOK, TypeOK', NEW r \in Runners, LoadJobs(r), NEW d \in Deliveries, Counted(d)
  PROVE  Counted(d)'
<1>1. LocalTo(r) /\ Tick(r)
  BY DEF HandsInv, Local, Tick
<1>2. /\ delivery' = delivery /\ accepts' = accepts /\ crashes' = crashes /\ lapses' = lapses
  BY DEF LoadJobs, rows
<1>3. Faults' >= Faults /\ Same(d)
  BY <1>2, Numbers DEF Faults, Same
<1>4. \A q \in Runners : /\ Holds(q, d)' => Holds(q, d)
                         /\ Holds(q, d) /\ Present(d) => Holds(q, d)'
                         /\ Answered(q, d)' <=> Answered(q, d)
                         /\ HoldsEarly(q, d)' => HoldsEarly(q, d)
  BY <1>1, <1>2, LoadHands, OthersStill, StillHands
<1>5. CASE Present(d)
  BY <1>3, <1>4, <1>5, SameCounted
<1>6. CASE ~Present(d)
  <2>1. /\ Holders(d)' \subseteq Holders(d) /\ Early(d)' \subseteq Early(d)
        /\ Unconfirmed(d)' \subseteq Unconfirmed(d)
    BY <1>4 DEF Holders, Early, Unconfirmed
  <2>2. HoldSlot(d)' = 0 /\ AcceptSlot(d)' = 0 /\ Spare(d)' = 0
    BY <1>2, <1>6 DEF HoldSlot, AcceptSlot, Spare, Present, Pending
  <2>3. Eases(d)
    BY <1>2, <1>3, <2>1, <2>2, Numbers DEF Eases, Shrinks
  <2> QED
    BY <2>3, EasesCounted
<1> QED
  BY <1>5, <1>6

LEMMA DeliverCounted ==
  ASSUME HandsInv, TypeOK, TypeOK', NEW r \in Runners, NEW j \in jobs[r], Deliver(r, j),
         NEW d \in Deliveries, Counted(d)
  PROVE  Counted(d)'
<1>1. LocalTo(r) /\ Tick(r)
  BY DEF HandsInv, Local, Tick
<1>2. /\ delivery' = delivery /\ crashes' = crashes /\ lapses' = lapses
      /\ j.id = d /\ Present(d) /\ current'[r].ok => accepts'[d] = accepts[d] + 1
      /\ ~(j.id = d /\ Present(d) /\ current'[r].ok) => accepts'[d] = accepts[d]
  BY DEF Deliver, rows, TypeOK
<1>3. Faults' = Faults /\ Faults' >= Faults
  BY <1>2, Numbers DEF Faults
<1>4. \A q \in Runners : /\ Holds(q, d)' <=> Holds(q, d)
                         /\ Answered(q, d) => Answered(q, d)'
                         /\ HoldsEarly(q, d)' <=> HoldsEarly(q, d)
  BY <1>1, <1>2, DeliverHands, OthersStill, StillHands
<1>5. CASE ~(j.id = d /\ Present(d) /\ current'[r].ok)
  <2>1. Same(d)
    BY <1>2, <1>5 DEF Same
  <2> QED
    BY <1>3, <1>4, <2>1, SameCounted
<1>6. CASE j.id = d /\ Present(d) /\ current'[r].ok
  <2>1. Holds(r, d) /\ ~Answered(r, d) /\ Answered(r, d)'
    BY <1>1, <1>6, DeliverHands
  <2>2. Holders(d)' = Holders(d) /\ Early(d)' \subseteq Early(d)
    BY <1>4 DEF Holders, Early
  <2>3. Unconfirmed(d)' \subseteq Unconfirmed(d) /\ r \in Unconfirmed(d) /\ r \notin Unconfirmed(d)'
    BY <1>4, <2>1 DEF Holders, Unconfirmed
  <2>4. Confirms(d, r)
    BY <1>2, <1>3, <1>6, <2>2, <2>3 DEF Confirms
  <2> QED
    BY <2>4, ConfirmsCounted
<1> QED
  BY <1>5, <1>6

LEMMA SettleCounted ==
  ASSUME HandsInv, TypeOK, TypeOK', NEW r \in Runners, Settle(r), NEW d \in Deliveries, Counted(d)
  PROVE  Counted(d)'
<1> DEFINE own == current[r].job.id
<1>1. LocalTo(r) /\ Tick(r)
  BY DEF HandsInv, Local, Tick
<1>2. /\ accepts' = accepts /\ crashes' = crashes /\ lapses' = lapses
      /\ d # own \/ ~Present(own) => Same(d)
      /\ Present(own) =>
           /\ delivery'[own].attempts = delivery[own].attempts
           /\ \/ current[r].ok /\ delivery'[own].status = "delivered"
              \/ ~current[r].ok /\ delivery'[own].status = "failed"
              \/ ~current[r].ok /\ current[r].job.attempts < MaxAttempts
  BY SettleMoves
<1>3. Faults' = Faults /\ Faults' >= Faults
  BY <1>2, Numbers DEF Faults
<1>4. delivery'[d].attempts = delivery[d].attempts
  BY <1>2 DEF Same
<1>5. \A q \in Runners \ {r} : /\ Holds(q, d)' <=> Holds(q, d)
                               /\ Answered(q, d)' <=> Answered(q, d)
                               /\ HoldsEarly(q, d)' <=> HoldsEarly(q, d)
  BY <1>1, <1>4, OthersStill, StillHands
<1>6. CASE d # own
  <2>1. /\ Holds(r, d)' <=> Holds(r, d)
        /\ Answered(r, d) => Answered(r, d)'
        /\ HoldsEarly(r, d)' => HoldsEarly(r, d)
    BY <1>1, <1>6, SettleHands
  <2> QED
    BY <1>2, <1>3, <1>5, <1>6, <2>1, SameCounted
<1>7. CASE d = own
  <2>1. /\ Holds(r, d) /\ ~Holds(r, d)' /\ ~HoldsEarly(r, d)'
        /\ Answered(r, d) <=> current[r].ok
        /\ current[r].job.attempts < MaxAttempts => HoldsEarly(r, d)
    BY <1>1, <1>7, SettleHands
  <2>2. /\ Shrinks(d) /\ Early(d)' \subseteq Early(d)
        /\ r \in Holders(d) /\ r \notin Holders(d)'
        /\ ~current[r].ok => r \in Unconfirmed(d)
        /\ current[r].job.attempts < MaxAttempts => r \in Early(d)
    BY <1>5, <2>1 DEF Shrinks, Holders, Early, Unconfirmed
  <2>3. \/ AcceptSlot(d)' = 0 /\ Spare(d)' = 0
        \/ ~current[r].ok /\ Spare(d)' = 0
        \/ ~current[r].ok /\ current[r].job.attempts < MaxAttempts
    <3>1. CASE ~Present(d)
      <4>1. delivery'[d].status = "absent"
        BY <1>2, <1>7, <3>1 DEF Same, Present
      <4> QED
        BY <4>1 DEF AcceptSlot, Spare, Present, Pending
    <3>2. CASE Present(d) /\ current[r].ok /\ delivery'[d].status = "delivered"
      BY <3>2 DEF AcceptSlot, Spare, Pending
    <3>3. CASE Present(d) /\ ~current[r].ok /\ delivery'[d].status = "failed"
      BY <3>3 DEF Spare, Pending
    <3> QED
      BY <1>2, <1>7, <3>1, <3>2, <3>3
  <2>4. Releases(d, r)
    BY <1>2, <1>3, <1>4, <2>2, <2>3 DEF Releases
  <2> QED
    BY <2>4, ReleasesCounted
<1> QED
  BY <1>6, <1>7

LEMMA CrashCounted ==
  ASSUME TypeOK, TypeOK', NEW r \in Runners, Crash(r), NEW d \in Deliveries, Counted(d)
  PROVE  Counted(d)'
<1>1. delivery' = delivery /\ accepts' = accepts /\ crashes' = crashes + 1 /\ lapses' = lapses
  BY DEF Crash, rows
<1>2. Faults' = Faults + 1
  BY <1>1, ConstantsOK DEF Faults, TypeOK
<1>3. \A q \in Runners : /\ Holds(q, d)' => Holds(q, d)
                         /\ Holds(q, d)' => (Answered(q, d)' <=> Answered(q, d))
                         /\ HoldsEarly(q, d)' => HoldsEarly(q, d)
  BY <1>1, CrashHands, OthersStill, StillHands
<1>4. /\ Holders(d)' \subseteq Holders(d) /\ Early(d)' \subseteq Early(d)
      /\ Unconfirmed(d)' \subseteq Unconfirmed(d)
  BY <1>3 DEF Holders, Early, Unconfirmed
<1>5. Faulted(d)
  BY <1>1, <1>2, <1>4 DEF Faulted, Shrinks
<1> QED
  BY <1>5, FaultedCounted

\* Whatever happens to leases and processes, the counts are paid for.
LEMMA CountPreserved == HandsInv /\ CountInv /\ [Next]_vars => CountInv'
<1> SUFFICES ASSUME HandsInv, CountInv, [Next]_vars, NEW d \in Deliveries PROVE Counted(d)'
  BY DEF CountInv
<1>0. TypeOK /\ TypeOK' /\ RetentionInv /\ Local /\ Counted(d)
  BY TypePreserved DEF HandsInv, RetentionInv, CountInv
<1> USE <1>0
<1>1. CASE Outside
  <2>1. (\A q \in Runners : Still(q)) /\ Faults' = Faults
    BY <1>1, OutsideMoves DEF runner, Still, Faults
  <2> QED
    BY <1>1, <2>1, OutsideMoves, StillCounted
<1>2. ASSUME NEW x \in Deliveries, LeaseExpires(x) PROVE Counted(d)'
  BY <1>2, LeaseCounted
<1>3. ASSUME NEW r \in Runners, CancelDisabled(r) \/ EmitFailure(r) PROVE Counted(d)'
  <2>1. Tick(r)
    BY <1>3 DEF Tick
  <2>2. \A q \in Runners : Still(q)
    BY <1>3, <2>1, OthersStill, TurnStill
  <2>3. Faults' = Faults
    BY <1>3 DEF CancelDisabled, EmitFailure, Faults
  <2>4. Same(d) \/ Born(d) \/ Cancelled(d)
    BY <1>3, CancelMoves, NoticeMoves
  <2> QED
    BY <2>2, <2>3, <2>4, StillCounted
<1>4. ASSUME NEW r \in Runners, NEW S \in SUBSET Deliveries, ClaimDue(r, S) PROVE Counted(d)'
  BY <1>4, ClaimCounted
<1>5. ASSUME NEW r \in Runners, LoadJobs(r) PROVE Counted(d)'
  BY <1>5, LoadCounted
<1>6. ASSUME NEW r \in Runners, NEW j \in jobs[r], Deliver(r, j) PROVE Counted(d)'
  BY <1>6, DeliverCounted
<1>7. ASSUME NEW r \in Runners, Settle(r) PROVE Counted(d)'
  BY <1>7, SettleCounted
<1>8. ASSUME NEW r \in Runners, Crash(r) PROVE Counted(d)'
  BY <1>8, CrashCounted
<1> QED
  BY <1>1, <1>2, <1>3, <1>4, <1>5, <1>6, <1>7, <1>8 DEF Next, Clock, Tick, Outside

LEMMA CountInit == Init => CountInv
<1> SUFFICES ASSUME Init, NEW d \in Deliveries PROVE Counted(d)
  BY DEF CountInv
<1>1. TypeOK /\ Holders(d) = {} /\ accepts[d] = 0 /\ delivery[d] = NoRow
  BY TypeInit DEF Init, Holders, Holds
<1>2. Unconfirmed(d) = {}
  BY <1>1 DEF Unconfirmed
<1>3. IsFiniteSet({}) /\ Cardinality({}) = 0
  BY FS_EmptySet
<1> QED
  BY <1>1, <1>2, <1>3, Numbers, NewRowColumns DEF Counted

LEMMA Counts == Spec => []CountInv
  BY HandsInit, HandsPreserved, CountInit, CountPreserved, PTL DEF Spec

\* A receiver accepts a fact at most once per round, and once more for each
\* crash and each lease that runs out under a runner at work.
THEOREM DuplicatesNeedFaults == Spec => []AcceptsBounded
<1>1. TypeOK /\ CountInv => AcceptsBounded
  <2> SUFFICES ASSUME TypeOK, CountInv, NEW d \in Deliveries
               PROVE  accepts[d] <= 1 + crashes + lapses
    BY DEF AcceptsBounded
  <2>1. Counted(d) /\ crashes \in Nat /\ lapses \in Nat
    BY ConstantsOK DEF CountInv, TypeOK
  <2>2. accepts[d] <= 1 + Faults
    BY <2>1, Cards, Numbers DEF Counted
  <2> QED
    BY <2>1, <2>2, Numbers DEF Faults
<1> QED
  BY <1>1, Counts, TypeCorrect, PTL

\* A row is attempted at most max_attempts times, and once more for each crash
\* and each lease that runs out under a runner at work.
THEOREM AttemptsNeedFaults == Spec => []AttemptsBounded
<1>1. TypeOK /\ CountInv => AttemptsBounded
  <2> SUFFICES ASSUME TypeOK, CountInv, NEW d \in Deliveries
               PROVE  delivery[d].attempts <= MaxAttempts + crashes + lapses
    BY DEF AttemptsBounded
  <2>1. Counted(d) /\ crashes \in Nat /\ lapses \in Nat
    BY ConstantsOK DEF CountInv, TypeOK
  <2>2. delivery[d].attempts <= MaxAttempts + Faults
    BY <2>1, Cards, Numbers DEF Counted
  <2> QED
    BY <2>1, <2>2, Numbers DEF Faults
<1> QED
  BY <1>1, Counts, TypeCorrect, PTL

-----------------------------------------------------------------------------
(* Exclusive claims: what holds until a lease runs out under a runner *)

\* A row in a runner's hands is under a live claim, unless it is gone; no other
\* runner works on it; and the row says delivered, or is about to, of a fact its
\* receiver accepted in this round.
Sound(d) ==
  /\ \A r \in Runners : Holds(r, d) /\ Present(d) => delivery[d].claim = "live"
  /\ \A r, q \in Runners : Holds(r, d) /\ Holds(q, d) => r = q
  /\ delivery[d].status = "delivered" => accepts[d] > 0
  /\ \A r \in Runners : Answered(r, d) /\ Present(d) => accepts[d] > 0

LeaseInv == lapses = 0 => \A d \in Deliveries : Sound(d)

LEMMA AnsweredHolds ==
  ASSUME NEW r, NEW d, Answered(r, d)
  PROVE  Holds(r, d)
  BY DEF Answered, Holds

\* A row under no live claim is in nobody's hands, unless it is gone.
LEMMA FreeRow ==
  ASSUME NEW d \in Deliveries, Sound(d), Present(d), delivery[d].claim # "live"
  PROVE  \A q \in Runners : ~Holds(q, d) /\ ~Answered(q, d)
  BY AnsweredHolds DEF Sound

\* Columns and acceptances stay, and nobody gets hold of the row.
LEMMA SameSound ==
  ASSUME NEW d \in Deliveries, Sound(d), Same(d),
         \A q \in Runners : /\ Holds(q, d)' => Holds(q, d)
                            /\ Answered(q, d)' => Answered(q, d)
  PROVE  Sound(d)'
  BY DEF Sound, Same, Present

\* A row in nobody's hands that does not say delivered.
LEMMA IdleSound ==
  ASSUME NEW d \in Deliveries, \A q \in Runners : ~Holds(q, d)' /\ ~Answered(q, d)',
         delivery'[d].status # "delivered"
  PROVE  Sound(d)'
  BY DEF Sound

LEMMA StillSound ==
  ASSUME HandsInv, TypeOK, NEW d \in Deliveries, Sound(d), \A q \in Runners : Still(q),
         Same(d) \/ Gone(d) \/ Replayed(d) \/ Born(d) \/ Cancelled(d)
  PROVE  Sound(d)'
<1>1. \A q \in Runners : (Holds(q, d)' <=> Holds(q, d)) /\ (Answered(q, d)' <=> Answered(q, d))
  BY StillHands
<1>2. CASE Same(d)
  BY <1>1, <1>2, SameSound
<1>3. CASE Gone(d)
  BY <1>1, <1>3 DEF Gone, Sound, Present
<1>4. CASE Replayed(d)
  <2>1. Present(d) /\ delivery[d].claim # "live"
    BY <1>4 DEF Replayed, Present, HandsInv, Live, Pending
  <2> QED
    BY <1>1, <1>4, <2>1, FreeRow, IdleSound DEF Replayed
<1>5. CASE Born(d)
  <2>1. d[2] \in Nat /\ lastEvent \in Nat
    BY DEF TypeOK, Deliveries, EventIds
  <2>2. \A q \in Runners : ~Holds(q, d) /\ ~Answered(q, d)
    BY <1>5, <2>1, AnsweredHolds DEF Born, HandsInv, Known
  <2> QED
    BY <1>1, <1>5, <2>2, IdleSound DEF Born
<1>6. CASE Cancelled(d)
  <2>1. Present(d) /\ delivery[d].claim # "live"
    BY <1>6 DEF Cancelled, Present, Pending
  <2> QED
    BY <1>1, <1>6, <2>1, FreeRow, IdleSound DEF Cancelled
<1> QED
  BY <1>2, <1>3, <1>4, <1>5, <1>6

\* A step of one runner leaves the other runners' hands alone.
LEMMA OthersHands ==
  ASSUME TypeOK, NEW r \in Runners, Tick(r) \/ Crash(r), NEW d
  PROVE  \A q \in Runners \ {r} : /\ Holds(q, d)' <=> Holds(q, d)
                                  /\ Answered(q, d)' <=> Answered(q, d)
  BY OthersStill, StillHands

LEMMA ClaimSound ==
  ASSUME HandsInv, TypeOK, NEW r \in Runners, NEW S \in SUBSET Deliveries, ClaimDue(r, S),
         NEW d \in Deliveries, Sound(d)
  PROVE  Sound(d)'
<1>1. LocalTo(r) /\ Tick(r)
  BY DEF HandsInv, Local, Tick
<1>2. ~Holds(r, d) /\ ~Answered(r, d)' /\ (Holds(r, d)' <=> d \in S)
  BY <1>1, ClaimHands
<1>3. \A q \in Runners \ {r} : /\ Holds(q, d)' <=> Holds(q, d)
                               /\ Answered(q, d)' <=> Answered(q, d)
  BY <1>1, OthersHands
<1>4. CASE d \notin S
  BY <1>2, <1>3, <1>4, ClaimMoves, SameSound
<1>5. CASE d \in S
  <2>1. Taken(d)
    BY <1>5, ClaimMoves
  <2>2. \A q \in Runners : ~Holds(q, d) /\ ~Answered(q, d)
    BY <2>1, FreeRow DEF Taken, Present, Pending
  <2> QED
    BY <1>2, <1>3, <2>1, <2>2 DEF Taken, Sound
<1> QED
  BY <1>4, <1>5

LEMMA DeliverSound ==
  ASSUME HandsInv, TypeOK, NEW r \in Runners, NEW j \in jobs[r], Deliver(r, j),
         NEW d \in Deliveries, Sound(d)
  PROVE  Sound(d)'
<1>1. LocalTo(r) /\ Tick(r)
  BY DEF HandsInv, Local, Tick
<1>2. /\ Holds(r, d)' <=> Holds(r, d)
      /\ Answered(r, d)' <=> current'[r].ok /\ j.id = d
  BY <1>1, DeliverHands
<1>3. \A q \in Runners \ {r} : /\ Holds(q, d)' <=> Holds(q, d)
                               /\ Answered(q, d)' <=> Answered(q, d)
  BY <1>1, OthersHands
<1>4. /\ delivery' = delivery /\ accepts[d] \in Nat
      /\ j.id = d /\ Present(d) /\ current'[r].ok => accepts'[d] = accepts[d] + 1
      /\ ~(j.id = d /\ Present(d) /\ current'[r].ok) => accepts'[d] = accepts[d]
  BY DEF Deliver, rows, TypeOK
<1>5. accepts[d] > 0 => accepts'[d] > 0
  BY <1>4
<1>6. Answered(r, d)' /\ Present(d) => accepts'[d] > 0
  BY <1>2, <1>4
<1> QED
  BY <1>2, <1>3, <1>4, <1>5, <1>6 DEF Sound, Present

LEMMA SettleSound ==
  ASSUME HandsInv, TypeOK, NEW r \in Runners, Settle(r), NEW d \in Deliveries, Sound(d)
  PROVE  Sound(d)'
<1> DEFINE own == current[r].job.id
<1>1. LocalTo(r) /\ Tick(r)
  BY DEF HandsInv, Local, Tick
<1>2. \A q \in Runners \ {r} : /\ Holds(q, d)' <=> Holds(q, d)
                               /\ Answered(q, d)' <=> Answered(q, d)
  BY <1>1, OthersHands
<1>3. /\ Holds(r, d)' <=> Holds(r, d) /\ d # own
      /\ ~Answered(r, d)' /\ Holds(r, own) /\ (Answered(r, own) <=> current[r].ok)
  BY <1>1, SettleHands
<1>4. CASE d # own \/ ~Present(own)
  BY <1>2, <1>3, <1>4, SettleMoves, SameSound
<1>5. CASE d = own /\ Present(own)
  <2>1. \A q \in Runners : ~Holds(q, d)' /\ ~Answered(q, d)'
    BY <1>2, <1>3, <1>5, AnsweredHolds DEF Sound
  <2>2. accepts' = accepts /\ (delivery'[d].status = "delivered" => current[r].ok \/ delivery[d].status = "delivered")
    BY <1>5, SettleMoves
  <2>3. delivery'[d].status = "delivered" => accepts'[d] > 0
    BY <1>3, <1>5, <2>2 DEF Sound
  <2> QED
    BY <2>1, <2>3 DEF Sound
<1> QED
  BY <1>4, <1>5

LEMMA LapsesStay ==
  ASSUME TypeOK, [Next]_vars, lapses' = 0
  PROVE  lapses = 0 /\ \A d \in Deliveries : LeaseExpires(d) => \A r \in Runners : ~Holds(r, d)
<1>1. lapses \in Nat
  BY ConstantsOK DEF TypeOK
<1>2. ASSUME NEW x \in Deliveries, LeaseExpires(x)
      PROVE  lapses = 0 /\ \A r \in Runners : ~Holds(r, x)
  BY <1>1, <1>2, LeaseMoves
<1>3. ASSUME \A x \in Deliveries : ~LeaseExpires(x) PROVE lapses' = lapses
  BY <1>3 DEF Next, Operator, Clock, Tick, Settle, Sweep, InsertEndpoint, UpdateEndpoint,
       DeleteEndpoint, Emit, EmitTo, Redeliver, BackoffElapses, CancelDisabled, ClaimDue,
       LoadJobs, Deliver, MarkDelivered, MarkRetry, MarkFailed, Finish, EmitFailure, Crash,
       SweepDeliveries, SweepEvents, SweepAborts, vars
<1> QED
  BY <1>2, <1>3

LEMMA LeasePreserved == HandsInv /\ LeaseInv /\ [Next]_vars => LeaseInv'
<1> SUFFICES ASSUME HandsInv, LeaseInv, [Next]_vars, lapses' = 0, NEW d \in Deliveries
             PROVE  Sound(d)'
  BY DEF LeaseInv
<1>0. TypeOK /\ RetentionInv /\ Local
  BY DEF HandsInv, RetentionInv
<1>1. Sound(d) /\ \A x \in Deliveries : LeaseExpires(x) => \A r \in Runners : ~Holds(r, x)
  BY <1>0, LapsesStay DEF LeaseInv
<1> USE <1>0, <1>1
<1>2. CASE Outside
  <2>1. \A q \in Runners : Still(q)
    BY <1>2, OutsideMoves DEF runner, Still
  <2> QED
    BY <1>2, <2>1, OutsideMoves, StillSound
<1>3. ASSUME NEW x \in Deliveries, LeaseExpires(x) PROVE Sound(d)'
  <2>1. \A q \in Runners : Still(q)
    BY <1>3, LeaseMoves DEF runner, Still
  <2>2. CASE d # x
    BY <1>3, <2>1, <2>2, LeaseMoves, StillSound
  <2>3. CASE d = x
    <3>1. \A q \in Runners : ~Holds(q, d)' /\ ~Answered(q, d)'
      BY <1>3, <2>1, <2>3, StillHands, AnsweredHolds
    <3> QED
      BY <1>3, <2>3, <3>1, LeaseMoves, IdleSound DEF Expired
  <2> QED
    BY <2>2, <2>3
<1>4. ASSUME NEW r \in Runners, CancelDisabled(r) \/ EmitFailure(r) PROVE Sound(d)'
  <2>1. Tick(r)
    BY <1>4 DEF Tick
  <2>2. \A q \in Runners : Still(q)
    BY <1>4, <2>1, OthersStill, TurnStill
  <2> QED
    BY <1>4, <2>2, CancelMoves, NoticeMoves, StillSound
<1>5. ASSUME NEW r \in Runners, NEW S \in SUBSET Deliveries, ClaimDue(r, S) PROVE Sound(d)'
  BY <1>5, ClaimSound
<1>6. ASSUME NEW r \in Runners, LoadJobs(r) \/ Crash(r) PROVE Sound(d)'
  <2>1. Same(d) /\ LocalTo(r) /\ (Tick(r) \/ Crash(r))
    BY <1>6 DEF LoadJobs, Crash, rows, Same, Local, Tick
  <2>2. \A q \in Runners \ {r} : /\ Holds(q, d)' <=> Holds(q, d)
                                 /\ Answered(q, d)' <=> Answered(q, d)
    BY <2>1, OthersHands
  <2>3. (Holds(r, d)' => Holds(r, d)) /\ ~Answered(r, d)'
    BY <1>6, <2>1, LoadHands, CrashHands
  <2> QED
    BY <2>1, <2>2, <2>3, SameSound
<1>7. ASSUME NEW r \in Runners, NEW j \in jobs[r], Deliver(r, j) PROVE Sound(d)'
  BY <1>7, DeliverSound
<1>8. ASSUME NEW r \in Runners, Settle(r) PROVE Sound(d)'
  BY <1>8, SettleSound
<1> QED
  BY <1>2, <1>3, <1>4, <1>5, <1>6, <1>7, <1>8 DEF Next, Clock, Tick, Outside

LEMMA LeaseInit == Init => LeaseInv
  BY NewRowColumns DEF Init, LeaseInv, Sound, Holds, Answered

LEMMA Leases == Spec => [](HandsInv /\ LeaseInv)
  BY HandsInit, HandsPreserved, LeaseInit, LeasePreserved, PTL DEF Spec

\* Until a lease runs out under a runner at work, two runners never work on the
\* same row: for any number of runners, crashes, redeliveries and sweeps.
THEOREM ClaimsExclusive == Spec => []ExclusiveClaim
<1>1. HandsInv /\ LeaseInv => ExclusiveClaim
  BY DEF HandsInv, LeaseInv, Sound, Live, ExclusiveClaim
<1> QED
  BY <1>1, Leases, PTL

\* Until a lease runs out under a runner at work, a row says delivered only when
\* its receiver accepted it in this round.
THEOREM DeliveredMeansAccepted == Spec => []DeliveredWasAccepted
<1>1. HandsInv /\ LeaseInv => DeliveredWasAccepted
  <2> SUFFICES ASSUME HandsInv, LeaseInv, NEW d \in Deliveries,
                      delivery[d].status = "delivered", ~(lapses > 0)
               PROVE  accepts[d] > 0
    BY DEF DeliveredWasAccepted
  <2>1. lapses = 0
    BY ConstantsOK DEF HandsInv, RetentionInv, TypeOK
  <2> QED
    BY <2>1 DEF LeaseInv, Sound
<1> QED
  BY <1>1, Leases, PTL

\* "settle a delivery exactly once": until a lease runs out under a runner at
\* work, a settled row changes only when an operator redelivers it.
THEOREM SettlesOnce == Spec => SettledOnce
<1>1. HandsInv /\ LeaseInv /\ [Next]_vars =>
        [\A d \in Deliveries :
           /\ lapses' = 0
           /\ delivery[d].status \in {"delivered", "failed"}
           /\ delivery'[d].status # "absent"
           => \/ delivery'[d] = delivery[d]
              \/ delivery'[d] = [NewRow EXCEPT
                                    !.redeliveries = delivery[d].redeliveries + 1]]_vars
  <2> SUFFICES ASSUME HandsInv, LeaseInv, Next, lapses' = 0, NEW d \in Deliveries,
                      delivery[d].status \in {"delivered", "failed"},
                      delivery'[d].status # "absent", delivery'[d] # delivery[d]
               PROVE  delivery'[d] = [NewRow EXCEPT
                                        !.redeliveries = delivery[d].redeliveries + 1]
    OBVIOUS
  <2>1. /\ TypeOK /\ Local /\ ~Pending(d) /\ Present(d) /\ d[2] <= lastEvent
        /\ d[2] \in Nat /\ lastEvent \in Nat /\ delivery[d].claim # "live"
    BY DEF HandsInv, RetentionInv, Fresh, TypeOK, Pending, Present, Live, Deliveries, EventIds
  <2>2. \A q \in Runners : ~Holds(q, d)
    BY <2>1, LapsesStay, FreeRow DEF LeaseInv
  <2>3. ASSUME NEW x \in Deliveries, Redeliver(x)
        PROVE  delivery'[d] = [NewRow EXCEPT
                                 !.redeliveries = delivery[d].redeliveries + 1]
    BY <2>1, <2>3 DEF Redeliver, TypeOK
  <2>4. ASSUME NEW o, NEW targets, Record(o, targets) PROVE FALSE
    <3>1. d[2] # lastEvent + 1
      BY <2>1
    <3> QED
      BY <2>4, <3>1 DEF Record
  <2>5. ASSUME NEW x \in Deliveries, BackoffElapses(x) \/ LeaseExpires(x) PROVE FALSE
    BY <2>1, <2>5 DEF BackoffElapses, LeaseExpires, TypeOK
  <2>6. ASSUME NEW r \in Runners, CancelDisabled(r) PROVE FALSE
    BY <2>1, <2>6 DEF CancelDisabled
  <2>7. ASSUME NEW r \in Runners, NEW S \in SUBSET Deliveries, ClaimDue(r, S) PROVE FALSE
    BY <2>1, <2>7 DEF ClaimDue, Due
  <2>8. ASSUME NEW r \in Runners, Settle(r) PROVE FALSE
    <3>1. current[r].job.id \in Deliveries /\ Holds(r, current[r].job.id)
      BY <2>1, <2>8, SettleMoves DEF Holds
    <3>2. d # current[r].job.id
      BY <2>2, <3>1
    <3> QED
      BY <2>1, <2>8, <3>2 DEF Settle, MarkDelivered, MarkRetry, MarkFailed, WriteRow, TypeOK
  <2>9. ASSUME NEW e \in Endpoints, DeleteEndpoint(e) PROVE FALSE
    BY <2>9 DEF DeleteEndpoint, NoRow
  <2>10. ~SweepEvents
    BY DEF SweepEvents, NoRow
  <2> QED
    BY <2>3, <2>4, <2>5, <2>6, <2>7, <2>8, <2>9, <2>10
       DEF Next, Operator, Clock, Tick, Sweep, Emit, EmitTo, EmitFailure, InsertEndpoint,
           UpdateEndpoint, LoadJobs, Deliver, Crash, SweepDeliveries, SweepAborts, rows
<1> QED
  BY <1>1, HandsInit, HandsPreserved, LeaseInit, LeasePreserved, PTL DEF Spec, SettledOnce

-----------------------------------------------------------------------------
(* The queue implements a delivery ledger *)

\* What one step may do to one row.
LedgerMove(d) ==
  \/ /\ delivery'[d].status = delivery[d].status
     /\ accepts'[d] = accepts[d] \/ accepts'[d] > 0
  \/ delivery'[d].status = "absent"
  \/ delivery[d].status \in {"delivered", "failed"} /\ delivery'[d].status = "pending"
  \/ /\ accepts'[d] = accepts[d]
     /\ \/ delivery[d].status = "absent" /\ delivery'[d].status = "pending"
        \/ Pending(d) /\ delivery'[d].status = "delivered" /\ accepts[d] > 0
        \/ Pending(d) /\ delivery'[d].status = "failed"

LEMMA MovesAreLedgerMoves ==
  ASSUME NEW d,
         Same(d) \/ Gone(d) \/ Replayed(d) \/ Born(d) \/ Expired(d) \/ Cancelled(d) \/ Taken(d)
  PROVE  LedgerMove(d)
  BY DEF LedgerMove, Same, Gone, Replayed, Born, Expired, Cancelled, Taken, Pending

LEMMA LedgerMoves ==
  ASSUME HandsInv, LeaseInv, [Next]_vars, lapses' = 0, NEW d \in Deliveries
  PROVE  LedgerMove(d)
<1>0. TypeOK /\ RetentionInv /\ Local
  BY DEF HandsInv, RetentionInv
<1>1. Sound(d)
  BY <1>0, LapsesStay DEF LeaseInv
<1> USE <1>0, <1>1
<1>2. CASE Outside
  BY <1>2, OutsideMoves, MovesAreLedgerMoves
<1>3. ASSUME NEW x \in Deliveries, LeaseExpires(x) PROVE LedgerMove(d)
  BY <1>3, LeaseMoves, MovesAreLedgerMoves
<1>4. ASSUME NEW r \in Runners, CancelDisabled(r) \/ EmitFailure(r) PROVE LedgerMove(d)
  BY <1>4, CancelMoves, NoticeMoves, MovesAreLedgerMoves
<1>5. ASSUME NEW r \in Runners, NEW S \in SUBSET Deliveries, ClaimDue(r, S) PROVE LedgerMove(d)
  BY <1>5, ClaimMoves, MovesAreLedgerMoves
<1>6. ASSUME NEW r \in Runners, LoadJobs(r) \/ Crash(r) PROVE LedgerMove(d)
  BY <1>6 DEF LoadJobs, Crash, rows, LedgerMove
<1>7. ASSUME NEW r \in Runners, NEW j \in jobs[r], Deliver(r, j) PROVE LedgerMove(d)
  <2>1. delivery' = delivery /\ (accepts'[d] = accepts[d] \/ accepts'[d] > 0)
    BY <1>7 DEF Deliver, rows, TypeOK
  <2> QED
    BY <2>1 DEF LedgerMove
<1>8. ASSUME NEW r \in Runners, Settle(r) PROVE LedgerMove(d)
  <2> DEFINE own == current[r].job.id
  <2>1. CASE d # own \/ ~Present(own)
    BY <1>8, <2>1, SettleMoves, MovesAreLedgerMoves
  <2>2. CASE d = own /\ Present(own)
    <3>1. Holds(r, d) /\ (Answered(r, d) <=> current[r].ok)
      BY <1>8, <2>2, SettleHands DEF Local
    <3>2. Pending(d) /\ (current[r].ok => accepts[d] > 0)
      BY <2>2, <3>1 DEF Sound, HandsInv, Live
    <3>3. /\ accepts'[d] = accepts[d]
          /\ \/ current[r].ok /\ delivery'[d].status = "delivered"
             \/ delivery'[d].status = "failed"
             \/ delivery'[d].status = delivery[d].status
      BY <1>8, <2>2, SettleMoves
    <3> QED
      BY <3>2, <3>3 DEF LedgerMove
  <2> QED
    BY <2>1, <2>2
<1> QED
  BY <1>2, <1>3, <1>4, <1>5, <1>6, <1>7, <1>8 DEF Next, Clock, Tick, Outside

\* Until a lease runs out under a runner at work, the queue implements the
\* ledger: delivered means taken in the current round, and a settled row changes
\* only by an operator's redelivery or its removal.
THEOREM QueueKeepsLedger == Spec => KeepsLedger
<1>1. Init => Ledger!LedgerInit
  <2>1. ASSUME Init
        PROVE  \A d \in Deliveries : delivery[d].status = "absent" /\ (accepts[d] > 0) = FALSE
    BY <2>1, NewRowColumns DEF Init
  <2>2. ASSUME Init
        PROVE  \A d \in Deliveries : (IF delivery[d].status = "delivered"
                                      THEN "sent" ELSE delivery[d].status) = "absent"
    BY <2>1, <2>2
  <2> QED
    BY <2>1, <2>2, Zenon DEF Ledger!LedgerInit
<1>2. HandsInv /\ LeaseInv /\ [Next]_vars => [lapses' = 0 => Ledger!LedgerNext]_vars
  <2> SUFFICES ASSUME HandsInv, LeaseInv, [Next]_vars, lapses' = 0 PROVE Ledger!LedgerNext
    OBVIOUS
  <2>1. ASSUME NEW d \in Deliveries PROVE Ledger!Move(d)
    <3>1. LedgerMove(d)
      BY LedgerMoves
    <3> QED
      BY <3>1 DEF LedgerMove, Pending, Ledger!Move, Ledger!Taken, Ledger!Requeued,
                  Ledger!Removed, Ledger!Enqueued, Ledger!Confirmed, Ledger!GivenUp
  <2> QED
    BY <2>1 DEF Ledger!LedgerNext
<1> QED
  BY <1>1, <1>2, HandsInit, HandsPreserved, LeaseInit, LeasePreserved, PTL DEF Spec, KeepsLedger

=============================================================================
