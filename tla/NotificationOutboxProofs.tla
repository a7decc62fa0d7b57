---------------------- MODULE NotificationOutboxProofs ----------------------
(***************************************************************************)
(* Proofs about NotificationOutbox for any facts, channels, transports,    *)
(* emitting requests, runners, batch size and attempt cap, however often   *)
(* processes stop and leases lapse.                                        *)
(***************************************************************************)
EXTENDS NotificationOutbox, FiniteSetTheorems, TLAPS

-----------------------------------------------------------------------------
(* Rows *)

LEMMA FreshRow ==
  ASSUME NEW s \in {"absent", "pending", "skipped"}
  PROVE  RowIn(s) \in Row /\ RowIn(s).status = s
<1>1. (s = "pending") \in BOOLEAN
  OBVIOUS
<1> QED
  BY <1>1 DEF RowIn, Row

\* The columns a statement leaves alone.
LEMMA RowColumns ==
  ASSUME NEW x \in Row
  PROVE  /\ x.status \in {"absent", "pending", "sent", "failed", "skipped"}
         /\ x.attempts \in Nat /\ x.due \in BOOLEAN
         /\ x.claim \in {"none", "live", "expired"}
  BY DEF Row

\* mark_sent, mark_failed and settle_not_ready.
LEMMA SettledRow ==
  ASSUME NEW x \in Row, NEW s \in {"sent", "failed", "skipped"}
  PROVE  /\ [x EXCEPT !.status = s, !.claim = "none"] \in Row
         /\ [x EXCEPT !.status = s, !.claim = "none"].status = s
  BY DEF Row

\* Time moves one column.
LEMMA ClockRow ==
  ASSUME NEW x \in Row
  PROVE  /\ [x EXCEPT !.due = TRUE] \in Row /\ [x EXCEPT !.due = TRUE].status = x.status
         /\ [x EXCEPT !.claim = "expired"] \in Row
         /\ [x EXCEPT !.claim = "expired"].status = x.status
<1>1. [x EXCEPT !.due = TRUE] \in Row /\ [x EXCEPT !.due = TRUE].status = x.status
  BY DEF Row
<1>2. /\ [x EXCEPT !.claim = "expired"] \in Row
      /\ [x EXCEPT !.claim = "expired"].status = x.status
  BY DEF Row
<1> QED
  BY <1>1, <1>2

\* mark_retry of a pending row.
LEMMA RetriedRow ==
  ASSUME TypeOK, NEW d \in Rows
  PROVE  Retried(d) \in Row /\ Retried(d).status = "pending"
<1>1. row[d].attempts \in Nat
  BY RowColumns DEF TypeOK
<1> QED
  BY <1>1 DEF Retried, Row

\* The job in hand names a row.
LEMMA JobInHand ==
  ASSUME TypeOK, NEW r \in Runners, phase[r] = "settle"
  PROVE  current[r] \in Answer /\ current[r].job \in Job /\ current[r].job.id \in Rows
<1>1. current[r] \in Answer
  BY DEF TypeOK
<1> QED
  BY <1>1 DEF Answer, Job

-----------------------------------------------------------------------------
(* Type correctness *)

\* What the statements of one request may do to the rows.
LEMMA InsertType ==
  ASSUME TypeOK, NEW d \in Rows, NEW s \in {"pending", "skipped"}, InsertDelivery(d, s)
  PROVE  row' \in [Rows -> Row]
<1>1. RowIn(s) \in Row
  BY FreshRow
<1> QED
  BY <1>1 DEF TypeOK, InsertDelivery

\* What a settling write may do to the rows.
LEMMA WriteType ==
  ASSUME TypeOK, NEW d \in Rows, NEW x \in Row, WriteRow(d, x)
  PROVE  row' \in [Rows -> Row]
  BY DEF TypeOK, WriteRow

\* The end of a job.
LEMMA EndJobType ==
  ASSUME TypeOK, NEW r \in Runners, phase[r] = "settle", EndJob(r),
         row' \in [Rows -> Row], switches' = switches
  PROVE  TypeOK'
<1>1. phase' = [phase EXCEPT ![r] = NextJob(jobs[r])] /\ NextJob(jobs[r]) \in {"idle", "deliver"}
  BY DEF EndJob, NextJob
<1>2. phase' \in [Runners -> {"idle", "claim", "deliver", "settle"}]
  BY <1>1 DEF TypeOK
<1>3. current' \in [Runners -> Answer \cup {NoJob}]
  BY DEF EndJob, TypeOK
<1>4. \A q \in Runners : phase'[q] = "settle" <=> current'[q] # NoJob
  BY <1>1 DEF EndJob, TypeOK
<1> QED
  BY <1>2, <1>3, <1>4 DEF EndJob, TypeOK, history

\* A request's local state is typed.
LEMMA GotoType ==
  ASSUME TypeOK, NEW e \in Emitters, NEW x \in Emit, Goto(e, x)
  PROVE  emit' \in [Emitters -> Emit]
  BY DEF TypeOK, Goto

LEMMA EmitColumns ==
  ASSUME TypeOK, NEW e \in Emitters
  PROVE  emit[e].fact \in Facts /\ emit[e].on \subseteq Channels /\ emit[e].off \subseteq Channels
  BY DEF TypeOK, Emit

\* Every step of the requests, the runners, people and time keeps the type
\* invariant.
LEMMA TypePreserved == TypeOK /\ [Next]_vars => TypeOK'
<1> SUFFICES ASSUME TypeOK, [Next]_vars PROVE TypeOK'
  OBVIOUS
<1> USE DEF runner, history
<1>1. ASSUME NEW c \in Channels, SetPreference(c) PROVE TypeOK'
  <2>1. pref' \subseteq Channels /\ switches' \in 0 .. MaxSwitches
    BY <1>1, OutboxConstantsOK DEF TypeOK, SetPreference, Flip
  <2>2. shifted' \subseteq Facts
    BY <1>1, EmitColumns DEF TypeOK, SetPreference
  <2> QED
    BY <1>1, <2>1, <2>2 DEF TypeOK, SetPreference
<1>2. ASSUME NEW o \in Orgs, NEW c \in Queueable, SetChannel(o, c) PROVE TypeOK'
  BY <1>2, OutboxConstantsOK DEF TypeOK, SetChannel, Flip
<1>3. ASSUME NEW d \in Rows, RetryDelivery(d) PROVE TypeOK'
  <2>1. row[d].claim \in {"none", "live", "expired"}
    BY RowColumns DEF TypeOK
  <2>2. [status |-> "pending", attempts |-> 0, due |-> TRUE, claim |-> row[d].claim] \in Row
    BY <2>1 DEF Row
  <2>3. row' \in [Rows -> Row] /\ switches' \in 0 .. MaxSwitches
    BY <1>3, <2>2, OutboxConstantsOK DEF TypeOK, RetryDelivery, Flip
  <2> QED
    BY <1>3, <2>3 DEF TypeOK, RetryDelivery
<1>4. ASSUME NEW e \in Emitters, NEW f \in Facts, RecordFact(e, f) PROVE TypeOK'
  <2>1. [step |-> "allowed", fact |-> f, on |-> {}, off |-> {}] \in Emit
    BY DEF Emit
  <2> QED
    BY <1>4, <2>1, GotoType DEF TypeOK, RecordFact
<1>5. ASSUME NEW e \in Emitters, ReadAllowed(e) PROVE TypeOK'
  <2>1. [step |-> "disabled", fact |-> emit[e].fact, on |-> pref, off |-> {}] \in Emit
    BY EmitColumns DEF Emit, TypeOK
  <2> QED
    BY <1>5, <2>1, GotoType DEF TypeOK, ReadAllowed
<1>6. ASSUME NEW e \in Emitters, ReadDisabled(e) PROVE TypeOK'
  <2>1. [step |-> "queue", fact |-> emit[e].fact, on |-> emit[e].on,
         off |-> Channels \ pref] \in Emit
    BY EmitColumns DEF Emit, TypeOK
  <2> QED
    BY <1>6, <2>1, GotoType DEF TypeOK, ReadDisabled
<1>7. ASSUME NEW e \in Emitters, NEW c \in Channels, QueueEnabled(e, c) PROVE TypeOK'
  <2>1. [step |-> "queue", fact |-> emit[e].fact, on |-> emit[e].on \ {c},
         off |-> emit[e].off] \in Emit
    BY EmitColumns DEF Emit
  <2>2. <<emit[e].fact, c>> \in Rows
    BY EmitColumns DEF Rows
  <2>3. row' \in [Rows -> Row]
    BY <1>7, <2>2, InsertType DEF QueueEnabled
  <2> QED
    BY <1>7, <2>1, <2>3, GotoType DEF TypeOK, QueueEnabled
<1>8. ASSUME NEW e \in Emitters, NEW c \in Channels, SkipDisabled(e, c) PROVE TypeOK'
  <2>1. [step |-> "queue", fact |-> emit[e].fact, on |-> emit[e].on,
         off |-> emit[e].off \ {c}] \in Emit
    BY EmitColumns DEF Emit
  <2>2. <<emit[e].fact, c>> \in Rows
    BY EmitColumns DEF Rows
  <2>3. row' \in [Rows -> Row]
    BY <1>8, <2>2, InsertType DEF SkipDisabled
  <2> QED
    BY <1>8, <2>1, <2>3, GotoType DEF TypeOK, SkipDisabled
<1>9. ASSUME NEW e \in Emitters, QueueInApp(e) PROVE TypeOK'
  <2>1. [step |-> "tail", fact |-> emit[e].fact,
         on |-> Channels \ (Queueable \cup {InApp}), off |-> {}] \in Emit
    BY EmitColumns DEF Emit
  <2>2. <<emit[e].fact, InApp>> \in Rows
    BY EmitColumns, OutboxConstantsOK DEF Rows
  <2>3. row' \in [Rows -> Row]
    BY <1>9, <2>2, InsertType DEF QueueInApp
  <2> QED
    BY <1>9, <2>1, <2>3, GotoType DEF TypeOK, QueueInApp
<1>10. ASSUME NEW e \in Emitters, NEW c \in Channels, SkipUntransported(e, c) PROVE TypeOK'
  <2>1. [step |-> "tail", fact |-> emit[e].fact, on |-> emit[e].on \ {c}, off |-> {}] \in Emit
    BY EmitColumns DEF Emit
  <2>2. <<emit[e].fact, c>> \in Rows
    BY EmitColumns DEF Rows
  <2>3. row' \in [Rows -> Row]
    BY <1>10, <2>2, InsertType DEF SkipUntransported
  <2> QED
    BY <1>10, <2>1, <2>3, GotoType DEF TypeOK, SkipUntransported
<1>11. ASSUME NEW e \in Emitters, EndEmit(e) \/ EmitFails(e) PROVE TypeOK'
  <2>1. [step |-> "idle", fact |-> emit[e].fact, on |-> {}, off |-> {}] \in Emit
    BY EmitColumns DEF Emit
  <2>2. emit' \in [Emitters -> Emit]
    BY <1>11, <2>1, GotoType DEF EndEmit, EmitFails
  <2>3. CASE EndEmit(e)
    BY <2>2, <2>3, EmitColumns DEF TypeOK, EndEmit
  <2>4. CASE EmitFails(e)
    BY <2>2, <2>4, OutboxConstantsOK DEF TypeOK, EmitFails
  <2> QED
    BY <1>11, <2>3, <2>4
<1>12. ASSUME NEW d \in Rows, BackoffElapses(d) PROVE TypeOK'
  <2>1. row' \in [Rows -> Row]
    BY <1>12, ClockRow DEF TypeOK, BackoffElapses
  <2> QED
    BY <1>12, <2>1 DEF TypeOK, BackoffElapses
<1>13. ASSUME NEW d \in Rows, LeaseExpires(d) PROVE TypeOK'
  <2>1. row' \in [Rows -> Row]
    BY <1>13, ClockRow DEF TypeOK, LeaseExpires
  <2>2. faults' \in 0 .. MaxFaults
    BY <1>13, OutboxConstantsOK DEF TypeOK, LeaseExpires
  <2> QED
    BY <1>13, <2>1, <2>2 DEF TypeOK, LeaseExpires
<1>14. ASSUME NEW r \in Runners, SettleNotReady(r) PROVE TypeOK'
  <2>1. row' \in [Rows -> Row]
    BY <1>14, SettledRow DEF TypeOK, SettleNotReady
  <2> QED
    BY <1>14, <2>1 DEF TypeOK, SettleNotReady
<1>15. ASSUME NEW r \in Runners, NEW S \in SUBSET Due, ClaimDue(r, S) PROVE TypeOK'
  <2>1. \A d \in Rows : row[d].attempts + 1 \in Nat
    BY RowColumns DEF TypeOK
  <2>2. \A d \in Rows : [status |-> "pending", attempts |-> row[d].attempts + 1,
                         due |-> TRUE, claim |-> "live"] \in Row
    BY <2>1 DEF Row
  <2>3. row' \in [Rows -> Row]
    BY <1>15, <2>2 DEF TypeOK, ClaimDue
  <2>4. \A d \in S : [id |-> d, attempts |-> row[d].attempts + 1] \in Job
    BY <2>1 DEF Job, Due
  <2>5. jobs' \in [Runners -> SUBSET Job]
    BY <1>15, <2>4 DEF TypeOK, ClaimDue
  <2>6. phase' \in [Runners -> {"idle", "claim", "deliver", "settle"}]
    BY <1>15 DEF TypeOK, ClaimDue
  <2>7. \A q \in Runners : phase'[q] = "settle" <=> current'[q] # NoJob
    BY <1>15 DEF TypeOK, ClaimDue
  <2> QED
    BY <1>15, <2>3, <2>5, <2>6, <2>7 DEF TypeOK, ClaimDue
<1>16. ASSUME NEW r \in Runners, NEW j \in jobs[r], NoTransport(r, j) PROVE TypeOK'
  <2>1. j \in Job /\ j.id \in Rows
    BY DEF TypeOK, Job
  <2>2. row' \in [Rows -> Row]
    BY <1>16, <2>1, RetriedRow, WriteType DEF NoTransport
  <2>3. jobs' \in [Runners -> SUBSET Job]
    BY <1>16 DEF TypeOK, NoTransport
  <2>4. NextJob(jobs[r] \ {j}) \in {"idle", "deliver"}
    BY DEF NextJob
  <2>5. phase' \in [Runners -> {"idle", "claim", "deliver", "settle"}]
    BY <1>16, <2>4 DEF TypeOK, NoTransport
  <2>6. \A q \in Runners : phase'[q] = "settle" <=> current'[q] # NoJob
    BY <1>16, <2>4 DEF TypeOK, NoTransport
  <2> QED
    BY <1>16, <2>2, <2>3, <2>5, <2>6 DEF TypeOK, NoTransport
<1>17. ASSUME NEW r \in Runners, NEW j \in jobs[r], NEW ok \in BOOLEAN, Deliver(r, j, ok)
       PROVE  TypeOK'
  <2>1. j \in Job /\ j.id \in Rows
    BY DEF TypeOK, Job
  <2>2. [job |-> j, ok |-> ok] \in Answer
    BY <2>1 DEF Answer
  <2>3. [job |-> j, ok |-> ok] # NoJob
    <3>1. [job |-> j, ok |-> ok].job = j /\ NoJob.job = <<>>
      BY DEF NoJob
    <3>2. j # <<>>
      BY <2>1 DEF Job
    <3> QED
      BY <3>1, <3>2
  <2>4. jobs' \in [Runners -> SUBSET Job]
    BY <1>17 DEF TypeOK, Deliver
  <2>5. accepts' \in [Rows -> Nat]
    BY <1>17, <2>1 DEF TypeOK, Deliver
  <2>6. current' \in [Runners -> Answer \cup {NoJob}]
    BY <1>17, <2>2 DEF TypeOK, Deliver
  <2>7. \A q \in Runners : phase'[q] = "settle" <=> current'[q] # NoJob
    BY <1>17, <2>3 DEF TypeOK, Deliver
  <2> QED
    BY <1>17, <2>4, <2>5, <2>6, <2>7 DEF TypeOK, Deliver
<1>18. ASSUME NEW r \in Runners, MarkSent(r) \/ MarkRetry(r) \/ MarkFailed(r) PROVE TypeOK'
  <2>1. phase[r] = "settle" /\ EndJob(r)
    BY <1>18 DEF MarkSent, MarkRetry, MarkFailed
  <2>2. current[r].job.id \in Rows
    BY <2>1, JobInHand
  <2>3. row' \in [Rows -> Row]
    <3>1. CASE MarkSent(r)
      <4>1. [row[current[r].job.id] EXCEPT !.status = "sent", !.claim = "none"] \in Row
        BY <2>2, SettledRow DEF TypeOK
      <4> QED
        BY <2>2, <3>1, <4>1, WriteType DEF MarkSent
    <3>2. CASE MarkRetry(r)
      BY <2>2, <3>2, RetriedRow, WriteType DEF MarkRetry
    <3>3. CASE MarkFailed(r)
      <4>1. [row[current[r].job.id] EXCEPT !.status = "failed", !.claim = "none"] \in Row
        BY <2>2, SettledRow DEF TypeOK
      <4> QED
        BY <2>2, <3>3, <4>1, WriteType DEF MarkFailed
    <3> QED
      BY <1>18, <3>1, <3>2, <3>3
  <2>4. switches' = switches
    BY <2>1 DEF EndJob
  <2> QED
    BY <2>1, <2>3, <2>4, EndJobType
<1>19. ASSUME NEW r \in Runners, Crash(r) PROVE TypeOK'
  BY <1>19, OutboxConstantsOK DEF TypeOK, Crash
<1>20. CASE UNCHANGED vars
  BY <1>20 DEF TypeOK, vars
<1> QED
  BY <1>1, <1>2, <1>3, <1>4, <1>5, <1>6, <1>7, <1>8, <1>9, <1>10, <1>11, <1>12, <1>13,
     <1>14, <1>15, <1>16, <1>17, <1>18, <1>19, <1>20
  DEF Next, Switches, Request, Clock, Tick, Attempt

LEMMA InitType == Init => TypeOK
<1> SUFFICES ASSUME Init PROVE TypeOK
  OBVIOUS
<1>1. PICK f \in Facts : \A e \in Emitters :
        emit[e] = [step |-> "idle", fact |-> f, on |-> {}, off |-> {}]
  BY OutboxConstantsOK DEF Init
<1>2. emit \in [Emitters -> Emit]
  <2>1. [step |-> "idle", fact |-> f, on |-> {}, off |-> {}] \in Emit
    BY DEF Emit
  <2>2. emit = [e \in Emitters |-> emit[e]]
    BY DEF Init
  <2> QED
    BY <1>1, <2>1, <2>2
<1>3. row \in [Rows -> Row]
  BY FreshRow DEF Init
<1>4. \A r \in Runners : phase[r] = "settle" <=> current[r] # NoJob
  BY DEF Init
<1> QED
  BY <1>2, <1>3, <1>4, OutboxConstantsOK DEF Init, TypeOK

\* Rows, requests and runners stay in their types, and a runner holds an
\* outcome exactly between the send and its settling write.
THEOREM TypeCorrect == Spec => []TypeOK
  BY InitType, TypePreserved, PTL DEF Spec

-----------------------------------------------------------------------------
(* What one step may do to one row *)

\* A positive outcome in a runner's hands is one the receiver took.
Answered ==
  \A r \in Runners :
    phase[r] = "settle" /\ current[r].ok => accepts[current[r].job.id] > 0

RowMove(d) ==
  \/ /\ row'[d].status = row[d].status
     /\ accepts'[d] = accepts[d] \/ accepts'[d] > 0
  \/ /\ accepts'[d] = accepts[d]
     /\ \/ row[d].status = "absent" /\ row'[d].status = "skipped"
        \/ /\ row[d].status = "absent" /\ row'[d].status = "pending"
           /\ d[2] \in Queueable \cup {InApp}
        \/ row[d].status = "pending" /\ row'[d].status = "sent" /\ accepts[d] > 0
        \/ row[d].status = "pending" /\ row'[d].status \in {"failed", "skipped"}
        \/ row[d].status = "failed" /\ row'[d].status = "pending"

LEMMA Still ==
  ASSUME row' = row, accepts' = accepts
  PROVE  \A d \in Rows : RowMove(d)
  BY DEF RowMove

LEMMA InsertMove ==
  ASSUME TypeOK, NEW d \in Rows, NEW s \in {"pending", "skipped"}, InsertDelivery(d, s),
         s = "pending" => d[2] \in Queueable \cup {InApp}, accepts' = accepts
  PROVE  /\ \A x \in Rows : RowMove(x)
         /\ row'[d].status # "absent"
<1>1. RowIn(s).status = s
  BY FreshRow
<1>2. \A x \in Rows : x # d => row'[x] = row[x]
  BY DEF InsertDelivery, TypeOK
<1>3. row'[d] = IF row[d].status = "absent" THEN RowIn(s) ELSE row[d]
  BY DEF InsertDelivery, TypeOK
<1> QED
  BY <1>1, <1>2, <1>3 DEF RowMove

LEMMA WriteMove ==
  ASSUME TypeOK, NEW d \in Rows, NEW x \in Row, WriteRow(d, x), accepts' = accepts,
         \/ x.status = "pending"
         \/ x.status = "sent" /\ accepts[d] > 0
         \/ x.status = "failed"
  PROVE  \A y \in Rows : RowMove(y)
<1>1. \A y \in Rows : y # d => row'[y] = row[y]
  BY DEF WriteRow, TypeOK
<1>2. row'[d] = IF row[d].status = "pending" THEN x ELSE row[d]
  BY DEF WriteRow, TypeOK, Pending
<1> QED
  BY <1>1, <1>2 DEF RowMove

LEMMA Moves == TypeOK /\ Answered /\ [Next]_vars => \A d \in Rows : RowMove(d)
<1> SUFFICES ASSUME TypeOK, Answered, [Next]_vars PROVE \A d \in Rows : RowMove(d)
  OBVIOUS
<1> USE DEF runner, history
<1>1. ASSUME NEW c \in Channels, SetPreference(c) PROVE \A d \in Rows : RowMove(d)
  BY <1>1, Still DEF SetPreference
<1>2. ASSUME NEW o \in Orgs, NEW c \in Queueable, SetChannel(o, c)
      PROVE  \A d \in Rows : RowMove(d)
  BY <1>2, Still DEF SetChannel
<1>3. ASSUME NEW d \in Rows, RetryDelivery(d) PROVE \A x \in Rows : RowMove(x)
  <2>1. \A x \in Rows : x # d => row'[x] = row[x]
    BY <1>3 DEF RetryDelivery, TypeOK
  <2>2. row'[d].status = "pending"
    BY <1>3 DEF RetryDelivery, TypeOK
  <2> QED
    BY <1>3, <2>1, <2>2 DEF RetryDelivery, RowMove
<1>4. ASSUME NEW e \in Emitters, \E f \in Facts : RecordFact(e, f)
      PROVE  \A d \in Rows : RowMove(d)
  BY <1>4, Still DEF RecordFact
<1>5. ASSUME NEW e \in Emitters, ReadAllowed(e) \/ ReadDisabled(e) \/ EndEmit(e) \/ EmitFails(e)
      PROVE  \A d \in Rows : RowMove(d)
  BY <1>5, Still DEF ReadAllowed, ReadDisabled, EndEmit, EmitFails
<1>6. ASSUME NEW e \in Emitters, NEW c \in Channels, QueueEnabled(e, c)
      PROVE  \A d \in Rows : RowMove(d)
  <2>1. <<emit[e].fact, c>> \in Rows /\ <<emit[e].fact, c>>[2] = c
    BY EmitColumns DEF Rows
  <2>2. c \in Queueable
    BY <1>6 DEF QueueEnabled, ToQueue
  <2> QED
    BY <1>6, <2>1, <2>2, InsertMove DEF QueueEnabled
<1>7. ASSUME NEW e \in Emitters, NEW c \in Channels,
             SkipDisabled(e, c) \/ SkipUntransported(e, c)
      PROVE  \A d \in Rows : RowMove(d)
  <2>1. <<emit[e].fact, c>> \in Rows
    BY EmitColumns DEF Rows
  <2>2. InsertDelivery(<<emit[e].fact, c>>, "skipped") /\ accepts' = accepts
    BY <1>7 DEF SkipDisabled, SkipUntransported
  <2> QED
    BY <2>1, <2>2, InsertMove
<1>8. ASSUME NEW e \in Emitters, QueueInApp(e) PROVE \A d \in Rows : RowMove(d)
  <2>1. <<emit[e].fact, InApp>> \in Rows /\ <<emit[e].fact, InApp>>[2] = InApp
    BY EmitColumns, OutboxConstantsOK DEF Rows
  <2> QED
    BY <1>8, <2>1, InsertMove DEF QueueInApp
<1>9. ASSUME NEW d \in Rows, BackoffElapses(d) \/ LeaseExpires(d)
      PROVE  \A x \in Rows : RowMove(x)
  <2>1. \A x \in Rows : x # d => row'[x] = row[x]
    BY <1>9 DEF BackoffElapses, LeaseExpires, TypeOK
  <2>2. row[d] \in Row
    BY DEF TypeOK
  <2>3. row'[d].status = row[d].status
    <3>1. CASE BackoffElapses(d)
      BY <3>1, <2>2, ClockRow DEF BackoffElapses, TypeOK
    <3>2. CASE LeaseExpires(d)
      BY <3>2, <2>2, ClockRow DEF LeaseExpires, TypeOK
    <3> QED
      BY <1>9, <3>1, <3>2
  <2>4. accepts' = accepts
    BY <1>9 DEF BackoffElapses, LeaseExpires
  <2> QED
    BY <2>1, <2>3, <2>4 DEF RowMove
<1>10. ASSUME NEW r \in Runners, SettleNotReady(r) PROVE \A d \in Rows : RowMove(d)
  <2>1. SUFFICES ASSUME NEW d \in Rows PROVE RowMove(d)
    OBVIOUS
  <2>2. accepts' = accepts
    BY <1>10 DEF SettleNotReady
  <2>3. CASE d \in NotReady
    <3>1. row'[d] = [row[d] EXCEPT !.status = "skipped", !.claim = "none"]
      BY <1>10, <2>3 DEF SettleNotReady
    <3>2. row[d] \in Row
      BY DEF TypeOK
    <3>3. [row[d] EXCEPT !.status = "skipped", !.claim = "none"].status = "skipped"
      BY <3>2, SettledRow
    <3>4. row'[d].status = "skipped"
      BY <3>1, <3>3
    <3> QED
      BY <2>2, <2>3, <3>4 DEF NotReady, Pending, RowMove
  <2>4. CASE d \notin NotReady
    BY <1>10, <2>2, <2>4 DEF SettleNotReady, RowMove
  <2> QED
    BY <2>3, <2>4
<1>11. ASSUME NEW r \in Runners, NEW S \in SUBSET Due, ClaimDue(r, S)
       PROVE  \A d \in Rows : RowMove(d)
  <2>1. \A d \in Rows : row'[d].status = row[d].status
    BY <1>11 DEF ClaimDue, Due, Pending
  <2> QED
    BY <1>11, <2>1 DEF ClaimDue, RowMove
<1>12. ASSUME NEW r \in Runners, NEW j \in jobs[r], NoTransport(r, j)
       PROVE  \A d \in Rows : RowMove(d)
  <2>1. j.id \in Rows
    BY DEF TypeOK, Job
  <2>2. Retried(j.id) \in Row /\ Retried(j.id).status = "pending"
    BY <2>1, RetriedRow
  <2> QED
    BY <1>12, <2>1, <2>2, WriteMove DEF NoTransport
<1>13. ASSUME NEW r \in Runners, NEW j \in jobs[r], NEW ok \in BOOLEAN, Deliver(r, j, ok)
       PROVE  \A d \in Rows : RowMove(d)
  <2>1. j.id \in Rows
    BY DEF TypeOK, Job
  <2>2. \A d \in Rows : accepts'[d] = accepts[d] \/ accepts'[d] > 0
    BY <1>13, <2>1 DEF TypeOK, Deliver
  <2> QED
    BY <1>13, <2>2 DEF Deliver, RowMove
<1>14. ASSUME NEW r \in Runners, MarkSent(r) \/ MarkRetry(r) \/ MarkFailed(r)
       PROVE  \A d \in Rows : RowMove(d)
  <2>1. phase[r] = "settle" /\ EndJob(r)
    BY <1>14 DEF MarkSent, MarkRetry, MarkFailed
  <2>2. current[r].job.id \in Rows /\ row[current[r].job.id] \in Row
    BY <2>1, JobInHand DEF TypeOK
  <2>3. accepts' = accepts
    BY <2>1 DEF EndJob
  <2>4. CASE MarkSent(r)
    <3>1. /\ [row[current[r].job.id] EXCEPT !.status = "sent", !.claim = "none"] \in Row
          /\ [row[current[r].job.id] EXCEPT !.status = "sent", !.claim = "none"].status = "sent"
      BY <2>2, SettledRow
    <3>2. accepts[current[r].job.id] > 0
      BY <2>4 DEF MarkSent, Answered
    <3> QED
      BY <2>2, <2>3, <2>4, <3>1, <3>2, WriteMove DEF MarkSent
  <2>5. CASE MarkRetry(r)
    BY <2>2, <2>3, <2>5, RetriedRow, WriteMove DEF MarkRetry
  <2>6. CASE MarkFailed(r)
    <3>1. /\ [row[current[r].job.id] EXCEPT !.status = "failed", !.claim = "none"] \in Row
          /\ [row[current[r].job.id] EXCEPT !.status = "failed", !.claim = "none"].status = "failed"
      BY <2>2, SettledRow
    <3> QED
      BY <2>2, <2>3, <2>6, <3>1, WriteMove DEF MarkFailed
  <2> QED
    BY <1>14, <2>4, <2>5, <2>6
<1>15. ASSUME NEW r \in Runners, Crash(r) PROVE \A d \in Rows : RowMove(d)
  BY <1>15, Still DEF Crash
<1>16. CASE UNCHANGED vars
  BY <1>16, Still DEF vars
<1> QED
  BY <1>1, <1>2, <1>3, <1>4, <1>5, <1>6, <1>7, <1>8, <1>9, <1>10, <1>11, <1>12, <1>13,
     <1>14, <1>15, <1>16
  DEF Next, Switches, Request, Clock, Tick, Attempt

\* The counter of a row that was taken once stays positive, so an outcome stays
\* answered until it is settled.
LEMMA AnsweredPreserved == TypeOK /\ Answered /\ [Next]_vars => Answered'
<1> SUFFICES ASSUME TypeOK, Answered, [Next]_vars PROVE Answered'
  OBVIOUS
<1> USE DEF runner, history
<1>1. \A d \in Rows : accepts[d] > 0 => accepts'[d] > 0
  BY Moves DEF RowMove
<1>2. ASSUME NEW r \in Runners, phase'[r] = "settle", phase[r] = "settle",
             current'[r] = current[r], current[r].ok
      PROVE  accepts'[current'[r].job.id] > 0
  BY <1>1, <1>2, JobInHand DEF Answered
<1>3. SUFFICES ASSUME NEW q \in Runners, phase'[q] = "settle", current'[q].ok
               PROVE  accepts'[current'[q].job.id] > 0
  BY DEF Answered
<1>4. CASE UNCHANGED <<phase, current>>
  BY <1>2, <1>3, <1>4
<1>5. ASSUME NEW r \in Runners, Tick(r) \/ Crash(r), q # r
      PROVE  phase'[q] = phase[q] /\ current'[q] = current[q]
  BY <1>5 DEF TypeOK, Tick, Attempt, Crash, SettleNotReady, ClaimDue, Deliver, NoTransport,
              MarkSent, MarkRetry, MarkFailed, EndJob
<1>6. ASSUME Tick(q) \/ Crash(q) PROVE accepts'[current'[q].job.id] > 0
  <2>1. PICK j \in jobs[q], ok \in BOOLEAN : Deliver(q, j, ok)
    <3>1. CASE SettleNotReady(q)
      BY <1>3, <3>1 DEF SettleNotReady, TypeOK
    <3>2. CASE \E S \in SUBSET Due : ClaimDue(q, S)
      BY <1>3, <3>2 DEF ClaimDue, TypeOK
    <3>3. CASE \E j \in jobs[q] : NoTransport(q, j)
      BY <1>3, <3>3 DEF NoTransport, NextJob, TypeOK
    <3>4. CASE MarkSent(q) \/ MarkRetry(q) \/ MarkFailed(q)
      BY <1>3, <3>4 DEF MarkSent, MarkRetry, MarkFailed, EndJob, NextJob, TypeOK
    <3>5. CASE Crash(q)
      BY <1>3, <3>5 DEF Crash, TypeOK
    <3> QED
      BY <1>6, <3>1, <3>2, <3>3, <3>4, <3>5 DEF Tick, Attempt
  <2>2. j.id \in Rows
    BY DEF TypeOK, Job
  <2>3. current'[q] = [job |-> j, ok |-> ok]
    BY <2>1 DEF Deliver, TypeOK
  <2>4. ok
    BY <1>3, <2>3
  <2>5. accepts'[j.id] = accepts[j.id] + 1 /\ accepts[j.id] \in Nat
    BY <2>1, <2>2, <2>4 DEF Deliver, TypeOK
  <2> QED
    BY <2>3, <2>5
<1>7. CASE \E r \in Runners : Tick(r) \/ Crash(r)
  BY <1>2, <1>3, <1>5, <1>6, <1>7
<1>8. CASE Switches \/ Clock \/ UNCHANGED vars
  BY <1>4, <1>8 DEF Switches, Clock, SetPreference, SetChannel, RetryDelivery, BackoffElapses,
                    LeaseExpires, vars
<1>9. CASE \E e \in Emitters : Request(e)
  BY <1>4, <1>9 DEF Request, RecordFact, ReadAllowed, ReadDisabled, QueueEnabled, SkipDisabled,
                    QueueInApp, SkipUntransported, EndEmit, EmitFails
<1> QED
  BY <1>7, <1>8, <1>9 DEF Next

LEMMA AnsweredInductive == Spec => []Answered
<1>1. Init => Answered
  BY DEF Init, Answered
<1> QED
  BY <1>1, TypeCorrect, AnsweredPreserved, PTL DEF Spec

\* A channel no transport exists for never gets a waiting row, whatever the
\* lists a request read, and so is never claimed, retried or failed.
THEOREM UntransportedRowsSkipped == Spec => []UntransportedIsSkipped
<1>1. Init => UntransportedIsSkipped
  <2>1. RowIn("absent").status = "absent"
    BY FreshRow
  <2> QED
    BY <2>1 DEF Init, UntransportedIsSkipped, Rows
<1>2. TypeOK /\ Answered /\ UntransportedIsSkipped /\ [Next]_vars => UntransportedIsSkipped'
  <2> SUFFICES ASSUME TypeOK, Answered, UntransportedIsSkipped, [Next]_vars,
                      NEW f \in Facts, NEW c \in Channels \ (Queueable \cup {InApp})
               PROVE  row'[<<f, c>>].status \in {"absent", "skipped"}
    BY DEF UntransportedIsSkipped
  <2>1. <<f, c>> \in Rows /\ <<f, c>>[2] = c
    BY DEF Rows
  <2>2. RowMove(<<f, c>>)
    BY <2>1, Moves
  <2>3. row[<<f, c>>].status \in {"absent", "skipped"}
    BY DEF UntransportedIsSkipped
  <2> QED
    BY <2>1, <2>2, <2>3 DEF RowMove
<1> QED
  BY <1>1, <1>2, TypeCorrect, AnsweredInductive, PTL DEF Spec

\* The outbox implements the delivery ledger: a row says sent only of a message
\* its receiver took, settled rows are final, and only a failed row is started
\* over, however runners, leases, crashes and switches interleave.
THEOREM OutboxKeepsLedger == Spec => KeepsLedger
<1>1. Init => Ledger!LedgerInit
  <2>1. RowIn("absent").status = "absent"
    BY FreshRow
  <2>2. ASSUME Init PROVE \A d \in Rows : row[d].status = "absent" /\ (accepts[d] > 0) = FALSE
    BY <2>1, <2>2 DEF Init
  <2> QED
    BY <2>2, Zenon DEF Ledger!LedgerInit
<1>2. TypeOK /\ Answered /\ [Next]_vars
        => [Ledger!LedgerNext]_<<[d \in Rows |-> row[d].status],
                                 [d \in Rows |-> accepts[d] > 0]>>
  <2> SUFFICES ASSUME TypeOK, Answered, [Next]_vars PROVE Ledger!LedgerNext
    OBVIOUS
  <2>1. ASSUME NEW d \in Rows PROVE Ledger!Move(d)
    <3>1. RowMove(d)
      BY Moves
    <3> QED
      BY <3>1 DEF RowMove, Ledger!Move, Ledger!Taken, Ledger!Requeued, Ledger!Enqueued,
                  Ledger!Confirmed, Ledger!GivenUp
  <2> QED
    BY <2>1 DEF Ledger!LedgerNext
<1> QED
  BY <1>1, <1>2, TypeCorrect, AnsweredInductive, PTL DEF Spec, KeepsLedger, Ledger!LedgerSpec

-----------------------------------------------------------------------------
(* A finished emit leaves its rows *)

Absent(f, c) == row[<<f, c>>].status = "absent"

\* What a request has still to write, in its lists, or what the reader's switch
\* has made it miss.
EmitProgress ==
  \A e \in Emitters :
    /\ emit[e].step = "disabled" => emit[e].on = pref \/ emit[e].fact \in shifted
    /\ emit[e].step = "queue" =>
         \A c \in Queueable :
           Absent(emit[e].fact, c) => \/ c \in emit[e].on \/ c \in emit[e].off
                                      \/ emit[e].fact \in shifted
    /\ emit[e].step = "tail" =>
         \A c \in Channels :
           Absent(emit[e].fact, c) => \/ c \in emit[e].on
                                      \/ c \in Queueable /\ emit[e].fact \in shifted

EmitInv == EmitProgress /\ EmitLeavesRows

\* Rows are never taken away.
LEMMA RowsStay ==
  ASSUME TypeOK, Answered, [Next]_vars
  PROVE  \A f \in Facts, c \in Channels : Absent(f, c)' => Absent(f, c)
<1> SUFFICES ASSUME NEW f \in Facts, NEW c \in Channels, row'[<<f, c>>].status = "absent"
             PROVE  row[<<f, c>>].status = "absent"
  BY DEF Absent
<1>1. RowMove(<<f, c>>)
  BY Moves DEF Rows
<1> QED
  BY <1>1 DEF RowMove

\* Steps that touch neither requests nor preferences.
LEMMA EmitUntouched ==
  ASSUME TypeOK, Answered, [Next]_vars, EmitInv,
         UNCHANGED <<emit, pref, emitted, shifted>>
  PROVE  EmitInv'
  BY RowsStay, EmitColumns, OutboxConstantsOK DEF EmitInv, EmitProgress, EmitLeavesRows, TypeOK, Absent

LEMMA EmitLeavesPreserved == TypeOK /\ Answered /\ EmitInv /\ [Next]_vars => EmitInv'
<1> SUFFICES ASSUME TypeOK, Answered, EmitInv, [Next]_vars PROVE EmitInv'
  OBVIOUS
<1> USE DEF runner, history
<1>0. /\ \A f \in Facts, c \in Channels : Absent(f, c)' => Absent(f, c)
      /\ Queueable \subseteq Channels /\ InApp \in Channels
  BY RowsStay, OutboxConstantsOK
<1>1. CASE \E c \in Channels : SetPreference(c)
  <2>1. emit' = emit /\ emitted' = emitted /\ shifted \subseteq shifted'
    BY <1>1 DEF SetPreference
  <2>2. \A e \in Emitters : emit[e].step # "idle" => emit[e].fact \in shifted'
    BY <1>1 DEF SetPreference
  <2>3. EmitProgress'
    BY <1>0, <2>1, <2>2, EmitColumns DEF EmitInv, EmitProgress
  <2>4. EmitLeavesRows'
    BY <1>0, <2>1 DEF EmitInv, EmitLeavesRows, Absent, TypeOK
  <2> QED
    BY <2>3, <2>4 DEF EmitInv
<1>2. CASE (\E o \in Orgs, c \in Queueable : SetChannel(o, c)) \/ \E d \in Rows : RetryDelivery(d)
  BY <1>2, EmitUntouched DEF SetChannel, RetryDelivery
<1>3. CASE Clock \/ UNCHANGED vars
  BY <1>3, EmitUntouched DEF Clock, BackoffElapses, LeaseExpires, vars
<1>4. CASE \E r \in Runners : Tick(r) \/ Crash(r)
  BY <1>4, EmitUntouched DEF Tick, Attempt, Crash, SettleNotReady, ClaimDue, Deliver,
     NoTransport, MarkSent, MarkRetry, MarkFailed, EndJob
<1>5. ASSUME NEW e \in Emitters, Request(e) PROVE EmitInv'
  <2>1. emit[e].fact \in Facts /\ pref' = pref /\ shifted' = shifted
    BY <1>5, EmitColumns DEF Request, RecordFact, ReadAllowed, ReadDisabled, QueueEnabled,
       SkipDisabled, QueueInApp, SkipUntransported, EndEmit, EmitFails
  <2>2. \A x \in Emitters : x # e => emit'[x] = emit[x]
    BY <1>5 DEF TypeOK, Goto, Request, RecordFact, ReadAllowed, ReadDisabled, QueueEnabled,
       SkipDisabled, QueueInApp, SkipUntransported, EndEmit, EmitFails
  <2>3. ASSUME NEW x \in Emitters, x # e
        PROVE  /\ emit'[x].step = "disabled" => emit'[x].on = pref' \/ emit'[x].fact \in shifted'
               /\ emit'[x].step = "queue" =>
                    \A c \in Queueable :
                      Absent(emit[x].fact, c)' =>
                        \/ c \in emit'[x].on \/ c \in emit'[x].off \/ emit'[x].fact \in shifted'
               /\ emit'[x].step = "tail" =>
                    \A c \in Channels :
                      Absent(emit[x].fact, c)' =>
                        c \in emit'[x].on \/ (c \in Queueable /\ emit'[x].fact \in shifted')
    BY <1>0, <2>1, <2>2, <2>3, EmitColumns DEF EmitInv, EmitProgress
  <2>5. ASSUME emit'[e].step \in {"idle", "allowed"}, EmitLeavesRows' PROVE EmitInv'
    BY <2>3, <2>5 DEF EmitInv, EmitProgress
  <2>6. CASE (\E f \in Facts : RecordFact(e, f)) \/ EmitFails(e)
    <3>1. emit'[e].step \in {"idle", "allowed"}
      BY <2>6 DEF RecordFact, EmitFails, Goto, TypeOK
    <3>2. EmitLeavesRows'
      BY <1>0, <2>6 DEF RecordFact, EmitFails, EmitInv, EmitLeavesRows, Absent, TypeOK
    <3> QED
      BY <2>5, <3>1, <3>2
  <2>7. CASE ReadAllowed(e)
    <3>1. emit'[e].step = "disabled" /\ emit'[e].on = pref
      BY <2>7 DEF ReadAllowed, Goto, TypeOK
    <3>2. EmitLeavesRows'
      BY <1>0, <2>7 DEF ReadAllowed, EmitInv, EmitLeavesRows, Absent, TypeOK
    <3> QED
      BY <2>1, <2>3, <3>1, <3>2 DEF EmitInv, EmitProgress
  <2>8. CASE ReadDisabled(e)
    <3>1. /\ emit'[e].step = "queue" /\ emit'[e].on = emit[e].on
          /\ emit'[e].off = Channels \ pref /\ emit'[e].fact = emit[e].fact
      BY <2>8 DEF ReadDisabled, Goto, TypeOK
    <3>2. EmitLeavesRows'
      BY <1>0, <2>8 DEF ReadDisabled, EmitInv, EmitLeavesRows, Absent, TypeOK
    <3>3. emit[e].on = pref \/ emit[e].fact \in shifted
      BY <2>8 DEF ReadDisabled, EmitInv, EmitProgress
    <3> QED
      BY <1>0, <2>1, <2>3, <3>1, <3>2, <3>3 DEF EmitInv, EmitProgress
  <2>9. ASSUME NEW c \in Channels, QueueEnabled(e, c) \/ SkipDisabled(e, c) PROVE EmitInv'
    <3>1. /\ emit'[e].step = "queue" /\ emit'[e].fact = emit[e].fact
          /\ emit[e].on \subseteq emit'[e].on \cup {c}
          /\ emit[e].off \subseteq emit'[e].off \cup {c}
      BY <2>9 DEF QueueEnabled, SkipDisabled, Goto, TypeOK
    <3>2. ~Absent(emit[e].fact, c)'
      <4>1. <<emit[e].fact, c>> \in Rows
        BY EmitColumns DEF Rows
      <4>2. CASE QueueEnabled(e, c)
        <5>1. <<emit[e].fact, c>>[2] \in Queueable
          BY <4>2 DEF QueueEnabled, ToQueue
        <5> QED
          BY <3>1, <4>1, <4>2, <5>1, InsertMove DEF QueueEnabled, Absent
      <4>3. CASE SkipDisabled(e, c)
        BY <3>1, <4>1, <4>3, InsertMove DEF SkipDisabled, Absent
      <4> QED
        BY <2>9, <4>2, <4>3
    <3>3. EmitLeavesRows'
      BY <1>0, <2>9 DEF QueueEnabled, SkipDisabled, EmitInv, EmitLeavesRows, Absent, TypeOK
    <3>4. emit[e].step = "queue"
      BY <2>9 DEF QueueEnabled, SkipDisabled
    <3>5. \A b \in Queueable :
            Absent(emit[e].fact, b)' => \/ b \in emit'[e].on \/ b \in emit'[e].off
                                        \/ emit'[e].fact \in shifted'
      BY <1>0, <2>1, <3>1, <3>2, <3>4 DEF EmitInv, EmitProgress, Absent
    <3> QED
      BY <2>3, <3>1, <3>3, <3>5 DEF EmitInv, EmitProgress
  <2>10. CASE QueueInApp(e)
    <3>1. /\ emit'[e].step = "tail" /\ emit'[e].fact = emit[e].fact
          /\ emit'[e].on = Channels \ (Queueable \cup {InApp})
      BY <2>10 DEF QueueInApp, Goto, TypeOK
    <3>2. ~Absent(emit[e].fact, InApp)'
      <4>1. <<emit[e].fact, InApp>> \in Rows /\ <<emit[e].fact, InApp>>[2] = InApp
        BY <1>0, EmitColumns DEF Rows
      <4> QED
        BY <2>10, <3>1, <4>1, InsertMove DEF QueueInApp, Absent
    <3>3. EmitLeavesRows'
      BY <1>0, <2>10 DEF QueueInApp, EmitInv, EmitLeavesRows, Absent, TypeOK
    <3>4. \A b \in Queueable : b \notin emit[e].on /\ b \notin emit[e].off
      BY <2>10 DEF QueueInApp, ToQueue, ToSkip
    <3>5. \A b \in Queueable : Absent(emit[e].fact, b) => emit[e].fact \in shifted
      BY <2>10, <3>4 DEF QueueInApp, EmitInv, EmitProgress
    <3>6. \A b \in Channels :
            Absent(emit[e].fact, b)' => \/ b \in emit'[e].on
                                        \/ b \in Queueable /\ emit'[e].fact \in shifted'
      BY <1>0, <2>1, <3>1, <3>2, <3>5 DEF Absent
    <3> QED
      BY <2>3, <3>1, <3>3, <3>6 DEF EmitInv, EmitProgress
  <2>11. ASSUME NEW c \in Channels, SkipUntransported(e, c) PROVE EmitInv'
    <3>1. /\ emit'[e].step = "tail" /\ emit'[e].fact = emit[e].fact
          /\ emit'[e].on = emit[e].on \ {c}
      BY <2>11 DEF SkipUntransported, Goto, TypeOK
    <3>2. ~Absent(emit[e].fact, c)'
      <4>1. <<emit[e].fact, c>> \in Rows
        BY EmitColumns DEF Rows
      <4> QED
        BY <2>11, <3>1, <4>1, InsertMove DEF SkipUntransported, Absent
    <3>3. EmitLeavesRows'
      BY <1>0, <2>11 DEF SkipUntransported, EmitInv, EmitLeavesRows, Absent, TypeOK
    <3>4. emit[e].step = "tail"
      BY <2>11 DEF SkipUntransported
    <3>5. \A b \in Channels :
            Absent(emit[e].fact, b)' => \/ b \in emit'[e].on
                                        \/ b \in Queueable /\ emit'[e].fact \in shifted'
      BY <1>0, <2>1, <3>1, <3>2, <3>4 DEF EmitInv, EmitProgress, Absent
    <3> QED
      BY <2>3, <3>1, <3>3, <3>5 DEF EmitInv, EmitProgress
  <2>12. CASE EndEmit(e)
    <3>1. /\ emit'[e].step = "idle" /\ emitted' = emitted \cup {emit[e].fact}
          /\ emit[e].step = "tail" /\ emit[e].on = {}
      BY <2>12 DEF EndEmit, Goto, TypeOK
    <3>2. \A c \in Channels : Absent(emit[e].fact, c) => c \in Queueable /\ emit[e].fact \in shifted
      BY <3>1 DEF EmitInv, EmitProgress
    <3>3. row' = row
      BY <2>12 DEF EndEmit
    <3>4. EmitLeavesRows'
      BY <2>1, <3>1, <3>2, <3>3 DEF EmitInv, EmitLeavesRows, Absent
    <3> QED
      BY <2>5, <3>1, <3>4
  <2> QED
    BY <1>5, <2>6, <2>7, <2>8, <2>9, <2>10, <2>11, <2>12 DEF Request
<1> QED
  BY <1>1, <1>2, <1>3, <1>4, <1>5 DEF Next, Switches

\* Once an emit has run to its end every channel has a row, unless the reader
\* flipped a switch while it ran.
THEOREM FinishedEmitLeavesRows == Spec => []EmitLeavesRows
<1>1. Init => EmitInv
  BY DEF Init, EmitInv, EmitProgress, EmitLeavesRows
<1>2. EmitInv => EmitLeavesRows
  BY DEF EmitInv
<1> QED
  BY <1>1, <1>2, TypeCorrect, AnsweredInductive, EmitLeavesPreserved, PTL DEF Spec

-----------------------------------------------------------------------------
(* Copies and attempts: who may still add one *)

\* The jobs in a runner's hands: claimed, and no settling write made yet.
Hand(r) == jobs[r] \cup (IF phase[r] = "settle" THEN {current[r].job} ELSE {})

\* The receiver has taken the message of the row the runner is about to settle.
Confirmed(r, d) == phase[r] = "settle" /\ current[r].job.id = d /\ current[r].ok

Holders(d) == {r \in Runners : \E j \in Hand(r) : j.id = d}
Unconfirmed(d) == {r \in Holders(d) : ~Confirmed(r, d)}

\* Holders whose failure puts the row back on the queue.
Early(d) == {r \in Runners : \E j \in Hand(r) : j.id = d /\ j.attempts < MaxAttempts}

Guarded(d) == row[d].claim = "live" /\ Holders(d) # {}

\* The row may get one more holder without a fault, now or after a retry.
Slot(d) == IF row[d].status = "sent" \/ Guarded(d) THEN 0 ELSE 1

\* It may get one more holder under its present count of attempts.
Spare(d) == IF Pending(d) /\ ~Guarded(d) THEN 1 ELSE 0

\* Copies sent, copies that holders may still send and the copy of a next holder
\* are paid for by the first claim and by the faults; so are the holders
\* themselves, and the attempts over the cap.
Counted(d) ==
  /\ IsFiniteSet(Holders(d))
  /\ accepts[d] + Cardinality(Unconfirmed(d)) + Slot(d) <= 1 + faults
  /\ Cardinality(Holders(d)) + Slot(d) <= 1 + faults
  /\ (d[2] \in Transports /\ row[d].attempts >= MaxAttempts)
       => row[d].attempts + Cardinality(Early(d)) + Spare(d) <= MaxAttempts + faults

CountInv == \A d \in Rows : Counted(d)

\* A runner has one job at most for a row, and none between its ticks.
HandInv ==
  \A r \in Runners :
    /\ phase[r] \in {"idle", "claim"} => jobs[r] = {}
    /\ phase[r] = "settle" => current[r].job \notin jobs[r]
    /\ \A j, k \in Hand(r) : j.id = k.id => j = k

\* Only a waiting row carries a live claim.
LiveInv == \A d \in Rows : row[d].claim = "live" => Pending(d)

LEMMA Fewer ==
  ASSUME NEW S, NEW T, IsFiniteSet(S), T \subseteq S
  PROVE  /\ IsFiniteSet(T) /\ Cardinality(T) \in Nat /\ Cardinality(S) \in Nat
         /\ Cardinality(T) <= Cardinality(S)
  BY FS_Subset, FS_CardinalityType

LEMMA OneFewer ==
  ASSUME NEW S, NEW T, IsFiniteSet(S), T \subseteq S, NEW x \in S, x \notin T
  PROVE  /\ IsFiniteSet(T) /\ Cardinality(T) \in Nat /\ Cardinality(S) \in Nat
         /\ Cardinality(T) + 1 <= Cardinality(S)
<1>1. /\ IsFiniteSet(S \ {x}) /\ Cardinality(S \ {x}) = Cardinality(S) - 1
      /\ Cardinality(S) \in Nat
  BY FS_RemoveElement, FS_CardinalityType
<1>2. T \subseteq S \ {x}
  OBVIOUS
<1> QED
  BY <1>1, <1>2, Fewer

LEMMA OneMore ==
  ASSUME NEW S, NEW T, IsFiniteSet(S), NEW x, T \subseteq S \cup {x}
  PROVE  /\ IsFiniteSet(T) /\ Cardinality(T) \in Nat /\ Cardinality(S) \in Nat
         /\ Cardinality(T) <= Cardinality(S) + 1
<1>1. /\ IsFiniteSet(S \cup {x}) /\ Cardinality(S) \in Nat
      /\ Cardinality(S \cup {x}) = IF x \in S THEN Cardinality(S) ELSE Cardinality(S) + 1
  BY FS_AddElement, FS_CardinalityType
<1>2. Cardinality(S \cup {x}) <= Cardinality(S) + 1
  BY <1>1
<1> QED
  BY <1>1, <1>2, Fewer

\* The numbers the counts are made of.
LEMMA CountTypes ==
  ASSUME TypeOK, NEW d \in Rows, Counted(d)
  PROVE  /\ accepts[d] \in Nat /\ faults \in Nat /\ row[d].attempts \in Nat
         /\ MaxAttempts \in Nat /\ MaxAttempts > 0
         /\ Slot(d) \in {0, 1} /\ Spare(d) \in {0, 1}
         /\ Unconfirmed(d) \subseteq Holders(d) /\ Early(d) \subseteq Holders(d)
         /\ IsFiniteSet(Unconfirmed(d)) /\ IsFiniteSet(Early(d)) /\ IsFiniteSet(Holders(d))
         /\ Cardinality(Unconfirmed(d)) \in Nat /\ Cardinality(Early(d)) \in Nat
         /\ Cardinality(Holders(d)) \in Nat /\ Cardinality(Early(d)) <= Cardinality(Holders(d))
<1>1. /\ accepts[d] \in Nat /\ faults \in Nat /\ row[d].attempts \in Nat
      /\ MaxAttempts \in Nat /\ MaxAttempts > 0
  BY RowColumns, OutboxConstantsOK DEF TypeOK
<1>2. Slot(d) \in {0, 1} /\ Spare(d) \in {0, 1}
  BY DEF Slot, Spare
<1>3. Unconfirmed(d) \subseteq Holders(d) /\ Early(d) \subseteq Holders(d)
  BY DEF Unconfirmed, Early, Holders
<1>4. IsFiniteSet(Holders(d))
  BY DEF Counted
<1> QED
  BY <1>1, <1>2, <1>3, <1>4, Fewer

-----------------------------------------------------------------------------
(* What a step does to the counts of a row *)

Shrinks(d) ==
  /\ Holders(d)' \subseteq Holders(d) /\ Unconfirmed(d)' \subseteq Unconfirmed(d)
  /\ Early(d)' \subseteq Early(d) /\ accepts'[d] = accepts[d]

\* Nobody gets more room.
Eases(d) ==
  /\ Shrinks(d) /\ faults' >= faults /\ Slot(d)' <= Slot(d)
  /\ \/ row'[d].attempts = row[d].attempts /\ Spare(d)' <= Spare(d)
     \/ row'[d].attempts < MaxAttempts

\* A crash, or a lease that lapses under its runner.
Faulted(d) ==
  Shrinks(d) /\ faults' = faults + 1 /\ row'[d].attempts = row[d].attempts

\* A holder gives the row back without a copy sent.
Releases(d, r) ==
  /\ Shrinks(d) /\ faults' = faults /\ row'[d].attempts = row[d].attempts
  /\ r \in Unconfirmed(d) /\ r \notin Holders(d)'
  /\ d[2] \notin Transports \/ r \in Early(d) \/ Spare(d)' = 0

Claims(d, r) ==
  /\ Holders(d)' \subseteq Holders(d) \cup {r} /\ Unconfirmed(d)' \subseteq Unconfirmed(d) \cup {r}
  /\ row[d].attempts + 1 >= MaxAttempts => Early(d)' \subseteq Early(d)
  /\ accepts'[d] = accepts[d] /\ faults' = faults
  /\ row'[d].attempts = row[d].attempts + 1
  /\ Slot(d) = 1 /\ Slot(d)' = 0 /\ Spare(d) = 1 /\ Spare(d)' = 0

\* The receiver takes the message.
Confirms(d, r) ==
  /\ Holders(d)' = Holders(d) /\ Early(d)' = Early(d) /\ Unconfirmed(d)' \subseteq Unconfirmed(d)
  /\ r \in Unconfirmed(d) /\ r \notin Unconfirmed(d)'
  /\ row'[d] = row[d] /\ faults' = faults /\ accepts'[d] = accepts[d] + 1

LEMMA ShrinkCounts ==
  ASSUME TypeOK, TypeOK', NEW d \in Rows, Counted(d), Shrinks(d)
  PROVE  /\ IsFiniteSet(Holders(d)')
         /\ Cardinality(Holders(d)') \in Nat /\ Cardinality(Holders(d)') <= Cardinality(Holders(d))
         /\ Cardinality(Unconfirmed(d)') \in Nat
         /\ Cardinality(Unconfirmed(d)') <= Cardinality(Unconfirmed(d))
         /\ Cardinality(Early(d)') \in Nat /\ Cardinality(Early(d)') <= Cardinality(Early(d))
  BY CountTypes, Fewer DEF Shrinks

LEMMA PrimedCounts ==
  ASSUME TypeOK', NEW d \in Rows
  PROVE  /\ accepts'[d] \in Nat /\ faults' \in Nat /\ row'[d].attempts \in Nat
         /\ Slot(d)' \in {0, 1} /\ Spare(d)' \in {0, 1}
<1>1. accepts'[d] \in Nat /\ faults' \in Nat
  BY OutboxConstantsOK DEF TypeOK
<1>2. row'[d] \in Row
  BY DEF TypeOK
<1>3. row'[d].attempts \in Nat
  BY <1>2, RowColumns
<1>4. Slot(d)' \in {0, 1} /\ Spare(d)' \in {0, 1}
  BY DEF Slot, Spare
<1> QED
  BY <1>1, <1>3, <1>4

LEMMA EasesCounted ==
  ASSUME TypeOK, TypeOK', NEW d \in Rows, Counted(d), Eases(d)
  PROVE  Counted(d)'
<1>1. Shrinks(d)
  BY DEF Eases
<1> QED
  BY <1>1, CountTypes, ShrinkCounts, PrimedCounts DEF Eases, Shrinks, Counted

LEMMA FaultedCounted ==
  ASSUME TypeOK, TypeOK', NEW d \in Rows, Counted(d), Faulted(d)
  PROVE  Counted(d)'
<1>1. Shrinks(d)
  BY DEF Faulted
<1> QED
  BY <1>1, CountTypes, ShrinkCounts, PrimedCounts DEF Faulted, Shrinks, Counted

LEMMA ReleasesCounted ==
  ASSUME TypeOK, TypeOK', NEW d \in Rows, Counted(d), NEW r \in Runners, Releases(d, r)
  PROVE  Counted(d)'
<1>1. Shrinks(d)
  BY DEF Releases
<1>2. r \in Holders(d) /\ r \notin Unconfirmed(d)' /\ r \notin Early(d)'
  BY DEF Releases, Unconfirmed, Holders, Early
<1>3. Cardinality(Holders(d)') + 1 <= Cardinality(Holders(d))
  BY <1>1, <1>2, CountTypes, OneFewer DEF Releases, Shrinks
<1>4. Cardinality(Unconfirmed(d)') + 1 <= Cardinality(Unconfirmed(d))
  BY <1>1, <1>2, CountTypes, OneFewer DEF Releases, Shrinks
<1>5. r \in Early(d) => Cardinality(Early(d)') + 1 <= Cardinality(Early(d))
  BY <1>1, <1>2, CountTypes, OneFewer DEF Shrinks
<1>6. /\ accepts'[d] = accepts[d] /\ faults' = faults /\ row'[d].attempts = row[d].attempts
      /\ d[2] \notin Transports \/ r \in Early(d) \/ Spare(d)' = 0
  BY DEF Releases, Shrinks
<1> QED
  BY <1>1, <1>3, <1>4, <1>5, <1>6, CountTypes, ShrinkCounts, PrimedCounts DEF Counted

LEMMA ClaimsCounted ==
  ASSUME TypeOK, TypeOK', NEW d \in Rows, Counted(d), NEW r \in Runners, Claims(d, r)
  PROVE  Counted(d)'
<1>1. /\ IsFiniteSet(Holders(d)') /\ Cardinality(Holders(d)') \in Nat
      /\ Cardinality(Holders(d)') <= Cardinality(Holders(d)) + 1
  BY CountTypes, OneMore DEF Claims
<1>2. /\ Cardinality(Unconfirmed(d)') \in Nat
      /\ Cardinality(Unconfirmed(d)') <= Cardinality(Unconfirmed(d)) + 1
  BY CountTypes, OneMore DEF Claims
<1>3. row[d].attempts + 1 >= MaxAttempts
        => Cardinality(Early(d)') \in Nat /\ Cardinality(Early(d)') <= Cardinality(Early(d))
  BY CountTypes, Fewer DEF Claims
<1>4. /\ accepts'[d] = accepts[d] /\ faults' = faults /\ row'[d].attempts = row[d].attempts + 1
      /\ Slot(d) = 1 /\ Slot(d)' = 0 /\ Spare(d) = 1 /\ Spare(d)' = 0
  BY DEF Claims
<1> QED
  BY <1>1, <1>2, <1>3, <1>4, CountTypes, PrimedCounts DEF Counted

LEMMA ConfirmsCounted ==
  ASSUME TypeOK, TypeOK', NEW d \in Rows, Counted(d), NEW r \in Runners, Confirms(d, r)
  PROVE  Counted(d)'
<1>1. /\ Cardinality(Unconfirmed(d)') \in Nat
      /\ Cardinality(Unconfirmed(d)') + 1 <= Cardinality(Unconfirmed(d))
  BY CountTypes, OneFewer DEF Confirms
<1>2. Slot(d)' = Slot(d) /\ Spare(d)' = Spare(d)
  BY DEF Confirms, Slot, Spare, Guarded, Pending
<1>3. /\ Holders(d)' = Holders(d) /\ Early(d)' = Early(d)
      /\ row'[d] = row[d] /\ faults' = faults /\ accepts'[d] = accepts[d] + 1
  BY DEF Confirms
<1> QED
  BY <1>1, <1>2, <1>3, CountTypes, PrimedCounts DEF Counted

-----------------------------------------------------------------------------
(* What a step does to the hands *)

\* Requests, people, time and settle_not_ready leave every hand as it is.
LEMMA StillHand ==
  ASSUME jobs' = jobs, current' = current,
         \A q \in Runners : phase'[q] = "settle" <=> phase[q] = "settle"
  PROVE  \A q \in Runners : /\ Hand(q)' = Hand(q)
                            /\ \A d : Confirmed(q, d)' <=> Confirmed(q, d)
  BY DEF Hand, Confirmed

LEMMA ClaimHand ==
  ASSUME TypeOK, HandInv, NEW r \in Runners, NEW S \in SUBSET Due, ClaimDue(r, S)
  PROVE  /\ \A q \in Runners \ {r} : Hand(q)' = Hand(q) /\ \A d : Confirmed(q, d)' <=> Confirmed(q, d)
         /\ Hand(r) = {} /\ \A d : ~Confirmed(r, d)'
         /\ Hand(r)' = {[id |-> d, attempts |-> row[d].attempts + 1] : d \in S}
         /\ jobs'[r] = {[id |-> d, attempts |-> row[d].attempts + 1] : d \in S}
         /\ phase'[r] = IF S = {} THEN "idle" ELSE "deliver"
<1>1. /\ jobs[r] = {} /\ phase[r] = "claim"
      /\ jobs'[r] = {[id |-> d, attempts |-> row[d].attempts + 1] : d \in S}
      /\ phase'[r] = IF S = {} THEN "idle" ELSE "deliver"
      /\ current' = current
  BY DEF ClaimDue, HandInv, TypeOK
<1>2. \A q \in Runners \ {r} : jobs'[q] = jobs[q] /\ phase'[q] = phase[q]
  BY DEF ClaimDue, TypeOK
<1>3. phase'[r] # "settle"
  BY <1>1
<1>4. /\ Hand(r) = {} /\ \A d : ~Confirmed(r, d)'
      /\ Hand(r)' = jobs'[r]
  BY <1>1, <1>3 DEF Hand, Confirmed
<1>5. \A q \in Runners \ {r} : Hand(q)' = Hand(q) /\ \A d : Confirmed(q, d)' <=> Confirmed(q, d)
  BY <1>1, <1>2 DEF Hand, Confirmed
<1> QED
  BY <1>1, <1>4, <1>5

LEMMA DeliverHand ==
  ASSUME TypeOK, HandInv, NEW r \in Runners, NEW j \in jobs[r], NEW ok \in BOOLEAN,
         Deliver(r, j, ok)
  PROVE  /\ \A q \in Runners : Hand(q)' = Hand(q)
         /\ \A q \in Runners \ {r} : \A d : Confirmed(q, d)' <=> Confirmed(q, d)
         /\ \A d : ~Confirmed(r, d)
         /\ \A d : Confirmed(r, d)' <=> ok /\ j.id = d
         /\ jobs'[r] = jobs[r] \ {j} /\ current'[r].job = j /\ phase'[r] = "settle"
         /\ phase[r] = "deliver" /\ j \in Hand(r)
<1>1. /\ phase[r] = "deliver" /\ phase'[r] = "settle" /\ jobs'[r] = jobs[r] \ {j}
      /\ current'[r] = [job |-> j, ok |-> ok]
  BY DEF Deliver, TypeOK
<1>2. \A q \in Runners \ {r} : /\ jobs'[q] = jobs[q] /\ phase'[q] = phase[q]
                               /\ current'[q] = current[q]
  BY DEF Deliver, TypeOK
<1>3. current'[r].job = j /\ (current'[r].ok <=> ok)
  BY <1>1
<1>4. Hand(r) = jobs[r] /\ Hand(r)' = (jobs[r] \ {j}) \cup {j}
  BY <1>1, <1>3 DEF Hand
<1>5. \A d : ~Confirmed(r, d) /\ (Confirmed(r, d)' <=> ok /\ j.id = d)
  BY <1>1, <1>3 DEF Confirmed
<1>6. \A q \in Runners \ {r} : Hand(q)' = Hand(q) /\ \A d : Confirmed(q, d)' <=> Confirmed(q, d)
  BY <1>2 DEF Hand, Confirmed
<1> QED
  BY <1>1, <1>3, <1>4, <1>5, <1>6

LEMMA NoTransportHand ==
  ASSUME TypeOK, HandInv, NEW r \in Runners, NEW j \in jobs[r], NoTransport(r, j)
  PROVE  /\ \A q \in Runners \ {r} : Hand(q)' = Hand(q)
         /\ \A q \in Runners : \A d : Confirmed(q, d)' <=> Confirmed(q, d)
         /\ \A d : ~Confirmed(r, d)
         /\ Hand(r)' = Hand(r) \ {j} /\ j \in Hand(r)
         /\ jobs'[r] = jobs[r] \ {j} /\ phase'[r] = NextJob(jobs[r] \ {j})
         /\ phase'[r] # "settle"
<1>1. /\ phase[r] = "deliver" /\ phase'[r] = NextJob(jobs[r] \ {j}) /\ jobs'[r] = jobs[r] \ {j}
      /\ current' = current
  BY DEF NoTransport, TypeOK
<1>2. \A q \in Runners \ {r} : jobs'[q] = jobs[q] /\ phase'[q] = phase[q]
  BY DEF NoTransport, TypeOK
<1>3. phase'[r] # "settle"
  BY <1>1 DEF NextJob
<1>4. Hand(r) = jobs[r] /\ Hand(r)' = jobs[r] \ {j} /\ \A d : ~Confirmed(r, d) /\ ~Confirmed(r, d)'
  BY <1>1, <1>3 DEF Hand, Confirmed
<1>5. \A q \in Runners \ {r} : Hand(q)' = Hand(q) /\ \A d : Confirmed(q, d)' <=> Confirmed(q, d)
  BY <1>1, <1>2 DEF Hand, Confirmed
<1> QED
  BY <1>1, <1>3, <1>4, <1>5

LEMMA EndJobHand ==
  ASSUME TypeOK, HandInv, NEW r \in Runners, phase[r] = "settle", EndJob(r)
  PROVE  /\ \A q \in Runners \ {r} : Hand(q)' = Hand(q) /\ \A d : Confirmed(q, d)' <=> Confirmed(q, d)
         /\ \A d : ~Confirmed(r, d)'
         /\ Hand(r)' = Hand(r) \ {current[r].job} /\ current[r].job \in Hand(r)
         /\ jobs' = jobs /\ phase'[r] = NextJob(jobs[r]) /\ phase'[r] # "settle"
<1>1. /\ phase'[r] = NextJob(jobs[r]) /\ jobs' = jobs
      /\ current[r].job \notin jobs[r]
  BY DEF EndJob, TypeOK, HandInv
<1>2. \A q \in Runners \ {r} : current'[q] = current[q] /\ phase'[q] = phase[q]
  BY DEF EndJob, TypeOK
<1>3. phase'[r] # "settle"
  BY <1>1 DEF NextJob
<1>4. /\ Hand(r) = jobs[r] \cup {current[r].job} /\ Hand(r)' = jobs[r]
      /\ \A d : ~Confirmed(r, d)'
  BY <1>1, <1>3 DEF Hand, Confirmed
<1>5. \A q \in Runners \ {r} : Hand(q)' = Hand(q) /\ \A d : Confirmed(q, d)' <=> Confirmed(q, d)
  BY <1>1, <1>2 DEF Hand, Confirmed
<1> QED
  BY <1>1, <1>3, <1>4, <1>5

LEMMA CrashHand ==
  ASSUME TypeOK, NEW r \in Runners, Crash(r)
  PROVE  /\ \A q \in Runners \ {r} : Hand(q)' = Hand(q) /\ \A d : Confirmed(q, d)' <=> Confirmed(q, d)
         /\ Hand(r)' = {} /\ \A d : ~Confirmed(r, d)'
         /\ jobs'[r] = {} /\ phase'[r] = "idle"
<1>1. phase'[r] = "idle" /\ jobs'[r] = {}
  BY DEF Crash, TypeOK
<1>2. \A q \in Runners \ {r} : /\ jobs'[q] = jobs[q] /\ phase'[q] = phase[q]
                               /\ current'[q] = current[q]
  BY DEF Crash, TypeOK
<1> QED
  BY <1>1, <1>2 DEF Hand, Confirmed

\* Steps of nobody's tick.
Outside ==
  \/ Switches \/ Clock \/ (\E e \in Emitters : Request(e)) \/ UNCHANGED vars

LEMMA OutsideHand ==
  ASSUME Outside
  PROVE  jobs' = jobs /\ current' = current /\ phase' = phase /\ accepts' = accepts
<1> USE DEF runner, history
<1>1. CASE Switches \/ Clock \/ UNCHANGED vars
  BY <1>1 DEF Switches, Clock, SetPreference, SetChannel, RetryDelivery, BackoffElapses,
              LeaseExpires, vars
<1>2. CASE \E e \in Emitters : Request(e)
  BY <1>2 DEF Request, RecordFact, ReadAllowed, ReadDisabled, QueueEnabled, SkipDisabled,
              QueueInApp, SkipUntransported, EndEmit, EmitFails
<1> QED
  BY <1>1, <1>2 DEF Outside

LEMMA HandPreserved == TypeOK /\ HandInv /\ [Next]_vars => HandInv'
<1> SUFFICES ASSUME TypeOK, HandInv, [Next]_vars PROVE HandInv'
  OBVIOUS
<1>1. CASE Outside
  <2>1. jobs' = jobs /\ current' = current /\ phase' = phase
    BY <1>1, OutsideHand
  <2> QED
    BY <2>1 DEF HandInv, Hand
<1>2. ASSUME NEW r \in Runners, SettleNotReady(r) PROVE HandInv'
  <2>1. jobs' = jobs /\ current' = current /\ phase[r] = "idle" /\ phase'[r] = "claim"
        /\ \A q \in Runners \ {r} : phase'[q] = phase[q]
    BY <1>2 DEF SettleNotReady, TypeOK
  <2>2. \A q \in Runners : Hand(q)' = Hand(q)
    BY <2>1, StillHand
  <2> QED
    BY <2>1, <2>2 DEF HandInv
\* The runners other than the one that steps keep what they have.
<1>3. ASSUME NEW r \in Runners, Tick(r) \/ Crash(r), NEW q \in Runners \ {r}
      PROVE  jobs'[q] = jobs[q] /\ phase'[q] = phase[q] /\ current'[q] = current[q]
  BY <1>3 DEF TypeOK, Tick, Attempt, Crash, SettleNotReady, ClaimDue, Deliver, NoTransport,
              MarkSent, MarkRetry, MarkFailed, EndJob
<1>4. ASSUME NEW r \in Runners, Tick(r) \/ Crash(r),
             phase'[r] \in {"idle", "claim"} => jobs'[r] = {},
             phase'[r] = "settle" => current'[r].job \notin jobs'[r],
             \A j, k \in Hand(r)' : j.id = k.id => j = k
      PROVE  HandInv'
  <2>1. \A q \in Runners \ {r} : Hand(q)' = Hand(q)
    BY <1>3, <1>4 DEF Hand
  <2> QED
    BY <1>3, <1>4, <2>1 DEF HandInv
<1>5. ASSUME NEW r \in Runners, NEW S \in SUBSET Due, ClaimDue(r, S) PROVE HandInv'
  <2>1. Tick(r)
    BY <1>5 DEF Tick
  <2>2. /\ Hand(r)' = {[id |-> d, attempts |-> row[d].attempts + 1] : d \in S}
        /\ jobs'[r] = {[id |-> d, attempts |-> row[d].attempts + 1] : d \in S}
        /\ phase'[r] = IF S = {} THEN "idle" ELSE "deliver"
    BY <1>5, ClaimHand
  <2>3. \A j, k \in Hand(r)' : j.id = k.id => j = k
    BY <2>2
  <2>4. /\ phase'[r] \in {"idle", "claim"} => jobs'[r] = {}
        /\ phase'[r] # "settle"
    BY <2>2
  <2> QED
    BY <1>4, <2>1, <2>3, <2>4
<1>6. ASSUME NEW r \in Runners, NEW j \in jobs[r], NEW ok \in BOOLEAN, Deliver(r, j, ok)
      PROVE  HandInv'
  <2>1. Tick(r)
    BY <1>6 DEF Tick, Attempt
  <2>2. /\ Hand(r)' = Hand(r) /\ jobs'[r] = jobs[r] \ {j} /\ current'[r].job = j
        /\ phase'[r] = "settle"
    BY <1>6, DeliverHand
  <2>3. \A i, k \in Hand(r)' : i.id = k.id => i = k
    BY <2>2 DEF HandInv
  <2> QED
    BY <1>4, <2>1, <2>2, <2>3
<1>7. ASSUME NEW r \in Runners, NEW j \in jobs[r], NoTransport(r, j) PROVE HandInv'
  <2>1. Tick(r)
    BY <1>7 DEF Tick, Attempt
  <2>2. /\ Hand(r)' = Hand(r) \ {j} /\ jobs'[r] = jobs[r] \ {j}
        /\ phase'[r] = NextJob(jobs[r] \ {j})
    BY <1>7, NoTransportHand
  <2>3. \A i, k \in Hand(r)' : i.id = k.id => i = k
    BY <2>2 DEF HandInv
  <2>4. /\ phase'[r] \in {"idle", "claim"} => jobs'[r] = {}
        /\ phase'[r] # "settle"
    BY <2>2 DEF NextJob
  <2> QED
    BY <1>4, <2>1, <2>3, <2>4
<1>8. ASSUME NEW r \in Runners, MarkSent(r) \/ MarkRetry(r) \/ MarkFailed(r) PROVE HandInv'
  <2>1. Tick(r) /\ phase[r] = "settle" /\ EndJob(r)
    BY <1>8 DEF Tick, Attempt, MarkSent, MarkRetry, MarkFailed
  <2>2. /\ Hand(r)' = Hand(r) \ {current[r].job} /\ jobs' = jobs
        /\ phase'[r] = NextJob(jobs[r])
    BY <2>1, EndJobHand
  <2>3. \A i, k \in Hand(r)' : i.id = k.id => i = k
    BY <2>2 DEF HandInv
  <2>4. /\ phase'[r] \in {"idle", "claim"} => jobs'[r] = {}
        /\ phase'[r] # "settle"
    BY <2>2 DEF NextJob
  <2> QED
    BY <1>4, <2>1, <2>3, <2>4
<1>9. ASSUME NEW r \in Runners, Crash(r) PROVE HandInv'
  <2>1. Hand(r)' = {} /\ jobs'[r] = {} /\ phase'[r] = "idle"
    BY <1>9, CrashHand
  <2> QED
    BY <1>4, <1>9, <2>1
<1> QED
  BY <1>1, <1>2, <1>5, <1>6, <1>7, <1>8, <1>9 DEF Next, Tick, Attempt, Outside

-----------------------------------------------------------------------------
(* What a step does to the rows, and with it to the counts *)

\* The hands hold the same jobs for the row.
SameHolders(d) ==
  Holders(d)' = Holders(d) /\ Unconfirmed(d)' = Unconfirmed(d) /\ Early(d)' = Early(d)

LEMMA HandsKeepHolders ==
  ASSUME NEW d \in Rows,
         \A q \in Runners : /\ \A j : j.id = d => (j \in Hand(q)' <=> j \in Hand(q))
                            /\ Confirmed(q, d)' <=> Confirmed(q, d)
  PROVE  SameHolders(d)
<1>1. Holders(d)' = Holders(d) /\ Early(d)' = Early(d)
  BY DEF Holders, Early
<1>2. Unconfirmed(d)' = Unconfirmed(d)
  BY <1>1 DEF Unconfirmed, Holders
<1> QED
  BY <1>1, <1>2 DEF SameHolders

\* The row keeps what counts, or starts over without a claim.
Calm(d) ==
  \/ /\ row'[d].status = row[d].status /\ row'[d].claim = row[d].claim
     /\ row'[d].attempts = row[d].attempts
  \/ /\ row[d].status \in {"failed", "absent"} /\ row'[d].status # "sent"
     /\ row'[d].attempts = 0 /\ row'[d].claim # "live"

LEMMA CalmEases ==
  ASSUME TypeOK, LiveInv, NEW d \in Rows, SameHolders(d), Calm(d),
         accepts'[d] = accepts[d], faults' >= faults
  PROVE  Eases(d)
<1>1. Shrinks(d)
  BY DEF SameHolders, Shrinks
<1>2. CASE /\ row'[d].status = row[d].status /\ row'[d].claim = row[d].claim
           /\ row'[d].attempts = row[d].attempts
  <2>1. Slot(d)' = Slot(d) /\ Spare(d)' = Spare(d)
    BY <1>2 DEF SameHolders, Slot, Spare, Guarded, Pending
  <2>2. Slot(d) \in {0, 1} /\ Spare(d) \in {0, 1}
    BY DEF Slot, Spare
  <2> QED
    BY <1>1, <1>2, <2>1, <2>2 DEF Eases
<1>3. CASE row[d].status \in {"failed", "absent"} /\ row'[d].attempts = 0
  <2>1. row[d].claim # "live"
    BY <1>3 DEF LiveInv, Pending
  <2>2. Slot(d) = 1 /\ Slot(d)' \in {0, 1}
    BY <1>3, <2>1 DEF Slot, Guarded
  <2>3. row'[d].attempts < MaxAttempts
    BY <1>3, OutboxConstantsOK
  <2> QED
    BY <1>1, <2>2, <2>3 DEF Eases
<1> QED
  BY <1>2, <1>3 DEF Calm

\* Requests, switches, retries by hand and the backoff are calm on every row.
LEMMA OutsideCalm ==
  ASSUME TypeOK, LiveInv, Outside, NEW d \in Rows, ~LeaseExpires(d)
  PROVE  Calm(d) /\ faults' >= faults
<1> USE DEF runner, history
<1>f. faults \in Nat /\ row[d] \in Row
  BY OutboxConstantsOK DEF TypeOK
<1>1. ASSUME row'[d] = row[d] PROVE Calm(d)
  BY <1>1 DEF Calm
<1>2. ASSUME NEW x \in Rows, NEW s \in {"pending", "skipped"}, InsertDelivery(x, s)
      PROVE  Calm(d)
  <2>1. row'[d] = IF d = x /\ row[d].status = "absent" THEN RowIn(s) ELSE row[d]
    BY <1>2 DEF InsertDelivery, TypeOK
  <2>2. RowIn(s).status = s /\ RowIn(s).attempts = 0 /\ RowIn(s).claim = "none"
    BY DEF RowIn
  <2> QED
    BY <2>1, <2>2 DEF Calm
<1>3. CASE \/ (\E c \in Channels : SetPreference(c)) \/ UNCHANGED vars
           \/ (\E o \in Orgs, c \in Queueable : SetChannel(o, c))
  <2>1. row' = row /\ faults' = faults
    BY <1>3 DEF SetPreference, SetChannel, vars
  <2> QED
    BY <1>f, <1>1, <2>1
<1>4. ASSUME NEW x \in Rows, RetryDelivery(x) PROVE Calm(d) /\ faults' >= faults
  <2>1. \/ row'[d] = row[d]
        \/ /\ d = x /\ row[d].status = "failed"
           /\ row'[d] = [status |-> "pending", attempts |-> 0, due |-> TRUE, claim |-> row[d].claim]
    BY <1>4 DEF RetryDelivery, TypeOK
  <2>2. row[d].status = "failed" => row[d].claim # "live"
    BY DEF LiveInv, Pending
  <2> QED
    BY <1>f, <1>4, <2>1, <2>2 DEF Calm, RetryDelivery
<1>5. ASSUME NEW x \in Rows, BackoffElapses(x) PROVE Calm(d) /\ faults' >= faults
  <2>1. row'[d] = IF d = x THEN [row[d] EXCEPT !.due = TRUE] ELSE row[d]
    BY <1>5 DEF BackoffElapses, TypeOK
  <2>2. /\ row'[d].status = row[d].status /\ row'[d].claim = row[d].claim
        /\ row'[d].attempts = row[d].attempts
    BY <1>f, <2>1 DEF Row
  <2> QED
    BY <1>f, <1>5, <2>2 DEF Calm, BackoffElapses
<1>6. ASSUME NEW x \in Rows, LeaseExpires(x) PROVE Calm(d) /\ faults' >= faults
  <2>1. d # x
    BY <1>6
  <2>2. row' = [row EXCEPT ![x] = [row[x] EXCEPT !.claim = "expired"]]
        /\ (faults' = faults \/ faults' = faults + 1)
    BY <1>6 DEF LeaseExpires
  <2>3. row'[d] = row[d]
    BY <2>1, <2>2 DEF TypeOK
  <2> QED
    BY <1>f, <1>1, <2>2, <2>3
<1>7. ASSUME NEW e \in Emitters, Request(e) PROVE Calm(d) /\ faults' >= faults
  <2>1. CASE \/ (\E f \in Facts : RecordFact(e, f)) \/ ReadAllowed(e) \/ ReadDisabled(e)
             \/ EndEmit(e) \/ EmitFails(e)
    <3>1. row' = row /\ (faults' = faults \/ faults' = faults + 1)
      BY <2>1 DEF RecordFact, ReadAllowed, ReadDisabled, EndEmit, EmitFails
    <3> QED
      BY <1>f, <1>1, <3>1
  <2>2. CASE QueueInApp(e)
    <3>1. <<emit[e].fact, InApp>> \in Rows
      BY EmitColumns, OutboxConstantsOK DEF Rows
    <3> QED
      BY <1>f, <1>2, <2>2, <3>1 DEF QueueInApp
  <2>3. ASSUME NEW c \in Channels,
               QueueEnabled(e, c) \/ SkipDisabled(e, c) \/ SkipUntransported(e, c)
        PROVE  Calm(d) /\ faults' >= faults
    <3>1. <<emit[e].fact, c>> \in Rows
      BY EmitColumns DEF Rows
    <3>2. faults' = faults
      BY <2>3 DEF QueueEnabled, SkipDisabled, SkipUntransported
    <3> QED
      BY <1>f, <1>2, <2>3, <3>1, <3>2 DEF QueueEnabled, SkipDisabled, SkipUntransported
  <2> QED
    BY <1>7, <2>1, <2>2, <2>3 DEF Request
<1> QED
  BY <1>3, <1>4, <1>5, <1>6, <1>7 DEF Outside, Switches, Clock

\* A settling write, seen from any row.
LEMMA WrittenRow ==
  ASSUME TypeOK, NEW e \in Rows, NEW x, WriteRow(e, x), NEW d \in Rows
  PROVE  row'[d] = IF d = e /\ Pending(d) THEN x ELSE row[d]
  BY DEF WriteRow, TypeOK

LEMMA LivePreserved == TypeOK /\ LiveInv /\ [Next]_vars => LiveInv'
<1> SUFFICES ASSUME TypeOK, LiveInv, [Next]_vars, NEW d \in Rows, row'[d].claim = "live"
             PROVE  row'[d].status = "pending"
  BY DEF LiveInv, Pending
<1>t. row[d] \in Row
  BY DEF TypeOK
<1>1. CASE Outside
  <2>1. CASE LeaseExpires(d)
    <3>1. row'[d] = [row[d] EXCEPT !.claim = "expired"]
      BY <2>1 DEF LeaseExpires, TypeOK
    <3> QED
      BY <1>t, <3>1 DEF Row
  <2>2. CASE ~LeaseExpires(d)
    <3>1. Calm(d)
      BY <1>1, <2>2, OutsideCalm
    <3> QED
      BY <3>1 DEF Calm, LiveInv, Pending
  <2> QED
    BY <2>1, <2>2
<1>2. ASSUME NEW r \in Runners, SettleNotReady(r) PROVE row'[d].status = "pending"
  <2>1. row'[d] = IF d \in NotReady THEN [row[d] EXCEPT !.status = "skipped", !.claim = "none"]
                                    ELSE row[d]
    BY <1>2 DEF SettleNotReady
  <2>2. [row[d] EXCEPT !.status = "skipped", !.claim = "none"].claim = "none"
    BY <1>t DEF Row
  <2> QED
    BY <2>1, <2>2 DEF LiveInv, Pending
<1>3. ASSUME NEW r \in Runners, NEW S \in SUBSET Due, ClaimDue(r, S)
      PROVE  row'[d].status = "pending"
  BY <1>3 DEF ClaimDue, LiveInv, Pending
<1>4. ASSUME NEW e \in Rows, NEW x, WriteRow(e, x), x.claim = "none"
      PROVE  row'[d].status = "pending"
  BY <1>4, WrittenRow DEF LiveInv, Pending
<1>5. ASSUME NEW r \in Runners, NEW j \in jobs[r], NoTransport(r, j)
      PROVE  row'[d].status = "pending"
  <2>1. j.id \in Rows /\ Retried(j.id).claim = "none"
    BY DEF TypeOK, Job, Retried
  <2> QED
    BY <1>4, <1>5, <2>1 DEF NoTransport
<1>6. ASSUME NEW r \in Runners, MarkSent(r) \/ MarkRetry(r) \/ MarkFailed(r)
      PROVE  row'[d].status = "pending"
  <2>1. current[r].job.id \in Rows
    BY <1>6, JobInHand DEF MarkSent, MarkRetry, MarkFailed
  <2>2. row[current[r].job.id] \in Row
    BY <2>1 DEF TypeOK
  <2>3. /\ [row[current[r].job.id] EXCEPT !.status = "sent", !.claim = "none"].claim = "none"
        /\ [row[current[r].job.id] EXCEPT !.status = "failed", !.claim = "none"].claim = "none"
        /\ Retried(current[r].job.id).claim = "none"
    BY <2>2 DEF Row, Retried
  <2> QED
    BY <1>4, <1>6, <2>1, <2>3 DEF MarkSent, MarkRetry, MarkFailed
<1>7. CASE row' = row
  BY <1>7 DEF LiveInv, Pending
<1> QED
  BY <1>1, <1>2, <1>3, <1>5, <1>6, <1>7
  DEF Next, Tick, Attempt, Outside, Crash, Deliver

-----------------------------------------------------------------------------
(* Every step keeps the counts *)

\* A runner lets go of one job: nothing changes for the other rows.
LEMMA DropsJob ==
  ASSUME HandInv, NEW r \in Runners, NEW j \in Hand(r), NEW d \in Rows,
         \A q \in Runners \ {r} : Hand(q)' = Hand(q) /\ \A x : Confirmed(q, x)' <=> Confirmed(q, x),
         Hand(r)' = Hand(r) \ {j},
         \A x : Confirmed(r, x) => x = j.id,
         \A x : ~Confirmed(r, x)'
  PROVE  /\ d # j.id => SameHolders(d)
         /\ d = j.id => /\ Holders(d)' \subseteq Holders(d) /\ Early(d)' \subseteq Early(d)
                        /\ Unconfirmed(d)' \subseteq Unconfirmed(d)
                        /\ r \in Holders(d) /\ r \notin Holders(d)'
<1>1. ASSUME d # j.id PROVE SameHolders(d)
  <2>1. ASSUME NEW q \in Runners, NEW k, k.id = d PROVE k \in Hand(q)' <=> k \in Hand(q)
    <3>1. CASE q = r
      BY <1>1, <2>1, <3>1
    <3>2. CASE q # r
      BY <3>2
    <3> QED
      BY <3>1, <3>2
  <2>2. ASSUME NEW q \in Runners PROVE Confirmed(q, d)' <=> Confirmed(q, d)
    BY <1>1
  <2> QED
    BY <2>1, <2>2, HandsKeepHolders
<1>2. ASSUME d = j.id
      PROVE  /\ Holders(d)' \subseteq Holders(d) /\ Early(d)' \subseteq Early(d)
             /\ Unconfirmed(d)' \subseteq Unconfirmed(d)
             /\ r \in Holders(d) /\ r \notin Holders(d)'
  <2>1. \A k \in Hand(r)' : k.id # d
    BY <1>2 DEF HandInv
  <2>2. r \in Holders(d) /\ r \notin Holders(d)' /\ r \notin Early(d)'
    BY <1>2, <2>1 DEF Holders, Early
  <2>3. \A q \in Runners \ {r} : /\ q \in Holders(d)' <=> q \in Holders(d)
                                 /\ q \in Early(d)' <=> q \in Early(d)
                                 /\ Confirmed(q, d)' <=> Confirmed(q, d)
    BY DEF Holders, Early
  <2>4. Holders(d)' \subseteq Holders(d) /\ Early(d)' \subseteq Early(d)
    BY <2>2, <2>3 DEF Holders, Early
  <2>5. Unconfirmed(d)' \subseteq Unconfirmed(d)
    BY <2>2, <2>3, <2>4 DEF Unconfirmed, Holders
  <2> QED
    BY <2>2, <2>4, <2>5
<1> QED
  BY <1>1, <1>2

\* A row untouched by the step, with the same holders.
LEMMA UntouchedCounted ==
  ASSUME TypeOK, TypeOK', LiveInv, NEW d \in Rows, Counted(d), SameHolders(d),
         row'[d] = row[d], accepts'[d] = accepts[d], faults' = faults
  PROVE  Counted(d)'
<1>1. Calm(d)
  BY DEF Calm
<1>2. faults' >= faults
  BY CountTypes
<1> QED
  BY <1>1, <1>2, CalmEases, EasesCounted

LEMMA OutsideCounted ==
  ASSUME TypeOK, TypeOK', LiveInv, Outside, NEW d \in Rows, Counted(d)
  PROVE  Counted(d)'
<1>1. jobs' = jobs /\ current' = current /\ phase' = phase /\ accepts' = accepts
  BY OutsideHand
<1>2. SameHolders(d)
  BY <1>1, StillHand, HandsKeepHolders
<1>3. CASE ~LeaseExpires(d)
  BY <1>1, <1>2, <1>3, OutsideCalm, CalmEases, EasesCounted
<1>4. CASE LeaseExpires(d)
  <2>1. row[d] \in Row /\ row'[d] = [row[d] EXCEPT !.claim = "expired"]
    BY <1>4 DEF LeaseExpires, TypeOK
  <2>2. /\ row'[d].status = row[d].status /\ row'[d].attempts = row[d].attempts
        /\ row'[d].claim = "expired"
    BY <2>1 DEF Row
  <2>3. Shrinks(d)
    BY <1>1, <1>2 DEF SameHolders, Shrinks
  <2>4. CASE faults' = faults + 1
    BY <2>2, <2>3, <2>4, FaultedCounted DEF Faulted
  <2>5. CASE (\A r \in Runners : ~Holds(r, d)) /\ faults' = faults
    <3>1. Holders(d) = {}
      BY <2>5 DEF Holders, Hand, Holds
    <3>2. Slot(d)' = Slot(d) /\ Spare(d)' = Spare(d)
      BY <1>2, <2>2, <3>1 DEF SameHolders, Slot, Spare, Guarded, Pending
    <3>3. Eases(d)
      BY <2>2, <2>3, <2>5, <3>2, CountTypes DEF Eases
    <3> QED
      BY <3>3, EasesCounted
  <2> QED
    BY <1>4, <2>4, <2>5 DEF LeaseExpires
<1> QED
  BY <1>3, <1>4

LEMMA NotReadyCounted ==
  ASSUME TypeOK, TypeOK', LiveInv, NEW r \in Runners, SettleNotReady(r), NEW d \in Rows, Counted(d)
  PROVE  Counted(d)'
<1> USE DEF history
<1>1. /\ jobs' = jobs /\ current' = current /\ faults' = faults /\ accepts' = accepts
      /\ \A q \in Runners : phase'[q] = "settle" <=> phase[q] = "settle"
  BY DEF SettleNotReady, TypeOK
<1>2. SameHolders(d)
  BY <1>1, StillHand, HandsKeepHolders
<1>3. row'[d] = IF d \in NotReady THEN [row[d] EXCEPT !.status = "skipped", !.claim = "none"]
                                  ELSE row[d]
  BY DEF SettleNotReady
<1>4. CASE d \notin NotReady
  BY <1>1, <1>2, <1>3, <1>4, UntouchedCounted
<1>5. CASE d \in NotReady
  <2>1. row[d] \in Row
    BY DEF TypeOK
  <2>2. row'[d].status = "skipped" /\ row'[d].attempts = row[d].attempts
    BY <1>3, <1>5, <2>1 DEF Row
  <2>3. Slot(d) = 1 /\ Slot(d)' \in {0, 1} /\ Spare(d)' = 0
    BY <1>5, <2>2 DEF NotReady, Slot, Spare, Guarded, Pending
  <2>4. Eases(d)
    BY <1>1, <1>2, <2>2, <2>3, CountTypes DEF Eases, Shrinks, SameHolders
  <2> QED
    BY <2>4, EasesCounted
<1> QED
  BY <1>4, <1>5

LEMMA ClaimCounted ==
  ASSUME TypeOK, TypeOK', HandInv, LiveInv, NEW r \in Runners, NEW S \in SUBSET Due, ClaimDue(r, S),
         NEW d \in Rows, Counted(d)
  PROVE  Counted(d)'
<1> USE DEF history
<1>1. /\ \A q \in Runners \ {r} : Hand(q)' = Hand(q) /\ \A x : Confirmed(q, x)' <=> Confirmed(q, x)
      /\ Hand(r) = {} /\ \A x : ~Confirmed(r, x)'
      /\ Hand(r)' = {[id |-> x, attempts |-> row[x].attempts + 1] : x \in S}
      /\ phase[r] = "claim"
  BY ClaimHand DEF ClaimDue
<1>2. /\ accepts' = accepts /\ faults' = faults
      /\ row'[d] = IF d \in S THEN [status |-> "pending", attempts |-> row[d].attempts + 1,
                                    due |-> TRUE, claim |-> "live"]
                              ELSE row[d]
  BY DEF ClaimDue
<1>3. \A q \in Runners \ {r} : /\ q \in Holders(d)' <=> q \in Holders(d)
                               /\ q \in Early(d)' <=> q \in Early(d)
                               /\ Confirmed(q, d)' <=> Confirmed(q, d)
  BY <1>1 DEF Holders, Early
<1>4. CASE d \notin S
  <2>1. \A k \in Hand(r)' : k.id # d
    BY <1>1, <1>4
  <2>2. /\ r \notin Holders(d) /\ r \notin Holders(d)' /\ r \notin Early(d) /\ r \notin Early(d)'
    BY <1>1, <2>1 DEF Holders, Early
  <2>3. Holders(d)' = Holders(d) /\ Early(d)' = Early(d)
    BY <1>3, <2>2 DEF Holders, Early
  <2>4. Unconfirmed(d)' = Unconfirmed(d)
    BY <1>3, <2>2, <2>3 DEF Unconfirmed, Holders
  <2> QED
    BY <1>2, <1>4, <2>3, <2>4, UntouchedCounted DEF SameHolders
<1>5. CASE d \in S
  <2>1. /\ row'[d].status = "pending" /\ row'[d].claim = "live"
        /\ row'[d].attempts = row[d].attempts + 1
        /\ row[d].status = "pending" /\ row[d].claim # "live"
    BY <1>2, <1>5 DEF Due, Pending
  <2>2. r \in Holders(d)'
    <3>1. [id |-> d, attempts |-> row[d].attempts + 1] \in Hand(r)'
      BY <1>1, <1>5
    <3> QED
      BY <3>1 DEF Holders
  <2>3. Holders(d)' \subseteq Holders(d) \cup {r}
    BY <1>3 DEF Holders
  <2>4. Unconfirmed(d)' \subseteq Unconfirmed(d) \cup {r}
    BY <1>3 DEF Unconfirmed, Holders
  <2>5. row[d].attempts + 1 >= MaxAttempts => Early(d)' \subseteq Early(d)
    <3>1. \A k \in Hand(r)' : k.id = d => k.attempts = row[d].attempts + 1
      BY <1>1
    <3>2. row[d].attempts + 1 >= MaxAttempts => r \notin Early(d)'
      <4>1. row[d].attempts \in Nat /\ MaxAttempts \in Nat
        BY CountTypes
      <4>2. row[d].attempts + 1 >= MaxAttempts
              => \A k \in Hand(r)' : ~(k.id = d /\ k.attempts < MaxAttempts)
        BY <3>1, <4>1
      <4> QED
        BY <4>2 DEF Early
    <3> QED
      BY <1>3, <3>2 DEF Early
  <2>6. Slot(d) = 1 /\ Slot(d)' = 0 /\ Spare(d) = 1 /\ Spare(d)' = 0
    BY <2>1, <2>2 DEF Slot, Spare, Guarded, Pending
  <2>7. Claims(d, r)
    BY <1>2, <2>1, <2>3, <2>4, <2>5, <2>6 DEF Claims
  <2> QED
    BY <2>7, ClaimsCounted
<1> QED
  BY <1>4, <1>5

LEMMA DeliverCounted ==
  ASSUME TypeOK, TypeOK', HandInv, LiveInv, NEW r \in Runners, NEW j \in jobs[r], NEW ok \in BOOLEAN,
         Deliver(r, j, ok), NEW d \in Rows, Counted(d)
  PROVE  Counted(d)'
<1>1. /\ \A q \in Runners : Hand(q)' = Hand(q)
      /\ \A q \in Runners \ {r} : \A x : Confirmed(q, x)' <=> Confirmed(q, x)
      /\ \A x : ~Confirmed(r, x)
      /\ \A x : Confirmed(r, x)' <=> ok /\ j.id = x
      /\ j \in Hand(r)
  BY DeliverHand
<1>2. row' = row /\ faults' = faults
  BY DEF Deliver
<1>3. accepts'[d] = IF ok /\ d = j.id THEN accepts[d] + 1 ELSE accepts[d]
  BY DEF Deliver, TypeOK
<1>4. CASE ~(ok /\ d = j.id)
  <2>1. \A q \in Runners : Confirmed(q, d)' <=> Confirmed(q, d)
    BY <1>1, <1>4
  <2>2. SameHolders(d)
    BY <1>1, <2>1, HandsKeepHolders
  <2> QED
    BY <1>2, <1>3, <1>4, <2>2, UntouchedCounted
<1>5. CASE ok /\ d = j.id
  <2>1. Holders(d)' = Holders(d) /\ Early(d)' = Early(d)
    BY <1>1 DEF Holders, Early
  <2>2. r \in Unconfirmed(d)
    BY <1>1, <1>5 DEF Unconfirmed, Holders
  <2>3. r \notin Unconfirmed(d)'
    BY <1>1, <1>5 DEF Unconfirmed
  <2>4. Unconfirmed(d)' \subseteq Unconfirmed(d)
    BY <1>1, <2>1, <2>3 DEF Unconfirmed, Holders
  <2>5. Confirms(d, r)
    BY <1>2, <1>3, <1>5, <2>1, <2>2, <2>3, <2>4 DEF Confirms
  <2> QED
    BY <2>5, ConfirmsCounted
<1> QED
  BY <1>4, <1>5

LEMMA NoTransportCounted ==
  ASSUME TypeOK, TypeOK', HandInv, LiveInv, NEW r \in Runners, NEW j \in jobs[r], NoTransport(r, j),
         NEW d \in Rows, Counted(d)
  PROVE  Counted(d)'
<1> USE DEF history
<1>1. /\ \A q \in Runners \ {r} : Hand(q)' = Hand(q) /\ \A x : Confirmed(q, x)' <=> Confirmed(q, x)
      /\ \A x : ~Confirmed(r, x) /\ ~Confirmed(r, x)'
      /\ Hand(r)' = Hand(r) \ {j} /\ j \in Hand(r)
  BY NoTransportHand
<1>2. /\ d # j.id => SameHolders(d)
      /\ d = j.id => /\ Holders(d)' \subseteq Holders(d) /\ Early(d)' \subseteq Early(d)
                     /\ Unconfirmed(d)' \subseteq Unconfirmed(d)
                     /\ r \in Holders(d) /\ r \notin Holders(d)'
  BY <1>1, DropsJob
<1>3. accepts' = accepts /\ faults' = faults /\ j.id[2] \notin Transports
  BY DEF NoTransport
<1>4. j.id \in Rows /\ WriteRow(j.id, Retried(j.id))
  BY DEF NoTransport, TypeOK, Job
<1>5. row'[d] = IF d = j.id /\ Pending(d) THEN Retried(j.id) ELSE row[d]
  BY <1>4, WrittenRow
<1>6. CASE d # j.id
  BY <1>2, <1>3, <1>5, <1>6, UntouchedCounted
<1>7. CASE d = j.id
  <2>1. row'[d].attempts = row[d].attempts
    BY <1>5, <1>7 DEF Retried
  <2>2. r \in Unconfirmed(d)
    BY <1>1, <1>2, <1>7 DEF Unconfirmed
  <2>3. Releases(d, r)
    BY <1>2, <1>3, <1>7, <2>1, <2>2 DEF Releases, Shrinks
  <2> QED
    BY <2>3, ReleasesCounted
<1> QED
  BY <1>6, <1>7

LEMMA SettledCounted ==
  ASSUME TypeOK, TypeOK', HandInv, LiveInv, NEW r \in Runners,
         MarkSent(r) \/ MarkRetry(r) \/ MarkFailed(r), NEW d \in Rows, Counted(d)
  PROVE  Counted(d)'
<1> USE DEF history
<1> DEFINE j == current[r].job
<1>1. phase[r] = "settle" /\ EndJob(r) /\ j.id \in Rows
  BY JobInHand DEF MarkSent, MarkRetry, MarkFailed
<1>2. /\ \A q \in Runners \ {r} : Hand(q)' = Hand(q) /\ \A x : Confirmed(q, x)' <=> Confirmed(q, x)
      /\ \A x : ~Confirmed(r, x)'
      /\ Hand(r)' = Hand(r) \ {j} /\ j \in Hand(r)
  BY <1>1, EndJobHand
<1>3. \A x : Confirmed(r, x) <=> x = j.id /\ current[r].ok
  BY <1>1 DEF Confirmed
<1>4. accepts' = accepts /\ faults' = faults
  BY <1>1 DEF EndJob
<1>5. /\ d # j.id => SameHolders(d)
      /\ d = j.id => /\ Holders(d)' \subseteq Holders(d) /\ Early(d)' \subseteq Early(d)
                     /\ Unconfirmed(d)' \subseteq Unconfirmed(d)
                     /\ r \in Holders(d) /\ r \notin Holders(d)'
  <2>1. \A x : Confirmed(r, x) => x = j.id
    BY <1>3
  <2> HIDE DEF j
  <2> QED
    BY <1>2, <2>1, DropsJob
<1>6. CASE d # j.id
  <2>1. row'[d] = row[d]
    BY <1>1, <1>6, WrittenRow DEF MarkSent, MarkRetry, MarkFailed
  <2> QED
    BY <1>4, <1>5, <1>6, <2>1, UntouchedCounted
<1>7. CASE d = j.id
  <2>1. row[d] \in Row
    BY DEF TypeOK
  <2>2. Shrinks(d)
    BY <1>4, <1>5, <1>7 DEF Shrinks
  <2>3. CASE MarkSent(r)
    <3>1. row'[d] = IF Pending(d) THEN [row[d] EXCEPT !.status = "sent", !.claim = "none"] ELSE row[d]
      BY <1>1, <1>7, <2>3, WrittenRow DEF MarkSent
    <3>2. /\ row'[d].attempts = row[d].attempts
          /\ row'[d].status = IF Pending(d) THEN "sent" ELSE row[d].status
          /\ ~Pending(d) => row'[d].claim = row[d].claim /\ row[d].claim # "live"
      BY <2>1, <3>1 DEF Row, LiveInv
    <3>3. Slot(d)' <= Slot(d) /\ Spare(d)' <= Spare(d)
      <4>1. CASE Pending(d)
        <5>1. Slot(d)' = 0 /\ Spare(d)' = 0
          BY <3>2, <4>1 DEF Slot, Spare, Pending
        <5> QED
          BY <5>1, CountTypes
      <4>2. CASE ~Pending(d)
        <5>1. Slot(d)' = Slot(d) /\ Spare(d)' = 0
          BY <3>2, <4>2 DEF Slot, Spare, Guarded, Pending
        <5> QED
          BY <5>1, CountTypes
      <4> QED
        BY <4>1, <4>2
    <3>4. Eases(d)
      BY <1>4, <2>2, <3>2, <3>3, CountTypes DEF Eases
    <3> QED
      BY <3>4, EasesCounted
  <2>4. CASE MarkRetry(r)
    <3>1. row'[d] = IF Pending(d) THEN Retried(d) ELSE row[d]
      BY <1>1, <1>7, <2>4, WrittenRow DEF MarkRetry
    <3>2. row'[d].attempts = row[d].attempts
      BY <3>1 DEF Retried
    <3>3. r \in Unconfirmed(d) /\ r \in Early(d)
      BY <1>2, <1>3, <1>5, <1>7, <2>4 DEF MarkRetry, Unconfirmed, Early
    <3>4. Releases(d, r)
      BY <1>4, <1>5, <1>7, <2>2, <3>2, <3>3 DEF Releases
    <3> QED
      BY <3>4, ReleasesCounted
  <2>5. CASE MarkFailed(r)
    <3>1. row'[d] = IF Pending(d) THEN [row[d] EXCEPT !.status = "failed", !.claim = "none"] ELSE row[d]
      BY <1>1, <1>7, <2>5, WrittenRow DEF MarkFailed
    <3>2. row'[d].attempts = row[d].attempts /\ row'[d].status # "pending"
      BY <2>1, <3>1 DEF Row, Pending
    <3>3. Spare(d)' = 0
      BY <3>2 DEF Spare, Pending
    <3>4. r \in Unconfirmed(d)
      BY <1>3, <1>5, <1>7, <2>5 DEF MarkFailed, Unconfirmed
    <3>5. Releases(d, r)
      BY <1>4, <1>5, <1>7, <2>2, <3>2, <3>3, <3>4 DEF Releases
    <3> QED
      BY <3>5, ReleasesCounted
  <2> QED
    BY <2>3, <2>4, <2>5
<1> QED
  BY <1>6, <1>7

LEMMA CrashCounted ==
  ASSUME TypeOK, TypeOK', NEW r \in Runners, Crash(r), NEW d \in Rows, Counted(d)
  PROVE  Counted(d)'
<1> USE DEF history
<1>1. /\ \A q \in Runners \ {r} : Hand(q)' = Hand(q) /\ \A x : Confirmed(q, x)' <=> Confirmed(q, x)
      /\ Hand(r)' = {}
  BY CrashHand
<1>2. row' = row /\ accepts' = accepts /\ faults' = faults + 1
  BY DEF Crash
<1>3. \A q \in Runners \ {r} : /\ q \in Holders(d)' <=> q \in Holders(d)
                               /\ q \in Early(d)' <=> q \in Early(d)
                               /\ Confirmed(q, d)' <=> Confirmed(q, d)
  BY <1>1 DEF Holders, Early
<1>4. r \notin Holders(d)' /\ r \notin Early(d)'
  BY <1>1 DEF Holders, Early
<1>5. Holders(d)' \subseteq Holders(d) /\ Early(d)' \subseteq Early(d)
  BY <1>3, <1>4 DEF Holders, Early
<1>6. Unconfirmed(d)' \subseteq Unconfirmed(d)
  BY <1>3, <1>4, <1>5 DEF Unconfirmed, Holders
<1> QED
  BY <1>2, <1>5, <1>6, FaultedCounted DEF Faulted, Shrinks

LEMMA CountPreserved == TypeOK /\ HandInv /\ LiveInv /\ CountInv /\ [Next]_vars => CountInv'
<1> SUFFICES ASSUME TypeOK, HandInv, LiveInv, CountInv, [Next]_vars, NEW d \in Rows
             PROVE  Counted(d)'
  BY DEF CountInv
<1>1. TypeOK'
  BY TypePreserved
<1>2. Counted(d)
  BY DEF CountInv
<1>3. CASE Outside
  BY <1>1, <1>2, <1>3, OutsideCounted
<1>4. ASSUME NEW r \in Runners, Tick(r) PROVE Counted(d)'
  <2>1. ASSUME NEW j \in jobs[r], NEW ok \in BOOLEAN, Deliver(r, j, ok) PROVE Counted(d)'
    BY <1>1, <1>2, <2>1, DeliverCounted
  <2>2. ASSUME NEW j \in jobs[r], NoTransport(r, j) PROVE Counted(d)'
    BY <1>1, <1>2, <2>2, NoTransportCounted
  <2> QED
    BY <1>1, <1>2, <1>4, <2>1, <2>2, NotReadyCounted, ClaimCounted, SettledCounted DEF Tick, Attempt
<1>5. ASSUME NEW r \in Runners, Crash(r) PROVE Counted(d)'
  BY <1>1, <1>2, <1>5, CrashCounted
<1> QED
  BY <1>3, <1>4, <1>5 DEF Next, Outside

LEMMA CountInit == Init => HandInv /\ LiveInv /\ CountInv
<1> SUFFICES ASSUME Init PROVE HandInv /\ LiveInv /\ CountInv
  OBVIOUS
<1>1. \A r \in Runners : phase[r] = "idle" /\ jobs[r] = {} /\ Hand(r) = {}
  BY DEF Init, Hand
<1>2. faults = 0 /\ \A d \in Rows : /\ row[d].claim = "none" /\ row[d].attempts = 0
                                    /\ row[d].status = "absent" /\ accepts[d] = 0
  BY DEF Init, RowIn
<1>3. HandInv /\ LiveInv
  BY <1>1, <1>2 DEF HandInv, LiveInv
<1>4. ASSUME NEW d \in Rows PROVE Counted(d)
  <2>1. Holders(d) = {} /\ Unconfirmed(d) = {}
    BY <1>1 DEF Holders, Unconfirmed
  <2>2. IsFiniteSet(Holders(d)) /\ Cardinality(Holders(d)) = 0 /\ Cardinality(Unconfirmed(d)) = 0
    BY <2>1, FS_EmptySet
  <2>3. Slot(d) = 1
    BY <1>2 DEF Slot, Guarded
  <2> QED
    BY <1>2, <2>2, <2>3, OutboxConstantsOK DEF Counted
<1> QED
  BY <1>3, <1>4 DEF CountInv

\* The counts hold throughout.
THEOREM OutboxCounts == Spec => [](TypeOK /\ HandInv /\ LiveInv /\ CountInv)
<1>1. Init => TypeOK /\ HandInv /\ LiveInv /\ CountInv
  BY InitType, CountInit
<1>2. TypeOK /\ HandInv /\ LiveInv /\ CountInv /\ [Next]_vars
        => TypeOK' /\ HandInv' /\ LiveInv' /\ CountInv'
  BY TypePreserved, HandPreserved, LivePreserved, CountPreserved
<1> QED
  BY <1>1, <1>2, PTL DEF Spec

\* claim_due, the lease and the settling writes together: each copy of a message
\* beyond the first is paid for by a crash or by a lease that lapsed under its
\* runner, however many instances run and however long the batches are.
THEOREM CopiesNeedFaults == Spec => []CopiesNeedALapse
<1>1. TypeOK /\ CountInv => CopiesNeedALapse
  <2> SUFFICES ASSUME TypeOK, CountInv, NEW d \in Rows PROVE accepts[d] <= 1 + faults
    BY DEF CopiesNeedALapse
  <2>1. Counted(d)
    BY DEF CountInv
  <2> QED
    BY <2>1, CountTypes DEF Counted
<1> QED
  BY <1>1, OutboxCounts, PTL

\* claim_due counts an attempt without looking at max_attempts, yet the attempts
\* of a row some transport serves pass the cap only by one for each claim that
\* died or lapsed.
THEOREM AttemptsNeedFaults == Spec => []AttemptsBounded
<1>1. TypeOK /\ CountInv => AttemptsBounded
  <2> SUFFICES ASSUME TypeOK, CountInv, NEW d \in Rows, d[2] \in Transports
               PROVE  row[d].attempts <= MaxAttempts + faults
    BY DEF AttemptsBounded
  <2>1. Counted(d)
    BY DEF CountInv
  <2> QED
    BY <2>1, CountTypes DEF Counted
<1> QED
  BY <1>1, OutboxCounts, PTL
=============================================================================
