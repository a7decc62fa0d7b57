------------------------- MODULE WorkflowEngineProofs -----------------------
(***************************************************************************)
(* Proofs about WorkflowEngine, for any workflows, plans, instances and    *)
(* batch sizes, and with actions that may outlive their lease.             *)
(*                                                                         *)
(* The argument is in two layers.  StepMoves and RunMoves say what any one *)
(* step of the system may do to a row, whichever runner, sweeper, operator *)
(* or clock takes it; each action is shown to be such a move once.  The    *)
(* invariants then follow from the moves, not from the actions.            *)
(*                                                                         *)
(* Three further parts stand on these: the due times of a schedule as      *)
(* cardinalities, what one instance alone guarantees, and why a run whose  *)
(* step has no claim left stays open.                                      *)
(***************************************************************************)
EXTENDS WorkflowEngine, FiniteSetTheorems, TLAPS

Verdict == [run : Runs, status : Settled]
Leases == {"none", "live", "expired"}

\* What a guarded update may make of an open row: everything but its identity
\* and the attempts it has used.
Rewrites(old, new) ==
  /\ new \in Step
  /\ new.kind = old.kind /\ new.max = old.max /\ new.attempts = old.attempts
  /\ new.status \in OpenStatus \cup FinalStatus

\* A table in which at most the row s was rewritten, if it was open.
Guarded(s, table) ==
  \/ table = step
  \/ Open(s) /\ \E new \in Step : Rewrites(step[s], new) /\ table = [step EXCEPT ![s] = new]

\* A claim: the only step that uses an attempt, and it finds every earlier
\* step of the run closed.
Claims(s) ==
  /\ Open(s) /\ Unblocked(s) /\ MayClaim(s)
  /\ \A e \in Steps : e # s => step'[e] = step[e]
  /\ step'[s] \in Step /\ step'[s].status = "running"
  /\ step'[s].kind = step[s].kind /\ step'[s].max = step[s].max
  /\ step'[s].attempts = step[s].attempts + 1

\* A step of a run that is being created.
Creates(s) ==
  /\ s[1] = lastRun + 1 /\ lastRun' = lastRun + 1
  /\ step'[s] \in Step /\ step'[s].status = "pending" /\ step'[s].attempts = 0

\* What may happen to a step row.
StepMoves ==
  \A s \in Steps :
    \/ step'[s] = step[s]
    \/ Open(s) /\ Rewrites(step[s], step'[s])
    \/ Claims(s)
    \/ Creates(s)
    \/ step'[s] = NoStep /\ run'[s[1]].status = "absent"

\* What may happen to a run row.
RunMoves ==
  \A x \in Runs :
    \/ run'[x] = run[x]
    \/ run'[x] \in Run /\ run'[x].status = "absent"
    \/ /\ run'[x] \in Run /\ run'[x].status = "running"
       /\ x = lastRun + 1 /\ lastRun' = lastRun + 1
    \/ /\ run'[x] \in Run /\ run'[x].status = "cancelled" /\ run[x].status = "running"
    \/ /\ run'[x] \in Run /\ run[x].status = "running" /\ step' = step
       /\ \E r \in Instances : /\ phase[r] = "write" /\ verdict[r].run = x
                               /\ run'[x].status = verdict[r].status

\* The tables keep their keys, and runs are only ever added.
RowMoves ==
  /\ StepMoves /\ RunMoves
  /\ lastRun' \in lastRun .. MaxRuns
  /\ step' = [s \in Steps |-> step'[s]]
  /\ run' = [x \in Runs |-> run'[x]]

-----------------------------------------------------------------------------
(* The invariant *)

\* A runner between a claim and the end of its settlement has a job, and a
\* settlement about to be written has a verdict; every run an instance has in
\* hand was created once, though it may be gone.
Holds(r) ==
  /\ phase[r] \in {"act", "after", "close", "count"}
       => job[r] \in Snapshot /\ job[r].id[1] <= lastRun
  /\ phase[r] = "write" => verdict[r] \in Verdict /\ verdict[r].run <= lastRun
  /\ \A c \in stale[r] : c.id[1] <= lastRun
  /\ \A x \in queue[r] : x <= lastRun

InHand == \A r \in Instances : Holds(r)

\* Rows above the last run do not exist.
Uncreated ==
  /\ \A x \in Runs : x > lastRun => run[x].status = "absent"
  /\ \A s \in Steps : s[1] > lastRun => step[s] = NoStep

\* A row that does not exist has used no attempt.
AbsentIsBlank == \A s \in Steps : step[s].status = "absent" => step[s] = NoStep

\* The parts of TypeOK, by who writes them.
TableTypes ==
  /\ lastRun \in 0 .. MaxRuns /\ run \in [Runs -> Run] /\ step \in [Steps -> Step]
  /\ \A s \in Steps : step[s].attempts <= AttemptsAllowed(step[s])

DefinitionTypes ==
  workflow \in [Workflows -> Workflow] /\ owed \in [Workflows -> Int]

LocalTypes ==
  /\ phase \in [Instances -> Phases]
  /\ loop \in [Instances -> {"claim", "touched", "reconcile"}]
  /\ taken \in [Instances -> Nat]
  /\ starting \in [Instances -> SUBSET Workflows]
  /\ job \in [Instances -> Snapshot \cup {NoJob}]
  /\ stale \in [Instances -> SUBSET Snapshot]
  /\ queue \in [Instances -> SUBSET Runs]
  /\ verdict \in [Instances -> Verdict \cup {NoVerdict}]
  /\ toAudit \in [Instances -> SUBSET Runs]

LedgerTypes ==
  cancelling \in SUBSET Runs /\ audits \in [Runs -> Nat] /\ crashes \in Nat

\* A verdict stays true for as long as its run is still running.
VerdictTrue ==
  \A r \in Instances :
    (phase[r] = "write" /\ run[verdict[r].run].status = "running") =>
      /\ ~HasOpen(verdict[r].run)
      /\ verdict[r].status = Outcome(verdict[r].run)

\* Of the rows audited, the runs a request is about to audit and those an
\* instance is about to audit, at most one speaks for a run, and none before
\* the run is closed.
AuditTokens ==
  \A x \in Runs :
    /\ (run[x].status = "running" \/ x > lastRun)
         => audits[x] = 0 /\ x \notin cancelling /\ \A r \in Instances : x \notin toAudit[r]
    /\ audits[x] \in {0, 1}
    /\ audits[x] = 1 => x \notin cancelling /\ \A r \in Instances : x \notin toAudit[r]
    /\ x \in cancelling => \A r \in Instances : x \notin toAudit[r]
    /\ \A r, q \in Instances : x \in toAudit[r] /\ x \in toAudit[q] => r = q

EngineInv ==
  /\ TypeOK /\ InHand /\ Uncreated /\ AbsentIsBlank /\ VerdictTrue /\ AuditTokens
  /\ SettledTruth /\ InOrder

-----------------------------------------------------------------------------
(* The guarded updates of store.rs rewrite at most one open row *)

LEMMA StepParts ==
  \A s \in Steps : s[1] \in Runs /\ s[2] \in StepNos
BY DEF Steps

\* Closing or re-queueing a row keeps what identifies it.
LEMMA RowRewrite ==
  ASSUME NEW old \in Step, NEW st \in OpenStatus \cup FinalStatus, NEW l \in Leases,
         NEW d \in BOOLEAN
  PROVE  /\ Rewrites(old, [old EXCEPT !.status = st, !.lease = l])
         /\ Rewrites(old, [old EXCEPT !.status = st, !.lease = l, !.due = d])
         /\ Rewrites(old, [old EXCEPT !.status = st])
BY DEF Rewrites, Step, Leases, OpenStatus, FinalStatus

LEMMA ClockRewrite ==
  ASSUME NEW old \in Step, old.status \in OpenStatus, NEW l \in Leases
  PROVE  /\ Rewrites(old, [old EXCEPT !.lease = l])
         /\ Rewrites(old, [old EXCEPT !.due = TRUE])
BY DEF Rewrites, Step, Leases, OpenStatus, FinalStatus

LEMMA ClaimRewrite ==
  ASSUME NEW old \in Step, NEW n \in Nat
  PROVE  LET new == [old EXCEPT !.status = "running", !.attempts = n, !.lease = "live"]
         IN  /\ new \in Step /\ new.status = "running" /\ new.kind = old.kind
             /\ new.max = old.max /\ new.attempts = n
BY DEF Step, OpenStatus

LEMMA WriteRunningGuarded ==
  ASSUME NEW s, NEW new, Rewrites(step[s], new)
  PROVE  Guarded(s, WriteRunning(s, new))
BY DEF Guarded, WriteRunning, Open, OpenStatus, Rewrites

LEMMA StoreWritesGuarded ==
  ASSUME TypeOK, NEW s \in Steps, NEW now \in BOOLEAN
  PROVE  /\ Guarded(s, CompleteStep(s)) /\ Guarded(s, FailStep(s))
         /\ Guarded(s, SetStepWaiting(s)) /\ Guarded(s, RetryStep(s, now))
         /\ Guarded(s, CancelStep(s))
<1>1. step[s] \in Step
  BY DEF TypeOK
<1>2. "none" \in Leases /\ FALSE \in BOOLEAN
  BY DEF Leases
<1>3. /\ "succeeded" \in OpenStatus \cup FinalStatus /\ "failed" \in OpenStatus \cup FinalStatus
      /\ "waiting" \in OpenStatus \cup FinalStatus /\ "pending" \in OpenStatus \cup FinalStatus
      /\ "cancelled" \in OpenStatus \cup FinalStatus
  BY DEF OpenStatus, FinalStatus
<1>4. Guarded(s, CompleteStep(s))
  <2>1. Rewrites(step[s], [step[s] EXCEPT !.status = "succeeded", !.lease = "none"])
    BY <1>1, <1>2, <1>3, RowRewrite
  <2> QED BY <2>1, WriteRunningGuarded DEF CompleteStep
<1>5. Guarded(s, FailStep(s))
  <2>1. Rewrites(step[s], [step[s] EXCEPT !.status = "failed", !.lease = "none"])
    BY <1>1, <1>2, <1>3, RowRewrite
  <2> QED BY <2>1, WriteRunningGuarded DEF FailStep
<1>6. Guarded(s, SetStepWaiting(s))
  <2>1. Rewrites(step[s], [step[s] EXCEPT !.status = "waiting", !.lease = "none", !.due = FALSE])
    BY <1>1, <1>2, <1>3, RowRewrite
  <2> QED BY <2>1, WriteRunningGuarded DEF SetStepWaiting
<1>7. Guarded(s, RetryStep(s, now))
  <2>1. Rewrites(step[s], [step[s] EXCEPT !.status = "pending", !.lease = "none", !.due = now])
    BY <1>1, <1>2, <1>3, RowRewrite
  <2> QED BY <2>1, WriteRunningGuarded DEF RetryStep
<1>8. Guarded(s, CancelStep(s))
  <2>1. Rewrites(step[s], [step[s] EXCEPT !.status = "cancelled", !.lease = "none"])
    BY <1>1, <1>2, <1>3, RowRewrite
  <2> QED BY <2>1 DEF Guarded, CancelStep, Rewrites
<1> QED BY <1>4, <1>5, <1>6, <1>7, <1>8

\* A repair is one of the four guarded updates.
LEMMA ReclaimedWrites ==
  ASSUME NEW c \in Snapshot
  PROVE  \/ Reclaimed(c) = CompleteStep(c.id) \/ Reclaimed(c) = FailStep(c.id)
         \/ Reclaimed(c) = SetStepWaiting(c.id) \/ Reclaimed(c) = RetryStep(c.id, TRUE)
<1>1. c.kind \in {"task", "wait"} /\ c.attempts \in Nat /\ c.max \in Nat
  BY DEF Snapshot, Kinds
<1>2. (c.attempts > 1) = ~(c.attempts <= 1) /\ (c.attempts > 1) \in BOOLEAN
  BY <1>1
<1>3. CASE c.kind = "wait" /\ c.attempts > 1
  <2>1. c.kind # "task" /\ ~(c.attempts <= 1)
    BY <1>1, <1>3
  <2>2. Reclaimed(c) = CompleteStep(c.id)
    BY <1>3, <2>1 DEF Reclaimed
  <2> QED BY <2>2
<1>4. CASE c.kind = "wait" /\ c.attempts <= 1
  BY <1>1, <1>4 DEF Reclaimed
<1>5. CASE c.kind = "task" /\ c.attempts < c.max
  BY <1>1, <1>5 DEF Reclaimed, MayRetry
<1>6. CASE c.kind = "task" /\ ~(c.attempts < c.max)
  BY <1>1, <1>6 DEF Reclaimed, MayRetry
<1> QED BY <1>1, <1>2, <1>3, <1>4, <1>5, <1>6

LEMMA ReclaimedGuarded ==
  ASSUME TypeOK, NEW c \in Snapshot
  PROVE  c.id \in Steps /\ Guarded(c.id, Reclaimed(c))
<1>1. c.id \in Steps
  BY DEF Snapshot
<1>2. /\ Guarded(c.id, CompleteStep(c.id)) /\ Guarded(c.id, FailStep(c.id))
      /\ Guarded(c.id, SetStepWaiting(c.id)) /\ Guarded(c.id, RetryStep(c.id, TRUE))
  BY <1>1, StoreWritesGuarded
<1> QED BY <1>1, <1>2, ReclaimedWrites

\* A guarded update is a move of the step rows.
LEMMA GuardedMoves ==
  ASSUME TypeOK, NEW s \in Steps, Guarded(s, step')
  PROVE  StepMoves
<1>1. CASE step' = step
  BY <1>1 DEF StepMoves
<1>2. CASE step' # step
  <2>1. PICK new \in Step : Rewrites(step[s], new) /\ step' = [step EXCEPT ![s] = new]
    BY <1>2 DEF Guarded
  <2>2. Open(s)
    BY <1>2 DEF Guarded
  <2>3. step'[s] = new /\ \A e \in Steps : e # s => step'[e] = step[e]
    BY <2>1 DEF TypeOK
  <2> QED BY <2>1, <2>2, <2>3 DEF StepMoves
<1> QED BY <1>1, <1>2

-----------------------------------------------------------------------------
(* Every action is a move of the step rows and of the run rows *)

\* create_execution_in.
LEMMA CreateMoves ==
  ASSUME EngineConstantsOK, TypeOK, Uncreated, NEW w \in Workflows,
         lastRun < MaxRuns, CreateExecution(w)
  PROVE  RowMoves
<1> DEFINE x == lastRun + 1
           plan == workflow[w].plan
<1>1. x \in Runs /\ lastRun' = x /\ x \in lastRun .. MaxRuns
  BY DEF TypeOK, Runs, EngineConstantsOK, CreateExecution
<1>2. PICK n \in StepNos : plan \in [1 .. n -> StepDefinitions]
  BY DEF TypeOK, Workflow, EngineConstantsOK
<1>3. \A k \in DOMAIN plan : plan[k].kind \in Kinds /\ plan[k].max \in Nat
  BY <1>2 DEF StepDefinitions
<1> HIDE DEF x, plan
<1>4. \A k \in DOMAIN plan : /\ NewStep(plan[k]) \in Step
                             /\ NewStep(plan[k]).status = "pending"
                             /\ NewStep(plan[k]).attempts = 0
  BY <1>3 DEF NewStep, Step, OpenStatus, FinalStatus, Kinds
<1>5. [status |-> "running", workflow |-> w] \in Run
  BY DEF Run
<1>6. \A s \in Steps : step'[s] = IF s[1] = x /\ s[2] \in DOMAIN plan
                                    THEN NewStep(plan[s[2]]) ELSE step[s]
  BY DEF CreateExecution, x, plan
<1>7. DOMAIN step' = Steps /\ step' = [s \in Steps |-> step'[s]]
  BY DEF CreateExecution
<1>8. StepMoves
  BY <1>1, <1>4, <1>6 DEF StepMoves, Creates, x
<1>9. run' = [run EXCEPT ![x] = [status |-> "running", workflow |-> w]]
  BY DEF CreateExecution, x
<1>10. RunMoves
  BY <1>1, <1>5, <1>9 DEF RunMoves, TypeOK, x
<1>11. run' = [y \in Runs |-> run'[y]]
  BY <1>9 DEF TypeOK
<1> QED BY <1>1, <1>7, <1>8, <1>10, <1>11 DEF RowMoves

\* An action that leaves the tables alone.
LEMMA Unmoved ==
  ASSUME TypeOK, UNCHANGED rows
  PROVE  RowMoves
BY DEF TypeOK, rows, RowMoves, StepMoves, RunMoves

\* An action that makes one guarded update.
LEMMA OneUpdate ==
  ASSUME TypeOK, NEW s \in Steps, Guarded(s, step'), UNCHANGED <<lastRun, run>>
  PROVE  RowMoves
<1>1. StepMoves
  BY GuardedMoves
<1>2. step' = [e \in Steps |-> step'[e]]
  BY DEF TypeOK, Guarded
<1> QED BY <1>1, <1>2 DEF TypeOK, RowMoves, RunMoves

LEMMA DeleteMoves ==
  ASSUME TypeOK, NEW w \in Workflows, DeleteWorkflow(w)
  PROVE  RowMoves
<1>1. \A x \in Runs : run[x].workflow = w =>
        [run[x] EXCEPT !.status = "absent"] \in Run
        /\ [run[x] EXCEPT !.status = "absent"].status = "absent"
  BY DEF TypeOK, Run
<1>2. \A x \in Runs : run'[x] = IF run[x].workflow = w
                                  THEN [run[x] EXCEPT !.status = "absent"] ELSE run[x]
  BY DEF DeleteWorkflow
<1>3. \A s \in Steps : step'[s] = IF run[s[1]].workflow = w THEN NoStep ELSE step[s]
  BY DEF DeleteWorkflow
<1>4. RunMoves
  BY <1>1, <1>2 DEF RunMoves
<1>5. StepMoves
  BY <1>1, <1>2, <1>3, StepParts DEF StepMoves
<1>6. lastRun' = lastRun /\ lastRun \in lastRun .. MaxRuns
  BY DEF DeleteWorkflow, TypeOK
<1> QED BY <1>4, <1>5, <1>6 DEF RowMoves, DeleteWorkflow

LEMMA CancelMoves ==
  ASSUME TypeOK, NEW x \in Runs, CancelExecution(x)
  PROVE  RowMoves
<1>1. /\ [run[x] EXCEPT !.status = "cancelled"] \in Run
      /\ [run[x] EXCEPT !.status = "cancelled"].status = "cancelled"
  BY DEF TypeOK, Run, Settled
<1>2. RunMoves
  BY <1>1 DEF RunMoves, TypeOK, CancelExecution
<1>3. ASSUME NEW s \in Steps, step[s].status \in {"pending", "waiting"}
      PROVE  Rewrites(step[s], [step[s] EXCEPT !.status = "cancelled"]) /\ Open(s)
  <2>1. step[s] \in Step /\ "cancelled" \in OpenStatus \cup FinalStatus
    BY DEF TypeOK, OpenStatus, FinalStatus
  <2>2. "none" \in Leases /\ TRUE \in BOOLEAN
    BY DEF Leases
  <2>3. Rewrites(step[s], [step[s] EXCEPT !.status = "cancelled"])
    BY <2>1, <2>2, RowRewrite
  <2> QED BY <1>3, <2>3 DEF Open, OpenStatus
<1>4. \A s \in Steps : step'[s] = IF s[1] = x /\ step[s].status \in {"pending", "waiting"}
                                    THEN [step[s] EXCEPT !.status = "cancelled"] ELSE step[s]
  BY DEF CancelExecution
<1>5. StepMoves
  BY <1>3, <1>4 DEF StepMoves
<1>6. lastRun' = lastRun /\ lastRun \in lastRun .. MaxRuns
  BY DEF CancelExecution, TypeOK
<1>7. run' = [y \in Runs |-> run'[y]] /\ step' = [s \in Steps |-> step'[s]]
  BY DEF CancelExecution, TypeOK
<1> QED BY <1>2, <1>5, <1>6, <1>7 DEF RowMoves

LEMMA ResolveMoves ==
  ASSUME TypeOK, NEW r \in Instances, NEW S \in SUBSET Steps, ResolveDueWaits(r, S)
  PROVE  RowMoves
<1>1. ASSUME NEW s \in S
      PROVE  Rewrites(step[s], [step[s] EXCEPT !.status = "succeeded"]) /\ Open(s)
  <2>1. step[s] \in Step /\ "succeeded" \in OpenStatus \cup FinalStatus
    BY DEF TypeOK, OpenStatus, FinalStatus
  <2>2. "none" \in Leases /\ TRUE \in BOOLEAN
    BY DEF Leases
  <2>3. Rewrites(step[s], [step[s] EXCEPT !.status = "succeeded"])
    BY <2>1, <2>2, RowRewrite
  <2> QED BY <2>3 DEF Open, OpenStatus, ResolveDueWaits
<1>2. \A s \in Steps : step'[s] = IF s \in S THEN [step[s] EXCEPT !.status = "succeeded"]
                                             ELSE step[s]
  BY DEF ResolveDueWaits
<1>3. StepMoves
  BY <1>1, <1>2 DEF StepMoves
<1>4. step' = [s \in Steps |-> step'[s]]
  BY DEF ResolveDueWaits
<1> QED BY <1>3, <1>4 DEF ResolveDueWaits, RowMoves, RunMoves, TypeOK

LEMMA ClaimMoves ==
  ASSUME TypeOK, NEW r \in Instances, NEW s \in Steps, ClaimDueStep(r, s)
  PROVE  RowMoves
<1> DEFINE new == [step[s] EXCEPT !.status = "running",
                                  !.attempts = step[s].attempts + 1, !.lease = "live"]
<1>1. /\ new \in Step /\ new.status = "running" /\ new.kind = step[s].kind
      /\ new.max = step[s].max /\ new.attempts = step[s].attempts + 1
  <2>1. step[s] \in Step
    BY DEF TypeOK
  <2>2. step[s].attempts + 1 \in Nat
    BY <2>1 DEF Step
  <2> QED BY <2>1, <2>2, ClaimRewrite
<1>2. step' = [step EXCEPT ![s] = new]
  BY DEF ClaimDueStep
<1> HIDE DEF new
<1>3. Open(s) /\ Unblocked(s) /\ MayClaim(s)
  BY DEF ClaimDueStep, NextDue, Claimable, Open, OpenStatus
<1>4. step'[s] = new /\ \A e \in Steps : e # s => step'[e] = step[e]
  BY <1>2 DEF TypeOK
<1>5. Claims(s)
  BY <1>1, <1>3, <1>4 DEF Claims
<1>6. StepMoves
  BY <1>4, <1>5 DEF StepMoves
<1>7. step' = [e \in Steps |-> step'[e]]
  BY <1>2 DEF TypeOK
<1> QED BY <1>6, <1>7 DEF ClaimDueStep, RowMoves, RunMoves, TypeOK

LEMMA VerdictMoves ==
  ASSUME TypeOK, InHand, NEW r \in Instances, WriteVerdict(r)
  PROVE  RowMoves
<1> DEFINE x == verdict[r].run
           v == verdict[r].status
<1>1. phase[r] = "write" /\ x \in Runs /\ v \in Settled
  BY DEF WriteVerdict, InHand, Holds, Verdict
<1>2. UNCHANGED <<lastRun, step>>
  BY DEF WriteVerdict
<1>3. CASE run[x].status = "running"
  <2>1. run' = [run EXCEPT ![x] = [run[x] EXCEPT !.status = v]]
    BY <1>3 DEF WriteVerdict, StillRunning
  <2>2. /\ [run[x] EXCEPT !.status = v] \in Run
        /\ [run[x] EXCEPT !.status = v].status = v
    BY <1>1 DEF TypeOK, Run
  <2>3. RunMoves
    BY <1>1, <1>2, <1>3, <2>1, <2>2 DEF RunMoves, TypeOK
  <2>4. run' = [y \in Runs |-> run'[y]]
    BY <2>1 DEF TypeOK
  <2> QED BY <1>2, <2>3, <2>4 DEF RowMoves, StepMoves, TypeOK
<1>4. CASE run[x].status # "running"
  <2>1. UNCHANGED rows
    BY <1>2, <1>4 DEF WriteVerdict, StillRunning, rows
  <2> QED BY <2>1, Unmoved
<1> QED BY <1>3, <1>4

\* Every step of the system is a move of the tables.
LEMMA NextMoves ==
  ASSUME EngineConstantsOK, TypeOK, InHand, Uncreated, [Next]_vars
  PROVE  RowMoves
<1>1. CASE UNCHANGED vars
  BY <1>1, Unmoved DEF vars, rows
<1>2. CASE Operator
  <2>1. ASSUME NEW w \in Workflows, DeleteWorkflow(w) PROVE RowMoves
    BY <2>1, DeleteMoves
  <2>2. ASSUME NEW w \in Workflows, StartRun(w) PROVE RowMoves
    BY <2>2, CreateMoves DEF StartRun
  <2>3. ASSUME NEW x \in Runs, CancelExecution(x) PROVE RowMoves
    BY <2>3, CancelMoves
  <2>4. ASSUME UNCHANGED rows PROVE RowMoves
    BY <2>4, Unmoved
  <2> QED BY <1>2, <2>1, <2>2, <2>3, <2>4
       DEF Operator, InsertWorkflow, UpdateWorkflow, AuditCancel, RequestDies
<1>3. CASE Time
  <2>1. ASSUME NEW s \in Steps, StepComesDue(s) PROVE RowMoves
    <3>1. step[s] \in Step /\ step[s].status \in OpenStatus /\ "none" \in Leases
      BY <2>1 DEF TypeOK, StepComesDue, OpenStatus, Leases
    <3>2. Rewrites(step[s], [step[s] EXCEPT !.due = TRUE])
      BY <3>1, ClockRewrite
    <3>3. Guarded(s, step')
      BY <2>1, <3>1, <3>2 DEF Guarded, Open, Rewrites, StepComesDue
    <3> QED BY <2>1, <3>3, OneUpdate DEF StepComesDue
  <2>2. ASSUME NEW s \in Steps, LeaseExpires(s) PROVE RowMoves
    <3>1. step[s] \in Step /\ step[s].status \in OpenStatus /\ "expired" \in Leases
      BY <2>2 DEF TypeOK, LeaseExpires, OpenStatus, Leases
    <3>2. Rewrites(step[s], [step[s] EXCEPT !.lease = "expired"])
      BY <3>1, ClockRewrite
    <3>3. Guarded(s, step')
      BY <2>2, <3>1, <3>2 DEF Guarded, Open, Rewrites, LeaseExpires
    <3> QED BY <2>2, <3>3, OneUpdate DEF LeaseExpires
  <2>3. ASSUME UNCHANGED rows PROVE RowMoves
    BY <2>3, Unmoved
  <2> QED BY <1>3, <2>1, <2>2, <2>3 DEF Time, ScheduleComesDue
<1>4. ASSUME NEW r \in Instances, BeginTick(r) \/ BeginSweep(r) \/ Crash(r) PROVE RowMoves
  <2>1. ASSUME NEW S \in SUBSET Steps, ResolveDueWaits(r, S) PROVE RowMoves
    BY <2>1, ResolveMoves
  <2>2. ASSUME UNCHANGED rows PROVE RowMoves
    BY <2>2, Unmoved
  <2> QED BY <1>4, <2>1, <2>2 DEF BeginTick, BeginSweep, Crash, ClaimDueSchedules
<1>5. ASSUME NEW r \in Instances, Tick(r) PROVE RowMoves
  <2>1. ASSUME NEW w \in Workflows, StartScheduled(r, w) PROVE RowMoves
    BY <2>1, CreateMoves, Unmoved DEF StartScheduled
  <2>2. ASSUME NEW s \in Steps, ClaimDueStep(r, s) PROVE RowMoves
    BY <2>2, ClaimMoves
  <2>3. ASSUME \/ ParkWait(r) \/ StepSucceeds(r) \/ StepRetries(r) \/ StepFails(r)
               \/ CloseStep(r)
        PROVE  RowMoves
    <3> DEFINE s == job[r].id
    <3>1. s \in Steps
      BY <2>3 DEF InHand, Holds, Snapshot, ParkWait, StepSucceeds, StepRetries, StepFails, CloseStep
    <3>2. /\ Guarded(s, CompleteStep(s)) /\ Guarded(s, FailStep(s))
          /\ Guarded(s, SetStepWaiting(s)) /\ Guarded(s, RetryStep(s, FALSE))
          /\ Guarded(s, CancelStep(s))
      BY <3>1, StoreWritesGuarded
    <3>3. Guarded(s, step') /\ UNCHANGED <<lastRun, run>>
      BY <2>3, <3>2 DEF ParkWait, StepSucceeds, StepRetries, StepFails, CloseStep, Acted
    <3> QED BY <3>1, <3>3, OneUpdate
  <2>4. ASSUME UNCHANGED rows PROVE RowMoves
    BY <2>4, Unmoved
  <2> QED BY <1>5, <2>1, <2>2, <2>3, <2>4
       DEF Tick, ClaimRefused, EndTick, ReadExecution, SettleAfterStep, CountSteps
<1>6. ASSUME NEW r \in Instances, Sweep(r) PROVE RowMoves
  <2>1. ASSUME NEW c \in stale[r], ReclaimStep(r, c) PROVE RowMoves
    <3>1. c \in Snapshot
      BY DEF TypeOK
    <3>2. c.id \in Steps /\ Guarded(c.id, step') /\ UNCHANGED <<lastRun, run>>
      BY <2>1, <3>1, ReclaimedGuarded DEF ReclaimStep
    <3> QED BY <3>2, OneUpdate
  <2>2. ASSUME UNCHANGED rows PROVE RowMoves
    BY <2>2, Unmoved
  <2> QED BY <1>6, <2>1, <2>2 DEF Sweep, StaleSteps, SettleQueued, CountSteps, Reconcile, EndSweep
<1>7. ASSUME NEW r \in Instances, WriteVerdict(r) PROVE RowMoves
  BY <1>7, VerdictMoves
<1>8. ASSUME NEW r \in Instances, NEW x \in toAudit[r], AuditSettlement(r, x) PROVE RowMoves
  <2>1. UNCHANGED rows
    BY <1>8 DEF AuditSettlement
  <2> QED BY <2>1, Unmoved
<1> QED BY <1>1, <1>2, <1>3, <1>4, <1>5, <1>6, <1>7, <1>8 DEF Next, Continue

-----------------------------------------------------------------------------
(* What follows from the moves alone *)

LEMMA TypeParts ==
  /\ TypeOK <=> TableTypes /\ DefinitionTypes /\ LocalTypes /\ LedgerTypes
  /\ TypeOK' <=> TableTypes' /\ DefinitionTypes' /\ LocalTypes' /\ LedgerTypes'
BY DEF TypeOK, TableTypes, DefinitionTypes, LocalTypes, LedgerTypes, Verdict

LEMMA TablesStayTyped ==
  ASSUME EngineConstantsOK, TypeOK, RowMoves
  PROVE  TableTypes'
<1>0. NoStep \in Step /\ NoStep.attempts <= AttemptsAllowed(NoStep)
  BY DEF NoStep, Step, Kinds, AttemptsAllowed
<1>1. lastRun' \in 0 .. MaxRuns
  BY DEF RowMoves, TypeOK, EngineConstantsOK
<1>2. \A x \in Runs : run'[x] \in Run
  BY DEF RowMoves, RunMoves, TypeOK
<1>3. ASSUME NEW s \in Steps
      PROVE  step'[s] \in Step /\ step'[s].attempts <= AttemptsAllowed(step'[s])
  <2>0. step[s] \in Step /\ step[s].attempts <= AttemptsAllowed(step[s])
    BY DEF TypeOK
  <2>1. CASE step'[s] = step[s]
    BY <2>0, <2>1
  <2>2. CASE Rewrites(step[s], step'[s])
    BY <2>0, <2>2 DEF Rewrites, AttemptsAllowed
  <2>3. CASE Claims(s)
    BY <2>0, <2>3 DEF Claims, MayClaim, AttemptsAllowed, Step
  <2>4. CASE Creates(s)
    BY <2>4 DEF Creates, AttemptsAllowed, Step
  <2>5. CASE step'[s] = NoStep
    BY <1>0, <2>5
  <2> QED BY <2>1, <2>2, <2>3, <2>4, <2>5 DEF RowMoves, StepMoves
<1>4. run' \in [Runs -> Run] /\ step' \in [Steps -> Step]
  BY <1>2, <1>3 DEF RowMoves
<1> QED BY <1>1, <1>3, <1>4 DEF TableTypes

LEMMA BlankStaysBlank ==
  ASSUME EngineConstantsOK, TypeOK, Uncreated, AbsentIsBlank, RowMoves
  PROVE  Uncreated' /\ AbsentIsBlank'
<1>1. lastRun \in Nat /\ lastRun' \in Nat /\ lastRun' >= lastRun
  BY DEF RowMoves, TypeOK, EngineConstantsOK
<1>2. \A s \in Steps : s[1] \in Nat
  BY StepParts DEF Runs
<1>3. ASSUME NEW x \in Runs, x > lastRun' PROVE run'[x].status = "absent"
  <2>1. x \in Nat /\ x > lastRun /\ run[x].status = "absent"
    BY <1>1, <1>3 DEF Runs, Uncreated
  <2> QED BY <1>1, <1>3, <2>1 DEF RowMoves, RunMoves
<1>4. ASSUME NEW s \in Steps, s[1] > lastRun' PROVE step'[s] = NoStep
  <2>1. step[s] = NoStep /\ ~Open(s)
    BY <1>1, <1>2, <1>4 DEF Uncreated, Open, NoStep, OpenStatus
  <2>2. ~Claims(s) /\ ~Creates(s)
    BY <1>1, <1>2, <1>4, <2>1 DEF Claims, Creates
  <2> QED BY <2>1, <2>2 DEF RowMoves, StepMoves
<1>5. ASSUME NEW s \in Steps, step'[s].status = "absent" PROVE step'[s] = NoStep
  <2>1. ~Rewrites(step[s], step'[s]) /\ ~Claims(s) /\ ~Creates(s)
    BY <1>5 DEF Rewrites, Claims, Creates, OpenStatus, FinalStatus
  <2> QED BY <1>5, <2>1 DEF RowMoves, StepMoves, AbsentIsBlank
<1> QED BY <1>3, <1>4, <1>5 DEF Uncreated, AbsentIsBlank

\* Closed steps and settled runs are left alone by every move but a removal.
LEMMA FinalUnmoved ==
  ASSUME TypeOK, Uncreated, RowMoves
  PROVE  /\ \A s \in Steps : step[s].status \in FinalStatus
                               => step'[s] = step[s] \/ (step'[s] = NoStep /\ run'[s[1]].status = "absent")
         /\ \A x \in Runs : run[x].status \in Settled
                               => run'[x] = run[x] \/ run'[x].status = "absent"
<1>1. ASSUME NEW s \in Steps, step[s].status \in FinalStatus
      PROVE  step'[s] = step[s] \/ (step'[s] = NoStep /\ run'[s[1]].status = "absent")
  <2>1. ~Open(s) /\ ~Claims(s)
    BY <1>1 DEF Open, Claims, OpenStatus, FinalStatus
  <2>2. ~Creates(s)
    <3>1. s[1] = lastRun + 1 => step[s] = NoStep
      BY StepParts DEF Uncreated, TypeOK, Runs
    <3> QED BY <1>1, <3>1 DEF Creates, NoStep, FinalStatus
  <2> QED BY <2>1, <2>2 DEF RowMoves, StepMoves
<1>2. ASSUME NEW x \in Runs, run[x].status \in Settled
      PROVE  run'[x] = run[x] \/ run'[x].status = "absent"
  <2>1. x = lastRun + 1 => run[x].status = "absent"
    BY DEF Uncreated, TypeOK, Runs
  <2>2. run[x].status # "running" /\ run[x].status # "absent"
    BY <1>2 DEF Settled
  <2> QED BY <2>1, <2>2 DEF RowMoves, RunMoves
<1> QED BY <1>1, <1>2

\* The steps of a run without an open one do not move while the run exists.
LEMMA ClosedUnmoved ==
  ASSUME TypeOK, Uncreated, RowMoves, NEW x \in Runs, x <= lastRun, ~HasOpen(x),
         run'[x].status # "absent"
  PROVE  \A s \in Steps : s[1] = x => step'[s] = step[s]
<1>1. SUFFICES ASSUME NEW s \in Steps, s[1] = x PROVE step'[s] = step[s]
  OBVIOUS
<1>2. ~Open(s)
  BY <1>1 DEF HasOpen, StepsOf, Open, OpenStatus
<1>3. ~Creates(s)
  BY <1>1 DEF Creates, TypeOK, Runs
<1> QED BY <1>1, <1>2, <1>3 DEF RowMoves, StepMoves, Claims

\* What settlement reads of a run depends on the rows of its steps only.
LEMMA SameSteps ==
  ASSUME NEW x \in Runs, \A s \in Steps : s[1] = x => step'[s] = step[s]
  PROVE  /\ HasOpen(x)' <=> HasOpen(x)
         /\ Has(x, "failed")' <=> Has(x, "failed")
         /\ Has(x, "cancelled")' <=> Has(x, "cancelled")
         /\ Outcome(x)' = Outcome(x)
<1>1. StepsOf(x)' = StepsOf(x) /\ \A s \in StepsOf(x) : step'[s] = step[s]
  BY DEF StepsOf
<1>2. HasOpen(x)' <=> HasOpen(x)
  BY <1>1 DEF HasOpen, Open
<1>3. Has(x, "failed")' <=> Has(x, "failed")
  BY <1>1 DEF Has
<1>4. Has(x, "cancelled")' <=> Has(x, "cancelled")
  BY <1>1 DEF Has
<1>5. Outcome(x)' = Outcome(x)
  BY <1>3, <1>4 DEF Outcome
<1> QED BY <1>2, <1>3, <1>4, <1>5

\* A run whose steps are all closed, by the outcome they give.
LEMMA OutcomeMeaning ==
  ASSUME TypeOK, NEW x \in Runs, ~HasOpen(x)
  PROVE  /\ Outcome(x) = "completed" => \A s \in StepsOf(x) : step[s].status = "succeeded"
         /\ Outcome(x) = "failed" => Has(x, "failed")
<1>1. ASSUME NEW s \in StepsOf(x), Outcome(x) = "completed" PROVE step[s].status = "succeeded"
  <2>1. step[s].status # "failed" /\ step[s].status # "cancelled"
    BY <1>1 DEF Outcome, Has
  <2>2. step[s] \in Step /\ step[s].status # "absent" /\ ~Open(s)
    BY DEF TypeOK, StepsOf, HasOpen
  <2> QED BY <2>1, <2>2 DEF Step, Open, OpenStatus, FinalStatus
<1> QED BY <1>1 DEF Outcome

LEMMA SettledTruthStays ==
  ASSUME TypeOK, InHand, Uncreated, VerdictTrue, SettledTruth, RowMoves
  PROVE  SettledTruth'
<1>1. SUFFICES ASSUME NEW x \in Runs, run'[x].status \in {"completed", "failed"}
      PROVE  /\ run'[x].status = "completed" => \A s \in StepsOf(x)' : step'[s].status = "succeeded"
             /\ run'[x].status = "failed" => ~HasOpen(x)' /\ Has(x, "failed")'
  BY DEF SettledTruth
<1>2. run'[x].status # "absent" /\ run'[x].status # "running" /\ run'[x].status # "cancelled"
  BY <1>1
<1>3. CASE run'[x] = run[x]
  <2>1. x <= lastRun
    BY <1>2, <1>3 DEF Uncreated, TypeOK, Runs
  <2>2. ~HasOpen(x)
    BY <1>1, <1>3 DEF SettledTruth, HasOpen, Open, OpenStatus
  <2>3. \A s \in Steps : s[1] = x => step'[s] = step[s]
    BY <1>2, <2>1, <2>2, ClosedUnmoved
  <2>4. /\ HasOpen(x)' <=> HasOpen(x)
        /\ Has(x, "failed")' <=> Has(x, "failed")
    BY <2>3, SameSteps
  <2>5. run'[x].status = "completed" => \A s \in StepsOf(x)' : step'[s].status = "succeeded"
    BY <1>3, <2>3 DEF SettledTruth, StepsOf
  <2> QED BY <1>3, <2>2, <2>4, <2>5 DEF SettledTruth
<1>4. CASE run'[x] # run[x]
  <2>1. PICK r \in Instances : /\ run[x].status = "running" /\ step' = step
                               /\ phase[r] = "write" /\ verdict[r].run = x
                               /\ run'[x].status = verdict[r].status
    BY <1>2, <1>4 DEF RowMoves, RunMoves
  <2>2. ~HasOpen(x) /\ run'[x].status = Outcome(x)
    BY <2>1 DEF VerdictTrue
  <2>3. /\ HasOpen(x)' <=> HasOpen(x)
        /\ Has(x, "failed")' <=> Has(x, "failed")
    BY <2>1, SameSteps
  <2>4. StepsOf(x)' = StepsOf(x)
    BY <2>1 DEF StepsOf
  <2> QED BY <2>1, <2>2, <2>3, <2>4, OutcomeMeaning
<1> QED BY <1>3, <1>4

LEMMA InOrderStays ==
  ASSUME EngineConstantsOK, TypeOK, Uncreated, InOrder, RowMoves
  PROVE  InOrder'
<1>1. SUFFICES ASSUME NEW s \in Steps, NEW e \in Steps, s[1] = e[1], e[2] < s[2],
                      step'[s].attempts > 0
      PROVE  ~Open(e)'
  BY DEF InOrder
<1>2. ~Open(e)
  <2>1. CASE Claims(s)
    BY <1>1, <2>1 DEF Claims, Unblocked
  <2>2. CASE ~Claims(s)
    <3>1. step'[s].attempts = step[s].attempts
      BY <1>1, <2>2 DEF RowMoves, StepMoves, Rewrites, Creates, NoStep
    <3> QED BY <1>1, <3>1 DEF InOrder
  <2> QED BY <2>1, <2>2
<1>3. ~Creates(e)
  <2>1. SUFFICES ASSUME Creates(e) PROVE FALSE
    OBVIOUS
  <2>2. s[1] = lastRun + 1 /\ lastRun' = lastRun + 1 /\ s[1] > lastRun
    BY <1>1, <2>1 DEF Creates, TypeOK
  <2>3. step[s] = NoStep
    BY <2>2 DEF Uncreated
  <2>4. ~Open(s) /\ ~Claims(s)
    BY <2>3 DEF Open, Claims, NoStep, OpenStatus
  <2>5. step'[s].attempts = 0
    BY <2>3, <2>4 DEF RowMoves, StepMoves, Creates, NoStep
  <2> QED BY <1>1, <2>5
<1>4. step'[e] = step[e] \/ step'[e] = NoStep
  BY <1>2, <1>3 DEF RowMoves, StepMoves, Claims
<1> QED BY <1>2, <1>4 DEF Open, NoStep, OpenStatus

-----------------------------------------------------------------------------
(* The instances *)

\* Instance r alone takes a step.
OnlyMoves(r) ==
  \A q \in Instances \ {r} :
    /\ phase'[q] = phase[q] /\ job'[q] = job[q] /\ stale'[q] = stale[q]
    /\ queue'[q] = queue[q] /\ verdict'[q] = verdict[q] /\ toAudit'[q] = toAudit[q]

\* The count of settle_execution: no step of the run is open.
Counts(r) ==
  /\ UNCHANGED rows
  /\ ~HasOpen(verdict'[r].run) /\ verdict'[r].status = Outcome(verdict'[r].run)

\* A step of instance r leaves it in order, and a verdict comes from a count.
InstanceMoves(r) ==
  /\ LocalTypes' /\ InHand' /\ OnlyMoves(r)
  /\ phase'[r] = "write" => Counts(r)

LEMMA LastRunGrows ==
  ASSUME EngineConstantsOK, TypeOK, RowMoves
  PROVE  /\ lastRun \in Nat /\ lastRun' \in Nat /\ lastRun <= lastRun'
         /\ \A n \in Nat : n <= lastRun => n <= lastRun'
BY DEF EngineConstantsOK, TypeOK, RowMoves

\* A row that is in use belongs to a run that was created.
LEMMA InUseIsCreated ==
  ASSUME TypeOK, Uncreated
  PROVE  /\ \A s \in Steps : step[s].status # "absent" => s[1] <= lastRun
         /\ \A x \in Runs : run[x].status # "absent" => x <= lastRun
BY StepParts DEF TypeOK, Uncreated, Runs, NoStep

LEMMA HoldsStays ==
  ASSUME EngineConstantsOK, TypeOK, RowMoves, NEW r \in Instances, Holds(r),
         phase'[r] = phase[r], job'[r] = job[r], stale'[r] = stale[r],
         queue'[r] = queue[r], verdict'[r] = verdict[r]
  PROVE  Holds(r)'
<1>1. \A n \in Nat : n <= lastRun => n <= lastRun'
  BY LastRunGrows
<1>2. \A c \in Snapshot : c.id[1] \in Nat
  BY StepParts DEF Snapshot, Runs
<1>3. \A c \in stale[r] : c \in Snapshot
  BY DEF TypeOK
<1>4. \A x \in queue[r] : x \in Nat
  BY DEF TypeOK, Runs
<1>5. \A v \in Verdict : v.run \in Nat
  BY DEF Verdict, Runs
<1> QED BY <1>1, <1>2, <1>3, <1>4, <1>5 DEF Holds

LEMMA OnlyOneHolds ==
  ASSUME EngineConstantsOK, TypeOK, RowMoves, InHand, NEW r \in Instances,
         OnlyMoves(r), Holds(r)'
  PROVE  InHand'
<1>1. ASSUME NEW q \in Instances PROVE Holds(q)'
  <2>1. CASE q = r
    BY <2>1
  <2>2. CASE q # r
    <3>1. Holds(q)
      BY DEF InHand
    <3> QED BY <2>2, <3>1, HoldsStays DEF OnlyMoves
  <2> QED BY <2>1, <2>2
<1> QED BY <1>1 DEF InHand

\* No instance takes a step.
LEMMA LocalUnchanged ==
  ASSUME EngineConstantsOK, TypeOK, InHand, RowMoves, UNCHANGED local
  PROVE  LocalTypes' /\ InHand'
<1>1. LocalTypes'
  BY TypeParts DEF LocalTypes, local
<1>2. \A r \in Instances : Holds(r)'
  BY HoldsStays DEF local, InHand
<1> QED BY <1>1, <1>2 DEF InHand

\* The steps of a tick.
LEMMA BeginTickLocal ==
  ASSUME EngineConstantsOK, TypeOK, InHand, RowMoves, NEW r \in Instances,
         NEW S \in SUBSET Workflows, ClaimDueSchedules(r, S)
  PROVE  InstanceMoves(r)
<1>1. LocalTypes'
  BY TypeParts DEF LocalTypes, ClaimDueSchedules, Phases
<1>2. OnlyMoves(r)
  BY DEF OnlyMoves, ClaimDueSchedules, TypeOK
<1>3. phase'[r] \in {"claim", "start"} /\ UNCHANGED <<job, stale, queue, verdict, rows>>
  BY DEF ClaimDueSchedules, TypeOK
<1>4. Holds(r)'
  BY <1>3 DEF Holds, rows, InHand
<1> QED BY <1>1, <1>2, <1>3, <1>4, OnlyOneHolds DEF InstanceMoves

LEMMA StartScheduledLocal ==
  ASSUME EngineConstantsOK, TypeOK, InHand, RowMoves, NEW r \in Instances,
         NEW w \in Workflows, StartScheduled(r, w)
  PROVE  InstanceMoves(r)
<1>1. LocalTypes'
  <2>1. starting' \in [Instances -> SUBSET Workflows]
    BY DEF StartScheduled, TypeOK
  <2>2. phase' \in [Instances -> Phases]
    BY DEF StartScheduled, TypeOK, Phases
  <2> QED BY <2>1, <2>2, TypeParts DEF LocalTypes, StartScheduled
<1>2. OnlyMoves(r)
  BY DEF OnlyMoves, StartScheduled, TypeOK
<1>3. phase'[r] \in {"claim", "start"} /\ UNCHANGED <<job, stale, queue, verdict>>
  BY DEF StartScheduled, TypeOK
<1>4. Holds(r)'
  <2>1. Holds(r)
    BY DEF InHand
  <2>2. \A n \in Nat : n <= lastRun => n <= lastRun'
    BY LastRunGrows
  <2>3. (\A c \in stale[r] : c.id[1] \in Nat) /\ (\A x \in queue[r] : x \in Nat)
    BY StepParts DEF TypeOK, Snapshot, Runs
  <2> QED BY <1>3, <2>1, <2>2, <2>3 DEF Holds
<1> QED BY <1>1, <1>2, <1>3, <1>4, OnlyOneHolds DEF InstanceMoves

LEMMA ClaimLocal ==
  ASSUME EngineConstantsOK, TypeOK, InHand, Uncreated, RowMoves, NEW r \in Instances,
         NEW s \in Steps, ClaimDueStep(r, s)
  PROVE  InstanceMoves(r)
<1>1. step[s] \in Step /\ s[1] <= lastRun
  BY InUseIsCreated DEF TypeOK, ClaimDueStep, NextDue, Claimable
<1>2. job'[r] \in Snapshot /\ job'[r].id[1] <= lastRun
  BY <1>1 DEF ClaimDueStep, Snapshot, Step, TypeOK
<1>3. LocalTypes'
  <2>1. job' \in [Instances -> Snapshot \cup {NoJob}]
    BY <1>2 DEF ClaimDueStep, TypeOK
  <2>2. phase' \in [Instances -> Phases] /\ taken' \in [Instances -> Nat]
    BY DEF ClaimDueStep, TypeOK, Phases
  <2> QED BY <2>1, <2>2, TypeParts DEF LocalTypes, ClaimDueStep
<1>4. OnlyMoves(r)
  BY DEF OnlyMoves, ClaimDueStep, TypeOK
<1>5. phase'[r] = "act" /\ UNCHANGED <<stale, queue, verdict, lastRun>>
  BY DEF ClaimDueStep, TypeOK
<1>6. Holds(r)'
  BY <1>2, <1>5 DEF Holds, InHand
<1> QED BY <1>3, <1>4, <1>5, <1>6, OnlyOneHolds DEF InstanceMoves

\* An instance goes on with what it has in hand.
LEMMA PhaseLocal ==
  ASSUME EngineConstantsOK, TypeOK, InHand, RowMoves, NEW r \in Instances,
         NEW p \in Phases \ {"write"}, phase' = [phase EXCEPT ![r] = p],
         p \in {"act", "after", "close", "count"} => phase[r] \in {"act", "after", "close", "count"},
         UNCHANGED <<lastRun, loop, taken, starting, job, stale, queue, verdict, toAudit>>
  PROVE  InstanceMoves(r)
<1>1. LocalTypes'
  <2>1. phase' \in [Instances -> Phases]
    BY DEF TypeOK
  <2> QED BY <2>1, TypeParts DEF LocalTypes
<1>2. phase'[r] = p /\ p # "write" /\ OnlyMoves(r)
  BY DEF TypeOK, OnlyMoves
<1>3. Holds(r)'
  BY <1>2 DEF Holds, InHand
<1> QED BY <1>1, <1>2, <1>3, OnlyOneHolds DEF InstanceMoves

LEMMA TickLocal ==
  ASSUME EngineConstantsOK, TypeOK, InHand, Uncreated, RowMoves, NEW r \in Instances,
         Tick(r), ~SettleAfterStep(r)
  PROVE  InstanceMoves(r)
<1>0. {"idle", "claim", "after", "close", "count"} \subseteq Phases \ {"write"}
  BY DEF Phases
<1>1. ASSUME NEW w \in Workflows, StartScheduled(r, w) PROVE InstanceMoves(r)
  BY <1>1, StartScheduledLocal
<1>2. ASSUME NEW s \in Steps, ClaimDueStep(r, s) PROVE InstanceMoves(r)
  BY <1>2, ClaimLocal
<1>3. ASSUME (\E s \in Steps : ClaimRefused(r, s)) \/ EndTick(r) PROVE InstanceMoves(r)
  <2>1. /\ phase' = [phase EXCEPT ![r] = "idle"]
        /\ UNCHANGED <<lastRun, loop, taken, starting, job, stale, queue, verdict, toAudit>>
    BY <1>3 DEF ClaimRefused, EndTick, rows
  <2> QED BY <1>0, <2>1, PhaseLocal
<1>4. ASSUME ParkWait(r) \/ StepSucceeds(r) \/ StepFails(r) PROVE InstanceMoves(r)
  <2>1. /\ phase[r] = "act" /\ phase' = [phase EXCEPT ![r] = "after"]
        /\ UNCHANGED <<lastRun, loop, taken, starting, job, stale, queue, verdict, toAudit>>
    BY <1>4 DEF ParkWait, StepSucceeds, StepFails, Acted
  <2> QED BY <1>0, <2>1, PhaseLocal
<1>5. ASSUME StepRetries(r) \/ CloseStep(r) PROVE InstanceMoves(r)
  <2>1. /\ phase' = [phase EXCEPT ![r] = "claim"]
        /\ UNCHANGED <<lastRun, loop, taken, starting, job, stale, queue, verdict, toAudit>>
    BY <1>5 DEF StepRetries, CloseStep, Acted
  <2> QED BY <1>0, <2>1, PhaseLocal
<1>6. ASSUME ReadExecution(r) PROVE InstanceMoves(r)
  <2>1. /\ phase[r] = "after"
        /\ UNCHANGED <<lastRun, loop, taken, starting, job, stale, queue, verdict, toAudit>>
    BY <1>6 DEF ReadExecution, rows
  <2>2. PICK p \in {"claim", "count", "close"} : phase' = [phase EXCEPT ![r] = p]
    <3> DEFINE status == run[job[r].id[1]].status
    <3>1. CASE status = "absent"
      BY <1>6, <3>1 DEF ReadExecution
    <3>2. CASE status = "running"
      BY <1>6, <3>2 DEF ReadExecution
    <3>3. CASE status # "absent" /\ status # "running"
      BY <1>6, <3>3 DEF ReadExecution
    <3> QED BY <3>1, <3>2, <3>3
  <2> QED BY <1>0, <2>1, <2>2, PhaseLocal
<1> QED BY <1>1, <1>2, <1>3, <1>4, <1>5, <1>6 DEF Tick

\* The count of a settlement.
LEMMA CountLocal ==
  ASSUME EngineConstantsOK, TypeOK, InHand, Uncreated, RowMoves, NEW r \in Instances,
         NEW x \in Runs, x <= lastRun, CountSteps(r, x),
         queue' \in [Instances -> SUBSET Runs], queue'[r] \subseteq queue[r],
         \A q \in Instances \ {r} : queue'[q] = queue[q]
  PROVE  InstanceMoves(r)
<1>1. Outcome(x) \in Settled
  BY DEF Outcome, Settled
<1>2. /\ UNCHANGED rows
      /\ UNCHANGED <<loop, taken, starting, job, stale, toAudit>>
  BY DEF CountSteps
<1>3. CASE HasOpen(x)
  <2>1. /\ phase' = [phase EXCEPT ![r] = loop[r]]
        /\ verdict' = [verdict EXCEPT ![r] = NoVerdict]
    BY <1>3 DEF CountSteps
  <2>2. phase'[r] \in {"claim", "touched", "reconcile"} /\ OnlyMoves(r)
    BY <1>2, <2>1 DEF OnlyMoves, TypeOK
  <2>3. LocalTypes'
    <3>1. phase' \in [Instances -> Phases]
      BY <2>1 DEF TypeOK, Phases
    <3>2. verdict' \in [Instances -> Verdict \cup {NoVerdict}]
      BY <2>1 DEF TypeOK, Verdict
    <3> QED BY <1>2, <3>1, <3>2, TypeParts DEF LocalTypes
  <2>4. Holds(r)'
    BY <1>2, <2>2 DEF Holds, rows, InHand
  <2> QED BY <2>2, <2>3, <2>4, OnlyOneHolds DEF InstanceMoves
<1>4. CASE ~HasOpen(x)
  <2>1. /\ phase' = [phase EXCEPT ![r] = "write"]
        /\ verdict' = [verdict EXCEPT ![r] = [run |-> x, status |-> Outcome(x)]]
    BY <1>4 DEF CountSteps
  <2>2. /\ phase'[r] = "write" /\ verdict'[r] = [run |-> x, status |-> Outcome(x)]
        /\ OnlyMoves(r)
    BY <1>2, <2>1 DEF OnlyMoves, TypeOK
  <2>3. verdict'[r] \in Verdict /\ verdict'[r].run = x /\ verdict'[r].status = Outcome(x)
    BY <1>1, <2>2 DEF Verdict
  <2>4. LocalTypes'
    <3>1. phase' \in [Instances -> Phases]
      BY <2>1 DEF TypeOK, Phases
    <3>2. verdict' \in [Instances -> Verdict \cup {NoVerdict}]
      <4>1. verdict \in [Instances -> Verdict \cup {NoVerdict}]
        BY TypeParts DEF LocalTypes
      <4> QED BY <2>1, <2>2, <2>3, <4>1
    <3> QED BY <1>2, <3>1, <3>2, TypeParts DEF LocalTypes
  <2>5. Holds(r)'
    BY <1>2, <2>2, <2>3 DEF Holds, rows, InHand
  <2>6. Counts(r)
    BY <1>2, <1>4, <2>3 DEF Counts
  <2> QED BY <2>2, <2>4, <2>5, <2>6, OnlyOneHolds DEF InstanceMoves
<1> QED BY <1>3, <1>4

LEMMA SettleLocal ==
  ASSUME EngineConstantsOK, TypeOK, InHand, Uncreated, RowMoves, NEW r \in Instances,
         SettleAfterStep(r) \/ \E x \in queue[r] : SettleQueued(r, x)
  PROVE  InstanceMoves(r)
<1>1. CASE SettleAfterStep(r)
  <2>1. job[r].id[1] \in Runs /\ job[r].id[1] <= lastRun
    BY <1>1, StepParts DEF SettleAfterStep, InHand, Holds, Snapshot
  <2>2. CountSteps(r, job[r].id[1]) /\ queue' = queue
    BY <1>1 DEF SettleAfterStep
  <2>3. queue \in [Instances -> SUBSET Runs]
    BY DEF TypeOK
  <2> QED BY <2>1, <2>2, <2>3, CountLocal
<1>2. ASSUME NEW x \in queue[r], SettleQueued(r, x) PROVE InstanceMoves(r)
  <2>1. x \in Runs /\ x <= lastRun
    BY DEF TypeOK, InHand, Holds
  <2>2. CountSteps(r, x)
    BY <1>2 DEF SettleQueued
  <2>3. /\ queue' \in [Instances -> SUBSET Runs] /\ queue'[r] \subseteq queue[r]
        /\ \A q \in Instances \ {r} : queue'[q] = queue[q]
    BY <1>2 DEF SettleQueued, TypeOK
  <2> QED BY <2>1, <2>2, <2>3, CountLocal
<1> QED BY <1>1, <1>2

\* The update of a settlement, and its audit.
LEMMA WriteLocal ==
  ASSUME EngineConstantsOK, TypeOK, InHand, RowMoves, NEW r \in Instances, WriteVerdict(r)
  PROVE  InstanceMoves(r)
<1>1. verdict[r].run \in Runs
  BY DEF WriteVerdict, InHand, Holds, Verdict
<1>2. UNCHANGED <<lastRun, loop, taken, starting, job, stale, queue>>
  BY DEF WriteVerdict
<1>3. /\ phase'[r] \in {"audit", "claim", "touched", "reconcile"}
      /\ phase' \in [Instances -> Phases]
  BY DEF WriteVerdict, TypeOK, Phases
<1>4. OnlyMoves(r)
  BY DEF WriteVerdict, TypeOK, OnlyMoves
<1>5. LocalTypes'
  <2>1. toAudit' \in [Instances -> SUBSET Runs]
    BY <1>1 DEF WriteVerdict, TypeOK
  <2>2. verdict' \in [Instances -> Verdict \cup {NoVerdict}]
    BY DEF WriteVerdict, TypeOK, Verdict
  <2> QED BY <1>2, <1>3, <2>1, <2>2, TypeParts DEF LocalTypes
<1>6. Holds(r)'
  BY <1>2, <1>3 DEF Holds, InHand
<1> QED BY <1>3, <1>4, <1>5, <1>6, OnlyOneHolds DEF InstanceMoves

LEMMA AuditLocal ==
  ASSUME EngineConstantsOK, TypeOK, InHand, RowMoves, NEW r \in Instances,
         NEW x \in toAudit[r], AuditSettlement(r, x)
  PROVE  InstanceMoves(r)
<1>1. UNCHANGED <<lastRun, loop, taken, starting, job, stale, queue, verdict>>
  BY DEF AuditSettlement, rows
<1>2. PICK p \in {"audit", "idle", "claim", "touched", "reconcile"} :
        phase' = [phase EXCEPT ![r] = p]
  <2>0. loop[r] \in {"claim", "touched", "reconcile"}
    BY DEF TypeOK
  <2>1. CASE toAudit[r] # {x}
    BY <2>1 DEF AuditSettlement
  <2>2. CASE toAudit[r] = {x} /\ loop[r] = "reconcile"
    BY <2>2 DEF AuditSettlement
  <2>3. CASE toAudit[r] = {x} /\ loop[r] # "reconcile"
    BY <2>0, <2>3 DEF AuditSettlement
  <2> QED BY <2>1, <2>2, <2>3
<1>3. phase'[r] = p /\ p # "write" /\ phase' \in [Instances -> Phases]
  BY <1>2 DEF TypeOK, Phases
<1>4. /\ toAudit' \in [Instances -> SUBSET Runs]
      /\ \A q \in Instances \ {r} : toAudit'[q] = toAudit[q]
  BY DEF AuditSettlement, TypeOK
<1>5. OnlyMoves(r)
  BY <1>1, <1>2, <1>4 DEF OnlyMoves, TypeOK
<1>6. LocalTypes'
  BY <1>1, <1>3, <1>4, TypeParts DEF LocalTypes
<1>7. Holds(r)'
  BY <1>1, <1>3 DEF Holds, InHand
<1> QED BY <1>3, <1>5, <1>6, <1>7, OnlyOneHolds DEF InstanceMoves

\* The steps of a sweep.
LEMMA ResolveLocal ==
  ASSUME EngineConstantsOK, TypeOK, InHand, Uncreated, RowMoves, NEW r \in Instances,
         NEW S \in SUBSET Steps, ResolveDueWaits(r, S)
  PROVE  InstanceMoves(r)
<1>1. \A s \in S : s[1] \in Runs /\ s[1] <= lastRun
  BY StepParts, InUseIsCreated DEF ResolveDueWaits
<1>2. /\ queue' \in [Instances -> SUBSET Runs] /\ \A x \in queue'[r] : x <= lastRun
      /\ \A q \in Instances \ {r} : queue'[q] = queue[q]
  BY <1>1 DEF ResolveDueWaits, TypeOK
<1>3. UNCHANGED <<lastRun, taken, starting, job, stale, verdict, toAudit>>
  BY DEF ResolveDueWaits
<1>4. /\ phase'[r] = "stale" /\ phase' \in [Instances -> Phases]
      /\ loop' \in [Instances -> {"claim", "touched", "reconcile"}]
  BY DEF ResolveDueWaits, TypeOK, Phases
<1>5. OnlyMoves(r)
  BY <1>2, <1>3 DEF OnlyMoves, TypeOK, ResolveDueWaits
<1>6. LocalTypes'
  BY <1>2, <1>3, <1>4, TypeParts DEF LocalTypes
<1>7. Holds(r)'
  BY <1>2, <1>3, <1>4 DEF Holds, InHand
<1> QED BY <1>4, <1>5, <1>6, <1>7, OnlyOneHolds DEF InstanceMoves

LEMMA StaleLocal ==
  ASSUME EngineConstantsOK, TypeOK, InHand, Uncreated, RowMoves, NEW r \in Instances,
         NEW S \in SUBSET Steps, StaleSteps(r, S)
  PROVE  InstanceMoves(r)
<1>1. \A s \in S : SnapshotOf(s) \in Snapshot /\ SnapshotOf(s).id[1] <= lastRun
  <2>1. \A s \in S : s[1] <= lastRun
    BY InUseIsCreated DEF StaleSteps
  <2>2. \A s \in S : step[s] \in Step
    BY DEF TypeOK
  <2> QED BY <2>1, <2>2 DEF SnapshotOf, Snapshot, Step
<1>2. /\ stale' \in [Instances -> SUBSET Snapshot] /\ \A c \in stale'[r] : c.id[1] <= lastRun
      /\ \A q \in Instances \ {r} : stale'[q] = stale[q]
  BY <1>1 DEF StaleSteps, TypeOK
<1>3. UNCHANGED <<lastRun, loop, taken, starting, job, queue, verdict, toAudit>>
  BY DEF StaleSteps, rows
<1>4. phase'[r] \in {"touched", "reclaim"} /\ phase' \in [Instances -> Phases]
  BY DEF StaleSteps, TypeOK, Phases
<1>5. OnlyMoves(r)
  BY <1>2, <1>3 DEF OnlyMoves, TypeOK, StaleSteps
<1>6. LocalTypes'
  BY <1>2, <1>3, <1>4, TypeParts DEF LocalTypes
<1>7. Holds(r)'
  BY <1>2, <1>3, <1>4 DEF Holds, InHand
<1> QED BY <1>4, <1>5, <1>6, <1>7, OnlyOneHolds DEF InstanceMoves

LEMMA ReclaimLocal ==
  ASSUME EngineConstantsOK, TypeOK, InHand, RowMoves, NEW r \in Instances,
         NEW c \in stale[r], ReclaimStep(r, c)
  PROVE  InstanceMoves(r)
<1>1. c \in Snapshot /\ c.id[1] <= lastRun
  BY DEF TypeOK, InHand, Holds
<1>2. c.id[1] \in Runs
  BY <1>1, StepParts DEF Snapshot
<1>3. UNCHANGED <<lastRun, loop, taken, starting, job, verdict, toAudit>>
  BY DEF ReclaimStep
<1>4. /\ stale' \in [Instances -> SUBSET Snapshot] /\ stale'[r] \subseteq stale[r]
      /\ \A q \in Instances \ {r} : stale'[q] = stale[q]
  BY DEF ReclaimStep, TypeOK
<1>5. /\ queue' \in [Instances -> SUBSET Runs] /\ queue'[r] = queue[r] \cup {c.id[1]}
      /\ \A q \in Instances \ {r} : queue'[q] = queue[q]
  BY <1>2 DEF ReclaimStep, TypeOK
<1>6. phase'[r] \in {"touched", "reclaim"} /\ phase' \in [Instances -> Phases]
  BY DEF ReclaimStep, TypeOK, Phases
<1>7. OnlyMoves(r)
  BY <1>3, <1>4, <1>5 DEF OnlyMoves, TypeOK, ReclaimStep
<1>8. LocalTypes'
  BY <1>3, <1>4, <1>5, <1>6, TypeParts DEF LocalTypes
<1>9. Holds(r)'
  BY <1>1, <1>3, <1>4, <1>5, <1>6 DEF Holds, InHand
<1> QED BY <1>6, <1>7, <1>8, <1>9, OnlyOneHolds DEF InstanceMoves

LEMMA ReconcileLocal ==
  ASSUME EngineConstantsOK, TypeOK, InHand, Uncreated, RowMoves, NEW r \in Instances,
         NEW S \in SUBSET Runs, Reconcile(r, S)
  PROVE  InstanceMoves(r)
<1>1. \A x \in S : x <= lastRun
  BY InUseIsCreated DEF Reconcile, Orphaned
<1>2. /\ queue' \in [Instances -> SUBSET Runs] /\ queue'[r] = S
      /\ \A q \in Instances \ {r} : queue'[q] = queue[q]
  BY DEF Reconcile, TypeOK
<1>3. UNCHANGED <<lastRun, taken, starting, job, stale, verdict, toAudit>>
  BY DEF Reconcile, rows
<1>4. /\ phase'[r] = "reconcile" /\ phase' \in [Instances -> Phases]
      /\ loop' \in [Instances -> {"claim", "touched", "reconcile"}]
  BY DEF Reconcile, TypeOK, Phases
<1>5. OnlyMoves(r)
  BY <1>2, <1>3 DEF OnlyMoves, TypeOK, Reconcile
<1>6. LocalTypes'
  BY <1>2, <1>3, <1>4, TypeParts DEF LocalTypes
<1>7. Holds(r)'
  BY <1>1, <1>2, <1>3, <1>4 DEF Holds, InHand
<1> QED BY <1>4, <1>5, <1>6, <1>7, OnlyOneHolds DEF InstanceMoves

LEMMA EndSweepLocal ==
  ASSUME EngineConstantsOK, TypeOK, InHand, RowMoves, NEW r \in Instances, EndSweep(r)
  PROVE  InstanceMoves(r)
<1>1. PICK p \in {"idle", "audit"} : phase' = [phase EXCEPT ![r] = p]
  BY DEF EndSweep
<1>2. UNCHANGED <<lastRun, loop, taken, starting, job, stale, queue, verdict, toAudit>>
  BY DEF EndSweep, rows
<1>3. p \in Phases \ {"write"}
  BY DEF Phases
<1> QED BY <1>1, <1>2, <1>3, PhaseLocal

\* A pass that is cut short leaves nothing in hand.
LEMMA CrashLocal ==
  ASSUME EngineConstantsOK, TypeOK, InHand, RowMoves, NEW r \in Instances, Crash(r)
  PROVE  InstanceMoves(r)
<1>1. /\ phase'[r] = "idle" /\ phase' \in [Instances -> Phases]
      /\ stale'[r] = {} /\ queue'[r] = {}
  BY DEF Crash, TypeOK, Phases
<1>2. OnlyMoves(r)
  BY DEF Crash, TypeOK, OnlyMoves
<1>3. LocalTypes'
  <2>1. job' \in [Instances -> Snapshot \cup {NoJob}]
    BY DEF Crash, TypeOK
  <2>2. verdict' \in [Instances -> Verdict \cup {NoVerdict}]
    BY DEF Crash, TypeOK, Verdict
  <2>3. /\ starting' \in [Instances -> SUBSET Workflows] /\ stale' \in [Instances -> SUBSET Snapshot]
        /\ queue' \in [Instances -> SUBSET Runs] /\ toAudit' \in [Instances -> SUBSET Runs]
    BY DEF Crash, TypeOK
  <2> QED BY <1>1, <2>1, <2>2, <2>3, TypeParts DEF LocalTypes, Crash
<1>4. Holds(r)'
  BY <1>1 DEF Holds
<1> QED BY <1>1, <1>2, <1>3, <1>4, OnlyOneHolds DEF InstanceMoves

\* Either no instance takes a step, or one does.
LEMMA InstancesMove ==
  ASSUME EngineConstantsOK, TypeOK, InHand, Uncreated, RowMoves, [Next]_vars
  PROVE  UNCHANGED local \/ \E r \in Instances : InstanceMoves(r)
<1>1. CASE UNCHANGED vars
  BY <1>1 DEF vars, local
<1>2. CASE Operator
  BY <1>2 DEF Operator, InsertWorkflow, UpdateWorkflow, DeleteWorkflow, StartRun,
              CancelExecution, AuditCancel, RequestDies
<1>3. CASE Time
  BY <1>3 DEF Time, ScheduleComesDue, StepComesDue, LeaseExpires
<1>4. ASSUME NEW r \in Instances, BeginTick(r) \/ BeginSweep(r) \/ Crash(r)
      PROVE  InstanceMoves(r)
  BY <1>4, BeginTickLocal, ResolveLocal, CrashLocal DEF BeginTick, BeginSweep
<1>5. ASSUME NEW r \in Instances, Tick(r) PROVE InstanceMoves(r)
  BY <1>5, TickLocal, SettleLocal
<1>6. ASSUME NEW r \in Instances, Sweep(r) PROVE InstanceMoves(r)
  BY <1>6, StaleLocal, ReclaimLocal, SettleLocal, ReconcileLocal, EndSweepLocal DEF Sweep
<1>7. ASSUME NEW r \in Instances, WriteVerdict(r) PROVE InstanceMoves(r)
  BY <1>7, WriteLocal
<1>8. ASSUME NEW r \in Instances, NEW x \in toAudit[r], AuditSettlement(r, x)
      PROVE  InstanceMoves(r)
  BY <1>8, AuditLocal
<1> QED BY <1>1, <1>2, <1>3, <1>4, <1>5, <1>6, <1>7, <1>8 DEF Next, Continue

\* A verdict whose run is still running is not overtaken by any move: the run
\* has no open step, and only a row that is open is rewritten.
LEMMA VerdictKept ==
  ASSUME TypeOK, InHand, Uncreated, VerdictTrue, RowMoves, NEW q \in Instances,
         phase[q] = "write", NEW x \in Runs, verdict[q].run = x, run'[x].status = "running"
  PROVE  ~HasOpen(x)' /\ verdict[q].status = Outcome(x)'
<1>1. x <= lastRun
  BY DEF InHand, Holds, Verdict
<1>2. run[x].status = "running"
  <2>1. x # lastRun + 1
    BY <1>1 DEF TypeOK, Runs
  <2>2. \A v \in Instances : phase[v] = "write" => verdict[v].status # "running"
    BY DEF InHand, Holds, Verdict, Settled
  <2> QED BY <2>1, <2>2 DEF RowMoves, RunMoves
<1>3. ~HasOpen(x) /\ verdict[q].status = Outcome(x)
  BY <1>2 DEF VerdictTrue
<1>4. run'[x].status # "absent"
  OBVIOUS
<1>5. \A s \in Steps : s[1] = x => step'[s] = step[s]
  BY <1>1, <1>3, <1>4, ClosedUnmoved
<1>6. (HasOpen(x)' <=> HasOpen(x)) /\ Outcome(x)' = Outcome(x)
  BY <1>5, SameSteps
<1> QED BY <1>3, <1>6

LEMMA VerdictTrueStays ==
  ASSUME EngineConstantsOK, TypeOK, InHand, Uncreated, VerdictTrue, RowMoves,
         [Next]_vars, InHand'
  PROVE  VerdictTrue'
<1>1. SUFFICES ASSUME NEW q \in Instances, phase'[q] = "write",
                      NEW x \in Runs, verdict'[q].run = x, run'[x].status = "running"
      PROVE  ~HasOpen(x)' /\ verdict'[q].status = Outcome(x)'
  <2>1. \A q \in Instances : phase'[q] = "write" => verdict'[q].run \in Runs
    BY DEF InHand, Holds, Verdict
  <2> QED BY <2>1 DEF VerdictTrue, HasOpen, Outcome, Has, StepsOf, Open
<1>2. CASE phase[q] = "write" /\ verdict'[q] = verdict[q]
  BY <1>1, <1>2, VerdictKept
<1>3. CASE Counts(q)
  <2>1. ~HasOpen(x) /\ verdict'[q].status = Outcome(x) /\ step' = step
    BY <1>1, <1>3 DEF Counts, rows
  <2>2. (HasOpen(x)' <=> HasOpen(x)) /\ Outcome(x)' = Outcome(x)
    BY <2>1, SameSteps
  <2> QED BY <2>1, <2>2
<1>4. (phase[q] = "write" /\ verdict'[q] = verdict[q]) \/ Counts(q)
  <2>1. CASE UNCHANGED local
    BY <1>1, <2>1 DEF local
  <2>2. ASSUME NEW r \in Instances, InstanceMoves(r)
        PROVE  (phase[q] = "write" /\ verdict'[q] = verdict[q]) \/ Counts(q)
    BY <1>1, <2>2 DEF InstanceMoves, OnlyMoves
  <2> QED BY <2>1, <2>2, InstancesMove
<1> QED BY <1>2, <1>3, <1>4

-----------------------------------------------------------------------------
(* The definitions *)

\* One definition is written, or the due times of several are moved.
LEMMA DefinitionWrite ==
  ASSUME TypeOK, NEW old \in Workflow, NEW d \in BOOLEAN, NEW g \in {"live", "gone"}
  PROVE  /\ [old EXCEPT !.due = d] \in Workflow
         /\ [old EXCEPT !.state = g, !.due = d] \in Workflow
BY DEF Workflow

LEMMA DefinitionsStayTyped ==
  ASSUME EngineConstantsOK, TypeOK, [Next]_vars
  PROVE  DefinitionTypes'
<1>0. DefinitionTypes /\ TRUE \in BOOLEAN /\ FALSE \in BOOLEAN
  BY TypeParts
<1>1. ASSUME UNCHANGED defs PROVE DefinitionTypes'
  BY <1>0, <1>1 DEF DefinitionTypes, defs
<1>2. ASSUME NEW w \in Workflows, NEW trigger \in Triggers, NEW plan \in Plans,
             NEW on \in BOOLEAN,
             InsertWorkflow(w, trigger, plan) \/ UpdateWorkflow(w, trigger, on, plan)
      PROVE  DefinitionTypes'
  <2>1. \A b \in BOOLEAN : [state |-> "live", trigger |-> trigger, enabled |-> b,
                            due |-> FALSE, plan |-> plan] \in Workflow
    BY DEF Workflow, EngineConstantsOK
  <2>2. workflow' \in [Workflows -> Workflow]
    BY <1>0, <1>2, <2>1 DEF DefinitionTypes, InsertWorkflow, UpdateWorkflow
  <2>3. owed' \in [Workflows -> Int]
    BY <1>0, <1>2 DEF DefinitionTypes, InsertWorkflow, UpdateWorkflow
  <2> QED BY <2>2, <2>3 DEF DefinitionTypes
<1>3. ASSUME NEW w \in Workflows, DeleteWorkflow(w) PROVE DefinitionTypes'
  <2>1. [workflow[w] EXCEPT !.state = "gone", !.due = FALSE] \in Workflow
    BY <1>0, DefinitionWrite DEF DefinitionTypes
  <2>2. workflow' \in [Workflows -> Workflow]
    BY <1>0, <1>3, <2>1 DEF DefinitionTypes, DeleteWorkflow
  <2>3. owed' \in [Workflows -> Int]
    BY <1>0, <1>3 DEF DefinitionTypes, DeleteWorkflow
  <2> QED BY <2>2, <2>3 DEF DefinitionTypes
<1>4. ASSUME NEW w \in Workflows, ScheduleComesDue(w) PROVE DefinitionTypes'
  <2>1. [workflow[w] EXCEPT !.due = TRUE] \in Workflow
    BY <1>0, DefinitionWrite DEF DefinitionTypes
  <2>2. workflow' \in [Workflows -> Workflow]
    BY <1>0, <1>4, <2>1 DEF DefinitionTypes, ScheduleComesDue
  <2>3. owed' \in [Workflows -> Int]
    BY <1>0, <1>4 DEF DefinitionTypes, ScheduleComesDue
  <2> QED BY <2>2, <2>3 DEF DefinitionTypes
<1>5. ASSUME NEW r \in Instances, NEW S \in SUBSET Workflows, ClaimDueSchedules(r, S)
      PROVE  DefinitionTypes'
  <2>1. \A w \in Workflows : [workflow[w] EXCEPT !.due = FALSE] \in Workflow
    BY <1>0, DefinitionWrite DEF DefinitionTypes
  <2>2. workflow' \in [Workflows -> Workflow]
    BY <1>0, <1>5, <2>1 DEF DefinitionTypes, ClaimDueSchedules, AdvanceDueTimes
  <2> QED BY <1>0, <1>5, <2>2 DEF DefinitionTypes, ClaimDueSchedules
<1>6. ASSUME NEW r \in Instances, NEW w \in Workflows, StartScheduled(r, w)
      PROVE  DefinitionTypes'
  BY <1>0, <1>6 DEF DefinitionTypes, StartScheduled
<1>7. CASE UNCHANGED vars
  BY <1>1, <1>7 DEF vars, defs
<1>8. CASE Operator
  BY <1>0, <1>1, <1>2, <1>3, <1>8
     DEF Operator, StartRun, CancelExecution, AuditCancel, RequestDies
<1>9. CASE Time
  BY <1>1, <1>4, <1>9 DEF Time, StepComesDue, LeaseExpires
<1>10. ASSUME NEW r \in Instances, BeginTick(r) \/ BeginSweep(r) \/ Crash(r)
       PROVE  DefinitionTypes'
  BY <1>1, <1>5, <1>10 DEF BeginTick, BeginSweep, ResolveDueWaits, Crash
<1>11. ASSUME NEW r \in Instances, Tick(r) PROVE DefinitionTypes'
  BY <1>1, <1>6, <1>11 DEF Tick, ClaimDueStep, ClaimRefused, EndTick, ParkWait, StepSucceeds,
     StepRetries, StepFails, ReadExecution, CloseStep, SettleAfterStep, CountSteps, Acted
<1>12. ASSUME NEW r \in Instances, Sweep(r) PROVE DefinitionTypes'
  BY <1>1, <1>12 DEF Sweep, StaleSteps, ReclaimStep, SettleQueued, CountSteps, Reconcile, EndSweep
<1>13. ASSUME NEW r \in Instances, WriteVerdict(r) \/ \E x \in toAudit[r] : AuditSettlement(r, x)
       PROVE  DefinitionTypes'
  BY <1>1, <1>13 DEF WriteVerdict, AuditSettlement
<1> QED BY <1>7, <1>8, <1>9, <1>10, <1>11, <1>12, <1>13 DEF Next, Continue

-----------------------------------------------------------------------------
(* The audit *)

\* No new row of audit_log, and nobody new about to write one.
LEMMA TokensShrink ==
  ASSUME EngineConstantsOK, TypeOK, InHand, AuditTokens, RowMoves, audits' = audits,
         cancelling' \subseteq cancelling, \A r \in Instances : toAudit'[r] \subseteq toAudit[r],
         crashes' \in Nat
  PROVE  LedgerTypes' /\ AuditTokens'
<1>1. LedgerTypes'
  BY DEF TypeOK, LedgerTypes
<1>2. ASSUME NEW x \in Runs, run'[x].status = "running" \/ x > lastRun'
      PROVE  run[x].status = "running" \/ x > lastRun
  <2>1. x \in Nat /\ lastRun \in Nat /\ lastRun' \in Nat /\ lastRun <= lastRun'
    BY LastRunGrows DEF Runs
  <2>2. CASE x > lastRun'
    BY <2>1, <2>2
  <2>3. CASE run'[x].status = "running"
    BY <2>1, <2>3 DEF RowMoves, RunMoves
  <2> QED BY <1>2, <2>2, <2>3
<1>3. AuditTokens'
  BY <1>2 DEF AuditTokens
<1> QED BY <1>1, <1>3

\* The request that cancels a run is the one to audit it.
LEMMA CancelTokens ==
  ASSUME EngineConstantsOK, TypeOK, AuditTokens, Uncreated, NEW y \in Runs, CancelExecution(y)
  PROVE  LedgerTypes' /\ AuditTokens'
<1>1. /\ run[y].status = "running" /\ cancelling' = cancelling \cup {y}
      /\ UNCHANGED <<lastRun, toAudit, audits, crashes>>
  BY DEF CancelExecution, local
<1>2. y <= lastRun
  BY <1>1, InUseIsCreated
<1>3. run'[y].status = "cancelled" /\ \A x \in Runs : x # y => run'[x] = run[x]
  BY DEF CancelExecution, TypeOK, Run
<1>4. LedgerTypes'
  BY <1>1 DEF TypeOK, LedgerTypes
<1>5. ~(y > lastRun)
  BY <1>2 DEF TypeOK, Runs
<1>6. AuditTokens'
  BY <1>1, <1>3, <1>5 DEF AuditTokens
<1> QED BY <1>4, <1>6

LEMMA AuditCancelTokens ==
  ASSUME EngineConstantsOK, TypeOK, AuditTokens, NEW y \in Runs, AuditCancel(y)
  PROVE  LedgerTypes' /\ AuditTokens'
<1>1. /\ y \in cancelling /\ cancelling' = cancelling \ {y}
      /\ audits' = [audits EXCEPT ![y] = audits[y] + 1]
      /\ UNCHANGED <<lastRun, run, toAudit, crashes>>
  BY DEF AuditCancel, local, rows
<1>2. audits[y] = 0
  BY <1>1 DEF AuditTokens
<1>3. audits'[y] = 1 /\ \A x \in Runs : x # y => audits'[x] = audits[x]
  BY <1>1, <1>2 DEF TypeOK
<1>4. LedgerTypes'
  BY <1>1 DEF TypeOK, LedgerTypes
<1>5. AuditTokens'
  BY <1>1, <1>3 DEF AuditTokens
<1> QED BY <1>4, <1>5

\* The call that changes the row is the one to audit it.
LEMMA WriteTokens ==
  ASSUME EngineConstantsOK, TypeOK, InHand, Uncreated, AuditTokens, RowMoves,
         NEW r \in Instances, WriteVerdict(r)
  PROVE  LedgerTypes' /\ AuditTokens'
<1>0. UNCHANGED <<lastRun, cancelling, audits, crashes>>
  BY DEF WriteVerdict, record
<1>1. PICK y \in Runs : verdict[r].run = y /\ y <= lastRun
  BY DEF WriteVerdict, InHand, Holds, Verdict
<1>2. verdict[r].status \in Settled
  BY DEF WriteVerdict, InHand, Holds, Verdict
<1>3. CASE run[y].status = "running"
  <2>1. run' = [run EXCEPT ![y] = [run[y] EXCEPT !.status = verdict[r].status]]
    BY <1>1, <1>3 DEF WriteVerdict, StillRunning
  <2>2. run'[y].status # "running" /\ \A x \in Runs : x # y => run'[x] = run[x]
    BY <1>2, <2>1 DEF TypeOK, Run, Settled
  <2>3. toAudit' = [toAudit EXCEPT ![r] = toAudit[r] \cup {y}]
    BY <1>1, <1>3 DEF WriteVerdict, StillRunning
  <2>4. toAudit'[r] = toAudit[r] \cup {y} /\ \A q \in Instances : q # r => toAudit'[q] = toAudit[q]
    BY <2>3 DEF TypeOK
  <2>5. ~(y > lastRun)
    BY <1>1 DEF TypeOK, Runs
  <2>6. AuditTokens'
    BY <1>0, <1>3, <2>2, <2>4, <2>5 DEF AuditTokens
  <2> QED BY <1>0, <2>6 DEF TypeOK, LedgerTypes
<1>4. CASE run[y].status # "running"
  <2>1. \A q \in Instances : toAudit'[q] \subseteq toAudit[q]
    BY <1>1, <1>4 DEF WriteVerdict, StillRunning, TypeOK
  <2>2. crashes' \in Nat
    BY <1>0 DEF TypeOK
  <2> QED BY <1>0, <2>1, <2>2, TokensShrink
<1> QED BY <1>3, <1>4

LEMMA AuditSettlementTokens ==
  ASSUME EngineConstantsOK, TypeOK, AuditTokens, NEW r \in Instances,
         NEW y \in toAudit[r], AuditSettlement(r, y)
  PROVE  LedgerTypes' /\ AuditTokens'
<1>1. y \in Runs
  BY DEF TypeOK
<1>2. UNCHANGED <<lastRun, run, cancelling, crashes>>
  BY DEF AuditSettlement, rows
<1>3. audits[y] = 0
  BY <1>1 DEF AuditTokens
<1>4. /\ audits'[y] \in {0, 1} /\ audits' \in [Runs -> Nat]
      /\ \A x \in Runs : x # y => audits'[x] = audits[x]
  BY <1>1, <1>3 DEF AuditSettlement, TypeOK
<1>5. toAudit'[r] = toAudit[r] \ {y} /\ \A q \in Instances : q # r => toAudit'[q] = toAudit[q]
  BY DEF AuditSettlement, TypeOK
<1>6. LedgerTypes'
  BY <1>2, <1>4 DEF TypeOK, LedgerTypes
<1>7. AuditTokens'
  BY <1>1, <1>2, <1>4, <1>5 DEF AuditTokens
<1> QED BY <1>6, <1>7

LEMMA AuditsStayTrue ==
  ASSUME EngineConstantsOK, TypeOK, InHand, Uncreated, AuditTokens, RowMoves, [Next]_vars
  PROVE  LedgerTypes' /\ AuditTokens'
<1>0. crashes \in Nat /\ crashes + 1 \in Nat
  BY DEF TypeOK
<1>1. ASSUME UNCHANGED <<record, toAudit, crashes>> PROVE LedgerTypes' /\ AuditTokens'
  BY <1>0, <1>1, TokensShrink DEF record
<1>2. CASE UNCHANGED vars
  BY <1>1, <1>2 DEF vars, record
<1>3. CASE Operator
  <2>1. ASSUME NEW x \in Runs, RequestDies(x) PROVE LedgerTypes' /\ AuditTokens'
    <3>1. /\ audits' = audits /\ cancelling' \subseteq cancelling /\ toAudit' = toAudit
          /\ crashes' \in Nat
      BY <1>0, <2>1 DEF RequestDies, local
    <3> QED BY <3>1, TokensShrink
  <2> QED BY <1>1, <1>3, <2>1, CancelTokens, AuditCancelTokens
       DEF Operator, InsertWorkflow, UpdateWorkflow, DeleteWorkflow, StartRun, local
<1>4. CASE Time
  BY <1>1, <1>4 DEF Time, ScheduleComesDue, StepComesDue, LeaseExpires, local
<1>5. ASSUME NEW r \in Instances, Crash(r) PROVE LedgerTypes' /\ AuditTokens'
  <2>1. /\ audits' = audits /\ cancelling' = cancelling /\ crashes' \in Nat
        /\ \A q \in Instances : toAudit'[q] \subseteq toAudit[q]
    BY <1>0, <1>5 DEF Crash, record, TypeOK
  <2> QED BY <2>1, TokensShrink
<1>6. ASSUME NEW r \in Instances, BeginTick(r) \/ BeginSweep(r) PROVE LedgerTypes' /\ AuditTokens'
  BY <1>1, <1>6 DEF BeginTick, BeginSweep, ClaimDueSchedules, ResolveDueWaits
<1>7. ASSUME NEW r \in Instances, Tick(r) PROVE LedgerTypes' /\ AuditTokens'
  BY <1>1, <1>7 DEF Tick, StartScheduled, ClaimDueStep, ClaimRefused, EndTick, ParkWait,
     StepSucceeds, StepRetries, StepFails, ReadExecution, CloseStep, SettleAfterStep,
     CountSteps, Acted
<1>8. ASSUME NEW r \in Instances, Sweep(r) PROVE LedgerTypes' /\ AuditTokens'
  BY <1>1, <1>8 DEF Sweep, StaleSteps, ReclaimStep, SettleQueued, CountSteps, Reconcile, EndSweep
<1>9. ASSUME NEW r \in Instances, WriteVerdict(r) PROVE LedgerTypes' /\ AuditTokens'
  BY <1>9, WriteTokens
<1>10. ASSUME NEW r \in Instances, NEW x \in toAudit[r], AuditSettlement(r, x)
       PROVE  LedgerTypes' /\ AuditTokens'
  BY <1>10, AuditSettlementTokens
<1> QED BY <1>2, <1>3, <1>4, <1>5, <1>6, <1>7, <1>8, <1>9, <1>10 DEF Next, Continue

-----------------------------------------------------------------------------
(* The invariant is inductive *)

LEMMA InitEngineInv ==
  ASSUME EngineConstantsOK, Init
  PROVE  EngineInv
<1>1. PICK w \in Workflows : w = CHOOSE v \in Workflows : TRUE
  BY DEF EngineConstantsOK
<1>2. PICK p \in Plans : p = CHOOSE v \in Plans : TRUE
  BY DEF EngineConstantsOK
<1>3. DefinitionTypes
  <2>1. [state |-> "absent", trigger |-> "manual", enabled |-> FALSE, due |-> FALSE,
         plan |-> p] \in Workflow
    BY DEF Workflow
  <2>2. workflow \in [Workflows -> Workflow]
    BY <1>2, <2>1 DEF Init
  <2> QED BY <2>2 DEF Init, DefinitionTypes
<1>4. TableTypes
  <2>1. [status |-> "absent", workflow |-> w] \in Run
    BY DEF Run
  <2>2. run \in [Runs -> Run]
    BY <1>1, <2>1 DEF Init
  <2>3. NoStep \in Step /\ NoStep.attempts <= AttemptsAllowed(NoStep)
    BY DEF NoStep, Step, Kinds, AttemptsAllowed
  <2>4. lastRun \in 0 .. MaxRuns
    BY DEF Init, EngineConstantsOK
  <2> QED BY <2>2, <2>3, <2>4 DEF Init, TableTypes
<1>5. LocalTypes
  BY DEF Init, LocalTypes, Phases
<1>6. LedgerTypes
  BY DEF Init, LedgerTypes
<1>7. TypeOK
  BY <1>3, <1>4, <1>5, <1>6, TypeParts
<1>8. /\ \A x \in Runs : run[x].status = "absent"
      /\ \A s \in Steps : step[s] = NoStep
  BY DEF Init
<1>9. InHand /\ VerdictTrue
  BY DEF Init, InHand, Holds, VerdictTrue
<1>10. Uncreated /\ AbsentIsBlank /\ SettledTruth
  BY <1>8 DEF Uncreated, AbsentIsBlank, SettledTruth
<1>11. AuditTokens
  BY DEF Init, AuditTokens
<1>12. InOrder
  BY <1>8 DEF InOrder, NoStep
<1> QED BY <1>7, <1>9, <1>10, <1>11, <1>12 DEF EngineInv

LEMMA NextEngineInv ==
  ASSUME EngineConstantsOK, EngineInv, [Next]_vars
  PROVE  EngineInv'
<1>1. TypeOK /\ InHand /\ Uncreated /\ AbsentIsBlank /\ VerdictTrue /\ AuditTokens
      /\ SettledTruth /\ InOrder
  BY DEF EngineInv
<1>2. RowMoves
  BY <1>1, NextMoves
<1>3. LocalTypes' /\ InHand'
  BY <1>1, <1>2, InstancesMove, LocalUnchanged DEF InstanceMoves
<1>4. LedgerTypes' /\ AuditTokens'
  BY <1>1, <1>2, AuditsStayTrue
<1>5. TableTypes' /\ DefinitionTypes'
  BY <1>1, <1>2, TablesStayTyped, DefinitionsStayTyped
<1>6. TypeOK'
  BY <1>3, <1>4, <1>5, TypeParts
<1>7. Uncreated' /\ AbsentIsBlank'
  BY <1>1, <1>2, BlankStaysBlank
<1>8. VerdictTrue'
  BY <1>1, <1>2, <1>3, VerdictTrueStays
<1>9. SettledTruth' /\ InOrder'
  BY <1>1, <1>2, SettledTruthStays, InOrderStays
<1> QED BY <1>3, <1>4, <1>6, <1>7, <1>8, <1>9 DEF EngineInv

\* In every behaviour of the engine, with any number of instances, runs,
\* crashes and slow actions, EngineInv holds.
THEOREM EngineInvariant == Spec => []EngineInv
<1>1. EngineConstantsOK
  BY EngineConstantsOK
<1>2. Init => EngineInv
  BY <1>1, InitEngineInv
<1>3. EngineInv /\ [Next]_vars => EngineInv'
  BY <1>1, NextEngineInv
<1> QED BY <1>2, <1>3, PTL DEF Spec

-----------------------------------------------------------------------------
(* The theorems *)

\* Every table and every local of the tick and the sweep keeps its type, and no
\* step row breaks the check constraint on its attempts.
THEOREM EngineTypeCorrect == Spec => []TypeOK
<1>1. EngineInv => TypeOK
  BY DEF EngineInv
<1> QED BY <1>1, EngineInvariant, PTL

\* `completed` and `failed` are the truth about the steps of a run, although
\* settle_execution counts the steps in one statement and writes the run in
\* another, with everybody else writing in between.
THEOREM SettledRunsTellTheTruth == Spec => []SettledTruth
<1>1. EngineInv => SettledTruth
  BY DEF EngineInv
<1> QED BY <1>1, EngineInvariant, PTL

\* The claim of claim_due_step, and the guards of every other write, keep the
\* steps of a run in order.
THEOREM StepsRunInOrder == Spec => []InOrder
<1>1. EngineInv => InOrder
  BY DEF EngineInv
<1> QED BY <1>1, EngineInvariant, PTL

\* record_settlement and the cancelling request between them write at most one
\* audit row for a run.
THEOREM SettlementsAuditedOnce == Spec => []AuditedOnce
<1>1. EngineInv => AuditedOnce
  BY DEF EngineInv, AuditTokens, AuditedOnce
<1> QED BY <1>1, EngineInvariant, PTL

\* No write of a runner, a sweeper or a request reopens a closed step or a
\* settled run.
THEOREM FinalIsFinal == Spec => FinalStaysFinal
<1> DEFINE Kept ==
      /\ \A s \in Steps : step[s].status \in FinalStatus
                            => step'[s].status \in {step[s].status, "absent"}
      /\ \A x \in Runs : run[x].status \in Settled
                            => run'[x].status \in {run[x].status, "absent"}
<1>1. EngineInv /\ [Next]_vars => [Kept]_vars
  <2>1. SUFFICES ASSUME EngineInv, [Next]_vars PROVE Kept
    OBVIOUS
  <2>2. TypeOK /\ InHand /\ Uncreated
    BY <2>1 DEF EngineInv
  <2>3. RowMoves
    BY <2>1, <2>2, NextMoves, EngineConstantsOK
  <2>4. NoStep.status = "absent"
    BY DEF NoStep
  <2> QED BY <2>2, <2>3, <2>4, FinalUnmoved
<1>2. Spec => [][Kept]_vars
  BY <1>1, EngineInvariant, PTL DEF Spec
<1> QED BY <1>2 DEF FinalStaysFinal

-----------------------------------------------------------------------------
(* The due times of a schedule *)

\* Instances that have claimed a due time of w and not started its run.
Starters(w) == {r \in Instances : w \in starting[r]}

Unclaimed(w) == IF workflow[w].due THEN 1 ELSE 0

\* What DueTimesAccounted says of one schedule.
Accounted(w) ==
  /\ IsFiniteSet(Starters(w))
  /\ Cardinality(Starters(w)) + Unclaimed(w) <= owed[w]
  /\ owed[w] <= Cardinality(Starters(w)) + Unclaimed(w) + crashes

\* Claimed schedules are started before anything else in the tick, and a
\* workflow that is not written yet has no due time.
StartInv ==
  /\ \A r \in Instances : starting[r] # {} => phase[r] = "start"
  /\ \A w \in Workflows : workflow[w].state = "absent" => ~workflow[w].due

DueInv == StartInv /\ \A w \in Workflows : Accounted(w)

\* What a step does to the due times of a schedule.
LeavesDueTimes(w) ==
  /\ Starters(w)' = Starters(w) /\ workflow'[w].due = workflow[w].due
  /\ owed'[w] = owed[w] /\ (crashes' = crashes \/ crashes' = crashes + 1)

WithdrawsDueTime(w) ==
  /\ Starters(w)' = Starters(w) /\ ~workflow'[w].due /\ crashes' = crashes
  /\ owed'[w] = IF workflow[w].due THEN owed[w] - 1 ELSE owed[w]

AddsDueTime(w) ==
  /\ Starters(w)' = Starters(w) /\ ~workflow[w].due /\ workflow'[w].due
  /\ crashes' = crashes /\ owed'[w] = owed[w] + 1

ClaimsDueTime(w, r) ==
  /\ r \notin Starters(w) /\ Starters(w)' = Starters(w) \cup {r}
  /\ workflow[w].due /\ ~workflow'[w].due
  /\ crashes' = crashes /\ owed'[w] = owed[w]

\* The run is created, or the instance dies and the due time is lost.
DropsDueTime(w, r) ==
  /\ r \in Starters(w) /\ Starters(w)' = Starters(w) \ {r}
  /\ workflow'[w].due = workflow[w].due
  /\ \/ crashes' = crashes /\ owed'[w] = owed[w] - 1
     \/ crashes' = crashes + 1 /\ owed'[w] = owed[w]

LEMMA MovesAccounted ==
  ASSUME TypeOK, NEW w \in Workflows, Accounted(w),
         \/ LeavesDueTimes(w) \/ WithdrawsDueTime(w) \/ AddsDueTime(w)
         \/ \E r \in Instances : ClaimsDueTime(w, r) \/ DropsDueTime(w, r)
  PROVE  Accounted(w)'
<1>1. /\ IsFiniteSet(Starters(w)) /\ Cardinality(Starters(w)) \in Nat
      /\ owed[w] \in Int /\ crashes \in Nat
  BY FS_CardinalityType DEF Accounted, TypeOK
<1>2. CASE LeavesDueTimes(w) \/ WithdrawsDueTime(w) \/ AddsDueTime(w)
  BY <1>1, <1>2 DEF Accounted, Unclaimed, LeavesDueTimes, WithdrawsDueTime, AddsDueTime
<1>3. ASSUME NEW r \in Instances, ClaimsDueTime(w, r) PROVE Accounted(w)'
  <2>1. /\ IsFiniteSet(Starters(w)')
        /\ Cardinality(Starters(w)') = Cardinality(Starters(w)) + 1
    BY <1>1, <1>3, FS_AddElement DEF ClaimsDueTime
  <2> QED BY <1>1, <1>3, <2>1 DEF Accounted, Unclaimed, ClaimsDueTime
<1>4. ASSUME NEW r \in Instances, DropsDueTime(w, r) PROVE Accounted(w)'
  <2>1. /\ IsFiniteSet(Starters(w)')
        /\ Cardinality(Starters(w)') = Cardinality(Starters(w)) - 1
    BY <1>1, <1>4, FS_RemoveElement DEF DropsDueTime
  <2>2. Unclaimed(w)' = Unclaimed(w) /\ Unclaimed(w) \in {0, 1}
    BY <1>4 DEF Unclaimed, DropsDueTime
  <2> QED BY <1>1, <1>4, <2>1, <2>2 DEF Accounted, DropsDueTime
<1> QED BY <1>2, <1>3, <1>4

\* Steps that concern no definition and no schedule claimed.
DueUntouched ==
  /\ workflow' = workflow /\ owed' = owed /\ starting' = starting
  /\ crashes' = crashes \/ crashes' = crashes + 1
  /\ \A r \in Instances : starting[r] # {} => phase'[r] = phase[r]

LEMMA DueQuiet ==
  ASSUME TypeOK, DueInv, DueUntouched
  PROVE  DueInv'
<1>1. StartInv'
  BY DEF DueInv, StartInv, DueUntouched
<1>2. \A w \in Workflows : LeavesDueTimes(w)
  BY DEF LeavesDueTimes, Starters, DueUntouched
<1> QED BY <1>1, <1>2, MovesAccounted DEF DueInv

\* A step of a pass that is past its schedules.
LEMMA PastSchedules ==
  ASSUME TypeOK, DueInv, NEW r \in Instances, phase[r] # "start",
         workflow' = workflow, owed' = owed, starting' = starting, crashes' = crashes,
         \A q \in Instances \ {r} : phase'[q] = phase[q]
  PROVE  DueInv'
<1>1. DueUntouched
  BY DEF DueInv, StartInv, DueUntouched
<1> QED BY <1>1, DueQuiet

LEMMA DefinitionsDue ==
  ASSUME TypeOK, DueInv, NEW w \in Workflows,
         UNCHANGED <<local, crashes>>,
         workflow' = [workflow EXCEPT ![w] = workflow'[w]],
         owed' = [owed EXCEPT ![w] = owed'[w]],
         workflow'[w].state # "absent",
         \/ ~workflow'[w].due /\ owed'[w] = IF workflow[w].due THEN owed[w] - 1 ELSE owed[w]
         \/ ~workflow[w].due /\ workflow'[w].due /\ owed'[w] = owed[w] + 1
  PROVE  DueInv'
<1>1. \A v \in Workflows : Starters(v)' = Starters(v)
  BY DEF Starters, local
<1>2. \A v \in Workflows \ {w} : workflow'[v] = workflow[v] /\ owed'[v] = owed[v]
  BY DEF TypeOK
<1>3. StartInv'
  BY <1>2 DEF DueInv, StartInv, local
<1>4. \A v \in Workflows \ {w} : LeavesDueTimes(v)
  BY <1>1, <1>2 DEF LeavesDueTimes
<1>5. WithdrawsDueTime(w) \/ AddsDueTime(w)
  BY <1>1 DEF WithdrawsDueTime, AddsDueTime
<1> QED BY <1>3, <1>4, <1>5, MovesAccounted DEF DueInv

LEMMA ClaimSchedulesDue ==
  ASSUME TypeOK, DueInv, NEW r \in Instances, NEW S \in SUBSET Workflows, ClaimDueSchedules(r, S)
  PROVE  DueInv'
<1>1. starting[r] = {} /\ \A q \in Instances \ {r} : starting'[q] = starting[q] /\ phase'[q] = phase[q]
  BY DEF ClaimDueSchedules, TypeOK, DueInv, StartInv
<1>2. starting'[r] = S /\ (S # {} => phase'[r] = "start") /\ owed' = owed /\ crashes' = crashes
  BY DEF ClaimDueSchedules, TypeOK
<1>3. ASSUME NEW w \in Workflows
      PROVE  /\ w \in S => workflow[w].due /\ ~workflow'[w].due
             /\ w \notin S => workflow'[w] = workflow[w]
             /\ workflow'[w].state = workflow[w].state
  <2>1. workflow[w] \in Workflow
    BY DEF TypeOK
  <2>2. workflow'[w] = IF w \in S THEN [workflow[w] EXCEPT !.due = FALSE] ELSE workflow[w]
    BY DEF ClaimDueSchedules, AdvanceDueTimes
  <2>3. w \in S => workflow[w].due
    BY DEF ClaimDueSchedules, DueSchedules
  <2> QED BY <2>1, <2>2, <2>3 DEF Workflow
<1>4. StartInv'
  BY <1>1, <1>2, <1>3 DEF DueInv, StartInv
<1>5. ASSUME NEW w \in Workflows PROVE LeavesDueTimes(w) \/ ClaimsDueTime(w, r)
  <2>1. r \notin Starters(w) /\ \A q \in Instances \ {r} : q \in Starters(w)' <=> q \in Starters(w)
    BY <1>1 DEF Starters
  <2>2. r \in Starters(w)' <=> w \in S
    BY <1>2 DEF Starters
  <2>3. CASE w \in S
    <3>1. Starters(w)' = Starters(w) \cup {r}
      BY <2>1, <2>2, <2>3 DEF Starters
    <3> QED BY <1>2, <1>3, <2>1, <2>3, <3>1 DEF ClaimsDueTime
  <2>4. CASE w \notin S
    <3>1. Starters(w)' = Starters(w)
      BY <2>1, <2>2, <2>4 DEF Starters
    <3> QED BY <1>2, <1>3, <2>4, <3>1 DEF LeavesDueTimes
  <2> QED BY <2>3, <2>4
<1> QED BY <1>4, <1>5, MovesAccounted DEF DueInv

LEMMA StartScheduledDue ==
  ASSUME TypeOK, DueInv, NEW r \in Instances, NEW w \in Workflows, StartScheduled(r, w)
  PROVE  DueInv'
<1>1. /\ \A q \in Instances \ {r} : starting'[q] = starting[q] /\ phase'[q] = phase[q]
      /\ workflow' = workflow /\ crashes' = crashes /\ owed'[w] = owed[w] - 1
      /\ \A v \in Workflows \ {w} : owed'[v] = owed[v]
      /\ w \in starting[r] /\ starting'[r] = starting[r] \ {w}
      /\ starting[r] # {w} => phase'[r] = "start"
  BY DEF StartScheduled, TypeOK
<1>2. StartInv'
  BY <1>1 DEF DueInv, StartInv
<1>3. DropsDueTime(w, r)
  <2>1. r \in Starters(w) /\ Starters(w)' = Starters(w) \ {r}
    BY <1>1 DEF Starters
  <2> QED BY <1>1, <2>1 DEF DropsDueTime
<1>4. ASSUME NEW v \in Workflows \ {w} PROVE LeavesDueTimes(v)
  <2>1. Starters(v)' = Starters(v)
    BY <1>1 DEF Starters
  <2> QED BY <1>1, <2>1 DEF LeavesDueTimes
<1> QED BY <1>2, <1>3, <1>4, MovesAccounted DEF DueInv

LEMMA CrashDue ==
  ASSUME TypeOK, DueInv, NEW r \in Instances, Crash(r)
  PROVE  DueInv'
<1>1. /\ \A q \in Instances \ {r} : starting'[q] = starting[q] /\ phase'[q] = phase[q]
      /\ workflow' = workflow /\ owed' = owed /\ crashes' = crashes + 1 /\ starting'[r] = {}
  BY DEF Crash, TypeOK, defs
<1>2. StartInv'
  BY <1>1 DEF DueInv, StartInv
<1>3. ASSUME NEW w \in Workflows PROVE LeavesDueTimes(w) \/ DropsDueTime(w, r)
  <2>1. Starters(w)' = Starters(w) \ {r}
    BY <1>1 DEF Starters
  <2> QED BY <1>1, <2>1 DEF LeavesDueTimes, DropsDueTime
<1> QED BY <1>2, <1>3, MovesAccounted DEF DueInv

LEMMA OperatorDue ==
  ASSUME TypeOK, DueInv, Operator \/ Time \/ UNCHANGED vars
  PROVE  DueInv'
<1> USE DEF local, defs
<1>0. \A w \in Workflows : workflow[w] \in Workflow
  BY DEF TypeOK
<1>1. ASSUME NEW w \in Workflows, NEW trigger, NEW plan, InsertWorkflow(w, trigger, plan)
      PROVE  DueInv'
  <2>1. ~workflow[w].due
    BY <1>1 DEF DueInv, StartInv, InsertWorkflow
  <2>2. /\ workflow'[w].state = "live" /\ ~workflow'[w].due /\ owed'[w] = owed[w]
        /\ workflow' = [workflow EXCEPT ![w] = workflow'[w]]
        /\ owed' = [owed EXCEPT ![w] = owed'[w]] /\ UNCHANGED <<local, crashes>>
    BY <1>1 DEF InsertWorkflow, TypeOK
  <2> QED BY <2>1, <2>2, DefinitionsDue
<1>2. ASSUME NEW w \in Workflows, NEW trigger, NEW plan, NEW on, UpdateWorkflow(w, trigger, on, plan)
      PROVE  DueInv'
  <2>1. /\ workflow'[w].state = "live" /\ ~workflow'[w].due
        /\ owed'[w] = IF workflow[w].due THEN owed[w] - 1 ELSE owed[w]
        /\ workflow' = [workflow EXCEPT ![w] = workflow'[w]]
        /\ owed' = [owed EXCEPT ![w] = owed'[w]] /\ UNCHANGED <<local, crashes>>
    BY <1>2 DEF UpdateWorkflow, TypeOK
  <2> QED BY <2>1, DefinitionsDue
<1>3. ASSUME NEW w \in Workflows, DeleteWorkflow(w) PROVE DueInv'
  <2>1. [workflow[w] EXCEPT !.state = "gone", !.due = FALSE].state = "gone"
        /\ ~[workflow[w] EXCEPT !.state = "gone", !.due = FALSE].due
    BY <1>0 DEF Workflow
  <2>2. /\ workflow'[w] = [workflow[w] EXCEPT !.state = "gone", !.due = FALSE]
        /\ owed'[w] = IF workflow[w].due THEN owed[w] - 1 ELSE owed[w]
        /\ workflow' = [workflow EXCEPT ![w] = workflow'[w]]
        /\ owed' = [owed EXCEPT ![w] = owed'[w]] /\ UNCHANGED <<local, crashes>>
    BY <1>3 DEF DeleteWorkflow, TypeOK
  <2>3. workflow'[w].state # "absent" /\ ~workflow'[w].due
    BY <2>1, <2>2
  <2> QED BY <2>2, <2>3, DefinitionsDue
<1>4. ASSUME NEW w \in Workflows, ScheduleComesDue(w) PROVE DueInv'
  <2>1. /\ [workflow[w] EXCEPT !.due = TRUE].state = workflow[w].state
        /\ [workflow[w] EXCEPT !.due = TRUE].due
    BY <1>0 DEF Workflow
  <2>2. /\ workflow'[w] = [workflow[w] EXCEPT !.due = TRUE]
        /\ workflow[w].state = "live" /\ ~workflow[w].due
        /\ owed'[w] = owed[w] + 1
        /\ workflow' = [workflow EXCEPT ![w] = workflow'[w]]
        /\ owed' = [owed EXCEPT ![w] = owed'[w]] /\ UNCHANGED <<local, crashes>>
    BY <1>4 DEF ScheduleComesDue, TypeOK
  <2>3. workflow'[w].state # "absent" /\ workflow'[w].due
    BY <2>1, <2>2
  <2> QED BY <2>2, <2>3, DefinitionsDue
<1>5. ASSUME DueUntouched PROVE DueInv'
  BY <1>5, DueQuiet
<1>6. ASSUME \/ \E w \in Workflows : StartRun(w)
             \/ \E x \in Runs : CancelExecution(x) \/ AuditCancel(x) \/ RequestDies(x)
             \/ \E s \in Steps : StepComesDue(s) \/ LeaseExpires(s)
             \/ UNCHANGED vars
      PROVE  DueUntouched
  BY <1>6 DEF DueUntouched, StartRun, CancelExecution, AuditCancel, RequestDies, StepComesDue,
              LeaseExpires, vars
<1> QED BY <1>1, <1>2, <1>3, <1>4, <1>5, <1>6 DEF Operator, Time

LEMMA DuePreserved ==
  ASSUME TypeOK, DueInv, [Next]_vars
  PROVE  DueInv'
<1> USE DEF defs
<1>1. CASE Operator \/ Time \/ UNCHANGED vars
  BY <1>1, OperatorDue
<1>2. ASSUME NEW r \in Instances, BeginTick(r) PROVE DueInv'
  BY <1>2, ClaimSchedulesDue DEF BeginTick
<1>3. ASSUME NEW r \in Instances, Crash(r) PROVE DueInv'
  BY <1>3, CrashDue
<1>4. ASSUME NEW r \in Instances, NEW w \in Workflows, StartScheduled(r, w) PROVE DueInv'
  BY <1>4, StartScheduledDue
\* The other steps of a tick and the steps of a sweep.
<1>5. ASSUME NEW r \in Instances,
             \/ \E s \in Steps : ClaimDueStep(r, s) \/ ClaimRefused(r, s)
             \/ EndTick(r) \/ ParkWait(r) \/ StepSucceeds(r) \/ StepRetries(r) \/ StepFails(r)
             \/ ReadExecution(r) \/ CloseStep(r) \/ SettleAfterStep(r)
      PROVE  DueInv'
  <2>1. /\ phase[r] # "start" /\ workflow' = workflow /\ owed' = owed /\ starting' = starting
        /\ crashes' = crashes /\ \A q \in Instances \ {r} : phase'[q] = phase[q]
    BY <1>5 DEF TypeOK, ClaimDueStep, ClaimRefused, EndTick, ParkWait, StepSucceeds, StepRetries,
                StepFails, ReadExecution, CloseStep, SettleAfterStep, CountSteps, Acted
  <2> QED BY <2>1, PastSchedules
<1>6. ASSUME NEW r \in Instances, BeginSweep(r) \/ Sweep(r) \/ WriteVerdict(r)
                                  \/ \E x \in toAudit[r] : AuditSettlement(r, x)
      PROVE  DueInv'
  <2>1. /\ phase[r] # "start" /\ workflow' = workflow /\ owed' = owed /\ starting' = starting
        /\ crashes' = crashes /\ \A q \in Instances \ {r} : phase'[q] = phase[q]
    BY <1>6 DEF TypeOK, BeginSweep, ResolveDueWaits, Sweep, StaleSteps, ReclaimStep, SettleQueued,
                CountSteps, Reconcile, EndSweep, WriteVerdict, AuditSettlement
  <2> QED BY <2>1, PastSchedules
<1> QED BY <1>1, <1>2, <1>3, <1>4, <1>5, <1>6 DEF Next, Continue, Tick

\* claim_due_schedules and the start of the runs it claimed: whichever instances
\* read a schedule, a due time starts at most one run, and one is lost only to a
\* crash between the claim and the start.
THEOREM DueTimesStartOneRun == Spec => []DueTimesAccounted
<1>1. Init => DueInv
  <2> SUFFICES ASSUME Init PROVE DueInv
    OBVIOUS
  <2>1. StartInv
    BY DEF Init, StartInv
  <2>2. ASSUME NEW w \in Workflows PROVE Accounted(w)
    <3>1. Starters(w) = {} /\ owed[w] = 0 /\ crashes = 0 /\ ~workflow[w].due
      BY DEF Init, Starters
    <3> QED BY <3>1, FS_EmptySet DEF Accounted, Unclaimed
  <2> QED BY <2>1, <2>2 DEF DueInv
<1>2. TypeOK /\ DueInv /\ [Next]_vars => DueInv'
  BY DuePreserved
<1>3. TypeOK /\ DueInv => DueTimesAccounted
  <2> SUFFICES ASSUME TypeOK, DueInv, NEW w \in Workflows
               PROVE  LET held == Cardinality({r \in Instances : w \in starting[r]})
                                    + (IF workflow[w].due THEN 1 ELSE 0)
                      IN owed[w] \in held .. (held + crashes)
    BY DEF DueTimesAccounted
  <2>1. Accounted(w) /\ owed[w] \in Int /\ crashes \in Nat
    BY DEF DueInv, TypeOK
  <2>2. Cardinality(Starters(w)) \in Nat
    BY <2>1, FS_CardinalityType DEF Accounted
  <2> QED BY <2>1, <2>2 DEF Accounted, Starters, Unclaimed
<1> QED BY <1>1, <1>2, <1>3, EngineTypeCorrect, PTL DEF Spec

-----------------------------------------------------------------------------
(* One instance: claims never run out *)

\* What an instance remembers of a step still fits the row, if anybody may
\* write the row from it.
Fits(c) == step[c.id].status = "running" => c = SnapshotOf(c.id)

SnapshotsFit ==
  \A r \in Instances :
    /\ phase[r] = "act" => Fits(job[r])
    /\ \A c \in stale[r] : phase[r] = "reclaim" /\ Fits(c)

LoneInv == SnapshotsFit /\ ClaimsRemain

OneInstance == \A r, q \in Instances : r = q

\* A step that claims nothing: a row that runs ran before, under the same claim,
\* and a row left on the queue has a claim left.
StepKept(s) ==
  /\ step'[s].status = "running" =>
       /\ step[s].status = "running" /\ step'[s].kind = step[s].kind
       /\ step'[s].attempts = step[s].attempts /\ step'[s].max = step[s].max
  /\ step'[s].status \in {"pending", "waiting"} => MayClaim(s)'

RowsKept == \A s \in Steps : StepKept(s)

LEMMA SameStepKept ==
  ASSUME ClaimsRemain, NEW s \in Steps, step'[s] = step[s]
  PROVE  StepKept(s)
BY DEF StepKept, ClaimsRemain, MayClaim

LEMMA ClosedStepKept ==
  ASSUME NEW s \in Steps, step'[s].status \in {"absent"} \cup FinalStatus
  PROVE  StepKept(s)
BY DEF StepKept, FinalStatus

\* An update guarded by the status running.
LEMMA RunningWriteKept ==
  ASSUME TypeOK, ClaimsRemain, NEW s \in Steps, NEW new, step' = WriteRunning(s, new),
         step[s].status = "running" =>
           /\ new.status # "running"
           /\ new.status \in {"pending", "waiting"} => new.attempts < AttemptsAllowed(new)
  PROVE  RowsKept
<1>1. ASSUME NEW e \in Steps PROVE StepKept(e)
  <2>1. CASE step'[e] = step[e]
    BY <2>1, SameStepKept
  <2>2. CASE e = s /\ step[s].status = "running"
    <3>1. step'[e] = new
      BY <2>2 DEF WriteRunning, TypeOK
    <3> QED BY <2>2, <3>1 DEF StepKept, MayClaim
  <2> QED BY <2>1, <2>2 DEF WriteRunning, TypeOK
<1> QED BY <1>1 DEF RowsKept

\* What advance_step and reclaim_stale_steps write from a snapshot that fits.
LEMMA SnapshotWriteKept ==
  ASSUME TypeOK, ClaimsRemain, NEW c \in Snapshot, Fits(c),
         \/ step' = CompleteStep(c.id) \/ step' = FailStep(c.id)
         \/ step' = SetStepWaiting(c.id) /\ c.kind = "wait" /\ c.attempts <= 1
         \/ \E now \in BOOLEAN : step' = RetryStep(c.id, now) /\ c.kind = "task" /\ MayRetry(c)
  PROVE  RowsKept
<1>1. c.id \in Steps /\ step[c.id] \in Step
  BY DEF Snapshot, TypeOK
<1>2. step[c.id].status = "running" =>
        /\ step[c.id].kind = c.kind /\ step[c.id].attempts = c.attempts /\ step[c.id].max = c.max
  BY DEF Fits, SnapshotOf
<1>3. CASE step' = CompleteStep(c.id) \/ step' = FailStep(c.id)
  <2>1. /\ [step[c.id] EXCEPT !.status = "succeeded", !.lease = "none"].status = "succeeded"
        /\ [step[c.id] EXCEPT !.status = "failed", !.lease = "none"].status = "failed"
    BY <1>1 DEF Step
  <2> QED BY <1>1, <1>3, <2>1, RunningWriteKept DEF CompleteStep, FailStep
<1>4. CASE step' = SetStepWaiting(c.id) /\ c.kind = "wait" /\ c.attempts <= 1
  <2> DEFINE new == [step[c.id] EXCEPT !.status = "waiting", !.lease = "none", !.due = FALSE]
  <2>1. new.status = "waiting" /\ new.kind = step[c.id].kind /\ new.attempts = step[c.id].attempts
    BY <1>1 DEF Step
  <2>2. c.attempts \in Nat
    BY DEF Snapshot
  <2>3. step[c.id].status = "running" => new.attempts < AttemptsAllowed(new)
    BY <1>2, <1>4, <2>1, <2>2 DEF AttemptsAllowed
  <2>4. step' = WriteRunning(c.id, new)
    BY <1>4 DEF SetStepWaiting
  <2> HIDE DEF new
  <2> QED BY <1>1, <2>1, <2>3, <2>4, RunningWriteKept
<1>5. ASSUME NEW now \in BOOLEAN, step' = RetryStep(c.id, now), c.kind = "task", MayRetry(c)
      PROVE  RowsKept
  <2> DEFINE new == [step[c.id] EXCEPT !.status = "pending", !.lease = "none", !.due = now]
  <2>1. /\ new.status = "pending" /\ new.kind = step[c.id].kind
        /\ new.attempts = step[c.id].attempts /\ new.max = step[c.id].max
    BY <1>1 DEF Step
  <2>2. step[c.id].status = "running" => new.attempts < AttemptsAllowed(new)
    BY <1>2, <1>5, <2>1 DEF AttemptsAllowed, MayRetry
  <2>3. step' = WriteRunning(c.id, new)
    BY <1>5 DEF RetryStep
  <2> HIDE DEF new
  <2> QED BY <1>1, <2>1, <2>2, <2>3, RunningWriteKept
<1> QED BY <1>3, <1>4, <1>5

LEMMA CreateKept ==
  ASSUME EngineConstantsOK, TypeOK, ClaimsRemain, NEW w \in Workflows, CreateExecution(w)
  PROVE  RowsKept
<1>1. ASSUME NEW s \in Steps PROVE StepKept(s)
  <2> DEFINE plan == workflow[w].plan
  <2>1. step'[s] = IF s[1] = lastRun + 1 /\ s[2] \in DOMAIN plan THEN NewStep(plan[s[2]]) ELSE step[s]
    BY DEF CreateExecution
  <2>2. CASE step'[s] = step[s]
    BY <2>2, SameStepKept
  <2>3. CASE s[2] \in DOMAIN plan /\ step'[s] = NewStep(plan[s[2]])
    <3>1. workflow[w].plan \in Plans
      BY DEF TypeOK, Workflow
    <3>2. PICK n \in StepNos : plan \in [1 .. n -> StepDefinitions]
      BY <3>1 DEF EngineConstantsOK
    <3>3. plan[s[2]] \in StepDefinitions
      BY <2>3, <3>2
    <3>4. plan[s[2]].max \in Nat \ {0}
      BY <3>3 DEF StepDefinitions
    <3>5. /\ step'[s].status = "pending" /\ step'[s].attempts = 0 /\ step'[s].max \in Nat \ {0}
      BY <2>3, <3>4 DEF NewStep
    <3>6. step'[s].attempts < AttemptsAllowed(step'[s])
      BY <3>5 DEF AttemptsAllowed
    <3> QED BY <3>5, <3>6 DEF StepKept, MayClaim
  <2> QED BY <2>1, <2>2, <2>3
<1> QED BY <1>1 DEF RowsKept

LEMMA OutsideKept ==
  ASSUME EngineConstantsOK, TypeOK, ClaimsRemain, Operator \/ Time \/ UNCHANGED vars
  PROVE  RowsKept
<1> USE DEF rows
<1>0. \A s \in Steps : step[s] \in Step
  BY DEF TypeOK
<1>1. ASSUME step' = step PROVE RowsKept
  BY <1>1, SameStepKept DEF RowsKept
<1>2. ASSUME NEW w \in Workflows, DeleteWorkflow(w) PROVE RowsKept
  <2>1. ASSUME NEW s \in Steps PROVE StepKept(s)
    <3>1. step'[s] = NoStep \/ step'[s] = step[s]
      BY <1>2 DEF DeleteWorkflow
    <3> QED BY <3>1, SameStepKept, ClosedStepKept DEF NoStep
  <2> QED BY <2>1 DEF RowsKept
<1>3. ASSUME NEW w \in Workflows, StartRun(w) PROVE RowsKept
  BY <1>3, CreateKept DEF StartRun
<1>4. ASSUME NEW x \in Runs, CancelExecution(x) PROVE RowsKept
  <2>1. ASSUME NEW s \in Steps PROVE StepKept(s)
    <3>1. step'[s] = [step[s] EXCEPT !.status = "cancelled"] \/ step'[s] = step[s]
      BY <1>4 DEF CancelExecution
    <3>2. [step[s] EXCEPT !.status = "cancelled"].status \in FinalStatus
      BY <1>0 DEF Step, FinalStatus
    <3> QED BY <3>1, <3>2, SameStepKept, ClosedStepKept
  <2> QED BY <2>1 DEF RowsKept
\* The clock changes no column these facts are about.
<1>5. ASSUME NEW e \in Steps, StepComesDue(e) \/ LeaseExpires(e) PROVE RowsKept
  <2>1. ASSUME NEW s \in Steps PROVE StepKept(s)
    <3>1. \/ step'[s] = step[s] \/ step'[s] = [step[s] EXCEPT !.due = TRUE]
          \/ step'[s] = [step[s] EXCEPT !.lease = "expired"]
      BY <1>5 DEF StepComesDue, LeaseExpires, TypeOK
    <3>2. /\ step'[s].status = step[s].status /\ step'[s].kind = step[s].kind
          /\ step'[s].attempts = step[s].attempts /\ step'[s].max = step[s].max
      BY <1>0, <3>1 DEF Step
    <3> QED BY <3>2 DEF StepKept, ClaimsRemain, MayClaim, AttemptsAllowed
  <2> QED BY <2>1 DEF RowsKept
<1> QED BY <1>1, <1>2, <1>3, <1>4, <1>5
     DEF Operator, Time, InsertWorkflow, UpdateWorkflow, AuditCancel, RequestDies, ScheduleComesDue, vars

\* Rows and snapshots stay in step while nothing is claimed and nothing new is
\* remembered.
LEMMA KeptFits ==
  ASSUME TypeOK, InHand, LoneInv, RowsKept,
         \A r \in Instances :
           /\ phase'[r] = "act" => phase[r] = "act" /\ job'[r] = job[r]
           /\ stale'[r] \subseteq stale[r] /\ (stale'[r] # {} => phase'[r] = "reclaim")
  PROVE  LoneInv'
<1>1. ASSUME NEW c \in Snapshot, Fits(c) PROVE Fits(c)'
  <2>1. c.id \in Steps
    BY DEF Snapshot
  <2> QED BY <1>1, <2>1 DEF RowsKept, StepKept, Fits, SnapshotOf
<1>2. SnapshotsFit'
  <2>1. ASSUME NEW r \in Instances, phase'[r] = "act" PROVE Fits(job[r])' /\ job'[r] = job[r]
    <3>1. job[r] \in Snapshot /\ Fits(job[r]) /\ job'[r] = job[r]
      BY <2>1 DEF LoneInv, SnapshotsFit, InHand, Holds
    <3>2. \A c \in Snapshot : Fits(c) => Fits(c)'
      BY <1>1
    <3> QED BY <3>1, <3>2 DEF Fits, SnapshotOf
  <2>2. ASSUME NEW r \in Instances, NEW c \in stale'[r] PROVE phase'[r] = "reclaim" /\ Fits(c)'
    <3>1. c \in stale[r] /\ c \in Snapshot
      BY <2>2 DEF TypeOK
    <3> QED BY <1>1, <2>2, <3>1 DEF LoneInv, SnapshotsFit
  <2> QED BY <2>1, <2>2 DEF SnapshotsFit, Fits, SnapshotOf
<1>3. ClaimsRemain'
  BY DEF RowsKept, StepKept, ClaimsRemain
<1> QED BY <1>2, <1>3 DEF LoneInv

\* The one instance takes a step that neither claims nor remembers anything.
LEMMA LoneStep ==
  ASSUME TypeOK, InHand, LoneInv, OneInstance, RowsKept, NEW r \in Instances,
         phase'[r] # "act", stale' = stale, phase[r] # "reclaim"
  PROVE  LoneInv'
<1>1. stale[r] = {}
  BY DEF LoneInv, SnapshotsFit
<1>2. \A q \in Instances : q = r
  BY DEF OneInstance
<1> QED BY <1>1, <1>2, KeptFits

LEMMA LoneClaim ==
  ASSUME TypeOK, LoneInv, OneInstance, NEW r \in Instances, NEW s \in Steps, ClaimDueStep(r, s)
  PROVE  LoneInv'
<1>1. step[s] \in Step
  BY DEF TypeOK
<1>2. stale[r] = {} /\ stale' = stale /\ phase'[r] = "act"
      /\ job'[r] = [id |-> s, kind |-> step[s].kind, attempts |-> step[s].attempts + 1,
                    max |-> step[s].max]
  BY DEF ClaimDueStep, LoneInv, SnapshotsFit, TypeOK
<1>3. step'[s] = [step[s] EXCEPT !.status = "running", !.attempts = step[s].attempts + 1,
                                 !.lease = "live"]
      /\ \A e \in Steps \ {s} : step'[e] = step[e]
  BY DEF ClaimDueStep, TypeOK
<1>4. /\ step'[s].status = "running" /\ step'[s].kind = step[s].kind
      /\ step'[s].attempts = step[s].attempts + 1 /\ step'[s].max = step[s].max
  BY <1>1, <1>3 DEF Step
<1>5. Fits(job[r])'
  BY <1>2, <1>4 DEF Fits, SnapshotOf
<1>6. SnapshotsFit'
  BY <1>2, <1>5 DEF SnapshotsFit, OneInstance
<1>7. ClaimsRemain'
  BY <1>3, <1>4 DEF LoneInv, ClaimsRemain, MayClaim
<1> QED BY <1>6, <1>7 DEF LoneInv

LEMMA LoneStale ==
  ASSUME TypeOK, LoneInv, OneInstance, NEW r \in Instances, NEW S \in SUBSET Steps, StaleSteps(r, S)
  PROVE  LoneInv'
<1>1. step' = step /\ stale'[r] = {SnapshotOf(s) : s \in S}
      /\ phase'[r] = IF S = {} THEN "touched" ELSE "reclaim"
  BY DEF StaleSteps, rows, TypeOK
<1>2. ASSUME NEW c \in stale'[r] PROVE phase'[r] = "reclaim" /\ Fits(c)'
  <2>1. PICK s \in S : c = SnapshotOf(s)
    BY <1>1
  <2>2. c.id = s /\ SnapshotOf(s)' = SnapshotOf(s)
    BY <1>1, <2>1 DEF SnapshotOf
  <2>3. Fits(c)'
    BY <2>1, <2>2 DEF Fits
  <2>4. phase'[r] = "reclaim"
    BY <1>1
  <2> QED BY <2>3, <2>4
<1>3. phase'[r] # "act"
  BY <1>1
<1>4. SnapshotsFit'
  BY <1>2, <1>3 DEF SnapshotsFit, OneInstance
<1>5. ClaimsRemain'
  BY <1>1 DEF LoneInv, ClaimsRemain, MayClaim
<1> QED BY <1>4, <1>5 DEF LoneInv

LEMMA LoneReclaim ==
  ASSUME TypeOK, InHand, LoneInv, OneInstance, NEW r \in Instances, NEW c \in stale[r], ReclaimStep(r, c)
  PROVE  LoneInv'
<1>1. c \in Snapshot /\ Fits(c)
  BY DEF TypeOK, LoneInv, SnapshotsFit
<1>2. c.kind \in {"task", "wait"} /\ c.attempts \in Nat /\ c.max \in Nat
  BY <1>1 DEF Snapshot, Kinds
<1>3. RowsKept
  <2>0. step' = Reclaimed(c) /\ ClaimsRemain /\ TRUE \in BOOLEAN
    BY DEF ReclaimStep, LoneInv
  <2>1. CASE c.kind = "wait" /\ c.attempts > 1
    <3>1. c.kind # "task" /\ ~(c.attempts <= 1)
      BY <1>2, <2>1
    <3>2. Reclaimed(c) = CompleteStep(c.id)
      BY <2>1, <3>1 DEF Reclaimed
    <3> QED BY <1>1, <2>0, <3>2, SnapshotWriteKept
  <2>2. CASE c.kind = "wait" /\ c.attempts <= 1
    <3>1. Reclaimed(c) = SetStepWaiting(c.id)
      BY <1>2, <2>2 DEF Reclaimed
    <3> QED BY <1>1, <2>0, <2>2, <3>1, SnapshotWriteKept
  <2>3. CASE c.kind = "task" /\ MayRetry(c)
    <3>1. Reclaimed(c) = RetryStep(c.id, TRUE)
      BY <1>2, <2>3 DEF Reclaimed
    <3> QED BY <1>1, <2>0, <2>3, <3>1, SnapshotWriteKept
  <2>4. CASE c.kind = "task" /\ ~MayRetry(c)
    <3>1. Reclaimed(c) = FailStep(c.id)
      BY <1>2, <2>4 DEF Reclaimed
    <3> QED BY <1>1, <2>0, <3>1, SnapshotWriteKept
  <2> QED BY <1>2, <2>1, <2>2, <2>3, <2>4
<1>4. /\ stale'[r] = stale[r] \ {c}
      /\ phase'[r] = IF stale[r] = {c} THEN "touched" ELSE "reclaim"
  BY DEF ReclaimStep, TypeOK
<1>5. \A q \in Instances : q = r
  BY DEF OneInstance
<1> QED BY <1>3, <1>4, <1>5, KeptFits

LEMMA LoneAct ==
  ASSUME TypeOK, InHand, LoneInv, OneInstance, NEW r \in Instances,
         ParkWait(r) \/ StepSucceeds(r) \/ StepRetries(r) \/ StepFails(r)
  PROVE  LoneInv'
<1>1. /\ phase[r] = "act" /\ phase'[r] # "act" /\ stale' = stale
  BY DEF ParkWait, StepSucceeds, StepRetries, StepFails, Acted, TypeOK
<1>2. job[r] \in Snapshot /\ Fits(job[r]) /\ ClaimsRemain /\ FALSE \in BOOLEAN
  BY <1>1 DEF InHand, Holds, LoneInv, SnapshotsFit
<1>3. RowsKept
  BY <1>2, SnapshotWriteKept DEF ParkWait, StepSucceeds, StepRetries, StepFails
<1> QED BY <1>1, <1>3, LoneStep

LEMMA LoneClose ==
  ASSUME TypeOK, InHand, LoneInv, OneInstance, NEW r \in Instances, CloseStep(r)
  PROVE  LoneInv'
<1>1. phase[r] = "close" /\ phase'[r] = "claim" /\ stale' = stale
  BY DEF CloseStep, Acted, TypeOK
<1>2. ASSUME NEW s \in Steps PROVE StepKept(s)
  <2>1. step[s] \in Step /\ ClaimsRemain
    BY DEF TypeOK, LoneInv
  <2>2. step'[s] = step[s] \/ step'[s] = [step[s] EXCEPT !.status = "cancelled", !.lease = "none"]
    BY DEF CloseStep, CancelStep, TypeOK
  <2>3. [step[s] EXCEPT !.status = "cancelled", !.lease = "none"].status \in FinalStatus
    BY <2>1 DEF Step, FinalStatus
  <2> QED BY <2>1, <2>2, <2>3, SameStepKept, ClosedStepKept
<1>3. RowsKept
  BY <1>2 DEF RowsKept
<1> QED BY <1>1, <1>3, LoneStep

LEMMA LoneResolve ==
  ASSUME TypeOK, InHand, LoneInv, OneInstance, NEW r \in Instances, BeginSweep(r)
  PROVE  LoneInv'
<1>1. phase[r] = "idle" /\ phase'[r] = "stale" /\ stale' = stale
  BY DEF BeginSweep, ResolveDueWaits, TypeOK
<1>2. ASSUME NEW s \in Steps PROVE StepKept(s)
  <2>1. step[s] \in Step /\ ClaimsRemain
    BY DEF TypeOK, LoneInv
  <2>2. step'[s] = step[s] \/ step'[s] = [step[s] EXCEPT !.status = "succeeded"]
    BY DEF BeginSweep, ResolveDueWaits
  <2>3. [step[s] EXCEPT !.status = "succeeded"].status \in FinalStatus
    BY <2>1 DEF Step, FinalStatus
  <2> QED BY <2>1, <2>2, <2>3, SameStepKept, ClosedStepKept
<1>3. RowsKept
  BY <1>2 DEF RowsKept
<1> QED BY <1>1, <1>3, LoneStep

LEMMA LonePreserved ==
  ASSUME EngineConstantsOK, EngineInv, LoneInv, OneInstance, [Next]_vars
  PROVE  LoneInv'
<1> USE DEF rows
<1>0. TypeOK /\ InHand /\ ClaimsRemain
  BY DEF EngineInv, LoneInv
<1>1. CASE Operator \/ Time \/ UNCHANGED vars
  <2>1. RowsKept
    BY <1>0, <1>1, OutsideKept
  <2>2. phase' = phase /\ job' = job /\ stale' = stale
    BY <1>1 DEF Operator, Time, InsertWorkflow, UpdateWorkflow, DeleteWorkflow, StartRun,
       CancelExecution, AuditCancel, RequestDies, ScheduleComesDue, StepComesDue, LeaseExpires,
       local, vars
  <2>3. \A r \in Instances : stale[r] # {} => phase[r] = "reclaim"
    BY DEF LoneInv, SnapshotsFit
  <2> QED BY <1>0, <2>1, <2>2, <2>3, KeptFits
<1>2. ASSUME NEW r \in Instances, Crash(r) PROVE LoneInv'
  <2>1. RowsKept
    BY <1>0, <1>2, SameStepKept DEF RowsKept, Crash
  <2>2. stale'[r] = {} /\ phase'[r] = "idle"
    BY <1>0, <1>2 DEF Crash, TypeOK
  <2>3. \A q \in Instances : q = r
    BY DEF OneInstance
  <2> QED BY <1>0, <2>1, <2>2, <2>3, KeptFits
<1>3. ASSUME NEW r \in Instances, step' = step, stale' = stale, phase'[r] # "act",
             phase[r] # "reclaim"
      PROVE  LoneInv'
  <2>1. RowsKept
    BY <1>0, <1>3, SameStepKept DEF RowsKept
  <2> QED BY <1>0, <1>3, <2>1, LoneStep
<1>4. ASSUME NEW r \in Instances, NEW w \in Workflows, StartScheduled(r, w) PROVE LoneInv'
  <2>1. phase[r] = "start" /\ phase'[r] \in {"claim", "start"} /\ stale' = stale
    BY <1>0, <1>4 DEF StartScheduled, TypeOK
  <2>2. CASE step' = step
    BY <1>3, <2>1, <2>2
  <2>3. CASE CreateExecution(w)
    <3>1. RowsKept
      BY <1>0, <2>3, CreateKept
    <3> QED BY <1>0, <2>1, <3>1, LoneStep
  <2> QED BY <1>4, <2>2, <2>3 DEF StartScheduled
\* Steps that touch no row, between a claim and the audit of a settlement.
<1>5. ASSUME NEW r \in Instances,
             \/ BeginTick(r) \/ EndTick(r) \/ ReadExecution(r) \/ SettleAfterStep(r)
             \/ \E s \in Steps : ClaimRefused(r, s)
      PROVE  LoneInv'
  <2>1. phase[r] # "reclaim" /\ step' = step /\ stale' = stale
    BY <1>5 DEF BeginTick, ClaimDueSchedules, EndTick, ReadExecution, SettleAfterStep, CountSteps,
                ClaimRefused
  <2>2. phase'[r] # "act"
    BY <1>0, <1>5 DEF BeginTick, ClaimDueSchedules, EndTick, ReadExecution, SettleAfterStep, CountSteps,
                ClaimRefused, TypeOK
  <2> QED BY <1>3, <2>1, <2>2
<1>6. ASSUME NEW r \in Instances,
             \/ \E x \in queue[r] : SettleQueued(r, x)
             \/ \E S \in SUBSET Runs : Reconcile(r, S)
             \/ EndSweep(r) \/ WriteVerdict(r) \/ \E x \in toAudit[r] : AuditSettlement(r, x)
      PROVE  LoneInv'
  <2>1. phase[r] # "reclaim" /\ step' = step /\ stale' = stale
    BY <1>6 DEF SettleQueued, CountSteps, Reconcile, EndSweep, WriteVerdict, AuditSettlement
  <2>2. phase'[r] # "act"
    BY <1>0, <1>6 DEF SettleQueued, CountSteps, Reconcile, EndSweep, WriteVerdict, AuditSettlement, TypeOK
  <2> QED BY <1>3, <2>1, <2>2
<1>7. ASSUME NEW r \in Instances, Tick(r) PROVE LoneInv'
  BY <1>0, <1>4, <1>5, <1>7, LoneClaim, LoneAct, LoneClose DEF Tick
<1>8. ASSUME NEW r \in Instances, Sweep(r) PROVE LoneInv'
  BY <1>0, <1>6, <1>8, LoneStale, LoneReclaim DEF Sweep
<1>9. ASSUME NEW r \in Instances, BeginSweep(r) PROVE LoneInv'
  BY <1>0, <1>9, LoneResolve
<1> QED BY <1>1, <1>2, <1>5, <1>6, <1>7, <1>8, <1>9 DEF Next, Continue

\* With a single instance the sweep repairs a step from a snapshot nobody has
\* overtaken, so it never puts back a row whose claims are used up, although its
\* updates test the status only and not the attempts: claim_due_step always
\* finds a claim left.  Two instances lose this: the wedge.
THEOREM LoneInstanceKeepsClaims == OneInstance => (Spec => []ClaimsRemain)
<1> SUFFICES ASSUME OneInstance PROVE Spec => []ClaimsRemain
  OBVIOUS
<1>1. Init => LoneInv
  <2> SUFFICES ASSUME Init PROVE LoneInv
    OBVIOUS
  <2>1. SnapshotsFit
    BY DEF Init, SnapshotsFit
  <2>2. ClaimsRemain
    BY DEF Init, ClaimsRemain, NoStep
  <2> QED BY <2>1, <2>2 DEF LoneInv
<1>2. EngineInv /\ LoneInv /\ [Next]_vars => LoneInv'
  BY EngineConstantsOK, LonePreserved
<1>3. LoneInv => ClaimsRemain
  BY DEF LoneInv
<1> QED BY <1>1, <1>2, <1>3, EngineInvariant, PTL DEF Spec

\* Then no tick is ended by the check constraint on the attempts.
THEOREM LoneInstanceNeverRefused ==
  OneInstance => (Spec => [][\A r \in Instances, s \in Steps : ~ClaimRefused(r, s)]_vars)
<1> SUFFICES ASSUME OneInstance
             PROVE  Spec => [][\A r \in Instances, s \in Steps : ~ClaimRefused(r, s)]_vars
  OBVIOUS
<1>1. ClaimsRemain => \A r \in Instances, s \in Steps : ~ClaimRefused(r, s)
  BY DEF ClaimsRemain, ClaimRefused, NextDue, Claimable
<1>2. Spec => []ClaimsRemain
  BY LoneInstanceKeepsClaims
<1> QED BY <1>1, <1>2, PTL

-----------------------------------------------------------------------------
(* A run without claims left *)

\* The first open step of the run, or one behind it, waits for a claim that its
\* check constraint refuses.
Wedged(s) ==
  run[s[1]].status = "running" /\ step[s].status = "pending" /\ ~MayClaim(s)

\* A step is closed with its run only after the run is.
CloseInv ==
  \A r \in Instances : phase[r] = "close" => run[job[r].id[1]].status # "running"

\* A run that is not running does not start to run.
LEMMA NotRunningStays ==
  ASSUME EngineConstantsOK, TypeOK, RowMoves, NEW x \in Runs, x <= lastRun,
         run[x].status # "running"
  PROVE  run'[x].status # "running"
<1>1. x # lastRun + 1
  BY DEF TypeOK, Runs
<1> QED BY <1>1 DEF RowMoves, RunMoves

LEMMA ClosePreserved ==
  ASSUME EngineConstantsOK, EngineInv, CloseInv, [Next]_vars
  PROVE  CloseInv'
<1> USE DEF rows
<1>0. TypeOK /\ InHand /\ Uncreated
  BY DEF EngineInv
<1>1. RowMoves
  BY <1>0, NextMoves
<1>2. ASSUME NEW r \in Instances, phase'[r] = "close"
      PROVE  \/ phase[r] = "close" /\ job'[r] = job[r]
             \/ /\ phase[r] = "after" /\ job'[r] = job[r] /\ run' = run
                /\ run[job[r].id[1]].status # "running"
  <2>1. CASE Operator \/ Time \/ UNCHANGED vars
    BY <1>2, <2>1 DEF Operator, Time, InsertWorkflow, UpdateWorkflow, DeleteWorkflow, StartRun,
       CancelExecution, AuditCancel, RequestDies, ScheduleComesDue, StepComesDue, LeaseExpires,
       local, vars
  <2>2. ASSUME NEW q \in Instances, q # r, BeginTick(q) \/ BeginSweep(q) \/ Continue(q) \/ Crash(q)
        PROVE  phase[r] = "close" /\ job'[r] = job[r]
    <3>1. phase'[r] = phase[r]
      BY <1>0, <2>2 DEF TypeOK, BeginTick, ClaimDueSchedules, BeginSweep, ResolveDueWaits, Continue,
         Tick, StartScheduled, ClaimDueStep, ClaimRefused, EndTick, ParkWait, StepSucceeds,
         StepRetries, StepFails, ReadExecution, CloseStep, SettleAfterStep, CountSteps, Acted,
         Sweep, StaleSteps, ReclaimStep, SettleQueued, Reconcile, EndSweep, WriteVerdict,
         AuditSettlement, Crash
    <3>2. job'[r] = job[r]
      BY <1>0, <2>2 DEF TypeOK, BeginTick, ClaimDueSchedules, BeginSweep, ResolveDueWaits, Continue,
         Tick, StartScheduled, ClaimDueStep, ClaimRefused, EndTick, ParkWait, StepSucceeds,
         StepRetries, StepFails, ReadExecution, CloseStep, SettleAfterStep, CountSteps, Acted,
         Sweep, StaleSteps, ReclaimStep, SettleQueued, Reconcile, EndSweep, WriteVerdict,
         AuditSettlement, Crash
    <3> QED BY <1>2, <3>1, <3>2
  <2>3. CASE ReadExecution(r)
    <3>1. /\ phase[r] = "after" /\ job' = job /\ run' = run
          /\ phase'[r] = CASE run[job[r].id[1]].status = "absent" -> "claim"
                           [] run[job[r].id[1]].status = "running" -> "count"
                           [] OTHER -> "close"
      BY <1>0, <2>3 DEF ReadExecution, TypeOK
    <3> QED BY <1>2, <3>1
  <2>4. CASE BeginTick(r) \/ BeginSweep(r) \/ Crash(r)
    BY <1>0, <1>2, <2>4 DEF TypeOK, BeginTick, ClaimDueSchedules, BeginSweep, ResolveDueWaits, Crash
  <2>5. CASE Tick(r) /\ ~ReadExecution(r)
    BY <1>0, <1>2, <2>5 DEF TypeOK, Tick, StartScheduled, ClaimDueStep, ClaimRefused, EndTick,
       ParkWait, StepSucceeds, StepRetries, StepFails, CloseStep, SettleAfterStep, CountSteps, Acted
  <2>6. CASE Sweep(r)
    BY <1>0, <1>2, <2>6 DEF TypeOK, Sweep, StaleSteps, ReclaimStep, SettleQueued, CountSteps,
       Reconcile, EndSweep
  <2>7. CASE WriteVerdict(r) \/ \E x \in toAudit[r] : AuditSettlement(r, x)
    BY <1>0, <1>2, <2>7 DEF TypeOK, WriteVerdict, AuditSettlement
  <2> QED BY <2>1, <2>2, <2>3, <2>4, <2>5, <2>6, <2>7 DEF Next, Continue
<1>3. ASSUME NEW r \in Instances, phase'[r] = "close" PROVE run'[job'[r].id[1]].status # "running"
  <2>1. CASE phase[r] = "close" /\ job'[r] = job[r]
    <3>1. job[r] \in Snapshot /\ job[r].id[1] <= lastRun
      BY <1>0, <2>1 DEF InHand, Holds
    <3>2. job[r].id[1] \in Runs
      BY <3>1, StepParts DEF Snapshot
    <3>3. run[job[r].id[1]].status # "running"
      BY <2>1 DEF CloseInv
    <3> QED BY <1>0, <1>1, <2>1, <3>1, <3>2, <3>3, NotRunningStays
  <2> QED BY <1>2, <1>3, <2>1
<1> QED BY <1>3 DEF CloseInv

\* What a step of the system may do to a pending row of a running run.
LEMMA PendingMoves ==
  ASSUME EngineConstantsOK, EngineInv, CloseInv, [Next]_vars, NEW s \in Steps,
         step[s].status = "pending", run[s[1]].status = "running", ~MayClaim(s)
  PROVE  \/ /\ step'[s].status = "pending" /\ step'[s].kind = step[s].kind
            /\ step'[s].attempts = step[s].attempts /\ step'[s].max = step[s].max
         \/ run'[s[1]].status \in {"cancelled", "absent"}
<1> USE DEF rows
<1>0. TypeOK /\ InHand /\ Uncreated
  BY DEF EngineInv
<1>s. step[s] \in Step /\ s[1] \in Runs /\ s[1] <= lastRun /\ lastRun \in Nat /\ s[1] \in Nat
  BY <1>0, StepParts, InUseIsCreated DEF TypeOK, Runs
<1> DEFINE Goal == \/ /\ step'[s].status = "pending" /\ step'[s].kind = step[s].kind
                      /\ step'[s].attempts = step[s].attempts /\ step'[s].max = step[s].max
                   \/ run'[s[1]].status \in {"cancelled", "absent"}
<1>1. ASSUME step'[s] = step[s] PROVE Goal
  BY <1>1
<1>2. ASSUME NEW w \in Workflows, DeleteWorkflow(w) PROVE Goal
  <2>1. CASE run[s[1]].workflow = w
    <3>1. run[s[1]] \in Run /\ run'[s[1]] = [run[s[1]] EXCEPT !.status = "absent"]
      BY <1>0, <1>s, <1>2, <2>1 DEF DeleteWorkflow, TypeOK
    <3>2. run'[s[1]].status = "absent"
      BY <3>1 DEF Run
    <3> QED BY <3>2
  <2>2. CASE run[s[1]].workflow # w
    BY <1>1, <1>2, <2>2 DEF DeleteWorkflow
  <2> QED BY <2>1, <2>2
<1>3. ASSUME NEW w, CreateExecution(w) PROVE Goal
  <2>1. s[1] # lastRun + 1
    BY <1>s
  <2> QED BY <1>1, <1>3, <2>1 DEF CreateExecution
<1>4. ASSUME NEW x \in Runs, CancelExecution(x) PROVE Goal
  <2>1. CASE s[1] = x
    <3>1. run[s[1]] \in Run /\ run'[s[1]] = [run[s[1]] EXCEPT !.status = "cancelled"]
      BY <1>0, <1>s, <1>4, <2>1 DEF CancelExecution, TypeOK
    <3>2. run'[s[1]].status = "cancelled"
      BY <3>1 DEF Run
    <3> QED BY <3>2
  <2>2. CASE s[1] # x
    BY <1>1, <1>4, <2>2 DEF CancelExecution
  <2> QED BY <2>1, <2>2
<1>5. ASSUME NEW e \in Steps, StepComesDue(e) \/ LeaseExpires(e) PROVE Goal
  <2>1. step'[s] = step[s] \/ step'[s] = [step[s] EXCEPT !.due = TRUE]
        \/ step'[s] = [step[s] EXCEPT !.lease = "expired"]
    BY <1>0, <1>5 DEF StepComesDue, LeaseExpires, TypeOK
  <2> QED BY <1>s, <2>1 DEF Step
\* The guarded updates find a row that is not running.
<1>6. ASSUME NEW e, NEW new, step' = WriteRunning(e, new) PROVE Goal
  BY <1>0, <1>1, <1>6 DEF WriteRunning, TypeOK
<1>7. ASSUME NEW r \in Instances, ParkWait(r) \/ StepSucceeds(r) \/ StepRetries(r) \/ StepFails(r)
      PROVE  Goal
  <2> HIDE DEF Goal
  <2> QED BY <1>6, <1>7 DEF ParkWait, StepSucceeds, StepRetries, StepFails, SetStepWaiting,
             CompleteStep, RetryStep, FailStep
<1>8. ASSUME NEW r \in Instances, NEW c \in stale[r], ReclaimStep(r, c) PROVE Goal
  <2>1. c \in Snapshot
    BY <1>0 DEF TypeOK
  <2>2. step' = Reclaimed(c)
    BY <1>8 DEF ReclaimStep
  <2>3. \/ Reclaimed(c) = CompleteStep(c.id) \/ Reclaimed(c) = FailStep(c.id)
        \/ Reclaimed(c) = SetStepWaiting(c.id) \/ Reclaimed(c) = RetryStep(c.id, TRUE)
    BY <2>1, ReclaimedWrites
  <2> HIDE DEF Goal
  <2> QED BY <1>6, <2>2, <2>3 DEF CompleteStep, FailStep, SetStepWaiting, RetryStep
<1>9. ASSUME NEW r \in Instances, CloseStep(r) PROVE Goal
  <2>1. job[r].id # s
    BY <1>9 DEF CloseStep, CloseInv
  <2>2. step'[s] = step[s]
    BY <1>0, <1>9, <2>1 DEF CloseStep, CancelStep, TypeOK
  <2> QED BY <1>1, <2>2
<1>10. ASSUME NEW r \in Instances, BeginSweep(r) PROVE Goal
  <2>1. step'[s] = step[s]
    BY <1>10 DEF BeginSweep, ResolveDueWaits
  <2> QED BY <1>1, <2>1
<1>11. ASSUME NEW r \in Instances, NEW e \in Steps, ClaimDueStep(r, e) PROVE Goal
  <2>1. e # s
    BY <1>11 DEF ClaimDueStep
  <2>2. step'[s] = step[s]
    BY <1>0, <1>11, <2>1 DEF ClaimDueStep, TypeOK
  <2> QED BY <1>1, <2>2
<1>12. ASSUME step' = step PROVE Goal
  BY <1>12
<1> HIDE DEF Goal
<1>13. ASSUME Operator \/ Time \/ UNCHANGED vars PROVE Goal
  BY <1>2, <1>3, <1>4, <1>5, <1>12, <1>13
     DEF Operator, Time, InsertWorkflow, UpdateWorkflow, StartRun, AuditCancel, RequestDies,
         ScheduleComesDue, vars
<1>14. ASSUME NEW r \in Instances, Tick(r) PROVE Goal
  BY <1>3, <1>7, <1>9, <1>11, <1>12, <1>14
     DEF Tick, StartScheduled, ClaimRefused, EndTick, ReadExecution, SettleAfterStep, CountSteps
<1>15. ASSUME NEW r \in Instances, Sweep(r) PROVE Goal
  BY <1>8, <1>12, <1>15 DEF Sweep, StaleSteps, SettleQueued, CountSteps, Reconcile, EndSweep
<1>16. ASSUME NEW r \in Instances, \/ BeginTick(r) \/ Crash(r) \/ WriteVerdict(r)
                                   \/ \E x \in toAudit[r] : AuditSettlement(r, x)
       PROVE  Goal
  BY <1>12, <1>16 DEF BeginTick, ClaimDueSchedules, Crash, WriteVerdict, AuditSettlement
<1>17. Goal
  BY <1>10, <1>13, <1>14, <1>15, <1>16 DEF Next, Continue
<1> QED BY <1>17 DEF Goal

\* A pending step that has used up its claims stays so, and its run stays
\* running, through every tick, sweep, settlement and crash of any number of
\* instances: only an operator's cancel or delete ends such a run.  engine.rs
\* says the sweep always ends a run; this is why it does not end a wedged one.
THEOREM WedgedRunsNeedAnOperator ==
  Spec => [][\A s \in Steps : Wedged(s)
               => Wedged(s)' \/ run'[s[1]].status \in {"cancelled", "absent"}]_vars
<1> DEFINE Stays == \A s \in Steps : Wedged(s)
                      => Wedged(s)' \/ run'[s[1]].status \in {"cancelled", "absent"}
<1>1. Init => CloseInv
  BY DEF Init, CloseInv
<1>2. EngineInv /\ CloseInv /\ [Next]_vars => CloseInv'
  BY EngineConstantsOK, ClosePreserved
<1>3. EngineInv /\ CloseInv /\ [Next]_vars => [Stays]_vars
  <2> SUFFICES ASSUME EngineInv, CloseInv, [Next]_vars, NEW s \in Steps, Wedged(s),
                      run'[s[1]].status \notin {"cancelled", "absent"}
               PROVE  Wedged(s)'
    OBVIOUS
  <2>0. TypeOK /\ InHand /\ Uncreated /\ VerdictTrue /\ s[1] \in Runs
    BY StepParts DEF EngineInv
  <2>1. step[s].status = "pending" /\ run[s[1]].status = "running" /\ ~MayClaim(s)
    BY DEF Wedged
  <2>2. /\ step'[s].status = "pending" /\ step'[s].kind = step[s].kind
        /\ step'[s].attempts = step[s].attempts /\ step'[s].max = step[s].max
    BY <2>1, PendingMoves, EngineConstantsOK
  <2>3. ~MayClaim(s)'
    BY <2>1, <2>2 DEF MayClaim, AttemptsAllowed
  <2>4. HasOpen(s[1])
    BY <2>1 DEF HasOpen, StepsOf, Open, OpenStatus
  <2>5. RowMoves
    BY <2>0, NextMoves, EngineConstantsOK
  <2>6. s[1] # lastRun + 1
    <3>1. s[1] <= lastRun
      BY <2>0, <2>1, InUseIsCreated
    <3> QED BY <2>0, <3>1 DEF TypeOK, Runs
  <2>7. \A r \in Instances : ~(phase[r] = "write" /\ verdict[r].run = s[1])
    BY <2>0, <2>1, <2>4 DEF VerdictTrue
  <2>8. run'[s[1]].status = "running"
    BY <2>0, <2>1, <2>5, <2>6, <2>7 DEF RowMoves, RunMoves
  <2> QED BY <2>2, <2>3, <2>8 DEF Wedged
<1>4. Spec => [][Stays]_vars
  BY <1>1, <1>2, <1>3, EngineInvariant, PTL DEF Spec
<1> QED BY <1>4
=============================================================================
