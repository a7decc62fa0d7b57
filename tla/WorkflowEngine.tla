--------------------------- MODULE WorkflowEngine ---------------------------
(***************************************************************************)
(* The durable workflow engine of crates/workflows: definitions, runs and  *)
(* their materialised steps, and the tick and the sweep that every API     *)
(* instance runs in turn (apps/api/src/workflow_runner.rs).                *)
(*                                                                         *)
(* One SQL statement or one transaction is one step of the model.  Time is *)
(* kept as what the statements test: available_at has passed (due), and    *)
(* started_at is older than the lease (lease = "expired").  The checks in  *)
(* definition.rs keep broken crons, unknown kinds and unreadable wait      *)
(* lengths out of the tables, so the branches for them are left out.       *)
(***************************************************************************)
EXTENDS Integers, FiniteSets

CONSTANTS
  Workflows,    \* ids of workflows rows
  Triggers,     \* the trigger kinds definitions use
  Plans,        \* the step lists definitions use
  MaxSteps,     \* MAX_STEPS
  MaxRuns,      \* bound: executions ever created
  Instances,    \* API instances running the engine
  Batch,        \* RunnerConfig.batch
  SweepBatch,   \* RunnerConfig.sweep_batch
  SchedulerBatch, \* RunnerConfig.scheduler_batch
  MaxOwed,      \* bound: due times of one schedule not answered by a run
  MaxCrashes,   \* bound: crashes and failed ticks
  SlowActions   \* TRUE: an action may outlive the lease of its claim

StepNos == 1 .. MaxSteps
Runs == 1 .. MaxRuns
Steps == Runs \X StepNos
Kinds == {"task", "wait"}
StepDefinitions == [kind : Kinds, max : Nat \ {0}]

ASSUME EngineConstantsOK ==
  /\ MaxSteps \in Nat /\ MaxRuns \in Nat /\ MaxOwed \in Nat /\ MaxCrashes \in Nat
  /\ Workflows # {} /\ Plans # {}
  /\ Batch \in Nat \ {0} /\ SweepBatch \in Nat \ {0} /\ SchedulerBatch \in Nat \ {0}
  /\ Triggers \subseteq {"manual", "schedule"}
  /\ \A plan \in Plans : \E n \in StepNos : plan \in [1 .. n -> StepDefinitions]
  /\ SlowActions \in BOOLEAN

VARIABLES
  workflow,     \* workflows
  lastRun,      \* executions created so far, in started_at order
  run,          \* workflow_executions
  step,         \* workflow_steps
  phase,        \* where each instance stands in its tick or its sweep
  loop,         \* the loop it returns to when a settlement is over
  taken,        \* steps claimed in this tick
  starting,     \* claimed schedules whose run is not created yet
  job,          \* the ClaimedStep in hand
  stale,        \* steps read by stale_steps, not repaired yet
  queue,        \* runs the sweep still has to settle
  verdict,      \* the run and status settle_execution is about to write
  toAudit,      \* settled runs whose audit row is not written yet
  cancelling,   \* cancelled runs whose request has not audited yet
  audits,       \* settlement rows of audit_log per run
  owed,         \* history: due times passed minus scheduled starts
  crashes       \* bound on crashes

defs == <<workflow, owed>>
rows == <<lastRun, run, step>>
local == <<phase, loop, taken, starting, job, stale, queue, verdict, toAudit>>
record == <<cancelling, audits>>
vars == <<workflow, owed, lastRun, run, step, phase, loop, taken, starting, job,
          stale, queue, verdict, toAudit, cancelling, audits, crashes>>

OpenStatus == {"pending", "running", "waiting"}
FinalStatus == {"succeeded", "failed", "cancelled"}
Settled == {"completed", "failed", "cancelled"}

Workflow == [state : {"absent", "live", "gone"}, trigger : {"manual", "schedule"},
             enabled : BOOLEAN, due : BOOLEAN, plan : Plans]
Run == [status : {"absent", "running"} \cup Settled, workflow : Workflows]
Step == [status : {"absent"} \cup OpenStatus \cup FinalStatus,
         kind : Kinds, attempts : Nat, max : Nat,
         due : BOOLEAN, lease : {"none", "live", "expired"}]

NoStep == [status |-> "absent", kind |-> "task", attempts |-> 0, max |-> 0,
           due |-> FALSE, lease |-> "none"]
NewStep(def) == [status |-> "pending", kind |-> def.kind, attempts |-> 0,
                 max |-> def.max, due |-> TRUE, lease |-> "none"]

\* What a runner or a sweeper remembers of a step row.
Snapshot == [id : Steps, kind : Kinds, attempts : Nat, max : Nat]
SnapshotOf(s) == [id |-> s, kind |-> step[s].kind, attempts |-> step[s].attempts,
                  max |-> step[s].max]
NoJob == [id |-> <<0, 0>>, kind |-> "task", attempts |-> 0, max |-> 0]
NoVerdict == [run |-> 0, status |-> "running"]

Open(s) == step[s].status \in OpenStatus
StepsOf(x) == {s \in Steps : s[1] = x /\ step[s].status # "absent"}

\* The instance is working on the step: claimed, and no result written yet.
Executes(r, s) == phase[r] = "act" /\ job[r].id = s

Init ==
  /\ workflow = [w \in Workflows |->
                   [state |-> "absent", trigger |-> "manual", enabled |-> FALSE,
                    due |-> FALSE, plan |-> CHOOSE p \in Plans : TRUE]]
  /\ owed = [w \in Workflows |-> 0]
  /\ lastRun = 0
  /\ run = [x \in Runs |-> [status |-> "absent", workflow |-> CHOOSE w \in Workflows : TRUE]]
  /\ step = [s \in Steps |-> NoStep]
  /\ phase = [r \in Instances |-> "idle"]
  /\ loop = [r \in Instances |-> "claim"]
  /\ taken = [r \in Instances |-> 0]
  /\ starting = [r \in Instances |-> {}]
  /\ job = [r \in Instances |-> NoJob]
  /\ stale = [r \in Instances |-> {}]
  /\ queue = [r \in Instances |-> {}]
  /\ verdict = [r \in Instances |-> NoVerdict]
  /\ toAudit = [r \in Instances |-> {}]
  /\ cancelling = {}
  /\ audits = [x \in Runs |-> 0]
  /\ crashes = 0

-----------------------------------------------------------------------------
(* Definitions: writing one re-arms its schedule in the future *)

InsertWorkflow(w, trigger, plan) ==
  /\ workflow[w].state = "absent"
  /\ workflow' = [workflow EXCEPT ![w] = [state |-> "live", trigger |-> trigger,
                                          enabled |-> TRUE, due |-> FALSE,
                                          plan |-> plan]]
  /\ UNCHANGED <<owed, rows, local, record, crashes>>

\* A due time the update withdraws is no longer owed.
UpdateWorkflow(w, trigger, on, plan) ==
  /\ workflow[w].state = "live"
  /\ workflow' = [workflow EXCEPT ![w] = [state |-> "live", trigger |-> trigger,
                                          enabled |-> on, due |-> FALSE,
                                          plan |-> plan]]
  /\ owed' = [owed EXCEPT ![w] = IF workflow[w].due THEN owed[w] - 1 ELSE owed[w]]
  /\ UNCHANGED <<rows, local, record, crashes>>

\* The foreign keys cascade to the runs and their steps.
DeleteWorkflow(w) ==
  /\ workflow[w].state = "live"
  /\ workflow' = [workflow EXCEPT ![w] = [workflow[w] EXCEPT !.state = "gone",
                                                             !.due = FALSE]]
  /\ owed' = [owed EXCEPT ![w] = IF workflow[w].due THEN owed[w] - 1 ELSE owed[w]]
  /\ run' = [x \in Runs |-> IF run[x].workflow = w
                              THEN [run[x] EXCEPT !.status = "absent"] ELSE run[x]]
  /\ step' = [s \in Steps |-> IF run[s[1]].workflow = w THEN NoStep ELSE step[s]]
  /\ UNCHANGED <<lastRun, local, record, crashes>>

-----------------------------------------------------------------------------
(* Runs *)

\* create_execution_in: the run and every step of its definition, together.
CreateExecution(w) ==
  LET x == lastRun + 1
      plan == workflow[w].plan
  IN
  /\ lastRun' = x
  /\ run' = [run EXCEPT ![x] = [status |-> "running", workflow |-> w]]
  /\ step' = [s \in Steps |-> IF s[1] = x /\ s[2] \in DOMAIN plan
                                THEN NewStep(plan[s[2]]) ELSE step[s]]

\* A run an operator, or the automation matcher, starts.
StartRun(w) ==
  /\ workflow[w].state = "live"
  /\ lastRun < MaxRuns
  /\ CreateExecution(w)
  /\ UNCHANGED <<defs, local, record, crashes>>

\* The request's transaction; a step that is running is left to its runner.
CancelExecution(x) ==
  /\ run[x].status = "running"
  /\ run' = [run EXCEPT ![x] = [run[x] EXCEPT !.status = "cancelled"]]
  /\ step' = [s \in Steps |->
                IF s[1] = x /\ step[s].status \in {"pending", "waiting"}
                  THEN [step[s] EXCEPT !.status = "cancelled"] ELSE step[s]]
  /\ cancelling' = cancelling \cup {x}
  /\ UNCHANGED <<defs, lastRun, local, audits, crashes>>

\* The request's second write: its audit row.
AuditCancel(x) ==
  /\ x \in cancelling
  /\ cancelling' = cancelling \ {x}
  /\ audits' = [audits EXCEPT ![x] = audits[x] + 1]
  /\ UNCHANGED <<defs, rows, local, crashes>>

-----------------------------------------------------------------------------
(* The passage of time *)

ScheduleComesDue(w) ==
  /\ workflow[w].state = "live" /\ workflow[w].trigger = "schedule"
  /\ ~workflow[w].due
  /\ lastRun < MaxRuns /\ owed[w] < MaxOwed
  /\ workflow' = [workflow EXCEPT ![w] = [workflow[w] EXCEPT !.due = TRUE]]
  /\ owed' = [owed EXCEPT ![w] = owed[w] + 1]
  /\ UNCHANGED <<rows, local, record, crashes>>

StepComesDue(s) ==
  /\ step[s].status \in {"pending", "waiting"} /\ ~step[s].due
  /\ step' = [step EXCEPT ![s] = [step[s] EXCEPT !.due = TRUE]]
  /\ UNCHANGED <<defs, lastRun, run, local, record, crashes>>

\* The lease is longer than any built-in action: unless SlowActions, it only
\* runs out on a claim nobody works on any more.
LeaseExpires(s) ==
  /\ step[s].status = "running" /\ step[s].lease = "live"
  /\ SlowActions \/ \A r \in Instances : ~Executes(r, s)
  /\ step' = [step EXCEPT ![s] = [step[s] EXCEPT !.lease = "expired"]]
  /\ UNCHANGED <<defs, lastRun, run, local, record, crashes>>

-----------------------------------------------------------------------------
(* tick_with: due schedules first *)

DueSchedules ==
  {w \in Workflows : /\ workflow[w].state = "live" /\ workflow[w].enabled
                     /\ workflow[w].trigger = "schedule" /\ workflow[w].due}

\* Mutant: next_run_at is left where it was.
AdvanceNone(S) == workflow

\* Each claimed schedule's next due time is moved into the future.
AdvanceDueTimes(S) ==
  [w \in Workflows |-> IF w \in S THEN [workflow[w] EXCEPT !.due = FALSE]
                                  ELSE workflow[w]]

\* claim_due_schedules: one transaction that locks the rows it takes.
ClaimDueSchedules(r, S) ==
  /\ phase[r] = "idle"
  /\ S \subseteq DueSchedules
  /\ Cardinality(S) <= SchedulerBatch /\ (S = {} => DueSchedules = {})
  /\ workflow' = AdvanceDueTimes(S)
  /\ starting' = [starting EXCEPT ![r] = S]
  /\ phase' = [phase EXCEPT ![r] = IF S = {} THEN "claim" ELSE "start"]
  /\ loop' = [loop EXCEPT ![r] = "claim"]
  /\ taken' = [taken EXCEPT ![r] = 0]
  /\ UNCHANGED <<owed, rows, job, stale, queue, verdict, toAudit, record, crashes>>

\* A workflow deleted since the claim fails to start, which is only logged;
\* the bound on runs is modelled as such a failure.
StartScheduled(r, w) ==
  /\ phase[r] = "start" /\ w \in starting[r]
  /\ \/ /\ workflow[w].state = "live" /\ lastRun < MaxRuns
        /\ CreateExecution(w)
     \/ /\ ~(workflow[w].state = "live" /\ lastRun < MaxRuns)
        /\ UNCHANGED rows
  /\ owed' = [owed EXCEPT ![w] = owed[w] - 1]
  /\ starting' = [starting EXCEPT ![r] = starting[r] \ {w}]
  /\ phase' = [phase EXCEPT ![r] = IF starting[r] = {w} THEN "claim" ELSE "start"]
  /\ UNCHANGED <<workflow, loop, taken, job, stale, queue, verdict, toAudit,
                 record, crashes>>

-----------------------------------------------------------------------------
(* tick_with: then due steps *)

\* Mutant: a step that is running does not hold back the later ones.
UnblockedByRunning(s) ==
  \A e \in Steps : (e[1] = s[1] /\ e[2] < s[2])
                     => step[e].status \notin {"pending", "waiting"}

\* No earlier step of the run is open.
Unblocked(s) ==
  \A e \in Steps : (e[1] = s[1] /\ e[2] < s[2]) => ~Open(e)

Claimable(s) ==
  /\ run[s[1]].status = "running"
  /\ step[s].status \in {"pending", "waiting"}
  /\ step[s].due
  /\ Unblocked(s)

\* order by started_at, step_no limit 1.
NextDue(s) ==
  /\ Claimable(s)
  /\ \A t \in Steps : Claimable(t) => \/ s[1] < t[1]
                                      \/ s[1] = t[1] /\ s[2] <= t[2]

\* workflow_steps_attempts_shape: a wait is claimed to park and to resume.
AttemptsAllowed(row) == IF row.kind = "task" THEN row.max ELSE 2

\* Mutant: the table has no check constraint.
MayClaimUnchecked(s) == TRUE

MayClaim(s) == step[s].attempts < AttemptsAllowed(step[s])

ClaimDueStep(r, s) ==
  /\ phase[r] = "claim" /\ taken[r] < Batch
  /\ NextDue(s)
  /\ MayClaim(s)
  /\ step' = [step EXCEPT ![s] = [step[s] EXCEPT !.status = "running",
                                                 !.attempts = step[s].attempts + 1,
                                                 !.lease = "live"]]
  /\ job' = [job EXCEPT ![r] = [id |-> s, kind |-> step[s].kind,
                                attempts |-> step[s].attempts + 1, max |-> step[s].max]]
  /\ taken' = [taken EXCEPT ![r] = taken[r] + 1]
  /\ phase' = [phase EXCEPT ![r] = "act"]
  /\ UNCHANGED <<defs, lastRun, run, loop, starting, stale, queue, verdict, toAudit,
                 record, crashes>>

\* The check constraint refuses the claim, and the tick ends with the error.
ClaimRefused(r, s) ==
  /\ phase[r] = "claim" /\ taken[r] < Batch
  /\ NextDue(s)
  /\ ~MayClaim(s)
  /\ phase' = [phase EXCEPT ![r] = "idle"]
  /\ UNCHANGED <<defs, rows, loop, taken, starting, job, stale, queue, verdict,
                 toAudit, record, crashes>>

EndTick(r) ==
  /\ phase[r] = "claim"
  /\ taken[r] = Batch \/ \A s \in Steps : ~Claimable(s)
  /\ phase' = [phase EXCEPT ![r] = "idle"]
  /\ UNCHANGED <<defs, rows, loop, taken, starting, job, stale, queue, verdict,
                 toAudit, record, crashes>>

-----------------------------------------------------------------------------
(* The guarded step writes of store.rs *)

\* Mutant: the update tests the id only.
WriteAny(s, new) ==
  IF step[s].status # "absent" THEN [step EXCEPT ![s] = new] ELSE step

\* An update `where id = $1 and status = 'running'`.
WriteRunning(s, new) ==
  IF step[s].status = "running" THEN [step EXCEPT ![s] = new] ELSE step

CompleteStep(s) ==
  WriteRunning(s, [step[s] EXCEPT !.status = "succeeded", !.lease = "none"])

FailStep(s) ==
  WriteRunning(s, [step[s] EXCEPT !.status = "failed", !.lease = "none"])

SetStepWaiting(s) ==
  WriteRunning(s, [step[s] EXCEPT !.status = "waiting", !.lease = "none", !.due = FALSE])

\* available_at is now for the sweeper, one backoff away for a runner.
RetryStep(s, now) ==
  WriteRunning(s, [step[s] EXCEPT !.status = "pending", !.lease = "none", !.due = now])

CancelStep(s) ==
  IF Open(s) THEN [step EXCEPT ![s] = [step[s] EXCEPT !.status = "cancelled",
                                                      !.lease = "none"]]
             ELSE step

-----------------------------------------------------------------------------
(* advance_step *)

Acted(r, next) ==
  /\ phase' = [phase EXCEPT ![r] = next]
  /\ UNCHANGED <<defs, lastRun, run, loop, taken, starting, job, stale, queue,
                 verdict, toAudit, record, crashes>>

\* The first claim of a wait parks it.
ParkWait(r) ==
  /\ phase[r] = "act" /\ job[r].kind = "wait" /\ job[r].attempts <= 1
  /\ step' = SetStepWaiting(job[r].id)
  /\ Acted(r, "after")

\* A wait claimed again resumes; a task's action may succeed.
StepSucceeds(r) ==
  /\ phase[r] = "act"
  /\ job[r].kind = "wait" => job[r].attempts > 1
  /\ step' = CompleteStep(job[r].id)
  /\ Acted(r, "after")

\* Mutant: one attempt too many.
MayRetryOnce(snapshot) == snapshot.attempts <= snapshot.max

MayRetry(snapshot) == snapshot.attempts < snapshot.max

\* The action failed with attempts left; the run is not looked at again.
StepRetries(r) ==
  /\ phase[r] = "act" /\ job[r].kind = "task" /\ MayRetry(job[r])
  /\ step' = RetryStep(job[r].id, FALSE)
  /\ Acted(r, "claim")

StepFails(r) ==
  /\ phase[r] = "act" /\ job[r].kind = "task" /\ ~MayRetry(job[r])
  /\ step' = FailStep(job[r].id)
  /\ Acted(r, "after")

\* settle_after_step reads the run: gone, running, or settled meanwhile.
ReadExecution(r) ==
  LET status == run[job[r].id[1]].status IN
  /\ phase[r] = "after"
  /\ phase' = [phase EXCEPT ![r] = CASE status = "absent" -> "claim"
                                     [] status = "running" -> "count"
                                     [] OTHER -> "close"]
  /\ UNCHANGED <<defs, rows, loop, taken, starting, job, stale, queue, verdict,
                 toAudit, record, crashes>>

CloseStep(r) ==
  /\ phase[r] = "close"
  /\ step' = CancelStep(job[r].id)
  /\ Acted(r, "claim")

-----------------------------------------------------------------------------
(* settle_execution, and the audit row of the call that settled the run *)

Has(x, status) == \E s \in StepsOf(x) : step[s].status = status

Outcome(x) == IF Has(x, "failed") THEN "failed"
              ELSE IF Has(x, "cancelled") THEN "cancelled" ELSE "completed"

\* Mutant: a parked wait does not keep the run open.
HasOpenExceptWaits(x) ==
  \E s \in StepsOf(x) : step[s].status \in {"pending", "running"}

HasOpen(x) == \E s \in StepsOf(x) : Open(s)

\* The count: an open step ends the call.
CountSteps(r, x) ==
  /\ verdict' = [verdict EXCEPT ![r] = IF HasOpen(x) THEN NoVerdict
                                       ELSE [run |-> x, status |-> Outcome(x)]]
  /\ phase' = [phase EXCEPT ![r] = IF HasOpen(x) THEN loop[r] ELSE "write"]
  /\ UNCHANGED <<defs, rows, loop, taken, starting, job, stale, toAudit, record, crashes>>

SettleAfterStep(r) ==
  /\ phase[r] = "count"
  /\ CountSteps(r, job[r].id[1])
  /\ UNCHANGED queue

\* The touched runs, and later the orphaned ones, one after the other.
SettleQueued(r, x) ==
  /\ phase[r] \in {"touched", "reconcile"} /\ x \in queue[r]
  /\ CountSteps(r, x)
  /\ queue' = [queue EXCEPT ![r] = queue[r] \ {x}]

\* Mutant: the update finds the row whatever its status.
StillRunningAny(x) == run[x].status # "absent"

StillRunning(x) == run[x].status = "running"

\* The update: only the call that changes the row reports a settlement.
WriteVerdict(r) ==
  LET x == verdict[r].run IN
  /\ phase[r] = "write"
  /\ run' = IF StillRunning(x)
              THEN [run EXCEPT ![x] = [run[x] EXCEPT !.status = verdict[r].status]]
              ELSE run
  /\ toAudit' = [toAudit EXCEPT ![r] = IF StillRunning(x) THEN toAudit[r] \cup {x}
                                                          ELSE toAudit[r]]
  /\ phase' = [phase EXCEPT ![r] = IF StillRunning(x) /\ loop[r] # "reconcile"
                                     THEN "audit" ELSE loop[r]]
  /\ verdict' = [verdict EXCEPT ![r] = NoVerdict]
  /\ UNCHANGED <<defs, lastRun, step, loop, taken, starting, job, stale, queue,
                 record, crashes>>

\* record_settlement; the sweep looks the run up again first.
AuditSettlement(r, x) ==
  /\ phase[r] = "audit" /\ x \in toAudit[r]
  /\ audits' = [audits EXCEPT ![x] = IF loop[r] = "claim" \/ run[x].status # "absent"
                                       THEN audits[x] + 1 ELSE audits[x]]
  /\ toAudit' = [toAudit EXCEPT ![r] = toAudit[r] \ {x}]
  /\ phase' = [phase EXCEPT ![r] = CASE toAudit[r] # {x} -> "audit"
                                     [] toAudit[r] = {x} /\ loop[r] = "reconcile" -> "idle"
                                     [] OTHER -> loop[r]]
  /\ UNCHANGED <<defs, rows, loop, taken, starting, job, stale, queue, verdict,
                 cancelling, crashes>>

-----------------------------------------------------------------------------
(* sweep *)

\* resolve_due_waits closes a batch of due waits without claiming them.
ResolveDueWaits(r, S) ==
  LET due == {s \in Steps : /\ step[s].status = "waiting" /\ step[s].due
                            /\ run[s[1]].status = "running"}
  IN
  /\ phase[r] = "idle"
  /\ S \subseteq due /\ Cardinality(S) <= SweepBatch /\ (S = {} => due = {})
  /\ step' = [s \in Steps |-> IF s \in S THEN [step[s] EXCEPT !.status = "succeeded"]
                                         ELSE step[s]]
  /\ queue' = [queue EXCEPT ![r] = {s[1] : s \in S}]
  /\ loop' = [loop EXCEPT ![r] = "touched"]
  /\ phase' = [phase EXCEPT ![r] = "stale"]
  /\ UNCHANGED <<defs, lastRun, run, taken, starting, job, stale, verdict, toAudit,
                 record, crashes>>

\* stale_steps: a plain read of the claims whose lease ran out.
StaleSteps(r, S) ==
  LET expired == {s \in Steps : /\ step[s].status = "running"
                                /\ step[s].lease = "expired"
                                /\ run[s[1]].status = "running"}
  IN
  /\ phase[r] = "stale"
  /\ S \subseteq expired /\ Cardinality(S) <= SweepBatch /\ (S = {} => expired = {})
  /\ stale' = [stale EXCEPT ![r] = {SnapshotOf(s) : s \in S}]
  /\ phase' = [phase EXCEPT ![r] = IF S = {} THEN "touched" ELSE "reclaim"]
  /\ UNCHANGED <<defs, rows, loop, taken, starting, job, queue, verdict, toAudit,
                 record, crashes>>

\* What the snapshot says is written to the row as it is now.
Reclaimed(c) ==
  CASE c.kind = "wait" /\ c.attempts > 1  -> CompleteStep(c.id)
    [] c.kind = "wait" /\ c.attempts <= 1 -> SetStepWaiting(c.id)
    [] c.kind = "task" /\ MayRetry(c)     -> RetryStep(c.id, TRUE)
    [] c.kind = "task" /\ ~MayRetry(c)    -> FailStep(c.id)

\* reclaim_stale_steps, one step.
ReclaimStep(r, c) ==
  /\ phase[r] = "reclaim" /\ c \in stale[r]
  /\ step' = Reclaimed(c)
  /\ stale' = [stale EXCEPT ![r] = stale[r] \ {c}]
  /\ queue' = [queue EXCEPT ![r] = queue[r] \cup {c.id[1]}]
  /\ phase' = [phase EXCEPT ![r] = IF stale[r] = {c} THEN "touched" ELSE "reclaim"]
  /\ UNCHANGED <<defs, lastRun, run, loop, taken, starting, job, verdict, toAudit,
                 record, crashes>>

\* Mutant: only runs with a failed step are looked for.
OrphanedFailed == {x \in Runs : run[x].status = "running" /\ ~HasOpen(x) /\ Has(x, "failed")}

Orphaned == {x \in Runs : run[x].status = "running" /\ ~HasOpen(x)}

\* reconcile_executions: read the runs left open, then settle each.
Reconcile(r, S) ==
  /\ phase[r] = "touched" /\ queue[r] = {}
  /\ S \subseteq Orphaned /\ Cardinality(S) <= SweepBatch /\ (S = {} => Orphaned = {})
  /\ queue' = [queue EXCEPT ![r] = S]
  /\ loop' = [loop EXCEPT ![r] = "reconcile"]
  /\ phase' = [phase EXCEPT ![r] = "reconcile"]
  /\ UNCHANGED <<defs, rows, taken, starting, job, stale, verdict, toAudit,
                 record, crashes>>

EndSweep(r) ==
  /\ phase[r] = "reconcile" /\ queue[r] = {}
  /\ phase' = [phase EXCEPT ![r] = IF toAudit[r] = {} THEN "idle" ELSE "audit"]
  /\ UNCHANGED <<defs, rows, loop, taken, starting, job, stale, queue, verdict,
                 toAudit, record, crashes>>

-----------------------------------------------------------------------------
(* Failures: the process stops, or a statement fails and ends the pass *)

Crash(r) ==
  /\ phase[r] # "idle" /\ crashes < MaxCrashes
  /\ crashes' = crashes + 1
  /\ phase' = [phase EXCEPT ![r] = "idle"]
  /\ starting' = [starting EXCEPT ![r] = {}]
  /\ job' = [job EXCEPT ![r] = NoJob]
  /\ stale' = [stale EXCEPT ![r] = {}]
  /\ queue' = [queue EXCEPT ![r] = {}]
  /\ verdict' = [verdict EXCEPT ![r] = NoVerdict]
  /\ toAudit' = [toAudit EXCEPT ![r] = {}]
  /\ UNCHANGED <<defs, rows, loop, taken, record>>

\* The cancelling request dies between its two writes.
RequestDies(x) ==
  /\ x \in cancelling /\ crashes < MaxCrashes
  /\ crashes' = crashes + 1
  /\ cancelling' = cancelling \ {x}
  /\ UNCHANGED <<defs, rows, local, audits>>

Tick(r) ==
  \/ \E w \in Workflows : StartScheduled(r, w)
  \/ \E s \in Steps : ClaimDueStep(r, s) \/ ClaimRefused(r, s)
  \/ EndTick(r)
  \/ ParkWait(r) \/ StepSucceeds(r) \/ StepRetries(r) \/ StepFails(r)
  \/ ReadExecution(r) \/ CloseStep(r) \/ SettleAfterStep(r)

Sweep(r) ==
  \/ \E S \in SUBSET Steps : StaleSteps(r, S)
  \/ \E c \in stale[r] : ReclaimStep(r, c)
  \/ \E x \in queue[r] : SettleQueued(r, x)
  \/ \E S \in SUBSET Runs : Reconcile(r, S)
  \/ EndSweep(r)

Continue(r) ==
  \/ Tick(r) \/ Sweep(r) \/ WriteVerdict(r)
  \/ \E x \in toAudit[r] : AuditSettlement(r, x)

BeginTick(r) == \E S \in SUBSET Workflows : ClaimDueSchedules(r, S)
BeginSweep(r) == \E S \in SUBSET Steps : ResolveDueWaits(r, S)

Operator ==
  \/ \E w \in Workflows :
       \/ \E trigger \in Triggers, plan \in Plans :
            \/ InsertWorkflow(w, trigger, plan)
            \/ \E on \in BOOLEAN : UpdateWorkflow(w, trigger, on, plan)
       \/ DeleteWorkflow(w)
       \/ StartRun(w)
  \/ \E x \in Runs : CancelExecution(x) \/ AuditCancel(x) \/ RequestDies(x)

Time ==
  \/ \E w \in Workflows : ScheduleComesDue(w)
  \/ \E s \in Steps : StepComesDue(s) \/ LeaseExpires(s)

Next ==
  \/ Operator
  \/ Time
  \/ \E r \in Instances : BeginTick(r) \/ BeginSweep(r) \/ Continue(r) \/ Crash(r)

Spec == Init /\ [][Next]_vars

\* The loop of workflow_runner keeps serving both of its intervals, and time
\* passes.
Fairness ==
  /\ \A r \in Instances : /\ WF_vars(Continue(r))
                          /\ SF_vars(BeginTick(r)) /\ SF_vars(BeginSweep(r))
  /\ \A s \in Steps : WF_vars(StepComesDue(s)) /\ WF_vars(LeaseExpires(s))

FairSpec == Spec /\ Fairness

-----------------------------------------------------------------------------
(* Properties *)

Phases == {"idle", "start", "claim", "act", "after", "close", "count", "write",
           "audit", "stale", "reclaim", "touched", "reconcile"}

\* Every variable holds a value of its column or Rust type, and no step row
\* breaks the check constraint on its attempts.
TypeOK ==
  /\ workflow \in [Workflows -> Workflow]
  /\ owed \in [Workflows -> Int]
  /\ lastRun \in 0 .. MaxRuns
  /\ run \in [Runs -> Run]
  /\ step \in [Steps -> Step]
  /\ \A s \in Steps : step[s].attempts <= AttemptsAllowed(step[s])
  /\ phase \in [Instances -> Phases]
  /\ loop \in [Instances -> {"claim", "touched", "reconcile"}]
  /\ taken \in [Instances -> Nat]
  /\ starting \in [Instances -> SUBSET Workflows]
  /\ job \in [Instances -> Snapshot \cup {NoJob}]
  /\ stale \in [Instances -> SUBSET Snapshot]
  /\ queue \in [Instances -> SUBSET Runs]
  /\ verdict \in [Instances -> [run : Runs, status : Settled] \cup {NoVerdict}]
  /\ toAudit \in [Instances -> SUBSET Runs]
  /\ cancelling \in SUBSET Runs
  /\ audits \in [Runs -> Nat]
  /\ crashes \in Nat

\* A settled run tells the truth about its steps: `completed` means every step
\* succeeded, and `failed` means all are closed and one failed -- although the
\* status settle_execution writes was derived from an earlier read, while other
\* instances, sweepers and cancelling requests kept writing.
SettledTruth ==
  \A x \in Runs :
    /\ run[x].status = "completed" => \A s \in StepsOf(x) : step[s].status = "succeeded"
    /\ run[x].status = "failed" => ~HasOpen(x) /\ Has(x, "failed")

\* Steps run in order: once a step has been claimed, every earlier step of the
\* run is closed and stays closed, whatever late runners and sweepers write.
InOrder ==
  \A s, e \in Steps :
    (s[1] = e[1] /\ e[2] < s[2] /\ step[s].attempts > 0) => ~Open(e)

\* A settlement or a cancellation is audited at most once, whichever of the
\* runners, the sweepers and the cancelling request closes the run.
AuditedOnce == \A x \in Runs : audits[x] <= 1

\* A due time starts at most one run, with every instance reading the schedule,
\* and is lost only by a crash between its claim and the creation of its run.
DueTimesAccounted ==
  \A w \in Workflows :
    LET held == Cardinality({r \in Instances : w \in starting[r]})
                  + (IF workflow[w].due THEN 1 ELSE 0)
    IN owed[w] \in held .. (held + crashes)

\* A closed step and a settled run are final: only deleting the workflow
\* removes them.  Every write is guarded by the status it expects.
FinalStaysFinal ==
  [][/\ \A s \in Steps : step[s].status \in FinalStatus
                           => step'[s].status \in {step[s].status, "absent"}
     /\ \A x \in Runs : run[x].status \in Settled
                          => run'[x].status \in {run[x].status, "absent"}]_vars

\* No open row has used up the claims its check constraint allows, so no claim
\* is refused and no tick is ended by one.
ClaimsRemain ==
  \A s \in Steps : step[s].status \in {"pending", "waiting"} => MayClaim(s)

\* Every run is settled in the end (or deleted with its workflow), through
\* crashes, lost claims and runs left open without a step.
RunsSettle == \A x \in Runs : run[x].status = "running" ~> run[x].status # "running"
=============================================================================
