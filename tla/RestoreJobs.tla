---------------------------- MODULE RestoreJobs -----------------------------
(***************************************************************************)
(* Queued restores: backup_restore_jobs, the operator's queue and cancel   *)
(* routes, the restore worker of every API instance, and the two ways a    *)
(* run disappears under its jobs.  A tick of the worker gives up jobs that *)
(* are more than an hour old, lists the queued ones and runs them in turn: *)
(* claim, cancel check, plan, safety backup, objects, outcome.             *)
(*                                                                         *)
(* Every SQL statement is one step and carries the where clause of the     *)
(* code; the table's checks refuse what they refuse.  Reading the archive  *)
(* and taking a backup end well or badly, as they may.  Parts, prices and  *)
(* phrases are left out: they decide which of these ends is met.           *)
(***************************************************************************)
EXTENDS Naturals, FiniteSets

CONSTANTS
  Runs,       \* backup runs that can be restored
  NJobs,      \* bound: restore jobs ever queued
  Workers,    \* restore workers, one per API instance
  MaxFaults   \* bound: statements that fail and workers that stop

ASSUME RestoreConstantsOK ==
  Runs # {} /\ NJobs \in Nat \ {0} /\ MaxFaults \in Nat

Jobs == 1 .. NJobs
Live == {"queued", "running"}
Settled == {"succeeded", "failed", "aborted"}

VARIABLES
  rows,     \* runs that have a row in backups
  job,      \* backup_restore_jobs, by id in the order of created_at
  safety,   \* the safety backup taken for each job
  worker,   \* local state of every worker
  faults,   \* faults so far, for the bound
  asked,    \* history: jobs a cancel was recorded for
  wrote     \* history: jobs that began to write objects

vars == <<rows, job, safety, worker, faults, asked, wrote>>

\* old: created more than QUEUE_MAX_AGE_MINUTES ago.  A job whose run was deleted
\* is deleted with it.
Job == [status : {"absent", "deleted"} \cup Live \cup Settled, of : Runs,
        cancel : BOOLEAN, started : BOOLEAN, old : BOOLEAN]
NoJob == [status |-> "absent", of |-> CHOOSE b \in Runs : TRUE,
          cancel |-> FALSE, started |-> FALSE, old |-> FALSE]

\* A worker: the stale rows it read and has still to write, the queued ones it
\* listed and has still to run, and the job it runs.
Worker == [phase : {"idle", "stale", "next", "abort", "check", "plan", "safety",
                    "objects", "finish"},
           stale : SUBSET (Jobs \X Live), queue : SUBSET Jobs, at : Jobs]
IdleWorker == [phase |-> "idle", stale |-> {}, queue |-> {}, at |-> 1]

Init ==
  /\ rows = Runs
  /\ job = [j \in Jobs |-> NoJob]
  /\ safety = [j \in Jobs |-> "none"]
  /\ worker = [w \in Workers |-> IdleWorker]
  /\ faults = 0
  /\ asked = {} /\ wrote = {}

-----------------------------------------------------------------------------
(* The table *)

\* Mutant: the unique index covers queued jobs only.
LiveJobsQueued(b) == {j \in Jobs : job[j].status = "queued" /\ job[j].of = b}

LiveJobs(b) == {j \in Jobs : job[j].status \in Live /\ job[j].of = b}

\* The abort check: an aborted row never started and was asked to stop.
AbortAllowed(started, cancel) == ~started /\ cancel

\* The row of a job with another status, flag and start.
Row(j, s, c, st) ==
  [status |-> s, of |-> job[j].of, cancel |-> c, started |-> st, old |-> job[j].old]

Write(j, row) == job' = [job EXCEPT ![j] = row]

-----------------------------------------------------------------------------
(* Operators and time *)

\* The route reads the run and its artifacts before it inserts, so both may be
\* gone by then: without the run's row the insert breaks the foreign key, and the
\* unique index refuses a second live job of the run.
QueueRestore(b) ==
  /\ b \in rows
  /\ LiveJobs(b) = {}
  /\ \E j \in Jobs :
       /\ job[j].status = "absent"
       /\ \A i \in 1 .. j - 1 : job[i].status # "absent"
       /\ Write(j, [status |-> "queued", of |-> b, cancel |-> FALSE,
                    started |-> FALSE, old |-> FALSE])
  /\ UNCHANGED <<rows, safety, worker, faults, asked, wrote>>

\* The first statement of a cancel flags a job that is still queued.
Cancellable(j) == job[j].status = "queued"

RequestCancel(j) ==
  /\ Cancellable(j)
  /\ Write(j, Row(j, job[j].status, TRUE, job[j].started))
  /\ asked' = asked \cup {j}
  /\ UNCHANGED <<rows, safety, worker, faults, wrote>>

\* The second closes it, unless a worker claimed it in between.
SettleCancel(j) ==
  /\ job[j].status = "queued" /\ job[j].cancel
  /\ Write(j, Row(j, "aborted", TRUE, FALSE))
  /\ UNCHANGED <<rows, safety, worker, faults, asked, wrote>>

\* The delete route and the retention sweep remove a run whatever its jobs do;
\* the jobs go with the row.
DeleteRun(b) ==
  /\ b \in rows
  /\ rows' = rows \ {b}
  /\ job' = [j \in Jobs |->
               IF job[j].of = b /\ job[j].status # "absent"
                 THEN [status |-> "deleted", of |-> b, cancel |-> FALSE,
                       started |-> FALSE, old |-> FALSE]
                 ELSE job[j]]
  /\ UNCHANGED <<safety, worker, faults, asked, wrote>>

\* Mutant: the reference is cleared without a check.
DeleteSafetyAlways(j) ==
  /\ safety[j] = "whole"
  /\ safety' = [safety EXCEPT ![j] = "gone"]
  /\ UNCHANGED <<rows, job, worker, faults, asked, wrote>>

\* Deleting a safety backup clears the reference to it, which the table refuses
\* of a succeeded job.
DeleteSafety(j) ==
  /\ safety[j] = "whole" /\ job[j].status # "succeeded"
  /\ safety' = [safety EXCEPT ![j] = "gone"]
  /\ UNCHANGED <<rows, job, worker, faults, asked, wrote>>

Ages(j) ==
  /\ job[j].status \in Live /\ ~job[j].old
  /\ Write(j, [status |-> job[j].status, of |-> job[j].of, cancel |-> job[j].cancel,
               started |-> job[j].started, old |-> TRUE])
  /\ UNCHANGED <<rows, safety, worker, faults, asked, wrote>>

-----------------------------------------------------------------------------
(* A tick: the stale sweep, then the queue *)

Becomes(w, phase, stale, queue, j) ==
  worker' = [worker EXCEPT ![w] = [phase |-> phase, stale |-> stale, queue |-> queue, at |-> j]]

GoesOn(w) == Becomes(w, "next", {}, worker[w].queue, 1)
GoesIdle(w) == worker' = [worker EXCEPT ![w] = IdleWorker]
MovesTo(w, phase) == Becomes(w, phase, {}, worker[w].queue, worker[w].at)

\* Mutant: the sweep looks at queued rows only.
StaleQueued(j) == job[j].status = "queued" /\ job[j].old

Stale(j) == job[j].status \in Live /\ job[j].old

ReadStale(w) ==
  /\ worker[w].phase = "idle"
  /\ Becomes(w, "stale", {<<j, job[j].status>> : j \in {i \in Jobs : Stale(i)}}, {}, 1)
  /\ UNCHANGED <<rows, job, safety, faults, asked, wrote>>

\* What the sweep writes follows the status it read; the where clause looks at
\* the status there is now.
GivenUp(was) == IF was = "running" THEN "failed" ELSE "aborted"

\* Mutant: the table has no abort check.
StaleRefusedNever(j, was) == FALSE

\* A row read as queued and claimed since is refused by the abort check.
StaleRefused(j, was) ==
  GivenUp(was) = "aborted" /\ ~AbortAllowed(job[j].started, TRUE)

Oldest(p, S) == p \in S /\ \A q \in S : p[1] <= q[1]

GiveUp(w) ==
  /\ worker[w].phase = "stale"
  /\ \E p \in worker[w].stale :
       /\ Oldest(p, worker[w].stale)
       /\ job[p[1]].status \in Live /\ ~StaleRefused(p[1], p[2])
       /\ Write(p[1], Row(p[1], GivenUp(p[2]), p[2] = "queued", job[p[1]].started))
       /\ Becomes(w, "stale", worker[w].stale \ {p}, {}, 1)
  /\ UNCHANGED <<rows, safety, faults, asked, wrote>>

\* Somebody settled or deleted the row meanwhile.
GiveUpNothing(w) ==
  /\ worker[w].phase = "stale"
  /\ \E p \in worker[w].stale :
       /\ Oldest(p, worker[w].stale)
       /\ job[p[1]].status \notin Live
       /\ Becomes(w, "stale", worker[w].stale \ {p}, {}, 1)
  /\ UNCHANGED <<rows, job, safety, faults, asked, wrote>>

\* The refusal is an error, and the error ends the tick.
GiveUpRefused(w) ==
  /\ worker[w].phase = "stale"
  /\ \E p \in worker[w].stale :
       /\ Oldest(p, worker[w].stale)
       /\ job[p[1]].status \in Live /\ StaleRefused(p[1], p[2])
  /\ GoesIdle(w)
  /\ UNCHANGED <<rows, job, safety, faults, asked, wrote>>

ReadQueued(w) ==
  /\ worker[w].phase = "stale" /\ worker[w].stale = {}
  /\ Becomes(w, "next", {}, {j \in Jobs : job[j].status = "queued"}, 1)
  /\ UNCHANGED <<rows, job, safety, faults, asked, wrote>>

TickEnds(w) ==
  /\ worker[w].phase = "next" /\ worker[w].queue = {}
  /\ GoesIdle(w)
  /\ UNCHANGED <<rows, job, safety, faults, asked, wrote>>

-----------------------------------------------------------------------------
(* One job *)

OldestQueued(w, j) == j \in worker[w].queue /\ \A i \in worker[w].queue : j <= i

\* A cancel that came before the claim is honoured by the claim.
AfterClaim(j) == IF job[j].cancel THEN "abort" ELSE "check"

Claim(w) ==
  /\ worker[w].phase = "next"
  /\ \E j \in worker[w].queue :
       /\ OldestQueued(w, j)
       /\ job[j].status = "queued"
       /\ Write(j, Row(j, "running", job[j].cancel, TRUE))
       /\ Becomes(w, AfterClaim(j), {}, worker[w].queue \ {j}, j)
  /\ UNCHANGED <<rows, safety, faults, asked, wrote>>

ClaimsNothing(w) ==
  /\ worker[w].phase = "next"
  /\ \E j \in worker[w].queue :
       /\ OldestQueued(w, j)
       /\ job[j].status # "queued"
       /\ Becomes(w, "next", {}, worker[w].queue \ {j}, 1)
  /\ UNCHANGED <<rows, job, safety, faults, asked, wrote>>

\* The abort clears the start, which the abort check needs.
Abort(w) ==
  LET j == worker[w].at IN
  /\ worker[w].phase = "abort"
  /\ job' = IF job[j].status = "running" /\ job[j].cancel
              THEN [job EXCEPT ![j] = Row(j, "aborted", TRUE, FALSE)] ELSE job
  /\ GoesOn(w)
  /\ UNCHANGED <<rows, safety, faults, asked, wrote>>

\* finish_restore_job(false, ...).
Failed(j) ==
  IF job[j].status = "running"
    THEN [job EXCEPT ![j] = Row(j, "failed", job[j].cancel, job[j].started)] ELSE job

\* An abort that could not be written becomes a failure.
AbortFails(w) ==
  /\ worker[w].phase = "abort" /\ faults < MaxFaults
  /\ job' = Failed(worker[w].at)
  /\ GoesOn(w)
  /\ faults' = faults + 1
  /\ UNCHANGED <<rows, safety, asked, wrote>>

\* The flag is only ever set on a queued row, so this second look finds one only
\* where the claim has found it.
CheckCancel(w) ==
  /\ worker[w].phase = "check"
  /\ MovesTo(w, IF job[worker[w].at].cancel THEN "abort" ELSE "plan")
  /\ UNCHANGED <<rows, job, safety, faults, asked, wrote>>

\* The run, its settings, its phrase and its artifacts are read again.
Plan(w) ==
  /\ worker[w].phase = "plan"
  /\ job[worker[w].at].of \in rows
  /\ MovesTo(w, "safety")
  /\ UNCHANGED <<rows, job, safety, faults, asked, wrote>>

\* A deleted run is an error of run_one, and the tick goes on with the next job.
PlanLost(w) ==
  /\ worker[w].phase = "plan"
  /\ job[worker[w].at].of \notin rows
  /\ GoesOn(w)
  /\ UNCHANGED <<rows, job, safety, faults, asked, wrote>>

\* Another phrase, no price, no artifact; a safety backup that is refused or
\* incomplete; a media index that cannot be read: the job fails.
Refused(w) ==
  /\ worker[w].phase \in {"plan", "safety", "objects"}
  /\ worker[w].phase = "plan" => job[worker[w].at].of \in rows
  /\ job' = Failed(worker[w].at)
  /\ GoesOn(w)
  /\ UNCHANGED <<rows, safety, faults, asked, wrote>>

TakeSafety(w) ==
  /\ worker[w].phase = "safety"
  /\ safety' = [safety EXCEPT ![worker[w].at] = "whole"]
  /\ MovesTo(w, "objects")
  /\ UNCHANGED <<rows, job, faults, asked, wrote>>

\* Objects are written from here until the outcome is recorded; a run without a
\* media part has none to write.
Objects(w) ==
  /\ worker[w].phase = "objects"
  /\ wrote' \in {wrote, wrote \cup {worker[w].at}}
  /\ MovesTo(w, "finish")
  /\ UNCHANGED <<rows, job, safety, faults, asked>>

\* Mutant: the outcome is written by id alone.
FinishAnyStatus(w) ==
  LET j == worker[w].at IN
  /\ worker[w].phase = "finish"
  /\ job' = IF job[j].status # "deleted" /\ safety[j] = "whole"
              THEN [job EXCEPT ![j] = Row(j, "succeeded", job[j].cancel, job[j].started)]
              ELSE job
  /\ GoesOn(w)
  /\ UNCHANGED <<rows, safety, faults, asked, wrote>>

\* finish_restore_job(true, ...): a safety backup deleted meanwhile breaks the
\* foreign key, and the row stays running.
Finish(w) ==
  LET j == worker[w].at IN
  /\ worker[w].phase = "finish"
  /\ job' = IF job[j].status = "running" /\ safety[j] = "whole"
              THEN [job EXCEPT ![j] = Row(j, "succeeded", job[j].cancel, job[j].started)]
              ELSE job
  /\ GoesOn(w)
  /\ UNCHANGED <<rows, safety, faults, asked, wrote>>

\* A statement of run_one fails: the row stays as it is.
Drop(w) ==
  /\ worker[w].phase \in {"abort", "check", "plan", "safety", "objects", "finish"}
  /\ faults < MaxFaults
  /\ GoesOn(w)
  /\ faults' = faults + 1
  /\ UNCHANGED <<rows, job, safety, asked, wrote>>

\* The instance stops and starts again, or the tick ends with an error.
Crash(w) ==
  /\ worker[w].phase # "idle" /\ faults < MaxFaults
  /\ GoesIdle(w)
  /\ faults' = faults + 1
  /\ UNCHANGED <<rows, job, safety, asked, wrote>>

-----------------------------------------------------------------------------
(* Specification *)

Step(w) ==
  \/ ReadStale(w) \/ GiveUp(w) \/ GiveUpNothing(w) \/ GiveUpRefused(w)
  \/ ReadQueued(w) \/ TickEnds(w)
  \/ Claim(w) \/ ClaimsNothing(w) \/ Abort(w) \/ CheckCancel(w)
  \/ Plan(w) \/ PlanLost(w) \/ Refused(w) \/ TakeSafety(w) \/ Objects(w) \/ Finish(w)

Fault(w) == AbortFails(w) \/ Drop(w) \/ Crash(w)

Desk ==
  \/ \E b \in Runs : QueueRestore(b) \/ DeleteRun(b)
  \/ \E j \in Jobs : RequestCancel(j) \/ SettleCancel(j) \/ DeleteSafety(j)

Next ==
  \/ Desk
  \/ \E j \in Jobs : Ages(j)
  \/ \E w \in Workers : Step(w) \/ Fault(w)

Spec == Init /\ [][Next]_vars

\* The interval of every worker keeps firing, its statements answer, and time
\* passes.
FairSpec ==
  /\ Spec
  /\ \A w \in Workers : WF_vars(Step(w))
  /\ \A j \in Jobs : WF_vars(Ages(j))

-----------------------------------------------------------------------------
(* Properties *)

\* Rows keep the table's checks (a queued row has not started, a running, failed
\* or succeeded one has, an aborted one has not and was asked to stop), and a
\* succeeded job still has its safety backup.
TypeOK ==
  /\ rows \subseteq Runs
  /\ job \in [Jobs -> Job]
  /\ safety \in [Jobs -> {"none", "whole", "gone"}]
  /\ worker \in [Workers -> Worker]
  /\ faults \in 0 .. MaxFaults
  /\ asked \subseteq Jobs /\ wrote \subseteq Jobs
  /\ \A j \in Jobs :
       /\ job[j].status = "queued" => ~job[j].started
       /\ job[j].status \in {"running", "failed", "succeeded"} => job[j].started
       /\ job[j].status = "aborted" => AbortAllowed(job[j].started, job[j].cancel)
       /\ job[j].status = "succeeded" => safety[j] = "whole"

\* A cancel the route has recorded is honoured, and an aborted job has written
\* nothing and never will: the row never says "nothing was changed" of a restore
\* some worker is carrying out, whoever raced whom.
StoppedNeverWrites ==
  /\ \A j \in Jobs :
       j \in asked \/ job[j].status = "aborted" => j \notin wrote
  /\ \A w \in Workers :
       worker[w].phase \in {"plan", "safety", "objects", "finish"}
         => worker[w].at \notin asked /\ job[worker[w].at].status # "aborted"

Restoring(w) == worker[w].phase \in {"safety", "objects", "finish"}

\* Two workers never run the same job, and two restores of one run overlap only
\* when a job that is still being carried out was given up for its age or lost its
\* run.
OverlapIsAfterGivingUp ==
  \A v, w \in Workers :
    v # w /\ Restoring(v) /\ Restoring(w) /\ job[worker[v].at].of = job[worker[w].at].of
      => /\ worker[v].at # worker[w].at
         /\ \E x \in {v, w} :
              /\ job[worker[x].at].status # "running"
              /\ job[worker[x].at].old \/ job[worker[x].at].status = "deleted"

\* A settled job is never settled again: a late worker does not rewrite the
\* outcome the sweep recorded, nor the sweep the worker's.
SettledIsFinal ==
  [][\A j \in Jobs : job[j].status \in Settled
                       => job'[j].status \in {job[j].status, "deleted"}]_vars

\* Every queued restore ends, whatever fails: nothing spins for ever, and the run
\* can be restored again.
JobsSettle == \A j \in Jobs : (job[j].status \in Live) ~> (job[j].status \notin Live)
=============================================================================
