------------------------- MODULE RestoreJobsProofs --------------------------
(***************************************************************************)
(* Proofs about RestoreJobs, for every number of runs, jobs, workers and   *)
(* faults.                                                                 *)
(***************************************************************************)
EXTENDS RestoreJobs, TLAPS

Busy == {"abort", "check", "plan", "safety", "objects", "finish"}
Phases == {"idle", "stale", "next"} \cup Busy
Statuses == {"absent", "deleted"} \cup Live \cup Settled

-----------------------------------------------------------------------------
(* Types *)

\* The table's checks on one row.
Checked(j) ==
  /\ job[j].status = "queued" => ~job[j].started
  /\ job[j].status \in {"running", "failed", "succeeded"} => job[j].started
  /\ job[j].status = "aborted" => AbortAllowed(job[j].started, job[j].cancel)
  /\ job[j].status = "succeeded" => safety[j] = "whole"

\* A row the code writes is a row of the table.
LEMMA RowType ==
  ASSUME job \in [Jobs -> Job], NEW j \in Jobs, NEW s \in Statuses,
         NEW c \in BOOLEAN, NEW st \in BOOLEAN
  PROVE  /\ Row(j, s, c, st) \in Job
         /\ Row(j, s, c, st).status = s /\ Row(j, s, c, st).cancel = c
         /\ Row(j, s, c, st).started = st /\ Row(j, s, c, st).of = job[j].of
         /\ Row(j, s, c, st).old = job[j].old
<1>1. job[j] \in Job  OBVIOUS
<1>2. job[j].of \in Runs /\ job[j].old \in BOOLEAN  BY <1>1 DEF Job
<1> QED  BY <1>2 DEF Row, Job, Statuses

\* The fields of a row.
LEMMA JobFields ==
  ASSUME job \in [Jobs -> Job], NEW j \in Jobs
  PROVE  /\ job[j] \in Job
         /\ job[j].status \in Statuses /\ job[j].of \in Runs
         /\ job[j].cancel \in BOOLEAN /\ job[j].started \in BOOLEAN /\ job[j].old \in BOOLEAN
<1>1. job[j] \in Job  OBVIOUS
<1> QED  BY <1>1 DEF Job, Statuses

\* The fields of a worker.
LEMMA WorkerFields ==
  ASSUME worker \in [Workers -> Worker], NEW w \in Workers
  PROVE  /\ worker[w] \in Worker
         /\ worker[w].stale \in SUBSET (Jobs \X Live)
         /\ worker[w].queue \in SUBSET Jobs /\ worker[w].at \in Jobs
<1>1. worker[w] \in Worker  OBVIOUS
<1> QED  BY <1>1 DEF Worker

\* What a worker becomes is a worker.
LEMMA BecomesType ==
  ASSUME worker \in [Workers -> Worker], NEW w \in Workers,
         NEW phase \in Phases,
         NEW stale \in SUBSET (Jobs \X Live), NEW queue \in SUBSET Jobs, NEW j \in Jobs,
         Becomes(w, phase, stale, queue, j)
  PROVE  /\ worker' \in [Workers -> Worker]
         /\ worker'[w].phase = phase /\ worker'[w].stale = stale
         /\ worker'[w].queue = queue /\ worker'[w].at = j
         /\ \A v \in Workers : v # w => worker'[v] = worker[v]
<1> DEFINE r == [phase |-> phase, stale |-> stale, queue |-> queue, at |-> j]
<1>1. r \in Worker /\ r.phase = phase /\ r.stale = stale /\ r.queue = queue /\ r.at = j
  BY DEF Worker, Phases, Busy
<1>2. worker' = [worker EXCEPT ![w] = r]  BY DEF Becomes
<1> HIDE DEF r
<1> QED  BY <1>1, <1>2

\* There is a job to name.
LEMMA OneIsAJob == 1 \in Jobs
BY RestoreConstantsOK DEF Jobs

\* A worker that goes idle, on to the next job, or on with its job.
LEMMA IdleType ==
  ASSUME worker \in [Workers -> Worker], NEW w \in Workers, GoesIdle(w)
  PROVE  /\ worker' \in [Workers -> Worker]
         /\ worker'[w].phase = "idle" /\ worker'[w].stale = {}
         /\ \A v \in Workers : v # w => worker'[v] = worker[v]
<1>1. IdleWorker \in Worker /\ IdleWorker.phase = "idle" /\ IdleWorker.stale = {}
  BY OneIsAJob DEF IdleWorker, Worker
<1>2. worker' = [worker EXCEPT ![w] = IdleWorker]  BY DEF GoesIdle
<1> QED  BY <1>1, <1>2

LEMMA GoesOnType ==
  ASSUME worker \in [Workers -> Worker], NEW w \in Workers, GoesOn(w)
  PROVE  /\ worker' \in [Workers -> Worker]
         /\ worker'[w].phase = "next" /\ worker'[w].stale = {}
         /\ \A v \in Workers : v # w => worker'[v] = worker[v]
<1>1. Becomes(w, "next", {}, worker[w].queue, 1)  BY DEF GoesOn
<1>2. "next" \in Phases  BY DEF Phases
<1>3. {} \in SUBSET (Jobs \X Live) /\ worker[w].queue \in SUBSET Jobs  BY WorkerFields
<1> QED  BY <1>1, <1>2, <1>3, BecomesType, OneIsAJob

LEMMA MovesToType ==
  ASSUME worker \in [Workers -> Worker], NEW w \in Workers, NEW phase \in Busy,
         MovesTo(w, phase)
  PROVE  /\ worker' \in [Workers -> Worker]
         /\ worker'[w].phase = phase /\ worker'[w].stale = {} /\ worker'[w].at = worker[w].at
         /\ \A v \in Workers : v # w => worker'[v] = worker[v]
<1> DEFINE r == [phase |-> phase, stale |-> {}, queue |-> worker[w].queue, at |-> worker[w].at]
<1>1. worker[w].queue \in SUBSET Jobs /\ worker[w].at \in Jobs  BY WorkerFields
<1>2. r \in Worker /\ r.phase = phase /\ r.stale = {} /\ r.at = worker[w].at
  BY <1>1 DEF Worker, Busy
<1>3. worker' = [worker EXCEPT ![w] = r]  BY DEF MovesTo, Becomes
<1> HIDE DEF r
<1> QED  BY <1>2, <1>3

-----------------------------------------------------------------------------
(* The inductive invariant *)

\* A recorded cancel stays on the row while it is live; a job that wrote was
\* claimed and not stopped.
JobOK(j) ==
  /\ j \in asked => job[j].status # "absent" /\ (job[j].status \in Live => job[j].cancel)
  /\ j \in wrote => j \notin asked /\ job[j].status \notin {"absent", "queued", "aborted"}

\* A job being carried out is running, unless it was given up or deleted.
Carried(j) ==
  \/ job[j].status \in {"running", "deleted"}
  \/ job[j].status = "failed" /\ job[j].old

\* A row the sweep has read.
SweptOK(p) ==
  /\ job[p[1]].status # "absent"
  /\ p[2] = "running" => job[p[1]].status # "queued"
  /\ job[p[1]].old \/ job[p[1]].status = "deleted"

\* A worker knows what it may rely on.
WorkOK(w) ==
  /\ \A p \in worker[w].stale : SweptOK(p)
  /\ worker[w].phase \in Busy => job[worker[w].at].status \notin {"absent", "queued"}
  /\ worker[w].phase \in Busy \ {"finish"} => worker[w].at \notin wrote
  /\ worker[w].phase \in Busy \ {"abort"} => worker[w].at \notin asked /\ Carried(worker[w].at)

\* No two workers have the same job.
Apart ==
  \A v, w \in Workers :
    v # w /\ worker[v].phase \in Busy /\ worker[w].phase \in Busy => worker[v].at # worker[w].at

\* The unique index.
OneLive ==
  \A i, j \in Jobs :
    job[i].status \in Live /\ job[j].status \in Live /\ job[i].of = job[j].of => i = j

IInv ==
  /\ TypeOK
  /\ \A j \in Jobs : JobOK(j)
  /\ \A w \in Workers : WorkOK(w)
  /\ Apart /\ OneLive

-----------------------------------------------------------------------------
(* What a step does to the rows and to the workers *)

Change(j) == j \in Jobs /\ \A i \in Jobs : i # j => job'[i] = job[i]
Keeps(j) == job'[j].of = job[j].of /\ job'[j].old = job[j].old

JQueue(j) ==
  /\ Change(j) /\ job[j].status = "absent" /\ job'[j].status = "queued"
  /\ ~job'[j].cancel /\ ~job'[j].started
  /\ LiveJobs(job'[j].of) = {}
JFlag(j) ==
  /\ Change(j) /\ Keeps(j) /\ job[j].status = "queued" /\ job'[j].status = "queued"
  /\ job'[j].cancel /\ job'[j].started = job[j].started
JAge(j) ==
  /\ Change(j) /\ job[j].status \in Live /\ job'[j].of = job[j].of /\ job'[j].old
  /\ job'[j].status = job[j].status /\ job'[j].cancel = job[j].cancel
  /\ job'[j].started = job[j].started
JAbort(j, s) ==
  /\ Change(j) /\ Keeps(j) /\ job[j].status = s /\ job'[j].status = "aborted"
  /\ job'[j].cancel /\ ~job'[j].started
JClaim(j) ==
  /\ Change(j) /\ Keeps(j) /\ job[j].status = "queued" /\ job'[j].status = "running"
  /\ job'[j].cancel = job[j].cancel /\ job'[j].started
JEnd(j, s) ==
  /\ Change(j) /\ Keeps(j) /\ job[j].status = "running" /\ job'[j].status = s
  /\ job'[j].started = job[j].started
JDelete(b) ==
  \A j \in Jobs :
    IF job[j].of = b /\ job[j].status # "absent"
      THEN job'[j].status = "deleted" /\ job'[j].of = job[j].of
      ELSE job'[j] = job[j]

Others(w) == w \in Workers /\ \A v \in Workers : v # w => worker'[v] = worker[v]
WOut(w) ==
  /\ Others(w) /\ worker'[w].phase \notin Busy
  /\ \A p \in worker'[w].stale :
       \/ p \in worker[w].stale
       \/ p[1] \in Jobs /\ p[2] = job[p[1]].status /\ Stale(p[1])
WMove(w) ==
  /\ Others(w) /\ worker[w].phase \in Busy /\ worker'[w].phase \in Busy
  /\ worker'[w].at = worker[w].at /\ worker'[w].stale = {}

\* An operator, the clock, or nothing at all.
EDesk ==
  /\ worker' = worker /\ wrote' = wrote /\ safety' = safety
  /\ \/ asked' = asked /\ job' = job
     \/ asked' = asked /\ \E j \in Jobs : JQueue(j) \/ JAge(j) \/ JAbort(j, "queued")
     \/ asked' = asked /\ \E b \in Runs : JDelete(b)
     \/ \E j \in Jobs : JFlag(j) /\ asked' = asked \cup {j}

ESafety ==
  /\ worker' = worker /\ wrote' = wrote /\ asked' = asked /\ job' = job
  /\ \E j \in Jobs : job[j].status # "succeeded" /\ safety' = [safety EXCEPT ![j] = "gone"]

\* A worker that is not, or no longer, carrying out a job.
EOut ==
  /\ wrote' = wrote /\ asked' = asked /\ safety' = safety
  /\ \E w \in Workers :
       /\ WOut(w)
       /\ \/ job' = job
          \/ \E j \in Jobs : JAbort(j, "queued") \/ (JEnd(j, "failed") /\ job[j].old)
          \/ /\ worker[w].phase \in Busy
             /\ \/ worker[w].phase = "abort" /\ JAbort(worker[w].at, "running")
                \/ JEnd(worker[w].at, "failed")
                \/ /\ worker[w].phase = "finish" /\ safety[worker[w].at] = "whole"
                   /\ JEnd(worker[w].at, "succeeded")

EClaim ==
  /\ wrote' = wrote /\ asked' = asked /\ safety' = safety
  /\ \E w \in Workers, j \in Jobs :
       /\ JClaim(j) /\ Others(w) /\ worker'[w].at = j /\ worker'[w].stale = {}
       /\ worker'[w].phase = AfterClaim(j)

\* A worker that goes on with its job.
EMove ==
  /\ job' = job /\ asked' = asked
  /\ \E w \in Workers :
       /\ WMove(w)
       /\ \/ /\ worker[w].phase \in {"check", "plan"}
             /\ worker'[w].phase \in {"abort", "plan", "safety"}
             /\ safety' = safety /\ wrote' = wrote
          \/ /\ worker[w].phase = "safety" /\ worker'[w].phase = "objects"
             /\ safety' = [safety EXCEPT ![worker[w].at] = "whole"] /\ wrote' = wrote
          \/ /\ worker[w].phase = "objects" /\ worker'[w].phase = "finish"
             /\ safety' = safety /\ wrote' \in {wrote, wrote \cup {worker[w].at}}

Effect == EDesk \/ ESafety \/ EOut \/ EClaim \/ EMove
Typed == job' \in [Jobs -> Job] /\ worker' \in [Workers -> Worker]

-----------------------------------------------------------------------------
(* Every step has one of these effects *)

\* The row written by a statement, in terms of its fields.
LEMMA WriteEffect ==
  ASSUME job \in [Jobs -> Job], NEW j \in Jobs, NEW s \in Statuses,
         NEW c \in BOOLEAN, NEW st \in BOOLEAN,
         job' = [job EXCEPT ![j] = Row(j, s, c, st)]
  PROVE  /\ job' \in [Jobs -> Job] /\ Change(j) /\ Keeps(j)
         /\ job'[j].status = s /\ job'[j].cancel = c /\ job'[j].started = st
<1>1. /\ Row(j, s, c, st) \in Job
      /\ Row(j, s, c, st).status = s /\ Row(j, s, c, st).cancel = c
      /\ Row(j, s, c, st).started = st /\ Row(j, s, c, st).of = job[j].of
      /\ Row(j, s, c, st).old = job[j].old
  BY RowType
<1> QED  BY <1>1 DEF Change, Keeps

\* A failure recorded for the job of a worker that goes on.
LEMMA FailedEffect ==
  ASSUME job \in [Jobs -> Job], NEW j \in Jobs, job' = Failed(j)
  PROVE  job' \in [Jobs -> Job] /\ (job' = job \/ JEnd(j, "failed"))
<1>1. job[j].cancel \in BOOLEAN /\ job[j].started \in BOOLEAN  BY JobFields
<1>2. CASE job[j].status = "running"
  <2>1. job' = [job EXCEPT ![j] = Row(j, "failed", job[j].cancel, job[j].started)]
    BY <1>2 DEF Failed
  <2>2. "failed" \in Statuses  BY DEF Statuses, Settled
  <2>3. /\ job' \in [Jobs -> Job] /\ Change(j) /\ Keeps(j)
        /\ job'[j].status = "failed" /\ job'[j].started = job[j].started
    BY <1>1, <2>1, <2>2, WriteEffect
  <2> QED  BY <1>2, <2>3 DEF JEnd
<1>3. CASE job[j].status # "running"  BY <1>3 DEF Failed
<1> QED  BY <1>2, <1>3

LEMMA DeskEffect ==
  ASSUME IInv, Desk \/ \E j \in Jobs : Ages(j)
  PROVE  Effect /\ Typed
<1>1. job \in [Jobs -> Job] /\ worker \in [Workers -> Worker]  BY DEF IInv, TypeOK
<1>2. ASSUME NEW b \in Runs, QueueRestore(b) PROVE Effect /\ Typed
  <2> DEFINE r == [status |-> "queued", of |-> b, cancel |-> FALSE, started |-> FALSE,
                   old |-> FALSE]
  <2>1. /\ r \in Job /\ r.status = "queued" /\ r.of = b /\ r.cancel = FALSE
        /\ r.started = FALSE
    BY DEF Job, Live
  <2> HIDE DEF r
  <2>2. PICK j \in Jobs : job[j].status = "absent" /\ job' = [job EXCEPT ![j] = r]
    BY <1>2 DEF QueueRestore, Write, r
  <2>3. LiveJobs(b) = {}  BY <1>2 DEF QueueRestore
  <2>4. Change(j) /\ job'[j] = r /\ job' \in [Jobs -> Job]  BY <1>1, <2>1, <2>2 DEF Change
  <2>5. JQueue(j)  BY <2>1, <2>2, <2>3, <2>4 DEF JQueue
  <2> QED  BY <1>1, <1>2, <2>4, <2>5 DEF QueueRestore, Effect, EDesk, Typed
<1>3. ASSUME NEW b \in Runs, DeleteRun(b) PROVE Effect /\ Typed
  <2> DEFINE r == [status |-> "deleted", of |-> b, cancel |-> FALSE, started |-> FALSE,
                   old |-> FALSE]
  <2>1. r \in Job /\ r.status = "deleted" /\ r.of = b  BY DEF Job, Live
  <2> HIDE DEF r
  <2>2. job' = [j \in Jobs |-> IF job[j].of = b /\ job[j].status # "absent" THEN r ELSE job[j]]
    BY <1>3 DEF DeleteRun, r
  <2>3. job' \in [Jobs -> Job]  BY <1>1, <2>1, <2>2
  <2>4. JDelete(b)  BY <2>1, <2>2 DEF JDelete
  <2> QED  BY <1>1, <1>3, <2>3, <2>4 DEF DeleteRun, Effect, EDesk, Typed
<1>4. ASSUME NEW j \in Jobs, RequestCancel(j) PROVE Effect /\ Typed
  <2>1. job[j].status = "queued" /\ job[j].started \in BOOLEAN
    BY <1>1, <1>4, JobFields DEF RequestCancel, Cancellable
  <2>2. job' = [job EXCEPT ![j] = Row(j, "queued", TRUE, job[j].started)]
    BY <1>4, <2>1 DEF RequestCancel, Write
  <2>3. "queued" \in Statuses /\ TRUE \in BOOLEAN  BY DEF Statuses, Live
  <2>4. /\ job' \in [Jobs -> Job] /\ Change(j) /\ Keeps(j)
        /\ job'[j].status = "queued" /\ job'[j].cancel = TRUE /\ job'[j].started = job[j].started
    BY <1>1, <2>1, <2>2, <2>3, WriteEffect
  <2>5. JFlag(j)  BY <2>1, <2>4 DEF JFlag
  <2> QED  BY <1>1, <1>4, <2>4, <2>5 DEF RequestCancel, Effect, EDesk, Typed
<1>5. ASSUME NEW j \in Jobs, SettleCancel(j) PROVE Effect /\ Typed
  <2>1. job' = [job EXCEPT ![j] = Row(j, "aborted", TRUE, FALSE)]  BY <1>5 DEF SettleCancel, Write
  <2>2. "aborted" \in Statuses /\ TRUE \in BOOLEAN /\ FALSE \in BOOLEAN  BY DEF Statuses, Settled
  <2>3. /\ job' \in [Jobs -> Job] /\ Change(j) /\ Keeps(j)
        /\ job'[j].status = "aborted" /\ job'[j].cancel = TRUE /\ job'[j].started = FALSE
    BY <1>1, <2>1, <2>2, WriteEffect
  <2>4. JAbort(j, "queued")  BY <1>5, <2>3 DEF SettleCancel, JAbort
  <2> QED  BY <1>1, <1>5, <2>3, <2>4 DEF SettleCancel, Effect, EDesk, Typed
<1>6. ASSUME NEW j \in Jobs, DeleteSafety(j) PROVE Effect /\ Typed
  BY <1>1, <1>6 DEF DeleteSafety, Effect, ESafety, Typed
<1>7. ASSUME NEW j \in Jobs, Ages(j) PROVE Effect /\ Typed
  <2> DEFINE r == [status |-> job[j].status, of |-> job[j].of, cancel |-> job[j].cancel,
                   started |-> job[j].started, old |-> TRUE]
  <2>1. /\ job[j].status \in Statuses /\ job[j].of \in Runs
        /\ job[j].cancel \in BOOLEAN /\ job[j].started \in BOOLEAN
    BY <1>1, JobFields
  <2>2. /\ r \in Job /\ r.status = job[j].status /\ r.of = job[j].of /\ r.cancel = job[j].cancel
        /\ r.started = job[j].started /\ r.old = TRUE
    BY <2>1 DEF Job, Statuses
  <2> HIDE DEF r
  <2>3. job' = [job EXCEPT ![j] = r]  BY <1>7 DEF Ages, Write, r
  <2>4. Change(j) /\ job'[j] = r /\ job' \in [Jobs -> Job]  BY <1>1, <2>2, <2>3 DEF Change
  <2>5. JAge(j)  BY <1>7, <2>2, <2>4 DEF JAge, Ages
  <2> QED  BY <1>1, <1>7, <2>4, <2>5 DEF Ages, Effect, EDesk, Typed
<1> QED  BY <1>2, <1>3, <1>4, <1>5, <1>6, <1>7 DEF Desk

\* A worker that only reads, ends its tick, or drops its job.
LEMMA QuietEffect ==
  ASSUME IInv, NEW w \in Workers,
         \/ ReadStale(w) \/ GiveUpNothing(w) \/ GiveUpRefused(w) \/ ReadQueued(w)
         \/ TickEnds(w) \/ ClaimsNothing(w) \/ PlanLost(w) \/ Drop(w) \/ Crash(w)
  PROVE  Effect /\ Typed
<1>1. job \in [Jobs -> Job] /\ worker \in [Workers -> Worker]  BY DEF IInv, TypeOK
<1>2. worker[w].stale \in SUBSET (Jobs \X Live) /\ worker[w].queue \in SUBSET Jobs
  BY <1>1, WorkerFields
<1>3. UNCHANGED <<job, safety, asked, wrote>>
  BY DEF ReadStale, GiveUpNothing, GiveUpRefused, ReadQueued, TickEnds, ClaimsNothing,
         PlanLost, Drop, Crash
<1>4. "stale" \in Phases /\ "next" \in Phases /\ "stale" \notin Busy /\ "next" \notin Busy
      /\ "idle" \notin Busy
  BY DEF Phases, Busy
<1>5. SUFFICES WOut(w) /\ worker' \in [Workers -> Worker]
  BY <1>1, <1>3, <1>5 DEF Effect, EOut, Typed
<1>6. CASE GoesIdle(w)
  BY <1>1, <1>4, <1>6, IdleType DEF WOut, Others
<1>7. CASE GoesOn(w)
  BY <1>1, <1>4, <1>7, GoesOnType DEF WOut, Others
<1>8. CASE ReadStale(w)
  <2> DEFINE S == {<<j, job[j].status>> : j \in {i \in Jobs : Stale(i)}}
  <2>1. Becomes(w, "stale", S, {}, 1)  BY <1>8 DEF ReadStale
  <2>2. S \in SUBSET (Jobs \X Live)  BY DEF Stale
  <2>3. {} \in SUBSET Jobs  OBVIOUS
  <2>4. \A p \in S : p[1] \in Jobs /\ p[2] = job[p[1]].status /\ Stale(p[1])  OBVIOUS
  <2> HIDE DEF S
  <2> DEFINE r == [phase |-> "stale", stale |-> S, queue |-> {}, at |-> 1]
  <2>5. r \in Worker /\ r.phase = "stale" /\ r.stale = S
    BY <2>2, <2>3, OneIsAJob DEF Worker
  <2>6. worker' = [worker EXCEPT ![w] = r]  BY <2>1 DEF Becomes
  <2> HIDE DEF r
  <2> QED  BY <1>1, <1>4, <2>4, <2>5, <2>6 DEF WOut, Others
<1>9. CASE GiveUpNothing(w)
  <2>1. PICK p \in worker[w].stale : Becomes(w, "stale", worker[w].stale \ {p}, {}, 1)
    BY <1>9 DEF GiveUpNothing
  <2>2. worker[w].stale \ {p} \in SUBSET (Jobs \X Live) /\ {} \in SUBSET Jobs  BY <1>2
  <2> DEFINE r == [phase |-> "stale", stale |-> worker[w].stale \ {p}, queue |-> {}, at |-> 1]
  <2>5. r \in Worker /\ r.phase = "stale" /\ r.stale = worker[w].stale \ {p}
    BY <2>2, OneIsAJob DEF Worker
  <2>6. worker' = [worker EXCEPT ![w] = r]  BY <2>1 DEF Becomes
  <2> HIDE DEF r
  <2> QED  BY <1>1, <1>4, <2>5, <2>6 DEF WOut, Others
<1>10. CASE ReadQueued(w)
  <2> DEFINE Q == {j \in Jobs : job[j].status = "queued"}
  <2>1. Becomes(w, "next", {}, Q, 1)  BY <1>10 DEF ReadQueued
  <2>2. Q \in SUBSET Jobs /\ {} \in SUBSET (Jobs \X Live)  OBVIOUS
  <2> HIDE DEF Q
  <2> DEFINE r == [phase |-> "next", stale |-> {}, queue |-> Q, at |-> 1]
  <2>5. r \in Worker /\ r.phase = "next" /\ r.stale = {}
    BY <2>2, OneIsAJob DEF Worker
  <2>6. worker' = [worker EXCEPT ![w] = r]  BY <2>1 DEF Becomes
  <2> HIDE DEF r
  <2> QED  BY <1>1, <1>4, <2>5, <2>6 DEF WOut, Others
<1>11. CASE ClaimsNothing(w)
  <2>1. PICK j \in worker[w].queue : Becomes(w, "next", {}, worker[w].queue \ {j}, 1)
    BY <1>11 DEF ClaimsNothing
  <2>2. worker[w].queue \ {j} \in SUBSET Jobs /\ {} \in SUBSET (Jobs \X Live)  BY <1>2
  <2> DEFINE r == [phase |-> "next", stale |-> {}, queue |-> worker[w].queue \ {j}, at |-> 1]
  <2>5. r \in Worker /\ r.phase = "next" /\ r.stale = {}
    BY <2>2, OneIsAJob DEF Worker
  <2>6. worker' = [worker EXCEPT ![w] = r]  BY <2>1 DEF Becomes
  <2> HIDE DEF r
  <2> QED  BY <1>1, <1>4, <2>5, <2>6 DEF WOut, Others
<1> QED
  BY <1>6, <1>7, <1>8, <1>9, <1>10, <1>11 DEF GiveUpRefused, TickEnds, PlanLost, Drop, Crash

\* The sweep ends a job that is old: as failed when it is running, as aborted when
\* it is queued, because the table refuses every other pair.
LEMMA GiveUpEffect ==
  ASSUME IInv, NEW w \in Workers, GiveUp(w)
  PROVE  Effect /\ Typed
<1>1. job \in [Jobs -> Job] /\ worker \in [Workers -> Worker]  BY DEF IInv, TypeOK
<1>2. worker[w].stale \in SUBSET (Jobs \X Live)  BY <1>1, WorkerFields
<1>3. PICK p \in worker[w].stale :
        /\ job[p[1]].status \in Live /\ ~StaleRefused(p[1], p[2])
        /\ Write(p[1], Row(p[1], GivenUp(p[2]), p[2] = "queued", job[p[1]].started))
        /\ Becomes(w, "stale", worker[w].stale \ {p}, {}, 1)
  BY DEF GiveUp
<1>4. p[1] \in Jobs /\ p[2] \in {"queued", "running"}  BY <1>2, <1>3 DEF Live
<1> DEFINE j == p[1]
<1>5. job[j].started \in BOOLEAN /\ job[j].cancel \in BOOLEAN  BY <1>1, <1>4, JobFields
<1>6. SweptOK(p)  BY <1>3 DEF IInv, WorkOK
<1>7. job[j].old  BY <1>3, <1>6 DEF SweptOK, Live
<1>8. /\ job[j].status = "queued" => ~job[j].started
      /\ job[j].status = "running" => job[j].started
  BY <1>4 DEF IInv, TypeOK
<1>9. GivenUp(p[2]) \in Statuses /\ (p[2] = "queued") \in BOOLEAN
  BY DEF GivenUp, Statuses, Settled
<1>10. job' = [job EXCEPT ![j] = Row(j, GivenUp(p[2]), p[2] = "queued", job[j].started)]
  BY <1>3 DEF Write
<1>11. /\ job' \in [Jobs -> Job] /\ Change(j) /\ Keeps(j)
       /\ job'[j].status = GivenUp(p[2]) /\ job'[j].cancel = (p[2] = "queued")
       /\ job'[j].started = job[j].started
  BY <1>1, <1>4, <1>5, <1>9, <1>10, WriteEffect
<1>12. JAbort(j, "queued") \/ (JEnd(j, "failed") /\ job[j].old)
  <2>1. CASE p[2] = "running"
    <3>1. job[j].status = "running"  BY <1>3, <1>6, <2>1 DEF SweptOK, Live
    <3>2. JEnd(j, "failed")  BY <1>11, <2>1, <3>1 DEF JEnd, GivenUp
    <3> QED  BY <1>7, <3>2
  <2>2. CASE p[2] = "queued"
    <3>1. ~job[j].started  BY <1>3, <1>5, <2>2 DEF StaleRefused, GivenUp, AbortAllowed
    <3>2. job[j].status = "queued"  BY <1>3, <1>8, <3>1 DEF Live
    <3> QED  BY <1>11, <2>2, <3>1, <3>2 DEF JAbort, GivenUp
  <2> QED  BY <1>4, <2>1, <2>2
<1>13. WOut(w) /\ worker' \in [Workers -> Worker]
  <2> DEFINE r == [phase |-> "stale", stale |-> worker[w].stale \ {p}, queue |-> {}, at |-> 1]
  <2>1. r \in Worker /\ r.phase = "stale" /\ r.stale = worker[w].stale \ {p}
    BY <1>2, OneIsAJob DEF Worker
  <2>2. worker' = [worker EXCEPT ![w] = r]  BY <1>3 DEF Becomes
  <2>3. "stale" \notin Busy  BY DEF Busy
  <2> HIDE DEF r
  <2> QED  BY <1>1, <2>1, <2>2, <2>3 DEF WOut, Others
<1>14. wrote' = wrote /\ asked' = asked /\ safety' = safety  BY DEF GiveUp
<1> HIDE DEF j
<1>15. j \in Jobs  BY <1>4 DEF j
<1> QED  BY <1>11, <1>12, <1>13, <1>14, <1>15 DEF Effect, EOut, Typed

LEMMA ClaimEffect ==
  ASSUME IInv, NEW w \in Workers, Claim(w)
  PROVE  Effect /\ Typed
<1>1. job \in [Jobs -> Job] /\ worker \in [Workers -> Worker]  BY DEF IInv, TypeOK
<1>2. worker[w].queue \in SUBSET Jobs  BY <1>1, WorkerFields
<1>3. PICK j \in worker[w].queue :
        /\ job[j].status = "queued"
        /\ Write(j, Row(j, "running", job[j].cancel, TRUE))
        /\ Becomes(w, AfterClaim(j), {}, worker[w].queue \ {j}, j)
  BY DEF Claim
<1>4. j \in Jobs  BY <1>2, <1>3
<1>5. job[j].cancel \in BOOLEAN /\ TRUE \in BOOLEAN  BY <1>1, <1>4, JobFields
<1>6. "running" \in Statuses  BY DEF Statuses, Live
<1>7. job' = [job EXCEPT ![j] = Row(j, "running", job[j].cancel, TRUE)]  BY <1>3 DEF Write
<1>8. /\ job' \in [Jobs -> Job] /\ Change(j) /\ Keeps(j)
      /\ job'[j].status = "running" /\ job'[j].cancel = job[j].cancel /\ job'[j].started = TRUE
  BY <1>1, <1>4, <1>5, <1>6, <1>7, WriteEffect
<1>9. JClaim(j)  BY <1>3, <1>8 DEF JClaim
<1> DEFINE r == [phase |-> AfterClaim(j), stale |-> {}, queue |-> worker[w].queue \ {j}, at |-> j]
<1>10. AfterClaim(j) \in {"abort", "check"}  BY DEF AfterClaim
<1>11. r \in Worker /\ r.phase = AfterClaim(j) /\ r.stale = {} /\ r.at = j
  BY <1>2, <1>4, <1>10 DEF Worker
<1>12. worker' = [worker EXCEPT ![w] = r]  BY <1>3 DEF Becomes
<1> HIDE DEF r
<1>13. /\ worker' \in [Workers -> Worker] /\ Others(w) /\ worker'[w].at = j
       /\ worker'[w].stale = {} /\ worker'[w].phase = AfterClaim(j)
  BY <1>1, <1>11, <1>12 DEF Others
<1>14. wrote' = wrote /\ asked' = asked /\ safety' = safety  BY DEF Claim
<1> QED  BY <1>4, <1>8, <1>9, <1>13, <1>14 DEF Effect, EClaim, Typed

\* The statements that end a job, and their failures.
LEMMA EndEffect ==
  ASSUME IInv, NEW w \in Workers, Abort(w) \/ AbortFails(w) \/ Refused(w) \/ Finish(w)
  PROVE  Effect /\ Typed
<1>1. job \in [Jobs -> Job] /\ worker \in [Workers -> Worker]  BY DEF IInv, TypeOK
<1>2. worker[w].at \in Jobs  BY <1>1, WorkerFields
<1>3. GoesOn(w) /\ wrote' = wrote /\ asked' = asked /\ safety' = safety
  BY DEF Abort, AbortFails, Refused, Finish
<1>4. WOut(w) /\ worker' \in [Workers -> Worker]
  BY <1>1, <1>3, GoesOnType DEF WOut, Others, Busy
<1>5. worker[w].phase \in Busy  BY DEF Abort, AbortFails, Refused, Finish, Busy
<1> DEFINE j == worker[w].at
<1>6. job[j].cancel \in BOOLEAN /\ job[j].started \in BOOLEAN /\ TRUE \in BOOLEAN /\ FALSE \in BOOLEAN
  BY <1>1, <1>2, JobFields
<1>7. CASE job' = job  BY <1>1, <1>3, <1>4, <1>7 DEF Effect, EOut, Typed
<1>8. CASE job' = Failed(j)
  <2>1. job' \in [Jobs -> Job] /\ (job' = job \/ JEnd(j, "failed"))
    BY <1>1, <1>2, <1>8, FailedEffect
  <2> QED  BY <1>3, <1>4, <1>5, <2>1 DEF Effect, EOut, Typed
<1>9. CASE Abort(w) /\ job[j].status = "running" /\ job[j].cancel
  <2>1. job' = [job EXCEPT ![j] = Row(j, "aborted", TRUE, FALSE)]  BY <1>9 DEF Abort
  <2>2. "aborted" \in Statuses  BY DEF Statuses, Settled
  <2>3. /\ job' \in [Jobs -> Job] /\ Change(j) /\ Keeps(j)
        /\ job'[j].status = "aborted" /\ job'[j].cancel = TRUE /\ job'[j].started = FALSE
    BY <1>1, <1>2, <1>6, <2>1, <2>2, WriteEffect
  <2>4. JAbort(j, "running")  BY <1>9, <2>3 DEF JAbort
  <2>5. worker[w].phase = "abort"  BY <1>9 DEF Abort
  <2> QED  BY <1>3, <1>4, <1>5, <2>3, <2>4, <2>5 DEF Effect, EOut, Typed
<1>10. CASE Finish(w) /\ job[j].status = "running" /\ safety[j] = "whole"
  <2>1. job' = [job EXCEPT ![j] = Row(j, "succeeded", job[j].cancel, job[j].started)]
    BY <1>10 DEF Finish
  <2>2. "succeeded" \in Statuses  BY DEF Statuses, Settled
  <2>3. /\ job' \in [Jobs -> Job] /\ Change(j) /\ Keeps(j)
        /\ job'[j].status = "succeeded" /\ job'[j].started = job[j].started
    BY <1>1, <1>2, <1>6, <2>1, <2>2, WriteEffect
  <2>4. JEnd(j, "succeeded")  BY <1>10, <2>3 DEF JEnd
  <2>5. worker[w].phase = "finish"  BY <1>10 DEF Finish
  <2> QED  BY <1>3, <1>4, <1>5, <1>10, <2>3, <2>4, <2>5 DEF Effect, EOut, Typed
<1> QED  BY <1>7, <1>8, <1>9, <1>10 DEF Abort, AbortFails, Refused, Finish

LEMMA MoveEffect ==
  ASSUME IInv, NEW w \in Workers,
         CheckCancel(w) \/ Plan(w) \/ TakeSafety(w) \/ Objects(w)
  PROVE  Effect /\ Typed
<1>1. job \in [Jobs -> Job] /\ worker \in [Workers -> Worker]  BY DEF IInv, TypeOK
<1>2. job' = job /\ asked' = asked  BY DEF CheckCancel, Plan, TakeSafety, Objects
<1>3. worker[w].phase \in Busy  BY DEF CheckCancel, Plan, TakeSafety, Objects, Busy
<1>4. \A ph \in Busy : MovesTo(w, ph)
        => WMove(w) /\ worker' \in [Workers -> Worker] /\ worker'[w].phase = ph
  <2> TAKE ph \in Busy
  <2> HAVE MovesTo(w, ph)
  <2> QED  BY <1>1, <1>3, MovesToType DEF WMove, Others
<1>5. CASE CheckCancel(w)
  <2>1. PICK ph \in {"abort", "plan"} : MovesTo(w, ph)  BY <1>5 DEF CheckCancel
  <2>2. ph \in Busy  BY DEF Busy
  <2>3. WMove(w) /\ worker' \in [Workers -> Worker] /\ worker'[w].phase = ph  BY <1>4, <2>1, <2>2
  <2> QED  BY <1>1, <1>2, <1>5, <2>3 DEF CheckCancel, Effect, EMove, Typed
<1>6. CASE Plan(w)
  <2>1. MovesTo(w, "safety") /\ "safety" \in Busy  BY <1>6 DEF Plan, Busy
  <2>2. WMove(w) /\ worker' \in [Workers -> Worker] /\ worker'[w].phase = "safety"
    BY <1>4, <2>1
  <2> QED  BY <1>1, <1>2, <1>6, <2>2 DEF Plan, Effect, EMove, Typed
<1>7. CASE TakeSafety(w)
  <2>1. MovesTo(w, "objects") /\ "objects" \in Busy  BY <1>7 DEF TakeSafety, Busy
  <2>2. WMove(w) /\ worker' \in [Workers -> Worker] /\ worker'[w].phase = "objects"
    BY <1>4, <2>1
  <2> QED  BY <1>1, <1>2, <1>7, <2>2 DEF TakeSafety, Effect, EMove, Typed
<1>8. CASE Objects(w)
  <2>1. MovesTo(w, "finish") /\ "finish" \in Busy  BY <1>8 DEF Objects, Busy
  <2>2. WMove(w) /\ worker' \in [Workers -> Worker] /\ worker'[w].phase = "finish"
    BY <1>4, <2>1
  <2> QED  BY <1>1, <1>2, <1>8, <2>2 DEF Objects, Effect, EMove, Typed
<1> QED  BY <1>5, <1>6, <1>7, <1>8

\* Every step of the specification.
LEMMA NextEffect ==
  ASSUME IInv, [Next]_vars
  PROVE  Effect /\ Typed
<1>1. CASE Desk \/ \E j \in Jobs : Ages(j)  BY <1>1, DeskEffect
<1>2. ASSUME NEW w \in Workers, Step(w) \/ Fault(w) PROVE Effect /\ Typed
  BY <1>2, QuietEffect, GiveUpEffect, ClaimEffect, EndEffect, MoveEffect DEF Step, Fault
<1>3. CASE UNCHANGED vars
  BY <1>3 DEF vars, IInv, TypeOK, Effect, EDesk, Typed
<1> QED  BY <1>1, <1>2, <1>3 DEF Next

-----------------------------------------------------------------------------
(* The invariant is kept *)

LEMMA RowsAndFaults ==
  ASSUME IInv, [Next]_vars
  PROVE  rows' \subseteq Runs /\ faults' \in 0 .. MaxFaults
<1>1. rows \subseteq Runs /\ faults \in 0 .. MaxFaults /\ MaxFaults \in Nat
  BY RestoreConstantsOK DEF IInv, TypeOK
<1>2. CASE Desk
  BY <1>1, <1>2 DEF Desk, QueueRestore, DeleteRun, RequestCancel, SettleCancel, DeleteSafety
<1>3. ASSUME NEW j \in Jobs, Ages(j) PROVE rows' \subseteq Runs /\ faults' \in 0 .. MaxFaults
  BY <1>1, <1>3 DEF Ages
<1>4. ASSUME NEW w \in Workers, Step(w) PROVE rows' = rows /\ faults' = faults
  BY <1>4 DEF Step, ReadStale, GiveUp, GiveUpNothing, GiveUpRefused, ReadQueued, TickEnds,
              Claim, ClaimsNothing, Abort, CheckCancel, Plan, PlanLost, Refused, TakeSafety,
              Objects, Finish
<1>5. ASSUME NEW w \in Workers, Fault(w)
      PROVE rows' = rows /\ faults' = faults + 1 /\ faults < MaxFaults
  BY <1>5 DEF Fault, AbortFails, Drop, Crash
<1>6. CASE UNCHANGED vars  BY <1>1, <1>6 DEF vars
<1> QED  BY <1>1, <1>2, <1>3, <1>4, <1>5, <1>6 DEF Next

\* What every step leaves of a row.
Stays(j) ==
  /\ job[j].status # "absent" =>
       /\ job'[j].status # "absent" /\ job'[j].of = job[j].of
       /\ job[j].old \/ job[j].status = "deleted" => job'[j].old \/ job'[j].status = "deleted"
  /\ job[j].status \notin {"absent", "queued"} =>
       job'[j].status # "queued" /\ (j \in asked' => j \in asked)

LEMMA RowsStay ==
  ASSUME IInv, Effect
  PROVE  \A j \in Jobs : Stays(j)
<1>1. CASE EDesk
  BY <1>1 DEF EDesk, JQueue, JAge, JAbort, JDelete, JFlag, Change, Keeps, Stays
<1>2. CASE ESafety  BY <1>2 DEF ESafety, Stays
<1>3. CASE EOut  BY <1>3 DEF EOut, JAbort, JEnd, Change, Keeps, Stays
<1>4. CASE EClaim  BY <1>4 DEF EClaim, JClaim, Change, Keeps, Stays
<1>5. CASE EMove  BY <1>5 DEF EMove, Stays
<1> QED  BY <1>1, <1>2, <1>3, <1>4, <1>5 DEF Effect

\* A job that no moving worker carries out stays carried, and is not written for.
LEMMA CarriedStays ==
  ASSUME IInv, Effect, NEW j \in Jobs, Carried(j),
         \A w \in Workers : worker[w].phase \in Busy /\ worker[w].at = j => worker'[w] = worker[w]
  PROVE  Carried(j)'
<1>1. CASE EDesk
  BY <1>1 DEF EDesk, JQueue, JAge, JAbort, JDelete, JFlag, Change, Keeps, Carried
<1>2. CASE ESafety  BY <1>2 DEF ESafety, Carried
<1>3. CASE EOut
  <2>1. PICK w \in Workers :
          /\ WOut(w)
          /\ \/ job' = job
             \/ \E i \in Jobs : JAbort(i, "queued") \/ (JEnd(i, "failed") /\ job[i].old)
             \/ /\ worker[w].phase \in Busy
                /\ \E s \in {"failed", "succeeded"} :
                     JAbort(worker[w].at, "running") \/ JEnd(worker[w].at, s)
    BY <1>3 DEF EOut
  <2>2. worker[w].phase \in Busy => worker[w].at # j  BY <2>1 DEF WOut
  <2> QED  BY <2>1, <2>2 DEF JAbort, JEnd, Change, Keeps, Carried
<1>4. CASE EClaim  BY <1>4 DEF EClaim, JClaim, Change, Keeps, Carried
<1>5. CASE EMove  BY <1>5 DEF EMove, Carried
<1> QED  BY <1>1, <1>2, <1>3, <1>4, <1>5 DEF Effect

LEMMA UnwrittenStays ==
  ASSUME IInv, Effect, Typed, NEW j \in Jobs, j \notin wrote,
         \A w \in Workers : worker[w].phase \in Busy /\ worker[w].at = j => worker'[w] = worker[w]
  PROVE  j \notin wrote'
<1>1. CASE EMove
  <2>1. PICK w \in Workers : WMove(w) /\ \/ wrote' = wrote
                                         \/ /\ worker'[w].phase # worker[w].phase
                                            /\ wrote' \in {wrote, wrote \cup {worker[w].at}}
    BY <1>1 DEF EMove
  <2>2. CASE wrote' = wrote  BY <2>2
  <2>3. CASE worker'[w].phase # worker[w].phase /\ wrote' \in {wrote, wrote \cup {worker[w].at}}
    <3>1. worker[w].at # j  BY <2>1, <2>3 DEF WMove
    <3> QED  BY <2>3, <3>1
  <2> QED  BY <2>1, <2>2, <2>3
<1>2. CASE EDesk \/ ESafety \/ EOut \/ EClaim  BY <1>2 DEF EDesk, ESafety, EOut, EClaim
<1> QED  BY <1>1, <1>2 DEF Effect

LEMMA ChecksKept ==
  ASSUME IInv, Effect, Typed
  PROVE  \A j \in Jobs : Checked(j)'
<1>1. \A j \in Jobs : Checked(j)  BY DEF IInv, TypeOK, Checked
<1>2. safety \in [Jobs -> {"none", "whole", "gone"}]  BY DEF IInv, TypeOK
<1>3. CASE EDesk
  <2>1. SUFFICES ASSUME NEW i \in Jobs PROVE Checked(i)'  OBVIOUS
  <2>2. safety' = safety  BY <1>3 DEF EDesk
  <2>3. CASE job' = job  BY <1>1, <2>2, <2>3 DEF Checked, AbortAllowed
  <2>4. ASSUME NEW j \in Jobs, JQueue(j) \/ JAge(j) \/ JAbort(j, "queued") \/ JFlag(j)
        PROVE Checked(i)'
    <3>1. CASE i # j
      BY <1>1, <2>2, <2>4, <3>1 DEF Checked, JQueue, JAge, JAbort, JFlag, Change, AbortAllowed
    <3>2. CASE i = j
      BY <1>1, <2>2, <2>4, <3>2 DEF Checked, JQueue, JAge, JAbort, JFlag, Live, AbortAllowed
    <3> QED  BY <3>1, <3>2
  <2>5. ASSUME NEW b \in Runs, JDelete(b) PROVE Checked(i)'
    BY <1>1, <2>2, <2>5 DEF Checked, JDelete, AbortAllowed
  <2> QED  BY <1>3, <2>3, <2>4, <2>5 DEF EDesk
<1>4. CASE ESafety  BY <1>1, <1>2, <1>4 DEF ESafety, Checked, AbortAllowed
<1>5. CASE EOut
  <2>1. SUFFICES ASSUME NEW i \in Jobs PROVE Checked(i)'  OBVIOUS
  <2>2. safety' = safety  BY <1>5 DEF EOut
  <2>3. CASE job' = job  BY <1>1, <2>2, <2>3 DEF Checked, AbortAllowed
  <2>4. ASSUME NEW j \in Jobs,
               \/ JAbort(j, "queued") \/ JAbort(j, "running") \/ JEnd(j, "failed")
               \/ JEnd(j, "succeeded") /\ safety[j] = "whole"
        PROVE Checked(i)'
    <3>1. CASE i # j
      BY <1>1, <2>2, <2>4, <3>1 DEF Checked, JAbort, JEnd, Change, AbortAllowed
    <3>2. CASE i = j
      BY <1>1, <2>2, <2>4, <3>2 DEF Checked, JAbort, JEnd, AbortAllowed
    <3> QED  BY <3>1, <3>2
  <2>5. \A w \in Workers : worker[w].at \in Jobs  BY WorkerFields DEF IInv, TypeOK
  <2> QED  BY <1>5, <2>3, <2>4, <2>5 DEF EOut
<1>6. CASE EClaim  BY <1>1, <1>6 DEF EClaim, JClaim, Change, Checked, AbortAllowed
<1>7. CASE EMove
  <2>1. \A w \in Workers : worker[w].at \in Jobs  BY WorkerFields DEF IInv, TypeOK
  <2> QED  BY <1>1, <1>2, <1>7, <2>1 DEF EMove, Checked, AbortAllowed
<1> QED  BY <1>3, <1>4, <1>5, <1>6, <1>7 DEF Effect

LEMMA TypeKept ==
  ASSUME IInv, [Next]_vars
  PROVE  TypeOK'
<1>1. Effect /\ Typed  BY NextEffect
<1>2. \A j \in Jobs : Checked(j)'  BY <1>1, ChecksKept
<1>3. \A w \in Workers : worker[w].at \in Jobs  BY WorkerFields DEF IInv, TypeOK
<1>4. /\ safety \in [Jobs -> {"none", "whole", "gone"}] /\ asked \subseteq Jobs /\ wrote \subseteq Jobs
  BY DEF IInv, TypeOK
<1>5. safety' \in [Jobs -> {"none", "whole", "gone"}]
  BY <1>1, <1>3, <1>4 DEF Effect, EDesk, ESafety, EOut, EClaim, EMove
<1>6. asked' \subseteq Jobs
  BY <1>1, <1>4 DEF Effect, EDesk, ESafety, EOut, EClaim, EMove
<1>7. wrote' \subseteq Jobs
  BY <1>1, <1>3, <1>4 DEF Effect, EDesk, ESafety, EOut, EClaim, EMove
<1> QED  BY <1>1, <1>2, <1>5, <1>6, <1>7, RowsAndFaults DEF TypeOK, Typed, Checked

LEMMA JobsKept ==
  ASSUME IInv, Effect
  PROVE  \A j \in Jobs : JobOK(j)'
<1>1. SUFFICES ASSUME NEW i \in Jobs PROVE JobOK(i)'  OBVIOUS
<1>2. JobOK(i)  BY DEF IInv
<1>3. Stays(i)  BY RowsStay
<1>4. \A w \in Workers : WorkOK(w) /\ worker[w].at \in Jobs  BY WorkerFields DEF IInv, TypeOK
<1>5. CASE EDesk
  <2>1. wrote' = wrote  BY <1>5 DEF EDesk
  <2>2. CASE asked' = asked /\ job' = job  BY <1>2, <2>1, <2>2 DEF JobOK
  <2>3. ASSUME asked' = asked, NEW j \in Jobs, JQueue(j) \/ JAge(j) \/ JAbort(j, "queued")
        PROVE  JobOK(i)'
    <3>1. CASE i # j  BY <1>2, <2>1, <2>3, <3>1 DEF JobOK, JQueue, JAge, JAbort, Change
    <3>2. CASE i = j  BY <1>2, <2>1, <2>3, <3>2 DEF JobOK, JQueue, JAge, JAbort, Live
    <3> QED  BY <3>1, <3>2
  <2>4. ASSUME asked' = asked, NEW b \in Runs, JDelete(b) PROVE JobOK(i)'
    BY <1>2, <2>1, <2>4 DEF JobOK, JDelete, Live
  <2>5. ASSUME NEW j \in Jobs, JFlag(j), asked' = asked \cup {j} PROVE JobOK(i)'
    <3>1. CASE i # j  BY <1>2, <2>1, <2>5, <3>1 DEF JobOK, JFlag, Change
    <3>2. CASE i = j  BY <1>2, <2>1, <2>5, <3>2 DEF JobOK, JFlag, Live
    <3> QED  BY <3>1, <3>2
  <2> QED  BY <1>5, <2>2, <2>3, <2>4, <2>5 DEF EDesk
<1>6. CASE ESafety  BY <1>2, <1>6 DEF ESafety, JobOK
<1>7. CASE EOut
  <2>1. wrote' = wrote /\ asked' = asked  BY <1>7 DEF EOut
  <2>2. CASE job' = job  BY <1>2, <2>1, <2>2 DEF JobOK
  <2>3. ASSUME NEW j \in Jobs, JAbort(j, "queued") \/ JEnd(j, "failed") \/ JEnd(j, "succeeded")
        PROVE  JobOK(i)'
    <3>1. CASE i # j  BY <1>2, <2>1, <2>3, <3>1 DEF JobOK, JAbort, JEnd, Change
    <3>2. CASE i = j  BY <1>2, <2>1, <2>3, <3>2 DEF JobOK, JAbort, JEnd, Live
    <3> QED  BY <3>1, <3>2
  <2>4. ASSUME NEW w \in Workers, worker[w].phase = "abort", JAbort(worker[w].at, "running")
        PROVE  JobOK(i)'
    <3>1. worker[w].at \notin wrote  BY <1>4, <2>4 DEF WorkOK, Busy
    <3>2. CASE i # worker[w].at  BY <1>2, <2>1, <2>4, <3>2 DEF JobOK, JAbort, Change
    <3>3. CASE i = worker[w].at
      BY <1>2, <2>1, <2>4, <3>1, <3>3 DEF JobOK, JAbort, Live
    <3> QED  BY <3>2, <3>3
  <2> QED  BY <1>4, <1>7, <2>2, <2>3, <2>4 DEF EOut
<1>8. CASE EClaim
  <2>1. wrote' = wrote /\ asked' = asked  BY <1>8 DEF EClaim
  <2>2. PICK j \in Jobs : JClaim(j)  BY <1>8 DEF EClaim
  <2>3. CASE i # j  BY <1>2, <2>1, <2>2, <2>3 DEF JobOK, JClaim, Change
  <2>4. CASE i = j  BY <1>2, <2>1, <2>2, <2>4 DEF JobOK, JClaim, Live
  <2> QED  BY <2>3, <2>4
<1>9. CASE EMove
  <2>1. job' = job /\ asked' = asked  BY <1>9 DEF EMove
  <2>2. CASE wrote' = wrote  BY <1>2, <2>1, <2>2 DEF JobOK
  <2>3. ASSUME NEW w \in Workers, worker[w].phase = "objects",
               wrote' = wrote \cup {worker[w].at}
        PROVE  JobOK(i)'
    <3>1. worker[w].at \notin asked /\ Carried(worker[w].at)  BY <1>4, <2>3 DEF WorkOK, Busy
    <3> QED  BY <1>2, <2>1, <2>3, <3>1 DEF JobOK, Carried
  <2> QED  BY <1>9, <2>2, <2>3 DEF EMove
<1> QED  BY <1>5, <1>6, <1>7, <1>8, <1>9 DEF Effect

\* A worker that did not move can still rely on what it knew.
LEMMA OthersKeep ==
  ASSUME IInv, Effect, Typed, NEW v \in Workers, worker'[v] = worker[v],
         \A w \in Workers : w # v /\ worker[w].phase \in Busy /\ worker[v].phase \in Busy
                              => worker[w].at # worker[v].at
  PROVE  WorkOK(v)'
<1>1. WorkOK(v) /\ worker[v].at \in Jobs /\ worker[v].stale \in SUBSET (Jobs \X Live)
  BY WorkerFields DEF IInv, TypeOK
<1>2. \A j \in Jobs : Stays(j)  BY RowsStay
<1>3. \A p \in worker[v].stale : SweptOK(p)'
  <2> TAKE p \in worker[v].stale
  <2>1. SweptOK(p) /\ p[1] \in Jobs  BY <1>1 DEF WorkOK
  <2>2. Stays(p[1])  BY <1>2, <2>1
  <2> QED  BY <2>1, <2>2 DEF SweptOK, Stays
<1>4. CASE worker[v].phase \notin Busy  BY <1>3, <1>4 DEF WorkOK
<1>5. CASE worker[v].phase \in Busy
  <2> DEFINE j == worker[v].at
  <2>1. \A w \in Workers : worker[w].phase \in Busy /\ worker[w].at = j => worker'[w] = worker[w]
    BY <1>5
  <2>2. j \in Jobs /\ Stays(j) /\ job[j].status \notin {"absent", "queued"}
    BY <1>1, <1>2, <1>5 DEF WorkOK
  <2>3. job'[j].status \notin {"absent", "queued"} /\ (j \in asked' => j \in asked)
    BY <2>2 DEF Stays
  <2>4. j \notin wrote => j \notin wrote'  BY <2>1, <2>2, UnwrittenStays
  <2>5. Carried(j) => Carried(j)'  BY <2>1, <2>2, CarriedStays
  <2> QED  BY <1>1, <1>3, <1>5, <2>3, <2>4, <2>5 DEF WorkOK
<1> QED  BY <1>4, <1>5

LEMMA WorkKept ==
  ASSUME IInv, Effect, Typed
  PROVE  \A v \in Workers : WorkOK(v)'
<1>1. \A w \in Workers : WorkOK(w) /\ worker[w].at \in Jobs /\ worker[w].stale \in SUBSET (Jobs \X Live)
  BY WorkerFields DEF IInv, TypeOK
<1>2. \A j \in Jobs : Stays(j)  BY RowsStay
<1>3. \A v \in Workers : worker'[v] = worker[v] => WorkOK(v)'
  BY OthersKeep DEF IInv, Apart
<1>4. CASE EDesk \/ ESafety  BY <1>3, <1>4 DEF EDesk, ESafety
<1>5. ASSUME NEW w \in Workers, WOut(w) PROVE \A v \in Workers : WorkOK(v)'
  <2>1. \A p \in worker'[w].stale : SweptOK(p)'
    <3> TAKE p \in worker'[w].stale
    <3>1. CASE p \in worker[w].stale
      <4>1. SweptOK(p) /\ p[1] \in Jobs  BY <1>1, <3>1 DEF WorkOK
      <4>2. Stays(p[1])  BY <1>2, <4>1
      <4> QED  BY <4>1, <4>2 DEF SweptOK, Stays
    <3>2. CASE p[1] \in Jobs /\ p[2] = job[p[1]].status /\ Stale(p[1])
      <4>1. Stays(p[1])  BY <1>2, <3>2
      <4> QED  BY <3>2, <4>1 DEF SweptOK, Stays, Stale, Live
    <3> QED  BY <1>5, <3>1, <3>2 DEF WOut
  <2>2. WorkOK(w)'  BY <1>5, <2>1 DEF WorkOK, WOut
  <2> QED  BY <1>3, <1>5, <2>2 DEF WOut, Others
<1>6. CASE EOut  BY <1>5, <1>6 DEF EOut
<1>7. CASE EClaim
  <2>1. PICK w \in Workers, j \in Jobs :
          /\ JClaim(j) /\ Others(w) /\ worker'[w].at = j /\ worker'[w].stale = {}
          /\ worker'[w].phase = AfterClaim(j)
    BY <1>7 DEF EClaim
  <2>2. wrote' = wrote /\ asked' = asked  BY <1>7 DEF EClaim
  <2>3. JobOK(j)  BY DEF IInv
  <2>4. j \notin wrote /\ (j \in asked => job[j].cancel)
    BY <2>1, <2>3 DEF JobOK, JClaim, Live
  <2>5. job'[j].status = "running"  BY <2>1 DEF JClaim
  <2>6. CASE job[j].cancel
    <3>1. worker'[w].phase = "abort"  BY <2>1, <2>6 DEF AfterClaim
    <3> QED  BY <1>3, <2>1, <2>2, <2>4, <2>5, <3>1 DEF WorkOK, Others
  <2>7. CASE ~job[j].cancel
    <3>1. worker'[w].phase = "check" /\ j \notin asked  BY <2>1, <2>4, <2>7 DEF AfterClaim
    <3> QED  BY <1>3, <2>1, <2>2, <2>4, <2>5, <3>1 DEF WorkOK, Others, Carried
  <2> QED  BY <2>6, <2>7
<1>8. CASE EMove
  <2>1. PICK w \in Workers :
          /\ WMove(w)
          /\ worker[w].phase \in {"check", "plan", "safety", "objects"}
          /\ wrote' = wrote \/ worker'[w].phase = "finish"
    BY <1>8 DEF EMove
  <2>2. job' = job /\ asked' = asked  BY <1>8 DEF EMove
  <2>3. /\ worker[w].at \notin asked /\ Carried(worker[w].at) /\ worker[w].at \notin wrote
        /\ job[worker[w].at].status \notin {"absent", "queued"}
    BY <1>1, <2>1 DEF WorkOK, Busy
  <2>4. WorkOK(w)'  BY <2>1, <2>2, <2>3 DEF WorkOK, WMove, Carried
  <2> QED  BY <1>3, <2>1, <2>4 DEF WMove, Others
<1> QED  BY <1>4, <1>6, <1>7, <1>8 DEF Effect

LEMMA ApartKept ==
  ASSUME IInv, Effect
  PROVE  Apart'
<1>1. Apart /\ \A w \in Workers : WorkOK(w)  BY DEF IInv
<1>2. CASE EDesk \/ ESafety  BY <1>1, <1>2 DEF EDesk, ESafety, Apart
<1>3. CASE EOut
  <2>1. PICK w \in Workers : WOut(w)  BY <1>3 DEF EOut
  <2> QED  BY <1>1, <2>1 DEF Apart, WOut, Others
<1>4. CASE EClaim
  <2>1. PICK w \in Workers, j \in Jobs :
          job[j].status = "queued" /\ Others(w) /\ worker'[w].at = j
    BY <1>4 DEF EClaim, JClaim
  <2>2. \A v \in Workers : worker[v].phase \in Busy => worker[v].at # j
    BY <1>1, <2>1 DEF WorkOK
  <2> QED  BY <1>1, <2>1, <2>2 DEF Apart, Others
<1>5. CASE EMove
  <2>1. PICK w \in Workers : WMove(w)  BY <1>5 DEF EMove
  <2> QED  BY <1>1, <2>1 DEF Apart, WMove, Others
<1> QED  BY <1>2, <1>3, <1>4, <1>5 DEF Effect

LEMMA OneLiveKept ==
  ASSUME IInv, Effect
  PROVE  OneLive'
<1>1. OneLive  BY DEF IInv
<1>2. CASE \A i \in Jobs : job'[i].status \in Live
                              => job[i].status \in Live /\ job'[i].of = job[i].of
  BY <1>1, <1>2 DEF OneLive
<1>3. ASSUME NEW j \in Jobs, JQueue(j) PROVE OneLive'
  <2>1. \A i \in Jobs : i # j /\ job'[i].status \in Live => job'[i].of # job'[j].of
    BY <1>3 DEF JQueue, LiveJobs, Change
  <2>2. \A i \in Jobs : i # j => job'[i] = job[i]  BY <1>3 DEF JQueue, Change
  <2> QED  BY <1>1, <2>1, <2>2 DEF OneLive
<1>4. CASE EDesk
  <2>1. CASE \E j \in Jobs : JQueue(j)  BY <1>3, <2>1
  <2>2. CASE ~\E j \in Jobs : JQueue(j)
    BY <1>2, <1>4, <2>2 DEF EDesk, JAge, JAbort, JDelete, JFlag, Change, Keeps, Live
  <2> QED  BY <2>1, <2>2
<1>5. CASE ESafety  BY <1>2, <1>5 DEF ESafety
<1>6. CASE EOut  BY <1>2, <1>6 DEF EOut, JAbort, JEnd, Change, Keeps, Live
<1>7. CASE EClaim  BY <1>2, <1>7 DEF EClaim, JClaim, Change, Keeps, Live
<1>8. CASE EMove  BY <1>2, <1>8 DEF EMove
<1> QED  BY <1>4, <1>5, <1>6, <1>7, <1>8 DEF Effect

LEMMA InitOK ==
  ASSUME Init
  PROVE  IInv
<1>1. NoJob \in Job /\ NoJob.status = "absent"
  BY RestoreConstantsOK DEF NoJob, Job
<1>2. IdleWorker \in Worker /\ IdleWorker.phase = "idle" /\ IdleWorker.stale = {}
  BY OneIsAJob DEF IdleWorker, Worker
<1>3. TypeOK  BY <1>1, <1>2, RestoreConstantsOK DEF Init, TypeOK
<1>4. \A j \in Jobs : JobOK(j)  BY DEF Init, JobOK
<1>5. \A w \in Workers : WorkOK(w)  BY <1>2 DEF Init, WorkOK, Busy
<1>6. Apart  BY <1>2 DEF Init, Apart, Busy
<1>7. OneLive  BY <1>1 DEF Init, OneLive, Live
<1> QED  BY <1>3, <1>4, <1>5, <1>6, <1>7 DEF IInv

\* The invariant: one owner for every claimed job, a cancel that stays on its row,
\* and one live job of a run, in every behaviour.
LEMMA Inductive == Spec => []IInv
<1>1. IInv /\ [Next]_vars => IInv'
  <2> SUFFICES ASSUME IInv, [Next]_vars PROVE IInv'  OBVIOUS
  <2>1. Effect /\ Typed  BY NextEffect
  <2>2. TypeOK'  BY TypeKept
  <2>3. \A j \in Jobs : JobOK(j)'  BY <2>1, JobsKept
  <2>4. \A w \in Workers : WorkOK(w)'  BY <2>1, WorkKept
  <2>5. Apart' /\ OneLive'  BY <2>1, ApartKept, OneLiveKept
  <2> QED  BY <2>2, <2>3, <2>4, <2>5 DEF IInv
<1> QED  BY <1>1, InitOK, PTL DEF Spec

-----------------------------------------------------------------------------
(* Theorems *)

\* Rows keep the checks of backup_restore_jobs and workers their types.
THEOREM TypeCorrect == Spec => []TypeOK
<1>1. IInv => TypeOK  BY DEF IInv
<1> QED  BY <1>1, Inductive, PTL

\* A recorded cancel is honoured and an aborted job writes nothing, for any number
\* of workers, faults and interleavings of cancel, claim and sweep.
THEOREM StoppedJobsNeverWrite == Spec => []StoppedNeverWrites
<1>1. IInv => StoppedNeverWrites
  <2> SUFFICES ASSUME IInv PROVE StoppedNeverWrites  OBVIOUS
  <2>1. \A j \in Jobs : j \in asked \/ job[j].status = "aborted" => j \notin wrote
    BY DEF IInv, JobOK
  <2>2. \A w \in Workers : worker[w].phase \in {"plan", "safety", "objects", "finish"}
          => worker[w].at \notin asked /\ job[worker[w].at].status # "aborted"
    BY DEF IInv, WorkOK, Carried, Busy
  <2> QED  BY <2>1, <2>2 DEF StoppedNeverWrites
<1> QED  BY <1>1, Inductive, PTL

\* Two restores of one run overlap only after the sweep or a delete has taken the
\* job of one of them away.
THEOREM RestoresOverlapOnlyAfterGivingUp == Spec => []OverlapIsAfterGivingUp
<1>1. IInv => OverlapIsAfterGivingUp
  <2> SUFFICES ASSUME IInv, NEW v \in Workers, NEW w \in Workers, v # w,
                      Restoring(v), Restoring(w),
                      job[worker[v].at].of = job[worker[w].at].of
               PROVE  /\ worker[v].at # worker[w].at
                      /\ \E x \in {v, w} :
                           /\ job[worker[x].at].status # "running"
                           /\ job[worker[x].at].old \/ job[worker[x].at].status = "deleted"
    BY DEF OverlapIsAfterGivingUp
  <2>1. worker[v].phase \in Busy \ {"abort"} /\ worker[w].phase \in Busy \ {"abort"}
    BY DEF Restoring, Busy
  <2>2. worker[v].at # worker[w].at  BY <2>1 DEF IInv, Apart
  <2>3. Carried(worker[v].at) /\ Carried(worker[w].at)  BY <2>1 DEF IInv, WorkOK
  <2>4. worker[v].at \in Jobs /\ worker[w].at \in Jobs  BY WorkerFields DEF IInv, TypeOK
  <2>5. job[worker[v].at].status # "running" \/ job[worker[w].at].status # "running"
    BY <2>2, <2>4 DEF IInv, OneLive, Live
  <2> QED  BY <2>2, <2>3, <2>5 DEF Carried
<1> QED  BY <1>1, Inductive, PTL

\* The outcome of a restore, once recorded, is only ever deleted with its run.
THEOREM OutcomesAreFinal == Spec => SettledIsFinal
<1>1. IInv /\ [Next]_vars
        => [\A j \in Jobs : job[j].status \in Settled
              => job'[j].status \in {job[j].status, "deleted"}]_vars
  <2> SUFFICES ASSUME IInv, [Next]_vars, NEW i \in Jobs, job[i].status \in Settled
               PROVE  job'[i].status \in {job[i].status, "deleted"}
    OBVIOUS
  <2>1. Effect  BY NextEffect
  <2>2. job[i].status \in {"succeeded", "failed", "aborted"}  BY DEF Settled
  <2>3. CASE EDesk
    BY <2>2, <2>3 DEF EDesk, JQueue, JAge, JAbort, JDelete, JFlag, Change, Live
  <2>4. CASE ESafety  BY <2>4 DEF ESafety
  <2>5. CASE EOut  BY <2>2, <2>5 DEF EOut, JAbort, JEnd, Change
  <2>6. CASE EClaim  BY <2>2, <2>6 DEF EClaim, JClaim, Change
  <2>7. CASE EMove  BY <2>7 DEF EMove
  <2> QED  BY <2>1, <2>3, <2>4, <2>5, <2>6, <2>7 DEF Effect
<1> QED  BY <1>1, Inductive, PTL DEF Spec, SettledIsFinal
=============================================================================
