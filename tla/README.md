# Omnion verification project

TLA+ models of the parts of Omnion whose correctness rests on interleavings: the
durable queues, jobs and sweeps that every API instance works through against one
PostgreSQL database.
Paths below are relative to the repository (`crates/...`, `apps/...`,
`database/...`); `PROJECT.json` maps every definition to the lines it models.

## 1. The system

Omnion is one API binary, run as any number of identical instances over one
PostgreSQL database (Redis and object storage beside it). Each instance serves the
HTTP routes and runs a dozen background workers. No worker remembers anything
between passes: all state is rows, and correctness lives in a handful of SQL
statements, in claims with leases, and in updates guarded by the status they expect.

### Inventory

| Component | State | Operations | Hard behaviour | What makes it correct |
|---|---|---|---|---|
| Event bus, webhook delivery (`crates/events`, `event_runner`) | `events`, `webhook_endpoints`, `webhook_deliveries` | emit with fan-out, test, endpoint edits, `claim_due`, send, settle, redeliver | several runners, leases, crashes after the send, edits under a claim | one runner per row, settled once, nothing crosses tenants, every pending row settles |
| Event retention (`event_retention_runner`) | the same tables, the run log | `sweep_events`: two deletes in one transaction | the deletes see different snapshots | a delivery still owed is never removed |
| Workflow engine (`crates/workflows`, `workflow_runner`) | `workflows`, `workflow_executions`, `workflow_steps`, `audit_log` | definitions, start, cancel, tick (schedules, steps), sweep (waits, stale claims, orphans), settlement | tick, sweep and cancel of all instances on one run; late results; crashes between statements | steps in order, truthful and final statuses, every run ends, one audit row, one run per due time |
| Automation matcher (`crates/automation`, `automation_runner`) | `automation_cursor`, event-triggered `workflows`, runs | seed, drain | ids visible out of order, several instances, restarts | one run per rule and event, no event passed over |
| Cron expressions (`crates/workflows/src/cron.rs`) | none | next due time | calendar edges | the next time is the least matching one |
| Notification delivery, routing, preferences (`crates/notifications`, `notification_runner`) | `notifications`, `notification_deliveries`, preferences, `notification_channels` | record with delivery rows, switches, settle not-ready rows, claim, send, mark, retry by hand | no transaction around an emit, a lease shorter than a batch, switches flipped between two reads | every channel gets its row, sent means taken, copies and attempts beyond the cap cost a fault, every deliverable row settles |
| Restore jobs (`crates/backup`, `restore_job_runner`) | `backup_restore_jobs`, safety backups | queue, cancel, claim, restore, staleness sweep | decisions from stale reads, a cancel of two statements racing a claim, runs deleted under a job | a stopped job never writes, no overlap unless a job was given up, outcomes are final, every job ends |
| Backups, schedules (`crates/backup`) | backups, schedules, artifacts | scheduled and manual runs, retention, deletion | due schedules read without a claim | one backup per due time |
| Search indexer (`crates/search`) | cursor, index rows | drain, rebuild | the matcher's cursor shape | every committed change is indexed |
| Health incidents (`crates/health`, `health_runner`) | `health_incidents`, `health_breaches`, thresholds, maintenance windows | probe, detect, apply, record breaches, announce, resolve, edit thresholds | every instance and every open panel applies the same policy with no lock; an error ends the loop | an outage is told once, and the incidents end up agreeing with the platform |
| Media library, scanning, retention (`crates/media`) | `media`, `media_quarantines`, objects | upload, trash, restore, delete, hold, scan, release, retention pass | scans claimed without a mark, objects and rows removed apart | a quarantined file is withheld, a live file has its bytes |
| Permissions and approvals, policy engine | grants, approvals | evaluate, decide | two deciders | one decision; deny wins |
| Identity, security limiter, content, onboarding, AI hub, developer portal, analytics, admin panel, renderer, CLI, plumbing | single-request rows, caches, none | CRUD, I/O, rendering | little that a model reaches | - |

Interactions: routes of every component `emit` to the bus; the bus fans out to
webhook deliveries in the same transaction; a failed delivery emits again; the
matcher reads the bus and creates workflow runs in its own transaction; the engine
executes them and writes the audit log; retention deletes from the bus under all of
them. Incidents, media changes and restores reach people through the bus and the
notification outbox. A restore writes objects of the media library, and the backup
routes delete runs that a restore job still uses. `PROJECT.json` lists every component with what is and is not modelled, and
under `hazards` what is hard to test in each, at the line where it bites.

### Conventions

- One SQL statement, or one transaction whose intermediate state nobody sees, is one
  step. A handler of several statements is several steps, with its locals kept per
  instance in between. This is PostgreSQL's READ COMMITTED: each statement sees what
  is committed when it starts. Where a transaction of several statements reads
  between them (retention, the matcher's drain), each statement is a step, its writes
  stay hidden until the commit, and the row locks it holds are guards of the others.
- A route handler is the store operation it calls; its validation is in the sets the
  inputs are drawn from.
- Wall-clock time is kept as what the statements test: "available_at has passed",
  "the claim is older than the lease".
- A crash and a statement that fails with `?` look the same to the rows: the pass is
  over and the locals are gone. Both are one action (`Crash`, `Fail`, `Drop`), bounded
  by `MaxCrashes`, `MaxFaults` or `MaxMoves`.
- An id is never reused: a deleted endpoint, workflow or run does not come back.

## 2. Modules

| Module | Models | Checked by | Proved in |
|---|---|---|---|
| `WebhookQueue` | bus, fan-out, delivery runners, redelivery, retention | `MCWebhookQueue` | `WebhookQueueProofs` |
| `WorkflowEngine` | definitions, schedules, runs, steps, tick, sweep, cancel, audit | `MCWorkflowEngine` | `WorkflowEngineProofs` |
| `AutomationMatcher` | events, rules, cursor, drain, run ledger | `MCAutomationMatcher` | `AutomationMatcherProofs` |
| `NotificationOutbox` | notifications, delivery rows, preferences, delivery runners | `MCNotificationOutbox` | `NotificationOutboxProofs` |
| `DeliveryLedger` | abstract: what a delivery queue promises of a row | through the two queues | through the two queues |
| `HealthIncidents` | probe runs, incidents, breaches, announcements, operators | `MCHealthIncidents` | `HealthIncidentsProofs` |
| `RestoreJobs` | restore jobs, workers, cancels, staleness, deletions | `MCRestoreJobs` | `RestoreJobsProofs` |
| `MediaCustody` | a file's row, bytes, verdict, quarantine, and whoever deletes it | `MCMediaCustody` | `MediaCustodyProofs` |

### WebhookQueue

`delivery[<<e, v>>]` is the row of endpoint `e` and event `v` (the unique index makes
the pair a key); `claim` is `claimed_at` seen through the lease, `due` is
`next_attempt_at <= now()`. `phase`, `claimed`, `jobs` and `current` are the locals of
`run_due` and `deliver_one`. One tick is `CancelDisabled`
(`cancel_pending_for_disabled`), `ClaimDue` and `LoadJobs` (the two statements of
`claim_due`), then per job `Deliver` (the HTTP request), `MarkDelivered`, `MarkRetry`
or `MarkFailed`, and `EmitFailure`. The `mark_*` updates test the id only, and so do
the actions. `SweepDeliveries` and `SweepEvents` are the two deletes of
`sweep_events`. `LeaseExpires` may strike while a runner works on the row, because the
defaults (20 jobs of up to 10 s, lease 120 s) let a batch outlive its lease; the history
variable `lapses` counts these, bounded by `MaxLapses`. `accepts` is the other history
variable: the 2xx answers of a row's current round. The name of an event decides its
fan-out and nothing after it, so the name and trigger columns are left out.
`MaxEvents` bounds the bus, and `MaxEmits` keeps its last ids for failure notices.

### WorkflowEngine

`workflow`, `run`, `step` are the three tables, `phase` is the place of an instance in
`tick_with` or `sweep`, `loop` the loop a settlement returns to. `ClaimDueSchedules`
and `StartScheduled` come first in a tick, then `ClaimDueStep` and the outcome of
`advance_step` (`ParkWait`, `StepSucceeds`, `StepRetries`, `StepFails`), then
`settle_after_step` (`ReadExecution`, `CloseStep`) and `settle_execution` in its two
statements, `CountSteps` and `WriteVerdict`, and `AuditSettlement`. A sweep is
`ResolveDueWaits`, `StaleSteps` (a plain read), `ReclaimStep` per step read,
`SettleQueued`, `Reconcile`, `SettleQueued`, `AuditSettlement`. `Operator` holds the
requests, with `CancelExecution` and its later `AuditCancel` as two steps.
`SlowActions` lets an action outlive its lease. `owed` is a history variable: due
times that have passed minus scheduled starts.

The validation in `definition.rs` keeps broken crons, unknown kinds and unreadable
waits out of the tables, so the branches for them are left out.

### AutomationMatcher

An event has an id from `InsertEvent` on and is visible from `CommitEvent` on. A drain
is `LockCursor` (`for update skip locked`), `ReadEvents`, `EvaluateEvent` per event
(the rules are read again for each) and `CommitDrain`, which makes runs, counters and
cursor visible together. `SeedCursor` and `SkipSeed` are the boot. Conditions and
placeholders are the set of payloads a rule accepts. `seen` and `fate` are history
variables: what was visible when a drain read, and how the cursor came to pass each event.
An event is `late` only if it was not in `seen` (`Overtaken`); one that a drain could see
and left out of its batch gets no label and breaks `CursorAccountsForEvents`.

### DeliveryLedger, and the two queues that implement it

The abstract specification has two functions of a row: its `status` and whether its
receiver has `taken` the message since the row was last fresh. A row says "sent" only
of a message that was taken, a settled row changes only when an operator starts it over
or it is removed. It knows no runners, claims, leases or attempts. `WebhookQueue`
implements it with `delivered` as "sent" and the endpoint's 2xx answers as `taken`, up to
the first lease that runs out under a runner at work (`lapses' = 0`): from then on a late
mark may rewrite a settled row. `NotificationOutbox` implements it without that
condition, because its marks are guarded by `status = 'pending'`. `KeepsLedger` is the
refinement in both, checked as a property and proved.

### NotificationOutbox

`emit` is a request's place in `record_with_deliveries`: `RecordFact` (the insert that
deduplicates), `ReadAllowed` and `ReadDisabled` (the two preference reads),
`QueueEnabled`, `SkipDisabled`, `QueueInApp`, `SkipUntransported`. None of these
share a transaction, so `EmitFails` may stop the request between any two. A runner's
tick is `SettleNotReady`, `ClaimDue`, then per job `Deliver` or `NoTransport` and the
mark. `ClaimDue` is the claim's update together with the two reads that follow it (the
load of the rows and `attach_push_targets`): they find the rows by the claimed ids, and
only a lease that lapses between two statements in a row could show them a later attempt
count; no property depends on it. `LeaseExpires` may strike while the runner works: 50
sends of up to 10 s under a lease of 30 s do that. `Queueable`, `Transports` and `Channels` are three different sets,
as in the code. `notification_channels` is written by no code of the repository;
`SetChannel` is marked external.

### HealthIncidents

A run (`run[r]`) is one pass of `run_and_record`: `Probe` fixes what it reports,
`Detect` compares a service with its newest open incident, `ApplyRecovery` and
`ApplyOpen` write, `ReadThresholds`, `RecordBreach` and `ClearBreach` keep the breach
ledger, `AnnounceIncident` and `AnnounceBreach` publish what the run did. A panel request
runs once. `ApplyRefused` is the unique index. The platform's real state (`truth`, `over`)
moves by itself.

A scheduled runner is the `select!` loop of `health_runner.rs` (`loop[r]`): a heartbeat
tick every `HeartbeatInterval` (30 s) beside a sleep of `CheckInterval` that is created
anew at every entry and dropped when the tick comes first. `ToTick` is how far away the
tick can be on entry: a whole interval after a heartbeat, anything up to that after a probe
run. The earlier future wins (`TickFirst`, `SleepFirst`), of two at the same time either.
The heartbeat's own statement is taken as short against the intervals, and the interval
as constant: an operator's edit of it is left out.

### RestoreJobs

`job` is the table, whose checks and partial unique index are the guards
`AbortAllowed`, `StaleRefused` and `LiveJobs`. A worker's tick is `ReadStale`, `GiveUp`
per row read (or `GiveUpNothing`, `GiveUpRefused`), `ReadQueued`, then per job `Claim`,
`CheckCancel`, `Plan`, `TakeSafety`, `Objects`, `Finish`, with every early end of
`run_one`: `Refused` (it fails the job), `PlanLost` and `Drop` (the row stays running).
`old` is an age of more than an hour, counted from the creation of the job, as the code
counts it. `asked` and `wrote` are history variables.

### MediaCustody

`apply_verdict` and `close_quarantine` are transactions whose statements interleave with
each other, so they are split: `LockRow`, `AddQuarantine`, `CommitVerdict`;
`BeginRelease`, `CommitRelease`. What an uncommitted verdict adds is in the sweeper's
record until the commit, and `Free(f)` is the row lock. A deletion is `PickFiles`,
`RemoveObjects`, `DeleteRows`, in the other order for the retention pass; `kind` says
which of the five it is and with it what it may pick and what stops it. `MayServe` is the
serve gate as the code has it: it asks for the verdict and the quarantine and not for
`deleted_at`, so a trashed file is served like any other. `overlapped`,
`doomed` and `raced` are history variables: the causes the properties name.

## 3. What the runs check

Passing runs:

- `webhook_runners` (0.24 million states): two runners, one endpoint, events of its own
  tenant, of another one or of the platform, one emission and the failure notice it may
  cause, two attempts, one redelivery, batches of two, one crash, one lease that runs out
  under a working runner, retention throughout. One endpoint is enough because the
  statements treat rows independently and every conflict is about one row; the endpoint
  subscribes to page events, so that the failure notice is recorded and swept but does not
  double the queue. One crash and one lapse together already put three claims on one row
  in a round, and retention meets a row that an operator queues again. Checks `TypeOK`,
  `ExclusiveClaim`, `AcceptsBounded`, `AttemptsBounded`, `TenantIsolation`, the refinement
  `KeepsLedger`, `NoFactDropped` and, under fairness, `PendingSettles`. `ExclusiveClaim`
  and `KeepsLedger` speak of the time up to the first lapse, the two bounds count lapses
  beside crashes, and the others hold in any case.
- `workflow_engine` (1.4 million states): two instances, one scheduled run of a retried
  task and a wait, slow actions, one crash, two due times. The plan has both kinds of
  step, so that order, parking, retry and reclaim all happen on one run. Checks
  `TypeOK`, `SettledTruth`, `InOrder`, `AuditedOnce`, `DueTimesAccounted`,
  `FinalStaysFinal`.
- `workflow_single` (26 thousand states): one instance and three crashes, which is more
  than the two attempts of the task. Checks `ClaimsRemain` and, under fairness,
  `RunsSettle`. With two instances both fail (see `workflow_wedge`), so this run says
  what the engine guarantees when deployed as one instance.
- `matcher_drain` (0.1 million states): two instances, a rule, two events of either
  tenant or of the platform that become visible in either order, batches of one, so
  that an id can appear below what a drain has read; a failed drain, a crash, a reseed.
  Checks `TypeOK`, `StartedOnce`, `CountsItsRuns`, `CursorAccountsForEvents` (the cursor
  passes an event by evaluating it, by seeding over it, or because it became visible only
  after the read) and, under fairness, `EventsArePassed`.
- `outbox` (0.4 million states): one fact, four channels (the drawer, one with a
  transport, one queueable without, one that is neither), one request, two runners, two
  attempts, one fault (a crash, an error or a lapsed lease) and one switch. All conflicts
  are about one fact's rows; one fault already puts a second runner on a row the first
  still holds. Checks `TypeOK`, `EmitLeavesRows`, `UntransportedIsSkipped`,
  `CopiesNeedALapse`, `AttemptsBounded`, `KeepsLedger` and, under fairness,
  `PendingSettles`.
- `incidents` (1.4 million states): two services, because an error at one hides the next;
  one metric and two windows; a scheduled runner and a panel request, two moves (a
  change of the platform, an operator's action or a failed statement). Six incident rows
  are more than two moves can fill. The check interval is the shorter one (1 against 2),
  because only then does the runner come to its probes at all (see `health_schedule`); both
  branches of its loop are taken. Checks `TypeOK`, `IncidentToldOnce`, `BreachToldOnce`
  and, under fairness, `MemoryFollowsTruth`, which is therefore a statement about
  intervals below the heartbeat's 30 s.
- `restore` (97 thousand states): two workers, one run, two jobs, two faults: one job can
  be given up while its worker goes on and a second one starts. Checks `TypeOK`,
  `StoppedNeverWrites`, `OverlapIsAfterGivingUp`, `SettledIsFinal` and, under fairness,
  `JobsSettle`.
- `media_custody` (0.3 million states): one file (the statements treat files
  independently), two sweeps, a release, two deletions of any kind. The system may stop:
  a file that is gone stays gone, so deadlock is not an error here. Checks `TypeOK`
  (with "at most one open quarantine"), `WithheldUnlessOverlapped` (of trashed files as of
  live ones), `LossIsExplained`.

Runs that TLC refutes, each stating a sentence of the repository:

- `workflow_wedge`: two sweepers read the same stale step; after the first has
  re-queued it and a runner has claimed its last attempt, the second re-queues it
  again. The check constraint refuses every later claim and each tick ends with that
  error, so the run never ends; `engine.rs` says it always does. That only an operator
  ends it, and that one instance alone never gets there, are theorems.
- `matcher_missed`: an event that commits after a later id was drained is below the
  cursor and never evaluated; `matcher.rs` says a missed event is unreachable. On a bus
  whose ids become visible in order it is, as a theorem.
- `incidents_wedge`: a service with an open "degraded" incident goes down; the insert of
  the second incident is refused by the unique index, the error leaves the loop over the
  services, and this repeats in every run, so the services after it are never looked at;
  `registry.rs` says every service is visited. That only a change from outside the loop
  ends this is a theorem.
- `health_schedule`: with a check interval above the heartbeat's (the default is 60 s
  against 30 s) the tick ends every `select!` before the sleep is over, and the next entry
  starts the sleep again, so the scheduled probe run never happens; the head of
  `health_runner.rs` says that the history no longer depends on somebody watching the
  panel. For every interval above the heartbeat's this is a theorem.

Further disagreements between comments and code that the models show but that have no
run of their own.

Webhooks:

- once a lease has run out under a runner at work, `mark_delivered`, `mark_retry` and
  `mark_failed`, which test the id alone, rewrite a row another runner has settled, while
  `crates/events/src/store.rs:5` says a delivery is settled exactly once; this is why
  `ExclusiveClaim` and `KeepsLedger` end at the first lapse and why the bounds on answers
  and attempts have `+ crashes + lapses`;
- `deliver_one` emits `webhook.delivery.failed` for a failed `webhook.*` delivery too;
  `docs/requests/REQ-016-webhook-event-bus.md:167` says it never does;
- the comment of `claim_due` (`crates/events/src/store.rs:974`) expects the attempt
  ladder to end a crash loop; the claim does not look at `max_attempts`, so a process
  that dies in every send claims the row for ever;
- a test of a switched-off endpoint is queued and then failed by
  `cancel_pending_for_disabled` without being sent
  (`apps/api/src/routes/webhooks.rs:1300`);
- the row counts of a retention run (`crates/events/src/store.rs:909`) miss deliveries
  the second delete removes through the foreign key;

Workflows and rules:

- a run cancelled while a failing attempt is in flight keeps the re-queued step pending:
  `advance_step` returns after `retry_step` without `settle_after_step`, although
  `crates/workflows/src/engine.rs:491` says the claimed step is closed with the run;
- two sweepers and a claim can run one attempt of a step twice
  (`database/migrations/0006_workflows.sql:11`);
- a crash between `claim_due_schedules` and the creation of the run loses that due time
  (`crates/workflows/src/engine.rs:6`); `DueTimesAccounted` bounds the loss by the
  crashes;
- while the cursor is still 0, every restart seeds it again over events emitted since
  the first start (`crates/automation/src/matcher.rs:16`).

Notifications:

- the claim does not look at `max_attempts`, so the attempt that is counted before the
  send does not end a crash loop (`crates/notifications/src/delivery.rs:12`), and a row of
  a channel without a transport is retried for ever instead of failing at the cap;
- an emit that stops after its first insert leaves a notification whose delivery rows the
  deduplicated retry does not add (`crates/notifications/src/store.rs:134` says they
  exist);
- a switch flipped between the two preference reads leaves a channel without a row, where
  `enqueue` says every channel has one;
- a row inserted between `settle_not_ready` and `claim_due` of a tick is sent although its
  channel is off.

Health:

- saving the thresholds deletes the breach rows through the foreign key, so a breach is
  announced again in the same window (`BreachToldOnce` has `+ saves`);
- an error or a stop between the write and the announcement loses the announcement: the
  next run sees no transition.

Restores:

- the worker restores the media part whether or not `parts` selects it;
- the second cancel check, called load-bearing, can find no flag the claim has not found:
  the flag is only set on queued rows;
- "every exit path writes the row" does not hold: an error of `find_backup` or of the
  outcome's own statement leaves the row running until the sweep;
- the sweep counts age from the creation, so a restore of more than an hour is marked
  failed while it runs and a second one of the same run may overlap it
  (`OverlapIsAfterGivingUp` says that nothing else lets two overlap); its reason names a
  safety backup that was never written to the row;
- a stale row claimed between the sweep's read and its write meets the table's check, and
  the error ends the tick before any queued job is looked at;
- deleting the safety backup of a succeeded job removes its artifacts before the row's
  deletion is refused.

Media:

- `claim_pending` says two workers cannot claim the same row; its transaction ends with
  the read. A late "clean" verdict is then written over an open quarantine, and a clean
  file is served without a look at the quarantine
  (`database/migrations/0044_media_scanning.sql:263` says the quarantine decides);
- the bulk purge removes the objects of files that are not in the trash and leaves their
  rows, and a file restored while it is purged keeps its row without its bytes;
- a hold that is set after the retention pass has read its candidates, and every deletion
  by an operator, does not look at the hold;
- a flag that commits while the release of an older quarantine is under way opens no
  quarantine of its own;
- `ensure_scan_allows` (`apps/api/src/routes/media.rs:374`) speaks of "a `404` for a trashed
  file", but `may_serve` never returns `Trashed` and nothing on the way tests `deleted_at`:
  the public route loads a file in any state and serves it from the trash.

### Fairness

Only what the workers' loops give: an instance goes on with the pass it is in
(`Continue`, `Drain`: weak fairness); its intervals keep firing
(`BeginTick`, `BeginSweep`: strong fairness, because `select!` in `workflow_runner`
serves both branches and either is disabled while the other runs); the lock of the
cursor row is granted now and then (strong fairness). The webhook runner's `Tick` is
strongly fair: its settling write waits for the row lock of a retention sweep and gets it
before a later sweep does, whereas weak fairness would let sweeps that abort starve it.
Time passes, so backoffs and leases end (weak fairness of one or the other per row); an
open retention transaction ends. The notification runners and the restore workers go on
with their passes and start new ones (weak fairness: nothing else can disable a step of
theirs), and jobs grow old (`Ages`). Of a scheduled health runner only the loop is fair
(`Loop`: `select!` takes one of its branches, and what was called goes on); that it ever
takes the branch of the probes is not assumed, and depends on the two intervals. Nothing
is assumed of operators, requests, panels, receivers or the platform's condition, or of
crashes and lapses beyond their bounds.

## 4. What is proved

All theorems are for every value of the constants allowed by the named assumptions
`ConstantsOK`, `EngineConstantsOK`, `MatcherConstantsOK`, `OutboxConstantsOK`,
`HealthConstantsOK` and `RestoreConstantsOK` (`MediaCustody` needs none): any number of
endpoints, tenants, workflows, rules, channels, services, jobs, files, instances, events
and crashes.

- **WebhookQueueProofs.** `RetentionInv` (types; no row, event or sweep is ahead of the
  sequence; rows locked by a sweep are not pending; tenancy) gives `TypeCorrect`,
  `TenantsIsolated`, `PendingNeverSwept`. The rest first shows what any one step may do to
  a row (`Same`, `Gone`, `Replayed`, `Born`, `Expired`, `Cancelled`, `Taken`) and to the rows in a runner's hands, with `HandsInv` (a batch names each
  row once, and is finished before the next one is claimed), and then argues twice.
  `CountInv` assumes nothing of leases: the runners that hold a row, the acceptances they
  may still cause, the attempts over the ceiling and the room for one more of each are paid
  for by the first claim, the crashes and the lapsed leases. It gives
  `DuplicatesNeedFaults` and `AttemptsNeedFaults`. `LeaseInv` says that until the first
  lapse (`lapses = 0`) a held row is under a live claim, held by one runner, and delivered
  only if accepted in this round; it gives `ClaimsExclusive`, `DeliveredMeansAccepted`,
  `SettlesOnce` and `QueueKeepsLedger` (every action maps to a move of `DeliveryLedger` or
  to a stutter). No theorem has a hypothesis on how long a batch takes: where a lapse
  matters, the property itself names it.
- **WorkflowEngineProofs.** `StepMoves` and `RunMoves` say what any one step of the
  system may do to a row: leave it, rewrite it if it is open, claim it when no earlier
  step is open, create it with a new run, remove it with its run; settle a run by a
  verdict in hand. `NextMoves` shows once that every action is such a move. From the
  moves, and not from the actions, follows `EngineInv`. `SettledTruth` and
  `AuditedOnce` are not inductive: the first needs `VerdictTrue` (a verdict read earlier
  stays true while its run is running, because a run without an open step has no move),
  the second `AuditTokens` (audit rows and everybody about to write one, together, speak
  at most once for a run), and both need `InHand`, `Uncreated` and `AbsentIsBlank`.
  Theorems: `EngineInvariant`, `EngineTypeCorrect`, `SettledRunsTellTheTruth`,
  `StepsRunInOrder`, `SettlementsAuditedOnce`, `FinalIsFinal`. None assumes that actions
  respect their lease. Three more parts stand on this one.
  `DueTimesStartOneRun` counts: a due time is unclaimed, or in the hands of exactly one
  instance that has yet to start its run, or started, or lost to a crash. Every action
  has one of five effects on these counts (left, withdrawn, added, claimed, dropped), and
  `StartInv` (claimed schedules are started before anything else of the tick) is what
  makes a crash lose no more than it holds.
  `LoneInstanceKeepsClaims` and `LoneInstanceNeverRefused` are for one instance:
  `SnapshotsFit` says that what the instance remembers of a step it may still write is
  what the row holds, so a re-queued step was below its cap when it was read and still
  is, and the check constraint never refuses a claim. With two instances the snapshot of
  a second sweeper goes stale, which is the counterexample of `workflow_wedge`.
  `WedgedRunsNeedAnOperator` says that nothing repairs that state: a pending step without
  claims left stays as it is and its run stays running through every tick, sweep, verdict
  and crash of any number of instances, until an operator cancels the run or deletes its
  workflow. It needs `CloseInv`: a step is closed with its run only after the run is, which
  is the one unguarded write that could otherwise end such a step.
- **AutomationMatcherProofs.** `DrainInv`: the instance in a drain holds the lock, its
  batch lies above the cursor, what it fired is in its batch, and every run is for an
  event at or below the cursor. Theorems: `MatcherTypeCorrect`, `RunsStartOnce`,
  `RunsInTenant`, `PassedEventsAccounted`, `CursorNeverGoesBack`. `PassedEventsAccounted`
  rests on what the read did: a batch holds every event that was visible above the cursor
  and up to its last one, so what the cursor passes beside the batch was invisible then.
  `CountersMatchRuns`
  needs more: a drain has not yet counted what it fired, so the invariant relates the
  counter, the committed runs and the pending firings as cardinalities of finite sets.
  `OrderedBusMissesNothing` states the condition under which the claim refuted by
  `matcher_missed` is true: if events become visible in the order of their ids
  (`CommitsInOrder`), the cursor passes an event only by evaluating it or by seeding over
  it. `OrderInv` carries it: below a visible event nothing becomes visible any more, the cursor
  stands on a visible event or at 0, and an open batch holds every event between the
  cursor and its last one. The condition is a hypothesis of the theorem, met by every
  behaviour whose emitting transactions do not overlap; no statement of the code enforces
  it, and TLC confirms `OrderInv` on the behaviours that satisfy it.
- **NotificationOutboxProofs.** Types first, then four independent arguments.
  `UntransportedRowsSkipped` is inductive with the types. `FinishedEmitLeavesRows` needs
  `EmitProgress`: at each place of the emit, which channels already have their row or are
  still on one of its two lists. `OutboxKeepsLedger` needs `Answered`: a runner about to
  write "sent" holds an answer its receiver gave, also when the row is no longer its own.
  `CopiesNeedFaults` and `AttemptsNeedFaults` count the runners that hold a row
  (`OutboxCounts`): copies sent, copies the holders may still send, and the place for one
  more holder (`Slot`: the row is not sent and not under a live claim somebody works on)
  are together at most one more than the faults. A claim moves the place to a holder, a
  send moves a holder to a copy, and a crash or a lapsed lease opens a new place and is
  itself counted. The same for attempts: beyond the cap, the attempts, the holders that
  would re-queue the row (`Early`) and the place for a further claim (`Spare`) are at most
  the cap plus the faults. `HandInv` (one job per row and runner) and `LiveInv` (only a
  pending row carries a live claim) make the moves one by one. No lease is assumed to be
  respected, and the set of runners need not be finite: the holders of a row are shown
  finite along the way.
- **HealthIncidentsProofs.** Every action is first shown to have one of a few effects on
  incidents and runs (`Effect`), and `OneEventPerIncident` follows from the effects with
  `OwedOnce`: events told plus runs that still owe one never exceed one per incident and
  kind, because only the statement that changed the row puts it in a run's hands.
  `OneEventPerBreachWindow` is the same argument for breaches (`BreachLedger`): events
  told, runs that owe one and the window's first observation, if still to come, are at
  most one plus the saves of the thresholds, since only the save, whose foreign key deletes
  the row, makes a second first observation possible.
  `StuckServiceHidesLaterOnes` is the safety side of `incidents_wedge`. In `Stuck(s)` the
  newest open incident of a service says another state than the probes find, the unique
  index takes no second row, and the runs in the loop have not passed the service (TLC
  reaches the state within six steps). Such a service stays stuck, and no incident of a
  later service is opened or closed, until the service changes, goes into maintenance or an
  operator resolves an incident. `LongIntervalNeverRuns` is `health_schedule` for every
  pair of intervals: if the check interval is the longer one, no runner ever comes to a
  probe run, because it always enters `select!` a whole heartbeat interval before the tick.
- **RestoreJobsProofs.** `IInv` adds to the properties that a job is in the hands of one
  worker (`Apart`), that a run has one live job (`OneLive`), and where a cancel flag can
  be found; the actions again reduce to five effects. Theorems: `TypeCorrect`,
  `StoppedJobsNeverWrite`, `RestoresOverlapOnlyAfterGivingUp`, `OutcomesAreFinal`.
- **MediaCustodyProofs.** The library and the scan halves have an invariant each.
  `LibInv`: what a deletion holds is trashed, gone, or explained (`DeletionsExplained`).
  `ScanInv`: who holds the row lock and what it has read (`LocksOK`), one release per
  file (`ReleasesOK`), a claimed file is pending unless claims overlapped (`ClaimsOK`), and
  quarantines follow verdicts (`QuarantinesOK`). Theorems: `TypeCorrect`,
  `QuarantineWithholds` (for files in the trash too), `LossHasACause`.

Only model-checked: the liveness properties (`PendingSettles`, `RunsSettle`,
`EventsArePassed`, `MemoryFollowsTruth`, `JobsSettle`), which are outside the prover's
reach. Every invariant and every action property of a passing run is stated by a theorem,
`ClaimsRemain` for one instance, as its run checks it. `workflow_single` checks that every run ends when one instance
works alone; of that the proofs give the safety half, that no claim is ever refused.

## 5. Left out

- Webhooks: secret rotation, signatures and payload text, the console's reads, the order
  of a batch (rows of one batch are independent), deletion of an organization with all
  its rows, the site of an event (it narrows nothing in the fan-out), the order in which
  retention visits organizations.
- Workflows: what the actions do outside the database, outputs and messages, the audit
  row of a start, run-history reads, the cron calendar (a claimed schedule's next due
  time lies in the future).
- Matcher: the text of conditions and placeholders, the site filter, the removal of
  events by retention (a window of days against a drain of seconds), skip records.
- Notifications: texts, recipients, read and archive marks, dead push endpoints, the
  pruning of old deliveries (no code calls it), deletion of a notification, the
  transports.
- Health: probes, samples, the heartbeat rows, edits of the check interval,
  acknowledgements, runbooks; the counts of a breach beyond two.
- Restores: which parts, the price and the phrase (they decide which end of `run_one` is
  met), the synchronous restore route, the production of backups, schedules.
- Media: versions, derivatives, folders, duplicates, shares and grants, the scanner
  protocol, the age of a trashed file, retention policies, the run logs.
- Search: not modelled. Reading it shows two things a model would state: `drain` logs an
  error of `apply_event` and goes on, but the failed statement has aborted the
  transaction, so the cursor does not move and the same event stops every later drain;
  and, as in the matcher, an id that becomes visible late is passed over
  (`crates/search/src/indexer.rs:173`).
- Identity, permissions, content, onboarding, AI hub, developer portal, analytics and the
  interfaces: rows written by one request each, cryptography, parsing, rendering and
  I/O, which leave a model little to interleave.
- Everything else marked `not_modelled` in `PROJECT.json`, with the reason there. The
  modelled lines are a small share of the repository: most of it is request handlers,
  SQL text, validation and rendering around the state machines above.

## 6. Plan

Done: the event bus with retention, the workflow engine, the matcher, the delivery ledger
and the two queues that refine it, the notification outbox, health incidents, restore
jobs, media custody.

Next, in this order:

1. Proofs: what a single restore worker guarantees.
2. `EventCursor`, the common shape of the matcher and the search indexer, as an abstract
   specification that both refine; the indexer with its rebuild.
3. Backup schedules: due schedules read without a claim and re-armed after the backup.
4. Composition: bus, matcher and engine, from the emission of an event to the end of the
   run it starts, with retention running under them.
5. `Cron` and the policy evaluation as pure operators checked against reference
   definitions; approvals with two deciders.
   New questions about the modelled parts join the existing runs, so that each run keeps
   asking one thing.
