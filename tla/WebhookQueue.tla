---------------------------- MODULE WebhookQueue ----------------------------
(***************************************************************************)
(* The event bus and the webhook delivery queue of crates/events: emission *)
(* with its fan-out, the delivery runners of every API instance, operator  *)
(* redelivery, and the retention sweep.                                    *)
(*                                                                         *)
(* One SQL statement, and one transaction nobody else can see inside of,   *)
(* is one step; a handler that issues several statements is several steps  *)
(* with its local state kept between them.  Wall-clock time is kept only   *)
(* as what the statements test: whether next_attempt_at has passed (due)   *)
(* and whether a claim is younger than the lease (claim).                  *)
(***************************************************************************)
EXTENDS Naturals, FiniteSets

CONSTANTS
  Endpoints,        \* ids of webhook_endpoints rows
  Orgs,             \* organizations
  NoOrg,            \* the null organization of a platform-level event
  OrgOf,            \* endpoint -> organization
  Subscriptions,    \* the subscription lists an operator may store
  Runners,          \* API instances running event_runner
  MaxEvents,        \* bound: events the bus records
  MaxEmits,         \* bound: the first ids, for emissions other than failure notices
  MaxAttempts,      \* DEFAULT_MAX_ATTEMPTS
  MaxRedeliveries,  \* MAX_REDELIVERIES
  Batch,            \* RunnerConfig.batch
  MaxCrashes,       \* bound: runner crashes and aborted ticks
  MaxLapses         \* bound: leases that run out under a working runner

Names == {"page.published", "webhook.test", "webhook.delivery.failed"}
Wildcards == {"page.*", "webhook.*"}

\* The group wildcard the fan-out tests beside the exact name.
WildcardOf(name) == IF name = "page.published" THEN "page.*" ELSE "webhook.*"

ASSUME ConstantsOK ==
  /\ NoOrg \notin Orgs
  /\ OrgOf \in [Endpoints -> Orgs]
  /\ Subscriptions \subseteq SUBSET (Names \cup Wildcards)
  /\ MaxEvents \in Nat /\ MaxEmits \in Nat /\ MaxCrashes \in Nat /\ MaxLapses \in Nat
  /\ MaxAttempts \in Nat \ {0} /\ MaxRedeliveries \in Nat /\ Batch \in Nat \ {0}

EventIds == 1 .. MaxEvents
Scopes == Orgs \cup {NoOrg}

\* The unique index on (endpoint_id, event_id) names a delivery row.
Deliveries == Endpoints \X EventIds

VARIABLES
  endpoint,    \* webhook_endpoints
  lastEvent,   \* identity sequence of events
  event,       \* events
  delivery,    \* webhook_deliveries
  phase,       \* where each runner stands in run_due
  claimed,     \* ids claim_due updated, not loaded yet
  jobs,        \* loaded DeliveryJobs not sent yet
  current,     \* the job being sent and its outcome, or none
  sweep,       \* the retention transaction in progress
  crashes,     \* crashes and aborted ticks so far
  lapses,      \* history: leases that ran out under a runner still at work
  accepts      \* history: 2xx answers per row in its current round

rows == <<endpoint, lastEvent, event, delivery>>
runner == <<phase, claimed, jobs, current>>
vars == <<endpoint, lastEvent, event, delivery, phase, claimed, jobs, current,
          sweep, crashes, lapses, accepts>>

\* A DeliveryJob carries what the rows said when the job was loaded.
Job == [id : Deliveries, attempts : Nat, org : Scopes]

\* The job in hand, with the receiver's answer.
Sent == [job : Job, ok : BOOLEAN]
NoJob == [job |-> <<>>, ok |-> FALSE]

Row == [status : {"absent", "pending", "delivered", "failed"},
        attempts : Nat,
        due : BOOLEAN,
        claim : {"none", "live", "expired"},
        redeliveries : Nat]

NoRow == [status |-> "absent", attempts |-> 0, due |-> FALSE, claim |-> "none",
          redeliveries |-> 0]

NewRow == [NoRow EXCEPT !.status = "pending", !.due = TRUE]

\* The name of an event decides its fan-out, and nothing after it.
Event == [stored : BOOLEAN, org : Scopes]
NoEvent == [stored |-> FALSE, org |-> NoOrg]

NoSweep == [active |-> FALSE, org |-> NoOrg, cutoff |-> 0, doomed |-> {}]

Pending(d) == delivery[d].status = "pending"
Present(d) == delivery[d].status # "absent"
Enabled(e) == endpoint[e].state = "live" /\ endpoint[e].enabled

\* Rows a runner still works on: claimed, loaded, or sent and not settled.
Holds(r, d) ==
  \/ d \in claimed[r]
  \/ \E j \in jobs[r] : j.id = d
  \/ phase[r] = "settle" /\ current[r].job.id = d

\* Rows the open retention transaction has locked.
Locked(d) == d \in sweep.doomed

-----------------------------------------------------------------------------
(* Initially nothing is connected *)

Init ==
  /\ endpoint = [e \in Endpoints |->
                   [state |-> "absent", enabled |-> FALSE, events |-> {}]]
  /\ lastEvent = 0
  /\ event = [v \in EventIds |-> NoEvent]
  /\ delivery = [d \in Deliveries |-> NoRow]
  /\ phase = [r \in Runners |-> "idle"]
  /\ claimed = [r \in Runners |-> {}]
  /\ jobs = [r \in Runners |-> {}]
  /\ current = [r \in Runners |-> NoJob]
  /\ sweep = NoSweep
  /\ crashes = 0
  /\ lapses = 0
  /\ accepts = [d \in Deliveries |-> 0]

(* Endpoints *)

\* A new endpoint is enabled by the column's default.
InsertEndpoint(e) ==
  /\ endpoint[e].state = "absent"
  /\ \E s \in Subscriptions :
       endpoint' = [endpoint EXCEPT ![e] = [state |-> "live", enabled |-> TRUE,
                                            events |-> s]]
  /\ UNCHANGED <<lastEvent, event, delivery, runner, sweep, crashes, lapses, accepts>>

UpdateEndpoint(e) ==
  /\ endpoint[e].state = "live"
  /\ \E on \in BOOLEAN, s \in Subscriptions :
       endpoint' = [endpoint EXCEPT ![e] = [state |-> "live", enabled |-> on,
                                            events |-> s]]
  /\ UNCHANGED <<lastEvent, event, delivery, runner, sweep, crashes, lapses, accepts>>

\* The foreign key cascades to the endpoint's deliveries; a delete waits for
\* the row locks of an open sweep.
DeleteEndpoint(e) ==
  /\ endpoint[e].state = "live"
  /\ \A v \in EventIds : ~Locked(<<e, v>>)
  /\ endpoint' = [endpoint EXCEPT ![e] = [state |-> "removed", enabled |-> FALSE,
                                          events |-> {}]]
  /\ delivery' = [d \in Deliveries |-> IF d[1] = e THEN NoRow ELSE delivery[d]]
  /\ accepts' = [d \in Deliveries |-> IF d[1] = e THEN 0 ELSE accepts[d]]
  /\ UNCHANGED <<lastEvent, event, runner, sweep, crashes, lapses>>

-----------------------------------------------------------------------------
(* Emission: the event row and its deliveries in one transaction *)

\* Mutant: the fan-out without its organization test.
FanOutAnyTenant(name, org) ==
  {e \in Endpoints : /\ Enabled(e)
                     /\ \/ name \in endpoint[e].events
                        \/ WildcardOf(name) \in endpoint[e].events}

\* enqueue_fanout: the enabled endpoints of the event's organization that
\* subscribe to its name or to its group.
FanOut(name, org) ==
  {e \in Endpoints : /\ Enabled(e)
                     /\ OrgOf[e] = org
                     /\ \/ name \in endpoint[e].events
                        \/ WildcardOf(name) \in endpoint[e].events}

Record(org, targets) ==
  LET v == lastEvent + 1 IN
  /\ lastEvent < MaxEvents
  /\ lastEvent' = v
  /\ event' = [event EXCEPT ![v] = [stored |-> TRUE, org |-> org]]
  /\ delivery' = [d \in Deliveries |->
                    IF d[1] \in targets /\ d[2] = v THEN NewRow ELSE delivery[d]]

Emit(name, org) ==
  /\ lastEvent < MaxEmits
  /\ Record(org, FanOut(name, org))
  /\ UNCHANGED <<endpoint, runner, sweep, crashes, lapses, accepts>>

\* The operator's test: exactly this endpoint, enabled or not, and whatever it
\* subscribes to.
EmitTo(e) ==
  /\ endpoint[e].state = "live" /\ lastEvent < MaxEmits
  /\ Record(OrgOf[e], {e})
  /\ UNCHANGED <<endpoint, runner, sweep, crashes, lapses, accepts>>

-----------------------------------------------------------------------------
(* Redelivery and the passage of time *)

\* Mutant: a pending row may be redelivered too.
RedeliverPending(d) ==
  /\ Present(d)
  /\ delivery[d].redeliveries < MaxRedeliveries
  /\ ~Locked(d)
  /\ delivery' = [delivery EXCEPT ![d] =
                    [NewRow EXCEPT !.redeliveries = delivery[d].redeliveries + 1]]
  /\ accepts' = [accepts EXCEPT ![d] = 0]
  /\ UNCHANGED <<endpoint, lastEvent, event, runner, sweep, crashes, lapses>>

Redeliver(d) ==
  /\ delivery[d].status \in {"delivered", "failed"}
  /\ delivery[d].redeliveries < MaxRedeliveries
  /\ ~Locked(d)
  /\ delivery' = [delivery EXCEPT ![d] =
                    [NewRow EXCEPT !.redeliveries = delivery[d].redeliveries + 1]]
  /\ accepts' = [accepts EXCEPT ![d] = 0]
  /\ UNCHANGED <<endpoint, lastEvent, event, runner, sweep, crashes, lapses>>

BackoffElapses(d) ==
  /\ Pending(d) /\ ~delivery[d].due
  /\ delivery' = [delivery EXCEPT ![d].due = TRUE]
  /\ UNCHANGED <<endpoint, lastEvent, event, runner, sweep, crashes, lapses, accepts>>

\* claimed_at falls behind now() - lease_seconds: of a claim whose runner is
\* gone, or of one whose runner still works on the batch (with the defaults, 20
\* sends of up to 10 s against a lease of 120 s).
LeaseExpires(d) ==
  /\ Pending(d) /\ delivery[d].claim = "live"
  /\ \/ (\A r \in Runners : ~Holds(r, d)) /\ UNCHANGED lapses
     \/ /\ \E r \in Runners : Holds(r, d)
        /\ lapses < MaxLapses
        /\ lapses' = lapses + 1
  /\ delivery' = [delivery EXCEPT ![d].claim = "expired"]
  /\ UNCHANGED <<endpoint, lastEvent, event, runner, sweep, crashes, accepts>>

-----------------------------------------------------------------------------
(* The runner: run_due *)

\* cancel_pending_for_disabled
CancelDisabled(r) ==
  /\ phase[r] = "idle"
  /\ delivery' = [d \in Deliveries |->
                    IF Pending(d) /\ ~Enabled(d[1]) /\ delivery[d].claim # "live"
                      THEN [delivery[d] EXCEPT !.status = "failed", !.claim = "none"]
                      ELSE delivery[d]]
  /\ phase' = [phase EXCEPT ![r] = "claim"]
  /\ UNCHANGED <<endpoint, lastEvent, event, claimed, jobs, current,
                 sweep, crashes, lapses, accepts>>

\* Mutant: the claim ignores the lease of another runner.
DueClaimed == {d \in Deliveries : Pending(d) /\ Enabled(d[1]) /\ delivery[d].due}

\* Mutant: an abandoned claim is never due again.
DueUnclaimed == {d \in Deliveries : /\ Pending(d) /\ Enabled(d[1])
                                    /\ delivery[d].due
                                    /\ delivery[d].claim = "none"}

Due == {d \in Deliveries : /\ Pending(d) /\ Enabled(d[1])
                           /\ delivery[d].due
                           /\ delivery[d].claim # "live"}

\* claim_due, the update: up to a batch of due rows, one attempt counted each.
ClaimDue(r, S) ==
  /\ phase[r] = "claim"
  /\ S \subseteq Due
  /\ Cardinality(S) <= Batch /\ (S = {} => Due = {})
  /\ delivery' = [d \in Deliveries |->
                    IF d \in S THEN [delivery[d] EXCEPT
                                       !.attempts = delivery[d].attempts + 1,
                                       !.claim = "live"]
                               ELSE delivery[d]]
  /\ claimed' = [claimed EXCEPT ![r] = S]
  /\ phase' = [phase EXCEPT ![r] = IF S = {} THEN "idle" ELSE "load"]
  /\ UNCHANGED <<endpoint, lastEvent, event, jobs, current, sweep,
                 crashes, lapses, accepts>>

\* claim_due, the select: a row deleted in between is not a job.
Loaded(r) ==
  {[id |-> d, attempts |-> delivery[d].attempts, org |-> event[d[2]].org] :
     d \in {c \in claimed[r] : Present(c)}}

LoadJobs(r) ==
  /\ phase[r] = "load"
  /\ jobs' = [jobs EXCEPT ![r] = Loaded(r)]
  /\ claimed' = [claimed EXCEPT ![r] = {}]
  /\ phase' = [phase EXCEPT ![r] = IF Loaded(r) = {} THEN "idle" ELSE "deliver"]
  /\ UNCHANGED <<rows, current, sweep, crashes, lapses, accepts>>

\* sender::deliver: the receiver takes it, or refuses it, or never answers.
Deliver(r, j) ==
  /\ phase[r] = "deliver"
  /\ j \in jobs[r]
  /\ jobs' = [jobs EXCEPT ![r] = @ \ {j}]
  /\ \E ok \in BOOLEAN :
       /\ current' = [current EXCEPT ![r] = [job |-> j, ok |-> ok]]
       /\ accepts' = [accepts EXCEPT ![j.id] = IF ok /\ Present(j.id) THEN @ + 1 ELSE @]
  /\ phase' = [phase EXCEPT ![r] = "settle"]
  /\ UNCHANGED <<rows, claimed, sweep, crashes, lapses>>

\* The next job of the batch, or the end of the tick.
NextJob(r) == IF jobs[r] = {} THEN "idle" ELSE "deliver"

\* An update by id writes the row when it is still there, and nothing otherwise.
WriteRow(d, new) ==
  /\ ~Locked(d)
  /\ delivery' = IF Present(d) THEN [delivery EXCEPT ![d] = new] ELSE delivery

Finish(r, next) ==
  /\ phase' = [phase EXCEPT ![r] = next]
  /\ UNCHANGED <<endpoint, lastEvent, event, claimed, jobs, sweep,
                 crashes, lapses, accepts>>

\* Mutant: a refused delivery is written as delivered.
MarkDeliveredUnread(r) ==
  LET d == current[r].job.id IN
  /\ phase[r] = "settle"
  /\ WriteRow(d, [delivery[d] EXCEPT !.status = "delivered", !.claim = "none"])
  /\ current' = [current EXCEPT ![r] = NoJob]
  /\ Finish(r, NextJob(r))

\* Mutant: the answer is kept after the row was settled.
MarkDeliveredKept(r) ==
  LET d == current[r].job.id IN
  /\ phase[r] = "settle" /\ current[r].ok
  /\ WriteRow(d, [delivery[d] EXCEPT !.status = "delivered", !.claim = "none"])
  /\ current' = current
  /\ Finish(r, NextJob(r))

MarkDelivered(r) ==
  LET d == current[r].job.id IN
  /\ phase[r] = "settle" /\ current[r].ok
  /\ WriteRow(d, [delivery[d] EXCEPT !.status = "delivered", !.claim = "none"])
  /\ current' = [current EXCEPT ![r] = NoJob]
  /\ Finish(r, NextJob(r))

\* Mutant: one retry too many.
MarkRetryAtLimit(r) ==
  LET d == current[r].job.id IN
  /\ phase[r] = "settle" /\ ~current[r].ok
  /\ current[r].job.attempts <= MaxAttempts
  /\ WriteRow(d, [delivery[d] EXCEPT !.due = FALSE, !.claim = "none"])
  /\ current' = [current EXCEPT ![r] = NoJob]
  /\ Finish(r, NextJob(r))

\* mark_retry leaves the status alone and schedules the next attempt.
MarkRetry(r) ==
  LET d == current[r].job.id IN
  /\ phase[r] = "settle" /\ ~current[r].ok
  /\ current[r].job.attempts < MaxAttempts
  /\ WriteRow(d, [delivery[d] EXCEPT !.due = FALSE, !.claim = "none"])
  /\ current' = [current EXCEPT ![r] = NoJob]
  /\ Finish(r, NextJob(r))

MarkFailed(r) ==
  LET d == current[r].job.id IN
  /\ phase[r] = "settle" /\ ~current[r].ok
  /\ current[r].job.attempts >= MaxAttempts
  /\ WriteRow(d, [delivery[d] EXCEPT !.status = "failed", !.claim = "none"])
  /\ current' = current
  /\ Finish(r, "notice")

\* Giving up is itself recorded on the bus, for the job's organization; an
\* emission that fails (here also one past MaxEvents) is logged and the batch
\* goes on.
EmitFailure(r) ==
  LET j == current[r].job IN
  /\ phase[r] = "notice"
  /\ \/ Record(j.org, FanOut("webhook.delivery.failed", j.org))
     \/ UNCHANGED <<lastEvent, event, delivery>>
  /\ current' = [current EXCEPT ![r] = NoJob]
  /\ phase' = [phase EXCEPT ![r] = NextJob(r)]
  /\ UNCHANGED <<endpoint, claimed, jobs, sweep, crashes, lapses, accepts>>

\* The process stops, or a store error ends the tick: what was claimed stays
\* claimed until its lease runs out.
Crash(r) ==
  /\ phase[r] # "idle"
  /\ crashes < MaxCrashes
  /\ crashes' = crashes + 1
  /\ phase' = [phase EXCEPT ![r] = "idle"]
  /\ claimed' = [claimed EXCEPT ![r] = {}]
  /\ jobs' = [jobs EXCEPT ![r] = {}]
  /\ current' = [current EXCEPT ![r] = NoJob]
  /\ UNCHANGED <<rows, sweep, lapses, accepts>>

-----------------------------------------------------------------------------
(* Retention: sweep_events, one transaction of two deletes *)

\* Mutant: the age alone decides.
SweepableByAge(org, cutoff) ==
  {v \in EventIds : event[v].stored /\ event[v].org = org /\ v <= cutoff}

\* The sweep's predicate, evaluated by each of the two statements.
Sweepable(org, cutoff) ==
  {v \in EventIds : /\ event[v].stored /\ event[v].org = org
                    /\ v <= cutoff
                    /\ \A e \in Endpoints : ~Pending(<<e, v>>)}

\* First delete: the deliveries of due events, invisible to others and locked
\* until the commit.  Any event may be past the cutoff: time passes, and
\* set_retention_window moves the window at will.
SweepDeliveries(org, cutoff) ==
  /\ ~sweep.active
  /\ sweep' = [active |-> TRUE, org |-> org, cutoff |-> cutoff,
               doomed |-> {d \in Deliveries :
                             d[2] \in Sweepable(org, cutoff) /\ Present(d)}]
  /\ UNCHANGED <<rows, runner, crashes, lapses, accepts>>

\* Second delete, the run log and the commit: events with no pending delivery
\* go, and the foreign key takes whatever deliveries they still have.
SweepEvents ==
  LET gone == Sweepable(sweep.org, sweep.cutoff)
      swept == {d \in Deliveries : Present(d) /\ (d[2] \in gone \/ d \in sweep.doomed)}
  IN
  /\ sweep.active
  /\ event' = [v \in EventIds |-> IF v \in gone THEN [event[v] EXCEPT !.stored = FALSE]
                                                ELSE event[v]]
  /\ delivery' = [d \in Deliveries |-> IF d \in swept THEN NoRow ELSE delivery[d]]
  /\ accepts' = [d \in Deliveries |-> IF d \in swept THEN 0 ELSE accepts[d]]
  /\ sweep' = NoSweep
  /\ UNCHANGED <<endpoint, lastEvent, runner, crashes, lapses>>

SweepAborts ==
  /\ sweep.active
  /\ sweep' = NoSweep
  /\ UNCHANGED <<rows, runner, crashes, lapses, accepts>>

-----------------------------------------------------------------------------
(* The specification *)

Operator ==
  \/ \E e \in Endpoints : InsertEndpoint(e) \/ UpdateEndpoint(e) \/ DeleteEndpoint(e) \/ EmitTo(e)
  \/ \E o \in Scopes : Emit("page.published", o)
  \/ \E d \in Deliveries : Redeliver(d)

Clock == \E d \in Deliveries : BackoffElapses(d) \/ LeaseExpires(d)

Settle(r) == MarkDelivered(r) \/ MarkRetry(r) \/ MarkFailed(r)

Tick(r) ==
  \/ CancelDisabled(r)
  \/ \E S \in SUBSET Deliveries : ClaimDue(r, S)
  \/ LoadJobs(r)
  \/ \E j \in jobs[r] : Deliver(r, j)
  \/ Settle(r)
  \/ EmitFailure(r)

Sweep ==
  \/ \E o \in Scopes, c \in 1 .. lastEvent : SweepDeliveries(o, c)
  \/ SweepEvents
  \/ SweepAborts

Next ==
  \/ Operator
  \/ Clock
  \/ \E r \in Runners : Tick(r) \/ Crash(r)
  \/ Sweep

Spec == Init /\ [][Next]_vars

\* Runners keep ticking and time keeps passing; operators, crashes and the
\* retention worker owe nobody anything.  A settling write that waits for a row
\* lock of the sweep gets it before a later sweep does, so repeated sweeps
\* cannot starve it: the runner's fairness is strong.
Fairness ==
  /\ \A r \in Runners : SF_vars(Tick(r))
  /\ \A d \in Deliveries : WF_vars(BackoffElapses(d) \/ LeaseExpires(d))
  /\ WF_vars(SweepEvents)

FairSpec == Spec /\ Fairness

-----------------------------------------------------------------------------
(* Properties *)

Phases == {"idle", "claim", "load", "deliver", "settle", "notice"}

\* Every row, event, and runner-local value stays in its type; a runner holds
\* an unsettled answer exactly in the two phases of deliver_one after the send.
TypeOK ==
  /\ endpoint \in [Endpoints -> [state : {"absent", "live", "removed"},
                                 enabled : BOOLEAN,
                                 events : SUBSET (Names \cup Wildcards)]]
  /\ lastEvent \in 0 .. MaxEvents
  /\ event \in [EventIds -> Event]
  /\ delivery \in [Deliveries -> Row]
  /\ phase \in [Runners -> Phases]
  /\ claimed \in [Runners -> SUBSET Deliveries]
  /\ jobs \in [Runners -> SUBSET Job]
  /\ current \in [Runners -> Sent \cup {NoJob}]
  /\ \A r \in Runners : phase[r] \in {"settle", "notice"} <=> current[r] # NoJob
  /\ sweep \in [active : BOOLEAN, org : Scopes, cutoff : 0 .. MaxEvents,
                doomed : SUBSET Deliveries]
  /\ crashes \in 0 .. MaxCrashes /\ lapses \in 0 .. MaxLapses
  /\ accepts \in [Deliveries -> Nat]

\* "two runners never take the same row": as long as no lease ran out under a
\* working runner, no two runners work on a row, and the row is pending under a
\* live claim unless its endpoint was deleted meanwhile.
ExclusiveClaim ==
  lapses = 0 =>
    \A r \in Runners, d \in Deliveries :
      Holds(r, d) =>
        /\ Present(d) => (Pending(d) /\ delivery[d].claim = "live")
        /\ \A q \in Runners \ {r} : ~Holds(q, d)

\* mark_delivered tells the truth: a row says delivered only when a receiver
\* accepted it in the row's current round, unless a lease ran out under a
\* runner, whose late answer may belong to an earlier round.
DeliveredWasAccepted ==
  \A d \in Deliveries :
    delivery[d].status = "delivered" => accepts[d] > 0 \/ lapses > 0

\* A receiver accepts a fact once per round; each further acceptance needs a
\* runner that died between the answer and the write, or a lease that ran out
\* under a runner at work.
AcceptsBounded == \A d \in Deliveries : accepts[d] <= 1 + crashes + lapses

\* The attempt ladder: no row is attempted more often than max_attempts plus
\* the claims that died and the leases that ran out under a runner.
AttemptsBounded ==
  \A d \in Deliveries : delivery[d].attempts <= MaxAttempts + crashes + lapses

\* A delivery belongs to a stored event of its endpoint's own organization:
\* the fan-out, the failure notice and the sweep never leave a row that leaks
\* to another tenant or refers to nothing.
TenantIsolation ==
  \A d \in Deliveries :
    Present(d) => /\ event[d[2]].stored /\ event[d[2]].org = OrgOf[d[1]]
                  /\ endpoint[d[1]].state = "live"

\* A settled row changes only by a redelivery, which starts a new round, or by
\* being removed: a runner rewrites it late only once a lease has run out.
SettledOnce ==
  [][\A d \in Deliveries :
       /\ lapses' = 0
       /\ delivery[d].status \in {"delivered", "failed"}
       /\ delivery'[d].status # "absent"
       => \/ delivery'[d] = delivery[d]
          \/ delivery'[d] = [NewRow EXCEPT
                                !.redeliveries = delivery[d].redeliveries + 1]]_vars

\* Retention never deletes "a fact a receiver is still owed": a pending row
\* leaves the queue only with its endpoint.
NoFactDropped ==
  [][\A d \in Deliveries :
       Pending(d) /\ delivery'[d].status = "absent"
         => endpoint'[d[1]].state = "removed"]_vars

\* The queue implements a delivery ledger: a row says delivered only of a fact
\* its receiver took since the row was last queued, and a settled row changes
\* only by an operator's redelivery or its removal, up to the first lease that
\* runs out under a working runner.
Ledger == INSTANCE DeliveryLedger WITH
            Rows <- Deliveries, Requeueable <- {"sent", "failed"}, Removable <- TRUE,
            status <- [d \in Deliveries |-> IF delivery[d].status = "delivered"
                                              THEN "sent" ELSE delivery[d].status],
            taken <- [d \in Deliveries |-> accepts[d] > 0]

KeepsLedger == Ledger!LedgerInit /\ [][lapses' = 0 => Ledger!LedgerNext]_vars

\* The queue moves: once the operator leaves an endpoint's switch alone, every
\* pending delivery is settled or removed.
PendingSettles ==
  \A d \in Deliveries :
    (<>[]Enabled(d[1]) \/ <>[]~Enabled(d[1])) => (Pending(d) ~> ~Pending(d))
=============================================================================
