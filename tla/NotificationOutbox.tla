------------------------- MODULE NotificationOutbox -------------------------
(***************************************************************************)
(* The notification outbox of crates/notifications: requests that record a *)
(* notification and then its delivery rows, the delivery runner of every   *)
(* API instance, and the switches of readers and administrators.           *)
(*                                                                         *)
(* Every SQL statement is one step: none of these handlers opens a         *)
(* transaction.  Time is kept as what the statements test: whether         *)
(* next_attempt_at has passed (due) and whether a claim is younger than    *)
(* the lease.  A batch of sends may outlive its lease, as 50 sends of up   *)
(* to 10 s under a lease of 30 s do.                                       *)
(***************************************************************************)
EXTENDS Naturals, FiniteSets

CONSTANTS
  Facts,            \* (recipient, dedupe key) pairs
  Orgs,             \* organizations
  NoOrg,            \* the null organization of a notification
  OrgOf,            \* fact -> organization of the emitting session
  Channels,         \* vocabulary::CHANNELS
  InApp,            \* the channel that is always written
  Queueable,        \* QUEUEABLE: the remote channels a row may wait for
  Transports,       \* channels the runner has a transport for
  Emitters,         \* requests that emit
  Runners,          \* API instances running notification_runner
  Batch,            \* DeliveryConfig.batch
  MaxAttempts,      \* notification_deliveries.max_attempts
  MaxClaims,        \* bound: claims of a row no transport serves
  MaxFaults,        \* bound: crashes, database errors, and leases that lapse
                    \* while their runner still works
  MaxSwitches       \* bound: switches flipped and rows requeued by hand

ASSUME OutboxConstantsOK ==
  /\ Facts # {} /\ NoOrg \notin Orgs
  /\ OrgOf \in [Facts -> Orgs \cup {NoOrg}]
  /\ InApp \in Channels /\ Queueable \subseteq Channels \ {InApp}
  /\ Transports \subseteq Queueable \cup {InApp} /\ InApp \in Transports
  /\ Batch \in Nat \ {0} /\ MaxAttempts \in Nat \ {0} /\ MaxClaims \in Nat
  /\ MaxFaults \in Nat /\ MaxSwitches \in Nat

\* The unique constraint on (notification_id, channel) names a row.
Rows == Facts \X Channels

VARIABLES
  noted,     \* facts with a notifications row
  row,       \* notification_deliveries
  pref,      \* channels the readers leave switched on
  ready,     \* enabled notification_channels rows, <<org, channel>>
  emit,      \* where each emitting request stands
  phase,     \* where each runner stands in run_due
  jobs,      \* claimed jobs not attempted yet
  current,   \* the job attempted and its outcome, or none
  faults,    \* history: crashes, errors and lapses so far
  switches,  \* bound on what people do
  emitted,   \* history: facts whose emit ran to its end
  shifted,   \* history: facts whose reader flipped a switch during the emit
  accepts    \* history: times a receiver took the row's message

runner == <<phase, jobs, current>>
history == <<emitted, shifted, accepts>>
vars == <<noted, row, pref, ready, emit, phase, jobs, current, faults, switches,
          emitted, shifted, accepts>>

Row == [status : {"absent", "pending", "sent", "failed", "skipped"},
        attempts : Nat, due : BOOLEAN, claim : {"none", "live", "expired"}]

RowIn(status) == [status |-> status, attempts |-> 0, due |-> status = "pending",
                  claim |-> "none"]

Job == [id : Rows, attempts : Nat]
Answer == [job : Job, ok : BOOLEAN]
NoJob == [job |-> <<>>, ok |-> FALSE]

\* A request between its steps: the fact it records and the lists it has read.
Emit == [step : {"idle", "allowed", "disabled", "queue", "tail"}, fact : Facts,
         on : SUBSET Channels, off : SUBSET Channels]

Pending(d) == row[d].status = "pending"
Holds(r, d) == \/ \E j \in jobs[r] : j.id = d
               \/ phase[r] = "settle" /\ current[r].job.id = d

Init ==
  /\ noted = {}
  /\ row = [d \in Rows |-> RowIn("absent")]
  /\ pref = Channels
  /\ ready = Orgs \X Queueable
  /\ emit = [e \in Emitters |-> [step |-> "idle", fact |-> CHOOSE f \in Facts : TRUE,
                                 on |-> {}, off |-> {}]]
  /\ phase = [r \in Runners |-> "idle"]
  /\ jobs = [r \in Runners |-> {}]
  /\ current = [r \in Runners |-> NoJob]
  /\ faults = 0 /\ switches = 0
  /\ emitted = {} /\ shifted = {}
  /\ accepts = [d \in Rows |-> 0]

-----------------------------------------------------------------------------
(* Switches *)

Flip == switches < MaxSwitches /\ switches' = switches + 1

\* A reader flips one cell of the preference matrix; the cells of the other
\* channels change no row.
SetPreference(c) ==
  /\ c \in Queueable /\ Flip
  /\ pref' = IF c \in pref THEN pref \ {c} ELSE pref \cup {c}
  /\ shifted' = shifted \cup {emit[e].fact : e \in {e \in Emitters : emit[e].step # "idle"}}
  /\ UNCHANGED <<noted, row, ready, emit, runner, faults, emitted, accepts>>

\* An administrator enables or disables a channel of an organization.
SetChannel(o, c) ==
  /\ Flip
  /\ ready' = IF <<o, c>> \in ready THEN ready \ {<<o, c>>} ELSE ready \cup {<<o, c>>}
  /\ UNCHANGED <<noted, row, pref, emit, runner, faults, history>>

\* retry_delivery, behind the outbox's retry button.
RetryDelivery(d) ==
  /\ row[d].status = "failed" /\ Flip
  /\ row' = [row EXCEPT ![d] = [status |-> "pending", attempts |-> 0, due |-> TRUE,
                                claim |-> row[d].claim]]
  /\ UNCHANGED <<noted, pref, ready, emit, runner, faults, history>>

-----------------------------------------------------------------------------
(* record_with_deliveries *)

\* Only this request's local state moves.
Goto(e, new) == emit' = [emit EXCEPT ![e] = new]

\* The insert is refused for a fact that is already recorded, and the request
\* then has nothing to add.
RecordFact(e, f) ==
  /\ emit[e].step = "idle" /\ f \notin noted
  /\ noted' = noted \cup {f}
  /\ Goto(e, [step |-> "allowed", fact |-> f, on |-> {}, off |-> {}])
  /\ UNCHANGED <<row, pref, ready, runner, faults, history, switches>>

ReadAllowed(e) ==
  /\ emit[e].step = "allowed"
  /\ Goto(e, [step |-> "disabled", fact |-> emit[e].fact, on |-> pref, off |-> {}])
  /\ UNCHANGED <<noted, row, pref, ready, runner, faults, history, switches>>

ReadDisabled(e) ==
  /\ emit[e].step = "disabled"
  /\ Goto(e, [step |-> "queue", fact |-> emit[e].fact, on |-> emit[e].on,
              off |-> Channels \ pref])
  /\ UNCHANGED <<noted, row, pref, ready, runner, faults, history, switches>>

\* insert_delivery: the first row written for a channel wins.
InsertDelivery(d, status) ==
  row' = IF row[d].status = "absent" THEN [row EXCEPT ![d] = RowIn(status)] ELSE row

\* Mutant: a channel without a transport is queued with the others.
ToQueueAny(e) == emit[e].on \ {InApp}

\* The enabled channels that get a waiting row.
ToQueue(e) == emit[e].on \cap Queueable

\* Mutant: switched-off channels leave no row.
ToSkipNone(e) == {}

\* The switched-off channels that get a row saying so.
ToSkip(e) == emit[e].off \cap Queueable

\* The first loop of enqueue.
QueueEnabled(e, c) ==
  /\ emit[e].step = "queue" /\ c \in ToQueue(e)
  /\ InsertDelivery(<<emit[e].fact, c>>, "pending")
  /\ Goto(e, [step |-> "queue", fact |-> emit[e].fact, on |-> emit[e].on \ {c},
              off |-> emit[e].off])
  /\ UNCHANGED <<noted, pref, ready, runner, faults, history, switches>>

\* The second loop.
SkipDisabled(e, c) ==
  /\ emit[e].step = "queue" /\ ToQueue(e) = {} /\ c \in ToSkip(e)
  /\ InsertDelivery(<<emit[e].fact, c>>, "skipped")
  /\ Goto(e, [step |-> "queue", fact |-> emit[e].fact, on |-> emit[e].on,
              off |-> emit[e].off \ {c}])
  /\ UNCHANGED <<noted, pref, ready, runner, faults, history, switches>>

\* The in-app row, whatever the lists say.
QueueInApp(e) ==
  /\ emit[e].step = "queue" /\ ToQueue(e) = {} /\ ToSkip(e) = {}
  /\ InsertDelivery(<<emit[e].fact, InApp>>, "pending")
  /\ Goto(e, [step |-> "tail", fact |-> emit[e].fact,
              on |-> Channels \ (Queueable \cup {InApp}), off |-> {}])
  /\ UNCHANGED <<noted, pref, ready, runner, faults, history, switches>>

\* The third loop: channels_without_transport.
SkipUntransported(e, c) ==
  /\ emit[e].step = "tail" /\ c \in emit[e].on
  /\ InsertDelivery(<<emit[e].fact, c>>, "skipped")
  /\ Goto(e, [step |-> "tail", fact |-> emit[e].fact, on |-> emit[e].on \ {c},
              off |-> {}])
  /\ UNCHANGED <<noted, pref, ready, runner, faults, history, switches>>

EndEmit(e) ==
  /\ emit[e].step = "tail" /\ emit[e].on = {}
  /\ Goto(e, [step |-> "idle", fact |-> emit[e].fact, on |-> {}, off |-> {}])
  /\ emitted' = emitted \cup {emit[e].fact}
  /\ UNCHANGED <<noted, row, pref, ready, runner, faults, shifted, accepts, switches>>

\* A statement fails or the process stops; what was inserted stays.
EmitFails(e) ==
  /\ emit[e].step # "idle" /\ faults < MaxFaults
  /\ faults' = faults + 1
  /\ Goto(e, [step |-> "idle", fact |-> emit[e].fact, on |-> {}, off |-> {}])
  /\ UNCHANGED <<noted, row, pref, ready, runner, history, switches>>

-----------------------------------------------------------------------------
(* Time *)

BackoffElapses(d) ==
  /\ Pending(d) /\ ~row[d].due
  /\ row' = [row EXCEPT ![d] = [row[d] EXCEPT !.due = TRUE]]
  /\ UNCHANGED <<noted, pref, ready, emit, runner, faults, history, switches>>

\* A claim grows older than the lease, whether or not its runner still works.
LeaseExpires(d) ==
  /\ Pending(d) /\ row[d].claim = "live"
  /\ \/ /\ \A r \in Runners : ~Holds(r, d)
        /\ UNCHANGED faults
     \/ /\ \E r \in Runners : Holds(r, d)
        /\ faults < MaxFaults
        /\ faults' = faults + 1
  /\ row' = [row EXCEPT ![d] = [row[d] EXCEPT !.claim = "expired"]]
  /\ UNCHANGED <<noted, pref, ready, emit, runner, history, switches>>

-----------------------------------------------------------------------------
(* run_due *)

\* The channel is switched on for the notification's organization, or for any
\* organization when it has none.
Ready(d) ==
  \E o \in Orgs : <<o, d[2]>> \in ready /\ (OrgOf[d[1]] = NoOrg \/ OrgOf[d[1]] = o)

NotReady == {d \in Rows : Pending(d) /\ d[2] # InApp /\ row[d].claim # "live" /\ ~Ready(d)}

SettleNotReady(r) ==
  /\ phase[r] = "idle"
  /\ row' = [d \in Rows |-> IF d \in NotReady
                              THEN [row[d] EXCEPT !.status = "skipped", !.claim = "none"]
                              ELSE row[d]]
  /\ phase' = [phase EXCEPT ![r] = "claim"]
  /\ UNCHANGED <<noted, pref, ready, emit, jobs, current, faults, history, switches>>

\* Mutant: a live claim is no obstacle.
DueAnyClaim == {d \in Rows : Pending(d) /\ row[d].due
                             /\ (d[2] \in Transports \/ row[d].attempts < MaxClaims)}

\* Rows claim_due may take; it does not look at max_attempts.
Due == {d \in Rows : /\ Pending(d) /\ row[d].due /\ row[d].claim # "live"
                     /\ d[2] \in Transports \/ row[d].attempts < MaxClaims}

\* At most a batch, each with its attempt already counted, and the load of the
\* claimed rows.  Which of too many due rows go first is left open.
ClaimDue(r, S) ==
  /\ phase[r] = "claim"
  /\ S \subseteq Due /\ Cardinality(S) <= Batch
  /\ S # Due => Cardinality(S) = Batch
  /\ row' = [d \in Rows |-> IF d \in S
                              THEN [status |-> "pending", attempts |-> row[d].attempts + 1,
                                    due |-> TRUE, claim |-> "live"]
                              ELSE row[d]]
  /\ jobs' = [jobs EXCEPT ![r] = {[id |-> d, attempts |-> row[d].attempts + 1] : d \in S}]
  /\ phase' = [phase EXCEPT ![r] = IF S = {} THEN "idle" ELSE "deliver"]
  /\ UNCHANGED <<noted, pref, ready, emit, current, faults, history, switches>>

\* The phase after a job: the next one, or the end of the tick.
NextJob(left) == IF left = {} THEN "idle" ELSE "deliver"

\* The transport makes one attempt; the in-app transport always succeeds.
Deliver(r, j, ok) ==
  /\ phase[r] = "deliver" /\ j \in jobs[r] /\ j.id[2] \in Transports
  /\ j.id[2] = InApp => ok
  /\ jobs' = [jobs EXCEPT ![r] = jobs[r] \ {j}]
  /\ current' = [current EXCEPT ![r] = [job |-> j, ok |-> ok]]
  /\ phase' = [phase EXCEPT ![r] = "settle"]
  /\ accepts' = IF ok THEN [accepts EXCEPT ![j.id] = accepts[j.id] + 1] ELSE accepts
  /\ UNCHANGED <<noted, row, pref, ready, emit, faults, emitted, shifted, switches>>

\* Every settling write asks for a pending row, and for nothing about the claim.
WriteRow(d, new) == row' = IF Pending(d) THEN [row EXCEPT ![d] = new] ELSE row

Retried(d) == [status |-> "pending", attempts |-> row[d].attempts, due |-> FALSE,
               claim |-> "none"]

\* No transport: back on the queue, whatever the attempts.
NoTransport(r, j) ==
  /\ phase[r] = "deliver" /\ j \in jobs[r] /\ j.id[2] \notin Transports
  /\ WriteRow(j.id, Retried(j.id))
  /\ jobs' = [jobs EXCEPT ![r] = jobs[r] \ {j}]
  /\ phase' = [phase EXCEPT ![r] = NextJob(jobs[r] \ {j})]
  /\ UNCHANGED <<noted, pref, ready, emit, current, faults, history, switches>>

\* Mutant: the outcome outlives its settling write.
EndJobKept(r) ==
  /\ phase' = [phase EXCEPT ![r] = NextJob(jobs[r])]
  /\ UNCHANGED <<noted, pref, ready, emit, jobs, current, faults, history, switches>>

EndJob(r) ==
  /\ current' = [current EXCEPT ![r] = NoJob]
  /\ phase' = [phase EXCEPT ![r] = NextJob(jobs[r])]
  /\ UNCHANGED <<noted, pref, ready, emit, jobs, faults, history, switches>>

\* Mutant: any outcome is recorded as sent.
MarkSentAlways(r) ==
  LET d == current[r].job.id IN
  /\ phase[r] = "settle"
  /\ WriteRow(d, [row[d] EXCEPT !.status = "sent", !.claim = "none"])
  /\ EndJob(r)

MarkSent(r) ==
  LET d == current[r].job.id IN
  /\ phase[r] = "settle" /\ current[r].ok
  /\ WriteRow(d, [row[d] EXCEPT !.status = "sent", !.claim = "none"])
  /\ EndJob(r)

\* Mutant: off by one at the cap.
MarkRetryPastCap(r) ==
  LET d == current[r].job.id IN
  /\ phase[r] = "settle" /\ ~current[r].ok
  /\ current[r].job.attempts <= MaxAttempts
  /\ WriteRow(d, Retried(d))
  /\ EndJob(r)

MarkRetry(r) ==
  LET d == current[r].job.id IN
  /\ phase[r] = "settle" /\ ~current[r].ok
  /\ current[r].job.attempts < MaxAttempts
  /\ WriteRow(d, Retried(d))
  /\ EndJob(r)

\* Mutant: a row at its cap is left for the next attempt.
MarkFailedNever(r) ==
  LET d == current[r].job.id IN
  /\ phase[r] = "settle" /\ ~current[r].ok
  /\ current[r].job.attempts >= MaxAttempts
  /\ WriteRow(d, [Retried(d) EXCEPT !.attempts = MaxAttempts - 1])
  /\ EndJob(r)

MarkFailed(r) ==
  LET d == current[r].job.id IN
  /\ phase[r] = "settle" /\ ~current[r].ok
  /\ current[r].job.attempts >= MaxAttempts
  /\ WriteRow(d, [row[d] EXCEPT !.status = "failed", !.claim = "none"])
  /\ EndJob(r)

\* The process stops or a statement fails: the tick is over, and its claims
\* stay until their leases run out.
Crash(r) ==
  /\ phase[r] # "idle" /\ faults < MaxFaults
  /\ faults' = faults + 1
  /\ phase' = [phase EXCEPT ![r] = "idle"]
  /\ jobs' = [jobs EXCEPT ![r] = {}]
  /\ current' = [current EXCEPT ![r] = NoJob]
  /\ UNCHANGED <<noted, row, pref, ready, emit, history, switches>>

-----------------------------------------------------------------------------
(* The specification *)

Switches ==
  \/ \E c \in Channels : SetPreference(c)
  \/ \E o \in Orgs, c \in Queueable : SetChannel(o, c)
  \/ \E d \in Rows : RetryDelivery(d)

Request(e) ==
  \/ \E f \in Facts : RecordFact(e, f)
  \/ ReadAllowed(e) \/ ReadDisabled(e) \/ QueueInApp(e) \/ EndEmit(e) \/ EmitFails(e)
  \/ \E c \in Channels : QueueEnabled(e, c) \/ SkipDisabled(e, c) \/ SkipUntransported(e, c)

Clock == \E d \in Rows : BackoffElapses(d) \/ LeaseExpires(d)

Attempt(r) ==
  \/ \E j \in jobs[r] : NoTransport(r, j) \/ \E ok \in BOOLEAN : Deliver(r, j, ok)
  \/ MarkSent(r) \/ MarkRetry(r) \/ MarkFailed(r)

Tick(r) ==
  \/ SettleNotReady(r)
  \/ \E S \in SUBSET Due : ClaimDue(r, S)
  \/ Attempt(r)

Next ==
  \/ Switches \/ Clock
  \/ \E e \in Emitters : Request(e)
  \/ \E r \in Runners : Tick(r) \/ Crash(r)

Spec == Init /\ [][Next]_vars

\* Runners keep ticking, sends end by their timeout, and time passes.
Fairness ==
  /\ \A r \in Runners : WF_vars(Tick(r))
  /\ \A d \in Rows : WF_vars(BackoffElapses(d)) /\ WF_vars(LeaseExpires(d))

FairSpec == Spec /\ Fairness

-----------------------------------------------------------------------------
(* Properties *)

\* Rows, requests and runner-local values stay in their types; a runner holds
\* an unsettled outcome exactly between the send and its settling write.
TypeOK ==
  /\ noted \subseteq Facts
  /\ row \in [Rows -> Row]
  /\ pref \subseteq Channels
  /\ ready \subseteq Orgs \X Queueable
  /\ emit \in [Emitters -> Emit]
  /\ phase \in [Runners -> {"idle", "claim", "deliver", "settle"}]
  /\ jobs \in [Runners -> SUBSET Job]
  /\ current \in [Runners -> Answer \cup {NoJob}]
  /\ \A r \in Runners : phase[r] = "settle" <=> current[r] # NoJob
  /\ faults \in 0 .. MaxFaults /\ switches \in 0 .. MaxSwitches
  /\ emitted \subseteq Facts /\ shifted \subseteq Facts
  /\ accepts \in [Rows -> Nat]

\* record_with_deliveries leaves what the drawer lists: once an emit has run to
\* its end every channel has a row, unless the reader flipped a switch between
\* the two reads of the preferences.
EmitLeavesRows ==
  \A f \in emitted, c \in Channels :
    row[<<f, c>>].status = "absent" => c \in Queueable /\ f \in shifted

\* A channel nobody can deliver for is never queued, claimed or failed: its row
\* says skipped from the start.
UntransportedIsSkipped ==
  \A f \in Facts, c \in Channels \ (Queueable \cup {InApp}) :
    row[<<f, c>>].status \in {"absent", "skipped"}

\* A second copy of a message needs a lease that lapsed under a working runner,
\* or a runner that died after the send.
CopiesNeedALapse ==
  \A d \in Rows : accepts[d] <= 1 + faults

\* Where a transport exists the attempts stop at the cap, except for claims
\* that died or lapsed.
AttemptsBounded ==
  \A d \in Rows :
    d[2] \in Transports => row[d].attempts <= MaxAttempts + faults

\* The outbox keeps the promise of a delivery ledger: sent only if taken, a
\* settled row is final, and only a failed one starts over.
Ledger == INSTANCE DeliveryLedger WITH
            Requeueable <- {"failed"}, Removable <- FALSE,
            status <- [d \in Rows |-> row[d].status],
            taken <- [d \in Rows |-> accepts[d] > 0]

KeepsLedger == Ledger!LedgerSpec

\* Whatever has a transport is settled in the end: sent, failed or skipped.
PendingSettles ==
  \A d \in Rows : d[2] \in Transports => (Pending(d) ~> ~Pending(d))
=============================================================================
