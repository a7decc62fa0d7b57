-------------------------- MODULE HealthIncidents ---------------------------
(***************************************************************************)
(* The incident policy of crates/health: every run of the probes compares  *)
(* each service with what health_incidents remembers of it, opens or       *)
(* resolves incidents, keeps the breach ledger, and then announces what it *)
(* did on the event bus.  The scheduled runner of every API instance and   *)
(* the panel's requests run the same code, with no lock between them.      *)
(*                                                                         *)
(* Every SQL statement is one step; an error ends the run's policy, and    *)
(* with it the announcements of what the run had already written.  Samples *)
(* and acknowledgements decide nothing here and are left out.              *)
(***************************************************************************)
EXTENDS Naturals, FiniteSets

CONSTANTS
  NServices,     \* services with an incident lifecycle, in registry order
  Metrics,       \* metrics a threshold can be stored for
  Runners,       \* scheduled health runners, one per API instance
  Panels,        \* requests that probe, once each: the overview and the button
  CheckInterval,     \* check_interval_seconds, in units of time
  HeartbeatInterval, \* HEARTBEAT_INTERVAL, 30 s, in the same units
  MaxIncidents,  \* bound: incident rows
  MaxWindows,    \* bound: breach windows
  Findings,      \* states a probe may find
  MaxMoves       \* bound: changes of the platform's condition, operators' actions,
                 \* statements that fail and processes that stop

ASSUME HealthConstantsOK ==
  /\ NServices \in Nat \ {0} /\ MaxIncidents \in Nat \ {0} /\ MaxWindows \in Nat \ {0}
  /\ MaxMoves \in Nat /\ Runners \cap Panels = {}
  /\ CheckInterval \in Nat \ {0} /\ HeartbeatInterval \in Nat \ {0}
  /\ "healthy" \in Findings /\ Findings \subseteq {"healthy", "degraded", "down", "unknown"}

Services == 1 .. NServices
Runs == Runners \cup Panels
Ids == 1 .. MaxIncidents
Windows == 1 .. MaxWindows
States == {"healthy", "degraded", "down", "unknown"}

VARIABLES
  truth,      \* what a probe of each service finds
  over,       \* metrics a probe finds over their critical line
  maint,      \* services under a maintenance window
  stored,     \* metrics with a threshold pair
  inc,        \* health_incidents, by id in the order of started_at
  breach,     \* health_breaches: observations of a metric in a window, 0 without a
              \* row, and 2 for two or more
  window,     \* the window of the current time
  run,        \* local state of every run
  loop,       \* how every runner came to its select!, or that it writes a heartbeat
  moves,      \* moves made so far, for the bound
  degraded,   \* history: degraded events about each incident
  recovered,  \* history: recovered events about each incident
  breached,   \* history: breach events about each metric and window
  saves       \* history: saves of the thresholds

world == <<truth, over, window>>
desk == <<maint, stored, saves>>
told == <<degraded, recovered, breached>>
vars == <<truth, over, maint, stored, inc, breach, window, run, loop, moves,
          degraded, recovered, breached, saves>>

Incident == [svc : Services, to : States, supp : BOOLEAN,
             status : {"absent", "open", "resolved"}]
NoIncident == [svc |-> 1, to |-> "healthy", supp |-> FALSE, status |-> "absent"]

\* What a run has to announce: incidents it opened or resolved, first crossings.
Fact == {"degraded", "recovered"} \X Ids

\* A run: the service it is at, what its probes found and are still to be looked
\* at, whether a maintenance window covers the service, and what it has done.
Run == [phase : {"waiting", "idle", "detect", "apply", "thresholds", "samples", "announce"},
        svc : Services, report : [Services -> States], over : SUBSET Metrics,
        win : Windows, supp : BOOLEAN, left : SUBSET Metrics,
        did : SUBSET Fact, crossed : SUBSET Metrics]
NoReport == [s \in Services |-> "unknown"]
IdleRun == [phase |-> "idle", svc |-> 1, report |-> NoReport, over |-> {}, win |-> 1,
            supp |-> FALSE, left |-> {}, did |-> {}, crossed |-> {}]

OpenOf(s) == {i \in Ids : inc[i].status = "open" /\ inc[i].svc = s}

\* open_incident: the newest of a service's open rows; with none the service was
\* last known healthy.
Memory(s) ==
  IF OpenOf(s) = {} THEN "healthy"
  ELSE inc[CHOOSE i \in OpenOf(s) : \A j \in OpenOf(s) : j <= i].to

Init ==
  /\ truth \in [Services -> Findings] /\ over = {}
  /\ maint = {} /\ stored = Metrics
  /\ inc = [i \in Ids |-> NoIncident]
  /\ breach = [b \in Metrics \X Windows |-> 0]
  /\ window = 1
  /\ run = [r \in Runs |-> [IdleRun EXCEPT !.phase = "waiting"]]
  /\ loop = [r \in Runners |-> "rested"]
  /\ moves = 0 /\ saves = 0
  /\ degraded = [i \in Ids |-> 0] /\ recovered = [i \in Ids |-> 0]
  /\ breached = [b \in Metrics \X Windows |-> 0]

-----------------------------------------------------------------------------
(* The platform and its operators *)

\* The bound on what is not the code's own doing.
Move == moves < MaxMoves /\ moves' = moves + 1

ServiceMoves(s, to) ==
  /\ to # truth[s] /\ Move
  /\ truth' = [truth EXCEPT ![s] = to]
  /\ UNCHANGED <<over, window, desk, inc, breach, run, told, loop>>

MetricMoves(m) ==
  /\ Move
  /\ over' = IF m \in over THEN over \ {m} ELSE over \cup {m}
  /\ UNCHANGED <<truth, window, desk, inc, breach, run, told, loop>>

WindowTurns ==
  /\ window < MaxWindows /\ Move
  /\ window' = window + 1
  /\ UNCHANGED <<truth, over, desk, inc, breach, run, told, loop>>

\* A maintenance window is created, deleted, begins or ends.
SetMaintenance(s) ==
  /\ Move
  /\ maint' = IF s \in maint THEN maint \ {s} ELSE maint \cup {s}
  /\ UNCHANGED <<world, stored, saves, inc, breach, run, told, loop>>

\* save_settings replaces every threshold row in one transaction, and the foreign
\* key takes the breach rows with them.
SaveThresholds(S) ==
  /\ Move
  /\ stored' = S
  /\ breach' = [b \in Metrics \X Windows |-> 0]
  /\ saves' = saves + 1
  /\ UNCHANGED <<world, maint, inc, run, told, loop>>

\* resolve, by hand: refused for a row that is already resolved, and announced
\* to nobody.
Resolve(i) ==
  /\ inc[i].status = "open" /\ Move
  /\ inc' = [inc EXCEPT ![i] = [svc |-> inc[i].svc, to |-> "healthy",
                                supp |-> inc[i].supp, status |-> "resolved"]]
  /\ UNCHANGED <<world, maint, stored, saves, breach, run, told, loop>>

-----------------------------------------------------------------------------
(* The loop of the scheduled runner *)

\* How far away the next tick of the heartbeats can be when a runner enters select!:
\* a whole interval after boot or a heartbeat.  The clock of the heartbeats goes on
\* during a run, which takes any time, and a missed tick is due at once.
ToTick(r) == IF loop[r] = "rested" THEN {HeartbeatInterval} ELSE 0 .. HeartbeatInterval

\* The two futures of select!: the tick, and a sleep that every entry starts anew.
\* The earlier one is taken, of two at the same time either, and the other dropped.
InSelect(r) == run[r].phase \in {"waiting", "idle"} /\ loop[r] # "beat"
TickFirst(r) == InSelect(r) /\ \E t \in ToTick(r) : t <= CheckInterval
SleepFirst(r) == InSelect(r) /\ \E t \in ToTick(r) : CheckInterval <= t

Tick(r) ==
  /\ TickFirst(r)
  /\ loop' = [loop EXCEPT ![r] = "beat"]
  /\ UNCHANGED <<world, desk, inc, breach, run, moves, told>>

\* beat_once; then the loop enters select! again.
Beat(r) ==
  /\ loop[r] = "beat"
  /\ loop' = [loop EXCEPT ![r] = "rested"]
  /\ UNCHANGED <<world, desk, inc, breach, run, moves, told>>

-----------------------------------------------------------------------------
(* apply_policy *)

Goto(r, new) == run' = [run EXCEPT ![r] = new]

\* A runner comes to run_once by its sleep, a request when it is made.
Called(r) == IF r \in Runners THEN SleepFirst(r) ELSE run[r].phase = "waiting"

\* The probes; their answers stay as they were however long the run takes.  A
\* runner probes again and again, a request once.
Probe(r) ==
  /\ Called(r)
  /\ loop' = [q \in Runners |-> IF q = r THEN "ran" ELSE loop[q]]
  /\ Goto(r, [phase |-> "detect", svc |-> 1, report |-> truth, over |-> over,
              win |-> window, supp |-> FALSE, left |-> {}, did |-> {}, crossed |-> {}])
  /\ UNCHANGED <<world, desk, inc, breach, moves, told>>

\* Mutant: the loop runs past the last service.
NextServicePast(here, did) ==
  [phase |-> "detect", svc |-> here.svc + 1, report |-> here.report, over |-> here.over,
   win |-> here.win, supp |-> FALSE, left |-> {}, did |-> did, crossed |-> {}]

\* The service loop goes on, and after the last service to the thresholds.
NextService(here, did) ==
  [phase |-> IF here.svc = NServices THEN "thresholds" ELSE "detect",
   svc |-> IF here.svc = NServices THEN 1 ELSE here.svc + 1,
   report |-> IF here.svc = NServices THEN NoReport ELSE here.report,
   over |-> here.over, win |-> here.win, supp |-> FALSE, left |-> {}, did |-> did,
   crossed |-> {}]

\* Mutant: a recovery is no event.
IsEventWorse(from, to) == from # to /\ to \notin {"unknown", "healthy"}

\* Transition::is_event
IsEvent(from, to) == from # to /\ to # "unknown"

\* detect and is_suppressed: two reads of two tables that nobody writes together,
\* taken as one step.
Detect(r) ==
  LET here == run[r] IN
  /\ here.phase = "detect"
  /\ Goto(r, IF IsEvent(Memory(here.svc), here.report[here.svc])
               THEN [here EXCEPT !.phase = "apply", !.supp = here.svc \in maint]
               ELSE NextService(here, here.did))
  /\ UNCHANGED <<world, desk, inc, breach, moves, told, loop>>

\* Transition::is_recovery: what the run remembers of the service is never
\* healthy or unknown when its report is healthy.
IsRecovery(r) == run[r].report[run[r].svc] = "healthy"

\* Mutant: the update does not ask for an open row.
ResolvableAny(s) == {i \in Ids : inc[i].status # "absent" /\ inc[i].svc = s}

\* The rows the recovery update asks for.
Resolvable(s) == OpenOf(s)

\* apply for a recovery: every open row of the service is resolved and the
\* statement returns one of them, or none when a hand or another run was first.
ApplyRecovery(r) ==
  /\ run[r].phase = "apply" /\ IsRecovery(r)
  /\ inc' = [i \in Ids |->
               IF i \in Resolvable(run[r].svc)
                 THEN [svc |-> inc[i].svc, to |-> "healthy", supp |-> inc[i].supp,
                       status |-> "resolved"]
                 ELSE inc[i]]
  /\ \/ /\ Resolvable(run[r].svc) = {}
        /\ Goto(r, NextService(run[r], run[r].did))
     \/ \E i \in Resolvable(run[r].svc) :
          Goto(r, NextService(run[r], run[r].did \cup {<<"recovered", i>>}))
  /\ UNCHANGED <<world, desk, breach, moves, told, loop>>

\* The unique index health_incidents_one_open_per_service.
IndexRefuses(r) == ~run[r].supp /\ \E i \in OpenOf(run[r].svc) : ~inc[i].supp

Fresh == {i \in Ids : inc[i].status = "absent"}

\* apply for anything else: a new row for the transition.
ApplyOpen(r) ==
  /\ run[r].phase = "apply" /\ ~IsRecovery(r) /\ ~IndexRefuses(r)
  /\ \E i \in Fresh :
       /\ \A j \in Fresh : i <= j
       /\ inc' = [inc EXCEPT ![i] = [svc |-> run[r].svc,
                                     to |-> run[r].report[run[r].svc],
                                     supp |-> run[r].supp, status |-> "open"]]
       /\ Goto(r, NextService(run[r], run[r].did \cup {<<"degraded", i>>}))
  /\ UNCHANGED <<world, desk, breach, moves, told, loop>>

\* The index refuses the row: the error leaves the loop, and the run announces
\* the default outcome, which is nothing.
ApplyRefused(r) ==
  /\ run[r].phase = "apply" /\ ~IsRecovery(r) /\ IndexRefuses(r)
  /\ Goto(r, IdleRun)
  /\ UNCHANGED <<world, desk, inc, breach, moves, told, loop>>

\* What is left of a run after its samples: the announcements, if there are any.
Announcing(win, did, crossed) ==
  IF did = {} /\ crossed = {} THEN IdleRun
  ELSE [phase |-> "announce", svc |-> 1, report |-> NoReport, over |-> {}, win |-> win,
        supp |-> FALSE, left |-> {}, did |-> did, crossed |-> crossed]

\* The sample loop, over metrics with a pair when the thresholds were read.
Sampling(here, left, crossed) ==
  IF left = {} THEN Announcing(here.win, here.did, crossed)
  ELSE [phase |-> "samples", svc |-> 1, report |-> NoReport, over |-> here.over,
        win |-> here.win, supp |-> FALSE, left |-> left, did |-> here.did,
        crossed |-> crossed]

ReadThresholds(r) ==
  /\ run[r].phase = "thresholds"
  /\ Goto(r, Sampling(run[r], stored, {}))
  /\ UNCHANGED <<world, desk, inc, breach, moves, told, loop>>

\* Mutant: the second observation of a window is news as well.
ShouldAnnounceTwice(n) == n <= 2

\* BreachCheck::should_announce
ShouldAnnounce(n) == n <= 1

Observed(n) == IF n < 2 THEN n + 1 ELSE 2

\* record_breach; the pair may have been removed since the thresholds were read,
\* and the run then ends with an error.
RecordBreach(r, m) ==
  LET b == <<m, run[r].win>> IN
  /\ run[r].phase = "samples" /\ m \in run[r].left \cap run[r].over
  /\ \/ /\ m \in stored
        /\ breach' = [breach EXCEPT ![b] = Observed(breach[b])]
        /\ Goto(r, Sampling(run[r], run[r].left \ {m},
                            IF ShouldAnnounce(Observed(breach[b]))
                              THEN run[r].crossed \cup {m}
                              ELSE run[r].crossed))
     \/ /\ m \notin stored
        /\ Goto(r, IdleRun)
        /\ UNCHANGED breach
  /\ UNCHANGED <<world, desk, inc, moves, told, loop>>

\* clear_breach closes the row and keeps its count.
ClearBreach(r, m) ==
  /\ run[r].phase = "samples" /\ m \in run[r].left \ run[r].over
  /\ Goto(r, Sampling(run[r], run[r].left \ {m}, run[r].crossed))
  /\ UNCHANGED <<world, desk, inc, breach, moves, told, loop>>

-----------------------------------------------------------------------------
(* announce_changes *)

AnnounceIncident(r, f) ==
  /\ run[r].phase = "announce" /\ f \in run[r].did
  /\ \/ /\ f[1] = "degraded"
        /\ degraded' = [degraded EXCEPT ![f[2]] = degraded[f[2]] + 1]
        /\ UNCHANGED recovered
     \/ /\ f[1] = "recovered"
        /\ recovered' = [recovered EXCEPT ![f[2]] = recovered[f[2]] + 1]
        /\ UNCHANGED degraded
  /\ Goto(r, Announcing(run[r].win, run[r].did \ {f}, run[r].crossed))
  /\ UNCHANGED <<world, desk, inc, breach, moves, breached, loop>>

AnnounceBreach(r, m) ==
  LET b == <<m, run[r].win>> IN
  /\ run[r].phase = "announce" /\ run[r].did = {} /\ m \in run[r].crossed
  /\ breached' = [breached EXCEPT ![b] = breached[b] + 1]
  /\ Goto(r, Announcing(run[r].win, {}, run[r].crossed \ {m}))
  /\ UNCHANGED <<world, desk, inc, breach, moves, degraded, recovered, loop>>

\* A statement fails or the process stops; what was written stays, and what was
\* not announced yet never is.
Fail(r) ==
  /\ run[r].phase \notin {"waiting", "idle"} /\ Move
  /\ Goto(r, IdleRun)
  /\ UNCHANGED <<world, desk, inc, breach, told, loop>>

-----------------------------------------------------------------------------
(* The specification *)

World ==
  \/ \E s \in Services, to \in Findings : ServiceMoves(s, to)
  \/ \E m \in Metrics : MetricMoves(m)
  \/ WindowTurns

Desk ==
  \/ \E s \in Services : SetMaintenance(s)
  \/ \E S \in SUBSET Metrics : SaveThresholds(S)
  \/ \E i \in Ids : Resolve(i)

Step(r) ==
  \/ Probe(r) \/ Detect(r) \/ ApplyRecovery(r) \/ ApplyOpen(r) \/ ApplyRefused(r)
  \/ ReadThresholds(r)
  \/ \E m \in Metrics : RecordBreach(r, m) \/ ClearBreach(r, m) \/ AnnounceBreach(r, m)
  \/ \E f \in run[r].did : AnnounceIncident(r, f)

\* A scheduled runner: its loop and its runs.
Loop(r) == Tick(r) \/ Beat(r) \/ Step(r)

Next ==
  \/ World \/ Desk
  \/ \E r \in Runners : Tick(r) \/ Beat(r)
  \/ \E r \in Runs : Step(r) \/ Fail(r)

Spec == Init /\ [][Next]_vars

\* The loop of a scheduled runner never stops: select! takes one of its branches, and
\* every statement answers or fails.  Nothing is assumed of which branch it is: that
\* is for the two clocks to say.  Nobody has to look at the panel.
FairSpec == Spec /\ \A r \in Runners : WF_vars(Loop(r))

-----------------------------------------------------------------------------
(* Properties *)

\* Rows and runs stay in their types; a run between two runs holds nothing of
\* the last one.
TypeOK ==
  /\ truth \in [Services -> States] /\ over \subseteq Metrics
  /\ maint \subseteq Services /\ stored \subseteq Metrics
  /\ inc \in [Ids -> Incident]
  /\ breach \in [Metrics \X Windows -> 0 .. 2]
  /\ window \in Windows
  /\ run \in [Runs -> Run] /\ loop \in [Runners -> {"rested", "ran", "beat"}]
  /\ \A r \in Runs : run[r].phase = "idle" => run[r] = IdleRun
  /\ moves \in 0 .. MaxMoves
  /\ degraded \in [Ids -> Nat] /\ recovered \in [Ids -> Nat]
  /\ breached \in [Metrics \X Windows -> Nat]
  /\ saves \in Nat

\* announce_changes tells an outage and its recovery at most once, however many
\* runs saw the same transition; an incident closed by hand or left by a failed
\* run is told by no one.
IncidentToldOnce ==
  \A i \in Ids :
    /\ degraded[i] <= 1 /\ recovered[i] <= 1
    /\ inc[i].status = "absent" => degraded[i] = 0
    /\ inc[i].status # "resolved" => recovered[i] = 0

\* A metric over its line is announced once per window, and once more for every
\* save of the thresholds, which empties the ledger.
BreachToldOnce ==
  \A b \in Metrics \X Windows : breached[b] <= 1 + saves

\* A service the loop reaches: nothing is stuck at an earlier one.
Reached(s) ==
  \A t \in 1 .. s - 1 : truth[t] \in {Memory(t), "unknown"}

\* Once the platform settles, the incidents say which services are out: runs
\* that race, go stale or die do not leave one open or missing.  The loop must
\* reach the service: an earlier one going from degraded to down meets the
\* unique index in every run, and the error ends the loop there.
MemoryFollowsTruth ==
  \A s \in Services :
    <>[](truth[s] # "unknown" /\ Reached(s))
      => <>[](truth[s] # "unknown" /\ (OpenOf(s) = {} <=> truth[s] = "healthy"))

\* The same of every service, as "every service is visited" has it.
EveryServiceFollowed ==
  \A s \in Services :
    <>[](truth[s] # "unknown")
      => <>[](truth[s] # "unknown" /\ (OpenOf(s) = {} <=> truth[s] = "healthy"))

\* The scheduled probe run: the history of the panel fills in although no operator
\* watches it.
ScheduledChecksRun == \A r \in Runners : []<>(run[r].phase = "detect")
=============================================================================
