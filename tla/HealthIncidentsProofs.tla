----------------------- MODULE HealthIncidentsProofs ------------------------
(***************************************************************************)
(* Proofs about HealthIncidents for any number of services, runners and    *)
(* requests, however often runs race, fail or go stale.                    *)
(***************************************************************************)
EXTENDS HealthIncidents, FiniteSetTheorems, TLAPS

-----------------------------------------------------------------------------
(* Runs and rows *)

LEMMA Ranges ==
  /\ 1 \in Services /\ 1 \in Windows /\ NServices \in Nat
  /\ NoReport \in [Services -> States]
  BY HealthConstantsOK DEF Services, Windows, NoReport, States

LEMMA RunColumns ==
  ASSUME NEW x \in Run
  PROVE  /\ x.svc \in Services /\ x.report \in [Services -> States]
         /\ x.over \subseteq Metrics /\ x.win \in Windows /\ x.supp \in BOOLEAN
         /\ x.left \subseteq Metrics /\ x.did \subseteq Fact /\ x.crossed \subseteq Metrics
  BY DEF Run

LEMMA IdleType == IdleRun \in Run /\ IdleRun.did = {} /\ IdleRun.phase = "idle"
  BY Ranges DEF IdleRun, Run

LEMMA WaitingType ==
  /\ [IdleRun EXCEPT !.phase = "waiting"] \in Run
  /\ [IdleRun EXCEPT !.phase = "waiting"].phase = "waiting"
  /\ [IdleRun EXCEPT !.phase = "waiting"].did = {}
  BY Ranges DEF IdleRun, Run

\* The next service of a run, or its thresholds.
LEMMA NextServiceType ==
  ASSUME NEW x \in Run, NEW d \in SUBSET Fact
  PROVE  /\ NextService(x, d) \in Run /\ NextService(x, d).did = d
         /\ NextService(x, d).phase # "idle"
<1>1. x.svc \in Services /\ x.report \in [Services -> States]
  BY RunColumns
<1>2. x.over \subseteq Metrics /\ x.win \in Windows
  BY RunColumns
<1>3. (IF x.svc = NServices THEN 1 ELSE x.svc + 1) \in Services
  BY <1>1, Ranges DEF Services
<1>4. (IF x.svc = NServices THEN NoReport ELSE x.report) \in [Services -> States]
  BY <1>1, Ranges
<1>5. NextService(x, d) \in Run
  BY <1>2, <1>3, <1>4 DEF NextService, Run
<1> QED
  BY <1>5 DEF NextService

\* A run with what it has to announce.
LEMMA AnnouncingType ==
  ASSUME NEW w \in Windows, NEW d \in SUBSET Fact, NEW c \in SUBSET Metrics
  PROVE  /\ Announcing(w, d, c) \in Run /\ Announcing(w, d, c).did = d
         /\ Announcing(w, d, c).phase = "idle" => Announcing(w, d, c) = IdleRun
<1>1. CASE d = {} /\ c = {}
  BY <1>1, IdleType DEF Announcing
<1>2. CASE ~(d = {} /\ c = {})
  <2> DEFINE x == [phase |-> "announce", svc |-> 1, report |-> NoReport, over |-> {},
                   win |-> w, supp |-> FALSE, left |-> {}, did |-> d, crossed |-> c]
  <2>1. Announcing(w, d, c) = x
    BY <1>2 DEF Announcing
  <2>2. x \in Run
    BY Ranges DEF Run
  <2>3. x.did = d /\ x.phase = "announce"
    OBVIOUS
  <2> QED
    BY <2>1, <2>2, <2>3
<1> QED
  BY <1>1, <1>2

LEMMA SamplingType ==
  ASSUME NEW x \in Run, NEW l \in SUBSET Metrics, NEW c \in SUBSET Metrics
  PROVE  /\ Sampling(x, l, c) \in Run /\ Sampling(x, l, c).did = x.did
         /\ Sampling(x, l, c).phase = "idle" => Sampling(x, l, c) = IdleRun
<1>1. x.win \in Windows /\ x.did \in SUBSET Fact /\ x.over \in SUBSET Metrics
  BY RunColumns
<1>2. CASE l = {}
  BY <1>1, <1>2, AnnouncingType DEF Sampling
<1>3. CASE l # {}
  <2> DEFINE y == [phase |-> "samples", svc |-> 1, report |-> NoReport, over |-> x.over,
                   win |-> x.win, supp |-> FALSE, left |-> l, did |-> x.did,
                   crossed |-> c]
  <2>1. Sampling(x, l, c) = y
    BY <1>3 DEF Sampling
  <2>2. y \in Run
    BY <1>1, Ranges DEF Run
  <2>3. y.did = x.did /\ y.phase = "samples"
    OBVIOUS
  <2> QED
    BY <2>1, <2>2, <2>3
<1> QED
  BY <1>2, <1>3

LEMMA IncidentColumns ==
  ASSUME NEW x \in Incident
  PROVE  x.svc \in Services /\ x.to \in States /\ x.supp \in BOOLEAN
  BY DEF Incident

\* The row a recovery or a hand leaves.
LEMMA ResolvedType ==
  ASSUME NEW x \in Incident
  PROVE  [svc |-> x.svc, to |-> "healthy", supp |-> x.supp, status |-> "resolved"] \in Incident
<1>1. x.svc \in Services /\ x.supp \in BOOLEAN
  BY IncidentColumns
<1> QED
  BY <1>1 DEF Incident, States

-----------------------------------------------------------------------------
(* What a step does, seen from the incidents and the runs that owe an event *)

\* A run's list of facts becomes d, every other run keeps its own.
Owes(r, d) ==
  /\ run' \in [Runs -> Run]
  /\ \A q \in Runs : run'[q].did = IF q = r THEN d ELSE run[q].did
  /\ \A q \in Runs : run'[q].phase = "idle" => run'[q] = IdleRun

\* Rows only go from absent to open to resolved.
Rows == inc' \in [Ids -> Incident]
Ages ==
  /\ Rows
  /\ \A i \in Ids : inc'[i].status # inc[i].status
       => inc[i].status = "open" /\ inc'[i].status = "resolved"

SameTold == degraded' = degraded /\ recovered' = recovered

\* A step that owes nothing new and tells nothing.
Quiet ==
  /\ Ages /\ SameTold
  /\ run' \in [Runs -> Run]
  /\ \A q \in Runs : run'[q].did \subseteq run[q].did
  /\ \A q \in Runs : run'[q].phase = "idle" => run'[q] = IdleRun

\* A recovery: one of the rows it closes is owed an event.
Closed(r, i) ==
  /\ Ages /\ SameTold /\ inc[i].status = "open" /\ inc'[i].status = "resolved"
  /\ Owes(r, run[r].did \cup {<<"recovered", i>>})

\* A new incident is owed an event.
Opened(r, i) ==
  /\ Rows /\ SameTold /\ inc[i].status = "absent" /\ inc'[i].status = "open"
  /\ \A j \in Ids \ {i} : inc'[j] = inc[j]
  /\ Owes(r, run[r].did \cup {<<"degraded", i>>})

\* An event is sent and owed no longer.
Told(r, i) ==
  /\ inc' = inc
  /\ \/ /\ <<"degraded", i>> \in run[r].did /\ recovered' = recovered
        /\ degraded' = [degraded EXCEPT ![i] = degraded[i] + 1]
        /\ Owes(r, run[r].did \ {<<"degraded", i>>})
     \/ /\ <<"recovered", i>> \in run[r].did /\ degraded' = degraded
        /\ recovered' = [recovered EXCEPT ![i] = recovered[i] + 1]
        /\ Owes(r, run[r].did \ {<<"recovered", i>>})

Effect ==
  \/ Quiet
  \/ \E r \in Runs, i \in Ids : Closed(r, i) \/ Opened(r, i) \/ Told(r, i)

\* The state outside the incidents and the runs.
Settings ==
  /\ truth \in [Services -> States] /\ over \subseteq Metrics
  /\ maint \subseteq Services /\ stored \subseteq Metrics
  /\ breach \in [Metrics \X Windows -> 0 .. 2] /\ window \in Windows
  /\ moves \in 0 .. MaxMoves /\ breached \in [Metrics \X Windows -> Nat] /\ saves \in Nat

\* Goto moves one run.
LEMMA GotoOwes ==
  ASSUME TypeOK, NEW r \in Runs, NEW x \in Run, Goto(r, x),
         x.phase = "idle" => x = IdleRun
  PROVE  Owes(r, x.did)
<1>1. run' \in [Runs -> Run]
  BY DEF TypeOK, Goto
<1>2. \A q \in Runs : run'[q] = IF q = r THEN x ELSE run[q]
  BY DEF TypeOK, Goto
<1> QED
  BY <1>1, <1>2 DEF Owes, TypeOK

LEMMA GotoQuiet ==
  ASSUME TypeOK, NEW r \in Runs, NEW x \in Run, Goto(r, x),
         x.phase = "idle" => x = IdleRun, x.did \subseteq run[r].did,
         inc' = inc, SameTold
  PROVE  Quiet
<1>1. Owes(r, x.did)
  BY GotoOwes
<1>2. Ages
  BY DEF Ages, Rows, TypeOK
<1> QED
  BY <1>1, <1>2 DEF Quiet, Owes

LEMMA StayQuiet ==
  ASSUME TypeOK, run' = run, Ages, SameTold
  PROVE  Quiet
  BY DEF Quiet, TypeOK

LEMMA SameAges ==
  ASSUME TypeOK, inc' = inc
  PROVE  Ages
  BY DEF Ages, Rows, TypeOK

\* Every step has one of these effects.
LEMMA StepEffect == TypeOK /\ [Next]_vars => Effect
<1> SUFFICES ASSUME TypeOK, [Next]_vars PROVE Effect
  OBVIOUS
<1> USE DEF world, desk, told, SameTold
<1>1. ASSUME World PROVE Effect
  <2>1. run' = run /\ inc' = inc /\ degraded' = degraded /\ recovered' = recovered
    BY <1>1 DEF World, ServiceMoves, MetricMoves, WindowTurns
  <2> QED
    BY <2>1, SameAges, StayQuiet DEF Effect
<1>2. ASSUME NEW s \in Services, SetMaintenance(s) PROVE Effect
  BY <1>2, SameAges, StayQuiet DEF Effect, SetMaintenance
<1>3. ASSUME NEW S \in SUBSET Metrics, SaveThresholds(S) PROVE Effect
  BY <1>3, SameAges, StayQuiet DEF Effect, SaveThresholds
<1>4. ASSUME NEW i \in Ids, Resolve(i) PROVE Effect
  <2>1. inc[i] \in Incident
    BY DEF TypeOK
  <2> DEFINE x == [svc |-> inc[i].svc, to |-> "healthy", supp |-> inc[i].supp,
                   status |-> "resolved"]
  <2>2. x \in Incident /\ x.status = "resolved"
    BY <2>1, ResolvedType
  <2>3. inc' = [inc EXCEPT ![i] = x] /\ inc[i].status = "open"
    BY <1>4 DEF Resolve
  <2> HIDE DEF x
  <2>4. Ages
    BY <2>2, <2>3 DEF Ages, Rows, TypeOK
  <2> QED
    BY <1>4, <2>4, StayQuiet DEF Effect, Resolve
<1>5. ASSUME NEW r \in Runs, Probe(r) PROVE Effect
  <2> DEFINE x == [phase |-> "detect", svc |-> 1, report |-> truth, over |-> over,
                   win |-> window, supp |-> FALSE, left |-> {}, did |-> {}, crossed |-> {}]
  <2>1. x \in Run
    BY Ranges DEF TypeOK, Run
  <2>2. x.did = {} /\ x.phase = "detect" /\ Goto(r, x)
    BY <1>5 DEF Probe
  <2> HIDE DEF x
  <2> QED
    BY <1>5, <2>1, <2>2, GotoQuiet DEF Effect, Probe
<1>6. ASSUME NEW r \in Runs, Detect(r) PROVE Effect
  <2>1. run[r] \in Run
    BY DEF TypeOK
  <2>2. run[r].did \in SUBSET Fact
    BY <2>1, RunColumns
  <2>3. CASE IsEvent(Memory(run[r].svc), run[r].report[run[r].svc])
    <3> DEFINE x == [run[r] EXCEPT !.phase = "apply", !.supp = run[r].svc \in maint]
    <3>1. (run[r].svc \in maint) \in BOOLEAN
      OBVIOUS
    <3>2. x \in Run /\ x.phase = "apply" /\ x.did = run[r].did
      BY <2>1, <3>1 DEF Run
    <3>3. Goto(r, x)
      BY <1>6, <2>3 DEF Detect
    <3> HIDE DEF x
    <3> QED
      BY <1>6, <3>2, <3>3, GotoQuiet DEF Effect, Detect
  <2>4. CASE ~IsEvent(Memory(run[r].svc), run[r].report[run[r].svc])
    <3>1. Goto(r, NextService(run[r], run[r].did))
      BY <1>6, <2>4 DEF Detect
    <3> QED
      BY <1>6, <2>1, <2>2, <3>1, NextServiceType, GotoQuiet DEF Effect, Detect
  <2> QED
    BY <2>3, <2>4
<1>7. ASSUME NEW r \in Runs, ApplyRecovery(r) PROVE Effect
  <2>1. run[r] \in Run /\ run[r].did \in SUBSET Fact
    BY RunColumns DEF TypeOK
  <2>2. \A i \in Ids : inc[i] \in Incident
    BY DEF TypeOK
  <2>3. \A i \in Ids : [svc |-> inc[i].svc, to |-> "healthy", supp |-> inc[i].supp,
                        status |-> "resolved"] \in Incident
    BY <2>2, ResolvedType
  <2>4. Rows
    BY <1>7, <2>2, <2>3 DEF Rows, ApplyRecovery
  <2>5. \A i \in Ids : i \in Resolvable(run[r].svc) => inc[i].status = "open"
    BY DEF Resolvable, OpenOf
  <2>6. \A i \in Ids : /\ i \in Resolvable(run[r].svc) => inc'[i].status = "resolved"
                       /\ i \notin Resolvable(run[r].svc) => inc'[i] = inc[i]
    BY <1>7 DEF ApplyRecovery
  <2>7. Ages
    BY <2>4, <2>5, <2>6 DEF Ages
  <2>8. CASE Goto(r, NextService(run[r], run[r].did))
    <3>1. Owes(r, run[r].did)
      BY <2>1, <2>8, NextServiceType, GotoOwes
    <3> QED
      BY <1>7, <2>7, <3>1 DEF Effect, Quiet, Owes, ApplyRecovery
  <2>9. ASSUME NEW i \in Resolvable(run[r].svc),
               Goto(r, NextService(run[r], run[r].did \cup {<<"recovered", i>>}))
        PROVE  Effect
    <3>1. i \in Ids
      BY DEF Resolvable, OpenOf
    <3>2. run[r].did \cup {<<"recovered", i>>} \in SUBSET Fact
      BY <2>1, <3>1 DEF Fact
    <3>3. Owes(r, run[r].did \cup {<<"recovered", i>>})
      BY <2>1, <2>9, <3>2, NextServiceType, GotoOwes
    <3>4. Closed(r, i)
      BY <1>7, <2>5, <2>6, <2>7, <3>1, <3>3 DEF Closed, ApplyRecovery
    <3> QED
      BY <3>1, <3>4 DEF Effect
  <2> QED
    BY <1>7, <2>8, <2>9 DEF ApplyRecovery
<1>8. ASSUME NEW r \in Runs, ApplyOpen(r) PROVE Effect
  <2>1. run[r] \in Run /\ run[r].did \in SUBSET Fact
    BY RunColumns DEF TypeOK
  <2>2. run[r].svc \in Services /\ run[r].report \in [Services -> States] /\ run[r].supp \in BOOLEAN
    BY <2>1, RunColumns
  <2>3. PICK i \in Fresh :
          /\ inc' = [inc EXCEPT ![i] = [svc |-> run[r].svc,
                                        to |-> run[r].report[run[r].svc],
                                        supp |-> run[r].supp, status |-> "open"]]
          /\ Goto(r, NextService(run[r], run[r].did \cup {<<"degraded", i>>}))
    BY <1>8 DEF ApplyOpen
  <2>4. i \in Ids /\ inc[i].status = "absent"
    BY DEF Fresh
  <2> DEFINE x == [svc |-> run[r].svc, to |-> run[r].report[run[r].svc],
                   supp |-> run[r].supp, status |-> "open"]
  <2>5. x \in Incident /\ x.status = "open"
    BY <2>2 DEF Incident
  <2>6. inc' = [inc EXCEPT ![i] = x]
    BY <2>3
  <2> HIDE DEF x
  <2>7. Rows /\ inc'[i].status = "open" /\ \A j \in Ids \ {i} : inc'[j] = inc[j]
    BY <2>4, <2>5, <2>6 DEF Rows, TypeOK
  <2>8. run[r].did \cup {<<"degraded", i>>} \in SUBSET Fact
    BY <2>1, <2>4 DEF Fact
  <2>9. Owes(r, run[r].did \cup {<<"degraded", i>>})
    BY <2>1, <2>3, <2>8, NextServiceType, GotoOwes
  <2>10. Opened(r, i)
    BY <1>8, <2>4, <2>7, <2>9 DEF Opened, ApplyOpen
  <2> QED
    BY <2>4, <2>10 DEF Effect
<1>9. ASSUME NEW r \in Runs, ApplyRefused(r) PROVE Effect
  BY <1>9, IdleType, GotoQuiet DEF Effect, ApplyRefused
<1>10. ASSUME NEW r \in Runs, ReadThresholds(r) PROVE Effect
  <2>1. run[r] \in Run /\ stored \in SUBSET Metrics
    BY DEF TypeOK
  <2> QED
    BY <1>10, <2>1, SamplingType, GotoQuiet DEF Effect, ReadThresholds
<1>11. ASSUME NEW r \in Runs, NEW m \in Metrics, RecordBreach(r, m) PROVE Effect
  <2>1. run[r] \in Run
    BY DEF TypeOK
  <2>2. run[r].left \ {m} \in SUBSET Metrics /\ run[r].crossed \in SUBSET Metrics
        /\ run[r].crossed \cup {m} \in SUBSET Metrics
    BY <2>1, RunColumns
  <2> DEFINE c == IF ShouldAnnounce(Observed(breach[<<m, run[r].win>>]))
                    THEN run[r].crossed \cup {m} ELSE run[r].crossed
  <2>3. c \in SUBSET Metrics
    BY <2>2
  <2>4. \/ Goto(r, Sampling(run[r], run[r].left \ {m}, c))
        \/ Goto(r, IdleRun)
    BY <1>11 DEF RecordBreach
  <2> HIDE DEF c
  <2>5. inc' = inc /\ SameTold
    BY <1>11 DEF RecordBreach
  <2>6. CASE Goto(r, Sampling(run[r], run[r].left \ {m}, c))
    BY <2>1, <2>2, <2>3, <2>5, <2>6, SamplingType, GotoQuiet DEF Effect
  <2>7. CASE Goto(r, IdleRun)
    BY <2>5, <2>7, IdleType, GotoQuiet DEF Effect
  <2> QED
    BY <2>4, <2>6, <2>7
<1>12. ASSUME NEW r \in Runs, NEW m \in Metrics, ClearBreach(r, m) PROVE Effect
  <2>1. run[r] \in Run
    BY DEF TypeOK
  <2>2. run[r].left \ {m} \in SUBSET Metrics /\ run[r].crossed \in SUBSET Metrics
    BY <2>1, RunColumns
  <2> QED
    BY <1>12, <2>1, <2>2, SamplingType, GotoQuiet DEF Effect, ClearBreach
<1>13. ASSUME NEW r \in Runs, NEW f \in run[r].did, AnnounceIncident(r, f) PROVE Effect
  <2>1. run[r] \in Run
    BY DEF TypeOK
  <2>2. /\ run[r].win \in Windows /\ run[r].did \ {f} \in SUBSET Fact
        /\ run[r].crossed \in SUBSET Metrics /\ f \in Fact
    BY <2>1, RunColumns
  <2>3. f = <<f[1], f[2]>> /\ f[2] \in Ids
    BY <2>2 DEF Fact
  <2>4. Goto(r, Announcing(run[r].win, run[r].did \ {f}, run[r].crossed)) /\ inc' = inc
    BY <1>13 DEF AnnounceIncident
  <2>5. Owes(r, run[r].did \ {f})
    BY <2>2, <2>4, AnnouncingType, GotoOwes
  <2>6. CASE f[1] = "degraded"
    <3>1. f = <<"degraded", f[2]>>
      BY <2>3, <2>6
    <3>2. degraded' = [degraded EXCEPT ![f[2]] = degraded[f[2]] + 1] /\ recovered' = recovered
      BY <1>13, <2>6 DEF AnnounceIncident
    <3> QED
      BY <2>3, <2>4, <2>5, <3>1, <3>2 DEF Effect, Told
  <2>7. CASE f[1] = "recovered"
    <3>1. f = <<"recovered", f[2]>>
      BY <2>3, <2>7
    <3>2. recovered' = [recovered EXCEPT ![f[2]] = recovered[f[2]] + 1] /\ degraded' = degraded
      BY <1>13, <2>7 DEF AnnounceIncident
    <3> QED
      BY <2>3, <2>4, <2>5, <3>1, <3>2 DEF Effect, Told
  <2> QED
    BY <1>13, <2>6, <2>7 DEF AnnounceIncident
<1>14. ASSUME NEW r \in Runs, NEW m \in Metrics, AnnounceBreach(r, m) PROVE Effect
  <2>1. run[r] \in Run
    BY DEF TypeOK
  <2>2. /\ run[r].win \in Windows /\ {} \in SUBSET Fact
        /\ run[r].crossed \ {m} \in SUBSET Metrics
    BY <2>1, RunColumns
  <2> QED
    BY <1>14, <2>1, <2>2, AnnouncingType, GotoQuiet DEF Effect, AnnounceBreach
<1>15. ASSUME NEW r \in Runs, Fail(r) PROVE Effect
  BY <1>15, IdleType, GotoQuiet DEF Effect, Fail
<1>16. CASE UNCHANGED vars
  BY <1>16, SameAges, StayQuiet DEF Effect, vars
<1>17. ASSUME NEW r \in Runners, Tick(r) \/ Beat(r) PROVE Effect
  BY <1>17, SameAges, StayQuiet DEF Effect, Tick, Beat
<1> QED
  BY <1>1, <1>2, <1>3, <1>4, <1>5, <1>6, <1>7, <1>8, <1>9, <1>10, <1>11, <1>12, <1>13,
     <1>14, <1>15, <1>16, <1>17 DEF Next, Desk, Step

\* The platform, the desk, the ledger and the bounds stay in their types.
LEMMA SettingsPreserved == TypeOK /\ [Next]_vars => Settings'
<1> SUFFICES ASSUME TypeOK, [Next]_vars PROVE Settings'
  OBVIOUS
<1> USE DEF world, desk, told
<1>0. Settings
  BY DEF Settings, TypeOK
<1> HIDE DEF Settings
<1>1. ASSUME Move PROVE moves' \in 0 .. MaxMoves
  BY <1>1, HealthConstantsOK DEF Move, TypeOK
<1>2. ASSUME NEW s \in Services, NEW to \in Findings, ServiceMoves(s, to) PROVE Settings'
  <2>1. to \in States
    BY HealthConstantsOK DEF States
  <2>2. truth' \in [Services -> States]
    BY <1>2, <2>1 DEF ServiceMoves, TypeOK
  <2> QED
    BY <1>0, <1>1, <1>2, <2>2 DEF ServiceMoves, Settings
<1>3. ASSUME NEW m \in Metrics, MetricMoves(m) PROVE Settings'
  <2>1. over' \subseteq Metrics
    BY <1>3 DEF MetricMoves, TypeOK
  <2> QED
    BY <1>0, <1>1, <1>3, <2>1 DEF MetricMoves, Settings
<1>4. ASSUME WindowTurns PROVE Settings'
  <2>1. window' \in Windows
    BY <1>4, HealthConstantsOK DEF WindowTurns, TypeOK, Windows
  <2> QED
    BY <1>0, <1>1, <1>4, <2>1 DEF WindowTurns, Settings
<1>5. ASSUME NEW s \in Services, SetMaintenance(s) PROVE Settings'
  <2>1. maint' \subseteq Services
    BY <1>5 DEF SetMaintenance, TypeOK
  <2> QED
    BY <1>0, <1>1, <1>5, <2>1 DEF SetMaintenance, Settings
<1>6. ASSUME NEW S \in SUBSET Metrics, SaveThresholds(S) PROVE Settings'
  <2>1. breach' \in [Metrics \X Windows -> 0 .. 2] /\ saves' \in Nat
    BY <1>6 DEF SaveThresholds, TypeOK
  <2> QED
    BY <1>0, <1>1, <1>6, <2>1 DEF SaveThresholds, Settings
<1>7. ASSUME NEW i \in Ids, Resolve(i) PROVE Settings'
  BY <1>0, <1>1, <1>7 DEF Resolve, Settings
<1>8. ASSUME NEW r \in Runs, NEW m \in Metrics, RecordBreach(r, m) PROVE Settings'
  <2>1. run[r].win \in Windows
    BY RunColumns DEF TypeOK
  <2>2. <<m, run[r].win>> \in Metrics \X Windows
    BY <2>1
  <2>3. breach[<<m, run[r].win>>] \in 0 .. 2
    BY <2>2 DEF TypeOK
  <2>4. Observed(breach[<<m, run[r].win>>]) \in 0 .. 2
    BY <2>3 DEF Observed
  <2>5. breach' \in [Metrics \X Windows -> 0 .. 2]
    BY <1>8, <2>2, <2>4 DEF RecordBreach, TypeOK
  <2> QED
    BY <1>0, <1>8, <2>5 DEF RecordBreach, Settings
<1>9. ASSUME NEW r \in Runs, NEW m \in Metrics, AnnounceBreach(r, m) PROVE Settings'
  <2>1. run[r].win \in Windows
    BY RunColumns DEF TypeOK
  <2>2. <<m, run[r].win>> \in Metrics \X Windows
    BY <2>1
  <2>3. breached[<<m, run[r].win>>] + 1 \in Nat
    BY <2>2 DEF TypeOK
  <2>4. breached' \in [Metrics \X Windows -> Nat]
    BY <1>9, <2>2, <2>3 DEF AnnounceBreach, TypeOK
  <2> QED
    BY <1>0, <1>9, <2>4 DEF AnnounceBreach, Settings
<1>10. ASSUME NEW r \in Runs,
              \/ Probe(r) \/ Detect(r) \/ ApplyRecovery(r) \/ ApplyOpen(r)
              \/ ApplyRefused(r) \/ ReadThresholds(r)
              \/ \E m \in Metrics : ClearBreach(r, m)
              \/ \E f \in run[r].did : AnnounceIncident(r, f)
       PROVE  Settings'
  BY <1>0, <1>10 DEF Settings, Probe, Detect, ApplyRecovery, ApplyOpen, ApplyRefused,
     ReadThresholds, ClearBreach, AnnounceIncident
<1>11. ASSUME NEW r \in Runs, Fail(r) PROVE Settings'
  BY <1>0, <1>1, <1>11 DEF Fail, Settings
<1>12. CASE UNCHANGED vars
  BY <1>0, <1>12 DEF vars, Settings
<1>13. ASSUME NEW r \in Runners, Tick(r) \/ Beat(r) PROVE Settings'
  BY <1>0, <1>13 DEF Tick, Beat, Settings
<1> QED
  BY <1>2, <1>3, <1>4, <1>5, <1>6, <1>7, <1>8, <1>9, <1>10, <1>11, <1>12, <1>13
     DEF Next, World, Desk, Step

\* Only the loop of a runner and its runs move the runner between its branches.
LEMMA LoopPreserved == TypeOK /\ [Next]_vars => loop' \in [Runners -> {"rested", "ran", "beat"}]
<1> SUFFICES ASSUME TypeOK, [Next]_vars
             PROVE  loop' \in [Runners -> {"rested", "ran", "beat"}]
  OBVIOUS
<1>0. loop \in [Runners -> {"rested", "ran", "beat"}]
  BY DEF TypeOK
<1>1. ASSUME NEW r \in Runners, Tick(r) \/ Beat(r)
      PROVE  loop' \in [Runners -> {"rested", "ran", "beat"}]
  BY <1>0, <1>1 DEF Tick, Beat
<1>2. ASSUME NEW r \in Runs, Probe(r)
      PROVE  loop' \in [Runners -> {"rested", "ran", "beat"}]
  BY <1>0, <1>2 DEF Probe
<1>3. CASE UNCHANGED loop
  BY <1>0, <1>3
<1> QED
  BY <1>1, <1>2, <1>3 DEF Next, World, Desk, Step, ServiceMoves, MetricMoves, WindowTurns,
     SetMaintenance, SaveThresholds, Resolve, Detect, ApplyRecovery, ApplyOpen,
     ApplyRefused, ReadThresholds, RecordBreach, ClearBreach, AnnounceBreach,
     AnnounceIncident, Fail, vars

\* Every effect keeps the rows, the runs and the counters of events typed.
LEMMA TypePreserved == TypeOK /\ [Next]_vars => TypeOK'
<1> SUFFICES ASSUME TypeOK, [Next]_vars PROVE TypeOK'
  OBVIOUS
<1>1. Effect /\ Settings'
  BY StepEffect, SettingsPreserved
<1>2. /\ inc' \in [Ids -> Incident] /\ run' \in [Runs -> Run]
      /\ \A r \in Runs : run'[r].phase = "idle" => run'[r] = IdleRun
  BY <1>1 DEF Effect, Quiet, Closed, Opened, Told, Owes, Ages, Rows, TypeOK
<1>3. degraded' \in [Ids -> Nat] /\ recovered' \in [Ids -> Nat]
  <2>1. \A i \in Ids : degraded[i] + 1 \in Nat /\ recovered[i] + 1 \in Nat
    BY DEF TypeOK
  <2> QED
    BY <1>1, <2>1 DEF Effect, Quiet, Closed, Opened, Told, SameTold, TypeOK
<1> QED
  BY <1>1, <1>2, <1>3, LoopPreserved DEF TypeOK, Settings

LEMMA TypeInit == Init => TypeOK
<1> SUFFICES ASSUME Init PROVE TypeOK
  OBVIOUS
<1>1. NoIncident \in Incident
  BY Ranges DEF NoIncident, Incident, States
<1>2. inc \in [Ids -> Incident]
  BY <1>1 DEF Init
<1>3. run \in [Runs -> Run] /\ \A r \in Runs : run[r].phase = "idle" => run[r] = IdleRun
  BY WaitingType DEF Init
<1>4. truth \in [Services -> States]
  BY HealthConstantsOK DEF Init, States
<1>5. /\ breach \in [Metrics \X Windows -> 0 .. 2] /\ breached \in [Metrics \X Windows -> Nat]
      /\ degraded \in [Ids -> Nat] /\ recovered \in [Ids -> Nat]
  BY DEF Init
<1> QED
  BY <1>2, <1>3, <1>4, <1>5, Ranges, HealthConstantsOK DEF Init, TypeOK

\* The health tables and the runs stay in their types, and a finished run keeps
\* nothing, through every race and failure.
THEOREM TypeCorrect == Spec => []TypeOK
  BY TypeInit, TypePreserved, PTL DEF Spec

-----------------------------------------------------------------------------
(* One event per incident *)

\* An event is owed by one run at most, and only while it has not been sent; a
\* row that is not resolved owes no recovery, one that is absent nothing at all.
OwedOnce ==
  /\ IncidentToldOnce
  /\ \A i \in Ids, r \in Runs :
       /\ <<"degraded", i>> \in run[r].did
            => /\ degraded[i] = 0 /\ inc[i].status # "absent"
               /\ \A q \in Runs : <<"degraded", i>> \in run[q].did => q = r
       /\ <<"recovered", i>> \in run[r].did
            => /\ recovered[i] = 0 /\ inc[i].status = "resolved"
               /\ \A q \in Runs : <<"recovered", i>> \in run[q].did => q = r

LEMMA OwedInit == Init => OwedOnce
<1> SUFFICES ASSUME Init PROVE OwedOnce
  OBVIOUS
<1>1. \A r \in Runs : run[r].did = {}
  BY WaitingType DEF Init
<1>3. \A i \in Ids : degraded[i] = 0 /\ recovered[i] = 0
  BY DEF Init
<1>4. IncidentToldOnce
  BY <1>3 DEF IncidentToldOnce
<1> QED
  BY <1>1, <1>4 DEF OwedOnce

LEMMA OwedPreserved == TypeOK /\ OwedOnce /\ [Next]_vars => OwedOnce'
<1> SUFFICES ASSUME TypeOK, OwedOnce, [Next]_vars PROVE OwedOnce'
  OBVIOUS
<1>0. Effect
  BY StepEffect
<1>t. \A i \in Ids : degraded[i] \in Nat /\ recovered[i] \in Nat
  BY DEF TypeOK
<1>1. CASE Quiet
  BY <1>1 DEF Quiet, Ages, SameTold, OwedOnce, IncidentToldOnce
<1>2. ASSUME NEW r \in Runs, NEW i \in Ids, Closed(r, i) PROVE OwedOnce'
  <2>1. \A q \in Runs, j \in Ids :
          /\ <<"degraded", j>> \in run'[q].did => <<"degraded", j>> \in run[q].did
          /\ <<"recovered", j>> \in run'[q].did
               => <<"recovered", j>> \in run[q].did \/ (q = r /\ j = i)
    BY <1>2 DEF Closed, Owes
  <2>2. \A q \in Runs : <<"recovered", i>> \notin run[q].did
    BY <1>2 DEF Closed, OwedOnce
  <2>3. /\ \A j \in Ids : inc'[j].status # inc[j].status
              => inc[j].status = "open" /\ inc'[j].status = "resolved"
        /\ inc[i].status = "open" /\ inc'[i].status = "resolved"
        /\ degraded' = degraded /\ recovered' = recovered
    BY <1>2 DEF Closed, Ages, SameTold
  <2> QED
    BY <2>1, <2>2, <2>3 DEF OwedOnce, IncidentToldOnce
<1>3. ASSUME NEW r \in Runs, NEW i \in Ids, Opened(r, i) PROVE OwedOnce'
  <2>1. \A q \in Runs, j \in Ids :
          /\ <<"recovered", j>> \in run'[q].did => <<"recovered", j>> \in run[q].did
          /\ <<"degraded", j>> \in run'[q].did
               => <<"degraded", j>> \in run[q].did \/ (q = r /\ j = i)
    BY <1>3 DEF Opened, Owes
  <2>2. \A q \in Runs : <<"degraded", i>> \notin run[q].did /\ <<"recovered", i>> \notin run[q].did
    BY <1>3 DEF Opened, OwedOnce
  <2>3. /\ \A j \in Ids \ {i} : inc'[j] = inc[j]
        /\ inc[i].status = "absent" /\ inc'[i].status = "open"
        /\ degraded' = degraded /\ recovered' = recovered
    BY <1>3 DEF Opened, SameTold
  <2>4. degraded[i] = 0 /\ recovered[i] = 0
    BY <2>3 DEF OwedOnce, IncidentToldOnce
  <2> QED
    BY <2>1, <2>2, <2>3, <2>4 DEF OwedOnce, IncidentToldOnce
<1>4. ASSUME NEW r \in Runs, NEW i \in Ids, Told(r, i) PROVE OwedOnce'
  <2>1. CASE <<"degraded", i>> \in run[r].did /\ degraded' = [degraded EXCEPT ![i] = degraded[i] + 1]
             /\ recovered' = recovered /\ Owes(r, run[r].did \ {<<"degraded", i>>})
    <3>1. degraded[i] = 0 /\ inc[i].status # "absent"
          /\ \A q \in Runs : <<"degraded", i>> \in run[q].did => q = r
      BY <2>1 DEF OwedOnce
    <3>2. \A j \in Ids : degraded'[j] = IF j = i THEN 1 ELSE degraded[j]
      BY <2>1, <3>1 DEF TypeOK
    <3>3. \A q \in Runs, j \in Ids :
            /\ <<"recovered", j>> \in run'[q].did => <<"recovered", j>> \in run[q].did
            /\ <<"degraded", j>> \in run'[q].did => <<"degraded", j>> \in run[q].did /\ j # i
      BY <2>1, <3>1 DEF Owes
    <3> QED
      BY <1>4, <2>1, <3>1, <3>2, <3>3 DEF Told, OwedOnce, IncidentToldOnce
  <2>2. CASE <<"recovered", i>> \in run[r].did /\ recovered' = [recovered EXCEPT ![i] = recovered[i] + 1]
             /\ degraded' = degraded /\ Owes(r, run[r].did \ {<<"recovered", i>>})
    <3>1. recovered[i] = 0 /\ inc[i].status = "resolved"
          /\ \A q \in Runs : <<"recovered", i>> \in run[q].did => q = r
      BY <2>2 DEF OwedOnce
    <3>2. \A j \in Ids : recovered'[j] = IF j = i THEN 1 ELSE recovered[j]
      BY <2>2, <3>1 DEF TypeOK
    <3>3. \A q \in Runs, j \in Ids :
            /\ <<"degraded", j>> \in run'[q].did => <<"degraded", j>> \in run[q].did
            /\ <<"recovered", j>> \in run'[q].did => <<"recovered", j>> \in run[q].did /\ j # i
      BY <2>2, <3>1 DEF Owes
    <3> QED
      BY <1>4, <2>2, <3>1, <3>2, <3>3 DEF Told, OwedOnce, IncidentToldOnce
  <2> QED
    BY <1>4, <2>1, <2>2 DEF Told
<1> QED
  BY <1>0, <1>1, <1>2, <1>3, <1>4 DEF Effect

\* An outage and its recovery are each announced at most once, however many runs
\* see the same transition, and nothing is announced of a row that is not there.
THEOREM OneEventPerIncident == Spec => []IncidentToldOnce
<1>1. Init => TypeOK /\ OwedOnce
  BY TypeInit, OwedInit
<1>2. TypeOK /\ OwedOnce /\ [Next]_vars => TypeOK' /\ OwedOnce'
  BY TypePreserved, OwedPreserved
<1>3. OwedOnce => IncidentToldOnce
  BY DEF OwedOnce
<1> QED
  BY <1>1, <1>2, <1>3, PTL DEF Spec

-----------------------------------------------------------------------------
(* One event per breach window *)

Breaches == Metrics \X Windows

\* The runs that have yet to announce a first crossing.
Owing(b) == {r \in Runs : b[1] \in run[r].crossed /\ run[r].win = b[2]}

\* A window without an observation will have one first observation.
Unseen(b) == IF breach[b] = 0 THEN 1 ELSE 0

\* Sent, owed and still possible events about a window, all told.
BreachLedger ==
  \A b \in Breaches :
    /\ IsFiniteSet(Owing(b))
    /\ breached[b] + Cardinality(Owing(b)) + Unseen(b) <= 1 + saves

\* What a run owes after each way to go on.
LEMMA CrossedAfter ==
  /\ IdleRun.crossed = {}
  /\ [IdleRun EXCEPT !.phase = "waiting"].crossed = {}
  /\ \A x, d : NextService(x, d).crossed = {}
<1>1. IdleRun.crossed = {} /\ [IdleRun EXCEPT !.phase = "waiting"].crossed = {}
  BY DEF IdleRun
<1>2. \A x, d : NextService(x, d).crossed = {}
  BY DEF NextService
<1> QED
  BY <1>1, <1>2

LEMMA AnnouncingCrossed ==
  ASSUME NEW w, NEW d, NEW c
  PROVE  Announcing(w, d, c).crossed = c /\ (c # {} => Announcing(w, d, c).win = w)
<1>1. CASE d = {} /\ c = {}
  BY <1>1, CrossedAfter DEF Announcing
<1>2. CASE ~(d = {} /\ c = {})
  BY <1>2 DEF Announcing
<1> QED
  BY <1>1, <1>2

LEMMA SamplingCrossed ==
  ASSUME NEW x, NEW l, NEW c
  PROVE  Sampling(x, l, c).crossed = c /\ (c # {} => Sampling(x, l, c).win = x.win)
<1>1. CASE l = {}
  BY <1>1, AnnouncingCrossed DEF Sampling
<1>2. CASE l # {}
  BY <1>2 DEF Sampling
<1> QED
  BY <1>1, <1>2

\* A run that moves on keeps some of what it owes, and of the same window.
LEMMA GotoOwing ==
  ASSUME TypeOK, NEW r \in Runs, NEW x, Goto(r, x), NEW C, x.crossed \subseteq C,
         x.crossed # {} => x.win = run[r].win, NEW b \in Breaches
  PROVE  Owing(b)' \subseteq (Owing(b) \ {r})
                               \cup (IF b[1] \in C /\ run[r].win = b[2] THEN {r} ELSE {})
<1>1. \A q \in Runs : run'[q] = IF q = r THEN x ELSE run[q]
  BY DEF TypeOK, Goto
<1> QED
  BY <1>1 DEF Owing

\* A step after which a window has no more events to come than before.
LEMMA LedgerQuiet ==
  ASSUME TypeOK, TypeOK', BreachLedger, NEW b \in Breaches, Owing(b)' \subseteq Owing(b),
         breached' = breached, breach'[b] = breach[b], saves' = saves
  PROVE  IsFiniteSet(Owing(b)') /\ breached'[b] + Cardinality(Owing(b)') + Unseen(b)' <= 1 + saves'
<1>1. /\ IsFiniteSet(Owing(b)) /\ breached[b] \in Nat /\ saves \in Nat
      /\ breached[b] + Cardinality(Owing(b)) + Unseen(b) <= 1 + saves
  BY DEF BreachLedger, TypeOK, Breaches
<1>2. /\ IsFiniteSet(Owing(b)') /\ Cardinality(Owing(b)') <= Cardinality(Owing(b))
      /\ Cardinality(Owing(b)') \in Nat /\ Cardinality(Owing(b)) \in Nat
  BY <1>1, FS_Subset, FS_CardinalityType
<1>3. Unseen(b)' = Unseen(b) /\ Unseen(b) \in Nat
  BY DEF Unseen
<1> QED
  BY <1>1, <1>2, <1>3

LEMMA BreachPreserved == TypeOK /\ BreachLedger /\ [Next]_vars => BreachLedger'
<1> SUFFICES ASSUME TypeOK, BreachLedger, [Next]_vars, NEW b \in Breaches
             PROVE  /\ IsFiniteSet(Owing(b)')
                    /\ breached'[b] + Cardinality(Owing(b)') + Unseen(b)' <= 1 + saves'
  BY DEF BreachLedger
<1> DEFINE Kept == /\ IsFiniteSet(Owing(b)')
                   /\ breached'[b] + Cardinality(Owing(b)') + Unseen(b)' <= 1 + saves'
<1> USE DEF world, desk, told
<1>t. TypeOK'
  BY TypePreserved
<1>i. /\ IsFiniteSet(Owing(b)) /\ Cardinality(Owing(b)) \in Nat
      /\ breached[b] \in Nat /\ saves \in Nat /\ breach[b] \in 0 .. 2
      /\ breached[b] + Cardinality(Owing(b)) + Unseen(b) <= 1 + saves
      /\ b = <<b[1], b[2]>> /\ b[1] \in Metrics /\ b[2] \in Windows
  BY FS_CardinalityType DEF BreachLedger, TypeOK, Breaches
<1>1. CASE World \/ (\E s \in Services : SetMaintenance(s)) \/ (\E i \in Ids : Resolve(i))
           \/ UNCHANGED vars
  <2>1. run' = run /\ breached' = breached /\ breach' = breach /\ saves' = saves
    BY <1>1 DEF World, ServiceMoves, MetricMoves, WindowTurns, SetMaintenance, Resolve, vars
  <2>2. Owing(b)' = Owing(b)
    BY <2>1 DEF Owing
  <2> QED
    BY <1>t, <2>1, <2>2, LedgerQuiet
<1>2. ASSUME NEW S \in SUBSET Metrics, SaveThresholds(S) PROVE Kept
  <2>1. Owing(b)' = Owing(b)
    BY <1>2 DEF SaveThresholds, Owing
  <2>2. breached' = breached /\ breach'[b] = 0 /\ saves' = saves + 1
    BY <1>2 DEF SaveThresholds, Breaches
  <2> QED
    BY <1>i, <2>1, <2>2 DEF Unseen
<1>3. ASSUME NEW r \in Runs, NEW x, Goto(r, x), x.crossed \subseteq run[r].crossed,
             x.crossed # {} => x.win = run[r].win,
             breached' = breached, breach' = breach, saves' = saves
      PROVE  Kept
  <2>1. Owing(b)' \subseteq (Owing(b) \ {r})
          \cup (IF b[1] \in run[r].crossed /\ run[r].win = b[2] THEN {r} ELSE {})
    BY <1>3, GotoOwing
  <2>2. Owing(b)' \subseteq Owing(b)
    BY <2>1 DEF Owing
  <2> QED
    BY <1>t, <1>3, <2>2, LedgerQuiet
<1>4. ASSUME NEW r \in Runs, Probe(r) PROVE Kept
  <2> DEFINE x == [phase |-> "detect", svc |-> 1, report |-> truth, over |-> over,
                   win |-> window, supp |-> FALSE, left |-> {}, did |-> {}, crossed |-> {}]
  <2>1. x.crossed = {} /\ Goto(r, x)
    BY <1>4 DEF Probe
  <2> HIDE DEF x
  <2> QED
    BY <1>3, <1>4, <2>1 DEF Probe
<1>5. ASSUME NEW r \in Runs, Detect(r) PROVE Kept
  <2>1. run[r] \in Run
    BY DEF TypeOK
  <2>2. CASE IsEvent(Memory(run[r].svc), run[r].report[run[r].svc])
    <3> DEFINE x == [run[r] EXCEPT !.phase = "apply", !.supp = run[r].svc \in maint]
    <3>1. x.crossed = run[r].crossed /\ x.win = run[r].win
      BY <2>1 DEF Run
    <3>2. Goto(r, x)
      BY <1>5, <2>2 DEF Detect
    <3> HIDE DEF x
    <3> QED
      BY <1>3, <1>5, <3>1, <3>2 DEF Detect
  <2>3. CASE ~IsEvent(Memory(run[r].svc), run[r].report[run[r].svc])
    <3>1. Goto(r, NextService(run[r], run[r].did))
      BY <1>5, <2>3 DEF Detect
    <3> QED
      BY <1>3, <1>5, <3>1, CrossedAfter DEF Detect
  <2> QED
    BY <2>2, <2>3
<1>6. ASSUME NEW r \in Runs, ApplyRecovery(r) \/ ApplyOpen(r) PROVE Kept
  <2>1. \E d : Goto(r, NextService(run[r], d))
    BY <1>6 DEF ApplyRecovery, ApplyOpen
  <2>2. breached' = breached /\ breach' = breach /\ saves' = saves
    BY <1>6 DEF ApplyRecovery, ApplyOpen
  <2> QED
    BY <1>3, <2>1, <2>2, CrossedAfter
<1>7. ASSUME NEW r \in Runs, ApplyRefused(r) \/ Fail(r) PROVE Kept
  <2>1. Goto(r, IdleRun) /\ breached' = breached /\ breach' = breach /\ saves' = saves
    BY <1>7 DEF ApplyRefused, Fail
  <2> QED
    BY <1>3, <2>1, CrossedAfter
<1>8. ASSUME NEW r \in Runs, ReadThresholds(r) PROVE Kept
  BY <1>3, <1>8, SamplingCrossed DEF ReadThresholds
<1>9. ASSUME NEW r \in Runs, NEW m \in Metrics, ClearBreach(r, m) PROVE Kept
  BY <1>3, <1>9, SamplingCrossed DEF ClearBreach
<1>10. ASSUME NEW r \in Runs, NEW f \in run[r].did, AnnounceIncident(r, f) PROVE Kept
  BY <1>3, <1>10, AnnouncingCrossed DEF AnnounceIncident
<1>11. ASSUME NEW r \in Runs, NEW m \in Metrics, RecordBreach(r, m) PROVE Kept
  <2> DEFINE k == <<m, run[r].win>>
             C == IF ShouldAnnounce(Observed(breach[k])) THEN run[r].crossed \cup {m}
                                                         ELSE run[r].crossed
  <2>1. k \in Breaches
    BY RunColumns DEF TypeOK, Breaches
  <2>2. breached' = breached /\ saves' = saves
    BY <1>11 DEF RecordBreach
  <2>3. CASE m \notin stored
    <3>1. Goto(r, IdleRun) /\ breach' = breach
      BY <1>11, <2>3 DEF RecordBreach
    <3> QED
      BY <1>3, <2>2, <3>1, CrossedAfter
  <2>4. CASE m \in stored
    <3>1. /\ breach' = [breach EXCEPT ![k] = Observed(breach[k])]
          /\ Goto(r, Sampling(run[r], run[r].left \ {m}, C))
      BY <1>11, <2>4 DEF RecordBreach
    <3>2. Owing(b)' \subseteq (Owing(b) \ {r})
            \cup (IF b[1] \in C /\ run[r].win = b[2] THEN {r} ELSE {})
      <4>1. /\ Sampling(run[r], run[r].left \ {m}, C).crossed = C
            /\ C # {} => Sampling(run[r], run[r].left \ {m}, C).win = run[r].win
        BY SamplingCrossed
      <4> HIDE DEF C
      <4> QED
        BY <3>1, <4>1, GotoOwing
    <3>3. CASE b = k /\ breach[b] = 0
      <4>1. Owing(b)' \subseteq Owing(b) \cup {r}
        BY <3>2
      <4>2. /\ IsFiniteSet(Owing(b) \cup {r})
            /\ Cardinality(Owing(b) \cup {r}) <= Cardinality(Owing(b)) + 1
            /\ Cardinality(Owing(b) \cup {r}) \in Nat
        <5>1. /\ IsFiniteSet(Owing(b) \cup {r})
              /\ Cardinality(Owing(b) \cup {r})
                   = IF r \in Owing(b) THEN Cardinality(Owing(b)) ELSE Cardinality(Owing(b)) + 1
          BY <1>i, FS_AddElement
        <5> QED
          BY <1>i, <5>1
      <4>3. /\ IsFiniteSet(Owing(b)') /\ Cardinality(Owing(b)') \in Nat
            /\ Cardinality(Owing(b)') <= Cardinality(Owing(b) \cup {r})
        BY <4>1, <4>2, FS_Subset, FS_CardinalityType
      <4>4. breach'[b] = 1
        BY <2>1, <3>1, <3>3 DEF Observed, TypeOK, Breaches
      <4>5. Unseen(b) = 1 /\ Unseen(b)' = 0
        BY <3>3, <4>4 DEF Unseen
      <4> QED
        BY <1>i, <2>2, <4>2, <4>3, <4>5
    <3>4. CASE b = k /\ breach[b] # 0
      <4>1. Observed(breach[b]) = 2
        BY <1>i, <3>4 DEF Observed
      <4>2. C = run[r].crossed
        BY <3>4, <4>1 DEF ShouldAnnounce
      <4>3. Owing(b)' \subseteq Owing(b)
        BY <3>2, <4>2 DEF Owing
      <4>4. breach'[b] = 2
        BY <2>1, <3>1, <3>4, <4>1 DEF TypeOK, Breaches
      <4>5. Unseen(b)' = 0 /\ Unseen(b) = 0
        BY <3>4, <4>4 DEF Unseen
      <4>6. /\ IsFiniteSet(Owing(b)') /\ Cardinality(Owing(b)') \in Nat
            /\ Cardinality(Owing(b)') <= Cardinality(Owing(b))
        BY <1>i, <4>3, FS_Subset, FS_CardinalityType
      <4> QED
        BY <1>i, <2>2, <4>5, <4>6
    <3>5. CASE b # k
      <4>1. ~(b[1] = m /\ run[r].win = b[2])
        BY <1>i, <3>5
      <4>2. Owing(b)' \subseteq Owing(b)
        BY <3>2, <4>1 DEF Owing
      <4>3. breach'[b] = breach[b]
        BY <3>1, <3>5 DEF TypeOK, Breaches
      <4> QED
        BY <1>t, <2>2, <4>2, <4>3, LedgerQuiet
    <3> QED
      BY <3>3, <3>4, <3>5
  <2> QED
    BY <2>3, <2>4
<1>12. ASSUME NEW r \in Runs, NEW m \in Metrics, AnnounceBreach(r, m) PROVE Kept
  <2> DEFINE k == <<m, run[r].win>>
             C == run[r].crossed \ {m}
  <2>1. /\ m \in run[r].crossed /\ saves' = saves /\ breach' = breach
        /\ breached' = [breached EXCEPT ![k] = breached[k] + 1]
        /\ Goto(r, Announcing(run[r].win, {}, C))
    BY <1>12 DEF AnnounceBreach
  <2>2. Owing(b)' \subseteq (Owing(b) \ {r})
          \cup (IF b[1] \in C /\ run[r].win = b[2] THEN {r} ELSE {})
    <3>1. /\ Announcing(run[r].win, {}, C).crossed = C
          /\ C # {} => Announcing(run[r].win, {}, C).win = run[r].win
      BY AnnouncingCrossed
    <3> HIDE DEF C
    <3> QED
      BY <2>1, <3>1, GotoOwing
  <2>3. CASE b = k
    <3>1. Owing(b)' \subseteq Owing(b) \ {r} /\ r \in Owing(b)
      BY <2>1, <2>2, <2>3 DEF Owing
    <3>2. /\ IsFiniteSet(Owing(b) \ {r})
          /\ Cardinality(Owing(b) \ {r}) = Cardinality(Owing(b)) - 1
      BY <1>i, <3>1, FS_RemoveElement
    <3>3. /\ IsFiniteSet(Owing(b)') /\ Cardinality(Owing(b)') \in Nat
          /\ Cardinality(Owing(b)') <= Cardinality(Owing(b) \ {r})
      BY <3>1, <3>2, FS_Subset, FS_CardinalityType
    <3>4. breached'[b] = breached[b] + 1
      BY <2>1, <2>3 DEF TypeOK, Breaches
    <3>5. Unseen(b)' = Unseen(b) /\ Unseen(b) \in Nat
      BY <2>1 DEF Unseen
    <3> QED
      BY <1>i, <2>1, <3>2, <3>3, <3>4, <3>5
  <2>4. CASE b # k
    <3>1. Owing(b)' \subseteq Owing(b)
      BY <2>2 DEF Owing
    <3>2. /\ IsFiniteSet(Owing(b)') /\ Cardinality(Owing(b)') \in Nat
          /\ Cardinality(Owing(b)') <= Cardinality(Owing(b))
      BY <1>i, <3>1, FS_Subset, FS_CardinalityType
    <3>3. breached'[b] = breached[b] /\ Unseen(b)' = Unseen(b) /\ Unseen(b) \in Nat
      BY <2>1, <2>4 DEF TypeOK, Breaches, Unseen
    <3> QED
      BY <1>i, <2>1, <3>2, <3>3
  <2> QED
    BY <2>3, <2>4
<1>13. ASSUME NEW r \in Runners, Tick(r) \/ Beat(r) PROVE Kept
  <2>1. UNCHANGED <<run, breached, breach, saves>>
    BY <1>13 DEF Tick, Beat
  <2>2. Owing(b)' \subseteq Owing(b)
    BY <2>1 DEF Owing
  <2> QED
    BY <1>t, <2>1, <2>2, LedgerQuiet
<1> QED
  BY <1>1, <1>2, <1>4, <1>5, <1>6, <1>7, <1>8, <1>9, <1>10, <1>11, <1>12, <1>13
  DEF Next, Desk, Step

LEMMA BreachInit == Init => BreachLedger
<1> SUFFICES ASSUME Init, NEW b \in Breaches
             PROVE  /\ IsFiniteSet(Owing(b))
                    /\ breached[b] + Cardinality(Owing(b)) + Unseen(b) <= 1 + saves
  BY DEF BreachLedger
<1>1. Owing(b) = {}
  BY CrossedAfter DEF Init, Owing
<1>2. breached[b] = 0 /\ saves = 0 /\ Unseen(b) = 1
  BY DEF Init, Unseen, Breaches
<1> QED
  BY <1>1, <1>2, FS_EmptySet

\* A metric over its line is announced once per window, and once more for every
\* save of the thresholds, however many runs observe it and however they race.
THEOREM OneEventPerBreachWindow == Spec => []BreachToldOnce
<1>1. TypeOK /\ BreachLedger => BreachToldOnce
  <2> SUFFICES ASSUME TypeOK, BreachLedger, NEW b \in Breaches PROVE breached[b] <= 1 + saves
    BY DEF BreachToldOnce, Breaches
  <2>1. /\ IsFiniteSet(Owing(b)) /\ breached[b] \in Nat /\ saves \in Nat
        /\ breached[b] + Cardinality(Owing(b)) + Unseen(b) <= 1 + saves
    BY DEF BreachLedger, TypeOK, Breaches
  <2>2. Cardinality(Owing(b)) \in Nat /\ Unseen(b) \in Nat
    BY <2>1, FS_CardinalityType DEF Unseen
  <2> QED
    BY <2>1, <2>2
<1>2. Init => TypeOK /\ BreachLedger
  BY TypeInit, BreachInit
<1>3. TypeOK /\ BreachLedger /\ [Next]_vars => TypeOK' /\ BreachLedger'
  BY TypePreserved, BreachPreserved
<1> QED
  BY <1>1, <1>2, <1>3, PTL DEF Spec

-----------------------------------------------------------------------------
(* A service that gets worse while its incident is open *)

\* A run that has yet to reach service s, or is at it, and found it in state f.
Before(x, s, f) ==
  x.phase \in {"detect", "apply"} =>
    /\ x.svc <= s /\ x.report[s] = f
    /\ x.phase = "apply" /\ x.svc = s => ~x.supp

\* The newest open incident of s says another state than the probes find, the
\* unique index takes no second row, and every run in the loop will meet that.
Stuck(s) ==
  /\ truth[s] \notin {"healthy", "unknown"} /\ s \notin maint
  /\ \E i \in OpenOf(s) : ~inc[i].supp
  /\ \E i \in OpenOf(s) : inc[i].to # truth[s] /\ \A j \in OpenOf(s) : j <= i
  /\ \A r \in Runs : Before(run[r], s, truth[s])

\* What leads out of it: the service changes, maintenance begins, or an operator
\* resolves the incident.
Relieved(s) ==
  truth'[s] # truth[s] \/ s \in maint' \/ \E i \in OpenOf(s) : Resolve(i)

\* A step that writes incidents of earlier services only, and takes no run past s.
StaysBefore(s) ==
  /\ truth'[s] = truth[s] /\ s \notin maint'
  /\ \A i \in Ids : \/ inc'[i] = inc[i]
                    \/ inc'[i].svc < s /\ (inc[i].status = "absent" \/ inc[i].svc < s)
  /\ \A q \in Runs : run'[q] = run[q] \/ Before(run'[q], s, truth[s])

LEMMA IncidentSvc == \A x \in Incident : x.svc \in Services
  BY DEF Incident

LEMMA StuckStays ==
  ASSUME TypeOK, TypeOK', NEW s \in Services, Stuck(s), StaysBefore(s)
  PROVE  Stuck(s)' /\ \A i \in Ids : inc'[i] # inc[i] => ~(inc'[i].svc > s)
<1>s. s \in Nat
  BY HealthConstantsOK DEF Services
<1>1. OpenOf(s)' = OpenOf(s) /\ \A i \in OpenOf(s) : inc'[i] = inc[i]
  BY <1>s DEF OpenOf, StaysBefore
<1>2. /\ truth'[s] \notin {"healthy", "unknown"} /\ s \notin maint'
      /\ \E i \in OpenOf(s)' : ~inc'[i].supp
  BY <1>1 DEF Stuck, StaysBefore
<1>3. \E i \in OpenOf(s)' : inc'[i].to # truth'[s] /\ \A j \in OpenOf(s)' : j <= i
  BY <1>1 DEF Stuck, StaysBefore
<1>4. \A q \in Runs : Before(run'[q], s, truth'[s])
  BY DEF Stuck, StaysBefore
<1>5. ASSUME NEW i \in Ids, inc'[i] # inc[i], inc'[i].svc > s PROVE FALSE
  <2>1. inc'[i].svc \in Nat
    BY IncidentSvc, HealthConstantsOK DEF TypeOK, Services
  <2> QED
    BY <1>s, <1>5, <2>1 DEF StaysBefore
<1> QED
  BY <1>2, <1>3, <1>4, <1>5 DEF Stuck

\* A run that goes on to something behind the loop.
LEMMA LeavesLoop ==
  ASSUME TypeOK, NEW s \in Services, Stuck(s), NEW r \in Runs, NEW x,
         x.phase \notin {"detect", "apply"}, Goto(r, x), UNCHANGED <<truth, maint, inc>>
  PROVE  StaysBefore(s)
<1>1. \A q \in Runs : run'[q] = IF q = r THEN x ELSE run[q]
  BY DEF TypeOK, Goto
<1>2. Before(x, s, truth[s])
  BY DEF Before
<1> QED
  BY <1>1, <1>2 DEF StaysBefore, Stuck

\* A run in the loop that goes on to the next service before s.
LEMMA NextBefore ==
  ASSUME NEW s \in Services, NEW x \in Run, NEW f, x.svc < s, x.report[s] = f, NEW d
  PROVE  Before(NextService(x, d), s, f)
<1>1. x.svc \in Nat /\ s \in Nat /\ s <= NServices /\ NServices \in Nat
  BY RunColumns, HealthConstantsOK DEF Services
<1>2. NextService(x, d).phase = "detect" /\ NextService(x, d).svc = x.svc + 1
      /\ NextService(x, d).report = x.report
  BY <1>1 DEF NextService
<1> QED
  BY <1>1, <1>2 DEF Before

LEMMA PhasesAfter ==
  ASSUME NEW x, NEW l, NEW w, NEW d, NEW c
  PROVE  /\ IdleRun.phase \notin {"detect", "apply"}
         /\ Announcing(w, d, c).phase \notin {"detect", "apply"}
         /\ Sampling(x, l, c).phase \notin {"detect", "apply"}
<1>1. IdleRun.phase \notin {"detect", "apply"}
  BY DEF IdleRun
<1>2. \A w1, d1, c1 : Announcing(w1, d1, c1).phase \notin {"detect", "apply"}
  BY <1>1 DEF Announcing
<1>3. CASE l = {}
  BY <1>1, <1>2, <1>3 DEF Sampling
<1>4. CASE l # {}
  BY <1>1, <1>2, <1>4 DEF Sampling
<1> QED
  BY <1>3, <1>4

LEMMA StuckMoves ==
  ASSUME TypeOK, [Next]_vars, NEW s \in Services, Stuck(s)
  PROVE  StaysBefore(s) \/ Relieved(s) \/ \E i \in Ids : inc[i].svc # s /\ Resolve(i)
<1> DEFINE Goal == StaysBefore(s) \/ Relieved(s) \/ \E i \in Ids : inc[i].svc # s /\ Resolve(i)
<1>s. s \in Nat /\ 1 <= s
  BY HealthConstantsOK DEF Services
<1>a. ASSUME UNCHANGED <<inc, run>> PROVE Goal
  <2>1. CASE truth'[s] = truth[s] /\ s \notin maint'
    BY <1>a, <2>1 DEF StaysBefore
  <2>2. CASE ~(truth'[s] = truth[s] /\ s \notin maint')
    BY <2>2 DEF Relieved
  <2> QED
    BY <2>1, <2>2
<1>b. ASSUME NEW i \in Ids, Resolve(i) PROVE Goal
  BY <1>b DEF Relieved, Resolve, OpenOf
<1>c. ASSUME NEW r \in Runs, NEW x, x.phase \notin {"detect", "apply"}, Goto(r, x),
             UNCHANGED <<truth, maint, inc>>
      PROVE  Goal
  BY <1>c, LeavesLoop
<1>1. ASSUME NEW r \in Runs, Probe(r) PROVE Goal
  <2> DEFINE new == [phase |-> "detect", svc |-> 1, report |-> truth, over |-> over,
                     win |-> window, supp |-> FALSE, left |-> {}, did |-> {}, crossed |-> {}]
  <2>1. \A q \in Runs : run'[q] = IF q = r THEN new ELSE run[q]
    BY <1>1 DEF Probe, Goto, TypeOK
  <2>2. Before(new, s, truth[s])
    BY <1>s DEF Before
  <2>3. truth' = truth /\ maint' = maint /\ inc' = inc
    BY <1>1 DEF Probe, world, desk
  <2> QED
    BY <2>1, <2>2, <2>3 DEF StaysBefore, Stuck
\* In the loop.
<1>h. ASSUME NEW r \in Runs, run[r].phase \in {"detect", "apply"}
      PROVE  /\ run[r] \in Run /\ run[r].svc \in Services /\ run[r].svc \in Nat
             /\ run[r].svc <= s /\ run[r].report[s] = truth[s]
             /\ run[r].phase = "apply" /\ run[r].svc = s => ~run[r].supp
  BY <1>h, RunColumns, HealthConstantsOK DEF Stuck, Before, TypeOK, Services
<1>2. ASSUME NEW r \in Runs, Detect(r) PROVE Goal
  <2> DEFINE here == run[r]
             there == [here EXCEPT !.phase = "apply", !.supp = here.svc \in maint]
             Event == IsEvent(Memory(here.svc), here.report[here.svc])
             new == IF Event THEN there ELSE NextService(here, here.did)
  <2>0. here.phase = "detect"
    BY <1>2 DEF Detect
  <2>1. \A q \in Runs : run'[q] = IF q = r THEN new ELSE run[q]
    BY <1>2 DEF Detect, Goto, TypeOK
  <2>2. truth' = truth /\ maint' = maint /\ inc' = inc
    BY <1>2 DEF Detect, world, desk
  <2>3. /\ here \in Run /\ here.svc \in Nat /\ here.svc <= s /\ here.report[s] = truth[s]
    BY <1>h, <2>0
  <2>4. there.phase = "apply" /\ there.svc = here.svc /\ there.report = here.report
        /\ there.supp = (here.svc \in maint)
    BY <2>3 DEF Run
  <2>5. Before(there, s, truth[s])
    BY <2>3, <2>4 DEF Before, Stuck
  <2>6. here.svc = s => Event
    <3> SUFFICES ASSUME here.svc = s PROVE Event
      OBVIOUS
    <3>1. PICK i \in OpenOf(s) : inc[i].to # truth[s] /\ \A j \in OpenOf(s) : j <= i
      BY DEF Stuck
    <3>2. \A k \in OpenOf(s) : (\A j \in OpenOf(s) : j <= k) => k = i
      BY <3>1, HealthConstantsOK DEF OpenOf, Ids
    <3>3. (CHOOSE k \in OpenOf(s) : \A j \in OpenOf(s) : j <= k) = i
      BY <3>1, <3>2
    <3>4. Memory(s) = inc[i].to
      BY <3>1, <3>3 DEF Memory
    <3> QED
      BY <2>3, <3>1, <3>4 DEF IsEvent, Stuck
  <2>7. ~Event => Before(NextService(here, here.did), s, truth[s])
    <3> SUFFICES ASSUME ~Event PROVE Before(NextService(here, here.did), s, truth[s])
      OBVIOUS
    <3>1. here.svc < s
      BY <1>s, <2>3, <2>6
    <3> HIDE DEF here, Event
    <3> QED
      BY <2>3, <3>1, NextBefore
  <2>8. Before(new, s, truth[s])
    BY <2>5, <2>7
  <2> HIDE DEF new
  <2>9. StaysBefore(s)
    BY <2>1, <2>2, <2>8 DEF StaysBefore, Stuck
  <2> QED
    BY <2>9
\* A run that writes is at an earlier service.
<1>3. ASSUME NEW r \in Runs, run[r].phase = "apply", IsRecovery(r) \/ ~IndexRefuses(r)
      PROVE  run[r].svc < s
  <2>0. run[r].svc \in Nat /\ run[r].svc <= s
    BY <1>h, <1>3
  <2>1. CASE run[r].svc = s
    <3>1. run[r].report[s] = truth[s] /\ ~run[r].supp
      BY <1>h, <1>3, <2>1
    <3>2. ~IsRecovery(r) /\ IndexRefuses(r)
      BY <2>1, <3>1 DEF IsRecovery, IndexRefuses, Stuck
    <3> QED
      BY <1>3, <3>2
  <2> QED
    BY <1>s, <2>0, <2>1
<1>4. ASSUME NEW r \in Runs, ApplyRecovery(r) PROVE Goal
  <2>1. run[r].phase = "apply" /\ IsRecovery(r)
    BY <1>4 DEF ApplyRecovery
  <2>2. run[r].svc < s /\ run[r] \in Run /\ run[r].report[s] = truth[s]
    BY <1>3, <1>h, <2>1
  <2>3. PICK d : Goto(r, NextService(run[r], d))
    BY <1>4 DEF ApplyRecovery
  <2>4. \A q \in Runs : run'[q] = IF q = r THEN NextService(run[r], d) ELSE run[q]
    BY <2>3 DEF Goto, TypeOK
  <2>5. Before(NextService(run[r], d), s, truth[s])
    BY <2>2, NextBefore
  <2>6. truth' = truth /\ maint' = maint
    BY <1>4 DEF ApplyRecovery, world, desk
  <2>7. \A i \in Ids : inc'[i] = inc[i] \/ (inc[i].svc = run[r].svc /\ inc'[i].svc = run[r].svc)
    BY <1>4 DEF ApplyRecovery, Resolvable, OpenOf
  <2>8. StaysBefore(s)
    BY <2>2, <2>4, <2>5, <2>6, <2>7 DEF StaysBefore, Stuck
  <2> QED
    BY <2>8
<1>5. ASSUME NEW r \in Runs, ApplyOpen(r) PROVE Goal
  <2>1. run[r].phase = "apply" /\ ~IndexRefuses(r)
    BY <1>5 DEF ApplyOpen
  <2>2. run[r].svc < s /\ run[r] \in Run /\ run[r].report[s] = truth[s]
    BY <1>3, <1>h, <2>1
  <2>3. PICK i \in Fresh :
          /\ inc' = [inc EXCEPT ![i] = [svc |-> run[r].svc, to |-> run[r].report[run[r].svc],
                                        supp |-> run[r].supp, status |-> "open"]]
          /\ Goto(r, NextService(run[r], run[r].did \cup {<<"degraded", i>>}))
    BY <1>5 DEF ApplyOpen
  <2> DEFINE d == run[r].did \cup {<<"degraded", i>>}
  <2>4. \A q \in Runs : run'[q] = IF q = r THEN NextService(run[r], d) ELSE run[q]
    BY <2>3 DEF Goto, TypeOK
  <2>5. Before(NextService(run[r], d), s, truth[s])
    BY <2>2, NextBefore
  <2>6. truth' = truth /\ maint' = maint
    BY <1>5 DEF ApplyOpen, world, desk
  <2>7. \A k \in Ids : \/ inc'[k] = inc[k]
                       \/ inc[k].status = "absent" /\ inc'[k].svc = run[r].svc
    BY <2>3 DEF Fresh, TypeOK
  <2>8. StaysBefore(s)
    BY <2>2, <2>4, <2>5, <2>6, <2>7 DEF StaysBefore, Stuck
  <2> QED
    BY <2>8
<1>6. ASSUME NEW r \in Runs, ApplyRefused(r) \/ Fail(r) PROVE Goal
  <2>1. Goto(r, IdleRun) /\ UNCHANGED <<truth, maint, inc>>
    BY <1>6 DEF ApplyRefused, Fail, world, desk
  <2> QED
    BY <1>c, <2>1, PhasesAfter
<1>7. ASSUME NEW r \in Runs, ReadThresholds(r) PROVE Goal
  <2>1. Goto(r, Sampling(run[r], stored, {})) /\ UNCHANGED <<truth, maint, inc>>
    BY <1>7 DEF ReadThresholds, world, desk
  <2> QED
    BY <1>c, <2>1, PhasesAfter
<1>8. ASSUME NEW r \in Runs, NEW m, RecordBreach(r, m) \/ ClearBreach(r, m) PROVE Goal
  <2>1. /\ Goto(r, IdleRun) \/ \E l, c : Goto(r, Sampling(run[r], l, c))
        /\ UNCHANGED <<truth, maint, inc>>
    BY <1>8 DEF RecordBreach, ClearBreach, world, desk
  <2> QED
    BY <1>c, <2>1, PhasesAfter
<1>9. ASSUME NEW r \in Runs, \/ \E m \in Metrics : AnnounceBreach(r, m)
                             \/ \E f \in run[r].did : AnnounceIncident(r, f)
      PROVE  Goal
  <2>1. /\ \E w, d, c : Goto(r, Announcing(w, d, c))
        /\ UNCHANGED <<truth, maint, inc>>
    BY <1>9 DEF AnnounceBreach, AnnounceIncident, world, desk
  <2> QED
    BY <1>c, <2>1, PhasesAfter
<1> HIDE DEF Goal
<1>10. ASSUME World \/ UNCHANGED vars PROVE Goal
  BY <1>a, <1>10 DEF World, ServiceMoves, MetricMoves, WindowTurns, vars
<1>11. ASSUME Desk PROVE Goal
  BY <1>a, <1>b, <1>11 DEF Desk, SetMaintenance, SaveThresholds
<1>13. ASSUME NEW r \in Runners, Tick(r) \/ Beat(r) PROVE Goal
  BY <1>a, <1>13 DEF Tick, Beat
<1>12. Goal
  BY <1>1, <1>2, <1>4, <1>5, <1>6, <1>7, <1>8, <1>9, <1>10, <1>11, <1>13 DEF Next, Step
<1> QED
  BY <1>12 DEF Goal

\* registry.rs says that every service is visited.  Once a service has got worse
\* under an open incident, this ends at that service: until it changes, goes into
\* maintenance or has its incident resolved by hand, no run of any instance or
\* panel gets past it, and no incident of a later service is opened or closed
\* except by hand.
THEOREM StuckServiceHidesLaterOnes ==
  Spec => [][\A s \in Services : Stuck(s) =>
               /\ Stuck(s)' \/ Relieved(s)
               /\ \A i \in Ids : inc'[i] # inc[i] /\ inc'[i].svc > s => Resolve(i)]_vars
<1> DEFINE Hides(s) == /\ Stuck(s)' \/ Relieved(s)
                       /\ \A i \in Ids : inc'[i] # inc[i] /\ inc'[i].svc > s => Resolve(i)
<1>1. ASSUME TypeOK, [Next]_vars, NEW s \in Services, Stuck(s) PROVE Hides(s)
  <2>1. CASE StaysBefore(s)
    BY <1>1, <2>1, StuckStays, TypePreserved
  <2>2. ASSUME NEW i \in Ids, Resolve(i) PROVE \A k \in Ids : inc'[k] # inc[k] => Resolve(k)
    <3>1. \A k \in Ids : inc'[k] # inc[k] => k = i
      BY <1>1, <2>2 DEF Resolve, TypeOK
    <3> QED
      BY <2>2, <3>1
  <2>3. ASSUME NEW i \in Ids, inc[i].svc # s, Resolve(i) PROVE Stuck(s)'
    <3>1. UNCHANGED <<truth, maint, run>>
      BY <2>3 DEF Resolve, world
    <3>2. \A k \in Ids : inc'[k] = inc[k] \/ (k = i /\ inc'[k].svc = inc[k].svc)
      BY <2>3 DEF Resolve
    <3>3. OpenOf(s)' = OpenOf(s) /\ \A k \in OpenOf(s) : inc'[k] = inc[k]
      BY <2>3, <3>2 DEF OpenOf
    <3>4. /\ truth'[s] \notin {"healthy", "unknown"} /\ s \notin maint'
          /\ \E k \in OpenOf(s)' : ~inc'[k].supp
      BY <1>1, <3>1, <3>3 DEF Stuck
    <3>5. \E k \in OpenOf(s)' : inc'[k].to # truth'[s] /\ \A j \in OpenOf(s)' : j <= k
      BY <1>1, <3>1, <3>3 DEF Stuck
    <3>6. \A q \in Runs : Before(run'[q], s, truth'[s])
      BY <1>1, <3>1 DEF Stuck
    <3> QED
      BY <3>4, <3>5, <3>6 DEF Stuck
  <2>4. CASE Relieved(s) /\ ~StaysBefore(s)
    <3>1. inc' = inc \/ (truth' = truth /\ maint' = maint)
      <4>1. ASSUME NEW r \in Runs, Step(r) \/ Fail(r) PROVE truth' = truth /\ maint' = maint
        BY <4>1 DEF Step, Probe, Detect, ApplyRecovery, ApplyOpen, ApplyRefused, ReadThresholds,
           RecordBreach, ClearBreach, AnnounceBreach, AnnounceIncident, Fail, world, desk
      <4>2. CASE World \/ UNCHANGED vars
        BY <4>2 DEF World, ServiceMoves, MetricMoves, WindowTurns, vars
      <4>3. CASE Desk
        BY <4>3 DEF Desk, SetMaintenance, SaveThresholds, Resolve, world
      <4>4. ASSUME NEW r \in Runners, Tick(r) \/ Beat(r) PROVE inc' = inc
        BY <4>4 DEF Tick, Beat
      <4> QED
        BY <1>1, <4>1, <4>2, <4>3, <4>4 DEF Next
    <3>2. ASSUME NEW i \in OpenOf(s), Resolve(i)
          PROVE  \A k \in Ids : inc'[k] # inc[k] => Resolve(k)
      BY <2>2, <3>2 DEF OpenOf
    <3> QED
      BY <1>1, <2>4, <3>1, <3>2 DEF Relieved, Stuck
  <2> QED
    BY <1>1, <2>1, <2>2, <2>3, <2>4, StuckMoves
<1>2. TypeOK /\ [Next]_vars => [\A s \in Services : Stuck(s) => Hides(s)]_vars
  BY <1>1
<1>3. Spec => [][\A s \in Services : Stuck(s) => Hides(s)]_vars
  BY <1>2, TypeCorrect, PTL DEF Spec
<1> QED
  BY <1>3

-----------------------------------------------------------------------------
(* The schedule *)

\* A runner that has never come to run_once.
Unrun(r) == run[r].phase = "waiting" /\ loop[r] \in {"rested", "beat"}

\* health_runner.rs calls its probe run scheduled.  With an interval above that of
\* the heartbeats (the default is 60 s against 30 s) no runner ever comes to it: the
\* tick ends every select! before the sleep is over, and the next one starts the
\* sleep again, whatever the platform, the operators and the panels do.
THEOREM LongIntervalNeverRuns ==
  ASSUME CheckInterval > HeartbeatInterval
  PROVE  Spec => [](\A r \in Runners : run[r].phase = "waiting")
<1> DEFINE Inv == \A r \in Runners : Unrun(r)
<1>1. Init => Inv
  BY WaitingType DEF Init, Unrun, Runs
<1>2. ASSUME TypeOK, Inv, [Next]_vars PROVE Inv'
  <2>1. \A r \in Runners : r \in Runs /\ run[r].phase = "waiting" /\ loop[r] \in {"rested", "beat"}
    BY <1>2 DEF Unrun, Runs
  <2>2. ASSUME NEW r \in Runners PROVE ~Probe(r)
    <3>1. \A t \in ToTick(r) : t \in Nat /\ t <= HeartbeatInterval
      BY HealthConstantsOK DEF ToTick, HealthConstantsOK
    <3> QED
      BY <3>1, HealthConstantsOK DEF Probe, Called, SleepFirst, HealthConstantsOK
  <2>3. ASSUME NEW r \in Runs, Step(r) \/ Fail(r) PROVE Inv'
    <3>1. r \notin Runners
      BY <2>1, <2>2, <2>3 DEF Step, Detect, ApplyRecovery, ApplyOpen, ApplyRefused,
         ReadThresholds, RecordBreach, ClearBreach, AnnounceBreach, AnnounceIncident, Fail
    <3>2. \E x : Goto(r, x)
      BY <2>3 DEF Step, Probe, Detect, ApplyRecovery, ApplyOpen, ApplyRefused,
         ReadThresholds, RecordBreach, ClearBreach, AnnounceBreach, AnnounceIncident, Fail
    <3>3. \A q \in Runners : run'[q] = run[q]
      BY <1>2, <2>1, <3>1, <3>2 DEF Goto, TypeOK
    <3>4. \A q \in Runners : loop'[q] = loop[q]
      BY <1>2, <2>3, <3>1 DEF Step, Probe, Detect, ApplyRecovery, ApplyOpen, ApplyRefused,
         ReadThresholds, RecordBreach, ClearBreach, AnnounceBreach, AnnounceIncident, Fail
    <3> QED
      BY <2>1, <3>3, <3>4 DEF Unrun
  <2>4. ASSUME NEW r \in Runners, Tick(r) \/ Beat(r) PROVE Inv'
    <3>1. run' = run /\ \A q \in Runners : loop'[q] \in {loop[q], "rested", "beat"}
      BY <1>2, <2>4 DEF Tick, Beat, TypeOK
    <3> QED
      BY <2>1, <3>1 DEF Unrun
  <2>5. CASE UNCHANGED <<run, loop>>
    BY <1>2, <2>5 DEF Unrun
  <2> QED
    BY <1>2, <2>3, <2>4, <2>5 DEF Next, World, Desk, ServiceMoves, MetricMoves, WindowTurns,
       SetMaintenance, SaveThresholds, Resolve, vars
<1>3. Inv => \A r \in Runners : run[r].phase = "waiting"
  BY DEF Unrun
<1> QED
  BY <1>1, <1>2, <1>3, TypeCorrect, PTL DEF Spec
=============================================================================
