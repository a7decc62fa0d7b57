----------------------- MODULE AutomationMatcherProofs ----------------------
(***************************************************************************)
(* Proofs about AutomationMatcher, for any rules, tenants, instances and   *)
(* batch size.  The invariant says what the row lock buys: the one drain   *)
(* that is open works strictly above a cursor nobody else can move, and    *)
(* every run ever started lies at or below it.                             *)
(***************************************************************************)
EXTENDS AutomationMatcher, FiniteSetTheorems, TLAPS

Reading == {"read", "match"}

\* The instance inside a drain is the one that holds the cursor row.
LockHeld == \A i \in Instances : phase[i] \in Reading <=> holder = i

\* Outside of the matching phase a drain has written nothing.
NoLeftovers ==
  \A i \in Instances :
    phase[i] # "match" => batch[i] = {} /\ done[i] = {} /\ fired[i] = {}

\* Events above the identity sequence do not exist.
Inserted == \A v \in EventIds : event[v].state # "absent" => v <= lastId

\* What the open drain has read lies above the cursor, up to its last event.
BatchAboveCursor ==
  \A i \in Instances :
    phase[i] = "match" =>
      /\ last[i] \in batch[i] /\ done[i] \subseteq batch[i]
      /\ \A v \in batch[i] : Stored(v) /\ cursor < v /\ v <= last[i]

\* The open drain has taken every event above the cursor that it could see, up
\* to its last one.
SeenTaken ==
  \A i \in Instances :
    phase[i] = "match" =>
      \A v \in seen[i] : cursor < v /\ v <= last[i] => v \in batch[i]

\* A run being started is of an evaluated event of the rule's organization.
FiredInBatch ==
  \A i \in Instances : \A m \in fired[i] :
    m[2] \in done[i] /\ OrgOf[m[1]] = event[m[2]].org

\* Every run lies at or below the cursor.
RunsBelowCursor == \A m \in Matches : runs[m] > 0 => m[2] <= cursor

DrainInv ==
  /\ TypeOK /\ LockHeld /\ NoLeftovers /\ Inserted /\ BatchAboveCursor
  /\ SeenTaken /\ FiredInBatch /\ RunsBelowCursor /\ StartedOnce /\ RunsStayInTenant
  /\ CursorAccountsForEvents

USE DEF EventIds, Matches

-----------------------------------------------------------------------------
(* Record updates *)

\* Changing the state of an event keeps its type and its other columns.
LEMMA EventState ==
  ASSUME NEW e \in Event, NEW s \in {"absent", "open", "stored", "void"}
  PROVE  /\ [e EXCEPT !.state = s] \in Event
         /\ [e EXCEPT !.state = s].state = s
         /\ [e EXCEPT !.state = s].org = e.org
BY DEF Event

\* Counting matches keeps the type of a rule.
LEMMA RuleCount ==
  ASSUME NEW q \in Rule, NEW n \in Nat
  PROVE  [q EXCEPT !.count = q.count + n] \in Rule
BY DEF Rule

\* A drain starts a finite number of runs of a rule.
LEMMA NotedIsNat ==
  ASSUME MatcherConstantsOK, NEW i, NEW k
  PROVE  Noted(i, k) \in Nat
<1>1. IsFiniteSet(1 .. MaxEvents)
  BY FS_Interval DEF MatcherConstantsOK
<1>2. IsFiniteSet({v \in EventIds : <<k, v>> \in fired[i]})
  BY <1>1, FS_Subset
<1> QED BY <1>2, FS_CardinalityType DEF Noted

-----------------------------------------------------------------------------
LEMMA InitDrainInv == ASSUME MatcherConstantsOK PROVE Init => DrainInv
<1> SUFFICES ASSUME Init PROVE DrainInv OBVIOUS
<1>1. \A v \in EventIds : event[v] \in Event /\ event[v].state = "absent"
  BY DEF Init, MatcherConstantsOK, Event
<1>a. event \in [EventIds -> Event]
  BY <1>1 DEF Init
<1>b. PICK n \in Names : n = CHOOSE m \in Names : TRUE
  BY DEF MatcherConstantsOK
<1>c. rule = [k \in Rules |-> [armed |-> FALSE, name |-> n, count |-> 0]]
  BY <1>b DEF Init
<1>d. [armed |-> FALSE, name |-> n, count |-> 0] \in Rule
  BY DEF Rule
<1>e. rule \in [Rules -> Rule]
  BY <1>c, <1>d
<1>f. runs \in [Matches -> Nat]
  BY DEF Init
<1>w. watching = FALSE
  BY DEF Init
<1>k. watching \in BOOLEAN
  BY <1>w, Zenon
<1>g. /\ lastId = 0 /\ cursor = 0 /\ holder = Free /\ crashes = 0
      /\ phase = [i \in Instances |-> "boot"]
      /\ batch = [i \in Instances |-> {}] /\ seen = [i \in Instances |-> {}]
      /\ done = [i \in Instances |-> {}]
      /\ last = [i \in Instances |-> 0] /\ fired = [i \in Instances |-> {}]
      /\ fate = [v \in EventIds |-> "new"]
  BY DEF Init
<1>h. /\ lastId \in 0 .. MaxEvents /\ cursor \in 0 .. lastId
      /\ holder \in Instances \cup {Free} /\ crashes \in Nat
  BY <1>g DEF MatcherConstantsOK
<1>i. /\ phase \in [Instances -> {"boot", "idle", "read", "match"}]
      /\ last \in [Instances -> 0 .. MaxEvents]
      /\ fate \in [EventIds -> {"new", "evaluated", "late", "history", "reseeded"}]
  BY <1>g DEF MatcherConstantsOK
<1>j. /\ batch \in [Instances -> SUBSET EventIds] /\ seen \in [Instances -> SUBSET EventIds]
      /\ done \in [Instances -> SUBSET EventIds]
      /\ fired \in [Instances -> SUBSET Matches]
  BY <1>g
<1>2. TypeOK
  BY <1>a, <1>e, <1>f, <1>h, <1>i, <1>j, <1>k DEF TypeOK
<1>3. LockHeld /\ NoLeftovers /\ BatchAboveCursor /\ SeenTaken /\ FiredInBatch
  BY DEF Init, LockHeld, NoLeftovers, BatchAboveCursor, SeenTaken, FiredInBatch, Reading,
         MatcherConstantsOK
<1>4. Inserted /\ CursorAccountsForEvents
  BY <1>1 DEF Inserted, CursorAccountsForEvents, Stored
<1>5. RunsBelowCursor /\ StartedOnce /\ RunsStayInTenant
  BY DEF Init, RunsBelowCursor, StartedOnce, RunsStayInTenant
<1> QED BY <1>2, <1>3, <1>4, <1>5 DEF DrainInv

LEMMA NextDrainInv ==
  ASSUME MatcherConstantsOK, DrainInv, [Next]_vars
  PROVE  DrainInv'
<1> USE MatcherConstantsOK DEF MatcherConstantsOK
<1>t. /\ TypeOK /\ LockHeld /\ NoLeftovers /\ Inserted /\ BatchAboveCursor
      /\ SeenTaken /\ FiredInBatch /\ RunsBelowCursor /\ StartedOnce /\ RunsStayInTenant
      /\ CursorAccountsForEvents
  BY DEF DrainInv
<1>1. CASE UNCHANGED vars
  BY <1>t, <1>1 DEF vars, DrainInv, TypeOK, LockHeld, NoLeftovers, Inserted,
     BatchAboveCursor, SeenTaken, FiredInBatch, RunsBelowCursor, StartedOnce, RunsStayInTenant,
     CursorAccountsForEvents, Stored
<1>2. ASSUME NEW org \in Orgs \cup {NoOrg}, NEW name \in Names, NEW payload \in Payloads,
             InsertEvent(org, name, payload)
      PROVE  DrainInv'
  <2> DEFINE new == [state |-> "open", org |-> org, name |-> name, payload |-> payload]
  <2>1. lastId + 1 \in EventIds /\ event[lastId + 1].state = "absent"
    BY <1>t, <1>2 DEF InsertEvent, TypeOK, Inserted, Event
  <2>2. /\ \A v \in EventIds : event'[v] = IF v = lastId + 1 THEN new ELSE event[v]
        /\ new \in Event /\ new.state = "open"
    BY <1>t, <1>2 DEF InsertEvent, TypeOK, Event
  <2> HIDE DEF new
  <2>3. \A v \in EventIds : /\ Stored(v)' <=> Stored(v)
                            /\ Stored(v) => event'[v].org = event[v].org
    BY <2>1, <2>2 DEF Stored
  <2>4. TypeOK'
    BY <1>t, <1>2, <2>1, <2>2 DEF TypeOK, InsertEvent, drain
  <2>5. LockHeld' /\ NoLeftovers' /\ RunsBelowCursor' /\ StartedOnce'
    BY <1>t, <1>2 DEF InsertEvent, drain, LockHeld, NoLeftovers, RunsBelowCursor, StartedOnce
  <2>6. Inserted'
    BY <1>t, <1>2, <2>1, <2>2 DEF Inserted, InsertEvent, TypeOK
  <2>7. BatchAboveCursor' /\ SeenTaken' /\ RunsStayInTenant' /\ CursorAccountsForEvents'
    BY <1>t, <1>2, <2>3 DEF InsertEvent, drain, BatchAboveCursor, SeenTaken, RunsStayInTenant,
       CursorAccountsForEvents, TypeOK
  <2>8. FiredInBatch'
    <3> SUFFICES ASSUME NEW i \in Instances, NEW m \in fired[i]
                 PROVE  m[2] \in done[i] /\ OrgOf[m[1]] = event'[m[2]].org
      BY <1>2 DEF FiredInBatch, InsertEvent, drain
    <3>1. m[2] \in done[i] /\ OrgOf[m[1]] = event[m[2]].org /\ m[2] \in EventIds
      BY <1>t DEF FiredInBatch, TypeOK
    <3>2. Stored(m[2])
      BY <1>t, <3>1 DEF BatchAboveCursor, NoLeftovers
    <3> QED BY <3>1, <3>2, <2>3
  <2> QED BY <2>4, <2>5, <2>6, <2>7, <2>8 DEF DrainInv
<1>3. ASSUME NEW v \in EventIds, event[v].state = "open",
             NEW s \in {"stored", "void"},
             event' = [event EXCEPT ![v] = [event[v] EXCEPT !.state = s]],
             fate' \in [EventIds -> {"new", "evaluated", "late", "history", "reseeded"}],
             \A u \in EventIds : u # v => fate'[u] = fate[u],
             s = "stored" /\ v <= cursor => fate'[v] # "new",
             UNCHANGED <<lastId, rule, runs, cursor, drain, watching, crashes>>
      PROVE  DrainInv'
  <2>1. /\ \A u \in EventIds : u # v => event'[u] = event[u]
        /\ event'[v] \in Event /\ event'[v].state = s /\ event'[v].org = event[v].org
    <3>1. event[v] \in Event /\ s \in {"absent", "open", "stored", "void"}
      BY <1>t DEF TypeOK
    <3>2. event'[v] = [event[v] EXCEPT !.state = s]
      BY <1>t, <1>3 DEF TypeOK
    <3>3. \A u \in EventIds : u # v => event'[u] = event[u]
      BY <1>t, <1>3 DEF TypeOK
    <3>4. /\ [event[v] EXCEPT !.state = s] \in Event
          /\ [event[v] EXCEPT !.state = s].state = s
          /\ [event[v] EXCEPT !.state = s].org = event[v].org
      BY <3>1, EventState
    <3> QED BY <3>2, <3>3, <3>4
  <2>2. TypeOK'
    BY <1>t, <1>3, <2>1 DEF TypeOK, drain
  <2>3. LockHeld' /\ NoLeftovers' /\ RunsBelowCursor' /\ StartedOnce'
    BY <1>t, <1>3 DEF drain, LockHeld, NoLeftovers, RunsBelowCursor, StartedOnce
  <2>4. Inserted'
    BY <1>t, <1>3, <2>1 DEF Inserted
  <2>5. ~Stored(v) /\ \A u \in EventIds : Stored(u) => Stored(u)'
    BY <1>3, <2>1 DEF Stored
  <2>6. \A u \in EventIds : event'[u].org = event[u].org
    BY <2>1
  <2>7. BatchAboveCursor' /\ SeenTaken'
    BY <1>t, <1>3, <2>5 DEF drain, BatchAboveCursor, SeenTaken, TypeOK
  <2>8. RunsStayInTenant'
    BY <1>t, <1>3, <2>5, <2>6 DEF RunsStayInTenant
  <2>9. FiredInBatch'
    BY <1>t, <1>3, <2>6 DEF FiredInBatch, drain, TypeOK
  <2>10. CursorAccountsForEvents'
    BY <1>t, <1>3, <2>1 DEF CursorAccountsForEvents, Stored
  <2> QED BY <2>2, <2>3, <2>4, <2>7, <2>8, <2>9, <2>10 DEF DrainInv
<1>4. ASSUME NEW v \in EventIds, CommitEvent(v) PROVE DrainInv'
  BY <1>t, <1>4, <1>3 DEF CommitEvent, TypeOK
<1>5. ASSUME NEW v \in EventIds, RollbackEvent(v) PROVE DrainInv'
  BY <1>t, <1>5, <1>3 DEF RollbackEvent, TypeOK
<1>6. ASSUME NEW k \in Rules, NEW armed \in BOOLEAN, NEW name \in Names,
             WriteRule(k, armed, name)
      PROVE  DrainInv'
  <2>1. rule' \in [Rules -> Rule]
    BY <1>t, <1>6 DEF WriteRule, TypeOK, Rule
  <2>2. TypeOK'
    BY <1>t, <1>6, <2>1 DEF WriteRule, TypeOK, drain
  <2> QED
    BY <1>t, <1>6, <2>2 DEF WriteRule, drain, DrainInv, LockHeld, NoLeftovers, Inserted,
       BatchAboveCursor, SeenTaken, FiredInBatch, RunsBelowCursor, StartedOnce, RunsStayInTenant,
       CursorAccountsForEvents, Stored
<1>7. ASSUME NEW i \in Instances, NEW end \in 0 .. MaxEvents, SeedCursor(i, end)
      PROVE  DrainInv'
  <2>1. end \in 0 .. lastId
    BY <1>t, <1>7 DEF SeedCursor, TypeOK, Inserted, Stored
  <2>2. TypeOK'
    BY <1>t, <1>7, <2>1 DEF SeedCursor, TypeOK
  <2>3. LockHeld' /\ NoLeftovers' /\ BatchAboveCursor' /\ SeenTaken'
    BY <1>t, <1>7 DEF SeedCursor, LockHeld, NoLeftovers, BatchAboveCursor, SeenTaken, Reading,
       TypeOK, Stored
  <2>4. Inserted' /\ FiredInBatch' /\ StartedOnce' /\ RunsStayInTenant'
    BY <1>t, <1>7 DEF SeedCursor, Inserted, FiredInBatch, StartedOnce, RunsStayInTenant,
       Stored
  <2>5. RunsBelowCursor'
    BY <1>t, <1>7 DEF SeedCursor, RunsBelowCursor, RunsStayInTenant, TypeOK
  <2>6. CursorAccountsForEvents'
    BY <1>7 DEF SeedCursor, CursorAccountsForEvents, Stored
  <2> QED BY <2>2, <2>3, <2>4, <2>5, <2>6 DEF DrainInv
<1>8. ASSUME NEW i \in Instances, SkipSeed(i) PROVE DrainInv'
  BY <1>t, <1>8 DEF SkipSeed, DrainInv, TypeOK, LockHeld, NoLeftovers, Inserted, Reading,
     BatchAboveCursor, SeenTaken, FiredInBatch, RunsBelowCursor, StartedOnce, RunsStayInTenant,
     CursorAccountsForEvents, Stored
<1>9. ASSUME NEW i \in Instances, LockCursor(i) PROVE DrainInv'
  BY <1>t, <1>9 DEF LockCursor, CursorFree, DrainInv, TypeOK, LockHeld, NoLeftovers,
     Inserted, Reading, BatchAboveCursor, SeenTaken, FiredInBatch, RunsBelowCursor, StartedOnce,
     RunsStayInTenant, CursorAccountsForEvents, Stored
<1>10. ASSUME NEW i \in Instances, NEW S \in SUBSET EventIds, NEW end \in EventIds,
              ReadEvents(i, S, end)
       PROVE  DrainInv'
  <2>1. TypeOK' /\ LockHeld' /\ NoLeftovers'
    BY <1>t, <1>10 DEF ReadEvents, TypeOK, LockHeld, NoLeftovers, Reading
  <2>2. BatchAboveCursor' /\ SeenTaken'
    BY <1>t, <1>10 DEF ReadEvents, Oldest, BatchAboveCursor, SeenTaken, NoLeftovers, Unread,
       TypeOK, Stored
  <2>3. Inserted' /\ FiredInBatch' /\ RunsBelowCursor' /\ StartedOnce'
        /\ RunsStayInTenant' /\ CursorAccountsForEvents'
    BY <1>t, <1>10 DEF ReadEvents, Inserted, FiredInBatch, RunsBelowCursor, StartedOnce,
       RunsStayInTenant, CursorAccountsForEvents, Stored
  <2> QED BY <2>1, <2>2, <2>3 DEF DrainInv
<1>11. ASSUME NEW i \in Instances, NothingToRead(i) PROVE DrainInv'
  BY <1>t, <1>11 DEF NothingToRead, DrainInv, TypeOK, LockHeld, NoLeftovers, Inserted,
     Reading, BatchAboveCursor, SeenTaken, FiredInBatch, RunsBelowCursor, StartedOnce,
     RunsStayInTenant, CursorAccountsForEvents, Stored
<1>12. ASSUME NEW i \in Instances, NEW v \in EventIds, EvaluateEvent(i, v) PROVE DrainInv'
  <2> DEFINE new == {<<k, v>> : k \in FiringRules(v)}
  <2>1. new \in SUBSET Matches /\ \A m \in new : m[2] = v /\ OrgOf[m[1]] = event[v].org
    BY DEF FiringRules
  <2> HIDE DEF new
  <2>2. fired' = [fired EXCEPT ![i] = fired[i] \cup new]
    BY <1>12 DEF EvaluateEvent, new
  <2>3. TypeOK' /\ LockHeld' /\ NoLeftovers' /\ BatchAboveCursor' /\ SeenTaken'
    BY <1>t, <1>12, <2>1, <2>2 DEF EvaluateEvent, TypeOK, LockHeld, NoLeftovers,
       BatchAboveCursor, SeenTaken, Reading, Stored
  <2>4. FiredInBatch'
    BY <1>t, <1>12, <2>1, <2>2 DEF EvaluateEvent, TypeOK, FiredInBatch
  <2>5. Inserted' /\ RunsBelowCursor' /\ StartedOnce' /\ RunsStayInTenant'
        /\ CursorAccountsForEvents'
    BY <1>t, <1>12 DEF EvaluateEvent, Inserted, RunsBelowCursor, StartedOnce,
       RunsStayInTenant, CursorAccountsForEvents, Stored
  <2> QED BY <2>3, <2>4, <2>5 DEF DrainInv
<1>13. ASSUME NEW i \in Instances, CommitDrain(i) PROVE DrainInv'
  <2>1. /\ cursor' = last[i] /\ last[i] \in batch[i] /\ cursor < last[i]
        /\ last[i] \in EventIds /\ last[i] <= lastId /\ Stored(last[i])
    BY <1>t, <1>13 DEF CommitDrain, ReadUpTo, BatchAboveCursor, TypeOK, Inserted, Stored
  <2>2. \A m \in fired[i] : /\ m \in Matches /\ runs[m] = 0
                            /\ m[2] <= last[i] /\ Stored(m[2])
                            /\ OrgOf[m[1]] = event[m[2]].org
    <3> TAKE m \in fired[i]
    <3>1. m \in Matches /\ m[2] \in batch[i] /\ OrgOf[m[1]] = event[m[2]].org
      BY <1>t, <1>13 DEF CommitDrain, FiredInBatch, TypeOK
    <3>2. Stored(m[2]) /\ cursor < m[2] /\ m[2] <= last[i]
      BY <1>t, <1>13, <3>1 DEF CommitDrain, BatchAboveCursor
    <3>3. runs[m] \in Nat /\ m[2] \in Nat /\ cursor \in Nat
      BY <1>t, <3>1 DEF TypeOK
    <3>4. ~(runs[m] > 0)
      BY <1>t, <3>1, <3>2, <3>3 DEF RunsBelowCursor
    <3> QED BY <3>1, <3>2, <3>3, <3>4
  <2>3. \A m \in Matches : runs'[m] = IF m \in fired[i] THEN runs[m] + 1 ELSE runs[m]
    BY <1>13 DEF CommitDrain
  <2>4. rule' \in [Rules -> Rule]
    BY <1>t, <1>13, RuleCount, NotedIsNat DEF CommitDrain, TypeOK
  <2>5. runs' \in [Matches -> Nat]
    BY <1>t, <1>13, <2>3 DEF CommitDrain, TypeOK
  <2>6. TypeOK'
    BY <1>t, <1>13, <2>1, <2>4, <2>5 DEF CommitDrain, TypeOK
  <2>7. /\ LockHeld' /\ NoLeftovers' /\ BatchAboveCursor'
        /\ \A q \in Instances : phase'[q] # "match"
    BY <1>t, <1>13 DEF CommitDrain, LockHeld, NoLeftovers, BatchAboveCursor, Reading,
       TypeOK, Stored
  <2>13. SeenTaken'
    BY <2>7 DEF SeenTaken
  <2>8. Inserted' /\ FiredInBatch'
    BY <1>t, <1>13 DEF CommitDrain, Inserted, FiredInBatch, TypeOK
  <2>9. RunsBelowCursor'
    <3> SUFFICES ASSUME NEW m \in Matches, runs'[m] > 0 PROVE m[2] <= last[i]
      BY <2>1 DEF RunsBelowCursor
    <3>1. cursor \in Nat /\ m[2] \in Nat /\ last[i] \in Nat
      BY <1>t, <2>1 DEF TypeOK
    <3>2. CASE m \in fired[i]
      BY <2>2, <3>2
    <3>3. CASE m \notin fired[i]
      BY <1>t, <2>1, <2>3, <3>1, <3>3 DEF RunsBelowCursor
    <3> QED BY <3>2, <3>3
  <2>10. StartedOnce'
    BY <1>t, <2>2, <2>3 DEF StartedOnce
  <2>11. RunsStayInTenant'
    BY <1>t, <1>13, <2>2, <2>3 DEF RunsStayInTenant, CommitDrain, Stored
  <2>12. CursorAccountsForEvents'
    <3> SUFFICES ASSUME NEW v \in EventIds, Stored(v), v <= last[i] PROVE fate'[v] # "new"
      BY <1>13, <2>1 DEF CursorAccountsForEvents, CommitDrain, Stored
    <3>1. fate'[v] = CASE v \in batch[i] -> "evaluated"
                       [] v \notin batch[i] /\ Overtaken(i, v) -> "late"
                       [] OTHER -> fate[v]
      BY <1>13 DEF CommitDrain
    <3>2. CASE v <= cursor
      BY <1>t, <3>1, <3>2 DEF CursorAccountsForEvents
    \* Above the cursor a visible event was read, or could not be seen.
    <3>3. CASE cursor < v
      BY <1>t, <1>13, <3>1, <3>3 DEF SeenTaken, Overtaken, CommitDrain
    <3> QED BY <1>t, <3>2, <3>3 DEF TypeOK
  <2> QED BY <2>6, <2>7, <2>8, <2>9, <2>10, <2>11, <2>12, <2>13 DEF DrainInv
<1>14. ASSUME NEW i \in Instances, NEW next \in {"boot", "idle"}, Rollback(i, next)
       PROVE  DrainInv'
  BY <1>t, <1>14 DEF Rollback, DrainInv, TypeOK, LockHeld, NoLeftovers, Inserted,
     Reading, BatchAboveCursor, SeenTaken, FiredInBatch, RunsBelowCursor, StartedOnce,
     RunsStayInTenant, CursorAccountsForEvents, Stored
<1> QED
  BY <1>1, <1>2, <1>4, <1>5, <1>6, <1>7, <1>8, <1>9, <1>10, <1>11, <1>12, <1>13, <1>14
     DEF Next, Bus, Boot, Drain, DrainFails, Crash, SeedFails

LEMMA DrainInvariant == Spec => []DrainInv
<1> USE MatcherConstantsOK
<1>1. Init => DrainInv
  BY InitDrainInv
<1>2. DrainInv /\ [Next]_vars => DrainInv'
  BY NextDrainInv
<1> QED BY <1>1, <1>2, PTL DEF Spec

-----------------------------------------------------------------------------
\* seed_cursor, drain and the emitting requests keep every column and local in
\* its type, and the cursor never passes the identity sequence of events.
THEOREM MatcherTypeCorrect == Spec => []TypeOK
<1>1. DrainInv => TypeOK
  BY DEF DrainInv
<1> QED BY <1>1, DrainInvariant, PTL

\* A rule starts at most one run per event: the trigger is never doubled by
\* several instances, a crashed or failed drain, or a restart that seeds again.
THEOREM RunsStartOnce == Spec => []StartedOnce
<1>1. DrainInv => StartedOnce
  BY DEF DrainInv
<1> QED BY <1>1, DrainInvariant, PTL

\* A run started by list_event_rules' match stays in the event's organization,
\* although rules are edited while the drain is under way.
THEOREM RunsInTenant == Spec => []RunsStayInTenant
<1>1. DrainInv => RunsStayInTenant
  BY DEF DrainInv
<1> QED BY <1>1, DrainInvariant, PTL

\* The cursor passes a visible event only by evaluating it, by a seed, or
\* because the event was invisible when the drain that passed it read: the
\* ordered read of matcher.rs never steps over an event it can see.
THEOREM PassedEventsAccounted == Spec => []CursorAccountsForEvents
<1>1. DrainInv => CursorAccountsForEvents
  BY DEF DrainInv
<1> QED BY <1>1, DrainInvariant, PTL

\* Neither a drain nor a seed ever moves automation_cursor back.
THEOREM CursorNeverGoesBack == Spec => CursorAdvances
<1>1. ASSUME DrainInv, [Next]_vars PROVE cursor' >= cursor
  <2>1. cursor \in Nat /\ \A i \in Instances : phase[i] = "match" => cursor < last[i]
                                                               /\ last[i] \in Nat
    BY <1>1 DEF DrainInv, TypeOK, BatchAboveCursor
  <2>2. ASSUME NEW i \in Instances, NEW end \in 0 .. MaxEvents, SeedCursor(i, end)
        PROVE  cursor' >= cursor
    BY <2>1, <2>2 DEF SeedCursor
  <2>3. ASSUME NEW i \in Instances, CommitDrain(i) PROVE cursor' >= cursor
    BY <2>1, <2>3 DEF CommitDrain, ReadUpTo
  <2>4. \/ cursor' = cursor
        \/ \E i \in Instances : CommitDrain(i) \/ \E end \in 0 .. MaxEvents : SeedCursor(i, end)
    BY <1>1 DEF Next, vars, Bus, Boot, Drain, DrainFails, Crash, SeedFails, Rollback,
       InsertEvent, CommitEvent, RollbackEvent, WriteRule, SkipSeed, LockCursor,
       ReadEvents, NothingToRead, EvaluateEvent
  <2> QED BY <2>1, <2>2, <2>3, <2>4
<1>2. DrainInv /\ [Next]_vars => [cursor' >= cursor]_vars
  BY <1>1
<1> QED BY <1>2, DrainInvariant, PTL DEF Spec, CursorAdvances

-----------------------------------------------------------------------------
(* trigger_count *)

\* The events a rule has started a run for.
Matched(k) == {v \in EventIds : runs[<<k, v>>] > 0}

LEMMA MatchesAreFinite ==
  ASSUME NEW T \in SUBSET EventIds
  PROVE  IsFiniteSet(T) /\ Cardinality(T) \in Nat
<1>1. IsFiniteSet(1 .. MaxEvents)
  BY MatcherConstantsOK, FS_Interval DEF MatcherConstantsOK
<1>2. IsFiniteSet(T)
  BY <1>1, FS_Subset
<1> QED BY <1>2, FS_CardinalityType

\* What a drain starts lies above the cursor and what was started before lies
\* below it: the two counts add up.
LEMMA CommitCounts ==
  ASSUME DrainInv, CountsItsRuns, NEW i \in Instances, CommitDrain(i), NEW k \in Rules
  PROVE  rule'[k].count = Cardinality({v \in EventIds : runs'[<<k, v>>] > 0})
<1> DEFINE New == {v \in EventIds : <<k, v>> \in fired[i]}
           Old == Matched(k)
<1>1. \A v \in EventIds : <<k, v>> \in Matches /\ runs[<<k, v>>] \in Nat
  BY DEF DrainInv, TypeOK
<1>2. \A v \in EventIds : runs'[<<k, v>>] =
        IF <<k, v>> \in fired[i] THEN runs[<<k, v>>] + 1 ELSE runs[<<k, v>>]
  BY <1>1 DEF CommitDrain
<1>3. {v \in EventIds : runs'[<<k, v>>] > 0} = Old \cup New
  BY <1>1, <1>2 DEF Matched
<1>4. Old \cap New = {}
  <2>1. SUFFICES ASSUME NEW v \in EventIds, runs[<<k, v>>] > 0, <<k, v>> \in fired[i]
                 PROVE  FALSE
    BY DEF Matched
  <2>2. v <= cursor
    BY <1>1, <2>1 DEF DrainInv, RunsBelowCursor
  <2>3. v \in batch[i] /\ phase[i] = "match"
    BY <2>1 DEF DrainInv, FiredInBatch, CommitDrain
  <2>4. cursor < v /\ cursor \in Nat
    BY <2>3 DEF DrainInv, BatchAboveCursor, TypeOK
  <2> QED BY <2>2, <2>4
<1>5. /\ IsFiniteSet(Old) /\ Cardinality(Old) \in Nat
      /\ IsFiniteSet(New) /\ Cardinality(New) \in Nat
  BY MatchesAreFinite DEF Matched
<1> HIDE DEF New, Old
<1>6. Cardinality(Old \cup New) = Cardinality(Old) + Cardinality(New)
  <2>1. Cardinality(Old \cup New)
          = Cardinality(Old) + Cardinality(New) - Cardinality(Old \cap New)
    BY <1>5, FS_Union
  <2>2. Cardinality(Old \cap New) = 0
    BY <1>4, FS_EmptySet
  <2> QED BY <1>5, <2>1, <2>2
<1>7. rule[k].count = Cardinality(Old) /\ Noted(i, k) = Cardinality(New)
  BY DEF CountsItsRuns, Matched, Noted, New, Old
<1>8. rule'[k].count = rule[k].count + Noted(i, k)
  <2>1. rule[k] \in Rule
    BY DEF DrainInv, TypeOK
  <2>2. rule'[k] = [rule[k] EXCEPT !.count = rule[k].count + Noted(i, k)]
    BY DEF CommitDrain
  <2> QED BY <2>1, <2>2 DEF Rule
<1> QED BY <1>3, <1>6, <1>7, <1>8

\* trigger_count of a rule is the number of events it started a run for, for
\* any number of instances, crashes, failed drains and edits of the rule.
THEOREM CountersMatchRuns == Spec => []CountsItsRuns
<1>1. Init => CountsItsRuns
  <2>1. ASSUME Init, NEW k \in Rules PROVE Matched(k) = {} /\ rule[k].count = 0
    BY <2>1 DEF Init, Matched
  <2> QED BY <2>1, FS_EmptySet DEF CountsItsRuns, Matched
<1>2. DrainInv /\ CountsItsRuns /\ [Next]_vars => CountsItsRuns'
  <2> SUFFICES ASSUME DrainInv, CountsItsRuns, [Next]_vars PROVE CountsItsRuns'
    OBVIOUS
  <2>1. ASSUME NEW i \in Instances, CommitDrain(i) PROVE CountsItsRuns'
    BY <2>1, CommitCounts DEF CountsItsRuns
  <2>2. ASSUME NEW k \in Rules, NEW armed \in BOOLEAN, NEW name \in Names,
               WriteRule(k, armed, name)
        PROVE  CountsItsRuns'
    BY <2>2 DEF WriteRule, CountsItsRuns, DrainInv, TypeOK
  <2>3. CASE UNCHANGED <<rule, runs>>
    BY <2>3 DEF CountsItsRuns
  <2> QED
    BY <2>1, <2>2, <2>3 DEF Next, vars, Bus, Boot, Drain, DrainFails, Crash, SeedFails,
       Rollback, InsertEvent, CommitEvent, RollbackEvent, SkipSeed, SeedCursor, LockCursor,
       ReadEvents, NothingToRead, EvaluateEvent
<1> QED BY <1>1, <1>2, DrainInvariant, PTL DEF Spec

-----------------------------------------------------------------------------
(* What the cursor needs of the bus: events become visible in the order of  *)
(* their ids                                                                *)

\* An event commits only when no event with a smaller id is still open.
CommitsInOrder ==
  \A v \in EventIds : ~Stored(v) /\ Stored(v)' =>
    \A u \in EventIds : u < v => event[u].state # "open"

\* Below the identity sequence every id was taken.
IdsTaken == \A v \in EventIds : v <= lastId => event[v].state # "absent"

\* Below a visible event nothing can become visible any more.
VisiblePrefix ==
  \A u, v \in EventIds : Stored(v) /\ u < v => event[u].state \in {"stored", "void"}

\* The cursor stands on an event.
CursorOnEvent == cursor = 0 \/ (cursor \in EventIds /\ Stored(cursor))

\* A drain has read everything visible up to its last event.
BatchComplete ==
  \A i \in Instances : phase[i] = "match" =>
    \A v \in EventIds : Stored(v) /\ cursor < v /\ v <= last[i] => v \in batch[i]

NothingLate == \A v \in EventIds : fate[v] # "late"

OrderInv == IdsTaken /\ VisiblePrefix /\ CursorOnEvent /\ BatchComplete /\ NothingLate

\* A passed event was evaluated, or stored before the cursor was seeded.
PassedIsHandled ==
  \A v \in EventIds : Stored(v) /\ v <= cursor => fate[v] \in {"evaluated", "history", "reseeded"}

LEMMA CommitInOrder ==
  ASSUME MatcherConstantsOK, DrainInv, OrderInv, CommitsInOrder, NEW w \in EventIds, CommitEvent(w)
  PROVE  OrderInv'
<1>t. TypeOK /\ Inserted /\ BatchAboveCursor
  BY DEF DrainInv
<1>n. EventIds \subseteq Nat /\ cursor \in Nat
  BY <1>t DEF TypeOK, MatcherConstantsOK
<1>1. /\ event[w].state = "open" /\ event'[w].state = "stored"
      /\ \A v \in EventIds \ {w} : event'[v] = event[v]
  <2>1. event[w] \in Event /\ event'[w] = [event[w] EXCEPT !.state = "stored"]
        /\ event[w].state = "open" /\ \A v \in EventIds \ {w} : event'[v] = event[v]
    BY <1>t DEF CommitEvent, TypeOK
  <2> QED BY <2>1, EventState
<1>2. \A v \in EventIds : Stored(v)' <=> Stored(v) \/ v = w
  BY <1>1 DEF Stored
<1>3. \A u \in EventIds : u < w => event[u].state # "open"
  BY <1>1 DEF CommitsInOrder, Stored
\* No visible event lies above the one that becomes visible.
<1>4. \A v \in EventIds : Stored(v) => v <= w
  <2> SUFFICES ASSUME NEW v \in EventIds, Stored(v), w < v PROVE FALSE
    BY <1>n
  <2> QED BY <1>1 DEF OrderInv, VisiblePrefix
<1>5. ~(w <= cursor)
  BY <1>n, <1>1, <1>4 DEF OrderInv, CursorOnEvent, Stored
<1>6. IdsTaken'
  BY <1>1 DEF OrderInv, IdsTaken, CommitEvent
<1>7. VisiblePrefix'
  <2> SUFFICES ASSUME NEW u \in EventIds, NEW v \in EventIds, Stored(v)', u < v
               PROVE  event'[u].state \in {"stored", "void"}
    BY DEF VisiblePrefix
  <2>1. CASE u = w
    BY <1>1, <2>1
  <2>2. CASE u # w /\ Stored(v)
    BY <1>1, <2>2 DEF OrderInv, VisiblePrefix
  <2>3. CASE u # w /\ v = w
    <3>1. w <= lastId /\ lastId \in Nat
      BY <1>t, <1>1 DEF Inserted, TypeOK
    <3>2. event[u].state # "absent"
      BY <1>n, <2>3, <3>1 DEF OrderInv, IdsTaken
    <3>3. event[u].state # "open"
      BY <1>3, <2>3
    <3>4. event[u] \in Event
      BY <1>t DEF TypeOK
    <3> QED BY <1>1, <2>3, <3>2, <3>3, <3>4 DEF Event
  <2> QED BY <1>2, <2>1, <2>2, <2>3
<1>8. CursorOnEvent'
  BY <1>2 DEF OrderInv, CursorOnEvent, CommitEvent
<1>9. BatchComplete'
  <2> SUFFICES ASSUME NEW i \in Instances, phase[i] = "match", NEW v \in EventIds,
                      Stored(v)', cursor < v, v <= last[i]
               PROVE  v \in batch[i]
    BY DEF BatchComplete, CommitEvent, drain
  <2>1. last[i] \in EventIds /\ last[i] \in batch[i] /\ Stored(last[i])
    BY <1>t DEF BatchAboveCursor, TypeOK
  <2>2. CASE Stored(v)
    BY <2>2 DEF OrderInv, BatchComplete
  <2>3. CASE v = w
    <3>1. last[i] <= w
      BY <1>4, <2>1
    <3>2. last[i] = w
      BY <1>n, <2>1, <2>3, <3>1
    <3> QED BY <2>1, <2>3, <3>2
  <2> QED BY <1>2, <2>2, <2>3
<1>10. NothingLate'
  BY <1>t, <1>5 DEF OrderInv, NothingLate, CommitEvent, TypeOK
<1> QED BY <1>6, <1>7, <1>8, <1>9, <1>10 DEF OrderInv

LEMMA OrderPreserved ==
  ASSUME MatcherConstantsOK, DrainInv, OrderInv, [Next]_vars, [CommitsInOrder]_vars
  PROVE  OrderInv'
<1>t. TypeOK /\ Inserted /\ BatchAboveCursor
  BY DEF DrainInv
<1>n. EventIds \subseteq Nat /\ cursor \in Nat /\ lastId \in Nat
  BY <1>t DEF TypeOK, MatcherConstantsOK
\* Steps that move neither an event, nor the cursor, nor a fate.
<1>1. ASSUME UNCHANGED <<lastId, event, cursor, fate>>,
             \A i \in Instances : phase'[i] = "match" =>
               phase[i] = "match" /\ last'[i] = last[i] /\ batch'[i] = batch[i]
      PROVE  OrderInv'
  BY <1>1 DEF OrderInv, IdsTaken, VisiblePrefix, CursorOnEvent, BatchComplete, NothingLate, Stored
<1>2. CASE UNCHANGED vars
  BY <1>1, <1>2 DEF vars
<1>3. ASSUME NEW org \in Orgs \cup {NoOrg}, NEW name \in Names, NEW payload \in Payloads,
             InsertEvent(org, name, payload)
      PROVE  OrderInv'
  <2>1. /\ lastId' = lastId + 1 /\ lastId + 1 \in EventIds
        /\ event'[lastId + 1].state = "open"
        /\ \A v \in EventIds \ {lastId + 1} : event'[v] = event[v]
        /\ event[lastId + 1].state = "absent"
    BY <1>t, <1>n, <1>3 DEF InsertEvent, TypeOK, Inserted, MatcherConstantsOK
  <2>2. \A v \in EventIds : Stored(v)' <=> Stored(v)
    BY <2>1 DEF Stored
  <2>3. IdsTaken'
    BY <1>n, <2>1 DEF OrderInv, IdsTaken
  <2>4. VisiblePrefix'
    <3> SUFFICES ASSUME NEW u \in EventIds, NEW v \in EventIds, Stored(v), u < v
                 PROVE  event'[u].state \in {"stored", "void"}
      BY <2>2 DEF VisiblePrefix
    <3>1. event[u].state \in {"stored", "void"}
      BY DEF OrderInv, VisiblePrefix
    <3> QED BY <2>1, <3>1
  <2>5. CursorOnEvent' /\ BatchComplete' /\ NothingLate'
    BY <1>3, <2>2 DEF InsertEvent, OrderInv, CursorOnEvent, BatchComplete, NothingLate, drain
  <2> QED BY <2>3, <2>4, <2>5 DEF OrderInv
<1>4. ASSUME NEW w \in EventIds, CommitEvent(w) PROVE OrderInv'
  <2>1. event' # event
    <3>1. event[w] \in Event /\ event'[w] = [event[w] EXCEPT !.state = "stored"]
          /\ event[w].state = "open"
      BY <1>t, <1>4 DEF CommitEvent, TypeOK
    <3>2. event'[w].state = "stored"
      BY <3>1, EventState
    <3> QED BY <3>1, <3>2
  <2>2. CommitsInOrder
    BY <2>1 DEF vars
  <2> QED BY <1>4, <2>2, CommitInOrder
<1>5. ASSUME NEW w \in EventIds, RollbackEvent(w) PROVE OrderInv'
  <2>1. /\ event[w].state = "open" /\ event'[w].state = "void"
        /\ \A v \in EventIds \ {w} : event'[v] = event[v]
    <3>1. event[w] \in Event /\ event'[w] = [event[w] EXCEPT !.state = "void"]
          /\ event[w].state = "open" /\ \A v \in EventIds \ {w} : event'[v] = event[v]
      BY <1>t, <1>5 DEF RollbackEvent, TypeOK
    <3> QED BY <3>1, EventState
  <2>2. \A v \in EventIds : Stored(v)' <=> Stored(v)
    BY <2>1 DEF Stored
  <2>3. IdsTaken' /\ VisiblePrefix'
    BY <1>5, <2>1, <2>2 DEF OrderInv, IdsTaken, VisiblePrefix, RollbackEvent
  <2>4. CursorOnEvent' /\ BatchComplete' /\ NothingLate'
    BY <1>5, <2>2 DEF RollbackEvent, OrderInv, CursorOnEvent, BatchComplete, NothingLate, drain
  <2> QED BY <2>3, <2>4 DEF OrderInv
<1>6. ASSUME NEW k \in Rules, NEW armed \in BOOLEAN, NEW name \in Names, WriteRule(k, armed, name)
      PROVE  OrderInv'
  BY <1>1, <1>6 DEF WriteRule, drain
<1>7. ASSUME NEW i \in Instances, NEW end \in 0 .. MaxEvents, SeedCursor(i, end) PROVE OrderInv'
  <2>1. /\ event' = event /\ lastId' = lastId /\ cursor = 0 /\ cursor' = end
        /\ end = 0 \/ (end \in EventIds /\ Stored(end))
        /\ batch' = batch /\ last' = last
    BY <1>7 DEF SeedCursor
  <2>2. \A q \in Instances : phase'[q] = "match" => phase[q] = "match"
    BY <1>t, <1>7 DEF SeedCursor, TypeOK
  <2>3. IdsTaken' /\ VisiblePrefix' /\ CursorOnEvent'
    BY <2>1 DEF OrderInv, IdsTaken, VisiblePrefix, CursorOnEvent, Stored
  <2>4. BatchComplete'
    <3> SUFFICES ASSUME NEW q \in Instances, phase'[q] = "match", NEW v \in EventIds,
                        Stored(v), end < v, v <= last[q]
                 PROVE  v \in batch[q]
      BY <2>1 DEF BatchComplete, Stored
    <3>1. cursor < v
      BY <1>n, <2>1
    <3> QED BY <2>2, <3>1 DEF OrderInv, BatchComplete
  <2>5. NothingLate'
    BY <1>7 DEF SeedCursor, OrderInv, NothingLate
  <2> QED BY <2>3, <2>4, <2>5 DEF OrderInv
<1>8. ASSUME NEW i \in Instances, SkipSeed(i) \/ LockCursor(i) \/ NothingToRead(i) PROVE OrderInv'
  BY <1>t, <1>1, <1>8 DEF SkipSeed, LockCursor, NothingToRead, TypeOK
<1>9. ASSUME NEW i \in Instances, NEW S \in SUBSET EventIds, NEW end \in EventIds,
             ReadEvents(i, S, end)
      PROVE  OrderInv'
  <2>1. IdsTaken' /\ VisiblePrefix' /\ CursorOnEvent' /\ NothingLate'
    BY <1>9 DEF ReadEvents, OrderInv, IdsTaken, VisiblePrefix, CursorOnEvent, NothingLate, Stored
  <2>2. /\ batch'[i] = S /\ last'[i] = end /\ \A v \in Unread : v <= end => v \in S
        /\ \A q \in Instances \ {i} : /\ batch'[q] = batch[q] /\ last'[q] = last[q]
                                      /\ phase'[q] = phase[q]
        /\ event' = event /\ cursor' = cursor
    BY <1>t, <1>9 DEF ReadEvents, Oldest, TypeOK
  <2>3. BatchComplete'
    BY <2>2 DEF OrderInv, BatchComplete, Unread, Stored
  <2> QED BY <2>1, <2>3 DEF OrderInv
<1>10. ASSUME NEW i \in Instances, NEW v \in EventIds, EvaluateEvent(i, v) PROVE OrderInv'
  BY <1>1, <1>10 DEF EvaluateEvent
<1>11. ASSUME NEW i \in Instances, CommitDrain(i) PROVE OrderInv'
  <2>1. /\ event' = event /\ lastId' = lastId /\ cursor' = last[i] /\ phase[i] = "match"
        /\ phase'[i] = "idle" /\ last' = last
        /\ \A q \in Instances \ {i} : phase'[q] = phase[q] /\ batch'[q] = batch[q]
    BY <1>t, <1>11 DEF CommitDrain, ReadUpTo, TypeOK
  <2>2. last[i] \in EventIds /\ Stored(last[i]) /\ cursor < last[i]
    BY <1>t, <2>1 DEF BatchAboveCursor, TypeOK
  <2>3. IdsTaken' /\ VisiblePrefix' /\ CursorOnEvent'
    BY <2>1, <2>2 DEF OrderInv, IdsTaken, VisiblePrefix, CursorOnEvent, Stored
  <2>4. BatchComplete'
    <3> SUFFICES ASSUME NEW q \in Instances, phase'[q] = "match", NEW v \in EventIds,
                        Stored(v), last[i] < v, v <= last[q]
                 PROVE  v \in batch'[q]
      BY <2>1 DEF BatchComplete, Stored
    <3>1. q # i /\ phase[q] = "match" /\ batch'[q] = batch[q]
      BY <2>1
    <3>2. cursor < v
      BY <1>n, <2>2
    <3> QED BY <3>1, <3>2 DEF OrderInv, BatchComplete
  <2>5. \A v \in EventIds : ~(v \notin batch[i] /\ Stored(v) /\ cursor < v /\ v <= last[i])
    BY <2>1 DEF OrderInv, BatchComplete
  <2>6. NothingLate'
    <3> SUFFICES ASSUME NEW v \in EventIds PROVE fate'[v] # "late"
      BY DEF NothingLate
    <3>1. fate'[v] = CASE v \in batch[i] -> "evaluated"
                       [] v \notin batch[i] /\ Overtaken(i, v) -> "late"
                       [] OTHER -> fate[v]
      BY <1>11 DEF CommitDrain
    <3> QED BY <2>5, <3>1 DEF OrderInv, NothingLate, Overtaken
  <2> QED BY <2>3, <2>4, <2>6 DEF OrderInv
<1>12. ASSUME NEW i \in Instances, NEW next \in {"boot", "idle"}, Rollback(i, next)
       PROVE  OrderInv'
  BY <1>t, <1>1, <1>12 DEF Rollback, TypeOK
<1> QED
  BY <1>2, <1>3, <1>4, <1>5, <1>6, <1>7, <1>8, <1>9, <1>10, <1>11, <1>12
     DEF Next, Bus, Boot, Drain, DrainFails, Crash, SeedFails

\* matcher.rs calls a missed event unreachable.  That holds on a bus whose events
\* become visible in the order of their ids: then the cursor passes an event only
\* by evaluating it or by seeding over it, for any number of instances, failed
\* drains and restarts.  Nothing in insert_event enforces the order, and without
\* it TLC refutes NoMissedEvent.
THEOREM OrderedBusMissesNothing ==
  Spec /\ [][CommitsInOrder]_vars => [](NoMissedEvent /\ PassedIsHandled)
<1> USE MatcherConstantsOK
<1>1. Init => OrderInv
  <2> SUFFICES ASSUME Init PROVE OrderInv
    OBVIOUS
  <2>1. \A v \in EventIds : event[v].state = "absent" /\ fate[v] = "new" /\ ~(v <= lastId)
    BY DEF Init
  <2>2. cursor = 0 /\ \A i \in Instances : phase[i] = "boot"
    BY DEF Init
  <2> QED BY <2>1, <2>2 DEF OrderInv, IdsTaken, VisiblePrefix, CursorOnEvent, BatchComplete,
             NothingLate, Stored
<1>2. DrainInv /\ OrderInv /\ [Next]_vars /\ [CommitsInOrder]_vars => OrderInv'
  BY OrderPreserved
<1>3. DrainInv /\ OrderInv => NoMissedEvent /\ PassedIsHandled
  BY DEF DrainInv, OrderInv, NothingLate, NoMissedEvent, PassedIsHandled, TypeOK,
         CursorAccountsForEvents
<1> QED BY <1>1, <1>2, <1>3, DrainInvariant, PTL DEF Spec
=============================================================================
