-------------------------- MODULE AutomationMatcher -------------------------
(***************************************************************************)
(* The automation matcher of crates/automation: a cursor over the events   *)
(* table, drained by every API instance under the lock of its single row.  *)
(*                                                                         *)
(* An event takes its id when it is inserted and becomes visible when its  *)
(* transaction commits, so ids can become visible out of order.  A drain   *)
(* is one transaction of several READ COMMITTED statements: what it writes *)
(* stays in the instance's locals until its commit.  The site of a rule or *)
(* an event is left out; it narrows the match like the name does.          *)
(***************************************************************************)
EXTENDS Naturals, FiniteSets

CONSTANTS
  Rules,       \* ids of event-triggered workflows
  Orgs,        \* organizations
  NoOrg,       \* the null organization of a platform event
  OrgOf,       \* rule -> organization
  Names,       \* event names
  Payloads,    \* event payloads
  Accepts,     \* rule -> payloads its conditions and placeholders take
  Instances,   \* API instances running the matcher
  Free,        \* no instance holds the cursor row
  Batch,       \* config.automation.batch
  MaxEvents,   \* bound: events inserted
  MaxCrashes   \* bound: crashes and failed drains

ASSUME MatcherConstantsOK ==
  /\ NoOrg \notin Orgs /\ Free \notin Instances
  /\ OrgOf \in [Rules -> Orgs]
  /\ Accepts \in [Rules -> SUBSET Payloads]
  /\ Batch \in Nat \ {0} /\ MaxEvents \in Nat /\ MaxCrashes \in Nat
  /\ Names # {} /\ Payloads # {}

EventIds == 1 .. MaxEvents
Matches == Rules \X EventIds

VARIABLES
  lastId,    \* identity sequence of events
  event,     \* events, committed or not
  rule,      \* the trigger columns of workflows
  runs,      \* workflow_executions, counted per rule and event
  cursor,    \* automation_cursor.last_event_id
  holder,    \* the instance whose transaction has locked the cursor row
  phase,     \* where each instance stands
  batch,     \* events its drain has read
  seen,      \* history: events that were visible when its drain read
  done,      \* those of them it has evaluated
  last,      \* id of the last event its drain has read
  fired,     \* matches its open transaction has started a run for
  watching,  \* history: the cursor has been seeded once
  fate,      \* history: how the cursor came to pass each event
  crashes    \* bound on crashes

drain == <<holder, phase, batch, seen, done, last, fired>>
vars == <<lastId, event, rule, runs, cursor, holder, phase, batch, seen, done, last,
          fired, watching, fate, crashes>>

Event == [state : {"absent", "open", "stored", "void"}, org : Orgs \cup {NoOrg},
          name : Names, payload : Payloads]
Rule == [armed : BOOLEAN, name : Names, count : Nat]

Stored(v) == event[v].state = "stored"

Init ==
  /\ lastId = 0
  /\ event = [v \in EventIds |-> [state |-> "absent", org |-> NoOrg,
                                  name |-> CHOOSE n \in Names : TRUE,
                                  payload |-> CHOOSE p \in Payloads : TRUE]]
  /\ rule = [k \in Rules |-> [armed |-> FALSE, name |-> CHOOSE n \in Names : TRUE,
                              count |-> 0]]
  /\ runs = [m \in Matches |-> 0]
  /\ cursor = 0
  /\ holder = Free
  /\ phase = [i \in Instances |-> "boot"]
  /\ batch = [i \in Instances |-> {}]
  /\ seen = [i \in Instances |-> {}]
  /\ done = [i \in Instances |-> {}]
  /\ last = [i \in Instances |-> 0]
  /\ fired = [i \in Instances |-> {}]
  /\ watching = FALSE
  /\ fate = [v \in EventIds |-> "new"]
  /\ crashes = 0

-----------------------------------------------------------------------------
(* The bus and the rules *)

\* insert_event: the id is taken before the row can be seen.
InsertEvent(org, name, payload) ==
  /\ lastId < MaxEvents
  /\ lastId' = lastId + 1
  /\ event' = [event EXCEPT ![lastId + 1] = [state |-> "open", org |-> org,
                                             name |-> name, payload |-> payload]]
  /\ UNCHANGED <<rule, runs, cursor, drain, watching, fate, crashes>>

CommitEvent(v) ==
  /\ event[v].state = "open"
  /\ event' = [event EXCEPT ![v] = [event[v] EXCEPT !.state = "stored"]]
  /\ fate' = [fate EXCEPT ![v] = IF v <= cursor THEN "late" ELSE "new"]
  /\ UNCHANGED <<lastId, rule, runs, cursor, drain, watching, crashes>>

\* The emitting request failed; its id is never used again.
RollbackEvent(v) ==
  /\ event[v].state = "open"
  /\ event' = [event EXCEPT ![v] = [event[v] EXCEPT !.state = "void"]]
  /\ UNCHANGED <<lastId, rule, runs, cursor, drain, watching, fate, crashes>>

\* An operator creates, rewrites, arms or disarms a rule.
WriteRule(k, armed, name) ==
  /\ rule' = [rule EXCEPT ![k] = [armed |-> armed, name |-> name,
                                  count |-> rule[k].count]]
  /\ UNCHANGED <<lastId, event, runs, cursor, drain, watching, fate, crashes>>

-----------------------------------------------------------------------------
(* Boot *)

\* seed_cursor waits for the row; a never-advanced cursor goes to the end of
\* the bus.
SeedCursor(i, end) ==
  /\ phase[i] = "boot" /\ holder = Free
  /\ cursor = 0
  /\ end \in {0} \cup {v \in EventIds : Stored(v)}
  /\ \A v \in EventIds : Stored(v) => v <= end
  /\ cursor' = end
  /\ fate' = [v \in EventIds |-> IF Stored(v) /\ fate[v] = "new"
                                   THEN IF watching THEN "reseeded" ELSE "history"
                                   ELSE fate[v]]
  /\ watching' = TRUE
  /\ phase' = [phase EXCEPT ![i] = "idle"]
  /\ UNCHANGED <<lastId, event, rule, runs, holder, batch, seen, done, last, fired, crashes>>

\* The cursor has been advanced before; the instance starts to poll.
SkipSeed(i) ==
  /\ phase[i] = "boot" /\ cursor # 0
  /\ phase' = [phase EXCEPT ![i] = "idle"]
  /\ UNCHANGED <<lastId, event, rule, runs, cursor, holder, batch, seen, done, last, fired,
                 watching, fate, crashes>>

-----------------------------------------------------------------------------
(* drain *)

\* Mutant: the cursor is read without its lock.
CursorUnlocked(i) == TRUE

\* `for update skip locked`.
CursorFree(i) == holder = Free

LockCursor(i) ==
  /\ phase[i] = "idle" /\ CursorFree(i)
  /\ holder' = i
  /\ phase' = [phase EXCEPT ![i] = "read"]
  /\ UNCHANGED <<lastId, event, rule, runs, cursor, batch, seen, done, last, fired,
                 watching, fate, crashes>>

\* Mutant: the first event after the cursor is left out.
UnreadAfterNext == {v \in EventIds : Stored(v) /\ v > cursor + 1}

Unread == {v \in EventIds : Stored(v) /\ v > cursor}

\* Mutant: the read has a limit and no order.
OldestUnordered(S, end) == \A v \in S : v <= end

\* `order by id`: nothing unread up to the last event is left out.
Oldest(S, end) == \A v \in Unread : v \in S <=> v <= end

\* The oldest unread events, at most a batch of them.
ReadEvents(i, S, end) ==
  /\ phase[i] = "read"
  /\ S \subseteq Unread /\ end \in S
  /\ Cardinality(S) <= Batch /\ (S # Unread => Cardinality(S) = Batch)
  /\ Oldest(S, end)
  /\ batch' = [batch EXCEPT ![i] = S]
  /\ seen' = [seen EXCEPT ![i] = {v \in EventIds : Stored(v)}]
  /\ last' = [last EXCEPT ![i] = end]
  /\ phase' = [phase EXCEPT ![i] = "match"]
  /\ UNCHANGED <<lastId, event, rule, runs, cursor, holder, done, fired, watching,
                 fate, crashes>>

\* An empty bus ends the drain.
NothingToRead(i) ==
  /\ phase[i] = "read" /\ Unread = {}
  /\ holder' = Free
  /\ phase' = [phase EXCEPT ![i] = "idle"]
  /\ UNCHANGED <<lastId, event, rule, runs, cursor, batch, seen, done, last, fired,
                 watching, fate, crashes>>

\* Every condition of the rule holds and every placeholder can be filled.
AllHold(k, v) == event[v].payload \in Accepts[k]

\* list_event_rules, then each rule against the payload.
FiringRules(v) ==
  {k \in Rules : /\ rule[k].armed /\ rule[k].name = event[v].name
                 /\ OrgOf[k] = event[v].org
                 /\ AllHold(k, v)}

\* One event, oldest first, against the rules as they are now.
EvaluateEvent(i, v) ==
  /\ phase[i] = "match" /\ v \in batch[i] \ done[i]
  /\ \A u \in batch[i] \ done[i] : v <= u
  /\ fired' = [fired EXCEPT ![i] = fired[i] \cup {<<k, v>> : k \in FiringRules(v)}]
  /\ done' = [done EXCEPT ![i] = done[i] \cup {v}]
  /\ UNCHANGED <<lastId, event, rule, runs, cursor, holder, phase, batch, seen, last,
                 watching, fate, crashes>>

\* Mutant: the cursor names the next event instead of the last one.
ReadUpToNext(i) == last[i] + 1

ReadUpTo(i) == last[i]

\* Mutant: note_match is called for every event, run or no run.
NotedAlways(i, k) == Cardinality(batch[i])

\* note_match, once per run.
Noted(i, k) == Cardinality({v \in EventIds : <<k, v>> \in fired[i]})

\* An event the read could not see yet and the cursor is about to pass.
Overtaken(i, v) == Stored(v) /\ v \notin seen[i] /\ cursor < v /\ v <= last[i]

\* The runs, the counters and the cursor become visible together.
CommitDrain(i) ==
  /\ phase[i] = "match" /\ done[i] = batch[i]
  /\ runs' = [m \in Matches |-> IF m \in fired[i] THEN runs[m] + 1 ELSE runs[m]]
  /\ rule' = [k \in Rules |-> [rule[k] EXCEPT !.count = rule[k].count + Noted(i, k)]]
  /\ cursor' = ReadUpTo(i)
  /\ fate' = [v \in EventIds |->
                CASE v \in batch[i] -> "evaluated"
                  [] v \notin batch[i] /\ Overtaken(i, v) -> "late"
                  [] OTHER -> fate[v]]
  /\ holder' = Free
  /\ batch' = [batch EXCEPT ![i] = {}]
  /\ seen' = [seen EXCEPT ![i] = {}]
  /\ done' = [done EXCEPT ![i] = {}]
  /\ fired' = [fired EXCEPT ![i] = {}]
  /\ phase' = [phase EXCEPT ![i] = "idle"]
  /\ UNCHANGED <<lastId, event, last, watching, crashes>>

\* A failed statement, or the end of the process, rolls the drain back.
Rollback(i, next) ==
  /\ crashes < MaxCrashes
  /\ crashes' = crashes + 1
  /\ holder' = IF holder = i THEN Free ELSE holder
  /\ phase' = [phase EXCEPT ![i] = next]
  /\ batch' = [batch EXCEPT ![i] = {}]
  /\ seen' = [seen EXCEPT ![i] = {}]
  /\ done' = [done EXCEPT ![i] = {}]
  /\ fired' = [fired EXCEPT ![i] = {}]
  /\ UNCHANGED <<lastId, event, rule, runs, cursor, last, watching, fate>>

\* A drain that fails is logged; the next tick starts over.
DrainFails(i) == phase[i] \in {"read", "match"} /\ Rollback(i, "idle")

\* The process stops, and boots again later.
Crash(i) == phase[i] # "boot" /\ Rollback(i, "boot")

\* A seed that fails is logged, and the instance polls all the same.
SeedFails(i) == phase[i] = "boot" /\ Rollback(i, "idle")

Boot(i) == SkipSeed(i) \/ \E end \in 0 .. MaxEvents : SeedCursor(i, end)

Drain(i) ==
  \/ LockCursor(i)
  \/ \E S \in SUBSET EventIds, end \in EventIds : ReadEvents(i, S, end)
  \/ NothingToRead(i)
  \/ \E v \in EventIds : EvaluateEvent(i, v)
  \/ CommitDrain(i)

Bus ==
  \/ \E org \in Orgs \cup {NoOrg}, name \in Names, payload \in Payloads :
       InsertEvent(org, name, payload)
  \/ \E v \in EventIds : CommitEvent(v) \/ RollbackEvent(v)
  \/ \E k \in Rules, armed \in BOOLEAN, name \in Names : WriteRule(k, armed, name)

Next ==
  \/ Bus
  \/ \E i \in Instances : Boot(i) \/ Drain(i) \/ DrainFails(i) \/ Crash(i) \/ SeedFails(i)

Spec == Init /\ [][Next]_vars

\* Every instance boots and keeps ticking; the row lock is granted now and then.
Fairness ==
  \A i \in Instances : /\ SF_vars(Boot(i)) /\ SF_vars(LockCursor(i))
                       /\ WF_vars(phase[i] \in {"read", "match"} /\ Drain(i))

FairSpec == Spec /\ Fairness

-----------------------------------------------------------------------------
(* Properties *)

\* Every variable holds a value of its column or Rust type.
TypeOK ==
  /\ lastId \in 0 .. MaxEvents
  /\ event \in [EventIds -> Event]
  /\ rule \in [Rules -> Rule]
  /\ runs \in [Matches -> Nat]
  /\ cursor \in 0 .. lastId
  /\ holder \in Instances \cup {Free}
  /\ phase \in [Instances -> {"boot", "idle", "read", "match"}]
  /\ batch \in [Instances -> SUBSET EventIds]
  /\ seen \in [Instances -> SUBSET EventIds]
  /\ done \in [Instances -> SUBSET EventIds]
  /\ last \in [Instances -> 0 .. MaxEvents]
  /\ fired \in [Instances -> SUBSET Matches]
  /\ watching \in BOOLEAN
  /\ fate \in [EventIds -> {"new", "evaluated", "late", "history", "reseeded"}]
  /\ crashes \in Nat

\* A rule starts at most one run for an event, through crashes, failed drains,
\* restarts that seed again and any number of instances.
StartedOnce == \A m \in Matches : runs[m] <= 1

\* A run belongs to the organization of the event that started it.
RunsStayInTenant ==
  \A m \in Matches : runs[m] > 0 => Stored(m[2]) /\ OrgOf[m[1]] = event[m[2]].org

\* trigger_count moves exactly with the runs it counts.
CountsItsRuns ==
  \A k \in Rules : rule[k].count = Cardinality({v \in EventIds : runs[<<k, v>>] > 0})

\* The cursor passes a visible event only by evaluating it, by seeding over
\* it, or because the event was invisible when the drain that passed it read:
\* a drain that could see an event never steps over it.
CursorAccountsForEvents ==
  \A v \in EventIds : Stored(v) /\ v <= cursor => fate[v] # "new"

\* The cursor never goes back: no event is ever evaluated again.
CursorAdvances == [][cursor' >= cursor]_vars

\* No event is missed: an event older than an evaluated one was not passed over.
NoMissedEvent ==
  \A u, v \in EventIds : fate[u] = "evaluated" /\ v < u => fate[v] # "late"

\* Every event the bus stores is passed by the cursor in the end.
EventsArePassed == \A v \in EventIds : Stored(v) ~> cursor >= v
=============================================================================
