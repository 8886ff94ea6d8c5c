----------------------------- MODULE Maintenance -----------------------------
(***************************************************************************)
(* The scheduled maintenance of an evidence database while decisions keep  *)
(* writing to it: a pass migrates the schema, tops up the monthly          *)
(* partitions, warns about a stale backlog, selects the segments with      *)
(* outstanding retention work and seals or purges each of them             *)
(* (cli/maintenance.py, postgres/schema.py, retention_scheduler.py).       *)
(* What a seal and a purge do inside one segment, and how several jobs     *)
(* overlap there, is EvidenceSegment; here each is one step.               *)
(***************************************************************************)
EXTENDS Integers, FiniteSets, Sequences

CONSTANTS
  Rotation,     \* _SEGMENT_ROTATION_SECONDS
  MonthLen,     \* length of a month
  MonthsBack, MonthsAhead,
  SealAfter, PurgeGrace,
  Slack,        \* what the staleness threshold adds to the two
  BatchLimit,   \* GLASSBOX_MAINTENANCE_SEGMENT_BATCH_LIMIT
  Versions,     \* the schema versions the database may be found at
  Bypass,       \* does the job's database role bypass row-level security?
  CrashKinds,   \* what a crash may leave behind: "clean", "torn"
  Cadence,      \* bound: longest time from one pass to the next
  Lag,          \* bound: longest time from the start of a decision to its append
  MaxRecords,   \* bound: records in a segment
  MaxSegments,  \* bound: segments with records
  MaxFaults,    \* bound: failing calls and crashes
  MaxClock      \* bound: the last reading of the clock

ASSUME MaintenanceAssumption ==
  /\ Rotation \in Nat \ {0} /\ MonthLen \in Nat \ {0} /\ MonthLen % Rotation = 0
  /\ MonthsBack \in Nat /\ MonthsAhead \in Nat /\ BatchLimit \in Nat \ {0}
  /\ CrashKinds \subseteq {"clean", "torn"}

Null == -1
Tables == {"intent", "outcome"}
PartitionedAt == [intent |-> 7, outcome |-> 9]   \* the migrations that partition them
Latest == 11                                     \* SCHEMA_VERSION

\* A segment is named after the period its decisions began in.
Periods == 0 .. MaxClock \div Rotation
Month(t) == t \div MonthLen

VARIABLES
  clock,
  version,   \* the highest applied migration
  parts,     \* the months each table has a partition for
  outcomes,  \* the months of the outcome rows, never deleted, that no partition took
  segment,   \* evidence_segment: records appended, sealed (from the first), purged
  torn,      \* anchor files created and not completely written
  pass,      \* the maintenance process
  faults

database == <<version, parts, outcomes, segment, torn>>
vars == <<clock, version, parts, outcomes, segment, torn, pass, faults>>

NoSegment == [opened |-> Null, records |-> 0, sealed |-> 0, at |-> Null, purged |-> 0]

Range(q) == {q[i] : i \in DOMAIN q}

\* No pass is running; began and exit are those of the last one.
Idle(began, exit) ==
  [pc |-> "idle", began |-> began, now |-> Null, queue |-> << >>, batch |-> {},
   failed |-> FALSE, warned |-> FALSE, exit |-> exit]

\* The months a top-up at time t provisions.
WindowAt(t) == Month(t) - MonthsBack .. Month(t) + MonthsAhead

\* A service of the database's release has started, which tops up as well, and has
\* written nothing yet.
Init ==
  /\ clock = 0
  /\ version \in Versions
  /\ parts = [t \in Tables |-> IF version >= PartitionedAt[t] THEN WindowAt(0) ELSE {}]
  /\ outcomes = {}
  /\ segment = [s \in Periods |-> NoSegment]
  /\ torn = {}
  /\ pass = Idle(Null, 0)
  /\ faults = 0

-----------------------------------------------------------------------------
(* The decision service.                                                   *)

Exists(s) == segment[s].opened # Null
Live(s) == segment[s].purged .. segment[s].records - 1

\* append_intent: the period is that of the decision's clock, opened_at the database's.
AppendIntent(s) ==
  /\ s * Rotation <= clock /\ clock < (s + 1) * Rotation + Lag
  /\ segment[s].records < MaxRecords
  /\ Exists(s) \/ Cardinality({p \in Periods : Exists(p)}) < MaxSegments
  /\ segment' = [segment EXCEPT ![s].records = @ + 1,
                                ![s].opened = IF @ = Null THEN clock ELSE @]
  /\ UNCHANGED <<clock, version, parts, outcomes, torn, pass, faults>>

AppendOutcome ==
  /\ \E s \in Periods : Exists(s)
  /\ outcomes' = outcomes \cup ({Month(clock)} \ parts["outcome"])
  /\ UNCHANGED <<clock, version, parts, segment, torn, pass, faults>>

\* Months with rows that lie in no monthly partition: the table itself before it is
\* partitioned, its default partition afterwards, into which the migration copies them.
Unplaced(t) ==
  IF t = "intent"
  THEN {Month(s * Rotation) : s \in {p \in Periods : Live(p) # {}}} \ parts[t]
  ELSE outcomes

-----------------------------------------------------------------------------
(* One pass: run() of the maintenance command.                             *)

At(pc) == pass.pc = pc
Goto(pc) == pass' = [pass EXCEPT !.pc = pc]
End(exit) == pass' = Idle(pass.began, exit)

\* The schedule starts one pass at a time, and the next one later.
StartPass ==
  /\ At("idle")
  /\ clock > pass.began
  /\ pass' = [Idle(clock, 0) EXCEPT !.pc = "migrate"]
  /\ UNCHANGED <<clock, database, faults>>

\* apply_migrations: every migration is a transaction of its own.
Migrate ==
  /\ At("migrate")
  /\ IF version < Latest
     THEN version' = version + 1 /\ UNCHANGED pass
     ELSE Goto("intent") /\ UNCHANGED version
  /\ UNCHANGED <<clock, parts, outcomes, segment, torn, faults>>

Window == WindowAt(clock)

\* The months whose partition would take rows that the default partition holds;
\* PostgreSQL refuses to create it.
Conflicts(t) == (Window \ parts[t]) \cap Unplaced(t)

\* Mutant: the window ends with the current month.
TopUpBehind(t) ==
  /\ At(t)
  /\ IF Conflicts(t) = {}
     THEN /\ parts' = [parts EXCEPT ![t] = @ \cup (Month(clock) - MonthsBack .. Month(clock))]
          /\ Goto(IF t = "intent" THEN "outcome" ELSE "stale")
     ELSE End(1) /\ UNCHANGED parts
  /\ UNCHANGED <<clock, version, outcomes, segment, torn, faults>>

\* ensure_monthly_partitions: one transaction for the whole window.
TopUp(t) ==
  /\ At(t)
  /\ IF Conflicts(t) = {}
     THEN /\ parts' = [parts EXCEPT ![t] = @ \cup Window]
          /\ Goto(IF t = "intent" THEN "outcome" ELSE "stale")
     ELSE End(1) /\ UNCHANGED parts
  /\ UNCHANGED <<clock, version, outcomes, segment, torn, faults>>

\* Mutant: the marker, one past the last purged record, compared like that record.
OutstandingThrough(s) ==
  Exists(s) /\ (segment[s].at = Null \/ segment[s].purged <= segment[s].sealed)

\* The candidate query: unsealed, or sealed further than purged.
Outstanding(s) == Exists(s) /\ (segment[s].at = Null \/ segment[s].purged < segment[s].sealed)
Candidates == {s \in Periods : Outstanding(s)}

\* detect_stale_backlog
CheckStale ==
  /\ At("stale")
  /\ pass' = [pass EXCEPT !.pc = "fetch",
                !.warned = \E s \in Candidates :
                             clock - segment[s].opened > SealAfter + PurgeGrace + Slack]
  /\ UNCHANGED <<clock, database, faults>>

\* ORDER BY opened_at; equal times in the order of the periods.
OldestFirst(S) ==
  LET Earlier(x, y) == \/ segment[x].opened < segment[y].opened
                       \/ segment[x].opened = segment[y].opened /\ x < y
  IN  [i \in 1 .. Cardinality(S) |->
         CHOOSE x \in S : Cardinality({y \in S : Earlier(y, x)}) = i - 1]

\* The batch, and the one reading of the clock that run_once judges all of it by.
FetchSegments ==
  /\ At("fetch")
  /\ LET all == OldestFirst(Candidates)
         queue == SubSeq(all, 1, IF Len(all) < BatchLimit THEN Len(all) ELSE BatchLimit)
     IN  pass' = [pass EXCEPT !.pc = "run", !.queue = queue, !.batch = Range(queue),
                              !.now = clock]
  /\ UNCHANGED <<clock, database, faults>>

Considering(s) == At("run") /\ pass.queue # << >> /\ s = Head(pass.queue)
NextSegment == pass' = [pass EXCEPT !.queue = Tail(@)]

\* segment_leaves sets no tenant context, so a role under row-level security sees no row.
Leaves(s) == IF Bypass THEN Live(s) ELSE {}

DueForSeal(s) == segment[s].at = Null /\ pass.now - segment[s].opened >= SealAfter
DueForPurge(s) ==
  /\ segment[s].at # Null /\ pass.now - segment[s].at >= PurgeGrace
  /\ segment[s].purged < segment[s].sealed

\* The id of the anchor a seal of the segment would write.
AnchorId(s) == <<s, segment[s].records>>

\* Mutant: a segment is sealed at once.
ConsiderSealAtOnce(s) ==
  /\ Considering(s)
  /\ segment[s].at = Null
  /\ IF Leaves(s) # {}
     THEN /\ segment' = [segment EXCEPT ![s].sealed = segment[s].records, ![s].at = pass.now]
          /\ NextSegment
     ELSE NextSegment /\ UNCHANGED segment
  /\ UNCHANGED <<clock, version, parts, outcomes, torn, faults>>

\* _maybe_seal; an anchor file that exists and cannot be read ends the pass.
ConsiderSeal(s) ==
  /\ Considering(s)
  /\ segment[s].at = Null
  /\ IF ~DueForSeal(s) \/ Leaves(s) = {}
     THEN NextSegment /\ UNCHANGED segment
     ELSE IF AnchorId(s) \in torn
     THEN End(1) /\ UNCHANGED segment
     ELSE /\ segment' = [segment EXCEPT ![s].sealed = segment[s].records, ![s].at = pass.now]
          /\ NextSegment
  /\ UNCHANGED <<clock, version, parts, outcomes, torn, faults>>

\* _maybe_purge; list_for_segment reads every anchor file of the store.
ConsiderPurge(s) ==
  /\ Considering(s)
  /\ segment[s].at # Null
  /\ IF ~DueForPurge(s)
     THEN NextSegment /\ UNCHANGED segment
     ELSE IF torn # {}
     THEN End(1) /\ UNCHANGED segment
     ELSE /\ segment' = [segment EXCEPT ![s].purged = segment[s].sealed]
          /\ NextSegment
  /\ UNCHANGED <<clock, version, parts, outcomes, torn, faults>>

Finish ==
  /\ At("run") /\ pass.queue = << >>
  /\ pass' = [Idle(pass.began, IF pass.failed THEN 1 ELSE 0) EXCEPT
                !.now = pass.now, !.batch = pass.batch, !.warned = pass.warned]
  /\ UNCHANGED <<clock, database, faults>>

-----------------------------------------------------------------------------
(* Failures.                                                               *)

Fault == faults < MaxFaults /\ faults' = faults + 1

\* Mutant: the failure is logged and not counted.
SegmentFailsQuietly(s) ==
  /\ Considering(s)
  /\ Fault
  /\ NextSegment
  /\ UNCHANGED <<clock, database>>

\* EvidenceWriteError or SigningUnavailableError: recorded as FAILED, the pass goes on.
SegmentFails(s) ==
  /\ Considering(s)
  /\ Fault
  /\ pass' = [pass EXCEPT !.queue = Tail(@), !.failed = TRUE]
  /\ UNCHANGED <<clock, database>>

\* EvidenceIntegrityError of a seal or a purge, or an error of the connection, the
\* migration or the queries: nothing catches it below main().
PassFails ==
  /\ ~At("idle")
  /\ Fault
  /\ End(1)
  /\ UNCHANGED <<clock, database>>

\* The process dies; a seal may have created its anchor file and not written it.
Crash ==
  /\ ~At("idle")
  /\ Fault
  /\ \E kind \in CrashKinds :
       torn' = IF /\ kind = "torn" /\ At("run") /\ pass.queue # << >>
                  /\ DueForSeal(Head(pass.queue))
               THEN torn \cup {AnchorId(Head(pass.queue))} ELSE torn
  /\ End(1)
  /\ UNCHANGED <<clock, version, parts, outcomes, segment>>

-----------------------------------------------------------------------------

\* The schedule: a pass starts and ends within Cadence of the start of the last one.
Tick ==
  /\ clock < MaxClock
  /\ clock < pass.began + Cadence
  /\ clock' = clock + 1
  /\ UNCHANGED <<database, pass, faults>>

Quiet == clock = MaxClock /\ UNCHANGED vars

Service == AppendOutcome \/ \E s \in Periods : AppendIntent(s)

Pass ==
  \/ StartPass \/ Migrate \/ (\E t \in Tables : TopUp(t))
  \/ CheckStale \/ FetchSegments \/ Finish
  \/ \E s \in Periods : ConsiderSeal(s) \/ ConsiderPurge(s) \/ SegmentFails(s)
  \/ PassFails \/ Crash

Next == Service \/ Pass \/ Tick \/ Quiet

Spec == Init /\ [][Next]_vars

-----------------------------------------------------------------------------
(* Properties.                                                             *)

(* The partition window stays ahead of the data: while passes keep their schedule,
   the months a pass is about to provision hold no row that already went to the
   default partition, so that topping up never fails (ensure_monthly_partitions).   *)
TopUpFits == \A t \in Tables : At(t) => Conflicts(t) = {}

(* The staleness warning is evidence that the job stopped: passes that keep their
   schedule, some of them failing, never log it (detect_stale_backlog, the oldest
   first batch, and what seals and purges do to the candidate query).               *)
NoFalseAlarm == ~pass.warned

(* A seal is recorded once per segment, and afterwards the segment is only ever
   purged: no record may arrive after it, or it would never be sealed
   (_segment_id_for, RetentionScheduler._consider).                                 *)
SealCoversSegment ==
  \A s \in Periods : segment[s].at # Null => segment[s].sealed = segment[s].records

(* Exit code 0 means that the batch is done: every segment the pass took up and that
   was due at its time has been sealed or purged (run, run_once, main).             *)
CleanExitMeansDone ==
  At("idle") /\ pass.exit = 0 =>
    \A s \in pass.batch : ~DueForSeal(s) /\ (segment[s].at # pass.now => ~DueForPurge(s))

=============================================================================
