----------------------------- MODULE Medallion -----------------------------
(***************************************************************************)
(* The evidence medallion: change events of the evidence tables are read   *)
(* from logical replication slots, landed in Bronze tables and joined into *)
(* the Silver table.                                                       *)
(*                                                                         *)
(* PostgreSQL is modelled from the way the source uses it: a slot delivers *)
(* changes in commit order, every change carries the position of its own   *)
(* insert, reading changes moves the slot, and a server crash may move the *)
(* slot back.  A Delta transaction is atomic.                              *)
(***************************************************************************)
EXTENDS Naturals, FiniteSets, FiniteSetsExt, SequencesExt

CONSTANTS
    Decisions,  \* decisions that leave evidence
    Executed,   \* those of them that come to an outcome
    Mergers,    \* runs of DeltaSilverMerger that may overlap
    BatchSize,  \* changes per poll
    MaxFaults   \* bound: consumer crashes, failed calls, server crashes

ASSUME MedallionAssumption ==
    Executed \subseteq Decisions /\ BatchSize \in Nat \ {0} /\ MaxFaults \in Nat

Streams == {"intent", "outcome"}

VARIABLES
    lsn,         \* the next write position
    open,        \* inserts whose transaction has not committed
    wal,         \* committed changes, in commit order
    slot,        \* per stream: how many changes its slot has passed
    checkpoint,  \* per stream: the last landed position, 0 for none
    consumer,    \* per stream: the events in hand and the stage
    bronze,      \* per stream and decision: rows in the Bronze table
    silver,      \* per decision: "absent", "intent" or "outcome"
    merger,      \* per merger: its stage and the two Bronze snapshots
    faults,
    dropped      \* history: events that a consumer read and did not land

vars == <<lsn, open, wal, slot, checkpoint, consumer, bronze, silver, merger, faults, dropped>>
source == <<lsn, open, wal>>
lake == <<silver, merger>>

Change == [stream : Streams, d : Decisions, lsn : Nat \ {0}]

IdleMerger == [pc |-> "idle", intents |-> {}, outcomes |-> {}]

Init ==
    /\ lsn = 1 /\ open = {} /\ wal = <<>>
    /\ slot = [s \in Streams |-> 0]
    /\ checkpoint = [s \in Streams |-> 0]
    /\ consumer = [s \in Streams |-> [pc |-> "idle", batch |-> <<>>]]
    /\ bronze = [s \in Streams |-> [d \in Decisions |-> 0]]
    /\ silver = [d \in Decisions |-> "absent"]
    /\ merger = [m \in Mergers |-> IdleMerger]
    /\ faults = 0 /\ dropped = {}

(***************************************************************************)
(* The evidence tables.                                                    *)
(***************************************************************************)
Committed(s, d) == \E i \in DOMAIN wal : wal[i].stream = s /\ wal[i].d = d

\* A transaction inserts a row; an outcome follows its committed intent.
Insert(s, d) ==
    /\ ~Committed(s, d) /\ \A e \in open : ~(e.stream = s /\ e.d = d)
    /\ s = "outcome" => d \in Executed /\ Committed("intent", d)
    /\ open' = open \cup {[stream |-> s, d |-> d, lsn |-> lsn]}
    /\ lsn' = lsn + 1
    /\ UNCHANGED <<wal, slot, checkpoint, consumer, bronze, lake, faults, dropped>>

Commit(e) ==
    /\ e \in open
    /\ open' = open \ {e}
    /\ wal' = Append(wal, e)
    /\ UNCHANGED <<lsn, slot, checkpoint, consumer, bronze, lake, faults, dropped>>

(***************************************************************************)
(* The consumer of a stream: poll, land, advance.                          *)
(***************************************************************************)
At(s, pc) == consumer[s].pc = pc

\* pg_logical_slot_get_changes: the next changes, at most batch_size.
Upto(s) == Min({Len(wal), slot[s] + BatchSize})

\* A mutant of Events: the newest change is left for a next time that never comes.
EventsButLast(s) ==
    SelectSeq(SubSeq(wal, slot[s] + 1, Upto(s) - 1),
              LAMBDA e : e.stream = s /\ e.lsn > checkpoint[s])

\* _events_from_rows: inserts into the stream's table beyond the checkpoint.
Events(s) ==
    SelectSeq(SubSeq(wal, slot[s] + 1, Upto(s)),
              LAMBDA e : e.stream = s /\ e.lsn > checkpoint[s])

\* _poll_and_land reads the checkpoint and polls; an empty poll ends the run
\* (and the loop of run_until_drained).
Poll(s) ==
    /\ At(s, "idle") /\ slot[s] < Len(wal)
    /\ slot' = [slot EXCEPT ![s] = Upto(s)]
    /\ consumer' = [consumer EXCEPT ![s] = IF Events(s) = <<>> THEN @
                                           ELSE [pc |-> "land", batch |-> Events(s)]]
    /\ UNCHANGED <<source, checkpoint, bronze, lake, faults, dropped>>

\* Nothing to read: the poll is empty and the run ends.
PollEmpty(s) == At(s, "idle") /\ slot[s] = Len(wal) /\ UNCHANGED vars

Batch(s) == Range(consumer[s].batch)
Lose(events) == dropped' = dropped \cup {[stream |-> e.stream, d |-> e.d] : e \in events}

\* The slot has moved and the reply is lost: DriverUnavailableError.
PollFails(s) ==
    /\ At(s, "idle") /\ slot[s] < Len(wal) /\ faults < MaxFaults
    /\ slot' = [slot EXCEPT ![s] = Upto(s)]
    /\ Lose(Range(Events(s)))
    /\ faults' = faults + 1
    /\ UNCHANGED <<source, checkpoint, consumer, bronze, lake>>

\* append_batch: the first write creates the table, later ones MERGE by decision_id.
Landed(rows, ids) == [d \in Decisions |-> IF d \in ids /\ rows[d] = 0 THEN 1 ELSE rows[d]]

Land(s) ==
    /\ At(s, "land")
    /\ bronze' = [bronze EXCEPT ![s] = Landed(@, {e.d : e \in Batch(s)})]
    /\ consumer' = [consumer EXCEPT ![s].pc = "advance"]
    /\ UNCHANGED <<source, slot, checkpoint, lake, faults, dropped>>

\* append_batch raises and run_once with it.
LandFails(s) ==
    /\ At(s, "land") /\ faults < MaxFaults
    /\ Lose(Batch(s))
    /\ consumer' = [consumer EXCEPT ![s] = [pc |-> "idle", batch |-> <<>>]]
    /\ faults' = faults + 1
    /\ UNCHANGED <<source, slot, checkpoint, bronze, lake>>

LastCheckpoint(s) == Last(consumer[s].batch).lsn

Advance(s) ==
    /\ At(s, "advance")
    /\ checkpoint' = [checkpoint EXCEPT ![s] = LastCheckpoint(s)]
    /\ consumer' = [consumer EXCEPT ![s] = [pc |-> "idle", batch |-> <<>>]]
    /\ UNCHANGED <<source, slot, bronze, lake, faults, dropped>>

\* The consumer stops and starts again; InMemoryCheckpointStore is gone with it.
CrashConsumer(s) ==
    /\ faults < MaxFaults
    /\ Lose(IF At(s, "land") THEN Batch(s) ELSE {})
    /\ consumer' = [consumer EXCEPT ![s] = [pc |-> "idle", batch |-> <<>>]]
    /\ checkpoint' = [checkpoint EXCEPT ![s] = 0]
    /\ faults' = faults + 1
    /\ UNCHANGED <<source, slot, bronze, lake>>

\* The server restarts from an older slot position and delivers changes again.
SlotRewinds(s) ==
    /\ faults < MaxFaults
    /\ \E n \in 0 .. slot[s] : n < slot[s] /\ slot' = [slot EXCEPT ![s] = n]
    /\ faults' = faults + 1
    /\ UNCHANGED <<source, checkpoint, consumer, bronze, lake, dropped>>

(***************************************************************************)
(* Silver.                                                                 *)
(***************************************************************************)
InBronze(s) == {d \in Decisions : bronze[s][d] > 0}

\* merge() reads the intent table, which must exist, ...
ReadIntents(m) ==
    /\ merger[m].pc = "idle" /\ InBronze("intent") # {}
    /\ merger' = [merger EXCEPT ![m] = [pc |-> "outcomes", intents |-> InBronze("intent"),
                                        outcomes |-> {}]]
    /\ UNCHANGED <<source, slot, checkpoint, consumer, bronze, silver, faults, dropped>>

\* ... then the outcome table, ...
ReadOutcomes(m) ==
    /\ merger[m].pc = "outcomes"
    /\ merger' = [merger EXCEPT ![m].pc = "merge", ![m].outcomes = InBronze("outcome")]
    /\ UNCHANGED <<source, slot, checkpoint, consumer, bronze, silver, faults, dropped>>

\* A mutant of Joined: rows that are already in Silver are left as they are.
JoinedOnce(m, d) ==
    IF d \notin merger[m].intents \/ silver[d] # "absent" THEN silver[d]
    ELSE IF d \in merger[m].outcomes THEN "outcome" ELSE "intent"

\* The left outer join; when_matched_update_all overwrites every column.
Joined(m, d) ==
    IF d \notin merger[m].intents THEN silver[d]
    ELSE IF d \in merger[m].outcomes THEN "outcome" ELSE "intent"

\* ... opens the Silver table and merges the join into it.
MergeSilver(m) ==
    /\ merger[m].pc = "merge"
    /\ silver' = [d \in Decisions |-> Joined(m, d)]
    /\ merger' = [merger EXCEPT ![m] = IdleMerger]
    /\ UNCHANGED <<source, slot, checkpoint, consumer, bronze, faults, dropped>>

ConsumerStep(s) == Poll(s) \/ Land(s) \/ Advance(s)
MergerStep(m) == ReadIntents(m) \/ ReadOutcomes(m) \/ MergeSilver(m)

Next ==
    \/ \E s \in Streams, d \in Decisions : Insert(s, d)
    \/ \E e \in open : Commit(e)
    \/ \E s \in Streams : \/ ConsumerStep(s) \/ PollEmpty(s) \/ PollFails(s)
                          \/ LandFails(s) \/ CrashConsumer(s) \/ SlotRewinds(s)
    \/ \E m \in Mergers : MergerStep(m)

Spec == Init /\ [][Next]_vars

\* Consumers and mergers are run again and again.
Fairness ==
    /\ \A s \in Streams : WF_vars(ConsumerStep(s))
    /\ \A m \in Mergers : WF_vars(MergerStep(m))

FairSpec == Spec /\ Fairness

(***************************************************************************)
(* Properties.                                                             *)
(***************************************************************************)
\* Type invariant of the source, the consumers and the tables.
MedallionTypeOK ==
    /\ lsn \in Nat \ {0} /\ open \subseteq Change /\ wal \in Seq(Change)
    /\ slot \in [Streams -> Nat] /\ checkpoint \in [Streams -> Nat]
    /\ consumer \in [Streams -> [pc : {"idle", "land", "advance"}, batch : Seq(Change)]]
    /\ bronze \in [Streams -> [Decisions -> Nat]]
    /\ silver \in [Decisions -> {"absent", "intent", "outcome"}]
    /\ merger \in [Mergers -> [pc : {"idle", "outcomes", "merge"},
                               intents : SUBSET Decisions, outcomes : SUBSET Decisions]]
    /\ faults \in 0 .. MaxFaults
    /\ dropped \subseteq [stream : Streams, d : Decisions]

InHand(s, d) == \E e \in Batch(s) : e.d = d

\* An earlier commit of the stream has a later position.
Overtaken(i) ==
    \E j \in 1 .. i - 1 : wal[j].stream = wal[i].stream /\ wal[j].lsn > wal[i].lsn

\* Every change that a slot has passed is in Bronze or in the consumer's hands,
\* but for two kinds: it was read and lost by a failing poll, a failing write or a
\* crash, or the checkpoint filter dropped it because a change that was inserted
\* later had been committed before it.
EventsAreAccountedFor ==
    \A s \in Streams : \A i \in 1 .. slot[s] :
      wal[i].stream = s =>
        \/ bronze[s][wal[i].d] > 0 \/ InHand(s, wal[i].d)
        \/ [stream |-> s, d |-> wal[i].d] \in dropped
        \/ Overtaken(i)

\* When intent and outcome of a decision are in Bronze, Silver comes to hold the
\* joined row for good, although mergers overlap and write from old snapshots.
SilverConverges ==
    \A d \in Decisions :
      (bronze["intent"][d] > 0 /\ bronze["outcome"][d] > 0) ~> [](silver[d] = "outcome")

\* run_once: "Advancing the checkpoint first, by contrast, would let a crash lose a
\* batch forever": in the order the code keeps, what a slot has passed is in
\* Bronze or still in the consumer's hands.
CrashLosesNothing ==
    \A s \in Streams : \A i \in 1 .. slot[s] :
      wal[i].stream = s => bronze[s][wal[i].d] > 0 \/ InHand(s, wal[i].d)
=============================================================================
