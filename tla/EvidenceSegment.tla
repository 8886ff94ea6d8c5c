--------------------------- MODULE EvidenceSegment ---------------------------
(***************************************************************************)
(* The life of one evidence segment: records are appended to its MAC       *)
(* chain, a prefix is sealed under a write-once anchor, the sealed prefix  *)
(* is purged, and the surviving chain is verified                          *)
(* (postgres/evidence.py, app/sealer.py, app/retention_scheduler.py,       *)
(* adapters/outbound/worm.py, cli/maintenance.py).                         *)
(*                                                                         *)
(* Each SQL transaction and each call of the anchor store is a step, so    *)
(* that retention jobs overlap, operators use the sealer beside them, and  *)
(* any of them may crash or lose a reply between two steps.  The MAC of a  *)
(* record is named by the record's sequence number, which is never reused. *)
(***************************************************************************)
EXTENDS Integers

CONSTANTS
    Jobs,         \* processes that seal and purge
    Operators,    \* those that call SegmentSealer with a range of their own choice
    SealAfter,    \* seal_after_seconds
    PurgeGrace,   \* purge_grace_seconds
    MaxSeq,       \* bound: the last sequence number appended
    MaxClock      \* bound: the last reading of the clock

ASSUME SegmentAssumption ==
    /\ Operators \subseteq Jobs
    /\ SealAfter \in Nat /\ PurgeGrace \in Nat
    /\ MaxSeq \in Nat /\ MaxClock \in Nat

Genesis == -1   \* GENESIS_PREV_HASH; also last_seq of an empty segment

Null == -2      \* a column without a value

Seqs == 0 .. MaxSeq

Times == 0 .. MaxClock

VARIABLES
    lastSeq,       \* evidence_segment.last_seq
    lastHash,      \* evidence_segment.last_hash
    live,          \* sequence numbers of the rows in evidence_intent
    prev,          \* prev_hash of each record
    openedAt,      \* opened_at, Null before the first record
    purgedBefore,  \* purged_before_seq, and first_seq, which moves with it
    sealedLast,    \* retention_sealed_last_seq
    sealedAt,      \* retention_sealed_at
    leafMac,       \* retention_last_leaf_hmac
    anchors,       \* the anchors in write-once storage
    torn,          \* anchor ids whose file was created and not completely written
    clock,
    pc,            \* where each job is
    now,           \* the time its pass began
    before,        \* before_seq
    mine,          \* the anchor it has computed
    seen,          \* what the first query of verify() returned, or Unread
    report,        \* the last verdict of verify()
    resealed       \* history: has a seal been recorded on a segment already purged?

chainVars == <<lastSeq, lastHash, live, prev, openedAt>>

sealVars == <<purgedBefore, sealedLast, sealedAt, leafMac, resealed>>

wormVars == <<anchors, torn>>

jobVars == <<pc, now, before, mine>>

verifyVars == <<seen, report>>

segmentVars == <<chainVars, sealVars, wormVars, clock, jobVars, verifyVars>>

Anchor(f, l, t) == [first |-> f, last |-> l, at |-> t]

Anchors == [first : Seqs, last : Seqs, at : Times]

NoAnchor == [first |-> Null, last |-> Null, at |-> Null]

\* anchor_id: the segment and the range, not the time.
IdOf(a) == <<a.first, a.last>>

Snapshots == [purged : 0 .. MaxSeq + 1, sealed : BOOLEAN, leaf : Seqs \cup {Null}]

Unread == [purged |-> Null]

Labels == {"idle", "pass", "boundary", "seal", "put", "mark", "cover", "purge"}

TablesTypeOK ==
    /\ lastSeq \in Seqs \cup {Genesis} /\ lastHash \in Seqs \cup {Genesis}
    /\ live \subseteq Seqs
    /\ prev \in [Seqs -> Seqs \cup {Genesis, Null}]
    /\ openedAt \in Times \cup {Null}
    /\ purgedBefore \in 0 .. MaxSeq + 1
    /\ sealedLast \in Seqs \cup {Null} /\ sealedAt \in Times \cup {Null}
    /\ leafMac \in Seqs \cup {Null}
    /\ resealed \in BOOLEAN
    /\ anchors \subseteq Anchors
    /\ torn \subseteq Seqs \X Seqs
    /\ clock \in Times

JobsTypeOK ==
    /\ pc \in [Jobs -> Labels]
    /\ now \in [Jobs -> Times]
    /\ before \in [Jobs -> 0 .. MaxSeq + 1]
    /\ mine \in [Jobs -> Anchors \cup {NoAnchor}]

VerifierTypeOK ==
    /\ seen \in Snapshots \cup {Unread}
    /\ report \in {"none", "intact", "sealed_purged", "unverifiable", "broken"}

\* The columns, the anchors, the locals of the jobs and those of verify() keep the
\* types the schema and the code give them.
SegmentTypeOK == TablesTypeOK /\ JobsTypeOK /\ VerifierTypeOK

SegmentInit ==
    /\ lastSeq = Genesis /\ lastHash = Genesis
    /\ live = {} /\ prev = [s \in Seqs |-> Null] /\ openedAt = Null
    /\ purgedBefore = 0 /\ sealedLast = Null /\ sealedAt = Null /\ leafMac = Null
    /\ resealed = FALSE
    /\ anchors = {} /\ torn = {} /\ clock = 0
    /\ pc = [j \in Jobs |-> "idle"]
    /\ now = [j \in Jobs |-> 0]
    /\ before = [j \in Jobs |-> 0]
    /\ mine = [j \in Jobs |-> NoAnchor]
    /\ seen = Unread /\ report = "none"

-----------------------------------------------------------------------------
(* append_intent: the segment row is locked, so the append is one step.    *)
(* Only the other, exclusive retention path closes a segment to appends.   *)

\* Mutant: the chain head is taken from the rows, as the in-memory store does.
AppendToRows ==
    /\ lastSeq < MaxSeq
    /\ lastSeq' = lastSeq + 1
    /\ lastHash' = lastSeq + 1
    /\ live' = live \cup {lastSeq + 1}
    /\ prev' = [prev EXCEPT ![lastSeq + 1] = IF live = {} THEN Genesis ELSE lastHash]
    /\ openedAt' = IF openedAt = Null THEN clock ELSE openedAt
    /\ UNCHANGED <<sealVars, wormVars, clock, jobVars, verifyVars>>

AppendIntent ==
    /\ lastSeq < MaxSeq
    /\ lastSeq' = lastSeq + 1
    /\ lastHash' = lastSeq + 1
    /\ live' = live \cup {lastSeq + 1}
    /\ prev' = [prev EXCEPT ![lastSeq + 1] = lastHash]
    /\ openedAt' = IF openedAt = Null THEN clock ELSE openedAt
    /\ UNCHANGED <<sealVars, wormVars, clock, jobVars, verifyVars>>

-----------------------------------------------------------------------------
(* The scheduler's choice for this segment, and an operator's.             *)

Goto(j, l) == pc' = [pc EXCEPT ![j] = l]

\* The call is over, and its locals with it.
Return(j) ==
    /\ Goto(j, "idle")
    /\ now' = [now EXCEPT ![j] = 0]
    /\ before' = [before EXCEPT ![j] = 0]
    /\ mine' = [mine EXCEPT ![j] = NoAnchor]

\* run_once: the time of the pass is read once, before the segments are considered.
RunOnce(j) ==
    /\ j \notin Operators
    /\ pc[j] = "idle"
    /\ openedAt # Null
    /\ now' = [now EXCEPT ![j] = clock]
    /\ Goto(j, "pass")
    /\ UNCHANGED <<chainVars, sealVars, wormVars, clock, before, mine, verifyVars>>

\* _consider: an unsealed segment that is old enough is to be sealed.
ConsiderSeal(j) ==
    /\ pc[j] = "pass"
    /\ sealedAt = Null
    /\ now[j] - openedAt >= SealAfter
    /\ Goto(j, "boundary")
    /\ UNCHANGED <<chainVars, sealVars, wormVars, clock, now, before, mine, verifyVars>>

\* _maybe_seal: everything that is in the segment now.
ReadBoundary(j) ==
    /\ pc[j] = "boundary"
    /\ \/ /\ live = {}
          /\ Return(j)
       \/ \E l \in live :
             /\ \A s \in live : s <= l
             /\ before' = [before EXCEPT ![j] = l + 1]
             /\ Goto(j, "seal")
             /\ UNCHANGED <<now, mine>>
    /\ UNCHANGED <<chainVars, sealVars, wormVars, clock, verifyVars>>

\* Mutant: the grace period is not waited for.
ConsiderPurgeAtOnce(j) ==
    /\ pc[j] = "pass"
    /\ sealedAt # Null
    /\ purgedBefore < sealedLast + 1
    /\ before' = [before EXCEPT ![j] = sealedLast + 1]
    /\ Goto(j, "cover")
    /\ UNCHANGED <<chainVars, sealVars, wormVars, clock, now, mine, verifyVars>>

\* _consider and _maybe_purge: a sealed prefix whose grace has passed, not purged.
ConsiderPurge(j) ==
    /\ pc[j] = "pass"
    /\ sealedAt # Null
    /\ now[j] - sealedAt >= PurgeGrace
    /\ purgedBefore < sealedLast + 1
    /\ before' = [before EXCEPT ![j] = sealedLast + 1]
    /\ Goto(j, "cover")
    /\ UNCHANGED <<chainVars, sealVars, wormVars, clock, now, mine, verifyVars>>

\* A caller of SegmentSealer.seal or SegmentSealer.purge; seal_and_purge is one
\* call after the other.
CallSealer(j, b) ==
    /\ j \in Operators
    /\ pc[j] = "idle"
    /\ openedAt # Null
    /\ now' = [now EXCEPT ![j] = clock]
    /\ before' = [before EXCEPT ![j] = b]
    /\ Goto(j, "seal") \/ Goto(j, "cover")
    /\ UNCHANGED <<chainVars, sealVars, wormVars, clock, mine, verifyVars>>

-----------------------------------------------------------------------------
(* SegmentSealer.seal.                                                     *)

\* segment_leaves, the contiguity check, the signature.
ReadLeaves(j) ==
    LET leaves == {s \in live : s < before[j]} IN
    /\ pc[j] = "seal"
    /\ \E f, l \in leaves :
          /\ \A s \in leaves : f <= s /\ s <= l
          /\ leaves = f .. l
          /\ mine' = [mine EXCEPT ![j] = Anchor(f, l, now[j])]
    /\ Goto(j, "put")
    /\ UNCHANGED <<chainVars, sealVars, wormVars, clock, now, before, verifyVars>>

\* WormAnchorStore.put: creates the anchor, or finds the identical one.
Store(a) ==
    /\ IdOf(a) \notin torn
    /\ \A b \in anchors : IdOf(b) = IdOf(a) => b = a
    /\ anchors' = anchors \cup {a}
    /\ UNCHANGED torn

Put(j) ==
    /\ pc[j] = "put"
    /\ Store(mine[j])
    /\ Goto(j, "mark")
    /\ UNCHANGED <<chainVars, sealVars, clock, now, before, mine, verifyVars>>

\* The error or the crash that hides a stored anchor, or leaves a torn file.
PutFails(j) ==
    /\ pc[j] = "put"
    /\ \/ Store(mine[j])
       \/ /\ \A b \in anchors : IdOf(b) # IdOf(mine[j])
          /\ torn' = torn \cup {IdOf(mine[j])}
          /\ UNCHANGED anchors
    /\ Return(j)
    /\ UNCHANGED <<chainVars, sealVars, clock, verifyVars>>

\* mark_sealed: one UPDATE, with a subquery for the last leaf's MAC; its reply
\* may be lost.
MarkSealed(j) ==
    /\ pc[j] = "mark"
    /\ sealedLast' = mine[j].last
    /\ sealedAt' = mine[j].at
    /\ leafMac' = IF mine[j].last \in live THEN mine[j].last ELSE Null
    /\ resealed' = (resealed \/ purgedBefore > 0)
    /\ Return(j)
    /\ UNCHANGED <<chainVars, purgedBefore, wormVars, clock, verifyVars>>

-----------------------------------------------------------------------------
(* SegmentSealer.purge.                                                    *)

\* covering_anchor: list_for_segment fails on a torn file.
FindAnchor(j) ==
    /\ pc[j] = "cover"
    /\ torn = {}
    /\ \E a \in anchors : a.last = before[j] - 1
    /\ Goto(j, "purge")
    /\ UNCHANGED <<chainVars, sealVars, wormVars, clock, now, before, mine, verifyVars>>

\* Mutant: the DELETE takes the boundary record too.
PurgeThrough(j) ==
    /\ pc[j] = "purge"
    /\ sealedLast = before[j] - 1
    /\ live' = {s \in live : s > before[j]}
    /\ purgedBefore' = before[j]
    /\ Return(j)
    /\ UNCHANGED <<lastSeq, lastHash, prev, openedAt, sealedLast, sealedAt, leafMac, resealed,
                   wormVars, clock, verifyVars>>

\* purge_before: one transaction, which checks the recorded seal again.
PurgeBefore(j) ==
    /\ pc[j] = "purge"
    /\ sealedLast = before[j] - 1
    /\ live' = {s \in live : s >= before[j]}
    /\ purgedBefore' = before[j]
    /\ Return(j)
    /\ UNCHANGED <<lastSeq, lastHash, prev, openedAt, sealedLast, sealedAt, leafMac, resealed,
                   wormVars, clock, verifyVars>>

\* The pass has nothing to do, a step of seal() or purge() raises and changes
\* nothing, or the process dies.
GiveUp(j) ==
    /\ pc[j] # "idle"
    /\ Return(j)
    /\ UNCHANGED <<chainVars, sealVars, wormVars, clock, verifyVars>>

-----------------------------------------------------------------------------
(* verify(): two queries of one transaction, each with a snapshot of its   *)
(* own (READ COMMITTED, the server's default; the driver sets no other).   *)

\* The rows in order are p, p + 1, ..., each linked to the one before it, the first
\* to GENESIS or to the sealed anchor, if there is one.
ChainHolds(p, leaf) ==
    /\ live # {} => p \in live
    /\ \A s \in live :
          \/ s = p /\ (IF p = 0 THEN prev[s] = Genesis ELSE leaf \in {Null, prev[s]})
          \/ s > p /\ s - 1 \in live /\ prev[s] = s - 1

\* _verify_rows.
Verdict(p, sealed, leaf) ==
    IF ~ChainHolds(p, leaf) THEN "broken"
    ELSE IF p = 0           THEN "intact"
    ELSE IF sealed          THEN "sealed_purged"
    ELSE                         "unverifiable"

VerifyState ==
    /\ openedAt # Null
    /\ seen' = [purged |-> purgedBefore, sealed |-> sealedLast # Null, leaf |-> leafMac]
    /\ report' = "none"
    /\ UNCHANGED <<chainVars, sealVars, wormVars, clock, jobVars>>

\* The walk may meet a row whose signing key is unavailable.
VerifyChain ==
    /\ seen # Unread
    /\ \/ report' = Verdict(seen.purged, seen.sealed, seen.leaf)
       \/ seen.purged \in live /\ report' = "unverifiable"
    /\ seen' = Unread
    /\ UNCHANGED <<chainVars, sealVars, wormVars, clock, jobVars>>

Tick ==
    /\ clock < MaxClock
    /\ clock' = clock + 1
    /\ UNCHANGED <<chainVars, sealVars, wormVars, jobVars, verifyVars>>

JobStep(j) ==
    \/ RunOnce(j) \/ ConsiderSeal(j) \/ ReadBoundary(j) \/ ConsiderPurge(j)
    \/ \E b \in 1 .. MaxSeq + 1 : CallSealer(j, b)
    \/ ReadLeaves(j) \/ Put(j) \/ PutFails(j) \/ MarkSealed(j)
    \/ FindAnchor(j) \/ PurgeBefore(j) \/ GiveUp(j)

SegmentNext ==
    \/ AppendIntent
    \/ \E j \in Jobs : JobStep(j)
    \/ VerifyState \/ VerifyChain
    \/ Tick

SegmentSpec == SegmentInit /\ [][SegmentNext]_segmentVars

-----------------------------------------------------------------------------
(* Properties.                                                             *)

Covers(a, s) == a.first <= s /\ s <= a.last

\* Retention never destroys a record without an attestation: every record once
\* appended is still a row, or lies in the range of a complete anchor in
\* write-once storage, whatever the jobs overlap with and wherever they stop.
PurgedIsAnchored ==
    \A s \in 0 .. lastSeq : s \in live \/ \E a \in anchors : Covers(a, s)

\* What verify() would find in the tables is INTACT or SEALED_PURGED, as long as no
\* seal was recorded on a segment that had been purged before: sealing and purging
\* once, with appends and overlapping jobs, never looks like tampering.
PurgeIsNotTampering ==
    \/ resealed
    \/ Verdict(purgedBefore, sealedLast # Null, leafMac) \in {"intact", "sealed_purged"}

\* Stored anchors are neither lost nor replaced, and a range has one anchor.
AnchorsAreWriteOnce ==
    [][/\ anchors \subseteq anchors'
       /\ \A a, b \in anchors' : IdOf(a) = IdOf(b) => a = b]_segmentVars

\* The scheduler deletes no record before an anchor that covers it has been there
\* for purge_grace_seconds, even when others seal again while it is at work.
GraceIsKept ==
    [][\A s \in live \ live' :
          \/ \E j \in Operators : pc[j] = "purge" /\ pc'[j] = "idle"
          \/ \E a \in anchors : Covers(a, s) /\ clock - a.at >= PurgeGrace]_segmentVars

\* The rows are the end of the chain as it was appended.
ChainInv ==
    /\ lastHash = lastSeq
    /\ \A s \in 0 .. lastSeq : prev[s] = s - 1
    /\ \A s \in live : s <= lastSeq /\ s .. lastSeq \subseteq live

\* When its leaves were read everything below its range was gone, and still is.
ReachesDown(a) ==
    /\ a.first <= a.last /\ a.last <= lastSeq /\ a.at <= clock
    /\ \A s \in live : a.first <= s

AnchorInv ==
    /\ \A a \in anchors : ReachesDown(a) /\ IdOf(a) \notin torn
    /\ \A a, b \in anchors : IdOf(a) = IdOf(b) => a = b

\* What the segment row says of its seal is what some stored anchor says.
SealInv ==
    /\ sealedLast = Null <=> sealedAt = Null
    /\ sealedLast # Null => \E a \in anchors : a.last = sealedLast /\ a.at = sealedAt
    /\ leafMac \in {Null, sealedLast}

LocalInv(j) ==
    /\ now[j] <= clock
    /\ pc[j] \in {"put", "mark"} => mine[j] \in Anchors /\ ReachesDown(mine[j])
    /\ pc[j] = "mark" => mine[j] \in anchors
    /\ pc[j] \in {"cover", "purge"} /\ j \notin Operators =>
          \E a \in anchors : a.last = before[j] - 1 /\ now[j] - a.at >= PurgeGrace

\* A job about to store, record or purge has seen what entitles it to.
JobInv == \A j \in Jobs : LocalInv(j)

\* Until a purged segment is sealed again, the marker is where the rows begin, and
\* the seal is the one the marker was set under.
PurgeInv ==
    \/ resealed
    \/ /\ live = purgedBefore .. lastSeq /\ purgedBefore <= lastSeq + 1
       /\ purgedBefore > 0 => sealedLast = purgedBefore - 1

\* The inductive invariant of the segment: the chain of surviving rows, the stored
\* anchors, the recorded seal and the jobs under way agree with one another at every
\* step of appending, sealing and purging.
SegmentInv ==
    ChainInv /\ AnchorInv /\ SealInv /\ JobInv /\ PurgeInv /\ PurgedIsAnchored

\* Violated.  "A segment whose records were lawfully purged after sealing must
\* report SEALED_PURGED, not BROKEN" (ports/evidence.py).
LawfulPurgeIsNotBroken == report # "broken"

\* Violated.  "re-sealing the same prefix recomputes the same root and re-stores the
\* identical anchor, which write-once storage accepts" (app/sealer.py).
ResealIsAccepted ==
    \A j \in Jobs : pc[j] = "put" =>
        \A b \in anchors : IdOf(b) = IdOf(mine[j]) => b = mine[j]
=============================================================================
