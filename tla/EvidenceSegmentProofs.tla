------------------------ MODULE EvidenceSegmentProofs ------------------------
(***************************************************************************)
(* Proofs that retention destroys nothing without an attestation, that it  *)
(* never looks like tampering until a purged segment is sealed again, that *)
(* anchors are write-once and that the grace period is kept, for every     *)
(* number of jobs, operators, records and clock readings.                  *)
(***************************************************************************)
EXTENDS EvidenceSegment, TLAPS

USE SegmentAssumption

(* The tables and the anchors change in four ways only, besides appending. *)

ChainAlone == UNCHANGED <<lastSeq, lastHash, live, prev, openedAt>>

SealAlone == UNCHANGED <<purgedBefore, sealedLast, sealedAt, leafMac, resealed>>

Stores(a) ==
    /\ ReachesDown(a)
    /\ \/ Store(a)
       \/ /\ \A b \in anchors : IdOf(b) # IdOf(a)
          /\ torn' = torn \cup {IdOf(a)}
          /\ anchors' = anchors
    /\ ChainAlone /\ SealAlone /\ clock' = clock

Records(a) ==
    /\ sealedLast' = a.last /\ sealedAt' = a.at
    /\ leafMac' = IF a.last \in live THEN a.last ELSE Null
    /\ resealed' = (resealed \/ purgedBefore > 0)
    /\ ChainAlone
    /\ UNCHANGED <<purgedBefore, anchors, torn, clock>>

Purges(b) ==
    /\ sealedLast = b - 1
    /\ live' = {s \in live : s >= b}
    /\ purgedBefore' = b
    /\ UNCHANGED <<lastSeq, lastHash, prev, openedAt, sealedLast, sealedAt, leafMac, resealed,
                   anchors, torn, clock>>

Quiet ==
    /\ ChainAlone /\ SealAlone
    /\ UNCHANGED <<anchors, torn>>
    /\ clock' = clock \/ (clock < MaxClock /\ clock' = clock + 1)

\* Every step appends, stores an anchor, records a stored one, purges, or is quiet.
LEMMA StepKinds ==
    ASSUME TablesTypeOK, JobsTypeOK, JobInv, [SegmentNext]_segmentVars
    PROVE  \/ AppendIntent
           \/ \E a \in Anchors : Stores(a)
           \/ \E a \in anchors : Records(a)
           \/ \E b \in 1 .. MaxSeq + 1 : Purges(b)
           \/ Quiet
<1> USE DEF chainVars, sealVars, wormVars, ChainAlone, SealAlone
<1>1. ASSUME NEW j \in Jobs, RunOnce(j) PROVE Quiet
  BY <1>1 DEF RunOnce, Quiet
<1>2. ASSUME NEW j \in Jobs, ConsiderSeal(j) PROVE Quiet
  BY <1>2 DEF ConsiderSeal, Quiet
<1>3. ASSUME NEW j \in Jobs, ReadBoundary(j) PROVE Quiet
  BY <1>3 DEF ReadBoundary, Quiet
<1>4. ASSUME NEW j \in Jobs, ConsiderPurge(j) PROVE Quiet
  BY <1>4 DEF ConsiderPurge, Quiet
<1>5. ASSUME NEW j \in Jobs, \E b \in 1 .. MaxSeq + 1 : CallSealer(j, b) PROVE Quiet
  BY <1>5 DEF CallSealer, Quiet
<1>6. ASSUME NEW j \in Jobs, ReadLeaves(j) PROVE Quiet
  BY <1>6 DEF ReadLeaves, Quiet
<1>7. ASSUME NEW j \in Jobs, FindAnchor(j) PROVE Quiet
  BY <1>7 DEF FindAnchor, Quiet
<1>8. ASSUME NEW j \in Jobs, GiveUp(j) PROVE Quiet
  BY <1>8 DEF GiveUp, Quiet
<1>9. ASSUME NEW j \in Jobs, Put(j) \/ PutFails(j) PROVE \E a \in Anchors : Stores(a)
  <2>1. mine[j] \in Anchors /\ ReachesDown(mine[j])
    BY <1>9 DEF JobInv, LocalInv, Put, PutFails
  <2>2. Stores(mine[j])
    BY <1>9, <2>1 DEF Stores, Put, PutFails
  <2> QED
    BY <2>1, <2>2
<1>10. ASSUME NEW j \in Jobs, MarkSealed(j) PROVE \E a \in anchors : Records(a)
  <2>1. mine[j] \in anchors
    BY <1>10 DEF JobInv, LocalInv, MarkSealed
  <2>2. Records(mine[j])
    BY <1>10 DEF Records, MarkSealed
  <2> QED
    BY <2>1, <2>2
<1>11. ASSUME NEW j \in Jobs, PurgeBefore(j) PROVE \E b \in 1 .. MaxSeq + 1 : Purges(b)
  <2>1. before[j] \in 1 .. MaxSeq + 1
    BY <1>11 DEF PurgeBefore, JobsTypeOK, TablesTypeOK, Seqs, Null
  <2>2. Purges(before[j])
    BY <1>11 DEF Purges, PurgeBefore
  <2> QED
    BY <2>1, <2>2
<1>12. CASE VerifyState
  BY <1>12 DEF VerifyState, Quiet
<1>13. CASE VerifyChain
  BY <1>13 DEF VerifyChain, Quiet
<1>14. CASE Tick
  BY <1>14 DEF Tick, Quiet
<1>15. CASE UNCHANGED segmentVars
  BY <1>15 DEF segmentVars, Quiet
<1> HIDE DEF chainVars, sealVars, wormVars, ChainAlone, SealAlone
<1> QED
  BY <1>1, <1>2, <1>3, <1>4, <1>5, <1>6, <1>7, <1>8, <1>9, <1>10, <1>11, <1>12, <1>13, <1>14,
     <1>15 DEF SegmentNext, JobStep

\* Nothing the jobs have seen is taken back: anchors stay, rows come only at the end.
Onward ==
    /\ anchors \subseteq anchors'
    /\ lastSeq' \in Int /\ lastSeq <= lastSeq' /\ clock' \in Int /\ clock <= clock'
    /\ \A s \in live' : s \in live \/ s > lastSeq
    /\ live' \subseteq Int

\* Every step goes onward.
LEMMA Monotone ==
    ASSUME TablesTypeOK, JobsTypeOK, JobInv, [SegmentNext]_segmentVars
    PROVE  Onward
<1>1. CASE AppendIntent
  BY <1>1 DEF AppendIntent, sealVars, wormVars, Onward, Times, TablesTypeOK, Seqs, Genesis, Null
<1>2. ASSUME NEW a \in Anchors, Stores(a) PROVE Onward
  BY <1>2 DEF Stores, Store, ChainAlone, SealAlone, Onward, Times, TablesTypeOK, Seqs, Genesis,
     Null
<1>3. ASSUME NEW a \in anchors, Records(a) PROVE Onward
  BY <1>3 DEF Records, ChainAlone, Onward, Times, TablesTypeOK, Seqs, Genesis, Null
<1>4. ASSUME NEW b \in 1 .. MaxSeq + 1, Purges(b) PROVE Onward
  <2>1. /\ live' \subseteq live /\ purgedBefore' = b
        /\ UNCHANGED <<lastSeq, lastHash, prev, openedAt, sealedLast, sealedAt, leafMac, resealed,
                       anchors, torn, clock>>
    BY <1>4 DEF Purges
  <2>2. b \in 0 .. MaxSeq + 1
    BY <1>4
  <2> QED
    BY <2>1 DEF Onward, TablesTypeOK, Times, Seqs, Genesis
<1>5. CASE Quiet
  BY <1>5 DEF Quiet, ChainAlone, SealAlone, Onward, Times, TablesTypeOK, Seqs, Genesis, Null
<1> QED
  BY <1>1, <1>2, <1>3, <1>4, <1>5, StepKinds

\* Appending extends the chain, purging removes a prefix of it.
LEMMA ChainStep ==
    ASSUME TablesTypeOK, JobsTypeOK, JobInv, ChainInv, [SegmentNext]_segmentVars
    PROVE  ChainInv'
<1>1. CASE AppendIntent
  BY <1>1 DEF AppendIntent, sealVars, wormVars, ChainInv, TablesTypeOK, Seqs, Genesis, Null
<1>2. ASSUME NEW a \in Anchors, Stores(a) PROVE ChainInv'
  BY <1>2 DEF Stores, Store, ChainAlone, SealAlone, ChainInv, TablesTypeOK, Seqs, Genesis, Null
<1>3. ASSUME NEW a \in anchors, Records(a) PROVE ChainInv'
  BY <1>3 DEF Records, ChainAlone, ChainInv, TablesTypeOK, Seqs, Genesis, Null
<1>4. ASSUME NEW b \in 1 .. MaxSeq + 1, Purges(b) PROVE ChainInv'
  BY <1>4 DEF Purges, ChainInv, TablesTypeOK, Seqs, Genesis, Null
<1>5. CASE Quiet
  BY <1>5 DEF Quiet, ChainAlone, SealAlone, ChainInv, TablesTypeOK, Seqs, Genesis, Null
<1> QED
  BY <1>1, <1>2, <1>3, <1>4, <1>5, StepKinds

\* The recorded seal is that of an anchor stored before it.
LEMMA SealStep ==
    ASSUME TablesTypeOK, JobsTypeOK, JobInv, SealInv, [SegmentNext]_segmentVars
    PROVE  SealInv'
<1>1. CASE AppendIntent
  BY <1>1 DEF AppendIntent, sealVars, wormVars, SealInv, Times, Anchors, TablesTypeOK, Seqs,
     Genesis, Null
<1>2. ASSUME NEW a \in Anchors, Stores(a) PROVE SealInv'
  BY <1>2 DEF Stores, Store, ChainAlone, SealAlone, SealInv, Times, Anchors, TablesTypeOK, Seqs,
     Genesis, Null
<1>3. ASSUME NEW a \in anchors, Records(a) PROVE SealInv'
  BY <1>3 DEF Records, ChainAlone, SealInv, Times, Anchors, TablesTypeOK, Seqs, Genesis, Null
<1>4. ASSUME NEW b \in 1 .. MaxSeq + 1, Purges(b) PROVE SealInv'
  BY <1>4 DEF Purges, SealInv, Times, Anchors, TablesTypeOK, Seqs, Genesis, Null
<1>5. CASE Quiet
  BY <1>5 DEF Quiet, ChainAlone, SealAlone, SealInv, Times, Anchors, TablesTypeOK, Seqs,
     Genesis, Null
<1> QED
  BY <1>1, <1>2, <1>3, <1>4, <1>5, StepKinds

\* What a purge deletes lies in the range of the anchor it was sealed under.
LEMMA PurgedStep ==
    ASSUME TablesTypeOK, JobsTypeOK, JobInv, AnchorInv, SealInv, PurgedIsAnchored,
           [SegmentNext]_segmentVars
    PROVE  PurgedIsAnchored'
<1>1. CASE AppendIntent
  BY <1>1 DEF AppendIntent, sealVars, wormVars, PurgedIsAnchored, Covers, AnchorInv,
     ReachesDown, SealInv, Anchors, TablesTypeOK, Seqs, Genesis, Null
<1>2. ASSUME NEW a \in Anchors, Stores(a) PROVE PurgedIsAnchored'
  BY <1>2 DEF Stores, Store, ChainAlone, SealAlone, PurgedIsAnchored, Covers, AnchorInv,
     ReachesDown, SealInv, Anchors, TablesTypeOK, Seqs, Genesis, Null
<1>3. ASSUME NEW a \in anchors, Records(a) PROVE PurgedIsAnchored'
  BY <1>3 DEF Records, ChainAlone, PurgedIsAnchored, Covers, AnchorInv, ReachesDown, SealInv,
     Anchors, TablesTypeOK, Seqs, Genesis, Null
<1>4. ASSUME NEW b \in 1 .. MaxSeq + 1, Purges(b) PROVE PurgedIsAnchored'
  BY <1>4 DEF Purges, PurgedIsAnchored, Covers, AnchorInv, ReachesDown, SealInv, Anchors,
     TablesTypeOK, Seqs, Genesis, Null
<1>5. CASE Quiet
  BY <1>5 DEF Quiet, ChainAlone, SealAlone, PurgedIsAnchored, Covers, AnchorInv, ReachesDown,
     SealInv, Anchors, TablesTypeOK, Seqs, Genesis, Null
<1> QED
  BY <1>1, <1>2, <1>3, <1>4, <1>5, StepKinds

\* The marker and the rows move together.
LEMMA PurgeStep ==
    ASSUME TablesTypeOK, JobsTypeOK, JobInv, ChainInv, AnchorInv, SealInv, PurgeInv,
           [SegmentNext]_segmentVars
    PROVE  PurgeInv'
<1>1. CASE AppendIntent
  BY <1>1 DEF AppendIntent, sealVars, wormVars, PurgeInv, AnchorInv, ReachesDown, SealInv,
     Anchors, TablesTypeOK, Seqs, Genesis, Null
<1>2. ASSUME NEW a \in Anchors, Stores(a) PROVE PurgeInv'
  BY <1>2 DEF Stores, Store, ChainAlone, SealAlone, PurgeInv, AnchorInv, ReachesDown, SealInv,
     Anchors, TablesTypeOK, Seqs, Genesis, Null
<1>3. ASSUME NEW a \in anchors, Records(a) PROVE PurgeInv'
  BY <1>3 DEF Records, ChainAlone, PurgeInv, AnchorInv, ReachesDown, SealInv, Anchors,
     TablesTypeOK, Seqs, Genesis, Null
<1>4. ASSUME NEW b \in 1 .. MaxSeq + 1, Purges(b) PROVE PurgeInv'
  BY <1>4 DEF Purges, PurgeInv, AnchorInv, ReachesDown, SealInv, Anchors, TablesTypeOK, Seqs,
     Genesis, Null
<1>5. CASE Quiet
  BY <1>5 DEF Quiet, ChainAlone, SealAlone, PurgeInv, AnchorInv, ReachesDown, SealInv, Anchors,
     TablesTypeOK, Seqs, Genesis, Null
<1> QED
  BY <1>1, <1>2, <1>3, <1>4, <1>5, StepKinds

\* No row ever appears below the range of a stored anchor.
LEMMA AnchorStep ==
    ASSUME TablesTypeOK, JobsTypeOK, JobInv, AnchorInv, [SegmentNext]_segmentVars
    PROVE  AnchorInv'
<1>1. CASE AppendIntent
  BY <1>1 DEF AppendIntent, sealVars, wormVars, AnchorInv, ReachesDown, IdOf, Times, Anchors,
     TablesTypeOK, Seqs, Genesis, Null
<1>2. ASSUME NEW a \in Anchors, Stores(a) PROVE AnchorInv'
  BY <1>2 DEF Stores, Store, ChainAlone, SealAlone, AnchorInv, ReachesDown, IdOf, Times,
     Anchors, TablesTypeOK, Seqs, Genesis, Null
<1>3. ASSUME NEW a \in anchors, Records(a) PROVE AnchorInv'
  BY <1>3 DEF Records, ChainAlone, AnchorInv, ReachesDown, IdOf, Times, Anchors, TablesTypeOK,
     Seqs, Genesis, Null
<1>4. ASSUME NEW b \in 1 .. MaxSeq + 1, Purges(b) PROVE AnchorInv'
  BY <1>4 DEF Purges, AnchorInv, ReachesDown, IdOf, Times, Anchors, TablesTypeOK, Seqs, Genesis,
     Null
<1>5. CASE Quiet
  BY <1>5 DEF Quiet, ChainAlone, SealAlone, AnchorInv, ReachesDown, IdOf, Times, Anchors,
     TablesTypeOK, Seqs, Genesis, Null
<1> QED
  BY <1>1, <1>2, <1>3, <1>4, <1>5, StepKinds

\* Every column keeps its type.
LEMMA TablesTypeStep ==
    ASSUME TablesTypeOK, JobsTypeOK, JobInv, [SegmentNext]_segmentVars
    PROVE  TablesTypeOK'
<1>1. CASE AppendIntent
  BY <1>1 DEF AppendIntent, sealVars, wormVars, IdOf, Times, Anchors, TablesTypeOK, Seqs,
     Genesis, Null
<1>2. ASSUME NEW a \in Anchors, Stores(a) PROVE TablesTypeOK'
  BY <1>2 DEF Stores, Store, ChainAlone, SealAlone, IdOf, Times, Anchors, TablesTypeOK, Seqs,
     Genesis, Null
<1>3. ASSUME NEW a \in anchors, Records(a) PROVE TablesTypeOK'
  BY <1>3 DEF Records, ChainAlone, IdOf, Times, Anchors, TablesTypeOK, Seqs, Genesis, Null
<1>4. ASSUME NEW b \in 1 .. MaxSeq + 1, Purges(b) PROVE TablesTypeOK'
  <2>1. /\ live' \subseteq live /\ purgedBefore' = b
        /\ UNCHANGED <<lastSeq, lastHash, prev, openedAt, sealedLast, sealedAt, leafMac, resealed,
                       anchors, torn, clock>>
    BY <1>4 DEF Purges
  <2>2. b \in 0 .. MaxSeq + 1
    BY <1>4
  <2> QED
    BY <2>1, <2>2 DEF TablesTypeOK
<1>5. CASE Quiet
  BY <1>5 DEF Quiet, ChainAlone, SealAlone, IdOf, Times, Anchors, TablesTypeOK, Seqs, Genesis,
     Null
<1> QED
  BY <1>1, <1>2, <1>3, <1>4, <1>5, StepKinds

\* A job's step leaves the locals of the others alone.
LEMMA OthersAlone ==
    ASSUME JobsTypeOK, NEW j \in Jobs, JobStep(j), NEW i \in Jobs, i # j
    PROVE  pc'[i] = pc[i] /\ now'[i] = now[i] /\ before'[i] = before[i] /\ mine'[i] = mine[i]
<1>1. CASE RunOnce(j)
  BY <1>1 DEF RunOnce, Goto, JobsTypeOK, jobVars
<1>2. CASE ConsiderSeal(j)
  BY <1>2 DEF ConsiderSeal, Goto, JobsTypeOK, jobVars
<1>3. CASE ReadBoundary(j)
  BY <1>3 DEF ReadBoundary, Goto, Return, JobsTypeOK, jobVars
<1>4. CASE ConsiderPurge(j)
  BY <1>4 DEF ConsiderPurge, Goto, JobsTypeOK, jobVars
<1>5. CASE \E b \in 1 .. MaxSeq + 1 : CallSealer(j, b)
  BY <1>5 DEF CallSealer, Goto, JobsTypeOK, jobVars
<1>6. CASE ReadLeaves(j)
  BY <1>6 DEF ReadLeaves, Goto, Anchor, JobsTypeOK, jobVars
<1>7. CASE Put(j)
  BY <1>7 DEF Put, Store, Goto, JobsTypeOK, jobVars
<1>8. CASE PutFails(j)
  BY <1>8 DEF PutFails, Store, Return, Goto, JobsTypeOK, jobVars
<1>9. CASE MarkSealed(j)
  BY <1>9 DEF MarkSealed, Return, Goto, JobsTypeOK, jobVars
<1>10. CASE FindAnchor(j)
  BY <1>10 DEF FindAnchor, Goto, JobsTypeOK, jobVars
<1>11. CASE PurgeBefore(j)
  BY <1>11 DEF PurgeBefore, Return, Goto, JobsTypeOK, jobVars
<1>12. CASE GiveUp(j)
  BY <1>12 DEF GiveUp, Return, Goto, JobsTypeOK, jobVars
<1> QED
  BY <1>1, <1>2, <1>3, <1>4, <1>5, <1>6, <1>7, <1>8, <1>9, <1>10, <1>11, <1>12 DEF JobStep

\* What a job has seen stays true while it does nothing.
LEMMA LocalStable ==
    ASSUME TablesTypeOK, JobsTypeOK, Onward, NEW i \in Jobs, LocalInv(i),
           pc'[i] = pc[i], now'[i] = now[i], before'[i] = before[i], mine'[i] = mine[i]
    PROVE  LocalInv(i)'
<1>1. now[i] \in Int /\ clock \in Int /\ lastSeq \in Int
  BY DEF TablesTypeOK, JobsTypeOK, Times, Seqs, Genesis
<1>2. pc[i] \in {"put", "mark"} => mine[i] \in Anchors /\ ReachesDown(mine[i])'
  BY <1>1 DEF Onward, LocalInv, ReachesDown, Anchors, Seqs, Times
<1> QED
  BY <1>1, <1>2 DEF Onward, LocalInv

\* The step of a job gives it what its next step relies on.
LEMMA LocalStep ==
    ASSUME TablesTypeOK, JobsTypeOK, ChainInv, SealInv, NEW j \in Jobs, LocalInv(j), JobStep(j)
    PROVE  LocalInv(j)'
<1>0. now[j] \in Times /\ clock \in Times
  BY DEF JobsTypeOK, TablesTypeOK
<1>1. CASE RunOnce(j)
  BY <1>0, <1>1 DEF RunOnce, Goto, LocalInv, JobsTypeOK, TablesTypeOK, Times
<1>2. CASE ConsiderSeal(j)
  BY <1>0, <1>2 DEF ConsiderSeal, Goto, LocalInv, JobsTypeOK, TablesTypeOK, Times
<1>3. CASE ReadBoundary(j)
  BY <1>0, <1>3 DEF ReadBoundary, Goto, Return, LocalInv, JobsTypeOK, TablesTypeOK, Times
<1>4. CASE ConsiderPurge(j)
  <2>1. PICK a \in anchors : a.last = sealedLast /\ a.at = sealedAt
    BY <1>4 DEF ConsiderPurge, SealInv
  <2>2. sealedLast \in Int
    BY <1>4 DEF ConsiderPurge, SealInv, TablesTypeOK, Seqs
  <2>3. /\ pc'[j] = "cover" /\ now'[j] = now[j] /\ before'[j] = sealedLast + 1
        /\ clock' = clock /\ anchors' = anchors
    BY <1>4 DEF ConsiderPurge, Goto, JobsTypeOK, wormVars
  <2>4. a \in anchors' /\ a.last = before'[j] - 1 /\ now'[j] - a.at >= PurgeGrace
    BY <1>4, <2>1, <2>2, <2>3 DEF ConsiderPurge
  <2> QED
    BY <2>3, <2>4 DEF LocalInv
<1>5. CASE \E b \in 1 .. MaxSeq + 1 : CallSealer(j, b)
  BY <1>0, <1>5 DEF CallSealer, Goto, LocalInv, JobsTypeOK, TablesTypeOK, Times
<1>6. CASE ReadLeaves(j)
  <2>1. PICK f, l \in {s \in live : s < before[j]} :
           /\ \A s \in {t \in live : t < before[j]} : f <= s /\ s <= l
           /\ mine' = [mine EXCEPT ![j] = Anchor(f, l, now[j])]
    BY <1>6 DEF ReadLeaves
  <2>2. f \in Seqs /\ l \in Seqs /\ live \subseteq Seqs /\ before[j] \in Int
    BY <2>1 DEF TablesTypeOK, JobsTypeOK
  <2>3. f <= l /\ l <= lastSeq /\ \A s \in live : f <= s
    BY <2>1, <2>2 DEF ChainInv, Seqs
  <2>4. mine'[j] = Anchor(f, l, now[j]) /\ pc'[j] = "put" /\ now'[j] = now[j]
    BY <1>6, <2>1 DEF ReadLeaves, Goto, JobsTypeOK
  <2>5. live' = live /\ lastSeq' = lastSeq /\ clock' = clock
    BY <1>6 DEF ReadLeaves, chainVars
  <2>6. Anchor(f, l, now[j]) \in Anchors
    BY <1>0, <2>2 DEF Anchor, Anchors
  <2>7. ReachesDown(mine[j])'
    BY <2>3, <2>4, <2>5 DEF ReachesDown, Anchor, LocalInv
  <2> QED
    BY <2>4, <2>5, <2>6, <2>7 DEF LocalInv
<1>7. CASE Put(j)
  BY <1>0, <1>7 DEF Put, Store, Goto, ReachesDown, chainVars, LocalInv, JobsTypeOK,
     TablesTypeOK, Times
<1>8. CASE PutFails(j)
  BY <1>0, <1>8 DEF PutFails, Store, Return, Goto, LocalInv, JobsTypeOK, TablesTypeOK, Times
<1>9. CASE MarkSealed(j)
  BY <1>0, <1>9 DEF MarkSealed, Return, Goto, LocalInv, JobsTypeOK, TablesTypeOK, Times
<1>10. CASE FindAnchor(j)
  BY <1>0, <1>10 DEF FindAnchor, Goto, wormVars, LocalInv, JobsTypeOK, TablesTypeOK, Times
<1>11. CASE PurgeBefore(j)
  BY <1>0, <1>11 DEF PurgeBefore, Return, Goto, LocalInv, JobsTypeOK, TablesTypeOK, Times
<1>12. CASE GiveUp(j)
  BY <1>0, <1>12 DEF GiveUp, Return, Goto, LocalInv, JobsTypeOK, TablesTypeOK, Times
<1> QED
  BY <1>1, <1>2, <1>3, <1>4, <1>5, <1>6, <1>7, <1>8, <1>9, <1>10, <1>11, <1>12 DEF JobStep

\* Every step keeps what every job relies on.
LEMMA JobsStep ==
    ASSUME TablesTypeOK, JobsTypeOK, ChainInv, SealInv, JobInv, [SegmentNext]_segmentVars
    PROVE  JobInv'
<1>1. SUFFICES ASSUME NEW i \in Jobs PROVE LocalInv(i)'
  BY DEF JobInv
<1>2. LocalInv(i)
  BY DEF JobInv
<1>0. Onward
  BY Monotone
<1>3. CASE JobStep(i)
  BY <1>2, <1>3, LocalStep
<1>4. CASE \E j \in Jobs : j # i /\ JobStep(j)
  BY <1>2, <1>4, <1>0, OthersAlone, LocalStable
<1>5. CASE UNCHANGED jobVars
  BY <1>2, <1>5, <1>0, LocalStable DEF jobVars
<1>6. JobStep(i) \/ (\E j \in Jobs : j # i /\ JobStep(j)) \/ UNCHANGED jobVars
  BY DEF SegmentNext, AppendIntent, VerifyState, VerifyChain, Tick, segmentVars
<1> QED
  BY <1>3, <1>4, <1>5, <1>6

\* A point update of the locals of one job.
LEMMA LocalsUpdate ==
    ASSUME JobsTypeOK, NEW j \in Jobs, NEW l \in Labels, NEW t \in Times,
           NEW b \in 0 .. MaxSeq + 1, NEW m \in Anchors \cup {NoAnchor},
           pc' = [pc EXCEPT ![j] = l],
           now' = now \/ now' = [now EXCEPT ![j] = t],
           before' = before \/ before' = [before EXCEPT ![j] = b],
           mine' = mine \/ mine' = [mine EXCEPT ![j] = m]
    PROVE  JobsTypeOK'
<1>1. pc' \in [Jobs -> Labels]
  BY DEF JobsTypeOK
<1>2. now' \in [Jobs -> Times]
  BY DEF JobsTypeOK
<1>3. before' \in [Jobs -> 0 .. MaxSeq + 1]
  BY DEF JobsTypeOK
<1>4. mine' \in [Jobs -> Anchors \cup {NoAnchor}]
  BY DEF JobsTypeOK
<1> QED
  BY <1>1, <1>2, <1>3, <1>4 DEF JobsTypeOK

\* The locals of a job keep their types.
LEMMA JobsTypeStep ==
    ASSUME TablesTypeOK, JobsTypeOK, SealInv, [SegmentNext]_segmentVars
    PROVE  JobsTypeOK'
<1>0. /\ {"idle", "pass", "boundary", "seal", "put", "mark", "cover", "purge"} = Labels
      /\ 0 \in Times /\ clock \in Times /\ 0 \in 0 .. MaxSeq + 1
      /\ NoAnchor \in Anchors \cup {NoAnchor}
  BY DEF Labels, Times, TablesTypeOK
<1>1. ASSUME NEW j \in Jobs, RunOnce(j) PROVE JobsTypeOK'
  BY <1>1, <1>0, LocalsUpdate DEF RunOnce, Goto
<1>2. ASSUME NEW j \in Jobs, ConsiderSeal(j) PROVE JobsTypeOK'
  BY <1>2, <1>0, LocalsUpdate DEF ConsiderSeal, Goto
<1>3. ASSUME NEW j \in Jobs, ReadBoundary(j) PROVE JobsTypeOK'
  <2>1. CASE live = {} /\ Return(j)
    BY <1>0, <2>1, LocalsUpdate DEF Return, Goto
  <2>2. CASE \E l \in live : before' = [before EXCEPT ![j] = l + 1] /\ Goto(j,
  "seal") /\ UNCHANGED <<now, mine>>
    <3>1. PICK l \in live : before' = [before EXCEPT ![j] = l + 1]
      BY <2>2
    <3>2. l + 1 \in 0 .. MaxSeq + 1
      BY <3>1 DEF TablesTypeOK, Seqs
    <3> QED
      BY <1>0, <2>2, <3>1, <3>2, LocalsUpdate DEF Goto
  <2> QED
    BY <1>3, <2>1, <2>2 DEF ReadBoundary
<1>4. ASSUME NEW j \in Jobs, ConsiderPurge(j) PROVE JobsTypeOK'
  <2>1. sealedLast + 1 \in 0 .. MaxSeq + 1
    BY <1>4 DEF ConsiderPurge, SealInv, TablesTypeOK, Seqs
  <2> QED
    BY <1>4, <1>0, <2>1, LocalsUpdate DEF ConsiderPurge, Goto
<1>5. ASSUME NEW j \in Jobs, \E b \in 1 .. MaxSeq + 1 : CallSealer(j, b) PROVE JobsTypeOK'
  <2>1. PICK b \in 1 .. MaxSeq + 1 : CallSealer(j, b)
    BY <1>5
  <2>2. b \in 0 .. MaxSeq + 1
    OBVIOUS
  <2> QED
    BY <1>0, <2>1, <2>2, LocalsUpdate DEF CallSealer, Goto
<1>6. ASSUME NEW j \in Jobs, ReadLeaves(j) PROVE JobsTypeOK'
  <2>1. PICK f, l \in {s \in live : s < before[j]} :
           mine' = [mine EXCEPT ![j] = Anchor(f, l, now[j])]
    BY <1>6 DEF ReadLeaves
  <2>2. Anchor(f, l, now[j]) \in Anchors \cup {NoAnchor}
    BY <2>1 DEF Anchor, Anchors, TablesTypeOK, JobsTypeOK
  <2>3. pc' = [pc EXCEPT ![j] = "put"] /\ now' = now /\ before' = before
    BY <1>6 DEF ReadLeaves, Goto
  <2> QED
    BY <1>0, <2>1, <2>2, <2>3, LocalsUpdate
<1>7. ASSUME NEW j \in Jobs, Put(j) PROVE JobsTypeOK'
  BY <1>7, <1>0, LocalsUpdate DEF Put, Goto
<1>8. ASSUME NEW j \in Jobs, PutFails(j) PROVE JobsTypeOK'
  BY <1>8, <1>0, LocalsUpdate DEF PutFails, Return, Goto
<1>9. ASSUME NEW j \in Jobs, MarkSealed(j) PROVE JobsTypeOK'
  BY <1>9, <1>0, LocalsUpdate DEF MarkSealed, Return, Goto
<1>10. ASSUME NEW j \in Jobs, FindAnchor(j) PROVE JobsTypeOK'
  BY <1>10, <1>0, LocalsUpdate DEF FindAnchor, Goto
<1>11. ASSUME NEW j \in Jobs, PurgeBefore(j) PROVE JobsTypeOK'
  BY <1>11, <1>0, LocalsUpdate DEF PurgeBefore, Return, Goto
<1>12. ASSUME NEW j \in Jobs, GiveUp(j) PROVE JobsTypeOK'
  BY <1>12, <1>0, LocalsUpdate DEF GiveUp, Return, Goto
<1>13. CASE UNCHANGED jobVars
  BY <1>13 DEF jobVars, JobsTypeOK
<1>14. UNCHANGED jobVars \/ \E j \in Jobs : JobStep(j)
  BY DEF SegmentNext, AppendIntent, VerifyState, VerifyChain, Tick, segmentVars
<1> QED
  BY <1>1, <1>2, <1>3, <1>4, <1>5, <1>6, <1>7, <1>8, <1>9, <1>10, <1>11, <1>12, <1>13,
     <1>14 DEF JobStep

\* The verifier's locals keep their types.
LEMMA VerifierTypeStep ==
    ASSUME TablesTypeOK, VerifierTypeOK, [SegmentNext]_segmentVars
    PROVE  VerifierTypeOK'
<1>1. CASE UNCHANGED verifyVars
  BY <1>1 DEF verifyVars, VerifierTypeOK
<1>2. CASE VerifyState
  BY <1>2 DEF VerifyState, VerifierTypeOK, Snapshots, TablesTypeOK
<1>3. CASE VerifyChain
  BY <1>3 DEF VerifyChain, VerifierTypeOK, Verdict
<1>4. UNCHANGED verifyVars \/ VerifyState \/ VerifyChain
  <2>1. ASSUME NEW j \in Jobs, JobStep(j) PROVE UNCHANGED verifyVars
    BY <2>1 DEF JobStep, RunOnce, ConsiderSeal, ReadBoundary, ConsiderPurge, CallSealer,
       ReadLeaves, Put, PutFails, MarkSealed, FindAnchor, PurgeBefore, GiveUp
  <2> QED
    BY <2>1 DEF SegmentNext, AppendIntent, Tick, segmentVars
<1> QED
  BY <1>1, <1>2, <1>3, <1>4

\* All of it holds before the first record.
LEMMA SegmentInitInv == SegmentInit => SegmentTypeOK /\ SegmentInv
<1> SUFFICES ASSUME SegmentInit PROVE SegmentTypeOK /\ SegmentInv
  OBVIOUS
<1>1. TablesTypeOK
  <2>1. prev \in [Seqs -> Seqs \cup {Genesis, Null}]
    BY DEF SegmentInit
  <2>2. 0 \in Times /\ 0 \in 0 .. MaxSeq + 1
    BY DEF Times
  <2> QED
    BY <2>1, <2>2 DEF SegmentInit, TablesTypeOK
<1>2. JobsTypeOK
  BY DEF SegmentInit, JobsTypeOK, Labels, Times
<1>3. VerifierTypeOK
  BY DEF SegmentInit, VerifierTypeOK
<1>4. ChainInv /\ PurgeInv /\ PurgedIsAnchored
  BY DEF SegmentInit, ChainInv, PurgeInv, PurgedIsAnchored, Genesis
<1>5. AnchorInv /\ SealInv
  BY DEF SegmentInit, AnchorInv, SealInv
<1>6. JobInv
  <2> SUFFICES ASSUME NEW j \in Jobs PROVE LocalInv(j)
    BY DEF JobInv
  <2>1. pc[j] = "idle" /\ now[j] = 0 /\ clock = 0
    BY DEF SegmentInit
  <2> QED
    BY <2>1 DEF LocalInv
<1> QED
  BY <1>1, <1>2, <1>3, <1>4, <1>5, <1>6 DEF SegmentTypeOK, SegmentInv

\* Every step of every actor keeps all of it.
LEMMA SegmentStepInv ==
    SegmentTypeOK /\ SegmentInv /\ [SegmentNext]_segmentVars => (SegmentTypeOK /\ SegmentInv)'
<1> SUFFICES ASSUME SegmentTypeOK, SegmentInv, [SegmentNext]_segmentVars
             PROVE  (SegmentTypeOK /\ SegmentInv)'
  OBVIOUS
<1>1. /\ TablesTypeOK /\ JobsTypeOK /\ VerifierTypeOK
      /\ ChainInv /\ AnchorInv /\ SealInv /\ JobInv /\ PurgeInv /\ PurgedIsAnchored
  BY DEF SegmentTypeOK, SegmentInv
<1>2. TablesTypeOK' /\ JobsTypeOK' /\ VerifierTypeOK'
  BY <1>1, TablesTypeStep, JobsTypeStep, VerifierTypeStep
<1>3. ChainInv' /\ AnchorInv' /\ SealInv' /\ JobInv'
  BY <1>1, ChainStep, AnchorStep, SealStep, JobsStep
<1>4. PurgeInv' /\ PurgedIsAnchored'
  BY <1>1, PurgeStep, PurgedStep
<1> QED
  BY <1>2, <1>3, <1>4 DEF SegmentTypeOK, SegmentInv

\* The inductive invariant of the segment, with the types of its state, holds at
\* every step of appending, sealing, purging and verifying.
THEOREM SegmentInvariant == SegmentSpec => [](SegmentTypeOK /\ SegmentInv)
BY SegmentInitInv, SegmentStepInv, PTL DEF SegmentSpec

\* purge() and purge_before() destroy no record that no complete anchor attests to,
\* for any number of overlapping jobs and operators, stopped anywhere.
THEOREM RetentionIsAttested == SegmentSpec => []PurgedIsAnchored
<1>1. SegmentInv => PurgedIsAnchored
  BY DEF SegmentInv
<1> QED
  BY <1>1, SegmentInvariant, PTL

\* _verify_rows reports INTACT or SEALED_PURGED on the tables as they stand, until
\* mark_sealed has recorded a seal on a segment that was already purged.
THEOREM LawfulPurgeVerifies == SegmentSpec => []PurgeIsNotTampering
<1>1. SegmentTypeOK /\ SegmentInv => PurgeIsNotTampering
  <2> SUFFICES ASSUME TablesTypeOK, ChainInv, SealInv, PurgeInv, ~resealed
               PROVE  Verdict(purgedBefore, sealedLast # Null, leafMac) \in {"intact",
               "sealed_purged"}
    BY DEF SegmentTypeOK, SegmentInv, PurgeIsNotTampering
  <2>1. /\ live = purgedBefore .. lastSeq
        /\ purgedBefore > 0 => sealedLast = purgedBefore - 1
        /\ purgedBefore \in Nat /\ lastSeq \in Int
        /\ \A s \in 0 .. lastSeq : prev[s] = s - 1
        /\ leafMac \in {Null, sealedLast}
    BY DEF TablesTypeOK, PurgeInv, ChainInv, SealInv, Seqs, Genesis
  <2>2. ChainHolds(purgedBefore, leafMac)
    BY <2>1 DEF ChainHolds, Genesis
  <2>3. purgedBefore > 0 => sealedLast # Null
    BY <2>1 DEF Null
  <2> QED
    BY <2>1, <2>2, <2>3 DEF Verdict
<1> QED
  BY <1>1, SegmentInvariant, PTL

\* WormAnchorStore.put neither loses nor replaces an anchor.
THEOREM AnchorsWriteOnce == SegmentSpec => AnchorsAreWriteOnce
<1>1. /\ SegmentTypeOK /\ SegmentInv /\ (SegmentTypeOK /\ SegmentInv)'
      /\ [SegmentNext]_segmentVars
      => [/\ anchors \subseteq anchors'
          /\ \A a, b \in anchors' : IdOf(a) = IdOf(b) => a = b]_segmentVars
  <2> SUFFICES ASSUME SegmentTypeOK, SegmentInv, SegmentInv', [SegmentNext]_segmentVars
               PROVE  /\ anchors \subseteq anchors'
                      /\ \A a, b \in anchors' : IdOf(a) = IdOf(b) => a = b
    OBVIOUS
  <2>1. Onward
    BY Monotone DEF SegmentTypeOK, SegmentInv
  <2>2. \A a, b \in anchors' : IdOf(a) = IdOf(b) => a = b
    BY DEF SegmentInv, AnchorInv, IdOf
  <2> QED
    BY <2>1, <2>2 DEF Onward
<1> QED
  BY <1>1, SegmentInvariant, PTL DEF SegmentSpec, AnchorsAreWriteOnce

\* A record the scheduler deletes has been attested for purge_grace_seconds, whoever
\* seals again between _maybe_purge and purge_before.
THEOREM GraceTheorem == SegmentSpec => GraceIsKept
<1> DEFINE Aged(s) ==
       \/ \E j \in Operators : pc[j] = "purge" /\ pc'[j] = "idle"
       \/ \E a \in anchors : Covers(a, s) /\ clock - a.at >= PurgeGrace
<1>1. SegmentTypeOK /\ SegmentInv /\ [SegmentNext]_segmentVars
      => [\A s \in live \ live' : Aged(s)]_segmentVars
  <2> SUFFICES ASSUME TablesTypeOK, JobsTypeOK, AnchorInv, JobInv, [SegmentNext]_segmentVars,
                      NEW s \in live \ live'
               PROVE  Aged(s)
    BY DEF SegmentTypeOK, SegmentInv
  <2>1. PICK j \in Jobs : PurgeBefore(j)
    <3>1. ASSUME NEW i \in Jobs, JobStep(i), ~PurgeBefore(i) PROVE live' = live
      BY <3>1 DEF JobStep, chainVars, RunOnce, ConsiderSeal, ReadBoundary, ConsiderPurge,
         CallSealer, ReadLeaves, Put, PutFails, MarkSealed, FindAnchor, PurgeBefore, GiveUp
    <3>2. CASE AppendIntent
      BY <3>2 DEF AppendIntent
    <3>3. CASE VerifyState \/ VerifyChain \/ Tick \/ UNCHANGED segmentVars
      BY <3>3 DEF VerifyState, VerifyChain, Tick, segmentVars, chainVars
    <3> QED
      BY <3>1, <3>2, <3>3 DEF SegmentNext
  <2>2. CASE j \in Operators
    BY <2>1, <2>2 DEF PurgeBefore, Return, Goto, JobsTypeOK
  <2>3. CASE j \notin Operators
    <3>1. PICK a \in anchors : a.last = before[j] - 1 /\ now[j] - a.at >= PurgeGrace
      BY <2>1, <2>3 DEF PurgeBefore, JobInv, LocalInv
    <3>2. s < before[j] /\ s \in Int /\ before[j] \in Int /\ now[j] \in Int /\ clock \in Int
          /\ a.at \in Int /\ now[j] <= clock /\ a.first <= s
      BY <2>1, <3>1 DEF PurgeBefore, TablesTypeOK, JobsTypeOK, Seqs, Times, Anchors,
                        JobInv, LocalInv, AnchorInv, ReachesDown
    <3>3. a.first <= s /\ s <= a.last /\ clock - a.at >= PurgeGrace
      BY <3>1, <3>2
    <3> QED
      BY <3>3 DEF Covers
  <2> QED
    BY <2>2, <2>3
<1> QED
  BY <1>1, SegmentInvariant, PTL DEF SegmentSpec, GraceIsKept
=============================================================================
