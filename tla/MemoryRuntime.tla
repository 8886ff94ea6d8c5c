--------------------------- MODULE MemoryRuntime ---------------------------
(***************************************************************************)
(* The in-process runtime: InMemoryEvidenceStore and InMemoryDispatcher    *)
(* (adapters/outbound/memory), the local MAC signer under them and the     *)
(* sealer's retention jobs beside them.  A call makes its intent durable,  *)
(* dispatches, and appends the outcome; a job seals a prefix of the one    *)
(* segment and purges it.  Every step below is one critical section of     *)
(* the store's or the dispatcher's lock; what happens between two of them  *)
(* interleaves with the other threads.                                     *)
(*                                                                         *)
(* A MAC is the tuple of what it is computed over, so two MACs are equal   *)
(* exactly when key, record, position and link are.                        *)
(***************************************************************************)
EXTENDS Integers, Sequences, SequencesExt, FiniteSets

CONSTANTS
    Calls,          \* threads that carry one decision each to its outcome
    DecisionOf,     \* [Calls -> decision ids]
    KeyOf,          \* [Calls -> idempotency keys]
    Jobs,           \* retention jobs; each runs once
    MaxInFlight,    \* config.dispatch.max_in_flight
    SigningKeys,    \* key ids the local signer rotates through, in order
    MaxFaults,      \* bound: rotations, outages, alterations and the shutdown
    None            \* no receipt, no outcome, no anchor

ASSUME MemoryAssumption ==
    /\ IsFiniteSet(Calls) /\ IsFiniteSet(Jobs)
    /\ MaxInFlight \in Nat \ {0}
    /\ MaxFaults \in Nat
    /\ SigningKeys \in Seq(STRING) /\ SigningKeys # << >>

VARIABLES
    signer,     \* [key, up]: position of the active key, availability
    segment,    \* _segments: the live intent records, in order
    purged,     \* _purged: how many records were deleted
    link,       \* _chain_anchor: MAC of the last deleted record
    sealed,     \* _worm_anchors: the anchor recorded for the segment
    receipts,   \* _receipts: decision id -> receipt
    outcomes,   \* _outcome_chain: the chained outcome records
    ledger,     \* dispatcher._outcomes: idempotency key -> outcome
    inFlight,   \* dispatcher._in_flight
    pool,       \* [open, queue, result]: the ThreadPoolExecutor and its futures
    call,       \* per call: where it is, its receipt, the answer it was given
    job,        \* per job: where it is, its bound, the anchor it built
    anchors,    \* the anchor store: every anchor ever put
    faults,     \* faults so far
    persisted,  \* history: decisions whose intent was made durable
    gone,       \* history: MACs of the records that were purged
    effects     \* history: idempotency key -> how often its handler ran

evidence == <<segment, purged, link, sealed, receipts, outcomes, persisted, gone>>
dispatcher == <<ledger, inFlight, pool, effects>>
retention == <<job, anchors>>
vars == <<signer, segment, purged, link, sealed, receipts, outcomes, ledger,
          inFlight, pool, call, job, anchors, faults, persisted, gone, effects>>

Decisions == {DecisionOf[c] : c \in Calls}
Keys == {KeyOf[c] : c \in Calls}
Genesis == <<"genesis">>
Pending == [status |-> "PENDING_APPROVAL", at |-> None]

IdleCall == [pc |-> "new", receipt |-> None, answer |-> None]
IdleJob == [pc |-> "idle", before |-> 0, anchor |-> None]
JobOver == [IdleJob EXCEPT !.pc = "over"]

Init ==
    /\ signer = [key |-> 1, up |-> TRUE]
    /\ segment = << >> /\ purged = 0 /\ link = Genesis /\ sealed = None
    /\ receipts = [d \in Decisions |-> None]
    /\ outcomes = << >>
    /\ ledger = [k \in Keys |-> None]
    /\ inFlight = 0
    /\ pool = [open |-> TRUE, queue |-> << >>, result |-> [c \in Calls |-> None]]
    /\ call = [c \in Calls |-> IdleCall]
    /\ job = [j \in Jobs |-> IdleJob]
    /\ anchors = {} /\ faults = 0
    /\ persisted = {} /\ gone = {}
    /\ effects = [k \in Keys |-> 0]

-----------------------------------------------------------------------------
(* The local signer. *)

Mac(payload) == <<SigningKeys[signer.key], payload>>

\* verify() recomputes the MAC under the key the row names; every key the
\* signer ever used is retained.
Authentic(payload, mac, key) == mac = <<key, payload>>

Fault ==
    /\ faults < MaxFaults
    /\ faults' = faults + 1

\* rotate(): sign under a new key, keep the old one.
Rotate ==
    /\ Fault
    /\ signer.key < Len(SigningKeys)
    /\ signer' = [signer EXCEPT !.key = @ + 1]
    /\ UNCHANGED <<evidence, dispatcher, retention, call>>

Outage ==
    /\ Fault
    /\ signer.up
    /\ signer' = [signer EXCEPT !.up = FALSE]
    /\ UNCHANGED <<evidence, dispatcher, retention, call>>

Recover ==
    /\ ~signer.up
    /\ signer' = [signer EXCEPT !.up = TRUE]
    /\ UNCHANGED <<evidence, dispatcher, retention, call, faults>>

-----------------------------------------------------------------------------
(* InMemoryEvidenceStore. *)

Payload(body, seq, prev) == <<body, seq, prev>>

Stored(body, seq, prev) ==
    [body |-> body, seq |-> seq, prev |-> prev,
     mac |-> Mac(Payload(body, seq, prev)), key |-> SigningKeys[signer.key]]

LastMac(chain) == IF chain = << >> THEN Genesis ELSE Last(chain).mac

Goto(c, pc) == call' = [call EXCEPT ![c].pc = pc]

\* The call is over: it returned, or an error left the decision service.
End(c, pc) == call' = [call EXCEPT ![c].pc = pc, ![c].receipt = None]

\* append_intent: the receipt of an earlier append is returned; otherwise
\* sequence number, chain link and MAC are produced in one critical section.
AppendIntent(c) ==
    LET d == DecisionOf[c]
        row == Stored(<<"intent", d>>, purged + Len(segment), LastMac(segment))
    IN  /\ call[c].pc = "new"
        /\ IF receipts[d] # None
           THEN /\ call' = [call EXCEPT ![c].pc = "check", ![c].receipt = receipts[d]]
                /\ UNCHANGED evidence
           ELSE IF ~signer.up
           THEN End(c, "error") /\ UNCHANGED evidence
           ELSE LET receipt == [decision |-> d, seq |-> row.seq, mac |-> row.mac] IN
                /\ segment' = Append(segment, row)
                /\ receipts' = [receipts EXCEPT ![d] = receipt]
                /\ persisted' = persisted \union {d}
                /\ call' = [call EXCEPT ![c].pc = "check", ![c].receipt = receipt]
                /\ UNCHANGED <<purged, link, sealed, outcomes, gone>>
        /\ UNCHANGED <<signer, dispatcher, retention, faults>>

\* append_outcome: refused for a receipt the store no longer knows, a no-op
\* for a (decision_id, completed_at) pair already recorded.
AppendOutcome(c) ==
    LET d == DecisionOf[c]
        body == <<"outcome", d, call[c].answer>>
        row == Stored(body, Len(outcomes), LastMac(outcomes))
        recorded == \E i \in 1..Len(outcomes) : outcomes[i].body = body
    IN  /\ call[c].pc = "record"
        /\ IF receipts[d] = None \/ (~recorded /\ ~signer.up)
           THEN End(c, "error") /\ UNCHANGED evidence
           ELSE /\ End(c, "done")
                /\ outcomes' = IF recorded THEN outcomes ELSE Append(outcomes, row)
                /\ UNCHANGED <<segment, purged, link, sealed, receipts, persisted, gone>>
        /\ UNCHANGED <<signer, dispatcher, retention, faults>>

\* tamper_for_test: a stored record is overwritten, its MAC is not.
Alter(i) ==
    /\ Fault
    /\ i \in DOMAIN segment
    /\ segment' = [segment EXCEPT ![i].body[1] = "altered"]
    /\ UNCHANGED <<signer, purged, link, sealed, receipts, outcomes, persisted, gone,
                   dispatcher, retention, call>>

\* Position of the first row of a chain that is out of sequence, breaks the
\* link or does not authenticate; Len(chain) + 1 if there is none.
FirstBad(chain, base, start) ==
    LET prev(i) == IF i = 1 THEN start ELSE chain[i - 1].mac
        bad(i) == \/ chain[i].seq # base + i - 1
                  \/ chain[i].prev # prev(i)
                  \/ ~Authentic(Payload(chain[i].body, chain[i].seq, chain[i].prev),
                                chain[i].mac, chain[i].key)
    IN  CHOOSE n \in 1..(Len(chain) + 1) :
            /\ n <= Len(chain) => bad(n)
            /\ \A i \in 1..(n - 1) : ~bad(i)

\* verify(): with the signer down the first row it has to authenticate makes
\* the chain UNVERIFIABLE; a break of sequence or link before it is still seen.
Status(chain, base, start, clean) ==
    LET n == FirstBad(chain, base, start)
        unlinked == chain # << >> /\ (chain[1].seq # base \/ chain[1].prev # start)
    IN  IF chain = << >> THEN [status |-> clean, at |-> None]
        ELSE IF ~signer.up /\ ~unlinked THEN [status |-> "UNVERIFIABLE", at |-> None]
        ELSE IF n <= Len(chain) THEN [status |-> "BROKEN", at |-> chain[n].seq]
        ELSE [status |-> clean, at |-> None]

IntentReport ==
    Status(segment, purged, IF purged > 0 THEN link ELSE Genesis,
           IF purged > 0 THEN "SEALED_PURGED" ELSE "INTACT")

OutcomeReport == Status(outcomes, 0, Genesis, "INTACT")

-----------------------------------------------------------------------------
(* Sealing and purging: SegmentSealer over the store's retention methods. *)

\* segment_leaves: a snapshot of the live MACs below the bound.
Leaves(before) == SelectSeq(segment, LAMBDA r : r.seq < before)

\* What EvidenceSegment's constructor requires of the state segment_state()
\* hands it; it raises otherwise.
StateIsReadable == sealed # None => sealed.last >= purged - 1

\* seal(), up to the signature: the snapshot and the anchor built from it.
\* The job ends before it starts if segment_state() raises, there is nothing
\* to seal, or the anchor cannot be signed.
BuildAnchor(j) ==
    /\ job[j].pc = "idle"
    /\ StateIsReadable /\ signer.up
    /\ \E before \in 1..(purged + Len(segment)) :
        LET rows == Leaves(before) IN
        /\ rows # << >>
        /\ job' = [job EXCEPT ![j] =
                    [pc |-> "put", before |-> before,
                     anchor |-> [first |-> rows[1].seq, last |-> Last(rows).seq,
                                 macs |-> {rows[i].mac : i \in DOMAIN rows}]]]
    /\ UNCHANGED <<signer, evidence, anchors, dispatcher, call, faults>>

\* put(): the anchor store is write-once, and the id is the range; a second
\* anchor of a range has another sealed_at and is refused.
PutAnchor(j) ==
    LET anchor == job[j].anchor
        taken == \E a \in anchors : a.first = anchor.first /\ a.last = anchor.last
    IN  /\ job[j].pc = "put"
        /\ anchors' = IF taken THEN anchors ELSE anchors \union {anchor}
        /\ job' = [job EXCEPT ![j] = IF taken THEN JobOver ELSE [@ EXCEPT !.pc = "mark"]]
        /\ UNCHANGED <<signer, evidence, dispatcher, call, faults>>

\* mark_sealed: the segment's anchor is replaced, whatever it was.
MarkSealed(j) ==
    /\ job[j].pc = "mark"
    /\ sealed' = job[j].anchor
    /\ job' = [job EXCEPT ![j].pc = "cover"]
    /\ UNCHANGED <<signer, segment, purged, link, receipts, outcomes, persisted, gone,
                   anchors, dispatcher, call, faults>>

\* A purge alone, as the CLI may run it against an older anchor.
StartPurge(j) ==
    /\ job[j].pc = "idle"
    /\ \E a \in anchors :
          job' = [job EXCEPT ![j] = [pc |-> "cover", before |-> a.last + 1, anchor |-> None]]
    /\ UNCHANGED <<signer, evidence, anchors, dispatcher, call, faults>>

\* covering_anchor and the check at the head of purge_before, which releases
\* the lock before seal_and_purge takes it again.
CheckCover(j) ==
    /\ job[j].pc = "cover"
    /\ job' = [job EXCEPT ![j] =
                IF /\ signer.up
                   /\ \E a \in anchors : a.last = job[j].before - 1
                   /\ sealed # None /\ sealed.last = job[j].before - 1
                THEN [@ EXCEPT !.pc = "purge"] ELSE JobOver]
    /\ UNCHANGED <<signer, evidence, anchors, dispatcher, call, faults>>

\* seal_and_purge walks the records below the bound.
PrefixThrough(before) == SelectSeq(segment, LAMBDA r : r.seq <= before)

Prefix(before) == SelectSeq(segment, LAMBDA r : r.seq < before)

\* The chain link kept for the records that survive.
LinkForgotten(rows) == link

LinkAfter(rows) == IF rows = << >> THEN link ELSE Last(rows).mac

\* seal_and_purge of the store: the prefix below the bound goes, its receipts
\* with it, and the last MAC that went becomes the link.
Purge(j) ==
    LET rows == Prefix(job[j].before)
        ids == {rows[i].body[2] : i \in DOMAIN rows}
    IN  /\ job[j].pc = "purge"
        /\ job' = [job EXCEPT ![j] = JobOver]
        /\ segment' = SubSeq(segment, Len(rows) + 1, Len(segment))
        /\ purged' = purged + Len(rows)
        /\ link' = LinkAfter(rows)
        /\ receipts' = [d \in Decisions |-> IF d \in ids THEN None ELSE receipts[d]]
        /\ gone' = gone \union {rows[i].mac : i \in DOMAIN rows}
        /\ UNCHANGED <<signer, sealed, outcomes, persisted, anchors, dispatcher, call, faults>>

-----------------------------------------------------------------------------
(* InMemoryDispatcher.dispatch. *)

Answer(c, pc, outcome) ==
    call' = [call EXCEPT ![c].pc = pc, ![c].answer = outcome]

\* _require_valid_receipt: the store is asked whether it issued the receipt.
CheckReceipt(c) ==
    /\ call[c].pc = "check"
    /\ IF receipts[DecisionOf[c]] = call[c].receipt THEN Goto(c, "admit") ELSE End(c, "refused")
    /\ UNCHANGED <<signer, evidence, dispatcher, retention, faults>>

\* The key is reserved before the lock is released.
Unreserved(k) == ledger

Reserved(k) == [ledger EXCEPT ![k] = Pending]

\* The admission section: a known key is answered from the ledger, whatever
\* the ledger holds; a full dispatcher refuses; otherwise the key is reserved.
Admit(c) ==
    LET k == KeyOf[c] IN
    /\ call[c].pc = "admit"
    /\ IF ledger[k] # None
       THEN Answer(c, "record", ledger[k]) /\ UNCHANGED <<ledger, inFlight>>
       ELSE IF inFlight >= MaxInFlight
       THEN End(c, "refused") /\ UNCHANGED <<ledger, inFlight>>
       ELSE /\ inFlight' = inFlight + 1
            /\ ledger' = Reserved(k)
            /\ Goto(c, "submit")
    /\ UNCHANGED <<signer, evidence, retention, pool, effects, faults>>

\* pool.submit, outside the try: after a shutdown it raises, and neither the
\* slot nor the reservation is given back.
Submit(c) ==
    /\ call[c].pc = "submit"
    /\ IF pool.open
       THEN /\ pool' = [pool EXCEPT !.queue = Append(@, c)]
            /\ Goto(c, "wait")
       ELSE UNCHANGED pool /\ End(c, "leaked")
    /\ UNCHANGED <<signer, evidence, retention, ledger, inFlight, effects, faults>>

\* A worker runs the handler: it returns, or it fails, by raising or by output
\* that the injection scan flags.  The effect has happened in every case.
RunHandler ==
    /\ pool.queue # << >>
    /\ \E result \in {"returned", "failed"} :
        LET c == Head(pool.queue) IN
        /\ pool' = [pool EXCEPT !.queue = Tail(@), !.result[c] = result]
        /\ effects' = [effects EXCEPT ![KeyOf[c]] = @ + 1]
    /\ UNCHANGED <<signer, evidence, retention, ledger, inFlight, call, faults>>

\* future.result(timeout): the result if it is there, INDETERMINATE otherwise;
\* the finally block gives the slot back.
Await(c) ==
    /\ call[c].pc = "wait"
    /\ \E status \in {"EXECUTED", "FAILED", "INDETERMINATE"} :
        /\ status = "EXECUTED" => pool.result[c] = "returned"
        /\ status = "FAILED" => pool.result[c] = "failed"
        /\ status = "INDETERMINATE" => pool.result[c] = None
        /\ Answer(c, "settle", [status |-> status, at |-> c])
    /\ inFlight' = inFlight - 1
    /\ UNCHANGED <<signer, evidence, retention, ledger, pool, effects, faults>>

\* The last section: the outcome replaces the reservation.
Settle(c) ==
    /\ call[c].pc = "settle"
    /\ ledger' = [ledger EXCEPT ![KeyOf[c]] = call[c].answer]
    /\ Goto(c, "record")
    /\ UNCHANGED <<signer, evidence, retention, inFlight, pool, effects, faults>>

Shutdown ==
    /\ Fault
    /\ pool.open
    /\ pool' = [pool EXCEPT !.open = FALSE]
    /\ UNCHANGED <<signer, evidence, retention, ledger, inFlight, effects, call>>

-----------------------------------------------------------------------------
CallStep(c) ==
    \/ AppendIntent(c) \/ CheckReceipt(c) \/ Admit(c) \/ Submit(c)
    \/ Await(c) \/ Settle(c) \/ AppendOutcome(c)

JobStep(j) ==
    \/ BuildAnchor(j) \/ PutAnchor(j) \/ MarkSealed(j) \/ StartPurge(j) \/ CheckCover(j) \/ Purge(j)

Environment ==
    \/ Rotate \/ Outage \/ Recover \/ Shutdown
    \/ \E i \in 1..Cardinality(Calls) : Alter(i)

\* The process is idle.
Quiet ==
    /\ \A c \in Calls : call[c].pc \in {"done", "refused", "error", "leaked"}
    /\ UNCHANGED vars

Next ==
    \/ \E c \in Calls : CallStep(c)
    \/ \E j \in Jobs : JobStep(j)
    \/ RunHandler \/ Environment \/ Quiet

Spec == Init /\ [][Next]_vars

-----------------------------------------------------------------------------
(* Properties. *)

Altered == {i \in DOMAIN segment : segment[i].body[1] = "altered"}

\* Some record was appended to a segment that a purge had emptied: its link is
\* the genesis value, not the MAC that was kept.
Restarted ==
    \E i \in DOMAIN segment : segment[i].seq > 0 /\ segment[i].prev = Genesis

\* What verify() reports of the intents is exact: whatever was sealed, purged
\* and signed under rotated keys, the report is BROKEN only if a stored record
\* was altered (or the chain restarted behind a purge), then it names the
\* first altered record, and an altered record is never reported acceptable;
\* the outcome chain, which nothing alters, is never BROKEN.
ReportIsExact ==
    /\ OutcomeReport.status # "BROKEN"
    /\ Altered # {} => IntentReport.status \in {"BROKEN", "UNVERIFIABLE"}
    /\ (IntentReport.status = "BROKEN" /\ ~Restarted) =>
          \E i \in Altered : /\ IntentReport.at = segment[i].seq
                             /\ \A n \in Altered : i <= n
    /\ signer.up => IntentReport.status # "UNVERIFIABLE"

\* Every purged record's MAC is under some anchor of the anchor store, however
\* jobs overlap between purge_before's check and the deletion.
PurgedIsCovered == \A m \in gone : \E a \in anchors : m \in a.macs

Definite(o) == o # None /\ o.status \in {"EXECUTED", "FAILED"}

\* At most one effect per idempotency key, never before an intent of a call
\* with that key was durable; an EXECUTED answer means its handler returned
\* clean output, a FAILED one that it raised or was quarantined, and no two
\* calls of one key get different definite answers.
AnswersAreTrue ==
    /\ \A k \in Keys : effects[k] <= 1
    /\ \A k \in Keys : effects[k] > 0 =>
          \E c \in Calls : KeyOf[c] = k /\ DecisionOf[c] \in persisted
    /\ \A c \in Calls : Definite(call[c].answer) =>
          (call[c].answer.status = "EXECUTED")
             <=> (pool.result[call[c].answer.at] = "returned")
    /\ \A c, e \in Calls :
          (KeyOf[c] = KeyOf[e] /\ Definite(call[c].answer) /\ Definite(call[e].answer))
             => call[c].answer = call[e].answer

\* "Purge after seal reports SEALED_PURGED" (memory/evidence.py:25): a lawful
\* purge never makes the report BROKEN.
LawfulPurgeIsNotBroken == IntentReport.status = "BROKEN" => Altered # {}

\* "A repeated key returns the recorded outcome without re-executing"
\* (memory/dispatch.py:12): a call answered by the dispatcher got an outcome.
RepeatsGetTheOutcome == \A c \in Calls : call[c].answer # Pending
=============================================================================
