------------------------- MODULE ApprovalWorkflow -------------------------
(***************************************************************************)
(* The approval lifecycle: the service that reviewers call, the workflow   *)
(* engine of each replica with its in-memory quorum votes, the repository  *)
(* they share, the pass that expires overdue workflows and the SLA monitor *)
(* that escalates them.                                                    *)
(*                                                                         *)
(* Every method of the repository is one locked transaction and one step   *)
(* here.  The engine reads a whole instance, changes it in memory and      *)
(* writes it back whole, so other callers act between the two.             *)
(***************************************************************************)
EXTENDS Naturals, FiniteSets, SequencesExt

CONSTANTS
    Decisions,    \* decisions that need a review
    Calls,        \* calls of the engine or of the approval service, one operation each
    Expirers,     \* periodic expire_overdue passes
    Monitors,     \* SLA monitor threads
    Replicas,     \* processes, each with its own engine
    HomeOf,       \* the replica that runs a call, pass or monitor
    Actors,       \* reviewers
    Quorums,      \* values of min_approvers that callers pass
    OpsOf,        \* the operations that a call may make
    MaxFaults,    \* bound: repository errors and replica crashes
    NoRow         \* no stored workflow

Procs == Calls \cup Expirers \cup Monitors

\* The methods that change a workflow, with that of the engine which creates one.
Operations == {"create", "approve", "reject", "escalate", "revoke", "review", "comment"}

ASSUME ApprovalAssumption ==
    /\ HomeOf \in [Procs -> Replicas]
    /\ Calls \cap (Expirers \cup Monitors) = {}
    /\ {"none", "error", "crashed"} \cap Calls = {}
    /\ OpsOf \in [Calls -> SUBSET Operations]
    /\ Quorums \subseteq Nat \ {0} /\ IsFiniteSet(Actors)
    /\ Decisions # {} /\ Actors # {}
    /\ MaxFaults \in Nat

VARIABLES
    row,       \* the workflows table: one instance per decision, or NoRow
    overdue,   \* decisions whose SLA window has elapsed
    quorum,    \* _quorum_state of every replica: votes in order, and whether the TTL passed
    call,      \* the control state of every process
    faults,    \* repository errors and crashes so far
    ballots    \* history: who has ever voted for a decision

vars == <<row, overdue, quorum, call, faults, ballots>>

(***************************************************************************)
(* Instances and their steps.                                              *)
(***************************************************************************)
Queue == {"pending", "in_review"}

Neutral == {"partial", "comment"}

\* The state that a step leaves behind: _transition and WorkflowInstance.add_step.
StateAfter(type, before) ==
    CASE type = "approve"  -> "approved"
      [] type = "reject"   -> "rejected"
      [] type = "escalate" -> "escalated"
      [] type = "expire"   -> "expired"
      [] type = "revoke"   -> "revoked"
      [] type = "review"   -> "in_review"
      [] OTHER             -> before

\* A mutant of AddStep: the state advances and the step is not recorded.
AddStepSilently(inst, type, p) ==
    [inst EXCEPT !.state = StateAfter(type, inst.state),
                 !.esc = @ \/ type = "escalate"]

AddStep(inst, type, p) ==
    [inst EXCEPT !.state = StateAfter(type, inst.state),
                 !.steps = Append(@, [type |-> type, by |-> p]),
                 !.esc = @ \/ type = "escalate"]

\* _project: the status that the service reports for an instance.
Project(inst) ==
    CASE inst.state = "pending" -> "PENDING"
      [] inst.state \in {"in_review", "escalated"} -> "IN_REVIEW"
      [] OTHER -> inst.state

Idle == [pc |-> "idle", op |-> "none", d |-> CHOOSE d \in Decisions : TRUE,
         actor |-> CHOOSE a \in Actors : TRUE, need |-> 1, votes |-> <<>>,
         seen |-> NoRow, todo |-> {}, ans |-> "none"]

NoVotes == [actors |-> <<>>, stale |-> FALSE]

Init ==
    /\ row = [d \in Decisions |-> NoRow]
    /\ overdue = {}
    /\ quorum = [r \in Replicas |-> [d \in Decisions |-> NoVotes]]
    /\ call = [p \in Procs |-> Idle]
    /\ faults = 0
    /\ ballots = [d \in Decisions |-> {}]

(***************************************************************************)
(* What the steps share.                                                   *)
(***************************************************************************)
At(p, pc) == call[p].pc = pc
RowOf(p) == row[call[p].d]
Goto(p, pc) == call' = [call EXCEPT ![p].pc = pc]
Ended(state, ans) == [state EXCEPT !.pc = "done", !.ans = ans, !.seen = NoRow, !.votes = <<>>]
Return(p, ans) == call' = [call EXCEPT ![p] = Ended(@, ans)]

QuorumReached(p) == Len(call[p].votes) >= call[p].need

\* The kind of step that p is about to record.
StepType(p) ==
    IF call[p].op = "approve" /\ ~QuorumReached(p) THEN "partial" ELSE call[p].op

\* An exception leaves the call; approve() first drops the votes (its finally
\* block), a pass is over, and the monitor logs it and waits for its next turn.
Raised(p) ==
    IF p \notin Calls THEN Idle
    ELSE IF call[p].op = "approve" /\ QuorumReached(p) /\ call[p].pc \in {"read", "write", "rewrite"}
         THEN [call[p] EXCEPT !.pc = "clear", !.ans = "error"]
         ELSE Ended(call[p], "error")

(***************************************************************************)
(* Creating a workflow.                                                    *)
(***************************************************************************)
Start(c) ==
    /\ At(c, "idle")
    /\ \E op \in OpsOf[c], d \in Decisions, a \in Actors, n \in Quorums :
         /\ op # "approve" => a = Idle.actor   \* only approve() counts its actor
         /\ call' = [call EXCEPT ![c] =
                       [@ EXCEPT !.pc = IF op = "create" THEN "probe" ELSE "lookup",
                                 !.op = op, !.d = d, !.actor = a, !.need = n]]
    /\ UNCHANGED <<row, overdue, quorum, faults, ballots>>

\* create_from_decision looks for an existing workflow and returns it.
Probe(c) ==
    /\ At(c, "probe")
    /\ IF RowOf(c) # NoRow THEN Return(c, RowOf(c).wid) ELSE Goto(c, "insert")
    /\ UNCHANGED <<row, overdue, quorum, faults, ballots>>

\* The decision service names nobody to escalate to.
NewInstance(c) == [wid |-> c, state |-> "pending", steps |-> <<>>, esc |-> FALSE]

\* A mutant of Insert: the table has no UNIQUE constraint on decision_id.
InsertOrReplace(c) ==
    /\ At(c, "insert")
    /\ row' = [row EXCEPT ![call[c].d] = NewInstance(c)]
    /\ Return(c, c)
    /\ UNCHANGED <<overdue, quorum, faults, ballots>>

\* The INSERT; decision_id is UNIQUE, so a second one raises.
Insert(c) ==
    /\ At(c, "insert")
    /\ IF RowOf(c) # NoRow
       THEN Return(c, "error") /\ UNCHANGED row
       ELSE /\ row' = [row EXCEPT ![call[c].d] = NewInstance(c)]
            /\ Return(c, c)
    /\ UNCHANGED <<overdue, quorum, faults, ballots>>

(***************************************************************************)
(* Reviewers.                                                              *)
(***************************************************************************)
\* The service finds the workflow of the decision, or raises ApprovalNotFoundError.
Lookup(c) ==
    /\ At(c, "lookup")
    /\ IF RowOf(c) = NoRow THEN Return(c, "not_found")
       ELSE Goto(c, CASE call[c].op = "approve" -> "vote"
                      [] call[c].op = "revoke"  -> "check"
                      [] OTHER -> "read")
    /\ UNCHANGED <<row, overdue, quorum, faults, ballots>>

\* _evict_stale_quorum_entries.
Evict(entries) == [d \in Decisions |-> IF entries[d].stale THEN NoVotes ELSE entries[d]]

\* A mutant of WithVote: every call counts.
WithEveryVote(actors, a) == Append(actors, a)

\* A reviewer counts once.
WithVote(actors, a) == IF Contains(actors, a) THEN actors ELSE Append(actors, a)

\* The locked section of approve().
Vote(c) ==
    LET d == call[c].d
        entries == Evict(quorum[HomeOf[c]])
        actors == WithVote(entries[d].actors, call[c].actor)
    IN /\ At(c, "vote")
       /\ quorum' = [quorum EXCEPT ![HomeOf[c]] = [entries EXCEPT ![d].actors = actors]]
       /\ ballots' = [ballots EXCEPT ![d] = @ \cup {call[c].actor}]
       /\ call' = [call EXCEPT ![c] = [@ EXCEPT !.pc = "count", !.votes = actors]]
       /\ UNCHANGED <<row, overdue, faults>>

\* approve() reads the instance and branches on the number of votes.
Count(c) ==
    /\ At(c, "count")
    /\ call' = [call EXCEPT ![c] =
                  [@ EXCEPT !.seen = RowOf(c),
                            !.pc = IF QuorumReached(c) THEN "read" ELSE "write"]]
    /\ UNCHANGED <<row, overdue, quorum, faults, ballots>>

\* A mutant of MayWithdraw: expire() looks at pending workflows only.
MayWithdrawPending(p) ==
    RowOf(p).state = "pending" /\ (call[p].op = "expire" => call[p].d \in overdue)

\* The conditions of revoke() and of expire().
MayWithdraw(p) ==
    RowOf(p).state \in Queue /\ (call[p].op = "expire" => call[p].d \in overdue)

Check(p) ==
    /\ At(p, "check")
    /\ IF MayWithdraw(p) THEN Goto(p, "read")
       ELSE IF p \in Calls THEN Return(p, Project(RowOf(p)))
       ELSE Goto(p, "loop")
    /\ UNCHANGED <<row, overdue, quorum, faults, ballots>>

\* The _get of _transition, escalate() or add_comment().
Read(p) ==
    /\ At(p, "read")
    /\ call' = [call EXCEPT ![p] = [@ EXCEPT !.seen = RowOf(p), !.pc = "write"]]
    /\ UNCHANGED <<row, overdue, quorum, faults, ballots>>

\* repo.update: the whole instance, whatever is stored by now.
Write(p) ==
    LET inst == AddStep(call[p].seen, StepType(p), p)
    IN /\ At(p, "write")
       /\ row' = [row EXCEPT ![call[p].d] = inst]
       /\ CASE StepType(p) = "approve" ->
                call' = [call EXCEPT ![p] = [@ EXCEPT !.seen = inst, !.pc = "rewrite"]]
            [] StepType(p) = "partial" -> Goto(p, "reread")
            [] p \in Calls -> Return(p, Project(inst))
            [] OTHER -> call' = [call EXCEPT ![p] = [@ EXCEPT !.seen = NoRow, !.pc = "loop"]]
       /\ UNCHANGED <<overdue, quorum, faults, ballots>>

\* approve() stores the approved instance a second time, with its actors.
Rewrite(c) ==
    /\ At(c, "rewrite")
    /\ row' = [row EXCEPT ![call[c].d] = call[c].seen]
    /\ Goto(c, "clear")
    /\ UNCHANGED <<overdue, quorum, faults, ballots>>

\* The finally block of approve().
Clear(c) ==
    /\ At(c, "clear")
    /\ quorum' = [quorum EXCEPT ![HomeOf[c]][call[c].d] = NoVotes]
    /\ IF call[c].ans = "error" THEN Return(c, "error") ELSE Goto(c, "reread")
    /\ UNCHANGED <<row, overdue, faults, ballots>>

\* approve() returns what is stored then.
Reread(c) ==
    /\ At(c, "reread")
    /\ Return(c, Project(RowOf(c)))
    /\ UNCHANGED <<row, overdue, quorum, faults, ballots>>

(***************************************************************************)
(* The expiry pass and the SLA monitor.                                    *)
(***************************************************************************)
InQueue(d) == row[d] # NoRow /\ row[d].state \in Queue

Breached == {d \in overdue : InQueue(d)}

\* expire_overdue and the monitor loop start from list_sla_breached.
ListBreached(p) ==
    LET due == IF p \in Expirers THEN Breached ELSE {d \in Breached : row[d].esc}
    IN /\ At(p, "idle")
       /\ due # {}
       /\ call' = [call EXCEPT ![p] =
                     [@ EXCEPT !.pc = "loop", !.todo = due,
                               !.op = IF p \in Expirers THEN "expire" ELSE "escalate"]]
       /\ UNCHANGED <<row, overdue, quorum, faults, ballots>>

TakeNext(p) ==
    /\ At(p, "loop")
    /\ IF call[p].todo = {} THEN call' = [call EXCEPT ![p] = Idle]
       ELSE \E d \in call[p].todo :
              call' = [call EXCEPT ![p] =
                         [@ EXCEPT !.todo = call[p].todo \ {d}, !.d = d,
                                   !.pc = IF p \in Expirers THEN "check" ELSE "read"]]
    /\ UNCHANGED <<row, overdue, quorum, faults, ballots>>

(***************************************************************************)
(* Time, repository errors, crashes.                                       *)
(***************************************************************************)
Breach(d) ==
    /\ row[d] # NoRow /\ d \notin overdue
    /\ overdue' = overdue \cup {d}
    /\ UNCHANGED <<row, quorum, call, faults, ballots>>

\* quorum_entry_ttl_seconds have passed since the first vote of an entry.
TtlPasses(r, d) ==
    /\ quorum[r][d].actors # <<>> /\ ~quorum[r][d].stale
    /\ quorum' = [quorum EXCEPT ![r][d].stale = TRUE]
    /\ UNCHANGED <<row, overdue, call, faults, ballots>>

AtStore == {"probe", "insert", "lookup", "count", "check", "read", "write", "rewrite", "reread"}

StoreFails(p) ==
    /\ call[p].pc \in AtStore
    /\ faults < MaxFaults
    /\ faults' = faults + 1
    /\ call' = [call EXCEPT ![p] = Raised(p)]
    /\ UNCHANGED <<row, overdue, quorum, ballots>>

\* A replica stops: its calls and passes end, its votes are gone, it starts again.
Crash(r) ==
    /\ faults < MaxFaults
    /\ faults' = faults + 1
    /\ quorum' = [quorum EXCEPT ![r] = [d \in Decisions |-> NoVotes]]
    /\ call' = [p \in Procs |->
                  IF HomeOf[p] # r \/ call[p].pc \in {"idle", "done"} THEN call[p]
                  ELSE IF p \in Calls THEN Ended(call[p], "crashed") ELSE Idle]
    /\ UNCHANGED <<row, overdue, ballots>>

CallStep(c) ==
    \/ Probe(c) \/ Insert(c) \/ Lookup(c) \/ Vote(c) \/ Count(c)
    \/ Rewrite(c) \/ Clear(c) \/ Reread(c)

ProcStep(p) == Check(p) \/ Read(p) \/ Write(p)

PassStep(p) == ListBreached(p) \/ TakeNext(p)

\* Every operation has ended and no workflow is overdue in the queue.
Quiet ==
    /\ \A c \in Calls : At(c, "done")
    /\ \A p \in Expirers \cup Monitors : At(p, "idle")
    /\ UNCHANGED vars

Next ==
    \/ \E c \in Calls : Start(c) \/ CallStep(c)
    \/ \E p \in Procs : ProcStep(p) \/ StoreFails(p)
    \/ \E p \in Expirers \cup Monitors : PassStep(p)
    \/ \E d \in Decisions : Breach(d)
    \/ \E r \in Replicas, d \in Decisions : TtlPasses(r, d)
    \/ \E r \in Replicas : Crash(r)
    \/ Quiet

Spec == Init /\ [][Next]_vars

\* Threads are scheduled and the passes are called periodically.
Fairness ==
    /\ \A c \in Calls : WF_vars(CallStep(c))
    /\ \A p \in Procs : WF_vars(ProcStep(p))
    /\ \A p \in Expirers \cup Monitors : WF_vars(PassStep(p))

FairSpec == Spec /\ Fairness

(***************************************************************************)
(* Properties.                                                             *)
(***************************************************************************)
States == {"pending", "in_review", "approved", "rejected", "escalated", "expired", "revoked"}
StepTypes == {"approve", "partial", "reject", "escalate", "expire", "revoke", "review", "comment"}

Instance ==
    [wid : Calls, state : States, steps : Seq([type : StepTypes, by : Procs]), esc : BOOLEAN]

ASSUME NoRowAssumption == NoRow \notin Instance

Stored == Instance \cup {NoRow}
Stages == AtStore \cup {"idle", "vote", "clear", "loop", "done"}
Answers ==
    {"none", "PENDING", "IN_REVIEW", "not_found", "error", "crashed"} \cup States \cup Calls

OpTypes == StepTypes \cup {"none", "create"}

CallState ==
    [pc : Stages, op : OpTypes, d : Decisions, actor : Actors,
     need : Nat \ {0}, votes : Seq(Actors), seen : Stored, todo : SUBSET Decisions,
     ans : Answers]

\* Type invariant of the tables, the engines' memory and the calls under way.
ApprovalTypeOK ==
    /\ row \in [Decisions -> Stored]
    /\ overdue \subseteq Decisions
    /\ quorum \in [Replicas -> [Decisions -> [actors : Seq(Actors), stale : BOOLEAN]]]
    /\ call \in [Procs -> CallState]
    /\ faults \in 0 .. MaxFaults
    /\ ballots \in [Decisions -> SUBSET Actors]

\* The state that the recorded steps amount to: that of the last step that has one.
Explains(steps, state) ==
    \/ state = "pending" /\ \A i \in DOMAIN steps : steps[i].type \in Neutral
    \/ \E i \in DOMAIN steps :
         /\ steps[i].type \notin Neutral
         /\ state = StateAfter(steps[i].type, "pending")
         /\ \A j \in DOMAIN steps : j > i => steps[j].type \in Neutral

\* The stored state of a workflow is the one its stored steps amount to, however
\* the read-modify-write cycles of reviewers, passes and the monitor overlap
\* (approval_service.py: the step history is the one source of truth).
StateMatchesHistory ==
    \A d \in Decisions : row[d] # NoRow => Explains(row[d].steps, row[d].state)

\* An approval on record was voted for by at least min_approvers different
\* reviewers, whatever votes were lost, repeated or cast on other replicas
\* (WorkflowEngine.quorum_approve: "Requires min_approvers distinct approvers").
QuorumIsReal ==
    \A d \in Decisions :
      row[d] # NoRow =>
        \A i \in DOMAIN row[d].steps :
          LET s == row[d].steps[i] IN
            s.type = "approve" => Cardinality(ballots[d]) >= call[s.by].need

\* All calls of create_from_decision that return a workflow for a decision return
\* the same one, and it is the one that reviewers find.
CreatesAgree ==
    \A c \in Calls :
      (call[c].op = "create" /\ call[c].ans \in Calls) =>
        row[call[c].d] # NoRow /\ row[call[c].d].wid = call[c].ans

\* An overdue workflow does not stay in the queue: a reviewer, the monitor or the
\* expiry pass takes it out (approval_service.expire_overdue).
OverdueLeavesQueue ==
    \A d \in Decisions :
      (d \in overdue /\ InQueue(d)) ~> ~InQueue(d)

\* WorkflowEngine.expire, docstring: expiry "must not silently override a real
\* decision that already happened".  It holds for expire() on its own and not
\* when a reviewer's decision is stored between its read and its write.
ExpiryOverridesNothing ==
    [][\A d \in Decisions :
         (row[d] # NoRow /\ row[d].state \in {"approved", "rejected"})
           => row'[d].state # "expired"]_vars
=============================================================================
