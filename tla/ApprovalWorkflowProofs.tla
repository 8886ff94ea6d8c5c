----------------------- MODULE ApprovalWorkflowProofs -----------------------
(***************************************************************************)
(* Proofs about ApprovalWorkflow for any number of decisions, reviewers,   *)
(* calls, passes and replicas.                                             *)
(***************************************************************************)
EXTENDS ApprovalWorkflow, FiniteSetTheorems, TLAPS

-----------------------------------------------------------------------------
(* Votes.                                                                  *)

\* Votes of different reviewers, all of whom have voted for the decision.
Distinct(votes, voters) ==
    /\ votes \in Seq(Actors)
    /\ \A i, j \in DOMAIN votes : votes[i] = votes[j] => i = j
    /\ \A i \in DOMAIN votes : votes[i] \in voters

\* approve() counts a reviewer once.
LEMMA WithVoteIsDistinct ==
    ASSUME NEW votes, NEW voters, NEW a \in Actors, Distinct(votes, voters)
    PROVE  Distinct(WithVote(votes, a), voters \cup {a})
<1>1. CASE Contains(votes, a)
  BY <1>1 DEF Distinct, WithVote
<1>2. CASE ~Contains(votes, a)
  <2>1. \A i \in DOMAIN votes : votes[i] # a
    BY <1>2 DEF Contains, Distinct
  <2>2. WithVote(votes, a) = Append(votes, a)
    BY <1>2 DEF WithVote
  <2> QED
    BY <2>1, <2>2 DEF Distinct
<1> QED
  BY <1>1, <1>2

\* The number of votes is at most the number of reviewers who have ever voted.
LEMMA VotesAreVoters ==
    ASSUME NEW votes, NEW voters \in SUBSET Actors, Distinct(votes, voters)
    PROVE  Len(votes) <= Cardinality(voters)
<1>1. IsFiniteSet(voters)
  BY ApprovalAssumption, FS_Subset
<1>2. Len(votes) \in Nat /\ DOMAIN votes = 1 .. Len(votes)
  BY DEF Distinct
<1>3. votes \in Injection(1 .. Len(votes), voters)
  BY <1>2 DEF Distinct, Injection, IsInjective
<1>4. Cardinality(1 .. Len(votes)) <= Cardinality(voters)
  BY <1>1, <1>3, FS_Injection
<1>5. ASSUME NEW n \in Nat PROVE Cardinality(1 .. n) = n
  <2>1. Cardinality(1 .. n) = IF 1 > n THEN 0 ELSE n - 1 + 1
    BY FS_Interval
  <2> QED
    BY <2>1
<1> QED
  BY <1>2, <1>4, <1>5

-----------------------------------------------------------------------------
(* Steps of a workflow.                                                    *)

\* What the recorded steps amount to is kept by recording one more (add_step).
LEMMA AddStepExplains ==
    ASSUME NEW inst \in Instance, NEW type \in StepTypes, NEW p \in Procs,
           Explains(inst.steps, inst.state)
    PROVE  /\ AddStep(inst, type, p) \in Instance
           /\ AddStep(inst, type, p).wid = inst.wid
           /\ AddStep(inst, type, p).steps = Append(inst.steps, [type |-> type, by |-> p])
           /\ Explains(AddStep(inst, type, p).steps, AddStep(inst, type, p).state)
<1> DEFINE new == AddStep(inst, type, p)
           n == Len(inst.steps) + 1
<1>1. inst.steps \in Seq([type : StepTypes, by : Procs]) /\ inst.state \in States
  BY DEF Instance
<1>2. StateAfter(type, inst.state) \in States
  BY <1>1 DEF StateAfter, States, StepTypes
<1>3. /\ new.steps = Append(inst.steps, [type |-> type, by |-> p])
      /\ new.state = StateAfter(type, inst.state)
      /\ new.wid = inst.wid
      /\ new \in Instance
  <2> DEFINE esc == inst.esc \/ type = "escalate"
             state == StateAfter(type, inst.state)
             steps == Append(inst.steps, [type |-> type, by |-> p])
  <2>1. esc \in BOOLEAN
    OBVIOUS
  <2>2. steps \in Seq([type : StepTypes, by : Procs])
    BY <1>1
  <2>3. new = [inst EXCEPT !.state = state, !.steps = steps, !.esc = esc]
    BY DEF AddStep
  <2> HIDE DEF esc, state, steps, new
  <2>4. state \in States
    BY <1>2 DEF state
  <2>5. new.steps = steps /\ new.state = state /\ new.wid = inst.wid /\ new \in Instance
    BY <2>1, <2>2, <2>3, <2>4 DEF Instance
  <2> QED
    BY <2>5 DEF steps, state
<1>4. /\ n \in DOMAIN new.steps /\ new.steps[n].type = type
      /\ \A i \in DOMAIN new.steps : i <= n /\ (i # n => i \in DOMAIN inst.steps
                                                          /\ new.steps[i] = inst.steps[i])
      /\ \A i \in DOMAIN inst.steps : i \in DOMAIN new.steps /\ new.steps[i] = inst.steps[i]
  BY <1>1, <1>3
<1> HIDE DEF new, n
<1>5. ASSUME type \in Neutral PROVE Explains(new.steps, new.state)
  <2>1. new.state = inst.state
    BY <1>3, <1>5 DEF StateAfter, Neutral
  <2> QED
    <3>1. CASE inst.state = "pending" /\ \A i \in DOMAIN inst.steps : inst.steps[i].type \in Neutral
      <4>1. \A i \in DOMAIN new.steps : new.steps[i].type \in Neutral
        BY <3>1, <1>4, <1>5
      <4> QED
        BY <4>1, <3>1, <2>1 DEF Explains
    <3>2. ASSUME NEW i \in DOMAIN inst.steps, inst.steps[i].type \notin Neutral,
                 inst.state = StateAfter(inst.steps[i].type, "pending"),
                 \A j \in DOMAIN inst.steps : j > i => inst.steps[j].type \in Neutral
          PROVE  Explains(new.steps, new.state)
      <4>1. i \in DOMAIN new.steps /\ new.steps[i] = inst.steps[i]
        BY <1>4
      <4>2. \A j \in DOMAIN new.steps : j > i => new.steps[j].type \in Neutral
        BY <3>2, <1>4, <1>5
      <4> QED
        BY <4>1, <4>2, <3>2, <2>1 DEF Explains
    <3> QED
      BY <3>1, <3>2 DEF Explains
<1>6. ASSUME type \notin Neutral PROVE Explains(new.steps, new.state)
  <2>1. new.state = StateAfter(type, "pending")
    BY <1>3, <1>6 DEF StateAfter, Neutral, StepTypes
  <2>2. \A j \in DOMAIN new.steps : ~(j > n)
    BY <1>4, <1>1 DEF n
  <2> QED
    BY <2>1, <2>2, <1>4, <1>6 DEF Explains
<1> QED
  BY <1>3, <1>5, <1>6 DEF new
-----------------------------------------------------------------------------
(* The inductive invariant.                                                *)

\* An approval by c counts: enough different reviewers have voted for d.
Backed(d, c) ==
    /\ c \in Calls /\ call[c].pc # "idle"
    /\ call[c].need \in Nat /\ Cardinality(ballots[d]) >= call[c].need

\* An instance that is stored for d, or that a process read and may store again.
Sound(d, inst) ==
    /\ inst \in Instance
    /\ row[d] # NoRow /\ inst.wid = row[d].wid
    /\ Explains(inst.steps, inst.state)
    /\ \A i \in DOMAIN inst.steps :
         inst.steps[i].type = "approve" => Backed(d, inst.steps[i].by)

\* Where a process has found the workflow of its decision.
Visiting == {"vote", "count", "check", "read", "write", "rewrite", "clear", "reread"}

Moves == {"approve", "reject", "escalate", "revoke", "review", "comment", "expire"}

\* What process p in control state s has seen entitles it to its next step.
StateOK(p, s) ==
    /\ s \in CallState
    /\ s.seen # NoRow => Sound(s.d, s.seen)
    /\ Distinct(s.votes, ballots[s.d])
    /\ s.pc \in {"idle", "loop", "lookup", "check"} => s.seen = NoRow
    /\ s.pc = "idle" \/ p \notin Calls => s.votes = <<>>
    /\ s.pc = "idle" => s.ans = "none"
    /\ s.pc \in {"write", "rewrite"} => s.seen # NoRow
    /\ s.pc \in Visiting => row[s.d] # NoRow
    /\ s.pc \in Visiting \cup {"lookup", "loop"} => s.op \in Moves
    /\ \A d \in s.todo : row[d] # NoRow
    /\ s.op = "create" /\ s.ans \in Calls => row[s.d] # NoRow /\ row[s.d].wid = s.ans
    /\ p \notin Calls => s.op # "approve"

RowsSound == \A d \in Decisions : row[d] # NoRow => Sound(d, row[d])

VotesInv ==
    \A r \in Replicas, d \in Decisions : Distinct(quorum[r][d].actors, ballots[d])

\* The state that is typed on its own.
BaseOK ==
    /\ row \in [Decisions -> Stored]
    /\ overdue \subseteq Decisions
    /\ quorum \in [Replicas -> [Decisions -> [actors : Seq(Actors), stale : BOOLEAN]]]
    /\ faults \in 0 .. MaxFaults
    /\ ballots \in [Decisions -> SUBSET Actors]

\* Stored and remembered instances are explained by their steps and backed by
\* votes; votes in an engine's memory or a call's hands are of different reviewers.
ApprovalInv ==
    /\ BaseOK
    /\ DOMAIN call = Procs /\ call = [p \in Procs |-> call[p]]
    /\ \A p \in Procs : StateOK(p, call[p])
    /\ RowsSound
    /\ VotesInv

\* What no step takes back: a stored workflow and its id, votes, a call's quorum.
Grows ==
    /\ \A d \in Decisions : row[d] # NoRow => row'[d] # NoRow /\ row'[d].wid = row[d].wid
    /\ \A d \in Decisions : ballots[d] \subseteq ballots'[d] /\ ballots'[d] \subseteq Actors
    /\ \A c \in Calls : call[c].pc # "idle" => call'[c].pc # "idle" /\ call'[c].need = call[c].need

-----------------------------------------------------------------------------
(* Stability.                                                              *)

\* A sound instance stays sound, whatever other processes do.
LEMMA SoundStable ==
    ASSUME Grows, NEW d \in Decisions, NEW inst, Sound(d, inst)
    PROVE  Sound(d, inst)'
<1>1. ASSUME NEW c, Backed(d, c) PROVE Backed(d, c)'
  <2>1. c \in Calls /\ call'[c].pc # "idle" /\ call'[c].need = call[c].need
    BY <1>1 DEF Backed, Grows
  <2>2. IsFiniteSet(ballots'[d]) /\ ballots[d] \in SUBSET ballots'[d]
    BY ApprovalAssumption, FS_Subset DEF Grows
  <2>3. /\ Cardinality(ballots[d]) <= Cardinality(ballots'[d])
        /\ Cardinality(ballots[d]) \in Nat /\ Cardinality(ballots'[d]) \in Nat
    BY <2>2, FS_Subset, FS_CardinalityType
  <2>4. call[c].need \in Nat /\ Cardinality(ballots[d]) >= call[c].need
    BY <1>1 DEF Backed
  <2> QED
    BY <2>1, <2>3, <2>4 DEF Backed
<1>2. row'[d] # NoRow /\ row'[d].wid = row[d].wid
  BY DEF Sound, Grows
<1> QED
  BY <1>1, <1>2 DEF Sound

\* So does what a process has seen.
LEMMA StateStable ==
    ASSUME Grows, NEW p \in Procs, NEW s, StateOK(p, s)
    PROVE  StateOK(p, s)'
<1>1. s.d \in Decisions /\ s.todo \subseteq Decisions
  BY DEF StateOK, CallState
<1>2. s.seen # NoRow => Sound(s.d, s.seen)'
  BY <1>1, SoundStable DEF StateOK
<1>3. Distinct(s.votes, ballots'[s.d])
  BY <1>1 DEF StateOK, Distinct, Grows
<1>4. /\ row[s.d] # NoRow => row'[s.d] # NoRow /\ row'[s.d].wid = row[s.d].wid
      /\ \A d \in s.todo : row'[d] # NoRow
  BY <1>1 DEF StateOK, Grows
<1> QED
  BY <1>2, <1>3, <1>4 DEF StateOK

\* Rows that a step leaves alone stay sound.
LEMMA RowsStable ==
    ASSUME ApprovalInv, Grows, NEW d \in Decisions, row'[d] = row[d], row[d] # NoRow
    PROVE  Sound(d, row[d])'
<1>1. PICK v : v = row[d]
  OBVIOUS
<1>2. Sound(d, v)'
  BY <1>1, SoundStable DEF ApprovalInv, RowsSound
<1> QED
  BY <1>1, <1>2 DEF Sound

\* Votes kept in memory stay votes of different reviewers while votes only grow.
LEMMA VotesStable ==
    ASSUME ApprovalInv, Grows, quorum' = quorum
    PROVE  VotesInv'
BY DEF ApprovalInv, VotesInv, Distinct, Grows

\* A step of process p to control state s.
LEMMA Preserved ==
    ASSUME ApprovalInv, Grows, BaseOK', RowsSound', VotesInv',
           NEW p \in Procs, NEW s, call' = [call EXCEPT ![p] = s], StateOK(p, s)'
    PROVE  ApprovalInv'
<1>1. DOMAIN call' = Procs /\ call' = [q \in Procs |-> call'[q]]
  BY DEF ApprovalInv
<1>2. ASSUME NEW q \in Procs PROVE StateOK(q, call[q])'
  <2>1. PICK v : v = call'[q]
    OBVIOUS
  <2>2. StateOK(q, v)'
    <3>1. CASE q = p
      BY <2>1, <3>1 DEF ApprovalInv
    <3>2. CASE q # p
      <4>1. v = call[q] /\ StateOK(q, v)
        BY <2>1, <3>2 DEF ApprovalInv
      <4> QED
        BY <4>1, StateStable
    <3> QED
      BY <3>1, <3>2
  <2> QED
    BY <2>1, <2>2 DEF StateOK
<1> QED
  BY <1>1, <1>2 DEF ApprovalInv

\* A step of p that changes no table and no votes need only be justified by what
\* holds before it.
LEMMA LocalStep ==
    ASSUME ApprovalInv, UNCHANGED <<row, quorum, ballots>>,
           overdue' \subseteq Decisions, faults' \in 0 .. MaxFaults,
           NEW p \in Procs, NEW s, call' = [call EXCEPT ![p] = s],
           p \in Calls => call[p].pc = "idle" \/ (s.pc # "idle" /\ s.need = call[p].need),
           StateOK(p, s)
    PROVE  ApprovalInv'
<1>1. Grows
  BY DEF Grows, ApprovalInv, BaseOK, Procs
<1>2. BaseOK'
  BY DEF ApprovalInv, BaseOK
<1>3. RowsSound'
  BY <1>1, RowsStable DEF RowsSound
<1> QED
  BY <1>1, <1>2, <1>3, VotesStable, StateStable, Preserved

-----------------------------------------------------------------------------
(* The steps of a call.                                                    *)

\* A fresh quorum entry.
LEMMA NoVotesOK ==
    /\ NoVotes \in [actors : Seq(Actors), stale : BOOLEAN]
    /\ \A voters : Distinct(NoVotes.actors, voters)
<1>1. PICK v : v = <<>>
  OBVIOUS
<1>2. NoVotes = [actors |-> v, stale |-> FALSE]
  BY <1>1 DEF NoVotes
<1>3. v \in Seq(Actors) /\ DOMAIN v = {}
  BY <1>1
<1> QED
  BY <1>2, <1>3 DEF Distinct

\* A process that has nothing in its hands.
LEMMA IdleOK == ASSUME NEW p \in Procs PROVE StateOK(p, Idle)
<1>1. Idle.d \in Decisions /\ Idle.actor \in Actors
  BY ApprovalAssumption DEF Idle
<1>2. Idle \in CallState
  <2>1. PICK v : v = <<>>
    OBVIOUS
  <2>2. Idle = [pc |-> "idle", op |-> "none", d |-> Idle.d, actor |-> Idle.actor, need |-> 1,
                votes |-> v, seen |-> NoRow, todo |-> {}, ans |-> "none"]
    BY <2>1 DEF Idle
  <2>3. /\ "idle" \in Stages /\ "none" \in OpTypes /\ "none" \in Answers
        /\ v \in Seq(Actors) /\ NoRow \in Stored
    BY <2>1 DEF Stages, OpTypes, Answers, Stored
  <2> QED
    BY <1>1, <2>2, <2>3 DEF CallState
<1>3. /\ Idle.pc = "idle" /\ Idle.op = "none" /\ Idle.votes = <<>>
      /\ Idle.seen = NoRow /\ Idle.todo = {} /\ Idle.ans = "none"
  BY DEF Idle
<1>4. Distinct(<<>>, ballots[Idle.d])
  BY DEF Distinct
<1> QED
  BY <1>2, <1>3, <1>4 DEF StateOK, Visiting

\* No workflow, no vote and no call exists initially.
LEMMA InvInit == Init => ApprovalInv
<1> SUFFICES ASSUME Init PROVE ApprovalInv
  OBVIOUS
<1>4. BaseOK
  BY ApprovalAssumption, NoVotesOK DEF Init, BaseOK, Stored
<1>5. VotesInv
  BY NoVotesOK DEF Init, VotesInv
<1> QED
  BY <1>4, <1>5, IdleOK DEF Init, ApprovalInv, RowsSound

\* Ending a call: nothing is in its hands any more.
LEMMA EndedFields ==
    ASSUME NEW s \in CallState, NEW ans \in Answers, NEW e, e = Ended(s, ans)
    PROVE  /\ e \in CallState /\ e.pc = "done" /\ e.ans = ans /\ e.seen = NoRow /\ e.votes = <<>>
           /\ e.d = s.d /\ e.op = s.op /\ e.need = s.need /\ e.todo = s.todo
<1>1. PICK v : v = <<>>
  OBVIOUS
<1>2. e = [s EXCEPT !.pc = "done", !.ans = ans, !.seen = NoRow, !.votes = v]
  BY <1>1, Zenon DEF Ended
<1>3. v \in Seq(Actors) /\ "done" \in Stages /\ NoRow \in Stored
  BY <1>1 DEF Stages, Stored
<1>4. /\ e \in CallState /\ e.pc = "done" /\ e.ans = ans /\ e.seen = NoRow /\ e.votes = v
      /\ e.d = s.d /\ e.op = s.op /\ e.need = s.need /\ e.todo = s.todo
  BY <1>2, <1>3 DEF CallState
<1> QED
  BY <1>1, <1>4

\* What the caller then knows is true of the tables.
LEMMA EndedOK ==
    ASSUME NEW p \in Procs, NEW s, NEW ans \in Answers, StateOK(p, s), s.pc # "idle",
           s.op = "create" /\ ans \in Calls => row[s.d] # NoRow /\ row[s.d].wid = ans
    PROVE  /\ StateOK(p, Ended(s, ans))
           /\ Ended(s, ans).pc = "done" /\ Ended(s, ans).need = s.need
<1>1. PICK e : e = Ended(s, ans)
  OBVIOUS
<1>2. /\ e \in CallState /\ e.pc = "done" /\ e.ans = ans /\ e.seen = NoRow /\ e.votes = <<>>
      /\ e.d = s.d /\ e.op = s.op /\ e.need = s.need /\ e.todo = s.todo
  BY <1>1, EndedFields DEF StateOK
<1>3. Distinct(<<>>, ballots[s.d])
  BY DEF Distinct
<1>4. StateOK(p, e)
  BY <1>2, <1>3 DEF StateOK, Visiting
<1> QED
  BY <1>1, <1>2, <1>4

\* The status that the service reports is one of ApprovalStatus.
LEMMA ProjectType ==
    ASSUME NEW inst \in Instance PROVE Project(inst) \in {"PENDING", "IN_REVIEW"} \cup States
BY DEF Project, Instance, States

\* A caller enters the service or the engine.
LEMMA StartOK == ASSUME ApprovalInv, NEW c \in Calls, Start(c) PROVE ApprovalInv'
<1>1. PICK op \in OpsOf[c], d \in Decisions, a \in Actors, n \in Quorums :
        call' = [call EXCEPT ![c] = [@ EXCEPT !.pc = IF op = "create" THEN "probe" ELSE "lookup",
                                              !.op = op, !.d = d, !.actor = a, !.need = n]]
  BY DEF Start
<1> DEFINE pc == IF op = "create" THEN "probe" ELSE "lookup"
           s == [call[c] EXCEPT !.pc = pc, !.op = op, !.d = d, !.actor = a, !.need = n]
<1>2. c \in Procs /\ call' = [call EXCEPT ![c] = s]
  BY <1>1 DEF Procs
<1>3. op \in Operations /\ n \in Nat \ {0}
  BY ApprovalAssumption
<1>4. StateOK(c, call[c]) /\ call[c].pc = "idle"
  BY <1>2 DEF ApprovalInv, Start, At
<1>5. s \in CallState
  <2>1. op \in OpTypes
    BY <1>3 DEF Operations, StepTypes, OpTypes
  <2>2. pc \in Stages
    BY DEF AtStore, Stages
  <2> HIDE DEF pc
  <2> QED
    BY <1>3, <1>4, <2>1, <2>2 DEF StateOK, CallState
<1>6. /\ s.seen = NoRow /\ s.votes = <<>> /\ s.ans = "none" /\ s.todo = call[c].todo
      /\ s.pc \in {"probe", "lookup"} /\ (s.pc = "lookup" => s.op \in Moves) /\ s.d = d
  BY <1>1, <1>3, <1>4 DEF StateOK, CallState, Operations, Moves
<1> HIDE DEF s
<1>7. StateOK(c, s)
  BY <1>4, <1>5, <1>6, ApprovalAssumption DEF StateOK, Distinct, Visiting
<1> QED
  BY <1>2, <1>4, <1>7, LocalStep DEF Start, ApprovalInv, BaseOK

\* A step that only moves on.
LEMMA GotoOK ==
    ASSUME ApprovalInv, UNCHANGED <<row, overdue, quorum, faults, ballots>>,
           NEW p \in Procs, NEW pc \in Stages, pc # "idle", call[p].pc # "idle", Goto(p, pc),
           pc \in {"loop", "lookup", "check"} => call[p].seen = NoRow,
           pc \in {"write", "rewrite"} => call[p].seen # NoRow,
           pc \in Visiting => row[call[p].d] # NoRow,
           pc \in Visiting \cup {"lookup", "loop"} => call[p].op \in Moves
    PROVE  ApprovalInv'
<1> DEFINE s == [call[p] EXCEPT !.pc = pc]
<1>1. call' = [call EXCEPT ![p] = s]
  BY DEF Goto
<1>2. StateOK(p, call[p])
  BY DEF ApprovalInv
<1>3. /\ s \in CallState /\ s.pc = pc /\ s.seen = call[p].seen /\ s.votes = call[p].votes
      /\ s.d = call[p].d /\ s.op = call[p].op /\ s.todo = call[p].todo /\ s.ans = call[p].ans
      /\ s.need = call[p].need
  BY <1>2 DEF StateOK, CallState
<1> HIDE DEF s
<1>4. StateOK(p, s)
  BY <1>2, <1>3 DEF StateOK
<1> QED
  BY <1>1, <1>3, <1>4, LocalStep DEF ApprovalInv, BaseOK

\* A step that ends a call.
LEMMA ReturnOK ==
    ASSUME ApprovalInv, UNCHANGED <<row, overdue, quorum, faults, ballots>>,
           NEW p \in Procs, NEW ans \in Answers, call[p].pc # "idle", Return(p, ans),
           call[p].op = "create" /\ ans \in Calls
             => row[call[p].d] # NoRow /\ row[call[p].d].wid = ans
    PROVE  ApprovalInv'
<1> DEFINE s == Ended(call[p], ans)
<1>1. call' = [call EXCEPT ![p] = s]
  BY DEF Return
<1>2. StateOK(p, s) /\ s.pc = "done" /\ s.need = call[p].need
  BY EndedOK DEF ApprovalInv
<1> HIDE DEF s
<1> QED
  BY <1>1, <1>2, LocalStep DEF ApprovalInv, BaseOK

\* create_from_decision looks for an existing workflow.
LEMMA ProbeOK == ASSUME ApprovalInv, NEW c \in Calls, Probe(c) PROVE ApprovalInv'
<1>1. c \in Procs /\ call[c].pc = "probe" /\ StateOK(c, call[c])
  BY DEF Probe, At, Procs, ApprovalInv
<1>2. call[c].d \in Decisions
  BY <1>1 DEF StateOK, CallState
<1>3. CASE RowOf(c) # NoRow
  <2>1. RowOf(c).wid \in Answers
    BY <1>2, <1>3 DEF ApprovalInv, RowsSound, Sound, RowOf, Instance, Answers
  <2> QED
    BY <1>1, <1>3, <2>1, ReturnOK DEF Probe, RowOf
<1>4. CASE RowOf(c) = NoRow
  <2>1. "insert" \in Stages
    BY DEF Stages, AtStore
  <2> QED
    BY <1>1, <1>4, <2>1, GotoOK DEF Probe, Visiting
<1> QED
  BY <1>3, <1>4

\* The service looks for the workflow of the decision.
LEMMA LookupOK == ASSUME ApprovalInv, NEW c \in Calls, Lookup(c) PROVE ApprovalInv'
<1>1. c \in Procs /\ call[c].pc = "lookup" /\ StateOK(c, call[c])
  BY DEF Lookup, At, Procs, ApprovalInv
<1>2. call[c].seen = NoRow /\ call[c].op \in Moves
  BY <1>1 DEF StateOK
<1>3. CASE RowOf(c) = NoRow
  <2>1. "not_found" \in Answers /\ call[c].op # "create"
    BY <1>2 DEF Answers, Moves
  <2> QED
    BY <1>1, <1>3, <2>1, ReturnOK DEF Lookup
<1>4. CASE RowOf(c) # NoRow
  <2>1. PICK pc \in {"vote", "check", "read"} : Goto(c, pc)
    BY <1>4 DEF Lookup
  <2>2. pc \in Stages /\ pc # "idle" /\ pc \notin {"write", "rewrite"}
    BY DEF Stages, AtStore
  <2> QED
    BY <1>1, <1>2, <1>4, <2>1, <2>2, GotoOK DEF Lookup, RowOf
<1> QED
  BY <1>3, <1>4

\* A step that reads the stored instance.
LEMMA SeenOK ==
    ASSUME ApprovalInv, UNCHANGED <<row, overdue, quorum, faults, ballots>>,
           NEW p \in Procs, NEW pc \in {"read", "write"}, call[p].pc \in Visiting,
           call' = [call EXCEPT ![p] = [@ EXCEPT !.seen = RowOf(p), !.pc = pc]]
    PROVE  ApprovalInv'
<1> DEFINE s == [call[p] EXCEPT !.seen = RowOf(p), !.pc = pc]
<1>1. StateOK(p, call[p]) /\ call[p].d \in Decisions /\ call[p].op \in Moves /\ RowOf(p) # NoRow
  BY DEF ApprovalInv, StateOK, CallState, RowOf
<1>2. Sound(call[p].d, RowOf(p)) /\ RowOf(p) \in Stored
  BY <1>1 DEF ApprovalInv, BaseOK, RowsSound, RowOf
<1>3. pc \in Stages /\ pc # "idle" /\ call[p].pc # "idle"
  BY DEF Stages, AtStore, Visiting
<1>4. /\ s \in CallState /\ s.pc = pc /\ s.seen = RowOf(p) /\ s.votes = call[p].votes
      /\ s.d = call[p].d /\ s.op = call[p].op /\ s.todo = call[p].todo /\ s.ans = call[p].ans
      /\ s.need = call[p].need
  BY <1>1, <1>2, <1>3 DEF StateOK, CallState
<1>5. call' = [call EXCEPT ![p] = s]
  OBVIOUS
<1> HIDE DEF s
<1>6. StateOK(p, s)
  BY <1>1, <1>2, <1>3, <1>4 DEF StateOK, RowOf
<1> QED
  BY <1>3, <1>4, <1>5, <1>6, LocalStep DEF ApprovalInv, BaseOK

\* approve() reads the instance and counts the votes.
LEMMA CountOK == ASSUME ApprovalInv, NEW c \in Calls, Count(c) PROVE ApprovalInv'
<1>1. c \in Procs /\ call[c].pc \in Visiting
  BY DEF Count, At, Procs, Visiting
<1>2. (IF QuorumReached(c) THEN "read" ELSE "write") \in {"read", "write"}
  OBVIOUS
<1> QED
  BY <1>1, <1>2, SeenOK DEF Count

\* _transition and its like read the instance.
LEMMA ReadOK == ASSUME ApprovalInv, NEW p \in Procs, Read(p) PROVE ApprovalInv'
<1>1. call[p].pc \in Visiting
  BY DEF Read, At, Visiting
<1> QED
  BY <1>1, SeenOK DEF Read

\* revoke() and expire() look at the state before they act.
LEMMA CheckOK == ASSUME ApprovalInv, NEW p \in Procs, Check(p) PROVE ApprovalInv'
<1>1. call[p].pc = "check" /\ StateOK(p, call[p])
  BY DEF Check, At, ApprovalInv
<1>2. /\ call[p].seen = NoRow /\ call[p].op \in Moves /\ RowOf(p) # NoRow
      /\ call[p].d \in Decisions
  BY <1>1 DEF StateOK, Visiting, RowOf, CallState
<1>3. "read" \in Stages /\ "loop" \in Stages
  BY DEF Stages, AtStore
<1>4. CASE Goto(p, "read")
  BY <1>1, <1>2, <1>3, <1>4, GotoOK DEF Check, RowOf
<1>5. CASE Goto(p, "loop")
  BY <1>1, <1>2, <1>3, <1>5, GotoOK DEF Check, RowOf
<1>6. CASE Return(p, Project(RowOf(p)))
  <2>1. RowOf(p) \in Instance
    BY <1>2 DEF ApprovalInv, RowsSound, Sound, RowOf
  <2>2. Project(RowOf(p)) \in Answers /\ call[p].op # "create"
    BY <1>2, <2>1, ProjectType DEF Answers, Moves
  <2> QED
    BY <1>1, <1>6, <2>2, ReturnOK DEF Check
<1> QED
  BY <1>4, <1>5, <1>6 DEF Check

\* approve() returns what is stored then.
LEMMA RereadOK == ASSUME ApprovalInv, NEW c \in Calls, Reread(c) PROVE ApprovalInv'
<1>1. c \in Procs /\ call[c].pc = "reread" /\ StateOK(c, call[c])
  BY DEF Reread, At, ApprovalInv, Procs
<1>2. call[c].op \in Moves /\ RowOf(c) # NoRow /\ call[c].d \in Decisions
  BY <1>1 DEF StateOK, Visiting, RowOf, CallState
<1>3. RowOf(c) \in Instance
  BY <1>2 DEF ApprovalInv, RowsSound, Sound, RowOf
<1>4. Project(RowOf(c)) \in Answers /\ call[c].op # "create"
  BY <1>2, <1>3, ProjectType DEF Answers, Moves
<1> QED
  BY <1>1, <1>4, ReturnOK DEF Reread

-----------------------------------------------------------------------------
(* The passes, time and failures.                                          *)

\* A pass or the monitor starts from list_sla_breached.
LEMMA ListBreachedOK ==
    ASSUME ApprovalInv, NEW p \in Expirers \cup Monitors, ListBreached(p) PROVE ApprovalInv'
<1> DEFINE due == IF p \in Expirers THEN Breached ELSE {d \in Breached : row[d].esc}
           op == IF p \in Expirers THEN "expire" ELSE "escalate"
           s == [call[p] EXCEPT !.pc = "loop", !.todo = due, !.op = op]
<1>1. p \in Procs /\ p \notin Calls /\ call[p].pc = "idle" /\ StateOK(p, call[p])
  BY ApprovalAssumption DEF ListBreached, At, ApprovalInv, Procs
<1>2. due \in SUBSET Decisions /\ \A d \in due : row[d] # NoRow
  BY DEF Breached, InQueue, ApprovalInv, BaseOK
<1>3. op \in OpTypes /\ op \in Moves /\ op # "approve" /\ op # "create" /\ "loop" \in Stages
  BY DEF OpTypes, StepTypes, Moves, Stages
<1>4. call' = [call EXCEPT ![p] = s]
  BY DEF ListBreached
<1> HIDE DEF due, op
<1>5. /\ s \in CallState /\ s.pc = "loop" /\ s.seen = call[p].seen /\ s.votes = call[p].votes
      /\ s.d = call[p].d /\ s.op = op /\ s.todo = due /\ s.ans = call[p].ans
  BY <1>1, <1>2, <1>3 DEF StateOK, CallState
<1> HIDE DEF s
<1>6. StateOK(p, s)
  BY <1>1, <1>2, <1>3, <1>5 DEF StateOK, Visiting
<1> QED
  BY <1>1, <1>4, <1>6, LocalStep DEF ListBreached, ApprovalInv, BaseOK

\* It takes the listed decisions one after the other.
LEMMA TakeNextOK ==
    ASSUME ApprovalInv, NEW p \in Expirers \cup Monitors, TakeNext(p) PROVE ApprovalInv'
<1>1. p \in Procs /\ p \notin Calls /\ call[p].pc = "loop" /\ StateOK(p, call[p])
  BY ApprovalAssumption DEF TakeNext, At, ApprovalInv, Procs
<1>2. CASE call[p].todo = {}
  BY <1>1, <1>2, IdleOK, LocalStep DEF TakeNext, ApprovalInv, BaseOK
<1>3. CASE call[p].todo # {}
  <2>1. PICK d \in call[p].todo :
          call' = [call EXCEPT ![p] =
                     [@ EXCEPT !.todo = call[p].todo \ {d}, !.d = d,
                               !.pc = IF p \in Expirers THEN "check" ELSE "read"]]
    BY <1>3 DEF TakeNext
  <2> DEFINE pc == IF p \in Expirers THEN "check" ELSE "read"
             todo == call[p].todo \ {d}
             s == [call[p] EXCEPT !.todo = todo, !.d = d, !.pc = pc]
  <2>2. pc \in Stages /\ pc # "idle" /\ pc \in {"check", "read"}
    BY DEF Stages, AtStore
  <2>3. d \in Decisions /\ todo \in SUBSET Decisions /\ row[d] # NoRow /\ todo \subseteq call[p].todo
    BY <1>1 DEF StateOK, CallState
  <2>4. call' = [call EXCEPT ![p] = s]
    BY <2>1
  <2> HIDE DEF pc, todo
  <2>5. /\ s \in CallState /\ s.pc = pc /\ s.seen = call[p].seen /\ s.votes = call[p].votes
        /\ s.d = d /\ s.op = call[p].op /\ s.todo = todo /\ s.ans = call[p].ans
    BY <1>1, <2>2, <2>3 DEF StateOK, CallState
  <2>6. s.votes = <<>> /\ s.seen = NoRow /\ s.op \in Moves /\ s.op # "create" /\ s.op # "approve"
    <3>1. call[p].op \in Moves /\ "create" \notin Moves
      BY <1>1 DEF StateOK, Moves
    <3> QED
      BY <1>1, <2>5, <3>1 DEF StateOK
  <2> HIDE DEF s
  <2>7. Distinct(s.votes, ballots[s.d])
    BY <2>6 DEF Distinct
  <2>8. StateOK(p, s)
    BY <1>1, <2>2, <2>3, <2>5, <2>6, <2>7 DEF StateOK
  <2> QED
    BY <1>1, <2>4, <2>8, LocalStep DEF TakeNext, ApprovalInv, BaseOK
<1> QED
  BY <1>2, <1>3

\* A repository error ends the call, or sends approve() to its finally block.
LEMMA StoreFailsOK == ASSUME ApprovalInv, NEW p \in Procs, StoreFails(p) PROVE ApprovalInv'
<1> DEFINE s == Raised(p)
<1>1. StateOK(p, call[p]) /\ call[p].pc \in AtStore /\ call[p].pc # "idle"
  BY DEF StoreFails, ApprovalInv, AtStore
<1>2. call' = [call EXCEPT ![p] = s] /\ faults' \in 0 .. MaxFaults
  BY ApprovalAssumption DEF StoreFails, ApprovalInv, BaseOK
<1>3. StateOK(p, s) /\ (p \in Calls => s.pc # "idle" /\ s.need = call[p].need)
  <2>1. CASE p \notin Calls
    BY <2>1, IdleOK DEF Raised
  <2>2. CASE p \in Calls /\ s = Ended(call[p], "error")
    <3>1. "error" \in Answers /\ "error" \notin Calls
      BY ApprovalAssumption DEF Answers
    <3> QED
      BY <1>1, <2>2, <3>1, EndedOK
  <2>3. CASE /\ p \in Calls /\ call[p].pc \in {"read", "write", "rewrite"}
             /\ s = [call[p] EXCEPT !.pc = "clear", !.ans = "error"]
    <3> HIDE DEF s
    <3>1. "error" \in Answers /\ "error" \notin Calls /\ "clear" \in Stages
      BY ApprovalAssumption DEF Answers, Stages
    <3>2. /\ s \in CallState /\ s.pc = "clear" /\ s.seen = call[p].seen /\ s.votes = call[p].votes
          /\ s.d = call[p].d /\ s.op = call[p].op /\ s.todo = call[p].todo /\ s.ans = "error"
          /\ s.need = call[p].need
      BY <1>1, <2>3, <3>1 DEF StateOK, CallState
    <3> QED
      BY <1>1, <2>3, <3>1, <3>2 DEF StateOK, Visiting
  <2> QED
    BY <2>1, <2>2, <2>3 DEF Raised
<1> HIDE DEF s
<1> QED
  BY <1>1, <1>2, <1>3, LocalStep DEF StoreFails, ApprovalInv, BaseOK

\* The SLA window of a workflow elapses.
LEMMA BreachOK == ASSUME ApprovalInv, NEW d \in Decisions, Breach(d) PROVE ApprovalInv'
<1>1. Grows
  BY DEF Breach, Grows, ApprovalInv, BaseOK
<1>2. ASSUME NEW p \in Procs PROVE StateOK(p, call[p])'
  <2>1. PICK v : v = call[p]
    OBVIOUS
  <2>2. StateOK(p, v)'
    BY <1>1, <2>1, StateStable DEF ApprovalInv
  <2> QED
    BY <2>1, <2>2 DEF Breach, StateOK
<1>3. RowsSound' /\ VotesInv'
  BY <1>1, RowsStable, VotesStable DEF RowsSound, Breach
<1> QED
  BY <1>2, <1>3 DEF Breach, ApprovalInv, BaseOK

\* A step that leaves tables and calls alone keeps them sound.
LEMMA CallsKept ==
    ASSUME ApprovalInv, UNCHANGED <<row, overdue, call, faults, ballots>>,
           quorum' \in [Replicas -> [Decisions -> [actors : Seq(Actors), stale : BOOLEAN]]],
           VotesInv'
    PROVE  ApprovalInv'
<1>1. Grows
  BY DEF Grows, ApprovalInv, BaseOK
<1>2. ASSUME NEW p \in Procs PROVE StateOK(p, call[p])'
  <2>1. PICK v : v = call[p]
    OBVIOUS
  <2>2. StateOK(p, v)'
    BY <1>1, <2>1, StateStable DEF ApprovalInv
  <2> QED
    BY <2>1, <2>2 DEF StateOK
<1>3. RowsSound'
  BY <1>1, RowsStable DEF RowsSound
<1> QED
  BY <1>2, <1>3 DEF ApprovalInv, BaseOK

\* A quorum entry grows old.
LEMMA TtlPassesOK ==
    ASSUME ApprovalInv, NEW r \in Replicas, NEW d \in Decisions, TtlPasses(r, d)
    PROVE  ApprovalInv'
<1> DEFINE Entry == [actors : Seq(Actors), stale : BOOLEAN]
           old == [quorum[r][d] EXCEPT !.stale = TRUE]
<1>0. /\ quorum \in [Replicas -> [Decisions -> Entry]]
      /\ quorum' = [quorum EXCEPT ![r] = [@ EXCEPT ![d] = old]]
      /\ old \in Entry /\ old.actors = quorum[r][d].actors
  <2>1. quorum \in [Replicas -> [Decisions -> Entry]]
    BY DEF ApprovalInv, BaseOK
  <2>2. quorum' = [quorum EXCEPT ![r] = [@ EXCEPT ![d] = old]]
    BY Zenon DEF TtlPasses
  <2>3. PICK v : v = quorum[r][d]
    OBVIOUS
  <2>4. v \in Entry
    <3> HIDE DEF Entry
    <3> QED
      BY <2>1, <2>3
  <2>5. [v EXCEPT !.stale = TRUE] \in Entry /\ [v EXCEPT !.stale = TRUE].actors = v.actors
    BY <2>4
  <2> QED
    BY <2>1, <2>2, <2>3, <2>5
<1> HIDE DEF old, Entry
<1>1. quorum' \in [Replicas -> [Decisions -> Entry]]
  BY <1>0
<1>2. ASSUME NEW q \in Replicas, NEW e \in Decisions
      PROVE  quorum'[q][e].actors = quorum[q][e].actors
  BY <1>0
<1>3. VotesInv'
  BY <1>2 DEF VotesInv, TtlPasses, ApprovalInv
<1> QED
  BY <1>1, <1>3, CallsKept DEF TtlPasses, Entry

\* A replica stops: its calls end, its votes are gone.
LEMMA CrashOK == ASSUME ApprovalInv, NEW r \in Replicas, Crash(r) PROVE ApprovalInv'
<1> DEFINE State(p) == IF HomeOf[p] # r \/ call[p].pc \in {"idle", "done"} THEN call[p]
                       ELSE IF p \in Calls THEN Ended(call[p], "crashed") ELSE Idle
<1>1. call' = [p \in Procs |-> State(p)] /\ UNCHANGED <<row, overdue, ballots>>
  BY DEF Crash
<1>2. ASSUME NEW p \in Procs
      PROVE  /\ StateOK(p, State(p))
             /\ p \in Calls /\ call[p].pc # "idle"
                  => State(p).pc # "idle" /\ State(p).need = call[p].need
  <2>1. StateOK(p, call[p]) /\ "crashed" \in Answers /\ "crashed" \notin Calls
    BY ApprovalAssumption DEF ApprovalInv, Answers
  <2>2. CASE State(p) = call[p]
    BY <2>1, <2>2
  <2>3. CASE State(p) = Idle /\ p \notin Calls
    BY <2>3, IdleOK
  <2>4. CASE State(p) = Ended(call[p], "crashed") /\ call[p].pc # "idle"
    BY <2>1, <2>4, EndedOK
  <2> QED
    BY <2>2, <2>3, <2>4
<1> HIDE DEF State
<1>3. Grows
  BY <1>1, <1>2 DEF Grows, ApprovalInv, BaseOK, Procs
<1>4. ASSUME NEW p \in Procs PROVE StateOK(p, call[p])'
  <2>1. PICK v : v = State(p)
    OBVIOUS
  <2>2. StateOK(p, v)'
    BY <1>2, <1>3, <2>1, StateStable
  <2>3. call'[p] = v
    BY <1>1, <2>1
  <2> QED
    BY <2>2, <2>3 DEF StateOK
<1>5. RowsSound'
  BY <1>1, <1>3, RowsStable DEF RowsSound
<1>6. /\ quorum' \in [Replicas -> [Decisions -> [actors : Seq(Actors), stale : BOOLEAN]]]
      /\ faults' \in 0 .. MaxFaults
  BY ApprovalAssumption, NoVotesOK DEF Crash, ApprovalInv, BaseOK
<1>7. VotesInv'
  BY <1>1, NoVotesOK DEF Crash, ApprovalInv, BaseOK, VotesInv
<1> QED
  BY <1>1, <1>4, <1>5, <1>6, <1>7 DEF ApprovalInv, BaseOK

-----------------------------------------------------------------------------
(* The steps that write.                                                   *)

\* repo.update: p stores a sound instance for its decision.
LEMMA StoreStep ==
    ASSUME ApprovalInv, UNCHANGED <<overdue, quorum, faults, ballots>>,
           NEW p \in Procs, NEW d \in Decisions, NEW inst, Sound(d, inst),
           row' = [row EXCEPT ![d] = inst],
           NEW s, call' = [call EXCEPT ![p] = s], StateOK(p, s),
           s.pc # "idle" /\ s.need = call[p].need
    PROVE  ApprovalInv'
<1>1. inst \in Instance /\ inst # NoRow /\ row[d] # NoRow /\ inst.wid = row[d].wid
  BY NoRowAssumption DEF Sound
<1>2. row \in [Decisions -> Stored] /\ inst \in Stored /\ DOMAIN call = Procs
  BY <1>1 DEF ApprovalInv, BaseOK, Stored
<1>3. Grows
  BY <1>1, <1>2 DEF Grows, ApprovalInv, BaseOK, Procs
<1>4. ASSUME NEW e \in Decisions, row'[e] # NoRow PROVE Sound(e, row[e])'
  <2>1. CASE e = d
    <3>1. Sound(d, inst)' /\ row'[d] = inst
      BY <1>2, <1>3, SoundStable
    <3> QED
      BY <2>1, <3>1 DEF Sound
  <2>2. CASE e # d
    BY <1>2, <1>3, <1>4, <2>2, RowsStable
  <2> QED
    BY <2>1, <2>2
<1>5. BaseOK'
  BY <1>2 DEF ApprovalInv, BaseOK
<1> QED
  BY <1>3, <1>4, <1>5, VotesStable, StateStable, Preserved DEF RowsSound

\* approve() stores the approved instance a second time.
LEMMA RewriteOK == ASSUME ApprovalInv, NEW c \in Calls, Rewrite(c) PROVE ApprovalInv'
<1> DEFINE s == [call[c] EXCEPT !.pc = "clear"]
<1>1. c \in Procs /\ call[c].pc = "rewrite" /\ StateOK(c, call[c])
  BY DEF Rewrite, At, ApprovalInv, Procs
<1>2. call[c].d \in Decisions /\ Sound(call[c].d, call[c].seen)
  BY <1>1 DEF StateOK, CallState
<1>3. "clear" \in Stages
  BY DEF Stages
<1>4. /\ s \in CallState /\ s.pc = "clear" /\ s.seen = call[c].seen /\ s.votes = call[c].votes
      /\ s.d = call[c].d /\ s.op = call[c].op /\ s.todo = call[c].todo /\ s.ans = call[c].ans
      /\ s.need = call[c].need
  BY <1>1, <1>3 DEF StateOK, CallState
<1>5. call' = [call EXCEPT ![c] = s]
  BY DEF Rewrite, Goto
<1> HIDE DEF s
<1>6. StateOK(c, s)
  BY <1>1, <1>4 DEF StateOK, Visiting
<1> QED
  BY <1>1, <1>2, <1>4, <1>5, <1>6, StoreStep DEF Rewrite

\* The instance that p is about to write is sound; an approval has its quorum.
LEMMA WrittenIsSound ==
    ASSUME ApprovalInv, NEW p \in Procs, call[p].pc = "write"
    PROVE  /\ StepType(p) \in StepTypes
           /\ Sound(call[p].d, AddStep(call[p].seen, StepType(p), p))
<1> DEFINE d == call[p].d
           type == StepType(p)
           old == call[p].seen
           inst == AddStep(old, type, p)
<1>1. /\ StateOK(p, call[p]) /\ d \in Decisions /\ Sound(d, old) /\ call[p].op \in Moves
      /\ call[p].need \in Nat /\ ballots[d] \in SUBSET Actors
  BY DEF ApprovalInv, BaseOK, StateOK, CallState, Visiting
<1>2. type \in StepTypes /\ (type = "approve" => call[p].op = "approve" /\ QuorumReached(p))
  BY <1>1 DEF StepType, Moves, StepTypes
<1>3. ASSUME type = "approve" PROVE Backed(d, p)
  <2>1. p \in Calls /\ Len(call[p].votes) >= call[p].need
    BY <1>1, <1>2, <1>3 DEF StateOK, QuorumReached
  <2>2. Distinct(call[p].votes, ballots[d])
    BY <1>1 DEF StateOK
  <2>3. Len(call[p].votes) <= Cardinality(ballots[d]) /\ Len(call[p].votes) \in Nat
    BY <1>1, <2>2, VotesAreVoters DEF Distinct
  <2>4. Cardinality(ballots[d]) \in Nat
    BY <1>1, ApprovalAssumption, FS_Subset, FS_CardinalityType
  <2> QED
    BY <1>1, <2>1, <2>3, <2>4 DEF Backed
<1>4. old \in Instance /\ Explains(old.steps, old.state)
  BY <1>1 DEF Sound
<1> HIDE DEF d, type, old
<1>5. /\ inst \in Instance /\ inst.wid = old.wid /\ Explains(inst.steps, inst.state)
      /\ inst.steps = Append(old.steps, [type |-> type, by |-> p])
  BY <1>2, <1>4, AddStepExplains
<1> HIDE DEF inst
<1>6. ASSUME NEW i \in DOMAIN inst.steps, inst.steps[i].type = "approve"
      PROVE  Backed(d, inst.steps[i].by)
  <2>1. old.steps \in Seq([type : StepTypes, by : Procs])
    BY <1>4 DEF Instance
  <2>2. PICK step : step = [type |-> type, by |-> p]
    OBVIOUS
  <2>3. inst.steps = Append(old.steps, step) /\ step \in [type : StepTypes, by : Procs]
    BY <1>2, <1>5, <2>2
  <2>4. \/ i \in DOMAIN old.steps /\ inst.steps[i] = old.steps[i]
        \/ inst.steps[i] = step
    BY <2>1, <2>3
  <2>5. CASE i \in DOMAIN old.steps /\ inst.steps[i] = old.steps[i]
    BY <1>1, <1>6, <2>5 DEF Sound
  <2>6. CASE inst.steps[i] = step
    BY <1>3, <1>6, <2>2, <2>6
  <2> QED
    BY <2>4, <2>5, <2>6
<1>7. Sound(d, inst)
  BY <1>1, <1>5, <1>6 DEF Sound
<1> QED
  BY <1>2, <1>7 DEF d, type, old, inst

\* repo.update after add_step.
LEMMA WriteOK == ASSUME ApprovalInv, NEW p \in Procs, Write(p) PROVE ApprovalInv'
<1> DEFINE d == call[p].d
<1>1. PICK inst : inst = AddStep(call[p].seen, StepType(p), p)
  OBVIOUS
<1>2. call[p].pc = "write" /\ StateOK(p, call[p])
  BY DEF Write, At, ApprovalInv
<1>3. /\ d \in Decisions /\ Sound(d, inst) /\ call[p].op \in Moves /\ row[d] # NoRow
      /\ inst \in Instance /\ inst # NoRow /\ inst \in Stored
  BY <1>1, <1>2, WrittenIsSound, NoRowAssumption DEF StateOK, CallState, Visiting, Sound, Stored
<1>4. row' = [row EXCEPT ![d] = inst] /\ UNCHANGED <<overdue, quorum, faults, ballots>>
  BY <1>1 DEF Write
<1>5. "rewrite" \in Stages /\ "reread" \in Stages /\ "loop" \in Stages /\ NoRow \in Stored
  BY DEF Stages, AtStore, Stored
<1>6. ASSUME NEW pc \in {"rewrite", "reread", "loop"}, NEW seen \in Stored, NEW s,
             s = [call[p] EXCEPT !.seen = seen, !.pc = pc], call' = [call EXCEPT ![p] = s],
             seen # NoRow => Sound(d, seen),
             pc = "rewrite" => seen # NoRow, pc = "loop" => seen = NoRow
      PROVE  ApprovalInv'
  <2>1. pc \in Stages
    BY <1>5
  <2>2. /\ s \in CallState /\ s.pc = pc /\ s.seen = seen /\ s.votes = call[p].votes
        /\ s.d = d /\ s.op = call[p].op /\ s.todo = call[p].todo /\ s.ans = call[p].ans
        /\ s.need = call[p].need
    BY <1>2, <1>6, <2>1 DEF StateOK, CallState
  <2>3. StateOK(p, s)
    BY <1>2, <1>3, <1>6, <2>2 DEF StateOK
  <2> QED
    BY <1>3, <1>4, <1>6, <2>2, <2>3, StoreStep
<1>7. CASE call' = [call EXCEPT ![p] = [@ EXCEPT !.seen = inst, !.pc = "rewrite"]]
  BY <1>3, <1>6, <1>7
<1>8. CASE call' = [call EXCEPT ![p] = [@ EXCEPT !.seen = NoRow, !.pc = "loop"]]
  BY <1>5, <1>6, <1>8
<1>9. CASE Goto(p, "reread")
  <2>1. PICK s : s = [call[p] EXCEPT !.pc = "reread"]
    OBVIOUS
  <2>2. call' = [call EXCEPT ![p] = s]
    BY <1>9, <2>1 DEF Goto
  <2>3. /\ s \in CallState /\ s.pc = "reread" /\ s.seen = call[p].seen /\ s.votes = call[p].votes
        /\ s.d = d /\ s.op = call[p].op /\ s.todo = call[p].todo /\ s.ans = call[p].ans
        /\ s.need = call[p].need
    BY <1>2, <1>5, <2>1 DEF StateOK, CallState
  <2>4. StateOK(p, s)
    BY <1>2, <1>3, <2>3 DEF StateOK
  <2> QED
    BY <1>3, <1>4, <2>2, <2>3, <2>4, StoreStep
<1>10. CASE Return(p, Project(inst))
  <2>1. Project(inst) \in Answers /\ call[p].op # "create" /\ call[p].pc # "idle"
    BY <1>2, <1>3, ProjectType DEF Answers, Moves
  <2>2. PICK s : s = Ended(call[p], Project(inst))
    OBVIOUS
  <2>3. StateOK(p, s) /\ s.pc # "idle" /\ s.need = call[p].need
    BY <1>2, <2>1, <2>2, EndedOK
  <2>4. call' = [call EXCEPT ![p] = s]
    BY <1>10, <2>2 DEF Return
  <2> QED
    BY <1>3, <1>4, <2>3, <2>4, StoreStep
<1> QED
  BY <1>1, <1>7, <1>8, <1>9, <1>10 DEF Write

\* The INSERT: the first one stores a new workflow, a second one raises.
LEMMA InsertOK == ASSUME ApprovalInv, NEW c \in Calls, Insert(c) PROVE ApprovalInv'
<1> DEFINE d == call[c].d
<1>1. c \in Procs /\ call[c].pc = "insert" /\ StateOK(c, call[c])
  BY DEF Insert, At, ApprovalInv, Procs
<1>2. d \in Decisions /\ call[c] \in CallState /\ c \in Answers
  BY <1>1 DEF StateOK, CallState, Answers
<1>3. CASE RowOf(c) # NoRow
  <2>1. "error" \in Answers /\ "error" \notin Calls
    BY ApprovalAssumption DEF Answers
  <2> QED
    BY <1>1, <1>3, <2>1, ReturnOK DEF Insert
<1>4. CASE RowOf(c) = NoRow
  <2>1. PICK inst : inst = NewInstance(c)
    OBVIOUS
  <2>2. PICK steps : steps = <<>>
    OBVIOUS
  <2>3. inst = [wid |-> c, state |-> "pending", steps |-> steps, esc |-> FALSE]
    BY <2>1, <2>2 DEF NewInstance
  <2>4. steps \in Seq([type : StepTypes, by : Procs]) /\ DOMAIN steps = {} /\ "pending" \in States
    BY <2>2 DEF States
  <2>5. inst \in Instance /\ inst.wid = c /\ inst.steps = steps /\ inst.state = "pending"
    BY <2>3, <2>4 DEF Instance
  <2>6. Explains(inst.steps, inst.state)
    BY <2>4, <2>5 DEF Explains
  <2>7. inst # NoRow /\ inst \in Stored
    BY <2>5, NoRowAssumption DEF Stored
  <2>8. PICK s : s = Ended(call[c], c)
    OBVIOUS
  <2>9. /\ row' = [row EXCEPT ![d] = inst] /\ call' = [call EXCEPT ![c] = s]
        /\ UNCHANGED <<overdue, quorum, faults, ballots>>
    BY <1>4, <2>1, <2>8 DEF Insert, Return
  <2>10. /\ s \in CallState /\ s.pc = "done" /\ s.ans = c /\ s.seen = NoRow /\ s.votes = <<>>
         /\ s.d = d /\ s.op = call[c].op /\ s.need = call[c].need /\ s.todo = call[c].todo
    BY <1>2, <2>8, EndedFields
  <2>11. row \in [Decisions -> Stored] /\ row[d] = NoRow /\ DOMAIN call = Procs
    BY <1>4 DEF ApprovalInv, BaseOK, RowOf
  <2>12. row'[d] = inst /\ \A e \in Decisions : row[e] # NoRow => row'[e] = row[e]
    BY <1>2, <2>9, <2>11
  <2>13. Grows
    BY <1>1, <2>9, <2>10, <2>11, <2>12 DEF Grows, ApprovalInv, BaseOK, Procs
  <2>14. BaseOK'
    BY <1>2, <2>7, <2>9, <2>11 DEF ApprovalInv, BaseOK
  <2>15. RowsSound'
    <3>1. ASSUME NEW e \in Decisions, row'[e] # NoRow PROVE Sound(e, row[e])'
      <4>1. CASE e = d
        BY <2>4, <2>5, <2>6, <2>7, <2>12, <4>1 DEF Sound
      <4>2. CASE e # d
        BY <2>9, <2>11, <2>13, <3>1, <4>2, RowsStable
      <4> QED
        BY <4>1, <4>2
    <3> QED
      BY <3>1 DEF RowsSound
  <2>16. StateOK(c, s)'
    <3>1. Distinct(<<>>, ballots'[d])
      <4>1. <<>> = NoVotes.actors
        BY DEF NoVotes
      <4> QED
        BY <4>1, NoVotesOK
    <3>2. \A e \in call[c].todo : e \in Decisions /\ row[e] # NoRow
      BY <1>1, <1>2 DEF StateOK, CallState
    <3>3. \A e \in call[c].todo : row'[e] # NoRow
      BY <2>12, <3>2
    <3>4. Distinct(s.votes, ballots'[s.d]) /\ \A e \in s.todo : row'[e] # NoRow
      BY <2>10, <3>1, <3>3
    <3>5. row'[s.d] # NoRow /\ row'[s.d].wid = s.ans
      BY <2>5, <2>7, <2>10, <2>12
    <3>6. /\ s.pc \notin Visiting /\ s.pc \notin {"write", "rewrite"} /\ s.pc # "idle"
          /\ s.pc \notin Visiting \cup {"lookup", "loop"}
      BY <2>10 DEF Visiting
    <3>7. s \in CallState /\ s.seen = NoRow
      BY <2>10
    <3> QED
      BY <3>4, <3>5, <3>6, <3>7 DEF StateOK
  <2> QED
    BY <1>1, <2>9, <2>13, <2>14, <2>15, <2>16, VotesStable, Preserved
<1> QED
  BY <1>3, <1>4

\* The locked section of approve(): a reviewer's vote joins those in memory.
LEMMA VoteOK == ASSUME ApprovalInv, NEW c \in Calls, Vote(c) PROVE ApprovalInv'
<1> DEFINE d == call[c].d
           h == HomeOf[c]
           Entry == [actors : Seq(Actors), stale : BOOLEAN]
<1>1. PICK entries : entries = Evict(quorum[h])
  OBVIOUS
<1>2. PICK actors : actors = WithVote(entries[d].actors, call[c].actor)
  OBVIOUS
<1>3. PICK new : new = [entries[d] EXCEPT !.actors = actors]
  OBVIOUS
<1>4. PICK s : s = [call[c] EXCEPT !.pc = "count", !.votes = actors]
  OBVIOUS
<1>5. c \in Procs /\ call[c].pc = "vote" /\ StateOK(c, call[c]) /\ h \in Replicas
  BY ApprovalAssumption DEF Vote, At, ApprovalInv, Procs
<1>6. d \in Decisions /\ call[c].actor \in Actors /\ call[c] \in CallState
  BY <1>5 DEF StateOK, CallState
<1>7. /\ quorum \in [Replicas -> [Decisions -> Entry]] /\ DOMAIN call = Procs
      /\ ballots \in [Decisions -> SUBSET Actors]
  BY DEF ApprovalInv, BaseOK
<1>8. /\ quorum' = [quorum EXCEPT ![h] = [entries EXCEPT ![d] = new]]
      /\ ballots' = [ballots EXCEPT ![d] = @ \cup {call[c].actor}]
      /\ call' = [call EXCEPT ![c] = s]
      /\ UNCHANGED <<row, overdue, faults>>
  BY <1>1, <1>2, <1>3, <1>4, Zenon DEF Vote
<1> HIDE DEF Entry
<1>9. ASSUME NEW e \in Decisions
      PROVE  entries[e] \in Entry /\ Distinct(entries[e].actors, ballots[e])
  <2>1. NoVotes \in Entry /\ Distinct(NoVotes.actors, ballots[e])
    BY NoVotesOK DEF Entry
  <2>2. quorum[h][e] \in Entry /\ Distinct(quorum[h][e].actors, ballots[e])
    BY <1>5, <1>7 DEF ApprovalInv, VotesInv
  <2>3. entries[e] = NoVotes \/ entries[e] = quorum[h][e]
    BY <1>1 DEF Evict
  <2> QED
    BY <2>1, <2>2, <2>3
<1>10. entries \in [Decisions -> Entry]
  <2>1. entries = [e \in Decisions |-> entries[e]]
    BY <1>1 DEF Evict
  <2> QED
    BY <1>9, <2>1
<1>11. ballots'[d] = ballots[d] \cup {call[c].actor}
  BY <1>6, <1>7, <1>8
<1>12. Distinct(actors, ballots'[d]) /\ actors \in Seq(Actors)
  <2>1. Distinct(entries[d].actors, ballots[d])
    BY <1>6, <1>9
  <2>2. Distinct(actors, ballots[d] \cup {call[c].actor})
    BY <1>2, <1>6, <2>1, WithVoteIsDistinct
  <2>3. Distinct(actors, ballots'[d])
    BY <1>11, <2>2
  <2> QED
    BY <2>3 DEF Distinct
<1>13. new \in Entry /\ new.actors = actors
  BY <1>3, <1>6, <1>9, <1>12 DEF Entry
<1>14. "count" \in Stages
  BY DEF Stages, AtStore
<1>15. /\ s \in CallState /\ s.pc = "count" /\ s.seen = call[c].seen /\ s.votes = actors
       /\ s.d = d /\ s.op = call[c].op /\ s.todo = call[c].todo /\ s.ans = call[c].ans
       /\ s.need = call[c].need
  BY <1>4, <1>6, <1>12, <1>14 DEF CallState
<1>16. Grows
  BY <1>5, <1>6, <1>7, <1>8, <1>15 DEF Grows, Procs
<1>17. BaseOK'
  <2>1. quorum' \in [Replicas -> [Decisions -> Entry]]
    BY <1>5, <1>6, <1>7, <1>8, <1>10, <1>13
  <2>2. ballots' \in [Decisions -> SUBSET Actors]
    BY <1>6, <1>7, <1>8
  <2> QED
    BY <1>8, <2>1, <2>2 DEF ApprovalInv, BaseOK, Entry
<1>18. VotesInv'
  <2>1. ASSUME NEW r \in Replicas, NEW e \in Decisions
        PROVE  Distinct(quorum'[r][e].actors, ballots'[e])
    <3>1. CASE r = h /\ e = d
      BY <1>5, <1>6, <1>7, <1>8, <1>10, <1>12, <1>13, <3>1
    <3>2. CASE ~(r = h /\ e = d)
      <4>1. Distinct(quorum'[r][e].actors, ballots[e])
        <5>1. CASE r # h
          BY <1>5, <1>7, <1>8, <5>1 DEF ApprovalInv, VotesInv
        <5>2. CASE r = h /\ e # d
          BY <1>5, <1>7, <1>8, <1>9, <1>10, <5>2
        <5> QED
          BY <3>2, <5>1, <5>2
      <4>2. ballots[e] \subseteq ballots'[e]
        BY <1>16 DEF Grows
      <4> QED
        BY <4>1, <4>2 DEF Distinct
    <3> QED
      BY <3>1, <3>2
  <2> QED
    BY <2>1 DEF VotesInv
<1>19. RowsSound'
  BY <1>8, <1>16, RowsStable DEF RowsSound
<1>20. StateOK(c, s)'
  <2>1. PICK v : v = call[c]
    OBVIOUS
  <2>2. StateOK(c, v)'
    BY <1>5, <1>16, <2>1, StateStable
  <2>3. v.pc = "vote"
    BY <1>5, <2>1
  <2> QED
    BY <1>12, <1>15, <2>1, <2>2, <2>3 DEF StateOK, Visiting
<1> QED
  BY <1>5, <1>8, <1>16, <1>17, <1>18, <1>19, <1>20, Preserved

\* The finally block of approve() drops the votes.
LEMMA ClearOK == ASSUME ApprovalInv, NEW c \in Calls, Clear(c) PROVE ApprovalInv'
<1> DEFINE d == call[c].d
           h == HomeOf[c]
           Entry == [actors : Seq(Actors), stale : BOOLEAN]
<1>1. c \in Procs /\ call[c].pc = "clear" /\ StateOK(c, call[c]) /\ h \in Replicas
  BY ApprovalAssumption DEF Clear, At, ApprovalInv, Procs
<1>2. d \in Decisions /\ call[c] \in CallState /\ call[c].op \in Moves /\ row[d] # NoRow
  BY <1>1 DEF StateOK, CallState, Visiting
<1>3. quorum \in [Replicas -> [Decisions -> Entry]] /\ DOMAIN call = Procs /\ NoVotes \in Entry
  BY NoVotesOK DEF ApprovalInv, BaseOK
<1>4. /\ quorum' = [quorum EXCEPT ![h] = [@ EXCEPT ![d] = NoVotes]]
      /\ UNCHANGED <<row, overdue, faults, ballots>>
  BY DEF Clear
<1>5. PICK s : /\ call' = [call EXCEPT ![c] = s] /\ StateOK(c, s)
               /\ s.pc # "idle" /\ s.need = call[c].need
  <2>1. CASE Return(c, "error")
    <3>1. "error" \in Answers /\ call[c].op # "create" /\ call[c].pc # "idle"
      BY <1>1, <1>2 DEF Answers, Moves
    <3> QED
      BY <1>1, <2>1, <3>1, EndedOK DEF Return
  <2>2. CASE Goto(c, "reread")
    <3>1. PICK s : s = [call[c] EXCEPT !.pc = "reread"]
      OBVIOUS
    <3>2. "reread" \in Stages
      BY DEF Stages, AtStore
    <3>3. /\ s \in CallState /\ s.pc = "reread" /\ s.seen = call[c].seen /\ s.votes = call[c].votes
          /\ s.d = d /\ s.op = call[c].op /\ s.todo = call[c].todo /\ s.ans = call[c].ans
          /\ s.need = call[c].need
      BY <1>2, <3>1, <3>2 DEF CallState
    <3>4. StateOK(c, s)
      BY <1>1, <1>2, <3>3 DEF StateOK
    <3> QED
      BY <2>2, <3>1, <3>3, <3>4 DEF Goto
  <2> QED
    BY <2>1, <2>2 DEF Clear
<1> HIDE DEF Entry
<1>6. Grows
  BY <1>1, <1>3, <1>4, <1>5 DEF Grows, ApprovalInv, BaseOK, Procs
<1>7. quorum' \in [Replicas -> [Decisions -> Entry]]
  BY <1>1, <1>2, <1>3, <1>4
<1>8. BaseOK'
  BY <1>4, <1>7 DEF ApprovalInv, BaseOK, Entry
<1>9. ASSUME NEW r \in Replicas, NEW e \in Decisions
      PROVE  Distinct(quorum'[r][e].actors, ballots'[e])
  <2>1. quorum'[r][e] = NoVotes \/ quorum'[r][e] = quorum[r][e]
    BY <1>1, <1>2, <1>3, <1>4
  <2>2. ballots'[e] = ballots[e] /\ Distinct(quorum[r][e].actors, ballots[e])
    BY <1>4 DEF ApprovalInv, VotesInv
  <2> QED
    BY <2>1, <2>2, NoVotesOK
<1>10. VotesInv' /\ RowsSound'
  BY <1>4, <1>6, <1>9, RowsStable DEF VotesInv, RowsSound
<1> QED
  BY <1>1, <1>5, <1>6, <1>8, <1>10, StateStable, Preserved

-----------------------------------------------------------------------------
(* The theorems.                                                           *)

\* Every step keeps the invariant.
LEMMA InvNext == ApprovalInv /\ [Next]_vars => ApprovalInv'
<1> SUFFICES ASSUME ApprovalInv, [Next]_vars PROVE ApprovalInv'
  OBVIOUS
<1>1. ASSUME NEW c \in Calls, Start(c) \/ CallStep(c) PROVE ApprovalInv'
  BY <1>1, StartOK, ProbeOK, InsertOK, LookupOK, VoteOK, CountOK, RewriteOK, ClearOK, RereadOK
  DEF CallStep
<1>2. ASSUME NEW p \in Procs, ProcStep(p) \/ StoreFails(p) PROVE ApprovalInv'
  BY <1>2, CheckOK, ReadOK, WriteOK, StoreFailsOK DEF ProcStep
<1>3. ASSUME NEW p \in Expirers \cup Monitors, PassStep(p) PROVE ApprovalInv'
  BY <1>3, ListBreachedOK, TakeNextOK DEF PassStep
<1>4. ASSUME NEW d \in Decisions, Breach(d) PROVE ApprovalInv'
  BY <1>4, BreachOK
<1>5. ASSUME NEW r \in Replicas, NEW d \in Decisions, TtlPasses(r, d) PROVE ApprovalInv'
  BY <1>5, TtlPassesOK
<1>6. ASSUME NEW r \in Replicas, Crash(r) PROVE ApprovalInv'
  BY <1>6, CrashOK
<1>7. CASE UNCHANGED vars
  <2>1. VotesInv'
    BY <1>7 DEF vars, ApprovalInv, VotesInv
  <2>2. quorum' \in [Replicas -> [Decisions -> [actors : Seq(Actors), stale : BOOLEAN]]]
    BY <1>7 DEF vars, ApprovalInv, BaseOK
  <2> QED
    BY <1>7, <2>1, <2>2, CallsKept DEF vars
<1> QED
  BY <1>1, <1>2, <1>3, <1>4, <1>5, <1>6, <1>7 DEF Next, Quiet

\* The inductive invariant: stored and remembered instances are explained by their
\* steps, backed by votes, and of one workflow.
THEOREM ApprovalInvariant == Spec => []ApprovalInv
BY InvInit, InvNext, PTL DEF Spec

\* StateMatchesHistory for any number of reviewers, passes and replicas.
THEOREM HistoryMatches == Spec => []StateMatchesHistory
<1>1. ApprovalInv => StateMatchesHistory
  BY DEF ApprovalInv, RowsSound, Sound, StateMatchesHistory
<1> QED
  BY <1>1, ApprovalInvariant, PTL

\* QuorumIsReal for any number of reviewers and replicas, crashes included.
THEOREM QuorumReal == Spec => []QuorumIsReal
<1>1. ApprovalInv => QuorumIsReal
  BY DEF ApprovalInv, RowsSound, Sound, Backed, QuorumIsReal
<1> QED
  BY <1>1, ApprovalInvariant, PTL

\* CreatesAgree for any number of callers that create.
THEOREM CreatesAgreed == Spec => []CreatesAgree
<1>1. ApprovalInv => CreatesAgree
  BY DEF ApprovalInv, StateOK, CreatesAgree, Procs
<1> QED
  BY <1>1, ApprovalInvariant, PTL

\* Type correctness follows.
THEOREM ApprovalTypes == Spec => []ApprovalTypeOK
<1>1. ApprovalInv => ApprovalTypeOK
  BY DEF ApprovalInv, BaseOK, StateOK, ApprovalTypeOK
<1> QED
  BY <1>1, ApprovalInvariant, PTL
=============================================================================
