---------------------------- MODULE LimitStore ----------------------------
(***************************************************************************)
(* The velocity limits: sliding-window counters with a cooldown, in Redis  *)
(* (shared by all replicas, each script atomic) or in the memory of one    *)
(* process (one lock).  A call carries the time at which its request was   *)
(* evaluated, so the store sees calls out of time order.                   *)
(***************************************************************************)
EXTENDS Integers, FiniteSets, FiniteSetsExt, SequencesExt

CONSTANTS
    Backends,     \* adapters under check, of {"redis", "memory"}
    Calls,        \* calls of try_consume, each perhaps followed by release
    Keys,         \* counters (canonical keys) of one tenant
    KeyOf,        \* the counter a call addresses
    IdOf,         \* the decision a call is made for
    CostOf,       \* what a call consumes
    Window,       \* window length
    Cooldown,     \* cooldown_seconds
    Padding,      \* _TTL_PADDING_SECONDS
    Ceiling,      \* configured limit
    MaxSubjects,  \* max_tenant_subjects and max_subjects; 0 for none
    MaxTime,      \* bound: the clock
    MaxFaults,    \* bound: Redis calls whose reply is lost
    None

ASSUME LimitAssumption ==
    /\ KeyOf \in [Calls -> Keys]
    /\ CostOf \in [Calls -> Nat]
    /\ Window \in Nat \ {0} /\ Cooldown \in Nat /\ Padding \in Nat /\ Ceiling \in Nat
    /\ MaxSubjects \in Nat /\ MaxTime \in Nat /\ MaxFaults \in Nat
    /\ None \notin Nat

VARIABLES
    backend,   \* the adapter in use
    clock,     \* the time, common to the replicas and to Redis
    window,    \* entries of every counter: the zset and its costs, or the list
    expiry,    \* when Redis drops the counter
    cooldown,  \* the time until which a counter is tripped, or None
    cdExpiry,  \* when Redis drops the cooldown key
    touched,   \* Redis: score of every tracked subject, or None
    lru,       \* memory: tracked subjects, least recently used first
    call,      \* control state of every call: stage, evaluation time, verdict
    faults,
    granted,   \* history: admissions that callers hold and that a window may count
    tripped,   \* history: when the last trip of a counter ends, 0 once it has
    evicted    \* history: counters that were evicted

store == <<window, expiry, cooldown, cdExpiry, touched, lru>>
vars == <<backend, clock, store, call, faults, granted, tripped, evicted>>

Init ==
    /\ backend \in Backends
    /\ clock = 0
    /\ window = [k \in Keys |-> {}]
    /\ expiry = [k \in Keys |-> None]
    /\ cooldown = [k \in Keys |-> None]
    /\ cdExpiry = [k \in Keys |-> None]
    /\ touched = [k \in Keys |-> None]
    /\ lru = <<>>
    /\ call = [c \in Calls |-> [pc |-> "idle", now |-> 0, verdict |-> "none"]]
    /\ faults = 0 /\ granted = {} /\ tripped = [k \in Keys |-> 0] /\ evicted = {}

(***************************************************************************)
(* Windows.                                                                *)
(***************************************************************************)
\* Window.start_of, and the entries that the scripts keep.
Trim(entries, now) == {e \in entries : e.at > now - Window}

Total(entries) == MapThenSumSet(LAMBDA e : e.cost, entries)

\* cumulative(): what was consumed within a window, without changing anything.
Cumulative(k, now) == Total(Trim(window[k], now))

\* member_for: an admission is named by its time and its decision.
Member(c) == [at |-> call[c].now, id |-> IdOf[c], cost |-> CostOf[c], by |-> c]

Repeated(entries, c) == \E e \in entries : e.at = call[c].now /\ e.id = IdOf[c]

\* A mutant of Fits: the call's own cost is not counted.
FitsBefore(entries, c) == Total(entries) <= Ceiling

Fits(entries, c) == Total(entries) + CostOf[c] <= Ceiling

InCooldown(c) == cooldown[KeyOf[c]] # None /\ call[c].now < cooldown[KeyOf[c]]

At(c, pc) == call[c].pc = pc

(***************************************************************************)
(* A call.                                                                 *)
(***************************************************************************)
\* The request reads its clock; Redis is asked for the tenant quota first when
\* max_tenant_subjects is set.
Begin(c) ==
    /\ At(c, "idle")
    /\ call' = [call EXCEPT ![c].now = clock,
                            ![c].pc = IF backend = "redis" /\ MaxSubjects > 0
                                      THEN "quota" ELSE "consume"]
    /\ UNCHANGED <<backend, clock, store, faults, granted, tripped, evicted>>

Tracked(scores) == {k \in Keys : scores[k] # None}

\* The subjects beyond the cap, oldest first; equal scores are ordered by name,
\* which is any order here.
Overflow(scores) ==
    {S \in SUBSET Tracked(scores) :
       /\ Cardinality(S) = Cardinality(Tracked(scores)) - MaxSubjects
       /\ \A k \in S : \A j \in Tracked(scores) \ S : scores[k] <= scores[j]}

Forget(f, S) == [k \in Keys |-> IF k \in S THEN None ELSE f[k]]

\* _TENANT_QUOTA_SCRIPT: refresh this subject, delete the oldest beyond the cap.
TenantQuota(c) ==
    LET scores == [touched EXCEPT ![KeyOf[c]] = call[c].now]
    IN /\ At(c, "quota")
       /\ \E S \in IF Cardinality(Tracked(scores)) > MaxSubjects THEN Overflow(scores) ELSE {{}} :
            /\ touched' = Forget(scores, S)
            /\ window' = [k \in Keys |-> IF k \in S THEN {} ELSE window[k]]
            /\ expiry' = Forget(expiry, S)
            /\ cooldown' = Forget(cooldown, S)
            /\ cdExpiry' = Forget(cdExpiry, S)
            /\ evicted' = evicted \cup S
       /\ call' = [call EXCEPT ![c].pc = "consume"]
       /\ UNCHANGED <<backend, clock, lru, faults, granted, tripped>>

\* What the caller learns: its verdict, or LimitStoreUnavailable for a lost reply.
Answer(c, verdict, lost) ==
    /\ lost => backend = "redis" /\ faults < MaxFaults
    /\ faults' = IF lost THEN faults + 1 ELSE faults
    /\ call' = [call EXCEPT ![c] = [pc |-> IF verdict = "admitted" /\ ~lost THEN "held" ELSE "done",
                                    now |-> 0, verdict |-> IF lost THEN "unavailable" ELSE verdict]]
    /\ granted' = IF verdict = "admitted" /\ ~lost THEN granted \cup {Member(c)} ELSE granted

\* An in-force cooldown rejects.  Redis has trimmed the window by then, the memory
\* adapter has not.
RejectCooling(c) ==
    LET k == KeyOf[c]
    IN /\ At(c, "consume") /\ InCooldown(c)
       /\ window' = IF backend = "redis" THEN [window EXCEPT ![k] = Trim(@, call[c].now)] ELSE window
       /\ \E lost \in BOOLEAN : Answer(c, "rejected", lost)
       /\ UNCHANGED <<backend, clock, expiry, cooldown, cdExpiry, touched, lru, tripped, evicted>>

\* memory: the counter becomes the most recently used one; a new one may push out
\* the least recently used, cooldown included (_evict_if_needed).
Touch(k) ==
    LET rest == SelectSeq(lru, LAMBDA j : j # k)
        full == ~Contains(lru, k) /\ MaxSubjects > 0 /\ Len(lru) >= MaxSubjects
    IN IF backend = "redis" THEN [lru |-> lru, gone |-> {}]
       ELSE IF full THEN [lru |-> Append(Tail(rest), k), gone |-> {Head(rest)}]
       ELSE [lru |-> Append(rest, k), gone |-> {}]

\* A mutant of Tripped: the cooldown is not stored.
TrippedNowhere(c) == None

Tripped(c) == call[c].now + Cooldown

\* try_consume outside a cooldown: trim, recognise a repeated member, admit and
\* record, or trip the cooldown.
Consume(c) ==
    LET k == KeyOf[c]
        t == Touch(k)
        kept == Trim(window[k], call[c].now)
        repeat == Repeated(kept, c)
        admit == repeat \/ Fits(kept, c)
        record == admit /\ ~repeat
    IN /\ At(c, "consume") /\ ~InCooldown(c)
       /\ window' = [j \in Keys |-> IF j \in t.gone THEN {}
                                    ELSE IF j # k THEN window[j]
                                    ELSE IF record THEN kept \cup {Member(c)} ELSE kept]
       /\ cooldown' = [Forget(cooldown, t.gone) EXCEPT ![k] = IF admit THEN None ELSE Tripped(c)]
       /\ expiry' = IF record /\ backend = "redis"
                    THEN [expiry EXCEPT ![k] = clock + Window + Cooldown + Padding] ELSE expiry
       /\ cdExpiry' = [cdExpiry EXCEPT ![k] = IF admit \/ backend = "memory" THEN None
                                              ELSE clock + Max({1, Cooldown})]
       /\ tripped' = IF admit THEN tripped ELSE [tripped EXCEPT ![k] = call[c].now + Cooldown]
       /\ lru' = t.lru
       /\ evicted' = evicted \cup t.gone
       /\ \E lost \in BOOLEAN : Answer(c, IF admit THEN "admitted" ELSE "rejected", lost)
       /\ UNCHANGED <<backend, clock, touched>>

\* The script did not run: LimitStoreUnavailable, nothing consumed.
Unavailable(c) ==
    /\ call[c].pc \in {"quota", "consume"}
    /\ faults < MaxFaults
    /\ faults' = faults + 1
    /\ call' = [call EXCEPT ![c] = [pc |-> "done", now |-> 0, verdict |-> "unavailable"]]
    /\ UNCHANGED <<backend, clock, store, granted, tripped, evicted>>

\* release(): every member of the decision, whatever its time.  Decision ids are
\* minted without a colon, so that the suffix is the whole id.
Release(c) ==
    /\ At(c, "held")
    /\ window' = [window EXCEPT ![KeyOf[c]] = {e \in @ : e.id # IdOf[c]}]
    /\ granted' = {g \in granted : g.by # c}
    /\ call' = [call EXCEPT ![c].pc = "done"]
    /\ UNCHANGED <<backend, clock, expiry, cooldown, cdExpiry, touched, lru, faults, tripped, evicted>>

\* The decision took effect and keeps its budget.
Keep(c) ==
    /\ At(c, "held")
    /\ call' = [call EXCEPT ![c].pc = "done"]
    /\ UNCHANGED <<backend, clock, store, faults, granted, tripped, evicted>>

\* Time passes; Redis drops the keys whose TTL has run out.
Tick ==
    LET due == {k \in Keys : expiry[k] = clock + 1}
        cool == {k \in Keys : cdExpiry[k] = clock + 1}
    IN /\ clock < MaxTime
       /\ clock' = clock + 1
       /\ window' = [k \in Keys |-> IF k \in due THEN {} ELSE window[k]]
       /\ expiry' = Forget(expiry, due)
       /\ cooldown' = Forget(cooldown, cool)
       /\ cdExpiry' = Forget(cdExpiry, cool)
       /\ granted' = {g \in granted : g.at > clock + 1 - Window}
       /\ tripped' = [k \in Keys |-> IF tripped[k] <= clock + 1 THEN 0 ELSE tripped[k]]
       /\ UNCHANGED <<backend, touched, lru, call, faults, evicted>>

\* The calls have ended and the bounded clock has run out.
Quiet == clock = MaxTime /\ (\A c \in Calls : At(c, "done")) /\ UNCHANGED vars

Next ==
    \/ \E c \in Calls : \/ Begin(c) \/ TenantQuota(c) \/ RejectCooling(c) \/ Consume(c)
                        \/ Unavailable(c) \/ Release(c) \/ Keep(c)
    \/ Tick
    \/ Quiet

Spec == Init /\ [][Next]_vars

(***************************************************************************)
(* Properties.                                                             *)
(***************************************************************************)
Times == 0 .. (MaxTime + Window + Cooldown + Padding + 1)
Entry == [at : Times, id : {IdOf[c] : c \in Calls}, cost : Nat, by : Calls]

\* Type invariant of the counters and the calls.
LimitTypeOK ==
    /\ backend \in Backends /\ clock \in 0 .. MaxTime
    /\ \A k \in Keys : window[k] \subseteq Entry
    /\ \A f \in {expiry, cooldown, cdExpiry, touched} : f \in [Keys -> Times \cup {None}]
    /\ lru \in Seq(Keys)
    /\ call \in [Calls -> [pc : {"idle", "quota", "consume", "held", "done"}, now : 0 .. MaxTime,
                           verdict : {"none", "admitted", "rejected", "unavailable"}]]
    /\ faults \in 0 .. MaxFaults /\ granted \subseteq Entry
    /\ tripped \in [Keys -> Times] /\ evicted \subseteq Keys

\* What the holders of a counter's budget consumed within the window ending now.
Held(k) == Total({g \in granted : KeyOf[g.by] = k /\ g.at > clock - Window})

\* The ceiling holds in every window that ends at the present moment, although
\* calls reach the store with old evaluation times, replies are lost, budget is
\* released and Redis drops keys by TTL.  A counter that was evicted to keep a
\* tenant's subjects bounded has forgotten, which is what max_subjects asks for.
CeilingIsKept ==
    \A k \in Keys \ evicted : Held(k) <= Ceiling

\* No budget is granted while a trip of the counter is in force, on whichever
\* replica the call arrives (limits.py: "Cooldown lives in Redis").
CooldownIsKept ==
    [][\A k \in Keys \ evicted' :
         (\E g \in granted' \ granted : KeyOf[g.by] = k) => clock >= tripped[k]]_vars

\* limits.py: a member bound to the decision id "makes a retried decision_id
\* idempotent rather than double-counted".
RetryCountsOnce ==
    \A k \in Keys : \A e, f \in window[k] : e.id = f.id => e = f

\* RedisLimitStore, max_tenant_subjects: "Upper bound on distinct limit-key
\* subjects one tenant may have live at once".
SubjectsAreBounded ==
    MaxSubjects > 0 => Cardinality({k \in Keys : window[k] # {}}) <= MaxSubjects
=============================================================================
