-------------------------- MODULE LimitStoreProofs --------------------------
(***************************************************************************)
(* A proof about LimitStore for any number of calls and counters, and any  *)
(* window, cooldown and ceiling: a trip in force admits nobody.            *)
(***************************************************************************)
EXTENDS LimitStore, TLAPS

\* The property is not inductive: a trip is known to the store only through the
\* cooldown it wrote.  While a trip is in force the cooldown reaches at least as
\* far, and Redis does not drop it before its end (_TRY_CONSUME_SCRIPT, SET ... EX).
CooldownInv ==
    /\ clock \in Nat
    /\ tripped \in [Keys -> Nat]
    /\ cooldown \in [Keys -> Nat \cup {None}]
    /\ cdExpiry \in [Keys -> Nat \cup {None}]
    /\ DOMAIN call = Calls
    /\ \A c \in Calls : call[c].now \in Nat /\ call[c].now <= clock
    /\ \A k \in Keys \ evicted :
         tripped[k] > clock =>
           /\ cooldown[k] # None /\ cooldown[k] >= tripped[k]
           /\ cdExpiry[k] # None => cdExpiry[k] >= tripped[k]

-----------------------------------------------------------------------------
\* EX is at least one second and at least cooldown_seconds.
LEMMA MaxOfCooldown == Max({1, Cooldown}) \in Nat /\ Max({1, Cooldown}) >= Cooldown
<1> DEFINE S == {1, Cooldown}
<1>1. \E x \in S : \A y \in S : x >= y
  BY LimitAssumption
<1>2. Max(S) \in S /\ \A y \in S : Max(S) >= y
  BY <1>1 DEF Max
<1> QED
  BY <1>2, LimitAssumption

\* Nothing has tripped initially.
LEMMA CooldownInit == Init => CooldownInv
BY DEF Init, CooldownInv

\* The answer of a call touches no counter and takes its time away.
LEMMA AnswerKeepsTimes ==
    ASSUME CooldownInv, NEW c \in Calls, NEW v, NEW lost \in BOOLEAN, Answer(c, v, lost)
    PROVE  DOMAIN call' = Calls /\ \A b \in Calls : call'[b].now \in Nat /\ call'[b].now <= clock
BY DEF CooldownInv, Answer

\* Every step keeps a cooldown in place for as long as its trip is in force.
LEMMA CooldownNext == CooldownInv /\ [Next]_vars => CooldownInv'
<1> SUFFICES ASSUME CooldownInv, [Next]_vars PROVE CooldownInv'
  OBVIOUS
<1> USE LimitAssumption
<1>1. ASSUME NEW c \in Calls, Begin(c) PROVE CooldownInv'
  BY <1>1 DEF Begin, At, store, CooldownInv
<1>2. ASSUME NEW c \in Calls, TenantQuota(c) PROVE CooldownInv'
  BY <1>2 DEF TenantQuota, At, Forget, CooldownInv
<1>3. ASSUME NEW c \in Calls, RejectCooling(c) PROVE CooldownInv'
  <2>1. PICK lost \in BOOLEAN : Answer(c, "rejected", lost)
    BY <1>3 DEF RejectCooling
  <2> QED
    BY <1>3, <2>1, AnswerKeepsTimes DEF RejectCooling, CooldownInv
<1>4. ASSUME NEW c \in Calls, Consume(c) PROVE CooldownInv'
  <2> DEFINE k == KeyOf[c]
             gone == Touch(k).gone
  <2>1. PICK admit \in BOOLEAN :
          /\ cooldown' = [Forget(cooldown, gone) EXCEPT ![k] = IF admit THEN None ELSE Tripped(c)]
          /\ cdExpiry' = [cdExpiry EXCEPT ![k] = IF admit \/ backend = "memory" THEN None
                                                 ELSE clock + Max({1, Cooldown})]
          /\ tripped' = IF admit THEN tripped ELSE [tripped EXCEPT ![k] = call[c].now + Cooldown]
          /\ \E lost \in BOOLEAN : Answer(c, IF admit THEN "admitted" ELSE "rejected", lost)
    BY <1>4 DEF Consume
  <2>2. /\ ~InCooldown(c) /\ clock' = clock
        /\ evicted' = evicted \cup gone
    BY <1>4 DEF Consume
  <2>3. DOMAIN call' = Calls /\ \A b \in Calls : call'[b].now \in Nat /\ call'[b].now <= clock
    BY <2>1, AnswerKeepsTimes
  <2>4. k \in Keys
    OBVIOUS
  <2>5. CASE admit
    BY <2>1, <2>2, <2>3, <2>4, <2>5 DEF CooldownInv, Forget, InCooldown
  <2>6. CASE ~admit
    <3> DEFINE n == call[c].now + Cooldown
               e == clock + Max({1, Cooldown})
    <3>1. n \in Nat /\ e \in Nat /\ e >= n
      BY MaxOfCooldown DEF CooldownInv
    <3>2. /\ tripped' = [tripped EXCEPT ![k] = n]
          /\ cooldown' = [Forget(cooldown, gone) EXCEPT ![k] = n]
          /\ cdExpiry' = [cdExpiry EXCEPT ![k] = IF backend = "memory" THEN None ELSE e]
      BY <2>1, <2>6 DEF Tripped
    <3> HIDE DEF n, e, gone, k
    <3>3. /\ tripped' \in [Keys -> Nat]
          /\ cooldown' \in [Keys -> Nat \cup {None}]
          /\ cdExpiry' \in [Keys -> Nat \cup {None}]
      BY <3>1, <3>2, <2>4 DEF CooldownInv, Forget
    <3>4. ASSUME NEW j \in Keys \ evicted', tripped'[j] > clock
          PROVE  /\ cooldown'[j] # None /\ cooldown'[j] >= tripped'[j]
                 /\ cdExpiry'[j] # None => cdExpiry'[j] >= tripped'[j]
      <4>1. CASE j = k
        BY <3>1, <3>2, <4>1, <2>4 DEF CooldownInv, Forget
      <4>2. CASE j # k
        BY <3>2, <3>4, <4>2, <2>2, <2>4 DEF CooldownInv, Forget
      <4> QED
        BY <4>1, <4>2
    <3> QED
      BY <2>2, <2>3, <3>3, <3>4 DEF CooldownInv
  <2> QED
    BY <2>5, <2>6
<1>5. ASSUME NEW c \in Calls, Unavailable(c) PROVE CooldownInv'
  BY <1>5 DEF Unavailable, store, CooldownInv
<1>6. ASSUME NEW c \in Calls, Release(c) PROVE CooldownInv'
  BY <1>6 DEF Release, At, CooldownInv
<1>7. ASSUME NEW c \in Calls, Keep(c) PROVE CooldownInv'
  BY <1>7 DEF Keep, At, store, CooldownInv
<1>8. CASE Tick
  BY <1>8 DEF Tick, Forget, CooldownInv
<1>9. CASE Quiet \/ UNCHANGED vars
  BY <1>9 DEF Quiet, vars, store, CooldownInv
<1> QED
  BY <1>1, <1>2, <1>3, <1>4, <1>5, <1>6, <1>7, <1>8, <1>9 DEF Next

-----------------------------------------------------------------------------
\* The inductive invariant holds throughout.
THEOREM CooldownInvariant == Spec => []CooldownInv
BY CooldownInit, CooldownNext, PTL DEF Spec

\* A step that grants budget finds no trip of the counter in force.
LEMMA GrantStep ==
    CooldownInv /\ [Next]_vars =>
      [\A k \in Keys \ evicted' :
         (\E g \in granted' \ granted : KeyOf[g.by] = k) => clock >= tripped[k]]_vars
<1> SUFFICES ASSUME CooldownInv, [Next]_vars,
                    NEW k \in Keys \ evicted', NEW g \in granted' \ granted, KeyOf[g.by] = k
             PROVE  clock >= tripped[k]
  OBVIOUS
<1> USE LimitAssumption
<1>1. PICK c \in Calls : Consume(c)
  <2>1. ASSUME NEW c \in Calls, RejectCooling(c) PROVE granted' = granted
    BY <2>1 DEF RejectCooling, Answer
  <2>2. ASSUME NEW c \in Calls, Begin(c) \/ TenantQuota(c) \/ Unavailable(c) \/ Keep(c)
        PROVE  granted' = granted
    BY <2>2 DEF Begin, TenantQuota, Unavailable, Keep
  <2>3. ASSUME NEW c \in Calls, Release(c) PROVE granted' \subseteq granted
    BY <2>3 DEF Release
  <2>4. CASE Tick
    BY <2>4 DEF Tick
  <2>5. CASE Quiet \/ UNCHANGED vars
    BY <2>5 DEF Quiet, vars
  <2> QED
    BY <2>1, <2>2, <2>3, <2>4, <2>5 DEF Next
<1>2. g = Member(c)
  BY <1>1 DEF Consume, Answer
<1>3. k = KeyOf[c]
  BY <1>2 DEF Member
<1>4. /\ ~InCooldown(c)
      /\ evicted \subseteq evicted'
  BY <1>1 DEF Consume
<1> QED
  BY <1>3, <1>4 DEF CooldownInv, InCooldown

\* CooldownIsKept for every configuration: no budget is granted while a trip of the
\* counter is in force, on whichever replica the call arrives and however late.
THEOREM CooldownKept == Spec => CooldownIsKept
BY CooldownInvariant, GrantStep, PTL DEF Spec, CooldownIsKept
=============================================================================
