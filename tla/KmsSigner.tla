----------------------------- MODULE KmsSigner -----------------------------
(***************************************************************************)
(* KmsMacSigner: evidence MACs computed inside a key management service,   *)
(* with a cache of MACs, a circuit breaker shared by the threads of the    *)
(* process, and rotation to a new signer object.  A thread keeps the       *)
(* signer it started with.  A call takes one step per lock it acquires and *)
(* one for the round trip to the service.  The MAC of a payload under a    *)
(* key is the pair of the two.  The callers are the evidence store's       *)
(* append, which signs a row, and its verification of the rows.            *)
(***************************************************************************)
EXTENDS Integers, SequencesExt

CONSTANTS
  Threads, Payloads,
  MacKeys, FirstKey,
  CacheSize, FailureThreshold,
  Fragile,      \* the keys that may be disabled
  ResetAfter,   \* ticks the circuit stays open
  MaxSigners    \* bound on rotations and restarts

ASSUME SignerAssumption ==
  /\ FirstKey \in MacKeys
  /\ CacheSize \in Nat
  /\ FailureThreshold \in Nat \ {0}
  /\ ResetAfter \in Nat

VARIABLES
  signers,   \* every signer built, the current one last: [key, historic, cache, rotated]
  failures,  \* consecutive failures, counted up to the threshold
  opened,    \* Closed, or the ticks until a probe is allowed
  call,      \* what each thread is doing
  healthy, enabled, \* the service: reachable; the keys that can be used
  rows              \* the rows of evidence_intent

breaker == <<failures, opened>>
service == <<healthy, enabled>>
signerVars == <<signers, failures, opened, call, healthy, enabled, rows>>

Closed == -1

MacOf(k, p) == <<k, p>>

Idle == [pc |-> "idle", op |-> "none", signer |-> 0, key |-> "none", payload |-> "none",
         mac |-> "none", reply |-> "none", answer |-> "none"]

Built(k) == [key |-> k, historic |-> {}, cache |-> << >>, rotated |-> FALSE]

SignerInit ==
  /\ healthy = TRUE
  /\ enabled = MacKeys
  /\ signers = <<Built(FirstKey)>>
  /\ failures = 0
  /\ opened = Closed
  /\ call = [t \in Threads |-> Idle]
  /\ rows = {}

Current == Len(signers)

Known(s) == {signers[s].key} \cup signers[s].historic

At(t, pc) == call[t].pc = pc

Answered(t, answer) == [call[t] EXCEPT !.pc = "answered", !.answer = answer]

-----------------------------------------------------------------------------
(* The cache: least recently used first.                                   *)

\* Entries are found by their message alone.
CachedForMessage(s, k, p) == {e \in Range(signers[s].cache) : e[2] = p}

Cached(s, k, p) == {e \in Range(signers[s].cache) : e = MacOf(k, p)}

\* move_to_end, after a hit or a store; the oldest entries beyond the bound go.
Refreshed(cache, mac) ==
  LET fresh == Append(SelectSeq(cache, LAMBDA e : e # mac), mac)
  IN  SubSeq(fresh, Max({1, Len(fresh) - CacheSize + 1}), Len(fresh))

Remember(s, mac) == signers' = [signers EXCEPT ![s].cache = Refreshed(@, mac)]

-----------------------------------------------------------------------------
(* A call of mac or verify, started as [op, key, payload, mac] by thread t. *)

\* The signer's key is the key of a MAC; verify is given one, and refuses a key that
\* the signer does not know.  A hit is answered without the service.
Start(t, op, k, p, m) ==
  LET begun == [Idle EXCEPT !.op = op, !.signer = Current, !.key = k, !.payload = p, !.mac = m]
      done(answer, mac) == [begun EXCEPT !.pc = "answered", !.answer = answer, !.mac = mac]
      hits == Cached(Current, k, p)
  IN  /\ At(t, "idle")
      /\ \/ /\ k \notin Known(Current)
            /\ call' = [call EXCEPT ![t] = done("unknown", m)]
            /\ UNCHANGED signers
         \/ /\ k \in Known(Current) /\ hits = {}
            /\ call' = [call EXCEPT ![t] = [begun EXCEPT !.pc = "guard"]]
            /\ UNCHANGED signers
         \/ \E hit \in hits :
              /\ k \in Known(Current)
              /\ call' = [call EXCEPT ![t] =
                            IF op = "mac" THEN done("mac", hit)
                            ELSE done(IF hit = m THEN "valid" ELSE "invalid", m)]
              /\ Remember(Current, hit)
      /\ UNCHANGED <<breaker, service, rows>>

\* The open period never ends.
NeverReady == opened = Closed

ReadyToProbe == opened \in {Closed, 0}

\* before_call: an open circuit refuses; once the period is over every call may probe.
BeforeCall(t) ==
  /\ At(t, "guard")
  /\ call' = [call EXCEPT ![t] = IF ReadyToProbe THEN [@ EXCEPT !.pc = "service"]
                                 ELSE Answered(t, "unavailable")]
  /\ UNCHANGED <<signers, breaker, service, rows>>

Usable(k) == healthy /\ k \in enabled

\* _translate: a key that cannot be used is told from an outage.
Refusals(k) ==
  (IF k \in enabled THEN {} ELSE {"disabled"}) \cup (IF healthy THEN {} ELSE {"unavailable"})

\* What the service answers.  A wrong MAC is an answer, and not an error; in an outage
\* a MAC may come back truncated.
Replies(t) ==
  Refusals(call[t].key)
  \cup (IF Usable(call[t].key) THEN {"ok"} ELSE {})
  \cup (IF ~healthy /\ call[t].op = "mac" THEN {"truncated"} ELSE {})

\* A disabled key is raised at once, without the breaker.
Ask(t) ==
  /\ At(t, "service")
  /\ \E reply \in Replies(t) :
       call' = [call EXCEPT ![t] =
                  IF reply = "disabled" THEN Answered(t, "disabled")
                  ELSE [@ EXCEPT !.pc = "record", !.reply = reply]]
  /\ UNCHANGED <<signers, breaker, service, rows>>

RecordFailure(t) ==
  /\ At(t, "record") /\ call[t].reply = "unavailable"
  /\ failures' = IF failures < FailureThreshold THEN failures + 1 ELSE failures
  /\ opened' = IF failures' = FailureThreshold THEN ResetAfter ELSE opened
  /\ call' = [call EXCEPT ![t] = Answered(t, "unavailable")]
  /\ UNCHANGED <<signers, service, rows>>

\* A truncated MAC counts as a success of the service and is then refused.
RecordSuccess(t) ==
  LET genuine == MacOf(call[t].key, call[t].payload)
  IN  /\ At(t, "record") /\ call[t].reply # "unavailable"
      /\ failures' = 0
      /\ opened' = Closed
      /\ call' = [call EXCEPT ![t] =
                    IF call[t].op = "verify"
                    THEN Answered(t, IF call[t].mac = genuine THEN "valid" ELSE "invalid")
                    ELSE IF call[t].reply = "truncated" THEN Answered(t, "unusable")
                    ELSE [@ EXCEPT !.pc = "store", !.mac = genuine]]
      /\ UNCHANGED <<signers, service, rows>>

CachePut(t) ==
  /\ At(t, "store")
  /\ Remember(call[t].signer, call[t].mac)
  /\ call' = [call EXCEPT ![t] = Answered(t, "mac")]
  /\ UNCHANGED <<breaker, service, rows>>

-----------------------------------------------------------------------------
(* The callers.                                                            *)

\* append_intent signs the next payload of its segment under the segment's row lock.
Sign(t) ==
  \E p \in Payloads :
    /\ \A row \in rows : row.payload # p
    /\ \A u \in Threads : call[u].op = "mac" => call[u].payload # p
    /\ Start(t, "mac", signers[Current].key, p, "none")

\* _verify_rows asks about a row as it is stored: as it was written, or altered.
VerifyRow(t) ==
  \E row \in rows, k, j \in MacKeys : Start(t, "verify", k, row.payload, MacOf(j, row.payload))

\* The row is inserted with the signer's key id, or the insert fails; an error of the
\* signer fails the append, and leaves a verification without a verdict.
Finish(t) ==
  /\ At(t, "answered")
  /\ \/ /\ call[t].answer = "mac"
        /\ rows' = rows \cup {[signer |-> call[t].signer, key |-> signers[call[t].signer].key,
                               payload |-> call[t].payload, mac |-> call[t].mac]}
     \/ UNCHANGED rows
  /\ call' = [call EXCEPT ![t] = Idle]
  /\ UNCHANGED <<signers, breaker, service>>

SignerStep(t) ==
  BeforeCall(t) \/ Ask(t) \/ RecordFailure(t) \/ RecordSuccess(t) \/ CachePut(t) \/ Finish(t)

-----------------------------------------------------------------------------
(* Rotation, restart, and the service's own changes.                       *)

\* The key that is retired now joins no list.
RotatedForgetful(k) ==
  [key |-> k, historic |-> signers[Current].historic \ {k}, cache |-> << >>, rotated |-> TRUE]

Rotated(k) ==
  [key |-> k, historic |-> Known(Current) \ {k}, cache |-> << >>, rotated |-> TRUE]

\* with_rotated_key: the breaker is shared, the cache is not, the key is not described.
Rotate(k) ==
  /\ Len(signers) < MaxSigners
  /\ signers' = Append(signers, Rotated(k))
  /\ UNCHANGED <<breaker, call, service, rows>>

\* The process ends and build_mac_signer describes the configured key: one that cannot
\* be used, or described, leaves it down.  Nothing hands the factory retired keys.
Rebuild(k) ==
  /\ Len(signers) < MaxSigners
  /\ Usable(k)
  /\ signers' = Append(signers, Built(k))
  /\ failures' = 0
  /\ opened' = Closed
  /\ call' = [t \in Threads |-> Idle]
  /\ UNCHANGED <<service, rows>>

ServiceChanges ==
  /\ \/ healthy' = ~healthy /\ UNCHANGED enabled
     \/ \E k \in Fragile : enabled' = (enabled \ {k}) \cup ({k} \ enabled) /\ UNCHANGED healthy
  /\ UNCHANGED <<signers, breaker, call, rows>>

\* One tick of the monotonic clock.
Elapse ==
  /\ opened > 0
  /\ opened' = opened - 1
  /\ UNCHANGED <<signers, failures, call, service, rows>>

SignerNext ==
  \/ \E t \in Threads : Sign(t) \/ VerifyRow(t) \/ SignerStep(t)
  \/ \E k \in MacKeys : Rotate(k) \/ Rebuild(k)
  \/ ServiceChanges \/ Elapse

(* Threads are scheduled, a call of the service returns or times out (its client has
   connect and read timeouts), and time passes.  Nothing is fair to the service, to
   rotation or to the callers.                                                       *)
SignerFairness ==
  /\ \A t \in Threads : WF_signerVars(SignerStep(t))
  /\ WF_signerVars(Elapse)

-----------------------------------------------------------------------------
(* Properties.                                                             *)

\* Signer s was reached from signer r by rotations alone.
Descends(r, s) == r <= s /\ \A i \in (r + 1) .. s : signers[i].rotated

(* A verdict is true, and rotation loses none: verify answers that a MAC is valid
   exactly when it is the MAC of that payload under that key, whether the answer came
   from the cache or the service; the MAC stored in a row is the one its key gives;
   and a signer reached by any rotations from the one that wrote a row knows the row's
   key (KmsMacSigner.mac, verify, with_rotated_key, the cache).                       *)
VerdictsAreTrue ==
  /\ \A t \in Threads : At(t, "answered") =>
       /\ call[t].answer = "valid" => call[t].mac = MacOf(call[t].key, call[t].payload)
       /\ call[t].answer = "invalid" => call[t].mac # MacOf(call[t].key, call[t].payload)
  /\ \A row \in rows :
       /\ row.mac = MacOf(row.key, row.payload)
       /\ \A s \in DOMAIN signers : Descends(row.signer, s) => row.key \in Known(s)

(* The circuit heals by itself: once the key service stays reachable, a time comes
   after which no call is refused or fails as unavailable, although failures of calls
   made before may still be recorded late and reopen the circuit
   (CircuitBreaker.before_call, record_failure, _ready_to_probe).                     *)
SignerRecovers ==
  <>[]healthy => <>[](\A t \in Threads : call[t].answer # "unavailable")
=============================================================================
