------------------------------ MODULE HttpEdge ------------------------------
(***************************************************************************)
(* The HTTP surface: the admission controller every request passes, the    *)
(* routes, and the status the caller is given.  The controller reads the   *)
(* clock before it takes its lock, so a request may be judged as of a time *)
(* that is past.  Time is kept as ages: a stamp's age is how long ago it   *)
(* was.  What the services answer is any of their outcomes and errors      *)
(* (DecisionService, ApprovalWorkflow); /healthz passes the controller by. *)
(***************************************************************************)
EXTENDS Integers, SequencesExt

CONSTANTS
  Handlers,      \* threads that serve requests
  Clients,       \* remote addresses
  MaxRequests, Window, MaxTracked,
  MaxLag         \* bound on the ticks between reading the clock and the lock

ASSUME EdgeAssumption ==
  /\ MaxRequests \in Nat \ {0}
  /\ Window \in Nat \ {0}
  /\ MaxTracked \in Nat
  /\ MaxLag \in Nat

VARIABLES
  buckets,    \* [client, stamps], the least recently touched first
  request,    \* what each thread is serving
  admissions  \* history: ages of each client's admissions, since its bucket was made

edgeVars == <<buckets, request, admissions>>

NoRequest == [pc |-> "idle", client |-> "none", lag |-> 0, status |-> 0]

EdgeInit ==
  /\ buckets = << >>
  /\ request = [h \in Handlers |-> NoRequest]
  /\ admissions = [c \in Clients |-> << >>]

Respond(h, status) == request' = [request EXCEPT ![h] = [NoRequest EXCEPT !.status = status]]

-----------------------------------------------------------------------------
(* HttpAdmissionController.check.                                          *)

\* _enforce_admission calls check, which reads the clock first.
Arrive(h, c) ==
  /\ request[h].pc = "idle"
  /\ request' = [request EXCEPT ![h] = [NoRequest EXCEPT !.pc = "arrived", !.client = c]]
  /\ UNCHANGED <<buckets, admissions>>

StampsOf(c) ==
  LET own == SelectSeq(buckets, LAMBDA b : b.client = c)
  IN  IF own = << >> THEN << >> ELSE own[1].stamps

\* A stamp is inside the window that ends at the time the request read.
Kept(c, lag) == SelectSeq(StampsOf(c), LAMBDA age : age - lag < Window)

Others(c) == SelectSeq(buckets, LAMBDA b : b.client # c)

\* The bucket is put back at the end, and the oldest-touched buckets are evicted.
Touched(c, stamps) ==
  LET moved == Append(Others(c), [client |-> c, stamps |-> stamps])
  IN  SubSeq(moved, Max({1, Len(moved) - MaxTracked + 1}), Len(moved))

\* The bucket of a refused client was popped and is not put back.
AfterRefusalLost(c, stamps) == Others(c)

AfterRefusal(c, stamps) == Touched(c, stamps)

\* The admissions that are still counted: those of clients whose bucket is tracked.
Tracked(log) == [c \in Clients |->
  IF \E b \in Range(buckets') : b.client = c THEN log[c] ELSE << >>]

Check(h) ==
  LET c == request[h].client
      kept == Kept(c, request[h].lag)
  IN  /\ request[h].pc = "arrived"
      /\ \/ /\ Len(kept) >= MaxRequests
            /\ buckets' = AfterRefusal(c, kept)
            /\ Respond(h, 429)
            /\ admissions' = admissions
         \/ /\ Len(kept) < MaxRequests
            /\ buckets' = Touched(c, Append(kept, request[h].lag))
            /\ request' = [request EXCEPT ![h] = [NoRequest EXCEPT !.pc = "admitted"]]
            /\ admissions' = Tracked([admissions EXCEPT ![c] = Append(@, 0)])

-----------------------------------------------------------------------------
(* The routes.                                                             *)

\* _ERROR_STATUS, looked up by the exact class of the exception.
ErrorStatus ==
  [IdentityError |-> 401, CredentialExpiredError |-> 401, DelegationError |-> 401,
   DomainValidationError |-> 400, EvidenceWriteError |-> 503,
   SigningUnavailableError |-> 503, ApprovalNotFoundError |-> 404,
   ApprovalGatewayUnavailableError |-> 503, ApprovalTransitionError |-> 409]

StatusOfError(class) == IF class \in DOMAIN ErrorStatus THEN ErrorStatus[class] ELSE 500

\* Only a denial and an action that waits for approval are told from success.
StatusFor(outcome) ==
  IF outcome.denied THEN 403
  ELSE IF outcome.execution = "pending_approval" THEN 202
  ELSE 200

Outcomes ==
  [denied : {TRUE}, execution : {"denied"}]
  \cup [denied : {FALSE},
        execution : {"executed", "failed", "indeterminate", "abandoned", "pending_approval"}]

\* A body, credential or assertion that is refused before the pipeline runs.
InputErrors ==
  {"DomainValidationError", "IdentityError", "CredentialExpiredError", "DelegationError"}

\* What the pipeline raises: append_intent re-raises the errors of the signer and of
\* the driver as the classes they are, and a failing observe is not caught.
PipelineErrors ==
  {"EvidenceWriteError", "SigningUnavailableError", "KmsUnavailableError",
   "KmsKeyDisabledError", "DriverUnavailableError", "BaselineStoreUnavailable"}

\* Enum and number conversions of a body raise ValueError, which no route catches.
ConversionErrors == {"DomainValidationError", "ValueError"}

ApprovalErrors ==
  {"ApprovalNotFoundError", "ApprovalTransitionError", "ApprovalGatewayUnavailableError"}

DecideAction(h) ==
  /\ request[h].pc = "admitted"
  /\ \/ \E class \in InputErrors \cup PipelineErrors : Respond(h, StatusOfError(class))
     \/ \E outcome \in Outcomes : Respond(h, StatusFor(outcome))
  /\ UNCHANGED <<buckets, admissions>>

\* A replay that was evaluated is 200, denied or not.
Replay(h) ==
  /\ request[h].pc = "admitted"
  /\ \/ \E class \in ConversionErrors \cup PipelineErrors : Respond(h, StatusOfError(class))
     \/ Respond(h, 200)
  /\ UNCHANGED <<buckets, admissions>>

ServeApproval(h) ==
  /\ request[h].pc = "admitted"
  /\ \/ \E class \in ConversionErrors \cup ApprovalErrors : Respond(h, StatusOfError(class))
     \/ Respond(h, 200)
  /\ UNCHANGED <<buckets, admissions>>

-----------------------------------------------------------------------------

\* Ages past which no stamp is told from another.
Oldest == Window + MaxLag

Older(ages) == [i \in DOMAIN ages |-> IF ages[i] < Oldest THEN ages[i] + 1 ELSE Oldest]

Tick ==
  /\ \A h \in Handlers : request[h].pc = "arrived" => request[h].lag < MaxLag
  /\ buckets' = [i \in DOMAIN buckets |-> [buckets[i] EXCEPT !.stamps = Older(@)]]
  /\ request' = [h \in Handlers |->
       IF request[h].pc = "arrived" THEN [request[h] EXCEPT !.lag = @ + 1] ELSE request[h]]
  /\ admissions' = [c \in Clients |-> SelectSeq(Older(admissions[c]), LAMBDA age : age < Window)]

\* The buckets are memory of the process.
RestartServer ==
  /\ buckets' = << >>
  /\ request' = [h \in Handlers |-> NoRequest]
  /\ admissions' = [c \in Clients |-> << >>]

EdgeNext ==
  \/ \E h \in Handlers :
       \/ \E c \in Clients : Arrive(h, c)
       \/ Check(h) \/ DecideAction(h) \/ Replay(h) \/ ServeApproval(h)
  \/ Tick \/ RestartServer

-----------------------------------------------------------------------------
(* Properties.                                                             *)

(* The admission controller bounds the rate it is configured for: whatever the
   order in which threads that read the clock take the lock, no client whose bucket
   is tracked is admitted more than max_requests times in an interval shorter than
   the window by the longest wait for the lock (HttpAdmissionController.check).      *)
RateIsBounded ==
  \A c \in Clients :
    Len(SelectSeq(admissions[c], LAMBDA age : age < Window - MaxLag)) <= MaxRequests
=============================================================================
