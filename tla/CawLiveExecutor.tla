--------------------------- MODULE CawLiveExecutor ---------------------------
(***************************************************************************)
(* The CAW adapter and its live executor: concurrent payments, each one    *)
(* invocation of the adapter, that submit to the CAW service, wait for its *)
(* evidence and cache the outcome under their request id; and the budget   *)
(* that the guard pipeline holds for each of them meanwhile.  Every await  *)
(* is a point where other invocations run.  The CAW service is external:   *)
(* it may answer late or never, and act on a request whose answer is lost. *)
(* A restart of the runtime loses the cache and every payment in flight.   *)
(***************************************************************************)
EXTENDS Integers, FiniteSets

CONSTANTS
  Runs,        \* invocations of the adapter, each made at most once
  Requests,    \* CAW request ids
  MaxPolls,    \* polls for evidence before the settle deadline
  MaxRestarts  \* bound on the number of restarts

ASSUME CawLiveExecutorAssumption == MaxPolls \in Nat /\ MaxRestarts \in Nat

VARIABLES
  pc,        \* where each run is
  request,   \* its request id
  operation, \* its attempted operation
  polls,     \* the polls it has made for evidence
  cache,     \* the executor's cache: an execution by request id, or NoExecution
  outcome,   \* the execution each run ended with
  decision,  \* the decision the adapter returned for it
  budget,    \* the ledger row of the payment
  caw,       \* what became of its submission at the CAW service
  response,  \* how the CAW service first answered the submission
  ended,     \* the runs that ended since the runtime started
  seen,      \* the runs that had ended when the run was invoked
  restarts

run == <<pc, request, operation, polls, outcome, decision>>
service == <<caw, response>>
history == <<ended, seen, restarts>>
vars == <<run, cache, budget, service, history>>

(***************************************************************************)
(* The outcomes of an execution, by decision and code.  An error of the    *)
(* submission that reads like a pending approval (its result, the status   *)
(* 200, or its reason) has the code of one, CAW_PENDING_APPROVAL; it keeps *)
(* a name of its own here.                                                 *)
(***************************************************************************)
NoExecution     == [decision |-> "none", code |-> "NONE"]
Allowed         == [decision |-> "allow", code |-> "LIVE"]
RefusedLocally  == [decision |-> "block", code |-> "ENV_MISMATCH"]
Unsupported     == [decision |-> "fallback_required", code |-> "UNSUPPORTED_OPERATION"]
Denied          == [decision |-> "block", code |-> "POLICY_DENIED"]
PendingError    == [decision |-> "require_approval", code |-> "PENDING_ERROR"]
PendingApproval == [decision |-> "require_approval", code |-> "PENDING_APPROVAL"]
Failed          == [decision |-> "block", code |-> "TRANSFER_FAILED"]
EvidenceMissing == [decision |-> "fallback_required", code |-> "LIVE_EVIDENCE_MISSING"]

Executions ==
  {Allowed, RefusedLocally, Unsupported, Denied, PendingError, PendingApproval, Failed,
   EvidenceMissing}

(***************************************************************************)
(* executePaymentIntent turns what the executor did not allow or leave to  *)
(* an owner into a block, also where the executor asked for the fallback.  *)
(***************************************************************************)
AdapterDecision(x) ==
  IF x.decision \in {"allow", "require_approval"} THEN x.decision ELSE "block"

Awaiting == {"loading", "submitting", "settling"}

Init ==
  /\ pc = [r \in Runs |-> "idle"]
  /\ request \in [Runs -> Requests]
  /\ operation \in [Runs -> {"transfer", "contract_call", "message_sign"}]
  /\ polls = [r \in Runs |-> 0]
  /\ cache = [q \in Requests |-> NoExecution]
  /\ outcome = [r \in Runs |-> NoExecution]
  /\ decision = [r \in Runs |-> "none"]
  /\ budget = [r \in Runs |-> "none"]
  /\ caw = [r \in Runs |-> "none"]
  /\ response = [r \in Runs |-> "none"]
  /\ ended = {}
  /\ seen = [r \in Runs |-> {}]
  /\ restarts = 0
-----------------------------------------------------------------------------
Goto(r, l) == pc' = [pc EXCEPT ![r] = l]

(***************************************************************************)
(* The run returns: its outcome, and what the adapter makes of it.         *)
(***************************************************************************)
Return(r, x, d) ==
  /\ Goto(r, "done")
  /\ outcome' = [outcome EXCEPT ![r] = x]
  /\ decision' = [decision EXCEPT ![r] = d]
  /\ ended' = ended \cup {r}

ReturnExecution(r, x) == Return(r, x, AdapterDecision(x))

Cache(r, x) == cache' = [cache EXCEPT ![request[r]] = x]

(***************************************************************************)
(* The pipeline calls the adapter with the budget of the payment reserved. *)
(***************************************************************************)
Invoke(r) ==
  /\ pc[r] = "idle"
  /\ budget' = [budget EXCEPT ![r] = "pending"]
  /\ seen' = [seen EXCEPT ![r] = ended]
  /\ UNCHANGED <<request, operation, polls, service, restarts>>

(***************************************************************************)
(* Refused before the cache is asked: an invalid or expired PaymentContext *)
(* or one of another pact, chain or token (block), unverified capabilities *)
(* or no executor (fallback_required).                                     *)
(***************************************************************************)
RefuseLocally(r) ==
  /\ Invoke(r)
  /\ \E d \in {"block", "fallback_required"} : Return(r, RefusedLocally, d)
  /\ UNCHANGED cache

AnswerFromCache(r) ==
  /\ Invoke(r)
  /\ cache[request[r]] # NoExecution
  /\ ReturnExecution(r, cache[request[r]])
  /\ UNCHANGED cache

RefuseOperation(r) ==
  /\ Invoke(r)
  /\ cache[request[r]] = NoExecution
  /\ operation[r] = "message_sign"
  /\ Cache(r, Unsupported)
  /\ ReturnExecution(r, Unsupported)

LoadSdkUncached(r) ==  \* mutation: asks the CAW service again
  /\ Invoke(r)
  /\ operation[r] # "message_sign"
  /\ Goto(r, "loading")
  /\ UNCHANGED <<cache, outcome, decision, ended>>

LoadSdk(r) ==
  /\ Invoke(r)
  /\ cache[request[r]] = NoExecution
  /\ operation[r] # "message_sign"
  /\ Goto(r, "loading")
  /\ UNCHANGED <<cache, outcome, decision, ended>>
-----------------------------------------------------------------------------
(***************************************************************************)
(* After the await on sdkLoader.  A failed load rejects the promise of the *)
(* adapter.  An amount, address or calldata that cannot be sent is an      *)
(* error of the submission and is answered like a denial.                  *)
(***************************************************************************)
LoadFails(r) ==
  /\ pc[r] = "loading"
  /\ Goto(r, "rejected")
  /\ ended' = ended \cup {r}
  /\ UNCHANGED <<request, operation, polls, outcome, decision, cache, budget, service, seen, restarts>>

CannotSubmit(r) ==
  /\ pc[r] = "loading"
  /\ Cache(r, Denied)
  /\ ReturnExecution(r, Denied)
  /\ UNCHANGED <<request, operation, polls, budget, service, seen, restarts>>

Submit(r) ==
  /\ pc[r] = "loading"
  /\ Goto(r, "submitting")
  /\ caw' = [caw EXCEPT ![r] = "sent"]
  /\ UNCHANGED <<request, operation, polls, outcome, decision, cache, budget, response, history>>

(***************************************************************************)
(* After the await on the submission: the answer of the CAW service, or an *)
(* error, by which the service denies it, or which says nothing of what    *)
(* the service did or will do.  createDeniedExecution tells errors apart   *)
(* only by how they read.                                                  *)
(***************************************************************************)
SubmissionEnds(r, x) ==
  /\ pc[r] = "submitting"
  /\ Cache(r, x)
  /\ ReturnExecution(r, x)
  /\ UNCHANGED <<request, operation, polls, budget, service, seen, restarts>>

SubmissionFails(r) == \E x \in {Denied, PendingError} : SubmissionEnds(r, x)
SubmissionPending(r) == response[r] = "pending" /\ SubmissionEnds(r, PendingApproval)

SubmissionAccepted(r) ==
  /\ pc[r] = "submitting"
  /\ response[r] \in {"accepted", "failed"}
  /\ Goto(r, "settling")
  /\ UNCHANGED <<request, operation, polls, outcome, decision, cache, budget, service, history>>
-----------------------------------------------------------------------------
(***************************************************************************)
(* settleTransferEvidence and normalizeSuccessfulTransaction.  Each poll   *)
(* looks for the record and for the audit log again, and forgets what the  *)
(* last one found; a lookup that fails finds nothing.  Both are looked up  *)
(* by request id: the record may be that of another submission of the same *)
(* request.  What is found may lack the wallet or the id of the log.       *)
(***************************************************************************)
Submissions(q) == {s \in Runs : request[s] = q}

RecordsOf(r) ==
  {"none"} \cup ({caw[s] : s \in Submissions(request[r])} \ {"sent"})

AuditLogs == {"none", "partial", "complete"}

NormalizeByStatus(r, record, audit) ==  \* mutation: wants a final status
  IF record # "executed" THEN Failed
  ELSE IF audit # "complete" THEN EvidenceMissing ELSE Allowed

NormalizeSubmitted(r, record, audit) ==  \* mutation: does not need the record
  IF record = "failed" THEN Failed
  ELSE IF audit # "complete" THEN EvidenceMissing ELSE Allowed

Normalize(r, record, audit) ==
  LET status == IF record = "none" THEN response[r] ELSE record IN
  IF status \in {"failed", "denied"} THEN Failed
  ELSE IF record = "none" \/ audit # "complete" THEN EvidenceMissing
  ELSE Allowed

PollUntilFound(r) ==  \* mutation: the deadline starts again
  /\ pc[r] = "settling"
  /\ \E record \in RecordsOf(r), audit \in AuditLogs :
       IF record # "none" /\ audit # "none"
         THEN /\ Cache(r, Normalize(r, record, audit))
              /\ ReturnExecution(r, Normalize(r, record, audit))
              /\ UNCHANGED polls
         ELSE /\ polls' = [polls EXCEPT ![r] = (@ + 1) % (MaxPolls + 1)]
              /\ UNCHANGED <<pc, outcome, decision, cache, ended>>
  /\ UNCHANGED <<request, operation, budget, service, seen, restarts>>

PollAgain(r) ==  \* mutation: one poll too many
  /\ pc[r] = "settling"
  /\ \E record \in RecordsOf(r), audit \in AuditLogs :
       IF (record # "none" /\ audit # "none") \/ polls[r] > MaxPolls
         THEN /\ Cache(r, Normalize(r, record, audit))
              /\ ReturnExecution(r, Normalize(r, record, audit))
              /\ UNCHANGED polls
         ELSE /\ polls' = [polls EXCEPT ![r] = @ + 1]
              /\ UNCHANGED <<pc, outcome, decision, cache, ended>>
  /\ UNCHANGED <<request, operation, budget, service, seen, restarts>>

Poll(r) ==
  /\ pc[r] = "settling"
  /\ \E record \in RecordsOf(r), audit \in AuditLogs :
       IF (record # "none" /\ audit # "none") \/ polls[r] = MaxPolls
         THEN /\ Cache(r, Normalize(r, record, audit))
              /\ ReturnExecution(r, Normalize(r, record, audit))
              /\ UNCHANGED polls
         ELSE /\ polls' = [polls EXCEPT ![r] = @ + 1]
              /\ UNCHANGED <<pc, outcome, decision, cache, ended>>
  /\ UNCHANGED <<request, operation, budget, service, seen, restarts>>

(***************************************************************************)
(* The pipeline posts the budget of an allowed payment (or leaves it       *)
(* pending when it disputes the response) and voids that of any other.     *)
(***************************************************************************)
Settle(r) ==
  /\ pc[r] = "done"
  /\ Goto(r, "settled")
  /\ \E b \in IF decision[r] = "allow" THEN {"posted", "pending"} ELSE {"void"} :
       budget' = [budget EXCEPT ![r] = b]
  /\ UNCHANGED <<request, operation, polls, outcome, decision, cache, service, history>>

Restart ==
  /\ restarts < MaxRestarts
  /\ restarts' = restarts + 1
  /\ pc' = [r \in Runs |-> IF pc[r] \in Awaiting \cup {"done"} THEN "lost" ELSE pc[r]]
  /\ cache' = [q \in Requests |-> NoExecution]
  /\ ended' = {}
  /\ UNCHANGED <<request, operation, polls, outcome, decision, budget, service, seen>>
-----------------------------------------------------------------------------
(***************************************************************************)
(* The CAW service: it accepts a submission, denies it or leaves it to the *)
(* wallet's owner, who may decide much later; what is accepted is executed *)
(* or fails.                                                               *)
(***************************************************************************)
CawDecides(r) ==
  /\ caw[r] = "sent"
  /\ \E s \in {"accepted", "pending", "denied", "failed"} :
       /\ caw' = [caw EXCEPT ![r] = s]
       /\ response' = [response EXCEPT ![r] = s]
  /\ UNCHANGED <<run, cache, budget, history>>

CawSettles(r) ==
  /\ \/ caw[r] = "accepted" /\ \E s \in {"executed", "failed"} : caw' = [caw EXCEPT ![r] = s]
     \/ caw[r] = "pending" /\ \E s \in {"accepted", "denied"} : caw' = [caw EXCEPT ![r] = s]
  /\ UNCHANGED <<run, cache, budget, response, history>>

RunStep(r) ==
  \/ LoadFails(r)
  \/ CannotSubmit(r)
  \/ Submit(r)
  \/ SubmissionFails(r)
  \/ SubmissionPending(r)
  \/ SubmissionAccepted(r)
  \/ Poll(r)
  \/ Settle(r)

Next ==
  \/ \E r \in Runs :
       \/ RefuseLocally(r)
       \/ AnswerFromCache(r)
       \/ RefuseOperation(r)
       \/ LoadSdk(r)
       \/ RunStep(r)
       \/ CawDecides(r)
       \/ CawSettles(r)
  \/ Restart

Spec == Init /\ [][Next]_vars

(***************************************************************************)
(* Awaited promises settle: the request to the CAW service ends with an    *)
(* answer or with an error, and timers fire.  The service owes nothing.    *)
(***************************************************************************)
FairSpec == Spec /\ \A r \in Runs : WF_vars(RunStep(r))
-----------------------------------------------------------------------------
(***************************************************************************)
(* Type invariant.                                                         *)
(***************************************************************************)
CawStates == {"none", "sent", "accepted", "pending", "denied", "executed", "failed"}

TypeOK ==
  /\ pc \in [Runs -> Awaiting \cup {"idle", "done", "settled", "rejected", "lost"}]
  /\ request \in [Runs -> Requests]
  /\ operation \in [Runs -> {"transfer", "contract_call", "message_sign"}]
  /\ polls \in [Runs -> 0..MaxPolls]
  /\ cache \in [Requests -> Executions \cup {NoExecution}]
  /\ outcome \in [Runs -> Executions \cup {NoExecution}]
  /\ decision \in [Runs -> {"none", "allow", "block", "require_approval", "fallback_required"}]
  /\ budget \in [Runs -> {"none", "pending", "posted", "void"}]
  /\ caw \in [Runs -> CawStates]
  /\ response \in [Runs -> {"none", "accepted", "pending", "denied", "failed"}]
  /\ ended \in SUBSET Runs
  /\ seen \in [Runs -> SUBSET Runs]
  /\ restarts \in 0..MaxRestarts

(***************************************************************************)
(* A retry is idempotent: a run that was invoked after another run of the  *)
(* same request had ended, in the same process, does not submit it again.  *)
(* (Runs that overlap, or that a restart separates, may: only the quote    *)
(* lock of the pipeline keeps those apart.)                                *)
(***************************************************************************)
RetryDoesNotResubmit ==
  \A r \in Runs : \A s \in seen[r] :
    request[s] = request[r] /\ caw[s] # "none" => caw[r] = "none"

(***************************************************************************)
(* Budget is posted only for a payment the CAW service accepted, also when *)
(* the answer comes from the cache, from another run of the same request.  *)
(* The record may be that of a submission that still waits for its owner;  *)
(* it then shows only where another submission of the request failed.      *)
(***************************************************************************)
PostedWasAccepted ==
  \A r \in Runs :
    budget[r] = "posted" =>
      \E s \in Submissions(request[r]) :
        /\ response[s] \in {"accepted", "pending"}
        /\ \/ caw[s] \in {"accepted", "executed", "failed"}
           \/ \E t \in Submissions(request[r]) \ {s} : response[t] = "failed"

(***************************************************************************)
(* When budget was given back for a payment that was executed all the      *)
(* same, then its submission ended in an error, was left to the owner, its *)
(* evidence did not show before the deadline or lacked a part, or what the *)
(* request id showed was another submission of it that failed.  No other   *)
(* answer of the adapter gives back budget for money that moves.           *)
(***************************************************************************)
PaidAndReleasedIsExplained ==
  \A r \in Runs :
    budget[r] = "void" /\ caw[r] = "executed" =>
      \/ outcome[r] \in {Denied, PendingError} /\ response[r] # "denied"
      \/ outcome[r] = PendingApproval /\ response[r] = "pending"
      \/ outcome[r] = EvidenceMissing /\ response[r] = "accepted"
      \/ /\ outcome[r] = Failed /\ response[r] = "accepted"
         /\ \E s \in Submissions(request[r]) \ {r} : caw[s] \in {"failed", "denied"}

(***************************************************************************)
(* Budget is given back only for a payment the CAW service did not make.   *)
(* The code breaks this: see PaidAndReleasedIsExplained.                   *)
(***************************************************************************)
VoidWasNotPaid == \A r \in Runs : budget[r] = "void" => caw[r] # "executed"

(***************************************************************************)
(* Liveness: the pipeline gets an answer for each payment, and settles its *)
(* budget, unless the SDK cannot be loaded or the runtime restarts.        *)
(***************************************************************************)
EveryRunEnds ==
  \A r \in Runs : (pc[r] \in Awaiting) ~> (pc[r] \in {"settled", "rejected", "lost"})
=============================================================================
