----------------------- MODULE CawLiveExecutor_proofs -----------------------
(***************************************************************************)
(* Theorems about CawLiveExecutor, for any sets of runs and request ids,   *)
(* and any number of polls and restarts: type correctness, that a retry    *)
(* does not pay again, that posted budget was accepted by the CAW service, *)
(* and the only ways in which budget of a payment that is made comes back. *)
(***************************************************************************)
EXTENDS CawLiveExecutor, TLAPS

Decisions == {"none", "allow", "block", "require_approval", "fallback_required"}

(***************************************************************************)
(* The strengthening.  What one run's place, submission and outcome say of *)
(* one another; an Allowed in the cache or a decision stands for a payment *)
(* of that request that was accepted; and runs that ended left an answer.  *)
(***************************************************************************)
Accepted(q) ==
  \E s \in Submissions(q) :
    /\ response[s] \in {"accepted", "pending"}
    /\ \/ caw[s] \in {"accepted", "executed", "failed"}
       \/ \E t \in Submissions(q) \ {s} : response[t] = "failed"

FailedSibling(r) ==
  \E s \in Submissions(request[r]) \ {r} : caw[s] \in {"failed", "denied"}

ServiceOK(r) ==
  /\ caw[r] \in {"none", "sent"} => response[r] = "none"
  /\ caw[r] \in {"accepted", "pending", "executed"} => response[r] \in {"accepted", "pending"}
  /\ response[r] = "accepted" => caw[r] \in {"accepted", "executed", "failed"}
  /\ response[r] = "failed" => caw[r] = "failed"
  /\ response[r] = "denied" => caw[r] = "denied"

OutcomeOK(r) ==
  \/ outcome[r] \in {Denied, PendingError}
  \/ outcome[r] = PendingApproval /\ response[r] = "pending"
  \/ outcome[r] = EvidenceMissing /\ response[r] \in {"accepted", "failed"}
  \/ /\ outcome[r] = Failed
     /\ caw[r] = "failed" \/ (response[r] = "accepted" /\ FailedSibling(r))

PlaceOK(r) ==
  /\ pc[r] \in {"idle", "loading"} => caw[r] = "none"
  /\ pc[r] = "settling" => response[r] \in {"accepted", "failed"}
  /\ budget[r] = "void" => pc[r] = "settled" /\ decision[r] # "allow"
  /\ pc[r] \in {"done", "settled"} /\ caw[r] # "none" /\ decision[r] # "allow" => OutcomeOK(r)

RunsOK == \A r \in Runs : ServiceOK(r) /\ PlaceOK(r)

AnswersOK ==
  /\ \A q \in Requests : cache[q] = Allowed => Accepted(q)
  /\ \A r \in Runs : decision[r] = "allow" => Accepted(request[r])
  /\ PostedWasAccepted

Past == {"done", "settled", "rejected", "lost"}

RetriesOK ==
  /\ \A s \in ended : pc[s] \in Past /\ (caw[s] # "none" => cache[request[s]] # NoExecution)
  /\ \A r \in Runs : \A s \in seen[r] : pc[s] \in Past
  /\ \A r \in Runs : \A s \in seen[r] :
       pc[r] = "loading" /\ request[s] = request[r] => caw[s] = "none"
  /\ RetryDoesNotResubmit

CawInv == RunsOK /\ AnswersOK /\ RetriesOK
-----------------------------------------------------------------------------
LEMMA ExecutionFacts ==
  /\ {Allowed, RefusedLocally, Unsupported, Denied, PendingError, PendingApproval, Failed,
      EvidenceMissing} = Executions
  /\ \A x \in Executions :
       /\ x # NoExecution
       /\ AdapterDecision(x) \in Decisions
       /\ AdapterDecision(x) = "allow" => x = Allowed
BY DEF Executions, AdapterDecision, Decisions, NoExecution, Allowed, RefusedLocally,
       Unsupported, Denied, PendingError, PendingApproval, Failed, EvidenceMissing

(***************************************************************************)
(* What the evidence of a submission the service answered comes to: the    *)
(* record is that of some submission of the same request.                  *)
(***************************************************************************)
LEMMA NormalizeFacts ==
  ASSUME TypeOK, RunsOK, NEW r \in Runs, NEW record \in RecordsOf(r), NEW audit \in AuditLogs,
         response[r] \in {"accepted", "failed"}
  PROVE  LET x == Normalize(r, record, audit) IN
         /\ x \in {Allowed, Failed, EvidenceMissing}
         /\ x = Allowed => Accepted(request[r])
         /\ x = Failed => caw[r] = "failed" \/ (response[r] = "accepted" /\ FailedSibling(r))
<1>1. Allowed # Failed /\ Allowed # EvidenceMissing /\ Failed # EvidenceMissing
  BY DEF Allowed, Failed, EvidenceMissing
<1>2. PICK s \in Submissions(request[r]) : record = "none" \/ (record = caw[s] /\ caw[s] # "sent")
  BY DEF RecordsOf, Submissions
<1>3. s \in Runs /\ ServiceOK(s) /\ ServiceOK(r) /\ r \in Submissions(request[r])
  BY DEF RunsOK, Submissions
<1>4. Normalize(r, record, audit) \in {Allowed, Failed, EvidenceMissing}
  BY DEF Normalize
<1>5. ASSUME Normalize(r, record, audit) = Allowed PROVE Accepted(request[r])
  <2>1. CASE response[r] = "accepted"
    BY <1>3, <2>1 DEF Accepted, ServiceOK
  <2>2. CASE response[r] = "failed"
    <3>1. record # "none" /\ record \notin {"failed", "denied"}
      BY <1>1, <1>5, <2>2 DEF Normalize
    <3>2. record = caw[s] /\ caw[s] \notin {"none", "sent", "failed", "denied"}
      BY <1>2, <3>1
    <3>3. response[s] \in {"accepted", "pending"}
      <4>1. caw[s] \in {"accepted", "pending", "executed"}
        BY <1>3, <3>2 DEF TypeOK, CawStates
      <4> QED
        BY <1>3, <4>1 DEF ServiceOK
    <3> QED
      BY <1>3, <2>2, <3>3 DEF Accepted
  <2> QED
    BY <2>1, <2>2
<1>7. ASSUME Normalize(r, record, audit) = Failed
      PROVE  caw[r] = "failed" \/ (response[r] = "accepted" /\ FailedSibling(r))
  <2>1. (IF record = "none" THEN response[r] ELSE record) \in {"failed", "denied"}
    BY <1>1, <1>7 DEF Normalize
  <2>2. CASE response[r] = "failed"
    BY <1>3, <2>2 DEF ServiceOK
  <2>3. CASE response[r] = "accepted"
    <3>1. caw[s] \in {"failed", "denied"}
      BY <1>2, <2>1, <2>3
    <3>2. CASE s = r
      BY <1>3, <2>3, <3>1, <3>2 DEF ServiceOK
    <3>3. CASE s # r
      BY <1>2, <2>3, <3>1, <3>3 DEF FailedSibling
    <3> QED
      BY <3>2, <3>3
  <2> QED
    BY <2>2, <2>3
<1> QED
  BY <1>4, <1>5, <1>7

LEMMA ReturnTyped ==
  ASSUME TypeOK, NEW r \in Runs, NEW x \in Executions, NEW d \in Decisions, Return(r, x, d)
  PROVE  /\ pc' \in [Runs -> Awaiting \cup {"idle", "done", "settled", "rejected", "lost"}]
         /\ outcome' \in [Runs -> Executions \cup {NoExecution}]
         /\ decision' \in [Runs -> Decisions]
         /\ ended' \in SUBSET Runs
BY DEF TypeOK, Return, Goto, Decisions

LEMMA CacheTyped ==
  ASSUME TypeOK, NEW r \in Runs, NEW x \in Executions, Cache(r, x)
  PROVE  cache' \in [Requests -> Executions \cup {NoExecution}]
BY DEF TypeOK, Cache

LEMMA InvokeTyped ==
  ASSUME TypeOK, NEW r \in Runs, Invoke(r)
  PROVE  /\ budget' \in [Runs -> {"none", "pending", "posted", "void"}]
         /\ seen' \in [Runs -> SUBSET Runs]
         /\ UNCHANGED <<request, operation, polls, caw, response, restarts>>
BY DEF TypeOK, Invoke, service

LEMMA NormalizeTyped ==
  ASSUME NEW r, NEW record, NEW audit
  PROVE  Normalize(r, record, audit) \in Executions
BY ExecutionFacts DEF Normalize

(***************************************************************************)
(* Type correctness.                                                       *)
(***************************************************************************)
LEMMA TypeStep == TypeOK /\ [Next]_vars => TypeOK'
<1> SUFFICES ASSUME TypeOK, [Next]_vars PROVE TypeOK'
  OBVIOUS
<1>1. CASE UNCHANGED vars
  BY <1>1 DEF vars, run, service, history, TypeOK
<1>2. CASE Restart
  BY <1>2, CawLiveExecutorAssumption DEF Restart, service, TypeOK
<1>3. ASSUME NEW r \in Runs, RefuseLocally(r) PROVE TypeOK'
  <2>1. PICK d \in {"block", "fallback_required"} : Return(r, RefusedLocally, d)
    BY <1>3 DEF RefuseLocally
  <2>2. d \in Decisions /\ RefusedLocally \in Executions
    BY ExecutionFacts DEF Decisions
  <2> QED
    BY <1>3, <2>1, <2>2, ReturnTyped, InvokeTyped DEF RefuseLocally, TypeOK, Decisions
<1>4. ASSUME NEW r \in Runs, AnswerFromCache(r) PROVE TypeOK'
  <2>1. cache[request[r]] \in Executions
    BY <1>4 DEF AnswerFromCache, TypeOK
  <2>2. Return(r, cache[request[r]], AdapterDecision(cache[request[r]]))
    BY <1>4 DEF AnswerFromCache, ReturnExecution
  <2> QED
    BY <1>4, <2>1, <2>2, ExecutionFacts, ReturnTyped, InvokeTyped DEF AnswerFromCache, TypeOK, Decisions
<1>5. ASSUME NEW r \in Runs, RefuseOperation(r) PROVE TypeOK'
  <2>1. Unsupported \in Executions /\ AdapterDecision(Unsupported) \in Decisions
    BY ExecutionFacts
  <2> QED
    BY <1>5, <2>1, ReturnTyped, CacheTyped, InvokeTyped
       DEF RefuseOperation, ReturnExecution, TypeOK, Decisions
<1>6. ASSUME NEW r \in Runs, LoadSdk(r) PROVE TypeOK'
  BY <1>6, InvokeTyped DEF LoadSdk, Goto, Awaiting, TypeOK
<1>7. ASSUME NEW r \in Runs, LoadFails(r) PROVE TypeOK'
  BY <1>7 DEF LoadFails, Goto, Awaiting, service, TypeOK
<1>8. ASSUME NEW r \in Runs, NEW x \in Executions, Cache(r, x), ReturnExecution(r, x),
             UNCHANGED <<request, operation, polls, budget, service, seen, restarts>>
      PROVE  TypeOK'
  <2>1. AdapterDecision(x) \in Decisions
    BY ExecutionFacts
  <2> QED
    BY <1>8, <2>1, ReturnTyped, CacheTyped DEF ReturnExecution, service, TypeOK, Decisions
<1>9. ASSUME NEW r \in Runs, Submit(r) PROVE TypeOK'
  BY <1>9 DEF Submit, Goto, Awaiting, CawStates, history, TypeOK
<1>10. ASSUME NEW r \in Runs, SubmissionAccepted(r) PROVE TypeOK'
  BY <1>10 DEF SubmissionAccepted, Goto, Awaiting, service, history, TypeOK
<1>11. ASSUME NEW r \in Runs, Poll(r) PROVE TypeOK'
  <2>1. PICK record \in RecordsOf(r), audit \in AuditLogs :
          \/ /\ Cache(r, Normalize(r, record, audit))
             /\ ReturnExecution(r, Normalize(r, record, audit))
             /\ UNCHANGED polls
          \/ /\ polls[r] # MaxPolls
             /\ polls' = [polls EXCEPT ![r] = @ + 1]
             /\ UNCHANGED <<pc, outcome, decision, cache, ended>>
    BY <1>11 DEF Poll
  <2>2. UNCHANGED <<request, operation, budget, service, seen, restarts>>
    BY <1>11 DEF Poll
  <2>3. CASE Cache(r, Normalize(r, record, audit)) /\ ReturnExecution(r, Normalize(r, record, audit)) /\ UNCHANGED polls
    BY <1>8, <2>2, <2>3, NormalizeTyped
  <2>4. CASE /\ polls[r] # MaxPolls
             /\ polls' = [polls EXCEPT ![r] = @ + 1]
             /\ UNCHANGED <<pc, outcome, decision, cache, ended>>
    <3>1. polls[r] + 1 \in 0..MaxPolls
      BY <2>4, CawLiveExecutorAssumption DEF TypeOK
    <3> QED
      BY <2>2, <2>4, <3>1 DEF service, TypeOK
  <2> QED
    BY <2>1, <2>3, <2>4
<1>12. ASSUME NEW r \in Runs, Settle(r) PROVE TypeOK'
  BY <1>12 DEF Settle, Goto, Awaiting, service, history, TypeOK
<1>13. ASSUME NEW r \in Runs, CawDecides(r) PROVE TypeOK'
  BY <1>13 DEF CawDecides, run, history, CawStates, TypeOK
<1>14. ASSUME NEW r \in Runs, CawSettles(r) PROVE TypeOK'
  BY <1>14 DEF CawSettles, run, history, CawStates, TypeOK
<1>15. ASSUME NEW r \in Runs, CannotSubmit(r) \/ SubmissionFails(r) \/ SubmissionPending(r)
       PROVE  TypeOK'
  BY <1>8, <1>15, ExecutionFacts
     DEF CannotSubmit, SubmissionFails, SubmissionPending, SubmissionEnds
<1> QED
  BY <1>1, <1>2, <1>3, <1>4, <1>5, <1>6, <1>7, <1>9, <1>10, <1>11, <1>12, <1>13, <1>14, <1>15
     DEF Next, RunStep

LEMMA TypeInit == Init => TypeOK
BY CawLiveExecutorAssumption DEF Init, TypeOK, Awaiting, CawStates

(***************************************************************************)
(* The variables hold what their declarations say, in every instance.      *)
(***************************************************************************)
THEOREM CawTypeCorrect == Spec => []TypeOK
BY TypeInit, TypeStep, PTL DEF Spec
-----------------------------------------------------------------------------
(***************************************************************************)
(* Requests are fixed; the first answer of the service stays; what it      *)
(* accepted it only executes or fails; and what failed or was denied stays *)
(* so.                                                                     *)
(***************************************************************************)
LEMMA RequestStays == [Next]_vars => request' = request
BY DEF Next, vars, run, RefuseLocally, AnswerFromCache, RefuseOperation, LoadSdk, Invoke, RunStep,
       LoadFails, CannotSubmit, Submit, SubmissionFails, SubmissionPending,
       SubmissionEnds, SubmissionAccepted, Poll, Settle, CawDecides, CawSettles, Restart

LEMMA ServiceStays ==
  ASSUME TypeOK, RunsOK, [Next]_vars, NEW s \in Runs
  PROVE  /\ response[s] # "none" => response'[s] = response[s]
         /\ caw[s] \in {"accepted", "executed", "failed"} => caw'[s] \in {"accepted", "executed", "failed"}
         /\ caw[s] \in {"failed", "denied"} => caw'[s] = caw[s]
<1> DEFINE Goal ==
      /\ response[s] # "none" => response'[s] = response[s]
      /\ caw[s] \in {"accepted", "executed", "failed"} => caw'[s] \in {"accepted", "executed", "failed"}
      /\ caw[s] \in {"failed", "denied"} => caw'[s] = caw[s]
<1>1. CASE UNCHANGED <<caw, response>>
  BY <1>1
<1>2. ASSUME NEW r \in Runs, Submit(r) PROVE Goal
  <2>1. caw' = [caw EXCEPT ![r] = "sent"] /\ response' = response /\ caw[r] = "none"
    BY <1>2 DEF Submit, RunsOK, PlaceOK
  <2> QED
    BY <2>1 DEF TypeOK
<1>3. ASSUME NEW r \in Runs, CawDecides(r) PROVE Goal
  <2>1. caw[r] = "sent" /\ response[r] = "none"
    BY <1>3 DEF CawDecides, RunsOK, ServiceOK
  <2> QED
    BY <1>3, <2>1 DEF CawDecides, TypeOK
<1>4. ASSUME NEW r \in Runs, CawSettles(r) PROVE Goal
  BY <1>4 DEF CawSettles, TypeOK
<1> QED
  BY <1>1, <1>2, <1>3, <1>4
     DEF Next, vars, service, RefuseLocally, AnswerFromCache, RefuseOperation, LoadSdk, Invoke, RunStep,
         LoadFails, CannotSubmit, SubmissionFails, SubmissionPending,
         SubmissionEnds, SubmissionAccepted, Poll, Settle, Restart

LEMMA SiblingStays ==
  ASSUME TypeOK, RunsOK, [Next]_vars, NEW r \in Runs, FailedSibling(r)
  PROVE  FailedSibling(r)'
<1>1. PICK s \in Submissions(request[r]) \ {r} : caw[s] \in {"failed", "denied"}
  BY DEF FailedSibling
<1>2. s \in Runs /\ request' = request
  BY <1>1, RequestStays DEF Submissions
<1>3. caw'[s] \in {"failed", "denied"}
  BY <1>1, <1>2, ServiceStays
<1> QED
  BY <1>1, <1>2, <1>3 DEF FailedSibling, Submissions

(***************************************************************************)
(* A run that returns keeps RunsOK, if it never submitted, was allowed, or *)
(* its outcome says what the service answered.                             *)
(***************************************************************************)
LEMMA ReturnPlaces ==
  ASSUME TypeOK, RunsOK, NEW r \in Runs, NEW x, NEW d, Return(r, x, d),
         caw[r] = "none" \/ d = "allow" \/ OutcomeOK(r)',
         UNCHANGED <<caw, response>>,
         \A s \in Runs : FailedSibling(s) => FailedSibling(s)',
         \A s \in Runs : budget'[s] = "void" => budget[s] = "void" /\ s # r
  PROVE  RunsOK'
<1> SUFFICES ASSUME NEW s \in Runs PROVE ServiceOK(s)' /\ PlaceOK(s)'
  BY DEF RunsOK
<1>1. ServiceOK(s)'
  BY DEF RunsOK, ServiceOK
<1>2. CASE s # r
  <2>1. /\ pc'[s] = pc[s] /\ outcome'[s] = outcome[s] /\ decision'[s] = decision[s]
        /\ caw'[s] = caw[s] /\ response'[s] = response[s]
    BY <1>2 DEF Return, Goto, TypeOK
  <2> QED
    BY <1>1, <2>1 DEF RunsOK, PlaceOK, OutcomeOK
<1>3. CASE s = r
  <2>1. pc'[r] = "done" /\ decision'[r] = d /\ budget'[r] # "void"
    BY DEF Return, Goto, TypeOK
  <2>2. caw'[r] # "none" /\ d # "allow" => OutcomeOK(r)'
    BY DEF OutcomeOK
  <2> QED
    BY <1>1, <1>3, <2>1, <2>2 DEF PlaceOK
<1> QED
  BY <1>2, <1>3

LEMMA RunsStep == TypeOK /\ RunsOK /\ [Next]_vars => RunsOK'
<1> SUFFICES ASSUME TypeOK, RunsOK, [Next]_vars PROVE RunsOK'
  OBVIOUS
<1>s. \A s \in Runs : FailedSibling(s) => FailedSibling(s)'
  BY SiblingStays
<1>1. CASE UNCHANGED vars
  BY <1>1, <1>s DEF vars, run, service, RunsOK, ServiceOK, PlaceOK, OutcomeOK
<1>2. CASE Restart
  <2>1. UNCHANGED <<outcome, decision, budget, caw, response>>
    BY <1>2 DEF Restart, service
  <2>2. \A s \in Runs : pc'[s] = pc[s] \/ (pc'[s] = "lost" /\ pc[s] \in Awaiting \cup {"done"})
    BY <1>2 DEF Restart
  <2> QED
    BY <1>s, <2>1, <2>2 DEF RunsOK, ServiceOK, PlaceOK, OutcomeOK, Awaiting
<1>3. ASSUME NEW r \in Runs, Invoke(r)
      PROVE  /\ UNCHANGED <<caw, response>>
             /\ caw[r] = "none"
             /\ \A s \in Runs : budget'[s] = "void" => budget[s] = "void" /\ s # r
  <2>1. pc[r] = "idle" /\ budget' = [budget EXCEPT ![r] = "pending"] /\ UNCHANGED <<caw, response>>
    BY <1>3 DEF Invoke, service
  <2> QED
    BY <2>1 DEF RunsOK, PlaceOK, TypeOK
<1>4. ASSUME NEW r \in Runs, RefuseLocally(r) PROVE RunsOK'
  <2>1. PICK d : Return(r, RefusedLocally, d)
    BY <1>4 DEF RefuseLocally
  <2>2. Invoke(r)
    BY <1>4 DEF RefuseLocally
  <2> QED
    BY <2>1, <2>2, <1>3, <1>s, ReturnPlaces
<1>5. ASSUME NEW r \in Runs, AnswerFromCache(r) \/ RefuseOperation(r) PROVE RunsOK'
  <2>1. PICK x : Return(r, x, AdapterDecision(x))
    BY <1>5 DEF AnswerFromCache, RefuseOperation, ReturnExecution
  <2>2. Invoke(r)
    BY <1>5 DEF AnswerFromCache, RefuseOperation
  <2> QED
    BY <2>1, <2>2, <1>3, <1>s, ReturnPlaces
<1>6. ASSUME NEW r \in Runs, LoadSdk(r) PROVE RunsOK'
  <2>1. Invoke(r) /\ pc' = [pc EXCEPT ![r] = "loading"] /\ UNCHANGED <<outcome, decision>>
    BY <1>6 DEF LoadSdk, Goto
  <2> QED
    BY <1>s, <2>1, <1>3 DEF RunsOK, ServiceOK, PlaceOK, OutcomeOK, TypeOK
<1>7. ASSUME NEW r \in Runs, LoadFails(r) PROVE RunsOK'
  <2>1. pc' = [pc EXCEPT ![r] = "rejected"] /\ pc[r] = "loading" /\ UNCHANGED <<outcome, decision, budget, caw, response>>
    BY <1>7 DEF LoadFails, Goto, service
  <2> QED
    BY <1>s, <2>1 DEF RunsOK, ServiceOK, PlaceOK, OutcomeOK, TypeOK
<1>8. ASSUME NEW r \in Runs, NEW x, pc[r] \in {"loading", "submitting"},
             ReturnExecution(r, x), UNCHANGED <<budget, service>>,
             pc[r] = "submitting" => OutcomeOK(r)'
      PROVE  RunsOK'
  <2>1. caw[r] = "none" \/ OutcomeOK(r)'
    BY <1>8 DEF RunsOK, PlaceOK
  <2>2. \A s \in Runs : budget'[s] = "void" => budget[s] = "void" /\ s # r
    BY <1>8 DEF RunsOK, PlaceOK
  <2> QED
    BY <1>8, <2>1, <2>2, <1>s, ReturnPlaces DEF ReturnExecution, service
<1>9. ASSUME NEW r \in Runs, CannotSubmit(r) PROVE RunsOK'
  BY <1>8, <1>9 DEF CannotSubmit
<1>10. ASSUME NEW r \in Runs, SubmissionFails(r) \/ SubmissionPending(r) PROVE RunsOK'
  <2>1. PICK x : SubmissionEnds(r, x) /\ (x \in {Denied, PendingError} \/ (x = PendingApproval /\ response[r] = "pending"))
    BY <1>10 DEF SubmissionFails, SubmissionPending
  <2>2. outcome'[r] = x /\ UNCHANGED <<budget, service>>
    BY <2>1 DEF SubmissionEnds, ReturnExecution, Return, TypeOK
  <2>3. OutcomeOK(r)'
    BY <2>1, <2>2 DEF OutcomeOK, service
  <2> QED
    BY <1>8, <2>1, <2>2, <2>3 DEF SubmissionEnds
<1>11. ASSUME NEW r \in Runs, Submit(r) PROVE RunsOK'
  <2>1. /\ pc' = [pc EXCEPT ![r] = "submitting"] /\ caw' = [caw EXCEPT ![r] = "sent"]
        /\ pc[r] = "loading" /\ UNCHANGED <<outcome, decision, budget, response>>
    BY <1>11 DEF Submit, Goto
  <2> QED
    BY <1>s, <2>1 DEF RunsOK, ServiceOK, PlaceOK, OutcomeOK, TypeOK
<1>12. ASSUME NEW r \in Runs, SubmissionAccepted(r) PROVE RunsOK'
  <2>1. /\ pc' = [pc EXCEPT ![r] = "settling"] /\ response[r] \in {"accepted", "failed"}
        /\ pc[r] = "submitting" /\ UNCHANGED <<outcome, decision, budget, caw, response>>
    BY <1>12 DEF SubmissionAccepted, Goto, service
  <2> QED
    BY <1>s, <2>1 DEF RunsOK, ServiceOK, PlaceOK, OutcomeOK, TypeOK
<1>13. ASSUME NEW r \in Runs, Poll(r) PROVE RunsOK'
  <2>1. PICK record \in RecordsOf(r), audit \in AuditLogs :
          \/ ReturnExecution(r, Normalize(r, record, audit))
          \/ UNCHANGED <<pc, outcome, decision>>
    BY <1>13 DEF Poll
  <2>2. pc[r] = "settling" /\ UNCHANGED <<budget, caw, response>>
    BY <1>13 DEF Poll, service
  <2>3. CASE UNCHANGED <<pc, outcome, decision>>
    BY <1>s, <2>2, <2>3 DEF RunsOK, ServiceOK, PlaceOK, OutcomeOK
  <2>4. CASE ReturnExecution(r, Normalize(r, record, audit))
    <3>1. PICK x : x = Normalize(r, record, audit)
      OBVIOUS
    <3>2. Return(r, x, AdapterDecision(x))
      BY <2>4, <3>1 DEF ReturnExecution
    <3>3. outcome'[r] = x
      BY <3>2 DEF Return, TypeOK
    <3>4. AdapterDecision(x) = "allow" \/ OutcomeOK(r)'
      <4>1. /\ x \in {Allowed, Failed, EvidenceMissing}
            /\ x = Failed => caw[r] = "failed" \/ (response[r] = "accepted" /\ FailedSibling(r))
            /\ response[r] \in {"accepted", "failed"}
        BY <2>2, <3>1, NormalizeFacts DEF RunsOK, PlaceOK
      <4>2. AdapterDecision(Allowed) = "allow"
        BY DEF AdapterDecision, Allowed
      <4> QED
        BY <1>s, <2>2, <3>3, <4>1, <4>2 DEF OutcomeOK
    <3>5. \A s \in Runs : budget'[s] = "void" => budget[s] = "void" /\ s # r
      BY <2>2 DEF RunsOK, PlaceOK
    <3> QED
      BY <2>2, <3>2, <3>4, <3>5, <1>s, ReturnPlaces
  <2> QED
    BY <2>1, <2>3, <2>4
<1>14. ASSUME NEW r \in Runs, Settle(r) PROVE RunsOK'
  <2>1. /\ pc' = [pc EXCEPT ![r] = "settled"] /\ pc[r] = "done"
        /\ UNCHANGED <<outcome, decision, caw, response>>
    BY <1>14 DEF Settle, Goto, service
  <2>2. PICK b \in {"posted", "pending", "void"} :
          budget' = [budget EXCEPT ![r] = b] /\ (b = "void" => decision[r] # "allow")
    BY <1>14 DEF Settle
  <2> QED
    BY <1>s, <2>1, <2>2 DEF RunsOK, ServiceOK, PlaceOK, OutcomeOK, TypeOK
<1>15. ASSUME NEW r \in Runs, CawDecides(r) PROVE RunsOK'
  <2>1. PICK x \in {"accepted", "pending", "denied", "failed"} :
          caw' = [caw EXCEPT ![r] = x] /\ response' = [response EXCEPT ![r] = x]
    BY <1>15 DEF CawDecides
  <2>2. caw[r] = "sent" /\ response[r] = "none" /\ UNCHANGED <<pc, outcome, decision, budget>>
    BY <1>15 DEF CawDecides, run, RunsOK, ServiceOK
  <2> QED
    BY <1>s, <2>1, <2>2 DEF RunsOK, ServiceOK, PlaceOK, OutcomeOK, TypeOK
<1>16. ASSUME NEW r \in Runs, CawSettles(r) PROVE RunsOK'
  <2>1. PICK x \in {"accepted", "denied", "executed", "failed"} :
          /\ caw' = [caw EXCEPT ![r] = x]
          /\ caw[r] = "accepted" => x \in {"executed", "failed"}
    BY <1>16 DEF CawSettles
  <2>2. caw[r] \in {"accepted", "pending"} /\ UNCHANGED <<pc, outcome, decision, budget, response>>
    BY <1>16 DEF CawSettles, run
  <2> QED
    BY <1>s, <2>1, <2>2 DEF RunsOK, ServiceOK, PlaceOK, OutcomeOK, TypeOK
<1> QED
  BY <1>1, <1>2, <1>4, <1>5, <1>6, <1>7, <1>9, <1>10, <1>11, <1>12, <1>13, <1>14, <1>15, <1>16
     DEF Next, RunStep
-----------------------------------------------------------------------------
(***************************************************************************)
(* What was accepted of a request stays so.                                *)
(***************************************************************************)
LEMMA AcceptedStays ==
  ASSUME TypeOK, RunsOK, [Next]_vars, NEW q, Accepted(q)
  PROVE  Accepted(q)'
<1>1. PICK s \in Submissions(q) :
        /\ response[s] \in {"accepted", "pending"}
        /\ \/ caw[s] \in {"accepted", "executed", "failed"}
           \/ \E t \in Submissions(q) \ {s} : response[t] = "failed"
  BY DEF Accepted
<1>2. Submissions(q)' = Submissions(q) /\ Submissions(q) \subseteq Runs
  BY RequestStays DEF Submissions
<1>3. response'[s] \in {"accepted", "pending"}
  BY <1>1, <1>2, ServiceStays
<1>4. \/ caw'[s] \in {"accepted", "executed", "failed"}
      \/ \E t \in Submissions(q) \ {s} : response'[t] = "failed"
  BY <1>1, <1>2, ServiceStays
<1> QED
  BY <1>1, <1>2, <1>3, <1>4 DEF Accepted

(***************************************************************************)
(* A run that returns keeps AnswersOK, if an allow it answers or caches is *)
(* for an accepted payment.                                                *)
(***************************************************************************)
LEMMA ReturnAnswers ==
  ASSUME TypeOK, RunsOK, AnswersOK, [Next]_vars, NEW r \in Runs, NEW x, NEW d, Return(r, x, d),
         d = "allow" => Accepted(request[r]),
         \A q \in Requests : cache'[q] = Allowed => cache[q] = Allowed \/ Accepted(q),
         request' = request,
         \A s \in Runs : budget'[s] = "posted" => budget[s] = "posted"
  PROVE  AnswersOK'
<1>1. \A q \in Requests : cache'[q] = Allowed => Accepted(q)'
  BY AcceptedStays DEF AnswersOK
<1>2. ASSUME NEW s \in Runs, decision'[s] = "allow" PROVE Accepted(request[s])'
  <2>1. decision[s] = "allow" \/ (s = r /\ d = "allow")
    BY <1>2 DEF Return, TypeOK
  <2>2. Accepted(request[s])
    BY <2>1 DEF AnswersOK
  <2> QED
    BY <2>2, AcceptedStays DEF Accepted
<1>3. PostedWasAccepted'
  <2> SUFFICES ASSUME NEW s \in Runs, budget'[s] = "posted" PROVE Accepted(request[s])'
    BY DEF PostedWasAccepted, Accepted
  <2>1. Accepted(request[s])
    BY DEF AnswersOK, PostedWasAccepted, Accepted
  <2> QED
    BY <2>1, AcceptedStays DEF Accepted
<1> QED
  BY <1>1, <1>2, <1>3 DEF AnswersOK

(***************************************************************************)
(* A step that neither answers nor caches an allow, and posts budget only  *)
(* for a run that was allowed.                                             *)
(***************************************************************************)
LEMMA QuietAnswers ==
  ASSUME TypeOK, RunsOK, AnswersOK, [Next]_vars, UNCHANGED <<request, decision>>,
         \A q \in Requests : cache'[q] = Allowed => cache[q] = Allowed,
         \A s \in Runs : budget'[s] = "posted" => budget[s] = "posted" \/ decision[s] = "allow"
  PROVE  AnswersOK'
<1>1. \A q \in Requests : cache'[q] = Allowed => Accepted(q)'
  BY AcceptedStays DEF AnswersOK
<1>2. ASSUME NEW s \in Runs, decision[s] = "allow" \/ budget[s] = "posted" PROVE Accepted(request[s])'
  <2>1. Accepted(request[s])
    BY <1>2 DEF AnswersOK, PostedWasAccepted, Accepted
  <2> QED
    BY <2>1, AcceptedStays DEF Accepted
<1>3. PostedWasAccepted'
  BY <1>2 DEF PostedWasAccepted, Accepted
<1> QED
  BY <1>1, <1>2, <1>3 DEF AnswersOK

LEMMA AnswersStep == TypeOK /\ RunsOK /\ AnswersOK /\ [Next]_vars => AnswersOK'
<1> SUFFICES ASSUME TypeOK, RunsOK, AnswersOK, [Next]_vars PROVE AnswersOK'
  OBVIOUS
<1>1. CASE UNCHANGED vars
  BY <1>1, QuietAnswers DEF vars, run
<1>2. CASE Restart
  <2>1. \A q \in Requests : cache'[q] # Allowed
    BY <1>2 DEF Restart, NoExecution, Allowed
  <2> QED
    BY <1>2, <2>1, QuietAnswers DEF Restart
<1>3. ASSUME NEW r \in Runs, Invoke(r)
      PROVE  request' = request /\ \A s \in Runs : budget'[s] = "posted" => budget[s] = "posted"
  BY <1>3 DEF Invoke, TypeOK
<1>4. ASSUME NEW r \in Runs, NEW x \in Executions, Cache(r, x), x = Allowed => Accepted(request[r])
      PROVE  \A q \in Requests : cache'[q] = Allowed => cache[q] = Allowed \/ Accepted(q)
  BY <1>4 DEF Cache, TypeOK
<1>5. ASSUME NEW x \in Executions, AdapterDecision(x) = "allow" PROVE x = Allowed
  BY <1>5, ExecutionFacts
<1>6. ASSUME NEW r \in Runs, RefuseLocally(r) PROVE AnswersOK'
  <2>1. PICK d \in {"block", "fallback_required"} : Return(r, RefusedLocally, d)
    BY <1>6 DEF RefuseLocally
  <2>2. Invoke(r) /\ UNCHANGED cache
    BY <1>6 DEF RefuseLocally
  <2> QED
    BY <2>1, <2>2, <1>3, ReturnAnswers
<1>7. ASSUME NEW r \in Runs, AnswerFromCache(r) PROVE AnswersOK'
  <2>1. PICK x : x = cache[request[r]]
    OBVIOUS
  <2>2. x \in Executions /\ request[r] \in Requests
    BY <1>7, <2>1 DEF AnswerFromCache, TypeOK
  <2>3. Return(r, x, AdapterDecision(x)) /\ Invoke(r) /\ UNCHANGED cache
    BY <1>7, <2>1 DEF AnswerFromCache, ReturnExecution
  <2>4. AdapterDecision(x) = "allow" => Accepted(request[r])
    BY <2>1, <2>2, <1>5 DEF AnswersOK
  <2> QED
    BY <2>3, <2>4, <1>3, ReturnAnswers
<1>8. ASSUME NEW r \in Runs, RefuseOperation(r) PROVE AnswersOK'
  <2>1. Unsupported \in Executions /\ Unsupported # Allowed
    BY ExecutionFacts DEF Unsupported, Allowed
  <2>2. Return(r, Unsupported, AdapterDecision(Unsupported)) /\ Invoke(r) /\ Cache(r, Unsupported)
    BY <1>8 DEF RefuseOperation, ReturnExecution
  <2> QED
    BY <2>1, <2>2, <1>3, <1>4, <1>5, ReturnAnswers
<1>9. ASSUME NEW r \in Runs, NEW x \in Executions, Cache(r, x), ReturnExecution(r, x),
             UNCHANGED <<request, budget>>, x = Allowed => Accepted(request[r])
      PROVE  AnswersOK'
  <2>1. AdapterDecision(x) = "allow" => Accepted(request[r])
    BY <1>5, <1>9
  <2>2. \A q \in Requests : cache'[q] = Allowed => cache[q] = Allowed \/ Accepted(q)
    BY <1>4, <1>9
  <2> QED
    BY <1>9, <2>1, <2>2, ReturnAnswers DEF ReturnExecution
<1>10. ASSUME NEW r \in Runs,
              CannotSubmit(r) \/ SubmissionFails(r) \/ SubmissionPending(r)
       PROVE  AnswersOK'
  <2>1. PICK x \in {Denied, PendingError, PendingApproval} :
          Cache(r, x) /\ ReturnExecution(r, x) /\ UNCHANGED <<request, budget>>
    BY <1>10 DEF CannotSubmit, SubmissionFails, SubmissionPending, SubmissionEnds
  <2>2. x \in Executions /\ x # Allowed
    BY ExecutionFacts DEF Denied, PendingError, PendingApproval, Allowed
  <2> QED
    BY <2>1, <2>2, <1>9
<1>11. ASSUME NEW r \in Runs, Poll(r) PROVE AnswersOK'
  <2>1. PICK record \in RecordsOf(r), audit \in AuditLogs :
          \/ /\ Cache(r, Normalize(r, record, audit))
             /\ ReturnExecution(r, Normalize(r, record, audit))
          \/ UNCHANGED <<decision, cache>>
    BY <1>11 DEF Poll
  <2>2. pc[r] = "settling" /\ UNCHANGED <<request, budget>>
    BY <1>11 DEF Poll
  <2>3. CASE UNCHANGED <<decision, cache>>
    BY <2>2, <2>3, QuietAnswers
  <2>4. CASE Cache(r, Normalize(r, record, audit)) /\ ReturnExecution(r, Normalize(r, record, audit))
    <3>1. PICK x : x = Normalize(r, record, audit)
      OBVIOUS
    <3>2. x \in Executions
      BY <3>1, NormalizeTyped
    <3>3. x = Allowed => Accepted(request[r])
      BY <2>2, <3>1, NormalizeFacts DEF RunsOK, PlaceOK
    <3> QED
      BY <2>2, <2>4, <3>1, <3>2, <3>3, <1>9
  <2> QED
    BY <2>1, <2>3, <2>4
<1>12. ASSUME NEW r \in Runs, Settle(r) PROVE AnswersOK'
  <2>1. PICK b : budget' = [budget EXCEPT ![r] = b] /\ (b = "posted" => decision[r] = "allow")
    BY <1>12 DEF Settle
  <2>2. UNCHANGED <<request, decision, cache>>
    BY <1>12 DEF Settle
  <2> QED
    BY <2>1, <2>2, QuietAnswers DEF TypeOK
<1>13. ASSUME NEW r \in Runs, LoadSdk(r) PROVE AnswersOK'
  BY <1>13, <1>3, QuietAnswers DEF LoadSdk
<1>14. ASSUME NEW r \in Runs, LoadFails(r) \/ Submit(r) \/ SubmissionAccepted(r) PROVE AnswersOK'
  BY <1>14, QuietAnswers DEF LoadFails, Submit, SubmissionAccepted
<1>15. ASSUME NEW r \in Runs, CawDecides(r) \/ CawSettles(r) PROVE AnswersOK'
  BY <1>15, QuietAnswers DEF CawDecides, CawSettles, run
<1> QED
  BY <1>1, <1>2, <1>6, <1>7, <1>8, <1>10, <1>11, <1>12, <1>13, <1>14, <1>15 DEF Next, RunStep
-----------------------------------------------------------------------------
(***************************************************************************)
(* Places after the end are kept, and only a submission leaves "none".     *)
(***************************************************************************)
LEMMA PastStays ==
  ASSUME TypeOK, [Next]_vars
  PROVE  /\ \A s \in Runs : pc[s] \in Past => pc'[s] \in Past
         /\ \A s \in Runs : caw[s] = "none" => caw'[s] = "none" \/ Submit(s)
<1>1. CASE UNCHANGED vars
  BY <1>1 DEF vars, run, service
<1>2. CASE Restart
  BY <1>2 DEF Restart, service, Past, TypeOK
<1>3. ASSUME NEW r \in Runs, NEW l, Goto(r, l), pc[r] \notin Past \/ l \in Past
      PROVE  \A s \in Runs : pc[s] \in Past => pc'[s] \in Past
  BY <1>3 DEF Goto, TypeOK
<1>4. ASSUME NEW r \in Runs, NEW l, Goto(r, l), pc[r] \notin Past \/ l \in Past, UNCHANGED <<caw, response>>
      PROVE  /\ \A s \in Runs : pc[s] \in Past => pc'[s] \in Past
             /\ \A s \in Runs : caw[s] = "none" => caw'[s] = "none" \/ Submit(s)
  BY <1>3, <1>4
<1>5. ASSUME NEW r \in Runs, RefuseLocally(r) \/ AnswerFromCache(r) \/ RefuseOperation(r) \/ LoadSdk(r)
      PROVE  /\ \E l : Goto(r, l)
             /\ pc[r] \notin Past
             /\ UNCHANGED <<caw, response>>
  BY <1>5 DEF RefuseLocally, AnswerFromCache, RefuseOperation, LoadSdk, Invoke, ReturnExecution, Return, service, Past
<1>6. ASSUME NEW r \in Runs, LoadFails(r) \/ CannotSubmit(r) \/ SubmissionFails(r)
                              \/ SubmissionPending(r) \/ SubmissionAccepted(r)
      PROVE  /\ \E l : Goto(r, l)
             /\ pc[r] \notin Past
             /\ UNCHANGED <<caw, response>>
  BY <1>6 DEF LoadFails, CannotSubmit, SubmissionFails, SubmissionPending, SubmissionEnds,
              SubmissionAccepted, ReturnExecution, Return, service, Past
<1>7. ASSUME NEW r \in Runs, Submit(r)
      PROVE  /\ \A s \in Runs : pc[s] \in Past => pc'[s] \in Past
             /\ \A s \in Runs : caw[s] = "none" => caw'[s] = "none" \/ Submit(s)
  BY <1>7 DEF Submit, Goto, Past, TypeOK
<1>8. ASSUME NEW r \in Runs, Poll(r)
      PROVE  /\ (\E l : Goto(r, l)) \/ UNCHANGED pc
             /\ pc[r] \notin Past
             /\ UNCHANGED <<caw, response>>
  BY <1>8 DEF Poll, ReturnExecution, Return, service, Past
<1>9. ASSUME NEW r \in Runs, Settle(r)
      PROVE  Goto(r, "settled") /\ "settled" \in Past /\ UNCHANGED <<caw, response>>
  BY <1>9 DEF Settle, service, Past
<1>10. ASSUME NEW r \in Runs, CawDecides(r) \/ CawSettles(r)
       PROVE  UNCHANGED pc /\ \A s \in Runs : caw[s] = "none" => caw'[s] = "none"
  BY <1>10 DEF CawDecides, CawSettles, run, TypeOK
<1> QED
  BY <1>1, <1>2, <1>4, <1>5, <1>6, <1>7, <1>8, <1>9, <1>10 DEF Next, RunStep

(***************************************************************************)
(* The runs that ended left an answer for each request they submitted, and *)
(* a run that starts to load found none.                                   *)
(***************************************************************************)
LEMMA RetriesKept ==
  ASSUME TypeOK, RunsOK, RetriesOK, [Next]_vars, UNCHANGED request,
         \A r \in Runs : \/ seen'[r] = seen[r]
                         \/ seen'[r] = ended /\ pc[r] = "idle",
         \A s \in ended' : \/ s \in ended
                            \/ /\ pc'[s] \in Past
                               /\ caw'[s] # "none" => cache'[request[s]] # NoExecution,
         ended' = {} \/ \A q \in Requests : cache[q] # NoExecution => cache'[q] # NoExecution,
         \A r \in Runs : pc'[r] = "loading" =>
           \/ pc[r] = "loading"
           \/ pc[r] = "idle" /\ seen'[r] = ended /\ cache[request[r]] = NoExecution
  PROVE  RetriesOK'
<1>1. \A r \in Runs : \A s \in seen'[r] : s \in Runs /\ pc[s] \in Past
  BY DEF RetriesOK, TypeOK
<1>2. \A s \in Runs : pc[s] \in Past => pc'[s] \in Past /\ (caw[s] = "none" => caw'[s] = "none")
  BY PastStays DEF Submit, Past
<1>3. ASSUME NEW s \in ended'
      PROVE  pc'[s] \in Past /\ (caw'[s] # "none" => cache'[request'[s]] # NoExecution)
  <2>1. CASE s \in ended
    <3>1. s \in Runs /\ pc[s] \in Past /\ request[s] \in Requests
      BY <2>1 DEF RetriesOK, TypeOK
    <3>2. caw'[s] # "none" => cache[request[s]] # NoExecution
      BY <2>1, <3>1, <1>2 DEF RetriesOK
    <3> QED
      BY <1>2, <1>3, <3>1, <3>2
  <2> QED
    BY <1>3, <2>1
<1>4. ASSUME NEW r \in Runs, NEW s \in seen'[r], pc'[r] = "loading", request[s] = request[r]
      PROVE  caw'[s] = "none"
  <2>1. caw[s] = "none"
    <3>1. CASE pc[r] = "loading"
      BY <1>4, <3>1 DEF RetriesOK
    <3>2. CASE seen'[r] = ended /\ cache[request[r]] = NoExecution
      BY <1>4, <3>2 DEF RetriesOK
    <3> QED
      BY <1>4, <3>1, <3>2
  <2> QED
    BY <1>1, <1>2, <2>1
<1>5. ASSUME NEW r \in Runs, NEW s \in seen'[r], request[s] = request[r], caw'[s] # "none"
      PROVE  caw'[r] = "none"
  <2>1. caw[s] # "none"
    BY <1>1, <1>2, <1>5
  <2>2. CASE pc[r] = "idle"
    <3>1. caw[r] = "none" /\ ~ Submit(r)
      BY <2>2 DEF RunsOK, PlaceOK, Submit
    <3> QED
      BY <3>1, PastStays
  <2>3. CASE seen'[r] = seen[r]
    <3>1. caw[r] = "none"
      BY <1>5, <2>1, <2>3 DEF RetriesOK, RetryDoesNotResubmit
    <3>2. ~ Submit(r)
      BY <1>5, <2>1, <2>3 DEF RetriesOK, Submit
    <3> QED
      BY <3>1, <3>2, PastStays
  <2> QED
    BY <2>2, <2>3
<1> QED
  BY <1>1, <1>2, <1>3, <1>4, <1>5 DEF RetriesOK, RetryDoesNotResubmit

LEMMA RetriesStep == TypeOK /\ RunsOK /\ RetriesOK /\ [Next]_vars => RetriesOK'
<1> SUFFICES ASSUME TypeOK, RunsOK, RetriesOK, [Next]_vars PROVE RetriesOK'
  OBVIOUS
<1>1. CASE UNCHANGED vars
  BY <1>1, RetriesKept DEF vars, run, history
<1>2. CASE Restart
  <2>1. UNCHANGED <<request, seen>> /\ ended' = {} /\ \A r \in Runs : pc'[r] # "loading"
    BY <1>2 DEF Restart, Awaiting
  <2> QED
    BY <2>1, RetriesKept
<1>3. ASSUME NEW r \in Runs, NEW x \in Executions, Cache(r, x)
      PROVE  /\ \A q \in Requests : cache[q] # NoExecution => cache'[q] # NoExecution
             /\ cache'[request[r]] # NoExecution
  BY <1>3, ExecutionFacts DEF Cache, TypeOK
<1>4. ASSUME NEW r \in Runs, NEW x, NEW d, Return(r, x, d)
      PROVE  /\ ended' = ended \cup {r} /\ pc'[r] \in Past
             /\ \A s \in Runs : pc'[s] = "loading" => pc[s] = "loading"
  BY <1>4 DEF Return, Goto, Past, TypeOK
<1>5. ASSUME NEW r \in Runs, Invoke(r)
      PROVE  /\ UNCHANGED <<request, caw>> /\ caw[r] = "none" /\ pc[r] = "idle" /\ seen'[r] = ended
             /\ \A s \in Runs : seen'[s] = seen[s] \/ (seen'[s] = ended /\ pc[s] = "idle")
  BY <1>5 DEF Invoke, service, RunsOK, PlaceOK, TypeOK
<1>6. ASSUME NEW r \in Runs, RefuseLocally(r) \/ AnswerFromCache(r) \/ RefuseOperation(r) PROVE RetriesOK'
  <2>1. PICK x, d : Return(r, x, d)
    BY <1>6 DEF RefuseLocally, AnswerFromCache, RefuseOperation, ReturnExecution
  <2>2. Invoke(r)
    BY <1>6 DEF RefuseLocally, AnswerFromCache, RefuseOperation
  <2>3. \A q \in Requests : cache[q] # NoExecution => cache'[q] # NoExecution
    BY <1>3, <1>6, ExecutionFacts DEF RefuseLocally, AnswerFromCache, RefuseOperation
  <2> QED
    BY <2>1, <2>2, <2>3, <1>4, <1>5, RetriesKept
<1>7. ASSUME NEW r \in Runs, LoadSdk(r) PROVE RetriesOK'
  <2>1. Invoke(r) /\ cache[request[r]] = NoExecution /\ UNCHANGED <<cache, ended>>
    BY <1>7 DEF LoadSdk
  <2>2. \A s \in Runs : pc'[s] = "loading" => pc[s] = "loading" \/ s = r
    BY <1>7 DEF LoadSdk, Goto, TypeOK
  <2> QED
    BY <2>1, <2>2, <1>5, RetriesKept
<1>8. ASSUME NEW r \in Runs, NEW x \in Executions, Cache(r, x), ReturnExecution(r, x),
             UNCHANGED <<request, seen>>
      PROVE  RetriesOK'
  BY <1>3, <1>4, <1>8, RetriesKept DEF ReturnExecution
<1>9. ASSUME NEW r \in Runs,
             CannotSubmit(r) \/ SubmissionFails(r) \/ SubmissionPending(r)
      PROVE  RetriesOK'
  BY <1>8, <1>9, ExecutionFacts
     DEF CannotSubmit, SubmissionFails, SubmissionPending, SubmissionEnds
<1>10. ASSUME NEW r \in Runs, Poll(r) PROVE RetriesOK'
  <2>1. PICK record \in RecordsOf(r), audit \in AuditLogs :
          \/ /\ Cache(r, Normalize(r, record, audit))
             /\ ReturnExecution(r, Normalize(r, record, audit))
          \/ UNCHANGED <<pc, cache, ended>>
    BY <1>10 DEF Poll
  <2>2. UNCHANGED <<request, seen>>
    BY <1>10 DEF Poll
  <2>3. CASE UNCHANGED <<pc, cache, ended>>
    BY <2>2, <2>3, RetriesKept
  <2> QED
    BY <2>1, <2>2, <2>3, <1>8, NormalizeTyped
<1>11. ASSUME NEW r \in Runs, LoadFails(r) PROVE RetriesOK'
  <2>1. /\ ended' = ended \cup {r} /\ pc' = [pc EXCEPT ![r] = "rejected"]
        /\ caw' = caw /\ caw[r] = "none" /\ UNCHANGED <<request, cache, seen>>
    BY <1>11 DEF LoadFails, Goto, service, RunsOK, PlaceOK
  <2> QED
    BY <2>1, RetriesKept DEF Past, TypeOK
<1>12. ASSUME NEW r \in Runs, NEW l, Goto(r, l), l # "loading", UNCHANGED <<request, cache, ended, seen>>
       PROVE  RetriesOK'
  <2>1. \A s \in Runs : pc'[s] = "loading" => pc[s] = "loading"
    BY <1>12 DEF Goto, TypeOK
  <2> QED
    BY <1>12, <2>1, RetriesKept
<1>13. ASSUME NEW r \in Runs, Submit(r) \/ SubmissionAccepted(r) \/ Settle(r) PROVE RetriesOK'
  BY <1>12, <1>13 DEF Submit, SubmissionAccepted, Settle, history
<1>14. ASSUME NEW r \in Runs, CawDecides(r) \/ CawSettles(r) PROVE RetriesOK'
  BY <1>14, RetriesKept DEF CawDecides, CawSettles, run, history
<1> QED
  BY <1>1, <1>2, <1>6, <1>7, <1>9, <1>10, <1>11, <1>13, <1>14 DEF Next, RunStep
-----------------------------------------------------------------------------
LEMMA CawInit == Init => CawInv
BY DEF Init, CawInv, RunsOK, ServiceOK, PlaceOK, AnswersOK, RetriesOK, PostedWasAccepted,
       RetryDoesNotResubmit, NoExecution, Allowed

LEMMA ReleasedIsExplained == RunsOK => PaidAndReleasedIsExplained
BY DEF RunsOK, ServiceOK, PlaceOK, OutcomeOK, FailedSibling, PaidAndReleasedIsExplained

(***************************************************************************)
(* The invariant: what place, submission and outcome of a run say of one   *)
(* another; where an allow comes from; what an ended run leaves.           *)
(***************************************************************************)
THEOREM CawInvariant == Spec => []CawInv
<1>1. TypeOK /\ CawInv /\ [Next]_vars => CawInv'
  BY RunsStep, AnswersStep, RetriesStep DEF CawInv
<1> QED
  BY CawInit, CawTypeCorrect, <1>1, PTL DEF Spec

(***************************************************************************)
(* A retry in the same process does not pay again.                         *)
(***************************************************************************)
THEOREM CawRetryDoesNotResubmit == Spec => []RetryDoesNotResubmit
<1>1. CawInv => RetryDoesNotResubmit
  BY DEF CawInv, RetriesOK
<1> QED
  BY CawInvariant, <1>1, PTL

(***************************************************************************)
(* Budget is posted only for what the CAW service accepted.                *)
(***************************************************************************)
THEOREM CawPostedWasAccepted == Spec => []PostedWasAccepted
<1>1. CawInv => PostedWasAccepted
  BY DEF CawInv, AnswersOK
<1> QED
  BY CawInvariant, <1>1, PTL

(***************************************************************************)
(* Budget of a payment that was made comes back only after an error of the *)
(* submission, an approval left to the owner, missing evidence, or with    *)
(* the record of another submission of its request that failed.            *)
(***************************************************************************)
THEOREM CawReleasedIsExplained == Spec => []PaidAndReleasedIsExplained
<1>1. CawInv => PaidAndReleasedIsExplained
  BY ReleasedIsExplained DEF CawInv
<1> QED
  BY CawInvariant, <1>1, PTL
=============================================================================
