----------------------------- MODULE MissionFlow -----------------------------
(***************************************************************************)
(* mission_flow.ts: the API that creates a mission, guards its payment and *)
(* verifies its receipt, over the rows of the quote lock.  It has one demo *)
(* provider and an adapter that always asks for the fallback.  A handler   *)
(* holds the event loop except where guardMission awaits; between its      *)
(* statements the process may crash.  Times are milliseconds, so several   *)
(* requests may have the same one.  Guard events other than those that     *)
(* name a mission's resource, timeline rows and dryRunMission, which only  *)
(* writes such an event, are left out.                                     *)
(***************************************************************************)
EXTENDS QuoteLock

CONSTANTS
  Resources,   \* resource URLs, numbered from the greatest event id down
  Default,     \* the resource of a mission without a mission_resource event
  Budgets,     \* budgets a mission is created with
  Price,       \* the amount of the demo challenge
  Slots,       \* bound on the requests in progress
  MaxTime,     \* bound on the clock
  MaxCrashes   \* bound on the number of crashes

ASSUME MissionFlowAssumption ==
  /\ Cardinality(Providers) = 1
  /\ Default \in Resources
  /\ MaxTime \in Nat \ {0}
  /\ Resources \cup Budgets \cup {Price, MaxCrashes} \subseteq Nat

VARIABLES
  now,         \* Date.now()
  status,      \* missions.status
  requested,   \* when the mission_resource event of each resource was recorded
  context,     \* the resource of the mission's payment_contexts row
  receipt,     \* its receipts row: resource and delivery timestamp
  dual,        \* its dual_receipts rows
  job,         \* the request in each slot
  asked,       \* the last create that was answered
  cut,         \* missions whose last verification was cut by a crash
  crashes

api == <<status, requested, context, receipt, dual>>
history == <<asked, cut, crashes>>
vars == <<rows, api, job, history, now>>

Never == 0
NoResource == -1
NoReceipt == [resource |-> NoResource, at |-> Never]

Job(step, m, r, t, d) ==
  [step |-> step, mission |-> m, resource |-> r, at |-> t, decision |-> d]

NoJob == Job("idle", NoMission, NoResource, Never, "none")

KeyOf(m) == <<m, CHOOSE p \in Providers : TRUE>>

Awaiting == {"idle", "caw", "returned"}
LoopFree == \A s \in Slots : job[s].step \in Awaiting
Exists(m) == budget[m] # NoMission

Put(s, j) == job' = [job EXCEPT ![s] = j]

Init ==
  /\ QuoteLockInit
  /\ status = [m \in Missions |-> "none"]
  /\ requested = [m \in Missions |-> [r \in Resources |-> Never]]
  /\ context = [m \in Missions |-> NoResource]
  /\ receipt = [m \in Missions |-> NoReceipt]
  /\ dual = [m \in Missions |-> {}]
  /\ job = [s \in Slots |-> NoJob]
  /\ asked = [m \in Missions |-> NoReceipt]
  /\ cut = {}
  /\ crashes = 0
  /\ now = 1

(***************************************************************************)
(* missionResourceUrl: the last event by time and id.                      *)
(***************************************************************************)
Requested(m) == {r \in Resources : requested[m][r] # Never}

Before(m, q, r) ==
  \/ requested[m][q] < requested[m][r]
  \/ requested[m][q] = requested[m][r] /\ q > r

FirstResource(m) ==  \* mutation: the events are not reversed
  IF Requested(m) = {} THEN Default
  ELSE CHOOSE r \in Requested(m) : \A q \in Requested(m) \ {r} : Before(m, r, q)

MissionResource(m) ==
  IF Requested(m) = {} THEN Default
  ELSE CHOOSE r \in Requested(m) : \A q \in Requested(m) \ {r} : Before(m, q, r)
-----------------------------------------------------------------------------
(***************************************************************************)
(* createMission: the upsert of the mission, then the event that names its *)
(* resource, whose id is a hash of both: a resource the mission had before *)
(* is an error, after the budget has changed.                              *)
(***************************************************************************)
CreateMission(s, m, r, b) ==
  /\ LoopFree /\ job[s] = NoJob
  /\ EnsureMission(m, b)
  /\ status' = [status EXCEPT ![m] = IF Exists(m) THEN @ ELSE "active"]
  /\ Put(s, Job("resource", m, r, now, "none"))
  /\ UNCHANGED <<quote, reservation, ledger, requested, context, receipt, dual, history, now>>

RecordMissionResource(s) ==
  /\ job[s].step = "resource"
  /\ LET m == job[s].mission
         r == job[s].resource IN
     /\ requested[m][r] = Never
     /\ requested' = [requested EXCEPT ![m][r] = job[s].at]
     /\ asked' = [asked EXCEPT ![m] = [resource |-> r, at |-> job[s].at]]
  /\ Put(s, NoJob)
  /\ UNCHANGED <<rows, status, context, receipt, dual, cut, crashes, now>>

ResourceEventExists(s) ==
  /\ job[s].step = "resource"
  /\ requested[job[s].mission][job[s].resource] # Never
  /\ Put(s, NoJob)
  /\ UNCHANGED <<rows, api, history, now>>
-----------------------------------------------------------------------------
(***************************************************************************)
(* guardMission, up to the end of runGuardPipeline: a layer rejects, the   *)
(* lock refuses, or the adapter asks for the fallback and the reservation  *)
(* is released.  The budget limit is the one the mission has.              *)
(***************************************************************************)
Returned(s, m, d) == Put(s, Job("returned", m, NoResource, Never, d))

LayerRejects(s, m) ==
  /\ LoopFree /\ job[s] = NoJob
  /\ Exists(m)
  /\ Returned(s, m, "block")
  /\ UNCHANGED <<rows, api, history, now>>

LockRefuses(s, m) ==
  /\ LoopFree /\ job[s] = NoJob
  /\ Exists(m)
  /\ RefuseReservation(KeyOf(m), Price, budget[m])
  /\ Returned(s, m, "block")
  /\ UNCHANGED <<api, history, now>>

LockReserves(s, m) ==
  /\ LoopFree /\ job[s] = NoJob
  /\ Exists(m)
  /\ ReserveQuoteAndBudget(KeyOf(m), Price, budget[m])
  /\ context' = [context EXCEPT ![m] = MissionResource(m)]
  /\ Put(s, Job("caw", m, NoResource, Never, "none"))
  /\ UNCHANGED <<status, requested, receipt, dual, history, now>>

CawRequiresFallback(s) ==
  /\ LoopFree /\ job[s].step = "caw"
  /\ SetReservation(KeyOf(job[s].mission), "released")
  /\ Put(s, Job("void", job[s].mission, NoResource, Never, "none"))
  /\ UNCHANGED <<api, history, now>>

VoidReservation(s) ==
  /\ job[s].step = "void"
  /\ VoidLedger(KeyOf(job[s].mission))
  /\ Returned(s, job[s].mission, "fallback_required")
  /\ UNCHANGED <<api, history, now>>

UpdateStatusToDecision(s) ==  \* mutation: stores the decision as the status
  /\ LoopFree /\ job[s].step = "returned"
  /\ status' = [status EXCEPT ![job[s].mission] = job[s].decision]
  /\ Put(s, NoJob)
  /\ UNCHANGED <<rows, requested, context, receipt, dual, history, now>>

UpdateMissionStatus(s) ==
  /\ LoopFree /\ job[s].step = "returned"
  /\ status' = [status EXCEPT ![job[s].mission] =
       IF job[s].decision = "fallback_required" THEN "blocked" ELSE "active"]
  /\ Put(s, NoJob)
  /\ UNCHANGED <<rows, requested, context, receipt, dual, history, now>>
-----------------------------------------------------------------------------
(***************************************************************************)
(* verifyMission: a failed receipt for the mission's payment context, with *)
(* the mission's resource of the moment, stored over the one before; then  *)
(* the dual receipt made from the stored row.                              *)
(***************************************************************************)
InsertFallbackReceiptOnce(s, m) ==  \* mutation: a conflict keeps the old row
  /\ LoopFree /\ job[s] = NoJob
  /\ Exists(m) /\ context[m] # NoResource
  /\ receipt' = [receipt EXCEPT ![m] =
       IF @ = NoReceipt THEN [resource |-> MissionResource(m), at |-> now] ELSE @]
  /\ Put(s, Job("dual", m, MissionResource(m), now, "none"))
  /\ UNCHANGED <<rows, status, requested, context, dual, history, now>>

InsertFallbackReceipt(s, m) ==
  /\ LoopFree /\ job[s] = NoJob
  /\ Exists(m) /\ context[m] # NoResource
  /\ receipt' = [receipt EXCEPT ![m] = [resource |-> MissionResource(m), at |-> now]]
  /\ Put(s, Job("dual", m, MissionResource(m), now, "none"))
  /\ UNCHANGED <<rows, status, requested, context, dual, history, now>>

(***************************************************************************)
(* The provider's signature in the stored row covers the resource and the  *)
(* time; every other check compares the dual receipt with values taken     *)
(* from itself.  The table has one row for each delivery receipt.          *)
(***************************************************************************)
DualReceipt(m, r, t) ==
  [resource |-> r, at |-> receipt[m].at, created |-> t,
   decision |-> IF receipt[m].resource = r THEN "allow" ELSE "block"]

UpsertDualReceipt(s) ==
  /\ job[s].step = "dual"
  /\ LET m == job[s].mission
         d == DualReceipt(m, job[s].resource, job[s].at) IN
     /\ dual' = [dual EXCEPT ![m] = {e \in @ : e.resource # d.resource \/ e.at # d.at} \cup {d}]
     /\ cut' = cut \ {m}
     /\ Put(s, Job("blocked", m, NoResource, Never, "none"))
  /\ UNCHANGED <<rows, status, requested, context, receipt, asked, crashes, now>>

MarkBlocked(s) ==
  /\ job[s].step = "blocked"
  /\ status' = [status EXCEPT ![job[s].mission] = "blocked"]
  /\ Put(s, NoJob)
  /\ UNCHANGED <<rows, requested, context, receipt, dual, history, now>>
-----------------------------------------------------------------------------
Tick ==
  /\ now < MaxTime /\ LoopFree
  /\ now' = now + 1
  /\ UNCHANGED <<rows, api, job, history>>

Crash ==
  /\ crashes < MaxCrashes
  /\ crashes' = crashes + 1
  /\ cut' = cut \cup {job[s].mission : s \in {x \in Slots : job[x].step = "dual"}}
  /\ job' = [s \in Slots |-> NoJob]
  /\ UNCHANGED <<rows, api, asked, now>>

Next ==
  \/ \E s \in Slots, m \in Missions :
       \/ \E r \in Resources, b \in Budgets : CreateMission(s, m, r, b)
       \/ LayerRejects(s, m)
       \/ LockRefuses(s, m)
       \/ LockReserves(s, m)
       \/ InsertFallbackReceipt(s, m)
  \/ \E s \in Slots :
       \/ RecordMissionResource(s)
       \/ ResourceEventExists(s)
       \/ CawRequiresFallback(s)
       \/ VoidReservation(s)
       \/ UpdateMissionStatus(s)
       \/ UpsertDualReceipt(s)
       \/ MarkBlocked(s)
  \/ Tick
  \/ Crash

Spec == Init /\ [][Next]_vars
-----------------------------------------------------------------------------
(***************************************************************************)
(* Type invariant: a job has the fields its step needs, and at most one    *)
(* holds the event loop.                                                   *)
(***************************************************************************)
Steps == {"idle", "resource", "caw", "void", "returned", "dual", "blocked"}

DualReceipts ==
  [resource : Resources, at : 1..now, created : 1..now, decision : {"allow", "block"}]

Jobs ==
  [step : Steps, mission : Missions \cup {NoMission},
   resource : Resources \cup {NoResource}, at : 0..now,
   decision : {"none", "block", "fallback_required"}]

JobOK(j) ==
  /\ j.step # "idle" => j.mission \in Missions
  /\ j.step \in {"resource", "dual"} => j.resource \in Resources /\ j.at \in 1..now

JobsOK ==
  /\ job \in [Slots -> Jobs]
  /\ \A s \in Slots :
       /\ JobOK(job[s])
       /\ job[s].step \notin Awaiting =>
            \A t \in Slots \ {s} : job[t].step \in Awaiting

TypeOK ==
  /\ QuoteLockTypeOK
  /\ now \in 1..MaxTime
  /\ status \in [Missions -> {"none", "active", "blocked"}]
  /\ requested \in [Missions -> [Resources -> 0..now]]
  /\ context \in [Missions -> Resources \cup {NoResource}]
  /\ receipt \in [Missions -> [resource : Resources, at : 1..now] \cup {NoReceipt}]
  /\ dual \in [Missions -> SUBSET DualReceipts]
  /\ JobsOK
  /\ asked \in [Missions -> [resource : Resources, at : 1..now] \cup {NoReceipt}]
  /\ cut \subseteq Missions
  /\ crashes \in 0..MaxCrashes

(***************************************************************************)
(* The resource of a mission is that of the last create that was answered, *)
(* or another one of the same millisecond.                                 *)
(***************************************************************************)
LatestRequestWins ==
  \A m \in Missions :
    asked[m] # NoReceipt =>
      \/ MissionResource(m) = asked[m].resource
      \/ requested[m][MissionResource(m)] = asked[m].at

(***************************************************************************)
(* A mission has one payment context: no create, guard or verification     *)
(* that follows changes the resource it was made for.                      *)
(***************************************************************************)
ContextIsFinal ==
  [][\A m \in Missions : context[m] # NoResource => context'[m] = context[m]]_vars

(***************************************************************************)
(* getMission shows the newest dual receipt.  The verified dual of the     *)
(* stored receipt is as new as any, except while a verification is between *)
(* the two rows or after a crash there.                                    *)
(***************************************************************************)
ShownReceiptIsCurrent ==
  \A m \in Missions :
    \/ receipt[m] = NoReceipt
    \/ m \in cut
    \/ \E s \in Slots : job[s].step = "dual" /\ job[s].mission = m
    \/ \E d \in dual[m] :
         /\ d.resource = receipt[m].resource
         /\ d.at = receipt[m].at
         /\ d.decision = "allow"
         /\ \A e \in dual[m] : e.created <= d.created

(***************************************************************************)
(* A receipt that is verified under a payment context is for the resource  *)
(* the context binds.  The code breaks this: verifyMission takes the       *)
(* resource the mission names now, not the one its payment context binds.  *)
(***************************************************************************)
ReceiptIsForBoundResource ==
  \A m \in Missions : \A d \in dual[m] : d.decision = "allow" => d.resource = context[m]

(***************************************************************************)
(* The handlers keep the promise of the lock too, though nothing is ever   *)
(* paid here: a create moves budgets between a guard's statements, and     *)
(* every reservation is released, unless a crash cuts the release short.   *)
(***************************************************************************)
Abstract ==
  INSTANCE BudgetLock
    WITH Amounts <- {Price}, Limits <- Budgets,
         stage <- Stages, held <- HeldAmounts, exposure <- Exposures

ImplementsBudgetLock == Abstract!Spec
=============================================================================
