-------------------------- MODULE MissionFlow_proofs --------------------------
(***************************************************************************)
(* Theorems about MissionFlow and EvidenceExport, for any missions,        *)
(* resources, budgets, price and slots, and any bounds on the clock, the   *)
(* crashes and the recorded events.                                        *)
(***************************************************************************)
EXTENDS EvidenceExport, QuoteLock_proofs, WellFoundedInduction

LEMMA LeastNatural ==
  ASSUME NEW T, T \subseteq Nat, T # {}
  PROVE  \E x \in T : \A y \in T : x <= y
<1>1. \E x \in T : \A y \in T : ~ (<<y, x>> \in OpToRel(<, Nat))
  BY NatLessThanWellFounded, WFMin, Zenon
<1>2. \A x, y \in T : ~ (<<y, x>> \in OpToRel(<, Nat)) => x <= y
  BY DEF OpToRel
<1> QED BY <1>1, <1>2

(***************************************************************************)
(* A mission has a last resource event: among those of the latest time,    *)
(* the one with the greatest id.                                           *)
(***************************************************************************)
LEMMA LastResource ==
  ASSUME TypeOK, NEW m \in Missions
  PROVE  /\ MissionResource(m) \in Resources
         /\ Requested(m) # {} =>
              /\ MissionResource(m) \in Requested(m)
              /\ \A q \in Requested(m) : requested[m][q] <= requested[m][MissionResource(m)]
<1>1. CASE Requested(m) = {}
  BY <1>1, MissionFlowAssumption DEF MissionResource
<1>2. CASE Requested(m) # {}
  <2> DEFINE T == {now - requested[m][r] : r \in Requested(m)}
  <2>1. \A r \in Requested(m) : r \in Nat /\ requested[m][r] \in Nat /\ requested[m][r] <= now
    BY MissionFlowAssumption DEF TypeOK, Requested
  <2>2. T \subseteq Nat /\ T # {}
    BY <1>2, <2>1 DEF TypeOK
  <2>3. PICK a \in Requested(m) : \A q \in Requested(m) : requested[m][q] <= requested[m][a]
    <3>1. PICK t \in T : \A u \in T : t <= u
      BY <2>2, LeastNatural
    <3>2. PICK a \in Requested(m) : t = now - requested[m][a]
      BY <3>1
    <3>3. \A q \in Requested(m) : now - requested[m][a] <= now - requested[m][q]
      BY <3>1, <3>2
    <3> QED BY <2>1, <3>3 DEF TypeOK
  <2> DEFINE L == {q \in Requested(m) : requested[m][q] = requested[m][a]}
  <2>4. PICK b \in L : \A q \in L : b <= q
    <3>1. L \subseteq Nat /\ L # {}
      BY <2>1, <2>3
    <3> HIDE DEF L
    <3> QED BY <3>1, LeastNatural
  <2>5. b \in Requested(m) /\ \A q \in Requested(m) \ {b} : Before(m, q, b)
    BY <2>1, <2>3, <2>4 DEF Before
  <2>6. MissionResource(m) \in Requested(m) /\
        \A q \in Requested(m) \ {MissionResource(m)} : Before(m, q, MissionResource(m))
    BY <1>2, <2>5 DEF MissionResource
  <2> QED BY <1>2, <2>1, <2>6 DEF Before, Requested
<1> QED BY <1>1, <1>2
-----------------------------------------------------------------------------
LEMMA KeyType == \A m \in Missions : KeyOf(m) \in Keys
<1>1. Providers # {}
  BY MissionFlowAssumption, FS_EmptySet
<1> QED BY <1>1 DEF KeyOf, Keys

LEMMA InitTypeOK == Init => TypeOK
<1> SUFFICES ASSUME Init PROVE TypeOK
  OBVIOUS
<1>1. QuoteLockTypeOK
  BY DEF Init, QuoteLockInit, QuoteLockTypeOK, LedgerRows, NoLedgerRow, NoMission
<1>2. /\ now = 1 /\ crashes = 0 /\ MaxCrashes \in Nat /\ MaxTime \in Nat \ {0}
  BY MissionFlowAssumption DEF Init
<1>3. NoJob \in Jobs /\ JobOK(NoJob) /\ NoJob.step = "idle"
  BY <1>2 DEF Jobs, JobOK, NoJob, Job, Steps, Never
<1>4. /\ job \in [Slots -> Jobs]
      /\ \A s \in Slots : JobOK(job[s]) /\ job[s].step = "idle"
  BY <1>3 DEF Init
<1> QED BY <1>1, <1>2, <1>4 DEF Init, TypeOK, JobsOK, NoReceipt, Never, Awaiting

(***************************************************************************)
(* A slot whose job ends, or that alone takes up a job that is well typed, *)
(* leaves the jobs well typed.                                             *)
(***************************************************************************)
LEMMA PutKeepsJobs ==
  ASSUME TypeOK, now' = now, NEW s \in Slots, NEW j \in Jobs, JobOK(j), Put(s, j),
         LoopFree \/ job[s].step \notin Awaiting
  PROVE  JobsOK'
<1>1. \A t \in Slots \ {s} : job[t].step \in Awaiting
  BY DEF TypeOK, JobsOK, LoopFree
<1>2. job' = [t \in Slots |-> IF t = s THEN j ELSE job[t]]
  BY DEF Put, TypeOK, JobsOK
<1>3. Jobs' = Jobs /\ \A k \in Jobs : JobOK(k)' <=> JobOK(k)
  BY DEF Jobs, JobOK
<1> QED BY <1>1, <1>2, <1>3 DEF JobsOK, TypeOK, Awaiting

(***************************************************************************)
(* A job whose statements hold the event loop is of this millisecond, and  *)
(* one that stores a dual receipt has stored the receipt.                  *)
(***************************************************************************)
JobsAreNow ==
  \A s \in Slots :
    /\ job[s].step \in {"resource", "dual"} => job[s].at = now
    /\ job[s].step = "dual" =>
         receipt[job[s].mission] = [resource |-> job[s].resource, at |-> job[s].at]

LEMMA DualIsVerified ==
  ASSUME TypeOK, JobsAreNow, NEW s \in Slots, job[s].step = "dual"
  PROVE  /\ job[s].mission \in Missions /\ job[s].resource \in Resources
         /\ DualReceipt(job[s].mission, job[s].resource, job[s].at) =
              [resource |-> job[s].resource, at |-> now, created |-> now, decision |-> "allow"]
         /\ receipt[job[s].mission] = [resource |-> job[s].resource, at |-> now]
<1>1. job[s].mission \in Missions /\ job[s].resource \in Resources
  BY DEF TypeOK, JobsOK, JobOK
<1>2. receipt[job[s].mission] = [resource |-> job[s].resource, at |-> now] /\ job[s].at = now
  BY DEF JobsAreNow
<1>3. receipt[job[s].mission].resource = job[s].resource /\ receipt[job[s].mission].at = now
  BY <1>2
<1> QED BY <1>1, <1>2, <1>3 DEF DualReceipt

LEMMA NextTypeOK == TypeOK /\ JobsAreNow /\ [Next]_vars => TypeOK'
<1> SUFFICES ASSUME TypeOK, JobsAreNow, [Next]_vars PROVE TypeOK'
  OBVIOUS
<1> DEFINE DataOK ==
      /\ QuoteLockTypeOK
      /\ now \in 1..MaxTime
      /\ status \in [Missions -> {"none", "active", "blocked"}]
      /\ requested \in [Missions -> [Resources -> 0..now]]
      /\ context \in [Missions -> Resources \cup {NoResource}]
      /\ receipt \in [Missions -> [resource : Resources, at : 1..now] \cup {NoReceipt}]
      /\ dual \in [Missions -> SUBSET DualReceipts]
      /\ asked \in [Missions -> [resource : Resources, at : 1..now] \cup {NoReceipt}]
      /\ cut \subseteq Missions
      /\ crashes \in 0..MaxCrashes
<1>a. DataOK /\ JobsOK /\ (DataOK' /\ JobsOK' => TypeOK')
  BY DEF TypeOK
<1>b. now \in Nat \ {0} /\ MaxTime \in Nat /\ Price \in Nat /\ Budgets \subseteq Nat
  BY MissionFlowAssumption DEF TypeOK
<1>c. \A s \in Slots : JobOK(job[s]) /\ job[s] \in Jobs
  BY <1>a DEF JobsOK
<1>g. now' = now => DualReceipts' = DualReceipts
  BY DEF DualReceipts
<1>d. NoJob \in Jobs /\ JobOK(NoJob)
  BY <1>b DEF Jobs, JobOK, NoJob, Job, Steps, Never
<1>e. ASSUME NEW m \in Missions, NEW r \in Resources, NEW t \in {"resource", "dual"}
      PROVE  Job(t, m, r, now, "none") \in Jobs /\ JobOK(Job(t, m, r, now, "none"))
  BY <1>b DEF Jobs, JobOK, Job, Steps
<1>f. ASSUME NEW m \in Missions, NEW t \in {"caw", "void", "blocked", "returned"},
             NEW d \in {"none", "block", "fallback_required"}
      PROVE  Job(t, m, NoResource, Never, d) \in Jobs /\ JobOK(Job(t, m, NoResource, Never, d))
  BY <1>b DEF Jobs, JobOK, Job, Steps, Never
<1>1. ASSUME NEW s \in Slots, NEW m \in Missions, NEW r \in Resources, NEW b \in Budgets,
             CreateMission(s, m, r, b)
      PROVE  TypeOK'
  <2>1. DataOK'
    BY <1>1, <1>a, <1>g, <1>b DEF CreateMission, EnsureMission, QuoteLockTypeOK, history
  <2>2. JobsOK'
    BY <1>1, <1>e, PutKeepsJobs DEF CreateMission
  <2> QED BY <1>a, <2>1, <2>2
<1>2. ASSUME NEW s \in Slots, RecordMissionResource(s) PROVE TypeOK'
  <2>1. job[s].mission \in Missions /\ job[s].resource \in Resources /\ job[s].at \in 1..now
    BY <1>2, <1>c DEF RecordMissionResource, JobOK
  <2>2. [resource |-> job[s].resource, at |-> job[s].at] \in [resource : Resources, at : 1..now]
    BY <2>1
  <2>3. DataOK'
    BY <1>2, <1>a, <1>g, <1>b, <2>1, <2>2 DEF RecordMissionResource, rows, QuoteLockTypeOK
  <2>4. JobsOK'
    BY <1>2, <1>d, PutKeepsJobs DEF RecordMissionResource, Awaiting
  <2> QED BY <1>a, <2>3, <2>4
<1>3. ASSUME NEW s \in Slots, ResourceEventExists(s) PROVE TypeOK'
  <2>1. DataOK'
    BY <1>3, <1>a, <1>g DEF ResourceEventExists, rows, api, history, QuoteLockTypeOK
  <2>2. JobsOK'
    BY <1>3, <1>d, PutKeepsJobs DEF ResourceEventExists, Awaiting
  <2> QED BY <1>a, <2>1, <2>2
<1>4. ASSUME NEW s \in Slots, NEW m \in Missions, LayerRejects(s, m) PROVE TypeOK'
  <2>1. DataOK'
    BY <1>4, <1>a, <1>g DEF LayerRejects, rows, api, history, QuoteLockTypeOK
  <2>2. JobsOK'
    BY <1>4, <1>f, PutKeepsJobs DEF LayerRejects, Returned
  <2> QED BY <1>a, <2>1, <2>2
<1>5. ASSUME NEW s \in Slots, NEW m \in Missions, LockRefuses(s, m) PROVE TypeOK'
  <2>1. DataOK'
    BY <1>5, <1>a, <1>g DEF LockRefuses, RefuseReservation, EnsureMission, Exists, api, history,
                      QuoteLockTypeOK
  <2>2. JobsOK'
    BY <1>5, <1>f, PutKeepsJobs DEF LockRefuses, Returned
  <2> QED BY <1>a, <2>1, <2>2
<1>6. ASSUME NEW s \in Slots, NEW m \in Missions, LockReserves(s, m) PROVE TypeOK'
  <2>1. MissionResource(m) \in Resources
    BY LastResource
  <2>2. [type |-> "reserve", status |-> "pending", amount |-> Price] \in LedgerRows
    BY <1>b DEF LedgerRows
  <2>3. DataOK'
    BY <1>6, <1>a, <1>g, <2>1, <2>2 DEF LockReserves, ReserveQuoteAndBudget, EnsureMission, Exists,
                                  history, QuoteLockTypeOK
  <2>4. JobsOK'
    BY <1>6, <1>f, PutKeepsJobs DEF LockReserves
  <2> QED BY <1>a, <2>3, <2>4
<1>7. ASSUME NEW s \in Slots, NEW m \in Missions, InsertFallbackReceipt(s, m) PROVE TypeOK'
  <2>1. MissionResource(m) \in Resources
    BY LastResource
  <2>2. [resource |-> MissionResource(m), at |-> now] \in [resource : Resources, at : 1..now]
    BY <1>b, <2>1
  <2>3. DataOK'
    BY <1>7, <1>a, <1>g, <2>2 DEF InsertFallbackReceipt, rows, history, QuoteLockTypeOK
  <2>4. JobsOK'
    BY <1>7, <2>1, <1>e, PutKeepsJobs DEF InsertFallbackReceipt
  <2> QED BY <1>a, <2>3, <2>4
<1>8. ASSUME NEW s \in Slots, CawRequiresFallback(s) PROVE TypeOK'
  <2>1. job[s].mission \in Missions
    BY <1>8, <1>c DEF CawRequiresFallback, JobOK
  <2>2. DataOK'
    BY <1>8, <1>a, <1>g DEF CawRequiresFallback, SetReservation, api, history, QuoteLockTypeOK
  <2>3. JobsOK'
    BY <1>8, <1>f, <2>1, PutKeepsJobs DEF CawRequiresFallback
  <2> QED BY <1>a, <2>2, <2>3
<1>9. ASSUME NEW s \in Slots, VoidReservation(s) PROVE TypeOK'
  <2>1. job[s].mission \in Missions
    BY <1>9, <1>c DEF VoidReservation, JobOK
  <2>2. DataOK'
    BY <1>9, <1>a, <1>g DEF VoidReservation, VoidLedger, SettleLedger, LedgerRows, api, history,
                      QuoteLockTypeOK
  <2>3. JobsOK'
    BY <1>9, <1>f, <2>1, PutKeepsJobs DEF VoidReservation, Returned, Awaiting
  <2> QED BY <1>a, <2>2, <2>3
<1>10. ASSUME NEW s \in Slots, UpdateMissionStatus(s) PROVE TypeOK'
  <2>1. DataOK'
    BY <1>10, <1>a, <1>g DEF UpdateMissionStatus, rows, history, QuoteLockTypeOK
  <2>2. JobsOK'
    BY <1>10, <1>d, PutKeepsJobs DEF UpdateMissionStatus
  <2> QED BY <1>a, <2>1, <2>2
<1>11. ASSUME NEW s \in Slots, UpsertDualReceipt(s) PROVE TypeOK'
  <2>1. job[s].mission \in Missions /\ job[s].resource \in Resources
    BY <1>11, <1>c DEF UpsertDualReceipt, JobOK
  <2>2. DualReceipt(job[s].mission, job[s].resource, job[s].at) \in DualReceipts
    <3>1. DualReceipt(job[s].mission, job[s].resource, job[s].at) =
            [resource |-> job[s].resource, at |-> now, created |-> now, decision |-> "allow"]
      BY <1>11, DualIsVerified DEF UpsertDualReceipt
    <3> QED BY <1>b, <2>1, <3>1 DEF DualReceipts
  <2>3. /\ UNCHANGED <<rows, status, requested, context, receipt, asked, crashes, now>>
        /\ DOMAIN dual' = Missions
        /\ \A m \in Missions :
             dual'[m] \subseteq
               dual[m] \cup {DualReceipt(job[s].mission, job[s].resource, job[s].at)}
        /\ cut' \subseteq cut
    BY <1>11, <1>a, <2>1 DEF UpsertDualReceipt
  <2>4. DualReceipts' = DualReceipts
    BY <2>3 DEF DualReceipts
  <2>5. dual' \in [Missions -> SUBSET DualReceipts]
    BY <1>a, <1>11, <2>1, <2>2 DEF UpsertDualReceipt
  <2>6. DataOK'
    BY <1>a, <2>3, <2>4, <2>5 DEF rows, QuoteLockTypeOK
  <2>7. JobsOK'
    BY <1>11, <1>f, <2>1, PutKeepsJobs DEF UpsertDualReceipt, Awaiting
  <2> QED BY <1>a, <2>6, <2>7
<1>12. ASSUME NEW s \in Slots, MarkBlocked(s) PROVE TypeOK'
  <2>1. DataOK'
    BY <1>12, <1>a, <1>g DEF MarkBlocked, rows, history, QuoteLockTypeOK
  <2>2. JobsOK'
    BY <1>12, <1>d, PutKeepsJobs DEF MarkBlocked, Awaiting
  <2> QED BY <1>a, <2>1, <2>2
<1>13. CASE Tick
  <2>1. now' \in 1..MaxTime /\ 0..now \subseteq 0..now' /\ 1..now \subseteq 1..now'
    BY <1>13, <1>a, <1>b DEF Tick
  <2>2. /\ UNCHANGED <<rows, api, job, history>>
        /\ [resource : Resources, at : 1..now] \subseteq [resource : Resources, at : 1..now']
        /\ DualReceipts \subseteq DualReceipts'
    BY <1>13, <2>1 DEF Tick, DualReceipts
  <2>3. requested \in [Missions -> [Resources -> 0..now']]
    BY <1>a, <2>1
  <2>4. DataOK'
    BY <1>a, <2>1, <2>2, <2>3 DEF rows, api, history, QuoteLockTypeOK
  <2>5. Jobs \subseteq Jobs' /\ \A j \in Jobs : JobOK(j) => JobOK(j)'
    BY <2>1 DEF Jobs, JobOK
  <2>6. JobsOK'
    BY <1>a, <2>2, <2>5 DEF JobsOK
  <2> QED BY <1>a, <2>4, <2>6
<1>14. CASE Crash
  <2>1. \A s \in Slots : job[s].step = "dual" => job[s].mission \in Missions
    BY <1>c DEF JobOK
  <2>2. cut' \subseteq Missions /\ crashes' \in 0..MaxCrashes
    <3>1. cut' \subseteq Missions
      BY <1>14, <1>a, <2>1 DEF Crash
    <3>2. MaxCrashes \in Nat
      BY MissionFlowAssumption
    <3>3. crashes' \in 0..MaxCrashes
      BY <1>14, <1>a, <3>2 DEF Crash
    <3> QED BY <3>1, <3>3
  <2>3. DataOK'
    BY <1>14, <1>a, <1>g, <2>2 DEF Crash, rows, api, QuoteLockTypeOK
  <2>4. Jobs' = Jobs /\ (JobOK(NoJob)' <=> JobOK(NoJob)) /\ NoJob' = NoJob
    BY <1>14 DEF Crash, Jobs, JobOK
  <2>5. job' = [s \in Slots |-> NoJob] /\ NoJob.step \in Awaiting
    BY <1>14 DEF Crash, NoJob, Job, Awaiting
  <2>6. JobsOK'
    BY <1>d, <2>4, <2>5 DEF JobsOK, Awaiting
  <2> QED BY <1>a, <2>3, <2>6
<1>15. CASE UNCHANGED vars
  BY <1>15, <1>a, <1>g DEF vars, rows, api, history, QuoteLockTypeOK, JobsOK, Jobs, JobOK
<1> QED
  BY <1>1, <1>2, <1>3, <1>4, <1>5, <1>6, <1>7, <1>8, <1>9, <1>10, <1>11, <1>12, <1>13, <1>14,
     <1>15 DEF Next
-----------------------------------------------------------------------------
LEMMA NextJobsAreNow == TypeOK /\ JobsAreNow /\ [Next]_vars => JobsAreNow'
<1> SUFFICES ASSUME TypeOK, JobsAreNow, [Next]_vars PROVE JobsAreNow'
  OBVIOUS
<1>a. /\ job \in [Slots -> Jobs]
      /\ receipt \in [Missions -> [resource : Resources, at : 1..now] \cup {NoReceipt}]
  BY DEF TypeOK, JobsOK
<1>b. ASSUME NEW s \in Slots, NEW j, Put(s, j), j.step \notin {"resource", "dual"},
             UNCHANGED <<receipt, now>>
      PROVE  JobsAreNow'
  BY <1>a, <1>b DEF Put, JobsAreNow
<1>c. NoJob.step \notin {"resource", "dual"}
  BY DEF NoJob, Job
<1>d. ASSUME NEW m, NEW t \in {"caw", "void", "blocked", "returned"}, NEW d
      PROVE  Job(t, m, NoResource, Never, d).step \notin {"resource", "dual"}
  BY DEF Job
<1>1. ASSUME NEW s \in Slots, NEW m \in Missions, NEW r \in Resources, NEW b \in Budgets,
             CreateMission(s, m, r, b)
      PROVE  JobsAreNow'
  BY <1>1, <1>a DEF CreateMission, Put, Job, JobsAreNow
<1>2. ASSUME NEW s \in Slots, NEW m \in Missions, InsertFallbackReceipt(s, m)
      PROVE  JobsAreNow'
  <2>1. /\ job' = [job EXCEPT ![s] = Job("dual", m, MissionResource(m), now, "none")]
        /\ receipt' = [receipt EXCEPT ![m] = [resource |-> MissionResource(m), at |-> now]]
        /\ now' = now
        /\ \A t \in Slots : job[t].step # "dual" /\ job[t].step # "resource"
    BY <1>2 DEF InsertFallbackReceipt, Put, LoopFree, Awaiting
  <2>2. ASSUME NEW t \in Slots \ {s} PROVE job'[t] = job[t]
    BY <1>a, <2>1
  <2>3. job'[s] = Job("dual", m, MissionResource(m), now, "none")
    BY <1>a, <2>1
  <2>4. receipt'[m] = [resource |-> MissionResource(m), at |-> now]
    BY <1>a, <2>1
  <2> QED BY <2>1, <2>2, <2>3, <2>4 DEF JobsAreNow, Job
<1>3. CASE Tick
  BY <1>3 DEF Tick, LoopFree, Awaiting, JobsAreNow
<1>4. CASE Crash
  BY <1>4, <1>c DEF Crash, JobsAreNow
<1>5. CASE UNCHANGED vars
  BY <1>5 DEF vars, api, JobsAreNow
<1>6. ASSUME NEW s \in Slots, NEW m \in Missions,
             LayerRejects(s, m) \/ LockRefuses(s, m) \/ LockReserves(s, m)
      PROVE  JobsAreNow'
  BY <1>6, <1>b, <1>d DEF LayerRejects, LockRefuses, LockReserves, Returned, api
<1>7. ASSUME NEW s \in Slots, CawRequiresFallback(s) \/ VoidReservation(s) \/ UpsertDualReceipt(s)
      PROVE  JobsAreNow'
  BY <1>7, <1>b, <1>d DEF CawRequiresFallback, VoidReservation, UpsertDualReceipt, Returned, api
<1>8. ASSUME NEW s \in Slots,
             \/ RecordMissionResource(s) \/ ResourceEventExists(s)
             \/ UpdateMissionStatus(s) \/ MarkBlocked(s)
      PROVE  JobsAreNow'
  BY <1>8, <1>b, <1>c
     DEF RecordMissionResource, ResourceEventExists, UpdateMissionStatus, MarkBlocked, api
<1> QED BY <1>1, <1>2, <1>3, <1>4, <1>5, <1>6, <1>7, <1>8 DEF Next
-----------------------------------------------------------------------------
(***************************************************************************)
(* The last create that was answered recorded its resource, and no event   *)
(* of the mission is later.                                                *)
(***************************************************************************)
AskedIsLast ==
  \A m \in Missions :
    /\ asked[m] # NoReceipt => requested[m][asked[m].resource] = asked[m].at
    /\ \A r \in Resources :
         requested[m][r] # Never => asked[m] # NoReceipt /\ requested[m][r] <= asked[m].at

LEMMA NextAskedIsLast ==
  TypeOK /\ JobsAreNow /\ AskedIsLast /\ [Next]_vars => AskedIsLast'
<1> SUFFICES ASSUME TypeOK, JobsAreNow, AskedIsLast, [Next]_vars PROVE AskedIsLast'
  OBVIOUS
<1>a. ASSUME UNCHANGED <<requested, asked>> PROVE AskedIsLast'
  BY <1>a DEF AskedIsLast
<1>1. ASSUME NEW s \in Slots, RecordMissionResource(s) PROVE AskedIsLast'
  <2> DEFINE n == job[s].mission
  <2> DEFINE q == job[s].resource
  <2>1. n \in Missions /\ q \in Resources /\ job[s].at = now /\ now \in Nat \ {0}
    BY <1>1, MissionFlowAssumption DEF RecordMissionResource, TypeOK, JobsOK, JobOK, JobsAreNow
  <2>2. /\ requested' = [requested EXCEPT ![n][q] = now]
        /\ asked' = [asked EXCEPT ![n] = [resource |-> q, at |-> now]]
    BY <1>1, <2>1 DEF RecordMissionResource
  <2>3. /\ requested \in [Missions -> [Resources -> 0..now]]
        /\ asked \in [Missions -> [resource : Resources, at : 1..now] \cup {NoReceipt}]
    BY DEF TypeOK
  <2> HIDE DEF n, q
  <2>4. ASSUME NEW m \in Missions, m # n
        PROVE  requested'[m] = requested[m] /\ asked'[m] = asked[m]
    BY <2>2, <2>3, <2>4
  <2>5. /\ asked'[n] = [resource |-> q, at |-> now]
        /\ requested'[n][q] = now
        /\ \A r \in Resources : requested'[n][r] \in 0..now
    BY <2>1, <2>2, <2>3
  <2>6. asked'[n] # NoReceipt /\ asked'[n].resource = q /\ asked'[n].at = now
    BY <2>1, <2>5 DEF NoReceipt, Never
  <2>7. \A r \in Resources : requested'[n][r] <= now
    BY <2>1, <2>5
  <2>8. ASSUME NEW m \in Missions
        PROVE  /\ asked'[m] # NoReceipt => requested'[m][asked'[m].resource] = asked'[m].at
               /\ \A r \in Resources :
                    requested'[m][r] # Never =>
                      asked'[m] # NoReceipt /\ requested'[m][r] <= asked'[m].at
    <3>1. CASE m = n
      BY <3>1, <2>5, <2>6, <2>7
    <3>2. CASE m # n
      BY <3>2, <2>4 DEF AskedIsLast
    <3> QED BY <3>1, <3>2
  <2> QED BY <2>8 DEF AskedIsLast
<1>2. ASSUME NEW s \in Slots, NEW m \in Missions,
             \/ \E r \in Resources, b \in Budgets : CreateMission(s, m, r, b)
             \/ LayerRejects(s, m)
             \/ LockRefuses(s, m)
             \/ LockReserves(s, m)
             \/ InsertFallbackReceipt(s, m)
      PROVE  AskedIsLast'
  BY <1>2, <1>a
     DEF CreateMission, LayerRejects, LockRefuses, LockReserves, InsertFallbackReceipt, api, history
<1>3. ASSUME NEW s \in Slots,
             \/ ResourceEventExists(s)
             \/ CawRequiresFallback(s)
             \/ VoidReservation(s)
             \/ UpdateMissionStatus(s)
             \/ UpsertDualReceipt(s)
             \/ MarkBlocked(s)
      PROVE  AskedIsLast'
  BY <1>3, <1>a
     DEF ResourceEventExists, CawRequiresFallback, VoidReservation, UpdateMissionStatus,
         UpsertDualReceipt, MarkBlocked, api, history
<1>4. CASE Tick \/ Crash \/ UNCHANGED vars
  BY <1>4, <1>a DEF Tick, Crash, vars, api, history
<1> QED BY <1>1, <1>2, <1>3, <1>4 DEF Next

LEMMA AskedWins == TypeOK /\ AskedIsLast => LatestRequestWins
<1> SUFFICES ASSUME TypeOK, AskedIsLast, NEW m \in Missions, asked[m] # NoReceipt
             PROVE  \/ MissionResource(m) = asked[m].resource
                    \/ requested[m][MissionResource(m)] = asked[m].at
  BY DEF LatestRequestWins
<1>1. asked[m].resource \in Resources /\ asked[m].at \in 1..now /\ now \in Nat
  BY MissionFlowAssumption DEF TypeOK
<1>2. asked[m].resource \in Requested(m) /\ requested[m][asked[m].resource] = asked[m].at
  BY <1>1 DEF AskedIsLast, Requested, Never
<1>3. /\ MissionResource(m) \in Requested(m)
      /\ asked[m].at <= requested[m][MissionResource(m)]
  BY <1>2, LastResource
<1>4. requested[m][MissionResource(m)] <= asked[m].at
  BY <1>3 DEF AskedIsLast, Requested
<1>5. requested[m][MissionResource(m)] \in Nat
  BY <1>1, <1>3 DEF TypeOK, Requested
<1> QED BY <1>1, <1>3, <1>4, <1>5
-----------------------------------------------------------------------------
(***************************************************************************)
(* A payment context is of a quote that was reserved, and a quote is       *)
(* reserved once.                                                          *)
(***************************************************************************)
ContextHasQuote ==
  \A m \in Missions : context[m] # NoResource => ~ IsUnused(KeyOf(m))

ContextStays == \A m \in Missions : context[m] # NoResource => context'[m] = context[m]

LEMMA NextContext ==
  TypeOK /\ ContextHasQuote /\ [Next]_vars => ContextHasQuote' /\ ContextStays
<1> SUFFICES ASSUME TypeOK, ContextHasQuote, [Next]_vars PROVE ContextHasQuote' /\ ContextStays
  OBVIOUS
<1>a. /\ context \in [Missions -> Resources \cup {NoResource}]
      /\ quote \in [Keys -> {"none", "reserved", "spent"}]
  BY DEF TypeOK, QuoteLockTypeOK
<1>b. ASSUME UNCHANGED <<context, quote>> PROVE ContextHasQuote' /\ ContextStays
  BY <1>b DEF ContextHasQuote, ContextStays, IsUnused
<1>1. ASSUME NEW s \in Slots, NEW m \in Missions, LockReserves(s, m)
      PROVE  ContextHasQuote' /\ ContextStays
  <2>1. KeyOf(m) \in Keys
    BY KeyType
  <2>2. /\ IsUnused(KeyOf(m))
        /\ quote' = [quote EXCEPT ![KeyOf(m)] = "reserved"]
        /\ context' = [context EXCEPT ![m] = MissionResource(m)]
    BY <1>1 DEF LockReserves, ReserveQuoteAndBudget
  <2>3. context[m] = NoResource
    BY <2>2 DEF ContextHasQuote
  <2>4. ASSUME NEW n \in Missions \ {m} PROVE context'[n] = context[n]
    BY <1>a, <2>2
  <2>5. ASSUME NEW k \in Keys, ~ IsUnused(k) PROVE ~ IsUnused(k)'
    BY <1>a, <2>2, <2>5 DEF IsUnused
  <2>6. ~ IsUnused(KeyOf(m))'
    BY <1>a, <2>1, <2>2 DEF IsUnused
  <2> QED BY <2>3, <2>4, <2>5, <2>6, KeyType DEF ContextHasQuote, ContextStays, KeyOf, IsUnused
<1>2. ASSUME NEW s \in Slots, NEW m \in Missions,
             \/ \E r \in Resources, b \in Budgets : CreateMission(s, m, r, b)
             \/ LayerRejects(s, m)
             \/ LockRefuses(s, m)
             \/ InsertFallbackReceipt(s, m)
      PROVE  ContextHasQuote' /\ ContextStays
  BY <1>2, <1>b
     DEF CreateMission, LayerRejects, LockRefuses, RefuseReservation, InsertFallbackReceipt,
         rows, api
<1>3. ASSUME NEW s \in Slots,
             \/ RecordMissionResource(s)
             \/ ResourceEventExists(s)
             \/ CawRequiresFallback(s)
             \/ VoidReservation(s)
             \/ UpdateMissionStatus(s)
             \/ UpsertDualReceipt(s)
             \/ MarkBlocked(s)
      PROVE  ContextHasQuote' /\ ContextStays
  BY <1>3, <1>b
     DEF RecordMissionResource, ResourceEventExists, CawRequiresFallback, SetReservation,
         VoidReservation, VoidLedger, SettleLedger, UpdateMissionStatus, UpsertDualReceipt,
         MarkBlocked, rows, api
<1>4. CASE Tick \/ Crash \/ UNCHANGED vars
  BY <1>4, <1>b DEF Tick, Crash, vars, rows, api
<1> QED BY <1>1, <1>2, <1>3, <1>4 DEF Next
-----------------------------------------------------------------------------
(***************************************************************************)
(* ShownReceiptIsCurrent, for one mission.                                 *)
(***************************************************************************)
Verifying(m) == \E s \in Slots : job[s].step = "dual" /\ job[s].mission = m

IsCurrent(m, d) ==
  /\ d.resource = receipt[m].resource
  /\ d.at = receipt[m].at
  /\ d.decision = "allow"
  /\ \A e \in dual[m] : e.created <= d.created

ShownIsCurrent(m) ==
  receipt[m] = NoReceipt \/ m \in cut \/ Verifying(m) \/ \E d \in dual[m] : IsCurrent(m, d)

LEMMA ShownByMission == ShownReceiptIsCurrent <=> \A m \in Missions : ShownIsCurrent(m)
  BY DEF ShownReceiptIsCurrent, ShownIsCurrent, Verifying, IsCurrent

(***************************************************************************)
(* A step that leaves the receipts alone keeps a mission's as shown, if it *)
(* leaves its verification under way.                                      *)
(***************************************************************************)
LEMMA ShownStays ==
  ASSUME NEW m \in Missions, ShownIsCurrent(m), receipt'[m] = receipt[m], dual'[m] = dual[m],
         m \in cut => m \in cut', Verifying(m) => Verifying(m)' \/ m \in cut'
  PROVE  ShownIsCurrent(m)'
<1>1. \A d : IsCurrent(m, d) => IsCurrent(m, d)'
  BY DEF IsCurrent
<1> QED BY <1>1 DEF ShownIsCurrent

LEMMA NextShown ==
  TypeOK /\ JobsAreNow /\ ShownReceiptIsCurrent /\ [Next]_vars => ShownReceiptIsCurrent'
<1> SUFFICES ASSUME TypeOK, JobsAreNow, [Next]_vars, NEW m \in Missions, ShownIsCurrent(m)
             PROVE  ShownIsCurrent(m)'
  BY ShownByMission DEF ShownReceiptIsCurrent, ShownIsCurrent, Verifying, IsCurrent
<1>a. /\ job \in [Slots -> Jobs]
      /\ receipt \in [Missions -> [resource : Resources, at : 1..now] \cup {NoReceipt}]
      /\ dual \in [Missions -> SUBSET DualReceipts]
      /\ \A d \in dual[m] : d.created \in 1..now
      /\ now \in Nat
  BY MissionFlowAssumption DEF TypeOK, JobsOK, DualReceipts
<1>b. ASSUME NEW s \in Slots, NEW j, Put(s, j), job[s].step # "dual",
             UNCHANGED <<receipt, dual, cut>>
      PROVE  ShownIsCurrent(m)'
  <2>1. Verifying(m) => Verifying(m)'
    BY <1>a, <1>b DEF Put, Verifying
  <2> QED BY <1>b, <2>1, ShownStays
<1>1. ASSUME NEW s \in Slots, NEW n \in Missions, InsertFallbackReceipt(s, n)
      PROVE  ShownIsCurrent(m)'
  <2>1. /\ job' = [job EXCEPT ![s] = Job("dual", n, MissionResource(n), now, "none")]
        /\ receipt' = [receipt EXCEPT ![n] = [resource |-> MissionResource(n), at |-> now]]
        /\ UNCHANGED <<dual, cut>>
        /\ job[s] = NoJob
    BY <1>1 DEF InsertFallbackReceipt, Put, history
  <2>2. CASE m = n
    <3>1. job'[s].step = "dual" /\ job'[s].mission = m
      BY <1>a, <2>1, <2>2 DEF Job
    <3> QED BY <3>1 DEF ShownIsCurrent, Verifying
  <2>3. CASE m # n
    <3>1. Verifying(m) => Verifying(m)'
      BY <1>a, <2>1 DEF Verifying, NoJob, Job
    <3>2. receipt'[m] = receipt[m]
      BY <1>a, <2>1, <2>3
    <3> QED BY <2>1, <3>1, <3>2, ShownStays
  <2> QED BY <2>2, <2>3
<1>2. ASSUME NEW s \in Slots, UpsertDualReceipt(s) PROVE ShownIsCurrent(m)'
  <2>a. PICK n : n = job[s].mission
    OBVIOUS
  <2>b. PICK d : d = DualReceipt(n, job[s].resource, job[s].at)
    OBVIOUS
  <2>c. /\ n \in Missions
        /\ d = [resource |-> job[s].resource, at |-> now, created |-> now, decision |-> "allow"]
        /\ receipt[n] = [resource |-> job[s].resource, at |-> now]
    BY <1>2, <2>a, <2>b, DualIsVerified DEF UpsertDualReceipt
  <2>1. /\ n \in Missions
        /\ d.created = now /\ d.decision = "allow"
        /\ d.resource = receipt[n].resource /\ d.at = receipt[n].at
    BY <2>c
  <2>2. /\ dual' = [dual EXCEPT ![n] =
             {e \in @ : e.resource # d.resource \/ e.at # d.at} \cup {d}]
        /\ cut' = cut \ {n}
        /\ receipt' = receipt
        /\ job' = [job EXCEPT ![s] = Job("blocked", n, NoResource, Never, "none")]
    BY <1>2, <2>a, <2>b DEF UpsertDualReceipt, Put
  <2>3. CASE m = n
    <3>1. dual'[m] = {e \in dual[m] : e.resource # d.resource \/ e.at # d.at} \cup {d}
      BY <1>a, <2>1, <2>2, <2>3
    <3>2. \A e \in dual'[m] : e.created <= d.created
      BY <1>a, <2>1, <3>1
    <3>3. d \in dual'[m]
      BY <3>1
    <3>4. receipt'[m] = receipt[n]
      BY <2>2, <2>3
    <3> QED BY <2>1, <3>2, <3>3, <3>4 DEF ShownIsCurrent, IsCurrent
  <2>4. CASE m # n
    <3>1. Verifying(m) => Verifying(m)'
      BY <1>a, <2>a, <2>2, <2>4 DEF Verifying
    <3>2. dual'[m] = dual[m] /\ (m \in cut => m \in cut')
      BY <2>2, <2>4
    <3> QED BY <2>2, <3>1, <3>2, ShownStays
  <2> QED BY <2>3, <2>4
<1>c. \A j : j = NoJob => j.step # "dual"
  BY DEF NoJob, Job
<1>3. ASSUME NEW s \in Slots, NEW n \in Missions,
             \/ \E r \in Resources, b \in Budgets : CreateMission(s, n, r, b)
             \/ LayerRejects(s, n)
             \/ LockRefuses(s, n)
             \/ LockReserves(s, n)
      PROVE  ShownIsCurrent(m)'
  <2>1. job[s] = NoJob /\ UNCHANGED <<receipt, dual, cut>>
    BY <1>3 DEF CreateMission, LayerRejects, LockRefuses, LockReserves, api, history
  <2>2. \E j : Put(s, j)
    BY <1>3 DEF CreateMission, LayerRejects, LockRefuses, LockReserves, Returned
  <2> QED BY <2>1, <2>2, <1>b, <1>c
<1>4. ASSUME NEW s \in Slots,
             \/ RecordMissionResource(s)
             \/ ResourceEventExists(s)
             \/ CawRequiresFallback(s)
             \/ VoidReservation(s)
             \/ UpdateMissionStatus(s)
             \/ MarkBlocked(s)
      PROVE  ShownIsCurrent(m)'
  BY <1>4, <1>b
     DEF RecordMissionResource, ResourceEventExists, CawRequiresFallback, VoidReservation,
         UpdateMissionStatus, MarkBlocked, Returned, api, history
<1>5. CASE Crash
  <2>1. /\ cut' = cut \cup {job[s].mission : s \in {x \in Slots : job[x].step = "dual"}}
        /\ UNCHANGED <<receipt, dual>>
    BY <1>5 DEF Crash, api
  <2>2. Verifying(m) => m \in cut'
    BY <2>1 DEF Verifying
  <2> QED BY <2>1, <2>2, ShownStays
<1>6. CASE Tick \/ UNCHANGED vars
  <2>1. UNCHANGED <<receipt, dual, cut, job>>
    BY <1>6 DEF Tick, vars, api, history
  <2>2. Verifying(m) => Verifying(m)'
    BY <2>1 DEF Verifying
  <2> QED BY <2>1, <2>2, ShownStays
<1> QED BY <1>1, <1>2, <1>3, <1>4, <1>5, <1>6 DEF Next
-----------------------------------------------------------------------------
FlowInv ==
  /\ TypeOK
  /\ JobsAreNow
  /\ AskedIsLast
  /\ ContextHasQuote
  /\ ShownReceiptIsCurrent

LEMMA InitFlow == Init => FlowInv
<1> SUFFICES ASSUME Init PROVE FlowInv
  OBVIOUS
<1>1. JobsAreNow
  BY DEF Init, JobsAreNow, NoJob, Job
<1>2. AskedIsLast
  BY DEF Init, AskedIsLast
<1>3. ContextHasQuote
  BY DEF Init, ContextHasQuote
<1>4. ShownReceiptIsCurrent
  BY DEF Init, ShownReceiptIsCurrent
<1> QED BY <1>1, <1>2, <1>3, <1>4, InitTypeOK DEF FlowInv

(***************************************************************************)
(* What the properties rest on: jobs that hold the event loop are of this  *)
(* millisecond, the last answered create is the last event, and a payment  *)
(* context belongs to a reserved quote.                                    *)
(***************************************************************************)
THEOREM FlowInvariant == Spec => []FlowInv
<1>1. FlowInv /\ [Next]_vars => FlowInv'
  BY NextTypeOK, NextJobsAreNow, NextAskedIsLast, NextContext, NextShown DEF FlowInv
<1> QED BY <1>1, InitFlow, PTL DEF Spec

(***************************************************************************)
(* Every row and every job of the mission API has its type.                *)
(***************************************************************************)
THEOREM FlowTypeCorrect == Spec => []TypeOK
<1>1. FlowInv => TypeOK
  BY DEF FlowInv
<1> QED BY <1>1, FlowInvariant, PTL

(***************************************************************************)
(* missionResourceUrl returns the resource of the last create that was     *)
(* answered, or another one recorded in the same millisecond.              *)
(***************************************************************************)
THEOREM FlowLatestRequestWins == Spec => []LatestRequestWins
<1>1. FlowInv => LatestRequestWins
  BY AskedWins DEF FlowInv
<1> QED BY <1>1, FlowInvariant, PTL

(***************************************************************************)
(* No dual receipt, of which getMission shows the newest, is newer than    *)
(* the verified dual of the stored receipt, but for the statement between  *)
(* the two rows or a crash there.                                          *)
(***************************************************************************)
THEOREM FlowShownReceiptIsCurrent == Spec => []ShownReceiptIsCurrent
<1>1. FlowInv => ShownReceiptIsCurrent
  BY DEF FlowInv
<1> QED BY <1>1, FlowInvariant, PTL

(***************************************************************************)
(* No create, guard, verification or crash changes the resource of a       *)
(* payment context.                                                        *)
(***************************************************************************)
THEOREM FlowContextIsFinal == Spec => ContextIsFinal
<1>1. FlowInv /\ [Next]_vars =>
        [\A m \in Missions : context[m] # NoResource => context'[m] = context[m]]_vars
  BY NextContext DEF FlowInv, ContextStays
<1> QED BY <1>1, FlowInvariant, PTL DEF Spec, ContextIsFinal
-----------------------------------------------------------------------------
(***************************************************************************)
(* What the lock rests on: the quote of a mission is settled by the one    *)
(* request that reserved it, which finds its rows as it left them, and a   *)
(* quote without that request has no rows, or has rows for good.           *)
(***************************************************************************)
Settling(j) == j.step \in {"caw", "void"}

FindsItsRows(j) ==
  /\ j.step = "caw" => RowsOf(KeyOf(j.mission)) = Reserved
  /\ j.step = "void" => RowsOf(KeyOf(j.mission)) = HalfReleased

OneSettles ==
  \A s, t \in Slots :
    Settling(job[s]) /\ Settling(job[t]) /\ job[s].mission = job[t].mission => s = t

FlowLockInv ==
  /\ \A m \in Missions :
       /\ budget[m] \in Budgets \cup {NoMission}
       /\ RowsOf(KeyOf(m)) \in {Unused, Reserved, HalfReleased, Released}
  /\ \A s \in Slots : FindsItsRows(job[s])
  /\ OneSettles

(***************************************************************************)
(* A step that leaves the rows of the quotes alone, and no request newly   *)
(* with one to settle.                                                     *)
(***************************************************************************)
LEMMA QuietFlowLock ==
  ASSUME FlowLockInv, UNCHANGED <<quote, reservation, ledger>>,
         \A m \in Missions : budget'[m] \in Budgets \cup {NoMission},
         \A s \in Slots : job'[s] = job[s] \/ ~ Settling(job'[s])
  PROVE  FlowLockInv'
<1>1. \A m \in Missions : RowsOf(KeyOf(m))' = RowsOf(KeyOf(m))
  BY DEF RowsOf
<1>2. \A s \in Slots : FindsItsRows(job[s])'
  BY DEF FlowLockInv, FindsItsRows, Settling, RowsOf
<1>3. OneSettles'
  BY DEF FlowLockInv, OneSettles, Settling
<1> QED BY <1>1, <1>2, <1>3 DEF FlowLockInv

(***************************************************************************)
(* A step that writes the rows of the quote of mission m, and the job of   *)
(* the one request that may settle it.                                     *)
(***************************************************************************)
LEMMA SettlerFlowLock ==
  ASSUME TypeOK, FlowLockInv, UNCHANGED budget, NEW s \in Slots, NEW m \in Missions,
         \A t \in Slots \ {s} : ~ (Settling(job[t]) /\ job[t].mission = m),
         NEW j, Put(s, j), j.mission = m, FindsItsRows(j)',
         RowsOf(KeyOf(m))' \in {Unused, Reserved, HalfReleased, Released},
         \A k \in Keys \ {KeyOf(m)} : RowsOf(k)' = RowsOf(k)
  PROVE  FlowLockInv'
<1>1. job' = [job EXCEPT ![s] = j] /\ job \in [Slots -> Jobs]
  BY DEF Put, TypeOK, JobsOK
<1>2. \A n \in Missions \ {m} : KeyOf(n) \in Keys /\ KeyOf(n) # KeyOf(m)
  BY KeyType DEF KeyOf
<1>3. \A n \in Missions : RowsOf(KeyOf(n))' \in {Unused, Reserved, HalfReleased, Released}
  BY <1>2 DEF FlowLockInv
<1>4. ASSUME NEW t \in Slots PROVE FindsItsRows(job[t])'
  <2>1. CASE t = s
    <3>1. job'[t] = j
      BY <1>1, <2>1
    <3> QED BY <3>1 DEF FindsItsRows, RowsOf
  <2>2. CASE t # s
    <3> PICK n : n = job[t].mission
      OBVIOUS
    <3>1. job'[t] = job[t]
      BY <1>1, <2>2
    <3>2. Settling(job[t]) => n \in Missions \ {m}
      BY <2>2 DEF TypeOK, JobsOK, JobOK, Settling
    <3>3. Settling(job[t]) => RowsOf(KeyOf(n))' = RowsOf(KeyOf(n))
      BY <1>2, <3>2
    <3>4. FindsItsRows(job[t])
      BY DEF FlowLockInv
    <3> QED BY <3>1, <3>3, <3>4 DEF FindsItsRows, Settling, RowsOf
  <2> QED BY <2>1, <2>2
<1>5. OneSettles'
  BY <1>1 DEF FlowLockInv, OneSettles, Settling
<1>6. \A n \in Missions : budget'[n] \in Budgets \cup {NoMission}
  BY DEF FlowLockInv
<1> QED BY <1>3, <1>4, <1>5, <1>6 DEF FlowLockInv

(***************************************************************************)
(* The lock finds a mission's quote without rows, and the request that     *)
(* settles a quote finds it as it is to be.                                *)
(***************************************************************************)
LEMMA LockFindsUnused ==
  ASSUME FlowLockInv, NEW s \in Slots, NEW m \in Missions, LockReserves(s, m)
  PROVE  /\ RowsOf(KeyOf(m)) = Unused
         /\ ReserveQuoteAndBudget(KeyOf(m), Price, budget[m])
         /\ budget[m] \in Budgets
<1>1. ReserveQuoteAndBudget(KeyOf(m), Price, budget[m]) /\ Exists(m)
  BY DEF LockReserves
<1>2. quote[KeyOf(m)] = "none" /\ budget[m] # NoMission
  BY <1>1 DEF ReserveQuoteAndBudget, IsUnused, Exists
<1> QED BY <1>1, <1>2 DEF FlowLockInv, RowsOf, Reserved, HalfReleased, Released

LEMMA SettlerFindsRows ==
  ASSUME TypeOK, FlowLockInv, NEW s \in Slots, Settling(job[s])
  PROVE  /\ job[s].mission \in Missions /\ KeyOf(job[s].mission) \in Keys
         /\ RowsOf(KeyOf(job[s].mission)) = IF job[s].step = "caw" THEN Reserved ELSE HalfReleased
         /\ \A t \in Slots \ {s} : ~ (Settling(job[t]) /\ job[t].mission = job[s].mission)
<1>1. job[s].mission \in Missions
  BY DEF TypeOK, JobsOK, JobOK, Settling
<1>2. KeyOf(job[s].mission) \in Keys
  BY <1>1, KeyType
<1>3. FindsItsRows(job[s]) /\ OneSettles
  BY DEF FlowLockInv
<1> QED BY <1>1, <1>2, <1>3 DEF FindsItsRows, OneSettles, Settling

LEMMA NextFlowLock == TypeOK /\ FlowLockInv /\ [Next]_vars => FlowLockInv'
<1> SUFFICES ASSUME TypeOK, FlowLockInv, [Next]_vars PROVE FlowLockInv'
  OBVIOUS
<1>a. QuoteLockTypeOK /\ job \in [Slots -> Jobs] /\ \A m \in Missions : KeyOf(m) \in Keys
  BY KeyType DEF TypeOK, JobsOK
<1>b. \A m \in Missions : budget[m] \in Budgets \cup {NoMission}
  BY DEF FlowLockInv
<1>c. ASSUME NEW s \in Slots, NEW j, Put(s, j), ~ Settling(j)
      PROVE  \A t \in Slots : job'[t] = job[t] \/ ~ Settling(job'[t])
  BY <1>a, <1>c DEF Put
<1>1. ASSUME NEW s \in Slots, NEW m \in Missions, NEW r \in Resources, NEW b \in Budgets,
             CreateMission(s, m, r, b)
      PROVE  FlowLockInv'
  <2>1. \A n \in Missions : budget'[n] \in Budgets \cup {NoMission}
    BY <1>1, <1>a, <1>b DEF CreateMission, EnsureMission, QuoteLockTypeOK
  <2>2. Put(s, Job("resource", m, r, now, "none")) /\ UNCHANGED <<quote, reservation, ledger>>
    BY <1>1 DEF CreateMission
  <2>3. ~ Settling(Job("resource", m, r, now, "none"))
    BY DEF Settling, Job
  <2> QED BY <1>c, <2>1, <2>2, <2>3, QuietFlowLock
<1>2. ASSUME NEW s \in Slots, NEW m \in Missions,
             LayerRejects(s, m) \/ LockRefuses(s, m) \/ InsertFallbackReceipt(s, m)
      PROVE  FlowLockInv'
  <2>1. UNCHANGED <<quote, reservation, ledger>>
    BY <1>2 DEF LayerRejects, LockRefuses, RefuseReservation, InsertFallbackReceipt, rows
  <2>2. \A n \in Missions : budget'[n] \in Budgets \cup {NoMission}
    BY <1>2, <1>a, <1>b DEF LayerRejects, LockRefuses, RefuseReservation, EnsureMission,
                            InsertFallbackReceipt, rows, QuoteLockTypeOK
  <2>3. PICK j : Put(s, j) /\ ~ Settling(j)
    BY <1>2 DEF LayerRejects, LockRefuses, InsertFallbackReceipt, Returned, Job, Settling
  <2> QED BY <1>c, <2>1, <2>2, <2>3, QuietFlowLock
<1>3. ASSUME NEW s \in Slots,
             \/ RecordMissionResource(s) \/ ResourceEventExists(s) \/ UpdateMissionStatus(s)
             \/ UpsertDualReceipt(s) \/ MarkBlocked(s)
      PROVE  FlowLockInv'
  <2>1. UNCHANGED <<budget, quote, reservation, ledger>>
    BY <1>3 DEF RecordMissionResource, ResourceEventExists, UpdateMissionStatus,
                UpsertDualReceipt, MarkBlocked, rows
  <2>2. PICK j : Put(s, j) /\ ~ Settling(j)
    BY <1>3 DEF RecordMissionResource, ResourceEventExists, UpdateMissionStatus,
                UpsertDualReceipt, MarkBlocked, NoJob, Job, Settling
  <2> QED BY <1>b, <1>c, <2>1, <2>2, QuietFlowLock
<1>4. ASSUME NEW s \in Slots, NEW m \in Missions, LockReserves(s, m) PROVE FlowLockInv'
  <2> DEFINE k == KeyOf(m)
             j == Job("caw", m, NoResource, Never, "none")
  <2>1. RowsOf(k) = Unused /\ ReserveQuoteAndBudget(k, Price, budget[m]) /\ k \in Keys /\ k[1] = m
    BY <1>4, <1>a, LockFindsUnused DEF KeyOf
  <2>2. Put(s, j) /\ j.mission = m /\ j.step = "caw"
    BY <1>4 DEF LockReserves, Job
  <2>3. UNCHANGED budget
    BY <1>a, <2>1 DEF ReserveQuoteAndBudget, EnsureMission, QuoteLockTypeOK
  <2>4. RowsOf(k)' = Reserved /\ \A i \in Keys \ {k} : RowsOf(i)' = RowsOf(i)
    BY <1>a, <2>1 DEF ReserveQuoteAndBudget, QuoteLockTypeOK, RowsOf, Reserved
  <2>5. ASSUME NEW t \in Slots PROVE ~ (Settling(job[t]) /\ job[t].mission = m)
    BY <2>1, SettlerFindsRows DEF Unused, Reserved, HalfReleased
  <2>6. FindsItsRows(j)'
    BY <2>2, <2>4 DEF FindsItsRows, KeyOf
  <2> QED BY <2>2, <2>3, <2>4, <2>5, <2>6, SettlerFlowLock
<1>5. ASSUME NEW s \in Slots, CawRequiresFallback(s) PROVE FlowLockInv'
  <2> PICK m : m = job[s].mission
    OBVIOUS
  <2> DEFINE k == KeyOf(m)
             j == Job("void", m, NoResource, Never, "none")
  <2>1. /\ m \in Missions /\ k \in Keys /\ RowsOf(k) = Reserved
        /\ \A t \in Slots \ {s} : ~ (Settling(job[t]) /\ job[t].mission = m)
    BY <1>5, SettlerFindsRows DEF CawRequiresFallback, Settling
  <2>2. SetReservation(k, "released") /\ Put(s, j) /\ j.mission = m /\ j.step = "void"
    BY <1>5 DEF CawRequiresFallback, Job
  <2>3. RowsOf(k)' = HalfReleased /\ \A i \in Keys \ {k} : RowsOf(i)' = RowsOf(i)
    BY <1>a, <2>1, <2>2 DEF SetReservation, QuoteLockTypeOK, RowsOf, Reserved, HalfReleased
  <2>4. FindsItsRows(j)'
    BY <2>2, <2>3 DEF FindsItsRows, KeyOf
  <2> QED BY <2>1, <2>2, <2>3, <2>4, SettlerFlowLock DEF SetReservation
<1>6. ASSUME NEW s \in Slots, VoidReservation(s) PROVE FlowLockInv'
  <2> PICK m : m = job[s].mission
    OBVIOUS
  <2> DEFINE k == KeyOf(m)
             j == Job("returned", m, NoResource, Never, "fallback_required")
  <2>1. /\ m \in Missions /\ k \in Keys /\ RowsOf(k) = HalfReleased
        /\ \A t \in Slots \ {s} : ~ (Settling(job[t]) /\ job[t].mission = m)
    BY <1>6, SettlerFindsRows DEF VoidReservation, Settling
  <2>2. VoidLedger(k) /\ Put(s, j) /\ j.mission = m /\ j.step = "returned"
    BY <1>6 DEF VoidReservation, Returned, Job
  <2>3. RowsOf(k)' = Released /\ \A i \in Keys \ {k} : RowsOf(i)' = RowsOf(i)
    BY <1>a, <2>1, <2>2 DEF VoidLedger, SettleLedger, QuoteLockTypeOK, RowsOf, HalfReleased,
                            Released
  <2>4. FindsItsRows(j)' /\ UNCHANGED budget
    BY <2>2 DEF FindsItsRows, VoidLedger, SettleLedger
  <2> QED BY <2>1, <2>2, <2>3, <2>4, SettlerFlowLock
<1>7. CASE Tick \/ Crash \/ UNCHANGED vars
  <2>1. UNCHANGED <<budget, quote, reservation, ledger>>
    BY <1>7 DEF Tick, Crash, vars, rows
  <2>2. \A s \in Slots : job'[s] = job[s] \/ ~ Settling(job'[s])
    BY <1>7 DEF Tick, Crash, vars, NoJob, Job, Settling
  <2> QED BY <1>b, <2>1, <2>2, QuietFlowLock
<1> QED BY <1>1, <1>2, <1>3, <1>4, <1>5, <1>6, <1>7 DEF Next

(***************************************************************************)
(* A step of a request is a step of the abstract lock or none of it.       *)
(***************************************************************************)
LEMMA FlowLockStep ==
  ASSUME TypeOK, FlowLockInv, [Next]_vars
  PROVE  Abstract!Next \/ UNCHANGED Abstract!vars
<1>a. QuoteLockTypeOK /\ Price \in Nat /\ \A m \in Missions : KeyOf(m) \in Keys /\ KeyOf(m)[1] = m
  BY KeyType, MissionFlowAssumption DEF TypeOK, KeyOf
<1>b. Keys = Abstract!Keys
  BY DEF Keys, Abstract!Keys
<1>1. ASSUME NEW s \in Slots, NEW m \in Missions, NEW r \in Resources, NEW b \in Budgets,
             CreateMission(s, m, r, b)
      PROVE  Abstract!Next
  <2>1. Abstract!SetBudget(m, b)
    BY <1>1, UntouchedIsSilent DEF CreateMission, EnsureMission, Abstract!SetBudget
  <2> QED BY <2>1 DEF Abstract!Next
<1>2. ASSUME NEW s \in Slots, NEW m \in Missions, LockReserves(s, m) PROVE Abstract!Next
  <2> PICK k \in Keys, l \in Budgets : k = KeyOf(m) /\ l = budget[m]
    BY <1>2, <1>a, LockFindsUnused
  <2>1. RowsOf(k) = Unused /\ ReserveQuoteAndBudget(k, Price, l)
    BY <1>2, LockFindsUnused
  <2>2. Abstract!Hold(k, Price, l)
    BY <1>a, <2>1, ReservingHolds DEF Abstract!Hold
  <2> QED BY <1>b, <2>2 DEF Abstract!Next
<1>3. ASSUME NEW s \in Slots, VoidReservation(s) PROVE Abstract!Next
  <2> PICK k \in Keys : k = KeyOf(job[s].mission) /\ RowsOf(k) = HalfReleased
    BY <1>3, SettlerFindsRows DEF VoidReservation, Settling
  <2>1. Abstract!GiveBack(k)
    BY <1>3, <1>a, VoidingGivesBack DEF VoidReservation, Abstract!GiveBack
  <2> QED BY <1>b, <2>1 DEF Abstract!Next
<1>4. ASSUME NEW s \in Slots, CawRequiresFallback(s) PROVE UNCHANGED Abstract!vars
  <2> PICK k \in Keys : k = KeyOf(job[s].mission) /\ RowsOf(k) = Reserved
    BY <1>4, SettlerFindsRows DEF CawRequiresFallback, Settling
  <2>1. SetReservation(k, "released")
    BY <1>4 DEF CawRequiresFallback
  <2> QED BY <1>a, <2>1, MarkingIsSilent DEF Abstract!vars
<1>5. ASSUME NEW s \in Slots, NEW m \in Missions, LockRefuses(s, m) PROVE UNCHANGED Abstract!vars
  <2>1. UNCHANGED <<budget, reservation, ledger>>
    BY <1>5, <1>a DEF LockRefuses, RefuseReservation, EnsureMission, QuoteLockTypeOK
  <2> QED BY <2>1, UntouchedIsSilent DEF Abstract!vars
<1>6. ASSUME UNCHANGED rows PROVE UNCHANGED Abstract!vars
  BY <1>6, UntouchedIsSilent DEF rows, Abstract!vars
<1>7. ASSUME NEW s \in Slots, NEW m \in Missions, LayerRejects(s, m) \/ InsertFallbackReceipt(s, m)
      PROVE  UNCHANGED rows
  BY <1>7 DEF LayerRejects, InsertFallbackReceipt
<1>8. ASSUME NEW s \in Slots,
             \/ RecordMissionResource(s) \/ ResourceEventExists(s) \/ UpdateMissionStatus(s)
             \/ UpsertDualReceipt(s) \/ MarkBlocked(s)
      PROVE  UNCHANGED rows
  BY <1>8 DEF RecordMissionResource, ResourceEventExists, UpdateMissionStatus,
              UpsertDualReceipt, MarkBlocked
<1>9. CASE Tick \/ Crash \/ UNCHANGED vars
  <2>1. UNCHANGED rows
    BY <1>9 DEF Tick, Crash, vars
  <2> QED BY <1>6, <2>1
<1> QED BY <1>1, <1>2, <1>3, <1>4, <1>5, <1>6, <1>7, <1>8, <1>9 DEF Next

(***************************************************************************)
(* The API implements the abstract lock too: whatever creates move budgets *)
(* and whatever crashes cut releases short, a quote is held once, within   *)
(* the budget of that moment, and its budget is given back at most once.   *)
(***************************************************************************)
THEOREM FlowImplementsLock == Spec => ImplementsBudgetLock
<1>1. Init => FlowLockInv /\ Abstract!Init
  <2> SUFFICES ASSUME Init PROVE FlowLockInv /\ Abstract!Init
    OBVIOUS
  <2>1. \A m \in Missions : budget[m] = NoMission /\ RowsOf(KeyOf(m)) = Unused
    BY KeyType DEF Init, QuoteLockInit, RowsOf, NoLedgerRow, Unused
  <2>2. \A s \in Slots : ~ Settling(job[s])
    BY DEF Init, NoJob, Job, Settling
  <2>3. FlowLockInv
    BY <2>1, <2>2 DEF FlowLockInv, FindsItsRows, OneSettles, Settling
  <2>4. Abstract!Init
    BY InitialLock DEF Init, Abstract!Init, Abstract!Keys, Keys
  <2> QED BY <2>3, <2>4
<1>2. FlowInv /\ FlowLockInv /\ [Next]_vars => FlowLockInv' /\ [Abstract!Next]_(Abstract!vars)
  BY NextFlowLock, FlowLockStep DEF FlowInv
<1> QED BY <1>1, <1>2, FlowInvariant, PTL DEF Spec, ImplementsBudgetLock, Abstract!Spec
-----------------------------------------------------------------------------
LEMMA ExportStepIsFlowStep == [ExportNext]_flowVars => [Next]_vars
BY DEF ExportNext, Next, flowVars, DryRun, LayerRejection, LockRefusal, ContextIssued,
       CreateRecordsResource, FallbackRequired

(***************************************************************************)
(* The export's actions are those of MissionFlow with the event that each  *)
(* records, so that all that is proved of MissionFlow holds with them.     *)
(***************************************************************************)
THEOREM ExportImplementsFlow == ExportSpec => Spec
<1>1. ExportInit => Init
  BY DEF ExportInit
<1> QED BY <1>1, ExportStepIsFlowStep, PTL DEF ExportSpec, Spec

(***************************************************************************)
(* What the two properties of the export rest on.  The last event is in    *)
(* the list, and no other is later.  While no create asked for another     *)
(* resource since the payment context was made, all that was recorded      *)
(* since names its resource, and before there was one there was no         *)
(* decision of the guard, no receipt and no call of the wallet.            *)
(***************************************************************************)
Recorded ==
  [layer : {"dry_run", "guard"}, decision : {"block", "fallback_required"},
   resource : Resources, at : 1..now]

EventsTyped ==
  /\ issued \in [Missions -> 0..now]
  /\ events \in [Missions -> SUBSET Recorded]
  /\ last = [m \in Missions |-> last[m]]

LastIsLatest ==
  \A m \in Missions :
    IF AllEvents(m) = {} THEN last[m] = NoEvent
    ELSE last[m] \in AllEvents(m) /\ \A e \in AllEvents(m) : e.at <= last[m].at

IsDecision(e) == e.layer = "guard" /\ e.decision = "fallback_required"

Unbound(m) ==
  /\ receipt[m] = NoReceipt /\ dual[m] = {}
  /\ \A e \in events[m] : ~ IsDecision(e)
  /\ \A s \in Slots : job[s].step = "caw" => job[s].mission # m

InStep(m) ==
  /\ MissionResource(m) = context[m]
  /\ \A e \in events[m] :
       /\ e.at > issued[m] => e.resource = context[m]
       /\ IsDecision(e) => e.resource = context[m] /\ e.at >= issued[m]
  /\ receipt[m] = NoReceipt \/ receipt[m].resource = context[m]
  /\ \A d \in dual[m] : d.resource = context[m]

ExportBound ==
  \A m \in Missions :
    IF context[m] = NoResource THEN Unbound(m) ELSE AskedAgain(m) \/ InStep(m)

(***************************************************************************)
(* A step records nothing, an event of the guard or of a dry run, or the   *)
(* event of a create.                                                      *)
(***************************************************************************)
RecordsEvent(m, e) ==
  /\ Record(m, e)
  /\ e.at = now
  /\ IF IsDecision(e) THEN e.resource = context[m] ELSE e.resource = MissionResource(m)
  /\ UNCHANGED <<requested, now>>

RecordsRequest(m, r) ==
  /\ requested[m][r] = Never
  /\ requested' = [requested EXCEPT ![m][r] = now]
  /\ last' = [last EXCEPT ![m] = ResourceEvent(r, now)]
  /\ UNCHANGED <<events, now, issued, context, receipt, dual>>

LEMMA ExportMoves ==
  ASSUME FlowInv, ExportBound, [ExportNext]_flowVars
  PROVE  \/ UNCHANGED <<events, last, requested>>
         \/ \E m \in Missions, e \in Recorded : RecordsEvent(m, e)
         \/ \E m \in Missions, r \in Resources : RecordsRequest(m, r)
<1> DEFINE Quiet == UNCHANGED <<events, last, requested>>
<1>t. TypeOK /\ now \in Nat \ {0}
  BY MissionFlowAssumption DEF FlowInv, TypeOK
<1>r. \A m \in Missions : MissionResource(m) \in Resources
  BY <1>t, LastResource
<1>1. ASSUME NEW m \in Missions, NEW d \in {"block", "fallback_required"}, NEW r \in Resources
      PROVE  /\ GuardEvent(d, r) \in Recorded /\ GuardEvent(d, r).at = now
             /\ GuardEvent(d, r).resource = r
             /\ IsDecision(GuardEvent(d, r)) <=> d = "fallback_required"
             /\ DryRunEvent(r) \in Recorded /\ DryRunEvent(r).at = now
             /\ DryRunEvent(r).resource = r /\ ~ IsDecision(DryRunEvent(r))
  BY <1>t DEF Recorded, GuardEvent, DryRunEvent, Event, IsDecision
<1>2. ASSUME NEW m \in Missions, DryRun(m)
      PROVE  \E e \in Recorded : RecordsEvent(m, e)
  <2>1. Record(m, DryRunEvent(MissionResource(m))) /\ UNCHANGED <<requested, now>>
    BY <1>2 DEF DryRun, vars, api
  <2> QED BY <2>1, <1>1, <1>r DEF RecordsEvent
<1>3. ASSUME NEW m \in Missions, NEW s \in Slots, LayerRejection(s, m) \/ LockRefusal(s, m)
      PROVE  \E e \in Recorded : RecordsEvent(m, e)
  <2>1. Record(m, GuardEvent("block", MissionResource(m))) /\ UNCHANGED <<requested, now>>
    BY <1>3 DEF LayerRejection, LayerRejects, LockRefusal, LockRefuses, api
  <2>2. /\ GuardEvent("block", MissionResource(m)) \in Recorded
        /\ GuardEvent("block", MissionResource(m)).at = now
        /\ GuardEvent("block", MissionResource(m)).resource = MissionResource(m)
        /\ ~ IsDecision(GuardEvent("block", MissionResource(m)))
    BY <1>1, <1>r
  <2> QED BY <2>1, <2>2 DEF RecordsEvent
<1>4. ASSUME NEW s \in Slots, FallbackRequired(s)
      PROVE  \E m \in Missions, e \in Recorded : RecordsEvent(m, e)
  <2>1. PICK m : m = job[s].mission
    OBVIOUS
  <2>2. /\ Record(m, GuardEvent("fallback_required", context[m])) /\ UNCHANGED <<requested, now>>
        /\ job[s].step = "caw" /\ job[s].mission = m
    BY <1>4, <2>1 DEF FallbackRequired, CawRequiresFallback, api
  <2>3. m \in Missions
    BY <2>2, <1>t DEF TypeOK, JobsOK, JobOK
  <2>4. context[m] \in Resources
    BY <2>2, <2>3, <1>t DEF ExportBound, Unbound, TypeOK
  <2>5. /\ GuardEvent("fallback_required", context[m]) \in Recorded
        /\ GuardEvent("fallback_required", context[m]).at = now
        /\ GuardEvent("fallback_required", context[m]).resource = context[m]
        /\ IsDecision(GuardEvent("fallback_required", context[m]))
    BY <1>1, <2>3, <2>4
  <2> QED BY <2>2, <2>3, <2>5 DEF RecordsEvent
<1>5. ASSUME NEW s \in Slots, CreateRecordsResource(s)
      PROVE  \E m \in Missions, r \in Resources : RecordsRequest(m, r)
  <2>1. PICK m, r : m = job[s].mission /\ r = job[s].resource
    OBVIOUS
  <2>2. job[s].step = "resource"
    BY <1>5 DEF CreateRecordsResource, RecordMissionResource
  <2>3. m \in Missions /\ r \in Resources /\ job[s].at = now
    BY <2>1, <2>2 DEF FlowInv, TypeOK, JobsOK, JobOK, JobsAreNow
  <2>4. /\ requested[m][r] = Never
        /\ requested' = [requested EXCEPT ![m][r] = now]
        /\ last' = [last EXCEPT ![m] = ResourceEvent(r, now)]
        /\ UNCHANGED <<events, now, issued, context, receipt, dual>>
    BY <1>5, <2>1, <2>3 DEF CreateRecordsResource, RecordMissionResource
  <2> QED BY <2>3, <2>4 DEF RecordsRequest
<1>6. ASSUME NEW s \in Slots, NEW m \in Missions,
             ContextIssued(s, m) \/ (InsertFallbackReceipt(s, m) /\ Silent)
             \/ \E r \in Resources, b \in Budgets : CreateMission(s, m, r, b) /\ Silent
      PROVE  Quiet
  BY <1>6 DEF ContextIssued, LockReserves, InsertFallbackReceipt, CreateMission, Silent, exportVars
<1>7. ASSUME NEW s \in Slots,
             (ResourceEventExists(s) \/ VoidReservation(s) \/ UpdateMissionStatus(s)
              \/ UpsertDualReceipt(s) \/ MarkBlocked(s)) /\ Silent
      PROVE  Quiet
  BY <1>7 DEF ResourceEventExists, VoidReservation, UpdateMissionStatus, UpsertDualReceipt, MarkBlocked,
              Silent, exportVars, api
<1>8. CASE ((Tick \/ Crash) /\ Silent) \/ UNCHANGED flowVars
  BY <1>8 DEF Tick, Crash, Silent, flowVars, exportVars, vars, api
<1> QED BY <1>2, <1>3, <1>4, <1>5, <1>6, <1>7, <1>8 DEF ExportNext

LEMMA NextEventsTyped ==
  ASSUME FlowInv, FlowInv', EventsTyped, ExportBound, [ExportNext]_flowVars
  PROVE  EventsTyped'
<1>t. now \in Nat /\ now' \in Nat
  BY MissionFlowAssumption DEF FlowInv, TypeOK
<1>1. now <= now'
  <2>1. ASSUME NEW s \in Slots, NEW m \in Missions, \E r \in Resources, b \in Budgets : CreateMission(s, m, r, b)
        PROVE  now' = now
    BY <2>1 DEF CreateMission
  <2>2. ASSUME NEW s \in Slots, NEW m \in Missions,
               LayerRejects(s, m) \/ LockRefuses(s, m) \/ LockReserves(s, m) \/ InsertFallbackReceipt(s, m)
        PROVE  now' = now
    BY <2>2 DEF LayerRejects, LockRefuses, LockReserves, InsertFallbackReceipt
  <2>3. ASSUME NEW s \in Slots,
               \/ RecordMissionResource(s) \/ ResourceEventExists(s) \/ CawRequiresFallback(s)
               \/ VoidReservation(s) \/ UpdateMissionStatus(s) \/ UpsertDualReceipt(s) \/ MarkBlocked(s)
        PROVE  now' = now
    BY <2>3 DEF RecordMissionResource, ResourceEventExists, CawRequiresFallback, VoidReservation,
                UpdateMissionStatus, UpsertDualReceipt, MarkBlocked
  <2>4. now' = now \/ now' = now + 1
    BY <2>1, <2>2, <2>3, ExportStepIsFlowStep DEF Next, vars, Tick, Crash
  <2> QED BY <2>4, <1>t
<1>2. Recorded \subseteq Recorded'
  BY <1>1, <1>t DEF Recorded
<1>3. issued' \in [Missions -> 0..now']
  <2>1. UNCHANGED issued \/ \E m \in Missions : issued' = [issued EXCEPT ![m] = now]
    BY DEF ExportNext, flowVars, exportVars, Silent, DryRun, LayerRejection, LockRefusal, ContextIssued,
           CreateRecordsResource, FallbackRequired
  <2> QED BY <2>1, <1>t, <1>1 DEF EventsTyped
<1>4. /\ events' \in [Missions -> SUBSET Recorded']
      /\ last' = [n \in Missions |-> last'[n]]
  <2>1. CASE UNCHANGED <<events, last, requested>>
    BY <2>1, <1>2 DEF EventsTyped
  <2>2. ASSUME NEW m \in Missions, NEW e \in Recorded, RecordsEvent(m, e)
        PROVE  /\ events' \in [Missions -> SUBSET Recorded']
               /\ last' = [n \in Missions |-> last'[n]]
    BY <2>2, <1>2 DEF EventsTyped, RecordsEvent, Record
  <2>3. ASSUME NEW m \in Missions, NEW r \in Resources, RecordsRequest(m, r)
        PROVE  /\ events' \in [Missions -> SUBSET Recorded']
               /\ last' = [n \in Missions |-> last'[n]]
    BY <2>3, <1>2 DEF EventsTyped, RecordsRequest
  <2> QED BY <2>1, <2>2, <2>3, ExportMoves
<1> QED BY <1>3, <1>4 DEF EventsTyped

LEMMA EventTimes ==
  ASSUME FlowInv, EventsTyped, NEW m \in Missions, NEW e \in AllEvents(m)
  PROVE  e.at \in 1..now
<1>1. CASE e \in events[m]
  BY <1>1 DEF EventsTyped, Recorded
<1>2. CASE \E r \in Requested(m) : e = ResourceEvent(r, requested[m][r])
  BY <1>2, MissionFlowAssumption DEF Requested, ResourceEvent, Event, FlowInv, TypeOK, Never
<1> QED BY <1>1, <1>2 DEF AllEvents

LEMMA NextLastIsLatest ==
  ASSUME FlowInv, EventsTyped, ExportBound, LastIsLatest, [ExportNext]_flowVars
  PROVE  LastIsLatest'
<1>1. CASE UNCHANGED <<events, last, requested>>
  BY <1>1 DEF LastIsLatest, AllEvents, Requested
<1>2. ASSUME NEW m \in Missions, NEW e,
             AllEvents(m)' = AllEvents(m) \cup {e}, last' = [last EXCEPT ![m] = e], e.at = now,
             \A n \in Missions \ {m} : AllEvents(n)' = AllEvents(n)
      PROVE  LastIsLatest'
  <2>1. now \in Nat
    BY MissionFlowAssumption DEF FlowInv, TypeOK
  <2>2. \A f \in AllEvents(m) : f.at <= now
    BY EventTimes, <2>1
  <2>3. last'[m] = e /\ \A n \in Missions \ {m} : last'[n] = last[n]
    BY <1>2 DEF EventsTyped
  <2> HIDE DEF AllEvents
  <2> QED BY <1>2, <2>1, <2>2, <2>3 DEF LastIsLatest
<1>3. ASSUME NEW m \in Missions, NEW e \in Recorded, RecordsEvent(m, e) PROVE LastIsLatest'
  <2>1. /\ events' = [events EXCEPT ![m] = @ \cup {e}] /\ last' = [last EXCEPT ![m] = e]
        /\ e.at = now /\ UNCHANGED requested
    BY <1>3 DEF RecordsEvent, Record
  <2>2. AllEvents(m)' = AllEvents(m) \cup {e}
    BY <2>1 DEF AllEvents, Requested, EventsTyped
  <2>3. \A n \in Missions \ {m} : AllEvents(n)' = AllEvents(n)
    BY <2>1 DEF AllEvents, Requested, EventsTyped
  <2> QED BY <2>1, <2>2, <2>3, <1>2
<1>4. ASSUME NEW m \in Missions, NEW r \in Resources, RecordsRequest(m, r) PROVE LastIsLatest'
  <2>1. /\ requested[m][r] = Never /\ requested' = [requested EXCEPT ![m][r] = now]
        /\ last' = [last EXCEPT ![m] = ResourceEvent(r, now)] /\ UNCHANGED events
    BY <1>4 DEF RecordsRequest
  <2>2. requested \in [Missions -> [Resources -> 0..now]] /\ now # Never
    BY MissionFlowAssumption DEF FlowInv, TypeOK, Never
  <2>3. /\ Requested(m)' = Requested(m) \cup {r} /\ r \notin Requested(m)
        /\ requested'[m][r] = now /\ \A q \in Requested(m) : requested'[m][q] = requested[m][q]
    BY <2>1, <2>2 DEF Requested
  <2>4. AllEvents(m)' = AllEvents(m) \cup {ResourceEvent(r, now)}
    BY <2>1, <2>3 DEF AllEvents
  <2>5. \A n \in Missions \ {m} : AllEvents(n)' = AllEvents(n)
    BY <2>1, <2>2 DEF AllEvents, Requested
  <2>6. ResourceEvent(r, now).at = now
    BY DEF ResourceEvent, Event
  <2> QED BY <2>1, <2>4, <2>5, <2>6, <1>2
<1> QED BY <1>1, <1>3, <1>4, ExportMoves

(***************************************************************************)
(* Only LockReserves starts a call of the wallet.                          *)
(***************************************************************************)
CallsStay ==
  \A s \in Slots : job'[s].step = "caw" => job[s].step = "caw" /\ job'[s].mission = job[s].mission

LEMMA PutStaysQuiet ==
  ASSUME FlowInv, NEW s \in Slots, NEW j, Put(s, j), j.step # "caw"
  PROVE  CallsStay
BY DEF Put, CallsStay, FlowInv, TypeOK, JobsOK

LEMMA QuietStepBound ==
  ASSUME FlowInv, EventsTyped, ExportBound, CallsStay,
         UNCHANGED <<requested, context, issued, receipt, dual>>,
         UNCHANGED events \/ \E m \in Missions, e \in Recorded : RecordsEvent(m, e)
  PROVE  ExportBound'
<1> SUFFICES ASSUME NEW n \in Missions
             PROVE  (IF context[n] = NoResource THEN Unbound(n) ELSE AskedAgain(n) \/ InStep(n))'
  BY DEF ExportBound
<1>1. ASSUME NEW e \in events'[n], e \notin events[n]
      PROVE  /\ e.at = now /\ e.resource \in Resources
             /\ IF IsDecision(e) THEN e.resource = context[n] ELSE e.resource = MissionResource(n)
  BY <1>1 DEF RecordsEvent, Record, EventsTyped, Recorded
<1>2. MissionResource(n)' = MissionResource(n) /\ AskedAgain(n)' = AskedAgain(n)
  BY DEF MissionResource, Requested, Before, AskedAgain
<1>3. NoResource \notin Resources
  BY MissionFlowAssumption DEF NoResource
<1>4. CASE context[n] = NoResource
  <2>1. Unbound(n)
    BY <1>4 DEF ExportBound
  <2>2. \A e \in events'[n] : ~ IsDecision(e)
    BY <1>1, <1>3, <1>4, <2>1 DEF Unbound
  <2> QED BY <1>4, <2>1, <2>2 DEF Unbound, CallsStay
<1>5. CASE AskedAgain(n) /\ context[n] # NoResource
  BY <1>2, <1>5
<1>6. CASE InStep(n) /\ context[n] # NoResource
  <2>1. issued[n] <= now /\ issued[n] \in Nat /\ now \in Nat
    BY MissionFlowAssumption DEF EventsTyped, FlowInv, TypeOK
  <2>2. ASSUME NEW e \in events'[n]
        PROVE  /\ e.at > issued[n] => e.resource = context[n]
               /\ IsDecision(e) => e.resource = context[n] /\ e.at >= issued[n]
    <3>1. CASE e \in events[n]
      BY <1>6, <3>1 DEF InStep
    <3>2. CASE e \notin events[n]
      BY <1>1, <1>6, <2>1, <3>2 DEF InStep
    <3> QED BY <3>1, <3>2
  <2>3. InStep(n)'
    BY <1>2, <1>6, <2>2 DEF InStep
  <2> QED BY <1>6, <2>3
<1> QED BY <1>4, <1>5, <1>6 DEF ExportBound

LEMMA IssueBound ==
  ASSUME FlowInv, EventsTyped, ExportBound, NEW s \in Slots, NEW m \in Missions, ContextIssued(s, m)
  PROVE  ExportBound'
<1>1. /\ context' = [context EXCEPT ![m] = MissionResource(m)]
      /\ issued' = [issued EXCEPT ![m] = now]
      /\ Put(s, Job("caw", m, NoResource, Never, "none"))
      /\ UNCHANGED <<requested, receipt, dual, events>>
  BY DEF ContextIssued, LockReserves
<1>2. context[m] = NoResource
  BY DEF ContextIssued, LockReserves, ReserveQuoteAndBudget, FlowInv, ContextHasQuote
<1>3. Unbound(m)
  BY <1>2 DEF ExportBound
<1>4. MissionResource(m) \in Resources /\ NoResource \notin Resources
  BY LastResource, MissionFlowAssumption DEF FlowInv, NoResource
<1>5. context'[m] = MissionResource(m) /\ issued'[m] = now
  BY <1>1 DEF FlowInv, TypeOK, EventsTyped
<1>6. \A n \in Missions : MissionResource(n)' = MissionResource(n)
  BY <1>1 DEF MissionResource, Requested, Before
<1>7. \A e \in events[m] : ~ (e.at > now)
  BY MissionFlowAssumption DEF EventsTyped, Recorded, FlowInv, TypeOK
<1>8. InStep(m)'
  BY <1>1, <1>3, <1>5, <1>6, <1>7 DEF InStep, Unbound
<1>9. ASSUME NEW n \in Missions \ {m}
      PROVE  (IF context[n] = NoResource THEN Unbound(n) ELSE AskedAgain(n) \/ InStep(n))'
  <2>1. context'[n] = context[n] /\ issued'[n] = issued[n]
    BY <1>1 DEF FlowInv, TypeOK, EventsTyped
  <2>2. \A t \in Slots : job'[t] = job[t] \/ job'[t].mission = m
    BY <1>1 DEF Put, Job, FlowInv, TypeOK, JobsOK
  <2>3. IF context[n] = NoResource THEN Unbound(n) ELSE AskedAgain(n) \/ InStep(n)
    BY DEF ExportBound
  <2> QED BY <1>1, <1>6, <2>1, <2>2, <2>3 DEF Unbound, AskedAgain, InStep, Requested
<1> QED BY <1>4, <1>5, <1>8, <1>9 DEF ExportBound

LEMMA ReceiptBound ==
  ASSUME FlowInv, EventsTyped, ExportBound, CallsStay, NEW m \in Missions, context[m] # NoResource,
         UNCHANGED <<requested, context, issued, events>>,
         \A n \in Missions \ {m} : receipt'[n] = receipt[n] /\ dual'[n] = dual[n],
         InStep(m) => /\ receipt'[m] = NoReceipt \/ receipt'[m].resource = context[m]
                      /\ \A d \in dual'[m] : d.resource = context[m]
  PROVE  ExportBound'
<1> SUFFICES ASSUME NEW n \in Missions
             PROVE  (IF context[n] = NoResource THEN Unbound(n) ELSE AskedAgain(n) \/ InStep(n))'
  BY DEF ExportBound
<1>1. MissionResource(n)' = MissionResource(n) /\ AskedAgain(n)' = AskedAgain(n)
  BY DEF MissionResource, Requested, Before, AskedAgain
<1>2. IF context[n] = NoResource THEN Unbound(n) ELSE AskedAgain(n) \/ InStep(n)
  BY DEF ExportBound
<1>3. CASE n = m
  BY <1>1, <1>2, <1>3 DEF InStep
<1>4. CASE n # m
  BY <1>1, <1>2, <1>4 DEF InStep, Unbound, CallsStay
<1> QED BY <1>3, <1>4

LastOf(times) ==
  LET set == {r \in Resources : times[r] # Never} IN
  IF set = {} THEN Default
  ELSE CHOOSE r \in set : \A q \in set \ {r} : times[q] < times[r] \/ (times[q] = times[r] /\ q > r)

LEMMA RequestBound ==
  ASSUME FlowInv, FlowInv', EventsTyped, ExportBound, CallsStay,
         NEW m \in Missions, NEW r \in Resources, RecordsRequest(m, r)
  PROVE  ExportBound'
<1> SUFFICES ASSUME NEW n \in Missions
             PROVE  (IF context[n] = NoResource THEN Unbound(n) ELSE AskedAgain(n) \/ InStep(n))'
  BY DEF ExportBound
<1>1. /\ requested[m][r] = Never /\ requested' = [requested EXCEPT ![m][r] = now]
      /\ UNCHANGED <<events, now, issued, context, receipt, dual>>
  BY DEF RecordsRequest
<1>2. /\ requested \in [Missions -> [Resources -> 0..now]] /\ now # Never
      /\ issued[n] <= now
  BY MissionFlowAssumption DEF FlowInv, TypeOK, Never, EventsTyped
<1>3. /\ Requested(m)' = Requested(m) \cup {r} /\ r \notin Requested(m)
      /\ requested'[m][r] = now /\ \A q \in Requested(m) : requested'[m][q] = requested[m][q]
  BY <1>1, <1>2 DEF Requested
<1>4. IF context[n] = NoResource THEN Unbound(n) ELSE AskedAgain(n) \/ InStep(n)
  BY DEF ExportBound
<1>5. CASE n # m
  <2>1. requested'[n] = requested[n]
    BY <1>1, <1>2, <1>5
  <2>2. MissionResource(n)' = MissionResource(n)
    <3>1. MissionResource(n) = LastOf(requested[n])
      BY DEF MissionResource, Requested, Before, LastOf
    <3>2. MissionResource(n)' = LastOf(requested'[n])
      BY DEF MissionResource, Requested, Before, LastOf
    <3> QED BY <2>1, <3>1, <3>2
  <2>3. AskedAgain(n)' <=> AskedAgain(n)
    BY <1>1, <2>1 DEF Requested, AskedAgain
  <2> QED BY <1>1, <1>4, <2>2, <2>3 DEF InStep, Unbound, CallsStay
<1>6. CASE n = m /\ context[m] = NoResource
  BY <1>1, <1>4, <1>6 DEF Unbound, CallsStay
<1>7. CASE n = m /\ context[m] # NoResource /\ AskedAgain(m)
  BY <1>1, <1>3, <1>7 DEF AskedAgain
<1>8. CASE n = m /\ context[m] # NoResource /\ r # context[m]
  BY <1>1, <1>2, <1>3, <1>8 DEF AskedAgain
<1>9. CASE n = m /\ InStep(m) /\ context[m] # NoResource /\ r = context[m]
  <2>1. MissionResource(m) = r
    BY <1>9 DEF InStep
  <2>2. Requested(m) = {}
    BY <1>3, <2>1, LastResource DEF FlowInv
  <2>3. Requested(m)' = {r}
    BY <1>3, <2>2
  <2>4. TypeOK'
    BY DEF FlowInv
  <2>5. MissionResource(m)' \in Requested(m)'
    <3>1. Requested(m)' # {} /\ \A q \in Requested(m)' \ {r} : FALSE
      BY <2>3
    <3> QED BY <2>3, <3>1 DEF MissionResource
  <2>6. MissionResource(m)' = r
    BY <2>3, <2>5
  <2> QED BY <1>1, <1>9, <2>6 DEF InStep
<1> QED BY <1>4, <1>5, <1>6, <1>7, <1>8, <1>9

LEMMA NextExportBound ==
  ASSUME FlowInv, FlowInv', EventsTyped, ExportBound, [ExportNext]_flowVars
  PROVE  ExportBound'
<1>1. NoJob.step # "caw"
  BY DEF NoJob, Job
<1>2. ASSUME UNCHANGED <<requested, context, issued, receipt, dual, events>>, CallsStay PROVE ExportBound'
  BY <1>2, QuietStepBound
<1>3. ASSUME NEW s \in Slots, NEW m \in Missions,
             \E r \in Resources, b \in Budgets : CreateMission(s, m, r, b) /\ Silent
      PROVE  ExportBound'
  <2>1. PICK r : Put(s, Job("resource", m, r, now, "none"))
    BY <1>3 DEF CreateMission
  <2>2. CallsStay
    BY <2>1, PutStaysQuiet DEF Job
  <2> QED BY <2>2, <1>2, <1>3 DEF CreateMission, Silent, exportVars
<1>4. ASSUME NEW s \in Slots, NEW m \in Missions, LayerRejection(s, m) \/ LockRefusal(s, m)
      PROVE  ExportBound'
  <2>1. Put(s, Job("returned", m, NoResource, Never, "block"))
    BY <1>4 DEF LayerRejection, LayerRejects, LockRefusal, LockRefuses, Returned
  <2>2. CallsStay
    BY <2>1, PutStaysQuiet DEF Job
  <2>3. UNCHANGED <<requested, context, issued, receipt, dual>>
    BY <1>4 DEF LayerRejection, LayerRejects, LockRefusal, LockRefuses, api
  <2>4. UNCHANGED events \/ \E n \in Missions, e \in Recorded : RecordsEvent(n, e)
    BY ExportMoves DEF RecordsRequest
  <2> QED BY <2>2, <2>3, <2>4, QuietStepBound
<1>5. ASSUME NEW s \in Slots, NEW m \in Missions, ContextIssued(s, m) PROVE ExportBound'
  BY <1>5, IssueBound
<1>6. ASSUME NEW s \in Slots, NEW m \in Missions, InsertFallbackReceipt(s, m), Silent PROVE ExportBound'
  <2>1. /\ receipt' = [receipt EXCEPT ![m] = [resource |-> MissionResource(m), at |-> now]]
        /\ Put(s, Job("dual", m, MissionResource(m), now, "none"))
        /\ context[m] # NoResource
        /\ UNCHANGED <<requested, context, issued, dual, events>>
    BY <1>6 DEF InsertFallbackReceipt, Silent, exportVars
  <2>2. CallsStay
    BY <2>1, PutStaysQuiet DEF Job
  <2>3. receipt'[m].resource = MissionResource(m) /\ \A n \in Missions \ {m} : receipt'[n] = receipt[n]
    BY <2>1 DEF FlowInv, TypeOK
  <2> QED BY <2>1, <2>2, <2>3, ReceiptBound DEF InStep
<1>7. ASSUME NEW s \in Slots, UpsertDualReceipt(s), Silent PROVE ExportBound'
  <2>1. PICK m, r : m = job[s].mission /\ r = job[s].resource
    OBVIOUS
  <2>2. job[s].step = "dual"
    BY <1>7 DEF UpsertDualReceipt
  <2>3. m \in Missions /\ receipt[m].resource = r /\ r \in Resources
    <3>1. m \in Missions /\ r \in Resources /\ receipt[m] = [resource |-> r, at |-> now]
      BY <2>1, <2>2, DualIsVerified DEF FlowInv
    <3> QED BY <3>1
  <2>4. DualReceipt(m, r, job[s].at).resource = r
    BY DEF DualReceipt
  <2>5. /\ \A n \in Missions \ {m} : dual'[n] = dual[n]
        /\ \A d \in dual'[m] : d \in dual[m] \/ d.resource = r
        /\ Put(s, Job("blocked", m, NoResource, Never, "none"))
        /\ UNCHANGED <<requested, context, issued, receipt, events>>
    BY <1>7, <2>1, <2>3, <2>4 DEF UpsertDualReceipt, Silent, exportVars, FlowInv, TypeOK
  <2>6. CallsStay
    BY <2>5, PutStaysQuiet DEF Job
  <2>7. receipt[m] # NoReceipt
    BY <2>3, MissionFlowAssumption DEF NoReceipt, NoResource
  <2>8. context[m] # NoResource
    BY <2>3, <2>7 DEF ExportBound, Unbound
  <2> QED BY <2>3, <2>5, <2>6, <2>7, <2>8, ReceiptBound DEF InStep
<1>8. ASSUME NEW s \in Slots, CreateRecordsResource(s) PROVE ExportBound'
  <2>1. Put(s, NoJob) /\ UNCHANGED <<events, issued, context, receipt, dual>>
    BY <1>8 DEF CreateRecordsResource, RecordMissionResource
  <2>2. CallsStay
    BY <2>1, <1>1, PutStaysQuiet
  <2>3. (\E m \in Missions, r \in Resources : RecordsRequest(m, r)) \/ UNCHANGED requested
    BY ExportMoves DEF RecordsEvent
  <2> QED BY <2>1, <2>2, <2>3, <1>2, RequestBound
<1>9. ASSUME NEW s \in Slots, FallbackRequired(s) PROVE ExportBound'
  <2>1. Put(s, Job("void", job[s].mission, NoResource, Never, "none"))
    BY <1>9 DEF FallbackRequired, CawRequiresFallback
  <2>2. CallsStay
    BY <2>1, PutStaysQuiet DEF Job
  <2>3. UNCHANGED <<requested, context, issued, receipt, dual>>
    BY <1>9 DEF FallbackRequired, CawRequiresFallback, api
  <2>4. UNCHANGED events \/ \E n \in Missions, e \in Recorded : RecordsEvent(n, e)
    BY ExportMoves DEF RecordsRequest
  <2> QED BY <2>2, <2>3, <2>4, QuietStepBound
<1>10. ASSUME NEW s \in Slots, ResourceEventExists(s) \/ UpdateMissionStatus(s) \/ MarkBlocked(s), Silent
       PROVE  ExportBound'
  <2>1. Put(s, NoJob) /\ UNCHANGED <<requested, context, issued, receipt, dual, events>>
    BY <1>10 DEF ResourceEventExists, UpdateMissionStatus, MarkBlocked, Silent, exportVars, api
  <2> QED BY <2>1, <1>1, <1>2, PutStaysQuiet
<1>11. ASSUME NEW s \in Slots, VoidReservation(s), Silent PROVE ExportBound'
  <2>1. /\ Put(s, Job("returned", job[s].mission, NoResource, Never, "fallback_required"))
        /\ UNCHANGED <<requested, context, issued, receipt, dual, events>>
    BY <1>11 DEF VoidReservation, Returned, Silent, exportVars, api
  <2> QED BY <2>1, <1>2, PutStaysQuiet DEF Job
<1>12. ASSUME NEW m \in Missions, DryRun(m) PROVE ExportBound'
  <2>1. CallsStay /\ UNCHANGED <<requested, context, issued, receipt, dual>>
    BY <1>12 DEF DryRun, vars, api, CallsStay
  <2>2. UNCHANGED events \/ \E n \in Missions, e \in Recorded : RecordsEvent(n, e)
    BY ExportMoves DEF RecordsRequest
  <2> QED BY <2>1, <2>2, QuietStepBound
<1>13. CASE ((Tick \/ Crash) /\ Silent) \/ UNCHANGED flowVars
  <2>1. UNCHANGED <<requested, context, issued, receipt, dual, events>>
    BY <1>13 DEF Tick, Crash, Silent, flowVars, exportVars, vars, api
  <2>2. CallsStay
    BY <1>13, <1>1 DEF Tick, Crash, flowVars, vars, CallsStay
  <2> QED BY <2>1, <2>2, <1>2
<1> QED BY <1>3, <1>4, <1>5, <1>6, <1>7, <1>8, <1>9, <1>10, <1>11, <1>12, <1>13 DEF ExportNext

ExportInv == EventsTyped /\ LastIsLatest /\ ExportBound

LEMMA InitExport == ExportInit => ExportInv
<1> SUFFICES ASSUME ExportInit PROVE ExportInv
  OBVIOUS
<1>1. \A m \in Missions : AllEvents(m) = {}
  BY DEF ExportInit, Init, AllEvents, Requested
<1>2. EventsTyped
  BY DEF ExportInit, Init, EventsTyped, Never
<1>3. LastIsLatest
  BY <1>1 DEF ExportInit, LastIsLatest
<1>4. ExportBound
  BY DEF ExportInit, Init, ExportBound, Unbound, NoJob, Job
<1> QED BY <1>2, <1>3, <1>4 DEF ExportInv

(***************************************************************************)
(* With the events that are recorded and the exports made of them: the     *)
(* last event is in the list, and what is recorded since the payment       *)
(* context was made names its resource until a create asks for another.    *)
(***************************************************************************)
THEOREM ExportInvariant == ExportSpec => []ExportInv
<1>1. FlowInv /\ FlowInv' /\ ExportInv /\ [ExportNext]_flowVars => ExportInv'
  BY NextEventsTyped, NextLastIsLatest, NextExportBound DEF ExportInv
<1> QED BY <1>1, InitExport, ExportImplementsFlow, FlowInvariant, PTL DEF ExportSpec

(***************************************************************************)
(* The guard summary is the last event that any request recorded, or one   *)
(* of its millisecond.                                                     *)
(***************************************************************************)
THEOREM ExportLastDecisionIsShown == ExportSpec => []LastDecisionIsShown
<1>1. ASSUME FlowInv, ExportInv PROVE LastDecisionIsShown
  <2> SUFFICES ASSUME NEW m \in Missions, NEW e \in GuardSummary(m) PROVE e.at = last[m].at
    BY DEF LastDecisionIsShown
  <2>1. CASE AllEvents(m) = {}
    BY <1>1, <2>1 DEF GuardSummary, ExportInv, LastIsLatest
  <2>2. CASE AllEvents(m) # {}
    <3>1. e \in AllEvents(m) /\ ~ Precedes(e, last[m])
      BY <1>1, <2>2 DEF GuardSummary, LatestOf, ExportInv, LastIsLatest
    <3>2. last[m] \in AllEvents(m) /\ e.at <= last[m].at
      BY <1>1, <2>2, <3>1 DEF ExportInv, LastIsLatest
    <3>3. e.at \in 1..now /\ last[m].at \in 1..now /\ now \in Nat
      BY <1>1, <3>1, <3>2, EventTimes, MissionFlowAssumption DEF ExportInv, FlowInv, TypeOK
    <3>4. ~ (e.at < last[m].at)
      BY <3>1 DEF Precedes
    <3> QED BY <3>2, <3>3, <3>4
  <2> QED BY <2>1, <2>2
<1>2. FlowInv /\ ExportInv => LastDecisionIsShown
  BY <1>1
<1> QED BY <1>2, ExportInvariant, ExportImplementsFlow, FlowInvariant, PTL

(***************************************************************************)
(* The recorded events of a mission have a latest, at least as late as any.*)
(***************************************************************************)
LEMMA LatestEvent ==
  ASSUME FlowInv, EventsTyped, NEW m \in Missions, NEW f \in events[m]
  PROVE  \E e \in LatestOf(events[m]) : e \in events[m] /\ f.at <= e.at
<1> DEFINE Key(e) == 2 * (now - e.at) + (IF e.layer = "guard" THEN 0 ELSE 1)
           T == {Key(e) : e \in events[m]}
<1>1. now \in Nat
  BY MissionFlowAssumption DEF FlowInv, TypeOK
<1>2. \A e \in events[m] : e.layer \in {"dry_run", "guard"} /\ e.at \in 1..now
  BY DEF EventsTyped, Recorded
<1>3. T \subseteq Nat /\ T # {}
  BY <1>1, <1>2
<1>4. PICK k \in T : \A y \in T : k <= y
  <2> HIDE DEF T
  <2> QED BY <1>3, LeastNatural
<1>5. PICK e \in events[m] : \A g \in events[m] : Key(e) <= Key(g)
  BY <1>4
<1>6. ASSUME NEW g \in events[m] PROVE ~ Precedes(e, g) /\ g.at <= e.at
  <2>1. Key(e) <= Key(g)
    BY <1>5
  <2>2. g.at <= e.at /\ (g.at = e.at => e.layer = "guard" \/ g.layer = "dry_run")
    BY <1>1, <1>2, <2>1
  <2>3. g.at = e.at => ~ (IdOrder[e.layer] < IdOrder[g.layer])
    BY <1>2, <2>2 DEF IdOrder
  <2> QED BY <1>1, <1>2, <2>2, <2>3 DEF Precedes
<1>7. e \in LatestOf(events[m])
  BY <1>6 DEF LatestOf
<1> QED BY <1>6, <1>7

(***************************************************************************)
(* An export tells of several resources only if a create asked for another *)
(* one since the payment context was made, or its guard did not decide.    *)
(***************************************************************************)
THEOREM ExportMixedIsExplained == ExportSpec => []MixedExportIsExplained
<1>1. ASSUME FlowInv, ExportInv PROVE MixedExportIsExplained
  <2> SUFFICES ASSUME NEW m \in Missions, ExportIsMixed(m), ~ AskedAgain(m), ~ Undecided(m)
               PROVE  FALSE
    BY DEF MixedExportIsExplained
  <2>1. PICK r : r = context[m]
    OBVIOUS
  <2>2. r # NoResource /\ Export(m).context = {r}
    BY <2>1 DEF ExportIsMixed, Export, ExportedContext
  <2>3. InStep(m)
    BY <1>1, <2>1, <2>2 DEF ExportInv, ExportBound
  <2>4. \A q \in ExportedReceipt(m) \cup ExportedDual(m) : q = r
    BY <2>1, <2>3 DEF InStep, ExportedReceipt, ExportedDual, NoReceipt
  <2>5. r \notin ExportedChallenge(m)
    BY <2>2, <2>4 DEF ExportIsMixed, Export
  <2>6. PICK f \in events[m] : IsDecision(f)
    BY DEF Undecided, IsDecision
  <2>7. f.resource = r /\ f.at >= issued[m]
    BY <2>1, <2>3, <2>6 DEF InStep
  <2>8. PICK e \in LatestOf(events[m]) : e \in events[m] /\ f.at <= e.at
    BY <1>1, LatestEvent DEF ExportInv
  <2>9. f.at \in Nat /\ e.at \in Nat /\ issued[m] \in Nat
    BY <1>1, <2>8 DEF ExportInv, EventsTyped, Recorded
  <2>10. CASE e.at > issued[m]
    <3>1. e.resource = r
      BY <2>1, <2>3, <2>8, <2>10 DEF InStep
    <3> QED BY <2>5, <2>8, <3>1 DEF ExportedChallenge
  <2>11. CASE e.at = f.at
    <3>1. \A g \in events[m] : g.at \in Nat /\ g.layer \in {"dry_run", "guard"}
      BY <1>1 DEF ExportInv, EventsTyped, Recorded
    <3>2. ASSUME NEW g \in events[m] PROVE ~ Precedes(f, g)
      <4>1. ~ Precedes(e, g) /\ f.layer = "guard"
        BY <2>6, <2>8 DEF LatestOf, IsDecision
      <4>2. ~ (f.at < g.at)
        BY <2>11, <4>1 DEF Precedes
      <4>3. ~ (IdOrder[f.layer] < IdOrder[g.layer])
        BY <3>1, <4>1 DEF IdOrder
      <4> QED BY <4>1, <4>2, <4>3 DEF Precedes
    <3>3. f \in LatestOf(events[m])
      BY <3>2 DEF LatestOf
    <3> QED BY <2>5, <2>7, <3>3 DEF ExportedChallenge
  <2> QED BY <2>7, <2>8, <2>9, <2>10, <2>11
<1>2. FlowInv /\ ExportInv => MixedExportIsExplained
  BY <1>1
<1> QED BY <1>2, ExportInvariant, ExportImplementsFlow, FlowInvariant, PTL
=============================================================================
