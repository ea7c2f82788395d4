---------------------------- MODULE GuardPipeline ----------------------------
(***************************************************************************)
(* runGuardPipeline: concurrent guarded payments over one SQLite database. *)
(* Node runs one call at a time; a call gives the event loop up only at    *)
(* the await on the CAW adapter, where other calls may run to their own    *)
(* await or to their end.  The process may crash between any two           *)
(* statements that are not in one transaction.  After a crash the rows     *)
(* stay, and every call that had not returned is lost.                     *)
(***************************************************************************)
EXTENDS QuoteLock

CONSTANTS
  Calls,       \* invocations of runGuardPipeline, each made at most once
  Amounts,     \* reservedBudgetUsd of a call
  Limits,      \* budgetLimitUsd of a call, and budgets a mission is created with
  MaxCrashes   \* bound on the number of crashes

ASSUME GuardPipelineAssumption ==
  /\ Amounts \subseteq Nat
  /\ Limits \subseteq Nat
  /\ MaxCrashes \in Nat

VARIABLES
  pc,        \* where each call is
  key,       \* the quote each call asks for: its mission and provider
  amount,    \* the budget each call asks for
  limit,     \* the budget limit each call was given
  lock,      \* what reserveQuoteAndBudget answered the call
  verdict,   \* the decision the call is to record
  reply,     \* the status of the result the call is to return
  event,     \* the decision of the call's guard_events row, if it has one
  timeline,  \* whether the call's mission_timeline_events row exists
  crashes

callVars == <<key, amount, limit, lock, verdict, reply>>
logVars == <<event, timeline>>
vars == <<rows, pc, callVars, logVars, crashes>>

Decisions == {"allow", "block", "require_approval", "fallback_required"}

(***************************************************************************)
(* A running call holds the event loop; an awaiting one does not.          *)
(***************************************************************************)
Running == {"layers", "clearsign", "spend", "spend_quote", "spend_ledger", "receipt",
            "event", "timeline", "release", "void", "dispute"}
Awaiting == {"caw"}
Ended == {"replied", "threw", "lost"}

LoopFree == \A c \in Calls : pc[c] \notin Running

Goto(c, l) == pc' = [pc EXCEPT ![c] = l]

Decide(c, d, s) ==
  /\ verdict' = [verdict EXCEPT ![c] = d]
  /\ reply' = [reply EXCEPT ![c] = s]

Init ==
  /\ QuoteLockInit
  /\ pc = [c \in Calls |-> "idle"]
  /\ key \in [Calls -> Keys]
  /\ amount \in [Calls -> Amounts]
  /\ limit \in [Calls -> Limits]
  /\ lock = [c \in Calls |-> "none"]
  /\ verdict = [c \in Calls |-> "none"]
  /\ reply = [c \in Calls |-> "none"]
  /\ event = [c \in Calls |-> "none"]
  /\ timeline = [c \in Calls |-> FALSE]
  /\ crashes = 0
-----------------------------------------------------------------------------
(***************************************************************************)
(* The callers of ensureMission outside the lock: createMission may give   *)
(* an existing mission another budget, also while a payment is in flight.  *)
(***************************************************************************)
CreateMission(m, b) ==
  /\ LoopFree
  /\ EnsureMission(m, b)
  /\ UNCHANGED <<quote, reservation, ledger, pc, callVars, logVars, crashes>>

Begin(c) ==
  /\ LoopFree
  /\ pc[c] = "idle"
  /\ Goto(c, "layers")
  /\ UNCHANGED <<rows, callVars, logVars, crashes>>

(***************************************************************************)
(* The layers before the lock, each of which may end the call.  Only       *)
(* ERC-8004 can ask for the fallback.                                      *)
(***************************************************************************)
RejectBeforeLock(c, d) ==
  /\ pc[c] = "layers"
  /\ Decide(c, d, "blocked")
  /\ Goto(c, "event")
  /\ UNCHANGED <<rows, key, amount, limit, lock, logVars, crashes>>

BindingRejects(c) == RejectBeforeLock(c, "block")
RegistryRejects(c) == RejectBeforeLock(c, "block")
TrustRejects(c) == \E d \in {"block", "fallback_required"} : RejectBeforeLock(c, d)
MetadataRejects(c) == RejectBeforeLock(c, "block")
ProviderQuoteRejects(c) == RejectBeforeLock(c, "block")

(***************************************************************************)
(* A malformed or expired challenge throws while it is normalised, and so  *)
(* does a clash of provider origins, which rolls the transaction back.     *)
(***************************************************************************)
ThrowBeforeLock(c) ==
  /\ pc[c] = "layers"
  /\ Goto(c, "threw")
  /\ UNCHANGED <<rows, callVars, logVars, crashes>>

Reserve(c) ==
  /\ pc[c] = "layers"
  /\ ReserveQuoteAndBudget(key[c], amount[c], limit[c])
  /\ lock' = [lock EXCEPT ![c] = "allow"]
  /\ Goto(c, "clearsign")
  /\ UNCHANGED <<key, amount, limit, verdict, reply, logVars, crashes>>

Refuse(c) ==
  /\ pc[c] = "layers"
  /\ RefuseReservation(key[c], amount[c], limit[c])
  /\ lock' = [lock EXCEPT ![c] = "block"]
  /\ Decide(c, "block", "blocked")
  /\ Goto(c, "event")
  /\ UNCHANGED <<key, amount, limit, logVars, crashes>>
-----------------------------------------------------------------------------
(***************************************************************************)
(* With the lock held: clear signing, then the CAW call.  A missing escrow *)
(* address and blocked calldata give the reservation back; building escrow *)
(* calldata for an amount that is not an integer throws and does not.      *)
(***************************************************************************)
ClearSignReleasesFirst(c) ==  \* mutation: the budget goes back before the event
  /\ pc[c] = "clearsign"
  /\ Decide(c, "block", "blocked")
  /\ Goto(c, "release")
  /\ UNCHANGED <<rows, key, amount, limit, lock, logVars, crashes>>

ClearSignBlocks(c) ==
  /\ pc[c] = "clearsign"
  /\ Decide(c, "block", "blocked")
  /\ Goto(c, "event")
  /\ UNCHANGED <<rows, key, amount, limit, lock, logVars, crashes>>

ClearSignThrows(c) ==
  /\ pc[c] = "clearsign"
  /\ Goto(c, "threw")
  /\ UNCHANGED <<rows, callVars, logVars, crashes>>

CallCaw(c) ==
  /\ pc[c] = "clearsign"
  /\ Goto(c, "caw")
  /\ UNCHANGED <<rows, callVars, logVars, crashes>>

(***************************************************************************)
(* What the pipeline does with each answer of the adapter.                 *)
(***************************************************************************)
CawNotPaid(c, d, s) ==
  /\ LoopFree
  /\ pc[c] = "caw"
  /\ Decide(c, d, s)
  /\ Goto(c, "event")
  /\ UNCHANGED <<rows, key, amount, limit, lock, logVars, crashes>>

CawRequiresApproval(c) == CawNotPaid(c, "require_approval", "prepared")
CawRequiresFallback(c) == CawNotPaid(c, "fallback_required", "prepared")
CawDenies(c) == CawNotPaid(c, "block", "blocked")
CawEvidenceIncomplete(c) == CawNotPaid(c, "fallback_required", "disputed")

CacheUnsafeReleases(c) ==  \* mutation: a paid response is refused as if unpaid
  CawNotPaid(c, "block", "blocked")

CacheUnsafe(c) == CawNotPaid(c, "block", "disputed")

CawPays(c) ==
  /\ LoopFree
  /\ pc[c] = "caw"
  /\ Goto(c, "spend")
  /\ UNCHANGED <<rows, callVars, logVars, crashes>>

CawRejects(c) ==
  /\ LoopFree
  /\ pc[c] = "caw"
  /\ Goto(c, "threw")
  /\ UNCHANGED <<rows, callVars, logVars, crashes>>

CawAnswers(c) ==
  \/ CawRequiresApproval(c)
  \/ CawRequiresFallback(c)
  \/ CawDenies(c)
  \/ CawEvidenceIncomplete(c)
  \/ CacheUnsafe(c)
  \/ CawPays(c)
  \/ CawRejects(c)
-----------------------------------------------------------------------------
(***************************************************************************)
(* markReservationSpent, statement by statement, then the receipt.  A      *)
(* provider response without body, signature or address throws.            *)
(***************************************************************************)
MarkSpent(c) ==
  /\ pc[c] = "spend"
  /\ SetReservation(key[c], "spent")
  /\ Goto(c, "spend_quote")
  /\ UNCHANGED <<callVars, logVars, crashes>>

MarkQuoteSpent(c) ==
  /\ pc[c] = "spend_quote"
  /\ SpendQuote(key[c])
  /\ Goto(c, "spend_ledger")
  /\ UNCHANGED <<callVars, logVars, crashes>>

PostSpend(c) ==
  /\ pc[c] = "spend_ledger"
  /\ SpendLedger(key[c])
  /\ Goto(c, "receipt")
  /\ UNCHANGED <<callVars, logVars, crashes>>

ReceiptVerified(c) ==
  /\ pc[c] = "receipt"
  /\ Decide(c, "allow", "completed")
  /\ Goto(c, "event")
  /\ UNCHANGED <<rows, key, amount, limit, lock, logVars, crashes>>

ReceiptBlocked(c) ==
  /\ pc[c] = "receipt"
  /\ Decide(c, "block", "disputed")
  /\ Goto(c, "event")
  /\ UNCHANGED <<rows, key, amount, limit, lock, logVars, crashes>>

ReceiptThrows(c) ==
  /\ pc[c] = "receipt"
  /\ Goto(c, "threw")
  /\ UNCHANGED <<rows, callVars, logVars, crashes>>
-----------------------------------------------------------------------------
(***************************************************************************)
(* recordGuardEvent: two statements.  The foreign key refuses an event of  *)
(* a mission without a row, and the call throws.                           *)
(***************************************************************************)
RecordGuardEvent(c) ==
  /\ pc[c] = "event"
  /\ IF budget[key[c][1]] = NoMission
       THEN Goto(c, "threw") /\ UNCHANGED event
       ELSE Goto(c, "timeline") /\ event' = [event EXCEPT ![c] = verdict[c]]
  /\ UNCHANGED <<rows, callVars, timeline, crashes>>

(***************************************************************************)
(* What follows the event: the budget goes back, the reservation is        *)
(* disputed, or the call returns.                                          *)
(***************************************************************************)
AfterTimelineKeepsApproval(c) ==  \* mutation: "prepared" returns at once
  IF lock[c] # "allow" \/ reply[c] \in {"completed", "prepared"} THEN "replied"
  ELSE IF reply[c] = "disputed" THEN "dispute"
  ELSE "release"

AfterTimeline(c) ==
  IF lock[c] # "allow" \/ reply[c] = "completed" THEN "replied"
  ELSE IF reply[c] = "disputed" THEN "dispute"
  ELSE "release"

RecordTimelineEvent(c) ==
  /\ pc[c] = "timeline"
  /\ timeline' = [timeline EXCEPT ![c] = TRUE]
  /\ Goto(c, AfterTimeline(c))
  /\ UNCHANGED <<rows, callVars, event, crashes>>

Release(c) ==
  /\ pc[c] = "release"
  /\ SetReservation(key[c], "released")
  /\ Goto(c, "void")
  /\ UNCHANGED <<callVars, logVars, crashes>>

Void(c) ==
  /\ pc[c] = "void"
  /\ VoidLedger(key[c])
  /\ Goto(c, "replied")
  /\ UNCHANGED <<callVars, logVars, crashes>>

DisputeAsReleased(c) ==  \* mutation: a disputed payment is marked released
  /\ pc[c] = "dispute"
  /\ SetReservation(key[c], "released")
  /\ Goto(c, "replied")
  /\ UNCHANGED <<callVars, logVars, crashes>>

Dispute(c) ==
  /\ pc[c] = "dispute"
  /\ SetReservation(key[c], "disputed")
  /\ Goto(c, "replied")
  /\ UNCHANGED <<callVars, logVars, crashes>>

(***************************************************************************)
(* The process dies and a new one opens the same database.                 *)
(***************************************************************************)
Crash ==
  /\ crashes < MaxCrashes
  /\ crashes' = crashes + 1
  /\ pc' = [c \in Calls |-> IF pc[c] \in Running \cup Awaiting THEN "lost" ELSE pc[c]]
  /\ UNCHANGED <<rows, callVars, logVars>>
-----------------------------------------------------------------------------
(***************************************************************************)
(* The steps a running call takes by itself.                               *)
(***************************************************************************)
RunStep(c) ==
  \/ BindingRejects(c)
  \/ RegistryRejects(c)
  \/ TrustRejects(c)
  \/ MetadataRejects(c)
  \/ ProviderQuoteRejects(c)
  \/ ThrowBeforeLock(c)
  \/ Reserve(c)
  \/ Refuse(c)
  \/ ClearSignBlocks(c)
  \/ ClearSignThrows(c)
  \/ CallCaw(c)
  \/ MarkSpent(c)
  \/ MarkQuoteSpent(c)
  \/ PostSpend(c)
  \/ ReceiptVerified(c)
  \/ ReceiptBlocked(c)
  \/ ReceiptThrows(c)
  \/ RecordGuardEvent(c)
  \/ RecordTimelineEvent(c)
  \/ Release(c)
  \/ Void(c)
  \/ Dispute(c)

Next ==
  \/ \E m \in Missions, b \in Limits : CreateMission(m, b)
  \/ \E c \in Calls : Begin(c) \/ RunStep(c) \/ CawAnswers(c)
  \/ Crash

Spec == Init /\ [][Next]_vars
-----------------------------------------------------------------------------
(***************************************************************************)
(* Running code keeps running, and the adapter's promise settles: every    *)
(* wait of the live executor is bounded by its settle deadline.            *)
(***************************************************************************)
Fairness == \A c \in Calls : WF_vars(RunStep(c)) /\ WF_vars(CawAnswers(c))

FairSpec == Spec /\ Fairness
-----------------------------------------------------------------------------
(***************************************************************************)
(* Type invariant.                                                         *)
(***************************************************************************)
TypeOK ==
  /\ QuoteLockTypeOK
  /\ pc \in [Calls -> {"idle"} \cup Running \cup Awaiting \cup Ended]
  /\ key \in [Calls -> Keys]
  /\ amount \in [Calls -> Amounts]
  /\ limit \in [Calls -> Limits]
  /\ lock \in [Calls -> {"none", "allow", "block"}]
  /\ verdict \in [Calls -> Decisions \cup {"none"}]
  /\ reply \in [Calls -> {"none", "blocked", "prepared", "disputed", "completed"}]
  /\ event \in [Calls -> Decisions \cup {"none"}]
  /\ timeline \in [Calls -> BOOLEAN]
  /\ crashes \in Nat

Holds(c, k) == lock[c] = "allow" /\ key[c] = k

(***************************************************************************)
(* What the rows of the quote that call c holds may be, by where c is and  *)
(* what it is to reply.                                                    *)
(***************************************************************************)
RowsFollow(c) ==
  LET r == RowsOf(key[c]) IN
  /\ pc[c] \notin {"idle", "layers"}
  /\ pc[c] \in {"clearsign", "caw", "spend", "release"} => r = Reserved
  /\ pc[c] = "spend_quote" => r = HalfSpent
  /\ pc[c] = "spend_ledger" => r = Unposted
  /\ pc[c] = "receipt" => r = Spent
  /\ pc[c] = "void" => r = HalfReleased
  /\ pc[c] \in {"dispute", "threw"} => r \in {Reserved, Spent}
  /\ pc[c] \in {"event", "timeline"} =>
       /\ reply[c] = "completed" => r = Spent
       /\ reply[c] = "disputed" => r \in {Reserved, Spent}
       /\ reply[c] \notin {"completed", "disputed"} => r = Reserved
  /\ pc[c] = "replied" =>
       /\ reply[c] = "completed" => r = Spent
       /\ reply[c] = "disputed" => r \in {Disputed, DisputedSpent}
       /\ reply[c] \notin {"completed", "disputed"} => r = Released
  /\ pc[c] = "lost" => r \in {Reserved, HalfSpent, Unposted, Spent, HalfReleased}

(***************************************************************************)
(* Of all the calls for a quote, one at most ever gets past the lock, also *)
(* when its budget was given back: concurrent and later replays of a       *)
(* payment are refused, so the CAW is asked at most once for each quote.   *)
(***************************************************************************)
OneHolderPerQuote ==
  \A c, d \in Calls : lock[c] = "allow" /\ lock[d] = "allow" /\ key[c] = key[d] => c = d

(***************************************************************************)
(* Reservation, quote and ledger agree with the call that holds the quote: *)
(* what a call replied is what the rows say, a half done spend or release  *)
(* is visible only while its call runs or after a crash took that call,    *)
(* and a quote no call holds has no rows.                                  *)
(***************************************************************************)
RowsMatchHolder ==
  /\ \A c \in Calls : lock[c] = "allow" => RowsFollow(c)
  /\ \A k \in Keys : RowsOf(k) # Unused => \E c \in Calls : Holds(c, k)

(***************************************************************************)
(* Budget is given back, and a payment contested, only when a guard event  *)
(* and its timeline entry say why, and no crash in between can change it.  *)
(* A call that returned has both, and its event says "allow" exactly when  *)
(* it reported the payment completed.                                      *)
(***************************************************************************)
Audited(c) ==
  /\ timeline[c] => event[c] # "none"
  /\ lock[c] = "allow" /\ reservation[key[c]] \in {"released", "disputed"}
       => timeline[c] /\ event[c] # "allow"
  /\ pc[c] = "replied" => timeline[c] /\ (event[c] = "allow" <=> reply[c] = "completed")

AuditedBeforeRelease == \A c \in Calls : Audited(c)

(***************************************************************************)
(* Pending budget has an owner: the call in flight that will settle it, or *)
(* one that ended without settling it (a crash, an exception, a dispute).  *)
(* Nothing in the code ever settles the budget of the second kind.         *)
(***************************************************************************)
PendingIsOwned ==
  \A k \in Keys :
    ledger[k].status = "pending" =>
      \E c \in Calls :
        /\ Holds(c, k)
        /\ pc[c] # "replied" \/ reply[c] = "disputed"

(***************************************************************************)
(* A step that raises the exposure of a mission keeps it within the budget *)
(* recorded by that step, whatever other payments of the mission are in    *)
(* flight.  (A caller may lower the budget below the exposure later.)      *)
(***************************************************************************)
ExposureStep ==
  \A m \in Missions : Exposure(m)' > Exposure(m) => Exposure(m)' <= budget'[m]

ExposureWithinLimit == [][ExposureStep]_vars

Abstract == INSTANCE BudgetLock WITH
              stage <- Stages, held <- HeldAmounts, exposure <- Exposures

(***************************************************************************)
(* The statements of concurrent and crashing calls implement BudgetLock.   *)
(***************************************************************************)
ImplementsBudgetLock == Abstract!Spec

(***************************************************************************)
(* Liveness: budget a call holds is settled (posted or void) unless the    *)
(* call ended by a crash, an exception or a dispute.                       *)
(***************************************************************************)
Abandoned(k) ==
  \E c \in Calls :
    /\ Holds(c, k)
    /\ \/ pc[c] \in {"threw", "lost"}
       \/ pc[c] = "replied" /\ reply[c] = "disputed"

BudgetSettles ==
  \A k \in Keys :
    (ledger[k].status = "pending") ~> (ledger[k].status # "pending" \/ Abandoned(k))
=============================================================================
