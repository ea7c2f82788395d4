------------------------- MODULE GuardPipeline_proofs -------------------------
(***************************************************************************)
(* Theorems about GuardPipeline, for any sets of missions, providers and   *)
(* calls, any amounts and limits, and any number of crashes.               *)
(***************************************************************************)
EXTENDS GuardPipeline, QuoteLock_proofs

LEMMA InitTypeOK == Init => TypeOK
BY GuardPipelineAssumption
   DEF Init, TypeOK, QuoteLockInit, QuoteLockTypeOK, LedgerRows, NoLedgerRow, NoMission,
       Running, Awaiting, Ended, Decisions

LEMMA NextTypeOK == TypeOK /\ [Next]_vars => TypeOK'
<1> SUFFICES ASSUME TypeOK, [Next]_vars PROVE TypeOK'
  OBVIOUS
<1> USE GuardPipelineAssumption
    DEF TypeOK, QuoteLockTypeOK, Running, Awaiting, Ended, Decisions,
        rows, callVars, logVars, Goto, Decide
<1>1. ASSUME NEW m \in Missions, NEW b \in Limits, CreateMission(m, b) PROVE TypeOK'
  BY <1>1 DEF CreateMission, EnsureMission
<1>2. ASSUME NEW c \in Calls, Begin(c) PROVE TypeOK'
  BY <1>2 DEF Begin
<1>3. ASSUME NEW c \in Calls, RunStep(c) PROVE TypeOK'
  <2> key[c] \in Keys /\ key[c][1] \in Missions
    BY DEF Keys
  <2>1. ASSUME NEW d \in {"block", "fallback_required"}, RejectBeforeLock(c, d) PROVE TypeOK'
    BY <2>1 DEF RejectBeforeLock
  <2>2. CASE ThrowBeforeLock(c)
    BY <2>2 DEF ThrowBeforeLock
  <2>3. CASE Reserve(c)
    <3>1. [type |-> "reserve", status |-> "pending", amount |-> amount[c]] \in LedgerRows
      BY DEF LedgerRows
    <3> QED BY <2>3, <3>1 DEF Reserve, ReserveQuoteAndBudget, EnsureMission
  <2>4. CASE Refuse(c)
    BY <2>4 DEF Refuse, RefuseReservation, EnsureMission
  <2>5. CASE ClearSignBlocks(c)
    BY <2>5 DEF ClearSignBlocks
  <2>6. CASE ClearSignThrows(c) \/ CallCaw(c)
    BY <2>6 DEF ClearSignThrows, CallCaw
  <2>7. CASE MarkSpent(c)
    BY <2>7 DEF MarkSpent, SetReservation
  <2>8. CASE MarkQuoteSpent(c)
    BY <2>8 DEF MarkQuoteSpent, SpendQuote
  <2>9. CASE PostSpend(c)
    BY <2>9 DEF PostSpend, SpendLedger, SettleLedger, LedgerRows
  <2>10. CASE ReceiptVerified(c) \/ ReceiptBlocked(c) \/ ReceiptThrows(c)
    BY <2>10 DEF ReceiptVerified, ReceiptBlocked, ReceiptThrows
  <2>11. CASE RecordGuardEvent(c)
    BY <2>11 DEF RecordGuardEvent
  <2>12. CASE RecordTimelineEvent(c)
    BY <2>12 DEF RecordTimelineEvent, AfterTimeline
  <2>13. CASE Release(c)
    BY <2>13 DEF Release, SetReservation
  <2>14. CASE Void(c)
    BY <2>14 DEF Void, VoidLedger, SettleLedger, LedgerRows
  <2>15. CASE Dispute(c)
    BY <2>15 DEF Dispute, SetReservation
  <2> QED
    BY <1>3, <2>1, <2>2, <2>3, <2>4, <2>5, <2>6, <2>7, <2>8, <2>9, <2>10, <2>11, <2>12,
       <2>13, <2>14, <2>15
    DEF RunStep, BindingRejects, RegistryRejects, TrustRejects, MetadataRejects,
        ProviderQuoteRejects
<1>4. ASSUME NEW c \in Calls, CawAnswers(c) PROVE TypeOK'
  BY <1>4 DEF CawAnswers, CawRequiresApproval, CawRequiresFallback, CawDenies,
              CawEvidenceIncomplete, CacheUnsafe, CawNotPaid, CawPays, CawRejects
<1>5. CASE Crash
  BY <1>5 DEF Crash
<1>6. CASE UNCHANGED vars
  BY <1>6 DEF vars
<1> QED BY <1>1, <1>2, <1>3, <1>4, <1>5, <1>6 DEF Next

(***************************************************************************)
(* Every reachable state is well typed.                                    *)
(***************************************************************************)
THEOREM TypeCorrect == Spec => []TypeOK
BY InitTypeOK, NextTypeOK, PTL DEF Spec
-----------------------------------------------------------------------------
(***************************************************************************)
(* What the place of a call says of its lock answer and its reply.         *)
(***************************************************************************)
PlaceOf(c) ==
  /\ pc[c] \in {"idle", "layers"} => lock[c] = "none"
  /\ pc[c] \in {"clearsign", "caw", "spend", "spend_quote", "spend_ledger", "receipt",
                "release", "void", "dispute"}
       => lock[c] = "allow"
  /\ pc[c] \in {"release", "void"} => reply[c] \notin {"completed", "disputed"}
  /\ pc[c] = "dispute" => reply[c] = "disputed"

PlaceOK == \A c \in Calls : PlaceOf(c)

(***************************************************************************)
(* The inductive invariant of the lock.                                    *)
(***************************************************************************)
LockInv == TypeOK /\ PlaceOK /\ OneHolderPerQuote /\ RowsMatchHolder

(***************************************************************************)
(* A quote some call holds has rows.                                       *)
(***************************************************************************)
LEMMA HeldIsUsed ==
  ASSUME TypeOK, NEW c \in Calls, RowsFollow(c)
  PROVE  RowsOf(key[c]) # Unused
BY DEF TypeOK, Running, Awaiting, Ended, RowsFollow, Unused, Reserved, HalfSpent, Unposted,
       Spent, HalfReleased, Released, Disputed, DisputedSpent

(***************************************************************************)
(* A step of one call keeps the invariant if it touches the rows of its    *)
(* own quote only, as their holder and following the plan, and takes the   *)
(* lock only on a quote without rows.                                      *)
(***************************************************************************)
OthersStay(c) ==
  /\ key' = key
  /\ \A d \in Calls \ {c} : pc'[d] = pc[d] /\ lock'[d] = lock[d] /\ reply'[d] = reply[d]
  /\ \A k \in Keys \ {key[c]} : RowsOf(k)' = RowsOf(k)

LEMMA CallMoves ==
  ASSUME LockInv, NEW c \in Calls, OthersStay(c), PlaceOf(c)',
         lock[c] = "allow" => lock'[c] = "allow",
         lock'[c] = "allow" => RowsFollow(c)',
         lock[c] # "allow" /\ lock'[c] = "allow" => RowsOf(key[c]) = Unused,
         lock'[c] # "allow" => RowsOf(key[c])' = RowsOf(key[c])
  PROVE  PlaceOK' /\ OneHolderPerQuote' /\ RowsMatchHolder'
<1> USE DEF LockInv
<1> key \in [Calls -> Keys]
  BY DEF TypeOK
<1>1. PlaceOK'
  BY DEF PlaceOK, PlaceOf, OthersStay
<1>2. ASSUME NEW d \in Calls \ {c}, lock[d] = "allow", lock'[c] = "allow", key[d] = key[c]
      PROVE  FALSE
  <2>1. RowsFollow(d) /\ RowsOf(key[d]) # Unused
    BY <1>2, HeldIsUsed DEF RowsMatchHolder
  <2>2. lock[c] = "allow"
    BY <1>2, <2>1
  <2> QED BY <1>2, <2>2 DEF OneHolderPerQuote
<1>3. OneHolderPerQuote'
  BY <1>2 DEF OneHolderPerQuote, OthersStay
<1>4. ASSUME NEW d \in Calls, lock'[d] = "allow" PROVE RowsFollow(d)'
  <2>1. CASE d = c
    BY <1>4, <2>1
  <2>2. CASE d # c
    <3>1. lock[d] = "allow" /\ RowsFollow(d)
      BY <1>4, <2>2 DEF OthersStay, RowsMatchHolder
    <3>2. RowsOf(key[d])' = RowsOf(key[d])
      BY <1>2, <2>2, <3>1 DEF OthersStay
    <3> QED BY <2>2, <3>1, <3>2 DEF RowsFollow, OthersStay
  <2> QED BY <2>1, <2>2
<1>5. ASSUME NEW k \in Keys, RowsOf(k)' # Unused PROVE \E d \in Calls : Holds(d, k)'
  <2>1. CASE k = key[c] /\ lock'[c] = "allow"
    BY <2>1 DEF Holds, OthersStay
  <2>2. CASE k # key[c] \/ lock'[c] # "allow"
    <3>1. RowsOf(k)' = RowsOf(k)
      BY <2>2 DEF OthersStay
    <3>2. PICK d \in Calls : Holds(d, k)
      BY <1>5, <3>1 DEF RowsMatchHolder
    <3>3. Holds(d, k)'
      BY <2>2, <3>2 DEF Holds, OthersStay
    <3> QED BY <3>3
  <2> QED BY <2>1, <2>2
<1> QED BY <1>1, <1>3, <1>4, <1>5 DEF RowsMatchHolder
(***************************************************************************)
(* Steps that leave the rows of all quotes alone.                          *)
(***************************************************************************)
LEMMA QuietMoves ==
  ASSUME LockInv, NEW c \in Calls, UNCHANGED <<quote, reservation, ledger, key>>,
         NEW l, Goto(c, l),
         lock' = lock \/ (lock[c] = "none" /\ lock' = [lock EXCEPT ![c] = "block"]),
         reply' = reply \/ \E s : reply' = [reply EXCEPT ![c] = s],
         PlaceOf(c)', lock[c] = "allow" => RowsFollow(c)'
  PROVE  PlaceOK' /\ OneHolderPerQuote' /\ RowsMatchHolder'
<1>1. \A k : RowsOf(k)' = RowsOf(k)
  BY DEF RowsOf
<1>2. TypeOK
  BY DEF LockInv
<1>3. OthersStay(c)
  BY <1>1, <1>2 DEF OthersStay, Goto, TypeOK
<1>4. /\ lock[c] = "allow" => lock'[c] = "allow"
      /\ lock'[c] = "allow" => lock[c] = "allow"
  BY <1>2 DEF TypeOK
<1>5. key'[c] = key[c]
  OBVIOUS
<1> QED BY <1>1, <1>3, <1>4, <1>5, CallMoves

(***************************************************************************)
(* Steps of the holder of a quote that change its rows.                    *)
(***************************************************************************)
LEMMA HolderMoves ==
  ASSUME LockInv, NEW c \in Calls, NEW l, Goto(c, l), lock[c] = "allow",
         UNCHANGED <<key, lock, reply>>,
         \A k \in Keys \ {key[c]} : RowsOf(k)' = RowsOf(k),
         PlaceOf(c)', RowsFollow(c)'
  PROVE  PlaceOK' /\ OneHolderPerQuote' /\ RowsMatchHolder'
<1>1. OthersStay(c)
  BY DEF OthersStay, Goto, LockInv, TypeOK
<1> QED BY <1>1, CallMoves

LEMMA RowsOfAnother ==
  ASSUME QuoteLockTypeOK, NEW j \in Keys, NEW k \in Keys, j # k, NEW s, NEW r,
         \/ reservation' = [reservation EXCEPT ![k] = s] /\ UNCHANGED <<quote, ledger>>
         \/ quote' = [quote EXCEPT ![k] = s] /\ UNCHANGED <<reservation, ledger>>
         \/ ledger' = [ledger EXCEPT ![k] = r] /\ UNCHANGED <<reservation, quote>>
  PROVE  RowsOf(j)' = RowsOf(j)
BY DEF QuoteLockTypeOK, RowsOf

LEMMA InitLockInv == Init => LockInv
<1> SUFFICES ASSUME Init PROVE LockInv
  OBVIOUS
<1>1. TypeOK
  BY InitTypeOK
<1>2. PlaceOK /\ OneHolderPerQuote
  BY DEF Init, PlaceOK, PlaceOf, OneHolderPerQuote
<1>3. RowsMatchHolder
  <2>1. \A k \in Keys : RowsOf(k) = Unused
    BY DEF Init, QuoteLockInit, NoLedgerRow, RowsOf, Unused
  <2> QED BY <2>1 DEF Init, RowsMatchHolder
<1> QED BY <1>1, <1>2, <1>3 DEF LockInv
(***************************************************************************)
(* The lock is taken only on a quote without rows.                         *)
(***************************************************************************)
LEMMA ReserveFindsUnused ==
  ASSUME LockInv, NEW c \in Calls, Reserve(c)
  PROVE  RowsOf(key[c]) = Unused
<1>1. TypeOK /\ key[c] \in Keys
  BY DEF LockInv, TypeOK
<1>2. ASSUME NEW d \in Calls, Holds(d, key[c]) PROVE FALSE
  <2>1. RowsFollow(d) /\ quote[key[d]] = "none"
    BY <1>2 DEF LockInv, RowsMatchHolder, Holds, Reserve, ReserveQuoteAndBudget, IsUnused
  <2> QED BY <1>1, <2>1 DEF TypeOK, Running, Awaiting, Ended, RowsFollow, RowsOf, Reserved,
        HalfSpent, Unposted, Spent, HalfReleased, Released, Disputed, DisputedSpent
<1> QED BY <1>1, <1>2 DEF LockInv, RowsMatchHolder

(***************************************************************************)
(* The lock itself: a quote without rows, and so without a holder.         *)
(***************************************************************************)
LEMMA ReserveLockInv ==
  ASSUME LockInv, NEW c \in Calls, Reserve(c)
  PROVE  PlaceOK' /\ OneHolderPerQuote' /\ RowsMatchHolder'
<1> DEFINE k == key[c]
<1>1. TypeOK /\ pc[c] = "layers" /\ lock[c] = "none" /\ k \in Keys
  BY DEF LockInv, PlaceOK, PlaceOf, Reserve, TypeOK
<1>2. RowsOf(k) = Unused
  BY ReserveFindsUnused
<1>3. /\ pc'[c] = "clearsign" /\ lock'[c] = "allow" /\ key' = key
      /\ reservation'[k] = "reserved" /\ quote'[k] = "reserved"
      /\ ledger'[k].type = "reserve" /\ ledger'[k].status = "pending"
  BY <1>1 DEF Reserve, ReserveQuoteAndBudget, Goto, TypeOK, QuoteLockTypeOK
<1>4. RowsFollow(c)'
  BY <1>3 DEF RowsFollow, RowsOf, Reserved
<1>5. PlaceOf(c)'
  BY <1>3 DEF PlaceOf
<1>6. OthersStay(c)
  BY <1>1 DEF OthersStay, Reserve, ReserveQuoteAndBudget, Goto, TypeOK, QuoteLockTypeOK, RowsOf
<1> QED BY <1>1, <1>2, <1>3, <1>4, <1>5, <1>6, CallMoves

LEMMA RefuseLockInv ==
  ASSUME LockInv, NEW c \in Calls, Refuse(c)
  PROVE  PlaceOK' /\ OneHolderPerQuote' /\ RowsMatchHolder'
<1>1. TypeOK /\ pc[c] = "layers" /\ lock[c] = "none"
  BY DEF LockInv, PlaceOK, PlaceOf, Refuse
<1>2. PlaceOf(c)'
  BY <1>1 DEF Refuse, Goto, TypeOK, PlaceOf
<1> QED BY <1>1, <1>2, QuietMoves DEF Refuse, RefuseReservation, Decide

LEMMA QuietLockInv ==
  ASSUME LockInv, NEW c \in Calls,
         \/ Begin(c)
         \/ \E d \in Decisions : RejectBeforeLock(c, d)
         \/ ThrowBeforeLock(c)
         \/ ClearSignBlocks(c) \/ ClearSignThrows(c) \/ CallCaw(c)
         \/ CawAnswers(c)
         \/ ReceiptVerified(c) \/ ReceiptBlocked(c) \/ ReceiptThrows(c)
         \/ RecordGuardEvent(c)
         \/ RecordTimelineEvent(c)
  PROVE  PlaceOK' /\ OneHolderPerQuote' /\ RowsMatchHolder'
<1>1. TypeOK /\ PlaceOf(c) /\ (lock[c] = "allow" => RowsFollow(c))
  BY DEF LockInv, PlaceOK, RowsMatchHolder
<1> USE <1>1
    DEF TypeOK, PlaceOf, RowsFollow, RowsOf, Goto, Decide, rows, callVars, logVars
<1>2. CASE Begin(c)
  BY <1>2, QuietMoves DEF Begin
<1>3. CASE \E d \in Decisions : RejectBeforeLock(c, d)
  <2>1. PICK d \in Decisions : RejectBeforeLock(c, d)
    BY <1>3
  <2>2. reply' = [reply EXCEPT ![c] = "blocked"]
    BY <2>1 DEF RejectBeforeLock
  <2> QED BY <2>1, <2>2, QuietMoves DEF RejectBeforeLock
<1>4. CASE ThrowBeforeLock(c)
  BY <1>4, QuietMoves DEF ThrowBeforeLock
<1>5. CASE ClearSignBlocks(c)
  BY <1>5, QuietMoves DEF ClearSignBlocks
<1>6. CASE ClearSignThrows(c)
  BY <1>6, QuietMoves DEF ClearSignThrows
<1>7. CASE CallCaw(c)
  BY <1>7, QuietMoves DEF CallCaw
<1>8. CASE CawAnswers(c)
  <2>1. CASE CawRequiresApproval(c) \/ CawRequiresFallback(c)
    BY <2>1, QuietMoves DEF CawRequiresApproval, CawRequiresFallback, CawNotPaid
  <2>2. CASE CawDenies(c)
    BY <2>2, QuietMoves DEF CawDenies, CawNotPaid
  <2>3. CASE CawEvidenceIncomplete(c) \/ CacheUnsafe(c)
    BY <2>3, QuietMoves DEF CawEvidenceIncomplete, CacheUnsafe, CawNotPaid
  <2>4. CASE CawPays(c)
    BY <2>4, QuietMoves DEF CawPays
  <2>5. CASE CawRejects(c)
    BY <2>5, QuietMoves DEF CawRejects
  <2> QED BY <1>8, <2>1, <2>2, <2>3, <2>4, <2>5 DEF CawAnswers
<1>9. CASE ReceiptVerified(c)
  BY <1>9, QuietMoves DEF ReceiptVerified
<1>10. CASE ReceiptBlocked(c)
  BY <1>10, QuietMoves DEF ReceiptBlocked
<1>11. CASE ReceiptThrows(c)
  BY <1>11, QuietMoves DEF ReceiptThrows
<1>12. CASE RecordGuardEvent(c)
  BY <1>12, QuietMoves DEF RecordGuardEvent
<1>13. CASE RecordTimelineEvent(c)
  BY <1>13, QuietMoves DEF RecordTimelineEvent, AfterTimeline
<1> QED
  BY <1>2, <1>3, <1>4, <1>5, <1>6, <1>7, <1>8, <1>9, <1>10, <1>11, <1>12, <1>13
LEMMA HolderLockInv ==
  ASSUME LockInv, NEW c \in Calls,
         \/ MarkSpent(c) \/ MarkQuoteSpent(c) \/ PostSpend(c)
         \/ Release(c) \/ Void(c) \/ Dispute(c)
  PROVE  PlaceOK' /\ OneHolderPerQuote' /\ RowsMatchHolder'
<1> DEFINE k == key[c]
<1>1. TypeOK /\ QuoteLockTypeOK /\ k \in Keys
  BY DEF LockInv, TypeOK
<1>2. PlaceOf(c) /\ lock[c] = "allow" /\ RowsFollow(c)
  BY DEF LockInv, PlaceOK, PlaceOf, RowsMatchHolder, MarkSpent, MarkQuoteSpent, PostSpend,
         Release, Void, Dispute
<1>3. /\ \E l : Goto(c, l)
      /\ UNCHANGED <<key, lock, reply>>
  BY DEF MarkSpent, MarkQuoteSpent, PostSpend, Release, Void, Dispute, callVars
<1>4. \A j \in Keys \ {k} : RowsOf(j)' = RowsOf(j)
  BY <1>1, RowsOfAnother
     DEF MarkSpent, MarkQuoteSpent, PostSpend, Release, Void, Dispute,
         SetReservation, SpendQuote, SpendLedger, VoidLedger, SettleLedger
<1>5. PlaceOf(c)' /\ RowsFollow(c)'
  <2> USE <1>1, <1>2
      DEF TypeOK, QuoteLockTypeOK, Goto, callVars, PlaceOf, RowsFollow, RowsOf,
          Reserved, HalfSpent, Unposted, Spent, HalfReleased, Released, Disputed, DisputedSpent
  <2>1. CASE MarkSpent(c)
    BY <2>1 DEF MarkSpent, SetReservation
  <2>2. CASE MarkQuoteSpent(c)
    BY <2>2 DEF MarkQuoteSpent, SpendQuote
  <2>3. CASE PostSpend(c)
    BY <2>3 DEF PostSpend, SpendLedger, SettleLedger
  <2>4. CASE Release(c)
    BY <2>4 DEF Release, SetReservation
  <2>5. CASE Void(c)
    BY <2>5 DEF Void, VoidLedger, SettleLedger
  <2>6. CASE Dispute(c)
    BY <2>6 DEF Dispute, SetReservation
  <2> QED BY <2>1, <2>2, <2>3, <2>4, <2>5, <2>6
<1> QED BY <1>2, <1>3, <1>4, <1>5, HolderMoves

(***************************************************************************)
(* A crash leaves the rows to the calls it took.                           *)
(***************************************************************************)
LEMMA CrashLockInv ==
  ASSUME LockInv, Crash
  PROVE  PlaceOK' /\ OneHolderPerQuote' /\ RowsMatchHolder'
<1>1. /\ TypeOK
      /\ \A k : RowsOf(k)' = RowsOf(k)
      /\ UNCHANGED <<key, lock, reply>>
      /\ \A c \in Calls : pc'[c] = IF pc[c] \in Running \cup Awaiting THEN "lost" ELSE pc[c]
  BY DEF LockInv, Crash, RowsOf, rows, callVars
<1>2. PlaceOK'
  BY <1>1 DEF LockInv, PlaceOK, PlaceOf
<1>3. OneHolderPerQuote'
  BY <1>1 DEF LockInv, OneHolderPerQuote
<1>4. ASSUME NEW c \in Calls, lock'[c] = "allow" PROVE RowsFollow(c)'
  <2>1. RowsFollow(c)
    BY <1>1, <1>4 DEF LockInv, RowsMatchHolder
  <2> QED BY <1>1, <2>1 DEF RowsFollow, Running, Awaiting
<1>5. ASSUME NEW k \in Keys, RowsOf(k)' # Unused PROVE \E c \in Calls : Holds(c, k)'
  BY <1>1, <1>5 DEF LockInv, RowsMatchHolder, Holds
<1> QED BY <1>2, <1>3, <1>4, <1>5 DEF RowsMatchHolder

LEMMA NextLockInv == LockInv /\ [Next]_vars => LockInv'
<1> SUFFICES ASSUME LockInv, [Next]_vars PROVE LockInv'
  OBVIOUS
<1>1. TypeOK'
  BY NextTypeOK DEF LockInv
<1>2. PlaceOK' /\ OneHolderPerQuote' /\ RowsMatchHolder'
  <2>1. ASSUME NEW m \in Missions, NEW b \in Limits, CreateMission(m, b)
        PROVE  PlaceOK' /\ OneHolderPerQuote' /\ RowsMatchHolder'
    BY <2>1 DEF CreateMission, callVars, LockInv, PlaceOK, PlaceOf, OneHolderPerQuote,
                RowsMatchHolder, RowsFollow, RowsOf, Holds
  <2>2. ASSUME NEW c \in Calls, Begin(c) \/ RunStep(c) \/ CawAnswers(c)
        PROVE  PlaceOK' /\ OneHolderPerQuote' /\ RowsMatchHolder'
    BY <2>2, ReserveLockInv, RefuseLockInv, QuietLockInv, HolderLockInv
       DEF RunStep, BindingRejects, RegistryRejects, TrustRejects, MetadataRejects,
           ProviderQuoteRejects, Decisions
  <2>3. CASE UNCHANGED vars
    BY <2>3 DEF vars, rows, callVars, LockInv, PlaceOK, PlaceOf, OneHolderPerQuote,
                RowsMatchHolder, RowsFollow, RowsOf, Holds
  <2> QED BY <2>1, <2>2, <2>3, CrashLockInv DEF Next
<1> QED BY <1>1, <1>2 DEF LockInv

THEOREM LockInvariant == Spec => []LockInv
BY InitLockInv, NextLockInv, PTL DEF Spec

(***************************************************************************)
(* Of all calls for a quote one at most ever passes the lock, whatever     *)
(* calls run between, release, fail or crash.                              *)
(***************************************************************************)
THEOREM OneHolder == Spec => []OneHolderPerQuote
<1>1. LockInv => OneHolderPerQuote
  BY DEF LockInv
<1> QED BY <1>1, LockInvariant, PTL

(***************************************************************************)
(* Reservation, quote and ledger always agree with the call that holds     *)
(* the quote.                                                              *)
(***************************************************************************)
THEOREM RowsAgree == Spec => []RowsMatchHolder
<1>1. LockInv => RowsMatchHolder
  BY DEF LockInv
<1> QED BY <1>1, LockInvariant, PTL

(***************************************************************************)
(* Pending budget has an owner: a call in flight, or one that crashed,     *)
(* threw, or replied with a dispute.                                       *)
(***************************************************************************)
THEOREM PendingOwned == Spec => []PendingIsOwned
<1>1. LockInv => PendingIsOwned
  <2> SUFFICES ASSUME LockInv, NEW k \in Keys, ledger[k].status = "pending"
               PROVE  \E c \in Calls : /\ Holds(c, k)
                                       /\ pc[c] # "replied" \/ reply[c] = "disputed"
    BY DEF PendingIsOwned
  <2>1. RowsOf(k) # Unused
    BY DEF RowsOf, Unused
  <2>2. PICK c \in Calls : Holds(c, k)
    BY <2>1 DEF LockInv, RowsMatchHolder
  <2>3. RowsFollow(c) /\ key[c] = k
    BY <2>2 DEF LockInv, RowsMatchHolder, Holds
  <2>4. pc[c] = "replied" => reply[c] = "disputed"
    BY <2>3 DEF RowsFollow, RowsOf, Spent, Released
  <2> QED BY <2>2, <2>4
<1> QED BY <1>1, LockInvariant, PTL
-----------------------------------------------------------------------------
(***************************************************************************)
(* What the place of a call says of its audit rows, and the inductive      *)
(* invariant of the audit trail.                                           *)
(***************************************************************************)
AuditPlan(c) ==
  /\ pc[c] \in {"event", "timeline", "release", "void", "dispute", "replied"}
       => verdict[c] # "none" /\ (verdict[c] = "allow" <=> reply[c] = "completed")
  /\ pc[c] \in {"timeline", "release", "void", "dispute", "replied"} => event[c] = verdict[c]
  /\ pc[c] \in {"release", "void", "dispute", "replied"} => timeline[c]

AuditInv == LockInv /\ AuditedBeforeRelease /\ \A c \in Calls : AuditPlan(c)

(***************************************************************************)
(* A step of one call keeps the audit trail of the other calls, for it     *)
(* changes a reservation only as its one holder.                           *)
(***************************************************************************)
AuditOthersStay(c) ==
  /\ key' = key
  /\ \A d \in Calls \ {c} :
       /\ pc'[d] = pc[d] /\ lock'[d] = lock[d] /\ verdict'[d] = verdict[d]
       /\ reply'[d] = reply[d] /\ event'[d] = event[d] /\ timeline'[d] = timeline[d]
  /\ \/ reservation' = reservation
     \/ lock'[c] = "allow" /\ \A k \in Keys \ {key[c]} : reservation'[k] = reservation[k]

LEMMA AuditMoves ==
  ASSUME AuditInv, LockInv', NEW c \in Calls, AuditOthersStay(c),
         Audited(c)', AuditPlan(c)'
  PROVE  AuditedBeforeRelease' /\ \A d \in Calls : AuditPlan(d)'
<1>1. ASSUME NEW d \in Calls PROVE Audited(d)' /\ AuditPlan(d)'
  <2>1. CASE d = c
    BY <2>1
  <2>2. CASE d # c
    <3>1. AuditPlan(d)'
      BY <2>2 DEF AuditInv, AuditPlan, AuditOthersStay
    <3>2. lock[d] = "allow" => reservation'[key[d]] = reservation[key[d]]
      <4>1. lock'[c] = "allow" /\ lock[d] = "allow" => key[d] # key[c]
        BY <2>2 DEF LockInv, OneHolderPerQuote, AuditOthersStay
      <4> QED BY <4>1 DEF AuditInv, LockInv, TypeOK, AuditOthersStay
    <3>3. Audited(d)'
      BY <2>2, <3>2 DEF AuditInv, AuditedBeforeRelease, Audited, AuditOthersStay
    <3> QED BY <3>1, <3>3
  <2> QED BY <2>1, <2>2
<1> QED BY <1>1 DEF AuditedBeforeRelease

LEMMA CallAuditInv ==
  ASSUME AuditInv, LockInv', NEW c \in Calls, Begin(c) \/ RunStep(c) \/ CawAnswers(c)
  PROVE  AuditOthersStay(c) /\ Audited(c)' /\ AuditPlan(c)'
<1>1. /\ Audited(c) /\ AuditPlan(c) /\ PlaceOf(c) /\ PlaceOf(c)'
      /\ TypeOK /\ key[c] \in Keys
  BY DEF AuditInv, AuditedBeforeRelease, LockInv, PlaceOK, TypeOK
<1>2. lock[c] = "allow" /\ pc[c] \in {"receipt", "event", "timeline"}
        => reservation[key[c]] \in {"reserved", "spent"}
  BY DEF AuditInv, LockInv, RowsMatchHolder, RowsFollow, RowsOf, Reserved, Spent
<1> USE <1>1, <1>2
    DEF TypeOK, QuoteLockTypeOK, Goto, Decide, rows, callVars, logVars, Decisions, PlaceOf,
        AuditOthersStay, Audited, AuditPlan
<1>3. CASE Begin(c)
  BY <1>3 DEF Begin
<1>4. ASSUME NEW d \in {"block", "fallback_required"}, RejectBeforeLock(c, d)
      PROVE  AuditOthersStay(c) /\ Audited(c)' /\ AuditPlan(c)'
  BY <1>4 DEF RejectBeforeLock
<1>5. CASE ThrowBeforeLock(c)
  BY <1>5 DEF ThrowBeforeLock
<1>6. CASE ClearSignThrows(c)
  BY <1>6 DEF ClearSignThrows
<1>7. CASE CallCaw(c)
  BY <1>7 DEF CallCaw
<1>8. CASE Reserve(c)
  BY <1>8 DEF Reserve, ReserveQuoteAndBudget
<1>9. CASE Refuse(c)
  BY <1>9 DEF Refuse, RefuseReservation
<1>10. CASE ClearSignBlocks(c)
  BY <1>10 DEF ClearSignBlocks
<1>11. CASE MarkSpent(c)
  BY <1>11 DEF MarkSpent, SetReservation
<1>12. CASE MarkQuoteSpent(c)
  BY <1>12 DEF MarkQuoteSpent, SpendQuote
<1>13. CASE PostSpend(c)
  BY <1>13 DEF PostSpend, SpendLedger, SettleLedger
<1>14. CASE ReceiptVerified(c)
  BY <1>14 DEF ReceiptVerified
<1>15. CASE ReceiptBlocked(c)
  BY <1>15 DEF ReceiptBlocked
<1>16. CASE ReceiptThrows(c)
  BY <1>16 DEF ReceiptThrows
<1>17. CASE RecordGuardEvent(c)
  BY <1>17 DEF RecordGuardEvent
<1>18. CASE RecordTimelineEvent(c)
  BY <1>18 DEF RecordTimelineEvent, AfterTimeline
<1>19. CASE Release(c)
  BY <1>19 DEF Release, SetReservation
<1>20. CASE Dispute(c)
  BY <1>20 DEF Dispute, SetReservation
<1>21. CASE Void(c)
  BY <1>21 DEF Void, VoidLedger, SettleLedger
<1>22. CASE CawRequiresApproval(c) \/ CawRequiresFallback(c) \/ CawDenies(c)
  BY <1>22 DEF CawRequiresApproval, CawRequiresFallback, CawDenies, CawNotPaid
<1>23. CASE CawEvidenceIncomplete(c) \/ CacheUnsafe(c)
  BY <1>23 DEF CawEvidenceIncomplete, CacheUnsafe, CawNotPaid
<1>24. CASE CawPays(c) \/ CawRejects(c)
  BY <1>24 DEF CawPays, CawRejects
<1> QED
  BY <1>3, <1>4, <1>5, <1>6, <1>7, <1>8, <1>9, <1>10, <1>11, <1>12, <1>13, <1>14,
     <1>15, <1>16, <1>17, <1>18, <1>19, <1>20, <1>21, <1>22, <1>23, <1>24
  DEF RunStep, BindingRejects, RegistryRejects, TrustRejects, MetadataRejects,
      ProviderQuoteRejects, CawAnswers

LEMMA NextAuditInv == AuditInv /\ [Next]_vars => AuditInv'
<1> SUFFICES ASSUME AuditInv, [Next]_vars PROVE AuditInv'
  OBVIOUS
<1>1. LockInv /\ LockInv'
  BY NextLockInv DEF AuditInv
<1>2. ASSUME NEW c \in Calls, Begin(c) \/ RunStep(c) \/ CawAnswers(c) PROVE AuditInv'
  <2>1. AuditedBeforeRelease' /\ \A d \in Calls : AuditPlan(d)'
    BY <1>1, <1>2, CallAuditInv, AuditMoves
  <2> QED BY <1>1, <2>1 DEF AuditInv
<1>3. ASSUME NEW m \in Missions, NEW b \in Limits, CreateMission(m, b) PROVE AuditInv'
  BY <1>1, <1>3 DEF CreateMission, callVars, logVars, AuditInv, AuditedBeforeRelease,
                    Audited, AuditPlan
<1>4. CASE Crash
  BY <1>1, <1>4 DEF Crash, rows, callVars, logVars, AuditInv, AuditedBeforeRelease,
                    Audited, AuditPlan, LockInv, TypeOK
<1>5. CASE UNCHANGED vars
  BY <1>1, <1>5 DEF vars, rows, callVars, logVars, AuditInv, AuditedBeforeRelease,
                    Audited, AuditPlan
<1> QED BY <1>2, <1>3, <1>4, <1>5 DEF Next

(***************************************************************************)
(* Budget is given back, and a payment contested, only when the audit rows *)
(* that say why are there.                                                 *)
(***************************************************************************)
THEOREM AuditTrail == Spec => []AuditedBeforeRelease
<1>1. Init => AuditInv
  <2> SUFFICES ASSUME Init PROVE AuditInv
    OBVIOUS
  <2>1. LockInv
    BY InitLockInv
  <2> QED BY <2>1 DEF Init, AuditInv, AuditedBeforeRelease, Audited, AuditPlan
<1>2. AuditInv => AuditedBeforeRelease
  BY DEF AuditInv
<1> QED BY <1>1, <1>2, NextAuditInv, PTL DEF Spec
-----------------------------------------------------------------------------
(***************************************************************************)
(* The steps that write the ledger, and the others.                        *)
(***************************************************************************)
LEMMA LedgerWriters ==
  ASSUME LockInv, [Next]_vars
  PROVE  \/ UNCHANGED ledger
         \/ \E c \in Calls : Reserve(c) \/ PostSpend(c) \/ Void(c)
<1>1. ASSUME NEW m \in Missions, NEW b \in Limits, CreateMission(m, b) PROVE UNCHANGED ledger
  BY <1>1 DEF CreateMission
<1>2. ASSUME NEW c \in Calls, Begin(c) \/ CawAnswers(c) PROVE UNCHANGED ledger
  BY <1>2 DEF Begin, CawAnswers, CawRequiresApproval, CawRequiresFallback, CawDenies,
              CawEvidenceIncomplete, CacheUnsafe, CawNotPaid, CawPays, CawRejects, rows
<1>3. ASSUME NEW c \in Calls, RunStep(c), ~ Reserve(c), ~ PostSpend(c), ~ Void(c)
      PROVE  UNCHANGED ledger
  BY <1>3 DEF RunStep, BindingRejects, RegistryRejects, TrustRejects, MetadataRejects,
              ProviderQuoteRejects, RejectBeforeLock, ThrowBeforeLock, Refuse,
              RefuseReservation, ClearSignBlocks, ClearSignThrows, CallCaw, MarkSpent,
              MarkQuoteSpent, SetReservation, SpendQuote, ReceiptVerified, ReceiptBlocked,
              ReceiptThrows, RecordGuardEvent, RecordTimelineEvent, Release, Dispute, rows
<1>4. CASE Crash \/ UNCHANGED vars
  BY <1>4 DEF Crash, vars, rows
<1> QED BY <1>1, <1>2, <1>3, <1>4 DEF Next

LEMMA SettlersFindTheirRows ==
  ASSUME LockInv, NEW c \in Calls
  PROVE  /\ PostSpend(c) => RowsOf(key[c]) = Unposted /\ key[c] \in Keys
         /\ Void(c) => RowsOf(key[c]) = HalfReleased /\ key[c] \in Keys
BY DEF LockInv, TypeOK, PlaceOK, PlaceOf, RowsMatchHolder, RowsFollow, PostSpend, Void

(***************************************************************************)
(* No step raises the exposure of a mission above the budget it records.   *)
(***************************************************************************)
THEOREM ExposureBounded == Spec => ExposureWithinLimit
<1>1. LockInv /\ [Next]_vars => ExposureStep
  <2> SUFFICES ASSUME LockInv, [Next]_vars, NEW m \in Missions, Exposure(m)' > Exposure(m)
               PROVE  Exposure(m)' <= budget'[m]
    BY DEF ExposureStep
  <2>1. /\ TypeOK /\ QuoteLockTypeOK
        /\ Exposure(m) \in Nat /\ Exposure(m)' \in Nat
    <3>1. QuoteLockTypeOK /\ QuoteLockTypeOK'
      BY NextTypeOK DEF LockInv, TypeOK
    <3> QED BY <3>1, ExposureType, ExposureTypeNext DEF LockInv
  <2>2. CASE UNCHANGED ledger
    <3>1. Exposures' = Exposures
      BY <2>2, LedgerKeepsExposures
    <3>2. Exposures'[m] = Exposure(m)' /\ Exposures[m] = Exposure(m)
      BY DEF Exposures
    <3> QED BY <2>1, <3>1, <3>2
  <2>3. ASSUME NEW c \in Calls, Reserve(c) PROVE Exposure(m)' <= budget'[m]
    <3> PICK k \in Keys, a \in Nat, l \in Limits : k = key[c] /\ a = amount[c] /\ l = limit[c]
      BY <2>1, GuardPipelineAssumption DEF TypeOK
    <3>1. ReserveQuoteAndBudget(k, a, l) /\ RowsOf(k) = Unused
      BY <2>3, ReserveFindsUnused DEF Reserve
    <3>2. Exposure(m)' = IF m = k[1] THEN Exposure(m) + a ELSE Exposure(m)
      BY <2>1, <3>1, ReserveExposure
    <3>3. m = k[1]
      BY <2>1, <3>2
    <3>4. Exposure(m) + a <= l /\ budget'[m] = l
      BY <2>1, <3>1, <3>3 DEF ReserveQuoteAndBudget, FitsBudget, EnsureMission, QuoteLockTypeOK
    <3> QED BY <3>2, <3>3, <3>4
  <2>4. ASSUME NEW c \in Calls, PostSpend(c) PROVE FALSE
    <3>1. Exposure(m)' = Exposure(m)
      BY <2>1, <2>4, SettlersFindTheirRows, PostKeepsExposure DEF PostSpend
    <3> QED BY <2>1, <3>1
  <2>5. ASSUME NEW c \in Calls, Void(c) PROVE FALSE
    <3>1. Exposure(m)' <= Exposure(m)
      BY <2>1, <2>5, SettlersFindTheirRows, VoidExposure DEF Void
    <3> QED BY <2>1, <3>1
  <2> QED BY <2>2, <2>3, <2>4, <2>5, LedgerWriters
<1> QED BY <1>1, LockInvariant, PTL DEF Spec, ExposureWithinLimit
-----------------------------------------------------------------------------
LEMMA LockInitImplements == Init => Abstract!Init
BY InitialLock DEF Init, Abstract!Init, Abstract!Keys, Keys

LEMMA LockStepImplements ==
  ASSUME LockInv, [Next]_vars
  PROVE  Abstract!Next \/ UNCHANGED Abstract!vars
<1>1. TypeOK /\ QuoteLockTypeOK
  BY DEF LockInv, TypeOK
<1>2. ASSUME NEW m \in Missions, NEW b \in Limits, EnsureMission(m, b),
             UNCHANGED <<reservation, ledger>>
      PROVE  Abstract!Next
  <2>1. Abstract!SetBudget(m, b)
    BY <1>2, UntouchedIsSilent DEF EnsureMission, Abstract!SetBudget
  <2> QED BY <2>1 DEF Abstract!Next
<1>3. ASSUME NEW m \in Missions, NEW b \in Limits, CreateMission(m, b) PROVE Abstract!Next
  BY <1>2, <1>3 DEF CreateMission
<1>4. ASSUME NEW c \in Calls, Begin(c) \/ RunStep(c) \/ CawAnswers(c)
      PROVE  Abstract!Next \/ UNCHANGED Abstract!vars
  <2> PICK k \in Keys, a \in Amounts, l \in Limits : k = key[c] /\ a = amount[c] /\ l = limit[c]
    BY <1>1 DEF TypeOK
  <2>1. k \in Abstract!Keys /\ k[1] \in Missions /\ a \in Nat
    BY GuardPipelineAssumption DEF Keys, Abstract!Keys
  <2>2. CASE Reserve(c)
    <3>1. ReserveQuoteAndBudget(k, a, l) /\ RowsOf(k) = Unused
      BY <2>2, ReserveFindsUnused DEF Reserve
    <3>2. Abstract!Hold(k, a, l)
      BY <1>1, <2>1, <3>1, ReservingHolds DEF Abstract!Hold
    <3> QED BY <2>1, <3>2 DEF Abstract!Next
  <2>3. CASE Refuse(c)
    BY <1>2, <2>1, <2>3 DEF Refuse, RefuseReservation
  <2>4. CASE PostSpend(c)
    <3>1. Abstract!Spend(k)
      BY <1>1, <2>4, SettlersFindTheirRows, PostingSpends DEF PostSpend, Abstract!Spend
    <3> QED BY <2>1, <3>1 DEF Abstract!Next
  <2>5. CASE Void(c)
    <3>1. Abstract!GiveBack(k)
      BY <1>1, <2>5, SettlersFindTheirRows, VoidingGivesBack DEF Void, Abstract!GiveBack
    <3> QED BY <2>1, <3>1 DEF Abstract!Next
  <2>6. CASE Dispute(c)
    <3>1. SetReservation(k, "disputed") /\ RowsOf(k) \in {Reserved, Spent}
      BY <2>6 DEF LockInv, PlaceOK, PlaceOf, RowsMatchHolder, RowsFollow, Dispute
    <3>2. Abstract!Contest(k)
      BY <1>1, <3>1, DisputingContests DEF Abstract!Contest
    <3> QED BY <2>1, <3>2 DEF Abstract!Next
  <2>7. CASE MarkSpent(c) \/ Release(c)
    <3>1. RowsOf(k) = Reserved
      BY <2>7 DEF LockInv, PlaceOK, PlaceOf, RowsMatchHolder, RowsFollow, MarkSpent, Release
    <3>2. SetReservation(k, "spent") \/ SetReservation(k, "released")
      BY <2>7 DEF MarkSpent, Release
    <3> QED BY <1>1, <3>1, <3>2, MarkingIsSilent DEF Abstract!vars
  <2>8. ASSUME ~ Reserve(c), ~ Refuse(c), ~ PostSpend(c), ~ Void(c), ~ Dispute(c),
               ~ MarkSpent(c), ~ Release(c)
        PROVE  UNCHANGED Abstract!vars
    <3>1. UNCHANGED <<budget, reservation, ledger>>
      BY <1>4, <2>8
         DEF Begin, RunStep, BindingRejects, RegistryRejects, TrustRejects, MetadataRejects,
             ProviderQuoteRejects, RejectBeforeLock, ThrowBeforeLock, ClearSignBlocks,
             ClearSignThrows, CallCaw, CawAnswers, CawRequiresApproval, CawRequiresFallback,
             CawDenies, CawEvidenceIncomplete, CacheUnsafe, CawNotPaid, CawPays, CawRejects,
             MarkQuoteSpent, SpendQuote, ReceiptVerified, ReceiptBlocked, ReceiptThrows,
             RecordGuardEvent, RecordTimelineEvent, rows
    <3> QED BY <3>1, UntouchedIsSilent DEF Abstract!vars
  <2> QED BY <2>2, <2>3, <2>4, <2>5, <2>6, <2>7, <2>8
<1>5. CASE Crash \/ UNCHANGED vars
  <2>1. UNCHANGED <<budget, reservation, ledger>>
    BY <1>5 DEF Crash, vars, rows
  <2> QED BY <2>1, UntouchedIsSilent DEF Abstract!vars
<1> QED BY <1>3, <1>4, <1>5 DEF Next

(***************************************************************************)
(* The statements of concurrent, failing and crashing calls implement the  *)
(* abstract lock.                                                          *)
(***************************************************************************)
THEOREM PipelineImplementsLock == Spec => ImplementsBudgetLock
<1>1. LockInv /\ [Next]_vars => [Abstract!Next]_(Abstract!vars)
  BY LockStepImplements
<1> QED
  BY <1>1, LockInitImplements, LockInvariant, PTL DEF Spec, ImplementsBudgetLock, Abstract!Spec
=============================================================================
