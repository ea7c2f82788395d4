------------------------ MODULE GuardedPayment_proofs ------------------------
(***************************************************************************)
(* Proofs about GuardedPayment, for any inputs and answers: it implements  *)
(* GuardPipeline, what is paid is what was bound and reviewed, a paid      *)
(* reservation is never released, what is allowed was delivered, and a     *)
(* call ends at the layer that its input and the answer of the CAW name.   *)
(* From the last follows what the attack lab answers, for any number of    *)
(* calls and at any time.                                                  *)
(***************************************************************************)
EXTENDS AttackLab, GuardPipeline_proofs, SequenceTheorems, WellFoundedInduction

(***************************************************************************)
(* Each guarded step is a step of GuardPipeline.                           *)
(***************************************************************************)
LEMMA StepImplements ==
  ASSUME NEW c \in Calls, GuardedStep(c)
  PROVE  Begin(c) \/ RunStep(c) \/ CawAnswers(c)
BY DEF GuardedStep, Bookkeeping, GuardedBindingRejects, GuardedRegistryRejects,
       GuardedTrustRejects, GuardedMetadataRejects, GuardedProviderQuoteRejects,
       GuardedThrowBeforeLock, GuardedReserve, GuardedRefuse, GuardedClearSignBlocks,
       GuardedClearSignThrows, GuardedCallCaw, GuardedCawAnswers, GuardedCawRequiresApproval,
       GuardedCawRequiresFallback, GuardedCawDenies, GuardedCawEvidenceIncomplete,
       GuardedCacheUnsafe, GuardedCawPays, GuardedCawRejects, GuardedReceiptVerified,
       GuardedReceiptBlocked, GuardedReceiptThrows, RunStep, CawAnswers

LEMMA NextImplements == [GuardedNext]_guardedVars => [Next]_vars
BY StepImplements DEF GuardedNext, guardedVars, Next

(***************************************************************************)
(* The pipeline with the decisions of its layers implements the pipeline   *)
(* in which they may decide anything, so that all that is proved of        *)
(* GuardPipeline holds of it.                                              *)
(***************************************************************************)
THEOREM GuardedImplements == GuardedSpec => Spec
<1>1. GuardedInit => Init
  BY DEF GuardedInit
<1> QED BY <1>1, NextImplements, PTL DEF GuardedSpec, Spec

(***************************************************************************)
(* The lock's invariant, with the decisions of the layers.                 *)
(***************************************************************************)
THEOREM GuardedLockInvariant == GuardedSpec => []LockInv
BY GuardedImplements, LockInvariant, PTL

(***************************************************************************)
(* So does the abstract lock, and no reservation of a guarded call raises  *)
(* the exposure of its mission beyond the limit of the call.               *)
(***************************************************************************)
THEOREM GuardedImplementsLock == GuardedSpec => ImplementsBudgetLock
BY GuardedImplements, PipelineImplementsLock, PTL

THEOREM GuardedExposureBounded == GuardedSpec => ExposureWithinLimit
BY GuardedImplements, ExposureBounded, PTL
-----------------------------------------------------------------------------
(***************************************************************************)
(* What a call asks the adapter for was let through by every layer and can *)
(* be signed.                                                              *)
(***************************************************************************)
LayersHold == \A c \in Calls : lock[c] = "allow" => PassesLayers(input[c])

AskedIsReady ==
  \A c \in Calls :
    asked[c] # NotAsked =>
      /\ lock[c] = "allow"
      /\ ReadyForCaw(input[c])
      /\ LocalDecision(input[c]) = "none"
      /\ asked[c] = CawRequest(input[c])

DomainsOK == DOMAIN lock = Calls /\ DOMAIN asked = Calls /\ DOMAIN answer = Calls

AskInv == DomainsOK /\ LayersHold /\ AskedIsReady

(***************************************************************************)
(* The layers alone make an input bound: the resource, the payee, the      *)
(* facilitator and the time.                                               *)
(***************************************************************************)
LEMMA LayersBind ==
  ASSUME NEW i, PassesLayers(i)
  PROVE  /\ RequestsChallenged(i)
         /\ CanonicalUrl(i.metadata.url) = CanonicalUrl(i.request.url)
         /\ i.challenge.payTo \in {i.entry.merchant} \cap {i.trust.payTo}
         /\ i.challenge.facilitator = i.entry.facilitator
         /\ ExpiresAt(i) > i.request.now
<1>1. Bound(i) /\ Normalizes(i) /\ RegistryAllows(i) /\ ~ TrustBlocks(i)
      /\ TrustSource(i) # "unavailable" /\ MetadataBound(i)
  BY DEF PassesLayers, Screened, Trusted, Listed
<1>2. RequestsChallenged(i)
  BY <1>1 DEF Bound
<1>3. CanonicalUrl(i.metadata.url) = CanonicalUrl(i.request.url)
  BY <1>1 DEF MetadataBound
<1>4. i.entry.merchant = i.challenge.payTo /\ i.challenge.facilitator = i.entry.facilitator
  BY <1>1 DEF RegistryAllows
<1>5. i.trust.payTo = i.challenge.payTo
  BY <1>1 DEF TrustBlocks
<1>6. ExpiresAt(i) > i.request.now
  BY <1>1 DEF Normalizes
<1> QED BY <1>2, <1>3, <1>4, <1>5, <1>6

(***************************************************************************)
(* Clear signing makes a contract call pay what the challenge says.        *)
(***************************************************************************)
LEMMA ReviewedCallIsSafe ==
  ASSUME NEW i, ReadyForCaw(i), LocalDecision(i) = "none", i.order.operation = "contract_call"
  PROVE  CalldataIsSafe(ClearSignInput(i))
<1>1. ReviewedCalldata(i).form # "none"
  BY DEF LocalDecision, CannotAsk
<1>2. ClearSignInput(i).calldata = ReviewedCalldata(i)
  BY DEF ClearSignInput
<1>3. ClearSignResult(ClearSignInput(i)) # "block"
  BY DEF ReadyForCaw, ClearSigned
<1> QED BY <1>1, <1>2, <1>3 DEF ClearSignResult

LEMMA AskedAsReviewed ==
  ASSUME NEW i, PassesLayers(i), ReadyForCaw(i), LocalDecision(i) = "none"
  PROVE  AsksAsReviewed(i, CawRequest(i))
<1>1. i.entry.merchant = i.challenge.payTo
  BY LayersBind
<1>2. CASE i.order.operation = "transfer"
  BY <1>1, <1>2 DEF AsksAsReviewed, PaysMerchant, CawRequest
<1>3. CASE Escrowed(i)
  <2>1. i.order.operation = "contract_call" /\ i.order.serviceMode = "escrowed-delivery"
    BY <1>3 DEF Escrowed
  <2>2. i.order.escrow # None
    BY <1>3 DEF ReadyForCaw, EscrowMissing
  <2>3. /\ CawRequest(i).operation = "contract_call"
        /\ CawRequest(i).to = i.order.escrow
        /\ CawRequest(i).amount = i.challenge.amount
        /\ CawRequest(i).calldata = ReviewedCalldata(i)
    BY <2>1, <2>2 DEF CawRequest
  <2>4. ReviewedCalldata(i).selector = "fund" /\ ReviewedCalldata(i).params = FundParams(i)
    BY <1>3 DEF ReviewedCalldata
  <2>5. FundsEscrow(i, CawRequest(i))
    BY <1>1, <2>2, <2>3, <2>4 DEF FundsEscrow, FundParams
  <2> QED BY <2>1, <2>3, <2>5 DEF AsksAsReviewed
<1>4. CASE i.order.operation = "contract_call" /\ ~ Escrowed(i)
  <2> DEFINE s == ClearSignInput(i)
             r == CawRequest(i)
  <2>1. /\ s.calldata = ReviewedCalldata(i)
        /\ s.expected.merchant = i.challenge.payTo
        /\ s.expected.amount = i.challenge.amount
        /\ s.expected.context = "own"
        /\ s.expected.selectors = AllowedSelectors(i)
        /\ s.expected.spenders = AllowedSpenders(i)
    BY <1>1, <1>4 DEF ClearSignInput, AllowedSelectors, AllowedSpenders
  <2>2. CalldataIsSafe(s)
    BY <1>4, ReviewedCallIsSafe
  <2>3. s.calldata = i.calldata
    BY <1>4, <2>1, <2>2 DEF ReviewedCalldata, CalldataIsSafe
  <2>4. /\ r.operation = "contract_call"
        /\ r.to \in {i.challenge.payTo, i.order.escrow}
        /\ r.amount = i.challenge.amount
        /\ r.calldata = i.calldata
    BY <1>1, <1>4, <2>1, <2>3 DEF CawRequest
  <2> HIDE DEF s, r
  <2>5. CallsAsReviewed(i, r)
    BY <2>1, <2>2, <2>3, <2>4
    DEF CallsAsReviewed, CalldataIsSafe, ApprovesSafely, TransfersAsExpected, NestsOnlyAllowed,
        SettlesOwnContext
  <2> QED BY <1>4, <2>4, <2>5 DEF AsksAsReviewed, Escrowed, r
<1>5. CASE i.order.operation \notin {"transfer", "contract_call"}
  <2>1. i.order.message
    BY <1>5 DEF LocalDecision, CannotAsk
  <2>2. CawRequest(i).operation = "message_sign"
    BY <1>5 DEF CawRequest
  <2> QED BY <2>1, <2>2 DEF AsksAsReviewed
<1> QED BY <1>2, <1>3, <1>4, <1>5

(***************************************************************************)
(* A step keeps what was asked and let through, for every call.            *)
(***************************************************************************)
LEMMA AskedStays ==
  ASSUME AskInv, UNCHANGED <<lock, input, asked>>, DOMAIN answer' = Calls
  PROVE  AskInv'
BY DEF AskInv, DomainsOK, LayersHold, AskedIsReady

(***************************************************************************)
(* The steps other than the reservation, its refusal and the CAW call.     *)
(***************************************************************************)
PlainStep(c) ==
  \/ GuardedBindingRejects(c) \/ GuardedRegistryRejects(c) \/ GuardedTrustRejects(c)
  \/ GuardedMetadataRejects(c) \/ GuardedProviderQuoteRejects(c) \/ GuardedThrowBeforeLock(c)
  \/ GuardedClearSignBlocks(c) \/ GuardedClearSignThrows(c) \/ GuardedCawAnswers(c)
  \/ GuardedReceiptVerified(c) \/ GuardedReceiptBlocked(c) \/ GuardedReceiptThrows(c)
  \/ Bookkeeping(c) /\ Silently

LEMMA PlainStepKeeps ==
  ASSUME NEW c \in Calls, PlainStep(c)
  PROVE  /\ UNCHANGED <<lock, input, asked, key>>
         /\ answer' = answer \/ \E a : answer' = [answer EXCEPT ![c] = a]
<1> USE DEF At, Silently, guardVars, callVars, Decide, Answered
<1>1. CASE \/ GuardedBindingRejects(c) \/ GuardedRegistryRejects(c) \/ GuardedTrustRejects(c)
           \/ GuardedMetadataRejects(c) \/ GuardedProviderQuoteRejects(c)
           \/ GuardedThrowBeforeLock(c)
  BY <1>1 DEF GuardedBindingRejects, BindingRejects, GuardedRegistryRejects, RegistryRejects,
              GuardedTrustRejects, TrustRejects, GuardedMetadataRejects, MetadataRejects,
              GuardedProviderQuoteRejects, ProviderQuoteRejects, RejectBeforeLock,
              GuardedThrowBeforeLock, ThrowBeforeLock
<1>2. CASE GuardedClearSignBlocks(c) \/ GuardedClearSignThrows(c)
  BY <1>2 DEF GuardedClearSignBlocks, ClearSignBlocks, GuardedClearSignThrows, ClearSignThrows
<1>3. CASE GuardedCawAnswers(c)
  BY <1>3 DEF GuardedCawAnswers, GuardedCawRequiresApproval, CawRequiresApproval,
              GuardedCawRequiresFallback, CawRequiresFallback, GuardedCawDenies, CawDenies,
              GuardedCawEvidenceIncomplete, CawEvidenceIncomplete, GuardedCacheUnsafe,
              CacheUnsafe, GuardedCawPays, CawPays, GuardedCawRejects, CawRejects, CawNotPaid
<1>4. CASE GuardedReceiptVerified(c) \/ GuardedReceiptBlocked(c) \/ GuardedReceiptThrows(c)
  BY <1>4 DEF GuardedReceiptVerified, ReceiptVerified, GuardedReceiptBlocked, ReceiptBlocked,
              GuardedReceiptThrows, ReceiptThrows
<1>5. CASE Bookkeeping(c) /\ Silently
  BY <1>5 DEF Bookkeeping, Begin, MarkSpent, MarkQuoteSpent, PostSpend, RecordGuardEvent,
              RecordTimelineEvent, Release, Void, Dispute
<1> QED BY <1>1, <1>2, <1>3, <1>4, <1>5 DEF PlainStep

LEMMA StepAskInv ==
  ASSUME AskInv, LockInv, NEW c \in Calls, GuardedStep(c)
  PROVE  AskInv'
<1>1. CASE PlainStep(c)
  <2>1. UNCHANGED <<lock, input, asked>> /\ DOMAIN answer' = Calls
    BY <1>1, PlainStepKeeps DEF AskInv, DomainsOK
  <2> QED BY <2>1, AskedStays
<1>2. CASE GuardedReserve(c)
  <2>1. /\ UNCHANGED <<input, asked, answer>>
        /\ lock' = [lock EXCEPT ![c] = "allow"]
        /\ PassesLayers(input[c])
    BY <1>2 DEF GuardedReserve, Reserve, Silently, guardVars
  <2> QED BY <2>1 DEF AskInv, DomainsOK, LayersHold, AskedIsReady
<1>3. CASE GuardedRefuse(c)
  <2>1. /\ UNCHANGED <<input, asked, answer>>
        /\ lock' = [lock EXCEPT ![c] = "block"]
        /\ lock[c] = "none"
    BY <1>3 DEF GuardedRefuse, Refuse, At, LockInv, PlaceOK, PlaceOf
  <2> QED BY <2>1 DEF AskInv, DomainsOK, LayersHold, AskedIsReady
<1>4. CASE GuardedCallCaw(c)
  <2>1. /\ UNCHANGED <<input, lock, answer>>
        /\ lock[c] = "allow"
        /\ ReadyForCaw(input[c])
        /\ asked' = [asked EXCEPT ![c] =
             IF LocalDecision(input[c]) = "none" THEN CawRequest(input[c]) ELSE NotAsked]
    BY <1>4 DEF GuardedCallCaw, CallCaw, callVars, LockInv, PlaceOK, PlaceOf
  <2> QED BY <2>1 DEF AskInv, DomainsOK, LayersHold, AskedIsReady
<1> QED BY <1>1, <1>2, <1>3, <1>4 DEF GuardedStep, PlainStep

LEMMA NextAskInv == AskInv /\ LockInv /\ [GuardedNext]_guardedVars => AskInv'
<1> SUFFICES ASSUME AskInv, LockInv, [GuardedNext]_guardedVars PROVE AskInv'
  OBVIOUS
<1>1. ASSUME NEW m \in Missions, NEW b \in Limits, CreateMission(m, b) /\ Silently PROVE AskInv'
  BY <1>1, AskedStays DEF CreateMission, callVars, Silently, guardVars, AskInv, DomainsOK
<1>2. CASE Crash /\ Silently
  BY <1>2, AskedStays DEF Crash, callVars, Silently, guardVars, AskInv, DomainsOK
<1>3. CASE UNCHANGED guardedVars
  BY <1>3, AskedStays DEF guardedVars, vars, callVars, guardVars, AskInv, DomainsOK
<1> QED BY <1>1, <1>2, <1>3, StepAskInv DEF GuardedNext

NothingAsked ==
  /\ answer = [c \in Calls |-> NoAnswer]
  /\ layer = [c \in Calls |-> "none"]
  /\ asked = [c \in Calls |-> NotAsked]

LEMMA InitAskInv == Init /\ NothingAsked => AskInv
BY DEF NothingAsked, Init, AskInv, DomainsOK, LayersHold, AskedIsReady

LEMMA InitNothingAsked == GuardedInit => Init /\ NothingAsked
BY DEF GuardedInit, NothingAsked

(***************************************************************************)
(* The wallet is asked only for what the layers bound and clear signing    *)
(* reviewed, for any input a call is given.                                *)
(***************************************************************************)
THEOREM PaidBound == GuardedSpec => []PaidIsBound
<1>1. AskInv => PaidIsBound
  <2> SUFFICES ASSUME AskInv, NEW c \in Calls, asked[c] # NotAsked
               PROVE  /\ lock[c] = "allow"
                      /\ RequestsChallenged(input[c])
                      /\ CanonicalUrl(input[c].metadata.url) = CanonicalUrl(input[c].request.url)
                      /\ input[c].challenge.payTo \in
                           {input[c].entry.merchant} \cap {input[c].trust.payTo}
                      /\ input[c].challenge.facilitator = input[c].entry.facilitator
                      /\ ExpiresAt(input[c]) > input[c].request.now
                      /\ AsksAsReviewed(input[c], asked[c])
    BY DEF PaidIsBound
  <2>1. /\ lock[c] = "allow" /\ PassesLayers(input[c]) /\ ReadyForCaw(input[c])
        /\ LocalDecision(input[c]) = "none" /\ asked[c] = CawRequest(input[c])
    BY DEF AskInv, LayersHold, AskedIsReady
  <2> QED BY <2>1, LayersBind, AskedAsReviewed
<1> QED
  BY <1>1, InitNothingAsked, InitAskInv, NextAskInv, GuardedLockInvariant, PTL DEF GuardedSpec
-----------------------------------------------------------------------------
(***************************************************************************)
(* Once the adapter reported a payment, its call is past the CAW, on no    *)
(* branch that gives the budget back, and its reservation is kept.         *)
(***************************************************************************)
Paid(c) == answer[c].decision # "none" /\ Accepts(answer[c])

AfterPaid ==
  {"spend", "spend_quote", "spend_ledger", "receipt", "event", "timeline", "dispute",
   "threw", "lost", "replied"}

Kept == {"reserved", "spent", "disputed"}

PaidOf(c) ==
  /\ lock[c] = "allow"
  /\ pc[c] \in AfterPaid
  /\ pc[c] \in {"event", "timeline"} => reply[c] \in {"completed", "disputed"}
  /\ reservation[key[c]] \in Kept

PaidInv == \A c \in Calls : Paid(c) => PaidOf(c)

(***************************************************************************)
(* A step of one call keeps what is paid if it keeps the reservation of    *)
(* its quote, or releases it as the holder that did not pay.               *)
(***************************************************************************)
KeepsReservation(c) ==
  \/ reservation' = reservation
  \/ \E s \in Kept : reservation' = [reservation EXCEPT ![key[c]] = s]
  \/ pc[c] = "release" /\ reservation' = [reservation EXCEPT ![key[c]] = "released"]

OtherCallsStay(c) ==
  /\ key' = key
  /\ \A d \in Calls \ {c} :
       /\ pc'[d] = pc[d] /\ lock'[d] = lock[d] /\ reply'[d] = reply[d]
       /\ answer'[d] = answer[d]

LEMMA PaidMoves ==
  ASSUME LockInv, PaidInv, NEW c \in Calls, OtherCallsStay(c), KeepsReservation(c),
         Paid(c)' => PaidOf(c)'
  PROVE  PaidInv'
<1>1. ASSUME NEW d \in Calls, d # c, Paid(d)' PROVE PaidOf(d)'
  <2>1. Paid(d) /\ PaidOf(d)
    BY <1>1 DEF Paid, Accepts, OtherCallsStay, PaidInv
  <2>2. /\ key[c] \in Keys /\ key[d] \in Keys
        /\ reservation \in [Keys -> {"none", "reserved", "spent", "released", "disputed"}]
    BY DEF LockInv, TypeOK, QuoteLockTypeOK
  <2>3. pc[c] = "release" => key[c] # key[d]
    BY <1>1, <2>1 DEF LockInv, PlaceOK, PlaceOf, OneHolderPerQuote, PaidOf
  <2>4. reservation'[key[d]] \in Kept
    BY <2>1, <2>2, <2>3 DEF KeepsReservation, PaidOf, Kept
  <2> QED
    BY <1>1, <2>1, <2>4 DEF PaidOf, OtherCallsStay
<1> QED
  BY <1>1 DEF PaidInv

(***************************************************************************)
(* Before the adapter answered there is no payment, and a call that was    *)
(* not paid stays so unless the adapter accepts it.                        *)
(***************************************************************************)
LEMMA PaidStep ==
  ASSUME LockInv, PaidInv, DOMAIN answer = Calls, NEW c \in Calls, GuardedStep(c)
  PROVE  PaidInv'
<1> key \in [Calls -> Keys] /\ pc \in [Calls -> {"idle"} \cup Running \cup Awaiting \cup Ended]
  BY DEF LockInv, TypeOK
<1> lock \in [Calls -> {"none", "allow", "block"}]
  BY DEF LockInv, TypeOK
<1> reply \in [Calls -> {"none", "blocked", "prepared", "disputed", "completed"}]
  BY DEF LockInv, TypeOK
<1> key[c] \in Keys
  OBVIOUS
<1> reservation \in [Keys -> {"none", "reserved", "spent", "released", "disputed"}]
  BY DEF LockInv, TypeOK, QuoteLockTypeOK
<1>p. Paid(c) => PaidOf(c)
  BY DEF PaidInv
<1>n. pc[c] \in {"layers", "clearsign", "caw", "release", "void", "idle"} => ~ Paid(c)
  BY <1>p DEF PaidOf, AfterPaid
<1> USE DEF OtherCallsStay, KeepsReservation, Goto, Decide, callVars, rows, logVars
<1>1. CASE \/ GuardedBindingRejects(c) \/ GuardedRegistryRejects(c) \/ GuardedTrustRejects(c)
           \/ GuardedMetadataRejects(c) \/ GuardedProviderQuoteRejects(c)
           \/ GuardedThrowBeforeLock(c)
  <2>1. pc[c] = "layers" /\ UNCHANGED answer /\ OtherCallsStay(c) /\ KeepsReservation(c)
    BY <1>1
    DEF At, Silently, guardVars,
        GuardedBindingRejects, BindingRejects, GuardedRegistryRejects, RegistryRejects,
        GuardedTrustRejects, TrustRejects, GuardedMetadataRejects, MetadataRejects,
        GuardedProviderQuoteRejects, ProviderQuoteRejects, RejectBeforeLock,
        GuardedThrowBeforeLock, ThrowBeforeLock
  <2>2. ~ Paid(c)'
    BY <1>n, <2>1 DEF Paid, Accepts
  <2> QED BY <2>1, <2>2, PaidMoves
<1>2. CASE GuardedReserve(c) \/ GuardedRefuse(c)
  <2>1. pc[c] = "layers" /\ UNCHANGED answer /\ OtherCallsStay(c) /\ KeepsReservation(c)
    BY <1>2
    DEF At, Silently, guardVars, GuardedReserve, Reserve, GuardedRefuse, Refuse,
        ReserveQuoteAndBudget, RefuseReservation, Kept
  <2>2. ~ Paid(c)'
    BY <1>n, <2>1 DEF Paid, Accepts
  <2> QED BY <2>1, <2>2, PaidMoves
<1>3. CASE GuardedClearSignBlocks(c) \/ GuardedClearSignThrows(c) \/ GuardedCallCaw(c)
  <2>1. pc[c] = "clearsign" /\ UNCHANGED answer /\ OtherCallsStay(c) /\ KeepsReservation(c)
    BY <1>3
    DEF At, Silently, guardVars, GuardedClearSignBlocks, ClearSignBlocks,
        GuardedClearSignThrows, ClearSignThrows, GuardedCallCaw, CallCaw
  <2>2. ~ Paid(c)'
    BY <1>n, <2>1 DEF Paid, Accepts
  <2> QED BY <2>1, <2>2, PaidMoves
<1>4. CASE GuardedCawAnswers(c)
  <2>0. pc[c] = "caw" => lock[c] = "allow" /\ reservation[key[c]] = "reserved"
    BY DEF LockInv, PlaceOK, PlaceOf, RowsMatchHolder, RowsFollow, RowsOf, Reserved
  <2>1. ASSUME NEW a, GuardedCawRequiresApproval(c, a) \/ GuardedCawRequiresFallback(c, a)
                      \/ GuardedCawDenies(c, a)
        PROVE  PaidInv'
    <3>1. pc[c] = "caw" /\ answer' = [answer EXCEPT ![c] = a] /\ ~ Accepts(a)
          /\ OtherCallsStay(c) /\ KeepsReservation(c)
      BY <2>1
      DEF Answered, GuardedCawRequiresApproval, CawRequiresApproval, CawNotPaid, Accepts,
          GuardedCawRequiresFallback, CawRequiresFallback, GuardedCawDenies, CawDenies
    <3>2. answer'[c] = a
      BY <3>1
    <3>3. ~ Paid(c)'
      BY <3>1, <3>2 DEF Paid, Accepts
    <3> QED BY <3>1, <3>3, PaidMoves
  <2>2. ASSUME NEW a, GuardedCawEvidenceIncomplete(c, a) \/ GuardedCacheUnsafe(c, a)
        PROVE  PaidInv'
    <3>1. pc[c] = "caw" /\ pc'[c] = "event" /\ reply'[c] = "disputed" /\ lock' = lock
          /\ reservation' = reservation /\ OtherCallsStay(c)
      BY <2>2
      DEF Answered, GuardedCawEvidenceIncomplete, CawEvidenceIncomplete, CawNotPaid,
          GuardedCacheUnsafe, CacheUnsafe
    <3>2. PaidOf(c)' /\ KeepsReservation(c)
      BY <2>0, <3>1 DEF PaidOf, AfterPaid, Kept
    <3> QED BY <3>1, <3>2, PaidMoves
  <2>3. ASSUME NEW a, GuardedCawPays(c, a) PROVE PaidInv'
    <3>1. pc[c] = "caw" /\ pc'[c] = "spend" /\ lock' = lock
          /\ reservation' = reservation /\ OtherCallsStay(c)
      BY <2>3 DEF Answered, GuardedCawPays, CawPays
    <3>2. PaidOf(c)' /\ KeepsReservation(c)
      BY <2>0, <3>1 DEF PaidOf, AfterPaid, Kept
    <3> QED BY <3>1, <3>2, PaidMoves
  <2>4. CASE GuardedCawRejects(c)
    <3>1. pc[c] = "caw" /\ UNCHANGED answer /\ OtherCallsStay(c) /\ KeepsReservation(c)
      BY <2>4 DEF GuardedCawRejects, CawRejects, Silently, guardVars
    <3>2. ~ Paid(c)'
      BY <1>n, <3>1 DEF Paid, Accepts
    <3> QED BY <3>1, <3>2, PaidMoves
  <2> QED BY <1>4, <2>1, <2>2, <2>3, <2>4 DEF GuardedCawAnswers
<1>5. CASE GuardedReceiptVerified(c) \/ GuardedReceiptBlocked(c) \/ GuardedReceiptThrows(c)
  <2>1. /\ UNCHANGED <<answer, key, lock, reservation>>
        /\ pc'[c] \in {"event", "threw"}
        /\ pc'[c] = "event" => reply'[c] \in {"completed", "disputed"}
        /\ OtherCallsStay(c)
    BY <1>5
    DEF At, Silently, guardVars, GuardedReceiptVerified, ReceiptVerified,
        GuardedReceiptBlocked, ReceiptBlocked, GuardedReceiptThrows, ReceiptThrows
  <2>2. KeepsReservation(c) /\ (Paid(c)' => PaidOf(c)')
    BY <1>p, <2>1 DEF Paid, Accepts, PaidOf, AfterPaid
  <2> QED BY <2>1, <2>2, PaidMoves
<1>6. CASE Bookkeeping(c) /\ Silently
  <2>u. UNCHANGED answer
    BY <1>6 DEF Silently, guardVars
  <2>1. CASE Begin(c)
    <3>1. pc[c] = "idle" /\ OtherCallsStay(c) /\ KeepsReservation(c)
      BY <2>u, <2>1 DEF Begin
    <3>2. ~ Paid(c)'
      BY <1>n, <2>u, <3>1 DEF Paid, Accepts
    <3> QED BY <3>1, <3>2, PaidMoves
  <2>2. CASE MarkSpent(c) \/ MarkQuoteSpent(c) \/ PostSpend(c)
    <3>1. /\ OtherCallsStay(c) /\ KeepsReservation(c) /\ UNCHANGED <<key, lock>>
          /\ pc'[c] \in {"spend_quote", "spend_ledger", "receipt"}
          /\ reservation'[key[c]] \in {reservation[key[c]], "spent"}
      BY <2>u, <2>2 DEF MarkSpent, SetReservation, MarkQuoteSpent, SpendQuote, PostSpend,
                  SpendLedger, SettleLedger, Kept
    <3>2. Paid(c)' => PaidOf(c)'
      BY <1>p, <2>u, <3>1 DEF Paid, Accepts, PaidOf, AfterPaid, Kept
    <3> QED BY <3>1, <3>2, PaidMoves
  <2>3. CASE RecordGuardEvent(c)
    <3>1. /\ pc[c] = "event" /\ pc'[c] \in {"threw", "timeline"}
          /\ UNCHANGED <<key, lock, reservation, reply>> /\ OtherCallsStay(c)
      BY <2>u, <2>3 DEF RecordGuardEvent
    <3>2. KeepsReservation(c) /\ (Paid(c)' => PaidOf(c)')
      BY <1>p, <2>u, <3>1 DEF Paid, Accepts, PaidOf, AfterPaid
    <3> QED BY <3>1, <3>2, PaidMoves
  <2>4. CASE RecordTimelineEvent(c)
    <3>1. /\ pc[c] = "timeline" /\ pc'[c] = AfterTimeline(c)
          /\ UNCHANGED <<key, lock, reservation, reply>> /\ OtherCallsStay(c)
      BY <2>u, <2>4 DEF RecordTimelineEvent
    <3>2. KeepsReservation(c) /\ (Paid(c)' => PaidOf(c)')
      BY <1>p, <2>u, <3>1 DEF Paid, Accepts, PaidOf, AfterPaid, AfterTimeline
    <3> QED BY <3>1, <3>2, PaidMoves
  <2>5. CASE Release(c) \/ Void(c)
    <3>1. pc[c] \in {"release", "void"} /\ OtherCallsStay(c) /\ KeepsReservation(c)
      BY <2>u, <2>5 DEF Release, SetReservation, Void, VoidLedger, SettleLedger
    <3>2. ~ Paid(c)'
      BY <1>n, <2>u, <3>1 DEF Paid, Accepts
    <3> QED BY <3>1, <3>2, PaidMoves
  <2>6. CASE Dispute(c)
    <3>1. /\ OtherCallsStay(c) /\ KeepsReservation(c) /\ UNCHANGED <<key, lock>>
          /\ pc'[c] = "replied" /\ reservation'[key[c]] = "disputed"
      BY <2>u, <2>6 DEF Dispute, SetReservation, Kept
    <3>2. Paid(c)' => PaidOf(c)'
      BY <1>p, <2>u, <3>1 DEF Paid, Accepts, PaidOf, AfterPaid, Kept
    <3> QED BY <3>1, <3>2, PaidMoves
  <2> QED BY <1>6, <2>1, <2>2, <2>3, <2>4, <2>5, <2>6 DEF Bookkeeping
<1> QED BY <1>1, <1>2, <1>3, <1>4, <1>5, <1>6 DEF GuardedStep

LEMMA NextPaidInv ==
  PaidInv /\ LockInv /\ AskInv /\ [GuardedNext]_guardedVars => PaidInv'
<1> SUFFICES ASSUME PaidInv, LockInv, AskInv, [GuardedNext]_guardedVars PROVE PaidInv'
  OBVIOUS
<1>1. ASSUME NEW m \in Missions, NEW b \in Limits, CreateMission(m, b) /\ Silently PROVE PaidInv'
  BY <1>1 DEF CreateMission, callVars, Silently, guardVars, PaidInv, Paid, Accepts, PaidOf
<1>2. CASE Crash /\ Silently
  BY <1>2 DEF Crash, rows, callVars, Silently, guardVars, PaidInv, Paid, Accepts, PaidOf,
              AfterPaid
<1>3. CASE UNCHANGED guardedVars
  BY <1>3 DEF guardedVars, vars, rows, callVars, guardVars, PaidInv, Paid, Accepts, PaidOf
<1> QED BY <1>1, <1>2, <1>3, PaidStep DEF GuardedNext, AskInv, DomainsOK

LEMMA InitPaidInv == GuardedInit => PaidInv
BY DEF GuardedInit, NoAnswer, PaidInv, Paid

(***************************************************************************)
(* Once the adapter reported a payment, its reservation is never released, *)
(* whatever the receipt, the cache policy and the crashes do.              *)
(***************************************************************************)
THEOREM PaidNeverReleased == GuardedSpec => []PaidIsNeverReleased
<1>1. PaidInv => PaidIsNeverReleased
  BY DEF PaidInv, Paid, PaidOf, Kept, PaidIsNeverReleased
<1> QED
  BY <1>1, InitPaidInv, NextPaidInv, InitAskInv, NextAskInv, InitNothingAsked, GuardedLockInvariant, PTL
  DEF GuardedSpec
-----------------------------------------------------------------------------
(***************************************************************************)
(* The receipt is checked of a payment the adapter accepted; a call that   *)
(* decided "allow" is past it, its payment is posted, and its event says   *)
(* what it decided.                                                        *)
(***************************************************************************)
Accepted(c) ==
  /\ asked[c] # NotAsked
  /\ answer[c] \in Answers
  /\ Accepts(answer[c])
  /\ ~ LacksEvidence(answer[c])

DeliveredBy(c) ==
  LET i == input[c]
      signed == i.response.signature.over IN
  /\ ~ DeniesDelivery(i.response.body)
  /\ signed.responseHash.of = i.response.body
  /\ signed.fallbackEvidence <=> answer[c].ref = None
  /\ signed.cawEvidenceRef = IF answer[c].ref = None THEN "caw-fallback" ELSE answer[c].ref

Spending == {"spend", "spend_quote", "spend_ledger", "receipt"}

AllowOf(c) ==
  /\ pc[c] \in {"event", "timeline", "replied", "threw", "lost"}
  /\ lock[c] = "allow"
  /\ reply[c] = "completed"
  /\ Accepted(c)
  /\ ledger[key[c]].status = "posted"
  /\ DeliveredBy(c)

DeliveredOf(c) ==
  /\ pc[c] \in Spending => Accepted(c)
  /\ verdict[c] = "allow" => AllowOf(c)
  /\ event[c] = "allow" => verdict[c] = "allow"

DeliveredInv == \A c \in Calls : DeliveredOf(c)

(***************************************************************************)
(* A receipt that verifies is signed over the body and over the CAW        *)
(* evidence of its own payment.                                            *)
(***************************************************************************)
LEMMA VerifiedIsDelivered ==
  ASSUME NEW i, NEW ref, VerifiesReceipt(i, ref)
  PROVE  /\ ~ DeniesDelivery(i.response.body)
         /\ i.response.signature.over.responseHash.of = i.response.body
         /\ i.response.signature.over.fallbackEvidence <=> ref = None
         /\ i.response.signature.over.cawEvidenceRef = IF ref = None THEN "caw-fallback" ELSE ref
<1> DEFINE r == Receipt(i, ref)
           checks == Checks(i, r)
<1>1. /\ 3 \in DOMAIN checks /\ checks[3][2] = (i.response.signature = SignReceipt(SignatureKey(i), r))
      /\ 5 \in DOMAIN checks /\ checks[5][2] = (~ DeniesDelivery(i.response.body))
  BY DEF Checks
<1>2. checks[3][2] /\ checks[5][2]
  BY <1>1 DEF VerifiesReceipt
<1>3. /\ i.response.signature = SignReceipt(SignatureKey(i), r)
      /\ ~ DeniesDelivery(i.response.body)
  BY <1>1, <1>2
<1>4. i.response.signature.over = SignedPart(r)
  BY <1>3 DEF SignReceipt
<1>5. /\ SignedPart(r).responseHash = r.responseHash
      /\ SignedPart(r).fallbackEvidence = r.fallbackEvidence
      /\ SignedPart(r).cawEvidenceRef = r.cawEvidenceRef
  BY DEF SignedPart
<1>6. /\ r.responseHash.of = i.response.body
      /\ r.fallbackEvidence = (ref = None)
      /\ r.cawEvidenceRef = IF ref = None THEN "caw-fallback" ELSE ref
  BY DEF Receipt, JsonHash
<1> QED BY <1>3, <1>4, <1>5, <1>6

(***************************************************************************)
(* A step of one call leaves what the others delivered: it settles its own *)
(* ledger row only, as the holder of its quote.                            *)
(***************************************************************************)
OthersDelivered(c) ==
  /\ key' = key /\ input' = input
  /\ \A d \in Calls \ {c} :
       /\ pc'[d] = pc[d] /\ lock'[d] = lock[d] /\ reply'[d] = reply[d]
       /\ verdict'[d] = verdict[d] /\ event'[d] = event[d]
       /\ answer'[d] = answer[d] /\ asked'[d] = asked[d]
  /\ \/ ledger' = ledger
     \/ lock'[c] = "allow" /\ \E r : ledger' = [ledger EXCEPT ![key[c]] = r]

LEMMA DeliveredMoves ==
  ASSUME LockInv, LockInv', DeliveredInv, NEW c \in Calls, OthersDelivered(c), DeliveredOf(c)'
  PROVE  DeliveredInv'
<1>1. ASSUME NEW d \in Calls, d # c PROVE DeliveredOf(d)'
  <2>1. DeliveredOf(d)
    BY DEF DeliveredInv
  <2>2. key \in [Calls -> Keys] /\ ledger \in [Keys -> LedgerRows]
    BY DEF LockInv, TypeOK, QuoteLockTypeOK
  <2>3. lock[d] = "allow" /\ lock'[c] = "allow" => key[d] # key[c]
    BY <1>1 DEF LockInv, OneHolderPerQuote, OthersDelivered
  <2>4. lock[d] = "allow" => ledger'[key[d]] = ledger[key[d]]
    BY <2>2, <2>3 DEF OthersDelivered
  <2>5. (Accepted(d)' <=> Accepted(d)) /\ (DeliveredBy(d)' <=> DeliveredBy(d))
    BY <1>1 DEF OthersDelivered, Accepted, Accepts, LacksEvidence, DeliveredBy
  <2> QED
    BY <1>1, <2>1, <2>4, <2>5 DEF OthersDelivered, DeliveredOf, AllowOf
<1> QED BY <1>1 DEF DeliveredInv

(***************************************************************************)
(* A step before the spending decides nothing but a refusal.               *)
(***************************************************************************)
EarlyStep(c) ==
  /\ pc[c] \in {"idle", "layers", "clearsign", "caw"}
  /\ pc'[c] \notin Spending
  /\ verdict'[c] = verdict[c] \/ verdict'[c] # "allow"
  /\ event' = event

LEMMA EarlyDelivers ==
  ASSUME LockInv, LockInv', DeliveredInv, NEW c \in Calls, OthersDelivered(c), EarlyStep(c)
  PROVE  DeliveredInv'
<1>1. verdict[c] # "allow" /\ event[c] # "allow"
  BY DEF EarlyStep, DeliveredInv, DeliveredOf, AllowOf
<1>2. DeliveredOf(c)'
  BY <1>1 DEF EarlyStep, DeliveredOf
<1> QED BY <1>2, DeliveredMoves

LEMMA StepDelivered ==
  ASSUME LockInv, LockInv', DeliveredInv, DomainsOK, NEW c \in Calls, GuardedStep(c)
  PROVE  DeliveredInv'
<1> key \in [Calls -> Keys] /\ pc \in [Calls -> {"idle"} \cup Running \cup Awaiting \cup Ended]
  BY DEF LockInv, TypeOK
<1> lock \in [Calls -> {"none", "allow", "block"}] /\ event \in [Calls -> Decisions \cup {"none"}]
  BY DEF LockInv, TypeOK
<1> verdict \in [Calls -> Decisions \cup {"none"}]
  BY DEF LockInv, TypeOK
<1> reply \in [Calls -> {"none", "blocked", "prepared", "disputed", "completed"}]
  BY DEF LockInv, TypeOK
<1> ledger \in [Keys -> LedgerRows] /\ key[c] \in Keys
  BY DEF LockInv, TypeOK, QuoteLockTypeOK
<1>d. DeliveredOf(c)
  BY DEF DeliveredInv
<1> USE DEF OthersDelivered, Goto, Decide, callVars, rows, logVars
<1>1. CASE \/ GuardedBindingRejects(c) \/ GuardedRegistryRejects(c) \/ GuardedTrustRejects(c)
           \/ GuardedMetadataRejects(c) \/ GuardedProviderQuoteRejects(c)
           \/ GuardedThrowBeforeLock(c)
  <2>1. OthersDelivered(c) /\ EarlyStep(c)
    BY <1>1
    DEF At, Silently, guardVars, EarlyStep, Spending,
        GuardedBindingRejects, BindingRejects, GuardedRegistryRejects, RegistryRejects,
        GuardedTrustRejects, TrustRejects, GuardedMetadataRejects, MetadataRejects,
        GuardedProviderQuoteRejects, ProviderQuoteRejects, RejectBeforeLock,
        GuardedThrowBeforeLock, ThrowBeforeLock
  <2> QED BY <2>1, EarlyDelivers
<1>2. CASE GuardedReserve(c) \/ GuardedRefuse(c)
  <2>1. OthersDelivered(c) /\ EarlyStep(c)
    BY <1>2
    DEF At, Silently, guardVars, EarlyStep, Spending, GuardedReserve, Reserve, GuardedRefuse,
        Refuse, ReserveQuoteAndBudget, RefuseReservation
  <2> QED BY <2>1, EarlyDelivers
<1>3. CASE GuardedClearSignBlocks(c) \/ GuardedClearSignThrows(c) \/ GuardedCallCaw(c)
  <2>1. OthersDelivered(c) /\ EarlyStep(c)
    BY <1>3
    DEF At, Silently, guardVars, EarlyStep, Spending, DomainsOK,
        GuardedClearSignBlocks, ClearSignBlocks,
        GuardedClearSignThrows, ClearSignThrows, GuardedCallCaw, CallCaw
  <2> QED BY <2>1, EarlyDelivers
<1>4. ASSUME NEW a \in AnswersTo(c), pc[c] = "caw",
             \/ GuardedCawRequiresApproval(c, a) \/ GuardedCawRequiresFallback(c, a)
             \/ GuardedCawDenies(c, a) \/ GuardedCawEvidenceIncomplete(c, a)
             \/ GuardedCacheUnsafe(c, a)
      PROVE  DeliveredInv'
  <2>1. OthersDelivered(c) /\ EarlyStep(c)
    BY <1>4
    DEF Answered, CawNotPaid, EarlyStep, Spending, DomainsOK,
        GuardedCawRequiresApproval, CawRequiresApproval,
        GuardedCawRequiresFallback, CawRequiresFallback, GuardedCawDenies, CawDenies,
        GuardedCawEvidenceIncomplete, CawEvidenceIncomplete, GuardedCacheUnsafe, CacheUnsafe
  <2> QED BY <2>1, EarlyDelivers
<1>5. CASE GuardedCawRejects(c)
  <2>1. OthersDelivered(c) /\ EarlyStep(c)
    BY <1>5 DEF GuardedCawRejects, CawRejects, Silently, guardVars, EarlyStep, Spending
  <2> QED BY <2>1, EarlyDelivers
<1>6. ASSUME NEW a \in AnswersTo(c), GuardedCawPays(c, a) PROVE DeliveredInv'
  <2>1. /\ OthersDelivered(c) /\ UNCHANGED <<verdict, event, asked>> /\ pc[c] = "caw"
        /\ Accepts(a) /\ ~ LacksEvidence(a) /\ answer'[c] = a
    BY <1>6 DEF GuardedCawPays, CawPays, Answered, DomainsOK
  <2>2. asked[c] # NotAsked /\ a \in Answers
    BY <2>1 DEF AnswersTo, LocalAnswer, Accepts
  <2>3. verdict[c] # "allow" /\ event[c] # "allow"
    BY <1>d, <2>1 DEF DeliveredOf, AllowOf
  <2>4. DeliveredOf(c)'
    BY <2>1, <2>2, <2>3 DEF DeliveredOf, Accepted, Accepts, LacksEvidence
  <2> QED BY <2>1, <2>4, DeliveredMoves
<1>7. CASE GuardedReceiptVerified(c)
  <2>1. /\ OthersDelivered(c) /\ UNCHANGED <<answer, asked, lock, event, ledger>>
        /\ pc[c] = "receipt" /\ pc'[c] = "event"
        /\ verdict'[c] = "allow" /\ reply'[c] = "completed"
        /\ VerifiesReceipt(input[c], answer[c].ref)
    BY <1>7 DEF GuardedReceiptVerified, ReceiptVerified, At
  <2>2. lock[c] = "allow" /\ ledger[key[c]].status = "posted"
    BY <2>1 DEF LockInv, PlaceOK, PlaceOf, RowsMatchHolder, RowsFollow, RowsOf, Spent
  <2>3. Accepted(c)'
    BY <1>d, <2>1 DEF DeliveredOf, Spending, Accepted, Accepts, LacksEvidence
  <2>4. DeliveredBy(c)'
    BY <2>1, VerifiedIsDelivered DEF DeliveredBy
  <2>5. DeliveredOf(c)'
    BY <2>1, <2>2, <2>3, <2>4 DEF DeliveredOf, AllowOf, Spending
  <2> QED BY <2>1, <2>5, DeliveredMoves
<1>8. CASE GuardedReceiptBlocked(c) \/ GuardedReceiptThrows(c)
  <2>1. /\ OthersDelivered(c) /\ UNCHANGED event
        /\ pc[c] = "receipt" /\ pc'[c] \in {"event", "threw"}
        /\ verdict'[c] \in {verdict[c], "block"}
    BY <1>8
    DEF At, Silently, guardVars, GuardedReceiptBlocked, ReceiptBlocked,
        GuardedReceiptThrows, ReceiptThrows
  <2>2. verdict[c] # "allow" /\ event[c] # "allow"
    BY <1>d, <2>1 DEF DeliveredOf, AllowOf
  <2>3. DeliveredOf(c)'
    BY <2>1, <2>2 DEF DeliveredOf, Spending
  <2> QED BY <2>1, <2>3, DeliveredMoves
<1>9. CASE Bookkeeping(c) /\ Silently
  <2>u. UNCHANGED <<input, answer, asked>>
    BY <1>9 DEF Silently, guardVars
  <2>l. Accepted(c)' = Accepted(c) /\ (key' = key => DeliveredBy(c)' = DeliveredBy(c))
    BY <2>u DEF Accepted, Accepts, LacksEvidence, DeliveredBy
  <2>1. CASE Begin(c)
    <3>1. OthersDelivered(c) /\ EarlyStep(c)
      BY <2>u, <2>1 DEF Begin, EarlyStep, Spending
    <3> QED BY <3>1, EarlyDelivers
  <2>2. CASE MarkSpent(c) \/ MarkQuoteSpent(c) \/ PostSpend(c)
    <3>0. pc[c] \in {"spend", "spend_quote", "spend_ledger"}
      BY <2>2 DEF MarkSpent, MarkQuoteSpent, PostSpend
    <3>1. OthersDelivered(c) /\ UNCHANGED <<verdict, event>>
      BY <2>u, <2>2, <3>0 DEF MarkSpent, SetReservation, MarkQuoteSpent, SpendQuote, PostSpend,
                  SpendLedger, SettleLedger, LockInv, PlaceOK, PlaceOf
    <3>2. Accepted(c)' /\ verdict[c] # "allow" /\ event[c] # "allow"
      BY <1>d, <2>l, <3>0 DEF DeliveredOf, AllowOf, Spending
    <3>3. DeliveredOf(c)'
      BY <3>1, <3>2 DEF DeliveredOf
    <3> QED BY <3>1, <3>3, DeliveredMoves
  <2>3. CASE RecordGuardEvent(c)
    <3>1. /\ OthersDelivered(c) /\ UNCHANGED <<verdict, reply, lock, ledger, key>>
          /\ pc[c] = "event" /\ pc'[c] \in {"threw", "timeline"}
          /\ event'[c] \in {event[c], verdict[c]}
      BY <2>u, <2>3 DEF RecordGuardEvent
    <3>2. DeliveredOf(c)'
      BY <1>d, <2>l, <3>1 DEF DeliveredOf, AllowOf, Spending
    <3> QED BY <3>1, <3>2, DeliveredMoves
  <2>4. CASE RecordTimelineEvent(c)
    <3>1. /\ OthersDelivered(c) /\ UNCHANGED <<verdict, event, reply, lock, ledger, key>>
          /\ pc[c] = "timeline" /\ pc'[c] = AfterTimeline(c)
      BY <2>u, <2>4 DEF RecordTimelineEvent
    <3>2. DeliveredOf(c)'
      BY <1>d, <2>l, <3>1 DEF DeliveredOf, AllowOf, Spending, AfterTimeline
    <3> QED BY <3>1, <3>2, DeliveredMoves
  <2>5. CASE Release(c) \/ Void(c) \/ Dispute(c)
    <3>0. pc[c] \in {"release", "void", "dispute"} /\ pc'[c] \in {"void", "replied"}
      BY <2>5 DEF Release, Void, Dispute
    <3>1. OthersDelivered(c) /\ UNCHANGED <<verdict, event>>
      BY <2>u, <2>5, <3>0 DEF Release, SetReservation, Void, VoidLedger, SettleLedger, Dispute,
                  LockInv, PlaceOK, PlaceOf
    <3>2. verdict[c] # "allow" /\ event[c] # "allow"
      BY <1>d, <3>0 DEF DeliveredOf, AllowOf
    <3>3. DeliveredOf(c)'
      BY <3>0, <3>1, <3>2 DEF DeliveredOf, Spending
    <3> QED BY <3>1, <3>3, DeliveredMoves
  <2> QED BY <1>9, <2>1, <2>2, <2>3, <2>4, <2>5 DEF Bookkeeping
<1>10. CASE GuardedCawAnswers(c)
  <2>1. pc[c] = "caw"
    BY <1>10
    DEF GuardedCawAnswers, CawNotPaid, GuardedCawRequiresApproval, CawRequiresApproval,
        GuardedCawRequiresFallback, CawRequiresFallback, GuardedCawDenies, CawDenies,
        GuardedCawEvidenceIncomplete, CawEvidenceIncomplete, GuardedCacheUnsafe, CacheUnsafe,
        GuardedCawPays, CawPays, GuardedCawRejects, CawRejects
  <2> QED BY <1>10, <2>1, <1>4, <1>5, <1>6 DEF GuardedCawAnswers
<1> QED BY <1>1, <1>2, <1>3, <1>7, <1>8, <1>9, <1>10 DEF GuardedStep

LEMMA NextDelivered ==
  DeliveredInv /\ LockInv /\ AskInv /\ [GuardedNext]_guardedVars => DeliveredInv'
<1> SUFFICES ASSUME DeliveredInv, LockInv, AskInv, [GuardedNext]_guardedVars PROVE DeliveredInv'
  OBVIOUS
<1> LockInv' /\ DomainsOK
  BY NextImplements, NextLockInv DEF AskInv
<1> USE DEF DeliveredInv, DeliveredOf, AllowOf, Accepted, Accepts, LacksEvidence, DeliveredBy,
            callVars, logVars, rows, guardVars, Silently
<1>1. ASSUME NEW m \in Missions, NEW b \in Limits, CreateMission(m, b) /\ Silently
      PROVE  DeliveredInv'
  BY <1>1 DEF CreateMission
<1>2. CASE Crash /\ Silently
  BY <1>2 DEF Crash, Spending
<1>3. CASE UNCHANGED guardedVars
  BY <1>3 DEF guardedVars, vars
<1>4. ASSUME NEW c \in Calls, GuardedStep(c) PROVE DeliveredInv'
  <2> HIDE DEF DeliveredInv
  <2> QED BY <1>4, StepDelivered
<1> QED BY <1>1, <1>2, <1>3, <1>4 DEF GuardedNext

LEMMA InitDelivered == Init /\ NothingAsked => DeliveredInv
BY DEF NothingAsked, Init, DeliveredInv, DeliveredOf, Spending

(***************************************************************************)
(* An event that allows a payment stands for one that was asked for,       *)
(* accepted, posted and delivered, whatever crashes and other calls do.    *)
(***************************************************************************)
THEOREM AllowDelivered == GuardedSpec => []AllowIsDelivered
<1>1. DeliveredInv => AllowIsDelivered
  BY DEF DeliveredInv, DeliveredOf, AllowOf, Accepted, DeliveredBy, AllowIsDelivered
<1> QED
  BY <1>1, InitDelivered, NextDelivered, InitAskInv, NextAskInv, InitNothingAsked, GuardedLockInvariant, PTL
  DEF GuardedSpec
-----------------------------------------------------------------------------
(***************************************************************************)
(* The worst of some evidence modes is "live" only if each of them is.     *)
(***************************************************************************)
LEMMA WorstIsLive ==
  ASSUME NEW modes, modes \subseteq DOMAIN ModeRank, modes # {}, WorstMode(modes) = "live"
  PROVE  modes = {"live"}
<1>1. DOMAIN ModeRank = {"live", "fallback", "mock"}
  BY DEF ModeRank
<1>2. ModeRank["live"] = 0 /\ ModeRank["fallback"] = 1 /\ ModeRank["mock"] = 2
  BY DEF ModeRank
<1> DEFINE Worst(w) == \A mode \in modes : ModeRank[mode] <= ModeRank[w]
<1>3. \E w \in modes : Worst(w)
  <2>1. CASE "mock" \in modes
    BY <1>1, <1>2, <2>1
  <2>2. CASE "mock" \notin modes /\ "fallback" \in modes
    BY <1>1, <1>2, <2>2
  <2>3. CASE "mock" \notin modes /\ "fallback" \notin modes
    BY <1>1, <1>2, <2>3
  <2> QED BY <2>1, <2>2, <2>3
<1>4. Worst(WorstMode(modes)) /\ WorstMode(modes) \in modes
  BY <1>3 DEF WorstMode
<1>5. \A mode \in modes : ModeRank[mode] <= 0
  BY <1>2, <1>4
<1> QED BY <1>1, <1>2, <1>5

InputsGiven == input \in [Calls -> Inputs]

LEMMA NextInputs == InputsGiven /\ AskInv /\ LockInv /\ [GuardedNext]_guardedVars => InputsGiven'
<1> SUFFICES ASSUME InputsGiven, AskInv, LockInv, [GuardedNext]_guardedVars PROVE input' = input
  BY DEF InputsGiven
<1>1. ASSUME NEW c \in Calls, GuardedStep(c) PROVE input' = input
  <2>1. CASE PlainStep(c)
    BY <2>1, PlainStepKeeps
  <2>2. CASE GuardedReserve(c) \/ GuardedRefuse(c) \/ GuardedCallCaw(c)
    BY <2>2 DEF GuardedReserve, GuardedRefuse, GuardedCallCaw, Silently, guardVars, At
  <2> QED BY <1>1, <2>1, <2>2 DEF GuardedStep, PlainStep
<1> QED BY <1>1 DEF GuardedNext, Silently, guardVars, guardedVars

(***************************************************************************)
(* A payment whose event is allowed and filed as live has complete live    *)
(* evidence of the CAW, and a live record of its provider's identity.      *)
(***************************************************************************)
THEOREM LiveLabel == GuardedSpec => []LiveLabelIsLive
<1>1. ASSUME DeliveredInv, InputsGiven PROVE LiveLabelIsLive
  <2>1. SUFFICES ASSUME NEW c \in Calls, event[c] = "allow", EventMode(c) = "live"
                 PROVE  /\ answer[c].mode = "live" /\ answer[c].complete
                        /\ TrustSource(input[c]) = "live"
    BY DEF LiveLabelIsLive
  <2>2. answer[c] \in Answers /\ ~ LacksEvidence(answer[c])
    BY <1>1, <2>1 DEF DeliveredInv, DeliveredOf, AllowOf, Accepted
  <2>3. answer[c].mode \in DOMAIN ModeRank /\ input[c].request.mode \in DOMAIN ModeRank
    BY <1>1, <2>2, GuardedPaymentAssumption DEF InputsGiven
  <2>4. TrustMode(input[c]) \in DOMAIN ModeRank
    BY DEF TrustMode, TrustSource, ModeRank
  <2>5. answer[c].mode # "none"
    BY <2>3 DEF ModeRank
  <2>6. EvidenceParts(c) = {"live"}
    <3>1. EvidenceParts(c) \subseteq DOMAIN ModeRank /\ EvidenceParts(c) # {}
      BY <2>3, <2>4 DEF EvidenceParts
    <3> QED BY <2>1, <3>1, WorstIsLive DEF EventMode
  <2>7. answer[c].mode = "live" /\ TrustMode(input[c]) = "live"
    BY <2>5, <2>6 DEF EvidenceParts
  <2>8. TrustSource(input[c]) = "live"
    BY <2>7 DEF TrustMode, TrustSource
  <2> QED BY <2>2, <2>7, <2>8 DEF LacksEvidence
<1>2. GuardedInit => InputsGiven
  BY DEF GuardedInit, InputsGiven
<1> QED
  BY <1>1, <1>2, NextInputs, InitDelivered, NextDelivered, InitNothingAsked, InitAskInv, NextAskInv,
     GuardedLockInvariant, PTL
  DEF GuardedSpec
-----------------------------------------------------------------------------
(***************************************************************************)
(* Why a call ended: input i was stopped at layer l with verdict v, the    *)
(* CAW having answered a, because all layers before l let it through and l *)
(* did not; "guard_pipeline" is the layer of a payment that was delivered. *)
(***************************************************************************)
AskedOf(i) == PassesLayers(i) /\ ReadyForCaw(i)

PaidOn(i, a) == AskedOf(i) /\ a \in Answers /\ Accepts(a) /\ ~ LacksEvidence(a)

Explains(i, l, v, a) ==
  \/ l = "http_headers" /\ v = "block" /\ DuplicatePaymentHeader(i)
  \/ /\ l = "resource_binding" /\ v = "block"
     /\ \/ ~ Bound(i) /\ ~ (Readable(i) /\ DuplicatePaymentHeader(i))
        \/ Screened(i) /\ ~ MetadataBound(i)
  \/ /\ l = "provider_registry" /\ v = "block"
     /\ Bound(i) /\ ~ Listed(i)
  \/ /\ l = "erc8004" /\ v = (IF TrustBlocks(i) THEN "block" ELSE "fallback_required")
     /\ Listed(i) /\ ~ Trusted(i)
  \/ l = "metadata_firewall" /\ v = "block" /\ Trusted(i) /\ ~ Screened(i)
  \/ l = "provider_quote" /\ v = "block" /\ Screened(i) /\ ~ QuoteHolds(i)
  \/ l = "quote_lock" /\ v = "block" /\ PassesLayers(i)
  \/ l = "service_escrow" /\ v = "block" /\ PassesLayers(i) /\ EscrowMissing(i)
  \/ l = "clearsig" /\ v = "block" /\ PassesLayers(i) /\ ~ EscrowMissing(i) /\ ~ ClearSigned(i)
  \/ /\ l = "caw" /\ AskedOf(i)
     /\ ~ Accepts(a) \/ LacksEvidence(a)
     /\ v = IF a.decision \in {"require_approval", "fallback_required"} THEN a.decision
            ELSE IF Accepts(a) THEN "fallback_required" ELSE "block"
  \/ l = "cache_policy" /\ v = "block" /\ PaidOn(i, a) /\ ~ CacheSafe(i)
  \/ l = "receipt" /\ v = "block" /\ PaidOn(i, a) /\ CacheSafe(i) /\ ~ VerifiesReceipt(i, a.ref)
  \/ l = "guard_pipeline" /\ v = "allow" /\ PaidOn(i, a) /\ CacheSafe(i) /\ VerifiesReceipt(i, a.ref)

ExplainedOf(c) ==
  /\ pc[c] \in {"idle", "layers", "clearsign", "caw"} \cup Spending =>
       verdict[c] = "none" /\ layer[c] = "none"
  /\ pc[c] \in {"caw"} \cup Spending => ReadyForCaw(input[c])
  /\ pc[c] \in Spending => CacheSafe(input[c])
  /\ pc[c] \in {"event", "timeline", "release", "void", "dispute", "replied"} => verdict[c] # "none"
  /\ layer[c] = "none" => verdict[c] = "none"
  /\ layer[c] # "none" =>
       /\ Explains(input[c], layer[c], verdict[c], answer[c])
       /\ layer[c] = "quote_lock" => lock[c] = "block"
       /\ layer[c] = "guard_pipeline" => lock[c] = "allow"

ExplainedInv == DOMAIN layer = Calls /\ \A c \in Calls : ExplainedOf(c)

(***************************************************************************)
(* A step of one call leaves the stage of the others.                      *)
(***************************************************************************)
OthersStand(c) ==
  /\ input' = input /\ DOMAIN layer' = Calls
  /\ \A d \in Calls \ {c} :
       /\ pc'[d] = pc[d] /\ lock'[d] = lock[d] /\ verdict'[d] = verdict[d]
       /\ layer'[d] = layer[d] /\ answer'[d] = answer[d]

LEMMA ExplainedMoves ==
  ASSUME ExplainedInv, NEW c \in Calls, OthersStand(c), ExplainedOf(c)'
  PROVE  ExplainedInv'
<1>1. ASSUME NEW d \in Calls, d # c PROVE ExplainedOf(d)'
  <2>1. ExplainedOf(d)
    BY DEF ExplainedInv
  <2>2. /\ pc'[d] = pc[d] /\ lock'[d] = lock[d] /\ verdict'[d] = verdict[d]
        /\ layer'[d] = layer[d] /\ answer'[d] = answer[d] /\ input'[d] = input[d]
    BY <1>1 DEF OthersStand
  <2> QED BY <2>1, <2>2 DEF ExplainedOf
<1> QED BY <1>1 DEF ExplainedInv, OthersStand

(***************************************************************************)
(* A call that ends goes on to write its event, and is explained.          *)
(***************************************************************************)
Ends(c, l, v) ==
  /\ OthersStand(c)
  /\ pc'[c] = "event"
  /\ layer'[c] = l /\ l # "none"
  /\ verdict'[c] = v /\ v # "none"
  /\ Explains(input[c], l, v, answer'[c])
  /\ l = "quote_lock" => lock'[c] = "block"
  /\ l = "guard_pipeline" => lock'[c] = "allow"

LEMMA EndsExplained ==
  ASSUME ExplainedInv, NEW c \in Calls, NEW l, NEW v, Ends(c, l, v)
  PROVE  ExplainedInv'
<1>1. input'[c] = input[c] /\ pc'[c] \notin {"idle", "layers", "clearsign", "caw"} \cup Spending
  BY DEF Ends, OthersStand, Spending
<1>2. ExplainedOf(c)'
  BY <1>1 DEF Ends, ExplainedOf
<1> QED BY <1>2, ExplainedMoves DEF Ends

(***************************************************************************)
(* A call that goes on keeps its verdict and layer.                        *)
(***************************************************************************)
GoesOn(c) ==
  /\ OthersStand(c)
  /\ verdict'[c] = verdict[c] /\ layer'[c] = layer[c]
  /\ lock'[c] = lock[c] \/ layer[c] = "none"
  /\ answer'[c] = answer[c] \/ layer[c] = "none"
  /\ pc'[c] \in {"idle", "layers", "clearsign", "caw"} \cup Spending =>
       verdict[c] = "none" /\ layer[c] = "none"
  /\ pc'[c] \in {"caw"} \cup Spending => ReadyForCaw(input[c])
  /\ pc'[c] \in Spending => CacheSafe(input[c])
  /\ pc'[c] \in {"event", "timeline", "release", "void", "dispute", "replied"} => verdict[c] # "none"

LEMMA GoesOnExplained ==
  ASSUME ExplainedInv, NEW c \in Calls, GoesOn(c)
  PROVE  ExplainedInv'
<1>1. input'[c] = input[c]
  BY DEF GoesOn, OthersStand
<1>2. ExplainedOf(c)
  BY DEF ExplainedInv
<1>3. ExplainedOf(c)'
  BY <1>1, <1>2 DEF GoesOn, ExplainedOf
<1> QED BY <1>3, ExplainedMoves DEF GoesOn

(***************************************************************************)
(* A call past the lock was let through by every layer.                    *)
(***************************************************************************)
LEMMA HolderPasses ==
  ASSUME LockInv, AskInv, NEW c \in Calls,
         pc[c] \in {"clearsign", "caw", "spend", "spend_quote", "spend_ledger", "receipt"}
  PROVE  lock[c] = "allow" /\ PassesLayers(input[c])
BY DEF LockInv, PlaceOK, PlaceOf, AskInv, LayersHold

LEMMA LayersExplained ==
  ASSUME ExplainedInv, LockInv, AskInv, NEW c \in Calls,
         \/ GuardedBindingRejects(c) \/ GuardedRegistryRejects(c) \/ GuardedTrustRejects(c)
         \/ GuardedMetadataRejects(c) \/ GuardedProviderQuoteRejects(c)
         \/ GuardedThrowBeforeLock(c)
  PROVE  ExplainedInv'
<1> DOMAIN layer = Calls /\ verdict \in [Calls -> Decisions \cup {"none"}] /\ DOMAIN pc = Calls
  BY DEF ExplainedInv, LockInv, TypeOK
<1> USE DEF OthersStand, Goto, Decide, At, RejectBeforeLock, Decisions
<1>1. CASE GuardedBindingRejects(c)
  <2>1. PICK l \in {"http_headers", "resource_binding"} :
          /\ l = IF Readable(input[c]) /\ DuplicatePaymentHeader(input[c])
                   THEN "http_headers" ELSE "resource_binding"
          /\ ~ Bound(input[c])
          /\ layer' = [layer EXCEPT ![c] = l]
    BY <1>1 DEF GuardedBindingRejects
  <2>2. Explains(input[c], l, "block", answer'[c])
    BY <2>1 DEF Explains
  <2>3. Ends(c, l, "block")
    BY <1>1, <2>1, <2>2 DEF GuardedBindingRejects, BindingRejects, Ends
  <2> QED BY <2>3, EndsExplained
<1>2. CASE GuardedRegistryRejects(c)
  <2>1. Explains(input[c], "provider_registry", "block", answer'[c])
    BY <1>2 DEF GuardedRegistryRejects, Explains, Listed
  <2>2. Ends(c, "provider_registry", "block")
    BY <1>2, <2>1 DEF GuardedRegistryRejects, RegistryRejects, Ends
  <2> QED BY <2>2, EndsExplained
<1>3. CASE GuardedTrustRejects(c)
  <2>1. PICK v \in {"block", "fallback_required"} :
          RejectBeforeLock(c, v) /\ verdict'[c] = v
    BY <1>3 DEF GuardedTrustRejects, TrustRejects
  <2>2. v = IF TrustBlocks(input[c]) THEN "block" ELSE "fallback_required"
    BY <1>3, <2>1 DEF GuardedTrustRejects
  <2>3. Explains(input[c], "erc8004", v, answer'[c])
    BY <1>3, <2>2 DEF GuardedTrustRejects, Explains
  <2>4. Ends(c, "erc8004", v)
    BY <1>3, <2>1, <2>3 DEF GuardedTrustRejects, Ends
  <2> QED BY <2>4, EndsExplained
<1>4. CASE GuardedMetadataRejects(c)
  <2>1. PICK l \in {"resource_binding", "metadata_firewall"} :
          /\ l = IF Screened(input[c]) THEN "resource_binding" ELSE "metadata_firewall"
          /\ Trusted(input[c]) /\ ~ (Screened(input[c]) /\ MetadataBound(input[c]))
          /\ layer' = [layer EXCEPT ![c] = l]
    BY <1>4 DEF GuardedMetadataRejects
  <2>2. Explains(input[c], l, "block", answer'[c])
    BY <2>1 DEF Explains
  <2>3. Ends(c, l, "block")
    BY <1>4, <2>1, <2>2 DEF GuardedMetadataRejects, MetadataRejects, Ends
  <2> QED BY <2>3, EndsExplained
<1>5. CASE GuardedProviderQuoteRejects(c)
  <2>1. Explains(input[c], "provider_quote", "block", answer'[c])
    BY <1>5 DEF GuardedProviderQuoteRejects, Explains
  <2>2. Ends(c, "provider_quote", "block")
    BY <1>5, <2>1 DEF GuardedProviderQuoteRejects, ProviderQuoteRejects, Ends
  <2> QED BY <2>2, EndsExplained
<1>6. CASE GuardedThrowBeforeLock(c)
  <2>1. GoesOn(c)
    BY <1>6 DEF GuardedThrowBeforeLock, ThrowBeforeLock, GoesOn, Silently, guardVars, callVars,
                Spending
  <2> QED BY <2>1, GoesOnExplained
<1> QED BY <1>1, <1>2, <1>3, <1>4, <1>5, <1>6

LEMMA LockExplained ==
  ASSUME ExplainedInv, LockInv, AskInv, NEW c \in Calls,
         \/ GuardedReserve(c) \/ GuardedRefuse(c) \/ GuardedClearSignBlocks(c)
         \/ GuardedClearSignThrows(c) \/ GuardedCallCaw(c)
  PROVE  ExplainedInv'
<1> /\ DOMAIN layer = Calls /\ DOMAIN verdict = Calls /\ DOMAIN pc = Calls
    /\ DOMAIN lock = Calls /\ ExplainedOf(c)
  BY DEF ExplainedInv, LockInv, TypeOK
<1> USE DEF OthersStand, Goto, Decide, At, Silently, guardVars
<1>1. CASE GuardedReserve(c)
  <2>1. GoesOn(c)
    BY <1>1 DEF GuardedReserve, Reserve, GoesOn, ExplainedOf, Spending
  <2> QED BY <2>1, GoesOnExplained
<1>2. CASE GuardedRefuse(c)
  <2>1. Explains(input[c], "quote_lock", "block", answer'[c])
    BY <1>2 DEF GuardedRefuse, Explains
  <2>2. Ends(c, "quote_lock", "block")
    BY <1>2, <2>1 DEF GuardedRefuse, Refuse, Ends
  <2> QED BY <2>2, EndsExplained
<1>3. CASE GuardedClearSignBlocks(c)
  <2>1. PICK l \in {"service_escrow", "clearsig"} :
          /\ l = IF EscrowMissing(input[c]) THEN "service_escrow" ELSE "clearsig"
          /\ EscrowMissing(input[c]) \/ ~ ClearSigned(input[c])
          /\ layer' = [layer EXCEPT ![c] = l]
    BY <1>3 DEF GuardedClearSignBlocks
  <2>2. PassesLayers(input[c])
    BY <1>3, HolderPasses DEF GuardedClearSignBlocks, ClearSignBlocks
  <2>3. Explains(input[c], l, "block", answer'[c])
    BY <2>1, <2>2 DEF Explains
  <2>4. Ends(c, l, "block")
    BY <1>3, <2>1, <2>3 DEF GuardedClearSignBlocks, ClearSignBlocks, Ends
  <2> QED BY <2>4, EndsExplained
<1>4. CASE GuardedClearSignThrows(c)
  <2>1. GoesOn(c)
    BY <1>4 DEF GuardedClearSignThrows, ClearSignThrows, GoesOn, callVars, Spending
  <2> QED BY <2>1, GoesOnExplained
<1>5. CASE GuardedCallCaw(c)
  <2>1. GoesOn(c)
    BY <1>5 DEF GuardedCallCaw, CallCaw, GoesOn, callVars, ExplainedOf, Spending
  <2> QED BY <2>1, GoesOnExplained
<1> QED BY <1>1, <1>2, <1>3, <1>4, <1>5

LEMMA CawExplained ==
  ASSUME ExplainedInv, LockInv, AskInv, NEW c \in Calls, GuardedCawAnswers(c)
  PROVE  ExplainedInv'
<1> /\ DOMAIN layer = Calls /\ DOMAIN verdict = Calls /\ DOMAIN pc = Calls
    /\ DOMAIN lock = Calls /\ DOMAIN answer = Calls /\ ExplainedOf(c)
  BY DEF ExplainedInv, LockInv, TypeOK, AskInv, DomainsOK
<1> USE DEF OthersStand, Goto, Decide, CawNotPaid, Answered
<1>1. pc[c] = "caw"
  BY DEF GuardedCawAnswers, GuardedCawRequiresApproval, CawRequiresApproval,
         GuardedCawRequiresFallback, CawRequiresFallback, GuardedCawDenies, CawDenies,
         GuardedCawEvidenceIncomplete, CawEvidenceIncomplete, GuardedCacheUnsafe, CacheUnsafe,
         GuardedCawPays, CawPays, GuardedCawRejects, CawRejects
<1>2. AskedOf(input[c]) /\ verdict[c] = "none" /\ layer[c] = "none"
  BY <1>1, HolderPasses DEF ExplainedOf, AskedOf
<1>3. ASSUME NEW a \in AnswersTo(c), Accepts(a) PROVE a \in Answers
  BY <1>3 DEF AnswersTo, LocalAnswer, Accepts
<1>4. ASSUME NEW a \in AnswersTo(c), GuardedCawRequiresApproval(c, a) PROVE ExplainedInv'
  <2>1. Explains(input[c], "caw", "require_approval", a)
    BY <1>2, <1>4 DEF GuardedCawRequiresApproval, Explains, Accepts
  <2>2. Ends(c, "caw", "require_approval")
    BY <1>4, <2>1 DEF GuardedCawRequiresApproval, CawRequiresApproval, Ends
  <2> QED BY <2>2, EndsExplained
<1>5. ASSUME NEW a \in AnswersTo(c), GuardedCawRequiresFallback(c, a) PROVE ExplainedInv'
  <2>1. Explains(input[c], "caw", "fallback_required", a)
    BY <1>2, <1>5 DEF GuardedCawRequiresFallback, Explains, Accepts
  <2>2. Ends(c, "caw", "fallback_required")
    BY <1>5, <2>1 DEF GuardedCawRequiresFallback, CawRequiresFallback, Ends
  <2> QED BY <2>2, EndsExplained
<1>6. ASSUME NEW a \in AnswersTo(c), GuardedCawDenies(c, a) PROVE ExplainedInv'
  <2>1. Explains(input[c], "caw", "block", a)
    BY <1>2, <1>6 DEF GuardedCawDenies, Explains
  <2>2. Ends(c, "caw", "block")
    BY <1>6, <2>1 DEF GuardedCawDenies, CawDenies, Ends
  <2> QED BY <2>2, EndsExplained
<1>7. ASSUME NEW a \in AnswersTo(c), GuardedCawEvidenceIncomplete(c, a) PROVE ExplainedInv'
  <2>1. Explains(input[c], "caw", "fallback_required", a)
    BY <1>2, <1>7 DEF GuardedCawEvidenceIncomplete, Explains, Accepts
  <2>2. Ends(c, "caw", "fallback_required")
    BY <1>7, <2>1 DEF GuardedCawEvidenceIncomplete, CawEvidenceIncomplete, Ends
  <2> QED BY <2>2, EndsExplained
<1>8. ASSUME NEW a \in AnswersTo(c), GuardedCacheUnsafe(c, a) PROVE ExplainedInv'
  <2>1. Explains(input[c], "cache_policy", "block", a)
    BY <1>2, <1>3, <1>8 DEF GuardedCacheUnsafe, Explains, PaidOn
  <2>2. Ends(c, "cache_policy", "block")
    BY <1>8, <2>1 DEF GuardedCacheUnsafe, CacheUnsafe, Ends
  <2> QED BY <2>2, EndsExplained
<1>9. ASSUME NEW a \in AnswersTo(c), GuardedCawPays(c, a) PROVE ExplainedInv'
  <2>1. layer' = [layer EXCEPT ![c] = "none"]
    BY <1>9 DEF GuardedCawPays
  <2>2. GoesOn(c)
    BY <1>2, <1>9, <2>1 DEF GuardedCawPays, CawPays, GoesOn, callVars, AskedOf, Spending
  <2> QED BY <2>2, GoesOnExplained
<1>10. CASE GuardedCawRejects(c)
  <2>1. GoesOn(c)
    BY <1>10 DEF GuardedCawRejects, CawRejects, Silently, guardVars, GoesOn, callVars, Spending
  <2> QED BY <2>1, GoesOnExplained
<1> QED BY <1>4, <1>5, <1>6, <1>7, <1>8, <1>9, <1>10 DEF GuardedCawAnswers

LEMMA ReceiptExplained ==
  ASSUME ExplainedInv, LockInv, AskInv, DeliveredInv, NEW c \in Calls,
         GuardedReceiptVerified(c) \/ GuardedReceiptBlocked(c) \/ GuardedReceiptThrows(c)
  PROVE  ExplainedInv'
<1> /\ DOMAIN layer = Calls /\ DOMAIN verdict = Calls /\ DOMAIN pc = Calls
    /\ DOMAIN lock = Calls /\ ExplainedOf(c)
  BY DEF ExplainedInv, LockInv, TypeOK
<1> USE DEF OthersStand, Goto, Decide, At
<1>1. pc[c] = "receipt"
  BY DEF GuardedReceiptVerified, ReceiptVerified, GuardedReceiptBlocked, ReceiptBlocked,
         GuardedReceiptThrows, ReceiptThrows
<1>2. lock[c] = "allow" /\ PaidOn(input[c], answer[c]) /\ CacheSafe(input[c])
  BY <1>1, HolderPasses
     DEF ExplainedOf, PaidOn, AskedOf, DeliveredInv, DeliveredOf, Accepted, Spending
<1>3. CASE GuardedReceiptVerified(c)
  <2>1. Explains(input[c], "guard_pipeline", "allow", answer'[c])
    BY <1>2, <1>3 DEF GuardedReceiptVerified, Explains
  <2>2. Ends(c, "guard_pipeline", "allow")
    BY <1>2, <1>3, <2>1 DEF GuardedReceiptVerified, ReceiptVerified, Ends
  <2> QED BY <2>2, EndsExplained
<1>4. CASE GuardedReceiptBlocked(c)
  <2>1. Explains(input[c], "receipt", "block", answer'[c])
    BY <1>2, <1>4 DEF GuardedReceiptBlocked, Explains
  <2>2. Ends(c, "receipt", "block")
    BY <1>4, <2>1 DEF GuardedReceiptBlocked, ReceiptBlocked, Ends
  <2> QED BY <2>2, EndsExplained
<1>5. CASE GuardedReceiptThrows(c)
  <2>1. GoesOn(c)
    BY <1>5 DEF GuardedReceiptThrows, ReceiptThrows, Silently, guardVars, GoesOn, callVars,
                Spending
  <2> QED BY <2>1, GoesOnExplained
<1> QED BY <1>3, <1>4, <1>5

LEMMA BookkeepingExplained ==
  ASSUME ExplainedInv, LockInv, AskInv, NEW c \in Calls, Bookkeeping(c), Silently
  PROVE  ExplainedInv'
<1> /\ DOMAIN layer = Calls /\ DOMAIN pc = Calls /\ ExplainedOf(c)
  BY DEF ExplainedInv, LockInv, TypeOK
<1>1. GoesOn(c)
  BY DEF Bookkeeping, Begin, MarkSpent, MarkQuoteSpent, PostSpend, RecordGuardEvent,
         RecordTimelineEvent, AfterTimeline, Release, Void, Dispute, Goto, callVars, Silently,
         guardVars, OthersStand, GoesOn, ExplainedOf, Spending
<1> QED BY <1>1, GoesOnExplained

LEMMA NextExplained ==
  ExplainedInv /\ DeliveredInv /\ LockInv /\ AskInv /\ [GuardedNext]_guardedVars => ExplainedInv'
<1> SUFFICES ASSUME ExplainedInv, DeliveredInv, LockInv, AskInv, [GuardedNext]_guardedVars
             PROVE  ExplainedInv'
  OBVIOUS
<1>1. ASSUME NEW m \in Missions, NEW b \in Limits, CreateMission(m, b) /\ Silently
      PROVE  ExplainedInv'
  BY <1>1 DEF CreateMission, Silently, guardVars, callVars, ExplainedInv, ExplainedOf
<1>2. CASE Crash /\ Silently
  BY <1>2 DEF Crash, Silently, guardVars, callVars, ExplainedInv, ExplainedOf, Spending
<1>3. CASE UNCHANGED guardedVars
  BY <1>3 DEF guardedVars, guardVars, vars, callVars, ExplainedInv, ExplainedOf
<1>4. ASSUME NEW c \in Calls, GuardedStep(c) PROVE ExplainedInv'
  BY <1>4, LayersExplained, LockExplained, CawExplained, ReceiptExplained, BookkeepingExplained
     DEF GuardedStep
<1> QED BY <1>1, <1>2, <1>3, <1>4 DEF GuardedNext

LEMMA InitExplained == Init /\ NothingAsked => ExplainedInv
BY DEF NothingAsked, Init, ExplainedInv, ExplainedOf, Spending

(***************************************************************************)
(* A call ends at the layer that its input and the answer of the CAW name, *)
(* with the verdict of that layer, whatever crashes and other calls do:    *)
(* every earlier layer let it through, and none after it is asked.         *)
(***************************************************************************)
THEOREM EndsWhereStopped == GuardedSpec => []ExplainedInv
BY InitNothingAsked, InitExplained, NextExplained, InitDelivered, NextDelivered, InitAskInv,
   NextAskInv, GuardedLockInvariant, PTL
DEF GuardedSpec

(***************************************************************************)
(* In what agrees in every respect no layer finds anything.                *)
(***************************************************************************)
Agrees(i) ==
  PassesLayers(i) /\ ReadyForCaw(i) /\ CacheSafe(i) /\ VerifiesReceipt(i, None)

BenignAgrees == \A i \in Benign : Agrees(i)

LEMMA AgreeingIsNotStopped ==
  ASSUME NEW i, NEW l, NEW v, NEW a, Agrees(i), Explains(i, l, v, a),
         l \notin {"quote_lock", "caw"}
  PROVE  l = "guard_pipeline" \/ a.ref # None
BY DEF Agrees, Explains, PassesLayers, Screened, Trusted, Listed, Bound, ReadyForCaw

(***************************************************************************)
(* What agrees in every respect is refused by no layer, for any inputs     *)
(* that do agree: only the lock, the CAW, or a reference that the provider *)
(* could not know when it signed stands in its way.                        *)
(***************************************************************************)
THEOREM BenignNotRefused ==
  ASSUME BenignAgrees
  PROVE  GuardedSpec => []BenignIsNotRefused
<1>1. ExplainedInv => BenignIsNotRefused
  <2>1. SUFFICES ASSUME ExplainedInv, NEW c \in Calls, input[c] \in Benign,
                        layer[c] \notin {"none", "quote_lock", "caw"}
                 PROVE  layer[c] = "guard_pipeline" \/ answer[c].ref # None
    BY DEF BenignIsNotRefused
  <2>2. Explains(input[c], layer[c], verdict[c], answer[c]) /\ Agrees(input[c])
    BY <2>1, BenignAgrees DEF ExplainedInv, ExplainedOf, BenignAgrees
  <2> QED BY <2>1, <2>2, AgreeingIsNotStopped
<1> QED BY <1>1, EndsWhereStopped, PTL
-----------------------------------------------------------------------------
(***************************************************************************)
(* The attack lab.  What stops an input first is what explains its end.    *)
(***************************************************************************)
LEMMA FirstStops ==
  ASSUME NEW i, NEW l, NEW v, NEW a, Explains(i, l, v, a)
  PROVE  /\ Readable(i) /\ DuplicatePaymentHeader(i) => l = "http_headers" /\ v = "block"
         /\ ~ DuplicatePaymentHeader(i) /\ ~ Bound(i) => l = "resource_binding" /\ v = "block"
         /\ Bound(i) /\ ~ Listed(i) => l = "provider_registry" /\ v = "block"
         /\ Listed(i) /\ TrustBlocks(i) => l = "erc8004" /\ v = "block"
         /\ Trusted(i) /\ ~ Screened(i) => l = "metadata_firewall" /\ v = "block"
         /\ PassesLayers(i) => l \in {"quote_lock", "service_escrow", "clearsig", "caw",
                                      "cache_policy", "receipt", "guard_pipeline"}
         /\ l = "quote_lock" => v = "block"
BY DEF Explains, PaidOn, AskedOf, PassesLayers, Screened, Trusted, Listed, Bound

LEMMA SigningStops ==
  ASSUME NEW i, NEW l, NEW v, NEW a, Explains(i, l, v, a), PassesLayers(i), l # "quote_lock"
  PROVE  /\ ~ EscrowMissing(i) /\ ~ ClearSigned(i) => l = "clearsig" /\ v = "block"
         /\ ReadyForCaw(i) => l \in {"caw", "cache_policy", "receipt", "guard_pipeline"}
BY FirstStops DEF Explains, PaidOn, AskedOf, ReadyForCaw

LEMMA CawStops ==
  ASSUME NEW i, NEW l, NEW v, NEW a, Explains(i, l, v, a), PassesLayers(i), ReadyForCaw(i),
         l # "quote_lock"
  PROVE  /\ a = NoAnswer => FALSE
         /\ a = LabDenies => l = "caw" /\ v = "block"
         /\ a = LabAllows =>
              /\ ~ CacheSafe(i) => l = "cache_policy" /\ v = "block"
              /\ CacheSafe(i) /\ ~ VerifiesReceipt(i, None) => l = "receipt" /\ v = "block"
              /\ CacheSafe(i) /\ VerifiesReceipt(i, None) => l = "guard_pipeline" /\ v = "allow"
<1>1. l \in {"caw", "cache_policy", "receipt", "guard_pipeline"}
  BY SigningStops
<1>2. NoAnswer \notin Answers /\ Accepts(NoAnswer) /\ ~ LacksEvidence(NoAnswer)
  BY GuardedPaymentAssumption DEF ModeRank, NoAnswer, Accepts, LacksEvidence
<1>3. Accepts(LabAllows) /\ ~ LacksEvidence(LabAllows) /\ LabAllows.ref = None
  BY DEF LabAllows, Accepts, LacksEvidence
<1>4. ~ Accepts(LabDenies) /\ LabDenies.decision = "block"
  BY DEF LabDenies, LabAllows, Accepts
<1>5. ASSUME a = NoAnswer PROVE FALSE
  BY <1>1, <1>2, <1>5 DEF Explains, PaidOn
<1>6. ASSUME a = LabDenies PROVE l = "caw" /\ v = "block"
  BY <1>1, <1>4, <1>6 DEF Explains, PaidOn
<1>7. ASSUME a = LabAllows
      PROVE  /\ ~ CacheSafe(i) => l = "cache_policy" /\ v = "block"
             /\ CacheSafe(i) /\ ~ VerifiesReceipt(i, None) => l = "receipt" /\ v = "block"
             /\ CacheSafe(i) /\ VerifiesReceipt(i, None) => l = "guard_pipeline" /\ v = "allow"
  BY <1>1, <1>3, <1>7 DEF Explains, PaidOn
<1> QED BY <1>5, <1>6, <1>7

(***************************************************************************)
(* What an input may have in common with the demo payment, and the layers  *)
(* that let it through for that.                                           *)
(***************************************************************************)
AsksReport(i) ==
  /\ i.request.url = ReportUrl /\ i.challenge.resource = ReportUrl
  /\ i.request.headers = <<>> /\ i.request.raw = <<>>

DemoPayee(i) ==
  i.entry = DemoEntry /\ i.challenge.payTo = "merchant" /\ i.challenge.facilitator = "facilitator"

DemoOffer(i) == i.trust = DemoTrust /\ i.metadata = DemoMetadata /\ i.quote = NoQuote

DemoOperation(i) ==
  /\ i.order.operation = "transfer" /\ i.policy = NoPolicy /\ i.challenge.whole
  /\ i.response.body.kind = "object" /\ i.response.body.contexts = {"own"}

LEMMA WithoutHeaders ==
  ASSUME NEW i, i.request.headers = <<>>, i.request.raw = <<>>
  PROVE  ~ DuplicatePaymentHeader(i)
<1>1. <<>> \in Seq({}) /\ <<>> \o <<>> = <<>>
  BY ConcatEmptySeq
<1>2. \A name : {n \in DOMAIN <<>> : <<>>[n].name = name} = {}
  OBVIOUS
<1>3. Cardinality({}) = 0
  BY FS_EmptySet
<1> QED BY <1>1, <1>2, <1>3 DEF DuplicatePaymentHeader

LEMMA ReportIsBound ==
  ASSUME NEW i, AsksReport(i)
  PROVE  Bound(i)
<1>1. ~ DuplicatePaymentHeader(i)
  BY WithoutHeaders DEF AsksReport
<1>2. Readable(i)
  BY DEF AsksReport, Readable, HasResource, UrlsParse, IsUrl, ReportUrl, Url, None
<1> QED BY <1>1, <1>2 DEF AsksReport, Bound, RequestsChallenged

LEMMA ReportIsListed ==
  ASSUME NEW i, AsksReport(i), DemoPayee(i), Normalizes(i)
  PROVE  Listed(i)
<1>1. Registered(i)
  BY DEF AsksReport, DemoPayee, Registered, DemoEntry, ReportUrl, Url
<1>2. ReportUrl.path \o ReportUrl.query = <<"paid", "report">>
  <2>1. <<"paid", "report">> \in Seq({"paid", "report"})
    OBVIOUS
  <2>2. ReportUrl.path = <<"paid", "report">> /\ ReportUrl.query = <<>>
    BY DEF ReportUrl, Url
  <2> QED BY <2>1, <2>2, ConcatEmptySeq
<1>3. ResourceAllowed(ReportUrl, DemoEntry.allowed)
  BY <1>2 DEF ResourceAllowed, DemoEntry
<1>4. RegistryAllows(i)
  BY <1>3 DEF AsksReport, DemoPayee, RegistryAllows, DemoEntry, ReportUrl, Url, None
<1> QED BY <1>1, <1>4, ReportIsBound DEF Listed

LEMMA OfferIsTrusted ==
  ASSUME NEW i, AsksReport(i), DemoPayee(i), i.trust = DemoTrust, Normalizes(i)
  PROVE  Trusted(i)
<1>1. TrustSource(i) = "demo"
  BY DEF TrustSource, DemoTrust
<1>2. EndpointMatches(i) /\ ~ VeryLowReputation(i)
  BY DEF EndpointMatches, VeryLowReputation, LowReputation, AsksReport, DemoPayee, DemoTrust,
         DemoEntry
<1>3. ~ TrustBlocks(i)
  BY <1>2 DEF TrustBlocks, DemoPayee, DemoTrust, PaidButDeniedThreshold
<1> QED BY <1>1, <1>3, ReportIsListed DEF Trusted

LEMMA NothingFound == FoundInUrl(ReportUrl) = {}
<1>1. Words(ReportUrl.query) = {}
  BY DEF Words, ReportUrl, Url
<1> QED BY <1>1 DEF FoundInUrl

LEMMA OfferPasses ==
  ASSUME NEW i, AsksReport(i), DemoPayee(i), DemoOffer(i), Normalizes(i)
  PROVE  PassesLayers(i)
<1>1. Trusted(i)
  BY OfferIsTrusted DEF DemoOffer
<1>2. Found(i.metadata) = {}
  BY NothingFound DEF DemoOffer, DemoMetadata, Found
<1>3. FirewallDecision(i.metadata) = "allow"
  BY <1>2 DEF FirewallDecision
<1>4. MetadataBound(i)
  BY DEF MetadataBound, DemoOffer, DemoMetadata, AsksReport, IsUrl, ReportUrl, Url, None
<1>5. QuoteHolds(i)
  BY DEF QuoteHolds, DemoOffer, NoQuote
<1> QED BY <1>1, <1>3, <1>4, <1>5 DEF PassesLayers, Screened

(***************************************************************************)
(* Clear signing lets a transfer of the asked amount to the merchant pass. *)
(***************************************************************************)
ReviewsGiven(i) == ~ Escrowed(i) /\ ReviewedCalldata(i) = i.calldata

LEMMA TransferReviewed ==
  ASSUME NEW i, i.order.operation = "transfer", i.calldata.form = "hex"
  PROVE  ~ EscrowMissing(i) /\ ReviewsGiven(i)
BY DEF EscrowMissing, ReviewsGiven, Escrowed, ReviewedCalldata

LEMMA TransferIsReady ==
  ASSUME NEW i, DemoOperation(i), i.entry = DemoEntry,
         i.calldata = TransferCalldata("merchant", i.challenge.amount)
  PROVE  ReadyForCaw(i)
<1> DEFINE s == ClearSignInput(i)
<1>1. i.calldata.form = "hex" /\ i.calldata.selector = "transfer"
      /\ i.calldata.params = {<<"recipient", "merchant">>, <<"amount", i.challenge.amount>>}
  BY DEF TransferCalldata
<1>2. ~ EscrowMissing(i) /\ ReviewsGiven(i)
  BY <1>1, TransferReviewed DEF DemoOperation
<1>3. /\ s.calldata = i.calldata /\ s.typed = i.response.body
      /\ s.expected.merchant = "merchant" /\ s.expected.amount = i.challenge.amount
      /\ s.expected.whole = i.challenge.whole /\ s.expected.context = "own"
  BY <1>2 DEF ClearSignInput, ReviewsGiven, DemoEntry
<1>p. /\ i.policy.selectors = {None} /\ i.policy.abis = {} /\ i.policy.paramsGiven = FALSE
      /\ i.policy.message.given = FALSE
  BY DEF DemoOperation, NoPolicy
<1>4. /\ s.expected.selectors = DefaultSelectors
      /\ s.expected.abis = {} /\ s.expected.paramsGiven = FALSE
      /\ s.expected.message.given = FALSE
  BY <1>2, <1>p DEF ClearSignInput, ReviewsGiven
<1> HIDE DEF s
<1>5. TypedDataIsSafe(s)
  BY <1>3, <1>4 DEF TypedDataIsSafe, MessageMatches, DemoOperation
<1>6. CalldataIsSafe(s)
  BY <1>1, <1>3, <1>4
     DEF CalldataIsSafe, DefaultSelectors, AbiMatches, ApprovesSafely, TransfersAsExpected,
         NestsOnlyAllowed, SettlesOwnContext, ParamsMatch, DemoOperation
<1>7. ~ ThrowsClearSign(s)
  <2>1. ParamsOf["transfer"] = {"recipient", "amount"} /\ "transfer" \in DOMAIN ParamsOf
    BY DEF ParamsOf
  <2>2. Names(i.calldata.params) = {"recipient", "amount"}
    <3>1. <<"recipient", "merchant">>[1] = "recipient" /\ <<"amount", i.challenge.amount>>[1] = "amount"
      OBVIOUS
    <3> QED BY <1>1, <3>1, Zenon DEF Names
  <2> QED BY <1>1, <1>3, <2>1, <2>2 DEF ThrowsClearSign, Decodes
<1>8. ~ Unsignable(i)
  BY <1>2, <1>7 DEF Unsignable, ReviewsGiven, s
<1>9. ClearSigned(i)
  BY <1>5, <1>6 DEF ClearSigned, ClearSignResult, s
<1> QED BY <1>2, <1>8, <1>9 DEF ReadyForCaw

(***************************************************************************)
(* What is sent for signing is reviewed as the provider gave it.           *)
(***************************************************************************)
LEMMA UnsafeIsNotSigned ==
  ASSUME NEW i, DemoOperation(i), i.calldata.form = "hex",
         \/ ~ NestsOnlyAllowed(ClearSignInput(i))
         \/ ~ ApprovesSafely(ClearSignInput(i))
         \/ ~ TransfersAsExpected(ClearSignInput(i))
  PROVE  ~ EscrowMissing(i) /\ ~ ClearSigned(i)
<1>1. ~ EscrowMissing(i) /\ ReviewsGiven(i)
  BY TransferReviewed DEF DemoOperation
<1>2. ClearSignInput(i).calldata.form = "hex"
  BY <1>1 DEF ClearSignInput, ReviewsGiven
<1>3. ~ CalldataIsSafe(ClearSignInput(i))
  BY DEF CalldataIsSafe
<1> QED BY <1>1, <1>2, <1>3 DEF ClearSigned, ClearSignResult

(***************************************************************************)
(* The scenarios at a time, and what each keeps of the demo payment.       *)
(***************************************************************************)
LabInput(a, t) == [Scenario[a] EXCEPT !.request.now = t]

DemoUnsigned ==
  [request |-> AttackRequest(0), challenge |-> RawChallenge(5), entry |-> DemoEntry,
   trust |-> DemoTrust, metadata |-> DemoMetadata, quote |-> NoQuote, order |-> DemoOrder,
   policy |-> NoPolicy, calldata |-> TransferCalldata("merchant", 5),
   response |-> SafeResponse(Body({<<"ok", "true">>}))]

LEMMA DemoParts ==
  LET d == DemoInput(0) IN
  /\ DOMAIN d = DOMAIN DemoUnsigned
  /\ d.request = AttackRequest(0) /\ d.challenge = RawChallenge(5) /\ d.entry = DemoEntry
  /\ d.trust = DemoTrust /\ d.metadata = DemoMetadata /\ d.quote = NoQuote
  /\ d.order = DemoOrder /\ d.policy = NoPolicy /\ d.calldata = TransferCalldata("merchant", 5)
  /\ d.response = [SafeResponse(Body({<<"ok", "true">>})) EXCEPT
       !.signature = SignReceipt("registry-key", Receipt(DemoUnsigned, None))]
<1>1. DemoInput(0) = Sign(DemoUnsigned, None)
  BY DEF DemoInput, DemoUnsigned
<1> QED BY <1>1 DEF Sign, DemoUnsigned

(***************************************************************************)
(* An input i is s at another time, and all that follows from the parts    *)
(* that do not depend on the time.                                         *)
(***************************************************************************)
SameAs(i, s) ==
  /\ i.request.url = s.request.url /\ i.request.headers = s.request.headers
  /\ i.request.raw = s.request.raw
  /\ i.challenge = s.challenge /\ i.entry = s.entry /\ i.trust = s.trust
  /\ i.metadata = s.metadata /\ i.quote = s.quote /\ i.order = s.order
  /\ i.policy = s.policy /\ i.calldata = s.calldata /\ i.response = s.response

LabShape(s) == DOMAIN s = DOMAIN DemoUnsigned /\ DOMAIN s.request = DOMAIN AttackRequest(0)

LEMMA AtTime ==
  ASSUME NEW s, NEW t, LabShape(s)
  PROVE  SameAs([s EXCEPT !.request.now = t], s)
BY DEF SameAs, LabShape, DemoUnsigned, AttackRequest

LEMMA ScenarioAtTime ==
  ASSUME NEW a, NEW s, NEW t, Scenario[a] = s, LabShape(s)
  PROVE  SameAs(LabInput(a, t), s)
BY AtTime DEF LabInput

(***************************************************************************)
(* What stops an input, by the layer that does: "quote_lock" where nothing *)
(* else does.                                                              *)
(***************************************************************************)
StoppedAt(i, l) ==
  \/ l = "http_headers" /\ Readable(i) /\ DuplicatePaymentHeader(i)
  \/ l = "resource_binding" /\ ~ DuplicatePaymentHeader(i) /\ ~ Bound(i)
  \/ l = "provider_registry" /\ Bound(i) /\ ~ Listed(i)
  \/ l = "erc8004" /\ Listed(i) /\ TrustBlocks(i)
  \/ l = "metadata_firewall" /\ Trusted(i) /\ ~ Screened(i)
  \/ l = "clearsig" /\ PassesLayers(i) /\ ~ EscrowMissing(i) /\ ~ ClearSigned(i)
  \/ l = "caw" /\ AskedOf(i) /\ i.challenge.amount > 100
  \/ l = "cache_policy" /\ AskedOf(i) /\ ~ CacheSafe(i)
  \/ l = "receipt" /\ AskedOf(i) /\ CacheSafe(i) /\ ~ VerifiesReceipt(i, None)
  \/ l = "quote_lock" /\ AskedOf(i) /\ CacheSafe(i) /\ VerifiesReceipt(i, None)

LEMMA CrossResourceStops ==
  ASSUME NEW i, SameAs(i, CrossResource(DemoInput(0)))
  PROVE  StoppedAt(i, "resource_binding")
<1>1. /\ i.request.url = Url("provider.example", <<"paid", "admin-ledger">>)
      /\ i.request.headers = <<>> /\ i.request.raw = <<>>
      /\ i.challenge.resource = ReportUrl
  BY DemoParts DEF SameAs, CrossResource, DemoUnsigned, AttackRequest, RawChallenge
<1>2. CanonicalUrl(i.request.url).path[2] = "admin-ledger"
  BY <1>1 DEF CanonicalUrl, Url, DecodeUnreserved
<1>3. CanonicalUrl(ReportUrl).path[2] = "report"
  BY DEF CanonicalUrl, ReportUrl, Url, DecodeUnreserved
<1>4. ~ RequestsChallenged(i)
  BY <1>1, <1>2, <1>3 DEF RequestsChallenged
<1> QED BY <1>1, <1>4, WithoutHeaders DEF StoppedAt, Bound

LEMMA HeaderConfusionStops ==
  ASSUME NEW i, SameAs(i, HeaderConfusion(DemoInput(0)))
  PROVE  StoppedAt(i, "http_headers")
<1> DEFINE once == [name |-> "x-payment", isList |-> FALSE]
           s == HeaderConfusion(DemoInput(0))
           given == i.request.headers \o i.request.raw
<1>1. /\ s.request.url = ReportUrl /\ s.challenge = RawChallenge(5)
      /\ s.request.headers = <<once, once>> /\ s.request.raw = <<once, once>>
  <2> DEFINE d == DemoInput(0)
  <2>1. /\ DOMAIN d = DOMAIN DemoUnsigned
        /\ d.request = AttackRequest(0) /\ d.challenge = RawChallenge(5)
    BY DemoParts
  <2> HIDE DEF d, once
  <2>2. /\ s.request = [[d.request EXCEPT !.headers = <<once, once>>] EXCEPT !.raw = <<once, once>>]
        /\ s.challenge = d.challenge
    BY <2>1 DEF HeaderConfusion, DemoUnsigned, d, once
  <2> HIDE DEF s
  <2> QED BY <2>1, <2>2 DEF AttackRequest
<1>2. /\ i.request.url = ReportUrl /\ i.challenge.resource = ReportUrl
      /\ i.request.headers = <<once, once>> /\ i.request.raw = <<once, once>>
  <2> HIDE DEF once, s
  <2>1. RawChallenge(5).resource = ReportUrl
    BY DEF RawChallenge
  <2> QED BY <1>1, <2>1 DEF SameAs, s
<1>3. Readable(i)
  BY <1>2 DEF Readable, HasResource, UrlsParse, IsUrl, ReportUrl, Url, None
<1>4. DOMAIN given = 1..4 /\ \A n \in 1..4 : given[n] = once
  <2>1. \A x : <<x, x>> \in Seq({x}) /\ Len(<<x, x>>) = 2 /\ \A n \in 1..2 : <<x, x>>[n] = x
    OBVIOUS
  <2> HIDE DEF once
  <2>2. \A x : Len(<<x, x>> \o <<x, x>>) = 4 /\ <<x, x>> \o <<x, x>> \in Seq({x})
    <3> TAKE x
    <3> QED BY <2>1, ConcatProperties
  <2>3. given \in Seq({once}) /\ Len(given) = 4
    BY <1>2, <2>2
  <2> HIDE DEF given
  <2> QED BY <2>3
<1>5. {n \in DOMAIN given : given[n].name = "x-payment"} = 1..4
  <2> HIDE DEF given
  <2> QED BY <1>4
<1>6. Cardinality(1..4) = 4
  <2>1. 1 \in Int /\ 4 \in Int
    OBVIOUS
  <2>2. Cardinality(1..4) = IF 1 > 4 THEN 0 ELSE 4 - 1 + 1
    BY <2>1, FS_Interval, Zenon
  <2> QED BY <2>2
<1>7. Cardinality({n \in DOMAIN given : given[n].name = "x-payment"}) > 1
  <2>1. Cardinality(1..4) > 1
    BY <1>6
  <2> QED BY <1>5, <2>1, Zenon
<1>8. DuplicatePaymentHeader(i)
  <2>1. "x-payment" \in PaymentHeaders
    BY DEF PaymentHeaders
  <2> QED BY <1>7, <2>1, Zenon DEF DuplicatePaymentHeader
<1> QED BY <1>3, <1>8 DEF StoppedAt

LEMMA DiscoveryPoisoningStops ==
  ASSUME NEW i, SameAs(i, DiscoveryPoisoning(DemoInput(0)))
  PROVE  StoppedAt(i, "provider_registry")
<1> DEFINE evil == Url("evil.example", <<"paid", "report">>)
           d == DemoInput(0)
           s == DiscoveryPoisoning(d)
<1>1. /\ s.request = [d.request EXCEPT !.url = evil]
      /\ s.challenge = [d.challenge EXCEPT !.resource = evil, !.payTo = "evil-merchant",
                                           !.facilitator = "evil-facilitator"]
      /\ s.entry = [d.entry EXCEPT !.origin = None]
  <2>1. DOMAIN d = DOMAIN DemoUnsigned
    BY DemoParts
  <2> HIDE DEF d, evil
  <2> QED BY <2>1 DEF DiscoveryPoisoning, DemoUnsigned, s, evil
<1>2. d.request = AttackRequest(0) /\ d.challenge = RawChallenge(5) /\ d.entry = DemoEntry
  BY DemoParts
<1> HIDE DEF d, s
<1>3. /\ s.request.url = evil /\ s.request.headers = <<>> /\ s.request.raw = <<>>
      /\ s.challenge.resource = evil /\ s.entry.origin = None
  <2> HIDE DEF evil
  <2> QED BY <1>1, <1>2 DEF AttackRequest, RawChallenge, DemoEntry
<1>4. /\ i.request.url = evil /\ i.request.headers = <<>> /\ i.request.raw = <<>>
      /\ i.challenge.resource = evil /\ i.entry.origin = None
  <2> HIDE DEF evil
  <2> QED BY <1>3 DEF SameAs, d, s
<1>5. Bound(i)
  BY <1>4, WithoutHeaders
     DEF Bound, RequestsChallenged, Readable, HasResource, UrlsParse, IsUrl, Url, None
<1>6. ~ Registered(i)
  BY <1>4 DEF Registered, Url, None
<1> QED BY <1>5, <1>6 DEF StoppedAt, Listed

LEMMA SettlementPathStops ==
  ASSUME NEW i, SameAs(i, SettlementPath(DemoInput(0)))
  PROVE  StoppedAt(i, "provider_registry")
<1> DEFINE s == SettlementPath(DemoInput(0))
<1>1. /\ s.request = AttackRequest(0) /\ s.entry = DemoEntry
      /\ s.challenge = [RawChallenge(5) EXCEPT !.facilitator = "attacker-facilitator"]
  BY DemoParts DEF SettlementPath, DemoUnsigned
<1>2. /\ AsksReport(i) /\ i.entry = DemoEntry
      /\ i.challenge.facilitator = "attacker-facilitator"
  <2> HIDE DEF s
  <2>1. AsksReport(s) /\ s.challenge.facilitator = "attacker-facilitator"
    BY <1>1 DEF AsksReport, AttackRequest, RawChallenge
  <2> QED BY <1>1, <2>1 DEF SameAs, AsksReport, s
<1>3. ~ RegistryAllows(i)
  BY <1>2 DEF RegistryAllows, DemoEntry
<1> QED BY <1>2, <1>3, ReportIsBound DEF StoppedAt, Listed

(***************************************************************************)
(* The scenarios that ask for the demo report and reach the layer after    *)
(* the registry.                                                           *)
(***************************************************************************)
AsDemoUpToTrust(i) ==
  AsksReport(i) /\ i.challenge = RawChallenge(5) /\ i.entry = DemoEntry

LEMMA DemoUpToTrust ==
  ASSUME NEW i, AsDemoUpToTrust(i)
  PROVE  DemoPayee(i)
BY DEF AsDemoUpToTrust, DemoPayee, RawChallenge

LEMMA PiiStops ==
  ASSUME NEW i, SameAs(i, Pii(DemoInput(0))), Normalizes(i)
  PROVE  StoppedAt(i, "metadata_firewall")
<1> DEFINE s == Pii(DemoInput(0))
<1>1. /\ s.request = AttackRequest(0) /\ s.entry = DemoEntry /\ s.trust = DemoTrust
      /\ s.challenge = RawChallenge(5)
      /\ s.metadata = [DemoMetadata EXCEPT !.description = {"block"}]
  BY DemoParts DEF Pii, DemoUnsigned
<1>2. /\ AsDemoUpToTrust(i) /\ i.trust = DemoTrust
      /\ i.metadata = [DemoMetadata EXCEPT !.description = {"block"}]
  <2> HIDE DEF s
  <2>1. AsksReport(s)
    BY <1>1 DEF AsksReport, AttackRequest, RawChallenge
  <2> QED BY <1>1, <2>1 DEF SameAs, AsksReport, AsDemoUpToTrust, s
<1>3. Trusted(i)
  BY <1>2, DemoUpToTrust, OfferIsTrusted DEF AsDemoUpToTrust
<1>4. Found(i.metadata) = {"block"}
  BY <1>2, NothingFound DEF DemoMetadata, Found
<1>5. FirewallDecision(i.metadata) = "block"
  BY <1>4 DEF FirewallDecision, FindingRank
<1> QED BY <1>3, <1>5 DEF StoppedAt, Screened

LEMMA Erc8004IdentityMismatchStops ==
  ASSUME NEW i, SameAs(i, Erc8004IdentityMismatch(DemoInput(0))), Normalizes(i)
  PROVE  StoppedAt(i, "erc8004")
<1> DEFINE d == DemoInput(0)
           s == Erc8004IdentityMismatch(d)
<1>1. DOMAIN d = DOMAIN DemoUnsigned /\ d.trust = DemoTrust
  BY DemoParts
<1>2. /\ s.request = AttackRequest(0) /\ s.entry = DemoEntry /\ s.challenge = RawChallenge(5)
  BY DemoParts DEF Erc8004IdentityMismatch, DemoUnsigned
<1>3. s.trust.demo = TRUE /\ s.trust.live = FALSE /\ s.trust.payTo = "stranger"
  <2> DEFINE u == Url("mismatch.example", <<"paid", "report">>)
  <2> HIDE DEF d, u
  <2>1. s.trust = [[[d.trust EXCEPT !.agentUrl = u] EXCEPT !.payTo = "stranger"] EXCEPT !.score = 92]
    BY <1>1 DEF Erc8004IdentityMismatch, DemoUnsigned, u
  <2> HIDE DEF s
  <2> QED BY <1>1, <2>1 DEF DemoTrust
<1>4. /\ AsDemoUpToTrust(i)
      /\ i.trust.demo = TRUE /\ i.trust.live = FALSE /\ i.trust.payTo = "stranger"
  <2> HIDE DEF d, s
  <2>1. AsksReport(s)
    BY <1>2 DEF AsksReport, AttackRequest, RawChallenge
  <2> QED BY <1>2, <1>3, <2>1 DEF SameAs, AsksReport, AsDemoUpToTrust, d, s
<1>5. TrustBlocks(i)
  BY <1>4 DEF TrustBlocks, TrustSource, AsDemoUpToTrust, RawChallenge
<1> QED BY <1>4, <1>5, DemoUpToTrust, ReportIsListed DEF StoppedAt, AsDemoUpToTrust

LEMMA LowReputationProviderStops ==
  ASSUME NEW i, SameAs(i, LowReputationProvider(DemoInput(0))), Normalizes(i)
  PROVE  StoppedAt(i, "erc8004")
<1> DEFINE d == DemoInput(0)
           s == LowReputationProvider(d)
<1>1. DOMAIN d = DOMAIN DemoUnsigned /\ d.trust = DemoTrust
  BY DemoParts
<1>2. /\ s.request = AttackRequest(0) /\ s.entry = DemoEntry /\ s.challenge = RawChallenge(5)
  BY DemoParts DEF LowReputationProvider, DemoUnsigned
<1>3. s.trust.demo = TRUE /\ s.trust.live = FALSE /\ s.trust.score = 12
  <2> HIDE DEF d
  <2>1. s.trust = [[d.trust EXCEPT !.score = 12] EXCEPT !.reports = 5]
    BY <1>1 DEF LowReputationProvider, DemoUnsigned
  <2> HIDE DEF s
  <2> QED BY <1>1, <2>1 DEF DemoTrust
<1>4. /\ AsDemoUpToTrust(i)
      /\ i.trust.demo = TRUE /\ i.trust.live = FALSE /\ i.trust.score = 12
  <2> HIDE DEF d, s
  <2>1. AsksReport(s)
    BY <1>2 DEF AsksReport, AttackRequest, RawChallenge
  <2> QED BY <1>2, <1>3, <2>1 DEF SameAs, AsksReport, AsDemoUpToTrust, d, s
<1>5. VeryLowReputation(i)
  BY <1>4 DEF VeryLowReputation, LowReputation, AsDemoUpToTrust, DemoEntry
<1>6. TrustBlocks(i)
  BY <1>4, <1>5 DEF TrustBlocks, TrustSource
<1> QED BY <1>4, <1>6, DemoUpToTrust, ReportIsListed DEF StoppedAt, AsDemoUpToTrust

(***************************************************************************)
(* The scenarios that pass every layer before the lock.                    *)
(***************************************************************************)
AsDemoUpToSigning(i) ==
  /\ AsksReport(i) /\ DemoPayee(i) /\ DemoOffer(i)
  /\ i.order.operation = "transfer" /\ i.policy = NoPolicy /\ i.challenge.whole
  /\ i.response.body.kind = "object" /\ i.response.body.contexts = {"own"}

LEMMA SameUpToSigning ==
  ASSUME NEW i, NEW s, SameAs(i, s), AsDemoUpToSigning(s), Normalizes(i)
  PROVE  PassesLayers(i) /\ DemoOperation(i) /\ i.entry = DemoEntry
<1>1. AsksReport(i) /\ DemoPayee(i) /\ DemoOffer(i)
  BY DEF SameAs, AsDemoUpToSigning, AsksReport, DemoPayee, DemoOffer
<1>2. DemoOperation(i)
  BY DEF SameAs, AsDemoUpToSigning, DemoOperation
<1> QED BY <1>1, <1>2, OfferPasses DEF DemoPayee

ChallengesFor(c, amt) ==
  /\ c.resource = ReportUrl /\ c.payTo = "merchant" /\ c.facilitator = "facilitator"
  /\ c.whole = TRUE /\ c.amount = amt

LEMMA Challenges ==
  /\ ChallengesFor(RawChallenge(5), 5)
  /\ \A amt : ChallengesFor([RawChallenge(5) EXCEPT !.amount = amt], amt)
BY DEF ChallengesFor, RawChallenge

LEMMA DemoUpToSigning ==
  ASSUME NEW s, NEW amt,
         s.request = AttackRequest(0), s.entry = DemoEntry, s.trust = DemoTrust,
         s.metadata = DemoMetadata, s.quote = NoQuote, s.order.operation = "transfer",
         s.policy = NoPolicy, ChallengesFor(s.challenge, amt), NEW f, s.response.body = Body(f)
  PROVE  AsDemoUpToSigning(s)
<1>1. AsksReport(s) /\ DemoPayee(s) /\ DemoOffer(s)
  BY DEF AsksReport, DemoPayee, DemoOffer, AttackRequest, ChallengesFor
<1>2. s.challenge.whole
  BY DEF ChallengesFor
<1>3. s.response.body.kind = "object" /\ s.response.body.contexts = {"own"}
  BY DEF Body
<1> QED BY <1>1, <1>2, <1>3 DEF AsDemoUpToSigning

LEMMA MaliciousApproveStops ==
  ASSUME NEW i, SameAs(i, MaliciousApprove(DemoInput(0))), Normalizes(i)
  PROVE  StoppedAt(i, "clearsig")
<1> DEFINE s == MaliciousApprove(DemoInput(0))
<1>1. /\ s.request = AttackRequest(0) /\ s.entry = DemoEntry /\ s.trust = DemoTrust
      /\ s.metadata = DemoMetadata /\ s.quote = NoQuote /\ s.order = DemoOrder
      /\ s.policy = NoPolicy /\ s.challenge = RawChallenge(5)
      /\ s.response.body = Body({<<"ok", "true">>})
      /\ s.calldata = ApproveCalldata("stranger", Unlimited)
  BY DemoParts DEF MaliciousApprove, DemoUnsigned, SafeResponse
<1> HIDE DEF s
<1>2. AsDemoUpToSigning(s)
  <2>1. ChallengesFor(s.challenge, 5) /\ s.order.operation = "transfer"
    BY <1>1, Challenges DEF DemoOrder
  <2> QED BY <1>1, <2>1, DemoUpToSigning
<1>3. PassesLayers(i) /\ DemoOperation(i)
  BY <1>2, SameUpToSigning DEF s
<1>4. i.calldata = ApproveCalldata("stranger", Unlimited)
  BY <1>1 DEF SameAs, s
<1>5. i.calldata.form = "hex" /\ i.calldata.selector = "approve"
      /\ <<"amount", Unlimited>> \in i.calldata.params
  BY <1>4 DEF ApproveCalldata
<1>6. ClearSignInput(i).calldata = i.calldata
  BY <1>3, <1>5, TransferReviewed DEF DemoOperation, ClearSignInput, ReviewsGiven
<1>7. ~ ApprovesSafely(ClearSignInput(i))
  BY <1>5, <1>6 DEF ApprovesSafely
<1> QED BY <1>3, <1>5, <1>7, UnsafeIsNotSigned DEF StoppedAt

LEMMA MulticallHiddenOperationStops ==
  ASSUME NEW i, SameAs(i, MulticallHiddenOperation(DemoInput(0))), Normalizes(i)
  PROVE  StoppedAt(i, "clearsig")
<1> DEFINE s == MulticallHiddenOperation(DemoInput(0))
<1>1. /\ s.request = AttackRequest(0) /\ s.entry = DemoEntry /\ s.trust = DemoTrust
      /\ s.metadata = DemoMetadata /\ s.quote = NoQuote /\ s.order = DemoOrder
      /\ s.policy = NoPolicy /\ s.challenge = RawChallenge(5)
      /\ s.response.body = Body({<<"ok", "true">>})
      /\ s.calldata = MulticallCalldata({"approve", "mint"})
  BY DemoParts DEF MulticallHiddenOperation, DemoUnsigned, SafeResponse
<1> HIDE DEF s
<1>2. AsDemoUpToSigning(s)
  <2>1. ChallengesFor(s.challenge, 5) /\ s.order.operation = "transfer"
    BY <1>1, Challenges DEF DemoOrder
  <2> QED BY <1>1, <2>1, DemoUpToSigning
<1>3. PassesLayers(i) /\ DemoOperation(i)
  BY <1>2, SameUpToSigning DEF s
<1>4. i.calldata = MulticallCalldata({"approve", "mint"})
  BY <1>1 DEF SameAs, s
<1>5. i.calldata.form = "hex" /\ i.calldata.selector = "multicall" /\ "mint" \in i.calldata.nested
  BY <1>4 DEF MulticallCalldata
<1>6. ClearSignInput(i).calldata = i.calldata /\ ~ Escrowed(i)
  BY <1>3, <1>5, TransferReviewed DEF DemoOperation, ClearSignInput, ReviewsGiven
<1>7. ClearSignInput(i).expected.selectors = DefaultSelectors
  <2>1. i.policy.selectors = {None}
    BY <1>3 DEF DemoOperation, NoPolicy
  <2> QED BY <1>6, <2>1 DEF ClearSignInput
<1>8. ~ NestsOnlyAllowed(ClearSignInput(i))
  BY <1>5, <1>6, <1>7 DEF NestsOnlyAllowed, DefaultSelectors
<1> QED BY <1>3, <1>5, <1>8, UnsafeIsNotSigned DEF StoppedAt

LEMMA PartialPaymentStops ==
  ASSUME NEW i, SameAs(i, PartialPayment(DemoInput(0))), Normalizes(i)
  PROVE  StoppedAt(i, "clearsig")
<1> DEFINE d == DemoInput(0)
           s == PartialPayment(d)
<1>1. /\ s.request = AttackRequest(0) /\ s.entry = DemoEntry /\ s.trust = DemoTrust
      /\ s.metadata = DemoMetadata /\ s.quote = NoQuote /\ s.order = DemoOrder
      /\ s.policy = NoPolicy
      /\ s.response.body = Body({<<"ok", "true">>})
      /\ s.calldata = TransferCalldata("merchant", 900)
  BY DemoParts DEF PartialPayment, DemoUnsigned, SafeResponse
<1>2. ChallengesFor(s.challenge, 1000)
  <2>1. DOMAIN d = DOMAIN DemoUnsigned /\ d.challenge = RawChallenge(5)
    BY DemoParts
  <2> HIDE DEF d
  <2>2. s.challenge = [d.challenge EXCEPT !.amount = 1000]
    BY <2>1 DEF PartialPayment, DemoUnsigned
  <2> HIDE DEF s
  <2> QED BY <2>1, <2>2, Challenges
<1> HIDE DEF d, s
<1>3. AsDemoUpToSigning(s)
  BY <1>1, <1>2, DemoUpToSigning DEF DemoOrder
<1>4. PassesLayers(i) /\ DemoOperation(i)
  BY <1>3, SameUpToSigning DEF d, s
<1>5. i.calldata = TransferCalldata("merchant", 900) /\ i.challenge.amount = 1000
  BY <1>1, <1>2 DEF SameAs, d, s, ChallengesFor
<1>6. i.calldata.form = "hex" /\ i.calldata.selector = "transfer"
      /\ <<"amount", 1000>> \notin i.calldata.params
  BY <1>5 DEF TransferCalldata
<1>7. /\ ClearSignInput(i).calldata = i.calldata
      /\ ClearSignInput(i).expected.amount = 1000
  BY <1>4, <1>5, <1>6, TransferReviewed DEF DemoOperation, ClearSignInput, ReviewsGiven
<1>8. ~ TransfersAsExpected(ClearSignInput(i))
  BY <1>6, <1>7 DEF TransfersAsExpected
<1> QED BY <1>4, <1>6, <1>8, UnsafeIsNotSigned DEF StoppedAt

(***************************************************************************)
(* The scenarios that are paid, but for the lab's CAW.                     *)
(***************************************************************************)
LEMMA TransferIsAsked ==
  ASSUME NEW i, NEW s, SameAs(i, s), AsDemoUpToSigning(s), Normalizes(i),
         s.calldata = TransferCalldata("merchant", s.challenge.amount)
  PROVE  AskedOf(i)
<1>1. PassesLayers(i) /\ DemoOperation(i) /\ i.entry = DemoEntry
  BY SameUpToSigning
<1>2. i.calldata = TransferCalldata("merchant", i.challenge.amount)
  BY DEF SameAs
<1> QED BY <1>1, <1>2, TransferIsReady DEF AskedOf

LEMMA DynamicPriceStops ==
  ASSUME NEW i, SameAs(i, DynamicPrice(DemoInput(0))), Normalizes(i)
  PROVE  StoppedAt(i, "caw")
<1> DEFINE d == DemoInput(0)
           s == DynamicPrice(d)
<1>1. /\ s.request = AttackRequest(0) /\ s.entry = DemoEntry /\ s.trust = DemoTrust
      /\ s.metadata = DemoMetadata /\ s.quote = NoQuote /\ s.order = DemoOrder
      /\ s.policy = NoPolicy
      /\ s.response.body = Body({<<"ok", "true">>})
      /\ s.calldata = TransferCalldata("merchant", 250)
  BY DemoParts DEF DynamicPrice, DemoUnsigned, SafeResponse
<1>2. ChallengesFor(s.challenge, 250)
  <2>1. DOMAIN d = DOMAIN DemoUnsigned /\ d.challenge = RawChallenge(5)
    BY DemoParts
  <2> HIDE DEF d
  <2>2. s.challenge = [d.challenge EXCEPT !.amount = 250]
    BY <2>1 DEF DynamicPrice, DemoUnsigned
  <2> HIDE DEF s
  <2> QED BY <2>1, <2>2, Challenges
<1> HIDE DEF d, s
<1>3. AsDemoUpToSigning(s)
  BY <1>1, <1>2, DemoUpToSigning DEF DemoOrder
<1>4. s.challenge.amount = 250 /\ i.challenge.amount = 250
  BY <1>2 DEF SameAs, d, s, ChallengesFor
<1>5. AskedOf(i)
  BY <1>1, <1>3, <1>4, TransferIsAsked DEF d, s
<1> QED BY <1>4, <1>5 DEF StoppedAt

(***************************************************************************)
(* The receipt of a response that is signed for what it delivers: only its *)
(* shape and its denial can fail.                                          *)
(***************************************************************************)
SignedForItself(i) ==
  /\ i.response.signature = SignReceipt("registry-key", Receipt(i, None))
  /\ i.response.publicKey = "registry-key" /\ i.response.address = "merchant"
  /\ i.entry = DemoEntry /\ i.response.body.kind = "object"
  /\ i.challenge.resource = ReportUrl

LEMMA ReceiptOfSigned ==
  ASSUME NEW i, SignedForItself(i)
  PROVE  LET c == Checks(i, Receipt(i, None)) IN
         /\ DOMAIN c = 1..6
         /\ c[1][2] /\ c[2][2] /\ c[3][2] /\ c[6][2]
         /\ c[4][2] <=> (i.response.schema = None \/ HasExpectedShape(i.response.body))
         /\ c[5][2] <=> ~ DeniesDelivery(i.response.body)
         /\ c[5][1] = "deliveryNotDenied"
<1> DEFINE r == Receipt(i, None)
<1>1. /\ r.providerAddress = i.entry.merchant
      /\ r.responseHash = StableBodyHash(i.response.body)
      /\ r.resource = ReportUrl
  <2>1. r.providerAddress = i.entry.merchant /\ r.resource = ReportUrl
    BY DEF SignedForItself, Receipt, DemoEntry
  <2>2. r.responseHash = JsonHash(i.response.body)
    BY DEF Receipt
  <2>3. (i.response.body.kind # "text") = TRUE
    BY DEF SignedForItself
  <2>4. JsonHash(i.response.body) = StableBodyHash(i.response.body)
    BY <2>3, Zenon DEF JsonHash, StableBodyHash
  <2> QED BY <2>1, <2>2, <2>4
<1>2. i.response.signature = SignReceipt(SignatureKey(i), r)
  BY DEF SignedForItself, SignatureKey, None
<1>3. ~ HasRawPii(r)
  BY <1>1, NothingFound DEF HasRawPii
<1> HIDE DEF r
<1>4. LET c == Checks(i, r) IN
      /\ DOMAIN c = 1..6
      /\ c[1][2] = (r.providerAddress = i.entry.merchant)
      /\ c[2][2] = (r.responseHash = StableBodyHash(i.response.body))
      /\ c[3][2] = (i.response.signature = SignReceipt(SignatureKey(i), r))
      /\ c[4][2] = (i.response.schema = None \/ HasExpectedShape(i.response.body))
      /\ c[5][2] = ~ DeniesDelivery(i.response.body)
      /\ c[5][1] = "deliveryNotDenied"
      /\ c[6][2] = ~ HasRawPii(r)
  BY DEF Checks
<1> QED BY <1>1, <1>2, <1>3, <1>4 DEF r

LEMMA VerifiesSigned ==
  ASSUME NEW i, SignedForItself(i)
  PROVE  VerifiesReceipt(i, None) <=>
           /\ i.response.schema = None \/ HasExpectedShape(i.response.body)
           /\ ~ DeniesDelivery(i.response.body)
<1> DEFINE c == Checks(i, Receipt(i, None))
<1>1. VerifiesReceipt(i, None) <=> \A n \in 1..6 : c[n][2]
  BY ReceiptOfSigned DEF VerifiesReceipt
<1>2. (\A n \in 1..6 : c[n][2]) <=> c[1][2] /\ c[2][2] /\ c[3][2] /\ c[4][2] /\ c[5][2] /\ c[6][2]
  <2> HIDE DEF c
  <2>1. \A n \in 1..6 : n = 1 \/ n = 2 \/ n = 3 \/ n = 4 \/ n = 5 \/ n = 6
    OBVIOUS
  <2>2. 1 \in 1..6 /\ 2 \in 1..6 /\ 3 \in 1..6 /\ 4 \in 1..6 /\ 5 \in 1..6 /\ 6 \in 1..6
    OBVIOUS
  <2> QED BY <2>1, <2>2, Zenon
<1> HIDE DEF c
<1> QED BY <1>1, <1>2, ReceiptOfSigned DEF c

(***************************************************************************)
(* Signing a response changes its signature only, and signs its receipt.   *)
(***************************************************************************)
LEMMA SignSigns ==
  ASSUME NEW pre, DOMAIN pre = DOMAIN DemoUnsigned,
         NEW f, DOMAIN pre.response = DOMAIN SafeResponse(f)
  PROVE  LET s == Sign(pre, None) IN
         /\ DOMAIN s = DOMAIN pre
         /\ s.request = pre.request /\ s.challenge = pre.challenge /\ s.entry = pre.entry
         /\ s.trust = pre.trust /\ s.metadata = pre.metadata /\ s.quote = pre.quote
         /\ s.order = pre.order /\ s.policy = pre.policy /\ s.calldata = pre.calldata
         /\ s.response.hasHeaders = pre.response.hasHeaders
         /\ s.response.cacheControl = pre.response.cacheControl
         /\ s.response.vary = pre.response.vary
         /\ s.response.body = pre.response.body /\ s.response.schema = pre.response.schema
         /\ s.response.publicKey = pre.response.publicKey
         /\ s.response.address = pre.response.address
         /\ s.response.signature = SignReceipt("registry-key", Receipt(s, None))
<1> DEFINE sig == SignReceipt("registry-key", Receipt(pre, None))
           s == Sign(pre, None)
<1> HIDE DEF sig
<1>1. /\ DOMAIN s = DOMAIN pre
      /\ s.request = pre.request /\ s.challenge = pre.challenge /\ s.entry = pre.entry
      /\ s.trust = pre.trust /\ s.metadata = pre.metadata /\ s.quote = pre.quote
      /\ s.order = pre.order /\ s.policy = pre.policy /\ s.calldata = pre.calldata
      /\ s.response = [pre.response EXCEPT !.signature = sig]
  BY DEF Sign, DemoUnsigned, sig
<1> HIDE DEF s
<1>2. /\ s.response.hasHeaders = pre.response.hasHeaders
      /\ s.response.cacheControl = pre.response.cacheControl
      /\ s.response.vary = pre.response.vary
      /\ s.response.body = pre.response.body /\ s.response.schema = pre.response.schema
      /\ s.response.publicKey = pre.response.publicKey
      /\ s.response.address = pre.response.address
      /\ s.response.signature = sig
  BY <1>1 DEF SafeResponse
<1>3. Receipt(s, None) = Receipt(pre, None)
  BY <1>1, <1>2 DEF Receipt
<1>4. s.response.signature = SignReceipt("registry-key", Receipt(s, None))
  BY <1>2, <1>3 DEF sig
<1> QED BY <1>1, <1>2, <1>4 DEF s

(***************************************************************************)
(* What a response of the lab delivers.                                    *)
(***************************************************************************)
Delivers(s, body, schema) ==
  /\ s.response.body = body /\ s.response.schema = schema
  /\ s.response.publicKey = "registry-key" /\ s.response.address = "merchant"
  /\ s.response.signature = SignReceipt("registry-key", Receipt(s, None))

LEMMA SignedDelivers ==
  ASSUME NEW i, NEW s, SameAs(i, s), NEW f, NEW schema, Delivers(s, Body(f), schema),
         AsDemoUpToSigning(s)
  PROVE  SignedForItself(i) /\ i.response.body = Body(f) /\ i.response.schema = schema
<1>1. i.response = s.response /\ i.challenge = s.challenge /\ i.entry = s.entry
  BY DEF SameAs
<1>2. Receipt(i, None) = Receipt(s, None)
  BY <1>1 DEF Receipt
<1>3. i.entry = DemoEntry /\ i.challenge.resource = ReportUrl
  BY <1>1 DEF AsDemoUpToSigning, DemoPayee, AsksReport
<1>4. Body(f).kind = "object"
  BY DEF Body
<1> QED BY <1>1, <1>2, <1>3, <1>4 DEF SignedForItself, Delivers

CacheHeaders(s) ==
  s.response.cacheControl = {"no-store", "private"} /\ s.response.vary = {"x-clear402-payment"}

LEMMA HeadersAreSafe ==
  ASSUME NEW i, NEW s, SameAs(i, s), CacheHeaders(s)
  PROVE  CacheSafe(i)
BY DEF SameAs, CacheHeaders, CacheSafe, PaymentHeaders

LEMMA DemoDelivers ==
  LET d == DemoInput(0) IN
  AsDemoUpToSigning(d) /\ Delivers(d, Body({<<"ok", "true">>}), "schema") /\ CacheHeaders(d)
<1> DEFINE d == DemoInput(0)
           f == {<<"ok", "true">>}
           r == SafeResponse(Body(f))
<1>1. d = Sign(DemoUnsigned, None)
  BY DEF DemoInput, DemoUnsigned
<1>2. DOMAIN DemoUnsigned.response = DOMAIN SafeResponse(Body(f)) /\ DemoUnsigned.response = r
  BY DEF DemoUnsigned
<1>3. /\ d.request = AttackRequest(0) /\ d.challenge = RawChallenge(5) /\ d.entry = DemoEntry
      /\ d.trust = DemoTrust /\ d.metadata = DemoMetadata /\ d.quote = NoQuote
      /\ d.order = DemoOrder /\ d.policy = NoPolicy
  BY DemoParts
<1>4. /\ d.response.cacheControl = r.cacheControl /\ d.response.vary = r.vary
      /\ d.response.body = r.body /\ d.response.schema = r.schema
      /\ d.response.publicKey = r.publicKey /\ d.response.address = r.address
      /\ d.response.signature = SignReceipt("registry-key", Receipt(d, None))
  <2> HIDE DEF d, f, r
  <2> QED BY <1>1, <1>2, SignSigns
<1>5. /\ r.cacheControl = {"no-store", "private"} /\ r.vary = {"x-clear402-payment"}
      /\ r.body = Body(f) /\ r.schema = "schema"
      /\ r.publicKey = "registry-key" /\ r.address = "merchant"
  BY DEF SafeResponse
<1> HIDE DEF d, f, r
<1>6. Delivers(d, Body(f), "schema") /\ CacheHeaders(d)
  BY <1>4, <1>5 DEF Delivers, CacheHeaders
<1>7. ChallengesFor(d.challenge, 5) /\ d.order.operation = "transfer" /\ d.response.body = Body(f)
  BY <1>3, <1>4, <1>5, Challenges DEF DemoOrder
<1>8. AsDemoUpToSigning(d)
  BY <1>3, <1>7, DemoUpToSigning
<1> QED BY <1>6, <1>8 DEF d, f

LEMMA DemoIsPaid ==
  ASSUME NEW i, SameAs(i, DemoInput(0)), Normalizes(i)
  PROVE  StoppedAt(i, "quote_lock")
<1> DEFINE s == DemoInput(0)
           f == {<<"ok", "true">>}
<1>1. AsDemoUpToSigning(s) /\ Delivers(s, Body(f), "schema") /\ CacheHeaders(s)
  BY DemoDelivers
<1>2. s.calldata = TransferCalldata("merchant", s.challenge.amount)
  BY DemoParts DEF RawChallenge
<1> HIDE DEF s, f
<1>3. AskedOf(i) /\ CacheSafe(i)
  BY <1>1, <1>2, TransferIsAsked, HeadersAreSafe DEF s
<1>4. SignedForItself(i) /\ i.response.body = Body(f)
  BY <1>1, SignedDelivers DEF s
<1>5. HasExpectedShape(Body(f)) /\ ~ DeniesDelivery(Body(f))
  <2>1. Body(f).kind = "object" /\ Body(f).fields = {<<"ok", "true">>}
    BY DEF Body, f
  <2>2. <<"ok", "true">>[1] = "ok" /\ "ok" \in ShapeKeys
    BY DEF ShapeKeys
  <2>3. Body(f).fields \cap {<<"ok", "false">>, <<"status", "denied">>, <<"status", "failed">>,
                             <<"verification.ok", "false">>} = {}
    BY <2>1
  <2> QED BY <2>1, <2>2, <2>3, Zenon DEF HasExpectedShape, DeniesDelivery
<1>6. VerifiesReceipt(i, None)
  BY <1>4, <1>5, VerifiesSigned
<1> QED BY <1>3, <1>6 DEF StoppedAt

(***************************************************************************)
(* The demo payment agrees until its quote expires.                        *)
(***************************************************************************)
DemoAt(t) == [DemoInput(0) EXCEPT !.request.now = t]

LEMMA DemoAgrees ==
  ASSUME NEW t \in Int, t < 60
  PROVE  Agrees(DemoAt(t))
<1> DEFINE d == DemoInput(0)
<1>1. /\ DOMAIN d = DOMAIN DemoUnsigned /\ d.request = AttackRequest(0)
      /\ d.challenge = RawChallenge(5) /\ d.quote = NoQuote
  BY DemoParts
<1> HIDE DEF d
<1>2. LabShape(d)
  BY <1>1 DEF LabShape
<1>3. SameAs(DemoAt(t), d)
  BY <1>2, AtTime DEF DemoAt, d
<1>4. DemoAt(t).request.now = t
  BY <1>1 DEF DemoAt, d, DemoUnsigned, AttackRequest
<1>5. DemoAt(t).challenge = RawChallenge(5)
  BY <1>1, <1>3 DEF SameAs
<1> HIDE DEF DemoAt
<1>6. Normalizes(DemoAt(t))
  BY <1>4, <1>5 DEF Normalizes, ExpiresAt, RawChallenge, Absent
<1> QED BY <1>3, <1>6, DemoIsPaid DEF d, StoppedAt, AskedOf, Agrees

DemoIsNotRefused ==
  \A c \in Calls, t \in Int :
    t < 60 /\ input[c] = DemoAt(t) /\ layer[c] \notin {"none", "quote_lock", "caw"} =>
      layer[c] = "guard_pipeline" \/ answer[c].ref # None

(***************************************************************************)
(* The demo payment, made before its quote expires, is refused by no layer *)
(* whatever the other calls are given: only the lock, the CAW, or a CAW    *)
(* reference that its signature does not name stands in its way.           *)
(***************************************************************************)
THEOREM DemoNotRefused == GuardedSpec => []DemoIsNotRefused
<1>1. ExplainedInv => DemoIsNotRefused
  <2> SUFFICES ASSUME ExplainedInv, NEW c \in Calls, NEW t \in Int, t < 60, input[c] = DemoAt(t),
                      layer[c] \notin {"none", "quote_lock", "caw"}
               PROVE  layer[c] = "guard_pipeline" \/ answer[c].ref # None
    BY DEF DemoIsNotRefused
  <2>1. Explains(input[c], layer[c], verdict[c], answer[c])
    BY DEF ExplainedInv, ExplainedOf
  <2>2. Agrees(input[c])
    BY DemoAgrees
  <2> QED BY <2>1, <2>2, AgreeingIsNotStopped
<1> QED BY <1>1, EndsWhereStopped, PTL

LEMMA CacheConfusionStops ==
  ASSUME NEW i, SameAs(i, CacheConfusion(DemoInput(0))), Normalizes(i)
  PROVE  StoppedAt(i, "cache_policy")
<1> DEFINE d == DemoInput(0)
           s == CacheConfusion(d)
           f == {<<"ok", "true">>}
<1>1. /\ DOMAIN d = DOMAIN DemoUnsigned /\ d.response.body = Body(f)
      /\ DOMAIN d.response = DOMAIN SafeResponse(Body(f)) /\ d.response.hasHeaders = TRUE
  <2> DEFINE sig == SignReceipt("registry-key", Receipt(DemoUnsigned, None))
  <2> HIDE DEF f, sig
  <2> QED BY DemoParts DEF SafeResponse, f, sig
<1>2. /\ s.request = d.request /\ s.entry = d.entry /\ s.trust = d.trust
      /\ s.metadata = d.metadata /\ s.quote = d.quote /\ s.order = d.order
      /\ s.policy = d.policy /\ s.challenge = d.challenge /\ s.calldata = d.calldata
      /\ s.response = [[d.response EXCEPT !.cacheControl = {"public", "max-age=600"}]
                         EXCEPT !.vary = {"accept"}]
  <2> HIDE DEF d, f
  <2> QED BY <1>1 DEF CacheConfusion, DemoUnsigned
<1>3. /\ s.request = AttackRequest(0) /\ s.entry = DemoEntry /\ s.trust = DemoTrust
      /\ s.metadata = DemoMetadata /\ s.quote = NoQuote /\ s.order.operation = "transfer"
      /\ s.policy = NoPolicy /\ ChallengesFor(s.challenge, 5)
      /\ s.calldata = TransferCalldata("merchant", 5)
  BY <1>2, DemoParts, Challenges DEF DemoOrder
<1> HIDE DEF d, s, f
<1>4. /\ s.response.cacheControl = {"public", "max-age=600"} /\ s.response.hasHeaders = TRUE
      /\ s.response.body = Body(f)
  BY <1>1, <1>2 DEF SafeResponse
<1>5. AsDemoUpToSigning(s)
  BY <1>3, <1>4, DemoUpToSigning
<1>6. AskedOf(i)
  BY <1>3, <1>5, TransferIsAsked DEF ChallengesFor, d, s
<1>7. ~ CacheSafe(i)
  <2>1. i.response.cacheControl = {"public", "max-age=600"} /\ i.response.hasHeaders
    BY <1>4 DEF SameAs, d, s
  <2> QED BY <2>1 DEF CacheSafe
<1> QED BY <1>6, <1>7 DEF StoppedAt

(***************************************************************************)
(* The demo payment with another delivery, signed for what it delivers.    *)
(***************************************************************************)
Redelivers(pre, b, schema) ==
  LET d == DemoInput(0) IN
  /\ DOMAIN pre = DOMAIN DemoUnsigned
  /\ pre.request = d.request /\ pre.entry = d.entry /\ pre.trust = d.trust
  /\ pre.metadata = d.metadata /\ pre.quote = d.quote /\ pre.order.operation = "transfer"
  /\ pre.policy = d.policy /\ pre.challenge = d.challenge /\ pre.calldata = d.calldata
  /\ pre.response = [[d.response EXCEPT !.body = b] EXCEPT !.schema = schema]

LEMMA RedeliveryIsPaid ==
  ASSUME NEW i, NEW pre, NEW f, NEW schema, Redelivers(pre, Body(f), schema),
         SameAs(i, Sign(pre, None)), Normalizes(i)
  PROVE  /\ AskedOf(i) /\ CacheSafe(i) /\ SignedForItself(i)
         /\ i.response.body = Body(f) /\ i.response.schema = schema
<1> DEFINE d == DemoInput(0)
           s == Sign(pre, None)
           b == Body(f)
           r == SafeResponse(Body({<<"ok", "true">>}))
           sig == SignReceipt("registry-key", Receipt(DemoUnsigned, None))
<1>1. d.response = [r EXCEPT !.signature = sig]
  BY DemoParts
<1>2. pre.response = [[d.response EXCEPT !.body = b] EXCEPT !.schema = schema]
  BY DEF Redelivers
<1>3. /\ DOMAIN pre.response = DOMAIN SafeResponse(b)
      /\ pre.response.body = b /\ pre.response.schema = schema
      /\ pre.response.cacheControl = {"no-store", "private"}
      /\ pre.response.vary = {"x-clear402-payment"}
      /\ pre.response.publicKey = "registry-key" /\ pre.response.address = "merchant"
  <2> HIDE DEF b, sig, d
  <2> QED BY <1>1, <1>2 DEF SafeResponse
<1>4. /\ pre.request = AttackRequest(0) /\ pre.entry = DemoEntry /\ pre.trust = DemoTrust
      /\ pre.metadata = DemoMetadata /\ pre.quote = NoQuote /\ pre.order.operation = "transfer"
      /\ pre.policy = NoPolicy /\ pre.challenge = RawChallenge(5)
      /\ pre.calldata = TransferCalldata("merchant", 5) /\ DOMAIN pre = DOMAIN DemoUnsigned
  BY DemoParts DEF Redelivers
<1> HIDE DEF d, s, b, r, sig
<1>5. /\ s.request = AttackRequest(0) /\ s.entry = DemoEntry /\ s.trust = DemoTrust
      /\ s.metadata = DemoMetadata /\ s.quote = NoQuote /\ s.order.operation = "transfer"
      /\ s.policy = NoPolicy /\ s.challenge = RawChallenge(5)
      /\ s.calldata = TransferCalldata("merchant", 5)
      /\ s.response.body = b /\ Delivers(s, b, schema) /\ CacheHeaders(s)
  BY <1>3, <1>4, SignSigns DEF s, Delivers, CacheHeaders
<1>6. ChallengesFor(s.challenge, 5)
  BY <1>5, Challenges
<1>7. AsDemoUpToSigning(s)
  BY <1>5, <1>6, DemoUpToSigning DEF b
<1>8. AskedOf(i)
  BY <1>5, <1>6, <1>7, TransferIsAsked DEF ChallengesFor, s
<1>9. CacheSafe(i)
  BY <1>5, HeadersAreSafe DEF s
<1> QED BY <1>5, <1>7, <1>8, <1>9, SignedDelivers DEF s, b

LEMMA MalformedDeliveryStops ==
  ASSUME NEW i, SameAs(i, MalformedDelivery(DemoInput(0))), Normalizes(i)
  PROVE  StoppedAt(i, "receipt")
<1> DEFINE d == DemoInput(0)
           f == {<<"payload", "unexpected">>, <<"proof", "missing">>}
           b == Body(f)
           pre == [[d EXCEPT !.response.body = b] EXCEPT !.response.schema = "malformed-schema"]
<1>1. MalformedDelivery(d) = Sign(pre, None)
  <2> HIDE DEF d, b
  <2> QED BY DEF MalformedDelivery, b
<1>2. Redelivers(pre, b, "malformed-schema")
  <2>1. DOMAIN d = DOMAIN DemoUnsigned /\ d.order = DemoOrder
    BY DemoParts
  <2> HIDE DEF d, b
  <2> QED BY <2>1 DEF DemoUnsigned, DemoOrder, Redelivers, d
<1>3. ~ HasExpectedShape(b)
  <2>1. b.fields = {<<"payload", "unexpected">>, <<"proof", "missing">>}
    BY DEF Body
  <2>2. \A x \in b.fields : x[1] = "payload" \/ x[1] = "proof"
    BY <2>1
  <2> HIDE DEF b
  <2> QED BY <2>2 DEF HasExpectedShape, ShapeKeys
<1> HIDE DEF d, b, pre
<1>4. /\ AskedOf(i) /\ CacheSafe(i) /\ SignedForItself(i)
      /\ i.response.body = b /\ i.response.schema = "malformed-schema"
  BY <1>1, <1>2, RedeliveryIsPaid DEF b, d
<1>5. ~ VerifiesReceipt(i, None)
  BY <1>3, <1>4, VerifiesSigned DEF None
<1> QED BY <1>4, <1>5 DEF StoppedAt

LEMMA PaidButDeniedStops ==
  ASSUME NEW i, SameAs(i, PaidButDenied(DemoInput(0))), Normalizes(i)
  PROVE  StoppedAt(i, "receipt") /\ ReceiptStatus(i, None) = "paid_but_not_delivered"
<1> DEFINE d == DemoInput(0)
           f == {<<"ok", "false">>, <<"status", "denied">>}
           b == Body(f)
           pre == [[[d EXCEPT !.order.serviceMode = "direct-transfer"]
                      EXCEPT !.response.body = b] EXCEPT !.response.schema = "denied-schema"]
<1>1. PaidButDenied(d) = Sign(pre, None)
  <2> HIDE DEF d, b
  <2> QED BY DEF PaidButDenied, b
<1>2. Redelivers(pre, b, "denied-schema")
  <2>1. DOMAIN d = DOMAIN DemoUnsigned /\ d.order = DemoOrder
    BY DemoParts
  <2> HIDE DEF d, b
  <2> QED BY <2>1 DEF DemoUnsigned, DemoOrder, Redelivers, d
<1>3. HasExpectedShape(b) /\ DeniesDelivery(b)
  <2>1. b.fields = f /\ b.kind = "object"
    BY DEF Body
  <2>2. <<"ok", "false">>[1] = "ok" /\ "ok" \in ShapeKeys
    BY DEF ShapeKeys
  <2>3. <<"ok", "false">> \in b.fields \cap {<<"ok", "false">>, <<"status", "denied">>,
          <<"status", "failed">>, <<"verification.ok", "false">>}
    BY <2>1
  <2> HIDE DEF b
  <2>4. HasExpectedShape(b)
    BY <2>1, <2>2, <2>3, Zenon DEF HasExpectedShape
  <2>5. DeniesDelivery(b)
    BY <2>1, <2>3, Zenon DEF DeniesDelivery
  <2> QED BY <2>4, <2>5
<1> HIDE DEF d, b, pre
<1>4. /\ AskedOf(i) /\ CacheSafe(i) /\ SignedForItself(i)
      /\ i.response.body = b /\ i.response.schema = "denied-schema"
  BY <1>1, <1>2, RedeliveryIsPaid DEF b, d
<1>5. ~ VerifiesReceipt(i, None)
  BY <1>3, <1>4, VerifiesSigned
<1>6. FirstFailed(i, None) = "deliveryNotDenied"
  <2> DEFINE c == Checks(i, Receipt(i, None))
             failed == {n \in DOMAIN c : ~ c[n][2]}
  <2>1. /\ DOMAIN c = 1..6 /\ c[1][2] /\ c[2][2] /\ c[3][2] /\ c[4][2] /\ c[6][2]
        /\ ~ c[5][2] /\ c[5][1] = "deliveryNotDenied"
    BY <1>3, <1>4, ReceiptOfSigned
  <2> HIDE DEF c
  <2>2. \A n \in DOMAIN c : ~ c[n][2] <=> n = 5
    <3>1. \A n \in 1..6 : n = 1 \/ n = 2 \/ n = 3 \/ n = 4 \/ n = 5 \/ n = 6
      OBVIOUS
    <3> QED BY <2>1, <3>1, Zenon
  <2>3. failed = {5}
    BY <2>1, <2>2
  <2> HIDE DEF failed
  <2>4. (CHOOSE n \in failed : \A k \in failed : n <= k) = 5
    BY <2>3
  <2> QED BY <2>1, <2>4, Zenon DEF FirstFailed, c, failed
<1>7. ReceiptStatus(i, None) = "paid_but_not_delivered"
  BY <1>3, <1>4, <1>5, <1>6 DEF ReceiptStatus
<1> QED BY <1>4, <1>5, <1>7 DEF StoppedAt

(***************************************************************************)
(* Each scenario is a payment at a time, with the parts of one.            *)
(***************************************************************************)
LEMMA EditsKeepShape ==
  ASSUME NEW d, DOMAIN d = DOMAIN DemoUnsigned, d.request = AttackRequest(0)
  PROVE  /\ LabShape(d) /\ LabShape(CrossResource(d)) /\ LabShape(Pii(d))
         /\ LabShape(DynamicPrice(d)) /\ LabShape(MaliciousApprove(d))
         /\ LabShape(DiscoveryPoisoning(d)) /\ LabShape(PaidButDenied(d))
         /\ LabShape(Erc8004IdentityMismatch(d)) /\ LabShape(LowReputationProvider(d))
         /\ LabShape(HeaderConfusion(d)) /\ LabShape(CacheConfusion(d))
         /\ LabShape(SettlementPath(d)) /\ LabShape(PartialPayment(d))
         /\ LabShape(MalformedDelivery(d)) /\ LabShape(MulticallHiddenOperation(d))
<1> USE DEF LabShape, DemoUnsigned, AttackRequest
<1>0. LabShape(d)
  OBVIOUS
<1>1. LabShape(CrossResource(d))
  BY DEF CrossResource
<1>2. LabShape(Pii(d))
  BY DEF Pii
<1>3. LabShape(DynamicPrice(d))
  BY DEF DynamicPrice
<1>4. LabShape(MaliciousApprove(d))
  BY DEF MaliciousApprove
<1>5. LabShape(DiscoveryPoisoning(d))
  BY DEF DiscoveryPoisoning
<1>6. LabShape(PaidButDenied(d))
  BY DEF PaidButDenied, Sign
<1>7. LabShape(Erc8004IdentityMismatch(d))
  BY DEF Erc8004IdentityMismatch
<1>8. LabShape(LowReputationProvider(d))
  BY DEF LowReputationProvider
<1>9. LabShape(HeaderConfusion(d))
  BY DEF HeaderConfusion
<1>10. LabShape(CacheConfusion(d))
  BY DEF CacheConfusion
<1>11. LabShape(SettlementPath(d))
  BY DEF SettlementPath
<1>12. LabShape(PartialPayment(d))
  BY DEF PartialPayment
<1>13. LabShape(MalformedDelivery(d))
  BY DEF MalformedDelivery, Sign
<1>14. LabShape(MulticallHiddenOperation(d))
  BY DEF MulticallHiddenOperation
<1> HIDE DEF LabShape
<1> QED
  BY <1>0, <1>1, <1>2, <1>3, <1>4, <1>5, <1>6, <1>7, <1>8,
     <1>9, <1>10, <1>11, <1>12, <1>13, <1>14

LEMMA ScenarioStops ==
  ASSUME NEW a \in ATTACK_NAMES, NEW t, Normalizes(LabInput(a, t))
  PROVE  /\ StoppedAt(LabInput(a, t), BlockedBy[a])
         /\ a = "paid_but_denied" =>
              ReceiptStatus(LabInput(a, t), None) = "paid_but_not_delivered"
<1> DEFINE d == DemoInput(0)
<1>d. DOMAIN d = DOMAIN DemoUnsigned /\ d.request = AttackRequest(0)
  BY DemoParts
<1>1. CASE a \in {"replay_same_proof", "concurrent_free_riding_20_requests"}
  <2>1. Scenario[a] = d /\ BlockedBy[a] = "quote_lock"
    BY <1>1 DEF Scenario, BlockedBy
  <2> HIDE DEF d
  <2> QED BY <1>1, <1>d, <2>1, EditsKeepShape, ScenarioAtTime, DemoIsPaid DEF d
<1>2. CASE a = "cross_resource_substitution"
  <2>1. Scenario[a] = CrossResource(d) /\ BlockedBy[a] = "resource_binding"
    BY <1>2 DEF Scenario, BlockedBy
  <2> HIDE DEF d
  <2> QED BY <1>2, <1>d, <2>1, EditsKeepShape, ScenarioAtTime, CrossResourceStops DEF d
<1>3. CASE a = "pii_leakage"
  <2>1. Scenario[a] = Pii(d) /\ BlockedBy[a] = "metadata_firewall"
    BY <1>3 DEF Scenario, BlockedBy
  <2> HIDE DEF d
  <2> QED BY <1>3, <1>d, <2>1, EditsKeepShape, ScenarioAtTime, PiiStops DEF d
<1>4. CASE a = "dynamic_price_overspend"
  <2>1. Scenario[a] = DynamicPrice(d) /\ BlockedBy[a] = "caw"
    BY <1>4 DEF Scenario, BlockedBy
  <2> HIDE DEF d
  <2> QED BY <1>4, <1>d, <2>1, EditsKeepShape, ScenarioAtTime, DynamicPriceStops DEF d
<1>5. CASE a = "malicious_approve"
  <2>1. Scenario[a] = MaliciousApprove(d) /\ BlockedBy[a] = "clearsig"
    BY <1>5 DEF Scenario, BlockedBy
  <2> HIDE DEF d
  <2> QED BY <1>5, <1>d, <2>1, EditsKeepShape, ScenarioAtTime, MaliciousApproveStops DEF d
<1>6. CASE a = "discovery_poisoning"
  <2>1. Scenario[a] = DiscoveryPoisoning(d) /\ BlockedBy[a] = "provider_registry"
    BY <1>6 DEF Scenario, BlockedBy
  <2> HIDE DEF d
  <2> QED BY <1>6, <1>d, <2>1, EditsKeepShape, ScenarioAtTime, DiscoveryPoisoningStops DEF d
<1>7. CASE a = "paid_but_denied"
  <2>1. Scenario[a] = PaidButDenied(d) /\ BlockedBy[a] = "receipt"
    BY <1>7 DEF Scenario, BlockedBy
  <2> HIDE DEF d
  <2> QED BY <1>7, <1>d, <2>1, EditsKeepShape, ScenarioAtTime, PaidButDeniedStops DEF d
<1>8. CASE a = "erc8004_identity_mismatch"
  <2>1. Scenario[a] = Erc8004IdentityMismatch(d) /\ BlockedBy[a] = "erc8004"
    BY <1>8 DEF Scenario, BlockedBy
  <2> HIDE DEF d
  <2> QED BY <1>8, <1>d, <2>1, EditsKeepShape, ScenarioAtTime, Erc8004IdentityMismatchStops DEF d
<1>9. CASE a = "low_reputation_provider"
  <2>1. Scenario[a] = LowReputationProvider(d) /\ BlockedBy[a] = "erc8004"
    BY <1>9 DEF Scenario, BlockedBy
  <2> HIDE DEF d
  <2> QED BY <1>9, <1>d, <2>1, EditsKeepShape, ScenarioAtTime, LowReputationProviderStops DEF d
<1>10. CASE a = "header_confusion_duplicate_x_payment"
  <2>1. Scenario[a] = HeaderConfusion(d) /\ BlockedBy[a] = "http_headers"
    BY <1>10 DEF Scenario, BlockedBy
  <2> HIDE DEF d
  <2> QED BY <1>10, <1>d, <2>1, EditsKeepShape, ScenarioAtTime, HeaderConfusionStops DEF d
<1>11. CASE a = "cache_confusion"
  <2>1. Scenario[a] = CacheConfusion(d) /\ BlockedBy[a] = "cache_policy"
    BY <1>11 DEF Scenario, BlockedBy
  <2> HIDE DEF d
  <2> QED BY <1>11, <1>d, <2>1, EditsKeepShape, ScenarioAtTime, CacheConfusionStops DEF d
<1>12. CASE a = "settlement_path_substitution"
  <2>1. Scenario[a] = SettlementPath(d) /\ BlockedBy[a] = "provider_registry"
    BY <1>12 DEF Scenario, BlockedBy
  <2> HIDE DEF d
  <2> QED BY <1>12, <1>d, <2>1, EditsKeepShape, ScenarioAtTime, SettlementPathStops DEF d
<1>13. CASE a = "partial_payment_decimals_confusion"
  <2>1. Scenario[a] = PartialPayment(d) /\ BlockedBy[a] = "clearsig"
    BY <1>13 DEF Scenario, BlockedBy
  <2> HIDE DEF d
  <2> QED BY <1>13, <1>d, <2>1, EditsKeepShape, ScenarioAtTime, PartialPaymentStops DEF d
<1>14. CASE a = "malformed_delivery"
  <2>1. Scenario[a] = MalformedDelivery(d) /\ BlockedBy[a] = "receipt"
    BY <1>14 DEF Scenario, BlockedBy
  <2> HIDE DEF d
  <2> QED BY <1>14, <1>d, <2>1, EditsKeepShape, ScenarioAtTime, MalformedDeliveryStops DEF d
<1>15. CASE a = "multicall_hidden_operation"
  <2>1. Scenario[a] = MulticallHiddenOperation(d) /\ BlockedBy[a] = "clearsig"
    BY <1>15 DEF Scenario, BlockedBy
  <2> HIDE DEF d
  <2> QED BY <1>15, <1>d, <2>1, EditsKeepShape, ScenarioAtTime, MulticallHiddenOperationStops DEF d
<1>16. ATTACK_NAMES = {"replay_same_proof", "cross_resource_substitution", "pii_leakage",
       "dynamic_price_overspend", "malicious_approve", "discovery_poisoning", "paid_but_denied",
       "erc8004_identity_mismatch", "low_reputation_provider",
       "header_confusion_duplicate_x_payment", "cache_confusion",
       "concurrent_free_riding_20_requests", "settlement_path_substitution",
       "partial_payment_decimals_confusion", "malformed_delivery", "multicall_hidden_operation"}
  BY DEF ATTACK_NAMES, Scenario
<1> QED
  BY <1>1, <1>2, <1>3, <1>4, <1>5, <1>6, <1>7, <1>8, <1>9, <1>10, <1>11, <1>12, <1>13, <1>14,
     <1>15, <1>16

(***************************************************************************)
(* What the answers of the lab's CAW leave of the ways a call may end.     *)
(***************************************************************************)
LEMMA LabEnds ==
  ASSUME attack \in ATTACK_NAMES, NEW i, StoppedAt(i, BlockedBy[attack]), NEW l, NEW v, NEW a,
         a \in {NoAnswer, LabAnswer(i)}, Explains(i, l, v, a), l # "quote_lock"
  PROVE  \/ l = BlockedBy[attack] /\ v = "block"
         \/ BlockedBy[attack] = "quote_lock" /\ l = "guard_pipeline" /\ v = "allow"
<1>1. CASE ~ AskedOf(i)
  <2>1. BlockedBy[attack] \in {"http_headers", "resource_binding", "provider_registry", "erc8004",
                               "metadata_firewall", "clearsig"}
    BY <1>1 DEF StoppedAt
  <2>2. CASE BlockedBy[attack] = "clearsig"
    <3>1. PassesLayers(i) /\ ~ EscrowMissing(i) /\ ~ ClearSigned(i)
      BY <2>2 DEF StoppedAt
    <3> QED BY <2>2, <3>1, SigningStops
  <2>3. CASE BlockedBy[attack] # "clearsig"
    BY <2>1, <2>3, FirstStops DEF StoppedAt
  <2> QED BY <2>2, <2>3
<1>2. CASE AskedOf(i)
  <2>1. PassesLayers(i) /\ ReadyForCaw(i)
    BY <1>2 DEF AskedOf
  <2>2. BlockedBy[attack] \in {"caw", "cache_policy", "receipt", "quote_lock"}
    BY <2>1 DEF StoppedAt, ReadyForCaw, PassesLayers, Screened, Trusted, Listed, Bound
  <2>3. attack = "dynamic_price_overspend" <=> BlockedBy[attack] = "caw"
    BY DEF ATTACK_NAMES, Scenario, BlockedBy
  <2>4. CASE BlockedBy[attack] = "caw"
    <3>1. LabAnswer(i) = LabDenies
      BY <2>3, <2>4 DEF StoppedAt, LabAnswer
    <3> QED BY <2>1, <2>4, <3>1, CawStops
  <2>5. CASE BlockedBy[attack] # "caw"
    <3>1. a = LabAllows
      BY <2>1, <2>3, <2>5, CawStops DEF LabAnswer
    <3>2. \/ BlockedBy[attack] = "cache_policy" /\ ~ CacheSafe(i)
          \/ BlockedBy[attack] = "receipt" /\ CacheSafe(i) /\ ~ VerifiesReceipt(i, None)
          \/ BlockedBy[attack] = "quote_lock" /\ CacheSafe(i) /\ VerifiesReceipt(i, None)
      BY <2>2, <2>5 DEF StoppedAt
    <3> QED BY <2>1, <3>1, <3>2, CawStops
  <2> QED BY <2>4, <2>5
<1> QED BY <1>1, <1>2

(***************************************************************************)
(* What a step of a call leaves alone, and where it may be taken.          *)
(***************************************************************************)
StepOfCall(c) ==
  /\ UNCHANGED <<key, amount, limit, input>>
  /\ \A d \in Calls \ {c} : pc'[d] = pc[d] /\ answer'[d] = answer[d]
  /\ pc[c] \notin Ended /\ pc'[c] \notin {"idle", "lost"}
  /\ \/ lock' = lock
     \/ lock[c] = "none" /\ lock' = [lock EXCEPT ![c] = "allow"]
     \/ lock[c] = "none" /\ lock' = [lock EXCEPT ![c] = "block"] /\ Refuse(c)

LEMMA StepsOfCalls ==
  ASSUME LockInv, AskInv, NEW c \in Calls, GuardedStep(c)
  PROVE  StepOfCall(c)
<1> DOMAIN answer = Calls /\ TypeOK
  BY DEF AskInv, DomainsOK, LockInv
<1>1. Begin(c) \/ RunStep(c) \/ CawAnswers(c)
  BY StepImplements
<1>2. UNCHANGED <<key, amount, limit>>
  BY <1>1
  DEF RunStep, BindingRejects, RegistryRejects, TrustRejects, MetadataRejects, ProviderQuoteRejects,
      RejectBeforeLock, ThrowBeforeLock, Reserve, Refuse, ClearSignBlocks, ClearSignThrows, CallCaw,
      MarkSpent, MarkQuoteSpent, PostSpend, ReceiptVerified, ReceiptBlocked, ReceiptThrows,
      RecordGuardEvent, RecordTimelineEvent, Release, Void, Dispute, Begin, CawAnswers,
      CawRequiresApproval, CawRequiresFallback, CawDenies, CawEvidenceIncomplete, CacheUnsafe,
      CawNotPaid, CawPays, CawRejects, callVars
<1>3. /\ pc[c] \notin Ended
      /\ \E l \in {"layers", "clearsign", "caw", "spend", "spend_quote", "spend_ledger", "receipt",
                   "event", "timeline", "release", "void", "dispute", "replied", "threw"} :
           pc' = [pc EXCEPT ![c] = l]
  BY <1>1
  DEF RunStep, BindingRejects, RegistryRejects, TrustRejects, MetadataRejects, ProviderQuoteRejects,
      RejectBeforeLock, ThrowBeforeLock, Reserve, Refuse, ClearSignBlocks, ClearSignThrows, CallCaw,
      MarkSpent, MarkQuoteSpent, PostSpend, ReceiptVerified, ReceiptBlocked, ReceiptThrows,
      RecordGuardEvent, RecordTimelineEvent, AfterTimeline, Release, Void, Dispute, Begin,
      CawAnswers, CawRequiresApproval, CawRequiresFallback, CawDenies, CawEvidenceIncomplete,
      CacheUnsafe, CawNotPaid, CawPays, CawRejects, Goto, Ended
<1>4. CASE PlainStep(c)
  <2>1. input' = input /\ lock' = lock /\ \A d \in Calls \ {c} : answer'[d] = answer[d]
    BY <1>4, PlainStepKeeps
  <2> QED BY <1>2, <1>3, <2>1 DEF StepOfCall, TypeOK
<1>5. CASE GuardedReserve(c) \/ GuardedRefuse(c) \/ GuardedCallCaw(c)
  <2>1. input' = input /\ answer' = answer
    BY <1>5 DEF GuardedReserve, GuardedRefuse, GuardedCallCaw, Silently, guardVars, At
  <2>2. \/ lock' = lock
        \/ lock[c] = "none" /\ lock' = [lock EXCEPT ![c] = "allow"]
        \/ lock[c] = "none" /\ lock' = [lock EXCEPT ![c] = "block"] /\ Refuse(c)
    BY <1>5 DEF GuardedReserve, GuardedRefuse, GuardedCallCaw, Reserve, Refuse, CallCaw, callVars,
                LockInv, PlaceOK, PlaceOf
  <2> QED BY <1>2, <1>3, <2>1, <2>2 DEF StepOfCall, TypeOK
<1> QED BY <1>4, <1>5 DEF GuardedStep, PlainStep

(***************************************************************************)
(* A lock that nobody holds refuses nothing that is within the limit.      *)
(***************************************************************************)
LEMMA RefusedForHolder ==
  ASSUME LockInv, NEW c \in Calls, Refuse(c), amount[c] <= limit[c]
  PROVE  \E d \in Calls : lock[d] = "allow"
<1> SUFFICES ASSUME \A d \in Calls : lock[d] # "allow" PROVE FALSE
  OBVIOUS
<1>1. \A k \in Keys : RowsOf(k) = Unused
  BY DEF LockInv, RowsMatchHolder, Holds
<1>2. key[c] \in Keys /\ amount[c] \in Nat /\ limit[c] \in Nat
  BY GuardPipelineAssumption DEF LockInv, TypeOK
<1>3. IsUnused(key[c])
  BY <1>1, <1>2 DEF RowsOf, Unused, IsUnused
<1>4. \A m : ExposedKeys(m) = {}
  BY <1>1 DEF ExposedKeys, RowsOf, Unused
<1>5. \A m : Exposure(m) = 0
  <2>1. \A m : AllUnits(HeldAmounts, ExposedKeys(m)) = {}
    BY <1>4 DEF AllUnits
  <2> QED BY <2>1, FS_EmptySet DEF Exposure, Total
<1>6. FitsBudget(key[c][1], amount[c], limit[c])
  BY <1>2, <1>5 DEF FitsBudget
<1> QED BY <1>3, <1>6 DEF Refuse, RefuseReservation

-----------------------------------------------------------------------------
(***************************************************************************)
(* The invariant of the lab's own behaviours: what is known of any guarded *)
(* payment, that all runs pay the same thing for the same input, that only *)
(* runs of the scenario were started, each answered by the scenario's CAW, *)
(* that a refusal is due to a run that holds the quote, and that the       *)
(* second replay follows the first.                                        *)
(***************************************************************************)
GuardInv == LockInv /\ AskInv /\ DeliveredInv /\ ExplainedInv

LabGiven ==
  /\ attack \in ATTACK_NAMES
  /\ \E t \in LabTimes : input = [c \in Calls |-> LabInput(attack, t)]

SamePayment ==
  /\ \A c, d \in Calls : key[c] = key[d]
  /\ \A c \in Calls : amount[c] <= limit[c]

RunCalls == {LabCalls[n] : n \in Runs}

LabOf(c) ==
  /\ pc[c] # "idle" => c \in RunCalls /\ Normalizes(input[c])
  /\ pc[c] # "lost"
  /\ answer[c] \in {NoAnswer, LabAnswer(input[c])}

RefusedOnce == \A c \in Calls : lock[c] = "block" => \E d \in Calls : lock[d] = "allow"

ReplayFollows ==
  attack = "replay_same_proof" =>
    /\ pc[LabCalls[2]] # "idle" => pc[LabCalls[1]] \in Ended
    /\ lock[LabCalls[1]] # "block"

IsPrimary(n) ==
  /\ n \in Runs
  /\ attack = "replay_same_proof" => n = 2
  /\ attack = "concurrent_free_riding_20_requests" /\ BlockedRuns # {} => n \in BlockedRuns

LabResult ==
  result \notin {"none", "ATTACK_NOT_FOUND"} =>
    /\ \A n \in Runs : pc[LabCalls[n]] = "replied"
    /\ \E n \in Runs : IsPrimary(n) /\ result = AttackDecision(verdict[LabCalls[n]])

LabRuns == (\A c \in Calls : LabOf(c)) /\ RefusedOnce /\ ReplayFollows

LabInv == GuardInv /\ LabGiven /\ SamePayment /\ LabRuns /\ LabResult

LEMMA RunsAreCalls ==
  /\ Runs \subseteq DOMAIN LabCalls /\ 1 \in Runs
  /\ DOMAIN LabCalls \subseteq Nat /\ {1, 2} \subseteq DOMAIN LabCalls
  /\ \A n \in DOMAIN LabCalls : LabCalls[n] \in Calls
<1>1. LabCalls \in Seq(Calls) /\ Len(LabCalls) >= 2 /\ Len(LabCalls) \in Nat
  BY AttackLabAssumption
<1>2. DOMAIN LabCalls = 1..Len(LabCalls)
  BY <1>1
<1> QED BY <1>1, <1>2 DEF Runs

LEMMA LeastRun ==
  ASSUME NEW T, T \subseteq Nat, T # {}
  PROVE  \E n \in T : \A k \in T : n <= k
<1>1. \E n \in T : \A k \in T : ~ (<<k, n>> \in OpToRel(<, Nat))
  BY NatLessThanWellFounded, WFMin, Zenon
<1>2. \A n, k \in T : ~ (<<k, n>> \in OpToRel(<, Nat)) => n <= k
  BY DEF OpToRel
<1> QED BY <1>1, <1>2

LEMMA PrimaryIsPrimary == attack \in ATTACK_NAMES => IsPrimary(Primary)
<1>1. CASE attack = "concurrent_free_riding_20_requests" /\ BlockedRuns # {}
  <2>1. BlockedRuns \subseteq Nat /\ BlockedRuns \subseteq Runs
    BY RunsAreCalls DEF BlockedRuns
  <2>2. \E n \in BlockedRuns : \A k \in BlockedRuns : n <= k
    BY <1>1, <2>1, LeastRun
  <2>3. Primary = CHOOSE n \in BlockedRuns : \A k \in BlockedRuns : n <= k
    BY <1>1 DEF Primary
  <2>4. Primary \in BlockedRuns
    BY <2>2, <2>3
  <2> QED BY <1>1, <2>1, <2>4 DEF IsPrimary
<1>2. CASE attack = "replay_same_proof"
  BY <1>2 DEF IsPrimary, Primary, Runs
<1>3. CASE ~ (attack = "concurrent_free_riding_20_requests" /\ BlockedRuns # {})
           /\ attack # "replay_same_proof"
  BY <1>3, RunsAreCalls DEF IsPrimary, Primary
<1> QED BY <1>1, <1>2, <1>3

(***************************************************************************)
(* A step of the lab is a step of a guarded payment.                       *)
(***************************************************************************)
LEMMA LabImplements ==
  ASSUME LockInv, [LabNext]_<<guardedVars, labVars>>
  PROVE  [GuardedNext]_guardedVars
<1>1. CASE CreateAttackLabDatabase
  <2>1. limit[LabCalls[1]] \in Limits
    BY RunsAreCalls DEF LockInv, TypeOK
  <2> QED BY <1>1, <2>1 DEF CreateAttackLabDatabase, GuardedNext
<1>2. CASE LabStep
  BY <1>2, RunsAreCalls DEF LabStep, GuardedNext
<1>3. CASE ScenarioThrows \/ LabAnswers \/ UNCHANGED <<guardedVars, labVars>>
  BY <1>3 DEF ScenarioThrows, LabAnswers
<1> QED BY <1>1, <1>2, <1>3 DEF LabNext

LEMMA NextGuardInv == GuardInv /\ [GuardedNext]_guardedVars => GuardInv'
BY NextImplements, NextLockInv, NextAskInv, NextDelivered, NextExplained DEF GuardInv

LEMMA InitLab == LabInit => LabInv
<1> SUFFICES ASSUME LabInit PROVE LabInv
  OBVIOUS
<1>1. Init /\ NothingAsked
  BY DEF LabInit, NothingAsked
<1>2. GuardInv
  BY <1>1, InitLockInv, InitAskInv, InitDelivered, InitExplained DEF GuardInv
<1>3. LabGiven /\ SamePayment /\ LabResult
  BY DEF LabInit, LabGiven, SamePayment, LabResult, LabInput
<1>4. pc = [c \in Calls |-> "idle"] /\ lock = [c \in Calls |-> "none"]
      /\ answer = [c \in Calls |-> NoAnswer]
  BY <1>1 DEF Init, NothingAsked
<1>5. LabRuns
  BY <1>4, RunsAreCalls DEF LabRuns, LabOf, RefusedOnce, ReplayFollows
<1> QED BY <1>2, <1>3, <1>5 DEF LabInv

(***************************************************************************)
(* A step of a run keeps what is known of the runs.                        *)
(***************************************************************************)
LEMMA LabStepRuns ==
  ASSUME LabInv, LabStep
  PROVE  LabRuns'
<1>1. PICK n \in Runs :
        /\ pc[LabCalls[n]] = "idle" => MayStart(n)
        /\ GuardedStep(LabCalls[n])
        /\ answer'[LabCalls[n]] \in {NoAnswer, LabAnswer(input[LabCalls[n]])}
  BY DEF LabStep
<1> DEFINE c == LabCalls[n]
<1>2. c \in Calls /\ c \in RunCalls /\ LabCalls[1] \in Calls /\ LabCalls[2] \in Calls
  BY RunsAreCalls DEF RunCalls
<1>3. StepOfCall(c)
  BY <1>1, <1>2, StepsOfCalls DEF LabInv, GuardInv
<1>4. attack' = attack /\ input' = input /\ RunCalls' = RunCalls
  BY <1>3 DEF LabStep, labVars, StepOfCall, RunCalls, Runs
<1>5. TypeOK /\ PlaceOK /\ DOMAIN answer = Calls
  BY DEF LabInv, GuardInv, LockInv, AskInv, DomainsOK
<1>6. Normalizes(input[c])
  <2>1. input[c] = input[LabCalls[1]]
    BY <1>2 DEF LabInv, LabGiven
  <2> QED BY <2>1 DEF LabStep
<1> HIDE DEF c
<1>7. ASSUME NEW d \in Calls PROVE LabOf(d)'
  <2>1. CASE d = c
    <3>1. answer'[c] \in {NoAnswer, LabAnswer(input[c])}
      BY <1>1 DEF c
    <3>2. LabAnswer(input[c])' = LabAnswer(input[c])
      BY <1>4 DEF LabAnswer
    <3> QED BY <1>2, <1>3, <1>4, <1>6, <2>1, <3>1, <3>2 DEF StepOfCall, LabOf
  <2>2. CASE d # c
    <3>1. pc'[d] = pc[d] /\ answer'[d] = answer[d] /\ LabOf(d)
      BY <1>3, <2>2 DEF StepOfCall, LabInv, LabRuns
    <3>2. LabAnswer(input[d])' = LabAnswer(input[d])
      BY <1>4 DEF LabAnswer
    <3> QED BY <1>4, <3>1, <3>2 DEF LabOf
  <2> QED BY <2>1, <2>2
<1>8. ASSUME Refuse(c) PROVE \E d \in Calls \ {c} : lock[d] = "allow"
  <2>1. lock[c] = "none"
    BY <1>2, <1>5, <1>8 DEF Refuse, PlaceOK, PlaceOf
  <2>2. \E d \in Calls : lock[d] = "allow"
    BY <1>2, <1>8, RefusedForHolder DEF LabInv, GuardInv, SamePayment
  <2> QED BY <2>1, <2>2
<1>9. RefusedOnce'
  <2>1. RefusedOnce
    BY DEF LabInv, LabRuns
  <2>2. \A d \in Calls : lock[d] = "allow" => lock'[d] = "allow"
    BY <1>2, <1>3, <1>5 DEF StepOfCall, TypeOK
  <2>3. CASE \A d \in Calls : lock'[d] = "block" => lock[d] = "block"
    BY <2>1, <2>2, <2>3 DEF RefusedOnce
  <2>4. CASE lock' = [lock EXCEPT ![c] = "allow"]
    BY <1>2, <1>5, <2>4 DEF RefusedOnce, TypeOK
  <2>5. CASE Refuse(c)
    BY <1>8, <2>2, <2>5 DEF RefusedOnce
  <2> QED BY <1>3, <2>3, <2>4, <2>5 DEF StepOfCall
<1>10. ReplayFollows'
  <2> SUFFICES ASSUME attack = "replay_same_proof"
               PROVE  /\ pc'[LabCalls[2]] # "idle" => pc'[LabCalls[1]] \in Ended
                      /\ lock'[LabCalls[1]] # "block"
    BY <1>4 DEF ReplayFollows
  <2>1. Runs = {1, 2} /\ RunCalls = {LabCalls[1], LabCalls[2]} /\ LabCalls[1] # LabCalls[2]
    BY RunsAreCalls, AttackLabAssumption DEF Runs, RunCalls
  <2>2. /\ pc[LabCalls[2]] # "idle" => pc[LabCalls[1]] \in Ended
        /\ lock[LabCalls[1]] # "block"
    BY DEF LabInv, LabRuns, ReplayFollows
  <2>3. CASE n = 1
    <3>1. c = LabCalls[1] /\ pc[c] \notin Ended /\ pc[LabCalls[2]] = "idle"
      BY <1>3, <2>2, <2>3 DEF c, StepOfCall
    <3>2. pc'[LabCalls[2]] = "idle"
      BY <1>2, <1>3, <2>1, <3>1 DEF StepOfCall
    <3>3. ~ Refuse(c)
      <4>1. SUFFICES ASSUME Refuse(c) PROVE FALSE
        OBVIOUS
      <4>2. PICK d \in Calls \ {c} : lock[d] = "allow"
        BY <1>8, <4>1
      <4>3. pc[d] # "idle" /\ LabOf(d)
        BY <1>5, <4>2 DEF PlaceOK, PlaceOf, LabInv, LabRuns
      <4>4. d = LabCalls[2]
        BY <2>1, <3>1, <4>2, <4>3 DEF LabOf
      <4> QED BY <3>1, <4>3, <4>4
    <3> QED BY <1>2, <1>3, <1>5, <2>2, <3>1, <3>2, <3>3 DEF StepOfCall, TypeOK
  <2>4. CASE n = 2
    <3>1. c = LabCalls[2] /\ c # LabCalls[1]
      BY <2>1, <2>4 DEF c
    <3>2. pc[LabCalls[1]] \in Ended
      BY <1>1, <2>1, <2>2, <2>4 DEF MayStart, RunDone
    <3>3. pc'[LabCalls[1]] = pc[LabCalls[1]] /\ lock'[LabCalls[1]] = lock[LabCalls[1]]
      BY <1>2, <1>3, <1>5, <3>1 DEF StepOfCall, TypeOK
    <3> QED BY <2>2, <3>2, <3>3
  <2> QED BY <2>1, <2>3, <2>4
<1> QED BY <1>7, <1>9, <1>10 DEF LabRuns

LEMMA NextLab ==
  ASSUME LabInv, [LabNext]_<<guardedVars, labVars>>
  PROVE  LabInv'
<1>1. GuardInv'
  BY LabImplements, NextGuardInv DEF LabInv, GuardInv
<1>2. CASE LabStep
  <2>1. UNCHANGED <<attack, result, input, key, amount, limit>>
    <3>1. PICK n \in Runs : GuardedStep(LabCalls[n])
      BY <1>2 DEF LabStep
    <3>2. StepOfCall(LabCalls[n])
      BY <3>1, RunsAreCalls, StepsOfCalls DEF LabInv, GuardInv
    <3> QED BY <1>2, <3>2 DEF LabStep, labVars, StepOfCall
  <2>2. LabGiven' /\ SamePayment'
    BY <2>1 DEF LabInv, LabGiven, SamePayment
  <2>3. LabResult'
    BY <1>2, <2>1 DEF LabStep, LabResult
  <2> QED BY <1>1, <1>2, <2>2, <2>3, LabStepRuns DEF LabInv
<1>3. CASE ~ LabStep
  <2>1. /\ UNCHANGED <<attack, input, key, amount, limit, pc, lock, answer, verdict>>
        /\ \/ UNCHANGED result
           \/ result' = "ATTACK_NOT_FOUND"
           \/ LabAnswers
    BY <1>3 DEF LabNext, CreateAttackLabDatabase, CreateMission, Silently, ScenarioThrows,
                guardedVars, guardVars, vars, callVars, labVars, LabAnswers
  <2>2. LabGiven' /\ SamePayment'
    BY <2>1 DEF LabInv, LabGiven, SamePayment
  <2>3. LabRuns'
    <3>1. RunCalls' = RunCalls
      BY <2>1 DEF RunCalls, Runs
    <3>2. \A c \in Calls : LabAnswer(input[c])' = LabAnswer(input[c])
      BY <2>1 DEF LabAnswer
    <3> QED BY <2>1, <3>1, <3>2 DEF LabInv, LabRuns, LabOf, RefusedOnce, ReplayFollows
  <2>4. Runs' = Runs /\ \A n : IsPrimary(n)' = IsPrimary(n)
    BY <2>1 DEF Runs, IsPrimary, BlockedRuns
  <2>5. \A d : AttackDecision(d)' = AttackDecision(d)
    BY DEF AttackDecision
  <2>6. LabResult'
    <3>1. CASE UNCHANGED result
      BY <2>1, <2>4, <2>5, <3>1 DEF LabInv, LabResult
    <3>2. CASE result' = "ATTACK_NOT_FOUND"
      BY <3>2 DEF LabResult
    <3>3. CASE LabAnswers /\ result' # "ATTACK_NOT_FOUND"
      <4>1. /\ \A n \in Runs : pc[LabCalls[n]] \in {"replied", "lost"}
            /\ result' = AttackDecision(verdict[LabCalls[Primary]])
        BY <3>3 DEF LabAnswers, RunDone, Ended
      <4>2. \A n \in Runs : pc[LabCalls[n]] # "lost"
        BY RunsAreCalls DEF LabInv, LabRuns, LabOf
      <4>3. IsPrimary(Primary) /\ Primary \in Runs
        BY PrimaryIsPrimary DEF LabInv, LabGiven, IsPrimary
      <4> QED BY <2>1, <2>4, <2>5, <4>1, <4>2, <4>3 DEF LabResult
    <3> QED BY <2>1, <3>1, <3>2, <3>3
  <2> QED BY <1>1, <2>2, <2>3, <2>6 DEF LabInv
<1> QED BY <1>2, <1>3

(***************************************************************************)
(* Where a run that replied ended: at the layer of its scenario, or, where *)
(* that is the lock, either delivered as the holder of the quote or        *)
(* refused by the lock.                                                    *)
(***************************************************************************)
RunEnd(c) ==
  \/ /\ layer[c] = BlockedBy[attack] /\ verdict[c] = "block"
     /\ layer[c] = "quote_lock" => lock[c] = "block"
  \/ /\ BlockedBy[attack] = "quote_lock" /\ layer[c] = "guard_pipeline"
     /\ verdict[c] = "allow" /\ lock[c] = "allow"
  \/ layer[c] = "quote_lock" /\ verdict[c] = "block" /\ lock[c] = "block"

LEMMA LabInputStops ==
  ASSUME LabInv, NEW c \in Calls, Normalizes(input[c])
  PROVE  /\ attack \in ATTACK_NAMES
         /\ StoppedAt(input[c], BlockedBy[attack])
         /\ attack = "paid_but_denied" => ReceiptStatus(input[c], None) = "paid_but_not_delivered"
<1>1. PICK t \in LabTimes : input = [d \in Calls |-> LabInput(attack, t)]
  BY DEF LabInv, LabGiven
<1>2. input[c] = LabInput(attack, t) /\ attack \in ATTACK_NAMES
  BY <1>1 DEF LabInv, LabGiven
<1> QED BY <1>2, ScenarioStops

LEMMA RunEnds ==
  ASSUME LabInv, NEW c \in Calls, pc[c] = "replied"
  PROVE  RunEnd(c)
<1>1. ExplainedOf(c) /\ LabOf(c)
  BY DEF LabInv, GuardInv, ExplainedInv, LabRuns
<1>2. verdict[c] # "none" /\ layer[c] # "none"
  BY <1>1 DEF ExplainedOf
<1>3. /\ Explains(input[c], layer[c], verdict[c], answer[c])
      /\ layer[c] = "quote_lock" => lock[c] = "block"
      /\ layer[c] = "guard_pipeline" => lock[c] = "allow"
  BY <1>1, <1>2 DEF ExplainedOf
<1>4. Normalizes(input[c]) /\ answer[c] \in {NoAnswer, LabAnswer(input[c])}
  BY <1>1 DEF LabOf
<1>5. CASE layer[c] = "quote_lock"
  BY <1>3, <1>5, FirstStops DEF RunEnd
<1>6. CASE layer[c] # "quote_lock"
  <2>1. \/ layer[c] = BlockedBy[attack] /\ verdict[c] = "block"
        \/ /\ BlockedBy[attack] = "quote_lock" /\ layer[c] = "guard_pipeline"
           /\ verdict[c] = "allow"
    BY <1>3, <1>4, <1>6, LabInputStops, LabEnds
  <2> QED BY <1>3, <1>6, <2>1 DEF RunEnd
<1> QED BY <1>5, <1>6

(***************************************************************************)
(* When all runs of a scenario replied, exactly one of those that passed   *)
(* the layers holds the quote, and a single run is not refused by the lock.*)
(***************************************************************************)
AllReplied == \A n \in Runs : pc[LabCalls[n]] = "replied"

LEMMA HolderIsARun ==
  ASSUME LabInv, NEW c \in Calls, lock[c] = "block"
  PROVE  \E n \in Runs : lock[LabCalls[n]] = "allow"
<1>1. PICK d \in Calls : lock[d] = "allow"
  BY DEF LabInv, LabRuns, RefusedOnce
<1>2. pc[d] # "idle" /\ LabOf(d)
  BY <1>1 DEF LabInv, LabRuns, GuardInv, LockInv, PlaceOK, PlaceOf
<1> QED BY <1>1, <1>2 DEF LabOf, RunCalls

LEMMA OneRunHolds ==
  ASSUME LabInv, NEW j \in Runs, NEW n \in Runs,
         lock[LabCalls[j]] = "allow", lock[LabCalls[n]] = "allow"
  PROVE  j = n
<1>1. /\ j \in DOMAIN LabCalls /\ LabCalls[j] \in Calls
      /\ n \in DOMAIN LabCalls /\ LabCalls[n] \in Calls
  BY RunsAreCalls
<1>2. LabCalls[j] = LabCalls[n]
  BY <1>1 DEF LabInv, SamePayment, GuardInv, LockInv, OneHolderPerQuote
<1> QED BY <1>1, <1>2, AttackLabAssumption

LEMMA SingleRunIsNotRefused ==
  ASSUME LabInv, NEW n \in Runs, Runs = {1}
  PROVE  lock[LabCalls[n]] # "block"
<1> n = 1 /\ LabCalls[1] \in Calls
  BY RunsAreCalls
<1> QED BY HolderIsARun

LEMMA LockScenarios ==
  ASSUME attack \in ATTACK_NAMES
  PROVE  /\ BlockedBy[attack] = "quote_lock" <=>
              attack \in {"replay_same_proof", "concurrent_free_riding_20_requests"}
         /\ BlockedBy[attack] # "quote_lock" => Runs = {1}
BY DEF ATTACK_NAMES, Scenario, BlockedBy, Runs

(***************************************************************************)
(* Of the runs of one payment the holder is paid, the others are refused.  *)
(***************************************************************************)
LEMMA RunsOfOnePayment ==
  ASSUME LabInv, AllReplied, BlockedBy[attack] = "quote_lock"
  PROVE  /\ \A n \in Runs :
              \/ /\ layer[LabCalls[n]] = "guard_pipeline"
                 /\ verdict[LabCalls[n]] = "allow" /\ lock[LabCalls[n]] = "allow"
              \/ /\ layer[LabCalls[n]] = "quote_lock"
                 /\ verdict[LabCalls[n]] = "block" /\ lock[LabCalls[n]] = "block"
         /\ \E n \in Runs : {j \in Runs : verdict[LabCalls[j]] = "allow"} = {n}
<1>1. ASSUME NEW n \in Runs
      PROVE  \/ /\ layer[LabCalls[n]] = "guard_pipeline"
                /\ verdict[LabCalls[n]] = "allow" /\ lock[LabCalls[n]] = "allow"
             \/ /\ layer[LabCalls[n]] = "quote_lock"
                /\ verdict[LabCalls[n]] = "block" /\ lock[LabCalls[n]] = "block"
  <2>1. LabCalls[n] \in Calls /\ pc[LabCalls[n]] = "replied"
    BY RunsAreCalls DEF AllReplied
  <2> QED BY <2>1, RunEnds DEF RunEnd
<1>2. PICK n \in Runs : lock[LabCalls[n]] = "allow"
  <2>1. 1 \in Runs /\ LabCalls[1] \in Calls
    BY RunsAreCalls
  <2> QED BY <1>1, <2>1, HolderIsARun
<1>3. {j \in Runs : verdict[LabCalls[j]] = "allow"} = {n}
  BY <1>1, <1>2, OneRunHolds
<1> QED BY <1>1, <1>3

LEMMA PrimaryIsBlocked ==
  ASSUME LabInv, AllReplied, NEW n, IsPrimary(n)
  PROVE  verdict[LabCalls[n]] = "block" /\ layer[LabCalls[n]] = BlockedBy[attack]
<1>1. n \in Runs /\ attack \in ATTACK_NAMES /\ LabCalls[n] \in Calls
  BY RunsAreCalls DEF IsPrimary, LabInv, LabGiven
<1>2. CASE BlockedBy[attack] # "quote_lock"
  <2>1. RunEnd(LabCalls[n])
    BY <1>1, RunEnds DEF AllReplied
  <2>2. lock[LabCalls[n]] # "block"
    BY <1>1, <1>2, LockScenarios, SingleRunIsNotRefused
  <2> QED BY <1>2, <2>1, <2>2 DEF RunEnd
<1>3. CASE BlockedBy[attack] = "quote_lock"
  <2>1. \A j \in Runs :
          \/ verdict[LabCalls[j]] = "allow" /\ lock[LabCalls[j]] = "allow"
          \/ /\ layer[LabCalls[j]] = "quote_lock"
             /\ verdict[LabCalls[j]] = "block" /\ lock[LabCalls[j]] = "block"
    BY <1>3, RunsOfOnePayment
  <2>2. CASE attack = "replay_same_proof"
    <3>1. n = 2 /\ Runs = {1, 2}
      BY <2>2 DEF IsPrimary, Runs
    <3>2. lock[LabCalls[1]] # "block"
      BY <2>2 DEF LabInv, LabRuns, ReplayFollows
    <3>3. lock[LabCalls[1]] = "allow"
      BY <2>1, <3>1, <3>2
    <3>4. lock[LabCalls[2]] # "allow"
      BY <3>1, <3>3, OneRunHolds
    <3> QED BY <1>3, <2>1, <3>1, <3>4
  <2>3. CASE attack = "concurrent_free_riding_20_requests"
    <3>1. 1 \in Runs /\ 2 \in Runs
      BY <2>3, RunsAreCalls DEF Runs
    <3>2. lock[LabCalls[1]] # "allow" \/ lock[LabCalls[2]] # "allow"
      BY <3>1, OneRunHolds
    <3>3. BlockedRuns # {}
      BY <2>1, <3>1, <3>2 DEF BlockedRuns
    <3>4. verdict[LabCalls[n]] = "block"
      BY <2>3, <3>3 DEF IsPrimary, BlockedRuns
    <3> QED BY <1>1, <1>3, <2>1, <3>4
  <2> QED BY <1>1, <1>3, <2>2, <2>3, LockScenarios
<1> QED BY <1>2, <1>3

(***************************************************************************)
(* Whatever a scenario's calls, how many they are and in which order they  *)
(* run: the lab reports every attack as blocked, at the layer its label    *)
(* names, and a payment that is to be stopped before the CAW is never      *)
(* asked for.                                                              *)
(***************************************************************************)
THEOREM LabBlocksEveryAttack == LabSpec => []EveryAttackIsBlocked
<1>1. LabInv => EveryAttackIsBlocked
  <2> SUFFICES ASSUME LabInv, result \notin {"none", "ATTACK_NOT_FOUND"}
               PROVE  /\ result = "blocked"
                      /\ layer[LabCalls[Primary]] = BlockedBy[attack]
                      /\ attack = "paid_but_denied" =>
                           ReceiptStatus(input[LabCalls[1]], None) = "paid_but_not_delivered"
                      /\ BlockedBy[attack] \notin {"caw", "quote_lock", "receipt", "cache_policy"} =>
                           \A c \in Calls : asked[c] = NotAsked
    BY DEF EveryAttackIsBlocked
  <2>1. AllReplied /\ attack \in ATTACK_NAMES
    BY DEF LabInv, LabResult, LabGiven, AllReplied
  <2>2. PICK n \in Runs : IsPrimary(n) /\ result = AttackDecision(verdict[LabCalls[n]])
    BY DEF LabInv, LabResult
  <2>3. verdict[LabCalls[n]] = "block"
    BY <2>1, <2>2, PrimaryIsBlocked
  <2>4. result = "blocked"
    BY <2>2, <2>3 DEF AttackDecision
  <2>5. layer[LabCalls[Primary]] = BlockedBy[attack]
    BY <2>1, PrimaryIsPrimary, PrimaryIsBlocked
  <2>6. LabCalls[1] \in Calls /\ pc[LabCalls[1]] = "replied"
    BY <2>1, RunsAreCalls DEF AllReplied
  <2>7. \A c \in Calls : input[c] = input[LabCalls[1]]
    BY <2>6 DEF LabInv, LabGiven
  <2>8. Normalizes(input[LabCalls[1]])
    BY <2>6 DEF LabInv, LabRuns, LabOf
  <2>9. ASSUME BlockedBy[attack] \notin {"caw", "quote_lock", "receipt", "cache_policy"},
               NEW c \in Calls, asked[c] # NotAsked
        PROVE  FALSE
    <3>1. AskedOf(input[c])
      BY <2>9 DEF LabInv, GuardInv, AskInv, LayersHold, AskedIsReady, AskedOf
    <3>2. StoppedAt(input[c], BlockedBy[attack])
      BY <2>7, <2>8, LabInputStops
    <3> QED
      BY <2>9, <3>1, <3>2
      DEF StoppedAt, AskedOf, ReadyForCaw, PassesLayers, Screened, Trusted, Listed, Bound
  <2> QED BY <2>4, <2>5, <2>6, <2>8, <2>9, LabInputStops
<1> QED BY <1>1, InitLab, NextLab, PTL DEF LabSpec

(***************************************************************************)
(* Of any number of runs of one payment, replayed or at once, exactly one  *)
(* is paid for and delivered, and the lock refuses all the others.         *)
(***************************************************************************)
THEOREM LabPaysOneRun == LabSpec => []OneRunIsPaid
<1>1. LabInv => OneRunIsPaid
  <2> SUFFICES ASSUME LabInv, result \notin {"none", "ATTACK_NOT_FOUND"},
                      BlockedBy[attack] = "quote_lock"
               PROVE  /\ Cardinality({n \in Runs : verdict[LabCalls[n]] = "allow"}) = 1
                      /\ \A n \in Runs : layer[LabCalls[n]] \in {"guard_pipeline", "quote_lock"}
    BY DEF OneRunIsPaid
  <2>1. AllReplied
    BY DEF LabInv, LabResult, AllReplied
  <2>2. PICK n \in Runs : {j \in Runs : verdict[LabCalls[j]] = "allow"} = {n}
    BY <2>1, RunsOfOnePayment
  <2>3. Cardinality({j \in Runs : verdict[LabCalls[j]] = "allow"}) = 1
    BY <2>2, FS_Singleton
  <2>4. \A j \in Runs : layer[LabCalls[j]] \in {"guard_pipeline", "quote_lock"}
    BY <2>1, RunsOfOnePayment
  <2> QED BY <2>3, <2>4
<1> QED BY <1>1, InitLab, NextLab, PTL DEF LabSpec
=============================================================================
