---------------------------- MODULE GuardedPayment ----------------------------
(***************************************************************************)
(* GuardPipeline with the decisions of its layers: what a call is given    *)
(* determines where it ends.  Each action is an action of GuardPipeline    *)
(* with the condition under which the code takes it, so that every         *)
(* behaviour is one of GuardPipeline, crashes and concurrent calls         *)
(* included.                                                               *)
(***************************************************************************)
EXTENDS GuardPipeline, Receipts, ClearSign

CONSTANTS
  Inputs,   \* what a call may be given (see GuardLayers)
  Benign,   \* the inputs in which everything agrees
  Answers   \* what the CAW adapter may answer

ASSUME GuardedPaymentAssumption ==
  /\ \A i \in Inputs : i.request.mode \in DOMAIN ModeRank
  /\ \A a \in Answers : a.mode \in DOMAIN ModeRank

VARIABLES
  input,    \* what each call was given
  answer,   \* what the CAW adapter answered each call
  layer,    \* the layer that each call's event names
  asked     \* what each call asked the CAW adapter for

guardVars == <<input, answer, layer, asked>>
guardedVars == <<vars, guardVars>>

NoAnswer == [decision |-> "none", denial |-> FALSE, mode |-> "none", complete |-> FALSE, ref |-> None]

NoCalldata == [form |-> "none", selector |-> None, params |-> {}, nested |-> {}]

NotAsked == [operation |-> "none", to |-> None, amount |-> 0, calldata |-> NoCalldata]

At(c, l) ==
  /\ layer' = [layer EXCEPT ![c] = l]
  /\ UNCHANGED <<input, answer, asked>>

Silently == UNCHANGED guardVars
-----------------------------------------------------------------------------
(***************************************************************************)
(* What is reviewed and sent for signing.  For an escrowed contract call   *)
(* the pipeline builds the calldata itself; otherwise it takes the         *)
(* provider's, and failing that the provider's signature, which is not hex.*)
(***************************************************************************)
Escrowed(i) == i.order.operation = "contract_call" /\ i.order.serviceMode = "escrowed-delivery"

FundParams(i) ==
  {<<"context", "own">>, <<"provider", i.entry.merchant>>, <<"amount", i.challenge.amount>>}

ReviewedCalldata(i) ==
  IF Escrowed(i)
    THEN [form |-> "hex", selector |-> "fund", params |-> FundParams(i), nested |-> {}]
  ELSE IF i.calldata.form = "none" /\ i.response.signed
    THEN [form |-> "text", selector |-> None, params |-> {}, nested |-> {}]
  ELSE i.calldata

DefaultSelectors == {"transfer", "approve", "transferFrom", "multicall"}

EscrowAbis == {[selector |-> f, signature |-> f] : f \in {"fund", "refund", "deliver"}}

ClearSignInput(i) ==
  [calldata |-> ReviewedCalldata(i),
   typed |-> i.response.body,
   expected |->
     [merchant |-> i.entry.merchant,
      amount |-> i.challenge.amount,
      whole |-> i.challenge.whole,
      context |-> "own",
      selectors |-> IF Escrowed(i) THEN {"fund"}
                    ELSE IF i.policy.selectors = {None} THEN DefaultSelectors
                    ELSE i.policy.selectors,
      spenders |-> IF i.policy.spenders = {None} THEN {i.entry.merchant} ELSE i.policy.spenders,
      abis |-> IF Escrowed(i) THEN EscrowAbis ELSE i.policy.abis,
      paramsGiven |-> Escrowed(i) \/ i.policy.paramsGiven,
      params |-> IF Escrowed(i) THEN FundParams(i) ELSE i.policy.params,
      message |-> i.policy.message]]

EscrowMissing(i) == Escrowed(i) /\ i.order.escrow = None

Unsignable(i) ==
  IF Escrowed(i) THEN ~ i.challenge.whole ELSE ThrowsClearSign(ClearSignInput(i))

ClearSigned(i) == ClearSignResult(ClearSignInput(i)) # "block"

ReadyForCaw(i) == ~ EscrowMissing(i) /\ ~ Unsignable(i) /\ ClearSigned(i)

(***************************************************************************)
(* executeCawOperation: what the adapter is asked for, or the answer the   *)
(* pipeline gives itself when the operation cannot be asked for.           *)
(***************************************************************************)
CawRequest(i) ==
  IF i.order.operation = "transfer" THEN
    [operation |-> "transfer", to |-> i.entry.merchant,
     amount |-> i.challenge.amount, calldata |-> NoCalldata]
  ELSE IF i.order.operation = "contract_call" THEN
    [operation |-> "contract_call",
     to |-> IF i.order.escrow # None THEN i.order.escrow ELSE i.entry.merchant,
     amount |-> i.challenge.amount, calldata |-> ReviewedCalldata(i)]
  ELSE [operation |-> "message_sign", to |-> None, amount |-> 0, calldata |-> NoCalldata]

CannotAsk(i) ==  \* what the operation needs is not there
  IF i.order.operation = "transfer" THEN FALSE
  ELSE IF i.order.operation = "contract_call" THEN ReviewedCalldata(i).form = "none"
  ELSE ~ i.order.message

CannotExecute(i) ==  \* the adapter has no such operation
  IF i.order.operation = "transfer" THEN FALSE
  ELSE IF i.order.operation = "contract_call" THEN ~ i.order.canCall
  ELSE ~ i.order.canSign

LocalDecision(i) ==
  IF CannotAsk(i) THEN "block" ELSE IF CannotExecute(i) THEN "fallback_required" ELSE "none"

LocalAnswer(i) ==
  [decision |-> LocalDecision(i), denial |-> TRUE, mode |-> "fallback", complete |-> FALSE, ref |-> None]

AnswersTo(c) == IF asked[c] = NotAsked THEN {LocalAnswer(input[c])} ELSE Answers

Accepts(a) ==
  a.decision \notin {"require_approval", "fallback_required", "block"} /\ ~ a.denial

LacksEvidence(a) == a.mode = "live" /\ ~ a.complete
-----------------------------------------------------------------------------
GuardedInit ==
  /\ Init
  /\ input \in [Calls -> Inputs]
  /\ answer = [c \in Calls |-> NoAnswer]
  /\ layer = [c \in Calls |-> "none"]
  /\ asked = [c \in Calls |-> NotAsked]

(***************************************************************************)
(* The layers before the lock.                                             *)
(***************************************************************************)
GuardedBindingRejects(c) ==
  /\ BindingRejects(c)
  /\ ~ Bound(input[c])
  /\ At(c, IF Readable(input[c]) /\ DuplicatePaymentHeader(input[c])
             THEN "http_headers" ELSE "resource_binding")

GuardedRegistryRejects(c) ==
  /\ RegistryRejects(c)
  /\ Bound(input[c])
  /\ Registered(input[c]) => Normalizes(input[c]) /\ ~ RegistryAllows(input[c])
  /\ At(c, "provider_registry")

GuardedTrustRejects(c) ==
  /\ TrustRejects(c)
  /\ Listed(input[c])
  /\ ~ Trusted(input[c])
  /\ verdict'[c] = IF TrustBlocks(input[c]) THEN "block" ELSE "fallback_required"
  /\ At(c, "erc8004")

GuardedMetadataRejects(c) ==
  /\ MetadataRejects(c)
  /\ Trusted(input[c])
  /\ ~ (Screened(input[c]) /\ MetadataBound(input[c]))
  /\ At(c, IF Screened(input[c]) THEN "resource_binding" ELSE "metadata_firewall")

GuardedProviderQuoteRejects(c) ==
  /\ ProviderQuoteRejects(c)
  /\ Screened(input[c])
  /\ MetadataBound(input[c])
  /\ ~ QuoteHolds(input[c])
  /\ At(c, "provider_quote")

(***************************************************************************)
(* The row of another provider may have the same origin, which is unique:  *)
(* the reservation then throws for an input that passes the layers.        *)
(***************************************************************************)
GuardedThrowBeforeLock(c) ==
  /\ ThrowBeforeLock(c)
  /\ \/ Bound(input[c]) /\ Registered(input[c]) /\ ~ Normalizes(input[c])
     \/ PassesLayers(input[c])
  /\ Silently

GuardedReserve(c) == Reserve(c) /\ PassesLayers(input[c]) /\ Silently

GuardedRefuse(c) == Refuse(c) /\ PassesLayers(input[c]) /\ At(c, "quote_lock")
-----------------------------------------------------------------------------
(***************************************************************************)
(* Clear signing and the CAW call.                                         *)
(***************************************************************************)
GuardedClearSignBlocks(c) ==
  /\ ClearSignBlocks(c)
  /\ \/ EscrowMissing(input[c])
     \/ ~ Unsignable(input[c]) /\ ~ ClearSigned(input[c])
  /\ At(c, IF EscrowMissing(input[c]) THEN "service_escrow" ELSE "clearsig")

GuardedClearSignThrows(c) ==
  /\ ClearSignThrows(c)
  /\ ~ EscrowMissing(input[c])
  /\ Unsignable(input[c])
  /\ Silently

GuardedCallCaw(c) ==
  /\ CallCaw(c)
  /\ ReadyForCaw(input[c])
  /\ asked' = [asked EXCEPT ![c] =
       IF LocalDecision(input[c]) = "none" THEN CawRequest(input[c]) ELSE NotAsked]
  /\ UNCHANGED <<input, answer, layer>>

(***************************************************************************)
(* The pipeline reads the adapter's decision before its denial, the        *)
(* completeness of live evidence before the headers of the response.       *)
(***************************************************************************)
Answered(c, a, l) ==
  /\ a \in AnswersTo(c)
  /\ answer' = [answer EXCEPT ![c] = a]
  /\ layer' = [layer EXCEPT ![c] = l]
  /\ UNCHANGED <<input, asked>>

GuardedCawRequiresApproval(c, a) ==
  /\ CawRequiresApproval(c)
  /\ a.decision = "require_approval"
  /\ Answered(c, a, "caw")

GuardedCawRequiresFallback(c, a) ==
  /\ CawRequiresFallback(c)
  /\ a.decision = "fallback_required"
  /\ Answered(c, a, "caw")

GuardedCawDenies(c, a) ==
  /\ CawDenies(c)
  /\ a.decision \notin {"require_approval", "fallback_required"}
  /\ ~ Accepts(a)
  /\ Answered(c, a, "caw")

GuardedCawEvidenceIncomplete(c, a) ==
  /\ CawEvidenceIncomplete(c)
  /\ Accepts(a)
  /\ LacksEvidence(a)
  /\ Answered(c, a, "caw")

GuardedCacheUnsafe(c, a) ==
  /\ CacheUnsafe(c)
  /\ Accepts(a)
  /\ ~ LacksEvidence(a)
  /\ ~ CacheSafe(input[c])
  /\ Answered(c, a, "cache_policy")

PaysWithoutEvidence(c, a) ==  \* mutation: live evidence need not be complete
  /\ CawPays(c)
  /\ Accepts(a)
  /\ CacheSafe(input[c])
  /\ Answered(c, a, "none")

GuardedCawPays(c, a) ==
  /\ CawPays(c)
  /\ Accepts(a)
  /\ ~ LacksEvidence(a)
  /\ CacheSafe(input[c])
  /\ Answered(c, a, "none")

GuardedCawRejects(c) == CawRejects(c) /\ asked[c] # NotAsked /\ Silently

GuardedCawAnswers(c) ==
  \/ \E a \in AnswersTo(c) :
       \/ GuardedCawRequiresApproval(c, a)
       \/ GuardedCawRequiresFallback(c, a)
       \/ GuardedCawDenies(c, a)
       \/ GuardedCawEvidenceIncomplete(c, a)
       \/ GuardedCacheUnsafe(c, a)
       \/ GuardedCawPays(c, a)
  \/ GuardedCawRejects(c)
-----------------------------------------------------------------------------
(***************************************************************************)
(* The receipt, checked after the reservation was spent.                   *)
(***************************************************************************)
GuardedReceiptVerified(c) ==
  /\ ReceiptVerified(c)
  /\ ReceiptAvailable(input[c])
  /\ VerifiesReceipt(input[c], answer[c].ref)
  /\ At(c, "guard_pipeline")

GuardedReceiptBlocked(c) ==
  /\ ReceiptBlocked(c)
  /\ ReceiptAvailable(input[c])
  /\ ~ VerifiesReceipt(input[c], answer[c].ref)
  /\ At(c, "receipt")

GuardedReceiptThrows(c) ==
  /\ ReceiptThrows(c)
  /\ ~ ReceiptAvailable(input[c])
  /\ Silently

(***************************************************************************)
(* The steps that no input changes.                                        *)
(***************************************************************************)
Bookkeeping(c) ==
  \/ Begin(c)
  \/ MarkSpent(c)
  \/ MarkQuoteSpent(c)
  \/ PostSpend(c)
  \/ RecordGuardEvent(c)
  \/ RecordTimelineEvent(c)
  \/ Release(c)
  \/ Void(c)
  \/ Dispute(c)

GuardedStep(c) ==
  \/ GuardedBindingRejects(c)
  \/ GuardedRegistryRejects(c)
  \/ GuardedTrustRejects(c)
  \/ GuardedMetadataRejects(c)
  \/ GuardedProviderQuoteRejects(c)
  \/ GuardedThrowBeforeLock(c)
  \/ GuardedReserve(c)
  \/ GuardedRefuse(c)
  \/ GuardedClearSignBlocks(c)
  \/ GuardedClearSignThrows(c)
  \/ GuardedCallCaw(c)
  \/ GuardedCawAnswers(c)
  \/ GuardedReceiptVerified(c)
  \/ GuardedReceiptBlocked(c)
  \/ GuardedReceiptThrows(c)
  \/ Bookkeeping(c) /\ Silently

GuardedNext ==
  \/ \E m \in Missions, b \in Limits : CreateMission(m, b) /\ Silently
  \/ \E c \in Calls : GuardedStep(c)
  \/ Crash /\ Silently

GuardedSpec == GuardedInit /\ [][GuardedNext]_guardedVars
-----------------------------------------------------------------------------
(***************************************************************************)
(* What is asked of the wallet, for each kind of request.  A transfer pays *)
(* the merchant what the challenge asks.  An escrowed call funds the named *)
(* escrow with that amount, for the merchant and under the context of this *)
(* payment.                                                                *)
(***************************************************************************)
PaysMerchant(i, r) == r.to = i.challenge.payTo /\ r.amount = i.challenge.amount

FundsEscrow(i, r) ==
  /\ r.to = i.order.escrow /\ r.to # None
  /\ r.amount = i.challenge.amount
  /\ r.calldata.selector = "fund"
  /\ r.calldata.params =
       {<<"context", "own">>, <<"provider", i.challenge.payTo>>, <<"amount", i.challenge.amount>>}

(***************************************************************************)
(* Any other call carries the provider's calldata.  It names an allowed    *)
(* function, nests only allowed ones, transfers the amount to the          *)
(* merchant, approves a limited amount to an allowed spender, or settles   *)
(* the context of this payment.  It goes, with the amount as its value, to *)
(* the merchant or to the escrow address that came with the challenge; no  *)
(* layer looks at that address, and the review was told the merchant.      *)
(* What nested calls or an allowed function without a decoder do is not    *)
(* bound either.                                                           *)
(***************************************************************************)
AllowedSelectors(i) ==
  IF i.policy.selectors = {None} THEN DefaultSelectors ELSE i.policy.selectors

AllowedSpenders(i) ==
  IF i.policy.spenders = {None} THEN {i.challenge.payTo} ELSE i.policy.spenders

CallsAsReviewed(i, r) ==
  LET selector == r.calldata.selector
      params == r.calldata.params IN
  /\ r.to \in {i.challenge.payTo, i.order.escrow}
  /\ r.amount = i.challenge.amount
  /\ r.calldata = i.calldata
  /\ selector \in AllowedSelectors(i)
  /\ selector \in {"transfer", "transferFrom"} =>
       {<<"recipient", i.challenge.payTo>>, <<"amount", i.challenge.amount>>} \subseteq params
  /\ selector = "approve" =>
       /\ <<"amount", Unlimited>> \notin params
       /\ \E spender \in AllowedSpenders(i) : <<"spender", spender>> \in params
  /\ selector = "multicall" => r.calldata.nested \subseteq AllowedSelectors(i)
  /\ selector \in {"fund", "refund", "deliver"} => <<"context", "own">> \in params

AsksAsReviewed(i, r) ==
  CASE r.operation = "transfer" -> PaysMerchant(i, r)
    [] r.operation = "contract_call" ->
         IF i.order.serviceMode = "escrowed-delivery" THEN FundsEscrow(i, r)
         ELSE CallsAsReviewed(i, r)
    [] OTHER -> i.order.message

(***************************************************************************)
(* The wallet is asked only for what was bound and reviewed: the request   *)
(* holds the quote, the paid resource is the one requested and described,  *)
(* payee and facilitator are those of the registry and of the trust        *)
(* record, the quote is alive, and the transfer, the call or the message   *)
(* is one of those above.                                                  *)
(***************************************************************************)
PaidIsBound ==
  \A c \in Calls :
    asked[c] # NotAsked =>
      /\ lock[c] = "allow"
      /\ RequestsChallenged(input[c])
      /\ CanonicalUrl(input[c].metadata.url) = CanonicalUrl(input[c].request.url)
      /\ input[c].challenge.payTo \in {input[c].entry.merchant} \cap {input[c].trust.payTo}
      /\ input[c].challenge.facilitator = input[c].entry.facilitator
      /\ ExpiresAt(input[c]) > input[c].request.now
      /\ AsksAsReviewed(input[c], asked[c])

(***************************************************************************)
(* Once the adapter reported a payment, the budget never goes back: the    *)
(* reservation ends spent or disputed, whatever the later layers find and  *)
(* whichever statement a crash follows.                                    *)
(***************************************************************************)
PaidIsNeverReleased ==
  \A c \in Calls :
    answer[c].decision # "none" /\ Accepts(answer[c]) =>
      reservation[key[c]] \in {"reserved", "spent", "disputed"}

(***************************************************************************)
(* An event that allows a payment stands for one that was answered,        *)
(* posted, and delivered: what the response holds is what the provider     *)
(* signed, it does not deny the service, and the CAW evidence the          *)
(* signature names is the one the adapter gave.  Whose key signed is not   *)
(* said: a key that comes with the challenge is preferred to the registry's.*)
(***************************************************************************)
AllowIsDelivered ==
  \A c \in Calls :
    event[c] = "allow" =>
      LET i == input[c]
          signed == i.response.signature.over IN
      /\ asked[c] # NotAsked /\ Accepts(answer[c])
      /\ ledger[key[c]].status = "posted"
      /\ ~ DeniesDelivery(i.response.body)
      /\ signed.responseHash.of = i.response.body
      /\ signed.fallbackEvidence <=> answer[c].ref = None
      /\ signed.cawEvidenceRef = IF answer[c].ref = None THEN "caw-fallback" ELSE answer[c].ref

(***************************************************************************)
(* The evidence mode under which the bundle files an event written after   *)
(* the lock, from the parts of the event that have a mode.  An allowed     *)
(* payment filed as live has complete live evidence of the CAW and of the  *)
(* provider's identity.                                                    *)
(***************************************************************************)
EvidenceParts(c) ==
  {input[c].request.mode, TrustMode(input[c])} \cup ({answer[c].mode} \ {"none"})

EventMode(c) == WorstMode(EvidenceParts(c))

LiveLabelIsLive ==
  \A c \in Calls :
    event[c] = "allow" /\ EventMode(c) = "live" =>
      /\ answer[c].mode = "live" /\ answer[c].complete
      /\ TrustSource(input[c]) = "live"

(***************************************************************************)
(* What agrees in every respect is not refused, also where it sits on a    *)
(* boundary: only the lock, the CAW, or a CAW reference that the provider  *)
(* could not know when it signed may stand in the way.                     *)
(***************************************************************************)
BenignIsNotRefused ==
  \A c \in Calls :
    input[c] \in Benign /\ layer[c] \notin {"none", "quote_lock", "caw"} =>
      layer[c] = "guard_pipeline" \/ answer[c].ref # None

(***************************************************************************)
(* What docs/live_fallback_mock_policy.md says of an uncertain decision:   *)
(* the system blocks or requires approval.  Nothing a layer wants approved *)
(* is paid without an approval.                                            *)
(***************************************************************************)
UncertainIsApproved ==
  \A c \in Calls :
    asked[c] # NotAsked =>
      ~ AsksApproval(input[c]) /\ ClearSignResult(ClearSignInput(input[c])) = "allow"
=============================================================================
