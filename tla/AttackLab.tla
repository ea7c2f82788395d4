------------------------------- MODULE AttackLab -------------------------------
(***************************************************************************)
(* The attack lab: sixteen scenarios, each a deviation from a payment in   *)
(* which everything agrees, run through the pipeline on a database of its  *)
(* own, and the answer of the lab's HTTP route.  The database has no       *)
(* foreign keys, so the mission counts as present from the start.  Time is *)
(* in seconds from DEMO_NOW; the quote of every scenario expires after 60. *)
(***************************************************************************)
EXTENDS GuardedPayment

CONSTANTS
  LabCalls,   \* the calls of a scenario, in the order they are made
  LabTimes    \* the "now" a lab request may name

ASSUME AttackLabAssumption ==
  /\ LabCalls \in Seq(Calls)
  /\ Len(LabCalls) >= 2
  /\ \A j, n \in DOMAIN LabCalls : LabCalls[j] = LabCalls[n] => j = n
  /\ LabTimes \subseteq Int

VARIABLES
  attack,     \* the scenario that runs
  result      \* what the route answers

labVars == <<attack, result>>

Url(origin, path) == [origin |-> origin, path |-> path, query |-> <<>>, fragment |-> FALSE]

ReportUrl == Url("provider.example", <<"paid", "report">>)

(***************************************************************************)
(* createDemoProviderEntry, createDemoTrustRecord, createRawChallenge and  *)
(* createAttackRequest.                                                    *)
(***************************************************************************)
DemoEntry ==
  [origin |-> "provider.example", merchant |-> "merchant", facilitator |-> "facilitator",
   allowed |-> {[path |-> <<"paid", "report">>, star |-> FALSE]},
   cawAllowed |-> TRUE, publicKey |-> "registry-key", threshold |-> 60]

DemoTrust ==
  [live |-> FALSE, demo |-> TRUE, agentUrl |-> ReportUrl, payTo |-> "merchant",
   score |-> 95, reports |-> 0]

RawChallenge(amt) ==
  [resource |-> ReportUrl, amount |-> amt, whole |-> TRUE, payTo |-> "merchant",
   facilitator |-> "facilitator", expiresAt |-> 60, timeout |-> Absent, complete |-> TRUE]

AttackRequest(now) ==
  [url |-> ReportUrl, headers |-> <<>>, raw |-> <<>>, now |-> now, mode |-> "live"]

DemoMetadata ==
  [url |-> ReportUrl, description |-> {}, reason |-> {}, reasonIsCode |-> TRUE]

NoQuote ==
  [given |-> FALSE, signedWith |-> None, resource |-> ReportUrl, amount |-> 0, payTo |-> None,
   expiresAt |-> 0, contextHash |-> None,
   terms |-> [amount |-> 0, payTo |-> None, facilitator |-> None, expiresAt |-> 0]]

DemoOrder ==
  [operation |-> "transfer", serviceMode |-> "caw-fetch", escrow |-> None,
   canCall |-> FALSE, canSign |-> FALSE, message |-> FALSE]

NoPolicy ==
  [selectors |-> {None}, spenders |-> {None}, abis |-> {}, paramsGiven |-> FALSE, params |-> {},
   message |-> [given |-> FALSE, required |-> {}, contains |-> {}, context |-> "none"]]

(***************************************************************************)
(* encodeTransferCalldata, encodeApproveCalldata, encodeMulticallCalldata. *)
(***************************************************************************)
TransferCalldata(recipient, amt) ==
  [form |-> "hex", selector |-> "transfer", nested |-> {},
   params |-> {<<"recipient", recipient>>, <<"amount", amt>>}]

ApproveCalldata(spender, amt) ==
  [form |-> "hex", selector |-> "approve", nested |-> {},
   params |-> {<<"spender", spender>>, <<"amount", amt>>}]

MulticallCalldata(nested) ==
  [form |-> "hex", selector |-> "multicall", nested |-> nested, params |-> {}]

Body(fields) == [kind |-> "object", fields |-> fields, contexts |-> {"own"}]

(***************************************************************************)
(* makeSafeProviderChallengeArtifacts: a response whose signature is for   *)
(* what it delivers, with the evidence reference of a CAW without one.     *)
(***************************************************************************)
SafeResponse(body) ==
  [hasHeaders |-> TRUE, cacheControl |-> {"no-store", "private"}, vary |-> {"x-clear402-payment"},
   body |-> body, schema |-> "schema", signed |-> TRUE, publicKey |-> "registry-key",
   address |-> "merchant", signature |-> [key |-> None, over |-> <<>>]]

Sign(i, ref) ==
  [i EXCEPT !.response.signature = SignReceipt("registry-key", Receipt(i, ref))]

DemoInput(now) ==
  Sign([request |-> AttackRequest(now), challenge |-> RawChallenge(5), entry |-> DemoEntry,
        trust |-> DemoTrust, metadata |-> DemoMetadata, quote |-> NoQuote, order |-> DemoOrder,
        policy |-> NoPolicy, calldata |-> TransferCalldata("merchant", 5),
        response |-> SafeResponse(Body({<<"ok", "true">>}))], None)
-----------------------------------------------------------------------------
(***************************************************************************)
(* The scenarios, as what each has other than the demo payment.            *)
(***************************************************************************)
CrossResource(i) ==
  LET ledgerUrl == Url("provider.example", <<"paid", "admin-ledger">>) IN
  [i EXCEPT !.request.url = ledgerUrl, !.metadata.url = ledgerUrl]

Pii(i) == [i EXCEPT !.metadata.description = {"block"}]

DynamicPrice(i) ==
  [i EXCEPT !.challenge.amount = 250, !.calldata = TransferCalldata("merchant", 250)]

MaliciousApprove(i) == [i EXCEPT !.calldata = ApproveCalldata("stranger", Unlimited)]

DiscoveryPoisoning(i) ==
  LET evilUrl == Url("evil.example", <<"paid", "report">>) IN
  [i EXCEPT !.entry.origin = None, !.request.url = evilUrl, !.metadata.url = evilUrl,
            !.trust.demo = FALSE,
            !.challenge = [@ EXCEPT !.resource = evilUrl, !.payTo = "evil-merchant",
                                    !.facilitator = "evil-facilitator"]]

PaidButDenied(i) ==
  Sign([i EXCEPT !.order.serviceMode = "direct-transfer",
                 !.response.body = Body({<<"ok", "false">>, <<"status", "denied">>}),
                 !.response.schema = "denied-schema"], None)

Erc8004IdentityMismatch(i) ==
  [i EXCEPT !.trust.agentUrl = Url("mismatch.example", <<"paid", "report">>),
            !.trust.payTo = "stranger", !.trust.score = 92]

LowReputationProvider(i) == [i EXCEPT !.trust.score = 12, !.trust.reports = 5]

HeaderConfusion(i) ==
  LET once == [name |-> "x-payment", isList |-> FALSE] IN
  [i EXCEPT !.request.headers = <<once, once>>, !.request.raw = <<once, once>>]

CacheConfusion(i) ==
  [i EXCEPT !.response.cacheControl = {"public", "max-age=600"}, !.response.vary = {"accept"}]

SettlementPath(i) == [i EXCEPT !.challenge.facilitator = "attacker-facilitator"]

PartialPayment(i) ==
  [i EXCEPT !.challenge.amount = 1000, !.calldata = TransferCalldata("merchant", 900)]

MalformedDelivery(i) ==
  Sign([i EXCEPT !.response.body = Body({<<"payload", "unexpected">>, <<"proof", "missing">>}),
                 !.response.schema = "malformed-schema"], None)

MulticallHiddenOperation(i) == [i EXCEPT !.calldata = MulticallCalldata({"approve", "mint"})]

Scenario ==
  [replay_same_proof |-> DemoInput(0),
   cross_resource_substitution |-> CrossResource(DemoInput(0)),
   pii_leakage |-> Pii(DemoInput(0)),
   dynamic_price_overspend |-> DynamicPrice(DemoInput(0)),
   malicious_approve |-> MaliciousApprove(DemoInput(0)),
   discovery_poisoning |-> DiscoveryPoisoning(DemoInput(0)),
   paid_but_denied |-> PaidButDenied(DemoInput(0)),
   erc8004_identity_mismatch |-> Erc8004IdentityMismatch(DemoInput(0)),
   low_reputation_provider |-> LowReputationProvider(DemoInput(0)),
   header_confusion_duplicate_x_payment |-> HeaderConfusion(DemoInput(0)),
   cache_confusion |-> CacheConfusion(DemoInput(0)),
   concurrent_free_riding_20_requests |-> DemoInput(0),
   settlement_path_substitution |-> SettlementPath(DemoInput(0)),
   partial_payment_decimals_confusion |-> PartialPayment(DemoInput(0)),
   malformed_delivery |-> MalformedDelivery(DemoInput(0)),
   multicall_hidden_operation |-> MulticallHiddenOperation(DemoInput(0))]

(***************************************************************************)
(* ATTACK_SCENARIOS: the layer that the lab says blocks each attack.       *)
(***************************************************************************)
BlockedBy ==
  [replay_same_proof |-> "quote_lock",
   cross_resource_substitution |-> "resource_binding",
   pii_leakage |-> "metadata_firewall",
   dynamic_price_overspend |-> "caw",
   malicious_approve |-> "clearsig",
   discovery_poisoning |-> "provider_registry",
   paid_but_denied |-> "receipt",
   erc8004_identity_mismatch |-> "erc8004",
   low_reputation_provider |-> "erc8004",
   header_confusion_duplicate_x_payment |-> "http_headers",
   cache_confusion |-> "cache_policy",
   concurrent_free_riding_20_requests |-> "quote_lock",
   settlement_path_substitution |-> "provider_registry",
   partial_payment_decimals_confusion |-> "clearsig",
   malformed_delivery |-> "receipt",
   multicall_hidden_operation |-> "clearsig"]

ATTACK_NAMES == DOMAIN Scenario
-----------------------------------------------------------------------------
(***************************************************************************)
(* createScenarioCawAdapter: a fallback answer without an evidence ref, or *)
(* a denial, of the dynamic price only for an amount over 100.             *)
(***************************************************************************)
LabAllows ==
  [decision |-> "allow", denial |-> FALSE, mode |-> "fallback", complete |-> FALSE, ref |-> None]

LabDenies == [LabAllows EXCEPT !.decision = "block", !.denial = TRUE]

LabAnswer(i) ==
  IF attack = "dynamic_price_overspend" /\ i.challenge.amount > 100 THEN LabDenies ELSE LabAllows

(***************************************************************************)
(* How often a scenario calls the pipeline: the replay twice, one after    *)
(* the other, the free riders at once (the code makes twenty calls).       *)
(***************************************************************************)
Runs ==
  CASE attack = "replay_same_proof" -> {1, 2}
    [] attack = "concurrent_free_riding_20_requests" -> DOMAIN LabCalls
    [] OTHER -> {1}

RunDone(n) == pc[LabCalls[n]] \in Ended

MayStart(n) ==
  /\ \A k \in Runs : k < n => pc[LabCalls[k]] # "idle"
  /\ attack = "replay_same_proof" => \A k \in Runs : k < n => RunDone(k)

LabInit ==
  /\ Init
  /\ \A c, d \in Calls : key[c] = key[d] /\ amount[c] = amount[d] /\ limit[c] = limit[d]
  /\ \A c \in Calls : amount[c] <= limit[c]
  /\ \E now \in LabTimes, a \in ATTACK_NAMES :
       /\ attack = a
       /\ input = [c \in Calls |-> [Scenario[a] EXCEPT !.request.now = now]]
  /\ answer = [c \in Calls |-> NoAnswer]
  /\ layer = [c \in Calls |-> "none"]
  /\ asked = [c \in Calls |-> NotAsked]
  /\ result = "none"

(***************************************************************************)
(* executeAttackScenario normalises the challenge before anything else,    *)
(* and the route answers whatever is thrown with 404 ATTACK_NOT_FOUND.     *)
(***************************************************************************)
ScenarioThrows ==
  /\ result = "none"
  /\ ~ Normalizes(input[LabCalls[1]])
  /\ result' = "ATTACK_NOT_FOUND"
  /\ UNCHANGED <<guardedVars, attack>>

LabStep ==
  /\ result = "none"
  /\ Normalizes(input[LabCalls[1]])
  /\ \A m \in Missions : budget[m] # NoMission
  /\ \E n \in Runs :
       /\ pc[LabCalls[n]] = "idle" => MayStart(n)
       /\ GuardedStep(LabCalls[n])
       /\ answer'[LabCalls[n]] \in {NoAnswer, LabAnswer(input[LabCalls[n]])}
  /\ UNCHANGED labVars

(***************************************************************************)
(* The result is that of the second replay, and of the free riders the     *)
(* first that was blocked.  toAttackDecision names it.                     *)
(***************************************************************************)
BlockedRuns == {n \in Runs : verdict[LabCalls[n]] = "block"}

Primary ==
  IF attack = "concurrent_free_riding_20_requests" /\ BlockedRuns # {}
    THEN CHOOSE n \in BlockedRuns : \A k \in BlockedRuns : n <= k
  ELSE IF attack = "replay_same_proof" THEN 2
  ELSE 1

AttackDecision(d) ==
  CASE d = "block" -> "blocked" [] d = "allow" -> "allowed" [] OTHER -> "require_approval"

LabAnswers ==
  /\ result = "none"
  /\ \A n \in Runs : RunDone(n)
  /\ result' = IF \E n \in Runs : pc[LabCalls[n]] = "threw" THEN "ATTACK_NOT_FOUND"
               ELSE AttackDecision(verdict[LabCalls[Primary]])
  /\ UNCHANGED <<guardedVars, attack>>

(***************************************************************************)
(* Without foreign keys a missing mission row refuses nothing, as if the   *)
(* row were there.                                                         *)
(***************************************************************************)
CreateAttackLabDatabase ==
  /\ result = "none"
  /\ \E m \in Missions : budget[m] = NoMission /\ CreateMission(m, limit[LabCalls[1]])
  /\ Silently
  /\ UNCHANGED labVars

LabNext == CreateAttackLabDatabase \/ ScenarioThrows \/ LabStep \/ LabAnswers

LabSpec == LabInit /\ [][LabNext]_<<guardedVars, labVars>>
-----------------------------------------------------------------------------
(***************************************************************************)
(* Every scenario is blocked, and at the layer its label names: no earlier *)
(* layer hides it and no later one has to catch it.  In particular the     *)
(* money of cross-resource, header, registry, trust, clear signing and     *)
(* firewall attacks is never asked for, and a delivery that the provider   *)
(* itself denies is reported as paid and not delivered.                    *)
(***************************************************************************)
EveryAttackIsBlocked ==
  result \notin {"none", "ATTACK_NOT_FOUND"} =>
    /\ result = "blocked"
    /\ layer[LabCalls[Primary]] = BlockedBy[attack]
    /\ attack = "paid_but_denied" =>
         ReceiptStatus(input[LabCalls[1]], None) = "paid_but_not_delivered"
    /\ BlockedBy[attack] \notin {"caw", "quote_lock", "receipt", "cache_policy"} =>
         \A c \in Calls : asked[c] = NotAsked

(***************************************************************************)
(* Of the runs of one payment, replayed or at once, exactly one is paid    *)
(* for and delivered; all the others are refused by the lock.              *)
(***************************************************************************)
OneRunIsPaid ==
  result \notin {"none", "ATTACK_NOT_FOUND"} /\ BlockedBy[attack] = "quote_lock" =>
    /\ Cardinality({n \in Runs : verdict[LabCalls[n]] = "allow"}) = 1
    /\ \A n \in Runs : layer[LabCalls[n]] \in {"guard_pipeline", "quote_lock"}
=============================================================================
