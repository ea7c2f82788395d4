# Clear402 verification project

Clear402 guards the payments an agent makes to x402 providers. These modules model the parts of it that keep
state or decide: the quote and budget lock, the guard pipeline and its layers, the mission API and the evidence it
exports, the CAW live executor, the timeline stream, the local x402 provider, the attack lab and the escrow contract.
TLC checks them on small instances and TLAPS proves the main theorems for every value of the constants. Paths below
are relative to the repository; `runtime/` is `services/runtime/src/`.

    tlc -workers 2 -config GuardPipelineSafety.cfg MCGuardPipeline
    tlapm GuardPipeline_proofs.tla

`PROJECT.json` lists the runs, for each property a mutation of the code that breaks it, the source lines of
each definition, the hazards, the findings and the theorems.

## 1. The system

The runtime is one Node.js process with one synchronous SQLite database. A handler holds the event loop except
where it awaits. Most statements commit on their own, so a crash can fall between any two of them.

| Component | State it keeps | Operations | What makes it correct |
|---|---|---|---|
| Quote and budget lock, `runtime/guard/quote_lock.ts` | rows of `missions`, `x402_quotes`, `payment_contexts`, `quote_reservations`, `budget_ledger` | ensureMission, reserveQuoteAndBudget (one IMMEDIATE transaction), markReservationSpent, releaseReservationBudget, markReservationDisputed | a quote is held once and only goes forwards; holding fits the budget |
| Guard pipeline, `runtime/guard/pipeline.ts` | none between calls, but it awaits the CAW adapter with the lock held; writes `guard_events` and timeline rows | runGuardPipeline: layers, lock, clear signing, CAW, receipt, audit rows, settlement | rows agree with what calls answered; budget moves only after its audit rows; pending budget has an owner and is settled |
| Guard layers, ClearSign, receipts: `runtime/x402`, `clearsig`, `receipt`, and others of `guard` | none | pure decisions over what one call is given | what the wallet is asked for is what was requested, described, registered, quoted and reviewed; what is allowed was delivered |
| Mission API, `runtime/mission_flow.ts` and `server.ts` | `missions.status`, `mission_resource` events, `receipts`, `dual_receipts` | create, dry run, guard, verify, read | a mission's resource is the last one asked for; a payment context keeps its own; a receipt is for what was paid |
| Evidence export, `runtime/evidence_export.ts` | none; reads the latest row of each kind | export | the parts of one export tell of one payment |
| CAW adapter and live executor, `runtime/caw-*.mjs` | an in-memory cache by request id | transferTokens: refuse, submit, wait for evidence, cache | retries do not pay twice; posted budget was accepted; every call gets an answer |
| Mission timeline, `runtime/mission_timeline.ts`, and the dashboard's EventSource | `mission_timeline_events`; a cursor for each stream; the browser's buffers | record, poll, heartbeat, reconnect with Last-Event-ID | no row is skipped, repeated or out of order; each arrives and is shown |
| x402 provider, `services/provider-x402/src` | in-memory challenges; the proofs its clients hold | challenge, pay, verify, fixture | a delivery is for the challenge hash and amount its proof was signed for; a client that presents its challenge as issued is refused only when it is late |
| Attack lab, `runtime/attack_lab`, `runtime/routes/attacks.ts` | a database of its own for each run | sixteen scenarios, each through the pipeline | each scenario is blocked by the layer its label names |
| Service escrow, `contracts/ServiceEscrow.sol` | an escrow by payment context hash, the contract's balance | fund, deliver, refund | solvent; a refund pays once; finished escrows stay finished |
| Dashboard, shared schemas, scripts, recorded evidence | none that others rely on | display, formatting | not modelled, but for the dashboard's reader of the stream |

How they interact: `server.ts` calls the mission API; guardMission calls the pipeline; the pipeline calls the
layers, then the lock, then ClearSign, then awaits the adapter, then checks the receipt and settles the lock's rows;
events of the pipeline and receipts of the mission API append timeline rows, which the stream polls, and guard events
and receipts are what the export reads. The attack lab calls the same pipeline. The runtime never calls the provider
(it can't read its challenges: `runtime/x402/challenge_normalizer.ts:69` wants another shape), and not the escrow
contract either: ClearSign builds calldata for it.

What is hard to test here:
- interleavings at the one await of the pipeline, and at the three kinds of await of the executor;
- a crash between autocommit statements, with nothing that repairs rows at start;
- exceptions after the lock (no `finally` releases it);
- quote ids and nonces that are functions of (mission, provider), so that any later payment meets old rows;
- ten parts of a call's input from different sources, each compared with some of the others in some layer;
- lost or late answers of CAW, owners who approve after the runtime gave up;
- proofs sent again, late, elsewhere, or to a provider that forgot its challenges; challenges that a client describes otherwise than they were issued;
- rows read one kind at a time while other requests write them;
- broken streams and framing of events; calls of the contract from inside a refund.

The hazards of `PROJECT.json` place each of these at its line, with the properties aimed at it.

## 2. Modules

| Module | Models | State and actions |
|---|---|---|
| `MinorUnits` | the loop of getLedgerExposureUsd | `Total(f, S)` as the cardinality of a set of unit-by-unit pairs, so that no recursion is needed and it can be proved about |
| `QuoteLock` | `quote_lock.ts`, `db/schema.ts` | four functions for the rows; one operator for each statement, the transaction in one step; what `BudgetLock` calls stage, held and exposure, read from the rows. No Next: the composing modules order the statements |
| `GuardPipeline` | `pipeline.ts`, `events.ts` | `pc` for each call; one action per branch, statement, exception; crash. A layer may decide anything. Composes QuoteLock |
| `BudgetLock` | abstract specification | what the lock promises: hold, give back, spend, contest, with one exposure counter. `GuardPipeline` and `MissionFlow` implement it |
| `GuardLayers` | `x402/*`, `metadata_firewall.ts`, `payment_context.ts`, cache and header checks | operators over the input of a call, one for each layer, in the order of the pipeline; no state |
| `ClearSign` | `clearsig/adapter.ts` | the review of calldata, typed data and messages as one operator with its rules named |
| `Receipts` | `receipt_verifier.ts`, `dual_receipt.ts` | the receipt the pipeline builds and what verifyServiceReceipt finds |
| `GuardedPayment` | `pipeline.ts` with the decisions of its layers | each action is an action of GuardPipeline and the condition under which the code takes it. Composes GuardPipeline, GuardLayers, ClearSign, Receipts |
| `AttackLab` | `attack_lab/*`, `routes/attacks.ts` | the scenarios as deviations of one agreeing input, the lab's adapter, replays and concurrent runs, the route's answer. Composes GuardedPayment |
| `CawLiveExecutor` | `caw-live-executor.mjs`, `caw-adapter.mjs` | overlapping runs, cache, an external CAW service that may answer late or never, whose records are looked up by request id; the ledger row of each payment as the pipeline settles it |
| `MissionTimeline` | `mission_timeline.ts`, `dashboard-shell.tsx` | table, stream, wire, EventSource (external, by the HTML standard) and the dashboard's merge |
| `MissionFlow` | `mission_flow.ts`, the parts of `dual_receipt.ts` it can fail | requests in slots, each statement an action; clock in milliseconds; crash. Composes QuoteLock |
| `EvidenceExport` | `evidence_export.ts`, dryRunMission, latestGuardSummary | MissionFlow with the guard events each action records, and the export as a function of the rows. Composes MissionFlow |
| `ProviderX402` | `services/provider-x402/src` | what is remembered under each challenge hash (issued by the process, or told by a client), held proofs, one action per route and answer; clock; restart |
| `ServiceEscrow` | `ServiceEscrow.sol` | the contract's maps and balance; a stack of snapshots for refunds in progress, restored when one reverts |
| `MC*` | | inputs and symmetry for TLC |
| `*_proofs` | | theorems about the module they are named for; `GuardedPayment_proofs` also those about `AttackLab`, `MissionFlow_proofs` those about `EvidenceExport` |

Names are those of the code where TLA+ allows. An operator with a comment "mutation" is a plausible bug; it is
used in no specification, only to show that a property notices it.

Abstractions worth knowing:
- A **quote** is named by its mission and provider. The code concatenates the two ids, so this assumes that
  the concatenation is unambiguous. **Amounts** are integers of the smallest unit (see section 5).
- **Hashes and HMACs** are injective: a hash is the value hashed, a signature is its key with what it covers. **Text** a pattern
  is matched against is the set of what the patterns find in it. A **URL** keeps the parts that CanonicalUrl treats
  differently: origin, path segments with their percent spelling, query, fragment.
- In `GuardPipeline` what makes a layer reject is data: each may reject, pass, or throw where the code can.
  `GuardedPayment` decides by the input; since each of its actions is a conjunct stronger, it implements `GuardPipeline`,
  so crashes and concurrency carry over.
- The "mission" timeline row of ensureMission is left out of `GuardPipeline`, and the lab's "attack" row of `AttackLab`, whose
  database is dropped with the run. That database has no foreign keys, so the mission counts as present.
- `CawLiveExecutor` merges the refusals before submission (`RefusedLocally`), which differ in code and text only. An error of
  the submission ends as a denial or as a pending approval, whichever it reads like (`createDeniedExecution`): the model takes
  either, since the text comes from the service. The audit log is absent, complete, or lacks a part.
- Facilitator URLs and agent URIs of the guard's input can be parsed. For one that can't, the registry check and the trust adapter
  throw before the lock (`runtime/x402/provider_registry.ts:89`), which `GuardPipeline` has as ThrowBeforeLock.
- In `MissionTimeline` a stream starts once the mission has its row, and a new connection's id buffer is
  empty or as it was, since browsers differ.
- `ServiceEscrow` leaves out ether forced into the contract without a call.
- `MissionFlow` has one provider and the fallback adapter, as the code has. At guardMission's await it lets any other
  request run; in the code these are requests that were already read, a subset. The clock never goes back.
- In `EvidenceExport` an event and the release it belongs to are one step, which `GuardPipeline` takes apart. Guard
  events of one millisecond are in any order, as their ids are random.
- In `ProviderX402` a POST handler is one step: it reads nothing before it awaits its body. A challenge stands for its hash.
  A raw challenge in a body says what was issued under its hash, which the provider computes; a normalised one names a hash
  and may say anything of it (`Descriptions`), and replaces what was remembered. Bodies name hashes the provider's answers
  contained: a proof is signed for no other. There is one host; of the gateway's quote only its exception is modelled.

## 3. Runs

| Run | Shows | Bounds, and why they are enough |
|---|---|---|
| `pipeline_safety` | TypeOK; OneHolderPerQuote: calls for a quote, concurrent or later, get past the lock once; RowsMatchHolder: reservation, quote and ledger agree with what the holder did and answered, also after a crash; AuditedBeforeRelease: budget goes back only after event and timeline row; PendingIsOwned | three calls, two providers, one crash: two calls can contend for a quote while a third competes for the budget |
| `pipeline_budget` | ExposureWithinLimit: no step overspends the budget it records; ImplementsBudgetLock: refinement; BudgetSettles: pending budget is posted or voided unless a crash, exception or dispute ended its call | two calls, two providers, amounts and limits {1, 2}, one crash: an exact fit, an excess, and a budget changed in flight all occur |
| `guarded_payment` | PaidIsBound: the wallet is asked only for what was requested, described, registered and alive, and for a transfer, an escrow funding, a call or a message as it was reviewed (see below); PaidIsNeverReleased: what the adapter reported paid is never given back; AllowIsDelivered: an allowing event stands for a posted payment with the signed delivery; LiveLabelIsLive; BenignIsNotRefused: boundary inputs that agree pass; EveryAttackIsBlocked, by the layer its label names; OneRunIsPaid: of replayed or concurrent runs one is paid | the inputs differ from an agreeing payment in one part, or in two parts that one layer reads together (`ReadTogether`): a layer's comparison needs two, and calls that are not escrowed with each calldata under each policy (`PlainCalls`); one call for each input with limits {0, 3}, one crash and a mission that may be created again; lab runs of up to three calls (the code makes twenty) at three times, one past the expiry |
| `approval_ignored` | finding: UncertainIsApproved fails | the instance of `guarded_payment` |
| `caw_executor` | RetryDoesNotResubmit; PostedWasAccepted: posted budget stands for a payment the service accepted, or for a submission that failed while the record found under its request id was that of another one, left to the owner; PaidAndReleasedIsExplained: the four ways, and no other, to void budget of a payment that is made; EveryRunEnds | two runs with one or two request ids, one restart, one poll before the last: two runs of one request id submit both, and find each other's record |
| `caw_paid_void` | finding: VoidWasNotPaid fails | one run is enough |
| `timeline_stream` | NothingSkipped; EachRowOnceInOrder; EveryRowArrives; LoneRowIsShown | four rows of two missions, two broken connections: a row of each mission between others, and a break during a replay |
| `timeline_shown` | finding: AcknowledgedIsShown fails | two rows are enough |
| `mission_flow` | LatestRequestWins: missionResourceUrl finds the last answered create; ShownReceiptIsCurrent: the dual receipt shown is the verified dual of the stored receipt; ContextIsFinal; LastDecisionIsShown: the summary is the last event recorded; MixedExportIsExplained: an export tells of two resources only after a new create or while a guard is undecided; ImplementsBudgetLock: refinement, here of the API's own interleavings and crashes | one mission, two resources, two requests at a time, three milliseconds, one crash: two creates in one millisecond or not, a create or verify during a guard. MaxEvents bounds the dry runs and refusals; the guard's own decision is always recorded |
| `mission_flow_bound` | finding: ReceiptIsForBoundResource fails | the instance of `mission_flow` |
| `provider_x402` | DeliveryIsBound: delivered means signed, for the hash of the receipt and on the provider's terms, whatever clients say; for the issued resource and in time, unless the challenge was described otherwise; RefusedForCause: a client that has a proof the process owes, or sends the challenge along, as issued, is refused only when late | two paths, two held challenges, a challenge lives one tick of two: replay, expiry and restart between any two requests; two descriptions (`MCDescriptions`): one with another resource, no expiry and an unusable facilitator URL, one that has expired, so a lie for and against the client that tells it |
| `escrow_contract` | Solvent; PaidBackOnce; DeliveredAndRefundedAreFinal | three escrows, two accounts, nesting 3: a refund can be retried inside another that fails inside a third |

The crash, restart, break, row, event and clock bounds are in the guards (`MaxCrashes`, `MaxRestarts`, `MaxBreaks`, `MaxRows`,
`MaxWire`, `MaxPolls`, `MaxDepth`, `MaxTime`, `MaxEvents`, `MaxHeld`). `CHECK_DEADLOCK FALSE` appears where the instance
really ends: each run of the executor, each guarded call and each lab run is made once, and all escrows may be finished.
Isolation between missions is in the theorems, which hold for any set of missions; the runs mostly have one.

What PaidIsBound says of each request: a transfer pays the merchant what the challenge asks. An escrowed call goes to the named escrow with
that amount and funds it for the merchant under the context of this payment. Any other call has the provider's calldata: an allowed
function, nesting only allowed ones, a transfer of the amount to the merchant, a limited approval of an allowed spender, or a
settlement of this payment's own context. It says no more because the code checks no more: the target of such a call is
the merchant or whatever escrow address came with the challenge, the amount goes along as value, nested calls
and functions without a decoder (`mint`, `withdraw`, if the caller's policy allows them) are not looked into.

### Fairness

- `GuardPipeline!FairSpec`: a running call keeps running (Node runs a handler to its next await), and the adapter's
  promise settles. The second is what `EveryRunEnds` shows of the executor: its loop is bounded by the settle deadline.
- `CawLiveExecutor!FairSpec`: awaited promises of the SDK settle with an answer or an error, and timers
  fire. Nothing is assumed of the CAW service. That the SDK's request ends is an assumption about a library.
- `MissionTimeline!FairSpec`: `setInterval` fires, a standing connection delivers, the EventSource reconnects.
  A poll waits when the wire holds `MaxWire` chunks; this bounds the model, the code never waits.

### Findings

1. **Budget voided for a payment that is made** (`caw_paid_void`). An error of the submission is answered as a
   denial, or as a pending approval if it reads like one, although it says nothing of what CAW did; missing evidence at the deadline becomes a block;
   a payment left to the owner is released and may be approved later. The ledger then says nothing was spent.
   `docs/implementation_plan.md:58` calls CAW "the execution source of truth for spending".
2. **Timeline events lost in the dashboard** (`timeline_shown`). Events end in one newline, so the EventSource
   joins those before the next heartbeat into one, whose data is not JSON; the dashboard drops it, and
   Last-Event-ID has moved on. `docs/limitations.md:75` calls the stream with its replay complete.
3. **A receipt for another resource than the one bound** (`mission_flow_bound`). create(r1), guard, create of the
   same mission with r2, verify: the receipt is signed and accepted for r2 under the payment context of r1, since
   `verifyMission` compares the resource of the moment with itself. `README.md:17` says the guard binds the paid resource
   and the service receipt.
4. **A layer's wish for approval is dropped** (`approval_ignored`). The trust adapter, the metadata firewall and ClearSign
   can answer "require_approval"; the pipeline tests their results for "block" only (`runtime/guard/pipeline.ts:798`
   for the trust result), so the wallet is asked and the event says "allow". `docs/live_fallback_mock_policy.md:107`
   and `docs/risk_register.md:84` say that an uncertain decision blocks or requires approval.

Seen, with no run of their own:
- The export labels the challenge "live" when no event carries one with a mode (`providerChallengeFromRows` is followed by
  `?? "live"`), and a payment context always. The lock counts a challenge's amount as dollars while CAW gets the same digits
  shifted by the challenge's decimals.
- A contract call that is not escrowed goes to the escrow address, if the challenge came with one (`runtime/guard/pipeline.ts:543`),
  with the amount as value, while ClearSign is given the merchant as the target (`:1103-1109`) and reads neither target nor value.
  `docs/implementation_plan.md:84` says "clearsig checks the actual payment intent". The instance of `guarded_payment` reaches it:
  PaidIsBound with `r.to = i.challenge.payTo` in CallsAsReviewed is violated.
- A proof is verified against what its client says of the challenge: a normalised challenge in a POST body is taken as it is
  (`services/provider-x402/src/http.mjs:347`), its hash never computed again. Hash and amount must be those of the proof; resource and
  expiry may be any, and they replace what was remembered. A late proof is then delivered, a receipt names another resource, and an
  owed proof is refused. `services/provider-x402/test/provider.test.mjs:101` says "only after verifying the payment proof
  against the issued challenge". The instance of `provider_x402` reaches all three: both properties are violated without
  their condition `reply.asIssued`.

## 4. Proofs

All theorems hold for any finite sets of missions and providers (or hashes and addresses), any amounts in Nat, any
number of calls, runs or slots, any inputs and answers, and any bounds. The named assumptions of the modules are all that is used.

- `QuoteLock_proofs`: `Total` is a natural number, depends only on the amounts of its rows, and grows by a row's amount when
  the row joins. On that rest the lemmas about the statements of the lock: on rows as the caller must have left them, reserving
  holds a quote (`ReservingHolds`), posting spends it, voiding gives it back, disputing contests it, and the other updates
  are silent. The next module and `MissionFlow_proofs` share them.
- `GuardPipeline_proofs`. `TypeCorrect` by one step per action. `LockInvariant`: OneHolderPerQuote alone is not
  inductive, since nothing in it says that a held quote has a row that refuses the next call. `LockInv` adds the rows each
  place of a call implies (RowsMatchHolder) and which places hold the lock (PlaceOK). A step of one call touches
  the rows of its own quote only (`CallMoves`, `QuietMoves`, `HolderMoves`). `OneHolder`, `RowsAgree` and
  `PendingOwned` follow. `AuditInv` adds what verdict and event are at each place, for `AuditTrail`.
  `ExposureBounded`: only Reserve raises an exposure, and by the amount it checked. `PipelineImplementsLock`: each step is a
  step of `BudgetLock` or a stutter; half-done statements map to stutters, because the ledger row alone decides the
  stage. Both need `LockInv`: without it a void or post could find a row that is not its own, and move the counter twice.
- `GuardedPayment_proofs`, about `GuardedPayment` and `AttackLab`. `GuardedImplements`: every step is one of `GuardPipeline`,
  so the theorems above hold of it (`GuardedImplementsLock`, `GuardedExposureBounded`) and `LockInv` can be cited
  (`GuardedLockInvariant`). Over it:
  - `AskInv` (a call past a layer has what the layer compared, and what was asked is CawRequest of the input of a call that was
    reserved and reviewed) gives `PaidBound`, with one case for each kind of request (`AskedAsReviewed`); `PaidInv` (an accepted answer puts the call on the branch that spends or disputes,
    never on one that releases) gives `PaidNeverReleased`; `DeliveredInv` (an allowing verdict was preceded by a verified receipt
    and a posted row) gives `AllowDelivered`. `LiveLabel` rests on that and on the
    assumption that the modes of inputs and answers are those the code ranks.
  - `ExplainedInv` says of a call that ended without paying what stopped it: the first layer, in the order of the pipeline, that
    does not pass its input at the time of the call, the lock, or the wallet. That gives `EndsWhereStopped`, the converse of `PaidBound`.
  - `BenignNotRefused`: an input that agrees in what every layer compares (`Agrees`) is refused by no layer: only by the lock, the wallet,
    or for a reference the provider could not know when it signed. That the inputs called benign agree is its hypothesis
    `BenignAgrees`, about the constants only, which the inputs of `guarded_payment` satisfy; `DemoNotRefused` has no hypothesis: it derives the agreement of the demo
    payment from its definition.
  - `LabInv` adds to these what is known of a run of the lab: only runs of the scenario start, all runs of one scenario pay
    for the same input, each is answered by the scenario's wallet, and a second replay follows the first. For each scenario it is
    shown that its input passes every layer before the one its label names and not that one, whatever the time
    (`BlockedBy`). `LabBlocksEveryAttack` and `LabPaysOneRun` follow, for any number of runs from two up and any times; the first
    needs `ExplainedInv`, the second that a refusal of the lock has a holder (`RefusedForHolder`).
- `CawLiveExecutor_proofs`. `CawInv` says what the place, submission and outcome of a run say of one another; that an allow
  in the cache or in an answer stands for an accepted payment of that request id, or for a failed submission that
  found the record of one left to the owner; that a run which failed on a record found its own or that of a sibling, which does not change any more
  (`FailedSibling`); and that an ended run left an answer, so that a run that starts to load found none. It gives `CawTypeCorrect`, `CawRetryDoesNotResubmit`,
  `CawPostedWasAccepted` and `CawReleasedIsExplained`.
- `ServiceEscrow_proofs`. A revert brings back an old state, so the books must balance in every snapshot,
  and the present state must be a forward continuation of the outermost one: that is `EscrowInv`. It gives
  `EscrowSolvent`, `EscrowPaidBackOnce` and `EscrowFinality`.
- `MissionFlow_proofs`. `LastResource`: for any set of resource numbers the last event exists, though the set may be
  infinite, because times are bounded by the clock. `FlowInv` adds to the properties that jobs holding the event loop
  are of this millisecond and their receipt is stored (JobsAreNow), that no event is later than the last answered
  create (AskedIsLast), and that a payment context belongs to a reserved quote (ContextHasQuote). It gives
  `FlowTypeCorrect`, `FlowLatestRequestWins`, `FlowShownReceiptIsCurrent` and `FlowContextIsFinal`. `FlowLockInv` says that the quote of
  a mission is settled by at most one request, which finds its rows as it left them, and that a quote without that request is
  unused, or has the rows of a release, done or cut short, for good; with the lemmas of `QuoteLock_proofs` it gives `FlowImplementsLock`.
  `ExportImplementsFlow` carries all of them over to `EvidenceExport`. `ExportInv` adds that the last event is among the
  events and none is later, and that an event, receipt or dual receipt of another resource than a context's
  follows a create that came after it; it gives `ExportLastDecisionIsShown` and `ExportMixedIsExplained`.
- `MissionTimeline_proofs`. NothingSkipped says nothing of what a dispatch will acknowledge, and EachRowOnceInOrder nothing of the last
  id when no row is on the wire. `TimelineInv` adds that the id a browser holds is never beyond the stream's cursor, that what
  its buffer holds was received, and that a closed stream has nothing on the wire. It gives
  `TimelineTypeCorrect`, `TimelineSkipsNothing` and `TimelineIsOrdered` for any table, poll length and number of breaks. The rows a
  poll reads are an inductive definition (`InTableOrder`); what is needed of it is proved by taking the least number at
  which it would fail, which exists because `<` on the naturals is well founded (`LeastNumber`).
- `ProviderX402_proofs`. `Memory`: what clients hold was made by the provider on its own terms, what the running process
  owes them it remembers, and what it remembers of a hash is what it issued, unless a client described it otherwise since
  (`Faithful`). With it, judging a proof delivers only for its own hash and terms, and refuses only when late a client whose
  challenge is taken as issued: `ProviderDeliveryIsBound` and `ProviderRefusedForCause`, for any paths, lifetime, descriptions and
  number of held challenges.

Only model-checked: the liveness properties (BudgetSettles, EveryRunEnds, EveryRowArrives, LoneRowIsShown), since TLAPS does not do
fairness or ENABLED. The findings are TLC counterexamples. Every invariant and action property of a passing run has a theorem.

## 5. Plan, and what is not modelled

Done, in this order: (1) MinorUnits, QuoteLock, GuardPipeline, BudgetLock with proofs; (2) CawLiveExecutor with proofs;
(3) MissionTimeline with proofs; (4) ServiceEscrow with proofs; (5) MissionFlow with proofs; (6) GuardLayers, ClearSign, Receipts and their
composition GuardedPayment with proofs; (7) AttackLab with proofs; (8) ProviderX402 with proofs; (9) EvidenceExport with proofs.

Left, in order:
1. Decimal amounts: `amount.ts` and `toCawDecimalAmount` as functions against a reference definition, over bounded
   digits, for truncation and zero. Today an amount is an integer; a malformed one is the exception the pipeline can throw,
   and an error of toCawDecimalAmount is the failed submission of `CawLiveExecutor`.
2. A two-mission instance of `EvidenceExport`, and live payments in `MissionFlow` once its code has another adapter than the fallback.
3. The terms of the provider gateway's signed quote.

Not modelled, and why:
- The dashboard's rendering, scripts and recorded evidence are input and output without state others rely on; shared
  schemas are declarations.
- Of the export: redaction, evidence modes, attack summaries, the demonstration fixture and Markdown, which are
  formatting of what the modelled part selects.
- The off-chain escrow client (`runtime/escrow/service_escrow.ts`) is four pure functions over one in-memory record; nothing in the
  runtime calls it, and its order of states is that of the contract, which is modelled. Of `service_escrow_onchain.ts` the calldata
  that ClearSign reviews is in `ClearSign`.
- The rest of the read-only handlers change nothing the modelled handlers read.
- Hazards without a property: re-creating a mission with a resource it had before fails after its budget changed
  (`runtime/mission_flow.ts:557`), and a second guard sets a blocked mission back to "active" (`:342`). Both steps are in
  `MissionFlow`, but no document says what should happen. The provider's challenges are never forgotten while it runs
  (`services/provider-x402/src/http.mjs:363`): a bound in the model would be the model's own.
