----------------------------- MODULE MCAttackLab -----------------------------
(***************************************************************************)
(* Small instances of GuardedPayment and AttackLab for TLC.  In a behaviour*)
(* with attack = "none" one call has any of the inputs below while the     *)
(* mission is created again and the process may crash; in the others the   *)
(* attack lab runs one of its scenarios.                                   *)
(***************************************************************************)
EXTENDS AttackLab, TLC

CONSTANTS c1, c2, c3

MCLabCalls == <<c1, c2, c3>>

Demo == DemoInput(0)

(***************************************************************************)
(* Values for the parts of an input, each other than the demo payment's.   *)
(***************************************************************************)
OtherUrl == Url("provider.example", <<"paid", "other">>)
SpelledUrl == Url("provider.example", <<"paid", "r%65port">>)
FragmentUrl == [ReportUrl EXCEPT !.fragment = TRUE]
BadUrl == [ReportUrl EXCEPT !.origin = "invalid"]
EmailUrl == [ReportUrl EXCEPT !.query = <<"email">>]
SecretUrl == [ReportUrl EXCEPT !.query = <<"secret">>]

Header(list) == [name |-> "x-payment", isList |-> list]

RequestValues ==
  LET r == Demo.request IN
  {[r EXCEPT !.url = u] : u \in {OtherUrl, SpelledUrl, FragmentUrl, BadUrl, EmailUrl}} \cup
  {[r EXCEPT !.headers = <<Header(l)>>] : l \in BOOLEAN} \cup
  {[r EXCEPT !.raw = <<Header(FALSE)>>],
   [r EXCEPT !.headers = <<Header(FALSE)>>, !.raw = <<Header(FALSE)>>],
   [r EXCEPT !.mode = "mock"]} \cup
  {[r EXCEPT !.now = n] : n \in {59, 60}}

ChallengeValues ==
  LET c == Demo.challenge IN
  {[c EXCEPT !.resource = u] :
     u \in {OtherUrl, SpelledUrl, BadUrl, EmailUrl, Url(None, <<>>)}} \cup
  {[c EXCEPT !.expiresAt = Absent, !.timeout = t] : t \in {0, 30}} \cup
  {[c EXCEPT !.amount = 6], [c EXCEPT !.whole = FALSE], [c EXCEPT !.payTo = "stranger"],
   [c EXCEPT !.facilitator = "other"], [c EXCEPT !.complete = FALSE]}

EntryValues ==
  LET e == Demo.entry IN
  {[e EXCEPT !.allowed = a] : a \in {{}, {[path |-> <<"paid">>, star |-> TRUE]}}} \cup
  {[e EXCEPT !.publicKey = k] : k \in {None, "new-key"}} \cup
  {[e EXCEPT !.threshold = t] : t \in {95, 96}} \cup
  {[e EXCEPT !.origin = None], [e EXCEPT !.merchant = "stranger"], [e EXCEPT !.cawAllowed = FALSE]}

TrustValues ==
  LET t == Demo.trust IN
  {[t EXCEPT !.live = l, !.demo = TRUE, !.score = s] : l \in BOOLEAN, s \in {95, 60, 59, 30, 29}} \cup
  {[t EXCEPT !.reports = n] : n \in {2, 3}} \cup
  {[t EXCEPT !.demo = FALSE], [t EXCEPT !.agentUrl = OtherUrl], [t EXCEPT !.payTo = "stranger"]}

MetadataValues ==
  LET m == Demo.metadata IN
  {[m EXCEPT !.url = u] : u \in {OtherUrl, SpelledUrl, BadUrl, EmailUrl}} \cup
  {[m EXCEPT !.description = {f}] : f \in {"redact", "require_approval", "block"}} \cup
  {[m EXCEPT !.reason = {"block"}, !.reasonIsCode = code] : code \in BOOLEAN}

QuoteValues ==
  LET q == CreateSignedProviderQuote(Demo, None) IN
  {q, CreateSignedProviderQuote(Demo, "own"), [q EXCEPT !.signedWith = "other-key"],
   [q EXCEPT !.amount = 6], [q EXCEPT !.terms.facilitator = "other"]}

OrderValues ==
  LET o == Demo.order IN
  {[o EXCEPT !.operation = "contract_call", !.serviceMode = m, !.escrow = e, !.canCall = can] :
     m \in {"caw-fetch", "escrowed-delivery"}, e \in {None, "escrow"}, can \in BOOLEAN} \cup
  {[o EXCEPT !.operation = "message_sign", !.message = m, !.canSign = can] :
     m \in BOOLEAN, can \in BOOLEAN}

PolicyValues ==
  LET p == Demo.policy IN
  {[p EXCEPT !.selectors = {"transfer", "refund"}, !.spenders = {"spender"}],
   [p EXCEPT !.abis = {[selector |-> "transfer", signature |-> "transfer"]}],
   [p EXCEPT !.abis = {[selector |-> "transfer", signature |-> "approve"]}],
   [p EXCEPT !.paramsGiven = TRUE, !.params = {<<"amount", 5>>}],
   [p EXCEPT !.message = [given |-> TRUE, required |-> {"ok"}, contains |-> {<<"ok", "true">>},
                          context |-> "own"]]}

CalldataValues ==
  {NoCalldata, [NoCalldata EXCEPT !.form = "text"],
   TransferCalldata("merchant", 4), TransferCalldata("stranger", 5),
   [TransferCalldata("merchant", 5) EXCEPT !.params = {<<"recipient", "merchant">>}],
   ApproveCalldata("merchant", 5), ApproveCalldata("merchant", Unlimited), ApproveCalldata("spender", 5),
   MulticallCalldata({"transfer"}), MulticallCalldata({"transfer", "mint"}),
   [NoCalldata EXCEPT !.form = "hex", !.selector = "mint"]} \cup
  {[NoCalldata EXCEPT !.form = "hex", !.selector = "refund", !.params = {<<"context", x>>}] :
     x \in {"own", "another"}}

ResponseValues ==
  LET r == Demo.response
      Resigned(body, ref) == Sign([Demo EXCEPT !.response.body = body], ref).response IN
  {Resigned(Demo.response.body, "raw-ref"),
   Resigned(Body({<<"ok", "false">>}), None),
   Resigned(Body({<<"verification.ok", "false">>}), None),
   Resigned(Body({<<"payload", "odd">>}), None),
   Resigned([Demo.response.body EXCEPT !.contexts = {}], None),
   Resigned([Demo.response.body EXCEPT !.kind = "text"], None),
   [r EXCEPT !.body = Body({<<"ok", "true">>, <<"report", "swapped">>})],
   [r EXCEPT !.body.kind = "none"],
   [r EXCEPT !.signed = FALSE], [r EXCEPT !.publicKey = None], [r EXCEPT !.address = "stranger"],
   [r EXCEPT !.hasHeaders = FALSE], [r EXCEPT !.cacheControl = {}], [r EXCEPT !.vary = {}]}

Values ==
  [request |-> RequestValues, challenge |-> ChallengeValues, entry |-> EntryValues,
   trust |-> TrustValues, metadata |-> MetadataValues, quote |-> QuoteValues,
   order |-> OrderValues, policy |-> PolicyValues, calldata |-> CalldataValues,
   response |-> ResponseValues]

(***************************************************************************)
(* Inputs on a boundary in which everything agrees: another spelling and a *)
(* fragment of the same URL, a header given once, the last second of the   *)
(* quote, a score that is just enough, as many reports as are tolerated, a *)
(* signed quote, a resource allowed by its prefix, and calldata the        *)
(* provider need not give or that approves the merchant.                   *)
(***************************************************************************)
MCBenign ==
  {Demo,
   [Demo EXCEPT !.request.url = SpelledUrl, !.metadata.url = FragmentUrl],
   [Demo EXCEPT !.request.headers = <<Header(FALSE)>>],
   [Demo EXCEPT !.request.now = 59],
   [Demo EXCEPT !.trust.live = TRUE, !.trust.score = 60, !.trust.reports = 2],
   [Demo EXCEPT !.quote = CreateSignedProviderQuote(Demo, None)],
   [Demo EXCEPT !.entry.allowed = {[path |-> <<"paid">>, star |-> TRUE]}],
   [Demo EXCEPT !.metadata.reason = {"block"}],
   [Demo EXCEPT !.calldata = ApproveCalldata("merchant", 5)],
   [Demo EXCEPT !.order.operation = "contract_call", !.order.canCall = TRUE,
                !.order.serviceMode = "escrowed-delivery", !.order.escrow = "escrow"]}

(***************************************************************************)
(* Every input with one part other than the demo payment's, and with two   *)
(* where one layer looks at both.                                          *)
(***************************************************************************)
ReadTogether ==
  {<<"request", "challenge">>, <<"request", "metadata">>, <<"request", "entry">>,
   <<"challenge", "entry">>, <<"challenge", "trust">>, <<"challenge", "quote">>,
   <<"challenge", "calldata">>, <<"entry", "trust">>, <<"entry", "quote">>,
   <<"entry", "response">>, <<"order", "challenge">>, <<"order", "calldata">>,
   <<"order", "policy">>, <<"order", "response">>, <<"policy", "calldata">>,
   <<"policy", "response">>, <<"calldata", "response">>, <<"trust", "request">>, <<"trust", "response">>}

OnePart == UNION {{[Demo EXCEPT ![p] = v] : v \in Values[p]} : p \in DOMAIN Values}

TwoParts ==
  UNION {{[Demo EXCEPT ![pair[1]] = v, ![pair[2]] = w] :
            v \in Values[pair[1]], w \in Values[pair[2]]} : pair \in ReadTogether}

(***************************************************************************)
(* Every calldata under every policy for a call that is not escrowed.      *)
(***************************************************************************)
PlainCalls ==
  {[Demo EXCEPT !.order.operation = "contract_call", !.order.canCall = TRUE, !.order.escrow = e,
                !.policy = p, !.calldata = d] :
     e \in {None, "escrow"}, p \in PolicyValues, d \in CalldataValues}

MCInputs == OnePart \cup TwoParts \cup PlainCalls \cup MCBenign

(***************************************************************************)
(* Answers of the adapter: fallback and live payments with and without     *)
(* complete evidence, a denial with and without a decision, approval and   *)
(* fallback.                                                               *)
(***************************************************************************)
MCAnswers ==
  LET live == [decision |-> "allow", denial |-> FALSE, mode |-> "live", complete |-> TRUE, ref |-> "raw-ref"] IN
  {LabAllows, LabDenies, live, [live EXCEPT !.complete = FALSE],
   [live EXCEPT !.decision = "undefined", !.mode = "mock"],
   [LabDenies EXCEPT !.decision = "undefined"],
   [LabAllows EXCEPT !.decision = "require_approval"],
   [LabAllows EXCEPT !.decision = "fallback_required"]}

FreeInit ==
  /\ attack = "none"
  /\ result = "none"
  /\ Init
  /\ \A c, d \in Calls : key[c] = key[d] /\ amount[c] = amount[d] /\ limit[c] = limit[d]
  /\ input \in {[c \in Calls |-> IF c = c1 THEN i ELSE Demo] : i \in Inputs}
  /\ answer = [c \in Calls |-> NoAnswer]
  /\ layer = [c \in Calls |-> "none"]
  /\ asked = [c \in Calls |-> NotAsked]

FreeNext ==
  /\ attack = "none"
  /\ \/ \E m \in Missions, b \in Limits : CreateMission(m, b) /\ Silently
     \/ GuardedStep(c1)
     \/ Crash /\ Silently
  /\ UNCHANGED labVars

MCInit == FreeInit \/ LabInit

MCNext == FreeNext \/ (attack # "none" /\ LabNext)

MCSpec == MCInit /\ [][MCNext]_<<guardedVars, labVars>>
=============================================================================
