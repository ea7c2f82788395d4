----------------------------- MODULE GuardLayers -----------------------------
(***************************************************************************)
(* What each layer of runGuardPipeline decides about the input of a call   *)
(* before the quote is locked, and about the response it is given.         *)
(*                                                                         *)
(* An input i is a record of records:                                      *)
(*   request    url, headers, raw (the two views of its headers), now, and *)
(*              mode (the evidence mode of the call)                       *)
(*   challenge  resource, amount, whole (the amount is an integer), payTo, *)
(*              facilitator, expiresAt, timeout, complete (no other field  *)
(*              is missing)                                                *)
(*   entry      the registry entry: origin, merchant, facilitator, allowed *)
(*              (resources), cawAllowed, publicKey, threshold              *)
(*   trust      live (a verified live record), demo (a demo record), and   *)
(*              the record: agentUrl, payTo, score, reports                *)
(*   metadata   url, description and reason (what the detectors find in    *)
(*              each), reasonIsCode                                        *)
(*   quote      the signed provider quote, if given                        *)
(*   order      operation, serviceMode, escrow, canCall, canSign, message  *)
(*   policy     the bindings of the caller for clear signing               *)
(*   calldata   what the provider asks to be signed                        *)
(*   response   the provider's response and its signature                  *)
(* A URL has an origin, a path and a query (sequences of words), and may   *)
(* have a fragment.  Hashes and HMACs are taken to be injective.           *)
(***************************************************************************)
EXTENDS Integers, Sequences, FiniteSets

Absent == -1   \* a number that is not given
None == "none" \* a name or an address that is not given

Words(s) == {s[n] : n \in DOMAIN s}

(***************************************************************************)
(* canonicalizeUrl: unreserved escapes are decoded, the query is sorted,   *)
(* the fragment is dropped.  It throws for what is not a URL.              *)
(***************************************************************************)
IsUrl(u) == u.origin \notin {None, "invalid"}

DecodeUnreserved(word) == IF word = "r%65port" THEN "report" ELSE word

SortedQuery(query) ==
  [word \in Words(query) |-> Cardinality({n \in DOMAIN query : query[n] = word})]

CanonicalUrl(u) ==
  [origin |-> u.origin,
   path |-> [n \in DOMAIN u.path |-> DecodeUnreserved(u.path[n])],
   query |-> SortedQuery(u.query)]

HasResource(i) == i.challenge.resource.origin # None

UrlsParse(i) == IsUrl(i.request.url) /\ IsUrl(i.challenge.resource)

RequestsChallenged(i) == CanonicalUrl(i.request.url) = CanonicalUrl(i.challenge.resource)

(***************************************************************************)
(* detectDuplicatePaymentHeader: the parsed and the raw view of the        *)
(* headers are counted together, so a header given once in both is refused.*)
(***************************************************************************)
PaymentHeaders == {"x-payment", "x-clear402-payment"}

DuplicatePaymentHeader(i) ==
  LET given == i.request.headers \o i.request.raw IN
  \E name \in PaymentHeaders :
    LET values == {n \in DOMAIN given : given[n].name = name} IN
    Cardinality(values) > 1 \/ \E n \in values : given[n].isList

(***************************************************************************)
(* normalizeX402Challenge: what it throws for, and the expiry it returns.  *)
(***************************************************************************)
ExpiresAt(i) ==
  IF i.challenge.expiresAt = Absent /\ i.challenge.timeout # Absent
    THEN i.request.now + i.challenge.timeout
    ELSE i.challenge.expiresAt

Normalizes(i) == i.challenge.complete /\ ExpiresAt(i) > i.request.now

(***************************************************************************)
(* validateProviderRegistry, for the entry found by the request's origin.  *)
(* Resources are compared as they are written, not in canonical form.      *)
(***************************************************************************)
Registered(i) == i.entry.origin = i.request.url.origin

StartsWith(path, prefix) ==
  Len(prefix) <= Len(path) /\ SubSeq(path, 1, Len(prefix)) = prefix

ResourceAllowed(u, allowed) ==
  \E a \in allowed :
    IF a.star THEN StartsWith(u.path \o u.query, a.path)
    ELSE a.path = u.path \o u.query

RegistryAllows(i) ==
  /\ i.entry.origin = i.challenge.resource.origin
  /\ ResourceAllowed(i.challenge.resource, i.entry.allowed)
  /\ i.entry.merchant = i.challenge.payTo
  /\ i.entry.facilitator = i.challenge.facilitator
  /\ i.entry.cawAllowed
  /\ i.entry.publicKey # None

(***************************************************************************)
(* validateERC8004Trust.  A live record is preferred to a demo record;     *)
(* with neither the live source is required.  Endpoints are compared by    *)
(* origin and path, as they are written.                                   *)
(***************************************************************************)
TrustSource(i) ==
  IF i.trust.live THEN "live" ELSE IF i.trust.demo THEN "demo" ELSE "unavailable"

EndpointMatches(i) ==
  /\ i.trust.agentUrl.origin = i.challenge.resource.origin
  /\ i.trust.agentUrl.path = i.challenge.resource.path

PaidButDeniedThreshold == 2

LowReputation(i) == i.trust.score < i.entry.threshold

VeryLowReputation(i) ==
  LowReputation(i) /\ (i.trust.score < 20 \/ 2 * i.trust.score < i.entry.threshold)

TrustBlocksAtThreshold(i) ==  \* mutation: blocks at the limit of reports
  /\ TrustSource(i) # "unavailable"
  /\ \/ ~ EndpointMatches(i)
     \/ i.trust.payTo # i.challenge.payTo
     \/ i.trust.reports >= PaidButDeniedThreshold
     \/ VeryLowReputation(i)

TrustBlocks(i) ==
  /\ TrustSource(i) # "unavailable"
  /\ \/ ~ EndpointMatches(i)
     \/ i.trust.payTo # i.challenge.payTo
     \/ i.trust.reports > PaidButDeniedThreshold
     \/ VeryLowReputation(i)

TrustAsksApproval(i) ==
  /\ ~ TrustBlocks(i)
  /\ LowReputation(i) \/ TrustSource(i) = "demo"

TrustMode(i) ==
  [live |-> "live", demo |-> "mock", unavailable |-> "fallback"][TrustSource(i)]

(***************************************************************************)
(* scanMetadata: the decision is the highest rank of what is found in the  *)
(* URL, the description, and a reason that is not one of the known codes.  *)
(***************************************************************************)
FindingRank == [allow |-> 0, redact |-> 1, hash_only |-> 2, require_approval |-> 3, block |-> 4]

FoundInUrl(u) ==
  {[email |-> "redact", secret |-> "block"][word] : word \in Words(u.query) \cap {"email", "secret"}}

Found(m) ==
  FoundInUrl(m.url) \cup m.description \cup (IF m.reasonIsCode THEN {} ELSE m.reason)

FirewallDecision(m) ==
  CHOOSE d \in Found(m) \cup {"allow"} :
    \A e \in Found(m) : FindingRank[e] <= FindingRank[d]

MetadataBound(i) ==
  IsUrl(i.metadata.url) /\ CanonicalUrl(i.metadata.url) = CanonicalUrl(i.request.url)

(***************************************************************************)
(* verifySignedProviderQuote.  The quote's fields are those of the         *)
(* normalised challenge, it is signed with the registry's key over the     *)
(* fields it has, and its terms hash is that of the challenge.             *)
(***************************************************************************)
QuoteTerms(i) ==
  [amount |-> i.challenge.amount,
   payTo |-> i.challenge.payTo,
   facilitator |-> i.challenge.facilitator,
   expiresAt |-> ExpiresAt(i)]

CreateSignedProviderQuote(i, contextHash) ==
  [given |-> TRUE,
   signedWith |-> i.entry.publicKey,
   resource |-> i.challenge.resource,
   amount |-> i.challenge.amount,
   payTo |-> i.challenge.payTo,
   expiresAt |-> ExpiresAt(i),
   terms |-> QuoteTerms(i),
   contextHash |-> contextHash]

QuoteVerifies(i) ==
  /\ i.quote.signedWith = i.entry.publicKey
  /\ i.quote.resource = i.challenge.resource
  /\ i.quote.amount = i.challenge.amount
  /\ i.quote.payTo = i.challenge.payTo
  /\ i.quote.expiresAt = ExpiresAt(i)
  /\ i.quote.expiresAt > i.request.now
  /\ i.quote.terms = QuoteTerms(i)

(***************************************************************************)
(* buildPaymentContext hashes the quote into the context, so a context     *)
(* hash that the quote itself names is never that of the built context.    *)
(***************************************************************************)
QuoteHolds(i) == i.quote.given => QuoteVerifies(i) /\ i.quote.contextHash = None
-----------------------------------------------------------------------------
(***************************************************************************)
(* The layers in the order the pipeline asks them: each of these is the    *)
(* point a call reaches when all the layers up to there let it through.    *)
(***************************************************************************)
Readable(i) == HasResource(i) /\ UrlsParse(i)

Bound(i) == Readable(i) /\ ~ DuplicatePaymentHeader(i) /\ RequestsChallenged(i)

Listed(i) == Bound(i) /\ Registered(i) /\ Normalizes(i) /\ RegistryAllows(i)

Trusted(i) == Listed(i) /\ ~ TrustBlocks(i) /\ TrustSource(i) # "unavailable"

Screened(i) == Trusted(i) /\ FirewallDecision(i.metadata) # "block"

PassesLayers(i) == Screened(i) /\ MetadataBound(i) /\ QuoteHolds(i)

(***************************************************************************)
(* What the layers would have a person approve.  The pipeline asks nobody: *)
(* it only looks for "block" (and for "fallback_required" of the trust).   *)
(***************************************************************************)
AsksApproval(i) == TrustAsksApproval(i) \/ FirewallDecision(i.metadata) = "require_approval"
-----------------------------------------------------------------------------
(***************************************************************************)
(* responseHeadersLookCacheSafe: a response without headers is safe.       *)
(***************************************************************************)
CacheSafe(i) ==
  i.response.hasHeaders =>
    /\ i.response.cacheControl \cap {"no-store", "private"} # {}
    /\ i.response.vary \cap (PaymentHeaders \cup {"authorization"}) # {}

(***************************************************************************)
(* inferEventEvidenceMode: the worst evidence mode of the parts that an    *)
(* event's evidence holds.                                                 *)
(***************************************************************************)
ModeRank == [live |-> 0, fallback |-> 1, mock |-> 2]

WorstMode(modes) ==
  CHOOSE worst \in modes : \A mode \in modes : ModeRank[mode] <= ModeRank[worst]
=============================================================================
