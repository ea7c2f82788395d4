------------------------------ MODULE ProviderX402 ------------------------------
(***************************************************************************)
(* The local x402 provider: the challenges it issues and remembers, the    *)
(* debug payment proofs it hands out with them, and the handlers that      *)
(* verify a proof and deliver.  A challenge stands for its hash; what the  *)
(* process remembers of it may be what a client said of it.  The           *)
(* handlers of the POST routes read nothing before they await the body, so *)
(* each handler is one step, taken when the body is there; requests that   *)
(* are open when the process stops leave nothing behind.  Proofs may be    *)
(* sent again, late, to another route, and after a restart.                *)
(***************************************************************************)
EXTENDS Integers, FiniteSets

CONSTANTS
  Paths,         \* the resource paths of debug challenges besides /paid/report
  Ttl,           \* challengeTtlMs
  Descriptions,  \* what clients may say of a challenge they normalise
  MaxTime,       \* bound of the clock
  MaxHeld        \* bound of the challenges that clients get

ASSUME TtlAssumption == Ttl \in Nat /\ MaxTime \in Nat

VARIABLES
  now,      \* the clock
  issued,   \* issuedChallenges: for each remembered hash, what is remembered
  retold,   \* those a client described last, otherwise than they were issued
  held,     \* the challenges whose proof a client has
  owed,     \* those it was given, or saw accepted, by the running process
  reply     \* the last answer that judged a proof

vars == <<now, issued, retold, held, owed, reply>>

Report == "/paid/report"
Ledger == "/paid/admin-ledger"

NoChallenge == [kind |-> "none", resource |-> "none", issuedAt |-> 0]

(***************************************************************************)
(* createProviderChallenge, for the 402 answer and the mock fixture, and   *)
(* createDebugChallenge.  Only the substituted challenge of the fixture    *)
(* has other terms than the configuration.                                 *)
(***************************************************************************)
ProviderChallenge(kind, path, at) == [kind |-> kind, resource |-> path, issuedAt |-> at]

DebugChallenge(path, at) == ProviderChallenge("debug", path, at)

ExpiresAt(ch) == ch.issuedAt + Ttl

Terms(ch) == IF ch.kind = "substituted" THEN "substituted" ELSE "configured"

Substituted(at) == ProviderChallenge("substituted", Ledger, at)

(***************************************************************************)
(* normalizeX402Challenge: what the provider reads from a raw challenge,   *)
(* whose hash it computes itself.  An expiry that is no safe integer is    *)
(* not compared; a facilitator URL that is none cannot be quoted.          *)
(***************************************************************************)
NoExpiry == -1

AsIssued(ch) ==
  [resource |-> ch.resource, amount |-> Terms(ch), expiresAt |-> ExpiresAt(ch), quotable |-> TRUE]

(***************************************************************************)
(* What arrives in the payment header: nothing that can be decoded, the    *)
(* JSON null, or a proof, signed or not.  What arrives in the body of a    *)
(* POST: nothing, what cannot be parsed, a raw challenge that lacks a      *)
(* field, or a challenge: raw, which says what was issued under its hash,  *)
(* or normalised by the client, which may say anything of that hash.       *)
(***************************************************************************)
NoHeader == [form |-> "undecodable", of |-> NoChallenge, signed |-> FALSE]

Proof(ch) == [form |-> "proof", of |-> ch, signed |-> TRUE]

Headers ==
  {NoHeader, [NoHeader EXCEPT !.form = "null"]} \cup
  {[Proof(ch) EXCEPT !.signed = s] : ch \in held, s \in BOOLEAN}

Known == held \cup {Substituted(ch.issuedAt) : ch \in {x \in held : x.kind = "original"}}

Body(form, ch, says) == [form |-> form, of |-> ch, says |-> says]

Bodies ==
  {Body(f, NoChallenge, AsIssued(NoChallenge)) : f \in {"none", "incomplete", "unparsable"}} \cup
  {Body("challenge", ch, AsIssued(ch)) : ch \in Known} \cup
  {Body("challenge", ch, d) : ch \in Known, d \in Descriptions}

NoBody == Body("none", NoChallenge, AsIssued(NoChallenge))

NoReceipt ==
  [context |-> NoChallenge, challenge |-> NoChallenge, resource |-> "none",
   amount |-> "none", deliveredAt |-> 0]

NoReply ==
  [status |-> "none", proof |-> NoChallenge, at |-> 0, receipt |-> NoReceipt,
   named |-> FALSE, asIssued |-> FALSE]

Init ==
  /\ now = 0
  /\ issued = [ch \in {} |-> AsIssued(ch)]
  /\ retold = {}
  /\ held = {}
  /\ owed = {}
  /\ reply = NoReply
-----------------------------------------------------------------------------
(***************************************************************************)
(* rememberChallenge replaces what the process knew of a hash: by what it  *)
(* issues itself, or by the challenge of a body.                           *)
(***************************************************************************)
RememberIssued(chs) ==
  /\ issued' = [ch \in DOMAIN issued \cup chs |->
                  IF ch \in chs THEN AsIssued(ch) ELSE issued[ch]]
  /\ retold' = retold \ chs

RememberBody(b) ==
  /\ issued' = [ch \in DOMAIN issued \cup {b.of} |->
                  IF ch = b.of THEN b.says ELSE issued[ch]]
  /\ retold' = IF b.says = AsIssued(b.of) THEN retold \ {b.of} ELSE retold \cup {b.of}

(***************************************************************************)
(* decodePaymentHeader, challengeFromBody, resolveChallengeForProof and    *)
(* resolveChallengeForVerification: the challenge of the body, or what is  *)
(* remembered, or the debug challenge if built at this very moment; and    *)
(* what of it is remembered, before the proof is verified.                 *)
(***************************************************************************)
Decoded(h) == h.form \in {"null", "proof"}

FromBody(b) == b.form = "challenge"

Rebuilt(h) == ({DebugChallenge(Report, now)} \cap {h.of}) \ DOMAIN issued

Normalized(ch, says) == [of |-> ch, says |-> says]

Unknown == Normalized(NoChallenge, AsIssued(NoChallenge))

ResolveForProof(h) ==
  IF h.of \in DOMAIN issued THEN Normalized(h.of, issued[h.of])
  ELSE IF h.of \in Rebuilt(h) THEN Normalized(h.of, AsIssued(h.of))
  ELSE Unknown

Resolve(h, b) ==
  IF ~ Decoded(h) THEN Unknown
  ELSE IF FromBody(b) THEN Normalized(b.of, b.says)
  ELSE ResolveForProof(h)

RememberResolved(h, b) ==
  IF Decoded(h) /\ FromBody(b) THEN RememberBody(b) ELSE RememberIssued(Rebuilt(h))

Throws(h, b) ==
  \/ b.form = "unparsable"
  \/ Decoded(h) /\ b.form = "incomplete"
  \/ h.form = "null"

(***************************************************************************)
(* verifyPaymentProof: signed, for the hash and the amount of n, and in    *)
(* time if n says when it expires.                                         *)
(***************************************************************************)
InTime(n) == n.says.expiresAt = NoExpiry \/ now <= n.says.expiresAt

VerifiesTermsOnly(h, n) ==  \* mutation: the challenge hash is not compared
  n # Unknown /\ h.signed /\ Terms(h.of) = n.says.amount /\ InTime(n)

VerifiesProof(h, n) ==
  /\ n # Unknown
  /\ h.signed
  /\ h.of = n.of
  /\ Terms(h.of) = n.says.amount
  /\ InTime(n)

(***************************************************************************)
(* createPaidReport and createServiceReceipt: the payment context is that  *)
(* of the proof, the resource and the amount are those of n.               *)
(***************************************************************************)
ServiceReceipt(h, n) ==
  [context |-> h.of, challenge |-> n.of, resource |-> n.says.resource,
   amount |-> n.says.amount, deliveredAt |-> now]

(***************************************************************************)
(* An answer, and for the properties: the challenge the proof was signed   *)
(* for; whether the request named that challenge, in the body, or to a     *)
(* process that owes it; and whether what it names is what the provider    *)
(* issued, as the body says it, or if there is none, as no client has      *)
(* described it otherwise.                                                 *)
(***************************************************************************)
Named(h, b) ==
  \/ FromBody(b) /\ b.of = h.of
  \/ b.form = "none" /\ h.of \in owed

NamedAsIssued(h, b) ==
  IF FromBody(b) THEN b.says = AsIssued(b.of) ELSE h.of \notin retold

Answer(status, h, b, receipt) ==
  reply' = [status |-> status, proof |-> IF h.signed THEN h.of ELSE NoChallenge,
            at |-> now, receipt |-> receipt,
            named |-> Named(h, b), asIssued |-> NamedAsIssued(h, b)]

(***************************************************************************)
(* A new challenge goes to the client with its proof.                      *)
(***************************************************************************)
ForgetfulHandOut(ch) ==  \* mutation: the challenge is not remembered
  /\ held' = held \cup {ch}
  /\ owed' = owed \cup {ch}
  /\ Cardinality(held') <= MaxHeld
  /\ UNCHANGED <<issued, retold>>

HandOut(ch) ==
  /\ RememberIssued({ch})
  /\ held' = held \cup {ch}
  /\ owed' = owed \cup {ch}
  /\ Cardinality(held') <= MaxHeld

DebugChallengeRoute(path) ==
  /\ HandOut(DebugChallenge(path, now))
  /\ UNCHANGED <<now, reply>>

(***************************************************************************)
(* The fixture is not remembered; its original challenge has a proof.      *)
(***************************************************************************)
AttackFixtureRoute ==
  /\ held' = held \cup {ProviderChallenge("original", Report, now)}
  /\ Cardinality(held') <= MaxHeld
  /\ UNCHANGED <<now, issued, retold, owed, reply>>

(***************************************************************************)
(* handlePaidReport: the report with its receipt, or 402 with a new        *)
(* challenge.  The challenge may be for another path than the request's.   *)
(***************************************************************************)
PaidReportDelivers(h) ==
  LET n == Resolve(h, NoBody) IN
  /\ ~ Throws(h, NoBody)
  /\ VerifiesProof(h, n)
  /\ RememberResolved(h, NoBody)
  /\ owed' = owed \cup {n.of}
  /\ Answer("delivered", h, NoBody, ServiceReceipt(h, n))
  /\ UNCHANGED <<now, held>>

PaidReportChallenges(h) ==
  LET new == ProviderChallenge("issued", Report, now) IN
  /\ ~ Throws(h, NoBody)
  /\ ~ VerifiesProof(h, Resolve(h, NoBody))
  /\ RememberIssued(Rebuilt(h) \cup {new})
  /\ held' = held \cup {new}
  /\ owed' = owed \cup {new}
  /\ Cardinality(held') <= MaxHeld
  /\ Answer("refused", h, NoBody, NoReceipt)
  /\ UNCHANGED now

(***************************************************************************)
(* handleVerifyPayment and handleGatewayPayment: what is remembered stays  *)
(* also if the proof fails.  The gateway quotes the challenge before it    *)
(* delivers, which throws for a facilitator URL that is none.              *)
(***************************************************************************)
JudgePayment(h, b, accepted) ==
  LET n == Resolve(h, b) IN
  /\ ~ Throws(h, b)
  /\ RememberResolved(h, b)
  /\ \/ /\ VerifiesProof(h, n)
        /\ accepted
        /\ owed' = owed \cup {n.of}
        /\ Answer("delivered", h, b, ServiceReceipt(h, n))
     \/ /\ VerifiesProof(h, n)
        /\ ~ accepted
        /\ UNCHANGED owed
        /\ Answer("threw", h, b, NoReceipt)
     \/ /\ ~ VerifiesProof(h, n)
        /\ UNCHANGED owed
        /\ Answer("refused", h, b, NoReceipt)
  /\ UNCHANGED <<now, held>>

VerifyPayment(h, b) == JudgePayment(h, b, TRUE)

GatewayPayment(h, b) == JudgePayment(h, b, Resolve(h, b).says.quotable)

(***************************************************************************)
(* The catch clause of the handler: 500.  The JSON null throws where it is *)
(* verified, after the challenge of the body was remembered.               *)
(***************************************************************************)
InternalError(h, b) ==
  /\ Throws(h, b)
  /\ IF FromBody(b) THEN RememberBody(b) ELSE UNCHANGED <<issued, retold>>
  /\ Answer("threw", h, b, NoReceipt)
  /\ UNCHANGED <<now, held, owed>>

Tick ==
  /\ now < MaxTime
  /\ now' = now + 1
  /\ UNCHANGED <<issued, retold, held, owed, reply>>

Restart ==
  /\ issued' = [ch \in {} |-> AsIssued(ch)]
  /\ retold' = {}
  /\ owed' = {}
  /\ UNCHANGED <<now, held, reply>>

Next ==
  \/ \E path \in Paths \cup {Report} : DebugChallengeRoute(path)
  \/ AttackFixtureRoute
  \/ \E h \in Headers : PaidReportDelivers(h) \/ PaidReportChallenges(h)
  \/ \E h \in Headers, b \in Bodies :
       VerifyPayment(h, b) \/ GatewayPayment(h, b) \/ InternalError(h, b)
  \/ Tick
  \/ Restart

Spec == Init /\ [][Next]_vars
-----------------------------------------------------------------------------
(***************************************************************************)
(* A delivered receipt is for the hash and the amount that its proof was   *)
(* signed for, whatever a client says of the challenge, to whichever route *)
(* it sends the proof, and after a restart; and never for the substituted  *)
(* terms of the fixture.  Unless a client described the challenge          *)
(* otherwise, it is also for the issued resource and before the issued     *)
(* expiry.                                                                 *)
(***************************************************************************)
DeliveryIsBound ==
  reply.status = "delivered" =>
    LET receipt == reply.receipt IN
    /\ reply.proof \in held
    /\ receipt.context = reply.proof
    /\ receipt.challenge = reply.proof
    /\ receipt.amount = "configured"
    /\ reply.asIssued =>
         /\ receipt.resource = reply.proof.resource
         /\ receipt.deliveredAt <= ExpiresAt(reply.proof)

(***************************************************************************)
(* A client that has a proof is refused, or gets an error, only because it *)
(* is late: a challenge that the running process handed out or already     *)
(* accepted is still known, whatever was asked in between, and after a     *)
(* restart it is enough to send the challenge along; unless a client       *)
(* described the challenge otherwise.                                      *)
(***************************************************************************)
RefusedForCause ==
  /\ reply.status \in {"refused", "threw"}
  /\ reply.proof # NoChallenge
  /\ reply.named
  /\ reply.asIssued
  => reply.at > ExpiresAt(reply.proof)
=============================================================================
