-------------------------- MODULE ProviderX402_proofs --------------------------
(***************************************************************************)
(* The two properties of the provider for every set of paths, lifetime of  *)
(* a challenge, length of the run, and for whatever clients say of the     *)
(* challenges they send.                                                   *)
(***************************************************************************)
EXTENDS ProviderX402, TLAPS

(***************************************************************************)
(* What a client holds a proof for was made by the provider on its own     *)
(* terms; what the process owes it, the process remembers; and only what a *)
(* client described otherwise is remembered otherwise than issued.         *)
(***************************************************************************)
Made(ch) == ch.kind \notin {"none", "substituted"} /\ ch.issuedAt \in Nat

Faithful == \A ch \in DOMAIN issued : ch \in retold \/ issued[ch] = AsIssued(ch)

Memory ==
  /\ now \in Nat
  /\ \A ch \in held : Made(ch)
  /\ owed \subseteq DOMAIN issued
  /\ owed \subseteq held
  /\ Faithful

ProviderInv == Memory /\ DeliveryIsBound /\ RefusedForCause

LEMMA MadeIsSome == \A ch : Made(ch) => ch # NoChallenge /\ Terms(ch) = "configured"
BY DEF Made, NoChallenge, Terms

LEMMA ExpiryIsNat == \A ch : Made(ch) => ExpiresAt(ch) \in Nat
BY TtlAssumption DEF Made, ExpiresAt

(***************************************************************************)
(* A signed header is a proof that some client holds, and is no null.      *)
(***************************************************************************)
LEMMA SignedIsHeld ==
  ASSUME NEW h \in Headers, h.signed
  PROVE  h.of \in held /\ h.form = "proof"
<1>1. CASE h \in {NoHeader, [NoHeader EXCEPT !.form = "null"]}
  BY <1>1 DEF NoHeader
<1>2. CASE \E ch \in held, s \in BOOLEAN : h = [Proof(ch) EXCEPT !.signed = s]
  BY <1>2 DEF Proof
<1> QED
  BY <1>1, <1>2 DEF Headers

(***************************************************************************)
(* What a request names as it was issued resolves to what was issued, and  *)
(* what names the challenge of its proof resolves to that challenge.       *)
(***************************************************************************)
LEMMA ResolvedAsIssued ==
  ASSUME Memory, NEW h \in Headers, NEW b, NamedAsIssued(h, b)
  PROVE  Resolve(h, b).says = AsIssued(Resolve(h, b).of)
<1>1. CASE FromBody(b)
  BY <1>1 DEF NamedAsIssued, Resolve, Normalized, Unknown
<1>2. CASE ~ FromBody(b)
  <2>1. h.of \notin retold
    BY <1>2 DEF NamedAsIssued
  <2>2. h.of \in DOMAIN issued => issued[h.of] = AsIssued(h.of)
    BY <2>1 DEF Memory, Faithful
  <2> QED
    BY <1>2, <2>2 DEF Resolve, ResolveForProof, Normalized, Unknown
<1> QED
  BY <1>1, <1>2

LEMMA NamedIsResolved ==
  ASSUME Memory, NEW h \in Headers, NEW b, h.signed, Named(h, b)
  PROVE  Resolve(h, b).of = h.of
BY SignedIsHeld DEF Memory, Named, Resolve, ResolveForProof, Decoded, Normalized, FromBody

(***************************************************************************)
(* A proof that is accepted is for its own challenge, on the provider's    *)
(* terms, and in time if that challenge says what was issued; one that is  *)
(* not accepted for what was issued is late.                               *)
(***************************************************************************)
LEMMA AcceptedIsOwn ==
  ASSUME Memory, NEW h \in Headers, NEW n, VerifiesProof(h, n)
  PROVE  /\ h.signed /\ h.of \in held /\ n.of = h.of
         /\ n.says.amount = "configured"
         /\ n.says = AsIssued(n.of) =>
              n.says.resource = h.of.resource /\ now <= ExpiresAt(h.of)
<1>1. h.signed /\ h.of = n.of /\ Terms(h.of) = n.says.amount /\ InTime(n)
  BY DEF VerifiesProof
<1>2. h.of \in held /\ Made(h.of)
  BY <1>1, SignedIsHeld DEF Memory
<1>3. n.says.amount = "configured"
  BY <1>1, <1>2, MadeIsSome
<1>4. ASSUME n.says = AsIssued(n.of)
      PROVE  n.says.resource = h.of.resource /\ now <= ExpiresAt(h.of)
  <2>1. n.says.resource = h.of.resource /\ n.says.expiresAt = ExpiresAt(h.of)
    BY <1>1, <1>4 DEF AsIssued
  <2>2. ExpiresAt(h.of) # NoExpiry
    BY <1>2, ExpiryIsNat DEF NoExpiry
  <2> QED
    BY <1>1, <2>1, <2>2 DEF InTime
<1> QED
  BY <1>1, <1>2, <1>3, <1>4

LEMMA UnacceptedIsLate ==
  ASSUME Memory, NEW h \in Headers, NEW n, h.signed,
         n.of = h.of, n.says = AsIssued(h.of), ~ VerifiesProof(h, n)
  PROVE  now > ExpiresAt(h.of)
<1>1. Made(h.of)
  BY SignedIsHeld DEF Memory
<1>2. n # Unknown
  BY <1>1, MadeIsSome DEF Unknown, Normalized
<1>3. n.says.amount = Terms(h.of) /\ n.says.expiresAt = ExpiresAt(h.of)
  BY DEF AsIssued
<1>4. ~ (now <= ExpiresAt(h.of))
  BY <1>2, <1>3 DEF VerifiesProof, InTime
<1> QED
  BY <1>1, <1>4, ExpiryIsNat DEF Memory

(***************************************************************************)
(* What an answer leaves of the two properties.                            *)
(***************************************************************************)
LEMMA DeliveredAnswer ==
  ASSUME Memory, NEW h \in Headers, NEW b, NEW n, n = Resolve(h, b), VerifiesProof(h, n),
         Answer("delivered", h, b, ServiceReceipt(h, n)), held \subseteq held'
  PROVE  DeliveryIsBound' /\ RefusedForCause'
<1>1. /\ h.signed /\ h.of \in held /\ n.of = h.of /\ n.says.amount = "configured"
      /\ NamedAsIssued(h, b) => n.says.resource = h.of.resource /\ now <= ExpiresAt(h.of)
  BY AcceptedIsOwn, ResolvedAsIssued
<1>2. /\ reply'.status = "delivered" /\ reply'.proof = h.of
      /\ reply'.receipt.context = h.of /\ reply'.receipt.challenge = n.of
      /\ reply'.receipt.resource = n.says.resource /\ reply'.receipt.amount = n.says.amount
      /\ reply'.receipt.deliveredAt = now
      /\ reply'.asIssued <=> NamedAsIssued(h, b)
  BY <1>1 DEF Answer, ServiceReceipt
<1>3. DeliveryIsBound'
  BY <1>1, <1>2 DEF DeliveryIsBound, ExpiresAt
<1>4. RefusedForCause'
  BY <1>2 DEF RefusedForCause
<1> QED
  BY <1>3, <1>4

LEMMA RefusedAnswer ==
  ASSUME Memory, NEW h \in Headers, NEW b, NEW status \in {"refused", "threw"},
         Answer(status, h, b, NoReceipt),
         h.signed /\ Named(h, b) /\ NamedAsIssued(h, b) => ~ VerifiesProof(h, Resolve(h, b))
  PROVE  DeliveryIsBound' /\ RefusedForCause'
<1>1. /\ reply'.status = status /\ reply'.at = now
      /\ reply'.proof = IF h.signed THEN h.of ELSE NoChallenge
      /\ reply'.named <=> Named(h, b)
      /\ reply'.asIssued <=> NamedAsIssued(h, b)
  BY DEF Answer
<1>2. DeliveryIsBound'
  BY <1>1 DEF DeliveryIsBound
<1>3. RefusedForCause'
  <2>1. SUFFICES ASSUME h.signed, Named(h, b), NamedAsIssued(h, b)
                 PROVE  now > ExpiresAt(h.of)
    BY <1>1 DEF RefusedForCause, ExpiresAt
  <2>2. Resolve(h, b).of = h.of /\ Resolve(h, b).says = AsIssued(h.of)
    BY <2>1, NamedIsResolved, ResolvedAsIssued
  <2> QED
    BY <2>1, <2>2, UnacceptedIsLate
<1> QED
  BY <1>2, <1>3

(***************************************************************************)
(* A step that judges nothing leaves the last answer as it was.            *)
(***************************************************************************)
LEMMA SilentStep ==
  ASSUME DeliveryIsBound, RefusedForCause, UNCHANGED reply, held \subseteq held'
  PROVE  DeliveryIsBound' /\ RefusedForCause'
<1>1. DeliveryIsBound'
  BY DEF DeliveryIsBound, ExpiresAt
<1>2. RefusedForCause'
  BY DEF RefusedForCause, ExpiresAt
<1> QED
  BY <1>1, <1>2

(***************************************************************************)
(* Nothing that is remembered is lost by remembering something else, and   *)
(* what is remembered otherwise than issued was retold.                    *)
(***************************************************************************)
LEMMA RememberIssuedFacts ==
  ASSUME Faithful, NEW chs, RememberIssued(chs)
  PROVE  DOMAIN issued' = DOMAIN issued \cup chs /\ Faithful'
<1>1. /\ issued' = [ch \in DOMAIN issued \cup chs |->
                      IF ch \in chs THEN AsIssued(ch) ELSE issued[ch]]
      /\ retold' = retold \ chs
  BY DEF RememberIssued
<1>2. \A ch \in DOMAIN issued' : ch \in retold' \/ issued'[ch] = AsIssued(ch)
  BY <1>1 DEF Faithful
<1> QED
  BY <1>1, <1>2 DEF Faithful, AsIssued, ExpiresAt, Terms

LEMMA RememberBodyFacts ==
  ASSUME Faithful, NEW b, RememberBody(b)
  PROVE  DOMAIN issued' = DOMAIN issued \cup {b.of} /\ Faithful'
<1>1. /\ issued' = [ch \in DOMAIN issued \cup {b.of} |->
                      IF ch = b.of THEN b.says ELSE issued[ch]]
      /\ retold' = IF b.says = AsIssued(b.of) THEN retold \ {b.of} ELSE retold \cup {b.of}
  BY DEF RememberBody
<1>2. \A ch \in DOMAIN issued' : ch \in retold' \/ issued'[ch] = AsIssued(ch)
  BY <1>1 DEF Faithful
<1> QED
  BY <1>1, <1>2 DEF Faithful, AsIssued, ExpiresAt, Terms

(***************************************************************************)
(* What an accepted proof resolved to is remembered when it is delivered.  *)
(***************************************************************************)
LEMMA RememberResolvedFacts ==
  ASSUME Faithful, NEW h, NEW b, RememberResolved(h, b)
  PROVE  /\ DOMAIN issued \subseteq DOMAIN issued' /\ Faithful'
         /\ Resolve(h, b) # Unknown => Resolve(h, b).of \in DOMAIN issued'
<1>1. CASE Decoded(h) /\ FromBody(b)
  <2>1. RememberBody(b)
    BY <1>1 DEF RememberResolved
  <2>2. Resolve(h, b).of = b.of
    BY <1>1 DEF Resolve, Normalized
  <2> QED
    BY <2>1, <2>2, RememberBodyFacts
<1>2. CASE ~ (Decoded(h) /\ FromBody(b))
  <2>1. RememberIssued(Rebuilt(h))
    BY <1>2 DEF RememberResolved
  <2>2. Resolve(h, b) # Unknown => Resolve(h, b).of \in DOMAIN issued \cup Rebuilt(h)
    BY <1>2 DEF Resolve, ResolveForProof, Normalized
  <2> QED
    BY <2>1, <2>2, RememberIssuedFacts
<1> QED
  BY <1>1, <1>2

LEMMA AcceptedMemory ==
  ASSUME Memory, NEW h \in Headers, NEW b, VerifiesProof(h, Resolve(h, b)),
         RememberResolved(h, b), owed' = owed \cup {Resolve(h, b).of},
         UNCHANGED <<now, held>>
  PROVE  Memory'
<1>1. Resolve(h, b).of \in held /\ Resolve(h, b) # Unknown
  BY AcceptedIsOwn DEF VerifiesProof
<1>2. DOMAIN issued \subseteq DOMAIN issued' /\ Faithful' /\ Resolve(h, b).of \in DOMAIN issued'
  BY <1>1, RememberResolvedFacts DEF Memory
<1> QED
  BY <1>1, <1>2 DEF Memory, Made

(***************************************************************************)
(* A new challenge keeps the memory consistent.                            *)
(***************************************************************************)
LEMMA HandedOutMemory ==
  ASSUME Memory, NEW ch, Made(ch), NEW chs, ch \in chs, RememberIssued(chs),
         held' = held \cup {ch}, owed' = owed \cup {ch}, UNCHANGED now
  PROVE  Memory'
<1>1. DOMAIN issued' = DOMAIN issued \cup chs /\ Faithful'
  BY RememberIssuedFacts DEF Memory
<1>2. \A x \in held' : Made(x)
  BY DEF Memory
<1> QED
  BY <1>1, <1>2 DEF Memory, Made

(***************************************************************************)
(* The two routes that judge a proof with a body.                          *)
(***************************************************************************)
LEMMA JudgePaymentStep ==
  ASSUME ProviderInv, NEW h \in Headers, NEW b \in Bodies, NEW accepted,
         accepted = TRUE \/ accepted = Resolve(h, b).says.quotable,
         JudgePayment(h, b, accepted)
  PROVE  ProviderInv'
<1> DEFINE n == Resolve(h, b)
<1>1. /\ RememberResolved(h, b) /\ UNCHANGED <<now, held>>
      /\ \/ /\ VerifiesProof(h, n) /\ owed' = owed \cup {n.of}
            /\ Answer("delivered", h, b, ServiceReceipt(h, n))
         \/ /\ VerifiesProof(h, n) /\ ~ accepted /\ UNCHANGED owed
            /\ Answer("threw", h, b, NoReceipt)
         \/ /\ ~ VerifiesProof(h, n) /\ UNCHANGED owed
            /\ Answer("refused", h, b, NoReceipt)
  BY DEF JudgePayment
<1>2. Memory
  BY DEF ProviderInv
<1>3. UNCHANGED owed => Memory'
  <2>1. DOMAIN issued \subseteq DOMAIN issued' /\ Faithful'
    BY <1>1, <1>2, RememberResolvedFacts DEF Memory
  <2> QED
    BY <1>1, <1>2, <2>1 DEF Memory, Made
<1>4. CASE VerifiesProof(h, n) /\ owed' = owed \cup {n.of}
             /\ Answer("delivered", h, b, ServiceReceipt(h, n))
  <2>1. Memory'
    BY <1>1, <1>2, <1>4, AcceptedMemory
  <2>2. DeliveryIsBound' /\ RefusedForCause'
    BY <1>1, <1>2, <1>4, DeliveredAnswer
  <2> QED
    BY <2>1, <2>2 DEF ProviderInv
<1>5. CASE VerifiesProof(h, n) /\ ~ accepted /\ UNCHANGED owed
             /\ Answer("threw", h, b, NoReceipt)
  <2>1. ~ NamedAsIssued(h, b)
    <3>1. ~ n.says.quotable
      BY <1>5
    <3>2. NamedAsIssued(h, b) => n.says = AsIssued(n.of)
      BY <1>2, ResolvedAsIssued
    <3> QED
      BY <3>1, <3>2 DEF AsIssued
  <2>2. DeliveryIsBound' /\ RefusedForCause'
    BY <1>2, <1>5, <2>1, RefusedAnswer
  <2> QED
    BY <1>3, <1>5, <2>2 DEF ProviderInv
<1>6. CASE ~ VerifiesProof(h, n) /\ UNCHANGED owed /\ Answer("refused", h, b, NoReceipt)
  <2>1. DeliveryIsBound' /\ RefusedForCause'
    BY <1>2, <1>6, RefusedAnswer
  <2> QED
    BY <1>3, <1>6, <2>1 DEF ProviderInv
<1> QED
  BY <1>1, <1>4, <1>5, <1>6

(***************************************************************************)
(* Every step keeps the invariant.                                         *)
(***************************************************************************)
LEMMA ProviderStep == ProviderInv /\ [Next]_vars => ProviderInv'
<1> SUFFICES ASSUME ProviderInv, [Next]_vars PROVE ProviderInv'
  OBVIOUS
<1> USE DEF ProviderInv
<1>1. ASSUME NEW path \in Paths \cup {Report}, DebugChallengeRoute(path) PROVE ProviderInv'
  <2> DEFINE ch == DebugChallenge(path, now)
  <2>1. Made(ch)
    BY DEF Memory, Made, DebugChallenge, ProviderChallenge
  <2>2. /\ RememberIssued({ch}) /\ held' = held \cup {ch} /\ owed' = owed \cup {ch}
        /\ UNCHANGED <<now, reply>>
    BY <1>1 DEF DebugChallengeRoute, HandOut
  <2> HIDE DEF ch
  <2>3. Memory'
    BY <2>1, <2>2, HandedOutMemory
  <2> QED
    BY <2>2, <2>3, SilentStep
<1>2. CASE AttackFixtureRoute
  <2>1. Made(ProviderChallenge("original", Report, now))
    BY DEF Memory, Made, ProviderChallenge
  <2>2. Memory'
    BY <1>2, <2>1 DEF AttackFixtureRoute, Memory, Made, Faithful, AsIssued, ExpiresAt, Terms
  <2> QED
    BY <1>2, <2>2, SilentStep DEF AttackFixtureRoute
<1>3. ASSUME NEW h \in Headers, PaidReportDelivers(h) PROVE ProviderInv'
  <2> DEFINE n == Resolve(h, NoBody)
  <2>1. /\ VerifiesProof(h, n) /\ RememberResolved(h, NoBody) /\ owed' = owed \cup {n.of}
        /\ Answer("delivered", h, NoBody, ServiceReceipt(h, n)) /\ UNCHANGED <<now, held>>
    BY <1>3 DEF PaidReportDelivers
  <2>2. Memory'
    BY <2>1, AcceptedMemory
  <2> QED
    BY <2>1, <2>2, DeliveredAnswer
<1>4. ASSUME NEW h \in Headers, PaidReportChallenges(h) PROVE ProviderInv'
  <2> DEFINE new == ProviderChallenge("issued", Report, now)
  <2>1. /\ ~ VerifiesProof(h, Resolve(h, NoBody)) /\ Answer("refused", h, NoBody, NoReceipt)
        /\ RememberIssued(Rebuilt(h) \cup {new})
        /\ held' = held \cup {new} /\ owed' = owed \cup {new} /\ UNCHANGED now
    BY <1>4 DEF PaidReportChallenges
  <2>2. Made(new)
    BY DEF Memory, Made, ProviderChallenge
  <2> HIDE DEF new
  <2>3. Memory'
    BY <2>1, <2>2, HandedOutMemory
  <2> QED
    BY <2>1, <2>3, RefusedAnswer
<1>5. ASSUME NEW h \in Headers, NEW b \in Bodies, VerifyPayment(h, b) PROVE ProviderInv'
  BY <1>5, JudgePaymentStep DEF VerifyPayment
<1>6. ASSUME NEW h \in Headers, NEW b \in Bodies, GatewayPayment(h, b) PROVE ProviderInv'
  BY <1>6, JudgePaymentStep DEF GatewayPayment
<1>7. ASSUME NEW h \in Headers, NEW b \in Bodies, InternalError(h, b) PROVE ProviderInv'
  <2>1. /\ Throws(h, b) /\ Answer("threw", h, b, NoReceipt) /\ UNCHANGED <<now, held, owed>>
        /\ RememberBody(b) \/ UNCHANGED <<issued, retold>>
    BY <1>7 DEF InternalError
  <2>2. DOMAIN issued \subseteq DOMAIN issued' /\ Faithful'
    BY <2>1, RememberBodyFacts DEF Memory, Faithful, AsIssued, ExpiresAt, Terms
  <2>3. Memory'
    BY <2>1, <2>2 DEF Memory, Made
  <2>4. ~ (h.signed /\ Named(h, b))
    BY <2>1, SignedIsHeld DEF Throws, FromBody, Named
  <2> QED
    BY <2>1, <2>3, <2>4, RefusedAnswer
<1>8. CASE Tick
  <2>1. Memory'
    BY <1>8 DEF Tick, Memory, Made, Faithful, AsIssued, ExpiresAt, Terms
  <2> QED
    BY <1>8, <2>1, SilentStep DEF Tick
<1>9. CASE Restart
  <2>1. Memory'
    BY <1>9 DEF Restart, Memory, Made, Faithful
  <2> QED
    BY <1>9, <2>1, SilentStep DEF Restart
<1>10. CASE UNCHANGED vars
  <2>1. Memory'
    BY <1>10 DEF vars, Memory, Made, Faithful, AsIssued, ExpiresAt, Terms
  <2> QED
    BY <1>10, <2>1, SilentStep DEF vars
<1> QED
  BY <1>1, <1>2, <1>3, <1>4, <1>5, <1>6, <1>7, <1>8, <1>9, <1>10 DEF Next

LEMMA ProviderInit == Init => ProviderInv
BY DEF Init, ProviderInv, Memory, Faithful, DeliveryIsBound, RefusedForCause, NoReply

(***************************************************************************)
(* A delivery is for the hash and amount its proof was signed for, and for *)
(* the issued resource and in time unless a client described the challenge *)
(* otherwise.                                                              *)
(***************************************************************************)
THEOREM ProviderDeliveryIsBound == Spec => []DeliveryIsBound
<1>1. ProviderInv => DeliveryIsBound
  BY DEF ProviderInv
<1> QED
  BY <1>1, ProviderInit, ProviderStep, PTL DEF Spec

(***************************************************************************)
(* Only lateness refuses a client that the process knows, unless a client  *)
(* described the challenge otherwise.                                      *)
(***************************************************************************)
THEOREM ProviderRefusedForCause == Spec => []RefusedForCause
<1>1. ProviderInv => RefusedForCause
  BY DEF ProviderInv
<1> QED
  BY <1>1, ProviderInit, ProviderStep, PTL DEF Spec
=============================================================================
