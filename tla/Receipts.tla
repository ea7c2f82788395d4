------------------------------- MODULE Receipts -------------------------------
(***************************************************************************)
(* The service receipt of a payment: what the pipeline writes in it, what  *)
(* the provider signs, and verifyServiceReceipt.  Hashes and HMACs are     *)
(* taken to be injective: a hash is the value hashed.                      *)
(***************************************************************************)
EXTENDS GuardLayers

(***************************************************************************)
(* The pipeline hashes the JSON text of the body; stableBodyHash hashes a  *)
(* body that is text as it is, without its quotes.                         *)
(***************************************************************************)
JsonHash(body) == [json |-> TRUE, of |-> body]

StableBodyHash(body) == [json |-> body.kind # "text", of |-> body]

(***************************************************************************)
(* responseBodyHasExpectedShape and responseBodyExplicitlyDeniesDelivery.  *)
(***************************************************************************)
ShapeKeys == {"verification", "report", "ok", "receipt", "status"}

HasExpectedShape(body) ==
  body.kind = "object" /\ \E f \in body.fields : f[1] \in ShapeKeys

DeniesDelivery(body) ==
  /\ body.kind = "object"
  /\ body.fields \cap {<<"ok", "false">>, <<"status", "denied">>, <<"status", "failed">>,
                       <<"verification.ok", "false">>} # {}

(***************************************************************************)
(* The receipt of input i after the CAW named its evidence ref (None when  *)
(* it has none: the reference then follows from the payment context), and  *)
(* the part of a receipt that the provider signs.                          *)
(***************************************************************************)
Receipt(i, ref) ==
  [context |-> "own",
   providerAddress |-> i.response.address,
   resource |-> i.challenge.resource,
   responseHash |-> JsonHash(i.response.body),
   schema |-> i.response.schema,
   cawEvidenceRef |-> IF ref = None THEN "caw-fallback" ELSE ref,
   fallbackEvidence |-> ref = None,
   status |-> "paid"]

SignedPart(r) ==
  [context |-> r.context,
   responseHash |-> r.responseHash,
   resource |-> r.resource,
   schema |-> r.schema,
   cawEvidenceRef |-> r.cawEvidenceRef,
   fallbackEvidence |-> r.fallbackEvidence,
   status |-> r.status]

SignReceipt(key, r) == [key |-> key, over |-> SignedPart(r)]

SignatureKey(i) ==
  IF i.response.publicKey # None THEN i.response.publicKey ELSE i.entry.publicKey

(***************************************************************************)
(* ensureReceiptBody throws when the response lacks one of these.          *)
(***************************************************************************)
ReceiptAvailable(i) ==
  i.response.body.kind # "none" /\ i.response.signed /\ i.response.address # None

HasRawPii(r) == FoundInUrl(r.resource) # {}

(***************************************************************************)
(* The checks of verifyServiceReceipt that the receipt of the pipeline can *)
(* fail, in their order, and what the first failure says of the delivery.  *)
(***************************************************************************)
Checks(i, r) ==
  << <<"providerAddress", r.providerAddress = i.entry.merchant>>,
     <<"responseHash", r.responseHash = StableBodyHash(i.response.body)>>,
     <<"providerSignature", i.response.signature = SignReceipt(SignatureKey(i), r)>>,
     <<"responseBodyShape", i.response.schema = None \/ HasExpectedShape(i.response.body)>>,
     <<"deliveryNotDenied", ~ DeniesDelivery(i.response.body)>>,
     <<"noRawPii", ~ HasRawPii(r)>> >>

VerifiesUnsigned(i, ref) ==  \* mutation: the signature is not compared
  \A n \in DOMAIN Checks(i, Receipt(i, ref)) :
    n = 3 \/ Checks(i, Receipt(i, ref))[n][2]

VerifiesReceipt(i, ref) ==
  \A n \in DOMAIN Checks(i, Receipt(i, ref)) : Checks(i, Receipt(i, ref))[n][2]

FirstFailed(i, ref) ==
  LET checks == Checks(i, Receipt(i, ref))
      failed == {n \in DOMAIN checks : ~ checks[n][2]} IN
  checks[CHOOSE n \in failed : \A k \in failed : n <= k][1]

ReceiptStatus(i, ref) ==
  IF VerifiesReceipt(i, ref) THEN "delivered"
  ELSE IF /\ DeniesDelivery(i.response.body)
          /\ FirstFailed(i, ref) \in {"deliveryNotDenied", "responseBodyShape"}
    THEN "paid_but_not_delivered"
  ELSE "failed"
=============================================================================
