------------------------------ MODULE QuoteLock ------------------------------
(***************************************************************************)
(* The quote, nonce and budget lock of the runtime: the rows that          *)
(* services/runtime/src/guard/quote_lock.ts keeps in SQLite and the        *)
(* statements it runs on them.  The quote id and the nonce are both built  *)
(* from the mission and the provider, so a row is named by that pair: its  *)
(* key.  x402_quotes, payment_contexts, quote_reservations and the ledger  *)
(* row of a key are inserted in one transaction and never deleted.         *)
(***************************************************************************)
EXTENDS MinorUnits

CONSTANTS
  Missions,   \* mission ids
  Providers   \* provider ids

ASSUME QuoteLockAssumption == IsFiniteSet(Missions) /\ IsFiniteSet(Providers)

VARIABLES
  budget,       \* missions.budget_usd, NoMission where there is no row
  quote,        \* x402_quotes.status by key
  reservation,  \* quote_reservations.status by key
  ledger        \* the budget_ledger row of each key

rows == <<budget, quote, reservation, ledger>>

Keys == Missions \X Providers

NoMission == -1

LedgerRows ==
  [type   : {"none", "reserve", "spend"},
   status : {"none", "pending", "posted", "void"},
   amount : Nat]

NoLedgerRow == [type |-> "none", status |-> "none", amount |-> 0]

QuoteLockTypeOK ==
  /\ budget \in [Missions -> Nat \cup {NoMission}]
  /\ quote \in [Keys -> {"none", "reserved", "spent"}]
  /\ reservation \in [Keys -> {"none", "reserved", "spent", "released", "disputed"}]
  /\ ledger \in [Keys -> LedgerRows]

QuoteLockInit ==
  /\ budget = [m \in Missions |-> NoMission]
  /\ quote = [k \in Keys |-> "none"]
  /\ reservation = [k \in Keys |-> "none"]
  /\ ledger = [k \in Keys |-> NoLedgerRow]

(***************************************************************************)
(* getLedgerExposureUsd: what a mission has spent or holds reserved.       *)
(***************************************************************************)
ExposedKeys(m) ==
  {k \in Keys : /\ k[1] = m
                /\ ledger[k].type \in {"reserve", "spend"}
                /\ ledger[k].status \in {"pending", "posted"}}

HeldAmounts == [k \in Keys |-> ledger[k].amount]

Exposure(m) == Total(HeldAmounts, ExposedKeys(m))

(***************************************************************************)
(* ensureMission: the upsert overwrites the budget of an existing mission. *)
(***************************************************************************)
EnsureMission(m, b) == budget' = [budget EXCEPT ![m] = b]

(***************************************************************************)
(* reserveQuoteAndBudget, one IMMEDIATE transaction.  A refusal is a       *)
(* return value, so the transaction commits and the upsert of the mission  *)
(* stays.                                                                  *)
(***************************************************************************)
FitsBudgetBefore(m, a, l) == Exposure(m) <= l  \* mutation: leaves out the new amount

FitsBudget(m, a, l) == Exposure(m) + a <= l

IsFree(k) == quote[k] = "none" \/ reservation[k] = "released"  \* mutation: retries

IsUnspent(k) == quote[k] # "spent"  \* mutation: a payment in flight is not seen

IsUnused(k) == quote[k] = "none"

ReserveQuoteAndBudget(k, a, l) ==
  /\ FitsBudget(k[1], a, l)
  /\ IsUnused(k)
  /\ EnsureMission(k[1], l)
  /\ quote' = [quote EXCEPT ![k] = "reserved"]
  /\ reservation' = [reservation EXCEPT ![k] = "reserved"]
  /\ ledger' = [ledger EXCEPT ![k] = [type |-> "reserve", status |-> "pending", amount |-> a]]

RefuseReservation(k, a, l) ==
  /\ ~ FitsBudget(k[1], a, l) \/ ~ IsUnused(k)
  /\ EnsureMission(k[1], l)
  /\ UNCHANGED <<quote, reservation, ledger>>

(***************************************************************************)
(* The statements of markReservationSpent, releaseReservationBudget and    *)
(* markReservationDisputed; each commits on its own.  Both updates of the  *)
(* ledger apply only where entry_type is 'reserve'.                        *)
(***************************************************************************)
SetReservation(k, status) ==
  /\ reservation' = [reservation EXCEPT ![k] = status]
  /\ UNCHANGED <<budget, quote, ledger>>

SpendQuoteAsPosted(k) ==  \* mutation: the status of another table
  /\ quote' = [quote EXCEPT ![k] = "posted"]
  /\ UNCHANGED <<budget, reservation, ledger>>

SpendQuote(k) ==
  /\ quote' = [quote EXCEPT ![k] = "spent"]
  /\ UNCHANGED <<budget, reservation, ledger>>

SettleLedger(k, entry, status) ==
  /\ ledger' = [ledger EXCEPT ![k] =
       IF ledger[k].type = "reserve"
         THEN [type |-> entry, status |-> status, amount |-> ledger[k].amount]
         ELSE ledger[k]]
  /\ UNCHANGED <<budget, quote, reservation>>

SpendNoLedger(k) == SettleLedger(k, "spend", "pending")  \* mutation: is not posted

SpendLedger(k) == SettleLedger(k, "spend", "posted")

DeleteLedger(k) ==  \* mutation: deletes the row instead of voiding it
  /\ ledger' = [ledger EXCEPT ![k] = NoLedgerRow]
  /\ UNCHANGED <<budget, quote, reservation>>

VoidLedger(k) == SettleLedger(k, "reserve", "void")
-----------------------------------------------------------------------------
(***************************************************************************)
(* The rows of a quote, and the combinations the code may leave them in.   *)
(***************************************************************************)
RowsOf(k) == <<reservation[k], quote[k], ledger[k].type, ledger[k].status>>

Unused         == <<"none",     "none",     "none",    "none">>
Reserved       == <<"reserved", "reserved", "reserve", "pending">>
HalfSpent      == <<"spent",    "reserved", "reserve", "pending">>
Unposted       == <<"spent",    "spent",    "reserve", "pending">>
Spent          == <<"spent",    "spent",    "spend",   "posted">>
HalfReleased   == <<"released", "reserved", "reserve", "pending">>
Released       == <<"released", "reserved", "reserve", "void">>
Disputed       == <<"disputed", "reserved", "reserve", "pending">>
DisputedSpent  == <<"disputed", "spent",    "spend",   "posted">>

(***************************************************************************)
(* The promise of the lock, read from the rows.  The ledger row decides:   *)
(* a quote is released when its ledger row is void and spent when it is    *)
(* posted; the reservation row adds whether the payment is disputed.       *)
(***************************************************************************)
Stage(k) ==
  IF ledger[k].type = "none" THEN "free"
  ELSE IF reservation[k] = "disputed" THEN "disputed"
  ELSE IF ledger[k].status = "void" THEN "released"
  ELSE IF ledger[k].status = "posted" THEN "spent"
  ELSE "held"

Stages == [k \in Keys |-> Stage(k)]

Exposures == [m \in Missions |-> Exposure(m)]
=============================================================================
