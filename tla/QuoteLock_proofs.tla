-------------------------- MODULE QuoteLock_proofs ---------------------------
(***************************************************************************)
(* Facts about sums of ledger amounts, and what each statement of the lock *)
(* does to the stage of its quote and to the exposure of its mission.      *)
(***************************************************************************)
EXTENDS QuoteLock, FiniteSetTheorems, TLAPS

(***************************************************************************)
(* The units of one row: finitely many, as many as its amount.             *)
(***************************************************************************)
LEMMA UnitsOfOneRow ==
  ASSUME NEW D, NEW amt \in [D -> Nat], NEW k \in D
  PROVE  /\ IsFiniteSet(UnitsOf(amt, k))
         /\ Cardinality(UnitsOf(amt, k)) = amt[k]
<1>1. IsFiniteSet({k}) /\ Cardinality({k}) = 1
  BY FS_Singleton
<1>2. amt[k] \in Nat
  OBVIOUS
<1>3. IsFiniteSet(1..amt[k]) /\ Cardinality(1..amt[k]) = amt[k]
  BY <1>2, FS_Interval
<1>4. /\ IsFiniteSet({k} \X (1..amt[k]))
      /\ Cardinality({k} \X (1..amt[k])) = Cardinality({k}) * Cardinality(1..amt[k])
  BY <1>1, <1>3, FS_Product
<1>5. 1 * amt[k] = amt[k]
  BY <1>2
<1> QED BY <1>1, <1>3, <1>4, <1>5 DEF UnitsOf

(***************************************************************************)
(* The units of finitely many rows are finitely many.                      *)
(***************************************************************************)
LEMMA AllUnitsFinite ==
  ASSUME NEW D, NEW amt \in [D -> Nat], NEW S \in SUBSET D, IsFiniteSet(S)
  PROVE  IsFiniteSet(AllUnits(amt, S))
<1> DEFINE T == {UnitsOf(amt, k) : k \in S}
           f == [k \in S |-> UnitsOf(amt, k)]
<1>1. f \in Surjection(S, T)
  BY DEF Surjection
<1>2. IsFiniteSet(T)
  <2> HIDE DEF T, f
  <2> QED BY <1>1, FS_Surjection
<1>3. \A U \in T : IsFiniteSet(U)
  BY UnitsOfOneRow
<1>4. IsFiniteSet(UNION T)
  <2> HIDE DEF T
  <2> QED BY <1>2, <1>3, FS_UNION
<1> QED BY <1>4 DEF AllUnits

LEMMA TotalType ==
  ASSUME NEW D, NEW amt \in [D -> Nat], NEW S \in SUBSET D, IsFiniteSet(S)
  PROVE  Total(amt, S) \in Nat
BY AllUnitsFinite, FS_CardinalityType DEF Total

(***************************************************************************)
(* A sum depends only on the amounts of its rows.                          *)
(***************************************************************************)
LEMMA TotalAgrees ==
  ASSUME NEW S, NEW amt, NEW bmt, \A k \in S : amt[k] = bmt[k]
  PROVE  Total(amt, S) = Total(bmt, S)
<1>1. \A k \in S : UnitsOf(amt, k) = UnitsOf(bmt, k)
  BY DEF UnitsOf
<1>2. AllUnits(amt, S) = AllUnits(bmt, S)
  BY <1>1 DEF AllUnits
<1> QED BY <1>2 DEF Total

(***************************************************************************)
(* One more row adds its amount.                                           *)
(***************************************************************************)
LEMMA TotalWithRow ==
  ASSUME NEW D, NEW amt \in [D -> Nat], NEW S \in SUBSET D, IsFiniteSet(S),
         NEW k \in D, k \notin S
  PROVE  Total(amt, S \cup {k}) = Total(amt, S) + amt[k]
<1> DEFINE A == AllUnits(amt, S)
           B == UnitsOf(amt, k)
<1>1. AllUnits(amt, S \cup {k}) = A \cup B
  BY DEF AllUnits
<1>2. IsFiniteSet(A) /\ IsFiniteSet(B) /\ Cardinality(B) = amt[k]
  BY AllUnitsFinite, UnitsOfOneRow
<1>3. A \cap B = {}
  BY DEF AllUnits, UnitsOf
<1> HIDE DEF A, B
<1>4. Cardinality(A \cup B) = Cardinality(A) + Cardinality(B) - Cardinality(A \cap B)
  BY <1>2, FS_Union
<1>5. Cardinality(A) \in Nat /\ Cardinality(B) \in Nat /\ Cardinality(A \cap B) = 0
  BY <1>2, <1>3, FS_CardinalityType, FS_EmptySet
<1>6. Cardinality(A \cup B) = Cardinality(A) + amt[k]
  BY <1>2, <1>4, <1>5
<1> QED BY <1>1, <1>6 DEF Total, A
-----------------------------------------------------------------------------
LEMMA KeysFinite == IsFiniteSet(Keys)
BY QuoteLockAssumption, FS_Product DEF Keys

LEMMA ExposedKeysFinite ==
  ASSUME NEW m
  PROVE  ExposedKeys(m) \in SUBSET Keys /\ IsFiniteSet(ExposedKeys(m))
<1>1. ExposedKeys(m) \in SUBSET Keys
  BY DEF ExposedKeys
<1> QED BY <1>1, KeysFinite, FS_Subset

LEMMA HeldAmountsType == QuoteLockTypeOK => HeldAmounts \in [Keys -> Nat]
BY DEF QuoteLockTypeOK, LedgerRows, HeldAmounts

LEMMA ExposureType ==
  ASSUME QuoteLockTypeOK, NEW m
  PROVE  Exposure(m) \in Nat
BY HeldAmountsType, ExposedKeysFinite, TotalType DEF Exposure

LEMMA ExposureTypeNext ==
  ASSUME QuoteLockTypeOK', NEW m
  PROVE  Exposure(m)' \in Nat
<1>1. HeldAmounts' \in [Keys -> Nat]
  BY DEF QuoteLockTypeOK, LedgerRows, HeldAmounts
<1>2. ExposedKeys(m)' \in SUBSET Keys
  BY DEF ExposedKeys
<1>3. IsFiniteSet(ExposedKeys(m)')
  BY <1>2, KeysFinite, FS_Subset
<1>4. Exposure(m)' = Total(HeldAmounts', ExposedKeys(m)')
  BY DEF Exposure
<1> QED BY <1>1, <1>2, <1>3, <1>4, TotalType

(***************************************************************************)
(* Reserving adds the new amount to the exposure of its mission only.      *)
(***************************************************************************)
LEMMA ReserveExposure ==
  ASSUME QuoteLockTypeOK, NEW k \in Keys, NEW a \in Nat, NEW l,
         ReserveQuoteAndBudget(k, a, l), RowsOf(k) = Unused, NEW m \in Missions
  PROVE  Exposure(m)' = IF m = k[1] THEN Exposure(m) + a ELSE Exposure(m)
<1> DEFINE S == ExposedKeys(m)
           H == HeldAmounts
           G == HeldAmounts'
<1>1. ledger' = [ledger EXCEPT ![k] = [type |-> "reserve", status |-> "pending", amount |-> a]]
  BY DEF ReserveQuoteAndBudget
<1>2. ledger[k].type = "none"
  BY DEF RowsOf, Unused
<1>3. H \in [Keys -> Nat]
  BY HeldAmountsType
<1>4. G = [H EXCEPT ![k] = a]
  BY <1>1 DEF QuoteLockTypeOK, HeldAmounts
<1>5. ExposedKeys(m)' = IF m = k[1] THEN S \cup {k} ELSE S
  BY <1>1, <1>2 DEF ExposedKeys, QuoteLockTypeOK
<1>6. S \in SUBSET Keys /\ IsFiniteSet(S) /\ k \notin S
  BY <1>2, ExposedKeysFinite DEF ExposedKeys
<1>7. Exposure(m)' = Total(G, ExposedKeys(m)') /\ Exposure(m) = Total(H, S)
  BY DEF Exposure
<1> HIDE DEF S, H, G
<1>8. G \in [Keys -> Nat] /\ G[k] = a /\ \A j \in S : G[j] = H[j]
  BY <1>3, <1>4, <1>6
<1>9. Total(G, S) = Total(H, S)
  BY <1>8, TotalAgrees
<1>10. Total(G, S \cup {k}) = Total(G, S) + a
  BY <1>6, <1>8, TotalWithRow
<1> QED BY <1>5, <1>7, <1>9, <1>10

(***************************************************************************)
(* Posting a row keeps every exposure; voiding it takes its amount off the *)
(* exposure of its mission only.                                           *)
(***************************************************************************)
LEMMA PostKeepsExposure ==
  ASSUME QuoteLockTypeOK, NEW k \in Keys, SpendLedger(k), RowsOf(k) = Unposted, NEW m \in Missions
  PROVE  Exposure(m)' = Exposure(m)
<1>1. ledger[k].type = "reserve" /\ ledger[k].status = "pending"
  BY DEF RowsOf, Unposted
<1>2. \A j \in Keys : ledger'[j].amount = ledger[j].amount
  BY DEF QuoteLockTypeOK, SpendLedger, SettleLedger
<1>3. ExposedKeys(m)' = ExposedKeys(m)
  BY <1>1 DEF QuoteLockTypeOK, SpendLedger, SettleLedger, ExposedKeys
<1>4. HeldAmounts' = HeldAmounts
  BY <1>2 DEF HeldAmounts
<1> QED BY <1>3, <1>4 DEF Exposure

LEMMA VoidExposure ==
  ASSUME QuoteLockTypeOK, NEW k \in Keys, VoidLedger(k), RowsOf(k) = HalfReleased,
         NEW m \in Missions
  PROVE  /\ Exposure(m)' = IF m = k[1] THEN Exposure(m) - HeldAmounts[k] ELSE Exposure(m)
         /\ Exposure(m)' <= Exposure(m)
<1> DEFINE S == ExposedKeys(m)'
           H == HeldAmounts
<1>1. ledger[k].type = "reserve" /\ ledger[k].status = "pending"
  BY DEF RowsOf, HalfReleased
<1>2. \A j \in Keys : ledger'[j].amount = ledger[j].amount
  BY DEF QuoteLockTypeOK, VoidLedger, SettleLedger
<1>3. /\ S \in SUBSET Keys /\ k \notin S
      /\ ExposedKeys(m) = IF m = k[1] THEN S \cup {k} ELSE S
  BY <1>1 DEF QuoteLockTypeOK, VoidLedger, SettleLedger, ExposedKeys
<1>4. HeldAmounts' = HeldAmounts
  BY <1>2 DEF HeldAmounts
<1>5. Exposure(m)' = Total(H, S) /\ Exposure(m) = Total(H, ExposedKeys(m))
  BY <1>4 DEF Exposure
<1>6. H \in [Keys -> Nat] /\ IsFiniteSet(S)
  BY <1>3, HeldAmountsType, KeysFinite, FS_Subset
<1> HIDE DEF S, H
<1>7. Total(H, S) \in Nat /\ H[k] \in Nat
  BY <1>3, <1>6, TotalType
<1>8. Total(H, S \cup {k}) = Total(H, S) + H[k]
  BY <1>3, <1>6, TotalWithRow
<1>9. Exposure(m) = IF m = k[1] THEN Total(H, S) + H[k] ELSE Total(H, S)
  BY <1>3, <1>5, <1>8
<1>10. /\ Exposure(m)' = IF m = k[1] THEN Exposure(m) - H[k] ELSE Exposure(m)
       /\ Exposure(m)' <= Exposure(m)
  BY <1>5, <1>7, <1>9
<1> QED BY <1>10 DEF H
-----------------------------------------------------------------------------
(***************************************************************************)
(* Each statement as a step of the abstract lock, or none: reserving an    *)
(* unused quote holds it, posting an unposted one spends it, voiding one   *)
(* that is half released gives it back.                                    *)
(***************************************************************************)
LEMMA ReservingHolds ==
  ASSUME QuoteLockTypeOK, NEW k \in Keys, NEW a \in Nat, NEW l,
         ReserveQuoteAndBudget(k, a, l), RowsOf(k) = Unused
  PROVE  /\ Stages[k] = "free"
         /\ Exposures[k[1]] + a <= l
         /\ Stages' = [Stages EXCEPT ![k] = "held"]
         /\ HeldAmounts' = [HeldAmounts EXCEPT ![k] = a]
         /\ Exposures' = [Exposures EXCEPT ![k[1]] = @ + a]
         /\ budget' = [budget EXCEPT ![k[1]] = l]
<1>1. /\ ledger' = [ledger EXCEPT ![k] = [type |-> "reserve", status |-> "pending", amount |-> a]]
      /\ reservation' = [reservation EXCEPT ![k] = "reserved"]
      /\ budget' = [budget EXCEPT ![k[1]] = l]
      /\ Exposure(k[1]) + a <= l
  BY DEF ReserveQuoteAndBudget, EnsureMission, FitsBudget
<1>2. ledger[k].type = "none"
  BY DEF RowsOf, Unused
<1>3. reservation'[k] = "reserved" /\ ledger'[k].type = "reserve" /\ ledger'[k].status = "pending"
  BY <1>1 DEF QuoteLockTypeOK
<1>4. Stage(k) = "free" /\ Stage(k)' = "held"
  BY <1>2, <1>3 DEF Stage
<1>5. \A j \in Keys \ {k} : Stage(j)' = Stage(j)
  BY <1>1 DEF Stage, QuoteLockTypeOK
<1>6. Stages[k] = "free" /\ Stages' = [Stages EXCEPT ![k] = "held"]
  BY <1>4, <1>5 DEF Stages
<1>7. HeldAmounts' = [HeldAmounts EXCEPT ![k] = a]
  BY <1>1 DEF QuoteLockTypeOK, HeldAmounts
<1>8. \A m \in Missions : Exposure(m)' = IF m = k[1] THEN Exposure(m) + a ELSE Exposure(m)
  BY ReserveExposure
<1>9. k[1] \in Missions
  BY DEF Keys
<1>10. Exposures[k[1]] + a <= l /\ Exposures' = [Exposures EXCEPT ![k[1]] = @ + a]
  BY <1>1, <1>8, <1>9 DEF Exposures
<1> QED BY <1>1, <1>6, <1>7, <1>10

LEMMA PostingSpends ==
  ASSUME QuoteLockTypeOK, NEW k \in Keys, SpendLedger(k), RowsOf(k) = Unposted
  PROVE  /\ Stages[k] = "held"
         /\ Stages' = [Stages EXCEPT ![k] = "spent"]
         /\ UNCHANGED <<budget, HeldAmounts, Exposures>>
<1>1. reservation[k] = "spent" /\ ledger[k].type = "reserve" /\ ledger[k].status = "pending"
  BY DEF RowsOf, Unposted
<1>2. /\ reservation' = reservation /\ budget' = budget
      /\ ledger'[k].type = "spend" /\ ledger'[k].status = "posted"
      /\ \A j \in Keys \ {k} : ledger'[j] = ledger[j]
      /\ \A j \in Keys : ledger'[j].amount = ledger[j].amount
  BY <1>1 DEF SpendLedger, SettleLedger, QuoteLockTypeOK
<1>3. Stage(k) = "held" /\ Stage(k)' = "spent" /\ \A j \in Keys \ {k} : Stage(j)' = Stage(j)
  BY <1>1, <1>2 DEF Stage
<1>4. HeldAmounts' = HeldAmounts
  BY <1>2 DEF HeldAmounts
<1>5. Exposures' = Exposures
  BY PostKeepsExposure DEF Exposures
<1> QED BY <1>2, <1>3, <1>4, <1>5 DEF Stages

LEMMA VoidingGivesBack ==
  ASSUME QuoteLockTypeOK, NEW k \in Keys, VoidLedger(k), RowsOf(k) = HalfReleased
  PROVE  /\ Stages[k] = "held"
         /\ Stages' = [Stages EXCEPT ![k] = "released"]
         /\ Exposures' = [Exposures EXCEPT ![k[1]] = @ - HeldAmounts[k]]
         /\ UNCHANGED <<budget, HeldAmounts>>
<1>1. reservation[k] = "released" /\ ledger[k].type = "reserve" /\ ledger[k].status = "pending"
  BY DEF RowsOf, HalfReleased
<1>2. /\ reservation' = reservation /\ budget' = budget
      /\ ledger'[k].type = "reserve" /\ ledger'[k].status = "void"
      /\ \A j \in Keys \ {k} : ledger'[j] = ledger[j]
      /\ \A j \in Keys : ledger'[j].amount = ledger[j].amount
  BY <1>1 DEF VoidLedger, SettleLedger, QuoteLockTypeOK
<1>3. Stage(k) = "held" /\ Stage(k)' = "released" /\ \A j \in Keys \ {k} : Stage(j)' = Stage(j)
  BY <1>1, <1>2 DEF Stage
<1>4. HeldAmounts' = HeldAmounts
  BY <1>2 DEF HeldAmounts
<1>5. Exposures' = [Exposures EXCEPT ![k[1]] = @ - HeldAmounts[k]]
  <2>1. \A m \in Missions :
          Exposure(m)' = IF m = k[1] THEN Exposure(m) - HeldAmounts[k] ELSE Exposure(m)
    BY VoidExposure
  <2> HIDE DEF HeldAmounts
  <2> QED BY <2>1 DEF Exposures
<1> QED BY <1>2, <1>3, <1>4, <1>5 DEF Stages

(***************************************************************************)
(* Disputing a quote contests it, and any other update of its reservation  *)
(* says nothing that the ledger does not say.                              *)
(***************************************************************************)
LEMMA LedgerKeepsExposures ==
  ASSUME UNCHANGED ledger
  PROVE  UNCHANGED <<HeldAmounts, Exposures>>
<1>1. HeldAmounts' = HeldAmounts /\ \A m : ExposedKeys(m)' = ExposedKeys(m)
  BY DEF HeldAmounts, ExposedKeys
<1> QED BY <1>1 DEF Exposures, Exposure

LEMMA DisputingContests ==
  ASSUME QuoteLockTypeOK, NEW k \in Keys, SetReservation(k, "disputed"),
         RowsOf(k) \in {Reserved, Spent}
  PROVE  /\ Stages[k] \in {"held", "spent"}
         /\ Stages' = [Stages EXCEPT ![k] = "disputed"]
         /\ UNCHANGED <<budget, HeldAmounts, Exposures>>
<1>1. /\ reservation[k] # "disputed"
      /\ \/ ledger[k].type = "reserve" /\ ledger[k].status = "pending"
         \/ ledger[k].type = "spend" /\ ledger[k].status = "posted"
  BY DEF RowsOf, Reserved, Spent
<1>2. /\ ledger' = ledger /\ budget' = budget /\ reservation'[k] = "disputed"
      /\ \A j \in Keys \ {k} : reservation'[j] = reservation[j]
  BY DEF SetReservation, QuoteLockTypeOK
<1>3. /\ Stage(k) \in {"held", "spent"} /\ Stage(k)' = "disputed"
      /\ \A j \in Keys \ {k} : Stage(j)' = Stage(j)
  BY <1>1, <1>2 DEF Stage
<1> QED BY <1>2, <1>3, LedgerKeepsExposures DEF Stages

LEMMA MarkingIsSilent ==
  ASSUME QuoteLockTypeOK, NEW k \in Keys, NEW status \in {"spent", "released"},
         SetReservation(k, status), RowsOf(k) = Reserved
  PROVE  UNCHANGED <<budget, Stages, HeldAmounts, Exposures>>
<1>1. /\ reservation[k] = "reserved" /\ reservation'[k] = status
      /\ \A j \in Keys \ {k} : reservation'[j] = reservation[j]
      /\ ledger' = ledger /\ budget' = budget
  BY DEF SetReservation, QuoteLockTypeOK, RowsOf, Reserved
<1>2. \A j \in Keys : Stage(j)' = Stage(j)
  BY <1>1 DEF Stage
<1> QED BY <1>1, <1>2, LedgerKeepsExposures DEF Stages

LEMMA UntouchedIsSilent ==
  ASSUME UNCHANGED <<reservation, ledger>>
  PROVE  UNCHANGED <<Stages, HeldAmounts, Exposures>>
<1>1. \A j \in Keys : Stage(j)' = Stage(j)
  BY DEF Stage
<1> QED BY <1>1, LedgerKeepsExposures DEF Stages

LEMMA InitialLock ==
  ASSUME QuoteLockInit
  PROVE  /\ budget = [m \in Missions |-> -1]
         /\ Stages = [k \in Keys |-> "free"]
         /\ HeldAmounts = [k \in Keys |-> 0]
         /\ Exposures = [m \in Missions |-> 0]
<1>1. \A k \in Keys : Stage(k) = "free" /\ ledger[k].amount = 0
  BY DEF QuoteLockInit, NoLedgerRow, Stage
<1>2. ASSUME NEW m \in Missions PROVE Exposure(m) = 0
  <2>1. ExposedKeys(m) = {}
    BY DEF QuoteLockInit, NoLedgerRow, ExposedKeys
  <2>2. AllUnits(HeldAmounts, ExposedKeys(m)) = {}
    BY <2>1 DEF AllUnits
  <2> QED BY <2>2, FS_EmptySet DEF Exposure, Total
<1> QED BY <1>1, <1>2 DEF QuoteLockInit, NoMission, Stages, HeldAmounts, Exposures
=============================================================================
