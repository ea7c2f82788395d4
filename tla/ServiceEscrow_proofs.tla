------------------------- MODULE ServiceEscrow_proofs -------------------------
(***************************************************************************)
(* Theorems about ServiceEscrow, for any hashes, addresses and amounts and *)
(* any nesting of refunds.  What makes them inductive is that every        *)
(* snapshot a revert may bring back is as good as the current state, and   *)
(* that the current state only goes forward from the outermost one.        *)
(***************************************************************************)
EXTENDS ServiceEscrow, FiniteSetTheorems, SequenceTheorems, TLAPS

(***************************************************************************)
(* Sums of the amounts of escrows: one more escrow adds its amount.        *)
(***************************************************************************)
LEMMA HashesFinite == \A S \in SUBSET Hashes : IsFiniteSet(S)
BY ServiceEscrowAssumption, FS_Subset

LEMMA UnitsOfEscrow ==
  ASSUME NEW amt \in [Hashes -> Nat], NEW h \in Hashes
  PROVE  IsFiniteSet(UnitsOf(amt, h)) /\ Cardinality(UnitsOf(amt, h)) = amt[h]
<1>1. IsFiniteSet({h}) /\ Cardinality({h}) = 1
  BY FS_Singleton
<1>2. amt[h] \in Nat
  OBVIOUS
<1>3. IsFiniteSet(1..amt[h]) /\ Cardinality(1..amt[h]) = amt[h]
  BY <1>2, FS_Interval
<1>4. /\ IsFiniteSet({h} \X (1..amt[h]))
      /\ Cardinality({h} \X (1..amt[h])) = Cardinality({h}) * Cardinality(1..amt[h])
  BY <1>1, <1>3, FS_Product
<1>5. 1 * amt[h] = amt[h]
  BY <1>2
<1> QED BY <1>1, <1>3, <1>4, <1>5 DEF UnitsOf

LEMMA UnitsOfEscrows ==
  ASSUME NEW amt \in [Hashes -> Nat], NEW S \in SUBSET Hashes
  PROVE  IsFiniteSet(AllUnits(amt, S)) /\ Total(amt, S) \in Nat
<1> DEFINE T == {UnitsOf(amt, h) : h \in S}
           f == [h \in S |-> UnitsOf(amt, h)]
<1>1. f \in Surjection(S, T) /\ \A U \in T : IsFiniteSet(U)
  BY UnitsOfEscrow DEF Surjection
<1>2. IsFiniteSet(UNION T)
  <2> HIDE DEF T, f
  <2> QED BY <1>1, HashesFinite, FS_Surjection, FS_UNION
<1> QED BY <1>2, FS_CardinalityType DEF AllUnits, Total

LEMMA TotalWithEscrow ==
  ASSUME NEW amt \in [Hashes -> Nat], NEW S \in SUBSET Hashes, NEW h \in Hashes \ S
  PROVE  Total(amt, S \cup {h}) = Total(amt, S) + amt[h]
<1> DEFINE A == AllUnits(amt, S)
           B == UnitsOf(amt, h)
<1>1. AllUnits(amt, S \cup {h}) = A \cup B
  BY DEF AllUnits
<1>2. IsFiniteSet(A) /\ IsFiniteSet(B) /\ Cardinality(B) = amt[h]
  BY UnitsOfEscrows, UnitsOfEscrow
<1>3. A \cap B = {}
  BY DEF AllUnits, UnitsOf
<1> HIDE DEF A, B
<1>4. Cardinality(A \cup B) = Cardinality(A) + Cardinality(B) - Cardinality(A \cap B)
  BY <1>2, FS_Union
<1>5. Cardinality(A) \in Nat /\ Cardinality(B) \in Nat /\ Cardinality(A \cap B) = 0
  BY <1>2, <1>3, FS_CardinalityType, FS_EmptySet
<1>6. Cardinality(A \cup B) = Cardinality(A) + amt[h]
  BY <1>2, <1>4, <1>5
<1> QED BY <1>1, <1>6 DEF Total, A

(***************************************************************************)
(* A sum depends only on the amounts of its escrows.                       *)
(***************************************************************************)
LEMMA TotalAgrees ==
  ASSUME NEW S, NEW amt, NEW bmt, \A h \in S : amt[h] = bmt[h]
  PROVE  Total(amt, S) = Total(bmt, S)
<1>1. \A h \in S : UnitsOf(amt, h) = UnitsOf(bmt, h)
  BY DEF UnitsOf
<1>2. AllUnits(amt, S) = AllUnits(bmt, S)
  BY <1>1 DEF AllUnits
<1> QED BY <1>2 DEF Total
-----------------------------------------------------------------------------

(***************************************************************************)
(* A state of the contract whose books balance.                            *)
(***************************************************************************)
BooksBalance(f) ==
  /\ f.balance = Total(f.amount, Held(f.state))
  /\ \A h \in Hashes : f.paidBack[h] = IF f.state[h] = "Refunded" THEN f.amount[h] ELSE 0

Good(f) == f \in Snapshots /\ PartiesKnown(f) /\ BooksBalance(f)

(***************************************************************************)
(* From f to g no escrow went back or changed its terms.                   *)
(***************************************************************************)
Forward(f, g) ==
  \A h \in Hashes :
    f.state[h] # "Empty" =>
      /\ g.state[h] # "Empty"
      /\ f.state[h] # "Funded" => g.state[h] = f.state[h]
      /\ g.payer[h] = f.payer[h] /\ g.provider[h] = f.provider[h] /\ g.amount[h] = f.amount[h]

EscrowInv ==
  /\ Good(Frame)
  /\ stack \in Seq(Snapshots)
  /\ \A i \in 1..Len(stack) : Good(stack[i])
  /\ \A i \in 1..Len(stack) : Forward(stack[1], stack[i])
  /\ stack # <<>> => Forward(stack[1], Frame)

(***************************************************************************)
(* The escrows that hold value are finitely many.                          *)
(***************************************************************************)
LEMMA HeldFinite ==
  ASSUME NEW s PROVE Held(s) \in SUBSET Hashes /\ IsFiniteSet(Held(s))
<1>1. Held(s) \in SUBSET Hashes
  BY DEF Held
<1> QED BY <1>1, HashesFinite

(***************************************************************************)
(* fund adds its value to the balance and to what is held.                 *)
(***************************************************************************)
LEMMA FundKeepsBooks ==
  ASSUME Good(Frame), NEW h \in Hashes, NEW sender \in Addresses,
         NEW p \in Addresses \cup {NoAddress}, NEW a \in Amounts, NEW value \in Amounts,
         Fund(h, sender, p, a, value)
  PROVE  Good(Frame)' /\ Forward(Frame, Frame')
<1>1. /\ state \in [Hashes -> {"Empty", "Funded", "Delivered", "Refunded"}]
      /\ payer \in [Hashes -> Addresses \cup {NoAddress}]
      /\ provider \in [Hashes -> Addresses \cup {NoAddress}]
      /\ amount \in [Hashes -> Nat]
      /\ balance \in Nat
      /\ paidBack \in [Hashes -> Nat]
      /\ \A g \in Hashes : state[g] # "Empty" => payer[g] # NoAddress /\ provider[g] # NoAddress
      /\ balance = Total(amount, Held(state))
      /\ \A g \in Hashes : paidBack[g] = IF state[g] = "Refunded" THEN amount[g] ELSE 0
  BY DEF Good, Frame, Snapshots, PartiesKnown, BooksBalance
<1>2. /\ state' = [state EXCEPT ![h] = "Funded"]
      /\ amount' = [amount EXCEPT ![h] = a]
      /\ payer' = [payer EXCEPT ![h] = sender]
      /\ provider' = [provider EXCEPT ![h] = p]
      /\ balance' = balance + a
      /\ paidBack' = paidBack
      /\ state[h] = "Empty" /\ p # NoAddress /\ sender # NoAddress /\ a \in Nat
  BY ServiceEscrowAssumption DEF Fund
<1>3. Held(state') = Held(state) \cup {h} /\ h \notin Held(state)
  BY <1>1, <1>2 DEF Held
<1>4. amount' \in [Hashes -> Nat]
  BY <1>1, <1>2
<1>5. \A g \in Held(state) : amount[g] = amount'[g]
  BY <1>1, <1>2, <1>3, HeldFinite
<1>6. Total(amount, Held(state)) = Total(amount', Held(state))
  BY <1>5, TotalAgrees
<1>7. Total(amount', Held(state) \cup {h}) = Total(amount', Held(state)) + amount'[h]
  BY <1>3, <1>4, HeldFinite, TotalWithEscrow
<1>8. balance' = Total(amount', Held(state'))
  BY <1>1, <1>2, <1>3, <1>6, <1>7
<1>9. /\ Frame.state = state /\ Frame.payer = payer /\ Frame.provider = provider
      /\ Frame.amount = amount
  BY DEF Frame
<1>10. /\ Frame' = [state |-> state', payer |-> payer', provider |-> provider', amount |-> amount',
                    balance |-> balance', paidBack |-> paidBack']
  BY DEF Frame
<1>11. Frame' \in Snapshots
  BY <1>1, <1>2, <1>4, <1>10 DEF Snapshots
<1>12. PartiesKnown(Frame')
  BY <1>1, <1>2, <1>10 DEF PartiesKnown
<1>13. BooksBalance(Frame')
  BY <1>1, <1>2, <1>8, <1>10 DEF BooksBalance
<1>14. Forward(Frame, Frame')
  BY <1>1, <1>2, <1>9, <1>10 DEF Forward
<1> QED BY <1>11, <1>12, <1>13, <1>14 DEF Good, Frame, PartiesKnown, BooksBalance, Snapshots, Held

(***************************************************************************)
(* deliver changes neither the balance nor what is held.                   *)
(***************************************************************************)
LEMMA DeliverKeepsBooks ==
  ASSUME Good(Frame), NEW h \in Hashes, NEW sender \in Addresses, Deliver(h, sender)
  PROVE  Good(Frame)' /\ Forward(Frame, Frame')
<1>1. /\ state \in [Hashes -> {"Empty", "Funded", "Delivered", "Refunded"}]
      /\ balance = Total(amount, Held(state))
      /\ state[h] = "Funded"
      /\ state' = [state EXCEPT ![h] = "Delivered"]
      /\ payer' = payer /\ provider' = provider /\ amount' = amount
      /\ balance' = balance /\ paidBack' = paidBack
  BY DEF Good, Frame, Snapshots, BooksBalance, Deliver
<1>2. Held(state') = Held(state)
  BY <1>1 DEF Held
<1>3. balance' = Total(amount', Held(state'))
  BY <1>1, <1>2
<1>4. Frame' = [state |-> state', payer |-> payer, provider |-> provider, amount |-> amount,
                balance |-> balance, paidBack |-> paidBack]
  BY <1>1 DEF Frame
<1>5. Frame' \in Snapshots /\ PartiesKnown(Frame')
  BY <1>1, <1>4 DEF Good, Frame, Snapshots, PartiesKnown
<1>6. BooksBalance(Frame')
  BY <1>1, <1>3, <1>4 DEF Good, Frame, BooksBalance
<1>7. Forward(Frame, Frame')
  BY <1>1, <1>4 DEF Frame, Forward
<1> QED BY <1>5, <1>6, <1>7 DEF Good, Frame, PartiesKnown, BooksBalance, Snapshots, Held

(***************************************************************************)
(* refund takes off the balance what is no longer held.                    *)
(***************************************************************************)
LEMMA RefundKeepsBooks ==
  ASSUME Good(Frame), NEW h \in Hashes, NEW sender \in Addresses, Refund(h, sender)
  PROVE  Good(Frame)' /\ Forward(Frame, Frame')
<1>1. /\ state \in [Hashes -> {"Empty", "Funded", "Delivered", "Refunded"}]
      /\ amount \in [Hashes -> Nat]
      /\ balance \in Nat
      /\ paidBack \in [Hashes -> Nat]
      /\ balance = Total(amount, Held(state))
      /\ \A g \in Hashes : paidBack[g] = IF state[g] = "Refunded" THEN amount[g] ELSE 0
  BY DEF Good, Frame, Snapshots, BooksBalance
<1>2. /\ state[h] = "Funded" /\ amount[h] <= balance
      /\ state' = [state EXCEPT ![h] = "Refunded"]
      /\ payer' = payer /\ provider' = provider /\ amount' = amount
      /\ balance' = balance - amount[h]
      /\ paidBack' = [paidBack EXCEPT ![h] = paidBack[h] + amount[h]]
  BY DEF Refund
<1>3. Held(state) = Held(state') \cup {h} /\ h \notin Held(state')
  BY <1>1, <1>2 DEF Held
<1>4. Total(amount, Held(state') \cup {h}) = Total(amount, Held(state')) + amount[h]
  BY <1>1, <1>3, HeldFinite, TotalWithEscrow
<1>5. Total(amount, Held(state')) \in Nat /\ amount[h] \in Nat
  BY <1>1, HeldFinite, UnitsOfEscrows
<1>6. balance' = Total(amount', Held(state')) /\ balance' \in Nat
  <2>1. balance = Total(amount, Held(state')) + amount[h]
    BY <1>1, <1>3, <1>4
  <2> QED BY <1>2, <1>5, <2>1
<1>7. Frame' = [state |-> state', payer |-> payer, provider |-> provider, amount |-> amount,
                balance |-> balance', paidBack |-> paidBack']
  BY <1>2 DEF Frame
<1>8. Frame' \in Snapshots /\ PartiesKnown(Frame')
  BY <1>1, <1>2, <1>6, <1>7 DEF Good, Frame, Snapshots, PartiesKnown
<1>9. BooksBalance(Frame')
  <2>1. \A g \in Hashes :
          paidBack'[g] = IF state'[g] = "Refunded" THEN amount[g] ELSE 0
    BY <1>1, <1>2
  <2>2. balance' = Total(amount, Held(state'))
    BY <1>2, <1>6
  <2> QED BY <1>7, <2>1, <2>2 DEF BooksBalance
<1>10. Forward(Frame, Frame')
  BY <1>1, <1>2, <1>7 DEF Frame, Forward
<1> QED BY <1>8, <1>9, <1>10 DEF Good, Frame, PartiesKnown, BooksBalance, Snapshots, Held

(***************************************************************************)
(* Going forward twice is going forward.                                   *)
(***************************************************************************)
LEMMA ForwardTwice ==
  ASSUME NEW e, NEW f, NEW g, Forward(e, f), Forward(f, g)
  PROVE  Forward(e, g)
BY DEF Forward

(***************************************************************************)
(* The sequence without its last element.                                  *)
(***************************************************************************)
LEMMA PopProperties ==
  ASSUME NEW S, NEW s \in Seq(S), s # <<>>
  PROVE  /\ Pop(s) \in Seq(S)
         /\ Len(Pop(s)) = Len(s) - 1
         /\ \A i \in 1..Len(Pop(s)) : Pop(s)[i] = s[i]
<1>1. PICK n \in Nat : n = Len(s)
  BY LenProperties
<1>2. n # 0 /\ \A i \in 1..n : s[i] \in S
  BY <1>1, EmptySeq, ElementOfSeq
<1>3. n - 1 \in Nat /\ \A i \in 1..(n - 1) : s[i] \in S
  BY <1>2
<1>4. /\ SubSeq(s, 1, n - 1) \in Seq(S)
      /\ Len(SubSeq(s, 1, n - 1)) = IF 1 <= n - 1 THEN (n - 1) - 1 + 1 ELSE 0
      /\ \A i \in 1..((n - 1) - 1 + 1) : SubSeq(s, 1, n - 1)[i] = s[1 + i - 1]
  <2> HIDE <1>1
  <2> QED BY <1>3, SubSeqProperties
<1>5. Len(SubSeq(s, 1, n - 1)) = n - 1
  BY <1>3, <1>4
<1>6. ASSUME NEW i \in 1..(n - 1) PROVE SubSeq(s, 1, n - 1)[i] = s[i]
  <2>1. i \in 1..((n - 1) - 1 + 1) /\ 1 + i - 1 = i
    BY <1>3
  <2> QED BY <1>4, <2>1
<1> QED BY <1>1, <1>4, <1>5, <1>6 DEF Pop

(***************************************************************************)
(* The empty contract.                                                     *)
(***************************************************************************)
LEMMA InitEscrowInv == Init => EscrowInv
<1> SUFFICES ASSUME Init PROVE EscrowInv
  OBVIOUS
<1>1. Held(state) = {}
  BY DEF Init, Held
<1>2. AllUnits(amount, {}) = {}
  BY DEF AllUnits
<1>3. balance = Total(amount, Held(state))
  BY <1>1, <1>2, FS_EmptySet DEF Init, Total
<1>4. Good(Frame)
  BY <1>3 DEF Init, Good, Frame, Snapshots, PartiesKnown, BooksBalance
<1> QED BY <1>4 DEF Init, EscrowInv

(***************************************************************************)
(* Every step keeps the invariant.                                         *)
(***************************************************************************)
LEMMA EscrowInvStep == EscrowInv /\ [Next]_vars => EscrowInv'
<1> SUFFICES ASSUME EscrowInv, [Next]_vars PROVE EscrowInv'
  OBVIOUS
<1> USE DEF EscrowInv
<1>1. ASSUME NEW h \in Hashes, NEW sender \in Addresses,
             NEW p \in Addresses \cup {NoAddress}, NEW a \in Amounts, NEW value \in Amounts,
             Fund(h, sender, p, a, value)
      PROVE  EscrowInv'
  <2>1. Good(Frame)' /\ Forward(Frame, Frame')
    BY <1>1, FundKeepsBooks
  <2>2. stack' = stack
    BY <1>1 DEF Fund
  <2>3. stack # <<>> => Forward(stack[1], Frame')
    BY <2>1, ForwardTwice
  <2> QED BY <2>1, <2>2, <2>3
<1>2. ASSUME NEW h \in Hashes, NEW sender \in Addresses, Deliver(h, sender)
      PROVE  EscrowInv'
  <2>1. Good(Frame)' /\ Forward(Frame, Frame')
    BY <1>2, DeliverKeepsBooks
  <2>2. stack' = stack
    BY <1>2 DEF Deliver
  <2>3. stack # <<>> => Forward(stack[1], Frame')
    BY <2>1, ForwardTwice
  <2> QED BY <2>1, <2>2, <2>3
<1>3. ASSUME NEW h \in Hashes, NEW sender \in Addresses, Refund(h, sender)
      PROVE  EscrowInv'
  <2>1. Good(Frame)' /\ Forward(Frame, Frame')
    BY <1>3, RefundKeepsBooks
  <2>2. stack' = Append(stack, Frame) /\ Frame \in Snapshots
    BY <1>3 DEF Refund, Good
  <2>3. /\ stack' \in Seq(Snapshots) /\ Len(stack') = Len(stack) + 1 /\ Len(stack) \in Nat
        /\ \A i \in 1..Len(stack) : stack'[i] = stack[i]
        /\ stack'[Len(stack) + 1] = Frame
    BY <2>2, AppendProperties, LenProperties
  <2>4. \A i \in 1..Len(stack') : Good(stack'[i])
    BY <2>3
  <2>5. Forward(Frame, Frame)
    BY DEF Forward
  <2>6. stack = <<>> <=> Len(stack) = 0
    BY EmptySeq
  <2>7. CASE stack = <<>>
    <3>1. stack'[1] = Frame /\ Len(stack') = 1
      BY <2>3, <2>6, <2>7
    <3>2. \A i \in 1..Len(stack') : Forward(stack'[1], stack'[i])
      BY <2>5, <3>1
    <3> QED BY <2>1, <2>3, <2>4, <3>1, <3>2
  <2>8. CASE stack # <<>>
    <3>1. stack'[1] = stack[1] /\ Forward(stack[1], Frame)
      BY <2>3, <2>6, <2>8
    <3>2. \A i \in 1..Len(stack') : Forward(stack'[1], stack'[i])
      BY <2>3, <3>1
    <3>3. Forward(stack'[1], Frame')
      BY <2>1, <3>1, ForwardTwice
    <3> QED BY <2>1, <2>3, <2>4, <3>2, <3>3
  <2> QED BY <2>7, <2>8
<1>4. ASSUME stack # <<>>, stack' = Pop(stack)
      PROVE  /\ stack' \in Seq(Snapshots)
             /\ \A i \in 1..Len(stack') : Good(stack'[i])
             /\ \A i \in 1..Len(stack') : Forward(stack'[1], stack'[i])
             /\ stack' # <<>> => stack'[1] = stack[1]
             /\ Len(stack) \in 1..Len(stack)
  <2>1. /\ stack' \in Seq(Snapshots) /\ Len(stack') = Len(stack) - 1
        /\ \A i \in 1..Len(stack') : stack'[i] = stack[i]
    BY <1>4, PopProperties
  <2>2. Len(stack) \in Nat /\ Len(stack) # 0 /\ (stack' = <<>> <=> Len(stack') = 0)
    BY <1>4, <2>1, EmptySeq, LenProperties
  <2>3. 1..Len(stack') \subseteq 1..Len(stack)
    BY <2>1, <2>2
  <2>4. stack' # <<>> => stack'[1] = stack[1]
    BY <2>1, <2>2
  <2>5. \A i \in 1..Len(stack') : Good(stack'[i])
    BY <2>1, <2>3
  <2>6. \A i \in 1..Len(stack') : Forward(stack'[1], stack'[i])
    <3>1. \A i \in 1..Len(stack') : stack'[1] = stack[1]
      BY <2>1, <2>2
    <3> QED BY <2>1, <2>3, <3>1
  <2> QED BY <2>1, <2>2, <2>4, <2>5, <2>6
<1>5. CASE RefundReturns
  <2>1. stack # <<>> /\ stack' = Pop(stack) /\ Frame' = Frame
    BY <1>5 DEF RefundReturns, escrows, Frame
  <2>2. Good(Frame)'
    BY <1>5 DEF RefundReturns, escrows, Good, Frame, Snapshots, PartiesKnown, BooksBalance, Held
  <2> QED BY <1>4, <2>1, <2>2
<1>6. CASE RefundReverts
  <2>1. stack # <<>> /\ stack' = Pop(stack)
    BY <1>6 DEF RefundReverts
  <2>2. PICK f : f = stack[Len(stack)]
    OBVIOUS
  <2>3. f \in Snapshots /\ Good(f) /\ Forward(stack[1], f)
    BY <1>4, <2>1, <2>2 DEF Good
  <2>4. Frame' = f
    BY <1>6, <2>2, <2>3 DEF RefundReverts, Frame, Snapshots
  <2>5. Good(Frame)'
    BY <2>3, <2>4
  <2> QED BY <1>4, <2>1, <2>3, <2>4, <2>5
<1>7. CASE UNCHANGED vars
  <2>1. Frame' = Frame /\ stack' = stack
    BY <1>7 DEF vars, escrows, Frame
  <2> QED BY <2>1
<1> QED BY <1>1, <1>2, <1>3, <1>5, <1>6, <1>7 DEF Next

(***************************************************************************)
(* The inductive invariant: the books balance in the current state and in  *)
(* every snapshot, and the current state is forward of the outermost one.  *)
(***************************************************************************)
THEOREM EscrowInvariant == Spec => []EscrowInv
BY InitEscrowInv, EscrowInvStep, PTL DEF Spec

(***************************************************************************)
(* Every reachable state, and every one a revert may bring back, is well   *)
(* typed and knows the parties of each funded escrow.                      *)
(***************************************************************************)
THEOREM EscrowTypeCorrect == Spec => []TypeOK
<1>1. EscrowInv => TypeOK
  BY DEF EscrowInv, Good, TypeOK
<1> QED BY <1>1, EscrowInvariant, PTL

(***************************************************************************)
(* The balance is what was funded and not refunded.                        *)
(***************************************************************************)
THEOREM EscrowSolvent == Spec => []Solvent
<1>1. EscrowInv => Solvent
  BY DEF EscrowInv, Good, BooksBalance, Frame, Solvent
<1> QED BY <1>1, EscrowInvariant, PTL

(***************************************************************************)
(* A refund pays its payer the amount of the escrow, once.                 *)
(***************************************************************************)
THEOREM EscrowPaidBackOnce == Spec => []PaidBackOnce
<1>1. EscrowInv => PaidBackOnce
  BY DEF EscrowInv, Good, BooksBalance, Frame, PaidBackOnce
<1> QED BY <1>1, EscrowInvariant, PTL
-----------------------------------------------------------------------------
(***************************************************************************)
(* What the completed transactions left.                                   *)
(***************************************************************************)
Bottom == IF stack = <<>> THEN Frame ELSE stack[1]

(***************************************************************************)
(* A step completes at most one transaction, and that one goes forward.    *)
(***************************************************************************)
LEMMA BottomGoesForward ==
  ASSUME EscrowInv, EscrowInv', Next
  PROVE  Forward(Bottom, Bottom')
<1> USE DEF EscrowInv
<1>1. Forward(Bottom, Bottom)
  BY DEF Forward
<1>2. ASSUME NEW h \in Hashes, NEW sender \in Addresses,
             NEW p \in Addresses \cup {NoAddress}, NEW a \in Amounts, NEW value \in Amounts,
             Fund(h, sender, p, a, value)
      PROVE  Forward(Bottom, Bottom')
  <2>1. Forward(Frame, Frame') /\ stack' = stack
    BY <1>2, FundKeepsBooks DEF Fund
  <2> QED BY <1>1, <2>1 DEF Bottom
<1>3. ASSUME NEW h \in Hashes, NEW sender \in Addresses, Deliver(h, sender)
      PROVE  Forward(Bottom, Bottom')
  <2>1. Forward(Frame, Frame') /\ stack' = stack
    BY <1>3, DeliverKeepsBooks DEF Deliver
  <2> QED BY <1>1, <2>1 DEF Bottom
<1>4. ASSUME NEW h \in Hashes, NEW sender \in Addresses, Refund(h, sender)
      PROVE  Forward(Bottom, Bottom')
  <2>1. stack' = Append(stack, Frame) /\ Frame \in Snapshots
    BY <1>4 DEF Refund, Good
  <2>2. /\ stack' # <<>> /\ Len(stack) \in Nat
        /\ \A i \in 1..Len(stack) : stack'[i] = stack[i]
        /\ stack'[Len(stack) + 1] = Frame
    BY <2>1, AppendProperties, LenProperties
  <2>3. stack = <<>> <=> Len(stack) = 0
    BY EmptySeq
  <2>4. Bottom' = Bottom
    BY <2>2, <2>3 DEF Bottom
  <2> QED BY <1>1, <2>4
<1>5. ASSUME stack # <<>>, stack' = Pop(stack)
      PROVE  /\ stack' # <<>> => stack'[1] = stack[1]
             /\ stack' = <<>> => Len(stack) = 1
  <2>1. /\ stack' \in Seq(Snapshots) /\ Len(stack') = Len(stack) - 1
        /\ \A i \in 1..Len(stack') : stack'[i] = stack[i]
    BY <1>5, PopProperties
  <2>2. /\ Len(stack) \in Nat /\ Len(stack') \in Nat
        /\ (stack' = <<>> <=> Len(stack') = 0)
    BY <2>1, EmptySeq, LenProperties
  <2> QED BY <2>1, <2>2
<1>6. CASE RefundReturns
  <2>1. stack # <<>> /\ stack' = Pop(stack) /\ Frame' = Frame
    BY <1>6 DEF RefundReturns, escrows, Frame
  <2> QED BY <1>1, <1>5, <2>1 DEF Bottom
<1>7. CASE RefundReverts
  <2>1. stack # <<>> /\ stack' = Pop(stack)
    BY <1>7 DEF RefundReverts
  <2>2. PICK f : f = stack[Len(stack)]
    OBVIOUS
  <2>3. Len(stack) \in Nat /\ Len(stack) # 0
    BY <2>1, EmptySeq, LenProperties
  <2>4. f \in Snapshots
    BY <2>2, <2>3 DEF Good
  <2>5. Frame' = f
    BY <1>7, <2>2, <2>4 DEF RefundReverts, Frame, Snapshots
  <2> QED BY <1>1, <1>5, <2>1, <2>2, <2>5 DEF Bottom
<1> QED BY <1>2, <1>3, <1>4, <1>6, <1>7 DEF Next

(***************************************************************************)
(* Completed transactions leave delivered and refunded escrows as they     *)
(* are, and the terms of a funded one.                                     *)
(***************************************************************************)
THEOREM EscrowFinality == Spec => DeliveredAndRefundedAreFinal
<1>1. ASSUME EscrowInv, EscrowInv', [Next]_vars
      PROVE  [CommittedStep]_vars
  <2>1. CASE Next
    <3>1. Forward(Bottom, Bottom')
      BY <1>1, <2>1, BottomGoesForward
    <3>2. \A h \in Hashes :
            /\ Bottom.state[h] = CommittedState(h)
            /\ <<Bottom.payer[h], Bottom.provider[h], Bottom.amount[h]>> = CommittedTerms(h)
      BY DEF Bottom, Frame, CommittedState, CommittedTerms
    <3>3. \A h \in Hashes :
            /\ Bottom'.state[h] = CommittedState(h)'
            /\ <<Bottom'.payer[h], Bottom'.provider[h], Bottom'.amount[h]>> = CommittedTerms(h)'
      BY DEF Bottom, Frame, CommittedState, CommittedTerms
    <3>4. ASSUME NEW h \in Hashes, CommittedState(h) # "Empty"
          PROVE  /\ CommittedTerms(h)' = CommittedTerms(h)
                 /\ CommittedState(h)' # "Empty"
                 /\ CommittedState(h) # "Funded" => CommittedState(h)' = CommittedState(h)
      <4>1. Bottom.state[h] # "Empty"
        BY <3>2, <3>4
      <4> QED BY <3>1, <3>2, <3>3, <4>1 DEF Forward
    <3> QED BY <3>4 DEF CommittedStep
  <2>2. CASE UNCHANGED vars
    BY <2>2
  <2> QED BY <1>1, <2>1, <2>2
<1> QED BY <1>1, EscrowInvariant, PTL DEF Spec, DeliveredAndRefundedAreFinal
=============================================================================
