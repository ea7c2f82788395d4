---------------------------- MODULE ServiceEscrow ----------------------------
(***************************************************************************)
(* contracts/ServiceEscrow.sol: native value held for each payment context *)
(* from fund to deliver or refund.  Transactions run one at a time, but a  *)
(* refund calls its payer, and that code may call the contract again       *)
(* before it returns, to any depth; when it fails, everything since the    *)
(* refund began is undone.  A call that reverts by itself changes nothing  *)
(* and is no step here.  (Value forced into the contract without a call is *)
(* left out: the contract has no function that receives it.)               *)
(***************************************************************************)
EXTENDS MinorUnits, Sequences

CONSTANTS
  Hashes,     \* payment context hashes, the zero hash excluded
  Addresses,  \* accounts and contracts
  NoAddress,  \* the zero address
  Amounts,    \* amounts a caller may name or send
  MaxDepth    \* bound on the refunds in progress, one inside the other

ASSUME ServiceEscrowAssumption ==
  /\ IsFiniteSet(Hashes)
  /\ NoAddress \notin Addresses
  /\ Amounts \subseteq Nat
  /\ MaxDepth \in Nat

VARIABLES
  state,     \* escrows[h].state
  payer,     \* escrows[h].payer
  provider,  \* escrows[h].provider
  amount,    \* escrows[h].amount
  balance,   \* the contract's balance
  paidBack,  \* what refunds of h have paid
  stack      \* for each refund in progress, all of the above before it

escrows == <<state, payer, provider, amount>>
vars == <<escrows, balance, paidBack, stack>>

Init ==
  /\ state = [h \in Hashes |-> "Empty"]
  /\ payer = [h \in Hashes |-> NoAddress]
  /\ provider = [h \in Hashes |-> NoAddress]
  /\ amount = [h \in Hashes |-> 0]
  /\ balance = 0
  /\ paidBack = [h \in Hashes |-> 0]
  /\ stack = <<>>

FundAnyProvider(h, sender, p, a, value) ==  \* mutation: no InvalidProvider
  /\ a # 0 /\ value = a
  /\ state[h] = "Empty"
  /\ payer' = [payer EXCEPT ![h] = sender]
  /\ provider' = [provider EXCEPT ![h] = p]
  /\ amount' = [amount EXCEPT ![h] = a]
  /\ state' = [state EXCEPT ![h] = "Funded"]
  /\ balance' = balance + value
  /\ UNCHANGED <<paidBack, stack>>

FundAnyValue(h, sender, p, a, value) ==  \* mutation: msg.value is not compared
  /\ p # NoAddress
  /\ a # 0
  /\ state[h] = "Empty"
  /\ payer' = [payer EXCEPT ![h] = sender]
  /\ provider' = [provider EXCEPT ![h] = p]
  /\ amount' = [amount EXCEPT ![h] = a]
  /\ state' = [state EXCEPT ![h] = "Funded"]
  /\ balance' = balance + value
  /\ UNCHANGED <<paidBack, stack>>

FundRefunded(h, sender, p, a, value) ==  \* mutation: a refunded hash is empty again
  /\ p # NoAddress
  /\ a # 0 /\ value = a
  /\ state[h] \in {"Empty", "Refunded"}
  /\ payer' = [payer EXCEPT ![h] = sender]
  /\ provider' = [provider EXCEPT ![h] = p]
  /\ amount' = [amount EXCEPT ![h] = a]
  /\ state' = [state EXCEPT ![h] = "Funded"]
  /\ balance' = balance + value
  /\ UNCHANGED <<paidBack, stack>>

Fund(h, sender, p, a, value) ==
  /\ p # NoAddress
  /\ a # 0 /\ value = a
  /\ state[h] = "Empty"
  /\ payer' = [payer EXCEPT ![h] = sender]
  /\ provider' = [provider EXCEPT ![h] = p]
  /\ amount' = [amount EXCEPT ![h] = a]
  /\ state' = [state EXCEPT ![h] = "Funded"]
  /\ balance' = balance + value
  /\ UNCHANGED <<paidBack, stack>>

Deliver(h, sender) ==
  /\ state[h] = "Funded"
  /\ sender = provider[h]
  /\ state' = [state EXCEPT ![h] = "Delivered"]
  /\ UNCHANGED <<payer, provider, amount, balance, paidBack, stack>>

(***************************************************************************)
(* refund up to the call of the payer, which moves the value and starts    *)
(* the payer's code.  A call the balance does not cover fails at once.     *)
(***************************************************************************)
Frame ==
  [state |-> state, payer |-> payer, provider |-> provider, amount |-> amount,
   balance |-> balance, paidBack |-> paidBack]

RefundBeforeState(h, sender) ==  \* mutation: the state is set after the call
  /\ state[h] = "Funded"
  /\ sender = payer[h]
  /\ amount[h] <= balance
  /\ Len(stack) < MaxDepth
  /\ stack' = Append(stack, Frame)
  /\ balance' = balance - amount[h]
  /\ paidBack' = [paidBack EXCEPT ![h] = @ + amount[h]]
  /\ UNCHANGED escrows

Refund(h, sender) ==
  /\ state[h] = "Funded"
  /\ sender = payer[h]
  /\ amount[h] <= balance
  /\ Len(stack) < MaxDepth
  /\ stack' = Append(stack, Frame)
  /\ state' = [state EXCEPT ![h] = "Refunded"]
  /\ balance' = balance - amount[h]
  /\ paidBack' = [paidBack EXCEPT ![h] = @ + amount[h]]
  /\ UNCHANGED <<payer, provider, amount>>

(***************************************************************************)
(* The payer's code returns, or fails and the refund reverts.              *)
(***************************************************************************)
Pop(s) == SubSeq(s, 1, Len(s) - 1)

RefundReturns ==
  /\ stack # <<>>
  /\ stack' = Pop(stack)
  /\ UNCHANGED <<escrows, balance, paidBack>>

RefundReverts ==
  /\ stack # <<>>
  /\ LET f == stack[Len(stack)] IN
       /\ state' = f.state
       /\ payer' = f.payer
       /\ provider' = f.provider
       /\ amount' = f.amount
       /\ balance' = f.balance
       /\ paidBack' = f.paidBack
  /\ stack' = Pop(stack)

Next ==
  \/ \E h \in Hashes, sender \in Addresses :
       \/ \E p \in Addresses \cup {NoAddress}, a \in Amounts, value \in Amounts :
            Fund(h, sender, p, a, value)
       \/ Deliver(h, sender)
       \/ Refund(h, sender)
  \/ RefundReturns
  \/ RefundReverts

Spec == Init /\ [][Next]_vars
-----------------------------------------------------------------------------
(***************************************************************************)
(* Type invariant.  An escrow that was funded has a payer and a provider.  *)
(***************************************************************************)
Snapshots ==
  [state    : [Hashes -> {"Empty", "Funded", "Delivered", "Refunded"}],
   payer    : [Hashes -> Addresses \cup {NoAddress}],
   provider : [Hashes -> Addresses \cup {NoAddress}],
   amount   : [Hashes -> Nat],
   balance  : Nat,
   paidBack : [Hashes -> Nat]]

PartiesKnown(f) ==
  \A h \in Hashes :
    f.state[h] # "Empty" => f.payer[h] # NoAddress /\ f.provider[h] # NoAddress

TypeOK ==
  /\ Frame \in Snapshots /\ PartiesKnown(Frame)
  /\ stack \in Seq(Snapshots)
  /\ \A i \in 1..Len(stack) : PartiesKnown(stack[i])

(***************************************************************************)
(* The contract holds exactly what was funded and not refunded, also while *)
(* refunds are in progress inside one another and after they revert.  What *)
(* was delivered stays in the contract: no function pays a provider.       *)
(***************************************************************************)
Held(s) == {h \in Hashes : s[h] \in {"Funded", "Delivered"}}

Solvent == balance = Total(amount, Held(state))

(***************************************************************************)
(* A payer gets back what it paid for a refunded escrow, once, and nothing *)
(* for any other.                                                          *)
(***************************************************************************)
PaidBackOnce ==
  \A h \in Hashes : paidBack[h] = IF state[h] = "Refunded" THEN amount[h] ELSE 0

(***************************************************************************)
(* What a completed transaction leaves: the state before the outermost     *)
(* refund in progress, or the current one.                                 *)
(***************************************************************************)
CommittedState(h) == IF stack = <<>> THEN state[h] ELSE stack[1].state[h]

CommittedTerms(h) ==
  IF stack = <<>> THEN <<payer[h], provider[h], amount[h]>>
  ELSE <<stack[1].payer[h], stack[1].provider[h], stack[1].amount[h]>>

(***************************************************************************)
(* No transaction, whatever it nests, takes a delivered or refunded escrow *)
(* to another state, empties a funded one, or changes its terms.           *)
(***************************************************************************)
CommittedStep ==
  \A h \in Hashes :
    CommittedState(h) # "Empty" =>
      /\ CommittedTerms(h)' = CommittedTerms(h)
      /\ CommittedState(h)' # "Empty"
      /\ CommittedState(h) # "Funded" => CommittedState(h)' = CommittedState(h)

DeliveredAndRefundedAreFinal == [][CommittedStep]_vars
=============================================================================
