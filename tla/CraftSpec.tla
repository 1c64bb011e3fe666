------------------------------ MODULE CraftSpec ------------------------------
(***************************************************************************)
(* What transaction crafting promises its callers, as the spec states it   *)
(* (sections 4.4, 6 and 8), with each craft one atomic step: a returned    *)
(* transaction spends a non-empty set of the wallet's outputs that pays    *)
(* the amount, the fee for its own weight, and the change exactly, and it  *)
(* reserves its inputs until broadcast (the spec's double-spend freedom):  *)
(* they are unspent at the node and no input of a transaction pending.     *)
(* The node confirms new outputs and accepts a broadcast transaction       *)
(* exactly when all of its inputs are unspent.                             *)
(***************************************************************************)
EXTENDS CoinSelect

CONSTANTS
  InitialUnspent,  \* outputs confirmed and unspent at start
  Payments,        \* amounts a caller may request
  FeeRates         \* fee rates a caller may pass

VARIABLES nodeUnspent, nodeSpent, txs

avars == <<nodeUnspent, nodeSpent, txs>>

WalletOutputs == nodeUnspent \cup nodeSpent

\* Inputs of the transactions returned and not yet broadcast.
Reserved == UNION {txs[i].inputs : i \in {j \in DOMAIN txs : txs[j].state = "pending"}}

Spendable == nodeUnspent \ Reserved

Craft ==
  /\ \E a \in Payments, f \in FeeRates, S \in SUBSET Spendable \ {{}} :
       LET fee == requiredFee(Cardinality(S), f)
       IN  /\ SumOf(S) >= a + fee
           /\ txs' = Append(txs, [inputs |-> S, amt |-> a, fee |-> fee,
                                  change |-> SumOf(S) - a - fee,
                                  state |-> "pending"])
  /\ UNCHANGED <<nodeUnspent, nodeSpent>>

Confirm ==
  /\ \E o \in Outputs \ WalletOutputs : nodeUnspent' = nodeUnspent \cup {o}
  /\ UNCHANGED <<nodeSpent, txs>>

Broadcast ==
  \E i \in DOMAIN txs :
    /\ txs[i].state = "pending"
    /\ IF txs[i].inputs \subseteq nodeUnspent
       THEN /\ nodeUnspent' = nodeUnspent \ txs[i].inputs
            /\ nodeSpent' = nodeSpent \cup txs[i].inputs
            /\ txs' = [txs EXCEPT ![i].state = "sent"]
       ELSE /\ txs' = [txs EXCEPT ![i].state = "rejected"]
            /\ UNCHANGED <<nodeUnspent, nodeSpent>>

Init ==
  /\ nodeUnspent = InitialUnspent
  /\ nodeSpent = {}
  /\ txs = <<>>

Next == Craft \/ Confirm \/ Broadcast

Spec == Init /\ [][Next]_avars

=============================================================================
