---------------------------- MODULE MC_CoinSelect -----------------------------
(***************************************************************************)
(* Checks coin selection over every small input: every subset of four      *)
(* outputs as the cached map, every payment amount up to the total and     *)
(* every fee rate in FeeRates.  The state is just the current input: it    *)
(* starts with the empty map and the action moves to any other input.      *)
(***************************************************************************)
EXTENDS CoinSelect

CONSTANTS Payments, FeeRates, o1, o2, o3, o4

\* Four outputs totalling 12; at fee rate 2 the outputs worth 1 are worth
\* less than the fee their own input weight adds.
MCAmount == o1 :> 1 @@ o2 :> 1 @@ o3 :> 2 @@ o4 :> 8
\* Payment amounts from zero to the total; fee rates up to 2 per weight.
MCPayments == 0..12
MCFeeRates == 0..2
MCPositivePayments == 1..12
\* Fee rates whose fee, weight times rate, passes the signed width: with
\* AmountBits = 5 amounts run to 15, so a fee of 3 * 6 = 18 reads as -14.
\* It is the int64 wrap at 2^63 scaled down to the amounts of this model.
MCWideFeeRates == {1, 6}

VARIABLES cset, amt, rate

vars == <<cset, amt, rate>>

Init ==
  /\ cset = {}
  /\ amt  = CHOOSE a \in Payments : \A b \in Payments : a <= b
  /\ rate = CHOOSE f \in FeeRates : \A g \in FeeRates : f <= g

PickInput ==
  /\ cset' \in SUBSET Outputs
  /\ amt'  \in Payments
  /\ rate' \in FeeRates
  /\ vars' # vars

Spec == Init /\ [][PickInput]_vars

(***************************************************************************)
(* Reference: what a greedy pass may return, stated without any order.     *)
(* It succeeds exactly when the map is non-empty and covers the amount,    *)
(* and then returns a set S that covers it while S minus its last element  *)
(* does not (a singleton is always a possible first pick).                 *)
(***************************************************************************)
GreedyReference(need, C) ==
  IF C = {} \/ SumOf(C) < need
  THEN {[ok |-> FALSE, inputs |-> {}, total |-> SumOf(C)]}
  ELSE {[ok |-> TRUE, inputs |-> S, total |-> SumOf(S)] :
          S \in {S \in SUBSET C :
                   /\ S # {}
                   /\ SumOf(S) >= need
                   /\ \E x \in S : S = {x} \/ SumOf(S \ {x}) < need}}

\* selectInputs, under every iteration order of the map, returns exactly
\* the greedy selections of the reference (tx.go selectInputs loop).
GreedyMatchesReference ==
  selectInputsOutcomes(amt, cset) = GreedyReference(amt, cset)

\* Spec I3 and section 8: whatever order the map is iterated in, a
\* selection that coinSelect returns pays the amount, the fee and the
\* change exactly, the change is not negative, and the fee is the weight
\* of (inputs, payee, change) times the rate.
SelectionCoversPaymentAndFee ==
  \A r \in coinSelect(rate, amt, cset) :
    r.status = "ok" =>
      /\ SumOf(r.inputs) = amt + r.fee + r.change
      /\ r.change >= 0
      /\ r.fee = Weight(Cardinality(r.inputs)) * rate

\* The fee loop of coinSelect (for {} around selectInputs) ends within one
\* more round than there are cached outputs, whatever order each round
\* iterates the map in.
FeeLoopTerminates ==
  \A r \in coinSelect(rate, amt, cset) : r.rounds <= Cardinality(cset) + 1

\* The change and payment outputs of a selection coinSelect returns never
\* exceed its inputs: requiredFee (tx.go 245, uint64 weight times the fee
\* rate converted to btcutil.Amount) is never a negative amount.
OutputsWithinInputs ==
  \A r \in coinSelect(rate, amt, cset) :
    r.status = "ok" => amt + r.change <= SumOf(r.inputs)

\* coinSelect reports insufficient funds only when no set of cached
\* outputs could pay the amount and its own fee.
InsufficientFundsIsGenuine ==
  (\E r \in coinSelect(rate, amt, cset) : r.status = "insufficient") =>
    ~ \E S \in SUBSET cset :
        S # {} /\ SumOf(S) >= amt + Weight(Cardinality(S)) * rate

=============================================================================
