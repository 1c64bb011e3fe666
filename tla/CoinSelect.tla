------------------------------ MODULE CoinSelect ------------------------------
(***************************************************************************)
(* Coin selection of the bitcoind connector (src/bitcoind/tx.go):          *)
(*   - selectInputs: greedy accumulation of cached unspent outputs in the  *)
(*     iteration order of a Go map until the running sum reaches the       *)
(*     needed amount;                                                      *)
(*   - the P2PKH weight estimate and the fee derived from it;              *)
(*   - coinSelect: the loop that re-runs selectInputs with the payment     *)
(*     amount plus the last estimated fee until the overshoot pays the     *)
(*     fee.                                                                *)
(* Go randomises map iteration on every range statement, so each round of  *)
(* selectInputs may see the outputs in any order: selectInputs is given an *)
(* explicit order, and the outcomes of a round are those of every order.   *)
(* Outputs are model values; only their amounts matter here.               *)
(***************************************************************************)
EXTENDS Integers, SequencesExt

CONSTANTS
  Amount,        \* Amount[o]: value of unspent output o, in satoshi
  InputWeight,   \* weight TxWeightEstimator adds per P2PKH input
  OutputWeight,  \* weight TxWeightEstimator adds per P2PKH output
  BaseWeight,    \* weight of the transaction skeleton
  AmountBits     \* width of btcutil.Amount (int64: 64; scaled down for TLC)

ASSUME \A o \in DOMAIN Amount : Amount[o] \in Nat \ {0}
ASSUME {InputWeight, OutputWeight, BaseWeight} \subseteq Nat
ASSUME AmountBits \in Nat \ {0, 1}

Outputs == DOMAIN Amount

\* Total value of a set of outputs.
SumOf(S) == MapThenSumSet(LAMBDA o : Amount[o], S)

\* btcutil.Amount(uint64(x)): wrap to AmountBits bits, read as signed.
ToAmount(x) ==
  LET m == x % (2 ^ AmountBits)
  IN  IF m >= 2 ^ (AmountBits - 1) THEN m - 2 ^ AmountBits ELSE m

\* &ErrInsufficientFunds{amountNeeded, amountAvailable}, as a coinSelect
\* outcome after the given number of selectInputs rounds.
ErrInsufficientFunds(needed, available, rounds) ==
  [status |-> "insufficient", inputs |-> {}, change |-> 0, fee |-> 0,
   rounds |-> rounds, needed |-> needed, available |-> available]

\* Mutant: the loop stops only once the running sum exceeds the amount.
selectInputsStrict(amt, order) ==
  LET RECURSIVE Take(_, _)
      Take(i, sel) ==
        IF i > Len(order)
        THEN [ok |-> FALSE, inputs |-> {}, total |-> SumOf(sel)]
        ELSE LET s == sel \cup {order[i]}
             IN  IF SumOf(s) > amt
                 THEN [ok |-> TRUE, inputs |-> s, total |-> SumOf(s)]
                 ELSE Take(i + 1, s)
  IN  Take(1, {})

(***************************************************************************)
(* selectInputs(amt, inputsMap) for one iteration order of the map.  The   *)
(* result mirrors the Go return values: ok, the selected inputs and the    *)
(* running sum (which is ErrInsufficientFunds.amountAvailable on failure). *)
(***************************************************************************)
selectInputs(amt, order) ==
  LET RECURSIVE Take(_, _)
      Take(i, sel) ==
        IF i > Len(order)
        THEN [ok |-> FALSE, inputs |-> {}, total |-> SumOf(sel)]
        ELSE LET s == sel \cup {order[i]}
             IN  IF SumOf(s) >= amt
                 THEN [ok |-> TRUE, inputs |-> s, total |-> SumOf(s)]
                 ELSE Take(i + 1, s)
  IN  Take(1, {})

\* The results selectInputs can return for the map C: one per order.
selectInputsOutcomes(amt, C) == {selectInputs(amt, order) : order \in SetToSeqs(C)}

\* TxWeightEstimator: one P2PKH input per selected output, one P2PKH
\* output to the payee and one assumed P2PKH change output.
Weight(nInputs) == BaseWeight + nInputs * InputWeight + 2 * OutputWeight

\* requiredFee := btcutil.Amount(uint64(weightEstimate.Weight()) * feeRatePerWeight)
requiredFee(nInputs, rate) == ToAmount(Weight(nInputs) * rate)

\* coinSelect never stops by itself; the model stops a run of rounds past
\* this bound and records it, so that a property can say it never happens.
RoundCutoff(C) == Cardinality(C) + 2

\* Mutant: the overshoot is measured against the escalated amount
\* (totalSat - amtNeeded) instead of the payment amount.
RECURSIVE coinSelectFromNeeded(_, _, _, _, _)
coinSelectFromNeeded(rate, amt, amtNeeded, C, round) ==
  UNION {
    IF ~ r.ok
    THEN {ErrInsufficientFunds(amtNeeded, r.total, round)}
    ELSE LET fee  == requiredFee(Cardinality(r.inputs), rate)
             over == r.total - amtNeeded
         IN  IF over >= fee
             THEN {[status |-> "ok", inputs |-> r.inputs, change |-> over - fee,
                    fee |-> fee, rounds |-> round, needed |-> amtNeeded,
                    available |-> r.total]}
             ELSE IF round >= RoundCutoff(C)
             THEN {[status |-> "cut", inputs |-> {}, change |-> 0, fee |-> 0,
                    rounds |-> round + 1, needed |-> amt + fee, available |-> 0]}
             ELSE coinSelectFromNeeded(rate, amt, amt + fee, C, round + 1)
    : r \in selectInputsOutcomes(amtNeeded, C) }

\* Mutant: a round that does not cover the fee retries without raising
\* amtNeeded.
RECURSIVE coinSelectFromStuck(_, _, _, _, _)
coinSelectFromStuck(rate, amt, amtNeeded, C, round) ==
  UNION {
    IF ~ r.ok
    THEN {ErrInsufficientFunds(amtNeeded, r.total, round)}
    ELSE LET fee  == requiredFee(Cardinality(r.inputs), rate)
             over == r.total - amt
         IN  IF over >= fee
             THEN {[status |-> "ok", inputs |-> r.inputs, change |-> over - fee,
                    fee |-> fee, rounds |-> round, needed |-> amtNeeded,
                    available |-> r.total]}
             ELSE IF round >= RoundCutoff(C)
             THEN {[status |-> "cut", inputs |-> {}, change |-> 0, fee |-> 0,
                    rounds |-> round + 1, needed |-> amtNeeded, available |-> 0]}
             ELSE coinSelectFromStuck(rate, amt, amtNeeded, C, round + 1)
    : r \in selectInputsOutcomes(amtNeeded, C) }

(***************************************************************************)
(* All outcomes of coinSelect(rate, amt, C).  status is "ok", "insufficient"*)
(* (selectInputs failed) or "cut" (rounds past RoundCutoff); rounds counts *)
(* the calls of selectInputs; needed is the amount of the last call.       *)
(***************************************************************************)
RECURSIVE coinSelectFrom(_, _, _, _, _)
coinSelectFrom(rate, amt, amtNeeded, C, round) ==
  UNION {
    IF ~ r.ok
    THEN {ErrInsufficientFunds(amtNeeded, r.total, round)}
    ELSE LET fee  == requiredFee(Cardinality(r.inputs), rate)
             over == r.total - amt
         IN  IF over >= fee
             THEN {[status |-> "ok", inputs |-> r.inputs, change |-> over - fee,
                    fee |-> fee, rounds |-> round, needed |-> amtNeeded,
                    available |-> r.total]}
             ELSE IF round >= RoundCutoff(C)
             THEN {[status |-> "cut", inputs |-> {}, change |-> 0, fee |-> 0,
                    rounds |-> round + 1, needed |-> amt + fee, available |-> 0]}
             ELSE coinSelectFrom(rate, amt, amt + fee, C, round + 1)
    : r \in selectInputsOutcomes(amtNeeded, C) }

coinSelect(rate, amt, C) == coinSelectFrom(rate, amt, amt, C, 1)

=============================================================================
