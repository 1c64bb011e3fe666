CONSTANTS
  o1 = o1
  o2 = o2
  o3 = o3
  o4 = o4
  Amount <- MCAmount
  InputWeight = 1
  OutputWeight = 1
  BaseWeight = 0
  AmountBits = 16
  Payments <- MCPayments
  FeeRates <- MCFeeRates
SPECIFICATION Spec
INVARIANTS
  GreedyMatchesReference
  SelectionCoversPaymentAndFee
  FeeLoopTerminates
