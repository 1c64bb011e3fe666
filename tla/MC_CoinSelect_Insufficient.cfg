CONSTANTS
  o1 = o1
  o2 = o2
  o3 = o3
  o4 = o4
  Amount <- MCAmount
  InputWeight = 1
  OutputWeight = 1
  BaseWeight = 0
  AmountBits = 16
  Payments <- MCPositivePayments
  FeeRates <- MCFeeRates
SPECIFICATION Spec
INVARIANT
  InsufficientFundsIsGenuine
