CONSTANTS
  o1 = o1
  o2 = o2
  o3 = o3
  tA = tA
  tB = tB
  tC = tC
  c1 = c1
  c2 = c2
  s1 = s1
  Nil = Nil
  Amount <- MCAmount
  TxOf <- MCTxOfShared
  InitialUnspent <- MCInitialUnspent
  Callers = {c1, c2}
  Syncers = {s1}
  Payments <- MCPayments
  FeeRates <- MCFeeRates
  InputWeight = 1
  OutputWeight = 1
  BaseWeight = 0
  AmountBits = 16
  MaxCrafts = 2
  MaxKills = 1
SPECIFICATION Spec
PROPERTY
  RemoveEvictsOnlySpent
