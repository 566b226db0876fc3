SPECIFICATION Spec
CONSTANTS
  Movements = {m1, m2}
  Accounts = {nequi, bank, wise}
  Categories = {food}
  Currencies = {COP, USD}
  CurrencyOf <- MCCurrencyOf
  Amounts = {1}
  Dates <- MCDates
  Windows <- MCWindows
  RecentLimit = 1
  MaxWrites = 1
  None = None
  DefaultCurrency = COP
  nequi = nequi
  bank = bank
  wise = wise
  COP = COP
  USD = USD
SYMMETRY SummarySymmetry
INVARIANTS SummaryInv BucketsTile
