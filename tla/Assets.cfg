SPECIFICATION FairSpec
CONSTANTS
  Requests = {r1, r2}
  PoolSize = 2
  Assets = {a1}
  Accounts = {x1}
  Currencies = {cop, usd}
  Values = {1, 2}
  Dates = {1, 2}
  None = None
  Patches <- MCPatches
INVARIANTS AssetInv NetWorthIsNewest StallNeedsAccountPatch
PROPERTIES DenominationKept EveryRequestEnds
