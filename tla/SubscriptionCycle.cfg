CONSTANTS
  a1 = a1
  a2 = a2
  s1 = s1
  s2 = s2
  Accounts = {a1, a2}
  Subs = {s1, s2}
  Requests = {r1, r2}
  None = None
  Currency <- TwoCurrencies
  Calendar <- MonthEnds
  Prices = {0, 5}
  Plans <- DueOrUndated
  MaxRequests = 3
SPECIFICATION Spec
SYMMETRY Twins
INVARIANTS SubscriptionInv OncePerCycle CycleMatchesPayments NextBillingIsExact
PROPERTIES PaidAsStored
