CONSTANTS
  a1 = a1
  a2 = a2
  s1 = s1
  s2 = s2
  Accounts = {a1}
  Subs = {s1}
  Requests = {r1}
  None = None
  Currency <- OneCurrency
  Calendar <- FewDays
  Prices = {5}
  Plans <- DriftDue
  MaxRequests = 2
SPECIFICATION Spec
INVARIANTS DueDaySurvives
