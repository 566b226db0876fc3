SPECIFICATION Spec
CONSTANTS
  NAccounts = 3
  NMovements = 2
  Amounts = {1, 2}
  ManualBalances = {0}
  Currency <- MCCurrency
  Opened = {1, 2, 3}
  Stored <- MCTwoRows
  Requests = {r1, r2}
  RetryAttempts = 2
  Operations = {"patch", "delete", "assert"}
  PatchBodies <- MCBodies
  MaxRequests = 3
  Free = Free
SYMMETRY RequestSymmetry
INVARIANTS
  BalanceMatchesLedger
  LockedReadsStayTrue
  AnswerTellsOutcome
  LocksBelongToTransactions
PROPERTIES
  OmittedFieldsKept
  AmountsKeepTheirCurrency
