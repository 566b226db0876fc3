SPECIFICATION FairSpec
CONSTANTS
  NAccounts = 2
  NMovements = 2
  Amounts = {1}
  ManualBalances = {}
  Currency <- MCCurrency
  Opened = {1}
  Stored <- MCOneRow
  Requests = {r1, r2}
  RetryAttempts = 2
  Operations = {"create", "transfer", "patch", "delete", "close", "open", "assert"}
  PatchBodies <- MCRepoints
  MaxRequests = 3
  Free = Free
INVARIANTS
  LedgerInv
  NoDanglingMovement
  NoWaitCycle
PROPERTIES
  ImplementsAtomicLedger
  ArchivedAccountsStayClosed
  EveryRequestEnds
