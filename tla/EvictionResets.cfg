SPECIFICATION Spec
CONSTANTS
  Accounts = {"ana", "bob", "eve"}
  Users = {"ana"}
  Spellings = {"Ana", "ana", "bob", "eve"}
  AccountOf <- MCAccountOf
  Width = 3
  Clients <- MCClients
  Proxies <- MCProxies
  Prefixes <- MCPrefixes
  Local = 0
  Sessions = {s1}
  Tokens = {k1}
  Names = {n1}
  Requests = {r1, r2}
  None = None
  MaxFailures = 2
  MaxAccountFailures = 2
  Window = 4
  Second = 2
  MaxKeys = 2
  MaxTokenMints = 1
  TokenMintWindow = 3
  Lifetimes = {4}
  TouchEvery = 1
  Dawn = 1
  Horizon = 3
  Past <- MCPast
  MaxRequests = 3
SYMMETRY AccessSymmetry
PROPERTIES BlockSurvivesEviction
