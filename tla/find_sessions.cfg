\* One of the instances of section 5 of README.md; the others change the
\* constants and the property its table names.
CONSTANTS
  NoAccount = NoAccount
  ada = ada
  cira = cira
  dodo = dodo
  r1 = r1
  r2 = r2
  Accounts <- Alone
  RoleOf <- AloneRoles
  Opening <- AloneFirst
  Lists <- TheLists
  Statuses <- BothStatuses
  Requests = {r1, r2}
  MaxAttempts = 2
  MaxTokens = 3
  MaxLinks = 2
  MaxInFlight = 2
  MaxCalls = 4
  Ops <- SessionOps
  Doors <- NoDoors
SPECIFICATION Spec
INVARIANTS
  OneLivePerFamily
CHECK_DEADLOCK FALSE
