CONSTANTS
  NoAccount = NoAccount
  ada = ada
  cira = cira
  dodo = dodo
  r1 = r1
  r2 = r2
  Accounts <- Outside
  RoleOf <- OutsideRoles
  Opening <- NotYet
  Lists <- TheLists
  Statuses <- BothStatuses
  Requests = {r1}
  MaxAttempts = 2
  MaxTokens = 3
  MaxLinks = 2
  MaxInFlight = 1
  MaxCalls = 4
  Ops <- SessionOps
  Doors <- TheDoors
SPECIFICATION Spec
INVARIANTS
  OneLivePerFamily
  SessionsFollowTheAccount
  FailuresCounted
  LinkOpensOnce
  FollowsTheMatrix
  EntersWithPresentRights
CHECK_DEADLOCK FALSE
