SPECIFICATION FairSpec
CONSTANTS
  Keys = {k1}
  Bodies = {b1, b2}
  Requests = {r1, r2}
  NoKey = NoKey
  NoBody = NoBody
  NoAnswer = NoAnswer
  MaxCalls = 4
CHECK_DEADLOCK FALSE
INVARIANTS OneAtATime RunOncePerAnswer
PROPERTIES KeepsPromise KeyComesBack
