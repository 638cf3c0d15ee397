CONSTANTS
  Locks = {lock}
  Counters = {counter}
  Ids = {id}
  Tokens = {token}
  Tags = {v, w}
  Users = {user}
  Calls = {1, 2, 3}
  Amounts <- MCAmounts
  Limits = {0, 3}
  Lifetimes = {0, 1}
  LockTtl = 1
  TokenTtl = 2
  Plans <- MCPlans
  MaxFaults = 1
  Client = "RedisUtils"
SPECIFICATION Spec
INVARIANTS
  ScriptsEndAsDocumented
CHECK_DEADLOCK FALSE
