CONSTANTS
  right = right
  Users = {u1}
  Passwords = {right, wrong}
  PasswordOf <- MCPasswordOf
  Tokens = {t1, t2}
  Reqs = {r1, r2}
  Ttl = 1
  MaxTime = 3
  MaxFaults = 1
  Client = "RedisUtils"
SPECIFICATION Spec
PROPERTIES
  SavedTokenFoundInRedis
CHECK_DEADLOCK FALSE
