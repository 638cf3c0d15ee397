CONSTANTS
  key = key
  secret = secret
  right = right
  Consumers = {key}
  Secrets = {secret, other}
  Licenses <- MCLicenses
  Users = {u1}
  Passwords = {right, wrong}
  PasswordOf <- MCPasswordOf
  Tokens = {t1}
  Cookies = {c1, c2}
  Reqs = {r1, r2}
  AccountTtl = 2
  SsoTtl = 1
  MaxTime = 2
  MaxFaults = 2
  Client = "RedisUtils"
SPECIFICATION FairSpec
INVARIANTS
  NoSessionBehindFilter
PROPERTIES
  EveryRequestSettled
CHECK_DEADLOCK FALSE
