CONSTANTS
  key = key
  secret = secret
  right = right
  Consumers = {key}
  Secrets = {secret}
  Licenses <- MCLicenses
  Users = {u1}
  Passwords = {right}
  PasswordOf <- MCPasswordOf
  Tokens = {t1}
  Cookies = {c1}
  Reqs = {r1, r2, r3}
  AccountTtl = 2
  SsoTtl = 1
  MaxTime = 3
  MaxFaults = 0
  Client = "RedisUtils"
SPECIFICATION Spec
INVARIANTS
  AnsweredSessionAccepted
CHECK_DEADLOCK FALSE
