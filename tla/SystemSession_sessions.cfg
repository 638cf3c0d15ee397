CONSTANTS
  key = key
  secret = secret
  right = right
  Consumers = {key}
  Secrets = {secret}
  Licenses <- MCLicenses
  Users = {u1}
  Passwords = {right}
  PasswordOf <- MCPasswordOf
  Tokens = {t1, t2}
  Cookies = {c1}
  Reqs = {r1, r2, r3, r4}
  AccountTtl = 2
  SsoTtl = 1
  MaxTime = 2
  MaxFaults = 0
  Client = "Contract"
SPECIFICATION Spec
SYMMETRY ReqSymmetry
INVARIANTS
  TypeOK
  AdmissionTraced
  AnsweredSessionAccepted
  CookieNamesItsLogin
PROPERTIES
  SessionRegistrySpec
CHECK_DEADLOCK FALSE
