CONSTANTS
  right = right
  Users = {u1, u2}
  Passwords = {right, wrong}
  PasswordOf <- MCPasswordOf
  Tokens = {t1, t2}
  Reqs = {r1, r2}
  Ttl = 1
  MaxTime = 3
  MaxFaults = 1
  Client = "Contract"
SPECIFICATION Spec
SYMMETRY ReqSymmetry
INVARIANTS
  InfoOnlyToOwner
  AnsweredTokenAccepted
PROPERTIES
  NoPrematureCleanup
CHECK_DEADLOCK FALSE
