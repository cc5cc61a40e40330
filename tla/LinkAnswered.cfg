SPECIFICATION FairSpec
CONSTANTS
  Emails = {e1}
  Passwords = {p1}
  Tokens = {t1}
  Requests = {r1, r2}
  WithAddress = {}
  MaxDirect = 0
  None = None
INVARIANT LinkAnswered
