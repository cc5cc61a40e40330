SPECIFICATION FairSpec
CONSTANTS
  Emails = {e1, e2}
  Passwords = {p1}
  Tokens = {t1}
  Requests = {r1, r2}
  WithAddress = {e1}
  MaxDirect = 1
  None = None
PROPERTIES MailedLinkEnds RequestEnds
