SPECIFICATION Spec
CONSTANTS
  Emails = {e1}
  Passwords = {p1, p2}
  Tokens = {t1, t2}
  Requests = {r1, r2}
  WithAddress = {e1}
  MaxDirect = 1
  None = None
SYMMETRY Symmetry
INVARIANTS TypeOK MailedLinkExpires HonestAnswer CountedOnce
PROPERTY ImplementsAccountBook
