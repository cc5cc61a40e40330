SPECIFICATION Spec
CONSTANTS
  Emails = {e1}
  Passwords = {p1}
  Keys = {k1}
  Browsers = {b1}
  Apps = {}
  Requests = {r1}
  MaxWishes = 1
  None = None
INVARIANT WebSessionExpires
