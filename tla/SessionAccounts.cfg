SPECIFICATION Spec
CONSTANTS
  Emails = {e1}
  Passwords = {p1, p2}
  Keys = {k1}
  Browsers = {b1}
  Apps = {a1}
  Requests = {r1, r2}
  MaxWishes = 3
  None = None
SYMMETRY Symmetry
PROPERTY ImplementsAccountBook
