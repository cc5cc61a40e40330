SPECIFICATION Spec
CONSTANTS
  Emails = {e1}
  Passwords = {p1}
  Keys = {k1, k2}
  Browsers = {b1}
  Apps = {a1}
  Requests = {r1, r2}
  MaxWishes = 2
  None = None
SYMMETRY Symmetry
INVARIANTS TypeOK SessionHasAccount CookieNamesSession HonestLogin LoggedOut
           FacebookSessionExpires ConnectionsBacked
PROPERTY ImplementsSessionBook
