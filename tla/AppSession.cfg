SPECIFICATION Spec
CONSTANTS
  Emails = {e1, e2}
  Keys = {k1, k2}
  Threads = {t1, t2}
  None = None
SYMMETRY Symmetry
INVARIANTS CookieOwn PhoneTrue
