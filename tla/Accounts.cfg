SPECIFICATION Spec
CONSTANTS
  a = a
  b = b
  p = p
  q = q
  s = s
  None = None
  Users = {a, b}
  Procs = {p, q}
  Subjects = {s}
  MfaModes = {"disabled", "totp", "passkey"}
  Statuses = {"barred"}
  MaxIssued = 3
SYMMETRY Symmetry
INVARIANT SpentOnce
INVARIANT OneIdentityOneUser
 
PROPERTY SessionEndsForGood
CHECK_DEADLOCK FALSE
