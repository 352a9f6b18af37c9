CONSTANTS
  s1 = s1
  s2 = s2
  c1 = c1
  NoStream = NoStream
  Stream = {s1, s2}
  Completer = {c1}
  AutoStart = {s1, s2}
  MaxClaims = 2
SPECIFICATION Spec
SYMMETRY Interchangeable
 
INVARIANT RuntimeFenced
 
PROPERTY RecoveryNeverLeaks
