CONSTANTS
  s1 = s1
  a1 = a1
  a2 = a2
  x1 = x1
  p1 = p1
  c1 = c1
  w1 = w1
  Nothing = Nothing
  Sessions = {s1}
  Assets = {a1, a2}
  Streams = {x1}
  Presets = {p1}
  Contents = {c1}
  Workers = {w1}
  CoverLimit = 2
SPECIFICATION FairAssetsSpec
CHECK_DEADLOCK FALSE
 
 
INVARIANT FilesAccounted
PROPERTY DraftsVanish
