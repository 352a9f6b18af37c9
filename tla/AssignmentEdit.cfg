CONSTANTS
  s1 = s1
  s2 = s2
  e1 = e1
  e2 = e2
  d1 = d1
  r1 = r1
  NoStream = NoStream
  AnyStream = AnyStream
  Keep = Keep
  Clear = Clear
  Stream = {s1, s2}
  Service = {d1, e1, e2}
  TypeOf <- AllTypes
  StartTypes <- TwoTypes
  CreateTypes <- EncoderOnly
  ServiceOrder <- ThreeServices
  Editor = {r1}
  InitialRoles = {"primary", "standby"}
SPECIFICATION EditSpec
SYMMETRY Interchangeable
INVARIANT OnePrimary
INVARIANT NoDangling
PROPERTY ProtectedFrozen
PROPERTY BotNotTransferred
