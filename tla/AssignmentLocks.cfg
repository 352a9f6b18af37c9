CONSTANTS
  s1 = s1
  s2 = s2
  e1 = e1
  e2 = e2
  a1 = a1
  a2 = a2
  NoStream = NoStream
  AnyStream = AnyStream
  Stream = {s1, s2}
  Service = {e1, e2}
  TypeOf <- MCTypeOf
  StartTypes <- OneType
  CreateTypes <- OneType
  Actor = {a1, a2}
  Kinds <- StreamAgainstAll
  Roles = {"primary"}
  Expectations = {AnyStream}
  StreamOrder <- MCStreams
  ServiceOrder <- Encoders
SPECIFICATION LocksSpec
INVARIANT TablesAgree
INVARIANT NoWaitCycle
PROPERTY ImplementsStore
