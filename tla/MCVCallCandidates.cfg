\* One analysis of every small module: what it finds and what it misses.
CONSTANTS
  vA = vA
  vB = vB
  c = c
  A = A
  B = B
  All = All
  TA = TA
  TB = TB
  f = f
  h = h
  r = r
  s = s
  d = d
  Function = {f, h, PureVirtual}
  Site = {r, s, d}
  Global = {vA, vB, c}
  TypeId = {A, B, All}
  Unprefixed = {All}
  TypeInfo = {TA, TB}
  NoTypeInfo = NoTypeInfo
  LocalId = LocalId
  VirtualId = VirtualId
  EmptyId = EmptyId
  PureVirtual = PureVirtual
  Modulus = 8
  Modules <- MCModules
SPECIFICATION AnalyzerSpec
INVARIANTS
  AnalyzerTypeOK
  CallsResolved
  OnlyRealCallers
  CrashHasReason
  SubclassesExact
CHECK_DEADLOCK FALSE
