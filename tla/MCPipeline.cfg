\* The whole program on small modules, against what the modules do at run time.
CONSTANTS
  main = main
  f = f
  v = v
  cxa_throw = cxa_throw
  ext = ext
  t = t
  u = u
  a = a
  b = b
  vA = vA
  vB = vB
  A = A
  B = B
  All = All
  TA = TA
  TB = TB
  Function = {main, f, v, cxa_throw, ext}
  Site = {t, u, a, b}
  Main = main
  Leak = Leak
  TypeInfo = {TA, TB}
  NoTypeInfo = NoTypeInfo
  CatchAll = CatchAll
  Filter = Filter
  External = External
  NoGraph = NoGraph
  RepeatedUses = 0
  Inputs = {}
  Programs = {}
  NodeThreshold = 4
  NoException = NoException
  Empty = Empty
  Partial = Partial
  OldFiles <- MCOldFiles
  Global = {vA, vB}
  TypeId = {A, B, All}
  Unprefixed = {All}
  LocalId = LocalId
  VirtualId = VirtualId
  EmptyId = EmptyId
  PureVirtual = PureVirtual
  Modulus = 8
  Foreign = Foreign
  Metadata = {}
  Modules <- MCModules
SPECIFICATION PipelineSpec
INVARIANTS
  PipelineTypeOK
  CallersComplete
  NoPathMissed
  ExactWhenCertain
  StatusReliable
  AbortExplained
PROPERTIES
  ProgramEnds
CHECK_DEADLOCK FALSE
