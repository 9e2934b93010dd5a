\* One construction over small call graphs: safety and action properties.
CONSTANTS
  main = main
  f = f
  g = g
  t = t
  a = a
  b = b
  c = c
  A = A
  B = B
  Function = {main, f, g}
  Site = {t, a, b, c}
  Main = main
  Leak = Leak
  TypeInfo = {A, B}
  NoTypeInfo = NoTypeInfo
  CatchAll = CatchAll
  Filter = Filter
  External = External
  NoGraph = NoGraph
  RepeatedUses = 0
  Inputs <- MCInputs
SPECIFICATION Spec
INVARIANTS
  TypeOK
  LoopInvariant
  GraphIsExact
  LeakReportsAgree
  EveryNodePrinted
  RootedAtThrower
  CatchIsBarrier
PROPERTIES
  ReferenceStaysValid
CHECK_DEADLOCK FALSE
