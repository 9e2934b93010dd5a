\* One construction, use lists with repeats: termination and refinement.
CONSTANTS
  main = main
  f = f
  g = g
  t = t
  a = a
  b = b
  c = c
  A = A
  B = B
  Function = {main, f, g}
  Site = {t, a, b}
  Main = main
  Leak = Leak
  TypeInfo = {A, B}
  NoTypeInfo = NoTypeInfo
  CatchAll = CatchAll
  Filter = Filter
  External = External
  NoGraph = NoGraph
  RepeatedUses = 1
  Inputs <- MCFewInputs
SPECIFICATION Spec
PROPERTIES
  Termination
  ImplementsPropagation
CHECK_DEADLOCK FALSE
