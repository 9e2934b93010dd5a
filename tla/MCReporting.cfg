\* The driver against what it promises, with use lists that repeat users.
CONSTANTS
  main = main
  f = f
  init = init
  cxa_throw = cxa_throw
  ext = ext
  t = t
  u = u
  a = a
  A = A
  B = B
  Stale = Stale
  Function = {main, f, init, cxa_throw, ext}
  Site = {t, u, a}
  Main = main
  Leak = Leak
  TypeInfo = {A, B}
  NoTypeInfo = NoTypeInfo
  CatchAll = CatchAll
  Filter = Filter
  External = External
  NoGraph = NoGraph
  RepeatedUses = 1
  Inputs = {}
  Programs <- MCFewPrograms
  NodeThreshold = 2
  NoException = NoException
  Empty = Empty
  Partial = Partial
  OldFiles <- MCOldFiles
SPECIFICATION PrinterSpec
PROPERTIES
  ImplementsReporting
CHECK_DEADLOCK FALSE
