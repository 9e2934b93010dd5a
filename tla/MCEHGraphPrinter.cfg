\* The driver: several graphs one after another, files and reports.
CONSTANTS
  main = main
  f = f
  init = init
  cxa_throw = cxa_throw
  ext = ext
  t = t
  u = u
  a = a
  A = A
  B = B
  Stale = Stale
  Function = {main, f, init, cxa_throw, ext}
  Site = {t, u, a}
  Main = main
  Leak = Leak
  TypeInfo = {A, B}
  NoTypeInfo = NoTypeInfo
  CatchAll = CatchAll
  Filter = Filter
  External = External
  NoGraph = NoGraph
  RepeatedUses = 0
  Inputs = {}
  Programs <- MCPrograms
  NodeThreshold = 2
  NoException = NoException
  Empty = Empty
  Partial = Partial
  OldFiles <- MCOldFiles
SPECIFICATION PrinterSpec
INVARIANTS
  PrinterTypeOK
  ReportsExact
  FilesExact
  ReportsComplete
PROPERTIES
  EveryThrowReported
CHECK_DEADLOCK FALSE
