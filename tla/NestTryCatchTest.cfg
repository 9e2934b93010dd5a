\* unittest/NestTryCatchTest.cpp
CONSTANTS
  Function <- TestFunctions
  Site <- TestSites
  Main = "main"
  Leak = Leak
  TypeInfo = {"_ZTI1A", "_ZTI1B"}
  NoTypeInfo = NoTypeInfo
  CatchAll = CatchAll
  Filter = Filter
  External = External
  NoGraph = NoGraph
  RepeatedUses = 0
  Inputs <- TestInputs
SPECIFICATION Spec
INVARIANT NotPropagated
CHECK_DEADLOCK FALSE
