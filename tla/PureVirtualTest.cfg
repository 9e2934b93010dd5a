\* unittest/PureVirtualTest.cpp
CONSTANTS
  Function = {"_Z4testP1A", "_ZN1B1fEv", "_ZN1C1fEv", "__cxa_pure_virtual",
              "llvm.type.test", "llvm.assume"}
  Site = {"type.test", "assume", "vcall"}
  Global <- PureVirtualGlobals
  TypeId = {"A", "B", "C"}
  Unprefixed = {}
  TypeInfo = {"_ZTI1A", "_ZTI1B", "_ZTI1C"}
  NoTypeInfo = NoTypeInfo
  LocalId = LocalId
  VirtualId = VirtualId
  EmptyId = EmptyId
  PureVirtual = "__cxa_pure_virtual"
  Modulus = 8
  Modules <- PureVirtualModules
SPECIFICATION AnalyzerSpec
INVARIANT ImplementationsCalled
CHECK_DEADLOCK FALSE
