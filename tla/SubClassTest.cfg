\* unittest/SubClassTest.cpp
CONSTANTS
  Function = {"_Z5vcallP1A", "_ZN2B13fooEv", "_ZN2B23fooEv",
              "llvm.type.test", "llvm.assume"}
  Site = {"type.test", "assume", "vcall"}
  Global <- SubClassGlobals
  TypeId = {"A", "B1", "B2"}
  Unprefixed = {}
  TypeInfo = {"_ZTI1A", "_ZTI2B1", "_ZTI2B2"}
  NoTypeInfo = NoTypeInfo
  LocalId = LocalId
  VirtualId = VirtualId
  EmptyId = EmptyId
  PureVirtual = "__cxa_pure_virtual"
  Modulus = 8
  Modules <- SubClassModules
SPECIFICATION AnalyzerSpec
INVARIANT DerivedFromA
CHECK_DEADLOCK FALSE
