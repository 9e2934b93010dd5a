----------------------------- MODULE VCallResults -----------------------------
(***************************************************************************)
(* What VCallCandidatesAnalyzer leaves for the printer, and the queries of *)
(* it (src/IndirectCallAnalysis.cpp:11-18, 130-138).                       *)
(***************************************************************************)
EXTENDS LLVMModule

CONSTANTS
  TypeInfo,       \* the type-info globals (_ZTI...)
  NoTypeInfo      \* the null pointer: a class has no type info in this module

VARIABLES
  SubclassesMap,  \* the type infos of the classes derived from a base
  CallerMap       \* the virtual calls a function is a candidate of

IsSubclassesMap(map) ==
  IsMap(map, TypeInfo \cup {NoTypeInfo}, SUBSET (TypeInfo \cup {NoTypeInfo}))

derivedFrom(Base, Derived) ==
  Base \in DOMAIN SubclassesMap /\ Derived \in SubclassesMap[Base]

getCallerCandidates(F) == At(CallerMap, F)
=============================================================================
