---------------------------- MODULE UnitTestProofs ----------------------------
(***************************************************************************)
(* The unit tests pass, and why: what they expect of three modules follows *)
(* from what is proved of every module.  The runs check them for one width *)
(* of a word and a few contents of the static map; here a word may have    *)
(* any width that a vtable fits in, 64 bits included, and the map may hold *)
(* anything.                                                               *)
(***************************************************************************)
EXTENDS NestTryCatchTest, VCallTests, EHGraphDOTInfoProofs, VCallCandidatesProofs

-----------------------------------------------------------------------------
(* NestTryCatch *)

\* The test's module, analyses that were never run, and any static map.
NestTryCatchSetup ==
  /\ Function = TestFunctions /\ Site = TestSites /\ Main = "main"
  /\ TypeInfo = {"_ZTI1A", "_ZTI1B"}
  /\ \A in \in Inputs :
       /\ in.M = NestTryCatchModule /\ in.throwSite = CxaThrow
       /\ in.CallSitesMap = EmptyMap /\ in.CallerMap = EmptyMap
       /\ in.SubclassesMap = EmptyMap

TestGiven ==
  /\ M = NestTryCatchModule /\ CallSitesMap = EmptyMap /\ CallerMap = EmptyMap
  /\ Exception = [throwSite |-> CxaThrow, value |-> "_ZTI1A"]

\* The call sites of the module, one by one.
LEMMA NestTryCatchSites ==
  ASSUME NestTryCatchSetup
  PROVE  /\ CxaThrow \in Site /\ Invoke \in Site
         /\ \A s \in Site : s[2] = "throw_a" => s = Invoke
         /\ {"throw_a", "test"} \subseteq Function
<1> DEFINE begin == {"throw_a", "llvm.eh.typeid.for", "__cxa_begin_catch", "__cxa_end_catch"}
<1>1. /\ DOMAIN Calls = {"throw_a", "test", "call_test"}
      /\ Calls["throw_a"] = {"__cxa_allocate_exception", "__cxa_throw"}
      /\ Calls["test"] = begin
      /\ Calls["call_test"] = {"test"}
  BY DEF Calls
<1>2. \A s : s \in Site <=> \E F \in DOMAIN Calls : \E callee \in Calls[F] : s = <<F, callee>>
  BY DEF NestTryCatchSetup, TestSites
<1>3. CxaThrow \in Site /\ Invoke \in Site
  BY <1>1, <1>2 DEF CxaThrow, Invoke
<1>4. ASSUME NEW s \in Site, s[2] = "throw_a"
      PROVE  s = Invoke
  <2>1. PICK F \in DOMAIN Calls : \E callee \in Calls[F] : s = <<F, callee>>
    BY <1>2
  <2>2. s = <<F, "throw_a">> /\ "throw_a" \in Calls[F]
    BY <1>4, <2>1
  <2>3. F = "test"
    BY <1>1, <2>1, <2>2
  <2>4. QED
    BY <2>1, <2>2, <2>3 DEF Invoke
<1>5. {"throw_a", "test"} \subseteq Function
  BY <1>1 DEF NestTryCatchSetup, TestFunctions
<1>6. QED
  BY <1>3, <1>4, <1>5

\* The exception leaves throw_a only, and test is where it is called.
LEMMA NestTryCatchGraph ==
  ASSUME NestTryCatchSetup, TestGiven, TypeOK
  PROVE  GraphOf(problem, Escaping(problem)) =
           [f \in {"throw_a", "test"} |-> IF f = "throw_a" THEN {"test"} ELSE {}]
<1> DEFINE g == problem
           S == {CxaThrow}
<1>1. /\ \A s \in Site : M.parent[s] = s[1]
      /\ \A f \in Function : M.users[f] = {s \in Site : s[2] = f}
      /\ DOMAIN M.landingPad = {Invoke} /\ M.landingPad[Invoke] = {"_ZTI1B", "_ZTI1A"}
  BY DEF TestGiven, NestTryCatchModule
<1>2. g.parent = M.parent /\ g.throwSite = CxaThrow
  BY ProblemFields DEF TestGiven
<1>3. g.parent[CxaThrow] = "throw_a" /\ g.parent[Invoke] = "test"
  BY <1>1, <1>2, NestTryCatchSites DEF CxaThrow, Invoke
<1>4. g.callers["throw_a"] = {Invoke}
  <2>1. g.callers["throw_a"] = Callers("throw_a")
    BY ProblemFields, NestTryCatchSites
  <2>2. Callers("throw_a") = M.users["throw_a"]
    BY DEF Callers, IndirectCallers, getCallerCandidates, At, TestGiven, EmptyMap
  <2>3. M.users["throw_a"] = {s \in Site : s[2] = "throw_a"}
    BY <1>1, NestTryCatchSites
  <2>4. Invoke[2] = "throw_a"
    BY DEF Invoke
  <2>5. QED
    BY <2>1, <2>2, <2>3, <2>4, NestTryCatchSites
<1>5. Invoke \in g.caught
  <2>1. Exception.value = "_ZTI1A" /\ Exception.value # External
    BY ClauseAssumption DEF TestGiven, NestTryCatchSetup
  <2>2. canBeCaught(Invoke, Exception)
    BY <1>1, <2>1 DEF canBeCaught
  <2>3. QED
    BY <2>2, ProblemFields, NestTryCatchSites
<1>6. g \in Problem
  BY ProblemType
<1> HIDE DEF g
<1>7. Escapes(g, S) = S
  BY <1>2, <1>3, <1>4, <1>5 DEF Escapes
<1>8. S = Escaping(g)
  <2>1. S \in SUBSET Site /\ Closed(g, S)
    BY <1>7, NestTryCatchSites DEF Closed
  <2>2. S \subseteq Escaping(g)
    BY <1>2, NestTryCatchSites DEF Escaping, Closed, Escapes
  <2>3. QED
    BY <2>1, <2>2, EscapingUnique
<1>9. Left(g, S) = {"throw_a"}
  BY <1>3 DEF Left
<1>10. Successor(g, "throw_a") = {"test"}
  BY <1>3, <1>4 DEF Successor, NestTryCatchSetup
<1>11. Nodes(g, S) = {"throw_a", "test"}
  BY <1>9, <1>10 DEF Nodes
<1>12. GraphOf(g, S) = [f \in {"throw_a", "test"} |-> IF f = "throw_a" THEN {"test"} ELSE {}]
  BY <1>9, <1>10, <1>11 DEF GraphOf
<1>13. QED
  BY <1>8, <1>12 DEF g

(***************************************************************************)
(* The test passes whatever the static map holds before it and whatever    *)
(* the order of the users: the second clause of the landing pad catches,   *)
(* and the exception goes no further (NestTryCatchTest.cpp:98-100).        *)
(***************************************************************************)
THEOREM NotPropagatedHolds ==
  ASSUME NestTryCatchSetup
  PROVE  Spec => []NotPropagated
<1>1. Init => TestGiven
  <2>1. CxaThrow \in DOMAIN NestTryCatchModule.thrown
        /\ NestTryCatchModule.thrown[CxaThrow] = "_ZTI1A"
    BY DEF NestTryCatchModule
  <2>2. CurrentException(NestTryCatchModule, CxaThrow) =
          [throwSite |-> CxaThrow, value |-> "_ZTI1A"]
    BY <2>1 DEF CurrentException
  <2>3. QED
    BY <2>2 DEF Init, TestGiven, NestTryCatchSetup
<1>2. TestGiven /\ [Next]_vars => TestGiven'
  BY InputsUnchanged DEF TestGiven, analyses
<1>3. TypeOK /\ TestGiven /\ GraphIsExact => NotPropagated
  BY NestTryCatchGraph DEF GraphIsExact, NotPropagated
<1>4. QED
  BY <1>1, <1>2, <1>3, TypeCorrect, GraphIsExactHolds, PTL DEF Spec

-----------------------------------------------------------------------------
(* The virtual call analysis *)

\* A function that the map contains has a caller, as in ICallSolver.
CandidatesCalled == \A f \in DOMAIN CallerMap : CallerMap[f] # {}

LEMMA CandidatesCalledStep ==
  ASSUME AnalyzerTypeOK, CandidatesCalled, [AnalyzerNext]_vcallVars
  PROVE  CandidatesCalled'
<1>1. ASSUME NEW s \in Site, ResolveCall(s), NEW f \in DOMAIN CallerMap'
      PROVE  CallerMap'[f] # {}
  <2>1. PICK id : CallerMap' = InsertPairs(CallerMap,
                    {<<g, s>> : g \in Candidates(id, M.calls[s].offset)})
    BY <1>1 DEF ResolveCall
  <2> DEFINE pairs == {<<g, s>> : g \in Candidates(id, M.calls[s].offset)}
  <2>2. pairs \in SUBSET (Function \X Site)
    BY CandidatesType
  <2> HIDE DEF pairs
  <2>3. DOMAIN CallerMap' = DOMAIN CallerMap \cup {p[1] : p \in pairs}
    BY <2>1 DEF InsertPairs, pairs
  <2>4. CASE f \in DOMAIN CallerMap
    <3>1. At(CallerMap, f) # {} /\ At(CallerMap, f) \subseteq At(CallerMap', f)
      BY <2>1, <2>4, InsertPairsAt DEF CandidatesCalled, At
    <3>2. QED
      BY <1>1, <3>1 DEF At
  <2>5. CASE f \in {p[1] : p \in pairs}
    <3>1. <<f, s>> \in pairs
      BY <2>5 DEF pairs
    <3>2. CallerMap' = InsertPairs(CallerMap, pairs)
      BY <2>1 DEF pairs
    <3>3. s \in At(CallerMap', f)
      BY <2>2, <3>1, <3>2, InsertPairsMember
    <3>4. QED
      BY <1>1, <3>3 DEF At
  <2>6. QED
    BY <1>1, <2>3, <2>4, <2>5
<1>2. ASSUME UNCHANGED CallerMap
      PROVE  CandidatesCalled'
  BY <1>2 DEF CandidatesCalled
<1>3. QED
  BY <1>1, <1>2 DEF AnalyzerNext, AnalyzerStart, SkipGlobal, RegisterVTable, CrashOnVTable,
     StartCalls, SkipCall, CrashOnCall, Return, vcallVars, analyzerVars, CandidatesCalled

\* All that is proved of the analysis, and that the module is the one given.
LEMMA AnalyzerInvariantHolds ==
  AnalyzerSpec => [](AnalyzerInvariant /\ CandidatesCalled /\ M \in Modules)
<1>1. AnalyzerInit => CandidatesCalled /\ M \in Modules
  BY EmptyMapType DEF AnalyzerInit, CandidatesCalled
<1>2. AnalyzerInvariant /\ CandidatesCalled /\ [AnalyzerNext]_vcallVars => CandidatesCalled'
  BY CandidatesCalledStep DEF AnalyzerInvariant
<1>3. M \in Modules /\ [AnalyzerNext]_vcallVars => (M \in Modules)'
  BY DEF AnalyzerNext, AnalyzerStart, SkipGlobal, RegisterVTable, CrashOnVTable, StartCalls,
     SkipCall, ResolveCall, CrashOnCall, Return, vcallVars
<1>4. QED
  BY <1>1, <1>2, <1>3, AnalyzerInvariantInit, AnalyzerInvariantStep, PTL DEF AnalyzerSpec

\* A word holds the offset of a vtable's third slot, and 0 is not negative.
LEMMA ThirdSlot ==
  ASSUME Modulus \in Nat, Modulus > 4
  PROVE  2 \in ObjectWord /\ 2 + Signed(0) = 2
  BY DEF ObjectWord, Word, Signed

\* The names the test gives its module, and a word that a vtable fits in.
PureVirtualSetup ==
  /\ {"_Z4testP1A", "_ZN1B1fEv", "_ZN1C1fEv"} \subseteq Function
  /\ PureVirtual = "__cxa_pure_virtual"
  /\ TypeId = {"A", "B", "C"} /\ Global = PureVirtualGlobals
  /\ Modules = PureVirtualModules /\ Modulus > 4

\* What the module says of the one virtual call and of the three vtables.
LEMMA PureVirtualFacts ==
  ASSUME PureVirtualSetup, M \in Modules
  PROVE  /\ DOMAIN M.calls = {"vcall"}
         /\ M.calls["vcall"] = [offset |-> 0, tests |-> {"A"}]
         /\ M.vtables \ M.public = {"_ZTV1A", "_ZTV1B", "_ZTV1C"}
         /\ \A gv \in M.vtables \ M.public :
              /\ gv \in Global /\ [offset |-> 2, id |-> "A"] \in M.types[gv]
              /\ \A t \in M.types[gv] : t.offset = 2
              /\ DOMAIN M.slots[gv] = {2}
         /\ M.slots["_ZTV1A"][2] = PureVirtual
         /\ M.slots["_ZTV1B"][2] = "_ZN1B1fEv"
         /\ M.slots["_ZTV1C"][2] = "_ZN1C1fEv"
         /\ Implemented("_ZN1B1fEv") /\ Implemented("_ZN1C1fEv")
<1> DEFINE classOf == [_ZTV1A |-> "A", _ZTV1B |-> "B", _ZTV1C |-> "C"]
           methodOf == [_ZTV1A |-> PureVirtual, _ZTV1B |-> "_ZN1B1fEv", _ZTV1C |-> "_ZN1C1fEv"]
           own == {"_ZTV1A", "_ZTV1B", "_ZTV1C"}
<1>1. DOMAIN classOf = own /\ DOMAIN methodOf = own
  OBVIOUS
<1>2. M = Assembly(classOf, methodOf)
  BY DEF PureVirtualSetup, PureVirtualModules, PureVirtualModule
<1>3. /\ methodOf["_ZTV1A"] = PureVirtual /\ methodOf["_ZTV1B"] = "_ZN1B1fEv"
      /\ methodOf["_ZTV1C"] = "_ZN1C1fEv"
  OBVIOUS
<1> HIDE DEF classOf, methodOf
<1>4. own \subseteq Global /\ Elsewhere \subseteq Global /\ own \cap Elsewhere = {}
  BY DEF PureVirtualSetup, PureVirtualGlobals, Elsewhere
<1>5. M.vtables \ M.public = own
  BY <1>1, <1>2, <1>4 DEF Assembly
<1>6. \A gv \in own :
        /\ M.types[gv] = {[offset |-> 2, id |-> id] : id \in {"A", classOf[gv], VirtualId}}
        /\ M.slots[gv] = [w \in {2} |-> methodOf[gv]]
  BY <1>1, <1>2, <1>4 DEF Assembly
<1>7. M.calls = [s \in {"vcall"} |-> [offset |-> 0, tests |-> {"A"}]]
  BY <1>2 DEF Assembly
<1>8. M.declared = Function \cap {"llvm.type.test", "llvm.assume", PureVirtual}
  BY <1>2 DEF Assembly
<1>9. Implemented("_ZN1B1fEv") /\ Implemented("_ZN1C1fEv")
  BY <1>8 DEF Implemented, PureVirtualSetup
<1>10. QED
  BY <1>3, <1>4, <1>5, <1>6, <1>7, <1>9

(***************************************************************************)
(* The test passes for every width of a word: the virtual call through A   *)
(* is a caller of the two implementations, and the map has no other entry, *)
(* in particular none for the pure virtual function                        *)
(* (PureVirtualTest.cpp:10-25, 99-101).                                    *)
(***************************************************************************)
THEOREM ImplementationsCalledHolds ==
  ASSUME PureVirtualSetup
  PROVE  AnalyzerSpec => []ImplementationsCalled
<1>1. ASSUME AnalyzerInvariant, CandidatesCalled, M \in Modules, vpc = "done"
      PROVE  CallerMap = [f \in {"_ZN1B1fEv", "_ZN1C1fEv"} |-> {"vcall"}]
  <2> DEFINE implementations == {"_ZN1B1fEv", "_ZN1C1fEv"}
  <2>1. 2 \in ObjectWord /\ 2 + Signed(0) = 2
    BY ThirdSlot, ModulusAssumption DEF PureVirtualSetup
  <2>2. CallsResolved /\ OnlyRealCallers /\ IsMap(CallerMap, Function, SUBSET Site)
    BY <1>1, ResolvedExact DEF AnalyzerInvariant, AnalyzerTypeOK
  <2>3. ASSUME NEW gv \in {"_ZTV1B", "_ZTV1C"}, NEW f \in implementations,
               M.slots[gv][2] = f
        PROVE  f \in DOMAIN CallerMap /\ "vcall" \in CallerMap[f]
    <3> DEFINE ap == [vtable |-> gv, offset |-> 2]
    <3>1. ap \in AddressPoint /\ ap.vtable = gv /\ ap.offset = 2
      BY <1>1, <2>1, PureVirtualFacts DEF AddressPoint
    <3> HIDE DEF ap
    <3>2. HasType(ap, "A") /\ Hidden(ap)
      BY <1>1, <3>1, PureVirtualFacts DEF HasType, Hidden
    <3>3. Runs("vcall", ap, f)
      BY <1>1, <2>1, <2>3, <3>1, PureVirtualFacts DEF Runs
    <3>4. f \in Function /\ Implemented(f) /\ "vcall" \in DOMAIN M.calls
      BY <1>1, PureVirtualFacts DEF PureVirtualSetup
    <3>5. M.calls["vcall"].tests = {"A"} /\ "A" \in TypeId
      BY <1>1, PureVirtualFacts DEF PureVirtualSetup
    <3>6. QED
      BY <1>1, <2>2, <3>1, <3>2, <3>3, <3>4, <3>5 DEF CallsResolved
  <2>4. ASSUME NEW f \in DOMAIN CallerMap, NEW s \in CallerMap[f]
        PROVE  f \in implementations /\ s = "vcall"
    <3>1. /\ Implemented(f) /\ s \in DOMAIN M.calls
          /\ \E id \in M.calls[s].tests, ap \in AddressPoint :
               HasType(ap, id) /\ Hidden(ap) /\ Runs(s, ap, f)
      BY <2>2 DEF OnlyRealCallers
    <3>2. PICK ap \in AddressPoint : Hidden(ap) /\ Runs(s, ap, f)
      BY <3>1
    <3>3. ap.vtable \in {"_ZTV1A", "_ZTV1B", "_ZTV1C"}
      BY <1>1, <3>2, PureVirtualFacts DEF Hidden
    <3>4. f = M.slots[ap.vtable][2]
      BY <1>1, <3>2, <3>3, PureVirtualFacts DEF Runs, Hidden
    <3>5. f # PureVirtual
      BY <3>1 DEF Implemented
    <3>6. QED
      BY <1>1, <3>1, <3>3, <3>4, <3>5, PureVirtualFacts
  <2>5. DOMAIN CallerMap = implementations
    BY <1>1, <2>3, <2>4, PureVirtualFacts DEF CandidatesCalled
  <2>6. \A f \in implementations : CallerMap[f] = {"vcall"}
    BY <1>1, <2>3, <2>4, <2>5, PureVirtualFacts
  <2>7. QED
    BY <2>2, <2>5, <2>6 DEF IsMap
<1>2. AnalyzerInvariant /\ CandidatesCalled /\ M \in Modules => ImplementationsCalled
  BY <1>1 DEF ImplementationsCalled
<1>3. QED
  BY <1>2, AnalyzerInvariantHolds, PTL

\* The names the other test gives its module.
SubClassSetup ==
  /\ TypeId = {"A", "B1", "B2"} /\ Global = SubClassGlobals
  /\ Modules = SubClassModules

\* Each of its two vtables relates its class to A and to itself.
LEMMA SubClassFacts ==
  ASSUME SubClassSetup, M \in Modules
  PROVE  /\ M.vtables \ M.public = {"_ZTV2B1", "_ZTV2B2"}
         /\ \A base, derived :
              <<base, derived>> \in Related("_ZTV2B1") <=>
                base \in {"_ZTI1A", "_ZTI2B1"} /\ derived = "_ZTI2B1"
         /\ \A base, derived :
              <<base, derived>> \in Related("_ZTV2B2") <=>
                base \in {"_ZTI1A", "_ZTI2B2"} /\ derived = "_ZTI2B2"
<1> DEFINE classOf == [_ZTV2B1 |-> "B1", _ZTV2B2 |-> "B2"]
           methodOf == [_ZTV2B1 |-> "_ZN2B13fooEv", _ZTV2B2 |-> "_ZN2B23fooEv"]
           own == {"_ZTV2B1", "_ZTV2B2"}
<1>1. /\ DOMAIN classOf = own
      /\ classOf["_ZTV2B1"] = "B1" /\ classOf["_ZTV2B2"] = "B2"
  OBVIOUS
<1>2. M = Assembly(classOf, methodOf)
  BY DEF SubClassSetup, SubClassModules, SubClassModule
<1> HIDE DEF classOf, methodOf
<1>3. own \subseteq Global /\ Elsewhere \subseteq Global /\ own \cap Elsewhere = {}
  BY DEF SubClassSetup, SubClassGlobals, Elsewhere
<1>4. M.vtables \ M.public = own
  BY <1>1, <1>2, <1>3 DEF Assembly
<1>5. /\ InfoOf["A"] = "_ZTI1A" /\ InfoOf["B1"] = "_ZTI2B1" /\ InfoOf["B2"] = "_ZTI2B2"
  BY DEF InfoOf
<1>6. \A gv \in own :
        /\ M.types[gv] = {[offset |-> 2, id |-> id] : id \in {"A", classOf[gv], VirtualId}}
        /\ M.typeInfo[gv] = InfoOf[classOf[gv]]
  BY <1>1, <1>2, <1>3 DEF Assembly
<1>7. \A id \in TypeId : M.baseInfo[id] = InfoOf[id]
  BY <1>2 DEF Assembly
<1>8. VirtualId \notin TypeId /\ {"A", "B1", "B2"} = TypeId
  BY IdAssumption DEF SubClassSetup
<1>9. ASSUME NEW gv \in own, NEW base, NEW derived
      PROVE  <<base, derived>> \in Related(gv) <=>
               base \in {InfoOf["A"], InfoOf[classOf[gv]]} /\ derived = InfoOf[classOf[gv]]
  <2>1. ClassTypes(gv) = {[offset |-> 2, id |-> id] : id \in {"A", classOf[gv]}}
    BY <1>1, <1>6, <1>8 DEF ClassTypes
  <2>2. <<base, derived>> \in Related(gv) <=>
          \E ty \in ClassTypes(gv) : base = M.baseInfo[ty.id] /\ derived = M.typeInfo[gv]
    BY DEF Related
  <2>3. classOf[gv] \in TypeId /\ "A" \in TypeId
    BY <1>1, <1>8
  <2>4. /\ M.baseInfo["A"] = InfoOf["A"] /\ M.baseInfo[classOf[gv]] = InfoOf[classOf[gv]]
        /\ M.typeInfo[gv] = InfoOf[classOf[gv]]
    BY <1>6, <1>7, <2>3
  <2>5. <<base, derived>> \in Related(gv) <=>
          \E id \in {"A", classOf[gv]} : base = InfoOf[id] /\ derived = M.typeInfo[gv]
    <3>1. \A ty \in ClassTypes(gv) :
            ty.id \in {"A", classOf[gv]} /\ M.baseInfo[ty.id] = InfoOf[ty.id]
      BY <2>1, <2>3, <1>7
    <3>2. ASSUME NEW id \in {"A", classOf[gv]} PROVE \E ty \in ClassTypes(gv) : ty.id = id
      <4>1. [offset |-> 2, id |-> id] \in ClassTypes(gv)
        BY <2>1
      <4>2. QED
        BY <4>1
    <3>3. QED
      BY <2>2, <3>1, <3>2, Zenon
  <2>6. QED
    BY <2>4, <2>5
<1>10. QED
  BY <1>1, <1>4, <1>5, <1>9

(***************************************************************************)
(* The test passes for every width of a word: the two classes are derived  *)
(* from A, which has no vtable, and neither from the other                 *)
(* (SubClassTest.cpp:66-71).                                               *)
(***************************************************************************)
THEOREM DerivedFromAHolds ==
  ASSUME SubClassSetup
  PROVE  AnalyzerSpec => []DerivedFromA
<1>1. ASSUME AnalyzerInvariant, M \in Modules, vpc = "done"
      PROVE  /\ At(SubclassesMap, "_ZTI1A") = {"_ZTI2B1", "_ZTI2B2"}
             /\ \A B \in {"_ZTI2B1", "_ZTI2B2"} : At(SubclassesMap, B) = {B}
  <2>1. globals = {}
    BY <1>1 DEF AnalyzerInvariant, AnalyzerTypeOK
  <2>2. M.vtables \ (M.public \cup globals) = {"_ZTV2B1", "_ZTV2B2"}
    BY <1>1, <2>1, SubClassFacts
  <2>3. \A base, derived :
          derived \in At(SubclassesMap, base) <=>
            \E gv \in {"_ZTV2B1", "_ZTV2B2"} : <<base, derived>> \in Related(gv)
    <3>1. vpc \notin {"start", "crashed"} /\ RelatedSoFar
      BY <1>1 DEF AnalyzerInvariant
    <3>2. QED
      BY <2>2, <3>1 DEF RelatedSoFar
  <2>4. ASSUME NEW base, NEW derived
        PROVE  derived \in At(SubclassesMap, base) <=>
                 \/ base \in {"_ZTI1A", "_ZTI2B1"} /\ derived = "_ZTI2B1"
                 \/ base \in {"_ZTI1A", "_ZTI2B2"} /\ derived = "_ZTI2B2"
    <3>1. derived \in At(SubclassesMap, base) <=>
            \/ <<base, derived>> \in Related("_ZTV2B1")
            \/ <<base, derived>> \in Related("_ZTV2B2")
      BY <2>3, Zenon
    <3>2. QED
      BY <1>1, <3>1, SubClassFacts, Zenon
  <2>5. At(SubclassesMap, "_ZTI1A") = {"_ZTI2B1", "_ZTI2B2"}
    BY <2>4
  <2>6. \A B \in {"_ZTI2B1", "_ZTI2B2"} : At(SubclassesMap, B) = {B}
    BY <2>4
  <2>7. QED
    BY <2>5, <2>6
<1>2. AnalyzerInvariant /\ M \in Modules => DerivedFromA
  BY <1>1 DEF DerivedFromA
<1>3. QED
  BY <1>2, AnalyzerInvariantHolds, PTL
=============================================================================
