------------------------- MODULE VCallCandidatesProofs -------------------------
(***************************************************************************)
(* VCallCandidates is right for every module and every width of a word.    *)
(* Two invariants say what the two loops have done so far: Registered and  *)
(* RelatedSoFar for the globals visited, ResolvedSoFar for the calls.      *)
(***************************************************************************)
EXTENDS VCallCandidates, MapsProofs

-----------------------------------------------------------------------------
(* Types *)

LEMMA RelatedType ==
  ASSUME AnalyzerTypeOK, NEW gv \in Global, gv \in M.vtables
  PROVE  Related(gv) \in SUBSET ((TypeInfo \cup {NoTypeInfo}) \X (TypeInfo \cup {NoTypeInfo}))
BY DEF AnalyzerTypeOK, IsVCallModule, Related, ClassTypes

AddressPointsOf(gv) ==
  {<<t.id, [vtable |-> gv, offset |-> t.offset]>> : t \in ClassTypes(gv)}

LEMMA AddressPointsType ==
  ASSUME AnalyzerTypeOK, NEW gv \in Global
  PROVE  AddressPointsOf(gv) \in SUBSET (TypeId \X AddressPoint)
BY DEF AnalyzerTypeOK, IsVCallModule, AddressPointsOf, ClassTypes, AddressPoint

LEMMA CandidatesType ==
  ASSUME NEW id, NEW offset, NEW s \in Site
  PROVE  {<<f, s>> : f \in Candidates(id, offset)} \in SUBSET (Function \X Site)
BY DEF Candidates

\* What a call is looked up under is never the id of a local class.
LEMMA TestedIdsType ==
  ASSUME AnalyzerTypeOK, NEW s \in DOMAIN M.calls
  PROVE  TestedIds(s) \subseteq TypeId \cup {VirtualId, EmptyId}
BY DEF AnalyzerTypeOK, IsVCallModule, IsMap, TestedIds, Id

\* A step keeps every variable to its type, and no loop begins before the one
\* ahead of it has ended.
LEMMA AnalyzerTypeStep ==
  ASSUME AnalyzerTypeOK, [AnalyzerNext]_vcallVars
  PROVE  AnalyzerTypeOK'
<1> USE DEF AnalyzerTypeOK, IsSubclassesMap
<1>1. CASE AnalyzerStart
  BY <1>1, EmptyMapType DEF AnalyzerStart
<1>2. ASSUME NEW gv \in Global, SkipGlobal(gv)
      PROVE  AnalyzerTypeOK'
  BY <1>2 DEF SkipGlobal
<1>3. ASSUME NEW gv \in Global, RegisterVTable(gv)
      PROVE  AnalyzerTypeOK'
  <2>1. IsMap(SubclassesMap', TypeInfo \cup {NoTypeInfo}, SUBSET (TypeInfo \cup {NoTypeInfo}))
    BY <1>3, RelatedType, InsertPairsType DEF RegisterVTable
  <2>2. IsMap(TypeIdCompatibleMap', TypeId \cup {VirtualId, EmptyId}, SUBSET AddressPoint)
    <3>1. AddressPointsOf(gv) \in SUBSET ((TypeId \cup {VirtualId, EmptyId}) \X AddressPoint)
      BY AddressPointsType
    <3> QED BY <1>3, <3>1, InsertPairsType DEF RegisterVTable, AddressPointsOf
  <2> QED BY <1>3, <2>1, <2>2 DEF RegisterVTable
<1>4. CASE StartCalls
  BY <1>4 DEF StartCalls, AllRegistered
<1>5. ASSUME NEW s \in Site, SkipCall(s)
      PROVE  AnalyzerTypeOK'
  BY <1>5 DEF SkipCall
<1>6. ASSUME NEW s \in Site, ResolveCall(s)
      PROVE  AnalyzerTypeOK'
  <2>1. PICK id \in TestedIds(s) :
          /\ TypeIdCompatibleMap' =
               [k \in DOMAIN TypeIdCompatibleMap \cup {id} |-> At(TypeIdCompatibleMap, k)]
          /\ CallerMap' =
               InsertPairs(CallerMap, {<<f, s>> : f \in Candidates(id, M.calls[s].offset)})
    BY <1>6 DEF ResolveCall
  <2>2. IsMap(CallerMap', Function, SUBSET Site)
    <3> DEFINE pairs == {<<f, s>> : f \in Candidates(id, M.calls[s].offset)}
    <3>1. pairs \in SUBSET (Function \X Site)
      BY CandidatesType
    <3>2. IsMap(CallerMap, Function, SUBSET Site) /\ CallerMap' = InsertPairs(CallerMap, pairs)
      BY <2>1
    <3> HIDE DEF pairs
    <3> QED BY <3>1, <3>2, InsertPairsType
  <2>3. IsMap(TypeIdCompatibleMap', TypeId \cup {VirtualId, EmptyId}, SUBSET AddressPoint)
    <3>1. id \in TypeId \cup {VirtualId, EmptyId}
      BY <1>6, TestedIdsType DEF ResolveCall
    <3>2. \A k : At(TypeIdCompatibleMap, k) \in SUBSET AddressPoint
      BY AtType
    <3> QED BY <2>1, <3>1, <3>2 DEF IsMap
  <2> QED BY <1>6, <2>2, <2>3 DEF ResolveCall
<1>7. ASSUME NEW s \in Site, CrashOnCall(s)
      PROVE  AnalyzerTypeOK'
  BY <1>7 DEF CrashOnCall
<1>8. CASE Return
  BY <1>8 DEF Return
<1>9. CASE UNCHANGED vcallVars
  BY <1>9 DEF vcallVars, analyzerVars
<1>10. ASSUME NEW gv \in Global, CrashOnVTable(gv)
       PROVE  AnalyzerTypeOK'
  <2>1. PICK t \in ClassTypes(gv), before \in SUBSET ClassTypes(gv) :
          /\ TypeIdCompatibleMap' =
               InsertPairs(TypeIdCompatibleMap,
                 {<<e.id, [vtable |-> gv, offset |-> e.offset]>> : e \in before \cup {t}})
          /\ SubclassesMap' = InsertPairs(SubclassesMap,
                                {<<M.baseInfo[b.id], M.typeInfo[gv]>> : b \in before})
    BY <1>10 DEF CrashOnVTable
  <2> DEFINE inserted == {<<e.id, [vtable |-> gv, offset |-> e.offset]>> : e \in before \cup {t}}
             related == {<<M.baseInfo[b.id], M.typeInfo[gv]>> : b \in before}
  <2>2. inserted \subseteq AddressPointsOf(gv) /\ related \subseteq Related(gv)
    BY DEF AddressPointsOf, Related
  <2>3. /\ inserted \in SUBSET ((TypeId \cup {VirtualId, EmptyId}) \X AddressPoint)
        /\ related \in SUBSET ((TypeInfo \cup {NoTypeInfo}) \X (TypeInfo \cup {NoTypeInfo}))
    BY <1>10, <2>2, AddressPointsType, RelatedType DEF CrashOnVTable
  <2>4. /\ TypeIdCompatibleMap' = InsertPairs(TypeIdCompatibleMap, inserted)
        /\ SubclassesMap' = InsertPairs(SubclassesMap, related)
    BY <2>1
  <2> HIDE DEF inserted, related
  <2>5. /\ IsMap(TypeIdCompatibleMap', TypeId \cup {VirtualId, EmptyId}, SUBSET AddressPoint)
        /\ IsMap(SubclassesMap', TypeInfo \cup {NoTypeInfo}, SUBSET (TypeInfo \cup {NoTypeInfo}))
    BY <2>3, <2>4, InsertPairsType
  <2> QED BY <1>10, <2>5 DEF CrashOnVTable
<1> QED
  BY <1>1, <1>2, <1>3, <1>4, <1>5, <1>6, <1>7, <1>8, <1>9, <1>10 DEF AnalyzerNext

\* The analysis begins with empty maps.
LEMMA AnalyzerTypeInit == AnalyzerInit => AnalyzerTypeOK
<1>1. IsMap(EmptyMap, TypeId \cup {VirtualId, EmptyId}, SUBSET AddressPoint)
  BY EmptyMapType
<1>2. IsMap(EmptyMap, Function, SUBSET Site) /\ IsSubclassesMap(EmptyMap)
  BY EmptyMapType DEF IsSubclassesMap
<1> QED BY <1>1, <1>2, ModulesAssumption DEF AnalyzerInit, AnalyzerTypeOK

\* Every variable keeps to its type, and each loop runs to its end before the
\* next one begins (IndirectCallAnalysis.cpp:20-72).
THEOREM AnalyzerTypeCorrect == AnalyzerSpec => []AnalyzerTypeOK
BY AnalyzerTypeInit, AnalyzerTypeStep, PTL DEF AnalyzerSpec

-----------------------------------------------------------------------------
(* The first loop *)

\* The map holds the address points of the hidden vtables visited, and under a
\* type id only: the entries made by lookups are empty.  An analysis that broke off
\* may have left a vtable half registered.
Registered ==
  vpc # "crashed" => \A id, ap :
    ap \in At(TypeIdCompatibleMap, id) <=>
      /\ id \in TypeId /\ ap \in AddressPoint
      /\ HasType(ap, id) /\ Hidden(ap)
      /\ vpc # "start" /\ ap.vtable \notin globals

\* Classes are related as the hidden vtables visited have it.
RelatedSoFar ==
  vpc # "crashed" => \A base, derived :
    derived \in At(SubclassesMap, base) <=>
      \E gv \in M.vtables \ (M.public \cup globals) :
        vpc # "start" /\ <<base, derived>> \in Related(gv)

LEMMA AddressPointsMember ==
  ASSUME AnalyzerTypeOK, NEW gv \in Global, NEW id, NEW ap
  PROVE  <<id, ap>> \in AddressPointsOf(gv) <=>
           id \in TypeId /\ ap \in AddressPoint /\ HasType(ap, id) /\ ap.vtable = gv
<1>1. ASSUME <<id, ap>> \in AddressPointsOf(gv)
      PROVE  id \in TypeId /\ ap \in AddressPoint /\ HasType(ap, id) /\ ap.vtable = gv
  <2>1. PICK t \in ClassTypes(gv) : id = t.id /\ ap = [vtable |-> gv, offset |-> t.offset]
    BY <1>1 DEF AddressPointsOf
  <2>2. t \in [offset : ObjectWord, id : Id] /\ t \in M.types[gv] /\ t.id \in TypeId
    BY DEF ClassTypes, AnalyzerTypeOK, IsVCallModule
  <2>3. t = [offset |-> t.offset, id |-> t.id]
    BY <2>2
  <2> QED BY <2>1, <2>2, <2>3 DEF HasType, AddressPoint
<1>2. ASSUME id \in TypeId, ap \in AddressPoint, HasType(ap, id), ap.vtable = gv
      PROVE  <<id, ap>> \in AddressPointsOf(gv)
  <2> DEFINE t == [offset |-> ap.offset, id |-> id]
  <2>1. t \in ClassTypes(gv)
    BY <1>2 DEF HasType, ClassTypes
  <2>2. ap = [vtable |-> gv, offset |-> t.offset] /\ t.id = id
    BY <1>2 DEF AddressPoint
  <2> QED BY <2>1, <2>2 DEF AddressPointsOf
<1> QED BY <1>1, <1>2

LEMMA RegisteredStep ==
  ASSUME AnalyzerTypeOK, Registered, [AnalyzerNext]_vcallVars
  PROVE  Registered'
<1> USE DEF HasType, Hidden
<1>1. CASE AnalyzerStart
  <2>1. globals' = Global /\ M' = M /\ \A id : At(TypeIdCompatibleMap', id) = {}
    BY <1>1, EmptyMapType DEF AnalyzerStart
  <2> QED BY <2>1 DEF Registered, AddressPoint
<1>2. ASSUME NEW gv \in Global, SkipGlobal(gv)
      PROVE  Registered'
  BY <1>2 DEF SkipGlobal, Registered
<1>3. ASSUME NEW gv \in Global, RegisterVTable(gv)
      PROVE  Registered'
  <2>1. \A id, ap : ap \in At(TypeIdCompatibleMap', id) <=>
                      ap \in At(TypeIdCompatibleMap, id) \/ <<id, ap>> \in AddressPointsOf(gv)
    BY <1>3, AddressPointsType, InsertPairsMember DEF RegisterVTable, AddressPointsOf
  <2>2. /\ M' = M /\ vpc' = vpc /\ vpc # "start" /\ globals' = globals \ {gv}
        /\ gv \in globals /\ gv \notin M.public /\ gv \in M.vtables
    BY <1>3 DEF RegisterVTable
  <2> QED BY <2>1, <2>2, AddressPointsMember DEF Registered
<1>4. CASE StartCalls
  BY <1>4 DEF StartCalls, AllRegistered, Registered
<1>5. ASSUME NEW s \in Site, SkipCall(s)
      PROVE  Registered'
  BY <1>5 DEF SkipCall, Registered
<1>6. ASSUME NEW s \in Site, ResolveCall(s)
      PROVE  Registered'
  <2>1. \A id : At(TypeIdCompatibleMap', id) = At(TypeIdCompatibleMap, id)
    BY <1>6 DEF ResolveCall, At
  <2> QED BY <1>6, <2>1 DEF ResolveCall, Registered
<1>7. CASE vpc' = "crashed"
  BY <1>7 DEF Registered
<1>8. CASE Return
  BY <1>8 DEF Return, Registered
<1>9. CASE UNCHANGED vcallVars
  BY <1>9 DEF vcallVars, analyzerVars, Registered
<1> QED
  BY <1>1, <1>2, <1>3, <1>4, <1>5, <1>6, <1>7, <1>8, <1>9
     DEF AnalyzerNext, CrashOnVTable, CrashOnCall

LEMMA RegisteredHolds == AnalyzerSpec => []Registered
<1>1. AnalyzerInit => Registered
  BY EmptyMapType DEF AnalyzerInit, Registered
<1> QED BY <1>1, RegisteredStep, AnalyzerTypeCorrect, PTL DEF AnalyzerSpec

LEMMA RelatedMember ==
  ASSUME AnalyzerTypeOK, NEW gv \in Global, gv \in M.vtables, NEW base, NEW derived
  PROVE  <<base, derived>> \in Related(gv) <=>
           \E ap \in AddressPoint, id \in TypeId :
             /\ HasType(ap, id) /\ ap.vtable = gv
             /\ M.typeInfo[gv] = derived /\ M.baseInfo[id] = base
<1>1. ASSUME <<base, derived>> \in Related(gv)
      PROVE  \E ap \in AddressPoint, id \in TypeId :
               /\ HasType(ap, id) /\ ap.vtable = gv
               /\ M.typeInfo[gv] = derived /\ M.baseInfo[id] = base
  <2>1. PICK t \in ClassTypes(gv) : base = M.baseInfo[t.id] /\ derived = M.typeInfo[gv]
    BY <1>1 DEF Related
  <2>2. t \in [offset : ObjectWord, id : Id] /\ t \in M.types[gv] /\ t.id \in TypeId
    BY DEF ClassTypes, AnalyzerTypeOK, IsVCallModule
  <2>3. t = [offset |-> t.offset, id |-> t.id]
    BY <2>2
  <2> DEFINE ap == [vtable |-> gv, offset |-> t.offset]
  <2>4. ap \in AddressPoint /\ HasType(ap, t.id) /\ ap.vtable = gv
    BY <2>2, <2>3 DEF HasType, AddressPoint
  <2> QED BY <2>1, <2>2, <2>4
<1>2. ASSUME NEW ap \in AddressPoint, NEW id \in TypeId,
             HasType(ap, id), ap.vtable = gv,
             M.typeInfo[gv] = derived, M.baseInfo[id] = base
      PROVE  <<base, derived>> \in Related(gv)
  <2> DEFINE t == [offset |-> ap.offset, id |-> id]
  <2>1. t \in ClassTypes(gv) /\ t.id = id
    BY <1>2 DEF HasType, ClassTypes
  <2> QED BY <1>2, <2>1 DEF Related
<1> QED BY <1>1, <1>2

LEMMA RelatedStep ==
  ASSUME AnalyzerTypeOK, RelatedSoFar, [AnalyzerNext]_vcallVars
  PROVE  RelatedSoFar'
<1>1. CASE AnalyzerStart
  <2>1. globals' = Global /\ M' = M /\ SubclassesMap' = SubclassesMap /\ M.vtables \subseteq Global
    BY <1>1 DEF AnalyzerStart, AnalyzerTypeOK, IsVCallModule
  <2>2. \A base : At(SubclassesMap, base) = {}
    BY <1>1 DEF AnalyzerStart, RelatedSoFar
  <2> QED BY <2>1, <2>2 DEF RelatedSoFar
<1>2. ASSUME NEW gv \in Global, RegisterVTable(gv)
      PROVE  RelatedSoFar'
  <2>1. \A base, derived :
          derived \in At(SubclassesMap', base) <=>
            derived \in At(SubclassesMap, base) \/ <<base, derived>> \in Related(gv)
    BY <1>2, RelatedType, InsertPairsMember DEF RegisterVTable
  <2>2. /\ M' = M /\ vpc' = vpc /\ vpc # "start" /\ globals' = globals \ {gv}
        /\ gv \in globals /\ gv \notin M.public /\ gv \in M.vtables
    BY <1>2 DEF RegisterVTable
  <2>3. \A g : Related(g)' = Related(g)
    BY <2>2 DEF Related, ClassTypes
  <2> QED BY <2>1, <2>2, <2>3 DEF RelatedSoFar
<1>3. ASSUME M' = M, SubclassesMap' = SubclassesMap, vpc \notin {"start", "crashed"}, vpc' # "start",
             M.vtables \ (M.public \cup globals') = M.vtables \ (M.public \cup globals)
      PROVE  RelatedSoFar'
  <2>1. \A g : Related(g)' = Related(g)
    BY <1>3 DEF Related, ClassTypes
  <2> QED BY <1>3, <2>1 DEF RelatedSoFar
<1>4. ASSUME NEW gv \in Global, SkipGlobal(gv)
      PROVE  RelatedSoFar'
  BY <1>3, <1>4 DEF SkipGlobal
<1>5. CASE StartCalls
  BY <1>3, <1>5 DEF StartCalls, AllRegistered
<1>6. ASSUME NEW s \in Site, SkipCall(s) \/ ResolveCall(s)
      PROVE  RelatedSoFar'
  BY <1>3, <1>6 DEF SkipCall, ResolveCall
<1>7. CASE Return
  BY <1>3, <1>7 DEF Return
<1>8. CASE UNCHANGED vcallVars
  <2>1. \A g : Related(g)' = Related(g)
    BY <1>8 DEF vcallVars, analyzerVars, Related, ClassTypes
  <2> QED BY <1>8, <2>1 DEF vcallVars, analyzerVars, RelatedSoFar
<1>9. CASE vpc' = "crashed"
  BY <1>9 DEF RelatedSoFar
<1> QED
  BY <1>1, <1>2, <1>4, <1>5, <1>6, <1>7, <1>8, <1>9
     DEF AnalyzerNext, CrashOnVTable, CrashOnCall

\* Once all globals are visited, that is what the vtables say.
LEMMA RelatedExact ==
  ASSUME AnalyzerTypeOK, RelatedSoFar
  PROVE  SubclassesExact
<1> SUFFICES ASSUME vpc \in {"calls", "done"},
                    NEW base \in TypeInfo, NEW derived \in TypeInfo
             PROVE  base \in DOMAIN SubclassesMap /\ derived \in SubclassesMap[base] <=>
                      \E ap \in AddressPoint, id \in TypeId :
                        /\ Hidden(ap) /\ HasType(ap, id)
                        /\ M.typeInfo[ap.vtable] = derived /\ M.baseInfo[id] = base
  BY DEF SubclassesExact
<1>1. base \in DOMAIN SubclassesMap /\ derived \in SubclassesMap[base]
        <=> derived \in At(SubclassesMap, base)
  BY DEF At
<1>2. derived \in At(SubclassesMap, base) <=>
        \E gv \in M.vtables \ M.public : <<base, derived>> \in Related(gv)
  <2>1. globals = {}
    BY DEF AnalyzerTypeOK
  <2> QED BY <2>1 DEF RelatedSoFar
<1>3. \A gv \in M.vtables : <<base, derived>> \in Related(gv) <=>
        \E ap \in AddressPoint, id \in TypeId :
          /\ HasType(ap, id) /\ ap.vtable = gv
          /\ M.typeInfo[gv] = derived /\ M.baseInfo[id] = base
  BY RelatedMember DEF AnalyzerTypeOK, IsVCallModule
<1> QED BY <1>1, <1>2, <1>3 DEF Hidden

\* Two classes are related exactly if a hidden vtable of the one has an address
\* point for the other (IndirectCallAnalysis.cpp:24-57).
THEOREM SubclassesExactHolds == AnalyzerSpec => []SubclassesExact
<1>1. AnalyzerInit => RelatedSoFar
  BY EmptyMapType DEF AnalyzerInit, RelatedSoFar
<1> QED BY <1>1, RelatedExact, RelatedStep, AnalyzerTypeCorrect, PTL DEF AnalyzerSpec

-----------------------------------------------------------------------------
(* The second loop *)

\* The addition that ignores its overflow finds the slot that the signed offset
\* means: no vtable reaches so far that a wrong one could wrap into it.
LEMMA WrapAround ==
  ASSUME NEW w \in Word, NEW v \in ObjectWord, NEW position \in ObjectWord
  PROVE  uadd_ov(w, v) = position <=> v + Signed(w) = position
<1> USE ModulusAssumption DEF Word, ObjectWord
<1>1. w \in Int /\ v \in Int /\ position \in Int /\ Modulus \in Int /\ Modulus > 0
      /\ 0 <= w /\ w < Modulus /\ 0 <= v /\ 2 * v < Modulus
      /\ 0 <= position /\ 2 * position < Modulus
  OBVIOUS
<1>2. (w + v) % Modulus = IF w + v < Modulus THEN w + v ELSE w + v - Modulus
  <2>1. CASE w + v < Modulus
    BY <1>1, <2>1
  <2>2. CASE w + v >= Modulus
    <3>1. w + v - Modulus \in 0..(Modulus - 1)
      BY <1>1, <2>2
    <3>2. (w + v - Modulus) % Modulus = w + v - Modulus
      BY <1>1, <3>1
    <3> QED BY <1>1, <2>2, <3>1, <3>2
  <2> QED BY <1>1, <2>1, <2>2
<1> QED BY <1>1, <1>2 DEF uadd_ov, Signed

\* A candidate is a function that runs on an object that passes the test, and
\* every such function is one.
LEMMA CandidatesExact ==
  ASSUME AnalyzerTypeOK, Registered, vpc = "calls",
         NEW s \in DOMAIN M.calls, NEW id, NEW f \in Function
  PROVE  f \in Candidates(id, M.calls[s].offset) <=>
           /\ Implemented(f) /\ id \in TypeId
           /\ \E ap \in AddressPoint : HasType(ap, id) /\ Hidden(ap) /\ Runs(s, ap, f)
<1> DEFINE offset == M.calls[s].offset
           entry(ap) == uadd_ov(offset, ap.offset)
           position(ap) == ap.offset + Signed(offset)
           slots(ap) == M.slots[ap.vtable]
<1>1. offset \in Word
  BY DEF AnalyzerTypeOK, IsVCallModule, IsMap
<1>2. \A ap : ap \in Compatible(id) <=>
              id \in TypeId /\ ap \in AddressPoint /\ HasType(ap, id) /\ Hidden(ap)
  BY DEF Registered, Compatible, AnalyzerTypeOK
<1>3. \A ap \in AddressPoint :
        entry(ap) \in DOMAIN slots(ap) /\ slots(ap)[entry(ap)] = f <=>
        position(ap) \in DOMAIN slots(ap) /\ slots(ap)[position(ap)] = f
  <2> TAKE ap \in AddressPoint
  <2>1. ap.offset \in ObjectWord /\ DOMAIN slots(ap) \subseteq ObjectWord
    BY DEF AddressPoint, AnalyzerTypeOK, IsVCallModule, IsMap
  <2>2. \A p \in DOMAIN slots(ap) : entry(ap) = p <=> position(ap) = p
    BY <1>1, <2>1, WrapAround
  <2> HIDE DEF offset, entry, position, slots
  <2> QED BY <2>2
<1>4. f \in Candidates(id, offset) <=>
        /\ Implemented(f)
        /\ \E ap \in Compatible(id) :
             entry(ap) \in DOMAIN slots(ap) /\ slots(ap)[entry(ap)] = f
  BY DEF Candidates, Implemented
<1>5. \A ap : Runs(s, ap, f) <=>
              position(ap) \in DOMAIN slots(ap) /\ slots(ap)[position(ap)] = f
  BY DEF Runs
<1> HIDE DEF entry, position, slots
<1> QED BY <1>2, <1>3, <1>4, <1>5

\* The empty id is no test; what a call is looked up under otherwise is one.
LEMMA TestedIdsTested ==
  ASSUME AnalyzerTypeOK, NEW s \in DOMAIN M.calls, NEW id \in TestedIds(s), id \in TypeId
  PROVE  id \in M.calls[s].tests
BY IdAssumption DEF TestedIds

\* A call is recorded for a function that runs on some object.
LEMMA OnlyRealCallersStep ==
  ASSUME AnalyzerTypeOK, Registered, OnlyRealCallers, [AnalyzerNext]_vcallVars
  PROVE  OnlyRealCallers'
<1>1. ASSUME M' = M, CallerMap' = CallerMap
      PROVE  OnlyRealCallers'
  BY <1>1 DEF OnlyRealCallers, Implemented, HasType, Hidden, Runs
<1>2. ASSUME NEW s \in Site, ResolveCall(s), NEW f \in DOMAIN CallerMap', NEW r \in CallerMap'[f]
      PROVE  /\ Implemented(f)
             /\ r \in DOMAIN M.calls
             /\ \E id \in M.calls[r].tests, ap \in AddressPoint :
                  HasType(ap, id) /\ Hidden(ap) /\ Runs(r, ap, f)
  <2>1. PICK id \in TestedIds(s) :
          CallerMap' =
            InsertPairs(CallerMap, {<<g, s>> : g \in Candidates(id, M.calls[s].offset)})
    BY <1>2 DEF ResolveCall
  <2> DEFINE pairs == {<<g, s>> : g \in Candidates(id, M.calls[s].offset)}
  <2>2. pairs \in SUBSET (Function \X Site)
    BY CandidatesType
  <2>3. r \in At(CallerMap, f) \/ <<f, r>> \in pairs
    <3>1. r \in At(CallerMap', f)
      BY <1>2 DEF At
    <3>2. CallerMap' = InsertPairs(CallerMap, pairs)
      BY <2>1
    <3> HIDE DEF pairs
    <3> QED BY <2>2, <3>1, <3>2, InsertPairsMember
  <2>4. CASE r \in At(CallerMap, f)
    BY <2>4 DEF OnlyRealCallers, At
  <2>5. CASE <<f, r>> \in pairs
    <3>1. r = s /\ f \in Candidates(id, M.calls[s].offset) /\ f \in Function
      BY <2>5 DEF Candidates
    <3>2. s \in DOMAIN M.calls /\ vpc = "calls"
      BY <1>2 DEF ResolveCall
    <3>3. /\ Implemented(f) /\ id \in TypeId
          /\ \E ap \in AddressPoint : HasType(ap, id) /\ Hidden(ap) /\ Runs(s, ap, f)
      BY <3>1, <3>2, CandidatesExact
    <3> QED BY <3>1, <3>2, <3>3, TestedIdsTested
  <2> QED BY <2>3, <2>4, <2>5
<1>3. ASSUME NEW s \in Site, ResolveCall(s)
      PROVE  OnlyRealCallers'
  <2>1. M' = M
    BY <1>3 DEF ResolveCall
  <2> QED BY <1>2, <1>3, <2>1 DEF OnlyRealCallers, Implemented, HasType, Hidden, Runs
<1> QED
  BY <1>1, <1>3 DEF AnalyzerNext, vcallVars, analyzerVars, AnalyzerStart, SkipGlobal,
                    RegisterVTable, CrashOnVTable, StartCalls, SkipCall, CrashOnCall, Return

\* No caller is made up (IndirectCallAnalysis.cpp:93-128).
THEOREM OnlyRealCallersHolds == AnalyzerSpec => []OnlyRealCallers
<1>1. AnalyzerInit => OnlyRealCallers
  BY EmptyMapType DEF AnalyzerInit, OnlyRealCallers
<1> QED BY <1>1, OnlyRealCallersStep, AnalyzerTypeCorrect, RegisteredHolds, PTL DEF AnalyzerSpec

\* CallsResolved for the calls visited: the second loop has done its work on
\* them although it looked at one of their tests only.
ResolvedSoFar ==
  vpc \in {"calls", "done"} =>
    \A s \in DOMAIN M.calls \ vcalls, ap \in AddressPoint, f \in Function :
      /\ M.calls[s].tests # {} /\ M.calls[s].tests \subseteq TypeId
      /\ \A id \in M.calls[s].tests : HasType(ap, id)
      /\ Hidden(ap) /\ Runs(s, ap, f) /\ Implemented(f)
      => s \in At(CallerMap, f)

LEMMA ResolvedStep ==
  ASSUME AnalyzerTypeOK, Registered, ResolvedSoFar, [AnalyzerNext]_vcallVars
  PROVE  ResolvedSoFar'
<1> USE DEF HasType, Hidden, Runs, Implemented
<1>1. CASE vpc' \notin {"calls", "done"}
  BY <1>1 DEF ResolvedSoFar
<1>2. CASE StartCalls
  <2>1. M' = M /\ vcalls' = Site /\ DOMAIN M.calls \subseteq Site
    BY <1>2 DEF StartCalls, AnalyzerTypeOK, IsVCallModule, IsMap
  <2> QED BY <2>1 DEF ResolvedSoFar
<1>3. ASSUME NEW s \in Site, SkipCall(s)
      PROVE  ResolvedSoFar'
  <2>1. /\ M' = M /\ vpc' = vpc /\ vpc = "calls" /\ CallerMap' = CallerMap
        /\ vcalls' = vcalls \ {s}
    BY <1>3 DEF SkipCall
  <2>2. CASE s \notin DOMAIN M.calls
    BY <2>1, <2>2 DEF ResolvedSoFar
  <2>3. CASE DOMAIN TypeIdCompatibleMap = {}
    <3>1. \A id \in TypeId, ap \in AddressPoint : ~(HasType(ap, id) /\ Hidden(ap))
      BY <2>1, <2>3 DEF Registered, At, AnalyzerTypeOK
    <3>2. \A r \in DOMAIN M.calls, ap \in AddressPoint :
            ~(/\ M.calls[r].tests # {} /\ M.calls[r].tests \subseteq TypeId
              /\ \A id \in M.calls[r].tests : HasType(ap, id)
              /\ Hidden(ap))
      BY <3>1
    <3> QED BY <2>1, <3>2 DEF ResolvedSoFar
  <2> QED BY <1>3, <2>2, <2>3 DEF SkipCall
<1>4. ASSUME NEW s \in Site, ResolveCall(s)
      PROVE  ResolvedSoFar'
  <2>1. /\ M' = M /\ vpc' = vpc /\ vpc = "calls" /\ vcalls' = vcalls \ {s}
        /\ s \in DOMAIN M.calls
    BY <1>4 DEF ResolveCall
  <2>2. PICK id \in TestedIds(s) :
          CallerMap' =
            InsertPairs(CallerMap, {<<g, s>> : g \in Candidates(id, M.calls[s].offset)})
    BY <1>4 DEF ResolveCall
  <2> DEFINE pairs == {<<g, s>> : g \in Candidates(id, M.calls[s].offset)}
  <2>3. \A f, r : r \in At(CallerMap', f) <=> r \in At(CallerMap, f) \/ <<f, r>> \in pairs
    <3>1. pairs \in SUBSET (Function \X Site)
      BY CandidatesType
    <3>2. CallerMap' = InsertPairs(CallerMap, pairs)
      BY <2>2
    <3> HIDE DEF pairs
    <3> QED BY <3>1, <3>2, InsertPairsMember
  <2>4. ASSUME NEW ap \in AddressPoint, NEW f \in Function,
               M.calls[s].tests # {}, M.calls[s].tests \subseteq TypeId,
               \A i \in M.calls[s].tests : HasType(ap, i),
               Hidden(ap), Runs(s, ap, f), Implemented(f)
        PROVE  <<f, s>> \in pairs
    <3>1. id \in M.calls[s].tests
      BY <2>4, IdAssumption DEF TestedIds
    <3>2. f \in Candidates(id, M.calls[s].offset)
      <4> HIDE DEF HasType, Hidden, Runs, Implemented
      <4> QED BY <2>1, <2>4, <3>1, CandidatesExact
    <3> QED BY <3>2
  <2> HIDE DEF pairs
  <2> QED BY <2>1, <2>3, <2>4 DEF ResolvedSoFar
<1>5. CASE Return
  BY <1>5 DEF Return, ResolvedSoFar
<1>6. CASE UNCHANGED vcallVars
  BY <1>6 DEF vcallVars, analyzerVars, ResolvedSoFar
<1> QED
  BY <1>1, <1>2, <1>3, <1>4, <1>5, <1>6
  DEF AnalyzerNext, AnalyzerStart, SkipGlobal, RegisterVTable, CrashOnVTable, CrashOnCall

\* Once all calls are visited, none is missed.
LEMMA ResolvedExact ==
  ASSUME AnalyzerTypeOK, ResolvedSoFar
  PROVE  CallsResolved
BY DEF AnalyzerTypeOK, ResolvedSoFar, CallsResolved, At

\* No virtual call is missed, for every width of a word and every offset that
\* wraps around in it (IndirectCallAnalysis.cpp:59-72, 100-128).
THEOREM CallsResolvedHolds == AnalyzerSpec => []CallsResolved
<1>1. AnalyzerInit => ResolvedSoFar
  BY DEF AnalyzerInit, ResolvedSoFar
<1> QED BY <1>1, ResolvedExact, ResolvedStep, AnalyzerTypeCorrect, RegisteredHolds, PTL DEF AnalyzerSpec

\* A step breaks off only for a vtable it looks into, or one of its ids.
LEMMA CrashHasReasonStep ==
  ASSUME AnalyzerTypeOK, Registered, CrashHasReason, [AnalyzerNext]_vcallVars
  PROVE  CrashHasReason'
<1> SUFFICES ASSUME vpc' = "crashed" PROVE MeetsOpaque' \/ Misnamed'
  BY DEF CrashHasReason
<1>1. ASSUME NEW s \in Site, CrashOnCall(s)
      PROVE  MeetsOpaque'
  <2>1. M' = M /\ vpc = "calls" /\ s \in DOMAIN M.calls
    BY <1>1 DEF CrashOnCall
  <2>2. PICK id \in TestedIds(s) : FoldsToNull(id)
    BY <1>1 DEF CrashOnCall
  <2>3. PICK ap \in Compatible(id) : ap.vtable \in M.opaque
    BY <2>2 DEF FoldsToNull
  <2>4. id \in TypeId /\ ap \in AddressPoint /\ HasType(ap, id) /\ Hidden(ap)
    BY <2>1 DEF Registered, Compatible
  <2>5. id \in M.calls[s].tests
    BY <2>1, <2>4, TestedIdsTested
  <2> QED BY <2>1, <2>3, <2>4, <2>5 DEF MeetsOpaque, HasType, Hidden
<1>2. CASE UNCHANGED vcallVars
  BY <1>2 DEF vcallVars, analyzerVars, CrashHasReason, MeetsOpaque, Misnamed, HasType, Hidden
<1>3. ASSUME NEW gv \in Global, CrashOnVTable(gv)
      PROVE  Misnamed'
  <2>1. M' = M /\ gv \in M.vtables \ M.public
    BY <1>3 DEF CrashOnVTable
  <2>2. PICK t \in ClassTypes(gv) : t.id \in Unprefixed
    BY <1>3 DEF CrashOnVTable
  <2>3. t \in [offset : ObjectWord, id : Id] /\ t \in M.types[gv]
    BY DEF ClassTypes, AnalyzerTypeOK, IsVCallModule
  <2>4. t = [offset |-> t.offset, id |-> t.id]
    BY <2>3
  <2> DEFINE ap == [vtable |-> gv, offset |-> t.offset]
  <2>5. ap \in AddressPoint /\ ap.vtable = gv /\ HasType(ap, t.id)
    BY <2>3, <2>4 DEF AddressPoint, HasType
  <2> HIDE DEF ap
  <2> QED BY <2>1, <2>2, <2>5 DEF Misnamed, Hidden, HasType
<1> QED
  BY <1>1, <1>2, <1>3 DEF AnalyzerNext, AnalyzerStart, SkipGlobal, RegisterVTable, StartCalls, SkipCall,
                    ResolveCall, Return

\* The analysis breaks off only at a hidden vtable with a type id that does not
\* begin with _ZTS, or at a call that can be made on an object of a hidden class
\* whose vtable is defined elsewhere (IndirectCallAnalysis.cpp:49-50, 120-122).
THEOREM CrashHasReasonHolds == AnalyzerSpec => []CrashHasReason
<1>1. AnalyzerInit => CrashHasReason
  BY DEF AnalyzerInit, CrashHasReason
<1> QED
  BY <1>1, CrashHasReasonStep, AnalyzerTypeCorrect, RegisteredHolds, PTL DEF AnalyzerSpec

-----------------------------------------------------------------------------
(* The analysis as a part of a program *)

\* The invariants that a step of the analysis needs and keeps.
AnalyzerInvariant ==
  /\ AnalyzerTypeOK /\ Registered /\ RelatedSoFar
  /\ ResolvedSoFar /\ OnlyRealCallers /\ CrashHasReason

LEMMA AnalyzerInvariantInit == AnalyzerInit => AnalyzerInvariant
<1>1. AnalyzerInit => Registered /\ RelatedSoFar /\ OnlyRealCallers /\ CrashHasReason
  BY EmptyMapType DEF AnalyzerInit, Registered, RelatedSoFar, OnlyRealCallers, CrashHasReason
<1>2. AnalyzerInit => ResolvedSoFar
  BY DEF AnalyzerInit, ResolvedSoFar
<1> QED BY <1>1, <1>2, AnalyzerTypeInit DEF AnalyzerInvariant

LEMMA AnalyzerInvariantStep ==
  ASSUME AnalyzerInvariant, [AnalyzerNext]_vcallVars
  PROVE  AnalyzerInvariant'
BY AnalyzerTypeStep, RegisteredStep, RelatedStep, ResolvedStep, OnlyRealCallersStep,
   CrashHasReasonStep
   DEF AnalyzerInvariant
=============================================================================
