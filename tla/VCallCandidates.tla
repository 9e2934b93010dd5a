---------------------------- MODULE VCallCandidates ----------------------------
(***************************************************************************)
(* VCallCandidatesAnalyzer::analyze and getVCallCandidates                 *)
(* (src/IndirectCallAnalysis.cpp): first every vtable of the module is     *)
(* registered under the type ids it is compatible with, then every call    *)
(* through a loaded pointer is resolved to the functions in the slot of    *)
(* the compatible vtables.  A step is one iteration of either outer loop.  *)
(*                                                                         *)
(* Offsets are 64-bit words in the code and words of Modulus values here.  *)
(***************************************************************************)
EXTENDS Integers, FiniteSets, VCallResults

CONSTANTS
  Global,       \* its global variables
  TypeId,       \* the strings that identify a class type
  Unprefixed,   \* those that do not begin with _ZTS, as clang's "all-vtables"
  LocalId,      \* an identifier that is no string: a class with internal linkage
  VirtualId,    \* the ids that end in .virtual: member function pointers
  EmptyId,      \* the empty string, a TypeId that was never set
  PureVirtual,  \* the function named "__cxa_pure_virtual"
  Modulus,      \* how many values a word has
  Modules       \* the modules a behaviour may analyze

ASSUME ModulusAssumption == Modulus \in Nat \ {0}
ASSUME GlobalAssumption == IsFiniteSet(Global)
ASSUME UnprefixedAssumption == Unprefixed \subseteq TypeId
ASSUME IdAssumption == TypeId \cap {LocalId, VirtualId, EmptyId} = {}
ASSUME EmptyIdAssumption == EmptyId \notin {LocalId, VirtualId}

Word == 0..(Modulus - 1)
ObjectWord == {w \in Word : 2 * w < Modulus}  \* no object is larger than that
Id == TypeId \cup {LocalId, VirtualId}

(***************************************************************************)
(* The part of the LLVM module the analysis reads.                         *)
(*   vtables    the globals whose name begins with _ZTV                    *)
(*   public     the globals of public vcall visibility, the default        *)
(*   types      the !type metadata of a global                             *)
(*   typeInfo   the type info of a vtable's class                          *)
(*   baseInfo   the type info of the class named by what follows the first *)
(*              four characters of an id                                   *)
(*   slots      what a load from a constant vtable at an offset folds to,  *)
(*              where that is a function                                   *)
(*   opaque     the vtables without an initializer that loads fold to      *)
(*   declared   the functions without a body                               *)
(*   calls      the calls whose callee is loaded from memory: the constant *)
(*              offset of the load from its underlying object, and the ids *)
(*              that object is tested for with llvm.type.test              *)
(***************************************************************************)
IsVCallModule(m) ==
  /\ m.vtables \subseteq Global
  /\ m.public \subseteq Global
  /\ m.types \in [Global -> SUBSET [offset : ObjectWord, id : Id]]
  /\ m.typeInfo \in [m.vtables -> TypeInfo \cup {NoTypeInfo}]
  /\ m.baseInfo \in [TypeId -> TypeInfo \cup {NoTypeInfo}]
  /\ \A gv \in Global : IsMap(m.slots[gv], ObjectWord, Function)
  /\ m.opaque \subseteq Global
  /\ m.declared \subseteq Function
  /\ IsMap(m.calls, Site, [offset : Word, tests : SUBSET Id])

ASSUME ModulesAssumption == \A m \in Modules : IsVCallModule(m)

VARIABLES
  TypeIdCompatibleMap,  \* the address points compatible with a type id
  globals,              \* the globals the first loop has still to visit
  vcalls,               \* the calls the second loop has still to visit
  vpc                   \* "start", "globals", "calls", "done" or "crashed"

analyzerVars == <<TypeIdCompatibleMap, globals, vcalls, vpc>>
vcallVars == <<M, SubclassesMap, CallerMap, analyzerVars>>

-----------------------------------------------------------------------------
(* Queries *)

\* The !type entries of a global that name a class.
ClassTypes(gv) == {t \in M.types[gv] : t.id \in TypeId}

\* TypeId once the search for a type test is over: that of the first test in
\* use-list order, or the empty string if there is none or it is no string.
TestedIds(s) ==
  IF M.calls[s].tests = {} THEN {EmptyId}
  ELSE {IF id = LocalId THEN EmptyId ELSE id : id \in M.calls[s].tests}

\* Mutant: an offset that overflows is not looked up, the flag being respected.
AddNoOverflow(w, v) == w + v

\* Mutant: the offset is taken from the beginning of the vtable.
AddNothing(w, v) == w

\* uadd_ov with the overflow flag ignored.
uadd_ov(w, v) == (w + v) % Modulus

\* Mutant: the vtables of all classes are looked into.
AllAddressPoints(id) ==
  UNION {TypeIdCompatibleMap[k] : k \in DOMAIN TypeIdCompatibleMap}

Compatible(id) == At(TypeIdCompatibleMap, id)

\* The load from one of the vtables folds to null, which dyn_cast must not get.
FoldsToNull(id) == \E ap \in Compatible(id) : ap.vtable \in M.opaque

Candidates(id, offset) ==
  {f \in Function \ (M.declared \cup {PureVirtual}) :
     \E ap \in Compatible(id) :
       LET w == uadd_ov(offset, ap.offset)
       IN  w \in DOMAIN M.slots[ap.vtable] /\ M.slots[ap.vtable][w] = f}

-----------------------------------------------------------------------------
(* Steps *)

AnalyzerInit ==
  /\ M \in Modules
  /\ TypeIdCompatibleMap = EmptyMap
  /\ SubclassesMap = EmptyMap
  /\ CallerMap = EmptyMap
  /\ globals = {}
  /\ vcalls = {}
  /\ vpc = "start"

\* analyze() begins: two of the maps keep what they hold.
AnalyzerStart ==
  /\ vpc = "start"
  /\ TypeIdCompatibleMap' = EmptyMap
  /\ globals' = Global
  /\ vpc' = "globals"
  /\ UNCHANGED <<M, SubclassesMap, CallerMap, vcalls>>

SkipGlobal(gv) ==
  /\ vpc = "globals" /\ gv \in globals
  /\ gv \in M.public \/ gv \notin M.vtables
  /\ globals' = globals \ {gv}
  /\ UNCHANGED <<M, TypeIdCompatibleMap, SubclassesMap, CallerMap, vcalls, vpc>>

\* Mutant: the base is entered as a subclass of the derived class.
RelatedSwapped(gv) ==
  {<<M.typeInfo[gv], M.baseInfo[t.id]>> : t \in ClassTypes(gv)}

Related(gv) == {<<M.baseInfo[t.id], M.typeInfo[gv]>> : t \in ClassTypes(gv)}

\* insertAddressPoint and the entry in SubclassesMap, for every class type.  An id
\* without _ZTS is llvm_unreachable: a build may assume that there is none.
RegisterVTable(gv) ==
  /\ vpc = "globals" /\ gv \in globals
  /\ gv \notin M.public /\ gv \in M.vtables
  /\ globals' = globals \ {gv}
  /\ TypeIdCompatibleMap' =
       InsertPairs(TypeIdCompatibleMap,
         {<<t.id, [vtable |-> gv, offset |-> t.offset]>> : t \in ClassTypes(gv)})
  /\ SubclassesMap' = InsertPairs(SubclassesMap, Related(gv))
  /\ UNCHANGED <<M, CallerMap, vcalls, vpc>>

\* Or llvm_unreachable ends the process: at the entry t of the vtable, whose address
\* point is inserted already, and after some entries that do begin with _ZTS.
CrashOnVTable(gv) ==
  /\ vpc = "globals" /\ gv \in globals
  /\ gv \notin M.public /\ gv \in M.vtables
  /\ \E t \in ClassTypes(gv), before \in SUBSET ClassTypes(gv) :
       /\ t.id \in Unprefixed /\ \A b \in before : b.id \notin Unprefixed
       /\ TypeIdCompatibleMap' =
            InsertPairs(TypeIdCompatibleMap,
              {<<e.id, [vtable |-> gv, offset |-> e.offset]>> : e \in before \cup {t}})
       /\ SubclassesMap' = InsertPairs(SubclassesMap,
                             {<<M.baseInfo[b.id], M.typeInfo[gv]>> : b \in before})
  /\ globals' = {}
  /\ vpc' = "crashed"
  /\ UNCHANGED <<M, CallerMap, vcalls>>

\* Mutant: calls are resolved while vtables are still being registered.
SomeRegistered == globals # Global

AllRegistered == globals = {}

StartCalls ==
  /\ vpc = "globals" /\ AllRegistered
  /\ vcalls' = Site
  /\ vpc' = "calls"
  /\ UNCHANGED <<M, TypeIdCompatibleMap, SubclassesMap, CallerMap, globals>>

\* No vtable is known at all, or the callee is not loaded.
SkipCall(s) ==
  /\ vpc = "calls" /\ s \in vcalls
  /\ DOMAIN TypeIdCompatibleMap = {} \/ s \notin DOMAIN M.calls
  /\ vcalls' = vcalls \ {s}
  /\ UNCHANGED <<M, TypeIdCompatibleMap, SubclassesMap, CallerMap, globals, vpc>>

\* getVCallCandidates; the lookup itself inserts the id it looks up.
ResolveCall(s) ==
  /\ vpc = "calls" /\ s \in vcalls
  /\ DOMAIN TypeIdCompatibleMap # {} /\ s \in DOMAIN M.calls
  /\ vcalls' = vcalls \ {s}
  /\ \E id \in TestedIds(s) :
       /\ ~FoldsToNull(id)
       /\ TypeIdCompatibleMap' =
            [k \in DOMAIN TypeIdCompatibleMap \cup {id} |-> At(TypeIdCompatibleMap, k)]
       /\ CallerMap' =
            InsertPairs(CallerMap, {<<f, s>> : f \in Candidates(id, M.calls[s].offset)})
  /\ UNCHANGED <<M, SubclassesMap, globals, vpc>>

CrashOnCall(s) ==
  /\ vpc = "calls" /\ s \in vcalls
  /\ s \in DOMAIN M.calls
  /\ \E id \in TestedIds(s) : FoldsToNull(id)
  /\ vpc' = "crashed"
  /\ vcalls' = {}
  /\ UNCHANGED <<M, TypeIdCompatibleMap, SubclassesMap, CallerMap, globals>>

Return ==
  /\ vpc = "calls" /\ vcalls = {}
  /\ vpc' = "done"
  /\ UNCHANGED <<M, TypeIdCompatibleMap, SubclassesMap, CallerMap, globals, vcalls>>

AnalyzerNext ==
  \/ AnalyzerStart
  \/ \E gv \in Global : SkipGlobal(gv) \/ RegisterVTable(gv) \/ CrashOnVTable(gv)
  \/ StartCalls
  \/ \E s \in Site : SkipCall(s) \/ ResolveCall(s) \/ CrashOnCall(s)
  \/ Return

AnalyzerSpec == AnalyzerInit /\ [][AnalyzerNext]_vcallVars

-----------------------------------------------------------------------------
(* What the module means, whatever the code makes of it: the LLVM language *)
(* reference on type metadata.                                             *)

Signed(w) == IF 2 * w < Modulus THEN w ELSE w - Modulus

AddressPoint == [vtable : Global, offset : ObjectWord]

\* An object whose vtable pointer is ap passes the test for id.
HasType(ap, id) == [offset |-> ap.offset, id |-> id] \in M.types[ap.vtable]

\* Call s on such an object runs f.
Runs(s, ap, f) ==
  LET position == ap.offset + Signed(M.calls[s].offset)
  IN  position \in DOMAIN M.slots[ap.vtable] /\ M.slots[ap.vtable][position] = f

\* The analysis may know of ap: link-time visibility closes its class.
Hidden(ap) == ap.vtable \in M.vtables \ M.public

\* f has a body that can throw on its own account.
Implemented(f) == f \notin M.declared \cup {PureVirtual}

-----------------------------------------------------------------------------
(* Properties *)

\* Every variable keeps to its type, and each loop runs to its end before the
\* next one begins.
AnalyzerTypeOK ==
  /\ IsVCallModule(M)
  /\ IsMap(TypeIdCompatibleMap, TypeId \cup {VirtualId, EmptyId}, SUBSET AddressPoint)
  /\ IsSubclassesMap(SubclassesMap)
  /\ IsMap(CallerMap, Function, SUBSET Site)
  /\ globals \subseteq Global
  /\ vcalls \subseteq Site
  /\ vpc \in {"start", "globals", "calls", "done", "crashed"}
  /\ vpc # "globals" => globals = {}
  /\ vpc # "calls" => vcalls = {}

(***************************************************************************)
(* No virtual call is missed: whatever object of a hidden class a call can *)
(* meet at run time, given that it passes all the type tests before it,    *)
(* the function that runs has the call among its callers -- although only  *)
(* one of the tests is looked at, and although a negative offset wraps     *)
(* around (IndirectCallAnalysis.cpp:59-72, 100-128).                       *)
(***************************************************************************)
CallsResolved ==
  vpc = "done" =>
    \A s \in DOMAIN M.calls, ap \in AddressPoint, f \in Function :
      /\ M.calls[s].tests # {} /\ M.calls[s].tests \subseteq TypeId
      /\ \A id \in M.calls[s].tests : HasType(ap, id)
      /\ Hidden(ap) /\ Runs(s, ap, f) /\ Implemented(f)
      => f \in DOMAIN CallerMap /\ s \in CallerMap[f]

(***************************************************************************)
(* No caller is made up: at any time, a call recorded for a function is a  *)
(* tested virtual call, and it runs that function on some object that      *)
(* passes one of its tests.  The lookups of the empty id, of local ids and *)
(* of member function pointers record nothing                              *)
(* (IndirectCallAnalysis.cpp:93-128).                                      *)
(***************************************************************************)
OnlyRealCallers ==
  \A f \in DOMAIN CallerMap : \A s \in CallerMap[f] :
    /\ Implemented(f)
    /\ s \in DOMAIN M.calls
    /\ \E id \in M.calls[s].tests, ap \in AddressPoint :
         HasType(ap, id) /\ Hidden(ap) /\ Runs(s, ap, f)

\* Some call can be made on an object whose vtable is defined elsewhere.
MeetsOpaque ==
  \E s \in DOMAIN M.calls, ap \in AddressPoint :
    /\ Hidden(ap) /\ ap.vtable \in M.opaque
    /\ \E id \in M.calls[s].tests : HasType(ap, id)

\* Some hidden vtable has an address point for an id that does not begin with _ZTS.
Misnamed ==
  \E ap \in AddressPoint, id \in Unprefixed : Hidden(ap) /\ HasType(ap, id)

(***************************************************************************)
(* The analysis breaks off only at a hidden vtable with a type id that     *)
(* does not begin with _ZTS, or at a call that can be made on an object of *)
(* a hidden class whose vtable is defined elsewhere: with a definition for *)
(* each hidden vtable, and the usual ids in it, it runs to its end         *)
(* (IndirectCallAnalysis.cpp:49-50, 120-122).                              *)
(***************************************************************************)
CrashHasReason == vpc = "crashed" => MeetsOpaque \/ Misnamed

(***************************************************************************)
(* Two classes are related exactly if a hidden vtable of the one has an    *)
(* address point for the other, whether or not either has a type info in   *)
(* this module (IndirectCallAnalysis.cpp:24-57).                           *)
(***************************************************************************)
SubclassesExact ==
  vpc \in {"calls", "done"} =>
    \A base, derived \in TypeInfo :
      base \in DOMAIN SubclassesMap /\ derived \in SubclassesMap[base] <=>
        \E ap \in AddressPoint, id \in TypeId :
          /\ Hidden(ap) /\ HasType(ap, id)
          /\ M.typeInfo[ap.vtable] = derived /\ M.baseInfo[id] = base
=============================================================================
