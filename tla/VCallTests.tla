------------------------------ MODULE VCallTests ------------------------------
(***************************************************************************)
(* The unit tests of the virtual call analysis, unittest/PureVirtualTest   *)
(* and unittest/SubClassTest.cpp: their modules, and what they expect.     *)
(* Offsets are in pointers: 16 is the third word of a vtable.              *)
(***************************************************************************)
EXTENDS VCallCandidates

\* The vtables of libstdc++'s type infos, which both modules only declare.
Elsewhere == {"_ZTVN10__cxxabiv120__si_class_type_infoE",
              "_ZTVN10__cxxabiv117__class_type_infoE"}

InfoOf == [A |-> "_ZTI1A", B |-> "_ZTI1B", C |-> "_ZTI1C",
           B1 |-> "_ZTI2B1", B2 |-> "_ZTI2B2"]

\* The module with a vtable for each class of classOf, derived from A, and the
\* function of methodOf in it.
Assembly(classOf, methodOf) ==
  [vtables  |-> DOMAIN classOf \cup Elsewhere,
   public   |-> Global \ DOMAIN classOf,
   types    |-> [gv \in Global |->
                   IF gv \notin DOMAIN classOf THEN {}
                   ELSE {[offset |-> 2, id |-> id] : id \in {"A", classOf[gv], VirtualId}}],
   typeInfo |-> [gv \in DOMAIN classOf \cup Elsewhere |->
                   IF gv \in Elsewhere THEN NoTypeInfo ELSE InfoOf[classOf[gv]]],
   baseInfo |-> [id \in TypeId |-> InfoOf[id]],
   slots    |-> [gv \in Global |->
                   IF gv \in DOMAIN methodOf THEN [w \in {2} |-> methodOf[gv]] ELSE EmptyMap],
   opaque   |-> Elsewhere,
   declared |-> Function \cap {"llvm.type.test", "llvm.assume", PureVirtual},
   calls    |-> [s \in {"vcall"} |-> [offset |-> 0, tests |-> {"A"}]]]

PureVirtualGlobals ==
  {"_ZTV1A", "_ZTV1B", "_ZTV1C", "_ZTI1A", "_ZTI1B", "_ZTI1C",
   "_ZTS1A", "_ZTS1B", "_ZTS1C"} \cup Elsewhere

PureVirtualModule ==
  Assembly([_ZTV1A |-> "A", _ZTV1B |-> "B", _ZTV1C |-> "C"],
           [_ZTV1A |-> PureVirtual, _ZTV1B |-> "_ZN1B1fEv", _ZTV1C |-> "_ZN1C1fEv"])

SubClassGlobals ==
  {"_ZTV2B1", "_ZTV2B2", "_ZTI1A", "_ZTI2B1", "_ZTI2B2", "_ZTS1A", "_ZTS2B1", "_ZTS2B2"}
    \cup Elsewhere

SubClassModule ==
  Assembly([_ZTV2B1 |-> "B1", _ZTV2B2 |-> "B2"],
           [_ZTV2B1 |-> "_ZN2B13fooEv", _ZTV2B2 |-> "_ZN2B23fooEv"])

PureVirtualModules == {PureVirtualModule}
SubClassModules == {SubClassModule}

-----------------------------------------------------------------------------

\* The call through A is a caller of both implementations of its pure virtual
\* function, and of no other function (PureVirtualTest.cpp:10-25, 99-101).
ImplementationsCalled ==
  vpc = "done" => CallerMap = [f \in {"_ZN1B1fEv", "_ZN1C1fEv"} |-> {"vcall"}]

\* B1 and B2 are derived from A although A has no vtable, and neither from the
\* other (SubClassTest.cpp:66-71).
DerivedFromA ==
  vpc = "done" =>
    /\ At(SubclassesMap, "_ZTI1A") = {"_ZTI2B1", "_ZTI2B2"}
    /\ \A B \in {"_ZTI2B1", "_ZTI2B2"} : At(SubclassesMap, B) = {B}
=============================================================================
