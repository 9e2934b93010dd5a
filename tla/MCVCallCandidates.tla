--------------------------- MODULE MCVCallCandidates ---------------------------
(***************************************************************************)
(* Small modules for VCallCandidates.  Class B may derive from A; vA and   *)
(* vB are their vtables and c is a construction vtable of theirs, which    *)
(* has type metadata but another name.  Slot 2 is the first function of a  *)
(* vtable and slot 1 lies before its address point, as virtual-base        *)
(* offsets do; a second address point, at 3, is that of a second base.     *)
(* One call is tested for one id or for both, the other for some id or     *)
(* none; a third call is direct.  Some vtables of B have, as clang gives   *)
(* them, an address point for all vtables, whose id has no _ZTS.           *)
(***************************************************************************)
EXTENDS VCallCandidates, TLC

CONSTANTS vA, vB, c, A, B, All, TA, TB, f, h, r, s, d

Type(o, id) == [offset |-> o, id |-> id]

\* A alone; B alone, derived from A, or with A as its second base.
TypesOfA == {Type(2, A), Type(2, VirtualId)}
TypesOfB == {{Type(2, B)}, {Type(2, A), Type(2, B)},
             {Type(2, B), Type(3, A)}, {Type(2, LocalId), Type(2, A)},
             {Type(2, B), Type(2, All)}}

\* The type infos of A and of B: both in this module, or one of them elsewhere.
Infos == {<<TA, TB>>, <<NoTypeInfo, TB>>, <<TA, NoTypeInfo>>}

SlotsOfA == {2 :> x : x \in {f, PureVirtual}} \cup {1 :> h @@ 2 :> f}
\* The last: the vtable of B is defined elsewhere.
SlotsOfB == {1 :> f @@ 2 :> x @@ 3 :> y : x, y \in {f, h}} \cup {2 :> h, EmptyMap}

FirstCall == {[offset |-> o, tests |-> t] :
                o \in {0, 1, Modulus - 1}, t \in {{A}, {B}, {A, B}}}
SecondCall == {[offset |-> 0, tests |-> t] :
                t \in {{}, {LocalId}, {VirtualId}, {A, LocalId}}}

MCModules ==
  {[vtables |-> {vA, vB}, public |-> p,
    types |-> vA :> TypesOfA @@ vB :> tb @@ c :> {Type(2, A)},
    typeInfo |-> vA :> info[1] @@ vB :> info[2],
    baseInfo |-> A :> info[1] @@ B :> info[2] @@ All :> NoTypeInfo,
    slots |-> vA :> sa @@ vB :> sb @@ c :> (2 :> h),
    declared |-> decl, opaque |-> IF sb = EmptyMap THEN {vB} ELSE {},
    calls |-> r :> x @@ s :> y] :
     p \in {{}, {vA}, {vA, vB}}, tb \in TypesOfB, info \in Infos,
     sa \in SlotsOfA, sb \in SlotsOfB, decl \in {{}, {h}},
     x \in FirstCall, y \in SecondCall}
=============================================================================
