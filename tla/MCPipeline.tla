------------------------------ MODULE MCPipeline ------------------------------
(***************************************************************************)
(* Small programs for Pipeline.  v is the method of class B, f that of A,  *)
(* perhaps its base.  t throws a B in v or in f, perhaps with the external *)
(* function ext as its destructor; u calls ext in v.  a calls the method   *)
(* in f, tested for A, B, both or nothing, or with !callees; b in main     *)
(* calls f, directly or through !callees that perhaps name v, too.         *)
(***************************************************************************)
EXTENDS Pipeline, TLC

CONSTANTS main, f, v, cxa_throw, ext, t, u, a, b, vA, vB, A, B, All, TA, TB

Type(o, id) == [offset |-> o, id |-> id]

\* How a calls: its type tests, or {v} as its !callees.
Virtual == {{A}, {B}, {A, B}, {}}
ByMetadata == {{v}}

Callable ==
  {[parent |-> t :> pt @@ u :> v @@ a :> f @@ b :> main,
    users |-> cxa_throw :> {t} @@ ext :> (IF pads = EmptyMap THEN {t, u} ELSE {u})
                @@ f :> (IF named = {} THEN {b} ELSE {}) @@ v :> {} @@ main :> {},
    functions |-> <<f, cxa_throw, v, ext, main>>,
    landingPad |-> pads,
    thrown |-> t :> TB, external |-> {TA},
    declared |-> {cxa_throw, ext}, nounwind |-> {},
    runtime |-> {}, globalInit |-> {}, aggregate |-> {f, v}, internal |-> {},
    called |-> t :> cxa_throw @@ u :> ext @@ (IF named = {} THEN b :> f ELSE EmptyMap),
    callees |-> (IF named = {} THEN EmptyMap ELSE b :> named)
                  @@ (IF how \in ByMetadata THEN a :> how ELSE EmptyMap),
    calls |-> IF how \in ByMetadata THEN EmptyMap ELSE a :> [offset |-> 0, tests |-> how],
    vtables |-> {vA, vB}, public |-> public, opaque |-> opaque,
    types |-> vA :> {Type(2, A)} @@ vB :> tb,
    typeInfo |-> vA :> TA @@ vB :> TB, baseInfo |-> A :> TA @@ B :> TB @@ All :> NoTypeInfo,
    slots |-> vA :> (2 :> f) @@ vB :> (2 :> v),
    stops |-> TA :> {TA, CatchAll} @@ TB :> ({TB, CatchAll} \cup accessible)
                @@ Foreign :> {CatchAll},
    rethrows |-> rethrows] :
     pt \in {v, f},
     pads \in {EmptyMap, a :> {TA}, a :> {CatchAll}, a :> {Filter}, t :> {TB}},
     named \in {{}, {f}, {f, v}}, how \in Virtual \cup ByMetadata,
     public \in {{}, {vB}}, opaque \in {{}, {vA}},
     tb \in {{Type(2, B)}, {Type(2, A), Type(2, B)}},
     accessible \in {{}, {TA}}, rethrows \in {{}, {a}}}

\* Those where no vtable is opaque or public, and no handler rethrows.
Plain == {m \in Callable : m.opaque = {} /\ m.public = {} /\ m.rethrows = {}}

\* In some of them u, instead of calling ext, passes it on to an indirect call; in
\* others vB also has an address point for all vtables.
MCModules ==
  Callable
    \cup {[m EXCEPT !.called = [s \in DOMAIN @ \ {u} |-> @[s]]] : m \in Plain}
    \cup {[m EXCEPT !.types[vB] = @ \cup {Type(2, All)}] :
            m \in {m \in Plain : m.stops[TB] = {TB, CatchAll}}}

\* An earlier run was stopped by write errors.
MCOldFiles == {0 :> Partial @@ 9 :> Partial}
=============================================================================
