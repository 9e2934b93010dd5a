--------------------------- MODULE MCEHGraphPrinter ---------------------------
(***************************************************************************)
(* Small programs for EHGraphPrinter.  cxa_throw and ext may throw; t      *)
(* throws an exception of type A, perhaps with ext as its destructor, u    *)
(* calls ext or passes it to an indirect call, and a calls f.  The calls   *)
(* lie in main, in f or in init, the initializer of globals.               *)
(***************************************************************************)
EXTENDS EHGraphPrinter, TLC

CONSTANTS main, f, init, cxa_throw, ext, t, u, a, A, B, Stale

MCPrograms ==
  {[M |-> [parent |-> t :> pt @@ u :> pu @@ a :> pa,
           users |-> cxa_throw :> {t} @@ ext :> ({u} \cup dtor)
                       @@ f :> (IF known THEN {} ELSE {a})
                       @@ main :> {} @@ init :> {},
           functions |-> list,
           landingPad |-> IF pad = "none" THEN EmptyMap ELSE a :> {pad},
           thrown |-> t :> A, external |-> {B},
           declared |-> {cxa_throw, ext}, nounwind |-> nounwind, runtime |-> {},
           globalInit |-> {init}, aggregate |-> {f}, internal |-> {init},
           called |-> t :> cxa_throw @@ (IF direct THEN u :> ext ELSE EmptyMap)
                        @@ (IF known THEN EmptyMap ELSE a :> f)],
    CallSitesMap |-> IF known THEN f :> {a} ELSE EmptyMap,
    CallerMap |-> EmptyMap,
    SubclassesMap |-> B :> {A}] :
     pt \in {main, f}, pu \in {f, init}, pa \in {main, f}, dtor \in {{}, {t}},
     pad \in {"none", A, B, CatchAll}, nounwind \in {{}, {ext}},
     list \in {<<cxa_throw, main, init, f, ext>>, <<f, ext, main, cxa_throw, init>>},
     direct \in BOOLEAN, known \in BOOLEAN}

\* For the refinement, one order of the functions, none of them nounwind.
MCFewPrograms ==
  {p \in MCPrograms : Head(p.M.functions) = f /\ p.M.nounwind = {} /\ p.M.parent[a] = main}

MCOldFiles == {EmptyMap, 0 :> Stale @@ 5 :> Partial}
=============================================================================
