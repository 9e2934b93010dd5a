--------------------------------- MODULE Maps ---------------------------------
(***************************************************************************)
(* DenseMaps from keys to sets, the one data structure all components of   *)
(* the program keep their results in.                                      *)
(***************************************************************************)

\* A map from some of the keys S to values of T.
IsMap(map, S, T) == DOMAIN map \subseteq S /\ map \in [DOMAIN map -> T]

EmptyMap == [k \in {} |-> {}]

\* operator[]: the value at k, default-constructed for a new key.
At(map, k) == IF k \in DOMAIN map THEN map[k] ELSE {}

\* map[k].insert(v) for every pair <<k, v>> of S.
InsertPairs(map, S) ==
  [k \in DOMAIN map \cup {p[1] : p \in S} |->
     At(map, k) \cup {p[2] : p \in {q \in S : q[1] = k}}]
=============================================================================
