------------------------------ MODULE MapsProofs ------------------------------
(***************************************************************************)
(* What the operators of Maps return, for the proofs about the components  *)
(* that keep their results in such maps.                                   *)
(***************************************************************************)
EXTENDS Maps, TLAPS

\* The empty map is a map of any type (the members as they are constructed).
LEMMA EmptyMapType ==
  ASSUME NEW S, NEW T
  PROVE  /\ IsMap(EmptyMap, S, T)
         /\ DOMAIN EmptyMap = {}
         /\ \A k : At(EmptyMap, k) = {}
BY DEF IsMap, EmptyMap, At

\* operator[] finds a set of values, whatever it is asked for.
LEMMA AtType ==
  ASSUME NEW S, NEW T, NEW map, IsMap(map, S, SUBSET T), NEW k
  PROVE  At(map, k) \in SUBSET T
BY DEF IsMap, At

\* After the inserts, a key has the values it had and those inserted for it.
LEMMA InsertPairsAt ==
  ASSUME NEW map, NEW pairs, NEW k
  PROVE  At(InsertPairs(map, pairs), k)
           = At(map, k) \cup {p[2] : p \in {q \in pairs : q[1] = k}}
<1>1. CASE k \in DOMAIN map \cup {p[1] : p \in pairs}
  BY <1>1 DEF InsertPairs, At
<1>2. CASE k \notin DOMAIN map \cup {p[1] : p \in pairs}
  <2>1. {q \in pairs : q[1] = k} = {}
    BY <1>2
  <2> QED BY <1>2, <2>1 DEF InsertPairs, At
<1> QED BY <1>1, <1>2

\* The same, as a statement about one value.
LEMMA InsertPairsMember ==
  ASSUME NEW map, NEW K, NEW V, NEW pairs \in SUBSET (K \X V), NEW k, NEW v
  PROVE  v \in At(InsertPairs(map, pairs), k)
           <=> v \in At(map, k) \/ <<k, v>> \in pairs
<1>1. v \in {p[2] : p \in {q \in pairs : q[1] = k}} <=> <<k, v>> \in pairs
  OBVIOUS
<1> QED BY <1>1, InsertPairsAt

\* A map stays a map, and its keys are the old ones and the ones inserted.
LEMMA InsertPairsType ==
  ASSUME NEW S, NEW T, NEW map, IsMap(map, S, SUBSET T), NEW pairs \in SUBSET (S \X T)
  PROVE  /\ IsMap(InsertPairs(map, pairs), S, SUBSET T)
         /\ DOMAIN InsertPairs(map, pairs) = DOMAIN map \cup {p[1] : p \in pairs}
<1>1. \A k : At(map, k) \cup {p[2] : p \in {q \in pairs : q[1] = k}} \in SUBSET T
  BY AtType
<1>2. DOMAIN InsertPairs(map, pairs) = DOMAIN map \cup {p[1] : p \in pairs}
  BY DEF InsertPairs
<1>3. DOMAIN map \cup {p[1] : p \in pairs} \subseteq S
  BY DEF IsMap
<1> QED BY <1>1, <1>2, <1>3 DEF IsMap, InsertPairs
=============================================================================
