-------------------------- MODULE DummyfsDirProofs --------------------------
(***************************************************************************)
(* What holds of a directory of dummyfs for every set of names, every hash *)
(* and every number of positions.                                          *)
(*                                                                         *)
(* The entries of a key are chained in the order of their positions, so    *)
(* what following a chain finds can be said without following it.          *)
(***************************************************************************)
EXTENDS DummyfsDir, TLAPS, WellFoundedInduction, SequenceTheorems

-----------------------------------------------------------------------------
(* The inductive invariant                                                 *)

Key(p) == Hash[ents[p].name]

\* The next entry with the key of p, and the previous one.
NextRight(p) ==
  /\ ents[p].next = None => \A q \in DOMAIN ents : Key(q) = Key(p) => q <= p
  /\ ents[p].next # None =>
       /\ ents[p].next \in DOMAIN ents /\ Key(ents[p].next) = Key(p) /\ p < ents[p].next
       /\ \A q \in DOMAIN ents : Key(q) = Key(p) => q <= p \/ ents[p].next <= q

PrevRight(p) ==
  /\ ents[p].prev = None => \A q \in DOMAIN ents : Key(q) = Key(p) => p <= q
  /\ ents[p].prev # None =>
       /\ ents[p].prev \in DOMAIN ents /\ Key(ents[p].prev) = Key(p) /\ ents[p].prev < p
       /\ \A q \in DOMAIN ents : Key(q) = Key(p) => p <= q \/ q <= ents[p].prev

\* The tree has the first entry of a key.
TreeRight(k) ==
  /\ tree[k] = None => \A q \in DOMAIN ents : Key(q) # k
  /\ tree[k] # None =>
       /\ tree[k] \in DOMAIN ents /\ Key(tree[k]) = k
       /\ \A q \in DOMAIN ents : Key(q) = k => tree[k] <= q

Chained ==
  /\ \A p \in DOMAIN ents : NextRight(p) /\ PrevRight(p)
  /\ \A k \in Keys : TreeRight(k)
  /\ \A p, q \in DOMAIN ents : ents[p].name = ents[q].name => p = q

\* What a scan got lies behind it, unless a step was cut.
ScanRight ==
  /\ scan.steady \subseteq DOMAIN ents
  /\ ~scan.capped => \A i \in DOMAIN scan.got : scan.got[i] < scan.at

IInv == TypeOK /\ InPositionOrder /\ Chained /\ HintRight /\ ScanRight /\ ScanExact

-----------------------------------------------------------------------------
(* Following a chain                                                       *)

\* The entries at p or behind it in its chain.
Rest(p) == {q \in DOMAIN ents : p \in DOMAIN ents /\ Key(q) = Key(p) /\ p <= q}

\* The one of them called name, and the last one.
Named(p, name) ==
  IF \E q \in Rest(p) : ents[q].name = name THEN CHOOSE q \in Rest(p) : ents[q].name = name
  ELSE None
Final(p) ==
  IF \E q \in Rest(p) : ents[q].next = None THEN CHOOSE q \in Rest(p) : ents[q].next = None
  ELSE None

Follows(g, name) ==
  g = [p \in Positions \cup {None} |->
         IF p \notin DOMAIN ents THEN None
         ELSE IF ents[p].name = name THEN p
         ELSE g[ents[p].next]]

LEMMA GetFollows ==
  ASSUME NEW name
  PROVE  Get(name) = (CHOOSE g : Follows(g, name))[tree[Hash[name]]]
BY DEF Get, Follows

Closes(g) ==
  g = [p \in Positions \cup {None} |->
         IF p \notin DOMAIN ents THEN None
         ELSE IF ents[p].next = None THEN p
         ELSE g[ents[p].next]]

LEMMA LastCloses ==
  ASSUME NEW key
  PROVE  Last(key) = (CHOOSE g : Closes(g))[tree[key]]
BY DEF Last, Closes

\* The rest of a chain is its first entry and the rest behind that.
LEMMA RestStep ==
  ASSUME TypeOK, Chained, NEW p \in DOMAIN ents
  PROVE  /\ p \in Rest(p) /\ (ents[p].next = None => Rest(p) = {p})
         /\ ents[p].next # None =>
              ents[p].next \in DOMAIN ents /\ p < ents[p].next /\ Rest(p) = {p} \cup Rest(ents[p].next)
<1>1. p \in Int /\ \A q \in DOMAIN ents : q \in Int
  BY DEF TypeOK, Positions
<1>2. NextRight(p)
  BY DEF Chained
<1>3. p \in Rest(p)
  BY <1>1 DEF Rest
<1>4. ents[p].next = None => Rest(p) = {p}
  BY <1>1, <1>2 DEF Rest, NextRight
<1>5. ASSUME ents[p].next # None
      PROVE  ents[p].next \in DOMAIN ents /\ p < ents[p].next /\ Rest(p) = {p} \cup Rest(ents[p].next)
  <2> DEFINE n == ents[p].next
  <2>1. n \in DOMAIN ents /\ Key(n) = Key(p) /\ p < n
        /\ \A q \in DOMAIN ents : Key(q) = Key(p) => q <= p \/ n <= q
    BY <1>2, <1>5 DEF NextRight
  <2> HIDE DEF n
  <2>2. ASSUME NEW q  PROVE  q \in Rest(p) <=> q = p \/ q \in Rest(n)
    BY <1>1, <2>1 DEF Rest
  <2>3. Rest(p) = {p} \cup Rest(n)
    BY <2>2
  <2>4. QED  BY <2>1, <2>3 DEF n
<1>6. QED  BY <1>3, <1>4, <1>5

LEMMA NoRest ==
  ASSUME NEW p, p \notin DOMAIN ents
  PROVE  Rest(p) = {}
BY DEF Rest

\* Both walks exist and find what they are for.
LEMMA NamedFollows ==
  ASSUME TypeOK, Chained, NEW name
  PROVE  Follows([p \in Positions \cup {None} |-> Named(p, name)], name)
<1> DEFINE g == [p \in Positions \cup {None} |-> Named(p, name)]
<1>1. ASSUME NEW p \in Positions \cup {None}, p \notin DOMAIN ents  PROVE  g[p] = None
  BY <1>1, NoRest DEF Named
<1>2. ASSUME NEW p \in DOMAIN ents, ents[p].name = name  PROVE  g[p] = p
  <2>1. p \in Positions \cup {None} /\ p \in Rest(p)
    BY RestStep DEF TypeOK
  <2>2. \A q \in Rest(p) : ents[q].name = name => q = p
    BY <1>2 DEF Rest, Chained
  <2>3. QED  BY <1>2, <2>1, <2>2 DEF Named
<1>3. ASSUME NEW p \in DOMAIN ents, ents[p].name # name  PROVE  g[p] = g[ents[p].next]
  <2>1. p \in Positions \cup {None} /\ ents[p].next \in Positions \cup {None}
    BY DEF TypeOK
  <2>2. CASE ents[p].next = None
    <3>1. Rest(p) = {p} /\ None \notin DOMAIN ents
      BY <2>2, RestStep DEF TypeOK, Positions, None
    <3>2. Named(p, name) = None /\ Named(None, name) = None
      BY <1>3, <3>1, NoRest DEF Named
    <3>3. QED  BY <2>1, <2>2, <3>2
  <2>3. CASE ents[p].next # None
    <3>1. Rest(p) = {p} \cup Rest(ents[p].next)
      BY <2>3, RestStep
    <3>2. \A q : q \in Rest(p) /\ ents[q].name = name <=> q \in Rest(ents[p].next) /\ ents[q].name = name
      BY <1>3, <3>1
    <3>3. Named(p, name) = Named(ents[p].next, name)
      BY <3>2 DEF Named
    <3>4. QED  BY <2>1, <3>3
  <2>4. QED  BY <2>2, <2>3
<1>4. \A p \in DOMAIN ents : p \in Positions
  BY DEF TypeOK
<1> HIDE DEF g
<1>5. DOMAIN g = Positions \cup {None} /\ g = [p \in Positions \cup {None} |-> g[p]]
  BY DEF g
<1>6. Follows(g, name)
  BY <1>1, <1>2, <1>3, <1>4, <1>5 DEF Follows
<1>7. QED  BY <1>6 DEF g

LEMMA FinalCloses ==
  ASSUME TypeOK, Chained
  PROVE  Closes([p \in Positions \cup {None} |-> Final(p)])
<1> DEFINE g == [p \in Positions \cup {None} |-> Final(p)]
<1>1. ASSUME NEW p \in Positions \cup {None}, p \notin DOMAIN ents  PROVE  g[p] = None
  BY <1>1, NoRest DEF Final
<1>2. ASSUME NEW p \in DOMAIN ents, ents[p].next = None  PROVE  g[p] = p
  <2>1. p \in Positions \cup {None} /\ Rest(p) = {p}
    BY <1>2, RestStep DEF TypeOK
  <2>2. QED  BY <1>2, <2>1 DEF Final
<1>3. ASSUME NEW p \in DOMAIN ents, ents[p].next # None  PROVE  g[p] = g[ents[p].next]
  <2>1. p \in Positions \cup {None} /\ ents[p].next \in Positions \cup {None}
    BY DEF TypeOK
  <2>2. Rest(p) = {p} \cup Rest(ents[p].next)
    BY <1>3, RestStep
  <2>3. \A q : q \in Rest(p) /\ ents[q].next = None <=> q \in Rest(ents[p].next) /\ ents[q].next = None
    BY <1>3, <2>2
  <2>4. Final(p) = Final(ents[p].next)
    BY <2>3 DEF Final
  <2>5. QED  BY <2>1, <2>4
<1>4. \A p \in DOMAIN ents : p \in Positions
  BY DEF TypeOK
<1> HIDE DEF g
<1>5. DOMAIN g = Positions \cup {None} /\ g = [p \in Positions \cup {None} |-> g[p]]
  BY DEF g
<1>6. Closes(g)
  BY <1>1, <1>2, <1>3, <1>4, <1>5 DEF Closes
<1>7. QED  BY <1>6 DEF g

\* Two functions that agree outside the chains, and on an entry if they do on the next
\* one or do not look at it, agree: there is no last entry at which they differ.
LEMMA WalksAgree ==
  ASSUME TypeOK, Chained, MaxPos \in Nat, NEW g, NEW h,
         \A p \in (Positions \cup {None}) \ DOMAIN ents : g[p] = h[p],
         \A p \in DOMAIN ents : g[p] = h[p] \/ g[ents[p].next] # h[ents[p].next]
  PROVE  \A p \in Positions \cup {None} : g[p] = h[p]
<1> SUFFICES ASSUME NEW p0 \in Positions \cup {None}, g[p0] # h[p0]  PROVE FALSE
  OBVIOUS
<1> DEFINE T == {k \in Nat : \E p \in DOMAIN ents : g[p] # h[p] /\ k = MaxPos - p}
<1>1. p0 \in DOMAIN ents
  OBVIOUS
<1>2. \A p \in DOMAIN ents : p \in 0..(MaxPos - 1)
  BY DEF TypeOK, Positions
<1>3. MaxPos - p0 \in T
  BY <1>1, <1>2
<1>4. T \subseteq Nat /\ T # {}
  BY <1>3
<1>5. IsWellFoundedOn(OpToRel(<, Nat), Nat)
  BY NatLessThanWellFounded
<1>6. PICK k \in T : \A j \in T : ~(<<j, k>> \in OpToRel(<, Nat))
  BY <1>4, <1>5, WFMin
<1>7. PICK p \in DOMAIN ents : g[p] # h[p] /\ k = MaxPos - p
  BY <1>6
<1>8. g[ents[p].next] # h[ents[p].next] /\ ents[p].next \in Positions \cup {None}
  BY <1>7 DEF TypeOK
<1>9. ents[p].next \in DOMAIN ents
  BY <1>8
<1>10. ents[p].next # None
  BY <1>2, <1>9 DEF None
<1>11. p < ents[p].next
  BY <1>10, RestStep
<1>12. MaxPos - ents[p].next \in T /\ MaxPos - ents[p].next < k
  BY <1>2, <1>7, <1>8, <1>9, <1>11
<1>13. QED  BY <1>6, <1>12 DEF OpToRel

\* A set of positions has a greatest one, and a least.
LEMMA Greatest ==
  ASSUME MaxPos \in Nat, NEW S \in SUBSET (0..(MaxPos - 1)), S # {}
  PROVE  \E q \in S : \A r \in S : r <= q
<1> DEFINE T == {k \in Nat : MaxPos - k \in S}
<1>1. PICK q0 \in S : TRUE
  OBVIOUS
<1>2. MaxPos - q0 \in T
  BY <1>1
<1>3. IsWellFoundedOn(OpToRel(<, Nat), Nat)
  BY NatLessThanWellFounded
<1>4. PICK k \in T : \A j \in T : ~(<<j, k>> \in OpToRel(<, Nat))
  BY <1>2, <1>3, WFMin
<1>5. \A r \in S : r <= MaxPos - k
  <2>1. ASSUME NEW r \in S, ~(r <= MaxPos - k)  PROVE FALSE
    <3>1. MaxPos - r \in T /\ MaxPos - r < k
      BY <2>1
    <3>2. QED  BY <1>4, <3>1 DEF OpToRel
  <2>2. QED  BY <2>1
<1>6. QED  BY <1>4, <1>5

LEMMA Least ==
  ASSUME NEW T \in SUBSET Nat, T # {}
  PROVE  \E q \in T : \A r \in T : q <= r
<1>1. IsWellFoundedOn(OpToRel(<, Nat), Nat)
  BY NatLessThanWellFounded
<1>2. PICK q \in T : \A r \in T : ~(<<r, q>> \in OpToRel(<, Nat))
  BY <1>1, WFMin
<1>3. ASSUME NEW r \in T  PROVE  q <= r
  <2>1. r \in Nat /\ q \in Nat
    OBVIOUS
  <2>2. ~(r < q)
    BY <1>2, <2>1 DEF OpToRel
  <2>3. QED  BY <2>1, <2>2
<1>4. QED  BY <1>2, <1>3

\* dummyfs_dir_get finds the entry with the name, and only that.
LEMMA GetRight ==
  ASSUME TypeOK, Chained, MaxPos \in Nat, NEW name \in Names
  PROVE  /\ \A p \in DOMAIN ents : ents[p].name = name => Get(name) = p
         /\ Get(name) # None => Get(name) \in DOMAIN ents /\ ents[Get(name)].name = name
<1> DEFINE g == CHOOSE x : Follows(x, name)
           h == [p \in Positions \cup {None} |-> Named(p, name)]
           t == tree[Hash[name]]
<1>1. Follows(g, name) /\ Follows(h, name)
  BY NamedFollows
<1> HIDE DEF g, h
<1>2. \A p \in Positions \cup {None} : g[p] = h[p]
  <2>0. \A p \in DOMAIN ents : p \in Positions
    BY DEF TypeOK
  <2>1. /\ \A p \in (Positions \cup {None}) \ DOMAIN ents : g[p] = h[p]
        /\ \A p \in DOMAIN ents : g[p] = h[p] \/ g[ents[p].next] # h[ents[p].next]
    BY <1>1, <2>0 DEF Follows
  <2>2. QED  BY <2>1, WalksAgree
<1>3. t \in Positions \cup {None} /\ TreeRight(Hash[name])
  BY DEF TypeOK, Keys, Chained
<1>4. Get(name) = Named(t, name)
  BY <1>2, <1>3, GetFollows DEF g, h
<1>5. ASSUME NEW p \in DOMAIN ents, ents[p].name = name  PROVE  Get(name) = p
  <2>1. p \in Rest(t)
    BY <1>3, <1>5 DEF TreeRight, Rest, Key
  <2>2. \A q \in Rest(t) : ents[q].name = name => q = p
    BY <1>5 DEF Rest, Chained
  <2>3. QED  BY <1>4, <1>5, <2>1, <2>2 DEF Named
<1>6. ASSUME Get(name) # None  PROVE  Get(name) \in DOMAIN ents /\ ents[Get(name)].name = name
  BY <1>4, <1>6 DEF Named, Rest
<1>7. QED  BY <1>5, <1>6

\* Where dummyfs_dir_add appends to the entries of a key: behind all of them.
LEMMA LastRight ==
  ASSUME TypeOK, Chained, MaxPos \in Nat, NEW key \in Keys
  PROVE  /\ Last(key) = None => \A q \in DOMAIN ents : Key(q) # key
         /\ Last(key) # None =>
              /\ Last(key) \in DOMAIN ents /\ Key(Last(key)) = key
              /\ \A q \in DOMAIN ents : Key(q) = key => q <= Last(key)
<1> DEFINE g == CHOOSE x : Closes(x)
           h == [p \in Positions \cup {None} |-> Final(p)]
           t == tree[key]
<1>1. Closes(g) /\ Closes(h)
  BY FinalCloses
<1> HIDE DEF g, h
<1>2. \A p \in Positions \cup {None} : g[p] = h[p]
  <2>0. \A p \in DOMAIN ents : p \in Positions
    BY DEF TypeOK
  <2>1. /\ \A p \in (Positions \cup {None}) \ DOMAIN ents : g[p] = h[p]
        /\ \A p \in DOMAIN ents : g[p] = h[p] \/ g[ents[p].next] # h[ents[p].next]
    BY <1>1, <2>0 DEF Closes
  <2>2. QED  BY <2>1, WalksAgree
<1>3. t \in Positions \cup {None} /\ TreeRight(key)
  BY DEF TypeOK, Chained
<1>4. Last(key) = Final(t)
  BY <1>2, <1>3, LastCloses DEF g, h
<1>5. CASE t = None
  <2>1. None \notin DOMAIN ents
    BY DEF TypeOK, Positions, None
  <2>2. Last(key) = None
    BY <1>4, <1>5, <2>1, NoRest DEF Final
  <2>3. QED  BY <1>3, <1>5, <2>2 DEF TreeRight
<1>6. CASE t # None
  <2>1. t \in DOMAIN ents /\ Key(t) = key /\ \A q \in DOMAIN ents : Key(q) = key => t <= q
    BY <1>3, <1>6 DEF TreeRight
  <2>2. \A q : q \in Rest(t) <=> q \in DOMAIN ents /\ Key(q) = key
    BY <2>1 DEF Rest
  <2>3. Rest(t) \subseteq 0..(MaxPos - 1) /\ Rest(t) # {}
    BY <2>1, <2>2 DEF TypeOK, Positions
  <2>4. PICK q \in Rest(t) : \A r \in Rest(t) : r <= q
    BY <2>3, Greatest
  <2>5. ents[q].next = None
    <3>1. q \in DOMAIN ents /\ NextRight(q) /\ q \in Int
      BY <2>2, <2>3 DEF Chained
    <3>2. ASSUME ents[q].next # None  PROVE FALSE
      <4>1. ents[q].next \in Rest(t) /\ q < ents[q].next
        BY <2>2, <3>1, <3>2 DEF NextRight
      <4>2. ents[q].next \in Int
        BY <2>3, <4>1
      <4>3. QED  BY <2>4, <3>1, <4>1, <4>2
    <3>3. QED  BY <3>2
  <2>6. Last(key) \in Rest(t) /\ ents[Last(key)].next = None
    BY <1>4, <2>5 DEF Final
  <2>7. Last(key) \in DOMAIN ents /\ Key(Last(key)) = key /\ NextRight(Last(key))
    BY <2>2, <2>6 DEF Chained
  <2>8. Last(key) # None
    BY <2>7 DEF TypeOK, Positions, None
  <2>9. QED  BY <2>6, <2>7, <2>8 DEF NextRight
<1>7. QED  BY <1>5, <1>6

-----------------------------------------------------------------------------
(* The list                                                                *)

ListOK == TypeOK /\ InPositionOrder

LEMMA ListFacts ==
  ASSUME ListOK
  PROVE  /\ DOMAIN list = 1..Len(list) /\ Len(list) \in Nat
         /\ \A i \in 1..Len(list) : list[i] \in Int /\ list[i] \in Positions /\ list[i] \in DOMAIN ents
         /\ \A p \in DOMAIN ents : \E i \in 1..Len(list) : list[i] = p
         /\ \A i, j \in 1..Len(list) : i < j => list[i] < list[j]
         /\ \A p \in DOMAIN ents : p \in Int /\ p \in Positions
<1>1. list \in Seq(Positions) /\ DOMAIN list = 1..Len(list) /\ Len(list) \in Nat
  BY DEF ListOK, TypeOK
<1>2. \A i \in 1..Len(list) : list[i] \in Positions
  BY <1>1
<1>3. {list[i] : i \in DOMAIN list} = DOMAIN ents /\ \A i, j \in DOMAIN list : i < j => list[i] < list[j]
  BY DEF ListOK, InPositionOrder
<1>4. \A i \in 1..Len(list) : list[i] \in DOMAIN ents
  BY <1>1, <1>3
<1>5. \A p \in DOMAIN ents : \E i \in 1..Len(list) : list[i] = p
  BY <1>1, <1>3
<1>6. \A p \in Positions : p \in Int
  BY DEF Positions
<1>7. \A p \in DOMAIN ents : p \in Positions
  BY DEF ListOK, TypeOK
<1>8. QED  BY <1>1, <1>2, <1>3, <1>4, <1>5, <1>6, <1>7

LEMMA IndexRight ==
  ASSUME ListOK, NEW p \in DOMAIN ents
  PROVE  Index(p) \in 1..Len(list) /\ list[Index(p)] = p
<1>1. DOMAIN list = 1..Len(list) /\ \E i \in 1..Len(list) : list[i] = p
  BY ListFacts
<1>2. QED  BY <1>1 DEF Index

\* Positions order the list: the entry behind p is the next one, if there is any.
LEMMA BehindRight ==
  ASSUME ListOK, NEW p \in DOMAIN ents
  PROVE  /\ Behind(p) = None => \A q \in DOMAIN ents : q <= p
         /\ Behind(p) # None =>
              /\ Behind(p) \in DOMAIN ents /\ p < Behind(p)
              /\ \A q \in DOMAIN ents : q <= p \/ Behind(p) <= q
<1> DEFINE i == Index(p)
<1>1. /\ Len(list) \in Nat
      /\ \A j \in 1..Len(list) : list[j] \in Int /\ list[j] \in Positions /\ list[j] \in DOMAIN ents
      /\ \A q \in DOMAIN ents : \E j \in 1..Len(list) : list[j] = q
      /\ \A j, k \in 1..Len(list) : j < k => list[j] < list[k]
  BY ListFacts
<1>2. i \in 1..Len(list) /\ list[i] = p
  BY IndexRight
<1>3. Behind(p) = IF i = Len(list) THEN None ELSE list[i + 1]
  BY DEF Behind
<1> HIDE DEF i
<1>4. CASE i = Len(list)
  <2>1. ASSUME NEW q \in DOMAIN ents  PROVE  q <= p
    <3>1. PICK j \in 1..Len(list) : list[j] = q
      BY <1>1
    <3>2. j = i \/ j < i
      BY <1>1, <1>2, <1>4
    <3>3. list[j] \in Int /\ list[i] \in Int /\ (j < i => list[j] < list[i])
      BY <1>1, <1>2
    <3>4. QED  BY <1>2, <3>1, <3>2, <3>3
  <2>2. QED  BY <1>3, <1>4, <2>1
<1>5. CASE i # Len(list)
  <2>1. i + 1 \in 1..Len(list) /\ i < i + 1
    BY <1>1, <1>2, <1>5
  <2>2. Behind(p) = list[i + 1] /\ list[i + 1] \in DOMAIN ents /\ p < list[i + 1]
    BY <1>1, <1>2, <1>3, <1>5, <2>1
  <2>3. Behind(p) # None
    BY <1>1, <2>1, <2>2 DEF Positions, None
  <2>4. ASSUME NEW q \in DOMAIN ents  PROVE  q <= p \/ list[i + 1] <= q
    <3>1. PICK j \in 1..Len(list) : list[j] = q
      BY <1>1
    <3>2. j = i \/ j < i \/ j = i + 1 \/ i + 1 < j
      BY <1>1, <1>2
    <3>3. /\ list[j] \in Int /\ list[i] \in Int /\ list[i + 1] \in Int
          /\ j < i => list[j] < list[i]
          /\ i + 1 < j => list[i + 1] < list[j]
      BY <1>1, <1>2, <2>1
    <3>4. QED  BY <1>2, <3>1, <3>2, <3>3
  <2>5. QED  BY <2>2, <2>3, <2>4
<1>6. QED  BY <1>4, <1>5

\* dummyfs_readdirNext stops at the first entry at its position or behind it, wherever
\* the hint let it start.
LEMMA FoundRight ==
  ASSUME ListOK, HintRight, NEW offs \in Int, Ahead(offs) # {}
  PROVE  /\ Found(offs) \in DOMAIN ents /\ Found(offs) \in Int /\ offs <= Found(offs)
         /\ \A q \in DOMAIN ents : offs <= q => Found(offs) <= q
<1> DEFINE s == Start(offs)
           i == CHOOSE x \in Ahead(offs) : \A y \in Ahead(offs) : x <= y
<1>1. /\ Len(list) \in Nat
      /\ \A j \in 1..Len(list) : list[j] \in Int /\ list[j] \in DOMAIN ents
      /\ \A q \in DOMAIN ents : q \in Int /\ \E j \in 1..Len(list) : list[j] = q
      /\ \A j, k \in 1..Len(list) : j < k => list[j] < list[k]
  BY ListFacts
<1>2. /\ s \in Nat /\ s >= 1
      /\ \A j \in 1..Len(list) : list[j] >= offs => j >= s
  <2>1. CASE hint.entry # None /\ offs >= hint.offs
    <3>1. s = Index(hint.entry) /\ hint.entry \in DOMAIN ents
      BY <2>1 DEF Start, HintRight
    <3>2. s \in 1..Len(list) /\ list[s] = hint.entry
      BY <3>1, IndexRight
    <3>3. ASSUME NEW j \in 1..Len(list), list[j] >= offs  PROVE  j >= s
      <4>1. hint.offs \in Int /\ list[j] \in Int /\ hint.entry \in Int
        BY <1>1, <3>1 DEF ListOK, TypeOK
      <4>2. list[j] >= hint.offs
        BY <2>1, <3>3, <4>1
      <4>3. hint.entry <= list[j]
        BY <1>1, <2>1, <4>2 DEF HintRight
      <4>4. j < s => list[j] < list[s]
        BY <1>1, <3>2
      <4>5. s \in Int /\ j \in Int /\ list[s] = hint.entry
        BY <1>1, <3>2
      <4>6. QED  BY <4>1, <4>3, <4>4, <4>5
    <3>4. QED  BY <1>1, <3>2, <3>3
  <2>2. CASE ~(hint.entry # None /\ offs >= hint.offs)
    <3>1. s = 1
      BY <2>2 DEF Start
    <3>2. QED  BY <1>1, <3>1
  <2>3. QED  BY <2>1, <2>2
<1>3. Ahead(offs) = {j \in 1..Len(list) : list[j] >= offs}
  <2>1. Ahead(offs) = {j \in s..Len(list) : list[j] >= offs}
    BY DEF Ahead
  <2> HIDE DEF s
  <2>2. QED  BY <1>1, <1>2, <2>1
<1>4. i \in Ahead(offs) /\ \A y \in Ahead(offs) : i <= y
  <2>1. Ahead(offs) \in SUBSET Nat
    BY <1>1, <1>3
  <2>2. \E x \in Ahead(offs) : \A y \in Ahead(offs) : x <= y
    BY <2>1, Least
  <2>3. QED  BY <2>2
<1>5. Found(offs) = list[i]
  BY DEF Found
<1> HIDE DEF i, s
<1>6. i \in 1..Len(list) /\ list[i] >= offs /\ list[i] \in Int
  BY <1>1, <1>3, <1>4
<1>7. ASSUME NEW q \in DOMAIN ents, offs <= q  PROVE  list[i] <= q
  <2>1. PICK j \in 1..Len(list) : list[j] = q
    BY <1>1
  <2>2. i <= j
    BY <1>1, <1>3, <1>4, <1>7, <2>1
  <2>3. list[j] \in Int /\ (i < j => list[i] < list[j])
    BY <1>1, <1>6
  <2>4. i = j \/ i < j
    BY <1>1, <1>6, <2>2
  <2>5. QED  BY <1>6, <2>1, <2>3, <2>4
<1>8. QED  BY <1>1, <1>5, <1>6, <1>7

-----------------------------------------------------------------------------
(* dummyfs_dir_add                                                         *)

Entry == [name : Names, prev : Positions \cup {None}, next : Positions \cup {None}]

\* The entries e2 are e with p behind last, the last entry of its key.
Appends(e, e2, p, name, last) ==
  /\ DOMAIN e2 = DOMAIN e \cup {p} /\ p \notin DOMAIN e
  /\ e2[p] \in Entry /\ e2[p].name = name /\ e2[p].prev = last /\ e2[p].next = None
  /\ \A q \in DOMAIN e :
       /\ e2[q] \in Entry /\ e2[q].name = e[q].name /\ e2[q].prev = e[q].prev
       /\ q = last => e2[q].next = p
       /\ q # last => e2[q].next = e[q].next

LEMMA AddAppends ==
  ASSUME ConstantsAssumption, ListOK, Chained, NEW name \in Names, dir_add(name)
  PROVE  /\ Appends(ents, ents', nextPos, name, Last(Hash[name]))
         /\ nextPos \in Positions /\ \A q \in DOMAIN ents : q < nextPos /\ ents[q].name # name
         /\ list' = Append(list, nextPos) /\ nextPos' = nextPos + 1 /\ entries' = entries + 1
         /\ tree' = IF Last(Hash[name]) = None THEN [tree EXCEPT ![Hash[name]] = nextPos] ELSE tree
         /\ hint' = [hint EXCEPT !.entry = None] /\ scan' = scan
<1> DEFINE p == nextPos
           last == Last(Hash[name])
<1>1. /\ ents' = [q \in DOMAIN ents \cup {p} |->
                    IF q = p THEN [name |-> name, prev |-> last, next |-> None]
                    ELSE IF q = last THEN [ents[q] EXCEPT !.next = p] ELSE ents[q]]
      /\ list' = Append(list, p) /\ nextPos' = p + 1 /\ entries' = entries + 1
      /\ tree' = IF last = None THEN [tree EXCEPT ![Hash[name]] = p] ELSE tree
      /\ hint' = [hint EXCEPT !.entry = None] /\ scan' = scan
      /\ Get(name) = None /\ p < MaxPos
  BY DEF dir_add
<1>2. TypeOK /\ InPositionOrder /\ MaxPos \in Nat /\ Hash[name] \in Keys
  BY DEF ListOK, ConstantsAssumption, Keys
<1>3. \A q \in DOMAIN ents : q \in Positions /\ q < p /\ ents[q] \in Entry
  BY <1>2 DEF TypeOK, InPositionOrder, Entry
<1>4. p \in Positions /\ p \notin DOMAIN ents
  BY <1>1, <1>2, <1>3 DEF TypeOK, Positions
<1>5. \A q \in DOMAIN ents : ents[q].name # name
  <2>1. \A q \in DOMAIN ents : q # None
    BY <1>3 DEF Positions, None
  <2>2. QED  BY <1>1, <1>2, <2>1, GetRight
<1>6. last \in Positions \cup {None}
  BY <1>2, <1>3, LastRight
<1> HIDE DEF last, p
<1>7. DOMAIN ents' = DOMAIN ents \cup {p}
      /\ ents'[p] = [name |-> name, prev |-> last, next |-> None]
  BY <1>1
<1>8. \A q \in DOMAIN ents : ents'[q] = IF q = last THEN [ents[q] EXCEPT !.next = p] ELSE ents[q]
  BY <1>1, <1>4
<1>9. ents'[p] \in Entry /\ ents'[p].name = name /\ ents'[p].prev = last /\ ents'[p].next = None
  BY <1>6, <1>7 DEF Entry
<1>10. \A q \in DOMAIN ents :
         /\ ents'[q] \in Entry /\ ents'[q].name = ents[q].name /\ ents'[q].prev = ents[q].prev
         /\ q = last => ents'[q].next = p
         /\ q # last => ents'[q].next = ents[q].next
  BY <1>3, <1>4, <1>8 DEF Entry
<1>11. Appends(ents, ents', p, name, last)
  BY <1>4, <1>7, <1>9, <1>10 DEF Appends
<1>12. QED  BY <1>1, <1>3, <1>4, <1>5, <1>11 DEF p, last

LEMMA AddChained ==
  ASSUME ConstantsAssumption, ListOK, Chained, NEW name \in Names, dir_add(name)
  PROVE  Chained'
<1> DEFINE p == nextPos
           last == Last(Hash[name])
<1>1. /\ Appends(ents, ents', p, name, last)
      /\ p \in Positions /\ \A q \in DOMAIN ents : q < p /\ ents[q].name # name
      /\ tree' = IF last = None THEN [tree EXCEPT ![Hash[name]] = p] ELSE tree
  BY AddAppends
<1>2. /\ last = None => \A q \in DOMAIN ents : Key(q) # Hash[name]
      /\ last # None =>
           /\ last \in DOMAIN ents /\ Key(last) = Hash[name]
           /\ \A q \in DOMAIN ents : Key(q) = Hash[name] => q <= last
  BY LastRight DEF ListOK, ConstantsAssumption, Keys
<1>3. /\ p \in Int /\ p # None /\ \A q \in DOMAIN ents : q \in Int /\ q # None
      /\ tree \in [Keys -> Positions \cup {None}] /\ Hash[name] \in Keys
  BY <1>1 DEF ListOK, TypeOK, Positions, None, Keys
<1> HIDE DEF last, p
<1>4. /\ DOMAIN ents' = DOMAIN ents \cup {p} /\ p \notin DOMAIN ents
      /\ ents'[p].name = name /\ ents'[p].prev = last /\ ents'[p].next = None
      /\ \A q \in DOMAIN ents :
           /\ ents'[q].name = ents[q].name /\ ents'[q].prev = ents[q].prev
           /\ q = last => ents'[q].next = p
           /\ q # last => ents'[q].next = ents[q].next
  BY <1>1 DEF Appends
<1>5. Hash[ents'[p].name] = Hash[name] /\ \A q \in DOMAIN ents : Hash[ents'[q].name] = Key(q)
  BY <1>4 DEF Key
<1>6. ASSUME NEW q \in DOMAIN ents'  PROVE  NextRight(q)'
  <2>1. CASE q = p
    BY <1>1, <1>3, <1>4, <2>1 DEF NextRight, Key
  <2>2. CASE q = last /\ q \in DOMAIN ents
    BY <1>1, <1>2, <1>3, <1>4, <2>2 DEF NextRight, Key
  <2>3. CASE q # last /\ q \in DOMAIN ents
    <3>1. NextRight(q) /\ ents'[q].next = ents[q].next
      BY <1>4, <2>3 DEF Chained
    <3>2. Key(q) = Hash[name] => ents[q].next # None
      BY <1>2, <1>3, <2>3, <3>1 DEF NextRight
    <3>3. ents[q].next = None => \A r \in DOMAIN ents' : Hash[ents'[r].name] = Hash[ents'[q].name] => r <= q
      BY <1>4, <1>5, <2>3, <3>1, <3>2 DEF NextRight, Key
    <3>4. ASSUME ents[q].next # None
          PROVE  /\ ents[q].next \in DOMAIN ents' /\ Hash[ents'[ents[q].next].name] = Hash[ents'[q].name]
                 /\ q < ents[q].next
                 /\ \A r \in DOMAIN ents' :
                      Hash[ents'[r].name] = Hash[ents'[q].name] => r <= q \/ ents[q].next <= r
      BY <1>1, <1>3, <1>4, <1>5, <2>3, <3>1, <3>4 DEF NextRight, Key
    <3>5. QED  BY <3>1, <3>3, <3>4 DEF NextRight, Key
  <2>4. QED  BY <1>4, <2>1, <2>2, <2>3
<1>7. ASSUME NEW q \in DOMAIN ents'  PROVE  PrevRight(q)'
  <2>1. CASE q = p
    BY <1>1, <1>2, <1>3, <1>4, <2>1 DEF PrevRight, Key
  <2>2. CASE q \in DOMAIN ents
    <3>1. PrevRight(q) /\ ents'[q].prev = ents[q].prev
      BY <1>4, <2>2 DEF Chained
    <3>2. QED  BY <1>1, <1>3, <1>4, <2>2, <3>1 DEF PrevRight, Key
  <2>3. QED  BY <1>4, <2>1, <2>2
<1>8. ASSUME NEW k \in Keys  PROVE  TreeRight(k)'
  <2>1. TreeRight(k)
    BY DEF Chained
  <2>2. CASE last = None /\ k = Hash[name]
    <3>1. tree'[k] = p
      BY <1>1, <1>3, <2>2
    <3>2. QED  BY <1>1, <1>2, <1>3, <1>4, <2>2, <3>1 DEF TreeRight, Key
  <2>3. CASE last = None /\ k # Hash[name]
    <3>1. tree'[k] = tree[k]
      BY <1>1, <1>3, <2>3
    <3>2. QED  BY <1>1, <1>2, <1>3, <1>4, <2>1, <2>3, <3>1 DEF TreeRight, Key
  <2>4. CASE last # None
    <3>1. tree'[k] = tree[k]
      BY <1>1, <2>4
    <3>2. QED  BY <1>1, <1>2, <1>3, <1>4, <2>1, <2>4, <3>1 DEF TreeRight, Key
  <2>5. QED  BY <2>2, <2>3, <2>4
<1>9. \A q, r \in DOMAIN ents' : ents'[q].name = ents'[r].name => q = r
  BY <1>1, <1>4 DEF Chained
<1>10. QED  BY <1>6, <1>7, <1>8, <1>9 DEF Chained

LEMMA AddKeeps ==
  ASSUME ConstantsAssumption, IInv, NEW name \in Names, dir_add(name)
  PROVE  IInv'
<1> DEFINE p == nextPos
<1>1. ListOK /\ Chained /\ HintRight /\ ScanRight /\ ScanExact /\ TypeOK /\ MaxPos \in Nat
  BY DEF IInv, ListOK, ConstantsAssumption
<1>2. /\ DOMAIN ents' = DOMAIN ents \cup {p} /\ p \notin DOMAIN ents
      /\ \A q \in DOMAIN ents' : ents'[q] \in Entry
  <2>1. Appends(ents, ents', p, name, Last(Hash[name]))
    BY <1>1, AddAppends
  <2>2. QED  BY <2>1 DEF Appends
<1>3. /\ p \in Positions /\ \A q \in DOMAIN ents : q < p
      /\ list' = Append(list, p) /\ nextPos' = p + 1 /\ entries' = entries + 1
      /\ tree' = IF Last(Hash[name]) = None THEN [tree EXCEPT ![Hash[name]] = p] ELSE tree
      /\ hint' = [hint EXCEPT !.entry = None] /\ scan' = scan
  BY <1>1, AddAppends
<1>4. /\ DOMAIN ents \subseteq Positions /\ list \in Seq(Positions) /\ entries \in Nat
      /\ tree \in [Keys -> Positions \cup {None}]
      /\ hint \in [offs : 0..MaxPos, entry : Positions \cup {None}]
      /\ entries = Len(list)
  BY <1>1 DEF ListOK, InPositionOrder, TypeOK
<1> HIDE DEF p
<1>5. TypeOK'
  <2>1. DOMAIN ents' \subseteq Positions
    BY <1>2, <1>3, <1>4
  <2>2. tree' \in [Keys -> Positions \cup {None}]
    BY <1>3, <1>4
  <2>3. list' \in Seq(Positions) /\ entries' \in Nat
    BY <1>3, <1>4
  <2>4. nextPos' \in 0..MaxPos
    BY <1>1, <1>3 DEF Positions
  <2>5. hint' \in [offs : 0..MaxPos, entry : Positions \cup {None}]
    BY <1>3, <1>4
  <2>6. QED  BY <1>1, <1>2, <1>3, <2>1, <2>2, <2>3, <2>4, <2>5 DEF TypeOK, Entry
<1>6. InPositionOrder'
  <2>1. /\ DOMAIN list' = 1..(Len(list) + 1) /\ Len(list') = Len(list) + 1 /\ Len(list) \in Nat
        /\ list'[Len(list) + 1] = p /\ \A i \in 1..Len(list) : list'[i] = list[i]
    BY <1>3, <1>4
  <2>2. /\ \A i \in 1..Len(list) : list[i] \in Int /\ list[i] \in DOMAIN ents
        /\ \A i, j \in 1..Len(list) : i < j => list[i] < list[j]
        /\ \A q \in DOMAIN ents : \E i \in 1..Len(list) : list[i] = q
    BY <1>1, ListFacts
  <2>3. ASSUME NEW i \in DOMAIN list', NEW j \in DOMAIN list', i < j  PROVE  list'[i] < list'[j]
    <3>1. i \in 1..Len(list) /\ (j \in 1..Len(list) \/ j = Len(list) + 1)
      BY <2>1, <2>3
    <3>2. QED  BY <1>3, <2>1, <2>2, <2>3, <3>1
  <2>4. ASSUME NEW i \in DOMAIN list'  PROVE  list'[i] \in DOMAIN ents'
    <3>1. i \in 1..Len(list) \/ i = Len(list) + 1
      BY <2>1
    <3>2. QED  BY <1>2, <2>1, <2>2, <3>1
  <2>5. ASSUME NEW q \in DOMAIN ents'  PROVE  \E i \in DOMAIN list' : list'[i] = q
    <3>1. CASE q = p
      BY <2>1, <3>1
    <3>2. CASE q \in DOMAIN ents
      <4>1. PICK i \in 1..Len(list) : list[i] = q
        BY <2>2, <3>2
      <4>2. i \in DOMAIN list' /\ list'[i] = q
        BY <2>1, <4>1
      <4>3. QED  BY <4>2
    <3>3. QED  BY <1>2, <3>1, <3>2
  <2>6. {list'[i] : i \in DOMAIN list'} = DOMAIN ents'
    BY <2>4, <2>5
  <2>7. \A q \in DOMAIN ents' : q < nextPos'
    BY <1>2, <1>3, <1>4 DEF Positions
  <2>8. entries' = Len(list')
    BY <1>3, <1>4, <2>1
  <2>9. QED  BY <2>3, <2>6, <2>7, <2>8 DEF InPositionOrder
<1>7. Chained'
  BY <1>1, AddChained
<1>8. HintRight'
  BY <1>3, <1>4 DEF HintRight
<1>9. ScanRight' /\ ScanExact'
  BY <1>1, <1>2, <1>3 DEF ScanRight, ScanExact
<1>10. QED  BY <1>5, <1>6, <1>7, <1>8, <1>9 DEF IInv

-----------------------------------------------------------------------------
(* dummyfs_dir_removeEntry                                                 *)

\* The entries e2 are e without p, whose neighbours with its key are chained.
Drops(e, e2, p) ==
  /\ DOMAIN e2 = DOMAIN e \ {p}
  /\ \A q \in DOMAIN e \ {p} :
       /\ e2[q] \in Entry /\ e2[q].name = e[q].name
       /\ q = e[p].prev => e2[q].next = e[p].next
       /\ q # e[p].prev => e2[q].next = e[q].next
       /\ q = e[p].next => e2[q].prev = e[p].prev
       /\ q # e[p].next => e2[q].prev = e[q].prev

LEMMA RemoveDrops ==
  ASSUME ConstantsAssumption, TypeOK, Chained, NEW p \in DOMAIN ents, ents' = Unchained(p)
  PROVE  Drops(ents, ents', p)
<1>1. ents[p] \in Entry /\ p \in Int /\ \A q \in DOMAIN ents : ents[q] \in Entry /\ q \in Int /\ q # None
  BY DEF TypeOK, Entry, Positions, None
<1>2. ents[p].prev \in DOMAIN ents => ents[p].next # ents[p].prev
  <2>1. /\ ents[p].prev \in DOMAIN ents => ents[p].prev < p
        /\ ents[p].next \in DOMAIN ents => p < ents[p].next
    BY <1>1 DEF Chained, NextRight, PrevRight
  <2>2. QED  BY <1>1, <2>1
<1>3. DOMAIN ents' = DOMAIN ents \ {p}
  BY DEF Unchained
<1>4. \A q \in DOMAIN ents \ {p} :
        ents'[q] = IF q = ents[p].prev THEN [ents[q] EXCEPT !.next = ents[p].next]
                   ELSE IF q = ents[p].next THEN [ents[q] EXCEPT !.prev = ents[p].prev]
                   ELSE ents[q]
  BY DEF Unchained
<1>5. ents[p].next \in Positions \cup {None} /\ ents[p].prev \in Positions \cup {None}
  BY <1>1 DEF Entry
<1>6. ASSUME NEW q \in DOMAIN ents \ {p}
      PROVE  /\ ents'[q] \in Entry /\ ents'[q].name = ents[q].name
             /\ q = ents[p].prev => ents'[q].next = ents[p].next
             /\ q # ents[p].prev => ents'[q].next = ents[q].next
             /\ q = ents[p].next => ents'[q].prev = ents[p].prev
             /\ q # ents[p].next => ents'[q].prev = ents[q].prev
  <2>1. ents[q] \in Entry
    BY <1>1
  <2>2. CASE q = ents[p].prev
    <3>1. ents'[q] = [ents[q] EXCEPT !.next = ents[p].next] /\ q # ents[p].next
      BY <1>2, <1>4, <2>2
    <3>2. QED  BY <1>5, <2>1, <2>2, <3>1 DEF Entry
  <2>3. CASE q # ents[p].prev /\ q = ents[p].next
    <3>1. ents'[q] = [ents[q] EXCEPT !.prev = ents[p].prev]
      BY <1>4, <2>3
    <3>2. QED  BY <1>5, <2>1, <2>3, <3>1 DEF Entry
  <2>4. CASE q # ents[p].prev /\ q # ents[p].next
    BY <1>4, <2>1, <2>4
  <2>5. QED  BY <2>2, <2>3, <2>4
<1>7. QED  BY <1>3, <1>6 DEF Drops

LEMMA RemoveChained ==
  ASSUME ConstantsAssumption, TypeOK, Chained, NEW p \in DOMAIN ents, removeEntry(p)
  PROVE  Chained'
<1> DEFINE b == ents[p].prev
           a == ents[p].next
<1>1. /\ DOMAIN ents' = DOMAIN ents \ {p}
      /\ \A q \in DOMAIN ents \ {p} :
           /\ ents'[q].name = ents[q].name
           /\ q = b => ents'[q].next = a
           /\ q # b => ents'[q].next = ents[q].next
           /\ q = a => ents'[q].prev = b
           /\ q # a => ents'[q].prev = ents[q].prev
  <2>1. Drops(ents, ents', p)
    BY RemoveDrops DEF removeEntry
  <2>2. QED  BY <2>1 DEF Drops
<1>2. tree' = IF b = None THEN [tree EXCEPT ![Key(p)] = a] ELSE tree
  BY DEF removeEntry, Key
<1>3. /\ p \in Int /\ \A q \in DOMAIN ents : q \in Int /\ q # None
      /\ tree \in [Keys -> Positions \cup {None}] /\ Key(p) \in Keys
      /\ \A q \in DOMAIN ents : Key(q) \in Keys
  BY DEF TypeOK, Positions, None, Keys, Key
<1>4. NextRight(p) /\ PrevRight(p)
  BY DEF Chained
<1>5. /\ a = None => \A q \in DOMAIN ents : Key(q) = Key(p) => q <= p
      /\ a # None => /\ a \in DOMAIN ents /\ Key(a) = Key(p) /\ p < a
                     /\ \A q \in DOMAIN ents : Key(q) = Key(p) => q <= p \/ a <= q
      /\ b = None => \A q \in DOMAIN ents : Key(q) = Key(p) => p <= q
      /\ b # None => /\ b \in DOMAIN ents /\ Key(b) = Key(p) /\ b < p
                     /\ \A q \in DOMAIN ents : Key(q) = Key(p) => p <= q \/ q <= b
  BY <1>4 DEF NextRight, PrevRight
<1>6. \A q \in DOMAIN ents' : Hash[ents'[q].name] = Key(q)
  BY <1>1 DEF Key
<1> HIDE DEF a, b
<1>7. ASSUME NEW q \in DOMAIN ents'  PROVE  NextRight(q)'
  <2>1. q \in DOMAIN ents /\ q # p /\ NextRight(q)
    BY <1>1 DEF Chained
  <2> SUFFICES
        /\ ents'[q].next = None => \A r \in DOMAIN ents' : Key(r) = Key(q) => r <= q
        /\ ents'[q].next # None =>
             /\ ents'[q].next \in DOMAIN ents' /\ Key(ents'[q].next) = Key(q) /\ q < ents'[q].next
             /\ \A r \in DOMAIN ents' : Key(r) = Key(q) => r <= q \/ ents'[q].next <= r
    BY <1>6 DEF NextRight, Key
  <2>2. CASE q = b
    <3>1. ents'[q].next = a
      BY <1>1, <2>1, <2>2
    <3>2. Key(q) = Key(p) /\ q < p /\ \A r \in DOMAIN ents : Key(r) = Key(p) => p <= r \/ r <= q
      BY <1>3, <1>5, <2>1, <2>2
    <3>3. CASE a = None
      BY <1>1, <1>3, <1>5, <2>1, <3>1, <3>2, <3>3
    <3>4. CASE a # None
      BY <1>1, <1>3, <1>5, <2>1, <3>1, <3>2, <3>4
    <3>5. QED  BY <3>3, <3>4
  <2>3. CASE q # b
    <3>1. ents'[q].next = ents[q].next
      BY <1>1, <2>1, <2>3
    <3>2. ents[q].next # p
      <4>1. SUFFICES ASSUME ents[q].next = p  PROVE FALSE
        OBVIOUS
      <4>2. /\ Key(q) = Key(p) /\ q < p
            /\ \A r \in DOMAIN ents : Key(r) = Key(q) => r <= q \/ p <= r
        BY <1>3, <2>1, <4>1 DEF NextRight
      <4>3. b # None
        BY <1>3, <1>5, <2>1, <4>2
      <4>4. b \in DOMAIN ents /\ Key(b) = Key(p) /\ b < p /\ q <= b
        BY <1>3, <1>5, <2>1, <4>2, <4>3
      <4>5. QED  BY <1>3, <2>1, <2>3, <4>2, <4>4
    <3>3. QED  BY <1>1, <2>1, <3>1, <3>2 DEF NextRight
  <2>4. QED  BY <2>2, <2>3
<1>8. ASSUME NEW q \in DOMAIN ents'  PROVE  PrevRight(q)'
  <2>1. q \in DOMAIN ents /\ q # p /\ PrevRight(q)
    BY <1>1 DEF Chained
  <2> SUFFICES
        /\ ents'[q].prev = None => \A r \in DOMAIN ents' : Key(r) = Key(q) => q <= r
        /\ ents'[q].prev # None =>
             /\ ents'[q].prev \in DOMAIN ents' /\ Key(ents'[q].prev) = Key(q) /\ ents'[q].prev < q
             /\ \A r \in DOMAIN ents' : Key(r) = Key(q) => q <= r \/ r <= ents'[q].prev
    BY <1>6 DEF PrevRight, Key
  <2>2. CASE q = a
    <3>1. ents'[q].prev = b
      BY <1>1, <2>1, <2>2
    <3>2. Key(q) = Key(p) /\ p < q /\ \A r \in DOMAIN ents : Key(r) = Key(p) => r <= p \/ q <= r
      BY <1>3, <1>5, <2>1, <2>2
    <3>3. CASE b = None
      BY <1>1, <1>3, <1>5, <2>1, <3>1, <3>2, <3>3
    <3>4. CASE b # None
      BY <1>1, <1>3, <1>5, <2>1, <3>1, <3>2, <3>4
    <3>5. QED  BY <3>3, <3>4
  <2>3. CASE q # a
    <3>1. ents'[q].prev = ents[q].prev
      BY <1>1, <2>1, <2>3
    <3>2. ents[q].prev # p
      <4>1. SUFFICES ASSUME ents[q].prev = p  PROVE FALSE
        OBVIOUS
      <4>2. /\ Key(q) = Key(p) /\ p < q
            /\ \A r \in DOMAIN ents : Key(r) = Key(q) => q <= r \/ r <= p
        BY <1>3, <2>1, <4>1 DEF PrevRight
      <4>3. a # None
        BY <1>3, <1>5, <2>1, <4>2
      <4>4. a \in DOMAIN ents /\ Key(a) = Key(p) /\ p < a /\ a <= q
        BY <1>3, <1>5, <2>1, <4>2, <4>3
      <4>5. QED  BY <1>3, <2>1, <2>3, <4>2, <4>4
    <3>3. QED  BY <1>1, <2>1, <3>1, <3>2 DEF PrevRight
  <2>4. QED  BY <2>2, <2>3
<1>9. ASSUME NEW k \in Keys  PROVE  TreeRight(k)'
  <2>1. TreeRight(k)
    BY DEF Chained
  <2> SUFFICES
        /\ tree'[k] = None => \A q \in DOMAIN ents' : Key(q) # k
        /\ tree'[k] # None =>
             /\ tree'[k] \in DOMAIN ents' /\ Key(tree'[k]) = k
             /\ \A q \in DOMAIN ents' : Key(q) = k => tree'[k] <= q
    BY <1>6 DEF TreeRight, Key
  <2>2. CASE b = None /\ k = Key(p)
    <3>1. tree'[k] = a
      BY <1>2, <1>3, <2>2
    <3>2. CASE a = None
      BY <1>1, <1>3, <1>5, <2>2, <3>1, <3>2
    <3>3. CASE a # None
      BY <1>1, <1>3, <1>5, <2>2, <3>1, <3>3
    <3>4. QED  BY <3>2, <3>3
  <2>3. CASE b # None \/ k # Key(p)
    <3>1. tree'[k] = tree[k]
      BY <1>2, <1>3, <2>3
    <3>2. tree[k] # p
      BY <1>3, <1>5, <2>1, <2>3 DEF TreeRight
    <3>3. QED  BY <1>1, <2>1, <3>1, <3>2 DEF TreeRight
  <2>4. QED  BY <2>2, <2>3
<1>10. \A q, r \in DOMAIN ents' : ents'[q].name = ents'[r].name => q = r
  BY <1>1 DEF Chained
<1>11. QED  BY <1>7, <1>8, <1>9, <1>10 DEF Chained

\* The list without its entry at k.
LEMMA ShorterList ==
  ASSUME ListOK, NEW p \in DOMAIN ents, removeEntry(p), DOMAIN ents' = DOMAIN ents \ {p}
  PROVE  list' \in Seq(Positions) /\ entries' \in Nat /\ InPositionOrder'
<1> DEFINE n == Len(list)
           k == Index(p)
<1>1. /\ n \in Nat /\ entries = n /\ entries' = entries - 1 /\ nextPos' = nextPos
      /\ list' = [i \in 1..(n - 1) |-> IF i < k THEN list[i] ELSE list[i + 1]]
      /\ \A q \in DOMAIN ents : q < nextPos
  BY ListFacts DEF removeEntry, ListOK, InPositionOrder
<1>2. /\ \A i \in 1..n : list[i] \in Int /\ list[i] \in Positions /\ list[i] \in DOMAIN ents
      /\ \A i, j \in 1..n : i < j => list[i] < list[j]
      /\ \A q \in DOMAIN ents : \E i \in 1..n : list[i] = q
  BY ListFacts
<1>3. k \in 1..n /\ list[k] = p
  BY IndexRight
<1> HIDE DEF n, k
<1>4. n - 1 \in Nat /\ n >= 1
  BY <1>1, <1>3
<1>5. DOMAIN list' = 1..(n - 1)
  BY <1>1
<1>6. \A i \in 1..(n - 1) : (i < k => list'[i] = list[i]) /\ (~(i < k) => list'[i] = list[i + 1])
  BY <1>1
<1>7. \A i \in 1..(n - 1) : i \in 1..n /\ i + 1 \in 1..n
  BY <1>1
<1>8. \A i \in 1..(n - 1) : list'[i] \in Positions
  BY <1>2, <1>6, <1>7
<1>9. list' \in Seq(Positions)
  <2>1. list' \in [1..(n - 1) -> Positions]
    BY <1>1, <1>8
  <2>2. QED  BY <1>4, <2>1, SeqDef
<1>10. Len(list') = n - 1
  BY <1>4, <1>5, <1>9, LenProperties
<1>11. ASSUME NEW i \in DOMAIN list', NEW j \in DOMAIN list', i < j  PROVE  list'[i] < list'[j]
  <2>1. i \in 1..n /\ i + 1 \in 1..n /\ j \in 1..n /\ j + 1 \in 1..n
    BY <1>5, <1>7
  <2>2. CASE j < k
    <3>1. list'[i] = list[i] /\ list'[j] = list[j]
      BY <1>3, <1>5, <1>6, <1>11, <2>1, <2>2
    <3>2. QED  BY <1>2, <1>11, <2>1, <3>1
  <2>3. CASE i < k /\ ~(j < k)
    <3>1. list'[i] = list[i] /\ list'[j] = list[j + 1] /\ i < j + 1
      BY <1>5, <1>6, <1>11, <2>1, <2>3
    <3>2. QED  BY <1>2, <2>1, <3>1
  <2>4. CASE ~(i < k)
    <3>1. list'[i] = list[i + 1] /\ list'[j] = list[j + 1] /\ i + 1 < j + 1
      BY <1>3, <1>5, <1>6, <1>11, <2>1, <2>4
    <3>2. QED  BY <1>2, <2>1, <3>1
  <2>5. QED  BY <1>3, <1>11, <2>1, <2>2, <2>3, <2>4
<1>12. ASSUME NEW i \in DOMAIN list'  PROVE  list'[i] \in DOMAIN ents'
  <2>1. i \in 1..n /\ i + 1 \in 1..n
    BY <1>5, <1>7
  <2>2. CASE i < k
    <3>1. list'[i] = list[i] /\ list[i] < list[k]
      BY <1>2, <1>3, <1>5, <1>6, <2>1, <2>2
    <3>2. QED  BY <1>2, <1>3, <2>1, <3>1
  <2>3. CASE ~(i < k)
    <3>1. list'[i] = list[i + 1] /\ k < i + 1
      BY <1>3, <1>5, <1>6, <2>1, <2>3
    <3>2. list[k] < list[i + 1]
      BY <1>2, <1>3, <2>1, <3>1
    <3>3. QED  BY <1>2, <1>3, <2>1, <3>1, <3>2
  <2>4. QED  BY <2>2, <2>3
<1>13. ASSUME NEW q \in DOMAIN ents'  PROVE  \E i \in DOMAIN list' : list'[i] = q
  <2>1. PICK i \in 1..n : list[i] = q
    BY <1>2
  <2>2. i # k
    BY <1>3, <2>1
  <2>3. CASE i < k
    <3>1. i \in 1..(n - 1)
      BY <1>1, <1>3, <2>3
    <3>2. list'[i] = q
      BY <1>6, <2>1, <2>3, <3>1
    <3>3. QED  BY <1>5, <3>1, <3>2
  <2>4. CASE k < i
    <3>1. i - 1 \in 1..(n - 1) /\ ~(i - 1 < k) /\ (i - 1) + 1 = i
      BY <1>1, <1>3, <2>4
    <3>2. list'[i - 1] = q
      BY <1>6, <2>1, <3>1
    <3>3. QED  BY <1>5, <3>1, <3>2
  <2>5. QED  BY <1>3, <2>2, <2>3, <2>4
<1>14. {list'[i] : i \in DOMAIN list'} = DOMAIN ents'
  BY <1>12, <1>13
<1>15. InPositionOrder'
  BY <1>1, <1>10, <1>11, <1>14 DEF InPositionOrder
<1>16. QED  BY <1>1, <1>4, <1>9, <1>15

LEMMA RemoveKeeps ==
  ASSUME ConstantsAssumption, IInv, NEW p \in DOMAIN ents, removeEntry(p)
  PROVE  IInv'
<1>1. ListOK /\ Chained /\ HintRight /\ ScanRight /\ ScanExact /\ TypeOK
  BY DEF IInv, ListOK
<1>2. DOMAIN ents' = DOMAIN ents \ {p} /\ \A q \in DOMAIN ents' : ents'[q] \in Entry
  <2>1. Drops(ents, ents', p)
    BY <1>1, RemoveDrops DEF removeEntry
  <2>2. QED  BY <2>1 DEF Drops
<1>3. list' \in Seq(Positions) /\ entries' \in Nat /\ InPositionOrder'
  BY <1>1, <1>2, ShorterList
<1>4. /\ tree' = IF ents[p].prev = None THEN [tree EXCEPT ![Hash[ents[p].name]] = ents[p].next] ELSE tree
      /\ hint' = HintWithout(p) /\ nextPos' = nextPos /\ scan' = [scan EXCEPT !.steady = @ \ {p}]
  BY DEF removeEntry, Steady
<1>5. hint' \in [offs : 0..MaxPos, entry : Positions \cup {None}] /\ HintRight'
  <2>1. /\ hint \in [offs : 0..MaxPos, entry : Positions \cup {None}]
        /\ DOMAIN ents \subseteq Positions /\ p \in Int /\ \A q \in DOMAIN ents : q \in Int
    BY <1>1 DEF TypeOK, Positions
  <2>2. CASE hint.entry # p
    <3>1. hint' = hint
      BY <1>4, <2>2 DEF HintWithout
    <3>2. QED  BY <1>1, <1>2, <2>1, <2>2, <3>1 DEF HintRight
  <2>3. CASE hint.entry = p
    <3>1. hint' = [hint EXCEPT !.entry = Behind(p)]
      BY <1>4, <2>3 DEF HintWithout
    <3>2. /\ Behind(p) # None =>
              /\ Behind(p) \in DOMAIN ents /\ p < Behind(p)
              /\ \A q \in DOMAIN ents : q <= p \/ Behind(p) <= q
      BY <1>1, BehindRight
    <3>3. hint'.entry = Behind(p) /\ hint'.offs = hint.offs /\ hint.offs \in Int
      BY <2>1, <3>1
    <3>4. p # None /\ p >= hint.offs /\ \A q \in DOMAIN ents : q >= hint.offs => p <= q
      BY <1>1, <2>1, <2>3 DEF HintRight, Positions, None
    <3>5. hint' \in [offs : 0..MaxPos, entry : Positions \cup {None}]
      BY <2>1, <3>1, <3>2
    <3>6. ASSUME Behind(p) # None
          PROVE  /\ Behind(p) \in DOMAIN ents' /\ Behind(p) >= hint.offs
                 /\ \A q \in DOMAIN ents' : q >= hint.offs => Behind(p) <= q
      BY <1>2, <2>1, <3>2, <3>3, <3>4, <3>6
    <3>7. QED  BY <3>3, <3>5, <3>6 DEF HintRight
  <2>4. QED  BY <2>2, <2>3
<1>6. TypeOK'
  <2>1. DOMAIN ents' \subseteq Positions
    BY <1>1, <1>2 DEF TypeOK
  <2>2. tree' \in [Keys -> Positions \cup {None}]
    BY <1>1, <1>4 DEF TypeOK
  <2>3. scan' \in [on : BOOLEAN, legacy : BOOLEAN, capped : BOOLEAN, at : 0..MaxPos,
                   got : Seq(Positions), steady : SUBSET Positions]
    BY <1>1, <1>4 DEF TypeOK
  <2>4. QED  BY <1>1, <1>2, <1>3, <1>4, <1>5, <2>1, <2>2, <2>3 DEF TypeOK, Entry
<1>7. Chained'
  BY <1>1, RemoveChained
<1>8. ScanRight' /\ ScanExact'
  <2>1. /\ scan'.steady = scan.steady \ {p} /\ scan'.at = scan.at /\ scan'.got = scan.got
        /\ scan'.capped = scan.capped
    BY <1>1, <1>4 DEF TypeOK
  <2>2. QED  BY <1>1, <1>2, <2>1 DEF ScanRight, ScanExact
<1>9. QED  BY <1>3, <1>5, <1>6, <1>7, <1>8 DEF IInv

-----------------------------------------------------------------------------
(* dummyfs_readdirNext                                                     *)

LEMMA HintAtRight ==
  ASSUME ConstantsAssumption, ListOK, HintRight, NEW offs \in Nat, Ahead(offs) # {},
         hint' = HintAt(offs), UNCHANGED index
  PROVE  hint' \in [offs : 0..MaxPos, entry : Positions \cup {None}] /\ HintRight'
<1> DEFINE f == Found(offs)
<1>1. f \in DOMAIN ents /\ f \in Int
  BY FoundRight
<1>2. /\ f \in Positions /\ MaxPos \in Nat /\ DOMAIN ents \subseteq Positions /\ ents' = ents
      /\ \A q \in DOMAIN ents : q \in Int
  BY <1>1 DEF ListOK, TypeOK, ConstantsAssumption, index, Positions
<1>3. Behind(f) # None =>
        /\ Behind(f) \in DOMAIN ents /\ f < Behind(f)
        /\ \A q \in DOMAIN ents : q <= f \/ Behind(f) <= q
  BY <1>1, BehindRight
<1>4. hint' = [offs |-> f + 1, entry |-> Behind(f)]
  BY DEF HintAt
<1> HIDE DEF f
<1>5. f + 1 \in 0..MaxPos
  BY <1>2 DEF Positions
<1>6. hint' \in [offs : 0..MaxPos, entry : Positions \cup {None}]
  BY <1>2, <1>3, <1>4, <1>5
<1>7. HintRight'
  BY <1>1, <1>2, <1>3, <1>4 DEF HintRight
<1>8. QED  BY <1>6, <1>7

\* A step that leaves the entries alone keeps all that is said of them.
LEMMA IndexKept ==
  ASSUME IInv, UNCHANGED index
  PROVE  /\ InPositionOrder' /\ Chained' /\ DOMAIN ents' = DOMAIN ents
         /\ HintRight /\ (hint' = hint => HintRight')
         /\ ( /\ hint' \in [offs : 0..MaxPos, entry : Positions \cup {None}]
              /\ scan' \in [on : BOOLEAN, legacy : BOOLEAN, capped : BOOLEAN, at : 0..MaxPos,
                            got : Seq(Positions), steady : SUBSET Positions]
              => TypeOK')
<1>1. /\ ents' = ents /\ tree' = tree /\ list' = list /\ nextPos' = nextPos /\ entries' = entries
      /\ InPositionOrder /\ Chained /\ TypeOK /\ HintRight
  BY DEF index, IInv
<1>2. InPositionOrder'
  BY <1>1 DEF InPositionOrder
<1>3. Chained'
  BY <1>1 DEF Chained, NextRight, PrevRight, TreeRight, Key
<1>4. hint' = hint => HintRight'
  BY <1>1 DEF HintRight
<1>5. QED  BY <1>1, <1>2, <1>3, <1>4 DEF TypeOK

LEMMA ReaddirKeeps ==
  ASSUME ConstantsAssumption, IInv, NEW offs \in 0..MaxPos, readdirNext(offs)
  PROVE  IInv'
<1>1. ListOK /\ HintRight /\ TypeOK /\ ScanRight /\ ScanExact /\ offs \in Nat
  BY DEF IInv, ListOK, ConstantsAssumption
<1>2. Ahead(offs) # {} /\ hint' = HintAt(offs) /\ UNCHANGED index /\ scan' = scan
  BY DEF readdirNext
<1>3. hint' \in [offs : 0..MaxPos, entry : Positions \cup {None}] /\ HintRight'
  BY <1>1, <1>2, HintAtRight
<1>4. InPositionOrder' /\ Chained' /\ DOMAIN ents' = DOMAIN ents /\ TypeOK'
  BY <1>1, <1>2, <1>3, IndexKept DEF TypeOK
<1>5. ScanRight' /\ ScanExact'
  BY <1>1, <1>2, <1>4 DEF ScanRight, ScanExact
<1>6. QED  BY <1>3, <1>4, <1>5 DEF IInv

LEMMA OpendirKeeps ==
  ASSUME ConstantsAssumption, IInv, NEW legacy \in BOOLEAN, opendir(legacy)
  PROVE  IInv'
<1>1. TypeOK /\ MaxPos \in Nat
  BY DEF IInv, ConstantsAssumption
<1>2. /\ UNCHANGED index /\ hint' = hint
      /\ scan' = [on |-> TRUE, legacy |-> legacy, capped |-> FALSE, at |-> 0, got |-> <<>>,
                  steady |-> DOMAIN ents]
  BY DEF opendir, Idle
<1>3. scan' \in [on : BOOLEAN, legacy : BOOLEAN, capped : BOOLEAN, at : 0..MaxPos,
                 got : Seq(Positions), steady : SUBSET Positions]
  BY <1>1, <1>2 DEF TypeOK
<1>4. InPositionOrder' /\ Chained' /\ DOMAIN ents' = DOMAIN ents /\ TypeOK' /\ HintRight'
  BY <1>1, <1>2, <1>3, IndexKept DEF TypeOK
<1>5. ScanRight' /\ ScanExact'
  <2>1. /\ scan'.steady = DOMAIN ents /\ scan'.at = 0 /\ DOMAIN scan'.got = {}
        /\ \A p \in DOMAIN ents : ~(p < 0)
    BY <1>1, <1>2 DEF TypeOK, Positions
  <2>2. QED  BY <1>4, <2>1 DEF ScanRight, ScanExact
<1>6. QED  BY <1>4, <1>5 DEF IInv

LEMMA ClosedirKeeps ==
  ASSUME ConstantsAssumption, IInv, closedir
  PROVE  IInv'
<1>1. TypeOK /\ MaxPos \in Nat
  BY DEF IInv, ConstantsAssumption
<1>2. /\ UNCHANGED index /\ hint' = hint
      /\ scan' = [on |-> FALSE, legacy |-> FALSE, capped |-> FALSE, at |-> 0, got |-> <<>>,
                  steady |-> {}]
  BY DEF closedir, Idle
<1>3. scan' \in [on : BOOLEAN, legacy : BOOLEAN, capped : BOOLEAN, at : 0..MaxPos,
                 got : Seq(Positions), steady : SUBSET Positions]
  BY <1>1, <1>2
<1>4. InPositionOrder' /\ Chained' /\ DOMAIN ents' = DOMAIN ents /\ TypeOK' /\ HintRight'
  BY <1>1, <1>2, <1>3, IndexKept DEF TypeOK
<1>5. ScanRight' /\ ScanExact'
  <2>1. scan'.steady = {} /\ DOMAIN scan'.got = {}
    BY <1>2
  <2>2. QED  BY <2>1 DEF ScanRight, ScanExact
<1>6. QED  BY <1>4, <1>5 DEF IInv

\* A client moves on by no more than the entry it got, and by just that unless
\* its step was cut.
LEMMA ReadNextMoves ==
  ASSUME ConstantsAssumption, IInv, readNext
  PROVE  /\ Found(scan.at) \in DOMAIN ents /\ scan.at <= Found(scan.at)
         /\ scan'.at \in 0..MaxPos /\ scan'.at <= Found(scan.at) + 1
         /\ ~scan'.capped => ~scan.capped /\ scan'.at = Found(scan.at) + 1
         /\ scan' \in [on : BOOLEAN, legacy : BOOLEAN, capped : BOOLEAN, at : 0..MaxPos,
                       got : Seq(Positions), steady : SUBSET Positions]
         /\ scan'.got = Append(scan.got, Found(scan.at)) /\ scan'.steady = scan.steady
<1> DEFINE at == scan.at
           f == Found(at)
           cut == f + 1 - at > RecMax
           on == IF scan.legacy THEN at + Reclen(at) ELSE f + 1
           cap == scan.capped \/ (scan.legacy /\ cut)
<1>1. /\ scan' = [scan EXCEPT !.at = on, !.capped = cap, !.got = Append(scan.got, f)]
      /\ Ahead(at) # {}
  BY DEF readNext
<1>2. /\ ListOK /\ HintRight /\ MaxPos \in Nat /\ RecMax \in Nat \ {0} /\ DOMAIN ents \subseteq Positions
      /\ scan \in [on : BOOLEAN, legacy : BOOLEAN, capped : BOOLEAN, at : 0..MaxPos,
                   got : Seq(Positions), steady : SUBSET Positions]
  BY DEF IInv, ListOK, ConstantsAssumption, TypeOK
<1>3. at \in Int /\ at \in 0..MaxPos
  BY <1>2
<1>4. f \in DOMAIN ents /\ f \in Int /\ at <= f
  BY <1>1, <1>2, <1>3, FoundRight
<1>5. f \in Positions
  BY <1>2, <1>4
<1>6. Reclen(at) = IF cut THEN RecMax ELSE f + 1 - at
  BY DEF Reclen
<1>7. cut \in BOOLEAN /\ (cut <=> f + 1 - at > RecMax)
  OBVIOUS
<1> HIDE DEF f, at, cut
<1>8. /\ (~scan.legacy => on = f + 1)
      /\ (scan.legacy /\ cut => on = at + RecMax)
      /\ (scan.legacy /\ ~cut => on = at + (f + 1 - at))
  BY <1>6
<1> HIDE DEF on
<1>9. (scan.legacy /\ cut) \/ on = f + 1
  BY <1>3, <1>4, <1>8
<1>10. on \in 0..MaxPos /\ on <= f + 1
  <2>1. f + 1 \in 0..MaxPos
    BY <1>2, <1>5 DEF Positions
  <2>2. CASE scan.legacy /\ cut
    BY <1>2, <1>3, <1>4, <1>7, <1>8, <2>1, <2>2
  <2>3. QED  BY <1>4, <1>9, <2>1, <2>2
<1>11. cap \in BOOLEAN /\ (~cap => ~scan.capped /\ on = f + 1)
  BY <1>2, <1>7, <1>9
<1> HIDE DEF cap
<1>12. Append(scan.got, f) \in Seq(Positions)
  BY <1>2, <1>5
<1>13. /\ scan'.at = on /\ scan'.capped = cap /\ scan'.got = Append(scan.got, f)
       /\ scan'.steady = scan.steady
       /\ scan' \in [on : BOOLEAN, legacy : BOOLEAN, capped : BOOLEAN, at : 0..MaxPos,
                     got : Seq(Positions), steady : SUBSET Positions]
  BY <1>1, <1>2, <1>10, <1>11, <1>12
<1>14. QED  BY <1>4, <1>10, <1>11, <1>13 DEF f, at

LEMMA ReadNextKeeps ==
  ASSUME ConstantsAssumption, IInv, readNext
  PROVE  IInv'
<1> DEFINE at == scan.at
           f == Found(at)
           n == Len(scan.got)
<1>1. /\ ListOK /\ HintRight /\ TypeOK /\ ScanRight /\ ScanExact
      /\ scan \in [on : BOOLEAN, legacy : BOOLEAN, capped : BOOLEAN, at : 0..MaxPos,
                   got : Seq(Positions), steady : SUBSET Positions]
  BY DEF IInv, ListOK, TypeOK
<1>2. at \in Nat /\ n \in Nat /\ scan.got \in Seq(Positions)
  BY <1>1 DEF ConstantsAssumption
<1>3. Ahead(at) # {} /\ hint' = HintAt(at) /\ UNCHANGED index
  BY DEF readNext
<1>4. hint' \in [offs : 0..MaxPos, entry : Positions \cup {None}] /\ HintRight'
  BY <1>1, <1>2, <1>3, HintAtRight
<1>5. /\ f \in DOMAIN ents /\ at <= f
      /\ scan'.at \in 0..MaxPos /\ scan'.at <= f + 1
      /\ ~scan'.capped => ~scan.capped /\ scan'.at = f + 1
      /\ scan' \in [on : BOOLEAN, legacy : BOOLEAN, capped : BOOLEAN, at : 0..MaxPos,
                    got : Seq(Positions), steady : SUBSET Positions]
      /\ scan'.got = Append(scan.got, f) /\ scan'.steady = scan.steady
  BY ReadNextMoves
<1>6. InPositionOrder' /\ Chained' /\ DOMAIN ents' = DOMAIN ents /\ TypeOK'
  BY <1>3, <1>4, <1>5, IndexKept
<1>7. \A q \in DOMAIN ents : at <= q => f <= q
  BY <1>1, <1>2, <1>3, FoundRight
<1>8. f \in Int /\ \A q \in DOMAIN ents : q \in Int
  BY <1>1, <1>5 DEF TypeOK, Positions
<1> HIDE DEF at, f, n
<1>9. /\ DOMAIN scan'.got = 1..(n + 1) /\ DOMAIN scan.got = 1..n /\ scan'.got[n + 1] = f
      /\ \A i \in 1..n : scan'.got[i] = scan.got[i] /\ scan.got[i] \in Int
  <2>1. \A i \in 1..n : scan.got[i] \in Positions
    BY <1>2 DEF n
  <2>2. QED  BY <1>2, <1>5, <2>1 DEF n, Positions
<1>10. ASSUME NEW p \in scan'.steady, p < scan'.at
       PROVE  \E i \in DOMAIN scan'.got : scan'.got[i] = p
  <2>1. p \in scan.steady /\ p \in DOMAIN ents
    BY <1>1, <1>5 DEF ScanRight
  <2>2. CASE p < at
    <3>1. PICK i \in 1..n : scan.got[i] = p
      BY <1>1, <1>9, <2>1, <2>2 DEF ScanExact, at
    <3>2. i \in 1..(n + 1)
      BY <1>2
    <3>3. QED  BY <1>9, <3>1, <3>2
  <2>3. CASE ~(p < at)
    <3>1. p = f
      BY <1>2, <1>5, <1>7, <1>8, <1>10, <2>1, <2>3
    <3>2. n + 1 \in 1..(n + 1)
      BY <1>2
    <3>3. QED  BY <1>9, <3>1, <3>2
  <2>4. QED  BY <2>2, <2>3
<1>11. ASSUME ~scan'.capped, NEW i \in DOMAIN scan'.got  PROVE  scan'.got[i] < scan'.at
  <2>1. ~scan.capped /\ scan'.at = f + 1
    BY <1>5, <1>11
  <2>2. CASE i = n + 1
    BY <1>8, <1>9, <2>1, <2>2
  <2>3. CASE i \in 1..n
    <3>1. scan'.got[i] \in Int /\ scan'.got[i] < at
      BY <1>1, <1>9, <2>1, <2>3 DEF ScanRight, at
    <3>2. QED  BY <1>2, <1>5, <1>8, <2>1, <3>1
  <2>4. QED  BY <1>2, <1>9, <2>2, <2>3
<1>12. ASSUME ~scan'.capped, NEW i \in DOMAIN scan'.got, NEW j \in DOMAIN scan'.got, i < j
       PROVE  scan'.got[i] < scan'.got[j]
  <2>1. ~scan.capped /\ i \in 1..n
    BY <1>2, <1>5, <1>9, <1>12
  <2>2. CASE j = n + 1
    <3>1. scan'.got[i] \in Int /\ scan'.got[i] < at
      BY <1>1, <1>9, <2>1 DEF ScanRight, at
    <3>2. QED  BY <1>2, <1>5, <1>8, <1>9, <2>2, <3>1
  <2>3. CASE j \in 1..n
    BY <1>1, <1>9, <1>12, <2>1, <2>3 DEF ScanExact
  <2>4. QED  BY <1>2, <1>9, <2>2, <2>3
<1>13. ScanRight'
  BY <1>1, <1>5, <1>6, <1>11 DEF ScanRight
<1>14. ScanExact'
  BY <1>10, <1>12 DEF ScanExact
<1>15. QED  BY <1>4, <1>6, <1>13, <1>14 DEF IInv

-----------------------------------------------------------------------------
(* The theorems                                                            *)

LEMMA InitHolds ==
  ASSUME ConstantsAssumption, Init
  PROVE  IInv
<1>1. /\ DOMAIN ents = {} /\ DOMAIN list = {} /\ Len(list) = 0 /\ list \in Seq(Positions)
      /\ tree = [k \in Keys |-> None] /\ nextPos = 0 /\ entries = 0
      /\ hint = [offs |-> 0, entry |-> None] /\ MaxPos \in Nat
      /\ scan = [on |-> FALSE, legacy |-> FALSE, capped |-> FALSE, at |-> 0, got |-> <<>>, steady |-> {}]
  BY DEF Init, Idle, ConstantsAssumption
<1>2. TypeOK
  BY <1>1 DEF TypeOK
<1>3. InPositionOrder
  BY <1>1 DEF InPositionOrder
<1>4. Chained
  BY <1>1 DEF Chained, TreeRight
<1>5. HintRight
  BY <1>1 DEF HintRight
<1>6. ScanRight /\ ScanExact
  <2>1. scan.steady = {} /\ DOMAIN scan.got = {}
    BY <1>1
  <2>2. QED  BY <2>1 DEF ScanRight, ScanExact
<1>7. QED  BY <1>2, <1>3, <1>4, <1>5, <1>6 DEF IInv

LEMMA NextKeeps ==
  ASSUME ConstantsAssumption, IInv, [Next]_vars
  PROVE  IInv'
<1>1. ASSUME NEW name \in Names, dir_add(name)  PROVE IInv'
  BY <1>1, AddKeeps
<1>2. ASSUME NEW name \in Names, dir_remove(name)  PROVE IInv'
  <2>1. TypeOK /\ Chained /\ MaxPos \in Nat
    BY DEF IInv, ConstantsAssumption
  <2>2. Get(name) \in DOMAIN ents
    BY <1>2, <2>1, GetRight DEF dir_remove
  <2>3. QED  BY <1>2, <2>2, RemoveKeeps DEF dir_remove
<1>3. ASSUME NEW offs \in 0..MaxPos, readdirNext(offs)  PROVE IInv'
  BY <1>3, ReaddirKeeps
<1>4. ASSUME NEW legacy \in BOOLEAN, opendir(legacy)  PROVE IInv'
  BY <1>4, OpendirKeeps
<1>5. CASE readNext
  BY <1>5, ReadNextKeeps
<1>6. CASE closedir
  BY <1>6, ClosedirKeeps
<1>7. CASE UNCHANGED vars
  <2>1. UNCHANGED index /\ hint' = hint /\ scan' = scan /\ TypeOK /\ ScanRight /\ ScanExact
    BY <1>7 DEF vars, IInv
  <2>2. InPositionOrder' /\ Chained' /\ DOMAIN ents' = DOMAIN ents /\ TypeOK' /\ HintRight'
    BY <2>1, IndexKept DEF TypeOK
  <2>3. ScanRight' /\ ScanExact'
    BY <2>1, <2>2 DEF ScanRight, ScanExact
  <2>4. QED  BY <2>2, <2>3 DEF IInv
<1>8. QED  BY <1>1, <1>2, <1>3, <1>4, <1>5, <1>6, <1>7 DEF Next

\* The invariant is inductive: dummyfs_dir_add, dummyfs_dir_removeEntry and
\* dummyfs_readdirNext each keep the list, the tree, the chains and the hint.
THEOREM Invariance ==
  ASSUME ConstantsAssumption
  PROVE  Spec => []IInv
<1>1. Init => IInv
  BY InitHolds
<1>2. IInv /\ [Next]_vars => IInv'
  BY NextKeeps
<1>3. QED  BY <1>1, <1>2, PTL DEF Spec

\* The list of dummyfs_dir_t always has every entry once, in the order of its
\* position, and no position is given twice.
THEOREM AlwaysInPositionOrder ==
  ASSUME ConstantsAssumption
  PROVE  Spec => []InPositionOrder
<1>1. IInv => InPositionOrder
  BY DEF IInv
<1>2. QED  BY <1>1, Invariance, PTL

\* dummyfs_dir_get always finds each entry by its name, through the first entry
\* of its hash and the chain behind it.
THEOREM AlwaysFoundByName ==
  ASSUME ConstantsAssumption
  PROVE  Spec => []FoundByName
<1>1. ASSUME IInv  PROVE FoundByName
  <2>1. TypeOK /\ Chained /\ MaxPos \in Nat
    BY <1>1 DEF IInv, ConstantsAssumption
  <2>2. ASSUME NEW p \in DOMAIN ents  PROVE Get(ents[p].name) = p
    <3>1. ents[p].name \in Names
      BY <2>1 DEF TypeOK
    <3>2. QED  BY <2>1, <3>1, GetRight
  <2>3. ASSUME NEW k \in Keys, tree[k] # None
        PROVE  tree[k] \in DOMAIN ents /\ Hash[ents[tree[k]].name] = k
    BY <2>1, <2>3 DEF Chained, TreeRight, Key
  <2>4. QED  BY <2>2, <2>3 DEF FoundByName
<1>2. IInv => FoundByName
  BY <1>1
<1>3. QED  BY <1>2, Invariance, PTL

\* dir.hint always names the first entry at or after its position, or none.
THEOREM HintAlwaysRight ==
  ASSUME ConstantsAssumption
  PROVE  Spec => []HintRight
<1>1. IInv => HintRight
  BY DEF IInv
<1>2. QED  BY <1>1, Invariance, PTL

\* A client that calls dummyfs_readdirNext with the position it was given never
\* passes an entry that was there from the start, whatever is added and removed
\* meanwhile, and gets no entry twice, unless d_reclen was cut on its way.
THEOREM ScanAlwaysExact ==
  ASSUME ConstantsAssumption
  PROVE  Spec => []ScanExact
<1>1. IInv => ScanExact
  BY DEF IInv
<1>2. QED  BY <1>1, Invariance, PTL
=============================================================================
