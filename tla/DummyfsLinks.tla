---------------------------- MODULE DummyfsLinks ----------------------------
(***************************************************************************)
(* The inductive invariant of the objects of dummyfs, and what it takes to *)
(* keep it when a link is made: which counts a new entry changes, and that *)
(* _dummyfs_link changes just these.                                       *)
(*                                                                         *)
(* The properties of Dummyfs are not inductive: that no entry names an     *)
(* object which is gone rests on link counts never being too low, for the  *)
(* objects too whose count a failed request left wrong, and these counts   *)
(* rest on a directory being empty when it is destroyed.  IInv says so of  *)
(* all objects at once.                                                    *)
(***************************************************************************)
EXTENDS Dummyfs, FiniteSetTheorems, TLAPS

-----------------------------------------------------------------------------
(* The inductive invariant                                                 *)

\* A directory whose "." and ".." were both added.
Dotted(o) == o.dot /\ o.dotdot # None

\* The objects m, of which those in lost have an uncertain link count.  Entries name
\* objects, ".." the directory that has the name, and no link count is too low.
Sound(m, i) ==
  /\ m[i] \in Object
  /\ ~IsDir(m[i]) => DOMAIN m[i].ents = {} /\ m[i].dotdot = None
  /\ \A n \in DOMAIN m[i].ents :
       /\ m[i].ents[n] \in DOMAIN m
       /\ IsDir(m[m[i].ents[n]]) => m[m[i].ents[n]].dotdot = i

Counts(m, L, i) ==
  /\ m[i].nlink >= Count(m, i)
  /\ i \notin L => m[i].nlink = Count(m, i)
  /\ IsDir(m[i]) /\ ~Dotted(m[i]) => i \in L /\ m[i].nlink > Count(m, i)

Good(m, L) ==
  /\ DOMAIN m \subseteq Ids
  /\ \A i \in DOMAIN m : Sound(m, i)
  /\ \A i \in DOMAIN m : Counts(m, L, i)

\* What nobody uses is gone.
Kept(m, L) == \A i \in DOMAIN m \ (L \cup {Root}) : ~object_remove(m[i])

\* References are the opens of clients and, for the root, one of its own.
Own(i) == IF i = Root THEN 1 ELSE 0

RefsRight(m, op, L) ==
  /\ Root \in DOMAIN m
  /\ op \in [Ids -> Nat]
  /\ \A i \in Ids \ DOMAIN m : op[i] = 0
  /\ \A i \in DOMAIN m :
       m[i].refs >= op[i] + Own(i) /\ (i \notin L => m[i].refs = op[i] + Own(i))

ObjInv(m, op, L) == Good(m, L) /\ Kept(m, L) /\ RefsRight(m, op, L)

IInv == fails \in 0..MaxFails /\ lost \subseteq Ids /\ ObjInv(obj, opens, lost)

-----------------------------------------------------------------------------
(* What a change of entries does to the counts                             *)

\* Entries are names of objects in m.
Closed(m) ==
  /\ DOMAIN m \subseteq Ids
  /\ \A i \in DOMAIN m : DOMAIN m[i].ents \subseteq Names
  /\ \A i \in DOMAIN m : \A n \in DOMAIN m[i].ents : m[i].ents[n] \in DOMAIN m

\* m2 is m with an entry n for o in the directory d.
Adds(m, m2, d, n, o) ==
  /\ d \in DOMAIN m /\ IsDir(m[d]) /\ o \in DOMAIN m
  /\ n \in Names /\ n \notin DOMAIN m[d].ents
  /\ DOMAIN m2 = DOMAIN m
  /\ \A i \in DOMAIN m : m2[i].kind = m[i].kind
  /\ \A i \in DOMAIN m : DOMAIN m2[i].ents = DOMAIN m[i].ents \cup (IF i = d THEN {n} ELSE {})
  /\ \A i \in DOMAIN m : \A k \in DOMAIN m[i].ents : m2[i].ents[k] = m[i].ents[k]
  /\ m2[d].ents[n] = o

LEMMA CountType ==
  ASSUME NEW m, Closed(m), NEW i \in DOMAIN m
  PROVE  /\ IsFiniteSet(LinksIn(m, i)) /\ Cardinality(LinksIn(m, i)) \in Nat
         /\ IsFiniteSet(SubdirsIn(m, i)) /\ Cardinality(SubdirsIn(m, i)) \in Nat
         /\ Count(m, i) \in Nat
<1>1. IsFiniteSet(DOMAIN m)
  BY ConstantsAssumption, FS_Subset DEF Closed
<1>2. IsFiniteSet((DOMAIN m) \X Names)
  BY <1>1, ConstantsAssumption, FS_Product
<1>3. IsFiniteSet(LinksIn(m, i))
  BY <1>2, FS_Subset DEF LinksIn
<1>4. SubdirsIn(m, i) \in SUBSET Names
  BY DEF SubdirsIn, Closed
<1>5. IsFiniteSet(SubdirsIn(m, i))
  BY <1>4, ConstantsAssumption, FS_Subset
<1>6. Cardinality(LinksIn(m, i)) \in Nat /\ Cardinality(SubdirsIn(m, i)) \in Nat
  BY <1>3, <1>5, FS_CardinalityType
<1>7. QED  BY <1>3, <1>5, <1>6 DEF Count

LEMMA AddsLinks ==
  ASSUME NEW m, NEW m2, NEW d, NEW n, NEW o, Closed(m), Adds(m, m2, d, n, o),
         NEW i \in DOMAIN m
  PROVE  Cardinality(LinksIn(m2, i)) = Cardinality(LinksIn(m, i)) + (IF i = o THEN 1 ELSE 0)
<1>1. <<d, n>> \notin LinksIn(m, i)
  BY DEF Adds, LinksIn, Has
<1>2. ASSUME NEW e \in (DOMAIN m) \X Names
      PROVE  e \in LinksIn(m2, i) <=> e \in LinksIn(m, i) \/ (i = o /\ e = <<d, n>>)
  <2>1. e[1] \in DOMAIN m /\ e = <<e[1], e[2]>>
    OBVIOUS
  <2>2. m2[e[1]].kind = m[e[1]].kind
    BY <2>1 DEF Adds
  <2>3. CASE e = <<d, n>>
    BY <2>3, <2>1, <2>2, <1>1 DEF Adds, LinksIn, Has, IsDir
  <2>4. CASE e # <<d, n>>
    <3>1. e[1] # d \/ e[2] # n
      BY <2>4, <2>1
    <3>2. e[2] \in DOMAIN m2[e[1]].ents <=> e[2] \in DOMAIN m[e[1]].ents
      BY <2>1, <3>1 DEF Adds
    <3>3. e[2] \in DOMAIN m[e[1]].ents => m2[e[1]].ents[e[2]] = m[e[1]].ents[e[2]]
      BY <2>1 DEF Adds
    <3>4. QED  BY <2>4, <2>2, <3>2, <3>3 DEF Adds, LinksIn, Has, IsDir
  <2>5. QED  BY <2>3, <2>4
<1>3. /\ LinksIn(m, i) \subseteq (DOMAIN m) \X Names
      /\ LinksIn(m2, i) \subseteq (DOMAIN m) \X Names
      /\ <<d, n>> \in (DOMAIN m) \X Names
  BY DEF LinksIn, Adds
<1>4. IsFiniteSet(LinksIn(m, i)) /\ Cardinality(LinksIn(m, i)) \in Nat
  BY CountType
<1>5. CASE i = o
  <2>1. LinksIn(m2, i) = LinksIn(m, i) \cup {<<d, n>>}
    BY <1>2, <1>3, <1>5
  <2>2. Cardinality(LinksIn(m, i) \cup {<<d, n>>}) = Cardinality(LinksIn(m, i)) + 1
    BY <1>1, <1>4, FS_AddElement
  <2>3. QED  BY <2>1, <2>2, <1>5
<1>6. CASE i # o
  <2>1. LinksIn(m2, i) = LinksIn(m, i)
    BY <1>2, <1>3, <1>6
  <2>2. QED  BY <2>1, <1>4, <1>6
<1>7. QED  BY <1>5, <1>6

LEMMA AddsSubdirs ==
  ASSUME NEW m, NEW m2, NEW d, NEW n, NEW o, Closed(m), Adds(m, m2, d, n, o),
         NEW i \in DOMAIN m
  PROVE  Cardinality(SubdirsIn(m2, i)) =
           Cardinality(SubdirsIn(m, i)) + (IF i = d /\ IsDir(m[o]) THEN 1 ELSE 0)
<1>1. n \notin SubdirsIn(m, d)
  BY DEF Adds, SubdirsIn
<1>2. ASSUME NEW k
      PROVE  k \in SubdirsIn(m2, i) <=> k \in SubdirsIn(m, i) \/ (i = d /\ k = n /\ IsDir(m[o]))
  <2>1. CASE i = d /\ k = n
    BY <2>1, <1>1 DEF Adds, SubdirsIn, IsDir
  <2>2. CASE ~(i = d /\ k = n)
    <3>1. k \in DOMAIN m2[i].ents <=> k \in DOMAIN m[i].ents
      BY <2>2 DEF Adds
    <3>2. ASSUME k \in DOMAIN m[i].ents
          PROVE  m2[m2[i].ents[k]].kind = m[m[i].ents[k]].kind
      BY <3>2 DEF Adds, Closed
    <3>3. QED  BY <2>2, <3>1, <3>2 DEF SubdirsIn, IsDir
  <2>3. QED  BY <2>1, <2>2
<1>3. IsFiniteSet(SubdirsIn(m, i)) /\ Cardinality(SubdirsIn(m, i)) \in Nat
  BY CountType
<1>4. CASE i = d /\ IsDir(m[o])
  <2>1. SubdirsIn(m2, i) = SubdirsIn(m, i) \cup {n}
    BY <1>2, <1>4
  <2>2. Cardinality(SubdirsIn(m, i) \cup {n}) = Cardinality(SubdirsIn(m, i)) + 1
    BY <1>1, <1>3, <1>4, FS_AddElement
  <2>3. QED  BY <2>1, <2>2, <1>4
<1>5. CASE ~(i = d /\ IsDir(m[o]))
  <2>1. SubdirsIn(m2, i) = SubdirsIn(m, i)
    BY <1>2, <1>5
  <2>2. QED  BY <2>1, <1>3, <1>5
<1>6. QED  BY <1>4, <1>5

\* An entry is one link of what it names, a directory's entry one more by "." and one
\* of the directory it is in by "..".
Weight(m, d, o, i) ==
  (IF i = o THEN (IF IsDir(m[o]) THEN 2 ELSE 1) ELSE 0) + (IF i = d /\ IsDir(m[o]) THEN 1 ELSE 0)

LEMMA AddsCount ==
  ASSUME NEW m, NEW m2, NEW d, NEW n, NEW o, Closed(m), Adds(m, m2, d, n, o),
         NEW i \in DOMAIN m
  PROVE  Count(m2, i) = Count(m, i) + Weight(m, d, o, i)
<1>1. Closed(m2)
  BY DEF Closed, Adds
<1>2. i \in DOMAIN m2 /\ (IsDir(m2[i]) <=> IsDir(m[i]))
  BY DEF Adds, IsDir
<1>3. Cardinality(LinksIn(m2, i)) = Cardinality(LinksIn(m, i)) + (IF i = o THEN 1 ELSE 0)
  BY AddsLinks
<1>4. Cardinality(SubdirsIn(m2, i)) =
        Cardinality(SubdirsIn(m, i)) + (IF i = d /\ IsDir(m[o]) THEN 1 ELSE 0)
  BY AddsSubdirs
<1>5. ~IsDir(m[i]) => i # d
  BY DEF Adds
<1>6. Cardinality(LinksIn(m, i)) \in Nat /\ Cardinality(SubdirsIn(m, i)) \in Nat
  BY CountType
<1>7. CASE IsDir(m[i])
  BY <1>2, <1>3, <1>4, <1>6, <1>7 DEF Count, Weight
<1>8. CASE ~IsDir(m[i])
  BY <1>2, <1>3, <1>5, <1>6, <1>8 DEF Count, Weight
<1>9. QED  BY <1>7, <1>8

\* m2 is m with the directory o emptied.
Clears(m, m2, o) ==
  /\ DOMAIN m2 = DOMAIN m
  /\ \A i \in DOMAIN m : m2[i].kind = m[i].kind
  /\ \A i \in DOMAIN m \ {o} : m2[i].ents = m[i].ents
  /\ DOMAIN m2[o].ents = {}

Contents(m, o) == {m[o].ents[n] : n \in DOMAIN m[o].ents}

LEMMA ClearsCount ==
  ASSUME NEW m, NEW m2, NEW o \in DOMAIN m, Closed(m), Clears(m, m2, o), NEW i \in DOMAIN m
  PROVE  /\ Count(m2, i) <= Count(m, i)
         /\ i # o /\ i \notin Contents(m, o) => Count(m2, i) = Count(m, i)
<1>1. Closed(m2) /\ i \in DOMAIN m2 /\ (IsDir(m2[i]) <=> IsDir(m[i]))
  BY DEF Closed, Clears, IsDir
<1>2. ASSUME NEW e \in LinksIn(m2, i)  PROVE  e \in LinksIn(m, i) /\ e[1] # o
  <2>1. e \in (DOMAIN m) \X Names /\ e[1] \in DOMAIN m /\ e[1] \in DOMAIN m2
    BY <1>2 DEF LinksIn, Clears
  <2>2. Has(m2[e[1]], e[2]) /\ m2[e[1]].ents[e[2]] = i
    BY <1>2 DEF LinksIn
  <2>3. e[1] # o
    BY <2>2 DEF Has, Clears
  <2>4. m2[e[1]].ents = m[e[1]].ents /\ m2[e[1]].kind = m[e[1]].kind
    BY <2>1, <2>3 DEF Clears
  <2>5. QED  BY <2>1, <2>2, <2>3, <2>4 DEF LinksIn, Has, IsDir
<1>3. LinksIn(m2, i) \subseteq LinksIn(m, i)
  BY <1>2
<1>4. SubdirsIn(m2, i) \subseteq SubdirsIn(m, i)
  BY DEF SubdirsIn, Clears, Closed, IsDir
<1>5. /\ IsFiniteSet(LinksIn(m, i)) /\ Cardinality(LinksIn(m, i)) \in Nat
      /\ IsFiniteSet(SubdirsIn(m, i)) /\ Cardinality(SubdirsIn(m, i)) \in Nat
      /\ Cardinality(LinksIn(m2, i)) \in Nat /\ Cardinality(SubdirsIn(m2, i)) \in Nat
  BY CountType, <1>1
<1>6. Cardinality(LinksIn(m2, i)) <= Cardinality(LinksIn(m, i))
  BY <1>3, <1>5, FS_Subset
<1>7. Cardinality(SubdirsIn(m2, i)) <= Cardinality(SubdirsIn(m, i))
  BY <1>4, <1>5, FS_Subset
<1>8. Count(m2, i) <= Count(m, i)
  BY <1>1, <1>5, <1>6, <1>7 DEF Count
<1>9. ASSUME i # o, i \notin Contents(m, o)  PROVE  Count(m2, i) = Count(m, i)
  <2>1. ASSUME NEW e \in LinksIn(m, i)  PROVE  e \in LinksIn(m2, i)
    <3>1. /\ e \in (DOMAIN m) \X Names /\ e[1] \in DOMAIN m /\ e[1] \in DOMAIN m2
          /\ Has(m[e[1]], e[2]) /\ m[e[1]].ents[e[2]] = i
      BY <2>1 DEF LinksIn, Clears
    <3>2. e[1] # o
      BY <3>1, <1>9 DEF Contents, Has
    <3>3. m2[e[1]].ents = m[e[1]].ents /\ m2[e[1]].kind = m[e[1]].kind
      BY <3>1, <3>2 DEF Clears
    <3>4. QED  BY <3>1, <3>3 DEF LinksIn, Has, IsDir, Clears
  <2>2. LinksIn(m2, i) = LinksIn(m, i)
    BY <2>1, <1>3
  <2>3. SubdirsIn(m2, i) = SubdirsIn(m, i)
    BY <1>9 DEF SubdirsIn, Clears, Closed, IsDir
  <2>4. QED  BY <1>1, <2>2, <2>3 DEF Count
<1>10. QED  BY <1>8, <1>9

\* m2 and m differ by objects that no entry names and that have no entries.
Shares(m, m2) ==
  /\ \A i \in DOMAIN m \cap DOMAIN m2 : m2[i].kind = m[i].kind /\ m2[i].ents = m[i].ents
  /\ \A i \in DOMAIN m \ DOMAIN m2 : DOMAIN m[i].ents = {}
  /\ \A i \in DOMAIN m2 \ DOMAIN m : DOMAIN m2[i].ents = {}

LEMMA SharesCount ==
  ASSUME NEW m, NEW m2, Closed(m), Closed(m2), Shares(m, m2), NEW i \in DOMAIN m \cap DOMAIN m2
  PROVE  Count(m2, i) = Count(m, i)
<1>1. LinksIn(m2, i) = LinksIn(m, i)
  <2>1. ASSUME NEW e  PROVE  e \in LinksIn(m2, i) <=> e \in LinksIn(m, i)
    BY DEF LinksIn, Has, IsDir, Shares
  <2>2. QED  BY <2>1
<1>2. SubdirsIn(m2, i) = SubdirsIn(m, i)
  BY DEF SubdirsIn, IsDir, Shares, Closed
<1>3. QED  BY <1>1, <1>2 DEF Count, IsDir, Shares

-----------------------------------------------------------------------------
(* Entries as functions                                                    *)

LEMMA EntsType ==
  ASSUME NEW e
  PROVE  e \in Ents <=> /\ e = [n \in DOMAIN e |-> e[n]]
                        /\ DOMAIN e \subseteq Names
                        /\ \A n \in DOMAIN e : e[n] \in Ids
<1>1. ASSUME e \in Ents
      PROVE  e = [n \in DOMAIN e |-> e[n]] /\ DOMAIN e \subseteq Names /\ \A n \in DOMAIN e : e[n] \in Ids
  <2>1. PICK S \in SUBSET Names : e \in [S -> Ids]
    BY <1>1 DEF Ents
  <2>2. QED  BY <2>1
<1>2. ASSUME e = [n \in DOMAIN e |-> e[n]], DOMAIN e \subseteq Names, \A n \in DOMAIN e : e[n] \in Ids
      PROVE  e \in Ents
  <2>1. e \in [DOMAIN e -> Ids]
    BY <1>2
  <2>2. QED  BY <1>2, <2>1 DEF Ents
<1>3. QED  BY <1>1, <1>2

LEMMA NoEnts == <<>> \in Ents /\ DOMAIN <<>> = {}
<1>1. DOMAIN <<>> = {}
  OBVIOUS
<1>2. <<>> \in [{} -> Ids]
  OBVIOUS
<1>3. QED  BY <1>1, <1>2 DEF Ents

\* The entries of With and of dir_remove.
Added(e, name, id) == [n \in DOMAIN e \cup {name} |-> IF n = name THEN id ELSE e[n]]
Removed(e, name) == [n \in DOMAIN e \ {name} |-> e[n]]

LEMMA AddedType ==
  ASSUME NEW e \in Ents, NEW name \in Names, NEW id \in Ids
  PROVE  Added(e, name, id) \in Ents
<1>1. DOMAIN e \subseteq Names /\ \A n \in DOMAIN e : e[n] \in Ids
  BY EntsType
<1>2. Added(e, name, id) \in [DOMAIN e \cup {name} -> Ids]
  BY <1>1 DEF Added
<1>3. QED  BY <1>1, <1>2 DEF Ents

LEMMA RemovedType ==
  ASSUME NEW e \in Ents, NEW name
  PROVE  Removed(e, name) \in Ents
<1>1. DOMAIN e \subseteq Names /\ \A n \in DOMAIN e : e[n] \in Ids
  BY EntsType
<1>2. Removed(e, name) \in [DOMAIN e \ {name} -> Ids]
  BY <1>1 DEF Removed
<1>3. QED  BY <1>1, <1>2 DEF Ents

LEMMA WithFields ==
  ASSUME NEW o \in Object, NEW name \in Names, NEW id \in Ids
  PROVE  /\ With(o, name, id) \in Object
         /\ With(o, name, id).kind = o.kind /\ With(o, name, id).nlink = o.nlink
         /\ With(o, name, id).refs = o.refs /\ With(o, name, id).dot = o.dot
         /\ With(o, name, id).dotdot = o.dotdot
         /\ With(o, name, id).ents = Added(o.ents, name, id)
<1>1. o.ents \in Ents /\ Added(o.ents, name, id) \in Ents
  BY AddedType DEF Object
<1>2. With(o, name, id) = [o EXCEPT !.ents = Added(o.ents, name, id)]
  BY DEF With, Added
<1>3. QED  BY <1>1, <1>2 DEF Object

LEMMA RemoveFields ==
  ASSUME NEW o \in Object, NEW name
  PROVE  /\ dir_remove(o, name) \in Object
         /\ dir_remove(o, name).kind = o.kind /\ dir_remove(o, name).nlink = o.nlink
         /\ dir_remove(o, name).refs = o.refs /\ dir_remove(o, name).dot = o.dot
         /\ dir_remove(o, name).dotdot = o.dotdot
         /\ dir_remove(o, name).ents = Removed(o.ents, name)
<1>1. o.ents \in Ents /\ Removed(o.ents, name) \in Ents
  BY RemovedType DEF Object
<1>2. dir_remove(o, name) = [o EXCEPT !.ents = Removed(o.ents, name)]
  BY DEF dir_remove, Removed
<1>3. QED  BY <1>1, <1>2 DEF Object

-----------------------------------------------------------------------------
(* _dummyfs_link                                                           *)

LEMMA DirInitFields ==
  ASSUME NEW o \in Object, NEW d \in Ids \cup {None}, NEW k \in Nat, NEW b \in BOOLEAN
  PROVE  LET x == [DirInit(o, d) EXCEPT !.nlink = k, !.dot = b]
             y == [DirInit(o, d) EXCEPT !.nlink = k]
         IN /\ x \in Object /\ x.kind = o.kind /\ x.nlink = k /\ x.refs = o.refs
            /\ x.ents = <<>> /\ x.dot = b /\ x.dotdot = d
            /\ y \in Object /\ y.kind = o.kind /\ y.nlink = k /\ y.refs = o.refs
            /\ y.ents = <<>> /\ y.dot = TRUE /\ y.dotdot = d
BY NoEnts DEF DirInit, Object

LEMMA NlinkFields ==
  ASSUME NEW o \in Object, NEW k \in Nat
  PROVE  LET x == [o EXCEPT !.nlink = k]
         IN /\ x \in Object /\ x.kind = o.kind /\ x.nlink = k /\ x.refs = o.refs
            /\ x.ents = o.ents /\ x.dot = o.dot /\ x.dotdot = o.dotdot
BY DEF Object

\* Everything of the object x but its link count is as in y.
Alike(x, y) ==
  /\ x.kind = y.kind /\ x.refs = y.refs /\ x.ents = y.ents
  /\ x.dot = y.dot /\ x.dotdot = y.dotdot

\* c is m with one link more of the file o.
CountsFile(m, c, o) ==
  /\ DOMAIN c = DOMAIN m
  /\ \A i \in DOMAIN m :
       /\ c[i] \in Object /\ Alike(c[i], m[i])
       /\ c[i].nlink = m[i].nlink + (IF i = o THEN 1 ELSE 0)

\* c is m with the directory o emptied and the links of its name and its dots in d.
CountsDir(m, c, d, o) ==
  /\ DOMAIN c = DOMAIN m
  /\ \A i \in DOMAIN m :
       /\ c[i] \in Object /\ c[i].kind = m[i].kind /\ c[i].refs = m[i].refs
       /\ i # o => Alike(c[i], m[i])
       /\ c[i].nlink = (IF i = o THEN 2 ELSE m[i].nlink) + (IF i = d THEN 1 ELSE 0)
  /\ c[o].ents = <<>> /\ c[o].dot = TRUE /\ c[o].dotdot = d

LEMMA CountedFile ==
  ASSUME NEW m, NEW d, NEW o \in DOMAIN m, ~IsDir(m[o]), \A i \in DOMAIN m : m[i] \in Object
  PROVE  CountsFile(m, Counted(m, d, o), o)
<1> DEFINE c == Counted(m, d, o)
<1>1. c = [m EXCEPT ![o] = [m[o] EXCEPT !.nlink = m[o].nlink + 1]]
  BY DEF Counted
<1>2. m[o].nlink + 1 \in Nat
  BY DEF Object
<1>3. ASSUME NEW i \in DOMAIN m
      PROVE  /\ c[i] \in Object /\ Alike(c[i], m[i])
             /\ c[i].nlink = m[i].nlink + (IF i = o THEN 1 ELSE 0)
  <2>1. CASE i = o
    <3>1. c[i] = [m[o] EXCEPT !.nlink = m[o].nlink + 1]
      BY <1>1, <2>1
    <3>2. QED  BY <3>1, <2>1, <1>2, NlinkFields DEF Alike
  <2>2. CASE i # o
    <3>1. c[i] = m[i]
      BY <1>1, <2>2
    <3>2. m[i].nlink \in Nat
      BY DEF Object
    <3>3. QED  BY <3>1, <3>2, <2>2 DEF Alike
  <2>3. QED  BY <2>1, <2>2
<1>4. DOMAIN c = DOMAIN m
  BY <1>1
<1> HIDE DEF c
<1>5. CountsFile(m, c, o)
  BY <1>3, <1>4 DEF CountsFile
<1>6. QED  BY <1>5 DEF c

LEMMA CountedDir ==
  ASSUME NEW m, NEW d \in DOMAIN m, NEW o \in DOMAIN m, IsDir(m[o]), d \in Ids,
         \A i \in DOMAIN m : m[i] \in Object
  PROVE  CountsDir(m, Counted(m, d, o), d, o)
<1> DEFINE c == Counted(m, d, o)
           b == [DirInit(m[o], d) EXCEPT !.nlink = 2]
           e == [m EXCEPT ![o] = b]
<1>1. c = [e EXCEPT ![d] = [e[d] EXCEPT !.nlink = e[d].nlink + 1]]
  BY DEF Counted
<1>2. /\ b \in Object /\ b.kind = m[o].kind /\ b.nlink = 2 /\ b.refs = m[o].refs
      /\ b.ents = <<>> /\ b.dot = TRUE /\ b.dotdot = d
  <2>1. m[o] \in Object /\ d \in Ids \cup {None}
    OBVIOUS
  <2>2. QED  BY <2>1, NoEnts DEF DirInit, Object
<1> HIDE DEF b
<1>3. /\ DOMAIN e = DOMAIN m
      /\ \A i \in DOMAIN m : e[i] = IF i = o THEN b ELSE m[i]
  OBVIOUS
<1>4. \A i \in DOMAIN m : e[i] \in Object /\ e[i].nlink \in Nat /\ e[i].nlink + 1 \in Nat
  BY <1>2, <1>3 DEF Object
<1> HIDE DEF e, c
<1>5. DOMAIN c = DOMAIN m
  BY <1>1, <1>3
<1>6. ASSUME NEW i \in DOMAIN m
      PROVE  c[i] \in Object /\ Alike(c[i], e[i]) /\ c[i].nlink = e[i].nlink + (IF i = d THEN 1 ELSE 0)
  <2>1. CASE i = d
    <3>1. c[i] = [e[d] EXCEPT !.nlink = e[d].nlink + 1]
      BY <1>1, <1>3, <2>1
    <3>2. QED  BY <3>1, <2>1, <1>4, NlinkFields DEF Alike
  <2>2. CASE i # d
    <3>1. c[i] = e[i]
      BY <1>1, <1>3, <2>2
    <3>2. QED  BY <3>1, <2>2, <1>4 DEF Alike
  <2>3. QED  BY <2>1, <2>2
<1>7. ASSUME NEW i \in DOMAIN m
      PROVE  /\ c[i].kind = m[i].kind /\ c[i].refs = m[i].refs
             /\ i # o => Alike(c[i], m[i])
             /\ c[i].nlink = (IF i = o THEN 2 ELSE m[i].nlink) + (IF i = d THEN 1 ELSE 0)
  BY <1>2, <1>3, <1>6 DEF Alike
<1>8. c[o].ents = <<>> /\ c[o].dot = TRUE /\ c[o].dotdot = d
  BY <1>2, <1>3, <1>6 DEF Alike
<1>9. CountsDir(m, c, d, o)
  BY <1>5, <1>6, <1>7, <1>8 DEF CountsDir
<1>10. QED  BY <1>9 DEF c

\* The counts of the objects before the last dummyfs_dir_add: they have the links that
\* it is about to make.
LEMMA CountNone ==
  ASSUME NEW m, Closed(m), NEW i \in DOMAIN m, Count(m, i) = 0
  PROVE  LinksIn(m, i) = {} /\ (IsDir(m[i]) => SubdirsIn(m, i) = {})
<1>1. /\ IsFiniteSet(LinksIn(m, i)) /\ Cardinality(LinksIn(m, i)) \in Nat
      /\ IsFiniteSet(SubdirsIn(m, i)) /\ Cardinality(SubdirsIn(m, i)) \in Nat
  BY CountType
<1>2. Cardinality(LinksIn(m, i)) = 0 /\ (IsDir(m[i]) => Cardinality(SubdirsIn(m, i)) = 0)
  BY <1>1 DEF Count
<1>3. QED  BY <1>1, <1>2, FS_EmptySet

LEMMA CountSome ==
  ASSUME NEW m, Closed(m), NEW i \in DOMAIN m, NEW d \in DOMAIN m, NEW n \in DOMAIN m[d].ents,
         IsDir(m[d]), m[d].ents[n] = i
  PROVE  /\ Count(m, i) >= IF IsDir(m[i]) THEN 2 ELSE 1
         /\ IsDir(m[i]) => Count(m, d) >= 1
<1>1. <<d, n>> \in LinksIn(m, i)
  BY DEF LinksIn, Has, Closed
<1>2. /\ IsFiniteSet(LinksIn(m, i)) /\ Cardinality(LinksIn(m, i)) \in Nat
      /\ IsFiniteSet(SubdirsIn(m, i)) /\ Cardinality(SubdirsIn(m, i)) \in Nat
      /\ IsFiniteSet(LinksIn(m, d)) /\ Cardinality(LinksIn(m, d)) \in Nat
      /\ IsFiniteSet(SubdirsIn(m, d)) /\ Cardinality(SubdirsIn(m, d)) \in Nat
  BY CountType
<1>3. Cardinality(LinksIn(m, i)) # 0
  BY <1>1, <1>2, FS_EmptySet
<1>4. IsDir(m[i]) => Cardinality(SubdirsIn(m, d)) # 0
  <2>1. IsDir(m[i]) => n \in SubdirsIn(m, d)
    BY DEF SubdirsIn
  <2>2. QED  BY <2>1, <1>2, FS_EmptySet
<1>5. Count(m, i) >= IF IsDir(m[i]) THEN 2 ELSE 1
  BY <1>2, <1>3 DEF Count
<1>6. IsDir(m[i]) => Count(m, d) >= 1
  BY <1>2, <1>4 DEF Count
<1>7. QED  BY <1>5, <1>6

\* The objects m are good, but for o when it is a directory to be linked.
Linkable(m, L, o) ==
  /\ DOMAIN m \subseteq Ids /\ o \in DOMAIN m
  /\ \A i \in DOMAIN m : Sound(m, i)
  /\ \A i \in DOMAIN m : (i = o /\ IsDir(m[o])) \/ Counts(m, L, i)
  /\ IsDir(m[o]) => Count(m, o) = 0

\* With the contents of a directory that linking empties.
Losing(m, L, o) == L \cup (IF IsDir(m[o]) THEN Contents(m, o) ELSE {})

\* c differs from m in the link counts and in what it makes of a directory o.
SoundFor(m, c, d, o) ==
  /\ DOMAIN c = DOMAIN m /\ Closed(c) /\ IsDir(c[d])
  /\ \A i \in DOMAIN m : Sound(c, i) /\ c[i].kind = m[i].kind /\ c[i].refs = m[i].refs
  /\ \A i \in DOMAIN m \ {o} : Alike(c[i], m[i])
  /\ IsDir(m[o]) => c[o].dotdot = d /\ c[o].dot /\ DOMAIN c[o].ents = {}

LEMMA SoundClosed ==
  ASSUME NEW m, DOMAIN m \subseteq Ids, \A i \in DOMAIN m : Sound(m, i)
  PROVE  Closed(m)
<1>1. ASSUME NEW i \in DOMAIN m  PROVE  DOMAIN m[i].ents \subseteq Names
  <2>1. m[i].ents \in Ents
    BY DEF Sound, Object
  <2>2. QED  BY <2>1, EntsType
<1>2. QED  BY <1>1 DEF Closed, Sound

LEMMA CountedSound ==
  ASSUME NEW m, NEW L, NEW d \in DOMAIN m, NEW o, Linkable(m, L, o), IsDir(m[d])
  PROVE  SoundFor(m, Counted(m, d, o), d, o)
<1> DEFINE c == Counted(m, d, o)
<1>1. \A i \in DOMAIN m : m[i] \in Object
  BY DEF Linkable, Sound
<1>2. o \in DOMAIN m /\ d \in Ids /\ Closed(m) /\ DOMAIN m \subseteq Ids
  BY SoundClosed DEF Linkable
<1>3. CASE IsDir(m[o])
  <2>0. CountsDir(m, c, d, o)
    BY <1>1, <1>2, <1>3, CountedDir
  <2> HIDE DEF c
  <2>1. /\ DOMAIN c = DOMAIN m
        /\ \A i \in DOMAIN m :
             /\ c[i] \in Object /\ c[i].kind = m[i].kind /\ c[i].refs = m[i].refs
             /\ i # o => Alike(c[i], m[i])
        /\ c[o].ents = <<>> /\ c[o].dot = TRUE /\ c[o].dotdot = d
    BY <2>0 DEF CountsDir
  <2>2. DOMAIN c[o].ents = {}
    BY <2>1, NoEnts
  <2>3. LinksIn(m, o) = {}
    BY <1>2, <1>3, CountNone DEF Linkable
  <2>4. ASSUME NEW i \in DOMAIN m  PROVE  Sound(c, i)
    <3>1. CASE i = o
      BY <1>3, <2>1, <2>2, <3>1 DEF Sound, IsDir
    <3>2. CASE i # o
      <4>1. c[i].ents = m[i].ents /\ c[i].kind = m[i].kind /\ c[i].dotdot = m[i].dotdot
        BY <2>1, <3>2 DEF Alike
      <4>2. ASSUME NEW n \in DOMAIN m[i].ents
            PROVE  m[i].ents[n] \in DOMAIN m /\ m[i].ents[n] # o
        <5>1. m[i].ents[n] \in DOMAIN m /\ IsDir(m[i]) /\ n \in Names
          BY <1>2 DEF Linkable, Sound, Closed
        <5>2. m[i].ents[n] = o => <<i, n>> \in LinksIn(m, o)
          BY <5>1 DEF LinksIn, Has
        <5>3. QED  BY <5>1, <5>2, <2>3
      <4>3. ASSUME NEW n \in DOMAIN m[i].ents, IsDir(c[m[i].ents[n]])
            PROVE  c[m[i].ents[n]].dotdot = i
        <5>1. Alike(c[m[i].ents[n]], m[m[i].ents[n]])
          BY <4>2, <2>1
        <5>2. QED  BY <5>1, <4>3, <4>2 DEF Alike, IsDir, Linkable, Sound
      <4>4. Sound(m, i)
        BY DEF Linkable
      <4>5. QED  BY <2>1, <4>1, <4>2, <4>3, <4>4 DEF Sound, IsDir
    <3>3. QED  BY <3>1, <3>2
  <2>5. Closed(c)
    BY <2>1, <2>4, <1>2, SoundClosed
  <2>6. IsDir(c[d])
    BY <2>1 DEF IsDir
  <2>7. SoundFor(m, c, d, o)
    BY <2>1, <2>2, <2>4, <2>5, <2>6 DEF SoundFor
  <2>8. QED  BY <2>7 DEF c
<1>4. CASE ~IsDir(m[o])
  <2>0. CountsFile(m, c, o)
    BY <1>1, <1>2, <1>4, CountedFile
  <2> HIDE DEF c
  <2>1. /\ DOMAIN c = DOMAIN m
        /\ \A i \in DOMAIN m : c[i] \in Object /\ Alike(c[i], m[i])
    BY <2>0 DEF CountsFile
  <2>2. ASSUME NEW i \in DOMAIN m  PROVE  Sound(c, i)
    <3>1. Sound(m, i) /\ Alike(c[i], m[i])
      BY <2>1 DEF Linkable
    <3>2. \A n \in DOMAIN m[i].ents : Alike(c[m[i].ents[n]], m[m[i].ents[n]])
      BY <2>1, <3>1 DEF Sound
    <3>3. QED  BY <2>1, <3>1, <3>2 DEF Sound, Alike, IsDir
  <2>3. Closed(c)
    BY <2>1, <2>2, <1>2, SoundClosed
  <2>4. SoundFor(m, c, d, o)
    BY <2>1, <2>2, <2>3, <1>4 DEF SoundFor, Alike, IsDir
  <2>5. QED  BY <2>4 DEF c
<1>5. QED  BY <1>3, <1>4

\* The link count of i in c covers an entry for o in d as well.
CountsFor(c, L, d, o, i) ==
  /\ c[i].nlink >= Count(c, i) + Weight(c, d, o, i)
  /\ i \notin L => c[i].nlink = Count(c, i) + Weight(c, d, o, i)
  /\ IsDir(c[i]) /\ ~Dotted(c[i]) => i \in L /\ c[i].nlink > Count(c, i) + Weight(c, d, o, i)

LEMMA CountedCounts ==
  ASSUME NEW m, NEW L, NEW d \in DOMAIN m, NEW o, Linkable(m, L, o), IsDir(m[d])
  PROVE  \A i \in DOMAIN m : CountsFor(Counted(m, d, o), Losing(m, L, o), d, o, i)
<1> DEFINE c == Counted(m, d, o)
<1>1. \A i \in DOMAIN m : m[i] \in Object /\ m[i].nlink \in Nat
  BY DEF Linkable, Sound, Object
<1>2. o \in DOMAIN m /\ d \in Ids /\ Closed(m)
  BY SoundClosed DEF Linkable
<1>3. SoundFor(m, c, d, o)
  BY CountedSound
<1> SUFFICES ASSUME NEW i \in DOMAIN m  PROVE  CountsFor(c, Losing(m, L, o), d, o, i)
  OBVIOUS
<1>4. CASE IsDir(m[o])
  <2>1. CountsDir(m, c, d, o)
    BY <1>1, <1>2, <1>4, CountedDir
  <2> HIDE DEF c
  <2>2. Clears(m, c, o)
    BY <2>1, <1>3, <1>4 DEF Clears, CountsDir, SoundFor, Alike
  <2>3. Count(c, i) \in Nat /\ Count(m, i) \in Nat
    BY <1>2, <1>3, CountType DEF SoundFor
  <2>4. Count(c, i) <= Count(m, i) /\ (i # o /\ i \notin Contents(m, o) => Count(c, i) = Count(m, i))
    BY <1>2, <2>2, ClearsCount
  <2>5. Weight(c, d, o, i) = (IF i = o THEN 2 ELSE 0) + (IF i = d THEN 1 ELSE 0)
    BY <1>2, <1>3, <1>4 DEF Weight, SoundFor, IsDir
  <2>6. CASE i = o
    <3>1. Count(c, i) = 0
      BY <2>3, <2>4, <2>6, <1>4 DEF Linkable
    <3>2. c[i].nlink = 2 + (IF i = d THEN 1 ELSE 0)
      BY <2>1, <2>6 DEF CountsDir
    <3>3. Dotted(c[i])
      BY <2>1, <2>6, <1>2, ConstantsAssumption DEF CountsDir, Dotted, None
    <3>4. QED  BY <3>1, <3>2, <3>3, <2>5, <2>6 DEF CountsFor
  <2>7. CASE i # o
    <3>1. Counts(m, L, i)
      BY <2>7 DEF Linkable
    <3>2. c[i].nlink = m[i].nlink + (IF i = d THEN 1 ELSE 0) /\ Alike(c[i], m[i])
      BY <2>1, <2>7 DEF CountsDir
    <3>3. i \notin Losing(m, L, o) => i \notin L /\ i \notin Contents(m, o)
      BY <1>4 DEF Losing
    <3>4. i \in L => i \in Losing(m, L, o)
      BY DEF Losing
    <3>5. (Dotted(c[i]) <=> Dotted(m[i])) /\ (IsDir(c[i]) <=> IsDir(m[i]))
      BY <3>2 DEF Alike, Dotted, IsDir
    <3>6. Weight(c, d, o, i) = IF i = d THEN 1 ELSE 0
      BY <2>5, <2>7
    <3>7. QED  BY <3>1, <3>2, <3>3, <3>4, <3>5, <3>6, <2>3, <2>4, <2>7, <1>1 DEF CountsFor, Counts
  <2>8. QED  BY <2>6, <2>7
<1>5. CASE ~IsDir(m[o])
  <2>1. CountsFile(m, c, o)
    BY <1>1, <1>2, <1>5, CountedFile
  <2> HIDE DEF c
  <2>2. Shares(m, c) /\ Closed(c)
    BY <2>1, <1>3 DEF Shares, CountsFile, Alike, SoundFor
  <2>3. Count(c, i) = Count(m, i) /\ Count(m, i) \in Nat
    BY <1>2, <1>3, <2>2, SharesCount, CountType DEF SoundFor
  <2>4. Weight(c, d, o, i) = IF i = o THEN 1 ELSE 0
    BY <1>2, <1>3, <1>5 DEF Weight, SoundFor, IsDir
  <2>5. c[i].nlink = m[i].nlink + (IF i = o THEN 1 ELSE 0) /\ Alike(c[i], m[i])
    BY <2>1 DEF CountsFile
  <2>6. Counts(m, L, i) /\ Losing(m, L, o) = L
    BY <1>5 DEF Linkable, Losing
  <2>7. (Dotted(c[i]) <=> Dotted(m[i])) /\ (IsDir(c[i]) <=> IsDir(m[i]))
    BY <2>5 DEF Alike, Dotted, IsDir
  <2>8. QED  BY <2>3, <2>4, <2>5, <2>6, <2>7, <1>1 DEF CountsFor, Counts
<1>6. QED  BY <1>4, <1>5

\* f is c with the entry, and without one link of the object that lost the name.
Enters(c, f, d, name, o) ==
  /\ DOMAIN f = DOMAIN c
  /\ \A i \in DOMAIN c :
       /\ f[i] \in Object /\ f[i].kind = c[i].kind /\ f[i].refs = c[i].refs
       /\ f[i].dot = c[i].dot /\ f[i].dotdot = c[i].dotdot
       /\ f[i].ents = IF i = d THEN Added(c[i].ents, name, o) ELSE c[i].ents
       /\ f[i].nlink = c[i].nlink - (IF i \in Victims(c, d, name, o) THEN 1 ELSE 0)

LEMMA LinkedEnters ==
  ASSUME NEW m, NEW d, NEW name \in Names, NEW o \in Ids, NEW c, c = Counted(m, d, o),
         \A i \in DOMAIN c : c[i] \in Object,
         \A i \in Victims(c, d, name, o) : c[i].nlink > 0
  PROVE  Enters(c, Linked(m, d, name, o), d, name, o)
<1> DEFINE f == Linked(m, d, name, o)
           v == Victims(c, d, name, o)
           e(i) == IF i = d THEN With(c[i], name, o) ELSE c[i]
<1>1. f = [i \in DOMAIN c |-> IF i \in v THEN [e(i) EXCEPT !.nlink = e(i).nlink - 1] ELSE e(i)]
  BY DEF Linked
<1> HIDE DEF f, v
<1>2. ASSUME NEW i \in DOMAIN c
      PROVE  /\ e(i) \in Object /\ e(i).kind = c[i].kind /\ e(i).refs = c[i].refs
             /\ e(i).dot = c[i].dot /\ e(i).dotdot = c[i].dotdot /\ e(i).nlink = c[i].nlink
             /\ e(i).ents = IF i = d THEN Added(c[i].ents, name, o) ELSE c[i].ents
  <2>1. CASE i = d
    <3>1. e(i) = With(c[i], name, o) /\ c[i] \in Object
      BY <2>1
    <3>2. QED  BY <3>1, <2>1, WithFields
  <2>2. CASE i # d
    BY <2>2
  <2>3. QED  BY <2>1, <2>2
<1> HIDE DEF e
<1>3. ASSUME NEW i \in DOMAIN c
      PROVE  /\ f[i] \in Object /\ f[i].kind = c[i].kind /\ f[i].refs = c[i].refs
             /\ f[i].dot = c[i].dot /\ f[i].dotdot = c[i].dotdot
             /\ f[i].ents = IF i = d THEN Added(c[i].ents, name, o) ELSE c[i].ents
             /\ f[i].nlink = c[i].nlink - (IF i \in v THEN 1 ELSE 0)
  <2>1. c[i].nlink \in Nat /\ (i \in v => c[i].nlink - 1 \in Nat)
    BY DEF v, Object
  <2>2. CASE i \in v
    <3>1. f[i] = [e(i) EXCEPT !.nlink = c[i].nlink - 1]
      BY <1>1, <1>2, <2>2
    <3>2. /\ f[i] \in Object /\ f[i].nlink = c[i].nlink - 1 /\ Alike(f[i], e(i))
      BY <3>1, <1>2, <2>1, <2>2, NlinkFields DEF Alike
    <3>3. QED  BY <3>2, <1>2, <2>2 DEF Alike
  <2>3. CASE i \notin v
    <3>1. f[i] = e(i)
      BY <1>1, <2>3
    <3>2. QED  BY <3>1, <1>2, <2>1, <2>3
  <2>4. QED  BY <2>2, <2>3
<1>4. DOMAIN f = DOMAIN c
  BY <1>1
<1>5. Enters(c, f, d, name, o)
  BY <1>3, <1>4 DEF Enters, v
<1>6. QED  BY <1>5 DEF f

LEMMA EntersCount ==
  ASSUME NEW c, NEW f, NEW d \in DOMAIN c, NEW name \in Names, NEW o \in DOMAIN c,
         Closed(c), \A i \in DOMAIN c : c[i] \in Object, IsDir(c[d]),
         Enters(c, f, d, name, o), ~Exists(c, d, name, o), NEW i \in DOMAIN c
  PROVE  Count(f, i) = Count(c, i) + Weight(c, d, o, i)
                         - (IF i \in Victims(c, d, name, o) THEN 1 ELSE 0)
<1>0. Count(c, i) \in Nat
  BY CountType
<1>1. CASE name \notin DOMAIN c[d].ents
  <2>1. Victims(c, d, name, o) = {}
    BY <1>1 DEF Victims, Has
  <2>2. Adds(c, f, d, name, o)
    <3>1. DOMAIN f = DOMAIN c /\ \A j \in DOMAIN c : f[j].kind = c[j].kind
      BY DEF Enters
    <3>2. f[d].ents = Added(c[d].ents, name, o) /\ \A j \in DOMAIN c \ {d} : f[j].ents = c[j].ents
      BY DEF Enters
    <3>3. /\ DOMAIN f[d].ents = DOMAIN c[d].ents \cup {name} /\ f[d].ents[name] = o
          /\ \A n \in DOMAIN c[d].ents : f[d].ents[n] = c[d].ents[n]
      BY <3>2, <1>1 DEF Added
    <3>4. QED  BY <1>1, <3>1, <3>2, <3>3 DEF Adds
  <2>3. Count(f, i) = Count(c, i) + Weight(c, d, o, i)
    BY <2>2, AddsCount
  <2>4. Weight(c, d, o, i) \in Nat
    BY DEF Weight
  <2>5. QED  BY <1>0, <2>1, <2>3, <2>4
<1>2. CASE name \in DOMAIN c[d].ents
  <2> DEFINE w == c[d].ents[name]
             b == dir_remove(c[d], name)
             mid == [c EXCEPT ![d] = b]
  <2>1. Victims(c, d, name, o) = {w} /\ ~IsDir(c[w]) /\ w \in DOMAIN c
    BY <1>2 DEF Exists, Victims, Has, Closed
  <2>2. b.kind = c[d].kind /\ b.ents = Removed(c[d].ents, name)
    BY RemoveFields
  <2> HIDE DEF b
  <2>3. DOMAIN mid = DOMAIN c /\ \A j \in DOMAIN c : mid[j] = IF j = d THEN b ELSE c[j]
    OBVIOUS
  <2> HIDE DEF mid
  <2>4. /\ \A j \in DOMAIN c : mid[j].kind = c[j].kind
        /\ \A j \in DOMAIN c \ {d} : mid[j].ents = c[j].ents
        /\ mid[d].ents = Removed(c[d].ents, name)
    BY <2>2, <2>3
  <2>e. /\ DOMAIN mid[d].ents = DOMAIN c[d].ents \ {name}
        /\ \A n \in DOMAIN c[d].ents \ {name} : mid[d].ents[n] = c[d].ents[n]
    BY <2>4 DEF Removed
  <2>5. Closed(mid)
    <3>1. \A j \in DOMAIN c : DOMAIN mid[j].ents \subseteq DOMAIN c[j].ents
      BY <2>4, <2>e
    <3>2. \A j \in DOMAIN c : \A n \in DOMAIN mid[j].ents : mid[j].ents[n] = c[j].ents[n]
      BY <2>4, <2>e
    <3>3. QED  BY <2>3, <3>1, <3>2 DEF Closed
  <2>6. Adds(mid, c, d, name, w)
    BY <1>2, <2>1, <2>3, <2>4, <2>e DEF Adds, IsDir
  <2>7. Adds(mid, f, d, name, o)
    <3>1. DOMAIN f = DOMAIN mid /\ \A j \in DOMAIN c : f[j].kind = mid[j].kind
      BY <2>3, <2>4 DEF Enters
    <3>2. f[d].ents = Added(c[d].ents, name, o) /\ \A j \in DOMAIN c \ {d} : f[j].ents = mid[j].ents
      BY <2>4 DEF Enters
    <3>3. /\ DOMAIN f[d].ents = DOMAIN c[d].ents \cup {name} /\ f[d].ents[name] = o
          /\ \A n \in DOMAIN c[d].ents \ {name} : f[d].ents[n] = c[d].ents[n]
      BY <3>2 DEF Added
    <3>4. IsDir(mid[d])
      BY <2>4 DEF IsDir
    <3>5. QED  BY <1>2, <2>3, <2>e, <3>1, <3>2, <3>3, <3>4 DEF Adds
  <2>8. Count(c, i) = Count(mid, i) + Weight(mid, d, w, i) /\ Count(mid, i) \in Nat
    BY <2>3, <2>5, <2>6, AddsCount, CountType
  <2>9. Count(f, i) = Count(mid, i) + Weight(mid, d, o, i)
    BY <2>3, <2>5, <2>7, AddsCount
  <2>10. Weight(mid, d, w, i) = (IF i = w THEN 1 ELSE 0) /\ Weight(mid, d, o, i) = Weight(c, d, o, i)
    BY <2>1, <2>4 DEF Weight, IsDir
  <2>11. Weight(c, d, o, i) \in Nat
    BY DEF Weight
  <2>12. QED  BY <1>0, <2>1, <2>8, <2>9, <2>10, <2>11
<1>3. QED  BY <1>1, <1>2

LEMMA LinkedGood ==
  ASSUME NEW m, NEW L, NEW d \in DOMAIN m, NEW name \in Names, NEW o, Linkable(m, L, o),
         IsDir(m[d]), ~Exists(Counted(m, d, o), d, name, o)
  PROVE  /\ Good(Linked(m, d, name, o), Losing(m, L, o))
         /\ Enters(Counted(m, d, o), Linked(m, d, name, o), d, name, o)
<1> DEFINE c == Counted(m, d, o)
           f == Linked(m, d, name, o)
           L2 == Losing(m, L, o)
<1>1. SoundFor(m, c, d, o) /\ \A i \in DOMAIN m : CountsFor(c, L2, d, o, i)
  BY CountedSound, CountedCounts
<1>2. o \in DOMAIN m /\ o \in Ids /\ d \in Ids /\ DOMAIN m \subseteq Ids
  BY DEF Linkable
<1>3. /\ DOMAIN c = DOMAIN m /\ Closed(c) /\ IsDir(c[d])
      /\ \A i \in DOMAIN m : Sound(c, i) /\ c[i] \in Object /\ c[i].nlink \in Nat
  BY <1>1 DEF SoundFor, Sound, Object
<1>4. \A i \in DOMAIN m : Count(c, i) \in Nat /\ Weight(c, d, o, i) \in Nat
  <2>1. \A i \in DOMAIN m : Weight(c, d, o, i) \in Nat
    BY DEF Weight
  <2>2. QED  BY <1>3, <2>1, CountType
<1>5. ASSUME NEW w \in Victims(c, d, name, o)
      PROVE  w = c[d].ents[name] /\ name \in DOMAIN c[d].ents /\ ~IsDir(c[w]) /\ w \in DOMAIN m
  BY <1>3 DEF Victims, Has, Closed
<1>6. ASSUME NEW w \in Victims(c, d, name, o)  PROVE  c[w].nlink > 0
  <2>1. Count(c, w) >= 1
    BY <1>2, <1>3, <1>5, CountSome
  <2>2. c[w].nlink >= Count(c, w) + Weight(c, d, o, w)
    BY <1>1, <1>5 DEF CountsFor
  <2>3. QED  BY <2>1, <2>2, <1>3, <1>4, <1>5, SMTT(30)
<1>7. Enters(c, f, d, name, o)
  BY <1>2, <1>3, <1>6, LinkedEnters
<1> HIDE DEF c, f, L2
<1>8. ASSUME NEW i \in DOMAIN m  PROVE  Sound(f, i)
  <2>1. f[i] \in Object /\ f[i].kind = c[i].kind /\ DOMAIN f = DOMAIN m
    BY <1>3, <1>7 DEF Enters
  <2>2. \A j \in DOMAIN m : f[j].kind = c[j].kind /\ f[j].dotdot = c[j].dotdot
    BY <1>3, <1>7 DEF Enters
  <2>3. CASE i = d
    <3>1. f[i].ents = Added(c[i].ents, name, o)
      BY <1>3, <1>7, <2>3 DEF Enters
    <3>2. IsDir(f[i])
      BY <1>3, <2>1, <2>3 DEF IsDir
    <3>3. IsDir(c[o]) => c[o].dotdot = d
      BY <1>1, <1>2, <1>3 DEF SoundFor, IsDir
    <3>4. ASSUME NEW n \in DOMAIN f[i].ents
          PROVE  f[i].ents[n] \in DOMAIN f /\ (IsDir(f[f[i].ents[n]]) => f[f[i].ents[n]].dotdot = i)
      <4>1. CASE n = name
        <5>1. f[i].ents[n] = o
          BY <3>1, <4>1 DEF Added
        <5>2. QED  BY <5>1, <3>3, <2>1, <2>2, <2>3, <1>2 DEF IsDir
      <4>2. CASE n # name
        <5>1. n \in DOMAIN c[i].ents /\ f[i].ents[n] = c[i].ents[n]
          BY <3>1, <4>2 DEF Added
        <5>2. Sound(c, i)
          BY <1>3
        <5>3. c[i].ents[n] \in DOMAIN m
          BY <5>1, <5>2, <1>3 DEF Sound
        <5>4. QED  BY <5>1, <5>2, <5>3, <2>1, <2>2 DEF Sound, IsDir
      <4>3. QED  BY <4>1, <4>2
    <3>5. QED  BY <2>1, <3>2, <3>4 DEF Sound
  <2>4. CASE i # d
    <3>1. f[i].ents = c[i].ents
      BY <1>3, <1>7, <2>4 DEF Enters
    <3>2. Sound(c, i)
      BY <1>3
    <3>3. QED  BY <3>1, <3>2, <2>1, <2>2, <1>3, SMTT(30) DEF Sound, IsDir
  <2>5. QED  BY <2>3, <2>4
<1>9. ASSUME NEW i \in DOMAIN m  PROVE  Counts(f, L2, i)
  <2>1. ~Exists(c, d, name, o)
    BY DEF c
  <2>2. Count(f, i) = Count(c, i) + Weight(c, d, o, i)
                        - (IF i \in Victims(c, d, name, o) THEN 1 ELSE 0)
    BY <2>1, <1>2, <1>3, <1>7, EntersCount
  <2>3. /\ f[i].nlink = c[i].nlink - (IF i \in Victims(c, d, name, o) THEN 1 ELSE 0)
        /\ f[i].dot = c[i].dot /\ f[i].dotdot = c[i].dotdot /\ f[i].kind = c[i].kind
    BY <1>3, <1>7 DEF Enters
  <2>4. CountsFor(c, L2, d, o, i)
    BY <1>1 DEF c, L2
  <2>5. (Dotted(f[i]) <=> Dotted(c[i])) /\ (IsDir(f[i]) <=> IsDir(c[i]))
    BY <2>3 DEF Dotted, IsDir
  <2>6. c[i].nlink \in Nat /\ Count(c, i) \in Nat /\ Weight(c, d, o, i) \in Nat
    BY <1>3, <1>4
  <2> DEFINE v == IF i \in Victims(c, d, name, o) THEN 1 ELSE 0
             w == Weight(c, d, o, i)
  <2>7. v \in 0..1 /\ w \in Nat /\ Count(f, i) = Count(c, i) + w - v /\ f[i].nlink = c[i].nlink - v
    BY <2>2, <2>3, <2>6
  <2>8. /\ c[i].nlink >= Count(c, i) + w
        /\ i \notin L2 => c[i].nlink = Count(c, i) + w
        /\ IsDir(c[i]) /\ ~Dotted(c[i]) => i \in L2 /\ c[i].nlink > Count(c, i) + w
    BY <2>4 DEF CountsFor
  <2> HIDE DEF v, w
  <2>9. /\ f[i].nlink >= Count(f, i)
        /\ i \notin L2 => f[i].nlink = Count(f, i)
        /\ c[i].nlink > Count(c, i) + w => f[i].nlink > Count(f, i)
    BY <2>6, <2>7, <2>8
  <2>10. QED  BY <2>5, <2>8, <2>9 DEF Counts
<1>10. DOMAIN f = DOMAIN m
  BY <1>3, <1>7 DEF Enters
<1>11. Good(f, L2)
  BY <1>2, <1>8, <1>9, <1>10 DEF Good
<1>12. QED  BY <1>7, <1>11 DEF f, L2, c
=============================================================================
