--------------------------- MODULE DummyfsProofs ---------------------------
(***************************************************************************)
(* What holds of the objects of dummyfs for every number of ids, names,    *)
(* opens and failures: every request keeps the invariant of DummyfsLinks.  *)
(***************************************************************************)
EXTENDS DummyfsLinks

-----------------------------------------------------------------------------
(* The other changes of objects                                            *)

LEMMA GoodClosed ==
  ASSUME NEW m, NEW L, Good(m, L)
  PROVE  Closed(m) /\ \A i \in DOMAIN m : Sound(m, i) /\ Counts(m, L, i) /\ m[i] \in Object
                                          /\ m[i].nlink \in Nat /\ Count(m, i) \in Nat
<1>1. Closed(m)
  BY SoundClosed DEF Good
<1>2. QED  BY <1>1, CountType DEF Good, Sound, Object

\* What dummyfs_object_remove destroys has neither names nor entries.
LEMMA RemovedBare ==
  ASSUME NEW m, NEW L, Good(m, L), NEW i \in DOMAIN m, object_remove(m[i])
  PROVE  LinksIn(m, i) = {} /\ DOMAIN m[i].ents = {} /\ m[i].refs = 0
<1>1. /\ Closed(m) /\ Sound(m, i) /\ Counts(m, L, i) /\ m[i] \in Object /\ Count(m, i) \in Nat
      /\ m[i].nlink = 0 /\ m[i].refs = 0 /\ (IsDir(m[i]) => dir_empty(m[i]))
  BY GoodClosed DEF object_remove
<1>2. Count(m, i) = 0
  BY <1>1 DEF Counts
<1>3. LinksIn(m, i) = {}
  BY <1>1, <1>2, CountNone
<1>4. CASE IsDir(m[i])
  <2>1. m[i].dot /\ m[i].dotdot # None
    BY <1>1, <1>2, <1>4 DEF Counts, Dotted
  <2>2. IsFiniteSet(DOMAIN m[i].ents)
    BY <1>1, ConstantsAssumption, FS_Subset DEF Closed
  <2>3. Cardinality(DOMAIN m[i].ents) \in Nat
    BY <2>2, FS_CardinalityType
  <2>4. Cardinality(DOMAIN m[i].ents) = 0
    BY <1>1, <1>4, <2>1, <2>3 DEF dir_empty, Entries
  <2>5. QED  BY <1>1, <1>3, <2>2, <2>4, FS_EmptySet
<1>5. CASE ~IsDir(m[i])
  BY <1>1, <1>3, <1>5 DEF Sound
<1>6. QED  BY <1>4, <1>5

LEMMA PutGood ==
  ASSUME NEW m, NEW L, Good(m, L), NEW ids
  PROVE  Good(Put(m, ids), L)
<1> DEFINE p == Put(m, ids)
<1>1. /\ DOMAIN p = {j \in DOMAIN m : j \in ids => ~object_remove(m[j])}
      /\ \A i \in DOMAIN p : p[i] = m[i]
  BY DEF Put
<1> HIDE DEF p
<1>2. DOMAIN p \subseteq DOMAIN m /\ DOMAIN m \subseteq Ids
  BY <1>1 DEF Good
<1>3. ASSUME NEW j \in DOMAIN m \ DOMAIN p  PROVE  LinksIn(m, j) = {} /\ DOMAIN m[j].ents = {}
  BY <1>1, RemovedBare
<1>4. ASSUME NEW i \in DOMAIN m, NEW n \in DOMAIN m[i].ents  PROVE  m[i].ents[n] \in DOMAIN p
  <2>1. m[i].ents[n] \in DOMAIN m /\ IsDir(m[i]) /\ n \in Names
    BY GoodClosed DEF Closed, Sound
  <2>2. <<i, n>> \in LinksIn(m, m[i].ents[n])
    BY <2>1 DEF LinksIn, Has
  <2>3. QED  BY <1>3, <2>1, <2>2
<1>5. ASSUME NEW i \in DOMAIN p  PROVE  Sound(p, i)
  BY <1>1, <1>2, <1>4, GoodClosed, SMTT(30) DEF Sound
<1>6. Closed(p) /\ Closed(m)
  BY <1>2, <1>5, SoundClosed, GoodClosed
<1>7. Shares(m, p)
  BY <1>1, <1>2, <1>3 DEF Shares
<1>8. ASSUME NEW i \in DOMAIN p  PROVE  Counts(p, L, i)
  <2>1. Count(p, i) = Count(m, i) /\ p[i] = m[i] /\ Counts(m, L, i)
    BY <1>1, <1>2, <1>6, <1>7, SharesCount, GoodClosed
  <2>2. QED  BY <2>1 DEF Counts
<1>9. Good(p, L)
  BY <1>2, <1>5, <1>8 DEF Good
<1>10. QED  BY <1>9 DEF p

LEMMA PutKept ==
  ASSUME NEW m, NEW L, NEW ids,
         \A i \in DOMAIN m \ (ids \cup L \cup {Root}) : ~object_remove(m[i])
  PROVE  Kept(Put(m, ids), L)
BY DEF Kept, Put

LEMMA PutRefs ==
  ASSUME NEW m, NEW op, NEW L, NEW L2, NEW ids, Good(m, L2), RefsRight(m, op, L)
  PROVE  RefsRight(Put(m, ids), op, L)
<1> DEFINE p == Put(m, ids)
<1>1. /\ DOMAIN p = {j \in DOMAIN m : j \in ids => ~object_remove(m[j])}
      /\ \A i \in DOMAIN p : p[i] = m[i]
  BY DEF Put
<1> HIDE DEF p
<1>2. DOMAIN m \subseteq Ids
  BY DEF Good
<1>3. ASSUME NEW i \in DOMAIN m \ DOMAIN p  PROVE  op[i] = 0 /\ i # Root
  <2>1. m[i].refs = 0
    BY <1>1 DEF object_remove
  <2>2. op[i] \in Nat /\ m[i].refs >= op[i] + Own(i)
    BY <1>2 DEF RefsRight
  <2>3. QED  BY <2>1, <2>2 DEF Own
<1>4. RefsRight(p, op, L)
  BY <1>1, <1>3 DEF RefsRight
<1>5. QED  BY <1>4 DEF p

\* A link of a directory that fails leaves no count too low.
\* f has the objects and the references of m, and only the objects in S are different.
Same(m, f, S) ==
  /\ DOMAIN f = DOMAIN m /\ \A i \in DOMAIN m : f[i].refs = m[i].refs
  /\ \A i \in DOMAIN m \ S : f[i] = m[i]

LEMMA LinkFailedEntry ==
  ASSUME NEW m, NEW L, NEW d \in DOMAIN m, NEW o, Linkable(m, L, o), IsDir(m[d]), IsDir(m[o])
  PROVE  /\ Good(LinkFailed(m, d, o, "entry"), Losing(m, L, o) \cup {d})
         /\ Same(m, LinkFailed(m, d, o, "entry"), {d, o})
<1> DEFINE c == Counted(m, d, o)
           f == LinkFailed(m, d, o, "entry")
           L2 == Losing(m, L, o)
<1>1. SoundFor(m, c, d, o) /\ \A i \in DOMAIN m : CountsFor(c, L2, d, o, i)
  BY CountedSound, CountedCounts
<1>2. o \in DOMAIN m /\ d \in Ids /\ DOMAIN m \subseteq Ids /\ \A i \in DOMAIN m : m[i] \in Object
  BY DEF Linkable, Sound
<1>3. f = [c EXCEPT ![o] = [c[o] EXCEPT !.nlink = c[o].nlink - 2]]
  BY DEF LinkFailed
<1>4. CountsDir(m, c, d, o)
  BY <1>2, CountedDir
<1>5. \A i \in DOMAIN m \ {d, o} : c[i] = m[i]
  <2>1. DOMAIN c = DOMAIN m
    BY <1>4 DEF CountsDir
  <2>2. QED  BY <1>2, <2>1 DEF Counted
<1> HIDE DEF c, f, L2
<1>6. c[o].nlink - 2 \in Nat /\ c[o] \in Object /\ DOMAIN c = DOMAIN m
  BY <1>2, <1>4 DEF CountsDir
<1>7. /\ DOMAIN f = DOMAIN m
      /\ \A i \in DOMAIN m : /\ f[i] \in Object /\ Alike(f[i], c[i])
                             /\ f[i].nlink = c[i].nlink - (IF i = o THEN 2 ELSE 0)
      /\ \A i \in DOMAIN m \ {o} : f[i] = c[i]
  <2>1. DOMAIN f = DOMAIN m /\ \A i \in DOMAIN m \ {o} : f[i] = c[i]
    BY <1>3, <1>6
  <2>2. f[o] = [c[o] EXCEPT !.nlink = c[o].nlink - 2]
    BY <1>2, <1>3, <1>6
  <2>3. f[o] \in Object /\ Alike(f[o], c[o]) /\ f[o].nlink = c[o].nlink - 2
    BY <1>6, <2>2, NlinkFields DEF Alike
  <2>4. \A i \in DOMAIN m : c[i] \in Object /\ c[i].nlink \in Nat
    BY <1>4 DEF CountsDir, Object
  <2>5. QED  BY <2>1, <2>3, <2>4 DEF Alike
<1>8. ASSUME NEW i \in DOMAIN m  PROVE  Sound(f, i)
  <2>1. Sound(c, i) /\ Alike(f[i], c[i])
    BY <1>1, <1>7 DEF SoundFor
  <2>2. \A n \in DOMAIN c[i].ents : Alike(f[c[i].ents[n]], c[c[i].ents[n]])
    BY <2>1, <1>6, <1>7 DEF Sound
  <2>3. /\ f[i] \in Object /\ f[i].ents = c[i].ents /\ f[i].kind = c[i].kind
        /\ f[i].dotdot = c[i].dotdot
    BY <1>7 DEF Alike
  <2>4. \A n \in DOMAIN c[i].ents : IsDir(f[c[i].ents[n]]) => f[c[i].ents[n]].dotdot = i
    BY <2>1, <2>2 DEF Sound, Alike, IsDir
  <2>5. QED  BY <1>6, <1>7, <2>1, <2>3, <2>4 DEF Sound, IsDir
<1>9. Closed(f) /\ Closed(c) /\ Shares(c, f)
  BY <1>1, <1>2, <1>6, <1>7, <1>8, SoundClosed DEF SoundFor, Shares, Alike
<1>10. ASSUME NEW i \in DOMAIN m  PROVE  Counts(f, L2 \cup {d}, i)
  <2>1. Count(f, i) = Count(c, i) /\ Count(c, i) \in Nat
    BY <1>6, <1>7, <1>9, SharesCount, CountType
  <2>2. CountsFor(c, L2, d, o, i)
    BY <1>1 DEF c, L2
  <2>3. Weight(c, d, o, i) = (IF i = o THEN 2 ELSE 0) + (IF i = d THEN 1 ELSE 0)
    BY <1>1, <1>2 DEF Weight, SoundFor, IsDir
  <2>4. c[i].nlink \in Nat /\ f[i].nlink = c[i].nlink - (IF i = o THEN 2 ELSE 0)
    BY <1>4, <1>7 DEF CountsDir, Object
  <2>5. (Dotted(f[i]) <=> Dotted(c[i])) /\ (IsDir(f[i]) <=> IsDir(c[i]))
    BY <1>7 DEF Alike, Dotted, IsDir
  <2>6. QED  BY <2>1, <2>2, <2>3, <2>4, <2>5 DEF Counts, CountsFor
<1>11. Good(f, L2 \cup {d})
  BY <1>2, <1>7, <1>8, <1>10 DEF Good
<1>12. \A i \in DOMAIN m : f[i].refs = m[i].refs
  BY <1>4, <1>7 DEF Alike, CountsDir
<1>13. \A i \in DOMAIN m \ {d, o} : f[i] = m[i]
  BY <1>5, <1>7
<1>14. QED  BY <1>7, <1>11, <1>12, <1>13 DEF f, L2, Same

LEMMA LinkFailedDot ==
  ASSUME NEW m, NEW L, NEW d \in DOMAIN m, NEW o, Linkable(m, L, o), IsDir(m[o]),
         NEW at \in {"dot", "dotdot"}
  PROVE  /\ Good(LinkFailed(m, d, o, at), Losing(m, L, o) \cup {o})
         /\ Same(m, LinkFailed(m, d, o, at), {o})
<1> DEFINE f == LinkFailed(m, d, o, at)
           L2 == Losing(m, L, o)
           dt == at = "dotdot"
           b == [DirInit(m[o], None) EXCEPT !.nlink = 1, !.dot = dt]
<1>1. /\ o \in DOMAIN m /\ DOMAIN m \subseteq Ids /\ Closed(m)
      /\ \A i \in DOMAIN m : Sound(m, i) /\ m[i] \in Object /\ m[i].nlink \in Nat
  BY SoundClosed DEF Linkable, Sound, Object
<1>2. f = [m EXCEPT ![o] = b]
  BY DEF LinkFailed
<1>3. /\ b \in Object /\ b.kind = m[o].kind /\ b.nlink = 1 /\ b.refs = m[o].refs
      /\ b.ents = <<>> /\ b.dotdot = None
  <2>1. m[o] \in Object /\ dt \in BOOLEAN
    BY <1>1
  <2> HIDE DEF dt
  <2>2. QED  BY <2>1, NoEnts DEF DirInit, Object
<1> HIDE DEF b, f, L2
<1>4. DOMAIN f = DOMAIN m /\ f[o] = b /\ \A i \in DOMAIN m \ {o} : f[i] = m[i]
  BY <1>1, <1>2
<1>5. Clears(m, f, o)
  BY <1>1, <1>3, <1>4, NoEnts DEF Clears
<1>6. LinksIn(m, o) = {} /\ Count(m, o) = 0
  BY <1>1, CountNone DEF Linkable
<1>7. ASSUME NEW i \in DOMAIN m  PROVE  Sound(f, i)
  <2>1. CASE i = o
    BY <1>3, <1>4, <2>1, NoEnts DEF Sound
  <2>2. CASE i # o
    <3>1. Sound(m, i) /\ f[i] = m[i]
      BY <1>1, <1>4, <2>2
    <3>2. ASSUME NEW n \in DOMAIN m[i].ents
          PROVE  m[i].ents[n] \in DOMAIN m /\ m[i].ents[n] # o
      <4>1. m[i].ents[n] \in DOMAIN m /\ IsDir(m[i]) /\ n \in Names
        BY <1>1, <3>1 DEF Sound, Closed
      <4>2. m[i].ents[n] = o => <<i, n>> \in LinksIn(m, o)
        BY <4>1 DEF LinksIn, Has
      <4>3. QED  BY <4>1, <4>2, <1>6
    <3>3. QED  BY <3>1, <3>2, <1>4 DEF Sound
  <2>3. QED  BY <2>1, <2>2
<1>8. Closed(f)
  BY <1>1, <1>4, <1>7, SoundClosed
<1>9. ASSUME NEW i \in DOMAIN m  PROVE  Counts(f, L2 \cup {o}, i)
  <2>1. /\ Count(f, i) <= Count(m, i) /\ Count(f, i) \in Nat /\ Count(m, i) \in Nat
        /\ i # o /\ i \notin Contents(m, o) => Count(f, i) = Count(m, i)
    BY <1>1, <1>4, <1>5, <1>8, ClearsCount, CountType
  <2>2. CASE i = o
    BY <1>3, <1>4, <1>6, <2>1, <2>2 DEF Counts
  <2>3. CASE i # o
    <3>1. Counts(m, L, i) /\ f[i] = m[i] /\ m[i].nlink \in Nat
      BY <1>1, <1>4, <2>3 DEF Linkable
    <3>2. (i \notin L2 => i \notin L /\ i \notin Contents(m, o)) /\ (i \in L => i \in L2)
      BY DEF L2, Losing
    <3>3. QED  BY <2>1, <2>3, <3>1, <3>2 DEF Counts
  <2>4. QED  BY <2>2, <2>3
<1>10. Good(f, L2 \cup {o})
  BY <1>1, <1>4, <1>7, <1>9 DEF Good
<1>11. \A i \in DOMAIN m : f[i].refs = m[i].refs
  BY <1>1, <1>3, <1>4
<1>12. QED  BY <1>4, <1>10, <1>11 DEF f, L2, Same

\* f is the objects without an entry and its links.
Unlinks(f, d, name, o) ==
  /\ DOMAIN f = Live
  /\ \A i \in Live :
       /\ f[i] \in Object /\ f[i].kind = obj[i].kind /\ f[i].refs = obj[i].refs
       /\ f[i].dot = obj[i].dot /\ f[i].dotdot = obj[i].dotdot
       /\ f[i].nlink = obj[i].nlink - Weight(obj, d, o, i)
       /\ i # d => f[i].ents = obj[i].ents
  /\ f[d].ents = Removed(obj[d].ents, name)
  /\ \A i \in Live \ {d, o} : f[i] = obj[i]

LEMMA UnlinkedFields ==
  ASSUME NEW d \in Live, NEW name \in DOMAIN obj[d].ents, Good(obj, lost), IsDir(obj[d])
  PROVE  Unlinks(Unlinked(d, name), d, name, obj[d].ents[name])
<1> DEFINE o == obj[d].ents[name]
           b == dir_remove(obj[d], name)
           r == [obj EXCEPT ![d] = b]
           f == Unlinked(d, name)
<1>1. /\ Closed(obj) /\ o \in Live
      /\ \A i \in Live : Counts(obj, lost, i) /\ obj[i] \in Object /\ obj[i].nlink \in Nat
                         /\ Count(obj, i) \in Nat
  BY GoodClosed DEF Closed, Live
<1>2. /\ b \in Object /\ b.kind = obj[d].kind /\ b.nlink = obj[d].nlink /\ b.refs = obj[d].refs
      /\ b.dot = obj[d].dot /\ b.dotdot = obj[d].dotdot /\ b.ents = Removed(obj[d].ents, name)
  BY <1>1, RemoveFields
<1> HIDE DEF b
<1>3. DOMAIN r = Live /\ r[d] = b /\ \A i \in Live \ {d} : r[i] = obj[i]
  BY DEF Live
<1>4. obj[o].nlink >= (IF IsDir(obj[o]) THEN 2 ELSE 1) /\ (IsDir(obj[o]) => obj[d].nlink >= 1)
  <2>1. /\ Count(obj, o) >= IF IsDir(obj[o]) THEN 2 ELSE 1
        /\ IsDir(obj[o]) => Count(obj, d) >= 1
    BY <1>1, CountSome DEF Live
  <2>2. QED  BY <1>1, <2>1, SMTT(30) DEF Counts
<1>5. \A i \in Live : r[i] \in Object /\ r[i].nlink = obj[i].nlink
  BY <1>1, <1>2, <1>3
<1> HIDE DEF r
<1>6. CASE ~IsDir(obj[o])
  <2>1. f = [r EXCEPT ![o] = [r[o] EXCEPT !.nlink = r[o].nlink - 1]]
    BY <1>6 DEF Unlinked, r, b
  <2> HIDE DEF f
  <2>2. r[o].nlink - 1 \in Nat
    BY <1>1, <1>4, <1>5, <1>6
  <2>3. DOMAIN f = Live /\ (\A i \in Live \ {o} : f[i] = r[i])
        /\ f[o] = [r[o] EXCEPT !.nlink = r[o].nlink - 1]
    BY <1>1, <1>3, <2>1
  <2>4. f[o] \in Object /\ Alike(f[o], r[o]) /\ f[o].nlink = r[o].nlink - 1
    BY <1>1, <1>5, <2>2, <2>3, NlinkFields DEF Alike
  <2>5. ASSUME NEW i \in Live  PROVE  Weight(obj, d, o, i) = IF i = o THEN 1 ELSE 0
    BY <1>6 DEF Weight
  <2>6. ASSUME NEW i \in Live
        PROVE  /\ f[i] \in Object /\ Alike(f[i], r[i])
               /\ f[i].nlink = obj[i].nlink - Weight(obj, d, o, i)
    <3>1. CASE i = o
      BY <1>5, <2>4, <2>5, <3>1
    <3>2. CASE i # o
      <4>1. f[i] = r[i] /\ r[i] \in Object /\ f[i].nlink = obj[i].nlink /\ obj[i].nlink \in Nat
        BY <1>1, <1>5, <2>3, <3>2
      <4>2. Weight(obj, d, o, i) = 0
        BY <2>5, <3>2
      <4>3. QED  BY <4>1, <4>2 DEF Alike
    <3>3. QED  BY <3>1, <3>2
  <2>7. \A i \in Live \ {d, o} : f[i] = obj[i]
    BY <1>3, <2>3
  <2>8. ASSUME NEW i \in Live
         PROVE  /\ f[i].kind = obj[i].kind /\ f[i].refs = obj[i].refs
                /\ f[i].dot = obj[i].dot /\ f[i].dotdot = obj[i].dotdot
                /\ i # d => f[i].ents = obj[i].ents
    BY <1>2, <1>3, <2>6 DEF Alike
  <2>9. f[d].ents = Removed(obj[d].ents, name)
    BY <1>2, <1>3, <2>6 DEF Alike
  <2>10. Unlinks(f, d, name, o)
    BY <2>3, <2>6, <2>7, <2>8, <2>9 DEF Unlinks
  <2>11. QED  BY <2>10 DEF f
<1>7. CASE IsDir(obj[o])
  <2> DEFINE s == [r EXCEPT ![o] = [r[o] EXCEPT !.nlink = r[o].nlink - 2]]
  <2>1. f = [s EXCEPT ![d] = [s[d] EXCEPT !.nlink = s[d].nlink - 1]]
    BY <1>7 DEF Unlinked, r, b
  <2> HIDE DEF f
  <2>2. r[o].nlink - 2 \in Nat
    BY <1>1, <1>4, <1>5, <1>7, SMTT(30)
  <2>3. DOMAIN s = Live /\ (\A i \in Live \ {o} : s[i] = r[i])
        /\ s[o] = [r[o] EXCEPT !.nlink = r[o].nlink - 2]
    BY <1>1, <1>3
  <2> HIDE DEF s
  <2>4. s[o] \in Object /\ Alike(s[o], r[o]) /\ s[o].nlink = r[o].nlink - 2
    BY <1>1, <1>5, <2>2, <2>3, NlinkFields DEF Alike
  <2>5. ASSUME NEW i \in Live
        PROVE  /\ s[i] \in Object /\ Alike(s[i], r[i]) /\ s[i].nlink \in Nat
               /\ s[i].nlink = obj[i].nlink - (IF i = o THEN 2 ELSE 0)
    <3>1. CASE i = o
      BY <1>5, <2>2, <2>4, <3>1
    <3>2. CASE i # o
      <4>1. s[i] = r[i] /\ r[i] \in Object /\ s[i].nlink = obj[i].nlink /\ obj[i].nlink \in Nat
        BY <1>1, <1>5, <2>3, <3>2
      <4>2. QED  BY <4>1, <3>2 DEF Alike
    <3>3. QED  BY <3>1, <3>2
  <2>6. s[d].nlink - 1 \in Nat
    <3>1. CASE d = o
      <4>1. Count(obj, d) >= 3
        <5>1. /\ IsFiniteSet(LinksIn(obj, d)) /\ Cardinality(LinksIn(obj, d)) \in Nat
              /\ IsFiniteSet(SubdirsIn(obj, d)) /\ Cardinality(SubdirsIn(obj, d)) \in Nat
          BY <1>1, CountType DEF Live
        <5>2. <<d, name>> \in LinksIn(obj, d) /\ name \in SubdirsIn(obj, d)
          BY <1>1, <1>7, <3>1 DEF LinksIn, SubdirsIn, Has, Closed, Live
        <5>3. Cardinality(LinksIn(obj, d)) # 0 /\ Cardinality(SubdirsIn(obj, d)) # 0
          BY <5>1, <5>2, FS_EmptySet
        <5>4. QED  BY <5>1, <5>3 DEF Count
      <4>2. obj[d].nlink >= Count(obj, d)
        BY <1>1 DEF Counts
      <4>3. QED  BY <1>1, <2>5, <3>1, <4>1, <4>2
    <3>2. CASE d # o
      BY <1>1, <1>4, <1>7, <2>5, <3>2
    <3>3. QED  BY <3>1, <3>2
  <2>7. DOMAIN f = Live /\ (\A i \in Live \ {d} : f[i] = s[i])
        /\ f[d] = [s[d] EXCEPT !.nlink = s[d].nlink - 1]
    BY <2>1, <2>3
  <2>8. f[d] \in Object /\ Alike(f[d], s[d]) /\ f[d].nlink = s[d].nlink - 1
    BY <2>5, <2>6, <2>7, NlinkFields DEF Alike
  <2>9. ASSUME NEW i \in Live
        PROVE  Weight(obj, d, o, i) = (IF i = o THEN 2 ELSE 0) + (IF i = d THEN 1 ELSE 0)
    BY <1>7 DEF Weight
  <2>10. ASSUME NEW i \in Live
        PROVE  /\ f[i] \in Object /\ Alike(f[i], r[i])
               /\ f[i].nlink = obj[i].nlink - Weight(obj, d, o, i)
    <3>0. obj[i].nlink \in Nat
      BY <1>1
    <3>1. CASE i = d
      <4>1. f[i] \in Object /\ f[i].nlink = s[i].nlink - 1
        BY <2>8, <3>1
      <4>2. Alike(f[i], r[i])
        BY <2>5, <2>8, <3>1 DEF Alike
      <4>3. QED  BY <3>0, <4>1, <4>2, <2>5, <2>9, <3>1
    <3>2. CASE i # d
      <4>1. f[i] = s[i]
        BY <2>7, <3>2
      <4>2. Weight(obj, d, o, i) = IF i = o THEN 2 ELSE 0
        BY <2>9, <3>2
      <4>3. QED  BY <4>1, <4>2, <2>5
    <3>3. QED  BY <3>1, <3>2
  <2>11. \A i \in Live \ {d, o} : f[i] = obj[i]
    BY <1>3, <2>3, <2>7
  <2>12. ASSUME NEW i \in Live
         PROVE  /\ r[i].kind = obj[i].kind /\ r[i].refs = obj[i].refs
                /\ r[i].dot = obj[i].dot /\ r[i].dotdot = obj[i].dotdot
                /\ i # d => r[i].ents = obj[i].ents
    BY <1>2, <1>3
  <2>13. ASSUME NEW i \in Live
         PROVE  /\ f[i].kind = obj[i].kind /\ f[i].refs = obj[i].refs
                /\ f[i].dot = obj[i].dot /\ f[i].dotdot = obj[i].dotdot
                /\ i # d => f[i].ents = obj[i].ents
    BY <2>10, <2>12 DEF Alike
  <2>14. f[d].ents = Removed(obj[d].ents, name)
    BY <1>2, <1>3, <2>10 DEF Alike
  <2>15. Unlinks(f, d, name, o)
    BY <2>7, <2>10, <2>11, <2>13, <2>14 DEF Unlinks
  <2>16. QED  BY <2>15 DEF f
<1>8. QED  BY <1>6, <1>7

LEMMA UnlinkedGood ==
  ASSUME NEW d \in Live, NEW name \in DOMAIN obj[d].ents, Good(obj, lost), IsDir(obj[d])
  PROVE  Good(Unlinked(d, name), lost)
<1> DEFINE o == obj[d].ents[name]
           f == Unlinked(d, name)
<1>1. Unlinks(f, d, name, o)
  BY UnlinkedFields
<1> HIDE DEF f
<1>2. /\ Closed(obj) /\ o \in Live /\ name \in Names /\ Live \subseteq Ids
      /\ \A i \in Live : Sound(obj, i) /\ Counts(obj, lost, i) /\ obj[i].nlink \in Nat
  BY GoodClosed DEF Closed, Live
<1>3. /\ DOMAIN f[d].ents = DOMAIN obj[d].ents \ {name}
      /\ \A n \in DOMAIN obj[d].ents \ {name} : f[d].ents[n] = obj[d].ents[n]
  BY <1>1 DEF Unlinks, Removed
<1>4. \A i \in Live : /\ DOMAIN f[i].ents \subseteq DOMAIN obj[i].ents
                      /\ \A n \in DOMAIN f[i].ents : f[i].ents[n] = obj[i].ents[n]
  BY <1>1, <1>3 DEF Unlinks
<1>5. DOMAIN f = Live /\ \A i \in Live : f[i].kind = obj[i].kind /\ f[i].dotdot = obj[i].dotdot
                                         /\ f[i] \in Object
  BY <1>1 DEF Unlinks
<1>6. ASSUME NEW i \in Live  PROVE  Sound(f, i)
  <2>1. Sound(obj, i)
    BY <1>2
  <2>2. ~IsDir(f[i]) => DOMAIN f[i].ents = {} /\ f[i].dotdot = None
    BY <1>4, <1>5, <2>1 DEF Sound, IsDir
  <2>3. ASSUME NEW n \in DOMAIN f[i].ents
        PROVE  f[i].ents[n] \in Live /\ (IsDir(f[f[i].ents[n]]) => f[f[i].ents[n]].dotdot = i)
    <3>1. f[i].ents[n] = obj[i].ents[n] /\ n \in DOMAIN obj[i].ents
      BY <1>4
    <3>2. obj[i].ents[n] \in Live
      BY <3>1, <2>1 DEF Sound, Live
    <3>3. QED  BY <3>1, <3>2, <2>1, <1>5 DEF Sound, IsDir
  <2>4. QED  BY <1>5, <2>2, <2>3 DEF Sound
<1>7. Closed(f)
  BY <1>2, <1>5, <1>6, SoundClosed
<1>8. Adds(f, obj, d, name, o)
  <2>1. \A i \in Live : DOMAIN obj[i].ents = DOMAIN f[i].ents \cup (IF i = d THEN {name} ELSE {})
    <3>1. ASSUME NEW i \in Live \ {d}  PROVE  f[i].ents = obj[i].ents
      BY <1>1 DEF Unlinks
    <3>2. QED  BY <1>3, <3>1
  <2>2. name \notin DOMAIN f[d].ents /\ IsDir(f[d])
    BY <1>3, <1>5 DEF IsDir
  <2>3. QED  BY <1>2, <1>4, <1>5, <2>1, <2>2 DEF Adds, Live
<1>9. ASSUME NEW i \in Live  PROVE  Counts(f, lost, i)
  <2>0. i \in DOMAIN f
    BY <1>5
  <2>1. Count(obj, i) = Count(f, i) + Weight(f, d, o, i) /\ Count(f, i) \in Nat
    BY <1>7, <1>8, <2>0, AddsCount, CountType
  <2>2. Weight(f, d, o, i) = Weight(obj, d, o, i)
    BY <1>2, <1>5 DEF Weight, IsDir
  <2>3. Weight(obj, d, o, i) \in Nat
    BY DEF Weight
  <2>4. /\ f[i].nlink = obj[i].nlink - Weight(obj, d, o, i)
        /\ (Dotted(f[i]) <=> Dotted(obj[i])) /\ (IsDir(f[i]) <=> IsDir(obj[i]))
    BY <1>1 DEF Unlinks, Dotted, IsDir
  <2>5. Counts(obj, lost, i) /\ obj[i].nlink \in Nat
    BY <1>2
  <2>6. QED  BY <2>1, <2>2, <2>3, <2>4, <2>5, SMTT(30) DEF Counts
<1>10. Good(f, lost)
  BY <1>2, <1>5, <1>6, <1>9 DEF Good
<1>11. QED  BY <1>10 DEF f

\* The objects with a new one.
WithNew(o, kind) == [i \in Live \cup {o} |-> IF i = o THEN NewObject(kind) ELSE obj[i]]

LEMMA NewLinkable ==
  ASSUME NEW o \in Ids \ Live, NEW kind \in Kinds, Good(obj, lost)
  PROVE  /\ Linkable(WithNew(o, kind), lost, o)
         /\ Losing(WithNew(o, kind), lost, o) = lost
<1> DEFINE m == WithNew(o, kind)
<1>1. /\ Closed(obj) /\ Live \subseteq Ids
      /\ \A i \in Live : Sound(obj, i) /\ Counts(obj, lost, i)
  BY GoodClosed DEF Closed, Live
<1>2. DOMAIN m = Live \cup {o} /\ m[o] = NewObject(kind) /\ \A i \in Live : m[i] = obj[i]
  BY DEF WithNew
<1> HIDE DEF m
<1>3. /\ m[o] \in Object /\ m[o].kind = kind /\ m[o].nlink = 0 /\ m[o].ents = <<>>
      /\ m[o].dotdot = None
  <2>1. NewObject(kind) \in Object
    BY NoEnts DEF NewObject, Object
  <2>2. QED  BY <1>2, <2>1 DEF NewObject
<1>4. DOMAIN m[o].ents = {}
  BY <1>3, NoEnts
<1>5. ASSUME NEW i \in DOMAIN m  PROVE  Sound(m, i)
  <2>1. CASE i = o
    BY <1>3, <1>4, <2>1 DEF Sound
  <2>2. CASE i # o
    <3>1. i \in Live /\ m[i] = obj[i] /\ Sound(obj, i)
      BY <1>1, <1>2, <2>2
    <3>2. QED  BY <1>2, <3>1 DEF Sound, Live
  <2>3. QED  BY <2>1, <2>2
<1>6. DOMAIN m \subseteq Ids /\ Closed(m)
  BY <1>1, <1>2, <1>5, SoundClosed
<1>7. Shares(obj, m)
  BY <1>2, <1>4 DEF Shares, Live
<1>8. Count(m, o) = 0
  <2>1. LinksIn(m, o) = {}
    BY <1>1, <1>2, <1>4 DEF LinksIn, Has, Closed, Live
  <2>2. SubdirsIn(m, o) = {}
    BY <1>4 DEF SubdirsIn
  <2>3. QED  BY <2>1, <2>2, FS_EmptySet DEF Count
<1>9. ASSUME NEW i \in DOMAIN m  PROVE  (i = o /\ IsDir(m[o])) \/ Counts(m, lost, i)
  <2>1. CASE i = o
    BY <1>3, <1>8, <2>1 DEF Counts
  <2>2. CASE i # o
    <3>1. i \in Live /\ m[i] = obj[i] /\ Counts(obj, lost, i)
      BY <1>1, <1>2, <2>2
    <3>2. Count(m, i) = Count(obj, i)
      BY <1>1, <1>2, <1>6, <1>7, <3>1, SharesCount DEF Live
    <3>3. QED  BY <3>1, <3>2 DEF Counts
  <2>3. QED  BY <2>1, <2>2
<1>10. Linkable(m, lost, o)
  BY <1>2, <1>5, <1>6, <1>8, <1>9 DEF Linkable
<1>11. Losing(m, lost, o) = lost
  BY <1>4 DEF Losing, Contents
<1>12. QED  BY <1>10, <1>11 DEF m

LEMMA LowestFree ==
  ASSUME NEW T, T \subseteq Nat, T # {}
  PROVE  (CHOOSE i \in T : \A j \in T : i <= j) \in T
<1> DEFINE R == OpToRel(<, Nat)
<1>1. IsWellFoundedOn(R, Nat)
  BY NatLessThanWellFounded
<1> HIDE DEF R
<1>2. PICK x \in T : \A y \in T : ~(<<y, x>> \in R)
  BY <1>1, WFMin
<1>3. \A y \in T : x <= y
  <2> SUFFICES ASSUME NEW y \in T  PROVE  x <= y
    OBVIOUS
  <2>1. x \in Nat /\ y \in Nat
    OBVIOUS
  <2>2. y < x => <<y, x>> \in R
    BY <2>1 DEF R, OpToRel
  <2>3. QED  BY <1>2, <2>1, <2>2
<1>4. QED  BY <1>3

-----------------------------------------------------------------------------
(* The requests                                                            *)

\* f has the objects and the references of m, and removes no others but some in S.
Rests(m, f, S) ==
  /\ DOMAIN f = DOMAIN m /\ \A i \in DOMAIN m : f[i].refs = m[i].refs
  /\ \A i \in DOMAIN m \ S : object_remove(f[i]) <=> object_remove(m[i])

\* What a link leaves as it was.
LEMMA LinkedRest ==
  ASSUME NEW m, NEW L, NEW d \in DOMAIN m, NEW name \in Names, NEW o, Linkable(m, L, o),
         IsDir(m[d]), ~Exists(Counted(m, d, o), d, name, o)
  PROVE  Rests(m, Linked(m, d, name, o), {d, o} \cup Victims(Counted(m, d, o), d, name, o))
<1> DEFINE c == Counted(m, d, o)
           f == Linked(m, d, name, o)
<1>1. Enters(c, f, d, name, o)
  BY LinkedGood
<1>2. SoundFor(m, c, d, o)
  BY CountedSound
<1>3. \A i \in DOMAIN m \ {d, o} : c[i] = m[i]
  <2>1. DOMAIN c = DOMAIN m /\ o \in DOMAIN m
    BY <1>2 DEF SoundFor, Linkable
  <2>2. QED  BY <2>1 DEF Counted
<1> HIDE DEF c, f
<1>4. DOMAIN f = DOMAIN m /\ \A i \in DOMAIN m : f[i].refs = m[i].refs
  BY <1>1, <1>2 DEF Enters, SoundFor
<1>5. ASSUME NEW i \in DOMAIN m, i \notin {d, o}, i \notin Victims(c, d, name, o)
      PROVE  object_remove(f[i]) <=> object_remove(m[i])
  <2>1. c[i] = m[i] /\ m[i].nlink \in Nat
    BY <1>3, <1>5 DEF Linkable, Sound, Object
  <2>2. /\ f[i].kind = m[i].kind /\ f[i].refs = m[i].refs /\ f[i].dot = m[i].dot
        /\ f[i].dotdot = m[i].dotdot /\ f[i].ents = m[i].ents /\ f[i].nlink = m[i].nlink
    <3>1. DOMAIN c = DOMAIN m
      BY <1>2 DEF SoundFor
    <3>2. QED  BY <1>1, <1>5, <2>1, <3>1, SMTT(30) DEF Enters
  <2>3. QED  BY <2>2 DEF object_remove, IsDir, dir_empty, Entries
<1>6. QED  BY <1>4, <1>5 DEF c, f, Rests

\* The last put of the objects that a step changed restores what a change can disturb.
LEMMA PutStep ==
  ASSUME NEW m, NEW f, NEW op, NEW L, NEW L2, NEW ids, NEW op2,
         Kept(m, L), L \subseteq L2, Good(f, L2), RefsRight(f, op2, L2),
         \A i \in DOMAIN f \ (ids \cup L2 \cup {Root}) :
           i \in DOMAIN m /\ (object_remove(f[i]) => object_remove(m[i]))
  PROVE  ObjInv(Put(f, ids), op2, L2)
<1>1. Good(Put(f, ids), L2)
  BY PutGood
<1>2. RefsRight(Put(f, ids), op2, L2)
  BY PutRefs
<1>3. \A i \in DOMAIN f \ (ids \cup L2 \cup {Root}) : ~object_remove(f[i])
  BY DEF Kept
<1>4. Kept(Put(f, ids), L2)
  BY <1>3, PutKept
<1>5. QED  BY <1>1, <1>2, <1>4 DEF ObjInv

\* References are right when a step changes none.
LEMMA RefsKept ==
  ASSUME NEW m, NEW f, NEW op, NEW L, NEW L2, RefsRight(m, op, L), L \subseteq L2,
         DOMAIN f = DOMAIN m, \A i \in DOMAIN m : f[i].refs = m[i].refs
  PROVE  RefsRight(f, op, L2)
BY DEF RefsRight

LEMMA RefsNew ==
  ASSUME NEW o \in Ids \ Live, NEW kind, NEW L, RefsRight(obj, opens, L)
  PROVE  RefsRight(WithNew(o, kind), opens, L)
<1> DEFINE m == WithNew(o, kind)
<1>1. DOMAIN m = Live \cup {o} /\ m[o] = NewObject(kind) /\ \A i \in Live : m[i] = obj[i]
  BY DEF WithNew
<1> HIDE DEF m
<1>2. o # Root /\ opens[o] = 0 /\ Root \in Live
  BY DEF RefsRight, Live
<1>3. m[o].refs = 0 /\ Own(o) = 0
  BY <1>1, <1>2 DEF NewObject, Own
<1>4. \A i \in DOMAIN m : m[i].refs >= opens[i] + Own(i) /\ (i \notin L => m[i].refs = opens[i] + Own(i))
  BY <1>1, <1>2, <1>3 DEF RefsRight, Live
<1>5. RefsRight(m, opens, L)
  BY <1>1, <1>2, <1>4 DEF RefsRight, Live
<1>6. QED  BY <1>5 DEF m

LEMMA CreateLinked ==
  ASSUME NEW d \in Live, NEW name \in Names, NEW kind \in Kinds, NEW o \in Ids \ Live,
         ObjInv(obj, opens, lost), IsDir(obj[d]), ~Has(obj[d], name)
  PROVE  ObjInv(Linked(WithNew(o, kind), d, name, o), opens, lost)
<1> DEFINE m == WithNew(o, kind)
           c == Counted(m, d, o)
           f == Linked(m, d, name, o)
<1>1. Good(obj, lost) /\ Kept(obj, lost) /\ RefsRight(obj, opens, lost)
  BY DEF ObjInv
<1>2. Linkable(m, lost, o) /\ Losing(m, lost, o) = lost
  BY <1>1, NewLinkable
<1>3. DOMAIN m = Live \cup {o} /\ (\A i \in Live : m[i] = obj[i]) /\ d # o
  BY DEF WithNew
<1>4. RefsRight(m, opens, lost)
  BY <1>1, RefsNew
<1> HIDE DEF m
<1>5. SoundFor(m, c, d, o)
  BY <1>2, <1>3, CountedSound
<1> HIDE DEF c
<1>6. ~Has(c[d], name)
  BY <1>3, <1>5 DEF SoundFor, Alike, Has, IsDir
<1>7. ~Exists(c, d, name, o) /\ Victims(c, d, name, o) = {}
  BY <1>6 DEF Exists, Victims
<1>8. Good(f, lost) /\ Enters(c, f, d, name, o)
  BY <1>2, <1>3, <1>7, LinkedGood, SMTT(30) DEF c
<1>9. /\ DOMAIN f = DOMAIN m /\ \A i \in DOMAIN m : f[i].refs = m[i].refs
      /\ \A i \in DOMAIN m \ {d, o} : object_remove(f[i]) <=> object_remove(m[i])
  <2>1. Rests(m, f, {d, o} \cup Victims(c, d, name, o))
    BY <1>2, <1>3, <1>7, LinkedRest DEF c
  <2>2. QED  BY <1>7, <2>1 DEF Rests
<1> HIDE DEF f
<1>10. RefsRight(f, opens, lost)
  BY <1>4, <1>9, RefsKept
<1>11. name \in DOMAIN f[d].ents /\ f[d].ents[name] = o /\ IsDir(f[d])
  <2>1. f[d].ents = Added(c[d].ents, name, o) /\ f[d].kind = c[d].kind
    BY <1>3, <1>5, <1>8 DEF Enters, SoundFor
  <2>2. IsDir(c[d])
    BY <1>5 DEF SoundFor
  <2>3. QED  BY <2>1, <2>2 DEF Added, IsDir
<1>12. <<d, name>> \in LinksIn(f, o)
  BY <1>3, <1>9, <1>11 DEF LinksIn, Has
<1>13. ~object_remove(f[d]) /\ ~object_remove(f[o])
  BY <1>3, <1>8, <1>9, <1>11, <1>12, RemovedBare
<1>14. Kept(f, lost)
  BY <1>1, <1>3, <1>9, <1>13 DEF Kept, Live
<1>15. QED  BY <1>8, <1>10, <1>14 DEF ObjInv, f, m

\* A link that failed, of an object that was Linkable.
LEMMA FailedStep ==
  ASSUME NEW m, NEW L, NEW d \in DOMAIN m, NEW o, NEW at \in {"dot", "dotdot", "entry"},
         Linkable(m, L, o), IsDir(m[d]), IsDir(m[o]), RefsRight(m, opens, L),
         \A i \in DOMAIN m \ (L \cup {Root, o}) : ~object_remove(m[i])
  PROVE  ObjInv(Put(LinkFailed(m, d, o, at), {d, o}), opens,
                Losing(m, L, o) \cup FailLost(m, d, o, at))
<1> DEFINE f == LinkFailed(m, d, o, at)
           L2 == Losing(m, L, o) \cup FailLost(m, d, o, at)
<1>1. Good(f, L2) /\ Same(m, f, {d, o})
  <2>1. CASE at = "entry"
    <3>1. FailLost(m, d, o, at) = {d}
      BY <2>1 DEF FailLost
    <3>2. QED  BY <2>1, <3>1, LinkFailedEntry
  <2>2. CASE at \in {"dot", "dotdot"}
    <3>1. FailLost(m, d, o, at) = {o}
      BY <2>2 DEF FailLost
    <3>2. Good(f, L2) /\ Same(m, f, {o})
      BY <2>2, <3>1, LinkFailedDot
    <3>3. QED  BY <3>2 DEF Same
  <2>3. QED  BY <2>1, <2>2
<1>2. L \subseteq L2
  BY DEF Losing
<1> HIDE DEF f, L2
<1>3. RefsRight(f, opens, L2)
  BY <1>1, <1>2, RefsKept DEF Same
<1>4. \A i \in DOMAIN f \ ({d, o} \cup L2 \cup {Root}) : ~object_remove(f[i])
  BY <1>1, <1>2 DEF Same
<1>5. Good(Put(f, {d, o}), L2) /\ RefsRight(Put(f, {d, o}), opens, L2)
  BY <1>1, <1>3, PutGood, PutRefs
<1>6. Kept(Put(f, {d, o}), L2)
  BY <1>4, PutKept
<1>7. QED  BY <1>5, <1>6 DEF ObjInv, f, L2

LEMMA CreateFailed ==
  ASSUME NEW d \in Live, NEW o \in Ids \ Live, NEW at \in {"dot", "dotdot", "entry"},
         ObjInv(obj, opens, lost), IsDir(obj[d]), "dir" \in Kinds
  PROVE  ObjInv(Put(LinkFailed(WithNew(o, "dir"), d, o, at), {d, o}), opens,
                lost \cup FailLost(WithNew(o, "dir"), d, o, at))
<1> DEFINE m == WithNew(o, "dir")
<1>1. Good(obj, lost) /\ Kept(obj, lost) /\ RefsRight(obj, opens, lost)
  BY DEF ObjInv
<1>2. Linkable(m, lost, o) /\ Losing(m, lost, o) = lost
  BY <1>1, NewLinkable
<1>3. DOMAIN m = Live \cup {o} /\ (\A i \in Live : m[i] = obj[i]) /\ d # o /\ IsDir(m[o])
  BY DEF WithNew, IsDir, NewObject
<1>4. RefsRight(m, opens, lost)
  BY <1>1, RefsNew
<1> HIDE DEF m
<1>5. \A i \in DOMAIN m \ (lost \cup {Root, o}) : ~object_remove(m[i])
  BY <1>1, <1>3 DEF Kept, Live
<1>6. ObjInv(Put(LinkFailed(m, d, o, at), {d, o}), opens, Losing(m, lost, o) \cup FailLost(m, d, o, at))
  BY <1>2, <1>3, <1>4, <1>5, FailedStep
<1>7. QED  BY <1>2, <1>6 DEF m

LEMMA LiveLinkable ==
  ASSUME NEW o \in Live, Good(obj, lost), IsDir(obj[o]) => obj[o].nlink = 0
  PROVE  Linkable(obj, lost, o)
<1>1. /\ Count(obj, o) \in Nat /\ obj[o].nlink >= Count(obj, o)
      /\ \A i \in Live : Sound(obj, i) /\ Counts(obj, lost, i)
  BY GoodClosed DEF Live, Counts
<1>2. IsDir(obj[o]) => Count(obj, o) = 0
  BY <1>1
<1>3. QED  BY <1>1, <1>2 DEF Linkable, Live, Good

LEMMA LinkStep ==
  ASSUME NEW d \in Live, NEW name \in Names, NEW o \in Live, ObjInv(obj, opens, lost),
         IsDir(obj[d]), IsDir(obj[o]) => obj[o].nlink = 0,
         ~Exists(Counted(obj, d, o), d, name, o)
  PROVE  ObjInv(Put(Linked(obj, d, name, o), {d, o} \cup Victims(Counted(obj, d, o), d, name, o)),
                opens, Losing(obj, lost, o))
<1> DEFINE f == Linked(obj, d, name, o)
           ids == {d, o} \cup Victims(Counted(obj, d, o), d, name, o)
           L2 == Losing(obj, lost, o)
<1>1. Good(obj, lost) /\ Kept(obj, lost) /\ RefsRight(obj, opens, lost)
  BY DEF ObjInv
<1>2. Linkable(obj, lost, o) /\ d \in DOMAIN obj
  BY <1>1, LiveLinkable DEF Live
<1>3. Good(f, L2)
  BY <1>2, LinkedGood
<1>4. Rests(obj, f, ids)
  BY <1>2, LinkedRest
<1>5. lost \subseteq L2
  BY DEF Losing
<1> HIDE DEF f, ids, L2
<1>6. RefsRight(f, opens, L2)
  BY <1>1, <1>4, <1>5, RefsKept DEF Rests
<1>7. \A i \in DOMAIN f \ (ids \cup L2 \cup {Root}) :
        i \in DOMAIN obj /\ (object_remove(f[i]) => object_remove(obj[i]))
  BY <1>4 DEF Rests
<1>8. ObjInv(Put(f, ids), opens, L2)
  BY <1>1, <1>3, <1>5, <1>6, <1>7, PutStep
<1>9. QED  BY <1>8 DEF f, ids, L2

\* A link of a file finds in the directory what was there before the file's link was counted.
LEMMA FileSeen ==
  ASSUME NEW d \in Live, NEW name, NEW o \in Live, Good(obj, lost), ~IsDir(obj[o])
  PROVE  /\ Victims(Counted(obj, d, o), d, name, o) = Victims(obj, d, name, o)
         /\ Exists(Counted(obj, d, o), d, name, o) <=> Exists(obj, d, name, o)
<1> DEFINE c == Counted(obj, d, o)
<1>1. CountsFile(obj, c, o)
  <2>1. \A i \in DOMAIN obj : obj[i] \in Object
    BY GoodClosed
  <2>2. QED  BY <2>1, CountedFile DEF Live
<1> HIDE DEF c
<1>2. (Has(c[d], name) <=> Has(obj[d], name)) /\ c[d].ents = obj[d].ents
  BY <1>1 DEF CountsFile, Alike, Has, IsDir, Live
<1>3. \A i \in DOMAIN obj[d].ents : IsDir(c[obj[d].ents[i]]) <=> IsDir(obj[obj[d].ents[i]])
  <2>1. \A i \in DOMAIN obj[d].ents : obj[d].ents[i] \in DOMAIN obj
    BY DEF Good, Sound, Live
  <2>2. QED  BY <1>1, <2>1 DEF CountsFile, Alike, IsDir
<1>4. Victims(c, d, name, o) = Victims(obj, d, name, o)
  BY <1>2, <1>3 DEF Victims, Has
<1>5. Exists(c, d, name, o) <=> Exists(obj, d, name, o)
  BY <1>2, <1>4 DEF Exists
<1>6. QED  BY <1>4, <1>5 DEF c

LEMMA UnlinkStep ==
  ASSUME NEW d \in Live, NEW name, ObjInv(obj, opens, lost), Has(obj[d], name)
  PROVE  ObjInv(Put(Unlinked(d, name), {d, obj[d].ents[name]}), opens, lost)
<1> DEFINE f == Unlinked(d, name)
           o == obj[d].ents[name]
<1>1. Good(obj, lost) /\ Kept(obj, lost) /\ RefsRight(obj, opens, lost)
  BY DEF ObjInv
<1>2. name \in DOMAIN obj[d].ents /\ IsDir(obj[d])
  BY DEF Has
<1>3. Good(f, lost) /\ Unlinks(f, d, name, o)
  BY <1>1, <1>2, UnlinkedGood, UnlinkedFields
<1>4. \A i \in Live : obj[i].nlink \in Nat
  BY <1>1, GoodClosed DEF Live
<1> HIDE DEF f, o
<1>5. RefsRight(f, opens, lost)
  BY <1>1, <1>3, RefsKept DEF Unlinks, Live
<1>6. ASSUME NEW i \in DOMAIN f \ ({d, o} \cup lost \cup {Root})
      PROVE  i \in DOMAIN obj /\ (object_remove(f[i]) => object_remove(obj[i]))
  <2>1. i \in Live /\ i # d /\ i # o
    BY <1>3 DEF Unlinks
  <2>2. /\ f[i].kind = obj[i].kind /\ f[i].refs = obj[i].refs /\ f[i].dot = obj[i].dot
        /\ f[i].dotdot = obj[i].dotdot /\ f[i].ents = obj[i].ents
        /\ f[i].nlink = obj[i].nlink - Weight(obj, d, o, i)
    BY <1>3, <2>1 DEF Unlinks
  <2>3. f[i].nlink = obj[i].nlink
    <3>1. Weight(obj, d, o, i) = 0
      BY <2>1 DEF Weight
    <3>2. QED  BY <1>4, <2>1, <2>2, <3>1, SMTT(30)
  <2>4. QED  BY <2>1, <2>2, <2>3 DEF object_remove, IsDir, dir_empty, Entries, Live
<1>7. ObjInv(Put(f, {d, o}), opens, lost)
  BY <1>1, <1>3, <1>5, <1>6, PutStep
<1>8. QED  BY <1>7 DEF f, o

\* The objects with the references of o being k.
Held(o, k) == [obj EXCEPT ![o].refs = k]

LEMMA HeldFields ==
  ASSUME NEW o \in Live, NEW k \in Nat, Good(obj, lost)
  PROVE  /\ DOMAIN Held(o, k) = Live /\ Held(o, k)[o].refs = k
         /\ \A i \in Live \ {o} : Held(o, k)[i] = obj[i]
         /\ Good(Held(o, k), lost)
<1> DEFINE f == Held(o, k)
           x == [obj[o] EXCEPT !.refs = k]
<1>1. /\ Closed(obj) /\ Live \subseteq Ids
      /\ \A i \in Live : Sound(obj, i) /\ Counts(obj, lost, i) /\ obj[i] \in Object
  BY GoodClosed DEF Closed, Live
<1>2. /\ x \in Object /\ x.kind = obj[o].kind /\ x.nlink = obj[o].nlink /\ x.refs = k
      /\ x.ents = obj[o].ents /\ x.dot = obj[o].dot /\ x.dotdot = obj[o].dotdot
  BY <1>1 DEF Object
<1>3. DOMAIN f = Live /\ f[o] = x /\ \A i \in Live \ {o} : f[i] = obj[i]
  BY DEF Held, Live
<1> HIDE DEF f, x
<1>4. \A i \in Live :
        /\ f[i] \in Object /\ f[i].kind = obj[i].kind /\ f[i].nlink = obj[i].nlink
        /\ f[i].ents = obj[i].ents /\ f[i].dot = obj[i].dot /\ f[i].dotdot = obj[i].dotdot
  BY <1>1, <1>2, <1>3
<1>5. ASSUME NEW i \in Live  PROVE  Sound(f, i)
  <2>1. Sound(obj, i) /\ \A n \in DOMAIN obj[i].ents : obj[i].ents[n] \in Live
    BY <1>1 DEF Sound, Live
  <2>2. QED  BY <1>3, <1>4, <2>1, SMTT(30) DEF Sound, IsDir
<1>6. Closed(f)
  BY <1>1, <1>3, <1>5, SoundClosed
<1>7. Shares(obj, f)
  BY <1>3, <1>4 DEF Shares, Live
<1>8. \A i \in Live : Count(f, i) = Count(obj, i)
  BY <1>1, <1>3, <1>6, <1>7, SharesCount DEF Live
<1>9. \A i \in Live : Counts(f, lost, i)
  BY <1>1, <1>4, <1>8 DEF Counts, IsDir, Dotted
<1>10. Good(f, lost)
  BY <1>1, <1>3, <1>5, <1>9 DEF Good
<1>11. QED  BY <1>2, <1>3, <1>10 DEF f

LEMMA OpenStep ==
  ASSUME NEW o \in Live, ObjInv(obj, opens, lost)
  PROVE  ObjInv(Held(o, obj[o].refs + 1), [opens EXCEPT ![o] = @ + 1], lost)
<1> DEFINE f == Held(o, obj[o].refs + 1)
           op == [opens EXCEPT ![o] = @ + 1]
<1>1. Good(obj, lost) /\ Kept(obj, lost) /\ RefsRight(obj, opens, lost)
  BY DEF ObjInv
<1>2. obj[o].refs \in Nat /\ o \in Ids /\ opens[o] \in Nat
  BY <1>1 DEF Good, Sound, Object, Live, RefsRight
<1>3. /\ DOMAIN f = Live /\ f[o].refs = obj[o].refs + 1 /\ (\A i \in Live \ {o} : f[i] = obj[i])
      /\ Good(f, lost)
  <2>1. obj[o].refs + 1 \in Nat
    BY <1>2
  <2>2. QED  BY <1>1, <2>1, HeldFields
<1>4. op \in [Ids -> Nat] /\ op[o] = opens[o] + 1 /\ \A i \in Ids \ {o} : op[i] = opens[i]
  BY <1>1, <1>2 DEF RefsRight
<1> HIDE DEF f, op
<1>5. RefsRight(f, op, lost)
  <2>1. \A i \in Ids \ DOMAIN f : op[i] = 0
    BY <1>1, <1>3, <1>4 DEF RefsRight, Live
  <2>2. Own(o) \in Nat
    BY DEF Own
  <2>3. f[o].refs >= op[o] + Own(o) /\ (o \notin lost => f[o].refs = op[o] + Own(o))
    BY <1>1, <1>2, <1>3, <1>4, <2>2, SMTT(30) DEF RefsRight, Live
  <2>4. \A i \in Live \ {o} : f[i].refs >= op[i] + Own(i) /\ (i \notin lost => f[i].refs = op[i] + Own(i))
    BY <1>1, <1>3, <1>4 DEF RefsRight, Live, Good
  <2>5. QED  BY <1>1, <1>3, <1>4, <2>1, <2>3, <2>4 DEF RefsRight, Live
<1>6. ~object_remove(f[o])
  BY <1>2, <1>3, SMTT(30) DEF object_remove
<1>7. Kept(f, lost)
  BY <1>1, <1>3, <1>6 DEF Kept, Live
<1>8. QED  BY <1>3, <1>5, <1>7 DEF ObjInv, f, op

LEMMA CloseStep ==
  ASSUME NEW o \in Live, ObjInv(obj, opens, lost), opens[o] > 0
  PROVE  ObjInv(Put(Held(o, obj[o].refs - 1), {o}), [opens EXCEPT ![o] = @ - 1], lost)
<1> DEFINE f == Held(o, obj[o].refs - 1)
           op == [opens EXCEPT ![o] = @ - 1]
<1>1. Good(obj, lost) /\ Kept(obj, lost) /\ RefsRight(obj, opens, lost)
  BY DEF ObjInv
<1>2. obj[o].refs \in Nat /\ o \in Ids /\ opens[o] \in Nat /\ Own(o) \in Nat
  BY <1>1 DEF Good, Sound, Object, Live, RefsRight, Own
<1>3. obj[o].refs >= opens[o] + Own(o) /\ (o \notin lost => obj[o].refs = opens[o] + Own(o))
  BY <1>1 DEF RefsRight, Live
<1>4. obj[o].refs - 1 \in Nat
  BY <1>2, <1>3
<1>5. /\ DOMAIN f = Live /\ f[o].refs = obj[o].refs - 1 /\ (\A i \in Live \ {o} : f[i] = obj[i])
      /\ Good(f, lost)
  BY <1>1, <1>4, HeldFields
<1>6. op \in [Ids -> Nat] /\ op[o] = opens[o] - 1 /\ \A i \in Ids \ {o} : op[i] = opens[i]
  BY <1>1, <1>2 DEF RefsRight
<1> HIDE DEF f, op
<1>7. RefsRight(f, op, lost)
  <2>1. \A i \in Ids \ DOMAIN f : op[i] = 0
    BY <1>1, <1>5, <1>6 DEF RefsRight, Live
  <2>2. f[o].refs >= op[o] + Own(o) /\ (o \notin lost => f[o].refs = op[o] + Own(o))
    BY <1>2, <1>3, <1>5, <1>6, SMTT(30)
  <2>3. \A i \in Live \ {o} : f[i].refs >= op[i] + Own(i) /\ (i \notin lost => f[i].refs = op[i] + Own(i))
    BY <1>1, <1>5, <1>6 DEF RefsRight, Live, Good
  <2>4. QED  BY <1>1, <1>5, <1>6, <2>1, <2>2, <2>3 DEF RefsRight, Live
<1>8. \A i \in DOMAIN f \ ({o} \cup lost \cup {Root}) :
        i \in DOMAIN obj /\ (object_remove(f[i]) => object_remove(obj[i]))
  BY <1>5 DEF Live
<1>9. ObjInv(Put(f, {o}), op, lost)
  BY <1>1, <1>5, <1>7, <1>8, PutStep
<1>10. QED  BY <1>9 DEF f, op

LEMMA TruncateStep ==
  ASSUME NEW o \in Live, ObjInv(obj, opens, lost)
  PROVE  ObjInv(Held(o, obj[o].refs + 1), opens, lost \cup {o})
<1> DEFINE f == Held(o, obj[o].refs + 1)
<1>1. Good(obj, lost) /\ Kept(obj, lost) /\ RefsRight(obj, opens, lost)
  BY DEF ObjInv
<1>2. obj[o].refs \in Nat /\ o \in Ids /\ opens[o] \in Nat /\ Own(o) \in Nat
  BY <1>1 DEF Good, Sound, Object, Live, RefsRight, Own
<1>3. /\ DOMAIN f = Live /\ f[o].refs = obj[o].refs + 1 /\ (\A i \in Live \ {o} : f[i] = obj[i])
      /\ Good(f, lost)
  <2>1. obj[o].refs + 1 \in Nat
    BY <1>2
  <2>2. QED  BY <1>1, <2>1, HeldFields
<1> HIDE DEF f
<1>4. Good(f, lost \cup {o})
  BY <1>3 DEF Good, Counts
<1>5. RefsRight(f, opens, lost \cup {o})
  <2>1. obj[o].refs >= opens[o] + Own(o)
    BY <1>1 DEF RefsRight, Live
  <2>2. f[o].refs >= opens[o] + Own(o)
    BY <1>2, <1>3, <2>1
  <2>3. QED  BY <1>1, <1>3, <2>2 DEF RefsRight, Live
<1>6. Kept(f, lost \cup {o})
  BY <1>1, <1>3 DEF Kept, Live
<1>7. QED  BY <1>4, <1>5, <1>6 DEF ObjInv, f

LEMMA DestroyStep ==
  ASSUME NEW o, ObjInv(obj, opens, lost)
  PROVE  ObjInv(Put(obj, {o}), opens, lost)
<1>1. Good(obj, lost) /\ Kept(obj, lost) /\ RefsRight(obj, opens, lost)
  BY DEF ObjInv
<1>2. QED  BY <1>1, PutStep DEF ObjInv

-----------------------------------------------------------------------------
(* The invariant                                                           *)

LEMMA FailLostIds ==
  ASSUME NEW m, NEW d \in Ids, NEW o \in Ids, NEW at
  PROVE  FailLost(m, d, o, at) \subseteq Ids
BY DEF FailLost

LEMMA InitInv == Init => IInv
<1> SUFFICES ASSUME Init  PROVE IInv
  OBVIOUS
<1> DEFINE b == NewObject("dir")
           r == [DirInit(b, Root) EXCEPT !.refs = 1]
<1>1. obj = [i \in {Root} |-> r] /\ opens = [i \in Ids |-> 0] /\ fails = 0 /\ lost = {}
  BY DEF Init
<1>2. /\ b \in Object /\ b.kind = "dir" /\ b.nlink = 0
  BY ConstantsAssumption, NoEnts DEF NewObject, Object, None
<1>3. /\ r \in Object /\ r.kind = "dir" /\ r.nlink = 0 /\ r.refs = 1 /\ r.ents = <<>>
      /\ r.dot = TRUE /\ r.dotdot = Root
  BY <1>2, ConstantsAssumption, NoEnts DEF DirInit, Object
<1> HIDE DEF r
<1>4. DOMAIN obj = {Root} /\ obj[Root] = r /\ DOMAIN r.ents = {} /\ IsDir(r)
  BY <1>1, <1>3, NoEnts DEF IsDir
<1>5. Sound(obj, Root)
  BY <1>3, <1>4 DEF Sound
<1>6. Counts(obj, lost, Root)
  <2>1. LinksIn(obj, Root) = {} /\ SubdirsIn(obj, Root) = {}
    BY <1>4 DEF LinksIn, SubdirsIn, Has
  <2>2. Count(obj, Root) = 0
    BY <1>4, <2>1, FS_EmptySet DEF Count
  <2>3. QED  BY <1>3, <1>4, <2>2 DEF Counts, Dotted, Root, None
<1>7. Good(obj, lost)
  BY <1>4, <1>5, <1>6, ConstantsAssumption DEF Good
<1>8. Kept(obj, lost)
  BY <1>4 DEF Kept
<1>9. RefsRight(obj, opens, lost)
  BY <1>1, <1>3, <1>4, ConstantsAssumption DEF RefsRight, Own
<1>10. QED  BY <1>1, <1>7, <1>8, <1>9, ConstantsAssumption DEF IInv, ObjInv

LEMMA CreateInv ==
  ASSUME IInv, NEW d \in Live, NEW name \in Names, NEW kind \in Kinds, create(d, name, kind)
  PROVE  IInv'
<1> DEFINE o == object_create
           m == WithNew(o, kind)
<1>1. /\ IsDir(obj[d]) /\ ~Has(obj[d], name) /\ Ids # Live /\ opens' = opens
      /\ \/ obj' = Linked(m, d, name, o) /\ fails' = fails /\ lost' = lost
         \/ \E at \in {"dot", "dotdot", "entry"} :
              /\ kind = "dir" /\ fails < MaxFails
              /\ obj' = Put(LinkFailed(m, d, o, at), {d, o})
              /\ fails' = fails + 1 /\ lost' = lost \cup FailLost(m, d, o, at)
  BY DEF create, WithNew
<1>2. o \in Ids \ Live /\ d \in Ids
  <2>1. Live \subseteq Ids
    BY DEF IInv, ObjInv, Good, Live
  <2>2. Ids \ DOMAIN obj # {} /\ Ids \ DOMAIN obj \subseteq Nat
    BY <1>1, <2>1, ConstantsAssumption DEF Live
  <2>3. QED  BY <2>1, <2>2, LowestFree DEF object_create, Live
<1> HIDE DEF o
<1>3. CASE obj' = Linked(m, d, name, o) /\ fails' = fails /\ lost' = lost
  BY <1>1, <1>2, <1>3, CreateLinked DEF IInv
<1>4. ASSUME NEW at \in {"dot", "dotdot", "entry"}, kind = "dir", fails < MaxFails,
             obj' = Put(LinkFailed(m, d, o, at), {d, o}), fails' = fails + 1,
             lost' = lost \cup FailLost(m, d, o, at)
      PROVE  IInv'
  <2>1. ObjInv(obj', opens', lost')
    BY <1>1, <1>2, <1>4, CreateFailed DEF IInv
  <2>2. fails' \in 0..MaxFails
    BY <1>4, ConstantsAssumption DEF IInv
  <2>3. FailLost(m, d, o, at) \subseteq Ids
    BY <1>2, FailLostIds
  <2>4. lost' \subseteq Ids
    BY <1>4, <2>3 DEF IInv
  <2>5. QED  BY <2>1, <2>2, <2>4 DEF IInv
<1>5. QED  BY <1>1, <1>3, <1>4

LEMMA LinkInv ==
  ASSUME IInv, NEW d \in Live, NEW name \in Names, NEW o \in Live, link(d, name, o)
  PROVE  IInv'
<1>1. /\ IsDir(obj[d]) /\ ~IsDir(obj[o]) /\ ~Exists(obj, d, name, o)
      /\ obj' = Put(Linked(obj, d, name, o), {d, o} \cup Victims(obj, d, name, o))
      /\ opens' = opens /\ fails' = fails /\ lost' = lost
  BY DEF link
<1>2. ObjInv(obj, opens, lost) /\ Good(obj, lost)
  BY DEF IInv, ObjInv
<1>3. /\ Victims(Counted(obj, d, o), d, name, o) = Victims(obj, d, name, o)
      /\ ~Exists(Counted(obj, d, o), d, name, o)
  BY <1>1, <1>2, FileSeen
<1>4. Losing(obj, lost, o) = lost
  BY <1>1 DEF Losing
<1>5. ObjInv(obj', opens, lost)
  BY <1>1, <1>2, <1>3, <1>4, LinkStep
<1>6. QED  BY <1>1, <1>5 DEF IInv

LEMMA RelinkInv ==
  ASSUME IInv, NEW d \in Live, NEW name \in Names, NEW o \in Live, relink(d, name, o)
  PROVE  IInv'
<1> DEFINE c == Counted(obj, d, o)
           L2 == Losing(obj, lost, o)
<1>1. /\ IsDir(obj[d]) /\ IsDir(obj[o]) /\ obj[o].nlink = 0 /\ fails < MaxFails
      /\ fails' = fails + 1 /\ opens' = opens
      /\ \/ /\ ~Exists(c, d, name, o)
            /\ obj' = Put(Linked(obj, d, name, o), {d, o} \cup Victims(c, d, name, o))
            /\ lost' = L2
         \/ \E at \in {"dot", "dotdot", "entry"} :
              /\ obj' = Put(LinkFailed(obj, d, o, at), {d, o})
              /\ lost' = L2 \cup FailLost(obj, d, o, at)
  BY DEF relink, Losing, Contents
<1>2. ObjInv(obj, opens, lost) /\ Good(obj, lost) /\ Kept(obj, lost) /\ RefsRight(obj, opens, lost)
  BY DEF IInv, ObjInv
<1>3. L2 \subseteq Ids /\ d \in Ids /\ o \in Ids
  <2>1. Live \subseteq Ids /\ lost \subseteq Ids
    BY <1>2 DEF Good, Live, IInv
  <2>2. Contents(obj, o) \subseteq Live
    BY <1>2 DEF Contents, Good, Sound, Live
  <2>3. QED  BY <2>1, <2>2 DEF Losing
<1>4. fails' \in 0..MaxFails
  <2>1. fails \in 0..MaxFails /\ fails < MaxFails /\ fails' = fails + 1
    BY <1>1 DEF IInv
  <2>2. QED  BY <2>1, ConstantsAssumption
<1> HIDE DEF L2
<1>5. CASE /\ ~Exists(c, d, name, o)
           /\ obj' = Put(Linked(obj, d, name, o), {d, o} \cup Victims(c, d, name, o))
           /\ lost' = L2
  <2>1. ObjInv(obj', opens, L2)
    BY <1>1, <1>2, <1>5, LinkStep DEF L2
  <2>2. QED  BY <1>1, <1>3, <1>4, <1>5, <2>1 DEF IInv
<1>6. ASSUME NEW at \in {"dot", "dotdot", "entry"},
             obj' = Put(LinkFailed(obj, d, o, at), {d, o}), lost' = L2 \cup FailLost(obj, d, o, at)
      PROVE  IInv'
  <2>1. Linkable(obj, lost, o) /\ d \in DOMAIN obj
    BY <1>1, <1>2, LiveLinkable DEF Live
  <2>2. \A i \in DOMAIN obj \ (lost \cup {Root, o}) : ~object_remove(obj[i])
    BY <1>2 DEF Kept
  <2>3. ObjInv(obj', opens, lost')
    BY <1>1, <1>2, <1>6, <2>1, <2>2, FailedStep DEF L2
  <2>4. lost' \subseteq Ids
    BY <1>3, <1>6, FailLostIds
  <2>5. QED  BY <1>1, <1>4, <2>3, <2>4 DEF IInv
<1>7. QED  BY <1>1, <1>5, <1>6

LEMMA UnlinkInv ==
  ASSUME IInv, NEW d \in Live, NEW name \in Names, unlink(d, name)
  PROVE  IInv'
<1>1. /\ Has(obj[d], name) /\ obj' = Put(Unlinked(d, name), {d, obj[d].ents[name]})
      /\ opens' = opens /\ fails' = fails /\ lost' = lost
  BY DEF unlink
<1>2. ObjInv(obj', opens, lost)
  BY <1>1, UnlinkStep DEF IInv
<1>3. QED  BY <1>1, <1>2 DEF IInv

LEMMA HoldInv ==
  ASSUME IInv, NEW o \in Live, open(o) \/ close(o) \/ truncate(o) \/ destroy(o)
  PROVE  IInv'
<1>1. ObjInv(obj, opens, lost) /\ o \in Ids
  BY DEF IInv, ObjInv, Good, Live
<1>2. CASE open(o)
  <2>1. /\ obj' = Held(o, obj[o].refs + 1) /\ opens' = [opens EXCEPT ![o] = @ + 1]
        /\ fails' = fails /\ lost' = lost
    BY <1>2 DEF open, Held
  <2>2. ObjInv(obj', opens', lost)
    BY <1>1, <2>1, OpenStep
  <2>3. QED  BY <2>1, <2>2 DEF IInv
<1>3. CASE close(o)
  <2>1. /\ obj' = Put(Held(o, obj[o].refs - 1), {o}) /\ opens' = [opens EXCEPT ![o] = @ - 1]
        /\ fails' = fails /\ lost' = lost /\ opens[o] > 0
    BY <1>3 DEF close, Held
  <2>2. ObjInv(obj', opens', lost)
    BY <1>1, <2>1, CloseStep
  <2>3. QED  BY <2>1, <2>2 DEF IInv
<1>4. CASE truncate(o)
  <2>1. /\ obj' = Held(o, obj[o].refs + 1) /\ opens' = opens /\ fails < MaxFails
        /\ fails' = fails + 1 /\ lost' = lost \cup {o}
    BY <1>4 DEF truncate, Held
  <2>2. ObjInv(obj', opens', lost')
    BY <1>1, <2>1, TruncateStep
  <2>3. fails' \in 0..MaxFails /\ lost' \subseteq Ids
    BY <1>1, <2>1, ConstantsAssumption DEF IInv
  <2>4. QED  BY <2>2, <2>3 DEF IInv
<1>5. CASE destroy(o)
  <2>1. obj' = Put(obj, {o}) /\ opens' = opens /\ fails' = fails /\ lost' = lost
    BY <1>5 DEF destroy
  <2>2. ObjInv(obj', opens, lost)
    BY <1>1, <2>1, DestroyStep
  <2>3. QED  BY <2>1, <2>2 DEF IInv
<1>6. QED  BY <1>2, <1>3, <1>4, <1>5

\* The invariant holds in every state of every file system, however many objects, names,
\* opens and failures there are.
THEOREM Invariance == Spec => []IInv
<1>1. IInv /\ [Next]_vars => IInv'
  <2> SUFFICES ASSUME IInv, [Next]_vars  PROVE IInv'
    OBVIOUS
  <2>1. CASE Next
    BY <2>1, CreateInv, LinkInv, RelinkInv, UnlinkInv, HoldInv DEF Next
  <2>2. CASE UNCHANGED vars
    <3>1. obj' = obj /\ opens' = opens /\ fails' = fails /\ lost' = lost
      BY <2>2 DEF vars
    <3>2. QED  BY <3>1 DEF IInv
  <2>3. QED  BY <2>1, <2>2
<1>2. QED  BY InitInv, <1>1, PTL DEF Spec

-----------------------------------------------------------------------------
(* What it says                                                            *)

LEMMA InvTypeOK == IInv => TypeOK
BY DEF IInv, ObjInv, Good, Sound, RefsRight, TypeOK, Live

LEMMA InvEntriesLive == IInv => EntriesLive
<1> SUFFICES ASSUME IInv  PROVE EntriesLive
  OBVIOUS
<1>1. Good(obj, lost) /\ RefsRight(obj, opens, lost)
  BY DEF IInv, ObjInv
<1>2. \A d \in Live : \A n \in DOMAIN obj[d].ents :
        /\ obj[d].ents[n] \in Live
        /\ IsDir(obj[obj[d].ents[n]]) => obj[obj[d].ents[n]].dotdot = d
  BY <1>1 DEF Good, Sound, Live
<1>3. ASSUME NEW d \in Live, d = Root \/ Links(d) # {}, NEW i \in Reached(d)  PROVE i \in Live
  <2>1. CASE i \in {obj[d].ents[n] : n \in DOMAIN obj[d].ents}
    BY <1>2, <2>1
  <2>2. CASE d # Root /\ i = obj[d].dotdot /\ i # None
    <3>1. PICK e \in Live \X Names : Has(obj[e[1]], e[2]) /\ obj[e[1]].ents[e[2]] = d
      BY <1>3, <2>2 DEF Links, LinksIn, Live
    <3>2. e[1] \in Live /\ e[2] \in DOMAIN obj[e[1]].ents
      BY <3>1 DEF Has
    <3>3. CASE IsDir(obj[d])
      <4>1. obj[d].dotdot = e[1]
        BY <1>2, <3>1, <3>2, <3>3
      <4>2. QED  BY <2>2, <3>2, <4>1
    <3>4. CASE ~IsDir(obj[d])
      BY <1>1, <2>2, <3>4 DEF Good, Sound, Live
    <3>5. QED  BY <3>3, <3>4
  <2>3. QED  BY <1>3, <2>1, <2>2 DEF Reached
<1>4. QED  BY <1>2, <1>3 DEF EntriesLive, SubdirsIn

LEMMA InvLinksRight == IInv => LinksRight
BY DEF IInv, ObjInv, Good, Counts, LinksRight, Live

LEMMA InvNeither == IInv => NeitherEarlyNorLate
<1> SUFFICES ASSUME IInv  PROVE NeitherEarlyNorLate
  OBVIOUS
<1>1. Good(obj, lost) /\ Kept(obj, lost) /\ RefsRight(obj, opens, lost)
  BY DEF IInv, ObjInv
<1>2. \A o \in Ids : opens[o] > 0 => o \in Live
  BY <1>1 DEF RefsRight, Live
<1>3. ASSUME NEW o \in Live \ (lost \cup {Root}), opens[o] = 0, Links(o) = {}
      PROVE  IsDir(obj[o]) /\ DOMAIN obj[o].ents # {}
  <2>1. ~object_remove(obj[o])
    BY <1>1 DEF Kept, Live
  <2>2. obj[o].refs = 0
    BY <1>1, <1>3 DEF RefsRight, Own, Live
  <2>3. obj[o].nlink = Count(obj, o) /\ Sound(obj, o) /\ Closed(obj) /\ LinksIn(obj, o) = {}
    BY <1>1, <1>3, GoodClosed DEF Good, Counts, Links, Live
  <2>4. CASE ~IsDir(obj[o])
    <3>1. Count(obj, o) = 0
      BY <2>3, <2>4, FS_EmptySet DEF Count
    <3>2. QED  BY <2>1, <2>2, <2>3, <2>4, <3>1 DEF object_remove
  <2>5. CASE IsDir(obj[o]) /\ DOMAIN obj[o].ents = {}
    <3>1. SubdirsIn(obj, o) = {}
      BY <2>5 DEF SubdirsIn
    <3>2. Count(obj, o) = 0
      BY <2>3, <2>5, <3>1, FS_EmptySet, SMTT(30) DEF Count
    <3>3. Entries(obj[o]) <= 2
      BY <2>5, FS_EmptySet DEF Entries
    <3>4. QED  BY <2>1, <2>2, <2>3, <3>2, <3>3 DEF object_remove, dir_empty
  <2>6. QED  BY <2>4, <2>5
<1>4. QED  BY <1>2, <1>3 DEF NeitherEarlyNorLate

\* Link and reference counts never go below zero, and no request leaves anything but
\* objects of the file system's kinds behind (object.c:59).
THEOREM Types == Spec => []TypeOK
BY Invariance, InvTypeOK, PTL

\* No entry names an object that is gone, and the ".." of every directory that has a
\* name leads to the directory that holds the name, whatever requests came and failed.
THEOREM EntriesAlwaysLive == Spec => []EntriesLive
BY Invariance, InvEntriesLive, PTL

\* The link count of every object that no failed request left wrong is the number of
\* entries, dots and subdirectories that it stands for.
THEOREM LinksAlwaysRight == Spec => []LinksRight
BY Invariance, InvLinksRight, PTL

\* No object goes while a client holds it, and none stays that nobody holds or names, but
\* for a removed directory that was filled again.
THEOREM NeverEarlyNorLate == Spec => []NeitherEarlyNorLate
BY Invariance, InvNeither, PTL
=============================================================================
