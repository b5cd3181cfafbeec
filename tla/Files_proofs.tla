------------------------------ MODULE Files_proofs ------------------------------
(***************************************************************************)
(* What the coordinator stores, for all sizes: a member's Workspace, the   *)
(* store of published results, and the releases it discovers.  The three   *)
(* share no state; each part of this module speaks of one of them.         *)
(***************************************************************************)
EXTENDS MemberFiles, ArtifactStore, Discovery, Collections, WellFoundedInduction

-------------------------------------------------------------------------------
(***************************************************************************)
(* Paths.                                                                  *)
(***************************************************************************)
Path == Seq(Names)

LEMMA SamePath ==
    ASSUME NEW p \in Path, NEW q \in Path, Len(p) = Len(q), \A i \in 1 .. Len(p) : p[i] = q[i]
    PROVE  p = q
BY DEF Path

LEMMA PathLen == \A p \in Path : Len(p) \in Nat /\ (Len(p) = 0 <=> p = <<>>)
BY DEF Path

LEMMA PrefixIs ==
    ASSUME NEW p \in Path, NEW q \in Path
    PROVE  IsPrefix(p, q) <=> Len(p) <= Len(q) /\ \A i \in 1 .. Len(p) : p[i] = q[i]
BY DEF IsPrefix, Path

LEMMA FrontIs ==
    ASSUME NEW p \in Path, p # <<>>
    PROVE  /\ Front(p) \in Path /\ Len(Front(p)) = Len(p) - 1
           /\ \A i \in 1 .. Len(p) - 1 : Front(p)[i] = p[i]
<1>1. Len(p) \in Nat /\ Len(p) # 0
  BY PathLen
<1> DEFINE n == Len(p) - 1
<1>2. n \in 0 .. Len(p) /\ DOMAIN p = 1 .. Len(p) /\ \A i \in 1 .. n : p[i] \in Names
  BY <1>1 DEF Path
<1> HIDE DEF n
<1>3. SubSeq(p, 1, n) \in Path
  BY <1>1, <1>2 DEF Path
<1>4. Len(SubSeq(p, 1, n)) = n
  BY <1>1, <1>2 DEF Path
<1>5. \A i \in 1 .. n : SubSeq(p, 1, n)[i] = p[i]
  BY <1>1, <1>2 DEF Path
<1>6. QED
  BY <1>3, <1>4, <1>5 DEF Front, n

LEMMA ConcatIs ==
    ASSUME NEW p \in Path, NEW q \in Path
    PROVE  /\ p \o q \in Path /\ Len(p \o q) = Len(p) + Len(q)
           /\ \A i \in 1 .. Len(p) : (p \o q)[i] = p[i]
           /\ \A i \in 1 .. Len(q) : (p \o q)[Len(p) + i] = q[i]
<1>1. Len(p) \in Nat /\ Len(q) \in Nat
  BY PathLen
<1>2. p \o q \in Path /\ Len(p \o q) = Len(p) + Len(q)
  BY DEF Path
<1>3. \A i \in 1 .. Len(p) : (p \o q)[i] = p[i]
  BY <1>1 DEF Path
<1>4. \A i \in 1 .. Len(q) : (p \o q)[Len(p) + i] = q[i]
  BY <1>1 DEF Path
<1>5. QED
  BY <1>2, <1>3, <1>4

\* The path q is d with, behind it, what p has behind its prefix s.
Joins(q, p, s, d) ==
    /\ q \in Path
    /\ Len(q) = Len(d) + (Len(p) - Len(s))
    /\ \A i \in 1 .. Len(d) : q[i] = d[i]
    /\ \A i \in 1 .. Len(p) - Len(s) : q[Len(d) + i] = p[Len(s) + i]

LEMMA RebasedIs ==
    ASSUME NEW p \in Path, NEW s \in Path, NEW d \in Path, IsPrefix(s, p)
    PROVE  Joins(Rebased(p, s, d), p, s, d)
<1> DEFINE rest == SubSeq(p, Len(s) + 1, Len(p))
<1>1. Len(s) \in Nat /\ Len(p) \in Nat /\ Len(d) \in Nat /\ Len(s) <= Len(p)
  BY PathLen, PrefixIs
<1>2. /\ rest \in Path /\ Len(rest) = Len(p) - Len(s)
      /\ \A i \in 1 .. Len(p) - Len(s) : rest[i] = p[Len(s) + i]
  BY <1>1 DEF Path
<1> HIDE DEF rest
<1>3. /\ d \o rest \in Path /\ Len(d \o rest) = Len(d) + Len(rest)
      /\ \A i \in 1 .. Len(d) : (d \o rest)[i] = d[i]
      /\ \A i \in 1 .. Len(rest) : (d \o rest)[Len(d) + i] = rest[i]
  BY <1>2, ConcatIs
<1>4. Rebased(p, s, d) = d \o rest
  BY DEF Rebased, rest
<1>5. QED
  BY <1>2, <1>3, <1>4 DEF Joins

\* Prefixes are an order, in which the front of a path is next below it.
LEMMA PrefixOrder ==
    ASSUME NEW p \in Path, NEW q \in Path, NEW r \in Path
    PROVE  /\ IsPrefix(p, p) /\ IsPrefix(<<>>, p)
           /\ IsPrefix(p, q) /\ IsPrefix(q, r) => IsPrefix(p, r)
           /\ IsPrefix(p, q) /\ IsPrefix(q, p) => p = q
           /\ IsPrefix(p, <<>>) => p = <<>>
<1>1. <<>> \in Path /\ Len(<<>>) = 0
  BY DEF Path
<1>2. Len(p) \in Nat /\ Len(q) \in Nat /\ Len(r) \in Nat
  BY PathLen
<1>3. IsPrefix(p, p) /\ IsPrefix(<<>>, p)
  BY <1>1, <1>2, PrefixIs
<1>4. ASSUME IsPrefix(p, q), IsPrefix(q, r) PROVE IsPrefix(p, r)
  <2>1. /\ Len(p) <= Len(q) /\ \A i \in 1 .. Len(p) : p[i] = q[i]
        /\ Len(q) <= Len(r) /\ \A i \in 1 .. Len(q) : q[i] = r[i]
    BY <1>4, PrefixIs
  <2>2. Len(p) <= Len(r) /\ \A i \in 1 .. Len(p) : p[i] = r[i]
    BY <1>2, <2>1
  <2>3. QED
    BY <2>2, PrefixIs
<1>5. ASSUME IsPrefix(p, q), IsPrefix(q, p) PROVE p = q
  <2>1. Len(p) <= Len(q) /\ Len(q) <= Len(p) /\ \A i \in 1 .. Len(p) : p[i] = q[i]
    BY <1>5, PrefixIs
  <2>2. Len(p) = Len(q)
    BY <1>2, <2>1
  <2>3. QED
    BY <2>1, <2>2, SamePath
<1>6. IsPrefix(p, <<>>) => p = <<>>
  BY <1>1, <1>2, PathLen, PrefixIs
<1>7. QED
  BY <1>3, <1>4, <1>5, <1>6

LEMMA FrontIsBelow ==
    ASSUME NEW p \in Path, p # <<>>
    PROVE  /\ Front(p) \in Path /\ IsPrefix(Front(p), p) /\ ~IsPrefix(p, Front(p))
           /\ \A s \in Path : IsPrefix(s, p) => s = p \/ IsPrefix(s, Front(p))
<1>1. /\ Front(p) \in Path /\ Len(Front(p)) = Len(p) - 1
      /\ \A i \in 1 .. Len(p) - 1 : Front(p)[i] = p[i]
  BY FrontIs
<1>2. Len(p) \in Nat /\ Len(p) # 0
  BY PathLen
<1>3. IsPrefix(Front(p), p) /\ ~IsPrefix(p, Front(p))
  BY <1>1, <1>2, PrefixIs
<1>4. ASSUME NEW s \in Path, IsPrefix(s, p), s # p PROVE IsPrefix(s, Front(p))
  <2>1. Len(s) <= Len(p) /\ \A i \in 1 .. Len(s) : s[i] = p[i]
    BY <1>4, PrefixIs
  <2>2. Len(s) \in Nat /\ Len(s) # Len(p)
    BY <1>4, <2>1, PathLen, SamePath
  <2>3. Len(s) <= Len(p) - 1
    BY <1>2, <2>1, <2>2
  <2>4. Len(s) <= Len(Front(p)) /\ \A i \in 1 .. Len(s) : s[i] = Front(p)[i]
    BY <1>1, <1>2, <2>1, <2>2, <2>3
  <2>5. QED
    BY <1>1, <2>4, PrefixIs
<1>5. QED
  BY <1>1, <1>3, <1>4

\* What is below s comes to lie below d, and back.
LEMMA RebasedLies ==
    ASSUME NEW p \in Path, NEW s \in Path, NEW d \in Path, IsPrefix(s, p)
    PROVE  /\ Rebased(p, s, d) \in Path
           /\ IsPrefix(d, Rebased(p, s, d))
           /\ Rebased(Rebased(p, s, d), d, s) = p
           /\ Rebased(s, s, d) = d
           /\ p # s => Front(Rebased(p, s, d)) = Rebased(Front(p), s, d)
           /\ d # <<>> => Rebased(p, s, d) # <<>>
<1> DEFINE q == Rebased(p, s, d)
<1>1. /\ q \in Path /\ Len(q) = Len(d) + (Len(p) - Len(s))
      /\ \A i \in 1 .. Len(d) : q[i] = d[i]
      /\ \A i \in 1 .. Len(p) - Len(s) : q[Len(d) + i] = p[Len(s) + i]
  <2>1. Joins(q, p, s, d)
    BY RebasedIs
  <2>2. QED
    BY ONLY <2>1 DEF Joins
<1> HIDE DEF q
<1>2. /\ Len(p) \in Nat /\ Len(s) \in Nat /\ Len(d) \in Nat /\ Len(q) \in Nat
      /\ Len(s) <= Len(p) /\ Len(d) <= Len(q)
      /\ \A i \in 1 .. Len(s) : s[i] = p[i]
  BY <1>1, PathLen, PrefixIs
<1>3. IsPrefix(d, q)
  BY <1>1, <1>2, PrefixIs
<1>4. Rebased(q, d, s) = p
  <2> DEFINE b == Rebased(q, d, s)
  <2>1. /\ b \in Path /\ Len(b) = Len(s) + (Len(q) - Len(d))
        /\ \A i \in 1 .. Len(s) : b[i] = s[i]
        /\ \A i \in 1 .. Len(q) - Len(d) : b[Len(s) + i] = q[Len(d) + i]
    <3>1. Joins(b, q, d, s)
      BY <1>1, <1>3, RebasedIs
    <3>2. QED
      BY ONLY <3>1 DEF Joins
  <2> HIDE DEF b
  <2>2. Len(b) = Len(p) /\ Len(q) - Len(d) = Len(p) - Len(s)
    BY <1>1, <1>2, <2>1
  <2>3. ASSUME NEW i \in 1 .. Len(b) PROVE b[i] = p[i]
    <3>1. CASE i <= Len(s)
      BY <1>2, <2>1, <2>2, <3>1
    <3>2. CASE ~(i <= Len(s))
      <4>1. PICK j \in 1 .. Len(p) - Len(s) : i = Len(s) + j
        <5>1. i - Len(s) \in 1 .. Len(p) - Len(s) /\ i = Len(s) + (i - Len(s))
          BY <1>2, <2>2, <3>2
        <5>2. QED
          BY <5>1
      <4>2. b[Len(s) + j] = q[Len(d) + j] /\ q[Len(d) + j] = p[Len(s) + j]
        BY <1>1, <2>1, <2>2
      <4>3. QED
        BY <4>1, <4>2
    <3>3. QED
      BY <3>1, <3>2
  <2>4. QED
    BY <2>1, <2>2, <2>3, SamePath DEF b
<1>5. Rebased(s, s, d) = d
  <2>1. IsPrefix(s, s)
    BY PrefixOrder
  <2>2. /\ Rebased(s, s, d) \in Path /\ Len(Rebased(s, s, d)) = Len(d) + (Len(s) - Len(s))
        /\ \A i \in 1 .. Len(d) : Rebased(s, s, d)[i] = d[i]
    <3>1. Joins(Rebased(s, s, d), s, s, d)
      BY <2>1, RebasedIs
    <3>2. QED
      BY ONLY <3>1 DEF Joins
  <2>3. Len(Rebased(s, s, d)) = Len(d)
    BY <1>2, <2>2
  <2>4. QED
    BY <2>2, <2>3, SamePath
<1>6. ASSUME p # s PROVE Front(q) = Rebased(Front(p), s, d)
  <2>1. p # <<>>
    BY <1>6, PrefixOrder
  <2>2. IsPrefix(s, Front(p))
    BY <1>6, <2>1, FrontIsBelow
  <2>3. /\ Front(p) \in Path /\ Len(Front(p)) = Len(p) - 1
        /\ \A i \in 1 .. Len(p) - 1 : Front(p)[i] = p[i]
    BY <2>1, FrontIs
  <2>4. Len(s) <= Len(p) - 1
    BY <2>2, <2>3, PrefixIs
  <2>5. Len(q) = Len(d) + (Len(p) - Len(s)) /\ Len(q) # 0 /\ q # <<>>
    BY <1>1, <1>2, <2>4, PathLen
  <2>6. /\ Front(q) \in Path /\ Len(Front(q)) = Len(q) - 1
        /\ \A i \in 1 .. Len(q) - 1 : Front(q)[i] = q[i]
    BY <1>1, <2>5, FrontIs
  <2> DEFINE f == Rebased(Front(p), s, d)
  <2> HIDE DEF f
  <2>7. /\ f \in Path /\ Len(f) = Len(d) + (Len(Front(p)) - Len(s))
        /\ \A i \in 1 .. Len(d) : f[i] = d[i]
        /\ \A i \in 1 .. Len(Front(p)) - Len(s) : f[Len(d) + i] = Front(p)[Len(s) + i]
    <3>1. Joins(f, Front(p), s, d)
      BY <2>2, <2>3, RebasedIs DEF f
    <3>2. QED
      BY ONLY <3>1 DEF Joins
  <2>8. Len(f) = Len(Front(q)) /\ Len(f) = Len(q) - 1
    BY <1>2, <2>3, <2>5, <2>6, <2>7
  <2>9. ASSUME NEW i \in 1 .. Len(f) PROVE f[i] = Front(q)[i]
    <3>1. Front(q)[i] = q[i]
      BY <2>6, <2>8
    <3>2. CASE i <= Len(d)
      BY <1>1, <1>2, <2>7, <2>8, <3>1, <3>2
    <3>3. CASE ~(i <= Len(d))
      <4>1. PICK j \in 1 .. Len(Front(p)) - Len(s) : i = Len(d) + j
        <5>1. i - Len(d) \in 1 .. Len(Front(p)) - Len(s) /\ i = Len(d) + (i - Len(d))
          BY <1>2, <2>3, <2>7, <3>3
        <5>2. QED
          BY <5>1
      <4>2. Len(s) + j \in 1 .. Len(p) - 1 /\ j \in 1 .. Len(p) - Len(s)
        BY <1>2, <2>3
      <4>3. f[Len(d) + j] = Front(p)[Len(s) + j] /\ Front(p)[Len(s) + j] = p[Len(s) + j]
            /\ q[Len(d) + j] = p[Len(s) + j]
        BY <1>1, <2>3, <2>7, <4>2
      <4>4. QED
        BY <3>1, <4>1, <4>3
    <3>4. QED
      BY <3>2, <3>3
  <2>10. QED
    BY <2>6, <2>7, <2>8, <2>9, SamePath DEF f
<1>7. d # <<>> => q # <<>>
  BY <1>1, <1>2, PathLen
<1>8. QED
  BY <1>1, <1>3, <1>4, <1>5, <1>6, <1>7 DEF q

-------------------------------------------------------------------------------
(***************************************************************************)
(* Trees.                                                                  *)
(***************************************************************************)
LEMMA EntriesDiffer ==
    \A r, q : /\ Held(r) # Directory /\ Stored(r) # Directory /\ Held(r) # Stored(q)
              /\ Held(r) = Held(q) => r = q
              /\ Held(r).kind = "held" /\ Held(r).by = r
              /\ Stored(r).kind = "stored" /\ Directory.kind = "directory"
<1> SUFFICES ASSUME NEW r, NEW q
             PROVE  /\ Held(r) # Directory /\ Stored(r) # Directory /\ Held(r) # Stored(q)
                    /\ Held(r) = Held(q) => r = q
                    /\ Held(r).kind = "held" /\ Held(r).by = r
                    /\ Stored(r).kind = "stored" /\ Directory.kind = "directory"
  OBVIOUS
<1>1. /\ Held(r).kind = "held" /\ Held(r).by = r /\ Held(q).by = q
      /\ Stored(r).kind = "stored" /\ Stored(q).kind = "stored" /\ Directory.kind = "directory"
  BY DEF Held, Stored, Directory
<1>2. QED
  BY <1>1

IsDirIn(t, p) == p = <<>> \/ (p \in DOMAIN t /\ t[p] = Directory)

LEMMA IsDirHere == \A p : IsDir(p) <=> IsDirIn(tree, p)
BY DEF IsDir, IsDirIn, Exists

\* The entries of a tree, n requests into a behaviour.
Entry(n) == {Directory} \cup {Held(r) : r \in 1 .. n} \cup {Stored(r) : r \in 0 .. n}

\* What is above an entry is a directory.
LEMMA Ancestors ==
    ASSUME NEW E, NEW t, IsTree(t, E), NEW p, IsDirIn(t, p) \/ p \in DOMAIN t,
           NEW s \in Path, IsPrefix(s, p), s # p
    PROVE  IsDirIn(t, s)
<1> DEFINE Q == {n \in Nat : \A q \in DOMAIN t : Len(q) = n =>
                    \A a \in Path : IsPrefix(a, q) /\ a # q => IsDirIn(t, a)}
<1>0. /\ DOMAIN t \subseteq Path \ {<<>>}
      /\ \A q \in DOMAIN t : Front(q) # <<>> => Front(q) \in DOMAIN t /\ t[Front(q)] = Directory
  BY DEF IsTree, Path
<1>1. 0 \in Q
  BY <1>0, PathLen
<1>2. ASSUME NEW n \in Nat, n \in Q PROVE n + 1 \in Q
  <2> SUFFICES ASSUME NEW q \in DOMAIN t, Len(q) = n + 1,
                      NEW a \in Path, IsPrefix(a, q), a # q, a # <<>>
               PROVE  IsDirIn(t, a)
    BY DEF IsDirIn
  <2>1. q \in Path /\ q # <<>>
    BY <1>0
  <2>2. Front(q) \in Path /\ Len(Front(q)) = n /\ IsPrefix(a, Front(q))
    BY <2>1, FrontIs, FrontIsBelow
  <2>3. Front(q) # <<>>
    BY <2>2, PrefixOrder
  <2>4. Front(q) \in DOMAIN t /\ t[Front(q)] = Directory
    BY <1>0, <2>3
  <2>5. CASE a = Front(q)
    BY <2>4, <2>5 DEF IsDirIn
  <2>6. CASE a # Front(q)
    BY <1>2, <2>2, <2>4, <2>6
  <2>7. QED
    BY <2>5, <2>6
<1> HIDE DEF Q
<1>3. \A n \in Nat : n \in Q
  BY <1>1, <1>2, Upwards
<1>4. CASE p \in DOMAIN t
  <2>1. Len(p) \in Q
    BY <1>0, <1>3, <1>4, PathLen
  <2>2. QED
    BY <1>4, <2>1 DEF Q
<1>5. CASE p = <<>>
  BY <1>5, PrefixOrder
<1>6. QED
  BY <1>4, <1>5 DEF IsDirIn

\* Something new, or something over a file, in a directory.
LEMMA TreeWith ==
    ASSUME NEW E, IsTree(tree, E), NEW p \in Path, p # <<>>, NEW e \in E,
           IsDir(Front(p)), ~IsDir(p)
    PROVE  /\ IsTree(With(p, e), E)
           /\ DOMAIN With(p, e) = DOMAIN tree \cup {p}
           /\ \A q \in DOMAIN tree \cup {p} : With(p, e)[q] = IF q = p THEN e ELSE tree[q]
           /\ \A q : IsDir(q) => IsDirIn(With(p, e), q)
<1> DEFINE new == With(p, e)
<1>1. /\ DOMAIN new = DOMAIN tree \cup {p}
      /\ \A q \in DOMAIN tree \cup {p} : new[q] = IF q = p THEN e ELSE tree[q]
      /\ new = [q \in DOMAIN new |-> new[q]]
  BY DEF With, Over
<1> HIDE DEF new
<1>2. /\ \A q \in DOMAIN tree : tree[q] \in E
      /\ DOMAIN tree \subseteq Path \ {<<>>}
      /\ \A q \in DOMAIN tree : Front(q) # <<>> => Front(q) \in DOMAIN tree /\ tree[Front(q)] = Directory
  BY DEF IsTree, Path
<1>3. \A q : IsDir(q) => IsDirIn(new, q)
  BY <1>1 DEF IsDir, IsDirIn, Exists
<1>4. new \in [DOMAIN new -> E]
  BY <1>1, <1>2
<1>5. ASSUME NEW q \in DOMAIN new, Front(q) # <<>>
      PROVE  Front(q) \in DOMAIN new /\ new[Front(q)] = Directory
  <2>1. IsDir(Front(q))
    BY <1>1, <1>2, <1>5 DEF IsDir, Exists
  <2>2. QED
    BY <1>3, <1>5, <2>1 DEF IsDirIn
<1>6. IsTree(new, E)
  BY <1>1, <1>2, <1>4, <1>5 DEF IsTree, Path
<1>7. QED
  BY <1>1, <1>3, <1>6 DEF new

\* What is taken away takes with it what lay in it.
LEMMA TreeMinus ==
    ASSUME NEW E, IsTree(tree, E), NEW S,
           \A p \in DOMAIN tree \ S : Front(p) \notin S
    PROVE  /\ IsTree(Minus(S), E)
           /\ DOMAIN Minus(S) = DOMAIN tree \ S
           /\ \A q \in DOMAIN tree \ S : Minus(S)[q] = tree[q]
           /\ \A q : IsDir(q) /\ q \notin S => IsDirIn(Minus(S), q)
<1> DEFINE new == Minus(S)
<1>1. /\ DOMAIN new = DOMAIN tree \ S
      /\ \A q \in DOMAIN tree \ S : new[q] = tree[q]
      /\ new = [q \in DOMAIN new |-> new[q]]
  BY DEF Minus, Restrict
<1> HIDE DEF new
<1>2. /\ \A q \in DOMAIN tree : tree[q] \in E
      /\ DOMAIN tree \subseteq Path \ {<<>>}
      /\ \A q \in DOMAIN tree : Front(q) # <<>> => Front(q) \in DOMAIN tree /\ tree[Front(q)] = Directory
  BY DEF IsTree, Path
<1>3. \A q : IsDir(q) /\ q \notin S => IsDirIn(new, q)
  BY <1>1 DEF IsDir, IsDirIn, Exists
<1>4. new \in [DOMAIN new -> E]
  BY <1>1, <1>2
<1>5. IsTree(new, E)
  BY <1>1, <1>2, <1>4 DEF IsTree, Path
<1>6. QED
  BY <1>1, <1>3, <1>5 DEF new

\* Entries S of the tree, with what is above them up to s, come to lie below d,
\* no file in the place of a directory, and the rest of the tree is K.
LEMMA TreeGraft ==
    ASSUME NEW E, IsTree(tree, E),
           NEW s \in Path, s # <<>>, NEW d \in Path, d # <<>>,
           NEW S, S \subseteq DOMAIN tree,
           \A q \in S : IsPrefix(s, q) /\ (q # s => Front(q) = s \/ Front(q) \in S),
           NEW K, IsTree(K, E), DOMAIN K \subseteq DOMAIN tree, \A q \in DOMAIN K : K[q] = tree[q],
           s \in S => IsDirIn(K, Front(d)),
           s \notin S => IsDirIn(K, d),
           \A q \in S : IsDirIn(K, Rebased(q, s, d)) => tree[q] = Directory
    PROVE  /\ IsTree(Over(Graft(S, s, d), K), E)
           /\ \A q : IsDirIn(K, q) => IsDirIn(Over(Graft(S, s, d), K), q)
           /\ \A q \in S : tree[q] = Directory => IsDirIn(Over(Graft(S, s, d), K), Rebased(q, s, d))
           /\ \A p \in DOMAIN Over(Graft(S, s, d), K) : \E q \in DOMAIN tree :
                 Over(Graft(S, s, d), K)[p] = tree[q]
           /\ DOMAIN K \subseteq DOMAIN Over(Graft(S, s, d), K)
<1> DEFINE moved == {Rebased(q, s, d) : q \in S}
           graft == Graft(S, s, d)
           new == Over(graft, K)
<1>0. /\ DOMAIN tree \subseteq Path \ {<<>>} /\ DOMAIN K \subseteq Path \ {<<>>}
      /\ \A q \in DOMAIN tree : tree[q] \in E
      /\ \A q \in DOMAIN tree : Front(q) # <<>> => Front(q) \in DOMAIN tree /\ tree[Front(q)] = Directory
      /\ \A q \in DOMAIN K : Front(q) # <<>> => Front(q) \in DOMAIN K /\ K[Front(q)] = Directory
  BY DEF IsTree, Path
<1>1. \A q \in S : /\ q \in Path /\ Rebased(q, s, d) \in Path /\ Rebased(q, s, d) # <<>>
                   /\ Rebased(Rebased(q, s, d), d, s) = q
                   /\ q # s => Front(Rebased(q, s, d)) = Rebased(Front(q), s, d)
  BY <1>0, RebasedLies
<1>2. Rebased(s, s, d) = d
  BY PrefixOrder, RebasedLies
<1>3. DOMAIN graft = moved /\ \A q \in S : graft[Rebased(q, s, d)] = tree[q]
  BY <1>1 DEF Graft
<1> HIDE DEF graft
<1>4. /\ DOMAIN new = moved \cup DOMAIN K
      /\ \A q \in S : new[Rebased(q, s, d)] = tree[q]
      /\ \A p \in DOMAIN K \ moved : new[p] = K[p]
      /\ new = [p \in DOMAIN new |-> new[p]]
  BY <1>3 DEF Over
<1> HIDE DEF new
<1>5. \A q : IsDirIn(K, q) => IsDirIn(new, q)
  BY <1>4 DEF IsDirIn
<1>6. \A q \in S : tree[q] = Directory => IsDirIn(new, Rebased(q, s, d))
  BY <1>4 DEF IsDirIn
<1>7. ASSUME NEW p \in DOMAIN new PROVE \E q \in DOMAIN tree : new[p] = tree[q]
  BY <1>4
<1>8. new \in [DOMAIN new -> E]
  BY <1>0, <1>4, <1>7
<1>9. ASSUME NEW p \in DOMAIN new, Front(p) # <<>>
      PROVE  Front(p) \in DOMAIN new /\ new[Front(p)] = Directory
  <2>1. CASE p \in moved
    <3>1. PICK q \in S : p = Rebased(q, s, d)
      BY <2>1
    <3>2. CASE q = s
      <4>1. IsDirIn(new, Front(p))
        BY <1>2, <1>5, <3>1, <3>2
      <4>2. QED
        BY <1>9, <4>1 DEF IsDirIn
    <3>3. CASE q # s
      <4>1. Front(p) = Rebased(Front(q), s, d)
        BY <1>1, <3>1, <3>3
      <4>2. q \in Path /\ q # <<>> /\ q \in DOMAIN tree
        BY <1>0
      <4>3. IsPrefix(s, Front(q)) /\ Front(q) # <<>>
        BY <3>3, <4>2, FrontIsBelow, PrefixOrder
      <4>4. tree[Front(q)] = Directory
        BY <1>0, <4>2, <4>3
      <4>5. CASE Front(q) \in S
        <5>1. IsDirIn(new, Rebased(Front(q), s, d))
          BY <1>6, <4>4, <4>5
        <5>2. QED
          BY <1>9, <4>1, <5>1 DEF IsDirIn
      <4>6. CASE Front(q) \notin S
        <5>1. Front(q) = s /\ s \notin S
          BY <3>3, <4>6
        <5>2. IsDirIn(new, d) /\ Front(p) = d
          BY <1>2, <1>5, <4>1, <5>1
        <5>3. QED
          BY <1>9, <5>2 DEF IsDirIn
      <4>7. QED
        BY <4>5, <4>6
    <3>4. QED
      BY <3>2, <3>3
  <2>2. CASE p \notin moved
    <3>1. p \in DOMAIN K
      BY <1>4, <2>2
    <3>2. IsDirIn(K, Front(p))
      BY <1>0, <1>9, <3>1 DEF IsDirIn
    <3>3. QED
      BY <1>5, <1>9, <3>2 DEF IsDirIn
  <2>3. QED
    BY <2>1, <2>2
<1>10. DOMAIN new \subseteq Seq(Names) \ {<<>>}
  BY <1>0, <1>1, <1>4 DEF Path
<1>11. IsTree(new, E)
  BY <1>8, <1>9, <1>10 DEF IsTree
<1>12. QED
  BY <1>4, <1>5, <1>6, <1>7, <1>11 DEF new, graft

-------------------------------------------------------------------------------
(***************************************************************************)
(* What a Workspace keeps from step to step.                               *)
(***************************************************************************)
RequestRow ==
    [op : {"done", "upload", "move", "copy", "delete"}, src : Path, dst : Path,
     step : {"done", "checked", "receiving", "listed"},
     listed : SUBSET Path, hidden : SUBSET [dir : Path, upload : Nat]]

\* What a copy has listed lies below its source, with what is above it.
Closed(x) ==
    /\ \A p \in x.listed : IsPrefix(x.src, p) /\ p # x.src
                           /\ (Front(p) = x.src \/ Front(p) \in x.listed)
    /\ \A y \in x.hidden : IsPrefix(x.src, y.dir) /\ (y.dir = x.src \/ y.dir \in x.listed)

Requests ==
    {x \in RequestRow :
        /\ x.op # "done" => x.dst # <<>>
        /\ x.op \in {"move", "copy"} => x.src # <<>>
        /\ x.op = "copy" /\ x.step = "listed" => Closed(x)}

\* Where the reservation and the part of upload q, whose request is x, should be.
Expected(x, q) ==
    IF x.op = "upload" /\ x.step = "receiving"
    THEN <<{x.dst}, {[dir |-> Front(x.dst), upload |-> q]}>> ELSE <<{}, {}>>

PartsLie(t, ps, n) == \A x \in ps : x \in [dir : Path, upload : 1 .. n] /\ IsDirIn(t, x.dir)

TreeInv ==
    /\ request \in Seq(Requests)
    /\ IsTree(tree, Entry(Len(request)))
    /\ PartsLie(tree, parts, Len(request))
    /\ disturbed \subseteq DOMAIN request
    /\ \A q \in DOMAIN request \ disturbed : Places(tree, parts, q) = Expected(request[q], q)

\* The action of UploadsOverwriteNothing.
Overwriting ==
    \A p \in DOMAIN tree : tree[p].kind = "stored" /\ ~(p \in DOMAIN tree' /\ tree'[p] = tree[p]) =>
        \E r \in DOMAIN request :
            /\ request'[r] = Done /\ request[r] # Done
            /\ request[r].op = "upload" => r \in disturbed

Revised(r, x) == request' = [request EXCEPT ![r] = x]
Added(x) == request' = Append(request, x)

LEMMA RequestsAre ==
    ASSUME TreeInv, NEW r \in DOMAIN request
    PROVE  /\ request[r] \in Requests /\ request[r].dst \in Path
           /\ Len(request) \in Nat /\ DOMAIN request = 1 .. Len(request)
           /\ request[r].op # "done" => request[r].dst \in Path \ {<<>>}
           /\ request[r].op \in {"move", "copy"} => request[r].src \in Path \ {<<>>}
           /\ request[r].op # "done" => request[r] # Done
<1>1. request[r] \in Requests /\ Len(request) \in Nat /\ DOMAIN request = 1 .. Len(request)
  BY DEF TreeInv
<1>2. /\ request[r].src \in Path /\ request[r].dst \in Path
      /\ request[r].op # "done" => request[r].dst # <<>>
      /\ request[r].op \in {"move", "copy"} => request[r].src # <<>>
  BY <1>1 DEF Requests, RequestRow
<1>3. Done.op = "done"
  BY DEF Done
<1>4. QED
  BY <1>1, <1>2, <1>3

LEMMA DoneIs == /\ Done \in Requests
                /\ \A q : Expected(Done, q) = <<{}, {}>>
<1>1. <<>> \in Path
  BY DEF Path
<1>2. Done \in RequestRow /\ Done.op = "done"
  BY <1>1 DEF Done, RequestRow
<1>3. QED
  BY <1>2 DEF Requests, Expected

LEMMA RevisedIs ==
    ASSUME TreeInv, NEW r \in DOMAIN request, NEW x \in Requests, Revised(r, x)
    PROVE  /\ request' \in Seq(Requests) /\ Len(request') = Len(request)
           /\ DOMAIN request' = DOMAIN request /\ request'[r] = x
           /\ \A q \in DOMAIN request \ {r} : request'[q] = request[q]
BY DEF TreeInv, Revised

LEMMA AddedIs ==
    ASSUME TreeInv, NEW x \in Requests, Added(x)
    PROVE  /\ request' \in Seq(Requests) /\ Len(request') = Len(request) + 1
           /\ DOMAIN request' = DOMAIN request \cup {Len(request) + 1}
           /\ request'[Len(request) + 1] = x
           /\ \A q \in DOMAIN request : request'[q] = request[q]
BY DEF TreeInv, Added

\* A step of request r, which puts its own reservation and part where they
\* should be, leaves those of the others alone or counts them as disturbed.
LEMMA Settles ==
    ASSUME TreeInv, NEW r \in DOMAIN request, NEW x \in Requests, Revised(r, x), Disturbs(r),
           IsTree(tree', Entry(Len(request))), PartsLie(tree', parts', Len(request)),
           r \notin disturbed => Places(tree', parts', r) = Expected(x, r)
    PROVE  TreeInv'
<1>1. /\ request' \in Seq(Requests) /\ Len(request') = Len(request)
      /\ DOMAIN request' = DOMAIN request /\ request'[r] = x
      /\ \A q \in DOMAIN request \ {r} : request'[q] = request[q]
  BY RevisedIs
<1>2. disturbed' \subseteq DOMAIN request' /\ disturbed \subseteq disturbed'
  BY <1>1 DEF TreeInv, Disturbs
<1>3. ASSUME NEW q \in DOMAIN request' \ disturbed'
      PROVE  Places(tree, parts, q)' = Expected(request'[q], q)
  <2>1. CASE q = r
    BY <1>1, <1>2, <1>3, <2>1 DEF Places
  <2>2. CASE q # r
    <3>1. Places(tree', parts', q) = Places(tree, parts, q)
      BY <1>1, <1>3, <2>2 DEF Disturbs
    <3>2. Places(tree, parts, q) = Expected(request[q], q) /\ request'[q] = request[q]
      BY <1>1, <1>2, <1>3, <2>2 DEF TreeInv
    <3>3. QED
      BY <3>1, <3>2 DEF Places
  <2>3. QED
    BY <2>1, <2>2
<1>4. QED
  BY <1>1, <1>2, <1>3 DEF TreeInv

\* A step that touches no reservation and no part.
LEMMA Alongside ==
    ASSUME TreeInv, NEW r \in DOMAIN request, NEW x \in Requests, Revised(r, x),
           Expected(x, r) = Expected(request[r], r),
           IsTree(tree', Entry(Len(request))), PartsLie(tree', parts', Len(request)),
           disturbed' = disturbed,
           \A q \in DOMAIN request : Places(tree', parts', q) = Places(tree, parts, q)
    PROVE  TreeInv'
<1>1. /\ request' \in Seq(Requests) /\ Len(request') = Len(request)
      /\ DOMAIN request' = DOMAIN request /\ request'[r] = x
      /\ \A q \in DOMAIN request \ {r} : request'[q] = request[q]
  BY RevisedIs
<1>2. ASSUME NEW q \in DOMAIN request' \ disturbed'
      PROVE  Places(tree, parts, q)' = Expected(request'[q], q)
  <2>1. Places(tree', parts', q) = Expected(request[q], q)
    BY <1>1, <1>2 DEF TreeInv
  <2>2. Expected(request'[q], q) = Expected(request[q], q)
    BY <1>1, <1>2
  <2>3. QED
    BY <2>1, <2>2 DEF Places
<1>3. QED
  BY <1>1, <1>2 DEF TreeInv

LEMMA MoreEntries ==
    ASSUME NEW n \in Nat, NEW t, IsTree(t, Entry(n))
    PROVE  IsTree(t, Entry(n + 1))
<1>1. Entry(n) \subseteq Entry(n + 1)
  BY DEF Entry
<1>2. QED
  BY <1>1 DEF IsTree

\* A request that comes in finds nothing of its own.
LEMMA Arrives ==
    ASSUME TreeInv, NEW x \in Requests, Added(x), x.step # "receiving",
           IsTree(tree', Entry(Len(request))), PartsLie(tree', parts', Len(request)),
           disturbed' = disturbed,
           \A q \in DOMAIN request : Places(tree', parts', q) = Places(tree, parts, q)
    PROVE  TreeInv'
<1> DEFINE n == Len(request)
<1>1. /\ request' \in Seq(Requests) /\ Len(request') = n + 1
      /\ DOMAIN request' = DOMAIN request \cup {n + 1}
      /\ request'[n + 1] = x
      /\ \A q \in DOMAIN request : request'[q] = request[q]
  BY AddedIs
<1>2. n \in Nat /\ DOMAIN request = 1 .. n
  BY DEF TreeInv
<1> HIDE DEF n
<1>3. IsTree(tree', Entry(n + 1))
  BY <1>2, MoreEntries DEF n
<1>4. PartsLie(tree', parts', n + 1)
  BY <1>2 DEF PartsLie, n
<1>5. Places(tree', parts', n + 1) = <<{}, {}>>
  <2>1. \A p \in DOMAIN tree' : tree'[p] \in Entry(n)
    BY DEF IsTree, n
  <2>2. ASSUME NEW p \in DOMAIN tree', tree'[p] = Held(n + 1) PROVE FALSE
    <3>1. CASE tree'[p] = Directory
      BY <2>2, <3>1, EntriesDiffer
    <3>2. CASE \E r \in 1 .. n : tree'[p] = Held(r)
      <4>1. PICK r \in 1 .. n : tree'[p] = Held(r)
        BY <3>2
      <4>2. r = n + 1
        BY <2>2, <4>1, EntriesDiffer
      <4>3. QED
        BY <1>2, <4>2
    <3>3. CASE \E r \in 0 .. n : tree'[p] = Stored(r)
      BY <2>2, <3>3, EntriesDiffer
    <3>4. QED
      BY <2>1, <3>1, <3>2, <3>3 DEF Entry
  <2>3. \A y \in parts' : y.upload # n + 1
    BY <1>2 DEF PartsLie, n
  <2>4. QED
    BY <2>2, <2>3 DEF Places
<1>6. ASSUME NEW q \in DOMAIN request' \ disturbed'
      PROVE  Places(tree, parts, q)' = Expected(request'[q], q)
  <2>1. CASE q = n + 1
    <3>1. Expected(x, q) = <<{}, {}>>
      BY DEF Expected
    <3>2. QED
      BY <1>1, <1>5, <2>1, <3>1 DEF Places
  <2>2. CASE q # n + 1
    <3>1. Places(tree', parts', q) = Expected(request[q], q) /\ request'[q] = request[q]
      BY <1>1, <1>6, <2>2 DEF TreeInv
    <3>2. QED
      BY <3>1 DEF Places
  <2>3. QED
    BY <2>1, <2>2
<1>7. disturbed' \subseteq DOMAIN request'
  BY <1>1 DEF TreeInv
<1>8. QED
  BY <1>1, <1>3, <1>4, <1>6, <1>7 DEF TreeInv

LEMMA NothingIsOverwritten ==
    ASSUME \A p \in DOMAIN tree : p \in DOMAIN tree' /\ tree'[p] = tree[p]
    PROVE  Overwriting
BY DEF Overwriting

\* The last step of a move, a copy or a deletion, which invents no entry.
LEMMA Answers ==
    ASSUME TreeInv, NEW r \in DOMAIN request, request[r].op \in {"move", "copy", "delete"},
           Answered(r), Disturbs(r),
           IsTree(tree', Entry(Len(request))), PartsLie(tree', parts', Len(request)),
           \A p \in DOMAIN tree' : \E q \in DOMAIN tree : tree'[p] = tree[q],
           \A x \in parts' : \E y \in parts : x.upload = y.upload
    PROVE  TreeInv' /\ Overwriting
<1>1. Revised(r, Done)
  BY DEF Answered, Revised
<1>2. Done \in Requests /\ Expected(Done, r) = <<{}, {}>>
  BY DoneIs
<1>3. ASSUME r \notin disturbed PROVE Places(tree', parts', r) = <<{}, {}>>
  <2>1. Places(tree, parts, r) = <<{}, {}>>
    BY <1>3 DEF TreeInv, Expected
  <2>2. /\ \A q \in DOMAIN tree : tree[q] # Held(r)
        /\ \A y \in parts : y.upload # r
    BY <2>1 DEF Places
  <2>3. QED
    BY <2>2 DEF Places
<1>4. TreeInv'
  BY <1>1, <1>2, <1>3, Settles
<1>5. request'[r] = Done
  BY <1>1, <1>2, RevisedIs
<1>6. request[r] # Done /\ request[r].op # "upload"
  BY RequestsAre
<1>7. QED
  BY <1>4, <1>5, <1>6 DEF Overwriting

LEMMA UnchangedParts ==
    ASSUME TreeInv, \A q : IsDir(q) => IsDirIn(tree', q), parts' \subseteq parts
    PROVE  PartsLie(tree', parts', Len(request))
<1>1. \A q : IsDirIn(tree, q) => IsDirIn(tree', q)
  BY IsDirHere
<1>2. QED
  BY <1>1 DEF TreeInv, PartsLie

LEMMA TreeHere == TreeInv => /\ IsTree(tree, Entry(Len(request))) /\ Directory \in Entry(Len(request))
                             /\ DOMAIN tree \subseteq Path \ {<<>>}
                             /\ \A x \in parts : x.dir \in Path /\ IsDir(x.dir)
                             /\ \A p \in DOMAIN tree : IsDir(Front(p)) /\ tree[p] \in Entry(Len(request))
<1> SUFFICES ASSUME TreeInv
             PROVE  /\ IsTree(tree, Entry(Len(request))) /\ Directory \in Entry(Len(request))
                    /\ DOMAIN tree \subseteq Path \ {<<>>}
                    /\ \A x \in parts : x.dir \in Path /\ IsDir(x.dir)
                    /\ \A p \in DOMAIN tree : IsDir(Front(p)) /\ tree[p] \in Entry(Len(request))
  OBVIOUS
<1>1. IsTree(tree, Entry(Len(request))) /\ Directory \in Entry(Len(request))
  BY DEF TreeInv, Entry
<1>2. DOMAIN tree \subseteq Path \ {<<>>}
  BY <1>1 DEF IsTree, Path
<1>3. \A x \in parts : x.dir \in Path /\ IsDir(x.dir)
  BY IsDirHere DEF TreeInv, PartsLie
<1>4. \A p \in DOMAIN tree : IsDir(Front(p)) /\ tree[p] \in Entry(Len(request))
  BY <1>1 DEF IsTree, IsDir, Exists
<1>5. QED
  BY <1>1, <1>2, <1>3, <1>4

-------------------------------------------------------------------------------
(***************************************************************************)
(* Uploads.                                                                *)
(***************************************************************************)
LEMMA ReserveStep ==
    ASSUME TreeInv, NEW r \in DOMAIN request, Reserve(r)
    PROVE  TreeInv' /\ Overwriting
<1> DEFINE p == request[r].dst
           n == Len(request)
<1>1. request[r].op = "upload" /\ request[r].step = "checked" /\ request[r] \in Requests
  BY RequestsAre DEF Reserve, At
<1>2. p \in Path /\ p # <<>> /\ r \in 1 .. n /\ n \in Nat
  BY <1>1, RequestsAre
<1>3. IsTree(tree, Entry(n)) /\ Held(r) \in Entry(n)
  BY <1>2, TreeHere DEF Entry
<1>4. Expected(request[r], r) = <<{}, {}>>
  BY <1>1 DEF Expected
<1>5. CASE IsDir(Front(p)) /\ ~Exists(p)
  <2> DEFINE x == [request[r] EXCEPT !.step = "receiving"]
             new == With(p, Held(r))
  <2>1. tree' = new /\ parts' = parts \cup {PartOf(r)} /\ Disturbs(r) /\ Revised(r, x)
    BY <1>5 DEF Reserve, Becoming, Revised
  <2>2. x \in Requests /\ x.op = "upload" /\ x.step = "receiving" /\ x.dst = p
    BY <1>1 DEF Requests, RequestRow
  <2> HIDE DEF x, p, n, new
  <2>3. ~IsDir(p)
    BY <1>2, <1>5 DEF IsDir
  <2>4. /\ IsTree(new, Entry(n))
        /\ DOMAIN new = DOMAIN tree \cup {p}
        /\ \A q \in DOMAIN tree \cup {p} : new[q] = IF q = p THEN Held(r) ELSE tree[q]
        /\ \A q : IsDir(q) => IsDirIn(new, q)
    BY <1>2, <1>3, <1>5, <2>3, TreeWith DEF new
  <2>5. PartOf(r) = [dir |-> Front(p), upload |-> r]
    BY DEF PartOf, p
  <2>6. PartsLie(tree', parts', n)
    <3>1. \A y \in parts : y \in [dir : Path, upload : 1 .. n] /\ IsDirIn(new, y.dir)
      BY <2>4, IsDirHere DEF TreeInv, PartsLie, n
    <3>2. Front(p) \in Path /\ IsDirIn(new, Front(p))
      BY <1>2, <1>5, <2>4, FrontIs
    <3>3. QED
      BY <1>2, <2>1, <2>5, <3>1, <3>2 DEF PartsLie
  <2>7. ASSUME r \notin disturbed PROVE Places(tree', parts', r) = Expected(x, r)
    <3>1. Places(tree, parts, r) = <<{}, {}>>
      BY <1>4, <2>7 DEF TreeInv
    <3>2. /\ \A q \in DOMAIN tree : tree[q] # Held(r)
          /\ \A y \in parts : y.upload # r
      BY <3>1 DEF Places
    <3>3. {q \in DOMAIN new : new[q] = Held(r)} = {p}
      BY <2>4, <3>2
    <3>4. {y \in parts \cup {PartOf(r)} : y.upload = r} = {[dir |-> Front(p), upload |-> r]}
      BY <2>5, <3>2
    <3>5. QED
      BY <2>1, <2>2, <3>3, <3>4 DEF Places, Expected
  <2>8. TreeInv'
    BY <2>1, <2>2, <2>4, <2>6, <2>7, Settles DEF n
  <2>9. Overwriting
    BY <1>5, <2>1, <2>4, NothingIsOverwritten DEF Exists
  <2>10. QED
    BY <2>8, <2>9
<1>6. CASE ~(IsDir(Front(p)) /\ ~Exists(p))
  <2>1. Answered(r) /\ tree' = tree /\ parts' = parts /\ disturbed' = disturbed
    BY <1>6 DEF Reserve
  <2>2. Revised(r, Done) /\ Done \in Requests /\ Expected(Done, r) = <<{}, {}>>
    BY <2>1, DoneIs DEF Answered, Revised
  <2>3. PartsLie(tree', parts', n)
    BY <2>1 DEF TreeInv
  <2>4. TreeInv'
    BY <1>3, <1>4, <2>1, <2>2, <2>3, Alongside
  <2>5. QED
    BY <2>1, <2>4, NothingIsOverwritten
<1>7. QED
  BY <1>5, <1>6

\* The last step of an upload: nothing of it is left half-way, and no file but
\* its reservation is gone.
LEMMA UploadAnswers ==
    ASSUME TreeInv, NEW r \in DOMAIN request, At(r, "upload", "receiving"),
           Answered(r), Disturbs(r), parts' = parts \ {PartOf(r)},
           IsTree(tree', Entry(Len(request))),
           \A q : IsDir(q) => IsDirIn(tree', q),
           \A p \in DOMAIN tree : IsDir(p) \/ p # request[r].dst
                => p \in DOMAIN tree' /\ tree'[p] = tree[p],
           \A p \in DOMAIN tree' : \/ tree'[p] = Stored(r)
                                   \/ p \in DOMAIN tree /\ tree'[p] = tree[p]
                                      /\ (p # request[r].dst \/ IsDir(p))
    PROVE  TreeInv' /\ Overwriting
<1> DEFINE d == request[r].dst
<1>1. Revised(r, Done) /\ Done \in Requests /\ Expected(Done, r) = <<{}, {}>>
  BY DoneIs DEF Answered, Revised
<1>2. PartsLie(tree', parts', Len(request))
  BY UnchangedParts
<1>3. ASSUME r \notin disturbed
      PROVE  /\ {p \in DOMAIN tree : tree[p] = Held(r)} = {d}
             /\ {y \in parts : y.upload = r} = {PartOf(r)}
  <2>1. Expected(request[r], r) = <<{d}, {PartOf(r)}>>
    BY DEF Expected, At, PartOf
  <2>2. Places(tree, parts, r) = <<{d}, {PartOf(r)}>>
    BY <1>3, <2>1 DEF TreeInv
  <2>3. QED
    BY <2>2 DEF Places
<1>4. ASSUME r \notin disturbed PROVE Places(tree', parts', r) = <<{}, {}>>
  <2>1. ASSUME NEW p \in DOMAIN tree', tree'[p] = Held(r) PROVE FALSE
    <3>1. tree'[p] # Stored(r) /\ tree'[p] # Directory
      BY <2>1, EntriesDiffer
    <3>2. p \in DOMAIN tree /\ tree[p] = Held(r) /\ (p # d \/ IsDir(p))
      BY <2>1, <3>1
    <3>3. p = d
      BY <1>3, <1>4, <3>2
    <3>4. tree[p] = Directory
      BY <3>2, <3>3, TreeHere DEF IsDir
    <3>5. QED
      BY <3>2, <3>4, EntriesDiffer
  <2>2. \A y \in parts' : y.upload # r
    BY <1>3, <1>4
  <2>3. QED
    BY <2>1, <2>2 DEF Places
<1>5. TreeInv'
  BY <1>1, <1>2, <1>4, Settles
<1>6. request'[r] = Done
  BY <1>1, RevisedIs
<1>7. request[r] # Done
  BY RequestsAre DEF At
<1>8. ASSUME NEW p \in DOMAIN tree, tree[p].kind = "stored",
             ~(p \in DOMAIN tree' /\ tree'[p] = tree[p]), r \notin disturbed
      PROVE  FALSE
  <2>1. p = d
    BY <1>8
  <2>2. tree[p] = Held(r)
    BY <1>3, <1>8, <2>1
  <2>3. QED
    BY <1>8, <2>2, EntriesDiffer
<1>9. Overwriting
  BY <1>6, <1>7, <1>8 DEF Overwriting
<1>10. QED
  BY <1>5, <1>9

LEMMA PromoteStep ==
    ASSUME TreeInv, NEW r \in DOMAIN request, Promote(r)
    PROVE  TreeInv' /\ Overwriting
<1> DEFINE d == request[r].dst
           n == Len(request)
           new == With(d, Stored(r))
<1>1. At(r, "upload", "receiving") /\ ~IsDir(d) /\ Answered(r) /\ Disturbs(r)
      /\ PartOf(r) \in parts /\ tree' = new /\ parts' = parts \ {PartOf(r)}
  BY DEF Promote, Becoming
<1>2. d \in Path /\ d # <<>> /\ r \in 1 .. n /\ n \in Nat
  BY <1>1, RequestsAre DEF At
<1>3. IsTree(tree, Entry(n)) /\ Stored(r) \in Entry(n)
  BY <1>2, TreeHere DEF Entry
<1>4. IsDir(Front(d))
  BY <1>1, TreeHere DEF PartOf
<1> HIDE DEF d, n, new
<1>5. /\ IsTree(new, Entry(n))
      /\ DOMAIN new = DOMAIN tree \cup {d}
      /\ \A q \in DOMAIN tree \cup {d} : new[q] = IF q = d THEN Stored(r) ELSE tree[q]
      /\ \A q : IsDir(q) => IsDirIn(new, q)
  BY <1>1, <1>2, <1>3, <1>4, TreeWith DEF new
<1>6. \A p \in DOMAIN tree : IsDir(p) \/ p # d => p \in DOMAIN tree' /\ tree'[p] = tree[p]
  BY <1>1, <1>5
<1>7. \A p \in DOMAIN tree' : \/ tree'[p] = Stored(r)
                              \/ p \in DOMAIN tree /\ tree'[p] = tree[p] /\ (p # d \/ IsDir(p))
  BY <1>1, <1>5
<1>8. QED
  BY <1>1, <1>5, <1>6, <1>7, UploadAnswers DEF d, n

LEMMA AbandonStep ==
    ASSUME TreeInv, NEW r \in DOMAIN request, Abandon(r)
    PROVE  TreeInv' /\ Overwriting
<1> DEFINE d == request[r].dst
           S == {d} \ {p \in DOMAIN tree : IsDir(p)}
           new == Minus(S)
<1>1. At(r, "upload", "receiving") /\ Answered(r) /\ Disturbs(r)
      /\ tree' = new /\ parts' = parts \ {PartOf(r)}
  BY DEF Abandon, Becoming
<1>2. d # <<>>
  BY <1>1, RequestsAre DEF At
<1>3. \A q : IsDir(q) => q \notin S
  BY <1>2 DEF IsDir, Exists
<1>4. \A p \in DOMAIN tree \ S : Front(p) \notin S
  BY <1>3, TreeHere
<1> HIDE DEF d, S, new
<1>5. /\ IsTree(new, Entry(Len(request)))
      /\ DOMAIN new = DOMAIN tree \ S
      /\ \A q \in DOMAIN tree \ S : new[q] = tree[q]
      /\ \A q : IsDir(q) /\ q \notin S => IsDirIn(new, q)
  BY <1>4, TreeHere, TreeMinus DEF new
<1>6. \A p \in DOMAIN tree : IsDir(p) \/ p # d => p \in DOMAIN tree' /\ tree'[p] = tree[p]
  BY <1>1, <1>5 DEF S
<1>7. \A p \in DOMAIN tree' : p \in DOMAIN tree /\ tree'[p] = tree[p] /\ (p # d \/ IsDir(p))
  BY <1>1, <1>5 DEF S
<1>8. \A q : IsDir(q) => IsDirIn(tree', q)
  BY <1>1, <1>3, <1>5
<1>9. QED
  BY <1>1, <1>5, <1>6, <1>7, <1>8, UploadAnswers DEF d

-------------------------------------------------------------------------------
(***************************************************************************)
(* Requests that come in, and directories made.                            *)
(***************************************************************************)
LEMMA AskStep ==
    ASSUME TreeInv, NEW op \in {"upload", "move", "copy", "delete"},
           NEW s \in Path, NEW d \in Path, d # <<>>, op \in {"move", "copy"} => s # <<>>,
           Ask(op, s, d)
    PROVE  TreeInv' /\ Overwriting
<1> DEFINE x == [Done EXCEPT !.op = op, !.src = s, !.dst = d, !.step = "checked"]
<1>1. Added(x) /\ tree' = tree /\ parts' = parts /\ disturbed' = disturbed
  BY DEF Ask, Added
<1>2. Done \in RequestRow
  BY DoneIs DEF Requests
<1>3. x \in RequestRow /\ x.op = op /\ x.src = s /\ x.dst = d /\ x.step = "checked"
  BY <1>2 DEF RequestRow
<1> HIDE DEF x
<1>4. x \in Requests /\ x.step # "receiving"
  BY <1>3 DEF Requests
<1>5. TreeInv'
  BY <1>1, <1>4, Arrives DEF TreeInv
<1>6. QED
  BY <1>1, <1>5, NothingIsOverwritten

\* New directories next to what is there.
LEMMA OnlyDirectories ==
    ASSUME TreeInv, DOMAIN tree \subseteq DOMAIN tree', parts' = parts,
           \A p \in DOMAIN tree : tree'[p] = tree[p],
           \A p \in DOMAIN tree' \ DOMAIN tree : tree'[p] = Directory
    PROVE  /\ \A q : Places(tree', parts', q) = Places(tree, parts, q)
           /\ PartsLie(tree', parts', Len(request))
           /\ Overwriting
<1>1. ASSUME NEW q PROVE Places(tree', parts', q) = Places(tree, parts, q)
  <2>1. {p \in DOMAIN tree' : tree'[p] = Held(q)} = {p \in DOMAIN tree : tree[p] = Held(q)}
    BY EntriesDiffer
  <2>2. QED
    BY <2>1 DEF Places
<1>2. \A q : IsDir(q) => IsDirIn(tree', q)
  BY DEF IsDir, IsDirIn, Exists
<1>3. PartsLie(tree', parts', Len(request))
  BY <1>2, UnchangedParts
<1>4. QED
  BY <1>1, <1>3, NothingIsOverwritten

LEMMA MakeDirectoryStep ==
    ASSUME TreeInv, NEW p \in Path, p # <<>>, MakeDirectory(p)
    PROVE  TreeInv' /\ Overwriting
<1> DEFINE n == Len(request)
           new == With(p, Directory)
<1>1. /\ IsDir(Front(p)) /\ ~IsDir(p) /\ p \notin DOMAIN tree /\ tree' = new
      /\ Added(Done) /\ parts' = parts /\ disturbed' = disturbed
  BY DEF MakeDirectory, Added, IsDir, Exists
<1>2. /\ IsTree(tree, Entry(n)) /\ Directory \in Entry(n)
      /\ p \in Path /\ p # <<>> /\ IsDir(Front(p)) /\ ~IsDir(p)
  BY <1>1, TreeHere
<1> HIDE DEF n, new
<1>3. /\ IsTree(new, Entry(n))
      /\ DOMAIN new = DOMAIN tree \cup {p}
      /\ \A q \in DOMAIN tree \cup {p} : new[q] = IF q = p THEN Directory ELSE tree[q]
      /\ \A q : IsDir(q) => IsDirIn(new, q)
  BY ONLY <1>2, TreeWith DEF new
<1>4. /\ \A q : Places(tree', parts', q) = Places(tree, parts, q)
      /\ PartsLie(tree', parts', n)
      /\ Overwriting
  BY <1>1, <1>3, OnlyDirectories DEF n
<1>5. Done \in Requests /\ Done.step # "receiving"
  BY DoneIs DEF Done
<1>6. TreeInv'
  BY <1>1, <1>3, <1>4, <1>5, Arrives DEF n
<1>7. QED
  BY <1>4, <1>6

-------------------------------------------------------------------------------
(***************************************************************************)
(* Moves.                                                                  *)
(***************************************************************************)
\* What lies below a path s other than the Workspace, and its parts.
LEMMA UnderIs ==
    ASSUME TreeInv, NEW s \in Path, s # <<>>
    PROVE  /\ Under(s) \subseteq DOMAIN tree /\ Under(s) \subseteq Path \ {<<>>}
           /\ \A p \in DOMAIN tree \ Under(s) : Front(p) \notin Under(s)
           /\ \A p \in Under(s) : IsPrefix(s, p) /\ (p # s => Front(p) \in Under(s))
           /\ \A x \in PartsUnder(s) : x.dir \in Under(s) /\ tree[x.dir] = Directory
           /\ \A x \in parts \ PartsUnder(s) : x.dir \notin Under(s)
           /\ s \in DOMAIN tree => s \in Under(s)
<1>1. /\ DOMAIN tree \subseteq Path \ {<<>>} /\ \A p \in DOMAIN tree : IsDir(Front(p))
      /\ \A x \in parts : x.dir \in Path /\ IsDir(x.dir)
  BY TreeHere
<1>2. ASSUME NEW p \in DOMAIN tree \ Under(s) PROVE Front(p) \notin Under(s)
  <2>1. p \in Path /\ Front(p) \in Path /\ IsPrefix(Front(p), p)
    BY <1>1, FrontIsBelow
  <2>2. ~IsPrefix(s, p)
    BY DEF Under
  <2>3. QED
    BY <2>1, <2>2, PrefixOrder DEF Under
<1>3. ASSUME NEW p \in Under(s) PROVE IsPrefix(s, p) /\ (p # s => Front(p) \in Under(s))
  <2>1. p \in DOMAIN tree /\ p \in Path /\ p # <<>> /\ IsPrefix(s, p)
    BY <1>1 DEF Under
  <2>2. p # s => IsPrefix(s, Front(p)) /\ Front(p) # <<>>
    BY <2>1, FrontIsBelow, PrefixOrder
  <2>3. QED
    BY <1>1, <2>1, <2>2 DEF Under, IsDir, Exists
<1>4. ASSUME NEW x \in PartsUnder(s) PROVE x.dir \in Under(s) /\ tree[x.dir] = Directory
  <2>1. x.dir \in Path /\ IsDir(x.dir) /\ IsPrefix(s, x.dir)
    BY <1>1 DEF PartsUnder
  <2>2. x.dir # <<>>
    BY <2>1, PrefixOrder
  <2>3. QED
    BY <2>1, <2>2 DEF IsDir, Exists, Under
<1>5. \A x \in parts \ PartsUnder(s) : x.dir \notin Under(s)
  BY DEF PartsUnder, Under
<1>6. IsPrefix(s, s)
  BY PrefixOrder
<1>7. QED
  BY <1>1, <1>2, <1>3, <1>4, <1>5, <1>6 DEF Under

LEMMA RenameStep ==
    ASSUME TreeInv, NEW r \in DOMAIN request, Rename(r)
    PROVE  TreeInv' /\ Overwriting
<1> DEFINE s == request[r].src
           d == request[r].dst
           n == Len(request)
<1>1. At(r, "move", "checked") /\ Answered(r) /\ s \in Path \ {<<>>} /\ d \in Path \ {<<>>}
  BY RequestsAre DEF Rename, At
<1>2. CASE ~Renamable(s, d)
  <2>1. tree' = tree /\ parts' = parts /\ disturbed' = disturbed
    BY <1>2 DEF Rename
  <2>2. Revised(r, Done) /\ Done \in Requests /\ Expected(Done, r) = Expected(request[r], r)
    BY <1>1, DoneIs DEF Answered, Revised, Expected, At
  <2>3. IsTree(tree', Entry(n)) /\ PartsLie(tree', parts', n)
    BY <2>1 DEF TreeInv
  <2>4. TreeInv'
    BY <2>1, <2>2, <2>3, Alongside
  <2>5. QED
    BY <2>1, <2>4, NothingIsOverwritten
<1>3. CASE Renamable(s, d)
  <2> DEFINE U == Under(s)
             K == Minus(U)
             new == Over(Graft(U, s, d), K)
             moved == PartsUnder(s)
  <2>1. /\ tree' = new /\ parts' = (parts \ moved) \cup GraftParts(moved, s, d) /\ Disturbs(r)
    BY <1>3 DEF Rename, Becoming
  <2> HIDE DEF s, d, n, U, K, new, moved
  <2>2. /\ s \in DOMAIN tree /\ IsDir(Front(d))
        /\ \/ ~IsDir(s) /\ ~IsDir(d)
           \/ IsDir(s) /\ ~IsPrefix(s, d) /\ (d \notin DOMAIN tree \/ (IsDir(d) /\ Under(d) = {d}))
    BY <1>3 DEF Renamable, Exists, IsFile, IsEmpty
  <2>3. /\ U \subseteq DOMAIN tree /\ U \subseteq Path \ {<<>>}
        /\ \A p \in DOMAIN tree \ U : Front(p) \notin U
        /\ \A p \in U : IsPrefix(s, p) /\ (p # s => Front(p) \in U)
        /\ \A x \in moved : x.dir \in U /\ tree[x.dir] = Directory
        /\ \A x \in parts \ moved : x.dir \notin U
        /\ s \in U
    BY <1>1, <2>2, UnderIs DEF U, moved
  <2>4. /\ IsTree(K, Entry(n)) /\ DOMAIN K = DOMAIN tree \ U
        /\ \A q \in DOMAIN tree \ U : K[q] = tree[q]
        /\ \A q : IsDir(q) /\ q \notin U => IsDirIn(K, q)
    BY <2>3, TreeHere, TreeMinus DEF K, n
  <2>5. IsDirIn(K, Front(d))
    <3>1. Front(d) \in Path /\ IsPrefix(Front(d), d)
      BY <1>1, FrontIsBelow
    <3>2. ASSUME Front(d) \in U PROVE FALSE
      <4>1. IsPrefix(s, Front(d)) /\ IsPrefix(s, d)
        BY <1>1, <2>3, <3>1, <3>2, PrefixOrder
      <4>2. ~IsDir(s) /\ s # Front(d)
        BY <2>2, <4>1
      <4>3. IsDirIn(tree, Front(d))
        BY <2>2, IsDirHere
      <4>4. IsDirIn(tree, s)
        BY <1>1, <3>1, <4>1, <4>2, <4>3, TreeHere, Ancestors
      <4>5. QED
        BY <4>2, <4>4, IsDirHere
    <3>3. QED
      BY <2>2, <2>4, <3>2
  <2>6. ASSUME NEW q \in U, IsDirIn(K, Rebased(q, s, d)) PROVE tree[q] = Directory
    <3> DEFINE b == Rebased(q, s, d)
    <3>1. q \in Path /\ IsPrefix(s, q) /\ q \in DOMAIN tree
      BY <2>3
    <3>2. b \in Path /\ b # <<>> /\ IsPrefix(d, b) /\ Rebased(b, d, s) = q /\ Rebased(d, d, s) = s
      BY <1>1, <3>1, RebasedLies, PrefixOrder
    <3> HIDE DEF b
    <3>3. b \in DOMAIN tree /\ IsDir(b)
      BY <2>4, <2>6, <3>2 DEF IsDirIn, IsDir, Exists, b
    <3>4. CASE b = d
      <4>1. q = s /\ IsDir(s)
        BY <2>2, <3>2, <3>3, <3>4
      <4>2. QED
        BY <1>1, <4>1 DEF IsDir
    <3>5. CASE b # d
      <4>1. IsDir(d)
        BY <1>1, <3>2, <3>3, <3>5, TreeHere, Ancestors, IsDirHere
      <4>2. Under(d) = {d}
        BY <1>1, <2>2, <4>1 DEF IsDir, Exists
      <4>3. b \in Under(d)
        BY <3>2, <3>3 DEF Under
      <4>4. QED
        BY <3>5, <4>2, <4>3
    <3>6. QED
      BY <3>4, <3>5
  <2>7. /\ IsTree(new, Entry(n))
        /\ \A q : IsDirIn(K, q) => IsDirIn(new, q)
        /\ \A q \in U : tree[q] = Directory => IsDirIn(new, Rebased(q, s, d))
        /\ \A p \in DOMAIN new : \E q \in DOMAIN tree : new[p] = tree[q]
    <3>1. /\ IsTree(tree, Entry(n)) /\ s \in Path /\ s # <<>> /\ d \in Path /\ d # <<>>
          /\ U \subseteq DOMAIN tree
          /\ \A q \in U : IsPrefix(s, q) /\ (q # s => Front(q) = s \/ Front(q) \in U)
          /\ DOMAIN K \subseteq DOMAIN tree /\ \A q \in DOMAIN K : K[q] = tree[q]
      BY <1>1, <2>3, <2>4, TreeHere DEF n
    <3>2. QED
      BY <2>3, <2>4, <2>5, <2>6, <3>1, TreeGraft DEF new
  <2>8. ASSUME NEW x \in parts'
        PROVE  /\ x \in [dir : Path, upload : 1 .. n] /\ IsDirIn(new, x.dir)
               /\ \E y \in parts : x.upload = y.upload
    <3>1. CASE x \in parts \ moved
      <4>1. x.dir \notin U /\ IsDir(x.dir)
        BY <2>3, <3>1, TreeHere
      <4>2. QED
        BY <2>4, <2>7, <3>1, <4>1 DEF TreeInv, PartsLie, n
    <3>2. CASE x \in GraftParts(moved, s, d)
      <4>1. PICK y \in moved : x = [y EXCEPT !.dir = Rebased(@, s, d)]
        BY <3>2 DEF GraftParts
      <4>2. y \in parts /\ y \in [dir : Path, upload : 1 .. n]
        BY DEF moved, PartsUnder, TreeInv, PartsLie, n
      <4>3. y.dir \in U /\ tree[y.dir] = Directory
        BY <2>3
      <4>4. Rebased(y.dir, s, d) \in Path /\ IsDirIn(new, Rebased(y.dir, s, d))
        BY <1>1, <2>3, <2>7, <4>3, RebasedLies
      <4>5. x \in [dir : Path, upload : 1 .. n] /\ x.dir = Rebased(y.dir, s, d) /\ x.upload = y.upload
        BY <4>1, <4>2, <4>4
      <4>6. QED
        BY <4>2, <4>4, <4>5
    <3>3. QED
      BY <2>1, <3>1, <3>2
  <2>9. PartsLie(tree', parts', n)
    BY <2>1, <2>8 DEF PartsLie
  <2>10. QED
    BY <1>1, <2>1, <2>7, <2>8, <2>9, Answers DEF n, At
<1>4. QED
  BY <1>2, <1>3

-------------------------------------------------------------------------------
(***************************************************************************)
(* Copies.                                                                 *)
(***************************************************************************)
\* Everything below d goes, and d too.
LEMMA CleanUpStep ==
    ASSUME TreeInv, NEW r \in DOMAIN request, request[r].op \in {"move", "copy", "delete"}, CleanUp(r)
    PROVE  TreeInv' /\ Overwriting
<1> DEFINE d == request[r].dst
           n == Len(request)
           U == Under(d)
           K == Minus(U)
<1>1. d \in Path /\ d # <<>>
  BY RequestsAre
<1>2. Answered(r) /\ Disturbs(r) /\ tree' = K /\ parts' = parts \ PartsUnder(d)
  BY DEF CleanUp, Becoming
<1> HIDE DEF d, n, U, K
<1>3. /\ U \subseteq DOMAIN tree
      /\ \A p \in DOMAIN tree \ U : Front(p) \notin U
      /\ \A x \in parts \ PartsUnder(d) : x.dir \notin U
  BY <1>1, UnderIs DEF U
<1>4. /\ IsTree(K, Entry(n)) /\ DOMAIN K = DOMAIN tree \ U
      /\ \A q \in DOMAIN tree \ U : K[q] = tree[q]
      /\ \A q : IsDir(q) /\ q \notin U => IsDirIn(K, q)
  BY <1>3, TreeHere, TreeMinus DEF K, n
<1>5. PartsLie(tree', parts', n)
  BY <1>2, <1>3, <1>4, TreeHere DEF TreeInv, PartsLie, n
<1>6. QED
  BY <1>2, <1>4, <1>5, Answers DEF n

LEMMA CopyFileStep ==
    ASSUME TreeInv, NEW r \in DOMAIN request, CopyFile(r)
    PROVE  TreeInv' /\ Overwriting
<1> DEFINE s == request[r].src
           d == request[r].dst
           into == IF IsDir(d) THEN Append(d, Last(s)) ELSE d
           n == Len(request)
           new == With(into, tree[s])
<1>1. At(r, "copy", "checked") /\ s \in Path \ {<<>>} /\ d \in Path \ {<<>>}
  BY RequestsAre DEF CopyFile, At
<1>2. request[r].op \in {"move", "copy", "delete"}
  BY <1>1 DEF At
<1>3. CASE IsFile(s) /\ IsDir(Front(into)) /\ ~IsDir(into)
  <2>1. Answered(r) /\ Disturbs(r) /\ tree' = new /\ parts' = parts
    BY <1>3 DEF CopyFile, Becoming
  <2>2. into \in Path /\ into # <<>>
    <3>1. Last(s) \in Names
      <4>1. Len(s) \in 1 .. Len(s)
        BY <1>1, PathLen
      <4>2. QED
        BY <1>1, <4>1 DEF Path, Last
    <3>2. Append(d, Last(s)) \in Path /\ Append(d, Last(s)) # <<>>
      BY <1>1, <3>1 DEF Path
    <3>3. QED
      BY <1>1, <3>2
  <2>3. s \in DOMAIN tree
    BY <1>3 DEF IsFile, Exists
  <2> HIDE DEF s, d, into, n, new
  <2>4. /\ IsTree(new, Entry(n))
        /\ DOMAIN new = DOMAIN tree \cup {into}
        /\ \A q \in DOMAIN tree \cup {into} : new[q] = IF q = into THEN tree[s] ELSE tree[q]
        /\ \A q : IsDir(q) => IsDirIn(new, q)
    BY <1>3, <2>2, <2>3, TreeHere, TreeWith DEF n, new
  <2>5. PartsLie(tree', parts', n)
    BY <2>1, <2>4, UnchangedParts DEF n
  <2>6. \A p \in DOMAIN tree' : \E q \in DOMAIN tree : tree'[p] = tree[q]
    BY <2>1, <2>3, <2>4
  <2>7. QED
    BY <1>2, <2>1, <2>4, <2>5, <2>6, Answers DEF n
<1>4. CASE ~(IsFile(s) /\ IsDir(Front(into)) /\ ~IsDir(into))
  <2>1. CleanUp(r)
    BY <1>4 DEF CopyFile
  <2>2. QED
    BY <1>2, <2>1, CleanUpStep
<1>5. QED
  BY <1>3, <1>4

LEMMA PrefixesAre ==
    ASSUME NEW d \in Path
    PROVE  /\ Prefixes(d) \subseteq Path /\ d \in Prefixes(d)
           /\ \A p \in Prefixes(d) : p # <<>> => Front(p) \in Prefixes(d)
<1>1. Len(d) \in Nat
  BY PathLen
<1>2. ASSUME NEW m \in 0 .. Len(d)
      PROVE  SubSeq(d, 1, m) \in Path /\ Len(SubSeq(d, 1, m)) = m
             /\ \A i \in 1 .. m : SubSeq(d, 1, m)[i] = d[i]
  BY <1>1 DEF Path
<1>3. Prefixes(d) \subseteq Path
  BY <1>2 DEF Prefixes
<1>4. \E m \in 0 .. Len(d) : d = SubSeq(d, 1, m)
  <2>1. Len(d) \in 0 .. Len(d)
    BY <1>1
  <2> DEFINE e == SubSeq(d, 1, Len(d))
  <2>2. e \in Path /\ Len(e) = Len(d) /\ \A i \in 1 .. Len(d) : e[i] = d[i]
    BY <1>2, <2>1
  <2> HIDE DEF e
  <2>3. d = e
    BY <2>2, SamePath
  <2>4. QED
    BY <2>1, <2>3 DEF e
<1>5. d \in Prefixes(d)
  BY <1>4 DEF Prefixes
<1>6. ASSUME NEW p \in Prefixes(d), p # <<>> PROVE Front(p) \in Prefixes(d)
  <2>1. PICK m \in 0 .. Len(d) : p = SubSeq(d, 1, m)
    BY DEF Prefixes
  <2>2. p \in Path /\ Len(p) = m /\ \A i \in 1 .. m : p[i] = d[i]
    BY <1>2, <2>1
  <2>3. m # 0
    BY <1>6, <2>2, PathLen
  <2>4. PICK k \in 0 .. Len(d) : k = m - 1
    BY <1>1, <2>3
  <2>5. /\ Front(p) \in Path /\ Len(Front(p)) = k
        /\ \A i \in 1 .. k : Front(p)[i] = p[i]
    BY <1>6, <2>2, <2>4, FrontIs
  <2> DEFINE e == SubSeq(d, 1, k)
  <2>6. e \in Path /\ Len(e) = k /\ \A i \in 1 .. k : e[i] = d[i]
    BY <1>2
  <2> HIDE DEF e
  <2>7. \A i \in 1 .. k : Front(p)[i] = e[i]
    BY <1>1, <2>2, <2>4, <2>5, <2>6
  <2>8. Front(p) = e
    BY <2>5, <2>6, <2>7, SamePath
  <2>9. QED
    BY <2>8 DEF e, Prefixes
<1>7. QED
  BY <1>3, <1>5, <1>6

LEMMA ListForCopyStep ==
    ASSUME TreeInv, NEW r \in DOMAIN request, ListForCopy(r)
    PROVE  TreeInv' /\ Overwriting
<1> DEFINE s == request[r].src
           d == request[r].dst
           n == Len(request)
           above == Prefixes(d) \ {<<>>}
           new == Over(tree, [p \in above |-> Directory])
           below == Under(s) \ {s}
           hidden == PartsUnder(s)
           x == [request[r] EXCEPT !.step = "listed", !.listed = below, !.hidden = hidden]
<1>1. /\ request[r].op = "copy" /\ request[r].step = "checked" /\ request[r] \in Requests
      /\ s \in Path \ {<<>>} /\ d \in Path \ {<<>>} /\ IsDir(s)
  BY RequestsAre DEF ListForCopy, At
<1>2. CASE ~Exists(d) /\ \A p \in Prefixes(d) : ~IsFile(p)
  <2>1. /\ tree' = new /\ parts' = parts /\ disturbed' = disturbed
        /\ request' = [request EXCEPT ![r].step = "listed", ![r].listed = below, ![r].hidden = hidden]
    BY <1>2 DEF ListForCopy
  <2>2. Revised(r, x)
    BY <2>1 DEF Revised
  <2>3. /\ request[r] \in RequestRow /\ request[r].dst # <<>> /\ request[r].src # <<>>
    BY <1>1
    DEF Requests
  <2> HIDE DEF above, new
  <2>4. /\ \A p \in below : p \in Path /\ IsPrefix(s, p) /\ p # s /\ (Front(p) = s \/ Front(p) \in below)
        /\ \A y \in hidden : IsPrefix(s, y.dir) /\ (y.dir = s \/ y.dir \in below)
    <3>1. /\ Under(s) \subseteq Path
          /\ \A p \in Under(s) : IsPrefix(s, p) /\ (p # s => Front(p) \in Under(s))
          /\ \A y \in PartsUnder(s) : y.dir \in Under(s)
      BY <1>1, UnderIs
    <3>2. QED
      BY <3>1
  <2>5. below \in SUBSET Path /\ hidden \in SUBSET [dir : Path, upload : Nat]
    <3>1. hidden \subseteq parts
      BY DEF PartsUnder
    <3>2. \A y \in parts : y \in [dir : Path, upload : Nat]
      BY RequestsAre DEF TreeInv, PartsLie
    <3>3. QED
      BY <2>4, <3>1, <3>2
  <2> HIDE DEF below, hidden
  <2>6. /\ x \in RequestRow /\ x.op = "copy" /\ x.step = "listed" /\ x.src = s /\ x.dst = d
        /\ x.listed = below /\ x.hidden = hidden
    BY <1>1, <2>3, <2>5 DEF RequestRow
  <2> HIDE DEF x, s, d, n
  <2>7. x \in Requests /\ Expected(x, r) = Expected(request[r], r)
    BY <1>1, <2>4, <2>6 DEF Requests, Closed, Expected
  <2>8. /\ DOMAIN new = DOMAIN tree \cup above
        /\ \A p \in DOMAIN tree : new[p] = tree[p]
        /\ \A p \in above \ DOMAIN tree : new[p] = Directory
        /\ new = [p \in DOMAIN new |-> new[p]]
    BY DEF new, Over
  <2>9. /\ \A q : Places(tree', parts', q) = Places(tree, parts, q)
        /\ PartsLie(tree', parts', n)
        /\ Overwriting
    BY <2>1, <2>8, OnlyDirectories DEF n
  <2>10. IsTree(new, Entry(n))
    <3>1. /\ IsTree(tree, Entry(n)) /\ Directory \in Entry(n) /\ DOMAIN tree \subseteq Path \ {<<>>}
          /\ \A p \in DOMAIN tree : IsDir(Front(p)) /\ tree[p] \in Entry(n)
      BY TreeHere DEF n
    <3>2. above \subseteq Path \ {<<>>} /\ \A p \in above : Front(p) # <<>> => Front(p) \in above
      BY <1>1, PrefixesAre DEF above
    <3>3. new \in [DOMAIN new -> Entry(n)]
      BY <2>8, <3>1
    <3>4. ASSUME NEW p \in DOMAIN new, Front(p) # <<>>
          PROVE  Front(p) \in DOMAIN new /\ new[Front(p)] = Directory
      <4>1. CASE p \in DOMAIN tree
        BY <2>8, <3>1, <3>4, <4>1 DEF IsDir, Exists
      <4>2. CASE p \notin DOMAIN tree
        <5>1. Front(p) \in above
          BY <2>8, <3>2, <3>4, <4>2
        <5>2. ~IsFile(Front(p))
          BY <1>2, <5>1 DEF above, d
        <5>3. QED
          BY <2>8, <3>4, <5>1, <5>2 DEF IsFile, IsDir, Exists
      <4>3. QED
        BY <4>1, <4>2
    <3>5. QED
      BY <2>8, <3>1, <3>2, <3>3, <3>4 DEF IsTree, Path
  <2>11. TreeInv'
    BY <2>1, <2>2, <2>7, <2>9, <2>10, Alongside DEF n
  <2>12. QED
    BY <2>9, <2>11
<1>3. CASE ~(~Exists(d) /\ \A p \in Prefixes(d) : ~IsFile(p))
  <2>1. CleanUp(r)
    BY <1>3 DEF ListForCopy
  <2>2. QED
    BY <1>1, <2>1, CleanUpStep
<1>4. QED
  BY <1>2, <1>3

LEMMA CopyTreeStep ==
    ASSUME TreeInv, NEW r \in DOMAIN request, CopyTree(r)
    PROVE  TreeInv' /\ Overwriting
<1> DEFINE s == request[r].src
           d == request[r].dst
           n == Len(request)
           listed == request[r].listed
           hidden == request[r].hidden
           Clear == /\ listed \subseteq DOMAIN tree
                    /\ hidden \subseteq parts
                    /\ IsDir(d)
                    /\ \A q \in listed :
                          IF IsDir(q) THEN ~Exists(Rebased(q, s, d)) ELSE ~IsDir(Rebased(q, s, d))
           new == Over(Graft(listed, s, d), tree)
<1>1. /\ request[r].op = "copy" /\ request[r].step = "listed" /\ request[r] \in Requests
      /\ s \in Path \ {<<>>} /\ d \in Path \ {<<>>}
  BY RequestsAre DEF CopyTree, At
<1>2. CASE Clear
  <2>1. /\ tree' = new /\ parts' = parts \cup GraftParts(hidden, s, d)
        /\ Disturbs(r) /\ Answered(r)
    BY <1>2 DEF CopyTree, Becoming
  <2>2. /\ \A p \in listed : IsPrefix(s, p) /\ p # s /\ (Front(p) = s \/ Front(p) \in listed)
        /\ \A y \in hidden : IsPrefix(s, y.dir) /\ (y.dir = s \/ y.dir \in listed)
    BY <1>1 DEF Requests, Closed
  <2>3. listed \subseteq DOMAIN tree /\ hidden \subseteq parts /\ IsDir(d)
    BY <1>2
  <2>4. ASSUME NEW q \in listed, IsDirIn(tree, Rebased(q, s, d)) PROVE tree[q] = Directory
    <3>1. q \in Path /\ q # <<>>
      BY <2>3, TreeHere
    <3>2. Rebased(q, s, d) # <<>>
      BY <1>1, <2>2, <3>1, RebasedLies
    <3>3. IsDir(Rebased(q, s, d)) /\ Exists(Rebased(q, s, d))
      BY <2>4, <3>2, IsDirHere DEF IsDirIn, Exists
    <3>4. IsDir(q)
      BY <1>2, <3>3
    <3>5. QED
      BY <3>1, <3>4 DEF IsDir
  <2> HIDE DEF s, d, n, listed, hidden, Clear, new
  <2>5. /\ IsTree(new, Entry(n))
        /\ \A q : IsDirIn(tree, q) => IsDirIn(new, q)
        /\ \A q \in listed : tree[q] = Directory => IsDirIn(new, Rebased(q, s, d))
        /\ \A p \in DOMAIN new : \E q \in DOMAIN tree : new[p] = tree[q]
    <3>1. IsTree(tree, Entry(n)) /\ s \in Path /\ s # <<>> /\ d \in Path /\ d # <<>>
      BY <1>1, TreeHere DEF n
    <3>2. s \notin listed /\ IsDirIn(tree, d)
      BY <2>2, <2>3, IsDirHere
    <3>3. QED
      BY <2>2, <2>3, <2>4, <3>1, <3>2, TreeGraft DEF new
  <2>6. ASSUME NEW x \in parts'
        PROVE  /\ x \in [dir : Path, upload : 1 .. n] /\ IsDirIn(new, x.dir)
               /\ \E y \in parts : x.upload = y.upload
    <3>1. CASE x \in parts
      BY <2>5, <3>1 DEF TreeInv, PartsLie, n
    <3>2. CASE x \in GraftParts(hidden, s, d)
      <4>1. PICK y \in hidden : x = [y EXCEPT !.dir = Rebased(@, s, d)]
        BY <3>2 DEF GraftParts
      <4>2. y \in parts /\ y \in [dir : Path, upload : 1 .. n] /\ IsDir(y.dir)
        BY <2>3, TreeHere DEF TreeInv, PartsLie, n
      <4>3. Rebased(y.dir, s, d) \in Path
        BY <1>1, <2>2, <4>2, RebasedLies
      <4>4. IsDirIn(new, Rebased(y.dir, s, d))
        <5>1. CASE y.dir = s
          <6>1. Rebased(s, s, d) = d
            BY <1>1, RebasedLies, PrefixOrder
          <6>2. QED
            BY <2>3, <2>5, <5>1, <6>1, IsDirHere
        <5>2. CASE y.dir \in listed
          <6>1. y.dir # <<>>
            BY <2>3, <5>2, TreeHere
          <6>2. tree[y.dir] = Directory
            BY <4>2, <6>1 DEF IsDir
          <6>3. QED
            BY <2>5, <5>2, <6>2
        <5>3. QED
          BY <2>2, <5>1, <5>2
      <4>5. x \in [dir : Path, upload : 1 .. n] /\ x.dir = Rebased(y.dir, s, d) /\ x.upload = y.upload
        BY <4>1, <4>2, <4>3
      <4>6. QED
        BY <4>2, <4>4, <4>5
    <3>3. QED
      BY <2>1, <3>1, <3>2
  <2>7. PartsLie(tree', parts', n)
    BY <2>1, <2>6 DEF PartsLie
  <2>8. QED
    BY <1>1, <2>1, <2>5, <2>6, <2>7, Answers DEF n
<1>3. CASE ~Clear
  <2>1. CleanUp(r)
    BY <1>3 DEF CopyTree
  <2>2. QED
    BY <1>1, <2>1, CleanUpStep
<1>4. QED
  BY <1>2, <1>3

-------------------------------------------------------------------------------
(***************************************************************************)
(* Deletions.                                                              *)
(***************************************************************************)
LEMMA ListForDeleteStep ==
    ASSUME TreeInv, NEW r \in DOMAIN request, ListForDelete(r)
    PROVE  TreeInv' /\ Overwriting
<1> DEFINE p == request[r].dst
           n == Len(request)
           below == Under(p) \ {p}
           hidden == PartsUnder(p)
           x == [request[r] EXCEPT !.step = "listed", !.listed = below, !.hidden = hidden]
<1>1. /\ request[r].op = "delete" /\ request[r].step = "checked" /\ request[r] \in Requests
      /\ p \in Path \ {<<>>}
  BY RequestsAre DEF ListForDelete, At
<1>2. CASE IsDir(p)
  <2>1. /\ tree' = tree /\ parts' = parts /\ disturbed' = disturbed
        /\ request' = [request EXCEPT ![r].step = "listed", ![r].listed = below, ![r].hidden = hidden]
    BY <1>2 DEF ListForDelete
  <2>2. Revised(r, x)
    BY <2>1 DEF Revised
  <2>3. request[r] \in RequestRow
    BY <1>1 DEF Requests
  <2>4. below \in SUBSET Path /\ hidden \in SUBSET [dir : Path, upload : Nat]
    <3>1. below \subseteq Path
      BY <1>1, UnderIs
    <3>2. hidden \subseteq parts
      BY DEF PartsUnder
    <3>3. \A y \in parts : y \in [dir : Path, upload : Nat]
      BY RequestsAre DEF TreeInv, PartsLie
    <3>4. QED
      BY <3>1, <3>2, <3>3
  <2> HIDE DEF below, hidden
  <2>5. x \in RequestRow /\ x.op = "delete" /\ x.dst = p
    BY <1>1, <2>3, <2>4 DEF RequestRow
  <2> HIDE DEF x, p, n
  <2>6. x \in Requests /\ Expected(x, r) = Expected(request[r], r)
    BY <1>1, <2>5 DEF Requests, Expected
  <2>7. IsTree(tree', Entry(n)) /\ PartsLie(tree', parts', n)
    BY <2>1 DEF TreeInv, n
  <2>8. TreeInv'
    BY <2>1, <2>2, <2>6, <2>7, Alongside DEF n
  <2>9. QED
    BY <2>1, <2>8, NothingIsOverwritten
<1>3. CASE ~IsDir(p)
  <2> DEFINE S == {p}
             new == Minus(S)
  <2>1. tree' = new /\ parts' = parts /\ Disturbs(r) /\ Answered(r)
    BY <1>3 DEF ListForDelete, Becoming
  <2>2. \A q \in DOMAIN tree \ S : Front(q) \notin S
    BY <1>3, TreeHere
  <2>3. \A q : IsDir(q) => q \notin S
    BY <1>3
  <2> HIDE DEF S, new, n
  <2>4. /\ IsTree(new, Entry(n))
        /\ DOMAIN new = DOMAIN tree \ S
        /\ \A q \in DOMAIN tree \ S : new[q] = tree[q]
        /\ \A q : IsDir(q) /\ q \notin S => IsDirIn(new, q)
    BY <2>2, TreeHere, TreeMinus DEF new, n
  <2>5. PartsLie(tree', parts', n)
    BY <2>1, <2>3, <2>4, UnchangedParts DEF n
  <2>6. QED
    BY <1>1, <2>1, <2>4, <2>5, Answers DEF n
<1>4. QED
  BY <1>2, <1>3

LEMMA RemoveTreeStep ==
    ASSUME TreeInv, NEW r \in DOMAIN request, RemoveTree(r)
    PROVE  TreeInv' /\ Overwriting
<1> DEFINE p == request[r].dst
           n == Len(request)
           listed == request[r].listed
           hidden == request[r].hidden
           Cleared(q) == Under(q) \subseteq listed \cup {p} /\ PartsUnder(q) \subseteq hidden
           Whole == {q \in listed \cup {p} : IsFile(q) \/ Cleared(q)}
<1>1. request[r].op = "delete" /\ p \in Path \ {<<>>} /\ Answered(r)
  BY RequestsAre DEF RemoveTree, At
<1>2. ASSUME NEW S, NEW lost, tree' = Minus(S), parts' = parts \ lost, Disturbs(r),
             \A q \in DOMAIN tree \ S : Front(q) \notin S,
             \A y \in parts \ lost : y.dir \notin S
      PROVE  TreeInv' /\ Overwriting
  <2> DEFINE new == Minus(S)
  <2> HIDE DEF n, new
  <2>1. /\ IsTree(new, Entry(n))
        /\ DOMAIN new = DOMAIN tree \ S
        /\ \A q \in DOMAIN tree \ S : new[q] = tree[q]
        /\ \A q : IsDir(q) /\ q \notin S => IsDirIn(new, q)
    BY <1>2, TreeHere, TreeMinus DEF new, n
  <2>2. PartsLie(tree', parts', n)
    BY <1>2, <2>1, TreeHere DEF TreeInv, PartsLie, n, new
  <2>3. QED
    BY <1>1, <1>2, <2>1, <2>2, Answers DEF n, new
<1>3. CASE listed \subseteq DOMAIN tree /\ hidden \subseteq parts
  <2>1. tree' = Minus(Whole) /\ parts' = parts \ hidden /\ Disturbs(r)
    BY <1>3 DEF RemoveTree, Becoming
  <2>2. ASSUME NEW q, IsDir(q), q \in Whole PROVE Cleared(q)
    BY <2>2 DEF IsFile
  <2>3. ASSUME NEW q \in DOMAIN tree \ Whole, Front(q) \in Whole PROVE FALSE
    <3>1. q \in Path /\ IsDir(Front(q)) /\ Front(q) \in Path /\ IsPrefix(Front(q), q)
      BY TreeHere, FrontIsBelow
    <3>2. Cleared(Front(q))
      BY <2>2, <2>3, <3>1
    <3>3. Under(q) \subseteq Under(Front(q)) /\ q \in Under(Front(q))
      BY <3>1, TreeHere, PrefixOrder DEF Under
    <3>4. PartsUnder(q) \subseteq PartsUnder(Front(q))
      <4>1. ASSUME NEW y \in PartsUnder(q) PROVE y \in PartsUnder(Front(q))
        <5>1. y \in parts /\ IsPrefix(q, y.dir) /\ y.dir \in Path
          BY TreeHere DEF PartsUnder
        <5>2. IsPrefix(Front(q), y.dir)
          BY <3>1, <5>1, PrefixOrder
        <5>3. QED
          BY <5>1, <5>2 DEF PartsUnder
      <4>2. QED
        BY <4>1
    <3>5. Cleared(q) /\ q \in listed \cup {p}
      BY <3>2, <3>3, <3>4
    <3>6. QED
      BY <2>3, <3>5
  <2>4. ASSUME NEW y \in parts \ hidden, y.dir \in Whole PROVE FALSE
    <3>1. IsDir(y.dir) /\ y.dir \in Path
      BY TreeHere
    <3>2. Cleared(y.dir)
      BY <2>2, <2>4, <3>1
    <3>3. y \in PartsUnder(y.dir)
      BY <3>1, PrefixOrder DEF PartsUnder
    <3>4. QED
      BY <3>2, <3>3
  <2> HIDE DEF Whole
  <2>5. QED
    BY <1>2, <2>1, <2>3, <2>4
<1>4. CASE ~(listed \subseteq DOMAIN tree /\ hidden \subseteq parts)
  <2>1. PICK gone \in SUBSET {q \in listed : IsFile(q)}, lost \in SUBSET hidden :
            tree' = Minus(gone) /\ parts' = parts \ lost /\ Disturbs(r)
    BY <1>4 DEF RemoveTree, Becoming
  <2>2. \A q : IsDir(q) => q \notin gone
    BY DEF IsFile
  <2>3. QED
    BY <1>2, <2>1, <2>2, TreeHere
<1>5. QED
  BY <1>3, <1>4

-------------------------------------------------------------------------------
(***************************************************************************)
(* The Workspace.                                                          *)
(***************************************************************************)
LEMMA TreeStarts == InitTree => TreeInv
<1> SUFFICES ASSUME InitTree PROVE TreeInv  OBVIOUS
<1>1. request = <<>> /\ Len(request) = 0 /\ DOMAIN request = {} /\ request \in Seq(Requests)
  BY DEF InitTree
<1>2. tree = FirstTree /\ parts = {} /\ disturbed = {}
  BY DEF InitTree
<1>3. IsTree(tree, Entry(0))
  <2>1. IsTree(FirstTree, {Directory, Stored(0)})
    BY TreeAssumption
  <2>2. Entry(0) = {Directory, Stored(0)}
    BY DEF Entry
  <2>3. QED
    BY <1>2, <2>1, <2>2
<1>4. QED
  BY <1>1, <1>2, <1>3 DEF TreeInv, PartsLie

LEMMA TreeSteps == TreeInv /\ [NextTree]_treeVars => TreeInv' /\ (Overwriting \/ UNCHANGED treeVars)
<1> SUFFICES ASSUME TreeInv, [NextTree]_treeVars
             PROVE  TreeInv' /\ (Overwriting \/ UNCHANGED treeVars)
  OBVIOUS
<1>1. CASE UNCHANGED treeVars
  <2>1. tree' = tree /\ parts' = parts /\ request' = request /\ disturbed' = disturbed
    BY <1>1 DEF treeVars
  <2>2. QED
    BY <1>1, <2>1 DEF TreeInv, Places
<1>2. Targets \subseteq Path \ {<<>>} /\ <<>> \in Path
  BY TreeAssumption DEF Path
<1>3. ASSUME NEW p \in Targets, AskUpload(p) \/ MakeDirectory(p) \/ AskDelete(p)
      PROVE  TreeInv' /\ Overwriting
  <2>1. CASE AskUpload(p)
    BY <1>2, <2>1, AskStep DEF AskUpload
  <2>2. CASE MakeDirectory(p)
    BY <1>2, <2>2, MakeDirectoryStep
  <2>3. CASE AskDelete(p)
    BY <1>2, <2>3, AskStep DEF AskDelete
  <2>4. QED
    BY <1>3, <2>1, <2>2, <2>3
<1>4. ASSUME NEW s \in Targets, NEW d \in Targets, AskMove(s, d) \/ AskCopy(s, d)
      PROVE  TreeInv' /\ Overwriting
  BY <1>2, <1>4, AskStep DEF AskMove, AskCopy
<1>5. ASSUME NEW r \in DOMAIN request,
             \/ Reserve(r) \/ Promote(r) \/ Abandon(r)
             \/ Rename(r)
             \/ CopyFile(r) \/ ListForCopy(r) \/ CopyTree(r)
             \/ ListForDelete(r) \/ RemoveTree(r)
      PROVE  TreeInv' /\ Overwriting
  BY <1>5, ReserveStep, PromoteStep, AbandonStep, RenameStep, CopyFileStep,
     ListForCopyStep, CopyTreeStep, ListForDeleteStep, RemoveTreeStep
<1>6. QED
  BY <1>1, <1>3, <1>4, <1>5 DEF NextTree

LEMMA TreeIsSound == TreeInv => WorkspaceIsSound
<1> SUFFICES ASSUME TreeInv PROVE WorkspaceIsSound  OBVIOUS
<1> DEFINE n == Len(request)
<1>1. n \in Nat /\ DOMAIN request = 1 .. n
  BY DEF TreeInv
<1>2. IsTree(tree, {Directory} \cup {Held(r) : r \in DOMAIN request}
                               \cup {Stored(r) : r \in 0 .. Len(request)})
  BY <1>1 DEF TreeInv, Entry
<1>3. \A x \in parts : x.upload \in DOMAIN request /\ IsDir(x.dir)
  BY <1>1, IsDirHere DEF TreeInv, PartsLie
<1>4. ASSUME NEW q \in DOMAIN request \ disturbed, Places(tree, parts, q) # <<{}, {}>>
      PROVE  At(q, "upload", "receiving")
             /\ Places(tree, parts, q) = <<{request[q].dst}, {PartOf(q)}>>
  BY <1>4 DEF TreeInv, Expected, At, PartOf
<1>5. ASSUME NEW p \in DOMAIN tree, tree[p].kind = "held", tree[p].by \notin disturbed
      PROVE  At(tree[p].by, "upload", "receiving") /\ request[tree[p].by].dst = p
  <2>1. PICK q \in DOMAIN request : tree[p] = Held(q)
    <3>1. tree[p] \in Entry(n)
      BY TreeHere
    <3>2. tree[p] # Directory /\ \A r : tree[p] # Stored(r)
      BY <1>5, EntriesDiffer
    <3>3. QED
      BY <1>1, <3>1, <3>2 DEF Entry
  <2>2. q \in DOMAIN request \ disturbed /\ tree[p].by = q
    BY <1>5, <2>1, EntriesDiffer
  <2>3. p \in {a \in DOMAIN tree : tree[a] = Held(q)}
    BY <2>1
  <2>4. At(q, "upload", "receiving") /\ {a \in DOMAIN tree : tree[a] = Held(q)} = {request[q].dst}
    BY <1>4, <2>2, <2>3 DEF Places
  <2>5. QED
    BY <2>2, <2>3, <2>4
<1>6. ASSUME NEW x \in parts, x.upload \notin disturbed
      PROVE  At(x.upload, "upload", "receiving") /\ x = PartOf(x.upload)
  <2>1. x.upload \in DOMAIN request \ disturbed
    BY <1>3, <1>6
  <2>2. x \in {y \in parts : y.upload = x.upload}
    OBVIOUS
  <2>3. /\ At(x.upload, "upload", "receiving")
        /\ {y \in parts : y.upload = x.upload} = {PartOf(x.upload)}
    BY <1>4, <2>1, <2>2 DEF Places
  <2>4. QED
    BY <2>2, <2>3
<1>7. disturbed \subseteq DOMAIN request
  BY DEF TreeInv
<1>8. QED
  BY <1>2, <1>3, <1>5, <1>6, <1>7 DEF WorkspaceIsSound, TypeOKTree, ReservationsAreHeld

\* However the handlers interleave, whatever the tree, the paths named and the
\* number of requests: every entry and every part lies in a directory, and an
\* empty file or a part is that of an upload in progress, at its place, unless
\* somebody else's move, copy or removal got hold of it.
THEOREM WorkspaceIsSoundHolds == SpecTree => []WorkspaceIsSound
<1>1. SpecTree => []TreeInv
  <2>1. TreeInv /\ [NextTree]_treeVars => TreeInv'
    BY TreeSteps
  <2>2. QED
    BY <2>1, TreeStarts, PTL DEF SpecTree
<1>2. QED
  BY <1>1, TreeIsSound, PTL

\* No upload replaces or removes a file that was stored, except one whose own
\* reservation was taken away under it.
THEOREM UploadsOverwriteNothingHolds == SpecTree => UploadsOverwriteNothing
<1>1. TreeInv /\ [NextTree]_treeVars => TreeInv'
  BY TreeSteps
<1>2. TreeInv /\ [NextTree]_treeVars =>
        [\A p \in DOMAIN tree : tree[p].kind = "stored" /\ ~(p \in DOMAIN tree' /\ tree'[p] = tree[p]) =>
            \E r \in DOMAIN request :
                /\ request'[r] = Done /\ request[r] # Done
                /\ request[r].op = "upload" => r \in disturbed]_treeVars
  BY TreeSteps DEF Overwriting
<1>3. QED
  BY <1>1, <1>2, TreeStarts, PTL DEF SpecTree, UploadsOverwriteNothing

-------------------------------------------------------------------------------
(***************************************************************************)
(* Published results.                                                      *)
(***************************************************************************)
UploadRow == [id : Nat, job : Jobs, file : Files, used : Nat, whole : BOOLEAN, lost : BOOLEAN]

\* The store's rows are rows, and eviction is right.
StoreInv ==
    /\ EvictionIsRight
    /\ uploads \subseteq UploadRow /\ IsFiniteSet(uploads)
    /\ deeds \in Nat

\* A list of runs in the order of their modification.
IsOrder(order) == order \in Seq(Runs) /\ IsInjective(order)

LEMMA TouchedHas ==
    ASSUME NEW order, IsOrder(order), NEW run \in Runs
    PROVE  LET new == Touched(order, run) IN
           /\ IsOrder(new) /\ ToSet(new) = ToSet(order) \cup {run}
           /\ Len(new) \in 1 .. Len(new) /\ new[Len(new)] = run
<1> DEFINE old == Without(order, run)
<1>1. old \in Seq(Runs) /\ ToSet(old) = ToSet(order) \ {run} /\ IsInjective(old)
  BY WithoutLeaves DEF IsOrder
<1> HIDE DEF old
<1>2. /\ Append(old, run) \in Seq(Runs) /\ ToSet(Append(old, run)) = ToSet(old) \cup {run}
      /\ IsInjective(Append(old, run))
  BY <1>1, AppendAdds
<1>3. Len(Append(old, run)) \in 1 .. Len(Append(old, run))
      /\ Append(old, run)[Len(Append(old, run))] = run
  BY <1>1
<1>4. QED
  BY <1>1, <1>2, <1>3 DEF IsOrder, Touched, old

LEMMA TouchedByHas ==
    ASSUME NEW order, IsOrder(order), NEW j \in Jobs
    PROVE  LET new == TouchedBy(order, j) IN
           /\ IsOrder(new) /\ ToSet(new) = ToSet(order) \cup {RunOf[j]}
           /\ j \in Single => Len(new) \in 1 .. Len(new) /\ new[Len(new)] = RunOf[j]
<1>1. RunOf[j] \in Runs
  BY DEF Runs
<1>2. CASE j \in Single \/ RunOf[j] \notin ToSet(order)
  BY <1>1, <1>2, TouchedHas DEF TouchedBy
<1>3. CASE ~(j \in Single \/ RunOf[j] \notin ToSet(order))
  BY <1>3 DEF TouchedBy
<1>4. QED
  BY <1>2, <1>3

-------------------------------------------------------------------------------
\* What a set of files weighs.
LEMMA Weighs ==
    ASSUME NEW S, S \subseteq Files
    PROVE  /\ Weight(S) \in Nat /\ IsFiniteSet(S)
           /\ \A R \in SUBSET S : Weight(R) \in Nat /\ Weight(R) <= Weight(S)
           /\ \A f \in Files : Weight(S \cup {f}) <= Bytes[f] + Weight(S \ {f})
<1>1. \A R \in SUBSET Files : IsFiniteSet(R) /\ \A f \in R : Bytes[f] \in Nat
  BY StoreAssumption, FS_Subset
<1>2. \A R \in SUBSET Files : Weight(R) \in Nat
  BY <1>1, SumSplits DEF Weight
<1>3. ASSUME NEW R \in SUBSET S PROVE Weight(R) <= Weight(S)
  <2>1. \A f \in R : Bytes[f] \in Nat /\ Bytes[f] <= Bytes[f]
    BY <1>1
  <2>2. QED
    BY <1>1, <2>1, SumGrows DEF Weight
<1>4. ASSUME NEW f \in Files PROVE Weight(S \cup {f}) <= Bytes[f] + Weight(S \ {f})
  <2> DEFINE V == S \cup {f}
  <2>1. V \subseteq Files /\ f \in V /\ V \ {f} = S \ {f} /\ S \ {f} \subseteq Files
    OBVIOUS
  <2> HIDE DEF V
  <2>2. SumOf(Bytes, V) = Bytes[f] + SumOf(Bytes, V \ {f})
    BY <1>1, <2>1, SumSplits
  <2>3. Bytes[f] \in Nat /\ Weight(S \ {f}) \in Nat /\ Weight(V) = Bytes[f] + Weight(S \ {f})
    BY <1>1, <1>2, <2>1, <2>2 DEF Weight
  <2> USE DEF V
  <2>4. QED
    BY <2>3
<1>5. QED
  BY <1>1, <1>2, <1>3, <1>4

\* The parts of a job count what they hold.
LEMMA PartsCount ==
    ASSUME uploads \subseteq UploadRow, IsFiniteSet(uploads), NEW j \in Jobs
    PROVE  /\ PartBytes(j) \in Nat
           /\ \A u \in uploads : u.job = j /\ u.whole /\ ~u.lost => Bytes[u.file] <= PartBytes(j)
<1> DEFINE w == [u \in uploads |-> Bytes[u.file]]
           S == {u \in uploads : u.job = j /\ u.whole /\ ~u.lost}
<1>1. IsFiniteSet(S) /\ \A u \in S : w[u] \in Nat /\ w[u] = Bytes[u.file]
  BY FS_Subset, StoreAssumption DEF UploadRow
<1>2. PartBytes(j) = SumOf(w, S)
  BY DEF PartBytes
<1> HIDE DEF w
<1>3. SumOf(w, S) \in Nat /\ \A u \in S : SumOf(w, S) = w[u] + SumOf(w, S \ {u})
  BY <1>1, SumSplits
<1>4. \A u \in S : SumOf(w, S \ {u}) \in Nat
  <2> SUFFICES ASSUME NEW u \in S PROVE SumOf(w, S \ {u}) \in Nat
    OBVIOUS
  <2>1. IsFiniteSet(S \ {u}) /\ \A v \in S \ {u} : w[v] \in Nat
    BY <1>1, FS_Subset
  <2>2. QED
    BY <2>1, SumSplits
<1>5. \A u \in S : Bytes[u.file] <= SumOf(w, S)
  <2> SUFFICES ASSUME NEW u \in S PROVE Bytes[u.file] <= SumOf(w, S)
    OBVIOUS
  <2>1. w[u] \in Nat /\ w[u] = Bytes[u.file] /\ SumOf(w, S \ {u}) \in Nat
        /\ SumOf(w, S) = w[u] + SumOf(w, S \ {u})
    BY <1>1, <1>3, <1>4
  <2>2. QED
    BY <2>1
<1>6. QED
  BY <1>2, <1>3, <1>5

\* What the directories of some runs weigh is what those of their jobs weigh.
LEMMA RunsAreTheirJobs ==
    ASSUME NEW w, w \in [Jobs -> Nat], NEW R, R \subseteq Runs
    PROVE  SumOf([run \in Runs |-> SumOf(w, JobsOf(run))], R) = SumOf(w, {j \in Jobs : RunOf[j] \in R})
<1> DEFINE g == [run \in Runs |-> SumOf(w, JobsOf(run))]
           In(T) == {j \in Jobs : RunOf[j] \in T}
           Q == {T \in SUBSET R : SumOf(g, T) = SumOf(w, In(T))}
<1>1. \A S \in SUBSET Jobs : IsFiniteSet(S) /\ \A j \in S : w[j] \in Nat
  BY StoreAssumption, FS_Subset
<1>2. \A run \in Runs : JobsOf(run) \in SUBSET Jobs /\ JobsOf(run) = In({run})
  BY DEF JobsOf
<1>3. \A run \in Runs : g[run] \in Nat /\ g[run] = SumOf(w, In({run}))
  <2> SUFFICES ASSUME NEW run \in Runs PROVE SumOf(w, JobsOf(run)) \in Nat
    BY <1>2
  <2>1. QED
    BY <1>1, <1>2, SumSplits
<1>4. IsFiniteSet(Runs) /\ IsFiniteSet(R)
  <2>1. IsFiniteSet(Runs)
    <3>1. RunOf \in Surjection(Jobs, Runs)
      BY StoreAssumption DEF Surjection, Runs
    <3>2. QED
      BY <3>1, StoreAssumption, FS_Surjection
  <2>2. QED
    BY <2>1, FS_Subset
<1>5. {} \in Q
  <2>1. In({}) = {}
    OBVIOUS
  <2>2. QED
    BY <2>1, SumOfNone
<1>6. ASSUME NEW T \in SUBSET R, NEW x \in R \ T, T \in Q PROVE T \cup {x} \in Q
  <2>1. /\ IsFiniteSet(T \cup {x}) /\ x \in T \cup {x} /\ (T \cup {x}) \ {x} = T
        /\ \A run \in T \cup {x} : g[run] \in Nat
    BY <1>3, <1>4, FS_Subset
  <2>2. /\ In(T \cup {x}) = In(T) \cup In({x}) /\ In(T) \cap In({x}) = {}
        /\ IsFiniteSet(In(T)) /\ IsFiniteSet(In({x}))
        /\ \A j \in In(T) \cup In({x}) : w[j] \in Nat
    BY <1>1
  <2>3. SumOf(g, T) = SumOf(w, In(T)) /\ g[x] = SumOf(w, In({x}))
    BY <1>3, <1>6
  <2> HIDE DEF g, In
  <2>4. SumOf(g, T \cup {x}) = g[x] + SumOf(g, T)
    BY <2>1, SumSplits
  <2>4a. SumOf(w, In(T) \cup In({x})) = SumOf(w, In(T)) + SumOf(w, In({x}))
    BY <2>2, SumOfUnion
  <2>5. SumOf(w, In(T \cup {x})) = SumOf(w, In(T)) + SumOf(w, In({x}))
    BY <2>2, <2>4a
  <2>6. SumOf(w, In(T)) \in Nat /\ SumOf(w, In({x})) \in Nat
    BY <2>2, SumSplits
  <2>7. SumOf(g, T \cup {x}) = SumOf(w, In(T \cup {x}))
    BY <2>3, <2>4, <2>5, <2>6
  <2>8. QED
    BY <2>7
<1> HIDE DEF Q
<1>7. R \in Q
  BY <1>4, <1>5, <1>6, Growing
<1>8. QED
  BY <1>7 DEF Q

-------------------------------------------------------------------------------
\* The sizes of the jobs' directories, and what there is in them.
Sizes(held) == [j \in Jobs |-> DirectorySize(held, j)]

LEMMA SizesCount ==
    ASSUME uploads \subseteq UploadRow, IsFiniteSet(uploads),
           NEW held \in [Jobs -> SUBSET Files]
    PROVE  /\ Sizes(held) \in [Jobs -> Nat]
           /\ \A j \in Jobs : Weight(held[j]) <= Sizes(held)[j]
           /\ \A u \in uploads : u.whole /\ ~u.lost =>
                Bytes[u.file] + Weight(held[u.job]) <= Sizes(held)[u.job]
<1>1. \A j \in Jobs : Weight(held[j]) \in Nat /\ PartBytes(j) \in Nat
  BY Weighs, PartsCount
<1>2. \A j \in Jobs : Sizes(held)[j] = Weight(held[j]) + PartBytes(j)
  BY DEF Sizes, DirectorySize
<1>3. ASSUME NEW u \in uploads, u.whole, ~u.lost
      PROVE  Bytes[u.file] + Weight(held[u.job]) <= Sizes(held)[u.job]
  <2>1. u.job \in Jobs /\ u.file \in Files
    BY DEF UploadRow
  <2>2. Bytes[u.file] \in Nat /\ Bytes[u.file] <= PartBytes(u.job)
    BY <1>3, <2>1, PartsCount, StoreAssumption
  <2>3. QED
    BY <1>1, <1>2, <2>1, <2>2
<1>4. \A j \in Jobs : Sizes(held)[j] \in Nat /\ Weight(held[j]) <= Sizes(held)[j]
  BY <1>1, <1>2
<1>5. Sizes(held) \in [Jobs -> Nat]
  BY <1>4 DEF Sizes
<1>6. QED
  BY <1>3, <1>4, <1>5

\* The runs of an order from the k-th on, and their jobs.
From(order, k) == {order[i] : i \in k + 1 .. Len(order)}
JobsFrom(order, k) == {j \in Jobs : RunOf[j] \in From(order, k)}

LEMMA LeftIs ==
    ASSUME uploads \subseteq UploadRow, IsFiniteSet(uploads),
           NEW held \in [Jobs -> SUBSET Files],
           NEW order \in Seq(Runs), NEW k \in 0 .. Len(order)
    PROVE  /\ Left(held, order, k) = SumOf(Sizes(held), JobsFrom(order, k))
           /\ Left(held, order, k) \in Nat
<1>1. From(order, k) \subseteq Runs
  BY DEF From
<1>2. Sizes(held) \in [Jobs -> Nat]
  BY SizesCount
<1>3. \A run \in Runs : RunSize(held, run) = SumOf(Sizes(held), JobsOf(run))
  BY DEF RunSize, Sizes
<1>4. [run \in Runs |-> RunSize(held, run)] = [run \in Runs |-> SumOf(Sizes(held), JobsOf(run))]
  BY <1>3
<1>5. Left(held, order, k) = SumOf([run \in Runs |-> RunSize(held, run)], From(order, k))
  BY DEF Left, From
<1>6. SumOf([run \in Runs |-> SumOf(Sizes(held), JobsOf(run))], From(order, k))
      = SumOf(Sizes(held), JobsFrom(order, k))
  BY <1>1, <1>2, RunsAreTheirJobs DEF JobsFrom
<1>7. IsFiniteSet(JobsFrom(order, k)) /\ \A j \in JobsFrom(order, k) : Sizes(held)[j] \in Nat
  BY <1>2, StoreAssumption, FS_Subset DEF JobsFrom
<1>8. SumOf(Sizes(held), JobsFrom(order, k)) \in Nat
  BY <1>7, SumSplits
<1>9. QED
  BY <1>4, <1>5, <1>6, <1>8

\* Evicted is what it chooses: it goes as far as it must, and no further.
LEMMA EvictedIs ==
    ASSUME NEW held, NEW order \in Seq(Runs),
           \A k \in 0 .. Len(order) : Left(held, order, k) \in Nat
    PROVE  LET k == Evicted(held, order) IN
           /\ k \in 0 .. Len(order)
           /\ k = Len(order) \/ Left(held, order, k) <= MaxStore
           /\ \A i \in 0 .. k - 1 : Left(held, order, i) > MaxStore
<1> DEFINE Enough == {k \in 0 .. Len(order) : k = Len(order) \/ Left(held, order, k) <= MaxStore}
<1>0. Len(order) \in Nat /\ MaxStore \in Nat
  BY StoreAssumption
<1>1. Len(order) \in Enough /\ Enough \subseteq Nat
  BY <1>0
<1>2. PICK k \in Enough : \A i \in Enough : k <= i
  BY <1>1, HasLeast
<1>3. ASSUME NEW i \in 0 .. k - 1 PROVE Left(held, order, i) > MaxStore
  <2>1. i \in 0 .. Len(order) /\ i \in Nat /\ k \in Nat /\ ~(k <= i)
    BY <1>0, <1>2
  <2>2. i \notin Enough
    BY <1>2, <2>1
  <2>3. ~(Left(held, order, i) <= MaxStore) /\ Left(held, order, i) \in Nat
    BY <2>1, <2>2
  <2>4. QED
    BY <2>3, <1>0
<1>4. \E n \in 0 .. Len(order) :
        /\ n = Len(order) \/ Left(held, order, n) <= MaxStore
        /\ \A i \in 0 .. n - 1 : Left(held, order, i) > MaxStore
  BY <1>2, <1>3
<1>5. QED
  BY <1>4 DEF Evicted

\* The bytes of all published files.
StoreSum(held) == SumOf([j \in Jobs |-> Weight(held[j])], Jobs)

\* The store beside the part being promoted, and what eviction leaves of it.
Others(u) == [files EXCEPT ![u.job] = @ \ {u.file}]
Remaining(u, order, k) ==
    [j \in Jobs |-> IF RunOf[j] \in {order[i] : i \in 1 .. k} THEN {} ELSE Promoted(u)[j]]

\* The eviction after a promotion: what is left fits, and lies in runs that are
\* left; and a run that was modified last and fits by itself is.
LEMMA EvictionFits ==
    ASSUME uploads \subseteq UploadRow, IsFiniteSet(uploads),
           NEW u \in uploads, u.whole, ~u.lost,
           files \in [Jobs -> SUBSET Files],
           NEW order, IsOrder(order), RunOf[u.job] \in ToSet(order),
           \A j \in Jobs : files[j] # {} => RunOf[j] \in ToSet(order),
           NEW k, k = Evicted(Others(u), order)
    PROVE  /\ k \in 0 .. Len(order)
           /\ Remaining(u, order, k) \in [Jobs -> SUBSET Files]
           /\ \A j \in Jobs : Remaining(u, order, k)[j] # {} => RunOf[j] \in From(order, k)
           /\ StoreSum(Remaining(u, order, k)) <= MaxStore
           /\ RunSize(Others(u), RunOf[u.job]) <= MaxStore /\ Len(order) \in 1 .. Len(order)
              /\ order[Len(order)] = RunOf[u.job] =>
                    RunOf[u.job] \notin {order[i] : i \in 1 .. k}
<1> DEFINE others == Others(u)
           new == Remaining(u, order, k)
<1>0a. others = [files EXCEPT ![u.job] = @ \ {u.file}] /\ k = Evicted(others, order)
  BY DEF Others
<1>0b. new = [j \in Jobs |-> IF RunOf[j] \in {order[i] : i \in 1 .. k} THEN {} ELSE Promoted(u)[j]]
  BY DEF Remaining
<1> HIDE DEF others, new
<1>0. u.job \in Jobs /\ u.file \in Files /\ order \in Seq(Runs) /\ IsInjective(order)
  BY DEF UploadRow, IsOrder
<1>1. others \in [Jobs -> SUBSET Files] /\ \A j \in Jobs :
        others[j] = IF j = u.job THEN files[j] \ {u.file} ELSE files[j]
  BY <1>0, <1>0a
<1>2. Promoted(u) \in [Jobs -> SUBSET Files] /\ \A j \in Jobs :
        Promoted(u)[j] = IF j = u.job THEN files[j] \cup {u.file} ELSE files[j]
  BY <1>0 DEF Promoted
<1>3. \A n \in 0 .. Len(order) : Left(others, order, n) = SumOf(Sizes(others), JobsFrom(order, n))
                                 /\ Left(others, order, n) \in Nat
  BY <1>0, <1>1, LeftIs
<1>4. /\ k \in 0 .. Len(order)
      /\ k = Len(order) \/ Left(others, order, k) <= MaxStore
      /\ \A i \in 0 .. k - 1 : Left(others, order, i) > MaxStore
  BY <1>0, <1>3, <1>0a, EvictedIs
<1> DEFINE Gone == {order[i] : i \in 1 .. k}
           w == [j \in Jobs |-> Weight(new[j])]
           S == JobsFrom(order, k)
<1>5. From(order, k) = ToSet(order) \ Gone
  <2>1. ToSet(SubSeq(order, k + 1, Len(order))) = {order[i] : i \in k + 1 .. Len(order)}
        /\ ToSet(SubSeq(order, k + 1, Len(order))) = ToSet(order) \ {order[i] : i \in 1 .. k}
    BY ONLY <1>0, <1>4, RestOfList
  <2>2. QED
    BY <2>1 DEF From
<1>6. new \in [Jobs -> SUBSET Files]
  BY <1>2, <1>0b
<1>7. ASSUME NEW j \in Jobs, new[j] # {} PROVE RunOf[j] \in From(order, k)
  <2>1. RunOf[j] \notin Gone /\ Promoted(u)[j] # {}
    BY <1>7, <1>0b
  <2>2. RunOf[j] \in ToSet(order)
    BY <1>2, <2>1
  <2>3. QED
    BY <1>5, <2>1, <2>2
<1>8. ASSUME NEW j \in S PROVE w[j] \in Nat /\ Sizes(others)[j] \in Nat /\ w[j] <= Sizes(others)[j]
  <2>1. j \in Jobs /\ new[j] = Promoted(u)[j]
    BY <1>5, <1>0b DEF JobsFrom
  <2>2. /\ Weight(others[j]) \in Nat /\ Weight(new[j]) \in Nat /\ Sizes(others)[j] \in Nat
        /\ Weight(others[j]) <= Sizes(others)[j]
    BY <1>1, <1>6, <2>1, Weighs, SizesCount
  <2>3. CASE j # u.job
    BY <1>1, <1>2, <2>1, <2>2, <2>3
  <2>4. CASE j = u.job
    <3>1. Bytes[u.file] + Weight(others[j]) <= Sizes(others)[j]
      BY <1>1, <2>4, SizesCount
    <3>2. new[j] = files[j] \cup {u.file} /\ others[j] = files[j] \ {u.file}
      BY <1>1, <1>2, <2>1, <2>4
    <3>3. Weight(new[j]) <= Bytes[u.file] + Weight(others[j])
      BY <1>0, <2>1, <3>2, Weighs
    <3>4. Bytes[u.file] \in Nat
      BY <1>0, StoreAssumption
    <3>5. w[j] = Weight(new[j])
      BY <2>1
    <3> HIDE DEF w
    <3>6. Weight(new[j]) <= Sizes(others)[j]
      BY ONLY <2>2, <3>1, <3>3, <3>4
    <3>7. QED
      BY <2>2, <3>5, <3>6
  <2>5. QED
    BY <2>3, <2>4
<1>9. ASSUME NEW j \in Jobs \ S PROVE w[j] = 0
  <2>1. new[j] = {}
    BY <1>7 DEF JobsFrom
  <2>2. QED
    BY <2>1, SumOfNone DEF Weight
<1>10. IsFiniteSet(S) /\ S \in SUBSET Jobs /\ IsFiniteSet(Jobs)
  BY StoreAssumption, FS_Subset DEF JobsFrom
<1> HIDE DEF w, S
<1>11. SumOf(w, Jobs) = SumOf(w, S)
  BY <1>8, <1>9, <1>10, SumOfNothing
<1>12. SumOf(w, Jobs) <= MaxStore
  <2>1. CASE k = Len(order)
    <3>0. Len(order) \in Nat
      BY <1>0
    <3>1. From(order, k) = {}
      <4>1. k + 1 .. Len(order) = {}
        BY ONLY <2>1, <3>0
      <4>2. QED
        BY <4>1 DEF From
    <3>2. S = {}
      BY <3>1 DEF S, JobsFrom
    <3>3. QED
      BY <3>2, <1>11, SumOfNone, StoreAssumption
  <2>2. CASE Left(others, order, k) <= MaxStore
    <3>1. SumOf(w, S) <= SumOf(Sizes(others), S)
      BY <1>8, <1>10, SumGrows
    <3>2. SumOf(Sizes(others), S) = Left(others, order, k) /\ Left(others, order, k) \in Nat
      BY <1>3, <1>4 DEF S
    <3>3. SumOf(w, S) \in Nat
      BY <1>8, <1>10, SumSplits
    <3>4. QED
      BY <1>11, <2>2, <3>1, <3>2, <3>3, StoreAssumption
  <2>3. QED
    BY <1>4, <2>1, <2>2
<1>13. ASSUME RunSize(others, RunOf[u.job]) <= MaxStore, Len(order) \in 1 .. Len(order),
              order[Len(order)] = RunOf[u.job]
       PROVE  RunOf[u.job] \notin Gone
  <2> DEFINE n == Len(order)
  <2>1. n \in Nat /\ n - 1 \in 0 .. n /\ n - 1 + 1 .. n = {n} /\ 1 .. n = DOMAIN order
    BY <1>0, <1>13
  <2>2. From(order, n - 1) = {RunOf[u.job]}
    BY <1>13, <2>1 DEF From
  <2>3. JobsFrom(order, n - 1) = JobsOf(RunOf[u.job])
    BY <2>2 DEF JobsFrom, JobsOf
  <2>4. Left(others, order, n - 1) = RunSize(others, RunOf[u.job])
    BY <1>3, <2>1, <2>3 DEF RunSize, Sizes
  <2>5. ~(Left(others, order, n - 1) > MaxStore)
    <3>1. Left(others, order, n - 1) \in Nat /\ MaxStore \in Nat
      BY <1>3, <2>1, StoreAssumption
    <3>2. Left(others, order, n - 1) <= MaxStore
      BY <1>13, <2>4
    <3>3. QED
      BY ONLY <3>1, <3>2
  <2>6. n - 1 \notin 0 .. k - 1 /\ k \in 0 .. n
    BY <1>4, <2>5
  <2> HIDE DEF n
  <2>7. k < n
    BY ONLY <2>1, <2>6
  <2>8. \A i \in 1 .. k : i \in 1 .. n /\ i # n
    BY ONLY <2>1, <2>6, <2>7
  <2> USE DEF n
  <2>9. QED
    BY <1>0, <1>13, <2>1, <2>8 DEF IsInjective
<1>14. QED
  BY <1>4, <1>6, <1>7, <1>12, <1>13 DEF w, new, others, StoreSum

-------------------------------------------------------------------------------
\* What counts for the type of the store, for any files, order and uploads.
Stored3(held, order, ups) ==
    /\ held \in [Jobs -> SUBSET Files]
    /\ IsOrder(order)
    /\ \A j \in Jobs : held[j] # {} => RunOf[j] \in ToSet(order)
    /\ ups \subseteq UploadRow /\ IsFiniteSet(ups)
    /\ \A u \in ups : ~u.lost => RunOf[u.job] \in ToSet(order)

LEMMA StoreInvParts ==
    StoreInv <=> /\ Stored3(files, recent, uploads)
                 /\ cutShort \/ StoreSum(files) <= MaxStore
                 /\ JustPublishedIsKept
                 /\ deeds \in Nat
BY DEF StoreInv, Stored3, StoreSum, EvictionIsRight, TypeOKStore, StoreFitsItsCap, IsOrder

LEMMA StoreInvPartsNext ==
    StoreInv' <=> /\ Stored3(files', recent', uploads')
                  /\ cutShort' \/ StoreSum(files') <= MaxStore
                  /\ JustPublishedIsKept'
                  /\ deeds' \in Nat
BY DEF StoreInv, Stored3, StoreSum, EvictionIsRight, TypeOKStore, StoreFitsItsCap, IsOrder

\* A directory that is touched is there; the uploads it may then have.
LEMMA MoreOrder ==
    ASSUME NEW held, NEW order, NEW ups, Stored3(held, order, ups),
           NEW new, IsOrder(new), ToSet(order) \subseteq ToSet(new)
    PROVE  Stored3(held, new, ups)
BY DEF Stored3

LEMMA FewerFiles ==
    ASSUME NEW held, NEW order, NEW ups, Stored3(held, order, ups),
           NEW new \in [Jobs -> SUBSET Files], \A j \in Jobs : new[j] \subseteq held[j]
    PROVE  /\ Stored3(new, order, ups)
           /\ StoreSum(held) <= MaxStore => StoreSum(new) <= MaxStore
<1>1. held \in [Jobs -> SUBSET Files]
  BY DEF Stored3
<1>2. Stored3(new, order, ups)
  BY DEF Stored3
<1> DEFINE v == [j \in Jobs |-> Weight(new[j])]
           w == [j \in Jobs |-> Weight(held[j])]
<1>3. \A j \in Jobs : v[j] \in Nat /\ w[j] \in Nat /\ v[j] <= w[j]
  BY <1>1, Weighs
<1>4. StoreSum(new) = SumOf(v, Jobs) /\ StoreSum(held) = SumOf(w, Jobs)
  BY DEF StoreSum
<1> HIDE DEF v, w
<1>5. IsFiniteSet(Jobs) /\ Jobs \in SUBSET Jobs /\ MaxStore \in Nat
  BY StoreAssumption
<1>6. SumOf(v, Jobs) <= SumOf(w, Jobs) /\ SumOf(v, Jobs) \in Nat /\ SumOf(w, Jobs) \in Nat
  BY <1>3, <1>5, SumGrows, SumSplits
<1>7. QED
  BY <1>2, <1>4, <1>5, <1>6

LEMMA FewerUploads ==
    ASSUME NEW held, NEW order, NEW ups, Stored3(held, order, ups), NEW new, new \subseteq ups
    PROVE  Stored3(held, order, new)
BY FS_Subset DEF Stored3

\* Some uploads lose their parts.
LEMMA LostUploads ==
    ASSUME NEW held, NEW order, NEW ups, Stored3(held, order, ups),
           NEW f \in [ups -> UploadRow],
           \A u \in ups : f[u].job = u.job /\ (u.lost => f[u].lost)
    PROVE  Stored3(held, order, {f[u] : u \in ups})
<1>1. IsFiniteSet({f[u] : u \in ups})
  BY ImageIsFinite DEF Stored3
<1>2. QED
  BY <1>1 DEF Stored3, UploadRow

\* Nothing is acknowledged.
LEMMA NothingAnswered ==
    ASSUME answer' = NoAnswer PROVE JustPublishedIsKept'
BY DEF JustPublishedIsKept, NoAnswer

LEMMA InitStored == InitStore => StoreInv
<1> SUFFICES ASSUME InitStore PROVE StoreInv
  OBVIOUS
<1>1. Stored3(files, recent, uploads)
  BY FS_EmptySet DEF InitStore, Stored3, IsOrder, IsInjective
<1>2. StoreSum(files) <= MaxStore
  <2> DEFINE w == [j \in Jobs |-> Weight(files[j])]
  <2>1. \A j \in Jobs : w[j] = 0
    BY SumOfNone DEF InitStore, Weight
  <2>2. IsFiniteSet(Jobs) /\ {} \in SUBSET Jobs /\ Jobs \ {} = Jobs
    BY StoreAssumption
  <2>3. SumOf(w, Jobs) = SumOf(w, {})
    <3> HIDE DEF w
    <3>1. QED
      BY <2>1, <2>2, SumOfNothing
  <2>4. QED
    BY <2>3, SumOfNone, StoreAssumption DEF StoreSum
<1>3. JustPublishedIsKept /\ deeds \in Nat
  BY DEF InitStore, JustPublishedIsKept, NoAnswer
<1>4. QED
  BY <1>1, <1>2, <1>3, StoreInvParts

-------------------------------------------------------------------------------
LEMMA UploadsBegin ==
    ASSUME StoreInv, NEW j \in Jobs, NEW f \in Files, BeginUpload(j, f)
    PROVE  StoreInv'
<1>0. Stored3(files, recent, uploads) /\ deeds \in Nat
  BY StoreInvParts
<1>1. RunOf[j] \in Runs /\ IsOrder(recent)
  BY <1>0 DEF Runs, Stored3
<1>2. IsOrder(recent') /\ ToSet(recent') = ToSet(recent) \cup {RunOf[j]}
  <2>1. CASE recent' = TouchedBy(recent, j)
    BY <1>1, <2>1, TouchedByHas
  <2>2. CASE recent' = Touched(recent, RunOf[j])
    BY <1>1, <2>2, TouchedHas
  <2>3. QED
    BY <2>1, <2>2 DEF BeginUpload
<1>3. Stored3(files, recent', uploads)
  BY <1>0, <1>2, MoreOrder
<1> DEFINE u == [id |-> deeds', job |-> j, file |-> f, used |-> DirectorySize(files, j),
                 whole |-> FALSE, lost |-> FALSE]
<1>4. u \in UploadRow /\ u.job = j
  <2>1. Weight(files[j]) \in Nat /\ PartBytes(j) \in Nat
    BY <1>0, Weighs, PartsCount DEF Stored3
  <2>2. DirectorySize(files, j) \in Nat /\ deeds' \in Nat
    BY <1>0, <2>1 DEF DirectorySize, BeginUpload
  <2>3. QED
    BY <2>2 DEF UploadRow
<1>5. uploads' = uploads \cup {u}
  BY DEF BeginUpload
<1> HIDE DEF u
<1>6. Stored3(files, recent', uploads')
  BY <1>2, <1>3, <1>4, <1>5, FS_AddElement DEF Stored3
<1>7. JustPublishedIsKept'
  BY NothingAnswered DEF BeginUpload
<1>8. /\ files' = files /\ cutShort' = cutShort /\ deeds' \in Nat
  BY <1>0 DEF BeginUpload
<1>9. QED
  BY <1>6, <1>7, <1>8, StoreInvParts, StoreInvPartsNext

LEMMA UploadsReceive ==
    ASSUME StoreInv, NEW u \in uploads, Receive(u)
    PROVE  StoreInv'
<1>0. Stored3(files, recent, uploads) /\ u \in UploadRow /\ u.job \in Jobs
  BY StoreInvParts DEF Stored3, UploadRow
<1>1. Stored3(files, recent', uploads')
  <2>1. CASE u.used + Bytes[u.file] <= MaxJob
    <3> DEFINE v == [u EXCEPT !.whole = TRUE]
    <3>1. v \in UploadRow /\ v.job = u.job /\ v.lost = u.lost
      BY <1>0 DEF UploadRow
    <3>2. uploads' = (uploads \ {u}) \cup {v} /\ recent' = recent
      BY <2>1 DEF Receive
    <3> HIDE DEF v
    <3>3. IsFiniteSet(uploads \ {u})
      BY <1>0, FS_Subset DEF Stored3
    <3>4. IsFiniteSet(uploads')
      BY <3>2, <3>3, FS_AddElement
    <3>5. QED
      BY <1>0, <3>1, <3>2, <3>4 DEF Stored3
  <2>2. CASE ~(u.used + Bytes[u.file] <= MaxJob)
    <3>1. uploads' \subseteq uploads /\ recent' \in {recent, TouchedBy(recent, u.job)}
      BY <2>2 DEF Receive
    <3>2. IsOrder(recent) /\ IsOrder(TouchedBy(recent, u.job))
          /\ ToSet(recent) \subseteq ToSet(TouchedBy(recent, u.job))
      BY <1>0, TouchedByHas DEF Stored3
    <3>3. Stored3(files, recent', uploads)
      BY <1>0, <3>1, <3>2, MoreOrder
    <3>4. QED
      BY <3>1, <3>3, FewerUploads
  <2>3. QED
    BY <2>1, <2>2
<1>2. JustPublishedIsKept'
  BY NothingAnswered DEF Receive
<1>3. files' = files /\ cutShort' = cutShort /\ deeds' = deeds
  BY DEF Receive
<1>4. QED
  BY <1>1, <1>2, <1>3, StoreInvParts, StoreInvPartsNext

LEMMA UploadsPromote ==
    ASSUME StoreInv, NEW u \in uploads, PromoteAndEvict(u)
    PROVE  StoreInv'
<1> DEFINE order == TouchedBy(recent, u.job)
           k == Evicted(Others(u), order)
           gone == {order[i] : i \in 1 .. k}
           victims == {j \in Jobs : RunOf[j] \in gone}
           new == Remaining(u, order, k)
<1>0. Stored3(files, recent, uploads) /\ u \in UploadRow /\ u.job \in Jobs /\ u.file \in Files
  BY StoreInvParts DEF Stored3, UploadRow
<1>1. u \in uploads /\ u.whole /\ ~u.lost
  BY DEF PromoteAndEvict
<1>2. IsOrder(order) /\ ToSet(order) = ToSet(recent) \cup {RunOf[u.job]}
  BY <1>0, TouchedByHas DEF Stored3
<1>3. u.job \in Single => Len(order) \in 1 .. Len(order) /\ order[Len(order)] = RunOf[u.job]
  BY <1>0, TouchedByHas DEF Stored3
<1>4. files' = new
  BY DEF PromoteAndEvict, Remaining, Others
<1>5. /\ recent' = SubSeq(order, k + 1, Len(order))
      /\ uploads' \subseteq LoseParts(victims)
      /\ answer' = [job |-> u.job, file |-> u.file,
                    fits |-> RunSize(Others(u), RunOf[u.job]) <= MaxStore]
      /\ deeds' = deeds
  BY DEF PromoteAndEvict, Others
<1> HIDE DEF order
<1>6. /\ uploads \subseteq UploadRow /\ IsFiniteSet(uploads) /\ files \in [Jobs -> SUBSET Files]
      /\ RunOf[u.job] \in ToSet(order)
      /\ \A j \in Jobs : files[j] # {} => RunOf[j] \in ToSet(order)
      /\ \A v \in uploads : ~v.lost => RunOf[v.job] \in ToSet(order)
  BY <1>0, <1>2 DEF Stored3
<1> HIDE DEF k
<1>7. k = Evicted(Others(u), order)
  BY DEF k
<1>8. \A j \in Jobs : new[j] = IF RunOf[j] \in gone THEN {} ELSE Promoted(u)[j]
  BY DEF Remaining
<1> HIDE DEF new
<1>9. /\ k \in 0 .. Len(order)
      /\ new \in [Jobs -> SUBSET Files]
      /\ \A j \in Jobs : new[j] # {} => RunOf[j] \in From(order, k)
      /\ StoreSum(new) <= MaxStore
      /\ RunSize(Others(u), RunOf[u.job]) <= MaxStore /\ Len(order) \in 1 .. Len(order)
         /\ order[Len(order)] = RunOf[u.job] => RunOf[u.job] \notin {order[i] : i \in 1 .. k}
  BY ONLY <1>1, <1>2, <1>6, <1>7, EvictionFits DEF new
<1>10. /\ IsOrder(recent') /\ ToSet(recent') = From(order, k)
       /\ ToSet(recent') = ToSet(order) \ gone
  <2>1. order \in Seq(Runs) /\ IsInjective(order) /\ k \in 0 .. Len(order)
    BY <1>2, <1>9 DEF IsOrder
  <2>2. LET rest == SubSeq(order, k + 1, Len(order)) IN
        /\ rest \in Seq(Runs) /\ IsInjective(rest)
        /\ ToSet(rest) = {order[i] : i \in k + 1 .. Len(order)}
        /\ ToSet(rest) = ToSet(order) \ {order[i] : i \in 1 .. k}
    BY ONLY <2>1, RestOfList
  <2>3. QED
    BY <2>2, <1>5 DEF IsOrder, From
<1>11. Stored3(new, recent', uploads')
  <2> DEFINE f == [v \in uploads |-> IF v.job \in victims THEN [v EXCEPT !.lost = TRUE] ELSE v]
  <2>1. \A v \in uploads : f[v] \in UploadRow /\ f[v].job = v.job
                           /\ (f[v].lost = (v.job \in victims \/ v.lost))
    <3> SUFFICES ASSUME NEW v \in uploads
                 PROVE  f[v] \in UploadRow /\ f[v].job = v.job
                        /\ (f[v].lost = (v.job \in victims \/ v.lost))
      OBVIOUS
    <3>1. v \in UploadRow
      BY <1>6
    <3>2. CASE v.job \in victims
      BY <3>1, <3>2 DEF UploadRow
    <3>3. CASE v.job \notin victims
      BY <3>1, <3>3 DEF UploadRow
    <3>4. QED
      BY <3>2, <3>3
  <2>2. LoseParts(victims) = {f[v] : v \in uploads}
    BY DEF LoseParts
  <2> HIDE DEF f
  <2>3. IsFiniteSet(LoseParts(victims)) /\ LoseParts(victims) \subseteq UploadRow
    BY <1>6, <2>1, <2>2, ImageIsFinite
  <2>4. \A x \in LoseParts(victims) : ~x.lost => RunOf[x.job] \in ToSet(recent')
    <3> SUFFICES ASSUME NEW v \in uploads, ~f[v].lost PROVE RunOf[f[v].job] \in ToSet(recent')
      BY <2>2
    <3>1. v.job \notin victims /\ ~v.lost /\ f[v].job = v.job /\ v.job \in Jobs
      BY <1>6, <2>1 DEF UploadRow
    <3>2. RunOf[v.job] \notin gone /\ RunOf[v.job] \in ToSet(order)
      BY <1>6, <3>1
    <3>3. QED
      BY <1>10, <3>1, <3>2
  <2>5. IsFiniteSet(uploads')
    BY <1>5, <2>3, FS_Subset
  <2>6. QED
    BY <1>5, <1>9, <1>10, <2>3, <2>4, <2>5 DEF Stored3
<1>12. JustPublishedIsKept'
  <2> SUFFICES ASSUME answer'.fits, answer'.job \in Single PROVE answer'.file \in files'[answer'.job]
    BY DEF JustPublishedIsKept
  <2>1. answer'.job = u.job /\ answer'.file = u.file /\ RunSize(Others(u), RunOf[u.job]) <= MaxStore
    BY <1>5
  <2>2. RunOf[u.job] \notin gone
    BY <1>3, <1>9, <2>1
  <2>3. new[u.job] = Promoted(u)[u.job] /\ u.file \in Promoted(u)[u.job]
    BY <1>0, <1>6, <1>8, <2>2 DEF Promoted
  <2>4. QED
    BY <1>4, <2>1, <2>3
<1>13. StoreSum(files') <= MaxStore
  BY <1>4, <1>9
<1>14. QED
  BY <1>4, <1>5, <1>11, <1>12, <1>13, StoreInvParts, StoreInvPartsNext

\* The other ends of an upload: published without an eviction, or lost.
LEMMA UploadsEnd ==
    ASSUME StoreInv, NEW u \in uploads, PromoteOnly(u) \/ PromoteFails(u)
    PROVE  StoreInv'
<1>0. Stored3(files, recent, uploads) /\ u \in UploadRow /\ u.job \in Jobs /\ u.file \in Files
  BY StoreInvParts DEF Stored3, UploadRow
<1>1. JustPublishedIsKept' /\ deeds' = deeds
  BY NothingAnswered DEF PromoteOnly, PromoteFails
<1>2. uploads' \subseteq uploads
  BY DEF PromoteOnly, PromoteFails
<1>3. CASE PromoteOnly(u)
  <2>1. cutShort' /\ files' = Promoted(u) /\ recent' = TouchedBy(recent, u.job)
    BY <1>3 DEF PromoteOnly
  <2>2. IsOrder(recent') /\ ToSet(recent') = ToSet(recent) \cup {RunOf[u.job]}
    BY <1>0, <2>1, TouchedByHas DEF Stored3
  <2>3. Stored3(files, recent', uploads')
    BY <1>0, <1>2, <2>2, MoreOrder, FewerUploads
  <2>4. /\ files' \in [Jobs -> SUBSET Files]
        /\ \A j \in Jobs : files'[j] = IF j = u.job THEN files[j] \cup {u.file} ELSE files[j]
    BY <1>0, <2>1 DEF Stored3, Promoted
  <2>5. Stored3(files', recent', uploads')
    BY <2>2, <2>3, <2>4 DEF Stored3
  <2>6. QED
    BY <1>1, <2>1, <2>5, StoreInvParts, StoreInvPartsNext
<1>4. CASE PromoteFails(u)
  <2>1. files' = files /\ recent' = recent /\ cutShort' = cutShort
    BY <1>4 DEF PromoteFails
  <2>2. QED
    BY <1>0, <1>1, <1>2, <2>1, FewerUploads, StoreInvParts, StoreInvPartsNext
<1>5. QED
  BY <1>3, <1>4

-------------------------------------------------------------------------------
\* Removals.
LEMMA ListedIsRemoved ==
    ASSUME StoreInv, NEW d \in deletions, RemoveListed(d)
    PROVE  StoreInv'
<1>0. Stored3(files, recent, uploads)
  BY StoreInvParts
<1>1. JustPublishedIsKept' /\ deeds' = deeds /\ cutShort' = cutShort
  BY NothingAnswered DEF RemoveListed
<1>2. PICK gone : files' = [j \in Jobs |-> {f \in files[j] : <<j, f>> \notin gone}]
  BY DEF RemoveListed
<1>3. /\ files' \in [Jobs -> SUBSET Files]
      /\ \A j \in Jobs : files'[j] \subseteq files[j]
  BY <1>0, <1>2 DEF Stored3
<1>4. Stored3(files', recent, uploads)
      /\ (StoreSum(files) <= MaxStore => StoreSum(files') <= MaxStore)
  BY <1>0, <1>3, FewerFiles
<1>5. Stored3(files', recent, uploads')
  <2> DEFINE f == [u \in uploads |-> IF u.id \in d.hidden THEN [u EXCEPT !.lost = TRUE] ELSE u]
  <2>1. \A u \in uploads : f[u] \in UploadRow /\ f[u].job = u.job /\ (u.lost => f[u].lost)
    <3> SUFFICES ASSUME NEW u \in uploads
                 PROVE  f[u] \in UploadRow /\ f[u].job = u.job /\ (u.lost => f[u].lost)
      OBVIOUS
    <3>1. u \in UploadRow
      BY <1>0 DEF Stored3
    <3>2. QED
      BY <3>1 DEF UploadRow
  <2>2. uploads' = {f[u] : u \in uploads}
    BY DEF RemoveListed
  <2>3. f \in [uploads -> UploadRow]
    BY <2>1
  <2> HIDE DEF f
  <2>4. QED
    BY <1>4, <2>1, <2>2, <2>3, LostUploads
<1>6. Stored3(files', recent', uploads')
  <2>1. CASE recent' = recent
    BY <1>5, <2>1
  <2>2. CASE recent' = Touched(recent, d.run) /\ d.run \in ToSet(recent)
    <3>1. IsOrder(recent) /\ d.run \in Runs
      BY <1>0, <2>2 DEF Stored3, IsOrder, ToSet
    <3>2. IsOrder(recent') /\ ToSet(recent) \subseteq ToSet(recent')
      BY <2>2, <3>1, TouchedHas
    <3>3. QED
      BY <1>5, <3>2, MoreOrder
  <2>3. CASE /\ recent' = Without(recent, d.run)
             /\ \A j \in JobsOf(d.run) : IsBare(j)'
    <3>1. IsOrder(recent') /\ ToSet(recent') = ToSet(recent) \ {d.run}
      BY <1>0, <2>3, WithoutLeaves DEF Stored3, IsOrder
    <3>2. \A j \in Jobs : RunOf[j] = d.run =>
            files'[j] = {} /\ \A u \in uploads' : u.job = j => u.lost
      BY <2>3 DEF JobsOf, IsBare
    <3>3. \A u \in uploads' : u.job \in Jobs
      BY <1>5 DEF Stored3, UploadRow
    <3>4. QED
      BY <1>5, <3>1, <3>2, <3>3 DEF Stored3
  <2>4. QED
    BY <2>1, <2>2, <2>3 DEF RemoveListed
<1>7. QED
  BY <1>1, <1>4, <1>6, StoreInvParts, StoreInvPartsNext

LEMMA FileIsDeleted ==
    ASSUME StoreInv, NEW j \in Jobs, NEW f \in Files, DeleteArtifact(j, f)
    PROVE  StoreInv'
<1>0. Stored3(files, recent, uploads)
  BY StoreInvParts
<1>1. JustPublishedIsKept' /\ deeds' \in Nat /\ cutShort' = cutShort /\ uploads' = uploads
  BY NothingAnswered, StoreInvParts DEF DeleteArtifact
<1>2. files' \in [Jobs -> SUBSET Files] /\ \A i \in Jobs : files'[i] \subseteq files[i]
  BY <1>0 DEF Stored3, DeleteArtifact
<1>3. Stored3(files', recent, uploads)
      /\ (StoreSum(files) <= MaxStore => StoreSum(files') <= MaxStore)
  BY <1>0, <1>2, FewerFiles
<1>4. IsOrder(recent') /\ ToSet(recent) \subseteq ToSet(recent')
  BY <1>0, TouchedByHas DEF Stored3, DeleteArtifact
<1>5. Stored3(files', recent', uploads')
  BY <1>1, <1>3, <1>4, MoreOrder
<1>6. QED
  BY <1>1, <1>3, <1>5, StoreInvParts, StoreInvPartsNext

LEMMA NextStored == StoreInv /\ [NextStore]_storeVars => StoreInv'
<1> SUFFICES ASSUME StoreInv, [NextStore]_storeVars PROVE StoreInv'
  OBVIOUS
<1>1. ASSUME /\ UNCHANGED <<files, recent, uploads, cutShort>>
             /\ answer' \in {answer, NoAnswer} /\ deeds' \in Nat
      PROVE  StoreInv'
  <2>1. JustPublishedIsKept'
    <3>1. CASE answer' = NoAnswer
      BY <3>1, NothingAnswered
    <3>2. CASE answer' = answer
      BY <1>1, <3>2, StoreInvParts DEF JustPublishedIsKept
    <3>3. QED
      BY <1>1, <3>1, <3>2
  <2>2. QED
    BY <1>1, <2>1, StoreInvParts, StoreInvPartsNext
<1>2. CASE UNCHANGED storeVars
  BY <1>1, <1>2, StoreInvParts DEF storeVars
<1>3. ASSUME NEW j \in Jobs, StartOrEnd(j) \/ DeleteArtifacts(j) PROVE StoreInv'
  <2>1. deeds \in Nat
    BY StoreInvParts
  <2>2. QED
    BY <1>1, <1>3, <2>1 DEF StartOrEnd, DeleteArtifacts, AskDeletion
<1>4. ASSUME NEW j \in Jobs, NEW f \in Files, BeginUpload(j, f) \/ DeleteArtifact(j, f)
      PROVE  StoreInv'
  BY <1>4, UploadsBegin, FileIsDeleted
<1>5. ASSUME NEW u \in uploads, Receive(u) \/ PromoteAndEvict(u) \/ PromoteOnly(u) \/ PromoteFails(u)
      PROVE  StoreInv'
  BY <1>5, UploadsReceive, UploadsPromote, UploadsEnd
<1>6. ASSUME NEW run \in Runs, DeleteRun(run) PROVE StoreInv'
  <2>1. deeds \in Nat
    BY StoreInvParts
  <2>2. QED
    BY <1>1, <1>6, <2>1 DEF DeleteRun, AskDeletion
<1>7. ASSUME NEW d \in deletions, ListForRemoval(d) \/ RemoveListed(d) PROVE StoreInv'
  <2>1. CASE ListForRemoval(d)
    BY <1>1, <2>1, StoreInvParts DEF ListForRemoval
  <2>2. QED
    BY <1>7, <2>1, ListedIsRemoved
<1>8. QED
  BY <1>2, <1>3, <1>4, <1>5, <1>6, <1>7 DEF NextStore

\* However uploads, evictions and removals interleave, after an eviction the
\* store fits its cap, what was just acknowledged is there if it can be, and no
\* file lies outside a run that is listed (evict_artifacts_over_cap).
THEOREM EvictionIsRightHolds == SpecStore => []EvictionIsRight
<1>1. StoreInv => EvictionIsRight
  BY DEF StoreInv
<1>2. QED
  BY <1>1, InitStored, NextStored, PTL DEF SpecStore

-------------------------------------------------------------------------------
(***************************************************************************)
(* Overlapping runs of release discovery never lose a release: for any     *)
(* number of discoverers, sources, releases and changes of the source, and *)
(* whatever the window, the store and the number of tries.                 *)
(***************************************************************************)
(***************************************************************************)
(* The property says that the cursor covers its list.  A run carries the   *)
(* cursor it read and writes one back, so each run must cover the list it  *)
(* was sent: by what it keeps waiting and what it has left to look at.     *)
(***************************************************************************)
Covered(r, S) == Settled(r) \/ r \in S \/ (moves > 0 /\ r \in cut)

\* Until the source changes, only releases of it are looked at.
OfSource(S) ==
    /\ S \subseteq DOMAIN published
    /\ moves = 0 => \A r \in S : published[r].at = source

Newer(r, S) == {other \in S : other > r}

\* S has kept all it could of the list.
Covers(S, list) ==
    /\ list \subseteq DOMAIN published
    /\ OfSource(S)
    /\ \A r \in list : Covered(r, S)

\* A run that has been sent its list: no more than the window is newer than
\* any release of it.
Working(run) ==
    /\ Covers(run.waiting \cup run.left, run.etag.releases)
    /\ moves = 0 => \A r \in run.etag.releases :
                       Cardinality(Newer(r, run.waiting \cup run.left)) < Window

\* The verification of a release knows how often it failed; another run may
\* have failed once more since, and then the release cools.
Trying(run) ==
    /\ run.release \in run.left /\ run.release = First(run)
    /\ run.attempts \in Nat
    /\ \/ attempts[run.release] = run.attempts
       \/ attempts[run.release] = run.attempts + 1 /\ run.release \in cooling

Publication == [at : Sources, running : BOOLEAN]

RunInv(run) ==
    \/ run = Resting
    \/ /\ run.at = "ask"
       /\ moves = 0 => run.source = source
       /\ Covers(run.waiting, run.etag.releases)
    \/ run.at \in {"work", "verify"} /\ Working(run)

DiscoveryInv ==
    /\ source \in Sources /\ moves \in Nat
    /\ published \in Seq(Publication)
    /\ Len(published) <= MaxReleases
    /\ attempts \in [Releases -> Nat]
    /\ DOMAIN runs = Discoverers
    /\ Covers(cursor.waiting, cursor.etag.releases)
    /\ \A d \in Discoverers : RunInv(runs[d])
    /\ \A d \in Discoverers : Verifying(d) => Trying(runs[d])
    /\ \A d, e \in Discoverers :
        /\ Verifying(d) /\ Verifying(e) /\ runs[d].release = runs[e].release
        => runs[d].attempts = runs[e].attempts

-------------------------------------------------------------------------------
(***************************************************************************)
(* Sets of release numbers.                                                *)
(***************************************************************************)
LEMMA HasMax ==
    ASSUME NEW n \in Nat, NEW S \in SUBSET (1 .. n), S # {}
    PROVE  Max(S) \in S /\ \A y \in S : Max(S) >= y
<1> DEFINE B == {b \in Nat : \A y \in S : b >= y}
<1>1. n \in B
  OBVIOUS
<1>2. PICK m \in B : \A y \in B : ~(<<y, m>> \in OpToRel(<, Nat))
  BY <1>1, NatLessThanWellFounded, WFMin
<1>3. m \in Nat /\ \A y \in S : y \in Nat /\ y >= 1 /\ m >= y
  OBVIOUS
<1>4. m \in S
  <2>1. SUFFICES ASSUME m \notin S PROVE FALSE
    OBVIOUS
  <2>2. \A y \in S : y < m
    BY <2>1, <1>3
  <2>3. m - 1 \in Nat /\ \A y \in S : m - 1 >= y
    <3>1. PICK z \in S : TRUE
      OBVIOUS
    <3>2. m > z
      BY <2>2
    <3>3. m >= 1
      BY <1>3, <3>2
    <3>4. ASSUME NEW y \in S PROVE m - 1 >= y
      BY <1>3, <2>2
    <3>5. QED
      BY <1>3, <3>3, <3>4
  <2>4. m - 1 \in B
    BY <2>3
  <2>5. <<m - 1, m>> \in OpToRel(<, Nat)
    BY <2>3, <1>3 DEF OpToRel
  <2>6. QED
    BY <1>2, <2>4, <2>5
<1>5. QED
  BY <1>3, <1>4 DEF Max

LEMMA FewerNewer ==
    ASSUME NEW n \in Nat, NEW S \in SUBSET (1 .. n), NEW T \in SUBSET S, NEW r
    PROVE  /\ Cardinality(Newer(r, T)) <= Cardinality(Newer(r, S))
           /\ Cardinality(Newer(r, S)) \in Nat /\ Cardinality(Newer(r, T)) \in Nat
<1>1. IsFiniteSet(1 .. n)
  BY FS_Interval
<1>2. Newer(r, T) \subseteq Newer(r, S) /\ Newer(r, S) \subseteq 1 .. n
  BY DEF Newer
<1>3. IsFiniteSet(Newer(r, S)) /\ IsFiniteSet(Newer(r, T))
  BY <1>1, <1>2, FS_Subset
<1>4. QED
  BY <1>2, <1>3, FS_Subset, FS_CardinalityType

-------------------------------------------------------------------------------
(***************************************************************************)
(* What is known is never unlearnt.                                        *)
(***************************************************************************)
Grows ==
    /\ DOMAIN published \subseteq DOMAIN published'
    /\ \A r \in DOMAIN published : published'[r].at = published[r].at
    /\ \A r \in Releases : Settled(r) => Settled(r)'
    /\ cut \subseteq cut'
    /\ moves \in Nat /\ moves' \in Nat
    /\ moves' = 0 => moves = 0 /\ source' = source

LEMMA RejectCounts ==
    ASSUME DiscoveryInv, NEW d \in Discoverers, Reject(d)
    PROVE  LET r == runs[d].release
               n == runs[d].attempts + 1
           IN  /\ r \in Releases /\ n \in Nat
               /\ attempts' = [attempts EXCEPT ![r] = n]
               /\ attempts[r] = n \/ attempts[r] = n - 1
               /\ r \in cooling'
<1>1. Trying(runs[d]) /\ RunInv(runs[d]) /\ runs[d].at = "verify"
  BY DEF DiscoveryInv, Reject, Verifying
<1>2. Working(runs[d])
  BY <1>1 DEF RunInv, Resting
<1>3. runs[d].release \in Releases
  BY <1>1, <1>2, DiscoveryAssumption
  DEF Working, Covers, OfSource, Trying, DiscoveryInv, Releases
<1>4. QED
  BY <1>1, <1>3 DEF Reject, Trying

LEMMA NextGrows ==
    ASSUME DiscoveryInv, [NextDiscovery]_discoveryVars
    PROVE  Grows /\ source' \in Sources /\ published' \in Seq(Publication)
           /\ Len(published') <= MaxReleases /\ attempts' \in [Releases -> Nat]
           /\ DOMAIN runs' = Discoverers
<1> DEFINE Same == UNCHANGED <<source, moves, published>>
           Kept == \A r \in Releases : Settled(r) => Settled(r)'
<1>0. /\ source \in Sources /\ moves \in Nat /\ Len(published) \in Nat
      /\ published \in Seq(Publication) /\ Len(published) <= MaxReleases
      /\ attempts \in [Releases -> Nat] /\ DOMAIN runs = Discoverers
      /\ MaxReleases \in Nat /\ MaxTries \in Nat
  BY DiscoveryAssumption DEF DiscoveryInv
<1>1. DOMAIN runs' = Discoverers
  BY <1>0 DEF NextDiscovery, discoveryVars, provider, records, ChangeSource, Publish, WorkflowEnds,
     Cools, Discover, Listing, Skip, Verify, Retain, Postpone, Reject, NoRoom, Interrupted, Save,
     Becomes
<1>2. ASSUME NEW s \in Sources, Publish(s)
      PROVE  /\ Grows /\ source' \in Sources
             /\ published' \in Seq(Publication)
             /\ Len(published') <= MaxReleases /\ attempts' \in [Releases -> Nat]
  <2>1. published' = Append(published, [at |-> s, running |-> TRUE])
    BY <1>2 DEF Publish
  <2>2. [at |-> s, running |-> TRUE] \in Publication
    BY DEF Publication
  <2>3. /\ published' \in Seq(Publication)
        /\ Len(published') = Len(published) + 1
        /\ \A r \in 1 .. Len(published) : published'[r] = published[r]
    BY <1>0, <2>1, <2>2
  <2>4. Len(published) < MaxReleases
    BY <1>2 DEF Publish
  <2>5. QED
    BY <1>0, <1>2, <2>3, <2>4 DEF Publish, Grows, records, Settled
<1>3. ASSUME NEW r \in DOMAIN published, WorkflowEnds(r)
      PROVE  /\ Grows /\ source' \in Sources
             /\ published' \in Seq(Publication)
             /\ Len(published') <= MaxReleases /\ attempts' \in [Releases -> Nat]
  <2>1. published' = [published EXCEPT ![r].running = FALSE]
    BY <1>3 DEF WorkflowEnds
  <2>2. [published[r] EXCEPT !.running = FALSE] \in Publication
        /\ [published[r] EXCEPT !.running = FALSE].at = published[r].at
    <3>1. published[r] \in Publication
      <4>1. r \in 1 .. Len(published)
        BY <1>0
      <4>2. QED
        BY <1>0, <4>1
    <3>2. QED
      BY <3>1 DEF Publication
  <2>3. /\ published' \in Seq(Publication)
        /\ Len(published') = Len(published)
        /\ \A x \in 1 .. Len(published) : published'[x].at = published[x].at
    BY <1>0, <2>1, <2>2
  <2>4. QED
    BY <1>0, <1>3, <2>3 DEF WorkflowEnds, Grows, records, Settled
<1>4. ASSUME NEW s \in Sources, ChangeSource(s)
      PROVE  /\ Grows /\ source' \in Sources
             /\ published' \in Seq(Publication)
             /\ Len(published') <= MaxReleases /\ attempts' \in [Releases -> Nat]
  BY <1>0, <1>4 DEF ChangeSource, Grows, records, Settled
<1>5. ASSUME NEW d \in Discoverers, Reject(d)
      PROVE  Same /\ Kept /\ cut \subseteq cut' /\ attempts' \in [Releases -> Nat]
  <2> DEFINE r == runs[d].release
             n == runs[d].attempts + 1
  <2>1. /\ r \in Releases /\ n \in Nat /\ attempts' = [attempts EXCEPT ![r] = n]
        /\ attempts[r] = n \/ attempts[r] = n - 1
    BY <1>5, RejectCounts
  <2> HIDE DEF r, n
  <2>2. \A x \in Releases : attempts'[x] >= attempts[x]
    BY <1>0, <2>1
  <2>3. Kept
    BY <1>0, <1>5, <2>1, <2>2 DEF Settled, Reject
  <2>4. QED
    BY <1>0, <1>5, <2>1, <2>3 DEF Reject, provider
<1>6. ASSUME NEW d \in Discoverers,
             \/ Discover(d) \/ Listing(d) \/ Skip(d) \/ Verify(d) \/ Retain(d) \/ Postpone(d)
             \/ NoRoom(d) \/ Interrupted(d) \/ Save(d)
      PROVE  Same /\ Kept /\ cut \subseteq cut' /\ attempts' = attempts
  BY <1>6 DEF Discover, Listing, Skip, Verify, Retain, Postpone, NoRoom, Interrupted, Save,
     provider, records, Settled
<1>7. ASSUME NEW r \in cooling, Cools(r)
      PROVE  Same /\ Kept /\ cut \subseteq cut' /\ attempts' = attempts
  BY <1>7 DEF Cools, provider, Settled
<1>8. ASSUME UNCHANGED discoveryVars
      PROVE  Same /\ Kept /\ cut \subseteq cut' /\ attempts' = attempts
  BY <1>8 DEF discoveryVars, Settled
<1>9. ASSUME Same, Kept, cut \subseteq cut'
      PROVE  Grows
  BY <1>0, <1>9 DEF Grows
<1> HIDE DEF Same, Kept
<1>10. ASSUME Same PROVE source' \in Sources /\ published' = published
  BY <1>0, <1>10 DEF Same
<1>11. QED
  BY <1>0, <1>1, <1>2, <1>3, <1>4, <1>5, <1>6, <1>7, <1>8, <1>9, <1>10 DEF NextDiscovery

\* What a set covered it goes on covering.
LEMMA CoversKept ==
    ASSUME DiscoveryInv, Grows,
           NEW S, NEW list, Covers(S, list)
    PROVE  /\ list \subseteq DOMAIN published'
           /\ S \subseteq DOMAIN published'
           /\ moves' = 0 => \A r \in S : published'[r].at = source'
           /\ \A r \in list : Settled(r)' \/ r \in S \/ (moves' > 0 /\ r \in cut')
<1>1. \A r \in list : r \in Releases
  BY DiscoveryAssumption DEF Covers, DiscoveryInv, Releases
<1>2. QED
  BY <1>1 DEF Covers, OfSource, Covered, Grows

LEMMA RunKept ==
    ASSUME DiscoveryInv, Grows, NEW d \in Discoverers, runs'[d] = runs[d]
    PROVE  RunInv(runs[d])'
<1> DEFINE run == runs[d]
<1>0. RunInv(run)
  BY DEF DiscoveryInv
<1>1. CASE run = Resting
  BY <1>1 DEF RunInv
<1>2. CASE run.at = "ask" /\ (moves = 0 => run.source = source)
           /\ Covers(run.waiting, run.etag.releases)
  <2>1. /\ run.etag.releases \subseteq DOMAIN published'
        /\ run.waiting \subseteq DOMAIN published'
        /\ moves' = 0 => \A r \in run.waiting : published'[r].at = source'
        /\ \A r \in run.etag.releases :
              Settled(r)' \/ r \in run.waiting \/ (moves' > 0 /\ r \in cut')
    BY <1>2, CoversKept
  <2>2. moves' = 0 => run.source = source'
    BY <1>2 DEF Grows
  <2> HIDE DEF run
  <2>3. Covers(runs[d].waiting, runs[d].etag.releases)'
    BY <2>1 DEF Covers, OfSource, Covered, run
  <2>4. QED
    BY <1>2, <2>2, <2>3 DEF RunInv, run
<1>3. CASE run.at \in {"work", "verify"} /\ Working(run)
  <2> DEFINE S == run.waiting \cup run.left
  <2>1. /\ run.etag.releases \subseteq DOMAIN published'
        /\ S \subseteq DOMAIN published'
        /\ moves' = 0 => \A r \in S : published'[r].at = source'
        /\ \A r \in run.etag.releases :
              Settled(r)' \/ r \in S \/ (moves' > 0 /\ r \in cut')
    BY <1>3, CoversKept DEF Working
  <2>2. moves' = 0 => \A r \in run.etag.releases : Cardinality(Newer(r, S)) < Window
    BY <1>3 DEF Grows, Working
  <2> HIDE DEF run
  <2>3. Working(runs[d])'
    BY <2>1, <2>2 DEF Working, Covers, OfSource, Covered, Newer, run
  <2>4. QED
    BY <1>3, <2>3 DEF RunInv, run
<1>4. QED
  BY <1>0, <1>1, <1>2, <1>3 DEF RunInv

-------------------------------------------------------------------------------
(***************************************************************************)
(* One run.                                                                *)
(***************************************************************************)
LEMMA FirstLeft ==
    ASSUME DiscoveryInv, NEW run, Working(run), run.left # {}
    PROVE  First(run) \in run.left /\ First(run) \in DOMAIN published /\ First(run) \in Releases
<1>1. run.left \subseteq 1 .. Len(published) /\ Len(published) \in Nat
  BY DEF Working, Covers, OfSource, DiscoveryInv
<1>2. First(run) \in run.left
  BY <1>1, HasMax DEF First
<1>3. Len(published) <= MaxReleases /\ MaxReleases \in Nat
  BY DiscoveryAssumption DEF DiscoveryInv
<1>4. QED
  BY <1>1, <1>2, <1>3 DEF Releases, DiscoveryInv

SettledThen(r) == r \in eligible' \/ attempts'[r] >= MaxTries

\* The release looked at is settled by now, or is kept waiting.
LEMMA PassedRun ==
    ASSUME DiscoveryInv, Grows, NEW d \in Discoverers,
           runs[d].at \in {"work", "verify"}, runs[d].left # {},
           NEW waiting, runs'[d] = Passed(runs[d], waiting),
           \/ waiting = runs[d].waiting \cup {First(runs[d])}
           \/ waiting = runs[d].waiting \ {First(runs[d])} /\ SettledThen(First(runs[d]))
    PROVE  RunInv(runs[d])'
<1> DEFINE run == runs[d]
           S == run.waiting \cup run.left
           f == First(run)
           T == waiting \cup (run.left \ {f})
<1>1. Working(run)
  BY DEF DiscoveryInv, RunInv, Resting
<1>2. f \in run.left
  BY <1>1, FirstLeft
<1>3. /\ run.etag.releases \subseteq DOMAIN published'
      /\ S \subseteq DOMAIN published'
      /\ moves' = 0 => \A r \in S : published'[r].at = source'
      /\ \A r \in run.etag.releases :
            Settled(r)' \/ r \in S \/ (moves' > 0 /\ r \in cut')
  BY <1>1, CoversKept DEF Working
<1>4. T \subseteq S /\ \A r \in S \ T : r = f /\ SettledThen(f)
  BY <1>2
<1>5. moves' = 0 => \A r \in run.etag.releases : Cardinality(Newer(r, T)) < Window
  <2>1. SUFFICES ASSUME moves' = 0, NEW r \in run.etag.releases
                 PROVE  Cardinality(Newer(r, T)) < Window
    OBVIOUS
  <2>2. Cardinality(Newer(r, S)) < Window
    BY <1>1, <2>1 DEF Grows, Working
  <2>3. Len(published) \in Nat /\ S \in SUBSET (1 .. Len(published))
    BY <1>1 DEF Working, Covers, OfSource, DiscoveryInv
  <2>4. /\ Cardinality(Newer(r, T)) <= Cardinality(Newer(r, S))
        /\ Cardinality(Newer(r, S)) \in Nat /\ Cardinality(Newer(r, T)) \in Nat
    BY <1>4, <2>3, FewerNewer
  <2>5. QED
    BY <2>2, <2>4, DiscoveryAssumption
<1>6. /\ runs'[d].at = "work" /\ runs'[d].etag = run.etag
      /\ runs'[d].waiting \cup runs'[d].left = T
  BY DEF Passed
<1> HIDE DEF run, S, T, f
<1>7. /\ T \subseteq DOMAIN published'
      /\ moves' = 0 => \A r \in T : published'[r].at = source'
      /\ \A r \in run.etag.releases :
            Settled(r)' \/ r \in T \/ (moves' > 0 /\ r \in cut')
  BY <1>3, <1>4 DEF Settled, SettledThen
<1>8. Working(runs[d])'
  BY <1>3, <1>5, <1>6, <1>7 DEF Working, Covers, OfSource, Covered, Newer
<1>9. QED
  BY <1>6, <1>8 DEF RunInv

LEMMA ListingRun ==
    ASSUME DiscoveryInv, NEW d \in Discoverers, Listing(d)
    PROVE  RunInv(runs[d])'
<1> DEFINE run == runs[d]
           now == List(run.source)
           left == IF run.etag = now THEN run.waiting ELSE run.waiting \cup now.releases
           S == run.waiting \cup left
           own == {r \in DOMAIN published : published[r].at = run.source}
<1>1. /\ moves = 0 => run.source = source
      /\ Covers(run.waiting, run.etag.releases)
  BY DEF DiscoveryInv, RunInv, Listing, Resting
<1>2. now.releases = Newest(Window, own) /\ now.releases \subseteq own
  BY DEF List, Newest
<1>3. /\ runs'[d].at = "work" /\ runs'[d].etag = now
      /\ runs'[d].waiting \cup runs'[d].left = S
  BY DEF Listing, Becomes, DiscoveryInv
<1>4. S \subseteq DOMAIN published /\ (moves = 0 => S \subseteq own)
  BY <1>1, <1>2 DEF Covers, OfSource
<1>5. \A r \in now.releases : Covered(r, S)
  BY <1>1 DEF Covers, Covered
<1>6. moves = 0 => \A r \in now.releases : Cardinality(Newer(r, S)) < Window
  <2>1. SUFFICES ASSUME moves = 0, NEW r \in now.releases
                 PROVE  Cardinality(Newer(r, S)) < Window
    OBVIOUS
  <2>2. Cardinality(Newer(r, own)) < Window
    BY <1>2 DEF Newest, Newer
  <2>3. Len(published) \in Nat /\ own \in SUBSET (1 .. Len(published))
    BY DEF DiscoveryInv
  <2>4. S \in SUBSET own
    BY <1>4, <2>1
  <2> HIDE DEF S, own
  <2>5. /\ Cardinality(Newer(r, S)) <= Cardinality(Newer(r, own))
        /\ Cardinality(Newer(r, own)) \in Nat /\ Cardinality(Newer(r, S)) \in Nat
    BY <2>3, <2>4, FewerNewer
  <2>6. QED
    BY <2>2, <2>5, DiscoveryAssumption
<1>7. UNCHANGED <<source, moves, published, eligible, attempts, cut>>
  BY DEF Listing, provider, records
<1>8. now.releases \subseteq DOMAIN published
  BY <1>2
<1>9. OfSource(S)
  BY <1>1, <1>4 DEF OfSource
<1> HIDE DEF run, now, S, own, left
<1>10. Working(runs[d])'
  BY <1>3, <1>5, <1>6, <1>7, <1>8, <1>9
  DEF Working, Covers, OfSource, Covered, Newer, Settled
<1>11. QED
  BY <1>3, <1>10 DEF RunInv

LEMMA DiscoverRun ==
    ASSUME DiscoveryInv, NEW d \in Discoverers, Discover(d)
    PROVE  RunInv(runs[d])'
<1>1. /\ runs'[d].at = "ask" /\ runs'[d].source = source
      /\ runs'[d].etag = cursor.etag /\ runs'[d].waiting = cursor.waiting
  BY DEF Discover, Becomes, DiscoveryInv
<1>2. Covers(cursor.waiting, cursor.etag.releases)
  BY DEF DiscoveryInv
<1>3. UNCHANGED <<source, moves, published, eligible, attempts, cut>>
  BY DEF Discover, provider, records
<1>4. Covers(runs[d].waiting, runs[d].etag.releases)'
  BY <1>1, <1>2, <1>3 DEF Covers, OfSource, Covered, Settled
<1>5. QED
  BY <1>1, <1>3, <1>4 DEF RunInv

LEMMA VerifyRun ==
    ASSUME DiscoveryInv, NEW d \in Discoverers, Verify(d)
    PROVE  RunInv(runs[d])'
<1> DEFINE run == runs[d]
<1>1. Working(run)
  BY DEF DiscoveryInv, RunInv, Verify, Resting
<1>2. /\ runs'[d].at = "verify" /\ runs'[d].etag = run.etag
      /\ runs'[d].waiting = run.waiting /\ runs'[d].left = run.left
  BY DEF Verify, Becomes, DiscoveryInv
<1>3. UNCHANGED <<source, moves, published, eligible, attempts, cut>>
  BY DEF Verify, provider, records
<1> HIDE DEF run
<1>4. Working(runs[d])'
  BY <1>1, <1>2, <1>3 DEF Working, Covers, OfSource, Covered, Newer, Settled
<1>5. QED
  BY <1>2, <1>4 DEF RunInv

\* The steps by which a run passes the release it looks at.
LEMMA PassingRun ==
    ASSUME DiscoveryInv, Grows, NEW d \in Discoverers,
           Skip(d) \/ Retain(d) \/ Postpone(d) \/ Reject(d)
    PROVE  RunInv(runs[d])'
<1> DEFINE run == runs[d]
           f == First(run)
<1>0. DOMAIN runs = Discoverers
  BY DEF DiscoveryInv
<1>1. Verifying(d) => Trying(run) /\ run.release = f /\ run.left # {}
  BY DEF DiscoveryInv, Trying
<1>2. CASE Skip(d)
  <2>1. /\ run.at = "work" /\ run.left # {}
        /\ runs'[d] = Passed(run, IF Settled(f) THEN run.waiting \ {f} ELSE run.waiting \cup {f})
        /\ UNCHANGED <<eligible, attempts>>
    BY <1>0, <1>2 DEF Skip, Becomes, records
  <2>2. Settled(f) => SettledThen(f)
    BY <2>1 DEF Settled, SettledThen
  <2>3. QED
    BY <2>1, <2>2, PassedRun
<1>3. CASE Retain(d)
  <2>1. /\ run.at = "verify" /\ runs'[d] = Passed(run, run.waiting \ {f})
        /\ f \in eligible'
    BY <1>0, <1>1, <1>3 DEF Retain, Becomes, Verifying
  <2>2. SettledThen(f)
    BY <2>1 DEF SettledThen
  <2>3. QED
    BY <1>1, <1>3, <2>1, <2>2, PassedRun DEF Retain
<1>4. CASE Postpone(d)
  <2>1. run.at = "verify" /\ runs'[d] = Passed(run, run.waiting \cup {f})
    BY <1>0, <1>1, <1>4 DEF Postpone, Becomes, Verifying
  <2>2. QED
    BY <1>1, <1>4, <2>1, PassedRun DEF Postpone
<1>5. CASE Reject(d)
  <2> DEFINE n == run.attempts + 1
  <2>1. /\ run.at = "verify"
        /\ runs'[d] = Passed(run, IF n < MaxTries THEN run.waiting \cup {f} ELSE run.waiting \ {f})
    BY <1>0, <1>1, <1>5 DEF Reject, Becomes, Verifying
  <2>2. /\ f \in Releases /\ n \in Nat /\ attempts' = [attempts EXCEPT ![f] = n]
    BY <1>1, <1>5, RejectCounts DEF Reject
  <2>3. attempts \in [Releases -> Nat] /\ MaxTries \in Nat
    BY DiscoveryAssumption DEF DiscoveryInv
  <2> HIDE DEF n
  <2>4. attempts'[f] = n
    BY <2>2, <2>3
  <2>5. ~(n < MaxTries) => SettledThen(f)
    BY <2>2, <2>3, <2>4 DEF SettledThen
  <2>6. QED
    BY <1>1, <1>5, <2>1, <2>5, PassedRun DEF Reject
<1>6. QED
  BY <1>2, <1>3, <1>4, <1>5

LEMMA NextRuns ==
    ASSUME DiscoveryInv, [NextDiscovery]_discoveryVars, NEW d \in Discoverers
    PROVE  RunInv(runs[d])'
<1>0. Grows /\ DOMAIN runs = Discoverers
  BY NextGrows DEF DiscoveryInv
<1>1. CASE runs'[d] = runs[d]
  BY <1>0, <1>1, RunKept
<1>2. CASE runs'[d] = Resting
  BY <1>2 DEF RunInv
<1>3. CASE Discover(d) \/ Listing(d) \/ Verify(d)
  BY <1>3, DiscoverRun, ListingRun, VerifyRun
<1>4. CASE Skip(d) \/ Retain(d) \/ Postpone(d) \/ Reject(d)
  BY <1>0, <1>4, PassingRun
<1>5. \/ runs'[d] = runs[d] \/ runs'[d] = Resting
      \/ Discover(d) \/ Listing(d) \/ Verify(d)
      \/ Skip(d) \/ Retain(d) \/ Postpone(d) \/ Reject(d)
  <2>1. ASSUME NEW e \in Discoverers, NEW x, Becomes(e, x)
        PROVE  (e # d => runs'[d] = runs[d]) /\ runs'[e] = x
    BY <1>0, <2>1 DEF Becomes
  <2>2. ASSUME NEW e \in Discoverers,
               \/ Discover(e) \/ Listing(e) \/ Verify(e) \/ Skip(e) \/ Retain(e) \/ Postpone(e)
               \/ Reject(e)
        PROVE  \E x : Becomes(e, x)
    BY <2>2 DEF Discover, Listing, Verify, Skip, Retain, Postpone, Reject
  <2>3. ASSUME NEW e \in Discoverers, NoRoom(e) \/ Interrupted(e) \/ Save(e)
        PROVE  Becomes(e, Resting)
    BY <2>3 DEF NoRoom, Interrupted, Save
  <2>4. (\E s \in Sources : ChangeSource(s) \/ Publish(s)) \/ (\E r \in DOMAIN published : WorkflowEnds(r))
        \/ (\E r \in cooling : Cools(r)) \/ UNCHANGED discoveryVars => runs' = runs
    BY DEF ChangeSource, Publish, WorkflowEnds, Cools, discoveryVars
  <2>5. QED
    BY <2>1, <2>2, <2>3, <2>4 DEF NextDiscovery
<1>6. QED
  BY <1>1, <1>2, <1>3, <1>4, <1>5

\* What the runs that verify know of their releases.
TryingAll ==
    /\ \A d \in Discoverers : Verifying(d) => Trying(runs[d])
    /\ \A d, e \in Discoverers :
        /\ Verifying(d) /\ Verifying(e) /\ runs[d].release = runs[e].release
        => runs[d].attempts = runs[e].attempts

LEMMA VerifiersMove ==
    ASSUME DiscoveryInv, [NextDiscovery]_discoveryVars
    PROVE  \/ \E d \in Discoverers : Verify(d)
           \/ /\ \A d \in Discoverers : Verifying(d)' => runs'[d] = runs[d]
              /\ \/ UNCHANGED <<attempts, cooling>>
                 \/ \E r \in cooling : Cools(r)
                 \/ \E d \in Discoverers : Reject(d)
<1> DEFINE Still == \A d \in Discoverers : Verifying(d)' => runs'[d] = runs[d]
<1>0. DOMAIN runs = Discoverers
  BY DEF DiscoveryInv
<1>1. ASSUME NEW e \in Discoverers, NEW x, Becomes(e, x), x.at # "verify" PROVE Still
  BY <1>0, <1>1 DEF Becomes, Verifying
<1>2. ASSUME NEW e \in Discoverers,
             \/ Skip(e) \/ Retain(e) \/ Postpone(e) \/ Reject(e) \/ Discover(e) \/ Listing(e)
             \/ NoRoom(e) \/ Interrupted(e) \/ Save(e)
      PROVE  Still
  <2>1. Resting.at # "verify" /\ \A run, waiting : Passed(run, waiting).at # "verify"
    BY DEF Resting, Passed
  <2>2. \E x : Becomes(e, x) /\ x.at # "verify"
    BY <1>2, <2>1 DEF Skip, Retain, Postpone, Reject, Discover, Listing, NoRoom, Interrupted, Save
  <2>3. QED
    BY <1>1, <2>2
<1>3. ASSUME UNCHANGED runs PROVE Still
  BY <1>3
<1>4. ASSUME NEW e \in Discoverers,
             \/ Skip(e) \/ Retain(e) \/ Postpone(e) \/ Discover(e) \/ Listing(e)
             \/ NoRoom(e) \/ Interrupted(e) \/ Save(e)
      PROVE  UNCHANGED <<attempts, cooling>>
  BY <1>4 DEF Skip, Retain, Postpone, Discover, Listing, NoRoom, Interrupted, Save, records
<1>5. ASSUME \/ \E s \in Sources : ChangeSource(s) \/ Publish(s)
             \/ \E r \in DOMAIN published : WorkflowEnds(r)
             \/ UNCHANGED discoveryVars
      PROVE  UNCHANGED <<attempts, cooling, runs>>
  BY <1>5 DEF ChangeSource, Publish, WorkflowEnds, discoveryVars, records
<1>6. ASSUME NEW r \in cooling, Cools(r) PROVE UNCHANGED runs
  BY <1>6 DEF Cools
<1> HIDE DEF Still
<1>7. \/ \E d \in Discoverers : Verify(d)
      \/ /\ Still
         /\ \/ UNCHANGED <<attempts, cooling>>
            \/ \E r \in cooling : Cools(r)
            \/ \E d \in Discoverers : Reject(d)
  BY <1>2, <1>3, <1>4, <1>5, <1>6 DEF NextDiscovery
<1>8. QED
  BY <1>7 DEF Still

LEMMA NextTrying ==
    ASSUME DiscoveryInv, [NextDiscovery]_discoveryVars
    PROVE  TryingAll'
<1>0. TryingAll /\ DOMAIN runs = Discoverers /\ attempts \in [Releases -> Nat]
  BY DEF DiscoveryInv, TryingAll
<1>1. ASSUME NEW e \in Discoverers, Verify(e) PROVE TryingAll'
  <2> DEFINE run == runs[e]
             r == First(run)
  <2>1. /\ runs'[e].at = "verify" /\ runs'[e].release = r /\ runs'[e].left = run.left
        /\ runs'[e].attempts = attempts[r]
        /\ r \notin cooling /\ UNCHANGED <<attempts, cooling>>
        /\ \A d \in Discoverers : d # e => runs'[d] = runs[d]
    BY <1>0, <1>1 DEF Verify, Becomes, records
  <2>2. r \in run.left /\ attempts[r] \in Nat
    <3>1. Working(run) /\ run.left # {}
      BY <1>1 DEF DiscoveryInv, RunInv, Verify, Resting
    <3>2. QED
      BY <1>0, <3>1, FirstLeft
  <2>3. Trying(runs[e])'
    BY <2>1, <2>2 DEF Trying, First
  <2>4. \A d \in Discoverers : d # e /\ Verifying(d)' =>
          /\ Trying(runs[d])'
          /\ runs[d].release = r => runs[d].attempts = attempts[r]
    BY <1>0, <2>1 DEF TryingAll, Trying, Verifying, First
  <2> HIDE DEF run, r
  <2>5. QED
    BY <1>0, <2>1, <2>3, <2>4 DEF TryingAll, Verifying
<1>2. ASSUME \A d \in Discoverers : Verifying(d)' => runs'[d] = runs[d],
             \/ UNCHANGED <<attempts, cooling>>
             \/ \E r \in cooling : Cools(r)
             \/ \E d \in Discoverers : Reject(d)
      PROVE  TryingAll'
  <2>1. ASSUME NEW d \in Discoverers, Verifying(d)', Verifying(d), Trying(runs[d]),
               runs'[d] = runs[d]
        PROVE  Trying(runs[d])'
    <3>1. CASE UNCHANGED <<attempts, cooling>>
      BY <2>1, <3>1 DEF Trying, First
    <3>2. ASSUME NEW r \in cooling, Cools(r) PROVE Trying(runs[d])'
      BY <2>1, <3>2 DEF Trying, First, Cools, Verifying
    <3>3. ASSUME NEW e \in Discoverers, Reject(e) PROVE Trying(runs[d])'
      <4> DEFINE r == runs[e].release
                 n == runs[e].attempts + 1
      <4>1. /\ r \in Releases /\ n \in Nat /\ attempts' = [attempts EXCEPT ![r] = n]
            /\ r \in cooling' /\ cooling \subseteq cooling'
        BY <3>3, RejectCounts DEF Reject
      <4>2. runs[d].release = r => runs[d].attempts + 1 = n
        BY <1>0, <2>1, <3>3 DEF TryingAll, Reject
      <4> HIDE DEF r, n
      <4>3. CASE runs[d].release = r
        BY <1>0, <2>1, <4>1, <4>2, <4>3 DEF Trying, First
      <4>4. CASE runs[d].release # r
        BY <1>0, <2>1, <4>1, <4>4 DEF Trying, First
      <4>5. QED
        BY <4>3, <4>4
    <3>4. QED
      BY <1>2, <3>1, <3>2, <3>3
  <2>2. \A d \in Discoverers : Verifying(d)' => Verifying(d) /\ runs'[d] = runs[d]
    BY <1>2 DEF Verifying
  <2>3. QED
    BY <1>0, <2>1, <2>2 DEF TryingAll
<1>3. QED
  BY <1>1, <1>2, VerifiersMove

\* What a run writes back covers the list it was sent: the limit leaves out
\* only what the list no longer holds, unless the source has changed.
LEMMA NextCursor ==
    ASSUME DiscoveryInv, [NextDiscovery]_discoveryVars
    PROVE  Covers(cursor.waiting, cursor.etag.releases)'
<1>1. CASE cursor' = cursor
  <2>1. Covers(cursor.waiting, cursor.etag.releases) /\ Grows
    BY NextGrows DEF DiscoveryInv
  <2>2. /\ cursor.etag.releases \subseteq DOMAIN published'
        /\ cursor.waiting \subseteq DOMAIN published'
        /\ moves' = 0 => \A r \in cursor.waiting : published'[r].at = source'
        /\ \A r \in cursor.etag.releases :
              Settled(r)' \/ r \in cursor.waiting \/ (moves' > 0 /\ r \in cut')
    BY <2>1, CoversKept
  <2>3. QED
    BY <1>1, <2>2 DEF Covers, OfSource, Covered
<1>2. ASSUME NEW d \in Discoverers, Save(d)
      PROVE  Covers(cursor.waiting, cursor.etag.releases)'
  <2> DEFINE run == runs[d]
             W == run.waiting
             T == Newest(Window, W)
  <2>1. /\ run.left = {} /\ cut' = cut \cup (W \ T)
        /\ cursor'.etag = run.etag /\ cursor'.waiting = T
        /\ UNCHANGED <<source, moves, published, eligible, attempts>>
    BY <1>2 DEF Save, provider, records
  <2>2. Working(run)
    BY <1>2 DEF DiscoveryInv, RunInv, Save, Resting
  <2>3. /\ Covers(W, run.etag.releases)
        /\ moves = 0 => \A r \in run.etag.releases : Cardinality(Newer(r, W)) < Window
    <3>1. W \cup run.left = W
      BY <2>1
    <3> HIDE DEF W
    <3>2. QED
      BY <2>2, <3>1 DEF Working, W
  <2>4. T = {r \in W : Cardinality(Newer(r, W)) < Window}
    BY DEF Newest, Newer
  <2>5. moves \in Nat
    BY DEF DiscoveryInv
  <2> HIDE DEF run, W, T
  <2>6. \A r \in run.etag.releases : Settled(r) \/ r \in T \/ (moves > 0 /\ r \in cut')
    BY <2>1, <2>3, <2>4, <2>5 DEF Covers, Covered
  <2>7. QED
    BY <2>1, <2>3, <2>4, <2>6 DEF Covers, OfSource, Covered, Settled
<1>3. cursor' = cursor \/ \E d \in Discoverers : Save(d)
  BY DEF NextDiscovery, discoveryVars, records, provider, ChangeSource, Publish, WorkflowEnds, Cools,
     Discover, Listing, Skip, Verify, Retain, Postpone, Reject, NoRoom, Interrupted
<1>4. QED
  BY <1>1, <1>2, <1>3

-------------------------------------------------------------------------------
(***************************************************************************)
(* The theorem.                                                            *)
(***************************************************************************)
LEMMA InitDiscovered == InitDiscovery => DiscoveryInv
<1> SUFFICES ASSUME InitDiscovery PROVE DiscoveryInv
  OBVIOUS
<1>1. cursor.etag.releases = {} /\ cursor.waiting = {}
  BY DEF InitDiscovery, NoList
<1>2. Covers(cursor.waiting, cursor.etag.releases)
  BY <1>1 DEF Covers, OfSource
<1>3. \A d \in Discoverers : runs[d] = Resting /\ ~Verifying(d)
  BY DEF InitDiscovery, Verifying, Resting
<1>4. published = <<>> /\ 0 <= MaxReleases
  BY DiscoveryAssumption DEF InitDiscovery
<1>5. QED
  BY <1>2, <1>3, <1>4 DEF InitDiscovery, DiscoveryInv, RunInv

LEMMA NextDiscovered ==
    DiscoveryInv /\ [NextDiscovery]_discoveryVars => DiscoveryInv'
<1> SUFFICES ASSUME DiscoveryInv, [NextDiscovery]_discoveryVars PROVE DiscoveryInv'
  OBVIOUS
<1>1. \A d \in Discoverers : RunInv(runs[d])'
  BY NextRuns
<1>2. QED
  BY <1>1, NextGrows, NextTrying, NextCursor DEF DiscoveryInv, TryingAll, Grows

\* Whatever runs overlap, fail or find the store full, a release on the list
\* the cursor remembers is retained, given up or waiting: the cursor's etag
\* never hides a release nobody will look at again (ReleaseDiscovery.discover).
THEOREM NothingIsForgottenHolds == SpecDiscovery => []NothingIsForgotten
<1>1. DiscoveryInv => NothingIsForgotten
  BY DEF DiscoveryInv, Covers, Covered, NothingIsForgotten
<1>2. QED
  BY <1>1, InitDiscovered, NextDiscovered, PTL DEF SpecDiscovery
=================================================================================
