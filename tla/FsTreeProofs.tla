---------------------------- MODULE FsTreeProofs ----------------------------
(***************************************************************************)
(* The calls of FsTree keep a tree whose current directory is one of its   *)
(* directories, for any names, path limit, contents and base tree.         *)
(*                                                                         *)
(* Shape asks every proper prefix of a path in the tree, not only its      *)
(* parent, to be a directory of the tree; in this form it is inductive     *)
(* without an induction over paths.                                        *)
(***************************************************************************)
EXTENDS FsTree, SequenceTheorems, TLAPS

-----------------------------------------------------------------------------
(* Paths.                                                                  *)

\* A leading part of a path, element by element.
LEMMA FrontFact ==
    ASSUME NEW p \in Seq(Name), NEW k \in 0 .. Len(p)
    PROVE  /\ Front(p, k) \in Seq(Name)
           /\ Len(Front(p, k)) = k
           /\ \A i \in 1 .. k : Front(p, k)[i] = p[i]
<1>1. Len(p) \in Nat /\ \A i \in 1 .. k : p[i] \in Name
  BY LenProperties, ElementOfSeq
<1>2. k \in Int /\ 1 \in Int
  BY <1>1
<1> QED BY <1>1, <1>2, SubSeqProperties DEF Front

\* A leading part of a leading part.
LEMMA FrontFront ==
    ASSUME NEW p \in Seq(Name), NEW j \in 0 .. Len(p), NEW k \in 0 .. j
    PROVE  Front(Front(p, j), k) = Front(p, k)
<1>1. Len(p) \in Nat
  BY LenProperties
<1>2. k \in 0 .. Len(p)
  BY <1>1
<1>3. /\ Front(p, j) \in Seq(Name) /\ Len(Front(p, j)) = j
      /\ \A i \in 1 .. j : Front(p, j)[i] = p[i]
  BY FrontFact
<1>4. /\ Front(p, k) \in Seq(Name) /\ Len(Front(p, k)) = k
      /\ \A i \in 1 .. k : Front(p, k)[i] = p[i]
  BY <1>2, FrontFact
<1>5. k \in 0 .. Len(Front(p, j))
  BY <1>3
<1>6. /\ Front(Front(p, j), k) \in Seq(Name) /\ Len(Front(Front(p, j), k)) = k
      /\ \A i \in 1 .. k : Front(Front(p, j), k)[i] = Front(p, j)[i]
  BY <1>3, <1>5, FrontFact
<1> QED BY <1>1, <1>3, <1>4, <1>6, SeqEqual

\* path_is_inside, element by element.
LEMMA BelowFact ==
    ASSUME NEW p \in Seq(Name), NEW q \in Seq(Name)
    PROVE  Below(p, q) <=> /\ Len(p) <= Len(q)
                           /\ \A i \in 1 .. Len(p) : q[i] = p[i]
<1>1. Len(p) \in Nat /\ Len(q) \in Nat
  BY LenProperties
<1>2. CASE Len(p) <= Len(q)
  <2>1. /\ Front(q, Len(p)) \in Seq(Name) /\ Len(Front(q, Len(p))) = Len(p)
        /\ \A i \in 1 .. Len(p) : Front(q, Len(p))[i] = q[i]
    BY <1>1, <1>2, FrontFact
  <2> QED BY <1>2, <2>1, SeqEqual DEF Below
<1> QED BY <1>1, <1>2 DEF Below

\* What is above q is above what lies below q.
LEMMA BelowFront ==
    ASSUME NEW p \in Seq(Name), NEW q \in Seq(Name), NEW k \in 0 .. Len(q),
           Below(p, Front(q, k))
    PROVE  Below(p, q)
<1>1. Len(p) \in Nat /\ Len(q) \in Nat
  BY LenProperties
<1>2. /\ Front(q, k) \in Seq(Name) /\ Len(Front(q, k)) = k
      /\ \A i \in 1 .. k : Front(q, k)[i] = q[i]
  BY FrontFact
<1> QED BY <1>1, <1>2, BelowFact

\* Every path of two that agree is found in a rooted tree: what lies above a
\* node of the tree is in the tree, and a directory when it is not that node.
LEMMA AboveFact ==
    ASSUME NEW t, Shape(t), NEW p \in Seq(Name), NEW q \in Seq(Name),
           q \in DOMAIN t, Below(p, q)
    PROVE  p \in DOMAIN t /\ (p # q => IsDir(t, p))
<1>1. Len(p) \in Nat /\ Len(q) \in Nat
  BY LenProperties
<1>2. CASE Len(p) = Len(q)
  BY <1>2, SubSeqFull DEF Below, Front
<1>3. CASE Len(p) < Len(q)
  BY <1>1, <1>3 DEF Shape, Rooted, Below, IsDir
<1> QED BY <1>1, <1>2, <1>3 DEF Below

\* The path of a node after its subtree was moved from s to d.
LEMMA RebaseFact ==
    ASSUME NEW s \in Seq(Name), NEW d \in Seq(Name), NEW m \in Seq(Name), Below(s, m)
    PROVE  /\ Rebase(s, d, m) \in Seq(Name)
           /\ Len(Rebase(s, d, m)) = Len(d) + Len(m) - Len(s)
           /\ \A i \in 1 .. Len(d) : Rebase(s, d, m)[i] = d[i]
           /\ \A i \in 1 .. Len(m) - Len(s) :
                Rebase(s, d, m)[Len(d) + i] = m[Len(s) + i]
           /\ Below(d, Rebase(s, d, m))
<1> DEFINE r == SubSeq(m, Len(s) + 1, Len(m))
<1>1. /\ Len(s) \in Nat /\ Len(d) \in Nat /\ Len(m) \in Nat /\ Len(s) <= Len(m)
      /\ \A i \in Len(s) + 1 .. Len(m) : m[i] \in Name
  BY LenProperties, ElementOfSeq DEF Below
<1>2. Len(s) + 1 \in Int /\ Len(m) \in Int
  BY <1>1
<1>3. /\ r \in Seq(Name)
      /\ Len(r) = IF Len(s) + 1 <= Len(m) THEN Len(m) - (Len(s) + 1) + 1 ELSE 0
      /\ \A i \in 1 .. Len(m) - (Len(s) + 1) + 1 : r[i] = m[Len(s) + 1 + i - 1]
  BY <1>1, <1>2, SubSeqProperties
<1>4. Len(r) = Len(m) - Len(s) /\ \A i \in 1 .. Len(m) - Len(s) : r[i] = m[Len(s) + i]
  BY <1>1, <1>3
<1>5. /\ d \o r \in Seq(Name) /\ Len(d \o r) = Len(d) + Len(r)
      /\ \A i \in 1 .. Len(d) + Len(r) :
           (d \o r)[i] = IF i <= Len(d) THEN d[i] ELSE r[i - Len(d)]
  BY <1>3, ConcatProperties
<1>6. Rebase(s, d, m) = d \o r
  BY DEF Rebase
<1> HIDE DEF r
<1>7. \A i \in 1 .. Len(d) : (d \o r)[i] = d[i]
  BY <1>1, <1>4, <1>5
<1>8. \A i \in 1 .. Len(m) - Len(s) : (d \o r)[Len(d) + i] = m[Len(s) + i]
  BY <1>1, <1>4, <1>5
<1>9. Len(d \o r) = Len(d) + Len(m) - Len(s) /\ Len(d) <= Len(d \o r)
  BY <1>1, <1>4, <1>5
<1>10. Below(d, d \o r)
  BY <1>5, <1>7, <1>9, BelowFact
<1> QED BY <1>5, <1>6, <1>7, <1>8, <1>9, <1>10

\* Two nodes of a subtree never get the same new path.
LEMMA RebaseInjective ==
    ASSUME NEW s \in Seq(Name), NEW d \in Seq(Name),
           NEW m \in Seq(Name), Below(s, m), NEW n \in Seq(Name), Below(s, n),
           Rebase(s, d, m) = Rebase(s, d, n)
    PROVE  m = n
<1>1. Len(s) \in Nat /\ Len(d) \in Nat /\ Len(m) \in Nat /\ Len(n) \in Nat
  BY LenProperties
<1>2. /\ Len(Rebase(s, d, m)) = Len(d) + Len(m) - Len(s)
      /\ \A i \in 1 .. Len(m) - Len(s) : Rebase(s, d, m)[Len(d) + i] = m[Len(s) + i]
  BY RebaseFact
<1>3. /\ Len(Rebase(s, d, n)) = Len(d) + Len(n) - Len(s)
      /\ \A i \in 1 .. Len(n) - Len(s) : Rebase(s, d, n)[Len(d) + i] = n[Len(s) + i]
  BY RebaseFact
<1>4. Len(m) = Len(n) /\ Len(s) <= Len(m)
  BY <1>1, <1>2, <1>3 DEF Below
<1>5. \A i \in 1 .. Len(s) : m[i] = n[i]
  <2>1. \A i \in 1 .. Len(s) : m[i] = s[i]
    BY BelowFact
  <2>2. \A i \in 1 .. Len(s) : n[i] = s[i]
    BY BelowFact
  <2> QED BY <2>1, <2>2
<1>6. \A i \in 1 .. Len(m) - Len(s) : m[Len(s) + i] = n[Len(s) + i]
  <2>1. \A i \in 1 .. Len(m) - Len(s) : Rebase(s, d, m)[Len(d) + i] = n[Len(s) + i]
    BY <1>3, <1>4
  <2> QED BY <1>2, <2>1
<1>7. ASSUME NEW i \in 1 .. Len(m) PROVE m[i] = n[i]
  <2>1. CASE i <= Len(s)
    BY <1>1, <1>5, <2>1
  <2>2. CASE i > Len(s)
    <3>1. i - Len(s) \in 1 .. Len(m) - Len(s) /\ Len(s) + (i - Len(s)) = i
      BY <1>1, <1>4, <2>2
    <3> QED BY <1>6, <3>1
  <2> QED BY <1>1, <2>1, <2>2
<1> QED BY <1>4, <1>7, SeqEqual

\* Moving a node moves what is above it within the subtree.
LEMMA RebaseFront ==
    ASSUME NEW s \in Seq(Name), NEW d \in Seq(Name), NEW m \in Seq(Name), Below(s, m),
           NEW k \in Nat, Len(d) <= k, k < Len(Rebase(s, d, m))
    PROVE  /\ Len(s) + k - Len(d) \in 0 .. Len(m) - 1
           /\ Below(s, Front(m, Len(s) + k - Len(d)))
           /\ Front(Rebase(s, d, m), k) = Rebase(s, d, Front(m, Len(s) + k - Len(d)))
<1> DEFINE j == Len(s) + k - Len(d)
           n == Front(m, j)
           r == Rebase(s, d, m)
<1>1. Len(s) \in Nat /\ Len(d) \in Nat /\ Len(m) \in Nat /\ Len(s) <= Len(m)
  BY LenProperties DEF Below
<1>2. /\ r \in Seq(Name) /\ Len(r) = Len(d) + Len(m) - Len(s)
      /\ \A i \in 1 .. Len(d) : r[i] = d[i]
      /\ \A i \in 1 .. Len(m) - Len(s) : r[Len(d) + i] = m[Len(s) + i]
  BY RebaseFact
<1>3. j \in 0 .. Len(m) - 1 /\ j \in 0 .. Len(m) /\ Len(s) <= j
  BY <1>1, <1>2
<1>4. n \in Seq(Name) /\ Len(n) = j /\ \A i \in 1 .. j : n[i] = m[i]
  BY <1>3, FrontFact
<1>5. Below(s, n)
  <2>1. \A i \in 1 .. Len(s) : m[i] = s[i]
    BY BelowFact
  <2> HIDE DEF n, j
  <2> QED BY <1>1, <1>3, <1>4, <2>1, BelowFact
<1>6. /\ Rebase(s, d, n) \in Seq(Name) /\ Len(Rebase(s, d, n)) = Len(d) + Len(n) - Len(s)
      /\ \A i \in 1 .. Len(d) : Rebase(s, d, n)[i] = d[i]
      /\ \A i \in 1 .. Len(n) - Len(s) : Rebase(s, d, n)[Len(d) + i] = n[Len(s) + i]
  BY <1>4, <1>5, RebaseFact
<1>7. k \in 0 .. Len(r) /\ Len(Rebase(s, d, n)) = k
  BY <1>1, <1>2, <1>4, <1>6
<1>8. Front(r, k) \in Seq(Name) /\ Len(Front(r, k)) = k /\ \A i \in 1 .. k : Front(r, k)[i] = r[i]
  BY <1>2, <1>7, FrontFact
<1> HIDE DEF r, n
<1>9. ASSUME NEW i \in 1 .. k PROVE r[i] = Rebase(s, d, n)[i]
  <2>1. CASE i <= Len(d)
    BY <1>1, <1>2, <1>6, <2>1
  <2>2. CASE i > Len(d)
    <3> DEFINE e == i - Len(d)
    <3>1. /\ e \in 1 .. Len(m) - Len(s) /\ e \in 1 .. Len(n) - Len(s)
          /\ Len(d) + e = i /\ Len(s) + e \in 1 .. j
      BY <1>1, <1>2, <1>3, <1>4, <1>7, <2>2
    <3>2. r[Len(d) + e] = m[Len(s) + e]
      BY <1>2, <3>1
    <3>3. Rebase(s, d, n)[Len(d) + e] = n[Len(s) + e]
      BY <1>6, <3>1
    <3>4. n[Len(s) + e] = m[Len(s) + e]
      BY <1>4, <3>1
    <3> HIDE DEF e
    <3> QED BY <3>1, <3>2, <3>3, <3>4
  <2> QED BY <1>1, <2>1, <2>2
<1>10. Front(r, k) = Rebase(s, d, n)
  BY <1>6, <1>7, <1>8, <1>9, SeqEqual
<1> QED BY <1>3, <1>5, <1>10 DEF r, n

-----------------------------------------------------------------------------
(* Trees.                                                                  *)

\* A tree of nodes as FsTree keeps it.
IsTree(t) == DOMAIN t \subseteq Path /\ t \in [DOMAIN t -> NodeInfo] /\ Shape(t)

\* The paths that fit are sequences of names.
LEMMA PathSeq == \A p \in Path : p \in Seq(Name)
BY TreeAssumption

\* ensure_directory_absolute: what it adds hangs below directories, and it
\* changes nothing that was there.
LEMMA WithDirsTree ==
    ASSUME NEW t, IsTree(t), NEW p, NEW new, DirsTowards(t, p, new)
    PROVE  /\ IsTree(WithDirs(t, new))
           /\ DOMAIN WithDirs(t, new) = DOMAIN t \cup new
           /\ \A q \in DOMAIN t : WithDirs(t, new)[q] = t[q]
           /\ \A q : IsDir(t, q) => IsDir(WithDirs(t, new), q)
<1> DEFINE u == WithDirs(t, new)
<1>1. DOMAIN u = DOMAIN t \cup new /\ \A q \in DOMAIN t : u[q] = t[q]
  BY DEF WithDirs
<1>2. \A q : IsDir(t, q) => IsDir(u, q)
  BY <1>1 DEF IsDir
<1>3. DOMAIN u \subseteq Path
  BY <1>1 DEF IsTree, DirsTowards
<1>4. u \in [DOMAIN u -> NodeInfo]
  BY TreeAssumption DEF IsTree, WithDirs, NodeInfo, NewDir, DIR
<1>5. ASSUME NEW q \in DOMAIN u PROVE Rooted(u, q)
  <2>1. CASE q \in DOMAIN t
    BY <1>2, <2>1 DEF IsTree, Shape, Rooted
  <2>2. CASE q \in new
    BY <2>2 DEF DirsTowards
  <2> QED BY <1>1, <2>1, <2>2
<1>6. IsDir(u, <<>>)
  BY <1>2 DEF IsTree, Shape
<1>7. Shape(u)
  BY <1>5, <1>6 DEF Shape
<1> QED BY <1>1, <1>2, <1>3, <1>4, <1>7 DEF IsTree

\* Everything above a path whose parent is a directory is a directory; and
\* nothing made on the way to the parent is that path.
LEMMA ParentFact ==
    ASSUME NEW t, IsTree(t), NEW p \in Path, p # <<>>, p \notin DOMAIN t,
           NEW new, DirsTowards(t, Parent(p), new),
           IsDir(WithDirs(t, new), Parent(p))
    PROVE  /\ p \notin DOMAIN WithDirs(t, new)
           /\ Rooted(WithDirs(t, new), p)
<1> DEFINE u == WithDirs(t, new)
<1>1. p \in Seq(Name) /\ Len(p) \in Nat \ {0}
  BY PathSeq, EmptySeq
<1>2. Len(p) - 1 \in 0 .. Len(p)
  BY <1>1
<1>3. Parent(p) \in Seq(Name) /\ Len(Parent(p)) = Len(p) - 1
  BY <1>1, <1>2, FrontFact DEF Parent
<1>4. p \notin new
  BY <1>1, <1>3 DEF DirsTowards, Below
<1>5. p \notin DOMAIN u
  BY <1>4, WithDirsTree
<1>6. Rooted(u, Parent(p))
  BY WithDirsTree DEF IsTree, Shape, IsDir
<1>7. ASSUME NEW k \in 0 .. Len(p) - 1 PROVE IsDir(u, Front(p, k))
  <2>1. CASE k = Len(p) - 1
    BY <2>1 DEF Parent
  <2>2. CASE k < Len(p) - 1
    <3>1. k \in 0 .. Len(p) - 1 /\ k \in 0 .. Len(Parent(p)) - 1
      BY <1>1, <1>3, <2>2
    <3>2. Front(Parent(p), k) = Front(p, k)
      BY <1>1, <1>2, <3>1, FrontFront DEF Parent
    <3> QED BY <1>6, <3>1, <3>2 DEF Rooted
  <2> QED BY <1>1, <2>1, <2>2
<1> QED BY <1>5, <1>7 DEF Rooted

\* Nothing of the tree lies below a path that is not in it.
LEMMA NothingBelow ==
    ASSUME NEW t, IsTree(t), NEW d \in Path, d \notin DOMAIN t,
           NEW q \in Seq(Name), Below(d, q)
    PROVE  q \notin DOMAIN t
BY PathSeq, AboveFact DEF IsTree

\* filesystem_copy and filesystem_move: the subtree found at its new place is
\* a tree there, and what stays behind is still one.
LEMMA GraftedTree ==
    ASSUME NEW t, IsTree(t), NEW s \in DOMAIN t, NEW d \in Path, NEW copy \in BOOLEAN,
           d \notin DOMAIN t, Rooted(t, d), copy \/ s # <<>>,
           ~Below(s, d),
           \A q \in DOMAIN t : Below(s, q) => Rebase(s, d, q) \in Path
    PROVE  /\ IsTree(Grafted(t, s, d, copy))
           /\ \A q : IsDir(t, q) =>
                IF Below(s, q) THEN IsDir(Grafted(t, s, d, copy), Rebase(s, d, q))
                ELSE IsDir(Grafted(t, s, d, copy), q)
<1> DEFINE moved == {q \in DOMAIN t : Below(s, q)}
           kept == IF copy THEN DOMAIN t ELSE DOMAIN t \ moved
           g == Grafted(t, s, d, copy)
           R(m) == Rebase(s, d, m)
<1>1. /\ s \in Seq(Name) /\ d \in Seq(Name) /\ \A q \in DOMAIN t : q \in Seq(Name)
      /\ Len(s) \in Nat /\ Len(d) \in Nat
  BY PathSeq, LenProperties DEF IsTree
<1>2. g = [q \in kept \cup {R(m) : m \in moved} |->
             IF q \in kept THEN t[q] ELSE t[CHOOSE m \in moved : R(m) = q]]
  BY DEF Grafted
<1>3. kept \subseteq DOMAIN t /\ \A q \in DOMAIN t : ~Below(s, q) => q \in kept
  OBVIOUS
<1>4. ASSUME NEW m \in moved
      PROVE  R(m) \in Seq(Name) /\ R(m) \notin DOMAIN t /\ R(m) \in Path
  <2>1. m \in Seq(Name) /\ Below(s, m) /\ m \in DOMAIN t
    BY <1>1
  <2>2. R(m) \in Seq(Name) /\ Below(d, R(m))
    BY <1>1, <2>1, RebaseFact
  <2> QED BY <2>1, <2>2, NothingBelow
<1>5. \A m, n \in moved : R(m) = R(n) => m = n
  BY <1>1, RebaseInjective
<1> HIDE DEF moved, kept, R
<1>6. DOMAIN g = kept \cup {R(m) : m \in moved}
  BY <1>2
<1>7. \A q \in kept : g[q] = t[q]
  BY <1>2
<1>8. ASSUME NEW m \in moved PROVE g[R(m)] = t[m]
  <2>1. R(m) \notin kept
    BY <1>3, <1>4
  <2>2. (CHOOSE n \in moved : R(n) = R(m)) = m
    BY <1>5
  <2> QED BY <1>2, <2>1, <2>2
<1> HIDE DEF g
<1>9. \A m \in moved : m \in DOMAIN t /\ Below(s, m)
  BY DEF moved
<1>10. \A q : IsDir(t, q) /\ q \in kept => IsDir(g, q)
  BY <1>6, <1>7 DEF IsDir
<1>11. \A q : IsDir(t, q) /\ q \in moved => IsDir(g, R(q))
  BY <1>6, <1>8 DEF IsDir
<1>12. DOMAIN g \subseteq Path
  BY <1>3, <1>4, <1>6 DEF IsTree
<1>13. g \in [DOMAIN g -> NodeInfo]
  <2>1. \A q \in DOMAIN g : g[q] \in NodeInfo
    BY <1>3, <1>6, <1>7, <1>8, <1>9 DEF IsTree
  <2>2. g = [q \in DOMAIN g |-> g[q]]
    BY <1>2
  <2> QED BY <2>1, <2>2
<1>14. \A q \in kept : \A k \in 0 .. Len(q) - 1 :
         Front(q, k) \in DOMAIN t => Front(q, k) \in kept
  <2> SUFFICES ASSUME NEW q \in kept, NEW k \in 0 .. Len(q) - 1, Front(q, k) \in DOMAIN t,
                      ~copy
               PROVE  Front(q, k) \in kept
    BY DEF kept
  <2>1. q \in Seq(Name) /\ ~Below(s, q) /\ Len(q) \in Nat
    BY <1>1, LenProperties DEF kept, moved
  <2>2. k \in 0 .. Len(q)
    BY <2>1
  <2>3. ~Below(s, Front(q, k))
    BY <1>1, <2>1, <2>2, BelowFront
  <2> QED BY <1>3, <2>3
<1>15. ASSUME NEW q \in kept PROVE Rooted(g, q)
  BY <1>3, <1>10, <1>14 DEF IsTree, Shape, Rooted, IsDir
<1>16. ASSUME NEW k \in 0 .. Len(d) - 1 PROVE IsDir(g, Front(d, k))
  <2>1. IsDir(t, Front(d, k)) /\ Front(d, k) \in DOMAIN t
    BY DEF Rooted, IsDir
  <2>2. k \in 0 .. Len(d) /\ Front(d, k) \in Seq(Name)
    BY <1>1, FrontFact
  <2>3. ~Below(s, Front(d, k))
    BY <1>1, <2>2, BelowFront
  <2> QED BY <1>3, <1>10, <2>1, <2>3
<1>17. ASSUME NEW m \in moved PROVE Rooted(g, R(m))
  <2> SUFFICES ASSUME NEW k \in 0 .. Len(R(m)) - 1 PROVE IsDir(g, Front(R(m), k))
    BY DEF Rooted
  <2>1. m \in Seq(Name) /\ Below(s, m) /\ m \in DOMAIN t /\ R(m) \in Seq(Name)
    BY <1>1, <1>4, <1>9
  <2>2. Below(d, R(m)) /\ Len(R(m)) \in Nat
    BY <1>1, <2>1, RebaseFact, LenProperties DEF R
  <2>3. CASE k < Len(d)
    <3>1. k \in 0 .. Len(d) - 1 /\ k \in 0 .. Len(d) /\ Len(d) \in 0 .. Len(R(m))
      BY <1>1, <2>2, <2>3 DEF Below
    <3>2. Front(R(m), Len(d)) = d
      BY <2>2 DEF Below
    <3>3. Front(R(m), k) = Front(d, k)
      BY <2>1, <3>1, <3>2, FrontFront
    <3> QED BY <1>16, <3>1, <3>3
  <2>4. CASE Len(d) <= k
    <3> DEFINE j == Len(s) + k - Len(d)
    <3>1. k \in Nat /\ k < Len(R(m))
      BY <2>2
    <3>2. /\ j \in 0 .. Len(m) - 1 /\ Below(s, Front(m, j))
          /\ Front(R(m), k) = R(Front(m, j))
      BY <1>1, <2>1, <2>4, <3>1, RebaseFront DEF R
    <3> HIDE DEF j
    <3>3. IsDir(t, Front(m, j))
      BY <2>1, <3>2 DEF IsTree, Shape, Rooted
    <3>4. Front(m, j) \in moved
      BY <3>2, <3>3 DEF moved, IsDir
    <3> QED BY <1>11, <3>2, <3>3, <3>4
  <2> QED BY <1>1, <2>2, <2>3, <2>4
<1>18. IsDir(g, <<>>)
  <2>1. IsDir(t, <<>>) /\ <<>> \in DOMAIN t
    BY DEF IsTree, Shape, IsDir
  <2>2. <<>> \in kept
    <3>1. s # <<>> => Len(s) # 0 /\ ~Below(s, <<>>)
      BY <1>1, EmptySeq DEF Below
    <3> QED BY <1>3, <2>1, <3>1 DEF kept
  <2> QED BY <1>10, <2>1, <2>2
<1>19. Shape(g)
  BY <1>6, <1>15, <1>17, <1>18 DEF Shape
<1>20. \A q : IsDir(t, q) => IF Below(s, q) THEN IsDir(g, R(q)) ELSE IsDir(g, q)
  BY <1>3, <1>10, <1>11 DEF moved, IsDir
<1> QED BY <1>12, <1>13, <1>19, <1>20 DEF IsTree, R, g

\* What copy and move both do.
LEMMA GraftTree ==
    ASSUME IsTree(tree), NEW s, NEW d, NEW new, NEW copy \in BOOLEAN,
           copy \/ s # <<>>, Graft(s, d, new, copy)
    PROVE  /\ IsTree(tree')
           /\ \A q : IsDir(tree, q) =>
                IF Below(s, q) THEN IsDir(tree', Rebase(s, d, q)) ELSE IsDir(tree', q)
           /\ copy => \A q : IsDir(tree, q) => IsDir(tree', q)
<1> DEFINE t == WithDirs(tree, new)
<1>1. /\ s \in DOMAIN tree /\ d \in Path /\ d # <<>> /\ d \notin DOMAIN tree
      /\ ~Below(s, d)
      /\ DirsTowards(tree, Parent(d), new)
      /\ IsDir(t, Parent(d))
      /\ \A q \in DOMAIN t : Below(s, q) => Rebase(s, d, q) \in Path
      /\ tree' = Grafted(t, s, d, copy)
  BY DEF Graft
<1>2. /\ IsTree(t) /\ DOMAIN t = DOMAIN tree \cup new
      /\ t[s] = tree[s] /\ \A q : IsDir(tree, q) => IsDir(t, q)
  BY <1>1, WithDirsTree
<1>3. d \notin DOMAIN t /\ Rooted(t, d)
  BY <1>1, ParentFact
<1> HIDE DEF t
<1>4. /\ IsTree(Grafted(t, s, d, copy))
      /\ \A q : IsDir(t, q) =>
           IF Below(s, q) THEN IsDir(Grafted(t, s, d, copy), Rebase(s, d, q))
           ELSE IsDir(Grafted(t, s, d, copy), q)
  BY <1>1, <1>2, <1>3, GraftedTree
<1>5. copy => \A q : IsDir(t, q) => IsDir(Grafted(t, s, d, copy), q)
  BY DEF Grafted, IsDir
<1> QED BY <1>1, <1>2, <1>4, <1>5

\* filesystem_remove leaves no node without its directory.
LEMMA RemoveTree ==
    ASSUME IsTree(tree), NEW p, Remove(p)
    PROVE  IsTree(tree') /\ \A q : IsDir(tree, q) /\ ~Below(p, q) => IsDir(tree', q)
<1>1. /\ p \in DOMAIN tree /\ p # <<>>
      /\ tree' = [q \in {r \in DOMAIN tree : ~Below(p, r)} |-> tree[q]]
  BY DEF Remove
<1>2. p \in Seq(Name) /\ Len(p) \in Nat \ {0} /\ \A q \in DOMAIN tree : q \in Seq(Name)
  BY <1>1, PathSeq, EmptySeq DEF IsTree
<1>3. \A q : IsDir(tree, q) /\ ~Below(p, q) => IsDir(tree', q)
  BY <1>1 DEF IsDir
<1>4. ASSUME NEW q \in DOMAIN tree' PROVE Rooted(tree', q)
  <2>1. q \in DOMAIN tree /\ ~Below(p, q) /\ q \in Seq(Name) /\ Len(q) \in Nat
    BY <1>1, <1>2, LenProperties
  <2>2. \A k \in 0 .. Len(q) - 1 : ~Below(p, Front(q, k))
    BY <1>2, <2>1, BelowFront
  <2> QED BY <1>3, <2>1, <2>2 DEF IsTree, Shape, Rooted
<1>5. IsDir(tree', <<>>)
  BY <1>2, <1>3, EmptySeq DEF IsTree, Shape, Below
<1>6. DOMAIN tree' \subseteq Path /\ tree' \in [DOMAIN tree' -> NodeInfo]
  BY <1>1 DEF IsTree
<1> QED BY <1>3, <1>4, <1>5, <1>6 DEF IsTree, Shape

\* filesystem_create_file below directories that exist or are made first.
LEMMA CreateTree ==
    ASSUME IsTree(tree), NEW p, NEW new, CreateFile(p, new)
    PROVE  IsTree(tree') /\ \A q : IsDir(tree, q) => IsDir(tree', q)
<1> DEFINE t == WithDirs(tree, new)
<1>1. /\ p \in Path /\ p # <<>> /\ p \notin DOMAIN tree
      /\ DirsTowards(tree, Parent(p), new) /\ IsDir(t, Parent(p))
      /\ tree' = [q \in DOMAIN t \cup {p} |-> IF q = p THEN NewFile ELSE t[q]]
  BY DEF CreateFile
<1>2. IsTree(t) /\ \A q : IsDir(tree, q) => IsDir(t, q)
  BY <1>1, WithDirsTree
<1>3. p \notin DOMAIN t /\ Rooted(t, p)
  BY <1>1, ParentFact
<1> HIDE DEF t
<1>4. \A q : IsDir(t, q) => IsDir(tree', q)
  BY <1>1, <1>3 DEF IsDir
<1>5. \A q \in DOMAIN tree' : Rooted(tree', q)
  BY <1>1, <1>2, <1>3, <1>4 DEF IsTree, Shape, Rooted
<1>6. DOMAIN tree' \subseteq Path /\ tree' \in [DOMAIN tree' -> NodeInfo]
  BY <1>1, <1>2, TreeAssumption DEF IsTree, NodeInfo, NewFile, FILE
<1> QED BY <1>2, <1>4, <1>5, <1>6 DEF IsTree, Shape

\* filesystem_write_file changes contents only.
LEMMA WriteTree ==
    ASSUME IsTree(tree), NEW p, NEW c, WriteFile(p, c)
    PROVE  IsTree(tree') /\ \A q : IsDir(tree, q) => IsDir(tree', q)
<1>1. /\ p \in DOMAIN tree /\ c \in Content
      /\ tree' = [tree EXCEPT ![p].data = c]
  BY DEF WriteFile
<1>2. tree[p] \in NodeInfo
  BY <1>1 DEF IsTree
<1>3. DOMAIN tree' = DOMAIN tree /\ tree' \in [DOMAIN tree' -> NodeInfo]
  BY <1>1, <1>2 DEF IsTree, NodeInfo
<1>4. \A q : IsDir(tree, q) => IsDir(tree', q)
  BY <1>1, <1>2 DEF IsDir, IsTree, NodeInfo
<1> QED BY <1>3, <1>4 DEF IsTree, Shape, Rooted

-----------------------------------------------------------------------------
(* The theorems.                                                           *)

\* The invariant: the tree is one and the current directory is in it.
FsInv == IsTree(tree) /\ IsDir(tree, cwd)

\* One call keeps the invariant.
LEMMA FsStep == FsInv /\ [Next]_treeVars => FsInv'
<1> SUFFICES ASSUME FsInv, [Next]_treeVars PROVE FsInv'
  OBVIOUS
<1> USE DEF FsInv
<1>1. CASE UNCHANGED treeVars
  BY <1>1 DEF treeVars, IsTree, Shape, Rooted, IsDir
<1>2. ASSUME NEW p, ChangeDirectory(p) PROVE FsInv'
  BY <1>2 DEF ChangeDirectory
<1>3. ASSUME NEW p, Remove(p) PROVE FsInv'
  BY <1>3, RemoveTree DEF Remove
<1>4. ASSUME NEW p, NEW new, MakeDirectories(p, new) PROVE FsInv'
  BY <1>4, WithDirsTree DEF MakeDirectories
<1>5. ASSUME NEW p, NEW new, CreateFile(p, new) PROVE FsInv'
  BY <1>5, CreateTree DEF CreateFile
<1>6. ASSUME NEW s, NEW d, NEW new, Copy(s, d, new) PROVE FsInv'
  BY <1>6, GraftTree DEF Copy
<1>7. ASSUME NEW s, NEW d, NEW new, Move(s, d, new) PROVE FsInv'
  BY <1>7, GraftTree DEF Move
<1>8. ASSUME NEW p, NEW c, WriteFile(p, c) PROVE FsInv'
  BY <1>8, WriteTree DEF WriteFile
<1> QED BY <1>1, <1>2, <1>3, <1>4, <1>5, <1>6, <1>7, <1>8 DEF Next, Refused

\* The invariant holds after any sequence of filesystem calls.
THEOREM FsTreeInvariant == Spec => []FsInv
<1>1. Init => FsInv
  BY TreeAssumption DEF Init, FsInv, IsTree
<1> QED BY <1>1, FsStep, PTL DEF Spec

\* The tree holds only paths that fit ROOT_PATH_MAX, and so does the current
\* directory, copies and moves of subtrees below longer paths included.
THEOREM FsTreeTypes == Spec => []TypeOK
<1>1. FsInv => TypeOK
  BY DEF FsInv, IsTree, TypeOK, IsDir
<1> QED BY <1>1, FsTreeInvariant, PTL

\* Whatever calls are made, every node lies in a directory that exists and
\* the current directory is one: no call orphans a node or removes or moves
\* the current directory away.
THEOREM FsTreeWellShaped == Spec => []WellShaped
<1>1. FsInv => WellShaped
  BY DEF FsInv, IsTree, WellShaped
<1> QED BY <1>1, FsTreeInvariant, PTL
=============================================================================
