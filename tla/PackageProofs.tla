--------------------------- MODULE PackageProofs ---------------------------
(***************************************************************************)
(* Proofs about Packages, for any tree, packages, contents, sizes and      *)
(* number of troubles that PackageAssumption allows.                       *)
(*                                                                         *)
(* A restart puts base nodes back wherever they are missing, below a file  *)
(* too; so the tree need not have the shape that FsTree keeps.  What       *)
(* stays true is that whatever lies above a node is in the tree (Closed).  *)
(***************************************************************************)
EXTENDS Packages, FsTreeProofs, WellFoundedInduction

-----------------------------------------------------------------------------
(* Validation.                                                             *)

\* A valid table lies in front of the data, and each entry's data in the file.
LEMMA ValidInBounds ==
    ASSUME NEW h, h.entries \in Seq(RtpgkEntry),
           h.size \in Usize, h.table_offset \in Usize, h.data_offset \in Usize,
           rtpgk_validate(h), NEW j \in 1 .. Len(h.entries)
    PROVE  /\ h.entries[j].offset + h.entries[j].size <= h.size
           /\ h.table_offset + TableBytes(h) <= h.entries[j].offset
<1>1. USIZE \in Nat \ {0} /\ ENTRY_SIZE \in Nat
  BY PackageAssumption
<1>2. Len(h.entries) \in Nat /\ h.entries[j] \in RtpgkEntry
  BY LenProperties, ElementOfSeq
<1>3. PICK size, table, data, offset, amount \in Usize, bytes \in Nat :
        /\ size = h.size /\ table = h.table_offset /\ data = h.data_offset
        /\ offset = h.entries[j].offset /\ amount = h.entries[j].size
        /\ bytes = TableBytes(h)
  <2>1. h.entries[j].offset \in Usize /\ h.entries[j].size \in Usize
    BY <1>2 DEF RtpgkEntry
  <2>2. TableBytes(h) \in Nat
    BY <1>1, <1>2 DEF TableBytes
  <2> QED BY <2>1, <2>2
<1>4. /\ table <= size /\ bytes <= size - table
      /\ data >= (table + bytes) % USIZE
      /\ offset >= data /\ offset <= size /\ amount <= size - offset
  BY <1>3 DEF rtpgk_validate, range_valid
<1> SUFFICES offset + amount <= size /\ table + bytes <= offset
  BY <1>3
<1>5. /\ size \in 0 .. USIZE - 1 /\ table \in 0 .. USIZE - 1 /\ data \in 0 .. USIZE - 1
      /\ offset \in 0 .. USIZE - 1 /\ amount \in 0 .. USIZE - 1
  BY DEF Usize
<1>6. (table + bytes) % USIZE = table + bytes
  <2>1. table + bytes \in 0 .. USIZE - 1
    BY <1>1, <1>4, <1>5
  <2> QED BY <1>1, <2>1
<1> QED BY <1>1, <1>4, <1>5, <1>6

-----------------------------------------------------------------------------
(* Paths.                                                                  *)

\* A set of numbers has a least one, and a bounded one a largest.
LEMMA MinFact ==
    ASSUME NEW S \in SUBSET Nat, S # {}
    PROVE  Min(S) \in S /\ \A y \in S : Min(S) <= y
<1>1. PICK R : R = OpToRel(<, Nat) OBVIOUS
<1>2. IsWellFoundedOn(R, Nat) BY <1>1, NatLessThanWellFounded
<1>3. \A i, j \in Nat : j < i => <<j, i>> \in R BY <1>1 DEF OpToRel
<1>4. PICK i \in S : \A j \in S : ~(<<j, i>> \in R) BY <1>2, WFMin
<1>5. \A j \in S : j \in Nat /\ i \in Nat /\ ~(j < i) BY <1>3, <1>4
<1>6. \A j \in S : i =< j BY <1>5
<1> QED BY <1>6 DEF Min

LEMMA MaxFact ==
    ASSUME NEW m \in Nat, NEW S \in SUBSET (0 .. m), S # {}
    PROVE  Max(S) \in S /\ \A y \in S : Max(S) >= y
<1>1. PICK T : T = {d \in Nat : m - d \in S} OBVIOUS
<1>2. \A y \in S : y \in 0 .. m /\ m - y \in T /\ m - (m - y) = y BY <1>1
<1>3. T \in SUBSET Nat /\ T # {} BY <1>1, <1>2
<1>4. Min(T) \in T /\ \A y \in T : Min(T) <= y BY <1>3, MinFact
<1>5. PICK x : x = m - Min(T) OBVIOUS
<1>6. x \in S /\ \A y \in S : x >= y
  <2>1. x \in S /\ Min(T) \in Nat BY <1>1, <1>4, <1>5
  <2>2. ASSUME NEW y \in S PROVE x >= y
    <3>1. y \in 0 .. m /\ Min(T) <= m - y BY <1>2, <1>4
    <3> QED BY <1>5, <2>1, <3>1
  <2> QED BY <2>1, <2>2
<1> QED BY <1>6 DEF Max

\* root_path_resolve of a safe path: its components are appended, whatever is
\* behind the last slash left out.
LEMMA SafeResolve ==
    ASSUME NEW base \in Seq(Name), NEW path \in Seq(Component), rtpgk_safe_relative_path(path)
    PROVE  Below(base, root_path_resolve(base, path))
<1>1. PICK n : n = Len(path) OBVIOUS
<1>2. n \in Nat /\ \A k \in 1 .. n : path[k] \in Component
  BY <1>1, LenProperties, ElementOfSeq
<1>3. PICK T : T = Name \cup Component OBVIOUS
<1>4. base \in Seq(T) /\ path \in Seq(T) /\ \A k \in 1 .. n : path[k] \in T
  BY <1>2, <1>3, SeqMonotonic
<1>5. PICK Upto : Upto = [k \in 0 .. n |-> IF k > 0 /\ path[k] = EMPTY THEN k - 1 ELSE k] OBVIOUS
<1>6. \A k \in 0 .. n : Upto[k] \in 0 .. n
  BY <1>2, <1>5
<1>7. ASSUME NEW k \in 0 .. n
      PROVE  /\ SubSeq(path, 1, k) \in Seq(T) /\ Len(SubSeq(path, 1, k)) = k
             /\ \A i \in 1 .. k : SubSeq(path, 1, k)[i] = path[i]
  <2>1. \A i \in 1 .. k : path[i] \in T BY <1>2, <1>4
  <2>2. 1 \in Int /\ k \in Int BY <1>2
  <2> QED BY <1>2, <2>1, <2>2, SubSeqProperties
<1>8. ASSUME NEW k \in 0 .. n
      PROVE  \E p \in Seq(T) :
               /\ p = base \o SubSeq(path, 1, k) /\ Len(p) = Len(base) + k
               /\ \A i \in 1 .. Len(base) + k :
                    p[i] = IF i <= Len(base) THEN base[i] ELSE path[i - Len(base)]
  <2>1. PICK b : b = SubSeq(path, 1, k) OBVIOUS
  <2>2. b \in Seq(T) /\ Len(b) = k /\ \A i \in 1 .. k : b[i] = path[i] BY <1>7, <2>1
  <2>3. PICK a, p : a = base /\ p = a \o b OBVIOUS
  <2>4. /\ p \in Seq(T) /\ Len(p) = Len(a) + Len(b)
        /\ \A i \in 1 .. Len(a) + Len(b) : p[i] = IF i <= Len(a) THEN a[i] ELSE b[i - Len(a)]
    <3>1. a \in Seq(T) /\ b \in Seq(T) BY <1>4, <2>2, <2>3
    <3>2. p = a \o b BY <2>3
    <3> QED BY <3>1, <3>2, ConcatProperties
  <2>5. Len(base) \in Nat BY LenProperties
  <2>6. \A i \in 1 .. Len(base) + k : ~(i <= Len(base)) => i - Len(base) \in 1 .. k BY <1>2, <2>5
  <2> QED BY <2>1, <2>2, <2>3, <2>4, <2>6
<1>9. PICK w : w = [k \in 0 .. n |-> base \o SubSeq(path, 1, Upto[k])] OBVIOUS
<1>10. w[0] = base
  <2>1. Upto[0] = 0 BY <1>2, <1>5
  <2>2. SubSeq(path, 1, 0) = <<>> BY SubSeqEmpty
  <2> QED BY <1>2, <1>4, <1>9, <2>1, <2>2, ConcatEmptySeq
<1>11. ASSUME NEW k \in 1 .. n PROVE w[k] = WithComponent(w[k - 1], path[k])
  <2>1. k - 1 \in 0 .. n /\ k \in 0 .. n /\ k - 1 < n BY <1>2
  <2>2. Upto[k - 1] = k - 1
    <3>1. k - 1 > 0 => path[k - 1] # EMPTY
      BY <1>1, <1>2 DEF rtpgk_safe_relative_path
    <3> QED BY <1>5, <2>1, <3>1
  <2>3. w[k - 1] = base \o SubSeq(path, 1, k - 1) BY <1>9, <2>1, <2>2
  <2>4. CASE path[k] = EMPTY
    <3>1. Upto[k] = k - 1 BY <1>2, <1>5, <2>1, <2>4
    <3>2. w[k] = base \o SubSeq(path, 1, k - 1) BY <1>9, <2>1, <3>1
    <3> QED BY <2>3, <2>4, <3>2 DEF WithComponent
  <2>5. CASE path[k] # EMPTY
    <3>1. Upto[k] = k BY <1>5, <2>1, <2>5
    <3>2. w[k] = base \o SubSeq(path, 1, k) BY <1>9, <2>1, <3>1
    <3>3. WithComponent(w[k - 1], path[k]) = Append(w[k - 1], path[k])
      BY <1>1, <1>2, <2>5 DEF rtpgk_safe_relative_path, WithComponent
    <3>4. PICK d : d = Append(w[k - 1], path[k]) OBVIOUS
    <3>5. /\ w[k] \in Seq(T) /\ Len(w[k]) = Len(base) + k
          /\ \A i \in 1 .. Len(base) + k :
               w[k][i] = IF i <= Len(base) THEN base[i] ELSE path[i - Len(base)]
      BY <1>8, <2>1, <3>2
    <3>6. /\ w[k - 1] \in Seq(T) /\ Len(w[k - 1]) = Len(base) + (k - 1)
          /\ \A i \in 1 .. Len(base) + (k - 1) :
               w[k - 1][i] = IF i <= Len(base) THEN base[i] ELSE path[i - Len(base)]
      BY <1>8, <2>1, <2>3
    <3>7. Len(base) \in Nat /\ path[k] \in T BY <1>4, LenProperties
    <3>8. /\ d \in Seq(T) /\ Len(d) = Len(w[k - 1]) + 1
          /\ \A i \in 1 .. Len(w[k - 1]) : d[i] = w[k - 1][i]
          /\ d[Len(w[k - 1]) + 1] = path[k]
      BY <3>4, <3>6, <3>7, AppendProperties
    <3>9. ASSUME NEW i \in 1 .. Len(base) + k PROVE w[k][i] = d[i]
      <4>1. CASE i < Len(base) + k
        <5>1. i \in 1 .. Len(base) + (k - 1) /\ i \in 1 .. Len(w[k - 1])
          BY <1>2, <3>6, <3>7, <4>1
        <5> QED BY <3>5, <3>6, <3>8, <5>1
      <4>2. CASE i = Len(base) + k
        <5>1. i - Len(base) = k /\ ~(i <= Len(base)) /\ i = Len(w[k - 1]) + 1
          BY <1>2, <3>6, <3>7, <4>2
        <5> QED BY <3>5, <3>8, <5>1
      <4> QED BY <1>2, <3>7, <4>1, <4>2
    <3>10. Len(w[k]) = Len(d) BY <1>2, <3>5, <3>6, <3>7, <3>8
    <3>11. w[k] = d BY <3>5, <3>8, <3>9, <3>10, SeqEqual
    <3> QED BY <3>3, <3>4, <3>11
  <2> QED BY <2>4, <2>5
<1>12. PICK g : /\ g = [k \in 0 .. n |-> IF k = 0 THEN base ELSE WithComponent(g[k - 1], path[k])]
                /\ root_path_resolve(base, path) = g[n]
  <2>1. w = [k \in 0 .. n |-> IF k = 0 THEN base ELSE WithComponent(w[k - 1], path[k])]
    <3>1. w = [k \in 0 .. n |-> w[k]] BY <1>9
    <3>2. ASSUME NEW k \in 0 .. n
          PROVE  w[k] = IF k = 0 THEN base ELSE WithComponent(w[k - 1], path[k])
      <4>1. CASE k = 0 BY <1>10, <4>1
      <4>2. CASE k # 0
        <5>1. k \in 1 .. n BY <1>2, <4>2
        <5> QED BY <1>11, <4>2, <5>1
      <4> QED BY <4>1, <4>2
    <3> QED BY <3>1, <3>2
  <2> DEFINE out == CHOOSE g : g = [k \in 0 .. n |-> IF k = 0 THEN base
                                                     ELSE WithComponent(g[k - 1], path[k])]
  <2>2. out = [k \in 0 .. n |-> IF k = 0 THEN base ELSE WithComponent(out[k - 1], path[k])]
    BY <2>1
  <2>3. root_path_resolve(base, path) = out[n] BY <1>1 DEF root_path_resolve
  <2> QED BY <2>2, <2>3
<1>13. \A k \in 0 .. n : g[k] = w[k]
  <2> SUFFICES ASSUME NEW S, S = {k \in 0 .. n : g[k] # w[k]}, S # {} PROVE FALSE
    OBVIOUS
  <2>1. S \in SUBSET Nat BY <1>2
  <2>2. Min(S) \in S /\ \A y \in S : Min(S) <= y BY <2>1, MinFact
  <2>3. PICK k \in 0 .. n : g[k] # w[k] /\ \A y \in S : k <= y BY <2>2
  <2>4. CASE k = 0 BY <1>2, <1>10, <1>12, <2>3, <2>4
  <2>5. CASE k # 0
    <3>1. k \in 1 .. n /\ k - 1 \in 0 .. n /\ ~(k <= k - 1) BY <1>2, <2>5
    <3>2. g[k - 1] = w[k - 1] BY <2>3, <3>1
    <3>3. g[k] = WithComponent(g[k - 1], path[k]) BY <1>12, <2>5, <3>1
    <3> QED BY <1>11, <2>3, <3>1, <3>2, <3>3
  <2> QED BY <2>4, <2>5
<1>14. root_path_resolve(base, path) = base \o SubSeq(path, 1, Upto[n])
  <2>1. n \in 0 .. n BY <1>2
  <2>2. g[n] = w[n] BY <1>13, <2>1
  <2>3. w[n] = base \o SubSeq(path, 1, Upto[n]) BY <1>9, <2>1
  <2> QED BY <1>12, <2>2, <2>3
<1>15. PICK r \in Seq(T) : root_path_resolve(base, path) = base \o r
  <2>1. Upto[n] \in 0 .. n BY <1>2, <1>6
  <2> QED BY <1>7, <1>14, <2>1
<1>16. Len(base) \in Nat /\ Len(r) \in Nat /\ Len(base \o r) = Len(base) + Len(r)
  BY <1>4, LenProperties, ConcatProperties
<1>17. SubSeq(base \o r, 1, Len(base)) = base
  <2>1. \A i \in 1 .. Len(base) + Len(r) : (base \o r)[i] \in T
    BY <1>4, <1>16, ConcatProperties, ElementOfSeq
  <2>2. \A i \in 1 .. Len(base) : (base \o r)[i] = base[i] /\ (base \o r)[i] \in T
    BY <1>4, <1>16, <2>1, ConcatProperties
  <2>3. /\ SubSeq(base \o r, 1, Len(base)) \in Seq(T)
        /\ Len(SubSeq(base \o r, 1, Len(base))) = Len(base)
        /\ \A i \in 1 .. Len(base) : SubSeq(base \o r, 1, Len(base))[i] = (base \o r)[i]
    <3>1. 1 \in Int /\ Len(base) \in Int BY <1>16
    <3> QED BY <1>16, <2>2, <3>1, SubSeqProperties
  <2> QED BY <1>4, <2>2, <2>3, SeqEqual
<1> QED BY <1>15, <1>16, <1>17 DEF Below, Front

-----------------------------------------------------------------------------
(* Trees.                                                                  *)

\* Whatever is above a node is in the tree.
Closed(t) == \A q \in DOMAIN t : \A k \in 0 .. Len(q) : Front(q, k) \in DOMAIN t
Nodes(t) == DOMAIN t \subseteq Path /\ t \in [DOMAIN t -> NodeInfo] /\ Closed(t)

LEMMA PathFact ==
    ASSUME NEW p \in Path
    PROVE  /\ p \in Seq(Name) /\ Len(p) \in Nat
           /\ \A k \in 0 .. Len(p) : Front(p, k) \in Seq(Name) /\ Len(Front(p, k)) = k
           /\ Front(p, Len(p)) = p
<1>1. p \in Seq(Name) BY PathSeq
<1> QED BY <1>1, LenProperties, FrontFact, SubSeqFull DEF Front

\* Below in terms of leading parts.
LEMMA BelowIsFront ==
    ASSUME NEW p, NEW q, Len(p) \in Nat
    PROVE  Below(p, q) <=> Len(p) <= Len(q) /\ Front(q, Len(p)) = p
BY DEF Below

LEMMA NoneBelow ==
    ASSUME NEW t, Nodes(t), NEW d \in Path, d \notin DOMAIN t, NEW q \in DOMAIN t
    PROVE  ~Below(d, q)
<1>1. Len(d) \in Nat /\ Len(q) \in Nat BY PathFact DEF Nodes
<1> QED BY <1>1 DEF Nodes, Closed, Below

\* New directories keep what is there.
LEMMA NodesWithDirs ==
    ASSUME NEW t, Nodes(t), NEW new, new \subseteq Path,
           \A q \in new : \A k \in 0 .. Len(q) : Front(q, k) \in DOMAIN t \cup new
    PROVE  /\ Nodes(WithDirs(t, new))
           /\ DOMAIN WithDirs(t, new) = DOMAIN t \cup new
           /\ \A q \in DOMAIN t : WithDirs(t, new)[q] = t[q]
           /\ \A q \in new : q \notin DOMAIN t => WithDirs(t, new)[q] = NewDir
<1> DEFINE u == WithDirs(t, new)
<1>1. /\ DOMAIN u = DOMAIN t \cup new
      /\ \A q \in DOMAIN t : u[q] = t[q]
      /\ \A q \in new : q \notin DOMAIN t => u[q] = NewDir
  BY DEF WithDirs
<1>2. NewDir \in NodeInfo /\ NewDir.data = <<>>
  BY TreeAssumption DEF NodeInfo, NewDir, DIR
<1>3. u \in [DOMAIN u -> NodeInfo]
  BY <1>2 DEF Nodes, WithDirs
<1>4. Closed(u)
  BY <1>1 DEF Nodes, Closed
<1> QED BY <1>1, <1>3, <1>4 DEF Nodes

\* ensure_directory_absolute in a tree that is only closed.
LEMMA GapsFact ==
    ASSUME NEW t, Nodes(t), NEW p \in Path, CanMake(t, p)
    PROVE  /\ Gaps(t, p) \subseteq Path
           /\ \A q \in Gaps(t, p) : q \notin DOMAIN t /\ Below(q, p) /\ q \in Prefixes(p)
           /\ \A q \in Gaps(t, p) : \A k \in 0 .. Len(q) : Front(q, k) \in DOMAIN t \cup Gaps(t, p)
           /\ \A k \in 0 .. Len(p) : Front(p, k) \in DOMAIN t \cup Gaps(t, p)
<1>1. /\ p \in Seq(Name) /\ Len(p) \in Nat
      /\ \A k \in 0 .. Len(p) : Front(p, k) \in Seq(Name) /\ Len(Front(p, k)) = k
  BY PathFact
<1>2. \A k \in 0 .. Len(p) : Front(p, k) \in DOMAIN t \cup Gaps(t, p)
  BY DEF Gaps, Prefixes
<1>3. Gaps(t, p) \subseteq Path
  BY DEF Gaps, CanMake
<1>4. ASSUME NEW q \in Gaps(t, p)
      PROVE  /\ q \notin DOMAIN t /\ Below(q, p) /\ q \in Prefixes(p)
             /\ \A k \in 0 .. Len(q) : Front(q, k) \in DOMAIN t \cup Gaps(t, p)
  <2>1. q \notin DOMAIN t /\ q \in Prefixes(p) BY DEF Gaps
  <2>2. PICK j \in 0 .. Len(p) : q = Front(p, j) BY <2>1 DEF Prefixes
  <2>3. Len(q) = j BY <1>1, <2>2
  <2>4. Below(q, p) BY <1>1, <2>2, <2>3 DEF Below
  <2>5. ASSUME NEW k \in 0 .. Len(q) PROVE Front(q, k) \in DOMAIN t \cup Gaps(t, p)
    <3>1. k \in 0 .. j /\ k \in 0 .. Len(p) BY <1>1, <2>3
    <3>2. Front(q, k) = Front(p, k) BY <1>1, <2>2, <3>1, FrontFront
    <3> QED BY <1>2, <3>1, <3>2
  <2> QED BY <2>1, <2>4, <2>5
<1> QED BY <1>2, <1>3, <1>4

\* The same for the directories that FsTree's calls make.
LEMMA TowardsFact ==
    ASSUME NEW t, Nodes(t), NEW p, NEW new, DirsTowards(t, p, new)
    PROVE  /\ new \subseteq Path
           /\ \A q \in new : \A k \in 0 .. Len(q) : Front(q, k) \in DOMAIN t \cup new
<1>1. new \subseteq Path BY DEF DirsTowards
<1>2. ASSUME NEW q \in new, NEW k \in 0 .. Len(q) PROVE Front(q, k) \in DOMAIN t \cup new
  <2>1. Len(q) \in Nat /\ Front(q, Len(q)) = q BY <1>1, PathFact
  <2>2. CASE k = Len(q) BY <2>1, <2>2
  <2>3. CASE k # Len(q)
    <3>1. k \in 0 .. Len(q) - 1 BY <2>1, <2>3
    <3>2. IsDir(WithDirs(t, new), Front(q, k)) BY <3>1 DEF DirsTowards, Rooted
    <3> QED BY <3>2 DEF IsDir, WithDirs
  <2> QED BY <2>2, <2>3
<1> QED BY <1>1, <1>2

\* A node is put where its parent is.
LEMMA NodesPut ==
    ASSUME NEW t, Nodes(t), NEW p \in Path, p # <<>>, Parent(p) \in DOMAIN t,
           NEW info \in NodeInfo
    PROVE  /\ Nodes(Put(t, p, info))
           /\ DOMAIN Put(t, p, info) = DOMAIN t \cup {p}
           /\ Put(t, p, info)[p] = info
           /\ \A q \in DOMAIN t : q # p => Put(t, p, info)[q] = t[q]
<1> DEFINE u == Put(t, p, info)
<1>1. /\ DOMAIN u = DOMAIN t \cup {p} /\ u[p] = info
      /\ \A q \in DOMAIN t : q # p => u[q] = t[q]
  BY DEF Put
<1>2. /\ p \in Seq(Name) /\ Len(p) \in Nat \ {0} /\ Front(p, Len(p)) = p
  BY PathFact, EmptySeq
<1>3. ASSUME NEW k \in 0 .. Len(p) PROVE Front(p, k) \in DOMAIN u
  <2>1. CASE k = Len(p) BY <1>1, <1>2, <2>1
  <2>2. CASE k # Len(p)
    <3>1. k \in 0 .. Len(p) - 1 /\ Len(p) - 1 \in 0 .. Len(p) BY <1>2, <2>2
    <3>2. Front(Parent(p), k) = Front(p, k) BY <1>2, <3>1, FrontFront DEF Parent
    <3>3. Len(Parent(p)) = Len(p) - 1 BY <1>2, <3>1, FrontFact DEF Parent
    <3> QED BY <1>1, <3>1, <3>2, <3>3 DEF Nodes, Closed
  <2> QED BY <2>1, <2>2
<1>4. Closed(u) BY <1>1, <1>3 DEF Nodes, Closed
<1>5. u \in [DOMAIN u -> NodeInfo] BY <1>1 DEF Nodes, Put
<1> QED BY <1>1, <1>4, <1>5 DEF Nodes

\* filesystem_remove.
LEMMA NodesCut ==
    ASSUME NEW t, Nodes(t), NEW p \in Seq(Name)
    PROVE  /\ Nodes(Cut(t, p))
           /\ DOMAIN Cut(t, p) = {q \in DOMAIN t : ~Below(p, q)}
           /\ \A q \in DOMAIN Cut(t, p) : Cut(t, p)[q] = t[q]
<1> DEFINE u == Cut(t, p)
<1>1. /\ DOMAIN u = {q \in DOMAIN t : ~Below(p, q)}
      /\ \A q \in DOMAIN u : u[q] = t[q]
  BY DEF Cut
<1>2. ASSUME NEW q \in DOMAIN u, NEW k \in 0 .. Len(q) PROVE Front(q, k) \in DOMAIN u
  <2>1. q \in Seq(Name) /\ q \in DOMAIN t BY <1>1, PathSeq DEF Nodes
  <2>2. ~Below(p, Front(q, k)) BY <1>1, <2>1, BelowFront
  <2> QED BY <1>1, <2>1, <2>2 DEF Nodes, Closed
<1>3. u \in [DOMAIN u -> NodeInfo] BY <1>1 DEF Nodes, Cut
<1> QED BY <1>1, <1>2, <1>3 DEF Nodes, Closed

\* filesystem_copy and filesystem_move: what is above a node that moves moves
\* with it, up to s, and what is above its new place stays.
LEMMA NodesGrafted ==
    ASSUME NEW t, Nodes(t), NEW s \in DOMAIN t, NEW d \in Path, d # <<>>, NEW copy \in BOOLEAN,
           d \notin DOMAIN t, Parent(d) \in DOMAIN t, ~Below(s, d),
           \A q \in DOMAIN t : Below(s, q) => Rebase(s, d, q) \in Path
    PROVE  Nodes(Grafted(t, s, d, copy))
<1> DEFINE moved == {q \in DOMAIN t : Below(s, q)}
           kept == IF copy THEN DOMAIN t ELSE DOMAIN t \ moved
           g == Grafted(t, s, d, copy)
           R(m) == Rebase(s, d, m)
<1>1. /\ s \in Seq(Name) /\ d \in Seq(Name) /\ \A q \in DOMAIN t : q \in Seq(Name)
      /\ Len(s) \in Nat /\ Len(d) \in Nat \ {0}
  BY PathSeq, LenProperties, EmptySeq DEF Nodes
<1>2. g = [q \in kept \cup {R(m) : m \in moved} |->
             IF q \in kept THEN t[q] ELSE t[CHOOSE m \in moved : R(m) = q]]
  BY DEF Grafted
<1>3. /\ kept \subseteq DOMAIN t /\ \A q \in DOMAIN t : ~Below(s, q) => q \in kept
      /\ moved \subseteq DOMAIN t
  OBVIOUS
<1>4. /\ \A m \in moved : Below(s, m) /\ m \in Seq(Name) /\ R(m) \in Path
      /\ \A m \in DOMAIN t : Below(s, m) => m \in moved
      /\ \A q \in kept : copy \/ ~Below(s, q)
      /\ copy => kept = DOMAIN t
  BY <1>1
<1> HIDE DEF moved, kept
<1>5. DOMAIN g = kept \cup {R(m) : m \in moved}
  BY <1>2
<1>6. ASSUME NEW q \in DOMAIN g PROVE \E r \in DOMAIN t : g[q] = t[r]
  <2>1. CASE q \in kept BY <1>2, <1>3, <2>1
  <2>2. CASE q \notin kept
    <3>1. \E m \in moved : R(m) = q BY <1>5, <2>2
    <3>2. (CHOOSE m \in moved : R(m) = q) \in moved BY <3>1
    <3> QED BY <1>2, <1>3, <1>5, <2>2, <3>2
  <2> QED BY <2>1, <2>2
<1>7. g \in [DOMAIN g -> NodeInfo]
  <2>1. \A q \in DOMAIN g : g[q] \in NodeInfo BY <1>6 DEF Nodes
  <2>2. g = [q \in DOMAIN g |-> g[q]] BY <1>2
  <2> QED BY <2>1, <2>2
<1>8. DOMAIN g \subseteq Path BY <1>3, <1>4, <1>5 DEF Nodes
<1>9. ASSUME NEW q \in kept, NEW k \in 0 .. Len(q) PROVE Front(q, k) \in kept
  <2>1. q \in Seq(Name) /\ q \in DOMAIN t BY <1>1, <1>3
  <2>2. Front(q, k) \in DOMAIN t BY <2>1 DEF Nodes, Closed
  <2>3. CASE copy BY <1>4, <2>2, <2>3
  <2>4. CASE ~copy
    <3>1. ~Below(s, Front(q, k)) BY <1>1, <1>4, <2>1, <2>4, BelowFront
    <3> QED BY <1>3, <2>2, <3>1
  <2> QED BY <2>3, <2>4
<1>10. ASSUME NEW k \in 0 .. Len(d) - 1 PROVE Front(d, k) \in kept
  <2>1. Len(d) - 1 \in 0 .. Len(d) /\ k \in 0 .. Len(d) BY <1>1
  <2>2. Len(Parent(d)) = Len(d) - 1 BY <1>1, <2>1, FrontFact DEF Parent
  <2>3. Front(Parent(d), k) = Front(d, k) BY <1>1, <2>1, FrontFront DEF Parent
  <2>4. Front(d, k) \in DOMAIN t BY <2>2, <2>3 DEF Nodes, Closed
  <2>5. ~Below(s, Front(d, k)) BY <1>1, <2>1, BelowFront
  <2> QED BY <1>3, <2>4, <2>5
<1>11. ASSUME NEW m \in moved, NEW k \in 0 .. Len(R(m)) PROVE Front(R(m), k) \in DOMAIN g
  <2>1. m \in Seq(Name) /\ Below(s, m) /\ m \in DOMAIN t BY <1>3, <1>4
  <2>2. Below(d, R(m)) /\ R(m) \in Seq(Name) /\ Len(R(m)) \in Nat /\ Len(R(m)) >= Len(d)
    BY <1>1, <2>1, RebaseFact, LenProperties DEF Below
  <2>3. CASE k < Len(d)
    <3>1. k \in 0 .. Len(d) - 1 /\ k \in 0 .. Len(d) /\ Len(d) \in 0 .. Len(R(m))
      BY <1>1, <2>2, <2>3
    <3>2. Front(R(m), Len(d)) = d BY <2>2 DEF Below
    <3>3. Front(R(m), k) = Front(d, k) BY <2>2, <3>1, <3>2, FrontFront
    <3> QED BY <1>5, <1>10, <3>1, <3>3
  <2>4. CASE k = Len(R(m))
    <3>1. Front(R(m), k) = R(m) BY <2>2, <2>4, SubSeqFull DEF Front
    <3> QED BY <1>5, <3>1
  <2>5. CASE Len(d) <= k /\ k < Len(R(m))
    <3> DEFINE j == Len(s) + k - Len(d)
    <3>1. k \in Nat BY <2>2
    <3>2. /\ j \in 0 .. Len(m) - 1 /\ Below(s, Front(m, j))
          /\ Front(R(m), k) = R(Front(m, j))
      BY <1>1, <2>1, <2>5, <3>1, RebaseFront
    <3>3. j \in 0 .. Len(m) BY <2>1, <3>2, LenProperties
    <3> HIDE DEF j
    <3>4. Front(m, j) \in DOMAIN t BY <2>1, <3>3 DEF Nodes, Closed
    <3>5. Front(m, j) \in moved BY <1>4, <3>2, <3>4
    <3> QED BY <1>5, <3>2, <3>5
  <2> QED BY <1>1, <2>2, <2>3, <2>4, <2>5
<1>12. Closed(g) BY <1>5, <1>9, <1>11 DEF Closed
<1> QED BY <1>7, <1>8, <1>12 DEF Nodes

\* Any call of the user.
LEMMA UserFact ==
    ASSUME Nodes(tree), UserCall
    PROVE  Nodes(tree')
<1>1. ASSUME NEW p, NEW new, DirsTowards(tree, p, new)
      PROVE  /\ Nodes(WithDirs(tree, new))
             /\ DOMAIN WithDirs(tree, new) = DOMAIN tree \cup new
             /\ \A q \in DOMAIN tree : WithDirs(tree, new)[q] = tree[q]
  <2>1. /\ new \subseteq Path
        /\ \A q \in new : \A k \in 0 .. Len(q) : Front(q, k) \in DOMAIN tree \cup new
    BY <1>1, TowardsFact
  <2> QED BY <2>1, NodesWithDirs
<1>2. ASSUME NEW p \in DOMAIN tree, ChangeDirectory(p) PROVE Nodes(tree')
  BY <1>2 DEF ChangeDirectory
<1>3. ASSUME NEW p \in DOMAIN tree, Remove(p) PROVE Nodes(tree')
  <2>1. tree' = Cut(tree, p) BY <1>3 DEF Remove, Cut
  <2>2. p \in Seq(Name) BY PathSeq DEF Nodes
  <2> QED BY <2>1, <2>2, NodesCut
<1>4. ASSUME NEW p, NEW new, MakeDirectories(p, new) PROVE Nodes(tree')
  BY <1>1, <1>4 DEF MakeDirectories
<1>5. ASSUME NEW p, NEW new, CreateFile(p, new) PROVE Nodes(tree')
  <2> DEFINE t == WithDirs(tree, new)
  <2>1. /\ p \in Path /\ p # <<>> /\ Parent(p) \in DOMAIN t
        /\ tree' = Put(t, p, NewFile) /\ DirsTowards(tree, Parent(p), new)
    BY <1>5 DEF CreateFile, IsDir, Put
  <2>2. Nodes(t) BY <1>1, <2>1
  <2>3. NewFile \in NodeInfo /\ NewFile.data = <<>>
    BY TreeAssumption DEF NodeInfo, NewFile, FILE
  <2> HIDE DEF t
  <2>4. /\ Nodes(tree') /\ DOMAIN tree' = DOMAIN t \cup {p} /\ tree'[p] = NewFile
        /\ \A q \in DOMAIN t : q # p => tree'[q] = t[q]
    <3>1. p \in Path /\ p # <<>> /\ Parent(p) \in DOMAIN t BY <2>1
    <3>2. NewFile \in NodeInfo /\ Nodes(t) BY <2>2, <2>3
    <3>3. PICK info \in NodeInfo : info = NewFile BY <3>2
    <3>4. PICK u : u = Put(t, p, info) OBVIOUS
    <3>5. Nodes(Put(t, p, info)) BY <3>1, <3>2, NodesPut
    <3>6. /\ DOMAIN u = DOMAIN t \cup {p} /\ u[p] = info
          /\ \A q \in DOMAIN t : q # p => u[q] = t[q]
      BY <3>4 DEF Put
    <3>7. tree' = u BY <2>1, <3>3, <3>4
    <3> QED BY <3>3, <3>4, <3>5, <3>6, <3>7
  <2> QED BY <2>4
<1>6. ASSUME NEW s \in DOMAIN tree, NEW d, NEW new, NEW copy \in BOOLEAN, Graft(s, d, new, copy)
      PROVE  Nodes(tree')
  <2> DEFINE t == WithDirs(tree, new)
  <2>1. /\ d \in Path /\ d # <<>> /\ d \notin DOMAIN tree /\ ~Below(s, d)
        /\ DirsTowards(tree, Parent(d), new) /\ Parent(d) \in DOMAIN t
        /\ \A q \in DOMAIN t : Below(s, q) => Rebase(s, d, q) \in Path
        /\ tree' = Grafted(t, s, d, copy)
    BY <1>6 DEF Graft, IsDir
  <2>2. /\ Nodes(t) /\ DOMAIN t = DOMAIN tree \cup new
    BY <1>1, <2>1
  <2>3. d \notin new
    <3>1. d \in Seq(Name) /\ Len(d) \in Nat \ {0} BY <2>1, PathFact, EmptySeq
    <3>2. Len(Parent(d)) = Len(d) - 1
      <4>1. Len(d) - 1 \in 0 .. Len(d) BY <3>1
      <4> QED BY <3>1, <4>1, FrontFact DEF Parent
    <3> QED BY <2>1, <3>1, <3>2 DEF DirsTowards, Below
  <2> HIDE DEF t
  <2> QED BY <2>1, <2>2, <2>3, NodesGrafted
<1>7. ASSUME NEW p \in DOMAIN tree, NEW c \in UserContent, WriteFile(p, c)
      PROVE  Nodes(tree')
  <2>1. /\ tree' = [tree EXCEPT ![p].data = c] /\ c \in Content
        /\ tree[p] \in NodeInfo /\ tree \in [DOMAIN tree -> NodeInfo]
    BY <1>7 DEF WriteFile, Nodes
  <2>2. /\ DOMAIN tree' = DOMAIN tree
        /\ \A q \in DOMAIN tree : q # p => tree'[q] = tree[q]
        /\ tree'[p] = [type |-> tree[p].type, data |-> c]
    BY <2>1 DEF NodeInfo
  <2>3. tree' \in [DOMAIN tree' -> NodeInfo] BY <2>1 DEF NodeInfo
  <2> QED BY <2>2, <2>3 DEF Nodes, Closed
<1> QED BY <1>2, <1>3, <1>4, <1>5, <1>6, <1>7 DEF UserCall, Copy, Move

-----------------------------------------------------------------------------
(* The invariant.  m, g and t stand for pm, ghost and tree.                *)

Names == {i.name : i \in Known}
Lists == {l \in Seq(Known) : Len(l) <= ROOT_PACKAGE_MAX_INSTALLED}

\* The database of t, or a list, has package i; a list has one of this name.
Named(t, i) == Says(Stored(t), i)
In(list, i) == \E k \in 1 .. Len(list) : list[k] = i
InByName(list, n) == \E k \in 1 .. Len(list) : list[k].name = n

\* An install is under way; the list it would leave if it failed.
Installing(m) == m.op = "install" /\ m.pc \in {"entry", "save", "rollback"}
Base(m) == IF m.op = "install" /\ m.pc = "save" THEN Parent(m.installed) ELSE m.installed

CallOK(m) ==
    /\ DOMAIN m = {"pc", "op", "name", "file", "at", "result", "installed"}
    /\ m = [x \in DOMAIN m |-> m[x]]
    /\ m.pc \in {"idle", "entry", "save", "rollback", "unlist", "off"}
    /\ m.installed \in Lists
    /\ m.pc \in {"entry", "rollback"} => m.op = "install"
    /\ m.pc = "entry" => Len(m.installed) < ROOT_PACKAGE_MAX_INSTALLED
    /\ m.pc = "unlist" => m.op = "remove" /\ InByName(m.installed, m.name)
    /\ m.pc = "save" /\ m.op # "install" => m.op = "remove"
    /\ m.pc = "save" => m.name \in Names
    /\ Installing(m) =>
         /\ m.file \in PackageFiles /\ rtpgk_validate(m.file) /\ m.file.name = m.name
         /\ m.at \in 1 .. Len(m.file.entries) + 1
         /\ m.result = "none"

GhostOK(g) ==
    /\ DOMAIN g = {"before", "durable", "torn", "unread", "hurt"}
    /\ g = [x \in DOMAIN g |-> g[x]]
    /\ g.durable \subseteq Lists

\* The database holds a list that it may hold.
StoredOK(t, g) == g.torn \/ \E l \in g.durable : Stored(t) = Lines(l)

\* Outside the database, t is b, parts of a package below root, and
\* directories above root and above the database.
Around(t, b, root) ==
    /\ \A q \in DOMAIN b : ~Below(root, q)
    /\ \A q \in DOMAIN b \ {PACKAGE_DB_PATH} : q \in DOMAIN t /\ t[q] = b[q]
    /\ \A q \in DOMAIN t :
         q \in DOMAIN b \cup Prefixes(APPS) \cup Prefixes(PACKAGE_DB_PATH) \/ Below(root, q)

BeforeOK(t, m, g) ==
    Installing(m) =>
      /\ Around(t, g.before.tree, InstallRoot(m.name))
      /\ g.before.installed \in Seq(Known)
      /\ m.installed = IF m.pc = "save" THEN Append(g.before.installed, Info(m.file))
                       ELSE g.before.installed

EntriesOK(t, m) ==
    /\ m.pc = "entry" => Unpacked(t, m.file, m.at - 1)
    /\ m.op = "install" /\ m.pc = "save" =>
         /\ Unpacked(t, m.file, Len(m.file.entries))
         /\ \A path \in {MANIFEST, m.file.entry} :
              \E j \in 1 .. Len(m.file.entries) : m.file.entries[j].path = path

\* A package on its way in is not in the list, nor in the database unless the
\* name stands there wrongly.
FreshOK(t, m, g) ==
    Installing(m) =>
      /\ ~InByName(Base(m), m.name)
      /\ m.name \in g.hurt \/ \A i \in Known : i.name = m.name => ~Named(t, i)

\* A package of the database or the list has all its files.
NamedOK(t, m, g) ==
    \A i \in Known :
      Named(t, i) \/ In(Base(m), i) => i.name \in g.hurt \/ Complete(t, i)

\* A failed install has left no trace.
FailedOK(t, m, g) ==
    m.op = "install" /\ m.result = "failed" =>
      /\ m.installed = g.before.installed
      /\ \A q \in DOMAIN g.before.tree \ {PACKAGE_DB_PATH} :
           q \in DOMAIN t /\ t[q] = g.before.tree[q]
      /\ DOMAIN t \subseteq DOMAIN g.before.tree \cup Prefixes(APPS) \cup Prefixes(PACKAGE_DB_PATH)

PackageInv ==
    /\ Nodes(tree) /\ CallOK(pm) /\ GhostOK(ghost)
    /\ StoredOK(tree, ghost) /\ BeforeOK(tree, pm, ghost) /\ EntriesOK(tree, pm)
    /\ FreshOK(tree, pm, ghost) /\ NamedOK(tree, pm, ghost)
    /\ FailedOK(tree, pm, ghost)

-----------------------------------------------------------------------------
(* Contents and lists.                                                     *)

LEMMA NamesFact ==
    /\ Names \subseteq Name
    /\ \A h \in PackageFiles : h.name \in Names /\ Info(h) \in Known /\ Info(h).name = h.name
    /\ \A i \in Known : i.name \in Names
    /\ \A i \in Known : i = [name |-> i.name, version |-> i.version, entry |-> i.entry]
    /\ \A i \in Splices : i \in Known /\ i.version # EMPTY
<1>1. Names \subseteq Name BY PackageAssumption DEF Names
<1>2. \A h \in PackageFiles : Info(h) \in Known /\ Info(h).name = h.name BY DEF Known, Info
<1>3. \A i \in Known : i.name \in Names BY DEF Names
<1>4. \A h \in PackageFiles : h.name \in Names
  <2>1. ASSUME NEW h \in PackageFiles PROVE h.name \in Names
    <3>1. PICK i \in Known : i = Info(h) /\ i.name = h.name BY <1>2
    <3> QED BY <1>3, <3>1
  <2> QED BY <2>1
<1>5. ASSUME NEW i \in Known
      PROVE  i = [name |-> i.name, version |-> i.version, entry |-> i.entry]
  <2>1. CASE i \in Splices BY <2>1, PackageAssumption DEF Info
  <2>2. CASE \E h \in PackageFiles : i = Info(h) BY <2>2 DEF Info
  <2> QED BY <2>1, <2>2 DEF Known
<1>6. \A i \in Splices : i \in Known /\ i.version # EMPTY BY PackageAssumption DEF Known
<1> QED BY <1>1, <1>2, <1>3, <1>4, <1>5, <1>6

\* A line of a known package is a line, nothing else is one of them, and it
\* tells which package it is.
LEMMA LineFact ==
    /\ BAD \in AnyLine /\ BAD[1] # "line"
    /\ \A i \in Known : /\ Line(i) \in AnyLine /\ Line(i)[1] = "line"
                        /\ Line(i)[3] = i.version
                        /\ i = [name |-> Line(i)[2], version |-> Line(i)[3], entry |-> Line(i)[4]]
    /\ \A x \in AnyLine : x[1] = "line" => \E i \in Known : x = Line(i)
<1>1. BAD \in AnyLine /\ BAD[1] # "line" BY DEF AnyLine, BAD
<1>2. ASSUME NEW i \in Known
      PROVE  /\ Line(i) \in AnyLine /\ Line(i)[1] = "line" /\ Line(i)[3] = i.version
             /\ i = [name |-> Line(i)[2], version |-> Line(i)[3], entry |-> Line(i)[4]]
  <2>1. PICK n, v, e : n = i.name /\ v = i.version /\ e = i.entry OBVIOUS
  <2>2. Line(i) = <<"line", n, v, e>> BY <2>1 DEF Line
  <2>3. i = [name |-> n, version |-> v, entry |-> e] BY <2>1, NamesFact
  <2>4. Line(i) \in AnyLine BY DEF AnyLine
  <2> QED BY <2>1, <2>2, <2>3, <2>4
<1>3. \A x \in Text : x[1] # "line" BY PackageAssumption
<1>4. \A x \in AnyLine : (\E i \in Known : x = Line(i)) \/ x = BAD \/ x \in Text
  BY DEF AnyLine
<1>5. ASSUME NEW x \in AnyLine, x[1] = "line" PROVE \E i \in Known : x = Line(i)
  BY <1>1, <1>3, <1>4, <1>5
<1> QED BY <1>1, <1>2, <1>5

\* Contents are sequences of lines.
LEMMA ContentFact ==
    /\ \A c \in Content : /\ Len(c) \in 0 .. MAX_LINES /\ c \in [1 .. Len(c) -> AnyLine]
                          /\ \A i \in 1 .. Len(c) : c[i] \in AnyLine
    /\ \A n \in 0 .. MAX_LINES : \A c \in [1 .. n -> AnyLine] : c \in Content /\ Len(c) = n
<1>1. Content = UNION {[1 .. n -> AnyLine] : n \in 0 .. MAX_LINES} /\ MAX_LINES \in Nat
  BY PackageAssumption
<1>2. \A n \in 0 .. MAX_LINES : \A c \in [1 .. n -> AnyLine] : Len(c) = n /\ DOMAIN c = 1 .. n
  BY <1>1, IsASeq, LenProperties
<1> QED BY <1>1, <1>2

\* A database has the packages of its list.
LEMMA LinesFact ==
    ASSUME NEW l \in Lists
    PROVE  /\ Lines(l) \in Content /\ Len(Lines(l)) = Len(l)
           /\ \A j \in 1 .. Len(l) : Lines(l)[j] = Line(l[j])
           /\ \A i \in Known : Says(Lines(l), i) => In(l, i)
<1>1. PICK c : c = Lines(l) OBVIOUS
<1>2. PICK len \in Nat : len = Len(l) /\ len <= MAX_LINES
  <2>1. l \in Seq(Known) /\ Len(l) \in Nat /\ Len(l) <= ROOT_PACKAGE_MAX_INSTALLED
    BY LenProperties DEF Lists
  <2>2. /\ ROOT_PACKAGE_MAX_INSTALLED \in Nat /\ ROOT_PACKAGE_MAX_INSTALLED <= MAX_LINES
        /\ MAX_LINES \in Nat
    BY PackageAssumption
  <2> QED BY <2>1, <2>2
<1>3. \A j \in 1 .. len : l[j] \in Known BY <1>2, ElementOfSeq DEF Lists
<1>4. c = [k \in 1 .. len |-> Line(l[k])] BY <1>1, <1>2 DEF Lines
<1>5. \A k \in 1 .. len : c[k] \in AnyLine BY <1>3, <1>4, LineFact
<1>6. c \in [1 .. len -> AnyLine] BY <1>4, <1>5
<1>7. c \in Content /\ Len(c) = len
  <2>1. MAX_LINES \in Nat BY PackageAssumption
  <2>2. len \in 0 .. MAX_LINES BY <1>2, <2>1
  <2> QED BY <1>6, <2>2, ContentFact
<1>8. ASSUME NEW i \in Known, Says(c, i) PROVE In(l, i)
  <2>1. PICK k \in 1 .. len : c[k] = Line(i) BY <1>7, <1>8 DEF Says
  <2>2. l[k] \in Known /\ Line(l[k]) = Line(i) BY <1>3, <1>4, <2>1
  <2>3. PICK j \in Known : j = l[k] BY <2>2
  <2>4. PICK x : x = Line(i) /\ x = Line(j) BY <2>2, <2>3
  <2>5. /\ i = [name |-> x[2], version |-> x[3], entry |-> x[4]]
        /\ j = [name |-> x[2], version |-> x[3], entry |-> x[4]]
    BY <2>4, LineFact
  <2> QED BY <1>2, <2>3, <2>5 DEF In
<1> QED BY <1>1, <1>2, <1>4, <1>7, <1>8

\* package_database_load takes as many lines as parse and fit.
LEMMA LoadIs ==
    ASSUME NEW c \in Content
    PROVE  \E n \in 0 .. ROOT_PACKAGE_MAX_INSTALLED :
             /\ n <= Len(c) /\ \A j \in 1 .. n : Parsable(c[j])
             /\ \A k \in 0 .. ROOT_PACKAGE_MAX_INSTALLED :
                  k <= Len(c) /\ (\A j \in 1 .. k : Parsable(c[j])) => k <= n
             /\ package_database_load(c) =
                  [j \in 1 .. n |-> [name |-> c[j][2], version |-> c[j][3], entry |-> c[j][4]]]
<1>1. PICK len \in Nat, max \in Nat : len = Len(c) /\ max = ROOT_PACKAGE_MAX_INSTALLED
  BY ContentFact, PackageAssumption
<1>2. PICK T : T = {max, len} OBVIOUS
<1>3. PICK m : m = Min(T) OBVIOUS
<1>4. m \in T /\ m <= max /\ m <= len /\ m \in Nat
  <2>1. T \in SUBSET Nat /\ T # {} BY <1>2
  <2>2. Min(T) \in T /\ \A y \in T : Min(T) <= y BY <2>1, MinFact
  <2> QED BY <1>2, <1>3, <2>1, <2>2
<1>5. PICK S : S = {k \in 0 .. m : \A j \in 1 .. k : Parsable(c[j])} OBVIOUS
<1>6. 0 \in S /\ S \cup {0} = S BY <1>4, <1>5
<1>7. PICK n : n = Max(S) OBVIOUS
<1>8. n \in S /\ \A y \in S : n >= y
  <2>1. S \in SUBSET (0 .. m) /\ S # {} BY <1>4, <1>5, <1>6
  <2>2. Max(S) \in S /\ \A y \in S : Max(S) >= y BY <1>4, <2>1, MaxFact
  <2> QED BY <1>7, <2>2
<1>9. package_database_load(c) =
        [j \in 1 .. n |-> [name |-> c[j][2], version |-> c[j][3], entry |-> c[j][4]]]
  BY <1>1, <1>2, <1>3, <1>5, <1>6, <1>7 DEF package_database_load
<1>10. n \in 0 .. ROOT_PACKAGE_MAX_INSTALLED /\ n <= Len(c) /\ \A j \in 1 .. n : Parsable(c[j])
  BY <1>1, <1>4, <1>5, <1>8
<1>11. ASSUME NEW k \in 0 .. ROOT_PACKAGE_MAX_INSTALLED, k <= Len(c),
              \A j \in 1 .. k : Parsable(c[j])
       PROVE  k <= n
  <2>1. k <= m BY <1>1, <1>2, <1>4, <1>11
  <2>2. k \in S BY <1>1, <1>4, <1>5, <1>11, <2>1
  <2> QED BY <1>5, <1>8, <2>2
<1> QED BY <1>9, <1>10, <1>11

\* Whatever the file holds, a list of known packages that it has is loaded.
LEMMA LoadFact ==
    ASSUME NEW c \in Content
    PROVE  /\ package_database_load(c) \in Lists
           /\ \A i : In(package_database_load(c), i) => Says(c, i)
<1>1. PICK n \in 0 .. ROOT_PACKAGE_MAX_INSTALLED :
        /\ n <= Len(c) /\ \A j \in 1 .. n : Parsable(c[j])
        /\ package_database_load(c) =
             [j \in 1 .. n |-> [name |-> c[j][2], version |-> c[j][3], entry |-> c[j][4]]]
  BY LoadIs
<1>2. PICK l : l = package_database_load(c) OBVIOUS
<1>3. n \in Nat /\ Len(c) \in Nat /\ ROOT_PACKAGE_MAX_INSTALLED \in Nat
  BY ContentFact, PackageAssumption
<1>4. ASSUME NEW j \in 1 .. n
      PROVE  l[j] \in Known /\ j \in 1 .. Len(c) /\ c[j] = Line(l[j])
  <2>1. j \in 1 .. Len(c) BY <1>1, <1>3
  <2>2. c[j] \in AnyLine BY <2>1, ContentFact
  <2>3. c[j][1] = "line" BY <1>1 DEF Parsable
  <2>4. PICK i \in Known : c[j] = Line(i) BY <2>2, <2>3, LineFact
  <2>5. l[j] = [name |-> Line(i)[2], version |-> Line(i)[3], entry |-> Line(i)[4]]
    BY <1>1, <1>2, <2>4
  <2>6. l[j] = i BY <2>5, LineFact
  <2> QED BY <2>1, <2>4, <2>6
<1>5. l \in Seq(Known) /\ Len(l) = n
  <2>1. l = [j \in 1 .. n |-> l[j]] BY <1>1, <1>2
  <2>2. \A j \in 1 .. n : l[j] \in Known BY <1>4
  <2>3. l \in [1 .. n -> Known] BY <2>1, <2>2
  <2> QED BY <1>3, <2>3, IsASeq, LenProperties
<1>6. l \in Lists BY <1>1, <1>5 DEF Lists
<1>7. \A i : In(l, i) => Says(c, i) BY <1>4, <1>5 DEF In, Says
<1> QED BY <1>2, <1>6, <1>7

\* What was saved is loaded, up to the first package without a version.
LEMMA LoadReadable ==
    ASSUME NEW l \in Lists
    PROVE  package_database_load(Lines(l)) = Readable(l)
<1>1. PICK c \in Content : c = Lines(l) BY LinesFact
<1>2. PICK len \in Nat : len = Len(l) /\ len <= ROOT_PACKAGE_MAX_INSTALLED
  BY LenProperties DEF Lists
<1>3. /\ ROOT_PACKAGE_MAX_INSTALLED \in Nat /\ Len(c) = len
      /\ \A j \in 1 .. len : c[j] = Line(l[j])
  BY <1>1, <1>2, LinesFact, PackageAssumption
<1>4. PICK n \in 0 .. ROOT_PACKAGE_MAX_INSTALLED :
        /\ n <= Len(c) /\ \A j \in 1 .. n : Parsable(c[j])
        /\ \A k \in 0 .. ROOT_PACKAGE_MAX_INSTALLED :
             k <= Len(c) /\ (\A j \in 1 .. k : Parsable(c[j])) => k <= n
        /\ package_database_load(c) =
             [j \in 1 .. n |-> [name |-> c[j][2], version |-> c[j][3], entry |-> c[j][4]]]
  BY LoadIs
<1>5. n \in 0 .. len BY <1>3, <1>4
<1>6. ASSUME NEW j \in 1 .. len
      PROVE  /\ Parsable(c[j]) <=> l[j].version # EMPTY
             /\ l[j] = [name |-> c[j][2], version |-> c[j][3], entry |-> c[j][4]]
  <2>1. l[j] \in Known BY <1>2, ElementOfSeq DEF Lists
  <2>2. PICK i \in Known : i = l[j] BY <2>1
  <2>3. c[j] = Line(i) BY <1>3, <2>2
  <2>4. /\ c[j][1] = "line" /\ c[j][3] = i.version
        /\ i = [name |-> c[j][2], version |-> c[j][3], entry |-> c[j][4]]
    BY <2>3, LineFact
  <2> QED BY <2>2, <2>4 DEF Parsable
<1>7. package_database_load(c) = [j \in 1 .. n |-> l[j]]
  BY <1>4, <1>5, <1>6
<1>8. PICK bad : bad = {k \in 1 .. Len(l) : l[k].version = EMPTY} OBVIOUS
<1>9. CASE bad = {}
  <2>1. \A j \in 1 .. len : Parsable(c[j]) BY <1>2, <1>6, <1>8, <1>9
  <2>2. len <= n BY <1>2, <1>3, <1>4, <2>1
  <2>3. n = len BY <1>5, <2>2
  <2>4. l = [j \in 1 .. len |-> l[j]] BY <1>2, LenProperties DEF Lists
  <2>5. Readable(l) = l BY <1>8, <1>9 DEF Readable
  <2> QED BY <1>1, <1>7, <2>3, <2>4, <2>5
<1>10. CASE bad # {}
  <2>1. bad \in SUBSET Nat BY <1>2, <1>8
  <2>2. Min(bad) \in bad /\ \A y \in bad : Min(bad) <= y BY <1>10, <2>1, MinFact
  <2>3. PICK b : b = Min(bad) OBVIOUS
  <2>4. b \in 1 .. len /\ l[b].version = EMPTY BY <1>2, <1>8, <2>2, <2>3
  <2>5. ~Parsable(c[b]) BY <1>6, <2>4
  <2>6. n < b BY <1>4, <1>5, <2>4, <2>5
  <2>7. \A j \in 1 .. b - 1 : j \in 1 .. len /\ j \notin bad
    BY <1>2, <2>1, <2>2, <2>3, <2>4
  <2>8. \A j \in 1 .. b - 1 : Parsable(c[j]) BY <1>2, <1>6, <1>8, <2>7
  <2>9. b - 1 \in 0 .. ROOT_PACKAGE_MAX_INSTALLED /\ b - 1 <= Len(c)
    BY <1>2, <1>3, <2>4
  <2>10. b - 1 <= n BY <1>4, <2>8, <2>9
  <2>11. n = b - 1 BY <1>5, <2>4, <2>6, <2>10
  <2>12. Readable(l) = SubSeq(l, 1, n) BY <1>8, <1>10, <2>3, <2>11 DEF Readable
  <2>13. /\ SubSeq(l, 1, n) \in Seq(Known) /\ Len(SubSeq(l, 1, n)) = n
         /\ \A i \in 1 .. n : SubSeq(l, 1, n)[i] = l[i]
    <3>1. \A i \in 1 .. n : l[i] \in Known BY <1>2, <1>5, ElementOfSeq DEF Lists
    <3>2. 1 \in Int /\ n \in Int /\ n \in Nat BY <1>5
    <3> QED BY <3>1, <3>2, SubSeqProperties
  <2>14. SubSeq(l, 1, n) = [j \in 1 .. n |-> l[j]] BY <2>13, LenProperties
  <2> QED BY <1>1, <1>7, <2>12, <2>14
<1> QED BY <1>9, <1>10

\* What two sequences are made of together.
LEMMA ConcatParts ==
    ASSUME NEW S, NEW a \in Seq(S), NEW b \in Seq(S), NEW c, c = a \o b
    PROVE  /\ c \in Seq(S)
           /\ \A k \in 1 .. Len(c) : (\E j \in 1 .. Len(a) : c[k] = a[j])
                                     \/ \E j \in 1 .. Len(b) : c[k] = b[j]
<1>1. /\ c \in Seq(S) /\ Len(c) = Len(a) + Len(b)
      /\ \A k \in 1 .. Len(a) + Len(b) : c[k] = IF k <= Len(a) THEN a[k] ELSE b[k - Len(a)]
  BY ConcatProperties
<1>2. Len(a) \in Nat /\ Len(b) \in Nat BY LenProperties
<1>3. ASSUME NEW k \in 1 .. Len(c)
      PROVE  (\E j \in 1 .. Len(a) : c[k] = a[j]) \/ \E j \in 1 .. Len(b) : c[k] = b[j]
  <2>1. CASE k <= Len(a)
    <3>1. k \in 1 .. Len(a) BY <1>1, <1>2, <2>1
    <3> QED BY <1>1, <2>1, <3>1
  <2>2. CASE ~(k <= Len(a))
    <3>1. k - Len(a) \in 1 .. Len(b) BY <1>1, <1>2, <2>2
    <3> QED BY <1>1, <2>2, <3>1
  <2> QED BY <2>1, <2>2
<1> QED BY <1>1, <1>3

\* How many lines at the front agree.
LEMMA CommonFact ==
    ASSUME NEW old \in Content, NEW new \in Content
    PROVE  /\ Common(old, new) \in 0 .. Len(old) /\ Common(old, new) <= Len(new)
           /\ (Len(old) <= Len(new) /\ \A j \in 1 .. Len(old) : old[j] = new[j])
                => Common(old, new) = Len(old)
<1>1. PICK o \in Nat, n \in Nat : o = Len(old) /\ n = Len(new)
  BY ContentFact, PackageAssumption
<1>2. PICK T : T = {o, n} OBVIOUS
<1>3. PICK m : m = Min(T) OBVIOUS
<1>4. m \in T /\ m <= o /\ m <= n /\ m \in Nat
  <2>1. T \in SUBSET Nat /\ T # {} BY <1>2
  <2>2. Min(T) \in T /\ \A y \in T : Min(T) <= y BY <2>1, MinFact
  <2> QED BY <1>2, <1>3, <2>1, <2>2
<1>5. PICK S : S = {k \in 0 .. m : \A j \in 1 .. k : old[j] = new[j]} OBVIOUS
<1>6. S \in SUBSET (0 .. m) /\ S # {}
  <2>1. 0 \in S BY <1>4, <1>5
  <2> QED BY <1>5, <2>1
<1>7. Max(S) \in S /\ \A y \in S : Max(S) >= y BY <1>4, <1>6, MaxFact
<1>8. PICK c : c = Common(old, new) /\ c = Max(S)
  BY <1>1, <1>2, <1>3, <1>5 DEF Common
<1>9. c \in 0 .. m /\ c \in 0 .. o /\ c <= n BY <1>4, <1>5, <1>7, <1>8
<1>10. ASSUME o <= n, \A j \in 1 .. o : old[j] = new[j] PROVE c = o
  <2>1. o \in S BY <1>2, <1>4, <1>5, <1>10
  <2>2. c >= o BY <1>7, <1>8, <2>1
  <2> QED BY <1>1, <1>9, <2>2
<1> QED BY <1>1, <1>8, <1>9, <1>10

\* A save that is cut off leaves lines of the old list and of the new one, and
\* one between them.
LEMMA TornFact ==
    ASSUME NEW old \in Content, NEW new \in Content, NEW db \in Torn(old, new)
    PROVE  /\ db \in Content
           /\ \A i \in Known : Says(db, i) =>
                Says(old, i) \/ Says(new, i) \/ i.name \in Spliced(old, new, db)
<1>1. CASE db = old BY <1>1
<1>2. CASE db # old
  <2>1. PICK cut \in Cuts(old, new) :
          db = SubSeq(new, 1, cut.m) \o cut.joint \o SubSeq(old, cut.b + 1, Len(old))
    BY <1>2 DEF Torn
  <2>2. db \in Content BY <1>2 DEF Torn
  <2> PICK o \in Nat, n \in Nat : o = Len(old) /\ n = Len(new)
    BY ContentFact, PackageAssumption
  <2>3. PICK m \in 0 .. n, b \in 1 .. o,
               joint \in {<<>>, <<BAD>>} \cup {<<Line(i)>> : i \in Splices} :
          o = Len(old) /\ n = Len(new) /\ m = cut.m /\ b = cut.b /\ joint = cut.joint
    <3>1. o = Len(old) /\ n = Len(new) OBVIOUS
    <3>2. PICK c \in 0 .. o : c = Common(old, new) /\ c <= n BY <3>1, CommonFact
    <3>3. /\ cut.m \in c .. n /\ cut.b \in c + 1 .. o
          /\ cut.joint \in {<<>>, <<BAD>>} \cup {<<Line(i)>> : i \in Splices}
      BY <3>1, <3>2 DEF Cuts
    <3> QED BY <3>1, <3>2, <3>3
  <2>4. /\ old \in Seq(AnyLine) /\ new \in Seq(AnyLine)
        /\ \A k \in 1 .. o : old[k] \in AnyLine
        /\ \A k \in 1 .. n : new[k] \in AnyLine
    <3>1. o = Len(old) /\ n = Len(new) BY ONLY <2>3
    <3>2. old \in [1 .. o -> AnyLine] /\ \A k \in 1 .. o : old[k] \in AnyLine
      BY ONLY <3>1, old \in Content, ContentFact
    <3>3. new \in [1 .. n -> AnyLine] /\ \A k \in 1 .. n : new[k] \in AnyLine
      BY ONLY <3>1, new \in Content, ContentFact
    <3>4. old \in Seq(AnyLine) BY ONLY <3>2, o \in Nat, IsASeq
    <3>5. new \in Seq(AnyLine) BY ONLY <3>3, n \in Nat, IsASeq
    <3> QED BY ONLY <3>2, <3>3, <3>4, <3>5
  <2>5. PICK head : head = SubSeq(new, 1, m) OBVIOUS
  <2>6. head \in Seq(AnyLine) /\ Len(head) = m /\ \A k \in 1 .. m : head[k] = new[k]
    <3>1. \A k \in 1 .. m : new[k] \in AnyLine BY <2>3, <2>4
    <3>2. 1 \in Int /\ m \in Int /\ m \in Nat BY <2>3
    <3> QED BY <2>5, <3>1, <3>2, SubSeqProperties
  <2>7. PICK tail : tail = SubSeq(old, b + 1, o) OBVIOUS
  <2>8. /\ tail \in Seq(AnyLine)
        /\ \A k \in 1 .. Len(tail) : \E j \in 1 .. o : tail[k] = old[j]
    <3>1. \A k \in b + 1 .. o : old[k] \in AnyLine BY <2>3, <2>4
    <3>2. b + 1 \in Int /\ o \in Int BY <2>3
    <3>3. /\ tail \in Seq(AnyLine)
          /\ Len(tail) = IF b + 1 <= o THEN o - (b + 1) + 1 ELSE 0
          /\ \A k \in 1 .. o - (b + 1) + 1 : tail[k] = old[b + 1 + k - 1]
      BY <2>7, <3>1, <3>2, SubSeqProperties
    <3>4. ASSUME NEW k \in 1 .. Len(tail) PROVE \E j \in 1 .. o : tail[k] = old[j]
      <4>1. k \in 1 .. o - (b + 1) + 1 /\ b + 1 + k - 1 \in 1 .. o BY <2>3, <3>3
      <4> QED BY <3>3, <4>1
    <3> QED BY <3>3, <3>4
  <2>9. joint \in Seq(AnyLine)
        /\ \A k \in 1 .. Len(joint) : joint[k] = BAD \/ \E i \in Splices : joint[k] = Line(i)
    <3>1. CASE joint = <<>> BY <3>1, EmptySeq
    <3>2. CASE joint = <<BAD>> BY <3>2, LineFact
    <3>3. CASE \E i \in Splices : joint = <<Line(i)>>
      <4>1. PICK i \in Splices : joint = <<Line(i)>> BY <3>3
      <4>2. PICK x \in AnyLine : x = Line(i) BY NamesFact, LineFact
      <4>3. joint = <<x>> BY <4>1, <4>2
      <4> QED BY <4>2, <4>3
    <3> QED BY <2>3, <3>1, <3>2, <3>3
  <2>10. PICK front : front = head \o joint OBVIOUS
  <2>11. /\ front \in Seq(AnyLine)
         /\ \A k \in 1 .. Len(front) : (\E j \in 1 .. Len(head) : front[k] = head[j])
                                       \/ \E j \in 1 .. Len(joint) : front[k] = joint[j]
    BY ONLY <2>6, <2>9, <2>10, ConcatParts
  <2>12. \A k \in 1 .. Len(db) : (\E j \in 1 .. Len(front) : db[k] = front[j])
                                 \/ \E j \in 1 .. Len(tail) : db[k] = tail[j]
    <3>1. db = front \o tail BY <2>1, <2>3, <2>5, <2>7, <2>10
    <3> QED BY <2>8, <2>11, <3>1, ConcatParts
  <2>13. ASSUME NEW i \in Known, Says(db, i), ~Says(old, i), ~Says(new, i)
         PROVE  i.name \in Spliced(old, new, db)
    <3>1. PICK k \in 1 .. Len(db) : db[k] = Line(i) BY <2>13 DEF Says
    <3>2. ~\E j \in 1 .. o : old[j] = Line(i) BY <2>3, <2>13 DEF Says
    <3>3. ~\E j \in 1 .. m : new[j] = Line(i) BY <2>3, <2>13 DEF Says
    <3>4. PICK j \in 1 .. Len(joint) : joint[j] = Line(i)
      <4>1. ~\E j \in 1 .. Len(tail) : tail[j] = Line(i) BY <2>8, <3>2
      <4>2. ~\E j \in 1 .. Len(head) : head[j] = Line(i) BY <2>6, <3>3
      <4>3. PICK j \in 1 .. Len(front) : front[j] = Line(i) BY <2>12, <3>1, <4>1
      <4> QED BY <2>11, <4>2, <4>3
    <3>5. Line(i) # BAD BY LineFact
    <3>6. PICK s \in Splices : Line(i) = Line(s) BY <2>9, <3>4, <3>5
    <3>7. PICK x : x = Line(i) /\ x = Line(s) BY <3>6
    <3>8. /\ i = [name |-> x[2], version |-> x[3], entry |-> x[4]]
          /\ s = [name |-> x[2], version |-> x[3], entry |-> x[4]]
      BY <3>7, NamesFact, LineFact
    <3>9. i \in Splices BY <3>8
    <3> QED BY <2>13, <3>9 DEF Spliced
  <2> QED BY <2>2, <2>13
<1> QED BY <1>1, <1>2

\* A list without its last package.
LEMMA ParentList ==
    ASSUME NEW l \in Lists
    PROVE  /\ Parent(l) \in Lists /\ Len(Parent(l)) <= Len(l)
           /\ \A i \in 1 .. Len(Parent(l)) : Parent(l)[i] = l[i]
<1> PICK p : p = Parent(l) OBVIOUS
<1>1. PICK len \in Nat : len = Len(l) /\ p = Parent(l) BY LenProperties DEF Lists
<1>2. l \in Seq(Known) /\ len <= ROOT_PACKAGE_MAX_INSTALLED /\ ROOT_PACKAGE_MAX_INSTALLED \in Nat
  BY <1>1, PackageAssumption DEF Lists
<1>3. CASE len = 0
  <2>1. p = <<>> BY <1>1, <1>3, SubSeqEmpty DEF Parent, Front
  <2>2. <<>> \in Seq(Known) /\ Len(<<>>) = 0 BY EmptySeq
  <2> QED BY <1>1, <1>2, <2>1, <2>2 DEF Lists
<1>4. CASE len # 0
  <2>1. 1 \in Int /\ len - 1 \in Int /\ len - 1 \in Nat BY <1>4
  <2>2. \A i \in 1 .. len - 1 : l[i] \in Known BY <1>1, <1>2, ElementOfSeq
  <2>3. /\ SubSeq(l, 1, len - 1) \in Seq(Known) /\ Len(SubSeq(l, 1, len - 1)) = len - 1
        /\ \A i \in 1 .. len - 1 : SubSeq(l, 1, len - 1)[i] = l[i]
    BY <2>1, <2>2, SubSeqProperties
  <2>4. p = SubSeq(l, 1, len - 1) BY <1>1 DEF Parent, Front
  <2> QED BY <1>1, <1>2, <2>1, <2>3, <2>4 DEF Lists
<1> QED BY <1>3, <1>4

\* Over the list without its last package a cut-off save leaves that list: no
\* cut is possible.
LEMMA TornSame ==
    ASSUME NEW l \in Lists, NEW db \in Torn(Lines(Parent(l)), Lines(l))
    PROVE  db = Lines(Parent(l))
<1>1. PICK p \in Lists : p = Parent(l) BY ParentList
<1>2. Len(p) <= Len(l) /\ Len(p) \in Nat /\ Len(l) \in Nat /\ \A i \in 1 .. Len(p) : p[i] = l[i]
  BY <1>1, ParentList, LenProperties DEF Lists
<1>3. PICK old \in Content, new \in Content : old = Lines(p) /\ new = Lines(l) BY LinesFact
<1>4. /\ Len(old) = Len(p) /\ Len(new) = Len(l)
      /\ \A j \in 1 .. Len(old) : old[j] = new[j]
  BY <1>2, <1>3, LinesFact
<1>5. Common(old, new) = Len(old) BY <1>2, <1>4, CommonFact
<1>6. Cuts(old, new) = {}
  <2> SUFFICES ASSUME NEW cut \in Cuts(old, new) PROVE FALSE OBVIOUS
  <2>1. PICK o \in Nat : o = Len(old) /\ Common(old, new) = o BY <1>2, <1>4, <1>5
  <2>2. cut.b \in o + 1 .. o BY <2>1 DEF Cuts
  <2> QED BY <2>2
<1>7. db \in Torn(old, new) BY <1>1, <1>3
<1> QED BY <1>1, <1>3, <1>6, <1>7 DEF Torn

LEMMA WithoutFact ==
    ASSUME NEW l \in Lists, Len(l) # 0, NEW i
    PROVE  Without(l, i) \in Lists /\ \A n : In(Without(l, i), n) => In(l, n)
<1> PICK w : w = Without(l, i) OBVIOUS
<1>1. PICK len \in Nat \ {0} : len = Len(l) /\ w = Without(l, i) BY LenProperties DEF Lists
<1>2. /\ l \in Seq(Known) /\ len <= ROOT_PACKAGE_MAX_INSTALLED
      /\ ROOT_PACKAGE_MAX_INSTALLED \in Nat /\ \A j \in 1 .. len : l[j] \in Known
  BY <1>1, PackageAssumption, ElementOfSeq DEF Lists
<1>3. \A j \in 1 .. len - 1 : w[j] = l[j] \/ w[j] = l[j + 1] BY <1>1 DEF Without
<1>4. w \in [1 .. len - 1 -> Known]
  <2>1. w = [j \in 1 .. len - 1 |-> w[j]] BY <1>1 DEF Without
  <2>2. \A j \in 1 .. len - 1 : w[j] \in Known BY <1>2, <1>3
  <2> QED BY <2>1, <2>2
<1>5. w \in Seq(Known) /\ Len(w) = len - 1 BY <1>4, IsASeq, LenProperties
<1>6. \A n : In(w, n) => In(l, n) BY <1>1, <1>3, <1>5 DEF In
<1> QED BY <1>1, <1>2, <1>5, <1>6 DEF Lists

LEMMA AppendList ==
    ASSUME NEW l \in Seq(Known), Len(l) < ROOT_PACKAGE_MAX_INSTALLED, NEW i \in Known
    PROVE  /\ Append(l, i) \in Lists /\ Parent(Append(l, i)) = l
           /\ \A n : In(Append(l, i), n) => In(l, n) \/ n = i
<1> PICK a : a = Append(l, i) OBVIOUS
<1>1. PICK len \in Nat : len = Len(l) /\ a = Append(l, i) BY LenProperties
<1>2. /\ a \in Seq(Known) /\ Len(a) = len + 1 /\ a[len + 1] = i
      /\ \A j \in 1 .. len : a[j] = l[j]
  BY <1>1, AppendProperties
<1>3. ROOT_PACKAGE_MAX_INSTALLED \in Nat BY PackageAssumption
<1>4. a \in Lists BY <1>1, <1>2, <1>3 DEF Lists
<1>5. Parent(a) = l
  <2>1. \A j \in 1 .. len : a[j] \in Known BY <1>2, ElementOfSeq
  <2>2. 1 \in Int /\ len \in Int BY <1>1
  <2>3. /\ SubSeq(a, 1, len) \in Seq(Known) /\ Len(SubSeq(a, 1, len)) = len
        /\ \A j \in 1 .. len : SubSeq(a, 1, len)[j] = a[j]
    <3>1. PICK b : b = a OBVIOUS
    <3>2. \A j \in 1 .. len : b[j] \in Known BY <2>1, <3>1
    <3>3. /\ SubSeq(b, 1, len) \in Seq(Known) /\ Len(SubSeq(b, 1, len)) = len
          /\ \A j \in 1 .. len : SubSeq(b, 1, len)[j] = b[j]
      BY ONLY <2>2, <3>2, len \in Nat, SubSeqProperties
    <3> QED BY <3>1, <3>3
  <2>4. SubSeq(a, 1, len) = l BY <1>1, <1>2, <2>3, SeqEqual
  <2>5. Len(a) - 1 = len BY <1>2
  <2> QED BY <2>4, <2>5 DEF Parent, Front
<1>6. ASSUME NEW n, In(a, n) PROVE In(l, n) \/ n = i
  <2>1. PICK j \in 1 .. len + 1 : a[j] = n BY <1>2, <1>6 DEF In
  <2>2. j \in 1 .. len \/ j = len + 1 BY <1>1
  <2> QED BY <1>1, <1>2, <2>1, <2>2 DEF In
<1> QED BY <1>1, <1>4, <1>5, <1>6

-----------------------------------------------------------------------------
(* What the calls do to a tree.                                            *)

Under(p) == {q \in Path : Below(p, q)}

\* From t to u only nodes in W go or change; what is new or changed is in N.
Kept(t, u, W) == \A q \in DOMAIN t \ W : q \in DOMAIN u /\ u[q] = t[q]
Added(t, u, N) == \A q \in DOMAIN u : (q \in DOMAIN t /\ u[q] = t[q]) \/ q \in N

\* All that t holds besides p is as before in u, which holds info at p.
Holds(t, u, p, info) ==
    /\ p \in DOMAIN u /\ u[p] = info
    /\ \A q \in DOMAIN t : q # p => q \in DOMAIN u /\ u[q] = t[q]

LEMMA RootFact ==
    ASSUME NEW n \in Names
    PROVE  /\ InstallRoot(n) \in Seq(Name) /\ APPS \in Seq(Name) /\ Len(APPS) \in Nat
           /\ Len(InstallRoot(n)) = Len(APPS) + 1
           /\ InstallRoot(n)[Len(APPS) + 1] = n
           /\ \A i \in 1 .. Len(APPS) : InstallRoot(n)[i] = APPS[i]
<1>1. n \in Name BY NamesFact
<1>2. APPS \in Seq(Name) BY PackageAssumption, PathSeq
<1> QED BY <1>1, <1>2, AppendProperties, LenProperties DEF InstallRoot

\* The directories of two packages share no node.
LEMMA RootsApart ==
    ASSUME NEW a \in Names, NEW b \in Names, a # b, NEW q \in Path, Below(InstallRoot(a), q)
    PROVE  ~Below(InstallRoot(b), q)
<1>1. q \in Seq(Name) BY PathSeq
<1>2. /\ InstallRoot(a) \in Seq(Name) /\ InstallRoot(b) \in Seq(Name)
      /\ Len(InstallRoot(a)) = Len(APPS) + 1 /\ Len(InstallRoot(b)) = Len(APPS) + 1
      /\ InstallRoot(a)[Len(APPS) + 1] = a /\ InstallRoot(b)[Len(APPS) + 1] = b
      /\ Len(APPS) \in Nat
  BY RootFact
<1>3. q[Len(APPS) + 1] = a BY <1>1, <1>2, BelowFact
<1> QED BY <1>1, <1>2, <1>3, BelowFact

\* What lies above a node of a package is above all packages or in it; the
\* database is neither.
LEMMA DbApart ==
    ASSUME NEW n \in Names
    PROVE  /\ ~Below(InstallRoot(n), PACKAGE_DB_PATH) /\ PACKAGE_DB_PATH \notin Prefixes(APPS)
           /\ \A p \in Path : Below(InstallRoot(n), p) =>
                \A q \in Prefixes(p) : q \in Prefixes(APPS) \/ Below(InstallRoot(n), q)
<1> DEFINE r == InstallRoot(n)
<1>1. /\ APPS \in Seq(Name) /\ PACKAGE_DB_PATH \in Seq(Name)
      /\ ~Below(APPS, PACKAGE_DB_PATH) /\ ~Below(PACKAGE_DB_PATH, APPS)
  BY PackageAssumption, PathSeq
<1>2. /\ r \in Seq(Name) /\ Len(APPS) \in Nat /\ Len(r) = Len(APPS) + 1
      /\ \A i \in 1 .. Len(APPS) : r[i] = APPS[i]
  BY RootFact
<1> HIDE DEF r
<1>3. ~Below(r, PACKAGE_DB_PATH)
  BY <1>1, <1>2, BelowFact
<1>4. PACKAGE_DB_PATH \notin Prefixes(APPS)
  <2> SUFFICES ASSUME NEW k \in 0 .. Len(APPS), PACKAGE_DB_PATH = Front(APPS, k) PROVE FALSE
    BY DEF Prefixes
  <2>1. Len(PACKAGE_DB_PATH) = k /\ k <= Len(APPS) BY <1>1, <1>2, FrontFact
  <2> QED BY <1>1, <2>1 DEF Below
<1>5. ASSUME NEW p \in Path, Below(r, p), NEW q \in Prefixes(p)
      PROVE  q \in Prefixes(APPS) \/ Below(r, q)
  <2>1. p \in Seq(Name) /\ Len(p) \in Nat BY PathFact
  <2>2. PICK k \in 0 .. Len(p) : q = Front(p, k) BY DEF Prefixes
  <2>3. /\ q \in Seq(Name) /\ Len(q) = k /\ \A i \in 1 .. k : q[i] = p[i]
    BY <2>1, <2>2, FrontFact
  <2>4. Len(r) <= Len(p) /\ \A i \in 1 .. Len(r) : p[i] = r[i]
    BY <1>2, <1>5, <2>1, BelowFact
  <2>5. CASE k <= Len(APPS)
    <3>1. k \in 0 .. Len(APPS) BY <1>2, <2>1, <2>5
    <3>2. /\ Front(APPS, k) \in Seq(Name) /\ Len(Front(APPS, k)) = k
          /\ \A i \in 1 .. k : Front(APPS, k)[i] = APPS[i]
      BY <1>1, <3>1, FrontFact
    <3>3. \A i \in 1 .. k : q[i] = Front(APPS, k)[i] BY <1>2, <2>1, <2>3, <2>4, <3>1, <3>2
    <3>4. q = Front(APPS, k) BY <2>3, <3>2, <3>3, SeqEqual
    <3> QED BY <3>1, <3>4 DEF Prefixes
  <2>6. CASE ~(k <= Len(APPS))
    <3>1. Len(r) <= k BY <1>2, <2>1, <2>6
    <3>2. \A i \in 1 .. Len(r) : q[i] = r[i] BY <1>2, <2>1, <2>3, <2>4, <3>1
    <3> QED BY <1>2, <2>3, <3>1, <3>2, BelowFact
  <2> QED BY <2>5, <2>6
<1> QED BY <1>3, <1>4, <1>5 DEF r

\* An entry's file lies in its package.
LEMMA DestFact ==
    ASSUME NEW h \in PackageFiles, rtpgk_validate(h), NEW j \in 1 .. Len(h.entries)
    PROVE  Below(InstallRoot(h.name), destination_path(h.name, h.entries[j].path))
<1>1. h.entries \in Seq(RtpgkEntry) /\ h.name \in Names BY PackageAssumption, NamesFact
<1>2. h.entries[j] \in RtpgkEntry BY <1>1, ElementOfSeq
<1>3. h.entries[j].path \in Seq(Component) BY <1>2 DEF RtpgkEntry
<1>4. rtpgk_safe_relative_path(h.entries[j].path) BY DEF rtpgk_validate
<1>5. InstallRoot(h.name) \in Seq(Name) BY <1>1, RootFact
<1> QED BY <1>3, <1>4, <1>5, SafeResolve DEF destination_path

\* What is kept of a package is unpacked as before.
LEMMA UnpackedKept ==
    ASSUME NEW t, NEW u, NEW W, Kept(t, u, W), DOMAIN t \subseteq Path,
           NEW h \in PackageFiles, rtpgk_validate(h),
           \A q \in Path : Below(InstallRoot(h.name), q) => q \notin W,
           NEW n \in 0 .. Len(h.entries), Unpacked(t, h, n)
    PROVE  Unpacked(u, h, n)
<1>1. Len(h.entries) \in Nat BY PackageAssumption, LenProperties
<1>2. ASSUME NEW j \in 1 .. n
      PROVE  LET p == destination_path(h.name, h.entries[j].path)
             IN  \/ p \in DOMAIN u /\ u[p] = [type |-> FILE, data |-> h.entries[j].data]
                 \/ \E k \in j + 1 .. n : destination_path(h.name, h.entries[k].path) = p
  <2> DEFINE p == destination_path(h.name, h.entries[j].path)
  <2>1. j \in 1 .. Len(h.entries) BY <1>1
  <2>2. Below(InstallRoot(h.name), p) BY <2>1, DestFact
  <2> HIDE DEF p
  <2>3. \/ p \in DOMAIN t /\ t[p] = [type |-> FILE, data |-> h.entries[j].data]
        \/ \E k \in j + 1 .. n : destination_path(h.name, h.entries[k].path) = p
    BY DEF Unpacked, p
  <2>4. p \in DOMAIN t => p \in DOMAIN u /\ u[p] = t[p] BY <2>2 DEF Kept
  <2> QED BY <2>3, <2>4 DEF p
<1> QED BY <1>2 DEF Unpacked

LEMMA CompleteKept ==
    ASSUME NEW t, NEW u, NEW W, Kept(t, u, W), DOMAIN t \subseteq Path, NEW i \in Known,
           \A q \in Path : Below(InstallRoot(i.name), q) => q \notin W, Complete(t, i)
    PROVE  Complete(u, i)
<1>1. PICK h \in PackageFiles :
        /\ Info(h) = i /\ rtpgk_validate(h) /\ Unpacked(t, h, Len(h.entries))
        /\ \A path \in {MANIFEST, h.entry} : \E j \in 1 .. Len(h.entries) : h.entries[j].path = path
  BY DEF Complete
<1>2. h.name = i.name BY <1>1, NamesFact
<1>3. Len(h.entries) \in 0 .. Len(h.entries)
  <2>1. Len(h.entries) \in Nat BY PackageAssumption, LenProperties
  <2> QED BY <2>1
<1>4. Unpacked(u, h, Len(h.entries)) BY <1>1, <1>2, <1>3, UnpackedKept
<1> QED BY <1>1, <1>4 DEF Complete

\* A complete package has its directory.
LEMMA CompleteHasRoot ==
    ASSUME NEW t, Nodes(t), NEW i \in Known, Complete(t, i)
    PROVE  InstallRoot(i.name) \in DOMAIN t
<1>1. PICK h \in PackageFiles : Info(h) = i /\ rtpgk_validate(h) /\ Unpacked(t, h, Len(h.entries))
  BY DEF Complete
<1>2. PICK n \in Names : n = i.name /\ h.name = n BY <1>1, NamesFact
<1>3. PICK len : len = Len(h.entries) OBVIOUS
<1>4. len \in Nat \ {0}
  <2>1. h.entries \in Seq(RtpgkEntry) /\ h.entries # <<>>
    BY <1>1, PackageAssumption DEF rtpgk_validate
  <2> QED BY <1>3, <2>1, EmptySeq, LenProperties
<1>5. PICK p : p = destination_path(h.name, h.entries[len].path) OBVIOUS
<1>6. p \in DOMAIN t
  <2>1. len \in 1 .. len /\ ~(\E k \in len + 1 .. len : TRUE) BY <1>4
  <2> QED BY <1>1, <1>3, <1>5, <2>1 DEF Unpacked
<1>7. Below(InstallRoot(n), p)
  <2>1. len \in 1 .. Len(h.entries) BY <1>3, <1>4
  <2> QED BY <1>1, <1>2, <1>5, <2>1, DestFact
<1>8. p \in Path /\ Len(p) \in Nat BY <1>6, PathFact DEF Nodes
<1>9. Len(InstallRoot(n)) \in 0 .. Len(p) BY <1>7, <1>8, RootFact DEF Below
<1>10. Front(p, Len(InstallRoot(n))) \in DOMAIN t BY <1>6, <1>9 DEF Nodes, Closed
<1> QED BY <1>2, <1>7, <1>10 DEF Below

\* The database is the same when no call wrote it.
LEMMA StoredKept ==
    ASSUME NEW t, NEW u, NEW W, NEW N, Kept(t, u, W), Added(t, u, N),
           PACKAGE_DB_PATH \notin W, PACKAGE_DB_PATH \notin N
    PROVE  Stored(u) = Stored(t)
BY DEF Kept, Added, Stored

LEMMA AroundKept ==
    ASSUME NEW t, NEW u, NEW W, NEW N, Kept(t, u, W), Added(t, u, N),
           NEW b, NEW root, Around(t, b, root),
           \A q \in W : q = PACKAGE_DB_PATH \/ Below(root, q),
           \A q \in N : q \in Prefixes(APPS) \cup Prefixes(PACKAGE_DB_PATH) \/ Below(root, q)
    PROVE  Around(u, b, root)
<1>1. ASSUME NEW q \in DOMAIN b \ {PACKAGE_DB_PATH} PROVE q \in DOMAIN u /\ u[q] = b[q]
  <2>1. q \in DOMAIN t /\ t[q] = b[q] /\ ~Below(root, q) BY DEF Around
  <2>2. q \notin W BY <2>1
  <2> QED BY <2>1, <2>2 DEF Kept
<1>2. ASSUME NEW q \in DOMAIN u
      PROVE  q \in DOMAIN b \cup Prefixes(APPS) \cup Prefixes(PACKAGE_DB_PATH) \/ Below(root, q)
  <2>1. CASE q \in DOMAIN t BY <2>1 DEF Around
  <2>2. CASE q \in N BY <2>2
  <2> QED BY <2>1, <2>2 DEF Added
<1> QED BY <1>1, <1>2 DEF Around

-----------------------------------------------------------------------------
(* The calls.                                                              *)

\* A new directory for a package.
LEMMA RootMade ==
    ASSUME NEW t, Nodes(t), NEW n \in Names, InstallRoot(n) \notin DOMAIN t,
           CanMake(t, InstallRoot(n)), NEW u, u = WithDirs(t, Gaps(t, InstallRoot(n)))
    PROVE  /\ Nodes(u) /\ Kept(t, u, {})
           /\ Added(t, u, Prefixes(APPS) \cup Under(InstallRoot(n)))
<1>1. PICK r : r = InstallRoot(n) OBVIOUS
<1>2. r \in Path
  <2>1. r \in Seq(Name) /\ Len(r) \in Nat BY <1>1, RootFact
  <2>2. Front(r, Len(r)) = r BY <2>1, SubSeqFull DEF Front
  <2>3. r \in Prefixes(r) BY <2>1, <2>2 DEF Prefixes
  <2> QED BY <1>1, <2>3 DEF CanMake
<1>3. PICK new : new = Gaps(t, r) OBVIOUS
<1>4. /\ new \subseteq Path
      /\ \A q \in new : q \notin DOMAIN t /\ q \in Prefixes(r)
      /\ \A q \in new : \A k \in 0 .. Len(q) : Front(q, k) \in DOMAIN t \cup new
  BY <1>1, <1>2, <1>3, GapsFact
<1>5. /\ Nodes(u) /\ DOMAIN u = DOMAIN t \cup new
      /\ \A q \in DOMAIN t : u[q] = t[q]
      /\ \A q \in new : u[q] = NewDir
  BY <1>1, <1>3, <1>4, NodesWithDirs
<1>6. Below(r, r) BY <1>2, PathFact DEF Below
<1>7. \A q \in new : q \in Prefixes(APPS) \cup Under(r) BY <1>1, <1>2, <1>4, <1>6, DbApart DEF Under
<1>8. Kept(t, u, {}) BY <1>5 DEF Kept
<1>9. Added(t, u, Prefixes(APPS) \cup Under(r)) BY <1>5, <1>7 DEF Added
<1> QED BY <1>1, <1>5, <1>8, <1>9

\* A file of a package, with the directories above it.
LEMMA EntryMade ==
    ASSUME NEW t, Nodes(t), NEW n \in Names, NEW p \in Path, Below(InstallRoot(n), p),
           CanMake(t, Parent(p)), NEW info \in NodeInfo,
           NEW u, u = Put(WithDirs(t, Gaps(t, Parent(p))), p, info)
    PROVE  /\ Nodes(u) /\ Holds(t, u, p, info)
           /\ Added(t, u, Prefixes(APPS) \cup Under(InstallRoot(n)))
<1>1. PICK r, a : r = InstallRoot(n) /\ a = Parent(p) OBVIOUS
<1>2. /\ p \in Seq(Name) /\ Len(p) \in Nat \ {0} /\ p # <<>>
      /\ a \in Seq(Name) /\ Len(a) = Len(p) - 1 /\ a = Front(p, Len(p) - 1)
  <2>1. p \in Seq(Name) /\ Len(p) \in Nat BY PathFact
  <2>2. Len(p) # 0 BY <2>1, RootFact DEF Below
  <2>3. Len(p) - 1 \in 0 .. Len(p) BY <2>1, <2>2
  <2> QED BY <1>1, <2>1, <2>2, <2>3, FrontFact, EmptySeq DEF Parent
<1>3. a \in Path /\ Prefixes(a) \subseteq Prefixes(p)
  <2>1. ASSUME NEW k \in 0 .. Len(a) PROVE Front(a, k) = Front(p, k) /\ k \in 0 .. Len(p)
    <3>1. Len(p) - 1 \in 0 .. Len(p) /\ k \in 0 .. Len(p) - 1 BY <1>2
    <3> QED BY <1>2, <3>1, FrontFront
  <2>2. Prefixes(a) \subseteq Prefixes(p) BY <2>1 DEF Prefixes
  <2>3. a \in Prefixes(a)
    <3>1. Front(a, Len(a)) = a /\ Len(a) \in 0 .. Len(a) BY <1>2, SubSeqFull DEF Front
    <3> QED BY <3>1 DEF Prefixes
  <2>4. a \in Path BY <1>1, <2>3, PathSeq DEF CanMake, Nodes
  <2> QED BY <2>2, <2>4
<1> PICK new : new = Gaps(t, a) OBVIOUS
<1> PICK v : v = WithDirs(t, new) OBVIOUS
<1>4. new = Gaps(t, a) /\ v = WithDirs(t, new) OBVIOUS
<1>5. /\ new \subseteq Path
      /\ \A q \in new : q \notin DOMAIN t /\ q \in Prefixes(a)
      /\ \A q \in new : \A k \in 0 .. Len(q) : Front(q, k) \in DOMAIN t \cup new
      /\ \A k \in 0 .. Len(a) : Front(a, k) \in DOMAIN t \cup new
  BY <1>1, <1>3, <1>4, GapsFact
<1>6. /\ Nodes(v) /\ DOMAIN v = DOMAIN t \cup new
      /\ \A q \in DOMAIN t : v[q] = t[q]
      /\ \A q \in new : v[q] = NewDir
  <2>1. /\ new \subseteq Path /\ \A q \in new : q \notin DOMAIN t
        /\ \A q \in new : \A k \in 0 .. Len(q) : Front(q, k) \in DOMAIN t \cup new
    BY <1>5
  <2>2. Nodes(WithDirs(t, new)) BY <2>1, NodesWithDirs
  <2>3. /\ DOMAIN v = DOMAIN t \cup new
        /\ \A q \in DOMAIN t : v[q] = t[q]
        /\ \A q \in new : q \notin DOMAIN t => v[q] = NewDir
    BY <1>4 DEF WithDirs
  <2> QED BY <1>4, <2>1, <2>2, <2>3
<1>7. a \in DOMAIN v
  <2>1. Len(a) \in 0 .. Len(a) /\ Front(a, Len(a)) = a BY <1>2, SubSeqFull DEF Front
  <2> QED BY <1>5, <1>6, <2>1
<1>8. /\ Nodes(u) /\ DOMAIN u = DOMAIN v \cup {p} /\ u[p] = info
      /\ \A q \in DOMAIN v : q # p => u[q] = v[q]
  <2>1. u = Put(v, p, info) BY <1>1, <1>4
  <2>2. p # <<>> /\ Parent(p) \in DOMAIN v BY <1>1, <1>2, <1>7
  <2>3. Nodes(Put(v, p, info)) BY <1>6, <2>2, NodesPut
  <2>4. /\ DOMAIN u = DOMAIN v \cup {p} /\ u[p] = info
        /\ \A q \in DOMAIN v : q # p => u[q] = v[q]
    BY <2>1 DEF Put
  <2> QED BY <2>1, <2>3, <2>4
<1>9. Holds(t, u, p, info) BY <1>6, <1>8 DEF Holds
<1>10. \A q \in new : q \in Prefixes(APPS) \cup Under(r) BY <1>1, <1>3, <1>5, DbApart DEF Under
<1>11. p \in Under(r) BY <1>1 DEF Under
<1>12. ASSUME NEW q \in DOMAIN u
       PROVE  (q \in DOMAIN t /\ u[q] = t[q]) \/ q \in Prefixes(APPS) \cup Under(r)
  <2>1. CASE q = p BY <1>8, <1>11, <2>1
  <2>2. CASE q # p /\ q \in DOMAIN t BY <1>6, <1>8, <2>2
  <2>3. CASE q # p /\ q \in new BY <1>10, <2>3
  <2> QED BY <1>6, <1>8, <2>1, <2>2, <2>3
<1>13. Added(t, u, Prefixes(APPS) \cup Under(r)) BY <1>12 DEF Added
<1> QED BY <1>1, <1>8, <1>9, <1>13

LEMMA CutMade ==
    ASSUME NEW t, Nodes(t), NEW n \in Names, NEW u, u = Cut(t, InstallRoot(n))
    PROVE  /\ Nodes(u) /\ Kept(t, u, Under(InstallRoot(n))) /\ Added(t, u, {})
           /\ \A q \in DOMAIN u : ~Below(InstallRoot(n), q)
<1>1. InstallRoot(n) \in Seq(Name) BY RootFact
<1>2. /\ Nodes(u) /\ DOMAIN u = {q \in DOMAIN t : ~Below(InstallRoot(n), q)}
      /\ \A q \in DOMAIN u : u[q] = t[q]
  BY <1>1, NodesCut
<1>3. Kept(t, u, Under(InstallRoot(n))) BY <1>2 DEF Kept, Under, Nodes
<1>4. Added(t, u, {}) BY <1>2 DEF Added
<1> QED BY <1>2, <1>3, <1>4

\* The database, with the directories above it.
LEMMA StoreMade ==
    ASSUME NEW t, Nodes(t), DbUsable(t), NEW db \in Content, NEW u, u = StoreDb(t, db)
    PROVE  /\ Nodes(u) /\ Kept(t, u, {PACKAGE_DB_PATH}) /\ Stored(u) = db
           /\ Added(t, u, Prefixes(PACKAGE_DB_PATH))
<1> PICK p : p = PACKAGE_DB_PATH OBVIOUS
<1> PICK a : a = Parent(p) OBVIOUS
<1>1. /\ p \in Path /\ a \in Path /\ p \in Seq(Name) /\ Len(p) \in Nat \ {0} /\ p # <<>>
      /\ Len(a) = Len(p) - 1 /\ \A k \in 0 .. Len(a) : k \in 0 .. Len(p) /\ Front(a, k) = Front(p, k)
      /\ Front(a, Len(a)) = a /\ Front(p, Len(p)) = p
  <2>1. p \in Path /\ a \in Path BY PackageAssumption
  <2>2. p # <<>>
    <3>1. <<>> \in DOMAIN InitTree BY TreeAssumption DEF Shape, IsDir
    <3> QED BY <3>1, PackageAssumption
  <2>3. p \in Seq(Name) /\ Len(p) \in Nat \ {0} /\ Front(p, Len(p)) = p
    BY <2>1, <2>2, PathFact, EmptySeq
  <2>4. Len(p) - 1 \in 0 .. Len(p) BY <2>3
  <2>5. Len(a) = Len(p) - 1 BY <2>3, <2>4, FrontFact DEF Parent
  <2>6. \A k \in 0 .. Len(a) : k \in 0 .. Len(p) - 1 /\ k \in 0 .. Len(p) BY <2>3, <2>5
  <2>7. \A k \in 0 .. Len(a) : Front(a, k) = Front(p, k)
    BY <2>3, <2>4, <2>6, FrontFront DEF Parent
  <2> QED BY <2>1, <2>2, <2>3, <2>5, <2>6, <2>7, PathFact
<1> PICK new : new = Gaps(t, a) OBVIOUS
<1>2. /\ new \subseteq Path /\ \A q \in new : q \notin DOMAIN t /\ q \in Prefixes(p)
      /\ \A q \in new : \A k \in 0 .. Len(q) : Front(q, k) \in DOMAIN t \cup new
      /\ a \in DOMAIN t \cup new
  <2>1. Prefixes(a) \subseteq Prefixes(p) BY <1>1 DEF Prefixes
  <2>2. CASE p \in DOMAIN t
    <3>1. \A k \in 0 .. Len(p) : Front(p, k) \in DOMAIN t BY <2>2 DEF Nodes, Closed
    <3>2. new = {} BY <1>1, <3>1 DEF Gaps, Prefixes
    <3>3. a \in DOMAIN t
      <4>1. Len(a) \in 0 .. Len(a) BY <1>1
      <4> QED BY <1>1, <3>1, <4>1
    <3> QED BY <3>2, <3>3
  <2>3. CASE p \notin DOMAIN t
    <3>1. CanMake(t, a) BY <2>3 DEF DbUsable
    <3>2. /\ new \subseteq Path /\ \A q \in new : q \notin DOMAIN t /\ q \in Prefixes(a)
          /\ \A q \in new : \A k \in 0 .. Len(q) : Front(q, k) \in DOMAIN t \cup new
          /\ \A k \in 0 .. Len(a) : Front(a, k) \in DOMAIN t \cup new
      BY <1>1, <3>1, GapsFact
    <3>3. Len(a) \in 0 .. Len(a) BY <1>1
    <3> QED BY <1>1, <2>1, <3>2, <3>3
  <2> QED BY <2>2, <2>3
<1> PICK v : v = WithDirs(t, new) OBVIOUS
<1>3. /\ Nodes(v) /\ DOMAIN v = DOMAIN t \cup new
      /\ \A q \in DOMAIN t : v[q] = t[q]
      /\ \A q \in new : v[q] = NewDir
  <2>1. /\ new \subseteq Path
        /\ \A q \in new : \A k \in 0 .. Len(q) : Front(q, k) \in DOMAIN t \cup new
    BY <1>2
  <2>2. Nodes(WithDirs(t, new)) BY <2>1, NodesWithDirs
  <2>3. /\ DOMAIN v = DOMAIN t \cup new
        /\ \A q \in DOMAIN t : v[q] = t[q]
        /\ \A q \in new : q \notin DOMAIN t => v[q] = NewDir
    BY DEF WithDirs
  <2> QED BY <1>2, <2>2, <2>3
<1> PICK info : info = [type |-> FILE, data |-> db] OBVIOUS
<1>4. info \in NodeInfo /\ info.data = db BY DEF NodeInfo, FILE
<1>5. u = Put(v, p, info) BY DEF StoreDb
<1>6. Nodes(Put(v, p, info)) BY <1>1, <1>2, <1>3, <1>4, NodesPut
<1>7. /\ DOMAIN u = DOMAIN v \cup {p} /\ u[p] = info
      /\ \A q \in DOMAIN v : q # p => u[q] = v[q]
  BY <1>5 DEF Put
<1>8. Kept(t, u, {p}) BY <1>3, <1>7 DEF Kept
<1>9. Stored(u) = db BY <1>4, <1>7 DEF Stored
<1>10. p \in Prefixes(p)
  <2>1. Len(p) \in 0 .. Len(p) BY <1>1
  <2> QED BY <1>1, <2>1 DEF Prefixes
<1>11. ASSUME NEW q \in DOMAIN u
       PROVE  (q \in DOMAIN t /\ u[q] = t[q]) \/ q \in Prefixes(p)
  <2>1. CASE q = p BY <1>10, <2>1
  <2>2. CASE q # p /\ q \in DOMAIN t BY <1>3, <1>7, <2>2
  <2>3. CASE q # p /\ q \in new BY <1>2, <2>3
  <2> QED BY <1>3, <1>7, <2>1, <2>2, <2>3
<1>12. Added(t, u, Prefixes(p)) BY <1>11 DEF Added
<1> QED BY <1>5, <1>6, <1>8, <1>9, <1>12

\* filesystem_init.
LEMMA BasedMade ==
    ASSUME NEW t, Nodes(t), NEW u, u = Based(t)
    PROVE  /\ Nodes(u) /\ Kept(t, u, {}) /\ Added(t, u, DOMAIN InitTree)
           /\ PACKAGE_DB_PATH \notin DOMAIN InitTree
<1>1. /\ DOMAIN u = DOMAIN t \cup DOMAIN InitTree
      /\ \A q \in DOMAIN t : u[q] = t[q]
      /\ \A q \in DOMAIN InitTree : q \notin DOMAIN t => u[q] = InitTree[q]
  BY DEF Based
<1>2. /\ DOMAIN InitTree \subseteq Path
      /\ \A q \in DOMAIN InitTree : InitTree[q] \in NodeInfo
  BY TreeAssumption
<1>3. ASSUME NEW q \in DOMAIN InitTree, NEW k \in 0 .. Len(q) PROVE Front(q, k) \in DOMAIN InitTree
  <2>1. Len(q) \in Nat /\ Front(q, Len(q)) = q BY <1>2, PathFact
  <2>2. CASE k = Len(q) BY <2>1, <2>2
  <2>3. CASE k # Len(q)
    <3>1. k \in 0 .. Len(q) - 1 BY <2>1, <2>3
    <3> QED BY <3>1, TreeAssumption DEF Shape, Rooted, IsDir
  <2> QED BY <2>2, <2>3
<1>4. Closed(u) BY <1>1, <1>3 DEF Nodes, Closed
<1>5. u \in [DOMAIN u -> NodeInfo]
  <2>1. u = [q \in DOMAIN u |-> u[q]] BY DEF Based
  <2>2. \A q \in DOMAIN u : u[q] \in NodeInfo BY <1>1, <1>2 DEF Nodes
  <2> QED BY <2>1, <2>2
<1>6. Added(t, u, DOMAIN InitTree) BY <1>1 DEF Added
<1>7. Kept(t, u, {}) BY <1>1 DEF Kept
<1>8. PACKAGE_DB_PATH \notin DOMAIN InitTree BY PackageAssumption
<1> QED BY <1>1, <1>2, <1>4, <1>5, <1>6, <1>7, <1>8 DEF Nodes

-----------------------------------------------------------------------------
(* The steps.                                                              *)

LEMMA KeptSame ==
    ASSUME NEW t, NEW W, NEW N
    PROVE  Kept(t, t, W) /\ Added(t, t, N)
BY DEF Kept, Added

LEMMA InstallStarts ==
    ASSUME PackageInv, NEW h \in PackageFiles, package_install(h)
    PROVE  PackageInv'
<1> DEFINE n == h.name
           root == InstallRoot(n)
<1>1. /\ pm.pc = "idle" /\ rtpgk_validate(h) /\ ~InByName(pm.installed, n)
      /\ Len(pm.installed) < ROOT_PACKAGE_MAX_INSTALLED
      /\ root \notin DOMAIN tree /\ CanMake(tree, root)
      /\ tree' = WithDirs(tree, Gaps(tree, root))
  BY DEF package_install, Idle, Listed, InByName
<1>2. /\ pm'.pc = "entry" /\ pm'.op = "install" /\ pm'.name = n /\ pm'.file = h
      /\ pm'.at = 1 /\ pm'.result = "none" /\ pm'.installed = pm.installed
      /\ DOMAIN pm' = DOMAIN pm /\ pm' = [x \in DOMAIN pm' |-> pm'[x]]
  BY DEF package_install, PackageInv, CallOK
<1>3. /\ ghost'.before = [installed |-> pm.installed, tree |-> tree]
      /\ ghost'.durable = ghost.durable /\ ghost'.torn = ghost.torn /\ ghost'.hurt = ghost.hurt
      /\ DOMAIN ghost' = DOMAIN ghost /\ ghost' = [x \in DOMAIN ghost' |-> ghost'[x]]
  BY DEF package_install, PackageInv, GhostOK
<1>4. n \in Names BY NamesFact
<1>5. PICK N : N = Prefixes(APPS) \cup Under(root) OBVIOUS
<1>6. Nodes(tree') /\ Kept(tree, tree', {}) /\ Added(tree, tree', N)
  BY <1>1, <1>4, <1>5, RootMade DEF PackageInv
<1> HIDE DEF n, root
<1>7. CallOK(pm')
  <2>1. 1 \in 1 .. Len(h.entries) + 1
    <3>1. Len(h.entries) \in Nat BY PackageAssumption, LenProperties
    <3> QED BY <3>1
  <2> QED BY <1>1, <1>2, <2>1 DEF PackageInv, CallOK, Installing, n
<1>8. GhostOK(ghost') BY <1>3 DEF PackageInv, GhostOK
<1>9. Stored(tree') = Stored(tree)
  <2>1. PACKAGE_DB_PATH \notin N BY <1>4, <1>5, DbApart DEF Under, root
  <2> QED BY <1>6, <2>1, StoredKept
<1>10. BeforeOK(tree', pm', ghost')
  <2>1. root \in Path
    <3>1. root \in Prefixes(root)
      <4>1. root \in Seq(Name) /\ Len(root) \in Nat BY <1>4, RootFact DEF root
      <4>2. Front(root, Len(root)) = root /\ Len(root) \in 0 .. Len(root)
        BY <4>1, SubSeqFull DEF Front
      <4> QED BY <4>2 DEF Prefixes
    <3> QED BY <1>1, <3>1 DEF CanMake
  <2>2. \A q \in DOMAIN tree : ~Below(root, q) BY <1>1, <2>1, NoneBelow DEF PackageInv
  <2>3. Around(tree, tree, root) BY <2>2 DEF Around
  <2>4. \A q \in N : q \in Prefixes(APPS) \cup Prefixes(PACKAGE_DB_PATH) \/ Below(root, q)
    BY <1>5 DEF Under
  <2>5. Around(tree', tree, root) BY <1>6, <2>3, <2>4, AroundKept
  <2>6. ghost'.before.tree = tree /\ ghost'.before.installed = pm.installed BY <1>3
  <2>7. pm.installed \in Seq(Known) BY DEF PackageInv, CallOK, Lists
  <2> QED BY <1>2, <2>5, <2>6, <2>7 DEF BeforeOK, root
<1>11. EntriesOK(tree', pm') BY <1>2 DEF EntriesOK, Unpacked
<1>12. StoredOK(tree', ghost') BY <1>3, <1>9 DEF PackageInv, StoredOK
<1>13. Base(pm') = pm.installed /\ Base(pm) = pm.installed BY <1>1, <1>2 DEF Base
<1>14. FreshOK(tree', pm', ghost')
  <2>1. ASSUME NEW i \in Known, i.name = n, Named(tree, i) PROVE n \in ghost.hurt
    <3>1. ~Complete(tree, i) BY <1>1, <2>1, CompleteHasRoot DEF PackageInv, root
    <3> QED BY <2>1, <3>1 DEF PackageInv, NamedOK
  <2> QED BY <1>1, <1>2, <1>3, <1>9, <1>13, <2>1 DEF FreshOK, Named
<1>15. NamedOK(tree', pm', ghost')
  <2>1. \A i \in Known : Complete(tree, i) => Complete(tree', i)
    BY <1>6, CompleteKept DEF PackageInv, Nodes
  <2> QED BY <1>3, <1>9, <1>13, <2>1 DEF PackageInv, NamedOK, Named
<1>16. FailedOK(tree', pm', ghost') BY <1>2 DEF FailedOK
<1> QED BY <1>6, <1>7, <1>8, <1>10, <1>11, <1>12, <1>14, <1>15, <1>16 DEF PackageInv

\* While the entries are copied, and when that fails.
LEMMA EntryFrame ==
    ASSUME PackageInv, pm.pc = "entry", UNCHANGED ghost,
           pm'.pc \in {"entry", "rollback"}, pm'.at \in 1 .. Len(pm.file.entries) + 1,
           \A x \in {"op", "name", "file", "result", "installed"} : pm'[x] = pm[x],
           DOMAIN pm' = DOMAIN pm, pm' = [x \in DOMAIN pm' |-> pm'[x]],
           Nodes(tree'), Kept(tree, tree', Under(InstallRoot(pm.name))),
           Added(tree, tree', Prefixes(APPS) \cup Under(InstallRoot(pm.name))),
           EntriesOK(tree', pm')
    PROVE  PackageInv'
<1> DEFINE root == InstallRoot(pm.name)
<1>1. /\ pm.op = "install" /\ Installing(pm) /\ Installing(pm')
      /\ pm.file \in PackageFiles /\ rtpgk_validate(pm.file) /\ pm.file.name = pm.name
      /\ pm.name \in Names /\ pm.result = "none"
      /\ Base(pm) = pm.installed /\ Base(pm') = pm.installed
  BY NamesFact DEF PackageInv, CallOK, Installing, Base
<1>2. /\ pm'.op = pm.op /\ pm'.name = pm.name /\ pm'.file = pm.file
      /\ pm'.result = pm.result /\ pm'.installed = pm.installed
  OBVIOUS
<1>3. PICK N, W : N = Prefixes(APPS) \cup Under(root) /\ W = Under(root) OBVIOUS
<1>4. /\ PACKAGE_DB_PATH \notin N /\ PACKAGE_DB_PATH \notin W
      /\ \A q \in N : q \in Prefixes(APPS) \cup Prefixes(PACKAGE_DB_PATH) \/ Below(root, q)
      /\ \A q \in W : q = PACKAGE_DB_PATH \/ Below(root, q)
  BY <1>1, <1>3, DbApart DEF Under
<1> HIDE DEF root
<1>5. CallOK(pm') BY <1>1, <1>2 DEF PackageInv, CallOK
<1>6. GhostOK(ghost') BY DEF PackageInv
<1>7. Stored(tree') = Stored(tree) BY <1>3, <1>4, StoredKept DEF root
<1>8. BeforeOK(tree', pm', ghost')
  <2>1. /\ Around(tree, ghost.before.tree, root)
        /\ ghost.before.installed \in Seq(Known) /\ pm.installed = ghost.before.installed
    BY <1>1 DEF PackageInv, BeforeOK, root
  <2>2. Around(tree', ghost.before.tree, root)
    BY <1>3, <1>4, <2>1, AroundKept DEF root
  <2>3. pm'.pc # "save" OBVIOUS
  <2> QED BY <1>2, <2>1, <2>2, <2>3 DEF BeforeOK, root
<1>9. StoredOK(tree', ghost') BY <1>7 DEF PackageInv, StoredOK
<1>10. FreshOK(tree', pm', ghost')
  BY <1>1, <1>2, <1>7 DEF PackageInv, FreshOK, Named
<1>11. NamedOK(tree', pm', ghost')
  <2>1. ASSUME NEW x \in Known, Named(tree', x) \/ In(Base(pm'), x)
        PROVE  x.name \in ghost'.hurt \/ Complete(tree', x)
    <3>1. CASE x.name = pm.name
      <4>1. /\ ~InByName(Base(pm), pm.name)
            /\ pm.name \in ghost.hurt \/ ~Named(tree, x)
        BY <1>1, <3>1 DEF PackageInv, FreshOK
      <4>2. ~In(Base(pm'), x) BY <1>1, <3>1, <4>1 DEF In, InByName
      <4> QED BY <1>7, <2>1, <3>1, <4>1, <4>2 DEF Named
    <3>2. CASE x.name # pm.name
      <4>1. x.name \in ghost.hurt \/ Complete(tree, x)
        BY <1>1, <1>7, <2>1 DEF PackageInv, NamedOK, Named
      <4>2. \A q \in Path : Below(InstallRoot(x.name), q) => q \notin W
        BY <1>1, <1>3, <3>2, NamesFact, RootsApart DEF Under, root
      <4>3. Complete(tree, x) => Complete(tree', x)
        BY <1>3, <4>2, CompleteKept DEF PackageInv, Nodes, root
      <4> QED BY <4>1, <4>3
    <3> QED BY <3>1, <3>2
  <2> QED BY <2>1 DEF NamedOK
<1>12. FailedOK(tree', pm', ghost') BY <1>1, <1>2 DEF FailedOK
<1> QED BY <1>5, <1>6, <1>8, <1>9, <1>10, <1>11, <1>12 DEF PackageInv

LEMMA EntryStep == PackageInv /\ InstallEntry => PackageInv'
<1> SUFFICES ASSUME PackageInv, InstallEntry PROVE PackageInv' OBVIOUS
<1> DEFINE e == pm.file.entries[pm.at]
           p == destination_path(pm.name, e.path)
           made == WithDirs(tree, Gaps(tree, Parent(p)))
           full == CanMake(tree, Parent(p)) /\ p \in Path /\ ~IsDir(tree, p)
           root == InstallRoot(pm.name)
           N == Prefixes(APPS) \cup Under(root)
           info == [type |-> FILE, data |-> e.data]
<1>1. /\ pm.pc = "entry" /\ pm.file \in PackageFiles /\ rtpgk_validate(pm.file)
      /\ pm.file.name = pm.name /\ pm.name \in Names
      /\ pm.at \in Nat /\ pm.at \in 1 .. Len(pm.file.entries) /\ Len(pm.file.entries) \in Nat
  <2>1. pm.pc = "entry" /\ pm.at <= Len(pm.file.entries) BY DEF InstallEntry
  <2>2. /\ pm.file \in PackageFiles /\ rtpgk_validate(pm.file)
        /\ pm.file.name = pm.name /\ pm.at \in 1 .. Len(pm.file.entries) + 1
    BY <2>1 DEF PackageInv, CallOK, Installing
  <2>3. Len(pm.file.entries) \in Nat BY <2>2, PackageAssumption, LenProperties
  <2> QED BY <2>1, <2>2, <2>3, NamesFact
<1>2. Below(root, p) /\ info \in NodeInfo /\ NewFile \in NodeInfo
  <2>1. Below(root, p) BY <1>1, DestFact
  <2>2. e \in RtpgkEntry
    <3>1. pm.file.entries \in Seq(RtpgkEntry) BY <1>1, PackageAssumption
    <3> QED BY <1>1, <3>1, ElementOfSeq
  <2>3. e.data \in Content BY <2>2 DEF RtpgkEntry
  <2>4. info \in NodeInfo BY <2>3 DEF NodeInfo
  <2>5. NewFile \in NodeInfo BY TreeAssumption DEF NodeInfo, NewFile
  <2> QED BY <2>1, <2>4, <2>5
<1>3. ASSUME CanMake(tree, Parent(p)), p \in Path, NEW new \in NodeInfo,
             tree' = Put(made, p, new)
      PROVE  /\ Nodes(tree') /\ p \in DOMAIN tree' /\ tree'[p] = new
             /\ \A q \in DOMAIN tree : q # p => q \in DOMAIN tree' /\ tree'[q] = tree[q]
             /\ Kept(tree, tree', Under(root)) /\ Added(tree, tree', N)
  <2>1. PICK x, t, u : x = p /\ t = tree /\ u = tree' OBVIOUS
  <2>2. u = Put(WithDirs(t, Gaps(t, Parent(x))), x, new) BY <1>3, <2>1
  <2> PICK n \in Names : n = pm.name BY <1>1
  <2>3. /\ x \in Path /\ CanMake(t, Parent(x)) /\ Nodes(t) /\ Below(InstallRoot(n), x)
        /\ new \in NodeInfo
    BY <1>2, <1>3, <2>1 DEF PackageInv
  <2>4. /\ Nodes(u) /\ Holds(t, u, x, new)
        /\ Added(t, u, Prefixes(APPS) \cup Under(InstallRoot(n)))
    BY ONLY <2>2, <2>3, n \in Names, EntryMade
  <2>5. x \in Under(root) BY <1>2, <1>3, <2>1 DEF Under
  <2>6. Kept(t, u, Under(root)) BY <2>4, <2>5 DEF Kept, Holds
  <2> QED BY <2>1, <2>4, <2>6 DEF Holds
<1>4. ghost' = ghost
      /\ \/ /\ full /\ tree' = Put(made, p, info) /\ pm' = [pm EXCEPT !.at = @ + 1]
         \/ UNCHANGED tree /\ Goto("rollback")
         \/ full /\ Goto("rollback") /\ tree' = Put(made, p, NewFile)
  BY DEF InstallEntry
<1> HIDE DEF e, p, made, full, root, N, info
<1>6. CASE full /\ tree' = Put(made, p, info) /\ pm' = [pm EXCEPT !.at = @ + 1]
  <2>1. /\ pm'.pc = "entry" /\ pm'.at = pm.at + 1
        /\ \A x \in {"op", "name", "file", "result", "installed"} : pm'[x] = pm[x]
        /\ DOMAIN pm' = DOMAIN pm /\ pm' = [x \in DOMAIN pm' |-> pm'[x]]
    BY <1>1, <1>6 DEF PackageInv, CallOK
  <2>2. p \in Path /\ CanMake(tree, Parent(p)) BY <1>6 DEF full
  <2>3. /\ Nodes(tree') /\ p \in DOMAIN tree' /\ tree'[p] = info
        /\ \A q \in DOMAIN tree : q # p => q \in DOMAIN tree' /\ tree'[q] = tree[q]
        /\ Kept(tree, tree', Under(root)) /\ Added(tree, tree', N)
    BY <1>2, <1>3, <1>6, <2>2
  <2>4. EntriesOK(tree', pm')
    <3>1. Unpacked(tree', pm.file, pm.at)
      <4>1. ASSUME NEW j \in 1 .. pm.at
            PROVE  LET q == destination_path(pm.file.name, pm.file.entries[j].path)
                   IN  \/ /\ q \in DOMAIN tree'
                          /\ tree'[q] = [type |-> FILE, data |-> pm.file.entries[j].data]
                       \/ \E k \in j + 1 .. pm.at :
                            destination_path(pm.file.name, pm.file.entries[k].path) = q
        <5> DEFINE q == destination_path(pm.file.name, pm.file.entries[j].path)
        <5>1. p = destination_path(pm.file.name, pm.file.entries[pm.at].path)
          BY <1>1 DEF p, e
        <5>2. CASE j = pm.at
          <6>1. q = p /\ info = [type |-> FILE, data |-> pm.file.entries[j].data]
            BY <5>1, <5>2 DEF info, e
          <6> QED BY <2>3, <6>1
        <5>3. CASE j # pm.at /\ q = p
          <6>1. pm.at \in j + 1 .. pm.at BY <1>1, <5>3
          <6> QED BY <5>1, <5>3, <6>1
        <5>4. CASE j # pm.at /\ q # p
          <6>1. j \in 1 .. pm.at - 1 BY <1>1, <5>4
          <6>2. Unpacked(tree, pm.file, pm.at - 1) BY <1>1 DEF PackageInv, EntriesOK
          <6>3. \/ /\ q \in DOMAIN tree
                   /\ tree[q] = [type |-> FILE, data |-> pm.file.entries[j].data]
                \/ \E k \in j + 1 .. pm.at - 1 :
                     destination_path(pm.file.name, pm.file.entries[k].path) = q
            BY <6>1, <6>2 DEF Unpacked
          <6>4. q \in DOMAIN tree => q \in DOMAIN tree' /\ tree'[q] = tree[q]
            BY <2>3, <5>4
          <6>5. \A k \in j + 1 .. pm.at - 1 : k \in j + 1 .. pm.at BY <1>1
          <6> QED BY <6>3, <6>4, <6>5
        <5> QED BY <5>2, <5>3, <5>4
      <4> QED BY <4>1 DEF Unpacked
    <3>2. pm'.at - 1 = pm.at /\ pm'.file = pm.file BY <1>1, <2>1
    <3> QED BY <2>1, <3>1, <3>2 DEF EntriesOK
  <2>5. pm'.at \in 1 .. Len(pm.file.entries) + 1 BY <1>1, <2>1
  <2> QED BY <1>1, <1>4, <2>1, <2>3, <2>4, <2>5, EntryFrame DEF N, root
<1>7. ASSUME Goto("rollback")
      PROVE  /\ pm'.pc = "rollback" /\ pm'.at = pm.at
             /\ \A x \in {"op", "name", "file", "result", "installed"} : pm'[x] = pm[x]
             /\ DOMAIN pm' = DOMAIN pm /\ pm' = [x \in DOMAIN pm' |-> pm'[x]]
             /\ EntriesOK(tree', pm') /\ pm'.at \in 1 .. Len(pm.file.entries) + 1
  <2>1. /\ pm'.pc = "rollback" /\ pm'.at = pm.at
        /\ \A x \in {"op", "name", "file", "result", "installed"} : pm'[x] = pm[x]
        /\ DOMAIN pm' = DOMAIN pm /\ pm' = [x \in DOMAIN pm' |-> pm'[x]]
    BY <1>7 DEF PackageInv, CallOK, Goto
  <2>2. pm'.at \in 1 .. Len(pm.file.entries) + 1 BY <1>1, <2>1
  <2> QED BY <2>1, <2>2 DEF EntriesOK
<1>8. CASE UNCHANGED tree /\ Goto("rollback")
  <2>1. Nodes(tree') /\ Kept(tree, tree', Under(root)) /\ Added(tree, tree', N)
    BY <1>8, KeptSame DEF PackageInv
  <2> QED BY <1>1, <1>4, <1>7, <1>8, <2>1, EntryFrame DEF N, root
<1>9. CASE full /\ Goto("rollback") /\ tree' = Put(made, p, NewFile)
  <2>1. p \in Path /\ CanMake(tree, Parent(p)) BY <1>9 DEF full
  <2>2. PICK new \in NodeInfo : new = NewFile BY <1>2
  <2>3. Nodes(tree') /\ Kept(tree, tree', Under(root)) /\ Added(tree, tree', N)
    <3>1. tree' = Put(made, p, new) BY <1>2, <1>9, <2>2
    <3> QED BY <1>3, <2>1, <3>1
  <2> QED BY <1>1, <1>4, <1>7, <1>9, <2>3, EntryFrame DEF N, root
<1> QED BY <1>4, <1>6, <1>8, <1>9

LEMMA RecordStep == PackageInv /\ InstallRecord => PackageInv'
<1> SUFFICES ASSUME PackageInv, InstallRecord PROVE PackageInv' OBVIOUS
<1>1. /\ pm.pc = "entry" /\ pm.op = "install" /\ UNCHANGED <<tree, ghost>>
      /\ pm.file \in PackageFiles /\ rtpgk_validate(pm.file) /\ pm.file.name = pm.name
      /\ pm.name \in Names /\ pm.result = "none" /\ pm.at = Len(pm.file.entries) + 1
  <2>1. pm.pc = "entry" /\ pm.at > Len(pm.file.entries) /\ UNCHANGED <<tree, ghost>>
    BY DEF InstallRecord
  <2>2. /\ pm.op = "install" /\ pm.file \in PackageFiles /\ rtpgk_validate(pm.file)
        /\ pm.file.name = pm.name /\ pm.at \in 1 .. Len(pm.file.entries) + 1
        /\ pm.result = "none"
    BY <2>1 DEF PackageInv, CallOK, Installing
  <2>3. Len(pm.file.entries) \in Nat BY <2>2, PackageAssumption, LenProperties
  <2> QED BY <2>1, <2>2, <2>3, NamesFact
<1>2. Len(pm.file.entries) \in Nat BY <1>1, PackageAssumption, LenProperties
<1>3. CASE Has(MANIFEST) /\ Has(pm.file.entry)
  <2> PICK l : l = Append(pm.installed, Info(pm.file)) OBVIOUS
  <2>1. /\ pm'.pc = "save" /\ pm'.installed = l
        /\ \A x \in {"op", "name", "file", "at", "result"} : pm'[x] = pm[x]
        /\ DOMAIN pm' = DOMAIN pm /\ pm' = [x \in DOMAIN pm' |-> pm'[x]]
    BY <1>3 DEF InstallRecord, PackageInv, CallOK
  <2>2. /\ pm'.op = "install" /\ pm'.name = pm.name /\ pm'.file = pm.file
        /\ pm'.at = pm.at /\ pm'.result = "none"
    BY <1>1, <2>1
  <2>3. l \in Lists /\ Parent(l) = pm.installed
    <3>1. pm.installed \in Seq(Known) /\ Len(pm.installed) < ROOT_PACKAGE_MAX_INSTALLED
      BY <1>1 DEF PackageInv, CallOK, Lists
    <3>2. Info(pm.file) \in Known BY <1>1, NamesFact
    <3> QED BY <3>1, <3>2, AppendList
  <2>4. Base(pm) = pm.installed /\ Base(pm') = pm.installed
    BY <1>1, <2>1, <2>2, <2>3 DEF Base
  <2>5. Installing(pm) /\ Installing(pm') BY <1>1, <2>1, <2>2 DEF Installing
  <2>6. CallOK(pm')
    <3>1. pm.at \in 1 .. Len(pm.file.entries) + 1 BY <1>1, <1>2
    <3> QED BY <1>1, <2>1, <2>2, <2>3, <3>1 DEF PackageInv, CallOK
  <2>7. BeforeOK(tree', pm', ghost')
    <3>1. /\ Around(tree, ghost.before.tree, InstallRoot(pm.name))
          /\ ghost.before.installed \in Seq(Known)
          /\ pm.installed = ghost.before.installed
      BY <1>1, <2>5 DEF PackageInv, BeforeOK
    <3> QED BY <1>1, <2>1, <2>2, <3>1 DEF BeforeOK
  <2>8. EntriesOK(tree', pm')
    <3>1. Unpacked(tree, pm.file, Len(pm.file.entries))
      <4>1. pm.at - 1 = Len(pm.file.entries) BY <1>1, <1>2
      <4> QED BY <1>1, <4>1 DEF PackageInv, EntriesOK
    <3>2. \A path \in {MANIFEST, pm.file.entry} :
            \E j \in 1 .. Len(pm.file.entries) : pm.file.entries[j].path = path
      BY <1>3 DEF Has
    <3> QED BY <1>1, <2>1, <2>2, <3>1, <3>2 DEF EntriesOK
  <2>9. FreshOK(tree', pm', ghost')
    BY <1>1, <2>2, <2>4, <2>5 DEF PackageInv, FreshOK, Named
  <2>10. NamedOK(tree', pm', ghost') BY <1>1, <2>4 DEF PackageInv, NamedOK, Named
  <2>11. FailedOK(tree', pm', ghost') BY <2>2 DEF FailedOK
  <2> QED BY <1>1, <2>6, <2>7, <2>8, <2>9, <2>10, <2>11 DEF PackageInv
<1>4. CASE ~(Has(MANIFEST) /\ Has(pm.file.entry))
  <2>1. /\ pm'.pc = "rollback"
        /\ \A x \in {"op", "name", "file", "at", "result", "installed"} : pm'[x] = pm[x]
        /\ DOMAIN pm' = DOMAIN pm /\ pm' = [x \in DOMAIN pm' |-> pm'[x]]
    BY <1>4 DEF InstallRecord, Goto, PackageInv, CallOK
  <2>2. pm'.at = pm.at BY <2>1
  <2>3. pm'.at \in 1 .. Len(pm.file.entries) + 1 BY <1>1, <1>2, <2>2
  <2>4. EntriesOK(tree', pm') BY <2>1 DEF EntriesOK
  <2>5. /\ Nodes(tree') /\ Kept(tree, tree', Under(InstallRoot(pm.name)))
        /\ Added(tree, tree', Prefixes(APPS) \cup Under(InstallRoot(pm.name)))
    BY <1>1, KeptSame DEF PackageInv
  <2> QED BY <1>1, <2>1, <2>3, <2>4, <2>5, EntryFrame
<1> QED BY <1>3, <1>4

LEMMA RollbackStep == PackageInv /\ Rollback => PackageInv'
<1> SUFFICES ASSUME PackageInv, Rollback PROVE PackageInv' OBVIOUS
<1> DEFINE root == InstallRoot(pm.name)
<1>1. /\ pm.pc = "rollback" /\ pm.op = "install" /\ ghost' = ghost /\ Installing(pm)
      /\ pm.name \in Names /\ Base(pm) = pm.installed
  BY NamesFact DEF PackageInv, CallOK, Installing, Rollback, Base
<1>2. ASSUME NEW r, Return(r)
      PROVE  /\ pm'.pc = "idle" /\ pm'.op = "install" /\ pm'.result = r
             /\ pm'.installed = pm.installed /\ Base(pm') = pm.installed /\ ~Installing(pm')
             /\ CallOK(pm')
  <2>1. /\ pm'.pc = "idle" /\ pm'.op = "install" /\ pm'.result = r
        /\ pm'.installed = pm.installed
        /\ DOMAIN pm' = DOMAIN pm /\ pm' = [x \in DOMAIN pm' |-> pm'[x]]
    BY <1>1, <1>2 DEF Return, PackageInv, CallOK
  <2>2. ~Installing(pm') /\ Base(pm') = pm.installed BY <2>1 DEF Installing, Base
  <2>3. CallOK(pm') BY <2>1, <2>2 DEF PackageInv, CallOK
  <2> QED BY <2>1, <2>2, <2>3
<1>3. /\ Around(tree, ghost.before.tree, root) /\ pm.installed = ghost.before.installed
  BY <1>1 DEF PackageInv, BeforeOK
<1>4. /\ ~InByName(pm.installed, pm.name)
      /\ pm.name \in ghost.hurt \/ \A i \in Known : i.name = pm.name => ~Named(tree, i)
  BY <1>1 DEF PackageInv, FreshOK
<1>5. CASE tree' = Cut(tree, root) /\ Return("failed")
  <2> PICK W : W = Under(root) OBVIOUS
  <2>1. /\ Nodes(tree') /\ Kept(tree, tree', W) /\ Added(tree, tree', {})
        /\ \A q \in DOMAIN tree' : ~Below(root, q)
    BY <1>1, <1>5, CutMade DEF PackageInv
  <2> HIDE DEF root
  <2>2. Stored(tree') = Stored(tree)
    <3>1. PACKAGE_DB_PATH \notin W BY <1>1, DbApart DEF Under, root
    <3> QED BY <2>1, <3>1, StoredKept
  <2>3. StoredOK(tree', ghost') BY <1>1, <2>2 DEF PackageInv, StoredOK
  <2>4. NamedOK(tree', pm', ghost')
    <3>1. ASSUME NEW x \in Known, Named(tree', x) \/ In(Base(pm'), x)
          PROVE  x.name \in ghost'.hurt \/ Complete(tree', x)
      <4>1. Named(tree, x) \/ In(Base(pm), x) BY <1>1, <1>2, <1>5, <2>2, <3>1 DEF Named
      <4>2. CASE x.name = pm.name
        <5>1. ~In(Base(pm), x) BY <1>1, <1>4, <4>2 DEF In, InByName
        <5> QED BY <1>1, <1>4, <4>1, <4>2, <5>1
      <4>3. CASE x.name # pm.name
        <5>1. \A q \in Path : Below(InstallRoot(x.name), q) => q \notin W
          BY <1>1, <4>3, NamesFact, RootsApart DEF Under, root
        <5>2. Complete(tree, x) => Complete(tree', x)
          BY <2>1, <5>1, CompleteKept DEF PackageInv, Nodes
        <5> QED BY <1>1, <4>1, <5>2 DEF PackageInv, NamedOK
      <4> QED BY <4>2, <4>3
    <3> QED BY <3>1 DEF NamedOK
  <2>5. FailedOK(tree', pm', ghost')
    <3>1. ASSUME NEW q \in DOMAIN ghost.before.tree \ {PACKAGE_DB_PATH}
          PROVE  q \in DOMAIN tree' /\ tree'[q] = ghost.before.tree[q]
      <4>1. q \in DOMAIN tree /\ tree[q] = ghost.before.tree[q] /\ q \notin W
        BY <1>3 DEF Around, Under
      <4> QED BY <2>1, <4>1 DEF Kept
    <3>2. DOMAIN tree' \subseteq DOMAIN ghost.before.tree \cup Prefixes(APPS)
                                   \cup Prefixes(PACKAGE_DB_PATH)
      <4>1. DOMAIN tree' \subseteq DOMAIN tree BY <2>1 DEF Added
      <4> QED BY <1>3, <2>1, <4>1 DEF Around
    <3> QED BY <1>1, <1>2, <1>3, <1>5, <3>1, <3>2 DEF FailedOK
  <2>6. BeforeOK(tree', pm', ghost') /\ EntriesOK(tree', pm') /\ FreshOK(tree', pm', ghost')
    BY <1>2, <1>5 DEF BeforeOK, EntriesOK, FreshOK
  <2> QED BY <1>1, <1>2, <1>5, <2>1, <2>3, <2>4, <2>5, <2>6 DEF PackageInv
<1>6. CASE UNCHANGED tree /\ Return("unclean")
  <2>1. NamedOK(tree', pm', ghost') BY <1>1, <1>2, <1>6 DEF PackageInv, NamedOK, Named
  <2>2. FailedOK(tree', pm', ghost')
    <3>1. pm'.result # "failed" BY <1>2, <1>6
    <3> QED BY <3>1 DEF FailedOK
  <2>3. BeforeOK(tree', pm', ghost') /\ EntriesOK(tree', pm') /\ FreshOK(tree', pm', ghost')
    BY <1>2, <1>6 DEF BeforeOK, EntriesOK, FreshOK
  <2> QED BY <1>1, <1>2, <1>6, <2>1, <2>2, <2>3 DEF PackageInv
<1> QED BY <1>5, <1>6 DEF Rollback, Root

\* The list of an install that is being saved, without its last package.
LEMMA SavingList ==
    ASSUME PackageInv, pm.pc = "save", pm.op = "install"
    PROVE  /\ Parent(pm.installed) = ghost.before.installed
           /\ Parent(pm.installed) \in Lists
           /\ Len(Parent(pm.installed)) < ROOT_PACKAGE_MAX_INSTALLED
<1> PICK l : l = ghost.before.installed OBVIOUS
<1>1. /\ l \in Seq(Known) /\ pm.installed = Append(l, Info(pm.file))
      /\ pm.file \in PackageFiles /\ pm.installed \in Lists
  BY DEF PackageInv, BeforeOK, CallOK, Installing
<1>2. Info(pm.file) \in Known BY <1>1, NamesFact
<1>3. Len(l) < ROOT_PACKAGE_MAX_INSTALLED
  <2>1. Len(Append(l, Info(pm.file))) = Len(l) + 1 /\ Len(l) \in Nat
    BY <1>1, <1>2, AppendProperties, LenProperties
  <2>2. Len(Append(l, Info(pm.file))) <= ROOT_PACKAGE_MAX_INSTALLED
    BY <1>1 DEF Lists
  <2> QED BY <2>1, <2>2, PackageAssumption
<1>4. Parent(pm.installed) = l BY <1>1, <1>2, <1>3, AppendList
<1>5. Parent(pm.installed) \in Lists BY <1>1, ParentList
<1> QED BY <1>3, <1>4, <1>5

\* What the list that is being saved adds to the one before.
LEMMA SavedIn ==
    ASSUME PackageInv, pm.pc = "save", NEW x \in Known, In(pm.installed, x)
    PROVE  \/ In(Base(pm), x)
           \/ /\ pm.op = "install" /\ pm.file \in PackageFiles /\ x = Info(pm.file)
              /\ x.name = pm.name
<1>1. CASE pm.op = "install"
  <2> PICK l : l = ghost.before.installed OBVIOUS
  <2>1. /\ l \in Seq(Known) /\ pm.installed = Append(l, Info(pm.file))
        /\ pm.file \in PackageFiles /\ pm.file.name = pm.name
    BY <1>1 DEF PackageInv, BeforeOK, CallOK, Installing
  <2>2. Info(pm.file) \in Known /\ Info(pm.file).name = pm.name BY <2>1, NamesFact
  <2>3. Parent(pm.installed) = l /\ Len(l) < ROOT_PACKAGE_MAX_INSTALLED
    BY <1>1, SavingList
  <2>4. In(l, x) \/ x = Info(pm.file) BY <2>1, <2>2, <2>3, AppendList
  <2>5. Base(pm) = l BY <1>1, <2>3 DEF Base
  <2> QED BY <1>1, <2>1, <2>2, <2>4, <2>5
<1>2. CASE pm.op # "install" BY <1>2 DEF Base
<1> QED BY <1>1, <1>2

\* What a save leaves, whole or cut off, when it puts db into the database.
LEMMA SaveLeaves ==
    ASSUME PackageInv, pm.pc = "save", NEW db \in Content, NEW names,
           \/ tree' = tree /\ db = Stored(tree)
           \/ DbUsable(tree) /\ tree' = StoreDb(tree, db),
           \A x \in Known : Says(db, x) => Named(tree, x) \/ In(pm.installed, x) \/ x.name \in names
    PROVE  /\ Nodes(tree') /\ Stored(tree') = db
           /\ pm.op = "install" => Around(tree', ghost.before.tree, InstallRoot(pm.name))
           /\ \A h \in PackageFiles : \A n \in 0 .. Len(h.entries) :
                rtpgk_validate(h) /\ Unpacked(tree, h, n) => Unpacked(tree', h, n)
           /\ \A x \in Known : Complete(tree, x) => Complete(tree', x)
           /\ \A x \in Known : Named(tree', x) \/ In(pm.installed, x) =>
                x.name \in ghost.hurt \cup {pm.name} \cup names \/ Complete(tree', x)
<1> PICK W : W = {PACKAGE_DB_PATH} OBVIOUS
<1> PICK N : N = Prefixes(PACKAGE_DB_PATH) OBVIOUS
<1>1. Nodes(tree') /\ Kept(tree, tree', W) /\ Added(tree, tree', N) /\ Stored(tree') = db
  <2>1. CASE tree' = tree /\ db = Stored(tree) BY <2>1, KeptSame DEF PackageInv, Stored
  <2>2. CASE DbUsable(tree) /\ tree' = StoreDb(tree, db)
    BY <2>2, StoreMade DEF PackageInv
  <2> QED BY <2>1, <2>2
<1>2. ASSUME NEW n \in Names PROVE \A q \in Path : Below(InstallRoot(n), q) => q \notin W
  BY DbApart
<1>3. ASSUME pm.op = "install" PROVE Around(tree', ghost.before.tree, InstallRoot(pm.name))
  <2> PICK r : r = InstallRoot(pm.name) OBVIOUS
  <2>1. Around(tree, ghost.before.tree, r) BY <1>3 DEF PackageInv, BeforeOK, Installing
  <2>2. /\ \A q \in W : q = PACKAGE_DB_PATH \/ Below(r, q)
        /\ \A q \in N : q \in Prefixes(APPS) \cup Prefixes(PACKAGE_DB_PATH) \/ Below(r, q)
    OBVIOUS
  <2>3. Around(tree', ghost.before.tree, r) BY <1>1, <2>1, <2>2, AroundKept
  <2> QED BY <2>3
<1>4. ASSUME NEW h \in PackageFiles, NEW n \in 0 .. Len(h.entries),
             rtpgk_validate(h), Unpacked(tree, h, n)
      PROVE  Unpacked(tree', h, n)
  <2>1. \A q \in Path : Below(InstallRoot(h.name), q) => q \notin W BY <1>2, NamesFact
  <2> QED BY <1>1, <1>4, <2>1, UnpackedKept DEF PackageInv, Nodes
<1>5. ASSUME NEW x \in Known, Complete(tree, x) PROVE Complete(tree', x)
  <2>1. \A q \in Path : Below(InstallRoot(x.name), q) => q \notin W BY <1>2, NamesFact
  <2> QED BY <1>1, <1>5, <2>1, CompleteKept DEF PackageInv, Nodes
<1>6. ASSUME NEW x \in Known, Named(tree', x) \/ In(pm.installed, x)
      PROVE  x.name \in ghost.hurt \cup {pm.name} \cup names \/ Complete(tree', x)
  <2>1. Named(tree, x) \/ In(pm.installed, x) \/ x.name \in names BY <1>1, <1>6 DEF Named
  <2>2. CASE Named(tree, x) \/ In(Base(pm), x) BY <1>5, <2>2 DEF PackageInv, NamedOK
  <2>3. CASE In(pm.installed, x) /\ ~In(Base(pm), x) BY <2>3, SavedIn
  <2> QED BY <2>1, <2>2, <2>3
<1> QED BY <1>1, <1>3, <1>4, <1>5, <1>6

LEMMA SaveOkStep == PackageInv /\ SaveOk => PackageInv'
<1> SUFFICES ASSUME PackageInv, SaveOk PROVE PackageInv' OBVIOUS
<1> PICK l : l = pm.installed OBVIOUS
<1> PICK db : db = Lines(l) OBVIOUS
<1>1. /\ pm.pc = "save" /\ DbUsable(tree) /\ tree' = StoreDb(tree, db) /\ Return("ok")
      /\ ghost' = [ghost EXCEPT !.durable = {l}, !.torn = FALSE, !.unread = FALSE,
                                !.hurt = IF pm.op = "install" THEN @ \ {pm.name} ELSE @]
  BY DEF SaveOk
<1>2. l \in Lists /\ pm.name \in Names BY <1>1 DEF PackageInv, CallOK
<1>3. db \in Content /\ \A x \in Known : Says(db, x) => In(l, x) BY <1>2, LinesFact
<1>4. /\ Nodes(tree') /\ Stored(tree') = db
      /\ \A h \in PackageFiles : \A n \in 0 .. Len(h.entries) :
           rtpgk_validate(h) /\ Unpacked(tree, h, n) => Unpacked(tree', h, n)
      /\ \A x \in Known : Complete(tree, x) => Complete(tree', x)
  BY <1>1, <1>3, SaveLeaves
<1>5. /\ ghost'.durable = {l} /\ ghost'.torn = FALSE
      /\ ghost'.hurt = IF pm.op = "install" THEN ghost.hurt \ {pm.name} ELSE ghost.hurt
      /\ DOMAIN ghost' = DOMAIN ghost /\ ghost' = [x \in DOMAIN ghost' |-> ghost'[x]]
  BY <1>1 DEF PackageInv, GhostOK
<1>6. /\ pm'.pc = "idle" /\ pm'.op = pm.op /\ pm'.result = "ok" /\ pm'.installed = l
      /\ DOMAIN pm' = DOMAIN pm /\ pm' = [x \in DOMAIN pm' |-> pm'[x]]
  BY <1>1 DEF Return, PackageInv, CallOK
<1>7. ~Installing(pm') /\ Base(pm') = l BY <1>6 DEF Installing, Base
<1>8. CallOK(pm') BY <1>2, <1>6, <1>7 DEF PackageInv, CallOK
<1>9. GhostOK(ghost') BY <1>2, <1>5 DEF PackageInv, GhostOK
<1>10. StoredOK(tree', ghost') BY <1>4, <1>5 DEF StoredOK
<1>11. NamedOK(tree', pm', ghost')
  <2>1. ASSUME NEW x \in Known, Named(tree', x) \/ In(l, x)
        PROVE  x.name \in ghost'.hurt \/ Complete(tree', x)
    <3>1. In(l, x) BY <1>3, <1>4, <2>1 DEF Named
    <3>2. CASE In(Base(pm), x)
      <4>1. x.name \in ghost.hurt \/ Complete(tree, x) BY <3>2 DEF PackageInv, NamedOK
      <4>2. pm.op = "install" => x.name # pm.name
        <5>1. pm.op = "install" => ~InByName(Base(pm), pm.name)
          BY <1>1 DEF PackageInv, FreshOK, Installing
        <5> QED BY <3>2, <5>1 DEF In, InByName
      <4> QED BY <1>4, <1>5, <4>1, <4>2
    <3>3. CASE ~In(Base(pm), x)
      <4>1. /\ pm.op = "install" /\ pm.file \in PackageFiles /\ x = Info(pm.file)
        BY <1>1, <3>1, <3>3, SavedIn
      <4>2. /\ rtpgk_validate(pm.file) /\ Unpacked(tree, pm.file, Len(pm.file.entries))
            /\ \A path \in {MANIFEST, pm.file.entry} :
                 \E j \in 1 .. Len(pm.file.entries) : pm.file.entries[j].path = path
        BY <1>1, <4>1 DEF PackageInv, CallOK, Installing, EntriesOK
      <4>3. Len(pm.file.entries) \in 0 .. Len(pm.file.entries)
        <5>1. Len(pm.file.entries) \in Nat BY <4>1, PackageAssumption, LenProperties
        <5> QED BY <5>1
      <4>4. Unpacked(tree', pm.file, Len(pm.file.entries)) BY <1>4, <4>1, <4>2, <4>3
      <4> QED BY <4>1, <4>2, <4>4 DEF Complete
    <3> QED BY <3>2, <3>3
  <2> QED BY <1>7, <2>1 DEF NamedOK
<1>12. BeforeOK(tree', pm', ghost') /\ EntriesOK(tree', pm') /\ FreshOK(tree', pm', ghost')
  BY <1>6, <1>7 DEF BeforeOK, EntriesOK, FreshOK
<1>13. FailedOK(tree', pm', ghost') BY <1>6 DEF FailedOK
<1> QED BY <1>4, <1>8, <1>9, <1>10, <1>11, <1>12, <1>13 DEF PackageInv

\* A save that is cut off leaves the tree and the ghosts like this.
SaveLeft ==
    /\ Nodes(tree') /\ GhostOK(ghost') /\ StoredOK(tree', ghost')
    /\ ghost'.before = ghost.before
    /\ pm.op = "install" => Around(tree', ghost.before.tree, InstallRoot(pm.name))
    /\ pm.name \in ghost'.hurt
    /\ \A x \in Known : Named(tree', x) \/ In(pm.installed, x) =>
         x.name \in ghost'.hurt \/ Complete(tree', x)

LEMMA CutOffLeaves == PackageInv /\ pm.pc = "save" /\ CutOff => SaveLeft
<1> SUFFICES ASSUME PackageInv, pm.pc = "save", CutOff PROVE SaveLeft OBVIOUS
<1> PICK l : l = pm.installed OBVIOUS
<1> PICK old : old = Stored(tree) OBVIOUS
<1>1. l \in Lists BY DEF PackageInv, CallOK
<1>2. old \in Content BY TreeAssumption DEF PackageInv, Nodes, NodeInfo, Stored
<1>3. Lines(l) \in Content /\ \A x \in Known : Says(Lines(l), x) => In(l, x) BY <1>1, LinesFact
<1>4. PICK db \in Content, names \in {{}} \cup {Spliced(old, Lines(l), d) : d \in Content} :
        /\ \/ tree' = tree /\ db = old
           \/ DbUsable(tree) /\ tree' = StoreDb(tree, db) /\ db \in Torn(old, Lines(l))
        /\ LeavesHurt(names)
        /\ \A x \in Known : Says(db, x) => Named(tree, x) \/ In(l, x) \/ x.name \in names
  <2>1. CASE UNCHANGED tree /\ LeavesHurt({})
    <3>1. \A x \in Known : Says(old, x) => Named(tree, x) BY DEF Named
    <3> QED BY <1>2, <2>1, <3>1
  <2>2. CASE /\ DbUsable(tree)
             /\ \E db \in Torn(old, Lines(l)) :
                  tree' = StoreDb(tree, db) /\ LeavesHurt(Spliced(old, Lines(l), db))
    <3>1. PICK db \in Torn(old, Lines(l)) :
            tree' = StoreDb(tree, db) /\ LeavesHurt(Spliced(old, Lines(l), db))
      BY <2>2
    <3>2. /\ db \in Content
          /\ \A x \in Known : Says(db, x) =>
               Says(old, x) \/ Says(Lines(l), x) \/ x.name \in Spliced(old, Lines(l), db)
      BY <1>2, <1>3, TornFact
    <3>3. PICK names : names = Spliced(old, Lines(l), db) OBVIOUS
    <3> QED BY <1>3, <2>2, <3>1, <3>2, <3>3 DEF Named
  <2> QED BY <2>1, <2>2 DEF CutOff
<1>5. /\ Nodes(tree') /\ Stored(tree') = db
      /\ pm.op = "install" => Around(tree', ghost.before.tree, InstallRoot(pm.name))
      /\ \A x \in Known : Named(tree', x) \/ In(l, x) =>
           x.name \in ghost.hurt \cup {pm.name} \cup names \/ Complete(tree', x)
  BY <1>4, SaveLeaves
<1>6. /\ ghost'.before = ghost.before /\ ghost'.durable = ghost.durable
      /\ ghost'.torn = (ghost.torn \/ ghost.durable # {Parent(l)})
      /\ ghost'.hurt = ghost.hurt \cup {pm.name} \cup names
      /\ DOMAIN ghost' = DOMAIN ghost /\ ghost' = [x \in DOMAIN ghost' |-> ghost'[x]]
  BY <1>4 DEF LeavesHurt, PackageInv, GhostOK
<1>7. GhostOK(ghost') BY <1>6 DEF PackageInv, GhostOK
<1>8. StoredOK(tree', ghost')
  <2> SUFFICES ASSUME ~ghost'.torn PROVE \E d \in ghost'.durable : Stored(tree') = Lines(d)
    BY DEF StoredOK
  <2>1. ~ghost.torn /\ ghost.durable = {Parent(l)} BY <1>6
  <2>2. old = Lines(Parent(l)) BY <2>1 DEF PackageInv, StoredOK
  <2>3. db = old BY <1>1, <1>4, <2>2, TornSame
  <2> QED BY <1>5, <1>6, <2>1, <2>2, <2>3
<1> QED BY <1>5, <1>6, <1>7, <1>8 DEF SaveLeft

LEMMA SaveFailedStep == PackageInv /\ SaveFailed => PackageInv'
<1> SUFFICES ASSUME PackageInv, SaveFailed PROVE PackageInv' OBVIOUS
<1> PICK l : l = pm.installed OBVIOUS
<1>1. pm.pc = "save" /\ Failed BY DEF SaveFailed
<1>2. l \in Lists /\ pm.name \in Names BY <1>1 DEF PackageInv, CallOK
<1>3. SaveLeft
  <2>1. CASE CutOff BY <1>1, <2>1, CutOffLeaves
  <2>2. CASE UNCHANGED tree /\ ghost' = [ghost EXCEPT !.hurt = @ \cup {pm.name}]
    <3>1. /\ ghost'.before = ghost.before /\ ghost'.durable = ghost.durable
          /\ ghost'.torn = ghost.torn /\ ghost'.hurt = ghost.hurt \cup {pm.name}
          /\ DOMAIN ghost' = DOMAIN ghost /\ ghost' = [x \in DOMAIN ghost' |-> ghost'[x]]
      BY <2>2 DEF PackageInv, GhostOK
    <3>2. GhostOK(ghost') BY <3>1 DEF PackageInv, GhostOK
    <3>3. StoredOK(tree', ghost') BY <2>2, <3>1 DEF PackageInv, StoredOK
    <3>4. /\ Nodes(tree')
          /\ pm.op = "install" => Around(tree', ghost.before.tree, InstallRoot(pm.name))
          /\ \A x \in Known : Named(tree', x) \/ In(pm.installed, x) =>
               x.name \in ghost.hurt \cup {pm.name} \/ Complete(tree', x)
      <4>1. Stored(tree) \in Content
        BY TreeAssumption DEF PackageInv, Nodes, NodeInfo, Stored
      <4>2. PICK db \in Content, names \in {{}} : db = Stored(tree) BY <4>1
      <4>3. tree' = tree /\ db = Stored(tree) BY <2>2, <4>2
      <4>4. \A x \in Known : Says(db, x) => Named(tree, x) \/ In(pm.installed, x) \/ x.name \in names
        BY <4>2 DEF Named
      <4>5. /\ Nodes(tree')
            /\ pm.op = "install" => Around(tree', ghost.before.tree, InstallRoot(pm.name))
            /\ \A x \in Known : Named(tree', x) \/ In(pm.installed, x) =>
                 x.name \in ghost.hurt \cup {pm.name} \cup names \/ Complete(tree', x)
        BY <1>1, <4>3, <4>4, SaveLeaves
      <4> QED BY <4>5
    <3> QED BY <3>1, <3>2, <3>3, <3>4 DEF SaveLeft
  <2>3. CASE /\ DbUsable(tree) /\ tree' = StoreDb(tree, Lines(l))
             /\ ghost' = [ghost EXCEPT !.durable = @ \cup {l}, !.hurt = @ \cup {pm.name}]
    <3> PICK db, names : db = Lines(l) /\ names = {} OBVIOUS
    <3>1. /\ ghost'.before = ghost.before /\ ghost'.durable = ghost.durable \cup {l}
          /\ ghost'.torn = ghost.torn /\ ghost'.hurt = ghost.hurt \cup {pm.name}
          /\ DOMAIN ghost' = DOMAIN ghost /\ ghost' = [x \in DOMAIN ghost' |-> ghost'[x]]
      BY <2>3 DEF PackageInv, GhostOK
    <3>2. db \in Content /\ \A x \in Known : Says(db, x) => In(l, x) BY <1>2, LinesFact
    <3>3. /\ Nodes(tree') /\ Stored(tree') = db
          /\ pm.op = "install" => Around(tree', ghost.before.tree, InstallRoot(pm.name))
          /\ \A x \in Known : Named(tree', x) \/ In(pm.installed, x) =>
               x.name \in ghost.hurt \cup {pm.name} \cup names \/ Complete(tree', x)
      BY <1>1, <2>3, <3>2, SaveLeaves
    <3>4. Stored(tree') = db BY <3>3
    <3>5. StoredOK(tree', ghost') BY <3>1, <3>4 DEF StoredOK
    <3>6. GhostOK(ghost') BY <1>2, <3>1 DEF PackageInv, GhostOK
    <3> QED BY <3>1, <3>3, <3>5, <3>6 DEF SaveLeft
  <2> QED BY <2>1, <2>2, <2>3 DEF SaveFailed
<1>4. ASSUME pm.op = "install" PROVE PackageInv'
  <2> PICK p : p = Parent(l) OBVIOUS
  <2>1. p = ghost.before.installed /\ p \in Lists BY <1>1, <1>4, SavingList
  <2>2. /\ pm'.pc = "rollback" /\ pm'.installed = p
        /\ \A x \in {"op", "name", "file", "at", "result"} : pm'[x] = pm[x]
        /\ DOMAIN pm' = DOMAIN pm /\ pm' = [x \in DOMAIN pm' |-> pm'[x]]
    BY <1>1, <1>4 DEF Failed, PackageInv, CallOK
  <2>3. /\ pm'.op = "install" /\ pm'.name = pm.name /\ pm'.file = pm.file
        /\ pm'.at = pm.at /\ pm'.result = pm.result /\ Base(pm') = p
    BY <1>4, <2>2 DEF Base
  <2>4. /\ pm.file \in PackageFiles /\ rtpgk_validate(pm.file) /\ pm.file.name = pm.name
        /\ pm.at \in 1 .. Len(pm.file.entries) + 1 /\ pm.result = "none"
        /\ ghost.before.installed \in Seq(Known)
    BY <1>1, <1>4 DEF PackageInv, CallOK, BeforeOK, Installing
  <2>5. CallOK(pm') BY <2>1, <2>2, <2>3, <2>4 DEF PackageInv, CallOK
  <2>6. BeforeOK(tree', pm', ghost')
    BY <1>3, <1>4, <2>1, <2>2, <2>3, <2>4 DEF BeforeOK, SaveLeft
  <2>7. EntriesOK(tree', pm') BY <2>2 DEF EntriesOK
  <2>8. FreshOK(tree', pm', ghost')
    <3>1. Base(pm) = p /\ ~InByName(p, pm.name)
      BY <1>1, <1>4 DEF PackageInv, FreshOK, Installing, Base
    <3> QED BY <1>3, <2>3, <3>1 DEF FreshOK, SaveLeft
  <2>9. NamedOK(tree', pm', ghost')
    <3>1. \A x : In(p, x) => In(l, x)
      <4>1. l \in Seq(Known) /\ p \in Seq(Known) BY <1>2, <2>1 DEF Lists
      <4>2. Len(l) \in Nat /\ Len(p) \in Nat BY <4>1, LenProperties
      <4>3. Len(p) <= Len(l) /\ \A i \in 1 .. Len(p) : p[i] = l[i] BY <1>2, ParentList
      <4>4. \A i \in 1 .. Len(p) : i \in 1 .. Len(l) BY <4>2, <4>3
      <4> QED BY <4>3, <4>4 DEF In
    <3> QED BY <1>3, <2>3, <3>1 DEF NamedOK, SaveLeft
  <2>10. FailedOK(tree', pm', ghost') BY <2>3, <2>4 DEF FailedOK
  <2> QED BY <1>3, <2>5, <2>6, <2>7, <2>8, <2>9, <2>10 DEF PackageInv, SaveLeft
<1>5. ASSUME pm.op # "install" PROVE PackageInv'
  <2>1. /\ pm'.pc = "idle" /\ pm'.installed = l /\ pm'.op = pm.op
        /\ DOMAIN pm' = DOMAIN pm /\ pm' = [x \in DOMAIN pm' |-> pm'[x]]
    BY <1>1, <1>5 DEF Failed, Return, PackageInv, CallOK
  <2>2. ~Installing(pm') /\ Base(pm') = l BY <2>1 DEF Installing, Base
  <2>3. CallOK(pm') BY <1>2, <2>1, <2>2 DEF PackageInv, CallOK
  <2>4. NamedOK(tree', pm', ghost') BY <1>3, <2>2 DEF NamedOK, SaveLeft
  <2>5. BeforeOK(tree', pm', ghost') /\ EntriesOK(tree', pm') /\ FreshOK(tree', pm', ghost')
    BY <2>1, <2>2 DEF BeforeOK, EntriesOK, FreshOK
  <2>6. FailedOK(tree', pm', ghost') BY <1>5, <2>1 DEF FailedOK
  <2> QED BY <1>3, <2>3, <2>4, <2>5, <2>6 DEF PackageInv, SaveLeft
<1> QED BY <1>4, <1>5

LEMMA RemoveStep ==
    ASSUME PackageInv, NEW i \in 1 .. Len(pm.installed), package_remove(pm.installed[i].name)
    PROVE  PackageInv'
<1> PICK n : n = pm.installed[i].name OBVIOUS
<1>1. /\ pm.pc = "idle" /\ pm.installed \in Lists /\ InByName(pm.installed, n) /\ n \in Names
      /\ Base(pm) = pm.installed
  <2>1. pm.pc = "idle" /\ pm.installed \in Lists
    BY DEF package_remove, Idle, PackageInv, CallOK
  <2>2. pm.installed \in Seq(Known) BY <2>1 DEF Lists
  <2>3. pm.installed[i] \in Known BY <2>2, ElementOfSeq
  <2>4. n \in Names BY <2>3, NamesFact
  <2> QED BY <2>1, <2>4 DEF InByName, Base
<1>2. CASE /\ tree' = Cut(tree, InstallRoot(n)) /\ pm' = RemovingName(n)
           /\ ghost' = [ghost EXCEPT !.hurt = @ \cup {n}]
  <2> PICK W : W = Under(InstallRoot(n)) OBVIOUS
  <2>1. /\ pm'.pc = "unlist" /\ pm'.op = "remove" /\ pm'.name = n /\ pm'.installed = pm.installed
        /\ DOMAIN pm' = DOMAIN pm /\ pm' = [x \in DOMAIN pm' |-> pm'[x]]
    BY <1>2 DEF RemovingName, PackageInv, CallOK
  <2>2. /\ ghost'.durable = ghost.durable /\ ghost'.torn = ghost.torn
        /\ ghost'.hurt = ghost.hurt \cup {n}
        /\ DOMAIN ghost' = DOMAIN ghost /\ ghost' = [x \in DOMAIN ghost' |-> ghost'[x]]
    BY <1>2 DEF PackageInv, GhostOK
  <2>3. Nodes(tree') /\ Kept(tree, tree', W) /\ Added(tree, tree', {})
    BY <1>1, <1>2, CutMade DEF PackageInv
  <2>4. ~Installing(pm') /\ Base(pm') = pm.installed BY <2>1 DEF Installing, Base
  <2>5. CallOK(pm') BY <1>1, <2>1, <2>4 DEF PackageInv, CallOK
  <2>6. GhostOK(ghost') BY <2>2 DEF PackageInv, GhostOK
  <2>7. Stored(tree') = Stored(tree)
    <3>1. PACKAGE_DB_PATH \notin W BY <1>1, DbApart DEF Under
    <3> QED BY <2>3, <3>1, StoredKept
  <2>8. StoredOK(tree', ghost') BY <2>2, <2>7 DEF PackageInv, StoredOK
  <2>9. NamedOK(tree', pm', ghost')
    <3>1. ASSUME NEW x \in Known, Named(tree', x) \/ In(pm.installed, x), x.name # n
          PROVE  x.name \in ghost.hurt \/ Complete(tree', x)
      <4>1. x.name \in ghost.hurt \/ Complete(tree, x)
        BY <1>1, <2>7, <3>1 DEF PackageInv, NamedOK, Named
      <4>2. \A q \in Path : Below(InstallRoot(x.name), q) => q \notin W
        BY <1>1, <3>1, NamesFact, RootsApart DEF Under
      <4>3. Complete(tree, x) => Complete(tree', x)
        BY <2>3, <4>2, CompleteKept DEF PackageInv, Nodes
      <4> QED BY <4>1, <4>3
    <3> QED BY <2>2, <2>4, <3>1 DEF NamedOK
  <2>10. BeforeOK(tree', pm', ghost') /\ EntriesOK(tree', pm') /\ FreshOK(tree', pm', ghost')
         /\ FailedOK(tree', pm', ghost')
    BY <2>1, <2>4 DEF BeforeOK, EntriesOK, FreshOK, FailedOK
  <2> QED BY <2>3, <2>5, <2>6, <2>8, <2>9, <2>10 DEF PackageInv
<1>3. CASE /\ pm' = [pm EXCEPT !.op = "remove", !.name = n, !.result = "failed"]
           /\ UNCHANGED <<tree, ghost>>
  <2>1. /\ pm'.pc = "idle" /\ pm'.op = "remove" /\ pm'.installed = pm.installed
        /\ DOMAIN pm' = DOMAIN pm /\ pm' = [x \in DOMAIN pm' |-> pm'[x]]
    BY <1>1, <1>3 DEF PackageInv, CallOK
  <2>2. ~Installing(pm') /\ Base(pm') = pm.installed BY <2>1 DEF Installing, Base
  <2>3. CallOK(pm') BY <1>1, <2>1, <2>2 DEF PackageInv, CallOK
  <2>4. NamedOK(tree', pm', ghost') BY <1>1, <1>3, <2>2 DEF PackageInv, NamedOK, Named
  <2>5. BeforeOK(tree', pm', ghost') /\ EntriesOK(tree', pm') /\ FreshOK(tree', pm', ghost')
        /\ FailedOK(tree', pm', ghost')
    BY <2>1, <2>2 DEF BeforeOK, EntriesOK, FreshOK, FailedOK
  <2> QED BY <1>3, <2>3, <2>4, <2>5 DEF PackageInv
<1> QED BY <1>2, <1>3 DEF package_remove

LEMMA UnlistStep == PackageInv /\ Unlist => PackageInv'
<1> SUFFICES ASSUME PackageInv, Unlist PROVE PackageInv' OBVIOUS
<1> PICK j : j = Index(pm.name) OBVIOUS
<1> PICK l : l = pm.installed OBVIOUS
<1> PICK w : w = Without(l, j) OBVIOUS
<1>1. /\ pm.pc = "unlist" /\ l \in Lists /\ InByName(l, pm.name) /\ pm.op = "remove" /\ Base(pm) = l
      /\ UNCHANGED <<tree, ghost>>
  BY DEF Unlist, PackageInv, CallOK, Base
<1>2. Len(l) # 0 BY <1>1 DEF InByName
<1>3. w \in Lists /\ \A n : In(w, n) => In(l, n) BY <1>1, <1>2, WithoutFact
<1>4. pm.name \in Names
  <2>1. l \in Seq(Known) BY <1>1 DEF Lists
  <2>2. PICK k \in 1 .. Len(l) : l[k].name = pm.name BY <1>1 DEF InByName
  <2>3. l[k] \in Known BY <2>1, ElementOfSeq
  <2> QED BY <2>2, <2>3, NamesFact
<1>5. /\ pm'.pc = "save" /\ pm'.op = "remove" /\ pm'.name = pm.name /\ pm'.installed = w
      /\ DOMAIN pm' = DOMAIN pm /\ pm' = [x \in DOMAIN pm' |-> pm'[x]]
  BY <1>1 DEF Unlist, PackageInv, CallOK
<1>6. ~Installing(pm') /\ Base(pm') = w BY <1>5 DEF Installing, Base
<1>7. CallOK(pm') BY <1>3, <1>4, <1>5, <1>6 DEF PackageInv, CallOK
<1>8. NamedOK(tree', pm', ghost') BY <1>1, <1>3, <1>6 DEF PackageInv, NamedOK, Named
<1>9. BeforeOK(tree', pm', ghost') /\ EntriesOK(tree', pm') /\ FreshOK(tree', pm', ghost')
      /\ FailedOK(tree', pm', ghost')
  BY <1>5, <1>6 DEF BeforeOK, EntriesOK, FreshOK, FailedOK
<1> QED BY <1>1, <1>7, <1>8, <1>9 DEF PackageInv

\* Power fails, in a call or between two.
LEMMA PowerStep == PackageInv /\ PowerFails => PackageInv'
<1> SUFFICES ASSUME PackageInv, PowerFails PROVE PackageInv' OBVIOUS
<1>1. /\ pm'.pc = "off" /\ pm'.installed = pm.installed /\ pm'.op = pm.op
      /\ pm'.result = pm.result
      /\ DOMAIN pm' = DOMAIN pm /\ pm' = [x \in DOMAIN pm' |-> pm'[x]]
  BY DEF PowerFails, Goto, PackageInv, CallOK
<1>2. ~Installing(pm') /\ Base(pm') = pm.installed BY <1>1 DEF Installing, Base
<1>3. CallOK(pm') BY <1>1, <1>2 DEF PackageInv, CallOK
<1>4. BeforeOK(tree', pm', ghost') /\ EntriesOK(tree', pm') /\ FreshOK(tree', pm', ghost')
  BY <1>1, <1>2 DEF BeforeOK, EntriesOK, FreshOK
<1>5. CASE pm.pc = "save"
  <2>1. SaveLeft BY <1>5, CutOffLeaves DEF PowerFails
  <2>2. NamedOK(tree', pm', ghost') BY <1>2, <2>1 DEF NamedOK, SaveLeft
  <2>3. FailedOK(tree', pm', ghost')
    BY <1>1, <1>5 DEF PackageInv, CallOK, Installing, FailedOK
  <2> QED BY <1>3, <1>4, <2>1, <2>2, <2>3 DEF PackageInv, SaveLeft
<1>6. CASE pm.pc # "save"
  <2>1. UNCHANGED <<tree, ghost>> BY <1>6 DEF PowerFails
  <2>2. NamedOK(tree', pm', ghost') BY <1>2, <1>6, <2>1 DEF PackageInv, NamedOK, Base, Named
  <2>3. FailedOK(tree', pm', ghost') BY <1>1, <2>1 DEF PackageInv, FailedOK
  <2> QED BY <1>3, <1>4, <2>1, <2>2, <2>3 DEF PackageInv
<1> QED BY <1>5, <1>6

\* What a restart makes of the tree, and the list that it loads or does not.
LEMMA RestartMade ==
    ASSUME PackageInv, package_manager_init
    PROVE  /\ Nodes(tree') /\ Stored(tree') = Stored(tree) /\ Stored(tree) \in Content
           /\ \A x \in Known : Complete(tree, x) => Complete(tree', x)
           /\ \/ pm'.installed = package_database_load(Stored(tree))
              \/ pm'.installed = <<>> /\ ghost'.unread
<1> PICK based : based = Based(tree) OBVIOUS
<1> PICK made : made = IF PACKAGE_DB_PATH \in DOMAIN based \/ ~DbUsable(based) THEN based
                       ELSE StoreDb(based, <<>>)
  OBVIOUS
<1>1. \/ tree' = made /\ pm'.installed = package_database_load(Stored(made))
      \/ tree' = based /\ pm'.installed = <<>> /\ ghost'.unread
  <2>1. \/ tree' = made /\ pm' = Started(package_database_load(Stored(made)))
        \/ tree' = based /\ pm' = Started(<<>>) /\ ghost' = [ghost EXCEPT !.unread = TRUE]
    BY DEF package_manager_init
  <2>2. ASSUME NEW l PROVE Started(l).installed = l BY DEF Started, PackageInv, CallOK
  <2>3. [ghost EXCEPT !.unread = TRUE].unread BY DEF PackageInv, GhostOK
  <2> QED BY <2>1, <2>2, <2>3
<1>2. /\ Nodes(based) /\ Kept(tree, based, {}) /\ Added(tree, based, DOMAIN InitTree)
      /\ PACKAGE_DB_PATH \notin DOMAIN InitTree
  BY BasedMade DEF PackageInv
<1>3. Stored(based) = Stored(tree) BY <1>2, StoredKept
<1>4. \A x \in Known : Complete(tree, x) => Complete(based, x)
  BY <1>2, CompleteKept DEF PackageInv, Nodes
<1>5. Stored(tree) \in Content
  BY TreeAssumption DEF PackageInv, Nodes, NodeInfo, Stored
<1>6. /\ Nodes(made) /\ Stored(made) = Stored(tree)
      /\ \A x \in Known : Complete(tree, x) => Complete(made, x)
  <2>1. CASE PACKAGE_DB_PATH \in DOMAIN based \/ ~DbUsable(based)
    <3>1. made = based BY <2>1
    <3> QED BY <1>2, <1>3, <1>4, <3>1
  <2>2. CASE ~(PACKAGE_DB_PATH \in DOMAIN based \/ ~DbUsable(based))
    <3> PICK W, N : W = {PACKAGE_DB_PATH} /\ N = Prefixes(PACKAGE_DB_PATH) OBVIOUS
    <3>1. <<>> \in Content BY TreeAssumption
    <3>2. PICK db \in Content : db = <<>> BY <3>1
    <3>3. made = StoreDb(based, db) /\ DbUsable(based) BY <2>2, <3>2
    <3>4. Nodes(made) /\ Kept(based, made, W) /\ Stored(made) = db
      BY <1>2, <3>3, StoreMade
    <3>5. \A x \in Known : \A q \in Path : Below(InstallRoot(x.name), q) => q \notin W
      BY NamesFact, DbApart
    <3>6. \A x \in Known : Complete(based, x) => Complete(made, x)
      BY <1>2, <3>4, <3>5, CompleteKept DEF Nodes
    <3>7. Stored(made) = Stored(tree) BY <1>3, <2>2, <3>2, <3>4 DEF Stored
    <3> QED BY <1>4, <3>4, <3>6, <3>7
  <2> QED BY <2>1, <2>2
<1>7. CASE tree' = made /\ pm'.installed = package_database_load(Stored(made))
  <2>1. PICK u : u = made /\ u = tree' BY <1>7
  <2> QED BY <1>5, <1>6, <1>7, <2>1
<1>8. CASE tree' = based /\ pm'.installed = <<>> /\ ghost'.unread
  <2>1. PICK u : u = based /\ u = tree' BY <1>8
  <2> QED BY <1>2, <1>3, <1>4, <1>5, <1>8, <2>1
<1> QED BY <1>1, <1>7, <1>8

LEMMA RestartStep == PackageInv /\ package_manager_init => PackageInv'
<1> SUFFICES ASSUME PackageInv, package_manager_init PROVE PackageInv' OBVIOUS
<1> PICK l : l = pm'.installed OBVIOUS
<1>1. /\ Nodes(tree') /\ Stored(tree') = Stored(tree) /\ Stored(tree) \in Content
      /\ \A x \in Known : Complete(tree, x) => Complete(tree', x)
      /\ l = package_database_load(Stored(tree)) \/ l = <<>>
  BY RestartMade
<1>2. l \in Lists /\ \A x : In(l, x) => Says(Stored(tree), x)
  <2>1. CASE l = package_database_load(Stored(tree)) BY <1>1, <2>1, LoadFact
  <2>2. CASE l = <<>>
    <3>1. l \in Seq(Known) /\ Len(l) = 0 BY <2>2, EmptySeq
    <3> QED BY <3>1, PackageAssumption DEF Lists, In
  <2> QED BY <1>1, <2>1, <2>2
<1>3. /\ pm'.pc = "idle" /\ pm'.op = "none"
      /\ DOMAIN pm' = DOMAIN pm /\ pm' = [x \in DOMAIN pm' |-> pm'[x]]
  <2>1. PICK list : pm' = Started(list) BY DEF package_manager_init
  <2> QED BY <2>1 DEF Started, PackageInv, CallOK
<1>4. /\ ghost'.durable = ghost.durable /\ ghost'.torn = ghost.torn /\ ghost'.hurt = ghost.hurt
      /\ DOMAIN ghost' = DOMAIN ghost /\ ghost' = [x \in DOMAIN ghost' |-> ghost'[x]]
  BY DEF package_manager_init, PackageInv, GhostOK
<1>5. ~Installing(pm') /\ Base(pm') = l BY <1>3 DEF Installing, Base
<1>6. CallOK(pm') BY <1>2, <1>3, <1>5 DEF PackageInv, CallOK
<1>7. GhostOK(ghost') BY <1>4 DEF PackageInv, GhostOK
<1>8. StoredOK(tree', ghost') BY <1>1, <1>4 DEF PackageInv, StoredOK
<1>9. NamedOK(tree', pm', ghost') BY <1>1, <1>2, <1>4, <1>5 DEF PackageInv, NamedOK, Named
<1>10. BeforeOK(tree', pm', ghost') /\ EntriesOK(tree', pm') /\ FreshOK(tree', pm', ghost')
       /\ FailedOK(tree', pm', ghost')
  BY <1>3, <1>5 DEF BeforeOK, EntriesOK, FreshOK, FailedOK
<1> QED BY <1>1, <1>6, <1>7, <1>8, <1>9, <1>10 DEF PackageInv

\* What the user does to a package makes it one of those he changed.
LEMMA UserStep == PackageInv /\ User => PackageInv'
<1> SUFFICES ASSUME PackageInv, User PROVE PackageInv' OBVIOUS
<1>1. Nodes(tree') BY UserFact DEF PackageInv, User
<1>2. /\ pm.pc = "idle" /\ Base(pm) = pm.installed
      /\ pm'.pc = "idle" /\ pm'.op = "none" /\ pm'.installed = pm.installed
      /\ DOMAIN pm' = DOMAIN pm /\ pm' = [x \in DOMAIN pm' |-> pm'[x]]
  BY DEF User, Idle, Base, PackageInv, CallOK
<1>3. /\ ghost'.durable = ghost.durable
      /\ ghost'.torn = (ghost.torn \/ Stored(tree') # Stored(tree))
      /\ ghost'.hurt = ghost.hurt \cup {n \in Names : Touched(n) \/ Relisted(n)}
      /\ DOMAIN ghost' = DOMAIN ghost /\ ghost' = [x \in DOMAIN ghost' |-> ghost'[x]]
  BY DEF User, PackageInv, GhostOK, Names
<1>4. ~Installing(pm') /\ Base(pm') = pm.installed BY <1>2 DEF Installing, Base
<1>5. CallOK(pm') BY <1>2, <1>4 DEF PackageInv, CallOK
<1>6. GhostOK(ghost') BY <1>3 DEF PackageInv, GhostOK
<1>7. StoredOK(tree', ghost') BY <1>3 DEF PackageInv, StoredOK
<1>8. ASSUME NEW x \in Known, Named(tree', x) PROVE Named(tree, x) \/ x.name \in ghost'.hurt
  <2>1. CASE Stored(tree') = Stored(tree) BY <1>8, <2>1 DEF Named
  <2>2. CASE Stored(tree') # Stored(tree)
    <3>1. Relisted(x.name) BY <1>8, <2>2 DEF Relisted, Named
    <3> QED BY <1>3, <3>1, NamesFact
  <2> QED BY <2>1, <2>2
<1>9. PICK W : W = {q \in DOMAIN tree : q \notin DOMAIN tree' \/ tree'[q] # tree[q]} OBVIOUS
<1>10. Kept(tree, tree', W) BY <1>9 DEF Kept
<1>11. ASSUME NEW x \in Known, ~Touched(x.name), Complete(tree, x) PROVE Complete(tree', x)
  <2> PICK n \in Names : n = x.name BY NamesFact
  <2>1. ASSUME NEW q \in W, Below(InstallRoot(n), q) PROVE FALSE
    <3>1. q \in DOMAIN tree BY <1>9
    <3>2. q \notin DOMAIN Cut(tree, InstallRoot(n)) BY <2>1 DEF Cut
    <3>3. Cut(tree, InstallRoot(n)) # tree BY <3>1, <3>2
    <3> QED BY <1>9, <1>11, <2>1, <3>1, <3>3 DEF Touched
  <2>2. \A q \in Path : Below(InstallRoot(n), q) => q \notin W BY <2>1
  <2> QED BY <1>10, <1>11, <2>2, CompleteKept DEF PackageInv, Nodes
<1>12. NamedOK(tree', pm', ghost')
  <2>1. ASSUME NEW x \in Known, Named(tree', x) \/ In(pm.installed, x)
        PROVE  x.name \in ghost'.hurt \/ Complete(tree', x)
    <3>1. x.name \in ghost'.hurt \/ Named(tree, x) \/ In(Base(pm), x) BY <1>2, <1>8, <2>1
    <3>2. x.name \in ghost'.hurt \/ Complete(tree, x)
      BY <1>3, <3>1 DEF PackageInv, NamedOK
    <3>3. Touched(x.name) => x.name \in ghost'.hurt BY <1>3, NamesFact
    <3> QED BY <1>11, <3>2, <3>3
  <2> QED BY <1>4, <2>1 DEF NamedOK
<1>13. BeforeOK(tree', pm', ghost') /\ EntriesOK(tree', pm') /\ FreshOK(tree', pm', ghost')
       /\ FailedOK(tree', pm', ghost')
  BY <1>2, <1>4 DEF BeforeOK, EntriesOK, FreshOK, FailedOK
<1> QED BY <1>1, <1>5, <1>6, <1>7, <1>12, <1>13 DEF PackageInv

LEMMA InitNodes == Nodes(InitTree) /\ DbUsable(InitTree)
<1>1. /\ DOMAIN InitTree \subseteq Path /\ InitTree = [q \in DOMAIN InitTree |-> InitTree[q]]
      /\ \A q \in DOMAIN InitTree : InitTree[q] \in NodeInfo
  BY TreeAssumption
<1>2. ASSUME NEW q \in DOMAIN InitTree, NEW k \in 0 .. Len(q)
      PROVE  /\ Front(q, k) \in DOMAIN InitTree
             /\ IsDir(InitTree, q) => IsDir(InitTree, Front(q, k))
  <2>1. Len(q) \in Nat /\ Front(q, Len(q)) = q BY <1>1, PathFact
  <2>2. CASE k = Len(q) BY <2>1, <2>2
  <2>3. CASE k # Len(q)
    <3>1. k \in 0 .. Len(q) - 1 BY <2>1, <2>3
    <3> QED BY <3>1, TreeAssumption DEF Shape, Rooted, IsDir
  <2> QED BY <2>2, <2>3
<1>3. InitTree \in [DOMAIN InitTree -> NodeInfo] BY <1>1
<1>4. Nodes(InitTree) BY <1>1, <1>2, <1>3 DEF Nodes, Closed
<1>5. DbUsable(InitTree)
  <2> PICK a : a = Parent(PACKAGE_DB_PATH) OBVIOUS
  <2>1. IsDir(InitTree, a) /\ a \in DOMAIN InitTree /\ PACKAGE_DB_PATH \notin DOMAIN InitTree
    BY PackageAssumption DEF IsDir
  <2>2. CanMake(InitTree, a) BY <1>2, <2>1 DEF CanMake, Prefixes
  <2> QED BY <2>1, <2>2 DEF DbUsable
<1> QED BY <1>4, <1>5

LEMMA PackageStarts == PackageInit => PackageInv
<1> SUFFICES ASSUME PackageInit PROVE PackageInv OBVIOUS
<1> PICK none : none = <<>> OBVIOUS
<1>1. /\ tree = StoreDb(InitTree, none)
      /\ pm = [pc |-> "idle", op |-> "none", name |-> EMPTY, file |-> EMPTY, at |-> 0,
               result |-> "none", installed |-> none]
      /\ ghost = [before |-> [installed |-> none, tree |-> InitTree], durable |-> {none},
                  torn |-> FALSE, unread |-> FALSE, hurt |-> {}]
  BY DEF PackageInit
<1>2. none \in Lists /\ \A x : ~In(none, x)
  <2>1. none \in Seq(Known) /\ Len(none) = 0 BY EmptySeq
  <2> QED BY <2>1, PackageAssumption DEF Lists, In
<1>3. none \in Content /\ Lines(none) = none
  <2>1. none \in Content BY TreeAssumption
  <2>2. Lines(none) \in Content /\ Len(Lines(none)) = 0 /\ Len(none) = 0
    BY <1>2, LinesFact, EmptySeq
  <2>3. Lines(none) \in Seq(AnyLine) BY <2>2, ContentFact, IsASeq
  <2> QED BY <2>1, <2>2, <2>3, EmptySeq
<1>4. Nodes(tree) /\ Stored(tree) = none BY <1>1, <1>3, InitNodes, StoreMade
<1>5. ASSUME NEW x PROVE ~Named(tree, x)
  <2>1. Len(Stored(tree)) = 0 BY <1>4, EmptySeq
  <2> QED BY <2>1 DEF Named, Says
<1>6. /\ pm.pc = "idle" /\ pm.op = "none" /\ pm.installed = none
      /\ DOMAIN pm = {"pc", "op", "name", "file", "at", "result", "installed"}
      /\ pm = [x \in DOMAIN pm |-> pm[x]]
  BY <1>1
<1>7. ~Installing(pm) /\ Base(pm) = none BY <1>6 DEF Installing, Base
<1>8. CallOK(pm) BY <1>2, <1>6, <1>7 DEF CallOK
<1>9. /\ DOMAIN ghost = {"before", "durable", "torn", "unread", "hurt"}
      /\ ghost = [x \in DOMAIN ghost |-> ghost[x]] /\ ghost.durable = {none}
  BY <1>1
<1>10. GhostOK(ghost) BY <1>2, <1>9 DEF GhostOK
<1>11. StoredOK(tree, ghost) BY <1>3, <1>4, <1>9 DEF StoredOK
<1>12. NamedOK(tree, pm, ghost) BY <1>2, <1>5, <1>7 DEF NamedOK
<1>13. BeforeOK(tree, pm, ghost) /\ EntriesOK(tree, pm) /\ FreshOK(tree, pm, ghost)
       /\ FailedOK(tree, pm, ghost)
  BY <1>6, <1>7 DEF BeforeOK, EntriesOK, FreshOK, FailedOK
<1> QED BY <1>4, <1>8, <1>10, <1>11, <1>12, <1>13 DEF PackageInv

LEMMA PackageStep == PackageInv /\ [PackageNext]_packageVars => PackageInv'
<1> SUFFICES ASSUME PackageInv, [PackageNext]_packageVars PROVE PackageInv' OBVIOUS
<1>1. ASSUME UNCHANGED packageVars PROVE PackageInv'
  <2>1. tree' = tree /\ pm' = pm /\ ghost' = ghost BY <1>1 DEF packageVars
  <2> QED BY <2>1 DEF PackageInv
<1>2. CASE PackageRefused BY <1>1, <1>2 DEF PackageRefused
<1>3. CASE \E h \in PackageFiles : package_install(h) BY <1>3, InstallStarts
<1>4. CASE InstallEntry BY <1>4, EntryStep
<1>5. CASE InstallRecord BY <1>5, RecordStep
<1>6. CASE Rollback BY <1>6, RollbackStep
<1>7. CASE \E i \in 1 .. Len(pm.installed) : package_remove(pm.installed[i].name)
  BY <1>7, RemoveStep
<1>8. CASE Unlist BY <1>8, UnlistStep
<1>9. CASE SaveOk BY <1>9, SaveOkStep
<1>10. CASE SaveFailed BY <1>10, SaveFailedStep
<1>11. CASE PowerFails BY <1>11, PowerStep
<1>12. CASE package_manager_init BY <1>12, RestartStep
<1>13. CASE User BY <1>13, UserStep
<1> QED BY <1>1, <1>2, <1>3, <1>4, <1>5, <1>6, <1>7, <1>8, <1>9, <1>10, <1>11, <1>12, <1>13
        DEF PackageNext, Install, Uninstall

-----------------------------------------------------------------------------
(* The theorems.                                                           *)

\* In every state that installs, removals, failing calls, power failures,
\* restarts and the user's own calls lead to, the tree and the package
\* manager satisfy the invariant above.
THEOREM PackageInvariant == PackageSpec => []PackageInv
<1>1. PackageInit => PackageInv BY PackageStarts
<1>2. PackageInv /\ [PackageNext]_packageVars => PackageInv' BY PackageStep
<1> QED BY <1>1, <1>2, PTL DEF PackageSpec

\* package_install takes back all that it did when it fails, at whatever
\* entry, check or save.
THEOREM FailedInstallLeavesNothing == PackageSpec => []InstallAllOrNothing
<1>1. PackageInv => InstallAllOrNothing
  BY DEF PackageInv, FailedOK, InstallAllOrNothing
<1> QED BY <1>1, PackageInvariant, PTL

\* Between two calls a package of the list has all the files that
\* package_install copied for it, in the version and with the application
\* that the list names, unless its own removal or save was cut off, the user
\* changed them or the list, or the halves of two lines made it.
THEOREM ListedAreComplete == PackageSpec => []ListedIsComplete
<1>1. ASSUME PackageInv, Idle, NEW i \in 1 .. Len(pm.installed)
      PROVE  pm.installed[i].name \in ghost.hurt \/ Complete(tree, pm.installed[i])
  <2>1. pm.installed \in Seq(Known) BY <1>1 DEF PackageInv, CallOK, Lists
  <2>2. pm.installed[i] \in Known BY <2>1, ElementOfSeq
  <2>3. In(Base(pm), pm.installed[i]) BY <1>1 DEF Idle, Base, In
  <2> QED BY <1>1, <2>2, <2>3 DEF PackageInv, NamedOK
<1>2. PackageInv => ListedIsComplete BY <1>1 DEF ListedIsComplete
<1> QED BY <1>2, PackageInvariant, PTL

\* package_manager_init loads a list that a completed or a cut off save
\* wrote, up to the first package without a version, or, when it cannot read
\* the database, starts with none and leaves it as it is.
THEOREM RestartLoadsSavedList == PackageSpec => RestartKeepsList
<1>1. PackageInv /\ [PackageNext]_packageVars =>
        [package_manager_init =>
           \/ ghost.torn
           \/ pm'.installed \in {Readable(l) : l \in ghost.durable}
           \/ ghost'.unread /\ pm'.installed = <<>> /\ Stored(tree') = Stored(tree)]_packageVars
  <2> SUFFICES ASSUME PackageInv, package_manager_init, ~ghost.torn
               PROVE  \/ pm'.installed \in {Readable(l) : l \in ghost.durable}
                      \/ ghost'.unread /\ pm'.installed = <<>> /\ Stored(tree') = Stored(tree)
    OBVIOUS
  <2>1. PICK l \in ghost.durable : Stored(tree) = Lines(l) BY DEF PackageInv, StoredOK
  <2>2. l \in Lists BY <2>1 DEF PackageInv, GhostOK
  <2>3. package_database_load(Stored(tree)) = Readable(l) BY <2>1, <2>2, LoadReadable
  <2>4. /\ Stored(tree') = Stored(tree)
        /\ \/ pm'.installed = package_database_load(Stored(tree))
           \/ pm'.installed = <<>> /\ ghost'.unread
    BY RestartMade
  <2> QED BY <2>1, <2>3, <2>4
<1> QED BY <1>1, PackageInvariant, PTL DEF PackageSpec, RestartKeepsList

\* rtpgk_validate accepts no file in which an entry, or the table of entries,
\* reaches out of the file, whatever its offsets and sizes.
THEOREM AcceptedFilesInBounds == PackageSpec => []AcceptedInBounds
<1>1. ASSUME NEW size \in 0 .. USIZE - 1, NEW table \in 0 .. USIZE - 1,
             NEW data \in 0 .. USIZE - 1, NEW offset \in 0 .. USIZE - 1,
             NEW amount \in 0 .. USIZE - 1, NEW h, NEW e,
             h.size = size, h.table_offset = table, h.data_offset = data, h.entries = <<e>>,
             e = [path |-> MANIFEST, offset |-> offset, size |-> amount, data |-> <<>>],
             rtpgk_validate(h)
      PROVE  offset + amount <= size /\ table + ENTRY_SIZE <= offset
  <2>1. MANIFEST \in Seq(Component) /\ <<>> \in Content BY PackageAssumption, TreeAssumption
  <2>2. e \in RtpgkEntry BY <1>1, <2>1 DEF RtpgkEntry, Usize
  <2>3. h.entries \in Seq(RtpgkEntry) /\ Len(h.entries) = 1 /\ h.entries[1] = e BY <1>1, <2>2
  <2>4. h.size \in Usize /\ h.table_offset \in Usize /\ h.data_offset \in Usize
    BY <1>1 DEF Usize
  <2>5. /\ h.entries[1].offset + h.entries[1].size <= h.size
        /\ h.table_offset + TableBytes(h) <= h.entries[1].offset
    <3>1. 1 \in 1 .. Len(h.entries) BY <2>3
    <3> QED BY <1>1, <2>3, <2>4, <3>1, ValidInBounds
  <2>6. TableBytes(h) = ENTRY_SIZE BY <2>3, PackageAssumption DEF TableBytes
  <2> QED BY <1>1, <2>3, <2>5, <2>6
<1>2. ValidationIsSafe
  <2> SUFFICES ASSUME NEW size \in 0 .. USIZE - 1, NEW table \in 0 .. USIZE - 1,
                      NEW data \in 0 .. USIZE - 1, NEW offset \in 0 .. USIZE - 1,
                      NEW amount \in 0 .. USIZE - 1,
                      rtpgk_validate([name |-> "x", version |-> "1", entry |-> MANIFEST,
                        size |-> size, table_offset |-> table, data_offset |-> data,
                        entries |-> <<[path |-> MANIFEST, offset |-> offset, size |-> amount,
                                       data |-> <<>>]>>])
               PROVE  offset + amount <= size /\ table + ENTRY_SIZE <= offset
    BY DEF ValidationIsSafe
  <2> PICK e : e = [path |-> MANIFEST, offset |-> offset, size |-> amount, data |-> <<>>] OBVIOUS
  <2> PICK h : h = [name |-> "x", version |-> "1", entry |-> MANIFEST, size |-> size,
                    table_offset |-> table, data_offset |-> data, entries |-> <<e>>]
    OBVIOUS
  <2>1. /\ h.size = size /\ h.table_offset = table /\ h.data_offset = data /\ h.entries = <<e>>
        /\ rtpgk_validate(h)
    OBVIOUS
  <2> QED BY <1>1, <2>1
<1>3. AcceptedInBounds BY <1>2 DEF AcceptedInBounds
<1> QED BY <1>3, PTL
=============================================================================
