-------------------------- MODULE FilesystemProofs --------------------------
(***************************************************************************)
(* The filesystem mirrors its table on disk and touches no node but those  *)
(* of the call, for any table size, names, contents, base tree and number  *)
(* of faults and power failures.                                           *)
(*                                                                         *)
(* What a step does to a path that fits depends on where the call stands:  *)
(* CallInv says what the call in progress may be about, TransferInv that   *)
(* a copy or a move cannot grow its own source, RootInv that "/" stays a   *)
(* directory (copying it is refused for that reason only).                 *)
(***************************************************************************)
EXTENDS Filesystem, FiniteSetTheorems, SequenceTheorems, WellFoundedInduction, TLAPS

OpNames == {"none", "mkdir", "touch", "remove", "unlink", "copy", "move", "write", "append"}

NodeType == [used : BOOLEAN, type : Type, path : Path, size : 0 .. FS_MAX_FILE_SIZE,
             ram : Content]
RecordType == [used : BOOLEAN, type : Type, path : Path, size : 0 .. FS_MAX_FILE_SIZE]

\* What lasts from call to call, and what belongs to the call in progress.
StoreType ==
    /\ nodes \in [Slots -> NodeType] /\ disk \in [Slots -> RecordType]
    /\ sectors \in [Slots -> [1 .. FS_MAX_FILE_SIZE -> Sector \cup {0}]]
    /\ current_directory \in Path
    /\ filesystem_persistent_backend \in BOOLEAN /\ filesystem_storage_error \in BOOLEAN
    /\ volume \in BOOLEAN /\ faults \in Nat /\ crashes \in Nat
CallType ==
    /\ pc \in {"off", "tree", "idle", "ensure", "remove", "copy", "move", "data"}
    /\ op \in [name : OpNames, src : Path, dst : Path]
    /\ at \in Nat /\ sec \in Nat /\ slot \in Slots \cup {NONE}
    /\ buf \in Seq(Sector \cup {0})

\* A path is in table n, and its first slot holds a directory.
UsedIn(n, p) == \E i \in Slots : n[i].used /\ n[i].path = p
DirIn(n, p) ==
    \E i \in Slots : /\ n[i].used /\ n[i].path = p /\ n[i].type = DIR
                    /\ \A j \in Slots : n[j].used /\ n[j].path = p => i <= j

\* The call in progress and the slot it writes to.
CallInv ==
    /\ pc = "off" => ~filesystem_persistent_backend
    /\ pc = "tree" => filesystem_persistent_backend /\ at > 0
    /\ pc = "ensure" => op.name \in {"mkdir", "touch", "copy", "move"}
    /\ pc = "ensure" /\ op.name = "touch" => op.dst # <<>>
    /\ pc = "remove" => op.name \in {"remove", "unlink"} /\ op.src # <<>>
    /\ pc \in {"copy", "move"} => op.name = pc
    /\ pc = "data" =>
         /\ op.name \in {"write", "append", "copy"}
         /\ slot \in Slots /\ nodes[slot].used /\ sec > 0
         /\ IF op.name = "copy" THEN path_is_inside(op.dst, nodes[slot].path)
            ELSE nodes[slot].path = op.src

\* Without a disk a file's size is that of its content.
RamSizes ==
    ~filesystem_persistent_backend => \A i \in Slots : Len(nodes[i].ram) = nodes[i].size
RamBuffer ==
    ~filesystem_persistent_backend /\ pc = "data" => Len(buf) <= FS_MAX_FILE_SIZE

RootInv ==
    \/ pc = "off"
    \/ pc = "tree" /\ at = 1 /\ \A i \in Slots : ~nodes[i].used
    \/ DirIn(nodes, <<>>)

\* A copy or move past its first checks.
Transferring == pc \in {"copy", "move"} \/ (pc = "data" /\ op.name = "copy")

TransferInv ==
    /\ pc = "ensure" /\ op.name \in {"copy", "move"} =>
         /\ UsedIn(nodes, op.src) /\ op.dst # <<>> /\ op.src # op.dst
         /\ op.name = "move" => op.src # <<>>
         /\ DirIn(nodes, op.src) => ~path_is_inside(op.src, op.dst)
    /\ Transferring =>
         /\ op.dst # <<>> /\ ~path_is_inside(op.src, op.dst)
         /\ op.name = "move" => op.src # <<>>
         /\ \A i \in Slots :
              nodes[i].used /\ path_is_inside(op.src, nodes[i].path) =>
                Len(op.dst) + Len(nodes[i].path) <= MaxDepth + Len(op.src)

\* The table is what a restart would load.
Mirror ==
    filesystem_persistent_backend /\ (faults = 0 \/ ~filesystem_storage_error)
      => nodes = Loaded

\* Without a fault a volume can be mounted, and is given up only when full.
MountInv ==
    faults = 0 => (\A i \in Slots : ~disk[i].used) \/ DirIn(disk, <<>>)
GivenUpInv ==
    pc # "off" /\ volume /\ faults = 0 /\ ~filesystem_persistent_backend
      => /\ \A i \in Slots : disk[i].used
         /\ \E k \in DOMAIN initial_nodes : OnDisk(disk, sectors, InitialNode(k)) = {}

FsInv ==
    /\ StoreType /\ CallType /\ CallInv /\ RamSizes /\ RamBuffer /\ RootInv /\ TransferInv
    /\ Mirror /\ MountInv /\ GivenUpInv

-----------------------------------------------------------------------------
(* Minimum, paths and contents.                                            *)

\* A set of slots has a least one.
LEMMA MinFact ==
    ASSUME NEW S \in SUBSET Nat, S # {}
    PROVE  \E i \in S : \A j \in S : i <= j
<1>1. PICK R : R = OpToRel(<, Nat) OBVIOUS
<1>2. IsWellFoundedOn(R, Nat) BY <1>1, NatLessThanWellFounded
<1>3. \A i, j \in Nat : j < i => <<j, i>> \in R BY <1>1 DEF OpToRel
<1>4. PICK i \in S : \A j \in S : ~(<<j, i>> \in R) BY <1>2, WFMin
<1>5. \A j \in S : j \in Nat /\ i \in Nat /\ ~(j < i) BY <1>3, <1>4
<1>6. \A j \in S : i <= j BY <1>5
<1> QED BY <1>6

\* What the table's loops find.
LEMMA LeastFact ==
    ASSUME NEW S \in SUBSET Nat
    PROVE  /\ Least(S) = NONE <=> S = {}
           /\ S # {} => Least(S) \in S /\ \A j \in S : Least(S) <= j
<1>1. CASE S = {} BY <1>1 DEF Least
<1>2. CASE S # {}
  <2>1. Least(S) \in S /\ \A j \in S : Least(S) <= j BY <1>2, MinFact DEF Least
  <2>2. Least(S) # NONE BY <2>1 DEF NONE
  <2> QED BY <1>2, <2>1, <2>2
<1> QED BY <1>1, <1>2

LEMMA SlotsNat == Slots \subseteq Nat /\ NONE \notin Slots
  BY TableAssumption DEF Slots, NONE

\* Sequences of a bounded length over S.
LEMMA BoundedSeq ==
    ASSUME NEW S, NEW m \in Nat, NEW p
    PROVE  p \in UNION {[1 .. n -> S] : n \in 0 .. m} <=> p \in Seq(S) /\ Len(p) <= m
<1>1. ASSUME p \in UNION {[1 .. n -> S] : n \in 0 .. m} PROVE p \in Seq(S) /\ Len(p) <= m
  <2>1. PICK n \in 0 .. m : p \in [1 .. n -> S] BY <1>1
  <2> QED BY <2>1
<1>2. ASSUME p \in Seq(S), Len(p) <= m PROVE p \in UNION {[1 .. n -> S] : n \in 0 .. m}
  <2>1. Len(p) \in 0 .. m /\ p \in [1 .. Len(p) -> S] BY <1>2, LenProperties
  <2> QED BY <2>1
<1> QED BY <1>1, <1>2

LEMMA PathFact == \A p : p \in Path <=> p \in Seq(Names) /\ Len(p) <= MaxDepth
  BY BoundedSeq, TableAssumption DEF Path

LEMMA ContentFact ==
    \A c : c \in Content <=> c \in Seq(Sector \cup {0}) /\ Len(c) <= FS_MAX_FILE_SIZE
  BY BoundedSeq, TableAssumption DEF Content

LEMMA EmptyFact == <<>> \in Path /\ <<>> \in Content /\ Len(<<>>) = 0
<1>1. Len(<<>>) = 0 /\ <<>> \in Seq(Names) /\ <<>> \in Seq(Sector \cup {0}) BY EmptySeq
<1>2. 0 <= MaxDepth /\ 0 <= FS_MAX_FILE_SIZE BY TableAssumption
<1> QED BY <1>1, <1>2, PathFact, ContentFact

\* A leading part of a sequence.
LEMMA FrontFact ==
    ASSUME NEW S, NEW p \in Seq(S), NEW k \in 0 .. Len(p)
    PROVE  /\ SubSeq(p, 1, k) \in Seq(S) /\ Len(SubSeq(p, 1, k)) = k
           /\ \A i \in 1 .. k : SubSeq(p, 1, k)[i] = p[i]
<1>1. Len(p) \in Nat /\ \A i \in 1 .. k : p[i] \in S BY LenProperties, ElementOfSeq
<1>2. k \in Int /\ 1 \in Int BY <1>1
<1> QED BY <1>1, <1>2, SubSeqProperties

\* path_is_inside, element by element.
LEMMA InsideFact ==
    ASSUME NEW b \in Seq(Names), NEW c \in Seq(Names)
    PROVE  path_is_inside(b, c) <=> Len(b) <= Len(c) /\ \A k \in 1 .. Len(b) : c[k] = b[k]
<1>1. Len(b) \in Nat /\ Len(c) \in Nat BY LenProperties
<1>2. CASE Len(b) <= Len(c)
  <2>1. /\ SubSeq(c, 1, Len(b)) \in Seq(Names) /\ Len(SubSeq(c, 1, Len(b))) = Len(b)
        /\ \A k \in 1 .. Len(b) : SubSeq(c, 1, Len(b))[k] = c[k]
    BY <1>1, <1>2, FrontFact
  <2> QED BY <1>2, <2>1, SeqEqual DEF path_is_inside
<1> QED BY <1>1, <1>2 DEF path_is_inside

LEMMA PrefixFact ==
    ASSUME NEW p \in Path, NEW k \in 0 .. Len(p)
    PROVE  SubSeq(p, 1, k) \in Path /\ Len(SubSeq(p, 1, k)) = k
<1>1. p \in Seq(Names) /\ Len(p) <= MaxDepth /\ Len(p) \in Nat BY PathFact, LenProperties
<1>2. SubSeq(p, 1, k) \in Seq(Names) /\ Len(SubSeq(p, 1, k)) = k BY <1>1, FrontFact
<1>3. k <= MaxDepth BY <1>1, TableAssumption
<1> QED BY <1>2, <1>3, PathFact

LEMMA ParentFact ==
    ASSUME NEW p \in Path
    PROVE  /\ get_parent_path(p) \in Path
           /\ p # <<>> => Len(get_parent_path(p)) = Len(p) - 1
<1>1. p \in Seq(Names) /\ Len(p) \in Nat BY PathFact, LenProperties
<1>2. CASE p = <<>>
  <2>1. Len(p) - 1 < 1 /\ Len(p) - 1 \in Int BY <1>2
  <2>2. get_parent_path(p) = <<>> BY <2>1, SubSeqEmpty DEF get_parent_path
  <2> QED BY <1>2, <2>2, EmptyFact
<1>3. CASE p # <<>>
  <2>1. Len(p) - 1 \in 0 .. Len(p) BY <1>1, <1>3
  <2> QED BY <2>1, PrefixFact DEF get_parent_path
<1> QED BY <1>2, <1>3

\* root_strlcpy gives a path that fits.
LEMMA FittedFact == ASSUME NEW p \in Seq(Names) PROVE Fitted(p) \in Path
<1>1. Len(p) \in Nat /\ MaxDepth \in Nat BY LenProperties, TableAssumption
<1>2. PICK k \in 0 .. Len(p) : k <= MaxDepth /\ k = IF Len(p) < MaxDepth THEN Len(p) ELSE MaxDepth
  BY <1>1
<1>3. SubSeq(p, 1, k) \in Seq(Names) /\ Len(SubSeq(p, 1, k)) = k BY FrontFact
<1> QED BY <1>2, <1>3, PathFact DEF Fitted

\* A retargeted path lies at or below the destination; it can lie in the
\* source again only where it is no longer than before.
LEMMA RetargetFact ==
    ASSUME NEW s \in Path, NEW d \in Path, NEW p \in Path, path_is_inside(s, p)
    PROVE  /\ Retarget(s, d, p) \in Seq(Names)
           /\ Len(Retarget(s, d, p)) = Len(d) + Len(p) - Len(s)
           /\ path_is_inside(d, Retarget(s, d, p))
           /\ d # <<>> => Retarget(s, d, p) # <<>>
           /\ ~path_is_inside(s, d) /\ path_is_inside(s, Retarget(s, d, p))
                => Len(d) < Len(s)
<1>1. /\ s \in Seq(Names) /\ d \in Seq(Names) /\ p \in Seq(Names)
      /\ Len(s) \in Nat /\ Len(d) \in Nat /\ Len(p) \in Nat /\ Len(s) <= Len(p)
  BY PathFact, LenProperties, InsideFact
<1>2. PICK t : t = SubSeq(p, Len(s) + 1, Len(p)) OBVIOUS
<1>3. t \in Seq(Names) /\ Len(t) = Len(p) - Len(s)
  <2>1. \A i \in Len(s) + 1 .. Len(p) : p[i] \in Names BY <1>1, ElementOfSeq
  <2>2. Len(s) + 1 \in Int /\ Len(p) \in Int BY <1>1
  <2>3. /\ SubSeq(p, Len(s) + 1, Len(p)) \in Seq(Names)
        /\ Len(SubSeq(p, Len(s) + 1, Len(p)))
             = IF Len(s) + 1 <= Len(p) THEN Len(p) - (Len(s) + 1) + 1 ELSE 0
    BY <2>1, <2>2, SubSeqProperties
  <2> QED BY <1>1, <1>2, <2>3
<1>4. PICK r : r = Retarget(s, d, p) OBVIOUS
<1>5. r = d \o t BY <1>2, <1>4 DEF Retarget
<1>6. r \in Seq(Names) /\ Len(r) = Len(d) + Len(t) /\ \A i \in 1 .. Len(d) : r[i] = d[i]
  <2>1. r \in Seq(Names) /\ Len(r) = Len(d) + Len(t)
        /\ \A i \in 1 .. Len(d) + Len(t) : r[i] = IF i <= Len(d) THEN d[i] ELSE t[i - Len(d)]
    BY <1>1, <1>3, <1>5, ConcatProperties
  <2>2. \A i \in 1 .. Len(d) : i \in 1 .. Len(d) + Len(t) /\ i <= Len(d) BY <1>1, <1>3
  <2> QED BY <2>1, <2>2
<1>7. Len(r) = Len(d) + Len(p) - Len(s) BY <1>1, <1>3, <1>6
<1>8. path_is_inside(d, r) BY <1>1, <1>3, <1>6, InsideFact
<1>9. d # <<>> => r # <<>> BY <1>1, <1>3, <1>6
<1>10. ASSUME ~path_is_inside(s, d), path_is_inside(s, r), ~(Len(d) < Len(s)) PROVE FALSE
  <2>1. \A k \in 1 .. Len(s) : r[k] = s[k] BY <1>1, <1>6, <1>10, InsideFact
  <2>2. \A k \in 1 .. Len(s) : k \in 1 .. Len(d) BY <1>1, <1>10
  <2>3. \A k \in 1 .. Len(s) : d[k] = s[k] BY <1>6, <2>1, <2>2
  <2>4. Len(s) <= Len(d) BY <1>1, <1>10
  <2> QED BY <1>1, <1>10, <2>3, <2>4, InsideFact
<1> QED BY <1>4, <1>6, <1>7, <1>8, <1>9, <1>10

-----------------------------------------------------------------------------
(* The table and the records.                                              *)

\* What load_persistent_nodes makes of record r.
Entry(r) == IF r.used THEN [Node(r.path, r.type) EXCEPT !.size = r.size] ELSE FreeNode

LEMMA NodeTypes ==
    /\ 0 \in 0 .. FS_MAX_FILE_SIZE /\ DIR \in Type /\ FILE \in Type
    /\ FreeNode \in NodeType /\ ClearRecord \in RecordType
    /\ \A p \in Path, t \in Type : Node(p, t) \in NodeType
    /\ \A n \in NodeType : RecordOf(n) \in RecordType
    /\ \A r \in RecordType : Entry(r) \in NodeType
<1>1. 0 \in 0 .. FS_MAX_FILE_SIZE /\ DIR \in Type /\ FILE \in Type BY TableAssumption DEF Type
<1> QED BY <1>1, EmptyFact DEF NodeType, RecordType, FreeNode, ClearRecord, Node, RecordOf, Entry

\* Writing a node of a persistent table and loading it again.
LEMMA EntryFact ==
    ASSUME NEW n \in NodeType, n.used, n.ram = <<>>
    PROVE  Entry(RecordOf(n)) = n
<1>1. n = [used |-> TRUE, type |-> n.type, path |-> n.path, size |-> n.size, ram |-> <<>>]
  <2>1. n = [used |-> n.used, type |-> n.type, path |-> n.path, size |-> n.size, ram |-> n.ram]
    BY DEF NodeType
  <2>2. n.used = TRUE BY DEF NodeType
  <2> QED BY <2>1, <2>2
<1>2. RecordOf(n) = [used |-> TRUE, type |-> n.type, path |-> n.path, size |-> n.size]
  BY DEF RecordOf
<1>3. Entry(RecordOf(n)) = [Node(n.path, n.type) EXCEPT !.size = n.size] BY <1>2 DEF Entry
<1> QED BY <1>1, <1>3 DEF Node

LEMMA LoadedFact == Loaded = [i \in Slots |-> Entry(disk[i])]
  BY DEF Loaded, Entry

\* find_node finds the first slot of a path.
LEMMA FindFact ==
    ASSUME NEW p
    PROVE  /\ Exists(p) <=> UsedIn(nodes, p)
           /\ IsDirectory(p) <=> DirIn(nodes, p)
           /\ Exists(p) => /\ find_node(p) \in Slots
                           /\ nodes[find_node(p)].used /\ nodes[find_node(p)].path = p
<1>1. PICK S \in SUBSET Nat : S = {i \in Slots : nodes[i].used /\ nodes[i].path = p}
  BY SlotsNat
<1>2. PICK k : k = Least(S) OBVIOUS
<1>3. find_node(p) = k BY <1>1, <1>2 DEF find_node
<1>4. (k = NONE <=> S = {}) /\ (S # {} => k \in S /\ \A j \in S : k <= j)
  BY <1>2, LeastFact
<1>5. Exists(p) <=> UsedIn(nodes, p) BY <1>1, <1>3, <1>4 DEF Exists, UsedIn
<1>6. Exists(p) => k \in Slots /\ nodes[k].used /\ nodes[k].path = p
  BY <1>1, <1>3, <1>4 DEF Exists
<1>7. ASSUME IsDirectory(p) PROVE DirIn(nodes, p)
  <2>1. Exists(p) /\ nodes[k].type = DIR BY <1>3, <1>7 DEF IsDirectory
  <2>2. k \in S /\ \A j \in S : k <= j BY <1>3, <1>4, <2>1 DEF Exists
  <2> QED BY <1>1, <2>1, <2>2 DEF DirIn
<1>8. ASSUME DirIn(nodes, p) PROVE IsDirectory(p)
  <2>1. PICK i \in S : nodes[i].type = DIR /\ \A j \in S : i <= j BY <1>1, <1>8 DEF DirIn
  <2>2. k \in S /\ k <= i /\ i <= k /\ i \in Nat /\ k \in Nat BY <1>4, <2>1
  <2>3. k = i BY <2>2
  <2>4. Exists(p) BY <1>3, <1>4, <2>1 DEF Exists
  <2> QED BY <1>3, <2>1, <2>3, <2>4 DEF IsDirectory
<1> QED BY <1>3, <1>5, <1>6, <1>7, <1>8

LEMMA FreeFact ==
    find_free_node # NONE => find_free_node \in Slots /\ ~nodes[find_free_node].used
<1>1. PICK S \in SUBSET Nat : S = {i \in Slots : ~nodes[i].used} BY SlotsNat
<1>2. find_free_node = Least(S) BY <1>1 DEF find_free_node
<1> QED BY <1>1, <1>2, LeastFact

LEMMA NoneFree == find_free_node = NONE => \A i \in Slots : nodes[i].used
<1>1. PICK S \in SUBSET Nat : S = {i \in Slots : ~nodes[i].used} BY SlotsNat
<1>2. find_free_node = Least(S) BY <1>1 DEF find_free_node
<1> QED BY <1>1, <1>2, LeastFact

\* A node of the subtree that a loop comes to.
LEMMA InsideNode ==
    ASSUME NEW s, NEW k, Inside(s, k) # {}
    PROVE  /\ Least(Inside(s, k)) \in Slots
           /\ nodes[Least(Inside(s, k))].used
           /\ path_is_inside(s, nodes[Least(Inside(s, k))].path)
<1>1. PICK S \in SUBSET Nat : S = Inside(s, k) BY SlotsNat DEF Inside
<1>2. Least(S) \in S BY <1>1, LeastFact
<1> QED BY <1>1, <1>2 DEF Inside

\* A slot that neither held path p nor holds it now does not matter for p.
LEMMA OtherPath ==
    ASSUME NEW n, NEW n2, NEW i \in Slots, NEW p,
           \A j \in Slots \ {i} : n2[j] = n[j],
           ~(n[i].used /\ n[i].path = p), ~(n2[i].used /\ n2[i].path = p)
    PROVE  (DirIn(n2, p) <=> DirIn(n, p)) /\ (UsedIn(n2, p) <=> UsedIn(n, p))
<1>1. \A j \in Slots : (n2[j].used /\ n2[j].path = p <=> n[j].used /\ n[j].path = p)
                       /\ (n[j].used /\ n[j].path = p => n2[j].type = n[j].type)
  OBVIOUS
<1> QED BY <1>1 DEF DirIn, UsedIn

\* Nor does a change of anything but path and type.
LEMMA SamePath ==
    ASSUME NEW n, NEW n2, NEW p,
           \A j \in Slots : /\ n2[j].used <=> n[j].used
                            /\ n[j].used => n2[j].path = n[j].path /\ n2[j].type = n[j].type
    PROVE  (DirIn(n2, p) <=> DirIn(n, p)) /\ (UsedIn(n2, p) <=> UsedIn(n, p))
  BY DEF DirIn, UsedIn

-----------------------------------------------------------------------------
(* What the steps of a call have in common.                                *)

\* A step of a call keeps the store in order.
StoreStep ==
    /\ StoreType' /\ RamSizes' /\ Mirror'
    /\ filesystem_persistent_backend' = filesystem_persistent_backend /\ volume' = volume
    /\ faults' = 0 => faults = 0
    /\ ~filesystem_persistent_backend => disk' = disk /\ sectors' = sectors

\* A directory "/" on disk makes the volume mountable.
LEMMA MountStep ==
    ASSUME FsInv, StoreStep, RootInv', pc' # "off"
    PROVE  MountInv'
<1>1. CASE ~filesystem_persistent_backend
  <2>1. disk' = disk /\ (faults' = 0 => faults = 0) BY <1>1 DEF StoreStep
  <2> QED BY <2>1 DEF FsInv, MountInv
<1>2. CASE filesystem_persistent_backend
  <2> SUFFICES ASSUME faults' = 0
               PROVE  (\A i \in Slots : ~disk'[i].used) \/ DirIn(disk', <<>>)
    BY DEF MountInv
  <2>1. nodes' = [i \in Slots |-> Entry(disk'[i])]
    BY <1>2 DEF StoreStep, Mirror, Loaded, Entry
  <2>2. \A i \in Slots : /\ nodes'[i].used <=> disk'[i].used
                         /\ disk'[i].used => /\ nodes'[i].path = disk'[i].path
                                             /\ nodes'[i].type = disk'[i].type
    BY <2>1 DEF Entry, Node, FreeNode
  <2>3. (\A i \in Slots : ~nodes'[i].used) \/ DirIn(nodes', <<>>) BY DEF RootInv
  <2>4. DirIn(nodes', <<>>) => DirIn(disk', <<>>) BY <2>2, SamePath
  <2> QED BY <2>2, <2>3, <2>4
<1> QED BY <1>1, <1>2

LEMMA GivenUpStep ==
    ASSUME FsInv, StoreStep, pc # "off"
    PROVE  GivenUpInv'
<1> SUFFICES ASSUME volume', faults' = 0, ~filesystem_persistent_backend'
             PROVE  /\ \A i \in Slots : disk'[i].used
                    /\ \E k \in DOMAIN initial_nodes : OnDisk(disk', sectors', InitialNode(k)) = {}
  BY DEF GivenUpInv
<1>1. disk' = disk /\ sectors' = sectors /\ volume /\ faults = 0 /\ ~filesystem_persistent_backend
  BY DEF StoreStep
<1> QED BY <1>1 DEF FsInv, GivenUpInv

\* The invariant after a step of a call.
LEMMA StepFact ==
    ASSUME FsInv, StoreStep, pc # "off", pc' # "off",
           CallType', CallInv', RamBuffer', RootInv', TransferInv'
    PROVE  FsInv'
<1>1. MountInv' BY MountStep
<1>2. GivenUpInv' BY GivenUpStep
<1> QED BY <1>1, <1>2 DEF FsInv, StoreStep

LEMMA NoOpType == NoOp \in [name : OpNames, src : Path, dst : Path]
  BY EmptyFact DEF NoOp, OpNames

\* The invariant after the last step of a call.
LEMMA FinishFact ==
    ASSUME FsInv, StoreStep, pc # "off", Finish, DirIn(nodes', <<>>)
    PROVE  FsInv'
<1>1. CallType' BY NoOpType, EmptySeq DEF Finish, CallType
<1>2. CallInv' /\ RamBuffer' /\ TransferInv'
  BY DEF Finish, CallInv, RamBuffer, TransferInv, Transferring
<1>3. RootInv' BY DEF RootInv
<1>4. pc' # "off" BY DEF Finish
<1> QED BY <1>1, <1>2, <1>3, <1>4, StepFact

\* A step that leaves the table and the records alone.
LEMMA ErrorFact ==
    ASSUME FsInv, current_directory' \in Path, filesystem_storage_error' \in BOOLEAN,
           faults' \in Nat, sectors' \in [Slots -> [1 .. FS_MAX_FILE_SIZE -> Sector \cup {0}]],
           UNCHANGED <<nodes, filesystem_persistent_backend, disk, volume, crashes>>,
           filesystem_storage_error => filesystem_storage_error',
           faults' = 0 => faults = 0,
           ~filesystem_persistent_backend => sectors' = sectors
    PROVE  StoreStep
<1>1. Loaded' = Loaded BY DEF Loaded
<1>2. Mirror' BY <1>1 DEF FsInv, Mirror
<1> QED BY <1>2 DEF FsInv, StoreStep, StoreType, RamSizes

LEMMA KeptFact ==
    ASSUME FsInv, current_directory' \in Path,
           UNCHANGED <<nodes, filesystem_persistent_backend, filesystem_storage_error,
                       diskVars, volume, faults, crashes>>
    PROVE  StoreStep
  BY ErrorFact DEF FsInv, StoreType, diskVars

\* A record written, or not.
LEMMA WroteFact ==
    ASSUME FsInv, NEW i \in Slots, NEW r \in RecordType, NEW w \in RecordWrites(i, r), Wrote(w)
    PROVE  /\ disk' \in [Slots -> RecordType] /\ faults' \in Nat
           /\ filesystem_storage_error' \in BOOLEAN
           /\ w.ok \in BOOLEAN
           /\ w.ok => /\ filesystem_storage_error' = filesystem_storage_error
                      /\ faults' = faults
                      /\ filesystem_persistent_backend => disk' = [disk EXCEPT ![i] = r]
           /\ ~w.ok => filesystem_storage_error' /\ faults' # 0
           /\ ~filesystem_persistent_backend => disk' = disk
           /\ faults' = 0 => faults = 0
           /\ \A j \in Slots \ {i} : disk'[j] = disk[j]
<1>1. /\ disk \in [Slots -> RecordType] /\ faults \in Nat
      /\ filesystem_storage_error \in BOOLEAN /\ filesystem_persistent_backend \in BOOLEAN
  BY DEF FsInv, StoreType
<1>2. /\ w.ok \in BOOLEAN
      /\ \/ w.disk = disk /\ (filesystem_persistent_backend => ~w.ok)
         \/ w.disk = [disk EXCEPT ![i] = r] /\ filesystem_persistent_backend
      /\ ~filesystem_persistent_backend => w.ok
  <2> PICK d : d = [disk EXCEPT ![i] = r] OBVIOUS
  <2>1. CASE ~filesystem_persistent_backend
    <3>1. w = [ok |-> TRUE, disk |-> disk] BY <2>1 DEF RecordWrites
    <3> QED BY <2>1, <3>1
  <2>2. CASE filesystem_persistent_backend
    <3>1. CASE w = [ok |-> TRUE, disk |-> d] BY <2>2, <3>1
    <3>2. CASE w = [ok |-> FALSE, disk |-> disk] BY <2>2, <3>2
    <3>3. CASE w = [ok |-> FALSE, disk |-> d] BY <2>2, <3>3
    <3> QED BY <2>2, <3>1, <3>2, <3>3 DEF RecordWrites
  <2> QED BY <2>1, <2>2
<1>3. faults + 1 \in Nat /\ faults + 1 # 0 BY <1>1
<1> QED BY <1>1, <1>2, <1>3 DEF Wrote

\* A step that writes the record r of slot i and, if that worked, makes n of
\* the node, r being what is stored for n.
LEMMA RecordFact ==
    ASSUME FsInv, NEW i \in Slots, NEW r \in RecordType, NEW n \in NodeType,
           NEW w \in RecordWrites(i, r), Wrote(w),
           w.ok => nodes' = [nodes EXCEPT ![i] = n],
           ~w.ok => nodes' \in [Slots -> NodeType],
           filesystem_persistent_backend /\ nodes = Loaded => Entry(r) = n,
           ~filesystem_persistent_backend => Len(n.ram) = n.size,
           UNCHANGED <<sectors, current_directory, filesystem_persistent_backend, volume, crashes>>
    PROVE  StoreStep
<1>1. /\ disk' \in [Slots -> RecordType] /\ faults' \in Nat
      /\ filesystem_storage_error' \in BOOLEAN
      /\ w.ok \in BOOLEAN
      /\ w.ok => /\ filesystem_storage_error' = filesystem_storage_error
                 /\ faults' = faults
                 /\ filesystem_persistent_backend => disk' = [disk EXCEPT ![i] = r]
      /\ ~w.ok => filesystem_storage_error' /\ faults' # 0
      /\ ~filesystem_persistent_backend => disk' = disk
      /\ faults' = 0 => faults = 0
  BY WroteFact
<1>2. nodes \in [Slots -> NodeType] /\ disk \in [Slots -> RecordType]
  BY DEF FsInv, StoreType
<1>3. nodes' \in [Slots -> NodeType] BY <1>1, <1>2
<1>4. StoreType' BY <1>1, <1>3 DEF FsInv, StoreType
<1>5. ~filesystem_persistent_backend => w.ok BY DEF RecordWrites
<1>6. RamSizes' BY <1>2, <1>5 DEF FsInv, RamSizes
<1>7. Mirror'
  <2> SUFFICES ASSUME filesystem_persistent_backend, faults' = 0 \/ ~filesystem_storage_error'
               PROVE  nodes' = Loaded'
    BY DEF Mirror
  <2>1. w.ok /\ (faults = 0 \/ ~filesystem_storage_error) BY <1>1
  <2>2. nodes = Loaded BY <2>1 DEF FsInv, Mirror
  <2>3. disk' = [disk EXCEPT ![i] = r] /\ nodes' = [nodes EXCEPT ![i] = n] BY <1>1, <2>1
  <2>4. Loaded' = [j \in Slots |-> Entry(disk'[j])] BY DEF Loaded, Entry
  <2>5. nodes = [j \in Slots |-> Entry(disk[j])] BY <2>2, LoadedFact
  <2>6. Entry(r) = n BY <2>2
  <2> QED BY <1>2, <2>3, <2>4, <2>5, <2>6
<1> QED BY <1>1, <1>4, <1>6, <1>7 DEF StoreStep

\* add_node_absolute.
LEMMA AddFact ==
    ASSUME FsInv, NEW p \in Path, NEW t \in Type, find_free_node # NONE,
           NEW w \in AddOutcomes(p, t), AddNode(p, t, w)
    PROVE  /\ StoreStep /\ w.ok \in BOOLEAN
           /\ find_free_node \in Slots /\ ~nodes[find_free_node].used
           /\ \A j \in Slots \ {find_free_node} : nodes'[j] = nodes[j] /\ disk'[j] = disk[j]
           /\ nodes'[find_free_node] = IF w.ok THEN Node(p, t) ELSE FreeNode
           /\ \A q : q # p => /\ DirIn(nodes', q) <=> DirIn(nodes, q)
                              /\ UsedIn(nodes', q) <=> UsedIn(nodes, q)
<1> PICK i : i = find_free_node OBVIOUS
<1> PICK n \in NodeType : n = Node(p, t) BY NodeTypes
<1> PICK r \in RecordType : r = RecordOf(n) BY NodeTypes
<1>1. i \in Slots /\ ~nodes[i].used BY FreeFact
<1>2. w \in RecordWrites(i, r) BY DEF AddOutcomes, persist_node
<1>3. /\ Wrote(w) /\ nodes' = [nodes EXCEPT ![i] = IF w.ok THEN n ELSE FreeNode]
      /\ UNCHANGED <<sectors, current_directory, filesystem_persistent_backend, volume, crashes>>
  BY DEF AddNode
<1>4. nodes \in [Slots -> NodeType] BY DEF FsInv, StoreType
<1>5. Entry(r) = n BY DEF Entry, RecordOf, Node
<1>6. Len(n.ram) = n.size BY EmptyFact DEF Node
<1>7. nodes' \in [Slots -> NodeType] BY <1>1, <1>3, <1>4, NodeTypes
<1>8. StoreStep BY <1>1, <1>2, <1>3, <1>5, <1>6, <1>7, RecordFact
<1>9. w.ok \in BOOLEAN /\ \A j \in Slots \ {i} : disk'[j] = disk[j] BY <1>1, <1>2, <1>3, WroteFact
<1>10. /\ \A j \in Slots \ {i} : nodes'[j] = nodes[j]
       /\ nodes'[i] = IF w.ok THEN n ELSE FreeNode
  BY <1>1, <1>3, <1>4
<1>11. ASSUME NEW q, q # p
       PROVE (DirIn(nodes', q) <=> DirIn(nodes, q)) /\ (UsedIn(nodes', q) <=> UsedIn(nodes, q))
  <2>1. ~(nodes'[i].used /\ nodes'[i].path = q) BY <1>10, <1>11 DEF Node, FreeNode
  <2> QED BY <1>1, <1>10, <2>1, OtherPath
<1> QED BY <1>1, <1>8, <1>9, <1>10, <1>11

-----------------------------------------------------------------------------
(* ensure_directory_absolute and the calls that end with it.               *)

LEMMA EnsureTargetFact == ASSUME FsInv PROVE EnsureTarget \in Path
<1>1. op.dst \in Path BY DEF FsInv, CallType
<1> QED BY <1>1, ParentFact DEF EnsureTarget

LEMMA GapFact ==
    ASSUME FsInv, FirstGap(EnsureTarget) # NONE
    PROVE  GapPath \in Path /\ ~IsDirectory(GapPath)
<1> PICK p \in Path : p = EnsureTarget BY EnsureTargetFact
<1>1. p \in Seq(Names) /\ Len(p) \in Nat BY PathFact, LenProperties
<1>a. 1 .. Len(p) \subseteq Nat BY <1>1
<1>2. PICK S \in SUBSET Nat : S = {k \in 1 .. Len(p) : ~IsDirectory(SubSeq(p, 1, k))} BY <1>a
<1>3. FirstGap(p) = Least(S) BY <1>2 DEF FirstGap
<1>4. FirstGap(p) \in S BY <1>3, LeastFact
<1>5. GapPath = SubSeq(p, 1, FirstGap(p)) BY DEF GapPath
<1>6. FirstGap(p) \in 0 .. Len(p) BY <1>1, <1>2, <1>4
<1> QED BY <1>2, <1>4, <1>5, <1>6, PrefixFact

\* Once the path exists each part of it is a directory.
LEMMA NoGapFact ==
    ASSUME FsInv, FirstGap(EnsureTarget) = NONE, NEW k \in 1 .. Len(EnsureTarget)
    PROVE  IsDirectory(SubSeq(EnsureTarget, 1, k))
<1> PICK p \in Path : p = EnsureTarget BY EnsureTargetFact
<1>1. p \in Seq(Names) /\ Len(p) \in Nat BY PathFact, LenProperties
<1>a. 1 .. Len(p) \subseteq Nat BY <1>1
<1>2. PICK S \in SUBSET Nat : S = {j \in 1 .. Len(p) : ~IsDirectory(SubSeq(p, 1, j))} BY <1>a
<1>3. FirstGap(p) = Least(S) BY <1>2 DEF FirstGap
<1>4. S = {} BY <1>3, LeastFact
<1> QED BY <1>2, <1>4

\* Outside of the mount "/" is a directory.
LEMMA RootFact == ASSUME FsInv, pc \notin {"off", "tree"} PROVE DirIn(nodes, <<>>)
  BY DEF FsInv, RootInv

LEMMA DirUsed == ASSUME NEW n, NEW p, DirIn(n, p) PROVE UsedIn(n, p)
  BY DEF DirIn, UsedIn

LEMMA EnsureMakeInv == ASSUME FsInv, EnsureMake PROVE FsInv'
<1>1. pc = "ensure" /\ FirstGap(EnsureTarget) # NONE /\ ~Exists(GapPath) /\ find_free_node # NONE
  BY DEF EnsureMake
<1> PICK p \in Path : p = GapPath BY <1>1, GapFact
<1>2. PICK w \in AddOutcomes(p, DIR) :
        /\ AddNode(p, DIR, w)
        /\ IF w.ok THEN UNCHANGED <<callVars, writeVars>> ELSE Finish
  BY DEF EnsureMake
<1>3. /\ StoreStep /\ w.ok \in BOOLEAN
      /\ \A q : q # p => /\ DirIn(nodes', q) <=> DirIn(nodes, q)
                         /\ UsedIn(nodes', q) <=> UsedIn(nodes, q)
  BY <1>1, <1>2, AddFact, NodeTypes
<1>4. DirIn(nodes, <<>>) /\ UsedIn(nodes, <<>>) BY <1>1, RootFact, DirUsed
<1>5. ~UsedIn(nodes, p) BY <1>1, FindFact
<1>6. DirIn(nodes', <<>>) BY <1>3, <1>4, <1>5
<1>7. CASE ~w.ok BY <1>1, <1>2, <1>3, <1>6, <1>7, FinishFact
<1>8. CASE w.ok
  <2>1. UNCHANGED <<pc, op, at, buf, slot, sec>> BY <1>2, <1>8 DEF callVars, writeVars
  <2>2. CallType' BY <2>1 DEF FsInv, CallType
  <2>3. CallInv' /\ RamBuffer' BY <1>1, <2>1 DEF FsInv, CallInv, RamBuffer
  <2>4. RootInv' BY <1>6 DEF RootInv
  <2>5. TransferInv'
    <3>1. op.name \in {"copy", "move"} =>
            /\ UsedIn(nodes, op.src) /\ op.dst # <<>> /\ op.src # op.dst
            /\ op.name = "move" => op.src # <<>>
            /\ DirIn(nodes, op.src) => ~path_is_inside(op.src, op.dst)
      BY <1>1 DEF FsInv, TransferInv
    <3>2. op.name \in {"copy", "move"} => op.src # p BY <1>5, <3>1
    <3>3. ~Transferring' BY <1>1, <2>1 DEF Transferring
    <3> QED BY <1>3, <2>1, <3>1, <3>2, <3>3 DEF TransferInv
  <2> QED BY <1>1, <1>3, <2>1, <2>2, <2>3, <2>4, <2>5, StepFact
<1> QED BY <1>3, <1>7, <1>8

\* A call that ends without a change.
LEMMA EndsInv == ASSUME FsInv, pc \notin {"off", "tree"}, Finish, Kept PROVE FsInv'
<1>1. current_directory' \in Path BY DEF FsInv, StoreType, Kept, cacheVars
<1>2. StoreStep BY <1>1, KeptFact DEF Kept, cacheVars
<1>3. DirIn(nodes', <<>>) BY RootFact DEF Kept, cacheVars
<1> QED BY <1>2, <1>3, FinishFact

LEMMA EnsureRefusedInv == ASSUME FsInv, EnsureRefused PROVE FsInv'
  BY EndsInv DEF EnsureRefused

LEMMA DirectoryMadeInv == ASSUME FsInv, DirectoryMade PROVE FsInv'
  BY EndsInv DEF DirectoryMade, Ensured

LEMMA FileMadeInv == ASSUME FsInv, FileMade PROVE FsInv'
<1>1. pc = "ensure" BY DEF FileMade, Ensured
<1>2. CASE Finish /\ Kept BY <1>1, <1>2, EndsInv
<1>3. CASE /\ find_free_node # NONE
           /\ \E w \in AddOutcomes(op.dst, FILE) : AddNode(op.dst, FILE, w) /\ Finish
  <2>1. PICK w \in AddOutcomes(op.dst, FILE) : AddNode(op.dst, FILE, w) /\ Finish BY <1>3
  <2>2. op.dst \in Path BY DEF FsInv, CallType
  <2>3. StoreStep /\ \A q : q # op.dst => (DirIn(nodes', q) <=> DirIn(nodes, q))
    BY <1>3, <2>1, <2>2, AddFact, NodeTypes
  <2>4. op.dst # <<>> BY <1>1 DEF FsInv, CallInv, FileMade
  <2>5. DirIn(nodes', <<>>) BY <1>1, <2>3, <2>4, RootFact
  <2> QED BY <1>1, <2>1, <2>3, <2>5, FinishFact
<1> QED BY <1>2, <1>3 DEF FileMade

-----------------------------------------------------------------------------
(* Calls.                                                                  *)

LEMMA StartFact ==
    ASSUME FsInv, pc = "idle", Kept, pc' # "off", CallType', CallInv', RamBuffer', TransferInv'
    PROVE  FsInv'
<1>1. current_directory' \in Path BY DEF FsInv, StoreType, Kept, cacheVars
<1>2. StoreStep BY <1>1, KeptFact DEF Kept, cacheVars
<1>3. RootInv' BY RootFact DEF Kept, cacheVars, RootInv
<1> QED BY <1>2, <1>3, StepFact

LEMMA ChangeDirectoryInv ==
    ASSUME FsInv, NEW p \in Path, filesystem_change_directory(p) PROVE FsInv'
<1>1. /\ pc = "idle" /\ current_directory' = p
      /\ UNCHANGED <<nodes, filesystem_persistent_backend, filesystem_storage_error,
                     diskVars, writeVars, pc, op, at, snap, volume, faults, crashes>>
  BY DEF filesystem_change_directory
<1>2. StoreStep BY <1>1, KeptFact
<1>3. CallType' BY <1>1 DEF FsInv, CallType, writeVars
<1>4. RootInv' BY <1>1, RootFact DEF RootInv
<1>5. CallInv' /\ RamBuffer' /\ TransferInv'
  BY <1>1 DEF CallInv, RamBuffer, TransferInv, Transferring
<1> QED BY <1>1, <1>2, <1>3, <1>4, <1>5, StepFact

LEMMA CreateDirectoryInv ==
    ASSUME FsInv, NEW p \in Path, filesystem_create_directory(p) PROVE FsInv'
<1>1. /\ pc = "idle" /\ op' = [name |-> "mkdir", src |-> <<>>, dst |-> p]
      /\ pc' = "ensure" /\ at' = 0 /\ Kept /\ UNCHANGED <<buf, slot, sec>>
  BY DEF filesystem_create_directory, Begin, writeVars
<1>2. CallType' BY <1>1, EmptyFact DEF FsInv, CallType, OpNames
<1>3. CallInv' /\ RamBuffer' /\ TransferInv'
  BY <1>1 DEF CallInv, RamBuffer, TransferInv, Transferring
<1> QED BY <1>1, <1>2, <1>3, StartFact

LEMMA CreateFileInv ==
    ASSUME FsInv, NEW p \in Path, filesystem_create_file(p) PROVE FsInv'
<1>1. /\ pc = "idle" /\ op' = [name |-> "touch", src |-> <<>>, dst |-> p] /\ p # <<>>
      /\ pc' = "ensure" /\ at' = 0 /\ Kept /\ UNCHANGED <<buf, slot, sec>>
  BY DEF filesystem_create_file, Begin, writeVars
<1>2. CallType' BY <1>1, EmptyFact DEF FsInv, CallType, OpNames
<1>3. CallInv' /\ RamBuffer' /\ TransferInv'
  BY <1>1 DEF CallInv, RamBuffer, TransferInv, Transferring
<1> QED BY <1>1, <1>2, <1>3, StartFact

LEMMA RemoveCallInv ==
    ASSUME FsInv, NEW p \in Path, NEW r \in BOOLEAN, filesystem_remove(p, r) PROVE FsInv'
<1> PICK nm \in {"unlink", "remove"} : nm = IF IsFile(p) THEN "unlink" ELSE "remove"
  OBVIOUS
<1>1. /\ pc = "idle" /\ op' = [name |-> nm, src |-> p, dst |-> <<>>]
      /\ p # <<>> /\ Exists(p) /\ pc' = "remove" /\ Kept /\ UNCHANGED <<buf, slot, sec>>
      /\ at' = IF IsFile(p) THEN find_node(p) ELSE 0
  BY DEF filesystem_remove, Begin, writeVars
<1>2. at' \in Nat BY <1>1, FindFact, SlotsNat
<1>3. CallType' BY <1>1, <1>2, EmptyFact DEF FsInv, CallType, OpNames
<1>4. CallInv' /\ RamBuffer' /\ TransferInv'
  BY <1>1 DEF CallInv, RamBuffer, TransferInv, Transferring
<1> QED BY <1>1, <1>3, <1>4, StartFact

LEMMA TransferCallInv ==
    ASSUME FsInv, NEW s \in Path, NEW d \in Path, NEW nm \in {"copy", "move"},
           nm = "move" => s # <<>>, Transfer(nm, s, d)
    PROVE  FsInv'
<1>1. /\ pc = "idle" /\ op' = [name |-> nm, src |-> s, dst |-> d]
      /\ Exists(s) /\ ~Exists(d) /\ d # <<>> /\ (IsDirectory(s) => ~path_is_inside(s, d))
      /\ pc' = "ensure" /\ at' = 0 /\ Kept /\ UNCHANGED <<buf, slot, sec>>
  BY DEF Transfer, Begin, writeVars
<1>2. CallType' BY <1>1 DEF FsInv, CallType, OpNames
<1>3. CallInv' /\ RamBuffer' BY <1>1 DEF CallInv, RamBuffer
<1>4. TransferInv'
  <2>1. nodes' = nodes BY <1>1 DEF Kept, cacheVars
  <2>2. UsedIn(nodes, s) /\ ~UsedIn(nodes, d) /\ (DirIn(nodes, s) => ~path_is_inside(s, d))
    BY <1>1, FindFact
  <2>3. s # d BY <2>2
  <2> QED BY <1>1, <2>1, <2>2, <2>3 DEF TransferInv, Transferring
<1> QED BY <1>1, <1>2, <1>3, <1>4, StartFact

\* What is stored for a file fits the buffer.
LEMMA StoredFact == ASSUME FsInv, NEW i \in Slots PROVE Stored(i) \in Content
<1>1. /\ nodes[i] \in NodeType /\ disk[i] \in RecordType
      /\ sectors[i] \in [1 .. FS_MAX_FILE_SIZE -> Sector \cup {0}]
  BY DEF FsInv, StoreType
<1>2. CASE filesystem_persistent_backend
  <2> PICK k \in 0 .. FS_MAX_FILE_SIZE : k = disk[i].size BY <1>1 DEF RecordType
  <2>1. k \in Int /\ 1 \in Int /\ \A j \in 1 .. k : sectors[i][j] \in Sector \cup {0}
    BY <1>1, TableAssumption
  <2>2. /\ SubSeq(sectors[i], 1, k) \in Seq(Sector \cup {0})
        /\ Len(SubSeq(sectors[i], 1, k)) = IF 1 <= k THEN k - 1 + 1 ELSE 0
    BY <2>1, SubSeqProperties
  <2>3. Len(SubSeq(sectors[i], 1, k)) <= FS_MAX_FILE_SIZE BY <2>2, TableAssumption
  <2> QED BY <1>2, <2>2, <2>3, ContentFact DEF Stored
<1>3. CASE ~filesystem_persistent_backend BY <1>1, <1>3 DEF Stored, NodeType
<1> QED BY <1>2, <1>3

LEMMA DataFact == ASSUME NEW c \in Datas PROVE c \in Seq(Sector \cup {0}) /\ Len(c) \in Nat
<1>1. c \in Seq(Sector) BY TableAssumption
<1>2. Sector \subseteq Sector \cup {0} OBVIOUS
<1> QED BY <1>1, <1>2, SeqMonotonic, LenProperties

\* A write begins.
LEMMA StartWriteFact ==
    ASSUME FsInv, NEW p \in Path, NEW nm \in {"write", "append"}, NEW c \in Seq(Sector \cup {0}),
           Begin(nm, p, <<>>), IsFile(p), StartWrite(find_node(p), c), Kept,
           ~filesystem_persistent_backend => Len(c) <= FS_MAX_FILE_SIZE
    PROVE  FsInv'
<1> PICK i : i = find_node(p) OBVIOUS
<1>1. i \in Slots /\ nodes[i].used /\ nodes[i].path = p BY FindFact DEF IsFile
<1>2. /\ pc = "idle" /\ op' = [name |-> nm, src |-> p, dst |-> <<>>]
      /\ pc' = "data" /\ at' = 0 /\ buf' = c /\ slot' = i /\ sec' = 1 /\ nodes' = nodes
      /\ filesystem_persistent_backend' = filesystem_persistent_backend
  BY DEF Begin, StartWrite, Kept, cacheVars
<1>3. CallType' BY <1>1, <1>2, EmptyFact DEF CallType, OpNames
<1>4. CallInv' BY <1>1, <1>2 DEF CallInv
<1>5. RamBuffer' /\ TransferInv' BY <1>2 DEF RamBuffer, TransferInv, Transferring
<1> QED BY <1>2, <1>3, <1>4, <1>5, StartFact

LEMMA WriteCallInv ==
    ASSUME FsInv, NEW p \in Path, NEW c \in Datas, filesystem_write_file(p, c) PROVE FsInv'
  BY DataFact, StartWriteFact DEF filesystem_write_file

LEMMA AppendCallInv ==
    ASSUME FsInv, NEW p \in Path, NEW c \in Datas, filesystem_append_file(p, c) PROVE FsInv'
<1> PICK i : i = find_node(p) OBVIOUS
<1>0. IsFile(p) /\ nodes[i].size + Len(c) <= FS_MAX_FILE_SIZE BY DEF filesystem_append_file
<1>1. i \in Slots BY <1>0, FindFact DEF IsFile
<1>2. Stored(i) \in Seq(Sector \cup {0}) /\ Len(Stored(i)) \in Nat
  BY <1>1, StoredFact, ContentFact, LenProperties
<1>3. c \in Seq(Sector \cup {0}) /\ Len(c) \in Nat BY DataFact
<1>4. Stored(i) \o c \in Seq(Sector \cup {0}) /\ Len(Stored(i) \o c) = Len(Stored(i)) + Len(c)
  BY <1>2, <1>3, ConcatProperties
<1>5. ~filesystem_persistent_backend => Len(Stored(i)) = nodes[i].size
  BY <1>1 DEF FsInv, RamSizes, Stored
<1>6. ~filesystem_persistent_backend => Len(Stored(i) \o c) <= FS_MAX_FILE_SIZE
  BY <1>0, <1>4, <1>5
<1> QED BY <1>4, <1>6, StartWriteFact DEF filesystem_append_file

LEMMA ReadFailsInv == ASSUME FsInv, NEW p \in Path, ReadFails(p) PROVE FsInv'
<1>1. /\ pc = "idle" /\ filesystem_storage_error' = TRUE
      /\ UNCHANGED <<nodes, current_directory, filesystem_persistent_backend, disk, sectors,
                     buf, slot, sec, pc, op, at, volume, crashes>>
      /\ faults' \in {faults, faults + 1}
  BY DEF ReadFails, diskVars, writeVars
<1>2. faults \in Nat /\ faults' \in Nat /\ (faults' = 0 => faults = 0)
  BY <1>1 DEF FsInv, StoreType
<1>3. StoreStep BY <1>1, <1>2, ErrorFact DEF FsInv, StoreType
<1>4. RootInv' BY <1>1, RootFact DEF RootInv
<1>5. CallType' BY <1>1 DEF FsInv, CallType
<1>6. CallInv' /\ RamBuffer' /\ TransferInv'
  BY <1>1 DEF CallInv, RamBuffer, TransferInv, Transferring
<1> QED BY <1>1, <1>3, <1>4, <1>5, <1>6, StepFact

LEMMA CallsInv == ASSUME FsInv, Call PROVE FsInv'
<1>1. ASSUME NEW s \in Path, NEW d \in Path, filesystem_copy(s, d) \/ filesystem_move(s, d)
      PROVE FsInv'
  BY <1>1, TransferCallInv DEF filesystem_copy, filesystem_move
<1> QED BY <1>1, ChangeDirectoryInv, CreateDirectoryInv, CreateFileInv, RemoveCallInv,
           ReadFailsInv, WriteCallInv, AppendCallInv DEF Call

-----------------------------------------------------------------------------
(* Steps of a removal.                                                     *)

\* Nothing but "/" itself is "/".
LEMMA NotRoot ==
    ASSUME NEW s \in Path, NEW p \in Path, path_is_inside(s, p), s # <<>>
    PROVE  p # <<>>
<1>1. s \in Seq(Names) /\ p \in Seq(Names) /\ Len(s) \in Nat /\ Len(s) # 0
  BY PathFact, LenProperties
<1>2. Len(s) <= Len(p) BY <1>1, InsideFact
<1> QED BY <1>1, <1>2

LEMMA RemoveNodeInv == ASSUME FsInv, RemoveNode PROVE FsInv'
<1> PICK i : i = Least(Inside(op.src, at)) OBVIOUS
<1>1. pc = "remove" /\ Inside(op.src, at) # {} BY DEF RemoveNode
<1>2. i \in Slots /\ nodes[i].used /\ path_is_inside(op.src, nodes[i].path)
  BY <1>1, InsideNode
<1>3. PICK w \in RecordWrites(i, ClearRecord) :
        /\ Wrote(w) /\ nodes' = IF w.ok THEN [nodes EXCEPT ![i] = FreeNode] ELSE nodes
        /\ IF w.ok /\ ~(op.name = "unlink") THEN Go("remove", i + 1) /\ UNCHANGED writeVars
           ELSE Finish
        /\ UNCHANGED <<sectors, current_directory, filesystem_persistent_backend, volume, crashes>>
  BY DEF RemoveNode, clear_persisted_node
<1>4. /\ nodes \in [Slots -> NodeType] /\ op.src \in Path /\ op.src # <<>>
      /\ op.name \in {"remove", "unlink"}
  BY <1>1 DEF FsInv, StoreType, CallType, CallInv
<1>5. Entry(ClearRecord) = FreeNode /\ Len(FreeNode.ram) = FreeNode.size
  BY EmptyFact DEF Entry, ClearRecord, FreeNode
<1>6. StoreStep BY <1>2, <1>3, <1>4, <1>5, NodeTypes, RecordFact
<1>7. nodes[i].path \in Path BY <1>2, <1>4 DEF NodeType
<1>8. nodes[i].path # <<>> BY <1>2, <1>4, <1>7, NotRoot
<1>9. DirIn(nodes', <<>>)
  <2>1. DirIn(nodes, <<>>) BY <1>1, RootFact
  <2>2. CASE nodes' = nodes BY <2>1, <2>2
  <2>3. CASE nodes' = [nodes EXCEPT ![i] = FreeNode]
    <3>1. \A j \in Slots \ {i} : nodes'[j] = nodes[j] BY <1>4, <2>3
    <3>2. ~nodes'[i].used BY <1>2, <1>4, <2>3 DEF FreeNode
    <3> QED BY <1>2, <1>8, <2>1, <3>1, <3>2, OtherPath
  <2> QED BY <1>3, <2>2, <2>3
<1>10. CASE Finish BY <1>1, <1>6, <1>9, <1>10, FinishFact
<1>11. CASE Go("remove", i + 1) /\ UNCHANGED writeVars
  <2>1. pc' = "remove" /\ at' = i + 1 /\ UNCHANGED <<op, buf, slot, sec>>
    BY <1>11 DEF Go, writeVars
  <2>2. i + 1 \in Nat BY <1>2, SlotsNat
  <2>3. CallType' BY <2>1, <2>2 DEF FsInv, CallType
  <2>4. CallInv' /\ RamBuffer' /\ TransferInv'
    BY <1>4, <2>1 DEF CallInv, RamBuffer, TransferInv, Transferring
  <2>5. RootInv' BY <1>9 DEF RootInv
  <2> QED BY <1>1, <1>6, <2>1, <2>3, <2>4, <2>5, StepFact
<1> QED BY <1>3, <1>10, <1>11

LEMMA RemoveDoneInv == ASSUME FsInv, RemoveDone PROVE FsInv'
  BY EndsInv DEF RemoveDone

-----------------------------------------------------------------------------
(* Steps of a copy or a move.                                              *)

\* A transfer past its checks does not go into its own source.
LEMMA DisjointFact ==
    ASSUME FsInv, Ensured, op.name \in {"copy", "move"}
    PROVE  ~path_is_inside(op.src, op.dst)
<1> SUFFICES ASSUME path_is_inside(op.src, op.dst) PROVE FALSE OBVIOUS
<1>1. pc = "ensure" /\ FirstGap(EnsureTarget) = NONE BY DEF Ensured
<1> PICK s \in Path : s = op.src BY DEF FsInv, CallType
<1> PICK d \in Path : d = op.dst BY DEF FsInv, CallType
<1>2. d # <<>> /\ s # d /\ ~DirIn(nodes, s) BY <1>1 DEF FsInv, TransferInv
<1>3. s # <<>> BY <1>1, <1>2, RootFact
<1>4. /\ s \in Seq(Names) /\ d \in Seq(Names) /\ Len(s) \in Nat /\ Len(d) \in Nat
      /\ Len(s) <= Len(d) /\ \A k \in 1 .. Len(s) : d[k] = s[k]
  BY PathFact, LenProperties, InsideFact
<1>5. Len(s) # Len(d) BY <1>2, <1>4, SeqEqual
<1>6. EnsureTarget = get_parent_path(d) BY DEF EnsureTarget
<1> PICK p \in Path : p = EnsureTarget BY EnsureTargetFact
<1>7. Len(p) = Len(d) - 1 BY <1>2, <1>6, ParentFact
<1>8. p = SubSeq(d, 1, Len(d) - 1) /\ Len(d) - 1 \in 0 .. Len(d)
  BY <1>4, <1>5, <1>6 DEF get_parent_path
<1>9. p \in Seq(Names) /\ \A k \in 1 .. Len(d) - 1 : p[k] = d[k] BY <1>4, <1>8, FrontFact
<1>10. Len(s) \in 1 .. Len(p) /\ Len(s) \in 0 .. Len(p) BY <1>3, <1>4, <1>5, <1>7
<1>11. /\ SubSeq(p, 1, Len(s)) \in Seq(Names) /\ Len(SubSeq(p, 1, Len(s))) = Len(s)
       /\ \A k \in 1 .. Len(s) : SubSeq(p, 1, Len(s))[k] = p[k]
  BY <1>9, <1>10, FrontFact
<1>12. \A k \in 1 .. Len(s) : k \in 1 .. Len(d) - 1 BY <1>4, <1>7, <1>10
<1>13. \A k \in 1 .. Len(s) : SubSeq(p, 1, Len(s))[k] = s[k] BY <1>4, <1>9, <1>11, <1>12
<1>14. SubSeq(p, 1, Len(s)) = s BY <1>4, <1>11, <1>13, SeqEqual
<1>15. IsDirectory(s) BY <1>1, <1>10, <1>14, NoGapFact
<1> QED BY <1>2, <1>15, FindFact

\* Lengths: of the destination a, of a path b, of the source c.
LEMMA RoomFact ==
    ASSUME NEW a \in Nat, NEW b \in Nat, NEW c \in Nat, NEW m \in Nat
    PROVE  /\ ~(a + b - c > m) => a + b <= m + c
           /\ \A n \in Nat : n = a + b - c /\ a + b <= m + c =>
                               n <= m /\ (a < c => a + n <= m + c)
  OBVIOUS

LEMMA TransferCheckedInv == ASSUME FsInv, TransferChecked PROVE FsInv'
<1>1. pc = "ensure" /\ Ensured /\ op.name \in {"copy", "move"} /\ Kept
  BY DEF TransferChecked, Ensured
<1>2. CASE Finish BY <1>1, <1>2, EndsInv
<1>3. CASE ~TooLong /\ Go(op.name, 0) /\ UNCHANGED writeVars
  <2>1. pc' = op.name /\ at' = 0 /\ UNCHANGED <<op, buf, slot, sec, nodes>>
    BY <1>1, <1>3 DEF Go, writeVars, Kept, cacheVars
  <2>2. CallType' BY <1>1, <2>1 DEF FsInv, CallType
  <2>3. CallInv' /\ RamBuffer' BY <1>1, <2>1 DEF CallInv, RamBuffer
  <2>4. TransferInv'
    <3>1. ~path_is_inside(op.src, op.dst) BY <1>1, DisjointFact
    <3>2. op.dst # <<>> /\ (op.name = "move" => op.src # <<>>)
      BY <1>1 DEF FsInv, TransferInv
    <3>3. ASSUME NEW i \in Slots, nodes[i].used, path_is_inside(op.src, nodes[i].path)
          PROVE  Len(op.dst) + Len(nodes[i].path) <= MaxDepth + Len(op.src)
      <4> PICK s \in Path : s = op.src BY DEF FsInv, CallType
      <4> PICK d \in Path : d = op.dst BY DEF FsInv, CallType
      <4> PICK q \in Path : q = nodes[i].path BY DEF FsInv, StoreType, NodeType
      <4>1. i \in Inside(s, 0) BY <3>3, SlotsNat DEF Inside
      <4>2. ~(Len(Retarget(s, d, q)) > MaxDepth) BY <1>3, <4>1 DEF TooLong
      <4>3. Len(Retarget(s, d, q)) = Len(d) + Len(q) - Len(s) BY <3>3, RetargetFact
      <4>4. Len(d) \in Nat /\ Len(q) \in Nat /\ Len(s) \in Nat /\ MaxDepth \in Nat
        BY PathFact, LenProperties, TableAssumption
      <4> PICK a \in Nat, b \in Nat, c \in Nat : a = Len(d) /\ b = Len(q) /\ c = Len(s) BY <4>4
      <4>6. ~(a + b - c > MaxDepth) BY <4>2, <4>3
      <4>7. a + b <= MaxDepth + c BY <4>4, <4>6, RoomFact
      <4> QED BY <4>7
    <3> QED BY <1>1, <2>1, <3>1, <3>2, <3>3 DEF TransferInv
  <2>5. StoreStep
    <3>1. current_directory' \in Path BY <1>1 DEF FsInv, StoreType, Kept, cacheVars
    <3> QED BY <1>1, <3>1, KeptFact DEF Kept, cacheVars
  <2>6. RootInv' BY <1>1, <2>1, RootFact DEF RootInv
  <2> QED BY <1>1, <2>1, <2>2, <2>3, <2>4, <2>5, <2>6, StepFact
<1> QED BY <1>2, <1>3 DEF TransferChecked

\* The new path of a node of the subtree fits, and leaves room for what is
\* still to come.
LEMMA TargetFact ==
    ASSUME FsInv, Transferring, NEW i \in Slots, nodes[i].used,
           path_is_inside(op.src, nodes[i].path), NEW r, r = Retarget(op.src, op.dst, nodes[i].path)
    PROVE  /\ r \in Path /\ r # <<>> /\ path_is_inside(op.dst, r)
           /\ path_is_inside(op.src, r) => Len(op.dst) + Len(r) <= MaxDepth + Len(op.src)
<1> PICK s \in Path : s = op.src BY DEF FsInv, CallType
<1> PICK d \in Path : d = op.dst BY DEF FsInv, CallType
<1> PICK q \in Path : q = nodes[i].path BY DEF FsInv, StoreType, NodeType
<1>1. Len(d) \in Nat /\ Len(q) \in Nat /\ Len(s) \in Nat /\ MaxDepth \in Nat
  BY PathFact, LenProperties, TableAssumption
<1>2. d # <<>> /\ ~path_is_inside(s, d) /\ Len(d) + Len(q) <= MaxDepth + Len(s)
  BY DEF FsInv, TransferInv
<1>3. /\ r \in Seq(Names) /\ Len(r) = Len(d) + Len(q) - Len(s) /\ path_is_inside(d, r)
      /\ r # <<>> /\ (path_is_inside(s, r) => Len(d) < Len(s))
  BY <1>2, RetargetFact
<1> PICK a \in Nat, b \in Nat, c \in Nat, n \in Nat :
      a = Len(d) /\ b = Len(q) /\ c = Len(s) /\ n = Len(r)
  BY <1>1, <1>3, LenProperties
<1>4. n = a + b - c /\ a + b <= MaxDepth + c BY <1>2, <1>3
<1>5. n <= MaxDepth /\ (a < c => a + n <= MaxDepth + c) BY <1>1, <1>4, RoomFact
<1>6. r \in Path BY <1>3, <1>5, PathFact
<1>8. path_is_inside(s, r) => Len(d) + Len(r) <= MaxDepth + Len(s) BY <1>3, <1>5
<1> QED BY <1>3, <1>6, <1>8

\* The loop goes on after node i of the table was given path q, or was added.
LEMMA NextNode ==
    ASSUME FsInv, Transferring, NEW i \in Slots, NEW q \in Path,
           \A j \in Slots \ {i} : nodes'[j] = nodes[j],
           nodes'[i].path = q,
           path_is_inside(op.src, q) => Len(op.dst) + Len(q) <= MaxDepth + Len(op.src),
           op' = op, pc' # "ensure"
    PROVE  TransferInv'
<1>1. /\ op.dst # <<>> /\ ~path_is_inside(op.src, op.dst)
      /\ op.name = "move" => op.src # <<>>
      /\ \A j \in Slots :
           nodes[j].used /\ path_is_inside(op.src, nodes[j].path) =>
             Len(op.dst) + Len(nodes[j].path) <= MaxDepth + Len(op.src)
  BY DEF FsInv, TransferInv
<1>2. ASSUME NEW j \in Slots, nodes'[j].used, path_is_inside(op.src, nodes'[j].path)
      PROVE  Len(op.dst) + Len(nodes'[j].path) <= MaxDepth + Len(op.src)
  <2>1. CASE j = i BY <1>2, <2>1
  <2>2. CASE j # i BY <1>1, <1>2, <2>2
  <2> QED BY <2>1, <2>2
<1> QED BY <1>1, <1>2 DEF TransferInv

LEMMA CopyNodeInv == ASSUME FsInv, CopyNode PROVE FsInv'
<1> PICK i : i = Least(Inside(op.src, at)) OBVIOUS
<1> PICK q : q = Retarget(op.src, op.dst, nodes[i].path) OBVIOUS
<1> PICK t : t = nodes[i].type OBVIOUS
<1>1. pc = "copy" /\ Inside(op.src, at) # {} BY DEF CopyNode
<1>2. i \in Slots /\ nodes[i].used /\ path_is_inside(op.src, nodes[i].path)
  BY <1>1, InsideNode
<1>3. Transferring BY <1>1 DEF Transferring
<1>4. /\ q \in Path /\ q # <<>> /\ path_is_inside(op.dst, q)
      /\ path_is_inside(op.src, q) => Len(op.dst) + Len(q) <= MaxDepth + Len(op.src)
  BY <1>2, <1>3, TargetFact
<1>5. t \in Type /\ op.name = "copy" BY <1>1, <1>2 DEF FsInv, StoreType, NodeType, CallInv
<1>6. DirIn(nodes, <<>>) BY <1>1, RootFact
<1>7. CASE /\ Finish
           /\ filesystem_storage_error' = (filesystem_storage_error \/ ~Readable(i))
           /\ UNCHANGED <<nodes, current_directory, filesystem_persistent_backend,
                          diskVars, volume, faults, crashes>>
  <2>1. filesystem_storage_error' \in BOOLEAN BY <1>7
  <2>2. StoreStep BY <1>7, <2>1, ErrorFact DEF FsInv, StoreType, diskVars
  <2> QED BY <1>1, <1>6, <1>7, <2>2, FinishFact
<1>8. CASE /\ Finish
           /\ filesystem_storage_error' = TRUE /\ faults' = faults + 1
           /\ UNCHANGED <<nodes, current_directory, filesystem_persistent_backend,
                          diskVars, volume, crashes>>
  <2>1. faults' \in Nat /\ faults' # 0 BY <1>8 DEF FsInv, StoreType
  <2>2. StoreStep BY <1>8, <2>1, ErrorFact DEF FsInv, StoreType, diskVars
  <2> QED BY <1>1, <1>6, <1>8, <2>2, FinishFact
<1>9. CASE Finish /\ Kept BY <1>1, <1>9, EndsInv
<1>10. CASE /\ ~Exists(q) /\ find_free_node # NONE
            /\ \E w \in AddOutcomes(q, t) :
                 /\ AddNode(q, t, w)
                 /\ \/ ~w.ok /\ Finish
                    \/ w.ok /\ Go("copy", i + 1) /\ UNCHANGED writeVars
                    \/ /\ w.ok /\ Go("data", i + 1)
                       /\ buf' \in {Stored(i), <<>>}
                       /\ slot' = find_free_node /\ sec' = 1
  <2>1. PICK w \in AddOutcomes(q, t) :
          /\ AddNode(q, t, w)
          /\ \/ ~w.ok /\ Finish
             \/ w.ok /\ Go("copy", i + 1) /\ UNCHANGED writeVars
             \/ /\ w.ok /\ Go("data", i + 1)
                /\ buf' \in {Stored(i), <<>>}
                /\ slot' = find_free_node /\ sec' = 1
    BY <1>10
  <2> PICK f : f = find_free_node OBVIOUS
  <2>2. /\ StoreStep /\ f \in Slots
        /\ \A j \in Slots \ {f} : nodes'[j] = nodes[j]
        /\ nodes'[f] = IF w.ok THEN Node(q, t) ELSE FreeNode
        /\ DirIn(nodes', <<>>) <=> DirIn(nodes, <<>>)
    BY <1>4, <1>5, <1>10, <2>1, AddFact
  <2>3. DirIn(nodes', <<>>) /\ RootInv' BY <1>6, <2>2 DEF RootInv
  <2>4. CASE ~w.ok /\ Finish BY <1>1, <2>2, <2>3, <2>4, FinishFact
  <2>5. ASSUME w.ok, pc' # "ensure", op' = op PROVE TransferInv'
    <3>1. nodes'[f].path = q BY <2>2, <2>5 DEF Node
    <3> QED BY <1>3, <1>4, <2>2, <2>5, <3>1, NextNode
  <2>6. i + 1 \in Nat BY <1>2, SlotsNat
  <2>7. CASE w.ok /\ Go("copy", i + 1) /\ UNCHANGED writeVars
    <3>1. pc' = "copy" /\ at' = i + 1 /\ UNCHANGED <<op, buf, slot, sec>>
      BY <2>7 DEF Go, writeVars
    <3>2. CallType' BY <2>6, <3>1 DEF FsInv, CallType
    <3>3. CallInv' /\ RamBuffer' BY <1>5, <3>1 DEF CallInv, RamBuffer
    <3>4. TransferInv' BY <2>5, <2>7, <3>1
    <3> QED BY <1>1, <2>2, <2>3, <3>1, <3>2, <3>3, <3>4, StepFact
  <2>8. CASE /\ w.ok /\ Go("data", i + 1)
             /\ buf' \in {Stored(i), <<>>} /\ slot' = find_free_node /\ sec' = 1
    <3>1. pc' = "data" /\ at' = i + 1 /\ op' = op /\ slot' = f /\ sec' = 1 BY <2>8 DEF Go
    <3>2. buf' \in Content BY <1>2, <2>8, StoredFact, EmptyFact
    <3>3. buf' \in Seq(Sector \cup {0}) /\ Len(buf') <= FS_MAX_FILE_SIZE BY <3>2, ContentFact
    <3>4. CallType' BY <2>2, <2>6, <3>1, <3>3 DEF FsInv, CallType
    <3>5. nodes'[f].used /\ nodes'[f].path = q BY <2>2, <2>8 DEF Node
    <3>6. CallInv' BY <1>4, <1>5, <2>2, <3>1, <3>5 DEF CallInv
    <3>7. RamBuffer' BY <3>3 DEF RamBuffer
    <3>8. TransferInv' BY <2>5, <2>8, <3>1
    <3> QED BY <1>1, <2>2, <2>3, <3>1, <3>4, <3>6, <3>7, <3>8, StepFact
  <2> QED BY <2>1, <2>4, <2>7, <2>8
<1> QED BY <1>7, <1>8, <1>9, <1>10 DEF CopyNode

LEMMA CopyDoneInv == ASSUME FsInv, CopyDone PROVE FsInv'
  BY EndsInv DEF CopyDone

LEMMA MoveNodeInv == ASSUME FsInv, MoveNode PROVE FsInv'
<1> PICK i : i = Least(Inside(op.src, at)) OBVIOUS
<1> PICK q : q = Retarget(op.src, op.dst, nodes[i].path) OBVIOUS
<1> PICK n : n = [nodes[i] EXCEPT !.path = q] OBVIOUS
<1>1. pc = "move" /\ Inside(op.src, at) # {} BY DEF MoveNode
<1>2. i \in Slots /\ nodes[i].used /\ path_is_inside(op.src, nodes[i].path)
  BY <1>1, InsideNode
<1>3. PICK w \in RecordWrites(i, RecordOf(n)) :
        /\ Wrote(w) /\ nodes' = IF w.ok THEN [nodes EXCEPT ![i] = n] ELSE nodes
        /\ IF w.ok THEN Go("move", i + 1) /\ UNCHANGED writeVars ELSE Finish
        /\ UNCHANGED <<sectors, current_directory, filesystem_persistent_backend, volume, crashes>>
  BY DEF MoveNode, persist_node
<1>4. Transferring BY <1>1 DEF Transferring
<1>5. /\ q \in Path /\ q # <<>>
      /\ path_is_inside(op.src, q) => Len(op.dst) + Len(q) <= MaxDepth + Len(op.src)
  BY <1>2, <1>4, TargetFact
<1>6. /\ nodes \in [Slots -> NodeType] /\ nodes[i] \in NodeType
      /\ op.src \in Path /\ op.src # <<>> /\ op.name = "move"
  BY <1>1, <1>2, <1>4 DEF FsInv, StoreType, CallType, CallInv, TransferInv
<1>7. /\ n \in NodeType /\ n.path = q /\ n.used /\ n.ram = nodes[i].ram /\ n.size = nodes[i].size
      /\ RecordOf(n) \in RecordType
  BY <1>2, <1>5, <1>6, NodeTypes DEF NodeType
<1>8. ASSUME nodes = Loaded PROVE Entry(RecordOf(n)) = n
  <2>1. nodes[i] = Entry(disk[i]) BY <1>2, <1>8, LoadedFact
  <2>2. n.ram = <<>> BY <1>2, <1>7, <2>1 DEF Entry, Node, FreeNode
  <2> QED BY <1>7, <2>2, EntryFact
<1>9. ~filesystem_persistent_backend => Len(n.ram) = n.size
  BY <1>2, <1>7 DEF FsInv, RamSizes
<1>10. StoreStep BY <1>2, <1>3, <1>6, <1>7, <1>8, <1>9, RecordFact
<1>11. nodes[i].path # <<>> BY <1>2, <1>6, NotRoot DEF NodeType
<1>12. \A j \in Slots \ {i} : nodes'[j] = nodes[j] BY <1>3, <1>6
<1>13. nodes'[i] \in {n, nodes[i]} BY <1>2, <1>3, <1>6
<1>14. DirIn(nodes', <<>>)
  <2>1. DirIn(nodes, <<>>) BY <1>1, RootFact
  <2>2. nodes'[i].path # <<>> BY <1>5, <1>7, <1>11, <1>13
  <2> QED BY <1>2, <1>11, <1>12, <2>1, <2>2, OtherPath
<1>15. CASE ~w.ok BY <1>1, <1>3, <1>10, <1>14, <1>15, FinishFact
<1>16. CASE w.ok
  <2>1. pc' = "move" /\ at' = i + 1 /\ UNCHANGED <<op, buf, slot, sec>>
    BY <1>3, <1>16 DEF Go, writeVars
  <2>2. i + 1 \in Nat BY <1>2, SlotsNat
  <2>3. CallType' BY <2>1, <2>2 DEF FsInv, CallType
  <2>4. CallInv' /\ RamBuffer' BY <1>6, <2>1 DEF CallInv, RamBuffer
  <2>5. nodes'[i].path = q BY <1>2, <1>3, <1>6, <1>7, <1>16
  <2>6. TransferInv' BY <1>2, <1>4, <1>5, <1>12, <2>1, <2>5, NextNode
  <2>7. RootInv' BY <1>14 DEF RootInv
  <2> QED BY <1>1, <1>10, <2>1, <2>3, <2>4, <2>6, <2>7, StepFact
<1> QED BY <1>15, <1>16

LEMMA MoveDoneInv == ASSUME FsInv, MoveDone PROVE FsInv'
<1>1. /\ pc = "move" /\ Finish
      /\ UNCHANGED <<nodes, filesystem_persistent_backend, filesystem_storage_error,
                     diskVars, volume, faults, crashes>>
      /\ current_directory' = IF path_is_inside(op.src, current_directory)
                                THEN Fitted(Retarget(op.src, op.dst, current_directory))
                                ELSE current_directory
  BY DEF MoveDone
<1>2. op.src \in Path /\ op.dst \in Path /\ current_directory \in Path
  BY DEF FsInv, StoreType, CallType
<1>3. current_directory' \in Path BY <1>1, <1>2, RetargetFact, FittedFact
<1>4. StoreStep BY <1>1, <1>3, KeptFact
<1> QED BY <1>1, <1>4, RootFact, FinishFact

-----------------------------------------------------------------------------
(* Steps of a file write.                                                  *)

\* backend_write_file returns.
LEMMA ReturnsFact ==
    ASSUME FsInv, pc = "data", StoreStep, NEW ok, WriteReturns(ok),
           \A j \in Slots : /\ nodes'[j].used <=> nodes[j].used
                            /\ nodes'[j].path = nodes[j].path /\ nodes'[j].type = nodes[j].type
    PROVE  FsInv'
<1>1. DirIn(nodes', <<>>) BY RootFact, SamePath
<1>2. CASE Finish BY <1>1, <1>2, FinishFact
<1>3. CASE op.name = "copy" /\ Go("copy", at) /\ buf' = <<>> /\ slot' = NONE /\ sec' = 0
  <2>1. pc' = "copy" /\ at' = at /\ op' = op BY <1>3 DEF Go
  <2>2. CallType' BY <1>3, <2>1, EmptySeq DEF FsInv, CallType
  <2>3. CallInv' /\ RamBuffer' BY <1>3, <2>1 DEF CallInv, RamBuffer
  <2>4. TransferInv'
    <3>1. Transferring BY <1>3 DEF Transferring
    <3> QED BY <2>1, <3>1 DEF FsInv, TransferInv
  <2>5. RootInv' BY <1>1 DEF RootInv
  <2> QED BY <2>1, <2>2, <2>3, <2>4, <2>5, StepFact
<1> QED BY <1>2, <1>3 DEF WriteReturns

LEMMA RamWriteInv == ASSUME FsInv, RamWrite PROVE FsInv'
<1>1. /\ pc = "data" /\ ~filesystem_persistent_backend
      /\ UNCHANGED <<current_directory, filesystem_persistent_backend,
                     filesystem_storage_error, disk, sectors, volume, faults, crashes>>
  BY DEF RamWrite, diskVars
<1>2. /\ nodes \in [Slots -> NodeType] /\ slot \in Slots /\ buf \in Seq(Sector \cup {0})
      /\ Len(buf) <= FS_MAX_FILE_SIZE
  BY <1>1 DEF FsInv, StoreType, CallType, CallInv, RamBuffer
<1>3. CASE nodes' = nodes /\ WriteReturns(FALSE)
  <2>1. StoreStep BY <1>1, <1>3, KeptFact DEF FsInv, StoreType, diskVars
  <2> QED BY <1>1, <1>3, <2>1, ReturnsFact
<1>4. CASE /\ nodes' = [nodes EXCEPT ![slot].ram = buf, ![slot].size = Len(buf)]
           /\ WriteReturns(TRUE)
  <2>1. Len(buf) \in 0 .. FS_MAX_FILE_SIZE /\ buf \in Content
    BY <1>2, LenProperties, ContentFact, TableAssumption
  <2> PICK n : n = [nodes[slot] EXCEPT !.ram = buf, !.size = Len(buf)] OBVIOUS
  <2>2. nodes' = [nodes EXCEPT ![slot] = n] BY <1>2, <1>4
  <2>3. nodes[slot] \in NodeType BY <1>2
  <2>4. /\ n \in NodeType /\ Len(n.ram) = n.size
        /\ n.used = nodes[slot].used /\ n.path = nodes[slot].path /\ n.type = nodes[slot].type
    BY <2>1, <2>3 DEF NodeType
  <2>5. nodes' \in [Slots -> NodeType] BY <1>2, <2>2, <2>4
  <2>6. StoreStep BY <1>1, <1>2, <2>2, <2>4, <2>5 DEF FsInv, StoreType, StoreStep, RamSizes, Mirror
  <2>7. \A j \in Slots : /\ nodes'[j].used <=> nodes[j].used
                         /\ nodes'[j].path = nodes[j].path /\ nodes'[j].type = nodes[j].type
    BY <1>2, <2>2, <2>4
  <2> QED BY <1>1, <1>4, <2>6, <2>7, ReturnsFact
<1> QED BY <1>3, <1>4 DEF RamWrite

LEMMA WriteRefusedInv == ASSUME FsInv, WriteRefused PROVE FsInv'
<1>1. /\ pc = "data" /\ filesystem_storage_error' = TRUE /\ WriteReturns(FALSE)
      /\ UNCHANGED <<nodes, current_directory, filesystem_persistent_backend, disk, sectors,
                     volume, faults, crashes>>
  BY DEF WriteRefused, DiskWriteFails, diskVars
<1>2. StoreStep BY <1>1, ErrorFact DEF FsInv, StoreType
<1> QED BY <1>1, <1>2, ReturnsFact

LEMMA WriteSectorInv == ASSUME FsInv, WriteSector PROVE FsInv'
<1> PICK x : x = [sectors EXCEPT ![slot][sec] = buf[sec]] OBVIOUS
<1>1. /\ pc = "data" /\ filesystem_persistent_backend /\ Len(buf) <= FS_MAX_FILE_SIZE
      /\ sec <= Len(buf)
      /\ UNCHANGED <<nodes, current_directory, filesystem_persistent_backend, disk,
                     volume, crashes>>
  BY DEF WriteSector, WriteAllowed
<1>2. /\ sectors \in [Slots -> [1 .. FS_MAX_FILE_SIZE -> Sector \cup {0}]]
      /\ slot \in Slots /\ sec \in Nat /\ sec > 0 /\ buf \in Seq(Sector \cup {0})
  BY <1>1 DEF FsInv, StoreType, CallType, CallInv
<1>3. Len(buf) \in Nat /\ sec \in 1 .. Len(buf) /\ sec \in 1 .. FS_MAX_FILE_SIZE
  BY <1>1, <1>2, LenProperties, TableAssumption
<1>4. buf[sec] \in Sector \cup {0} BY <1>2, <1>3, ElementOfSeq
<1>5. x \in [Slots -> [1 .. FS_MAX_FILE_SIZE -> Sector \cup {0}]] BY <1>2, <1>3, <1>4
<1>6. CASE /\ sectors' = x /\ sec' = sec + 1
           /\ UNCHANGED <<filesystem_storage_error, callVars, buf, slot, faults>>
  <2>1. StoreStep BY <1>1, <1>5, <1>6, ErrorFact DEF FsInv, StoreType
  <2>2. UNCHANGED <<pc, op, at, buf, slot>> BY <1>6 DEF callVars
  <2>3. sec' \in Nat /\ sec' > 0 BY <1>2, <1>6
  <2>4. CallType' BY <2>2, <2>3 DEF FsInv, CallType
  <2>5. CallInv' BY <1>1, <2>2, <2>3 DEF FsInv, CallInv
  <2>6. RamBuffer' /\ RootInv' BY <1>1, <2>2, RootFact DEF RamBuffer, RootInv
  <2>7. TransferInv' BY <1>1, <2>2 DEF FsInv, TransferInv, Transferring
  <2> QED BY <1>1, <2>1, <2>2, <2>4, <2>5, <2>6, <2>7, StepFact
<1>7. CASE /\ faults' = faults + 1 /\ sectors' \in {sectors, x}
           /\ filesystem_storage_error' = TRUE /\ WriteReturns(FALSE)
  <2>1. faults' \in Nat /\ faults' # 0 BY <1>7 DEF FsInv, StoreType
  <2>2. sectors' \in [Slots -> [1 .. FS_MAX_FILE_SIZE -> Sector \cup {0}]] BY <1>2, <1>5, <1>7
  <2>3. StoreStep BY <1>1, <1>7, <2>1, <2>2, ErrorFact DEF FsInv, StoreType
  <2> QED BY <1>1, <1>7, <2>3, ReturnsFact
<1> QED BY <1>6, <1>7 DEF WriteSector, DiskWriteFails

LEMMA WriteSizeInv == ASSUME FsInv, WriteSize PROVE FsInv'
<1> PICK k : k = Len(buf) OBVIOUS
<1> PICK r : r = [disk[slot] EXCEPT !.size = k] OBVIOUS
<1> PICK n : n = [nodes[slot] EXCEPT !.size = k] OBVIOUS
<1>1. /\ pc = "data" /\ filesystem_persistent_backend /\ k <= FS_MAX_FILE_SIZE
      /\ disk[slot].used
  BY DEF WriteSize, WriteAllowed, Readable
<1>2. /\ nodes \in [Slots -> NodeType] /\ disk \in [Slots -> RecordType] /\ slot \in Slots
      /\ buf \in Seq(Sector \cup {0})
  BY <1>1 DEF FsInv, StoreType, CallType, CallInv
<1>3. k \in 0 .. FS_MAX_FILE_SIZE BY <1>1, <1>2, LenProperties, TableAssumption
<1>4. nodes[slot] \in NodeType /\ disk[slot] \in RecordType BY <1>2
<1>5. /\ n \in NodeType /\ r \in RecordType
      /\ n.used = nodes[slot].used /\ n.path = nodes[slot].path /\ n.type = nodes[slot].type
  BY <1>3, <1>4 DEF NodeType, RecordType
<1>6. PICK w \in RecordWrites(slot, r) :
        /\ Wrote(w) /\ nodes' = IF w.ok THEN [nodes EXCEPT ![slot] = n] ELSE nodes
        /\ WriteReturns(w.ok)
        /\ UNCHANGED <<sectors, current_directory, filesystem_persistent_backend, volume, crashes>>
  BY <1>2 DEF WriteSize
<1>7. ASSUME nodes = Loaded PROVE Entry(r) = n
  <2> PICK p, t, m : p = disk[slot].path /\ t = disk[slot].type /\ m = disk[slot].size OBVIOUS
  <2>1. nodes[slot] = [Node(p, t) EXCEPT !.size = m] BY <1>1, <1>2, <1>7, LoadedFact DEF Entry
  <2>2. n = [Node(p, t) EXCEPT !.size = k] BY <2>1 DEF Node
  <2>3. r.used /\ r.path = p /\ r.type = t /\ r.size = k BY <1>1, <1>4 DEF RecordType
  <2> QED BY <2>2, <2>3 DEF Entry
<1>8. StoreStep BY <1>1, <1>2, <1>5, <1>6, <1>7, RecordFact
<1>9. \A j \in Slots : /\ nodes'[j].used <=> nodes[j].used
                       /\ nodes'[j].path = nodes[j].path /\ nodes'[j].type = nodes[j].type
  BY <1>2, <1>5, <1>6
<1> QED BY <1>1, <1>6, <1>8, <1>9, ReturnsFact

LEMMA StepsInv == ASSUME FsInv, Step PROVE FsInv'
  BY EnsureMakeInv, EnsureRefusedInv, DirectoryMadeInv, FileMadeInv, RemoveNodeInv, RemoveDoneInv,
     TransferCheckedInv, CopyNodeInv, CopyDoneInv, MoveNodeInv, MoveDoneInv, RamWriteInv,
     WriteRefusedInv, WriteSectorInv, WriteSizeInv
  DEF Step, Ensure, Create, Remove, Copy, Move, WriteFile

-----------------------------------------------------------------------------
(* Start-up and loss of power.                                             *)

LEMMA InitialFact ==
    /\ Len(initial_nodes) \in Nat \ {0} /\ DOMAIN initial_nodes = 1 .. Len(initial_nodes)
    /\ \A k \in 1 .. Len(initial_nodes) : InitialNode(k) \in Path /\ InitialType(k) \in Type
    /\ InitialNode(1) = <<>> /\ InitialType(1) = DIR /\ 0 \in Slots
<1>1. /\ initial_nodes \in Seq(Path \X Type) /\ initial_nodes # <<>>
      /\ initial_nodes[1] = <<<<>>, DIR>> /\ FS_MAX_NODES \in Nat /\ FS_MAX_NODES >= Len(initial_nodes)
  BY TableAssumption
<1>2. Len(initial_nodes) \in Nat \ {0} /\ DOMAIN initial_nodes = 1 .. Len(initial_nodes)
  BY <1>1, LenProperties
<1>3. \A k \in 1 .. Len(initial_nodes) : initial_nodes[k] \in Path \X Type
  BY <1>1, <1>2, ElementOfSeq
<1>4. 0 \in Slots BY <1>1, <1>2 DEF Slots
<1> QED BY <1>1, <1>2, <1>3, <1>4 DEF InitialNode, InitialType

LEMMA RamTreeFact ==
    /\ RamTree \in [Slots -> NodeType] /\ DirIn(RamTree, <<>>)
    /\ \A i \in Slots : Len(RamTree[i].ram) = RamTree[i].size
<1>1. RamTree = [i \in Slots |-> IF i < Len(initial_nodes)
                                   THEN Node(InitialNode(i + 1), InitialType(i + 1)) ELSE FreeNode]
  BY DEF RamTree, InitialNode, InitialType
<1>2. ASSUME NEW i \in Slots
      PROVE  RamTree[i] \in NodeType /\ Len(RamTree[i].ram) = RamTree[i].size
  <2>1. CASE i < Len(initial_nodes)
    <3>1. i + 1 \in 1 .. Len(initial_nodes) BY <2>1, SlotsNat, InitialFact
    <3>2. InitialNode(i + 1) \in Path /\ InitialType(i + 1) \in Type BY <3>1, InitialFact
    <3>3. RamTree[i] = Node(InitialNode(i + 1), InitialType(i + 1)) BY <1>1, <2>1
    <3> QED BY <3>2, <3>3, NodeTypes, EmptyFact DEF Node
  <2>2. CASE ~(i < Len(initial_nodes))
    <3>1. RamTree[i] = FreeNode BY <1>1, <2>2
    <3> QED BY <3>1, NodeTypes, EmptyFact DEF FreeNode
  <2> QED BY <2>1, <2>2
<1>3. RamTree \in [Slots -> NodeType] BY <1>1, <1>2
<1>4. DirIn(RamTree, <<>>)
  <2>1. 0 \in Slots /\ 0 < Len(initial_nodes) BY InitialFact
  <2>2. RamTree[0] = Node(InitialNode(0 + 1), InitialType(0 + 1)) BY <1>1, <2>1
  <2>3. RamTree[0] = Node(<<>>, DIR) BY <2>2, InitialFact
  <2>4. \A j \in Slots : 0 <= j BY SlotsNat
  <2> QED BY <2>1, <2>3, <2>4 DEF DirIn, Node
<1> QED BY <1>2, <1>3, <1>4

\* A volume is given up for RAM.
LEMMA RamFact ==
    ASSUME FsInv, nodes' = RamTree, EnterHome(RamTree), ~filesystem_persistent_backend',
           filesystem_persistent_backend' \in BOOLEAN, filesystem_storage_error' \in BOOLEAN,
           disk' \in [Slots -> RecordType], faults' \in Nat,
           UNCHANGED <<sectors, volume, crashes>>,
           faults' = 0 => faults = 0 /\ disk' = disk,
           volume /\ faults' = 0 =>
             /\ \A i \in Slots : disk[i].used
             /\ \E k \in DOMAIN initial_nodes : OnDisk(disk, sectors, InitialNode(k)) = {}
    PROVE  FsInv'
<1>1. current_directory' \in Path BY EmptyFact, TableAssumption DEF EnterHome
<1>2. StoreType' BY <1>1, RamTreeFact DEF FsInv, StoreType
<1>3. Finish BY DEF EnterHome
<1>4. CallType' BY <1>3, NoOpType, EmptySeq DEF Finish, CallType
<1>5. CallInv' /\ RamBuffer' /\ TransferInv'
  BY <1>3 DEF Finish, CallInv, RamBuffer, TransferInv, Transferring
<1>6. RootInv' /\ RamSizes' BY RamTreeFact DEF RootInv, RamSizes
<1>7. Mirror' BY DEF Mirror
<1>8. MountInv' BY DEF FsInv, MountInv
<1>9. GivenUpInv' BY DEF GivenUpInv
<1> QED BY <1>2, <1>4, <1>5, <1>6, <1>7, <1>8, <1>9 DEF FsInv

LEMMA LoadedType == ASSUME FsInv PROVE Loaded \in [Slots -> NodeType]
<1>1. \A i \in Slots : Entry(disk[i]) \in NodeType BY NodeTypes DEF FsInv, StoreType
<1> QED BY <1>1, LoadedFact

\* The records load with the path and the type they have.
LEMMA LoadedPaths ==
    ASSUME NEW i \in Slots
    PROVE  /\ Loaded[i].used <=> disk[i].used
           /\ disk[i].used => Loaded[i].path = disk[i].path /\ Loaded[i].type = disk[i].type
  BY LoadedFact DEF Entry, Node, FreeNode

LEMMA LoadedRootFact == ASSUME FsInv PROVE LoadedRoot = DIR <=> DirIn(Loaded, <<>>)
<1>1. PICK S \in SUBSET Nat : S = {j \in Slots : Loaded[j].used /\ Loaded[j].path = <<>>}
  BY SlotsNat
<1>2. PICK k : k = Least(S) OBVIOUS
<1>3. LoadedRoot = IF k = NONE THEN "none" ELSE Loaded[k].type BY <1>1, <1>2 DEF LoadedRoot
<1>4. (k = NONE <=> S = {}) /\ (S # {} => k \in S /\ \A j \in S : k <= j)
  BY <1>2, LeastFact
<1>5. ASSUME LoadedRoot = DIR PROVE DirIn(Loaded, <<>>)
  <2>1. k # NONE /\ Loaded[k].type = DIR BY <1>3, <1>5 DEF DIR
  <2> QED BY <1>1, <1>4, <2>1 DEF DirIn
<1>6. ASSUME DirIn(Loaded, <<>>) PROVE LoadedRoot = DIR
  <2>1. PICK i \in S : Loaded[i].type = DIR /\ \A j \in S : i <= j BY <1>1, <1>6 DEF DirIn
  <2>2. k \in S /\ k <= i /\ i <= k /\ i \in Nat /\ k \in Nat /\ k # NONE BY <1>4, <2>1
  <2>3. k = i BY <2>2
  <2> QED BY <1>3, <2>1, <2>2, <2>3
<1> QED BY <1>5, <1>6

LEMMA InitCallInv == ASSUME FsInv, filesystem_init PROVE FsInv'
<1>1. pc = "off" /\ UNCHANGED <<volume, crashes>> BY DEF filesystem_init
<1>2. faults \in Nat /\ disk \in [Slots -> RecordType] BY DEF FsInv, StoreType
<1>3. ASSUME NEW e \in BOOLEAN, UseRam(e), faults' \in Nat, ~volume \/ faults' # 0,
             faults' = 0 => faults = 0
      PROVE  FsInv'
  <2>1. /\ nodes' = RamTree /\ EnterHome(RamTree) /\ filesystem_persistent_backend' = FALSE
        /\ filesystem_storage_error' = e /\ disk' = disk /\ sectors' = sectors
    BY <1>3 DEF UseRam, diskVars
  <2> QED BY <1>1, <1>2, <1>3, <2>1, RamFact
<1>4. CASE ~volume /\ UseRam(FALSE) /\ UNCHANGED faults BY <1>2, <1>3, <1>4
<1>5. CASE volume /\ faults < MaxFaults /\ UseRam(TRUE) /\ faults' = faults + 1
  <2>1. faults' \in Nat /\ faults' # 0 BY <1>2, <1>5
  <2> QED BY <1>3, <1>5, <2>1
<1>6. CASE UNCHANGED faults /\ ~((\A i \in Slots : ~disk[i].used) \/ LoadedRoot = DIR) /\ UseRam(TRUE)
  <2>1. faults # 0
    <3> SUFFICES ASSUME faults = 0 PROVE FALSE OBVIOUS
    <3>1. DirIn(disk, <<>>) BY <1>6 DEF FsInv, MountInv
    <3>2. DirIn(Loaded, <<>>) BY <3>1, LoadedPaths, SamePath
    <3> QED BY <1>6, <3>2, LoadedRootFact
  <2> QED BY <1>2, <1>3, <1>6, <2>1
<1>7. CASE /\ UNCHANGED faults
           /\ (\A i \in Slots : ~disk[i].used) \/ LoadedRoot = DIR
           /\ nodes' = Loaded /\ filesystem_persistent_backend' = TRUE
           /\ filesystem_storage_error' = FALSE /\ Go("tree", 1)
           /\ UNCHANGED <<current_directory, diskVars, writeVars>>
  <2>1. pc' = "tree" /\ at' = 1 /\ UNCHANGED <<op, disk, sectors, buf, slot, sec>>
    BY <1>7 DEF Go, diskVars, writeVars
  <2>2. StoreType' BY <1>1, <1>7, <2>1, LoadedType DEF FsInv, StoreType
  <2>3. CallType' BY <2>1 DEF FsInv, CallType
  <2>4. CallInv' /\ RamSizes' /\ RamBuffer' /\ TransferInv' /\ GivenUpInv'
    BY <1>7, <2>1 DEF CallInv, RamSizes, RamBuffer, TransferInv, Transferring, GivenUpInv
  <2>5. RootInv'
    <3>1. CASE LoadedRoot = DIR BY <1>7, <3>1, LoadedRootFact DEF RootInv
    <3>2. CASE \A i \in Slots : ~disk[i].used
      <4>1. \A i \in Slots : ~nodes'[i].used BY <1>7, <3>2, LoadedPaths
      <4> QED BY <2>1, <4>1 DEF RootInv
    <3> QED BY <1>7, <3>1, <3>2
  <2>6. Loaded' = Loaded BY <2>1 DEF Loaded
  <2>7. Mirror' BY <1>7, <2>6 DEF Mirror
  <2>8. MountInv' BY <1>7, <2>1 DEF FsInv, MountInv
  <2> QED BY <2>2, <2>3, <2>4, <2>5, <2>7, <2>8 DEF FsInv
<1> QED BY <1>4, <1>5, <1>6, <1>7 DEF filesystem_init

\* The base tree is being made: "/" first.
LEMMA TreeRoot ==
    ASSUME FsInv, pc = "tree", at <= Len(initial_nodes), NEW p, p = InitialNode(at)
    PROVE  /\ at \in DOMAIN initial_nodes /\ p \in Path /\ InitialType(at) \in Type
           /\ \/ at # 1 /\ DirIn(nodes, <<>>)
              \/ at = 1 /\ p = <<>> /\ InitialType(at) = DIR
                 /\ (DirIn(nodes, <<>>) \/ \A i \in Slots : ~nodes[i].used)
<1>1. at \in Nat /\ at > 0 BY DEF FsInv, CallType, CallInv
<1>2. at \in 1 .. Len(initial_nodes) BY <1>1, InitialFact
<1>3. at # 1 => DirIn(nodes, <<>>) BY DEF FsInv, RootInv
<1>4. DirIn(nodes, <<>>) \/ \A i \in Slots : ~nodes[i].used BY DEF FsInv, RootInv
<1> QED BY <1>2, <1>3, <1>4, InitialFact

LEMMA TreeStepFact ==
    ASSUME FsInv, StoreStep, pc = "tree", Go("tree", at + 1), UNCHANGED writeVars,
           DirIn(nodes', <<>>)
    PROVE  FsInv'
<1>1. pc' = "tree" /\ at' = at + 1 /\ UNCHANGED <<op, buf, slot, sec>> BY DEF Go, writeVars
<1>2. at \in Nat /\ at' \in Nat /\ at' > 0 BY <1>1 DEF FsInv, CallType
<1>3. CallType' BY <1>1, <1>2 DEF FsInv, CallType
<1>4. filesystem_persistent_backend' BY DEF FsInv, CallInv, StoreStep
<1>5. CallInv' /\ RamBuffer' /\ TransferInv' /\ RootInv'
  BY <1>1, <1>2, <1>4 DEF CallInv, RamBuffer, TransferInv, Transferring, RootInv
<1> QED BY <1>1, <1>3, <1>5, StepFact

LEMMA TreeSkipInv == ASSUME FsInv, TreeSkip PROVE FsInv'
<1>1. /\ pc = "tree" /\ at <= Len(initial_nodes) /\ Exists(InitialNode(at))
      /\ Go("tree", at + 1) /\ Kept /\ UNCHANGED writeVars
  BY DEF TreeSkip
<1>2. DirIn(nodes, <<>>) BY <1>1, TreeRoot, FindFact DEF UsedIn
<1>3. current_directory' \in Path /\ nodes' = nodes
  BY <1>1 DEF FsInv, StoreType, Kept, cacheVars
<1>4. StoreStep BY <1>1, <1>3, KeptFact DEF Kept, cacheVars
<1> QED BY <1>1, <1>2, <1>3, <1>4, TreeStepFact

LEMMA TreeAddInv == ASSUME FsInv, TreeAdd PROVE FsInv'
<1> PICK p, t : p = InitialNode(at) /\ t = InitialType(at) OBVIOUS
<1>1. pc = "tree" /\ at <= Len(initial_nodes) /\ ~Exists(p) /\ find_free_node # NONE
  BY DEF TreeAdd
<1>2. /\ p \in Path /\ t \in Type
      /\ \/ DirIn(nodes, <<>>)
         \/ p = <<>> /\ t = DIR /\ \A i \in Slots : ~nodes[i].used
  BY <1>1, TreeRoot
<1>3. PICK w \in AddOutcomes(p, t) :
        IF w.ok
          THEN AddNode(p, t, w) /\ Go("tree", at + 1) /\ UNCHANGED writeVars
          ELSE /\ disk' = w.disk /\ faults' = faults + 1
               /\ filesystem_persistent_backend' = FALSE
               /\ filesystem_storage_error' = TRUE
               /\ nodes' = RamTree
               /\ EnterHome(RamTree)
               /\ UNCHANGED <<sectors, volume, crashes>>
  BY DEF TreeAdd
<1>4. CASE w.ok
  <2> PICK f : f = find_free_node OBVIOUS
  <2>1. /\ StoreStep /\ f \in Slots
        /\ \A j \in Slots \ {f} : nodes'[j] = nodes[j]
        /\ nodes'[f] = Node(p, t)
        /\ \A q : q # p => (DirIn(nodes', q) <=> DirIn(nodes, q))
    BY <1>1, <1>2, <1>3, <1>4, AddFact
  <2>2. DirIn(nodes', <<>>)
    <3>1. CASE DirIn(nodes, <<>>)
      <4>1. p # <<>> BY <1>1, <3>1, DirUsed, FindFact
      <4> QED BY <2>1, <3>1, <4>1
    <3>2. CASE p = <<>> /\ t = DIR /\ \A i \in Slots : ~nodes[i].used
      <4>1. nodes'[f].used /\ nodes'[f].path = <<>> /\ nodes'[f].type = DIR
        BY <2>1, <3>2 DEF Node
      <4>2. \A j \in Slots : nodes'[j].used => j = f BY <2>1, <3>2
      <4>3. f <= f BY <2>1, SlotsNat
      <4> QED BY <2>1, <4>1, <4>2, <4>3 DEF DirIn
    <3> QED BY <1>2, <3>1, <3>2
  <2> QED BY <1>1, <1>3, <1>4, <2>1, <2>2, TreeStepFact
<1>5. CASE ~w.ok
  <2>1. faults' \in Nat /\ faults' # 0 BY <1>3, <1>5 DEF FsInv, StoreType
  <2>2. disk' \in [Slots -> RecordType]
    <3> PICK i \in Slots : i = find_free_node BY <1>1, FreeFact
    <3> PICK r \in RecordType : r = RecordOf(Node(p, t)) BY <1>2, NodeTypes
    <3>1. w \in RecordWrites(i, r) BY DEF AddOutcomes, persist_node
    <3>2. disk \in [Slots -> RecordType] BY DEF FsInv, StoreType
    <3>3. w.disk \in {disk, [disk EXCEPT ![i] = r]} BY <3>1 DEF RecordWrites
    <3> QED BY <1>3, <1>5, <3>2, <3>3
  <2> QED BY <1>3, <1>5, <2>1, <2>2, RamFact
<1> QED BY <1>4, <1>5

LEMMA TreeFullInv == ASSUME FsInv, TreeFull PROVE FsInv'
<1> PICK p : p = InitialNode(at) OBVIOUS
<1>1. /\ pc = "tree" /\ at <= Len(initial_nodes) /\ ~Exists(p) /\ find_free_node = NONE
      /\ nodes' = RamTree /\ EnterHome(RamTree) /\ filesystem_persistent_backend' = FALSE
      /\ filesystem_storage_error' = TRUE
      /\ UNCHANGED <<disk, sectors, volume, faults, crashes>>
  BY DEF TreeFull, UseRam, diskVars
<1>2. at \in DOMAIN initial_nodes BY <1>1, TreeRoot
<1>3. ASSUME faults = 0
      PROVE  (\A i \in Slots : disk[i].used) /\ OnDisk(disk, sectors, p) = {}
  <2>1. nodes = Loaded BY <1>1, <1>3 DEF FsInv, Mirror, CallInv
  <2>2. \A i \in Slots : disk[i].used BY <1>1, <2>1, NoneFree, LoadedPaths
  <2>3. \A i \in Slots : disk[i].path # p BY <1>1, <2>1, <2>2, LoadedPaths, FindFact DEF UsedIn
  <2> QED BY <2>2, <2>3 DEF OnDisk
<1> QED BY <1>1, <1>2, <1>3, RamFact DEF FsInv, StoreType

LEMMA TreeDoneInv == ASSUME FsInv, TreeDone PROVE FsInv'
<1>1. /\ pc = "tree" /\ at > Len(initial_nodes) /\ EnterHome(nodes)
      /\ UNCHANGED <<nodes, filesystem_persistent_backend, filesystem_storage_error,
                     diskVars, volume, faults, crashes>>
  BY DEF TreeDone
<1>2. at # 1 BY <1>1, InitialFact DEF FsInv, CallType
<1>3. DirIn(nodes, <<>>) BY <1>1, <1>2 DEF FsInv, RootInv
<1>4. current_directory' \in Path /\ Finish BY <1>1, EmptyFact, TableAssumption DEF EnterHome
<1>5. StoreStep BY <1>1, <1>4, KeptFact
<1> QED BY <1>1, <1>3, <1>4, <1>5, FinishFact

LEMMA CrashInv == ASSUME FsInv, Crash PROVE FsInv'
<1>1. /\ nodes' = [i \in Slots |-> FreeNode] /\ current_directory' = <<>>
      /\ filesystem_persistent_backend' = FALSE /\ filesystem_storage_error' = FALSE
      /\ pc' = "off" /\ op' = NoOp /\ at' = 0 /\ buf' = <<>> /\ slot' = NONE /\ sec' = 0
      /\ UNCHANGED <<disk, sectors, volume, faults>> /\ crashes' = crashes + 1
  BY DEF Crash, diskVars
<1>2. crashes' \in Nat BY <1>1 DEF FsInv, StoreType
<1>3. StoreType' BY <1>1, <1>2, NodeTypes, EmptyFact DEF FsInv, StoreType
<1>4. CallType' BY <1>1, NoOpType, EmptySeq DEF CallType
<1>5. CallInv' /\ RamBuffer' /\ TransferInv' /\ RootInv' /\ Mirror' /\ GivenUpInv'
  BY <1>1 DEF CallInv, RamBuffer, TransferInv, Transferring, RootInv, Mirror, GivenUpInv
<1>6. RamSizes' BY <1>1, EmptyFact DEF RamSizes, FreeNode
<1>7. MountInv' BY <1>1 DEF FsInv, MountInv
<1> QED BY <1>3, <1>4, <1>5, <1>6, <1>7 DEF FsInv

LEMMA FsInitInv == ASSUME Init PROVE FsInv
<1>1. Blank \in [1 .. FS_MAX_FILE_SIZE -> Sector \cup {0}] BY DEF Blank
<1>2. volume \in BOOLEAN BY FsBoundsAssumption DEF Init
<1>3. StoreType BY <1>1, <1>2, NodeTypes, EmptyFact DEF Init, StoreType
<1>4. CallType BY NoOpType, EmptySeq DEF Init, CallType
<1>5. CallInv /\ RamBuffer /\ TransferInv /\ RootInv /\ Mirror /\ GivenUpInv
  BY DEF Init, CallInv, RamBuffer, TransferInv, Transferring, RootInv, Mirror, GivenUpInv
<1>6. RamSizes BY EmptyFact DEF Init, RamSizes, FreeNode
<1>7. MountInv BY DEF Init, MountInv, ClearRecord
<1> QED BY <1>3, <1>4, <1>5, <1>6, <1>7 DEF FsInv

LEMMA FsStepInv == FsInv /\ [Next]_vars => FsInv'
<1>1. ASSUME FsInv, Next PROVE FsInv'
  BY <1>1, InitCallInv, TreeSkipInv, TreeAddInv, TreeFullInv, TreeDoneInv, CallsInv, StepsInv, CrashInv
  DEF Next, Mount
<1>2. ASSUME FsInv, UNCHANGED vars PROVE FsInv'
  <2>1. UNCHANGED <<nodes, current_directory, filesystem_persistent_backend,
                    filesystem_storage_error, disk, sectors, buf, slot, sec, pc, op, at, snap,
                    volume, faults, crashes>>
    BY <1>2 DEF vars, cacheVars, diskVars, writeVars, callVars
  <2>2. Loaded' = Loaded BY <2>1 DEF Loaded
  <2> QED BY <1>2, <2>1, <2>2
          DEF FsInv, StoreType, CallType, CallInv, RamSizes, RamBuffer, RootInv, TransferInv,
              Transferring, Mirror, MountInv, GivenUpInv
<1> QED BY <1>1, <1>2

-----------------------------------------------------------------------------
(* The theorems.                                                           *)

\* The table, the disk and the call in progress agree in every reachable
\* state, in the middle of a call and after a fault or a power failure too.
THEOREM FsInvariant == Spec => []FsInv
<1>1. Init => FsInv BY FsInitInv
<1> QED BY <1>1, FsStepInv, PTL DEF Spec

\* A call of filesystem.c that returned without an error is durable: the table
\* in memory is what load_persistent_nodes would read after a restart.  And
\* without a disk fault filesystem_init gives up a volume only when that has
\* no slot for a missing base node.
THEOREM FsMirrorsDisk == Spec => []MirrorsDisk
<1>1. FsInv => MirrorsDisk
  <2> SUFFICES ASSUME FsInv PROVE MirrorsDisk OBVIOUS
  <2>1. TypeOK
    BY DEF FsInv, StoreType, CallType, NodeType, RecordType, TypeOK
  <2>2. pc = "idle" /\ filesystem_persistent_backend /\ ~filesystem_storage_error
          => nodes = Loaded
    BY DEF FsInv, Mirror
  <2>3. pc = "idle" /\ volume /\ faults = 0 /\ ~filesystem_persistent_backend
          => /\ \A i \in Slots : disk[i].used
             /\ \E k \in DOMAIN initial_nodes : OnDisk(disk, sectors, InitialNode(k)) = {}
    BY DEF FsInv, GivenUpInv
  <2> QED BY <2>1, <2>2, <2>3 DEF MirrorsDisk
<1> QED BY <1>1, FsInvariant, PTL

\* The step writes at most one slot of the disk: a free one, or one whose node
\* the call in progress is about.
WritesOwnSlot ==
    \/ UNCHANGED <<disk, sectors>>
    \/ /\ filesystem_persistent_backend
       /\ \E k \in Slots :
            /\ nodes[k].used => Concerns(nodes[k].path)
            /\ \A j \in Slots \ {k} : disk'[j] = disk[j] /\ sectors'[j] = sectors[j]

LEMMA RecordWriteOwn ==
    ASSUME FsInv, NEW k \in Slots, nodes[k].used => Concerns(nodes[k].path),
           NEW r, NEW w \in RecordWrites(k, r), disk' = w.disk, sectors' = sectors
    PROVE  WritesOwnSlot
<1>1. CASE ~filesystem_persistent_backend
  BY <1>1 DEF RecordWrites, WritesOwnSlot
<1>2. CASE filesystem_persistent_backend
  <2>1. w.disk \in {disk, [disk EXCEPT ![k] = r]} BY <1>2 DEF RecordWrites
  <2>2. \A j \in Slots \ {k} : w.disk[j] = disk[j] BY <2>1 DEF FsInv, StoreType
  <2> QED BY <1>2, <2>2 DEF WritesOwnSlot
<1> QED BY <1>1, <1>2

LEMMA AddOwn ==
    ASSUME FsInv, find_free_node # NONE, NEW p, NEW t, NEW w \in AddOutcomes(p, t),
           disk' = w.disk, sectors' = sectors
    PROVE  WritesOwnSlot
<1>1. PICK k \in Slots : k = find_free_node /\ ~nodes[k].used BY FreeFact
<1>2. w \in RecordWrites(k, RecordOf(Node(p, t))) BY <1>1 DEF AddOutcomes, persist_node
<1> QED BY <1>1, <1>2, RecordWriteOwn

\* The slot a file write goes to.
LEMMA DataSlotOwn ==
    ASSUME FsInv, pc = "data"
    PROVE  slot \in Slots /\ Concerns(nodes[slot].path)
  BY DEF FsInv, CallInv, Concerns

LEMMA StepWritesOwn == ASSUME FsInv, Next PROVE WritesOwnSlot
<1>1. CASE Mount
  <2>1. CASE filesystem_init
    BY <2>1 DEF filesystem_init, UseRam, diskVars, WritesOwnSlot
  <2>2. CASE TreeSkip \/ TreeFull \/ TreeDone
    BY <2>2 DEF TreeSkip, TreeFull, TreeDone, UseRam, Kept, diskVars, WritesOwnSlot
  <2>3. CASE TreeAdd
    <3>1. PICK p, t : /\ find_free_node # NONE
                      /\ \E w \in AddOutcomes(p, t) : disk' = w.disk /\ sectors' = sectors
      BY <2>3 DEF TreeAdd, AddNode, Wrote
    <3> QED BY <3>1, AddOwn
  <2> QED BY <1>1, <2>1, <2>2, <2>3 DEF Mount
<1>2. CASE Call
  BY <1>2 DEF Call, filesystem_change_directory, filesystem_create_directory,
              filesystem_create_file, filesystem_remove, ReadFails, filesystem_copy,
              filesystem_move, Transfer, filesystem_write_file, filesystem_append_file, Kept,
              diskVars, WritesOwnSlot
<1>3. CASE Crash BY <1>3 DEF Crash, diskVars, WritesOwnSlot
<1>4. CASE Step
  <2>1. CASE EnsureMake
    <3>1. /\ find_free_node # NONE
          /\ \E w \in AddOutcomes(GapPath, DIR) : disk' = w.disk /\ sectors' = sectors
      BY <2>1 DEF EnsureMake, AddNode, Wrote
    <3> QED BY <3>1, AddOwn
  <2>2. CASE EnsureRefused \/ DirectoryMade \/ RemoveDone \/ TransferChecked \/ CopyDone
             \/ MoveDone \/ RamWrite \/ WriteRefused
    BY <2>2 DEF EnsureRefused, DirectoryMade, RemoveDone, TransferChecked, CopyDone, MoveDone,
                RamWrite, WriteRefused, Kept, diskVars, WritesOwnSlot
  <2>3. CASE FileMade
    <3>1. \/ UNCHANGED <<disk, sectors>>
          \/ /\ find_free_node # NONE
             /\ \E w \in AddOutcomes(op.dst, FILE) : disk' = w.disk /\ sectors' = sectors
      BY <2>3 DEF FileMade, AddNode, Wrote, Kept, diskVars
    <3> QED BY <3>1, AddOwn DEF WritesOwnSlot
  <2>4. CASE RemoveNode
    <3>1. PICK k : k = Least(Inside(op.src, at)) OBVIOUS
    <3>2. /\ pc = "remove" /\ Inside(op.src, at) # {} /\ sectors' = sectors
          /\ \E w \in RecordWrites(k, ClearRecord) : disk' = w.disk
      BY <2>4, <3>1 DEF RemoveNode, clear_persisted_node, Wrote
    <3>3. k \in Slots /\ path_is_inside(op.src, nodes[k].path) BY <3>1, <3>2, InsideNode
    <3>4. Concerns(nodes[k].path) BY <3>2, <3>3 DEF FsInv, CallInv, Concerns
    <3> QED BY <3>2, <3>3, <3>4, RecordWriteOwn
  <2>5. CASE CopyNode
    <3>1. \/ UNCHANGED <<disk, sectors>>
          \/ /\ find_free_node # NONE
             /\ \E p, t : \E w \in AddOutcomes(p, t) : disk' = w.disk /\ sectors' = sectors
      BY <2>5 DEF CopyNode, AddNode, Wrote, Kept, diskVars
    <3> QED BY <3>1, AddOwn DEF WritesOwnSlot
  <2>6. CASE MoveNode
    <3>1. PICK k : k = Least(Inside(op.src, at)) OBVIOUS
    <3>2. /\ pc = "move" /\ Inside(op.src, at) # {} /\ sectors' = sectors
          /\ \E r : \E w \in RecordWrites(k, r) : disk' = w.disk
      BY <2>6, <3>1 DEF MoveNode, persist_node, Wrote
    <3>3. k \in Slots /\ path_is_inside(op.src, nodes[k].path) BY <3>1, <3>2, InsideNode
    <3>4. Concerns(nodes[k].path) BY <3>2, <3>3 DEF FsInv, CallInv, Concerns
    <3> QED BY <3>2, <3>3, <3>4, RecordWriteOwn
  <2>7. CASE WriteSector
    <3>1. /\ pc = "data" /\ filesystem_persistent_backend /\ disk' = disk
          /\ sectors' \in {sectors, [sectors EXCEPT ![slot][sec] = buf[sec]]}
      BY <2>7 DEF WriteSector, WriteAllowed
    <3>2. slot \in Slots /\ Concerns(nodes[slot].path) BY <3>1, DataSlotOwn
    <3>3. \A j \in Slots \ {slot} : sectors'[j] = sectors[j] BY <3>1 DEF FsInv, StoreType
    <3> QED BY <3>1, <3>2, <3>3 DEF WritesOwnSlot
  <2>8. CASE WriteSize
    <3>1. /\ pc = "data" /\ sectors' = sectors
          /\ \E r : \E w \in RecordWrites(slot, r) : disk' = w.disk
      BY <2>8 DEF WriteSize, WriteAllowed, Wrote
    <3>2. slot \in Slots /\ Concerns(nodes[slot].path) BY <3>1, DataSlotOwn
    <3> QED BY <3>1, <3>2, RecordWriteOwn
  <2> QED BY <1>4, <2>1, <2>2, <2>3, <2>4, <2>5, <2>6, <2>7, <2>8
          DEF Step, Ensure, Create, Remove, Copy, Move, WriteFile
<1> QED BY <1>1, <1>2, <1>3, <1>4 DEF Next

\* No step of filesystem.c, a crash or a failing write included, touches on
\* disk the record or the content of a node the call in progress is not about,
\* and nothing at all once the volume is given up for RAM.
THEOREM FsBystandersKept == Spec => BystandersKept
<1> DEFINE Kept1 ==
      \A i \in Slots :
        ~filesystem_persistent_backend \/ (nodes[i].used /\ ~Concerns(nodes[i].path))
          => disk'[i] = disk[i] /\ sectors'[i] = sectors[i]
<1>1. FsInv /\ [Next]_vars => [Kept1]_vars
  <2>1. ASSUME FsInv, Next PROVE Kept1 BY <2>1, StepWritesOwn DEF WritesOwnSlot
  <2> QED BY <2>1
<1> QED BY <1>1, FsInvariant, PTL DEF Spec, BystandersKept
-----------------------------------------------------------------------------
(* Calls cut short.                                                        *)

\* Where a call stands, and the content of directories.
PlaceInv ==
    /\ op.name \in {"write", "append"} => pc = "data"
    /\ op.name = "move" => pc \in {"ensure", "move"}
    /\ pc = "data" => nodes[slot].type = FILE
EmptyIfDir(n) == n.type = DIR => n.size = 0
DirsEmpty == \A i \in Slots : EmptyIfDir(nodes[i]) /\ EmptyIfDir(disk[i])

\* The sectors before the loop counter are new, the others as they were.
WriteInv ==
    op.name \in {"write", "append"} /\ filesystem_persistent_backend =>
      /\ slot = find_node(op.src)
      /\ faults = 0 => Len(buf) <= FS_MAX_FILE_SIZE
      /\ \A k \in 1 .. sec - 1 : k \in DOMAIN buf /\ sectors[slot][k] = buf[k]
      /\ \A k \in sec .. disk[slot].size :
           k \in DOMAIN snap[op.src].data /\ sectors[slot][k] = snap[op.src].data[k]

\* The record of slot i and the content of its file.
Item(d, x, i) == [type |-> d[i].type, data |-> SubSeq(x[i], 1, d[i].size)]

\* Each node of the tree the move began with is in a slot: under its new path
\* behind the loop counter, under its old one before it.
MoveInv ==
    op.name = "move" /\ filesystem_persistent_backend /\ ~filesystem_storage_error =>
      \A p \in DOMAIN snap : path_is_inside(op.src, p) =>
        \E i \in Slots :
          /\ disk[i].used /\ Item(disk, sectors, i) = snap[p]
          /\ disk[i].path = IF pc = "move" /\ i < at THEN Retarget(op.src, op.dst, p) ELSE p

CutInv == PlaceInv /\ DirsEmpty /\ WriteInv /\ MoveInv

\* A write is at its data, a move at its directories or its loop.
LEMMA OpPlace ==
    ASSUME FsInv, PlaceInv, Next
    PROVE  /\ op'.name \in {"write", "append"} => pc' = "data"
           /\ op'.name = "move" => pc' \in {"ensure", "move"}
<1>1. ASSUME Finish
      PROVE  op'.name \notin {"write", "append", "move"}
  BY <1>1 DEF Finish, NoOp
<1>2. CASE Mount
  BY <1>1, <1>2 DEF Mount, filesystem_init, TreeSkip, TreeAdd, TreeFull, TreeDone, UseRam,
                    EnterHome, Go, PlaceInv
<1>3. CASE Call
  BY <1>3 DEF Call, filesystem_change_directory, filesystem_create_directory,
              filesystem_create_file, filesystem_remove, ReadFails, filesystem_copy,
              filesystem_move, Transfer, filesystem_write_file, filesystem_append_file, Begin,
              StartWrite, PlaceInv
<1>4. CASE Crash BY <1>4 DEF Crash, NoOp
<1>5. CASE Step
  <2>1. CASE Ensure \/ Create \/ Remove
    BY <1>1, <2>1 DEF Ensure, EnsureMake, EnsureRefused, Create, DirectoryMade, FileMade,
                      Remove, RemoveNode, RemoveDone, callVars, Go, PlaceInv
  <2>2. CASE Copy \/ Move
    BY <1>1, <2>2 DEF Copy, TransferChecked, CopyNode, CopyDone, Move, MoveNode, MoveDone,
                      Go, Ensured, FsInv, CallInv, PlaceInv
  <2>3. CASE WriteFile
    BY <1>1, <2>3 DEF WriteFile, RamWrite, WriteRefused, WriteSector, WriteSize, WriteAllowed,
                      DiskWriteFails, WriteReturns, callVars, Go, FsInv, CallInv, PlaceInv
  <2> QED BY <1>5, <2>1, <2>2, <2>3 DEF Step
<1> QED BY <1>2, <1>3, <1>4, <1>5 DEF Next

\* A node or record is added or written.
LEMMA AddKeepsEmpty ==
    ASSUME FsInv, DirsEmpty, find_free_node # NONE, NEW p \in Path, NEW t \in Type,
           NEW w \in AddOutcomes(p, t), AddNode(p, t, w)
    PROVE  DirsEmpty'
<1> PICK f : f = find_free_node OBVIOUS
<1> PICK r : r = RecordOf(Node(p, t)) OBVIOUS
<1>1. f \in Slots BY FreeFact
<1>2. w \in RecordWrites(f, r) BY DEF AddOutcomes, persist_node
<1>3. disk' \in {disk, [disk EXCEPT ![f] = r]} BY <1>2 DEF RecordWrites, AddNode, Wrote
<1>4. nodes' = [nodes EXCEPT ![f] = IF w.ok THEN Node(p, t) ELSE FreeNode] BY DEF AddNode
<1>5. EmptyIfDir(Node(p, t)) /\ EmptyIfDir(FreeNode) /\ EmptyIfDir(r)
  BY DEF EmptyIfDir, Node, FreeNode, RecordOf
<1>6. nodes \in [Slots -> NodeType] /\ disk \in [Slots -> RecordType] BY DEF FsInv, StoreType
<1>7. \A i \in Slots : EmptyIfDir(nodes'[i]) BY <1>1, <1>4, <1>5, <1>6 DEF DirsEmpty
<1>8. \A i \in Slots : EmptyIfDir(disk'[i]) BY <1>1, <1>3, <1>5, <1>6 DEF DirsEmpty
<1> QED BY <1>7, <1>8 DEF DirsEmpty

LEMMA RecordKeepsEmpty ==
    ASSUME FsInv, DirsEmpty, NEW i \in Slots, NEW r, NEW n, NEW w \in RecordWrites(i, r), Wrote(w),
           EmptyIfDir(r), EmptyIfDir(n), nodes' \in {nodes, [nodes EXCEPT ![i] = n]}
    PROVE  DirsEmpty'
<1>1. disk' \in {disk, [disk EXCEPT ![i] = r]} BY DEF RecordWrites, Wrote
<1>2. nodes \in [Slots -> NodeType] /\ disk \in [Slots -> RecordType] BY DEF FsInv, StoreType
<1>3. \A j \in Slots : EmptyIfDir(nodes'[j]) BY <1>2 DEF DirsEmpty
<1>4. \A j \in Slots : EmptyIfDir(disk'[j]) BY <1>1, <1>2 DEF DirsEmpty
<1> QED BY <1>3, <1>4 DEF DirsEmpty

LEMMA SameEmpty == ASSUME DirsEmpty, UNCHANGED <<nodes, disk>> PROVE DirsEmpty'
  BY DEF DirsEmpty

LEMMA RamEmpty == ASSUME DirsEmpty, nodes' = RamTree, disk' = disk PROVE DirsEmpty'
  BY DEF DirsEmpty, RamTree, EmptyIfDir, Node, FreeNode

\* What the loops of the calls read.
LEMMA InitialAdd ==
    ASSUME FsInv, pc = "tree", at <= Len(initial_nodes)
    PROVE  InitialNode(at) \in Path /\ InitialType(at) \in Type
<1>1. at \in 1 .. Len(initial_nodes)
  BY TableAssumption, LenProperties DEF FsInv, CallType, CallInv
<1>2. initial_nodes[at] \in Path \X Type BY <1>1, TableAssumption, ElementOfSeq
<1> QED BY <1>2 DEF InitialNode, InitialType

\* DirsEmpty, step by step.
LEMMA EmptyKept == ASSUME FsInv, PlaceInv, DirsEmpty, Next PROVE DirsEmpty'
<1>1. CASE Mount
  <2>1. CASE filesystem_init
    <3>1. \/ nodes' = RamTree /\ disk' = disk
          \/ nodes' = Loaded /\ disk' = disk
      BY <2>1 DEF filesystem_init, UseRam, diskVars
    <3>2. ASSUME nodes' = Loaded, disk' = disk PROVE DirsEmpty'
      BY <3>2 DEF DirsEmpty, Loaded, EmptyIfDir, Node, FreeNode
    <3> QED BY <3>1, <3>2, RamEmpty
  <2>2. CASE TreeSkip \/ TreeDone
    BY <2>2, SameEmpty DEF TreeSkip, TreeDone, Kept, cacheVars, diskVars
  <2>3. CASE TreeFull BY <2>3, RamEmpty DEF TreeFull, UseRam, diskVars
  <2>4. CASE TreeAdd
    <3> PICK p, t : p = InitialNode(at) /\ t = InitialType(at) OBVIOUS
    <3>1. p \in Path /\ t \in Type BY <2>4, InitialAdd DEF TreeAdd
    <3>2. find_free_node # NONE BY <2>4 DEF TreeAdd
    <3>3. PICK w \in AddOutcomes(p, t) :
            IF w.ok THEN AddNode(p, t, w) ELSE disk' = w.disk /\ nodes' = RamTree
      BY <2>4 DEF TreeAdd
    <3>4. CASE w.ok BY <3>1, <3>2, <3>3, <3>4, AddKeepsEmpty
    <3>5. CASE ~w.ok
      <4> PICK f : f = find_free_node OBVIOUS
      <4> PICK r : r = RecordOf(Node(p, t)) OBVIOUS
      <4>1. f \in Slots BY <3>2, FreeFact
      <4>2. disk' \in {disk, [disk EXCEPT ![f] = r]}
        BY <3>3, <3>5 DEF AddOutcomes, persist_node, RecordWrites
      <4>3. EmptyIfDir(r) BY DEF EmptyIfDir, Node, RecordOf
      <4>4. disk \in [Slots -> RecordType] BY DEF FsInv, StoreType
      <4>5. \A i \in Slots : EmptyIfDir(disk'[i]) BY <4>1, <4>2, <4>3, <4>4 DEF DirsEmpty
      <4>6. \A i \in Slots : EmptyIfDir(nodes'[i])
        BY <3>3, <3>5 DEF RamTree, EmptyIfDir, Node, FreeNode
      <4> QED BY <4>5, <4>6 DEF DirsEmpty
    <3> QED BY <3>4, <3>5
  <2> QED BY <1>1, <2>1, <2>2, <2>3, <2>4 DEF Mount
<1>2. CASE Call
  BY <1>2, SameEmpty
  DEF Call, filesystem_change_directory, filesystem_create_directory, filesystem_create_file,
      filesystem_remove, ReadFails, filesystem_copy, filesystem_move, Transfer,
      filesystem_write_file, filesystem_append_file, Kept, cacheVars, diskVars
<1>3. CASE Crash
  BY <1>3 DEF Crash, diskVars, DirsEmpty, FreeNode, EmptyIfDir
<1>4. CASE Step
  <2>1. CASE EnsureMake
    <3> PICK p : p = GapPath OBVIOUS
    <3>1. p \in Path BY <2>1, GapFact DEF EnsureMake
    <3>2. find_free_node # NONE /\ \E w \in AddOutcomes(p, DIR) : AddNode(p, DIR, w)
      BY <2>1 DEF EnsureMake
    <3> QED BY <3>1, <3>2, AddKeepsEmpty, NodeTypes
  <2>2. CASE EnsureRefused \/ DirectoryMade \/ RemoveDone \/ TransferChecked \/ CopyDone
             \/ MoveDone \/ WriteRefused \/ WriteSector
    BY <2>2, SameEmpty
    DEF EnsureRefused, DirectoryMade, RemoveDone, TransferChecked, CopyDone, MoveDone,
        WriteRefused, WriteSector, Kept, cacheVars, diskVars
  <2>3. CASE FileMade
    <3>1. \/ Kept
          \/ find_free_node # NONE /\ \E w \in AddOutcomes(op.dst, FILE) : AddNode(op.dst, FILE, w)
      BY <2>3 DEF FileMade
    <3>2. op.dst \in Path BY DEF FsInv, CallType
    <3> QED BY <3>1, <3>2, AddKeepsEmpty, SameEmpty, NodeTypes DEF Kept, cacheVars, diskVars
  <2>4. CASE RemoveNode
    <3> PICK i : i = Least(Inside(op.src, at)) OBVIOUS
    <3>1. i \in Slots BY <2>4, InsideNode DEF RemoveNode
    <3>2. PICK w \in RecordWrites(i, ClearRecord) :
            Wrote(w) /\ nodes' \in {nodes, [nodes EXCEPT ![i] = FreeNode]}
      BY <2>4 DEF RemoveNode, clear_persisted_node
    <3>3. EmptyIfDir(ClearRecord) /\ EmptyIfDir(FreeNode)
      BY DEF EmptyIfDir, ClearRecord, FreeNode
    <3> QED BY <3>1, <3>2, <3>3, RecordKeepsEmpty
  <2>5. CASE CopyNode
    <3> PICK i : i = Least(Inside(op.src, at)) OBVIOUS
    <3> PICK q : q = Retarget(op.src, op.dst, nodes[i].path) OBVIOUS
    <3> PICK t : t = nodes[i].type OBVIOUS
    <3>1. pc = "copy" /\ Inside(op.src, at) # {} BY <2>5 DEF CopyNode
    <3>2. i \in Slots /\ nodes[i].used /\ path_is_inside(op.src, nodes[i].path)
      BY <3>1, InsideNode
    <3>3. q \in Path BY <3>1, <3>2, TargetFact DEF Transferring
    <3>4. t \in Type BY <3>2 DEF FsInv, StoreType, NodeType
    <3>5. \/ UNCHANGED <<nodes, disk>>
          \/ find_free_node # NONE /\ \E w \in AddOutcomes(q, t) : AddNode(q, t, w)
      BY <2>5 DEF CopyNode, Kept, cacheVars, diskVars
    <3> QED BY <3>3, <3>4, <3>5, AddKeepsEmpty, SameEmpty
  <2>6. CASE MoveNode
    <3> PICK i : i = Least(Inside(op.src, at)) OBVIOUS
    <3> PICK n : n = [nodes[i] EXCEPT !.path = Retarget(op.src, op.dst, @)] OBVIOUS
    <3>1. i \in Slots BY <2>6, InsideNode DEF MoveNode
    <3>2. PICK w \in RecordWrites(i, RecordOf(n)) :
            Wrote(w) /\ nodes' \in {nodes, [nodes EXCEPT ![i] = n]}
      BY <2>6 DEF MoveNode, persist_node
    <3>3. nodes[i] \in NodeType /\ EmptyIfDir(nodes[i]) BY <3>1 DEF FsInv, StoreType, DirsEmpty
    <3>4. n.type = nodes[i].type /\ n.size = nodes[i].size BY <3>3 DEF NodeType
    <3>5. EmptyIfDir(n) /\ EmptyIfDir(RecordOf(n)) BY <3>3, <3>4 DEF EmptyIfDir, RecordOf
    <3> QED BY <3>1, <3>2, <3>5, RecordKeepsEmpty
  <2>7. CASE RamWrite
    <3>1. /\ pc = "data" /\ disk' = disk
          /\ nodes' \in {nodes, [nodes EXCEPT ![slot].ram = buf, ![slot].size = Len(buf)]}
      BY <2>7 DEF RamWrite, diskVars
    <3>2. slot \in Slots /\ nodes[slot].type = FILE /\ nodes \in [Slots -> NodeType]
      BY <3>1 DEF FsInv, StoreType, CallInv, PlaceInv
    <3> PICK n : n = [nodes[slot] EXCEPT !.ram = buf, !.size = Len(buf)] OBVIOUS
    <3>3. nodes' \in {nodes, [nodes EXCEPT ![slot] = n]} BY <3>1, <3>2
    <3>4. nodes[slot] \in NodeType BY <3>2
    <3>5. n.type = FILE BY <3>2, <3>4 DEF NodeType
    <3>6. EmptyIfDir(n) BY <3>5 DEF EmptyIfDir, DIR, FILE
    <3>7. \A j \in Slots : EmptyIfDir(nodes'[j]) BY <3>2, <3>3, <3>6 DEF DirsEmpty
    <3> QED BY <3>1, <3>7 DEF DirsEmpty
  <2>8. CASE WriteSize
    <3> PICK k : k = Len(buf) OBVIOUS
    <3> PICK r : r = [disk[slot] EXCEPT !.size = k] OBVIOUS
    <3> PICK n : n = [nodes[slot] EXCEPT !.size = k] OBVIOUS
    <3>1. pc = "data" /\ disk[slot].type = FILE BY <2>8 DEF WriteSize, WriteAllowed, Readable
    <3>2. /\ slot \in Slots /\ nodes[slot].type = FILE
          /\ nodes \in [Slots -> NodeType] /\ disk \in [Slots -> RecordType]
      BY <3>1 DEF FsInv, StoreType, CallInv, PlaceInv
    <3>3. PICK w \in RecordWrites(slot, r) :
            Wrote(w) /\ nodes' \in {nodes, [nodes EXCEPT ![slot] = n]}
      BY <2>8, <3>2 DEF WriteSize
    <3>4. nodes[slot] \in NodeType /\ disk[slot] \in RecordType BY <3>2
    <3>5. n.type = FILE /\ r.type = FILE BY <3>1, <3>2, <3>4 DEF NodeType, RecordType
    <3>6. EmptyIfDir(n) /\ EmptyIfDir(r) BY <3>5 DEF EmptyIfDir, DIR, FILE
    <3> QED BY <3>2, <3>3, <3>6, RecordKeepsEmpty
  <2> QED BY <1>4, <2>1, <2>2, <2>3, <2>4, <2>5, <2>6, <2>7, <2>8
          DEF Step, Ensure, Create, Remove, Copy, Move, WriteFile
<1> QED BY <1>1, <1>2, <1>3, <1>4 DEF Next

\* The slot of a file write holds a file.
LEMMA DataPlace == ASSUME FsInv, PlaceInv, Next, pc' = "data" PROVE nodes'[slot'].type = FILE
<1>1. CASE Mount \/ Crash \/ Ensure \/ Create \/ Remove \/ Move
  BY <1>1 DEF Mount, filesystem_init, TreeSkip, TreeAdd, TreeFull, TreeDone, UseRam, EnterHome,
              Crash, Ensure, EnsureMake, EnsureRefused, Create, DirectoryMade, FileMade, Remove,
              RemoveNode, RemoveDone, Move, MoveNode, MoveDone, Ensured, Finish, Go, callVars
<1>2. CASE Call
  <2>1. \E p : IsFile(p) /\ slot' = find_node(p) /\ nodes' = nodes
    BY <1>2 DEF Call, filesystem_change_directory, filesystem_create_directory,
                filesystem_create_file, filesystem_remove, ReadFails, filesystem_copy,
                filesystem_move, Transfer, filesystem_write_file, filesystem_append_file, Begin,
                StartWrite, Kept, cacheVars
  <2> QED BY <2>1 DEF IsFile
<1>3. CASE Copy
  <2> PICK i : i = Least(Inside(op.src, at)) OBVIOUS
  <2> PICK f : f = find_free_node OBVIOUS
  <2>1. CopyNode BY <1>3 DEF Copy, TransferChecked, CopyDone, Ensured, FsInv, CallInv, Finish, Go
  <2>2. PICK q, w : /\ nodes[i].type = FILE /\ slot' = f /\ f # NONE
                    /\ nodes' = [nodes EXCEPT ![f] = Node(q, FILE)]
    BY <2>1 DEF CopyNode, Finish, Go, AddNode
  <2>3. f \in Slots BY <2>2, FreeFact
  <2> QED BY <2>2, <2>3 DEF FsInv, StoreType, Node
<1>4. CASE WriteFile
  BY <1>4 DEF WriteFile, RamWrite, WriteRefused, WriteSector, WriteSize, WriteAllowed,
              DiskWriteFails, WriteReturns, Finish, Go, PlaceInv
<1> QED BY <1>1, <1>2, <1>3, <1>4 DEF Next, Step

LEMMA PlaceKept == ASSUME FsInv, PlaceInv, Next PROVE PlaceInv'
  BY OpPlace, DataPlace DEF PlaceInv

-----------------------------------------------------------------------------
(* A file write cut short.                                                 *)

\* The tree that a call begins with, at the path of a node.
LEMMA SeenFact ==
    ASSUME FsInv, NEW p, Exists(p)
    PROVE  /\ p \in DOMAIN Tree
           /\ Tree[p].type = nodes[find_node(p)].type
           /\ Tree[p].data = IF IsFile(p) THEN Stored(find_node(p)) ELSE <<>>
<1>1. p \in {nodes[i].path : i \in {j \in Slots : nodes[j].used}} BY FindFact
<1> QED BY <1>1 DEF Tree

\* Without an error the records are what the table says.
LEMMA MirroredNode ==
    ASSUME FsInv, filesystem_persistent_backend, faults = 0 \/ ~filesystem_storage_error,
           NEW i \in Slots
    PROVE  /\ nodes[i] = Entry(disk[i])
           /\ disk[i].used <=> nodes[i].used
           /\ nodes[i].used => /\ disk[i].path = nodes[i].path /\ disk[i].type = nodes[i].type
                               /\ disk[i].size = nodes[i].size
<1>1. nodes[i] = Entry(disk[i]) BY LoadedFact DEF FsInv, Mirror
<1> QED BY <1>1 DEF Entry, Node, FreeNode

\* The part of a slot's sectors that is its content.
LEMMA ContentOf ==
    ASSUME FsInv, NEW i \in Slots
    PROVE  /\ DOMAIN SubSeq(sectors[i], 1, disk[i].size) = 1 .. disk[i].size
           /\ disk[i].size \in 0 .. FS_MAX_FILE_SIZE
           /\ Len(SubSeq(sectors[i], 1, disk[i].size)) = disk[i].size
           /\ \A k \in 1 .. disk[i].size : SubSeq(sectors[i], 1, disk[i].size)[k] = sectors[i][k]
<1> PICK m : m = disk[i].size OBVIOUS
<1>1. m \in 0 .. FS_MAX_FILE_SIZE BY DEF FsInv, StoreType, RecordType
<1> PICK S : S = Sector \cup {0} OBVIOUS
<1>2. \A k \in 1 .. m : sectors[i][k] \in S BY <1>1, TableAssumption DEF FsInv, StoreType
<1>3. m \in Int /\ 1 \in Int /\ m >= 0 BY <1>1
<1>4. /\ SubSeq(sectors[i], 1, m) \in Seq(S)
      /\ Len(SubSeq(sectors[i], 1, m)) = IF 1 <= m THEN m - 1 + 1 ELSE 0
      /\ \A k \in 1 .. m - 1 + 1 : SubSeq(sectors[i], 1, m)[k] = sectors[i][1 + k - 1]
  BY <1>2, <1>3, SubSeqProperties
<1>5. Len(SubSeq(sectors[i], 1, m)) = m BY <1>3, <1>4
<1>6. DOMAIN SubSeq(sectors[i], 1, m) = 1 .. m BY <1>4, <1>5, LenProperties
<1>7. \A k \in 1 .. m : k \in 1 .. m - 1 + 1 /\ 1 + k - 1 = k BY <1>3
<1> QED BY <1>1, <1>4, <1>5, <1>6, <1>7

\* What a write that begins writes fits while no disk fault happened.
LEMMA WriteFits ==
    ASSUME FsInv, filesystem_persistent_backend, faults = 0, NEW i \in Slots, nodes[i].used,
           NEW c \in Datas, nodes[i].size + Len(c) <= FS_MAX_FILE_SIZE
    PROVE  Len(Stored(i) \o c) <= FS_MAX_FILE_SIZE
<1>1. nodes[i].size = disk[i].size BY MirroredNode
<1>2. Len(Stored(i)) = disk[i].size BY ContentOf DEF Stored
<1>3. Stored(i) \in Seq(Sector \cup {0}) BY StoredFact, ContentFact
<1>4. c \in Seq(Sector \cup {0}) BY DataFact
<1>5. Len(Stored(i) \o c) = Len(Stored(i)) + Len(c) BY <1>3, <1>4, ConcatProperties
<1> QED BY <1>1, <1>2, <1>5

\* A file write begins, or writes its next sector, or is over.
LEMMA WriteSteps ==
    ASSUME FsInv, PlaceInv, Next, op'.name \in {"write", "append"},
           filesystem_persistent_backend'
    PROVE  /\ UNCHANGED <<nodes, disk, filesystem_persistent_backend>>
           /\ \/ /\ IsFile(op'.src) /\ slot' = find_node(op'.src) /\ sec' = 1 /\ snap' = Tree
                 /\ UNCHANGED <<sectors, faults>>
                 /\ faults = 0 => Len(buf') <= FS_MAX_FILE_SIZE
              \/ /\ WriteAllowed /\ sec <= Len(buf) /\ sec' = sec + 1
                 /\ sectors' = [sectors EXCEPT ![slot][sec] = buf[sec]]
                 /\ UNCHANGED <<pc, op, at, snap, buf, slot, faults>>
<1>0. pc' = "data" BY OpPlace
<1>1. ASSUME Mount \/ Crash \/ Ensure \/ Create \/ Remove \/ Move \/ Copy PROVE FALSE
  BY <1>0, <1>1
  DEF Mount, filesystem_init, TreeSkip, TreeAdd, TreeFull, TreeDone, UseRam, EnterHome,
      Crash, Ensure, EnsureMake, EnsureRefused, Create, DirectoryMade, FileMade, Remove,
      RemoveNode, RemoveDone, Move, MoveNode, MoveDone, Ensured, Finish, Go, callVars, NoOp,
      Copy, TransferChecked, CopyNode, CopyDone, FsInv, CallInv
<1>2. CASE Call
  <2>1. PICK p \in Path, c \in Datas : filesystem_write_file(p, c) \/ filesystem_append_file(p, c)
    BY <1>0, <1>2 DEF Call, filesystem_change_directory, filesystem_create_directory,
                filesystem_create_file, filesystem_remove, ReadFails, filesystem_copy,
                filesystem_move, Transfer, PlaceInv
  <2>2. /\ IsFile(p) /\ op'.src = p /\ slot' = find_node(p) /\ sec' = 1 /\ snap' = Tree
        /\ Kept
    BY <2>1 DEF filesystem_write_file, filesystem_append_file, Begin, StartWrite
  <2>3. UNCHANGED <<nodes, disk, sectors, faults, filesystem_persistent_backend>>
    BY <2>2 DEF Kept, cacheVars, diskVars
  <2> PICK i : i = find_node(p) OBVIOUS
  <2>4. i \in Slots /\ nodes[i].used BY <2>2, FindFact DEF IsFile
  <2>5. ASSUME faults = 0 PROVE Len(buf') <= FS_MAX_FILE_SIZE
    <3>1. CASE filesystem_write_file(p, c) BY <3>1 DEF filesystem_write_file, StartWrite
    <3>2. CASE filesystem_append_file(p, c)
      <4>1. nodes[i].size + Len(c) <= FS_MAX_FILE_SIZE /\ buf' = Stored(i) \o c
        BY <3>2 DEF filesystem_append_file, StartWrite
      <4> QED BY <2>3, <2>4, <2>5, <4>1, WriteFits
    <3> QED BY <2>1, <3>1, <3>2
  <2> QED BY <2>2, <2>3, <2>5
<1>3. CASE WriteFile
  <2>1. /\ WriteSector /\ sec <= Len(buf) /\ sec' = sec + 1
        /\ sectors' = [sectors EXCEPT ![slot][sec] = buf[sec]]
        /\ UNCHANGED <<filesystem_storage_error, callVars, buf, slot, faults>>
    BY <1>0, <1>3 DEF WriteFile, RamWrite, WriteRefused, WriteSector, WriteSize,
                      DiskWriteFails, WriteReturns, Finish, Go, NoOp
  <2> QED BY <2>1 DEF WriteSector, callVars
<1> QED BY <1>1, <1>2, <1>3 DEF Next, Step

LEMMA WriteKept == ASSUME FsInv, PlaceInv, WriteInv, Next PROVE WriteInv'
<1> SUFFICES ASSUME op'.name \in {"write", "append"}, filesystem_persistent_backend'
             PROVE  /\ slot' = find_node(op.src)'
                    /\ faults' = 0 => Len(buf') <= FS_MAX_FILE_SIZE
                    /\ \A k \in 1 .. sec' - 1 : k \in DOMAIN buf' /\ sectors'[slot'][k] = buf'[k]
                    /\ \A k \in sec' .. disk'[slot'].size :
                         /\ k \in DOMAIN snap'[op'.src].data
                         /\ sectors'[slot'][k] = snap'[op'.src].data[k]
  BY DEF WriteInv
<1>1. UNCHANGED <<nodes, disk, filesystem_persistent_backend>> BY WriteSteps
<1>2. find_node(op.src)' = find_node(op'.src) BY <1>1 DEF find_node
<1>3. CASE /\ IsFile(op'.src) /\ slot' = find_node(op'.src) /\ sec' = 1 /\ snap' = Tree
           /\ UNCHANGED <<sectors, faults>>
           /\ faults = 0 => Len(buf') <= FS_MAX_FILE_SIZE
  <2> PICK p : p = op'.src OBVIOUS
  <2> PICK i : i = find_node(p) OBVIOUS
  <2>1. Exists(p) /\ i \in Slots BY <1>3, FindFact DEF IsFile
  <2>2. snap'[p].data = SubSeq(sectors[i], 1, disk[i].size)
    BY <1>1, <1>3, <2>1, SeenFact DEF Stored
  <2>3. \A k \in 1 .. disk[i].size :
          k \in DOMAIN snap'[p].data /\ sectors[i][k] = snap'[p].data[k]
    BY <2>1, <2>2, ContentOf
  <2>4. 1 .. sec' - 1 = {} BY <1>3
  <2> QED BY <1>1, <1>2, <1>3, <2>3, <2>4
<1>4. CASE /\ WriteAllowed /\ sec <= Len(buf) /\ sec' = sec + 1
           /\ sectors' = [sectors EXCEPT ![slot][sec] = buf[sec]]
           /\ UNCHANGED <<pc, op, at, snap, buf, slot, faults>>
  <2>1. /\ slot = find_node(op.src)
        /\ faults = 0 => Len(buf) <= FS_MAX_FILE_SIZE
        /\ \A k \in 1 .. sec - 1 : k \in DOMAIN buf /\ sectors[slot][k] = buf[k]
        /\ \A k \in sec .. disk[slot].size :
             /\ k \in DOMAIN snap[op.src].data /\ sectors[slot][k] = snap[op.src].data[k]
    BY <1>1, <1>4 DEF WriteInv
  <2>2. /\ sectors \in [Slots -> [1 .. FS_MAX_FILE_SIZE -> Sector \cup {0}]] /\ slot \in Slots
        /\ sec \in Nat /\ sec > 0 /\ buf \in Seq(Sector \cup {0}) /\ disk[slot].size \in Nat
    BY <1>4 DEF FsInv, StoreType, CallType, CallInv, WriteAllowed, RecordType
  <2>3. Len(buf) \in Nat /\ Len(buf) <= FS_MAX_FILE_SIZE /\ DOMAIN buf = 1 .. Len(buf)
    BY <1>4, <2>2, LenProperties DEF WriteAllowed
  <2>4. sec \in 1 .. FS_MAX_FILE_SIZE /\ sec \in DOMAIN buf
    BY <1>4, <2>2, <2>3, TableAssumption
  <2>5. sectors'[slot] = [sectors[slot] EXCEPT ![sec] = buf[sec]] BY <1>4, <2>2
  <2>6. sectors'[slot][sec] = buf[sec] BY <2>2, <2>4, <2>5
  <2>7. \A k : k # sec => sectors'[slot][k] = sectors[slot][k] BY <2>2, <2>5
  <2>8. \A k \in 1 .. sec' - 1 : k = sec \/ k \in 1 .. sec - 1 BY <1>4, <2>2
  <2>9. \A k \in sec' .. disk[slot].size : k # sec /\ k \in sec .. disk[slot].size
    BY <1>4, <2>2
  <2> QED BY <1>1, <1>2, <1>4, <2>1, <2>4, <2>6, <2>7, <2>8, <2>9
<1> QED BY <1>3, <1>4, WriteSteps

\* A step of a file write.
LEMMA WritingSteps ==
    ASSUME FsInv, Next, pc = "data", filesystem_persistent_backend
    PROVE  \/ UNCHANGED <<disk, sectors>>
           \/ /\ sec <= Len(buf) /\ disk' = disk
              /\ sectors' \in {sectors, [sectors EXCEPT ![slot][sec] = buf[sec]]}
           \/ /\ sec > Len(buf) /\ sectors' = sectors
              /\ disk' \in {disk, [disk EXCEPT ![slot] = [disk[slot] EXCEPT !.size = Len(buf)]]}
<1>1. ASSUME Mount \/ Call \/ Ensure \/ Create \/ Remove \/ Copy \/ Move PROVE FALSE
  BY <1>1 DEF Mount, filesystem_init, TreeSkip, TreeAdd, TreeFull, TreeDone, Call,
              filesystem_change_directory, filesystem_create_directory, filesystem_create_file,
              filesystem_remove, ReadFails, filesystem_copy, filesystem_move, Transfer,
              filesystem_write_file, filesystem_append_file, Begin, Ensure, EnsureMake,
              EnsureRefused, Create, DirectoryMade, FileMade, Remove, RemoveNode, RemoveDone,
              Copy, TransferChecked, CopyNode, CopyDone, Move, MoveNode, MoveDone, Ensured
<1>2. CASE Crash BY <1>2 DEF Crash, diskVars
<1>3. CASE WriteFile
  <2>1. CASE RamWrite \/ WriteRefused BY <2>1 DEF RamWrite, WriteRefused, diskVars
  <2>2. CASE WriteSector BY <2>2 DEF WriteSector
  <2>3. CASE WriteSize
    <3> PICK r : r = [disk[slot] EXCEPT !.size = Len(buf)] OBVIOUS
    <3>1. sec > Len(buf) /\ sectors' = sectors /\ \E w \in RecordWrites(slot, r) : disk' = w.disk
      BY <2>3 DEF WriteSize, Wrote
    <3>2. disk' \in {disk, [disk EXCEPT ![slot] = r]} BY <3>1 DEF RecordWrites
    <3> QED BY <3>1, <3>2
  <2> QED BY <1>3, <2>1, <2>2, <2>3 DEF WriteFile
<1> QED BY <1>1, <1>2, <1>3 DEF Next, Step

LEMMA TornStep ==
    ASSUME FsInv, PlaceInv, WriteInv, Next, op.name \in {"write", "append"},
           filesystem_persistent_backend
    PROVE  /\ pc = "data" /\ faults = 0 => Len(buf) <= FS_MAX_FILE_SIZE
           /\ \A k \in 1 .. disk'[find_node(op.src)].size :
                \/ /\ k \in DOMAIN snap[op.src].data
                   /\ sectors'[find_node(op.src)][k] = snap[op.src].data[k]
                \/ k \in DOMAIN buf /\ sectors'[find_node(op.src)][k] = buf[k]
<1>1. /\ pc = "data" /\ slot = find_node(op.src)
      /\ faults = 0 => Len(buf) <= FS_MAX_FILE_SIZE
      /\ \A k \in 1 .. sec - 1 : k \in DOMAIN buf /\ sectors[slot][k] = buf[k]
      /\ \A k \in sec .. disk[slot].size :
           /\ k \in DOMAIN snap[op.src].data /\ sectors[slot][k] = snap[op.src].data[k]
  BY DEF PlaceInv, WriteInv
<1>2. /\ sectors \in [Slots -> [1 .. FS_MAX_FILE_SIZE -> Sector \cup {0}]]
      /\ disk \in [Slots -> RecordType] /\ slot \in Slots
      /\ sec \in Nat /\ sec > 0 /\ buf \in Seq(Sector \cup {0})
  BY <1>1 DEF FsInv, StoreType, CallType, CallInv
<1>3. Len(buf) \in Nat /\ DOMAIN buf = 1 .. Len(buf) BY <1>2, LenProperties
<1> DEFINE Mixed(x, k) == \/ k \in DOMAIN snap[op.src].data /\ x[k] = snap[op.src].data[k]
                          \/ k \in DOMAIN buf /\ x[k] = buf[k]
<1>4. disk[slot] \in RecordType /\ disk[slot].size \in Nat BY <1>2, TableAssumption DEF RecordType
<1>5. \A k \in 1 .. disk[slot].size : k \in 1 .. sec - 1 \/ k \in sec .. disk[slot].size
  BY <1>2, <1>4
<1>6. \A k \in 1 .. disk[slot].size : Mixed(sectors[slot], k) BY <1>1, <1>5
<1>7. \A k \in 1 .. disk'[slot].size : Mixed(sectors'[slot], k)
  <2>1. CASE UNCHANGED <<disk, sectors>> BY <1>6, <2>1
  <2>2. CASE /\ sec <= Len(buf) /\ disk' = disk
             /\ sectors' = [sectors EXCEPT ![slot][sec] = buf[sec]]
    <3>1. sectors'[slot] = [sectors[slot] EXCEPT ![sec] = buf[sec]] BY <1>2, <2>2
    <3>2. \A k : k # sec => sectors'[slot][k] = sectors[slot][k] BY <1>2, <3>1
    <3>3. sec \in DOMAIN buf BY <1>2, <1>3, <2>2
    <3>4. ASSUME sec \in 1 .. disk[slot].size PROVE sectors'[slot][sec] = buf[sec]
      <4>1. disk[slot].size <= FS_MAX_FILE_SIZE BY <1>2 DEF RecordType
      <4>2. sec \in 1 .. FS_MAX_FILE_SIZE BY <1>4, <3>4, <4>1, TableAssumption
      <4> QED BY <1>2, <3>1, <4>2
    <3> QED BY <1>6, <2>2, <3>2, <3>3, <3>4
  <2>3. CASE /\ sec > Len(buf) /\ sectors' = sectors
             /\ disk' = [disk EXCEPT ![slot] = [disk[slot] EXCEPT !.size = Len(buf)]]
    <3>1. disk'[slot].size = Len(buf) BY <1>2, <1>4, <2>3 DEF RecordType
    <3>2. \A k \in 1 .. Len(buf) : k \in 1 .. sec - 1 BY <1>2, <1>3, <2>3
    <3> QED BY <1>1, <2>3, <3>1, <3>2
  <2> QED BY <1>1, <2>1, <2>2, <2>3, WritingSteps
<1> QED BY <1>1, <1>7

-----------------------------------------------------------------------------
(* A move cut short.                                                       *)

\* The records while a move goes on: only the slot it comes to changes.
LEMMA MovedFact ==
    ASSUME FsInv, MoveInv, MoveNode, op.name = "move", filesystem_persistent_backend,
           ~filesystem_storage_error, NEW p \in DOMAIN snap, path_is_inside(op.src, p)
    PROVE  \E i \in Slots :
             /\ disk'[i].used /\ Item(disk', sectors', i) = snap[p]
             /\ disk'[i].path \in {p, Retarget(op.src, op.dst, p)}
             /\ pc' = "move" =>
                  disk'[i].path = IF i < at' THEN Retarget(op.src, op.dst, p) ELSE p
<1> PICK j : j = Least(Inside(op.src, at)) OBVIOUS
<1> PICK n : n = [nodes[j] EXCEPT !.path = Retarget(op.src, op.dst, @)] OBVIOUS
<1> PICK r : r = RecordOf(n) OBVIOUS
<1>1. pc = "move" /\ Inside(op.src, at) # {} /\ sectors' = sectors BY DEF MoveNode
<1>2. j \in Slots /\ nodes[j].used /\ path_is_inside(op.src, nodes[j].path)
  BY <1>1, InsideNode
<1>3. \A i \in Inside(op.src, at) : j <= i
  <2>1. Inside(op.src, at) \in SUBSET Nat BY SlotsNat DEF Inside
  <2> QED BY <1>1, <2>1, LeastFact
<1>4. PICK w \in RecordWrites(j, r) :
        disk' = w.disk /\ (IF w.ok THEN Go("move", j + 1) ELSE Finish)
  BY DEF MoveNode, persist_node, Wrote
<1>5. PICK i \in Slots :
        /\ disk[i].used /\ Item(disk, sectors, i) = snap[p]
        /\ disk[i].path = IF i < at THEN Retarget(op.src, op.dst, p) ELSE p
  BY <1>1 DEF MoveInv
<1>6. disk \in [Slots -> RecordType] /\ nodes[j] \in NodeType /\ at \in Nat /\ i \in Nat /\ j \in Nat
  BY <1>2, SlotsNat DEF FsInv, StoreType, CallType
<1>7. w.ok => disk' = [disk EXCEPT ![j] = r] BY <1>4 DEF RecordWrites
<1>8. disk' \in {disk, [disk EXCEPT ![j] = r]} BY <1>4 DEF RecordWrites
<1>9. nodes[i].used /\ nodes[i].path = disk[i].path BY <1>5, MirroredNode
<1>10. i >= at => i \in Inside(op.src, at) BY <1>5, <1>6, <1>9 DEF Inside
<1>11. at <= j BY <1>1, <1>6, LeastFact, SlotsNat DEF Inside
<1>12. CASE i = j
  <2>1. disk[i].path = p BY <1>5, <1>6, <1>11, <1>12
  <2>2. /\ r.used /\ r.path = Retarget(op.src, op.dst, p)
        /\ r.type = nodes[j].type /\ r.size = nodes[j].size
    BY <1>6, <1>9, <1>12, <2>1 DEF RecordOf, NodeType
  <2>3. r.type = disk[i].type /\ r.size = disk[i].size BY <1>2, <1>12, <2>2, MirroredNode
  <2>4. disk'[i] \in {disk[i], r} /\ (w.ok => disk'[i] = r) BY <1>6, <1>7, <1>8, <1>12
  <2>5. Item(disk', sectors', i) = snap[p] BY <1>1, <1>5, <2>3, <2>4 DEF Item
  <2>6. pc' = "move" => w.ok /\ at' = j + 1 BY <1>4 DEF Go, Finish
  <2> QED BY <1>5, <1>6, <1>12, <2>1, <2>2, <2>4, <2>5, <2>6
<1>13. CASE i # j
  <2>1. disk'[i] = disk[i] BY <1>6, <1>8, <1>13
  <2>2. Item(disk', sectors', i) = snap[p] BY <1>1, <1>5, <2>1 DEF Item
  <2>3. pc' = "move" => at' = j + 1 BY <1>4 DEF Go, Finish
  <2>4. i < at <=> i < j + 1 BY <1>3, <1>6, <1>10, <1>11, <1>13
  <2> QED BY <1>5, <2>1, <2>2, <2>3, <2>4
<1> QED BY <1>12, <1>13

\* A move begins, makes a directory above its destination, passes its checks
\* or moves a node.
LEMMA MoveSteps ==
    ASSUME FsInv, PlaceInv, Next, op'.name = "move", filesystem_persistent_backend',
           ~filesystem_storage_error'
    PROVE  /\ filesystem_persistent_backend /\ ~filesystem_storage_error
           /\ \/ /\ pc' = "ensure" /\ snap' = Tree
                 /\ UNCHANGED <<nodes, disk, sectors>>
              \/ /\ op.name = "move" /\ UNCHANGED <<op, snap>>
                 /\ \/ /\ pc = "ensure" /\ pc' = "ensure" /\ sectors' = sectors
                       /\ \E f \in Slots : /\ ~nodes[f].used
                                           /\ \A j \in Slots \ {f} : disk'[j] = disk[j]
                    \/ /\ pc = "ensure" /\ at' = 0 /\ UNCHANGED <<disk, sectors>>
                    \/ MoveNode /\ pc' = "move"
<1>0. pc' \in {"ensure", "move"} BY OpPlace
<1>1. ASSUME Mount \/ Crash \/ EnsureRefused \/ Create \/ Remove \/ CopyNode \/ CopyDone
             \/ MoveDone \/ WriteFile
      PROVE  FALSE
  BY <1>0, <1>1
  DEF Mount, filesystem_init, TreeSkip, TreeAdd, TreeFull, TreeDone, UseRam, EnterHome, Crash,
      EnsureRefused, Create, DirectoryMade, FileMade, Remove, RemoveNode, RemoveDone, CopyNode,
      CopyDone, MoveDone, WriteFile, RamWrite, WriteRefused, WriteSector, WriteSize,
      WriteAllowed, DiskWriteFails, WriteReturns, Finish, Go, callVars, NoOp, FsInv, CallInv
<1>2. CASE Call
  <2>1. PICK s \in Path, d \in Path : filesystem_copy(s, d) \/ filesystem_move(s, d)
    <3>1. ASSUME NEW p \in Path, filesystem_change_directory(p) \/ ReadFails(p) PROVE FALSE
      <4>1. pc = "idle" /\ op' = op
        BY <3>1 DEF filesystem_change_directory, ReadFails
      <4> QED BY <4>1 DEF PlaceInv
    <3>3. ASSUME NEW p \in Path, filesystem_create_directory(p) \/ filesystem_create_file(p)
          PROVE  FALSE
      <4>1. op'.name \in {"mkdir", "touch"}
        BY <3>3 DEF filesystem_create_directory, filesystem_create_file, Begin
      <4> QED BY <4>1
    <3>4. ASSUME NEW p \in Path, NEW r \in BOOLEAN, filesystem_remove(p, r) PROVE FALSE
      BY <1>0, <3>4 DEF filesystem_remove
    <3>2. ASSUME NEW p \in Path, NEW c \in Datas,
                 filesystem_write_file(p, c) \/ filesystem_append_file(p, c)
          PROVE  FALSE
      BY <1>0, <3>2 DEF filesystem_write_file, filesystem_append_file, StartWrite
    <3> QED BY <1>2, <3>1, <3>2, <3>3, <3>4 DEF Call
  <2>2. pc' = "ensure" /\ snap' = Tree /\ Kept
    BY <2>1 DEF filesystem_copy, filesystem_move, Transfer, Begin
  <2>3. UNCHANGED <<nodes, disk, sectors, filesystem_persistent_backend, filesystem_storage_error>>
    BY <2>2 DEF Kept, cacheVars, diskVars
  <2> QED BY <2>2, <2>3
<1>3. CASE EnsureMake
  <2> PICK f : f = find_free_node OBVIOUS
  <2> PICK r : r = RecordOf(Node(GapPath, DIR)) OBVIOUS
  <2>1. pc = "ensure" /\ f \in Slots /\ ~nodes[f].used BY <1>3, FreeFact DEF EnsureMake
  <2>2. PICK w \in RecordWrites(f, r) :
          /\ Wrote(w) /\ UNCHANGED <<sectors, filesystem_persistent_backend>>
          /\ IF w.ok THEN UNCHANGED <<callVars, writeVars>> ELSE Finish
    BY <1>3 DEF EnsureMake, AddNode, AddOutcomes, persist_node
  <2>3. w.ok /\ ~filesystem_storage_error BY <2>2, <1>0 DEF Wrote, Finish
  <2>4. disk \in [Slots -> RecordType] BY DEF FsInv, StoreType
  <2>5. \A j \in Slots \ {f} : disk'[j] = disk[j] BY <2>2, <2>4 DEF RecordWrites, Wrote
  <2> QED BY <2>1, <2>2, <2>3, <2>5 DEF callVars
<1>4. CASE TransferChecked
  <2>1. /\ pc = "ensure" /\ at' = 0 /\ UNCHANGED <<op, snap>> /\ Kept
    BY <1>0, <1>4 DEF TransferChecked, Ensured, Finish, Go
  <2> QED BY <2>1 DEF Kept, cacheVars, diskVars
<1>5. CASE MoveNode
  <2> PICK i : i = Least(Inside(op.src, at)) OBVIOUS
  <2> PICK n : n = [nodes[i] EXCEPT !.path = Retarget(op.src, op.dst, @)] OBVIOUS
  <2>1. PICK w \in RecordWrites(i, RecordOf(n)) :
          /\ Wrote(w) /\ filesystem_persistent_backend' = filesystem_persistent_backend
          /\ IF w.ok THEN Go("move", i + 1) ELSE Finish
    BY <1>5 DEF MoveNode, persist_node
  <2>2. w.ok /\ ~filesystem_storage_error BY <1>0, <2>1 DEF Wrote, Finish
  <2> QED BY <1>5, <2>1, <2>2 DEF Go
<1> QED BY <1>1, <1>2, <1>3, <1>4, <1>5 DEF Next, Step, Ensure, Copy, Move

LEMMA MoveKept == ASSUME FsInv, PlaceInv, DirsEmpty, MoveInv, Next PROVE MoveInv'
<1> SUFFICES ASSUME op'.name = "move", filesystem_persistent_backend', ~filesystem_storage_error',
                    NEW p \in DOMAIN snap', path_is_inside(op'.src, p)
             PROVE  \E i \in Slots :
                      /\ disk'[i].used /\ Item(disk', sectors', i) = snap'[p]
                      /\ disk'[i].path = IF pc' = "move" /\ i < at' THEN Retarget(op'.src, op'.dst, p)
                                         ELSE p
  BY DEF MoveInv, path_is_inside, Retarget, Item
<1>1. filesystem_persistent_backend /\ ~filesystem_storage_error BY MoveSteps
<1>2. CASE pc' = "ensure" /\ snap' = Tree /\ UNCHANGED <<nodes, disk, sectors>>
  <2> PICK i : i = find_node(p) OBVIOUS
  <2>1. UsedIn(nodes, p) BY <1>2 DEF Tree, UsedIn
  <2>2. i \in Slots /\ nodes[i].used /\ nodes[i].path = p /\ Exists(p) BY <2>1, FindFact
  <2>3. /\ disk[i].used /\ disk[i].path = p
        /\ disk[i].type = nodes[i].type /\ disk[i].size = nodes[i].size
    BY <1>1, <2>2, MirroredNode
  <2>4. snap'[p].type = nodes[i].type
        /\ snap'[p].data = IF IsFile(p) THEN Stored(i) ELSE <<>>
    BY <1>2, <2>2, SeenFact
  <2>5. Item(disk, sectors, i).data = snap'[p].data
    <3>1. CASE IsFile(p) BY <1>1, <2>4, <3>1 DEF Item, Stored
    <3>2. CASE ~IsFile(p)
      <4>1. nodes[i].type = DIR
        BY <2>2, <3>2 DEF IsFile, FsInv, StoreType, NodeType, Type
      <4>2. disk[i].size = 0 BY <2>2, <2>3, <4>1 DEF DirsEmpty, EmptyIfDir
      <4>3. SubSeq(sectors[i], 1, disk[i].size) = <<>> BY <4>2, SubSeqEmpty
      <4> QED BY <2>4, <3>2, <4>3 DEF Item
    <3> QED BY <3>1, <3>2
  <2>6. snap'[p] = [type |-> snap'[p].type, data |-> snap'[p].data]
    BY <1>2, <2>2, SeenFact DEF Tree
  <2>7. Item(disk, sectors, i) = snap'[p] BY <2>3, <2>4, <2>5, <2>6 DEF Item
  <2>8. Item(disk', sectors', i) = snap'[p] BY <1>2, <2>7
  <2> QED BY <1>2, <2>2, <2>3, <2>8
<1>3. CASE op.name = "move" /\ UNCHANGED <<op, snap>>
  <2>1. CASE MoveNode /\ pc' = "move" BY <1>1, <1>3, <2>1, MovedFact
  <2>2. CASE pc = "ensure"
    <3>1. PICK i \in Slots : disk[i].used /\ Item(disk, sectors, i) = snap[p] /\ disk[i].path = p
      BY <1>1, <1>3, <2>2 DEF MoveInv
    <3>2. i >= 0 BY SlotsNat
    <3>3. CASE at' = 0 /\ UNCHANGED <<disk, sectors>>
      <4>1. ~(i < at') BY <3>2, <3>3, SlotsNat
      <4>2. Item(disk', sectors', i) = snap[p] BY <3>1, <3>3
      <4> QED BY <1>3, <3>1, <3>3, <4>1, <4>2
    <3>4. CASE /\ pc' = "ensure" /\ sectors' = sectors
               /\ \E f \in Slots : ~nodes[f].used /\ \A j \in Slots \ {f} : disk'[j] = disk[j]
      <4>1. PICK f \in Slots : ~nodes[f].used /\ \A j \in Slots \ {f} : disk'[j] = disk[j]
        BY <3>4
      <4>2. nodes[i].used BY <1>1, <3>1, MirroredNode
      <4>3. disk'[i] = disk[i] BY <4>1, <4>2
      <4>4. Item(disk', sectors', i) = snap[p] BY <3>1, <3>4, <4>3 DEF Item
      <4> QED BY <1>3, <3>1, <3>4, <4>3, <4>4
    <3>5. ~MoveNode BY <2>2 DEF MoveNode
    <3>6. CASE snap' = Tree /\ pc' = "ensure" /\ UNCHANGED <<nodes, disk, sectors>>
      BY <1>2, <3>6
    <3> QED BY <2>2, <3>3, <3>4, <3>5, <3>6, MoveSteps
  <2> QED BY <1>2, <2>1, <2>2, MoveSteps
<1> QED BY <1>2, <1>3, MoveSteps

LEMMA CutStepInv == FsInv /\ CutInv /\ [Next]_vars => CutInv'
<1>1. ASSUME FsInv, CutInv, Next PROVE CutInv'
  BY <1>1, PlaceKept, EmptyKept, WriteKept, MoveKept DEF CutInv
<1>2. ASSUME CutInv, UNCHANGED vars PROVE CutInv'
  <2>1. UNCHANGED <<nodes, filesystem_persistent_backend, filesystem_storage_error, disk, sectors,
                    buf, slot, sec, pc, op, at, snap, faults>>
    BY <1>2 DEF vars, cacheVars, diskVars, writeVars, callVars
  <2>2. PlaceInv' /\ DirsEmpty' BY <1>2, <2>1 DEF CutInv, PlaceInv, DirsEmpty
  <2>3. WriteInv' BY <1>2, <2>1 DEF CutInv, WriteInv, find_node
  <2>4. MoveInv' BY <1>2, <2>1 DEF CutInv, MoveInv
  <2> QED BY <2>2, <2>3, <2>4 DEF CutInv
<1> QED BY <1>1, <1>2

LEMMA CutInvariant == Spec => []CutInv
<1>1. Init => CutInv
  BY DEF Init, NoOp, CutInv, PlaceInv, DirsEmpty, EmptyIfDir, FreeNode, ClearRecord, WriteInv,
         MoveInv
<1> QED BY <1>1, CutStepInv, FsInvariant, PTL DEF Spec

\* A write or append of filesystem.c that is cut short, by a failing sector or
\* a power failure after any sector, leaves old and new content of that file
\* only; and without a failing write it never exceeds the buffer.
THEOREM FsTornWriteMixes == Spec => TornWriteMixes
<1> DEFINE Mix ==
      op.name \in {"write", "append"} /\ filesystem_persistent_backend =>
        /\ pc = "data" /\ faults = 0 => Len(buf) <= FS_MAX_FILE_SIZE
        /\ \A k \in 1 .. disk'[find_node(op.src)].size :
             \/ /\ k \in DOMAIN snap[op.src].data
                /\ sectors'[find_node(op.src)][k] = snap[op.src].data[k]
             \/ k \in DOMAIN buf /\ sectors'[find_node(op.src)][k] = buf[k]
<1>1. FsInv /\ CutInv /\ [Next]_vars => [Mix]_vars
  <2>1. ASSUME FsInv, CutInv, Next PROVE Mix BY <2>1, TornStep DEF CutInv
  <2> QED BY <2>1
<1> QED BY <1>1, FsInvariant, CutInvariant, PTL DEF Spec, TornWriteMixes

\* A move of filesystem.c, cut short at whatever node by a failing record
\* write or a power failure, has lost no node of its subtree: each is on disk
\* with its content, under its old or its new path.
THEOREM FsMoveLosesNothing == Spec => MoveLosesNothing
<1> DEFINE NotLost ==
      pc = "move" /\ filesystem_persistent_backend /\ ~filesystem_storage_error =>
        \A p \in DOMAIN snap :
          path_is_inside(op.src, p) =>
            snap[p] \in OnDisk(disk', sectors', p)
                        \cup OnDisk(disk', sectors',
                                       op.dst \o SubSeq(p, Len(op.src) + 1, Len(p)))
<1>1. ASSUME FsInv, CutInv, Next PROVE NotLost
  <2> SUFFICES ASSUME pc = "move", filesystem_persistent_backend, ~filesystem_storage_error,
                      NEW p \in DOMAIN snap, path_is_inside(op.src, p)
               PROVE  \E i \in Slots :
                        /\ disk'[i].used /\ Item(disk', sectors', i) = snap[p]
                        /\ disk'[i].path \in {p, Retarget(op.src, op.dst, p)}
    BY DEF OnDisk, Item, Retarget
  <2>1. op.name = "move" BY <1>1 DEF FsInv, CallInv
  <2>2. CASE MoveNode BY <1>1, <2>1, <2>2, MovedFact DEF CutInv
  <2>3. CASE UNCHANGED <<disk, sectors>>
    <3>1. PICK i \in Slots :
            /\ disk[i].used /\ Item(disk, sectors, i) = snap[p]
            /\ disk[i].path \in {p, Retarget(op.src, op.dst, p)}
      BY <1>1, <2>1 DEF CutInv, MoveInv
    <3>2. Item(disk', sectors', i) = snap[p] BY <2>3, <3>1
    <3> QED BY <2>3, <3>1, <3>2
  <2>4. CASE MoveDone \/ Crash BY <2>3, <2>4 DEF MoveDone, Crash, diskVars
  <2>5. ASSUME Mount \/ Call \/ Ensure \/ Create \/ Remove \/ Copy \/ WriteFile PROVE FALSE
    BY <2>5 DEF Mount, filesystem_init, TreeSkip, TreeAdd, TreeFull, TreeDone, Call,
              filesystem_change_directory, filesystem_create_directory, filesystem_create_file,
              filesystem_remove, ReadFails, filesystem_copy, filesystem_move, Transfer,
              filesystem_write_file, filesystem_append_file, Begin, Ensure, EnsureMake,
              EnsureRefused, Create, DirectoryMade, FileMade, Remove, RemoveNode, RemoveDone,
              Copy, TransferChecked, CopyNode, CopyDone, Ensured, WriteFile, RamWrite,
              WriteRefused, WriteSector, WriteSize, WriteAllowed
  <2> QED BY <1>1, <2>2, <2>4, <2>5 DEF Next, Step, Move
<1>2. FsInv /\ CutInv /\ [Next]_vars => [NotLost]_vars BY <1>1
<1> QED BY <1>2, FsInvariant, CutInvariant, PTL DEF Spec, MoveLosesNothing

-----------------------------------------------------------------------------
(***************************************************************************)
(* Filesystem implements FsTree while no disk fault and no power failure   *)
(* happens, for any table size, names, contents and base tree.             *)
(*                                                                         *)
(* A call works slot by slot, a caller sees the tree before the call until *)
(* it returns.  RefInv says, for each place a call can be at, how table    *)
(* and sectors lie between the tree before (the ghost snap) and the tree   *)
(* after; the step that returns is the call of FsTree, all others are      *)
(* invisible.  The shape of the tree is taken from FsTreeProofs.           *)
(***************************************************************************)

F == INSTANCE FsTreeProofs WITH Name <- Names, InitTree <- InitialTree,
                                tree <- Seen, cwd <- SeenCwd

-----------------------------------------------------------------------------
(* Slots and trees.                                                        *)

\* No two slots have the same path.
Alone(n) == \A i, j \in Slots : n[i].used /\ n[j].used /\ n[i].path = n[j].path => i = j

\* The table n with the sectors x holds the tree t and nothing else.
Represents(n, x, t) ==
    /\ t = [p \in DOMAIN t |-> t[p]]
    /\ \A i \in Slots : n[i].used => n[i].path \in DOMAIN t /\ t[n[i].path] = Item(n, x, i)
    /\ \A p \in DOMAIN t : UsedIn(n, p)

\* create_initial_tree, when it comes to node k.
PartlyMade(k) == [i \in Slots |-> IF i < k - 1 THEN RamTree[i] ELSE FreeNode]

-----------------------------------------------------------------------------
(* Where a call stands, for the tree t it began with.                      *)

Arguments(t, o) ==
    /\ o.name \in {"touch", "copy", "move"} => o.dst # <<>> /\ o.dst \notin DOMAIN t
    /\ o.name \in {"copy", "move"} => o.src \in DOMAIN t
    /\ o.name = "move" => o.src # <<>>

\* Directories have been made.
EnsureOK(n, x, t, o, new) ==
    /\ Arguments(t, o)
    /\ F!DirsTowards(t, IF o.name = "mkdir" THEN o.dst ELSE get_parent_path(o.dst), new)
    /\ Represents(n, x, F!WithDirs(t, new))

\* Nodes of the subtree in slots before k are gone.
RemoveOK(n, x, t, o, k) ==
    /\ o.src \in DOMAIN t /\ o.src # <<>>
    /\ \A i \in Slots : n[i].used => n[i].path \in DOMAIN t /\ t[n[i].path] = Item(n, x, i)
    /\ \A p \in DOMAIN t : ~path_is_inside(o.src, p) => UsedIn(n, p)
    /\ o.name = "remove" =>
         \A i \in Slots : n[i].used /\ path_is_inside(o.src, n[i].path) => i >= k
    /\ o.name = "unlink" =>
         k \in Slots /\ n[k].used /\ n[k].path = o.src /\ n[k].type = FILE

\* A copy or a move past its checks.
GraftOK(t, o, new) ==
    /\ Arguments(t, o)
    /\ F!DirsTowards(t, get_parent_path(o.dst), new)
    /\ F!IsDir(F!WithDirs(t, new), get_parent_path(o.dst))
    /\ ~path_is_inside(o.src, o.dst)
    /\ \A q \in DOMAIN F!WithDirs(t, new) :
         path_is_inside(o.src, q) => Retarget(o.src, o.dst, q) \in Path

\* Slot i of the subtree that is copied.
SourceSlot(n, o, i) == n[i].used /\ path_is_inside(o.src, n[i].path)

\* Nodes of the subtree in slots before k have a copy, complete but for w.
CopyOK(n, x, b, o, k, w) ==
    /\ \A p \in DOMAIN b : UsedIn(n, p)
    /\ \A i \in Slots : n[i].used =>
         \/ n[i].path \in DOMAIN b /\ b[n[i].path] = Item(n, x, i)
         \/ \E j \in Slots : /\ j < k /\ SourceSlot(n, o, j)
                             /\ n[i].path = Retarget(o.src, o.dst, n[j].path)
                             /\ i # w => Item(n, x, i) = Item(n, x, j)
    /\ \A j \in Slots : j < k /\ SourceSlot(n, o, j) =>
         UsedIn(n, Retarget(o.src, o.dst, n[j].path))
    /\ Cardinality({i \in Slots : ~n[i].used})
         >= Cardinality({i \in Slots : i >= k /\ SourceSlot(n, o, i)})

\* The content of slot k - 1 is written to its copy in slot w.
CopyDataOK(n, x, o, k, w, b, s) ==
    /\ w \in Slots /\ n[w].used /\ n[w].type = FILE
    /\ k - 1 \in Slots /\ SourceSlot(n, o, k - 1) /\ n[k - 1].type = FILE
    /\ n[w].path = Retarget(o.src, o.dst, n[k - 1].path)
    /\ b = SubSeq(x[k - 1], 1, n[k - 1].size)
    /\ \A m \in 1 .. s - 1 : m \in DOMAIN b /\ x[w][m] = b[m]

\* Nodes of the subtree in slots before k have their new path.
MoveOK(n, x, b, o, k) ==
    /\ \A i \in Slots : n[i].used =>
         \/ /\ n[i].path \in DOMAIN b /\ b[n[i].path] = Item(n, x, i)
            /\ path_is_inside(o.src, n[i].path) => i >= k
         \/ \E m \in DOMAIN b : /\ path_is_inside(o.src, m) /\ ~UsedIn(n, m)
                                /\ n[i].path = Retarget(o.src, o.dst, m)
                                /\ b[m] = Item(n, x, i)
    /\ \A p \in DOMAIN b :
         UsedIn(n, p) \/ (path_is_inside(o.src, p) /\ UsedIn(n, Retarget(o.src, o.dst, p)))

\* Slot w of file o.src has new content.
WriteOK(n, x, t, o, w) ==
    /\ o.src \in DOMAIN t /\ t[o.src].type = FILE
    /\ w \in Slots /\ n[w].used /\ n[w].path = o.src /\ n[w].type = FILE
    /\ \A i \in Slots : n[i].used =>
         n[i].path \in DOMAIN t /\ (i # w => t[n[i].path] = Item(n, x, i))
    /\ \A p \in DOMAIN t : UsedIn(n, p)

-----------------------------------------------------------------------------
(* The invariant.                                                          *)

MountRef ==
    /\ pc = "off" => \A i \in Slots : ~disk[i].used
    /\ pc # "off" => filesystem_persistent_backend
    /\ pc = "tree" => at \in 1 .. Len(initial_nodes) + 1 /\ nodes = PartlyMade(at)
    /\ pc \notin {"off", "tree"} => Alone(nodes)
CallRef ==
    /\ pc = "ensure" => \E new : EnsureOK(nodes, sectors, snap, op, new)
    /\ pc = "remove" => RemoveOK(nodes, sectors, snap, op, at)
                        /\ ~path_is_inside(op.src, current_directory)
    /\ pc = "copy" => \E new : /\ GraftOK(snap, op, new)
                               /\ CopyOK(nodes, sectors, F!WithDirs(snap, new), op, at, NONE)
    /\ pc = "data" /\ op.name = "copy" =>
         \E new : /\ GraftOK(snap, op, new)
                  /\ CopyOK(nodes, sectors, F!WithDirs(snap, new), op, at, slot)
                  /\ CopyDataOK(nodes, sectors, op, at, slot, buf, sec)
    /\ pc = "move" => \E new : /\ GraftOK(snap, op, new)
                               /\ MoveOK(nodes, sectors, F!WithDirs(snap, new), op, at)
    /\ pc = "data" /\ op.name # "copy" => WriteOK(nodes, sectors, snap, op, slot)
RefInv == MountRef /\ CallRef

-----------------------------------------------------------------------------
(* The two vocabularies.                                                   *)

\* FsTree and Filesystem name the same operations on paths differently.
LEMMA PathWords ==
    /\ \A p, q : F!Below(p, q) <=> path_is_inside(p, q)
    /\ \A s, d, q : F!Rebase(s, d, q) = Retarget(s, d, q)
    /\ \A p : F!Parent(p) = get_parent_path(p)
    /\ \A p, k : F!Front(p, k) = SubSeq(p, 1, k)
    /\ F!DIR = DIR /\ F!FILE = FILE
  BY DEF F!Below, F!Rebase, F!Parent, F!Front, path_is_inside, Retarget, get_parent_path,
         F!DIR, F!FILE, DIR, FILE

\* The base tree, node by node.
LEMMA InitialTreeFact ==
    /\ DOMAIN InitialTree \subseteq Path
    /\ InitialTree = [p \in DOMAIN InitialTree |-> InitialTree[p]]
    /\ \A k \in DOMAIN initial_nodes :
         /\ InitialNode(k) \in DOMAIN InitialTree
         /\ InitialTree[InitialNode(k)] = [type |-> InitialType(k), data |-> <<>>]
    /\ \A p \in DOMAIN InitialTree : \E k \in DOMAIN initial_nodes : InitialNode(k) = p
<1>1. DOMAIN InitialTree = {InitialNode(k) : k \in DOMAIN initial_nodes} BY DEF InitialTree
<1>2. \A k \in DOMAIN initial_nodes : InitialNode(k) \in Path BY InitialFact
<1>3. ASSUME NEW k \in DOMAIN initial_nodes
      PROVE  InitialTree[InitialNode(k)] = [type |-> InitialType(k), data |-> <<>>]
  <2>1. PICK N : N = {initial_nodes[j] : j \in DOMAIN initial_nodes} OBVIOUS
  <2>2. initial_nodes[k] \in N /\ initial_nodes[k][1] = InitialNode(k)
    BY <2>1 DEF InitialNode
  <2>3. \A n \in N : n[1] = InitialNode(k) => n = initial_nodes[k]
    BY <2>1, BaseTreeAssumption DEF InitialNode
  <2>4. (CHOOSE n \in N : n[1] = InitialNode(k)) = initial_nodes[k] BY <2>2, <2>3
  <2> QED BY <1>1, <2>1, <2>4 DEF InitialTree, InitialType
<1>4. InitialTree = [p \in DOMAIN InitialTree |-> InitialTree[p]] BY <1>1 DEF InitialTree
<1> QED BY <1>1, <1>2, <1>3, <1>4

\* The base tree is one that FsTree can begin with.
LEMMA TreeAssumptionHolds == F!TreeAssumption
<1>1. Path \subseteq Seq(Names) BY PathFact
<1>2. \A k \in DOMAIN initial_nodes :
        /\ InitialNode(k) \in Path /\ InitialType(k) \in Type
        /\ initial_nodes[k] = <<InitialNode(k), InitialType(k)>>
  <2> SUFFICES ASSUME NEW k \in DOMAIN initial_nodes
               PROVE  /\ InitialNode(k) \in Path /\ InitialType(k) \in Type
                      /\ initial_nodes[k] = <<InitialNode(k), InitialType(k)>>
    OBVIOUS
  <2>1. initial_nodes[k] \in Path \X Type BY TableAssumption, ElementOfSeq
  <2> QED BY <2>1 DEF InitialNode, InitialType
<1>3. \A k \in DOMAIN initial_nodes : InitialType(k) = DIR => F!IsDir(InitialTree, InitialNode(k))
  <2> SUFFICES ASSUME NEW k \in DOMAIN initial_nodes, InitialType(k) = DIR
               PROVE  F!IsDir(InitialTree, InitialNode(k))
    OBVIOUS
  <2>1. PICK p : p = InitialNode(k) OBVIOUS
  <2>2. p \in DOMAIN InitialTree /\ InitialTree[p] = [type |-> DIR, data |-> <<>>]
    BY <2>1, InitialTreeFact
  <2>3. InitialTree[p].type = DIR BY <2>2
  <2> QED BY <2>1, <2>2, <2>3 DEF F!IsDir, F!DIR, DIR
<1>4. \A p : (\E j \in DOMAIN initial_nodes : initial_nodes[j] = <<p, DIR>>)
               => F!IsDir(InitialTree, p)
  BY <1>3 DEF InitialNode, InitialType
<1>5. F!IsDir(InitialTree, HOME) BY <1>4, BaseTreeAssumption
<1>6. F!IsDir(InitialTree, <<>>)
  <2>1. 1 \in DOMAIN initial_nodes BY TableAssumption
  <2> QED BY <2>1, <1>4, TableAssumption
<1>7. ASSUME NEW p \in DOMAIN InitialTree PROVE F!Rooted(InitialTree, p)
  <2>1. PICK k \in DOMAIN initial_nodes : initial_nodes[k][1] = p
    BY InitialTreeFact DEF InitialNode
  <2>2. \A m \in 0 .. Len(p) - 1 : F!IsDir(InitialTree, SubSeq(p, 1, m))
    BY <1>4, <2>1, BaseTreeAssumption
  <2> QED BY <2>2 DEF F!Rooted, F!Front
<1>8. InitialTree \in [DOMAIN InitialTree -> F!NodeInfo]
  <2>1. \A p \in DOMAIN InitialTree : InitialTree[p] \in F!NodeInfo
    <3> SUFFICES ASSUME NEW p \in DOMAIN InitialTree PROVE InitialTree[p] \in F!NodeInfo
      OBVIOUS
    <3>1. PICK k \in DOMAIN initial_nodes : InitialNode(k) = p BY InitialTreeFact
    <3>2. InitialTree[p] = [type |-> InitialType(k), data |-> <<>>] BY <3>1, InitialTreeFact
    <3> QED BY <1>2, <3>2, EmptyFact DEF F!NodeInfo, F!DIR, F!FILE, Type, DIR, FILE
  <2> QED BY <2>1, InitialTreeFact
<1> QED BY <1>1, <1>5, <1>6, <1>7, <1>8, EmptyFact, InitialTreeFact DEF F!TreeAssumption, F!Shape

-----------------------------------------------------------------------------
(* Slots and trees.                                                        *)

\* A table holds one tree.
LEMMA TreesEqual ==
    ASSUME NEW n, NEW x, NEW t, NEW u, Represents(n, x, t), Represents(n, x, u)
    PROVE  t = u
<1>1. DOMAIN t = DOMAIN u BY DEF Represents, UsedIn
<1>2. ASSUME NEW p \in DOMAIN t PROVE t[p] = u[p]
  <2>1. PICK i \in Slots : n[i].used /\ n[i].path = p BY DEF Represents, UsedIn
  <2> QED BY <2>1 DEF Represents
<1>3. t = [p \in DOMAIN t |-> t[p]] /\ u = [p \in DOMAIN u |-> u[p]] BY DEF Represents
<1> QED BY <1>1, <1>2, <1>3

\* While the disk mirrors the table the records need not be looked at.
LEMMA MirroredItem ==
    ASSUME FsInv, DirsEmpty, filesystem_persistent_backend, faults = 0, NEW i \in Slots,
           nodes[i].used
    PROVE  /\ Item(nodes, sectors, i)
                = [type |-> nodes[i].type, data |-> IF nodes[i].type = FILE THEN Stored(i) ELSE <<>>]
           /\ Stored(i) = SubSeq(sectors[i], 1, nodes[i].size)
<1>1. disk[i].size = nodes[i].size BY MirroredNode
<1>2. Stored(i) = SubSeq(sectors[i], 1, nodes[i].size) BY <1>1 DEF Stored
<1>3. nodes[i].type \in {DIR, FILE} BY DEF FsInv, StoreType, NodeType, Type
<1>4. CASE nodes[i].type = DIR
  <2>1. nodes[i].size = 0 BY <1>4 DEF DirsEmpty, EmptyIfDir
  <2>2. Len(Stored(i)) = 0 /\ Stored(i) = SubSeq(sectors[i], 1, disk[i].size)
    BY <1>1, <1>2, <2>1, ContentOf
  <2>3. Stored(i) \in Seq(Sector \cup {0}) BY StoredFact, ContentFact
  <2>4. Stored(i) = <<>> BY <2>2, <2>3
  <2>5. DIR # FILE BY DEF DIR, FILE
  <2> QED BY <1>2, <1>4, <2>4, <2>5 DEF Item
<1>5. CASE nodes[i].type = FILE BY <1>2, <1>5 DEF Item
<1> QED BY <1>2, <1>3, <1>4, <1>5

InOrder == FsInv /\ DirsEmpty /\ filesystem_persistent_backend /\ faults = 0 /\ Alone(nodes)
TreeShown == Represents(nodes, sectors, Tree)

\* In order, the table holds the tree that callers see.
LEMMA TreeFact == InOrder => TreeShown
<1> SUFFICES ASSUME FsInv, DirsEmpty, filesystem_persistent_backend, faults = 0, Alone(nodes)
             PROVE  Represents(nodes, sectors, Tree)
  BY DEF InOrder, TreeShown
<1>1. ASSUME NEW i \in Slots, nodes[i].used
      PROVE  nodes[i].path \in DOMAIN Tree /\ Tree[nodes[i].path] = Item(nodes, sectors, i)
  <2>1. PICK p : p = nodes[i].path OBVIOUS
  <2>2. Exists(p) BY <1>1, <2>1, FindFact DEF UsedIn
  <2>3. find_node(p) \in Slots /\ nodes[find_node(p)].used /\ nodes[find_node(p)].path = p
    BY <2>2, FindFact
  <2>4. find_node(p) = i BY <1>1, <2>1, <2>3 DEF Alone
  <2>5. IsFile(p) <=> nodes[i].type = FILE BY <2>2, <2>4 DEF IsFile
  <2>6. p \in DOMAIN Tree /\ Tree[p].type = nodes[i].type
        /\ Tree[p].data = IF IsFile(p) THEN Stored(i) ELSE <<>>
    BY <2>2, <2>4, SeenFact
  <2>7. Tree[p] = [type |-> Tree[p].type, data |-> Tree[p].data] BY <2>6 DEF Tree
  <2>8. Tree[p] = Item(nodes, sectors, i) BY <1>1, <2>5, <2>6, <2>7, MirroredItem
  <2> QED BY <2>1, <2>6, <2>8
<1>2. \A p \in DOMAIN Tree : UsedIn(nodes, p) BY DEF Tree, UsedIn
<1>3. Tree = [p \in DOMAIN Tree |-> Tree[p]] BY DEF Tree
<1> QED BY <1>1, <1>2, <1>3 DEF Represents

\* A directory of the table is one of the tree.
LEMMA DirSeen ==
    ASSUME NEW n, NEW x, NEW t, Represents(n, x, t), NEW q, DirIn(n, q)
    PROVE  F!IsDir(t, q)
<1>1. PICK i \in Slots : n[i].used /\ n[i].path = q /\ n[i].type = DIR BY DEF DirIn
<1>2. q \in DOMAIN t /\ t[q] = Item(n, x, i) BY <1>1 DEF Represents
<1>3. Item(n, x, i).type = n[i].type BY DEF Item
<1> QED BY <1>1, <1>2, <1>3 DEF F!IsDir, F!DIR, DIR

\* Nothing made.
LEMMA NoDirs ==
    ASSUME NEW t, t = [p \in DOMAIN t |-> t[p]]
    PROVE  F!WithDirs(t, {}) = t
  BY DEF F!WithDirs

\* What a tree with new directories holds.
LEMMA MoreDirs ==
    ASSUME NEW t, NEW new, NEW more
    PROVE  /\ DOMAIN F!WithDirs(t, new) = DOMAIN t \cup new
           /\ \A q \in DOMAIN t : F!WithDirs(t, new)[q] = t[q]
           /\ \A q \in new : q \notin DOMAIN t => F!WithDirs(t, new)[q] = F!NewDir
           /\ \A q : F!IsDir(t, q) => F!IsDir(F!WithDirs(t, new), q)
           /\ \A q : F!IsDir(F!WithDirs(t, new), q) => F!IsDir(F!WithDirs(t, new \cup more), q)
<1>1. \A m : DOMAIN F!WithDirs(t, m) = DOMAIN t \cup m
             /\ \A q \in DOMAIN t \cup m :
                  F!WithDirs(t, m)[q] = IF q \in DOMAIN t THEN t[q] ELSE F!NewDir
  BY DEF F!WithDirs
<1> QED BY <1>1 DEF F!IsDir

\* No content.
LEMMA EmptyPart == ASSUME NEW s PROVE SubSeq(s, 1, 0) = <<>>
  OBVIOUS

\* A node without content.
LEMMA EmptyItem ==
    ASSUME NEW n, NEW x, NEW i, n[i].size = 0
    PROVE  Item(n, x, i) = [type |-> n[i].type, data |-> <<>>]
  BY EmptyPart DEF Item

-----------------------------------------------------------------------------
(* What the steps of a call have in common.                                *)

\* No disk fault and no power failure has happened.
Calm == volume /\ faults = 0 /\ crashes = 0

Ready == FsInv /\ CutInv /\ RefInv /\ F!FsInv /\ Calm

\* The next state is one in which the filesystem is in order.
StaysReady == FsInv' /\ CutInv' /\ Calm'

\* The step is a call of FsTree or invisible, and leads to the invariant.
Good == RefInv' /\ (F!Next \/ UNCHANGED <<Seen, SeenCwd>>)

InCall == {"ensure", "remove", "copy", "move", "data"}

\* What the later proofs take from the invariants.
LEMMA ReadyFact ==
    ASSUME Ready
    PROVE  /\ FsInv /\ DirsEmpty /\ faults = 0 /\ volume /\ MountRef /\ CallRef
           /\ pc # "off" => filesystem_persistent_backend
           /\ pc \notin {"off", "tree"} =>
                /\ Alone(nodes)
                /\ Represents(nodes, sectors, Tree)
           /\ F!IsTree(Seen) /\ F!IsDir(Seen, SeenCwd)
           /\ pc = "idle" => Seen = Tree
           /\ pc \in InCall => Seen = snap
           /\ pc \notin {"off", "tree"} => SeenCwd = current_directory
<1>1. FsInv /\ DirsEmpty /\ faults = 0 /\ volume /\ MountRef /\ CallRef
  BY DEF Ready, CutInv, RefInv, Calm
<1>2. pc # "off" => filesystem_persistent_backend BY <1>1 DEF MountRef
<1>3. pc \notin {"off", "tree"} => Alone(nodes) /\ Represents(nodes, sectors, Tree)
  BY <1>1, <1>2, TreeFact DEF MountRef, InOrder, TreeShown
<1>4. F!IsTree(Seen) /\ F!IsDir(Seen, SeenCwd) BY DEF Ready, F!FsInv
<1> QED BY <1>1, <1>2, <1>3, <1>4 DEF Seen, SeenCwd, InCall

\* The call returns, and the tree is t.
LEMMA Returns ==
    ASSUME StaysReady, pc' = "idle", filesystem_persistent_backend', Alone(nodes'),
           NEW t, Represents(nodes', sectors', t)
    PROVE  Seen' = t /\ SeenCwd' = current_directory' /\ RefInv'
<1>1. InOrder' => TreeShown' BY TreeFact, PTL
<1>2. InOrder' BY DEF InOrder, StaysReady, CutInv, Calm
<1>3. Tree' = t BY <1>1, <1>2, TreesEqual DEF TreeShown
<1>4. Seen' = t /\ SeenCwd' = current_directory' BY <1>3 DEF Seen, SeenCwd
<1>5. RefInv' BY DEF RefInv, MountRef, CallRef
<1> QED BY <1>4, <1>5

\* The call goes on.
LEMMA GoesOn ==
    ASSUME Ready, pc \in InCall, pc' \in InCall, snap' = snap,
           current_directory' = current_directory,
           filesystem_persistent_backend' = filesystem_persistent_backend,
           Alone(nodes'), CallRef'
    PROVE  Good
<1>1. MountRef' BY ReadyFact DEF MountRef, InCall
<1>2. UNCHANGED <<Seen, SeenCwd>> BY DEF Seen, SeenCwd, InCall
<1> QED BY <1>1, <1>2 DEF Good, RefInv

\* A call begins.
LEMMA Begins ==
    ASSUME Ready, pc = "idle", pc' \in InCall, snap' = Tree, Kept, CallRef'
    PROVE  Good
<1>1. UNCHANGED <<nodes, filesystem_persistent_backend, current_directory, sectors>>
  BY DEF Kept, cacheVars, diskVars
<1>2. MountRef' BY <1>1, ReadyFact DEF MountRef, InCall
<1>3. UNCHANGED <<Seen, SeenCwd>> BY <1>1 DEF Seen, SeenCwd, InCall
<1> QED BY <1>2, <1>3 DEF Good, RefInv

\* Without a fault every record is written.
LEMMA WriteWorks ==
    ASSUME StaysReady, NEW w, Wrote(w), faults = 0
    PROVE  w.ok
  BY DEF StaysReady, Calm, Wrote

\* A name that is not in the table.
LEMMA NotThere ==
    ASSUME NEW n, NEW x, NEW t, Represents(n, x, t), NEW p
    PROVE  p \in DOMAIN t <=> UsedIn(n, p)
  BY DEF Represents, UsedIn

\* A slot is taken for a path that no slot has.
LEMMA AloneAdded ==
    ASSUME NEW n, NEW m, Alone(n), NEW f \in Slots, \A j \in Slots \ {f} : m[j] = n[j],
           ~UsedIn(n, m[f].path)
    PROVE  Alone(m)
  BY DEF Alone, UsedIn

-----------------------------------------------------------------------------
(* Directories made on the way: filesystem_create_directory and            *)
(* filesystem_create_file.                                                 *)

\* What lies above the parent lies above the node.
LEMMA ParentInside ==
    ASSUME NEW p \in Path, p # <<>>, NEW q \in Path, path_is_inside(q, get_parent_path(p))
    PROVE  path_is_inside(q, p) /\ Len(q) < Len(p)
<1>1. p \in Seq(Names) /\ q \in Seq(Names) /\ Len(p) \in Nat /\ Len(p) > 0 /\ Len(q) \in Nat
  BY PathFact, LenProperties
<1>2. Len(p) - 1 \in 0 .. Len(p) BY <1>1
<1>3. F!Below(q, F!Front(p, Len(p) - 1)) BY PathWords DEF get_parent_path
<1>4. F!Below(q, p)
  <2>1. F!TreeAssumption BY TreeAssumptionHolds
  <2> QED BY <1>1, <1>2, <1>3, <2>1, F!BelowFront
<1>5. Len(get_parent_path(p)) = Len(p) - 1 BY ParentFact
<1>6. Len(q) <= Len(get_parent_path(p)) BY DEF path_is_inside
<1> QED BY <1>1, <1>4, <1>5, <1>6, PathWords

\* What lies above a path is one of its prefixes.
LEMMA PrefixesFact ==
    ASSUME NEW p \in Path, NEW q \in Path, path_is_inside(q, p)
    PROVE  q \in F!Prefixes(p)
<1>1. Len(q) \in Nat /\ Len(p) \in Nat BY PathFact, LenProperties
<1>2. Len(q) \in 0 .. Len(p) /\ SubSeq(p, 1, Len(q)) = q BY <1>1 DEF path_is_inside
<1> QED BY <1>2, PathWords DEF F!Prefixes

\* The new directories are found among those above the path.
LEMMA DirsAbove ==
    ASSUME NEW t, NEW p \in Path, NEW new, F!DirsTowards(t, p, new)
    PROVE  /\ new \subseteq Path /\ new \in SUBSET F!Prefixes(p)
           /\ \A q \in new : q \notin DOMAIN t /\ q # <<>> /\ path_is_inside(q, p)
<1>1. new \subseteq Path /\ \A q \in new : q \notin DOMAIN t /\ q # <<>> /\ F!Below(q, p)
  BY DEF F!DirsTowards
<1>2. \A q \in new : path_is_inside(q, p) BY <1>1, PathWords
<1>3. \A q \in new : q \in F!Prefixes(p) BY <1>1, <1>2, PrefixesFact
<1> QED BY <1>1, <1>2, <1>3

\* The directories made for a new node are not that node.
LEMMA DirsAboveParent ==
    ASSUME NEW t, NEW p \in Path, p # <<>>, NEW new, F!DirsTowards(t, get_parent_path(p), new)
    PROVE  /\ new \subseteq Path /\ new \in SUBSET F!Prefixes(p) /\ p \notin new
           /\ \A q \in new : q \notin DOMAIN t /\ path_is_inside(q, p) /\ Len(q) < Len(p)
<1>1. get_parent_path(p) \in Path BY ParentFact
<1>2. new \subseteq Path
      /\ \A q \in new : q \notin DOMAIN t /\ path_is_inside(q, get_parent_path(p))
  BY <1>1, DirsAbove
<1>3. \A q \in new : path_is_inside(q, p) /\ Len(q) < Len(p) BY <1>2, ParentInside
<1>4. \A q \in new : q \in F!Prefixes(p) BY <1>2, <1>3, PrefixesFact
<1>5. Len(p) \in Nat BY PathFact, LenProperties
<1>6. p \notin new BY <1>3, <1>5
<1> QED BY <1>2, <1>3, <1>4, <1>6

\* create_directory of FsTree, or a call that fails after making directories.
LEMMA MadeDirectories ==
    ASSUME NEW p \in Path, NEW new, F!DirsTowards(Seen, p, new),
           Seen' = F!WithDirs(Seen, new), SeenCwd' = SeenCwd
    PROVE  F!Next
<1>1. new \in SUBSET F!Prefixes(p) BY DirsAbove
<1>2. F!MakeDirectories(p, new) BY DEF F!MakeDirectories
<1> QED BY <1>1, <1>2 DEF F!Next

\* The call ends while directories are made, or when they are.
LEMMA EnsureEnds ==
    ASSUME Ready, StaysReady, pc = "ensure", Finish, Kept PROVE Good
<1>1. PICK new : EnsureOK(nodes, sectors, snap, op, new) BY ReadyFact DEF CallRef
<1>2. Seen = snap /\ SeenCwd = current_directory BY ReadyFact DEF InCall
<1>3. EnsureTarget \in Path BY EnsureTargetFact DEF Ready
<1>4. F!DirsTowards(Seen, EnsureTarget, new) BY <1>1, <1>2 DEF EnsureOK, EnsureTarget
<1>5. UNCHANGED <<nodes, sectors, filesystem_persistent_backend, current_directory>>
  BY DEF Kept, cacheVars, diskVars
<1>6. pc' = "idle" /\ filesystem_persistent_backend' /\ Alone(nodes')
  BY <1>5, ReadyFact DEF Finish
<1>7. Represents(nodes', sectors', F!WithDirs(snap, new)) BY <1>1, <1>5 DEF EnsureOK
<1>8. Seen' = F!WithDirs(Seen, new) /\ SeenCwd' = SeenCwd /\ RefInv'
  BY <1>2, <1>5, <1>6, <1>7, Returns
<1> QED BY <1>3, <1>4, <1>8, MadeDirectories DEF Good

\* A node is added to a tree held by the table.
LEMMA NodeAdded ==
    ASSUME NEW n, NEW m, NEW x, NEW u, NEW v, NEW p, NEW ty, NEW f \in Slots,
           Represents(n, x, u), ~n[f].used,
           m[f] = Node(p, ty), \A j \in Slots \ {f} : m[j] = n[j],
           DOMAIN v = DOMAIN u \cup {p}, v = [q \in DOMAIN v |-> v[q]],
           \A q \in DOMAIN u : v[q] = u[q], v[p] = [type |-> ty, data |-> <<>>]
    PROVE  Represents(m, x, v)
<1>1. m[f].used /\ m[f].path = p /\ m[f].type = ty /\ m[f].size = 0 BY DEF Node
<1>2. Item(m, x, f) = v[p] BY <1>1, EmptyItem
<1>3. \A j \in Slots \ {f} : Item(m, x, j) = Item(n, x, j) BY DEF Item
<1>4. /\ \A i \in Slots : n[i].used => n[i].path \in DOMAIN u /\ u[n[i].path] = Item(n, x, i)
      /\ \A q \in DOMAIN u : UsedIn(n, q)
  BY DEF Represents
<1>5. ASSUME NEW i \in Slots, m[i].used
      PROVE  m[i].path \in DOMAIN v /\ v[m[i].path] = Item(m, x, i)
  BY <1>1, <1>2, <1>3, <1>4, <1>5
<1>6. ASSUME NEW q \in DOMAIN v PROVE UsedIn(m, q)
  <2>1. CASE q = p BY <1>1, <2>1 DEF UsedIn
  <2>2. CASE q \in DOMAIN u
    <3>1. PICK i \in Slots : n[i].used /\ n[i].path = q BY <1>4, <2>2 DEF UsedIn
    <3>2. i # f BY <3>1
    <3> QED BY <3>1, <3>2 DEF UsedIn
  <2> QED BY <2>1, <2>2
<1> QED BY <1>5, <1>6 DEF Represents

\* One more directory in the table is one more in the tree.
LEMMA DirectoryAdded ==
    ASSUME NEW n, NEW m, NEW x, NEW t, NEW new, NEW p, NEW f \in Slots,
           Represents(n, x, F!WithDirs(t, new)), ~UsedIn(n, p), ~n[f].used,
           m[f] = Node(p, DIR), \A j \in Slots \ {f} : m[j] = n[j]
    PROVE  Represents(m, x, F!WithDirs(t, new \cup {p})) /\ p \notin DOMAIN t
<1>1. p \notin DOMAIN F!WithDirs(t, new) BY NotThere
<1>2. p \notin DOMAIN t /\ p \notin new BY <1>1, MoreDirs
<1> DEFINE u == F!WithDirs(t, new)
           v == F!WithDirs(t, new \cup {p})
<1>3. DOMAIN v = DOMAIN u \cup {p} /\ \A q \in DOMAIN u : v[q] = u[q]
  BY DEF F!WithDirs
<1>4. v[p] = [type |-> DIR, data |-> <<>>]
  <2>1. v = [q \in DOMAIN t \cup (new \cup {p}) |-> IF q \in DOMAIN t THEN t[q] ELSE F!NewDir]
    BY DEF F!WithDirs
  <2>2. v[p] = F!NewDir
    <3> HIDE DEF v
    <3> QED BY <1>2, <2>1
  <2> HIDE DEF v
  <2> QED BY <2>2 DEF F!NewDir, F!DIR, DIR
<1>5. v = [q \in DOMAIN v |-> v[q]] BY DEF F!WithDirs
<1> HIDE DEF u, v
<1>6. Represents(n, x, u) BY DEF u
<1>7. Represents(m, x, v) BY <1>3, <1>4, <1>5, <1>6, NodeAdded
<1> QED BY <1>2, <1>7 DEF v

\* Everything above the path to be made is a directory.
LEMMA GapRooted ==
    ASSUME FsInv, pc = "ensure", FirstGap(EnsureTarget) # NONE, NEW t,
           Represents(nodes, sectors, t)
    PROVE  /\ F!Rooted(t, GapPath) /\ GapPath \in Path /\ path_is_inside(GapPath, EnsureTarget)
           /\ GapPath # <<>>
<1>1. EnsureTarget \in Path /\ GapPath \in Path BY EnsureTargetFact, GapFact
<1>2. PICK e : e = EnsureTarget OBVIOUS
<1>3. PICK k : k = FirstGap(e) OBVIOUS
<1>4. e \in Path /\ e \in Seq(Names) /\ Len(e) \in Nat BY <1>1, <1>2, PathFact, LenProperties
<1>5. {j \in 1 .. Len(e) : ~IsDirectory(SubSeq(e, 1, j))} \in SUBSET Nat BY <1>4
<1>6. /\ k \in 1 .. Len(e)
      /\ \A j \in 1 .. Len(e) : ~IsDirectory(SubSeq(e, 1, j)) => k <= j
  BY <1>2, <1>3, <1>5, LeastFact DEF FirstGap
<1>7. GapPath = SubSeq(e, 1, k) BY <1>2, <1>3 DEF GapPath
<1>8. Len(GapPath) = k /\ k \in 0 .. Len(e) BY <1>4, <1>6, <1>7, PrefixFact
<1>9. path_is_inside(GapPath, e) BY <1>4, <1>6, <1>7, <1>8 DEF path_is_inside
<1>10. GapPath # <<>> BY <1>6, <1>8
<1>11. ASSUME NEW j \in 0 .. k - 1 PROVE F!IsDir(t, F!Front(GapPath, j))
  <2>1. F!Front(GapPath, j) = SubSeq(e, 1, j)
    <3>1. F!TreeAssumption BY TreeAssumptionHolds
    <3>2. j \in 0 .. k BY <1>6
    <3> QED BY <1>4, <1>7, <1>8, <3>1, <3>2, F!FrontFront, PathWords
  <2>2. CASE j = 0
    <3>1. DirIn(nodes, <<>>) BY RootFact
    <3>2. SubSeq(e, 1, j) = <<>> BY <2>2, EmptyPart
    <3> QED BY <2>1, <3>1, <3>2, DirSeen
  <2>3. CASE j # 0
    <3>1. j \in 1 .. Len(e) /\ ~(k <= j) BY <1>4, <1>6, <2>3
    <3>2. IsDirectory(SubSeq(e, 1, j)) BY <1>6, <3>1
    <3> QED BY <2>1, <3>2, FindFact, DirSeen
  <2> QED BY <2>2, <2>3
<1>12. F!Rooted(t, GapPath) BY <1>8, <1>11 DEF F!Rooted
<1> QED BY <1>1, <1>2, <1>9, <1>10, <1>12

\* A node is added while no fault happens.
LEMMA Added ==
    ASSUME Ready, StaysReady, pc # "off", NEW p \in Path, NEW t \in Type, find_free_node # NONE,
           NEW w \in AddOutcomes(p, t), AddNode(p, t, w)
    PROVE  /\ w.ok /\ find_free_node \in Slots /\ ~nodes[find_free_node].used
           /\ nodes'[find_free_node] = Node(p, t)
           /\ \A j \in Slots \ {find_free_node} : nodes'[j] = nodes[j]
           /\ UNCHANGED <<sectors, current_directory, filesystem_persistent_backend>>
           /\ filesystem_persistent_backend
<1>1. FsInv /\ faults = 0 /\ filesystem_persistent_backend BY ReadyFact
<1>2. w.ok BY <1>1, WriteWorks DEF AddNode
<1>3. /\ find_free_node \in Slots /\ ~nodes[find_free_node].used
      /\ \A j \in Slots \ {find_free_node} : nodes'[j] = nodes[j]
      /\ nodes'[find_free_node] = IF w.ok THEN Node(p, t) ELSE FreeNode
  BY <1>1, AddFact
<1> QED BY <1>1, <1>2, <1>3 DEF AddNode

LEMMA EnsureMakeGood == ASSUME Ready, StaysReady, EnsureMake PROVE Good
<1>1. PICK new : EnsureOK(nodes, sectors, snap, op, new) BY ReadyFact DEF CallRef, EnsureMake
<1>2. FsInv /\ pc = "ensure" /\ FirstGap(EnsureTarget) # NONE /\ ~Exists(GapPath)
      /\ find_free_node # NONE /\ Alone(nodes)
  BY ReadyFact DEF EnsureMake
<1>3. PICK p : p = GapPath OBVIOUS
<1>4. PICK w \in AddOutcomes(p, DIR) :
        AddNode(p, DIR, w) /\ IF w.ok THEN UNCHANGED <<callVars, writeVars>> ELSE Finish
  BY <1>3 DEF EnsureMake
<1>5. PICK f : f = find_free_node OBVIOUS
<1>6. p \in Path /\ DIR \in Type BY <1>2, <1>3, GapFact, NodeTypes
<1>7. /\ w.ok /\ f \in Slots /\ ~nodes[f].used /\ nodes'[f] = Node(p, DIR)
      /\ \A j \in Slots \ {f} : nodes'[j] = nodes[j]
      /\ UNCHANGED <<sectors, current_directory, filesystem_persistent_backend>>
  BY <1>2, <1>4, <1>5, <1>6, Added
<1>8. UNCHANGED <<pc, op, at, snap>> BY <1>4, <1>7 DEF callVars
<1>9. ~UsedIn(nodes, p) BY <1>2, <1>3, FindFact
<1>10. /\ Represents(nodes', sectors', F!WithDirs(snap, new \cup {p})) /\ p \notin DOMAIN snap
  BY <1>1, <1>7, <1>9, DirectoryAdded DEF EnsureOK
<1>11. PICK e : e = EnsureTarget OBVIOUS
<1>12. F!DirsTowards(snap, e, new) BY <1>1, <1>11 DEF EnsureOK, EnsureTarget
<1>13. F!Rooted(F!WithDirs(snap, new), p) /\ path_is_inside(p, e) /\ p # <<>>
  BY <1>1, <1>2, <1>3, <1>11, GapRooted DEF EnsureOK
<1>14. \A q : F!Rooted(F!WithDirs(snap, new), q) => F!Rooted(F!WithDirs(snap, new \cup {p}), q)
  BY MoreDirs DEF F!Rooted
<1>15. F!DirsTowards(snap, e, new \cup {p})
  BY <1>6, <1>10, <1>12, <1>13, <1>14, PathWords DEF F!DirsTowards
<1>16. EnsureOK(nodes', sectors', snap', op', new \cup {p})
  BY <1>1, <1>8, <1>10, <1>11, <1>15 DEF EnsureOK, EnsureTarget
<1>17. CallRef' BY <1>2, <1>8, <1>16 DEF CallRef
<1>18. Alone(nodes')
  <2>1. nodes'[f].path = p BY <1>7 DEF Node
  <2> QED BY <1>2, <1>7, <1>9, <2>1, AloneAdded
<1> QED BY <1>2, <1>7, <1>8, <1>17, <1>18, GoesOn DEF InCall

\* The calls that make directories begin.
LEMMA EnsureBegins ==
    ASSUME Ready, pc = "idle", NEW nm \in {"mkdir", "touch", "copy", "move"},
           NEW s, NEW d, Begin(nm, s, d), pc' = "ensure", Kept,
           nm # "mkdir" => d # <<>> /\ ~Exists(d),
           nm \in {"copy", "move"} => Exists(s), nm = "move" => s # <<>>
    PROVE  Good
<1>1. Represents(nodes, sectors, Tree) BY ReadyFact
<1>2. op' = [name |-> nm, src |-> s, dst |-> d] /\ snap' = Tree BY DEF Begin
<1>3. op'.name = nm /\ op'.src = s /\ op'.dst = d BY <1>2
<1>4. UNCHANGED <<nodes, sectors>> BY DEF Kept, cacheVars, diskVars
<1>5. Arguments(Tree, op') BY <1>1, <1>3, NotThere, FindFact DEF Arguments
<1>6. F!WithDirs(Tree, {}) = Tree BY <1>1, NoDirs DEF Represents
<1>7. \A p : F!DirsTowards(Tree, p, {}) BY DEF F!DirsTowards
<1>8. EnsureOK(nodes', sectors', snap', op', {})
  BY <1>1, <1>2, <1>4, <1>5, <1>6, <1>7 DEF EnsureOK
<1>9. CallRef' BY <1>8 DEF CallRef
<1> QED BY <1>2, <1>9, Begins DEF InCall

LEMMA CreateDirectoryGood ==
    ASSUME Ready, StaysReady, NEW p \in Path, filesystem_create_directory(p) PROVE Good
  BY EnsureBegins DEF filesystem_create_directory, Begin

LEMMA CreateFileGood ==
    ASSUME Ready, StaysReady, NEW p \in Path, filesystem_create_file(p) PROVE Good
  BY EnsureBegins DEF filesystem_create_file, Begin

LEMMA EnsureRefusedGood == ASSUME Ready, StaysReady, EnsureRefused PROVE Good
  BY EnsureEnds DEF EnsureRefused

LEMMA DirectoryMadeGood == ASSUME Ready, StaysReady, DirectoryMade PROVE Good
  BY EnsureEnds DEF DirectoryMade, Ensured

\* The directory is there that the call goes on with.
LEMMA EnsuredDir ==
    ASSUME FsInv, Ensured, NEW t, Represents(nodes, sectors, t)
    PROVE  F!IsDir(t, EnsureTarget)
<1>1. PICK e : e = EnsureTarget OBVIOUS
<1>2. e \in Path /\ e \in Seq(Names) /\ Len(e) \in Nat
  BY <1>1, EnsureTargetFact, PathFact, LenProperties
<1>3. CASE Len(e) = 0
  <2>1. e = <<>> BY <1>2, <1>3, EmptySeq
  <2>2. DirIn(nodes, <<>>) BY RootFact DEF Ensured
  <2> QED BY <1>1, <2>1, <2>2, DirSeen
<1>4. CASE Len(e) # 0
  <2>1. Len(e) \in 1 .. Len(e) BY <1>2, <1>4
  <2>2. IsDirectory(SubSeq(e, 1, Len(e))) BY <1>1, <2>1, NoGapFact DEF Ensured
  <2>3. SubSeq(e, 1, Len(e)) = e BY <1>2, SubSeqFull
  <2>4. DirIn(nodes, e) BY <2>2, <2>3, FindFact
  <2> QED BY <1>1, <2>4, DirSeen
<1> QED BY <1>3, <1>4

\* A call that makes something below the directories it made.
LEMMA EnsuredFact ==
    ASSUME Ready, Ensured, op.name # "mkdir", NEW new, EnsureOK(nodes, sectors, snap, op, new)
    PROVE  /\ op.dst \in Path /\ op.dst # <<>> /\ op.dst \notin DOMAIN snap
           /\ new \in SUBSET F!Prefixes(op.dst)
           /\ F!DirsTowards(snap, get_parent_path(op.dst), new)
           /\ F!IsDir(F!WithDirs(snap, new), get_parent_path(op.dst))
           /\ op.dst \notin DOMAIN F!WithDirs(snap, new) /\ ~UsedIn(nodes, op.dst)
           /\ Represents(nodes, sectors, F!WithDirs(snap, new))
           /\ new \subseteq Path
<1>1. FsInv /\ op.name \in {"touch", "copy", "move"} BY ReadyFact DEF FsInv, CallInv, Ensured
<1>2. op.dst \in Path BY <1>1 DEF FsInv, CallType
<1>3. op.dst # <<>> /\ op.dst \notin DOMAIN snap BY <1>1 DEF EnsureOK, Arguments
<1>4. F!DirsTowards(snap, get_parent_path(op.dst), new)
      /\ Represents(nodes, sectors, F!WithDirs(snap, new))
  BY <1>1 DEF EnsureOK
<1>5. new \subseteq Path /\ new \in SUBSET F!Prefixes(op.dst) /\ op.dst \notin new
  BY <1>2, <1>3, <1>4, DirsAboveParent
<1>6. op.dst \notin DOMAIN F!WithDirs(snap, new)
  <2>1. DOMAIN F!WithDirs(snap, new) = DOMAIN snap \cup new BY DEF F!WithDirs
  <2> QED BY <1>3, <1>5, <2>1
<1>7. ~UsedIn(nodes, op.dst) BY <1>4, <1>6, NotThere
<1>8. F!IsDir(F!WithDirs(snap, new), get_parent_path(op.dst))
  BY <1>1, <1>4, EnsuredDir DEF EnsureTarget
<1> QED BY <1>2, <1>3, <1>4, <1>5, <1>6, <1>7, <1>8

LEMMA FileMadeGood == ASSUME Ready, StaysReady, FileMade PROVE Good
<1>1. CASE Finish /\ Kept BY <1>1, EnsureEnds DEF FileMade, Ensured
<1>2. ASSUME find_free_node # NONE, NEW w \in AddOutcomes(op.dst, FILE),
             AddNode(op.dst, FILE, w), Finish
      PROVE  Good
  <2>1. Ensured /\ pc = "ensure" /\ op.name = "touch" BY DEF FileMade, Ensured
  <2>2. PICK new : EnsureOK(nodes, sectors, snap, op, new) BY <2>1, ReadyFact DEF CallRef
  <2>3. PICK p : p = op.dst OBVIOUS
  <2>4. PICK u : u = F!WithDirs(snap, new) OBVIOUS
  <2>5. /\ p \in Path /\ p # <<>> /\ p \notin DOMAIN snap
        /\ new \in SUBSET F!Prefixes(p)
        /\ F!DirsTowards(snap, get_parent_path(p), new)
        /\ F!IsDir(u, get_parent_path(p))
        /\ p \notin DOMAIN u /\ ~UsedIn(nodes, p)
        /\ Represents(nodes, sectors, u)
    BY <2>1, <2>2, <2>3, <2>4, EnsuredFact
  <2>6. Seen = snap /\ SeenCwd = current_directory /\ Alone(nodes)
    BY <2>1, ReadyFact DEF InCall
  <2>7. PICK f : f = find_free_node OBVIOUS
  <2>8. /\ w.ok /\ f \in Slots /\ ~nodes[f].used /\ nodes'[f] = Node(p, FILE)
        /\ \A j \in Slots \ {f} : nodes'[j] = nodes[j]
        /\ UNCHANGED <<sectors, current_directory, filesystem_persistent_backend>>
        /\ filesystem_persistent_backend
    BY <1>2, <2>1, <2>3, <2>5, <2>7, Added, NodeTypes
  <2>9. PICK v : v = [q \in DOMAIN u \cup {p} |-> IF q = p THEN F!NewFile ELSE u[q]] OBVIOUS
  <2>10. /\ DOMAIN v = DOMAIN u \cup {p} /\ v = [q \in DOMAIN v |-> v[q]]
         /\ \A q \in DOMAIN u : v[q] = u[q]
    BY <2>5, <2>9
  <2>11. v[p] = [type |-> FILE, data |-> <<>>]
    BY <2>9 DEF F!NewFile, F!FILE, FILE
  <2>12. Represents(nodes', sectors', v) BY <2>5, <2>8, <2>10, <2>11, NodeAdded
  <2>13. Alone(nodes')
    <3>1. nodes'[f].path = p BY <2>8 DEF Node
    <3> QED BY <2>5, <2>6, <2>8, <3>1, AloneAdded
  <2>14. Seen' = v /\ SeenCwd' = current_directory' /\ RefInv'
    BY <1>2, <2>8, <2>12, <2>13, Returns DEF Finish
  <2>15. F!CreateFile(p, new)
    BY <2>4, <2>5, <2>6, <2>8, <2>9, <2>14, PathWords DEF F!CreateFile
  <2>16. F!Next BY <2>5, <2>15 DEF F!Next
  <2> QED BY <2>14, <2>16 DEF Good
<1> QED BY <1>1, <1>2 DEF FileMade

-----------------------------------------------------------------------------
(* filesystem_copy and filesystem_move: the checks.                        *)

\* Slots can be counted.
LEMMA SlotsFinite ==
    \A S : S \subseteq Slots => IsFiniteSet(S) /\ Cardinality(S) \in Nat
<1>1. IsFiniteSet(Slots)
  <2>1. 0 \in Int /\ FS_MAX_NODES - 1 \in Int BY TableAssumption
  <2> QED BY <2>1, FS_Interval DEF Slots
<1> QED BY <1>1, FS_Subset, FS_CardinalityType

\* Everything in the subtree fits at its new place.
LEMMA TransferFits ==
    ASSUME FsInv, pc = "ensure", ~TooLong, NEW u, Represents(nodes, sectors, u),
           NEW q \in DOMAIN u, path_is_inside(op.src, q)
    PROVE  Retarget(op.src, op.dst, q) \in Path
<1>1. PICK i \in Slots : nodes[i].used /\ nodes[i].path = q BY DEF Represents, UsedIn
<1>2. q \in Path /\ op.src \in Path /\ op.dst \in Path
  BY <1>1 DEF FsInv, StoreType, NodeType, CallType
<1>3. i \in Inside(op.src, 0) BY <1>1, SlotsNat DEF Inside
<1>4. Len(Retarget(op.src, op.dst, q)) \in Nat /\ Retarget(op.src, op.dst, q) \in Seq(Names)
  BY <1>2, RetargetFact, LenProperties
<1>5. ~(Len(Retarget(op.src, op.dst, q)) > MaxDepth) BY <1>1, <1>3 DEF TooLong
<1>6. Len(Retarget(op.src, op.dst, q)) <= MaxDepth BY <1>4, <1>5, TableAssumption
<1> QED BY <1>4, <1>6, PathFact

LEMMA TransferCheckedGood == ASSUME Ready, StaysReady, TransferChecked PROVE Good
<1>1. CASE Finish BY <1>1, EnsureEnds DEF TransferChecked, Ensured
<1>2. ASSUME ~NoRoom, ~TooLong, Go(op.name, 0), UNCHANGED writeVars PROVE Good
  <2>1. FsInv /\ Ensured /\ pc = "ensure" /\ op.name \in {"copy", "move"} /\ op.name # "mkdir"
    BY ReadyFact DEF TransferChecked, Ensured
  <2>2. PICK new : EnsureOK(nodes, sectors, snap, op, new) BY <2>1, ReadyFact DEF CallRef
  <2>3. PICK u : u = F!WithDirs(snap, new) OBVIOUS
  <2>4. /\ F!DirsTowards(snap, get_parent_path(op.dst), new)
        /\ F!IsDir(u, get_parent_path(op.dst))
        /\ Represents(nodes, sectors, u)
    BY <2>1, <2>2, <2>3, EnsuredFact
  <2>5. ~path_is_inside(op.src, op.dst) BY <2>1, DisjointFact
  <2>6. \A q \in DOMAIN u : path_is_inside(op.src, q) => Retarget(op.src, op.dst, q) \in Path
    BY <1>2, <2>1, <2>4, TransferFits
  <2>7. GraftOK(snap, op, new)
    BY <2>2, <2>3, <2>4, <2>5, <2>6 DEF GraftOK, EnsureOK
  <2>8. /\ \A p \in DOMAIN u : UsedIn(nodes, p)
        /\ \A i \in Slots : nodes[i].used =>
             nodes[i].path \in DOMAIN u /\ u[nodes[i].path] = Item(nodes, sectors, i)
    BY <2>4 DEF Represents
  <2>9. MoveOK(nodes, sectors, u, op, 0)
    <3>1. \A i \in Slots : i >= 0 BY SlotsNat
    <3> QED BY <2>8, <3>1, Zenon DEF MoveOK
  <2>10. ASSUME op.name = "copy" PROVE CopyOK(nodes, sectors, u, op, 0, NONE)
    <3>1. PICK A : A = {i \in Slots : ~nodes[i].used} OBVIOUS
    <3>2. PICK B : B = {i \in Slots : i >= 0 /\ SourceSlot(nodes, op, i)} OBVIOUS
    <3>3. B = Inside(op.src, 0) BY <3>2 DEF Inside, SourceSlot
    <3>4. Cardinality(A) \in Nat /\ Cardinality(B) \in Nat BY <3>1, <3>2, SlotsFinite
    <3>5. ~(Cardinality(A) < Cardinality(B))
      BY <1>2, <2>10, <3>1, <3>3 DEF NoRoom, count_free_nodes
    <3>6. Cardinality(A) >= Cardinality(B) BY <3>4, <3>5
    <3>7. \A j \in Slots : ~(j < 0) BY SlotsNat
    <3> QED BY <2>8, <3>1, <3>2, <3>6, <3>7 DEF CopyOK
  <2>11. pc' = op.name /\ at' = 0 /\ UNCHANGED <<op, snap, nodes, sectors, current_directory,
                                                filesystem_persistent_backend>>
    BY <1>2 DEF Go, TransferChecked, Kept, cacheVars, diskVars
  <2>12. CallRef'
    <3>1. CASE op.name = "copy"
      <4>1. CopyOK(nodes', sectors', F!WithDirs(snap', new), op', at', NONE)
        BY <2>3, <2>10, <2>11, <3>1
      <4> QED BY <2>7, <2>11, <3>1, <4>1 DEF CallRef
    <3>2. CASE op.name = "move"
      <4>1. MoveOK(nodes', sectors', F!WithDirs(snap', new), op', at')
        BY <2>3, <2>9, <2>11
      <4> QED BY <2>7, <2>11, <3>2, <4>1 DEF CallRef
    <3> QED BY <2>1, <3>1, <3>2
  <2>13. Alone(nodes') BY <2>1, <2>11, ReadyFact
  <2> QED BY <2>1, <2>11, <2>12, <2>13, GoesOn DEF InCall
<1> QED BY <1>1, <1>2 DEF TransferChecked

\* filesystem_copy and filesystem_move begin.
LEMMA TransferBegins ==
    ASSUME Ready, NEW nm \in {"copy", "move"}, NEW s, NEW d, nm = "move" => s # <<>>,
           Transfer(nm, s, d)
    PROVE  Good
<1>1. /\ nm \in {"mkdir", "touch", "copy", "move"} /\ pc = "idle" /\ Begin(nm, s, d)
      /\ pc' = "ensure" /\ Kept /\ d # <<>> /\ ~Exists(d) /\ Exists(s)
  BY DEF Transfer, Begin
<1> QED BY <1>1, EnsureBegins

LEMMA CopyGood ==
    ASSUME Ready, StaysReady, NEW s \in Path, NEW d \in Path, filesystem_copy(s, d) PROVE Good
  BY TransferBegins DEF filesystem_copy

LEMMA MoveGood ==
    ASSUME Ready, StaysReady, NEW s \in Path, NEW d \in Path, filesystem_move(s, d) PROVE Good
  BY TransferBegins DEF filesystem_move

-----------------------------------------------------------------------------
(* filesystem_remove.                                                      *)

\* The tree without the subtree of s.
Without(t, s) == [q \in {r \in DOMAIN t : ~F!Below(s, r)} |-> t[q]]

\* A path is inside itself.
LEMMA InsideItself == ASSUME NEW p \in Path PROVE path_is_inside(p, p)
<1>1. p \in Seq(Names) /\ Len(p) \in Nat BY PathFact, LenProperties
<1> QED BY <1>1, SubSeqFull DEF path_is_inside

\* Nothing lies below a file.
LEMMA BelowFile ==
    ASSUME NEW t, F!IsTree(t), NEW s \in DOMAIN t, NEW q \in DOMAIN t,
           path_is_inside(s, q), q # s
    PROVE  t[s].type = DIR
<1>1. F!TreeAssumption BY TreeAssumptionHolds
<1>2. s \in Path /\ q \in Path /\ F!Shape(t) BY DEF F!IsTree
<1>3. s \in Seq(Names) /\ q \in Seq(Names) BY <1>2, PathFact
<1>4. F!Below(s, q) BY PathWords
<1>5. F!IsDir(t, s) BY <1>1, <1>2, <1>3, <1>4, F!AboveFact
<1> QED BY <1>5, PathWords DEF F!IsDir

\* What remains when no node of the subtree has a slot.
LEMMA WithoutShown ==
    ASSUME NEW n, NEW x, NEW t, NEW s,
           \A i \in Slots : n[i].used =>
             /\ n[i].path \in DOMAIN t /\ t[n[i].path] = Item(n, x, i)
             /\ ~path_is_inside(s, n[i].path),
           \A p \in DOMAIN t : ~path_is_inside(s, p) => UsedIn(n, p)
    PROVE  Represents(n, x, Without(t, s))
<1>1. PICK D : D = {r \in DOMAIN t : ~F!Below(s, r)} OBVIOUS
<1>2. PICK v : v = [q \in D |-> t[q]] OBVIOUS
<1>3. \A r : r \in D <=> r \in DOMAIN t /\ ~path_is_inside(s, r) BY <1>1, PathWords
<1>4. DOMAIN v = D /\ v = [q \in DOMAIN v |-> v[q]] /\ \A q \in D : v[q] = t[q] BY <1>2
<1>5. Represents(n, x, v) BY <1>3, <1>4 DEF Represents
<1> QED BY <1>1, <1>2, <1>5 DEF Without

\* The call returns with the subtree gone.
LEMMA RemoveEnds ==
    ASSUME Ready, StaysReady, pc = "remove", pc' = "idle", Alone(nodes'),
           UNCHANGED <<current_directory, filesystem_persistent_backend>>,
           Represents(nodes', sectors', Without(snap, op.src))
    PROVE  Good
<1>1. RemoveOK(nodes, sectors, snap, op, at) /\ ~path_is_inside(op.src, current_directory)
  BY ReadyFact DEF CallRef
<1>2. Seen = snap /\ SeenCwd = current_directory /\ filesystem_persistent_backend
  BY ReadyFact DEF InCall
<1>3. Seen' = Without(snap, op.src) /\ SeenCwd' = current_directory' /\ RefInv'
  BY <1>2, Returns
<1>4. op.src \in DOMAIN Seen /\ op.src # <<>> BY <1>1, <1>2 DEF RemoveOK
<1>5. F!Remove(op.src) BY <1>1, <1>2, <1>3, <1>4, PathWords DEF F!Remove, Without
<1> QED BY <1>3, <1>4, <1>5 DEF Good, F!Next

LEMMA RemoveGood ==
    ASSUME Ready, StaysReady, NEW p \in Path, NEW r \in BOOLEAN, filesystem_remove(p, r)
    PROVE  Good
<1>1. FsInv /\ pc = "idle" /\ Represents(nodes, sectors, Tree)
  BY ReadyFact DEF filesystem_remove, Begin
<1>2. PICK nm : nm = IF IsFile(p) THEN "unlink" ELSE "remove" OBVIOUS
<1>3. /\ op' = [name |-> nm, src |-> p, dst |-> <<>>] /\ snap' = Tree
      /\ at' = IF IsFile(p) THEN find_node(p) ELSE 0
      /\ pc' = "remove" /\ Kept /\ p # <<>> /\ Exists(p)
      /\ ~path_is_inside(p, current_directory)
  BY <1>2 DEF filesystem_remove, Begin
<1>4. op'.name = nm /\ op'.src = p BY <1>3
<1>5. UNCHANGED <<nodes, sectors, current_directory>> BY <1>3 DEF Kept, cacheVars, diskVars
<1>6. /\ \A i \in Slots : nodes[i].used =>
           nodes[i].path \in DOMAIN Tree /\ Tree[nodes[i].path] = Item(nodes, sectors, i)
      /\ \A q \in DOMAIN Tree : UsedIn(nodes, q)
  BY <1>1 DEF Represents
<1>7. p \in DOMAIN Tree BY <1>1, <1>3, FindFact, NotThere
<1>8. ASSUME nm = "remove" PROVE \A i \in Slots : i >= at'
  BY <1>2, <1>3, <1>8, SlotsNat
<1>9. ASSUME nm = "unlink"
      PROVE  at' \in Slots /\ nodes[at'].used /\ nodes[at'].path = p /\ nodes[at'].type = FILE
  <2>1. IsFile(p) BY <1>2, <1>9
  <2> QED BY <1>3, <2>1, FindFact DEF IsFile
<1>10. RemoveOK(nodes', sectors', snap', op', at')
  BY <1>3, <1>4, <1>5, <1>6, <1>7, <1>8, <1>9 DEF RemoveOK
<1>11. CallRef' BY <1>3, <1>4, <1>5, <1>10 DEF CallRef
<1> QED BY <1>1, <1>3, <1>11, Begins DEF InCall

\* The slot that is cleared next.
LEMMA NextInside ==
    ASSUME NEW s, NEW k, Inside(s, k) # {}, NEW i, i = Least(Inside(s, k))
    PROVE  /\ i \in Slots /\ i \in Nat /\ i >= k /\ nodes[i].used /\ path_is_inside(s, nodes[i].path)
           /\ \A j \in Slots : j >= k /\ nodes[j].used /\ path_is_inside(s, nodes[j].path) => i <= j
<1>1. PICK S : S = Inside(s, k) OBVIOUS
<1>2. S \in SUBSET Nat BY <1>1, SlotsNat DEF Inside
<1>3. i \in S /\ \A j \in S : i <= j BY <1>1, <1>2, LeastFact
<1> QED BY <1>1, <1>3, SlotsNat DEF Inside

LEMMA RemoveNodeGood == ASSUME Ready, StaysReady, RemoveNode PROVE Good
<1>1. PICK i : i = Least(Inside(op.src, at)) OBVIOUS
<1>2. /\ FsInv /\ faults = 0 /\ pc = "remove" /\ Alone(nodes) /\ F!IsTree(snap)
      /\ filesystem_persistent_backend
  BY ReadyFact DEF RemoveNode, InCall
<1>3. RemoveOK(nodes, sectors, snap, op, at) /\ ~path_is_inside(op.src, current_directory)
  BY <1>2, ReadyFact DEF CallRef
<1>4. PICK w \in clear_persisted_node(i) :
        /\ Wrote(w)
        /\ nodes' = IF w.ok THEN [nodes EXCEPT ![i] = FreeNode] ELSE nodes
        /\ IF w.ok /\ op.name # "unlink" THEN Go("remove", i + 1) /\ UNCHANGED writeVars
           ELSE Finish
        /\ UNCHANGED <<sectors, current_directory, filesystem_persistent_backend>>
  BY <1>1 DEF RemoveNode
<1>5. w.ok BY <1>2, <1>4, WriteWorks
<1>6. /\ i \in Slots /\ i \in Nat /\ i >= at /\ nodes[i].used /\ path_is_inside(op.src, nodes[i].path)
      /\ \A j \in Slots : j >= at /\ nodes[j].used /\ path_is_inside(op.src, nodes[j].path)
           => i <= j
  BY <1>1, NextInside DEF RemoveNode
<1>7. ~nodes'[i].used /\ \A j \in Slots \ {i} : nodes'[j] = nodes[j]
  BY <1>2, <1>4, <1>5, <1>6 DEF FsInv, StoreType, FreeNode
<1>8. Alone(nodes') BY <1>2, <1>7 DEF Alone
<1>9. \A j \in Slots : nodes'[j].used =>
        /\ j # i /\ nodes[j].used /\ nodes'[j] = nodes[j]
        /\ nodes'[j].path \in DOMAIN snap
        /\ snap[nodes'[j].path] = Item(nodes', sectors', j)
  BY <1>3, <1>4, <1>7 DEF RemoveOK, Item
<1>10. ASSUME NEW p \in DOMAIN snap, ~path_is_inside(op.src, p) PROVE UsedIn(nodes', p)
  <2>1. PICK j \in Slots : nodes[j].used /\ nodes[j].path = p
    BY <1>3, <1>10 DEF RemoveOK, UsedIn
  <2>2. j # i BY <1>6, <1>10, <2>1
  <2> QED BY <1>7, <2>1, <2>2 DEF UsedIn
<1>11. op.src \in DOMAIN snap /\ op.src \in Path BY <1>2, <1>3 DEF RemoveOK, FsInv, CallType
<1>12. CASE op.name = "unlink"
  <2>1. at \in Slots /\ nodes[at].used /\ nodes[at].path = op.src /\ nodes[at].type = FILE
    BY <1>3, <1>12 DEF RemoveOK
  <2>2. i = at
    <3>1. at >= at /\ path_is_inside(op.src, nodes[at].path)
      BY <1>11, <2>1, InsideItself, SlotsNat
    <3>2. i <= at BY <1>6, <2>1, <3>1
    <3> QED BY <1>6, <2>1, <3>2, SlotsNat
  <2>3. snap[op.src].type = FILE
    <3>1. snap[op.src] = Item(nodes, sectors, at) BY <1>3, <2>1 DEF RemoveOK
    <3> QED BY <2>1, <3>1 DEF Item
  <2>4. ASSUME NEW j \in Slots, nodes'[j].used PROVE ~path_is_inside(op.src, nodes'[j].path)
    <3> SUFFICES ASSUME path_is_inside(op.src, nodes'[j].path) PROVE FALSE OBVIOUS
    <3>1. j # at /\ nodes[j].used /\ nodes[j].path = nodes'[j].path BY <1>9, <2>2, <2>4
    <3>2. nodes'[j].path # op.src BY <1>2, <2>1, <3>1 DEF Alone
    <3>3. PICK q : q = nodes'[j].path OBVIOUS
    <3>4. q \in DOMAIN snap /\ path_is_inside(op.src, q) /\ q # op.src
      BY <1>9, <2>4, <3>2, <3>3
    <3>5. snap[op.src].type = DIR BY <1>2, <1>11, <3>4, BelowFile
    <3> QED BY <2>3, <3>5 DEF DIR, FILE
  <2>5. Represents(nodes', sectors', Without(snap, op.src))
    BY <1>9, <1>10, <2>4, WithoutShown
  <2>6. pc' = "idle" BY <1>4, <1>12 DEF Finish
  <2> QED BY <1>2, <1>4, <1>8, <2>5, <2>6, RemoveEnds
<1>13. CASE op.name # "unlink"
  <2>1. pc' = "remove" /\ at' = i + 1 /\ UNCHANGED <<op, snap>>
    BY <1>4, <1>5, <1>13 DEF Go
  <2>2. op.name = "remove" BY <1>2, <1>13 DEF FsInv, CallInv
  <2>3. ASSUME NEW j \in Slots, nodes'[j].used, path_is_inside(op.src, nodes'[j].path)
        PROVE  j >= i + 1
    <3>1. j # i /\ nodes[j].used /\ path_is_inside(op.src, nodes[j].path) BY <1>9, <2>3
    <3>2. j >= at BY <1>3, <2>2, <3>1 DEF RemoveOK
    <3>3. i <= j BY <1>6, <3>1, <3>2
    <3> QED BY <1>6, <3>1, <3>3, SlotsNat
  <2>4. RemoveOK(nodes', sectors', snap', op', at')
    BY <1>3, <1>9, <1>10, <1>13, <2>1, <2>3 DEF RemoveOK
  <2>5. CallRef' BY <1>3, <1>4, <2>1, <2>4 DEF CallRef
  <2> QED BY <1>2, <1>4, <1>8, <2>1, <2>5, GoesOn DEF InCall
<1> QED BY <1>12, <1>13

LEMMA RemoveDoneGood == ASSUME Ready, StaysReady, RemoveDone PROVE Good
<1>1. FsInv /\ pc = "remove" /\ Alone(nodes) BY ReadyFact DEF RemoveDone
<1>2. RemoveOK(nodes, sectors, snap, op, at) BY <1>1, ReadyFact DEF CallRef
<1>3. pc' = "idle" /\ UNCHANGED <<nodes, sectors, current_directory,
                                   filesystem_persistent_backend>>
  BY DEF RemoveDone, Finish, Kept, cacheVars, diskVars
<1>4. \A i \in Slots : i >= at /\ nodes[i].used => ~path_is_inside(op.src, nodes[i].path)
  BY DEF RemoveDone, Inside
<1>5. op.name = "remove"
  <2> SUFFICES ASSUME op.name = "unlink" PROVE FALSE BY <1>1 DEF FsInv, CallInv
  <2>1. at \in Slots /\ nodes[at].used /\ nodes[at].path = op.src BY <1>2 DEF RemoveOK
  <2>2. path_is_inside(op.src, nodes[at].path)
    BY <1>1, <2>1, InsideItself DEF FsInv, CallType
  <2> QED BY <1>4, <2>1, <2>2, SlotsNat
<1>6. \A i \in Slots : nodes[i].used => ~path_is_inside(op.src, nodes[i].path)
  BY <1>2, <1>4, <1>5 DEF RemoveOK
<1>7. Represents(nodes, sectors, Without(snap, op.src))
  BY <1>2, <1>6, WithoutShown DEF RemoveOK
<1> QED BY <1>1, <1>3, <1>7, RemoveEnds

-----------------------------------------------------------------------------
(* filesystem_change_directory, filesystem_read_file, filesystem_write_file *)
(* and filesystem_append_file.                                             *)

LEMMA ChangeDirectoryGood ==
    ASSUME Ready, StaysReady, NEW p \in Path, filesystem_change_directory(p) PROVE Good
<1>1. /\ pc = "idle" /\ IsDirectory(p) /\ current_directory' = p /\ pc' = "idle"
      /\ UNCHANGED <<nodes, sectors, filesystem_persistent_backend>>
  BY DEF filesystem_change_directory, diskVars
<1>2. /\ FsInv /\ filesystem_persistent_backend /\ Alone(nodes)
      /\ Represents(nodes, sectors, Tree) /\ Seen = Tree
  BY <1>1, ReadyFact
<1>3. Represents(nodes', sectors', Tree) /\ Alone(nodes') BY <1>1, <1>2
<1>4. Seen' = Tree /\ SeenCwd' = current_directory' /\ RefInv' BY <1>1, <1>2, <1>3, Returns
<1>5. F!IsDir(Seen, p) BY <1>1, <1>2, FindFact, DirSeen
<1>6. F!ChangeDirectory(p) BY <1>1, <1>2, <1>4, <1>5 DEF F!ChangeDirectory
<1>7. p \in DOMAIN Seen BY <1>5 DEF F!IsDir
<1> QED BY <1>4, <1>6, <1>7 DEF Good, F!Next

\* A file's node can be read.
LEMMA ReadsWork ==
    ASSUME Ready, pc # "off", NEW i \in Slots, nodes[i].used
    PROVE  disk[i].size = nodes[i].size /\ (nodes[i].type = FILE => Readable(i))
<1>1. FsInv /\ faults = 0 /\ filesystem_persistent_backend BY ReadyFact
<1>2. disk[i].used /\ disk[i].type = nodes[i].type /\ disk[i].size = nodes[i].size
  BY <1>1, MirroredNode
<1> QED BY <1>2 DEF Readable

LEMMA ReadFailsGood ==
    ASSUME Ready, StaysReady, NEW p \in Path, ReadFails(p) PROVE Good
<1>1. FsInv /\ faults = 0 /\ faults' = 0 /\ pc = "idle"
  BY ReadyFact DEF StaysReady, Calm, ReadFails
<1>2. PICK i : i = find_node(p) OBVIOUS
<1>3. i \in Slots /\ nodes[i].used /\ nodes[i].type = FILE
  BY <1>1, <1>2, FindFact DEF ReadFails, IsFile
<1>4. disk[i].size = nodes[i].size /\ Readable(i) BY <1>1, <1>3, ReadsWork
<1>5. nodes[i].size \in Nat BY <1>1, <1>3 DEF FsInv, StoreType, NodeType
<1>6. ~(disk[i].size > nodes[i].size) BY <1>4, <1>5
<1>7. FALSE BY <1>1, <1>2, <1>4, <1>6 DEF ReadFails
<1> QED BY <1>7

\* A write begins.
LEMMA WriteBegins ==
    ASSUME Ready, NEW nm \in {"write", "append"}, NEW p \in Path, NEW c,
           Begin(nm, p, <<>>), IsFile(p), StartWrite(find_node(p), c), Kept
    PROVE  Good
<1>1. FsInv /\ pc = "idle" /\ Represents(nodes, sectors, Tree) BY ReadyFact DEF Begin
<1>2. /\ op' = [name |-> nm, src |-> p, dst |-> <<>>] /\ snap' = Tree
      /\ pc' = "data" /\ slot' = find_node(p)
  BY DEF Begin, StartWrite
<1>3. op'.name = nm /\ op'.src = p BY <1>2
<1>4. UNCHANGED <<nodes, sectors>> BY DEF Kept, cacheVars, diskVars
<1>5. slot' \in Slots /\ nodes[slot'].used /\ nodes[slot'].path = p /\ nodes[slot'].type = FILE
  BY <1>2, FindFact DEF IsFile
<1>6. p \in DOMAIN Tree /\ Tree[p] = Item(nodes, sectors, slot') BY <1>1, <1>5 DEF Represents
<1>7. Tree[p].type = FILE BY <1>5, <1>6 DEF Item
<1>8. WriteOK(nodes', sectors', snap', op', slot')
  BY <1>1, <1>2, <1>3, <1>4, <1>5, <1>6, <1>7 DEF WriteOK, Represents
<1>9. op'.name # "copy" /\ pc' = "data" BY <1>2, <1>3
<1>10. CallRef' BY <1>8, <1>9 DEF CallRef
<1> QED BY <1>1, <1>2, <1>10, Begins DEF InCall

LEMMA WriteFileGood ==
    ASSUME Ready, StaysReady, NEW p \in Path, NEW c \in Datas, filesystem_write_file(p, c)
    PROVE  Good
  BY WriteBegins DEF filesystem_write_file

LEMMA AppendFileGood ==
    ASSUME Ready, StaysReady, NEW p \in Path, NEW c \in Datas, filesystem_append_file(p, c)
    PROVE  Good
  BY WriteBegins DEF filesystem_append_file

\* What is written can be read back.
LEMMA Written ==
    ASSUME FsInv, NEW w \in Slots, NEW b \in Seq(Sector \cup {0}), Len(b) <= FS_MAX_FILE_SIZE,
           \A m \in 1 .. Len(b) : sectors[w][m] = b[m]
    PROVE  SubSeq(sectors[w], 1, Len(b)) = b
<1>1. PICK s : s = sectors[w] OBVIOUS
<1>2. s \in [1 .. FS_MAX_FILE_SIZE -> Sector \cup {0}] /\ FS_MAX_FILE_SIZE \in Nat
  BY <1>1, TableAssumption DEF FsInv, StoreType
<1>3. s \in Seq(Sector \cup {0}) /\ Len(s) = FS_MAX_FILE_SIZE BY <1>2, IsASeq, LenProperties
<1>4. Len(b) \in 0 .. Len(s) BY <1>2, <1>3, LenProperties
<1>5. /\ SubSeq(s, 1, Len(b)) \in Seq(Sector \cup {0}) /\ Len(SubSeq(s, 1, Len(b))) = Len(b)
      /\ \A i \in 1 .. Len(b) : SubSeq(s, 1, Len(b))[i] = s[i]
  BY <1>3, <1>4, FrontFact
<1> QED BY <1>1, <1>5, SeqEqual

\* While no fault happens a write goes on to its end.
LEMMA DataFits ==
    ASSUME Ready, pc = "data"
    PROVE  /\ FsInv /\ filesystem_persistent_backend /\ Alone(nodes) /\ faults = 0
           /\ slot \in Slots /\ nodes[slot].used /\ nodes[slot].type = FILE
           /\ Readable(slot) /\ buf \in Seq(Sector \cup {0})
           /\ Len(buf) \in Nat /\ Len(buf) <= FS_MAX_FILE_SIZE
           /\ sec \in Nat /\ sec > 0
           /\ op.name \in {"write", "append", "copy"}
           /\ op.name # "copy" =>
                \A m \in 1 .. sec - 1 : m \in DOMAIN buf /\ sectors[slot][m] = buf[m]
<1>1. FsInv /\ filesystem_persistent_backend /\ Alone(nodes) /\ faults = 0 BY ReadyFact
<1>2. /\ slot \in Slots /\ nodes[slot].used /\ buf \in Seq(Sector \cup {0})
      /\ sec \in Nat /\ sec > 0 /\ op.name \in {"write", "append", "copy"}
  BY <1>1 DEF FsInv, CallType, CallInv
<1>3. nodes[slot].type = FILE BY DEF Ready, CutInv, PlaceInv
<1>4. Readable(slot) BY <1>2, <1>3, ReadsWork
<1>5. Len(buf) \in Nat BY <1>2, LenProperties
<1>6. CASE op.name = "copy"
  <2>1. PICK new : CopyDataOK(nodes, sectors, op, at, slot, buf, sec)
    BY <1>6, ReadyFact DEF CallRef
  <2>2. PICK j : j = at - 1 OBVIOUS
  <2>3. j \in Slots /\ nodes[j].used /\ buf = SubSeq(sectors[j], 1, nodes[j].size)
    BY <2>1, <2>2 DEF CopyDataOK, SourceSlot
  <2>4. disk[j].size = nodes[j].size BY <2>3, ReadsWork
  <2>5. Len(buf) = nodes[j].size /\ nodes[j].size \in 0 .. FS_MAX_FILE_SIZE
    BY <1>1, <2>3, <2>4, ContentOf
  <2>6. Len(buf) <= FS_MAX_FILE_SIZE BY <2>5, TableAssumption
  <2> QED BY <1>1, <1>2, <1>3, <1>4, <1>5, <1>6, <2>6
<1>7. CASE op.name # "copy"
  <2>1. /\ Len(buf) <= FS_MAX_FILE_SIZE
        /\ \A m \in 1 .. sec - 1 : m \in DOMAIN buf /\ sectors[slot][m] = buf[m]
    BY <1>1, <1>2, <1>7 DEF Ready, CutInv, WriteInv
  <2> QED BY <1>1, <1>2, <1>3, <1>4, <1>5, <1>7, <2>1
<1> QED BY <1>6, <1>7

LEMMA RamWriteGood == ASSUME Ready, StaysReady, RamWrite PROVE Good
  BY ReadyFact DEF RamWrite

LEMMA WriteRefusedGood == ASSUME Ready, StaysReady, WriteRefused PROVE Good
<1>1. Readable(slot) /\ Len(buf) \in Nat /\ Len(buf) <= FS_MAX_FILE_SIZE
  BY DataFits DEF WriteRefused
<1>2. ~(Len(buf) > FS_MAX_FILE_SIZE) BY <1>1, TableAssumption
<1>3. FALSE BY <1>1, <1>2 DEF WriteRefused
<1> QED BY <1>3

\* The effect of WriteSector.
LEMMA SectorWritten ==
    ASSUME Ready, StaysReady, WriteSector
    PROVE  /\ sec \in DOMAIN buf
           /\ sectors'[slot][sec] = buf[sec]
           /\ \A m : m # sec => sectors'[slot][m] = sectors[slot][m]
           /\ \A i \in Slots \ {slot} : sectors'[i] = sectors[i]
           /\ sec' = sec + 1
           /\ UNCHANGED <<pc, op, at, snap, buf, slot, nodes, current_directory,
                          filesystem_persistent_backend>>
<1>1. faults = 0 /\ faults' = 0 BY ReadyFact DEF StaysReady, Calm
<1>2. /\ pc = "data" /\ sec <= Len(buf)
      /\ sectors' = [sectors EXCEPT ![slot][sec] = buf[sec]] /\ sec' = sec + 1
      /\ UNCHANGED <<pc, op, at, snap, buf, slot, nodes, current_directory,
                     filesystem_persistent_backend>>
  BY <1>1 DEF WriteSector, WriteAllowed, callVars
<1>3. /\ slot \in Slots /\ sec \in Nat /\ sec > 0 /\ Len(buf) \in Nat /\ FsInv
      /\ Len(buf) <= FS_MAX_FILE_SIZE /\ buf \in Seq(Sector \cup {0})
  BY <1>2, DataFits
<1>4. sec \in 1 .. Len(buf) /\ sec \in 1 .. FS_MAX_FILE_SIZE /\ DOMAIN buf = 1 .. Len(buf)
  BY <1>2, <1>3, TableAssumption, LenProperties
<1>5. PICK s : s = sectors[slot] OBVIOUS
<1>6. DOMAIN sectors = Slots /\ DOMAIN s = 1 .. FS_MAX_FILE_SIZE
  BY <1>3, <1>5 DEF FsInv, StoreType
<1>7. /\ sectors'[slot] = [s EXCEPT ![sec] = buf[sec]]
      /\ \A i \in Slots \ {slot} : sectors'[i] = sectors[i]
  BY <1>2, <1>3, <1>5, <1>6
<1>8. sectors'[slot][sec] = buf[sec] BY <1>4, <1>6, <1>7
<1>9. \A m : m # sec => sectors'[slot][m] = s[m] BY <1>7
<1> QED BY <1>2, <1>4, <1>5, <1>7, <1>8, <1>9

\* A sector of a file that filesystem_write_file or filesystem_append_file
\* writes.
LEMMA SectorOfWrite ==
    ASSUME Ready, StaysReady, WriteSector, op.name # "copy" PROVE Good
<1>1. pc = "data" /\ Alone(nodes) BY ReadyFact DEF WriteSector, WriteAllowed
<1>2. WriteOK(nodes, sectors, snap, op, slot) BY <1>1, ReadyFact DEF CallRef
<1>3. /\ UNCHANGED <<pc, op, at, snap, slot, nodes, current_directory,
                     filesystem_persistent_backend>>
      /\ \A i \in Slots \ {slot} : sectors'[i] = sectors[i]
  BY SectorWritten
<1>4. \A i \in Slots \ {slot} : Item(nodes', sectors', i) = Item(nodes, sectors, i)
  BY <1>3 DEF Item
<1>5. WriteOK(nodes', sectors', snap', op', slot') BY <1>2, <1>3, <1>4 DEF WriteOK
<1>6. CallRef' BY <1>1, <1>3, <1>5 DEF CallRef
<1> QED BY <1>1, <1>3, <1>6, GoesOn DEF InCall

\* The effect of WriteSize.
LEMMA SizeWritten ==
    ASSUME Ready, StaysReady, WriteSize
    PROVE  /\ nodes'[slot] = [nodes[slot] EXCEPT !.size = Len(buf)]
           /\ nodes'[slot].size = Len(buf) /\ nodes'[slot].used = nodes[slot].used
           /\ nodes'[slot].path = nodes[slot].path /\ nodes'[slot].type = nodes[slot].type
           /\ \A i \in Slots \ {slot} : nodes'[i] = nodes[i]
           /\ UNCHANGED <<sectors, current_directory, filesystem_persistent_backend>>
           /\ IF op.name = "copy" THEN Go("copy", at) ELSE Finish
           /\ Alone(nodes')
           /\ 1 .. Len(buf) \subseteq 1 .. sec - 1
<1>1. pc = "data" BY DEF WriteSize, WriteAllowed
<1>2. FsInv /\ faults = 0 /\ slot \in Slots /\ Alone(nodes) /\ Len(buf) \in Nat /\ sec \in Nat
  BY <1>1, DataFits
<1>3. PICK w : /\ Wrote(w) /\ WriteReturns(w.ok)
               /\ nodes' = IF w.ok THEN [nodes EXCEPT ![slot].size = Len(buf)] ELSE nodes
  BY DEF WriteSize
<1>4. w.ok BY <1>2, <1>3, WriteWorks
<1>5. nodes' = [nodes EXCEPT ![slot] = [nodes[slot] EXCEPT !.size = Len(buf)]] BY <1>3, <1>4
<1>6. nodes \in [Slots -> NodeType] BY <1>2 DEF FsInv, StoreType
<1>7. PICK z : z = [nodes[slot] EXCEPT !.size = Len(buf)] OBVIOUS
<1>8. nodes'[slot] = z /\ \A i \in Slots \ {slot} : nodes'[i] = nodes[i]
  BY <1>2, <1>5, <1>6, <1>7
<1>9. z.size = Len(buf) /\ z.used = nodes[slot].used /\ z.path = nodes[slot].path
      /\ z.type = nodes[slot].type
  BY <1>2, <1>6, <1>7 DEF NodeType
<1>10. Alone(nodes') BY <1>2, <1>8, <1>9 DEF Alone
<1>11. IF op.name = "copy" THEN Go("copy", at) ELSE Finish BY <1>3, <1>4 DEF WriteReturns
<1>12. 1 .. Len(buf) \subseteq 1 .. sec - 1 BY <1>2 DEF WriteSize
<1> QED BY <1>7, <1>8, <1>9, <1>10, <1>11, <1>12 DEF WriteSize

\* The record of a write or an append, which returns.
LEMMA SizeOfWrite ==
    ASSUME Ready, StaysReady, WriteSize, op.name # "copy" PROVE Good
<1>1. pc = "data" BY DEF WriteSize, WriteAllowed
<1>2. /\ FsInv /\ slot \in Slots /\ nodes[slot].used /\ nodes[slot].type = FILE
      /\ filesystem_persistent_backend /\ buf \in Seq(Sector \cup {0})
      /\ Len(buf) <= FS_MAX_FILE_SIZE /\ Len(buf) \in Nat
      /\ \A m \in 1 .. sec - 1 : m \in DOMAIN buf /\ sectors[slot][m] = buf[m]
  BY <1>1, DataFits
<1>3. WriteOK(nodes, sectors, snap, op, slot) BY <1>1, ReadyFact DEF CallRef
<1>4. /\ nodes'[slot].size = Len(buf) /\ nodes'[slot].used = nodes[slot].used
      /\ nodes'[slot].path = nodes[slot].path /\ nodes'[slot].type = nodes[slot].type
      /\ \A i \in Slots \ {slot} : nodes'[i] = nodes[i]
      /\ UNCHANGED <<sectors, current_directory, filesystem_persistent_backend>>
      /\ Finish /\ Alone(nodes')
      /\ 1 .. Len(buf) \subseteq 1 .. sec - 1
  BY SizeWritten
<1>5. Seen = snap /\ SeenCwd = current_directory /\ F!IsTree(snap) BY <1>1, ReadyFact DEF InCall
<1>6. PICK p : p = op.src OBVIOUS
<1>7. p \in DOMAIN snap /\ snap[p].type = FILE /\ snap[p] \in F!NodeInfo
      /\ nodes[slot].path = p
  BY <1>3, <1>5, <1>6 DEF WriteOK, F!IsTree
<1>8. PICK t : t = [snap EXCEPT ![p].data = buf] OBVIOUS
<1>9. /\ DOMAIN t = DOMAIN snap /\ t = [q \in DOMAIN t |-> t[q]]
      /\ \A q \in DOMAIN t : q # p => t[q] = snap[q]
      /\ t[p] = [snap[p] EXCEPT !.data = buf]
  BY <1>5, <1>7, <1>8 DEF F!IsTree
<1>10. t[p] = [type |-> FILE, data |-> buf] BY <1>7, <1>9 DEF F!NodeInfo
<1>11. SubSeq(sectors[slot], 1, Len(buf)) = buf BY <1>2, <1>4, Written
<1>12. Item(nodes', sectors', slot) = t[p] BY <1>2, <1>4, <1>10, <1>11 DEF Item
<1>13. \A i \in Slots \ {slot} : Item(nodes', sectors', i) = Item(nodes, sectors, i)
  BY <1>4 DEF Item
<1>14. ASSUME NEW i \in Slots, nodes'[i].used
       PROVE  nodes'[i].path \in DOMAIN t /\ t[nodes'[i].path] = Item(nodes', sectors', i)
  <2>1. CASE i = slot BY <1>4, <1>7, <1>9, <1>12, <2>1
  <2>2. CASE i # slot
    <3>1. nodes[i].used /\ nodes[i].path = nodes'[i].path BY <1>4, <1>14, <2>2
    <3>2. nodes[i].path \in DOMAIN snap /\ snap[nodes[i].path] = Item(nodes, sectors, i)
      BY <1>3, <2>2, <3>1 DEF WriteOK
    <3>3. nodes[i].path # p
      <4>1. Alone(nodes) BY <1>1, ReadyFact
      <4> QED BY <1>2, <1>7, <2>2, <3>1, <4>1 DEF Alone
    <3> QED BY <1>9, <1>13, <2>2, <3>1, <3>2, <3>3
  <2> QED BY <2>1, <2>2
<1>15. ASSUME NEW q \in DOMAIN t PROVE UsedIn(nodes', q)
  <2>1. PICK i \in Slots : nodes[i].used /\ nodes[i].path = q
    BY <1>3, <1>9 DEF WriteOK, UsedIn
  <2>2. nodes'[i].used /\ nodes'[i].path = q BY <1>4, <2>1
  <2> QED BY <2>2 DEF UsedIn
<1>16. Represents(nodes', sectors', t) BY <1>9, <1>14, <1>15 DEF Represents
<1>17. pc' = "idle" /\ filesystem_persistent_backend' BY <1>2, <1>4 DEF Finish
<1>18. Seen' = t /\ SeenCwd' = current_directory' /\ RefInv'
  BY <1>4, <1>16, <1>17, Returns
<1>19. buf \in Content BY <1>2, ContentFact
<1>20. F!WriteFile(p, buf)
  BY <1>4, <1>5, <1>7, <1>8, <1>18, <1>19, PathWords DEF F!WriteFile
<1> QED BY <1>5, <1>7, <1>18, <1>19, <1>20 DEF Good, F!Next

-----------------------------------------------------------------------------
(* Subtrees at their new place.                                            *)

\* What the checks of a copy or a move have left true.
LEMMA GraftFact ==
    ASSUME FsInv, F!IsTree(snap), op.name \in {"copy", "move"}, NEW new, GraftOK(snap, op, new),
           NEW b, b = F!WithDirs(snap, new)
    PROVE  /\ op.src \in Path /\ op.dst \in Path /\ op.src \in DOMAIN snap /\ op.src \in DOMAIN b
           /\ F!IsTree(b) /\ DOMAIN b \subseteq Path
           /\ \A q : path_is_inside(op.dst, q) /\ q \in Path => q \notin DOMAIN b
           /\ new \in SUBSET F!Prefixes(op.dst)
           /\ \A q : F!IsDir(snap, q) => F!IsDir(b, q)
<1>1. F!TreeAssumption BY TreeAssumptionHolds
<1>2. op.src \in Path /\ op.dst \in Path BY DEF FsInv, CallType
<1>3. /\ op.dst # <<>> /\ op.dst \notin DOMAIN snap /\ op.src \in DOMAIN snap
      /\ F!DirsTowards(snap, get_parent_path(op.dst), new)
      /\ F!IsDir(b, get_parent_path(op.dst))
  BY DEF GraftOK, Arguments
<1>4. /\ F!IsTree(b) /\ DOMAIN b = DOMAIN snap \cup new
      /\ \A q : F!IsDir(snap, q) => F!IsDir(b, q)
  BY <1>1, <1>3, F!WithDirsTree
<1>5. new \in SUBSET F!Prefixes(op.dst) /\ op.dst \notin new BY <1>2, <1>3, DirsAboveParent
<1>6. op.dst \notin DOMAIN b BY <1>3, <1>4, <1>5
<1>7. ASSUME NEW q \in Path, path_is_inside(op.dst, q) PROVE q \notin DOMAIN b
  <2>1. q \in Seq(Names) /\ F!Below(op.dst, q) BY <1>7, PathFact, PathWords
  <2> QED BY <1>1, <1>2, <1>4, <1>6, <2>1, F!NothingBelow
<1>8. DOMAIN b \subseteq Path BY <1>4 DEF F!IsTree
<1> QED BY <1>2, <1>3, <1>4, <1>5, <1>7, <1>8

\* Of two paths above a third one is above the other.
LEMMA TwoAbove ==
    ASSUME NEW s \in Path, NEW d \in Path, NEW p \in Path, path_is_inside(s, p), path_is_inside(d, p)
    PROVE  path_is_inside(s, d) \/ path_is_inside(d, s)
<1>1. /\ s \in Seq(Names) /\ d \in Seq(Names) /\ p \in Seq(Names)
      /\ Len(s) \in Nat /\ Len(d) \in Nat
  BY PathFact, LenProperties
<1>2. /\ \A k \in 1 .. Len(s) : p[k] = s[k]
      /\ \A k \in 1 .. Len(d) : p[k] = d[k]
  BY <1>1, InsideFact
<1>3. CASE Len(s) <= Len(d)
  <2>1. \A k \in 1 .. Len(s) : d[k] = s[k] BY <1>1, <1>2, <1>3
  <2> QED BY <1>1, <1>3, <2>1, InsideFact
<1>4. CASE Len(d) <= Len(s)
  <2>1. \A k \in 1 .. Len(d) : s[k] = d[k] BY <1>1, <1>2, <1>4
  <2> QED BY <1>1, <1>4, <2>1, InsideFact
<1> QED BY <1>1, <1>3, <1>4

\* The new place of a node is free, and outside the subtree.
LEMMA TargetFree ==
    ASSUME FsInv, F!IsTree(snap), op.name \in {"copy", "move"}, NEW new, GraftOK(snap, op, new),
           NEW b, b = F!WithDirs(snap, new), NEW q \in DOMAIN b, path_is_inside(op.src, q),
           NEW r, r = Retarget(op.src, op.dst, q)
    PROVE  r \in Path /\ r \notin DOMAIN b /\ ~path_is_inside(op.src, r)
<1>1. PICK s : s = op.src OBVIOUS
<1>2. PICK d : d = op.dst OBVIOUS
<1>3. /\ s \in Path /\ d \in Path /\ s \in DOMAIN b /\ q \in Path
      /\ \A p : path_is_inside(d, p) /\ p \in Path => p \notin DOMAIN b
  BY <1>1, <1>2, GraftFact
<1>4. r \in Path /\ ~path_is_inside(s, d) BY <1>1, <1>2 DEF GraftOK
<1>5. path_is_inside(d, r) BY <1>1, <1>2, <1>3, <1>4, RetargetFact
<1>6. r \notin DOMAIN b BY <1>3, <1>4, <1>5
<1>7. ~path_is_inside(s, r) BY <1>3, <1>4, <1>5, TwoAbove
<1> QED BY <1>1, <1>4, <1>6, <1>7

\* No two nodes have the same new place.
LEMMA TargetsDiffer ==
    ASSUME NEW s \in Path, NEW d \in Path, NEW p \in Path, path_is_inside(s, p),
           NEW q \in Path, path_is_inside(s, q), Retarget(s, d, p) = Retarget(s, d, q)
    PROVE  p = q
<1>1. F!TreeAssumption BY TreeAssumptionHolds
<1>2. s \in Seq(Names) /\ d \in Seq(Names) /\ p \in Seq(Names) /\ q \in Seq(Names)
  BY PathFact
<1>3. F!Below(s, p) /\ F!Below(s, q) /\ F!Rebase(s, d, p) = F!Rebase(s, d, q) BY PathWords
<1> QED BY <1>1, <1>2, <1>3, F!RebaseInjective

\* The tree after a copy or a move, kept being what stays where it was.
Spread(b, s, d, kept) ==
    LET moved == {q \in DOMAIN b : F!Below(s, q)}
    IN  [q \in kept \cup {F!Rebase(s, d, m) : m \in moved} |->
           IF q \in kept THEN b[q] ELSE b[CHOOSE m \in moved : F!Rebase(s, d, m) = q]]

\* Both outcomes of a graft are a spread.
LEMMA SpreadFact ==
    ASSUME NEW b, NEW s, NEW d
    PROVE  /\ F!Grafted(b, s, d, TRUE) = Spread(b, s, d, DOMAIN b)
           /\ F!Grafted(b, s, d, FALSE)
                = Spread(b, s, d, DOMAIN b \ {q \in DOMAIN b : F!Below(s, q)})
  BY DEF F!Grafted, Spread

\* The grafted tree, node by node: new paths meet no old one and no other.
LEMMA GraftedFact ==
    ASSUME FsInv, F!IsTree(snap), op.name \in {"copy", "move"}, NEW new, GraftOK(snap, op, new),
           NEW b, b = F!WithDirs(snap, new), NEW kept \in SUBSET DOMAIN b,
           NEW g, g = Spread(b, op.src, op.dst, kept)
    PROVE  /\ g = [p \in DOMAIN g |-> g[p]]
           /\ \A q \in kept : q \in DOMAIN g /\ g[q] = b[q]
           /\ \A q \in DOMAIN b : path_is_inside(op.src, q) =>
                /\ Retarget(op.src, op.dst, q) \in DOMAIN g
                /\ g[Retarget(op.src, op.dst, q)] = b[q]
           /\ \A p \in DOMAIN g :
                \/ p \in kept
                \/ \E q \in DOMAIN b : path_is_inside(op.src, q) /\ p = Retarget(op.src, op.dst, q)
<1>1. PICK s : s = op.src OBVIOUS
<1>2. PICK d : d = op.dst OBVIOUS
<1> DEFINE moved == {q \in DOMAIN b : F!Below(s, q)}
           R(m) == F!Rebase(s, d, m)
<1>3. g = [q \in kept \cup {R(m) : m \in moved} |->
             IF q \in kept THEN b[q] ELSE b[CHOOSE m \in moved : R(m) = q]]
  BY <1>1, <1>2 DEF Spread
<1>4. \A m : R(m) = Retarget(s, d, m) BY PathWords
<1>5. \A q : q \in moved <=> q \in DOMAIN b /\ path_is_inside(s, q) BY PathWords
<1> HIDE DEF moved, R
<1>6. s \in Path /\ d \in Path /\ DOMAIN b \subseteq Path BY <1>1, <1>2, GraftFact
<1>7. \A m \in moved : R(m) \notin DOMAIN b BY <1>1, <1>2, <1>4, <1>5, TargetFree
<1>8. \A m, n \in moved : R(m) = R(n) => m = n
  <2> SUFFICES ASSUME NEW m \in moved, NEW n \in moved, R(m) = R(n) PROVE m = n OBVIOUS
  <2>1. m \in Path /\ n \in Path /\ path_is_inside(s, m) /\ path_is_inside(s, n)
    BY <1>5, <1>6
  <2>2. Retarget(s, d, m) = Retarget(s, d, n) BY <1>4
  <2> QED BY <1>6, <2>1, <2>2, TargetsDiffer
<1>9. DOMAIN g = kept \cup {R(m) : m \in moved} /\ g = [p \in DOMAIN g |-> g[p]] BY <1>3
<1>10. \A q \in kept : g[q] = b[q] BY <1>3
<1>11. ASSUME NEW m \in moved PROVE R(m) \in DOMAIN g /\ g[R(m)] = b[m]
  <2>1. R(m) \notin kept BY <1>7
  <2>2. (CHOOSE n \in moved : R(n) = R(m)) = m BY <1>8
  <2> QED BY <1>3, <1>9, <2>1, <2>2
<1>12. \A q \in DOMAIN b : path_is_inside(s, q) =>
         Retarget(s, d, q) \in DOMAIN g /\ g[Retarget(s, d, q)] = b[q]
  BY <1>4, <1>5, <1>11
<1>13. \A p \in DOMAIN g : p \in kept \/ \E q \in moved : p = R(q) BY <1>9
<1>14. \A p \in DOMAIN g :
         \/ p \in kept
         \/ \E q \in DOMAIN b : path_is_inside(s, q) /\ p = Retarget(s, d, q)
  BY <1>4, <1>5, <1>13
<1>15. \A q \in kept : q \in DOMAIN g /\ g[q] = b[q] BY <1>9, <1>10
<1> QED BY <1>1, <1>2, <1>9, <1>12, <1>14, <1>15

-----------------------------------------------------------------------------
(* filesystem_copy.                                                        *)

\* Where the copy of a subtree stands.
LEMMA CopyFact ==
    ASSUME Ready, pc \in {"copy", "data"}, op.name = "copy", NEW new, GraftOK(snap, op, new),
           NEW b, b = F!WithDirs(snap, new), NEW w, CopyOK(nodes, sectors, b, op, at, w)
    PROVE  /\ FsInv /\ F!IsTree(snap) /\ Alone(nodes) /\ filesystem_persistent_backend
           /\ Seen = snap /\ SeenCwd = current_directory
           /\ op.name \in {"copy", "move"}
           /\ \A i \in Slots : SourceSlot(nodes, op, i) =>
                /\ nodes[i].used /\ nodes[i].path \in DOMAIN b
                /\ b[nodes[i].path] = Item(nodes, sectors, i)
                /\ ~UsedIn(nodes, Retarget(op.src, op.dst, nodes[i].path))
                     \/ \E j \in Slots : /\ j < at /\ SourceSlot(nodes, op, j)
                                         /\ nodes[j].path = nodes[i].path
<1>1. /\ FsInv /\ F!IsTree(snap) /\ Alone(nodes) /\ filesystem_persistent_backend
      /\ Seen = snap /\ SeenCwd = current_directory
  BY ReadyFact DEF InCall
<1>2. op.name \in {"copy", "move"} OBVIOUS
<1>3. /\ op.src \in Path /\ op.dst \in Path /\ DOMAIN b \subseteq Path
  BY <1>1, <1>2, GraftFact
<1>4. \A i \in Slots : nodes[i].used =>
        \/ nodes[i].path \in DOMAIN b /\ b[nodes[i].path] = Item(nodes, sectors, i)
        \/ \E j \in Slots : /\ j < at /\ SourceSlot(nodes, op, j)
                            /\ nodes[i].path = Retarget(op.src, op.dst, nodes[j].path)
  BY DEF CopyOK
<1>5. \A q \in DOMAIN b : path_is_inside(op.src, q) =>
        /\ Retarget(op.src, op.dst, q) \notin DOMAIN b
        /\ ~path_is_inside(op.src, Retarget(op.src, op.dst, q))
  BY <1>1, <1>2, TargetFree
<1>6. \A i \in Slots : nodes[i].used /\ path_is_inside(op.src, nodes[i].path) =>
        nodes[i].path \in Path
  BY <1>1 DEF FsInv, StoreType, NodeType
<1>7. ASSUME NEW j \in Slots, SourceSlot(nodes, op, j),
             path_is_inside(op.src, Retarget(op.src, op.dst, nodes[j].path))
      PROVE  FALSE
  <2>1. PICK p : p = nodes[j].path OBVIOUS
  <2>2. p \in Path /\ path_is_inside(op.src, p) BY <1>6, <1>7, <2>1 DEF SourceSlot
  <2>3. p \notin DOMAIN b BY <1>5, <1>7, <2>1, <2>2
  <2>4. PICK k \in Slots : SourceSlot(nodes, op, k) /\ p = Retarget(op.src, op.dst, nodes[k].path)
    BY <1>4, <1>7, <2>1, <2>3 DEF SourceSlot
  <2>5. path_is_inside(op.dst, p)
    <3>1. nodes[k].path \in Path /\ path_is_inside(op.src, nodes[k].path)
      BY <1>6, <2>4 DEF SourceSlot
    <3> QED BY <1>3, <2>4, <3>1, RetargetFact
  <2>6. ~path_is_inside(op.src, op.dst) /\ op.src \in DOMAIN b
    BY <1>1, <1>2, GraftFact DEF GraftOK
  <2>7. path_is_inside(op.dst, op.src) BY <1>3, <2>2, <2>5, <2>6, TwoAbove
  <2>8. \A q : path_is_inside(op.dst, q) /\ q \in Path => q \notin DOMAIN b
    BY <1>1, <1>2, GraftFact
  <2> QED BY <1>3, <2>6, <2>7, <2>8
<1>8. ASSUME NEW i \in Slots, SourceSlot(nodes, op, i)
      PROVE  /\ nodes[i].used /\ nodes[i].path \in DOMAIN b
             /\ b[nodes[i].path] = Item(nodes, sectors, i)
  BY <1>4, <1>7, <1>8 DEF SourceSlot
<1>9. ASSUME NEW i \in Slots, SourceSlot(nodes, op, i),
             UsedIn(nodes, Retarget(op.src, op.dst, nodes[i].path))
      PROVE  \E j \in Slots : /\ j < at /\ SourceSlot(nodes, op, j)
                              /\ nodes[j].path = nodes[i].path
  <2>1. PICK p : p = nodes[i].path OBVIOUS
  <2>2. PICK r : r = Retarget(op.src, op.dst, p) OBVIOUS
  <2>3. p \in DOMAIN b /\ path_is_inside(op.src, p) BY <1>8, <1>9, <2>1 DEF SourceSlot
  <2>4. r \notin DOMAIN b BY <1>5, <2>2, <2>3
  <2>5. PICK k \in Slots : nodes[k].used /\ nodes[k].path = r
    BY <1>9, <2>1, <2>2 DEF UsedIn
  <2>6. PICK j \in Slots : /\ j < at /\ SourceSlot(nodes, op, j)
                           /\ r = Retarget(op.src, op.dst, nodes[j].path)
    BY <1>4, <2>4, <2>5
  <2>7. PICK q : q = nodes[j].path OBVIOUS
  <2>8. q \in DOMAIN b /\ path_is_inside(op.src, q) BY <1>8, <2>6, <2>7 DEF SourceSlot
  <2>9. q = p BY <1>3, <2>2, <2>3, <2>6, <2>7, <2>8, TargetsDiffer
  <2> QED BY <2>1, <2>6, <2>7, <2>9
<1> QED BY <1>1, <1>2, <1>8, <1>9

\* A node is added to a table while a subtree is copied.
LEMMA CopyAdded ==
    ASSUME NEW n, NEW m, NEW x, NEW b, NEW o, NEW k, CopyOK(n, x, b, o, k, NONE), k \in Nat,
           NEW i \in Slots, i \in Nat, i >= k, SourceSlot(n, o, i),
           \A j \in Slots : j >= k /\ SourceSlot(n, o, j) => i <= j,
           NEW f \in Slots, ~n[f].used, \A j \in Slots \ {f} : m[j] = n[j],
           m[f].used, m[f].path = Retarget(o.src, o.dst, n[i].path),
           ~path_is_inside(o.src, m[f].path),
           NEW w \in {f, NONE}, w = f \/ Item(m, x, f) = Item(m, x, i)
    PROVE  CopyOK(m, x, b, o, i + 1, w)
<1>1. \A j \in Slots : SourceSlot(m, o, j) <=> SourceSlot(n, o, j) BY DEF SourceSlot
<1>2. \A j \in Slots : n[j].used => m[j] = n[j] /\ Item(m, x, j) = Item(n, x, j)
  BY DEF Item
<1>3. \A p : UsedIn(n, p) => UsedIn(m, p) BY <1>2 DEF UsedIn
<1>4. \A p \in DOMAIN b : UsedIn(m, p) BY <1>3 DEF CopyOK
<1>5. \A j \in Slots : SourceSlot(n, o, j) => n[j].used /\ m[j] = n[j] BY <1>2 DEF SourceSlot
<1>6. ASSUME NEW j \in Slots, m[j].used
      PROVE  \/ m[j].path \in DOMAIN b /\ b[m[j].path] = Item(m, x, j)
             \/ \E l \in Slots : /\ l < i + 1 /\ SourceSlot(m, o, l)
                                 /\ m[j].path = Retarget(o.src, o.dst, m[l].path)
                                 /\ j # w => Item(m, x, j) = Item(m, x, l)
  <2>1. CASE j = f
    <3>1. i < i + 1 /\ SourceSlot(m, o, i) /\ m[i] = n[i] BY <1>1, <1>5
    <3>2. j # w => Item(m, x, j) = Item(m, x, i) BY <2>1
    <3> QED BY <2>1, <3>1, <3>2
  <2>2. CASE j # f
    <3>1. n[j].used /\ m[j] = n[j] /\ Item(m, x, j) = Item(n, x, j) BY <1>2, <1>6, <2>2
    <3>2. CASE n[j].path \in DOMAIN b /\ b[n[j].path] = Item(n, x, j) BY <3>1, <3>2
    <3>3. CASE \E l \in Slots : /\ l < k /\ SourceSlot(n, o, l)
                                /\ n[j].path = Retarget(o.src, o.dst, n[l].path)
                                /\ j # NONE => Item(n, x, j) = Item(n, x, l)
      <4>1. PICK l \in Slots : /\ l < k /\ SourceSlot(n, o, l)
                               /\ n[j].path = Retarget(o.src, o.dst, n[l].path)
                               /\ j # NONE => Item(n, x, j) = Item(n, x, l)
        BY <3>3
      <4>2. l < i + 1 /\ j # NONE BY <4>1, SlotsNat
      <4>3. SourceSlot(m, o, l) /\ m[l] = n[l] /\ Item(m, x, l) = Item(n, x, l)
        BY <1>1, <1>2, <1>5, <4>1
      <4> QED BY <3>1, <4>1, <4>2, <4>3
    <3> QED BY <3>1, <3>2, <3>3 DEF CopyOK
  <2> QED BY <2>1, <2>2
<1>7. ASSUME NEW j \in Slots, j < i + 1, SourceSlot(m, o, j)
      PROVE  UsedIn(m, Retarget(o.src, o.dst, m[j].path))
  <2>1. SourceSlot(n, o, j) /\ m[j] = n[j] BY <1>1, <1>5, <1>7
  <2>2. CASE j < k BY <1>3, <2>1, <2>2 DEF CopyOK
  <2>3. CASE ~(j < k)
    <3>1. i <= j /\ j \in Nat BY <2>1, <2>3, SlotsNat
    <3>2. j = i BY <1>7, <3>1
    <3> QED BY <2>1, <3>2 DEF UsedIn
  <2> QED BY <2>2, <2>3
<1>8. PICK A : A = {j \in Slots : ~n[j].used} OBVIOUS
<1>9. PICK C : C = {j \in Slots : j >= k /\ SourceSlot(n, o, j)} OBVIOUS
<1>10. Cardinality(A) >= Cardinality(C) BY <1>8, <1>9 DEF CopyOK
<1>11. {j \in Slots : ~m[j].used} = A \ {f} BY <1>8
<1>12. {j \in Slots : j >= i + 1 /\ SourceSlot(m, o, j)} = C \ {i}
  <2>1. \A j \in Slots : j >= i + 1 /\ SourceSlot(m, o, j) <=> j \in C \ {i}
    <3> SUFFICES ASSUME NEW j \in Slots
                 PROVE  j >= i + 1 /\ SourceSlot(m, o, j) <=> j \in C \ {i}
      OBVIOUS
    <3>1. j \in Nat BY SlotsNat
    <3>2. j \in C <=> j >= k /\ SourceSlot(m, o, j) BY <1>1, <1>9
    <3>3. j \in C => i <= j BY <1>9
    <3> QED BY <3>1, <3>2, <3>3
  <2>2. C \subseteq Slots BY <1>9
  <2> QED BY <2>1, <2>2
<1>13. /\ IsFiniteSet(A) /\ IsFiniteSet(C) /\ Cardinality(A) \in Nat /\ Cardinality(C) \in Nat
  BY <1>8, <1>9, SlotsFinite
<1>14. f \in A /\ i \in C BY <1>8, <1>9
<1>15. Cardinality(A \ {f}) = Cardinality(A) - 1 /\ Cardinality(C \ {i}) = Cardinality(C) - 1
  BY <1>13, <1>14, FS_RemoveElement
<1>16. Cardinality(A \ {f}) >= Cardinality(C \ {i}) BY <1>10, <1>13, <1>15
<1>17. Cardinality({j \in Slots : ~m[j].used})
         >= Cardinality({j \in Slots : j >= i + 1 /\ SourceSlot(m, o, j)})
  BY <1>11, <1>12, <1>16, Zenon
<1> QED BY <1>4, <1>6, <1>7, <1>17 DEF CopyOK

\* A subtree is copied: where the call stands.
LEMMA Copying ==
    ASSUME Ready, pc = "copy"
    PROVE  /\ op.name = "copy" /\ at \in Nat
           /\ \E new : /\ GraftOK(snap, op, new)
                       /\ CopyOK(nodes, sectors, F!WithDirs(snap, new), op, at, NONE)
  BY ReadyFact DEF CallRef, FsInv, CallInv, CallType

LEMMA CopyNodeGood == ASSUME Ready, StaysReady, CopyNode PROVE Good
<1>1. pc = "copy" /\ op.name = "copy" /\ at \in Nat BY Copying DEF CopyNode
<1>2. PICK new : /\ GraftOK(snap, op, new)
                 /\ CopyOK(nodes, sectors, F!WithDirs(snap, new), op, at, NONE)
  BY <1>1, Copying
<1>3. PICK b : b = F!WithDirs(snap, new) OBVIOUS
<1>4. CopyOK(nodes, sectors, b, op, at, NONE) BY <1>2, <1>3
<1>5. /\ FsInv /\ F!IsTree(snap) /\ Alone(nodes) /\ filesystem_persistent_backend
      /\ op.name \in {"copy", "move"}
      /\ \A i \in Slots : SourceSlot(nodes, op, i) =>
           /\ nodes[i].used /\ nodes[i].path \in DOMAIN b
           /\ b[nodes[i].path] = Item(nodes, sectors, i)
           /\ ~UsedIn(nodes, Retarget(op.src, op.dst, nodes[i].path))
                \/ \E j \in Slots : /\ j < at /\ SourceSlot(nodes, op, j)
                                    /\ nodes[j].path = nodes[i].path
  BY <1>1, <1>2, <1>3, <1>4, CopyFact
<1>6. faults = 0 /\ faults' = 0 BY ReadyFact DEF StaysReady, Calm
<1>7. PICK i : i = Least(Inside(op.src, at)) OBVIOUS
<1>8. /\ i \in Slots /\ i \in Nat /\ i >= at /\ SourceSlot(nodes, op, i)
      /\ \A j \in Slots : j >= at /\ SourceSlot(nodes, op, j) => i <= j
  BY <1>7, NextInside DEF CopyNode, SourceSlot
<1>9. PICK p : p = nodes[i].path OBVIOUS
<1>10. PICK r : r = Retarget(op.src, op.dst, p) OBVIOUS
<1>11. p \in DOMAIN b /\ path_is_inside(op.src, p) BY <1>5, <1>8, <1>9 DEF SourceSlot
<1>12. r \in Path /\ ~path_is_inside(op.src, r) BY <1>2, <1>3, <1>5, <1>10, <1>11, TargetFree
<1>13. ~UsedIn(nodes, r)
  <2> SUFFICES ASSUME UsedIn(nodes, r) PROVE FALSE OBVIOUS
  <2>1. PICK j \in Slots : j < at /\ SourceSlot(nodes, op, j) /\ nodes[j].path = nodes[i].path
    BY <1>5, <1>8, <1>9, <1>10
  <2>2. j = i BY <1>5, <1>8, <2>1 DEF Alone
  <2> QED BY <1>1, <1>8, <2>1, <2>2
<1>14. find_free_node # NONE
  <2> SUFFICES ASSUME find_free_node = NONE PROVE FALSE OBVIOUS
  <2>1. PICK A : A = {j \in Slots : ~nodes[j].used} OBVIOUS
  <2>2. PICK C : C = {j \in Slots : j >= at /\ SourceSlot(nodes, op, j)} OBVIOUS
  <2>3. Cardinality(A) >= Cardinality(C) BY <1>4, <2>1, <2>2 DEF CopyOK
  <2>4. A = {} BY <2>1, NoneFree
  <2>5. i \in C BY <1>8, <2>2
  <2>6. IsFiniteSet(C) /\ Cardinality(C) \in Nat BY <2>2, SlotsFinite
  <2>7. Cardinality(A) = 0 /\ Cardinality(C) # 0 BY <2>4, <2>5, <2>6, FS_EmptySet
  <2> QED BY <2>3, <2>6, <2>7
<1>15. PICK ty : ty = nodes[i].type OBVIOUS
<1>16. ty \in Type /\ nodes[i].size \in Nat /\ (ty = DIR => nodes[i].size = 0)
  BY <1>5, <1>8, <1>15, ReadyFact DEF FsInv, StoreType, NodeType, DirsEmpty, EmptyIfDir
<1>17. nodes[i].used /\ disk[i].size = nodes[i].size /\ (ty = FILE => Readable(i))
  BY <1>1, <1>5, <1>8, <1>15, ReadsWork
<1>18. Stored(i) = SubSeq(sectors[i], 1, nodes[i].size) /\ Len(Stored(i)) = nodes[i].size
  BY <1>5, <1>6, <1>8, <1>17, ContentOf, MirroredItem, ReadyFact
<1>19. PICK w \in AddOutcomes(r, ty) :
         /\ AddNode(r, ty, w)
         /\ \/ ~w.ok
            \/ ty # FILE /\ Go("copy", i + 1)
            \/ /\ ty = FILE /\ Go("data", i + 1)
               /\ buf' = IF nodes[i].size > 0 THEN Stored(i) ELSE <<>>
               /\ slot' = find_free_node /\ sec' = 1
  <2>1. ~(Exists(r) \/ find_free_node = NONE) BY <1>13, <1>14, FindFact
  <2>2. ~(ty = FILE /\ (~Readable(i) \/ Len(Stored(i)) # nodes[i].size)) BY <1>17, <1>18
  <2>3. faults' # faults + 1 BY <1>6
  <2>4. \/ ty = FILE /\ (~Readable(i) \/ Len(Stored(i)) # nodes[i].size)
        \/ faults' = faults + 1
        \/ IF Exists(r) \/ find_free_node = NONE THEN TRUE
           ELSE \E w \in AddOutcomes(r, ty) :
                  /\ AddNode(r, ty, w)
                  /\ \/ ~w.ok
                     \/ ty # FILE /\ Go("copy", i + 1)
                     \/ /\ ty = FILE /\ Go("data", i + 1)
                        /\ buf' = IF ty = FILE /\ nodes[i].size > 0 THEN Stored(i) ELSE <<>>
                        /\ slot' = find_free_node /\ sec' = 1
    BY <1>7, <1>9, <1>10, <1>15, Zenon DEF CopyNode
  <2> QED BY <2>1, <2>2, <2>3, <2>4
<1>20. PICK f : f = find_free_node OBVIOUS
<1>21. /\ w.ok /\ f \in Slots /\ ~nodes[f].used /\ nodes'[f] = Node(r, ty)
       /\ \A j \in Slots \ {f} : nodes'[j] = nodes[j]
       /\ UNCHANGED <<sectors, current_directory, filesystem_persistent_backend>>
  BY <1>1, <1>12, <1>14, <1>16, <1>19, <1>20, Added
<1>22. nodes'[f].used /\ nodes'[f].path = r /\ nodes'[f].type = ty /\ nodes'[f].size = 0
  BY <1>21 DEF Node
<1>23. Alone(nodes') BY <1>5, <1>13, <1>21, <1>22, AloneAdded
<1>24. nodes'[i] = nodes[i] /\ SourceSlot(nodes', op, i)
  BY <1>8, <1>17, <1>21 DEF SourceSlot
<1>25. ASSUME NEW u \in {f, NONE}, u = f \/ Item(nodes', sectors', f) = Item(nodes', sectors', i)
       PROVE  CopyOK(nodes', sectors', b, op, i + 1, u)
  BY <1>1, <1>4, <1>8, <1>9, <1>10, <1>12, <1>21, <1>22, <1>25, CopyAdded
<1>26. CASE ty # FILE /\ Go("copy", i + 1)
  <2>1. pc' = "copy" /\ at' = i + 1 /\ UNCHANGED <<op, snap>> BY <1>26 DEF Go
  <2>2. nodes[i].size = 0 /\ ty = DIR BY <1>16, <1>26 DEF Type
  <2>3. Item(nodes', sectors', f) = Item(nodes', sectors', i)
    <3>1. Item(nodes', sectors', f) = [type |-> DIR, data |-> <<>>]
      BY <1>22, <2>2, EmptyItem
    <3>2. nodes'[i].size = 0 /\ nodes'[i].type = DIR BY <1>15, <1>24, <2>2
    <3>3. Item(nodes', sectors', i) = [type |-> DIR, data |-> <<>>] BY <3>2, EmptyItem
    <3> QED BY <3>1, <3>3
  <2>4. CopyOK(nodes', sectors', F!WithDirs(snap', new), op', at', NONE)
    BY <1>3, <1>25, <2>1, <2>3
  <2>5. CallRef' BY <1>2, <2>1, <2>4 DEF CallRef
  <2> QED BY <1>1, <1>21, <1>23, <2>1, <2>5, GoesOn DEF InCall
<1>27. CASE /\ ty = FILE /\ Go("data", i + 1)
            /\ buf' = IF nodes[i].size > 0 THEN Stored(i) ELSE <<>>
            /\ slot' = find_free_node /\ sec' = 1
  <2>1. pc' = "data" /\ at' = i + 1 /\ UNCHANGED <<op, snap>> /\ slot' = f /\ sec' = 1
    BY <1>20, <1>27 DEF Go
  <2>2. buf' = SubSeq(sectors[i], 1, nodes[i].size)
    <3>1. CASE nodes[i].size > 0 BY <1>18, <1>27, <3>1
    <3>2. CASE nodes[i].size = 0 BY <1>27, <3>2, EmptyPart
    <3> QED BY <1>16, <3>1, <3>2
  <2>3. CopyOK(nodes', sectors', F!WithDirs(snap', new), op', at', slot')
    BY <1>3, <1>25, <2>1
  <2>4. at' - 1 = i BY <1>8, <2>1
  <2>5. CopyDataOK(nodes', sectors', op', at', slot', buf', sec')
    <3>1. nodes'[i].type = FILE /\ nodes'[i].size = nodes[i].size BY <1>15, <1>24, <1>27
    <3>2. \A m \in 1 .. sec' - 1 : FALSE BY <2>1
    <3>3. /\ nodes'[f].used /\ nodes'[f].type = FILE
          /\ nodes'[f].path = Retarget(op.src, op.dst, nodes'[i].path)
      BY <1>9, <1>10, <1>22, <1>24, <1>27
    <3> QED BY <1>8, <1>21, <1>24, <2>1, <2>2, <2>4, <3>1, <3>2, <3>3 DEF CopyDataOK
  <2>6. GraftOK(snap', op', new) /\ op'.name = "copy" BY <1>1, <1>2, <2>1
  <2>7. CallRef' BY <2>1, <2>3, <2>5, <2>6 DEF CallRef
  <2> QED BY <1>1, <1>21, <1>23, <2>1, <2>7, GoesOn DEF InCall
<1> QED BY <1>19, <1>21, <1>26, <1>27

\* The content of a copy is written.
LEMMA CopyWriting ==
    ASSUME NEW n, NEW m, NEW x, NEW y, NEW b, NEW o, NEW k \in Nat, NEW w \in Slots,
           CopyOK(n, x, b, o, k, w), k - 1 \in Slots, SourceSlot(n, o, k - 1),
           n[w].path = Retarget(o.src, o.dst, n[k - 1].path), ~SourceSlot(n, o, w),
           \A i \in Slots : (m[i].used <=> n[i].used) /\ m[i].path = n[i].path,
           \A i \in Slots \ {w} : Item(m, y, i) = Item(n, x, i),
           NEW u \in {w, NONE}, u = w \/ Item(m, y, w) = Item(m, y, k - 1)
    PROVE  CopyOK(m, y, b, o, k, u)
<1>1. \A j \in Slots : SourceSlot(m, o, j) <=> SourceSlot(n, o, j) BY DEF SourceSlot
<1>2. \A p : UsedIn(m, p) <=> UsedIn(n, p) BY DEF UsedIn
<1>3. ASSUME NEW i \in Slots, m[i].used
      PROVE  \/ m[i].path \in DOMAIN b /\ b[m[i].path] = Item(m, y, i)
             \/ \E j \in Slots : /\ j < k /\ SourceSlot(m, o, j)
                                 /\ m[i].path = Retarget(o.src, o.dst, m[j].path)
                                 /\ i # u => Item(m, y, i) = Item(m, y, j)
  <2>1. n[i].used /\ m[i].path = n[i].path BY <1>3
  <2>2. CASE i = w
    <3>1. PICK j : j = k - 1 OBVIOUS
    <3>2. j \in Slots /\ j < k /\ SourceSlot(m, o, j) /\ m[j].path = n[j].path
      BY <1>1, <3>1
    <3>3. m[i].path = Retarget(o.src, o.dst, m[j].path) BY <2>1, <2>2, <3>1, <3>2
    <3>4. i # u => Item(m, y, i) = Item(m, y, j) BY <2>2, <3>1
    <3> QED BY <3>2, <3>3, <3>4
  <2>3. CASE i # w
    <3>1. Item(m, y, i) = Item(n, x, i) BY <2>3
    <3>2. CASE n[i].path \in DOMAIN b /\ b[n[i].path] = Item(n, x, i) BY <2>1, <3>1, <3>2
    <3>3. CASE \E j \in Slots : /\ j < k /\ SourceSlot(n, o, j)
                                /\ n[i].path = Retarget(o.src, o.dst, n[j].path)
                                /\ i # w => Item(n, x, i) = Item(n, x, j)
      <4>1. PICK j \in Slots : /\ j < k /\ SourceSlot(n, o, j)
                               /\ n[i].path = Retarget(o.src, o.dst, n[j].path)
                               /\ i # w => Item(n, x, i) = Item(n, x, j)
        BY <3>3
      <4>2. SourceSlot(m, o, j) /\ m[j].path = n[j].path /\ Item(m, y, j) = Item(n, x, j)
        BY <1>1, <4>1
      <4> QED BY <2>1, <2>3, <3>1, <4>1, <4>2
    <3> QED BY <2>1, <3>2, <3>3 DEF CopyOK
  <2> QED BY <2>2, <2>3
<1>4. ASSUME NEW j \in Slots, j < k, SourceSlot(m, o, j)
      PROVE  UsedIn(m, Retarget(o.src, o.dst, m[j].path))
  BY <1>1, <1>2, <1>4 DEF CopyOK
<1>5. PICK A : A = {i \in Slots : ~n[i].used} OBVIOUS
<1>6. PICK C : C = {i \in Slots : i >= k /\ SourceSlot(n, o, i)} OBVIOUS
<1>7. Cardinality(A) >= Cardinality(C) BY <1>5, <1>6 DEF CopyOK
<1>8. {i \in Slots : ~m[i].used} = A BY <1>5
<1>9. {i \in Slots : i >= k /\ SourceSlot(m, o, i)} = C BY <1>1, <1>6
<1>10. \A p \in DOMAIN b : UsedIn(m, p) BY <1>2 DEF CopyOK
<1>11. Cardinality({i \in Slots : ~m[i].used})
         >= Cardinality({i \in Slots : i >= k /\ SourceSlot(m, o, i)})
  BY <1>7, <1>8, <1>9
<1> QED BY <1>3, <1>4, <1>10, <1>11 DEF CopyOK

\* The slot of the copy is no slot of the subtree.
LEMMA CopyApart ==
    ASSUME Ready, pc = "data", op.name = "copy", NEW new, GraftOK(snap, op, new),
           NEW b, b = F!WithDirs(snap, new), CopyOK(nodes, sectors, b, op, at, slot),
           CopyDataOK(nodes, sectors, op, at, slot, buf, sec)
    PROVE  ~SourceSlot(nodes, op, slot)
<1>1. PICK k : k = at - 1 OBVIOUS
<1>2. k \in Slots /\ SourceSlot(nodes, op, k)
      /\ nodes[slot].path = Retarget(op.src, op.dst, nodes[k].path)
  BY <1>1 DEF CopyDataOK
<1>3. FsInv /\ F!IsTree(snap) /\ nodes[k].path \in DOMAIN b /\ op.name \in {"copy", "move"}
  BY <1>2, CopyFact
<1>4. ~path_is_inside(op.src, nodes[slot].path) BY <1>2, <1>3, TargetFree DEF SourceSlot
<1> QED BY <1>4 DEF SourceSlot

\* A sector of a copied file.
LEMMA SectorOfCopy ==
    ASSUME Ready, StaysReady, WriteSector, op.name = "copy" PROVE Good
<1>1. pc = "data" BY DEF WriteSector, WriteAllowed
<1>2. PICK new : /\ GraftOK(snap, op, new)
                 /\ CopyOK(nodes, sectors, F!WithDirs(snap, new), op, at, slot)
                 /\ CopyDataOK(nodes, sectors, op, at, slot, buf, sec)
  BY <1>1, ReadyFact DEF CallRef
<1>3. PICK b : b = F!WithDirs(snap, new) OBVIOUS
<1>4. FsInv /\ Alone(nodes) /\ at \in Nat /\ slot \in Slots /\ sec \in Nat /\ Len(buf) \in Nat
  BY <1>1, DataFits DEF FsInv, CallType
<1>5. ~SourceSlot(nodes, op, slot) BY <1>1, <1>2, <1>3, CopyApart
<1>6. /\ sec \in DOMAIN buf /\ sectors'[slot][sec] = buf[sec]
      /\ \A m : m # sec => sectors'[slot][m] = sectors[slot][m]
      /\ \A i \in Slots \ {slot} : sectors'[i] = sectors[i]
      /\ sec' = sec + 1
      /\ UNCHANGED <<pc, op, at, snap, buf, slot, nodes, current_directory,
                     filesystem_persistent_backend>>
  BY SectorWritten
<1>7. PICK k : k = at - 1 OBVIOUS
<1>8. /\ k \in Slots /\ SourceSlot(nodes, op, k) /\ nodes[k].type = FILE
      /\ nodes[slot].used /\ nodes[slot].type = FILE
      /\ nodes[slot].path = Retarget(op.src, op.dst, nodes[k].path)
      /\ buf = SubSeq(sectors[k], 1, nodes[k].size)
      /\ \A m \in 1 .. sec - 1 : m \in DOMAIN buf /\ sectors[slot][m] = buf[m]
  BY <1>2, <1>7 DEF CopyDataOK
<1>9. \A i \in Slots \ {slot} : Item(nodes, sectors', i) = Item(nodes, sectors, i)
  BY <1>6 DEF Item
<1>10. CopyOK(nodes, sectors', b, op, at, slot)
  BY <1>2, <1>3, <1>4, <1>5, <1>7, <1>8, <1>9, CopyWriting
<1>11. ASSUME NEW m \in 1 .. sec' - 1 PROVE m \in DOMAIN buf /\ sectors'[slot][m] = buf[m]
  <2>1. m = sec \/ m \in 1 .. sec - 1 BY <1>4, <1>6
  <2> QED BY <1>6, <1>8, <2>1
<1>12. buf = SubSeq(sectors'[k], 1, nodes[k].size) BY <1>5, <1>6, <1>8
<1>13. CopyDataOK(nodes', sectors', op', at', slot', buf', sec')
  BY <1>4, <1>6, <1>7, <1>8, <1>11, <1>12 DEF CopyDataOK, SourceSlot
<1>14. GraftOK(snap', op', new) /\ CopyOK(nodes', sectors', F!WithDirs(snap', new), op', at', slot')
  BY <1>2, <1>3, <1>6, <1>10
<1>15. CallRef' BY <1>1, <1>6, <1>13, <1>14 DEF CallRef
<1> QED BY <1>1, <1>4, <1>6, <1>15, GoesOn DEF InCall

\* The record of a copied file, after which the copy goes on.
LEMMA SizeOfCopy ==
    ASSUME Ready, StaysReady, WriteSize, op.name = "copy" PROVE Good
<1>1. pc = "data" BY DEF WriteSize, WriteAllowed
<1>2. PICK new : /\ GraftOK(snap, op, new)
                 /\ CopyOK(nodes, sectors, F!WithDirs(snap, new), op, at, slot)
                 /\ CopyDataOK(nodes, sectors, op, at, slot, buf, sec)
  BY <1>1, ReadyFact DEF CallRef
<1>3. PICK b : b = F!WithDirs(snap, new) OBVIOUS
<1>4. /\ FsInv /\ at \in Nat /\ slot \in Slots /\ buf \in Seq(Sector \cup {0})
      /\ Len(buf) <= FS_MAX_FILE_SIZE /\ Len(buf) \in Nat /\ filesystem_persistent_backend
      /\ faults = 0
  BY <1>1, DataFits DEF FsInv, CallType
<1>5. ~SourceSlot(nodes, op, slot) BY <1>1, <1>2, <1>3, CopyApart
<1>6. /\ nodes'[slot].size = Len(buf) /\ nodes'[slot].used = nodes[slot].used
      /\ nodes'[slot].path = nodes[slot].path /\ nodes'[slot].type = nodes[slot].type
      /\ \A i \in Slots \ {slot} : nodes'[i] = nodes[i]
      /\ UNCHANGED <<sectors, current_directory, filesystem_persistent_backend>>
      /\ Go("copy", at) /\ Alone(nodes')
      /\ 1 .. Len(buf) \subseteq 1 .. sec - 1
  BY SizeWritten
<1>7. PICK k : k = at - 1 OBVIOUS
<1>8. /\ k \in Slots /\ SourceSlot(nodes, op, k) /\ nodes[k].type = FILE
      /\ nodes[slot].used /\ nodes[slot].type = FILE
      /\ nodes[slot].path = Retarget(op.src, op.dst, nodes[k].path)
      /\ buf = SubSeq(sectors[k], 1, nodes[k].size)
      /\ \A m \in 1 .. sec - 1 : sectors[slot][m] = buf[m]
  BY <1>2, <1>7 DEF CopyDataOK
<1>9. SubSeq(sectors[slot], 1, Len(buf)) = buf BY <1>4, <1>6, <1>8, Written
<1>10. nodes'[k] = nodes[k] BY <1>5, <1>6, <1>8
<1>11. Item(nodes', sectors', slot) = [type |-> FILE, data |-> buf]
  BY <1>6, <1>8, <1>9 DEF Item
<1>12. Item(nodes', sectors', k) = [type |-> FILE, data |-> buf]
  BY <1>6, <1>8, <1>10 DEF Item
<1>13. \A i \in Slots \ {slot} : Item(nodes', sectors', i) = Item(nodes, sectors, i)
  BY <1>6 DEF Item
<1>14. \A i \in Slots : (nodes'[i].used <=> nodes[i].used) /\ nodes'[i].path = nodes[i].path
  BY <1>6
<1>15. CopyOK(nodes', sectors', b, op, at, NONE)
  <2>1. CopyOK(nodes, sectors, b, op, at, slot) BY <1>2, <1>3
  <2>2. /\ at - 1 \in Slots /\ SourceSlot(nodes, op, at - 1)
        /\ nodes[slot].path = Retarget(op.src, op.dst, nodes[at - 1].path)
    BY <1>7, <1>8
  <2>3. Item(nodes', sectors', slot) = Item(nodes', sectors', at - 1) BY <1>7, <1>11, <1>12
  <2> QED BY <1>4, <1>5, <1>13, <1>14, <2>1, <2>2, <2>3, CopyWriting
<1>16. pc' = "copy" /\ UNCHANGED <<op, snap, at>> BY <1>6 DEF Go
<1>17. GraftOK(snap', op', new) /\ CopyOK(nodes', sectors', F!WithDirs(snap', new), op', at', NONE)
  BY <1>2, <1>3, <1>15, <1>16
<1>18. CallRef' BY <1>16, <1>17 DEF CallRef
<1> QED BY <1>1, <1>6, <1>16, <1>18, GoesOn DEF InCall

LEMMA WriteSectorGood == ASSUME Ready, StaysReady, WriteSector PROVE Good
  BY SectorOfWrite, SectorOfCopy

LEMMA WriteSizeGood == ASSUME Ready, StaysReady, WriteSize PROVE Good
  BY SizeOfWrite, SizeOfCopy

LEMMA CopyDoneGood == ASSUME Ready, StaysReady, CopyDone PROVE Good
<1>1. pc = "copy" /\ op.name = "copy" /\ at \in Nat BY Copying DEF CopyDone
<1>2. PICK new : /\ GraftOK(snap, op, new)
                 /\ CopyOK(nodes, sectors, F!WithDirs(snap, new), op, at, NONE)
  BY <1>1, Copying
<1>3. PICK b : b = F!WithDirs(snap, new) OBVIOUS
<1>4. CopyOK(nodes, sectors, b, op, at, NONE) BY <1>2, <1>3
<1>5. /\ FsInv /\ F!IsTree(snap) /\ Alone(nodes) /\ filesystem_persistent_backend
      /\ Seen = snap /\ SeenCwd = current_directory
      /\ op.name \in {"copy", "move"}
      /\ \A i \in Slots : SourceSlot(nodes, op, i) =>
           /\ nodes[i].used /\ nodes[i].path \in DOMAIN b
           /\ b[nodes[i].path] = Item(nodes, sectors, i)
  BY <1>1, <1>2, <1>3, <1>4, CopyFact
<1>6. /\ pc' = "idle"
      /\ UNCHANGED <<nodes, sectors, current_directory, filesystem_persistent_backend>>
  BY DEF CopyDone, Finish, Kept, cacheVars, diskVars
<1>7. \A j \in Slots : SourceSlot(nodes, op, j) => j < at
  <2> SUFFICES ASSUME NEW j \in Slots, SourceSlot(nodes, op, j) PROVE j < at OBVIOUS
  <2>1. j \in Nat BY SlotsNat
  <2>2. ~(j >= at) BY DEF CopyDone, Inside, SourceSlot
  <2> QED BY <1>1, <2>1, <2>2
<1>8. PICK g : g = F!Grafted(b, op.src, op.dst, TRUE) OBVIOUS
<1>9. /\ g = [p \in DOMAIN g |-> g[p]]
      /\ \A q \in DOMAIN b : q \in DOMAIN g /\ g[q] = b[q]
      /\ \A q \in DOMAIN b : path_is_inside(op.src, q) =>
           /\ Retarget(op.src, op.dst, q) \in DOMAIN g
           /\ g[Retarget(op.src, op.dst, q)] = b[q]
      /\ \A p \in DOMAIN g :
           \/ p \in DOMAIN b
           \/ \E q \in DOMAIN b : path_is_inside(op.src, q) /\ p = Retarget(op.src, op.dst, q)
  <2>1. g = Spread(b, op.src, op.dst, DOMAIN b) BY <1>8, SpreadFact
  <2> QED BY <1>2, <1>3, <1>5, <2>1, GraftedFact
<1>10. ASSUME NEW i \in Slots, nodes[i].used
       PROVE  nodes[i].path \in DOMAIN g /\ g[nodes[i].path] = Item(nodes, sectors, i)
  <2>1. CASE nodes[i].path \in DOMAIN b /\ b[nodes[i].path] = Item(nodes, sectors, i)
    BY <1>9, <2>1
  <2>2. ASSUME NEW j \in Slots, SourceSlot(nodes, op, j),
               nodes[i].path = Retarget(op.src, op.dst, nodes[j].path),
               Item(nodes, sectors, i) = Item(nodes, sectors, j)
        PROVE  nodes[i].path \in DOMAIN g /\ g[nodes[i].path] = Item(nodes, sectors, i)
    BY <1>5, <1>9, <2>2 DEF SourceSlot
  <2>3. i # NONE BY SlotsNat
  <2> QED BY <1>4, <1>10, <2>1, <2>2, <2>3 DEF CopyOK
<1>11. ASSUME NEW p \in DOMAIN g PROVE UsedIn(nodes, p)
  <2>1. CASE p \in DOMAIN b BY <1>4, <2>1 DEF CopyOK
  <2>2. ASSUME NEW q \in DOMAIN b, path_is_inside(op.src, q), p = Retarget(op.src, op.dst, q)
        PROVE  UsedIn(nodes, p)
    <3>1. PICK j \in Slots : nodes[j].used /\ nodes[j].path = q
      BY <1>4 DEF CopyOK, UsedIn
    <3>2. SourceSlot(nodes, op, j) /\ j < at BY <1>7, <2>2, <3>1 DEF SourceSlot
    <3> QED BY <1>4, <2>2, <3>1, <3>2 DEF CopyOK
  <2> QED BY <1>9, <2>1, <2>2
<1>12. Represents(nodes', sectors', g) BY <1>6, <1>9, <1>10, <1>11 DEF Represents
<1>13. Seen' = g /\ SeenCwd' = SeenCwd /\ RefInv' BY <1>5, <1>6, <1>12, Returns
<1>14. /\ op.src \in DOMAIN snap /\ op.dst \in Path /\ new \in SUBSET F!Prefixes(op.dst)
  BY <1>2, <1>3, <1>5, GraftFact
<1>15. F!Graft(op.src, op.dst, new, TRUE)
  BY <1>2, <1>3, <1>5, <1>8, <1>13, <1>14, PathWords DEF F!Graft, GraftOK, Arguments
<1>16. F!Copy(op.src, op.dst, new) BY <1>13, <1>15 DEF F!Copy
<1>17. F!Next BY <1>5, <1>14, <1>16 DEF F!Next
<1> QED BY <1>13, <1>17 DEF Good

-----------------------------------------------------------------------------
(* filesystem_move.                                                        *)

\* Where the move of a subtree stands.
LEMMA Moving ==
    ASSUME Ready, pc = "move"
    PROVE  /\ FsInv /\ F!IsTree(snap) /\ Alone(nodes) /\ filesystem_persistent_backend
           /\ faults = 0 /\ Seen = snap /\ SeenCwd = current_directory
           /\ op.name = "move" /\ op.name \in {"copy", "move"} /\ at \in Nat
           /\ \E new : /\ GraftOK(snap, op, new)
                       /\ MoveOK(nodes, sectors, F!WithDirs(snap, new), op, at)
<1>1. /\ FsInv /\ F!IsTree(snap) /\ Alone(nodes) /\ filesystem_persistent_backend
      /\ faults = 0 /\ Seen = snap /\ SeenCwd = current_directory /\ CallRef
  BY ReadyFact DEF InCall
<1> QED BY <1>1 DEF CallRef, FsInv, CallInv, CallType

LEMMA MoveNodeGood == ASSUME Ready, StaysReady, MoveNode PROVE Good
<1>1. /\ pc = "move" /\ FsInv /\ F!IsTree(snap) /\ Alone(nodes) /\ faults = 0
      /\ op.name \in {"copy", "move"} /\ at \in Nat
  BY Moving DEF MoveNode
<1>2. PICK new : /\ GraftOK(snap, op, new)
                 /\ MoveOK(nodes, sectors, F!WithDirs(snap, new), op, at)
  BY <1>1, Moving
<1>3. PICK b : b = F!WithDirs(snap, new) OBVIOUS
<1>4. PICK i : i = Least(Inside(op.src, at)) OBVIOUS
<1>5. /\ i \in Slots /\ i \in Nat /\ i >= at /\ nodes[i].used
      /\ path_is_inside(op.src, nodes[i].path)
      /\ \A j \in Slots : j >= at /\ nodes[j].used /\ path_is_inside(op.src, nodes[j].path)
           => i <= j
  BY <1>4, NextInside DEF MoveNode
<1>6. PICK p : p = nodes[i].path OBVIOUS
<1>7. PICK r : r = Retarget(op.src, op.dst, p) OBVIOUS
<1>8. PICK w : /\ Wrote(w)
               /\ nodes' = IF w.ok THEN [nodes EXCEPT ![i] = [nodes[i] EXCEPT !.path = r]]
                           ELSE nodes
               /\ IF w.ok THEN Go("move", i + 1) ELSE Finish
  BY <1>4, <1>6, <1>7 DEF MoveNode
<1>9. w.ok BY <1>1, <1>8, WriteWorks
<1>10. nodes' = [nodes EXCEPT ![i] = [nodes[i] EXCEPT !.path = r]] BY <1>8, <1>9
<1>11. nodes \in [Slots -> NodeType] BY <1>1 DEF FsInv, StoreType
<1>12. PICK z : z = [nodes[i] EXCEPT !.path = r] OBVIOUS
<1>13. nodes'[i] = z /\ \A j \in Slots \ {i} : nodes'[j] = nodes[j]
  BY <1>5, <1>10, <1>11, <1>12
<1>14. z.used /\ z.path = r /\ z.type = nodes[i].type /\ z.size = nodes[i].size
  BY <1>5, <1>11, <1>12 DEF NodeType
<1>15. /\ pc' = "move" /\ at' = i + 1
       /\ UNCHANGED <<op, snap, sectors, current_directory, filesystem_persistent_backend>>
  BY <1>8, <1>9 DEF Go, MoveNode
<1>16. \A q \in DOMAIN b : path_is_inside(op.src, q) =>
         /\ Retarget(op.src, op.dst, q) \notin DOMAIN b
         /\ ~path_is_inside(op.src, Retarget(op.src, op.dst, q))
  BY <1>1, <1>2, <1>3, TargetFree
<1>17. \A j \in Slots : nodes[j].used =>
         \/ /\ nodes[j].path \in DOMAIN b /\ b[nodes[j].path] = Item(nodes, sectors, j)
            /\ path_is_inside(op.src, nodes[j].path) => j >= at
         \/ \E m \in DOMAIN b : /\ path_is_inside(op.src, m) /\ ~UsedIn(nodes, m)
                                /\ nodes[j].path = Retarget(op.src, op.dst, m)
                                /\ b[m] = Item(nodes, sectors, j)
  BY <1>2, <1>3 DEF MoveOK
<1>18. p \in DOMAIN b /\ b[p] = Item(nodes, sectors, i) BY <1>5, <1>6, <1>16, <1>17
<1>19. r \notin DOMAIN b /\ ~path_is_inside(op.src, r) /\ r # p
  BY <1>5, <1>6, <1>7, <1>16, <1>18
<1>20. ~UsedIn(nodes, r)
  <2> SUFFICES ASSUME NEW j \in Slots, nodes[j].used, nodes[j].path = r PROVE FALSE
    BY DEF UsedIn
  <2>1. PICK m \in DOMAIN b : /\ path_is_inside(op.src, m) /\ ~UsedIn(nodes, m)
                              /\ r = Retarget(op.src, op.dst, m)
    BY <1>17, <1>19
  <2>2. op.src \in Path /\ op.dst \in Path /\ DOMAIN b \subseteq Path
    BY <1>1, <1>2, <1>3, GraftFact
  <2>3. m \in Path /\ p \in Path /\ path_is_inside(op.src, p) BY <1>5, <1>6, <1>18, <2>2
  <2>4. Retarget(op.src, op.dst, m) = Retarget(op.src, op.dst, p) BY <1>7, <2>1
  <2>5. m = p BY <2>1, <2>2, <2>3, <2>4, TargetsDiffer
  <2> QED BY <1>5, <1>6, <2>1, <2>5 DEF UsedIn
<1>21. Alone(nodes') BY <1>1, <1>5, <1>13, <1>14, <1>20, AloneAdded
<1>22. Item(nodes', sectors', i) = Item(nodes, sectors, i)
       /\ \A j \in Slots \ {i} : Item(nodes', sectors', j) = Item(nodes, sectors, j)
  BY <1>13, <1>14, <1>15 DEF Item
<1>23. ~UsedIn(nodes', p)
  BY <1>1, <1>5, <1>6, <1>13, <1>14, <1>19 DEF UsedIn, Alone
<1>24. ASSUME NEW m, path_is_inside(op.src, m), ~UsedIn(nodes, m) PROVE ~UsedIn(nodes', m)
  BY <1>13, <1>14, <1>19, <1>24 DEF UsedIn
<1>25. ASSUME NEW j \in Slots, nodes'[j].used
       PROVE  \/ /\ nodes'[j].path \in DOMAIN b /\ b[nodes'[j].path] = Item(nodes', sectors', j)
                 /\ path_is_inside(op.src, nodes'[j].path) => j >= i + 1
              \/ \E m \in DOMAIN b : /\ path_is_inside(op.src, m) /\ ~UsedIn(nodes', m)
                                     /\ nodes'[j].path = Retarget(op.src, op.dst, m)
                                     /\ b[m] = Item(nodes', sectors', j)
  <2>1. CASE j = i
    BY <1>5, <1>6, <1>7, <1>13, <1>14, <1>18, <1>22, <1>23, <2>1
  <2>2. CASE j # i
    <3>1. nodes[j].used /\ nodes'[j] = nodes[j] BY <1>13, <1>25, <2>2
    <3>2. CASE /\ nodes[j].path \in DOMAIN b /\ b[nodes[j].path] = Item(nodes, sectors, j)
               /\ path_is_inside(op.src, nodes[j].path) => j >= at
      <4>1. path_is_inside(op.src, nodes[j].path) => i <= j BY <1>5, <3>1, <3>2
      <4>2. j \in Nat BY SlotsNat
      <4>3. path_is_inside(op.src, nodes[j].path) => j >= i + 1 BY <1>5, <2>2, <4>1, <4>2
      <4> QED BY <1>22, <2>2, <3>1, <3>2, <4>3
    <3>3. ASSUME NEW m \in DOMAIN b, path_is_inside(op.src, m), ~UsedIn(nodes, m),
                 nodes[j].path = Retarget(op.src, op.dst, m), b[m] = Item(nodes, sectors, j)
          PROVE  \E l \in DOMAIN b : /\ path_is_inside(op.src, l) /\ ~UsedIn(nodes', l)
                                     /\ nodes'[j].path = Retarget(op.src, op.dst, l)
                                     /\ b[l] = Item(nodes', sectors', j)
      BY <1>22, <1>24, <2>2, <3>1, <3>3
    <3> QED BY <1>17, <3>1, <3>2, <3>3
  <2> QED BY <2>1, <2>2
<1>26. ASSUME NEW q \in DOMAIN b
       PROVE  \/ UsedIn(nodes', q)
              \/ path_is_inside(op.src, q) /\ UsedIn(nodes', Retarget(op.src, op.dst, q))
  <2>1. CASE UsedIn(nodes, q)
    <3>1. PICK j \in Slots : nodes[j].used /\ nodes[j].path = q BY <2>1 DEF UsedIn
    <3>2. CASE j = i BY <1>5, <1>6, <1>7, <1>13, <1>14, <3>1, <3>2 DEF UsedIn
    <3>3. CASE j # i BY <1>13, <3>1, <3>3 DEF UsedIn
    <3> QED BY <3>2, <3>3
  <2>2. CASE path_is_inside(op.src, q) /\ UsedIn(nodes, Retarget(op.src, op.dst, q))
    <3>1. PICK j \in Slots : nodes[j].used /\ nodes[j].path = Retarget(op.src, op.dst, q)
      BY <2>2 DEF UsedIn
    <3>2. j # i BY <1>5, <1>16, <2>2, <3>1
    <3> QED BY <1>13, <2>2, <3>1, <3>2 DEF UsedIn
  <2> QED BY <1>2, <1>3, <2>1, <2>2 DEF MoveOK
<1>27. MoveOK(nodes', sectors', b, op, i + 1) BY <1>25, <1>26 DEF MoveOK
<1>28. GraftOK(snap', op', new) /\ MoveOK(nodes', sectors', F!WithDirs(snap', new), op', at')
  BY <1>2, <1>3, <1>15, <1>27
<1>29. CallRef' BY <1>15, <1>28 DEF CallRef
<1> QED BY <1>1, <1>15, <1>21, <1>29, GoesOn DEF InCall

LEMMA MoveDoneGood == ASSUME Ready, StaysReady, MoveDone PROVE Good
<1>1. /\ pc = "move" /\ FsInv /\ F!IsTree(snap) /\ Alone(nodes) /\ filesystem_persistent_backend
      /\ Seen = snap /\ SeenCwd = current_directory
      /\ op.name = "move" /\ op.name \in {"copy", "move"} /\ at \in Nat
  BY Moving DEF MoveDone
<1>2. PICK new : /\ GraftOK(snap, op, new)
                 /\ MoveOK(nodes, sectors, F!WithDirs(snap, new), op, at)
  BY <1>1, Moving
<1>3. PICK b : b = F!WithDirs(snap, new) OBVIOUS
<1>4. PICK c : c = current_directory OBVIOUS
<1>5. /\ pc' = "idle" /\ UNCHANGED <<nodes, sectors, filesystem_persistent_backend>>
      /\ current_directory' = IF path_is_inside(op.src, c)
                                THEN Fitted(Retarget(op.src, op.dst, c)) ELSE c
  BY <1>4 DEF MoveDone, Finish, diskVars
<1>6. /\ op.src \in DOMAIN snap /\ op.src \in Path /\ op.dst \in Path
      /\ new \in SUBSET F!Prefixes(op.dst)
      /\ \A q : F!IsDir(snap, q) => F!IsDir(b, q)
  BY <1>1, <1>2, <1>3, GraftFact
<1>7. current_directory' = IF path_is_inside(op.src, c) THEN Retarget(op.src, op.dst, c) ELSE c
  <2> SUFFICES ASSUME path_is_inside(op.src, c)
               PROVE  Fitted(Retarget(op.src, op.dst, c)) = Retarget(op.src, op.dst, c)
    BY <1>5
  <2>1. F!IsDir(Seen, SeenCwd) BY ReadyFact
  <2>2. c \in DOMAIN b BY <1>1, <1>4, <1>6, <2>1 DEF F!IsDir
  <2>3. PICK r : r = Retarget(op.src, op.dst, c) OBVIOUS
  <2>4. r \in Path BY <1>1, <1>2, <1>3, <2>2, <2>3, TargetFree
  <2>5. r \in Seq(Names) /\ Len(r) \in Nat /\ Len(r) <= MaxDepth BY <2>4, PathFact, LenProperties
  <2>6. Fitted(r) = SubSeq(r, 1, Len(r)) BY <2>5, TableAssumption DEF Fitted
  <2>7. Fitted(r) = r BY <2>5, <2>6, SubSeqFull
  <2> QED BY <2>3, <2>7
<1>8. \A q \in DOMAIN b : path_is_inside(op.src, q) =>
        ~path_is_inside(op.src, Retarget(op.src, op.dst, q))
  BY <1>1, <1>2, <1>3, TargetFree
<1>9. \A i \in Slots : nodes[i].used /\ path_is_inside(op.src, nodes[i].path) => ~(i >= at)
  BY DEF MoveDone, Inside
<1>10. \A i \in Slots : nodes[i].used =>
         \/ /\ nodes[i].path \in DOMAIN b /\ b[nodes[i].path] = Item(nodes, sectors, i)
            /\ ~path_is_inside(op.src, nodes[i].path)
         \/ \E m \in DOMAIN b : /\ path_is_inside(op.src, m)
                                /\ nodes[i].path = Retarget(op.src, op.dst, m)
                                /\ b[m] = Item(nodes, sectors, i)
  BY <1>2, <1>3, <1>9 DEF MoveOK
<1>11. \A q : path_is_inside(op.src, q) => ~UsedIn(nodes, q) BY <1>8, <1>10 DEF UsedIn
<1>12. PICK kept : kept = DOMAIN b \ {q \in DOMAIN b : F!Below(op.src, q)} OBVIOUS
<1>13. PICK g : g = F!Grafted(b, op.src, op.dst, FALSE) OBVIOUS
<1>14. kept \in SUBSET DOMAIN b
       /\ \A q : q \in kept <=> q \in DOMAIN b /\ ~path_is_inside(op.src, q)
  BY <1>12, PathWords
<1>15. g = Spread(b, op.src, op.dst, kept) BY <1>12, <1>13, SpreadFact
<1>16. /\ g = [p \in DOMAIN g |-> g[p]]
       /\ \A q \in kept : q \in DOMAIN g /\ g[q] = b[q]
       /\ \A q \in DOMAIN b : path_is_inside(op.src, q) =>
            /\ Retarget(op.src, op.dst, q) \in DOMAIN g
            /\ g[Retarget(op.src, op.dst, q)] = b[q]
       /\ \A p \in DOMAIN g :
            \/ p \in kept
            \/ \E q \in DOMAIN b : path_is_inside(op.src, q) /\ p = Retarget(op.src, op.dst, q)
  BY <1>1, <1>2, <1>3, <1>14, <1>15, GraftedFact
<1>17. ASSUME NEW i \in Slots, nodes[i].used
       PROVE  nodes[i].path \in DOMAIN g /\ g[nodes[i].path] = Item(nodes, sectors, i)
  BY <1>10, <1>14, <1>16, <1>17
<1>18. ASSUME NEW p \in DOMAIN g PROVE UsedIn(nodes, p)
  <2>1. \A q \in DOMAIN b :
          \/ UsedIn(nodes, q)
          \/ path_is_inside(op.src, q) /\ UsedIn(nodes, Retarget(op.src, op.dst, q))
    BY <1>2, <1>3 DEF MoveOK
  <2> QED BY <1>11, <1>14, <1>16, <2>1
<1>19. Represents(nodes', sectors', g) BY <1>5, <1>16, <1>17, <1>18 DEF Represents
<1>20. Seen' = g /\ SeenCwd' = current_directory' /\ RefInv' /\ Alone(nodes')
  BY <1>1, <1>5, <1>19, Returns
<1>21. F!Graft(op.src, op.dst, new, FALSE)
  BY <1>1, <1>2, <1>3, <1>6, <1>13, <1>20, PathWords DEF F!Graft, GraftOK, Arguments
<1>22. op.src # <<>> BY <1>1, <1>2 DEF GraftOK, Arguments
<1>23. F!Move(op.src, op.dst, new)
  BY <1>1, <1>4, <1>7, <1>20, <1>21, <1>22, PathWords DEF F!Move
<1>24. F!Next BY <1>1, <1>6, <1>23 DEF F!Next
<1> QED BY <1>20, <1>24 DEF Good

-----------------------------------------------------------------------------
(* The first mount: the volume is empty and gets the base tree, slot by    *)
(* slot in the order of initial_nodes.                                     *)

\* A partly made table, slot by slot.
LEMMA PartlyMadeFact ==
    ASSUME NEW k \in 1 .. Len(initial_nodes) + 1, NEW n, n = PartlyMade(k)
    PROVE  /\ \A i \in Slots : i < k - 1 =>
                /\ i + 1 \in DOMAIN initial_nodes
                /\ n[i] = Node(InitialNode(i + 1), InitialType(i + 1))
                /\ n[i].used /\ n[i].path = InitialNode(i + 1)
                /\ n[i].type = InitialType(i + 1) /\ n[i].size = 0
           /\ \A i \in Slots : ~(i < k - 1) => n[i] = FreeNode /\ ~n[i].used
           /\ \A j \in DOMAIN initial_nodes : j - 1 \in Slots /\ j - 1 \in Nat
<1>1. Len(initial_nodes) \in Nat /\ DOMAIN initial_nodes = 1 .. Len(initial_nodes)
  BY InitialFact
<1>2. ASSUME NEW i \in Slots, i < k - 1
      PROVE  /\ i + 1 \in DOMAIN initial_nodes
             /\ n[i] = Node(InitialNode(i + 1), InitialType(i + 1))
  <2>1. i \in Nat BY SlotsNat
  <2>2. i < Len(initial_nodes) /\ i + 1 \in DOMAIN initial_nodes BY <1>1, <1>2, <2>1
  <2> QED BY <1>2, <2>2 DEF PartlyMade, RamTree, InitialNode, InitialType
<1>3. \A i \in Slots : ~(i < k - 1) => n[i] = FreeNode /\ ~n[i].used
  BY DEF PartlyMade, FreeNode
<1>4. \A j \in DOMAIN initial_nodes : j - 1 \in Slots /\ j - 1 \in Nat
  BY <1>1, TableAssumption DEF Slots
<1> QED BY <1>2, <1>3, <1>4 DEF Node

\* During the mount the caller sees the base tree.
LEMMA Mounting ==
    ASSUME Ready, pc = "tree"
    PROVE  /\ FsInv /\ at \in 1 .. Len(initial_nodes) + 1 /\ nodes = PartlyMade(at)
           /\ filesystem_persistent_backend /\ Seen = InitialTree /\ SeenCwd = HOME
  BY ReadyFact DEF MountRef, Seen, SeenCwd

\* No base node is there before its turn.
LEMMA TurnFact ==
    ASSUME Ready, pc = "tree", at <= Len(initial_nodes)
    PROVE  /\ at \in DOMAIN initial_nodes /\ ~Exists(InitialNode(at))
           /\ at - 1 \in Slots /\ find_free_node = at - 1
<1>1. at \in 1 .. Len(initial_nodes) + 1 /\ nodes = PartlyMade(at) BY Mounting
<1>2. at \in DOMAIN initial_nodes BY <1>1, InitialFact
<1>3. /\ \A i \in Slots : i < at - 1 =>
           i + 1 \in DOMAIN initial_nodes /\ nodes[i].used /\ nodes[i].path = InitialNode(i + 1)
      /\ \A i \in Slots : ~(i < at - 1) => ~nodes[i].used
      /\ at - 1 \in Slots /\ at - 1 \in Nat
  BY <1>1, <1>2, PartlyMadeFact
<1>4. ~UsedIn(nodes, InitialNode(at))
  <2> SUFFICES ASSUME NEW i \in Slots, nodes[i].used, nodes[i].path = InitialNode(at)
               PROVE  FALSE
    BY DEF UsedIn
  <2>1. i < at - 1 /\ i + 1 \in DOMAIN initial_nodes /\ InitialNode(i + 1) = InitialNode(at)
    BY <1>3
  <2>2. i + 1 = at BY <1>2, <2>1, BaseTreeAssumption DEF InitialNode
  <2>3. i \in Nat BY SlotsNat
  <2> QED BY <1>1, <2>1, <2>2, <2>3
<1>5. PICK S : S = {i \in Slots : ~nodes[i].used} OBVIOUS
<1>6. S \in SUBSET Nat /\ at - 1 \in S
  <2>1. ~(at - 1 < at - 1) BY <1>3
  <2>2. ~nodes[at - 1].used BY <1>3, <2>1
  <2> QED BY <1>3, <1>5, <2>2, SlotsNat
<1>7. \A i \in S : ~(i < at - 1) BY <1>3, <1>5
<1>8. Least(S) \in S /\ Least(S) <= at - 1 BY <1>6, LeastFact
<1>9. Least(S) \in Nat BY <1>6, <1>8
<1>10. Least(S) = at - 1 BY <1>3, <1>7, <1>8, <1>9
<1> QED BY <1>2, <1>3, <1>4, <1>5, <1>10, FindFact DEF find_free_node

\* A step of the mount.
LEMMA MountsOn ==
    ASSUME pc \in {"off", "tree"}, pc' = "tree", filesystem_persistent_backend',
           at' \in 1 .. Len(initial_nodes) + 1, nodes' = PartlyMade(at')
    PROVE  Good
<1>1. MountRef' /\ CallRef' BY DEF MountRef, CallRef
<1>2. UNCHANGED <<Seen, SeenCwd>> BY DEF Seen, SeenCwd
<1> QED BY <1>1, <1>2 DEF Good, RefInv

LEMMA InitCallGood == ASSUME Ready, StaysReady, filesystem_init PROVE Good
<1>1. faults = 0 /\ faults' = 0 /\ volume /\ pc = "off"
  BY ReadyFact DEF StaysReady, Calm, filesystem_init
<1>2. \A i \in Slots : ~disk[i].used BY <1>1, ReadyFact DEF MountRef
<1>3. nodes' = Loaded /\ filesystem_persistent_backend' = TRUE /\ Go("tree", 1)
  <2>1. \/ ~volume
        \/ faults' = faults + 1
        \/ IF (\A i \in Slots : ~disk[i].used) \/ LoadedRoot = DIR
             THEN /\ nodes' = Loaded
                  /\ filesystem_persistent_backend' = TRUE
                  /\ Go("tree", 1)
             ELSE UseRam(TRUE)
    BY Zenon DEF filesystem_init
  <2>2. faults' # faults + 1 BY <1>1
  <2> QED BY <1>1, <1>2, <2>1, <2>2
<1>4. Loaded = [i \in Slots |-> FreeNode] BY <1>2 DEF Loaded
<1>5. PartlyMade(1) = [i \in Slots |-> FreeNode]
  <2>1. \A i \in Slots : ~(i < 1 - 1) BY SlotsNat
  <2> QED BY <2>1 DEF PartlyMade
<1>6. 1 \in 1 .. Len(initial_nodes) + 1 BY InitialFact
<1> QED BY <1>1, <1>3, <1>4, <1>5, <1>6, MountsOn DEF Go

LEMMA TreeSkipGood == ASSUME Ready, StaysReady, TreeSkip PROVE Good
  BY TurnFact DEF TreeSkip

LEMMA TreeFullGood == ASSUME Ready, StaysReady, TreeFull PROVE Good
<1>1. find_free_node = at - 1 /\ at - 1 \in Slots BY TurnFact DEF TreeFull
<1>2. FALSE BY <1>1, SlotsNat DEF TreeFull
<1> QED BY <1>2

LEMMA TreeAddGood == ASSUME Ready, StaysReady, TreeAdd PROVE Good
<1>1. faults = 0 /\ faults' = 0 /\ pc = "tree" /\ at <= Len(initial_nodes)
  BY ReadyFact DEF StaysReady, Calm, TreeAdd
<1>2. /\ FsInv /\ at \in 1 .. Len(initial_nodes) + 1 /\ nodes = PartlyMade(at)
      /\ filesystem_persistent_backend
  BY <1>1, Mounting
<1>3. at \in DOMAIN initial_nodes /\ at - 1 \in Slots /\ find_free_node = at - 1
  BY <1>1, TurnFact
<1>4. PICK w \in AddOutcomes(InitialNode(at), InitialType(at)) :
        IF w.ok THEN AddNode(InitialNode(at), InitialType(at), w) /\ Go("tree", at + 1)
        ELSE faults' = faults + 1
  BY DEF TreeAdd
<1>5. w.ok BY <1>1, <1>4
<1>6. /\ nodes' = [nodes EXCEPT ![at - 1] = Node(InitialNode(at), InitialType(at))]
      /\ UNCHANGED filesystem_persistent_backend
  BY <1>3, <1>4, <1>5 DEF AddNode
<1>7. pc' = "tree" /\ at' = at + 1 BY <1>4, <1>5 DEF Go
<1>8. Len(initial_nodes) \in Nat /\ at \in 1 .. Len(initial_nodes) BY <1>1, <1>2, InitialFact
<1>9. ASSUME NEW i \in Slots PROVE nodes'[i] = PartlyMade(at + 1)[i]
  <2>1. DOMAIN nodes = Slots BY <1>2 DEF FsInv, StoreType
  <2>2. i \in Nat BY SlotsNat
  <2>3. CASE i = at - 1
    <3>1. PartlyMade(at + 1)[i] = RamTree[i] BY <1>8, <2>3 DEF PartlyMade
    <3>2. RamTree[i] = Node(InitialNode(at), InitialType(at))
      <4>1. i < Len(initial_nodes) /\ i + 1 = at BY <1>8, <2>3
      <4> QED BY <4>1 DEF RamTree, InitialNode, InitialType
    <3> QED BY <1>3, <1>6, <2>1, <2>3, <3>1, <3>2
  <2>4. CASE i # at - 1
    <3>1. nodes'[i] = PartlyMade(at)[i] BY <1>2, <1>6, <2>1, <2>4
    <3>2. PICK k : k = at + 1 OBVIOUS
    <3>3. i < at - 1 <=> i < k - 1 BY <1>8, <2>2, <2>4, <3>2
    <3>4. PartlyMade(at)[i] = IF i < at - 1 THEN RamTree[i] ELSE FreeNode
      BY DEF PartlyMade
    <3>5. PartlyMade(k)[i] = IF i < k - 1 THEN RamTree[i] ELSE FreeNode
      BY DEF PartlyMade
    <3> QED BY <3>1, <3>2, <3>3, <3>4, <3>5, Zenon
  <2> QED BY <2>3, <2>4
<1>10. nodes' = PartlyMade(at + 1)
  <2>1. nodes' = [i \in Slots |-> nodes'[i]] BY <1>2, <1>6 DEF FsInv, StoreType
  <2>2. PartlyMade(at + 1) = [i \in Slots |-> PartlyMade(at + 1)[i]] BY DEF PartlyMade
  <2> QED BY <1>9, <2>1, <2>2
<1>11. at + 1 \in 1 .. Len(initial_nodes) + 1 BY <1>8
<1> QED BY <1>1, <1>2, <1>6, <1>7, <1>10, <1>11, MountsOn

LEMMA TreeDoneGood == ASSUME Ready, StaysReady, TreeDone PROVE Good
<1>1. pc = "tree" /\ at > Len(initial_nodes) BY DEF TreeDone
<1>2. /\ FsInv /\ at \in 1 .. Len(initial_nodes) + 1 /\ nodes = PartlyMade(at)
      /\ filesystem_persistent_backend /\ Seen = InitialTree /\ SeenCwd = HOME
  BY <1>1, Mounting
<1>3. Len(initial_nodes) \in Nat BY InitialFact
<1>4. at = Len(initial_nodes) + 1 BY <1>1, <1>2, <1>3
<1>5. /\ \A i \in Slots : i < at - 1 =>
           /\ i + 1 \in DOMAIN initial_nodes /\ nodes[i].used /\ nodes[i].path = InitialNode(i + 1)
           /\ nodes[i].type = InitialType(i + 1) /\ nodes[i].size = 0
      /\ \A i \in Slots : ~(i < at - 1) => ~nodes[i].used
      /\ \A j \in DOMAIN initial_nodes : j - 1 \in Slots /\ j - 1 \in Nat
  BY <1>2, PartlyMadeFact
<1>6. Alone(nodes)
  <2> SUFFICES ASSUME NEW i \in Slots, NEW j \in Slots, nodes[i].used, nodes[j].used,
                      nodes[i].path = nodes[j].path
               PROVE  i = j
    BY DEF Alone
  <2>1. /\ i + 1 \in DOMAIN initial_nodes /\ j + 1 \in DOMAIN initial_nodes
        /\ InitialNode(i + 1) = InitialNode(j + 1)
    BY <1>5
  <2>2. i + 1 = j + 1 BY <2>1, BaseTreeAssumption DEF InitialNode
  <2> QED BY <2>2, SlotsNat
<1>7. ASSUME NEW k \in DOMAIN initial_nodes PROVE UsedIn(nodes, InitialNode(k))
  <2>1. k \in 1 .. Len(initial_nodes) BY InitialFact
  <2>2. PICK i : i = k - 1 OBVIOUS
  <2>3. i \in Slots /\ i < at - 1 /\ i + 1 = k BY <1>3, <1>4, <1>5, <2>1, <2>2
  <2>4. nodes[i].used /\ nodes[i].path = InitialNode(k) BY <1>5, <2>3
  <2> QED BY <2>3, <2>4 DEF UsedIn
<1>8. ASSUME NEW i \in Slots, nodes[i].used
      PROVE  /\ nodes[i].path \in DOMAIN InitialTree
             /\ InitialTree[nodes[i].path] = Item(nodes, sectors, i)
  <2>1. /\ i + 1 \in DOMAIN initial_nodes /\ nodes[i].path = InitialNode(i + 1)
        /\ nodes[i].type = InitialType(i + 1) /\ nodes[i].size = 0
    BY <1>5, <1>8
  <2>2. Item(nodes, sectors, i) = [type |-> nodes[i].type, data |-> <<>>] BY <2>1, EmptyItem
  <2> QED BY <2>1, <2>2, InitialTreeFact
<1>9. \A p \in DOMAIN InitialTree : UsedIn(nodes, p) BY <1>7, InitialTreeFact
<1>10. Represents(nodes, sectors, InitialTree)
  BY <1>8, <1>9, InitialTreeFact DEF Represents
<1>11. /\ pc' = "idle" /\ UNCHANGED <<nodes, sectors, filesystem_persistent_backend>>
  BY DEF TreeDone, EnterHome, Finish, diskVars
<1>12. current_directory' = HOME
  <2>1. PICK k \in DOMAIN initial_nodes : initial_nodes[k] = <<HOME, DIR>>
    BY BaseTreeAssumption
  <2>2. InitialNode(k) = HOME BY <2>1 DEF InitialNode
  <2>3. \E i \in Slots : nodes[i].used /\ nodes[i].path = HOME BY <1>7, <2>2 DEF UsedIn
  <2> QED BY <2>3 DEF TreeDone, EnterHome
<1>13. Seen' = InitialTree /\ SeenCwd' = HOME /\ RefInv'
  BY <1>2, <1>6, <1>10, <1>11, <1>12, Returns
<1> QED BY <1>2, <1>13 DEF Good

-----------------------------------------------------------------------------
(* The theorem.                                                            *)

LEMMA MountGood == ASSUME Ready, StaysReady, Mount PROVE Good
  BY InitCallGood, TreeSkipGood, TreeAddGood, TreeFullGood, TreeDoneGood DEF Mount

LEMMA PathCallGood ==
    ASSUME Ready, StaysReady, NEW p \in Path,
           \/ filesystem_change_directory(p)
           \/ filesystem_create_directory(p)
           \/ filesystem_create_file(p)
           \/ \E r \in BOOLEAN : filesystem_remove(p, r)
           \/ ReadFails(p)
    PROVE  Good
<1>1. ASSUME NEW r \in BOOLEAN, filesystem_remove(p, r) PROVE Good BY <1>1, RemoveGood
<1> QED BY <1>1, ChangeDirectoryGood, CreateDirectoryGood, CreateFileGood, ReadFailsGood

LEMMA CallGood == ASSUME Ready, StaysReady, Call PROVE Good
<1>1. ASSUME NEW s \in Path, NEW d \in Path, filesystem_copy(s, d) \/ filesystem_move(s, d)
      PROVE  Good
  BY <1>1, CopyGood, MoveGood
<1>2. ASSUME NEW p \in Path, NEW c \in Datas,
             filesystem_write_file(p, c) \/ filesystem_append_file(p, c)
      PROVE  Good
  BY <1>2, WriteFileGood, AppendFileGood
<1> QED BY <1>1, <1>2, PathCallGood DEF Call

LEMMA StepsGood == ASSUME Ready, StaysReady, Step PROVE Good
<1>1. ASSUME Ensure \/ Create \/ Remove PROVE Good
  BY <1>1, EnsureMakeGood, EnsureRefusedGood, DirectoryMadeGood, FileMadeGood, RemoveNodeGood,
     RemoveDoneGood DEF Ensure, Create, Remove
<1>2. ASSUME Copy \/ Move PROVE Good
  BY <1>2, TransferCheckedGood, CopyNodeGood, CopyDoneGood, MoveNodeGood, MoveDoneGood
     DEF Copy, Move
<1>3. ASSUME WriteFile PROVE Good
  BY <1>3, RamWriteGood, WriteRefusedGood, WriteSectorGood, WriteSizeGood DEF WriteFile
<1> QED BY <1>1, <1>2, <1>3 DEF Step

LEMMA CrashGood == ASSUME Ready, StaysReady, Crash PROVE Good
  BY DEF Ready, StaysReady, Calm, Crash

LEMMA NextGood == ASSUME Ready, StaysReady, Next PROVE Good
  BY MountGood, CallGood, StepsGood, CrashGood DEF Next

\* What stays what it is does so for the caller as well.
LEMMA StutterGood == ASSUME Ready, UNCHANGED vars PROVE Good
<1>1. /\ UNCHANGED <<nodes, current_directory, filesystem_persistent_backend, disk, sectors>>
      /\ UNCHANGED <<buf, slot, sec, pc, op, at, snap>>
  BY DEF vars, cacheVars, diskVars, writeVars, callVars
<1>2. MountRef' /\ CallRef' BY <1>1, ReadyFact DEF MountRef, CallRef
<1>3. Tree' = Tree BY <1>1 DEF Tree, IsFile, Exists, find_node, Stored
<1>4. UNCHANGED <<Seen, SeenCwd>> BY <1>1, <1>3 DEF Seen, SeenCwd
<1> QED BY <1>2, <1>4 DEF Good, RefInv

LEMMA StepGood == Ready /\ StaysReady /\ [Next]_vars => Good
  BY NextGood, StutterGood

\* The invariant of FsTree holds of what is seen.
LEMMA TreeKept == Ready /\ Good => F!FsInv'
<1> SUFFICES ASSUME Ready, F!Next \/ UNCHANGED <<Seen, SeenCwd>> PROVE F!FsInv'
  BY DEF Good
<1>1. F!FsInv /\ F!TreeAssumption BY TreeAssumptionHolds DEF Ready
<1>2. CASE F!Next BY <1>1, <1>2, F!FsStep
<1>3. CASE UNCHANGED <<Seen, SeenCwd>> BY <1>1, <1>3 DEF F!FsInv
<1> QED BY <1>2, <1>3

LEMMA FirstGood ==
    ASSUME Init, Calm
    PROVE  RefInv /\ F!FsInv /\ Seen = InitialTree /\ SeenCwd = HOME
<1>1. Seen = InitialTree /\ SeenCwd = HOME BY DEF Init, Seen, SeenCwd
<1>2. pc = "off" /\ \A i \in Slots : ~disk[i].used BY DEF Init, ClearRecord
<1>3. RefInv BY <1>2 DEF RefInv, MountRef, CallRef
<1>4. F!FsInv
  BY <1>1, TreeAssumptionHolds DEF F!FsInv, F!IsTree, F!TreeAssumption
<1> QED BY <1>1, <1>3, <1>4

\* The specification that Filesystem names is the one the lemmas are about.
LEMMA SameSpec ==
    /\ F!Init <=> Abstract!Init
    /\ F!Next <=> Abstract!Next
    /\ F!treeVars = <<Seen, SeenCwd>> /\ Abstract!treeVars = <<Seen, SeenCwd>>
  BY DEF F!Init, Abstract!Init, F!Next, Abstract!Next, F!treeVars, Abstract!treeVars,
         F!Refused, Abstract!Refused, F!ChangeDirectory, Abstract!ChangeDirectory, F!Remove,
         Abstract!Remove, F!MakeDirectories, Abstract!MakeDirectories, F!CreateFile,
         Abstract!CreateFile, F!Copy, Abstract!Copy, F!Move, Abstract!Move, F!Graft,
         Abstract!Graft, F!WriteFile, Abstract!WriteFile, F!Prefixes, Abstract!Prefixes,
         F!DirsTowards, Abstract!DirsTowards, F!WithDirs, Abstract!WithDirs, F!Grafted,
         Abstract!Grafted, F!Below, Abstract!Below, F!Rebase, Abstract!Rebase, F!Parent,
         Abstract!Parent, F!Front, Abstract!Front, F!Rooted, Abstract!Rooted, F!IsDir,
         Abstract!IsDir, F!NewDir, Abstract!NewDir, F!NewFile, Abstract!NewFile, F!DIR,
         Abstract!DIR, F!FILE, Abstract!FILE

\* While no disk sector fails and power stays, each call of the filesystem,
\* however many slots and sectors it writes one after another, is for its
\* caller one indivisible call of FsTree: nobody sees half a copy, move,
\* removal or write, a call refused changes nothing but for directories made
\* on the way, and the first mount shows the base tree.
THEOREM FsImplementsTree == Spec /\ []Calm => ImplementsTree
<1>1. Init /\ Calm => RefInv /\ F!FsInv /\ Abstract!Init
  BY FirstGood, SameSpec DEF Abstract!Init
<1>2. /\ FsInv /\ CutInv /\ RefInv /\ F!FsInv /\ Calm
      /\ FsInv' /\ CutInv' /\ Calm' /\ [Next]_vars
      => RefInv' /\ F!FsInv' /\ [Abstract!Next]_(Abstract!treeVars)
  <2> SUFFICES ASSUME Ready, StaysReady, [Next]_vars
               PROVE  RefInv' /\ F!FsInv' /\ [Abstract!Next]_(Abstract!treeVars)
    BY DEF Ready, StaysReady
  <2>1. Good BY StepGood
  <2>2. F!FsInv' BY <2>1, TreeKept
  <2>3. Abstract!Next \/ UNCHANGED <<Seen, SeenCwd>> BY <2>1, SameSpec DEF Good
  <2>4. Abstract!Next \/ UNCHANGED Abstract!treeVars BY <2>3, SameSpec DEF Abstract!treeVars
  <2> QED BY <2>1, <2>2, <2>4 DEF Good
<1>3. Spec => []FsInv BY FsInvariant
<1>4. Spec => []CutInv BY CutInvariant
<1> QED BY <1>1, <1>2, <1>3, <1>4, PTL DEF Spec, ImplementsTree, Abstract!Spec

\* Without a bound above zero on faults and power failures none happens.
CalmBounds == Volumes = {TRUE} /\ MaxFaults = 0 /\ MaxCrashes = 0

\* Every record write works.
LEMMA RecordsWork ==
    ASSUME CalmBounds, Calm, NEW i, NEW r, NEW w \in RecordWrites(i, r)
    PROVE  w.ok
<1>1. faults = MaxFaults BY DEF Calm, CalmBounds
<1>2. w \in {[ok |-> TRUE, disk |-> disk]} \cup {[ok |-> TRUE, disk |-> [disk EXCEPT ![i] = r]]}
  BY <1>1 DEF RecordWrites
<1> QED BY <1>2

\* A record write adds no fault.
LEMMA WroteCalm ==
    ASSUME CalmBounds, Calm, NEW i, NEW r, NEW w \in RecordWrites(i, r), Wrote(w)
    PROVE  faults' = faults
  BY RecordsWork DEF Wrote

\* Neither does a new node.
LEMMA AddCalm ==
    ASSUME CalmBounds, Calm, NEW p, NEW t, NEW w \in AddOutcomes(p, t), AddNode(p, t, w)
    PROVE  UNCHANGED <<volume, faults, crashes>>
  BY WroteCalm DEF AddNode, AddOutcomes, persist_node

\* No step brings a fault or a power failure.
LEMMA CalmStep == ASSUME CalmBounds, Calm, [Next]_vars PROVE Calm'
<1>1. ASSUME UNCHANGED <<volume, faults, crashes>> PROVE Calm' BY <1>1 DEF Calm
<1>2. faults = 0 /\ crashes = 0 /\ volume /\ ~(faults < MaxFaults) /\ ~(crashes < MaxCrashes)
  BY DEF Calm, CalmBounds
<1>3. CASE UNCHANGED vars BY <1>1, <1>3 DEF vars
<1>4. CASE Mount
  <2>1. CASE filesystem_init BY <1>1, <1>2, <2>1 DEF filesystem_init
  <2>2. CASE TreeSkip BY <1>1, <2>2 DEF TreeSkip, Kept
  <2>3. ASSUME TreeAdd PROVE Calm'
    <3>1. PICK w \in AddOutcomes(InitialNode(at), InitialType(at)) :
            w.ok => AddNode(InitialNode(at), InitialType(at), w)
      BY <2>3 DEF TreeAdd
    <3>2. w.ok BY <3>1, RecordsWork DEF AddOutcomes, persist_node
    <3> QED BY <1>1, <3>1, <3>2, AddCalm
  <2>4. CASE TreeFull BY <1>1, <2>4 DEF TreeFull
  <2>5. CASE TreeDone BY <1>1, <2>5 DEF TreeDone
  <2> QED BY <1>4, <2>1, <2>2, <2>3, <2>4, <2>5 DEF Mount
<1>5. CASE Call
  BY <1>1, <1>2, <1>5
     DEF Call, Kept, filesystem_change_directory, filesystem_create_directory,
         filesystem_create_file, filesystem_remove, filesystem_copy, filesystem_move, Transfer,
         filesystem_write_file, filesystem_append_file, ReadFails
<1>6. CASE Ensure \/ Create
  <2>1. CASE EnsureMake BY <1>1, <2>1, AddCalm DEF EnsureMake
  <2>2. CASE EnsureRefused \/ DirectoryMade BY <1>1, <2>2 DEF EnsureRefused, DirectoryMade, Kept
  <2>3. CASE FileMade BY <1>1, <2>3, AddCalm DEF FileMade, Kept
  <2> QED BY <1>6, <2>1, <2>2, <2>3 DEF Ensure, Create
<1>7. CASE Remove
  <2>1. CASE RemoveNode BY <1>1, <2>1, WroteCalm DEF RemoveNode, clear_persisted_node
  <2>2. CASE RemoveDone BY <1>1, <2>2 DEF RemoveDone, Kept
  <2> QED BY <1>7, <2>1, <2>2 DEF Remove
<1>8. CASE Copy
  <2>1. CASE TransferChecked \/ CopyDone BY <1>1, <2>1 DEF TransferChecked, CopyDone, Kept
  <2>2. CASE CopyNode BY <1>1, <1>2, <2>2, AddCalm DEF CopyNode, Kept
  <2> QED BY <1>8, <2>1, <2>2 DEF Copy
<1>9. CASE Move
  <2>1. CASE MoveNode BY <1>1, <2>1, WroteCalm DEF MoveNode, persist_node
  <2>2. CASE MoveDone BY <1>1, <2>2 DEF MoveDone
  <2> QED BY <1>9, <2>1, <2>2 DEF Move
<1>10. CASE WriteFile
  <2>1. CASE RamWrite \/ WriteRefused BY <1>1, <2>1 DEF RamWrite, WriteRefused
  <2>2. CASE WriteSector BY <1>1, <1>2, <2>2 DEF WriteSector
  <2>3. CASE WriteSize BY <1>1, <2>3, WroteCalm DEF WriteSize
  <2> QED BY <1>10, <2>1, <2>2, <2>3 DEF WriteFile
<1>11. ~Crash BY <1>2 DEF Crash
<1> QED BY <1>3, <1>4, <1>5, <1>6, <1>7, <1>8, <1>9, <1>10, <1>11 DEF Next, Step

\* Where no fault and no power failure is possible the filesystem implements
\* FsTree outright, however many slots, names, sectors and base nodes it has.
THEOREM FsImplementsTreeWhenCalm == CalmBounds => (Spec => ImplementsTree)
<1>1. CalmBounds /\ Init => Calm BY DEF CalmBounds, Init, Calm
<1>2. CalmBounds /\ Calm /\ [Next]_vars => Calm' BY CalmStep
<1>3. CalmBounds => (Spec => []Calm)
  <2> SUFFICES ASSUME CalmBounds PROVE Spec => []Calm
    OBVIOUS
  <2>1. Init => Calm BY <1>1
  <2>2. Calm /\ [Next]_vars => Calm' BY <1>2
  <2> QED BY <2>1, <2>2, PTL DEF Spec
<1> QED BY <1>3, FsImplementsTree, PTL

\* Whatever calls are made, the table of slots holds a tree between them: every
\* node lies in directories of the table, and the current directory is one.
THEOREM FsTableIsTree ==
    Spec /\ []Calm => [](pc = "idle" => F!Shape(Tree) /\ F!IsDir(Tree, current_directory))
<1>1. F!Init <=> Abstract!Init BY SameSpec
<1>2. [Abstract!Next]_(Abstract!treeVars) => [F!Next]_(F!treeVars)
  BY SameSpec DEF F!treeVars, Abstract!treeVars
<1>3. ImplementsTree => F!Spec BY <1>1, <1>2, PTL DEF ImplementsTree, Abstract!Spec, F!Spec
<1>4. F!Spec => []F!WellShaped BY TreeAssumptionHolds, F!FsTreeWellShaped
<1>5. F!WellShaped => (pc = "idle" => F!Shape(Tree) /\ F!IsDir(Tree, current_directory))
  BY DEF F!WellShaped, F!Shape, F!IsDir, F!Rooted, Seen, SeenCwd
<1> QED BY <1>3, <1>4, <1>5, FsImplementsTree, PTL
=============================================================================
