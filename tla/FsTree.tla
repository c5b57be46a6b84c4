------------------------------- MODULE FsTree -------------------------------
(***************************************************************************)
(* What the filesystem of RootOS promises its callers (filesystem.h): a    *)
(* tree of directories and files and a current directory, each call one    *)
(* indivisible change.  A path is the sequence of its names, <<>> being    *)
(* "/".  How the calls are carried out, slot by slot over a table of nodes *)
(* mirrored on disk, is module Filesystem.                                 *)
(***************************************************************************)
EXTENDS Integers, Sequences

CONSTANTS
    Name,       \* the names of files and directories
    Path,       \* every path that fits ROOT_PATH_MAX
    Content,    \* every content a file can have, <<>> included
    InitTree,   \* initial_nodes: path -> [type, data]
    HOME        \* ROOTOS_DEFAULT_HOME

VARIABLES
    tree,       \* path -> [type, data]; its domain is what exists
    cwd         \* current_directory

treeVars == <<tree, cwd>>

DIR == "directory"
FILE == "file"
NodeInfo == [type : {DIR, FILE}, data : Content]
NewDir == [type |-> DIR, data |-> <<>>]
NewFile == [type |-> FILE, data |-> <<>>]

Front(p, k) == SubSeq(p, 1, k)
Parent(p) == Front(p, Len(p) - 1)
IsDir(t, p) == p \in DOMAIN t /\ t[p].type = DIR
\* q is p or lies below it.
Below(p, q) == Len(p) <= Len(q) /\ Front(q, Len(p)) = p
\* q with its leading part s replaced by d.
Rebase(s, d, q) == d \o SubSeq(q, Len(s) + 1, Len(q))

\* Everything above p is a directory.
Rooted(t, p) == \A k \in 0 .. Len(p) - 1 : IsDir(t, Front(p, k))

Shape(t) == IsDir(t, <<>>) /\ \A p \in DOMAIN t : Rooted(t, p)

ASSUME TreeAssumption ==
    /\ Path \subseteq Seq(Name)
    /\ <<>> \in Content
    /\ DOMAIN InitTree \subseteq Path
    /\ InitTree \in [DOMAIN InitTree -> NodeInfo]
    /\ Shape(InitTree)
    /\ IsDir(InitTree, HOME)

-----------------------------------------------------------------------------
\* t with new empty directories.
WithDirs(t, new) ==
    [q \in DOMAIN t \cup new |-> IF q \in DOMAIN t THEN t[q] ELSE NewDir]

\* Directories made on the way to p, from the top down; all are in Path.
DirsTowards(t, p, new) ==
    /\ new \subseteq Path
    /\ \A q \in new : q \notin DOMAIN t /\ q # <<>> /\ Below(q, p)
    /\ \A q \in new : Rooted(WithDirs(t, new), q)

\* t with the part below s also (copy) or only (not copy) found below d.
Grafted(t, s, d, copy) ==
    LET moved == {q \in DOMAIN t : Below(s, q)}
        kept  == IF copy THEN DOMAIN t ELSE DOMAIN t \ moved
    IN  [q \in kept \cup {Rebase(s, d, m) : m \in moved} |->
           IF q \in kept THEN t[q]
           ELSE t[CHOOSE m \in moved : Rebase(s, d, m) = q]]

-----------------------------------------------------------------------------
Init == tree = InitTree /\ cwd = HOME

ChangeDirectory(p) ==
    /\ IsDir(tree, p)
    /\ cwd' = p
    /\ UNCHANGED tree

\* create_directory; also what a call that fails later on leaves behind.
MakeDirectories(p, new) ==
    /\ DirsTowards(tree, p, new)
    /\ tree' = WithDirs(tree, new)
    /\ UNCHANGED cwd

CreateFile(p, new) ==
    LET t == WithDirs(tree, new)
    IN  /\ p \in Path /\ p # <<>> /\ p \notin DOMAIN tree
        /\ DirsTowards(tree, Parent(p), new)
        /\ IsDir(t, Parent(p))
        /\ tree' = [q \in DOMAIN t \cup {p} |-> IF q = p THEN NewFile ELSE t[q]]
        /\ UNCHANGED cwd

Remove(p) ==
    /\ p \in DOMAIN tree /\ p # <<>>
    /\ ~Below(p, cwd)
    /\ tree' = [q \in {r \in DOMAIN tree : ~Below(p, r)} |-> tree[q]]
    /\ UNCHANGED cwd

\* What copy and move have in common.  Nothing is made below a file, and no
\* directory moves into itself.
Graft(s, d, new, copy) ==
    LET t == WithDirs(tree, new)
    IN  /\ s \in DOMAIN tree /\ d \in Path /\ d # <<>> /\ d \notin DOMAIN tree
        /\ ~Below(s, d)
        /\ DirsTowards(tree, Parent(d), new)
        /\ IsDir(t, Parent(d))
        /\ \A q \in DOMAIN t : Below(s, q) => Rebase(s, d, q) \in Path
        /\ tree' = Grafted(t, s, d, copy)

Copy(s, d, new) == Graft(s, d, new, TRUE) /\ UNCHANGED cwd

Move(s, d, new) ==
    /\ s # <<>>
    /\ Graft(s, d, new, FALSE)
    /\ cwd' = IF Below(s, cwd) THEN Rebase(s, d, cwd) ELSE cwd

WriteFile(p, c) ==
    /\ p \in DOMAIN tree /\ tree[p].type = FILE
    /\ c \in Content
    /\ tree' = [tree EXCEPT ![p].data = c]
    /\ UNCHANGED cwd

\* A call that is refused changes nothing.
Refused == UNCHANGED treeVars

Prefixes(p) == {Front(p, k) : k \in 0 .. Len(p)}

Next ==
    \/ Refused
    \/ \E p \in DOMAIN tree : ChangeDirectory(p) \/ Remove(p)
    \/ \E p \in Path : \E new \in SUBSET Prefixes(p) : MakeDirectories(p, new)
    \/ \E p \in Path : \E new \in SUBSET Prefixes(p) : CreateFile(p, new)
    \/ \E s \in DOMAIN tree, d \in Path : \E new \in SUBSET Prefixes(d) :
          Copy(s, d, new) \/ Move(s, d, new)
    \/ \E p \in DOMAIN tree, c \in Content : WriteFile(p, c)

Spec == Init /\ [][Next]_treeVars

-----------------------------------------------------------------------------
TypeOK ==
    /\ DOMAIN tree \subseteq Path
    /\ tree \in [DOMAIN tree -> NodeInfo]
    /\ cwd \in Path

\* The tree is a tree and the current directory is one of its directories,
\* whatever calls are made in whatever order.
WellShaped == Shape(tree) /\ IsDir(tree, cwd)
=============================================================================
