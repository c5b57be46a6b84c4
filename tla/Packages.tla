------------------------------ MODULE Packages ------------------------------
(***************************************************************************)
(* The package manager (source/package/package_manager.c, rtpgk.c) on the  *)
(* tree of module FsTree: installing and removing applications and the     *)
(* list of them kept in a database file.                                   *)
(*                                                                         *)
(* A filesystem call is one step and may fail; the power may fail between  *)
(* two calls, and between two sectors of the database.  The shell makes    *)
(* other filesystem calls only while no package call is under way.         *)
(*                                                                         *)
(* A file is a sequence of lines.  How long a line is, and so where a      *)
(* sector cuts it, is left open; Splices are the packages that the head of *)
(* one line and the tail of another can make.                              *)
(*                                                                         *)
(* Ghosts: `before' (when an install began), `durable' (the lists the      *)
(* database may hold), `torn' (its content is no such list), `hurt' (names *)
(* whose files others than an install changed last, or that others than a  *)
(* save listed) and `unread' (the last start could not read the database). *)
(***************************************************************************)
EXTENDS FsTree, FiniteSetsExt

CONSTANTS
    APPS, PACKAGE_DB_PATH,          \* /system/apps, /packages/installed.db
    MANIFEST,                       \* app.toml
    ROOT_PACKAGE_MAX_INSTALLED,
    RTPGK_HEADER_SIZE, ENTRY_SIZE,  \* sizeof(RtpgkHeader), sizeof(RtpgkEntry)
    USIZE,                          \* 2^32
    MAX_LINES,                      \* lines in a file
    Text,                           \* the lines of files other than the database
    PackageFiles,                   \* the .rtpgk files at hand
    Splices,                        \* what the halves of two lines can make
    UserContent,                    \* what the user writes into files
    MaxTroubles                     \* failing calls, power failures and user calls, together

VARIABLES
    pm,         \* the package manager, its call under way included
    ghost,
    budget      \* how many of these are left

packageVars == <<tree, cwd, pm, ghost, budget>>

EMPTY == ""
Usize == 0 .. USIZE - 1
Component == Name \cup {EMPTY, ".", ".."}
RtpgkEntry == [path : Seq(Component), offset : Usize, size : Usize, data : Content]

\* The lines of a database, and of any file.  BAD does not parse: halves that
\* make no line, or the zeroes behind the last one.
BAD == <<"bad">>
Line(i) == <<"line", i.name, i.version, i.entry>>
Info(h) == [name |-> h.name, version |-> h.version, entry |-> h.entry]
Known == {Info(h) : h \in PackageFiles} \cup Splices
AnyLine == {Line(i) : i \in Known} \cup {BAD} \cup Text

ASSUME PackageAssumption ==
    /\ {APPS, PACKAGE_DB_PATH, Parent(PACKAGE_DB_PATH)} \subseteq Path
    /\ ~Below(APPS, PACKAGE_DB_PATH) /\ ~Below(PACKAGE_DB_PATH, APPS)
    /\ IsDir(InitTree, Parent(PACKAGE_DB_PATH)) /\ PACKAGE_DB_PATH \notin DOMAIN InitTree
    /\ {ROOT_PACKAGE_MAX_INSTALLED, RTPGK_HEADER_SIZE, ENTRY_SIZE, MAX_LINES} \subseteq Nat
    /\ USIZE \in Nat \ {0}
    /\ ROOT_PACKAGE_MAX_INSTALLED <= MAX_LINES
    /\ MANIFEST \in Seq(Component)
    /\ \A x \in Text : x[1] # "line"
    /\ \A i \in Splices : i = Info(i) /\ i.version # EMPTY
    /\ \A i \in Known : i.name \in Name \ {EMPTY, ".", ".."}
    /\ Content = UNION {[1 .. n -> AnyLine] : n \in 0 .. MAX_LINES}
    /\ UserContent \subseteq Content
    /\ \A h \in PackageFiles :
         /\ {h.size, h.table_offset, h.data_offset} \subseteq Usize
         /\ h.entries \in Seq(RtpgkEntry)

-----------------------------------------------------------------------------
(* The package format.  A path is the sequence of its components as they   *)
(* are written, "", "." and ".." among them.                               *)

\* Mutant: the sum may wrap around.
RangeBySum(offset, amount, total) == (offset + amount) % USIZE <= total

range_valid(offset, amount, total) == offset <= total /\ amount <= total - offset

rtpgk_safe_relative_path(path) ==
    /\ path # <<>> /\ path[1] # EMPTY
    /\ \A i \in 1 .. Len(path) :
         path[i] \notin {EMPTY, ".", ".."} \/ (path[i] = EMPTY /\ i = Len(path))

TableBytes(h) == Len(h.entries) * ENTRY_SIZE

rtpgk_validate(h) ==
    /\ h.entries # <<>>
    /\ h.table_offset >= RTPGK_HEADER_SIZE
    /\ range_valid(h.table_offset, TableBytes(h), h.size)
    /\ h.data_offset >= (h.table_offset + TableBytes(h)) % USIZE
    /\ h.data_offset <= h.size
    /\ rtpgk_safe_relative_path(h.entry)
    /\ \A i \in 1 .. Len(h.entries) :
         LET e == h.entries[i]
         IN  /\ rtpgk_safe_relative_path(e.path)
             /\ e.offset >= h.data_offset
             /\ range_valid(e.offset, e.size, h.size)

WithComponent(p, c) ==
    IF c \in {EMPTY, "."} THEN p
    ELSE IF c = ".." THEN Parent(p) ELSE Append(p, c)

root_path_resolve(base, path) ==
    LET output[k \in 0 .. Len(path)] ==
          IF k = 0 THEN base ELSE WithComponent(output[k - 1], path[k])
    IN  output[Len(path)]

InstallRoot(name) == Append(APPS, name)
destination_path(name, path) == root_path_resolve(InstallRoot(name), path)

-----------------------------------------------------------------------------
(* The database.                                                           *)

Lines(list) == [k \in 1 .. Len(list) |-> Line(list[k])]

\* A line needs a version.
Parsable(line) == line[1] = "line" /\ line[3] # EMPTY

\* Mutant: a line without a line end behind it is not taken.
LoadOneLess(db) ==
    LET n == Max({k \in 0 .. Min({ROOT_PACKAGE_MAX_INSTALLED, Len(db)}) :
                    k < Len(db) /\ \A j \in 1 .. k : Parsable(db[j])} \cup {0})
    IN  [j \in 1 .. n |-> [name |-> db[j][2], version |-> db[j][3], entry |-> db[j][4]]]

\* The lines up to the first that does not parse.
package_database_load(db) ==
    LET n == Max({k \in 0 .. Min({ROOT_PACKAGE_MAX_INSTALLED, Len(db)}) :
                    \A j \in 1 .. k : Parsable(db[j])})
    IN  [j \in 1 .. n |-> [name |-> db[j][2], version |-> db[j][3], entry |-> db[j][4]]]

\* The lines at the front of both.
Common(old, new) ==
    Max({k \in 0 .. Min({Len(old), Len(new)}) : \A j \in 1 .. k : old[j] = new[j]})

\* Where the new sectors end, in or behind new line m + 1 and old line b: the
\* head of the one and the tail of the other make nothing, a line, or neither.
Cuts(old, new) ==
    LET c == Common(old, new)
    IN  {cut \in [m : c .. Len(new), b : c + 1 .. Len(old),
                  joint : {<<>>, <<BAD>>} \cup {<<Line(i)>> : i \in Splices}] :
           cut.joint # <<BAD>> => cut.m > c \/ (cut.joint # <<>> /\ c < Len(new))}

\* The new sectors come first, the size in the record last: the new lines up
\* to a cut, then what stood behind it.
Torn(old, new) ==
    {old} \cup ({SubSeq(new, 1, cut.m) \o cut.joint \o SubSeq(old, cut.b + 1, Len(old)) :
                 cut \in Cuts(old, new)} \cap Content)

Says(db, i) == \E k \in 1 .. Len(db) : db[k] = Line(i)
\* The names that a cut alone put into db.
Spliced(old, new, db) ==
    {i.name : i \in {s \in Splices : Says(db, s) /\ ~Says(old, s) /\ ~Says(new, s)}}

-----------------------------------------------------------------------------
(* Filesystem calls on a tree t.                                           *)

Put(t, p, info) == [q \in DOMAIN t \cup {p} |-> IF q = p THEN info ELSE t[q]]
Gaps(t, p) == {q \in Prefixes(p) : q \notin DOMAIN t}
\* ensure_directory_absolute: what is on the way to p is a directory or fits.
CanMake(t, p) == \A q \in Prefixes(p) : IF q \in DOMAIN t THEN IsDir(t, q) ELSE q \in Path
Cut(t, p) == [q \in {r \in DOMAIN t : ~Below(p, r)} |-> t[q]]
Stored(t) == IF PACKAGE_DB_PATH \in DOMAIN t THEN t[PACKAGE_DB_PATH].data ELSE <<>>
DbUsable(t) ==
    IF PACKAGE_DB_PATH \in DOMAIN t THEN t[PACKAGE_DB_PATH].type = FILE
    ELSE CanMake(t, Parent(PACKAGE_DB_PATH))
StoreDb(t, db) ==
    Put(WithDirs(t, Gaps(t, Parent(PACKAGE_DB_PATH))), PACKAGE_DB_PATH, [type |-> FILE, data |-> db])

Trouble == budget > 0 /\ budget' = budget - 1
NoTrouble == UNCHANGED budget

Idle == pm.pc = "idle"
Listed(name) == \E i \in 1 .. Len(pm.installed) : pm.installed[i].name = name
Root == InstallRoot(pm.name)

Goto(pc) == pm' = [pm EXCEPT !.pc = pc]
Return(result) == pm' = [pm EXCEPT !.pc = "idle", !.file = EMPTY, !.at = 0, !.result = result]

-----------------------------------------------------------------------------
(* package_install.                                                        *)

\* A refusal changes nothing.  The new directory is the first change.
package_install(h) ==
    LET new == Gaps(tree, InstallRoot(h.name))
    IN  /\ Idle
        /\ rtpgk_validate(h)
        /\ ~Listed(h.name)
        /\ Len(pm.installed) < ROOT_PACKAGE_MAX_INSTALLED
        /\ InstallRoot(h.name) \notin DOMAIN tree
        /\ CanMake(tree, InstallRoot(h.name))
        /\ tree' = WithDirs(tree, new)
        /\ pm' = [pm EXCEPT !.pc = "entry", !.op = "install", !.name = h.name, !.file = h,
                            !.at = 1, !.result = "none"]
        /\ ghost' = [ghost EXCEPT !.before = [installed |-> pm.installed, tree |-> tree]]
        /\ NoTrouble /\ UNCHANGED cwd

\* One entry: its file is made, with the directories above it, then written.
InstallEntry ==
    LET e == pm.file.entries[pm.at]
        p == destination_path(pm.name, e.path)
        made == WithDirs(tree, Gaps(tree, Parent(p)))
        full == CanMake(tree, Parent(p)) /\ p \in Path /\ ~IsDir(tree, p)
    IN  /\ pm.pc = "entry" /\ pm.at <= Len(pm.file.entries)
        /\ \/ /\ full /\ NoTrouble
              /\ tree' = Put(made, p, [type |-> FILE, data |-> e.data])
              /\ pm' = [pm EXCEPT !.at = @ + 1]
           \/ ~full /\ NoTrouble /\ UNCHANGED tree /\ Goto("rollback")
           \/ /\ full /\ Trouble /\ Goto("rollback")
              /\ \/ UNCHANGED tree
                 \/ p \notin DOMAIN tree /\ tree' = Put(made, p, NewFile)
        /\ UNCHANGED <<cwd, ghost>>

Has(path) == \E i \in 1 .. Len(pm.file.entries) : pm.file.entries[i].path = path

\* Mutant: an application without its entry is taken.
InstallAnyway ==
    /\ pm.pc = "entry" /\ pm.at > Len(pm.file.entries)
    /\ pm' = [pm EXCEPT !.pc = "save", !.installed = Append(@, Info(pm.file))]
    /\ UNCHANGED <<tree, cwd, ghost, budget>>

InstallRecord ==
    /\ pm.pc = "entry" /\ pm.at > Len(pm.file.entries)
    /\ IF Has(MANIFEST) /\ Has(pm.file.entry)
       THEN pm' = [pm EXCEPT !.pc = "save", !.installed = Append(@, Info(pm.file))]
       ELSE Goto("rollback")
    /\ UNCHANGED <<tree, cwd, ghost, budget>>

Rollback ==
    /\ pm.pc = "rollback"
    /\ \/ NoTrouble /\ tree' = Cut(tree, Root) /\ Return("failed")
       \/ Trouble /\ UNCHANGED tree /\ Return("unclean")
    /\ UNCHANGED <<cwd, ghost>>

-----------------------------------------------------------------------------
(* package_database_save, the last part of both calls.                     *)

SaveOk ==
    /\ pm.pc = "save" /\ DbUsable(tree)
    /\ tree' = StoreDb(tree, Lines(pm.installed))
    /\ Return("ok")
    /\ ghost' = [ghost EXCEPT !.durable = {pm.installed}, !.torn = FALSE, !.unread = FALSE,
                              !.hurt = IF pm.op = "install" THEN @ \ {pm.name} ELSE @]
    /\ NoTrouble /\ UNCHANGED cwd

LeavesHurt(names) ==
    ghost' = [ghost EXCEPT !.torn = @ \/ ghost.durable # {Parent(pm.installed)},
                           !.hurt = @ \cup {pm.name} \cup names]

\* What is left of a save that is cut off: nothing done, or some sectors
\* without the new size.  Over the list that an install began with this
\* is still that list.
CutOff ==
    LET old == Stored(tree)
        new == Lines(pm.installed)
    IN  \/ UNCHANGED tree /\ LeavesHurt({})
        \/ /\ DbUsable(tree)
           /\ \E db \in Torn(old, new) :
                tree' = StoreDb(tree, db) /\ LeavesHurt(Spliced(old, new, db))

\* Mutant: the list keeps the package whose save failed.
FailedInMemory == IF pm.op = "install" THEN Goto("rollback") ELSE Return("failed")

\* A failed save takes an install back; a removal stays removed in memory.
Failed ==
    IF pm.op = "install"
    THEN pm' = [pm EXCEPT !.pc = "rollback", !.installed = Parent(@)]
    ELSE Return("failed")

SaveFailed ==
    /\ pm.pc = "save" /\ Failed /\ UNCHANGED cwd
    /\ \/ Trouble /\ CutOff
       \/ NoTrouble /\ ~DbUsable(tree) /\ UNCHANGED tree
          /\ ghost' = [ghost EXCEPT !.hurt = @ \cup {pm.name}]
       \/ /\ Trouble /\ DbUsable(tree)
          /\ tree' = StoreDb(tree, Lines(pm.installed))
          /\ ghost' = [ghost EXCEPT !.durable = @ \cup {pm.installed}, !.hurt = @ \cup {pm.name}]

-----------------------------------------------------------------------------
(* package_remove: the files first, then the list, then the database.      *)

Index(name) == Min({i \in 1 .. Len(pm.installed) : pm.installed[i].name = name})

RemovingName(name) == [pm EXCEPT !.pc = "unlist", !.op = "remove", !.name = name, !.result = "none"]

package_remove(name) ==
    /\ Idle /\ Listed(name)
    /\ \/ /\ ~Below(InstallRoot(name), cwd)
          /\ tree' = Cut(tree, InstallRoot(name)) /\ pm' = RemovingName(name)
          /\ ghost' = [ghost EXCEPT !.hurt = @ \cup {name}]
          /\ NoTrouble
       \/ /\ InstallRoot(name) \in DOMAIN tree
          /\ IF Below(InstallRoot(name), cwd) THEN NoTrouble ELSE Trouble
          /\ pm' = [pm EXCEPT !.op = "remove", !.name = name, !.result = "failed"]
          /\ UNCHANGED <<tree, ghost>>
    /\ UNCHANGED cwd

Without(list, i) == [k \in 1 .. Len(list) - 1 |-> IF k < i THEN list[k] ELSE list[k + 1]]

Unlist ==
    /\ pm.pc = "unlist"
    /\ pm' = [pm EXCEPT !.pc = "save", !.installed = Without(@, Index(pm.name))]
    /\ UNCHANGED <<tree, cwd, ghost, budget>>

-----------------------------------------------------------------------------
(* Restart and the user's own calls.                                       *)

PowerFails ==
    /\ pm.pc # "off" /\ Trouble
    /\ IF pm.pc = "save" THEN CutOff ELSE UNCHANGED <<tree, ghost>>
    /\ Goto("off") /\ UNCHANGED cwd

\* filesystem_init puts the base tree back.
Based(t) == [q \in DOMAIN t \cup DOMAIN InitTree |-> IF q \in DOMAIN t THEN t[q] ELSE InitTree[q]]

Started(list) ==
    [pm EXCEPT !.pc = "idle", !.op = "none", !.name = EMPTY, !.file = EMPTY, !.at = 0,
               !.result = "none", !.installed = list]

\* A database that is missing is made, any other one read.  When that fails
\* the system starts with an empty list and nobody is told.
package_manager_init ==
    LET based == Based(tree)
        made == IF PACKAGE_DB_PATH \in DOMAIN based \/ ~DbUsable(based) THEN based
                ELSE StoreDb(based, <<>>)
    IN  /\ pm.pc = "off"
        /\ \/ /\ NoTrouble /\ tree' = made
              /\ pm' = Started(package_database_load(Stored(made)))
              /\ ghost' = [ghost EXCEPT !.unread = FALSE]
           \/ /\ Trouble /\ tree' = based
              /\ pm' = Started(<<>>)
              /\ ghost' = [ghost EXCEPT !.unread = TRUE]
        /\ cwd' = IF IsDir(tree', HOME) THEN HOME ELSE <<>>

\* The nodes below a package's root, as they were and as they are now.
Touched(name) == Cut(tree, InstallRoot(name)) # tree /\ \E q \in DOMAIN tree :
    Below(InstallRoot(name), q) /\ (q \notin DOMAIN tree' \/ tree'[q] # tree[q])

\* The user puts a list into the place of the database.
Relisted(name) ==
    Stored(tree') # Stored(tree) /\ \E i \in Known : i.name = name /\ Says(Stored(tree'), i)

UserCall ==
    \/ \E p \in DOMAIN tree : ChangeDirectory(p) \/ Remove(p)
    \/ \E p \in Path : \E new \in SUBSET Prefixes(p) : MakeDirectories(p, new) \/ CreateFile(p, new)
    \/ \E s \in DOMAIN tree, d \in Path : Copy(s, d, {}) \/ Move(s, d, {})
    \/ \E p \in DOMAIN tree, c \in UserContent : WriteFile(p, c)

User ==
    /\ Idle /\ Trouble
    /\ UserCall
    /\ pm' = [pm EXCEPT !.op = "none", !.name = EMPTY, !.file = EMPTY, !.at = 0, !.result = "none"]
    /\ ghost' = [ghost EXCEPT !.hurt = @ \cup {n \in {i.name : i \in Known} : Touched(n) \/ Relisted(n)},
                              !.torn = @ \/ Stored(tree') # Stored(tree)]

PackageInit ==
    /\ tree = StoreDb(InitTree, <<>>) /\ cwd = HOME
    /\ pm = [pc |-> "idle", op |-> "none", name |-> EMPTY, file |-> EMPTY, at |-> 0, result |-> "none",
             installed |-> <<>>]
    /\ ghost = [before |-> [installed |-> <<>>, tree |-> InitTree], durable |-> {<<>>},
                torn |-> FALSE, unread |-> FALSE, hurt |-> {}]
    /\ budget = MaxTroubles

\* A call refused before its first change: wrong file, listed, full, there.
PackageRefused == Idle /\ UNCHANGED packageVars

Install == PackageRefused \/ (\E h \in PackageFiles : package_install(h)) \/ InstallEntry \/ InstallRecord \/ Rollback
Uninstall == (\E i \in 1 .. Len(pm.installed) : package_remove(pm.installed[i].name)) \/ Unlist
PackageNext == Install \/ Uninstall \/ SaveOk \/ SaveFailed \/ PowerFails \/ package_manager_init \/ User

PackageSpec == PackageInit /\ [][PackageNext]_packageVars

-----------------------------------------------------------------------------
(* Properties.                                                             *)

\* All headers with one entry, the sums wrapping as usize does.
ValidationIsSafe ==
    \A size, table, data, offset, amount \in 0 .. USIZE - 1 :
      LET h == [name |-> "x", version |-> "1", entry |-> MANIFEST, size |-> size, table_offset |-> table,
                data_offset |-> data,
                entries |-> <<[path |-> MANIFEST, offset |-> offset, size |-> amount, data |-> <<>>]>>]
      IN  rtpgk_validate(h) => /\ offset + amount <= size
                               /\ table + ENTRY_SIZE <= offset

\* Whatever validation lets an install use lies in the file: every entry that
\* is copied out of it, and the table of entries, for any offsets and sizes.
AcceptedInBounds == pm.op = "install" => ValidationIsSafe

\* An install that fails leaves the list in memory and every file and
\* directory but the database as they were, and makes nothing but the
\* database and the directories above it and above all applications: at
\* whatever entry, check or save it failed.
InstallAllOrNothing ==
    LET before == ghost.before.tree
    IN  pm.op = "install" /\ pm.result = "failed" =>
          /\ pm.installed = ghost.before.installed
          /\ \A q \in DOMAIN before \ {PACKAGE_DB_PATH} : q \in DOMAIN tree /\ tree[q] = before[q]
          /\ DOMAIN tree \subseteq DOMAIN before \cup Prefixes(APPS) \cup Prefixes(PACKAGE_DB_PATH)

\* The first n entries of h are files of t, each with the content of the last
\* of these entries for it.
Unpacked(t, h, n) ==
    \A j \in 1 .. n :
      LET p == destination_path(h.name, h.entries[j].path)
      IN  \/ p \in DOMAIN t /\ t[p] = [type |-> FILE, data |-> h.entries[j].data]
          \/ \E k \in j + 1 .. n : destination_path(h.name, h.entries[k].path) = p

\* All of the valid package that the list names, with its version and its
\* application: the manifest and that application are among the files.
Complete(t, info) ==
    \E h \in PackageFiles :
      /\ Info(h) = info /\ rtpgk_validate(h)
      /\ Unpacked(t, h, Len(h.entries))
      /\ \A path \in {MANIFEST, h.entry} : \E j \in 1 .. Len(h.entries) : h.entries[j].path = path

\* Between calls a listed package has all its files with the content they
\* were packed with, in the version and with the application that the list
\* names.  Excepted are packages whose removal or save was cut off or whose
\* files the user changed, a list that the user put there, and a line
\* that a crash made of two.
ListedIsComplete ==
    Idle => \A i \in 1 .. Len(pm.installed) :
      pm.installed[i].name \in ghost.hurt \/ Complete(tree, pm.installed[i])

\* What a load makes of a saved list: it ends before the first package
\* without a version.
Readable(l) ==
    LET bad == {k \in 1 .. Len(l) : l[k].version = EMPTY}
    IN  IF bad = {} THEN l ELSE SubSeq(l, 1, Min(bad) - 1)

\* A restart, at rest or in the middle of an install, finds the list from
\* before or after the call, up to the first package without a version.
\* Nothing is promised behind a removal whose save was cut off.  When the
\* database cannot be read the list is empty, but still on the disk for the
\* next start.
RestartKeepsList ==
    [][package_manager_init =>
         \/ ghost.torn
         \/ pm'.installed \in {Readable(l) : l \in ghost.durable}
         \/ ghost'.unread /\ pm'.installed = <<>> /\ Stored(tree') = Stored(tree)]_packageVars
=============================================================================
