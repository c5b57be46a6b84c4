----------------------------- MODULE Filesystem -----------------------------
(***************************************************************************)
(* The filesystem of RootOS (source/fs/filesystem.c) over its disk format  *)
(* (source/fs/rootfs_disk.c): a table of nodes in memory, each mirrored in *)
(* the disk slot of the same number, or a table in RAM alone when there is *)
(* no usable volume.                                                       *)
(*                                                                         *)
(* A call runs in steps, one per node written, so that power can fail and  *)
(* a sector write can fail anywhere in the middle.  Nothing else runs      *)
(* meanwhile: the kernel is single threaded.  Paths are absolute, as       *)
(* root_path_resolve returns them: sequences of names, <<>> being "/";     *)
(* MaxDepth stands for ROOT_PATH_MAX.  A file's content is a sequence of   *)
(* sectors.  A record is written and read as one sector.                   *)
(***************************************************************************)
EXTENDS Integers, Sequences, FiniteSets

CONSTANTS
    FS_MAX_NODES,       \* slots of the table
    Names,
    MaxDepth,
    FS_MAX_FILE_SIZE,   \* sectors of the largest file
    initial_nodes,      \* sequence of <<path, type>>, "/" first
    HOME,               \* ROOTOS_DEFAULT_HOME
    Datas,              \* what callers write
    Volumes,            \* whether a ROOTFS42 volume may be present
    MaxFaults,          \* bound: sector reads and writes that fail
    MaxCrashes          \* bound: power failures and restarts

DIR == "directory"
FILE == "file"
Slots == 0 .. FS_MAX_NODES - 1
Path == UNION {[1 .. n -> Names] : n \in 0 .. MaxDepth}
Type == {DIR, FILE}
Sector == UNION {{d[k] : k \in DOMAIN d} : d \in Datas}
Content == UNION {[1 .. n -> Sector \cup {0}] : n \in 0 .. FS_MAX_FILE_SIZE}

ASSUME TableAssumption ==
    /\ FS_MAX_NODES \in Nat /\ FS_MAX_NODES >= Len(initial_nodes)
    /\ MaxDepth \in Nat /\ FS_MAX_FILE_SIZE \in Nat
    /\ initial_nodes \in Seq(Path \X Type) /\ initial_nodes # <<>>
    /\ initial_nodes[1] = <<<<>>, DIR>>
    /\ HOME \in Path
    /\ Datas \subseteq Seq(Sector)
\* The base tree is one: its paths differ, each lies in directories of its own,
\* and HOME is one of them.
ASSUME BaseTreeAssumption ==
    /\ \A j, k \in DOMAIN initial_nodes : initial_nodes[j][1] = initial_nodes[k][1] => j = k
    /\ \A k \in DOMAIN initial_nodes : \A m \in 0 .. Len(initial_nodes[k][1]) - 1 :
         \E j \in DOMAIN initial_nodes : initial_nodes[j] = <<SubSeq(initial_nodes[k][1], 1, m), DIR>>
    /\ \E j \in DOMAIN initial_nodes : initial_nodes[j] = <<HOME, DIR>>
ASSUME FsBoundsAssumption ==
    /\ MaxFaults \in Nat /\ MaxCrashes \in Nat
    /\ Volumes \subseteq BOOLEAN

VARIABLES
    nodes,              \* slot -> [used, type, path, size, ram]
    current_directory,
    filesystem_persistent_backend,
    filesystem_storage_error,
    disk,               \* slot -> [used, type, path, size]: the metadata record
    sectors,            \* slot -> its data sectors
    volume,             \* a valid volume is present (rootfs_disk_ready)
    pc,                 \* "off", "tree", "idle", or the part of a call reached
    op,                 \* the call in progress: [name, src, dst]
    at,                 \* its loop counter over slots (over initial_nodes)
    buf, slot, sec,     \* a file write: content, slot, sector loop counter
    faults, crashes,    \* how many happened
    snap                \* ghost: the tree when the call began

cacheVars == <<nodes, current_directory, filesystem_persistent_backend,
               filesystem_storage_error>>
diskVars == <<disk, sectors>>
writeVars == <<buf, slot, sec>>
callVars == <<pc, op, at, snap>>
vars == <<cacheVars, diskVars, writeVars, callVars, volume, faults, crashes>>

FreeNode == [used |-> FALSE, type |-> DIR, path |-> <<>>, size |-> 0, ram |-> <<>>]
Node(p, t) == [used |-> TRUE, type |-> t, path |-> p, size |-> 0, ram |-> <<>>]
ClearRecord == [used |-> FALSE, type |-> DIR, path |-> <<>>, size |-> 0]
NoOp == [name |-> "none", src |-> <<>>, dst |-> <<>>]

-----------------------------------------------------------------------------
(* Lookups.                                                                *)

NONE == -1
Least(S) == IF S = {} THEN NONE ELSE CHOOSE i \in S : \A j \in S : i <= j

find_node(p) == Least({i \in Slots : nodes[i].used /\ nodes[i].path = p})
find_free_node == Least({i \in Slots : ~nodes[i].used})
count_free_nodes == Cardinality({i \in Slots : ~nodes[i].used})
Exists(p) == find_node(p) # NONE
IsDirectory(p) == Exists(p) /\ nodes[find_node(p)].type = DIR
IsFile(p) == Exists(p) /\ nodes[find_node(p)].type = FILE

path_is_inside(base, candidate) ==
    Len(base) <= Len(candidate) /\ SubSeq(candidate, 1, Len(base)) = base
get_parent_path(p) == SubSeq(p, 1, Len(p) - 1)
\* Mutant: every node of the subtree gets the destination itself.
RetargetNoSuffix(s, d, p) == d

\* destination_path followed by the part of p behind source_path.
Retarget(s, d, p) == d \o SubSeq(p, Len(s) + 1, Len(p))

\* root_strlcpy into a path buffer: what does not fit is cut off.
Fitted(p) == SubSeq(p, 1, IF Len(p) < MaxDepth THEN Len(p) ELSE MaxDepth)

\* Mutant: the loop forgets to ask whether the node is in the subtree.
AnyUsed(s, k) == {i \in Slots : i >= k /\ nodes[i].used}

\* The slots from k on that hold a node of the subtree of s.
Inside(s, k) ==
    {i \in Slots : i >= k /\ nodes[i].used /\ path_is_inside(s, nodes[i].path)}

-----------------------------------------------------------------------------
(* The disk.  rootfs_disk_write_node writes two sectors, the first carries *)
(* the record: a failing write leaves it undone or done.                   *)

RecordWrites(i, r) ==
    IF ~filesystem_persistent_backend
      THEN {[ok |-> TRUE, disk |-> disk]}
      ELSE {[ok |-> TRUE, disk |-> [disk EXCEPT ![i] = r]]}
           \cup IF faults = MaxFaults THEN {}
                ELSE {[ok |-> FALSE, disk |-> disk],
                      [ok |-> FALSE, disk |-> [disk EXCEPT ![i] = r]]}

RecordOf(n) == [used |-> TRUE, type |-> n.type, path |-> n.path, size |-> n.size]

persist_node(i, n) == RecordWrites(i, RecordOf(n))
clear_persisted_node(i) == RecordWrites(i, ClearRecord)

\* A record write ended in w.
Wrote(w) ==
    /\ disk' = w.disk
    /\ filesystem_storage_error' = (filesystem_storage_error \/ ~w.ok)
    /\ faults' = IF w.ok THEN faults ELSE faults + 1

\* The content of the file in slot i as the backend reads it.
Stored(i) ==
    IF filesystem_persistent_backend
      THEN SubSeq(sectors[i], 1, disk[i].size)
      ELSE nodes[i].ram

\* backend_read_file refuses a record that is not a file's.
Readable(i) ==
    filesystem_persistent_backend => disk[i].used /\ disk[i].type = FILE

\* The tree callers see.
Tree ==
    [p \in {nodes[i].path : i \in {j \in Slots : nodes[j].used}} |->
       [type |-> nodes[find_node(p)].type,
        data |-> IF IsFile(p) THEN Stored(find_node(p)) ELSE <<>>]]

-----------------------------------------------------------------------------
(* Calls begin when nothing else runs.  A refusal that changes nothing is  *)
(* no step, and result codes are not kept: what they report is the state.  *)

Begin(name, s, d) ==
    /\ pc = "idle"
    /\ op' = [name |-> name, src |-> s, dst |-> d]
    /\ snap' = Tree

Finish ==
    /\ pc' = "idle" /\ op' = NoOp /\ at' = 0
    /\ buf' = <<>> /\ slot' = NONE /\ sec' = 0
    /\ snap' = <<>>

Go(label, k) == pc' = label /\ at' = k /\ UNCHANGED <<op, snap>>

\* add_node_absolute past its two refusals, its write ending in w.
AddNode(p, t, w) ==
    /\ Wrote(w)
    /\ nodes' = [nodes EXCEPT ![find_free_node] = IF w.ok THEN Node(p, t) ELSE FreeNode]
    /\ UNCHANGED <<sectors, current_directory, filesystem_persistent_backend, volume,
                   crashes>>

AddOutcomes(p, t) == persist_node(find_free_node, Node(p, t))

Kept == UNCHANGED <<cacheVars, diskVars, volume, faults, crashes>>

-----------------------------------------------------------------------------
(* Start-up.                                                               *)

Blank == [k \in 1 .. FS_MAX_FILE_SIZE |-> 0]

Init ==
    /\ nodes = [i \in Slots |-> FreeNode]
    /\ current_directory = <<>>
    /\ filesystem_persistent_backend = FALSE
    /\ filesystem_storage_error = FALSE
    /\ disk = [i \in Slots |-> ClearRecord]
    /\ sectors = [i \in Slots |-> Blank]
    /\ volume \in Volumes
    /\ pc = "off" /\ op = NoOp /\ at = 0
    /\ buf = <<>> /\ slot = NONE /\ sec = 0
    /\ faults = 0 /\ crashes = 0
    /\ snap = <<>>

\* The table load_persistent_nodes fills from the disk.
Loaded ==
    [i \in Slots |->
       IF disk[i].used
         THEN [Node(disk[i].path, disk[i].type) EXCEPT !.size = disk[i].size]
         ELSE FreeNode]

\* The type of the first node found for "/".
LoadedRoot ==
    LET i == Least({j \in Slots : Loaded[j].used /\ Loaded[j].path = <<>>})
    IN  IF i = NONE THEN "none" ELSE Loaded[i].type

\* reset_all_nodes and create_initial_tree without a disk.
RamTree ==
    [i \in Slots |-> IF i < Len(initial_nodes)
                       THEN Node(initial_nodes[i + 1][1], initial_nodes[i + 1][2])
                       ELSE FreeNode]

\* The end of filesystem_init with table n.
EnterHome(n) ==
    /\ current_directory' =
         IF \E i \in Slots : n[i].used /\ n[i].path = HOME THEN HOME ELSE <<>>
    /\ Finish

UseRam(error) ==
    /\ filesystem_persistent_backend' = FALSE
    /\ filesystem_storage_error' = error
    /\ nodes' = RamTree
    /\ EnterHome(RamTree)
    /\ UNCHANGED diskVars

\* filesystem_init up to the point where it may write: the records are read;
\* a failing read, or records without a directory "/", end in RAM.
filesystem_init ==
    /\ pc = "off"
    /\ UNCHANGED <<volume, crashes>>
    /\ \/ ~volume /\ UseRam(FALSE) /\ UNCHANGED faults
       \/ volume /\ faults < MaxFaults /\ UseRam(TRUE) /\ faults' = faults + 1
       \/ /\ volume
          /\ UNCHANGED faults
          /\ IF (\A i \in Slots : ~disk[i].used) \/ LoadedRoot = DIR
               THEN /\ nodes' = Loaded
                    /\ filesystem_persistent_backend' = TRUE
                    /\ filesystem_storage_error' = FALSE
                    /\ Go("tree", 1)
                    /\ UNCHANGED <<current_directory, diskVars, writeVars>>
               ELSE UseRam(TRUE)

\* An iteration of create_initial_tree for a persistent table.
InitialNode(k) == initial_nodes[k][1]
InitialType(k) == initial_nodes[k][2]

TreeSkip ==
    /\ pc = "tree" /\ at <= Len(initial_nodes)
    /\ Exists(InitialNode(at))
    /\ Go("tree", at + 1)
    /\ Kept /\ UNCHANGED writeVars

TreeAdd ==
    /\ pc = "tree" /\ at <= Len(initial_nodes)
    /\ ~Exists(InitialNode(at)) /\ find_free_node # NONE
    /\ \E w \in AddOutcomes(InitialNode(at), InitialType(at)) :
         IF w.ok
           THEN /\ AddNode(InitialNode(at), InitialType(at), w)
                /\ Go("tree", at + 1)
                /\ UNCHANGED writeVars
           ELSE /\ disk' = w.disk /\ faults' = faults + 1
                /\ filesystem_persistent_backend' = FALSE
                /\ filesystem_storage_error' = TRUE
                /\ nodes' = RamTree
                /\ EnterHome(RamTree)
                /\ UNCHANGED <<sectors, volume, crashes>>

\* No slot for a missing base node: the mount is given up for a RAM tree.
TreeFull ==
    /\ pc = "tree" /\ at <= Len(initial_nodes)
    /\ ~Exists(InitialNode(at)) /\ find_free_node = NONE
    /\ UseRam(TRUE)
    /\ UNCHANGED <<volume, faults, crashes>>

TreeDone ==
    /\ pc = "tree" /\ at > Len(initial_nodes)
    /\ EnterHome(nodes)
    /\ UNCHANGED <<nodes, filesystem_persistent_backend, filesystem_storage_error,
                   diskVars, volume, faults, crashes>>

\* Power is lost: what is in memory is gone.
Crash ==
    /\ pc # "off" /\ crashes < MaxCrashes
    /\ crashes' = crashes + 1
    /\ nodes' = [i \in Slots |-> FreeNode]
    /\ current_directory' = <<>>
    /\ filesystem_persistent_backend' = FALSE
    /\ filesystem_storage_error' = FALSE
    /\ pc' = "off" /\ op' = NoOp /\ at' = 0
    /\ buf' = <<>> /\ slot' = NONE /\ sec' = 0
    /\ snap' = <<>>
    /\ UNCHANGED <<diskVars, volume, faults>>

-----------------------------------------------------------------------------
(* filesystem_change_directory.                                            *)

filesystem_change_directory(p) ==
    /\ pc = "idle"
    /\ IsDirectory(p)
    /\ current_directory' = p
    /\ UNCHANGED <<nodes, filesystem_persistent_backend, filesystem_storage_error,
                   diskVars, writeVars, pc, op, at, snap, volume, faults, crashes>>

-----------------------------------------------------------------------------
(* ensure_directory_absolute: directories are made from the top down until *)
(* the whole path exists.                                                  *)

\* What has to exist before the call can go on.
EnsureTarget == IF op.name = "mkdir" THEN op.dst ELSE get_parent_path(op.dst)

\* The first prefix of p that is not a directory.
FirstGap(p) == Least({k \in 1 .. Len(p) : ~IsDirectory(SubSeq(p, 1, k))})
GapPath == SubSeq(EnsureTarget, 1, FirstGap(EnsureTarget))

EnsureMake ==
    /\ pc = "ensure" /\ FirstGap(EnsureTarget) # NONE
    /\ ~Exists(GapPath) /\ find_free_node # NONE
    /\ \E w \in AddOutcomes(GapPath, DIR) :
         /\ AddNode(GapPath, DIR, w)
         /\ IF w.ok THEN UNCHANGED <<callVars, writeVars>> ELSE Finish

EnsureRefused ==
    /\ pc = "ensure" /\ FirstGap(EnsureTarget) # NONE
    /\ Exists(GapPath) \/ find_free_node = NONE
    /\ Finish
    /\ Kept

\* The path exists: on to the rest of the call.
Ensured == pc = "ensure" /\ FirstGap(EnsureTarget) = NONE

filesystem_create_directory(p) ==
    /\ Begin("mkdir", <<>>, p)
    /\ ~Exists(p)
    /\ pc' = "ensure" /\ at' = 0
    /\ Kept /\ UNCHANGED writeVars

DirectoryMade ==
    /\ Ensured /\ op.name = "mkdir"
    /\ Finish
    /\ Kept

filesystem_create_file(p) ==
    /\ Begin("touch", <<>>, p)
    /\ p # <<>> /\ ~Exists(p)
    /\ pc' = "ensure" /\ at' = 0
    /\ Kept /\ UNCHANGED writeVars

FileMade ==
    /\ Ensured /\ op.name = "touch"
    /\ \/ find_free_node = NONE /\ Finish /\ Kept
       \/ /\ find_free_node # NONE
          /\ \E w \in AddOutcomes(op.dst, FILE) :
               AddNode(op.dst, FILE, w) /\ Finish

-----------------------------------------------------------------------------
(* filesystem_remove.                                                      *)

filesystem_remove(p, recursive) ==
    /\ Begin(IF IsFile(p) THEN "unlink" ELSE "remove", p, <<>>)
    /\ p # <<>> /\ Exists(p)
    /\ ~path_is_inside(p, current_directory)
    /\ IsDirectory(p) /\ ~recursive => Inside(p, 0) = {find_node(p)}
    /\ pc' = "remove" /\ at' = IF IsFile(p) THEN find_node(p) ELSE 0
    /\ Kept /\ UNCHANGED writeVars

\* Mutant: the record stays on disk.
RemoveInMemory ==
    /\ pc = "remove" /\ Inside(op.src, at) # {}
    /\ nodes' = [nodes EXCEPT ![Least(Inside(op.src, at))] = FreeNode]
    /\ Go("remove", Least(Inside(op.src, at)) + 1)
    /\ UNCHANGED <<diskVars, writeVars, current_directory, filesystem_storage_error,
                   filesystem_persistent_backend, volume, faults, crashes>>

\* One node of the subtree; for a file the only one.
RemoveNode ==
    /\ pc = "remove" /\ Inside(op.src, at) # {}
    /\ LET i == Least(Inside(op.src, at))
           last == op.name = "unlink"
       IN  \E w \in clear_persisted_node(i) :
             /\ Wrote(w)
             /\ nodes' = IF w.ok THEN [nodes EXCEPT ![i] = FreeNode] ELSE nodes
             /\ IF w.ok /\ ~last THEN Go("remove", i + 1) /\ UNCHANGED writeVars
                ELSE Finish
    /\ UNCHANGED <<sectors, current_directory, filesystem_persistent_backend, volume,
                   crashes>>

RemoveDone ==
    /\ pc = "remove" /\ Inside(op.src, at) = {}
    /\ Finish
    /\ Kept

-----------------------------------------------------------------------------
(* filesystem_copy and filesystem_move: the same checks, then a loop over  *)
(* the slots of the subtree.                                               *)

Transfer(name, s, d) ==
    /\ Begin(name, s, d)
    /\ Exists(s) /\ ~Exists(d)
    /\ IsDirectory(s) => ~path_is_inside(s, d)
    /\ d # <<>>
    /\ pc' = "ensure" /\ at' = 0
    /\ Kept /\ UNCHANGED writeVars

filesystem_copy(s, d) == Transfer("copy", s, d)
filesystem_move(s, d) == s # <<>> /\ Transfer("move", s, d)

\* Mutant: room in the table is not checked before the loop.
NeverNoRoom == FALSE

TooLong == \E i \in Inside(op.src, 0) :
             Len(Retarget(op.src, op.dst, nodes[i].path)) > MaxDepth
NoRoom == op.name = "copy" /\ count_free_nodes < Cardinality(Inside(op.src, 0))

TransferChecked ==
    /\ Ensured /\ op.name \in {"copy", "move"}
    /\ Kept
    /\ \/ NoRoom /\ Finish
       \/ ~NoRoom /\ TooLong /\ Finish
       \/ ~NoRoom /\ ~TooLong /\ Go(op.name, 0) /\ UNCHANGED writeVars

\* A node of the subtree is copied: its content is read, its copy added, and
\* for a file the content is then written (WriteSector onwards).
CopyNode ==
    /\ pc = "copy" /\ Inside(op.src, at) # {}
    /\ LET i == Least(Inside(op.src, at))
           target == Retarget(op.src, op.dst, nodes[i].path)
           file == nodes[i].type = FILE
           reads == file /\ nodes[i].size > 0
       IN  \/ /\ reads /\ (~Readable(i) \/ Len(Stored(i)) # nodes[i].size)
              /\ Finish
              /\ filesystem_storage_error' = (filesystem_storage_error \/ ~Readable(i))
              /\ UNCHANGED <<nodes, current_directory, filesystem_persistent_backend,
                             diskVars, volume, faults, crashes>>
           \/ /\ reads /\ filesystem_persistent_backend /\ faults < MaxFaults
              /\ Finish
              /\ filesystem_storage_error' = TRUE /\ faults' = faults + 1
              /\ UNCHANGED <<nodes, current_directory, filesystem_persistent_backend,
                             diskVars, volume, crashes>>
           \/ /\ ~(reads /\ (~Readable(i) \/ Len(Stored(i)) # nodes[i].size))
              /\ IF Exists(target) \/ find_free_node = NONE
                   THEN Finish /\ Kept
                   ELSE \E w \in AddOutcomes(target, nodes[i].type) :
                          /\ AddNode(target, nodes[i].type, w)
                          /\ \/ ~w.ok /\ Finish
                             \/ /\ w.ok /\ ~file
                                /\ Go("copy", i + 1) /\ UNCHANGED writeVars
                             \/ /\ w.ok /\ file
                                /\ Go("data", i + 1)
                                /\ buf' = IF reads THEN Stored(i) ELSE <<>>
                                /\ slot' = find_free_node /\ sec' = 1

CopyDone ==
    /\ pc = "copy" /\ Inside(op.src, at) = {}
    /\ Finish
    /\ Kept

\* A node of the subtree gets its new path, in memory and then on disk; when
\* the write fails the old path comes back in memory and the call ends.
MoveNode ==
    /\ pc = "move" /\ Inside(op.src, at) # {}
    /\ LET i == Least(Inside(op.src, at))
           n == [nodes[i] EXCEPT !.path = Retarget(op.src, op.dst, @)]
       IN  \E w \in persist_node(i, n) :
             /\ Wrote(w)
             /\ nodes' = IF w.ok THEN [nodes EXCEPT ![i] = n] ELSE nodes
             /\ IF w.ok THEN Go("move", i + 1) /\ UNCHANGED writeVars
                ELSE Finish
    /\ UNCHANGED <<sectors, current_directory, filesystem_persistent_backend, volume,
                   crashes>>

MoveDone ==
    /\ pc = "move" /\ Inside(op.src, at) = {}
    /\ current_directory' =
         IF path_is_inside(op.src, current_directory)
           THEN Fitted(Retarget(op.src, op.dst, current_directory))
           ELSE current_directory
    /\ Finish
    /\ UNCHANGED <<nodes, filesystem_persistent_backend, filesystem_storage_error,
                   diskVars, volume, faults, crashes>>

-----------------------------------------------------------------------------
(* File contents.                                                          *)

\* backend_write_file begins: content c goes to slot i.
StartWrite(i, c) ==
    /\ pc' = "data" /\ at' = 0
    /\ buf' = c /\ slot' = i /\ sec' = 1

filesystem_write_file(p, c) ==
    /\ Begin("write", p, <<>>)
    /\ IsFile(p)
    /\ Len(c) <= FS_MAX_FILE_SIZE
    /\ StartWrite(find_node(p), c)
    /\ Kept

\* The bound is checked with the cached size, the content read from the disk.
filesystem_append_file(p, c) ==
    /\ Begin("append", p, <<>>)
    /\ IsFile(p)
    /\ nodes[find_node(p)].size + Len(c) <= FS_MAX_FILE_SIZE
    /\ Readable(find_node(p))
    /\ StartWrite(find_node(p), Stored(find_node(p)) \o c)
    /\ Kept

\* A read that fails: filesystem_read_file, or the read of an append.
ReadFails(p) ==
    /\ pc = "idle"
    /\ IsFile(p) /\ filesystem_persistent_backend
    /\ \/ faults < MaxFaults /\ faults' = faults + 1
       \/ /\ ~Readable(find_node(p)) \/ disk[find_node(p)].size > nodes[find_node(p)].size
          /\ UNCHANGED faults
    /\ filesystem_storage_error' = TRUE
    /\ UNCHANGED <<nodes, current_directory, filesystem_persistent_backend, diskVars,
                   writeVars, pc, op, at, snap, volume, crashes>>

\* The end of backend_write_file: back to the caller.
WriteReturns(ok) ==
    IF ok /\ op.name = "copy" THEN Go("copy", at) /\ buf' = <<>> /\ slot' = NONE /\ sec' = 0
    ELSE Finish

\* The RAM backend: the whole content at once, or no memory for it.
RamWrite ==
    /\ pc = "data" /\ ~filesystem_persistent_backend
    /\ \/ /\ nodes' = [nodes EXCEPT ![slot].ram = buf, ![slot].size = Len(buf)]
          /\ WriteReturns(TRUE)
       \/ buf # <<>> /\ UNCHANGED nodes /\ WriteReturns(FALSE)
    /\ UNCHANGED <<current_directory, filesystem_persistent_backend,
                   filesystem_storage_error, diskVars, volume, faults, crashes>>

DiskWriteFails ==
    /\ filesystem_storage_error' = TRUE
    /\ WriteReturns(FALSE)

\* rootfs_disk_write_file refuses what is no file's record or too large.
WriteRefused ==
    /\ pc = "data" /\ filesystem_persistent_backend /\ sec = 1
    /\ Len(buf) > FS_MAX_FILE_SIZE \/ ~Readable(slot)
    /\ DiskWriteFails
    /\ UNCHANGED <<nodes, current_directory, filesystem_persistent_backend, diskVars,
                   volume, faults, crashes>>

WriteAllowed ==
    /\ pc = "data" /\ filesystem_persistent_backend
    /\ Len(buf) <= FS_MAX_FILE_SIZE /\ Readable(slot)

\* Mutant: the new size is written with the first sector.
WriteSizeFirst ==
    /\ WriteAllowed /\ sec <= Len(buf)
    /\ sectors' = [sectors EXCEPT ![slot][sec] = buf[sec]]
    /\ disk' = [disk EXCEPT ![slot].size = Len(buf)]
    /\ sec' = sec + 1
    /\ UNCHANGED <<cacheVars, callVars, buf, slot, faults, volume, crashes>>

\* One data sector.
WriteSector ==
    /\ WriteAllowed /\ sec <= Len(buf)
    /\ \/ /\ sectors' = [sectors EXCEPT ![slot][sec] = buf[sec]]
          /\ sec' = sec + 1
          /\ UNCHANGED <<filesystem_storage_error, callVars, buf, slot, faults>>
       \/ /\ faults < MaxFaults /\ faults' = faults + 1
          /\ sectors' \in {sectors, [sectors EXCEPT ![slot][sec] = buf[sec]]}
          /\ DiskWriteFails
    /\ UNCHANGED <<nodes, current_directory, filesystem_persistent_backend, disk,
                   volume, crashes>>

\* The record with the new size; the cached size follows when it worked.
WriteSize ==
    /\ WriteAllowed /\ sec > Len(buf)
    /\ \E w \in RecordWrites(slot, [disk[slot] EXCEPT !.size = Len(buf)]) :
         /\ Wrote(w)
         /\ nodes' = IF w.ok THEN [nodes EXCEPT ![slot].size = Len(buf)] ELSE nodes
         /\ WriteReturns(w.ok)
    /\ UNCHANGED <<sectors, current_directory, filesystem_persistent_backend, volume,
                   crashes>>

(* The specification.                                                      *)

Mount == filesystem_init \/ TreeSkip \/ TreeAdd \/ TreeFull \/ TreeDone
Ensure == EnsureMake \/ EnsureRefused
Create == DirectoryMade \/ FileMade
Remove == RemoveNode \/ RemoveDone
Copy == TransferChecked \/ CopyNode \/ CopyDone
Move == MoveNode \/ MoveDone
WriteFile == RamWrite \/ WriteRefused \/ WriteSector \/ WriteSize

Call ==
    \/ \E p \in Path : \/ filesystem_change_directory(p)
                       \/ filesystem_create_directory(p)
                       \/ filesystem_create_file(p)
                       \/ \E r \in BOOLEAN : filesystem_remove(p, r)
                       \/ ReadFails(p)
    \/ \E s, d \in Path : filesystem_copy(s, d) \/ filesystem_move(s, d)
    \/ \E p \in Path, c \in Datas : \/ filesystem_write_file(p, c)
                                    \/ filesystem_append_file(p, c)

\* A step of the call in progress.
Step == Ensure \/ Create \/ Remove \/ Copy \/ Move \/ WriteFile

Next == Mount \/ Call \/ Step \/ Crash

Spec == Init /\ [][Next]_vars

(* Correctness.                                                            *)

TypeOK ==
    /\ nodes \in [Slots -> [used : BOOLEAN, type : Type, path : Path,
                            size : 0 .. FS_MAX_FILE_SIZE, ram : Content]]
    /\ current_directory \in Path
    /\ filesystem_persistent_backend \in BOOLEAN
    /\ filesystem_storage_error \in BOOLEAN
    /\ disk \in [Slots -> [used : BOOLEAN, type : Type, path : Path,
                           size : 0 .. FS_MAX_FILE_SIZE]]
    /\ sectors \in [Slots -> [1 .. FS_MAX_FILE_SIZE -> Sector \cup {0}]]
    /\ pc \in {"off", "tree", "idle", "ensure", "remove", "copy", "move", "data"}
    /\ slot \in Slots \cup {NONE}

\* What the disk holds under each path, whatever the table in memory says.
OnDisk(d, x, p) == {[type |-> d[i].type, data |-> SubSeq(x[i], 1, d[i].size)] :
                      i \in {j \in Slots : d[j].used /\ d[j].path = p}}

\* Between calls the table in memory is what a restart would load, unless an
\* error was reported: a call that returned without error is durable.  Without
\* a disk fault the only reason to give up a volume is that it has no slot for
\* a missing base node; a crash during the first format is harmless.
MirrorsDisk ==
    /\ TypeOK
    /\ pc = "idle" /\ filesystem_persistent_backend /\ ~filesystem_storage_error
         => nodes = Loaded
    /\ pc = "idle" /\ volume /\ faults = 0 /\ ~filesystem_persistent_backend
         => /\ \A i \in Slots : disk[i].used
            /\ \E k \in DOMAIN initial_nodes : OnDisk(disk, sectors, InitialNode(k)) = {}

\* The call in progress is about path p: the subtree it removes or moves, the
\* file it writes, the place it creates, copies or moves to.
Concerns(p) ==
    \/ op.name \in {"remove", "unlink", "move"} /\ path_is_inside(op.src, p)
    \/ op.name \in {"write", "append"} /\ op.src = p
    \/ op.name \in {"mkdir", "touch", "copy", "move"} /\ path_is_inside(op.dst, p)

\* No step, a crash or a failing write included, touches on disk a node that
\* the call in progress is not about: neither its record nor its content.  Once
\* a volume is given up for RAM nothing is written to it at all any more.
BystandersKept ==
    [][\A i \in Slots :
         ~filesystem_persistent_backend \/ (nodes[i].used /\ ~Concerns(nodes[i].path))
           => disk'[i] = disk[i] /\ sectors'[i] = sectors[i]]_vars

\* A move of nodes that were on disk loses none of them, wherever a crash or
\* an error cuts it short: after each of its steps every node of the subtree
\* is on disk, whole, under its old or its new path.
MoveLosesNothing ==
    [][pc = "move" /\ filesystem_persistent_backend /\ ~filesystem_storage_error =>
         \A p \in DOMAIN snap :
           path_is_inside(op.src, p) =>
             snap[p] \in OnDisk(disk', sectors', p)
                         \cup OnDisk(disk', sectors',
                                        op.dst \o SubSeq(p, Len(op.src) + 1, Len(p)))]_vars

\* A file write cut short leaves a mixture of that file's old and new content:
\* no sector that was never part of the file shows up, stale sectors of a
\* removed file in the same slot included.  As long as no write has failed, an
\* append never copies beyond fs_io_buffer: the cached size it checks is not
\* smaller than the size on disk.
TornWriteMixes ==
    [][op.name \in {"write", "append"} /\ filesystem_persistent_backend =>
         /\ pc = "data" /\ faults = 0 => Len(buf) <= FS_MAX_FILE_SIZE
         /\ \A k \in 1 .. disk'[find_node(op.src)].size :
              \/ /\ k \in DOMAIN snap[op.src].data
                 /\ sectors'[find_node(op.src)][k] = snap[op.src].data[k]
              \/ k \in DOMAIN buf /\ sectors'[find_node(op.src)][k] = buf[k]]_vars

\* The calls implement the indivisible ones of FsTree: what a caller sees is
\* the tree before the call until the call returns.
InitialTree ==
    [p \in {InitialNode(k) : k \in DOMAIN initial_nodes} |->
       [type |-> (CHOOSE n \in {initial_nodes[k] : k \in DOMAIN initial_nodes} :
                     n[1] = p)[2],
        data |-> <<>>]]
Seen == IF pc \in {"off", "tree"} THEN InitialTree
        ELSE IF pc = "idle" THEN Tree ELSE snap
SeenCwd == IF pc \in {"off", "tree"} THEN HOME ELSE current_directory
Abstract == INSTANCE FsTree WITH Name <- Names, InitTree <- InitialTree,
                                 tree <- Seen, cwd <- SeenCwd
ImplementsTree == Abstract!Spec
=============================================================================
