------------------------------ MODULE Process ------------------------------
(***************************************************************************)
(* Running applications: the loader of RootOS (source/app/elf_loader.c)    *)
(* and the process table (source/process/process.c).  An application is    *)
(* loaded into two blocks of the heap, entered in the table, called, and   *)
(* its blocks given back.  Applications run to their end one at a time;    *)
(* entries of ended ones stay as a history until their slot is needed.     *)
(*                                                                         *)
(* A step of the loader is one stretch between two heap or table calls.    *)
(* What an ELF file holds decides only which stretch is the last.          *)
(***************************************************************************)
EXTENDS Integers, Sequences, FiniteSets

CONSTANTS
    ROOT_PROCESS_MAX,   \* slots of the table
    PID_MAX,            \* the largest pid, (u32)-1
    ExitCode            \* what applications return

ASSUME ProcessAssumption ==
    /\ ROOT_PROCESS_MAX \in Nat \ {0}
    /\ PID_MAX \in Nat /\ PID_MAX >= ROOT_PROCESS_MAX
    /\ 0 \in ExitCode

VARIABLES
    process_table,      \* slot -> [used, pid, state, exit_code]
    next_pid,
    replacement_cursor,
    stage,              \* "idle", or how far elf_loader_run got
    pid,                \* its process, 0 before process_begin
    blocks,             \* ghost: the heap blocks of the loader, with their count
    latest              \* ghost: the pids given out last, oldest first

processVars == <<process_table, next_pid, replacement_cursor, stage, pid, blocks, latest>>
tableVars == <<process_table, next_pid, replacement_cursor, latest>>

Slots == 0 .. ROOT_PROCESS_MAX - 1
States == {"unused", "ready", "running", "exited", "failed"}
Entry == [used : BOOLEAN, pid : 0 .. PID_MAX, state : States, exit_code : ExitCode]
NoEntry == [used |-> FALSE, pid |-> 0, state |-> "unused", exit_code |-> 0]

-----------------------------------------------------------------------------
(* The process table.                                                      *)

\* The slots process_find could return; it returns the lowest.
process_find(p) == {i \in Slots : process_table[i].used /\ process_table[i].pid = p}

Lowest(S) == CHOOSE i \in S : \A j \in S : i <= j

\* Slots the second loop of process_choose_slot visits, by their distance from
\* the cursor.
Reusable ==
    {k \in Slots : process_table[(replacement_cursor + k) % ROOT_PROCESS_MAX].state
                     \in {"exited", "failed"}}
Unused == {i \in Slots : ~process_table[i].used}
Live == {i \in Slots : process_table[i].state \notin {"unused", "exited", "failed"}}

\* Mutant: the search for a slot to reuse always starts at slot 0.
ChooseFromStart ==
    IF Unused # {} THEN [slot |-> Lowest(Unused), cursor |-> replacement_cursor]
    ELSE IF Reusable = {} THEN [slot |-> ROOT_PROCESS_MAX, cursor |-> replacement_cursor]
    ELSE [slot |-> Lowest(Reusable), cursor |-> 0]

process_choose_slot ==
    IF Unused # {} THEN [slot |-> Lowest(Unused), cursor |-> replacement_cursor]
    ELSE IF Reusable = {} THEN [slot |-> ROOT_PROCESS_MAX, cursor |-> replacement_cursor]
    ELSE LET index == (replacement_cursor + Lowest(Reusable)) % ROOT_PROCESS_MAX
         IN  [slot |-> index, cursor |-> (index + 1) % ROOT_PROCESS_MAX]

process_manager_init ==
    /\ process_table = [i \in Slots |-> NoEntry]
    /\ next_pid = 1
    /\ replacement_cursor = 0

\* next_pid++ on an unsigned counter, 0 being skipped.
PidAfter(p) == IF p = PID_MAX THEN 1 ELSE p + 1

\* A new entry in a slot chosen as c.
process_begin(c) ==
    /\ process_table' = [process_table EXCEPT ![c.slot] =
         [used |-> TRUE, pid |-> next_pid, state |-> "ready", exit_code |-> 0]]
    /\ replacement_cursor' = c.cursor
    /\ next_pid' = PidAfter(next_pid)
    /\ latest' = SubSeq(Append(latest, next_pid),
                        IF Len(latest) = ROOT_PROCESS_MAX THEN 2 ELSE 1,
                        Len(latest) + 1)

\* process_mark_running, process_mark_exit.
Mark(p, state, code) ==
    process_table' =
      IF process_find(p) = {} THEN process_table
      ELSE [process_table EXCEPT ![Lowest(process_find(p))].state = state,
                                 ![Lowest(process_find(p))].exit_code = code]

-----------------------------------------------------------------------------
(* elf_loader_run.                                                         *)

ProcessInit ==
    /\ process_manager_init
    /\ stage = "idle" /\ pid = 0
    /\ blocks = [b \in {"file", "image"} |-> 0]
    /\ latest = <<>>

malloc(b) == blocks' = [blocks EXCEPT ![b] = @ + 1]
free(S) == blocks' = [b \in DOMAIN blocks |-> IF b \in S THEN blocks[b] - 1 ELSE blocks[b]]

\* The file exists, has a plausible size, and memory for it is there.
elf_loader_run ==
    /\ stage = "idle"
    /\ malloc("file")
    /\ stage' = "read"
    /\ UNCHANGED <<tableVars, pid>>

Leave == stage' = "idle" /\ pid' = 0

\* An error return that gives back the blocks S.
Reject(S) == free(S) /\ Leave /\ UNCHANGED tableVars

Advance(from, to) == stage = from /\ stage' = to /\ UNCHANGED <<tableVars, pid, blocks>>

\* The file cannot be read whole, or its header is not acceptable.
FileRejected == stage = "read" /\ Reject({"file"})
FileRead == Advance("read", "layout")

\* A section is misaligned, too large or outside the file, or there is none.
LayoutRejected == stage = "layout" /\ Reject({"file"})

\* Memory for the image: the sections are copied into it, or there is none.
ImageLoaded ==
    /\ stage = "layout"
    /\ malloc("image")
    /\ stage' = "symbols"
    /\ UNCHANGED <<tableVars, pid>>
ImageNoMemory == stage = "layout" /\ Reject({"file"})

\* The symbol table is missing or malformed.
SymbolsRejected == stage = "symbols" /\ Reject({"file", "image"})
SymbolsFound == Advance("symbols", "relocate")

\* Mutant: a bad relocation gives back the file only.
RelocationLeaks == stage = "relocate" /\ Reject({"file"})

\* A relocation section or entry is malformed or of an unknown type.
RelocationRejected == stage = "relocate" /\ Reject({"file", "image"})
Relocated == Advance("relocate", "entry")

\* No root_main.
EntryMissing == stage = "entry" /\ Reject({"file", "image"})

\* Without a slot the loader gives up.
ProcessBegins ==
    /\ stage = "entry"
    /\ IF process_choose_slot.slot = ROOT_PROCESS_MAX
         THEN Reject({"file", "image"})
         ELSE /\ process_begin(process_choose_slot)
              /\ pid' = next_pid
              /\ stage' = "begun"
              /\ UNCHANGED blocks

Enter ==
    /\ stage = "begun"
    /\ Mark(pid, "running", 0)
    /\ stage' = "run"
    /\ UNCHANGED <<next_pid, replacement_cursor, pid, blocks, latest>>

\* root_main returns.
Exit(code) ==
    /\ stage = "run"
    /\ Mark(pid, "exited", code)
    /\ free({"file", "image"})
    /\ Leave
    /\ UNCHANGED <<next_pid, replacement_cursor, latest>>

Load == FileRejected \/ FileRead \/ LayoutRejected \/ ImageLoaded \/ ImageNoMemory
Link == SymbolsRejected \/ SymbolsFound \/ RelocationRejected \/ Relocated \/ EntryMissing
Run == ProcessBegins \/ Enter \/ \E code \in ExitCode : Exit(code)

ProcessNext == elf_loader_run \/ Load \/ Link \/ Run

ProcessSpec == ProcessInit /\ [][ProcessNext]_processVars

-----------------------------------------------------------------------------
(* Correctness.                                                            *)

ProcessTypeOK ==
    /\ process_table \in [Slots -> Entry]
    /\ next_pid \in 1 .. PID_MAX
    /\ replacement_cursor \in Slots
    /\ pid \in 0 .. PID_MAX
    /\ stage \in {"idle", "read", "layout", "symbols", "relocate", "entry", "begun", "run"}

\* elf_loader_run gives each of its two blocks back once, whichever of its
\* returns it takes.
NothingLeaks ==
    \A b \in DOMAIN blocks :
      blocks[b] = IF stage = "idle" \/ (stage \in {"read", "layout"} /\ b = "image") THEN 0 ELSE 1

\* The table is the history of the last ROOT_PROCESS_MAX runs: no slot is taken
\* from a later run while an earlier one is still listed, and no two entries
\* share a pid, also after the pid counter wrapped around.  The application that
\* runs, and no other, is listed as not ended: marks set through its pid reach
\* its own entry.  A slot is always found, as the comment of
\* process_choose_slot says: it allows a full table only once processes are
\* concurrent.
KeepsLatest ==
    /\ ProcessTypeOK
    /\ stage = "entry" => process_choose_slot.slot < ROOT_PROCESS_MAX
    /\ {process_table[i].pid : i \in Live} = IF pid = 0 THEN {} ELSE {pid}
    /\ {process_table[i].pid : i \in Slots \ Unused} = {latest[k] : k \in DOMAIN latest}
    /\ Cardinality(Slots \ Unused) = Len(latest)
    /\ \A i, j \in Slots \ Unused : i # j => process_table[i].pid # process_table[j].pid
=============================================================================
