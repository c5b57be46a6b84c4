# A TLA+ verification project for RootOS

RootOS is a small 32-bit x86 operating system written in C: a kernel heap, a
filesystem kept on a disk partition, a network stack, USB and PCI drivers, an
application loader with packages, a terminal, an editor and a shell. There is one
thread of control. The one interrupt handler that keeps state counts timer ticks;
everything else is a call that runs to its end, except that waiting loops
poll the network, the USB controller and the keyboard, so handlers re-enter.

The project models its parts in TLA+, checks them with TLC on small instances and
proves the most important results with TLAPS for every value of the constants.

## 1. Inventory

| Part | State | Operations | What is hard | What makes it correct |
|---|---|---|---|---|
| heap (`kernel/heap.c`) | block list in one arena | init, malloc, calloc, realloc, free | long sequences of splits and merges, stale pointers, wrap-around | blocks tile the arena, no byte has two owners, no block that fits is passed over |
| filesystem (`fs/filesystem.c`) | table of nodes, current directory, backend flags | init, cd, mkdir, touch, remove, copy, move, read, write, append | several node writes per call: power failure and bad sectors in between; a full table | a tree with the current directory in it; memory mirrors the disk; what a call is not about is untouched |
| disk format (`fs/rootfs_disk.c`), volume (`storage/rootstorage.c`) | one record and a data area per slot, a header | read and write a record, a file, the header check | torn records and files | only old or new content after a crash |
| block devices (`storage/block_device.c`), ATA (`drivers/storage/ata_pio.c`) | device table | register, read, write, remove a bus | devices that vanish, status polling | a call reaches the device it names |
| processes (`process/process.c`), loader (`app/elf_loader.c`), apps (`app/app_manager.c`, `app/rootapi.c`) | process table, pid counter, loaded image | run an application | table full, pid wrap-around, a release on each of many error paths | nothing leaks, the history keeps the latest runs |
| packages (`package/*.c`) | installed list, database file | load, install, remove, save | rollback when one of several files fails, restart in between | list, database and files agree |
| network (`network/*.c`) | ARP and DNS caches, DHCP state, UDP sockets, one TCP connection, interface | poll, resolve, send, receive, acquire, connect, close | waits that poll and so re-enter the receive path; lost, late and duplicated datagrams | a lease is what one acknowledgement grants, no stale answer is applied, waits end |
| network drivers (`drivers/net`, `drivers/network`, `drivers/usb/rndis.c`) | descriptor rings | send, poll | ring wrap-around, device removed | frames leave in order, none twice |
| USB core (`usb/usb.c`), xHCI (`drivers/usb/xhci.c`), mass storage (`drivers/usb/usb_mass_storage.c`) | device inventory, listeners, rings, slots | attach, remove, transfer, service | removal during I/O, cycle bits, timeouts | no driver keeps a device that is gone |
| PCI and device manager (`drivers/pci`, `device/device_manager.c`), driver store (`driver/*.c`) | device and driver tables | scan, rescan, bind, load | bindings across a rescan | a driver is bound to devices it matches |
| interrupts and timer (`arch/x86`, `drivers/timer/pit.c`, `kernel/time.c`) | 64-bit tick counter | tick, read, wait | the counter is read in two halves | a reading is a time that existed |
| input (`drivers/input`, `input/*.c`) | modifiers, packets, event queue | poll, decode, next event | queue full, sequences of several bytes, late answers | no modifier stuck, the latest position known |
| display, font (`display`, `font`) | shadow framebuffer, damage, pointer and the pixels under it | draw, update, move the pointer | a pointer that moves inside updates, address arithmetic at start-up | the screen shows what was drawn, the pointer leaves no trace |
| terminal (`terminal/terminal.c`) | cells, scrollback ring, view, selection | print, scroll, select, copy | pixels shifted instead of drawn, redraws deferred to the end of a batch | the screen shows the rows in view |
| editor (`editor/rootedit.c`) | text, caret, selection, undo rings, view | edit, select, undo, save | one-row redraws, keys while a mouse button is down | the screen shows the text, every edit can be undone, SAVED is true |
| shell (`shell/shell.c`), text and clipboard | command line, history | edit, recall, paste, commands | widths that change under a drawn line | the row shows the line |
| libraries (`lib/*.c`) | none | paths, strings, UTF-8, memory | boundaries | agree with a reference definition |

How the parts interact. The shell is the main program. Its loop polls the USB
controller, delivers attached devices to their drivers and retries broken network
sessions, then handles one input event. A command runs to its end before the loop
goes on. Commands call the filesystem, the package manager, the loader and the
network; those call the heap and the block devices. `net_poll` is called by every
network wait and calls back into the protocol handlers; `xhci_poll` is also called
while a frame is received, so a device can vanish in the middle of a call that
uses it. The hazards this leads to are listed, each at its line, in
`PROJECT.json`.

## 2. Modules

| Module | Models | Run by |
|---|---|---|
| `Heap` | `kernel/heap.c`, all of it | `MCHeap` |
| `FsTree` | what `filesystem.h` promises: a tree, a current directory, indivisible calls | under `Packages` |
| `FsTreeProofs` | theorems about `FsTree` | |
| `Filesystem` | `fs/filesystem.c`, `fs/rootfs_disk.c`, use of `storage/rootstorage.c`; implements `FsTree` | `MCFilesystem` |
| `FilesystemProofs` | theorems about `Filesystem`; it implements `FsTree` | |
| `Packages` | `package/*.c` on top of `FsTree` | `MCApps` |
| `PackageProofs` | theorems about `Packages` | |
| `Process` | `process/process.c` and the control flow of `app/elf_loader.c` | `MCApps` |
| `Dhcp` | `network/dhcp.c`, the configuration in `network/net.c` | `MCNet` |
| `Tcp` | `network/tcp.c` with the sending of `ipv4.c`, `net.c` and `arp.c` | `MCNet` |
| `Dns` | `network/dns.c` and the bindings of `udp.c` | `MCNet` |
| `NetProofs` | theorems about `Dhcp`, `Tcp` and `Dns` | |
| `Usb` | root ports of `drivers/usb/xhci.c`, `usb/usb.c`, `drivers/usb/rndis.c`, `network/net_device.c`, the scan of `drivers/usb/usb_mass_storage.c`, the loop of `shell/shell.c` | itself |
| `UsbProofs` | theorems about `Usb` | |
| `Display` | `display/rootdisplay.c`, `display/rootdisplay_legacy_impl.c` | `MCConsole` |
| `Text` | widths of characters, the clipboard | under `Terminal`, `RootEdit` |
| `Terminal` | `terminal/terminal.c` in graphics mode | `MCConsole` |
| `TerminalProofs` | theorems about `Terminal` | |
| `ShellLine` | the input loop of `shell/shell.c`, on top of `Terminal` | `MCInteractive` |
| `RootEdit` | `editor/rootedit.c` | `MCInteractive` |
| `Input` | `drivers/input/*.c`, `input/rootinput*.c`, `input/keymap_latam.c` | `MCInteractive` |
| `InteractiveProofs` | theorems about `Input`, `RootEdit` and `Display` | |
| `Timer` | `drivers/timer/pit.c`, `kernel/time.c` | `MCInteractive` |
| `KernelProofs` | theorems about `Heap`, `Process` and `Timer` | |

`MCApps`, `MCNet`, `MCConsole` and `MCInteractive` check several components that do
not interact, in one run: a variable `part`, chosen initially, tells which of them
moves.

Operators have the names of the functions they model. Names that begin with a
capital are parts of a function, external actors or properties. An operator marked
`Mutant` is the operator that follows it with a plausible mistake; no behaviour
uses it. `PROJECT.json` maps every definition to its lines.

### Heap

`hdr` is the set of block headers with their links, `held` the pointers callers
own with the size they asked for, `freed` pointers they gave back and might use
again. The search of `root_malloc` is one step per block, so that `pc`, `want` and
`block` are its local variables; everything else is one step per call. `usize` wraps at
`UMAX`. Payload bytes are left out: whether two callers share bytes is a question
about addresses. A second `root_free` is allowed only while the header in front
of the pointer is still one, as the magic number check decides; a stale pointer
into a block that was merged away reads what the new owner wrote there and is not
modelled.

A `root_realloc` that shrinks a block in place puts its remainder in front of a
neighbour that may be free, and does not join them: no property asks that free
neighbours are joined.

### Filesystem

`FsTree` is the abstract specification: a function from paths to nodes, a current
directory, one action per call. `Filesystem` runs each call slot by slot over the
table `nodes`, with the disk's records in `disk` and file contents in `sectors`. Each
record or sector write is a step that may fail (the sector may have been written
all the same) and after which power may fail. `Abstract` maps the table, between
two calls, to the tree of `FsTree`; during a call it shows the tree the call began
with (`snap`), so that the last step of a call is its abstract step.

What the code does and the properties allow:

- a failed add or remove leaves a record on disk without a node in memory, or the
  reverse, with `filesystem_storage_error` set; `MirrorsDisk` is about states
  without it;
- a move that power cut short leaves a subtree split over two paths. Nothing is
  lost (`MoveLosesNothing`), but a repeated move may find its target taken;
- after a restart HOME is taken as current directory without a look at its type;
- a full volume that lacks a base node is given up for RAM, and without a fault
  that is the only reason (`MirrorsDisk`);
- after a failed record write the size on disk may exceed the cached one, and the
  bound of the append in `TornWriteMixes` is about states without such a fault. The
  hazard list has it.

Not modelled: the tail of long paths in the second metadata sector, the header
fields of the volume, and copies that run out of memory in RAM mode (the
refinement is checked with a volume).

### Process

One step per stretch of `elf_loader_run` between two heap or table calls. What an
ELF file contains decides only which error return is taken. `blocks` counts the
heap blocks the loader holds, `latest` the pids it gave out last. `process_mark_failed`
has no caller in the repository and is not an action.

### Dhcp

`net` keeps every message ever sent, and `net_poll` may take any of them at any
time: loss, repetition, delay and reordering. `Foreign` are replies to other
hosts. A reply holds any selection of the options (server, mask, gateway, DNS,
lease), and each one that is present is taken over by itself, as `parse_options` does,
whatever the type of the reply. An option's value is the number of the server that
sent it, so that a mixture shows; a `Faulty` server may leave the address out
too. Transaction ids are fresh in every call: they are made of the milliseconds since
boot. `dhcp_acquire` is one step per iteration and per frame. The ghost `told` is what
replies to this client said in the current attempt.

Three behaviours are the code's own and no property forbids them: an
acknowledgement and a rejection handled in one poll leave the lease configured
while `dhcp_acquire` reports failure or goes on; a second offer handled in the
same poll replaces the server id but not the address, so that the request is
refused; and an option that the acknowledgement leaves out stays as another reply
of the same attempt said, an offer of a second server included, so that a lease may
mix the two (`dhcp.c:191`). `LeaseGranted` says how far that goes: address and
options the acknowledgement holds are its own, the others were heard in this attempt or
are zero, and nothing comes from an earlier attempt, transaction or host.

### Packages

Each filesystem call of `package_manager.c` is one step on the tree of `FsTree`,
which the slot-by-slot calls implement; it may fail, and the power may fail
between two calls or between two sectors of the database. The database is a
sequence of lines. A torn save puts new lines in front of old ones; the cut may lie inside a
line, and the head of one line with the tail of another may make nothing, a line that
does not parse, or one that names a package: `Splices` are those a cut can make. How
long lines are is left open, so every place is a possible cut. Offsets and sizes of a
package file are numbers that wrap at `USIZE`. What the code does and the properties
allow:

- a crash in an install leaves a directory that refuses a second install, and one
  in a remove leaves a listed package without files;
- a package without a version is listed and saved, and the next load stops at its
  line: it and what follows are gone from the list (`RestartKeepsList` excepts it);
- a line made of two halves is loaded like any other, and may name a package that has
  no files, or a package with another one's application; `ListedIsComplete` excepts the
  names that a cut alone put into the database;
- when the database cannot be read at start, the list is empty and nobody is told
  (`package_manager.c:318`). The database is still whole, which `RestartKeepsList`
  says; the next save replaces it by what was installed since;
- the names `.` and `..` pass `rtpgk_safe_name`; the model has plain names only.

A recursive remove that fails changes nothing here, which is what `FsTree` says of
calls without faults; the partial ones are those of `Filesystem`.

### Tcp and Dns

`stack` holds the calls under way, the innermost first: a send that waits for an
ARP reply polls, a frame handled there may send in turn. `wire` keeps all packets
sent, the peers answer any of them at any time and as often as they like, and
resets come at any time. Deadlines may pass whenever the wait is not over. A
checksum is modelled as what it is computed from, so that a segment overwritten in
the shared buffer after its checksum was taken shows. In `Dns` the clock wraps at
`U32`, and the parser is tried on every packet of up to six bytes over six values,
two of which are pointers, with up to two questions and two answers.

Behaviours of the code that no document rules out and no property forbids: a FIN
is accepted whatever its sequence number; an answer that waits in its send when a reset
is handled overwrites the reset as it returns, by ESTABLISHED (`tcp.c:330`) or FIN_WAIT
(`tcp.c:361`): the one exception `ResetStays` names, which forbids any other change of the state and
any answer begun after the reset, in whatever nested call; a cached name whose entry expired more than half the range of the clock
ago counts as fresh again (`CacheIsFresh` is about lookups made before that).

### Usb

`todo` is the rest of the current pass of the shell loop, one task per port, id or
runtime; `xhci_bulk_receive_poll` puts the port tasks in front of its own second
half. Devices are plugged in, unplugged and fail between any two tasks. A
transfer to a device that is gone fails, a transfer to one that is there fails at
most `MaxFaults` times. `waiting` holds the delays that have not ended. The PORTSC
register is read and acknowledged in one step: a change flag set in between is
outside the model. There is one controller with USB 2 ports and no hubs, as the
driver has none. The block-device table, larger than the mass-storage table, never
fills. The branch of `rndis_service` that drops a session whose device is gone is
in the model and never taken: removals are synchronous.

### Display and Terminal

`Display` draws into `shadow`, copies damage to the screen when the outermost update
ends, and keeps the pixels under the pointer. `canvas`, a ghost, is what callers
have drawn; the screen must be the canvas with the pointer on it. `Terminal` keeps
the cells and, per cell, the pixels as glyph parts with their inversion and the
cursor's bar. The ghost `smudge` marks states in which the code leaves wrong
pixels behind: it redraws its cursor or repaints under a selection without
restoring the inversion, or overwrites half of a wide glyph. The properties about
pixels are about states without it, and say nothing else is ever wrong.

### ShellLine

One step is one input event. A command is what it prints and the length of the
prompt it leaves. A prompt longer than `PROMPT_LIMIT` is followed by a line feed and a
second one. `LineShown` says that the input row shows the line, with two exceptions
that the code does not keep: a line that was drawn past the last column since its prompt (a
history entry recalled behind a longer prompt, see the end of section 5), and the second half
of a wide glyph, which may be blank (finding 3). It holds in states with wrong pixels
(`smudge`) too, as it is about cells. A wide character that is typed stands for one
that is pasted: the keyboard has none. A tab in a pasted text counts as
one cell and is left out.

### RootEdit

One step is one event, drawn to the end. What the code does and the properties
allow (the ghost `stale` marks the first three): a double click may move the view
without a redraw; a tab over several selected lines redraws one row; a file whose
end is out of view is shown from its start with the text cursor clamped; a wide
glyph that crosses the left edge is drawn one cell off. Files over the limit are
cut when they are loaded, and saving truncates them; invalid bytes become U+FFFD;
leaving discards unsaved text; a selection as long as the buffer is not copied.
The pixels of the highlighted selection and tabs in files are left out. A state
whose indices left the text (finding 1) is not followed further.

### Input

The keyboard and the mouse are external: they put the bytes of real scan codes and
packets into the controller, where one byte may get lost. It hands out the bytes of each
device in order and those of the two in any order, so `rootinput_poll` takes one byte of
either in a step. Keys are used at any time, during `mouse_init` too; a device has
one report on its way at a time. Negotiation with the mouse is a sequence of nine
commands. An answer that comes too late fails the command and stays in front of what
follows: all of it, or after its ACK was read the device id alone. A key's byte in
front of an answer blocks `mouse_init`, which takes bytes of the mouse only
(`mouse.c:45`): the command fails and so does the one made after it, and the mouse stays
without service. Bytes of the mouse are kept as
numbers, with sign and button bits taken from them as the code does. `owed` sums
up what was decoded and not delivered yet. A wheel mouse that switched to packets
of four bytes while its answer was late stays in that mode and the driver reads
three; `HeldIsKnown` is about negotiations that went well.

### Timer

The handler counts between any two loads of halves, in either order of the halves,
fewer than `HALF` times during one call (2^32 ticks are 49 days). Reading ends only
when two readings agree, so a tick in every pair of readings would keep it going;
that it ends is not claimed. A sleep is measured by the clock it reads, whole
milliseconds rounded down: in real time it may be shorter by less than one.

## 3. Runs

| Run | Instance | Shows | Properties |
|---|---|---|---|
| `heap` | arena of 20 units of 8 bytes, requests 0, 1, 3, 6, 30, 31, counts 0, 2 | tiling, no shared bytes, used exactly when held, allocations return | `Tiled`, `NoSharedBytes`, `UsedIffHeld`, `MallocReturns` |
| `fs_calls` | 4 slots, depth 2, one sector, no faults | the slot-by-slot calls implement `FsTree` | `ImplementsTree` |
| `fs_storage` | 3 slots, depth 2, up to two sectors; two power failures or one fault, with and without a volume; after either, calls are made from `/` or `HOME` | memory mirrors the disk, mounting, moves lose nothing, bystanders untouched, RAM mode does not write, torn writes, the append bound | `MirrorsDisk`, `MoveLosesNothing`, `BystandersKept`, `TornWriteMixes` |
| `apps` | two applications, six package files (four to be refused), a list of two, files of up to 3 lines, 2 splices, two troubles; 3 process slots, pids up to 4 | installs are all or nothing, listed packages are complete, restarts keep the list; no leak on any return, a slot is found, the history | `InstallAllOrNothing`, `ListedIsComplete`, `NothingLeaks`, `KeepsLatest`, `RestartKeepsList`, `AcceptedInBounds` |
| `usb` | 2 ports, 2 ids, 2 runtimes, 2 phones and a stick, 3 port events, 1 fault | the tables of four drivers agree | `InventoryMatchesPorts`, `ReadyIsAttached` |
| `usb_hotplug` | 1 port, 2 phones and a stick, 4 port events, 2 faults | removals are noticed, sessions come up and come back | `UnplugSeen`, `SessionComesUp` |
| `usb_swap` | 1 port, 2 ids, 2 phones, no faults | finding 2 | `PlugSeen` |
| `net` | 2 connections, 2 ports, 2 SYNs, 2 peers (one through the gateway, whose address may change), 8 units of work; 3 names, a cache of 2, 3 lookups, a clock of 8; 2 servers, one of which may leave the address out, 2 options each there or not, 2 attempts, 2 acquisitions | answers belong to questions and connections to SYNs, nothing shared is overwritten, a reset stays, leases are granted ones and none is late, connecting and acquiring end | `EstablishedWasAsked`, `PeerNotMisled`, `AnswerToQuestion`, `CacheIsFresh`, `ResetStays`, `ParserInBounds`, `TcpCallsReturn`, `LeaseGranted`, `NoLateLease`, `AcquireReturns` |
| `console` | one column of three pixels, nested updates, 8 boot configurations; a terminal of 2 by 2 with 2 lines of scrollback, 2 cells in use | the screen shows what was drawn and printed | `ScreenShowsDrawing`, `ScreenShowsText`, `CopyIsHighlight`, `ApertureReachesFramebuffer` |
| `interactive` | terminals of 5 by 1 and 4 by 2, prompts of 2 and 3, a line of 2; a text of 2 code points in a body of 2 by 2, one undo step, 2 edits; a queue of 3 events, 2 to 4 user actions; a clock with halves of 3 | lines and texts are shown, undone, saved; modifiers, buttons, the event queue; no torn time | `LineShown`, `SavedIsOnDisk`, `UndoReachesStart`, `BodyShowsText`, `HeldIsKnown`, `QueueLosesNothing`, `SleptLongEnough` |
| `edit_length` | as `interactive` | finding 1 | `LengthBounded` |
| `line_glyphs` | as `interactive` | finding 3 | `GlyphsWhole` |

Why the bounds are enough. The arena holds up to five blocks, so a block has two
neighbours of its own on each side, and the largest requests wrap around in the
alignment and in `root_calloc`. Four slots hold `/`, HOME and a subtree of two, or
leave one free for a copy that needs two; depth 2 makes some paths too long. Three
process slots with four pids wrap the counter around a full table. Two ports and
two ids let an id pass to another port and another device; three events are plug,
unplug, plug. Two connections with two ports make the port counter go round while
one is open, and the ARP table of two overflows with three neighbours. Four
button events are a double click, with as many events as overflow the queue of
three at its last packet. A text of two code points holds a line
break and a wide glyph, or two lines to join; a ring of one snapshot drops one at
the second edit. The shell's two terminals have room for a wide glyph beside another character,
and the longer of the two prompts wraps and gets its line feed. A list of two with files of three lines
tears inside, between and behind lines; the splices are a name that no package has and a package
with another one's application. Two DHCP options, of which `"server"` is one and any other
behaves like the second, are there or not in every reply. `Focus` in `MCInteractive` and `FewGlyphs` in `MCConsole` leave out
combinations of features that multiply states: history, clipboard, selection and wrong
pixels of the shell, or saved file, clipboard, selection and second edit of the editor, are
used one at a time (a copied text is also pasted while it is selected), and after a lost byte or a late
answer the user acts once. `MaxFaults`, `MaxCrashes`, `MaxPlugs` and `MaxTransactions` bound the
environment; `StopAtFallback` and `OneKindOfTrouble` in `MCFilesystem` are bounds
too.

Deadlock is checked in every run but `interactive` and those of findings 1 and 3, where the user
stops after `Sessions` and the clock at `MaxTicks`.

Fairness. Weak fairness is assumed of kernel steps only: there is one thread,
calls are not preempted, `hlt` ends with the next timer tick, and the shell loop
never ends. `Usb` also assumes that each delay ends, and `TcpFairness` that a call
which can go on does (a wait whose deadline may pass goes on). Nothing is assumed of users,
devices, servers and the network.

## 4. Proofs

TLAPS checks the following for every value of the constants that satisfies the
named assumptions (`SizesAssumption`, `CallersAssumption`, `TreeAssumption`,
`TableAssumption`, `BaseTreeAssumption`, `FsBoundsAssumption`, `PackageAssumption`, `ProcessAssumption`, `DhcpAssumption`,
`TcpAssumption`, `DnsAssumption`, `UsbAssumption`, `TimerAssumption`, `DisplayAssumption`,
`ApertureAssumption`, `EditAssumption`, `InputAssumption`). They say that
sizes and bounds are numbers, and what the code's own constants satisfy: a table holds
the base tree, which is one and has HOME (`filesystem.c:77`), there are at least as many pids as process slots, a call reads the
clock for less than half of its range, the aperture begins and ends at a large page, the
input queue has room for an event, the bytes of a mouse are bytes, and the terminal has a
line of scrollback and two columns, as a wide glyph needs (`TerminalAssumption`). Two are restrictions. `DnsAssumption` allows
no more lookups than there are ephemeral ports: once the port counter is round, a late
answer to an old query could meet a new query with the same port, id and name.
`PackageAssumption` leaves out packages named `.` and `..`, which `rtpgk_safe_name`
(`rtpgk.c:38`) lets through, and files other than the database with lines that read
like its own: a user could make such a file and copy it over the database.

*Heap*: `HeapTypes`, `HeapTiled`, `HeapNoSharedBytes`, `HeapUsedIffHeld`,
`HeapFirstFit`. The inductive invariant `HeapInv` adds to the properties that every
block has a payload, that only block starts are linked and apart (`WellFormed`),
that each held pointer is the payload of a used block large enough for it
(`Owned`), and what the search of `root_malloc` relies on (`Scanning`): its current
block exists, and a block being moved by `root_realloc` is still held. Without the
latter, the release at the end of a move could hit a block of another caller.
`SplitFact`, `MergeFact` and `AlignFact` say what the three helpers do; each call
follows from them.

*FsTree*: `FsTreeTypes`, `FsTreeWellShaped`. `WellShaped` asks not only a node's
parent but every proper prefix of its path to be a directory (`Shape`), which copying
and moving a subtree keep without an induction over paths.

*Dhcp*: `DhcpInvariant`, `DhcpTypes`, `DhcpLeaseGranted`, `DhcpNoLateLease`. The invariant adds
that an idle client is neither discovering nor requesting (`LoopInv`), without
which a late acknowledgement would be applied, and that every offered value that is not
zero was heard in this attempt (`OfferHeard`): the offered values survive replies one by one, and
only because `send_discover` resets them does nothing of an earlier attempt reach the lease.

*Filesystem*: `FsInvariant`, `FsMirrorsDisk`, `FsBystandersKept`,
`FsTornWriteMixes`, `FsMoveLosesNothing`. `MirrorsDisk`
speaks of the time between calls; `Mirror` asks it of every step of a call, which
holds because memory follows a record only when its write succeeded. `CallInv` says what each call knows of its
arguments while it runs, `TransferInv` that source and destination of a copy or move stay
apart and every new path fits, `RootInv` that "/" is a directory, `MountInv` and
`GivenUpInv` when a volume may be given up. `BystandersKept` follows from
`WritesOwnSlot`: a step writes to the free slot it takes or to a slot of its own
subtree. An attempt at the type of `current_directory` showed that a move may leave it
too long for its buffer: `root_strlcpy` cuts it off (`filesystem.c:2694`), which
`Fitted` now models. For crashes in the middle of a call, `CutInv` says where each call
stands: the sectors before the counter of a write are new and the others as they were
(`WriteInv`); a node of a moved subtree is in its slot under its new path once the
counter has passed that slot, and under its old path before (`MoveInv`). Directories
have no content (`DirsEmpty`), so a slot's record alone identifies a node.

*Refinement*: `FsImplementsTree`, `FsImplementsTreeWhenCalm`, `FsTableIsTree`. While
no sector fails and power stays (`Calm`; otherwise a call is cut short, which is what
the theorems above are about) `Filesystem` implements `FsTree`: `ImplementsTree`. The
mapping shows the tree of the last return, so only the step that returns is a call of
`FsTree`; all else must be invisible. What that step needs, `RefInv` carries
through the call: for each place a call can be at it says how table and sectors lie
between the tree before (`snap`) and the tree after. No two slots have one path
(`Alone`), so the first slot found for a path is the only one. Directories made so far
extend the tree in memory by as many (`EnsureOK`). Behind the counter of a removal
nothing of the subtree is left (`RemoveOK`), behind that of a copy every node has its
copy and the free slots still suffice for the rest (`CopyOK`), behind that of a move
every node has its new path (`MoveOK`); the sectors a write has passed are those of
its buffer (`WriteInv` above, `CopyDataOK` for a copied file). That the loops do not
meet what they have made themselves follows from source and destination being
apart (`TargetFree`, `TargetsDiffer`): a copy lands in free slots that the loop may
still come to. The mount puts the base tree together in the order of `initial_nodes`
(`PartlyMade`). `Ready` collects the invariants a step may assume, `Good` says that
it simulates one of `FsTree` and keeps `RefInv`; there is one lemma for each action.
`FsTableIsTree` takes the shape of the tree back to the table.

*Packages*: `PackageInvariant`, `FailedInstallLeavesNothing`, `ListedAreComplete`,
`RestartLoadsSavedList`, `AcceptedFilesInBounds`. Each property speaks of a moment
between calls; the invariant `PackageInv` says what carries it through a call. During
an install the tree is the one it began with, apart from the new package, the database
and directories above these (`BeforeOK`), so that removing the package's directory
takes everything back; the entries copied so far are there (`EntriesOK`). That paths of
entries stay below that directory follows from `rtpgk_safe_relative_path`
(`SafeResolve`, `DestFact`), and that the directories of two packages are apart from
their names (`RootsApart`). A database cut off between two sectors has lines of two lists and one
made of both, and a restart loads what it has; so completeness is asked of every package that the
database or the list has (`NamedOK`), and a package on its way in must not be there before its save
(`FreshOK`): it could not be, as a complete package has its directory
(`CompleteHasRoot`), and `package_install` refuses a directory that exists. An install that is
cut off appends one line, and then there is nothing to be cut: the old list is a beginning of the new.
`StoredOK` says which lists the database may hold, and `LoadReadable` what loading makes
of them. After a restart the tree need not have the shape of `FsTree`:
`filesystem_init` puts missing base directories back even below a file that took the
place of one. The invariant therefore asks only that everything above a node exists
(`Closed`).

*Process*: `ProcessInvariant`, `ProcessNothingLeaks`, `ProcessKeepsLatest`. `Table`
relates slots to pids (`TableInv`), a slot's state to the loader's (`StateInv`) and
finished programs to the replacement cursor (`HistoryInv`): the cursor goes round the
slots in the order in which the pids do, so the slot it takes is the oldest.

*Timer*: `TimerInvariant`, `TimerSleptLongEnough`. A reading is a value the counter had
since the call began (`ReadingInv`), whether its halves were read before or
after a carry (`CallInv`); the target of a sleep is at least its duration after its
begin, rounded up (`SleepInv`).

*Tcp*: `TcpInvariant`, `TcpEstablishedWasAsked`, `TcpPeerNotMisled`, `TcpResetStays`.
The call stack is nested as the handlers call each other (`Nested`, `CallsInv`); every
acknowledged SYN was sent (`AskedInv`); open connections have ports of their own
(`PortsInv`); and each sequence number ever used belongs to one host (`OwnerInv`),
which keeps the shared transmit buffer from reaching another host with a valid number.
All steps but a new connection preserve it for one reason (`QuietStep`): they
change a connection's state and acknowledgement, never its host, port or sequence number
beyond the FIN. For a reset, each step is shown to push no call that answers a segment of that
connection (`ResetNoAnswer`, `SendingNoAnswer`, `ConnectingNoAnswer`), so a state can change
only where such a call returns that was there before.

*Dns*: `DnsInvariant`, `DnsAnswerToQuestion`, `DnsCacheIsFresh`, `DnsParserInBounds`. Ports are taken
in turn (`Turn`, `TurnInv`), so a reply on the way to the port of the pending query answers
that query (`QueryInv`). Freshness needs the arithmetic of the 32-bit clock: a
difference taken modulo the range has the right sign while it is below half of
it (`SignedCompare`). The parser is a recursive function over the packet. That
such a function exists (`WalkExists`, `ReadExists`) and what it returns (`SkipName`,
`BytesInside`) follows from the first place where it would fail; so replies of every
length and any number of questions and answers are covered, where the run tries short ones.

*Usb*: `UsbInvariant`, `UsbInventoryMatchesPorts`, `UsbReadyIsAttached`. `PortTables`
ties ports to the inventory, `Sessions` runtimes to inventory and endpoints, `Registered`
adapters to runtimes. The three tables change in different tasks of the shell loop,
so the invariant also says what the tasks still to be done may be: a scan only of
ports without a device (`TodoOK`), a receive only as the last one and with failures below
the limit (`Pending`).

*Display*: `ScreenAlwaysShowsDrawing`, `ApertureAlwaysReaches`. What a pixel should show
is a function of what lies under the pointer: `BareAt` is the renderer's pixel, or, where
the pointer is drawn, what its saved background says; `FinalAt` puts the pointer over it.
The invariant `ScreenInv` says that the bare picture is the canvas wherever somebody
has drawn, and that the screen differs from the final picture only inside the damaged
rectangle (`DamageOK`); outside updates there is none. The saved background would go
stale if something were drawn under the pointer; so the pointer is drawn exactly while it is
enabled and no update is open (`Good`), and a single pixel under it goes to the background. Colours are
packed by a division and unpacked by a multiplication, so a background put back is the
old value only for values of `size` bits. Rectangles are clipped with unsigned sums that
wrap, and the proof covers all of them. The page tables follow from arithmetic of
page numbers alone: `WindowPages` shifts by a whole number of pages because the window
begins at one.

*Terminal*: `TerminalInvariant`, `ScreenAlwaysShowsText`. The code never redraws what it can
shift or leave: a line feed moves pixels, scrolling the view draws only the exposed
rows, a changed selection inverts the difference, a batch draws at its end. `TermInv` says what
the pixels are in between. Within a transaction (`Moving`) the view is live, nothing is
selected, the cursor is off and the screen has the glyphs of the cells (`Live`), unless
drawing was put off (`pending`); between transactions (`Still`) every cell agrees with the row in
view, the selection and the cursor (`Faithful`). Both speak of states without a smudge: the ghost
`smudge` is set where the code leaves pixels wrong, and it is what `BeginFact`
and `MarkTornFact` need. Half a wide glyph is drawn right only beside its other half, so
rows must be `Paired`, which the two clearings in `ClearHalves` and the wrap before
a wide glyph keep. The ring (`Kept`) is arithmetic modulo its size (`RingStep`), and the
difference of two selections a case split over intervals (`ShowFact`). What printing a text
does follows from the first code point after which the invariant would fail (`PrintFact`).

*Editor*: `EditInvariant`, `StatusTellsTruth`, `UndoGoesBack`. `EditInv` says that the text and
the caret fit (`EditOK`), that snapshots in both rings are such texts, together at most as many
as the ring holds, and that the ghost `original` is at the bottom of the undo ring, or is the
text itself. That a group of typed letters has a snapshot below it (`group # "NONE"`)
is what lets the second letter be typed without one. `StatusTellsTruth` needs that no edit
leaves the flag `dirty` unset unless the text is the same (`Onward`); each operation of
the code is shown to be a snapshot and one edit behind it (`Edited`), or to leave the text alone.
The invariant does not bound the anchor of the selection: finding 1 shows that it cannot.

*Input*: `InputInvariant`, `QueueNeverLoses`, `HeldAlwaysKnown`. `QueueOK` says what the queue
carries: the sums of strokes, motion and turns are what is owed (`Accounts`), and the newest
mouse event in it, or the last one taken when only keys are left, tells position and
buttons (`Told`). A push changes each sum by what the event carries, whether it is joined to
the last event, added, or pushes out the oldest (`PushShape`); that a recursive sum has
these values follows, as for the DNS parser, from the first place where it would not.
A packet pushes up to seven events one by one, and only the last of them must tell
the truth (`PacketFact`). For what is held, the state between two bytes matters: `Sent` lists what
may still be on its way from the keyboard, given the prefix flag and the count of the pause sequence
(the rest of a key, of print screen, or of pause), and which modifiers will be
held in the end. The mouse has a port of its own, and each invariant is kept by the steps of the
other device (`OthersKnow`): `Between` says that no packet is on its way, `Within` that the rest of
one is there and that its status byte names the buttons held; `Setup` how the protocols of driver and device agree during
`mouse_init` while no answer is late. The fake shifts of print screen leave no modifier behind
because behind a prefix they are no key (`Unmoved`).

Types, first fit and the shape of the tree are proved and therefore not checked
once more by a run; that the slot table holds a tree (`FsTableIsTree`) follows from
`FsTreeWellShaped` with the refinement.

Only model-checked: liveness (`MallocReturns`, `AcquireReturns`, `UnplugSeen`,
`SessionComesUp`, `TcpCallsReturn`), which needs fairness and `ENABLED`; and what is shown of a text
outside the terminal's own cells (`CopyIsHighlight`, `LineShown`, `BodyShowsText`), which computes
with folds over sequences. The refinement is neither checked nor proved for a filesystem in RAM, where
a file's write may run out of memory in the middle of a copy.

## 5. Findings

1. `edit_length`. While a mouse button is down, keys are still handled. Backspace
   shortens the text and leaves the anchor of the selection where it was; the next
   drag makes the selection reach behind the end of the text, and deleting it
   subtracts more than there is from the unsigned length (`rootedit.c:1582`). The
   comment at `rootedit.c:117` says that memory use is bounded: the next snapshot
   copies as many code points as the length says.
2. `usb_swap`. The comment at `xhci.c:209` says that root-hub state is serviced
   continuously instead of by manual rescans. When a device is unplugged and one is
   plugged in before the port is polled (a long command does not poll), the change
   flag shows a connection, the port still has its old device, and the new one is
   never addressed until a rescan.
3. `line_glyphs`. With a character in front of a wide one, deleting it draws the wide glyph
   one cell further left and leaves its old second half. `shell_redraw_line` prints a blank over
   that half (`shell.c:4549`), and `terminal_putcodepoint` clears the cell before it
   (`terminal.c:985`), taking it for the glyph's first half (comment at `terminal.c:978`): it is the
   second half of the glyph just drawn, whose right side is erased from the screen.

Seen while modelling, without a run: the comment at `shell.c:4899` calls the input one visual
line, and typing and pasting keep it one, but a recalled history entry is not checked
(`shell.c:4619`): one typed behind a short prompt, recalled behind the longer prompt of
another directory, runs into the next row; `filesystem.c:148` says that a backend that
could not be written makes RootOS fall back to RAM, while a failing write sets the
flag and the volume stays in use; `kernel.c:302` says that mass storage has a
listener for removals, while its block devices outlive the stick.

## 6. Plan

1. `XhciRings`*: command, event and transfer rings with cycle bits, late
   completions (`xhci.c:784`), the asynchronous receive.
2. Device manager and driver store across a rescan; rings of the network cards.

Not modelled: glyph tables, PCI configuration space, interrupt descriptor tables,
ATA register access, the relocation of ELF sections, the shell's commands that
only print or forward, the VGA text fallback of the terminal, and the offline
scripts under `tools/`: data processing or hardware access without a protocol that
a property could be about.
