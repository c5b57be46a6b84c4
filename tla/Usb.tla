-------------------------------- MODULE Usb ---------------------------------
(***************************************************************************)
(* USB hotplug in RootOS: the root ports of the xHCI driver                *)
(* (source/drivers/usb/xhci.c), the inventory of USB devices               *)
(* (source/usb/usb.c), the RNDIS driver with the network adapters it       *)
(* registers (source/drivers/usb/rndis.c, source/network/net_device.c) and *)
(* the mass-storage driver with its block devices                          *)
(* (source/drivers/usb/usb_mass_storage.c).                                *)
(*                                                                         *)
(* The kernel is single threaded: `todo' is the work left of the current   *)
(* pass of the shell loop, and each task of it is one step.  Devices come  *)
(* and go at any time.  Transfers to a device that is there may fail;      *)
(* transfers to one that is not always do.  The ports are USB 2 ports of   *)
(* one controller.                                                         *)
(***************************************************************************)
EXTENDS Integers, Sequences, FiniteSets

CONSTANTS
    MAX_PORTS,              \* root ports of the controller
    USB_MAX_DEVICES, RNDIS_MAX_DEVICES, ROOT_NET_DEVICE_MAX, USB_MASS_MAX_DEVICES,
    RNDIS_IO_FAILURE_LIMIT, \* failed transfers until the session is given up (3)
    REPROBES,               \* failed enumerations until a port is given up (3)
    Phones,                 \* devices with RNDIS interfaces
    Sticks,                 \* mass-storage devices
    None,                   \* no device
    MaxPlugs,               \* bound on the events at the ports
    MaxFaults               \* bound on failures of devices that are there

ASSUME UsbAssumption ==
    /\ {MAX_PORTS, USB_MAX_DEVICES, RNDIS_MAX_DEVICES, ROOT_NET_DEVICE_MAX,
        USB_MASS_MAX_DEVICES, RNDIS_IO_FAILURE_LIMIT, REPROBES} \subseteq Nat \ {0}
    /\ MaxPlugs \in Nat /\ MaxFaults \in Nat
    /\ Phones \cap Sticks = {} /\ None \notin Phones \cup Sticks

VARIABLES
    plugged,        \* port -> the device in it
    enabled,        \* port -> PORTSC.PED: that device was reset and addressed
    csc, pec,       \* port -> PORTSC change flags: connection; enable or config error
    running,        \* the controller runs
    port_usb_id,    \* port -> id, or -1 for ~port_has_usb
    addressed,      \* port -> the device an XhciDeviceRuntime was made for
    bulk,           \* port -> bulk_configured of that runtime
    reprobe,        \* port -> port_reprobe_pending
    attempts,       \* port -> port_reprobe_attempts
    usb_devices,    \* id -> device, None when not used
    usb_pending_add,
    rndis,          \* the RndisRuntime table
    net_devices,    \* registered adapters: runtime and the MAC address given
    blocks,         \* USB block devices: <<usb_device_id, device>>
    waiting,        \* timers that have not run out
    todo,           \* tasks left
    plugs, faults   \* how often the environment acted

physical == <<plugged, enabled, csc, pec>>
ports == <<port_usb_id, addressed, bulk, reprobe, attempts>>
inventory == <<usb_devices, usb_pending_add>>
vars == <<physical, running, ports, inventory, rndis, net_devices, blocks, waiting, todo,
          plugs, faults>>

Ports == 1 .. MAX_PORTS
Ids == 0 .. USB_MAX_DEVICES - 1
Runtimes == 1 .. RNDIS_MAX_DEVICES
Devices == Phones \cup Sticks
Runtime == [used : BOOLEAN, id : Ids, ready : BOOLEAN, link_up : BOOLEAN,
            configured : BOOLEAN, registered : BOOLEAN,
            io_failures : 0 .. RNDIS_IO_FAILURE_LIMIT]
FreeRuntime == [used |-> FALSE, id |-> 0, ready |-> FALSE, link_up |-> FALSE,
                configured |-> FALSE, registered |-> FALSE, io_failures |-> 0]

Least(S) == CHOOSE x \in S : \A y \in S : x <= y
Tasks(name, n, first) == [k \in 1 .. n |-> <<name, k - 1 + first>>]

\* The port of the runtime that xhci_find_runtime_by_usb_id finds.
PortOf(id) == {p \in Ports : port_usb_id[p] = id}
\* A transfer to the device can succeed.
Reachable(id) ==
    \E p \in PortOf(id) : running /\ enabled[p] /\ plugged[p] = addressed[p]

-----------------------------------------------------------------------------
(* The tasks of a pass.                                                    *)

xhci_poll == IF running THEN Tasks("port", MAX_PORTS, 1) ELSE <<>>
usb_service == Tasks("added", USB_MAX_DEVICES, 0)
rndis_service == Tasks("runtime", RNDIS_MAX_DEVICES, 1)
rndis_probe_all == Tasks("probe", USB_MAX_DEVICES, 0)

Task(name) == todo # <<>> /\ Head(todo)[1] = name
Arg == Head(todo)[2]
Done == todo' = Tail(todo)

\* One round of the loop of shell_run, which ends with at most one command.
shell_run ==
    /\ todo = <<>>
    /\ todo' = xhci_poll \o usb_service \o rndis_service \o <<<<"command", 0>>>>
    /\ UNCHANGED <<physical, running, ports, inventory, rndis, net_devices, blocks, waiting,
                   plugs, faults>>

-----------------------------------------------------------------------------
(* rndis_usb_removed and usb_remove_device.                                *)

\* Mutant: a disconnected device counts as configured.
DisconnectKeepsConfig(r) == [r EXCEPT !.ready = FALSE, !.link_up = FALSE, !.io_failures = 0]

Disconnect(r) ==
    [r EXCEPT !.configured = FALSE, !.ready = FALSE, !.link_up = FALSE, !.io_failures = 0]

\* The removal callback for each id of S; `timers' are set as well.
rndis_usb_removed(S, timers) ==
    LET hit == {i \in Runtimes : rndis[i].used /\ rndis[i].id \in S}
    IN  /\ rndis' = [i \in Runtimes |-> IF i \in hit THEN Disconnect(rndis[i]) ELSE rndis[i]]
        /\ waiting' = waiting \cup {<<"runtime", i>> : i \in hit} \cup timers

-----------------------------------------------------------------------------
(* A port of xhci_poll.                                                    *)

\* Mutant: the inventory keeps the device.
DetachKeepsId(p, timers) ==
    /\ rndis_usb_removed({port_usb_id[p]}, timers)
    /\ UNCHANGED inventory
    /\ port_usb_id' = [port_usb_id EXCEPT ![p] = -1]
    /\ addressed' = [addressed EXCEPT ![p] = None]
    /\ bulk' = [bulk EXCEPT ![p] = FALSE]

xhci_detach_port(p, timers) ==
    LET id == port_usb_id[p]
    IN  /\ rndis_usb_removed({id}, timers)
        /\ usb_devices' = [i \in Ids |-> IF i = id THEN None ELSE usb_devices[i]]
        /\ usb_pending_add' = [i \in Ids |-> i # id /\ usb_pending_add[i]]
        /\ port_usb_id' = [port_usb_id EXCEPT ![p] = -1]
        /\ addressed' = [addressed EXCEPT ![p] = None]
        /\ bulk' = [bulk EXCEPT ![p] = FALSE]

\* The change flags that were read are acknowledged.
Acknowledge(p) ==
    /\ csc' = [csc EXCEPT ![p] = FALSE] /\ pec' = [pec EXCEPT ![p] = FALSE]
    /\ UNCHANGED plugged

Reprobe(p, pending, count) ==
    /\ reprobe' = [reprobe EXCEPT ![p] = pending]
    /\ attempts' = [attempts EXCEPT ![p] = count]

Connected(p) == plugged[p] # None
\* A connected port lost its enable bit.
Lost(p) == pec[p] /\ Connected(p) /\ ~enabled[p]

\* Mutant: the flag of a connection that went away is only acknowledged.
PortUnpluggedIgnored(p) ==
    /\ csc[p] /\ ~Connected(p)
    /\ Reprobe(p, FALSE, 0)
    /\ UNCHANGED <<port_usb_id, addressed, bulk, inventory, rndis, waiting, enabled, faults>>

PortUnplugged(p) ==
    /\ csc[p] /\ ~Connected(p)
    /\ xhci_detach_port(p, {})
    /\ Reprobe(p, FALSE, 0)
    /\ UNCHANGED <<enabled, faults>>

\* A new connection is enumerated after it was debounced.
PortConnected(p) ==
    /\ csc[p] /\ Connected(p) /\ ~Lost(p)
    /\ Reprobe(p, TRUE, 0)
    /\ waiting' = waiting \cup {<<"port", p>>}
    /\ UNCHANGED <<port_usb_id, addressed, bulk, inventory, rndis, enabled, faults>>

PortLost(p) ==
    /\ Lost(p)
    /\ xhci_detach_port(p, {<<"port", p>>})
    /\ Reprobe(p, TRUE, 0)
    /\ UNCHANGED <<enabled, faults>>

Due(p) == ~csc[p] /\ ~Lost(p) /\ reprobe[p] /\ <<"port", p>> \notin waiting

\* The port is empty again or has its device already.
PortSettled(p) ==
    /\ Due(p) /\ (~Connected(p) \/ port_usb_id[p] # -1)
    /\ Reprobe(p, FALSE, 0)
    /\ UNCHANGED <<port_usb_id, addressed, bulk, inventory, rndis, waiting, enabled, faults>>

FreeIds == {i \in Ids : usb_devices[i] = None}

\* xhci_enumerate_port with usb_register_device succeeds.
xhci_enumerate_port(p) ==
    /\ Connected(p) /\ FreeIds # {}
    /\ LET id == Least(FreeIds)
       IN  /\ usb_devices' = [usb_devices EXCEPT ![id] = plugged[p]]
           /\ usb_pending_add' = [usb_pending_add EXCEPT ![id] = TRUE]
           /\ port_usb_id' = [port_usb_id EXCEPT ![p] = id]
    /\ addressed' = [addressed EXCEPT ![p] = plugged[p]]
    /\ bulk' = [bulk EXCEPT ![p] = FALSE]
    /\ enabled' = [enabled EXCEPT ![p] = TRUE]
    /\ UNCHANGED faults

\* It fails: there is no device, it does not answer, or the inventory is full.
\* The port reset may have enabled the port all the same.
EnumerateFails(p) ==
    /\ IF Connected(p) /\ FreeIds # {} THEN faults < MaxFaults /\ faults' = faults + 1
       ELSE UNCHANGED faults
    /\ \E e \in {enabled[p], Connected(p)} : enabled' = [enabled EXCEPT ![p] = e]
    /\ UNCHANGED <<port_usb_id, addressed, bulk, inventory>>

PortEnumerated(p) ==
    /\ Due(p) /\ Connected(p) /\ port_usb_id[p] = -1
    /\ xhci_enumerate_port(p)
    /\ Reprobe(p, FALSE, 0)
    /\ UNCHANGED <<rndis, waiting>>

\* Another attempt after a delay, at most REPROBES in all.
PortNotEnumerated(p) ==
    /\ Due(p) /\ Connected(p) /\ port_usb_id[p] = -1
    /\ EnumerateFails(p)
    /\ Reprobe(p, attempts[p] + 1 < REPROBES, attempts[p] + 1)
    /\ waiting' = IF attempts[p] + 1 < REPROBES THEN waiting \cup {<<"port", p>>} ELSE waiting
    /\ UNCHANGED rndis

PortQuiet(p) ==
    /\ ~csc[p] /\ ~Lost(p) /\ ~Due(p)
    /\ UNCHANGED <<ports, inventory, rndis, waiting, enabled, faults>>

PollPort ==
    /\ Task("port")
    /\ LET p == Arg
       IN  /\ \/ PortUnplugged(p) \/ PortConnected(p) \/ PortLost(p) \/ PortSettled(p)
              \/ PortEnumerated(p) \/ PortNotEnumerated(p) \/ PortQuiet(p)
           /\ Acknowledge(p)
    /\ Done
    /\ UNCHANGED <<running, net_devices, blocks, plugs>>
-----------------------------------------------------------------------------
(* initialize_device, with the runtimes kept for an id that comes back.    *)

RuntimesOf(id) ==
    LET existing == {i \in Runtimes : rndis[i].used /\ rndis[i].id = id}
    IN  IF existing # {} THEN existing ELSE {i \in Runtimes : ~rndis[i].used}

\* The runtime as initialize_device sets it before its first transfer.
Fresh(i, id) ==
    [rndis[i] EXCEPT !.used = TRUE, !.id = id, !.link_up = FALSE, !.io_failures = 0]

Registers(r) == ~r.registered

find_rndis_interfaces(device) == device \in Phones

\* The bulk endpoints of the device are configured, when it `succeeds'.
xhci_configure_bulk_interface(id, succeeds) ==
    bulk' = [p \in Ports |-> bulk[p] \/ (succeeds /\ p \in PortOf(id))]

\* An adapter for runtime i, unless the table is full.
net_device_register(i, device) ==
    IF Len(net_devices) = ROOT_NET_DEVICE_MAX THEN net_devices
    ELSE Append(net_devices, [runtime |-> i, mac |-> device])

\* The session comes up.  An adapter that cannot be registered is not used.
SessionUp(i, id) ==
    /\ Reachable(id)
    /\ xhci_configure_bulk_interface(id, ~rndis[i].configured)
    /\ \E link \in BOOLEAN :
         LET r == [Fresh(i, id) EXCEPT !.configured = TRUE, !.link_up = link]
             full == Registers(r) /\ Len(net_devices) = ROOT_NET_DEVICE_MAX
         IN  /\ rndis' = [rndis EXCEPT ![i] = [r EXCEPT !.ready = ~full, !.registered = ~full]]
             /\ net_devices' =
                  IF Registers(r) THEN net_device_register(i, usb_devices[id]) ELSE net_devices
    /\ UNCHANGED faults

\* It does not: the endpoints cannot be configured, or a later request fails.
SessionFails(i, id, configured) ==
    /\ IF Reachable(id) THEN faults < MaxFaults /\ faults' = faults + 1
       ELSE UNCHANGED faults /\ configured = rndis[i].configured
    /\ rndis[i].configured => configured
    /\ rndis' = [rndis EXCEPT ![i] = [Fresh(i, id) EXCEPT !.configured = configured]]
    /\ xhci_configure_bulk_interface(id, configured /\ ~rndis[i].configured)
    /\ UNCHANGED net_devices

\* Whether initialize_device talks to the device at all.
Initializes(id) ==
    /\ find_rndis_interfaces(usb_devices[id])
    /\ RuntimesOf(id) # {}
    /\ ~rndis[Least(RuntimesOf(id))].ready

\* initialize_device(id).  A failure starts the timers in `retry'.
initialize_device(id, retry) ==
    LET i == Least(RuntimesOf(id))
    IN  \/ /\ Initializes(id)
           /\ SessionUp(i, id) /\ waiting' = waiting \ {<<"runtime", i>>}
        \/ /\ Initializes(id)
           /\ \E c \in BOOLEAN : SessionFails(i, id, c)
           /\ waiting' = (waiting \ {<<"runtime", i>>}) \cup retry
        \/ /\ ~Initializes(id)
           /\ waiting' = IF find_rndis_interfaces(usb_devices[id]) THEN waiting
                       ELSE waiting \cup retry
           /\ UNCHANGED <<bulk, rndis, net_devices, faults>>

\* An iteration of usb_service: the listeners hear of a new device.
DeviceAdded ==
    /\ Task("added")
    /\ usb_pending_add' = [usb_pending_add EXCEPT ![Arg] = FALSE]
    /\ IF usb_pending_add[Arg] THEN initialize_device(Arg, {})
       ELSE UNCHANGED <<bulk, rndis, net_devices, waiting, faults>>
    /\ Done
    /\ UNCHANGED <<physical, running, port_usb_id, addressed, reprobe, attempts, usb_devices,
                   blocks, plugs>>

\* An iteration of rndis_probe_all.
Probe ==
    /\ Task("probe")
    /\ initialize_device(Arg, {})
    /\ Done
    /\ UNCHANGED <<physical, running, port_usb_id, addressed, reprobe, attempts, inventory,
                   blocks, plugs>>

\* Mutant: only a session whose endpoints are configured is tried again.
RetryConfigured(i) ==
    ~rndis[i].ready /\ rndis[i].configured /\ <<"runtime", i>> \notin waiting

\* A session that went down is brought up again once its delay is over.
RetryDue(i) == ~rndis[i].ready /\ <<"runtime", i>> \notin waiting

\* An iteration of rndis_service.
ServiceRuntime ==
    /\ Task("runtime")
    /\ LET r == rndis[Arg]
           gone == r.used /\ usb_devices[r.id] = None
           stops == gone /\ (r.ready \/ r.link_up)
           retries == r.used /\ ~gone /\ RetryDue(Arg)
       IN  \/ /\ stops
              /\ rndis_usb_removed({r.id}, {})
              /\ UNCHANGED <<bulk, net_devices, faults>>
           \/ retries /\ initialize_device(r.id, {<<"runtime", Arg>>})
           \/ /\ ~stops /\ ~retries
              /\ UNCHANGED <<bulk, rndis, net_devices, waiting, faults>>
    /\ Done
    /\ UNCHANGED <<physical, running, port_usb_id, addressed, reprobe, attempts, inventory,
                   blocks, plugs>>
-----------------------------------------------------------------------------
(* Commands.                                                               *)

Command == Task("command")

NoCommand ==
    /\ Command /\ Done
    /\ UNCHANGED <<physical, running, ports, inventory, rndis, net_devices, blocks, waiting,
                   plugs, faults>>

Services == usb_service \o rndis_service \o rndis_probe_all

\* usb_reset_inventory, with the runtimes of the ids in S told.
usb_reset_inventory(S) ==
    /\ rndis_usb_removed(S, {})
    /\ usb_devices' = [id \in Ids |-> None] /\ usb_pending_add' = [id \in Ids |-> FALSE]

\* The controller's tables are cleared and its ports reset.
ControllerReset ==
    /\ port_usb_id' = [p \in Ports |-> -1] /\ addressed' = [p \in Ports |-> None]
    /\ bulk' = [p \in Ports |-> FALSE] /\ reprobe' = [p \in Ports |-> FALSE]
    /\ attempts' = [p \in Ports |-> 0]
    /\ enabled' = [p \in Ports |-> FALSE] /\ pec' = [p \in Ports |-> FALSE]
    /\ csc' = [p \in Ports |-> Connected(p)]

\* Then it runs and its ports are scanned, or it fails to start.
xhci_controller_setup(after) ==
    /\ ControllerReset
    /\ \/ /\ running' = TRUE
          /\ todo' = Tasks("scan", MAX_PORTS, 1) \o after \o Tail(todo)
          /\ UNCHANGED faults
       \/ /\ faults < MaxFaults /\ faults' = faults + 1
          /\ running' = FALSE /\ todo' = Tail(todo)

\* xhci_start and xhci_rescan.  The runtimes of the ids in S are told, `after'
\* is what follows a start.
Restart(S, after) ==
    /\ usb_reset_inventory(S)
    /\ xhci_controller_setup(after)
    /\ UNCHANGED <<plugged, net_devices, plugs>>

\* rndis_invalidate_all and xhci_rescan.
UsbRescan == Command /\ Restart(Ids, Services) /\ UNCHANGED blocks

UsedIds == Ids \ FreeIds

\* The commands usb start and usb list.
UsbStart ==
    /\ Command /\ ~running
    /\ \E after \in {rndis_probe_all, Services} : Restart(UsedIds, after)
    /\ UNCHANGED blocks

\* The commands usb start, when the controller runs already, and rndis.
UsbProbe ==
    /\ Command
    /\ \E after \in {rndis_probe_all, Services} : todo' = after \o Tail(todo)
    /\ UNCHANGED <<physical, running, ports, inventory, rndis, net_devices, blocks, waiting,
                   plugs, faults>>

\* An iteration of xhci_scan_ports.
ScanPort ==
    /\ Task("scan") /\ Done
    /\ xhci_enumerate_port(Arg) \/ EnumerateFails(Arg)
    /\ UNCHANGED <<plugged, csc, pec, running, reprobe, attempts, rndis, net_devices, blocks,
                   waiting, plugs>>

block_device_remove_bus == blocks' = {}

\* usb_mass_storage_scan starts a controller that does not run.
UsbStorage ==
    /\ Command /\ block_device_remove_bus
    /\ LET scan == Tasks("mass", USB_MAX_DEVICES, 0)
       IN  \/ ~running /\ Restart(UsedIds, scan)
           \/ /\ running
              /\ todo' = scan \o Tail(todo)
              /\ UNCHANGED <<physical, running, ports, inventory, rndis, net_devices, waiting,
                             plugs, faults>>

\* A stick for which mass_alloc has a slot.
mass_find_interface(device) ==
    device \in Sticks /\ Cardinality(blocks) < USB_MASS_MAX_DEVICES

\* The stick answers and gets a block device, or one of the requests fails.
StickRegistered(id) ==
    /\ Reachable(id)
    /\ xhci_configure_bulk_interface(id, TRUE)
    /\ blocks' = blocks \cup {<<id, usb_devices[id]>>}
    /\ UNCHANGED faults

StickFails(id) ==
    /\ IF Reachable(id) THEN faults < MaxFaults /\ faults' = faults + 1 ELSE UNCHANGED faults
    /\ \E ok \in {FALSE, Reachable(id)} : xhci_configure_bulk_interface(id, ok)
    /\ UNCHANGED blocks

\* An iteration of its loop.
ScanStorage ==
    /\ Task("mass") /\ Done
    /\ IF mass_find_interface(usb_devices[Arg])
       THEN StickRegistered(Arg) \/ StickFails(Arg)
       ELSE UNCHANGED <<bulk, blocks, faults>>
    /\ UNCHANGED <<physical, running, port_usb_id, addressed, reprobe, attempts, inventory,
                   rndis, net_devices, waiting, plugs>>

-----------------------------------------------------------------------------
(* Frames of the network stack, sent and received through an adapter.      *)

Transfers(id) == Reachable(id) /\ \E p \in PortOf(id) : bulk[p]

mark_transport_success(i) ==
    /\ rndis' = [rndis EXCEPT ![i].io_failures = 0]
    /\ UNCHANGED <<waiting, faults>>

mark_transport_failure(i) ==
    LET r == [rndis[i] EXCEPT !.io_failures = @ + 1]
        limit == r.io_failures >= RNDIS_IO_FAILURE_LIMIT
    IN  /\ IF Transfers(r.id) THEN faults < MaxFaults /\ faults' = faults + 1
           ELSE UNCHANGED faults
        /\ rndis' = [rndis EXCEPT ![i] =
                       IF limit THEN [r EXCEPT !.ready = FALSE, !.link_up = FALSE] ELSE r]
        /\ waiting' = IF limit THEN waiting \cup {<<"runtime", i>>} ELSE waiting

Adapters == {net_devices[k].runtime : k \in DOMAIN net_devices}

rndis_net_send ==
    /\ Command /\ Done
    /\ \E i \in Adapters :
         /\ rndis[i].ready
         /\ \/ Transfers(rndis[i].id) /\ mark_transport_success(i)
            \/ mark_transport_failure(i)
    /\ UNCHANGED <<physical, running, ports, inventory, net_devices, blocks, plugs>>

\* xhci_bulk_receive_poll looks at the ports before it looks for its transfer.
rndis_net_receive ==
    /\ Command
    /\ \E i \in Adapters :
         rndis[i].ready /\ todo' = xhci_poll \o <<<<"receive", i>>>> \o Tail(todo)
    /\ UNCHANGED <<physical, running, ports, inventory, rndis, net_devices, blocks, waiting,
                   plugs, faults>>

\* A frame came, none came yet, or the transfer failed.
Received ==
    /\ Task("receive") /\ Done
    /\ \/ Transfers(rndis[Arg].id) /\ mark_transport_success(Arg)
       \/ /\ \E p \in PortOf(rndis[Arg].id) : bulk[p]
          /\ UNCHANGED <<rndis, waiting, faults>>
       \/ mark_transport_failure(Arg)
    /\ UNCHANGED <<physical, running, ports, inventory, net_devices, blocks, plugs>>

-----------------------------------------------------------------------------
(* The environment: hands, cables and time.                                *)

AtPort(p) ==
    /\ plugs < MaxPlugs /\ plugs' = plugs + 1
    /\ enabled' = [enabled EXCEPT ![p] = FALSE]
    /\ UNCHANGED <<running, ports, inventory, rndis, net_devices, blocks, waiting, todo, faults>>

Plug(p, d) ==
    /\ plugged[p] = None /\ \A q \in Ports : plugged[q] # d
    /\ AtPort(p)
    /\ plugged' = [plugged EXCEPT ![p] = d]
    /\ csc' = [csc EXCEPT ![p] = TRUE] /\ UNCHANGED pec

Unplug(p) ==
    /\ Connected(p)
    /\ AtPort(p)
    /\ plugged' = [plugged EXCEPT ![p] = None]
    /\ csc' = [csc EXCEPT ![p] = TRUE] /\ UNCHANGED pec

\* The controller disables a port after an error on the bus.
PortError(p) ==
    /\ Connected(p) /\ enabled[p]
    /\ AtPort(p)
    /\ pec' = [pec EXCEPT ![p] = TRUE] /\ UNCHANGED <<plugged, csc>>

Timers == ({"port"} \X Ports) \cup ({"runtime"} \X Runtimes)

TimerEnds(t) ==
    /\ t \in waiting /\ waiting' = waiting \ {t}
    /\ UNCHANGED <<physical, running, ports, inventory, rndis, net_devices, blocks, todo, plugs,
                   faults>>

-----------------------------------------------------------------------------
Init ==
    /\ plugged = [p \in Ports |-> None] /\ enabled = [p \in Ports |-> FALSE]
    /\ csc = [p \in Ports |-> FALSE] /\ pec = [p \in Ports |-> FALSE]
    /\ running = TRUE
    /\ port_usb_id = [p \in Ports |-> -1] /\ addressed = [p \in Ports |-> None]
    /\ bulk = [p \in Ports |-> FALSE] /\ reprobe = [p \in Ports |-> FALSE]
    /\ attempts = [p \in Ports |-> 0]
    /\ usb_devices = [id \in Ids |-> None] /\ usb_pending_add = [id \in Ids |-> FALSE]
    /\ rndis = [i \in Runtimes |-> FreeRuntime] /\ net_devices = <<>> /\ blocks = {}
    /\ waiting = {} /\ todo = <<>> /\ plugs = 0 /\ faults = 0

Loop == shell_run \/ PollPort \/ DeviceAdded \/ ServiceRuntime
Scan == Probe \/ ScanPort \/ ScanStorage
Commands == NoCommand \/ UsbRescan \/ UsbStart \/ UsbProbe \/ UsbStorage
Frame == Received \/ rndis_net_send \/ rndis_net_receive
Kernel == Loop \/ Scan \/ Commands \/ Frame

Environment ==
    \/ \E p \in Ports : Unplug(p) \/ PortError(p) \/ \E d \in Devices : Plug(p, d)
    \/ \E t \in Timers : TimerEnds(t)

Next == Kernel \/ Environment

Spec == Init /\ [][Next]_vars

\* The kernel goes on with its work and delays end.  Nothing is assumed of
\* the devices, and no command is ever given unless the user likes to.
FairSpec == Spec /\ WF_vars(Kernel) /\ \A t \in Timers : WF_vars(TimerEnds(t))
-----------------------------------------------------------------------------
(* Properties.                                                             *)

\* Every table keeps its shape and the failure counters keep their limits.
TypeOK ==
    /\ plugged \in [Ports -> Devices \cup {None}] /\ addressed \in [Ports -> Devices \cup {None}]
    /\ {enabled, csc, pec, bulk, reprobe} \subseteq [Ports -> BOOLEAN]
    /\ running \in BOOLEAN
    /\ port_usb_id \in [Ports -> Ids \cup {-1}]
    /\ attempts \in [Ports -> 0 .. REPROBES]
    /\ usb_devices \in [Ids -> Devices \cup {None}] /\ usb_pending_add \in [Ids -> BOOLEAN]
    /\ rndis \in [Runtimes -> Runtime]
    /\ net_devices \in Seq([runtime : Runtimes, mac : Phones])
    /\ Len(net_devices) <= ROOT_NET_DEVICE_MAX
    /\ blocks \subseteq Ids \X Sticks /\ Cardinality(blocks) <= USB_MASS_MAX_DEVICES
    /\ waiting \subseteq Timers
    /\ plugs \in 0 .. MaxPlugs /\ faults \in 0 .. MaxFaults

\* The inventory of usb.c and the port tables of xhci.c agree through every
\* detach, enumeration and rescan: a used id belongs to exactly one port, and
\* names the device that was addressed there.
InventoryMatchesPorts ==
    /\ TypeOK
    /\ \A p \in Ports : port_usb_id[p] # -1 =>
         usb_devices[port_usb_id[p]] = addressed[p] /\ addressed[p] # None
    /\ \A id \in Ids : usb_devices[id] # None => Cardinality(PortOf(id)) = 1

\* An RNDIS runtime whose usb_configured is set has its bulk endpoints on the
\* port that its id names now, although ids are reused; a ready one is a phone,
\* and no two share an id.  initialize_device does not configure them again.
\* However often phones come back, a runtime has at most one network adapter,
\* has it exactly when `registered' is set, and is never ready without it.
ReadyIsAttached ==
    /\ \A j, k \in DOMAIN net_devices : net_devices[j].runtime = net_devices[k].runtime => j = k
    /\ \A i \in Runtimes :
         /\ rndis[i].configured => \E p \in PortOf(rndis[i].id) : bulk[p]
         /\ rndis[i].ready => /\ rndis[i].configured
                              /\ usb_devices[rndis[i].id] \in Phones
         /\ \A j \in Runtimes \ {i} : rndis[i].used /\ rndis[j].used => rndis[i].id # rndis[j].id
         /\ rndis[i].registered <=> i \in Adapters
         /\ rndis[i].ready => rndis[i].registered

\* xhci_poll notices when a port has been emptied: the device leaves the tables
\* or the port is used again first.
UnplugSeen ==
    \A p \in Ports :
      (port_usb_id[p] # -1 /\ ~Connected(p)) ~> (port_usb_id[p] = -1 \/ Connected(p))

\* A session that can come up does, and one that broke comes back by itself
\* (usb_service, rndis_service): a phone in the inventory that can be reached
\* gets a ready runtime, unless it is unplugged or a table is full.
SessionComesUp ==
    \A id \in Ids :
      (usb_devices[id] \in Phones /\ Reachable(id))
        ~> \/ \E i \in Runtimes : rndis[i].ready /\ rndis[i].id = id
           \/ ~Reachable(id) \/ RuntimesOf(id) = {}
           \/ /\ Len(net_devices) = ROOT_NET_DEVICE_MAX
              /\ ~rndis[Least(RuntimesOf(id))].registered

\* A device that is plugged in while the controller runs is enumerated without
\* a rescan (with no failing device and a free id).  Does not hold.
PlugSeen ==
    \A p \in Ports :
      (Connected(p) /\ running) ~>
        (enabled[p] /\ addressed[p] = plugged[p]) \/ ~Connected(p) \/ ~running \/ FreeIds = {}
=============================================================================
