----------------------------- MODULE UsbProofs -----------------------------
(***************************************************************************)
(* Proofs about USB hotplug, for any number of ports, ids, runtimes,       *)
(* adapters, block devices and devices: the inventory agrees with the port *)
(* tables, and an RNDIS session is attached to the port its id names now.  *)
(***************************************************************************)
EXTENDS Usb, FiniteSetTheorems, SequenceTheorems, WellFoundedInduction, TLAPS

-----------------------------------------------------------------------------
(* What holds in every state.                                              *)

PhysicalTypes(plug, enable, change, lost, runs) ==
    /\ plug \in [Ports -> Devices \cup {None}]
    /\ enable \in [Ports -> BOOLEAN] /\ change \in [Ports -> BOOLEAN]
    /\ lost \in [Ports -> BOOLEAN] /\ runs \in BOOLEAN

PortTypes(port, address, endpoints, again, tries) ==
    /\ port \in [Ports -> Ids \cup {-1}] /\ address \in [Ports -> Devices \cup {None}]
    /\ endpoints \in [Ports -> BOOLEAN] /\ again \in [Ports -> BOOLEAN]
    /\ tries \in [Ports -> 0 .. REPROBES]
    /\ \A p \in Ports : again[p] => tries[p] < REPROBES

InventoryTypes(devices, added) ==
    devices \in [Ids -> Devices \cup {None}] /\ added \in [Ids -> BOOLEAN]

SessionTypes(r, adapters, timers) ==
    /\ r \in [Runtimes -> Runtime] /\ timers \subseteq Timers
    /\ adapters \in Seq([runtime : Runtimes, mac : Phones])
    /\ Len(adapters) <= ROOT_NET_DEVICE_MAX

BlockTypes(b) ==
    b \subseteq Ids \X Sticks /\ IsFiniteSet(b) /\ Cardinality(b) <= USB_MASS_MAX_DEVICES

CountTypes(n, m) == n \in 0 .. MaxPlugs /\ m \in 0 .. MaxFaults

\* The ids of the ports are those of the inventory, each at one port.
PortTables(port, address, devices) ==
    /\ \A p \in Ports : port[p] # -1 => devices[port[p]] = address[p] /\ address[p] # None
    /\ \A p, q \in Ports : port[p] # -1 /\ port[p] = port[q] => p = q
    /\ \A id \in Ids : devices[id] # None => \E p \in Ports : port[p] = id

\* A runtime that is not used has never been configured, so initialize_device
\* finds the endpoints of a configured one at the port its id names.  A ready
\* one has not reached the limit of its failures.
Sessions(r, port, endpoints, devices) ==
    \A i \in Runtimes :
      /\ r[i].configured => r[i].used /\ \E p \in Ports : port[p] = r[i].id /\ endpoints[p]
      /\ r[i].ready => /\ r[i].configured /\ devices[r[i].id] \in Phones
                       /\ r[i].io_failures < RNDIS_IO_FAILURE_LIMIT
      /\ \A j \in Runtimes \ {i} : r[i].used /\ r[j].used => r[i].id # r[j].id

Registered(r, adapters) ==
    /\ \A j, k \in DOMAIN adapters : adapters[j].runtime = adapters[k].runtime => j = k
    /\ \A i \in Runtimes : r[i].registered <=> \E k \in DOMAIN adapters : adapters[k].runtime = i
    /\ \A i \in Runtimes : r[i].ready => r[i].registered

AllTasks ==
    ({"port", "scan"} \X Ports) \cup ({"added", "probe", "mass"} \X Ids)
      \cup ({"runtime", "receive"} \X Runtimes) \cup {<<"command", 0>>}

\* A command and the receiving of a frame end a pass.  Only tasks of the ports
\* come before the latter, and a scan has no such task and each port once.
TodoOK(s) ==
    /\ s \in Seq(AllTasks)
    /\ \A k \in DOMAIN s : s[k][1] \in {"command", "receive"} => k = Len(s)
    /\ \A j, k \in DOMAIN s : s[k][1] = "receive" => s[j][1] \in {"port", "receive"}
    /\ \A j, k \in DOMAIN s : s[k][1] = "scan" => s[j][1] # "port" /\ (s[j] = s[k] => j = k)

\* A port still to be scanned has no device, and a runtime still to receive
\* has not reached the limit of its failures.
Pending(s, port, r) ==
    \A k \in DOMAIN s :
      /\ s[k][1] = "scan" => port[s[k][2]] = -1
      /\ s[k][1] = "receive" => r[s[k][2]].io_failures < RNDIS_IO_FAILURE_LIMIT

UsbInv ==
    /\ PhysicalTypes(plugged, enabled, csc, pec, running)
    /\ PortTypes(port_usb_id, addressed, bulk, reprobe, attempts)
    /\ InventoryTypes(usb_devices, usb_pending_add)
    /\ SessionTypes(rndis, net_devices, waiting)
    /\ BlockTypes(blocks) /\ CountTypes(plugs, faults)
    /\ PortTables(port_usb_id, addressed, usb_devices)
    /\ Sessions(rndis, port_usb_id, bulk, usb_devices)
    /\ Registered(rndis, net_devices)
    /\ TodoOK(todo) /\ Pending(todo, port_usb_id, rndis)

-----------------------------------------------------------------------------
(* The work left.                                                          *)

LEMMA LeastFact == ASSUME NEW S \in SUBSET Nat, S # {} PROVE Least(S) \in S
<1>1. PICK R : R = OpToRel(<, Nat) OBVIOUS
<1>2. IsWellFoundedOn(R, Nat) BY <1>1, NatLessThanWellFounded
<1>3. \A i, j \in Nat : j < i => <<j, i>> \in R BY <1>1 DEF OpToRel
<1>4. PICK i \in S : \A j \in S : ~(<<j, i>> \in R) BY <1>2, WFMin
<1>5. \A j \in S : j \in Nat /\ i \in Nat /\ ~(j < i) BY <1>3, <1>4
<1>6. \A j \in S : i <= j BY <1>5
<1> QED BY <1>6 DEF Least

LEMMA UsbConstants ==
    /\ MAX_PORTS \in Nat \ {0} /\ USB_MAX_DEVICES \in Nat \ {0} /\ RNDIS_MAX_DEVICES \in Nat \ {0}
    /\ ROOT_NET_DEVICE_MAX \in Nat \ {0} /\ USB_MASS_MAX_DEVICES \in Nat \ {0}
    /\ RNDIS_IO_FAILURE_LIMIT \in Nat \ {0} /\ REPROBES \in Nat \ {0}
    /\ MaxPlugs \in Nat /\ MaxFaults \in Nat
    /\ None \notin Devices /\ Phones \subseteq Devices /\ Sticks \subseteq Devices
    /\ Phones \cap Sticks = {} /\ Ids \subseteq Nat /\ Runtimes \subseteq Nat /\ -1 \notin Ids
  BY UsbAssumption DEF Devices, Ids, Runtimes

LEMMA TaskKinds ==
    ASSUME NEW t \in AllTasks
    PROVE  /\ t[1] \in {"port", "scan"} => t[2] \in Ports
           /\ t[1] \in {"added", "probe", "mass"} => t[2] \in Ids
           /\ t[1] \in {"runtime", "receive"} => t[2] \in Runtimes
           /\ t = <<t[1], t[2]>>
  BY DEF AllTasks

\* The rest of the work after its first task.
LEMMA TailFact ==
    ASSUME NEW s, TodoOK(s), s # <<>>
    PROVE  /\ s[1] \in AllTasks /\ Head(s) = s[1] /\ TodoOK(Tail(s))
           /\ \A k \in DOMAIN Tail(s) : k + 1 \in DOMAIN s /\ k + 1 # 1 /\ Tail(s)[k] = s[k + 1]
           /\ s[1][1] \in {"command", "receive"} => Tail(s) = <<>>
<1>1. s \in Seq(AllTasks) BY DEF TodoOK
<1>2. PICK n \in Nat : n = Len(s) /\ n > 0 /\ DOMAIN s = 1 .. n BY <1>1
<1>3. s[1] \in AllTasks /\ Head(s) = s[1] BY <1>1, <1>2
<1>4. PICK t \in Seq(AllTasks) : t = Tail(s) BY <1>1, HeadTailProperties
<1>5. Len(t) = n - 1 /\ DOMAIN t = 1 .. n - 1 BY <1>1, <1>2, <1>4
<1>6. \A k \in DOMAIN t : k + 1 \in DOMAIN s /\ k + 1 # 1 /\ t[k] = s[k + 1]
  BY <1>1, <1>2, <1>4, <1>5
<1>7. TodoOK(t)
  <2>1. \A k \in DOMAIN t : t[k][1] \in {"command", "receive"} => k = Len(t)
    BY <1>2, <1>5, <1>6 DEF TodoOK
  <2>2. \A j, k \in DOMAIN t : t[k][1] = "receive" => t[j][1] \in {"port", "receive"}
    BY <1>6 DEF TodoOK
  <2>3. \A j, k \in DOMAIN t :
          t[k][1] = "scan" => t[j][1] # "port" /\ (t[j] = t[k] => j = k)
    <3> SUFFICES ASSUME NEW j \in DOMAIN t, NEW k \in DOMAIN t, t[k][1] = "scan"
                 PROVE  t[j][1] # "port" /\ (t[j] = t[k] => j = k)
      OBVIOUS
    <3>1. t[j] = s[j + 1] /\ t[k] = s[k + 1] /\ j + 1 \in DOMAIN s /\ k + 1 \in DOMAIN s
      BY <1>6
    <3>2. t[j][1] # "port" /\ (t[j] = t[k] => j + 1 = k + 1) BY <3>1 DEF TodoOK
    <3> QED BY <3>2, <1>5
  <2> QED BY <2>1, <2>2, <2>3 DEF TodoOK
<1>8. s[1][1] \in {"command", "receive"} => t = <<>>
  <2>1. s[1][1] \in {"command", "receive"} => n = 1 BY <1>2 DEF TodoOK
  <2> QED BY <2>1, <1>4, <1>5
<1> QED BY <1>3, <1>4, <1>6, <1>7, <1>8

LEMMA TasksFact ==
    ASSUME NEW name, NEW n \in Nat, NEW first \in Nat,
           NEW S, \A k \in first .. first + n - 1 : <<name, k>> \in S
    PROVE  /\ Tasks(name, n, first) \in Seq(S) /\ DOMAIN Tasks(name, n, first) = 1 .. n
           /\ \A k \in 1 .. n : Tasks(name, n, first)[k] = <<name, k - 1 + first>>
<1>1. \A k \in 1 .. n : k - 1 + first \in first .. first + n - 1 OBVIOUS
<1>2. \A k \in 1 .. n : <<name, k - 1 + first>> \in S BY <1>1
<1>3. Tasks(name, n, first) = [k \in 1 .. n |-> <<name, k - 1 + first>>] BY DEF Tasks
<1>4. Tasks(name, n, first) \in [1 .. n -> S] BY <1>2, <1>3
<1>5. Tasks(name, n, first) \in Seq(S) BY <1>4, SeqDef
<1> QED BY <1>3, <1>5

LEMMA JoinFact ==
    ASSUME NEW S, NEW s \in Seq(S), NEW t \in Seq(S)
    PROVE  /\ s \o t \in Seq(S) /\ Len(s \o t) = Len(s) + Len(t)
           /\ \A k \in DOMAIN (s \o t) :
                \/ k \in DOMAIN s /\ (s \o t)[k] = s[k]
                \/ k - Len(s) \in DOMAIN t /\ (s \o t)[k] = t[k - Len(s)]
  OBVIOUS

\* Work of some kinds only.
Kinds(s, names) == s \in Seq(AllTasks) /\ \A k \in DOMAIN s : s[k][1] \in names

DeviceKinds == {"added", "runtime", "probe", "mass"}

LEMMA JoinKinds ==
    ASSUME NEW s, NEW t, NEW names, Kinds(s, names), Kinds(t, names)
    PROVE  Kinds(s \o t, names)
<1>1. s \in Seq(AllTasks) /\ t \in Seq(AllTasks) BY DEF Kinds
<1>2. PICK u \in Seq(AllTasks) : u = s \o t BY <1>1, JoinFact
<1>3. \A k \in DOMAIN u : u[k][1] \in names
  <2> SUFFICES ASSUME NEW k \in DOMAIN u PROVE u[k][1] \in names OBVIOUS
  <2>1. \/ k \in DOMAIN s /\ u[k] = s[k]
        \/ k - Len(s) \in DOMAIN t /\ u[k] = t[k - Len(s)]
    BY <1>1, <1>2, JoinFact
  <2> QED BY <2>1 DEF Kinds
<1> QED BY <1>2, <1>3 DEF Kinds

LEMMA TasksKind ==
    ASSUME NEW name, NEW n \in Nat, NEW first \in Nat,
           \A k \in first .. first + n - 1 : <<name, k>> \in AllTasks
    PROVE  Kinds(Tasks(name, n, first), {name})
<1>1. PICK t : t = Tasks(name, n, first) OBVIOUS
<1>2. /\ t \in Seq(AllTasks) /\ DOMAIN t = 1 .. n
      /\ \A k \in 1 .. n : t[k] = <<name, k - 1 + first>>
  BY <1>1, TasksFact
<1> QED BY <1>1, <1>2 DEF Kinds

LEMMA PassKinds ==
    /\ Kinds(Tasks("port", MAX_PORTS, 1), {"port"})
    /\ Kinds(Tasks("scan", MAX_PORTS, 1), {"scan"})
    /\ Kinds(usb_service, {"added"}) /\ Kinds(rndis_service, {"runtime"})
    /\ Kinds(rndis_probe_all, {"probe"}) /\ Kinds(Tasks("mass", USB_MAX_DEVICES, 0), {"mass"})
    /\ Kinds(<<>>, {})
<1>1. ASSUME NEW name \in {"port", "scan"} PROVE Kinds(Tasks(name, MAX_PORTS, 1), {name})
  <2>1. \A k \in 1 .. 1 + MAX_PORTS - 1 : <<name, k>> \in AllTasks
    BY UsbConstants DEF AllTasks, Ports
  <2>2. MAX_PORTS \in Nat /\ 1 \in Nat BY UsbConstants
  <2> QED BY <2>1, <2>2, TasksKind
<1>2. ASSUME NEW name \in {"added", "probe", "mass"}
      PROVE  Kinds(Tasks(name, USB_MAX_DEVICES, 0), {name})
  <2>1. \A k \in 0 .. 0 + USB_MAX_DEVICES - 1 : <<name, k>> \in AllTasks
    BY UsbConstants DEF AllTasks, Ids
  <2>2. USB_MAX_DEVICES \in Nat /\ 0 \in Nat BY UsbConstants
  <2> QED BY <2>1, <2>2, TasksKind
<1>3. Kinds(Tasks("runtime", RNDIS_MAX_DEVICES, 1), {"runtime"})
  <2>1. \A k \in 1 .. 1 + RNDIS_MAX_DEVICES - 1 : <<"runtime", k>> \in AllTasks
    BY UsbConstants DEF AllTasks, Runtimes
  <2>2. RNDIS_MAX_DEVICES \in Nat /\ 1 \in Nat BY UsbConstants
  <2> QED BY <2>1, <2>2, TasksKind
<1>4. Kinds(<<>>, {}) BY EmptySeq DEF Kinds
<1> QED BY <1>1, <1>2, <1>3, <1>4 DEF usb_service, rndis_service, rndis_probe_all

LEMMA MoreKinds ==
    ASSUME NEW s, NEW names, NEW more, Kinds(s, names), names \subseteq more
    PROVE  Kinds(s, more)
  BY DEF Kinds

LEMMA ServicesKinds ==
    /\ Kinds(rndis_probe_all, DeviceKinds) /\ Kinds(Services, DeviceKinds)
    /\ Kinds(Tasks("mass", USB_MAX_DEVICES, 0), DeviceKinds)
<1>1. {"added"} \subseteq DeviceKinds /\ {"runtime"} \subseteq DeviceKinds
      /\ {"probe"} \subseteq DeviceKinds /\ {"mass"} \subseteq DeviceKinds
  BY DEF DeviceKinds
<1>2. Kinds(usb_service, DeviceKinds) /\ Kinds(rndis_service, DeviceKinds)
      /\ Kinds(rndis_probe_all, DeviceKinds)
      /\ Kinds(Tasks("mass", USB_MAX_DEVICES, 0), DeviceKinds)
  BY <1>1, PassKinds, MoreKinds
<1>3. Kinds(usb_service \o rndis_service, DeviceKinds) BY <1>2, JoinKinds
<1> QED BY <1>2, <1>3, JoinKinds DEF Services

\* Device work needs nothing of the ports.
LEMMA DeviceWork ==
    ASSUME NEW s, Kinds(s, DeviceKinds), NEW port, NEW r
    PROVE  TodoOK(s) /\ Pending(s, port, r) /\ s \o <<>> = s
<1>1. s \in Seq(AllTasks) /\ \A k \in DOMAIN s : s[k][1] \in DeviceKinds BY DEF Kinds
<1>2. s \o <<>> = s BY <1>1, ConcatEmptySeq
<1> QED BY <1>1, <1>2 DEF TodoOK, Pending, DeviceKinds

\* A scan of all ports and what follows it.
LEMMA ScanWork ==
    ASSUME NEW s, Kinds(s, DeviceKinds), NEW r, NEW port, \A p \in Ports : port[p] = -1,
           NEW t, t = Tasks("scan", MAX_PORTS, 1) \o s \o <<>>
    PROVE  TodoOK(t) /\ Pending(t, port, r)
<1>1. PICK scan \in Seq(AllTasks) :
        /\ scan = Tasks("scan", MAX_PORTS, 1) /\ DOMAIN scan = 1 .. MAX_PORTS
        /\ \A k \in 1 .. MAX_PORTS : scan[k] = <<"scan", k>>
  <2>1. MAX_PORTS \in Nat /\ 1 \in Nat BY UsbConstants
  <2>2. \A k \in 1 .. 1 + MAX_PORTS - 1 : <<"scan", k>> \in AllTasks
    BY UsbConstants DEF AllTasks, Ports
  <2>3. /\ Tasks("scan", MAX_PORTS, 1) \in Seq(AllTasks)
        /\ DOMAIN Tasks("scan", MAX_PORTS, 1) = 1 .. MAX_PORTS
        /\ \A k \in 1 .. MAX_PORTS : Tasks("scan", MAX_PORTS, 1)[k] = <<"scan", k - 1 + 1>>
    BY <2>1, <2>2, TasksFact
  <2>4. \A k \in 1 .. MAX_PORTS : k - 1 + 1 = k OBVIOUS
  <2> QED BY <2>3, <2>4
<1>2. s \in Seq(AllTasks) /\ \A k \in DOMAIN s : s[k][1] \in DeviceKinds BY DEF Kinds
<1>3. t = scan \o s /\ t \in Seq(AllTasks) BY <1>1, <1>2, JoinFact, ConcatEmptySeq
<1>4. ASSUME NEW k \in DOMAIN t
      PROVE  \/ k \in 1 .. MAX_PORTS /\ t[k] = <<"scan", k>>
             \/ t[k][1] \in DeviceKinds
  <2>1. \/ k \in DOMAIN scan /\ t[k] = scan[k]
        \/ k - Len(scan) \in DOMAIN s /\ t[k] = s[k - Len(scan)]
    BY <1>1, <1>2, <1>3, JoinFact
  <2> QED BY <1>1, <1>2, <2>1
<1>5. \A k \in DOMAIN t : t[k][1] \notin {"command", "receive", "port"}
  BY <1>4 DEF DeviceKinds
<1>6. \A k \in DOMAIN t : t[k][1] = "scan" => k \in Ports /\ t[k] = <<"scan", k>>
  BY <1>4 DEF DeviceKinds, Ports
<1>7. \A j, k \in DOMAIN t : t[k][1] = "scan" /\ t[j] = t[k] => j = k
  <2> SUFFICES ASSUME NEW j \in DOMAIN t, NEW k \in DOMAIN t, t[k][1] = "scan", t[j] = t[k]
               PROVE  j = k
    OBVIOUS
  <2>1. t[j] = <<"scan", j>> /\ t[k] = <<"scan", k>> BY <1>6
  <2> QED BY <2>1
<1>8. TodoOK(t) BY <1>3, <1>5, <1>7 DEF TodoOK
<1>9. Pending(t, port, r) BY <1>5, <1>6 DEF Pending
<1> QED BY <1>8, <1>9

\* The last task of a pass.
LEMMA LastTask ==
    ASSUME NEW s, NEW names, Kinds(s, names), names \subseteq {"port"} \cup DeviceKinds,
           NEW x \in AllTasks, x[1] \in {"command", "receive"},
           x[1] = "receive" => names \subseteq {"port"},
           NEW port, NEW r,
           x[1] = "receive" => r[x[2]].io_failures < RNDIS_IO_FAILURE_LIMIT
    PROVE  TodoOK(s \o <<x>>) /\ Pending(s \o <<x>>, port, r)
<1>1. s \in Seq(AllTasks) /\ \A k \in DOMAIN s : s[k][1] \in names BY DEF Kinds
<1>2. PICK n \in Nat : n = Len(s) /\ DOMAIN s = 1 .. n BY <1>1, LenProperties
<1>3. <<x>> \in Seq(AllTasks) /\ Len(<<x>>) = 1 /\ <<x>>[1] = x OBVIOUS
<1>4. PICK t : t = s \o <<x>> OBVIOUS
<1>5. t \in Seq(AllTasks) /\ Len(t) = n + 1 BY <1>1, <1>2, <1>3, <1>4, ConcatProperties
<1>6. DOMAIN t = 1 .. n + 1 BY <1>5, LenProperties
<1>7. \A k \in DOMAIN t : k # n + 1 => t[k][1] \in names
  <2> SUFFICES ASSUME NEW k \in DOMAIN t, k # n + 1 PROVE t[k][1] \in names OBVIOUS
  <2>1. k \in 1 .. n BY <1>6
  <2>2. t[k] = s[k] BY <1>1, <1>2, <1>3, <1>4, <2>1, ConcatProperties
  <2> QED BY <1>1, <1>2, <2>1, <2>2
<1>8. t[n + 1] = x
  <2>1. n + 1 \in 1 .. Len(s) + Len(<<x>>) /\ ~(n + 1 <= Len(s)) /\ n + 1 - Len(s) = 1
    BY <1>2, <1>3
  <2>2. t[n + 1] = <<x>>[1] BY <1>1, <1>3, <1>4, <2>1, ConcatProperties
  <2> QED BY <1>3, <2>2
<1>9. \A k \in DOMAIN t : t[k][1] \in {"command", "receive"} => k = Len(t)
  BY <1>5, <1>7 DEF DeviceKinds
<1>10. \A j, k \in DOMAIN t : t[k][1] = "receive" => t[j][1] \in {"port", "receive"}
  BY <1>7, <1>8 DEF DeviceKinds
<1>11. \A k \in DOMAIN t : t[k][1] # "scan" BY <1>7, <1>8 DEF DeviceKinds
<1>12. TodoOK(t) BY <1>5, <1>9, <1>10, <1>11 DEF TodoOK
<1>13. Pending(t, port, r) BY <1>7, <1>8, <1>11 DEF Pending, DeviceKinds
<1> QED BY <1>4, <1>12, <1>13

-----------------------------------------------------------------------------
(* Sessions that go down.                                                  *)

\* No runtime of r2 is further on than in r.
Weaker(r2, r) ==
    \A i \in Runtimes :
      /\ r2[i].used = r[i].used /\ r2[i].id = r[i].id /\ r2[i].registered = r[i].registered
      /\ r2[i].configured => r[i].configured
      /\ r2[i].ready => /\ r[i].ready /\ r2[i].configured
                        /\ r2[i].io_failures < RNDIS_IO_FAILURE_LIMIT

NoFailures(r2, r) == \A i \in Runtimes : r2[i].io_failures \in {0, r[i].io_failures}

LEMMA RegisteredKept ==
    ASSUME NEW r, NEW r2, NEW adapters, Registered(r, adapters), Weaker(r2, r)
    PROVE  Registered(r2, adapters)
  BY DEF Registered, Weaker

LEMMA SessionsKept ==
    ASSUME NEW r, NEW r2, NEW port, NEW endpoints, NEW devices, Sessions(r, port, endpoints, devices),
           NEW port2, NEW endpoints2, NEW devices2, Weaker(r2, r),
           \A i \in Runtimes : r2[i].configured =>
             \E p \in Ports : port2[p] = r[i].id /\ endpoints2[p],
           \A i \in Runtimes : r2[i].ready => devices2[r[i].id] = devices[r[i].id]
    PROVE  Sessions(r2, port2, endpoints2, devices2)
  BY DEF Sessions, Weaker

LEMMA WeakerSame ==
    ASSUME NEW r, NEW port, NEW endpoints, NEW devices, Sessions(r, port, endpoints, devices)
    PROVE  Weaker(r, r) /\ NoFailures(r, r)
  BY DEF Sessions, Weaker, NoFailures

LEMMA PendingKept ==
    ASSUME NEW s, TodoOK(s), NEW port, NEW r, NEW r2, Pending(s, port, r), NoFailures(r2, r)
    PROVE  Pending(s, port, r2)
<1>1. \A k \in DOMAIN s : s[k][1] = "receive" => s[k][2] \in Runtimes
  <2>1. \A k \in DOMAIN s : s[k] \in AllTasks BY DEF TodoOK
  <2> QED BY <2>1, TaskKinds
<1>2. \A i \in Runtimes : r[i].io_failures < RNDIS_IO_FAILURE_LIMIT =>
        r2[i].io_failures < RNDIS_IO_FAILURE_LIMIT
  <2> SUFFICES ASSUME NEW i \in Runtimes, r[i].io_failures < RNDIS_IO_FAILURE_LIMIT
               PROVE  r2[i].io_failures < RNDIS_IO_FAILURE_LIMIT
    OBVIOUS
  <2>1. CASE r2[i].io_failures = r[i].io_failures BY <2>1
  <2>2. CASE r2[i].io_failures = 0 BY <2>2, UsbConstants
  <2> QED BY <2>1, <2>2 DEF NoFailures
<1> QED BY <1>1, <1>2 DEF Pending

LEMMA DisconnectFact ==
    ASSUME NEW x \in Runtime
    PROVE  /\ Disconnect(x) \in Runtime /\ ~Disconnect(x).configured /\ ~Disconnect(x).ready
           /\ Disconnect(x).used = x.used /\ Disconnect(x).id = x.id
           /\ Disconnect(x).registered = x.registered /\ Disconnect(x).io_failures = 0
<1>1. 0 \in 0 .. RNDIS_IO_FAILURE_LIMIT BY UsbConstants
<1>2. PICK y : y = [x EXCEPT !.configured = FALSE, !.ready = FALSE, !.link_up = FALSE,
                             !.io_failures = 0]
  OBVIOUS
<1>3. y \in Runtime BY <1>1, <1>2 DEF Runtime
<1>4. /\ y.configured = FALSE /\ y.ready = FALSE /\ y.used = x.used /\ y.id = x.id
      /\ y.registered = x.registered /\ y.io_failures = 0
  BY <1>2 DEF Runtime
<1> QED BY <1>2, <1>3, <1>4 DEF Disconnect

LEMMA RemovedFact ==
    ASSUME UsbInv, NEW S, NEW timers \in SUBSET Timers, rndis_usb_removed(S, timers)
    PROVE  /\ SessionTypes(rndis', net_devices, waiting')
           /\ Weaker(rndis', rndis) /\ NoFailures(rndis', rndis)
           /\ Registered(rndis', net_devices)
           /\ \A i \in Runtimes : rndis[i].used /\ rndis[i].id \in S =>
                ~rndis'[i].configured /\ ~rndis'[i].ready
<1>1. rndis \in [Runtimes -> Runtime] /\ waiting \subseteq Timers BY DEF UsbInv, SessionTypes
<1>2. PICK hit \in SUBSET Runtimes :
        /\ hit = {i \in Runtimes : rndis[i].used /\ rndis[i].id \in S}
        /\ rndis' = [i \in Runtimes |-> IF i \in hit THEN Disconnect(rndis[i]) ELSE rndis[i]]
        /\ waiting' = waiting \cup {<<"runtime", i>> : i \in hit} \cup timers
  BY DEF rndis_usb_removed
<1>3. \A i \in Runtimes : rndis'[i] = IF i \in hit THEN Disconnect(rndis[i]) ELSE rndis[i]
  BY <1>2
<1>4. rndis' \in [Runtimes -> Runtime] BY <1>1, <1>2, DisconnectFact
<1>5. waiting' \subseteq Timers BY <1>1, <1>2 DEF Timers
<1>6. Weaker(rndis', rndis)
  <2>1. \A i \in Runtimes : rndis[i].ready =>
          rndis[i].configured /\ rndis[i].io_failures < RNDIS_IO_FAILURE_LIMIT
    BY DEF UsbInv, Sessions
  <2> SUFFICES ASSUME NEW i \in Runtimes
               PROVE  /\ rndis'[i].used = rndis[i].used /\ rndis'[i].id = rndis[i].id
                      /\ rndis'[i].registered = rndis[i].registered
                      /\ rndis'[i].configured => rndis[i].configured
                      /\ rndis'[i].ready =>
                           /\ rndis[i].ready /\ rndis'[i].configured
                           /\ rndis'[i].io_failures < RNDIS_IO_FAILURE_LIMIT
    BY DEF Weaker
  <2>2. CASE i \in hit BY <1>1, <1>3, <2>2, DisconnectFact
  <2>3. CASE i \notin hit BY <1>3, <2>1, <2>3
  <2> QED BY <2>2, <2>3
<1>7. NoFailures(rndis', rndis) BY <1>1, <1>3, DisconnectFact DEF NoFailures
<1>8. Registered(rndis', net_devices) BY <1>6, RegisteredKept DEF UsbInv
<1>9. \A i \in Runtimes : rndis[i].used /\ rndis[i].id \in S =>
        ~rndis'[i].configured /\ ~rndis'[i].ready
  BY <1>1, <1>2, <1>3, DisconnectFact
<1> QED BY <1>4, <1>5, <1>6, <1>7, <1>8, <1>9 DEF UsbInv, SessionTypes

-----------------------------------------------------------------------------
(* The ports.                                                              *)

LEMMA DetachFact ==
    ASSUME UsbInv, NEW p \in Ports, NEW timers \in SUBSET Timers, xhci_detach_port(p, timers)
    PROVE  /\ port_usb_id' \in [Ports -> Ids \cup {-1}]
           /\ addressed' \in [Ports -> Devices \cup {None}] /\ bulk' \in [Ports -> BOOLEAN]
           /\ InventoryTypes(usb_devices', usb_pending_add')
           /\ SessionTypes(rndis', net_devices, waiting')
           /\ PortTables(port_usb_id', addressed', usb_devices')
           /\ Sessions(rndis', port_usb_id', bulk', usb_devices')
           /\ Registered(rndis', net_devices) /\ NoFailures(rndis', rndis)
<1>1. PICK id \in Ids \cup {-1} : id = port_usb_id[p] BY DEF UsbInv, PortTypes
<1>2. /\ port_usb_id \in [Ports -> Ids \cup {-1}] /\ addressed \in [Ports -> Devices \cup {None}]
      /\ bulk \in [Ports -> BOOLEAN] /\ usb_devices \in [Ids -> Devices \cup {None}]
      /\ usb_pending_add \in [Ids -> BOOLEAN]
  BY DEF UsbInv, PortTypes, InventoryTypes
<1>3. /\ rndis_usb_removed({id}, timers)
      /\ usb_devices' = [i \in Ids |-> IF i = id THEN None ELSE usb_devices[i]]
      /\ usb_pending_add' = [i \in Ids |-> i # id /\ usb_pending_add[i]]
      /\ port_usb_id' = [port_usb_id EXCEPT ![p] = -1]
      /\ addressed' = [addressed EXCEPT ![p] = None]
      /\ bulk' = [bulk EXCEPT ![p] = FALSE]
  BY <1>1 DEF xhci_detach_port
<1>4. /\ port_usb_id' \in [Ports -> Ids \cup {-1}]
      /\ addressed' \in [Ports -> Devices \cup {None}] /\ bulk' \in [Ports -> BOOLEAN]
      /\ \A q \in Ports : /\ port_usb_id'[q] = IF q = p THEN -1 ELSE port_usb_id[q]
                          /\ addressed'[q] = IF q = p THEN None ELSE addressed[q]
                          /\ bulk'[q] = IF q = p THEN FALSE ELSE bulk[q]
  BY <1>2, <1>3
<1>5. InventoryTypes(usb_devices', usb_pending_add')
  <2>1. usb_pending_add' \in [Ids -> BOOLEAN] BY <1>3
  <2>2. usb_devices' \in [Ids -> Devices \cup {None}] BY <1>2, <1>3
  <2> QED BY <2>1, <2>2 DEF InventoryTypes
<1>6. \A i \in Ids : usb_devices'[i] = IF i = id THEN None ELSE usb_devices[i] BY <1>3
<1>7. \A q \in Ports : q # p /\ port_usb_id[q] # -1 => port_usb_id[q] # id
  BY <1>1 DEF UsbInv, PortTables
<1>8. PortTables(port_usb_id', addressed', usb_devices')
  <2>1. \A q \in Ports : port_usb_id'[q] # -1 =>
          usb_devices'[port_usb_id'[q]] = addressed'[q] /\ addressed'[q] # None
    <3> SUFFICES ASSUME NEW q \in Ports, port_usb_id'[q] # -1
                 PROVE  usb_devices'[port_usb_id'[q]] = addressed'[q] /\ addressed'[q] # None
      OBVIOUS
    <3>1. q # p /\ port_usb_id'[q] = port_usb_id[q] /\ addressed'[q] = addressed[q] BY <1>4
    <3>2. port_usb_id[q] \in Ids /\ port_usb_id[q] # id BY <1>2, <1>7, <3>1
    <3>3. usb_devices'[port_usb_id[q]] = usb_devices[port_usb_id[q]] BY <1>6, <3>2
    <3> QED BY <3>1, <3>3 DEF UsbInv, PortTables
  <2>2. \A q, u \in Ports : port_usb_id'[q] # -1 /\ port_usb_id'[q] = port_usb_id'[u] => q = u
    <3> SUFFICES ASSUME NEW q \in Ports, NEW u \in Ports, port_usb_id'[q] # -1,
                        port_usb_id'[q] = port_usb_id'[u]
                 PROVE  q = u
      OBVIOUS
    <3>1. q # p /\ u # p BY <1>4
    <3>2. port_usb_id[q] # -1 /\ port_usb_id[q] = port_usb_id[u] BY <1>4, <3>1
    <3> QED BY <3>2 DEF UsbInv, PortTables
  <2>3. \A i \in Ids : usb_devices'[i] # None => \E q \in Ports : port_usb_id'[q] = i
    <3> SUFFICES ASSUME NEW i \in Ids, usb_devices'[i] # None
                 PROVE  \E q \in Ports : port_usb_id'[q] = i
      OBVIOUS
    <3>1. i # id /\ usb_devices[i] # None BY <1>6
    <3>2. PICK q \in Ports : port_usb_id[q] = i BY <3>1 DEF UsbInv, PortTables
    <3> QED BY <1>1, <1>4, <3>1, <3>2
  <2> QED BY <2>1, <2>2, <2>3 DEF PortTables
<1>9. /\ SessionTypes(rndis', net_devices, waiting')
      /\ Weaker(rndis', rndis) /\ NoFailures(rndis', rndis) /\ Registered(rndis', net_devices)
      /\ \A i \in Runtimes : rndis[i].used /\ rndis[i].id \in {id} =>
           ~rndis'[i].configured /\ ~rndis'[i].ready
  BY <1>3, RemovedFact
<1>10. \A i \in Runtimes : rndis'[i].configured => rndis[i].id # id
  BY <1>9 DEF Weaker, UsbInv, Sessions
<1>11. \A i \in Runtimes : rndis'[i].configured =>
         \E q \in Ports : port_usb_id'[q] = rndis[i].id /\ bulk'[q]
  <2> SUFFICES ASSUME NEW i \in Runtimes, rndis'[i].configured
               PROVE  \E q \in Ports : port_usb_id'[q] = rndis[i].id /\ bulk'[q]
    OBVIOUS
  <2>1. PICK q \in Ports : port_usb_id[q] = rndis[i].id /\ bulk[q]
    BY <1>9 DEF Weaker, UsbInv, Sessions
  <2>2. q # p BY <1>1, <1>10, <2>1
  <2> QED BY <1>4, <2>1, <2>2
<1>12. \A i \in Runtimes : rndis'[i].ready => usb_devices'[rndis[i].id] = usb_devices[rndis[i].id]
  <2>1. \A i \in Runtimes : rndis[i].id \in Ids BY DEF UsbInv, SessionTypes, Runtime
  <2> QED BY <1>6, <1>9, <1>10, <2>1 DEF Weaker
<1>13. Sessions(rndis', port_usb_id', bulk', usb_devices')
  <2>1. Sessions(rndis, port_usb_id, bulk, usb_devices) BY DEF UsbInv
  <2> QED BY <1>9, <1>11, <1>12, <2>1, SessionsKept
<1> QED BY <1>4, <1>5, <1>8, <1>9, <1>13

\* A port without a device gets the first free id.
LEMMA EnumerateFact ==
    ASSUME UsbInv, NEW p \in Ports, port_usb_id[p] = -1, xhci_enumerate_port(p)
    PROVE  /\ port_usb_id' \in [Ports -> Ids \cup {-1}]
           /\ addressed' \in [Ports -> Devices \cup {None}] /\ bulk' \in [Ports -> BOOLEAN]
           /\ enabled' \in [Ports -> BOOLEAN] /\ faults' = faults
           /\ InventoryTypes(usb_devices', usb_pending_add')
           /\ PortTables(port_usb_id', addressed', usb_devices')
           /\ Sessions(rndis, port_usb_id', bulk', usb_devices')
           /\ \A q \in Ports : q # p => port_usb_id'[q] = port_usb_id[q]
<1>1. /\ port_usb_id \in [Ports -> Ids \cup {-1}] /\ addressed \in [Ports -> Devices \cup {None}]
      /\ bulk \in [Ports -> BOOLEAN] /\ usb_devices \in [Ids -> Devices \cup {None}]
      /\ usb_pending_add \in [Ids -> BOOLEAN] /\ enabled \in [Ports -> BOOLEAN]
  BY DEF UsbInv, PortTypes, InventoryTypes, PhysicalTypes
<1>2. PICK d \in Devices : d = plugged[p] /\ d # None
  BY UsbConstants DEF UsbInv, PhysicalTypes, xhci_enumerate_port, Connected
<1>3. PICK id \in Ids : id = Least(FreeIds) /\ usb_devices[id] = None
  <2>1. FreeIds \in SUBSET Nat /\ FreeIds # {} BY UsbConstants DEF FreeIds, xhci_enumerate_port
  <2>2. Least(FreeIds) \in FreeIds BY <2>1, LeastFact
  <2> QED BY <2>2 DEF FreeIds
<1>4. id # -1 BY UsbConstants
<1>5. /\ usb_devices' = [usb_devices EXCEPT ![id] = d]
      /\ usb_pending_add' = [usb_pending_add EXCEPT ![id] = TRUE]
      /\ port_usb_id' = [port_usb_id EXCEPT ![p] = id]
      /\ addressed' = [addressed EXCEPT ![p] = d] /\ bulk' = [bulk EXCEPT ![p] = FALSE]
      /\ enabled' = [enabled EXCEPT ![p] = TRUE] /\ faults' = faults
  BY <1>2, <1>3 DEF xhci_enumerate_port
<1>6. /\ port_usb_id' \in [Ports -> Ids \cup {-1}]
      /\ addressed' \in [Ports -> Devices \cup {None}] /\ bulk' \in [Ports -> BOOLEAN]
      /\ \A q \in Ports : /\ port_usb_id'[q] = IF q = p THEN id ELSE port_usb_id[q]
                          /\ addressed'[q] = IF q = p THEN d ELSE addressed[q]
                          /\ bulk'[q] = IF q = p THEN FALSE ELSE bulk[q]
  BY <1>1, <1>5
<1>7. enabled' \in [Ports -> BOOLEAN] /\ InventoryTypes(usb_devices', usb_pending_add')
  BY <1>1, <1>5 DEF InventoryTypes
<1>8. \A i \in Ids : usb_devices'[i] = IF i = id THEN d ELSE usb_devices[i] BY <1>1, <1>5
<1>9. \A q \in Ports : port_usb_id[q] # id BY <1>3, <1>4 DEF UsbInv, PortTables
<1>10. PortTables(port_usb_id', addressed', usb_devices')
  <2>1. \A q \in Ports : port_usb_id'[q] # -1 =>
          usb_devices'[port_usb_id'[q]] = addressed'[q] /\ addressed'[q] # None
    <3> SUFFICES ASSUME NEW q \in Ports, port_usb_id'[q] # -1
                 PROVE  usb_devices'[port_usb_id'[q]] = addressed'[q] /\ addressed'[q] # None
      OBVIOUS
    <3>1. CASE q = p BY <1>2, <1>6, <1>8, <3>1
    <3>2. CASE q # p
      <4>1. port_usb_id'[q] = port_usb_id[q] /\ addressed'[q] = addressed[q] BY <1>6, <3>2
      <4>2. port_usb_id[q] \in Ids /\ port_usb_id[q] # id BY <1>1, <1>9, <4>1
      <4>3. usb_devices'[port_usb_id[q]] = usb_devices[port_usb_id[q]] BY <1>8, <4>2
      <4> QED BY <4>1, <4>3 DEF UsbInv, PortTables
    <3> QED BY <3>1, <3>2
  <2>2. \A q, u \in Ports : port_usb_id'[q] # -1 /\ port_usb_id'[q] = port_usb_id'[u] => q = u
    <3> SUFFICES ASSUME NEW q \in Ports, NEW u \in Ports, port_usb_id'[q] # -1,
                        port_usb_id'[q] = port_usb_id'[u]
                 PROVE  q = u
      OBVIOUS
    <3>1. CASE q = p \/ u = p BY <1>6, <1>9, <3>1
    <3>2. CASE q # p /\ u # p
      <4>1. port_usb_id[q] # -1 /\ port_usb_id[q] = port_usb_id[u] BY <1>6, <3>2
      <4> QED BY <4>1 DEF UsbInv, PortTables
    <3> QED BY <3>1, <3>2
  <2>3. \A i \in Ids : usb_devices'[i] # None => \E q \in Ports : port_usb_id'[q] = i
    <3> SUFFICES ASSUME NEW i \in Ids, usb_devices'[i] # None
                 PROVE  \E q \in Ports : port_usb_id'[q] = i
      OBVIOUS
    <3>1. CASE i = id BY <1>6, <3>1
    <3>2. CASE i # id
      <4>1. PICK q \in Ports : port_usb_id[q] = i BY <1>8, <3>2 DEF UsbInv, PortTables
      <4>2. q # p BY <4>1, UsbConstants
      <4> QED BY <1>6, <4>1, <4>2
    <3> QED BY <3>1, <3>2
  <2> QED BY <2>1, <2>2, <2>3 DEF PortTables
<1>11. Sessions(rndis, port_usb_id', bulk', usb_devices')
  <2>1. \A i \in Runtimes : rndis[i].id \in Ids BY DEF UsbInv, SessionTypes, Runtime
  <2>2. \A i \in Runtimes : rndis[i].configured =>
          rndis[i].id # id /\ \E q \in Ports : port_usb_id'[q] = rndis[i].id /\ bulk'[q]
    <3> SUFFICES ASSUME NEW i \in Runtimes, rndis[i].configured
                 PROVE  rndis[i].id # id /\ \E q \in Ports : port_usb_id'[q] = rndis[i].id /\ bulk'[q]
      OBVIOUS
    <3>1. PICK q \in Ports : port_usb_id[q] = rndis[i].id /\ bulk[q] BY DEF UsbInv, Sessions
    <3>2. q # p BY <2>1, <3>1, UsbConstants
    <3> QED BY <1>6, <1>9, <3>1, <3>2
  <2>3. \A i \in Runtimes : rndis[i].ready => usb_devices'[rndis[i].id] = usb_devices[rndis[i].id]
    BY <1>8, <2>1, <2>2 DEF UsbInv, Sessions
  <2>4. Sessions(rndis, port_usb_id, bulk, usb_devices) BY DEF UsbInv
  <2>5. Weaker(rndis, rndis) BY <2>4, WeakerSame
  <2> QED BY <2>2, <2>3, <2>4, <2>5, SessionsKept
<1> QED BY <1>5, <1>6, <1>7, <1>10, <1>11

LEMMA FaultFact ==
    ASSUME UsbInv, (faults < MaxFaults /\ faults' = faults + 1) \/ faults' = faults
    PROVE  faults' \in 0 .. MaxFaults
  BY UsbConstants DEF UsbInv, CountTypes

LEMMA EnumerateFailsFact ==
    ASSUME UsbInv, NEW p \in Ports, EnumerateFails(p)
    PROVE  /\ enabled' \in [Ports -> BOOLEAN] /\ faults' \in 0 .. MaxFaults
           /\ UNCHANGED <<port_usb_id, addressed, bulk, usb_devices, usb_pending_add>>
<1>1. enabled \in [Ports -> BOOLEAN] BY DEF UsbInv, PhysicalTypes
<1>2. PICK e \in BOOLEAN : enabled' = [enabled EXCEPT ![p] = e]
  BY <1>1 DEF EnumerateFails, Connected
<1>3. faults' \in 0 .. MaxFaults BY FaultFact DEF EnumerateFails
<1> QED BY <1>1, <1>2, <1>3 DEF EnumerateFails, inventory

LEMMA ReprobeFact ==
    ASSUME UsbInv, NEW p \in Ports, NEW pending \in BOOLEAN, NEW count \in 0 .. REPROBES,
           pending => count < REPROBES, Reprobe(p, pending, count)
    PROVE  /\ reprobe' \in [Ports -> BOOLEAN] /\ attempts' \in [Ports -> 0 .. REPROBES]
           /\ \A q \in Ports : reprobe'[q] => attempts'[q] < REPROBES
<1>1. /\ reprobe \in [Ports -> BOOLEAN] /\ attempts \in [Ports -> 0 .. REPROBES]
      /\ \A q \in Ports : reprobe[q] => attempts[q] < REPROBES
  BY DEF UsbInv, PortTypes
<1>2. /\ reprobe' = [reprobe EXCEPT ![p] = pending] /\ attempts' = [attempts EXCEPT ![p] = count]
  BY DEF Reprobe
<1> QED BY <1>1, <1>2

\* What a step of the ports leaves of the invariant.
PortStep ==
    /\ enabled' \in [Ports -> BOOLEAN] /\ faults' \in 0 .. MaxFaults
    /\ PortTypes(port_usb_id', addressed', bulk', reprobe', attempts')
    /\ InventoryTypes(usb_devices', usb_pending_add')
    /\ SessionTypes(rndis', net_devices, waiting')
    /\ PortTables(port_usb_id', addressed', usb_devices')
    /\ Sessions(rndis', port_usb_id', bulk', usb_devices')
    /\ Registered(rndis', net_devices) /\ NoFailures(rndis', rndis)

LEMMA PortStepKept ==
    ASSUME UsbInv, UNCHANGED <<port_usb_id, addressed, bulk, usb_devices, usb_pending_add, rndis>>,
           enabled' \in [Ports -> BOOLEAN], faults' \in 0 .. MaxFaults, waiting' \subseteq Timers,
           reprobe' \in [Ports -> BOOLEAN], attempts' \in [Ports -> 0 .. REPROBES],
           \A q \in Ports : reprobe'[q] => attempts'[q] < REPROBES
    PROVE  PortStep
<1>1. NoFailures(rndis', rndis) BY WeakerSame DEF UsbInv
<1> QED BY <1>1 DEF UsbInv, PortStep, PortTypes, InventoryTypes, SessionTypes

LEMMA PortsQuiet ==
    ASSUME UsbInv, NEW p \in Ports,
           PortConnected(p) \/ PortSettled(p) \/ PortQuiet(p)
    PROVE  PortStep
<1>1. faults' \in 0 .. MaxFaults /\ enabled' \in [Ports -> BOOLEAN]
  BY FaultFact DEF PortConnected, PortSettled, PortQuiet, UsbInv, PhysicalTypes
<1>2. UNCHANGED <<port_usb_id, addressed, bulk, usb_devices, usb_pending_add, rndis>>
  BY DEF PortConnected, PortSettled, PortQuiet, inventory, ports
<1>3. waiting' \subseteq Timers
  <2>1. waiting \subseteq Timers /\ <<"port", p>> \in Timers
    BY DEF UsbInv, SessionTypes, Timers
  <2>2. waiting' \in {waiting, waiting \cup {<<"port", p>>}}
    BY DEF PortConnected, PortSettled, PortQuiet
  <2> QED BY <2>1, <2>2
<1>4. /\ reprobe' \in [Ports -> BOOLEAN] /\ attempts' \in [Ports -> 0 .. REPROBES]
      /\ \A q \in Ports : reprobe'[q] => attempts'[q] < REPROBES
  <2>1. 0 \in 0 .. REPROBES /\ 0 < REPROBES BY UsbConstants
  <2>2. CASE PortConnected(p) BY <2>1, <2>2, ReprobeFact DEF PortConnected
  <2>3. CASE PortSettled(p) BY <2>1, <2>3, ReprobeFact DEF PortSettled
  <2>4. CASE PortQuiet(p) BY <2>4 DEF PortQuiet, ports, UsbInv, PortTypes
  <2> QED BY <2>2, <2>3, <2>4
<1> QED BY <1>1, <1>2, <1>3, <1>4, PortStepKept

LEMMA PortsDetached ==
    ASSUME UsbInv, NEW p \in Ports, PortUnplugged(p) \/ PortLost(p)
    PROVE  PortStep
<1>1. faults' \in 0 .. MaxFaults /\ enabled' \in [Ports -> BOOLEAN]
  BY FaultFact DEF PortUnplugged, PortLost, UsbInv, PhysicalTypes
<1>2. PICK timers \in SUBSET Timers : xhci_detach_port(p, timers)
  <2>1. {} \in SUBSET Timers /\ {<<"port", p>>} \in SUBSET Timers BY DEF Timers
  <2> QED BY <2>1 DEF PortUnplugged, PortLost
<1>3. /\ reprobe' \in [Ports -> BOOLEAN] /\ attempts' \in [Ports -> 0 .. REPROBES]
      /\ \A q \in Ports : reprobe'[q] => attempts'[q] < REPROBES
  <2>1. 0 \in 0 .. REPROBES /\ 0 < REPROBES BY UsbConstants
  <2> QED BY <2>1, ReprobeFact DEF PortUnplugged, PortLost
<1> QED BY <1>1, <1>2, <1>3, DetachFact DEF PortStep, PortTypes

LEMMA PortsEnumerated ==
    ASSUME UsbInv, NEW p \in Ports, PortEnumerated(p) \/ PortNotEnumerated(p)
    PROVE  PortStep
<1>1. waiting' \subseteq Timers /\ rndis' = rndis
  <2>1. waiting \subseteq Timers /\ <<"port", p>> \in Timers
    BY DEF UsbInv, SessionTypes, Timers
  <2>2. waiting' \in {waiting, waiting \cup {<<"port", p>>}} /\ rndis' = rndis
    BY DEF PortEnumerated, PortNotEnumerated
  <2> QED BY <2>1, <2>2
<1>2. /\ Registered(rndis', net_devices) /\ NoFailures(rndis', rndis)
      /\ SessionTypes(rndis', net_devices, waiting')
  <2>1. NoFailures(rndis, rndis) BY WeakerSame DEF UsbInv
  <2> QED BY <1>1, <2>1 DEF UsbInv, SessionTypes
<1>3. CASE PortEnumerated(p)
  <2>1. /\ reprobe' \in [Ports -> BOOLEAN] /\ attempts' \in [Ports -> 0 .. REPROBES]
        /\ \A q \in Ports : reprobe'[q] => attempts'[q] < REPROBES
    <3>1. 0 \in 0 .. REPROBES BY UsbConstants
    <3> QED BY <1>3, <3>1, ReprobeFact DEF PortEnumerated
  <2>2. port_usb_id[p] = -1 /\ xhci_enumerate_port(p) BY <1>3 DEF PortEnumerated
  <2>3. faults' \in 0 .. MaxFaults BY <2>2, EnumerateFact DEF UsbInv, CountTypes
  <2> QED BY <1>1, <1>2, <2>1, <2>2, <2>3, EnumerateFact DEF PortStep, PortTypes
<1>4. CASE PortNotEnumerated(p)
  <2>1. attempts[p] \in 0 .. REPROBES /\ attempts[p] < REPROBES
    BY <1>4 DEF PortNotEnumerated, Due, UsbInv, PortTypes
  <2>2. PICK n \in 0 .. REPROBES : n = attempts[p] + 1 BY <2>1, UsbConstants
  <2>3. Reprobe(p, n < REPROBES, n) /\ (n < REPROBES) \in BOOLEAN
    BY <1>4, <2>2 DEF PortNotEnumerated
  <2>4. /\ reprobe' \in [Ports -> BOOLEAN] /\ attempts' \in [Ports -> 0 .. REPROBES]
        /\ \A q \in Ports : reprobe'[q] => attempts'[q] < REPROBES
    BY <2>3, ReprobeFact
  <2>5. EnumerateFails(p) BY <1>4 DEF PortNotEnumerated
  <2> QED BY <1>1, <2>4, <2>5, EnumerateFailsFact, PortStepKept
<1> QED BY <1>3, <1>4

-----------------------------------------------------------------------------
(* The first task and the rest.                                            *)

LEMMA TaskFact ==
    ASSUME UsbInv, NEW name, Task(name)
    PROVE  /\ <<name, Arg>> \in AllTasks /\ TodoOK(Tail(todo))
           /\ Pending(Tail(todo), port_usb_id, rndis)
           /\ name \in {"command", "receive"} => Tail(todo) = <<>>
           /\ name \notin {"port", "receive"} =>
                \A k \in DOMAIN Tail(todo) : Tail(todo)[k][1] # "receive"
           /\ name = "port" => \A k \in DOMAIN Tail(todo) : Tail(todo)[k][1] # "scan"
           /\ name = "scan" => /\ port_usb_id[Arg] = -1
                               /\ \A k \in DOMAIN Tail(todo) :
                                    Tail(todo)[k][1] = "scan" => Tail(todo)[k][2] # Arg
           /\ name = "receive" => rndis[Arg].io_failures < RNDIS_IO_FAILURE_LIMIT
<1>1. TodoOK(todo) /\ todo # <<>> /\ Pending(todo, port_usb_id, rndis) BY DEF UsbInv, Task
<1>2. 1 \in DOMAIN todo /\ DOMAIN todo \subseteq Nat BY <1>1 DEF TodoOK
<1>3. PICK t : t = Tail(todo) OBVIOUS
<1>4. /\ todo[1] \in AllTasks /\ Head(todo) = todo[1] /\ TodoOK(t)
      /\ \A k \in DOMAIN t : k + 1 \in DOMAIN todo /\ k + 1 # 1 /\ t[k] = todo[k + 1]
      /\ todo[1][1] \in {"command", "receive"} => t = <<>>
  BY <1>1, <1>3, TailFact
<1>5. todo[1][1] = name /\ todo[1][2] = Arg BY <1>4 DEF Task, Arg
<1>6. todo[1] = <<name, Arg>> BY <1>4, <1>5, TaskKinds
<1>7. Pending(t, port_usb_id, rndis) BY <1>1, <1>4 DEF Pending
<1>8. name \notin {"port", "receive"} => \A k \in DOMAIN t : t[k][1] # "receive"
  BY <1>1, <1>2, <1>4, <1>5 DEF TodoOK
<1>9. name = "port" => \A k \in DOMAIN t : t[k][1] # "scan"
  BY <1>1, <1>2, <1>4, <1>5 DEF TodoOK
<1>10. name = "scan" => port_usb_id[Arg] = -1 BY <1>1, <1>2, <1>5 DEF Pending
<1>11. name = "scan" => \A k \in DOMAIN t : t[k][1] = "scan" => t[k][2] # Arg
  <2> SUFFICES ASSUME name = "scan", NEW k \in DOMAIN t, t[k][1] = "scan", t[k][2] = Arg
               PROVE  FALSE
    OBVIOUS
  <2>1. t[k] = todo[k + 1] /\ k + 1 \in DOMAIN todo /\ k + 1 # 1 BY <1>4
  <2>2. t[k] \in AllTasks BY <2>1, <1>1 DEF TodoOK
  <2>3. t[k] = todo[1] BY <2>2, <1>6, TaskKinds
  <2> QED BY <1>1, <1>2, <1>5, <2>1, <2>3 DEF TodoOK
<1>12. name = "receive" => rndis[Arg].io_failures < RNDIS_IO_FAILURE_LIMIT
  BY <1>1, <1>2, <1>5 DEF Pending
<1> QED BY <1>3, <1>4, <1>5, <1>6, <1>7, <1>8, <1>9, <1>10, <1>11, <1>12

LEMMA ArgFact ==
    ASSUME UsbInv, NEW name, Task(name)
    PROVE  /\ name \in {"port", "scan"} => Arg \in Ports
           /\ name \in {"added", "probe", "mass"} => Arg \in Ids
           /\ name \in {"runtime", "receive"} => Arg \in Runtimes
<1>1. <<name, Arg>> \in AllTasks BY TaskFact
<1> QED BY <1>1, TaskKinds

LEMMA PollPortInv == ASSUME UsbInv, PollPort PROVE UsbInv'
<1>1. Task("port") /\ todo' = Tail(todo) BY DEF PollPort, Done
<1>2. PICK p \in Ports :
        /\ \/ PortUnplugged(p) \/ PortConnected(p) \/ PortLost(p) \/ PortSettled(p)
           \/ PortEnumerated(p) \/ PortNotEnumerated(p) \/ PortQuiet(p)
        /\ Acknowledge(p)
  BY <1>1, ArgFact DEF PollPort
<1>3. PortStep BY <1>2, PortsQuiet, PortsDetached, PortsEnumerated
<1>4. UNCHANGED <<plugged, running, net_devices, blocks, plugs>>
  BY <1>2 DEF PollPort, Acknowledge
<1>5. PhysicalTypes(plugged', enabled', csc', pec', running')
  BY <1>2, <1>3, <1>4 DEF Acknowledge, PortStep, UsbInv, PhysicalTypes
<1>6. TodoOK(todo') /\ Pending(todo', port_usb_id', rndis')
  <2>1. /\ TodoOK(todo') /\ Pending(todo', port_usb_id, rndis)
        /\ \A k \in DOMAIN todo' : todo'[k][1] # "scan"
    BY <1>1, TaskFact
  <2>2. Pending(todo', port_usb_id, rndis') BY <1>3, <2>1, PendingKept DEF PortStep
  <2>3. Pending(todo', port_usb_id', rndis') BY <2>1, <2>2 DEF Pending
  <2> QED BY <2>1, <2>3
<1> QED BY <1>3, <1>4, <1>5, <1>6 DEF UsbInv, PortStep, CountTypes

LEMMA ScanPortInv == ASSUME UsbInv, ScanPort PROVE UsbInv'
<1>1. Task("scan") /\ todo' = Tail(todo) BY DEF ScanPort, Done
<1>2. PICK p \in Ports : p = Arg /\ port_usb_id[p] = -1 BY <1>1, ArgFact, TaskFact
<1>3. UNCHANGED <<plugged, csc, pec, running, reprobe, attempts, rndis, net_devices, blocks,
                  waiting, plugs>>
  BY DEF ScanPort
<1>4. TodoOK(todo') /\ Pending(todo', port_usb_id, rndis)
  BY <1>1, TaskFact
<1>5. CASE xhci_enumerate_port(p)
  <2>1. \A q \in Ports : q # p => port_usb_id'[q] = port_usb_id[q]
    BY <1>2, <1>5, EnumerateFact
  <2>2. \A k \in DOMAIN todo' : todo'[k][1] = "scan" => todo'[k][2] \in Ports /\ todo'[k][2] # p
    <3>1. \A k \in DOMAIN todo' : todo'[k] \in AllTasks BY <1>4 DEF TodoOK
    <3> QED BY <3>1, <1>1, <1>2, TaskFact, TaskKinds
  <2>3. Pending(todo', port_usb_id', rndis) BY <1>4, <2>1, <2>2 DEF Pending
  <2> QED BY <1>2, <1>3, <1>4, <1>5, <2>3, EnumerateFact
          DEF UsbInv, PhysicalTypes, PortTypes, CountTypes
<1>6. CASE EnumerateFails(p)
  <2>1. /\ enabled' \in [Ports -> BOOLEAN] /\ faults' \in 0 .. MaxFaults
        /\ UNCHANGED <<port_usb_id, addressed, bulk, usb_devices, usb_pending_add>>
    BY <1>6, EnumerateFailsFact
  <2> QED BY <1>3, <1>4, <2>1 DEF UsbInv, PhysicalTypes, CountTypes
<1> QED BY <1>2, <1>5, <1>6 DEF ScanPort

-----------------------------------------------------------------------------
(* Sessions that come up.                                                  *)

LEMMA ConfigureFact ==
    ASSUME UsbInv, NEW id \in Ids, NEW succeeds \in BOOLEAN,
           xhci_configure_bulk_interface(id, succeeds)
    PROVE  /\ bulk' \in [Ports -> BOOLEAN] /\ \A p \in Ports : bulk[p] => bulk'[p]
           /\ succeeds => \A p \in Ports : port_usb_id[p] = id => bulk'[p]
<1>1. bulk \in [Ports -> BOOLEAN] BY DEF UsbInv, PortTypes
<1>2. bulk' = [p \in Ports |-> bulk[p] \/ (succeeds /\ p \in PortOf(id))]
  BY DEF xhci_configure_bulk_interface
<1>3. \A p \in Ports : bulk'[p] = (bulk[p] \/ (succeeds /\ p \in PortOf(id))) BY <1>2
<1>4. bulk' \in [Ports -> BOOLEAN] BY <1>1, <1>2
<1> QED BY <1>3, <1>4 DEF PortOf

\* The runtime kept for an id, or a free one, and no other has the id.
LEMMA RuntimeOfFact ==
    ASSUME UsbInv, NEW id \in Ids, RuntimesOf(id) # {}
    PROVE  \E i \in Runtimes :
             /\ i = Least(RuntimesOf(id)) /\ (rndis[i].used => rndis[i].id = id)
             /\ \A j \in Runtimes \ {i} : rndis[j].used => rndis[j].id # id
<1>1. PICK existing \in SUBSET Runtimes :
        existing = {j \in Runtimes : rndis[j].used /\ rndis[j].id = id}
  OBVIOUS
<1>2. RuntimesOf(id) = IF existing # {} THEN existing ELSE {j \in Runtimes : ~rndis[j].used}
  BY <1>1 DEF RuntimesOf
<1>3. RuntimesOf(id) \in SUBSET Nat BY <1>2, UsbConstants
<1>4. PICK i \in Runtimes : i = Least(RuntimesOf(id)) /\ i \in RuntimesOf(id)
  BY <1>2, <1>3, LeastFact
<1>5. rndis[i].used => rndis[i].id = id BY <1>1, <1>2, <1>4
<1>6. \A j \in Runtimes \ {i} : rndis[j].used => rndis[j].id # id
  <2>1. CASE existing # {} BY <1>1, <1>2, <1>4, <2>1 DEF UsbInv, Sessions
  <2>2. CASE existing = {} BY <1>1, <2>2
  <2> QED BY <2>1, <2>2
<1> QED BY <1>4, <1>5, <1>6

\* Runtime i is set to x for the device `id'.
LEMMA OneRuntime ==
    ASSUME UsbInv, NEW i \in Runtimes, NEW id \in Ids,
           \A j \in Runtimes \ {i} : rndis[j].used => rndis[j].id # id,
           NEW x \in Runtime, x.used, x.id = id, rndis' = [rndis EXCEPT ![i] = x],
           \A p \in Ports : bulk[p] => bulk'[p],
           x.configured => \E p \in Ports : port_usb_id[p] = id /\ bulk'[p],
           x.ready => /\ x.configured /\ usb_devices[id] \in Phones
                      /\ x.io_failures < RNDIS_IO_FAILURE_LIMIT
    PROVE  /\ rndis' \in [Runtimes -> Runtime] /\ Sessions(rndis', port_usb_id, bulk', usb_devices)
           /\ \A j \in Runtimes : rndis'[j] = IF j = i THEN x ELSE rndis[j]
<1>1. rndis \in [Runtimes -> Runtime] /\ Sessions(rndis, port_usb_id, bulk, usb_devices)
  BY DEF UsbInv, SessionTypes
<1>2. /\ rndis' \in [Runtimes -> Runtime]
      /\ \A j \in Runtimes : rndis'[j] = IF j = i THEN x ELSE rndis[j]
  BY <1>1
<1>3. ASSUME NEW j \in Runtimes
      PROVE  /\ rndis'[j].configured =>
                  rndis'[j].used /\ \E p \in Ports : port_usb_id[p] = rndis'[j].id /\ bulk'[p]
             /\ rndis'[j].ready => /\ rndis'[j].configured /\ usb_devices[rndis'[j].id] \in Phones
                                   /\ rndis'[j].io_failures < RNDIS_IO_FAILURE_LIMIT
  <2>1. CASE j = i BY <1>2, <2>1
  <2>2. CASE j # i
    <3>1. rndis'[j] = rndis[j] BY <1>2, <2>2
    <3>2. /\ rndis[j].configured =>
               rndis[j].used /\ \E p \in Ports : port_usb_id[p] = rndis[j].id /\ bulk'[p]
          /\ rndis[j].ready => /\ rndis[j].configured /\ usb_devices[rndis[j].id] \in Phones
                               /\ rndis[j].io_failures < RNDIS_IO_FAILURE_LIMIT
      BY <1>1 DEF Sessions
    <3> QED BY <3>1, <3>2
  <2> QED BY <2>1, <2>2
<1>4. ASSUME NEW j \in Runtimes, NEW k \in Runtimes \ {j}, rndis'[j].used, rndis'[k].used
      PROVE  rndis'[j].id # rndis'[k].id
  BY <1>1, <1>2, <1>4 DEF Sessions
<1> QED BY <1>2, <1>3, <1>4 DEF Sessions

\* What bringing a session up leaves of the invariant.
SessionStep ==
    /\ bulk' \in [Ports -> BOOLEAN] /\ faults' \in 0 .. MaxFaults
    /\ SessionTypes(rndis', net_devices', waiting')
    /\ Sessions(rndis', port_usb_id, bulk', usb_devices) /\ Registered(rndis', net_devices')

LEMMA FreshFact ==
    ASSUME UsbInv, NEW i \in Runtimes, NEW id \in Ids
    PROVE  /\ Fresh(i, id) \in Runtime /\ Fresh(i, id).used = TRUE /\ Fresh(i, id).id = id
           /\ Fresh(i, id).ready = rndis[i].ready /\ Fresh(i, id).registered = rndis[i].registered
           /\ Fresh(i, id).io_failures = 0
<1>1. rndis[i] \in Runtime BY DEF UsbInv, SessionTypes
<1>2. 0 \in 0 .. RNDIS_IO_FAILURE_LIMIT BY UsbConstants
<1>3. PICK y : y = [rndis[i] EXCEPT !.used = TRUE, !.id = id, !.link_up = FALSE, !.io_failures = 0]
  OBVIOUS
<1>4. y \in Runtime BY <1>1, <1>2, <1>3 DEF Runtime
<1>5. /\ y.used = TRUE /\ y.id = id /\ y.io_failures = 0 /\ y.ready = rndis[i].ready
      /\ y.registered = rndis[i].registered
  BY <1>1, <1>3 DEF Runtime
<1> QED BY <1>3, <1>4, <1>5 DEF Fresh

LEMMA SetConfigured ==
    ASSUME NEW y \in Runtime, NEW c \in BOOLEAN
    PROVE  \E x \in Runtime :
             /\ x = [y EXCEPT !.configured = c]
             /\ x.used = y.used /\ x.id = y.id /\ x.configured = c /\ x.ready = y.ready
             /\ x.registered = y.registered /\ x.io_failures = y.io_failures
<1>1. PICK x : x = [y EXCEPT !.configured = c] OBVIOUS
<1>2. x \in Runtime BY <1>1 DEF Runtime
<1>3. /\ x.used = y.used /\ x.id = y.id /\ x.configured = c /\ x.ready = y.ready
      /\ x.registered = y.registered /\ x.io_failures = y.io_failures
  BY <1>1 DEF Runtime
<1> QED BY <1>1, <1>2, <1>3

\* The endpoints of a configured runtime are those of the device it is set for.
LEMMA EndpointsFact ==
    ASSUME UsbInv, NEW i \in Runtimes, NEW id \in Ids, rndis[i].used => rndis[i].id = id,
           NEW succeeds \in BOOLEAN, xhci_configure_bulk_interface(id, succeeds),
           succeeds => Reachable(id), rndis[i].configured \/ succeeds
    PROVE  \E p \in Ports : port_usb_id[p] = id /\ bulk'[p]
<1>1. /\ \A p \in Ports : bulk[p] => bulk'[p]
      /\ succeeds => \A p \in Ports : port_usb_id[p] = id => bulk'[p]
  BY ConfigureFact
<1>2. CASE rndis[i].configured
  <2>1. PICK p \in Ports : port_usb_id[p] = rndis[i].id /\ bulk[p] /\ rndis[i].used
    BY <1>2 DEF UsbInv, Sessions
  <2> QED BY <1>1, <2>1
<1>3. CASE succeeds
  <2>1. PICK p \in Ports : port_usb_id[p] = id BY <1>3 DEF Reachable, PortOf
  <2> QED BY <1>1, <1>3, <2>1
<1> QED BY <1>2, <1>3

LEMMA AppendFact ==
    ASSUME NEW S, NEW s \in Seq(S), NEW e \in S
    PROVE  /\ Append(s, e) \in Seq(S) /\ Len(Append(s, e)) = Len(s) + 1
           /\ DOMAIN s = 1 .. Len(s) /\ DOMAIN Append(s, e) = 1 .. Len(s) + 1
           /\ \A k \in 1 .. Len(s) : Append(s, e)[k] = s[k]
           /\ Append(s, e)[Len(s) + 1] = e
  OBVIOUS

LEMMA SessionUpFact ==
    ASSUME UsbInv, NEW i \in Runtimes, NEW id \in Ids, usb_devices[id] \in Phones,
           rndis[i].used => rndis[i].id = id,
           \A j \in Runtimes \ {i} : rndis[j].used => rndis[j].id # id,
           ~rndis[i].ready, SessionUp(i, id), waiting' \subseteq Timers
    PROVE  SessionStep
<1>0. rndis[i] \in Runtime BY DEF UsbInv, SessionTypes
<1>1. PICK n \in Nat : n = Len(net_devices) /\ n <= ROOT_NET_DEVICE_MAX
  BY DEF UsbInv, SessionTypes
<1>2. PICK y \in Runtime :
        /\ y = Fresh(i, id) /\ y.used = TRUE /\ y.id = id
        /\ y.registered = rndis[i].registered /\ y.io_failures = 0
  BY FreshFact
<1>3. PICK link \in BOOLEAN :
        LET r == [y EXCEPT !.configured = TRUE, !.link_up = link]
            full == Registers(r) /\ Len(net_devices) = ROOT_NET_DEVICE_MAX
        IN  /\ rndis' = [rndis EXCEPT ![i] = [r EXCEPT !.ready = ~full, !.registered = ~full]]
            /\ net_devices' =
                 IF Registers(r) THEN net_device_register(i, usb_devices[id]) ELSE net_devices
  BY <1>2 DEF SessionUp
<1>4. PICK r : r = [y EXCEPT !.configured = TRUE, !.link_up = link] OBVIOUS
<1>5. r \in Runtime /\ r.used = TRUE /\ r.id = id /\ r.configured = TRUE
      /\ r.registered = rndis[i].registered /\ r.io_failures = 0
  <2>1. r \in Runtime BY <1>2, <1>4 DEF Runtime
  <2>2. /\ r.used = y.used /\ r.id = y.id /\ r.configured = TRUE /\ r.registered = y.registered
        /\ r.io_failures = y.io_failures
    BY <1>2, <1>4 DEF Runtime
  <2> QED BY <1>2, <2>1, <2>2
<1>6. PICK up \in BOOLEAN : up = ~(Registers(r) /\ Len(net_devices) = ROOT_NET_DEVICE_MAX)
  OBVIOUS
<1>7. up <=> rndis[i].registered \/ n # ROOT_NET_DEVICE_MAX BY <1>1, <1>5, <1>6 DEF Registers
<1>8. PICK x : x = [r EXCEPT !.ready = up, !.registered = up] OBVIOUS
<1>9. /\ x \in Runtime /\ x.used = TRUE /\ x.id = id /\ x.configured = TRUE
      /\ x.ready = up /\ x.registered = up /\ x.io_failures = 0
  <2>1. x \in Runtime BY <1>5, <1>8 DEF Runtime
  <2>2. /\ x.used = r.used /\ x.id = r.id /\ x.configured = r.configured
        /\ x.ready = up /\ x.registered = up /\ x.io_failures = r.io_failures
    BY <1>5, <1>8 DEF Runtime
  <2> QED BY <1>5, <2>1, <2>2
<1>9a. /\ rndis' = [rndis EXCEPT ![i] = x]
       /\ net_devices' = IF ~rndis[i].registered THEN net_device_register(i, usb_devices[id])
                         ELSE net_devices
  <2>1. rndis' = [rndis EXCEPT ![i] = [r EXCEPT
            !.ready = ~(Registers(r) /\ Len(net_devices) = ROOT_NET_DEVICE_MAX),
            !.registered = ~(Registers(r) /\ Len(net_devices) = ROOT_NET_DEVICE_MAX)]]
    BY <1>3, <1>4, Zenon
  <2>2. net_devices' = IF Registers(r) THEN net_device_register(i, usb_devices[id])
                       ELSE net_devices
    BY <1>3, <1>4, Zenon
  <2>3. Registers(r) <=> ~rndis[i].registered BY <1>5 DEF Registers
  <2>4. rndis' = [rndis EXCEPT ![i] = x] BY <1>6, <1>8, <2>1, Zenon
  <2>5. net_devices' = IF ~rndis[i].registered THEN net_device_register(i, usb_devices[id])
                       ELSE net_devices
    BY <2>2, <2>3, Zenon
  <2> QED BY <2>4, <2>5
<1>10. Reachable(id) /\ xhci_configure_bulk_interface(id, ~rndis[i].configured)
  BY DEF SessionUp
<1>11. (~rndis[i].configured) \in BOOLEAN OBVIOUS
<1>12. bulk' \in [Ports -> BOOLEAN] /\ \A p \in Ports : bulk[p] => bulk'[p]
  BY <1>10, <1>11, ConfigureFact
<1>13. \E p \in Ports : port_usb_id[p] = id /\ bulk'[p]
  BY <1>10, <1>11, EndpointsFact
<1>14. /\ rndis' \in [Runtimes -> Runtime] /\ Sessions(rndis', port_usb_id, bulk', usb_devices)
       /\ \A j \in Runtimes : rndis'[j] = IF j = i THEN x ELSE rndis[j]
  <2>1. x.io_failures < RNDIS_IO_FAILURE_LIMIT BY <1>9, UsbConstants
  <2> QED BY <1>9, <1>12, <1>13, <1>9a, <2>1, OneRuntime
<1>15. SessionTypes(rndis', net_devices', waiting') /\ Registered(rndis', net_devices')
  <2>1. CASE rndis[i].registered \/ ~up
    <3>1. net_devices' = net_devices
      BY <1>1, <1>7, <1>9a, <2>1 DEF net_device_register
    <3>2. x.registered = rndis[i].registered /\ (x.ready => x.registered)
      BY <1>0, <1>7, <1>9, <2>1 DEF Runtime
    <3> QED BY <1>14, <3>1, <3>2 DEF UsbInv, SessionTypes, Registered
  <2>2. CASE ~rndis[i].registered /\ up
    <3>1. PICK e \in [runtime : Runtimes, mac : Phones] :
            e = [runtime |-> i, mac |-> usb_devices[id]] /\ e.runtime = i
      <4>1. PICK e : e = [runtime |-> i, mac |-> usb_devices[id]] OBVIOUS
      <4>2. e \in [runtime : Runtimes, mac : Phones] /\ e.runtime = i BY <4>1
      <4> QED BY <4>1, <4>2
    <3>2. net_devices' = Append(net_devices, e) /\ n + 1 <= ROOT_NET_DEVICE_MAX
      <4>1. n # ROOT_NET_DEVICE_MAX BY <1>7, <2>2
      <4>2. n + 1 <= ROOT_NET_DEVICE_MAX BY <1>1, <4>1, UsbConstants
      <4> QED BY <1>1, <1>9a, <2>2, <3>1, <4>1, <4>2 DEF net_device_register
    <3>3. net_devices \in Seq([runtime : Runtimes, mac : Phones]) BY DEF UsbInv, SessionTypes
    <3>4. /\ net_devices' \in Seq([runtime : Runtimes, mac : Phones]) /\ Len(net_devices') = n + 1
          /\ DOMAIN net_devices = 1 .. n /\ DOMAIN net_devices' = 1 .. n + 1
          /\ \A k \in 1 .. n : net_devices'[k] = net_devices[k]
          /\ net_devices'[n + 1] = e
      BY <1>1, <3>2, <3>3, AppendFact
    <3>5. \A k \in 1 .. n : net_devices[k].runtime # i
      BY <2>2, <3>4 DEF UsbInv, Registered
    <3>6. \A j, k \in DOMAIN net_devices' :
            net_devices'[j].runtime = net_devices'[k].runtime => j = k
      <4> SUFFICES ASSUME NEW j \in 1 .. n + 1, NEW k \in 1 .. n + 1,
                          net_devices'[j].runtime = net_devices'[k].runtime
                   PROVE  j = k
        BY <3>4
      <4>1. j \in 1 .. n \/ j = n + 1 OBVIOUS
      <4>2. k \in 1 .. n \/ k = n + 1 OBVIOUS
      <4>3. CASE j \in 1 .. n /\ k \in 1 .. n
        BY <3>4, <4>3 DEF UsbInv, Registered
      <4> QED BY <3>1, <3>4, <3>5, <4>1, <4>2, <4>3
    <3>7. \A j \in Runtimes :
            rndis'[j].registered <=> \E k \in DOMAIN net_devices' : net_devices'[k].runtime = j
      <4> SUFFICES ASSUME NEW j \in Runtimes
                   PROVE  rndis'[j].registered <=> \E k \in 1 .. n + 1 : net_devices'[k].runtime = j
        BY <3>4
      <4>1. CASE j = i
        <5>1. n + 1 \in 1 .. n + 1 OBVIOUS
        <5>2. rndis'[j].registered = up BY <1>9, <1>14, <4>1
        <5>3. net_devices'[n + 1].runtime = j BY <3>1, <3>4, <4>1
        <5> QED BY <2>2, <5>1, <5>2, <5>3
      <4>2. CASE j # i
        <5>1. rndis'[j].registered <=> \E k \in 1 .. n : net_devices[k].runtime = j
          BY <1>14, <3>4, <4>2 DEF UsbInv, Registered
        <5>2. \A k \in 1 .. n + 1 : k \in 1 .. n \/ net_devices'[k].runtime = i BY <3>1, <3>4
        <5>3. 1 .. n \subseteq 1 .. n + 1 OBVIOUS
        <5> QED BY <3>4, <4>2, <5>1, <5>2, <5>3
      <4> QED BY <4>1, <4>2
    <3>8. \A j \in Runtimes : rndis'[j].ready => rndis'[j].registered
      BY <1>9, <1>14 DEF UsbInv, Registered
    <3>9. Len(net_devices') <= ROOT_NET_DEVICE_MAX BY <3>2, <3>4
    <3> QED BY <1>14, <3>4, <3>6, <3>7, <3>8, <3>9 DEF SessionTypes, Registered
  <2> QED BY <2>1, <2>2
<1>16. faults' \in 0 .. MaxFaults BY FaultFact DEF SessionUp
<1> QED BY <1>12, <1>14, <1>15, <1>16 DEF SessionStep

LEMMA SessionFailsFact ==
    ASSUME UsbInv, NEW i \in Runtimes, NEW id \in Ids, rndis[i].used => rndis[i].id = id,
           \A j \in Runtimes \ {i} : rndis[j].used => rndis[j].id # id,
           ~rndis[i].ready, NEW c \in BOOLEAN, SessionFails(i, id, c), waiting' \subseteq Timers
    PROVE  SessionStep
<1>1. rndis[i] \in Runtime BY DEF UsbInv, SessionTypes
<1>2. PICK y \in Runtime :
        /\ y = Fresh(i, id) /\ y.used = TRUE /\ y.id = id /\ y.ready = rndis[i].ready
        /\ y.registered = rndis[i].registered /\ y.io_failures = 0
  BY FreshFact
<1>3. PICK x \in Runtime :
        /\ x = [y EXCEPT !.configured = c]
        /\ x.used = y.used /\ x.id = y.id /\ x.configured = c /\ x.ready = y.ready
        /\ x.registered = y.registered /\ x.io_failures = y.io_failures
  BY <1>2, SetConfigured
<1>4. PICK succeeds \in BOOLEAN : succeeds = (c /\ ~rndis[i].configured) OBVIOUS
<1>5. /\ rndis' = [rndis EXCEPT ![i] = x] /\ xhci_configure_bulk_interface(id, succeeds)
      /\ net_devices' = net_devices
  BY <1>2, <1>3, <1>4 DEF SessionFails
<1>6. bulk' \in [Ports -> BOOLEAN] /\ \A p \in Ports : bulk[p] => bulk'[p]
  BY <1>5, ConfigureFact
<1>7. c => \E p \in Ports : port_usb_id[p] = id /\ bulk'[p]
  <2>1. succeeds => Reachable(id) BY <1>4 DEF SessionFails
  <2> QED BY <1>4, <1>5, <2>1, EndpointsFact
<1>8. /\ rndis' \in [Runtimes -> Runtime] /\ Sessions(rndis', port_usb_id, bulk', usb_devices)
      /\ \A j \in Runtimes : rndis'[j] = IF j = i THEN x ELSE rndis[j]
  <2>1. x.used /\ x.id = id /\ ~x.ready /\ x.configured = c BY <1>2, <1>3
  <2> QED BY <1>5, <1>6, <1>7, <2>1, OneRuntime
<1>9. Registered(rndis', net_devices')
  <2>1. \A j \in Runtimes : rndis'[j].registered = rndis[j].registered
                            /\ rndis'[j].ready = rndis[j].ready
    BY <1>2, <1>3, <1>8
  <2> QED BY <1>5, <2>1 DEF UsbInv, Registered
<1>10. faults' \in 0 .. MaxFaults BY FaultFact DEF SessionFails
<1> QED BY <1>5, <1>6, <1>8, <1>9, <1>10 DEF SessionStep, UsbInv, SessionTypes

LEMMA InitializeFact ==
    ASSUME UsbInv, NEW id \in Ids, NEW retry \in SUBSET Timers, initialize_device(id, retry)
    PROVE  SessionStep
<1>1. waiting' \subseteq Timers
  BY DEF initialize_device, UsbInv, SessionTypes
<1>2. CASE Initializes(id)
  <2>1. PICK i \in Runtimes :
          /\ i = Least(RuntimesOf(id)) /\ (rndis[i].used => rndis[i].id = id)
          /\ \A j \in Runtimes \ {i} : rndis[j].used => rndis[j].id # id
    BY <1>2, RuntimeOfFact DEF Initializes
  <2>2. usb_devices[id] \in Phones /\ ~rndis[i].ready
    BY <1>2, <2>1 DEF Initializes, find_rndis_interfaces
  <2>3. SessionUp(i, id) \/ \E c \in BOOLEAN : SessionFails(i, id, c)
    BY <1>2, <2>1 DEF initialize_device
  <2> QED BY <1>1, <2>1, <2>2, <2>3, SessionUpFact, SessionFailsFact
<1>3. CASE ~Initializes(id)
  <2>1. UNCHANGED <<bulk, rndis, net_devices, faults>> BY <1>3 DEF initialize_device
  <2> QED BY <1>1, <2>1 DEF SessionStep, UsbInv, SessionTypes, PortTypes, CountTypes
<1> QED BY <1>2, <1>3

LEMMA SessionStepKept ==
    ASSUME UsbInv, UNCHANGED <<bulk, rndis, net_devices, faults>>, waiting' \subseteq Timers
    PROVE  SessionStep
  BY DEF SessionStep, UsbInv, SessionTypes, PortTypes, CountTypes

\* A task that only brings sessions up, or down.
LEMMA SessionTask ==
    ASSUME UsbInv, SessionStep, NEW name \in {"added", "probe", "runtime"}, Task(name), Done,
           InventoryTypes(usb_devices', usb_pending_add'),
           UNCHANGED <<physical, running, port_usb_id, addressed, reprobe, attempts, usb_devices,
                       blocks, plugs>>
    PROVE  UsbInv'
<1>1. UNCHANGED <<plugged, enabled, csc, pec, running, port_usb_id, addressed, reprobe, attempts,
                  usb_devices, blocks, plugs>>
  BY DEF physical
<1>2. /\ todo' = Tail(todo) /\ TodoOK(todo') /\ Pending(todo', port_usb_id, rndis)
      /\ \A k \in DOMAIN todo' : todo'[k][1] # "receive"
  BY TaskFact DEF Done
<1>3. Pending(todo', port_usb_id, rndis') BY <1>2 DEF Pending
<1> QED BY <1>1, <1>2, <1>3 DEF UsbInv, SessionStep, PortTypes, CountTypes

LEMMA DeviceAddedInv == ASSUME UsbInv, DeviceAdded PROVE UsbInv'
<1>1. Task("added") /\ Done /\ Arg \in Ids BY ArgFact DEF DeviceAdded
<1>2. InventoryTypes(usb_devices', usb_pending_add')
  BY <1>1 DEF DeviceAdded, UsbInv, InventoryTypes
<1>3. SessionStep
  <2>1. CASE usb_pending_add[Arg]
    <3>1. initialize_device(Arg, {}) BY <2>1 DEF DeviceAdded
    <3> QED BY <1>1, <3>1, InitializeFact
  <2>2. CASE ~usb_pending_add[Arg]
    <3>1. UNCHANGED <<bulk, rndis, net_devices, waiting, faults>> BY <2>2 DEF DeviceAdded
    <3> QED BY <3>1, SessionStepKept DEF UsbInv, SessionTypes
  <2> QED BY <2>1, <2>2
<1>4. UNCHANGED <<physical, running, port_usb_id, addressed, reprobe, attempts, usb_devices,
                  blocks, plugs>>
  BY DEF DeviceAdded
<1> QED BY <1>1, <1>2, <1>3, <1>4, SessionTask

LEMMA ProbeInv == ASSUME UsbInv, Probe PROVE UsbInv'
<1>1. Task("probe") /\ Done /\ Arg \in Ids BY ArgFact DEF Probe
<1>2. SessionStep BY <1>1, InitializeFact DEF Probe
<1>3. UNCHANGED <<physical, running, port_usb_id, addressed, reprobe, attempts, usb_devices,
                  usb_pending_add, blocks, plugs>>
  BY DEF Probe, inventory
<1>4. InventoryTypes(usb_devices', usb_pending_add') BY <1>3 DEF UsbInv
<1> QED BY <1>1, <1>2, <1>3, <1>4, SessionTask

LEMMA ServiceRuntimeInv == ASSUME UsbInv, ServiceRuntime PROVE UsbInv'
<1>1. Task("runtime") /\ Done /\ Arg \in Runtimes BY ArgFact DEF ServiceRuntime
<1>2. UNCHANGED <<physical, running, port_usb_id, addressed, reprobe, attempts, usb_devices,
                  usb_pending_add, blocks, plugs>>
  BY DEF ServiceRuntime, inventory
<1>3. rndis[Arg].id \in Ids BY <1>1 DEF UsbInv, SessionTypes, Runtime
<1>4. SessionStep
  <2>1. CASE rndis_usb_removed({rndis[Arg].id}, {}) /\ UNCHANGED <<bulk, net_devices, faults>>
    <3>1. /\ SessionTypes(rndis', net_devices, waiting') /\ Weaker(rndis', rndis)
          /\ Registered(rndis', net_devices)
      BY <2>1, RemovedFact
    <3>2. Sessions(rndis, port_usb_id, bulk, usb_devices) BY DEF UsbInv
    <3>3. \A i \in Runtimes : rndis'[i].configured =>
            \E p \in Ports : port_usb_id[p] = rndis[i].id /\ bulk[p]
      BY <3>1, <3>2 DEF Sessions, Weaker
    <3>4. Sessions(rndis', port_usb_id, bulk, usb_devices) BY <3>1, <3>2, <3>3, SessionsKept
    <3> QED BY <2>1, <3>1, <3>4 DEF SessionStep, UsbInv, PortTypes, CountTypes
  <2>2. CASE initialize_device(rndis[Arg].id, {<<"runtime", Arg>>})
    <3>1. {<<"runtime", Arg>>} \in SUBSET Timers BY <1>1 DEF Timers
    <3> QED BY <1>3, <2>2, <3>1, InitializeFact
  <2>3. CASE UNCHANGED <<bulk, rndis, net_devices, waiting, faults>>
    BY <2>3, SessionStepKept DEF UsbInv, SessionTypes
  <2> QED BY <2>1, <2>2, <2>3 DEF ServiceRuntime
<1>5. InventoryTypes(usb_devices', usb_pending_add') BY <1>2 DEF UsbInv
<1> QED BY <1>1, <1>2, <1>4, <1>5, SessionTask

-----------------------------------------------------------------------------
(* The pass and the commands.                                              *)

\* A step that changes only the work left, and puts `s' there.
LEMMA NewWork ==
    ASSUME UsbInv, TodoOK(todo'), Pending(todo', port_usb_id, rndis),
           UNCHANGED <<physical, running, ports, inventory, rndis, net_devices, waiting, plugs, faults>>,
           BlockTypes(blocks')
    PROVE  UsbInv'
  BY DEF UsbInv, physical, ports, inventory

LEMMA EmptyWork == ASSUME NEW port, NEW r PROVE TodoOK(<<>>) /\ Pending(<<>>, port, r)
<1>1. {} \subseteq DeviceKinds OBVIOUS
<1>2. Kinds(<<>>, DeviceKinds) BY <1>1, PassKinds, MoreKinds
<1> QED BY <1>2, DeviceWork

LEMMA ShellRunInv == ASSUME UsbInv, shell_run PROVE UsbInv'
<1>1. PICK names : names = {"port"} \cup DeviceKinds OBVIOUS
<1>2. {"port"} \subseteq names /\ {"added"} \subseteq names /\ {"runtime"} \subseteq names
      /\ {} \subseteq names
  BY <1>1 DEF DeviceKinds
<1>3. Kinds(xhci_poll, names)
  <2>1. Kinds(Tasks("port", MAX_PORTS, 1), names) /\ Kinds(<<>>, names)
    BY <1>2, PassKinds, MoreKinds
  <2> QED BY <2>1 DEF xhci_poll
<1>4. Kinds(usb_service, names) /\ Kinds(rndis_service, names)
  BY <1>2, PassKinds, MoreKinds
<1>5. Kinds(xhci_poll \o usb_service, names) BY <1>3, <1>4, JoinKinds
<1>6. PICK s : s = xhci_poll \o usb_service \o rndis_service /\ Kinds(s, names)
  BY <1>4, <1>5, JoinKinds
<1>7. PICK x : x = <<"command", 0>> OBVIOUS
<1>7a. x \in AllTasks /\ x[1] = "command" BY <1>7 DEF AllTasks
<1>8. todo' = s \o <<x>> BY <1>6, <1>7 DEF shell_run
<1>9. TodoOK(s \o <<x>>) /\ Pending(s \o <<x>>, port_usb_id, rndis)
  <2>1. names \subseteq {"port"} \cup DeviceKinds BY <1>1
  <2> QED BY <1>6, <1>7a, <2>1, LastTask
<1>10. /\ UNCHANGED <<physical, running, ports, inventory, rndis, net_devices, waiting, plugs, faults>>
       /\ BlockTypes(blocks')
  BY DEF shell_run, UsbInv
<1> QED BY <1>8, <1>9, <1>10, NewWork

\* After a restart no runtime is configured, since the one of every id in use
\* was told.
LEMMA RestartFact ==
    ASSUME UsbInv, Command, NEW S \in {Ids, UsedIds}, NEW after, Kinds(after, DeviceKinds),
           Restart(S, after), BlockTypes(blocks')
    PROVE  UsbInv'
<1>1. Tail(todo) = <<>> BY TaskFact DEF Command
<1>2. /\ usb_reset_inventory(S) /\ xhci_controller_setup(after)
      /\ UNCHANGED <<plugged, net_devices, plugs>>
  BY DEF Restart
<1>3. /\ SessionTypes(rndis', net_devices, waiting') /\ Weaker(rndis', rndis)
      /\ Registered(rndis', net_devices)
      /\ \A i \in Runtimes : rndis[i].used /\ rndis[i].id \in S =>
           ~rndis'[i].configured /\ ~rndis'[i].ready
  <2>1. {} \in SUBSET Timers OBVIOUS
  <2> QED BY <1>2, <2>1, RemovedFact DEF usb_reset_inventory
<1>4. \A i \in Runtimes : ~rndis'[i].configured
  <2> SUFFICES ASSUME NEW i \in Runtimes, rndis'[i].configured PROVE FALSE OBVIOUS
  <2>1. rndis[i].used /\ \E p \in Ports : port_usb_id[p] = rndis[i].id
    BY <1>3 DEF Weaker, UsbInv, Sessions
  <2>2. PICK p \in Ports : port_usb_id[p] = rndis[i].id BY <2>1
  <2>3. rndis[i].id \in Ids BY DEF UsbInv, SessionTypes, Runtime
  <2>4. usb_devices[rndis[i].id] # None
    <3>1. port_usb_id[p] # -1 BY <2>2, <2>3, UsbConstants
    <3> QED BY <2>2, <3>1 DEF UsbInv, PortTables
  <2>5. rndis[i].id \in S BY <2>3, <2>4 DEF UsedIds, FreeIds
  <2> QED BY <1>3, <2>1, <2>5
<1>5. \A i \in Runtimes : ~rndis'[i].ready BY <1>3, <1>4 DEF Weaker
<1>6. /\ port_usb_id' = [p \in Ports |-> -1] /\ addressed' = [p \in Ports |-> None]
      /\ bulk' = [p \in Ports |-> FALSE] /\ reprobe' = [p \in Ports |-> FALSE]
      /\ attempts' = [p \in Ports |-> 0]
      /\ enabled' = [p \in Ports |-> FALSE] /\ pec' = [p \in Ports |-> FALSE]
      /\ csc' = [p \in Ports |-> Connected(p)] /\ plugged' = plugged
  BY <1>2 DEF xhci_controller_setup, ControllerReset
<1>7. PortTypes(port_usb_id', addressed', bulk', reprobe', attempts')
  <2>1. 0 \in 0 .. REPROBES BY UsbConstants
  <2> QED BY <1>6, <2>1 DEF PortTypes
<1>8. running' \in BOOLEAN /\ faults' \in 0 .. MaxFaults
  BY <1>2, FaultFact DEF xhci_controller_setup
<1>9. PhysicalTypes(plugged', enabled', csc', pec', running')
  <2>1. csc' \in [Ports -> BOOLEAN] BY <1>6 DEF Connected
  <2> QED BY <1>6, <1>8, <2>1 DEF UsbInv, PhysicalTypes
<1>10. /\ usb_devices' = [id \in Ids |-> None] /\ usb_pending_add' = [id \in Ids |-> FALSE]
  BY <1>2 DEF usb_reset_inventory
<1>11. InventoryTypes(usb_devices', usb_pending_add') BY <1>10 DEF InventoryTypes
<1>12. PortTables(port_usb_id', addressed', usb_devices') BY <1>6, <1>10 DEF PortTables
<1>13. Sessions(rndis', port_usb_id', bulk', usb_devices')
  <2>1. Sessions(rndis, port_usb_id, bulk, usb_devices) BY DEF UsbInv
  <2> QED BY <1>3, <1>4, <1>5, <2>1, SessionsKept
<1>14. TodoOK(todo') /\ Pending(todo', port_usb_id', rndis')
  <2>1. CASE todo' = Tasks("scan", MAX_PORTS, 1) \o after \o <<>>
    <3>1. \A p \in Ports : port_usb_id'[p] = -1 BY <1>6
    <3> QED BY <2>1, <3>1, ScanWork
  <2>2. CASE todo' = <<>> BY <2>2, EmptyWork
  <2> QED BY <1>1, <1>2, <2>1, <2>2 DEF xhci_controller_setup
<1> QED BY <1>2, <1>3, <1>7, <1>8, <1>9, <1>11, <1>12, <1>13, <1>14
        DEF UsbInv, CountTypes

LEMMA CommandsInv == ASSUME UsbInv, Commands PROVE UsbInv'
<1>1. Command => Tail(todo) = <<>> BY TaskFact DEF Command
<1>2. BlockTypes(blocks) /\ BlockTypes({})
  <2>1. IsFiniteSet({}) /\ Cardinality({}) = 0 BY FS_EmptySet
  <2> QED BY <2>1, UsbConstants DEF UsbInv, BlockTypes
<1>3. CASE NoCommand
  <2>1. todo' = <<>> BY <1>1, <1>3 DEF NoCommand, Done
  <2>2. /\ UNCHANGED <<physical, running, ports, inventory, rndis, net_devices, waiting, plugs, faults>>
        /\ blocks' = blocks
    BY <1>3 DEF NoCommand
  <2> QED BY <1>2, <2>1, <2>2, EmptyWork, NewWork
<1>4. CASE UsbRescan
  BY <1>2, <1>4, ServicesKinds, RestartFact DEF UsbRescan
<1>5. CASE UsbStart
  BY <1>2, <1>5, ServicesKinds, RestartFact DEF UsbStart
<1>6. CASE UsbProbe
  <2>1. PICK after \in {rndis_probe_all, Services} : todo' = after \o <<>>
    BY <1>1, <1>6 DEF UsbProbe
  <2>2. Kinds(after, DeviceKinds) BY ServicesKinds
  <2>3. TodoOK(todo') /\ Pending(todo', port_usb_id, rndis) BY <2>1, <2>2, DeviceWork
  <2>4. /\ UNCHANGED <<physical, running, ports, inventory, rndis, net_devices, waiting, plugs, faults>>
        /\ blocks' = blocks
    BY <1>6 DEF UsbProbe
  <2> QED BY <1>2, <2>3, <2>4, NewWork
<1>7. CASE UsbStorage
  <2>1. blocks' = {} /\ Command BY <1>7 DEF UsbStorage, block_device_remove_bus
  <2>2. PICK scan : scan = Tasks("mass", USB_MAX_DEVICES, 0) OBVIOUS
  <2>3. Kinds(scan, DeviceKinds) BY <2>2, ServicesKinds
  <2>4. CASE Restart(UsedIds, scan) BY <1>2, <2>1, <2>3, <2>4, RestartFact
  <2>5. CASE /\ todo' = scan \o Tail(todo)
             /\ UNCHANGED <<physical, running, ports, inventory, rndis, net_devices, waiting,
                            plugs, faults>>
    <3>1. todo' = scan \o <<>> BY <1>1, <2>1, <2>5
    <3>2. TodoOK(todo') /\ Pending(todo', port_usb_id, rndis) BY <2>3, <3>1, DeviceWork
    <3> QED BY <1>2, <2>1, <2>5, <3>2, NewWork
  <2> QED BY <1>7, <2>2, <2>4, <2>5 DEF UsbStorage
<1> QED BY <1>3, <1>4, <1>5, <1>6, <1>7 DEF Commands

\* Block devices are added while there is room.
LEMMA ScanStorageInv == ASSUME UsbInv, ScanStorage PROVE UsbInv'
<1>1. PICK id \in Ids : Task("mass") /\ id = Arg /\ todo' = Tail(todo)
  BY ArgFact DEF ScanStorage, Done
<1>2. UNCHANGED <<plugged, enabled, csc, pec, running, port_usb_id, addressed, reprobe, attempts,
                  usb_devices, usb_pending_add, rndis, net_devices, waiting, plugs>>
  BY DEF ScanStorage, physical, inventory
<1>3. TodoOK(todo') /\ Pending(todo', port_usb_id, rndis) BY <1>1, TaskFact
<1>4. BlockTypes(blocks) /\ Sessions(rndis, port_usb_id, bulk, usb_devices) BY DEF UsbInv
<1>5. /\ BlockTypes(blocks') /\ bulk' \in [Ports -> BOOLEAN] /\ faults' \in 0 .. MaxFaults
      /\ \A p \in Ports : bulk[p] => bulk'[p]
  <2>1. CASE UNCHANGED <<bulk, blocks, faults>>
    BY <1>4, <2>1 DEF UsbInv, PortTypes, CountTypes
  <2>2. CASE mass_find_interface(usb_devices[id]) /\ StickRegistered(id)
    <3>1. PICK b : b = <<id, usb_devices[id]>> OBVIOUS
    <3>2. b \in Ids \X Sticks /\ Cardinality(blocks) < USB_MASS_MAX_DEVICES
      BY <2>2, <3>1 DEF mass_find_interface
    <3>3. blocks' = blocks \cup {b} BY <2>2, <3>1 DEF StickRegistered
    <3>4. IsFiniteSet(blocks) /\ Cardinality(blocks) \in Nat
      BY <1>4, FS_CardinalityType DEF BlockTypes
    <3>5. IsFiniteSet(blocks') /\ Cardinality(blocks') <= Cardinality(blocks) + 1
      <4>1. /\ IsFiniteSet(blocks \cup {b})
            /\ Cardinality(blocks \cup {b}) =
                 IF b \in blocks THEN Cardinality(blocks) ELSE Cardinality(blocks) + 1
        BY <3>4, FS_AddElement
      <4> QED BY <3>3, <3>4, <4>1
    <3>6. Cardinality(blocks') \in Nat BY <3>5, FS_CardinalityType
    <3>7. Cardinality(blocks') <= USB_MASS_MAX_DEVICES BY <3>2, <3>4, <3>5, <3>6, UsbConstants
    <3>8. BlockTypes(blocks') BY <1>4, <3>2, <3>3, <3>5, <3>7 DEF BlockTypes
    <3>9. TRUE \in BOOLEAN OBVIOUS
    <3> QED BY <2>2, <3>8, <3>9, ConfigureFact DEF StickRegistered, UsbInv, CountTypes
  <2>3. CASE StickFails(id)
    <3>1. PICK ok \in BOOLEAN : xhci_configure_bulk_interface(id, ok)
      <4>1. Reachable(id) \in BOOLEAN BY DEF Reachable
      <4> QED BY <2>3, <4>1 DEF StickFails
    <3>2. faults' \in 0 .. MaxFaults BY <2>3, FaultFact DEF StickFails
    <3>3. blocks' = blocks BY <2>3 DEF StickFails
    <3> QED BY <1>4, <3>1, <3>2, <3>3, ConfigureFact
  <2> QED BY <1>1, <2>1, <2>2, <2>3 DEF ScanStorage
<1>6. Sessions(rndis', port_usb_id', bulk', usb_devices')
  <2>1. Sessions(rndis, port_usb_id, bulk', usb_devices)
    BY <1>4, <1>5 DEF Sessions
  <2> QED BY <1>2, <2>1
<1> QED BY <1>2, <1>3, <1>5, <1>6 DEF UsbInv, PhysicalTypes, PortTypes, CountTypes

-----------------------------------------------------------------------------
(* Frames, and the environment.                                            *)

\* A step that only takes sessions down, at the end of a pass.
LEMMA FrameStep ==
    ASSUME UsbInv, SessionTypes(rndis', net_devices, waiting'), Weaker(rndis', rndis),
           faults' \in 0 .. MaxFaults, todo' = <<>>,
           UNCHANGED <<physical, running, ports, inventory, net_devices, blocks, plugs>>
    PROVE  UsbInv'
<1>1. UNCHANGED <<plugged, enabled, csc, pec, running, port_usb_id, addressed, bulk, reprobe,
                  attempts, usb_devices, usb_pending_add, net_devices, blocks, plugs>>
  BY DEF physical, ports, inventory
<1>2. Sessions(rndis, port_usb_id, bulk, usb_devices) BY DEF UsbInv
<1>3. \A i \in Runtimes : rndis'[i].configured =>
        \E p \in Ports : port_usb_id[p] = rndis[i].id /\ bulk[p]
  BY <1>2 DEF Sessions, Weaker
<1>4. Sessions(rndis', port_usb_id, bulk, usb_devices) BY <1>2, <1>3, SessionsKept
<1>5. Registered(rndis', net_devices) BY RegisteredKept DEF UsbInv
<1>6. TodoOK(todo') /\ Pending(todo', port_usb_id', rndis') BY EmptyWork
<1> QED BY <1>1, <1>4, <1>5, <1>6 DEF UsbInv, CountTypes

LEMMA TransportFact ==
    ASSUME UsbInv, NEW i \in Runtimes, rndis[i].io_failures < RNDIS_IO_FAILURE_LIMIT,
           mark_transport_success(i) \/ mark_transport_failure(i)
    PROVE  /\ SessionTypes(rndis', net_devices, waiting') /\ Weaker(rndis', rndis)
           /\ faults' \in 0 .. MaxFaults
<1>1. rndis \in [Runtimes -> Runtime] /\ rndis[i] \in Runtime /\ waiting \subseteq Timers
  BY DEF UsbInv, SessionTypes
<1>2. \A j \in Runtimes : rndis[j].ready =>
        rndis[j].configured /\ rndis[j].io_failures < RNDIS_IO_FAILURE_LIMIT
  BY DEF UsbInv, Sessions
<1>3. ASSUME NEW x \in Runtime, rndis' = [rndis EXCEPT ![i] = x],
             x.used = rndis[i].used, x.id = rndis[i].id, x.registered = rndis[i].registered,
             x.configured = rndis[i].configured,
             x.ready => rndis[i].ready /\ x.io_failures < RNDIS_IO_FAILURE_LIMIT
      PROVE  rndis' \in [Runtimes -> Runtime] /\ Weaker(rndis', rndis)
  <2>1. \A j \in Runtimes : rndis'[j] = IF j = i THEN x ELSE rndis[j] BY <1>1, <1>3
  <2>2. Weaker(rndis', rndis) BY <1>2, <1>3, <2>1 DEF Weaker
  <2> QED BY <1>1, <1>3, <2>2
<1>4. CASE mark_transport_success(i)
  <2>1. PICK x : x = [rndis[i] EXCEPT !.io_failures = 0] OBVIOUS
  <2>2. 0 \in 0 .. RNDIS_IO_FAILURE_LIMIT /\ 0 < RNDIS_IO_FAILURE_LIMIT BY UsbConstants
  <2>3. x \in Runtime BY <1>1, <2>1, <2>2 DEF Runtime
  <2>4. /\ x.used = rndis[i].used /\ x.id = rndis[i].id /\ x.registered = rndis[i].registered
        /\ x.configured = rndis[i].configured /\ x.ready = rndis[i].ready /\ x.io_failures = 0
    BY <1>1, <2>1 DEF Runtime
  <2>5. rndis' = [rndis EXCEPT ![i] = x] BY <1>1, <1>4, <2>1 DEF mark_transport_success
  <2>6. faults' \in 0 .. MaxFaults /\ waiting' = waiting
    BY <1>4 DEF mark_transport_success, UsbInv, CountTypes
  <2> QED BY <1>1, <1>3, <2>2, <2>3, <2>4, <2>5, <2>6 DEF UsbInv, SessionTypes
<1>5. CASE mark_transport_failure(i)
  <2>1. PICK n \in 0 .. RNDIS_IO_FAILURE_LIMIT : n = rndis[i].io_failures + 1
    BY <1>1, UsbConstants DEF Runtime
  <2>2. PICK r : r = [rndis[i] EXCEPT !.io_failures = n] OBVIOUS
  <2>3. r \in Runtime BY <1>1, <2>2 DEF Runtime
  <2>4. /\ r.used = rndis[i].used /\ r.id = rndis[i].id /\ r.registered = rndis[i].registered
        /\ r.configured = rndis[i].configured /\ r.ready = rndis[i].ready /\ r.io_failures = n
    BY <1>1, <2>2 DEF Runtime
  <2>5. PICK x : x = IF n >= RNDIS_IO_FAILURE_LIMIT
                     THEN [r EXCEPT !.ready = FALSE, !.link_up = FALSE] ELSE r
    OBVIOUS
  <2>6. x \in Runtime BY <2>3, <2>5 DEF Runtime
  <2>7. /\ x.used = r.used /\ x.id = r.id /\ x.registered = r.registered
        /\ x.configured = r.configured /\ x.io_failures = n
        /\ x.ready => r.ready /\ n < RNDIS_IO_FAILURE_LIMIT
    BY <2>1, <2>3, <2>4, <2>5, UsbConstants DEF Runtime
  <2>8. r = [rndis[i] EXCEPT !.io_failures = @ + 1] BY <2>1, <2>2
  <2>9. rndis' = [rndis EXCEPT ![i] = x]
    BY <1>5, <2>4, <2>5, <2>8 DEF mark_transport_failure
  <2>10. faults' \in 0 .. MaxFaults BY <1>5, FaultFact DEF mark_transport_failure
  <2>11. waiting' \subseteq Timers
    <3>1. waiting' \in {waiting, waiting \cup {<<"runtime", i>>}}
      BY <1>5 DEF mark_transport_failure
    <3> QED BY <1>1, <3>1 DEF Timers
  <2> QED BY <1>3, <2>4, <2>6, <2>7, <2>9, <2>10, <2>11 DEF UsbInv, SessionTypes
<1> QED BY <1>4, <1>5

LEMMA AdaptersFact == ASSUME UsbInv PROVE Adapters \subseteq Runtimes
<1>1. net_devices \in Seq([runtime : Runtimes, mac : Phones]) BY DEF UsbInv, SessionTypes
<1>2. PICK S : S = [runtime : Runtimes, mac : Phones] OBVIOUS
<1>3. \A k \in DOMAIN net_devices : net_devices[k] \in S
  BY <1>1, <1>2, ElementOfSeq, LenProperties
<1>4. \A x \in S : x.runtime \in Runtimes BY <1>2
<1> QED BY <1>3, <1>4 DEF Adapters

LEMMA FrameInv == ASSUME UsbInv, Frame PROVE UsbInv'
<1>1. \A i \in Runtimes : rndis[i].ready => rndis[i].io_failures < RNDIS_IO_FAILURE_LIMIT
  BY DEF UsbInv, Sessions
<1>2. CASE rndis_net_send
  <2>1. PICK i \in Runtimes :
          rndis[i].ready /\ (mark_transport_success(i) \/ mark_transport_failure(i))
    BY <1>2, AdaptersFact DEF rndis_net_send
  <2>2. todo' = <<>> BY <1>2, TaskFact DEF rndis_net_send, Command, Done
  <2>3. UNCHANGED <<physical, running, ports, inventory, net_devices, blocks, plugs>>
    BY <1>2 DEF rndis_net_send
  <2> QED BY <1>1, <2>1, <2>2, <2>3, TransportFact, FrameStep
<1>3. CASE Received
  <2>1. PICK i \in Runtimes :
          /\ i = Arg /\ Task("receive") /\ rndis[i].io_failures < RNDIS_IO_FAILURE_LIMIT
    BY <1>3, ArgFact, TaskFact DEF Received
  <2>2. todo' = <<>> BY <1>3, TaskFact DEF Received, Done
  <2>3. UNCHANGED <<physical, running, ports, inventory, net_devices, blocks, plugs>>
    BY <1>3 DEF Received
  <2>4. CASE mark_transport_success(i) \/ mark_transport_failure(i)
    BY <2>1, <2>2, <2>3, <2>4, TransportFact, FrameStep
  <2>5. CASE UNCHANGED <<rndis, waiting, faults>>
    <3>1. Weaker(rndis', rndis) BY <2>5, WeakerSame DEF UsbInv
    <3>2. SessionTypes(rndis', net_devices, waiting') /\ faults' \in 0 .. MaxFaults
      BY <2>5 DEF UsbInv, CountTypes
    <3> QED BY <2>2, <2>3, <3>1, <3>2, FrameStep
  <2> QED BY <1>3, <2>1, <2>4, <2>5 DEF Received
<1>4. CASE rndis_net_receive
  <2>1. PICK i \in Runtimes :
          rndis[i].ready /\ todo' = xhci_poll \o <<<<"receive", i>>>> \o <<>>
    BY <1>4, AdaptersFact, TaskFact DEF rndis_net_receive, Command
  <2>2. PICK x : x = <<"receive", i>> OBVIOUS
  <2>3. x \in AllTasks /\ x[1] = "receive" /\ x[2] = i BY <2>2 DEF AllTasks
  <2>4. Kinds(xhci_poll, {"port"})
    <3>1. {} \subseteq {"port"} OBVIOUS
    <3>2. Kinds(<<>>, {"port"}) BY <3>1, PassKinds, MoreKinds
    <3> QED BY <3>2, PassKinds DEF xhci_poll
  <2>5. xhci_poll \o <<x>> \o <<>> = xhci_poll \o <<x>>
    <3>1. xhci_poll \in Seq(AllTasks) /\ <<x>> \in Seq(AllTasks) BY <2>3, <2>4 DEF Kinds
    <3> QED BY <3>1, ConcatProperties, ConcatEmptySeq
  <2>6. TodoOK(xhci_poll \o <<x>>) /\ Pending(xhci_poll \o <<x>>, port_usb_id, rndis)
    <3>1. {"port"} \subseteq {"port"} \cup DeviceKinds OBVIOUS
    <3> QED BY <1>1, <2>1, <2>3, <2>4, <3>1, LastTask
  <2>7. /\ UNCHANGED <<physical, running, ports, inventory, rndis, net_devices, waiting, plugs, faults>>
        /\ BlockTypes(blocks')
    BY <1>4 DEF rndis_net_receive, UsbInv
  <2> QED BY <2>1, <2>2, <2>5, <2>6, <2>7, NewWork
<1> QED BY <1>2, <1>3, <1>4 DEF Frame

LEMMA EnvironmentInv == ASSUME UsbInv, Environment PROVE UsbInv'
<1>1. PhysicalTypes(plugged, enabled, csc, pec, running) /\ plugs \in 0 .. MaxPlugs
  BY DEF UsbInv, CountTypes
<1>2. ASSUME NEW p \in Ports, Unplug(p) \/ PortError(p) \/ \E d \in Devices : Plug(p, d)
      PROVE  UsbInv'
  <2>1. AtPort(p) BY <1>2 DEF Unplug, PortError, Plug
  <2>2. UNCHANGED <<running, ports, inventory, rndis, net_devices, blocks, waiting, todo, faults>>
    BY <2>1 DEF AtPort
  <2>3. plugs' \in 0 .. MaxPlugs BY <1>1, <2>1, UsbConstants DEF AtPort
  <2>4. enabled' \in [Ports -> BOOLEAN] BY <1>1, <2>1 DEF AtPort, PhysicalTypes
  <2>5. /\ plugged' \in [Ports -> Devices \cup {None}] /\ csc' \in [Ports -> BOOLEAN]
        /\ pec' \in [Ports -> BOOLEAN]
    BY <1>1, <1>2 DEF Unplug, PortError, Plug, PhysicalTypes
  <2>6. PhysicalTypes(plugged', enabled', csc', pec', running')
    BY <1>1, <2>2, <2>4, <2>5 DEF PhysicalTypes
  <2> QED BY <2>2, <2>3, <2>6 DEF UsbInv, CountTypes, ports, inventory
<1>3. ASSUME NEW t \in Timers, TimerEnds(t) PROVE UsbInv'
  <2>1. UNCHANGED <<physical, running, ports, inventory, rndis, net_devices, blocks, todo, plugs,
                    faults>>
    BY <1>3 DEF TimerEnds
  <2>2. SessionTypes(rndis', net_devices', waiting')
    BY <1>3, <2>1 DEF TimerEnds, UsbInv, SessionTypes
  <2> QED BY <2>1, <2>2 DEF UsbInv, physical, ports, inventory
<1> QED BY <1>2, <1>3 DEF Environment

-----------------------------------------------------------------------------
(* The theorems.                                                           *)

LEMMA UsbInitInv == ASSUME Init PROVE UsbInv
<1>1. PhysicalTypes(plugged, enabled, csc, pec, running) BY DEF Init, PhysicalTypes
<1>2. PortTypes(port_usb_id, addressed, bulk, reprobe, attempts)
  <2>1. 0 \in 0 .. REPROBES BY UsbConstants
  <2> QED BY <2>1 DEF Init, PortTypes
<1>3. InventoryTypes(usb_devices, usb_pending_add) BY DEF Init, InventoryTypes
<1>4. SessionTypes(rndis, net_devices, waiting)
  <2>1. FreeRuntime \in Runtime
    <3>1. 0 \in Ids /\ 0 \in 0 .. RNDIS_IO_FAILURE_LIMIT BY UsbConstants DEF Ids
    <3> QED BY <3>1 DEF FreeRuntime, Runtime
  <2>2. net_devices = <<>> /\ Len(<<>>) = 0 /\ <<>> \in Seq([runtime : Runtimes, mac : Phones])
    BY EmptySeq DEF Init
  <2> QED BY <2>1, <2>2, UsbConstants DEF Init, SessionTypes
<1>5. BlockTypes(blocks)
  <2>1. IsFiniteSet({}) /\ Cardinality({}) = 0 BY FS_EmptySet
  <2> QED BY <2>1, UsbConstants DEF Init, BlockTypes
<1>6. CountTypes(plugs, faults) BY UsbConstants DEF Init, CountTypes
<1>7. PortTables(port_usb_id, addressed, usb_devices) BY DEF Init, PortTables
<1>8. Sessions(rndis, port_usb_id, bulk, usb_devices) BY DEF Init, Sessions, FreeRuntime
<1>9. Registered(rndis, net_devices)
  <2>1. net_devices = <<>> /\ DOMAIN <<>> = {} BY DEF Init
  <2> QED BY <2>1 DEF Init, Registered, FreeRuntime
<1>10. TodoOK(todo) /\ Pending(todo, port_usb_id, rndis) BY EmptyWork DEF Init
<1> QED BY <1>1, <1>2, <1>3, <1>4, <1>5, <1>6, <1>7, <1>8, <1>9, <1>10 DEF UsbInv

LEMMA UsbStepInv == UsbInv /\ [Next]_vars => UsbInv'
<1> SUFFICES ASSUME UsbInv, [Next]_vars PROVE UsbInv' OBVIOUS
<1>1. CASE Loop
  BY <1>1, ShellRunInv, PollPortInv, DeviceAddedInv, ServiceRuntimeInv DEF Loop
<1>2. CASE Scan BY <1>2, ProbeInv, ScanPortInv, ScanStorageInv DEF Scan
<1>3. CASE Commands BY <1>3, CommandsInv
<1>4. CASE Frame BY <1>4, FrameInv
<1>5. CASE Environment BY <1>5, EnvironmentInv
<1>6. CASE UNCHANGED vars
  BY <1>6 DEF vars, physical, ports, inventory, UsbInv
<1> QED BY <1>1, <1>2, <1>3, <1>4, <1>5, <1>6 DEF Next, Kernel

\* Through every detach, enumeration, scan, restart and retry the port tables,
\* the inventory, the runtimes and the adapters fit together.
THEOREM UsbInvariant == Spec => []UsbInv
<1> QED BY UsbInitInv, UsbStepInv, PTL DEF Spec

\* Every id of the inventory is at exactly one port, and names the device that
\* was addressed there, however devices come and go.
THEOREM UsbInventoryMatchesPorts == Spec => []InventoryMatchesPorts
<1>1. UsbInv => InventoryMatchesPorts
  <2> SUFFICES ASSUME UsbInv PROVE InventoryMatchesPorts OBVIOUS
  <2>1. TypeOK
    BY DEF UsbInv, PhysicalTypes, PortTypes, InventoryTypes, SessionTypes, BlockTypes,
           CountTypes, TypeOK
  <2>2. ASSUME NEW id \in Ids, usb_devices[id] # None PROVE Cardinality(PortOf(id)) = 1
    <3>1. PICK p \in Ports : port_usb_id[p] = id BY <2>2 DEF UsbInv, PortTables
    <3>2. id # -1 BY UsbConstants
    <3>3. PortOf(id) = {p} BY <3>1, <3>2 DEF UsbInv, PortTables, PortOf
    <3> QED BY <3>3, FS_Singleton
  <2> QED BY <2>1, <2>2 DEF InventoryMatchesPorts, UsbInv, PortTables
<1> QED BY <1>1, UsbInvariant, PTL

\* A configured RNDIS runtime has its endpoints at the port its id names now, a
\* ready one is a phone and has its one adapter, and no two share an id.
THEOREM UsbReadyIsAttached == Spec => []ReadyIsAttached
<1>1. UsbInv => ReadyIsAttached
  <2> SUFFICES ASSUME UsbInv PROVE ReadyIsAttached OBVIOUS
  <2>1. \A i \in Runtimes : rndis[i].registered <=> i \in Adapters
    BY DEF UsbInv, Registered, Adapters
  <2>2. \A i \in Runtimes : rndis[i].configured => \E p \in PortOf(rndis[i].id) : bulk[p]
    BY DEF UsbInv, Sessions, PortOf
  <2> QED BY <2>1, <2>2 DEF UsbInv, Sessions, Registered, ReadyIsAttached
<1> QED BY <1>1, UsbInvariant, PTL
=============================================================================
