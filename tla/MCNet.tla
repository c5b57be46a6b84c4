-------------------------------- MODULE MCNet --------------------------------
(***************************************************************************)
(* TCP with ARP, name lookups, and the DHCP client.  The initial state     *)
(* chooses one of the three; the others stay as they start.                *)
(***************************************************************************)
EXTENDS Tcp, Dns, Dhcp

VARIABLE part

netVars == <<tcpVars, dnsVars, vars, part>>

MC_Hop == [h \in Hosts |-> IF h \in Neighbours THEN h ELSE "g"]
MC_Macs == [n \in Neighbours |-> IF n = "g" THEN {1, 2} ELSE {1}]

NetInit == TcpInit /\ DnsInit /\ Init /\ part \in {"tcp", "dns", "dhcp"}

TcpPart == part = "tcp" /\ TcpNext /\ UNCHANGED <<dnsVars, vars, part>>
DnsPart == part = "dns" /\ DnsNext /\ UNCHANGED <<tcpVars, vars, part>>
DhcpPart == part = "dhcp" /\ Next /\ UNCHANGED <<tcpVars, dnsVars, part>>
NetNext == TcpPart \/ DnsPart \/ DhcpPart

NetSpec == NetInit /\ [][NetNext]_netVars /\ TcpFairness /\ WF_vars(Step)
=============================================================================
