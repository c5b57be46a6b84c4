-------------------------------- MODULE Tcp --------------------------------
(***************************************************************************)
(* TCP connections (source/network/tcp.c) with the address resolution and  *)
(* sending below them (arp.c, ipv4.c, net.c).                              *)
(*                                                                         *)
(* The kernel has one thread, but whoever waits polls: a send waits for an *)
(* ARP reply in net_poll, the frames taken there are handled on the spot,  *)
(* and handling one may send and wait in turn.  `stack' holds the calls    *)
(* under way, the innermost first.  Clock time is left out: a deadline may *)
(* pass whenever nothing that ends the wait sooner has happened.           *)
(*                                                                         *)
(* Peers and neighbours are external.  What a peer sends is lost, repeated *)
(* and reordered at will.  A checksum is what it is computed from.         *)
(***************************************************************************)
EXTENDS Integers, Sequences, FiniteSets, FiniteSetsExt

CONSTANTS
    ROOT_TCP_MAX_CONNECTIONS, ARP_TABLE_SIZE,
    PORT_FIRST, PORT_LAST,      \* 50000 and 60000
    ATTEMPTS_SYN,               \* 3
    Hosts,                      \* peers
    Hop,                        \* the neighbour a host is reached through
    Neighbours,                 \* hosts of the local network that speak ARP
    Macs,                       \* the addresses each of them may have
    MaxWork                     \* bound: a frame counts 1, a connect 2

ASSUME TcpAssumption ==
    /\ ROOT_TCP_MAX_CONNECTIONS \in Nat
    /\ PORT_FIRST \in Nat /\ PORT_LAST \in Nat /\ PORT_FIRST <= PORT_LAST

VARIABLES
    connections, next_port, transmit_buffer,
    entries, replacement_index, \* the ARP table
    stack,
    wire,                       \* IP packets sent so far
    counts                      \* connects made, and the work bounded by MaxWork

tcpVars == <<connections, next_port, transmit_buffer, entries, replacement_index, stack, wire,
             counts>>
arpVars == <<entries, replacement_index>>

Slots == 1 .. ROOT_TCP_MAX_CONNECTIONS
ArpSlots == 0 .. ARP_TABLE_SIZE - 1
Free == [used |-> FALSE]
NoEntry == [used |-> FALSE]

-----------------------------------------------------------------------------
(* ARP.                                                                    *)

Known(ip) == {i \in ArpSlots : entries[i].used /\ entries[i].ip = ip}
arp_lookup(ip) == Known(ip) # {}

arp_remember(ip, mac) ==
    LET spare == {i \in ArpSlots : ~entries[i].used}
        at == CASE Known(ip) # {} -> Min(Known(ip))
                [] Known(ip) = {} /\ spare # {} -> Min(spare)
                [] OTHER -> replacement_index
    IN  /\ entries' = [entries EXCEPT ![at] = [used |-> TRUE, ip |-> ip, mac |-> mac]]
        /\ replacement_index' = IF Known(ip) = {} /\ spare = {}
                                THEN (replacement_index + 1) % ARP_TABLE_SIZE ELSE replacement_index

-----------------------------------------------------------------------------
(* Sending.                                                                *)

\* Mutant: the sum leaves out the pseudo header.
SumOfSegment(ip, size) == <<"any", "any">>

tcp_checksum(ip, size) == <<ip, size>>

\* The segment is built in the buffer all connections share; then the send
\* goes on top of the stack.
Build(slot, flags, seq, ack) ==
    LET c == connections'[slot]
        size == IF flags = "SYN" THEN 24 ELSE 20
    IN  transmit_buffer' = [port |-> c.port, flags |-> flags, seq |-> seq, ack |-> ack,
                            sum |-> tcp_checksum(c.ip, size)]
SendCall(slot, flags) ==
    [fn |-> "send", to |-> connections'[slot].ip, size |-> IF flags = "SYN" THEN 24 ELSE 20,
     pc |-> "lookup"]

send_segment(slot, flags, seq, ack, below) ==
    /\ Build(slot, flags, seq, ack)
    /\ stack' = <<SendCall(slot, flags)>> \o below

Top == Head(stack)
Running(fn, pc) == stack # <<>> /\ Top.fn = fn /\ Top.pc = pc

\* What was sent is what the buffer holds by now.
Emit(call) == wire' = wire \cup {[to |-> call.to, size |-> call.size, seg |-> transmit_buffer]}

SetState(slot, state) == connections' = [connections EXCEPT ![slot].state = state]

\* The caller of a send goes on.
Returned(ok) ==
    LET caller == stack[2]
        below == SubSeq(stack, 3, Len(stack))
    IN  \/ /\ caller.fn = "connect"
           /\ IF ok THEN /\ stack' = <<[caller EXCEPT !.pc = "wait", !.sent = TRUE]>> \o below
                         /\ UNCHANGED connections
              ELSE IF caller.sent THEN /\ stack' = <<[caller EXCEPT !.pc = "end"]>> \o below
                                       /\ UNCHANGED connections
              ELSE SetState(caller.slot, "ERROR") /\ stack' = below
           /\ UNCHANGED transmit_buffer
        \/ /\ caller.fn = "establish" /\ stack' = below
           /\ SetState(caller.slot, IF ok THEN "ESTABLISHED" ELSE "ERROR")
           /\ UNCHANGED transmit_buffer
        \/ /\ caller.fn = "data"
           /\ IF caller.fin
              THEN /\ connections' = [connections EXCEPT ![caller.slot].receive_next = @ + 1]
                   /\ send_segment(caller.slot, "ACK", connections[caller.slot].send_next,
                                   connections'[caller.slot].receive_next,
                                   <<[fn |-> "fin", slot |-> caller.slot, pc |-> "sending"]>> \o below)
              ELSE stack' = below /\ UNCHANGED <<connections, transmit_buffer>>
        \/ /\ caller.fn = "fin" /\ stack' = below /\ UNCHANGED transmit_buffer
           /\ SetState(caller.slot, "FIN_WAIT")
        \/ /\ caller.fn = "close" /\ stack' = below /\ UNCHANGED transmit_buffer
           /\ connections' = [connections EXCEPT ![caller.slot] = Free]

\* net_resolve_ipv4 looks the next hop up, asks for it, and polls; then the
\* packet goes to the adapter, which may refuse it.
Resolved ==
    /\ Running("send", "lookup") \/ Running("send", "wait")
    /\ arp_lookup(Hop[Top.to])
    /\ \/ Emit(Top) /\ Returned(TRUE)
       \/ UNCHANGED wire /\ Returned(FALSE)
    /\ UNCHANGED <<next_port, arpVars, counts>>

arp_request ==
    /\ Running("send", "lookup") /\ ~arp_lookup(Hop[Top.to])
    /\ \/ stack' = <<[Top EXCEPT !.pc = "wait"]>> \o Tail(stack)
          /\ UNCHANGED <<connections, transmit_buffer>>
       \/ Returned(FALSE)
    /\ UNCHANGED <<next_port, arpVars, wire, counts>>

ArpTimeout ==
    /\ Running("send", "wait") /\ ~arp_lookup(Hop[Top.to])
    /\ Returned(FALSE)
    /\ UNCHANGED <<next_port, arpVars, wire, counts>>
-----------------------------------------------------------------------------
(* Calls of the shell.                                                     *)

local_port_used(port) == \E i \in Slots : connections[i].used /\ connections[i].port = port

PortAfter(port, n) == PORT_FIRST + ((port - PORT_FIRST + n) % (PORT_LAST - PORT_FIRST + 1))

\* The first port from next_port on that is not in use, if there is one.
allocate_port ==
    LET unused == {n \in 0 .. PORT_LAST - PORT_FIRST : ~local_port_used(PortAfter(next_port, n))}
    IN  IF unused = {} THEN {} ELSE {PortAfter(next_port, Min(unused))}

tcp_connect(host) ==
    LET free == {i \in Slots : ~connections[i].used}
        isn == 10 * counts.connects
    IN  /\ stack = <<>> /\ counts.work + 2 <= MaxWork
        /\ counts' = [connects |-> counts.connects + 1, work |-> counts.work + 2]
        /\ free # {}
        /\ \E port \in allocate_port :
             /\ next_port' = PortAfter(port, 1)
             /\ connections' = [connections EXCEPT ![Min(free)] =
                  [used |-> TRUE, ip |-> host, port |-> port, state |-> "SYN_SENT",
                   send_next |-> isn + 1, receive_next |-> 0]]
        /\ stack' = <<[fn |-> "connect", slot |-> Min(free), n |-> 0, sent |-> FALSE, pc |-> "loop"]>>
        /\ UNCHANGED <<transmit_buffer, arpVars, wire>>

\* Mutant: the attempts are not counted.
AgainUncounted == [Top EXCEPT !.pc = "sending"]

Again == [Top EXCEPT !.pc = "sending", !.n = @ + 1]

ConnectLoop ==
    LET slot == Top.slot
        c == connections[slot]
    IN  /\ Running("connect", "loop")
        /\ IF c.state = "SYN_SENT" /\ Top.n < ATTEMPTS_SYN
           THEN /\ UNCHANGED connections
                /\ send_segment(slot, "SYN", c.send_next - 1, 0, <<Again>> \o Tail(stack))
           ELSE /\ stack' = <<[Top EXCEPT !.pc = "end"]>> \o Tail(stack)
                /\ UNCHANGED <<connections, transmit_buffer>>
        /\ UNCHANGED <<next_port, arpVars, wire, counts>>

\* The answer is there, or the deadline of this attempt has passed.
ConnectWaited ==
    /\ Running("connect", "wait")
    /\ stack' = <<[Top EXCEPT !.pc = "loop"]>> \o Tail(stack)
    /\ UNCHANGED <<connections, next_port, transmit_buffer, arpVars, wire, counts>>

ConnectEnds ==
    /\ Running("connect", "end")
    /\ IF connections[Top.slot].state = "SYN_SENT" THEN SetState(Top.slot, "ERROR")
       ELSE UNCHANGED connections
    /\ stack' = Tail(stack)
    /\ UNCHANGED <<next_port, transmit_buffer, arpVars, wire, counts>>

tcp_close(slot) ==
    LET c == connections[slot]
    IN  /\ stack = <<>> /\ c.used
        /\ IF c.state = "ESTABLISHED"
           THEN /\ UNCHANGED connections
                /\ send_segment(slot, "RST", c.send_next, c.receive_next,
                                <<[fn |-> "close", slot |-> slot, pc |-> "sending"]>>)
           ELSE /\ connections' = [connections EXCEPT ![slot] = Free]
                /\ UNCHANGED <<stack, transmit_buffer>>
        /\ UNCHANGED <<next_port, arpVars, wire, counts>>

\* Another adapter is chosen: net_clear_ipv4 empties the tables.
Reconfigure ==
    /\ stack = <<>>
    /\ connections' = [i \in Slots |-> Free] /\ next_port' = PORT_FIRST
    /\ entries' = [i \in ArpSlots |-> NoEntry] /\ replacement_index' = 0
    /\ UNCHANGED <<stack, transmit_buffer, wire, counts>>

-----------------------------------------------------------------------------
(* Frames.  net_poll is called by the shell and in every wait.             *)

Polls == stack # <<>> => Top.pc = "wait"
Polling ==
    /\ Polls /\ counts.work < MaxWork
    /\ counts' = [counts EXCEPT !.work = @ + 1]

arp_receive(ip, mac) ==
    /\ Polling
    /\ arp_remember(ip, mac)
    /\ UNCHANGED <<connections, next_port, transmit_buffer, stack, wire>>

\* Mutant: any SYN-ACK completes the handshake.
AnswersAny(c, m) == m.kind = "SYNACK"

Answers(c, m) == m.kind = "SYNACK" /\ m.ack = c.send_next

\* Mutant: whatever is not open may be opened.
HandshakingStill(c) == c.state # "ESTABLISHED"

Handshaking(c) == c.state = "SYN_SENT"

Quiet == UNCHANGED <<stack, transmit_buffer>>

tcp_receive(slot, m) ==
    LET c == connections[slot]
        Ack(fn) == send_segment(slot, "ACK", c.send_next, connections'[slot].receive_next,
                     <<[fn |-> fn, slot |-> slot, fin |-> m.fin, pc |-> "sending"]>> \o stack)
        Received(n) == connections' = [connections EXCEPT ![slot].receive_next = n]
    IN  \/ m.kind = "RST" /\ SetState(slot, "RESET") /\ Quiet
        \/ /\ m.kind # "RST" /\ Handshaking(c)
           /\ IF Answers(c, m) THEN Received(m.seq + 1) /\ Ack("establish")
              ELSE UNCHANGED connections /\ Quiet
        \/ /\ m.kind = "DATA" /\ c.state = "ESTABLISHED"
           /\ CASE m.seq = c.receive_next /\ m.len > 0 ->
                     Received(c.receive_next + m.len) /\ Ack("data")
                [] ~(m.seq = c.receive_next /\ m.len > 0) /\ m.fin ->
                     Received(c.receive_next + 1) /\ Ack("fin")
                [] OTHER -> UNCHANGED connections /\ Quiet

\* What a peer at h may have sent: it answers a SYN, and once that answer is
\* acknowledged it sends one byte and its FIN; it may reset at any time.
Valid(f) == f.seg.sum = tcp_checksum(f.to, f.size)
PEER_ISN == 100
FromPeer(h) ==
    LET heard == {f \in wire : f.to = h /\ Valid(f)}
        ports == {f.seg.port : f \in heard}
        Frame(kind, port, seq, ack, len, fin) ==
          [kind |-> kind, from |-> h, port |-> port, seq |-> seq, ack |-> ack, len |-> len, fin |-> fin]
    IN  {Frame("RST", p, 0, 0, 0, FALSE) : p \in ports}
        \cup {Frame("SYNACK", f.seg.port, PEER_ISN, f.seg.seq + 1, 0, FALSE) :
                f \in {g \in heard : g.seg.flags = "SYN"}}
        \cup {Frame("DATA", f.seg.port, PEER_ISN + 1 + k, 0, 1 - k, fin) :
                f \in {g \in heard : g.seg.flags = "ACK"}, k \in 0 .. 1, fin \in BOOLEAN}

ipv4_receive(m) ==
    LET match == {i \in Slots : /\ connections[i].used /\ connections[i].ip = m.from
                                /\ connections[i].port = m.port}
    IN  /\ Polling /\ match # {}
        /\ tcp_receive(Min(match), m)
        /\ UNCHANGED <<next_port, arpVars, wire>>

TcpInit ==
    /\ connections = [i \in Slots |-> Free] /\ next_port = PORT_FIRST
    /\ transmit_buffer = [port |-> 0, flags |-> "none", seq |-> 0, ack |-> 0, sum |-> <<0, 0>>]
    /\ entries = [i \in ArpSlots |-> NoEntry] /\ replacement_index = 0
    /\ stack = <<>> /\ wire = {}
    /\ counts = [connects |-> 0, work |-> 0]

Sending == Resolved \/ arp_request \/ ArpTimeout
Connecting == (\E h \in Hosts : tcp_connect(h)) \/ ConnectLoop \/ ConnectWaited \/ ConnectEnds
Frames ==
    \/ \E n \in Neighbours : \E mac \in Macs[n] : arp_receive(n, mac)
    \/ \E h \in Hosts : \E m \in FromPeer(h) : ipv4_receive(m)
TcpNext == Sending \/ Connecting \/ Frames \/ (\E i \in Slots : tcp_close(i)) \/ Reconfigure
TcpSpec == TcpInit /\ [][TcpNext]_tcpVars

\* A wait ends: the timer interrupt ends every hlt and the clock runs.
TcpFairness == WF_tcpVars(Sending) /\ WF_tcpVars(ConnectLoop \/ ConnectWaited \/ ConnectEnds)

-----------------------------------------------------------------------------
(* Properties.                                                             *)

\* A connection is established only when the peer answered this very SYN: one
\* sent for an earlier connection with the same port does not do.  Two
\* connections never have the same port, however often the range of ports has
\* been gone through: a segment has one receiver.
EstablishedWasAsked ==
    /\ \A i \in Slots : connections[i].used /\ connections[i].state = "ESTABLISHED" =>
         \E f \in wire : /\ f.to = connections[i].ip /\ Valid(f)
                         /\ f.seg.flags = "SYN" /\ f.seg.port = connections[i].port
                         /\ f.seg.seq = connections[i].send_next - 1
    /\ \A i, j \in Slots : connections[i].used /\ connections[j].used /\ i # j =>
         connections[i].port # connections[j].port

Answerer(call, i) == call.fn \in {"establish", "fin", "data"} /\ call.slot = i
Answering(calls, i) == \E k \in DOMAIN calls : Answerer(calls[k], i)

\* The call of tcp_receive that answers a segment of connection i comes back from
\* its send and returns.
AnswerReturns(i) ==
    /\ Len(stack) > 1 /\ Answerer(stack[2], i)
    /\ stack' = SubSeq(stack, 3, Len(stack))

\* Once a connection is reset, no later segment is answered for it, whatever
\* calls are under way, and it is not opened again, with one exception: an answer
\* that was waiting in its send when the reset came overwrites the state when it
\* returns, as tcp.c does at 330 and 361.
ResetStays ==
    [][\A i \in Slots : connections[i].used /\ connections[i].state = "RESET" =>
         /\ \/ ~connections'[i].used \/ connections'[i].state \in {"RESET", "ERROR"}
            \/ AnswerReturns(i)
         /\ Answering(stack', i) => Answering(stack, i)
         /\ \A k \in 1 .. Len(stack') - Len(stack) : ~Answerer(stack'[k], i)]_tcpVars

\* A segment that a peer accepts was built for a connection to this peer.  Two
\* sends that wait inside each other share one buffer, and the later segment
\* goes out twice; the checksum makes the wrong peer drop it.
PeerNotMisled ==
    \A f \in wire : Valid(f) =>
      \A g \in wire : Valid(g) /\ g.seg.seq = f.seg.seq /\ g.seg.port = f.seg.port => g.to = f.to

\* A call that waits returns.
TcpCallsReturn == stack # <<>> ~> stack = <<>>
=============================================================================
