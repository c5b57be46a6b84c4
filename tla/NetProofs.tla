----------------------------- MODULE NetProofs -----------------------------
(***************************************************************************)
(* Proofs about TCP connections and name lookups, for any number of hosts, *)
(* connections, ports and calls waiting inside each other, and for any     *)
(* width of the clock; and about the DHCP client.                          *)
(***************************************************************************)
EXTENDS Tcp, Dns, Dhcp, SequenceTheorems, WellFoundedInduction, TLAPS

-----------------------------------------------------------------------------
(* TCP: what holds in every state.                                         *)

States == {"SYN_SENT", "ESTABLISHED", "FIN_WAIT", "RESET", "ERROR"}
Connection == [used : {TRUE}, ip : Hosts, port : PORT_FIRST .. PORT_LAST, state : States,
               send_next : Nat, receive_next : Nat]
Segment == [port : Nat, flags : {"none", "SYN", "ACK", "RST"}, seq : Nat, ack : Nat,
            sum : (Hosts \cup {0}) \X Nat]
Packet == [to : Hosts, size : {20, 24}, seg : Segment]

SendFrame == [fn : {"send"}, to : Hosts, size : {20, 24}, pc : {"lookup", "wait"}]
ConnectFrame == [fn : {"connect"}, slot : Slots, n : Nat, sent : BOOLEAN,
                 pc : {"loop", "sending", "wait", "end"}]
AckFrame == [fn : {"establish", "data", "fin"}, slot : Slots, fin : BOOLEAN, pc : {"sending"}]
OtherFrame == [fn : {"fin", "close"}, slot : Slots, pc : {"sending"}]
CallFrame == SendFrame \cup ConnectFrame \cup AckFrame \cup OtherFrame

TcpTypes ==
    /\ connections \in [Slots -> {Free} \cup Connection]
    /\ next_port \in PORT_FIRST .. PORT_LAST
    /\ transmit_buffer \in Segment
    /\ wire \subseteq Packet
    /\ counts \in [connects : Nat, work : Nat]

\* The shell's own calls are outermost; a send has a caller.
Nested(calls) ==
    /\ calls \in Seq(CallFrame)
    /\ \A k \in 1 .. Len(calls) :
         /\ calls[k].fn = "send" => k < Len(calls)
         /\ calls[k].fn \in {"connect", "close"} => k = Len(calls)

Calls(calls) == {calls[k] : k \in DOMAIN calls}

\* The SYN of connection c was sent whole to its peer.
Asked(c, frames) ==
    \E f \in frames : /\ f.to = c.ip /\ Valid(f)
                       /\ f.seg.flags = "SYN" /\ f.seg.port = c.port
                       /\ f.seg.seq = c.send_next - 1

\* A call under way keeps its connection; one that will establish it was
\* answered.
CallsInv ==
    \A x \in Calls(stack) : x.fn # "send" =>
      /\ connections[x.slot].used
      /\ x.fn = "establish" => Asked(connections[x.slot], wire)

AskedInv ==
    \A i \in Slots : connections[i].used /\ connections[i].state = "ESTABLISHED" =>
      Asked(connections[i], wire)

PortsInv ==
    \A i, j \in Slots : connections[i].used /\ connections[j].used /\ i # j =>
      connections[i].port # connections[j].port

\* Sequence number s belongs to the k-th of n connects, made to host h.
Belongs(s, h, owner, n) ==
    \E k \in Nat : k < n /\ (s = 10 * k \/ s = 10 * k + 1) /\ owner[k] = h

\* owner[k] is the host of the k-th connect: each sequence number in use goes
\* with one host.
Owned(owner, conns, buffer, frames, n) ==
    /\ \A i \in Slots : conns[i].used =>
         \E k \in Nat : k < n /\ conns[i].send_next = 10 * k + 1 /\ owner[k] = conns[i].ip
    /\ buffer.sum[2] # 0 => Belongs(buffer.seq, buffer.sum[1], owner, n)
    /\ \A f \in frames : Valid(f) => Belongs(f.seg.seq, f.to, owner, n)

OwnerInv == \E owner : Owned(owner, connections, transmit_buffer, wire, counts.connects)

TcpInv == TcpTypes /\ Nested(stack) /\ CallsInv /\ AskedInv /\ PortsInv /\ OwnerInv

-----------------------------------------------------------------------------
(* Minimum and the stack of calls.                                         *)

LEMMA MinFact ==
    ASSUME NEW S \in SUBSET Nat, S # {}
    PROVE  Min(S) \in S /\ \A j \in S : Min(S) <= j
<1>1. PICK R : R = OpToRel(<, Nat) OBVIOUS
<1>2. IsWellFoundedOn(R, Nat) BY <1>1, NatLessThanWellFounded
<1>3. \A i, j \in Nat : j < i => <<j, i>> \in R BY <1>1 DEF OpToRel
<1>4. PICK i \in S : \A j \in S : ~(<<j, i>> \in R) BY <1>2, WFMin
<1>5. \A j \in S : j \in Nat /\ i \in Nat /\ ~(j < i) BY <1>3, <1>4
<1>6. \A j \in S : i <= j BY <1>5
<1> QED BY <1>6 DEF Min

LEMMA SlotsNat == Slots \subseteq Nat BY TcpAssumption DEF Slots

LEMMA FrameKinds ==
    ASSUME NEW x \in CallFrame
    PROVE  /\ x.fn \in {"send", "connect", "establish", "data", "fin", "close"}
           /\ x.fn = "send" => x \in SendFrame
           /\ x.fn = "connect" => x \in ConnectFrame
           /\ x.fn # "send" => x.slot \in Slots
  BY DEF CallFrame, SendFrame, ConnectFrame, AckFrame, OtherFrame

\* A call is made.
LEMMA PushFact ==
    ASSUME NEW s, Nested(s), NEW x \in CallFrame, x.fn = "send" => s # <<>>,
           x.fn \in {"connect", "close"} => s = <<>>
    PROVE  /\ Nested(<<x>> \o s) /\ Calls(<<x>> \o s) = {x} \cup Calls(s)
           /\ <<x>> \o s # <<>>
<1>1. s \in Seq(CallFrame) /\ Len(s) \in Nat /\ DOMAIN s = 1 .. Len(s)
  BY LenProperties DEF Nested
<1>2. <<x>> \in Seq(CallFrame) /\ Len(<<x>>) = 1 /\ <<x>>[1] = x OBVIOUS
<1>3. PICK t : t = <<x>> \o s OBVIOUS
<1>4. /\ t \in Seq(CallFrame) /\ Len(t) = 1 + Len(s)
      /\ \A i \in 1 .. 1 + Len(s) : t[i] = IF i <= 1 THEN x ELSE s[i - 1]
  <2>1. /\ t \in Seq(CallFrame) /\ Len(t) = Len(<<x>>) + Len(s)
        /\ \A i \in 1 .. Len(<<x>>) + Len(s) :
             t[i] = IF i <= Len(<<x>>) THEN <<x>>[i] ELSE s[i - Len(<<x>>)]
    BY <1>1, <1>2, <1>3, ConcatProperties
  <2>2. \A i \in 1 .. 1 + Len(s) : i <= 1 => i = 1 BY <1>1
  <2> QED BY <1>2, <2>1, <2>2
<1>5. DOMAIN t = 1 .. 1 + Len(s) BY <1>4, LenProperties
<1>6. \A k \in 1 .. Len(s) : k + 1 \in 1 .. 1 + Len(s) /\ ~(k + 1 <= 1) /\ k + 1 - 1 = k
  BY <1>1
<1>7. \A k \in 1 .. Len(s) : t[k + 1] = s[k] BY <1>4, <1>6
<1>8. 1 \in 1 .. 1 + Len(s) /\ t[1] = x BY <1>1, <1>4
<1>9. \A i \in 1 .. 1 + Len(s) : i = 1 \/ (i - 1 \in 1 .. Len(s) /\ t[i] = s[i - 1])
  BY <1>1, <1>4
<1>10. Calls(t) = {x} \cup Calls(s)
  <2>1. x \in Calls(t) BY <1>5, <1>8 DEF Calls
  <2>2. ASSUME NEW y \in Calls(s) PROVE y \in Calls(t)
    <3>1. PICK k \in 1 .. Len(s) : y = s[k] BY <1>1, <2>2 DEF Calls
    <3>2. k + 1 \in DOMAIN t /\ t[k + 1] = y BY <1>5, <1>6, <1>7, <3>1
    <3> QED BY <3>2 DEF Calls
  <2>3. ASSUME NEW y \in Calls(t) PROVE y = x \/ y \in Calls(s)
    <3>1. PICK i \in 1 .. 1 + Len(s) : y = t[i] BY <1>5, <2>3 DEF Calls
    <3>2. i = 1 \/ (i - 1 \in DOMAIN s /\ t[i] = s[i - 1]) BY <1>1, <1>9
    <3> QED BY <1>8, <3>1, <3>2 DEF Calls
  <2> QED BY <2>1, <2>2, <2>3
<1>11. ASSUME NEW k \in 1 .. Len(t)
       PROVE  /\ t[k].fn = "send" => k < Len(t)
              /\ t[k].fn \in {"connect", "close"} => k = Len(t)
  <2>1. CASE k = 1
    <3>1. s # <<>> => Len(s) # 0 BY <1>1, EmptySeq
    <3>2. s = <<>> => Len(s) = 0 BY EmptySeq
    <3> QED BY <1>1, <1>4, <1>8, <2>1, <3>1, <3>2
  <2>2. CASE k # 1
    <3>1. k - 1 \in 1 .. Len(s) /\ t[k] = s[k - 1] BY <1>4, <1>9, <2>2
    <3>2. /\ t[k].fn = "send" => k - 1 < Len(s)
          /\ t[k].fn \in {"connect", "close"} => k - 1 = Len(s)
      BY <3>1 DEF Nested
    <3> QED BY <1>1, <1>4, <3>1, <3>2
  <2> QED BY <2>1, <2>2
<1>12. t # <<>> BY <1>1, <1>4, EmptySeq
<1> QED BY <1>3, <1>4, <1>10, <1>11, <1>12 DEF Nested

\* The innermost call returns.
LEMMA PopFact ==
    ASSUME NEW s, Nested(s), s # <<>>
    PROVE  /\ Head(s) \in CallFrame /\ Head(s) \in Calls(s)
           /\ Nested(Tail(s)) /\ Calls(Tail(s)) \subseteq Calls(s)
           /\ Head(s).fn = "send" => Tail(s) # <<>>
           /\ Head(s).fn \in {"connect", "close"} => Tail(s) = <<>>
<1>1. s \in Seq(CallFrame) BY DEF Nested
<1>2. Len(s) \in Nat \ {0} /\ DOMAIN s = 1 .. Len(s) /\ s \in [1 .. Len(s) -> CallFrame]
  BY <1>1, EmptySeq, LenProperties
<1>3. PICK t : t = Tail(s) OBVIOUS
<1>4. /\ Head(s) = s[1] /\ t \in Seq(CallFrame) /\ Len(t) = Len(s) - 1
      /\ \A i \in 1 .. Len(t) : t[i] = s[i + 1]
  BY <1>1, <1>3, HeadTailProperties
<1>5. DOMAIN t = 1 .. Len(t) /\ Len(t) \in Nat BY <1>4, LenProperties
<1>6. \A i \in 1 .. Len(t) : i + 1 \in 1 .. Len(s) BY <1>2, <1>4
<1>7. Head(s) \in CallFrame /\ Head(s) \in Calls(s) BY <1>2, <1>4 DEF Calls
<1>8. Calls(t) \subseteq Calls(s) BY <1>2, <1>4, <1>5, <1>6 DEF Calls
<1>9. Nested(t)
  <2>1. ASSUME NEW k \in 1 .. Len(t)
        PROVE  /\ t[k].fn = "send" => k < Len(t)
               /\ t[k].fn \in {"connect", "close"} => k = Len(t)
    <3>1. /\ t[k].fn = "send" => k + 1 < Len(s)
          /\ t[k].fn \in {"connect", "close"} => k + 1 = Len(s)
      BY <1>4, <1>6 DEF Nested
    <3>2. k \in Int /\ Len(s) \in Int BY <1>2
    <3>3. Len(t) = Len(s) - 1 BY <1>4
    <3>4. (k + 1 < Len(s) => k < Len(t)) /\ (k + 1 = Len(s) => k = Len(t)) BY <3>2, <3>3
    <3> QED BY <3>1, <3>4
  <2> QED BY <1>4, <2>1 DEF Nested
<1>10. /\ Head(s).fn = "send" => 1 < Len(s)
       /\ Head(s).fn \in {"connect", "close"} => 1 = Len(s)
  <2>1. 1 \in 1 .. Len(s) BY <1>2
  <2> QED BY <1>4, <2>1 DEF Nested
<1>11. t = <<>> <=> Len(t) = 0 BY <1>4, EmptySeq
<1> QED BY <1>2, <1>3, <1>4, <1>7, <1>8, <1>9, <1>10, <1>11

\* A send on top of the stack, its caller and the calls below.
LEMMA CallerFact ==
    ASSUME Nested(stack), stack # <<>>, Top.fn = "send"
    PROVE  /\ stack[2] \in CallFrame /\ stack[2] \in Calls(stack)
           /\ Nested(SubSeq(stack, 3, Len(stack)))
           /\ Calls(SubSeq(stack, 3, Len(stack))) \subseteq Calls(stack)
           /\ stack[2].fn \in {"connect", "close"} => SubSeq(stack, 3, Len(stack)) = <<>>
           /\ Len(stack) > 1 /\ Len(SubSeq(stack, 3, Len(stack))) = Len(stack) - 2
<1>1. PICK t : t = Tail(stack) OBVIOUS
<1>2. t # <<>> /\ Nested(t) /\ Calls(t) \subseteq Calls(stack) BY <1>1, PopFact DEF Top
<1>3. stack \in Seq(CallFrame) /\ t \in Seq(CallFrame) BY <1>2 DEF Nested
<1>4. Len(t) = Len(stack) - 1 /\ \A i \in 1 .. Len(t) : t[i] = stack[i + 1]
  BY <1>1, <1>3, HeadTailProperties
<1>5. Len(t) \in Nat \ {0} /\ Len(stack) \in Nat BY <1>2, <1>3, EmptySeq, LenProperties
<1>6. Head(t) = t[1] /\ 1 \in 1 .. Len(t) BY <1>2, <1>3, <1>5, HeadTailProperties
<1>7. Head(t) = stack[2] BY <1>4, <1>6
<1>8. PICK u : u = Tail(t) OBVIOUS
<1>9. /\ stack[2] \in CallFrame /\ stack[2] \in Calls(t)
      /\ Nested(u) /\ Calls(u) \subseteq Calls(t)
      /\ stack[2].fn \in {"connect", "close"} => u = <<>>
  BY <1>2, <1>7, <1>8, PopFact
<1>10. u = SubSeq(stack, 3, Len(stack))
  <2>1. PICK w : w = SubSeq(stack, 3, Len(stack)) OBVIOUS
  <2>2. u \in Seq(CallFrame) /\ Len(u) = Len(stack) - 2 BY <1>3, <1>4, <1>2, <1>8, <1>5, HeadTailProperties
  <2>3. \A i \in 1 .. Len(u) : u[i] = stack[i + 2]
    <3>1. \A i \in 1 .. Len(u) : u[i] = t[i + 1] BY <1>2, <1>3, <1>8, HeadTailProperties
    <3>2. \A i \in 1 .. Len(u) : i + 1 \in 1 .. Len(t) /\ i + 1 + 1 = i + 2 BY <1>4, <1>5, <2>2
    <3> QED BY <1>4, <3>1, <3>2
  <2>4. \A i \in 3 .. Len(stack) : stack[i] \in CallFrame BY <1>3, <1>5, ElementOfSeq
  <2>5. /\ w \in Seq(CallFrame)
        /\ Len(w) = IF 3 <= Len(stack) THEN Len(stack) - 3 + 1 ELSE 0
        /\ \A i \in 1 .. Len(stack) - 3 + 1 : w[i] = stack[3 + i - 1]
    <3>1. 3 \in Int /\ Len(stack) \in Int BY <1>5
    <3> QED BY <2>1, <2>4, <3>1, SubSeqProperties
  <2>6. Len(w) = Len(u) BY <1>4, <1>5, <2>2, <2>5
  <2>7. \A i \in 1 .. Len(u) : w[i] = u[i]
    <3>1. \A i \in 1 .. Len(u) : i \in 1 .. Len(stack) - 3 + 1 /\ 3 + i - 1 = i + 2
      BY <1>5, <2>2
    <3> QED BY <2>3, <2>5, <3>1
  <2> QED BY <2>1, <2>2, <2>5, <2>6, <2>7, SeqEqual
<1>11. Len(stack) > 1 /\ Len(u) = Len(stack) - 2
  BY <1>3, <1>4, <1>2, <1>8, <1>5, HeadTailProperties
<1> QED BY <1>2, <1>9, <1>10, <1>11

-----------------------------------------------------------------------------
(* Steps that open no connection.                                          *)

SameConnection(c, d) == c.ip = d.ip /\ c.port = d.port /\ c.send_next = d.send_next

\* Segment b was built for connection c.
BuiltFor(b, c) == b.sum[1] = c.ip /\ (b.seq = c.send_next \/ b.seq = c.send_next - 1)

\* The calls that answer a segment.
Handlers == {"establish", "fin", "data"}
Reset(i) == connections[i].state = "RESET"

ConnectionsStep ==
    /\ connections' \in [Slots -> {Free} \cup Connection]
    /\ \A i \in Slots : connections'[i].used =>
         /\ connections[i].used /\ SameConnection(connections[i], connections'[i])
         /\ connections'[i].state = "ESTABLISHED" =>
              connections[i].state = "ESTABLISHED" \/ Asked(connections[i], wire)
         /\ Reset(i) => connections'[i].state \in {"RESET", "ERROR"} \/ AnswerReturns(i)
StackStep ==
    /\ Nested(stack')
    /\ \A x \in Calls(stack') : x.fn # "send" =>
         /\ connections'[x.slot].used
         /\ x.fn = "establish" => x \in Calls(stack) \/ Asked(connections[x.slot], wire)
         /\ x.fn \in Handlers => Answering(stack, x.slot) \/ ~Reset(x.slot)
BufferStep ==
    /\ transmit_buffer' \in Segment
    /\ \/ transmit_buffer' = transmit_buffer
       \/ \E i \in Slots : connections[i].used /\ BuiltFor(transmit_buffer', connections[i])
WireStep ==
    /\ wire' \subseteq Packet /\ wire \subseteq wire'
    /\ \A f \in wire' : f \in wire \/ f.seg = transmit_buffer

QuietStep ==
    /\ ConnectionsStep /\ StackStep /\ BufferStep /\ WireStep
    /\ next_port' \in PORT_FIRST .. PORT_LAST
    /\ counts' \in [connects : Nat, work : Nat] /\ counts'.connects = counts.connects

LEMMA AskedSame ==
    ASSUME NEW c, NEW d, NEW v, NEW w, SameConnection(c, d), v \subseteq w, Asked(c, v)
    PROVE  Asked(d, w)
  BY DEF Asked, SameConnection

LEMMA QuietInv == ASSUME TcpInv, QuietStep PROVE TcpInv'
<1>1. TcpTypes' /\ Nested(stack') /\ wire \subseteq wire'
  BY DEF TcpInv, TcpTypes, QuietStep, ConnectionsStep, StackStep, BufferStep, WireStep
<1>2. ASSUME NEW x \in Calls(stack'), x.fn # "send"
      PROVE  /\ connections'[x.slot].used
             /\ x.fn = "establish" => Asked(connections'[x.slot], wire')
  <2>1. connections'[x.slot].used BY <1>2 DEF QuietStep, StackStep
  <2>2. x.slot \in Slots
    <3>1. stack' \in Seq(CallFrame) BY <1>1 DEF Nested
    <3>2. PICK k \in 1 .. Len(stack') : x = stack'[k] BY <1>2, <3>1, LenProperties DEF Calls
    <3>3. x \in CallFrame BY <3>1, <3>2, ElementOfSeq
    <3> QED BY <1>2, <3>3, FrameKinds
  <2>3. SameConnection(connections[x.slot], connections'[x.slot])
    BY <2>1, <2>2 DEF QuietStep, ConnectionsStep
  <2>4. ASSUME x.fn = "establish" PROVE Asked(connections'[x.slot], wire')
    <3>1. x \in Calls(stack) \/ Asked(connections[x.slot], wire)
      BY <1>2, <2>4 DEF QuietStep, StackStep
    <3>2. Asked(connections[x.slot], wire) BY <1>2, <2>4, <3>1 DEF TcpInv, CallsInv
    <3> QED BY <1>1, <2>3, <3>2, AskedSame
  <2> QED BY <2>1, <2>4
<1>3. CallsInv' BY <1>2 DEF CallsInv
<1>4. AskedInv'
  <2> SUFFICES ASSUME NEW i \in Slots, connections'[i].used, connections'[i].state = "ESTABLISHED"
               PROVE  Asked(connections'[i], wire')
    BY DEF AskedInv
  <2>1. /\ connections[i].used /\ SameConnection(connections[i], connections'[i])
        /\ connections[i].state = "ESTABLISHED" \/ Asked(connections[i], wire)
    BY DEF QuietStep, ConnectionsStep
  <2>2. Asked(connections[i], wire) BY <2>1 DEF TcpInv, AskedInv
  <2> QED BY <1>1, <2>1, <2>2, AskedSame
<1>5. PortsInv' BY DEF TcpInv, PortsInv, QuietStep, ConnectionsStep, SameConnection
<1>6. OwnerInv'
  <2>1. PICK owner : Owned(owner, connections, transmit_buffer, wire, counts.connects)
    BY DEF TcpInv, OwnerInv
  <2>2. PICK n \in Nat : n = counts.connects BY DEF TcpInv, TcpTypes
  <2>3. counts'.connects = n BY <2>2 DEF QuietStep
  <2>4. ASSUME NEW i \in Slots, connections'[i].used
        PROVE  \E k \in Nat : /\ k < n /\ connections'[i].send_next = 10 * k + 1
                              /\ owner[k] = connections'[i].ip
    <3>1. connections[i].used /\ SameConnection(connections[i], connections'[i])
      BY <2>4 DEF QuietStep, ConnectionsStep
    <3> QED BY <2>1, <2>2, <3>1 DEF Owned, SameConnection
  <2>5. ASSUME NEW i \in Slots, connections[i].used, NEW b, BuiltFor(b, connections[i])
        PROVE  Belongs(b.seq, b.sum[1], owner, n)
    <3>1. PICK k \in Nat : /\ k < n /\ connections[i].send_next = 10 * k + 1
                           /\ owner[k] = connections[i].ip
      BY <2>1, <2>2, <2>5 DEF Owned
    <3>2. b.seq = 10 * k \/ b.seq = 10 * k + 1 BY <2>5, <3>1 DEF BuiltFor
    <3> QED BY <2>5, <3>1, <3>2 DEF Belongs, BuiltFor
  <2>6. transmit_buffer'.sum[2] # 0 =>
          Belongs(transmit_buffer'.seq, transmit_buffer'.sum[1], owner, n)
    <3>1. CASE transmit_buffer' = transmit_buffer BY <2>1, <2>2, <3>1 DEF Owned
    <3>2. CASE \E i \in Slots : connections[i].used /\ BuiltFor(transmit_buffer', connections[i])
      BY <2>5, <3>2
    <3> QED BY <3>1, <3>2 DEF QuietStep, BufferStep
  <2>7. ASSUME NEW f \in wire', Valid(f) PROVE Belongs(f.seg.seq, f.to, owner, n)
    <3>1. CASE f \in wire BY <2>1, <2>2, <2>7, <3>1 DEF Owned
    <3>2. CASE f.seg = transmit_buffer
      <4>1. f.size \in {20, 24} BY <1>1, <2>7 DEF TcpTypes, Packet
      <4>2. transmit_buffer.sum = <<f.to, f.size>> BY <2>7, <3>2 DEF Valid, tcp_checksum
      <4>3. transmit_buffer.sum[2] # 0 /\ transmit_buffer.sum[1] = f.to BY <4>1, <4>2
      <4> QED BY <2>1, <2>2, <3>2, <4>3 DEF Owned
    <3> QED BY <2>7, <3>1, <3>2 DEF QuietStep, WireStep
  <2>8. Owned(owner, connections', transmit_buffer', wire', n) BY <2>4, <2>6, <2>7 DEF Owned
  <2> QED BY <2>3, <2>8 DEF OwnerInv
<1> QED BY <1>1, <1>3, <1>4, <1>5, <1>6 DEF TcpInv

\* What a step leaves alone.
LEMMA KeptConnections == ASSUME TcpInv, connections' = connections PROVE ConnectionsStep
  BY DEF TcpInv, TcpTypes, ConnectionsStep, SameConnection, Reset

LEMMA KeptBuffer == ASSUME TcpInv, transmit_buffer' = transmit_buffer PROVE BufferStep
  BY DEF TcpInv, TcpTypes, BufferStep

LEMMA KeptWire == ASSUME TcpInv, wire' = wire PROVE WireStep
  BY DEF TcpInv, TcpTypes, WireStep

LEMMA UsedConnection ==
    ASSUME TcpInv, NEW i \in Slots, connections[i].used
    PROVE  connections[i] \in Connection
  BY DEF TcpInv, TcpTypes, Free

\* One connection in use gets new fields.
LEMMA UpdateConnection ==
    ASSUME TcpInv, NEW i \in Slots, connections[i].used, NEW d \in Connection,
           connections' = [connections EXCEPT ![i] = d],
           SameConnection(connections[i], d),
           d.state = "ESTABLISHED" =>
             connections[i].state = "ESTABLISHED" \/ Asked(connections[i], wire),
           Reset(i) => d.state \in {"RESET", "ERROR"} \/ AnswerReturns(i)
    PROVE  /\ ConnectionsStep /\ connections'[i] = d
           /\ \A j \in Slots : connections[j].used => connections'[j].used
<1>1. connections \in [Slots -> {Free} \cup Connection] BY DEF TcpInv, TcpTypes
<1>2. connections'[i] = d /\ \A j \in Slots \ {i} : connections'[j] = connections[j] BY <1>1
<1>3. connections' \in [Slots -> {Free} \cup Connection] BY <1>1
<1>4. d.used BY DEF Connection
<1> QED BY <1>2, <1>3, <1>4 DEF ConnectionsStep, SameConnection, Reset

LEMMA NewState ==
    ASSUME TcpInv, NEW i \in Slots, connections[i].used, NEW st \in States, SetState(i, st),
           st = "ESTABLISHED" => Asked(connections[i], wire),
           Reset(i) => st \in {"RESET", "ERROR"} \/ AnswerReturns(i)
    PROVE  ConnectionsStep /\ \A j \in Slots : connections[j].used => connections'[j].used
<1>1. PICK c \in Connection : c = connections[i] BY UsedConnection
<1>2. PICK d : d = [c EXCEPT !.state = st] OBVIOUS
<1>3. d \in Connection /\ SameConnection(c, d) /\ d.state = st
  BY <1>2 DEF Connection, SameConnection
<1>4. connections' = [connections EXCEPT ![i] = d] BY <1>1, <1>2 DEF SetState
<1> QED BY <1>1, <1>3, <1>4, UpdateConnection

LEMMA NewReceiveNext ==
    ASSUME TcpInv, NEW i \in Slots, connections[i].used, NEW n \in Nat,
           connections' = [connections EXCEPT ![i].receive_next = n]
    PROVE  /\ ConnectionsStep /\ \A j \in Slots : connections[j].used => connections'[j].used
           /\ connections'[i] \in Connection /\ SameConnection(connections[i], connections'[i])
           /\ connections'[i].receive_next = n
<1>1. PICK c \in Connection : c = connections[i] BY UsedConnection
<1>2. PICK d : d = [c EXCEPT !.receive_next = n] OBVIOUS
<1>3. d \in Connection /\ SameConnection(c, d) /\ d.state = c.state /\ d.receive_next = n
  BY <1>2 DEF Connection, SameConnection
<1>4. connections' = [connections EXCEPT ![i] = d] BY <1>1, <1>2
<1> QED BY <1>1, <1>3, <1>4, UpdateConnection DEF Reset

LEMMA AnsweringFact ==
    ASSUME NEW s, NEW i
    PROVE  Answering(s, i) <=> \E x \in Calls(s) : x.fn \in Handlers /\ x.slot = i
  BY DEF Answering, Answerer, Calls, Handlers

\* The calls are those there were and new ones for connections in use.
LEMMA CallsStep ==
    ASSUME TcpInv, Nested(stack'),
           \A x \in Calls(stack') :
             \/ x.fn = "send" \/ x \in Calls(stack)
             \/ /\ x.slot \in Slots /\ connections[x.slot].used
                /\ x.fn = "establish" => Asked(connections[x.slot], wire)
                /\ x.fn \in Handlers => Answering(stack, x.slot) \/ ~Reset(x.slot),
           \A j \in Slots : connections[j].used => connections'[j].used
    PROVE  StackStep
<1>1. ASSUME NEW x \in Calls(stack), x.fn # "send" PROVE connections'[x.slot].used
  <2>1. connections[x.slot].used BY <1>1 DEF TcpInv, CallsInv
  <2>2. stack \in Seq(CallFrame) BY DEF TcpInv, Nested
  <2>3. x \in CallFrame BY <2>2, LenProperties, ElementOfSeq DEF Calls
  <2> QED BY <1>1, <2>1, <2>3, FrameKinds
<1>2. ASSUME NEW x \in Calls(stack), x.fn \in Handlers PROVE Answering(stack, x.slot)
  BY <1>2, AnsweringFact
<1> QED BY <1>1, <1>2 DEF StackStep

\* A segment is built and its send begun.
LEMMA SegmentFact ==
    ASSUME TcpInv, NEW i \in Slots, connections[i].used, connections'[i] \in Connection,
           SameConnection(connections[i], connections'[i]),
           NEW flags \in {"SYN", "ACK", "RST"}, NEW seq \in Nat, NEW ack \in Nat,
           seq = connections[i].send_next \/ seq = connections[i].send_next - 1,
           NEW below, Nested(below), below # <<>>,
           send_segment(i, flags, seq, ack, below)
    PROVE  /\ BufferStep /\ Nested(stack')
           /\ \A x \in Calls(stack') : x.fn = "send" \/ x \in Calls(below)
<1>1. PICK x : x = SendCall(i, flags) OBVIOUS
<1>2. PICK d \in Connection : d = connections'[i] OBVIOUS
<1>3. x \in SendFrame BY <1>1, <1>2 DEF SendCall, SendFrame, Connection
<1>4. stack' = <<x>> \o below BY <1>1 DEF send_segment
<1>5. x \in CallFrame /\ x.fn = "send" BY <1>3 DEF CallFrame, SendFrame
<1>6. Nested(stack') /\ Calls(stack') = {x} \cup Calls(below) BY <1>4, <1>5, PushFact
<1>7. PICK size \in Nat : size = IF flags = "SYN" THEN 24 ELSE 20 OBVIOUS
<1>8. transmit_buffer' = [port |-> d.port, flags |-> flags, seq |-> seq, ack |-> ack,
                          sum |-> <<d.ip, size>>]
  BY <1>2, <1>7 DEF send_segment, Build, tcp_checksum
<1>9. d.port \in Nat /\ d.ip \in Hosts BY TcpAssumption DEF Connection
<1>10. <<d.ip, size>> \in (Hosts \cup {0}) \X Nat BY <1>9
<1>11. transmit_buffer' \in Segment BY <1>8, <1>9, <1>10 DEF Segment
<1>12. transmit_buffer'.sum[1] = d.ip /\ transmit_buffer'.seq = seq BY <1>8
<1>13. BuiltFor(transmit_buffer', connections[i]) BY <1>2, <1>12 DEF BuiltFor, SameConnection
<1> QED BY <1>5, <1>6, <1>11, <1>13 DEF BufferStep

-----------------------------------------------------------------------------
(* The actions.                                                            *)

LEMMA CallSlot ==
    ASSUME TcpInv, NEW x \in Calls(stack), x.fn # "send"
    PROVE  x.slot \in Slots /\ connections[x.slot].used
<1>1. stack \in Seq(CallFrame) BY DEF TcpInv, Nested
<1>2. x \in CallFrame BY <1>1, LenProperties, ElementOfSeq DEF Calls
<1> QED BY <1>2, FrameKinds DEF TcpInv, CallsInv

LEMMA ReturnedFact ==
    ASSUME TcpInv, stack # <<>>, Top.fn = "send", NEW ok \in BOOLEAN, Returned(ok)
    PROVE  ConnectionsStep /\ StackStep /\ BufferStep
<1>1. PICK c, b : c = stack[2] /\ b = SubSeq(stack, 3, Len(stack)) OBVIOUS
<1>2. /\ c \in CallFrame /\ c \in Calls(stack) /\ Nested(b) /\ Calls(b) \subseteq Calls(stack)
      /\ c.fn \in {"connect", "close"} => b = <<>>
      /\ Len(stack) > 1
  BY <1>1, CallerFact DEF TcpInv
<1>3. PICK i : i = c.slot OBVIOUS
<1>4. ASSUME c.fn # "send" PROVE i \in Slots /\ connections[i].used
  BY <1>2, <1>3, <1>4, CallSlot
<1>5. CASE c.fn = "connect"
  <2>1. c \in ConnectFrame BY <1>2, <1>5, FrameKinds
  <2>2. BufferStep BY <1>1, <1>5, KeptBuffer DEF Returned
  <2>3. ASSUME NEW x \in CallFrame, x.fn = "connect", x.slot = i, stack' = <<x>> \o b,
               connections' = connections
        PROVE  ConnectionsStep /\ StackStep
    <3>1. Nested(stack') /\ Calls(stack') = {x} \cup Calls(b) BY <1>2, <1>5, <2>3, PushFact
    <3>2. x.fn \notin Handlers BY <2>3 DEF Handlers
    <3> QED BY <1>2, <1>4, <1>5, <2>3, <3>1, <3>2, KeptConnections, CallsStep
  <2>4. CASE ok \/ c.sent
    <3>1. PICK x : /\ x \in {[c EXCEPT !.pc = "wait", !.sent = TRUE], [c EXCEPT !.pc = "end"]}
                   /\ stack' = <<x>> \o b /\ connections' = connections
      BY <1>1, <1>5, <2>4 DEF Returned
    <3>2. x \in ConnectFrame /\ x.fn = "connect" /\ x.slot = i
      BY <1>3, <2>1, <3>1 DEF ConnectFrame
    <3> QED BY <2>2, <2>3, <3>1, <3>2 DEF CallFrame
  <2>5. CASE ~ok /\ ~c.sent
    <3>1. SetState(i, "ERROR") /\ stack' = b BY <1>1, <1>3, <1>5, <2>5 DEF Returned
    <3>2. ConnectionsStep /\ \A j \in Slots : connections[j].used => connections'[j].used
      BY <1>4, <1>5, <3>1, NewState DEF States
    <3> QED BY <1>2, <2>2, <3>1, <3>2, CallsStep
  <2> QED BY <2>4, <2>5
<1>6. CASE c.fn \in {"establish", "fin"}
  <2>1. PICK st \in States : /\ SetState(i, st) /\ stack' = b /\ transmit_buffer' = transmit_buffer
                             /\ st = "ESTABLISHED" => c.fn = "establish"
    BY <1>1, <1>3, <1>6 DEF Returned, States
  <2>2. c.fn = "establish" => Asked(connections[i], wire)
    BY <1>2, <1>3, <1>6 DEF TcpInv, CallsInv
  <2>3. AnswerReturns(i)
    <3>1. Answerer(c, i) BY <1>3, <1>6 DEF Answerer
    <3> QED BY <1>1, <1>2, <2>1, <3>1 DEF AnswerReturns
  <2>4. ConnectionsStep /\ \A j \in Slots : connections[j].used => connections'[j].used
    BY <1>4, <1>6, <2>1, <2>2, <2>3, NewState
  <2> QED BY <1>2, <2>1, <2>4, KeptBuffer, CallsStep
<1>7. CASE c.fn = "data"
  <2>1. PICK d \in Connection : d = connections[i] BY <1>4, <1>7, UsedConnection
  <2>2. CASE c.fin
    <3>1. PICK n \in Nat : n = d.receive_next + 1 BY DEF Connection
    <3>2. PICK y : y = [fn |-> "fin", slot |-> i, pc |-> "sending"] OBVIOUS
    <3>3. /\ connections' = [connections EXCEPT ![i].receive_next = n]
          /\ send_segment(i, "ACK", connections[i].send_next, connections'[i].receive_next,
                          <<y>> \o b)
      BY <1>1, <1>3, <1>7, <2>1, <2>2, <3>1, <3>2 DEF Returned
    <3>4. /\ ConnectionsStep /\ \A j \in Slots : connections[j].used => connections'[j].used
          /\ connections'[i] \in Connection /\ SameConnection(connections[i], connections'[i])
          /\ connections'[i].receive_next = n
      BY <1>4, <1>7, <3>3, NewReceiveNext
    <3>5. y \in CallFrame /\ y.fn = "fin" /\ y.slot = i
      BY <1>4, <1>7, <3>2 DEF CallFrame, OtherFrame
    <3>6. /\ Nested(<<y>> \o b) /\ Calls(<<y>> \o b) = {y} \cup Calls(b) /\ <<y>> \o b # <<>>
      BY <1>2, <3>5, PushFact
    <3>7. connections[i].send_next \in Nat BY <2>1 DEF Connection
    <3>8. /\ BufferStep /\ Nested(stack')
          /\ \A x \in Calls(stack') : x.fn = "send" \/ x \in Calls(<<y>> \o b)
      BY <1>4, <1>7, <3>3, <3>4, <3>6, <3>7, SegmentFact
    <3>9. \A x \in Calls(stack') : x.fn = "send" \/ x = y \/ x \in Calls(stack)
      BY <1>2, <3>6, <3>8
    <3>10. Answering(stack, i) BY <1>2, <1>3, <1>7, AnsweringFact DEF Handlers
    <3> QED BY <1>4, <1>7, <3>4, <3>5, <3>8, <3>9, <3>10, CallsStep
  <2>3. CASE ~c.fin
    <3>1. stack' = b /\ connections' = connections /\ transmit_buffer' = transmit_buffer
      BY <1>1, <1>7, <2>3 DEF Returned
    <3> QED BY <1>2, <3>1, KeptConnections, KeptBuffer, CallsStep
  <2> QED BY <2>2, <2>3
<1>8. CASE c.fn = "close"
  <2>1. /\ stack' = <<>> /\ transmit_buffer' = transmit_buffer
        /\ connections' = [connections EXCEPT ![i] = Free]
    BY <1>1, <1>2, <1>3, <1>8 DEF Returned
  <2>2. ConnectionsStep BY <2>1 DEF ConnectionsStep, TcpInv, TcpTypes, Free, SameConnection, Reset
  <2>3. StackStep BY <1>2, <1>8, <2>1 DEF StackStep, Calls
  <2> QED BY <2>1, <2>2, <2>3, KeptBuffer
<1> QED BY <1>1, <1>5, <1>6, <1>7, <1>8 DEF Returned

LEMMA EmitFact ==
    ASSUME TcpInv, stack # <<>>, Top.fn = "send", Emit(Top)
    PROVE  WireStep
<1>1. Top \in CallFrame BY PopFact DEF Top, TcpInv
<1>2. Top \in SendFrame BY <1>1, FrameKinds
<1>3. PICK f : f = [to |-> Top.to, size |-> Top.size, seg |-> transmit_buffer] OBVIOUS
<1>4. wire' = wire \cup {f} BY <1>3 DEF Emit
<1>5. f \in Packet /\ f.seg = transmit_buffer BY <1>2, <1>3 DEF Packet, SendFrame, TcpInv, TcpTypes
<1> QED BY <1>4, <1>5 DEF WireStep, TcpInv, TcpTypes

LEMMA SendingQuiet == ASSUME TcpInv, Sending PROVE QuietStep
<1>1. /\ next_port' \in PORT_FIRST .. PORT_LAST
      /\ counts' \in [connects : Nat, work : Nat] /\ counts'.connects = counts.connects
  BY DEF Sending, Resolved, arp_request, ArpTimeout, TcpInv, TcpTypes
<1>2. stack # <<>> /\ Top.fn = "send" BY DEF Sending, Resolved, arp_request, ArpTimeout, Running
<1>3. CASE Resolved
  <2>1. CASE Emit(Top) /\ Returned(TRUE) BY <1>1, <1>2, <2>1, EmitFact, ReturnedFact DEF QuietStep
  <2>2. CASE UNCHANGED wire /\ Returned(FALSE)
    BY <1>1, <1>2, <2>2, KeptWire, ReturnedFact DEF QuietStep
  <2> QED BY <1>3, <2>1, <2>2 DEF Resolved
<1>4. CASE arp_request \/ ArpTimeout
  <2>1. CASE Returned(FALSE)
    <3>1. wire' = wire BY <1>4 DEF arp_request, ArpTimeout
    <3> QED BY <1>1, <1>2, <2>1, <3>1, KeptWire, ReturnedFact DEF QuietStep
  <2>2. CASE /\ stack' = <<[Top EXCEPT !.pc = "wait"]>> \o Tail(stack)
             /\ UNCHANGED <<connections, transmit_buffer, wire>>
    <3>1. PICK x : x = [Top EXCEPT !.pc = "wait"] OBVIOUS
    <3>2. /\ Top \in CallFrame /\ Nested(Tail(stack)) /\ Tail(stack) # <<>>
          /\ Calls(Tail(stack)) \subseteq Calls(stack)
      BY <1>2, PopFact DEF Top, TcpInv
    <3>3. x \in SendFrame /\ x.fn = "send"
      <4>1. Top \in SendFrame BY <1>2, <3>2, FrameKinds
      <4> QED BY <3>1, <4>1 DEF SendFrame
    <3>4. Nested(stack') /\ Calls(stack') = {x} \cup Calls(Tail(stack))
      BY <2>2, <3>1, <3>2, <3>3, PushFact DEF CallFrame
    <3>5. StackStep BY <2>2, <3>2, <3>3, <3>4, CallsStep
    <3> QED BY <1>1, <2>2, <3>5, KeptConnections, KeptBuffer, KeptWire DEF QuietStep
  <2> QED BY <1>4, <2>1, <2>2 DEF arp_request, ArpTimeout
<1> QED BY <1>3, <1>4 DEF Sending

\* The call of the shell on top of the stack.
LEMMA ConnectTop ==
    ASSUME TcpInv, stack # <<>>, Top.fn = "connect"
    PROVE  /\ Top \in ConnectFrame /\ Tail(stack) = <<>>
           /\ Top.slot \in Slots /\ connections[Top.slot].used
<1>1. Top \in CallFrame /\ Top \in Calls(stack) /\ Tail(stack) = <<>>
  BY PopFact DEF Top, TcpInv
<1>2. Top.slot \in Slots /\ connections[Top.slot].used BY <1>1, CallSlot
<1> QED BY <1>1, <1>2, FrameKinds

LEMMA NestedEmpty == Nested(<<>>) /\ Calls(<<>>) = {}
<1>1. <<>> \in Seq(CallFrame) /\ Len(<<>>) = 0 BY EmptySeq
<1> QED BY <1>1 DEF Nested, Calls

\* A call of the shell is the first.
LEMMA FirstCall ==
    ASSUME NEW x \in CallFrame, x.fn # "send"
    PROVE  Nested(<<x>>) /\ <<x>> # <<>> /\ Calls(<<x>>) = {x} /\ <<x>> = <<x>> \o <<>>
<1>1. PICK e : e = <<>> OBVIOUS
<1>2. Nested(<<x>> \o e) /\ Calls(<<x>> \o e) = {x} \cup Calls(e) /\ <<x>> \o e # <<>>
  BY <1>1, NestedEmpty, PushFact
<1>3. <<x>> \in Seq(CallFrame) OBVIOUS
<1>4. <<x>> \o e = <<x>> BY <1>1, <1>3, ConcatEmptySeq
<1>5. Calls(e) = {} BY <1>1, NestedEmpty
<1> QED BY <1>1, <1>2, <1>4, <1>5

LEMMA ConnectQuiet ==
    ASSUME TcpInv, ConnectLoop \/ ConnectWaited \/ ConnectEnds
    PROVE  QuietStep
<1>1. /\ next_port' \in PORT_FIRST .. PORT_LAST
      /\ counts' \in [connects : Nat, work : Nat] /\ counts'.connects = counts.connects
      /\ wire' = wire
  BY DEF ConnectLoop, ConnectWaited, ConnectEnds, TcpInv, TcpTypes
<1>2. stack # <<>> /\ Top.fn = "connect" BY DEF ConnectLoop, ConnectWaited, ConnectEnds, Running
<1>3. PICK i : i = Top.slot OBVIOUS
<1>4. Top \in ConnectFrame /\ Tail(stack) = <<>> /\ i \in Slots /\ connections[i].used
  BY <1>2, <1>3, ConnectTop
<1>5. ASSUME NEW x \in ConnectFrame, x.slot = i
      PROVE  /\ Nested(<<x>> \o <<>>) /\ <<x>> \o <<>> # <<>>
             /\ Calls(<<x>> \o <<>>) = {x} /\ x.fn = "connect"
  <2>1. x \in CallFrame /\ x.fn = "connect" BY <1>5 DEF CallFrame, ConnectFrame
  <2> QED BY <2>1, FirstCall
<1>6. ASSUME NEW x \in ConnectFrame, x.slot = i, stack' = <<x>> \o <<>>,
             connections' = connections, transmit_buffer' = transmit_buffer
      PROVE  QuietStep
  <2>1. Nested(stack') /\ Calls(stack') = {x} /\ x.fn = "connect" BY <1>5, <1>6
  <2>2. StackStep BY <1>4, <1>6, <2>1, CallsStep DEF Handlers
  <2> QED BY <1>1, <1>6, <2>2, KeptConnections, KeptBuffer, KeptWire DEF QuietStep
<1>7. CASE ConnectLoop
  <2>1. CASE connections[i].state = "SYN_SENT" /\ Top.n < ATTEMPTS_SYN
    <3>1. PICK x : x = Again OBVIOUS
    <3>2. /\ connections' = connections
          /\ send_segment(i, "SYN", connections[i].send_next - 1, 0, <<x>> \o <<>>)
      BY <1>3, <1>4, <1>7, <2>1, <3>1 DEF ConnectLoop
    <3>3. x \in ConnectFrame /\ x.slot = i
      <4>1. PICK n \in Nat : n = Top.n + 1 BY <1>4 DEF ConnectFrame
      <4>2. x = [Top EXCEPT !.pc = "sending", !.n = n] BY <3>1, <4>1 DEF Again
      <4> QED BY <1>3, <1>4, <4>2 DEF ConnectFrame
    <3>4. PICK c \in Connection : c = connections[i] BY <1>4, UsedConnection
    <3>5. c.send_next - 1 \in Nat
      <4>1. PICK k \in Nat : c.send_next = 10 * k + 1
        BY <1>4, <3>4 DEF TcpInv, OwnerInv, Owned
      <4> QED BY <4>1
    <3>6. SameConnection(c, c) BY DEF SameConnection
    <3>7. /\ BufferStep /\ Nested(stack')
          /\ \A y \in Calls(stack') : y.fn = "send" \/ y \in Calls(<<x>> \o <<>>)
      BY <1>4, <1>5, <3>2, <3>3, <3>4, <3>5, <3>6, SegmentFact
    <3>8. \A y \in Calls(stack') : y.fn = "send" \/ (y.slot = i /\ y.fn = "connect")
      BY <1>5, <3>3, <3>7
    <3>9. StackStep BY <1>4, <3>2, <3>7, <3>8, CallsStep DEF Handlers
    <3> QED BY <1>1, <3>2, <3>7, <3>9, KeptConnections, KeptWire DEF QuietStep
  <2>2. CASE ~(connections[i].state = "SYN_SENT" /\ Top.n < ATTEMPTS_SYN)
    <3>1. PICK x : x = [Top EXCEPT !.pc = "end"] OBVIOUS
    <3>2. x \in ConnectFrame /\ x.slot = i BY <1>3, <1>4, <3>1 DEF ConnectFrame
    <3>3. /\ stack' = <<x>> \o <<>> /\ connections' = connections
          /\ transmit_buffer' = transmit_buffer
      BY <1>3, <1>4, <1>7, <2>2, <3>1 DEF ConnectLoop
    <3> QED BY <1>6, <3>2, <3>3
  <2> QED BY <2>1, <2>2
<1>8. CASE ConnectWaited
  <2>1. PICK x : x = [Top EXCEPT !.pc = "loop"] OBVIOUS
  <2>2. x \in ConnectFrame /\ x.slot = i BY <1>3, <1>4, <2>1 DEF ConnectFrame
  <2>3. /\ stack' = <<x>> \o <<>> /\ connections' = connections
        /\ transmit_buffer' = transmit_buffer
    BY <1>4, <1>8, <2>1 DEF ConnectWaited
  <2> QED BY <1>6, <2>2, <2>3
<1>9. CASE ConnectEnds
  <2>1. /\ stack' = <<>> /\ transmit_buffer' = transmit_buffer
        /\ SetState(i, "ERROR") \/ connections' = connections
    BY <1>3, <1>4, <1>9 DEF ConnectEnds
  <2>2. ConnectionsStep /\ \A j \in Slots : connections[j].used => connections'[j].used
    BY <1>4, <2>1, NewState, KeptConnections DEF States
  <2>3. StackStep BY <2>1, <2>2, NestedEmpty, CallsStep
  <2> QED BY <1>1, <2>1, <2>2, <2>3, KeptBuffer, KeptWire DEF QuietStep
<1> QED BY <1>7, <1>8, <1>9

LEMMA CloseQuiet == ASSUME TcpInv, NEW i \in Slots, tcp_close(i) PROVE QuietStep
<1>1. /\ next_port' \in PORT_FIRST .. PORT_LAST
      /\ counts' \in [connects : Nat, work : Nat] /\ counts'.connects = counts.connects
      /\ wire' = wire /\ stack = <<>> /\ connections[i].used
  BY DEF tcp_close, TcpInv, TcpTypes
<1>2. CASE connections[i].state = "ESTABLISHED"
  <2>1. PICK x : x = [fn |-> "close", slot |-> i, pc |-> "sending"] OBVIOUS
  <2>2. /\ connections' = connections
        /\ send_segment(i, "RST", connections[i].send_next, connections[i].receive_next, <<x>>)
    BY <1>2, <2>1 DEF tcp_close
  <2>3. x \in CallFrame /\ x.fn = "close" /\ x.slot = i BY <2>1 DEF CallFrame, OtherFrame
  <2>6. Nested(<<x>>) /\ <<x>> # <<>> /\ Calls(<<x>>) = {x} BY <2>3, FirstCall
  <2>7. PICK c \in Connection : c = connections[i] BY <1>1, UsedConnection
  <2>8. c.send_next \in Nat /\ c.receive_next \in Nat /\ SameConnection(c, c)
    BY DEF Connection, SameConnection
  <2>9. /\ BufferStep /\ Nested(stack')
        /\ \A y \in Calls(stack') : y.fn = "send" \/ y \in Calls(<<x>>)
    BY <1>1, <2>2, <2>6, <2>7, <2>8, SegmentFact
  <2>10. StackStep BY <1>1, <2>2, <2>3, <2>6, <2>9, CallsStep DEF Handlers
  <2> QED BY <1>1, <2>2, <2>9, <2>10, KeptConnections, KeptWire DEF QuietStep
<1>3. CASE connections[i].state # "ESTABLISHED"
  <2>1. /\ stack' = <<>> /\ transmit_buffer' = transmit_buffer
        /\ connections' = [connections EXCEPT ![i] = Free]
    BY <1>1, <1>3 DEF tcp_close
  <2>2. ConnectionsStep BY <2>1 DEF ConnectionsStep, TcpInv, TcpTypes, Free, SameConnection, Reset
  <2>3. StackStep BY <2>1, NestedEmpty DEF StackStep
  <2> QED BY <1>1, <2>1, <2>2, <2>3, KeptBuffer, KeptWire DEF QuietStep
<1> QED BY <1>2, <1>3

LEMMA ReconfigureQuiet == ASSUME TcpInv, Reconfigure PROVE QuietStep
<1>1. /\ stack' = <<>> /\ connections' = [i \in Slots |-> Free] /\ next_port' = PORT_FIRST
      /\ UNCHANGED <<transmit_buffer, wire, counts>>
  BY DEF Reconfigure
<1>2. ConnectionsStep BY <1>1 DEF ConnectionsStep, Free
<1>3. StackStep BY <1>1, NestedEmpty DEF StackStep
<1>4. next_port' \in PORT_FIRST .. PORT_LAST BY <1>1, TcpAssumption
<1> QED BY <1>1, <1>2, <1>3, <1>4, KeptBuffer, KeptWire DEF QuietStep, TcpInv, TcpTypes

\* What a peer may have sent.
LEMMA PeerFact ==
    ASSUME NEW h \in Hosts, NEW m \in FromPeer(h)
    PROVE  /\ m.from = h /\ m.seq \in Nat /\ m.len \in Nat /\ m.fin \in BOOLEAN
           /\ m.kind = "SYNACK" =>
                \E f \in wire : /\ f.to = h /\ Valid(f) /\ f.seg.flags = "SYN"
                                /\ f.seg.port = m.port /\ m.ack = f.seg.seq + 1
<1> DEFINE heard == {f \in wire : f.to = h /\ Valid(f)}
           Frame(kind, port, seq, ack, len, fin) ==
             [kind |-> kind, from |-> h, port |-> port, seq |-> seq, ack |-> ack, len |-> len,
              fin |-> fin]
<1>1. CASE \E p : m = Frame("RST", p, 0, 0, 0, FALSE) BY <1>1
<1>2. CASE \E f \in heard : /\ f.seg.flags = "SYN"
                            /\ m = Frame("SYNACK", f.seg.port, PEER_ISN, f.seg.seq + 1, 0, FALSE)
  BY <1>2 DEF PEER_ISN
<1>3. CASE \E f \in heard, k \in 0 .. 1, fin \in BOOLEAN :
             m = Frame("DATA", f.seg.port, PEER_ISN + 1 + k, 0, 1 - k, fin)
  BY <1>3 DEF PEER_ISN
<1> QED BY <1>1, <1>2, <1>3 DEF FromPeer

\* A handler sends its ACK.
LEMMA AckFact ==
    ASSUME TcpInv, NEW i \in Slots, connections[i].used, NEW n \in Nat,
           connections' = [connections EXCEPT ![i].receive_next = n],
           NEW fn \in {"establish", "data", "fin"}, NEW fin \in BOOLEAN,
           fn = "establish" => Asked(connections[i], wire), connections[i].state # "RESET",
           send_segment(i, "ACK", connections[i].send_next, connections'[i].receive_next,
                        <<[fn |-> fn, slot |-> i, fin |-> fin, pc |-> "sending"]>> \o stack)
    PROVE  ConnectionsStep /\ StackStep /\ BufferStep
<1>1. PICK x : x = [fn |-> fn, slot |-> i, fin |-> fin, pc |-> "sending"] OBVIOUS
<1>2. x \in CallFrame /\ x.fn = fn /\ x.slot = i BY <1>1 DEF CallFrame, AckFrame
<1>3. /\ Nested(<<x>> \o stack) /\ Calls(<<x>> \o stack) = {x} \cup Calls(stack)
      /\ <<x>> \o stack # <<>>
  BY <1>2, PushFact DEF TcpInv
<1>4. /\ ConnectionsStep /\ \A j \in Slots : connections[j].used => connections'[j].used
      /\ connections'[i] \in Connection /\ SameConnection(connections[i], connections'[i])
      /\ connections'[i].receive_next = n
  BY NewReceiveNext
<1>5. connections[i].send_next \in Nat BY UsedConnection DEF Connection
<1>6. send_segment(i, "ACK", connections[i].send_next, connections'[i].receive_next,
                   <<x>> \o stack)
  BY <1>1
<1>7. /\ BufferStep /\ Nested(stack')
      /\ \A y \in Calls(stack') : y.fn = "send" \/ y \in Calls(<<x>> \o stack)
  BY <1>3, <1>4, <1>5, <1>6, SegmentFact
<1>8. StackStep BY <1>2, <1>3, <1>4, <1>7, CallsStep DEF Reset
<1> QED BY <1>4, <1>7, <1>8

LEMMA ReceiveFact ==
    ASSUME TcpInv, NEW h \in Hosts, NEW m \in FromPeer(h), NEW i \in Slots,
           connections[i].used, connections[i].ip = h, connections[i].port = m.port,
           tcp_receive(i, m)
    PROVE  ConnectionsStep /\ StackStep /\ BufferStep
<1>1. PICK c \in Connection : c = connections[i] BY UsedConnection
<1>2. m.seq \in Nat /\ m.len \in Nat /\ m.fin \in BOOLEAN BY PeerFact
<1>3. CASE SetState(i, "RESET") /\ Quiet
  <2>1. ConnectionsStep /\ \A j \in Slots : connections[j].used => connections'[j].used
    BY <1>3, NewState DEF States
  <2>2. stack' = stack /\ transmit_buffer' = transmit_buffer BY <1>3 DEF Quiet
  <2> QED BY <2>1, <2>2, CallsStep, KeptBuffer DEF TcpInv
<1>4. CASE connections' = connections /\ Quiet
  <2>1. stack' = stack /\ transmit_buffer' = transmit_buffer BY <1>4 DEF Quiet
  <2> QED BY <1>4, <2>1, CallsStep, KeptConnections, KeptBuffer DEF TcpInv
<1>5. CASE \E n \in Nat, fn \in {"establish", "data", "fin"} :
             /\ connections' = [connections EXCEPT ![i].receive_next = n]
             /\ fn = "establish" => Answers(c, m)
             /\ c.state # "RESET"
             /\ send_segment(i, "ACK", connections[i].send_next, connections'[i].receive_next,
                             <<[fn |-> fn, slot |-> i, fin |-> m.fin, pc |-> "sending"]>> \o stack)
  <2>1. ASSUME Answers(c, m) PROVE Asked(c, wire)
    <3>1. PICK f \in wire : /\ f.to = h /\ Valid(f) /\ f.seg.flags = "SYN"
                            /\ f.seg.port = m.port /\ m.ack = f.seg.seq + 1
      BY <2>1, PeerFact DEF Answers
    <3>2. m.ack = c.send_next BY <2>1 DEF Answers
    <3>3. f.seg.seq \in Nat BY DEF TcpInv, TcpTypes, Packet, Segment
    <3>4. f.seg.seq = c.send_next - 1 BY <3>1, <3>2, <3>3
    <3> QED BY <1>1, <3>1, <3>4 DEF Asked
  <2> QED BY <1>1, <1>2, <1>5, <2>1, AckFact
<1>6. c.receive_next \in Nat /\ m.seq + 1 \in Nat /\ c.receive_next + 1 \in Nat
      /\ c.receive_next + m.len \in Nat
  BY <1>2 DEF Connection
<1> QED BY <1>1, <1>3, <1>4, <1>5, <1>6 DEF tcp_receive, Handshaking

LEMMA FramesQuiet == ASSUME TcpInv, Frames PROVE QuietStep
<1>1. CASE \E n \in Neighbours : \E mac \in Macs[n] : arp_receive(n, mac)
  <2>1. /\ UNCHANGED <<connections, next_port, transmit_buffer, stack, wire>>
        /\ counts' = [counts EXCEPT !.work = @ + 1]
    BY <1>1 DEF arp_receive, Polling
  <2>2. counts' \in [connects : Nat, work : Nat] /\ counts'.connects = counts.connects
    BY <2>1 DEF TcpInv, TcpTypes
  <2>3. StackStep BY <2>1, CallsStep DEF TcpInv
  <2> QED BY <2>1, <2>2, <2>3, KeptConnections, KeptBuffer, KeptWire DEF QuietStep, TcpInv, TcpTypes
<1>2. CASE \E h \in Hosts : \E m \in FromPeer(h) : ipv4_receive(m)
  <2> PICK h \in Hosts : \E m \in FromPeer(h) : ipv4_receive(m) BY <1>2
  <2>1. PICK m \in FromPeer(h) : ipv4_receive(m) OBVIOUS
  <2>2. PICK S \in SUBSET Nat : S = {i \in Slots : /\ connections[i].used
                                                   /\ connections[i].ip = m.from
                                                   /\ connections[i].port = m.port}
    BY SlotsNat
  <2>3. /\ S # {} /\ tcp_receive(Min(S), m) /\ UNCHANGED <<next_port, wire>>
        /\ counts' = [counts EXCEPT !.work = @ + 1]
    BY <2>1, <2>2 DEF ipv4_receive, Polling
  <2>4. PICK i \in S : i = Min(S) BY <2>3, MinFact
  <2>5. i \in Slots /\ connections[i].used /\ connections[i].ip = h /\ connections[i].port = m.port
    BY <2>2, <2>4, PeerFact
  <2>6. ConnectionsStep /\ StackStep /\ BufferStep BY <2>3, <2>4, <2>5, ReceiveFact
  <2>7. counts' \in [connects : Nat, work : Nat] /\ counts'.connects = counts.connects
    BY <2>3 DEF TcpInv, TcpTypes
  <2> QED BY <2>3, <2>6, <2>7, KeptWire DEF QuietStep, TcpInv, TcpTypes
<1> QED BY <1>1, <1>2 DEF Frames

LEMMA ModFact ==
    ASSUME NEW t \in Nat, NEW h \in Nat \ {0}
    PROVE  t \div h \in Nat /\ t % h \in 0 .. h - 1 /\ t = (t \div h) * h + (t % h)
  OBVIOUS

LEMMA PortFact ==
    ASSUME NEW p \in PORT_FIRST .. PORT_LAST, NEW n \in Nat
    PROVE  PortAfter(p, n) \in PORT_FIRST .. PORT_LAST
<1>1. PICK t \in Nat, h \in Nat \ {0} : t = p - PORT_FIRST + n /\ h = PORT_LAST - PORT_FIRST + 1
  BY TcpAssumption
<1>2. PICK r \in 0 .. h - 1 : r = t % h BY ModFact
<1>3. PortAfter(p, n) = PORT_FIRST + r BY <1>1, <1>2 DEF PortAfter
<1> QED BY <1>1, <1>3, TcpAssumption

LEMMA ConnectInv ==
    ASSUME TcpInv, NEW host \in Hosts, tcp_connect(host)
    PROVE  /\ TcpInv' /\ \A x \in Calls(stack') : x.fn \notin Handlers
           /\ \A j \in Slots : connections[j].used => connections'[j] = connections[j]
<1>1. PICK F \in SUBSET Nat : F = {j \in Slots : ~connections[j].used} BY SlotsNat
<1>2. PICK n \in Nat : n = counts.connects BY DEF TcpInv, TcpTypes
<1>3. PICK port \in allocate_port :
        /\ F # {} /\ next_port' = PortAfter(port, 1)
        /\ connections' = [connections EXCEPT ![Min(F)] =
             [used |-> TRUE, ip |-> host, port |-> port, state |-> "SYN_SENT",
              send_next |-> 10 * n + 1, receive_next |-> 0]]
        /\ stack' = <<[fn |-> "connect", slot |-> Min(F), n |-> 0, sent |-> FALSE, pc |-> "loop"]>>
        /\ UNCHANGED <<transmit_buffer, wire>>
        /\ counts' = [connects |-> n + 1, work |-> counts.work + 2]
  BY <1>1, <1>2 DEF tcp_connect
<1>4. PICK i \in Slots : i = Min(F) /\ ~connections[i].used BY <1>1, <1>3, MinFact
<1>5. port \in PORT_FIRST .. PORT_LAST /\ ~local_port_used(port)
  <2>0. 0 .. PORT_LAST - PORT_FIRST \subseteq Nat BY TcpAssumption
  <2>1. PICK U \in SUBSET Nat : U = {k \in 0 .. PORT_LAST - PORT_FIRST :
                                       ~local_port_used(PortAfter(next_port, k))}
    BY <2>0
  <2>2. U # {} /\ port = PortAfter(next_port, Min(U)) BY <1>3, <2>1 DEF allocate_port
  <2>3. Min(U) \in U BY <2>2, MinFact
  <2>4. next_port \in PORT_FIRST .. PORT_LAST BY DEF TcpInv, TcpTypes
  <2> QED BY <2>1, <2>2, <2>3, <2>4, PortFact
<1>6. PICK d : d = [used |-> TRUE, ip |-> host, port |-> port, state |-> "SYN_SENT",
                    send_next |-> 10 * n + 1, receive_next |-> 0]
  OBVIOUS
<1>7. d \in Connection
  <2>1. 10 * n + 1 \in Nat OBVIOUS
  <2> QED BY <1>5, <1>6, <2>1 DEF Connection, States
<1>8. connections \in [Slots -> {Free} \cup Connection] BY DEF TcpInv, TcpTypes
<1>9. connections' = [connections EXCEPT ![i] = d] BY <1>3, <1>4, <1>6
<1>10. connections'[i] = d /\ \A j \in Slots \ {i} : connections'[j] = connections[j]
  BY <1>8, <1>9
<1>11. connections' \in [Slots -> {Free} \cup Connection] BY <1>7, <1>8, <1>9
<1>12. TcpTypes'
  <2>1. next_port' \in PORT_FIRST .. PORT_LAST BY <1>3, <1>5, PortFact
  <2>2. counts' \in [connects : Nat, work : Nat]
    <3>1. counts.work + 2 \in Nat BY DEF TcpInv, TcpTypes
    <3> QED BY <1>3, <3>1
  <2> QED BY <1>3, <1>11, <2>1, <2>2 DEF TcpInv, TcpTypes
<1>13. PICK x : x = [fn |-> "connect", slot |-> i, n |-> 0, sent |-> FALSE, pc |-> "loop"]
  OBVIOUS
<1>14. x \in CallFrame /\ x.fn = "connect" /\ x.slot = i BY <1>13 DEF CallFrame, ConnectFrame
<1>15. stack' = <<x>> BY <1>3, <1>4, <1>13
<1>16. Nested(stack') /\ Calls(stack') = {x} BY <1>14, <1>15, FirstCall
<1>17. CallsInv' BY <1>6, <1>10, <1>14, <1>16 DEF CallsInv
<1>18. AskedInv' BY <1>3, <1>6, <1>10 DEF TcpInv, AskedInv, Asked
<1>19. PortsInv'
  <2>1. \A j \in Slots : connections[j].used => connections[j].port # port
    BY <1>5 DEF local_port_used
  <2>2. d.port = port BY <1>6
  <2> QED BY <1>10, <2>1, <2>2 DEF TcpInv, PortsInv
<1>20. OwnerInv'
  <2>1. PICK o : Owned(o, connections, transmit_buffer, wire, n) BY <1>2 DEF TcpInv, OwnerInv
  <2>2. PICK w : w = [k \in Nat |-> IF k = n THEN host ELSE o[k]] OBVIOUS
  <2>3. w[n] = host /\ \A k \in Nat : k < n => w[k] = o[k] BY <2>2
  <2>4. \A k \in Nat : k < n => k < n + 1 OBVIOUS
  <2>5. \A q, h : Belongs(q, h, o, n) => Belongs(q, h, w, n + 1) BY <2>3, <2>4 DEF Belongs
  <2>6. ASSUME NEW j \in Slots, connections'[j].used
        PROVE  \E k \in Nat : /\ k < n + 1 /\ connections'[j].send_next = 10 * k + 1
                              /\ w[k] = connections'[j].ip
    <3>1. CASE j = i
      <4>1. n < n + 1 /\ connections'[j].send_next = 10 * n + 1 /\ connections'[j].ip = host
        BY <1>6, <1>10, <3>1
      <4> QED BY <2>3, <4>1
    <3>2. CASE j # i BY <1>10, <2>1, <2>3, <2>4, <2>6, <3>2 DEF Owned
    <3> QED BY <3>1, <3>2
  <2>7. Owned(w, connections', transmit_buffer', wire', n + 1)
    BY <1>3, <2>1, <2>5, <2>6 DEF Owned
  <2>8. counts'.connects = n + 1 BY <1>3
  <2> QED BY <2>7, <2>8 DEF OwnerInv
<1> QED BY <1>4, <1>10, <1>12, <1>14, <1>16, <1>17, <1>18, <1>19, <1>20 DEF TcpInv, Handlers

LEMMA TcpInitInv == ASSUME TcpInit PROVE TcpInv
<1>1. transmit_buffer \in Segment
  <2>1. <<0, 0>> \in (Hosts \cup {0}) \X Nat OBVIOUS
  <2> QED BY <2>1 DEF TcpInit, Segment
<1>2. TcpTypes BY <1>1, TcpAssumption DEF TcpInit, TcpTypes
<1>3. Nested(stack) /\ CallsInv BY NestedEmpty DEF TcpInit, CallsInv
<1>4. AskedInv /\ PortsInv BY DEF TcpInit, AskedInv, PortsInv, Free
<1>5. \A o : Owned(o, connections, transmit_buffer, wire, counts.connects)
  BY DEF TcpInit, Owned, Free
<1> QED BY <1>2, <1>3, <1>4, <1>5 DEF TcpInv, OwnerInv

LEMMA StepKinds ==
    ASSUME TcpInv, TcpNext
    PROVE  QuietStep \/ \E host \in Hosts : tcp_connect(host)
<1>1. CASE Sending \/ Frames \/ Reconfigure BY <1>1, SendingQuiet, FramesQuiet, ReconfigureQuiet
<1>2. CASE Connecting BY <1>2, ConnectQuiet DEF Connecting
<1>3. CASE \E i \in Slots : tcp_close(i) BY <1>3, CloseQuiet
<1> QED BY <1>1, <1>2, <1>3 DEF TcpNext

LEMMA TcpStepInv == TcpInv /\ [TcpNext]_tcpVars => TcpInv'
<1>1. ASSUME TcpInv, TcpNext PROVE TcpInv'
  BY <1>1, StepKinds, QuietInv, ConnectInv
<1>2. ASSUME TcpInv, UNCHANGED tcpVars PROVE TcpInv'
  BY <1>2 DEF tcpVars, TcpInv, TcpTypes, CallsInv, AskedInv, PortsInv, OwnerInv
<1> QED BY <1>1, <1>2

\* In every state of tcp.c the calls under way, the connections, the shared
\* buffer and the segments sent agree, however deep the waits are nested.
THEOREM TcpInvariant == TcpSpec => []TcpInv
<1>1. TcpInit => TcpInv BY TcpInitInv
<1> QED BY <1>1, TcpStepInv, PTL DEF TcpSpec

\* tcp_receive establishes a connection only when the peer answered its own
\* SYN, and allocate_port never gives two connections the same port.
THEOREM TcpEstablishedWasAsked == TcpSpec => []EstablishedWasAsked
<1>1. TcpInv => EstablishedWasAsked
  BY DEF TcpInv, AskedInv, PortsInv, Asked, EstablishedWasAsked
<1> QED BY <1>1, TcpInvariant, PTL

\* A segment that goes out of the shared transmit_buffer to the wrong host is
\* not valid there: what a peer accepts was built for a connection to it.
THEOREM TcpPeerNotMisled == TcpSpec => []PeerNotMisled
<1>1. TcpInv => PeerNotMisled
  <2> SUFFICES ASSUME TcpInv, NEW f \in wire, NEW g \in wire, Valid(f), Valid(g),
                      g.seg.seq = f.seg.seq
               PROVE  g.to = f.to
    BY DEF PeerNotMisled
  <2>1. PICK o : Owned(o, connections, transmit_buffer, wire, counts.connects)
    BY DEF TcpInv, OwnerInv
  <2>2. PICK j \in Nat : /\ f.seg.seq = 10 * j \/ f.seg.seq = 10 * j + 1
                         /\ o[j] = f.to
    BY <2>1 DEF Owned, Belongs
  <2>3. PICK k \in Nat : /\ g.seg.seq = 10 * k \/ g.seg.seq = 10 * k + 1
                         /\ o[k] = g.to
    BY <2>1 DEF Owned, Belongs
  <2>4. j = k BY <2>2, <2>3
  <2> QED BY <2>2, <2>3, <2>4
<1> QED BY <1>1, TcpInvariant, PTL

LEMMA PushLength ==
    ASSUME NEW S, NEW s \in Seq(S), NEW x
    PROVE  /\ <<x>> \o s \in Seq(S \cup {x}) /\ Len(<<x>> \o s) = Len(s) + 1
           /\ Len(s) \in Nat
           /\ (<<x>> \o s)[1] = x
           /\ Len(s) > 0 => (<<x>> \o s)[2] = s[1]
<1>1. PICK T : T = S \cup {x} OBVIOUS
<1>2. s \in Seq(T) /\ <<x>> \in Seq(T) /\ Len(<<x>>) = 1 /\ <<x>>[1] = x /\ Len(s) \in Nat
  <2>1. s \in Seq(T) BY <1>1, SeqMonotonic
  <2>2. x \in T BY <1>1
  <2> QED BY <2>1, <2>2, LenProperties
<1>3. PICK t : t = <<x>> \o s OBVIOUS
<1>4. /\ t \in Seq(T) /\ Len(t) = Len(<<x>>) + Len(s)
      /\ \A i \in 1 .. Len(<<x>>) + Len(s) :
           t[i] = IF i <= Len(<<x>>) THEN <<x>>[i] ELSE s[i - Len(<<x>>)]
  BY <1>2, <1>3, ConcatProperties
<1>5. t[1] = x
  <2>1. 1 \in 1 .. Len(<<x>>) + Len(s) BY <1>2
  <2> QED BY <1>2, <1>4, <2>1
<1>6. Len(s) > 0 => t[2] = s[1]
  <2>1. Len(s) > 0 => 2 \in 1 .. Len(<<x>>) + Len(s) /\ ~(2 <= Len(<<x>>)) /\ 2 - Len(<<x>>) = 1
    BY <1>2
  <2> QED BY <1>4, <2>1
<1> QED BY <1>1, <1>2, <1>3, <1>4, <1>5, <1>6

NoNewAnswer(i) == \A k \in 1 .. Len(stack') - Len(stack) : ~Answerer(stack'[k], i)

LEMMA NoMoreCalls ==
    ASSUME NEW i, Len(stack) \in Nat, Len(stack') \in Nat, Len(stack') <= Len(stack)
    PROVE  NoNewAnswer(i)
  BY DEF NoNewAnswer

\* A send is begun for a caller that does not answer connection i.
LEMMA OtherCaller ==
    ASSUME NEW i, stack \in Seq(CallFrame), NEW s \in Seq(CallFrame), Len(s) <= Len(stack),
           NEW y, ~Answerer(y, i), NEW slot, NEW flags, NEW seq, NEW ack,
           send_segment(slot, flags, seq, ack, <<y>> \o s)
    PROVE  NoNewAnswer(i)
<1>1. PICK x : x = SendCall(slot, flags) OBVIOUS
<1>2. ~Answerer(x, i) BY <1>1 DEF SendCall, Answerer
<1>3. PICK r, S : r = <<y>> \o s /\ S = CallFrame \cup {y} OBVIOUS
<1>4. r \in Seq(S) /\ Len(r) = Len(s) + 1 /\ Len(s) \in Nat /\ r[1] = y BY <1>3, PushLength
<1>5. stack' = <<x>> \o r BY <1>1, <1>3 DEF send_segment
<1>6. Len(stack') = Len(r) + 1 /\ stack'[1] = x /\ (Len(r) > 0 => stack'[2] = r[1])
  BY <1>4, <1>5, PushLength
<1>7. Len(stack) \in Nat BY LenProperties
<1>8. Len(stack') = Len(s) + 2 /\ stack'[1] = x /\ stack'[2] = y BY <1>4, <1>6
<1>9. \A k \in 1 .. Len(stack') - Len(stack) : k = 1 \/ k = 2 BY <1>4, <1>7, <1>8
<1> QED BY <1>2, <1>8, <1>9 DEF NoNewAnswer

LEMMA SendingNoAnswer == ASSUME TcpInv, Sending, NEW i PROVE NoNewAnswer(i)
<1>1. stack # <<>> /\ Top.fn = "send" BY DEF Sending, Resolved, arp_request, ArpTimeout, Running
<1>2. stack \in Seq(CallFrame) /\ Len(stack) \in Nat BY LenProperties DEF TcpInv, Nested
<1>3. ASSUME NEW ok \in BOOLEAN, Returned(ok) PROVE NoNewAnswer(i)
  <2>1. PICK c, b : c = stack[2] /\ b = SubSeq(stack, 3, Len(stack)) OBVIOUS
  <2>2. b \in Seq(CallFrame) /\ Len(stack) > 1 /\ Len(b) = Len(stack) - 2
    BY <1>1, <2>1, CallerFact DEF TcpInv, Nested
  <2>3. ASSUME NEW x, stack' = <<x>> \o b PROVE NoNewAnswer(i)
    <3>1. Len(stack') = Len(b) + 1 BY <2>2, <2>3, PushLength
    <3> QED BY <1>2, <2>2, <3>1, NoMoreCalls
  <2>4. ASSUME stack' = b PROVE NoNewAnswer(i)
    <3>1. Len(stack') = Len(stack) - 2 BY <2>2, <2>4
    <3> QED BY <1>2, <2>2, <3>1, NoMoreCalls
  <2>5. ASSUME NEW y, NEW slot, NEW flags, NEW seq, NEW ack,
               send_segment(slot, flags, seq, ack, <<y>> \o b)
        PROVE  NoNewAnswer(i)
    <3>1. PICK r, S, x : r = <<y>> \o b /\ S = CallFrame \cup {y} /\ x = SendCall(slot, flags)
      OBVIOUS
    <3>2. r \in Seq(S) /\ Len(r) = Len(b) + 1 BY <2>2, <3>1, PushLength
    <3>3. stack' = <<x>> \o r BY <2>5, <3>1 DEF send_segment
    <3>4. Len(stack') = Len(r) + 1 BY <3>2, <3>3, PushLength
    <3> QED BY <1>2, <2>2, <3>2, <3>4, NoMoreCalls
  <2>6. CASE c.fn = "connect"
    <3>1. stack' = b \/ \E x : stack' = <<x>> \o b BY <1>3, <2>1, <2>6 DEF Returned
    <3> QED BY <2>3, <2>4, <3>1
  <2>7. CASE c.fn = "data" /\ c.fin
    <3>1. \E y, slot, flags, seq, ack : send_segment(slot, flags, seq, ack, <<y>> \o b)
      BY <1>3, <2>1, <2>7 DEF Returned
    <3> QED BY <2>5, <3>1
  <2>8. CASE c.fn # "connect" /\ ~(c.fn = "data" /\ c.fin)
    <3>1. stack' = b BY <1>3, <2>1, <2>8 DEF Returned
    <3> QED BY <2>4, <3>1
  <2> QED BY <2>6, <2>7, <2>8
<1>4. ASSUME NEW x, stack' = <<x>> \o Tail(stack) PROVE NoNewAnswer(i)
  <2>1. PICK t : t = Tail(stack) OBVIOUS
  <2>2. t \in Seq(CallFrame) /\ Len(t) = Len(stack) - 1
    BY <1>1, <1>2, <2>1, HeadTailProperties
  <2>3. Len(stack') = Len(t) + 1 BY <1>4, <2>1, <2>2, PushLength
  <2> QED BY <1>2, <2>2, <2>3, NoMoreCalls
<1> QED BY <1>3, <1>4 DEF Sending, Resolved, arp_request, ArpTimeout

LEMMA ConnectingNoAnswer == ASSUME TcpInv, Connecting, NEW i PROVE NoNewAnswer(i)
<1>1. stack \in Seq(CallFrame) /\ Len(stack) \in Nat BY LenProperties DEF TcpInv, Nested
<1>2. CASE \E h \in Hosts : tcp_connect(h)
  <2>0. PICK slot : stack = <<>> /\ stack' = <<[fn |-> "connect", slot |-> slot, n |-> 0,
                                                sent |-> FALSE, pc |-> "loop"]>>
    BY <1>2, Zenon DEF tcp_connect
  <2>1. PICK y : stack = <<>> /\ stack' = <<y>> /\ y.fn = "connect" BY <2>0
  <2>2. Len(stack) = 0 /\ Len(stack') = 1 /\ stack'[1] = y BY <2>1
  <2>3. ~Answerer(y, i) BY <2>1 DEF Answerer
  <2>4. \A k \in 1 .. Len(stack') - Len(stack) : k = 1 BY <2>2
  <2> QED BY <2>2, <2>3, <2>4 DEF NoNewAnswer
<1>3. CASE ConnectLoop \/ ConnectWaited \/ ConnectEnds
  <2>1. stack # <<>> /\ Top.fn = "connect"
    BY <1>3 DEF ConnectLoop, ConnectWaited, ConnectEnds, Running
  <2>2. PICK t : t = Tail(stack) OBVIOUS
  <2>3. t \in Seq(CallFrame) /\ Len(t) = Len(stack) - 1
    BY <1>1, <2>1, <2>2, HeadTailProperties
  <2>4. ASSUME NEW x, stack' = <<x>> \o t PROVE NoNewAnswer(i)
    <3>1. Len(stack') = Len(t) + 1 BY <2>3, <2>4, PushLength
    <3> QED BY <1>1, <2>3, <3>1, NoMoreCalls
  <2>5. CASE stack' = t
    <3>1. Len(stack') = Len(stack) - 1 /\ Len(t) \in Nat BY <2>3, <2>5, LenProperties
    <3> QED BY <1>1, <2>5, <3>1, NoMoreCalls
  <2>6. CASE \E slot, seq : send_segment(slot, "SYN", seq, 0, <<Again>> \o t)
    <3>1. PICK y : y = Again OBVIOUS
    <3>2. Top \in ConnectFrame BY <2>1, ConnectTop
    <3>3. ~Answerer(y, i) BY <3>1, <3>2 DEF Again, ConnectFrame, Answerer
    <3>4. Len(t) <= Len(stack) BY <1>1, <2>3
    <3> QED BY <1>1, <2>3, <2>6, <3>1, <3>3, <3>4, OtherCaller
  <2> QED BY <1>3, <2>2, <2>4, <2>5, <2>6 DEF ConnectLoop, ConnectWaited, ConnectEnds
<1> QED BY <1>2, <1>3 DEF Connecting

LEMMA SameStack ==
    ASSUME TcpInv, NEW i, stack' = stack
    PROVE  NoNewAnswer(i)
<1>1. Len(stack) \in Nat BY LenProperties DEF TcpInv, Nested
<1>2. Len(stack') = Len(stack) OBVIOUS
<1> QED BY <1>1, <1>2, NoMoreCalls

LEMMA ResetNoAnswer ==
    ASSUME TcpInv, TcpNext, NEW i \in Slots, connections[i].used, connections[i].state = "RESET"
    PROVE  NoNewAnswer(i)
<1>1. stack \in Seq(CallFrame) /\ Len(stack) \in Nat BY LenProperties DEF TcpInv, Nested
<1>2. CASE \E slot \in Slots : tcp_close(slot)
  <2>1. PICK slot \in Slots : tcp_close(slot) BY <1>2
  <2>2. CASE stack' = stack BY <2>2, SameStack
  <2>3. CASE stack' # stack
    <3>1. PICK y : y = [fn |-> "close", slot |-> slot, pc |-> "sending"] OBVIOUS
    <3>2. PICK seq, ack : send_segment(slot, "RST", seq, ack, <<y>>)
      BY <2>1, <2>3, <3>1 DEF tcp_close
    <3>3. PICK e : e = <<>> OBVIOUS
    <3>4. e \in Seq(CallFrame) /\ Len(e) = 0 /\ <<y>> = <<y>> \o e BY <3>3
    <3>5. ~Answerer(y, i) BY <3>1 DEF Answerer
    <3>6. send_segment(slot, "RST", seq, ack, <<y>> \o e) BY <3>2, <3>4
    <3>7. Len(e) <= Len(stack) BY <1>1, <3>4
    <3> QED BY <1>1, <3>4, <3>5, <3>6, <3>7, OtherCaller
  <2> QED BY <2>2, <2>3
<1>3. CASE \E n \in Neighbours : \E mac \in Macs[n] : arp_receive(n, mac)
  BY <1>3, SameStack DEF arp_receive
<1>4. CASE \E h \in Hosts : \E m \in FromPeer(h) : ipv4_receive(m)
  <2>1. PICK slot, m : tcp_receive(slot, m) BY <1>4 DEF ipv4_receive
  <2>2. CASE stack' = stack BY <2>2, SameStack
  <2>3. CASE stack' # stack
    <3>1. slot # i BY <2>1, <2>3 DEF tcp_receive, Handshaking, Quiet
    <3>2. PICK y : /\ y.slot = slot
                   /\ \E seq, ack : send_segment(slot, "ACK", seq, ack, <<y>> \o stack)
      BY <2>1, <2>3 DEF tcp_receive, Quiet
    <3>3. ~Answerer(y, i) BY <3>1, <3>2 DEF Answerer
    <3> QED BY <1>1, <3>2, <3>3, OtherCaller
  <2> QED BY <2>2, <2>3
<1>5. CASE Reconfigure BY <1>5, SameStack DEF Reconfigure
<1> QED BY <1>2, <1>3, <1>4, <1>5, SendingNoAnswer, ConnectingNoAnswer DEF TcpNext, Frames

\* After a RST tcp_receive begins no answer on that connection, in calls made
\* inside each other too, and does not open it again; only an answer that was
\* waiting in its send when the reset came overwrites the state as it returns.
THEOREM TcpResetStays == TcpSpec => ResetStays
<1> DEFINE Stays ==
      \A i \in Slots : connections[i].used /\ connections[i].state = "RESET" =>
        /\ \/ ~connections'[i].used \/ connections'[i].state \in {"RESET", "ERROR"}
           \/ AnswerReturns(i)
        /\ Answering(stack', i) => Answering(stack, i)
        /\ \A k \in 1 .. Len(stack') - Len(stack) : ~Answerer(stack'[k], i)
<1>1. TcpInv /\ [TcpNext]_tcpVars => [Stays]_tcpVars
  <2> SUFFICES ASSUME TcpInv, TcpNext, NEW i \in Slots, connections[i].used,
                      connections[i].state = "RESET"
               PROVE  /\ \/ ~connections'[i].used \/ connections'[i].state \in {"RESET", "ERROR"}
                         \/ AnswerReturns(i)
                      /\ Answering(stack', i) => Answering(stack, i)
                      /\ NoNewAnswer(i)
    BY DEF NoNewAnswer
  <2>1. CASE QuietStep
    <3>1. Reset(i) BY DEF Reset
    <3>2. \/ ~connections'[i].used \/ connections'[i].state \in {"RESET", "ERROR"}
          \/ AnswerReturns(i)
      BY <2>1, <3>1 DEF QuietStep, ConnectionsStep
    <3>3. \A x \in Calls(stack') :
            x.fn \in Handlers => Answering(stack, x.slot) \/ ~Reset(x.slot)
      BY <2>1 DEF QuietStep, StackStep, Handlers
    <3>4. Answering(stack', i) => Answering(stack, i) BY <3>1, <3>3, AnsweringFact
    <3> QED BY <3>2, <3>4, ResetNoAnswer
  <2>2. CASE \E host \in Hosts : tcp_connect(host)
    BY <2>2, ConnectInv, AnsweringFact, ResetNoAnswer
  <2> QED BY <2>1, <2>2, StepKinds
<1> QED BY <1>1, TcpInvariant, PTL DEF TcpSpec, ResetStays

-----------------------------------------------------------------------------
(* Name lookups: what holds in every state.                                *)

UdpSlots == 1 .. ROOT_UDP_MAX_BINDINGS
Ephemeral == EPHEMERAL_FIRST .. EPHEMERAL_LAST
Binding == [used : {TRUE}, port : Nat, handler : {"dns_receive", "dhcp_udp_receive"}]
Reply == [port : Ephemeral, id : Ids, name : HostNames, kind : Kinds, ttl : Ttls]
Lookups ==
    [pc : {"idle", "send", "wait"}, name : HostNames \cup {"none"}, id : Ids \cup {0},
     active_port : Nat, attempt : Nat, reply : Reply \cup {NoReply},
     result : {"none", "OK", "CACHED", "SEND_FAILED", "TIMEOUT"} \cup Kinds,
     address : HostNames \cup {"none"}, lookups : 0 .. MaxLookups]
CacheEntry == [used : {TRUE}, name : HostNames, address : HostNames, expires : Nat, until : Nat]

DnsTypes ==
    /\ bindings \in [UdpSlots -> {Unbound} \cup Binding]
    /\ next_ephemeral \in Ephemeral
    /\ dns \in Lookups
    /\ cache \in [CacheSlots -> {NotCached} \cup CacheEntry]
    /\ queries \subseteq [port : Ephemeral, id : Ids, name : HostNames]
    /\ clock \in Nat

\* A binding of dns.c is the one of the query under way.
BindingsOK(b, asking, port) ==
    /\ \A i \in UdpSlots : b[i].used =>
         IF b[i].handler = "dns_receive" THEN asking /\ b[i].port = port
         ELSE b[i].port = DHCP_CLIENT_PORT
    /\ \A i, j \in UdpSlots :
         b[i].used /\ b[i].handler = "dns_receive" /\ b[j].used /\ b[j].handler = "dns_receive"
           => i = j

\* The ports are given out in turn, the last one first.
Turn(p) == IF p = EPHEMERAL_LAST THEN 0 ELSE p - EPHEMERAL_FIRST + 1

QueryInv ==
    /\ dns.pc = "idle" => dns.active_port = 0 /\ dns.reply = NoReply
    /\ dns.pc # "idle" =>
         /\ dns.active_port \in Ephemeral /\ dns.id \in Ids /\ dns.name \in HostNames
         /\ dns.lookups > 0 /\ Turn(dns.active_port) = dns.lookups - 1
    /\ dns.reply # NoReply => dns.reply.name = dns.name

\* No earlier query has the port of the one under way, so none with that port
\* asks for another name.
TurnInv ==
    /\ dns.lookups < MaxLookups => Turn(next_ephemeral) = dns.lookups
    /\ \A q \in queries :
         /\ Turn(q.port) < dns.lookups
         /\ dns.pc # "idle" /\ q.port = dns.active_port => q.name = dns.name

\* An entry holds its own name's address and the end of its time on the clock.
CacheInv ==
    \A i \in CacheSlots : cache[i].used =>
      cache[i].address = cache[i].name /\ cache[i].expires = cache[i].until % U32

DnsInv ==
    /\ DnsTypes /\ BindingsOK(bindings, dns.pc # "idle", dns.active_port)
    /\ QueryInv /\ TurnInv /\ CacheInv /\ AnswerToQuestion

-----------------------------------------------------------------------------
(* Arithmetic of the clock.                                                *)

LEMMA ModInt ==
    ASSUME NEW t \in Int, NEW h \in Nat \ {0}
    PROVE  t \div h \in Int /\ t % h \in 0 .. h - 1 /\ t = (t \div h) * h + (t % h)
  OBVIOUS

LEMMA Division ==
    ASSUME NEW t \in Int, NEW h \in Nat \ {0}
    PROVE  \E q \in Int : \E r \in 0 .. h - 1 : r = t % h /\ t = q * h + r
<1>1. PICK q \in Int : q = t \div h BY ModInt
<1>2. PICK r \in 0 .. h - 1 : r = t % h BY ModInt
<1>3. t = q * h + r BY <1>1, <1>2, ModInt
<1> QED BY <1>2, <1>3

LEMMA TimesGrows ==
    ASSUME NEW h \in Nat, NEW i \in Int, NEW j \in Int, i < j
    PROVE  i * h + h <= j * h
<1>1. PICK d \in Nat : j = i + 1 + d
  <2>1. j - i - 1 \in Nat /\ j = i + 1 + (j - i - 1) OBVIOUS
  <2> QED BY <2>1
<1>2. (i + 1 + d) * h = i * h + h + d * h /\ d * h >= 0 BY Z3
<1> QED BY <1>1, <1>2

LEMMA SameRemainder ==
    ASSUME NEW h \in Nat \ {0}, NEW i \in Int, NEW j \in Int, NEW r \in 0 .. h - 1,
           NEW s \in 0 .. h - 1, i * h + r = j * h + s
    PROVE  i = j /\ r = s
<1>1. i * h \in Int /\ j * h \in Int OBVIOUS
<1>2. ~(i < j)
  <2>1. i < j => i * h + h <= j * h BY TimesGrows
  <2> QED BY <1>1, <2>1
<1>3. ~(j < i)
  <2>1. j < i => j * h + h <= i * h BY TimesGrows
  <2> QED BY <1>1, <2>1
<1>4. i = j BY <1>2, <1>3
<1> QED BY <1>1, <1>4

LEMMA SmallMod == ASSUME NEW h \in Nat \ {0}, NEW r \in 0 .. h - 1 PROVE r % h = r
<1>1. r \in Int OBVIOUS
<1>2. PICK q \in Int : \E w \in 0 .. h - 1 : w = r % h /\ r = q * h + w BY <1>1, Division
<1>3. PICK w \in 0 .. h - 1 : w = r % h /\ r = q * h + w BY <1>2
<1>4. PICK z \in Int : z = 0 OBVIOUS
<1>5. z * h + r = q * h + w BY <1>3, <1>4
<1>6. r = w BY <1>5, SameRemainder
<1> QED BY <1>3, <1>6

\* A delay counted from the clock as it is shown.
LEMMA ModShift ==
    ASSUME NEW h \in Nat \ {0}, NEW c \in Nat, NEW x \in Nat
    PROVE  ((c % h) + x) % h = (c + x) % h
<1>0. c \in Int /\ c + x \in Int OBVIOUS
<1>1. PICK q1 \in Int : \E r \in 0 .. h - 1 : r = c % h /\ c = q1 * h + r BY <1>0, Division
<1>2. PICK r1 \in 0 .. h - 1 : r1 = c % h /\ c = q1 * h + r1 BY <1>1
<1>3. r1 + x \in Int OBVIOUS
<1>4. PICK q2 \in Int : \E r \in 0 .. h - 1 : r = (r1 + x) % h /\ r1 + x = q2 * h + r
  BY <1>3, Division
<1>5. PICK r2 \in 0 .. h - 1 : r2 = (r1 + x) % h /\ r1 + x = q2 * h + r2 BY <1>4
<1>6. PICK q3 \in Int : \E r \in 0 .. h - 1 : r = (c + x) % h /\ c + x = q3 * h + r
  BY <1>0, Division
<1>7. PICK r3 \in 0 .. h - 1 : r3 = (c + x) % h /\ c + x = q3 * h + r3 BY <1>6
<1>8. PICK a \in Int : a = q1 * h OBVIOUS
<1>9. PICK b \in Int : b = q2 * h OBVIOUS
<1>10. PICK k \in Int : k = q1 + q2 OBVIOUS
<1>11. k * h = a + b BY <1>8, <1>9, <1>10, Z3
<1>12. a + b + r2 = c + x BY <1>2, <1>5, <1>8, <1>9
<1>13. k * h + r2 = q3 * h + r3 BY <1>7, <1>11, <1>12
<1>14. r2 = r3 BY <1>13, SameRemainder
<1> QED BY <1>2, <1>5, <1>7, <1>14

\* The signed comparison of two times on the clock of width h.
LEMMA SignedCompare ==
    ASSUME NEW h \in Nat \ {0}, NEW u \in Nat, NEW c \in Nat, NEW d, d = ((u % h) - (c % h)) % h,
           ~(d = 0 \/ d >= h \div 2)
    PROVE  c < u \/ c - u >= h \div 2
<1>0. u \in Int /\ c \in Int OBVIOUS
<1>1. PICK q1 \in Int : \E r \in 0 .. h - 1 : r = u % h /\ u = q1 * h + r BY <1>0, Division
<1>2. PICK r1 \in 0 .. h - 1 : r1 = u % h /\ u = q1 * h + r1 BY <1>1
<1>3. PICK q2 \in Int : \E r \in 0 .. h - 1 : r = c % h /\ c = q2 * h + r BY <1>0, Division
<1>4. PICK r2 \in 0 .. h - 1 : r2 = c % h /\ c = q2 * h + r2 BY <1>3
<1>5. r1 - r2 \in Int OBVIOUS
<1>6. PICK q3 \in Int : \E r \in 0 .. h - 1 : r = (r1 - r2) % h /\ r1 - r2 = q3 * h + r
  BY <1>5, Division
<1>7. PICK e \in 0 .. h - 1 : e = (r1 - r2) % h /\ r1 - r2 = q3 * h + e BY <1>6
<1>8. e = d BY <1>2, <1>4, <1>7
<1>9. PICK H \in Int : H = h \div 2 /\ 2 * H <= h OBVIOUS
<1>10. e # 0 /\ e < H BY <1>8, <1>9
<1>11. PICK x1 \in Int : x1 = q1 * h OBVIOUS
<1>12. PICK x2 \in Int : x2 = q2 * h OBVIOUS
<1>13. PICK x3 \in Int : x3 = q3 * h OBVIOUS
<1>14. PICK j \in Int : j = q2 - q1 - q3 OBVIOUS
<1>15. PICK x \in Int : x = j * h OBVIOUS
<1>16. x = x2 - x1 - x3 BY <1>11, <1>12, <1>13, <1>14, <1>15, Z3
<1>17. e = x - (c - u) BY <1>2, <1>4, <1>7, <1>11, <1>12, <1>13, <1>16
<1>18. SUFFICES ASSUME c >= u, c - u < H PROVE FALSE BY <1>9
<1>19. x > 0 BY <1>10, <1>17, <1>18
<1>20. j > 0
  <2>1. j = 0 => x = 0 BY <1>15
  <2>2. j < 0 => j * h + h <= 0 * h BY TimesGrows
  <2>3. j < 0 => x + h <= 0 BY <2>2, <1>15
  <2> QED BY <2>1, <2>3, <1>19
<1>21. 0 * h + h <= j * h BY <1>20, TimesGrows
<1>22. x >= h BY <1>15, <1>21
<1> QED BY <1>9, <1>10, <1>17, <1>18, <1>22

-----------------------------------------------------------------------------
(* Ports, bindings and the cache.                                          *)

LEMMA DnsConstants ==
    /\ EPHEMERAL_FIRST \in Nat /\ EPHEMERAL_LAST \in Nat /\ EPHEMERAL_FIRST > 0
    /\ EPHEMERAL_FIRST <= EPHEMERAL_LAST
    /\ MaxLookups \in Nat /\ MaxLookups <= EPHEMERAL_LAST - EPHEMERAL_FIRST + 1
    /\ UdpSlots \subseteq Nat /\ CacheSlots \subseteq Nat /\ DHCP_CLIENT_PORT \notin Ephemeral
  BY DnsAssumption DEF UdpSlots, CacheSlots, DHCP_CLIENT_PORT, Ephemeral

\* Between lookups every ephemeral port is free, so the next one is taken.
LEMMA NextPort ==
    ASSUME DnsInv, dns.pc = "idle", NEW port, udp_allocate_ephemeral_port(port)
    PROVE  port = next_ephemeral /\ AfterPort(port)
<1>1. bindings \in [UdpSlots -> {Unbound} \cup Binding] /\ next_ephemeral \in Ephemeral
  BY DEF DnsInv, DnsTypes
<1>2. \A i \in UdpSlots : bindings[i].used => bindings[i].port = DHCP_CLIENT_PORT
  BY DEF DnsInv, BindingsOK
<1>3. PICK h \in Nat \ {0} : h = EPHEMERAL_LAST - EPHEMERAL_FIRST + 1 BY DnsConstants
<1>4. PICK r \in 0 .. h - 1 : r = next_ephemeral - EPHEMERAL_FIRST
  BY <1>1, <1>3, DnsConstants DEF Ephemeral
<1>5. \A n \in 0 .. EPHEMERAL_LAST - EPHEMERAL_FIRST : Bound(PortsFrom(n)) = {}
  <2> SUFFICES ASSUME NEW n \in 0 .. EPHEMERAL_LAST - EPHEMERAL_FIRST
               PROVE  Bound(PortsFrom(n)) = {}
    OBVIOUS
  <2>1. PICK t \in Nat : t = next_ephemeral - EPHEMERAL_FIRST + n BY <1>4
  <2>2. PICK w \in 0 .. h - 1 : w = t % h BY ModFact
  <2>3. PortsFrom(n) = EPHEMERAL_FIRST + w BY <1>3, <2>1, <2>2 DEF PortsFrom
  <2>4. PortsFrom(n) # DHCP_CLIENT_PORT BY <2>3, DnsConstants DEF DHCP_CLIENT_PORT
  <2> QED BY <1>1, <1>2, <2>4 DEF Bound
<1>6. PICK unbound \in SUBSET Nat :
        /\ unbound = {n \in 0 .. EPHEMERAL_LAST - EPHEMERAL_FIRST : Bound(PortsFrom(n)) = {}}
        /\ port = PortsFrom(Min(unbound)) /\ AfterPort(port)
  BY DEF udp_allocate_ephemeral_port
<1>7. 0 \in unbound BY <1>5, <1>6, DnsConstants
<1>8. Min(unbound) = 0
  <2>1. Min(unbound) \in Nat /\ Min(unbound) <= 0 BY <1>7, MinFact
  <2> QED BY <2>1
<1>9. port = EPHEMERAL_FIRST + (r % h)
  <2>1. next_ephemeral - EPHEMERAL_FIRST + 0 = r BY <1>4
  <2> QED BY <1>3, <1>6, <1>8, <2>1 DEF PortsFrom
<1>10. r % h = r BY SmallMod
<1>11. port = next_ephemeral BY <1>1, <1>4, <1>9, <1>10, DnsConstants DEF Ephemeral
<1> QED BY <1>6, <1>11

LEMMA TurnGoesOn ==
    ASSUME NEW port \in Ephemeral, NEW n \in Nat, Turn(port) = n, n < MaxLookups,
           AfterPort(port)
    PROVE  next_ephemeral' \in Ephemeral /\ (n + 1 < MaxLookups => Turn(next_ephemeral') = n + 1)
  BY DnsConstants DEF Turn, AfterPort, Ephemeral

LEMMA BindFact ==
    ASSUME DnsInv, dns.pc = "idle", NEW port \in Ephemeral, udp_bind(port, "dns_receive")
    PROVE  /\ bindings' \in [UdpSlots -> {Unbound} \cup Binding]
           /\ BindingsOK(bindings', TRUE, port)
<1>1. bindings \in [UdpSlots -> {Unbound} \cup Binding] BY DEF DnsInv, DnsTypes
<1>2. \A i \in UdpSlots : bindings[i].used =>
        bindings[i].handler # "dns_receive" /\ bindings[i].port = DHCP_CLIENT_PORT
  BY DEF DnsInv, BindingsOK
<1>3. PICK k \in UdpSlots : k = Min(FreeBindings)
  <2>1. FreeBindings \in SUBSET Nat /\ FreeBindings \subseteq UdpSlots
    BY <1>1, DnsConstants DEF FreeBindings
  <2>2. FreeBindings # {} BY DEF udp_bind
  <2> QED BY <2>1, <2>2, MinFact
<1>4. PICK b \in Binding : b = [used |-> TRUE, port |-> port, handler |-> "dns_receive"]
  <2>1. port \in Nat BY DnsConstants DEF Ephemeral
  <2> QED BY <2>1 DEF Binding
<1>5. bindings' = [bindings EXCEPT ![k] = b] BY <1>3, <1>4 DEF udp_bind
<1>6. b.used /\ b.handler = "dns_receive" /\ b.port = port BY <1>4
<1>7. \A i \in UdpSlots : bindings'[i] = IF i = k THEN b ELSE bindings[i] BY <1>1, <1>5
<1>8. BindingsOK(bindings', TRUE, port) BY <1>2, <1>6, <1>7 DEF BindingsOK
<1> QED BY <1>1, <1>5, <1>8

LEMMA UnbindFact ==
    ASSUME DnsInv, dns.pc # "idle", udp_unbind(dns.active_port)
    PROVE  /\ bindings' \in [UdpSlots -> {Unbound} \cup Binding]
           /\ BindingsOK(bindings', FALSE, 0)
<1>1. bindings \in [UdpSlots -> {Unbound} \cup Binding] BY DEF DnsInv, DnsTypes
<1>2. dns.active_port \in Ephemeral BY DEF DnsInv, QueryInv
<1>3. BindingsOK(bindings, TRUE, dns.active_port) BY DEF DnsInv
<1>4. CASE Bound(dns.active_port) = {}
  <2>1. bindings' = bindings BY <1>4 DEF udp_unbind
  <2>2. \A i \in UdpSlots : ~(bindings[i].used /\ bindings[i].handler = "dns_receive")
    BY <1>1, <1>3, <1>4 DEF Bound, BindingsOK
  <2> QED BY <1>1, <1>3, <2>1, <2>2 DEF BindingsOK
<1>5. CASE Bound(dns.active_port) # {}
  <2>1. PICK k \in UdpSlots : k = Min(Bound(dns.active_port)) /\ k \in Bound(dns.active_port)
    <3>1. Bound(dns.active_port) \in SUBSET Nat /\ Bound(dns.active_port) \subseteq UdpSlots
      BY <1>1, DnsConstants DEF Bound
    <3> QED BY <3>1, <1>5, MinFact
  <2>2. bindings[k].used /\ bindings[k].port = dns.active_port BY <2>1 DEF Bound
  <2>3. bindings[k].handler = "dns_receive"
    BY <1>2, <1>3, <2>2, DnsConstants DEF BindingsOK
  <2>4. bindings' = [bindings EXCEPT ![k] = Unbound] BY <1>5, <2>1 DEF udp_unbind
  <2>5. ~Unbound.used BY DEF Unbound
  <2>6. \A i \in UdpSlots : bindings'[i] = IF i = k THEN Unbound ELSE bindings[i]
    BY <1>1, <2>4
  <2>7. BindingsOK(bindings', FALSE, 0) BY <1>3, <2>2, <2>3, <2>5, <2>6 DEF BindingsOK
  <2> QED BY <1>1, <2>4, <2>7
<1> QED BY <1>4, <1>5

LEMMA LookupKeeps ==
    ASSUME DnsInv, NEW name, cache_lookup(name)
    PROVE  cache' \in [CacheSlots -> {NotCached} \cup CacheEntry] /\ CacheInv'
<1>1. cache \in [CacheSlots -> {NotCached} \cup CacheEntry] BY DEF DnsInv, DnsTypes
<1>2. \A i \in CacheSlots : cache'[i] \in {NotCached, cache[i]} BY DEF cache_lookup
<1>3. DOMAIN cache' = CacheSlots /\ cache' = [i \in CacheSlots |-> cache'[i]]
  BY DEF cache_lookup
<1>4. ~NotCached.used BY DEF NotCached
<1> QED BY <1>1, <1>2, <1>3, <1>4 DEF DnsInv, CacheInv

LEMMA HitFact ==
    ASSUME DnsInv, NEW name, Hits(name) # {}
    PROVE  Min(Hits(name)) \in CacheSlots /\ cache[Min(Hits(name))].address = name
<1>1. Hits(name) \in SUBSET Nat /\ Hits(name) \subseteq Holding(name)
  BY DnsConstants DEF Hits, Holding
<1>2. Min(Hits(name)) \in Holding(name) BY <1>1, MinFact
<1> QED BY <1>2 DEF Holding, DnsInv, CacheInv

LEMMA StoreFact ==
    ASSUME DnsInv, NEW name \in HostNames, NEW ttl \in Ttls, cache_store(name, name, ttl)
    PROVE  cache' \in [CacheSlots -> {NotCached} \cup CacheEntry] /\ CacheInv'
<1>1. cache \in [CacheSlots -> {NotCached} \cup CacheEntry] /\ clock \in Nat
  BY DEF DnsInv, DnsTypes
<1>2. Clamped(ttl) \in Nat
  <2>1. ttl \in Nat /\ MAX_TTL \in Nat BY DnsAssumption
  <2>2. {ttl, MAX_TTL} \in SUBSET Nat /\ {ttl, MAX_TTL} # {} BY <2>1
  <2>3. Min({ttl, MAX_TTL}) \in Nat BY <2>2, MinFact
  <2> QED BY <2>3 DEF Clamped
<1>3. PICK x \in Nat : x = Clamped(ttl) * SECOND
  <2>1. SECOND \in Nat BY DnsAssumption
  <2> QED BY <1>2, <2>1
<1>4. U32 \in Nat \ {0} BY DnsAssumption
<1>5. PICK e : e = [used |-> TRUE, name |-> name, address |-> name,
                    expires |-> (Now + x) % U32, until |-> clock + x]
  OBVIOUS
<1>6. (Now + x) % U32 = (clock + x) % U32 BY <1>1, <1>4, ModShift DEF Now
<1>7. (clock + x) % U32 \in Nat /\ clock + x \in Nat
  <2>1. clock + x \in Nat BY <1>1
  <2>2. (clock + x) % U32 \in 0 .. U32 - 1 BY <2>1, <1>4, ModFact
  <2> QED BY <2>1, <2>2
<1>8. e \in CacheEntry /\ e.address = e.name /\ e.expires = e.until % U32
  BY <1>5, <1>6, <1>7 DEF CacheEntry
<1>9. PICK slot : cache' = [cache EXCEPT ![slot] = e] BY <1>3, <1>5 DEF cache_store
<1>10. \A i \in CacheSlots : cache'[i] = IF i = slot THEN e ELSE cache[i] BY <1>1, <1>9
<1>11. CacheInv' BY <1>8, <1>10 DEF DnsInv, CacheInv
<1> QED BY <1>1, <1>8, <1>9, <1>11

-----------------------------------------------------------------------------
(* The actions of a lookup.                                                *)

LEMMA CacheHitInv == ASSUME DnsInv, NEW name \in HostNames, CacheHit(name) PROVE DnsInv'
<1>1. dns \in Lookups /\ dns.pc = "idle" BY DEF DnsInv, DnsTypes, CacheHit
<1>2. dns' = [dns EXCEPT !.name = name, !.result = "CACHED", !.address = name]
  BY HitFact DEF CacheHit
<1>3. dns' \in Lookups /\ dns'.pc = dns.pc /\ dns'.active_port = dns.active_port
      /\ dns'.reply = dns.reply /\ dns'.lookups = dns.lookups /\ dns'.id = dns.id
      /\ dns'.name = name /\ dns'.address = name
  BY <1>1, <1>2 DEF Lookups
<1>4. bindings' = bindings /\ next_ephemeral' = next_ephemeral /\ queries' = queries
      /\ clock' = clock
  BY DEF CacheHit, udpVars
<1>5. cache' \in [CacheSlots -> {NotCached} \cup CacheEntry] /\ CacheInv'
  BY LookupKeeps DEF CacheHit
<1>6. DnsTypes' BY <1>3, <1>4, <1>5 DEF DnsInv, DnsTypes
<1>7. BindingsOK(bindings', dns'.pc # "idle", dns'.active_port) BY <1>3, <1>4 DEF DnsInv
<1>8. QueryInv' BY <1>1, <1>3 DEF DnsInv, QueryInv
<1>9. TurnInv' BY <1>1, <1>3, <1>4 DEF DnsInv, TurnInv
<1>10. AnswerToQuestion' BY <1>3 DEF AnswerToQuestion
<1> QED BY <1>5, <1>6, <1>7, <1>8, <1>9, <1>10 DEF DnsInv

LEMMA ResolveInv == ASSUME DnsInv, NEW name \in HostNames, dns_resolve_ipv4(name) PROVE DnsInv'
<1>1. dns \in Lookups /\ dns.pc = "idle" /\ dns.lookups < MaxLookups
  BY DEF DnsInv, DnsTypes, dns_resolve_ipv4
<1>2. PICK port \in Ephemeral, id \in Ids :
        /\ udp_allocate_ephemeral_port(port) /\ udp_bind(port, "dns_receive")
        /\ dns' = [dns EXCEPT !.pc = "send", !.name = name, !.id = id, !.active_port = port,
                              !.attempt = 0, !.reply = NoReply, !.result = "none", !.lookups = @ + 1]
  BY DEF dns_resolve_ipv4, Ephemeral
<1>3. PICK n \in Nat : n = dns.lookups BY <1>1 DEF Lookups
<1>4. port \in Nat /\ n + 1 \in 0 .. MaxLookups BY <1>1, <1>3, DnsConstants DEF Ephemeral
<1>5. dns' \in Lookups /\ dns'.pc = "send" /\ dns'.name = name /\ dns'.id = id
      /\ dns'.active_port = port /\ dns'.reply = NoReply /\ dns'.result = "none"
      /\ dns'.lookups = n + 1
  BY <1>1, <1>2, <1>3, <1>4 DEF Lookups
<1>6. queries' = queries /\ clock' = clock BY DEF dns_resolve_ipv4
<1>7. cache' \in [CacheSlots -> {NotCached} \cup CacheEntry] /\ CacheInv'
  BY LookupKeeps DEF dns_resolve_ipv4
<1>8. port = next_ephemeral /\ AfterPort(port) BY <1>1, <1>2, NextPort
<1>9. Turn(port) = n BY <1>1, <1>3, <1>8 DEF DnsInv, TurnInv
<1>10. next_ephemeral' \in Ephemeral /\ (n + 1 < MaxLookups => Turn(next_ephemeral') = n + 1)
  BY <1>1, <1>3, <1>8, <1>9, TurnGoesOn
<1>11. bindings' \in [UdpSlots -> {Unbound} \cup Binding] /\ BindingsOK(bindings', TRUE, port)
  BY <1>1, <1>2, BindFact
<1>12. DnsTypes' BY <1>5, <1>6, <1>7, <1>10, <1>11 DEF DnsInv, DnsTypes
<1>13. QueryInv' BY <1>5, <1>9, <1>3 DEF QueryInv
<1>14. TurnInv'
  <2>1. \A q \in queries : Turn(q.port) \in Int /\ Turn(q.port) < n
    BY <1>3, DnsConstants DEF DnsInv, TurnInv, DnsTypes, Turn, Ephemeral
  <2>2. \A q \in queries' : Turn(q.port) < n + 1 /\ q.port # port BY <1>3, <1>6, <1>9, <2>1
  <2> QED BY <1>5, <1>10, <2>2 DEF TurnInv
<1>15. AnswerToQuestion' BY <1>5 DEF AnswerToQuestion
<1> QED BY <1>5, <1>7, <1>11, <1>12, <1>13, <1>14, <1>15 DEF DnsInv

\* The end of a lookup.
LEMMA DoneInv ==
    ASSUME DnsInv, dns.pc # "idle", udp_unbind(dns.active_port),
           NEW result \in {"OK", "SEND_FAILED", "TIMEOUT"} \cup Kinds,
           NEW address \in HostNames \cup {"none"}, Done(result, address),
           result = "OK" => address = dns.name,
           next_ephemeral' = next_ephemeral, queries' = queries, clock' = clock,
           cache' \in [CacheSlots -> {NotCached} \cup CacheEntry], CacheInv'
    PROVE  DnsInv'
<1>1. dns \in Lookups BY DEF DnsInv, DnsTypes
<1>2. dns' \in Lookups /\ dns'.pc = "idle" /\ dns'.active_port = 0 /\ dns'.reply = NoReply
      /\ dns'.lookups = dns.lookups /\ dns'.name = dns.name
      /\ dns'.result = result /\ dns'.address = address
  BY <1>1 DEF Lookups, Done
<1>3. bindings' \in [UdpSlots -> {Unbound} \cup Binding] /\ BindingsOK(bindings', FALSE, 0)
  BY UnbindFact
<1>4. DnsTypes' BY <1>2, <1>3 DEF DnsInv, DnsTypes
<1>5. QueryInv' BY <1>2 DEF QueryInv
<1>6. TurnInv' BY <1>2 DEF DnsInv, TurnInv
<1>7. AnswerToQuestion' BY <1>2 DEF AnswerToQuestion, Kinds
<1> QED BY <1>2, <1>3, <1>4, <1>5, <1>6, <1>7 DEF DnsInv

LEMMA CacheKept ==
    ASSUME DnsInv, UNCHANGED cacheVars
    PROVE  cache' \in [CacheSlots -> {NotCached} \cup CacheEntry] /\ CacheInv'
  BY DEF DnsInv, DnsTypes, CacheInv, cacheVars

\* A step of the lookup under way that leaves its port, its name and its answer.
LEMMA UnderWay ==
    ASSUME DnsInv, dns.pc # "idle", dns' \in Lookups, dns'.pc # "idle",
           dns'.active_port = dns.active_port, dns'.id = dns.id, dns'.name = dns.name,
           dns'.lookups = dns.lookups, dns'.result = dns.result, dns'.address = dns.address,
           dns'.reply # NoReply => dns'.reply.name = dns.name,
           UNCHANGED <<udpVars, cacheVars, clock>>,
           queries' \subseteq queries \cup {[port |-> dns.active_port, id |-> dns.id, name |-> dns.name]}
    PROVE  DnsInv'
<1>1. bindings' = bindings /\ next_ephemeral' = next_ephemeral /\ clock' = clock
  BY DEF udpVars
<1>2. PICK q : q = [port |-> dns.active_port, id |-> dns.id, name |-> dns.name] OBVIOUS
<1>3. q \in [port : Ephemeral, id : Ids, name : HostNames]
      /\ q.port = dns.active_port /\ q.name = dns.name
  BY <1>2 DEF DnsInv, QueryInv
<1>4. queries' \subseteq queries \cup {q} BY <1>2
<1>5. cache' \in [CacheSlots -> {NotCached} \cup CacheEntry] /\ CacheInv' BY CacheKept
<1>6. DnsTypes' BY <1>1, <1>3, <1>4, <1>5 DEF DnsInv, DnsTypes
<1>7. BindingsOK(bindings', dns'.pc # "idle", dns'.active_port) BY <1>1 DEF DnsInv
<1>8. QueryInv' BY DEF DnsInv, QueryInv
<1>9. Turn(q.port) < dns.lookups
  <2>1. dns.lookups \in Int /\ Turn(dns.active_port) = dns.lookups - 1
    BY DnsConstants DEF DnsInv, DnsTypes, Lookups, QueryInv
  <2> QED BY <1>3, <2>1
<1>10. TurnInv' BY <1>1, <1>3, <1>4, <1>9 DEF DnsInv, TurnInv
<1>11. AnswerToQuestion' BY DEF DnsInv, AnswerToQuestion
<1> QED BY <1>5, <1>6, <1>7, <1>8, <1>10, <1>11 DEF DnsInv

LEMMA SendQueryInv == ASSUME DnsInv, SendQuery PROVE DnsInv'
<1>1. dns \in Lookups /\ dns.pc = "send" /\ dns.reply = NoReply
  BY DEF DnsInv, DnsTypes, SendQuery
<1>2. CASE /\ dns' = [dns EXCEPT !.pc = "wait", !.attempt = @ + 1]
           /\ queries' = queries \cup {[port |-> dns.active_port, id |-> dns.id, name |-> dns.name]}
           /\ UNCHANGED <<udpVars>>
  <2>1. dns' \in Lookups /\ dns'.pc = "wait" /\ dns'.active_port = dns.active_port
        /\ dns'.id = dns.id /\ dns'.name = dns.name /\ dns'.lookups = dns.lookups
        /\ dns'.result = dns.result /\ dns'.address = dns.address /\ dns'.reply = dns.reply
    <3>1. PICK n \in Nat : n = dns.attempt + 1 BY <1>1 DEF Lookups
    <3>2. dns' = [dns EXCEPT !.pc = "wait", !.attempt = n] BY <1>2, <3>1
    <3> QED BY <1>1, <3>2 DEF Lookups
  <2>2. UNCHANGED <<udpVars, cacheVars, clock>> BY <1>2 DEF SendQuery
  <2> QED BY <1>1, <1>2, <2>1, <2>2, UnderWay
<1>3. CASE /\ udp_unbind(dns.active_port) /\ Done("SEND_FAILED", "none")
           /\ UNCHANGED <<next_ephemeral, queries>>
  <2>1. UNCHANGED cacheVars /\ clock' = clock BY DEF SendQuery
  <2>2. cache' \in [CacheSlots -> {NotCached} \cup CacheEntry] /\ CacheInv'
    BY <2>1, CacheKept
  <2> QED BY <1>1, <1>3, <2>1, <2>2, DoneInv
<1> QED BY <1>2, <1>3 DEF SendQuery

LEMMA WaitedInv == ASSUME DnsInv, Waited PROVE DnsInv'
<1>1. dns \in Lookups /\ dns.pc = "wait" BY DEF DnsInv, DnsTypes, Waited
<1>2. dns' \in Lookups /\ dns'.pc = "send" /\ dns'.active_port = dns.active_port
      /\ dns'.id = dns.id /\ dns'.name = dns.name /\ dns'.lookups = dns.lookups
      /\ dns'.result = dns.result /\ dns'.address = dns.address /\ dns'.reply = dns.reply
  BY <1>1 DEF Lookups, Waited
<1>3. dns'.reply # NoReply => dns'.reply.name = dns.name BY <1>2 DEF DnsInv, QueryInv
<1>4. UNCHANGED <<udpVars, cacheVars, clock>> /\ queries' = queries BY DEF Waited
<1> QED BY <1>1, <1>2, <1>3, <1>4, UnderWay

LEMMA FinishInv == ASSUME DnsInv, Finish PROVE DnsInv'
<1>1. dns \in Lookups /\ dns.pc = "send" BY DEF DnsInv, DnsTypes, Finish
<1>2. udp_unbind(dns.active_port) /\ next_ephemeral' = next_ephemeral /\ queries' = queries
      /\ clock' = clock
  BY DEF Finish
<1>3. dns.reply \in Reply \cup {NoReply} /\ dns.name \in HostNames
      /\ (dns.reply # NoReply => dns.reply.name = dns.name)
  BY <1>1 DEF Lookups, DnsInv, QueryInv
<1>4. CASE dns.reply.kind = "A"
  <2>1. dns.reply \in Reply /\ dns.reply.name = dns.name BY <1>3, <1>4 DEF NoReply
  <2>2. dns.reply.ttl \in Ttls BY <2>1 DEF Reply
  <2>3. Done("OK", dns.name) /\ cache_store(dns.name, dns.name, dns.reply.ttl)
    BY <1>4, <2>1 DEF Finish
  <2>4. cache' \in [CacheSlots -> {NotCached} \cup CacheEntry] /\ CacheInv'
    BY <1>3, <2>2, <2>3, StoreFact
  <2> QED BY <1>1, <1>2, <1>3, <2>3, <2>4, DoneInv
<1>5. CASE dns.reply.kind # "A"
  <2>1. PICK result : result = IF dns.reply = NoReply THEN "TIMEOUT" ELSE dns.reply.kind
    OBVIOUS
  <2>2. result \in {"TIMEOUT"} \cup Kinds /\ result # "OK" BY <1>3, <2>1 DEF Reply, Kinds
  <2>3. Done(result, "none") /\ UNCHANGED cacheVars BY <1>5, <2>1 DEF Finish
  <2>4. cache' \in [CacheSlots -> {NotCached} \cup CacheEntry] /\ CacheInv'
    BY <2>3, CacheKept
  <2> QED BY <1>1, <1>2, <2>2, <2>3, <2>4, DoneInv
<1> QED BY <1>4, <1>5

\* What is taken for an answer comes for the port of the lookup under way, and
\* the query that had the port asked for its name.
LEMMA UdpReceiveInv ==
    ASSUME DnsInv, NEW q \in queries, NEW m \in Replies(q), udp_receive(m)
    PROVE  DnsInv'
<1>1. dns \in Lookups /\ q \in [port : Ephemeral, id : Ids, name : HostNames]
      /\ bindings \in [UdpSlots -> {Unbound} \cup Binding]
  BY DEF DnsInv, DnsTypes
<1>2. dns.pc # "idle" BY <1>1 DEF udp_receive, Bound, DnsInv, BindingsOK
<1>3. m \in Reply /\ m.port = q.port /\ m.name = q.name BY <1>1 DEF Replies, Reply
<1>4. m.name = dns.name BY <1>2, <1>3 DEF udp_receive, dns_receive, DnsInv, TurnInv
<1>5. dns' \in Lookups /\ dns'.pc = dns.pc /\ dns'.active_port = dns.active_port
      /\ dns'.id = dns.id /\ dns'.name = dns.name /\ dns'.lookups = dns.lookups
      /\ dns'.result = dns.result /\ dns'.address = dns.address /\ dns'.reply = m
  BY <1>1, <1>3 DEF Lookups, udp_receive
<1>6. UNCHANGED <<udpVars, cacheVars, clock>> /\ queries' = queries BY DEF udp_receive
<1> QED BY <1>2, <1>4, <1>5, <1>6, UnderWay

LEMMA FlushInv == ASSUME DnsInv, dns_cache_flush PROVE DnsInv'
<1>1. cache' = [i \in CacheSlots |-> NotCached] BY DEF dns_cache_flush
<1>2. UNCHANGED <<bindings, next_ephemeral, dns, queries, clock>>
  BY DEF dns_cache_flush, udpVars
<1>3. CacheInv' BY <1>1 DEF CacheInv, NotCached
<1>4. DnsTypes' BY <1>1, <1>2 DEF DnsInv, DnsTypes
<1> QED BY <1>2, <1>3, <1>4 DEF DnsInv, QueryInv, TurnInv, AnswerToQuestion

LEMMA TickInv == ASSUME DnsInv, Tick PROVE DnsInv'
<1>1. UNCHANGED <<bindings, next_ephemeral, dns, cache, queries>> /\ clock' = clock + 1
  BY DEF Tick, udpVars, cacheVars
<1>2. DnsTypes' BY <1>1 DEF DnsInv, DnsTypes
<1> QED BY <1>1, <1>2 DEF DnsInv, QueryInv, TurnInv, AnswerToQuestion, CacheInv

LEMMA DnsInitInv == ASSUME DnsInit PROVE DnsInv
<1>1. DnsTypes
  <2>1. bindings \in [UdpSlots -> {Unbound} \cup Binding]
    BY DEF DnsInit, UdpSlots, Binding, DHCP_CLIENT_PORT
  <2>2. next_ephemeral \in Ephemeral BY DnsConstants DEF DnsInit, Ephemeral
  <2>3. dns \in Lookups BY DnsConstants DEF DnsInit, Lookups
  <2> QED BY <2>1, <2>2, <2>3 DEF DnsInit, DnsTypes
<1>2. BindingsOK(bindings, dns.pc # "idle", dns.active_port)
  BY DEF DnsInit, BindingsOK, UdpSlots, Unbound, DHCP_CLIENT_PORT
<1>3. QueryInv BY DEF DnsInit, QueryInv
<1>4. TurnInv BY DEF DnsInit, TurnInv, Turn
<1>5. CacheInv BY DEF DnsInit, CacheInv, NotCached
<1>6. AnswerToQuestion BY DEF DnsInit, AnswerToQuestion
<1> QED BY <1>1, <1>2, <1>3, <1>4, <1>5, <1>6 DEF DnsInv

LEMMA DnsStepInv == DnsInv /\ [DnsNext]_dnsVars => DnsInv'
<1> SUFFICES ASSUME DnsInv, [DnsNext]_dnsVars PROVE DnsInv' OBVIOUS
<1>1. CASE Lookup BY <1>1, CacheHitInv, ResolveInv DEF Lookup
<1>2. CASE Asking BY <1>2, SendQueryInv, WaitedInv, FinishInv DEF Asking
<1>3. CASE \E q \in queries : \E m \in Replies(q) : udp_receive(m) BY <1>3, UdpReceiveInv
<1>4. CASE dns_cache_flush BY <1>4, FlushInv
<1>5. CASE Tick BY <1>5, TickInv
<1>6. CASE UNCHANGED dnsVars
  <2>1. UNCHANGED <<bindings, next_ephemeral, dns, cache, queries, clock>>
    BY <1>6 DEF dnsVars
  <2> QED BY <2>1 DEF DnsInv, DnsTypes, QueryInv, TurnInv, CacheInv, AnswerToQuestion
<1> QED BY <1>1, <1>2, <1>3, <1>4, <1>5, <1>6 DEF DnsNext

\* Lookups take their ports in turn, so no query that is still to be answered
\* has the port of the one under way; the cache holds what was answered.
THEOREM DnsInvariant == DnsSpec => []DnsInv
<1> QED BY DnsInitInv, DnsStepInv, PTL DEF DnsSpec

\* A lookup ends with the address of the name it asked for, whatever late or
\* repeated replies arrive and even when the ids of two queries are the same:
\* dns_receive and dns_resolve_ipv4.
THEOREM DnsAnswerToQuestion == DnsSpec => []AnswerToQuestion
<1>1. DnsInv => AnswerToQuestion BY DEF DnsInv
<1> QED BY <1>1, DnsInvariant, PTL

\* An address is given out only during its time to live, for any width of the
\* clock and across its wrap, except to an entry that expired half the clock's
\* range ago: the signed comparison of cache_lookup.
THEOREM DnsCacheIsFresh == DnsSpec => []CacheIsFresh
<1>1. DnsInv => CacheIsFresh
  <2> SUFFICES ASSUME DnsInv, NEW name \in HostNames, NEW i \in Hits(name)
               PROVE  clock < cache[i].until \/ clock - cache[i].until >= U32 \div 2
    BY DEF CacheIsFresh
  <2>1. i \in CacheSlots /\ cache[i].used /\ ~Expired(cache[i]) BY DEF Hits, Holding
  <2>2. cache[i] \in CacheEntry /\ clock \in Nat
    BY <2>1 DEF DnsInv, DnsTypes, NotCached
  <2>3. cache[i].expires = cache[i].until % U32 BY <2>1 DEF DnsInv, CacheInv
  <2>4. PICK u \in Nat : u = cache[i].until BY <2>2 DEF CacheEntry
  <2>5. PICK d : d = ((u % U32) - (clock % U32)) % U32 OBVIOUS
  <2>6. ~(d = 0 \/ d >= U32 \div 2) BY <2>1, <2>3, <2>4, <2>5 DEF Expired, Now
  <2>7. U32 \in Nat \ {0} BY DnsAssumption
  <2> QED BY <2>2, <2>4, <2>5, <2>6, <2>7, SignedCompare
<1> QED BY <1>1, DnsInvariant, PTL
-----------------------------------------------------------------------------
(* The parser of replies.  skip_name and BytesRead are recursive: what     *)
(* they do in one step, that a function doing it exists, and what the      *)
(* function keeps, each from the last or the first place where it fails.   *)

WalkStep(p, w, c) ==
    IF c >= Len(p) THEN -1
    ELSE IF p[c + 1] = 0 THEN c + 1
    ELSE IF p[c + 1] >= POINTER THEN IF c + 1 >= Len(p) THEN -1 ELSE c + 2
    ELSE IF p[c + 1] > 63 \/ c + 1 + p[c + 1] > Len(p) THEN -1
    ELSE w[c + 1 + p[c + 1]]
Walks(p, w, a) == w = [c \in a .. Len(p) |-> WalkStep(p, w, c)]

LEMMA FirstFailure ==
    ASSUME NEW S \in SUBSET Nat, S # {}
    PROVE  \E n \in S : \A m \in Nat : m < n => m \notin S
<1>1. Min(S) \in S /\ \A j \in S : Min(S) <= j BY MinFact
<1>2. PICK n : n = Min(S) OBVIOUS
<1>3. n \in S /\ n \in Nat /\ \A j \in S : n <= j BY <1>1, <1>2
<1>4. \A m \in Nat : m < n => m \notin S BY <1>3
<1> QED BY <1>3, <1>4

LEMMA WalkExists ==
    ASSUME NEW p \in Seq(Nat)
    PROVE  \E w : Walks(p, w, 0)
<1> DEFINE S == {n \in 0 .. Len(p) : ~\E w : Walks(p, w, Len(p) - n)}
<1> SUFFICES ASSUME S # {} PROVE FALSE
  <2>1. Len(p) \in S => S # {} OBVIOUS
  <2>2. Len(p) \in Nat /\ Len(p) - Len(p) = 0 OBVIOUS
  <2> QED BY <2>1, <2>2
<1>1. Len(p) \in Nat OBVIOUS
<1>2. PICK n \in S : \A m \in Nat : m < n => m \notin S
  <2>1. S \in SUBSET Nat BY <1>1
  <2> HIDE DEF S
  <2> QED BY <2>1, FirstFailure
<1>3. n \in Nat /\ n <= Len(p) /\ ~\E w : Walks(p, w, Len(p) - n) BY <1>1, <1>2
<1>4. PICK a : a = Len(p) - n OBVIOUS
<1>5. a \in 0 .. Len(p) BY <1>1, <1>3, <1>4
<1> HIDE DEF S
<1>6. CASE n = 0
  <2>1. PICK w : w = [c \in a .. Len(p) |-> -1] OBVIOUS
  <2>2. a = Len(p) BY <1>1, <1>4, <1>6
  <2>3. \A c \in a .. Len(p) : WalkStep(p, w, c) = -1 BY <1>1, <2>2 DEF WalkStep
  <2>4. w = [c \in a .. Len(p) |-> WalkStep(p, w, c)] BY <2>1, <2>3
  <2> QED BY <1>3, <1>4, <2>4 DEF Walks
<1>7. CASE n # 0
  <2>1. n - 1 \in Nat /\ n - 1 < n /\ n - 1 <= Len(p) /\ Len(p) - (n - 1) = a + 1
    BY <1>1, <1>3, <1>4, <1>7
  <2>2. n - 1 \notin S BY <1>2, <2>1
  <2>3. PICK v : Walks(p, v, a + 1) BY <2>1, <2>2, <1>1 DEF S
  <2>4. PICK w : w = [c \in a .. Len(p) |-> WalkStep(p, v, c)] OBVIOUS
  <2>5. \A c \in a + 1 .. Len(p) : w[c] = v[c]
    <3>1. \A c \in a + 1 .. Len(p) : c \in a .. Len(p) BY <1>5, <1>1
    <3>2. \A c \in a + 1 .. Len(p) : v[c] = WalkStep(p, v, c) BY <2>3 DEF Walks
    <3> QED BY <2>4, <3>1, <3>2
  <2>6. \A c \in a .. Len(p) : WalkStep(p, v, c) = WalkStep(p, w, c)
    <3> SUFFICES ASSUME NEW c \in a .. Len(p) PROVE WalkStep(p, v, c) = WalkStep(p, w, c)
      OBVIOUS
    <3>1. CASE c >= Len(p) BY <3>1 DEF WalkStep
    <3>2. CASE c < Len(p)
      <4>1. c \in Nat /\ c + 1 \in 1 .. Len(p) BY <1>5, <1>1, <3>2
      <4>2. p[c + 1] \in Nat BY <4>1
      <4>3. c + 1 + p[c + 1] <= Len(p) => c + 1 + p[c + 1] \in a + 1 .. Len(p)
        BY <4>1, <4>2, <1>5, <1>1
      <4>4. c + 1 + p[c + 1] <= Len(p) => v[c + 1 + p[c + 1]] = w[c + 1 + p[c + 1]]
        BY <4>3, <2>5
      <4>5. c + 1 + p[c + 1] > Len(p) \/ c + 1 + p[c + 1] <= Len(p) BY <4>1, <4>2, <1>1
      <4> QED BY <4>4, <4>5 DEF WalkStep
    <3> QED BY <3>1, <3>2, <1>5, <1>1
  <2>7. w = [c \in a .. Len(p) |-> WalkStep(p, w, c)] BY <2>4, <2>6
  <2> QED BY <1>3, <1>4, <2>7 DEF Walks
<1> QED BY <1>6, <1>7

\* A name ends inside the packet or is refused.
LEMMA SkipName ==
    ASSUME NEW p \in Seq(Nat), NEW start \in Nat
    PROVE  skip_name(p, start) \in -1 .. Len(p)
<1>1. Len(p) \in Nat OBVIOUS
<1>2. PICK w : w = CHOOSE x : Walks(p, x, 0) OBVIOUS
<1>3. Walks(p, w, 0) BY <1>2, WalkExists
<1>4. skip_name(p, start) = IF start >= Len(p) THEN -1 ELSE w[start]
  BY <1>2 DEF skip_name, Walks, WalkStep
<1>5. \A c \in 0 .. Len(p) : w[c] = WalkStep(p, w, c) BY <1>3 DEF Walks
<1> DEFINE S == {n \in 0 .. Len(p) : w[Len(p) - n] \notin -1 .. Len(p)}
<1>6. S = {}
  <2> SUFFICES ASSUME S # {} PROVE FALSE OBVIOUS
  <2>1. PICK n \in S : \A m \in Nat : m < n => m \notin S
    <3>1. S \in SUBSET Nat BY <1>1
    <3> HIDE DEF S
    <3> QED BY <3>1, FirstFailure
  <2>2. PICK c : c = Len(p) - n OBVIOUS
  <2>3. c \in 0 .. Len(p) /\ w[c] \notin -1 .. Len(p) BY <1>1, <2>1, <2>2
  <2>4. \A d \in c + 1 .. Len(p) : w[d] \in -1 .. Len(p)
    <3> SUFFICES ASSUME NEW d \in c + 1 .. Len(p) PROVE w[d] \in -1 .. Len(p) OBVIOUS
    <3>1. PICK m : m = Len(p) - d OBVIOUS
    <3>2. m \in Nat /\ m < n /\ m \in 0 .. Len(p) /\ Len(p) - m = d BY <1>1, <2>1, <2>2, <2>3, <3>1
    <3> QED BY <2>1, <3>2
  <2>5. CASE c >= Len(p) BY <2>3, <2>5, <1>5, <1>1 DEF WalkStep
  <2>6. CASE c < Len(p)
    <3>1. c + 1 \in 1 .. Len(p) /\ c + 1 \in -1 .. Len(p) BY <1>1, <2>3, <2>6
    <3>2. p[c + 1] \in Nat BY <3>1
    <3>3. PICK e : e = c + 1 + p[c + 1] OBVIOUS
    <3>4. e \in Nat /\ (e <= Len(p) => e \in c + 1 .. Len(p)) BY <1>1, <2>3, <3>2, <3>3
    <3>5. e <= Len(p) => w[e] \in -1 .. Len(p) BY <3>4, <2>4
    <3>6. w[c] = WalkStep(p, w, c) BY <2>3, <1>5
    <3>7. c + 1 < Len(p) => c + 2 \in -1 .. Len(p) BY <1>1, <2>3
    <3>8. e <= Len(p) \/ e > Len(p) BY <3>4, <1>1
    <3>9. c + 1 < Len(p) \/ c + 1 >= Len(p) BY <1>1, <2>3
    <3>10. -1 \in -1 .. Len(p) BY <1>1
    <3> QED BY <2>3, <3>1, <3>3, <3>5, <3>6, <3>7, <3>8, <3>9, <3>10 DEF WalkStep
  <2> QED BY <2>3, <2>5, <2>6, <1>1
<1>7. CASE start < Len(p)
  <2>1. Len(p) - start \in 0 .. Len(p) /\ Len(p) - (Len(p) - start) = start BY <1>1, <1>7
  <2>2. w[start] \in -1 .. Len(p) BY <2>1, <1>6
  <2> QED BY <1>1, <1>4, <1>7, <2>2
<1>8. CASE start >= Len(p) BY <1>1, <1>4, <1>8
<1> QED BY <1>1, <1>7, <1>8

Byte(p, c) == IF c < Len(p) THEN p[c + 1] ELSE 0
FirstRead == [at |-> 0, more |-> TRUE, bytes |-> {}]
AfterRead(p, r, n, end, record) ==
    IF ~r.more \/ ~RecordFits(p, n) THEN [r EXCEPT !.more = FALSE]
    ELSE IF end > Len(p) THEN [at |-> end, more |-> FALSE, bytes |-> record]
    ELSE IF Byte(p, n) = TYPE_A /\ Byte(p, n + 1) = 1
    THEN [at |-> end, more |-> FALSE, bytes |-> record \cup {n + FIXED}]
    ELSE [at |-> end, more |-> TRUE, bytes |-> record]
ReadRecord(p, r) ==
    AfterRead(p, r, skip_name(p, r.at), skip_name(p, r.at) + FIXED + Byte(p, skip_name(p, r.at) + 1),
              r.bytes \cup skip_name(p, r.at) .. skip_name(p, r.at) + FIXED - 1)
ReadQuestion(p, r) ==
    IF ~r.more \/ ~QuestionFits(p, skip_name(p, r.at)) THEN [r EXCEPT !.more = FALSE]
    ELSE [r EXCEPT !.at = skip_name(p, r.at) + QUESTION]
ReadOne(p, q, k, r) == IF k <= q THEN ReadQuestion(p, r) ELSE ReadRecord(p, r)
Reads(p, f, q, a) == f = [k \in 0 .. a |-> IF k = 0 THEN FirstRead ELSE ReadOne(p, q, k, f[k - 1])]

LEMMA ReadExists ==
    ASSUME NEW p, NEW q, NEW count \in Nat
    PROVE  \E f : Reads(p, f, q, count)
<1> DEFINE S == {n \in Nat : ~\E f : Reads(p, f, q, n)}
<1> SUFFICES ASSUME S # {} PROVE FALSE
  OBVIOUS
<1>1. PICK n \in S : \A m \in Nat : m < n => m \notin S BY FirstFailure
<1>2. n \in Nat /\ ~\E f : Reads(p, f, q, n) OBVIOUS
<1>3. CASE n = 0
  <2>1. PICK f : f = [k \in 0 .. n |-> FirstRead] OBVIOUS
  <2>2. \A k \in 0 .. n : k = 0 BY <1>3
  <2>3. Reads(p, f, q, n) BY <2>1, <2>2 DEF Reads
  <2> QED BY <1>2, <2>3
<1>4. CASE n # 0
  <2>1. n - 1 \in Nat /\ n - 1 < n BY <1>2, <1>4
  <2>2. PICK g : Reads(p, g, q, n - 1) BY <1>1, <2>1
  <2>3. PICK f : f = [k \in 0 .. n |-> IF k = 0 THEN FirstRead ELSE ReadOne(p, q, k, g[k - 1])] OBVIOUS
  <2>4. \A k \in 0 .. n - 1 : f[k] = g[k]
    <3>1. \A k \in 0 .. n - 1 : g[k] = IF k = 0 THEN FirstRead ELSE ReadOne(p, q, k, g[k - 1])
      BY <2>2 DEF Reads
    <3>2. \A k \in 0 .. n - 1 : k \in 0 .. n BY <1>2
    <3> QED BY <2>3, <3>1, <3>2
  <2>5. \A k \in 0 .. n : k # 0 => k - 1 \in 0 .. n - 1 BY <1>2
  <2>6. \A k \in 0 .. n : k # 0 => ReadOne(p, q, k, g[k - 1]) = ReadOne(p, q, k, f[k - 1])
    BY <2>4, <2>5
  <2>7. Reads(p, f, q, n) BY <2>3, <2>6 DEF Reads
  <2> QED BY <1>2, <2>7
<1> QED BY <1>3, <1>4

\* While there is more to read, the next record begins inside the packet or at
\* its end; the bytes read are those of the packet.
ReadSafe(p, r) ==
    /\ r = [at |-> r.at, more |-> r.more, bytes |-> r.bytes] /\ r.at \in Nat
    /\ r.bytes \subseteq 0 .. Len(p) - 1

LEMMA ReadStepSafe ==
    ASSUME NEW p \in Seq(Nat), NEW r, ReadSafe(p, r)
    PROVE  ReadSafe(p, ReadRecord(p, r))
<1>1. PICK n : n = skip_name(p, r.at) OBVIOUS
<1>2. n \in -1 .. Len(p) BY <1>1, SkipName DEF ReadSafe
<1>3. Len(p) \in Nat OBVIOUS
<1>4. PICK end : end = n + FIXED + Byte(p, n + 1) OBVIOUS
<1>5. PICK record : record = r.bytes \cup n .. n + FIXED - 1 OBVIOUS
<1>6. ReadRecord(p, r) = AfterRead(p, r, n, end, record) BY <1>1, <1>4, <1>5 DEF ReadRecord
<1>7. CASE ~r.more \/ ~RecordFits(p, n)
  <2>1. ReadRecord(p, r) = [r EXCEPT !.more = FALSE] BY <1>6, <1>7 DEF AfterRead
  <2>2. r = [at |-> r.at, more |-> r.more, bytes |-> r.bytes] BY DEF ReadSafe
  <2>3. ReadRecord(p, r) = [at |-> r.at, more |-> FALSE, bytes |-> r.bytes] BY <2>1, <2>2
  <2> QED BY <2>3 DEF ReadSafe
<1>8. CASE RecordFits(p, n)
  <2>1. n \in Nat /\ n + 2 <= Len(p) BY <1>2, <1>8 DEF RecordFits, FIXED
  <2>2. n + 2 \in 1 .. Len(p) /\ n + 1 < Len(p) BY <1>3, <2>1
  <2>3. Byte(p, n + 1) = p[n + 2] /\ p[n + 2] \in Nat
    <3>1. n + 1 + 1 = n + 2 BY <2>1
    <3> QED BY <2>2, <3>1 DEF Byte
  <2>4. end \in Nat /\ end = n + 2 + Byte(p, n + 1) BY <1>4, <2>1, <2>3 DEF FIXED
  <2>5. n .. n + FIXED - 1 \subseteq 0 .. Len(p) - 1 BY <1>3, <2>1 DEF FIXED
  <2>6. record \subseteq 0 .. Len(p) - 1 BY <1>5, <2>5 DEF ReadSafe
  <2>7. end <= Len(p) /\ Byte(p, n + 1) = 1 => n + FIXED \in 0 .. Len(p) - 1
    BY <1>3, <2>1, <2>4 DEF FIXED
  <2>8. end <= Len(p) \/ end > Len(p) BY <1>3, <2>4
  <2>9. \/ ReadRecord(p, r) = [r EXCEPT !.more = FALSE] /\ ~r.more
        \/ ReadRecord(p, r) = [at |-> end, more |-> FALSE, bytes |-> record]
        \/ /\ ReadRecord(p, r) = [at |-> end, more |-> FALSE, bytes |-> record \cup {n + FIXED}]
           /\ record \cup {n + FIXED} \subseteq 0 .. Len(p) - 1
        \/ ReadRecord(p, r) = [at |-> end, more |-> TRUE, bytes |-> record]
    BY <1>6, <1>8, <2>6, <2>7, <2>8 DEF AfterRead
  <2>10. ~r.more => ReadSafe(p, ReadRecord(p, r)) BY <1>7
  <2> QED BY <2>4, <2>6, <2>9, <2>10 DEF ReadSafe
<1> QED BY <1>7, <1>8

LEMMA QuestionStepSafe ==
    ASSUME NEW p \in Seq(Nat), NEW r, ReadSafe(p, r)
    PROVE  ReadSafe(p, ReadQuestion(p, r))
<1>1. PICK n : n = skip_name(p, r.at) OBVIOUS
<1>2. n \in -1 .. Len(p) /\ Len(p) \in Nat BY <1>1, SkipName DEF ReadSafe
<1>3. r = [at |-> r.at, more |-> r.more, bytes |-> r.bytes] BY DEF ReadSafe
<1>4. CASE ~r.more \/ ~QuestionFits(p, n)
  <2>1. ReadQuestion(p, r) = [r EXCEPT !.more = FALSE] BY <1>1, <1>4 DEF ReadQuestion
  <2>2. ReadQuestion(p, r) = [at |-> r.at, more |-> FALSE, bytes |-> r.bytes] BY <1>3, <2>1
  <2> QED BY <2>2 DEF ReadSafe
<1>5. CASE r.more /\ QuestionFits(p, n)
  <2>1. ReadQuestion(p, r) = [r EXCEPT !.at = n + QUESTION] BY <1>1, <1>5 DEF ReadQuestion
  <2>2. ReadQuestion(p, r) = [at |-> n + QUESTION, more |-> r.more, bytes |-> r.bytes]
    BY <1>3, <2>1
  <2>3. n + QUESTION \in Nat BY <1>2, <1>5 DEF QuestionFits, QUESTION
  <2> QED BY <2>2, <2>3 DEF ReadSafe
<1> QED BY <1>4, <1>5

LEMMA BytesInside ==
    ASSUME NEW p \in Seq(Nat), NEW q \in Nat, NEW answers \in Nat
    PROVE  BytesRead(p, q, answers) \subseteq 0 .. Len(p) - 1
<1>0. PICK count \in Nat : count = q + answers OBVIOUS
<1>1. PICK f : f = CHOOSE x : Reads(p, x, q, count) OBVIOUS
<1>2. Reads(p, f, q, count) BY <1>1, ReadExists
<1>3. BytesRead(p, q, answers) = f[count].bytes
  BY <1>0, <1>1
  DEF BytesRead, Reads, ReadOne, ReadQuestion, ReadRecord, AfterRead, FirstRead, Byte
<1>4. \A k \in 0 .. count : f[k] = IF k = 0 THEN FirstRead ELSE ReadOne(p, q, k, f[k - 1])
  BY <1>2 DEF Reads
<1> DEFINE S == {k \in 0 .. count : ~ReadSafe(p, f[k])}
<1>5. S = {}
  <2> SUFFICES ASSUME S # {} PROVE FALSE OBVIOUS
  <2>1. PICK k \in S : \A m \in Nat : m < k => m \notin S
    <3>1. S \in SUBSET Nat OBVIOUS
    <3> HIDE DEF S
    <3> QED BY <3>1, FirstFailure
  <2>2. k \in 0 .. count /\ ~ReadSafe(p, f[k]) OBVIOUS
  <2>3. k # 0
    <3>1. ReadSafe(p, FirstRead) BY DEF ReadSafe, FirstRead
    <3> QED BY <1>4, <2>2, <3>1
  <2>4. k - 1 \in Nat /\ k - 1 < k /\ k - 1 \in 0 .. count BY <2>2, <2>3
  <2>5. ReadSafe(p, f[k - 1]) BY <2>1, <2>4
  <2>6. ReadSafe(p, ReadOne(p, q, k, f[k - 1])) BY <2>5, ReadStepSafe, QuestionStepSafe DEF ReadOne
  <2> QED BY <1>4, <2>2, <2>3, <2>6
<1>6. ReadSafe(p, f[count]) BY <1>5
<1> QED BY <1>3, <1>6 DEF ReadSafe

\* Whatever bytes a reply holds, the parser reads none behind its end: the
\* checks of skip_name and of the loops over questions and answers, for frames of any
\* length.
THEOREM DnsParserInBounds == DnsSpec => []ParserInBounds
<1>1. ParserIsSafe
  <2> SUFFICES ASSUME NEW n \in 0 .. PacketMax, NEW p \in [1 .. n -> PacketBytes],
                      NEW questions \in 0 .. 2
               PROVE  BytesRead(p, questions, 2) \subseteq 0 .. n - 1
    BY DEF ParserIsSafe
  <2>1. n \in Nat /\ PacketBytes \subseteq Nat BY DnsAssumption
  <2>2. p \in [1 .. n -> Nat] BY <2>1
  <2>3. p \in Seq(Nat) /\ Len(p) = n BY <2>1, <2>2
  <2> QED BY <2>3, BytesInside
<1>2. ParserInBounds BY <1>1 DEF ParserInBounds
<1> QED BY <1>2, PTL
-----------------------------------------------------------------------------
(* DHCP: for every set of servers, number of attempts, length of a         *)
(* deadline and number of transactions.                                    *)

\* What dhcp_acquire keeps true around its loops: while it waits there is time
\* and an attempt left, and when it is not running the client is not in one of
\* the states in which it accepts an offer or an acknowledgement.
LoopInv ==
    /\ pc \in {"poll", "check"} => attempt < ATTEMPTS /\ left > 0
    /\ pc = "idle" => state_value \notin {"discovering", "requesting"}

\* What the client means to use was said in this attempt: each offered value that
\* is not zero is one the history holds.
OfferHeard ==
    state_value \in {"discovering", "requesting"} =>
      /\ offer.ip = 0 \/ <<"ip", offer.ip>> \in told
      /\ \A o \in Options : offer.opts[o] = 0 \/ <<o, offer.opts[o]>> \in told

DhcpInv == TypeOK /\ LoopInv /\ OfferHeard

-----------------------------------------------------------------------------
\* The cleared offer and the cleared configuration are well-formed.
LEMMA ClearedTypes == 0 \in Values /\ None \in Offered /\ NoConfig \in Config
  BY DEF None, NoConfig, Unset, Offered, OptionValues, Config, Values

\* What a reply holds: an address and options this client knows, their values
\* those of servers.
ReplyType(m) ==
    /\ m.ip \in Values
    /\ DOMAIN m.opts \subseteq Options
    /\ \A o \in DOMAIN m.opts : m.opts[o] \in Values

\* Every reply of a server is of that kind.
LEMMA ReplyTypes ==
    ASSUME NEW m \in ServerReplies
    PROVE  ReplyType(m)
<1>1. PICK s \in Servers : m \in Offer(s) \cup Ack(s) \cup Nak(s) \cup Foreign(s)
  BY DEF ServerReplies
<1>2. s \in Values /\ 0 \in Values
  BY DEF Values
<1>3. m.ip \in {0, s}
  BY <1>1 DEF Offer, Ack, Nak, Foreign, Addresses
<1>4. m.opts \in Selections(s)
  <2>1. [o \in Options |-> s] \in Selections(s)
    BY DEF Selections
  <2> QED BY <1>1, <2>1 DEF Offer, Ack, Nak, Foreign
<1>5. PICK S \in SUBSET Options : m.opts = [o \in S |-> s]
  BY <1>4 DEF Selections
<1> QED BY <1>2, <1>3, <1>5 DEF ReplyType

\* What parse_options leaves in the offered_ variables: an option has the reply's
\* value or the earlier one.
Parsed(p, m, i) ==
    /\ p \in Offered /\ p.ip = i
    /\ \A o \in Options : p.opts[o] = IF o \in DOMAIN m.opts THEN m.opts[o] ELSE offer.opts[o]

LEMMA ParseTypes ==
    ASSUME offer \in Offered, NEW m, ReplyType(m), NEW i \in Values
    PROVE  Parsed([parse_options(m) EXCEPT !.ip = i], m, i)
<1> DEFINE f == [o \in Options |-> IF o \in DOMAIN m.opts THEN m.opts[o] ELSE offer.opts[o]]
           p == [parse_options(m) EXCEPT !.ip = i]
<1>1. offer.opts \in OptionValues /\ DOMAIN offer = {"ip", "opts"}
  BY DEF Offered
<1>2. f \in OptionValues
  BY <1>1 DEF OptionValues, ReplyType
<1>3. p = [ip |-> i, opts |-> f]
  <2>1. p = [[offer EXCEPT !.opts = f] EXCEPT !.ip = i]
    BY DEF parse_options
  <2> HIDE DEF f, p
  <2> QED BY <1>1, <2>1 DEF Offered
<1>4. \A o \in Options : f[o] = IF o \in DOMAIN m.opts THEN m.opts[o] ELSE offer.opts[o]
  OBVIOUS
<1> HIDE DEF f, p
<1>5. p \in Offered /\ p.ip = i /\ p.opts = f
  BY <1>2, <1>3 DEF Offered
<1>6. Parsed(p, m, i)
  BY <1>4, <1>5 DEF Parsed
<1> QED BY <1>6 DEF p

\* The messages of the client are well-formed.
LEMMA MsgTypes ==
    ASSUME transaction_id \in Xids, NEW t \in {"DISCOVER", "REQUEST"},
           NEW i \in Values, NEW s \in Values
    PROVE  Msg(t, i, s) \in Message
  BY DEF Msg, Message

\* Init establishes the invariant.
LEMMA InitInv == Init => DhcpInv
<1> SUFFICES ASSUME Init PROVE DhcpInv
  OBVIOUS
<1>1. request_sent \in BOOLEAN
  BY DEF Init
<1>2. TypeOK
  BY <1>1, ClearedTypes, DhcpAssumption DEF Init, TypeOK, Xids
<1>3. LoopInv /\ OfferHeard
  BY DEF Init, LoopInv, OfferHeard
<1> QED BY <1>2, <1>3 DEF DhcpInv

\* A received reply for this client: the offered values stay those that were
\* heard, and an acknowledgement that is applied grants what it says.
LEMMA TakenReply ==
    ASSUME DhcpInv, NEW m \in ServerReplies, net_poll(m), ForUs(m)
    PROVE  /\ offer' \in Offered /\ config' \in Config /\ OfferHeard'
           /\ (config' # config \/ (state_value # "bound" /\ state_value' = "bound")) => Grants(m)
<1> USE DEF DhcpInv
<1>1. ReplyType(m) /\ offer \in Offered /\ offer.ip \in Values /\ m.ip \in Values
  BY ReplyTypes DEF TypeOK, ReplyType, Offered
<1>2. dhcp_receive(m) /\ Remember(m)
  BY DEF net_poll
<1>3. PICK i \in Values :
        /\ i = m.ip \/ i = offer.ip
        /\ offer' = [parse_options(m) EXCEPT !.ip = i]
  BY <1>1, <1>2 DEF dhcp_receive
<1>4. /\ offer' \in Offered /\ offer'.ip = i
      /\ \A o \in Options : offer'.opts[o] = IF o \in DOMAIN m.opts THEN m.opts[o] ELSE offer.opts[o]
  <2>1. Parsed([parse_options(m) EXCEPT !.ip = i], m, i)
    BY <1>1, ParseTypes
  <2> QED BY <1>3, <2>1 DEF Parsed
<1>5. OfferHeard'
  <2> SUFFICES ASSUME state_value' \in {"discovering", "requesting"} PROVE OfferHeard'
    BY DEF OfferHeard
  <2>1. told' = told \cup Tells(m)
    BY <1>2 DEF Remember, ForUs
  <2>2. state_value \in {"discovering", "requesting"}
    BY <1>2 DEF dhcp_receive, ForUs
  <2>3. offer'.ip = 0 \/ <<"ip", offer'.ip>> \in told'
    BY <1>3, <1>4, <2>1, <2>2 DEF OfferHeard, Tells
  <2>4. ASSUME NEW o \in Options
        PROVE  offer'.opts[o] = 0 \/ <<o, offer'.opts[o]>> \in told'
    <3>1. CASE o \in DOMAIN m.opts
      BY <1>4, <2>1, <3>1 DEF Tells
    <3>2. CASE o \notin DOMAIN m.opts
      BY <1>4, <2>1, <2>2, <3>2 DEF OfferHeard
    <3> QED BY <3>1, <3>2
  <2> QED BY <2>3, <2>4 DEF OfferHeard
<1>6. CASE m.type = "ACK" /\ state_value = "requesting"
  <2> DEFINE j == IF m.ip # 0 THEN m.ip ELSE offer.ip
             p == [parse_options(m) EXCEPT !.ip = j]
  <2>1. j \in Values
    BY <1>1
  <2>2. net_apply_dhcp(p)
    BY <1>2, <1>6 DEF dhcp_receive
  <2>3. Parsed(p, m, j)
    <3> HIDE DEF j
    <3> QED BY <1>1, <2>1, ParseTypes
  <2>4. PICK q : q = p
    OBVIOUS
  <2>5. /\ net_apply_dhcp(q) /\ q \in Offered
        /\ q.ip = IF m.ip # 0 THEN m.ip ELSE offer.ip
        /\ \A o \in Options : q.opts[o] = IF o \in DOMAIN m.opts THEN m.opts[o] ELSE offer.opts[o]
    <3>1. net_apply_dhcp(q) /\ Parsed(q, m, j)
      BY <2>2, <2>3, <2>4
    <3> QED BY <3>1 DEF Parsed
  <2> HIDE DEF p, j
  <2>6. PICK c \in BOOLEAN : c <=> q.ip # 0
    OBVIOUS
  <2>7. config' = [configured |-> c, ip |-> q.ip, opts |-> q.opts]
    BY <2>5, <2>6 DEF net_apply_dhcp
  <2>8. config' \in Config
    BY <2>5, <2>7 DEF Config, Offered
  <2>9. offer.ip = 0 \/ <<"ip", offer.ip>> \in told
    BY <1>6 DEF OfferHeard
  <2>10. \A o \in Options : offer.opts[o] = 0 \/ <<o, offer.opts[o]>> \in told
    BY <1>6 DEF OfferHeard
  <2>11. Grants(m)
    BY <1>6, <2>5, <2>6, <2>7, <2>9, <2>10 DEF Grants, ForUs
  <2> QED BY <1>4, <1>5, <2>8, <2>11
<1>7. CASE ~(m.type = "ACK" /\ state_value = "requesting")
  <2>1. config' = config /\ ~(state_value # "bound" /\ state_value' = "bound")
    BY <1>2, <1>7 DEF dhcp_receive
  <2> QED BY <1>4, <1>5, <2>1 DEF TypeOK
<1> QED BY <1>6, <1>7

\* A received message keeps the invariant.
LEMMA ReceiveInv ==
    ASSUME DhcpInv, NEW m \in ServerReplies, net_poll(m)
    PROVE  DhcpInv'
<1> USE DEF DhcpInv
<1>1. CASE ~ForUs(m)
  <2>1. TypeOK' /\ LoopInv'
    BY <1>1, DhcpAssumption DEF net_poll, client, TypeOK, LoopInv, PollMore
  <2>2. OfferHeard'
    <3>1. UNCHANGED <<state_value, offer>> /\ Remember(m)
      BY <1>1 DEF net_poll, client
    <3>2. state_value' \in {"discovering", "requesting"} => told \subseteq told'
      BY <3>1 DEF Remember
    <3> QED BY <3>1, <3>2 DEF OfferHeard
  <2> QED BY <2>1, <2>2
<1>2. CASE ForUs(m)
  <2>1. dhcp_receive(m)
    BY <1>2 DEF net_poll
  <2>2. offer' \in Offered /\ config' \in Config /\ OfferHeard'
    BY <1>2, TakenReply
  <2>3. TypeOK'
    BY <2>1, <2>2, DhcpAssumption DEF net_poll, dhcp_receive, TypeOK, PollMore
  <2>4. LoopInv'
    BY <2>1 DEF net_poll, dhcp_receive, LoopInv, TypeOK
  <2> QED BY <2>2, <2>3, <2>4
<1> QED BY <1>1, <1>2

\* The steps of dhcp_acquire and the other calls of the kernel.
LEMMA ClientInv ==
    ASSUME DhcpInv, Step \/ AcquireNoLink \/ dhcp_acquire \/ net_select_device
    PROVE  DhcpInv'
<1> USE DEF DhcpInv
<1>1. ASSUME NEW ok \in BOOLEAN, send_discover(ok)
      PROVE  DhcpInv'
  <2>1. net' \in SUBSET Message
    BY <1>1, MsgTypes, ClearedTypes DEF send_discover, TypeOK
  <2>2. request_sent' \in BOOLEAN
    BY <1>1 DEF send_discover
  <2>3. TypeOK'
    BY <1>1, <2>1, <2>2, ClearedTypes, DhcpAssumption DEF send_discover, TypeOK, Return, Waiting
  <2>4. LoopInv' /\ OfferHeard'
    BY <1>1, DhcpAssumption
    DEF send_discover, TypeOK, LoopInv, Return, Waiting, OfferHeard, None, Unset
  <2> QED BY <2>3, <2>4
<1>2. ASSUME NEW ok \in BOOLEAN, send_request(ok)
      PROVE  DhcpInv'
  <2>1. offer.ip \in Values /\ offer.opts["server"] \in Values
    BY DhcpAssumption DEF TypeOK, Offered, OptionValues
  <2>2. net' \in SUBSET Message
    BY <1>2, <2>1, MsgTypes DEF send_request, TypeOK
  <2>3. request_sent' \in BOOLEAN
    BY <1>2 DEF send_request, TypeOK
  <2>4. TypeOK'
    BY <1>2, <2>2, <2>3, DhcpAssumption
    DEF send_request, TypeOK, LoopInv, Waiting, NextAttempt
  <2>5. LoopInv'
    BY <1>2, DhcpAssumption DEF send_request, TypeOK, LoopInv, Waiting, NextAttempt
  <2>6. OfferHeard'
    BY <1>2 DEF send_request, OfferHeard
  <2> QED BY <2>4, <2>5, <2>6
<1>3. CASE GiveUp \/ PollEnds \/ InvalidOffer \/ Acquired \/ Rejected \/ Hlt
  <2>1. TypeOK'
    BY <1>3, DhcpAssumption
    DEF GiveUp, PollEnds, InvalidOffer, Acquired, Rejected, Hlt, Return, NextAttempt, Waiting,
        TypeOK, LoopInv, client
  <2>2. LoopInv'
    BY <1>3, DhcpAssumption
    DEF GiveUp, PollEnds, InvalidOffer, Acquired, Rejected, Hlt, Return, NextAttempt, Waiting,
        TypeOK, LoopInv, client
  <2>3. OfferHeard'
    BY <1>3
    DEF GiveUp, PollEnds, InvalidOffer, Acquired, Rejected, Hlt, Return, OfferHeard, client
  <2> QED BY <2>1, <2>2, <2>3
<1>4. CASE AcquireNoLink
  BY <1>4 DEF AcquireNoLink, TypeOK, LoopInv, OfferHeard, loop
<1>5. CASE dhcp_acquire \/ net_select_device
  <2>1. net_clear_ipv4 /\ net' = net
    BY <1>5 DEF dhcp_acquire, net_select_device
  <2>2. request_sent' \in BOOLEAN
    BY <2>1 DEF net_clear_ipv4
  <2>3. TypeOK'
    BY <1>5, <2>1, <2>2, ClearedTypes, DhcpAssumption
    DEF dhcp_acquire, net_select_device, net_clear_ipv4, TypeOK, Xids, loop
  <2>4. LoopInv' /\ OfferHeard'
    BY <1>5, <2>1 DEF dhcp_acquire, net_select_device, net_clear_ipv4, LoopInv, OfferHeard, loop
  <2> QED BY <2>3, <2>4
<1> QED
  BY <1>1, <1>2, <1>3, <1>4, <1>5 DEF Step

\* Every step of the specification keeps the invariant.
LEMMA NextInv == DhcpInv /\ [Next]_vars => DhcpInv'
<1> SUFFICES ASSUME DhcpInv, [Next]_vars PROVE DhcpInv'
  OBVIOUS
<1>1. CASE UNCHANGED vars
  BY <1>1 DEF DhcpInv, TypeOK, LoopInv, OfferHeard, vars, client, loop
<1>2. CASE Next
  BY <1>2, ReceiveInv, ClientInv DEF Next
<1> QED BY <1>1, <1>2

\* Only a received reply makes the client bound or configures it.
LEMMA OnlyRepliesConfigure ==
    ASSUME [Next]_vars, ~\E m \in ServerReplies : net_poll(m)
    PROVE  /\ config' = config \/ config' = NoConfig
           /\ state_value' = "bound" => state_value = "bound"
           /\ transaction_id' # transaction_id => config' = NoConfig
<1>1. CASE Step
  BY <1>1 DEF Step, send_discover, send_request, GiveUp, PollEnds, InvalidOffer, Acquired,
              Rejected, Hlt, Return, client
<1>2. CASE AcquireNoLink \/ dhcp_acquire \/ net_select_device
  BY <1>2 DEF AcquireNoLink, dhcp_acquire, net_select_device, net_clear_ipv4
<1>3. CASE UNCHANGED vars
  BY <1>3 DEF vars, client
<1> QED BY <1>1, <1>2, <1>3 DEF Next

\* The inductive invariant holds in every reachable state of the client.
THEOREM DhcpInvariant == Spec => []DhcpInv
  BY InitInv, NextInv, PTL DEF Spec

\* Type correctness of the client: the attempt, the deadline and the frame count
\* of net_poll stay within their limits.
THEOREM DhcpTypes == Spec => []TypeOK
<1>1. DhcpInv => TypeOK
  BY DEF DhcpInv
<1> QED BY <1>1, DhcpInvariant, PTL

\* Whatever the servers reply, in whatever order, however late and often and with
\* whatever options left out, the configuration is cleared or changed only by an
\* acknowledgement of this transaction to this host, whose values it takes; the
\* others were heard in the same attempt.
THEOREM DhcpLeaseGranted == Spec => LeaseGranted
<1> DEFINE L ==
      /\ \/ config' # config /\ config' # NoConfig
         \/ state_value # "bound" /\ state_value' = "bound"
         => \E m \in ServerReplies : net_poll(m) /\ Grants(m)
      /\ transaction_id' # transaction_id => ~config'.configured
<1>1. ASSUME DhcpInv, [Next]_vars
      PROVE  [L]_vars
  <2>1. CASE \E m \in ServerReplies : net_poll(m)
    <3>1. PICK m \in ServerReplies : net_poll(m)
      BY <2>1
    <3>2. CASE ForUs(m)
      <4>1. (config' # config \/ (state_value # "bound" /\ state_value' = "bound")) => Grants(m)
        BY <1>1, <3>1, <3>2, TakenReply
      <4>2. transaction_id' = transaction_id
        BY <3>1, <3>2 DEF net_poll, dhcp_receive
      <4> QED BY <3>1, <4>1, <4>2
    <3>3. CASE ~ForUs(m)
      BY <3>1, <3>3 DEF net_poll, client
    <3> QED BY <3>2, <3>3
  <2>2. CASE ~\E m \in ServerReplies : net_poll(m)
    <3>1. /\ config' = config \/ config' = NoConfig
          /\ state_value' = "bound" => state_value = "bound"
          /\ transaction_id' # transaction_id => config' = NoConfig
      BY <1>1, <2>2, OnlyRepliesConfigure
    <3> QED BY <3>1 DEF NoConfig
  <2> QED BY <2>1, <2>2
<1> QED BY <1>1, DhcpInvariant, PTL DEF Spec, LeaseGranted

\* A message that is received after dhcp_acquire has returned configures nothing.
THEOREM DhcpNoLateLease == Spec => NoLateLease
<1>1. ASSUME DhcpInv, [Next]_vars
      PROVE  [config'.configured /\ config' # config => pc = "poll"]_vars
  <2> SUFFICES ASSUME config'.configured, config' # config PROVE pc = "poll"
    OBVIOUS
  <2>1. config' # NoConfig
    BY DEF NoConfig
  <2>2. PICK m \in ServerReplies : net_poll(m)
    BY <1>1, <2>1, OnlyRepliesConfigure
  <2>3. dhcp_receive(m)
    BY <2>2 DEF net_poll, client
  <2>4. state_value = "requesting"
    BY <2>3 DEF dhcp_receive
  <2> QED
    BY <2>2, <2>4, <1>1 DEF net_poll, DhcpInv, LoopInv
<1> QED
  BY <1>1, DhcpInvariant, PTL DEF Spec, NoLateLease
=============================================================================
