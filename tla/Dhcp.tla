-------------------------------- MODULE Dhcp --------------------------------
(***************************************************************************)
(* The DHCP client of RootOS (source/network/dhcp.c) and the configuration *)
(* it fills in (source/network/net.c).  dhcp_acquire runs to its end while *)
(* the rest of the kernel waits; what it waits for is handed to            *)
(* dhcp_receive by net_poll.  Other callers poll too, so messages also     *)
(* arrive while no acquisition runs.                                       *)
(*                                                                         *)
(* Servers are external: any of them answers any message the client ever   *)
(* sent, as often and as late as it likes, so that replies are delayed,    *)
(* repeated, reordered or lost.  What a server sends, an address or the    *)
(* value of an option, is its own number.  A reply holds any selection of  *)
(* the options.                                                            *)
(***************************************************************************)
EXTENDS Integers, FiniteSets

CONSTANTS
    Servers,        \* the servers of the network, positive numbers
    Faulty,         \* those that may leave the address out of a reply
    Options,        \* the options parse_options takes over; "server" is 54
    ATTEMPTS,       \* how often dhcp_acquire discovers (3)
    WAIT,           \* clock ticks until a deadline (3000 ms)
    RX_MAX,         \* frames taken by one net_poll (32)
    MaxTransactions \* bound on the acquisitions of a behaviour

ASSUME DhcpAssumption ==
    /\ Servers \subseteq Nat \ {0} /\ Faulty \subseteq Servers
    /\ "server" \in Options /\ "ip" \notin Options
    /\ ATTEMPTS \in Nat \ {0} /\ WAIT \in Nat \ {0}
    /\ RX_MAX \in Nat \ {0} /\ MaxTransactions \in Nat

VARIABLES
    state_value,    \* the client's state
    transaction_id, \* 0 after dhcp_init
    offer,          \* offered_ip and the offered value of each option
    request_sent,
    config,         \* the DHCP part of RootNetConfig
    pc,             \* where dhcp_acquire is: "idle" when it is not running
    attempt,
    left,           \* ticks to the deadline
    packets,        \* frames taken by the net_poll in progress
    net,            \* messages the client sent so far
    transactions,   \* transaction ids drawn so far
    told           \* history: what the replies of this attempt told the client

client == <<state_value, transaction_id, offer, request_sent, config>>
loop == <<pc, attempt, left, packets>>
vars == <<client, loop, net, transactions, told>>

Values == Servers \cup {0}
Xids == 0 .. MaxTransactions
OptionValues == [Options -> Values]
Message == [type : {"DISCOVER", "REQUEST"}, xid : Xids, ip : Values, server : Values]
Offered == [ip : Values, opts : OptionValues]
Config == [configured : BOOLEAN, ip : Values, opts : OptionValues]

Unset == [o \in Options |-> 0]
None == [ip |-> 0, opts |-> Unset]
NoConfig == [configured |-> FALSE, ip |-> 0, opts |-> Unset]

Msg(type, ip, server) ==
    [type |-> type, xid |-> transaction_id, ip |-> ip, server |-> server]

-----------------------------------------------------------------------------
(* The servers, external.                                                  *)

\* The options s puts into a reply, and its address.
Selections(s) == {[o \in S |-> s] : S \in SUBSET Options}
Addresses(s) == IF s \in Faulty THEN {0, s} ELSE {s}

\* The transactions s is asked something in.
AskedIn(s, type) ==
    {m.xid : m \in {n \in net : n.type = type /\ (type = "REQUEST" => n.server = s)}}

\* The requests for its own address, all it may acknowledge.
AskedForOwn(s) ==
    {m.xid : m \in {n \in net : n.type = "REQUEST" /\ n.server = s /\ n.ip = s}}

Offer(s) ==
    [type : {"OFFER"}, to : {"own"}, xid : AskedIn(s, "DISCOVER"), ip : Addresses(s),
     opts : Selections(s)]

Ack(s) ==
    [type : {"ACK"}, to : {"own"}, xid : AskedForOwn(s), ip : Addresses(s), opts : Selections(s)]

Nak(s) ==
    [type : {"NAK"}, to : {"own"}, xid : AskedIn(s, "REQUEST"), ip : {0}, opts : Selections(s)]

\* Replies to another host that happens to use the same transaction id: it is
\* made of the time since boot and the hardware address.
Foreign(s) ==
    [type : {"OFFER", "ACK", "NAK"}, to : {"other"}, xid : {transaction_id}, ip : {s},
     opts : {[o \in Options |-> s]}]

ServerReplies == UNION {Offer(s) \cup Ack(s) \cup Nak(s) \cup Foreign(s) : s \in Servers}

-----------------------------------------------------------------------------
(* Receiving.                                                              *)

net_apply_dhcp(o) ==
    config' = [configured |-> o.ip # 0, ip |-> o.ip, opts |-> o.opts]

\* The transaction id, which net_clear_ipv4 zeroes, is set by its two callers.
net_clear_ipv4 ==
    /\ config' = NoConfig
    /\ state_value' = "idle" /\ offer' = None /\ request_sent' = FALSE
    /\ told' = {}

\* Each option that is present replaces what an earlier reply said of it,
\* whatever the type of the reply and the state of the client; the others stay.
parse_options(m) ==
    [offer EXCEPT !.opts =
       [o \in Options |-> IF o \in DOMAIN m.opts THEN m.opts[o] ELSE offer.opts[o]]]

\* Mutant: a reply to any transaction is taken.
ForUsAnyXid(m) == m.type \in {"OFFER", "ACK", "NAK"} /\ m.to = "own"

\* A BOOTREPLY of this transaction to this hardware address.
ForUs(m) ==
    /\ m.type \in {"OFFER", "ACK", "NAK"}
    /\ m.xid = transaction_id
    /\ m.to = "own"

dhcp_receive(m) ==
    /\ offer' = [parse_options(m) EXCEPT !.ip =
         IF \/ m.type = "OFFER" /\ state_value = "discovering"
            \/ m.type = "ACK" /\ state_value = "requesting" /\ m.ip # 0
           THEN m.ip ELSE offer.ip]
    /\ \/ /\ m.type = "OFFER" /\ state_value = "discovering"
          /\ state_value' = "requesting"
          /\ UNCHANGED config
       \/ /\ m.type = "ACK" /\ state_value = "requesting"
          /\ net_apply_dhcp([parse_options(m) EXCEPT !.ip =
                               IF m.ip # 0 THEN m.ip ELSE offer.ip])
          /\ state_value' = "bound"
       \/ /\ m.type = "NAK"
          /\ state_value' = "failed"
          /\ UNCHANGED config
       \/ /\ \/ m.type = "OFFER" /\ state_value # "discovering"
             \/ m.type = "ACK" /\ state_value # "requesting"
          /\ UNCHANGED <<state_value, config>>
    /\ UNCHANGED <<transaction_id, request_sent>>

\* What a reply tells: an address and its options.
Tells(m) == {<<"ip", m.ip>>} \cup {<<o, m.opts[o]>> : o \in DOMAIN m.opts}

Remember(m) ==
    told' = IF state_value' \notin {"discovering", "requesting"} THEN {}
             ELSE IF m.xid = transaction_id /\ m.to = "own" THEN told \cup Tells(m)
             ELSE told

\* Whether the loop of net_poll goes on.
PollMore == packets < RX_MAX

\* One frame of a net_poll, which takes at most RX_MAX of them.  Outside of
\* dhcp_acquire some other caller polls, and its polls are not counted.
net_poll(m) ==
    /\ pc \in {"idle", "poll"}
    /\ pc = "poll" => PollMore
    /\ IF ForUs(m) THEN dhcp_receive(m) ELSE UNCHANGED client
    /\ Remember(m)
    /\ packets' = IF pc = "poll" THEN packets + 1 ELSE packets
    /\ UNCHANGED <<pc, attempt, left, net, transactions>>

-----------------------------------------------------------------------------
(* Acquiring.                                                              *)

\* No adapter, or the link is down.
AcquireNoLink ==
    /\ pc = "idle"
    /\ state_value' = "failed"
    /\ UNCHANGED <<transaction_id, offer, request_sent, config, loop, net, transactions, told>>

\* A transaction id that was not used before: the milliseconds since boot go
\* into it.
dhcp_acquire ==
    /\ pc = "idle" /\ transactions < MaxTransactions
    /\ net_clear_ipv4
    /\ transactions' = transactions + 1
    /\ transaction_id' = transactions'
    /\ pc' = "attempt" /\ attempt' = 0
    /\ UNCHANGED <<left, packets, net>>

net_select_device ==
    /\ pc = "idle"
    /\ net_clear_ipv4 /\ transaction_id' = 0
    /\ UNCHANGED <<loop, net, transactions>>

\* Mutant: an acquisition that gives up leaves the state it waited in.
ReturnKeepsState(state) ==
    /\ pc' = "idle" /\ attempt' = 0 /\ left' = 0 /\ packets' = 0 /\ told' = {}
    /\ state_value' = state_value

\* dhcp_acquire returns, its locals are gone.
Return(state) ==
    /\ pc' = "idle" /\ attempt' = 0 /\ left' = 0 /\ packets' = 0 /\ told' = {}
    /\ state_value' = state

\* Leaving the waiting loop other than by a return.
NextAttempt == pc' = "attempt" /\ attempt' = attempt + 1 /\ left' = 0 /\ UNCHANGED packets

Waiting(ticks) == pc' = "poll" /\ left' = ticks /\ UNCHANGED <<attempt, packets>>

send_discover(ok) ==
    /\ pc = "attempt" /\ attempt < ATTEMPTS
    /\ offer' = None /\ request_sent' = FALSE
    /\ \/ /\ ok
          /\ net' = net \cup {Msg("DISCOVER", 0, 0)}
          /\ state_value' = "discovering"
          /\ told' = {}
          /\ Waiting(WAIT)
       \/ /\ ~ok
          /\ Return("failed")
          /\ UNCHANGED net
    /\ UNCHANGED <<transaction_id, config, transactions>>

GiveUp ==
    /\ pc = "attempt" /\ attempt = ATTEMPTS
    /\ Return("failed")
    /\ UNCHANGED <<transaction_id, offer, request_sent, config, net, transactions>>

\* No more frames, or enough of them.
PollEnds ==
    /\ pc = "poll"
    /\ pc' = "check" /\ packets' = 0
    /\ UNCHANGED <<client, attempt, left, net, transactions, told>>

\* An offer came in.  It is not usable, cannot be requested, or is requested.
InvalidOffer ==
    /\ pc = "check" /\ state_value = "requesting" /\ ~request_sent
    /\ offer.ip = 0 \/ offer.opts["server"] = 0
    /\ state_value' = "failed"
    /\ NextAttempt
    /\ UNCHANGED <<transaction_id, offer, request_sent, config, net, transactions, told>>

\* Mutant: the request is not remembered, so that it is sent again.
SendRequestForgets(ok) ==
    /\ pc = "check" /\ state_value = "requesting" /\ ~request_sent
    /\ offer.ip # 0 /\ offer.opts["server"] # 0
    /\ \/ /\ ok
          /\ net' = net \cup {Msg("REQUEST", offer.ip, offer.opts["server"])}
          /\ Waiting(WAIT)
          /\ UNCHANGED <<state_value, request_sent>>
       \/ /\ ~ok
          /\ state_value' = "failed"
          /\ NextAttempt
          /\ UNCHANGED <<request_sent, net>>
    /\ UNCHANGED <<transaction_id, offer, config, transactions, told>>

send_request(ok) ==
    /\ pc = "check" /\ state_value = "requesting" /\ ~request_sent
    /\ offer.ip # 0 /\ offer.opts["server"] # 0
    /\ \/ /\ ok
          /\ net' = net \cup {Msg("REQUEST", offer.ip, offer.opts["server"])}
          /\ request_sent' = TRUE
          /\ Waiting(WAIT)
          /\ UNCHANGED state_value
       \/ /\ ~ok
          /\ state_value' = "failed"
          /\ NextAttempt
          /\ UNCHANGED <<request_sent, net>>
    /\ UNCHANGED <<transaction_id, offer, config, transactions, told>>

Acquired ==
    /\ pc = "check" /\ state_value = "bound"
    /\ Return("bound")
    /\ UNCHANGED <<transaction_id, offer, request_sent, config, net, transactions>>

Rejected ==
    /\ pc = "check" /\ state_value = "failed"
    /\ NextAttempt
    /\ UNCHANGED <<client, net, transactions, told>>

\* Nothing to do yet: sleep until the next interrupt, then look at the clock.
Hlt ==
    /\ pc = "check"
    /\ \/ state_value = "discovering"
       \/ state_value = "requesting" /\ request_sent
    /\ IF left = 1 THEN NextAttempt ELSE Waiting(left - 1)
    /\ UNCHANGED <<client, net, transactions, told>>

-----------------------------------------------------------------------------
Init ==
    /\ state_value = "idle" /\ transaction_id = 0 /\ offer = None /\ request_sent = FALSE
    /\ config = NoConfig
    /\ pc = "idle" /\ attempt = 0 /\ left = 0 /\ packets = 0
    /\ net = {} /\ transactions = 0 /\ told = {}

Step ==
    \/ \E ok \in BOOLEAN : send_discover(ok) \/ send_request(ok)
    \/ GiveUp \/ PollEnds \/ InvalidOffer \/ Acquired \/ Rejected \/ Hlt

Next ==
    \/ Step
    \/ AcquireNoLink \/ dhcp_acquire \/ net_select_device
    \/ \E m \in ServerReplies : net_poll(m)

\* The kernel runs dhcp_acquire without preemption and hlt returns with the next
\* clock tick; nothing is assumed of the network or the servers.
Spec == Init /\ [][Next]_vars /\ WF_vars(Step)

-----------------------------------------------------------------------------
\* Every variable has its type.
TypeOK ==
    /\ state_value \in {"idle", "discovering", "requesting", "bound", "failed"}
    /\ transaction_id \in Xids /\ transactions \in Xids
    /\ offer \in Offered /\ config \in Config
    /\ request_sent \in BOOLEAN
    /\ pc \in {"idle", "attempt", "poll", "check"}
    /\ attempt \in 0 .. ATTEMPTS /\ left \in 0 .. WAIT /\ packets \in 0 .. RX_MAX
    /\ net \subseteq Message

\* An acknowledgement of this transaction to this host configures it: with the
\* address and every option it holds.  What it leaves out was said by another
\* reply of the transaction to this host, received in the same attempt, or is
\* zero.
Grants(m) ==
    /\ m.type = "ACK" /\ m.to = "own" /\ m.xid = transaction_id
    /\ IF m.ip # 0 THEN config'.ip = m.ip
         ELSE config'.ip = 0 \/ <<"ip", config'.ip>> \in told
    /\ config'.configured <=> config'.ip # 0
    /\ \A o \in Options :
         IF o \in DOMAIN m.opts THEN config'.opts[o] = m.opts[o]
         ELSE config'.opts[o] = 0 \/ <<o, config'.opts[o]>> \in told

\* The configuration is either cleared or what an acknowledgement grants, and
\* only such a step makes the client bound: late, repeated, reordered and foreign
\* replies and those of an earlier attempt leave nothing in it.  It never
\* outlives the transaction it was granted in.
LeaseGranted ==
    [][/\ \/ config' # config /\ config' # NoConfig
          \/ state_value # "bound" /\ state_value' = "bound"
          => \E m \in ServerReplies : net_poll(m) /\ Grants(m)
       /\ transaction_id' # transaction_id => ~config'.configured]_vars

\* A lease is applied only while dhcp_acquire waits for it: a message that comes
\* in after it has returned leaves the configuration alone.
NoLateLease == [][config'.configured /\ config' # config => pc = "poll"]_vars

\* dhcp_acquire returns, whatever the network does: the deadline moves at most
\* once in an attempt, and there are finitely many attempts.
AcquireReturns == pc # "idle" ~> pc = "idle"
=============================================================================
