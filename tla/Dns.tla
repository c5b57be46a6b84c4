-------------------------------- MODULE Dns --------------------------------
(***************************************************************************)
(* Looking up a host name (source/network/dns.c) over UDP (udp.c): port    *)
(* and binding of a query, retries, what is taken for an answer, and the   *)
(* cache with its 32-bit clock.                                            *)
(*                                                                         *)
(* The server is external; its replies are lost, repeated and late.  The   *)
(* address of a name is the name.  A send fails when the next hop cannot   *)
(* be resolved (module Tcp).  Ghosts: `clock' is the time since boot, which *)
(* root_time_millis gives modulo U32, and an entry remembers `until', the  *)
(* end of its time to live on that clock.                                  *)
(***************************************************************************)
EXTENDS Integers, Sequences, FiniteSets, FiniteSetsExt

CONSTANTS
    ROOT_UDP_MAX_BINDINGS, ROOT_DNS_CACHE_SIZE,
    EPHEMERAL_FIRST, EPHEMERAL_LAST,
    U32,            \* 2^32
    SECOND,         \* milliseconds in a second
    MAX_TTL,        \* 86400 seconds
    DNS_ATTEMPTS,   \* 2
    HostNames, Ids,
    Ttls,           \* times to live in replies
    PacketBytes, PacketMax,     \* the packets DnsParse is tried on
    MaxClock,
    MaxLookups      \* bound: no more than there are ports

ASSUME DnsAssumption ==
    /\ ROOT_UDP_MAX_BINDINGS \in Nat /\ ROOT_DNS_CACHE_SIZE \in Nat
    /\ EPHEMERAL_FIRST \in Nat \ {0} /\ EPHEMERAL_LAST \in Nat
    /\ MaxLookups \in 1 .. EPHEMERAL_LAST - EPHEMERAL_FIRST + 1
    /\ U32 \in Nat \ {0} /\ SECOND \in Nat /\ MAX_TTL \in Nat /\ Ttls \subseteq Nat
    /\ PacketBytes \subseteq Nat

VARIABLES
    bindings, next_ephemeral,
    dns,            \* the query under way
    cache, cache_replace,
    queries,        \* what the server got
    clock

dnsVars == <<bindings, next_ephemeral, dns, cache, cache_replace, queries, clock>>
udpVars == <<bindings, next_ephemeral>>
cacheVars == <<cache, cache_replace>>

Now == clock % U32
DHCP_CLIENT_PORT == 0
Unbound == [used |-> FALSE]
NotCached == [used |-> FALSE]
CacheSlots == 0 .. ROOT_DNS_CACHE_SIZE - 1
NoReply == [kind |-> "none"]

-----------------------------------------------------------------------------
(* UDP.                                                                    *)

Bound(port) == {i \in DOMAIN bindings : bindings[i].used /\ bindings[i].port = port}
FreeBindings == {i \in DOMAIN bindings : ~bindings[i].used}

PortsFrom(n) ==
    EPHEMERAL_FIRST + ((next_ephemeral - EPHEMERAL_FIRST + n) % (EPHEMERAL_LAST - EPHEMERAL_FIRST + 1))

\* Mutant: the next query gets the same port.
SamePort(port) == next_ephemeral' = port

AfterPort(port) == next_ephemeral' = IF port = EPHEMERAL_LAST THEN EPHEMERAL_FIRST ELSE port + 1

udp_allocate_ephemeral_port(port) ==
    LET unbound == {n \in 0 .. EPHEMERAL_LAST - EPHEMERAL_FIRST : Bound(PortsFrom(n)) = {}}
    IN  unbound # {} /\ port = PortsFrom(Min(unbound)) /\ AfterPort(port)

udp_bind(port, handler) ==
    /\ Bound(port) = {} /\ FreeBindings # {}
    /\ bindings' = [bindings EXCEPT ![Min(FreeBindings)] =
                      [used |-> TRUE, port |-> port, handler |-> handler]]

udp_unbind(port) ==
    bindings' = IF Bound(port) = {} THEN bindings
                ELSE [bindings EXCEPT ![Min(Bound(port))] = Unbound]

-----------------------------------------------------------------------------
(* The cache.                                                              *)

\* Mutant: the times are compared as they are.
ExpiredPlain(e) == e.expires <= Now

\* (i32)(expires_ms - now) <= 0
Expired(e) == LET d == (e.expires - Now) % U32 IN d = 0 \/ d >= U32 \div 2

Holding(name) == {i \in CacheSlots : cache[i].used /\ cache[i].name = name}
Hits(name) == {i \in Holding(name) : ~Expired(cache[i])}

\* Entries passed over because they expired are given up.
cache_lookup(name) ==
    LET end == IF Hits(name) = {} THEN ROOT_DNS_CACHE_SIZE ELSE Min(Hits(name))
    IN  cache' = [i \in CacheSlots |-> IF i \in Holding(name) /\ i < end /\ Expired(cache[i])
                                       THEN NotCached ELSE cache[i]]

Clamped(ttl) == IF ttl = 0 THEN 1 ELSE Min({ttl, MAX_TTL})

cache_store(name, address, ttl) ==
    LET free == {i \in CacheSlots : ~cache[i].used}
        slot == CASE Holding(name) # {} -> Min(Holding(name))
                  [] Holding(name) = {} /\ free # {} -> Min(free)
                  [] OTHER -> cache_replace
    IN  /\ cache' = [cache EXCEPT ![slot] =
             [used |-> TRUE, name |-> name, address |-> address,
              expires |-> (Now + Clamped(ttl) * SECOND) % U32, until |-> clock + Clamped(ttl) * SECOND]]
        /\ cache_replace' = IF Holding(name) = {} /\ free = {}
                            THEN (cache_replace + 1) % ROOT_DNS_CACHE_SIZE ELSE cache_replace

-----------------------------------------------------------------------------
(* dns_resolve_ipv4.                                                       *)

Done(result, address) == dns' = [dns EXCEPT !.pc = "idle", !.result = result, !.address = address,
                                            !.active_port = 0, !.id = 0, !.attempt = 0, !.reply = NoReply]

CacheHit(name) ==
    /\ dns.pc = "idle" /\ Hits(name) # {}
    /\ cache_lookup(name)
    /\ dns' = [dns EXCEPT !.name = name, !.result = "CACHED", !.address = cache[Min(Hits(name))].address]
    /\ UNCHANGED <<udpVars, cache_replace, queries, clock>>

\* The id is made of the time, the own address and the port.
dns_resolve_ipv4(name) ==
    /\ dns.pc = "idle" /\ Hits(name) = {} /\ dns.lookups < MaxLookups
    /\ cache_lookup(name)
    /\ \E port \in EPHEMERAL_FIRST .. EPHEMERAL_LAST, id \in Ids :
         /\ udp_allocate_ephemeral_port(port) /\ udp_bind(port, "dns_receive")
         /\ dns' = [dns EXCEPT !.pc = "send", !.name = name, !.id = id, !.active_port = port,
                               !.attempt = 0, !.reply = NoReply, !.result = "none", !.lookups = @ + 1]
    /\ UNCHANGED <<cache_replace, queries, clock>>

\* At most DNS_ATTEMPTS times, and not once an answer is there.
SendQuery ==
    /\ dns.pc = "send" /\ dns.attempt < DNS_ATTEMPTS /\ dns.reply = NoReply
    /\ \/ /\ dns' = [dns EXCEPT !.pc = "wait", !.attempt = @ + 1]
          /\ queries' = queries \cup {[port |-> dns.active_port, id |-> dns.id, name |-> dns.name]}
          /\ UNCHANGED <<udpVars>>
       \/ /\ udp_unbind(dns.active_port) /\ Done("SEND_FAILED", "none")
          /\ UNCHANGED <<next_ephemeral, queries>>
    /\ UNCHANGED <<cacheVars, clock>>

\* The answer is there or the deadline has passed.
Waited ==
    /\ dns.pc = "wait"
    /\ dns' = [dns EXCEPT !.pc = "send"]
    /\ UNCHANGED <<udpVars, cacheVars, queries, clock>>

\* The flags of the reply, then its first address.
Finish ==
    /\ dns.pc = "send" /\ (dns.attempt = DNS_ATTEMPTS \/ dns.reply # NoReply)
    /\ udp_unbind(dns.active_port)
    /\ IF dns.reply.kind = "A"
       THEN Done("OK", dns.reply.name) /\ cache_store(dns.name, dns.reply.name, dns.reply.ttl)
       ELSE Done(IF dns.reply = NoReply THEN "TIMEOUT" ELSE dns.reply.kind, "none") /\ UNCHANGED cacheVars
    /\ UNCHANGED <<next_ephemeral, queries, clock>>

Kinds == {"A", "NO_ADDRESS"}    \* the second: malformed, truncated, an error or no address
Replies(q) == {[port |-> q.port, id |-> q.id, name |-> q.name, kind |-> k, ttl |-> t] :
                 k \in Kinds, t \in Ttls}

\* A reply for the port and the id of the query under way replaces an
\* earlier one.
dns_receive(m) == m.port = dns.active_port /\ m.id = dns.id

udp_receive(m) ==
    /\ \E i \in Bound(m.port) : bindings[i].handler = "dns_receive"
    /\ dns_receive(m)
    /\ dns' = [dns EXCEPT !.reply = m]
    /\ UNCHANGED <<udpVars, cacheVars, queries, clock>>

dns_cache_flush ==
    /\ dns.pc = "idle"
    /\ cache' = [i \in CacheSlots |-> NotCached] /\ cache_replace' = 0
    /\ UNCHANGED <<udpVars, dns, queries, clock>>

Tick == dns.pc \in {"idle", "wait"} /\ clock < MaxClock /\ clock' = clock + 1 /\ UNCHANGED <<udpVars, dns, cacheVars, queries>>

DnsInit ==
    /\ bindings = [i \in 1 .. ROOT_UDP_MAX_BINDINGS |->
         IF i = 1 THEN [used |-> TRUE, port |-> DHCP_CLIENT_PORT, handler |-> "dhcp_udp_receive"]
         ELSE Unbound]
    /\ next_ephemeral = EPHEMERAL_LAST
    /\ dns = [pc |-> "idle", name |-> "none", id |-> 0, active_port |-> 0, attempt |-> 0,
              reply |-> NoReply, result |-> "none", address |-> "none", lookups |-> 0]
    /\ cache = [i \in CacheSlots |-> NotCached] /\ cache_replace = 0
    /\ queries = {} /\ clock = 0

Lookup == \E name \in HostNames : CacheHit(name) \/ dns_resolve_ipv4(name)
Asking == SendQuery \/ Waited \/ Finish
DnsNext == Lookup \/ Asking \/ (\E q \in queries : \E m \in Replies(q) : udp_receive(m))
           \/ dns_cache_flush \/ Tick
DnsSpec == DnsInit /\ [][DnsNext]_dnsVars

-----------------------------------------------------------------------------
(* Reading a reply.  A packet is a sequence of bytes counted from 0; the   *)
(* sizes are scaled: the header has none, what follows the name of a       *)
(* question has QUESTION bytes, a record FIXED, an address one.  A name of *)
(* 128 labels, which the code refuses, is followed to its end.             *)

POINTER == 192
QUESTION == 1
FIXED == 2
TYPE_A == 1

\* The offset behind the name at `start', or -1.
skip_name(p, start) ==
    LET At(c) == p[c + 1]
        walk[c \in 0 .. Len(p)] ==
          IF c >= Len(p) THEN -1
          ELSE IF At(c) = 0 THEN c + 1
          ELSE IF At(c) >= POINTER THEN IF c + 1 >= Len(p) THEN -1 ELSE c + 2
          ELSE IF At(c) > 63 \/ c + 1 + At(c) > Len(p) THEN -1
          ELSE walk[c + 1 + At(c)]
    IN  IF start >= Len(p) THEN -1 ELSE walk[start]

\* Mutant: only the beginning of the record is known to be there.
RecordBegins(p, n) == n >= 0 /\ n <= Len(p)

RecordFits(p, n) == n >= 0 /\ n + FIXED <= Len(p)

QuestionFits(p, n) == n >= 0 /\ n + QUESTION <= Len(p)

\* The bytes read of `questions' questions, whose names alone are looked at, and
\* of the first `answers' records.
BytesRead(p, questions, answers) ==
    LET At(c) == IF c < Len(p) THEN p[c + 1] ELSE 0
        read[k \in 0 .. questions + answers] ==
          IF k = 0 THEN [at |-> 0, more |-> TRUE, bytes |-> {}]
          ELSE LET r == read[k - 1]
                   n == skip_name(p, r.at)
                   end == n + FIXED + At(n + 1)
                   record == r.bytes \cup n .. n + FIXED - 1
               IN  IF k <= questions
                   THEN IF ~r.more \/ ~QuestionFits(p, n) THEN [r EXCEPT !.more = FALSE]
                        ELSE [r EXCEPT !.at = n + QUESTION]
                   ELSE IF ~r.more \/ ~RecordFits(p, n) THEN [r EXCEPT !.more = FALSE]
                   ELSE IF end > Len(p) THEN [at |-> end, more |-> FALSE, bytes |-> record]
                   ELSE IF At(n) = TYPE_A /\ At(n + 1) = 1
                   THEN [at |-> end, more |-> FALSE, bytes |-> record \cup {n + FIXED}]
                   ELSE [at |-> end, more |-> TRUE, bytes |-> record]
    IN  read[questions + answers].bytes

-----------------------------------------------------------------------------
(* Properties.                                                             *)

\* A lookup ends with the address of the name asked for: a late reply to an
\* earlier query is not taken, even when the two ids are the same.
AnswerToQuestion == dns.result \in {"OK", "CACHED"} => dns.address = dns.name

\* The cache gives an address out only while its time to live runs, across
\* the wrap of the clock, unless it has expired for half the clock's range:
\* it then counts as valid again.
CacheIsFresh ==
    \A name \in HostNames : \A i \in Hits(name) :
      clock < cache[i].until \/ clock - cache[i].until >= U32 \div 2

\* All replies of up to PacketMax bytes that announce up to two questions and two
\* answers.
ParserIsSafe ==
    \A n \in 0 .. PacketMax : \A p \in [1 .. n -> PacketBytes] :
      \A questions \in 0 .. 2 : BytesRead(p, questions, 2) \subseteq 0 .. n - 1

\* Whatever a reply that was taken holds, no byte behind its end is read.
ParserInBounds == dns.reply # NoReply => ParserIsSafe
=============================================================================
