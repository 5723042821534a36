---------------------------- MODULE PacketQueue ----------------------------
(***************************************************************************)
(* The packet queues of the hosts, src/game/core/packet_queue.py: one call  *)
(* of send_packet carries a packet over every hop, through the firewall of  *)
(* its destination and into its queue, and answers a ping on the way.       *)
(* Hosts go down and come up, and iptables changes, between any two calls.  *)
(***************************************************************************)
EXTENDS Packets, VirtualNetwork

CONSTANTS
    Topologies,   \* the networks a game may be played on
    Senders,      \* bound: the hosts whose scripts send
    RuleChoices,  \* the iptables rules a player may append
    CaptureLimit, \* packets a capture buffer keeps (1000 in the code)
    MaxEvents     \* bound: calls and changes in one behaviour

IsAddress(ip) == ip \in Seq(Byte) /\ Len(ip) = 4
ASSUME TopologiesAssumption ==
    \A t \in Topologies : IsTopology(t) /\ \A ip \in AddressesOf(t) : IsAddress(ip)
Actions == {"ACCEPT", "DROP", "REJECT", "DENY"}
ASSUME RulesAssumption == \A r \in RuleChoices : r.action \in Actions
ASSUME LimitsAssumption == CaptureLimit \in Nat /\ MaxEvents \in Nat

VARIABLES
    topo,     \* the topology of this game
    order,    \* the iteration order of this run of Python
    up,       \* the hosts whose is_alive() holds
    rules,    \* host -> its iptables rules
    inbound,  \* host -> packets waiting to be read
    captured, \* host -> what tcpdump sees: <<packet, direction>>
    call,     \* the last send_packet: who called, with what, what it returned
    events    \* how many calls and changes there were

netVars == <<topo, order, up, rules, inbound, captured, call, events>>

Hosts == HostsOf(topo)
NoCall == [host |-> "none", bytes |-> <<>>, sent |-> FALSE]

NoPort == -1
Rule(action, protocol, port, source) ==
    [chain |-> "INPUT", action |-> action, protocol |-> protocol,
     port |-> port, source |-> source]

\* add_firewall_rule of the adapter files its rule with the host as well.
DeniedAt(t, h) == {d \in t.deny : d[1] \in ToSet(t.ifaces[h])}
RulesOfScenario(t, h) ==
    [k \in 1..Cardinality(DeniedAt(t, h)) |->
        Rule("DENY", "all", SetToSeq(DeniedAt(t, h))[k][2], AnySource)]

-----------------------------------------------------------------------------
(* _check_packet_firewall: the first rule that applies decides. *)

ProtocolName(p) == CASE p = Icmp -> "icmp" [] p = Tcp -> "tcp" [] p = Udp -> "udp"
                     [] OTHER -> "unknown"

Payload(ip) == CASE ip.protocol = Tcp -> ParseTcp(ip.data)
                 [] ip.protocol = Udp -> ParseUdp(ip.data)
                 [] OTHER -> [version |-> 0, dst_port |-> NoPort]

\* How many octets a mask compares: those of /24, /16 and /8, none of another.
MaskOctets(mask) == IF mask \in {8, 16, 24} THEN mask \div 8 ELSE 0

SourceMatches(source, src) ==
    CASE source = AnySource -> TRUE
      [] source # AnySource /\ source.mask = 0 -> src = source.octets
      [] OTHER -> LET n == MaskOctets(source.mask) IN
                  n = 0 \/ TextPrefix(SubSeq(source.octets, 1, n), src)

Concerns(r, ip, src) ==
    /\ r.chain = "INPUT"
    /\ r.protocol \in {"all", ProtocolName(ip.protocol)}
    /\ r.port \in {NoPort, Payload(ip).dst_port}
    /\ SourceMatches(r.source, src)

\* A rule with another action is passed over.
Applies(r, ip, src) ==
    Concerns(r, ip, src) /\ r.action \in {"DROP", "REJECT", "ACCEPT"}

CheckPacketFirewall(bytes, hostRules, src) ==
    LET ip    == ParseIp(bytes)
        first == SelectInSeq(hostRules, LAMBDA r : Applies(r, ip, src))
    IN  \/ Payload(ip) = ShortPacket
        \/ first = 0
        \/ hostRules[first].action = "ACCEPT"

-----------------------------------------------------------------------------
(* _capture_packet and the queues *)

CaptureEvery(st, h, bytes, direction) ==
    [st EXCEPT !.captured[h] = Append(@, <<bytes, direction>>)]
Capture(st, h, bytes, direction) ==
    LET all == Append(st.captured[h], <<bytes, direction>>) IN
    [st EXCEPT !.captured[h] =
        SubSeq(all, IF Len(all) > CaptureLimit THEN 2 ELSE 1, Len(all))]

Arrive(st, h, bytes) ==
    Capture([st EXCEPT !.inbound[h] = Append(@, bytes)], h, bytes, "recv")

\* What ParseIcmp of the payload says, or a type no message has.
IcmpOf(ip) == IF ip.protocol = Icmp THEN ParseIcmp(ip.data)
              ELSE [version |-> 0, type |-> -1]

IsShort(icmp) == icmp.version = -1

-----------------------------------------------------------------------------
(* send_packet *)

\* A packet a host sends to itself: a ping is answered without being queued.
Loopback(st, me, bytes, ip) ==
    LET icmp == IcmpOf(ip) IN
    CASE IsShort(icmp) -> [st EXCEPT !.sent = FALSE]
      [] ~IsShort(icmp) /\ icmp.type = 8 ->
            Arrive(Capture(st, me, bytes, "send"), me,
                   EchoReply(ip.src, ip.src, icmp.id, icmp.sequence, icmp.data))
      [] OTHER -> Arrive(st, me, bytes)

\* The hosts a packet passes before its destination. hops counts how far it
\* came: every one must be alive, and each but the first takes one of its TTL.
HopsDone(path, bytes) ==
    LET Passes(i) == /\ SystemAt(topo, path[i]) \in up
                     /\ i > 1 => ParseIp(bytes).ttl > i - 1
        last == Len(path) - 1
    IN  CHOOSE n \in 0..last : /\ \A i \in 1..n : Passes(i)
                               /\ n < last => ~Passes(n + 1)

Decremented(bytes, n) ==
    LET after[k \in 0 .. n] == IF k = 0 THEN bytes ELSE DecrementTtl(after[k - 1])
    IN  after[n]
AfterHopsAndFirst(bytes, n) == Decremented(bytes, n)
AfterHops(bytes, n) == Decremented(bytes, IF n = 0 THEN 0 ELSE n - 1)

\* The captures hold the packet itself: what it is at the end, if it arrives.
CaptureOnTheWay(st, path, n, bytes) ==
    LET seen[k \in 0 .. n] ==
          IF k <= 1 THEN st ELSE Capture(seen[k - 1], SystemAt(topo, path[k]), bytes, "forward")
    IN  seen[n]

Carry(st, path, bytes, ip) ==
    LET n       == HopsDone(path, bytes)
        final   == AfterHops(bytes, n)
        dest    == SystemAt(topo, ip.dst)
        arrives == n = Len(path) - 1 /\ dest \in up
        passed  == CaptureOnTheWay(st, path, n, IF arrives THEN final ELSE bytes)
    IN  CASE ~arrives -> [passed EXCEPT !.sent = FALSE]
          [] arrives /\ ~CheckPacketFirewall(final, rules[dest], ip.src) ->
                [Capture(passed, dest, final, "drop") EXCEPT !.sent = FALSE]
          [] OTHER -> Arrive(passed, dest, final)

\* One packet, without the answer to it.
Transmit(st, me, bytes) ==
    LET ip   == ParseIp(bytes)
        path == FindRoutePath(topo, up, order, ip.src, ip.dst)
    IN  IF ip = ShortPacket \/ ip.ttl <= 0 \/ path = NoPath THEN [st EXCEPT !.sent = FALSE]
        ELSE IF Len(path) = 1 THEN Loopback(st, me, bytes, ip)
        ELSE Carry(st, path, bytes, ip)

\* The destination of a ping sends its reply before send_packet returns.
SendPacket(st, me, bytes) ==
    LET ip   == ParseIp(bytes)
        icmp == IcmpOf(ip)
        done == Transmit(st, me, bytes)
        dest == SystemAt(topo, ip.dst)
        reply == Transmit(done, dest, EchoReply(ip.dst, ip.src, icmp.id, icmp.sequence, icmp.data))
    IN  IF ~done.sent \/ ip.src = ip.dst THEN done
        ELSE IF IsShort(icmp) THEN [done EXCEPT !.sent = FALSE]
        ELSE IF icmp.type = 8 THEN [reply EXCEPT !.sent = TRUE]
        ELSE done

-----------------------------------------------------------------------------
(* The calls *)

NetInit ==
    /\ topo \in Topologies
    /\ order \in {topo.order, Reverse(topo.order)}
    /\ up = HostsOf(topo)
    /\ rules = [h \in HostsOf(topo) |-> RulesOfScenario(topo, h)]
    /\ inbound = [h \in HostsOf(topo) |-> <<>>]
    /\ captured = [h \in HostsOf(topo) |-> <<>>]
    /\ call = NoCall
    /\ events = 0

Event == events < MaxEvents /\ events' = events + 1

\* A write to /dev/net/packet; what send_packet returned is not told the writer.
Send(h, bytes) ==
    LET done == SendPacket([inbound |-> inbound, captured |-> captured, sent |-> TRUE],
                           h, bytes)
    IN  /\ Event
        /\ h \in up
        /\ inbound' = done.inbound
        /\ captured' = done.captured
        /\ call' = [host |-> h, bytes |-> bytes, sent |-> done.sent]
        /\ UNCHANGED <<topo, order, up, rules>>

\* A read of /dev/net/packet.
ReceivePacket(h) ==
    /\ Event
    /\ h \in up /\ inbound[h] # <<>>
    /\ inbound' = [inbound EXCEPT ![h] = Tail(@)]
    /\ call' = NoCall
    /\ UNCHANGED <<topo, order, up, rules, captured>>

\* shutdown or crash: what was queued stays queued.
GoDown(h) ==
    /\ Event
    /\ h \in up
    /\ up' = up \ {h}
    /\ call' = NoCall
    /\ UNCHANGED <<topo, order, rules, inbound, captured>>

Boot(h) ==
    /\ Event
    /\ h \notin up
    /\ up' = up \cup {h}
    /\ call' = NoCall
    /\ UNCHANGED <<topo, order, rules, inbound, captured>>

AppendRule(h, r) ==
    /\ Event
    /\ h \in up
    /\ rules' = [rules EXCEPT ![h] = Append(@, r)]
    /\ call' = NoCall
    /\ UNCHANGED <<topo, order, up, inbound, captured>>

-----------------------------------------------------------------------------
(* What the scripts on a host write to the device. *)

Crafted(kind, src, dst) ==
    CASE kind = "ping"  -> EchoRequest(src, dst, 7, 1, <<98, 114, 255>>)
      [] kind = "odd"   -> BuildIp(src, dst, Icmp, <<8, 0, 0, 0, 0, 7, 0, 3, 98>>)
      [] kind = "trace" -> [EchoRequest(src, dst, 7, 2, <<>>) EXCEPT ![9] = 1]
      [] kind = "syn"   -> TcpSegment("syn", src, dst, 40000, 22, 258, 0, <<>>)
      [] kind = "dns"   -> UdpDatagram(src, dst, 40000, 53, <<1>>)
      [] kind = "runt"  -> BuildIp(src, dst, Icmp, <<8, 0>>)

Kinds == {"ping", "odd", "trace", "syn", "dns", "runt"}

NetNext ==
    \/ \E h \in Hosts \cap Senders, kind \in Kinds :
         \E src \in ToSet(topo.ifaces[h]), dst \in AddressesOf(topo) :
            Send(h, Crafted(kind, src, dst))
    \/ \E h \in Hosts : ReceivePacket(h)
    \/ \E h \in Hosts : GoDown(h)
    \/ \E h \in Hosts : Boot(h)
    \/ \E h \in Hosts, r \in RuleChoices : AppendRule(h, r)

NetSpec == NetInit /\ [][NetNext]_netVars

-----------------------------------------------------------------------------
(* Properties *)

\* The inbound queues hold whole packets for the hosts they are on, and the
\* capture buffers stay within their limit.
NetTypeOK ==
    /\ up \subseteq Hosts /\ events \in 0..MaxEvents
    /\ \A h \in Hosts :
        /\ Len(captured[h]) <= CaptureLimit
        /\ \A k \in DOMAIN inbound[h] :
            /\ inbound[h][k] \in Seq(Byte)
            /\ ParseIp(inbound[h][k]).dst \in ToSet(topo.ifaces[h])

\* Whatever hosts are down: a route starts and ends where it was asked to, is
\* made of links, crosses only live hosts that forward, and visits nothing
\* twice.
RoutesAreReal ==
    call = NoCall => \A a, b \in AddressesOf(topo) :
        LET p == FindRoutePath(topo, up, order, a, b) IN
        p # NoPath =>
            /\ p[1] = a /\ Last(p) = b /\ IsInjective(p)
            /\ \A i \in 2..(Len(p) - 1) : SystemAt(topo, p[i]) \in up \cap topo.forward
            /\ \A i \in 1..(Len(p) - 1) :
                \E q \in ToSet(topo.ifaces[SystemAt(topo, p[i])]) :
                    p[i + 1] \in Linked(topo, q)

\* What a reader of the table expects of it, rules with an ignored action left
\* out: the first rule that concerns the packet does not accept it.
Refused(h, ip, ignored) ==
    \E k \in DOMAIN rules[h] :
        /\ Concerns(rules[h][k], ip, ip.src)
        /\ rules[h][k].action \notin ignored \cup {"ACCEPT"}
        /\ \A j \in 1..(k - 1) :
            Concerns(rules[h][j], ip, ip.src) => rules[h][j].action \in ignored

\* A send that succeeds between two addresses adds a packet to the queue of the
\* live host it is for, and between two hosts no other: the packet that was
\* sent with one TTL less for every host that forwarded it, some TTL left, and
\* no rule against it but DENY rules: the scenarios file those ("Block SSH from
\* outside", scenarios.py:296), the firewall of the packets does not know the
\* action and lets the packet through. A send that fails adds nothing to any
\* queue, unless the packet could not be parsed after it was queued. Nobody but
\* the two ends of the packet gets anything.
DeliveredAsSent ==
    [][LET ip   == ParseIp(call'.bytes)
           dest == SystemAt(topo, ip.dst)
           hops == Len(FindRoutePath(topo, up, order, ip.src, ip.dst)) - 2
           got  == inbound'[dest][Len(inbound[dest]) + 1]
       IN  call' # NoCall =>
            /\ \A h \in Hosts \ {call'.host, dest} : inbound'[h] = inbound[h]
            /\ ~call'.sent /\ ~IsShort(IcmpOf(ip)) => inbound' = inbound
            /\ call'.sent /\ ip.src # ip.dst =>
                /\ call'.host # dest => Len(inbound'[dest]) = Len(inbound[dest]) + 1
                /\ ParseIp(got) = [ip EXCEPT !.ttl = @ - hops]
                /\ ParseIp(got).ttl > 0
                /\ dest \in up /\ ~Refused(dest, ip, {"DENY"})
      ]_netVars

\* Who checks a message adds its words, the checksum among them, until no carry
\* is left, and expects all ones.
Verifies(b) == WordSum(b) % 65535 = 0

\* Adding the carries of the other words carries again, which is forgotten.
CarryForgotten(b) ==
    LET sum == WordSum(b) - At16(b, 3) IN (sum \div 65536) + (sum % 65536) > 65535

\* got is the reply to the ping icmp.
Answers(got, icmp) ==
    LET answer == ParseIcmp(got.data) IN
    /\ answer.type = 0 /\ answer.id = icmp.id /\ answer.sequence = icmp.sequence
    /\ \/ answer.data = icmp.data
       \/ answer.data = Append(icmp.data, 0) /\ Len(icmp.data) % 2 = 1
    /\ Verifies(got.data) \/ CarryForgotten(got.data)

\* A ping that was delivered is answered before the call returns: the sender
\* holds a reply with its identifier, its sequence number, its data (and a zero
\* after it when its length is odd) and a checksum that verifies, but for a
\* second carry. Unless there is no way back, the way is longer than the TTL of
\* 64 of a reply, or its own rules, DENY rules aside, refuse the reply.
PingAnswered ==
    [][LET ip    == ParseIp(call'.bytes)
           icmp  == IcmpOf(ip)
           host  == call'.host
           home  == inbound'[host]
           got   == ParseIp(Last(home))
           back  == FindRoutePath(topo, up, order, ip.dst, ip.src)
           toSelf == ip.src # ip.dst /\ SystemAt(topo, ip.dst) = host
       IN  (call' # NoCall /\ call'.sent /\ icmp.type = 8) =>
            \/ /\ Len(home) = Len(inbound[host]) + IF toSelf THEN 2 ELSE 1
               /\ got.src = ip.dst /\ got.dst = ip.src /\ Answers(got, icmp)
            \/ back = NoPath \/ Len(back) > 65
            \/ Refused(host, ParseIp(BuildIp(ip.dst, ip.src, Icmp, <<0, 0>>)), {"DENY"})
      ]_netVars
=============================================================================
