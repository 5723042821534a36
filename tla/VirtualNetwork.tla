--------------------------- MODULE VirtualNetwork ---------------------------
(***************************************************************************)
(* The switching fabric of the game, src/game/core/network.py: which        *)
(* addresses are linked, which hosts own them, which hosts forward, and the *)
(* breadth-first search that finds the hops of a packet.                    *)
(*                                                                         *)
(* A topology t is a record:                                               *)
(*   ifaces   host -> sequence of its addresses, in the order of the dict  *)
(*   systems  address -> the host registered for it                        *)
(*   forward  the hosts with ip_forward                                    *)
(*   links    address -> the addresses add_route linked it to              *)
(*   deny     the (address, port) pairs of the legacy firewall             *)
(* Python iterates a set in an order of its own: ord is that order, a       *)
(* sequence of all addresses.                                              *)
(***************************************************************************)
EXTENDS Integers, Sequences, FiniteSets, SequencesExt, Functions

HostsOf(t) == DOMAIN t.ifaces
AddressesOf(t) == DOMAIN t.systems

\* register_system: the host an address belongs to.
SystemAt(t, ip) == t.systems[ip]

\* connections[ip]
Linked(t, ip) == t.links[ip]

\* What register_system and add_route make of a scenario in which no two hosts
\* share an address and no route leads to an address nobody has.
IsTopology(t) ==
    /\ IsFiniteSet(AddressesOf(t)) /\ IsFiniteSet(t.deny)
    /\ t.systems \in [AddressesOf(t) -> HostsOf(t)]
    /\ t.links \in [AddressesOf(t) -> SUBSET AddressesOf(t)]
    /\ t.order \in Seq(AddressesOf(t))
    /\ \A h \in HostsOf(t) :
        /\ t.ifaces[h] \in Seq(AddressesOf(t))
        /\ \A ip \in AddressesOf(t) : ip \in ToSet(t.ifaces[h]) <=> SystemAt(t, ip) = h

-----------------------------------------------------------------------------
(* _find_route_path *)

NoPath == <<>>

\* ip_forward, asked of the host the packet would cross.
ForwardsAny(t, host) == host \in HostsOf(t)
Forwards(t, host) == host \in t.forward

\* The interfaces of a router from which an address not yet seen can be
\* reached, each with the path to the router.
Onward(t, ips, ifaces, path) ==
    LET first[k \in 0 .. Len(ifaces)] ==
          IF k = 0 THEN <<>>
          ELSE LET before == first[k - 1] IN
               IF ifaces[k] \notin ips /\ Linked(t, ifaces[k]) \ ips # {}
               THEN Append(before, <<ifaces[k], path>>) ELSE before
    IN  first[Len(ifaces)]

\* What one visit adds for the neighbour q of the address it came from.
Reach(t, s, path, q) ==
    LET host    == SystemAt(t, q)
        ips     == s.ips \cup {q}
        newPath == Append(path, q)
    IN  CASE q = s.to /\ q \notin s.ips -> [s EXCEPT !.found = newPath]
          [] q \in s.ips -> s
          [] OTHER -> [s EXCEPT !.ips = ips,
                                !.queue = @ \o (IF Forwards(t, host)
                                                THEN Onward(t, ips, t.ifaces[host], newPath)
                                                ELSE <<>>)]

\* The neighbours of an address are tried until the destination is found.
TryNeighbour(t, up, s, here, q) ==
    IF s.found = NoPath /\ q \in Linked(t, here[1]) /\ SystemAt(t, q) \in up
    THEN Reach(t, s, here[2], q) ELSE s

\* One turn of the loop: a host is expanded once, from the first of its
\* addresses that leaves the queue, and dead hosts are skipped.
Visit(t, up, ord, s) ==
    LET here == s.queue[1]
        host == SystemAt(t, here[1])
        rest == [s EXCEPT !.queue = Tail(@)]
        tried[k \in 0 .. Len(ord)] ==
            IF k = 0 THEN [rest EXCEPT !.systems = @ \cup {host}]
            ELSE TryNeighbour(t, up, tried[k - 1], here, ord[k])
    IN  IF (Len(here[2]) > 1 /\ host \notin up) \/ host \in s.systems THEN rest
        ELSE tried[Len(ord)]

Turn(t, up, ord, s) ==
    IF s.queue = <<>> \/ s.found # NoPath THEN s ELSE Visit(t, up, ord, s)

\* An address is reached once, and then queues at most the interfaces of its
\* host: after that many turns the queue is empty.
QueuedFrom(t) == {e \in AddressesOf(t) \X AddressesOf(t) :
                    SystemAt(t, e[1]) = SystemAt(t, e[2])}
Search(t, up, ord, from, to) ==
    LET turns == 1 + Cardinality(QueuedFrom(t))
        after[n \in 0 .. turns] ==
            IF n = 0 THEN [queue |-> << <<from, <<from>>>> >>, ips |-> {from},
                           systems |-> {}, to |-> to, found |-> NoPath]
            ELSE Turn(t, up, ord, after[n - 1])
    IN  after[turns].found

FindRoutePath(t, up, ord, from, to) ==
    CASE from = to -> IF SystemAt(t, from) \in up THEN <<from>> ELSE NoPath
      [] from # to /\ to \in Linked(t, from) ->
            IF SystemAt(t, to) \in up THEN <<from, to>> ELSE NoPath
      [] OTHER -> Search(t, up, ord, from, to)

-----------------------------------------------------------------------------
(* The firewall can_connect asks: rules of the target's iptables, then the  *)
(* legacy rules. A source is a prefix of the address as text.               *)

\* A source is 'any', an address, or an address with a mask after the slash.
AnySource == [octets |-> <<>>, mask |-> 0]

\* The decimal digits of a are the first digits of b.
DigitsOpen(a, b) == a = b \/ (a > 0 /\ (b \div 10 = a \/ b \div 100 = a))

\* ip.startswith(octets.join('.')): all octets but the last agree, and the
\* last one is a prefix of the digits at its place.
TextPrefix(octets, ip) ==
    LET n == Len(octets) IN
    /\ \A i \in 1..(n - 1) : octets[i] = ip[i]
    /\ DigitsOpen(octets[n], ip[n])

\* Dropping the '/24' of a source leaves all its four octets to compare.
ConnectRuleBlocks(r, port, src) ==
    /\ r.action = "DROP" /\ r.port = port
    /\ r.source = AnySource \/ TextPrefix(r.source.octets, src)

CheckFirewall(t, rules, to, port, src) ==
    /\ \A k \in DOMAIN rules : ~ConnectRuleBlocks(rules[k], port, src)
    /\ <<to, port>> \notin t.deny

CanConnect(t, up, ord, rules, from, to, port) ==
    \/ from = to
    \/ /\ FindRoutePath(t, up, ord, from, to) # NoPath
       /\ CheckFirewall(t, rules, to, port, from)

\* scan_network: the addresses of the /24 that can be connected to.
ScanNetwork(t, up, ord, rulesOf, from, subnet) ==
    {ip \in AddressesOf(t) \ {from} :
        TextPrefix(subnet, ip) /\ CanConnect(t, up, ord, rulesOf[SystemAt(t, ip)], from, ip, 0)}
=============================================================================
