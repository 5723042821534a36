--------------------------- MODULE MCPacketQueue ---------------------------
(***************************************************************************)
(* Values for model-checking PacketQueue: the scenarios of the game, and    *)
(* rules that name a port, a protocol, a subnet and an address.            *)
(***************************************************************************)
EXTENDS PacketQueue, Scenarios

\* test_routing.py:102 switches the forwarding of its router off.
NotForwarding == [BeginnerScenario EXCEPT !.forward = {}]
MCTopologies == {BeginnerScenario, NotForwarding, IntermediateScenario, AdvancedScenario}
MCSenders    == {"kali", "firewall", "web", "hqMail", "jump"}
MCRules ==
    {Rule("DROP", "tcp", 22, AnySource),
     Rule("REJECT", "icmp", NoPort, [octets |-> <<192, 168, 1, 0>>, mask |-> 24]),
     Rule("ACCEPT", "all", NoPort, [octets |-> Attacker, mask |-> 0])}
=============================================================================
