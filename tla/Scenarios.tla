----------------------------- MODULE Scenarios -----------------------------
(***************************************************************************)
(* The networks the game is played on: the hosts and routes of             *)
(* src/game/scenarios.py and src/game/world_1990.py. What is on the hosts' *)
(* disks is left out.                                                      *)
(***************************************************************************)
EXTENDS Integers, Sequences, FiniteSets, FiniteSetsExt, SequencesExt, Functions

\* Links both ways, between two addresses or within a set of them.
Both(a, b) == {<<a, b>>, <<b, a>>}
Mesh(ips) == {p \in ips \X ips : p[1] # p[2]}

Lan(n) == <<192, 168, 1, n>>
Attacker == <<10, 0, 0, 100>>
External == <<10, 0, 0, 1>>

\* register_system files a host under each of its addresses, and add_route
\* keeps the routes that leave a registered address.
Topology(ifaces, forward, routes, deny) ==
    LET ips == UNION {ToSet(ifaces[h]) : h \in DOMAIN ifaces} IN
    [ifaces  |-> ifaces,
     systems |-> [ip \in ips |-> CHOOSE h \in DOMAIN ifaces : ip \in ToSet(ifaces[h])],
     links   |-> [ip \in ips |-> {q \in ips : <<ip, q>> \in routes}],
     forward |-> forward,
     deny    |-> deny,
     order   |-> FoldSet(LAMBDA ip, seq : Append(seq, ip), <<>>, ips)]

-----------------------------------------------------------------------------
ZeroHosts ==
    [trainingBox |-> <<Lan(100)>>, router |-> <<Lan(1)>>, alpha |-> <<Lan(10)>>,
     beta |-> <<Lan(20)>>, gamma |-> <<Lan(30)>>]
ZeroLinks == Mesh({Lan(100), Lan(1), Lan(10), Lan(20), Lan(30)})
ScenarioZero == Topology(ZeroHosts, {}, ZeroLinks, {})

BeginnerHosts ==
    [kali |-> <<Attacker>>, firewall |-> <<External, Lan(1)>>, web |-> <<Lan(50)>>]
BeginnerLinks == Both(Attacker, External) \cup Both(Lan(1), Lan(50))
BeginnerScenario == Topology(BeginnerHosts, {"firewall"}, BeginnerLinks, {<<Lan(50), 22>>})

Dmz(n)    == <<192, 168, 100, n>>
Inside(n) == <<192, 168, 10, n>>
IntermediateHosts ==
    [kali |-> <<Attacker>>, firewall |-> <<External, Dmz(1), Inside(1)>>,
     web |-> <<Dmz(10)>>, jump |-> <<Inside(20)>>, db |-> <<Inside(50)>>]
IntermediateLinks ==
    Both(Attacker, External) \cup Both(Dmz(1), Dmz(10))
        \cup Both(Inside(1), Inside(20)) \cup Both(Inside(20), Inside(50))
IntermediateScenario == Topology(IntermediateHosts, {"firewall"}, IntermediateLinks, {})

Branch(n) == <<192, 168, 2, n>>
External2 == <<10, 0, 0, 2>>
Partner   == <<192, 168, 3, 10>>
AdvancedHosts ==
    [kali |-> <<Attacker>>, hqFirewall |-> <<External, Lan(1)>>, hqWeb |-> <<Lan(50)>>,
     hqMail |-> <<Lan(100)>>, branchFirewall |-> <<External2, Branch(1)>>,
     branchPc |-> <<Branch(50)>>, partner |-> <<Partner>>]
AdvancedLinks ==
    Both(Attacker, External) \cup Both(Attacker, External2)
        \cup Mesh({Lan(1), Lan(50), Lan(100)}) \cup Both(Branch(1), Branch(50))
        \cup Both(External, Partner)
AdvancedScenario ==
    Topology(AdvancedHosts, {"hqFirewall", "branchFirewall"}, AdvancedLinks,
             {<<Lan(100), 22>>, <<Lan(100), 25>>})

\* The world of December 1990: every host is linked with every other.
World1990Hosts ==
    [kali |-> << <<192, 168, 13, 37>> >>, bbs |-> <<Lan(10)>>, underground |-> <<Lan(11)>>,
     megacorp |-> << <<192, 168, 2, 50>> >>, university |-> << <<192, 168, 3, 100>> >>,
     research |-> << <<192, 168, 4, 66>> >>, cybermart |-> << <<192, 168, 5, 100>> >>,
     repo |-> << <<192, 168, 6, 10>> >>, nexus |-> << <<192, 168, 99, 1>> >>]
World1990Links == Mesh({World1990Hosts[h][1] : h \in DOMAIN World1990Hosts})
World1990 == Topology(World1990Hosts, {}, World1990Links, {})
=============================================================================
