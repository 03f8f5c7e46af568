--------------------------- MODULE MCTranslation ---------------------------
(* Small drawings and plans for Translation.  Addresses have five bits, and *)
(* a /2 holds eight of them, of which the offsets 4, 5 and 6 are usable.    *)
EXTENDS Translation

MCSlug(x) == x % 10     \* 11 and 1 show one name

\* Two IPv6 prefixes whose texts differ in their colons only, as fd00::100 and fd00:100::.
MCPrefixSlug(s) == IF s.v = 6 /\ s.net = 24 THEN [s EXCEPT !.net = 8] ELSE s

At(address, len) == [v |-> 4, address |-> address, len |-> len]
At6(address, len) == [v |-> 6, address |-> address, len |-> len]
Bare(address) == At(address, NoPrefix)

Service(impl, on) == [impl |-> impl, enabled |-> on]
Thing(id, type, name, services) == [id |-> id, type |-> type, name |-> name, services |-> services]
Port(id, node, addresses) == [id |-> id, node |-> node, name |-> id, addresses |-> addresses]
Link(id, n, i, m, j) == [id |-> id, source |-> [node |-> n, iface |-> i], target |-> [node |-> m, iface |-> j]]

Quiet == [mode |-> "none", static |-> {}, ospf |-> {}]
Routed == [mode |-> "static", static |-> {[node |-> 1, to |-> 8]}, ospf |-> {}]
Ospf == [mode |-> "ospf", static |-> {}, ospf |-> {[node |-> 2, area |-> 0]}]

Drawing(nodes, interfaces, edges, routing, unsupported) ==
  [nodes |-> nodes, interfaces |-> interfaces, edges |-> edges, routing |-> routing,
   unsupported |-> unsupported]

\* One LAN behind a router: the router's address, the server's, and how the
\* switch is drawn.
Lan(gateway, address, iface) ==
  Drawing(<<Thing(1, "router", 1, <<>>), Thing(3, "server", 3, <<Service("nginx", TRUE), Service("frr", FALSE)>>),
            Thing(4, "pc", 4, <<>>), Thing(5, "switch", 5, <<>>)>>,
          <<Port(11, 1, <<gateway>>), Port(13, 3, <<address>>), Port(14, 4, <<At(6, 2)>>)>>,
          <<Link(1, 5, NoInterface, 3, iface), Link(2, 5, NoInterface, 1, NoInterface)>>,
          Routed, {"nat"})

\* Two routed domains with a link between them; name is what the second router shows.
Pair(name, routing, third) ==
  Drawing(<<Thing(1, "router", 1, <<>>), Thing(2, "router", name, <<Service("bird", TRUE)>>),
            Thing(3, "server", 3, <<Service("nginx", TRUE)>>), third>>,
          <<Port(11, 1, <<At(28, 2)>>), Port(21, 2, <<At(29, 2)>>), Port(12, 1, <<At(4, 2)>>),
            Port(22, 2, <<At(12, 2)>>), Port(13, 3, <<At(5, 2)>>), Port(14, third.id, <<At(13, 2)>>)>>,
          <<Link(1, 1, 11, 2, 21)>>, routing, {})

\* A LAN with two routers on it, beside a LAN of the first; the server has NICs in both.
Shared ==
  Drawing(<<Thing(1, "router", 1, <<>>), Thing(2, "firewall", 2, <<>>),
            Thing(3, "server", 3, <<Service("nginx", TRUE)>>), Thing(4, "pc", 4, <<>>)>>,
          <<Port(11, 1, <<At(4, 2)>>), Port(21, 2, <<At(5, 2)>>), Port(14, 4, <<At(6, 2)>>),
            Port(12, 1, <<At(12, 2)>>), Port(22, 2, <<At(20, 2)>>),
            Port(13, 3, <<At(13, 2)>>), Port(23, 3, <<At(21, 2)>>)>>,
          <<>>, Quiet, {"acl"})

\* Segments of one router at the given prefixes; its server is on the last.
Segments3(a, b, c) ==
  Drawing(<<Thing(2, "gateway", 2, <<>>), Thing(3, "database", 3, <<>>), Thing(11, "load_balancer", 6, <<>>)>>,
          <<Port(21, 2, <<a>>), Port(22, 2, <<b>>), Port(23, 2, <<c>>),
            Port(13, 3, <<[c EXCEPT !.address = @ + 1]>>)>>,
          <<>>, Ospf, {})

\* The prefix between two routers has the slug of one of the LANs.
Carried ==
  Drawing(<<Thing(1, "router", 1, <<>>), Thing(2, "router", 2, <<>>), Thing(3, "server", 3, <<>>)>>,
          <<Port(11, 1, <<At6(28, 2)>>), Port(21, 2, <<At6(29, 2)>>), Port(12, 1, <<At6(12, 2)>>),
            Port(22, 2, <<At(4, 2)>>), Port(32, 1, <<At(20, 2)>>), Port(13, 3, <<At6(13, 2), At(21, 2)>>)>>,
          <<Link(1, 1, 11, 2, 21)>>, Routed, {})

\* No router: one implicit domain; two servers with the addresses given.
Flat(first, second) ==
  Drawing(<<Thing(3, "server", 3, <<Service("nginx", TRUE)>>), Thing(4, "storage", 4, <<Service("nginx", TRUE)>>),
            Thing(6, "access_point", 6, <<>>)>>,
          <<Port(13, 3, first), Port(14, 4, second)>>, <<Link(1, 3, 13, 6, NoInterface)>>, Quiet, {})

\* The second NIC of the second server has the address of the first server.
Twice ==
  Drawing(<<Thing(3, "server", 3, <<Service("nginx", TRUE)>>), Thing(4, "server", 4, <<>>)>>,
          <<Port(13, 3, <<At(4, 2)>>), Port(14, 4, <<At(12, 2)>>), Port(24, 4, <<At(4, 2)>>)>>,
          <<>>, Quiet, {"unresolved"})

MCArchitectures ==
  {Lan(At(g, 2), At(5, 2), i) : g \in {1, 4}, i \in {13, NoInterface}}
  \cup {Lan(At(4, 2), At(6, 2), 13), Pair(7, Quiet, Thing(4, "pc", 4, <<>>))}
  \cup {Pair(name, Routed, t) : name \in {7, 11},
          t \in {Thing(4, "pc", 4, <<>>), Thing(13, "server", 7, <<Service("frr", TRUE)>>)}}
  \cup {Shared, Twice, Lan(Bare(4), At(5, 2), 13), Lan(At6(4, 2), At6(5, 2), 13)}
  \cup {Segments3(At(4, 2), At(12, 2), c) : c \in {At(20, 2), At(12, 3), At(4, 1), At6(4, 2)}}
  \cup {Segments3(At(12, 3), At(28, 3), At(20, 3)), Segments3(At6(4, 2), At6(12, 2), At6(20, 2))}
  \cup {Segments3(At6(4, 2), At6(12, 2), At6(28, 2)), Segments3(At(4, 2), At6(12, 2), At6(28, 2)), Carried}
  \cup {Flat(<<At(4, 2)>>, s) : s \in {<<At(5, 2)>>, <<At(4, 2)>>, <<At(12, 2)>>, <<>>,
                                       <<Bare(20), At(5, 2)>>, <<At(12, 2), At(4, 2)>>}}

-----------------------------------------------------------------------------
Entry(words, public, bastion, roles) ==
  [words |-> words, configuration |-> [public |-> public, bastion |-> bastion, roles |-> roles]]

Mapping(a, id, entry) == [n \in NodeIds(a) |-> IF n = id THEN entry ELSE NoEntry]

Mappings(a) ==
  {Mapping(a, 3, e) : e \in {NoEntry, Entry({"ec2", "host"}, TRUE, TRUE, <<"nginx", "backup">>),
                          Entry({"rds", "instance"}, FALSE, FALSE, <<>>),
                          Entry({"database"}, FALSE, FALSE, <<>>), Entry({}, FALSE, FALSE, <<>>)}}
  \cup {Mapping(a, 2, Entry({"vpc", "appliance"}, TRUE, FALSE, <<"router">>))}

Texts ==
  {[internet |-> e[1], nat |-> e[2], peering |-> p, transit |-> t] :
     e \in {<<"absent", "absent">>, <<"asked", "absent">>, <<"absent", "declined">>, <<"asked", "asked">>},
     p \in {"absent", "asked"}, t \in {"absent", "asked"}}

World(protocol, port) ==
  <<[component |-> 2, direction |-> "ingress", protocol |-> protocol, port |-> port, sources |-> {"world"}]>>
Unsourced ==
  <<[component |-> 2, direction |-> "ingress", protocol |-> "tcp", port |-> 80, sources |-> {}]>>

Target(id, variables) == [component |-> id, variables |-> variables]

Answer(mapping, text, security, targets, tasks) ==
  [usable |-> TRUE, mapping |-> mapping, text |-> text, security |-> security,
   targets |-> targets, tasks |-> tasks]

Task(role, operation, names) == [role |-> role, operation |-> operation, names |-> names]
Backup == Task("backup", "package", {"restic"})
Empty == Task("empty", "package", {})
Restart == Task("nginx", "service", {"nginx", "php"})

Silent == [internet |-> "absent", nat |-> "absent", peering |-> "absent", transit |-> "absent"]

MCPlans(a) ==
  {Answer(m, t, <<>>, <<>>, {}) : m \in Mappings(a), t \in Texts}
  \cup {Answer(m, Silent, s, <<Target(3, {"ansible_host"})>>, {Backup}) : m \in Mappings(a),
          s \in {Unsourced, World("tcp", 22), World("all", 80), World("tcp", NoPort)}}
  \cup {Answer(m, Silent, Unsourced, t, {Backup, Empty, Restart}) : m \in Mappings(a),
          t \in {<<>>, <<Target(4, {"x"}), Target(3, {}), Target(4, {})>>}}
  \cup {StubPlan(a)}
  \cup {[Answer(Mapping(a, 3, NoEntry), Silent, <<>>, <<>>, {}) EXCEPT !.usable = FALSE]}
-----------------------------------------------------------------------------
\* A cloud architecture as another provider may answer it: two networks, one
\* with a secondary prefix, a gateway of any type, a database, a balancer and
\* roles that require one another.
RoleOf(name, requires, files) ==
  [SystemRole(name, {name}, {}) EXCEPT !.requires = requires, !.files = files]
Role(name, requires) == RoleOf(name, requires, {})
Copy(path) == [path |-> path, content |-> TRUE, template |-> FALSE]

Nic(id, subnet, address, primary) ==
  [id |-> id, subnet |-> subnet, address |-> address, check |-> TRUE, primary |-> primary,
   groups |-> <<>>, interface |-> id]

Machine(id, subnet, nics, bastion) ==
  [id |-> <<"c", id>>, node |-> id, subnet |-> subnet, nics |-> nics, groups |-> << <<"sg", 1>> >>,
   roles |-> <<"web">>, forwarder |-> FALSE, bastion |-> bastion, public |-> bastion]

Host(id, compute, groups, roles, variables) ==
  [id |-> <<"h", id>>, name |-> id, compute |-> <<"c", compute>>, groups |-> groups, roles |-> roles,
   bastion |-> TRUE, output |-> <<<<"c", compute>>, "private_ip">>, variables |-> variables]

Fixture(provider, gateway, dbsubnets, peer, roles, hosts) ==
  [provider |-> provider,
   networks |-> << [id |-> <<"vpc", 1>>, cidr |-> SubnetSpec(4, 0, 1), secondary |-> <<SubnetSpec(4, 16, 2)>>],
                   [id |-> <<"vpc", 2>>, cidr |-> SubnetSpec(4, 24, 2), secondary |-> <<>>] >>,
   subnets |-> << [id |-> <<"sn", 1>>, network |-> <<"vpc", 1>>, cidr |-> SubnetSpec(4, 0, 2), purpose |-> "lan"],
                  [id |-> <<"sn", 2>>, network |-> <<"vpc", 1>>, cidr |-> SubnetSpec(4, 16, 2), purpose |-> "lan"] >>,
   gateways |-> <<gateway>>,
   tables |-> << [id |-> <<"rt", 1>>, network |-> <<"vpc", 1>>, subnets |-> {<<"sn", 1>>, <<"sn", 9>>},
                  routes |-> << [destination |-> Everywhere, target |-> gateway.id] >>] >>,
   groups |-> << [id |-> <<"sg", 1>>, network |-> <<"vpc", 1>>,
                  rules |-> {[direction |-> "ingress", protocol |-> "tcp", from |-> 80, to |-> 443,
                              sources |-> {}, peer |-> peer]}] >>,
   compute |-> << Machine(1, <<"sn", 1>>, <<Nic(1, <<"sn", 1>>, At(4, 2), TRUE), Nic(2, <<"sn", 2>>, At(20, 2), FALSE)>>, FALSE),
                  Machine(2, <<"sn", 2>>, <<>>, TRUE) >>,
   databases |-> << [id |-> <<"db", 1>>, subnets |-> dbsubnets, groups |-> {<<"sg", 1>>}, public |-> TRUE] >>,
   relationships |-> {Relation(<<"vpc", 1>>, <<"sn", 1>>), Relation(<<"c", 1>>, <<"db", 1>>)},
   balancers |-> << [id |-> <<"lb", 1>>, type |-> "application", subnets |-> {<<"sn", 1>>}, groups |-> {<<"sg", 1>>},
                     network |-> <<"vpc", 1>>, listeners |-> 1, targets |-> {<<"c", 1>>, <<"c", 9>>}] >>,
   configuration |-> [roles |-> roles, hosts |-> hosts], warnings |-> {}, unmapped |-> {<<"field", "x">>}]

FixtureGateways ==
  {Gateway(<<"gw", 1>>, "vpn", <<"vpc", 1>>, NoNetwork, <<>>),
   Gateway(<<"gw", 1>>, "nat", <<"vpc", 1>>, NoNetwork, <<>>),
   Gateway(<<"gw", 1>>, "nat", <<"vpc", 1>>, <<"sn", 1>>, <<>>),
   Gateway(<<"gw", 1>>, "transit", NoNetwork, NoNetwork, << <<"vpc", 1>>, <<"vpc", 2>> >>),
   Gateway(<<"gw", 1>>, "peering", NoNetwork, NoNetwork, << <<"vpc", 1>>, <<"vpc", 9>> >>)}

Chain == {Role("web", <<"tls", "base">>), Role("tls", <<"base">>), Role("base", <<>>)}
Copies == {RoleOf("web", <<>>, {Copy(<<"etc", "a_b">>), [Copy(<<"etc", "x">>) EXCEPT !.content = FALSE]})}
Colliding == {RoleOf("web", <<>>, {Copy(<<"etc", "a_b">>), Copy(<<"etc", "a", "b">>)})}
Cycle == {Role("web", <<"tls">>), Role("tls", <<"web">>), Role("base", <<"gone">>)}

\* What another provider writes here is not checked.
Naming(output, host) == [host EXCEPT !.output = output]

FixtureHosts ==
  {<<>>,
   <<Host(1, 1, <<"front", "all_managed">>, <<"web">>, {"ansible_host"}), Host(2, 2, <<>>, <<"base">>, {})>>,
   <<Host(1, 1, <<"front">>, <<"web">>, {}), Naming(<<<<"c", 1>>, "private_ip">>, Host(2, 2, <<"front", "back">>, <<"base", "role-tls">>, {"x"}))>>,
   <<Host(1, 1, <<"front">>, <<"tls">>, {"x"}), Naming(<<<<"db", 1>>, "endpoint">>, Host(1, 2, <<"back">>, <<>>, {"x"}))>>}

NoOtherClouds(a) == {}

\* One drawing is enough: the fixtures do not depend on it.
MCOtherClouds(a) ==
  IF a # Twice THEN {}
  ELSE {Fixture("aws", g, d, <<"sg", 9>>, Chain, <<>>) :
          g \in FixtureGateways, d \in {<< <<"sn", 1>>, <<"sn", 2>> >>, << <<"sn", 1>>, <<"sn", 1>> >>}}
       \cup {Fixture(p, Gateway(<<"gw", 1>>, "internet", <<"vpc", 1>>, NoNetwork, <<>>), << <<"sn", 1>> >>,
                     NoRef, r, h) :
                p \in {"aws", "azure"}, r \in {Chain, Cycle, {}, Copies, Colliding}, h \in FixtureHosts}
=============================================================================
