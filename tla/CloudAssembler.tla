--------------------------- MODULE CloudAssembler ---------------------------
(***************************************************************************)
(* src/infrastructure/rag/cloud_assembler.py: the plan of the RAG and the  *)
(* network architecture become a cloud architecture.                       *)
(*                                                                         *)
(* Node ids are numbers, so that sorted() is <, and the ids of resources   *)
(* are tuples of the prefix and the slug they are built from.  Segments    *)
(* are named by their prefix and ordered by it, where the code orders them *)
(* by the text of it: what depends on the order is which subnet holds the  *)
(* NAT gateway.  A plan is a record:                                       *)
(*   usable    cloud_plan is a JSON object                                 *)
(*   mapping   node id -> the entry of component_mapping, or NoEntry       *)
(*   text      what the text of the plan says about each kind of gateway:  *)
(*             "absent", "asked", or "declined" (named, to say it is not   *)
(*             needed)                                                     *)
(*   security  sequence of rules, each for a component                     *)
(*   targets   sequence of Ansible targets with their variables            *)
(*   tasks     set of tasks: a role, an operation and the names it is for  *)
(***************************************************************************)
EXTENDS NetworkMapper

CONSTANTS Slug(_),      \* slugify, on ids and on display names
          PrefixSlug(_), \* slugify, on the text of a prefix: two IPv6 prefixes may meet
          NoEntry       \* the plan says nothing about a component

\* --------------------------------------------------------- representations
\* Keyword, kind, in the order of the table; the longest one found wins, the
\* first of them when several are longest.
RepresentationKeywords ==
  << <<"transit gateway", "transit_gateway">>, <<"nat gateway", "nat_gateway">>,
     <<"internet gateway", "internet_gateway">>, <<"vpc peering", "peering">>,
     <<"peering", "peering">>, <<"security group", "security_group">>,
     <<"network firewall", "security_group">>, <<"load balancer", "load_balancer">>,
     <<"subnet", "subnet">>, <<"vpc", "virtual_network">>, <<"rds", "database">>,
     <<"database", "database">>, <<"ec2", "compute">>, <<"instance", "compute">>,
     <<"compute", "compute">>, <<"container", "compute">>, <<"appliance", "compute">>,
     <<"host", "compute">> >>

\* words: the keywords that occur in the text of a representation.
ClassifyRepresentation(words) ==
  LET found == SelectSeq(RepresentationKeywords, LAMBDA r : r[1] \in words)
      longer(x, y) == IF Len(y[1]) > Len(x[1]) THEN y ELSE x
  IN  IF found = <<>> THEN "none" ELSE FoldLeft(longer, found[1], Tail(found))[2]

DefaultKind(n) ==
  IF n.type \in {"server", "pc", "database", "storage", "router", "gateway"}
    THEN "compute" ELSE "none"

KindOf(plan, n) ==
  LET entry == plan.mapping[n.id]
      kind == IF entry = NoEntry THEN "none" ELSE ClassifyRepresentation(entry.words)
  IN  IF kind = "none" THEN DefaultKind(n) ELSE kind

\* ---------------------------------------------------------------- segments
SegmentKeys(a) ==
  {SubnetsOf(i)[1] : i \in {x \in ToSet(a.interfaces) : SubnetsOf(x) # <<>>}}

MembersOf(a, key) ==
  {i \in ToSet(a.interfaces) : SubnetsOf(i) # <<>> /\ SubnetsOf(i)[1] = key}

\* A switch joins by the far interfaces of its links, or by the far nodes when
\* no link of it names an interface.
Attaches(a, n, key, nodes) ==
  LET far == FarEnds(a, n.id)
      farInterfaces == {end.iface : end \in far} \ {NoInterface}
  IN  IF farInterfaces # {} THEN \E i \in MembersOf(a, key) : i.id \in farInterfaces
                            ELSE \E end \in far : end.node \in nodes

SegmentNodes(a) ==
  LET attach(on, n) ==
        IF IsL2(n) THEN [key \in DOMAIN on |-> IF Attaches(a, n, key, on[key])
                                               THEN on[key] \cup {n.id} ELSE on[key]]
                   ELSE on
  IN  FoldLeft(attach, [key \in SegmentKeys(a) |-> {i.node : i \in MembersOf(a, key)}], a.nodes)

\* The order of the segments.
Precedes(s, t) ==
  \/ s.net < t.net
  \/ s.net = t.net /\ s.len < t.len
  \/ s.net = t.net /\ s.len = t.len /\ s.v < t.v

RouterIds(a) == {n.id : n \in {x \in ToSet(a.nodes) : Forwards(x)}}

Segment(key, nodes, routers) ==
  [subnet |-> key, nodes |-> nodes,
   transit |-> Cardinality(nodes \cap routers) >= 2 /\ nodes \subseteq routers,
   transport |-> Cardinality(nodes \cap routers) > 1]

InOrder(keys) == SortedBy(keys, {p \in keys \X keys : Precedes(p[1], p[2])})

DiscoverSegments(a) ==
  LET on == SegmentNodes(a)
      keys == InOrder(SegmentKeys(a))
  IN  [k \in DOMAIN keys |-> Segment(keys[k], on[keys[k]], RouterIds(a))]

\* ----------------------------------------------------------------- domains
Implicit == 0           \* the one domain of an architecture without routers

DomainIds(a) == IF RouterIds(a) = {} THEN {Implicit} ELSE RouterIds(a)

Smallest(S) == CHOOSE x \in S : \A y \in S : x <= y

OwnerOf(a, s) ==
  LET owners == s.nodes \cap RouterIds(a)
  IN  Smallest(IF owners # {} THEN owners ELSE DomainIds(a))

OwnedBy(a, segments, domain) ==
  Only(segments, {s \in ToSet(segments) : ~s.transport /\ OwnerOf(a, s) = domain})

\* ---------------------------------------------------- networks and subnets
CidrsOf(segments) == [k \in DOMAIN segments |-> segments[k].subnet]

DomainName(a, domain) == IF domain = Implicit THEN Implicit ELSE Node(a, domain).name

NetworkOf(a, segments, domain) ==
  [id |-> <<"vpc", Slug(DomainName(a, domain))>>, domain |-> domain,
   cidr |-> CoveringSupernet(CidrsOf(OwnedBy(a, segments, domain)))]

CoveredDomains(a, segments) ==
  {d \in DomainIds(a) : NetworkOf(a, segments, d).cidr # NoCover}

Ascending(ids) == SortedBy(ids, {p \in ids \X ids : p[1] < p[2]})

Networks(a, segments) ==
  LET domains == Ascending(CoveredDomains(a, segments))
  IN  [k \in DOMAIN domains |-> NetworkOf(a, segments, domains[k])]

\* Slip: the network is named by the router's id instead of its display name.
SubnetOfRouter(network, s) ==
  [id |-> <<"sn", PrefixSlug(s.subnet)>>, network |-> <<"vpc", Slug(network.domain)>>, cidr |-> s.subnet,
   purpose |-> IF s.transit THEN "transit" ELSE "lan"]

SubnetOf(network, s) ==
  [id |-> <<"sn", PrefixSlug(s.subnet)>>, network |-> network.id, cidr |-> s.subnet,
   purpose |-> IF s.transit THEN "transit" ELSE "lan"]

\* Every owned segment, IPv6 ones too, becomes a subnet of its domain's network.
CloudSubnets(a, segments, networks) ==
  FlattenSeq([k \in DOMAIN networks |->
    LET owned == OwnedBy(a, segments, networks[k].domain)
    IN  [j \in DOMAIN owned |-> SubnetOf(networks[k], owned[j])]])

UncoveredDomains(a, segments) ==
  {<<"domain", d>> : d \in {x \in DomainIds(a) : /\ OwnedBy(a, segments, x) # <<>>
                                                /\ x \notin CoveredDomains(a, segments)}}

\* ---------------------------------------------------------------- gateways
NoNetwork == <<>>

Gateway(id, type, network, subnet, peers) ==
  [id |-> id, type |-> type, network |-> network, subnet |-> subnet, peers |-> peers]

\* The text of the plan is searched for the name of the gateway.
Mentions(plan, kind) == plan.text[kind] # "absent"

When(condition, element) == IF condition THEN <<element>> ELSE <<>>

SubnetsIn(subnets, network) == Only(subnets, {s \in ToSet(subnets) : s.network = network})

Gateways(plan, networks, subnets) ==
  LET ids == [k \in DOMAIN networks |-> networks[k].id]
      own(id) == LET here == SubnetsIn(subnets, id)
                 IN  IF here = <<>> THEN <<>>
                     ELSE When(Mentions(plan, "internet"),
                               Gateway(<<"gw-igw", id>>, "internet", id, NoNetwork, <<>>))
                          \o When(Mentions(plan, "nat"),
                               Gateway(<<"gw-nat", id>>, "nat", id, here[1].id, <<>>))
  IN  FlattenSeq([k \in DOMAIN ids |-> own(ids[k])])
      \o When(Mentions(plan, "peering") /\ Len(networks) = 2,
              Gateway(<<"gw-peering">>, "peering", NoNetwork, NoNetwork, ids))
      \o When(Mentions(plan, "transit") /\ Len(networks) >= 2,
              Gateway(<<"gw-transit">>, "transit", NoNetwork, NoNetwork, ids))

\* What the assembler says of how they belong together.
Relation(source, target) == [source |-> source, target |-> target]

Relationships(networks, subnets, gateways) ==
  {Relation(n.id, n.id) : n \in {x \in ToSet(networks) : x.domain # Implicit}}
  \cup {Relation(s.network, s.id) : s \in ToSet(subnets)}
  \cup {Relation(g.id, g.network) : g \in {x \in ToSet(gateways) : x.type = "internet"}}

IsTransport(g) == g.type \in {"peering", "transit"}

\* What the assembler says about links between routed domains.
TransportSegments(segments) == {s \in ToSet(segments) : s.transport}

\* Slip: only the segments that hold nothing but routers are named.
UnmappedLinks(segments) ==
  {<<"transport", s.subnet>> : s \in {x \in TransportSegments(segments) : x.transit}}

UnmappedTransport(segments) == {<<"transport", s.subnet>> : s \in TransportSegments(segments)}

AssemblyWarnings(plan, segments, networks, gateways) ==
  {w \in {"peering_requires_two_networks", "no_transport_between_routed_domains"} :
     \/ /\ w = "peering_requires_two_networks"
        /\ Mentions(plan, "peering") /\ Len(networks) # 2
     \/ /\ w = "no_transport_between_routed_domains"
        /\ TransportSegments(segments) # {} /\ Len(networks) > 1
        /\ ~\E g \in ToSet(gateways) : IsTransport(g)}

\* ------------------------------------------------------------ route tables
Everywhere == [v |-> 4, net |-> 0, len |-> 0]

DefaultRoute(gateways, id) ==
  LET of(type) == {g \in ToSet(gateways) : g.type = type /\ g.network = id}
      to(type) == When(of(type) # {},
                       [destination |-> Everywhere, target |-> (CHOOSE g \in of(type) : TRUE).id])
  IN  IF of("internet") # {} THEN to("internet") ELSE to("nat")

PeerRoutes(networks, g, id) ==
  LET peers == Only(networks, {n \in ToSet(networks) : n.id # id /\ n.id \in ToSet(g.peers)})
  IN  IF IsTransport(g) /\ id \in ToSet(g.peers)
        THEN [k \in DOMAIN peers |-> [destination |-> peers[k].cidr, target |-> g.id]]
        ELSE <<>>

RouteTable(networks, subnets, gateways, id) ==
  LET own == SubnetsIn(subnets, id)
  IN  [id |-> <<"rt", id>>, network |-> id, subnets |-> {s.id : s \in ToSet(own)},
       routes |-> DefaultRoute(gateways, id)
                  \o FlattenSeq([k \in DOMAIN gateways |-> PeerRoutes(networks, gateways[k], id)])]

RouteTables(networks, subnets, gateways) ==
  FlattenSeq([k \in DOMAIN networks |->
    When(SubnetsIn(subnets, networks[k].id) # <<>>,
         RouteTable(networks, subnets, gateways, networks[k].id))])

\* --------------------------------------------------------- security groups
\* One group per firewall node, in the first network, with the rules the plan
\* states for it; silence is an empty group.
NoGroup == <<>>         \* a rule that names no other group as its source

RulesFor(plan, id) ==
  {[direction |-> r.direction, protocol |-> r.protocol, from |-> r.port, to |-> r.port,
    sources |-> r.sources, peer |-> NoGroup] :
     r \in {x \in ToSet(plan.security) : x.component = id}}

SecurityGroups(plan, a, networks) ==
  LET firewalls == Only(a.nodes, {n \in ToSet(a.nodes) : n.type = "firewall"})
  IN  IF networks = <<>> THEN <<>>
      ELSE [k \in DOMAIN firewalls |->
              [id |-> <<"sg", Slug(firewalls[k].id)>>, network |-> networks[1].id,
               rules |-> RulesFor(plan, firewalls[k].id)]]

\* ----------------------------------------------------------------- compute
NoConfiguration == [public |-> FALSE, bastion |-> FALSE, roles |-> <<>>]

ConfigurationOf(plan, n) ==
  IF plan.mapping[n.id] = NoEntry THEN NoConfiguration ELSE plan.mapping[n.id].configuration

\* A NIC for every interface whose segment became a subnet; a segment is known by
\* the slug of its prefix.
Nics(a, n, subnets, groups) ==
  LET own == InterfacesOf(a, n.id)
      home(i) == {s \in ToSet(subnets) : /\ SubnetsOf(i) # <<>>
                                         /\ PrefixSlug(s.cidr) = PrefixSlug(SubnetsOf(i)[1])}
      nic(k) == [id |-> <<"nic", Slug(n.id), own[k].name>>,
                 subnet |-> (CHOOSE s \in home(own[k]) : TRUE).id,
                 address |-> PrimaryAddress(own[k]), check |-> ~Forwards(n),
                 primary |-> k = 1, groups |-> groups, interface |-> own[k].id]
  IN  FlattenSeq([k \in DOMAIN own |-> IF home(own[k]) = {} THEN <<>> ELSE <<nic(k)>>])

\* Roles the plan names, or what the node itself says it runs.
RolesFor(plan, n) ==
  LET declared == ConfigurationOf(plan, n).roles
      enabled == Only(n.services, {s \in ToSet(n.services) : s.enabled})
      own == When(Forwards(n), "router") \o [k \in DOMAIN enabled |-> enabled[k].impl]
  IN  IF declared # <<>> THEN declared ELSE Distinct(own)

Instance(plan, n, nics, groups) ==
  LET c == ConfigurationOf(plan, n)
  IN  [id |-> <<"c", Slug(n.id)>>, node |-> n.id, subnet |-> nics[1].subnet, nics |-> nics,
       groups |-> groups, roles |-> RolesFor(plan, n), forwarder |-> Forwards(n),
       bastion |-> c.bastion, public |-> c.public]

Compute(plan, a, subnets, groups) ==
  LET nodes == Only(a.nodes, {n \in ToSet(a.nodes) : KindOf(plan, n) = "compute"})
      nics(n) == Nics(a, n, subnets, groups)
  IN  FlattenSeq([k \in DOMAIN nodes |->
        IF nics(nodes[k]) = <<>> THEN <<>>
        ELSE <<Instance(plan, nodes[k], nics(nodes[k]), groups)>>])

\* What _compute reports: representations it did not recognise, and compute
\* that found no subnet.
UnmappedCompute(plan, a, compute) ==
  {<<"representation", n.id>> : n \in {x \in ToSet(a.nodes) :
     plan.mapping[x.id] # NoEntry /\ ClassifyRepresentation(plan.mapping[x.id].words) = "none"}}
  \cup {<<"unplaced", n.id>> : n \in {x \in ToSet(a.nodes) :
     KindOf(plan, x) = "compute" /\ ~\E i \in ToSet(compute) : i.node = x.id}}

\* ----------------------------------------------------------- configuration
SystemRole(name, packages, services) ==
  [id |-> "role-" \o name, name |-> name, requires |-> <<>>, packages |-> packages,
   services |-> services, files |-> {}, variables |-> {}]

\* The implementations that are known to run a service beside their package; each
\* stands for its package and its service alike.
ServiceRoles == {"nginx", "apache", "httpd", "haproxy", "postgresql", "mysql", "frr", "bird"}

\* What routing, the enabled services and the tasks add to a role.  A task without a
\* service to name adds nothing, one without a package an empty role.
RoleParts(plan, a) ==
  LET part(role, packages, services) == [role |-> role, packages |-> packages, services |-> services]
      enabled == UNION {{s.impl : s \in {x \in ToSet(n.services) : x.enabled}} : n \in ToSet(a.nodes)}
      routed == RouterIds(a) # {} /\ (a.routing.ospf # {} \/ a.routing.static # {})
      of(operation) == {t \in plan.tasks : t.operation = operation}
  IN  (IF routed THEN {part("router", {"frr"}, {"frr"})} ELSE {})
      \cup {part(impl, {impl}, {impl} \cap ServiceRoles) : impl \in enabled}
      \cup {part(t.role, t.names, {}) : t \in of("package")}
      \cup {part(t.role, {}, t.names) : t \in {x \in of("service") : x.names # {}}}

Roles(plan, a) ==
  LET parts == RoleParts(plan, a)
      of(name) == {p \in parts : p.role = name}
  IN  {SystemRole(name, UNION {p.packages : p \in of(name)}, UNION {p.services : p \in of(name)}) :
         name \in {p.role : p \in parts}}

\* Declared targets first, then instances with roles that no target names.
TargetIds(plan, compute) ==
  LET declared == [k \in DOMAIN plan.targets |-> plan.targets[k].component]
      others == Only(compute, {i \in ToSet(compute) : i.roles # <<>> /\ i.node \notin ToSet(declared)})
  IN  declared \o [k \in DOMAIN others |-> others[k].node]

VariablesFor(plan, id) ==
  LET entries == SelectSeq(plan.targets, LAMBDA t : t.component = id)
  IN  IF entries = <<>> THEN {} ELSE Last(entries).variables

\* Slip: the address the host has from outside.
PublicOutput(i) == <<i.id, "public_ip">>

\* address_output_ref: the name of an output, spelled here and by the generator.
AddressOutput(i) == <<i.id, "private_ip">>

ConfigurationHost(plan, i, defined) ==
  [id |-> <<"h", Slug(i.node)>>, name |-> Slug(i.node), compute |-> i.id,
   groups |-> IF i.roles = <<>> THEN <<"all_managed">> ELSE i.roles,
   roles |-> Only(i.roles, defined), bastion |-> ~i.public,
   output |-> AddressOutput(i), variables |-> VariablesFor(plan, i.node)]

Configuration(plan, a, compute) ==
  LET roles == Roles(plan, a)
      defined == {r.name : r \in roles}
      placed == Only(Distinct(TargetIds(plan, compute)), {i.node : i \in ToSet(compute)})
      instance(id) == CHOOSE i \in ToSet(compute) : i.node = id
  IN  [roles |-> roles,
       hosts |-> [k \in DOMAIN placed |-> ConfigurationHost(plan, instance(placed[k]), defined)]]

\* ---------------------------------------------------------------- assemble
Assemble(plan, a, mapped) ==
  LET segments == DiscoverSegments(a)
      networks == Networks(a, segments)
      subnets == CloudSubnets(a, segments, networks)
      gateways == Gateways(plan, networks, subnets)
      groups == SecurityGroups(plan, a, networks)
      compute == Compute(plan, a, subnets, [k \in DOMAIN groups |-> groups[k].id])
  IN  [provider |-> "aws", networks |-> networks, subnets |-> subnets, gateways |-> gateways,
       tables |-> RouteTables(networks, subnets, gateways), groups |-> groups,
       compute |-> compute, databases |-> <<>>, balancers |-> <<>>,
       relationships |-> Relationships(networks, subnets, gateways),
       configuration |-> Configuration(plan, a, compute),
       warnings |-> AssemblyWarnings(plan, segments, networks, gateways),
       unmapped |-> mapped \cup UncoveredDomains(a, segments) \cup UnmappedTransport(segments)
                    \cup UnmappedCompute(plan, a, compute)]
=============================================================================
