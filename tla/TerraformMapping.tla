-------------------------- MODULE TerraformMapping --------------------------
(***************************************************************************)
(* src/infrastructure/generators/terraform: the Terraform project of a     *)
(* cloud architecture.  An address is the Terraform type and the cloud id  *)
(* an identifier is made of; a block is its address and the addresses its  *)
(* arguments refer to.  Formatting, tags, comments and the data sources    *)
(* are left out.                                                           *)
(***************************************************************************)
EXTENDS CloudValidators

\* --------------------------------------------------------------- addresses
GatewayTypes ==
  [internet |-> "aws_internet_gateway", nat |-> "aws_nat_gateway",
   transit |-> "aws_ec2_transit_gateway", peering |-> "aws_vpc_peering_connection",
   vpn |-> "aws_vpn_gateway", virtual_private |-> "aws_vpn_gateway"]

\* _index_addresses: the address of every resource, whether or not its mapper
\* will emit a block for it.
AddressIndex(c) ==
  LET all(type, s) == {<<type, id>> : id \in Ids(s)}
  IN  all("aws_vpc", c.networks) \cup all("aws_subnet", c.subnets)
      \cup all("aws_route_table", c.tables) \cup all("aws_security_group", c.groups)
      \cup all("aws_instance", c.compute) \cup all("aws_db_instance", c.databases)
      \cup all("aws_lb", c.balancers)
      \cup {<<GatewayTypes[g.type], g.id>> : g \in ToSet(c.gateways)}

\* MappingContext.reference, as the set of the address or of nothing.
Ref(c, id) == {a \in AddressIndex(c) : a[2] = id}
Refs(c, ids) == UNION {Ref(c, id) : id \in ids}

Block(type, id, refs) == [address |-> <<type, id>>, refs |-> refs]

\* What a mapper returns: blocks, outputs, variables and warnings.
Mapped(blocks, outputs, variables, warnings) ==
  [blocks |-> blocks, outputs |-> outputs, variables |-> variables, warnings |-> warnings]

High(code, id) == [code |-> code, subject |-> id, severity |-> "high"]
Medium(code, id) == [code |-> code, subject |-> id, severity |-> "medium"]

Refuse(code, id) == Mapped({}, {}, {}, {High(code, id)})
Emit(blocks, warnings) == Mapped(blocks, {}, {}, warnings)

\* -------------------------------------------------------------- networking
MapVirtualNetwork(c, n) ==
  Mapped({Block("aws_vpc", n.id, {})}
         \cup {Block("aws_vpc_ipv4_cidr_block_association", <<n.id, k>>, {<<"aws_vpc", n.id>>}) :
                 k \in DOMAIN SecondaryCidrs(n)},
         {<<n.id, "id">>}, {}, {})

MapSubnet(c, s) ==
  IF Ref(c, s.network) = {} THEN Refuse("unresolved_network_reference", s.id)
  ELSE Emit({Block("aws_subnet", s.id, Ref(c, s.network))}, {})

\* Routes and associations with an unknown end are skipped, each with a warning.
MapRouteTable(c, t) ==
  LET targets == {r.target : r \in ToSet(t.routes)}
      unknown(ids) == {id \in ids : Ref(c, id) = {}}
      association(id) == Block("aws_route_table_association", <<t.id, id>>,
                               Ref(c, id) \cup {<<"aws_route_table", t.id>>})
  IN  IF Ref(c, t.network) = {} THEN Refuse("unresolved_network_reference", t.id)
      ELSE Emit({Block("aws_route_table", t.id, Ref(c, t.network) \cup Refs(c, targets))}
                \cup {association(id) : id \in t.subnets \ unknown(t.subnets)},
                {High("unresolved_route_target", t.id) : id \in unknown(targets)}
                \cup {Medium("unresolved_subnet_association", t.id) : id \in unknown(t.subnets)})

MapInternetGateway(c, g) ==
  IF Ref(c, g.network) = {} THEN Refuse("unresolved_network_reference", g.id)
  ELSE Emit({Block("aws_internet_gateway", g.id, Ref(c, g.network))}, {})

\* The NAT gateway brings its own elastic address.
MapNatGateway(c, g) ==
  IF Ref(c, g.subnet) = {} THEN Refuse("nat_gateway_without_public_subnet", g.id)
  ELSE Emit({Block("aws_eip", g.id, {}),
             Block("aws_nat_gateway", g.id, Ref(c, g.subnet) \cup {<<"aws_eip", g.id>>})}, {})

\* Slip: a peering that cannot be resolved is passed over.
MapPeeringQuietly(c, g) ==
  IF \E id \in ToSet(g.peers) : Ref(c, id) = {} THEN Emit({}, {})
  ELSE Emit({Block("aws_vpc_peering_connection", g.id, Refs(c, ToSet(g.peers)))}, {})

MapPeering(c, g) ==
  IF Len(g.peers) # 2 THEN Refuse("peering_needs_exactly_two_networks", g.id)
  ELSE IF \E id \in ToSet(g.peers) : Ref(c, id) = {} THEN Refuse("unresolved_peer_network", g.id)
  ELSE Emit({Block("aws_vpc_peering_connection", g.id, Refs(c, ToSet(g.peers)))}, {})

\* One attachment for each network that is known and has subnets.
MapTransitGateway(c, g) ==
  LET subnetRefs(id) == Refs(c, {s.id : s \in {x \in ToSet(c.subnets) : x.network = id}})
      complete == {id \in ToSet(g.peers) : Ref(c, id) # {} /\ subnetRefs(id) # {}}
      attachment(id) == Block("aws_ec2_transit_gateway_vpc_attachment", <<g.id, id>>,
                              Ref(c, id) \cup subnetRefs(id) \cup {<<"aws_ec2_transit_gateway", g.id>>})
  IN  Emit({Block("aws_ec2_transit_gateway", g.id, {})} \cup {attachment(id) : id \in complete},
           {High("transit_attachment_incomplete", g.id) : id \in ToSet(g.peers) \ complete})

MapGateway(c, g) ==
  CASE g.type = "internet" -> MapInternetGateway(c, g)
    [] g.type = "nat" -> MapNatGateway(c, g)
    [] g.type = "peering" -> MapPeering(c, g)
    [] g.type = "transit" -> MapTransitGateway(c, g)
    [] OTHER -> Refuse("unsupported_gateway_type", g.id)

\* ---------------------------------------------------------------- security
\* A rule without a source is dropped, never opened to the world.
MapSecurityGroup(c, g) ==
  LET peers == {r.peer : r \in g.rules} \ {NoRef}
  IN  IF Ref(c, g.network) = {} THEN Refuse("unresolved_network_reference", g.id)
      ELSE Emit({Block("aws_security_group", g.id, Ref(c, g.network) \cup Refs(c, peers))},
                {High("unresolved_security_group_reference", g.id) :
                   p \in {x \in peers : Ref(c, x) = {}}}
                \cup {High("rule_without_source", g.id) :
                   r \in {x \in g.rules : x.peer = NoRef /\ x.sources = {}}})

\* --------------------------------------------------------- compute and data
PrimarySubnet(i) == IF i.subnet # NoRef \/ i.nics = <<>> THEN i.subnet ELSE i.nics[1].subnet

\* NICs beside the primary one, and beside any other in the primary subnet.
SecondaryNics(i) ==
  {nic \in ToSet(i.nics) : ~nic.primary /\ nic.subnet # PrimarySubnet(i)}

NicBlocks(c, i, nic) ==
  {Block("aws_network_interface", <<i.id, nic.id>>, Ref(c, nic.subnet)),
   Block("aws_network_interface_attachment", <<i.id, nic.id>>,
         {<<"aws_instance", i.id>>, <<"aws_network_interface", <<i.id, nic.id>>>>})}

MapCompute(c, i) ==
  LET home == Ref(c, PrimarySubnet(i))
      known == {nic \in SecondaryNics(i) : Ref(c, nic.subnet) # {}}
  IN  IF home = {} THEN Refuse("compute_without_subnet", i.id)
      ELSE Mapped({Block("aws_instance", i.id, home \cup Refs(c, ToSet(i.groups)))}
                  \cup UNION {NicBlocks(c, i, nic) : nic \in known},
                  {<<i.id, "private_ip">>} \cup {<<i.id, x>> : x \in IF i.public THEN {"public_ip"} ELSE {}},
                  {<<"ssh_key_name">>},
                  {Medium("unresolved_interface_subnet", i.id) : nic \in SecondaryNics(i) \ known})

\* A subnet that is listed twice counts twice.
MapDatabase(c, d) ==
  LET known == Only(d.subnets, {id \in ToSet(d.subnets) : Ref(c, id) # {}})
      subnets == Refs(c, ToSet(d.subnets))
  IN  IF Len(known) < 2 THEN Refuse("db_subnet_group_needs_two_subnets", d.id)
      ELSE Mapped({Block("aws_db_subnet_group", d.id, subnets),
                   Block("aws_db_instance", d.id,
                         Refs(c, d.groups) \cup {<<"aws_db_subnet_group", d.id>>})},
                  {<<d.id, "endpoint">>}, {<<d.id, "username">>, <<d.id, "password">>}, {})

\* A target group, a listener and the attachments for each listener.
ListenerBlocks(c, b, k) ==
  LET group == <<"aws_lb_target_group", <<b.id, k>>>>
  IN  {Block("aws_lb_target_group", <<b.id, k>>, Ref(c, b.network)),
       Block("aws_lb_listener", <<b.id, k>>, {<<"aws_lb", b.id>>, group})}
      \cup {Block("aws_lb_target_group_attachment", <<b.id, k, t>>, Ref(c, t) \cup {group}) :
              t \in {x \in b.targets : Ref(c, x) # {}}}

MapLoadBalancer(c, b) ==
  LET subnets == Refs(c, b.subnets)
      groups == IF b.type = "application" THEN Refs(c, b.groups) ELSE {}
      listeners == IF Ref(c, b.network) = {} THEN {} ELSE 1..b.listeners
  IN  IF subnets = {} THEN Refuse("load_balancer_without_subnets", b.id)
      ELSE Mapped({Block("aws_lb", b.id, subnets \cup groups)}
                  \cup UNION {ListenerBlocks(c, b, k) : k \in listeners},
                  {<<b.id, "dns_name">>}, {},
                  {High("listener_without_network", b.id) :
                     k \in IF listeners = {} THEN 1..b.listeners ELSE {}})

\* --------------------------------------------------------------- generation
\* The registry applied to every resource, in the order of emission.
MapAll(c) ==
  LET each(s, Mapper(_, _)) == {Mapper(c, r) : r \in ToSet(s)}
  IN  each(c.networks, MapVirtualNetwork) \cup each(c.subnets, MapSubnet)
      \cup each(c.gateways, MapGateway) \cup each(c.tables, MapRouteTable)
      \cup each(c.groups, MapSecurityGroup) \cup each(c.compute, MapCompute)
      \cup each(c.databases, MapDatabase) \cup each(c.balancers, MapLoadBalancer)

\* The project: what the mappers returned together, and the translation's own
\* unmapped concepts as one more warning.
GenerateProject(c) ==
  LET mapped == MapAll(c)
  IN  [blocks |-> UNION {m.blocks : m \in mapped},
       outputs |-> UNION {m.outputs : m \in mapped},
       variables |-> {<<"aws_region">>} \cup UNION {m.variables : m \in mapped},
       warnings |-> (UNION {m.warnings : m \in mapped})
                    \cup (IF c.unmapped = {} THEN {} ELSE {Medium("unmapped_network_concepts", NoRef)})]

\* _reject_unsupported, and a project that would hold no resource.
RefusesToGenerate(c, report) ==
  \/ c.provider # "aws"
  \/ ~IsValid(report)
  \/ AllResources(c) = <<>>
  \/ GenerateProject(c).blocks = {}
=============================================================================
