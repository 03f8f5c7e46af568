-------------------------- MODULE TranslationProofs --------------------------
(***************************************************************************)
(* What holds of every drawing, plan and cloud architecture on the way     *)
(* through the pipeline of Translation.  The inductive invariant           *)
(* TranslationInv says that each document is what its stage makes of the   *)
(* one before; everything else is a fact about the operators: what the     *)
(* Terraform mappers emit and report, what the walk over the addresses     *)
(* finds, and what the assembler makes of segments, domains, networks and  *)
(* nodes.  No bound of the model-checked instance is used.                 *)
(***************************************************************************)
EXTENDS Translation, SequenceFacts

-----------------------------------------------------------------------------
(* The Terraform generator                                                 *)
\* The records the mappers return.
LEMMA Returned ==
  /\ \A type, id, refs : Block(type, id, refs).address = <<type, id>> /\ Block(type, id, refs).refs = refs
  /\ \A code, id : /\ High(code, id).severity = "high" /\ High(code, id).subject = id
                   /\ High(code, id).code = code
  /\ \A code, id : Medium(code, id).severity = "medium"
  /\ \A blocks, outs, variables, warnings :
       LET m == Mapped(blocks, outs, variables, warnings)
       IN  m.blocks = blocks /\ m.outputs = outs /\ m.warnings = warnings
  /\ \A blocks, warnings :
       LET m == Emit(blocks, warnings)
       IN  m.blocks = blocks /\ m.outputs = {} /\ m.warnings = warnings
  /\ \A code, id :
       LET m == Refuse(code, id)
       IN  m.blocks = {} /\ m.outputs = {} /\ m.warnings = {High(code, id)}
  BY DEF Block, High, Medium, Mapped, Emit, Refuse

HasBlock(p, address) == \E b \in p.blocks : b.address = address

IsReported(p, id) == \E w \in p.warnings : w.severity = "high" /\ w.subject = id

\* What MapAll collects, without the operator it passes on.
LEMMA Mappers ==
  ASSUME NEW c, NEW m
  PROVE  m \in MapAll(c) <=>
           \/ \E n \in ToSet(c.networks) : m = MapVirtualNetwork(c, n)
           \/ \E s \in ToSet(c.subnets) : m = MapSubnet(c, s)
           \/ \E g \in ToSet(c.gateways) : m = MapGateway(c, g)
           \/ \E t \in ToSet(c.tables) : m = MapRouteTable(c, t)
           \/ \E g \in ToSet(c.groups) : m = MapSecurityGroup(c, g)
           \/ \E i \in ToSet(c.compute) : m = MapCompute(c, i)
           \/ \E d \in ToSet(c.databases) : m = MapDatabase(c, d)
           \/ \E b \in ToSet(c.balancers) : m = MapLoadBalancer(c, b)
  BY DEF MapAll

\* The project holds what the mappers return, and only that.
LEMMA Collected ==
  ASSUME NEW c
  PROVE  /\ \A m \in MapAll(c) : /\ m.blocks \subseteq GenerateProject(c).blocks
                                 /\ m.outputs \subseteq GenerateProject(c).outputs
                                 /\ m.warnings \subseteq GenerateProject(c).warnings
         /\ \A b \in GenerateProject(c).blocks : \E m \in MapAll(c) : b \in m.blocks
         /\ \A o \in GenerateProject(c).outputs : \E m \in MapAll(c) : o \in m.outputs
         /\ \A w \in GenerateProject(c).warnings :
              (\E m \in MapAll(c) : w \in m.warnings) \/ w = Medium("unmapped_network_concepts", NoRef)
<1> DEFINE p == GenerateProject(c)
           made == UNION {m.blocks : m \in MapAll(c)}
           exposed == UNION {m.outputs : m \in MapAll(c)}
           asked == {<<"aws_region">>} \cup UNION {m.variables : m \in MapAll(c)}
           returned == UNION {m.warnings : m \in MapAll(c)}
           own == IF c.unmapped = {} THEN {} ELSE {Medium("unmapped_network_concepts", NoRef)}
<1>1. p = [blocks |-> made, outputs |-> exposed, variables |-> asked, warnings |-> returned \cup own]
  BY DEF GenerateProject
<1>2. \A x : x \in returned <=> \E m \in MapAll(c) : x \in m.warnings
  OBVIOUS
<1>3. \A x \in own : x = Medium("unmapped_network_concepts", NoRef)
  OBVIOUS
<1> HIDE DEF p, returned, own, made, exposed, asked
<1>4. p.blocks = made /\ p.outputs = exposed
  BY <1>1
<1>5. p.warnings = returned \cup own
  BY <1>1
<1>6. /\ \A m \in MapAll(c) : m.blocks \subseteq p.blocks /\ m.outputs \subseteq p.outputs
      /\ \A b \in p.blocks : \E m \in MapAll(c) : b \in m.blocks
      /\ \A o \in p.outputs : \E m \in MapAll(c) : o \in m.outputs
  BY <1>4 DEF made, exposed
<1> QED
  BY <1>5, <1>2, <1>3, <1>6 DEF p

\* The addresses a cloud architecture has, kind by kind.
LEMMA Addresses ==
  ASSUME NEW c, NEW a \in AddressIndex(c)
  PROVE  \/ \E n \in ToSet(c.networks) : a = <<"aws_vpc", n.id>>
         \/ \E s \in ToSet(c.subnets) : a = <<"aws_subnet", s.id>>
         \/ \E t \in ToSet(c.tables) : a = <<"aws_route_table", t.id>>
         \/ \E g \in ToSet(c.groups) : a = <<"aws_security_group", g.id>>
         \/ \E i \in ToSet(c.compute) : a = <<"aws_instance", i.id>>
         \/ \E d \in ToSet(c.databases) : a = <<"aws_db_instance", d.id>>
         \/ \E b \in ToSet(c.balancers) : a = <<"aws_lb", b.id>>
         \/ \E g \in ToSet(c.gateways) : a = <<GatewayTypes[g.type], g.id>>
  BY DEF AddressIndex, Ids, ToSet

\* References are resolved in the index.
LEMMA Reference ==
  ASSUME NEW c
  PROVE  /\ \A id : Ref(c, id) \subseteq AddressIndex(c)
         /\ \A ids : Refs(c, ids) \subseteq AddressIndex(c)
  BY DEF Ref, Refs

\* What the mappers with several kinds of blocks return, block by block.
LEMMA NetworkMapped ==
  ASSUME NEW c, NEW n
  PROVE  LET m == MapVirtualNetwork(c, n)
         IN  /\ Block("aws_vpc", n.id, {}) \in m.blocks
             /\ \A b \in m.blocks :
                  \/ b = Block("aws_vpc", n.id, {})
                  \/ \E k : b = Block("aws_vpc_ipv4_cidr_block_association", <<n.id, k>>, {<<"aws_vpc", n.id>>})
             /\ m.warnings = {}
<1> DEFINE more == {Block("aws_vpc_ipv4_cidr_block_association", <<n.id, k>>, {<<"aws_vpc", n.id>>}) :
                      k \in DOMAIN SecondaryCidrs(n)}
           own == Block("aws_vpc", n.id, {})
           outs == {<<n.id, "id">>}
<1>1. MapVirtualNetwork(c, n) = Mapped({own} \cup more, outs, {}, {})
  BY DEF MapVirtualNetwork
<1>2. \A b \in more : \E k : b = Block("aws_vpc_ipv4_cidr_block_association", <<n.id, k>>, {<<"aws_vpc", n.id>>})
  OBVIOUS
<1> HIDE DEF own, more, outs
<1>3. MapVirtualNetwork(c, n).blocks = {own} \cup more /\ MapVirtualNetwork(c, n).warnings = {}
  BY <1>1, Returned
<1> QED
  BY <1>2, <1>3 DEF own

\* A route table: its block, an association for each known subnet, and a HIGH
\* warning only for a route with an unknown target.
LEMMA RouteTableMapped ==
  ASSUME NEW c, NEW t, Ref(c, t.network) # {}
  PROVE  LET m == MapRouteTable(c, t)
         IN  /\ \E refs \in SUBSET AddressIndex(c) :
                  /\ Block("aws_route_table", t.id, refs) \in m.blocks
                  /\ \A b \in m.blocks :
                       \/ b = Block("aws_route_table", t.id, refs)
                       \/ \E id : b = Block("aws_route_table_association", <<t.id, id>>,
                                            Ref(c, id) \cup {<<"aws_route_table", t.id>>})
             /\ \A w \in m.warnings :
                  \/ w = Medium("unresolved_subnet_association", t.id)
                  \/ w = High("unresolved_route_target", t.id) /\ \E r \in ToSet(t.routes) : Ref(c, r.target) = {}
<1> DEFINE targets == {r.target : r \in ToSet(t.routes)}
           unknown(ids) == {id \in ids : Ref(c, id) = {}}
           refs == Ref(c, t.network) \cup Refs(c, targets)
           own == Block("aws_route_table", t.id, refs)
           more == {Block("aws_route_table_association", <<t.id, id>>, Ref(c, id) \cup {<<"aws_route_table", t.id>>}) :
                      id \in t.subnets \ unknown(t.subnets)}
           high == {High("unresolved_route_target", t.id) : id \in unknown(targets)}
           medium == {Medium("unresolved_subnet_association", t.id) : id \in unknown(t.subnets)}
<1>1. MapRouteTable(c, t) = Emit({own} \cup more, high \cup medium)
  BY DEF MapRouteTable
<1>2. \A b \in more : \E id : b = Block("aws_route_table_association", <<t.id, id>>,
                                        Ref(c, id) \cup {<<"aws_route_table", t.id>>})
  OBVIOUS
<1>3. \A w \in medium : w = Medium("unresolved_subnet_association", t.id)
  OBVIOUS
<1>4. \A w \in high : w = High("unresolved_route_target", t.id) /\ \E r \in ToSet(t.routes) : Ref(c, r.target) = {}
  OBVIOUS
<1> HIDE DEF own, more, high, medium
<1>5. MapRouteTable(c, t).blocks = {own} \cup more /\ MapRouteTable(c, t).warnings = high \cup medium
  BY <1>1, Returned
<1>6. /\ own \in MapRouteTable(c, t).blocks
      /\ \A b \in MapRouteTable(c, t).blocks :
           \/ b = own
           \/ \E id : b = Block("aws_route_table_association", <<t.id, id>>,
                                Ref(c, id) \cup {<<"aws_route_table", t.id>>})
      /\ \A w \in MapRouteTable(c, t).warnings :
           \/ w = Medium("unresolved_subnet_association", t.id)
           \/ w = High("unresolved_route_target", t.id) /\ \E r \in ToSet(t.routes) : Ref(c, r.target) = {}
  BY <1>2, <1>3, <1>4, <1>5
<1>7. refs \in SUBSET AddressIndex(c) /\ own = Block("aws_route_table", t.id, refs)
  BY Reference DEF own
<1> HIDE DEF refs
<1> QED
  BY <1>6, <1>7

\* A transit gateway: its block, attachments, and a HIGH warning only for a
\* network that is unknown or has no subnet.
LEMMA TransitMapped ==
  ASSUME NEW c, NEW g
  PROVE  LET m == MapTransitGateway(c, g)
             subnets(id) == {x \in ToSet(c.subnets) : x.network = id}
             subnetRefs(id) == Refs(c, {s.id : s \in subnets(id)})
         IN  /\ Block("aws_ec2_transit_gateway", g.id, {}) \in m.blocks
             /\ \A b \in m.blocks : b.refs \subseteq AddressIndex(c) \cup {<<"aws_ec2_transit_gateway", g.id>>}
             /\ \A w \in m.warnings :
                  /\ w = High("transit_attachment_incomplete", g.id)
                  /\ \E id \in ToSet(g.peers) : Ref(c, id) = {} \/ subnetRefs(id) = {}
<1> DEFINE subnetRefs(id) == Refs(c, {s.id : s \in {x \in ToSet(c.subnets) : x.network = id}})
           complete == {id \in ToSet(g.peers) : Ref(c, id) # {} /\ subnetRefs(id) # {}}
           own == Block("aws_ec2_transit_gateway", g.id, {})
           more == {Block("aws_ec2_transit_gateway_vpc_attachment", <<g.id, id>>,
                          Ref(c, id) \cup subnetRefs(id) \cup {<<"aws_ec2_transit_gateway", g.id>>}) : id \in complete}
           high == {High("transit_attachment_incomplete", g.id) : id \in ToSet(g.peers) \ complete}
           m == MapTransitGateway(c, g)
<1>1. m = Emit({own} \cup more, high)
  BY DEF MapTransitGateway
<1>2. \A id : Ref(c, id) \cup subnetRefs(id) \subseteq AddressIndex(c)
  BY Reference
<1> HIDE DEF subnetRefs
<1>3. ASSUME NEW b \in more
      PROVE  b.refs \subseteq AddressIndex(c) \cup {<<"aws_ec2_transit_gateway", g.id>>}
  <2>1. PICK id : b = Block("aws_ec2_transit_gateway_vpc_attachment", <<g.id, id>>,
                            Ref(c, id) \cup subnetRefs(id) \cup {<<"aws_ec2_transit_gateway", g.id>>})
    OBVIOUS
  <2>2. b.refs = Ref(c, id) \cup subnetRefs(id) \cup {<<"aws_ec2_transit_gateway", g.id>>}
    BY <2>1, Returned
  <2> QED
    BY <1>2, <2>2
<1>4. \A w \in high : /\ w = High("transit_attachment_incomplete", g.id)
                      /\ \E id \in ToSet(g.peers) : Ref(c, id) = {} \/ subnetRefs(id) = {}
  OBVIOUS
<1>5. own.refs = {}
  BY Returned
<1> HIDE DEF own, more, high
<1>6. m.blocks = {own} \cup more /\ m.warnings = high
  BY <1>1, Returned
<1> HIDE DEF m
<1>7. /\ own \in m.blocks
      /\ \A b \in m.blocks : b.refs \subseteq AddressIndex(c) \cup {<<"aws_ec2_transit_gateway", g.id>>}
      /\ \A w \in m.warnings :
           /\ w = High("transit_attachment_incomplete", g.id)
           /\ \E id \in ToSet(g.peers) : Ref(c, id) = {} \/ subnetRefs(id) = {}
  BY <1>3, <1>4, <1>6, <1>5
<1> QED
  BY <1>7 DEF m, subnetRefs, own

\* A security group: one block, and HIGH warnings for rules without a source and
\* for unknown peers only.
LEMMA SecurityGroupMapped ==
  ASSUME NEW c, NEW g, Ref(c, g.network) # {}
  PROVE  LET m == MapSecurityGroup(c, g)
             peers == {r.peer : r \in g.rules} \ {NoRef}
         IN  /\ \E refs \in SUBSET AddressIndex(c) : m.blocks = {Block("aws_security_group", g.id, refs)}
             /\ \A w \in m.warnings :
                  \/ w = High("rule_without_source", g.id)
                  \/ w = High("unresolved_security_group_reference", g.id) /\ peers # {}
<1> DEFINE peers == {r.peer : r \in g.rules} \ {NoRef}
           unresolved == {High("unresolved_security_group_reference", g.id) : p \in {x \in peers : Ref(c, x) = {}}}
           dropped == {High("rule_without_source", g.id) : r \in {x \in g.rules : x.peer = NoRef /\ x.sources = {}}}
           refs == Ref(c, g.network) \cup Refs(c, peers)
           own == Block("aws_security_group", g.id, refs)
           m == MapSecurityGroup(c, g)
<1>1. m = Emit({own}, unresolved \cup dropped)
  BY DEF MapSecurityGroup
<1> HIDE DEF peers
<1>2. \A w \in unresolved : w = High("unresolved_security_group_reference", g.id) /\ peers # {}
  OBVIOUS
<1>3. \A w \in dropped : w = High("rule_without_source", g.id)
  OBVIOUS
<1> HIDE DEF own, unresolved, dropped
<1>4. m.blocks = {own} /\ m.warnings = unresolved \cup dropped
  BY <1>1, Returned
<1> HIDE DEF m
<1>5. \A w \in m.warnings : \/ w = High("rule_without_source", g.id)
                            \/ w = High("unresolved_security_group_reference", g.id) /\ peers # {}
  BY <1>2, <1>3, <1>4
<1>6. refs \in SUBSET AddressIndex(c) /\ own = Block("aws_security_group", g.id, refs)
  BY Reference DEF own
<1> HIDE DEF refs
<1> QED
  BY <1>4, <1>5, <1>6 DEF m, peers

\* An instance in a known subnet: its block, the blocks of its other NICs, and its
\* private address as an output.
LEMMA ComputeMapped ==
  ASSUME NEW c, NEW i, Ref(c, PrimarySubnet(i)) # {}
  PROVE  LET m == MapCompute(c, i)
         IN  /\ \E refs \in SUBSET AddressIndex(c) :
                  /\ Block("aws_instance", i.id, refs) \in m.blocks
                  /\ \A b \in m.blocks :
                       \/ b = Block("aws_instance", i.id, refs)
                       \/ \E nic : b \in NicBlocks(c, i, nic) /\ NicBlocks(c, i, nic) \subseteq m.blocks
             /\ <<i.id, "private_ip">> \in m.outputs
             /\ \A o \in m.outputs : o \in {<<i.id, "private_ip">>, <<i.id, "public_ip">>}
             /\ \A w \in m.warnings : w = Medium("unresolved_interface_subnet", i.id)
<1> DEFINE known == {nic \in SecondaryNics(i) : Ref(c, nic.subnet) # {}}
           refs == Ref(c, PrimarySubnet(i)) \cup Refs(c, ToSet(i.groups))
           own == Block("aws_instance", i.id, refs)
           more == UNION {NicBlocks(c, i, nic) : nic \in known}
           outs == {<<i.id, "private_ip">>} \cup {<<i.id, x>> : x \in IF i.public THEN {"public_ip"} ELSE {}}
           medium == {Medium("unresolved_interface_subnet", i.id) : nic \in SecondaryNics(i) \ known}
           m == MapCompute(c, i)
<1>1. m = Mapped({own} \cup more, outs, {<<"ssh_key_name">>}, medium)
  BY DEF MapCompute
<1>2. \A b \in more : \E nic : b \in NicBlocks(c, i, nic) /\ NicBlocks(c, i, nic) \subseteq more
  OBVIOUS
<1>3. /\ <<i.id, "private_ip">> \in outs
      /\ \A o \in outs : o \in {<<i.id, "private_ip">>, <<i.id, "public_ip">>}
  OBVIOUS
<1>4. \A w \in medium : w = Medium("unresolved_interface_subnet", i.id)
  OBVIOUS
<1> HIDE DEF own, more, outs, medium
<1>5. m.blocks = {own} \cup more /\ m.outputs = outs /\ m.warnings = medium
  BY <1>1, Returned
<1> HIDE DEF m
<1>6. /\ own \in m.blocks
      /\ \A b \in m.blocks : b = own \/ \E nic : b \in NicBlocks(c, i, nic) /\ NicBlocks(c, i, nic) \subseteq m.blocks
  BY <1>2, <1>5
<1>7. refs \in SUBSET AddressIndex(c) /\ own = Block("aws_instance", i.id, refs)
  BY Reference DEF own
<1> HIDE DEF refs
<1>8. \E r \in SUBSET AddressIndex(c) :
        /\ Block("aws_instance", i.id, r) \in m.blocks
        /\ \A b \in m.blocks :
             \/ b = Block("aws_instance", i.id, r)
             \/ \E nic : b \in NicBlocks(c, i, nic) /\ NicBlocks(c, i, nic) \subseteq m.blocks
  BY <1>6, <1>7
<1> QED
  BY <1>3, <1>4, <1>5, <1>8 DEF m

\* A database that is emitted: its block and that of its subnets.
DatabaseBlocks(c, d) ==
  {Block("aws_db_subnet_group", d.id, Refs(c, ToSet(d.subnets))),
   Block("aws_db_instance", d.id, Refs(c, d.groups) \cup {<<"aws_db_subnet_group", d.id>>})}

LEMMA DatabaseMapped ==
  ASSUME NEW c, NEW d
  PROVE  LET m == MapDatabase(c, d)
             refused == High("db_subnet_group_needs_two_subnets", d.id)
         IN  \/ m.blocks = {} /\ m.outputs = {} /\ m.warnings = {refused}
             \/ m.blocks = DatabaseBlocks(c, d) /\ m.outputs = {<<d.id, "endpoint">>} /\ m.warnings = {}
<1> DEFINE few == Len(Only(d.subnets, {id \in ToSet(d.subnets) : Ref(c, id) # {}})) < 2
           refusal == Refuse("db_subnet_group_needs_two_subnets", d.id)
           made == Mapped(DatabaseBlocks(c, d), {<<d.id, "endpoint">>},
                          {<<d.id, "username">>, <<d.id, "password">>}, {})
<1>1. MapDatabase(c, d) = IF few THEN refusal ELSE made
  BY DEF MapDatabase, DatabaseBlocks
<1>2. /\ refusal.blocks = {} /\ refusal.outputs = {}
      /\ refusal.warnings = {High("db_subnet_group_needs_two_subnets", d.id)}
      /\ made.blocks = DatabaseBlocks(c, d) /\ made.outputs = {<<d.id, "endpoint">>} /\ made.warnings = {}
  BY Returned
<1> HIDE DEF few, refusal, made
<1> QED
  BY <1>1, <1>2

\* A load balancer with subnets: its block and the blocks of its listeners.
LEMMA LoadBalancerMapped ==
  ASSUME NEW c, NEW b, Refs(c, b.subnets) # {}
  PROVE  LET m == MapLoadBalancer(c, b)
         IN  \E refs \in SUBSET AddressIndex(c) :
               /\ Block("aws_lb", b.id, refs) \in m.blocks
               /\ \A x \in m.blocks : \/ x = Block("aws_lb", b.id, refs)
                                      \/ \E k : x \in ListenerBlocks(c, b, k) /\ ListenerBlocks(c, b, k) \subseteq m.blocks
<1> DEFINE subnets == Refs(c, b.subnets)
           groups == IF b.type = "application" THEN Refs(c, b.groups) ELSE {}
           listeners == IF Ref(c, b.network) = {} THEN {} ELSE 1..b.listeners
           own == Block("aws_lb", b.id, subnets \cup groups)
           more == UNION {ListenerBlocks(c, b, k) : k \in listeners}
           high == {High("listener_without_network", b.id) : k \in IF listeners = {} THEN 1..b.listeners ELSE {}}
           m == MapLoadBalancer(c, b)
<1>1. m = Mapped({own} \cup more, {<<b.id, "dns_name">>}, {}, high)
  BY DEF MapLoadBalancer
<1>2. \A x \in more : \E k : x \in ListenerBlocks(c, b, k) /\ ListenerBlocks(c, b, k) \subseteq more
  OBVIOUS
<1>3. subnets \cup groups \in SUBSET AddressIndex(c)
  BY Reference
<1> HIDE DEF own, more, high
<1>4. m.blocks = {own} \cup more
  BY <1>1, Returned
<1>5. /\ own \in m.blocks
      /\ \A x \in m.blocks : x = own \/ \E k : x \in ListenerBlocks(c, b, k) /\ ListenerBlocks(c, b, k) \subseteq m.blocks
  BY <1>2, <1>4
<1> QED
  <2> HIDE DEF m, subnets, groups
  <2>1. own = Block("aws_lb", b.id, subnets \cup groups)
    BY DEF own
  <2> QED
    BY <1>3, <1>5, <2>1 DEF m

\* One resource: its mapper makes the block at its address, or says why not.
LEMMA GatewayEmitted ==
  ASSUME NEW c, NEW g
  PROVE  LET m == MapGateway(c, g)
         IN  HasBlock(m, <<GatewayTypes[g.type], g.id>>) \/ IsReported(m, g.id)
<1> DEFINE m == MapGateway(c, g)
<1>1. CASE g.type = "internet"
  <2>1. m = MapInternetGateway(c, g) /\ GatewayTypes[g.type] = "aws_internet_gateway"
    BY <1>1 DEF MapGateway, GatewayTypes
  <2> QED
    BY <2>1, Returned DEF MapInternetGateway, HasBlock, IsReported
<1>2. CASE g.type = "nat"
  <2>1. m = MapNatGateway(c, g) /\ GatewayTypes[g.type] = "aws_nat_gateway"
    BY <1>2 DEF MapGateway, GatewayTypes
  <2> QED
    BY <2>1, Returned DEF MapNatGateway, HasBlock, IsReported
<1>3. CASE g.type = "peering"
  <2>1. m = MapPeering(c, g) /\ GatewayTypes[g.type] = "aws_vpc_peering_connection"
    BY <1>3 DEF MapGateway, GatewayTypes
  <2> QED
    BY <2>1, Returned DEF MapPeering, HasBlock, IsReported
<1>4. CASE g.type = "transit"
  <2>1. m = MapTransitGateway(c, g) /\ GatewayTypes[g.type] = "aws_ec2_transit_gateway"
    BY <1>4 DEF MapGateway, GatewayTypes
  <2>2. Block("aws_ec2_transit_gateway", g.id, {}) \in m.blocks
    BY <2>1, Returned DEF MapTransitGateway
  <2> QED
    BY <2>1, <2>2 DEF HasBlock, Block
<1>5. CASE g.type \notin {"internet", "nat", "peering", "transit"}
  <2>1. m = Refuse("unsupported_gateway_type", g.id)
    BY <1>5 DEF MapGateway
  <2> QED
    BY <2>1, Returned DEF IsReported
<1> QED
  BY <1>1, <1>2, <1>3, <1>4, <1>5

\* Every address that is handed out has a block, or its resource is reported.
LEMMA IndexedIsEmitted ==
  ASSUME NEW c, NEW a \in AddressIndex(c)
  PROVE  HasBlock(GenerateProject(c), a) \/ IsReported(GenerateProject(c), a[2])
<1> SUFFICES \E m \in MapAll(c) : HasBlock(m, a) \/ IsReported(m, a[2])
  BY Collected DEF HasBlock, IsReported
<1>1. ASSUME NEW n \in ToSet(c.networks), a = <<"aws_vpc", n.id>>
      PROVE  HasBlock(MapVirtualNetwork(c, n), a)
  <2>1. Block("aws_vpc", n.id, {}) \in MapVirtualNetwork(c, n).blocks
    BY NetworkMapped
  <2> QED
    BY <1>1, <2>1, Returned DEF HasBlock
<1>2. ASSUME NEW s \in ToSet(c.subnets), a = <<"aws_subnet", s.id>>
      PROVE  HasBlock(MapSubnet(c, s), a) \/ IsReported(MapSubnet(c, s), a[2])
  BY <1>2, Returned DEF MapSubnet, HasBlock, IsReported
<1>3. ASSUME NEW t \in ToSet(c.tables), a = <<"aws_route_table", t.id>>
      PROVE  HasBlock(MapRouteTable(c, t), a) \/ IsReported(MapRouteTable(c, t), a[2])
  <2>1. CASE Ref(c, t.network) = {}
    BY <1>3, <2>1, Returned DEF MapRouteTable, IsReported
  <2>2. CASE Ref(c, t.network) # {}
    <3>1. PICK refs : Block("aws_route_table", t.id, refs) \in MapRouteTable(c, t).blocks
      BY <2>2, RouteTableMapped
    <3> QED
      BY <1>3, <3>1, Returned DEF HasBlock
  <2> QED
    BY <2>1, <2>2
<1>4. ASSUME NEW g \in ToSet(c.groups), a = <<"aws_security_group", g.id>>
      PROVE  HasBlock(MapSecurityGroup(c, g), a) \/ IsReported(MapSecurityGroup(c, g), a[2])
  <2>1. CASE Ref(c, g.network) = {}
    BY <1>4, <2>1, Returned DEF MapSecurityGroup, IsReported
  <2>2. CASE Ref(c, g.network) # {}
    <3>1. PICK refs : Block("aws_security_group", g.id, refs) \in MapSecurityGroup(c, g).blocks
      BY <2>2, SecurityGroupMapped
    <3> QED
      BY <1>4, <3>1, Returned DEF HasBlock
  <2> QED
    BY <2>1, <2>2
<1>5. ASSUME NEW i \in ToSet(c.compute), a = <<"aws_instance", i.id>>
      PROVE  HasBlock(MapCompute(c, i), a) \/ IsReported(MapCompute(c, i), a[2])
  <2>1. CASE Ref(c, PrimarySubnet(i)) = {}
    BY <1>5, <2>1, Returned DEF MapCompute, IsReported
  <2>2. CASE Ref(c, PrimarySubnet(i)) # {}
    <3>1. PICK refs : Block("aws_instance", i.id, refs) \in MapCompute(c, i).blocks
      BY <2>2, ComputeMapped
    <3> QED
      BY <1>5, <3>1, Returned DEF HasBlock
  <2> QED
    BY <2>1, <2>2
<1>6. ASSUME NEW d \in ToSet(c.databases), a = <<"aws_db_instance", d.id>>
      PROVE  HasBlock(MapDatabase(c, d), a) \/ IsReported(MapDatabase(c, d), a[2])
  <2>1. Block("aws_db_instance", d.id, Refs(c, d.groups) \cup {<<"aws_db_subnet_group", d.id>>})
          \in DatabaseBlocks(c, d)
    BY DEF DatabaseBlocks
  <2> QED
    BY <1>6, <2>1, DatabaseMapped, Returned DEF HasBlock, IsReported
<1>7. ASSUME NEW b \in ToSet(c.balancers), a = <<"aws_lb", b.id>>
      PROVE  HasBlock(MapLoadBalancer(c, b), a) \/ IsReported(MapLoadBalancer(c, b), a[2])
  <2>1. CASE Refs(c, b.subnets) = {}
    BY <1>7, <2>1, Returned DEF MapLoadBalancer, IsReported
  <2>2. CASE Refs(c, b.subnets) # {}
    BY <1>7, <2>2, LoadBalancerMapped, Returned DEF HasBlock
  <2> QED
    BY <2>1, <2>2
<1>8. ASSUME NEW g \in ToSet(c.gateways), a = <<GatewayTypes[g.type], g.id>>
      PROVE  HasBlock(MapGateway(c, g), a) \/ IsReported(MapGateway(c, g), a[2])
  BY <1>8, GatewayEmitted
<1> QED
  BY <1>1, <1>2, <1>3, <1>4, <1>5, <1>6, <1>7, <1>8, Addresses, Mappers

\* What a block of one mapper refers to is indexed, or a block of that mapper.
Sound(c, m) == \A b \in m.blocks : \A r \in b.refs : r \in AddressIndex(c) \/ HasBlock(m, r)

\* Whatever kind a gateway is of, its blocks refer to indexed addresses or to blocks
\* that are emitted together with it.
LEMMA SoundGateway ==
  ASSUME NEW c, NEW g
  PROVE  Sound(c, MapGateway(c, g))
<1>1. CASE g.type = "internet"
  <2>1. MapGateway(c, g) = MapInternetGateway(c, g)
    BY <1>1 DEF MapGateway
  <2> QED
    BY <2>1, Reference, Returned DEF MapInternetGateway, Sound, HasBlock
<1>2. CASE g.type = "nat"
  <2>1. MapGateway(c, g) = MapNatGateway(c, g)
    BY <1>2 DEF MapGateway
  <2> QED
    BY <2>1, Reference, Returned DEF MapNatGateway, Sound, HasBlock
<1>3. CASE g.type = "peering"
  <2>1. MapGateway(c, g) = MapPeering(c, g)
    BY <1>3 DEF MapGateway
  <2> QED
    BY <2>1, Reference, Returned DEF MapPeering, Sound, HasBlock
<1>4. CASE g.type = "transit"
  <2>1. MapGateway(c, g) = MapTransitGateway(c, g)
    BY <1>4 DEF MapGateway
  <2> QED
    <3> DEFINE m == MapTransitGateway(c, g)
    <3> SUFFICES ASSUME NEW b \in m.blocks, NEW r \in b.refs PROVE r \in AddressIndex(c) \/ HasBlock(m, r)
      BY <2>1 DEF Sound
    <3>1. HasBlock(m, <<"aws_ec2_transit_gateway", g.id>>)
      BY TransitMapped, Returned DEF HasBlock
    <3>2. b.refs \subseteq AddressIndex(c) \cup {<<"aws_ec2_transit_gateway", g.id>>}
      BY TransitMapped
    <3> HIDE DEF m
    <3> QED
      BY <3>1, <3>2
<1>5. CASE g.type \notin {"internet", "nat", "peering", "transit"}
  <2>1. MapGateway(c, g) = Refuse("unsupported_gateway_type", g.id)
    BY <1>5 DEF MapGateway
  <2> QED
    BY <2>1, Returned DEF Sound
<1> QED
  BY <1>1, <1>2, <1>3, <1>4, <1>5

\* So do the blocks of every mapper.
LEMMA ReferencesAreKnown ==
  ASSUME NEW c, NEW returned \in MapAll(c)
  PROVE  Sound(c, returned)
<1>1. ASSUME NEW n PROVE Sound(c, MapVirtualNetwork(c, n))
  <2> DEFINE m == MapVirtualNetwork(c, n)
  <2> SUFFICES ASSUME NEW b \in m.blocks, NEW r \in b.refs PROVE HasBlock(m, r)
    BY DEF Sound
  <2>1. HasBlock(m, <<"aws_vpc", n.id>>)
    <3>1. Block("aws_vpc", n.id, {}) \in m.blocks
      BY NetworkMapped
    <3> HIDE DEF m
    <3> QED
      BY <3>1, Returned DEF HasBlock
  <2>2. b.refs = {} \/ b.refs = {<<"aws_vpc", n.id>>}
    <3>1. \/ b = Block("aws_vpc", n.id, {})
          \/ \E k : b = Block("aws_vpc_ipv4_cidr_block_association", <<n.id, k>>, {<<"aws_vpc", n.id>>})
      BY NetworkMapped
    <3>2. ASSUME NEW k, b = Block("aws_vpc_ipv4_cidr_block_association", <<n.id, k>>, {<<"aws_vpc", n.id>>})
          PROVE  b.refs = {<<"aws_vpc", n.id>>}
      BY <3>2, Returned
    <3>3. CASE b = Block("aws_vpc", n.id, {})
      BY <3>3, Returned
    <3> QED
      BY <3>1, <3>2, <3>3
  <2> HIDE DEF m
  <2> QED
    BY <2>1, <2>2
<1>2. ASSUME NEW s PROVE Sound(c, MapSubnet(c, s))
  BY Reference, Returned DEF MapSubnet, Sound
<1>3. ASSUME NEW t PROVE Sound(c, MapRouteTable(c, t))
  <2>1. CASE Ref(c, t.network) = {}
    BY <2>1, Returned DEF MapRouteTable, Sound
  <2>2. CASE Ref(c, t.network) # {}
    <3> DEFINE m == MapRouteTable(c, t)
    <3>1. PICK refs \in SUBSET AddressIndex(c) :
            /\ Block("aws_route_table", t.id, refs) \in m.blocks
            /\ \A b \in m.blocks :
                 \/ b = Block("aws_route_table", t.id, refs)
                 \/ \E id : b = Block("aws_route_table_association", <<t.id, id>>,
                                      Ref(c, id) \cup {<<"aws_route_table", t.id>>})
      BY <2>2, RouteTableMapped
    <3>2. HasBlock(m, <<"aws_route_table", t.id>>)
      BY <3>1, Returned DEF HasBlock
    <3> HIDE DEF m
    <3>3. ASSUME NEW b \in m.blocks
          PROVE  b.refs \subseteq AddressIndex(c) \cup {<<"aws_route_table", t.id>>}
      <4>1. CASE b = Block("aws_route_table", t.id, refs)
        BY <4>1, Returned
      <4>2. ASSUME NEW id, b = Block("aws_route_table_association", <<t.id, id>>,
                                     Ref(c, id) \cup {<<"aws_route_table", t.id>>})
            PROVE  b.refs \subseteq AddressIndex(c) \cup {<<"aws_route_table", t.id>>}
        BY <4>2, Reference, Returned
      <4> QED
        BY <3>1, <4>1, <4>2
    <3>4. Sound(c, m)
      BY <3>2, <3>3 DEF Sound
    <3> QED
      BY <3>4 DEF m
  <2> QED
    BY <2>1, <2>2
<1>4. ASSUME NEW g PROVE Sound(c, MapSecurityGroup(c, g))
  <2>1. CASE Ref(c, g.network) = {}
    BY <2>1, Returned DEF MapSecurityGroup, Sound
  <2>2. CASE Ref(c, g.network) # {}
    <3>1. PICK refs \in SUBSET AddressIndex(c) :
            MapSecurityGroup(c, g).blocks = {Block("aws_security_group", g.id, refs)}
      BY <2>2, SecurityGroupMapped
    <3> QED
      BY <3>1, Returned DEF Sound
  <2> QED
    BY <2>1, <2>2
<1>5. ASSUME NEW i PROVE Sound(c, MapCompute(c, i))
  <2>1. CASE Ref(c, PrimarySubnet(i)) = {}
    BY <2>1, Returned DEF MapCompute, Sound
  <2>2. CASE Ref(c, PrimarySubnet(i)) # {}
    <3> DEFINE m == MapCompute(c, i)
    <3>1. PICK refs \in SUBSET AddressIndex(c) :
            /\ Block("aws_instance", i.id, refs) \in m.blocks
            /\ \A b \in m.blocks :
                 \/ b = Block("aws_instance", i.id, refs)
                 \/ \E nic : b \in NicBlocks(c, i, nic) /\ NicBlocks(c, i, nic) \subseteq m.blocks
      BY <2>2, ComputeMapped
    <3>2. HasBlock(m, <<"aws_instance", i.id>>)
      BY <3>1, Returned DEF HasBlock
    <3> HIDE DEF m
    <3>3. ASSUME NEW b \in m.blocks, NEW nic, b \in NicBlocks(c, i, nic), NicBlocks(c, i, nic) \subseteq m.blocks
          PROVE  \A r \in b.refs : r \in AddressIndex(c) \/ HasBlock(m, r)
      <4>1. HasBlock(m, <<"aws_network_interface", <<i.id, nic.id>>>>)
        BY <3>3, Returned DEF HasBlock, NicBlocks
      <4>2. b.refs \subseteq AddressIndex(c)
                            \cup {<<"aws_instance", i.id>>, <<"aws_network_interface", <<i.id, nic.id>>>>}
        BY <3>3, Reference, Returned DEF NicBlocks
      <4> QED
        BY <3>2, <4>1, <4>2
    <3>4. \A r \in Block("aws_instance", i.id, refs).refs : r \in AddressIndex(c)
      BY Returned
    <3>5. Sound(c, m)
      BY <3>1, <3>3, <3>4 DEF Sound
    <3> QED
      BY <3>5 DEF m
  <2> QED
    BY <2>1, <2>2
<1>6. ASSUME NEW d PROVE Sound(c, MapDatabase(c, d))
  <2> DEFINE m == MapDatabase(c, d)
             group == Block("aws_db_subnet_group", d.id, Refs(c, ToSet(d.subnets)))
             instance == Block("aws_db_instance", d.id, Refs(c, d.groups) \cup {<<"aws_db_subnet_group", d.id>>})
  <2>1. m.blocks = {} \/ m.blocks = {group, instance}
    BY DatabaseMapped DEF DatabaseBlocks
  <2>2. /\ group.address = <<"aws_db_subnet_group", d.id>> /\ group.refs \subseteq AddressIndex(c)
        /\ \A x \in instance.refs : x \in AddressIndex(c) \/ x = group.address
    BY Reference, Returned
  <2> HIDE DEF m, group, instance
  <2>3. Sound(c, m)
    BY <2>1, <2>2 DEF Sound, HasBlock
  <2> QED
    BY <2>3 DEF m
<1>7. ASSUME NEW b PROVE Sound(c, MapLoadBalancer(c, b))
  <2>1. CASE Refs(c, b.subnets) = {}
    BY <2>1, Returned DEF MapLoadBalancer, Sound
  <2>2. CASE Refs(c, b.subnets) # {}
    <3> DEFINE m == MapLoadBalancer(c, b)
    <3>1. PICK refs \in SUBSET AddressIndex(c) :
            /\ Block("aws_lb", b.id, refs) \in m.blocks
            /\ \A x \in m.blocks : \/ x = Block("aws_lb", b.id, refs)
                                   \/ \E k : x \in ListenerBlocks(c, b, k) /\ ListenerBlocks(c, b, k) \subseteq m.blocks
      BY <2>2, LoadBalancerMapped
    <3>2. HasBlock(m, <<"aws_lb", b.id>>)
      BY <3>1, Returned DEF HasBlock
    <3> HIDE DEF m
    <3>3. ASSUME NEW x \in m.blocks, NEW k, x \in ListenerBlocks(c, b, k), ListenerBlocks(c, b, k) \subseteq m.blocks
          PROVE  \A r \in x.refs : r \in AddressIndex(c) \/ HasBlock(m, r)
      <4> DEFINE group == <<"aws_lb_target_group", <<b.id, k>>>>
      <4>1. HasBlock(m, group)
        <5>1. Block("aws_lb_target_group", <<b.id, k>>, Ref(c, b.network)) \in m.blocks
          BY <3>3 DEF ListenerBlocks
        <5> QED
          BY <5>1, Returned DEF HasBlock
      <4>2. x.refs \subseteq AddressIndex(c) \cup {<<"aws_lb", b.id>>, group}
        <5>1. \/ x = Block("aws_lb_target_group", <<b.id, k>>, Ref(c, b.network))
              \/ x = Block("aws_lb_listener", <<b.id, k>>, {<<"aws_lb", b.id>>, group})
              \/ \E t : x = Block("aws_lb_target_group_attachment", <<b.id, k, t>>, Ref(c, t) \cup {group})
          BY <3>3 DEF ListenerBlocks
        <5> HIDE DEF group
        <5>2. CASE x = Block("aws_lb_target_group", <<b.id, k>>, Ref(c, b.network))
          BY <5>2, Reference, Returned
        <5>3. CASE x = Block("aws_lb_listener", <<b.id, k>>, {<<"aws_lb", b.id>>, group})
          BY <5>3, Returned
        <5>4. ASSUME NEW t, x = Block("aws_lb_target_group_attachment", <<b.id, k, t>>, Ref(c, t) \cup {group})
              PROVE  x.refs \subseteq AddressIndex(c) \cup {<<"aws_lb", b.id>>, group}
          BY <5>4, Reference, Returned
        <5> QED
          BY <5>1, <5>2, <5>3, <5>4
      <4> HIDE DEF group
      <4> QED
        BY <3>2, <4>1, <4>2
    <3>4. \A r \in Block("aws_lb", b.id, refs).refs : r \in AddressIndex(c)
      BY Returned
    <3>5. Sound(c, m)
      BY <3>1, <3>3, <3>4 DEF Sound
    <3> QED
      BY <3>5 DEF m
  <2> QED
    BY <2>1, <2>2
<1> QED
  BY <1>1, <1>2, <1>3, <1>4, <1>5, <1>6, <1>7, SoundGateway, Mappers

\* What the Terraform generator makes of any cloud architecture: every reference
\* of a block has a block, or its subject is reported.
LEMMA ReferencesResolve ==
  ASSUME NEW c, NEW b \in GenerateProject(c).blocks, NEW ref \in b.refs
  PROVE  HasBlock(GenerateProject(c), ref) \/ IsReported(GenerateProject(c), ref[2])
<1>1. PICK m \in MapAll(c) : b \in m.blocks
  BY Collected
<1>2. ref \in AddressIndex(c) \/ HasBlock(m, ref)
  BY <1>1, ReferencesAreKnown DEF Sound
<1>3. CASE HasBlock(m, ref)
  BY <1>3, Collected DEF HasBlock
<1> QED
  BY <1>2, <1>3, IndexedIsEmitted

-----------------------------------------------------------------------------
(* Documents in order                                                      *)
\* Which documents exist at which stage.
StageInv ==
  /\ stage \in Stages
  /\ stage \in {"drawn", "sent"} => cloud = NoDocument
  /\ stage \in {"drawn", "sent", "assembled", "validated"} => project = NoDocument
  /\ stage \in {"drawn", "sent", "assembled"} => report = NoDocument
  /\ stage = "drawn" => plan = NoDocument
  /\ stage # "inventoried" => inventory = NoDocument
  /\ stage \notin {"drawn", "sent", "refused"} => cloud # NoDocument

\* Each document is what its stage makes of the one before.
PlanInv ==
  /\ architecture \in Architectures
  /\ plan # NoDocument => plan \in Plans(architecture)
  /\ plan # NoDocument /\ cloud # NoDocument => cloud = Assemble(plan, architecture, payload.unmapped)
  /\ plan # NoDocument /\ cloud = NoDocument =>
       ~plan.usable \/ ~IsCoherent(Assemble(plan, architecture, payload.unmapped))
  /\ plan = NoDocument /\ cloud # NoDocument => cloud \in OtherClouds(architecture)
  /\ cloud # NoDocument => IsCoherent(cloud)

ReportInv ==
  /\ report # NoDocument \/ stage = "validated" => report = Validate(cloud)
  /\ report # NoDocument => cloud # NoDocument

ProjectInv ==
  /\ project # NoDocument => project = GenerateProject(cloud) /\ ~RefusesToGenerate(cloud, Validate(cloud))
  /\ stage \in {"generated", "configured"} => project # NoDocument

\* An output that was reported has a name, and its own address for a value.
OutputsInv == stage \in {"applied", "inventoried"} =>
  /\ \A o \in DOMAIN outputs.values : outputs.values[o] = <<o[2], o[1]>> /\ o # NoRef
  /\ \A id \in DOMAIN outputs.addresses : outputs.addresses[id] \in {<<"public_ip", id>>, <<"private_ip", id>>}

InventoryInv == inventory # NoDocument => inventory = InventoryFrom(cloud, outputs)

TranslationInv ==
  StageInv /\ PlanInv /\ ReportInv /\ ProjectInv /\ OutputsInv /\ InventoryInv

\* Every output of a project has a name.
LEMMA OutputsAreNamed ==
  ASSUME NEW c, NEW o \in GenerateProject(c).outputs
  PROVE  o # NoRef
<1>1. PICK m \in MapAll(c) : o \in m.outputs
  BY Collected
<1> SUFFICES \E id, kind : o = <<id, kind>>
  BY DEF NoRef
<1>2. ASSUME NEW n, m = MapVirtualNetwork(c, n) PROVE \E id, kind : o = <<id, kind>>
  BY <1>1, <1>2, Returned DEF MapVirtualNetwork
<1>3. ASSUME NEW s, m = MapSubnet(c, s) PROVE FALSE
  BY <1>1, <1>3, Returned DEF MapSubnet
<1>4. ASSUME NEW g, m = MapGateway(c, g) PROVE FALSE
  <2>1. /\ MapInternetGateway(c, g).outputs = {} /\ MapNatGateway(c, g).outputs = {}
        /\ MapPeering(c, g).outputs = {} /\ MapTransitGateway(c, g).outputs = {}
    BY Returned DEF MapInternetGateway, MapNatGateway, MapPeering, MapTransitGateway
  <2>2. Refuse("unsupported_gateway_type", g.id).outputs = {}
    BY Returned
  <2>3. \/ m = MapInternetGateway(c, g) \/ m = MapNatGateway(c, g) \/ m = MapPeering(c, g)
        \/ m = MapTransitGateway(c, g) \/ m = Refuse("unsupported_gateway_type", g.id)
    BY <1>4, Zenon DEF MapGateway
  <2> QED
    BY <1>1, <2>1, <2>2, <2>3
<1>5. ASSUME NEW t, m = MapRouteTable(c, t) PROVE FALSE
  BY <1>1, <1>5, Returned DEF MapRouteTable
<1>6. ASSUME NEW g, m = MapSecurityGroup(c, g) PROVE FALSE
  BY <1>1, <1>6, Returned DEF MapSecurityGroup
<1>7. ASSUME NEW i, m = MapCompute(c, i) PROVE \E id, kind : o = <<id, kind>>
  BY <1>1, <1>7, Returned DEF MapCompute
<1>8. ASSUME NEW d, m = MapDatabase(c, d) PROVE \E id, kind : o = <<id, kind>>
  BY <1>1, <1>8, DatabaseMapped
<1>9. ASSUME NEW b, m = MapLoadBalancer(c, b) PROVE \E id, kind : o = <<id, kind>>
  BY <1>1, <1>9, Returned DEF MapLoadBalancer
<1> QED
  BY <1>2, <1>3, <1>4, <1>5, <1>6, <1>7, <1>8, <1>9, Mappers

\* A generated project is a document.
LEMMA ProjectIsDocument ==
  ASSUME NEW c
  PROVE  GenerateProject(c) # NoDocument
<1>1. "blocks" \in DOMAIN GenerateProject(c)
  BY DEF GenerateProject
<1>2. "blocks" \notin DOMAIN <<>>
  OBVIOUS
<1> QED
  BY <1>1, <1>2 DEF NoDocument

\* What an apply reports.
LEMMA Reports ==
  ASSUME NEW lost, NEW resolved, \A o \in project.outputs : o # NoRef
  PROVE  LET r == Reported(lost, resolved)
         IN  /\ \A o \in DOMAIN r.values : r.values[o] = <<o[2], o[1]>> /\ o # NoRef
             /\ \A id \in DOMAIN r.addresses : r.addresses[id] \in {<<"public_ip", id>>, <<"private_ip", id>>}
<1> DEFINE kept == {o \in project.outputs : o[1] \notin lost}
           told == {o[1] : o \in {x \in kept : resolved /\ x[2] = "private_ip"}}
           best(id) == IF <<id, "public_ip">> \in kept THEN <<"public_ip", id>> ELSE <<"private_ip", id>>
           values == [o \in kept |-> <<o[2], o[1]>>]
           addresses == [id \in told |-> best(id)]
<1>1. Reported(lost, resolved) = [values |-> values, addresses |-> addresses]
  BY DEF Reported
<1>2. \A o \in DOMAIN values : values[o] = <<o[2], o[1]>> /\ o # NoRef
  OBVIOUS
<1>3. \A id \in DOMAIN addresses : addresses[id] \in {<<"public_ip", id>>, <<"private_ip", id>>}
  <2> HIDE DEF kept, told
  <2> QED
    OBVIOUS
<1> HIDE DEF values, addresses
<1> QED
  BY <1>1, <1>2, <1>3

\* A cloud architecture that is assembled is a document.
LEMMA AssembledIsDocument ==
  ASSUME NEW p, NEW a, NEW mapped
  PROVE  Assemble(p, a, mapped) # NoDocument
<1>1. "provider" \in DOMAIN Assemble(p, a, mapped)
  BY DEF Assemble
<1>2. "provider" \notin DOMAIN <<>>
  OBVIOUS
<1> QED
  BY <1>1, <1>2 DEF NoDocument

\* No document exists at first.
LEMMA TranslationInit == Init => TranslationInv
  BY DEF Init, TranslationInv, StageInv, PlanInv, ReportInv, ProjectInv, OutputsInv, InventoryInv, Stages

\* Every stage keeps the documents what they are made from.
LEMMA TranslationNext == TranslationInv /\ [Next]_vars => TranslationInv'
<1> SUFFICES ASSUME TranslationInv, [Next]_vars PROVE TranslationInv'
  OBVIOUS
<1> USE DEF TranslationInv, StageInv, PlanInv, ReportInv, ProjectInv, OutputsInv, InventoryInv, Stages
<1>1. CASE Send
  BY <1>1 DEF Send
<1>2. ASSUME NEW answer \in Plans(architecture), Translate(answer) PROVE TranslationInv'
  <2> DEFINE result == Assemble(answer, architecture, payload.unmapped)
             accepted == answer.usable /\ IsCoherent(result)
  <2>1. /\ stage = "sent" /\ plan' = answer
        /\ cloud' = IF accepted THEN result ELSE NoDocument
        /\ stage' = IF accepted THEN "assembled" ELSE "refused"
        /\ UNCHANGED <<architecture, payload, report, project, playbook, outputs, inventory>>
    BY <1>2 DEF Translate
  <2>2. answer # NoDocument
    BY AnswersAssumption
  <2>3. result # NoDocument
    BY AssembledIsDocument
  <2>4. CASE accepted
    <3>1. cloud' = result /\ stage' = "assembled" /\ IsCoherent(result)
      BY <2>1, <2>4
    <3>2. PlanInv'
      <4> HIDE DEF result
      <4>1. cloud' # NoDocument /\ IsCoherent(cloud') /\ plan' \in Plans(architecture')
        BY <2>1, <2>3, <3>1
      <4>2. cloud' = Assemble(plan', architecture', payload'.unmapped)
        BY <2>1, <3>1 DEF result
      <4> QED
        BY <2>1, <2>2, <4>1, <4>2
    <3> QED
      BY <2>1, <2>3, <3>1, <3>2
  <2>5. CASE ~accepted
    <3>1. cloud' = NoDocument /\ stage' = "refused" /\ (~answer.usable \/ ~IsCoherent(result))
      BY <2>1, <2>5
    <3> QED
      BY <2>1, <3>1
  <2> QED
    BY <2>4, <2>5
<1>3. ASSUME NEW c \in OtherClouds(architecture), Receive(c) PROVE TranslationInv'
  BY <1>3, OtherCloudsAssumption, AnswersAssumption DEF Receive
<1>4. CASE ValidateCloud
  <2>1. /\ stage = "assembled" /\ report' = Validate(cloud) /\ stage' = "validated"
        /\ UNCHANGED <<architecture, payload, plan, cloud, project, playbook, outputs, inventory>>
    BY <1>4 DEF ValidateCloud
  <2> QED
    BY <2>1
<1>5. CASE GenerateTerraform
  <2>1. /\ stage = "validated"
        /\ \/ stage' = "refused" /\ project' = project
           \/ ~RefusesToGenerate(cloud, report) /\ stage' = "generated" /\ project' = GenerateProject(cloud)
        /\ UNCHANGED <<architecture, payload, plan, cloud, report, playbook, outputs, inventory>>
    BY <1>5 DEF GenerateTerraform
  <2>2. report = Validate(cloud)
    BY <2>1
  <2> QED
    BY <2>1, <2>2, ProjectIsDocument
<1>6. CASE GenerateAnsible
  BY <1>6 DEF GenerateAnsible
<1>7. ASSUME NEW resolved \in BOOLEAN, NEW lost \in Lost, Apply(lost, resolved) PROVE TranslationInv'
  <2>1. /\ stage = "configured" /\ outputs' = Reported(lost, resolved) /\ stage' = "applied"
        /\ UNCHANGED <<architecture, payload, plan, cloud, report, project, playbook, inventory>>
    BY <1>7 DEF Apply
  <2>2. OutputsInv'
    <3>1. \A o \in project.outputs : o # NoRef
      BY <2>1, OutputsAreNamed
    <3> QED
      BY <2>1, <3>1, Reports
  <2>3. (StageInv /\ PlanInv /\ ReportInv /\ ProjectInv /\ InventoryInv)'
    BY <2>1
  <2> QED
    BY <2>2, <2>3
<1>8. CASE GenerateInventory
  <2>1. /\ stage = "applied"
        /\ \/ stage' = "refused" /\ inventory' = inventory
           \/ stage' = "inventoried" /\ inventory' = InventoryFrom(cloud, outputs)
        /\ UNCHANGED <<architecture, payload, plan, cloud, report, project, outputs>>
    BY <1>8 DEF GenerateInventory
  <2> QED
    BY <2>1
<1>9. CASE UNCHANGED vars
  BY <1>9 DEF vars
<1> QED
  BY <1>1, <1>2, <1>3, <1>4, <1>5, <1>6, <1>7, <1>8, <1>9 DEF Next

\* Each document is what its stage makes of the one before, in every reachable state.
THEOREM TranslationInvariant == Spec => []TranslationInv
  BY TranslationInit, TranslationNext, PTL DEF Spec

\* A cloud architecture that any stage works on passed its constructor, and the
\* documents appear in the order of the pipeline.
THEOREM TranslationTypes == Spec => []TypeOK
<1>1. TranslationInv => TypeOK
  BY DEF TranslationInv, StageInv, PlanInv, TypeOK
<1> QED
  BY <1>1, TranslationInvariant, PTL

\* An address is what the apply reported for the host's machine or, when it reported
\* none, under the output that the host names.
LEMMA ResolvedAddress ==
  ASSUME TranslationInv, inventory # NoDocument, NEW h \in ToSet(cloud.configuration.hosts),
         NEW address, address = ReportedAddress(outputs, h), address # NoRef
  PROVE  \/ address \in {<<kind, h.compute>> : kind \in {"public_ip", "private_ip"}}
         \/ /\ h.compute \notin DOMAIN outputs.addresses
            /\ h.output \in DOMAIN outputs.values /\ address = outputs.values[h.output]
            /\ address = <<h.output[2], h.output[1]>>
<1>1. /\ \A o \in DOMAIN outputs.values : outputs.values[o] = <<o[2], o[1]>> /\ o # NoRef
      /\ \A id \in DOMAIN outputs.addresses :
           outputs.addresses[id] \in {<<"public_ip", id>>, <<"private_ip", id>>}
  BY DEF TranslationInv, StageInv, OutputsInv
<1>2. <<"public_ip", h.compute>> # NoRef /\ <<"private_ip", h.compute>> # NoRef
  BY DEF NoRef
<1>3. CASE h.compute \in DOMAIN outputs.addresses
  BY <1>1, <1>2, <1>3 DEF ReportedAddress, AddressFor
<1>4. CASE h.compute \notin DOMAIN outputs.addresses
  <2>1. AddressFor(outputs, h.compute) = NoRef
    BY <1>4 DEF AddressFor
  <2>2. h.output \in DOMAIN outputs.values /\ address = outputs.values[h.output]
    BY <2>1 DEF ReportedAddress
  <2> QED
    BY <1>1, <1>4, <2>2
<1> QED
  BY <1>3, <1>4

\* Every reference in a generated Terraform project has a block, or a HIGH warning
\* about the resource that has none, whoever made the cloud architecture.
THEOREM ReferencesHold == Spec => []NoSilentDangling
<1>1. TranslationInv => NoSilentDangling
  BY ReferencesResolve DEF TranslationInv, ProjectInv, NoSilentDangling, HasBlock, IsReported
<1> QED
  BY <1>1, TranslationInvariant, PTL
\* What a host of an assembled configuration is made from.
HostOn(p, i, h) == \E defined : h = ConfigurationHost(p, i, defined)
HostOf(p, h) == \E i : HostOn(p, i, h)

\* Each host is made from an instance; from one of the configured compute, when the
\* targets and the instances are lists.
LEMMA Hosts ==
  ASSUME NEW p, NEW a, NEW compute, NEW h \in ToSet(Configuration(p, a, compute).hosts)
  PROVE  HostOf(p, h) /\ (IsList(p.targets) /\ IsList(compute) => \E i \in ToSet(compute) : HostOn(p, i, h))
<1> DEFINE roles == Roles(p, a)
           defined == {r.name : r \in roles}
           nodes == {i.node : i \in ToSet(compute)}
           placed == Only(Distinct(TargetIds(p, compute)), nodes)
           instance(id) == CHOOSE i \in ToSet(compute) : i.node = id
           hosts == [k \in DOMAIN placed |-> ConfigurationHost(p, instance(placed[k]), defined)]
<1>1. Configuration(p, a, compute) = [roles |-> roles, hosts |-> hosts]
  BY DEF Configuration
<1>2. DOMAIN hosts = DOMAIN placed /\ \A k \in DOMAIN placed : hosts[k] = ConfigurationHost(p, instance(placed[k]), defined)
  OBVIOUS
<1>3. \A id \in nodes : instance(id) \in ToSet(compute)
  OBVIOUS
<1> HIDE DEF roles, defined, hosts, instance
<1>4. Configuration(p, a, compute).hosts = hosts
  BY <1>1
<1>5. PICK k \in DOMAIN placed : h = ConfigurationHost(p, instance(placed[k]), defined)
  BY <1>2, <1>4 DEF ToSet
<1>6. ASSUME IsList(p.targets), IsList(compute) PROVE placed[k] \in nodes
  <2> DEFINE declared == [j \in DOMAIN p.targets |-> p.targets[j].component]
             others == Only(compute, {i \in ToSet(compute) : i.roles # <<>> /\ i.node \notin ToSet(declared)})
             rest == [j \in DOMAIN others |-> others[j].node]
             S == ToSet(declared) \cup ToSet(rest)
  <2>1. declared \in Seq(S)
    <3>1. DOMAIN p.targets = 1..Len(p.targets) /\ Len(p.targets) \in Nat
      BY <1>6, LenProperties DEF IsList
    <3> QED
      BY <3>1, Comprehension DEF ToSet
  <2>2. rest \in Seq(S)
    <3>1. others \in Seq(ToSet(compute))
      BY <1>6, Selected DEF IsList
    <3>2. DOMAIN others = 1..Len(others) /\ Len(others) \in Nat
      BY <3>1, LenProperties
    <3> HIDE DEF others
    <3> QED
      BY <3>2, Comprehension DEF ToSet
  <2>3. TargetIds(p, compute) = declared \o rest
    BY DEF TargetIds
  <2> HIDE DEF declared, rest, S
  <2>4. TargetIds(p, compute) \in Seq(S)
    BY <2>1, <2>2, <2>3, Joined
  <2>5. Distinct(TargetIds(p, compute)) \in Seq(S)
    BY <2>4, Deduplicated
  <2>6. ToSet(placed) \subseteq nodes
    BY <2>5, Selected
  <2> HIDE DEF placed, nodes
  <2> QED
    BY <2>6 DEF ToSet
<1>7. HostOn(p, instance(placed[k]), h)
  BY <1>5 DEF HostOn
<1> QED
  BY <1>3, <1>6, <1>7 DEF HostOf

\* The hosts of an assembled configuration name outputs of their machines.
LEMMA HostOutputs ==
  ASSUME PlanInv, plan # NoDocument, cloud # NoDocument, NEW h \in ToSet(cloud.configuration.hosts)
  PROVE  h.output = <<h.compute, "private_ip">>
<1>1. cloud.configuration = Configuration(plan, architecture, cloud.compute)
  BY DEF PlanInv, Assemble
<1>2. h \in ToSet(Configuration(plan, architecture, cloud.compute).hosts)
  BY <1>1
<1>3. PICK i : HostOn(plan, i, h)
  BY <1>2, Hosts DEF HostOf
<1> QED
  BY <1>3 DEF HostOn, ConfigurationHost, AddressOutput

\* An address in the inventory is one the apply reported for the machine of the
\* host, or a variable that the plan declares; of a cloud architecture made
\* elsewhere it may be the value of the output the host names.
THEOREM InventoryIsReported == Spec => []InventoryNeverInvents
<1>1. TranslationInv => InventoryNeverInvents
  <2> SUFFICES ASSUME TranslationInv, inventory # NoDocument, NEW e \in inventory.entries
               PROVE  \E h \in ToSet(cloud.configuration.hosts) :
                        /\ h.id = e.host
                        /\ \/ e.address = NoDocument /\ e.pending
                           \/ e.address \in {<<kind, h.compute>> : kind \in {"public_ip", "private_ip"}}
                           \/ e.address = <<"declared", h.id>> /\ "ansible_host" \in h.variables
                           \/ /\ plan = NoDocument /\ h.compute \notin DOMAIN outputs.addresses
                              /\ h.output \in DOMAIN outputs.values /\ e.address = outputs.values[h.output]
    BY DEF InventoryNeverInvents
  <2>1. inventory = InventoryFrom(cloud, outputs)
    BY DEF TranslationInv, InventoryInv
  <2>2. PICK h \in ToSet(cloud.configuration.hosts) : e = HostEntry(cloud, outputs, h)
    BY <2>1 DEF InventoryFrom
  <2> DEFINE address == ReportedAddress(outputs, h)
  <2>3. /\ e.host = h.id /\ e.pending = (address = NoRef)
        /\ e.address = IF "ansible_host" \in h.variables THEN <<"declared", h.id>> ELSE address
    BY <2>2 DEF HostEntry
  <2>4. address # NoRef =>
          \/ address \in {<<kind, h.compute>> : kind \in {"public_ip", "private_ip"}}
          \/ /\ h.compute \notin DOMAIN outputs.addresses
             /\ h.output \in DOMAIN outputs.values /\ address = outputs.values[h.output]
             /\ address = <<h.output[2], h.output[1]>>
    BY ResolvedAddress
  <2>5. plan # NoDocument => h.output = <<h.compute, "private_ip">>
    BY HostOutputs DEF TranslationInv, StageInv
  <2> HIDE DEF address
  <2>6. CASE plan = NoDocument
    BY <2>3, <2>4, <2>6 DEF NoRef, NoDocument
  <2>7. CASE plan # NoDocument
    <3>1. address # NoRef => address \in {<<kind, h.compute>> : kind \in {"public_ip", "private_ip"}}
      BY <2>4, <2>5, <2>7
    <3> QED
      BY <2>3, <3>1 DEF NoRef, NoDocument
  <2> QED
    BY <2>6, <2>7
<1> QED
  BY <1>1, TranslationInvariant, PTL

-----------------------------------------------------------------------------
(* Addresses of machines                                                   *)
\* The largest of some numbers that have a bound.
LEMMA LargestNumber ==
  ASSUME NEW n \in Nat, NEW S \in SUBSET (0..n), S # {}
  PROVE  \E m \in S : \A k \in S : k <= m
<1> DEFINE R == {n - k : k \in S}
<1>1. R \in SUBSET Nat /\ R # {}
  <2>1. \A k \in S : k \in Int /\ 0 <= k /\ k <= n
    OBVIOUS
  <2>2. \A k \in S : n - k \in Nat
    BY <2>1
  <2> QED
    BY <2>2
<1>2. PICK r \in R : \A x \in R : r <= x
  BY <1>1, LeastNumber
<1>3. PICK m \in S : r = n - m
  OBVIOUS
<1>4. \A k \in S : n - k \in R /\ k \in Int
  OBVIOUS
<1> HIDE DEF R
<1>5. ASSUME NEW k \in S PROVE k <= m
  <2>1. n - m <= n - k /\ k \in Int /\ m \in Int
    BY <1>2, <1>3, <1>4
  <2> QED
    BY <2>1
<1> QED
  BY <1>5

\* The walk over the NICs, without what it looks for.
WalkOf(c) ==
  FlattenSeq([k \in DOMAIN c.compute |->
    [j \in DOMAIN c.compute[k].nics |-> [holder |-> c.compute[k].id, nic |-> c.compute[k].nics[j]]]])

PlacedOn(c) ==
  Only(WalkOf(c), {p \in ToSet(WalkOf(c)) : /\ p.nic.address # NoAddress
                                            /\ p.nic.subnet \in Ids(c.subnets)
                                            /\ IsInside(c, p.nic)})

\* A walk that reported no duplicate met one holder for each address.
LEMMA NoDuplicates ==
  ASSUME NEW c, IsList(PlacedOn(c)), DuplicateHolders(c) = {},
         NEW p \in ToSet(PlacedOn(c)), NEW q \in ToSet(PlacedOn(c)), SameAddress(p.nic, q.nic)
  PROVE  p.holder = q.holder
<1> DEFINE placed == PlacedOn(c)
           n == Len(placed)
           previous(k) == SeenBefore(placed, k)
           last(k) == CHOOSE j \in previous(k) : \A i \in previous(k) : i <= j
           latest(k) == placed[last(k)].holder
<1>1. n \in Nat /\ DOMAIN placed = 1..n /\ \A x : x \in ToSet(placed) <=> \E k \in 1..n : placed[k] = x
  BY ListIs
<1>2. DuplicateHolders(c) = UNION {IF previous(k) = {} \/ latest(k) = placed[k].holder THEN {}
                                   ELSE {latest(k), placed[k].holder} : k \in DOMAIN placed}
  BY DEF DuplicateHolders, PlacedOn, WalkOf
<1>3. \A k : \A j : j \in previous(k) <=> j \in 1..(k-1) /\ SameAddress(placed[j].nic, placed[k].nic)
  BY DEF SeenBefore
<1>4. \A k \in 1..n : previous(k) = {} \/ latest(k) = placed[k].holder
  <2> SUFFICES ASSUME NEW k \in 1..n, ~(previous(k) = {} \/ latest(k) = placed[k].holder)
               PROVE  placed[k].holder \in DuplicateHolders(c)
    OBVIOUS
  <2> DEFINE holders(i) == IF previous(i) = {} \/ latest(i) = placed[i].holder THEN {}
                           ELSE {latest(i), placed[i].holder}
  <2>1. placed[k].holder \in holders(k)
    OBVIOUS
  <2>2. DuplicateHolders(c) = UNION {holders(i) : i \in DOMAIN placed}
    BY <1>2
  <2>3. k \in DOMAIN placed
    BY <1>1
  <2> HIDE DEF holders, placed, n
  <2>4. placed[k].holder \in UNION {holders(i) : i \in DOMAIN placed}
    BY <2>1, <2>3
  <2> QED
    BY <2>2, <2>4
<1>5. ASSUME NEW k \in 1..n, previous(k) # {}
      PROVE  last(k) \in previous(k) /\ \A i \in previous(k) : i <= last(k)
  <2>1. previous(k) \in SUBSET (0..k) /\ k \in Nat
    BY <1>1, <1>3
  <2>2. \E j \in previous(k) : \A i \in previous(k) : i <= j
    <3> HIDE DEF previous
    <3> QED
      BY <1>5, <2>1, LargestNumber
  <2> QED
    BY <2>2
<1> HIDE DEF previous, last, placed
<1> DEFINE Bad == {k \in 1..n : \E j \in previous(k) : placed[j].holder # placed[k].holder}
<1>6. Bad = {}
  <2> SUFFICES ASSUME Bad # {} PROVE FALSE
    OBVIOUS
  <2>1. Bad \in SUBSET Nat
    BY <1>1
  <2>2. PICK k \in Bad : \A m \in Bad : k <= m
    <3> HIDE DEF Bad
    <3> QED
      BY <2>1, LeastNumber
  <2>3. PICK j \in previous(k) : placed[j].holder # placed[k].holder
    OBVIOUS
  <2> DEFINE l == last(k)
  <2>4. /\ l \in previous(k) /\ \A i \in previous(k) : i <= l
        /\ placed[l].holder = placed[k].holder
    BY <1>4, <1>5, <2>3
  <2> HIDE DEF l
  <2>5. l \in 1..n /\ l < k /\ j < l /\ j \in 1..n /\ k \in 1..n
    BY <1>1, <1>3, <2>2, <2>3, <2>4
  <2>6. SameAddress(placed[j].nic, placed[l].nic)
    BY <1>3, <2>3, <2>4 DEF SameAddress
  <2>7. j \in previous(l)
    <3>1. j \in 1..(l-1)
      BY <1>1, <2>5
    <3> QED
      BY <1>3, <2>6, <3>1
  <2>8. l \in Bad
    BY <2>3, <2>4, <2>5, <2>7
  <2> QED
    BY <2>2, <2>5, <2>8, <1>1
<1>7. PICK j \in 1..n, k \in 1..n : placed[j] = p /\ placed[k] = q
  BY <1>1 DEF placed
<1>8. SameAddress(placed[j].nic, placed[k].nic) /\ SameAddress(placed[k].nic, placed[j].nic)
  BY <1>7 DEF SameAddress
<1>9. j \in previous(k) \/ k \in previous(j) \/ j = k
  BY <1>1, <1>3, <1>8
<1> QED
  BY <1>6, <1>7, <1>9

\* The ids of a list are those of its elements.
LEMMA IdsOf ==
  ASSUME NEW s
  PROVE  \A x : x \in Ids(s) <=> \E e \in ToSet(s) : x = e.id
  BY DEF Ids, ToSet

\* Lists where the validators walk.
IsWalkable(c) == IsList(c.compute) /\ \A i \in ToSet(c.compute) : IsList(i.nics)

\* The walk meets every placed address with its holder.
LEMMA Walk ==
  ASSUME NEW c, IsWalkable(c)
  PROVE  /\ IsList(PlacedOn(c))
         /\ \A i \in ToSet(c.compute) : \A nic \in Addressed(c, i) :
              IsInside(c, nic) => [holder |-> i.id, nic |-> nic] \in ToSet(PlacedOn(c))
<1> DEFINE held(i) == [j \in DOMAIN i.nics |-> [holder |-> i.id, nic |-> i.nics[j]]]
           ss == [k \in DOMAIN c.compute |-> held(c.compute[k])]
           n == Len(c.compute)
<1>1. n \in Nat /\ DOMAIN c.compute = 1..n /\ \A x : x \in ToSet(c.compute) <=> \E k \in 1..n : c.compute[k] = x
  BY ListIs DEF IsWalkable
<1>2. ASSUME NEW i \in ToSet(c.compute)
      PROVE  /\ IsList(held(i))
             /\ \A nic \in ToSet(i.nics) : [holder |-> i.id, nic |-> nic] \in ToSet(held(i))
  <2>1. Len(i.nics) \in Nat /\ DOMAIN i.nics = 1..Len(i.nics)
        /\ \A x : x \in ToSet(i.nics) <=> \E k \in 1..Len(i.nics) : i.nics[k] = x
    BY ListIs DEF IsWalkable
  <2>2. /\ IsList(held(i))
        /\ \A x : x \in ToSet(held(i)) <=> \E k \in 1..Len(i.nics) : x = held(i)[k]
    BY <2>1, ListOf
  <2> QED
    BY <2>1, <2>2
<1>3. WalkOf(c) = FlattenSeq(ss)
  BY DEF WalkOf
<1>4. ss = [k \in 1..n |-> ss[k]] /\ \A k \in 1..n : ss[k] = held(c.compute[k])
  BY <1>1
<1> HIDE DEF held, ss, n
<1>5. \A k \in 1..n : IsList(ss[k])
  BY <1>1, <1>2, <1>4
<1>6. /\ IsList(FlattenSeq(ss))
      /\ \A x : x \in ToSet(FlattenSeq(ss)) <=> \E k \in 1..n : x \in ToSet(ss[k])
  BY <1>1, <1>4, <1>5, FlattenedList
<1>7. ASSUME NEW i \in ToSet(c.compute), NEW nic \in Addressed(c, i), IsInside(c, nic)
      PROVE  [holder |-> i.id, nic |-> nic] \in ToSet(PlacedOn(c))
  <2> DEFINE p == [holder |-> i.id, nic |-> nic]
  <2>1. p.nic = nic /\ nic \in ToSet(i.nics) /\ nic.address # NoAddress /\ nic.subnet \in Ids(c.subnets)
    BY DEF Addressed
  <2>2. p \in ToSet(held(i))
    BY <1>2, <2>1
  <2> HIDE DEF p
  <2>3. p \in ToSet(WalkOf(c))
    BY <1>1, <1>3, <1>4, <1>6, <2>2
  <2>4. p \in ToSet(PlacedOn(c))
    BY <1>3, <1>6, <1>7, <2>1, <2>3, SelectedList DEF PlacedOn
  <2> QED
    BY <2>4 DEF p
<1> QED
  BY <1>3, <1>6, <1>7, SelectedList DEF PlacedOn

\* What the assembler makes of a node's interfaces.
LEMMA NicsOf ==
  ASSUME NEW a, IsDrawing(a), NEW n, NEW subnets, NEW groups
  PROVE  /\ IsList(Nics(a, n, subnets, groups))
         /\ \A nic \in ToSet(Nics(a, n, subnets, groups)) : nic.subnet \in Ids(subnets)
<1> DEFINE own == InterfacesOf(a, n.id)
           home(i) == {s \in ToSet(subnets) : /\ SubnetsOf(i) # <<>>
                                              /\ PrefixSlug(s.cidr) = PrefixSlug(SubnetsOf(i)[1])}
           nic(k) == [id |-> <<"nic", Slug(n.id), own[k].name>>,
                      subnet |-> (CHOOSE s \in home(own[k]) : TRUE).id,
                      address |-> PrimaryAddress(own[k]), check |-> ~Forwards(n),
                      primary |-> k = 1, groups |-> groups, interface |-> own[k].id]
           ss == [k \in DOMAIN own |-> IF home(own[k]) = {} THEN <<>> ELSE <<nic(k)>>]
           f == [k \in DOMAIN own |-> nic(k)]
           m == Len(own)
<1>1. IsList(own)
  BY SelectedList DEF IsDrawing, InterfacesOf
<1>2. m \in Nat /\ DOMAIN own = 1..m
  BY <1>1, ListIs
<1>3. Nics(a, n, subnets, groups) = FlattenSeq(ss)
  BY DEF Nics
<1>4. ASSUME NEW k \in 1..m PROVE (ss[k] = <<>> \/ ss[k] = <<f[k]>>) /\ (ss[k] # <<>> => f[k].subnet \in Ids(subnets))
  <2>1. ss[k] = (IF home(own[k]) = {} THEN <<>> ELSE <<nic(k)>>) /\ f[k] = nic(k)
    BY <1>2
  <2>2. home(own[k]) # {} => (CHOOSE s \in home(own[k]) : TRUE) \in ToSet(subnets)
    OBVIOUS
  <2>3. nic(k).subnet = (CHOOSE s \in home(own[k]) : TRUE).id
    OBVIOUS
  <2> HIDE DEF home, nic, ss, f, own
  <2> QED
    BY <2>1, <2>2, <2>3, IdsOf
<1>5. ss = [k \in 1..m |-> ss[k]]
  BY <1>2
<1> HIDE DEF ss, f, own, m
<1>6. IsSieve(m, f, ss)
  BY <1>2, <1>4, <1>5 DEF IsSieve
<1>7. /\ IsList(FlattenSeq(ss))
      /\ \A x : x \in ToSet(FlattenSeq(ss)) <=> \E k \in 1..m : ss[k] # <<>> /\ x = f[k]
  BY <1>6, Sieved
<1> QED
  BY <1>3, <1>4, <1>7

\* An instance for each compute node that has a NIC.
LEMMA ComputeOf ==
  ASSUME NEW p, NEW a, IsDrawing(a), NEW subnets, NEW groups
  PROVE  /\ IsList(Compute(p, a, subnets, groups))
         /\ \A x \in ToSet(Compute(p, a, subnets, groups)) :
              \E n \in ToSet(a.nodes) : /\ Nics(a, n, subnets, groups) # <<>> /\ KindOf(p, n) = "compute"
                                        /\ x = Instance(p, n, Nics(a, n, subnets, groups), groups)
         /\ Simple(Compute(p, a, subnets, groups))
<1> DEFINE nodes == Only(a.nodes, {n \in ToSet(a.nodes) : KindOf(p, n) = "compute"})
           nics(n) == Nics(a, n, subnets, groups)
           ss == [k \in DOMAIN nodes |-> IF nics(nodes[k]) = <<>> THEN <<>>
                                         ELSE <<Instance(p, nodes[k], nics(nodes[k]), groups)>>]
           f == [k \in DOMAIN nodes |-> Instance(p, nodes[k], nics(nodes[k]), groups)]
           m == Len(nodes)
<1>1. Simple(a.nodes)
  BY DEF IsDrawing, Simple
<1>2. /\ IsList(nodes) /\ ToSet(nodes) \subseteq ToSet(a.nodes) /\ Simple(nodes)
      /\ \A n \in ToSet(nodes) : KindOf(p, n) = "compute"
  BY <1>1, SelectedList DEF IsDrawing
<1>3. /\ m \in Nat /\ DOMAIN nodes = 1..m
      /\ \A k \in 1..m : nodes[k] \in ToSet(a.nodes) /\ KindOf(p, nodes[k]) = "compute"
  BY <1>2, ListIs
<1>4. Compute(p, a, subnets, groups) = FlattenSeq(ss)
  BY DEF Compute
<1> HIDE DEF nodes
<1>5. \A k \in 1..m : /\ f[k] = Instance(p, nodes[k], nics(nodes[k]), groups)
                      /\ ss[k] = <<>> \/ ss[k] = <<f[k]>>
                      /\ ss[k] # <<>> => nics(nodes[k]) # <<>>
  BY <1>3
<1>6. ss = [k \in 1..m |-> ss[k]]
  BY <1>3
<1> HIDE DEF ss, f, m, nics
<1>7. ASSUME NEW j \in 1..m, NEW k \in 1..m, f[j] = f[k] PROVE j = k
  <2>1. \A n, own : Instance(p, n, own, groups).node = n.id
    BY DEF Instance
  <2>2. f[j].node = nodes[j].id /\ f[k].node = nodes[k].id
    BY <1>5, <2>1
  <2>3. nodes[j] = nodes[k]
    BY <1>3, <1>7, <2>2 DEF IsDrawing, ToSet
  <2> QED
    BY <1>2, <1>3, <2>3 DEF Simple
<1>8. IsSieve(m, f, ss)
  BY <1>3, <1>5, <1>6 DEF IsSieve
<1>9. /\ IsList(FlattenSeq(ss))
      /\ \A x : x \in ToSet(FlattenSeq(ss)) <=> \E k \in 1..m : ss[k] # <<>> /\ x = f[k]
      /\ Simple(FlattenSeq(ss))
  BY <1>7, <1>8, Sieved
<1> QED
  BY <1>3, <1>4, <1>5, <1>9 DEF nics

\* The parts of an assembled cloud architecture.
LEMMA PartsOf ==
  ASSUME NEW p, NEW a, NEW mapped
  PROVE  LET c == Assemble(p, a, mapped)
             segments == DiscoverSegments(a)
         IN  /\ c.networks = Networks(a, segments)
             /\ c.subnets = CloudSubnets(a, segments, c.networks)
             /\ c.gateways = Gateways(p, c.networks, c.subnets)
             /\ c.tables = RouteTables(c.networks, c.subnets, c.gateways)
             /\ c.groups = SecurityGroups(p, a, c.networks)
             /\ c.compute = Compute(p, a, c.subnets, [k \in DOMAIN c.groups |-> c.groups[k].id])
             /\ c.databases = <<>> /\ c.balancers = <<>>
             /\ c.configuration = Configuration(p, a, c.compute)
             /\ c.unmapped = mapped \cup UncoveredDomains(a, segments) \cup UnmappedTransport(segments)
                             \cup UnmappedCompute(p, a, c.compute)
  BY DEF Assemble

\* What an instance is made from.
LEMMA InstanceFields ==
  ASSUME NEW p, NEW n, NEW nics, NEW groups
  PROVE  LET i == Instance(p, n, nics, groups)
         IN  /\ i.id = <<"c", Slug(n.id)>> /\ i.node = n.id /\ i.subnet = nics[1].subnet
             /\ i.nics = nics /\ i.groups = groups
  BY DEF Instance

\* Every cloud architecture in the pipeline is one the validators can walk.
LEMMA WalkableClouds ==
  ASSUME PlanInv, cloud # NoDocument
  PROVE  IsWalkable(cloud)
<1>1. CASE plan = NoDocument
  BY <1>1, OtherCloudsAssumption DEF PlanInv, IsWalkable
<1>2. CASE plan # NoDocument
  <2>1. IsDrawing(architecture)
    BY ArchitecturesAssumption DEF PlanInv
  <2>2. cloud = Assemble(plan, architecture, payload.unmapped)
    BY <1>2 DEF PlanInv
  <2> DEFINE groups == [k \in DOMAIN cloud.groups |-> cloud.groups[k].id]
  <2>3. cloud.compute = Compute(plan, architecture, cloud.subnets, groups)
    BY <2>2, PartsOf
  <2> HIDE DEF groups
  <2>4. ASSUME NEW i \in ToSet(cloud.compute) PROVE IsList(i.nics)
    <3>1. PICK n : i = Instance(plan, n, Nics(architecture, n, cloud.subnets, groups), groups)
      BY <2>1, <2>3, ComputeOf
    <3>2. i.nics = Nics(architecture, n, cloud.subnets, groups)
      BY <3>1, InstanceFields
    <3> QED
      BY <2>1, <3>2, NicsOf
  <2>5. IsList(cloud.compute)
    BY <2>1, <2>3, ComputeOf
  <2> QED
    BY <2>4, <2>5 DEF IsWalkable
<1> QED
  BY <1>1, <1>2

\* The addresses of an architecture the validators let through lie in their subnets,
\* are not reserved by AWS, and are not shared.
THEOREM AddressesAreSound == Spec => []AcceptedAddressesAreSound
<1>1. TranslationInv => AcceptedAddressesAreSound
  <2> SUFFICES ASSUME TranslationInv, Accepted,
                      NEW i \in ToSet(cloud.compute), NEW nic \in Addressed(cloud, i)
               PROVE  /\ IsInside(cloud, nic)
                      /\ ~IsAwsReserved(nic.address, CidrOf(cloud, nic.subnet))
                      /\ \A j \in ToSet(cloud.compute) : \A other \in Addressed(cloud, j) :
                           SameAddress(nic, other) => i.id = j.id
    BY DEF AcceptedAddressesAreSound
  <2>1. cloud # NoDocument /\ Validate(cloud).errors = {}
    BY DEF TranslationInv, ReportInv, Accepted, IsValid
  <2>2. PlacementErrors(cloud) = {}
    BY <2>1 DEF Validate
  <2>3. IsWalkable(cloud)
    BY <2>1, WalkableClouds DEF TranslationInv
  <2> DEFINE placed == {x \in ToSet(cloud.compute) : x.subnet # NoRef \/ x.nics # <<>>}
  <2>4. ASSUME NEW x \in ToSet(cloud.compute), Addressed(cloud, x) # {} PROVE x \in placed
    <3>1. x.nics # <<>>
      BY <2>4 DEF Addressed, ToSet
    <3> QED
      BY <3>1
  <2>5. ASSUME NEW x \in ToSet(cloud.compute), NEW y \in Addressed(cloud, x) PROVE IsInside(cloud, y)
    <3>1. x \in placed
      BY <2>4
    <3>2. ~IsInside(cloud, y) => <<"address_outside_subnet", x.id>> \in PlacementErrors(cloud)
      BY <3>1 DEF PlacementErrors
    <3> QED
      BY <2>2, <3>2
  <2>6. ~IsAwsReserved(nic.address, CidrOf(cloud, nic.subnet))
    <3>1. i \in placed /\ IsInside(cloud, nic)
      BY <2>4, <2>5
    <3>2. IsAwsReserved(nic.address, CidrOf(cloud, nic.subnet)) =>
            <<"aws_reserved_address", i.id>> \in PlacementErrors(cloud)
      BY <3>1 DEF PlacementErrors
    <3> QED
      BY <2>2, <3>2
  <2>7. DuplicateHolders(cloud) = {}
    <3>1. \A id \in DuplicateHolders(cloud) : <<"duplicate_address", id>> \in PlacementErrors(cloud)
      BY DEF PlacementErrors
    <3> QED
      BY <2>2, <3>1
  <2>8. ASSUME NEW j \in ToSet(cloud.compute), NEW other \in Addressed(cloud, j), SameAddress(nic, other)
        PROVE  i.id = j.id
    <3> DEFINE p == [holder |-> i.id, nic |-> nic]
               q == [holder |-> j.id, nic |-> other]
    <3>1. p \in ToSet(PlacedOn(cloud)) /\ q \in ToSet(PlacedOn(cloud)) /\ IsList(PlacedOn(cloud))
      BY <2>3, <2>5, Walk
    <3>2. p.nic = nic /\ p.holder = i.id /\ q.nic = other /\ q.holder = j.id
      OBVIOUS
    <3> HIDE DEF p, q
    <3> QED
      BY <2>7, <2>8, <3>1, <3>2, NoDuplicates
  <2> QED
    BY <2>5, <2>6, <2>8
<1> QED
  BY <1>1, TranslationInvariant, PTL

-----------------------------------------------------------------------------
(* Arithmetic of prefixes                                                  *)
\* A power of two counts the subsets of a set.
LEMMA PowerOfTwo ==
  ASSUME NEW n \in Nat
  PROVE  2^n \in Nat \ {0}
<1>1. IsFiniteSet(1..n) /\ Cardinality(1..n) = n
  BY FS_Interval
<1>2. Cardinality(SUBSET (1..n)) = 2^n /\ IsFiniteSet(SUBSET (1..n))
  BY <1>1, FS_SUBSET
<1> QED
  BY <1>2, FS_CardinalityType, FS_EmptySet

\* Powers of two count subsets, so that they add up as exponents.
LEMMA SumOfPowers ==
  ASSUME NEW m \in Nat, NEW n \in Nat
  PROVE  2^(m+n) = 2^m * 2^n
<1> DEFINE low == 1..m
           high == (m+1)..(m+n)
           P == SUBSET low
           Q == SUBSET high
           all == SUBSET (1..(m+n))
           f == [p \in P \X Q |-> p[1] \cup p[2]]
<1>1. /\ IsFiniteSet(low) /\ Cardinality(low) = m
      /\ IsFiniteSet(1..(m+n)) /\ Cardinality(1..(m+n)) = m + n
  <2>1. \A k \in Nat : IsFiniteSet(1..k) /\ Cardinality(1..k) = k
    BY FS_Interval
  <2>2. m + n \in Nat
    OBVIOUS
  <2> QED
    BY <2>1, <2>2
<1>2. IsFiniteSet(high) /\ Cardinality(high) = n
  <2>1. m + 1 \in Int /\ m + n \in Int
    OBVIOUS
  <2>2. IsFiniteSet(high) /\ Cardinality(high) = IF m + 1 > m + n THEN 0 ELSE (m + n) - (m + 1) + 1
    BY <2>1, FS_Interval
  <2> HIDE DEF high
  <2> QED
    BY <2>2
<1>3. 1..(m+n) = low \cup high /\ low \cap high = {}
  OBVIOUS
<1> HIDE DEF low, high
<1>4. /\ IsFiniteSet(P) /\ Cardinality(P) = 2^m
      /\ IsFiniteSet(Q) /\ Cardinality(Q) = 2^n
      /\ Cardinality(all) = 2^(m+n)
  BY <1>1, <1>2, FS_SUBSET
<1>5. \A x : x \in P <=> x \subseteq low
  OBVIOUS
<1>6. \A x : x \in Q <=> x \subseteq high
  OBVIOUS
<1>7. \A x : x \in all <=> x \subseteq low \cup high
  BY <1>3
<1> HIDE DEF P, Q, all
<1>8. IsFiniteSet(P \X Q) /\ Cardinality(P \X Q) = 2^m * 2^n
  BY <1>4, FS_Product
<1>9. \A x \in P, y \in Q : f[<<x, y>>] = x \cup y
  OBVIOUS
<1>10. f \in [P \X Q -> all]
  <2> SUFFICES ASSUME NEW x \in P, NEW y \in Q PROVE x \cup y \in all
    OBVIOUS
  <2> QED
    BY <1>5, <1>6, <1>7
<1>11. \A p \in P \X Q : \E x \in P, y \in Q : p = <<x, y>>
  OBVIOUS
<1> HIDE DEF f
<1>12. ASSUME NEW p \in P \X Q, NEW q \in P \X Q, f[p] = f[q] PROVE p = q
  <2>1. PICK x \in P, y \in Q : p = <<x, y>>
    BY <1>11
  <2>2. PICK u \in P, w \in Q : q = <<u, w>>
    BY <1>11
  <2>3. x \cup y = u \cup w
    BY <1>9, <1>12, <2>1, <2>2
  <2>4. x \subseteq low /\ u \subseteq low /\ y \subseteq high /\ w \subseteq high
    BY <1>5, <1>6
  <2>5. x = u /\ y = w
    BY <1>3, <2>3, <2>4
  <2> QED
    BY <2>1, <2>2, <2>5
<1>13. ASSUME NEW T \in all PROVE \E p \in P \X Q : f[p] = T
  <2>1. T \cap low \in P /\ T \cap high \in Q /\ T = (T \cap low) \cup (T \cap high)
    BY <1>5, <1>6, <1>7
  <2>2. <<T \cap low, T \cap high>> \in P \X Q
    BY <2>1
  <2> QED
    BY <1>9, <2>1, <2>2
<1>14. f \in Bijection(P \X Q, all)
  BY <1>10, <1>12, <1>13 DEF Bijection, Injection, IsInjective, Surjection
<1>15. IsFiniteSet(all) /\ Cardinality(all) = Cardinality(P \X Q)
  BY <1>8, <1>14, FS_Bijection DEF ExistsBijection
<1> QED
  BY <1>4, <1>8, <1>15

\* Where the block of d addresses begins that a is in.
Start(a, d) == a - (a % d)
IsMultiple(a, d) == \E q \in Nat : a = d * q

\* The start of the block of d numbers that a is in is a multiple of d.
LEMMA Aligned ==
  ASSUME NEW a \in Nat, NEW d \in Nat \ {0}
  PROVE  /\ Start(a, d) \in Nat /\ Start(a, d) <= a /\ a < Start(a, d) + d
         /\ IsMultiple(Start(a, d), d)
<1>1. a = d * (a \div d) + (a % d) /\ a % d \in 0..(d-1) /\ a \div d \in Nat
  OBVIOUS
<1>2. d * (a \div d) \in Nat
  BY <1>1
<1>3. Start(a, d) = d * (a \div d)
  BY <1>1, <1>2 DEF Start
<1>4. Start(a, d) <= a /\ a < Start(a, d) + d
  BY <1>1, <1>2, <1>3
<1>5. IsMultiple(Start(a, d), d)
  BY <1>1, <1>3 DEF IsMultiple
<1> QED
  BY <1>2, <1>3, <1>4, <1>5

\* A block of length D k and one of length d: nested or apart.
LEMMA Nested ==
  ASSUME NEW d \in Nat \ {0}, NEW k \in Nat \ {0}, NEW M, IsMultiple(M, d * k), NEW N, IsMultiple(N, d),
         M <= N, N < M + d * k
  PROVE  N + d <= M + d * k
<1>1. PICK m \in Nat : M = (d * k) * m
  BY DEF IsMultiple
<1>2. PICK n \in Nat : N = d * n
  BY DEF IsMultiple
<1> DEFINE e == k * m + k
<1>3. k * m \in Nat /\ e \in Nat /\ M = d * (k * m) /\ M + d * k = d * e
  BY <1>1
<1> HIDE DEF e
<1>4. d * n < d * e
  BY <1>2, <1>3
<1>5. n < e
  <2>1. CASE e <= n
    <3>1. n - e \in Nat /\ d * (n - e) >= 0 /\ d * (n - e) = d * n - d * e
      BY <2>1, <1>3
    <3> QED
      BY <3>1, <1>4, <1>3
  <2> QED
    BY <2>1, <1>3
<1>6. e - n - 1 \in Nat /\ d * (e - n - 1) >= 0 /\ d * (e - n - 1) = d * e - d * n - d
  BY <1>3, <1>5
<1>7. d * n \in Int /\ d * e \in Int
  BY <1>3
<1> QED
  BY <1>2, <1>3, <1>6, <1>7

\* A number is in one block only.
LEMMA OneBlock ==
  ASSUME NEW d \in Nat \ {0}, NEW M, IsMultiple(M, d), NEW N, IsMultiple(N, d), NEW a \in Nat,
         M <= a, a < M + d, N <= a, a < N + d
  PROVE  M = N
<1>1. M \in Nat /\ N \in Nat
  BY DEF IsMultiple
<1>2. d = d * 1
  OBVIOUS
<1>3. IsMultiple(M, d * 1) /\ IsMultiple(N, d * 1)
  BY <1>2
<1>4. M <= N => N + d <= M + d
  <2>1. 1 \in Nat \ {0} /\ N < M + d * 1
    BY <1>1
  <2> QED
    BY <1>1, <1>2, <1>3, <2>1, Nested
<1>5. N <= M => M + d <= N + d
  <2>1. 1 \in Nat \ {0} /\ M < N + d * 1
    BY <1>1
  <2> QED
    BY <1>1, <1>2, <1>3, <2>1, Nested
<1> QED
  BY <1>1, <1>4, <1>5

\* The sizes of prefixes divide each other.
LEMMA Sizes ==
  ASSUME NEW l \in 0..AddressBits, NEW m \in 0..AddressBits
  PROVE  /\ SizeOf(l) \in Nat \ {0}
         /\ l <= m => \E k \in Nat \ {0} : SizeOf(l) = SizeOf(m) * k
         /\ l < m => SizeOf(m) < SizeOf(l)
<1>1. AddressBits - l \in Nat /\ AddressBits - m \in Nat /\ l \in Nat /\ m \in Nat
  BY AddressBitsAssumption
<1>2. SizeOf(l) \in Nat \ {0} /\ SizeOf(m) \in Nat \ {0}
  BY <1>1, PowerOfTwo DEF SizeOf
<1>3. ASSUME l <= m PROVE SizeOf(l) = SizeOf(m) * 2^(m - l) /\ 2^(m - l) \in Nat \ {0}
  <2>1. m - l \in Nat /\ AddressBits - l = (AddressBits - m) + (m - l)
    BY <1>1, <1>3, AddressBitsAssumption
  <2>2. 2^((AddressBits - m) + (m - l)) = 2^(AddressBits - m) * 2^(m - l)
    BY <1>1, <2>1, SumOfPowers
  <2> QED
    BY <2>1, <2>2, PowerOfTwo DEF SizeOf
<1>4. ASSUME l < m PROVE SizeOf(m) < SizeOf(l)
  <2>1. m - l - 1 \in Nat /\ m - l = (m - l - 1) + 1 /\ l <= m
    BY <1>1, <1>4
  <2>2. 2^((m - l - 1) + 1) = 2^(m - l - 1) * 2^1
    BY <2>1, SumOfPowers
  <2>3. 2^1 = 2
    OBVIOUS
  <2>4. 2^(m - l - 1) \in Nat \ {0}
    BY <2>1, PowerOfTwo
  <2>5. 2^(m - l) = 2^(m - l - 1) * 2
    BY <2>1, <2>2, <2>3
  <2> DEFINE r == 2^(m - l - 1)
             d == SizeOf(m)
  <2>6. SizeOf(l) = d * (r * 2) /\ r \in Nat \ {0} /\ d \in Nat \ {0}
    BY <1>2, <1>3, <2>1, <2>4, <2>5
  <2> HIDE DEF r, d
  <2>7. d * (r * 2) = d * r + d * r /\ d * r >= d
    <3>1. r - 1 \in Nat /\ d * (r - 1) >= 0 /\ d * r = d * (r - 1) + d
      BY <2>6
    <3> QED
      BY <2>6, <3>1
  <2>8. d * r \in Int /\ d < d * (r * 2)
    BY <2>6, <2>7
  <2> QED
    BY <2>6, <2>8 DEF d
<1> QED
  BY <1>2, <1>3, <1>4

\* The prefixes SubnetSpec makes: aligned, and within the addresses there are.
IsCanonical(s) ==
  /\ s = [v |-> s.v, net |-> s.net, len |-> s.len]
  /\ s.v \in {4, 6} /\ s.net \in Nat /\ s.len \in 0..AddressBits
  /\ IsMultiple(s.net, SizeOf(s.len))
  /\ s.net + SizeOf(s.len) <= SizeOf(0)

IsIn(a, s) == s.net <= a /\ a < s.net + SizeOf(s.len)

\* A subnet is canonical, and holds the address it was made from.
LEMMA Canonical ==
  ASSUME NEW v \in {4, 6}, NEW a \in Nat, a < SizeOf(0), NEW l \in 0..AddressBits
  PROVE  LET s == SubnetSpec(v, a, l)
         IN  IsCanonical(s) /\ s.v = v /\ s.len = l /\ IsIn(a, s)
<1> DEFINE s == SubnetSpec(v, a, l)
<1>1. s = [v |-> v, net |-> Start(a, SizeOf(l)), len |-> l]
  BY DEF SubnetSpec, Start
<1>2. 0 \in 0..AddressBits /\ 0 <= l /\ SizeOf(l) \in Nat \ {0} /\ SizeOf(0) \in Nat \ {0}
  BY Sizes, AddressBitsAssumption
<1>3. PICK k \in Nat \ {0} : SizeOf(0) = SizeOf(l) * k
  BY <1>2, Sizes
<1> DEFINE net == Start(a, SizeOf(l))
<1>4. net \in Nat /\ net <= a /\ a < net + SizeOf(l) /\ IsMultiple(net, SizeOf(l))
  BY <1>2, Aligned
<1>5. IsMultiple(0, SizeOf(l) * k)
  BY <1>2 DEF IsMultiple
<1> HIDE DEF net
<1>6. 0 <= net /\ net < 0 + SizeOf(l) * k
  BY <1>2, <1>3, <1>4
<1>7. net + SizeOf(l) <= 0 + SizeOf(l) * k
  BY <1>2, <1>4, <1>5, <1>6, Nested
<1>8. net + SizeOf(l) <= SizeOf(0)
  BY <1>2, <1>3, <1>7
<1>9. s.v = v /\ s.net = net /\ s.len = l /\ s = [v |-> s.v, net |-> s.net, len |-> s.len]
  BY <1>1 DEF net
<1> HIDE DEF s
<1>10. IsCanonical(s) /\ IsIn(a, s)
  BY <1>4, <1>8, <1>9 DEF IsCanonical, IsIn
<1> QED
  BY <1>9, <1>10 DEF s

\* The prefix of length l around s.
Around(s, l) == SubnetSpec(s.v, s.net, l)

\* The network address of a subnet is one of its addresses.
LEMMA FirstAddress ==
  ASSUME NEW s, IsCanonical(s)
  PROVE  s.net \in Nat /\ s.net < SizeOf(0) /\ IsIn(s.net, s) /\ SizeOf(s.len) \in Nat \ {0}
<1>1. 0 \in 0..AddressBits
  BY AddressBitsAssumption
<1>2. SizeOf(s.len) \in Nat \ {0} /\ SizeOf(0) \in Nat \ {0} /\ s.net \in Nat /\ s.net + SizeOf(s.len) <= SizeOf(0)
  BY <1>1, Sizes DEF IsCanonical
<1> QED
  BY <1>2 DEF IsIn

\* A prefix that begins within a shorter one lies in it.
LEMMA Inside ==
  ASSUME NEW s, IsCanonical(s), NEW t, IsCanonical(t), s.v = t.v, t.len <= s.len, IsIn(s.net, t)
  PROVE  IsSubnetOf(s, t)
<1>1. SizeOf(s.len) \in Nat \ {0} /\ SizeOf(t.len) \in Nat \ {0} /\ s.net \in Nat /\ t.net \in Nat
  BY FirstAddress
<1>2. PICK k \in Nat \ {0} : SizeOf(t.len) = SizeOf(s.len) * k
  BY Sizes DEF IsCanonical
<1>3. IsMultiple(t.net, SizeOf(s.len) * k) /\ IsMultiple(s.net, SizeOf(s.len))
  BY <1>2 DEF IsCanonical
<1>4. t.net <= s.net /\ s.net < t.net + SizeOf(s.len) * k
  BY <1>2 DEF IsIn
<1>5. s.net + SizeOf(s.len) <= t.net + SizeOf(s.len) * k
  BY <1>1, <1>3, <1>4, Nested
<1> QED
  BY <1>1, <1>2, <1>4, <1>5 DEF IsSubnetOf, BroadcastOf, Size

\* A prefix that lies in another is not shorter and begins within it.
LEMMA Containing ==
  ASSUME NEW s, IsCanonical(s), NEW t, IsCanonical(t), IsSubnetOf(s, t)
  PROVE  t.len <= s.len /\ IsIn(s.net, t) /\ s.v = t.v
<1>1. SizeOf(s.len) \in Nat \ {0} /\ SizeOf(t.len) \in Nat \ {0} /\ s.net \in Nat /\ t.net \in Nat
  BY FirstAddress
<1>2. s.v = t.v /\ s.net >= t.net /\ s.net + SizeOf(s.len) <= t.net + SizeOf(t.len)
  BY <1>1 DEF IsSubnetOf, BroadcastOf, Size
<1>3. SizeOf(s.len) <= SizeOf(t.len)
  BY <1>1, <1>2
<1>4. s.len \in 0..AddressBits /\ t.len \in 0..AddressBits
  BY DEF IsCanonical
<1>5. s.len < t.len => SizeOf(t.len) < SizeOf(s.len)
  BY <1>4, Sizes
<1>6. t.len <= s.len
  BY <1>1, <1>3, <1>4, <1>5
<1> QED
  BY <1>1, <1>2, <1>6 DEF IsIn

\* Two prefixes of one length with an address in common are the same.
LEMMA SamePrefix ==
  ASSUME NEW s, IsCanonical(s), NEW t, IsCanonical(t), s.v = t.v, s.len = t.len, NEW a \in Nat, IsIn(a, s), IsIn(a, t)
  PROVE  s = t
<1>1. SizeOf(s.len) \in Nat \ {0}
  BY FirstAddress
<1>2. s.net = t.net
  BY <1>1, OneBlock DEF IsCanonical, IsIn
<1> QED
  BY <1>2 DEF IsCanonical

\* A prefix in a prefix that is in a third is in the third.
LEMMA Nesting ==
  ASSUME NEW s, IsCanonical(s), NEW t, IsCanonical(t), NEW u, IsCanonical(u), IsSubnetOf(s, t), IsSubnetOf(t, u)
  PROVE  IsSubnetOf(s, u)
<1>1. \A x \in {s, t, u} : x.net \in Nat /\ SizeOf(x.len) \in Nat
  BY FirstAddress
<1> QED
  BY <1>1 DEF IsSubnetOf, BroadcastOf, Size

\* What surrounds s, and what surrounds that.
LEMMA Surrounding ==
  ASSUME NEW s, IsCanonical(s), NEW l \in 0..s.len
  PROVE  /\ IsCanonical(Around(s, l)) /\ Around(s, l).len = l /\ Around(s, l).v = s.v
         /\ IsSubnetOf(s, Around(s, l))
         /\ \A m \in 0..l : Around(Around(s, l), m) = Around(s, m)
         /\ Around(s, s.len) = s
<1>1. s.v \in {4, 6} /\ s.len \in 0..AddressBits /\ s.net \in Nat
  BY DEF IsCanonical
<1>2. s.net \in Nat /\ s.net < SizeOf(0)
  BY FirstAddress
<1>3. ASSUME NEW m \in 0..s.len
      PROVE  IsCanonical(Around(s, m)) /\ Around(s, m).len = m /\ Around(s, m).v = s.v /\ IsIn(s.net, Around(s, m))
  <2>1. m \in 0..AddressBits
    BY <1>1, AddressBitsAssumption
  <2> QED
    BY <1>1, <1>2, <2>1, Canonical DEF Around
<1>4. IsSubnetOf(s, Around(s, l))
  BY <1>1, <1>3, Inside
<1>5. s.len \in 0..s.len /\ Around(s, s.len) = s
  <2>1. s.len \in 0..s.len
    BY <1>1
  <2> QED
    BY <1>3, <2>1, FirstAddress, SamePrefix
<1> DEFINE t == Around(s, l)
<1>6. IsCanonical(t) /\ t.len = l /\ t.v = s.v /\ t.net \in Nat /\ t.net < SizeOf(0)
  BY <1>3, FirstAddress
<1> HIDE DEF t
<1>7. ASSUME NEW m \in 0..l PROVE Around(t, m) = Around(s, m)
  <2> DEFINE u == Around(t, m)
             w == Around(s, m)
  <2>1. m \in 0..AddressBits /\ m \in 0..s.len /\ m <= l
    BY <1>1, AddressBitsAssumption
  <2>2. IsCanonical(u) /\ u.len = m /\ u.v = s.v /\ IsIn(t.net, u)
    BY <1>1, <1>6, <2>1, Canonical DEF Around
  <2>3. IsCanonical(w) /\ w.len = m /\ w.v = s.v /\ IsIn(s.net, w)
    BY <1>3, <2>1
  <2> HIDE DEF u, w
  <2>4. IsSubnetOf(t, u)
    BY <1>6, <2>1, <2>2, Inside
  <2>5. IsSubnetOf(s, u)
    <3>1. IsSubnetOf(s, t)
      BY <1>4 DEF t
    <3> QED
      BY <1>6, <2>2, <2>4, <3>1, Nesting
  <2>6. IsIn(s.net, u)
    BY <2>2, <2>5, Containing
  <2> QED
    BY <1>1, <2>2, <2>3, <2>6, SamePrefix DEF u, w
<1> QED
  BY <1>3, <1>4, <1>5, <1>7 DEF t

\* One turn of the widening loop gives up no bit it need not.
LEMMA WidenedOnce ==
  ASSUME NEW f, IsCanonical(f), NEW l \in 0..f.len, NEW x, IsCanonical(x), x.v = f.v
  PROVE  \E m \in 0..l : /\ WidenTo(Around(f, l), x) = Around(f, m)
                         /\ IsSubnetOf(x, Around(f, m))
                         /\ \A i \in (m+1)..l : ~IsSubnetOf(x, Around(f, i))
<1> DEFINE c == Around(f, l)
           S == {i \in 0..l : IsSubnetOf(x, Around(f, i))}
           best(m) == IsSubnetOf(x, Around(f, m)) /\ \A i \in (m+1)..l : ~IsSubnetOf(x, Around(f, i))
           chosen == CHOOSE m \in 0..l : best(m)
<1>1. f.len \in 0..AddressBits /\ l \in Nat /\ 0 \in 0..f.len /\ 0 \in 0..l
  BY AddressBitsAssumption DEF IsCanonical
<1>2. c.len = l /\ c.v = f.v /\ \A m \in 0..l : Around(c, m) = Around(f, m)
  BY Surrounding
<1>3. IsSubnetOf(x, Around(f, 0))
  <2> DEFINE t == Around(f, 0)
  <2>1. IsCanonical(t) /\ t.len = 0 /\ t.v = f.v
    BY <1>1, Surrounding
  <2> HIDE DEF t
  <2>2. t.net \in Nat /\ SizeOf(0) \in Nat /\ t.net + SizeOf(0) <= SizeOf(0)
    BY <2>1, FirstAddress DEF IsCanonical
  <2>3. x.net \in Nat /\ x.net < SizeOf(0) /\ x.len \in 0..AddressBits
    BY FirstAddress DEF IsCanonical
  <2>4. IsIn(x.net, t) /\ t.len <= x.len
    BY <2>1, <2>2, <2>3, AddressBitsAssumption DEF IsIn
  <2> QED
    BY <2>1, <2>4, Inside DEF t
<1>4. S \in SUBSET (0..l) /\ S # {}
  BY <1>1, <1>3
<1>5. PICK m \in S : \A k \in S : k <= m
  BY <1>1, <1>4, LargestNumber
<1>6. best(m)
  <2>1. ASSUME NEW i \in (m+1)..l, IsSubnetOf(x, Around(f, i)) PROVE FALSE
    <3>1. i \in 0..l /\ m \in 0..l /\ i > m
      BY <1>1
    <3>2. i <= m
      BY <1>5, <2>1, <3>1
    <3> QED
      BY <1>1, <3>1, <3>2
  <2> QED
    BY <2>1
<1>7. chosen \in 0..l /\ best(chosen)
  <2>1. m \in 0..l
    OBVIOUS
  <2> HIDE DEF best
  <2> QED
    BY <1>6, <2>1
<1>8. WidenTo(c, x) = Around(f, chosen)
  <2> DEFINE fits(k) == IsSubnetOf(x, SubnetSpec(c.v, c.net, k))
  <2>1. \A k \in 0..l : fits(k) <=> IsSubnetOf(x, Around(f, k))
    BY <1>2 DEF Around
  <2>2. \A k \in 0..l : (fits(k) /\ \A i \in (k+1)..l : ~fits(i)) <=> best(k)
    BY <1>1, <2>1
  <2>3. (CHOOSE k \in 0..l : fits(k) /\ \A i \in (k+1)..l : ~fits(i)) = chosen
    <3> HIDE DEF fits, best
    <3> QED
      BY <2>2
  <2>4. WidenTo(c, x) = SubnetSpec(c.v, c.net, CHOOSE k \in 0..c.len : fits(k) /\ \A i \in (k+1)..c.len : ~fits(i))
    BY DEF WidenTo
  <2> HIDE DEF fits, chosen, c
  <2>5. WidenTo(c, x) = Around(c, chosen)
    BY <1>2, <2>3, <2>4 DEF Around
  <2> QED
    BY <1>2, <1>7, <2>5
<1> HIDE DEF chosen
<1> QED
  BY <1>7, <1>8

\* The fold of CoveringSupernet, named: a lemma about it can then be cited.
WidenedOver(base, s) == FoldLeft(WidenTo, base, s)

\* g is the function the fold over the prefixes is an application of.
IsWidening(base, s, n, g) ==
  g = [t \in SUBSET (1..n) |-> IF t = {} THEN base ELSE WidenTo(g[t \ {Max(t)}], s[Max(t)])]

\* There is one.
LEMMA WideningExists ==
  ASSUME NEW base, NEW s, NEW n \in Nat
  PROVE  \E g : IsWidening(base, s, n, g)
<1> DEFINE Solves(g, k) == \A t \in SUBSET (1..k) :
                             g[t] = IF t = {} THEN base ELSE WidenTo(g[t \ {Max(t)}], s[Max(t)])
           Done == {k \in Nat : \E g : Solves(g, k)}
<1>1. 0 \in Done
  <2>1. \A t \in SUBSET (1..0) : t = {}
    OBVIOUS
  <2>2. Solves([t \in {{}} |-> base], 0)
    BY <2>1
  <2> HIDE DEF Solves
  <2> QED
    BY <2>2
<1>2. ASSUME NEW k \in Nat, k \in Done PROVE k + 1 \in Done
  <2>1. PICK g : Solves(g, k)
    BY <1>2
  <2> DEFINE more == [t \in SUBSET (1..(k+1)) |-> IF k + 1 \in t THEN WidenTo(g[t \ {k+1}], s[k+1]) ELSE g[t]]
  <2>2. ASSUME NEW t \in SUBSET (1..(k+1)), k + 1 \in t
        PROVE  more[t] = WidenTo(more[t \ {Max(t)}], s[Max(t)])
    <3>1. Max(t) = k + 1
      <4>1. \A y \in t : k + 1 >= y /\ y \in Int
        OBVIOUS
      <4>2. \A x \in t : (\A y \in t : x >= y) => x = k + 1
        BY <2>2, <4>1
      <4> QED
        BY <2>2, <4>1, <4>2 DEF Max
    <3>2. t \ {k+1} \in SUBSET (1..(k+1)) /\ k + 1 \notin t \ {k+1}
      OBVIOUS
    <3> QED
      BY <2>2, <3>1, <3>2
  <2>3. ASSUME NEW t \in SUBSET (1..(k+1)), k + 1 \notin t
        PROVE  more[t] = IF t = {} THEN base ELSE WidenTo(more[t \ {Max(t)}], s[Max(t)])
    <3>1. t \in SUBSET (1..k)
      BY <2>3
    <3>2. t \ {Max(t)} \in SUBSET (1..(k+1)) /\ k + 1 \notin t \ {Max(t)}
      BY <2>3
    <3> QED
      BY <2>1, <2>3, <3>1, <3>2
  <2>4. Solves(more, k + 1)
    <3> HIDE DEF more
    <3> QED
      BY <2>2, <2>3
  <2> HIDE DEF more, Solves
  <2> QED
    BY <2>4
<1> HIDE DEF Done
<1>3. Nat \subseteq Done
  BY <1>1, <1>2, Induction
<1>4. PICK g : Solves(g, n)
  BY <1>3 DEF Done
<1> DEFINE h == [t \in SUBSET (1..n) |-> g[t]]
<1>5. \A t \in SUBSET (1..n) : h[t] = IF t = {} THEN base ELSE WidenTo(h[t \ {Max(t)}], s[Max(t)])
  <2> SUFFICES ASSUME NEW t \in SUBSET (1..n)
               PROVE  h[t] = IF t = {} THEN base ELSE WidenTo(h[t \ {Max(t)}], s[Max(t)])
    OBVIOUS
  <2>1. t \ {Max(t)} \in SUBSET (1..n)
    OBVIOUS
  <2> QED
    BY <1>4, <2>1
<1>6. IsWidening(base, s, n, h)
  BY <1>5 DEF IsWidening
<1> HIDE DEF h
<1> QED
  BY <1>6

\* Its steps, prefix by prefix.
LEMMA WideningSteps ==
  ASSUME NEW base, NEW s, NEW n \in Nat, DOMAIN s = 1..n
  PROVE  \E h : /\ WidenedOver(base, s) = h[n] /\ h[0] = base
                /\ \A k \in 1..n : h[k] = WidenTo(h[k-1], s[k])
<1> DEFINE iter == CHOOSE g : IsWidening(base, s, n, g)
           h == [k \in 0..n |-> iter[1..k]]
<1>1. WidenedOver(base, s) = iter[1..n]
  BY DEF WidenedOver, FoldLeft, MapThenFoldSet, IsWidening
<1>2. IsWidening(base, s, n, iter)
  BY WideningExists
<1> HIDE DEF iter
<1>3. \A t \in SUBSET (1..n) : iter[t] = IF t = {} THEN base ELSE WidenTo(iter[t \ {Max(t)}], s[Max(t)])
  <2>1. iter = [t \in SUBSET (1..n) |-> IF t = {} THEN base ELSE WidenTo(iter[t \ {Max(t)}], s[Max(t)])]
    BY <1>2 DEF IsWidening
  <2> QED
    BY <2>1, Zenon
<1>4. h[0] = base
  <2>1. 1..0 \in SUBSET (1..n) /\ 1..0 = {} /\ 0 \in 0..n
    OBVIOUS
  <2> QED
    BY <1>3, <2>1
<1>5. ASSUME NEW k \in 1..n PROVE h[k] = WidenTo(h[k-1], s[k])
  <2>1. 1..k \in SUBSET (1..n) /\ 1..k # {} /\ k \in 0..n /\ k - 1 \in 0..n
    <3>1. k \in 1..k /\ \A y \in 1..k : y \in 1..n
      OBVIOUS
    <3> QED
      BY <3>1
  <2>2. Max(1..k) = k
    <3>1. k \in 1..k /\ \A y \in 1..k : k >= y
      OBVIOUS
    <3>2. \A x \in 1..k : (\A y \in 1..k : x >= y) => x = k
      BY <3>1
    <3> QED
      BY <3>1, <3>2 DEF Max
  <2>3. (1..k) \ {k} = 1..(k-1)
    OBVIOUS
  <2>4. iter[1..k] = WidenTo(iter[(1..k) \ {k}], s[k])
    BY <1>3, <2>1, <2>2
  <2> QED
    BY <2>1, <2>3, <2>4
<1>6. h[n] = iter[1..n]
  OBVIOUS
<1> HIDE DEF h
<1> QED
  BY <1>1, <1>4, <1>5, <1>6

\* f is the first of the prefixes and c what it is widened to: it covers the first k of
\* the rest, and no longer prefix around f does.
IsCover(f, rest, k, c) ==
  \E l \in 0..f.len :
    /\ c = Around(f, l)
    /\ \A j \in 1..k : IsSubnetOf(rest[j], c)
    /\ \A m \in (l+1)..f.len : \E j \in 1..k : ~IsSubnetOf(rest[j], Around(f, m))

\* A fold over prefixes of one version widens the first to the longest that covers all.
LEMMA FoldCovers ==
  ASSUME NEW f, IsCanonical(f), NEW rest, NEW n \in Nat, DOMAIN rest = 1..n,
         \A k \in 1..n : IsCanonical(rest[k]) /\ rest[k].v = f.v
  PROVE  IsCover(f, rest, n, WidenedOver(f, rest))
<1>1. PICK h : /\ WidenedOver(f, rest) = h[n] /\ h[0] = f
               /\ \A k \in 1..n : h[k] = WidenTo(h[k-1], rest[k])
  BY WideningSteps
<1> DEFINE Done == {k \in Nat : k <= n => IsCover(f, rest, k, h[k])}
<1>2. f.len \in 0..AddressBits /\ f.len \in 0..f.len
  BY AddressBitsAssumption DEF IsCanonical
<1>3. 0 \in Done
  <2>1. f = Around(f, f.len)
    BY <1>2, Surrounding
  <2>2. (f.len+1)..f.len = {} /\ 1..0 = {}
    BY <1>2
  <2> QED
    BY <1>1, <1>2, <2>1, <2>2 DEF IsCover
<1>4. ASSUME NEW k \in Nat, k \in Done PROVE k + 1 \in Done
  <2> SUFFICES ASSUME k + 1 <= n PROVE IsCover(f, rest, k + 1, h[k+1])
    OBVIOUS
  <2>1. IsCover(f, rest, k, h[k]) /\ k + 1 \in 1..n /\ (k + 1) - 1 = k
    BY <1>4
  <2>2. PICK l \in 0..f.len :
          /\ h[k] = Around(f, l)
          /\ \A j \in 1..k : IsSubnetOf(rest[j], Around(f, l))
          /\ \A m \in (l+1)..f.len : \E j \in 1..k : ~IsSubnetOf(rest[j], Around(f, m))
    BY <2>1 DEF IsCover
  <2> DEFINE x == rest[k+1]
  <2>3. IsCanonical(x) /\ x.v = f.v /\ h[k+1] = WidenTo(Around(f, l), x)
    BY <1>1, <2>1, <2>2
  <2>4. PICK m \in 0..l : /\ h[k+1] = Around(f, m)
                          /\ IsSubnetOf(x, Around(f, m))
                          /\ \A i \in (m+1)..l : ~IsSubnetOf(x, Around(f, i))
    BY <2>3, WidenedOnce
  <2>5. ASSUME NEW j \in 1..(k+1) PROVE IsSubnetOf(rest[j], h[k+1])
    <3>1. CASE j = k + 1
      BY <2>4, <3>1
    <3>2. CASE j \in 1..k
      <4>1. IsSubnetOf(rest[j], Around(f, l))
        BY <2>2, <3>2
      <4>2. l \in 0..AddressBits /\ m \in 0..l /\ m \in 0..f.len /\ m <= l
        BY <1>2, AddressBitsAssumption
      <4>3. Around(Around(f, l), m) = Around(f, m) /\ IsCanonical(Around(f, l)) /\ Around(f, l).len = l
        BY <4>2, Surrounding
      <4>4. IsSubnetOf(Around(f, l), Around(f, m)) /\ IsCanonical(Around(f, m))
        BY <4>2, <4>3, Surrounding
      <4>5. IsCanonical(rest[j])
        BY <2>1, <3>2
      <4> QED
        BY <2>4, <4>1, <4>3, <4>4, <4>5, Nesting
    <3> QED
      BY <3>1, <3>2
  <2>6. ASSUME NEW i \in (m+1)..f.len PROVE \E j \in 1..(k+1) : ~IsSubnetOf(rest[j], Around(f, i))
    <3>1. CASE i <= l
      <4>1. i \in (m+1)..l /\ k + 1 \in 1..(k+1)
        BY <1>2, <3>1
      <4> QED
        BY <2>4, <4>1
    <3>2. CASE ~(i <= l)
      <4>1. i \in (l+1)..f.len
        BY <1>2, <3>2
      <4>2. PICK j \in 1..k : ~IsSubnetOf(rest[j], Around(f, i))
        BY <2>2, <4>1
      <4>3. j \in 1..(k+1)
        OBVIOUS
      <4> QED
        BY <4>2, <4>3
    <3> QED
      BY <3>1, <3>2
  <2>7. m \in 0..f.len
    BY <1>2
  <2> QED
    BY <2>4, <2>5, <2>6, <2>7 DEF IsCover
<1> HIDE DEF Done
<1>5. Nat \subseteq Done
  BY <1>3, <1>4, Induction
<1>6. n \in Done /\ n <= n
  BY <1>5
<1> QED
  BY <1>1, <1>6 DEF Done

\* The covering prefix of a list: it covers the IPv4 prefixes, and no longer one does.
LEMMA SmallestSupernet ==
  ASSUME NEW s, IsList(s), \A x \in ToSet(s) : IsCanonical(x), NEW own, own = {x \in ToSet(s) : x.v = 4}, own # {}
  PROVE  LET c == CoveringSupernet(s)
         IN  /\ c.len \in 0..AddressBits
             /\ \A x \in own : IsSubnetOf(x, c)
             /\ \A m \in (c.len+1)..AddressBits : \A t \in own : \E x \in own : ~IsSubnetOf(x, SubnetSpec(4, t.net, m))
<1> DEFINE ipv4 == Only(s, own)
           f == ipv4[1]
           rest == Tail(ipv4)
           n == Len(rest)
           c == CoveringSupernet(s)
<1>1. c = IF ipv4 = <<>> THEN NoCover ELSE WidenedOver(f, rest)
  BY DEF CoveringSupernet, WidenedOver
<1>2. IsList(ipv4) /\ ToSet(ipv4) = own
  BY SelectedList
<1> HIDE DEF ipv4
<1>3. /\ Len(ipv4) \in Nat \ {0} /\ DOMAIN ipv4 = 1..Len(ipv4) /\ ipv4 # <<>>
      /\ \A x : x \in own <=> \E k \in 1..Len(ipv4) : ipv4[k] = x
  BY <1>2, ListIs
<1>4. n = Len(ipv4) - 1 /\ DOMAIN rest = 1..n /\ n \in Nat /\ \A k \in 1..n : rest[k] = ipv4[k+1]
  <2>1. ipv4 \in Seq(own) /\ ipv4 # <<>>
    BY <1>2, <1>3 DEF IsList
  <2>2. rest \in Seq(own) /\ n = Len(ipv4) - 1 /\ \A k \in 1..n : rest[k] = ipv4[k+1]
    BY <2>1, HeadTailProperties
  <2>3. DOMAIN rest = 1..n /\ n \in Nat
    BY <2>2, LenProperties
  <2> QED
    BY <2>2, <2>3
<1>5. f \in own /\ \A k \in 1..n : rest[k] \in own
  <2>1. 1 \in 1..Len(ipv4) /\ \A k \in 1..n : k + 1 \in 1..Len(ipv4)
    BY <1>3, <1>4
  <2> HIDE DEF f, rest, n
  <2> QED
    BY <1>3, <1>4, <2>1 DEF f
<1>6. \A x \in own : x = f \/ \E k \in 1..n : x = rest[k]
  <2> SUFFICES ASSUME NEW j \in 1..Len(ipv4) PROVE ipv4[j] = f \/ \E k \in 1..n : ipv4[j] = rest[k]
    BY <1>3
  <2>1. CASE j = 1
    BY <2>1
  <2>2. CASE j # 1
    <3>1. j - 1 \in 1..n /\ (j - 1) + 1 = j
      BY <1>3, <1>4, <2>2
    <3> HIDE DEF rest, n
    <3> QED
      BY <1>4, <3>1
  <2> QED
    BY <2>1, <2>2
<1> HIDE DEF f, rest, n, c
<1>7. \A x \in own : IsCanonical(x) /\ x.v = 4
  OBVIOUS
<1>8. IsCover(f, rest, n, c)
  BY <1>1, <1>3, <1>4, <1>5, <1>7, FoldCovers
<1>9. PICK l \in 0..f.len :
        /\ c = Around(f, l)
        /\ \A j \in 1..n : IsSubnetOf(rest[j], c)
        /\ \A m \in (l+1)..f.len : \E j \in 1..n : ~IsSubnetOf(rest[j], Around(f, m))
  BY <1>8 DEF IsCover
<1>10. IsCanonical(f) /\ f.v = 4 /\ f.len \in 0..AddressBits
  BY <1>5, <1>7 DEF IsCanonical
<1>11. c.len = l /\ l \in 0..AddressBits /\ IsSubnetOf(f, c)
  BY <1>9, <1>10, Surrounding, AddressBitsAssumption
<1>12. ASSUME NEW m \in (c.len+1)..AddressBits, NEW t \in own, \A x \in own : IsSubnetOf(x, SubnetSpec(4, t.net, m))
       PROVE  FALSE
  <2> DEFINE u == SubnetSpec(4, t.net, m)
  <2>1. m \in 0..AddressBits /\ t.net \in Nat /\ t.net < SizeOf(0) /\ m > l
    BY <1>7, <1>11, FirstAddress, AddressBitsAssumption
  <2>2. IsCanonical(u) /\ u.len = m /\ u.v = 4
    BY <2>1, Canonical
  <2>3. \A x \in own : IsSubnetOf(x, u)
    BY <1>12
  <2> HIDE DEF u
  <2>4. m <= f.len /\ IsIn(f.net, u)
    BY <1>5, <1>10, <2>2, <2>3, Containing
  <2>5. m \in 0..f.len /\ m \in (l+1)..f.len
    BY <1>10, <1>11, <2>1, <2>4
  <2>6. IsCanonical(Around(f, m)) /\ Around(f, m).len = m /\ Around(f, m).v = 4 /\ IsSubnetOf(f, Around(f, m))
    BY <1>10, <2>5, Surrounding
  <2>7. IsIn(f.net, Around(f, m)) /\ f.net \in Nat
    BY <1>10, <2>6, Containing, FirstAddress
  <2>8. u = Around(f, m)
    BY <2>2, <2>4, <2>6, <2>7, SamePrefix
  <2> QED
    BY <1>5, <1>9, <2>3, <2>5, <2>8
<1>13. \A x \in own : IsSubnetOf(x, c)
  BY <1>6, <1>9, <1>11
<1> QED
  BY <1>11, <1>12, <1>13 DEF c
-----------------------------------------------------------------------------
(* Segments of a drawing                                                   *)
\* The prefixes of interfaces.
PrefixSet == [v : {4, 6}, net : Int, len : 0..AddressBits]

\* The prefix of an address is one.
LEMMA SpecIsPrefix ==
  ASSUME NEW v \in {4, 6}, NEW address \in Nat, NEW len \in 0..AddressBits
  PROVE  SubnetSpec(v, address, len) \in PrefixSet
<1>1. AddressBits - len \in Nat
  BY AddressBitsAssumption
<1>2. SizeOf(len) \in Nat \ {0}
  BY <1>1, PowerOfTwo DEF SizeOf
<1>3. address % SizeOf(len) \in Int
  BY <1>2
<1> QED
  BY <1>3 DEF SubnetSpec, PrefixSet

\* The prefix of an interface is that of its first complete address.
LEMMA FirstPrefix ==
  ASSUME NEW a, IsDrawing(a), NEW i \in ToSet(a.interfaces), SubnetsOf(i) # <<>>
  PROVE  SubnetsOf(i)[1] \in PrefixSet /\ IsCanonical(SubnetsOf(i)[1])
<1> DEFINE complete == Only(i.addresses, {x \in ToSet(i.addresses) : IsComplete(x)})
           s == [k \in DOMAIN complete |-> SubnetSpec(complete[k].v, complete[k].address, complete[k].len)]
<1>1. SubnetsOf(i) = s
  BY DEF SubnetsOf, PrefixesOf
<1>2. IsList(complete) /\ ToSet(complete) = {x \in ToSet(i.addresses) : IsComplete(x)}
  BY SelectedList DEF IsDrawing
<1>3. /\ Len(complete) \in Nat /\ DOMAIN complete = 1..Len(complete)
      /\ \A x : x \in ToSet(complete) <=> \E k \in 1..Len(complete) : complete[k] = x
  BY <1>2, ListIs
<1>4. Len(complete) # 0
  <2>1. Len(s) = Len(complete) /\ IsList(s)
    BY <1>3, ListOf
  <2>2. s # <<>> => Len(s) # 0
    BY <2>1, ListIs
  <2> QED
    BY <1>1, <2>1, <2>2
<1>5. /\ s[1] = SubnetSpec(complete[1].v, complete[1].address, complete[1].len)
      /\ complete[1] \in ToSet(complete)
  <2>1. 1 \in 1..Len(complete) /\ 1 \in DOMAIN complete
    BY <1>3, <1>4
  <2>2. complete[1] \in ToSet(complete)
    BY <1>3, <2>1
  <2> HIDE DEF complete
  <2> QED
    BY <2>1, <2>2
<1>6. /\ complete[1].v \in {4, 6} /\ complete[1].address \in Nat /\ complete[1].address < SizeOf(0)
      /\ complete[1].len \in 0..AddressBits
  <2>1. /\ complete[1].v \in {4, 6} /\ complete[1].address \in 0..(SizeOf(0) - 1)
        /\ complete[1].len \in 0..AddressBits
    BY <1>2, <1>5 DEF IsDrawing, IsComplete
  <2>2. SizeOf(0) \in Nat
    BY Sizes, AddressBitsAssumption
  <2> HIDE DEF complete
  <2> QED
    BY <2>1, <2>2
<1> HIDE DEF complete
<1> QED
  BY <1>1, <1>5, <1>6, SpecIsPrefix, Canonical

\* A drawing has finitely many prefixes.
LEMMA KeysOf ==
  ASSUME NEW a, IsDrawing(a)
  PROVE  /\ IsFiniteSet(SegmentKeys(a)) /\ SegmentKeys(a) \subseteq PrefixSet
         /\ \A key \in SegmentKeys(a) : IsCanonical(key)
<1> DEFINE having == {x \in ToSet(a.interfaces) : SubnetsOf(x) # <<>>}
           first == [i \in having |-> SubnetsOf(i)[1]]
<1>1. IsFiniteSet(ToSet(a.interfaces))
  BY Elements DEF IsDrawing, IsList
<1>2. IsFiniteSet(having)
  BY <1>1, FS_Subset
<1>3. first \in Surjection(having, SegmentKeys(a))
  BY DEF Surjection, SegmentKeys
<1>4. IsFiniteSet(SegmentKeys(a))
  BY <1>2, <1>3, FS_Surjection
<1>5. SegmentKeys(a) \subseteq PrefixSet /\ \A key \in SegmentKeys(a) : IsCanonical(key)
  BY FirstPrefix DEF SegmentKeys
<1> QED
  BY <1>4, <1>5

\* One segment for every prefix, and no two for one.
LEMMA SegmentsOf ==
  ASSUME NEW a, IsDrawing(a)
  PROVE  LET segments == DiscoverSegments(a)
         IN  /\ IsList(segments)
             /\ \A key : key \in SegmentKeys(a) <=> \E s \in ToSet(segments) : s.subnet = key
             /\ \A s, t \in ToSet(segments) : s.subnet = t.subnet => s = t
             /\ Simple(segments)
<1> DEFINE SK == SegmentKeys(a)
           R == {p \in SK \X SK : Precedes(p[1], p[2])}
           keys == SortedBy(SK, R)
           segments == DiscoverSegments(a)
<1>1. \A x, y : <<x, y>> \in R <=> x \in SK /\ y \in SK /\ Precedes(x, y)
  OBVIOUS
<1>2. IsFiniteSet(SK) /\ SK \subseteq PrefixSet
  BY KeysOf
<1>3. \A x \in PrefixSet : /\ x = [v |-> x.v, net |-> x.net, len |-> x.len]
                          /\ x.v \in Int /\ x.net \in Int /\ x.len \in Int
  BY AddressBitsAssumption DEF PrefixSet
<1> DEFINE segment == [k \in DOMAIN keys |-> segments[k]]
<1>4. /\ DOMAIN segments = DOMAIN keys
      /\ \A k \in DOMAIN keys : segments[k].subnet = keys[k]
      /\ segments = segment
  BY DEF DiscoverSegments, InOrder, Segment
<1> HIDE DEF R, SK, segments
<1>5. \A x \in SK : <<x, x>> \notin R
  BY <1>1, <1>2, <1>3 DEF Precedes
<1>6. ASSUME NEW x \in SK, NEW y \in SK, x # y PROVE <<x, y>> \in R \/ <<y, x>> \in R
  <2>1. x.v # y.v \/ x.net # y.net \/ x.len # y.len
    BY <1>2, <1>3, <1>6
  <2>2. x.v \in Int /\ x.net \in Int /\ x.len \in Int /\ y.v \in Int /\ y.net \in Int /\ y.len \in Int
    BY <1>2, <1>3
  <2> QED
    BY <1>1, <2>1, <2>2 DEF Precedes
<1>7. ASSUME NEW x \in SK, NEW y \in SK, NEW z \in SK, <<x, y>> \in R, <<y, z>> \in R PROVE <<x, z>> \in R
  <2>1. Precedes(x, y) /\ Precedes(y, z)
    BY <1>1, <1>7
  <2>2. /\ x.v \in Int /\ x.net \in Int /\ x.len \in Int /\ y.v \in Int /\ y.net \in Int /\ y.len \in Int
        /\ z.v \in Int /\ z.net \in Int /\ z.len \in Int
    BY <1>2, <1>3
  <2> QED
    BY <1>1, <2>1, <2>2 DEF Precedes
<1>8. keys \in Seq(SK) /\ ToSet(keys) = SK /\ Simple(keys)
  BY <1>2, <1>5, <1>6, <1>7, Sorted
<1> HIDE DEF keys
<1>9. Len(keys) \in Nat /\ DOMAIN keys = 1..Len(keys) /\ \A x : x \in SK <=> \E k \in 1..Len(keys) : keys[k] = x
  BY <1>8, Elements, LenProperties
<1>10. /\ IsList(segments)
       /\ DOMAIN segments = 1..Len(keys)
       /\ \A x : x \in ToSet(segments) <=> \E k \in 1..Len(keys) : x = segments[k]
  BY <1>4, <1>9, ListOf
<1>11. \A key : key \in SK <=> \E s \in ToSet(segments) : s.subnet = key
  <2>1. \A k \in 1..Len(keys) : segments[k].subnet = keys[k]
    BY <1>4, <1>9
  <2>2. ASSUME NEW key \in SK PROVE \E s \in ToSet(segments) : s.subnet = key
    BY <1>9, <1>10, <2>1, <2>2
  <2>3. ASSUME NEW s \in ToSet(segments) PROVE s.subnet \in SK
    BY <1>9, <1>10, <2>1, <2>3
  <2> QED
    BY <2>2, <2>3
<1>12. ASSUME NEW j \in 1..Len(keys), NEW k \in 1..Len(keys), segments[j].subnet = segments[k].subnet
       PROVE  j = k
  BY <1>4, <1>8, <1>9, <1>12 DEF Simple
<1>13. \A s, t \in ToSet(segments) : s.subnet = t.subnet => s = t
  BY <1>10, <1>12
<1>14. Simple(segments)
  BY <1>10, <1>12 DEF Simple
<1> QED
  BY <1>10, <1>11, <1>13, <1>14 DEF segments, SK

-----------------------------------------------------------------------------
(* Domains, networks and subnets                                           *)
LEMMA Domains ==
  ASSUME NEW a, IsDrawing(a)
  PROVE  /\ IsFiniteSet(DomainIds(a)) /\ DomainIds(a) \subseteq Nat /\ DomainIds(a) # {}
         /\ RouterIds(a) \subseteq Nat \ {0}
         /\ RouterIds(a) # {} => DomainIds(a) = RouterIds(a)
<1> DEFINE routers == {x \in ToSet(a.nodes) : Forwards(x)}
           idOf == [n \in routers |-> n.id]
<1>1. IsFiniteSet(routers)
  BY Elements, FS_Subset DEF IsDrawing, IsList
<1>2. idOf \in Surjection(routers, RouterIds(a))
  BY DEF Surjection, RouterIds
<1>3. IsFiniteSet(RouterIds(a))
  BY <1>1, <1>2, FS_Surjection
<1>4. RouterIds(a) \subseteq Nat \ {0}
  BY DEF RouterIds, IsDrawing
<1>5. IsFiniteSet({Implicit}) /\ Implicit \in Nat
  BY FS_Singleton DEF Implicit
<1> QED
  BY <1>3, <1>4, <1>5 DEF DomainIds

\* Every segment belongs to a domain.
LEMMA OwnerIsDomain ==
  ASSUME NEW a, IsDrawing(a), NEW s
  PROVE  OwnerOf(a, s) \in DomainIds(a)
<1> DEFINE owners == s.nodes \cap RouterIds(a)
           S == IF owners # {} THEN owners ELSE DomainIds(a)
<1>1. S \in SUBSET Nat /\ S # {} /\ S \subseteq DomainIds(a)
  BY Domains
<1>2. OwnerOf(a, s) = Smallest(S)
  BY DEF OwnerOf
<1> HIDE DEF S
<1>3. \E n \in S : \A m \in S : n <= m
  BY <1>1, LeastNumber
<1>4. Smallest(S) \in S
  BY <1>3 DEF Smallest
<1> QED
  BY <1>1, <1>2, <1>4

\* What a domain owns of a list of segments.
LEMMA Owned ==
  ASSUME NEW a, NEW segments, IsList(segments), NEW d
  PROVE  /\ IsList(OwnedBy(a, segments, d))
         /\ \A s : s \in ToSet(OwnedBy(a, segments, d)) <=>
                     s \in ToSet(segments) /\ ~s.transport /\ OwnerOf(a, s) = d
         /\ Simple(segments) => Simple(OwnedBy(a, segments, d))
  BY SelectedList DEF OwnedBy

\* A network has a prefix only if its domain owns a segment.
LEMMA CoveredOwns ==
  ASSUME NEW a, NEW segments, IsList(segments), NEW d \in CoveredDomains(a, segments)
  PROVE  ToSet(OwnedBy(a, segments, d)) # {}
<1> DEFINE owned == OwnedBy(a, segments, d)
           cidrs == CidrsOf(owned)
           ipv4 == Only(cidrs, {s \in ToSet(cidrs) : s.v = 4})
<1>1. CoveringSupernet(cidrs) # NoCover
  BY DEF CoveredDomains, NetworkOf
<1>2. ipv4 # <<>>
  BY <1>1 DEF CoveringSupernet
<1>3. IsList(owned)
  BY Owned
<1>4. Len(owned) \in Nat /\ DOMAIN owned = 1..Len(owned) /\ (owned = <<>> <=> ToSet(owned) = {})
      /\ \A x : x \in ToSet(owned) <=> \E k \in 1..Len(owned) : owned[k] = x
  BY <1>3, ListIs
<1> HIDE DEF owned
<1>5. cidrs = [k \in 1..Len(owned) |-> cidrs[k]]
  BY <1>4 DEF CidrsOf
<1> HIDE DEF cidrs
<1>6. IsList(cidrs) /\ \A x : x \in ToSet(cidrs) <=> \E k \in 1..Len(owned) : x = cidrs[k]
  BY <1>4, <1>5, ListOf
<1>7. IsList(ipv4) /\ ToSet(ipv4) \subseteq ToSet(cidrs)
  BY <1>6, SelectedList
<1>8. ToSet(ipv4) # {}
  <2> HIDE DEF ipv4
  <2> QED
    BY <1>2, <1>7, ListIs
<1>9. \E k \in 1..Len(owned) : TRUE
  BY <1>6, <1>7, <1>8
<1> QED
  BY <1>4, <1>9 DEF owned

\* A network for every covered domain, and no two for one.
LEMMA NetworksMade ==
  ASSUME NEW a, IsDrawing(a), NEW segments
  PROVE  LET networks == Networks(a, segments)
         IN  /\ IsList(networks)
             /\ \A x : x \in ToSet(networks) <=> \E d \in CoveredDomains(a, segments) : x = NetworkOf(a, segments, d)
             /\ \A j, k \in DOMAIN networks : networks[j].domain = networks[k].domain => j = k
<1> DEFINE S == CoveredDomains(a, segments)
           R == {p \in S \X S : p[1] < p[2]}
           domains == SortedBy(S, R)
           networks == Networks(a, segments)
<1>1. IsFiniteSet(S) /\ S \subseteq Nat
  BY Domains, FS_Subset DEF CoveredDomains
<1>2. \A x, y : <<x, y>> \in R <=> x \in S /\ y \in S /\ x < y
  OBVIOUS
<1>3. networks = [k \in DOMAIN domains |-> NetworkOf(a, segments, domains[k])]
  BY DEF Networks, Ascending
<1> HIDE DEF S, R, networks
<1>4. \A x \in S : <<x, x>> \notin R
  BY <1>1, <1>2
<1>5. \A x, y \in S : x # y => <<x, y>> \in R \/ <<y, x>> \in R
  BY <1>1, <1>2
<1>6. ASSUME NEW x \in S, NEW y \in S, NEW z \in S, <<x, y>> \in R, <<y, z>> \in R PROVE <<x, z>> \in R
  BY <1>1, <1>2, <1>6
<1>7. domains \in Seq(S) /\ ToSet(domains) = S /\ Simple(domains)
  BY <1>1, <1>4, <1>5, <1>6, Sorted
<1> HIDE DEF domains
<1>8. /\ Len(domains) \in Nat /\ DOMAIN domains = 1..Len(domains)
      /\ \A x : x \in S <=> \E k \in 1..Len(domains) : domains[k] = x
  BY <1>7, Elements, LenProperties
<1>9. networks = [k \in 1..Len(domains) |-> networks[k]]
      /\ \A k \in 1..Len(domains) : networks[k] = NetworkOf(a, segments, domains[k])
  BY <1>3, <1>8
<1>10. /\ IsList(networks) /\ DOMAIN networks = 1..Len(domains)
       /\ \A x : x \in ToSet(networks) <=> \E k \in 1..Len(domains) : x = networks[k]
  BY <1>8, <1>9, ListOf
<1>11. \A x : x \in ToSet(networks) <=> \E d \in S : x = NetworkOf(a, segments, d)
  BY <1>8, <1>9, <1>10
<1>12. ASSUME NEW j \in DOMAIN networks, NEW k \in DOMAIN networks, networks[j].domain = networks[k].domain
       PROVE  j = k
  <2>1. \A d : NetworkOf(a, segments, d).domain = d
    BY DEF NetworkOf
  <2>2. domains[j] = domains[k]
    BY <1>9, <1>10, <1>12, <2>1
  <2> QED
    BY <1>7, <1>8, <1>10, <2>2 DEF Simple
<1> QED
  BY <1>10, <1>11, <1>12 DEF networks, S

\* What a subnet is made from.
LEMMA SubnetFields ==
  ASSUME NEW n, NEW s
  PROVE  /\ SubnetOf(n, s).id = <<"sn", PrefixSlug(s.subnet)>> /\ SubnetOf(n, s).network = n.id
         /\ SubnetOf(n, s).cidr = s.subnet
  BY DEF SubnetOf

\* x is the subnet network n has for a segment of its domain.
IsSubnetMade(a, segments, n, x) ==
  \E s \in ToSet(OwnedBy(a, segments, n.domain)) : x = SubnetOf(n, s)

\* A subnet for every segment of every network; a prefix is the subnet of one network
\* only, so no two subnets have one id unless their prefixes have one slug.
LEMMA SubnetsMade ==
  ASSUME NEW a, IsDrawing(a), NEW segments, segments = DiscoverSegments(a),
         NEW networks, networks = Networks(a, segments)
  PROVE  LET subnets == CloudSubnets(a, segments, networks)
         IN  /\ IsList(subnets) /\ Simple(subnets)
             /\ \A x : x \in ToSet(subnets) <=> \E n \in ToSet(networks) : IsSubnetMade(a, segments, n, x)
             /\ ~SubnetsCollide(a) => \A x, y \in ToSet(subnets) : x.id = y.id => x = y
<1> DEFINE subnets == CloudSubnets(a, segments, networks)
           owned(k) == OwnedBy(a, segments, networks[k].domain)
           ss == [k \in DOMAIN networks |-> [j \in DOMAIN owned(k) |-> SubnetOf(networks[k], owned(k)[j])]]
           n == Len(networks)
<1>1. /\ IsList(segments) /\ Simple(segments)
      /\ \A s, t \in ToSet(segments) : s.subnet = t.subnet => s = t
  BY SegmentsOf
<1>2. /\ IsList(networks)
      /\ \A j, k \in DOMAIN networks : networks[j].domain = networks[k].domain => j = k
  BY NetworksMade
<1>3. n \in Nat /\ DOMAIN networks = 1..n /\ \A x : x \in ToSet(networks) <=> \E k \in 1..n : networks[k] = x
  BY <1>2, ListIs
<1>4. subnets = FlattenSeq(ss)
  BY DEF CloudSubnets
<1>5. ss = [k \in 1..n |-> ss[k]]
      /\ \A k \in 1..n : ss[k] = [j \in DOMAIN owned(k) |-> SubnetOf(networks[k], owned(k)[j])]
  BY <1>3
<1> HIDE DEF ss, subnets
<1>6. ASSUME NEW k \in 1..n
      PROVE  /\ IsList(ss[k]) /\ Simple(ss[k])
             /\ \A x : x \in ToSet(ss[k]) <=> \E s \in ToSet(owned(k)) : x = SubnetOf(networks[k], s)
  <2> DEFINE mine == owned(k)
             m == Len(mine)
  <2>1. /\ IsList(mine) /\ Simple(mine) /\ ToSet(mine) \subseteq ToSet(segments)
    BY <1>1, Owned
  <2>2. m \in Nat /\ DOMAIN mine = 1..m /\ \A x : x \in ToSet(mine) <=> \E j \in 1..m : mine[j] = x
    BY <2>1, ListIs
  <2>3. ss[k] = [j \in 1..m |-> ss[k][j]] /\ \A j \in 1..m : ss[k][j] = SubnetOf(networks[k], mine[j])
    BY <1>5, <2>2
  <2> HIDE DEF mine
  <2>4. /\ IsList(ss[k]) /\ DOMAIN ss[k] = 1..m
        /\ \A x : x \in ToSet(ss[k]) <=> \E j \in 1..m : x = ss[k][j]
    BY <2>2, <2>3, ListOf
  <2>5. ASSUME NEW i \in 1..m, NEW j \in 1..m, ss[k][i] = ss[k][j] PROVE i = j
    <3>1. mine[i].subnet = mine[j].subnet
      BY <2>3, <2>5, SubnetFields
    <3>2. mine[i] = mine[j]
      BY <1>1, <2>1, <2>2, <3>1
    <3> QED
      BY <2>1, <2>2, <3>2 DEF Simple
  <2>6. \A x : x \in ToSet(ss[k]) <=> \E s \in ToSet(mine) : x = SubnetOf(networks[k], s)
    BY <2>2, <2>3, <2>4
  <2>7. Simple(ss[k])
    BY <2>4, <2>5 DEF Simple
  <2> QED
    BY <2>4, <2>6, <2>7 DEF mine
<1>7. \A k \in 1..n : \A x : x \in ToSet(ss[k]) <=> IsSubnetMade(a, segments, networks[k], x)
  BY <1>6 DEF IsSubnetMade
<1>8. ASSUME NEW j \in 1..n, NEW k \in 1..n, NEW x \in ToSet(ss[j]), NEW y \in ToSet(ss[k]),
             x.cidr = y.cidr \/ (~SubnetsCollide(a) /\ x.id = y.id)
      PROVE  j = k /\ x = y
  <2>1. IsSubnetMade(a, segments, networks[j], x) /\ IsSubnetMade(a, segments, networks[k], y)
    BY <1>7
  <2>2. PICK s \in ToSet(owned(j)) : x = SubnetOf(networks[j], s)
    BY <2>1 DEF IsSubnetMade
  <2>3. PICK t \in ToSet(owned(k)) : y = SubnetOf(networks[k], t)
    BY <2>1 DEF IsSubnetMade
  <2>4. s.subnet = t.subnet \/ (~SubnetsCollide(a) /\ PrefixSlug(s.subnet) = PrefixSlug(t.subnet))
    BY <1>8, <2>2, <2>3, SubnetFields
  <2>5. /\ s \in ToSet(segments) /\ ~s.transport /\ OwnerOf(a, s) = networks[j].domain
        /\ t \in ToSet(segments) /\ ~t.transport /\ OwnerOf(a, t) = networks[k].domain
    BY <1>1, <2>2, <2>3, Owned DEF owned
  <2>6. s = t
    BY <1>1, <2>4, <2>5 DEF SubnetsCollide
  <2> QED
    BY <1>2, <1>3, <2>2, <2>3, <2>5, <2>6
<1> HIDE DEF owned
<1>9. /\ IsList(FlattenSeq(ss))
      /\ \A x : x \in ToSet(FlattenSeq(ss)) <=> \E k \in 1..n : x \in ToSet(ss[k])
      /\ Simple(FlattenSeq(ss))
  <2>1. \A k \in 1..n : IsList(ss[k]) /\ Simple(ss[k])
    BY <1>6
  <2>2. \A j, k \in 1..n : ToSet(ss[j]) \cap ToSet(ss[k]) # {} => j = k
    BY <1>8
  <2> QED
    BY <1>3, <1>5, <2>1, <2>2, FlattenedList
<1>10. \A x : x \in ToSet(subnets) <=> \E m \in ToSet(networks) : IsSubnetMade(a, segments, m, x)
  <2> SUFFICES ASSUME NEW x
               PROVE  x \in ToSet(subnets) <=> \E m \in ToSet(networks) : IsSubnetMade(a, segments, m, x)
    OBVIOUS
  <2>1. x \in ToSet(subnets) <=> \E k \in 1..n : IsSubnetMade(a, segments, networks[k], x)
    BY <1>7, <1>4, <1>9
  <2> HIDE DEF n
  <2> QED
    BY <1>3, <2>1
<1>11. ASSUME ~SubnetsCollide(a), NEW x \in ToSet(subnets), NEW y \in ToSet(subnets), x.id = y.id
       PROVE  x = y
  BY <1>4, <1>8, <1>9, <1>11
<1> QED
  BY <1>4, <1>9, <1>10, <1>11 DEF subnets

\* A segment of a drawing is a subnet, transport, or in a domain without a network.
LEMMA SegmentIsAccountedFor ==
  ASSUME NEW p, NEW a, IsDrawing(a), NEW mapped, NEW s \in ToSet(DiscoverSegments(a))
  PROVE  LET c == Assemble(p, a, mapped)
         IN  \/ \E x \in ToSet(c.subnets) : x.cidr = s.subnet
             \/ <<"transport", s.subnet>> \in c.unmapped
             \/ <<"domain", OwnerOf(a, s)>> \in c.unmapped
<1> DEFINE c == Assemble(p, a, mapped)
           segments == DiscoverSegments(a)
           d == OwnerOf(a, s)
<1>1. c.subnets = CloudSubnets(a, segments, c.networks) /\ c.networks = Networks(a, segments)
  BY DEF Assemble
<1>2. UnmappedTransport(segments) \subseteq c.unmapped /\ UncoveredDomains(a, segments) \subseteq c.unmapped
  BY DEF Assemble
<1> HIDE DEF c
<1>3. IsList(segments) /\ s \in ToSet(segments)
  BY SegmentsOf
<1> HIDE DEF segments
<1>4. CASE s.transport
  <2>1. s \in TransportSegments(segments)
    BY <1>3, <1>4 DEF TransportSegments
  <2>2. <<"transport", s.subnet>> \in UnmappedTransport(segments)
    BY <2>1 DEF UnmappedTransport
  <2> QED
    BY <1>2, <2>2 DEF c
<1>5. ASSUME ~s.transport
      PROVE  d \in DomainIds(a) /\ s \in ToSet(OwnedBy(a, segments, d)) /\ IsList(OwnedBy(a, segments, d))
  BY <1>3, <1>5, OwnerIsDomain, Owned
<1>6. CASE ~s.transport /\ d \notin CoveredDomains(a, segments)
  <2>1. OwnedBy(a, segments, d) # <<>>
    BY <1>5, <1>6, ListIs
  <2>2. <<"domain", d>> \in UncoveredDomains(a, segments)
    BY <1>5, <1>6, <2>1 DEF UncoveredDomains
  <2> QED
    BY <1>2, <2>2 DEF c
<1>7. CASE ~s.transport /\ d \in CoveredDomains(a, segments)
  <2> DEFINE n == NetworkOf(a, segments, d)
             x == SubnetOf(n, s)
  <2>1. n \in ToSet(c.networks) /\ n.domain = d
    BY <1>1, <1>7, NetworksMade DEF NetworkOf
  <2>2. x.cidr = s.subnet
    BY SubnetFields
  <2>3. IsSubnetMade(a, segments, n, x)
    <3> HIDE DEF n
    <3> QED
      BY <1>5, <1>7, <2>1 DEF IsSubnetMade
  <2> HIDE DEF n, x
  <2>4. x \in ToSet(c.subnets)
    BY <1>1, <2>1, <2>3, SubnetsMade DEF segments
  <2> QED
    BY <2>2, <2>4 DEF c
<1> QED
  BY <1>4, <1>6, <1>7

\* The first prefix of every interface, by which it joins a segment, is a subnet of
\* the cloud architecture or is named among the unmapped, in every reachable state.
THEOREM PrefixesAreKept == Spec => []NoPrefixIsLost
<1>1. TranslationInv => NoPrefixIsLost
  <2> SUFFICES ASSUME TranslationInv, Assembled, NEW k \in SegmentKeys(architecture)
               PROVE  \/ \E s \in ToSet(cloud.subnets) : s.cidr = k
                      \/ <<"transport", k>> \in cloud.unmapped
                      \/ \E s \in ToSet(DiscoverSegments(architecture)) :
                           s.subnet = k /\ <<"domain", OwnerOf(architecture, s)>> \in cloud.unmapped
    BY DEF NoPrefixIsLost
  <2>1. cloud = Assemble(plan, architecture, payload.unmapped) /\ IsDrawing(architecture)
    BY ArchitecturesAssumption DEF TranslationInv, PlanInv, Assembled
  <2>2. PICK s \in ToSet(DiscoverSegments(architecture)) : s.subnet = k
    BY <2>1, SegmentsOf
  <2> QED
    BY <2>1, <2>2, SegmentIsAccountedFor
<1> QED
  BY <1>1, TranslationInvariant, PTL

-----------------------------------------------------------------------------
(* Unique ids                                                              *)
\* Nothing comes twice in a list of resources, and no two have one id.
UniqueIds(s) == Simple(s) /\ \A x, y \in ToSet(s) : x.id = y.id => x = y

\* Two lists of resources, one after the other.
LEMMA JoinedIds ==
  ASSUME NEW s, IsList(s), NEW t, IsList(t)
  PROVE  /\ IsList(s \o t) /\ Ids(s \o t) = Ids(s) \cup Ids(t) /\ ToSet(s \o t) = ToSet(s) \cup ToSet(t)
         /\ UniqueIds(s) /\ UniqueIds(t) /\ Ids(s) \cap Ids(t) = {} => UniqueIds(s \o t)
<1>1. /\ IsList(s \o t) /\ ToSet(s \o t) = ToSet(s) \cup ToSet(t)
      /\ Simple(s) /\ Simple(t) /\ ToSet(s) \cap ToSet(t) = {} => Simple(s \o t)
  BY JoinedList
<1>2. \A x : x \in Ids(s \o t) <=> x \in Ids(s) \/ x \in Ids(t)
  BY <1>1, IdsOf
<1>3. ASSUME UniqueIds(s), UniqueIds(t), Ids(s) \cap Ids(t) = {} PROVE UniqueIds(s \o t)
  <2>1. \A x \in ToSet(s), y \in ToSet(t) : x.id # y.id
    BY <1>3, IdsOf
  <2>2. ToSet(s) \cap ToSet(t) = {}
    BY <2>1
  <2> QED
    BY <1>1, <1>3, <2>1, <2>2 DEF UniqueIds
<1> QED
  BY <1>1, <1>2, <1>3

\* As many ids as resources.
LEMMA CountedIds ==
  ASSUME NEW s, IsList(s), UniqueIds(s)
  PROVE  Cardinality(Ids(s)) = Len(s)
<1> DEFINE n == Len(s)
           idAt == [k \in 1..n |-> s[k].id]
<1>1. n \in Nat /\ DOMAIN s = 1..n /\ \A x : x \in ToSet(s) <=> \E k \in 1..n : s[k] = x
  BY ListIs
<1>2. \A j, k \in 1..n : s[j].id = s[k].id => j = k
  BY <1>1 DEF UniqueIds, Simple
<1>3. /\ idAt \in [1..n -> Ids(s)] /\ \A k \in 1..n : idAt[k] = s[k].id
      /\ \A x \in Ids(s) : \E k \in 1..n : idAt[k] = x
  BY <1>1 DEF Ids
<1> HIDE DEF idAt, n
<1>4. idAt \in Injection(1..n, Ids(s)) /\ idAt \in Surjection(1..n, Ids(s))
  BY <1>2, <1>3 DEF Injection, Surjection, IsInjective
<1>5. ExistsBijection(1..n, Ids(s))
  BY <1>4 DEF ExistsBijection, Bijection
<1> QED
  BY <1>1, <1>5, FS_CountingElements DEF n

\* An element under a condition, as a list.
LEMMA WhenIs ==
  ASSUME NEW condition, NEW element
  PROVE  LET s == When(condition, element)
         IN  /\ IsList(s) /\ UniqueIds(s)
             /\ \A x : x \in ToSet(s) <=> condition /\ x = element
<1> DEFINE one == <<element>>
<1>1. CASE condition
  <2>1. When(condition, element) = one
    BY <1>1 DEF When
  <2>2. ToSet(one) = {element} /\ Simple(one)
    BY DEF ToSet, Simple
  <2>3. one \in Seq({element})
    OBVIOUS
  <2> HIDE DEF one
  <2> QED
    BY <1>1, <2>1, <2>2, <2>3 DEF IsList, UniqueIds
<1>2. CASE ~condition
  <2>1. When(condition, element) = <<>>
    BY <1>2 DEF When
  <2>2. ToSet(<<>>) = {} /\ Simple(<<>>) /\ <<>> \in Seq({})
    BY DEF ToSet, Simple
  <2> QED
    BY <1>2, <2>1, <2>2 DEF IsList, UniqueIds
<1> QED
  BY <1>1, <1>2

\* The subnets of a network, as a list.
LEMMA SubnetsInIs ==
  ASSUME NEW subnets, IsList(subnets), NEW id
  PROVE  LET here == SubnetsIn(subnets, id)
         IN  /\ IsList(here) /\ \A x : x \in ToSet(here) <=> x \in ToSet(subnets) /\ x.network = id
             /\ here # <<>> => here[1] \in ToSet(subnets)
<1> DEFINE here == SubnetsIn(subnets, id)
<1>1. IsList(here) /\ ToSet(here) = ToSet(subnets) \cap {s \in ToSet(subnets) : s.network = id}
  BY SelectedList DEF SubnetsIn
<1> HIDE DEF here
<1>2. here # <<>> => here[1] \in ToSet(here)
  <2>1. /\ Len(here) \in Nat /\ DOMAIN here = 1..Len(here) /\ (here = <<>> <=> ToSet(here) = {})
        /\ \A x : x \in ToSet(here) <=> \E k \in 1..Len(here) : here[k] = x
    BY <1>1, ListIs
  <2>2. here # <<>> => 1 \in 1..Len(here)
    BY <2>1
  <2> QED
    BY <2>1, <2>2
<1> QED
  BY <1>1, <1>2 DEF here

-----------------------------------------------------------------------------
(* Gateways, route tables and groups                                       *)
\* The gateways one network has for itself.
OwnGateways(p, subnets, id) ==
  LET here == SubnetsIn(subnets, id)
  IN  IF here = <<>> THEN <<>>
      ELSE When(Mentions(p, "internet"), Gateway(<<"gw-igw", id>>, "internet", id, NoNetwork, <<>>))
           \o When(Mentions(p, "nat"), Gateway(<<"gw-nat", id>>, "nat", id, here[1].id, <<>>))

IsOwnGateway(subnets, id, g) ==
  \/ g = Gateway(<<"gw-igw", id>>, "internet", id, NoNetwork, <<>>)
  \/ \E x \in ToSet(subnets) : g = Gateway(<<"gw-nat", id>>, "nat", id, x.id, <<>>)

\* A gateway of a network, or one between all of them.
IsGatewayMade(networks, subnets, g) ==
  \/ \E n \in ToSet(networks) : IsOwnGateway(subnets, n.id, g)
  \/ \E ids : /\ \A id \in ToSet(ids) : id \in Ids(networks)
              /\ \/ g = Gateway(<<"gw-peering">>, "peering", NoNetwork, NoNetwork, ids) /\ Len(ids) = 2
                 \/ g = Gateway(<<"gw-transit">>, "transit", NoNetwork, NoNetwork, ids)

\* What a gateway is made from.
LEMMA GatewayFields ==
  ASSUME NEW id, NEW type, NEW network, NEW subnet, NEW peers
  PROVE  LET g == Gateway(id, type, network, subnet, peers)
         IN  g.id = id /\ g.type = type /\ g.network = network /\ g.subnet = subnet /\ g.peers = peers
  BY DEF Gateway

\* The own gateways of a network have different ids, and a NAT gateway is in a subnet.
LEMMA OwnGatewaysMade ==
  ASSUME NEW p, NEW subnets, IsList(subnets), NEW id
  PROVE  /\ IsList(OwnGateways(p, subnets, id)) /\ UniqueIds(OwnGateways(p, subnets, id))
         /\ \A g \in ToSet(OwnGateways(p, subnets, id)) : IsOwnGateway(subnets, id, g)
<1> DEFINE here == SubnetsIn(subnets, id)
           igw == Gateway(<<"gw-igw", id>>, "internet", id, NoNetwork, <<>>)
           nat == Gateway(<<"gw-nat", id>>, "nat", id, here[1].id, <<>>)
           first == When(Mentions(p, "internet"), igw)
           second == When(Mentions(p, "nat"), nat)
<1>1. CASE here = <<>>
  <2> DEFINE none == <<>>
  <2>1. OwnGateways(p, subnets, id) = none
    BY <1>1 DEF OwnGateways
  <2>2. ToSet(none) = {} /\ Simple(none) /\ none \in Seq({})
    BY DEF ToSet, Simple
  <2> HIDE DEF none
  <2> QED
    BY <2>1, <2>2 DEF IsList, UniqueIds
<1>2. CASE here # <<>>
  <2>1. OwnGateways(p, subnets, id) = first \o second
    BY <1>2 DEF OwnGateways
  <2>2. here[1] \in ToSet(subnets)
    BY <1>2, SubnetsInIs
  <2>3. igw.id = <<"gw-igw", id>> /\ nat.id = <<"gw-nat", id>>
    BY GatewayFields
  <2>4. IsOwnGateway(subnets, id, igw) /\ IsOwnGateway(subnets, id, nat)
    BY <2>2 DEF IsOwnGateway
  <2>5. <<"gw-igw", id>> # <<"gw-nat", id>>
    OBVIOUS
  <2> HIDE DEF igw, nat
  <2>6. /\ IsList(first) /\ UniqueIds(first) /\ \A x \in ToSet(first) : x = igw
        /\ IsList(second) /\ UniqueIds(second) /\ \A x \in ToSet(second) : x = nat
    BY WhenIs
  <2> HIDE DEF first, second
  <2>7. Ids(first) \cap Ids(second) = {}
    BY <2>3, <2>5, <2>6, IdsOf
  <2>8. /\ IsList(first \o second) /\ UniqueIds(first \o second)
        /\ ToSet(first \o second) = ToSet(first) \cup ToSet(second)
    BY <2>6, <2>7, JoinedIds
  <2> QED
    BY <2>1, <2>4, <2>6, <2>8
<1> QED
  BY <1>1, <1>2

\* All gateways: of a network, or between the networks; their ids differ when those
\* of the networks do.
LEMMA GatewaysMade ==
  ASSUME NEW p, NEW networks, IsList(networks), NEW subnets, IsList(subnets)
  PROVE  LET gateways == Gateways(p, networks, subnets)
         IN  /\ IsList(gateways)
             /\ \A g \in ToSet(gateways) : IsGatewayMade(networks, subnets, g)
             /\ UniqueIds(networks) => UniqueIds(gateways)
<1> DEFINE n == Len(networks)
           ids == [k \in DOMAIN networks |-> networks[k].id]
           ss == [k \in DOMAIN ids |-> OwnGateways(p, subnets, ids[k])]
           own == FlattenSeq(ss)
           peering == Gateway(<<"gw-peering">>, "peering", NoNetwork, NoNetwork, ids)
           transit == Gateway(<<"gw-transit">>, "transit", NoNetwork, NoNetwork, ids)
           second == When(Mentions(p, "peering") /\ n = 2, peering)
           third == When(Mentions(p, "transit") /\ n >= 2, transit)
<1>1. n \in Nat /\ DOMAIN networks = 1..n /\ \A x : x \in ToSet(networks) <=> \E k \in 1..n : networks[k] = x
  BY ListIs
<1>2. Gateways(p, networks, subnets) = (own \o second) \o third
  BY DEF Gateways, OwnGateways
<1>3. ids = [k \in 1..n |-> ids[k]] /\ \A k \in 1..n : ids[k] = networks[k].id
  BY <1>1
<1> HIDE DEF ids
<1>4. IsList(ids) /\ Len(ids) = n /\ DOMAIN ids = 1..n /\ \A x : x \in ToSet(ids) <=> \E k \in 1..n : x = ids[k]
  BY <1>1, <1>3, ListOf
<1>5. \A id \in ToSet(ids) : id \in Ids(networks)
  BY <1>1, <1>3, <1>4, IdsOf
<1>6. ss = [k \in 1..n |-> ss[k]] /\ \A k \in 1..n : ss[k] = OwnGateways(p, subnets, ids[k])
  BY <1>4
<1>7. peering.id = <<"gw-peering">> /\ transit.id = <<"gw-transit">>
  BY GatewayFields
<1>8. /\ n = 2 => IsGatewayMade(networks, subnets, peering)
      /\ IsGatewayMade(networks, subnets, transit)
  BY <1>4, <1>5 DEF IsGatewayMade
<1> HIDE DEF ss, peering, transit
<1>9. \A k \in 1..n : IsList(ss[k]) /\ UniqueIds(ss[k]) /\ \A g \in ToSet(ss[k]) : IsOwnGateway(subnets, networks[k].id, g)
  BY <1>3, <1>6, OwnGatewaysMade
<1>10. /\ IsList(own) /\ \A x : x \in ToSet(own) <=> \E k \in 1..n : x \in ToSet(ss[k])
       /\ (/\ \A k \in 1..n : Simple(ss[k])
           /\ \A j, k \in 1..n : ToSet(ss[j]) \cap ToSet(ss[k]) # {} => j = k) => Simple(own)
  BY <1>1, <1>6, <1>9, FlattenedList
<1>11. /\ IsList(second) /\ UniqueIds(second) /\ \A x : x \in ToSet(second) => n = 2 /\ x = peering
       /\ IsList(third) /\ UniqueIds(third) /\ \A x : x \in ToSet(third) => x = transit
  BY WhenIs
<1> HIDE DEF own, second, third
<1>12. /\ IsList(own \o second) /\ ToSet(own \o second) = ToSet(own) \cup ToSet(second)
       /\ IsList((own \o second) \o third)
       /\ ToSet((own \o second) \o third) = ToSet(own) \cup ToSet(second) \cup ToSet(third)
  BY <1>10, <1>11, JoinedIds
<1>13. ASSUME NEW g \in ToSet((own \o second) \o third) PROVE IsGatewayMade(networks, subnets, g)
  <2>1. CASE g \in ToSet(own)
    <3>1. PICK k \in 1..n : g \in ToSet(ss[k])
      BY <1>10, <2>1
    <3>2. IsOwnGateway(subnets, networks[k].id, g) /\ networks[k] \in ToSet(networks)
      BY <1>1, <1>9, <3>1
    <3> QED
      BY <3>2 DEF IsGatewayMade
  <2> QED
    BY <1>8, <1>11, <1>12, <1>13, <2>1
<1>14. \A id, g : IsOwnGateway(subnets, id, g) => g.id = <<"gw-igw", id>> \/ g.id = <<"gw-nat", id>>
  BY GatewayFields DEF IsOwnGateway
<1>15. ASSUME UniqueIds(networks) PROVE UniqueIds((own \o second) \o third)
  <2>1. ASSUME NEW j \in 1..n, NEW k \in 1..n, NEW x \in ToSet(ss[j]), NEW y \in ToSet(ss[k]), x.id = y.id
        PROVE  j = k
    <3>1. /\ x.id = <<"gw-igw", networks[j].id>> \/ x.id = <<"gw-nat", networks[j].id>>
          /\ y.id = <<"gw-igw", networks[k].id>> \/ y.id = <<"gw-nat", networks[k].id>>
      BY <1>9, <1>14
    <3>2. networks[j].id = networks[k].id
      BY <2>1, <3>1
    <3> QED
      BY <1>1, <1>15, <3>2 DEF UniqueIds, Simple
  <2>2. Simple(own)
    BY <1>9, <1>10, <2>1 DEF UniqueIds
  <2>3. \A x, y \in ToSet(own) : x.id = y.id => x = y
    BY <1>9, <1>10, <2>1 DEF UniqueIds
  <2>4. UniqueIds(own)
    BY <2>2, <2>3 DEF UniqueIds
  <2>5. ASSUME NEW x \in ToSet(own) PROVE x.id # <<"gw-peering">> /\ x.id # <<"gw-transit">>
    <3>1. PICK k \in 1..n : x \in ToSet(ss[k])
      BY <1>10
    <3>2. x.id = <<"gw-igw", networks[k].id>> \/ x.id = <<"gw-nat", networks[k].id>>
      BY <1>9, <1>14, <3>1
    <3> QED
      BY <3>2
  <2>6. Ids(own) \cap Ids(second) = {}
    BY <1>7, <1>11, <2>5, IdsOf
  <2>7. UniqueIds(own \o second) /\ Ids(own \o second) = Ids(own) \cup Ids(second)
    BY <1>10, <1>11, <2>4, <2>6, JoinedIds
  <2>8. <<"gw-peering">> # <<"gw-transit">>
    OBVIOUS
  <2>9. Ids(own \o second) \cap Ids(third) = {}
    BY <1>7, <1>11, <2>5, <2>7, <2>8, IdsOf
  <2> QED
    BY <1>11, <1>12, <2>7, <2>9, JoinedIds
<1> QED
  BY <1>2, <1>12, <1>13, <1>15

\* No two ids that the assembler makes of a drawing fall together.
Distinguished(a, p) == ~NetworksCollide(a) /\ ~ResourcesCollide(a, p) /\ ~SubnetsCollide(a)

\* What a route table is made from.
LEMMA TableFields ==
  ASSUME NEW networks, NEW subnets, NEW gateways, NEW id
  PROVE  LET t == RouteTable(networks, subnets, gateways, id)
         IN  t.id = <<"rt", id>> /\ t.network = id
  BY DEF RouteTable

\* At most one route table for each network.
LEMMA TablesMade ==
  ASSUME NEW networks, IsList(networks), NEW subnets, NEW gateways
  PROVE  LET tables == RouteTables(networks, subnets, gateways)
         IN  /\ IsList(tables)
             /\ \A t \in ToSet(tables) : t.network \in Ids(networks) /\ t.id = <<"rt", t.network>>
             /\ UniqueIds(networks) => UniqueIds(tables)
<1> DEFINE n == Len(networks)
           f == [k \in DOMAIN networks |-> RouteTable(networks, subnets, gateways, networks[k].id)]
           ss == [k \in DOMAIN networks |-> When(SubnetsIn(subnets, networks[k].id) # <<>>, f[k])]
           tables == RouteTables(networks, subnets, gateways)
<1>1. n \in Nat /\ DOMAIN networks = 1..n /\ \A x : x \in ToSet(networks) <=> \E k \in 1..n : networks[k] = x
  BY ListIs
<1>2. tables = FlattenSeq(ss)
  BY DEF RouteTables
<1>3. \A k \in 1..n : f[k].id = <<"rt", networks[k].id>> /\ f[k].network = networks[k].id
  BY <1>1, TableFields
<1>4. ss = [k \in 1..n |-> ss[k]] /\ \A k \in 1..n : ss[k] = <<>> \/ ss[k] = <<f[k]>>
  BY <1>1 DEF When
<1> HIDE DEF f, ss, tables
<1>5. IsSieve(n, f, ss)
  BY <1>1, <1>4 DEF IsSieve
<1>6. /\ IsList(FlattenSeq(ss))
      /\ \A x : x \in ToSet(FlattenSeq(ss)) <=> \E k \in 1..n : ss[k] # <<>> /\ x = f[k]
      /\ (\A j, k \in 1..n : f[j] = f[k] => j = k) => Simple(FlattenSeq(ss))
  BY <1>5, Sieved
<1>7. ASSUME NEW t \in ToSet(tables) PROVE t.network \in Ids(networks) /\ t.id = <<"rt", t.network>>
  <2>1. PICK k \in 1..n : t = f[k]
    BY <1>2, <1>6
  <2> QED
    BY <1>1, <1>3, <2>1, IdsOf
<1>8. ASSUME UniqueIds(networks) PROVE UniqueIds(tables)
  <2>1. \A j, k \in 1..n : networks[j].id = networks[k].id => j = k
    BY <1>1, <1>8 DEF UniqueIds, Simple
  <2>2. \A j, k \in 1..n : f[j].id = f[k].id => j = k
    BY <1>3, <2>1
  <2> QED
    BY <1>2, <1>6, <2>2 DEF UniqueIds
<1> QED
  BY <1>2, <1>6, <1>7, <1>8 DEF tables

\* The rules of a plan never name another group.
LEMMA RulesNameNoGroup ==
  ASSUME NEW p, NEW id, NEW r \in RulesFor(p, id)
  PROVE  r.peer = NoGroup
  BY DEF RulesFor

\* A group of a firewall.
IsGroupMade(a, networks, g) ==
  /\ g.network \in Ids(networks) /\ \A r \in g.rules : r.peer = NoGroup
  /\ \E n \in ToSet(a.nodes) : g.id = <<"sg", Slug(n.id)>>

\* A group for every firewall, in the first network.
LEMMA GroupsMade ==
  ASSUME NEW p, NEW a, IsDrawing(a), NEW networks, IsList(networks)
  PROVE  LET groups == SecurityGroups(p, a, networks)
         IN  /\ IsList(groups)
             /\ \A g \in ToSet(groups) : IsGroupMade(a, networks, g)
             /\ ~ResourcesCollide(a, p) => UniqueIds(groups)
<1> DEFINE groups == SecurityGroups(p, a, networks)
           firewalls == Only(a.nodes, {n \in ToSet(a.nodes) : n.type = "firewall"})
           m == Len(firewalls)
<1>1. CASE networks = <<>>
  <2> DEFINE none == <<>>
  <2>1. groups = none
    BY <1>1 DEF SecurityGroups
  <2>2. ToSet(none) = {} /\ Simple(none) /\ none \in Seq({})
    BY DEF ToSet, Simple
  <2> HIDE DEF none
  <2> QED
    BY <2>1, <2>2 DEF IsList, UniqueIds
<1>2. CASE networks # <<>>
  <2>1. Simple(a.nodes)
    BY DEF IsDrawing, Simple
  <2>2. /\ IsList(firewalls) /\ ToSet(firewalls) \subseteq ToSet(a.nodes) /\ Simple(firewalls)
        /\ \A n \in ToSet(firewalls) : n.type = "firewall"
    BY <2>1, SelectedList DEF IsDrawing
  <2>3. groups = [k \in DOMAIN firewalls |->
                    [id |-> <<"sg", Slug(firewalls[k].id)>>, network |-> networks[1].id,
                     rules |-> RulesFor(p, firewalls[k].id)]]
    BY <1>2 DEF SecurityGroups
  <2> HIDE DEF firewalls, groups
  <2>4. /\ m \in Nat /\ DOMAIN firewalls = 1..m
        /\ \A k \in 1..m : firewalls[k] \in ToSet(a.nodes) /\ firewalls[k].type = "firewall"
    BY <2>2, ListIs
  <2>5. groups = [k \in 1..m |-> groups[k]]
        /\ \A k \in 1..m : /\ groups[k].id = <<"sg", Slug(firewalls[k].id)>> /\ groups[k].network = networks[1].id
                           /\ groups[k].rules = RulesFor(p, firewalls[k].id)
    BY <2>3, <2>4
  <2>6. IsList(groups) /\ DOMAIN groups = 1..m /\ \A x : x \in ToSet(groups) <=> \E k \in 1..m : x = groups[k]
    BY <2>4, <2>5, ListOf
  <2>7. networks[1].id \in Ids(networks)
    <3>1. /\ Len(networks) \in Nat /\ DOMAIN networks = 1..Len(networks)
          /\ \A x : x \in ToSet(networks) <=> \E k \in 1..Len(networks) : networks[k] = x
          /\ ToSet(networks) # {}
      BY <1>2, ListIs
    <3>2. 1 \in DOMAIN networks
      BY <3>1
    <3> QED
      BY <3>2 DEF Ids
  <2>8. ASSUME NEW g \in ToSet(groups) PROVE IsGroupMade(a, networks, g)
    <3>1. PICK k \in 1..m : g = groups[k]
      BY <2>6
    <3> QED
      BY <2>4, <2>5, <2>7, <3>1, RulesNameNoGroup DEF IsGroupMade
  <2>9. ASSUME ~ResourcesCollide(a, p) PROVE UniqueIds(groups)
    <3>1. ASSUME NEW j \in 1..m, NEW k \in 1..m, groups[j].id = groups[k].id PROVE j = k
      <4>1. Slug(firewalls[j].id) = Slug(firewalls[k].id)
        BY <2>5, <3>1
      <4>2. firewalls[j] = firewalls[k]
        BY <2>4, <2>9, <4>1 DEF ResourcesCollide
      <4> QED
        BY <2>2, <2>4, <4>2 DEF Simple
    <3>2. Simple(groups) /\ \A x, y \in ToSet(groups) : x.id = y.id => x = y
      BY <2>6, <3>1 DEF Simple
    <3> QED
      BY <3>2 DEF UniqueIds
  <2> QED
    BY <2>6, <2>8, <2>9 DEF groups
<1> QED
  BY <1>1, <1>2

\* The node a domain is named after.
LEMMA NodeOf ==
  ASSUME NEW a, IsDrawing(a), NEW d \in RouterIds(a)
  PROVE  Node(a, d) \in ToSet(a.nodes) /\ Node(a, d).id = d
<1>1. PICK k \in DOMAIN a.nodes : a.nodes[k].id = d
  BY DEF RouterIds, ToSet
<1> DEFINE j == CHOOSE x \in DOMAIN a.nodes : a.nodes[x].id = d
<1>2. j \in DOMAIN a.nodes /\ a.nodes[j].id = d
  BY <1>1
<1>3. Node(a, d) = a.nodes[j]
  BY DEF Node
<1> HIDE DEF j
<1> QED
  BY <1>2, <1>3 DEF ToSet

\* Networks are told apart by their names when the routers are.
LEMMA NetworkIds ==
  ASSUME NEW a, IsDrawing(a), NEW segments, segments = DiscoverSegments(a)
  PROVE  LET networks == Networks(a, segments)
         IN  /\ \A n \in ToSet(networks) : \E name : n.id = <<"vpc", name>>
             /\ ~NetworksCollide(a) => UniqueIds(networks)
<1> DEFINE networks == Networks(a, segments)
<1>1. /\ IsList(networks)
      /\ \A x : x \in ToSet(networks) <=> \E d \in CoveredDomains(a, segments) : x = NetworkOf(a, segments, d)
      /\ \A j, k \in DOMAIN networks : networks[j].domain = networks[k].domain => j = k
  BY NetworksMade
<1> HIDE DEF networks
<1>2. \A d : /\ NetworkOf(a, segments, d).id = <<"vpc", Slug(DomainName(a, d))>>
             /\ NetworkOf(a, segments, d).domain = d
  BY DEF NetworkOf
<1>3. ASSUME ~NetworksCollide(a),
             NEW d \in CoveredDomains(a, segments), NEW e \in CoveredDomains(a, segments),
             Slug(DomainName(a, d)) = Slug(DomainName(a, e))
      PROVE  d = e
  <2> d \in DomainIds(a) /\ e \in DomainIds(a)
    BY DEF CoveredDomains
  <2>1. CASE RouterIds(a) = {}
    BY <2>1 DEF DomainIds
  <2>2. CASE RouterIds(a) # {}
    <3>1. d \in RouterIds(a) /\ e \in RouterIds(a) /\ d # Implicit /\ e # Implicit
      BY <2>2, Domains DEF Implicit
    <3>2. DomainName(a, d) = Node(a, d).name /\ DomainName(a, e) = Node(a, e).name
      BY <3>1 DEF DomainName
    <3>3. Node(a, d) = Node(a, e)
      <4>1. /\ Node(a, d) \in ToSet(a.nodes) /\ Node(a, d).id = d
            /\ Node(a, e) \in ToSet(a.nodes) /\ Node(a, e).id = e
        BY <3>1, NodeOf
      <4> QED
        BY <1>3, <3>2, <4>1 DEF NetworksCollide
    <3> QED
      BY <3>1, <3>3, NodeOf
  <2> QED
    BY <2>1, <2>2
<1>4. ASSUME ~NetworksCollide(a),
             NEW x \in ToSet(networks), NEW y \in ToSet(networks), x.id = y.id
      PROVE  x = y
  <2>1. PICK d \in CoveredDomains(a, segments) : x = NetworkOf(a, segments, d)
    BY <1>1
  <2>2. PICK e \in CoveredDomains(a, segments) : y = NetworkOf(a, segments, e)
    BY <1>1
  <2>3. Slug(DomainName(a, d)) = Slug(DomainName(a, e))
    BY <1>2, <1>4, <2>1, <2>2
  <2> QED
    BY <1>3, <1>4, <2>1, <2>2, <2>3
<1>5. Simple(networks)
  BY <1>1 DEF Simple
<1>6. \A n \in ToSet(networks) : \E name : n.id = <<"vpc", name>>
  BY <1>1, <1>2
<1> QED
  BY <1>4, <1>5, <1>6 DEF networks, UniqueIds

\* What the instances of an assembled cloud architecture are placed in.
LEMMA ComputePlaced ==
  ASSUME NEW p, NEW a, IsDrawing(a), NEW subnets, NEW groups
  PROVE  LET compute == Compute(p, a, subnets, groups)
         IN  /\ IsList(compute)
             /\ \A i \in ToSet(compute) :
                  /\ i.subnet \in Ids(subnets) /\ PrimarySubnet(i) = i.subnet
                  /\ \A nic \in ToSet(i.nics) : nic.subnet \in Ids(subnets)
                  /\ \E name : i.id = <<"c", name>>
             /\ ~ResourcesCollide(a, p) => UniqueIds(compute)
<1> DEFINE compute == Compute(p, a, subnets, groups)
           nics(n) == Nics(a, n, subnets, groups)
<1>1. /\ IsList(compute) /\ Simple(compute)
      /\ \A x \in ToSet(compute) : \E n \in ToSet(a.nodes) :
           nics(n) # <<>> /\ KindOf(p, n) = "compute" /\ x = Instance(p, n, nics(n), groups)
  BY ComputeOf
<1>2. \A n : IsList(nics(n)) /\ \A nic \in ToSet(nics(n)) : nic.subnet \in Ids(subnets)
  BY NicsOf
<1>3. \A n, own : LET i == Instance(p, n, own, groups)
                  IN  i.id = <<"c", Slug(n.id)>> /\ i.subnet = own[1].subnet /\ i.nics = own
  BY InstanceFields
<1> HIDE DEF compute, nics
<1>4. ASSUME NEW i \in ToSet(compute)
      PROVE  /\ i.subnet \in Ids(subnets) /\ PrimarySubnet(i) = i.subnet
             /\ \A nic \in ToSet(i.nics) : nic.subnet \in Ids(subnets)
             /\ \E name : i.id = <<"c", name>>
  <2>1. PICK n \in ToSet(a.nodes) : nics(n) # <<>> /\ i = Instance(p, n, nics(n), groups)
    BY <1>1
  <2>2. i.id = <<"c", Slug(n.id)>> /\ i.subnet = i.nics[1].subnet /\ i.nics = nics(n)
    BY <1>3, <2>1
  <2>3. i.nics[1] \in ToSet(i.nics)
    <3>1. /\ Len(i.nics) \in Nat /\ (i.nics = <<>> <=> ToSet(i.nics) = {})
          /\ \A x : x \in ToSet(i.nics) <=> \E k \in 1..Len(i.nics) : i.nics[k] = x
      BY <1>2, <2>2, ListIs
    <3>2. 1 \in 1..Len(i.nics)
      BY <2>1, <2>2, <3>1
    <3> QED
      BY <3>1, <3>2
  <2> QED
    BY <1>2, <2>1, <2>2, <2>3 DEF PrimarySubnet
<1>5. ASSUME ~ResourcesCollide(a, p), NEW x \in ToSet(compute), NEW y \in ToSet(compute), x.id = y.id PROVE x = y
  <2>1. PICK m \in ToSet(a.nodes) : KindOf(p, m) = "compute" /\ x = Instance(p, m, nics(m), groups)
    BY <1>1
  <2>2. PICK n \in ToSet(a.nodes) : KindOf(p, n) = "compute" /\ y = Instance(p, n, nics(n), groups)
    BY <1>1
  <2>3. Slug(m.id) = Slug(n.id)
    BY <1>3, <1>5, <2>1, <2>2
  <2> QED
    BY <1>5, <2>1, <2>2, <2>3 DEF ResourcesCollide
<1> QED
  BY <1>1, <1>4, <1>5 DEF compute, UniqueIds

\* The lists of an assembled cloud architecture, and what they refer to.
IsAssembled(p, c) ==
  /\ IsList(c.networks) /\ IsList(c.subnets) /\ IsList(c.tables) /\ IsList(c.gateways)
  /\ IsList(c.compute) /\ IsList(c.groups) /\ c.databases = <<>> /\ c.balancers = <<>>
  /\ \A s \in ToSet(c.subnets) : s.network \in Ids(c.networks)
  /\ \A n \in ToSet(c.networks) : \E s \in ToSet(c.subnets) : s.network = n.id
  /\ \A t \in ToSet(c.tables) : t.network \in Ids(c.networks)
  /\ \A g \in ToSet(c.gateways) : IsGatewayMade(c.networks, c.subnets, g)
  /\ \A g \in ToSet(c.groups) : g.network \in Ids(c.networks) /\ \A r \in g.rules : r.peer = NoGroup
  /\ \A i \in ToSet(c.compute) : /\ i.subnet \in Ids(c.subnets) /\ PrimarySubnet(i) = i.subnet
                                 /\ \A nic \in ToSet(i.nics) : nic.subnet \in Ids(c.subnets)
  /\ \A h \in ToSet(c.configuration.hosts) : \E i \in ToSet(c.compute) : HostOn(p, i, h)
  /\ c.relationships = Relationships(c.networks, c.subnets, c.gateways)

\* Everything that the parts of an assembled cloud architecture refer to is there.
LEMMA PartsAssembled ==
  ASSUME NEW p, IsList(p.targets), NEW a, IsDrawing(a), NEW mapped
  PROVE  IsAssembled(p, Assemble(p, a, mapped))
<1> DEFINE c == Assemble(p, a, mapped)
           segments == DiscoverSegments(a)
           groupIds == [k \in DOMAIN c.groups |-> c.groups[k].id]
<1>1. c.networks = Networks(a, segments) /\ c.subnets = CloudSubnets(a, segments, c.networks)
  BY DEF Assemble
<1>2. c.gateways = Gateways(p, c.networks, c.subnets) /\ c.tables = RouteTables(c.networks, c.subnets, c.gateways)
  BY DEF Assemble
<1>3. c.groups = SecurityGroups(p, a, c.networks) /\ c.databases = <<>> /\ c.balancers = <<>>
  BY DEF Assemble
<1>4. /\ c.compute = Compute(p, a, c.subnets, groupIds) /\ c.configuration = Configuration(p, a, c.compute)
      /\ c.relationships = Relationships(c.networks, c.subnets, c.gateways)
  BY DEF Assemble
<1> HIDE DEF c, groupIds
<1>5. IsList(c.networks)
  BY <1>1, NetworksMade
<1>6. IsList(c.subnets) /\ \A s \in ToSet(c.subnets) : s.network \in Ids(c.networks)
  <2>1. /\ IsList(c.subnets)
        /\ \A x : x \in ToSet(c.subnets) <=> \E n \in ToSet(c.networks) : IsSubnetMade(a, segments, n, x)
    BY <1>1, SubnetsMade
  <2>2. ASSUME NEW s \in ToSet(c.subnets) PROVE s.network \in Ids(c.networks)
    <3>1. PICK n \in ToSet(c.networks) : IsSubnetMade(a, segments, n, s)
      BY <2>1
    <3>2. s.network = n.id
      BY <3>1, SubnetFields DEF IsSubnetMade
    <3> QED
      BY <3>2, IdsOf
  <2> QED
    BY <2>1, <2>2
<1>7. \A n \in ToSet(c.networks) : \E s \in ToSet(c.subnets) : s.network = n.id
  <2> SUFFICES ASSUME NEW n \in ToSet(c.networks) PROVE \E s \in ToSet(c.subnets) : s.network = n.id
    OBVIOUS
  <2>1. PICK d \in CoveredDomains(a, segments) : n = NetworkOf(a, segments, d)
    BY <1>1, NetworksMade
  <2>2. n.domain = d
    BY <2>1 DEF NetworkOf
  <2>3. PICK s : s \in ToSet(OwnedBy(a, segments, d))
    BY SegmentsOf, CoveredOwns
  <2> DEFINE x == SubnetOf(n, s)
  <2>4. IsSubnetMade(a, segments, n, x)
    BY <2>2, <2>3 DEF IsSubnetMade
  <2>5. x.network = n.id
    BY SubnetFields
  <2> HIDE DEF x
  <2>6. x \in ToSet(c.subnets)
    BY <1>1, <2>4, SubnetsMade
  <2> QED
    BY <2>5, <2>6
<1>8. IsList(c.gateways) /\ \A g \in ToSet(c.gateways) : IsGatewayMade(c.networks, c.subnets, g)
  BY <1>2, <1>5, <1>6, GatewaysMade
<1>9. IsList(c.tables) /\ \A t \in ToSet(c.tables) : t.network \in Ids(c.networks)
  BY <1>2, <1>5, TablesMade
<1>10. IsList(c.groups) /\ \A g \in ToSet(c.groups) : g.network \in Ids(c.networks) /\ \A r \in g.rules : r.peer = NoGroup
  <2> DEFINE groups == SecurityGroups(p, a, c.networks)
  <2>1. IsList(groups) /\ \A g \in ToSet(groups) : IsGroupMade(a, c.networks, g)
    BY <1>5, GroupsMade
  <2> HIDE DEF groups
  <2> QED
    BY <1>3, <2>1 DEF groups, IsGroupMade
<1>11. /\ IsList(c.compute)
       /\ \A i \in ToSet(c.compute) : /\ i.subnet \in Ids(c.subnets) /\ PrimarySubnet(i) = i.subnet
                                      /\ \A nic \in ToSet(i.nics) : nic.subnet \in Ids(c.subnets)
  <2> DEFINE compute == Compute(p, a, c.subnets, groupIds)
  <2>1. /\ IsList(compute)
        /\ \A i \in ToSet(compute) : /\ i.subnet \in Ids(c.subnets) /\ PrimarySubnet(i) = i.subnet
                                     /\ \A nic \in ToSet(i.nics) : nic.subnet \in Ids(c.subnets)
    BY ComputePlaced
  <2> HIDE DEF compute
  <2> QED
    BY <1>4, <2>1 DEF compute
<1>12. \A h \in ToSet(c.configuration.hosts) : \E i \in ToSet(c.compute) : HostOn(p, i, h)
  BY <1>4, <1>11, Hosts
<1> QED
  BY <1>3, <1>4, <1>5, <1>6, <1>8, <1>9, <1>10, <1>11, <1>12, <1>7 DEF IsAssembled, c

\* The kinds of ids of an assembled cloud architecture.
LEMMA IdsAssembled ==
  ASSUME NEW p, NEW a, IsDrawing(a), Distinguished(a, p), NEW mapped
  PROVE  LET c == Assemble(p, a, mapped)
         IN  /\ UniqueIds(c.networks) /\ \A x \in Ids(c.networks) : x[1] = "vpc"
             /\ UniqueIds(c.subnets) /\ \A x \in Ids(c.subnets) : x[1] = "sn"
             /\ UniqueIds(c.tables) /\ \A x \in Ids(c.tables) : x[1] = "rt"
             /\ UniqueIds(c.gateways) /\ \A x \in Ids(c.gateways) : x[1] \in {"gw-igw", "gw-nat", "gw-peering", "gw-transit"}
             /\ UniqueIds(c.compute) /\ \A x \in Ids(c.compute) : x[1] = "c"
             /\ UniqueIds(c.groups) /\ \A x \in Ids(c.groups) : x[1] = "sg"
<1> DEFINE c == Assemble(p, a, mapped)
           segments == DiscoverSegments(a)
           groupIds == [k \in DOMAIN c.groups |-> c.groups[k].id]
<1>1. c.networks = Networks(a, segments) /\ c.subnets = CloudSubnets(a, segments, c.networks)
  BY DEF Assemble
<1>2. c.gateways = Gateways(p, c.networks, c.subnets) /\ c.tables = RouteTables(c.networks, c.subnets, c.gateways)
  BY DEF Assemble
<1>3. c.groups = SecurityGroups(p, a, c.networks) /\ c.compute = Compute(p, a, c.subnets, groupIds)
  BY DEF Assemble
<1> HIDE DEF c, groupIds
<1>4. IsList(c.networks) /\ UniqueIds(c.networks) /\ \A x \in Ids(c.networks) : x[1] = "vpc"
  BY <1>1, NetworksMade, NetworkIds, IdsOf DEF Distinguished
<1>5. IsList(c.subnets) /\ UniqueIds(c.subnets) /\ \A x \in Ids(c.subnets) : x[1] = "sn"
  <2>1. /\ IsList(c.subnets) /\ Simple(c.subnets)
        /\ \A x : x \in ToSet(c.subnets) <=> \E n \in ToSet(c.networks) : IsSubnetMade(a, segments, n, x)
        /\ \A x, y \in ToSet(c.subnets) : x.id = y.id => x = y
    BY <1>1, SubnetsMade DEF Distinguished
  <2>2. ASSUME NEW s \in ToSet(c.subnets) PROVE s.id[1] = "sn"
    <3>1. PICK n \in ToSet(c.networks) : IsSubnetMade(a, segments, n, s)
      BY <2>1
    <3>2. PICK k : s.id = <<"sn", k>>
      BY <3>1, SubnetFields DEF IsSubnetMade
    <3> QED
      BY <3>2
  <2> QED
    BY <2>1, <2>2, IdsOf DEF UniqueIds
<1>6. UniqueIds(c.tables) /\ \A x \in Ids(c.tables) : x[1] = "rt"
  BY <1>2, <1>4, TablesMade, IdsOf
<1>7. UniqueIds(c.gateways) /\ \A x \in Ids(c.gateways) : x[1] \in {"gw-igw", "gw-nat", "gw-peering", "gw-transit"}
  <2>1. UniqueIds(c.gateways) /\ \A g \in ToSet(c.gateways) : IsGatewayMade(c.networks, c.subnets, g)
    BY <1>2, <1>4, <1>5, GatewaysMade
  <2>2. ASSUME NEW g, IsGatewayMade(c.networks, c.subnets, g)
        PROVE  \/ \E id : g.id = <<"gw-igw", id>> \/ g.id = <<"gw-nat", id>>
               \/ g.id = <<"gw-peering">> \/ g.id = <<"gw-transit">>
    <3>1. CASE \E n \in ToSet(c.networks) : IsOwnGateway(c.subnets, n.id, g)
      BY <3>1, GatewayFields DEF IsOwnGateway
    <3>2. CASE \E ids : \/ g = Gateway(<<"gw-peering">>, "peering", NoNetwork, NoNetwork, ids)
                        \/ g = Gateway(<<"gw-transit">>, "transit", NoNetwork, NoNetwork, ids)
      BY <3>2, GatewayFields
    <3> QED
      BY <2>2, <3>1, <3>2 DEF IsGatewayMade
  <2>3. ASSUME NEW g \in ToSet(c.gateways) PROVE g.id[1] \in {"gw-igw", "gw-nat", "gw-peering", "gw-transit"}
    <3>1. \/ \E id : g.id = <<"gw-igw", id>> \/ g.id = <<"gw-nat", id>>
          \/ g.id = <<"gw-peering">> \/ g.id = <<"gw-transit">>
      BY <2>1, <2>2
    <3> QED
      BY <3>1
  <2> QED
    BY <2>1, <2>3, IdsOf
<1>8. UniqueIds(c.compute) /\ \A x \in Ids(c.compute) : x[1] = "c"
  <2> DEFINE compute == Compute(p, a, c.subnets, groupIds)
  <2>1. UniqueIds(compute) /\ \A i \in ToSet(compute) : \E name : i.id = <<"c", name>>
    BY ComputePlaced DEF Distinguished
  <2> HIDE DEF compute
  <2> QED
    BY <1>3, <2>1, IdsOf DEF compute
<1>9. UniqueIds(c.groups) /\ \A x \in Ids(c.groups) : x[1] = "sg"
  <2> DEFINE groups == SecurityGroups(p, a, c.networks)
  <2>1. UniqueIds(groups) /\ \A g \in ToSet(groups) : IsGroupMade(a, c.networks, g)
    BY <1>4, GroupsMade DEF Distinguished
  <2> HIDE DEF groups
  <2> QED
    BY <1>3, <2>1, IdsOf DEF groups, IsGroupMade
<1> QED
  BY <1>4, <1>5, <1>6, <1>7, <1>8, <1>9 DEF c

\* The ids of all resources together.
LEMMA AllIds ==
  ASSUME NEW p, NEW c, IsAssembled(p, c)
  PROVE  /\ IsList(AllResources(c))
         /\ Ids(AllResources(c)) = UNION {Ids(c.networks), Ids(c.subnets), Ids(c.tables), Ids(c.gateways),
                                          Ids(c.compute), Ids(c.groups)}
<1> DEFINE none == <<>>
           s2 == c.networks \o c.subnets
           s3 == s2 \o c.tables
           s4 == s3 \o c.gateways
           s5 == s4 \o c.compute
           s6 == s5 \o none
           s7 == s6 \o none
           s8 == s7 \o c.groups
<1>1. AllResources(c) = s8
  BY DEF AllResources, IsAssembled
<1>2. IsList(none) /\ Ids(none) = {}
  BY DEF IsList, ToSet, Ids
<1> HIDE DEF none
<1>3. IsList(s2) /\ Ids(s2) = Ids(c.networks) \cup Ids(c.subnets)
  BY JoinedIds DEF IsAssembled
<1> HIDE DEF s2
<1>4. IsList(s3) /\ Ids(s3) = Ids(s2) \cup Ids(c.tables)
  BY <1>3, JoinedIds DEF IsAssembled
<1> HIDE DEF s3
<1>5. IsList(s4) /\ Ids(s4) = Ids(s3) \cup Ids(c.gateways)
  BY <1>4, JoinedIds DEF IsAssembled
<1> HIDE DEF s4
<1>6. IsList(s5) /\ Ids(s5) = Ids(s4) \cup Ids(c.compute)
  BY <1>5, JoinedIds DEF IsAssembled
<1> HIDE DEF s5
<1>7. IsList(s6) /\ Ids(s6) = Ids(s5)
  BY <1>2, <1>6, JoinedIds
<1> HIDE DEF s6
<1>8. IsList(s7) /\ Ids(s7) = Ids(s6)
  BY <1>2, <1>7, JoinedIds
<1> HIDE DEF s7
<1>9. IsList(s8) /\ Ids(s8) = Ids(s7) \cup Ids(c.groups)
  BY <1>8, JoinedIds DEF IsAssembled
<1> HIDE DEF s8
<1> QED
  BY <1>1, <1>3, <1>4, <1>5, <1>6, <1>7, <1>8, <1>9

\* No id is given twice when no two nodes have one slug.
LEMMA AllUnique ==
  ASSUME NEW p, NEW c, IsAssembled(p, c),
         UniqueIds(c.networks), \A x \in Ids(c.networks) : x[1] = "vpc",
         UniqueIds(c.subnets), \A x \in Ids(c.subnets) : x[1] = "sn",
         UniqueIds(c.tables), \A x \in Ids(c.tables) : x[1] = "rt",
         UniqueIds(c.gateways), \A x \in Ids(c.gateways) : x[1] \in {"gw-igw", "gw-nat", "gw-peering", "gw-transit"},
         UniqueIds(c.compute), \A x \in Ids(c.compute) : x[1] = "c",
         UniqueIds(c.groups), \A x \in Ids(c.groups) : x[1] = "sg"
  PROVE  UniqueIds(AllResources(c))
<1> DEFINE none == <<>>
           s2 == c.networks \o c.subnets
           s3 == s2 \o c.tables
           s4 == s3 \o c.gateways
           s5 == s4 \o c.compute
           s6 == s5 \o none
           s7 == s6 \o none
           s8 == s7 \o c.groups
           gateways == {"gw-igw", "gw-nat", "gw-peering", "gw-transit"}
<1>1. AllResources(c) = s8
  BY DEF AllResources, IsAssembled
<1>2. IsList(none) /\ Ids(none) = {} /\ UniqueIds(none)
  BY DEF IsList, ToSet, Ids, UniqueIds, Simple
<1> HIDE DEF none
<1>3. IsList(s2) /\ UniqueIds(s2) /\ \A x \in Ids(s2) : x[1] \in {"vpc", "sn"}
  <2>1. Ids(c.networks) \cap Ids(c.subnets) = {}
    OBVIOUS
  <2> QED
    BY <2>1, JoinedIds DEF IsAssembled
<1> HIDE DEF s2
<1>4. IsList(s3) /\ UniqueIds(s3) /\ \A x \in Ids(s3) : x[1] \in {"vpc", "sn", "rt"}
  <2>1. Ids(s2) \cap Ids(c.tables) = {}
    BY <1>3
  <2> QED
    BY <1>3, <2>1, JoinedIds DEF IsAssembled
<1> HIDE DEF s3
<1>5. IsList(s4) /\ UniqueIds(s4) /\ \A x \in Ids(s4) : x[1] \in {"vpc", "sn", "rt"} \cup gateways
  <2>1. Ids(s3) \cap Ids(c.gateways) = {}
    BY <1>4
  <2> QED
    BY <1>4, <2>1, JoinedIds DEF IsAssembled
<1> HIDE DEF s4
<1>6. IsList(s5) /\ UniqueIds(s5) /\ \A x \in Ids(s5) : x[1] \in {"vpc", "sn", "rt", "c"} \cup gateways
  <2>1. Ids(s4) \cap Ids(c.compute) = {}
    BY <1>5
  <2> QED
    BY <1>5, <2>1, JoinedIds DEF IsAssembled
<1> HIDE DEF s5
<1>7. IsList(s6) /\ UniqueIds(s6) /\ Ids(s6) = Ids(s5)
  BY <1>2, <1>6, JoinedIds
<1> HIDE DEF s6
<1>8. IsList(s7) /\ UniqueIds(s7) /\ Ids(s7) = Ids(s5)
  <2>1. Ids(s6) \cap Ids(none) = {} /\ Ids(s6) \cup Ids(none) = Ids(s6)
    BY <1>2
  <2> QED
    BY <1>2, <1>7, <2>1, JoinedIds
<1> HIDE DEF s7
<1>9. Ids(s7) \cap Ids(c.groups) = {}
  BY <1>6, <1>8
<1> QED
  BY <1>1, <1>8, <1>9, JoinedIds DEF IsAssembled

\* The two ends of every relationship are resources.
LEMMA RelationshipsHold ==
  ASSUME NEW p, NEW c, IsAssembled(p, c), NEW r \in c.relationships
  PROVE  {r.source, r.target} \subseteq Ids(AllResources(c))
<1>1. \A source, target : Relation(source, target).source = source /\ Relation(source, target).target = target
  BY DEF Relation
<1>2. /\ \A n \in ToSet(c.networks) : n.id \in Ids(c.networks)
      /\ \A s \in ToSet(c.subnets) : s.id \in Ids(c.subnets) /\ s.network \in Ids(c.networks)
      /\ \A g \in ToSet(c.gateways) : g.id \in Ids(c.gateways)
  BY IdsOf DEF IsAssembled
<1>3. ASSUME NEW g \in ToSet(c.gateways), g.type = "internet" PROVE g.network \in Ids(c.networks)
  <2>1. IsGatewayMade(c.networks, c.subnets, g)
    BY DEF IsAssembled
  <2>2. PICK n \in ToSet(c.networks) : IsOwnGateway(c.subnets, n.id, g)
    BY <1>3, <2>1, GatewayFields DEF IsGatewayMade
  <2>3. g.network = n.id
    BY <1>3, <2>2, GatewayFields DEF IsOwnGateway
  <2> QED
    BY <1>2, <2>3
<1>4. Ids(c.networks) \cup Ids(c.subnets) \cup Ids(c.gateways) \subseteq Ids(AllResources(c))
  BY AllIds
<1>5. \/ \E n \in ToSet(c.networks) : r = Relation(n.id, n.id)
      \/ \E s \in ToSet(c.subnets) : r = Relation(s.network, s.id)
      \/ \E g \in ToSet(c.gateways) : g.type = "internet" /\ r = Relation(g.id, g.network)
  BY DEF IsAssembled, Relationships
<1> QED
  BY <1>1, <1>2, <1>3, <1>4, <1>5

\* What the assembler makes of a drawing without collisions is coherent.
LEMMA AssembledIsCoherent ==
  ASSUME NEW p, IsList(p.targets), NEW a, IsDrawing(a), Distinguished(a, p), NEW mapped
  PROVE  IsCoherent(Assemble(p, a, mapped))
<1> DEFINE c == Assemble(p, a, mapped)
<1>1. IsAssembled(p, c)
  BY PartsAssembled
<1>2. UniqueIds(AllResources(c))
  BY <1>1, IdsAssembled, AllUnique
<1> HIDE DEF c
<1>3. Cardinality(Ids(AllResources(c))) = Len(AllResources(c))
  BY <1>1, <1>2, AllIds, CountedIds
<1>4. \A h \in ToSet(c.configuration.hosts) : h.compute \in Ids(c.compute)
  <2> SUFFICES ASSUME NEW h \in ToSet(c.configuration.hosts) PROVE h.compute \in Ids(c.compute)
    OBVIOUS
  <2>1. PICK i \in ToSet(c.compute) : HostOn(p, i, h)
    BY <1>1 DEF IsAssembled
  <2>2. h.compute = i.id
    BY <2>1 DEF HostOn, ConfigurationHost
  <2> QED
    BY <2>2, IdsOf
<1> QED
  BY <1>1, <1>3, <1>4, RelationshipsHold DEF IsCoherent, IsAssembled, c

\* A usable plan is refused by the constructor of the cloud architecture only when
\* the ids of two networks, resources or subnets fall together, in every reachable
\* state.
THEOREM OnlyCollisionsRefuse == Spec => []RefusedOnlyForCollisions
<1>1. TranslationInv => RefusedOnlyForCollisions
  <2> SUFFICES ASSUME TranslationInv, plan # NoDocument, cloud = NoDocument, plan.usable,
                      Distinguished(architecture, plan)
               PROVE  FALSE
    BY DEF RefusedOnlyForCollisions, Distinguished
  <2>1. /\ architecture \in Architectures /\ plan \in Plans(architecture)
        /\ ~IsCoherent(Assemble(plan, architecture, payload.unmapped))
    BY DEF TranslationInv, PlanInv
  <2>2. IsDrawing(architecture) /\ IsList(plan.targets)
    BY <2>1, ArchitecturesAssumption, PlansAssumption DEF IsAnswer
  <2> QED
    BY <2>1, <2>2, AssembledIsCoherent
<1> QED
  BY <1>1, TranslationInvariant, PTL

\* Every resource has an address.
LEMMA ResourcesHaveAddresses ==
  ASSUME NEW p, NEW c, IsAssembled(p, c), NEW id \in Ids(AllResources(c))
  PROVE  Ref(c, id) # {}
<1>1. \A x : x \in Ids(c.gateways) <=> \E g \in ToSet(c.gateways) : x = g.id
  BY IdsOf
<1>2. id \in UNION {Ids(c.networks), Ids(c.subnets), Ids(c.tables), Ids(c.gateways), Ids(c.compute), Ids(c.groups)}
  BY AllIds
<1>3. ASSUME NEW type, <<type, id>> \in AddressIndex(c) PROVE Ref(c, id) # {}
  <2> DEFINE x == <<type, id>>
  <2>1. x[2] = id
    OBVIOUS
  <2> QED
    BY <1>3, <2>1 DEF Ref
<1>4. \/ <<"aws_vpc", id>> \in AddressIndex(c)
      \/ <<"aws_subnet", id>> \in AddressIndex(c)
      \/ <<"aws_route_table", id>> \in AddressIndex(c)
      \/ <<"aws_instance", id>> \in AddressIndex(c)
      \/ <<"aws_security_group", id>> \in AddressIndex(c)
      \/ \E g \in ToSet(c.gateways) : <<GatewayTypes[g.type], id>> \in AddressIndex(c)
  BY <1>1, <1>2 DEF AddressIndex
<1> QED
  BY <1>3, <1>4

\* What an assembled and accepted cloud architecture is made from has an address.
LEMMA KnownReferences ==
  ASSUME NEW p, NEW c, IsAssembled(p, c), RouteErrors(c) = {}
  PROVE  /\ \A id \in Ids(c.networks) \cup Ids(c.subnets) : Ref(c, id) # {}
         /\ \A t \in ToSet(c.tables) : \A r \in ToSet(t.routes) : Ref(c, r.target) # {}
<1>1. Ids(c.networks) \cup Ids(c.subnets) \subseteq Ids(AllResources(c))
  BY AllIds
<1>2. ASSUME NEW t \in ToSet(c.tables), NEW r \in ToSet(t.routes) PROVE r.target \in Ids(AllResources(c))
  <2>1. r.target \notin Ids(AllResources(c)) => <<"route_target_missing", t.id>> \in RouteErrors(c)
    BY DEF RouteErrors
  <2> QED
    BY <2>1
<1> QED
  BY <1>1, <1>2, ResourcesHaveAddresses

\* Its gateways are mapped without a word.
LEMMA GatewaysAreQuiet ==
  ASSUME NEW p, NEW c, IsAssembled(p, c), RouteErrors(c) = {}, NEW g \in ToSet(c.gateways)
  PROVE  MapGateway(c, g).warnings = {}
<1>1. \A id \in Ids(c.networks) \cup Ids(c.subnets) : Ref(c, id) # {}
  BY KnownReferences
<1>2. ASSUME NEW n \in ToSet(c.networks), g = Gateway(<<"gw-igw", n.id>>, "internet", n.id, NoNetwork, <<>>)
      PROVE  MapGateway(c, g).warnings = {}
  <2>1. g.type = "internet" /\ g.network = n.id
    BY <1>2, GatewayFields
  <2>2. Ref(c, g.network) # {}
    BY <1>1, <2>1, IdsOf
  <2>3. MapGateway(c, g) = MapInternetGateway(c, g)
    BY <2>1 DEF MapGateway
  <2> QED
    BY <2>2, <2>3, Returned DEF MapInternetGateway
<1>3. ASSUME NEW id, NEW x \in ToSet(c.subnets), g = Gateway(<<"gw-nat", id>>, "nat", id, x.id, <<>>)
      PROVE  MapGateway(c, g).warnings = {}
  <2>1. g.type = "nat" /\ g.subnet = x.id
    BY <1>3, GatewayFields
  <2>2. Ref(c, g.subnet) # {}
    BY <1>1, <2>1, IdsOf
  <2>3. MapGateway(c, g) = MapNatGateway(c, g)
    BY <2>1 DEF MapGateway
  <2> QED
    BY <2>2, <2>3, Returned DEF MapNatGateway
<1>4. ASSUME NEW ids, \A id \in ToSet(ids) : id \in Ids(c.networks), Len(ids) = 2,
             g = Gateway(<<"gw-peering">>, "peering", NoNetwork, NoNetwork, ids)
      PROVE  MapGateway(c, g).warnings = {}
  <2>1. g.type = "peering" /\ g.peers = ids
    BY <1>4, GatewayFields
  <2>2. Len(g.peers) = 2 /\ \A id \in ToSet(g.peers) : Ref(c, id) # {}
    BY <1>1, <1>4, <2>1
  <2>3. MapGateway(c, g) = MapPeering(c, g)
    BY <2>1 DEF MapGateway
  <2> QED
    BY <2>2, <2>3, Returned DEF MapPeering
<1>5. ASSUME NEW ids, \A id \in ToSet(ids) : id \in Ids(c.networks),
             g = Gateway(<<"gw-transit">>, "transit", NoNetwork, NoNetwork, ids)
      PROVE  MapGateway(c, g).warnings = {}
  <2>1. g.type = "transit" /\ g.peers = ids
    BY <1>5, GatewayFields
  <2>2. MapGateway(c, g) = MapTransitGateway(c, g)
    BY <2>1 DEF MapGateway
  <2> DEFINE subnetIds(id) == {s.id : s \in {x \in ToSet(c.subnets) : x.network = id}}
  <2>3. ASSUME NEW id \in ToSet(g.peers) PROVE Ref(c, id) # {} /\ Refs(c, subnetIds(id)) # {}
    <3>1. id \in Ids(c.networks)
      BY <1>5, <2>1, <2>3
    <3>2. PICK n \in ToSet(c.networks) : n.id = id
      BY <3>1, IdsOf
    <3>3. PICK s \in ToSet(c.subnets) : s.network = id
      BY <3>2 DEF IsAssembled
    <3>4. s.id \in subnetIds(id) /\ s.id \in Ids(c.subnets)
      BY <3>3, IdsOf
    <3> HIDE DEF subnetIds
    <3>5. Ref(c, s.id) \subseteq Refs(c, subnetIds(id)) /\ Ref(c, s.id) # {}
      BY <1>1, <3>4 DEF Refs
    <3> QED
      BY <1>1, <3>1, <3>5
  <2>4. ASSUME NEW w \in MapTransitGateway(c, g).warnings PROVE FALSE
    <3>1. \E id \in ToSet(g.peers) : Ref(c, id) = {} \/ Refs(c, subnetIds(id)) = {}
      BY <2>4, TransitMapped
    <3> QED
      BY <2>3, <3>1
  <2> QED
    BY <2>2, <2>4
<1>6. IsGatewayMade(c.networks, c.subnets, g)
  BY DEF IsAssembled
<1>7. ASSUME NEW n \in ToSet(c.networks), IsOwnGateway(c.subnets, n.id, g) PROVE MapGateway(c, g).warnings = {}
  BY <1>2, <1>3, <1>7 DEF IsOwnGateway
<1> QED
  BY <1>4, <1>5, <1>6, <1>7 DEF IsGatewayMade

\* The Terraform generator has nothing to say but that a rule names no source.
LEMMA NothingIsLost ==
  ASSUME NEW p, NEW c, IsAssembled(p, c), RouteErrors(c) = {},
         NEW w \in GenerateProject(c).warnings, w.severity = "high"
  PROVE  w.code = "rule_without_source"
<1>1. \A id \in Ids(c.networks) \cup Ids(c.subnets) : Ref(c, id) # {}
  BY KnownReferences
<1>2. PICK m \in MapAll(c) : w \in m.warnings
  <2>1. \A code, id : Medium(code, id).severity # "high"
    BY Returned
  <2> QED
    BY <2>1, Collected
<1>3. ASSUME NEW n \in ToSet(c.networks), m = MapVirtualNetwork(c, n) PROVE FALSE
  BY <1>2, <1>3, NetworkMapped
<1>4. ASSUME NEW s \in ToSet(c.subnets), m = MapSubnet(c, s) PROVE FALSE
  <2>1. Ref(c, s.network) # {}
    BY <1>1 DEF IsAssembled
  <2> QED
    BY <1>2, <1>4, <2>1, Returned DEF MapSubnet
<1>5. ASSUME NEW g \in ToSet(c.gateways), m = MapGateway(c, g) PROVE FALSE
  BY <1>2, <1>5, GatewaysAreQuiet
<1>6. ASSUME NEW t \in ToSet(c.tables), m = MapRouteTable(c, t) PROVE FALSE
  <2>1. Ref(c, t.network) # {} /\ \A r \in ToSet(t.routes) : Ref(c, r.target) # {}
    BY <1>1, KnownReferences DEF IsAssembled
  <2>2. w = Medium("unresolved_subnet_association", t.id)
    BY <1>2, <1>6, <2>1, RouteTableMapped
  <2>3. Medium("unresolved_subnet_association", t.id).severity = "medium"
    BY Returned
  <2> QED
    BY <2>2, <2>3
<1>7. ASSUME NEW g \in ToSet(c.groups), m = MapSecurityGroup(c, g) PROVE w.code = "rule_without_source"
  <2>1. Ref(c, g.network) # {} /\ {r.peer : r \in g.rules} \ {NoRef} = {}
    BY <1>1 DEF IsAssembled, NoGroup, NoRef
  <2>2. w = High("rule_without_source", g.id)
    BY <1>2, <1>7, <2>1, SecurityGroupMapped
  <2> QED
    BY <2>2, Returned
<1>8. ASSUME NEW i \in ToSet(c.compute), m = MapCompute(c, i) PROVE FALSE
  <2>1. Ref(c, PrimarySubnet(i)) # {}
    BY <1>1 DEF IsAssembled
  <2>2. w = Medium("unresolved_interface_subnet", i.id)
    BY <1>2, <1>8, <2>1, ComputeMapped
  <2>3. Medium("unresolved_interface_subnet", i.id).severity = "medium"
    BY Returned
  <2> QED
    BY <2>2, <2>3
<1>9. ToSet(c.databases) = {} /\ ToSet(c.balancers) = {}
  BY DEF IsAssembled, ToSet
<1> QED
  BY <1>3, <1>4, <1>5, <1>6, <1>7, <1>8, <1>9, Mappers

\* The project declares the output of every instance.
LEMMA OutputsAreDeclared ==
  ASSUME NEW p, NEW c, IsAssembled(p, c), RouteErrors(c) = {}, NEW h \in ToSet(c.configuration.hosts)
  PROVE  h.output \in GenerateProject(c).outputs
<1>1. PICK i \in ToSet(c.compute) : HostOn(p, i, h)
  BY DEF IsAssembled
<1>2. h.output = <<i.id, "private_ip">>
  BY <1>1 DEF HostOn, ConfigurationHost, AddressOutput
<1>3. Ref(c, PrimarySubnet(i)) # {}
  BY KnownReferences DEF IsAssembled
<1>4. <<i.id, "private_ip">> \in MapCompute(c, i).outputs
  BY <1>3, ComputeMapped
<1>5. MapCompute(c, i) \in MapAll(c)
  BY Mappers
<1> QED
  BY <1>2, <1>4, <1>5, Collected

\* What was assembled here and accepted loses nothing in the Terraform generator but
\* rules without a source, and declares the output of every configured host.
THEOREM BuildableWhenAssembled == Spec => []AssembledIsBuildable
<1>1. TranslationInv => AssembledIsBuildable
  <2> SUFFICES ASSUME TranslationInv, Assembled, project # NoDocument
               PROVE  /\ \A w \in project.warnings : w.severity = "high" => w.code = "rule_without_source"
                      /\ \A h \in ToSet(cloud.configuration.hosts) : h.output \in project.outputs
    BY DEF AssembledIsBuildable
  <2>1. project = GenerateProject(cloud) /\ ~RefusesToGenerate(cloud, Validate(cloud))
    BY DEF TranslationInv, ProjectInv
  <2>2. RouteErrors(cloud) = {}
    BY <2>1 DEF RefusesToGenerate, IsValid, Validate
  <2>3. /\ architecture \in Architectures /\ plan \in Plans(architecture)
        /\ cloud = Assemble(plan, architecture, payload.unmapped)
    BY DEF TranslationInv, PlanInv, Assembled
  <2>4. IsAssembled(plan, cloud)
    BY <2>3, ArchitecturesAssumption, PlansAssumption, PartsAssembled DEF IsAnswer
  <2> QED
    BY <2>1, <2>2, <2>4, NothingIsLost, OutputsAreDeclared
<1> QED
  BY <1>1, TranslationInvariant, PTL

-----------------------------------------------------------------------------
(* Prefixes of networks                                                    *)
\* s begins with u.
BeginsWith(u, s) == IsList(s) /\ Len(u) <= Len(s) /\ \A k \in 1..Len(u) : s[k] = u[k]

\* A longer sequence begins in the same way.
LEMMA StillBeginsWith ==
  ASSUME NEW u, IsList(u), NEW s, BeginsWith(u, s), NEW t, IsList(t)
  PROVE  BeginsWith(u, s \o t)
<1>1. Len(u) \in Nat /\ Len(s) \in Nat /\ Len(t) \in Nat
  BY ListIs DEF BeginsWith
<1>2. IsList(s \o t) /\ Len(s \o t) = Len(s) + Len(t)
  BY JoinedList DEF BeginsWith
<1>3. s \in Seq(ToSet(s) \cup ToSet(t)) /\ t \in Seq(ToSet(s) \cup ToSet(t))
  BY Widened DEF BeginsWith, IsList
<1>4. \A k \in 1..Len(s) : (s \o t)[k] = s[k]
  BY <1>1, <1>3, ConcatProperties
<1> QED
  BY <1>1, <1>2, <1>4 DEF BeginsWith

\* When there are as many ids as resources, no two resources have one.
LEMMA CountedAreUnique ==
  ASSUME NEW s, IsList(s), Cardinality(Ids(s)) = Len(s), NEW j \in 1..Len(s), NEW k \in 1..Len(s), s[j].id = s[k].id
  PROVE  j = k
<1> DEFINE n == Len(s)
           idAt == [i \in 1..n |-> s[i].id]
<1>1. n \in Nat /\ DOMAIN s = 1..n
  BY ListIs
<1>2. /\ idAt \in [1..n -> Ids(s)] /\ \A i \in 1..n : idAt[i] = s[i].id
      /\ \A x \in Ids(s) : \E i \in 1..n : idAt[i] = x
  BY <1>1 DEF Ids
<1> HIDE DEF idAt
<1>3. idAt \in Surjection(1..n, Ids(s))
  BY <1>2 DEF Surjection
<1>4. IsFiniteSet(1..n) /\ Cardinality(1..n) = n
  BY <1>1, FS_Interval
<1>5. idAt \in Injection(1..n, Ids(s))
  BY <1>3, <1>4, FS_Surjection
<1>6. idAt[j] = idAt[k]
  BY <1>2
<1> QED
  BY <1>5, <1>6 DEF Injection, IsInjective

\* The networks of a coherent cloud architecture made of lists have ids of their own.
LEMMA NetworksAreDistinct ==
  ASSUME NEW p, NEW c, IsAssembled(p, c), IsCoherent(c), NEW m \in ToSet(c.networks), NEW n \in ToSet(c.networks), m.id = n.id
  PROVE  m = n
<1> DEFINE none == <<>>
           s2 == c.networks \o c.subnets
           s3 == s2 \o c.tables
           s4 == s3 \o c.gateways
           s5 == s4 \o c.compute
           s6 == s5 \o none
           s7 == s6 \o none
           s8 == s7 \o c.groups
           u == c.networks
<1>1. AllResources(c) = s8
  BY DEF AllResources, IsAssembled
<1>2. IsList(none)
  BY DEF IsList, ToSet
<1>3. /\ IsList(c.networks) /\ IsList(c.subnets) /\ IsList(c.tables)
      /\ IsList(c.gateways) /\ IsList(c.compute) /\ IsList(c.groups)
  BY DEF IsAssembled
<1> HIDE DEF none
<1>4. BeginsWith(u, u)
  BY <1>3, ListIs DEF BeginsWith
<1>5. BeginsWith(u, s2)
  BY <1>3, <1>4, StillBeginsWith
<1> HIDE DEF s2
<1>6. BeginsWith(u, s3)
  BY <1>3, <1>5, StillBeginsWith
<1> HIDE DEF s3
<1>7. BeginsWith(u, s4)
  BY <1>3, <1>6, StillBeginsWith
<1> HIDE DEF s4
<1>8. BeginsWith(u, s5)
  BY <1>3, <1>7, StillBeginsWith
<1> HIDE DEF s5
<1>9. BeginsWith(u, s6)
  BY <1>2, <1>3, <1>8, StillBeginsWith
<1> HIDE DEF s6
<1>10. BeginsWith(u, s7)
  BY <1>2, <1>3, <1>9, StillBeginsWith
<1> HIDE DEF s7
<1>11. BeginsWith(u, s8)
  BY <1>3, <1>10, StillBeginsWith
<1> HIDE DEF s8
<1>12. Cardinality(Ids(s8)) = Len(s8)
  BY <1>1 DEF IsCoherent
<1>13. PICK j \in 1..Len(u), k \in 1..Len(u) : u[j] = m /\ u[k] = n
  BY <1>3, ListIs
<1>14. j \in 1..Len(s8) /\ k \in 1..Len(s8) /\ s8[j] = m /\ s8[k] = n
  <2>1. Len(u) \in Nat /\ Len(s8) \in Nat
    BY <1>3, <1>11, ListIs DEF BeginsWith
  <2> QED
    BY <1>11, <1>13, <2>1 DEF BeginsWith
<1>15. j = k
  BY <1>11, <1>12, <1>14, CountedAreUnique DEF BeginsWith
<1> QED
  BY <1>13, <1>15

\* The prefixes of the segments of a list.
LEMMA CidrsAre ==
  ASSUME NEW segments, IsList(segments)
  PROVE  /\ IsList(CidrsOf(segments))
         /\ \A x : x \in ToSet(CidrsOf(segments)) <=> \E s \in ToSet(segments) : x = s.subnet
<1> DEFINE cidrs == CidrsOf(segments)
<1>1. /\ Len(segments) \in Nat /\ DOMAIN segments = 1..Len(segments)
      /\ \A x : x \in ToSet(segments) <=> \E k \in 1..Len(segments) : segments[k] = x
  BY ListIs
<1>2. cidrs = [k \in 1..Len(segments) |-> cidrs[k]] /\ \A k \in 1..Len(segments) : cidrs[k] = segments[k].subnet
  BY <1>1 DEF CidrsOf
<1> HIDE DEF cidrs
<1>3. IsList(cidrs) /\ \A x : x \in ToSet(cidrs) <=> \E k \in 1..Len(segments) : x = cidrs[k]
  BY <1>1, <1>2, ListOf
<1> QED
  BY <1>1, <1>2, <1>3 DEF cidrs

\* The prefix of an assembled network is the covering prefix of what its domain owns, and
\* it owns IPv4 prefixes.
LEMMA NetworkCidr ==
  ASSUME NEW a, NEW segments, IsList(segments), NEW d \in CoveredDomains(a, segments)
  PROVE  LET cidrs == CidrsOf(OwnedBy(a, segments, d))
         IN  /\ NetworkOf(a, segments, d).cidr = CoveringSupernet(cidrs)
             /\ NetworkOf(a, segments, d).domain = d
             /\ {x \in ToSet(cidrs) : x.v = 4} # {}
<1> DEFINE cidrs == CidrsOf(OwnedBy(a, segments, d))
           four == {x \in ToSet(cidrs) : x.v = 4}
           ipv4 == Only(cidrs, four)
<1>1. IsList(cidrs)
  BY Owned, CidrsAre
<1>2. NetworkOf(a, segments, d).cidr = CoveringSupernet(cidrs) /\ NetworkOf(a, segments, d).domain = d
  BY DEF NetworkOf
<1>3. CoveringSupernet(cidrs) # NoCover
  BY <1>2 DEF CoveredDomains
<1>4. ipv4 # <<>>
  BY <1>3 DEF CoveringSupernet
<1>5. IsList(ipv4) /\ ToSet(ipv4) = four
  BY <1>1, SelectedList
<1> HIDE DEF ipv4
<1>6. ToSet(ipv4) # {}
  BY <1>4, <1>5, ListIs
<1> QED
  BY <1>2, <1>5, <1>6

\* The prefix of a VPC covers its IPv4 subnets, and no longer one does, in whatever
\* order the segments of its domain were found.
THEOREM NetworksAreTight == Spec => []SmallestCover
<1>1. TranslationInv => SmallestCover
  <2> DEFINE segments == DiscoverSegments(architecture)
             ownOf(n) == {s.cidr : s \in {x \in ToSet(cloud.subnets) : x.network = n.id /\ x.cidr.v = 4}}
             cidrsOf(d) == CidrsOf(OwnedBy(architecture, segments, d))
  <2> SUFFICES ASSUME TranslationInv, Assembled, NEW n \in ToSet(cloud.networks)
               PROVE  LET covered == {s.cidr : s \in {x \in ToSet(cloud.subnets) : x.network = n.id /\ x.cidr.v = 4}}
                          covers(len) == \A s, t \in covered : IsSubnetOf(s, SubnetSpec(4, t.net, len))
                      IN  /\ \A s \in covered : IsSubnetOf(s, n.cidr)
                          /\ \A len \in (n.cidr.len + 1)..AddressBits : ~covers(len)
    BY DEF SmallestCover
  <2>1. cloud = Assemble(plan, architecture, payload.unmapped) /\ IsDrawing(architecture) /\ IsCoherent(cloud)
    BY ArchitecturesAssumption DEF TranslationInv, PlanInv, Assembled
  <2>2. IsList(plan.targets)
    BY PlansAssumption DEF TranslationInv, PlanInv, Assembled, IsAnswer
  <2>3. IsAssembled(plan, cloud)
    BY <2>1, <2>2, PartsAssembled
  <2>4. cloud.networks = Networks(architecture, segments)
        /\ cloud.subnets = CloudSubnets(architecture, segments, cloud.networks)
    BY <2>1 DEF Assemble
  <2>5. /\ IsList(segments)
        /\ \A key : key \in SegmentKeys(architecture) <=> \E s \in ToSet(segments) : s.subnet = key
    BY <2>1, SegmentsOf
  <2>6. /\ \A x : x \in ToSet(cloud.networks) <=>
                    \E d \in CoveredDomains(architecture, segments) : x = NetworkOf(architecture, segments, d)
    BY <2>1, <2>4, NetworksMade
  <2>7. \A x : x \in ToSet(cloud.subnets) <=>
                 \E m \in ToSet(cloud.networks) : IsSubnetMade(architecture, segments, m, x)
    BY <2>1, <2>4, SubnetsMade
  <2> HIDE DEF segments
  <2>8. PICK d \in CoveredDomains(architecture, segments) : n = NetworkOf(architecture, segments, d)
    BY <2>6
  <2> DEFINE cidrs == cidrsOf(d)
             four == {x \in ToSet(cidrs) : x.v = 4}
             own == ownOf(n)
  <2>9. n.cidr = CoveringSupernet(cidrs) /\ n.domain = d /\ four # {}
    BY <2>5, <2>8, NetworkCidr
  <2>10. IsList(OwnedBy(architecture, segments, d))
         /\ \A s \in ToSet(OwnedBy(architecture, segments, d)) : s \in ToSet(segments)
    BY <2>5, Owned
  <2>11. IsList(cidrs) /\ \A x : x \in ToSet(cidrs) <=> \E s \in ToSet(OwnedBy(architecture, segments, d)) : x = s.subnet
    BY <2>10, CidrsAre
  <2>12. \A x \in ToSet(cidrs) : IsCanonical(x)
    BY <2>1, <2>5, <2>10, <2>11, KeysOf
  <2>13. own = four
    <3>1. ASSUME NEW x \in ToSet(cloud.subnets), x.network = n.id, x.cidr.v = 4 PROVE x.cidr \in four
      <4>1. PICK m \in ToSet(cloud.networks) : IsSubnetMade(architecture, segments, m, x)
        BY <2>7
      <4>2. PICK s \in ToSet(OwnedBy(architecture, segments, m.domain)) : x = SubnetOf(m, s)
        BY <4>1 DEF IsSubnetMade
      <4>3. m.id = n.id
        BY <3>1, <4>2, SubnetFields
      <4>4. m = n
        BY <2>1, <2>3, <4>3, NetworksAreDistinct
      <4>5. x.cidr = s.subnet /\ s \in ToSet(OwnedBy(architecture, segments, d))
        BY <2>9, <4>2, <4>4, SubnetFields
      <4> QED
        BY <2>11, <3>1, <4>5
    <3>2. ASSUME NEW y \in four PROVE \E x \in ToSet(cloud.subnets) : x.network = n.id /\ x.cidr = y
      <4>1. PICK s \in ToSet(OwnedBy(architecture, segments, d)) : y = s.subnet
        BY <2>11
      <4>2. IsSubnetMade(architecture, segments, n, SubnetOf(n, s))
        BY <2>9, <4>1 DEF IsSubnetMade
      <4>3. SubnetOf(n, s) \in ToSet(cloud.subnets)
        BY <2>7, <4>2
      <4> QED
        BY <4>1, <4>3, SubnetFields
    <3>3. ASSUME NEW y \in own PROVE y \in four
      BY <3>1
    <3>4. ASSUME NEW y \in four PROVE y \in own
      BY <3>2
    <3> QED
      BY <3>3, <3>4
  <2> HIDE DEF own, four, cidrs
  <2>14. /\ \A x \in own : IsSubnetOf(x, n.cidr)
         /\ \A m \in (n.cidr.len+1)..AddressBits :
              \A t \in own : \E x \in own : ~IsSubnetOf(x, SubnetSpec(4, t.net, m))
    BY <2>9, <2>11, <2>12, <2>13, SmallestSupernet DEF four
  <2>15. own # {}
    BY <2>9, <2>13
  <2> QED
    BY <2>14, <2>15 DEF own
<1> QED
  BY <1>1, TranslationInvariant, PTL

-----------------------------------------------------------------------------
(***************************************************************************)
(* The visit of the roles                                                  *)
(*                                                                         *)
(* visit is a recursive function: that one exists is shown level by level, *)
(* a level being the number of roles that the visit is not in.  What a     *)
(* call returns is shown by the same induction: it extends what is         *)
(* ordered, and what a role requires is ahead of it or leads back to it.   *)
(***************************************************************************)
\* g is the function that fold is an application of.
IsVisiting(v, visiting, base, s, n, g) ==
  g = [t \in SUBSET (1..n) |-> IF t = {} THEN base ELSE v[<<s[Max(t)], visiting, g[t \ {Max(t)}]>>]]

\* There is one.
LEMMA VisitingExists ==
  ASSUME NEW v, NEW visiting, NEW base, NEW s, NEW n \in Nat
  PROVE  \E g : IsVisiting(v, visiting, base, s, n, g)
<1> DEFINE next(x, k) == v[<<s[k], visiting, x>>]
           Solves(g, k) == \A t \in SUBSET (1..k) : g[t] = IF t = {} THEN base ELSE next(g[t \ {Max(t)}], Max(t))
           Done == {k \in Nat : \E g : Solves(g, k)}
<1> HIDE DEF next
<1>1. 0 \in Done
  <2>1. \A t \in SUBSET (1..0) : t = {}
    OBVIOUS
  <2>2. Solves([t \in {{}} |-> base], 0)
    BY <2>1
  <2> HIDE DEF Solves
  <2> QED
    BY <2>2
<1>2. ASSUME NEW k \in Nat, k \in Done PROVE k + 1 \in Done
  <2>1. PICK g : Solves(g, k)
    BY <1>2
  <2> DEFINE more == [t \in SUBSET (1..(k+1)) |-> IF k + 1 \in t THEN next(g[t \ {k+1}], k + 1) ELSE g[t]]
  <2>2. ASSUME NEW t \in SUBSET (1..(k+1)), k + 1 \in t
        PROVE  more[t] = next(more[t \ {Max(t)}], Max(t))
    <3>1. Max(t) = k + 1
      <4>1. \A y \in t : k + 1 >= y /\ y \in Int
        OBVIOUS
      <4>2. \A x \in t : (\A y \in t : x >= y) => x = k + 1
        BY <2>2, <4>1
      <4> QED
        BY <2>2, <4>1, <4>2 DEF Max
    <3>2. t \ {k+1} \in SUBSET (1..(k+1)) /\ k + 1 \notin t \ {k+1}
      OBVIOUS
    <3> QED
      BY <2>2, <3>1, <3>2
  <2>3. ASSUME NEW t \in SUBSET (1..(k+1)), k + 1 \notin t
        PROVE  more[t] = IF t = {} THEN base ELSE next(more[t \ {Max(t)}], Max(t))
    <3>1. t \in SUBSET (1..k)
      BY <2>3
    <3>2. t \ {Max(t)} \in SUBSET (1..(k+1)) /\ k + 1 \notin t \ {Max(t)}
      BY <2>3
    <3> QED
      BY <2>1, <2>3, <3>1, <3>2
  <2>4. Solves(more, k + 1)
    <3> HIDE DEF more
    <3> QED
      BY <2>2, <2>3
  <2> HIDE DEF more, Solves
  <2> QED
    BY <2>4
<1> HIDE DEF Done
<1>3. Nat \subseteq Done
  BY <1>1, <1>2, Induction
<1>4. PICK g : Solves(g, n)
  BY <1>3 DEF Done
<1> DEFINE h == [t \in SUBSET (1..n) |-> g[t]]
<1>5. \A t \in SUBSET (1..n) : h[t] = IF t = {} THEN base ELSE next(h[t \ {Max(t)}], Max(t))
  <2> SUFFICES ASSUME NEW t \in SUBSET (1..n)
               PROVE  h[t] = IF t = {} THEN base ELSE next(h[t \ {Max(t)}], Max(t))
    OBVIOUS
  <2>1. t \ {Max(t)} \in SUBSET (1..n)
    OBVIOUS
  <2> QED
    BY <1>4, <2>1
<1>6. IsVisiting(v, visiting, base, s, n, h)
  BY <1>5 DEF IsVisiting, next
<1> HIDE DEF h
<1> QED
  BY <1>6

\* h is what is ordered before the first name, and after each.
IsPath(v, visiting, base, s, n, h) ==
  /\ VisitAll(v, visiting, base, s) = h[n] /\ h[0] = base
  /\ \A k \in 1..n : h[k] = v[<<s[k], visiting, h[k-1]>>]

\* The steps of the fold, name by name.
LEMMA VisitSteps ==
  ASSUME NEW v, NEW visiting, NEW base, NEW s, NEW n \in Nat, DOMAIN s = 1..n
  PROVE  \E h : IsPath(v, visiting, base, s, n, h)
<1> DEFINE iter == CHOOSE g : IsVisiting(v, visiting, base, s, n, g)
           h == [k \in 0..n |-> iter[1..k]]
<1>1. VisitAll(v, visiting, base, s) = iter[1..n]
  BY DEF VisitAll, FoldLeft, MapThenFoldSet, IsVisiting
<1>2. IsVisiting(v, visiting, base, s, n, iter)
  BY VisitingExists
<1> HIDE DEF iter
<1>3. \A t \in SUBSET (1..n) : iter[t] = IF t = {} THEN base ELSE v[<<s[Max(t)], visiting, iter[t \ {Max(t)}]>>]
  <2>1. iter = [t \in SUBSET (1..n) |-> IF t = {} THEN base ELSE v[<<s[Max(t)], visiting, iter[t \ {Max(t)}]>>]]
    BY <1>2 DEF IsVisiting
  <2> QED
    BY <2>1, Zenon
<1>4. h[0] = base
  <2>1. 1..0 \in SUBSET (1..n) /\ 1..0 = {} /\ 0 \in 0..n
    OBVIOUS
  <2> QED
    BY <1>3, <2>1
<1>5. ASSUME NEW k \in 1..n PROVE h[k] = v[<<s[k], visiting, h[k-1]>>]
  <2>1. 1..k \in SUBSET (1..n) /\ 1..k # {} /\ k \in 0..n /\ k - 1 \in 0..n
    <3>1. k \in 1..k /\ \A y \in 1..k : y \in 1..n
      OBVIOUS
    <3> QED
      BY <3>1
  <2>2. Max(1..k) = k
    <3>1. k \in 1..k /\ \A y \in 1..k : k >= y
      OBVIOUS
    <3>2. \A x \in 1..k : (\A y \in 1..k : x >= y) => x = k
      BY <3>1
    <3> QED
      BY <3>1, <3>2 DEF Max
  <2>3. (1..k) \ {k} = 1..(k-1)
    OBVIOUS
  <2>4. iter[1..k] = v[<<s[k], visiting, iter[(1..k) \ {k}]>>]
    BY <1>3, <2>1, <2>2
  <2> QED
    BY <2>1, <2>3, <2>4
<1>6. h[n] = iter[1..n]
  OBVIOUS
<1> HIDE DEF h
<1> QED
  BY <1>1, <1>4, <1>5, <1>6 DEF IsPath

Calls == STRING \X (SUBSET STRING) \X Seq(STRING)

\* What a call of visit returns, by the function v for the calls it makes.
Result(f, v, c) ==
  IF c[1] \in ToSet(c[3]) \cup c[2] THEN c[3]
  ELSE LET after == VisitAll(v, c[2] \cup {c[1]}, c[3], RequiredBy(f, c[1]))
       IN  IF c[1] \in ToSet(after) THEN after ELSE Append(after, c[1])

\* v is the function visit of a configuration.
IsVisit(f, v) == v = [c \in Calls |-> Result(f, v, c)]

\* If there is such a function, Visit is one.
LEMMA VisitIs ==
  ASSUME NEW f, NEW w, IsVisit(f, w)
  PROVE  IsVisit(f, Visit(f))
  BY DEF IsVisit, Visit, Calls, Result

\* What a role requires are names; a name without a role requires nothing.
LEMMA Required ==
  ASSUME NEW f, IsConfiguration(f), NEW name
  PROVE  /\ AreNames(RequiredBy(f, name))
         /\ name \notin RoleNames(f) => RequiredBy(f, name) = <<>>
         /\ IsFiniteSet(RoleNames(f))
<1> DEFINE named == {r \in f.roles : r.name = name}
           some == CHOOSE r \in named : TRUE
<1>1. RequiredBy(f, name) = IF named = {} THEN <<>> ELSE some.requires
  BY DEF RequiredBy
<1>2. named # {} => some \in named
  OBVIOUS
<1>3. \A r \in f.roles : AreNames(r.requires)
  BY DEF IsConfiguration
<1>4. AreNames(<<>>)
  BY DEF AreNames
<1>5. AreNames(RequiredBy(f, name))
  <2> HIDE DEF some
  <2> QED
    BY <1>1, <1>2, <1>3, <1>4
<1>6. name \notin RoleNames(f) => named = {}
  BY DEF RoleNames
<1>7. IsFiniteSet(RoleNames(f))
  <2> DEFINE nameOf == [r \in f.roles |-> r.name]
  <2>1. nameOf \in Surjection(f.roles, RoleNames(f))
    BY DEF Surjection, RoleNames
  <2>2. IsFiniteSet(f.roles)
    BY DEF IsConfiguration
  <2> QED
    BY <2>1, <2>2, FS_Surjection
<1> QED
  BY <1>1, <1>5, <1>6, <1>7

\* Two functions that answer the calls made for names alike, and with names.
Alike(v, w, visiting, names) ==
  \/ names = <<>>
  \/ \A d \in STRING : \A o : AreNames(o) =>
       AreNames(v[<<d, visiting, o>>]) /\ v[<<d, visiting, o>>] = w[<<d, visiting, o>>]

\* They order the same.
LEMMA SameVisits ==
  ASSUME NEW v, NEW w, NEW visiting, NEW base, AreNames(base), NEW s, AreNames(s),
         Alike(v, w, visiting, s)
  PROVE  /\ AreNames(VisitAll(v, visiting, base, s))
         /\ VisitAll(v, visiting, base, s) = VisitAll(w, visiting, base, s)
<1> DEFINE n == Len(s)
<1>1. n \in Nat /\ DOMAIN s = 1..n /\ \A k \in 1..n : s[k] \in STRING
  BY LenProperties DEF AreNames
<1>2. s = <<>> => n = 0
  OBVIOUS
<1> HIDE DEF n
<1>3. PICK g : IsPath(v, visiting, base, s, n, g)
  BY <1>1, VisitSteps
<1>4. PICK h : IsPath(w, visiting, base, s, n, h)
  BY <1>1, VisitSteps
<1> DEFINE Done == {k \in Nat : k <= n => AreNames(g[k]) /\ g[k] = h[k]}
<1>5. 0 \in Done
  BY <1>3, <1>4 DEF IsPath
<1>6. ASSUME NEW k \in Nat, k \in Done PROVE k + 1 \in Done
  <2> SUFFICES ASSUME k + 1 <= n PROVE AreNames(g[k+1]) /\ g[k+1] = h[k+1]
    OBVIOUS
  <2>1. AreNames(g[k]) /\ g[k] = h[k] /\ k + 1 \in 1..n /\ (k + 1) - 1 = k
    BY <1>1, <1>6
  <2>2. g[k+1] = v[<<s[k+1], visiting, g[k]>>] /\ h[k+1] = w[<<s[k+1], visiting, g[k]>>]
    BY <1>3, <1>4, <2>1 DEF IsPath
  <2>3. s # <<>> /\ s[k+1] \in STRING
    BY <1>1, <1>2, <2>1
  <2> QED
    BY <2>1, <2>2, <2>3 DEF Alike
<1> HIDE DEF Done
<1>7. n \in Done
  BY <1>1, <1>5, <1>6, Induction
<1> QED
  BY <1>1, <1>3, <1>4, <1>7 DEF Done, IsPath

\* The calls made when fewer than n roles are not on the way to it.
Level(f, n) == {c \in Calls : Cardinality(RoleNames(f) \ c[2]) < n}

\* The calls a call makes are one level down.
LEMMA Deeper ==
  ASSUME NEW f, IsConfiguration(f), NEW n \in Nat, NEW c \in Level(f, n + 1), c[1] \notin c[2],
         RequiredBy(f, c[1]) # <<>>
  PROVE  \A d \in STRING : \A o : AreNames(o) => <<d, c[2] \cup {c[1]}, o>> \in Level(f, n)
<1>1. c[1] \in STRING /\ c[2] \in SUBSET STRING /\ AreNames(c[3])
  BY DEF Level, Calls, AreNames
<1>2. c[1] \in RoleNames(f) /\ IsFiniteSet(RoleNames(f))
  BY Required
<1> DEFINE R == RoleNames(f) \ c[2]
<1>3. IsFiniteSet(R) /\ c[1] \in R /\ Cardinality(R) < n + 1
  BY <1>2, FS_Subset DEF Level
<1>4. RoleNames(f) \ (c[2] \cup {c[1]}) = R \ {c[1]}
  OBVIOUS
<1>5. Cardinality(R) \in Nat /\ Cardinality(R \ {c[1]}) = Cardinality(R) - 1
  BY <1>3, FS_CardinalityType, FS_RemoveElement
<1>6. Cardinality(RoleNames(f) \ (c[2] \cup {c[1]})) < n
  <2> HIDE DEF R
  <2>1. Cardinality(R \ {c[1]}) < n
    BY <1>3, <1>5
  <2> QED
    BY <1>4, <2>1
<1> QED
  BY <1>1, <1>6 DEF Level, Calls, AreNames

\* v answers the calls of a level as visit does.
Solves(f, v, n) == \A c \in Level(f, n) : v[c] = Result(f, v, c) /\ AreNames(v[c])

\* What is true of the calls below is true of a call.
LEMMA ResultOfLevel ==
  ASSUME NEW f, IsConfiguration(f), NEW n \in Nat, NEW v, NEW w, NEW c \in Level(f, n + 1),
         \A x \in Level(f, n) : v[x] = w[x] /\ AreNames(v[x])
  PROVE  Result(f, v, c) = Result(f, w, c) /\ AreNames(Result(f, v, c))
<1>1. c[1] \in STRING /\ c[2] \in SUBSET STRING /\ AreNames(c[3])
  BY DEF Level, Calls, AreNames
<1>2. CASE c[1] \in ToSet(c[3]) \cup c[2]
  BY <1>1, <1>2 DEF Result
<1>3. CASE c[1] \notin ToSet(c[3]) \cup c[2]
  <2> DEFINE s == RequiredBy(f, c[1])
             visiting == c[2] \cup {c[1]}
             after == VisitAll(v, visiting, c[3], s)
  <2>1. AreNames(s)
    BY Required
  <2>2. s = <<>> \/ \A d \in STRING : \A o : AreNames(o) => <<d, visiting, o>> \in Level(f, n)
    BY <1>3, Deeper
  <2>3. Alike(v, w, visiting, s)
    BY <2>2 DEF Alike
  <2>4. AreNames(after) /\ after = VisitAll(w, visiting, c[3], s)
    <3> DEFINE o == c[3]
    <3>1. AreNames(o)
      BY <1>1
    <3> HIDE DEF s, visiting, o
    <3>2. AreNames(VisitAll(v, visiting, o, s)) /\ VisitAll(v, visiting, o, s) = VisitAll(w, visiting, o, s)
      BY <2>1, <2>3, <3>1, SameVisits
    <3> QED
      BY <3>2 DEF o
  <2>5. Result(f, v, c) = IF c[1] \in ToSet(after) THEN after ELSE Append(after, c[1])
    BY <1>3 DEF Result
  <2>6. Result(f, w, c) = IF c[1] \in ToSet(after) THEN after ELSE Append(after, c[1])
    BY <1>3, <2>4 DEF Result
  <2>7. AreNames(Append(after, c[1]))
    <3> HIDE DEF after
    <3> QED
      BY <1>1, <2>4 DEF AreNames
  <2> HIDE DEF after, s, visiting
  <2>8. Result(f, v, c) = Result(f, w, c)
    BY <2>5, <2>6
  <2>9. AreNames(Result(f, v, c))
    BY <2>4, <2>5, <2>7
  <2> QED
    BY <2>8, <2>9
<1> QED
  BY <1>2, <1>3

\* There is a function visit: it is what makes a CHOOSE of it one.
LEMMA VisitExists ==
  ASSUME NEW f, IsConfiguration(f)
  PROVE  \E v : IsVisit(f, v)
<1> DEFINE Done == {n \in Nat : \E v : Solves(f, v, n)}
<1>1. 0 \in Done
  <2>1. \A c \in Calls : Cardinality(RoleNames(f) \ c[2]) \in Nat
    BY Required, FS_Subset, FS_CardinalityType
  <2>2. Level(f, 0) = {}
    BY <2>1 DEF Level
  <2> QED
    BY <2>2 DEF Solves
<1>2. ASSUME NEW n \in Nat, n \in Done PROVE n + 1 \in Done
  <2>1. PICK v : Solves(f, v, n)
    BY <1>2
  <2> DEFINE w == [c \in Calls |-> Result(f, v, c)]
  <2>2. Level(f, n) \subseteq Calls /\ Level(f, n + 1) \subseteq Calls
    BY DEF Level
  <2>3. \A c \in Level(f, n) : v[c] = w[c] /\ AreNames(v[c])
    BY <2>1, <2>2 DEF Solves
  <2>4. ASSUME NEW c \in Level(f, n + 1) PROVE w[c] = Result(f, w, c) /\ AreNames(w[c])
    <3>1. w[c] = Result(f, v, c)
      BY <2>2
    <3> HIDE DEF w
    <3> QED
      BY <2>3, <3>1, ResultOfLevel
  <2>5. Solves(f, w, n + 1)
    BY <2>4 DEF Solves
  <2> QED
    BY <2>5
<1> HIDE DEF Done
<1> DEFINE N == Cardinality(RoleNames(f)) + 1
<1>3. N \in Nat /\ Level(f, N) = Calls /\ Level(f, N + 1) = Calls
  <2>1. IsFiniteSet(RoleNames(f)) /\ Cardinality(RoleNames(f)) \in Nat
    BY Required, FS_CardinalityType
  <2>2. ASSUME NEW c \in Calls PROVE Cardinality(RoleNames(f) \ c[2]) < N /\ Cardinality(RoleNames(f) \ c[2]) < N + 1
    <3>1. RoleNames(f) \ c[2] \subseteq RoleNames(f)
      OBVIOUS
    <3>2. Cardinality(RoleNames(f) \ c[2]) <= Cardinality(RoleNames(f)) /\ Cardinality(RoleNames(f) \ c[2]) \in Nat
      BY <2>1, <3>1, FS_Subset, FS_CardinalityType
    <3> QED
      BY <2>1, <3>2
  <2> QED
    BY <2>1, <2>2 DEF Level
<1> HIDE DEF N
<1>4. N \in Done
  BY <1>1, <1>2, <1>3, Induction
<1>5. PICK v : Solves(f, v, N)
  BY <1>4 DEF Done
<1> DEFINE w == [c \in Calls |-> v[c]]
<1>6. ASSUME NEW c \in Calls PROVE w[c] = Result(f, w, c)
  <2>1. v[c] = Result(f, v, c) /\ \A x \in Level(f, N) : v[x] = w[x] /\ AreNames(v[x])
    BY <1>3, <1>5 DEF Solves
  <2>2. w[c] = v[c]
    OBVIOUS
  <2> HIDE DEF w
  <2> QED
    BY <1>3, <2>1, <2>2, ResultOfLevel
<1>7. w = [c \in Calls |-> Result(f, w, c)]
  BY <1>6
<1> HIDE DEF w
<1> QED
  BY <1>7 DEF IsVisit

-----------------------------------------------------------------------------
(* The order of the roles                                                  *)
\* What has the role required by each of its roles.
IsClosed(f, S) == \A x \in S : ToSet(RequiredBy(f, x)) \subseteq S

\* x requires r, at once or through others.
Leads(f, x, r) == \A S \in SUBSET STRING : x \in S /\ IsClosed(f, S) => r \in S

Ahead(p, k) == {p[j] : j \in 1..(k-1)}

Extends(o, p) == Len(o) <= Len(p) /\ \A k \in 1..Len(o) : p[k] = o[k]

\* What is required by the roles of p that are not of o is there, or the visit is from it.
IsKnown(f, o, p, visiting) ==
  \A k \in (Len(o)+1)..Len(p) : \A d \in ToSet(RequiredBy(f, p[k])) : d \in ToSet(p) \cup visiting

\* It is ahead of them, or leads back to them.
IsPlaced(f, o, p) ==
  \A k \in (Len(o)+1)..Len(p) : \A d \in ToSet(RequiredBy(f, p[k])) :
    d \in Ahead(p, k) \/ Leads(f, d, p[k])

LeadTo(f, visiting, names) == \A x \in visiting : \A d \in names : Leads(f, x, d)

\* p is what visiting the names makes of o.
IsOutcome(f, o, p, visiting, names) ==
  /\ AreNames(p) /\ Extends(o, p) /\ names \subseteq ToSet(p) \cup visiting
  /\ IsKnown(f, o, p, visiting)
  /\ LeadTo(f, visiting, names) => IsPlaced(f, o, p)

\* No visit adds nothing.
LEMMA Nothing ==
  ASSUME NEW f, NEW o, AreNames(o), NEW visiting, NEW names, names \subseteq ToSet(o) \cup visiting
  PROVE  IsOutcome(f, o, o, visiting, names)
<1>1. Len(o) \in Nat
  BY LenProperties DEF AreNames
<1>2. (Len(o)+1)..Len(o) = {}
  BY <1>1
<1>3. Extends(o, o)
  BY <1>1 DEF Extends
<1> QED
  BY <1>2, <1>3 DEF IsOutcome, IsKnown, IsPlaced

\* A longer list holds what the shorter one holds, where it holds it.
LEMMA Longer ==
  ASSUME NEW o, AreNames(o), NEW p, AreNames(p), Extends(o, p)
  PROVE  /\ ToSet(o) \subseteq ToSet(p)
         /\ Len(o) \in Nat /\ Len(p) \in Nat /\ Len(o) <= Len(p)
         /\ \A k \in 1..Len(o) : p[k] = o[k] /\ Ahead(p, k) = Ahead(o, k)
<1>1. Len(o) \in Nat /\ Len(p) \in Nat /\ Len(o) <= Len(p) /\ \A k \in 1..Len(o) : p[k] = o[k]
  BY LenProperties DEF AreNames, Extends
<1>2. /\ \A x : x \in ToSet(o) <=> \E k \in 1..Len(o) : o[k] = x
      /\ \A x : x \in ToSet(p) <=> \E k \in 1..Len(p) : p[k] = x
  BY Elements DEF AreNames
<1>3. ToSet(o) \subseteq ToSet(p)
  <2>1. \A k \in 1..Len(o) : k \in 1..Len(p)
    BY <1>1
  <2> QED
    BY <1>1, <1>2, <2>1
<1>4. ASSUME NEW k \in 1..Len(o) PROVE Ahead(p, k) = Ahead(o, k)
  <2>1. \A j \in 1..(k-1) : p[j] = o[j]
    BY <1>1
  <2> QED
    BY <2>1 DEF Ahead
<1> QED
  BY <1>1, <1>3, <1>4

\* One loop after another.
LEMMA Chained ==
  ASSUME NEW f, NEW visiting, NEW o, AreNames(o), NEW p, NEW q, NEW S, NEW T,
         IsOutcome(f, o, p, visiting, S), IsOutcome(f, p, q, visiting, T)
  PROVE  IsOutcome(f, o, q, visiting, S \cup T)
<1>1. AreNames(p) /\ AreNames(q) /\ Extends(o, p) /\ Extends(p, q)
  BY DEF IsOutcome
<1>2. /\ ToSet(o) \subseteq ToSet(p) /\ Len(o) \in Nat /\ Len(p) \in Nat /\ Len(o) <= Len(p)
      /\ \A k \in 1..Len(o) : p[k] = o[k] /\ Ahead(p, k) = Ahead(o, k)
  BY <1>1, Longer
<1>3. /\ ToSet(p) \subseteq ToSet(q) /\ Len(q) \in Nat /\ Len(p) <= Len(q)
      /\ \A k \in 1..Len(p) : q[k] = p[k] /\ Ahead(q, k) = Ahead(p, k)
  BY <1>1, Longer
<1>4. Extends(o, q)
  BY <1>2, <1>3 DEF Extends
<1>5. S \cup T \subseteq ToSet(q) \cup visiting
  BY <1>3 DEF IsOutcome
<1>6. \A k \in (Len(o)+1)..Len(q) :
         \/ k \in (Len(o)+1)..Len(p) /\ k \in 1..Len(p)
         \/ k \in (Len(p)+1)..Len(q)
  BY <1>2, <1>3
<1>7. IsKnown(f, o, q, visiting)
  <2> SUFFICES ASSUME NEW k \in (Len(o)+1)..Len(q), NEW d \in ToSet(RequiredBy(f, q[k]))
               PROVE  d \in ToSet(q) \cup visiting
    BY DEF IsKnown
  <2>1. CASE k \in (Len(o)+1)..Len(p) /\ k \in 1..Len(p)
    BY <1>3, <2>1 DEF IsOutcome, IsKnown
  <2>2. CASE k \in (Len(p)+1)..Len(q)
    BY <2>2 DEF IsOutcome, IsKnown
  <2> QED
    BY <1>6, <2>1, <2>2
<1>8. ASSUME LeadTo(f, visiting, S \cup T) PROVE IsPlaced(f, o, q)
  <2>1. LeadTo(f, visiting, S) /\ LeadTo(f, visiting, T)
    BY <1>8 DEF LeadTo
  <2>2. IsPlaced(f, o, p) /\ IsPlaced(f, p, q)
    BY <2>1 DEF IsOutcome
  <2> SUFFICES ASSUME NEW k \in (Len(o)+1)..Len(q), NEW d \in ToSet(RequiredBy(f, q[k]))
               PROVE  d \in Ahead(q, k) \/ Leads(f, d, q[k])
    BY DEF IsPlaced
  <2>3. CASE k \in (Len(o)+1)..Len(p) /\ k \in 1..Len(p)
    BY <1>3, <2>2, <2>3 DEF IsPlaced
  <2>4. CASE k \in (Len(p)+1)..Len(q)
    BY <2>2, <2>4 DEF IsPlaced
  <2> QED
    BY <1>6, <2>3, <2>4
<1> QED
  BY <1>1, <1>4, <1>5, <1>7, <1>8 DEF IsOutcome

\* The calls made for the names have the outcome they should have.
DoesWell(f, v, visiting, names) ==
  \/ names = <<>>
  \/ \A d \in STRING : \A o : AreNames(o) => IsOutcome(f, o, v[<<d, visiting, o>>], visiting, {d})

\* Then so does the loop.
LEMMA LoopOutcome ==
  ASSUME NEW f, NEW v, NEW visiting, NEW base, AreNames(base), NEW s, AreNames(s),
         DoesWell(f, v, visiting, s)
  PROVE  IsOutcome(f, base, VisitAll(v, visiting, base, s), visiting, ToSet(s))
<1> DEFINE n == Len(s)
           first(k) == {s[j] : j \in 1..k}
<1>1. n \in Nat /\ DOMAIN s = 1..n /\ (\A k \in 1..n : s[k] \in STRING) /\ ToSet(s) = first(n)
  BY LenProperties DEF AreNames, ToSet
<1>2. s = <<>> => n = 0
  OBVIOUS
<1> HIDE DEF n
<1>3. PICK h : IsPath(v, visiting, base, s, n, h)
  BY <1>1, VisitSteps
<1> DEFINE Done == {k \in Nat : k <= n => AreNames(h[k]) /\ IsOutcome(f, base, h[k], visiting, first(k))}
<1>4. 0 \in Done
  <2>1. h[0] = base /\ first(0) = {}
    BY <1>3 DEF IsPath
  <2>2. IsOutcome(f, base, base, visiting, {})
    BY Nothing
  <2> QED
    BY <2>1, <2>2
<1>5. ASSUME NEW k \in Nat, k \in Done PROVE k + 1 \in Done
  <2> SUFFICES ASSUME k + 1 <= n
               PROVE  AreNames(h[k+1]) /\ IsOutcome(f, base, h[k+1], visiting, first(k+1))
    OBVIOUS
  <2>1. AreNames(h[k]) /\ IsOutcome(f, base, h[k], visiting, first(k)) /\ k + 1 \in 1..n /\ (k + 1) - 1 = k
    <3> HIDE DEF first
    <3>1. k <= n /\ k + 1 \in 1..n /\ (k + 1) - 1 = k
      BY <1>1
    <3> QED
      BY <1>5, <3>1
  <2>2. h[k+1] = v[<<s[k+1], visiting, h[k]>>]
    BY <1>3, <2>1 DEF IsPath
  <2>3. s # <<>> /\ s[k+1] \in STRING
    BY <1>1, <1>2, <2>1
  <2>4. IsOutcome(f, h[k], h[k+1], visiting, {s[k+1]})
    BY <2>1, <2>2, <2>3 DEF DoesWell
  <2>5. first(k+1) = first(k) \cup {s[k+1]}
    <3>1. 1..(k+1) = 1..k \cup {k+1}
      OBVIOUS
    <3> QED
      BY <3>1
  <2>6. IsOutcome(f, base, h[k+1], visiting, first(k) \cup {s[k+1]})
    <3> HIDE DEF first
    <3> QED
      BY <2>1, <2>4, Chained
  <2> HIDE DEF first
  <2> QED
    BY <2>5, <2>6 DEF IsOutcome
<1> HIDE DEF Done
<1>6. n \in Done
  BY <1>1, <1>4, <1>5, Induction
<1>7. VisitAll(v, visiting, base, s) = h[n]
  BY <1>3 DEF IsPath
<1> QED
  BY <1>1, <1>6, <1>7 DEF Done

\* A role leads to itself, and to what is required by what it leads to.
LEMMA Leading ==
  ASSUME NEW f
  PROVE  /\ \A x : Leads(f, x, x)
         /\ \A x, y, z : Leads(f, x, y) /\ z \in ToSet(RequiredBy(f, y)) => Leads(f, x, z)
<1>1. \A x : Leads(f, x, x)
  BY DEF Leads
<1>2. ASSUME NEW x, NEW y, NEW z, Leads(f, x, y), z \in ToSet(RequiredBy(f, y)) PROVE Leads(f, x, z)
  BY <1>2 DEF Leads, IsClosed
<1> QED
  BY <1>1, <1>2

\* A call does well when the calls it makes do.
LEMMA CallOutcome ==
  ASSUME NEW f, IsConfiguration(f), NEW v, NEW c \in Calls,
         c[1] \notin c[2] => DoesWell(f, v, c[2] \cup {c[1]}, RequiredBy(f, c[1]))
  PROVE  IsOutcome(f, c[3], Result(f, v, c), c[2], {c[1]})
<1> DEFINE name == c[1]
           visiting == c[2]
           o == c[3]
           s == RequiredBy(f, name)
           after == VisitAll(v, visiting \cup {name}, o, s)
           p == Result(f, v, c)
<1>1. name \in STRING /\ visiting \in SUBSET STRING /\ AreNames(o)
  BY DEF Calls, AreNames
<1>2. AreNames(s)
  BY Required
<1>3. CASE name \in ToSet(o) \cup visiting
  <2>1. p = o
    BY <1>3 DEF Result
  <2> HIDE DEF p, o, name, visiting
  <2>2. {name} \subseteq ToSet(o) \cup visiting
    BY <1>3
  <2>3. IsOutcome(f, o, o, visiting, {name})
    BY <1>1, <2>2, Nothing
  <2> QED
    BY <2>1, <2>3 DEF p, o, name, visiting
<1>4. CASE name \notin ToSet(o) \cup visiting
  <2>1. p = IF name \in ToSet(after) THEN after ELSE Append(after, name)
    BY <1>4 DEF Result
  <2>2. DoesWell(f, v, visiting \cup {name}, s)
    BY <1>4
  <2> HIDE DEF p, s, o, name, visiting
  <2>3. IsOutcome(f, o, after, visiting \cup {name}, ToSet(s))
    BY <1>1, <1>2, <2>2, LoopOutcome
  <2> HIDE DEF after
  <2>4. AreNames(after) /\ Extends(o, after) /\ Len(after) \in Nat /\ Len(o) \in Nat
    BY <1>1, <2>3, Longer DEF IsOutcome
  <2>5. ToSet(s) \subseteq ToSet(after) \cup visiting \cup {name}
    BY <2>3 DEF IsOutcome
  <2>6. ASSUME LeadTo(f, visiting, {name}) PROVE IsPlaced(f, o, after)
    <3>1. ASSUME NEW x \in visiting \cup {name}, NEW d \in ToSet(s) PROVE Leads(f, x, d)
      <4>1. Leads(f, x, name)
        BY <2>6, Leading DEF LeadTo
      <4> QED
        BY <4>1, Leading DEF s
    <3>2. LeadTo(f, visiting \cup {name}, ToSet(s))
      BY <3>1 DEF LeadTo
    <3> QED
      BY <2>3, <3>2 DEF IsOutcome
  <2>7. CASE name \in ToSet(after)
    <3>1. p = after
      BY <2>1, <2>7
    <3>2. IsKnown(f, o, after, visiting)
      BY <2>3, <2>7 DEF IsOutcome, IsKnown
    <3> QED
      BY <2>4, <2>6, <2>7, <3>1, <3>2 DEF IsOutcome, p, o, name, visiting
  <2>8. CASE name \notin ToSet(after)
    <3> DEFINE q == Append(after, name)
    <3>1. /\ AreNames(q) /\ Len(q) = Len(after) + 1 /\ q[Len(after)+1] = name
          /\ \A k \in 1..Len(after) : q[k] = after[k]
      <4>1. PICK S : S = STRING
        OBVIOUS
      <4>2. after \in Seq(S) /\ name \in S
        BY <1>1, <2>4, <4>1 DEF AreNames
      <4>3. q \in Seq(S) /\ Len(q) = Len(after) + 1 /\ q[Len(after)+1] = name
        BY <4>2, AppendProperties
      <4>4. \A k \in 1..Len(after) : q[k] = after[k]
        BY <4>2, AppendProperties
      <4> HIDE DEF q
      <4>5. AreNames(q)
        BY <4>1, <4>3 DEF AreNames
      <4> QED
        BY <4>3, <4>4, <4>5
    <3>2. p = q
      BY <2>1, <2>8
    <3> HIDE DEF q
    <3>3. Extends(after, q)
      BY <2>4, <3>1 DEF Extends
    <3>4. /\ ToSet(after) \subseteq ToSet(q) /\ Len(q) \in Nat
          /\ \A k \in 1..Len(after) : q[k] = after[k] /\ Ahead(q, k) = Ahead(after, k)
      BY <2>4, <3>1, <3>3, Longer
    <3>5. name \in ToSet(q)
      <4>1. Len(after) + 1 \in 1..Len(q)
        BY <2>4, <3>1
      <4>2. \A x : x \in ToSet(q) <=> \E k \in 1..Len(q) : q[k] = x
        BY <3>1, Elements DEF AreNames
      <4> QED
        BY <3>1, <4>1, <4>2
    <3>6. Extends(o, q)
      <4>1. Len(o) <= Len(after) /\ \A k \in 1..Len(o) : after[k] = o[k]
        BY <2>4 DEF Extends
      <4> QED
        BY <2>4, <3>1, <4>1 DEF Extends
    <3>7. \A k \in (Len(o)+1)..Len(q) : \/ k \in (Len(o)+1)..Len(after) /\ k \in 1..Len(after)
                                        \/ k = Len(after) + 1
      BY <2>4, <3>1
    <3>8. IsKnown(f, o, q, visiting)
      <4> SUFFICES ASSUME NEW k \in (Len(o)+1)..Len(q), NEW d \in ToSet(RequiredBy(f, q[k]))
                   PROVE  d \in ToSet(q) \cup visiting
        BY DEF IsKnown
      <4>1. CASE k \in (Len(o)+1)..Len(after) /\ k \in 1..Len(after)
        <5>1. d \in ToSet(after) \cup visiting \cup {name}
          BY <2>3, <3>4, <4>1 DEF IsOutcome, IsKnown
        <5> QED
          BY <3>4, <3>5, <5>1
      <4>2. CASE k = Len(after) + 1
        <5>1. d \in ToSet(s)
          BY <3>1, <4>2 DEF s
        <5> QED
          BY <2>5, <3>4, <3>5, <5>1
      <4> QED
        BY <3>7, <4>1, <4>2
    <3>9. ASSUME LeadTo(f, visiting, {name}) PROVE IsPlaced(f, o, q)
      <4> SUFFICES ASSUME NEW k \in (Len(o)+1)..Len(q), NEW d \in ToSet(RequiredBy(f, q[k]))
                   PROVE  d \in Ahead(q, k) \/ Leads(f, d, q[k])
        BY DEF IsPlaced
      <4>1. CASE k \in (Len(o)+1)..Len(after) /\ k \in 1..Len(after)
        BY <2>6, <3>4, <3>9, <4>1 DEF IsPlaced
      <4>2. CASE k = Len(after) + 1
        <5>1. d \in ToSet(s) /\ q[k] = name
          BY <3>1, <4>2 DEF s
        <5>2. CASE d \in ToSet(after)
          <6>1. PICK j \in 1..Len(after) : after[j] = d
            BY <2>4, <5>2, Elements DEF AreNames
          <6>2. q[j] = d /\ j \in 1..(k-1)
            BY <2>4, <3>1, <4>2, <6>1
          <6> QED
            BY <6>2 DEF Ahead
        <5>3. CASE d \in visiting \cup {name}
          <6>1. Leads(f, d, name)
            BY <3>9, <5>3, Leading DEF LeadTo
          <6> QED
            BY <5>1, <6>1
        <5> QED
          BY <2>5, <5>1, <5>2, <5>3
      <4> QED
        BY <3>7, <4>1, <4>2
    <3> QED
      BY <3>1, <3>2, <3>5, <3>6, <3>8, <3>9 DEF IsOutcome, p, o, name, visiting
  <2> QED
    BY <2>7, <2>8
<1> QED
  BY <1>3, <1>4

\* Every call does well.
LEMMA VisitOutcome ==
  ASSUME NEW f, IsConfiguration(f), NEW c \in Calls
  PROVE  IsOutcome(f, c[3], Visit(f)[c], c[2], {c[1]})
<1> DEFINE v == Visit(f)
           Done == {n \in Nat : \A x \in Level(f, n) : IsOutcome(f, x[3], v[x], x[2], {x[1]})}
<1>1. \A x \in Calls : v[x] = Result(f, v, x)
  <2>1. IsVisit(f, v)
    BY VisitExists, VisitIs
  <2> HIDE DEF v
  <2> QED
    BY <2>1 DEF IsVisit
<1> HIDE DEF v
<1>2. 0 \in Done
  <2>1. \A x \in Calls : Cardinality(RoleNames(f) \ x[2]) \in Nat
    BY Required, FS_Subset, FS_CardinalityType
  <2>2. Level(f, 0) = {}
    BY <2>1 DEF Level
  <2> QED
    BY <2>2
<1>3. ASSUME NEW n \in Nat, n \in Done PROVE n + 1 \in Done
  <2> SUFFICES ASSUME NEW x \in Level(f, n + 1) PROVE IsOutcome(f, x[3], v[x], x[2], {x[1]})
    OBVIOUS
  <2>1. x \in Calls
    BY DEF Level
  <2>2. ASSUME x[1] \notin x[2] PROVE DoesWell(f, v, x[2] \cup {x[1]}, RequiredBy(f, x[1]))
    <3>1. CASE RequiredBy(f, x[1]) = <<>>
      BY <3>1 DEF DoesWell
    <3>2. CASE RequiredBy(f, x[1]) # <<>>
      <4> DEFINE visiting == x[2] \cup {x[1]}
      <4>1. ASSUME NEW d \in STRING, NEW o, AreNames(o) PROVE IsOutcome(f, o, v[<<d, visiting, o>>], visiting, {d})
        <5> DEFINE y == <<d, visiting, o>>
        <5>1. y \in Level(f, n)
          BY <2>2, <3>2, <4>1, Deeper
        <5>2. y[1] = d /\ y[2] = visiting /\ y[3] = o
          OBVIOUS
        <5> HIDE DEF y
        <5>3. IsOutcome(f, y[3], v[y], y[2], {y[1]})
          BY <1>3, <5>1
        <5>4. v[y] = v[<<d, visiting, o>>]
          BY DEF y
        <5> HIDE DEF visiting
        <5> QED
          BY <5>2, <5>3, <5>4
      <4> QED
        BY <4>1 DEF DoesWell
    <3> QED
      BY <3>1, <3>2
  <2>3. IsOutcome(f, x[3], Result(f, v, x), x[2], {x[1]})
    BY <2>1, <2>2, CallOutcome
  <2> QED
    BY <1>1, <2>1, <2>3
<1> HIDE DEF Done
<1> DEFINE n == Cardinality(RoleNames(f) \ c[2])
<1>4. n \in Nat /\ c \in Level(f, n + 1)
  <2>1. n \in Nat
    BY Required, FS_Subset, FS_CardinalityType
  <2> QED
    BY <2>1 DEF Level
<1> HIDE DEF n
<1>5. n + 1 \in Done
  BY <1>2, <1>3, <1>4, Induction
<1> QED
  BY <1>4, <1>5 DEF Done, v

\* What _ordered_roles gives for the names that are wanted.
LEMMA Ordered ==
  ASSUME NEW f, IsConfiguration(f), NEW hosts, NEW wanted, AreNames(wanted),
         wanted = Distinct(FlattenSeq([k \in DOMAIN hosts |-> hosts[k].roles]))
  PROVE  LET L == OrderedRoles(f, hosts)
         IN  /\ AreNames(L) /\ ToSet(wanted) \subseteq ToSet(L) /\ IsClosed(f, ToSet(L))
             /\ \A k \in 1..Len(L) : \A d \in ToSet(RequiredBy(f, L[k])) :
                  d \in Ahead(L, k) \/ Leads(f, d, L[k])
<1> DEFINE v == Visit(f)
           L == VisitAll(v, {}, <<>>, wanted)
<1>1. OrderedRoles(f, hosts) = L
  BY DEF OrderedRoles
<1>2. ASSUME NEW d \in STRING, NEW o, AreNames(o) PROVE IsOutcome(f, o, v[<<d, {}, o>>], {}, {d})
  <2> DEFINE y == <<d, {}, o>>
  <2>1. y \in Calls
    BY <1>2 DEF Calls, AreNames
  <2>2. y[1] = d /\ y[2] = {} /\ y[3] = o
    OBVIOUS
  <2> HIDE DEF y
  <2>3. IsOutcome(f, y[3], v[y], y[2], {y[1]})
    BY <2>1, VisitOutcome
  <2>4. v[y] = v[<<d, {}, o>>]
    BY DEF y
  <2> HIDE DEF v
  <2> QED
    BY <2>2, <2>3, <2>4
<1>3. DoesWell(f, v, {}, wanted)
  BY <1>2 DEF DoesWell
<1>4. AreNames(<<>>) /\ Len(<<>>) = 0
  BY DEF AreNames
<1> HIDE DEF v
<1>5. IsOutcome(f, <<>>, L, {}, ToSet(wanted))
  BY <1>3, <1>4, LoopOutcome
<1> HIDE DEF L
<1>6. /\ AreNames(L) /\ ToSet(wanted) \subseteq ToSet(L) /\ IsKnown(f, <<>>, L, {})
      /\ IsPlaced(f, <<>>, L)
  BY <1>5 DEF IsOutcome, LeadTo
<1>7. Len(L) \in Nat /\ \A x : x \in ToSet(L) <=> \E k \in 1..Len(L) : L[k] = x
  BY <1>6, LenProperties, Elements DEF AreNames
<1>8. \A k \in 1..Len(L) : k \in (0+1)..Len(L)
  BY <1>7
<1>9. \A k \in 1..Len(L) : \A d \in ToSet(RequiredBy(f, L[k])) : d \in ToSet(L)
  BY <1>4, <1>6, <1>8 DEF IsKnown
<1>10. IsClosed(f, ToSet(L))
  BY <1>7, <1>9 DEF IsClosed
<1>11. \A k \in 1..Len(L) : \A d \in ToSet(RequiredBy(f, L[k])) : d \in Ahead(L, k) \/ Leads(f, d, L[k])
  BY <1>4, <1>6, <1>8 DEF IsPlaced
<1> QED
  BY <1>1, <1>6, <1>10, <1>11

\* The names wanted by a list of hosts.
LEMMA WantedBy ==
  ASSUME NEW hosts, IsList(hosts), \A h \in ToSet(hosts) : AreNames(h.roles),
         NEW wanted, wanted = Distinct(FlattenSeq([k \in DOMAIN hosts |-> hosts[k].roles]))
  PROVE  AreNames(wanted) /\ \A x : x \in ToSet(wanted) <=> \E h \in ToSet(hosts) : x \in ToSet(h.roles)
<1> DEFINE ss == [k \in DOMAIN hosts |-> hosts[k].roles]
           n == Len(hosts)
<1>1. n \in Nat /\ DOMAIN hosts = 1..n /\ \A h : h \in ToSet(hosts) <=> \E k \in 1..n : hosts[k] = h
  BY ListIs
<1> HIDE DEF n
<1>2. PICK S : S = STRING
  OBVIOUS
<1>3. \A k \in 1..n : hosts[k].roles \in Seq(S)
  BY <1>1, <1>2 DEF AreNames
<1>4. ss \in Seq(Seq(S)) /\ Len(ss) = n /\ \A k \in 1..n : ss[k] = hosts[k].roles
  <2>1. ss \in [1..n -> Seq(S)]
    BY <1>1, <1>3
  <2>2. \A k \in 1..n : ss[k] = hosts[k].roles
    BY <1>1
  <2> HIDE DEF ss
  <2> QED
    BY <1>1, <2>1, <2>2, Comprehension
<1> HIDE DEF ss
<1>5. /\ FlattenSeq(ss) \in Seq(S)
      /\ \A x : x \in ToSet(FlattenSeq(ss)) <=> \E k \in 1..Len(ss) : x \in ToSet(ss[k])
  BY <1>4, Flattened
<1>6. Distinct(FlattenSeq(ss)) \in Seq(S) /\ ToSet(Distinct(FlattenSeq(ss))) = ToSet(FlattenSeq(ss))
  BY <1>5, Deduplicated
<1>7. wanted = Distinct(FlattenSeq(ss))
  BY DEF ss
<1>8. AreNames(wanted)
  BY <1>2, <1>6, <1>7 DEF AreNames
<1>9. \A x : x \in ToSet(wanted) <=> \E k \in 1..n : x \in ToSet(hosts[k].roles)
  BY <1>4, <1>5, <1>6, <1>7
<1> QED
  BY <1>1, <1>8, <1>9

\* A role that leads to another brings it.
LEMMA LeadsBrings ==
  ASSUME NEW f, IsConfiguration(f), NEW d \in STRING, NEW r, Leads(f, d, r)
  PROVE  r \in ToSet(OrderedRoles(f, <<[roles |-> <<d>>]>>))
<1> DEFINE host == [roles |-> <<d>>]
           hosts == <<host>>
           wanted == Distinct(FlattenSeq([k \in DOMAIN hosts |-> hosts[k].roles]))
           L == OrderedRoles(f, hosts)
<1>1. host.roles = <<d>> /\ AreNames(host.roles) /\ d \in ToSet(host.roles)
  BY DEF AreNames, ToSet
<1> HIDE DEF host
<1>2. IsList(hosts) /\ ToSet(hosts) = {host}
  BY DEF IsList, ToSet
<1>3. AreNames(wanted) /\ d \in ToSet(wanted)
  <2> HIDE DEF hosts
  <2> HIDE DEF wanted
  <2>1. wanted = Distinct(FlattenSeq([k \in DOMAIN hosts |-> hosts[k].roles]))
    BY DEF wanted
  <2> QED
    BY <1>1, <1>2, <2>1, WantedBy
<1>4. AreNames(L) /\ ToSet(wanted) \subseteq ToSet(L) /\ IsClosed(f, ToSet(L))
  <2> HIDE DEF hosts
  <2> HIDE DEF wanted
  <2>1. wanted = Distinct(FlattenSeq([k \in DOMAIN hosts |-> hosts[k].roles]))
    BY DEF wanted
  <2> QED
    BY <1>3, <2>1, Ordered
<1> HIDE DEF L, wanted
<1>5. ToSet(L) \in SUBSET STRING
  BY <1>4, Elements DEF AreNames
<1>6. r \in ToSet(L)
  BY <1>3, <1>4, <1>5 DEF Leads
<1> QED
  BY <1>6 DEF L, hosts, host

\* The groups of a configuration are those of its hosts.
LEMMA GroupsOf ==
  ASSUME NEW f, IsConfiguration(f), NEW h \in ToSet(f.hosts), NEW g \in ToSet(h.groups)
  PROVE  /\ IsList(Groups(f)) /\ g \in ToSet(Groups(f))
         /\ IsList(HostsInGroup(f, g)) /\ h \in ToSet(HostsInGroup(f, g))
         /\ ToSet(HostsInGroup(f, g)) \subseteq ToSet(f.hosts)
<1> DEFINE ss == [k \in DOMAIN f.hosts |-> f.hosts[k].groups]
           n == Len(f.hosts)
<1>1. /\ n \in Nat /\ DOMAIN f.hosts = 1..n
      /\ \A x : x \in ToSet(f.hosts) <=> \E k \in 1..n : f.hosts[k] = x
  BY ListIs DEF IsConfiguration
<1>2. ss = [k \in 1..n |-> ss[k]] /\ \A k \in 1..n : ss[k] = f.hosts[k].groups
  BY <1>1
<1>3. \A k \in 1..n : IsList(ss[k])
  BY <1>1, <1>2 DEF IsConfiguration
<1>4. Groups(f) = Distinct(FlattenSeq(ss))
  BY DEF Groups
<1> HIDE DEF ss, n
<1>5. IsList(FlattenSeq(ss)) /\ \A x : x \in ToSet(FlattenSeq(ss)) <=> \E k \in 1..n : x \in ToSet(ss[k])
  BY <1>1, <1>2, <1>3, FlattenedList
<1>6. /\ Distinct(FlattenSeq(ss)) \in Seq(ToSet(FlattenSeq(ss)))
      /\ ToSet(Distinct(FlattenSeq(ss))) = ToSet(FlattenSeq(ss))
  BY <1>5, Deduplicated DEF IsList
<1>7. IsList(Groups(f)) /\ ToSet(Groups(f)) = ToSet(FlattenSeq(ss))
  BY <1>4, <1>6 DEF IsList
<1>8. g \in ToSet(Groups(f))
  BY <1>1, <1>2, <1>5, <1>7
<1>9. IsList(f.hosts)
  BY DEF IsConfiguration
<1>10. /\ IsList(HostsInGroup(f, g))
       /\ ToSet(HostsInGroup(f, g)) = ToSet(f.hosts) \cap {x \in ToSet(f.hosts) : g \in ToSet(x.groups)}
  BY <1>9, SelectedList DEF HostsInGroup
<1> QED
  BY <1>7, <1>8, <1>10

\* A play brings r to a host, after the roles it requires unless they lead back.
Reaches(f, p, h, r) ==
  \E k \in DOMAIN p.roles :
    /\ h.id \in p.hosts /\ p.roles[k] = r
    /\ \A d \in ToSet(RequiredBy(f, r)) \cap RoleNames(f) :
         \/ d \in Ahead(p.roles, k)
         \/ r \in ToSet(OrderedRoles(f, <<[roles |-> <<d>>]>>))

\* Every defined role of a host in a group is brought to it.
LEMMA PlaysReach ==
  ASSUME NEW f, IsConfiguration(f), NEW h \in ToSet(f.hosts), h.groups # <<>>,
         NEW r \in ToSet(h.roles), r \in RoleNames(f)
  PROVE  \E p \in ToSet(Plays(f)) : Reaches(f, p, h, r)
<1>1. IsList(h.groups) /\ AreNames(h.roles)
  BY DEF IsConfiguration
<1>2. PICK g : g \in ToSet(h.groups)
  BY <1>1, ListIs
<1> DEFINE groups == Groups(f)
           hosts(x) == HostsInGroup(f, x)
           roles(x) == Only(OrderedRoles(f, hosts(x)), RoleNames(f))
           play(x) == [hosts |-> {y.id : y \in ToSet(hosts(x))}, group |-> x, roles |-> roles(x)]
           n == Len(groups)
           ss == [k \in DOMAIN groups |-> IF roles(groups[k]) = <<>> THEN <<>> ELSE <<play(groups[k])>>]
           plays == [k \in 1..n |-> play(groups[k])]
           wanted == Distinct(FlattenSeq([k \in DOMAIN hosts(g) |-> hosts(g)[k].roles]))
           L == OrderedRoles(f, hosts(g))
           p == play(g)
<1>3. /\ IsList(groups) /\ g \in ToSet(groups) /\ IsList(hosts(g)) /\ h \in ToSet(hosts(g))
      /\ ToSet(hosts(g)) \subseteq ToSet(f.hosts)
  BY <1>2, GroupsOf
<1>4. \A x \in ToSet(hosts(g)) : AreNames(x.roles)
  BY <1>3 DEF IsConfiguration
<1>5. AreNames(wanted) /\ r \in ToSet(wanted)
  <2> HIDE DEF wanted, hosts
  <2>1. wanted = Distinct(FlattenSeq([k \in DOMAIN hosts(g) |-> hosts(g)[k].roles]))
    BY DEF wanted
  <2> QED
    BY <1>3, <1>4, <2>1, WantedBy
<1>6. /\ AreNames(L) /\ ToSet(wanted) \subseteq ToSet(L)
      /\ \A k \in 1..Len(L) : \A d \in ToSet(RequiredBy(f, L[k])) : d \in Ahead(L, k) \/ Leads(f, d, L[k])
  <2> HIDE DEF wanted, hosts
  <2>1. wanted = Distinct(FlattenSeq([k \in DOMAIN hosts(g) |-> hosts(g)[k].roles]))
    BY DEF wanted
  <2> QED
    BY <1>5, <2>1, Ordered
<1>7. roles(g) = Only(L, RoleNames(f)) /\ p.roles = Only(L, RoleNames(f)) /\ h.id \in p.hosts
  BY <1>3
<1> HIDE DEF L, wanted
<1>8. /\ IsList(L) /\ Len(L) \in Nat /\ \A x : x \in ToSet(L) <=> \E k \in 1..Len(L) : L[k] = x
  BY <1>6, Elements, LenProperties DEF AreNames, IsList
<1>9. PICK j \in 1..Len(L) : L[j] = r
  BY <1>5, <1>6, <1>8
<1> DEFINE q == Only(L, RoleNames(f))
<1>10. IsList(q)
  BY <1>8, SelectedList
<1>11. IsSpot(q, L, RoleNames(f), j)
  BY <1>8, <1>9, SelectedInOrder
<1> HIDE DEF q
<1>12. PICK k \in 1..Len(q) :
         /\ q[k] = r
         /\ \A i \in 1..(j-1) : L[i] \in RoleNames(f) => \E m \in 1..(k-1) : q[m] = L[i]
  BY <1>9, <1>11 DEF IsSpot
<1>13. Len(q) \in Nat /\ DOMAIN q = 1..Len(q) /\ q # <<>>
  BY <1>10, <1>12, ListIs
<1>14. ASSUME NEW d \in ToSet(RequiredBy(f, r)), d \in RoleNames(f)
       PROVE  d \in Ahead(q, k) \/ r \in ToSet(OrderedRoles(f, <<[roles |-> <<d>>]>>))
  <2>1. d \in Ahead(L, j) \/ Leads(f, d, r)
    BY <1>6, <1>9
  <2>2. CASE d \in Ahead(L, j)
    <3>1. PICK i \in 1..(j-1) : L[i] = d
      BY <2>2 DEF Ahead
    <3>2. PICK m \in 1..(k-1) : q[m] = d
      BY <1>12, <1>14, <3>1
    <3> QED
      BY <3>2 DEF Ahead
  <2>3. CASE Leads(f, d, r)
    <3>1. d \in STRING
      BY <1>14 DEF RoleNames, IsConfiguration
    <3> QED
      BY <2>3, <3>1, LeadsBrings
  <2> QED
    BY <2>1, <2>2, <2>3
<1>15. p.roles = q
  BY <1>7 DEF q
<1>16. Reaches(f, p, h, r)
  <2> HIDE DEF p
  <2> QED
    BY <1>7, <1>12, <1>13, <1>14, <1>15 DEF Reaches
<1>17. Plays(f) = FlattenSeq(ss)
  BY DEF Plays
<1>18. n \in Nat /\ DOMAIN groups = 1..n /\ \E i \in 1..n : groups[i] = g
  BY <1>3, ListIs
<1>19. PICK i \in 1..n : groups[i] = g
  BY <1>18
<1>20. /\ \A e \in 1..n : ss[e] = <<>> \/ ss[e] = <<plays[e]>>
       /\ ss = [e \in 1..n |-> ss[e]]
  BY <1>18
<1>21. ss[i] # <<>> /\ plays[i] = p
  BY <1>7, <1>13, <1>18, <1>19 DEF q
<1>22. IsSieve(n, plays, ss)
  <2> HIDE DEF n, plays, ss
  <2> QED
    BY <1>18, <1>20 DEF IsSieve
<1>23. p \in ToSet(FlattenSeq(ss))
  <2> HIDE DEF n, plays, ss, p
  <2> QED
    BY <1>21, <1>22, Sieved
<1> QED
  BY <1>16, <1>17, <1>23

-----------------------------------------------------------------------------
(* The files of the roles                                                  *)
RoleFile(r, section) == <<"roles", r.name, section>>

\* The files every role has, and those its assets are copied from.
LEMMA RoleFilesOf ==
  ASSUME NEW r, IsFiniteSet(r.files)
  PROVE  /\ IsList(RoleFiles(r))
         /\ RoleFile(r, "tasks") \in ToSet(RoleFiles(r)) /\ RoleFile(r, "meta") \in ToSet(RoleFiles(r))
         /\ \A a \in Assets(r) : <<"roles", r.name, "files", a>> \in ToSet(RoleFiles(r))
<1> DEFINE S == {x \in r.files : x.content}
           content == SetToSeq(S)
           n == Len(content)
           copies == [k \in DOMAIN content |-> Append(RoleFile(r, "files"), AssetName(content[k].path))]
           always == <<RoleFile(r, "tasks"), RoleFile(r, "meta")>>
           handlers == IF r.services = {} THEN <<>> ELSE <<RoleFile(r, "handlers")>>
           defaults == IF r.variables = {} THEN <<>> ELSE <<RoleFile(r, "defaults")>>
<1>1. RoleFiles(r) = always \o handlers \o defaults \o copies
  BY DEF RoleFiles, RoleFile
<1>2. IsList(content) /\ ToSet(content) = S
  BY FS_Subset, SetListed
<1>3. n \in Nat /\ DOMAIN content = 1..n /\ \A x : x \in S <=> \E k \in 1..n : content[k] = x
  BY <1>2, ListIs
<1> HIDE DEF n, content
<1>4. copies = [k \in 1..n |-> copies[k]]
  BY <1>3
<1>5. ASSUME NEW k \in 1..n PROVE copies[k] = <<"roles", r.name, "files", AssetName(content[k].path)>>
  <2>1. copies[k] = Append(<<"roles", r.name, "files">>, AssetName(content[k].path))
    BY <1>3, <1>5 DEF RoleFile
  <2> QED
    BY <2>1, LongerPath
<1> HIDE DEF copies
<1>6. IsList(copies) /\ \A x : x \in ToSet(copies) <=> \E k \in 1..n : x = copies[k]
  BY <1>3, <1>4, ListOf
<1>7. IsList(always) /\ RoleFile(r, "tasks") \in ToSet(always) /\ RoleFile(r, "meta") \in ToSet(always)
  BY ShortLists
<1>8. IsList(handlers) /\ IsList(defaults)
  <2>1. \A section : IsList(<<RoleFile(r, section)>>) /\ IsList(<<>>)
    BY ShortLists
  <2> HIDE DEF RoleFile
  <2>2. (handlers = <<>> \/ handlers = <<RoleFile(r, "handlers")>>) /\ (defaults = <<>> \/ defaults = <<RoleFile(r, "defaults")>>)
    OBVIOUS
  <2> QED
    BY <2>1, <2>2
<1> HIDE DEF always, handlers, defaults
<1>9. IsList(always \o handlers) /\ ToSet(always \o handlers) = ToSet(always) \cup ToSet(handlers)
  BY <1>7, <1>8, JoinedList
<1>10. /\ IsList(always \o handlers \o defaults)
       /\ ToSet(always \o handlers \o defaults) = ToSet(always) \cup ToSet(handlers) \cup ToSet(defaults)
  BY <1>8, <1>9, JoinedList
<1>11. /\ IsList(RoleFiles(r))
       /\ ToSet(always) \subseteq ToSet(RoleFiles(r)) /\ ToSet(copies) \subseteq ToSet(RoleFiles(r))
  BY <1>1, <1>6, <1>10, JoinedList
<1>12. ASSUME NEW a \in Assets(r) PROVE <<"roles", r.name, "files", a>> \in ToSet(copies)
  <2>1. PICK x \in S : a = AssetName(x.path)
    BY <1>12 DEF Assets
  <2>2. PICK k \in 1..n : content[k] = x
    BY <1>3, <2>1
  <2> QED
    BY <1>5, <1>6, <2>1, <2>2
<1> QED
  BY <1>7, <1>11, <1>12

\* The files of the roles are files of the project.
LEMMA PathsOf ==
  ASSUME NEW f, IsConfiguration(f), NEW r \in f.roles
  PROVE  ToSet(RoleFiles(r)) \subseteq ToSet(FilePaths(f))
<1> DEFINE roles == SetToSeq(f.roles)
           n == Len(roles)
           ss == [k \in DOMAIN roles |-> RoleFiles(roles[k])]
           withVariables == Only(f.hosts, {h \in ToSet(f.hosts) : h.variables # {}})
           varFiles == [k \in DOMAIN withVariables |-> <<"host_vars", withVariables[k].name>>]
           always == << <<"ansible.cfg">>, <<"site.yml">>, <<"inventory", "hosts.yml">>, <<"README.md">> >>
<1>1. FilePaths(f) = always \o varFiles \o FlattenSeq(ss)
  BY DEF FilePaths
<1>2. IsList(roles) /\ ToSet(roles) = f.roles
  BY SetListed DEF IsConfiguration
<1>3. n \in Nat /\ DOMAIN roles = 1..n /\ \A x : x \in f.roles <=> \E k \in 1..n : roles[k] = x
  BY <1>2, ListIs
<1> HIDE DEF roles, n
<1>4. ss = [k \in 1..n |-> ss[k]] /\ \A k \in 1..n : ss[k] = RoleFiles(roles[k])
  BY <1>3
<1>5. \A k \in 1..n : IsList(ss[k])
  BY <1>3, <1>4, RoleFilesOf DEF IsConfiguration
<1> HIDE DEF ss
<1>6. IsList(FlattenSeq(ss)) /\ \A x : x \in ToSet(FlattenSeq(ss)) <=> \E k \in 1..n : x \in ToSet(ss[k])
  BY <1>3, <1>4, <1>5, FlattenedList
<1>7. IsList(withVariables)
  BY SelectedList DEF IsConfiguration
<1>8. Len(withVariables) \in Nat /\ DOMAIN withVariables = 1..Len(withVariables)
  BY <1>7, ListIs
<1> HIDE DEF withVariables
<1>9. varFiles = [k \in 1..Len(withVariables) |-> varFiles[k]]
  BY <1>8
<1> HIDE DEF varFiles
<1>10. IsList(varFiles)
  BY <1>8, <1>9, ListOf
<1>11. IsList(always)
  BY DEF IsList, ToSet
<1> HIDE DEF always
<1>12. IsList(always \o varFiles)
  BY <1>10, <1>11, JoinedList
<1>13. ToSet(FlattenSeq(ss)) \subseteq ToSet(FilePaths(f))
  BY <1>1, <1>6, <1>12, JoinedList
<1>14. PICK k \in 1..n : roles[k] = r
  BY <1>3
<1> QED
  BY <1>4, <1>6, <1>13, <1>14

-----------------------------------------------------------------------------
(* The configuration of an assembled cloud architecture                    *)
\* A list of names; the roles of an instance are one.
LEMMA RolesAreNames ==
  ASSUME NEW p, NEW a, IsDrawing(a), IsAnswer(a, p), NEW n \in ToSet(a.nodes)
  PROVE  AreNames(RolesFor(p, n))
<1> DEFINE declared == ConfigurationOf(p, n).roles
           enabled == Only(n.services, {s \in ToSet(n.services) : s.enabled})
           first == When(Forwards(n), "router")
           impls == [k \in DOMAIN enabled |-> enabled[k].impl]
<1>1. RolesFor(p, n) = IF declared # <<>> THEN declared ELSE Distinct(first \o impls)
  BY DEF RolesFor
<1>2. AreNames(declared)
  <2>1. n.id \in NodeIds(a)
    BY DEF NodeIds, ToSet
  <2>2. CASE p.mapping[n.id] = NoEntry
    <3>1. declared = <<>>
      BY <2>2 DEF ConfigurationOf, NoConfiguration
    <3>2. \A S : <<>> \in Seq(S)
      OBVIOUS
    <3> QED
      BY <3>1, <3>2 DEF AreNames
  <2>3. CASE p.mapping[n.id] # NoEntry
    BY <2>1, <2>3 DEF ConfigurationOf, IsAnswer
  <2> QED
    BY <2>2, <2>3
<1>3. IsList(n.services) /\ \A s \in ToSet(n.services) : s.impl \in STRING
  BY DEF IsDrawing
<1>4. IsList(enabled) /\ ToSet(enabled) \subseteq ToSet(n.services)
  BY <1>3, SelectedList
<1>5. /\ Len(enabled) \in Nat /\ DOMAIN enabled = 1..Len(enabled)
      /\ \A k \in 1..Len(enabled) : enabled[k] \in ToSet(enabled)
  BY <1>4, ListIs
<1> HIDE DEF enabled, declared
<1>0. PICK S : S = STRING /\ "router" \in S
  BY RouterAssumption
<1>6. impls \in Seq(S)
  <2>1. impls \in [1..Len(enabled) -> S]
    BY <1>0, <1>3, <1>4, <1>5
  <2> QED
    BY <1>5, <2>1, Comprehension
<1>7. first \in Seq(S)
  <2>1. "router" \in S
    BY <1>0
  <2>2. <<"router">> \in Seq(S) /\ <<>> \in Seq(S)
    BY <2>1, ShortSequences
  <2>3. first = <<"router">> \/ first = <<>>
    BY DEF When
  <2> HIDE DEF first
  <2> QED
    BY <2>1, <2>2, <2>3
<1> HIDE DEF first, impls
<1>8. Distinct(first \o impls) \in Seq(S)
  BY <1>6, <1>7, Joined, Deduplicated
<1>9. AreNames(Distinct(first \o impls))
  BY <1>0, <1>8 DEF AreNames
<1> QED
  BY <1>1, <1>2, <1>9

\* A role that the assembler makes.
LEMMA RoleFields ==
  ASSUME NEW name, NEW packages, NEW services
  PROVE  LET r == SystemRole(name, packages, services)
         IN  r.name = name /\ r.requires = <<>> /\ r.files = {}
  BY DEF SystemRole

\* The parts of the roles are finitely many, each of a named role.
LEMMA PartsAreFinite ==
  ASSUME NEW p, NEW a, IsDrawing(a), IsAnswer(a, p)
  PROVE  IsFiniteSet(RoleParts(p, a)) /\ \A x \in RoleParts(p, a) : x.role \in STRING
<1> DEFINE part(role, packages, services) == [role |-> role, packages |-> packages, services |-> services]
           named(n) == {s.impl : s \in {x \in ToSet(n.services) : x.enabled}}
           enabled == UNION {named(n) : n \in ToSet(a.nodes)}
           routed == RouterIds(a) # {} /\ (a.routing.ospf # {} \/ a.routing.static # {})
           packaged == {t \in p.tasks : t.operation = "package"}
           served == {x \in {t \in p.tasks : t.operation = "service"} : x.names # {}}
           first == IF routed THEN {part("router", {"frr"}, {"frr"})} ELSE {}
           second == {part(impl, {impl}, {impl} \cap ServiceRoles) : impl \in enabled}
           third == {part(t.role, t.names, {}) : t \in packaged}
           fourth == {part(t.role, {}, t.names) : t \in served}
<1>1. RoleParts(p, a) = first \cup second \cup third \cup fourth
  BY DEF RoleParts
<1>2. IsFiniteSet(enabled) /\ enabled \subseteq STRING
  <2>1. ASSUME NEW n \in ToSet(a.nodes) PROVE IsFiniteSet(named(n)) /\ named(n) \subseteq STRING
    <3>1. IsList(n.services) /\ \A s \in ToSet(n.services) : s.impl \in STRING
      BY DEF IsDrawing
    <3>2. IsFiniteSet(ToSet(n.services))
      BY <3>1, Elements DEF IsList
    <3>3. IsFiniteSet({x \in ToSet(n.services) : x.enabled})
      BY <3>2, FS_Subset
    <3> DEFINE impls == [s \in {x \in ToSet(n.services) : x.enabled} |-> s.impl]
    <3>4. IsFiniteSet({impls[s] : s \in {x \in ToSet(n.services) : x.enabled}})
      BY <3>3, FiniteImage
    <3>5. named(n) = {impls[s] : s \in {x \in ToSet(n.services) : x.enabled}}
      OBVIOUS
    <3> QED
      BY <3>1, <3>4, <3>5
  <2>2. IsFiniteSet(ToSet(a.nodes))
    BY Elements DEF IsDrawing, IsList
  <2> HIDE DEF named
  <2> DEFINE all == [n \in ToSet(a.nodes) |-> named(n)]
  <2>5. IsFiniteSet({all[n] : n \in ToSet(a.nodes)})
    BY <2>2, FiniteImage
  <2>3. IsFiniteSet({named(n) : n \in ToSet(a.nodes)})
    <3>1. {named(n) : n \in ToSet(a.nodes)} = {all[n] : n \in ToSet(a.nodes)}
      OBVIOUS
    <3> QED
      BY <2>5, <3>1
  <2>4. IsFiniteSet(enabled)
    BY <2>1, <2>3, FS_UNION
  <2> QED
    BY <2>1, <2>4
<1>3. /\ IsFiniteSet(packaged) /\ IsFiniteSet(served)
      /\ \A t \in packaged \cup served : t.role \in STRING
  BY FS_Subset DEF IsAnswer
<1> HIDE DEF enabled, routed, packaged, served
<1>4. IsFiniteSet(first) /\ \A x \in first : x.role \in STRING
  <2>1. \A x : IsFiniteSet({x}) /\ IsFiniteSet({})
    BY FS_Singleton, FS_EmptySet
  <2>2. part("router", {"frr"}, {"frr"}).role \in STRING
    BY RouterAssumption
  <2> HIDE DEF part
  <2> QED
    BY <2>1, <2>2
<1>5. IsFiniteSet(second) /\ \A x \in second : x.role \in STRING
  <2> DEFINE made == [impl \in enabled |-> part(impl, {impl}, {impl} \cap ServiceRoles)]
  <2>1. IsFiniteSet(second)
    <3>1. second = {made[impl] : impl \in enabled}
      OBVIOUS
    <3>2. IsFiniteSet({made[impl] : impl \in enabled})
      BY <1>2, FiniteImage
    <3> QED
      BY <3>1, <3>2
  <2> QED
    BY <1>2, <2>1
<1>6. IsFiniteSet(third) /\ \A x \in third : x.role \in STRING
  <2> DEFINE made == [t \in packaged |-> part(t.role, t.names, {})]
  <2>1. IsFiniteSet(third)
    <3>1. third = {made[t] : t \in packaged}
      OBVIOUS
    <3>2. IsFiniteSet({made[t] : t \in packaged})
      BY <1>3, FiniteImage
    <3> QED
      BY <3>1, <3>2
  <2> QED
    BY <1>3, <2>1
<1>7. IsFiniteSet(fourth) /\ \A x \in fourth : x.role \in STRING
  <2> DEFINE made == [t \in served |-> part(t.role, {}, t.names)]
  <2>1. IsFiniteSet(fourth)
    <3>1. fourth = {made[t] : t \in served}
      OBVIOUS
    <3>2. IsFiniteSet({made[t] : t \in served})
      BY <1>3, FiniteImage
    <3> QED
      BY <3>1, <3>2
  <2> QED
    BY <1>3, <2>1
<1> HIDE DEF first, second, third, fourth
<1>8. IsFiniteSet(first \cup second) /\ IsFiniteSet(third \cup fourth)
  BY <1>4, <1>5, <1>6, <1>7, FS_Union
<1>9. IsFiniteSet((first \cup second) \cup (third \cup fourth))
  BY <1>8, FS_Union
<1>10. RoleParts(p, a) = (first \cup second) \cup (third \cup fourth)
  BY <1>1
<1> QED
  BY <1>4, <1>5, <1>6, <1>7, <1>9, <1>10

\* The targets are a list of node ids.
LEMMA TargetsAre ==
  ASSUME NEW p, IsList(p.targets), NEW compute, IsList(compute)
  PROVE  IsList(TargetIds(p, compute))
<1> DEFINE declared == [k \in DOMAIN p.targets |-> p.targets[k].component]
           others == Only(compute, {i \in ToSet(compute) : i.roles # <<>> /\ i.node \notin ToSet(declared)})
           rest == [k \in DOMAIN others |-> others[k].node]
<1>1. TargetIds(p, compute) = declared \o rest
  BY DEF TargetIds
<1>2. Len(p.targets) \in Nat /\ DOMAIN p.targets = 1..Len(p.targets)
  BY ListIs
<1>3. declared = [k \in 1..Len(p.targets) |-> declared[k]]
  BY <1>2
<1>4. IsList(others)
  BY SelectedList
<1> HIDE DEF declared, others
<1>5. Len(others) \in Nat /\ DOMAIN others = 1..Len(others)
  BY <1>4, ListIs
<1>6. rest = [k \in 1..Len(others) |-> rest[k]]
  BY <1>5
<1> HIDE DEF rest
<1>7. IsList(declared) /\ IsList(rest)
  BY <1>2, <1>3, <1>5, <1>6, ListOf
<1> QED
  BY <1>1, <1>7, JoinedList

\* The constructed configuration has what IsConfiguration asks for.
LEMMA ConfigurationMade ==
  ASSUME NEW p, NEW a, IsDrawing(a), IsAnswer(a, p), NEW compute, IsList(compute),
         \A i \in ToSet(compute) : AreNames(i.roles)
  PROVE  IsConfiguration(Configuration(p, a, compute))
<1> DEFINE parts == RoleParts(p, a)
           of(name) == {x \in parts : x.role = name}
           packages(name) == UNION {x.packages : x \in of(name)}
           services(name) == UNION {x.services : x \in of(name)}
           names == {x.role : x \in parts}
           role == [name \in names |-> SystemRole(name, packages(name), services(name))]
           roles == Roles(p, a)
           f == Configuration(p, a, compute)
<1>1. IsFiniteSet(parts) /\ \A x \in parts : x.role \in STRING
  BY PartsAreFinite
<1>2. IsFiniteSet(names) /\ names \subseteq STRING
  <2> DEFINE roleOf == [x \in parts |-> x.role]
  <2>1. names = {roleOf[x] : x \in parts}
    OBVIOUS
  <2>2. IsFiniteSet({roleOf[x] : x \in parts})
    BY <1>1, FiniteImage
  <2> QED
    BY <1>1, <2>1, <2>2
<1>3. roles = {role[name] : name \in names}
  BY DEF Roles
<1>4. \A name \in names : role[name].name = name /\ role[name].requires = <<>> /\ role[name].files = {}
  BY RoleFields
<1> HIDE DEF names, role
<1>5. IsFiniteSet(roles)
  <2>1. IsFiniteSet({role[name] : name \in names})
    BY <1>2, FiniteImage
  <2> QED
    BY <1>3, <2>1
<1>6. \A r \in roles : r.name \in STRING /\ r.requires = <<>> /\ r.files = {}
  BY <1>2, <1>3, <1>4
<1>7. AreNames(<<>>)
  <2>1. \A S : <<>> \in Seq(S)
    OBVIOUS
  <2> QED
    BY <2>1 DEF AreNames
<1>8. f.roles = roles
  BY DEF Configuration
<1> DEFINE placed == Only(Distinct(TargetIds(p, compute)), {i.node : i \in ToSet(compute)})
           instance(id) == CHOOSE i \in ToSet(compute) : i.node = id
           defined == {r.name : r \in roles}
           hosts == [k \in DOMAIN placed |-> ConfigurationHost(p, instance(placed[k]), defined)]
<1>9. f.hosts = hosts
  BY DEF Configuration
<1>10. IsList(placed)
  BY TargetsAre, DistinctList, SelectedList DEF IsAnswer
<1>11. Len(placed) \in Nat /\ DOMAIN placed = 1..Len(placed)
  BY <1>10, ListIs
<1> HIDE DEF placed
<1>12. hosts = [k \in 1..Len(placed) |-> hosts[k]]
  BY <1>11
<1> HIDE DEF hosts
<1>13. IsList(f.hosts)
  BY <1>9, <1>11, <1>12, ListOf
<1>14. ASSUME NEW h \in ToSet(f.hosts) PROVE IsList(h.groups) /\ AreNames(h.roles)
  <2>1. PICK i \in ToSet(compute) : HostOn(p, i, h)
    BY <1>14, Hosts DEF IsAnswer
  <2>2. PICK T : h = ConfigurationHost(p, i, T)
    BY <2>1 DEF HostOn
  <2>3. h.groups = (IF i.roles = <<>> THEN <<"all_managed">> ELSE i.roles) /\ h.roles = Only(i.roles, T)
    BY <2>2 DEF ConfigurationHost
  <2>4. AreNames(i.roles) /\ IsList(i.roles)
    <3>1. AreNames(i.roles)
      OBVIOUS
    <3>2. i.roles \in Seq(ToSet(i.roles))
      BY <3>1, Elements DEF AreNames
    <3> QED
      BY <3>1, <3>2 DEF IsList
  <2>5. AreNames(h.roles)
    BY <2>3, <2>4, Selected DEF AreNames
  <2>6. IsList(<<"all_managed">>)
    BY ShortLists
  <2> QED
    BY <2>3, <2>4, <2>5, <2>6
<1>15. /\ IsFiniteSet(f.roles)
       /\ \A r \in f.roles : r.name \in STRING /\ AreNames(r.requires) /\ IsFiniteSet(r.files)
  <2> HIDE DEF f, roles
  <2>1. IsFiniteSet({})
    BY FS_EmptySet
  <2> QED
    BY <1>5, <1>6, <1>7, <1>8, <2>1
<1>16. IsConfiguration(f)
  <2> HIDE DEF f
  <2> QED
    BY <1>13, <1>14, <1>15, Zenon DEF IsConfiguration
<1> QED
  BY <1>16

\* Whoever made the cloud architecture, its configuration is one.
LEMMA CloudIsConfigured ==
  ASSUME PlanInv, cloud # NoDocument
  PROVE  IsConfiguration(cloud.configuration)
<1>1. CASE plan = NoDocument
  BY <1>1, OtherCloudsAssumption DEF PlanInv
<1>2. CASE plan # NoDocument
  <2>1. /\ architecture \in Architectures /\ plan \in Plans(architecture)
        /\ cloud = Assemble(plan, architecture, payload.unmapped)
    BY <1>2 DEF PlanInv
  <2>2. IsDrawing(architecture) /\ IsAnswer(architecture, plan)
    BY <2>1, ArchitecturesAssumption, PlansAssumption
  <2>3. \E groups : cloud.compute = Compute(plan, architecture, cloud.subnets, groups)
    BY <2>1 DEF Assemble
  <2>4. cloud.configuration = Configuration(plan, architecture, cloud.compute)
    BY <2>1 DEF Assemble
  <2>5. PICK groups : cloud.compute = Compute(plan, architecture, cloud.subnets, groups)
    BY <2>3
  <2>6. IsDrawing(architecture) /\ IsList(cloud.compute)
    BY <2>2, <2>5, ComputeOf
  <2>7. ASSUME NEW i \in ToSet(cloud.compute) PROVE AreNames(i.roles)
    <3>1. PICK n \in ToSet(architecture.nodes) :
            i = Instance(plan, n, Nics(architecture, n, cloud.subnets, groups), groups)
      BY <2>5, <2>6, ComputeOf
    <3>2. i.roles = RolesFor(plan, n)
      BY <3>1 DEF Instance
    <3> QED
      BY <2>2, <3>2, RolesAreNames
  <2> QED
    BY <2>2, <2>4, <2>6, <2>7, ConfigurationMade
<1> QED
  BY <1>1, <1>2

-----------------------------------------------------------------------------
(***************************************************************************)
(* The playbook                                                            *)
(***************************************************************************)
\* The playbook of a configuration, pending or not.
PlaybookOf(f, pending) == [GeneratePlaybook(f) EXCEPT !.pending = pending]

\* The files that the tasks of the roles copy, and the hosts of the placeholder.
CopiedBy(f) == UNION {{<<"roles", r.name, "files", a>> : a \in Assets(r)} : r \in f.roles}
HostsOf(f) == {h.id : h \in {x \in ToSet(f.hosts) : x.groups # <<>>}}

\* What the files and the inventory read in a playbook, and what the inventory writes.
LEMMA PlaybookFields ==
  ASSUME NEW f, NEW pending, NEW g, g = PlaybookOf(f, pending)
  PROVE  /\ g.plays = Plays(f) /\ g.paths = ToSet(FilePaths(f)) /\ g.warnings = ProjectWarnings(f)
         /\ g.copied = CopiedBy(f)
         /\ [g EXCEPT !.pending = FALSE] = PlaybookOf(f, FALSE)
         /\ GeneratePlaybook(f) = PlaybookOf(f, TRUE)
<1> DEFINE as(b) == [plays |-> Plays(f), paths |-> ToSet(FilePaths(f)), copied |-> CopiedBy(f),
                     placeholder |-> HostsOf(f), warnings |-> ProjectWarnings(f), pending |-> b]
<1>1. GeneratePlaybook(f) = as(TRUE)
  BY DEF GeneratePlaybook, CopiedBy, HostsOf
<1>2. \A b, c : [as(b) EXCEPT !.pending = c] = as(c)
  OBVIOUS
<1>3. as(pending).plays = Plays(f) /\ as(pending).paths = ToSet(FilePaths(f))
  OBVIOUS
<1>4. as(pending).warnings = ProjectWarnings(f) /\ as(pending).copied = CopiedBy(f)
  OBVIOUS
<1> HIDE DEF as
<1>5. \A b : PlaybookOf(f, b) = as(b)
  BY <1>1, <1>2 DEF PlaybookOf
<1>6. g = as(pending)
  BY <1>5
<1>7. [g EXCEPT !.pending = FALSE] = PlaybookOf(f, FALSE)
  <2>1. [g EXCEPT !.pending = FALSE] = [as(pending) EXCEPT !.pending = FALSE]
    BY <1>6
  <2>2. [as(pending) EXCEPT !.pending = FALSE] = as(FALSE)
    BY <1>2
  <2> QED
    BY <1>5, <2>1, <2>2
<1>8. GeneratePlaybook(f) = PlaybookOf(f, TRUE)
  BY <1>1, <1>5
<1>9. g.plays = Plays(f) /\ g.paths = ToSet(FilePaths(f)) /\ g.warnings = ProjectWarnings(f) /\ g.copied = CopiedBy(f)
  BY <1>3, <1>4, <1>6
<1> QED
  BY <1>7, <1>8, <1>9

PlaybookInv ==
  playbook # NoDocument =>
    /\ stage \in {"configured", "applied", "inventoried", "refused"}
    /\ cloud # NoDocument /\ \E pending : playbook = PlaybookOf(cloud.configuration, pending)

\* There is no playbook at first.
LEMMA PlaybookInit == Init => PlaybookInv
  BY DEF Init, PlaybookInv

\* The playbook stays what was generated from the configuration; the inventory that
\* is written later only takes the mark that it is pending away.
LEMMA PlaybookNext == TranslationInv /\ PlaybookInv /\ [Next]_vars => PlaybookInv'
<1> SUFFICES ASSUME TranslationInv, PlaybookInv, [Next]_vars, playbook' # NoDocument
             PROVE  /\ stage' \in {"configured", "applied", "inventoried", "refused"}
                    /\ cloud' # NoDocument /\ \E pending : playbook' = PlaybookOf(cloud'.configuration, pending)
  BY DEF PlaybookInv
<1> USE DEF PlaybookInv
<1>1. CASE stage \in {"drawn", "sent", "assembled", "validated"} /\ playbook' = playbook
  BY <1>1
<1>2. CASE GenerateAnsible
  <2>1. /\ stage = "generated" /\ stage' \in {"configured", "refused"} /\ cloud' = cloud
        /\ playbook' = playbook \/ playbook' = GeneratePlaybook(cloud.configuration)
    BY <1>2 DEF GenerateAnsible
  <2>2. playbook' = GeneratePlaybook(cloud.configuration) /\ cloud # NoDocument
    BY <2>1 DEF TranslationInv, StageInv
  <2>3. playbook' = PlaybookOf(cloud.configuration, TRUE)
    BY <2>2, PlaybookFields
  <2> QED
    BY <2>1, <2>2, <2>3
<1>3. ASSUME NEW resolved \in BOOLEAN, NEW lost \in Lost, Apply(lost, resolved)
      PROVE  /\ playbook' = playbook /\ cloud' = cloud /\ stage' = "applied"
  BY <1>3 DEF Apply
<1>4. CASE GenerateInventory
  <2>1. stage' \in {"inventoried", "refused"} /\ cloud' = cloud
    BY <1>4 DEF GenerateInventory
  <2>2. playbook # NoDocument /\ (playbook' = playbook \/ playbook' = [playbook EXCEPT !.pending = FALSE])
    BY <1>4 DEF GenerateInventory
  <2>3. PICK pending : playbook = PlaybookOf(cloud.configuration, pending)
    BY <2>2
  <2>4. playbook' = playbook \/ playbook' = PlaybookOf(cloud.configuration, FALSE)
    BY <2>2, <2>3, PlaybookFields
  <2> QED
    BY <2>1, <2>2, <2>3, <2>4
<1>5. CASE UNCHANGED vars
  BY <1>5 DEF vars
<1>6. ASSUME NEW answer \in Plans(architecture), Translate(answer)
      PROVE  stage = "sent" /\ playbook' = playbook
  BY <1>6 DEF Translate
<1>7. ASSUME NEW c \in OtherClouds(architecture), Receive(c)
      PROVE  stage = "drawn" /\ playbook' = playbook
  BY <1>7 DEF Receive
<1>8. Send \/ ValidateCloud \/ GenerateTerraform
        => stage \in {"drawn", "assembled", "validated"} /\ playbook' = playbook
  BY DEF Send, ValidateCloud, GenerateTerraform
<1> QED
  BY <1>1, <1>2, <1>3, <1>4, <1>5, <1>6, <1>7, <1>8 DEF Next

\* From the stage that writes it on, the playbook is the one of the cloud architecture.
THEOREM PlaybookInvariant == Spec => []PlaybookInv
<1>1. Init => PlaybookInv
  BY PlaybookInit
<1>2. TranslationInv /\ PlaybookInv /\ [Next]_vars => PlaybookInv'
  BY PlaybookNext
<1> QED
  BY <1>1, <1>2, TranslationInvariant, PTL DEF Spec

\* Every defined role of a host in a group reaches it, with what the role requires
\* and with its files.
THEOREM RolesAreApplied == Spec => []RolesReachTheirHosts
<1>1. TranslationInv /\ PlaybookInv => RolesReachTheirHosts
  <2> SUFFICES ASSUME TranslationInv, PlaybookInv, playbook # NoDocument
               PROVE  RolesReachTheirHosts
    BY DEF RolesReachTheirHosts
  <2> DEFINE f == cloud.configuration
  <2>1. cloud # NoDocument /\ IsConfiguration(f)
    BY CloudIsConfigured DEF TranslationInv, PlaybookInv
  <2>2. /\ playbook.plays = Plays(f) /\ playbook.paths = ToSet(FilePaths(f))
        /\ playbook.copied = CopiedBy(f) /\ playbook.warnings = ProjectWarnings(f)
    <3>1. PICK pending : playbook = PlaybookOf(f, pending)
      BY DEF PlaybookInv
    <3> HIDE DEF f
    <3> QED
      BY <3>1, PlaybookFields, Zenon
  <2>3. \A r \in f.roles : IsFiniteSet(r.files)
    BY <2>1 DEF IsConfiguration
  <2>4. playbook.copied \subseteq playbook.paths
    <3> SUFFICES ASSUME NEW x \in playbook.copied PROVE x \in playbook.paths
      OBVIOUS
    <3>1. PICK r \in f.roles : \E a \in Assets(r) : x = <<"roles", r.name, "files", a>>
      BY <2>2 DEF CopiedBy
    <3>2. x \in ToSet(RoleFiles(r))
      BY <2>3, <3>1, RoleFilesOf
    <3> QED
      BY <2>1, <2>2, <3>2, PathsOf
  <2>5. ASSUME NEW h \in ToSet(f.hosts), h.groups = <<>>
        PROVE  <<"hosts_without_group", h.id>> \in playbook.warnings
    BY <2>2, <2>5 DEF ProjectWarnings
  <2>6. ASSUME NEW r, r \in RoleNames(f)
        PROVE  {<<"roles", r, "tasks">>, <<"roles", r, "meta">>} \subseteq playbook.paths
    <3>1. PICK role \in f.roles : role.name = r
      BY <2>6 DEF RoleNames
    <3>2. /\ <<"roles", r, "tasks">> \in ToSet(RoleFiles(role))
          /\ <<"roles", r, "meta">> \in ToSet(RoleFiles(role))
      BY <2>3, <3>1, RoleFilesOf DEF RoleFile
    <3> QED
      BY <2>1, <2>2, <3>2, PathsOf
  <2>7. ASSUME NEW h \in ToSet(f.hosts), h.groups # <<>>, NEW r \in ToSet(h.roles), r \in RoleNames(f)
        PROVE  \E p \in ToSet(playbook.plays) : Reaches(f, p, h, r)
    BY <2>1, <2>2, <2>7, PlaysReach
  <2>8. ASSUME NEW h, NEW r, NEW p, Reaches(f, p, h, r)
        PROVE  \E k \in DOMAIN p.roles :
                 /\ h.id \in p.hosts /\ p.roles[k] = r
                 /\ \A d \in ToSet(RequiredBy(f, r)) \cap RoleNames(f) :
                      d \in {p.roles[j] : j \in 1..(k-1)} \/ LeadsTo(d, r)
    BY <2>8 DEF Reaches, Ahead, LeadsTo
  <2> QED
    BY <2>4, <2>5, <2>6, <2>7, <2>8 DEF RolesReachTheirHosts
<1> QED
  BY <1>1, TranslationInvariant, PlaybookInvariant, PTL
==============================================================================
