-------------------------- MODULE CloudValidators --------------------------
(***************************************************************************)
(* What a cloud architecture must satisfy: the structural integrity that   *)
(* its constructor enforces (src/domain/cloud/models.py) and the issues    *)
(* the validator suite reports (src/domain/cloud/validators.py).  A cloud  *)
(* architecture is the record CloudAssembler!Assemble builds; one that     *)
(* comes from elsewhere has the same fields, with secondary prefixes of a  *)
(* network, databases and load balancers too.  An issue is its code and    *)
(* the subject it is about.                                                *)
(***************************************************************************)
EXTENDS Subnets, FiniteSets

NoPort == -1
NoRef == <<>>           \* a reference that is None

\* ---------------------------------------------------------------- documents
AllResources(c) ==
  c.networks \o c.subnets \o c.tables \o c.gateways \o c.compute
    \o c.databases \o c.balancers \o c.groups

Ids(s) == {s[k].id : k \in DOMAIN s}

\* CloudArchitecture._referential_integrity.
IsCoherent(c) ==
  /\ Cardinality(Ids(AllResources(c))) = Len(AllResources(c))
  /\ \A s \in ToSet(c.subnets) : s.network \in Ids(c.networks)
  /\ \A i \in ToSet(c.compute) :
       /\ i.subnet \in {NoRef} \cup Ids(c.subnets)
       /\ \A nic \in ToSet(i.nics) : nic.subnet \in Ids(c.subnets)
  /\ \A h \in ToSet(c.configuration.hosts) : h.compute \in Ids(c.compute)
  /\ \A r \in c.relationships : {r.source, r.target} \subseteq Ids(AllResources(c))

SecondaryCidrs(n) == IF "secondary" \in DOMAIN n THEN n.secondary ELSE <<>>

\* ------------------------------------------------------- SubnetValidator
SubnetErrors(c) ==
  {<<"subnet_outside_network", s.id>> : s \in {x \in ToSet(c.subnets) :
     \E n \in ToSet(c.networks) :
       /\ n.id = x.network
       /\ \A cidr \in {n.cidr} \cup ToSet(SecondaryCidrs(n)) : ~IsSubnetOf(x.cidr, cidr)}}
  \cup
  {<<"overlapping_subnets", c.subnets[j].id>> : j \in {k \in DOMAIN c.subnets :
     \E i \in 1..(k-1) : /\ c.subnets[i].network = c.subnets[k].network
                         /\ Overlaps(c.subnets[i].cidr, c.subnets[k].cidr)}}

SubnetRemarks(c) ==
  {<<"subnet_too_small", s.id>> : s \in {x \in ToSet(c.subnets) : UsableHostCount(x.cidr) < 2}}

\* ---------------------------------------------- ComputePlacementValidator
\* The NICs with an address whose subnet is known.
Addressed(c, i) ==
  {nic \in ToSet(i.nics) : nic.address # NoAddress /\ nic.subnet \in Ids(c.subnets)}

CidrOf(c, id) == (CHOOSE s \in ToSet(c.subnets) : s.id = id).cidr

IsInside(c, nic) == Holds(CidrOf(c, nic.subnet), nic.address)

SameAddress(x, y) == x.address.v = y.address.v /\ x.address.address = y.address.address

\* Slip: only the neighbour in the walk is looked at.
SeenJustBefore(placed, k) ==
  {j \in {k-1} \cap DOMAIN placed : SameAddress(placed[j].nic, placed[k].nic)}

SeenBefore(placed, k) ==
  {j \in 1..(k-1) : SameAddress(placed[j].nic, placed[k].nic)}

\* The walk over all NICs in order: seen is the last instance met at an address,
\* and an instance other than it is reported together with it.
DuplicateHolders(c) ==
  LET pairs(i) == [k \in DOMAIN i.nics |-> [holder |-> i.id, nic |-> i.nics[k]]]
      walk == FlattenSeq([k \in DOMAIN c.compute |-> pairs(c.compute[k])])
      placed == Only(walk, {p \in ToSet(walk) : /\ p.nic.address # NoAddress
                                                /\ p.nic.subnet \in Ids(c.subnets)
                                                /\ IsInside(c, p.nic)})
      previous(k) == SeenBefore(placed, k)
      latest(k) == placed[CHOOSE j \in previous(k) : \A i \in previous(k) : i <= j].holder
  IN  UNION {IF previous(k) = {} \/ latest(k) = placed[k].holder THEN {}
             ELSE {latest(k), placed[k].holder} : k \in DOMAIN placed}

PlacementErrors(c) ==
  LET placed == {i \in ToSet(c.compute) : i.subnet # NoRef \/ i.nics # <<>>}
      inside(i) == {nic \in Addressed(c, i) : IsInside(c, nic)}
  IN  {<<"compute_not_placed", i.id>> : i \in ToSet(c.compute) \ placed}
      \cup {<<"address_outside_subnet", i.id>> : i \in {x \in placed :
              \E nic \in Addressed(c, x) : ~IsInside(c, nic)}}
      \cup {<<"duplicate_address", id>> : id \in DuplicateHolders(c)}
      \cup {<<"aws_reserved_address", i.id>> : i \in {x \in placed :
              \E nic \in inside(x) : IsAwsReserved(nic.address, CidrOf(c, nic.subnet))}}
      \cup {<<"forwarder_with_source_dest_check", i.id>> : i \in {x \in placed :
              x.forwarder /\ \E nic \in ToSet(x.nics) : nic.check}}

\* ----------------------------------------------------- RouteTableValidator
RouteErrors(c) ==
  {<<"route_target_missing", t.id>> : t \in {x \in ToSet(c.tables) :
     \E r \in ToSet(x.routes) : r.target \notin Ids(AllResources(c))}}
  \cup
  {<<"duplicate_route_destination", t.id>> : t \in {x \in ToSet(c.tables) :
     \E i, j \in DOMAIN x.routes : i < j /\ x.routes[i].destination = x.routes[j].destination}}
  \cup
  {<<"nat_gateway_without_subnet", g.id>> : g \in {x \in ToSet(c.gateways) :
     x.type = "nat" /\ x.subnet = NoRef}}
  \cup
  {<<"peering_arity", g.id>> : g \in {x \in ToSet(c.gateways) :
     x.type = "peering" /\ Len(x.peers) # 2}}

RouteRemarks(c) ==
  {<<"subnet_without_route_table", s.id>> : s \in {x \in ToSet(c.subnets) :
     \A t \in ToSet(c.tables) : x.id \notin t.subnets}}

\* ------------------------------------------------- PublicExposureValidator
SensitivePorts == {22, 3389, 3306, 5432, 6379, 27017, 9200, 1433}

IsWorldOpen(r) == r.direction = "ingress" /\ "world" \in r.sources
IsEveryPort(r) == r.protocol \in {"-1", "all"} \/ r.from = NoPort
PortsOf(r) == r.from..(IF r.to \in {NoPort, 0} THEN r.from ELSE r.to)

ExposureErrors(c) ==
  {<<"world_open_all_ports", g.id>> : g \in {x \in ToSet(c.groups) :
     \E r \in x.rules : IsWorldOpen(r) /\ IsEveryPort(r)}}

ExposureRemarks(c) ==
  {<<"sensitive_port_open_to_world", g.id>> : g \in {x \in ToSet(c.groups) :
     \E r \in x.rules : /\ IsWorldOpen(r) /\ ~IsEveryPort(r)
                        /\ PortsOf(r) \cap SensitivePorts # {}}}
  \cup
  {<<"publicly_accessible_database", d.id>> : d \in {x \in ToSet(c.databases) : x.public}}

\* ---------------------------------------- ConfigurationCoherenceValidator
\* Configuration.unresolved_role_names: a name or an id of a role resolves.
UnresolvedRoles(f) ==
  ((UNION {ToSet(h.roles) : h \in ToSet(f.hosts)})
      \cup UNION {ToSet(r.requires) : r \in f.roles})
    \ UNION {{r.name, r.id} : r \in f.roles}

CoherenceErrors(c) ==
  {<<"undefined_role", name>> : name \in UnresolvedRoles(c.configuration)}

CoherenceRemarks(c) ==
  {<<"bastion_required_but_absent", h.id>> : h \in {x \in ToSet(c.configuration.hosts) :
     /\ x.bastion /\ x.compute \in Ids(c.compute)
     /\ ~\E i \in ToSet(c.compute) : i.bastion}}
  \cup
  {<<"compute_role_without_configuration", i.id>> : i \in {x \in ToSet(c.compute) :
     x.roles # <<>> /\ ~\E h \in ToSet(c.configuration.hosts) : h.compute = x.id}}

\* -------------------------------------------------------------------- suite
Validate(c) ==
  [errors |-> SubnetErrors(c) \cup PlacementErrors(c) \cup RouteErrors(c)
              \cup ExposureErrors(c) \cup CoherenceErrors(c),
   remarks |-> SubnetRemarks(c) \cup RouteRemarks(c) \cup ExposureRemarks(c)
               \cup CoherenceRemarks(c)]

\* CloudArchitecture.is_valid: no errors on the report it carries.
IsValid(report) == report.errors = {}
=============================================================================
