--------------------------- MODULE NetworkMapper ---------------------------
(***************************************************************************)
(* src/infrastructure/rag/network_mapper.py: the network architecture as   *)
(* the document that is sent to the RAG, and the account of what that      *)
(* document has no place for.                                              *)
(*                                                                         *)
(* An architecture is a record of sequences: nodes (id, type, name,        *)
(* services), interfaces (id, node, addresses in order), edges (two ends,  *)
(* each a node and an interface or NoInterface) and the routing plan.      *)
(* Free text, vendors, VLAN names and tuning fields are not part of it.    *)
(***************************************************************************)
EXTENDS Subnets, FiniteSets

CONSTANT NoInterface    \* an edge end that was not resolved to an interface

L3ForwardingTypes == {"router", "firewall", "gateway", "load_balancer"}
L2Types == {"switch", "access_point"}

Forwards(n) == n.type \in L3ForwardingTypes
IsL2(n) == n.type \in L2Types

NodeIds(a) == {a.nodes[k].id : k \in DOMAIN a.nodes}
Node(a, id) == a.nodes[CHOOSE k \in DOMAIN a.nodes : a.nodes[k].id = id]
\* What the constructors of a drawing, its nodes and its addresses enforce
\* (NetworkArchitecture._referential_integrity, IPAddressSpec).
IsDrawing(a) ==
  /\ IsList(a.nodes) /\ IsList(a.interfaces)
  /\ \A j, k \in DOMAIN a.nodes : a.nodes[j].id = a.nodes[k].id => j = k
  /\ \A n \in ToSet(a.nodes) :
       n.id \in Nat \ {0} /\ IsList(n.services) /\ \A s \in ToSet(n.services) : s.impl \in STRING
  /\ \A i \in ToSet(a.interfaces) :
       /\ IsList(i.addresses)
       /\ \A x \in ToSet(i.addresses) :
            x.v \in {4, 6} /\ x.address \in 0..(SizeOf(0) - 1) /\ x.len \in {NoPrefix} \cup 0..AddressBits

InterfacesOf(a, id) == Only(a.interfaces, {i \in ToSet(a.interfaces) : i.node = id})

\* NetworkArchitecture.edges_of, seen from a node: the ends on the other side.
FarEnds(a, id) ==
  {end \in UNION {{e.source, e.target} : e \in {x \in ToSet(a.edges) :
                      id \in {x.source.node, x.target.node}}} : end.node # id}

\* ------------------------------------------------------------- components
ContractTypes == {"pc", "switch", "router", "firewall", "server"}

ComponentType(n) ==
  CASE n.type = "gateway" -> "router"
    [] n.type \in {"database", "storage"} -> "server"
    [] OTHER -> n.type

\* Only a complete address is sent; of two with one version the later one stays.
SentAddresses(i) ==
  [v \in {4, 6} |->
     LET ofVersion == SelectSeq(i.addresses, LAMBDA a : IsComplete(a) /\ a.v = v)
     IN  IF ofVersion = <<>> THEN NoAddress ELSE Last(ofVersion)]

SentInterfaces(a, n) ==
  LET own == InterfacesOf(a, n.id)
  IN  [k \in DOMAIN own |-> [id |-> own[k].name, ip |-> SentAddresses(own[k])]]

Absent == {}            \* a key the payload does not have

\* The routing object; an empty list (Declared, with no entries) is not Absent.
Declared(entries) == {entries}

SentRouting(a, n) ==
  LET static == {r \in a.routing.static : r.node = n.id}
      ospf   == {c \in a.routing.ospf : c.node = n.id}
  IN  [forwarding |-> Forwards(n),
       static |-> IF static # {} \/ a.routing.mode \in {"static", "static_and_ospf"}
                  THEN Declared(static) ELSE Absent,
       protocols |-> IF ospf # {} \/ (a.routing.mode = "none" /\ Forwards(n))
                     THEN Declared(ospf) ELSE Absent]

\* Declared services go out as they are; a database implies one.
SentServices(n) ==
  IF n.services = <<>> /\ n.type = "database"
    THEN <<[impl |-> "database", enabled |-> TRUE]>> ELSE n.services

Component(a, n) ==
  [id |-> n.id, type |-> ComponentType(n), interfaces |-> SentInterfaces(a, n),
   routing |-> SentRouting(a, n), services |-> SentServices(n)]

\* ------------------------------------------------------------------ edges
\* An end names the interface of the payload, or its id when it is unknown.
SentEnd(a, end) ==
  LET known == {i \in ToSet(a.interfaces) : i.id = end.iface}
  IN  [component |-> end.node,
       interface |-> IF end.iface = NoInterface THEN Absent
                     ELSE IF known = {} THEN {end.iface} ELSE {i.name : i \in known}]

SentEdge(a, e) ==
  [id |-> e.id, source |-> SentEnd(a, e.source), target |-> SentEnd(a, e.target)]

IsInterfaceLevel(edge) == edge.source.interface # Absent /\ edge.target.interface # Absent

\* ----------------------------------------------------------------- ansible
\* Connections are symbolic: a target and the name of an address to come.
SentAnsible(a) ==
  {n.id : n \in {x \in ToSet(a.nodes) :
                   x.type \in {"server", "database", "pc"} /\ x.services # <<>>}}

\* --------------------------------------------------------------------- map
MapArchitecture(a) ==
  LET components == [k \in DOMAIN a.nodes |-> Component(a, a.nodes[k])]
      edges == [k \in DOMAIN a.edges |-> SentEdge(a, a.edges[k])]
  IN  [components |-> components, edges |-> edges, ansible |-> SentAnsible(a),
       unmapped |->
         {<<"type", c.id>> : c \in {x \in ToSet(components) : x.type \notin ContractTypes}}
         \cup {<<"edge", e.id>> : e \in {x \in ToSet(edges) : ~IsInterfaceLevel(x)}}
         \cup {<<"field", f>> : f \in a.unsupported}]
=============================================================================
