---------------------------- MODULE Translation ----------------------------
(***************************************************************************)
(* The way of one network architecture to running, configured hosts:       *)
(* NetworkMapper, the RAG's answer, CloudAssembler, the cloud validators,  *)
(* the Terraform and Ansible generators, an apply, and the inventory.      *)
(* Each step is the whole call of a stage; what the RAG answers and what   *)
(* an apply reports are choices of the environment.                        *)
(***************************************************************************)
EXTENDS CloudAssembler, TerraformMapping, AnsibleProject

CONSTANTS Architectures,   \* network architectures that passed the gate
          Plans(_),        \* what the RAG may answer an architecture with
          OtherClouds(_)   \* what another provider may answer an architecture with

NoDocument == <<>>

ASSUME ArchitecturesAssumption == \A a \in Architectures : IsDrawing(a)

\* What the assembler takes from an answer: targets in order, tasks for named roles,
\* and the names of the roles a mapping declares.
IsAnswer(a, p) ==
  /\ IsList(p.targets)
  /\ IsFiniteSet(p.tasks) /\ \A t \in p.tasks : t.role \in STRING
  /\ \A id \in NodeIds(a) : p.mapping[id] # NoEntry => AreNames(p.mapping[id].configuration.roles)

ASSUME PlansAssumption == \A a \in Architectures : \A p \in Plans(a) : IsAnswer(a, p)

\* The name the assembler gives the role of a node that forwards, written out for the proofs.
ASSUME RouterAssumption == "router" \in STRING

\* An answer is a document.
ASSUME AnswersAssumption ==
  \A a \in Architectures : NoDocument \notin Plans(a) /\ NoDocument \notin OtherClouds(a)

\* What another provider answers passed the constructor of a cloud architecture.
ASSUME OtherCloudsAssumption ==
  \A a \in Architectures : \A c \in OtherClouds(a) :
    /\ IsCoherent(c)
    /\ IsList(c.compute) /\ \A i \in ToSet(c.compute) : IsList(i.nics)
    /\ IsConfiguration(c.configuration)

VARIABLES architecture,    \* the network architecture
          payload,         \* what was sent to the RAG
          plan,            \* what it answered
          cloud,           \* the cloud architecture
          report,          \* its validation report
          project,         \* the Terraform project
          playbook,        \* the Ansible project
          outputs,         \* what the deployment reported
          inventory,       \* the inventory written after it
          stage            \* the last stage that ended

vars == <<architecture, payload, plan, cloud, report, project, playbook, outputs, inventory, stage>>

Stages == {"drawn", "sent", "assembled", "validated", "generated", "configured",
           "applied", "inventoried", "refused"}

TypeOK ==
  /\ architecture \in Architectures
  /\ plan \in Plans(architecture) \cup {NoDocument}
  /\ stage \in Stages
  /\ stage \in {"drawn", "sent"} => cloud = NoDocument /\ project = NoDocument
  /\ cloud # NoDocument => IsCoherent(cloud)

\* The representations the offline double of the RAG names, by the type of a node.
StubWords(n) ==
  CASE n.type \in {"router", "gateway"} -> {"ec2", "instance", "appliance", "vpc"}
    [] n.type \in {"server", "database", "pc"} -> {"ec2", "instance"}
    [] n.type = "switch" -> {"vpc", "subnet"}
    [] n.type = "firewall" -> {"security group"}
    [] n.type = "load_balancer" -> {"load balancer"}
    [] OTHER -> {}

\* Its whole plan: nothing is decided beyond that, and what has services is a target.
StubPlan(a) ==
  LET served == SelectSeq(a.nodes, LAMBDA n : n.services # <<>>)
  IN  [usable |-> TRUE,
       mapping |-> [id \in NodeIds(a) |-> [words |-> StubWords(Node(a, id)),
                                           configuration |-> NoConfiguration]],
       text |-> [kind \in {"internet", "nat", "peering", "transit"} |-> "absent"],
       security |-> <<>>, tasks |-> {},
       targets |-> [k \in DOMAIN served |-> [component |-> served[k].id, variables |-> {}]]]

Init ==
  /\ architecture \in Architectures
  /\ payload = NoDocument /\ plan = NoDocument /\ cloud = NoDocument
  /\ report = NoDocument /\ project = NoDocument /\ playbook = NoDocument
  /\ outputs = NoDocument /\ inventory = NoDocument
  /\ stage = "drawn"

Send ==
  /\ stage = "drawn"
  /\ payload' = MapArchitecture(architecture)
  /\ stage' = "sent"
  /\ UNCHANGED <<architecture, plan, cloud, report, project, playbook, outputs, inventory>>

\* Slip: the referential integrity is left to the validators.
TranslateUnchecked(answer) ==
  /\ stage = "sent"
  /\ plan' = answer
  /\ cloud' = IF answer.usable THEN Assemble(answer, architecture, payload.unmapped) ELSE NoDocument
  /\ stage' = IF answer.usable THEN "assembled" ELSE "refused"
  /\ UNCHANGED <<architecture, payload, report, project, playbook, outputs, inventory>>

\* assemble: an unusable plan is a RAGError, an incoherent result a ValueError.
Translate(answer) ==
  LET result == Assemble(answer, architecture, payload.unmapped)
      accepted == answer.usable /\ IsCoherent(result)
  IN  /\ stage = "sent"
      /\ plan' = answer
      /\ cloud' = IF accepted THEN result ELSE NoDocument
      /\ stage' = IF accepted THEN "assembled" ELSE "refused"
      /\ UNCHANGED <<architecture, payload, report, project, playbook, outputs, inventory>>

\* Another provider behind the port answers with a cloud architecture of its own.
Receive(c) ==
  /\ stage = "drawn"
  /\ cloud' = c
  /\ stage' = "assembled"
  /\ UNCHANGED <<architecture, payload, plan, report, project, playbook, outputs, inventory>>

ValidateCloud ==
  /\ stage = "assembled"
  /\ report' = Validate(cloud)
  /\ stage' = "validated"
  /\ UNCHANGED <<architecture, payload, plan, cloud, project, playbook, outputs, inventory>>

GenerateTerraform ==
  /\ stage = "validated"
  /\ IF RefusesToGenerate(cloud, report)
       THEN stage' = "refused" /\ UNCHANGED project
       ELSE stage' = "generated" /\ project' = GenerateProject(cloud)
  /\ UNCHANGED <<architecture, payload, plan, cloud, report, playbook, outputs, inventory>>

\* Without a configuration the stage is skipped, as the workflow does.
GenerateAnsible ==
  /\ stage = "generated"
  /\ IF RefusesPlaybook(cloud, report)
       THEN /\ stage' = IF NoRoles(cloud.configuration) THEN "configured" ELSE "refused"
            /\ UNCHANGED playbook
       ELSE /\ stage' = "configured"
            /\ playbook' = GeneratePlaybook(cloud.configuration)
  /\ UNCHANGED <<architecture, payload, plan, cloud, report, project, outputs, inventory>>

\* The executor's report of an apply.  Instances in lost have no output;
\* resolved: the executor also says which instance an address belongs to, the
\* public address where the project declares one.
Reported(lost, resolved) ==
  LET kept == {o \in project.outputs : o[1] \notin lost}
      best(id) == IF <<id, "public_ip">> \in kept THEN <<"public_ip", id>> ELSE <<"private_ip", id>>
  IN  [values |-> [o \in kept |-> <<o[2], o[1]>>],
       addresses |-> [id \in {o[1] : o \in {x \in kept : resolved /\ x[2] = "private_ip"}} |-> best(id)]]

\* What an apply may leave without an output: nothing, one instance, or all.
Lost == IF cloud = NoDocument THEN {}
        ELSE {{}, Ids(AllResources(cloud))} \cup {{id} : id \in Ids(cloud.compute)}

Apply(lost, resolved) ==
  /\ stage = "configured"
  /\ outputs' = Reported(lost, resolved)
  /\ stage' = "applied"
  /\ UNCHANGED <<architecture, payload, plan, cloud, report, project, playbook, inventory>>

GenerateInventory ==
  /\ stage = "applied"
  /\ IF RefusesInventory(outputs)
       THEN stage' = "refused" /\ UNCHANGED <<playbook, inventory>>
       ELSE /\ stage' = "inventoried"
            /\ inventory' = InventoryFrom(cloud, outputs)
            /\ playbook' = IF playbook = NoDocument THEN playbook
                           ELSE [playbook EXCEPT !.pending = FALSE]
  /\ UNCHANGED <<architecture, payload, plan, cloud, report, project, outputs>>

Next ==
  \/ Send
  \/ \E answer \in Plans(architecture) : Translate(answer)
  \/ \E c \in OtherClouds(architecture) : Receive(c)
  \/ ValidateCloud
  \/ GenerateTerraform
  \/ GenerateAnsible
  \/ \E resolved \in BOOLEAN, lost \in Lost : Apply(lost, resolved)
  \/ GenerateInventory

Spec == Init /\ [][Next]_vars

-----------------------------------------------------------------------------
(***************************************************************************)
(* Properties                                                              *)
(***************************************************************************)
Assembled == plan # NoDocument /\ cloud # NoDocument
Accepted == report # NoDocument /\ IsValid(report)

\* Ids fall together: of two routed domains with a network whose routers show one
\* name, of two firewalls or two nodes that become compute whose ids have one slug,
\* or of two segments beside the transport whose prefixes have one.
NetworksCollide(a) ==
  \E m, n \in ToSet(a.nodes) :
    /\ m # n /\ Slug(m.name) = Slug(n.name)
    /\ {m.id, n.id} \subseteq CoveredDomains(a, DiscoverSegments(a))

ResourcesCollide(a, p) ==
  \E m, n \in ToSet(a.nodes) :
    /\ m # n /\ Slug(m.id) = Slug(n.id)
    /\ \/ {m.type, n.type} = {"firewall"}
       \/ {KindOf(p, m), KindOf(p, n)} = {"compute"}

SubnetsCollide(a) ==
  \E s, t \in ToSet(DiscoverSegments(a)) :
    s # t /\ ~s.transport /\ ~t.transport /\ PrefixSlug(s.subnet) = PrefixSlug(t.subnet)

\* A usable plan is refused only when two ids fall together.  Nothing else the
\* assembler does may break CloudArchitecture._referential_integrity.
RefusedOnlyForCollisions ==
  (stage = "refused" /\ plan # NoDocument /\ cloud = NoDocument /\ plan.usable) =>
    \/ NetworksCollide(architecture)
    \/ ResourcesCollide(architecture, plan)
    \/ SubnetsCollide(architecture)

\* The prefix of a VPC covers its IPv4 subnets and none that is longer would,
\* whatever order the segments were found in (_covering_supernet).
SmallestCover ==
  Assembled =>
    \A n \in ToSet(cloud.networks) :
      LET own == {s.cidr : s \in {x \in ToSet(cloud.subnets) : x.network = n.id /\ x.cidr.v = 4}}
          covers(len) == \A s, t \in own : IsSubnetOf(s, SubnetSpec(4, t.net, len))
      IN  /\ \A s \in own : IsSubnetOf(s, n.cidr)
          /\ \A len \in (n.cidr.len + 1)..AddressBits : ~covers(len)

\* The prefix by which an interface joins a segment, the first it has, is a
\* subnet, or is named among the unmapped (as transport, or with the domain it
\* is in): no segment is lost on the way through domains and networks.
NoPrefixIsLost ==
  Assembled =>
    \A k \in SegmentKeys(architecture) :
      \/ \E s \in ToSet(cloud.subnets) : s.cidr = k
      \/ <<"transport", k>> \in cloud.unmapped
      \/ \E s \in ToSet(DiscoverSegments(architecture)) : s.subnet = k /\ <<"domain", OwnerOf(architecture, s)>> \in cloud.unmapped

\* What the validators let through, AWS can place: the private addresses of
\* the instances lie in their subnets, are not reserved, and no two instances
\* share one, whichever order the NICs were looked at in.
AcceptedAddressesAreSound ==
  Accepted =>
    \A i \in ToSet(cloud.compute) : \A nic \in Addressed(cloud, i) :
      /\ IsInside(cloud, nic)
      /\ ~IsAwsReserved(nic.address, CidrOf(cloud, nic.subnet))
      /\ \A j \in ToSet(cloud.compute) : \A other \in Addressed(cloud, j) :
           SameAddress(nic, other) => i.id = j.id

\* Every reference in the generated Terraform names a block of it, or the
\* resource that has no block is the subject of a HIGH warning: addresses are
\* indexed before the mappers decide what they emit.
NoSilentDangling ==
  (project # NoDocument) =>
    \A b \in project.blocks : \A ref \in b.refs :
      \/ \E target \in project.blocks : target.address = ref
      \/ \E w \in project.warnings : w.severity = "high" /\ w.subject = ref[2]

\* An architecture that was assembled here and accepted loses nothing in the
\* Terraform generator but firewall rules that name no source; so the output
\* the inventory will ask for is one the project declares, for every host that
\* Ansible configures: two modules spell its name.
AssembledIsBuildable ==
  (Assembled /\ project # NoDocument) =>
    /\ \A w \in project.warnings : w.severity = "high" => w.code = "rule_without_source"
    /\ \A h \in ToSet(cloud.configuration.hosts) : h.output \in project.outputs

\* Every defined role of a host is applied to it by a play, after the defined
\* roles that one requires unless these lead back to it, and has its files in
\* the project, with every asset its tasks copy; a host for which that fails is
\* named as being in no group (_site_playbook, _ordered_roles, _one_role).
LeadsTo(d, r) == r \in ToSet(OrderedRoles(cloud.configuration, <<[roles |-> <<d>>]>>))

RolesReachTheirHosts ==
  playbook # NoDocument =>
    /\ playbook.copied \subseteq playbook.paths
    /\ \A h \in ToSet(cloud.configuration.hosts) :
      \/ <<"hosts_without_group", h.id>> \in playbook.warnings
      \/ \A r \in ToSet(h.roles) \cap RoleNames(cloud.configuration) :
           \E p \in ToSet(playbook.plays) : \E k \in DOMAIN p.roles :
             /\ h.id \in p.hosts /\ p.roles[k] = r
             /\ {<<"roles", r, "tasks">>, <<"roles", r, "meta">>} \subseteq playbook.paths
             /\ \A d \in ToSet(RequiredBy(cloud.configuration, r)) \cap RoleNames(cloud.configuration) :
                  \/ d \in {p.roles[j] : j \in 1..(k-1)}
                  \/ LeadsTo(d, r)

\* An address in the inventory was reported by the apply for the machine the host
\* runs on, or is a variable the plan itself gave the host; a host without either
\* is marked as pending.  Of a cloud architecture made elsewhere, whose host may
\* name any output, it may be the value of that output, and of no other, when the
\* machine has no address.
InventoryNeverInvents ==
  inventory # NoDocument =>
    \A e \in inventory.entries : \E h \in ToSet(cloud.configuration.hosts) :
      /\ h.id = e.host
      /\ \/ e.address = NoDocument /\ e.pending
         \/ e.address \in {<<kind, h.compute>> : kind \in {"public_ip", "private_ip"}}
         \/ e.address = <<"declared", h.id>> /\ "ansible_host" \in h.variables
         \/ /\ plan = NoDocument /\ h.compute \notin DOMAIN outputs.addresses
            /\ h.output \in DOMAIN outputs.values /\ e.address = outputs.values[h.output]

\* A host gets the roles it names and what these require
\* (configuration.py: "Role names applied to this host").
RolesStayWithTheirHosts ==
  playbook # NoDocument =>
    \A p \in ToSet(playbook.plays) : \A h \in ToSet(cloud.configuration.hosts) :
      h.id \in p.hosts =>
        ToSet(p.roles) \subseteq ToSet(OrderedRoles(cloud.configuration, <<h>>))
=============================================================================
