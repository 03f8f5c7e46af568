--------------------------- MODULE AnsibleProject ---------------------------
(***************************************************************************)
(* src/infrastructure/generators/ansible and inventory: the playbook, the  *)
(* files and the inventory of the configuration half of a cloud            *)
(* architecture, which has a sequence of hosts and a set of roles.  Of the *)
(* tasks of a role only the files they copy are kept, and of a file only   *)
(* its path.                                                               *)
(***************************************************************************)
EXTENDS CloudValidators

\* --------------------------------------------------- Configuration helpers
NoRoles(f) == f.hosts = <<>> /\ f.roles = {}     \* Configuration.is_empty

RoleNames(f) == {r.name : r \in f.roles}

AreNames(s) == s \in Seq(STRING)

\* What the constructors of a configuration, its hosts and its roles enforce.
IsConfiguration(f) ==
  /\ IsList(f.hosts)
  /\ \A h \in ToSet(f.hosts) : IsList(h.groups) /\ AreNames(h.roles)
  /\ IsFiniteSet(f.roles)
  /\ \A r \in f.roles : r.name \in STRING /\ AreNames(r.requires) /\ IsFiniteSet(r.files)

\* Configuration.groups and hosts_in_group.
Groups(f) == Distinct(FlattenSeq([k \in DOMAIN f.hosts |-> f.hosts[k].groups]))
HostsInGroup(f, group) == Only(f.hosts, {h \in ToSet(f.hosts) : group \in ToSet(h.groups)})

\* --------------------------------------------------------------- playbook
RequiredBy(f, name) ==
  LET role == {r \in f.roles : r.name = name}
  IN  IF role = {} THEN <<>> ELSE (CHOOSE r \in role : TRUE).requires

\* Slip: the roles as the hosts name them.
RolesAsNamed(f, hosts) == Distinct(FlattenSeq([k \in DOMAIN hosts |-> hosts[k].roles]))

\* visit, for one name after the other; each call is told the roles it is made from
\* and what is ordered so far.
VisitAll(visit, visiting, ordered, names) ==
  FoldLeft(LAMBDA o, name : visit[<<name, visiting, o>>], ordered, names)

\* visit of _ordered_roles: a role comes after what it requires, and a cycle is cut
\* where the visit comes back to a role it is in.
Visit(f) ==
  LET visit[c \in STRING \X (SUBSET STRING) \X Seq(STRING)] ==
        IF c[1] \in ToSet(c[3]) \cup c[2] THEN c[3]
        ELSE LET after == VisitAll(visit, c[2] \cup {c[1]}, c[3], RequiredBy(f, c[1]))
             IN  IF c[1] \in ToSet(after) THEN after ELSE Append(after, c[1])
  IN  visit

\* _ordered_roles: the roles of all the hosts of a group.
OrderedRoles(f, hosts) ==
  VisitAll(Visit(f), {}, <<>>, Distinct(FlattenSeq([k \in DOMAIN hosts |-> hosts[k].roles])))

\* A play for every group with a defined role, in the order of the groups.
Plays(f) ==
  LET groups == Groups(f)
      roles(g) == Only(OrderedRoles(f, HostsInGroup(f, g)), RoleNames(f))
      play(g) == [hosts |-> {h.id : h \in ToSet(HostsInGroup(f, g))}, group |-> g, roles |-> roles(g)]
  IN  FlattenSeq([k \in DOMAIN groups |->
                    IF roles(groups[k]) = <<>> THEN <<>> ELSE <<play(groups[k])>>])

\* ------------------------------------------------------------------ files
\* _asset_name: the parts of a path in one name.
AssetName(path) ==
  IF path = <<>> THEN "file" ELSE FoldLeft(LAMBDA name, part : name \o "_" \o part, path[1], Tail(path))

\* A file of a role is copied from an asset when it has content, made by a template when
\* it names one, and written empty otherwise.
Assets(r) == {AssetName(f.path) : f \in {x \in r.files : x.content /\ ~x.template}}
WithoutSource(r) == {f \in r.files : ~f.content /\ ~f.template}

IsEmptyRole(r) == r.packages = {} /\ r.services = {} /\ r.files = {}

\* The files of one role; every asset is written for itself.
RoleFiles(r) ==
  LET file(section) == <<"roles", r.name, section>>
      content == SetToSeq({f \in r.files : f.content})
  IN  <<file("tasks"), file("meta")>>
      \o (IF r.services = {} THEN <<>> ELSE <<file("handlers")>>)
      \o (IF r.variables = {} THEN <<>> ELSE <<file("defaults")>>)
      \o [k \in DOMAIN content |-> Append(file("files"), AssetName(content[k].path))]

\* Group variables are not built by any translation and are not kept.
FilePaths(f) ==
  LET withVariables == Only(f.hosts, {h \in ToSet(f.hosts) : h.variables # {}})
      roles == SetToSeq(f.roles)
  IN  << <<"ansible.cfg">>, <<"site.yml">>, <<"inventory", "hosts.yml">>, <<"README.md">> >>
      \o [k \in DOMAIN withVariables |-> <<"host_vars", withVariables[k].name>>]
      \o FlattenSeq([k \in DOMAIN roles |-> RoleFiles(roles[k])])

\* GeneratedProject._unique_paths.
HasDuplicates(s) == Cardinality(ToSet(s)) # Len(s)

ProjectWarnings(f) ==
  {<<"unresolved_roles", name>> : name \in UnresolvedRoles(f)}
  \cup {<<"hosts_without_group", h.id>> : h \in {x \in ToSet(f.hosts) : x.groups = <<>>}}
  \cup {<<"empty_role", r.id>> : r \in {x \in f.roles : IsEmptyRole(x)}}
  \cup {<<"file_without_source", r.id>> : r \in {x \in f.roles : WithoutSource(x) # {}}}

\* The placeholder inventory names the hosts of every group and no address.
GeneratePlaybook(f) ==
  [plays |-> Plays(f), paths |-> ToSet(FilePaths(f)),
   copied |-> UNION {{<<"roles", r.name, "files", a>> : a \in Assets(r)} : r \in f.roles},
   placeholder |-> {h.id : h \in {x \in ToSet(f.hosts) : x.groups # <<>>}},
   warnings |-> ProjectWarnings(f), pending |-> TRUE]

RefusesPlaybook(c, report) ==
  NoRoles(c.configuration) \/ ~IsValid(report) \/ HasDuplicates(FilePaths(c.configuration))

\* -------------------------------------------------------------- inventory
\* DeploymentOutputs: values by output name and addresses by compute id, each
\* a function on what the deployment reported.
AddressFor(outputs, id) ==
  IF id \in DOMAIN outputs.addresses THEN outputs.addresses[id] ELSE NoRef

\* Slip: failing that, whatever address the deployment reported.
GuessedAddress(outputs, h) ==
  IF AddressFor(outputs, h.compute) # NoRef THEN AddressFor(outputs, h.compute)
  ELSE IF h.output \in DOMAIN outputs.values THEN outputs.values[h.output]
  ELSE outputs.values[CHOOSE o \in DOMAIN outputs.values : TRUE]

\* The address reported for the compute; failing that, the named output.
ReportedAddress(outputs, h) ==
  IF AddressFor(outputs, h.compute) # NoRef THEN AddressFor(outputs, h.compute)
  ELSE IF h.output \in DOMAIN outputs.values THEN outputs.values[h.output] ELSE NoRef

\* The first instance that is marked as the bastion.
BastionAddress(c, outputs) ==
  LET bastions == SelectSeq(c.compute, LAMBDA i : i.bastion)
  IN  IF bastions = <<>> THEN NoRef ELSE AddressFor(outputs, bastions[1].id)

\* The variables of a host are written last, over what was resolved.
HostEntry(c, outputs, h) ==
  LET address == ReportedAddress(outputs, h)
  IN  [host |-> h.id,
       address |-> IF "ansible_host" \in h.variables THEN <<"declared", h.id>> ELSE address,
       pending |-> address = NoRef,
       through |-> IF h.bastion THEN BastionAddress(c, outputs) ELSE NoRef]

InventoryFrom(c, outputs) ==
  [entries |-> {HostEntry(c, outputs, h) :
                  h \in {x \in ToSet(c.configuration.hosts) : x.groups # <<>>}}]

RefusesInventory(outputs) == DOMAIN outputs.values = {} /\ DOMAIN outputs.addresses = {}
=============================================================================
