------------------------------ MODULE Subnets ------------------------------
(***************************************************************************)
(* The address arithmetic of src/domain/network/models.py (SubnetSpec,     *)
(* IPAddressSpec) and of the two places that extend it: the covering       *)
(* prefix of a routed domain and the addresses AWS keeps for itself.       *)
(* An address is a number of AddressBits bits (32 or 128 in the code); a   *)
(* prefix is kept in canonical form, as SubnetSpec._canonical leaves it.   *)
(***************************************************************************)
EXTENDS Integers, Sequences, SequencesExt, Listing

CONSTANT AddressBits    \* width of an address
ASSUME AddressBitsAssumption == AddressBits \in Nat \ {0}

NoPrefix == -1          \* an address written without a prefix length
NoAddress == [v |-> 0, address |-> 0, len |-> NoPrefix]   \* no address at all

\* Number of addresses under a prefix of length len.
SizeOf(len) == 2 ^ (AddressBits - len)

\* SubnetSpec: host bits are dropped, whatever address the prefix was given with.
SubnetSpec(v, address, len) ==
  [v |-> v, net |-> address - (address % SizeOf(len)), len |-> len]

Size(s) == SizeOf(s.len)
BroadcastOf(s) == s.net + Size(s) - 1

\* SubnetSpec.contains: never across versions.
Holds(s, a) == a.v = s.v /\ a.address >= s.net /\ a.address <= BroadcastOf(s)

UsableHostCount(s) == IF s.len >= AddressBits - 1 THEN Size(s) ELSE Size(s) - 2

IsSubnetOf(s, other) ==
  s.v = other.v /\ s.net >= other.net /\ BroadcastOf(s) <= BroadcastOf(other)

Overlaps(s, other) ==
  s.v = other.v /\ s.net <= BroadcastOf(other) /\ other.net <= BroadcastOf(s)

\* ------------------------------------------------------------- interfaces
IsComplete(a) == a.len # NoPrefix

PrefixesOf(addresses) ==
  [k \in DOMAIN addresses |-> SubnetSpec(addresses[k].v, addresses[k].address, addresses[k].len)]

\* Interface.subnets: the prefixes of the addresses that carry one, in order.
SubnetsOf(i) == PrefixesOf(Only(i.addresses, {a \in ToSet(i.addresses) : IsComplete(a)}))

\* Interface.primary_address: the first address, complete or not.
PrimaryAddress(i) == IF i.addresses = <<>> THEN NoAddress ELSE i.addresses[1]

\* ------------------------------------------------------- derived prefixes
\* Slip: a bit is given up before the first look.
WidenAtLeastOnce(c, n) ==
  LET covers(l) == IsSubnetOf(n, SubnetSpec(c.v, c.net, l)) /\ (l < c.len \/ l = 0)
  IN  SubnetSpec(c.v, c.net, CHOOSE l \in 0..c.len :
                               covers(l) /\ \A m \in (l+1)..c.len : ~covers(m))

\* One turn of the widening loop: c loses bits until it covers n.
WidenTo(c, n) ==
  LET covers(l) == IsSubnetOf(n, SubnetSpec(c.v, c.net, l))
  IN  SubnetSpec(c.v, c.net, CHOOSE l \in 0..c.len :
                               covers(l) /\ \A m \in (l+1)..c.len : ~covers(m))

NoCover == [v |-> 0, net |-> 0, len |-> 0]   \* _covering_supernet returned None

\* The smallest prefix over the IPv4 members of a sequence of prefixes.
CoveringSupernet(subnets) ==
  LET ipv4 == Only(subnets, {s \in ToSet(subnets) : s.v = 4})
  IN  IF ipv4 = <<>> THEN NoCover ELSE FoldLeft(WidenTo, ipv4[1], Tail(ipv4))

\* AWS keeps the first four addresses and the last one of every IPv4 subnet.
IsAwsReserved(a, s) ==
  /\ s.v = 4 /\ Holds(s, a)
  /\ a.address - s.net <= 3 \/ a.address = BroadcastOf(s)
=============================================================================
