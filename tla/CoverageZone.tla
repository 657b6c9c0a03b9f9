----------------------------- MODULE CoverageZone -----------------------------
(***************************************************************************)
(* czf/czf.go: which cache group a client's address belongs to.            *)
(*                                                                         *)
(* An address has a family, 4 if To4 succeeds, and bits.  A network as the *)
(* coverage zone file holds it is a text: its form ("cidr", or "junk" when *)
(* ParseCIDR fails), family, bits and prefix length.  A zone file maps the *)
(* names of its zones, the cache groups, to two sets of them.              *)
(***************************************************************************)
EXTENDS Integers, Sequences

CONSTANTS
    Groups,     \* cache groups, the names of the coverage zones
    NoGroup     \* the empty string: the zone of a client in none; also a nil cachegroup

ASSUME CoverageZoneAssumption == NoGroup \notin Groups

Families == {4, 6}

\* net.ParseCIDR: the bits after the prefix are masked.
ParseCIDR(text) == [fam |-> text.fam, prefix |-> SubSeq(text.bits, 1, text.len)]

\* net.IPNet.Contains
Contains(network, addr) ==
    /\ network.fam = addr.fam
    /\ Len(network.prefix) <= Len(addr.bits)
    /\ SubSeq(addr.bits, 1, Len(network.prefix)) = network.prefix

\* ParseCZNet returns no error: each text is a network, of its field's family.
NetworksParse(zone) ==
    /\ \A text \in zone.network : text.form = "cidr" /\ text.fam = 4
    /\ \A text \in zone.network6 : text.form = "cidr" /\ text.fam = 6

ParseCZNet(zone) ==
    [network |-> {ParseCIDR(text) : text \in zone.network},
     network6 |-> {ParseCIDR(text) : text \in zone.network6}]

\* One zone that does not parse fails them all.
ZonesParse(file) == \A zone \in DOMAIN file : NetworksParse(file[zone])

ParseCZNets(file) == [zone \in DOMAIN file |-> ParseCZNet(file[zone])]

\* The networks looked through for an address.
NetworksFor(zone, addr) == IF addr.fam = 4 THEN zone.network ELSE zone.network6

ZonesOfAddress(czf, addr) ==
    {zone \in DOMAIN czf :
        \E network \in NetworksFor(czf[zone], addr) : Contains(network, addr)}

\* GetZone: Go ranges over the zones in an order of its own at each call, so of
\* several zones with the address any may be returned.
GetZone(czf, addr) ==
    IF ZonesOfAddress(czf, addr) = {} THEN {NoGroup} ELSE ZonesOfAddress(czf, addr)
===============================================================================
