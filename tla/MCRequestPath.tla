---------------------------- MODULE MCRequestPath -----------------------------
(***************************************************************************)
(* RequestPath for TLC.  Two DNS delivery services, the text of one inside *)
(* the other's, and an HTTP one; four caches in one group, so that a draw  *)
(* has a last candidate, and one in a group whose networks overlap its     *)
(* networks; a CRConfig polled later that has lost a cache and every       *)
(* router, and some of whose addresses have changed.                       *)
(***************************************************************************)
EXTENDS RequestPath

CONSTANTS c1, c2, c3, c4, c5, r1, r2, foo, foobar, live, edge, g1, g2

MCNames == {c1, c2, c3, c4, c5, r1, r2, foo, foobar, live, edge, Ccr}
MCPieces == MCNames \cup {"cdn", "lookalike", "other"}
MCInside == [n \in MCPieces |-> CASE n = foo   -> {foo, foobar}
                                  [] n = "cdn" -> {"cdn", "lookalike"}
                                  [] OTHER     -> {n}]
MCStarts == [n \in MCPieces |-> IF n = foo THEN {foo, foobar} ELSE {n}]
MCEnds == [n \in MCPieces |-> IF n = "cdn" THEN {"cdn", "lookalike"} ELSE {n}]

V4(n) == [form |-> "ip", fam |-> 4, id |-> n]
V6(n) == [form |-> "ip", fam |-> 6, id |-> n]
Cidr(text) == [text EXCEPT !.form = "cidr"]

Server(status, g, ip, ip6, dses) ==
    [status |-> status, cg |-> g, ip |-> ip, ip6 |-> ip6, dses |-> dses]

\* c2's ip6 holds an IPv4 address; c4 is out of service.
MCServers ==
    [s \in {c1, c2, c3, c4, c5} |->
        CASE s = c1 -> Server("REPORTED", g1, V4(1), Cidr(V6(1)), {foo, foobar, live})
          [] s = c2 -> Server("ONLINE", g1, Cidr(V4(2)), V4(2), {foo})
          [] s = c3 -> Server("REPORTED", g1, V4(3), V6(3), {foo, live})
          [] s = c4 -> Server("OFFLINE", g1, V4(4), NoText, {foo, foobar})
          [] s = c5 -> Server("ONLINE", g2, V4(6), V6(6), {foo})]

Router(g, n, ip6) == [status |-> "ONLINE", cg |-> g, ip |-> V4(n), ip6 |-> ip6]
MCRouters ==
    [r \in {r1, r2} |-> IF r = r1 THEN Router(g1, 11, NoText) ELSE Router(g2, 12, V6(12))]

Host(protocol, text, lang) ==
    [protocol |-> protocol, type |-> "HOST", text |-> text, lang |-> lang]
Wild(protocol, l) == Host(protocol, Around(l), NoRegex)
WildOf(text) == <<AnyText, EscapedDot>> \o text \o <<EscapedDot, AnyText>>

\* foobar is found by two labels together, and foo in its name; a match set of
\* foobar is the overlapping wildcard; live is also asked for by its plain name, and
\* has a match that fails and one that is not of the host.
MCDSs ==
    [d \in {foo, foobar, live} |->
        CASE d = foo -> [routing |-> edge, matches |-> {Wild("DNS", foo)}]
          [] d = foobar -> [routing |-> edge,
                            matches |-> {Host("DNS", WildOf(<<edge, PlainDot, foobar>>), NoRegex),
                                         Host("DNS", <<AnyText, EscapedDot, AnyText>>, {})}]
          [] d = live -> [routing |-> NoName,
                          matches |-> {Wild("HTTP", live),
                                       Host("HTTP", <<edge, PlainDot, live, PlainDot, "cdn">>,
                                            {<<edge, live>>}),
                                       Host("HTTP", <<AnyText, AnyText>>, NoRegex),
                                       [Wild("HTTP", foo) EXCEPT !.type = "PATH"]}]]

Base == [servers |-> MCServers, routers |-> MCRouters, dss |-> MCDSs]

\* A file with a router of unknown status and none that can be used for IPv6.
OneRouter ==
    [Base EXCEPT !.routers[r2].status = "nil", !.servers[c3].cg = NoGroup]

\* A later document: c1 gone and no routers, c3 renumbered, c5 without IPv6.
Later ==
    [Base EXCEPT !.servers = [s \in {c2, c3, c4, c5} |->
                                CASE s = c3 -> [MCServers[s] EXCEPT !.ip = V4(5)]
                                  [] s = c5 -> [MCServers[s] EXCEPT !.ip6 = NoText]
                                  [] OTHER -> MCServers[s]],
                 !.routers = [r \in {} |-> MCRouters[r]]]

MCFiles == {Base, OneRouter}
MCPolled == {Later}
\* The file finds c1 down; later c2 and c3 are.
MCFileStates == {{c2, c3, c5}}
MCPolledStates == {{c1, c5}}

\* g1 and g2 share the addresses that begin with 1; IPv6 clients that begin with 0
\* are in g1 only, others in none.  The second file has an IPv4 network too many.
Cidr4(bits, len) == [form |-> "cidr", fam |-> 4, bits |-> bits, len |-> len]
Cidr6(bits, len) == [form |-> "cidr", fam |-> 6, bits |-> bits, len |-> len]
Zone1 == [network |-> {Cidr4(<<1, 0>>, 1)}, network6 |-> {Cidr6(<<0, 0>>, 1)}]
Zone2 == [network |-> {Cidr4(<<1, 1>>, 2), Cidr4(<<0, 1>>, 2)}, network6 |-> {}]
MCZoneFiles ==
    {[g \in {g1, g2} |-> IF g = g1 THEN Zone1 ELSE Zone2],
     [g \in {g1} |-> [Zone1 EXCEPT !.network6 = @ \cup Zone1.network]]}

Client(fam, bits) == [fam |-> fam, bits |-> bits]
MCClients == {Client(4, <<1, 1>>), Client(6, <<0, 1>>), Client(6, <<1, 1>>), Client(0, <<>>)}

Order(seq) == [n \in MCNames |->
                 IF \E i \in DOMAIN seq : seq[i] = n
                 THEN CHOOSE i \in DOMAIN seq : seq[i] = n ELSE 0]
MCRanks == {Order(<<c1, c2, c3, c4, c5, foo, foobar, live, r1, r2>>),
            Order(<<c3, c1, c2, c4, c5, foobar, foo, live, r2, r1>>)}

Fqdn(l1, l2) == [dot |-> TRUE, under |-> "cdn", labels |-> <<l1, l2>>]
MCDomains ==
    {Fqdn(edge, foo), Fqdn(edge, foobar), Fqdn(Ccr, live), Fqdn(edge, live),
     [Fqdn(edge, foo) EXCEPT !.dot = FALSE],
     [Fqdn(edge, foo) EXCEPT !.under = "lookalike"]}
===============================================================================
