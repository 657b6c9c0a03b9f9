--------------------------- MODULE SharedDataProofs ----------------------------
(***************************************************************************)
(* Proofs about the lookups of SharedData, CoverageZone and HostMatch, for *)
(* any CRConfig, any coverage zones and any match texts.                   *)
(*                                                                         *)
(* Go's map order enters the lookups in three places: which server is last *)
(* in its group, which zone a client is in, and which delivery service a   *)
(* domain is matched to.  For each it is shown what the order can change.  *)
(***************************************************************************)
EXTENDS SharedData, TLAPS

-------------------------------------------------------------------------------
(* The draws. *)

\* The cache drawn is one of the group.
LEMMA GetServerDraws ==
    ASSUME NEW set, NEW order, NEW up, NEW s \in GetServer(set, order, up), s # NoName
    PROVE  s \in set
<1>1. StartOf(set, order) \subseteq set
    BY DEF StartOf
<1> QED
    BY <1>1 DEF GetServer

\* The router drawn is one of some group's.
LEMMA GetRouterDraws ==
    ASSUME NEW config, NEW order, NEW fam, NEW r \in GetRouter(config, order, fam),
           r # NoName
    PROVE  \E g \in Groups : r \in CGRouters(config, g, fam)
<1> DEFINE all == UNION {CGRouters(config, g, fam) : g \in Groups}
<1>1. r \in all
    BY Zenon DEF GetRouter
<1> QED
    BY <1>1

\* What Listed lets in is an address of the family asked for.
LEMMA ListedHasAddress ==
    ASSUME NEW entry, NEW fam, {entry.ip, entry.ip6} \subseteq Texts, Listed(entry, fam)
    PROVE  /\ Address(Field(entry, fam)).form = "ip"
           /\ Address(Field(entry, fam)).fam = fam
<1>1. Field(entry, fam) \in Texts
    BY DEF Field
<1> QED
    BY <1>1 DEF Listed, Address, Texts

\* rand.Intn(len-1) at shared.go:590 never yields the last index, and the loop after
\* it never moves on from the server drawn: when none of several but the last is
\* available nobody is answered.
THEOREM LastDoesNotHelp ==
    ASSUME NEW set, NEW order, Several(set)
    PROVE  GetServer(set, order, {LastOf(set, order)}) = {NoName}
<1> DEFINE last == LastOf(set, order)
<1>1. PICK s, t \in set : s # t
    BY DEF Several
<1>2. \E r \in set : r # last
    BY <1>1
<1> HIDE DEF last
<1>3. {IF r \in {last} THEN r ELSE NoName : r \in set \ {last}} = {NoName}
    BY <1>2
<1> QED
    BY <1>3 DEF GetServer, StartOf, last

\* combineCGRouters ranges over the groups anew for each request, and the slice it
\* makes ends with the last router of the group it comes to last.  With routers in
\* two groups each router, the last of its group too, is therefore drawn.
THEOREM SpreadRoutersAllServe ==
    ASSUME NEW config, NEW order, NEW fam, NEW g \in Groups, NEW h \in Groups, g # h,
           \A k \in {g, h} : \E last \in CGRouters(config, k, fam) :
                \A q \in CGRouters(config, k, fam) : order[q] <= order[last],
           NEW f \in Groups, NEW r \in CGRouters(config, f, fam)
    PROVE  r \in GetRouter(config, order, fam)
<1> DEFINE of(k) == CGRouters(config, k, fam)
           all == UNION {of(k) : k \in Groups}
<1>1. ASSUME NEW k \in {g, h}
      PROVE  LastOf(of(k), order) \in of(k)
    BY DEF LastOf
<1>2. of(g) \cap of(h) = {}
    BY DEF CGRouters
<1>3. r \in all /\ of(g) \subseteq all /\ of(h) \subseteq all
    OBVIOUS
<1> HIDE DEF of
<1>4. PICK k \in {g, h} : r # LastOf(of(k), order)
    BY <1>1, <1>2
<1>5. Several(all)
    BY <1>1, <1>2, <1>3 DEF Several
<1>6. of(k) # {} /\ k \in Groups
    BY <1>1
<1>7. r \in all \ {LastOf(of(k), order)}
    BY <1>3, <1>4
<1>8. GetRouter(config, order, fam) =
        UNION {all \ {LastOf(of(j), order)} : j \in {i \in Groups : of(i) # {}}}
    BY <1>3, <1>5, Zenon DEF GetRouter, of
<1> QED
    BY <1>6, <1>7, <1>8

\* With routers in one group only, the last of several is never drawn, however
\* often the group is asked.
THEOREM LastRouterNeverServes ==
    ASSUME NEW config, NEW order, NEW fam, NEW g \in Groups,
           \A h \in Groups \ {g} : CGRouters(config, h, fam) = {},
           Several(CGRouters(config, g, fam))
    PROVE  LastOf(CGRouters(config, g, fam), order) \notin GetRouter(config, order, fam)
<1> DEFINE of(k) == CGRouters(config, k, fam)
           all == UNION {of(k) : k \in Groups}
<1>1. all = of(g)
    OBVIOUS
<1>2. of(g) # {}
    BY DEF Several
<1> HIDE DEF of
<1>3. GetRouter(config, order, fam) =
        UNION {all \ {LastOf(of(j), order)} : j \in {i \in Groups : of(i) # {}}}
    BY <1>1, <1>2, Zenon DEF GetRouter, of
<1>4. {i \in Groups : of(i) # {}} = {g}
    BY <1>2 DEF of
<1>5. GetRouter(config, order, fam) = all \ {LastOf(of(g), order)}
    BY <1>3, <1>4
<1> QED
    BY <1>5 DEF of

-------------------------------------------------------------------------------
(* The zones. *)

\* Two networks of one family that no address of it can be in both of, whatever
\* its bits: where both have one, they differ.
Apart(m, n) ==
    \E i \in Nat \ {0} :
        /\ i <= Len(m.prefix) /\ i <= Len(n.prefix)
        /\ m.prefix[i] # n.prefix[i]

\* No network of one zone overlaps one of another.
ZonesApart(czf, fam) ==
    \A y, z \in DOMAIN czf :
        \A m \in (IF fam = 4 THEN czf[y].network ELSE czf[y].network6),
           n \in (IF fam = 4 THEN czf[z].network ELSE czf[z].network6) :
                y # z => Apart(m, n)

\* An address has the bits of each network that contains it.
LEMMA ContainedBits ==
    ASSUME NEW network, NEW addr, addr.bits \in Seq({0, 1}),
           Len(network.prefix) \in Nat, Contains(network, addr),
           NEW i \in Nat \ {0}, i <= Len(network.prefix)
    PROVE  network.prefix[i] = addr.bits[i]
<1>1. /\ Len(network.prefix) <= Len(addr.bits)
      /\ network.prefix = SubSeq(addr.bits, 1, Len(network.prefix))
    BY DEF Contains
<1>2. SubSeq(addr.bits, 1, Len(network.prefix))[i] = addr.bits[i]
    BY <1>1
<1> QED
    BY <1>1, <1>2

\* czf.go:95: the order Go ranges over the zones in decides which one a client is
\* in only where two zones overlap.  In files whose zones do not, each address
\* has one zone, or none, at every call.
THEOREM ApartZonesAreUnique ==
    ASSUME NEW czf, NEW addr, addr.bits \in Seq({0, 1}), ZonesApart(czf, addr.fam),
           \A z \in DOMAIN czf : \A n \in NetworksFor(czf[z], addr) : Len(n.prefix) \in Nat
    PROVE  \E zone : GetZone(czf, addr) = {zone}
<1>1. ASSUME NEW y \in ZonesOfAddress(czf, addr), NEW z \in ZonesOfAddress(czf, addr)
      PROVE  y = z
    <2>1. PICK m \in NetworksFor(czf[y], addr) : Contains(m, addr)
        BY DEF ZonesOfAddress
    <2>2. PICK n \in NetworksFor(czf[z], addr) : Contains(n, addr)
        BY DEF ZonesOfAddress
    <2>3. y \in DOMAIN czf /\ z \in DOMAIN czf
        BY DEF ZonesOfAddress
    <2>4. y # z => Apart(m, n)
        BY <2>3 DEF ZonesApart, NetworksFor
    <2>5. ASSUME Apart(m, n)
          PROVE  FALSE
        <3>1. PICK i \in Nat \ {0} :
                /\ i <= Len(m.prefix) /\ i <= Len(n.prefix)
                /\ m.prefix[i] # n.prefix[i]
            BY <2>5 DEF Apart
        <3>2. Len(m.prefix) \in Nat /\ Len(n.prefix) \in Nat
            BY <2>1, <2>2, <2>3
        <3>3. m.prefix[i] = addr.bits[i]
            BY <2>1, <3>1, <3>2, ContainedBits
        <3>4. n.prefix[i] = addr.bits[i]
            BY <2>2, <3>1, <3>2, ContainedBits
        <3> QED
            BY <3>1, <3>3, <3>4
    <2> QED
        BY <2>4, <2>5
<1>2. CASE ZonesOfAddress(czf, addr) = {}
    BY <1>2 DEF GetZone
<1>3. CASE ZonesOfAddress(czf, addr) # {}
    <2>1. PICK zone \in ZonesOfAddress(czf, addr) : TRUE
        BY <1>3
    <2>2. ZonesOfAddress(czf, addr) = {zone}
        BY <1>1, <2>1
    <2> QED
        BY <1>3, <2>2 DEF GetZone
<1> QED
    BY <1>2, <1>3

-------------------------------------------------------------------------------
(* The matches. *)

\* Part of a sequence, by its elements.
LEMMA PartOf ==
    ASSUME NEW T, NEW s \in Seq(T), NEW a \in Nat \ {0}, NEW b \in Nat,
           a <= b, b <= Len(s)
    PROVE  /\ SubSeq(s, a, b) \in Seq(T)
           /\ Len(SubSeq(s, a, b)) = b - a + 1
           /\ \A i \in 1 .. b - a + 1 : SubSeq(s, a, b)[i] = s[a + i - 1]
OBVIOUS

LEMMA OneIs ==
    ASSUME NEW T, NEW s \in Seq(T), Len(s) = 1
    PROVE  s = <<s[1]>>
OBVIOUS

LEMMA TwoAre ==
    ASSUME NEW T, NEW s \in Seq(T), Len(s) = 2
    PROVE  s = <<s[1], s[2]>>
OBVIOUS

LEMMA ThreeAre ==
    ASSUME NEW T, NEW s \in Seq(T), Len(s) = 3
    PROVE  s = <<s[1], s[2], s[3]>>
OBVIOUS

LEMMA PairOf ==
    ASSUME NEW T, NEW s \in Seq(T), NEW a \in Nat \ {0}, a < Len(s)
    PROVE  SubSeq(s, a, a + 1) = <<s[a], s[a + 1]>>
<1> DEFINE pair == SubSeq(s, a, a + 1)
<1>1. /\ a + 1 - a + 1 = 2 /\ a + 1 - 1 = a /\ a + 2 - 1 = a + 1
      /\ a + 1 \in Nat /\ a <= a + 1 /\ a + 1 <= Len(s)
    OBVIOUS
<1>2. pair \in Seq(T) /\ Len(pair) = 2 /\ \A i \in 1 .. 2 : pair[i] = s[a + i - 1]
    BY <1>1, PartOf
<1>3. pair[1] = s[a] /\ pair[2] = s[a + 1]
    BY <1>1, <1>2
<1>4. pair = <<pair[1], pair[2]>>
    BY <1>2, TwoAre
<1> QED
    BY <1>3, <1>4

\* No text but the empty one passes ValidFQDN, so that the match of a delivery
\* service that is no wildcard is a regular expression, never a literal.
THEOREM NoMatchIsLiteral ==
    ASSUME NEW T, NEW m, m.text \in Seq(T), m.text # <<>>, NEW domain
    PROVE  MatchesPlain(m, domain) <=> m.lang # NoRegex /\ domain.labels \in m.lang
<1>1. Len(m.text) # 0
    OBVIOUS
<1>2. ~ValidFQDN(m.text)
    BY <1>1 DEF ValidFQDN, PrevCh
<1> QED
    BY <1>2 DEF MatchesPlain

\* The overlap of prefix and suffix, which match.go:37 cuts out of range for, is
\* of one text: NewShared panics on a CRConfig whose HTTP delivery service has the
\* match .*\..* and for no other text of a match.
THEOREM OneMatchPanics ==
    ASSUME NEW T, NEW m, m.text \in Seq(T), m.protocol = "HTTP", m.type = "HOST"
    PROVE  MatchPanics(m) <=> m.text = <<AnyText, EscapedDot, AnyText>>
<1>0. PICK text \in Seq(T) : text = m.text
    OBVIOUS
<1>1. Len(text) \in Nat
    OBVIOUS
<1>2. ASSUME Len(text) = 3
      PROVE  /\ SubSeq(text, 1, 2) = <<text[1], text[2]>>
             /\ SubSeq(text, 2, 3) = <<text[2], text[3]>>
             /\ text = <<text[1], text[2], text[3]>>
    <2>1. SubSeq(text, 1, 1 + 1) = <<text[1], text[1 + 1]>>
        BY <1>2, PairOf
    <2>2. SubSeq(text, 2, 2 + 1) = <<text[2], text[2 + 1]>>
        BY <1>2, PairOf
    <2>3. text = <<text[1], text[2], text[3]>>
        BY <1>2, ThreeAre
    <2> QED
        BY <2>1, <2>2, <2>3
<1>3. Len(text) >= 3 /\ Len(text) < 4 <=> Len(text) = 3
    <2>1. \A n \in Nat : n >= 3 /\ n < 4 <=> n = 3
        OBVIOUS
    <2> QED
        BY <1>1, <2>1
<1>4. ASSUME Len(text) = 3
      PROVE  HasAround(text) <=> /\ SubSeq(text, 1, 2) = <<AnyText, EscapedDot>>
                                 /\ SubSeq(text, 2, 3) = <<EscapedDot, AnyText>>
    <2>1. Len(text) - 1 = 2 /\ Len(text) >= 3
        BY <1>4
    <2> QED
        BY <1>4, <2>1 DEF HasAround
<1>5. HasAround(text) /\ Len(text) < 4 <=>
        /\ Len(text) = 3
        /\ SubSeq(text, 1, 2) = <<AnyText, EscapedDot>>
        /\ SubSeq(text, 2, 3) = <<EscapedDot, AnyText>>
    <2>1. HasAround(text) => Len(text) >= 3
        BY DEF HasAround
    <2> QED
        BY <1>3, <1>4, <2>1
<1>6. MatchPanics(m) <=> HasAround(text) /\ Len(text) < 4
    BY <1>0 DEF MatchPanics
<1>7. ASSUME Len(text) = 3
      PROVE  SubSeq(text, 1, 2) = <<AnyText, EscapedDot>>
                /\ SubSeq(text, 2, 3) = <<EscapedDot, AnyText>>
             <=> text = <<AnyText, EscapedDot, AnyText>>
    BY <1>2, <1>7
<1>8. text = <<AnyText, EscapedDot, AnyText>> => Len(text) = 3
    OBVIOUS
<1> QED
    BY <1>0, <1>5, <1>6, <1>7, <1>8

\* A wildcard is seen as one, and what is between its prefix and suffix is the label.
LEMMA AroundLabel ==
    ASSUME NEW label
    PROVE  HasAround(Around(label)) /\ Between(Around(label)) = <<label>>
<1> DEFINE T == {AnyText, EscapedDot, label}
<1>1. PICK text : text = Around(label)
    OBVIOUS
<1>2. /\ text \in Seq(T) /\ Len(text) = 5
      /\ text[1] = AnyText /\ text[2] = EscapedDot /\ text[3] = label
      /\ text[4] = EscapedDot /\ text[5] = AnyText
    BY <1>1 DEF Around
<1> HIDE DEF T
<1>3. SubSeq(text, 1, 1 + 1) = <<text[1], text[1 + 1]>>
    BY <1>2, PairOf
<1>4. SubSeq(text, 4, 4 + 1) = <<text[4], text[4 + 1]>>
    BY <1>2, PairOf
<1>5. SubSeq(text, 3, 3) = <<label>>
    <2>1. /\ SubSeq(text, 3, 3) \in Seq(T) /\ Len(SubSeq(text, 3, 3)) = 1
          /\ SubSeq(text, 3, 3)[1] = label
        BY <1>2
    <2> QED
        BY <2>1, OneIs
<1> QED
    BY <1>1, <1>2, <1>3, <1>4, <1>5 DEF HasAround, Between

\* A wildcard match of an HTTP delivery service is of one name under the CDN's
\* domain, routing-name.label, and of no other.
THEOREM WildcardIsOneName ==
    ASSUME NEW label \in Names, NEW routing \in Names,
           NEW m, m.protocol = "HTTP", m.type = "HOST", m.text = Around(label),
           NEW domain, domain.labels \in Seq(Names)
    PROVE  MatchesHTTP(m, routing, domain)
                <=> domain.under = "cdn" /\ domain.labels = <<routing, label>>
<1> DEFINE name == <<routing, PlainDot, label, PlainDot, "cdn">>
           n == Len(domain.labels)
<1>1. HasAround(m.text) /\ Between(m.text) = <<label>>
    BY AroundLabel
<1>2. MatchesHTTP(m, routing, domain) <=> Dotted(domain) = name
    BY <1>1 DEF MatchesHTTP
<1>3. n \in Nat /\ DOMAIN domain.labels = 1 .. n
    OBVIOUS
<1>4. DOMAIN Dotted(domain) = 1 .. 2 * n + 1
    BY DEF Dotted
<1>5. ASSUME n = 2
      PROVE  Dotted(domain) = <<domain.labels[1], PlainDot, domain.labels[2], PlainDot,
                                domain.under>>
    <2>1. DOMAIN Dotted(domain) = 1 .. 5
        BY <1>4, <1>5
    <2>2. /\ 1 % 2 = 1 /\ 2 % 2 = 0 /\ 3 % 2 = 1 /\ 4 % 2 = 0 /\ 5 % 2 = 1
          /\ (1 + 1) \div 2 = 1 /\ (3 + 1) \div 2 = 2
        OBVIOUS
    <2>3. /\ Dotted(domain)[1] = domain.labels[1] /\ Dotted(domain)[2] = PlainDot
          /\ Dotted(domain)[3] = domain.labels[2] /\ Dotted(domain)[4] = PlainDot
          /\ Dotted(domain)[5] = domain.under
        BY <1>5, <2>2 DEF Dotted
    <2>4. Dotted(domain) = [i \in 1 .. 5 |-> Dotted(domain)[i]]
        BY <2>1 DEF Dotted
    <2> QED
        BY <2>3, <2>4
<1>6. ASSUME Dotted(domain) = name
      PROVE  n = 2
    <2>1. DOMAIN name = 1 .. 5
        OBVIOUS
    <2>2. PICK k \in Nat : k = 2 * n + 1
        BY <1>3
    <2>3. 1 .. k = 1 .. 5
        BY <1>4, <1>6, <2>1, <2>2
    <2>4. k = 5
        <3>1. k >= 1
            BY <1>3, <2>2
        <3>2. k \in 1 .. k /\ 5 \in 1 .. 5
            BY <3>1
        <3>3. k \in 1 .. 5 /\ 5 \in 1 .. k
            BY <2>3, <3>2
        <3> QED
            BY <3>3
    <2>5. PICK j \in Nat : j = n
        BY <1>3
    <2>6. 5 = 2 * j + 1
        BY <2>2, <2>4, <2>5
    <2>7. j = 2
        BY <2>6
    <2> QED
        BY <2>5, <2>7
<1>7. ASSUME Dotted(domain) = name
      PROVE  domain.under = "cdn" /\ domain.labels = <<routing, label>>
    <2>1. domain.labels[1] = routing /\ domain.labels[2] = label /\ domain.under = "cdn"
        BY <1>5, <1>6, <1>7
    <2>2. n = 2
        BY <1>6, <1>7
    <2> QED
        BY <1>3, <2>1, <2>2
<1>8. ASSUME domain.under = "cdn", domain.labels = <<routing, label>>
      PROVE  Dotted(domain) = name
    <2>1. n = 2 /\ domain.labels[1] = routing /\ domain.labels[2] = label
        BY <1>8
    <2> QED
        BY <1>5, <1>8, <2>1
<1> QED
    BY <1>2, <1>7, <1>8

\* shared.go:214: httpMatches are in the order Go ranged over the delivery services
\* in.  Where each HTTP delivery service is a wildcard of a label of its own, at
\* most one of them matches a domain, so that the order decides nothing.
THEOREM WildcardsLeaveNoChoice ==
    ASSUME NEW config, NEW labelOf, NEW domain, domain.labels \in Seq(Names),
           NEW rank \in [DOMAIN config.dss -> Nat],
           \A d \in DOMAIN config.dss :
                /\ labelOf[d] \in Names
                /\ RoutingName(config.dss[d]) \in Names
                /\ \A m \in config.dss[d].matches :
                        m.protocol = "HTTP" => m.type # "HOST" \/ m.text = Around(labelOf[d]),
           \A d, e \in DOMAIN config.dss : labelOf[d] = labelOf[e] => d = e,
           NEW d \in HTTPMatched(config, domain)
    PROVE  FirstOf(HTTPMatched(config, domain), rank) = d
<1>1. ASSUME NEW e \in HTTPMatched(config, domain)
      PROVE  e \in DOMAIN config.dss /\ domain.labels[2] = labelOf[e]
    <2>1. e \in DOMAIN config.dss
        BY DEF HTTPMatched
    <2>2. PICK m \in config.dss[e].matches :
            MatchesHTTP(m, RoutingName(config.dss[e]), domain)
        BY DEF HTTPMatched
    <2>3. m.protocol = "HTTP" /\ m.type = "HOST"
        BY <2>2 DEF MatchesHTTP
    <2>4. m.text = Around(labelOf[e])
        BY <2>1, <2>3
    <2>5. labelOf[e] \in Names /\ RoutingName(config.dss[e]) \in Names
        BY <2>1
    <2>6. domain.labels = <<RoutingName(config.dss[e]), labelOf[e]>>
        BY <2>2, <2>3, <2>4, <2>5, WildcardIsOneName
    <2> QED
        BY <2>1, <2>6
<1>2. HTTPMatched(config, domain) = {d}
    BY <1>1
<1>3. rank[d] <= rank[d]
    BY <1>1
<1> QED
    BY <1>2, <1>3 DEF FirstOf
===============================================================================
