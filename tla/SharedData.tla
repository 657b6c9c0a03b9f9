------------------------------ MODULE SharedData ------------------------------
(***************************************************************************)
(* shared/shared.go: what a Shared derives from the CRConfig and CRStates  *)
(* it is created with, and the lookups the handlers make in it.            *)
(*                                                                         *)
(* NewShared builds its tables once and nothing updates them afterwards,   *)
(* so a table is represented by the operator that reads it from the        *)
(* CRConfig it was built from.  A slice filled while ranging over a Go map *)
(* is a set together with the rank the random iteration gave each member.  *)
(*                                                                         *)
(* Data.  A CRConfig is a record of three functions: servers (content      *)
(* servers), routers (content routers) and dss (delivery services), each   *)
(* on the names the document holds.  An address field is a record: its     *)
(* form ("nil", "empty", "junk", "ip" or "cidr"), family and identity.     *)
(***************************************************************************)
EXTENDS CoverageZone, HostMatch

-------------------------------------------------------------------------------
(* Address fields. *)

Texts == [form : {"nil", "empty", "junk", "ip", "cidr"}, fam : Families, id : Nat]

NoText == [form |-> "nil", fam |-> 4, id |-> 0]

\* ParseIPOrCIDR succeeds.
Parses(text) == text.form \in {"ip", "cidr"}

\* ip.String() of the address parsed: the prefix length is gone.
Address(text) == [text EXCEPT !.form = "ip"]

\* net.ParseIP, and what is left of a text that is no plain address.
ParseIP(text) == IF text.form = "ip" THEN text ELSE NoText

\* The field a family is read from.
Field(entry, fam) == IF fam = 4 THEN entry.ip ELSE entry.ip6

-------------------------------------------------------------------------------
(* BuildDSServersFromCRConfig and BuildCGRoutersFromCRConfig.  A router's    *)
(* Location plays the part of a server's CacheGroup and is named cg here.   *)

\* The guard against a server with neither address dereferences the nil Ip.
EntryPanics(entry) ==
    /\ entry.status # "nil"
    /\ entry.cg # NoGroup
    /\ entry.ip.form = "nil"

\* The entry is not skipped.
Routable(entry) ==
    /\ entry.status \in {"REPORTED", "ONLINE"}
    /\ entry.cg # NoGroup

\* Mutant: To4 is not consulted, any address fits either list.
ListedAnyFamily(entry, fam) == Routable(entry) /\ Parses(Field(entry, fam))

\* The entry gets into the V4s (fam = 4) or the V6s (fam = 6) of its group.
Listed(entry, fam) ==
    /\ Routable(entry)
    /\ Parses(Field(entry, fam))
    /\ Field(entry, fam).fam = fam

\* dsServers[ds][cg]
DSServers(config, ds, cg, fam) ==
    {s \in DOMAIN config.servers :
        /\ ds \in config.servers[s].dses
        /\ config.servers[s].cg = cg
        /\ Listed(config.servers[s], fam)}

\* Mutant: routers are not skipped for their status.
CGRoutersAnyStatus(config, cg, fam) ==
    {r \in DOMAIN config.routers :
        /\ config.routers[r].cg = cg
        /\ Parses(Field(config.routers[r], fam))
        /\ Field(config.routers[r], fam).fam = fam}

\* cgRouters[cg]
CGRouters(config, cg, fam) ==
    {r \in DOMAIN config.routers :
        /\ config.routers[r].cg = cg
        /\ Listed(config.routers[r], fam)}

-------------------------------------------------------------------------------
(* BuildMatchesFromCRConfig.  A delivery service holds a set of matches; one *)
(* of a match set that is null has no protocol.                              *)

\* DefaultHTTPRoutingName stands in for a nil RoutingName.
RoutingName(ds) == IF ds.routing = NoName THEN Ccr ELSE ds.routing

\* The delivery services of dnsMatches, and of httpDNSMatches, that match.
DNSMatched(config, domain) ==
    {d \in DOMAIN config.dss :
        \E m \in config.dss[d].matches : MatchesDNS(m, domain)}

HTTPMatched(config, domain) ==
    {d \in DOMAIN config.dss :
        \E m \in config.dss[d].matches : MatchesHTTP(m, RoutingName(config.dss[d]), domain)}

\* DSMatches.Match: the first in the order the map was ranged over.
FirstOf(set, rank) == CHOOSE d \in set : \A e \in set : rank[d] <= rank[e]

\* Mutant: only the delivery services of HTTP protocol get names for their
\* caches, as the TODO of BuildHTTPSecondDNSMatches would have it.
InSecondDNSMatchesOfHTTP(config, domain) ==
    /\ domain.under = "cdn"
    /\ \E s \in DOMAIN config.servers : \E d \in config.servers[s].dses :
        /\ domain.labels = <<s, d>>
        /\ \E m \in config.dss[d].matches : m.protocol = "HTTP"

\* BuildHTTPSecondDNSMatches: cache-name.ds-name.cdn-domain, for every server.
InSecondDNSMatches(config, domain) ==
    /\ domain.under = "cdn"
    /\ \E s \in DOMAIN config.servers : \E d \in config.servers[s].dses :
        domain.labels = <<s, d>>

\* What decoding a CRConfig makes of its servers and routers.
Decodes(config) ==
    /\ \A s \in DOMAIN config.servers :
        /\ {config.servers[s].ip, config.servers[s].ip6} \subseteq Texts
        /\ config.servers[s].dses \subseteq Names
    /\ \A r \in DOMAIN config.routers :
        {config.routers[r].ip, config.routers[r].ip6} \subseteq Texts

\* NewShared panics on a CRConfig with one such entry, in whatever server,
\* router or delivery service it is.
BuildPanics(config) ==
    \/ \E s \in DOMAIN config.servers : EntryPanics(config.servers[s])
    \/ \E r \in DOMAIN config.routers : EntryPanics(config.routers[r])
    \/ \E d \in DOMAIN config.dss : \E m \in config.dss[d].matches : MatchPanics(m)

-------------------------------------------------------------------------------
(* getServer, getRouter and combineCGRouters. *)

LastOf(set, rank) == CHOOSE s \in set : \A t \in set : rank[t] <= rank[s]

Several(set) == \E s, t \in set : s # t

\* rand.Intn(len-1) never yields the last index, except for a slice of one.
StartOf(set, rank) == IF Several(set) THEN set \ {LastOf(set, rank)} ELSE set

\* getServer: the caches it may return, NoName for none.  One candidate is not
\* checked.  Of several, the loop tests the one drawn first in every round, so
\* it either takes that one or goes all the way round and gives up.
GetServer(set, rank, available) ==
    IF Several(set)
    THEN {IF s \in available THEN s ELSE NoName : s \in StartOf(set, rank)}
    ELSE IF set = {} THEN {NoName} ELSE set

\* combineCGRouters and getRouter.  The groups are ranged over anew for each
\* request, so the slice ends with the last router of any group that has one.
GetRouter(config, rank, fam) ==
    LET groupOf(g) == CGRouters(config, g, fam)
        all == UNION {groupOf(g) : g \in Groups}
    IN  IF all = {} THEN {NoName}
        ELSE IF ~Several(all) THEN all
        ELSE UNION {all \ {LastOf(groupOf(g), rank)} :
                        g \in {h \in Groups : groupOf(h) # {}}}

-------------------------------------------------------------------------------
(* The lookups.  A reply is the Go result tuple: rcode "ok", "refused" or   *)
(* "servfail"; text the address, host and ds the two names; via, for the    *)
(* reader, the table that answered.                                         *)

Refused == [rcode |-> "refused", text |-> NoText, host |-> NoName, ds |-> NoName, via |-> "none"]
ServFail == [Refused EXCEPT !.rcode = "servfail"]

Found(text, host, ds, via) ==
    [rcode |-> "ok", text |-> text, host |-> host, ds |-> ds, via |-> via]

\* GetServerName, in the CRConfig polled last.  The text is handed out as it
\* stands, and for IPv4 the two names come in the other order.
GetServerName(config, cache, fam) ==
    IF cache \notin DOMAIN config.servers THEN ServFail
    ELSE LET text == Field(config.servers[cache], fam)
         IN  IF text.form = "nil" THEN Refused
             ELSE IF fam = 4 THEN Found(text, NoName, cache, "second")
             ELSE Found(text, cache, NoName, "second")

\* GetServerForDomainDNS
DNSReplies(sh, zone, fam, ds) ==
    {IF s = NoName THEN ServFail
     ELSE Found(Address(Field(sh.built.servers[s], fam)), s, ds, "dns") :
        s \in GetServer(DSServers(sh.built, ds, zone, fam), sh.rank, sh.available)}

\* GetServerForDomainHTTP: a router of the tables, unless the CRConfig polled
\* last has no router at all.
HTTPReplies(sh, fam, ds) ==
    IF DOMAIN sh.crConfig.routers = {} THEN {ServFail}
    ELSE {IF r = NoName THEN ServFail
          ELSE Found(Address(Field(sh.built.routers[r], fam)), r, ds, "http") :
            r \in GetRouter(sh.built, sh.rank, fam)}

\* The FQDN ends in "." and, without it, in the text of the CDN domain, which
\* a domain that merely ends in the same letters does too.
Ours(domain) == domain.dot /\ domain.under \in {"cdn", "lookalike"}

\* Mutant: the names of caches are looked for in the CRConfig polled last.
RepliesAsPolled(sh, zone, domain, fam) ==
    LET dns == DNSMatched(sh.built, domain)
        http == HTTPMatched(sh.built, domain)
    IN  IF ~Ours(domain) THEN {Refused}
        ELSE IF InSecondDNSMatches(sh.crConfig, domain)
             THEN {GetServerName(sh.crConfig, domain.labels[1], fam)}
        ELSE IF dns # {} THEN DNSReplies(sh, zone, fam, FirstOf(dns, sh.rank))
        ELSE IF http # {} THEN HTTPReplies(sh, fam, FirstOf(http, sh.rank))
        ELSE {Refused}

\* GetServerForDomain
Replies(sh, zone, domain, fam) ==
    LET dns == DNSMatched(sh.built, domain)
        http == HTTPMatched(sh.built, domain)
    IN  IF ~Ours(domain) THEN {Refused}
        ELSE IF InSecondDNSMatches(sh.built, domain)
             THEN {GetServerName(sh.crConfig, domain.labels[1], fam)}
        ELSE IF dns # {} THEN DNSReplies(sh, zone, fam, FirstOf(dns, sh.rank))
        ELSE IF http # {} THEN HTTPReplies(sh, fam, FirstOf(http, sh.rank))
        ELSE {Refused}
===============================================================================
