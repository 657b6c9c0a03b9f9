----------------------------- MODULE RequestPath ------------------------------
(***************************************************************************)
(* srvdns/server.go and srvhttp/server.go over one Shared: DNS and HTTP    *)
(* requests are answered while the two pollers replace the CRConfig and    *)
(* the CRStates the Shared points to.                                      *)
(*                                                                         *)
(* A lookup reads at most one of those pointers, once, so it is one step;  *)
(* an ANY question makes two lookups, and a poll may come between them.    *)
(* The Shared is one NewShared would return: its two pointer cells are     *)
(* taken to exist (HotReload models that they do not).                     *)
(*                                                                         *)
(* dns.Server passes on messages with one question only (acceptfunc.go:48) *)
(* and net/http passes on a RemoteAddr that splits into address and port.  *)
(***************************************************************************)
EXTENDS SharedData

CONSTANTS
    Handlers,   \* the goroutines answering DNS requests
    Files,      \* the CRConfigs the file may hold at startup
    Polled,     \* the CRConfigs the monitors may publish later
    FileStates, \* the CRStates the file may hold at startup: the caches available
    PolledStates, \* those the monitors may publish later
    Ranks,      \* the orders Go's maps may be ranged over
    ZoneFiles,  \* the coverage zone files there may be at startup
    Clients,    \* the addresses clients have, of family 0 if ParseIP returns nil
    Domains     \* the FQDNs clients ask for, beside those they are sent to

\* What NewShared returns a Shared for.
ASSUME FilesAssumption ==
    /\ \A config \in Files : Decodes(config) /\ ~BuildPanics(config)
    /\ \A file \in ZoneFiles : DOMAIN file \subseteq Groups

ASSUME ClientsAssumption == \A client \in Clients : client.fam \in Families \cup {0}

VARIABLES
    built,      \* the CRConfig the tables were built from
    rank,       \* the order its maps were ranged over
    czf,        \* sh.czf
    available,  \* serverAvailable: the caches that are, others are not or unknown
    crConfig,   \* *sh.crConfig
    crStates,   \* *sh.crStates, the caches available by it
    handler,    \* each DNS goroutine's request and the reply so far
    redirect    \* the Location of the latest 302, and what led to it

tables == <<built, rank, czf, available>>
vars == <<tables, crConfig, crStates, handler, redirect>>

sh == [built |-> built, rank |-> rank, available |-> available, crConfig |-> crConfig]

\* A client whose address is not understood is in no zone.
Zones(client) == IF client.fam = 0 THEN {NoGroup} ELSE GetZone(czf, client)

\* Steps 3 and 4 of the flow at shared.go:641: the FQDN a 302 names is asked for.
RedirectDomain(r) == [dot |-> TRUE, under |-> "cdn", labels |-> <<r.host, r.ds>>]

NoRedirect == [host |-> NoName, ds |-> NoName, fam |-> 4, via |-> "none"]

Asked == Domains \cup (IF redirect = NoRedirect THEN {} ELSE {RedirectDomain(redirect)})

NoQuestion == [type |-> "none", client |-> [fam |-> 0, bits |-> <<>>], zone |-> NoGroup,
               domain |-> [dot |-> FALSE, under |-> "other", labels |-> <<>>]]

Idle == [pc |-> "idle", question |-> NoQuestion, rcode |-> "ok", aa |-> FALSE, answers |-> <<>>]

Init ==
    /\ built \in Files
    /\ rank \in Ranks
    /\ czf \in {ParseCZNets(file) : file \in {f \in ZoneFiles : ZonesParse(f)}}
    /\ crStates \in FileStates
    /\ available = crStates
    /\ crConfig = built
    /\ handler = [h \in Handlers |-> Idle]
    /\ redirect = NoRedirect

-------------------------------------------------------------------------------
(* The pollers. *)

\* SetCRConfig.
PollCRConfig ==
    /\ crConfig' \in Polled
    /\ UNCHANGED <<tables, crStates, handler, redirect>>

\* SetCRStates.
PollCRStates ==
    /\ crStates' \in PolledStates
    /\ UNCHANGED <<tables, crConfig, handler, redirect>>

-------------------------------------------------------------------------------
(* ServeDNS. *)

\* The zone is looked up once, before the questions.
Question(types) ==
    UNION {[type : types, client : {client}, zone : Zones(client), domain : Asked] :
                client \in Clients}

\* Mutant: it is looked up for each record.
ZoneAgain(q) == Zones(q.client)

\* The zone of a request's second lookup.
ZoneKept(q) == {q.zone}

\* What a lookup found, appended to the answer section with the record's type.  A
\* text that net.ParseIP does not take makes a record without an address.
Answer(reply, fam) ==
    [fam |-> fam, text |-> ParseIP(reply.text), host |-> reply.host, ds |-> reply.ds,
     via |-> reply.via]

\* Mutant: the reply of a failed lookup does not end the request.
FailsOnlyAlone(reply, before) == reply.rcode # "ok" /\ before = <<>>

\* servFail or refuse: the message is written at once, with the answers it has.
Fails(reply, before) == reply.rcode # "ok"

\* Mutant: ServeDNS does not return after the second lookup.
AfterAnswerAgain(last) == "second"

\* Where a lookup that found something leaves the request.
AfterAnswer(last) == IF last THEN "done" ELSE "second"

\* The message after a lookup for fam, the last of the request if done.
Message(q, reply, fam, before, last) ==
    IF Fails(reply, before)
    THEN [pc |-> "done", question |-> q, rcode |-> reply.rcode, aa |-> FALSE,
          answers |-> before]
    ELSE [pc |-> AfterAnswer(last), question |-> q, rcode |-> "ok",
          aa |-> last, answers |-> Append(before, Answer(reply, fam))]

\* A and AAAA questions: one lookup.
DNSQuestion(h) ==
    /\ handler[h].pc = "idle"
    /\ \E q \in Question({"A", "AAAA"}) :
        LET fam == IF q.type = "A" THEN 4 ELSE 6
        IN  \E reply \in Replies(sh, q.zone, q.domain, fam) :
                handler' = [handler EXCEPT ![h] = Message(q, reply, fam, <<>>, TRUE)]
    /\ UNCHANGED <<tables, crConfig, crStates, redirect>>

\* An ANY question: the A lookup.
DNSAny(h) ==
    /\ handler[h].pc = "idle"
    /\ \E q \in Question({"ANY"}) :
        \E reply \in Replies(sh, q.zone, q.domain, 4) :
            handler' = [handler EXCEPT ![h] = Message(q, reply, 4, <<>>, FALSE)]
    /\ UNCHANGED <<tables, crConfig, crStates, redirect>>

\* The AAAA lookup of an ANY question.
DNSAnySecond(h) ==
    /\ handler[h].pc = "second"
    /\ LET q == handler[h].question
       IN  \E zone \in ZoneKept(q) : \E reply \in Replies(sh, zone, q.domain, 6) :
            handler' = [handler EXCEPT ![h] =
                            Message(q, reply, 6, handler[h].answers, TRUE)]
    /\ UNCHANGED <<tables, crConfig, crStates, redirect>>

\* Any other type is refused.
DNSOther(h) ==
    /\ handler[h].pc = "idle"
    /\ \E q \in Question({"other"}) :
        handler' = [handler EXCEPT ![h] = Message(q, Refused, 4, <<>>, TRUE)]
    /\ UNCHANGED <<tables, crConfig, crStates, redirect>>

\* The message is on its way; the goroutine's state is gone.
DNSDone(h) ==
    /\ handler[h].pc = "done"
    /\ handler' = [handler EXCEPT ![h] = Idle]
    /\ UNCHANGED <<tables, crConfig, crStates, redirect>>

-------------------------------------------------------------------------------
(* ServeHTTP.  A lookup that fails is answered 500 or 400, which changes     *)
(* nothing here; otherwise 302 to host.ds.cdn-domain.                        *)

HTTPRequest ==
    /\ \E domain \in {d \in Asked : d.dot}, client \in {c \in Clients : c.fam # 0} :
        \E zone \in Zones(client) : \E reply \in Replies(sh, zone, domain, client.fam) :
            /\ reply.rcode = "ok"
            /\ redirect' = [host |-> reply.host, ds |-> reply.ds,
                            fam |-> client.fam, via |-> reply.via]
    /\ UNCHANGED <<tables, crConfig, crStates, handler>>

-------------------------------------------------------------------------------
DNSStep(h) ==
    \/ DNSQuestion(h)
    \/ DNSAny(h)
    \/ DNSAnySecond(h)
    \/ DNSOther(h)
    \/ DNSDone(h)

Next ==
    \/ PollCRConfig
    \/ PollCRStates
    \/ \E h \in Handlers : DNSStep(h)
    \/ HTTPRequest

Spec == Init /\ [][Next]_vars

-------------------------------------------------------------------------------
(* Properties. *)

TypeOK ==
    /\ built \in Files
    /\ rank \in Ranks
    /\ DOMAIN czf \subseteq Groups
    /\ available \in FileStates
    /\ crConfig \in Files \cup Polled
    /\ crStates \in FileStates \cup PolledStates
    /\ DOMAIN handler = Handlers
    /\ \A h \in Handlers :
        /\ handler[h].pc \in {"idle", "second", "done"}
        /\ handler[h].rcode \in {"ok", "servfail", "refused"}
        /\ Len(handler[h].answers) <= 2
    /\ redirect.fam \in Families
    /\ redirect.via \in {"none", "second", "dns", "http"}

Records(answers) == {answers[i] : i \in DOMAIN answers}

\* P holds of every answer in a reply under way, and of its question.
EveryAnswer(P(_, _)) ==
    \A h \in Handlers : \A a \in Records(handler[h].answers) : P(handler[h].question, a)

\* What a cache answering for a DNS delivery service must be, in the CRConfig
\* the tables were built from.
Delivers(q, a) ==
    a.via = "dns" =>
        LET entry == built.servers[a.host]
        IN  /\ a.host \in DOMAIN built.servers
            /\ a.ds \in entry.dses
            /\ \E network \in NetworksFor(czf[entry.cg], q.client) :
                    Contains(network, q.client)
            /\ entry.status \in {"REPORTED", "ONLINE"}
            /\ a.text.form = "ip" /\ a.text.fam = a.fam

\* A DNS delivery service answers with an edge of its own, in a cache group whose
\* networks hold the client's address, in service, and with an address of the
\* record's type: through the zone file, the build of the tables, the match and
\* the draw, whatever is polled.
AnswersDeliver == EveryAnswer(Delivers)

\* What a router answering for an HTTP delivery service must be.
Routes(q, a) ==
    a.via = "http" =>
        LET entry == built.routers[a.host]
        IN  /\ a.host \in DOMAIN built.routers
            /\ entry.status \in {"REPORTED", "ONLINE"}
            /\ entry.cg # NoGroup
            /\ a.text = Address(Field(entry, a.fam)) /\ a.text.fam = a.fam

\* An HTTP delivery service answers DNS with a router that is in service, and with
\* its own address of the record's type: through the build of the routers by
\* group, their combination over all groups and the draw, although that they are
\* there at all is decided by the CRConfig polled last.
RoutersRoute == EveryAnswer(Routes)

\* The cache of a cache's own name, which the two families of GetServerName
\* return in different places, or the delivery service.
Subject(a) == IF a.via = "second" THEN {a.host, a.ds} \ {NoName} ELSE {a.ds}

\* The two records of an ANY come out of one table and are for one cache or one
\* delivery service, although each lookup goes through all the tables again and
\* polls come between them.
OneServicePerMessage ==
    \A h \in Handlers : \A a, b \in Records(handler[h].answers) :
        a.via = b.via /\ Subject(a) = Subject(b)

\* A client in several zones is not sent to two of them by one message: the A and
\* the AAAA record of an ANY are for caches of one group.
OneGroupPerMessage ==
    \A h \in Handlers :
        LET dns == {a \in Records(handler[h].answers) : a.via = "dns"}
        IN  \A a, b \in dns : built.servers[a.host].cg = built.servers[b.host].cg

\* The families of the records a question asks for.
Wanted(type) == IF type = "A" THEN {4} ELSE IF type = "AAAA" THEN {6} ELSE Families

\* An authoritative message has a record of each family asked for, so that ANY is
\* not answered with half of its records; and each holds an address, but for those
\* of a cache's own name, which hold what net.ParseIP makes of the field polled.
AuthoritativeIsComplete ==
    \A h \in Handlers :
        LET answers == Records(handler[h].answers)
        IN  handler[h].aa =>
                /\ {a.fam : a \in answers} = Wanted(handler[h].question.type)
                /\ \A a \in answers : a.text.form = "nil" => a.via = "second"

\* Where the redirect leads, if the client follows it now.
Followed(fam) == Replies(sh, NoGroup, RedirectDomain(redirect), fam)

\* The address a client gets from a reply, if any.
Given(reply, fam) == IF reply.rcode = "ok" THEN Answer(reply, fam).text ELSE NoText

\* The plain address the CRConfig in force has for a cache, if any.
AddressOf(cache, fam) ==
    IF cache \in DOMAIN crConfig.servers
    THEN ParseIP(Field(crConfig.servers[cache], fam)) ELSE NoText

\* The FQDN a 302 for a DNS delivery service names is a cache's own: asked for, it
\* gives the address the CRConfig in force has for that cache, and none, rather
\* than another's, when that CRConfig has lost the cache or has no plain address
\* for it; the "contains" match of the delivery service, which holds of that FQDN
\* as well, does not take it over, nor does the match of one whose name is part of
\* it.  The redirect comes out of dsServers, the answer out of
\* httpSecondDNSMatches and the polled CRConfig.
RedirectLeadsToItsCache ==
    redirect.via = "dns" =>
        \A fam \in Families : \A reply \in Followed(fam) :
            Given(reply, fam) = AddressOf(redirect.host, fam)

-------------------------------------------------------------------------------
(* What the documentation says and the code does not do. *)

\* shared.go:644: the client of an HTTP delivery service "Gets a 302 redirect to
\* a FQDN, which is cache-host.ds-name.cdn-domain".
HTTPServiceRedirectsToCache ==
    redirect.via = "http" => redirect.host \in DOMAIN built.servers

Unanswerable(q, fam) ==
    LET dns == DNSMatched(built, q.domain)
    IN  DSServers(built, FirstOf(dns, rank), q.zone, fam) \cap available = {}

\* shared.go:162: "If a server is unhealthy, the next server in the hash ring
\* should be used instead": a SERVFAIL means there is none.
NextServerIfUnhealthy ==
    \A h \in Handlers :
        LET q == handler[h].question
        IN  /\ handler[h].rcode = "servfail"
            /\ q.type = "A"
            /\ ~InSecondDNSMatches(built, q.domain)
            /\ DNSMatched(built, q.domain) # {}
            => Unanswerable(q, 4)

\* shared.go:56: "serverAvailable is whether the given server is available, per the
\* Traffic Monitor CRStates": of several candidates the one put into an answer is
\* available by the CRStates in force.
AvailablePerMonitor ==
    [][\A h \in Handlers :
        \A a \in Records(handler'[h].answers) \ Records(handler[h].answers) :
            a.via = "dns" /\ Several(DSServers(built, a.ds, handler'[h].question.zone, a.fam))
                => a.host \in crStates]_vars
===============================================================================
