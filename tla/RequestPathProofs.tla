-------------------------- MODULE RequestPathProofs ---------------------------
(***************************************************************************)
(* Proofs about RequestPath, for any CRConfigs, zone files, clients,       *)
(* domains and orders of Go's maps.                                        *)
(*                                                                         *)
(* The tables are never written, so what a lookup promised when a record   *)
(* was appended (Sent) holds as long as the record is there, whatever is   *)
(* polled.  ServeDNS appends only what a lookup found, for the zone and    *)
(* with the family of the question, from the table the domain is in        *)
(* (RequestInv), and ServeHTTP redirects to an edge of the tables that     *)
(* built the name it is sent to (RedirectInv).                             *)
(***************************************************************************)
EXTENDS RequestPath, SharedDataProofs

\* What a record appended for a client in this zone holds.
Served(zone, a) ==
    /\ a.fam \in Families
    /\ a.text.form = "nil" => a.via = "second"
    /\ a.via = "dns" =>
        /\ a.host \in DOMAIN built.servers
        /\ a.ds \in built.servers[a.host].dses
        /\ built.servers[a.host].cg = zone
        /\ Listed(built.servers[a.host], a.fam)
        /\ a.text.form = "ip" /\ a.text.fam = a.fam
    /\ a.via = "http" =>
        /\ a.host \in DOMAIN built.routers
        /\ Listed(built.routers[a.host], a.fam)
        /\ a.text = Address(Field(built.routers[a.host], a.fam)) /\ a.text.fam = a.fam

\* The table that answers for a domain, and for which cache or delivery service:
\* the same at each lookup, since GetServerForDomain decides it by the tables only.
Source(domain) ==
    LET dns == DNSMatched(built, domain)
    IN  IF InSecondDNSMatches(built, domain)
        THEN [via |-> "second", of |-> {domain.labels[1]} \ {NoName}]
        ELSE IF dns # {} THEN [via |-> "dns", of |-> {FirstOf(dns, rank)}]
        ELSE [via |-> "http", of |-> {FirstOf(HTTPMatched(built, domain), rank)}]

\* What a record appended for a question holds.
Sent(zone, domain, a) ==
    /\ Served(zone, a)
    /\ a.via = Source(domain).via
    /\ Subject(a) = Source(domain).of

\* The families of the records so far.
Held(r) == {a.fam : a \in Records(r.answers)}

RequestInv(r) ==
    /\ r.pc \in {"idle", "second", "done"}
    /\ r.rcode \in {"ok", "servfail", "refused"}
    /\ r.aa \in BOOLEAN
    /\ r.answers \in Seq(Records(r.answers))
    /\ Len(r.answers) <= 2
    /\ r.pc = "second" => /\ Len(r.answers) = 1
                          /\ r.question.type = "ANY" /\ Held(r) = {4} /\ ~r.aa
    /\ r.pc # "idle" => r.question.zone \in Zones(r.question.client)
    /\ \A a \in Records(r.answers) : Sent(r.question.zone, r.question.domain, a) /\ r.pc # "idle"
    /\ r.aa => Held(r) = Wanted(r.question.type)

RedirectInv ==
    /\ redirect.fam \in Families
    /\ redirect.via \in {"none", "second", "dns", "http"}
    /\ redirect.via = "dns" =>
        /\ redirect.host \in DOMAIN built.servers
        /\ redirect.ds \in built.servers[redirect.host].dses

TablesInv ==
    /\ built \in Files
    /\ rank \in Ranks
    /\ DOMAIN czf \subseteq Groups
    /\ available \in FileStates
    /\ crConfig \in Files \cup Polled
    /\ crStates \in FileStates \cup PolledStates

PathInv ==
    /\ TablesInv
    /\ DOMAIN handler = Handlers
    /\ \A h \in Handlers : RequestInv(handler[h])
    /\ RedirectInv

-------------------------------------------------------------------------------
(* The lookups. *)

LEMMA DNSReplySent ==
    ASSUME Decodes(built), NEW zone, NEW fam \in Families, NEW ds,
           NEW reply \in DNSReplies(sh, zone, fam, ds), reply.rcode = "ok"
    PROVE  Served(zone, Answer(reply, fam)) /\ reply.via = "dns"
<1> DEFINE set == DSServers(built, ds, zone, fam)
<1>1. PICK s \in GetServer(set, rank, available) :
        reply = IF s = NoName THEN ServFail
                ELSE Found(Address(Field(built.servers[s], fam)), s, ds, "dns")
    BY DEF DNSReplies, sh
<1>2. s # NoName
    BY <1>1 DEF ServFail, Refused
<1>3. reply = [rcode |-> "ok", text |-> Address(Field(built.servers[s], fam)),
               host |-> s, ds |-> ds, via |-> "dns"]
    BY <1>1, <1>2 DEF Found
<1>4. s \in set
    BY <1>2, GetServerDraws
<1>5. /\ s \in DOMAIN built.servers
      /\ ds \in built.servers[s].dses
      /\ built.servers[s].cg = zone
      /\ Listed(built.servers[s], fam)
    BY <1>4 DEF DSServers
<1>6. {built.servers[s].ip, built.servers[s].ip6} \subseteq Texts
    BY <1>5 DEF Decodes
<1>7. /\ Address(Field(built.servers[s], fam)).form = "ip"
      /\ Address(Field(built.servers[s], fam)).fam = fam
    BY <1>5, <1>6, ListedHasAddress
<1> HIDE DEF set
<1>8. Answer(reply, fam) = [fam |-> fam, text |-> Address(Field(built.servers[s], fam)),
                            host |-> s, ds |-> ds, via |-> "dns"]
    BY <1>3, <1>7 DEF Answer, ParseIP
<1> QED
    BY <1>3, <1>5, <1>7, <1>8 DEF Served

LEMMA HTTPReplySent ==
    ASSUME Decodes(built), NEW zone, NEW fam \in Families, NEW ds,
           NEW reply \in HTTPReplies(sh, fam, ds), reply.rcode = "ok"
    PROVE  Served(zone, Answer(reply, fam)) /\ reply.via = "http"
<1>1. PICK r \in GetRouter(built, rank, fam) :
        reply = IF r = NoName THEN ServFail
                ELSE Found(Address(Field(built.routers[r], fam)), r, ds, "http")
    BY DEF HTTPReplies, ServFail, Refused, sh
<1>2. r # NoName
    BY <1>1 DEF ServFail, Refused
<1>3. reply = [rcode |-> "ok", text |-> Address(Field(built.routers[r], fam)),
               host |-> r, ds |-> ds, via |-> "http"]
    BY <1>1, <1>2 DEF Found
<1>4. r \in DOMAIN built.routers /\ Listed(built.routers[r], fam)
    BY <1>2, GetRouterDraws DEF CGRouters
<1>5. {built.routers[r].ip, built.routers[r].ip6} \subseteq Texts
    BY <1>4 DEF Decodes
<1>6. /\ Address(Field(built.routers[r], fam)).form = "ip"
      /\ Address(Field(built.routers[r], fam)).fam = fam
    BY <1>4, <1>5, ListedHasAddress
<1>7. Answer(reply, fam) = [fam |-> fam, text |-> Address(Field(built.routers[r], fam)),
                            host |-> r, ds |-> ds, via |-> "http"]
    BY <1>3, <1>6 DEF Answer, ParseIP
<1> QED
    BY <1>3, <1>4, <1>6, <1>7 DEF Served

\* A record made of what a lookup found is for the source of the domain, and has an
\* address unless that is a cache's own name.
LEMMA ReplySent ==
    ASSUME Decodes(built), NEW zone, NEW fam \in Families, NEW domain,
           NEW reply \in Replies(sh, zone, domain, fam), reply.rcode = "ok"
    PROVE  Sent(zone, domain, Answer(reply, fam)) /\ reply.via \in {"second", "dns", "http"}
<1> DEFINE dns == DNSMatched(built, domain)
           http == HTTPMatched(built, domain)
           a == Answer(reply, fam)
<1>1. a.via = reply.via /\ a.host = reply.host /\ a.ds = reply.ds
      /\ a.fam = fam
    BY DEF Answer
<1>2. reply # Refused /\ reply # ServFail
    BY DEF Refused, ServFail
<1>3. CASE InSecondDNSMatches(built, domain)
    <2> DEFINE cache == domain.labels[1]
               text == Field(crConfig.servers[cache], fam)
    <2>1. reply = GetServerName(crConfig, cache, fam)
        BY <1>2, <1>3 DEF Replies, sh
    <2>2. \/ reply = Found(text, NoName, cache, "second")
          \/ reply = Found(text, cache, NoName, "second")
        BY <1>2, <2>1 DEF GetServerName
    <2> HIDE DEF cache, text
    <2>3. /\ reply.via = "second"
          /\ {reply.host, reply.ds} = {NoName, cache}
        BY <2>2 DEF Found
    <2>4. Served(zone, a)
        BY <1>1, <2>3 DEF Served
    <2>5. Subject(a) = {cache} \ {NoName}
        BY <1>1, <2>3 DEF Subject
    <2>6. Source(domain) = [via |-> "second", of |-> {cache} \ {NoName}]
        BY <1>3 DEF Source, cache
    <2> QED
        BY <1>1, <2>3, <2>4, <2>5, <2>6 DEF Sent
<1>4. CASE ~InSecondDNSMatches(built, domain) /\ dns # {}
    <2> DEFINE ds == FirstOf(dns, rank)
    <2>1. reply \in DNSReplies(sh, zone, fam, ds)
        BY <1>2, <1>4 DEF Replies, sh
    <2>2. Served(zone, a) /\ reply.via = "dns"
        BY <2>1, DNSReplySent
    <2>3. reply.ds = ds
        BY <1>2, <2>1 DEF DNSReplies, Found
    <2>4. Source(domain) = [via |-> "dns", of |-> {ds}]
        BY <1>4 DEF Source
    <2> QED
        BY <1>1, <2>2, <2>3, <2>4 DEF Sent, Subject
<1>5. CASE ~InSecondDNSMatches(built, domain) /\ dns = {}
    <2> DEFINE ds == FirstOf(http, rank)
    <2>1. reply \in HTTPReplies(sh, fam, ds)
        BY <1>2, <1>5 DEF Replies, sh
    <2>2. Served(zone, a) /\ reply.via = "http"
        BY <2>1, HTTPReplySent
    <2>3. reply.ds = ds
        BY <1>2, <2>1 DEF HTTPReplies, Found
    <2>4. Source(domain) = [via |-> "http", of |-> {ds}]
        BY <1>5 DEF Source
    <2> QED
        BY <1>1, <2>2, <2>3, <2>4 DEF Sent, Subject
<1> QED
    BY <1>3, <1>4, <1>5

\* A lookup that fails does so with one of the two codes.
LEMMA ReplyCode ==
    ASSUME NEW zone, NEW fam, NEW domain, NEW reply \in Replies(sh, zone, domain, fam)
    PROVE  reply.rcode \in {"ok", "servfail", "refused"}
<1>1. ServFail.rcode = "servfail" /\ Refused.rcode = "refused"
    BY DEF Refused, ServFail
<1>2. ASSUME NEW text, NEW host, NEW ds, NEW via
      PROVE  Found(text, host, ds, via).rcode = "ok"
    BY DEF Found
<1>3. GetServerName(sh.crConfig, domain.labels[1], fam).rcode \in {"ok", "servfail", "refused"}
    BY <1>1, <1>2 DEF GetServerName
<1>4. ASSUME NEW ds, reply \in DNSReplies(sh, zone, fam, ds)
      PROVE  reply.rcode \in {"ok", "servfail"}
    BY <1>1, <1>2, <1>4 DEF DNSReplies
<1>5. ASSUME NEW ds, reply \in HTTPReplies(sh, fam, ds)
      PROVE  reply.rcode \in {"ok", "servfail"}
    BY <1>1, <1>2, <1>5 DEF HTTPReplies
<1>6. \/ reply = Refused
      \/ reply = GetServerName(sh.crConfig, domain.labels[1], fam)
      \/ \E ds : reply \in DNSReplies(sh, zone, fam, ds)
      \/ \E ds : reply \in HTTPReplies(sh, fam, ds)
    BY Zenon DEF Replies
<1> QED
    BY <1>1, <1>3, <1>4, <1>5, <1>6

-------------------------------------------------------------------------------
(* Messages. *)

LEMMA AppendRecord ==
    ASSUME NEW before, before \in Seq(Records(before)), NEW a
    PROVE  /\ Append(before, a) \in Seq(Records(Append(before, a)))
           /\ Records(Append(before, a)) = Records(before) \cup {a}
           /\ Len(Append(before, a)) = Len(before) + 1
<1> DEFINE both == Records(before) \cup {a}
           after == Append(before, a)
<1>1. before \in Seq(both)
    BY DEF Records
<1>2. /\ after \in Seq(both)
      /\ Len(after) = Len(before) + 1
      /\ \A i \in 1 .. Len(before) : after[i] = before[i]
      /\ after[Len(before) + 1] = a
    BY <1>1
<1>3. Len(before) \in Nat /\ DOMAIN before = 1 .. Len(before)
    BY <1>1
<1>4. DOMAIN after = 1 .. Len(before) + 1
    BY <1>2, <1>3
<1>5. Records(after) = both
    BY <1>2, <1>3, <1>4 DEF Records
<1> QED
    BY <1>2, <1>5

LEMMA NoRecords ==
    /\ <<>> \in Seq(Records(<<>>))
    /\ Records(<<>>) = {}
    /\ Len(<<>>) = 0
BY DEF Records

\* The message after a lookup, from the message before it.
LEMMA MessageInv ==
    ASSUME NEW q, NEW before, NEW fam, NEW last \in BOOLEAN, NEW reply,
           q.zone \in Zones(q.client),
           before \in Seq(Records(before)), Len(before) <= 1,
           \A a \in Records(before) : Sent(q.zone, q.domain, a),
           reply.rcode \in {"ok", "servfail", "refused"},
           reply.rcode = "ok" => /\ Sent(q.zone, q.domain, Answer(reply, fam))
                                 /\ last => {a.fam : a \in Records(before)} \cup {fam}
                                                = Wanted(q.type)
                                 /\ ~last => before = <<>> /\ q.type = "ANY" /\ fam = 4
    PROVE  RequestInv(Message(q, reply, fam, before, last))
<1> DEFINE r == Message(q, reply, fam, before, last)
           a == Answer(reply, fam)
<1>0. Len(before) \in Nat
    OBVIOUS
<1>1. CASE reply.rcode # "ok"
    <2>1. r = [pc |-> "done", question |-> q, rcode |-> reply.rcode, aa |-> FALSE,
               answers |-> before]
        BY <1>1 DEF Message, Fails
    <2> HIDE DEF r
    <2>2. /\ r.pc = "done" /\ r.question = q /\ r.rcode = reply.rcode
          /\ r.answers = before
        BY <2>1
    <2>3. r.aa = FALSE
        BY <2>1
    <2>4. /\ r.answers \in Seq(Records(r.answers))
          /\ Len(r.answers) <= 2
          /\ \A b \in Records(r.answers) : Sent(r.question.zone, r.question.domain, b)
        BY <1>0, <2>2
    <2>5. RequestInv(r)
        BY <2>2, <2>3, <2>4 DEF RequestInv
    <2> QED
        BY <2>5 DEF r
<1>2. CASE reply.rcode = "ok"
    <2>1. r = [pc |-> IF last THEN "done" ELSE "second", question |-> q, rcode |-> "ok",
               aa |-> last, answers |-> Append(before, a)]
        BY <1>2 DEF Message, Fails, AfterAnswer
    <2>2. a.fam = fam
        BY DEF Answer
    <2> HIDE DEF r, a
    <2>3. /\ r.answers \in Seq(Records(r.answers))
          /\ Records(r.answers) = Records(before) \cup {a}
          /\ Len(r.answers) = Len(before) + 1
        BY <2>1, AppendRecord
    <2>4. Sent(q.zone, q.domain, a)
        BY <1>2 DEF a
    <2>5. Held(r) = {b.fam : b \in Records(before)} \cup {fam}
        BY <2>2, <2>3 DEF Held
    <2>6. last => Held(r) = Wanted(r.question.type)
        BY <1>2, <2>1, <2>5
    <2>7. ~last => Len(r.answers) = 1 /\ r.question.type = "ANY" /\ Held(r) = {4}
        <3> SUFFICES ASSUME ~last
                     PROVE  Len(r.answers) = 1 /\ r.question.type = "ANY" /\ Held(r) = {4}
            OBVIOUS
        <3>1. before = <<>> /\ q.type = "ANY" /\ fam = 4
            BY <1>2
        <3>2. Records(before) = {} /\ Len(before) = 0
            BY <3>1, NoRecords
        <3> QED
            BY <2>1, <2>3, <2>5, <3>1, <3>2
    <2>8. \A b \in Records(r.answers) : Sent(q.zone, q.domain, b)
        BY <2>3, <2>4
    <2>9. /\ r.pc = IF last THEN "done" ELSE "second"
          /\ r.question = q /\ r.rcode = "ok" /\ r.aa = last
        BY <2>1
    <2>10. RequestInv(r)
        BY <1>0, <2>3, <2>6, <2>7, <2>8, <2>9 DEF RequestInv
    <2> QED
        BY <2>10 DEF r
<1> QED
    BY <1>1, <1>2

\* The first lookup's message, there being no record yet.
LEMMA FirstMessageInv ==
    ASSUME NEW q, NEW fam, NEW last \in BOOLEAN, NEW reply,
           q.zone \in Zones(q.client),
           reply.rcode \in {"ok", "servfail", "refused"},
           reply.rcode = "ok" => /\ Sent(q.zone, q.domain, Answer(reply, fam))
                                 /\ last => {fam} = Wanted(q.type)
                                 /\ ~last => q.type = "ANY" /\ fam = 4
    PROVE  RequestInv(Message(q, reply, fam, <<>>, last))
<1>1. PICK before : before = <<>>
    OBVIOUS
<1>2. before \in Seq(Records(before)) /\ Records(before) = {} /\ Len(before) = 0
    BY <1>1, NoRecords
<1>3. {a.fam : a \in Records(before)} \cup {fam} = {fam}
    BY <1>2
<1>4. Len(before) <= 1 /\ \A a \in Records(before) : Sent(q.zone, q.domain, a)
    BY <1>2
<1>5. RequestInv(Message(q, reply, fam, before, last))
    BY <1>1, <1>2, <1>3, <1>4, MessageInv
<1> QED
    BY <1>1, <1>5

LEMMA IdleInv == RequestInv(Idle)
<1>1. Idle.pc = "idle" /\ Idle.rcode = "ok" /\ Idle.aa = FALSE
    BY DEF Idle
<1>2. Idle.answers = <<>>
    BY DEF Idle
<1>3. /\ Idle.answers \in Seq(Records(Idle.answers))
      /\ Records(Idle.answers) = {}
      /\ Len(Idle.answers) <= 2
    BY <1>2, NoRecords
<1> QED
    BY <1>1, <1>3 DEF RequestInv

\* A lookup's reply is what MessageInv asks of it.
LEMMA LookupReply ==
    ASSUME TablesInv, NEW zone, NEW domain, NEW fam \in Families,
           NEW reply \in Replies(sh, zone, domain, fam)
    PROVE  /\ reply.rcode \in {"ok", "servfail", "refused"}
           /\ reply.rcode = "ok" => /\ Sent(zone, domain, Answer(reply, fam))
                                    /\ reply.via \in {"second", "dns", "http"}
<1>1. Decodes(built)
    BY FilesAssumption DEF TablesInv
<1> QED
    BY <1>1, ReplySent, ReplyCode

\* Nothing an invariant says of a request is of what is polled.
LEMMA RequestsKept ==
    ASSUME UNCHANGED tables, \A h \in Handlers : RequestInv(handler'[h])
    PROVE  \A h \in Handlers : RequestInv(handler[h])'
<1>1. built' = built /\ rank' = rank /\ czf' = czf /\ available' = available
    BY DEF tables
<1>2. ASSUME NEW h \in Handlers
      PROVE  RequestInv(handler[h])'
    <2> DEFINE r == handler'[h]
    <2>1. RequestInv(r)
        OBVIOUS
    <2>2. ASSUME NEW a \in Records(r.answers)
          PROVE  Sent(r.question.zone, r.question.domain, a)
                    <=> Sent(handler[h].question.zone, handler[h].question.domain, a)'
        BY <1>1 DEF Sent, Served, Source
    <2> QED
        BY <1>1, <2>1, <2>2 DEF RequestInv, Held, Zones
<1> QED
    BY <1>2

\* A step of one goroutine.
LEMMA HandlerStep ==
    ASSUME PathInv, UNCHANGED tables, NEW h \in Handlers, NEW m, RequestInv(m),
           handler' = [handler EXCEPT ![h] = m]
    PROVE  DOMAIN handler' = Handlers /\ \A k \in Handlers : RequestInv(handler[k])'
<1>1. DOMAIN handler = Handlers /\ \A k \in Handlers : RequestInv(handler[k])
    BY DEF PathInv
<1>2. \A k \in Handlers : handler'[k] = IF k = h THEN m ELSE handler[k]
    BY <1>1
<1>3. \A k \in Handlers : RequestInv(handler'[k])
    BY <1>1, <1>2
<1>4. DOMAIN handler' = Handlers
    BY <1>1
<1> QED
    BY <1>3, <1>4, RequestsKept

LEMMA RedirectKept ==
    ASSUME UNCHANGED tables, UNCHANGED redirect, RedirectInv
    PROVE  RedirectInv'
BY DEF RedirectInv, tables

LEMMA InitInv == Init => PathInv
<1> SUFFICES ASSUME Init
             PROVE  PathInv
    OBVIOUS
<1>1. DOMAIN czf \subseteq Groups
    <2>1. PICK file \in ZoneFiles : czf = ParseCZNets(file)
        BY DEF Init
    <2>2. DOMAIN czf = DOMAIN file
        BY <2>1 DEF ParseCZNets
    <2> QED
        BY <2>2, FilesAssumption
<1>2. TablesInv
    BY <1>1 DEF Init, TablesInv
<1>3. RedirectInv
    BY DEF Init, NoRedirect, RedirectInv, Families
<1>4. ASSUME NEW h \in Handlers
      PROVE  RequestInv(handler[h])
    BY IdleInv DEF Init
<1>5. DOMAIN handler = Handlers
    BY DEF Init
<1> QED
    BY <1>2, <1>3, <1>4, <1>5 DEF PathInv

-------------------------------------------------------------------------------
(* The steps. *)

LEMMA DNSStepInv ==
    ASSUME PathInv, NEW h \in Handlers, DNSStep(h)
    PROVE  DOMAIN handler' = Handlers /\ \A k \in Handlers : RequestInv(handler[k])'
<1>0. UNCHANGED tables /\ TablesInv /\ RequestInv(handler[h])
    BY DEF PathInv, DNSStep, DNSQuestion, DNSAny, DNSAnySecond, DNSOther, DNSDone
<1>1. CASE DNSQuestion(h)
    <2>1. PICK q \in Question({"A", "AAAA"}) :
            \E reply \in Replies(sh, q.zone, q.domain, IF q.type = "A" THEN 4 ELSE 6) :
                handler' = [handler EXCEPT ![h] =
                    Message(q, reply, IF q.type = "A" THEN 4 ELSE 6, <<>>, TRUE)]
        BY <1>1 DEF DNSQuestion
    <2>2. q.type \in {"A", "AAAA"} /\ q.zone \in Zones(q.client)
        BY <2>1 DEF Question
    <2> DEFINE fam == IF q.type = "A" THEN 4 ELSE 6
    <2>3. fam \in Families /\ {fam} = Wanted(q.type)
        BY <2>2 DEF Families, Wanted
    <2> HIDE DEF fam
    <2>4. PICK reply \in Replies(sh, q.zone, q.domain, fam) :
            handler' = [handler EXCEPT ![h] = Message(q, reply, fam, <<>>, TRUE)]
        BY <2>1 DEF fam
    <2>5. /\ reply.rcode \in {"ok", "servfail", "refused"}
          /\ reply.rcode = "ok" => Sent(q.zone, q.domain, Answer(reply, fam))
        BY <1>0, <2>3, LookupReply
    <2>7. RequestInv(Message(q, reply, fam, <<>>, TRUE))
        BY <2>2, <2>3, <2>5, FirstMessageInv
    <2> QED
        BY <1>0, <2>4, <2>7, HandlerStep
<1>2. CASE DNSAny(h)
    <2>1. PICK q \in Question({"ANY"}) : \E reply \in Replies(sh, q.zone, q.domain, 4) :
            handler' = [handler EXCEPT ![h] = Message(q, reply, 4, <<>>, FALSE)]
        BY <1>2 DEF DNSAny
    <2>2. q.type = "ANY" /\ q.zone \in Zones(q.client)
        BY <2>1 DEF Question
    <2>3. PICK reply \in Replies(sh, q.zone, q.domain, 4) :
            handler' = [handler EXCEPT ![h] = Message(q, reply, 4, <<>>, FALSE)]
        BY <2>1
    <2>4. 4 \in Families
        BY DEF Families
    <2>5. /\ reply.rcode \in {"ok", "servfail", "refused"}
          /\ reply.rcode = "ok" => Sent(q.zone, q.domain, Answer(reply, 4))
        BY <1>0, <2>4, LookupReply
    <2>6. RequestInv(Message(q, reply, 4, <<>>, FALSE))
        BY <2>2, <2>5, FirstMessageInv
    <2> QED
        BY <1>0, <2>3, <2>6, HandlerStep
<1>3. CASE DNSAnySecond(h)
    <2> DEFINE q == handler[h].question
               before == handler[h].answers
    <2>1. handler[h].pc = "second"
        BY <1>3 DEF DNSAnySecond
    <2>2. PICK reply \in Replies(sh, q.zone, q.domain, 6) :
            handler' = [handler EXCEPT ![h] = Message(q, reply, 6, before, TRUE)]
        BY <1>3 DEF DNSAnySecond, ZoneKept
    <2>3. /\ before \in Seq(Records(before)) /\ Len(before) <= 1
          /\ q.type = "ANY" /\ q.zone \in Zones(q.client)
          /\ {a.fam : a \in Records(before)} = {4}
          /\ \A a \in Records(before) : Sent(q.zone, q.domain, a)
        <3> DEFINE r == handler[h]
        <3>1. RequestInv(r) /\ r.pc = "second"
            BY <1>0, <2>1
        <3> HIDE DEF r
        <3>2. r.pc # "idle"
            BY <3>1
        <3>3. /\ r.answers \in Seq(Records(r.answers)) /\ Len(r.answers) = 1
              /\ r.question.type = "ANY" /\ Held(r) = {4}
            BY <3>1 DEF RequestInv
        <3>4. /\ r.question.zone \in Zones(r.question.client)
              /\ \A a \in Records(r.answers) : Sent(r.question.zone, r.question.domain, a)
            BY <3>1, <3>2 DEF RequestInv
        <3>5. Len(r.answers) <= 1
            BY <3>3
        <3> QED
            BY <3>3, <3>4, <3>5 DEF Held, r
    <2>4. 6 \in Families
        BY DEF Families
    <2>5. /\ reply.rcode \in {"ok", "servfail", "refused"}
          /\ reply.rcode = "ok" => Sent(q.zone, q.domain, Answer(reply, 6))
        BY <1>0, <2>4, LookupReply
    <2> HIDE DEF q, before
    <2>6. {a.fam : a \in Records(before)} \cup {6} = Wanted(q.type)
        BY <2>3 DEF Wanted, Families
    <2>7. RequestInv(Message(q, reply, 6, before, TRUE))
        BY <2>3, <2>5, <2>6, MessageInv
    <2> QED
        BY <1>0, <2>2, <2>7, HandlerStep DEF q, before
<1>4. CASE DNSOther(h)
    <2>1. PICK q \in Question({"other"}) :
            handler' = [handler EXCEPT ![h] = Message(q, Refused, 4, <<>>, TRUE)]
        BY <1>4 DEF DNSOther
    <2>2. q.zone \in Zones(q.client)
        BY <2>1 DEF Question
    <2>3. Refused.rcode = "refused"
        BY DEF Refused
    <2>4. RequestInv(Message(q, Refused, 4, <<>>, TRUE))
        BY <2>2, <2>3, FirstMessageInv
    <2> QED
        BY <1>0, <2>1, <2>4, HandlerStep
<1>5. CASE DNSDone(h)
    BY <1>0, <1>5, IdleInv, HandlerStep DEF DNSDone
<1> QED
    BY <1>1, <1>2, <1>3, <1>4, <1>5 DEF DNSStep

LEMMA HTTPRequestInv ==
    ASSUME PathInv, HTTPRequest
    PROVE  RedirectInv'
<1>1. PICK domain \in Asked, client \in Clients : client.fam # 0 /\
        \E zone \in Zones(client) : \E reply \in Replies(sh, zone, domain, client.fam) :
            /\ reply.rcode = "ok"
            /\ redirect' = [host |-> reply.host, ds |-> reply.ds,
                            fam |-> client.fam, via |-> reply.via]
    BY DEF HTTPRequest
<1>2. client.fam \in Families
    BY <1>1, ClientsAssumption
<1>a. PICK zone \in Zones(client) : \E reply \in Replies(sh, zone, domain, client.fam) :
        /\ reply.rcode = "ok"
        /\ redirect' = [host |-> reply.host, ds |-> reply.ds,
                        fam |-> client.fam, via |-> reply.via]
    BY <1>1
<1>3. PICK reply \in Replies(sh, zone, domain, client.fam) :
        /\ reply.rcode = "ok"
        /\ redirect' = [host |-> reply.host, ds |-> reply.ds,
                        fam |-> client.fam, via |-> reply.via]
    BY <1>a
<1>4. /\ Sent(zone, domain, Answer(reply, client.fam))
      /\ reply.via \in {"second", "dns", "http"}
    BY <1>2, <1>3, LookupReply DEF PathInv
<1>5. reply.via = "dns" => /\ reply.host \in DOMAIN built.servers
                           /\ reply.ds \in built.servers[reply.host].dses
    BY <1>4 DEF Sent, Served, Answer
<1>6. built' = built
    BY DEF HTTPRequest, tables
<1> QED
    BY <1>2, <1>3, <1>4, <1>5, <1>6 DEF RedirectInv

LEMMA NextInv == PathInv /\ [Next]_vars => PathInv'
<1> SUFFICES ASSUME PathInv, [Next]_vars
             PROVE  PathInv'
    OBVIOUS
<1>0. TablesInv /\ RedirectInv /\ DOMAIN handler = Handlers
      /\ \A h \in Handlers : RequestInv(handler[h])
    BY DEF PathInv
<1>a. ASSUME UNCHANGED handler, UNCHANGED tables
      PROVE  DOMAIN handler' = Handlers /\ \A h \in Handlers : RequestInv(handler[h])'
    BY <1>0, <1>a, RequestsKept
<1>1. CASE PollCRConfig \/ PollCRStates
    <2>1. UNCHANGED <<tables, handler, redirect>>
        BY <1>1 DEF PollCRConfig, PollCRStates
    <2>2. TablesInv'
        BY <1>0, <1>1 DEF PollCRConfig, PollCRStates, TablesInv, tables
    <2> QED
        BY <1>0, <1>a, <2>1, <2>2, RedirectKept DEF PathInv
<1>2. ASSUME NEW h \in Handlers, DNSStep(h)
      PROVE  PathInv'
    <2>1. UNCHANGED <<tables, crConfig, crStates, redirect>>
        BY <1>2 DEF DNSStep, DNSQuestion, DNSAny, DNSAnySecond, DNSOther, DNSDone
    <2>2. TablesInv'
        BY <1>0, <2>1 DEF TablesInv, tables
    <2> QED
        BY <1>0, <1>2, <2>1, <2>2, DNSStepInv, RedirectKept DEF PathInv
<1>3. CASE HTTPRequest
    <2>1. UNCHANGED <<tables, crConfig, crStates, handler>>
        BY <1>3 DEF HTTPRequest
    <2>2. TablesInv'
        BY <1>0, <2>1 DEF TablesInv, tables
    <2> QED
        BY <1>3, <1>a, <2>1, <2>2, HTTPRequestInv DEF PathInv
<1>4. CASE UNCHANGED vars
    <2>1. TablesInv'
        BY <1>0, <1>4 DEF TablesInv, vars, tables
    <2> QED
        BY <1>0, <1>4, <1>a, <2>1, RedirectKept DEF PathInv, vars
<1> QED
    BY <1>1, <1>2, <1>3, <1>4 DEF Next

\* PathInv holds in every state.
THEOREM PathInvariant == Spec => []PathInv
BY InitInv, NextInv, PTL DEF Spec

\* Type correctness of RequestPath.
THEOREM TypeCorrect == Spec => []TypeOK
<1>1. PathInv => TypeOK
    BY DEF PathInv, TablesInv, RequestInv, RedirectInv, TypeOK
<1> QED
    BY <1>1, PathInvariant, PTL

-------------------------------------------------------------------------------
(* What the answers are. *)

\* What is known of every record of a reply under way.
LEMMA RecordSent ==
    ASSUME PathInv, NEW h \in Handlers, NEW a \in Records(handler[h].answers)
    PROVE  /\ Sent(handler[h].question.zone, handler[h].question.domain, a)
           /\ handler[h].question.zone \in Zones(handler[h].question.client)
BY DEF PathInv, RequestInv

\* A client in a zone has an address of the zone's networks, of its own family.
LEMMA ZoneHoldsClient ==
    ASSUME NEW client, NEW zone \in Zones(client), zone # NoGroup
    PROVE  \E network \in NetworksFor(czf[zone], client) : Contains(network, client)
<1>1. zone \in ZonesOfAddress(czf, client)
    BY DEF Zones, GetZone
<1> QED
    BY <1>1 DEF ZonesOfAddress

\* Whatever the CRConfig, the zone file and the polls, an answer for a DNS
\* delivery service is an edge of it in service, in a group whose networks hold
\* the client, with an address of the family asked for.
THEOREM EdgesAnswer == Spec => []AnswersDeliver
<1>1. ASSUME PathInv, NEW h \in Handlers, NEW a \in Records(handler[h].answers)
      PROVE  Delivers(handler[h].question, a)
    <2> DEFINE q == handler[h].question
               entry == built.servers[a.host]
    <2> SUFFICES ASSUME a.via = "dns"
                 PROVE  Delivers(q, a)
        BY DEF Delivers
    <2>1. /\ a.host \in DOMAIN built.servers
          /\ a.ds \in entry.dses /\ entry.cg = q.zone
          /\ Listed(entry, a.fam)
          /\ a.text.form = "ip" /\ a.text.fam = a.fam
          /\ q.zone \in Zones(q.client)
        BY <1>1, RecordSent DEF Sent, Served
    <2>2. entry.status \in {"REPORTED", "ONLINE"} /\ entry.cg # NoGroup
        BY <2>1 DEF Listed, Routable
    <2>3. \E network \in NetworksFor(czf[entry.cg], q.client) : Contains(network, q.client)
        BY <2>1, <2>2, ZoneHoldsClient
    <2> QED
        BY <2>1, <2>2, <2>3 DEF Delivers
<1>2. PathInv => AnswersDeliver
    BY <1>1 DEF AnswersDeliver, EveryAnswer
<1> QED
    BY <1>2, PathInvariant, PTL

\* Whatever the CRConfig polled has for routers, an answer for an HTTP delivery
\* service is a router in service of the CRConfig the tables were built from, with
\* its own address of the family asked for.
THEOREM RoutersAnswer == Spec => []RoutersRoute
<1>1. ASSUME PathInv, NEW h \in Handlers, NEW a \in Records(handler[h].answers)
      PROVE  Routes(handler[h].question, a)
    BY <1>1, RecordSent DEF Routes, Sent, Served, Listed, Routable
<1>2. PathInv => RoutersRoute
    BY <1>1 DEF RoutersRoute, EveryAnswer
<1> QED
    BY <1>2, PathInvariant, PTL

\* For any order of the matches, any domain and any polls between the lookups, the
\* records of one message are of one table, and for one cache or delivery service.
THEOREM MessagesKeepToOneService == Spec => []OneServicePerMessage
<1>1. PathInv => OneServicePerMessage
    BY RecordSent DEF OneServicePerMessage, Sent
<1> QED
    BY <1>1, PathInvariant, PTL

\* However zones overlap, the records of one message for DNS delivery services
\* are caches of one group.
THEOREM MessagesKeepToOneGroup == Spec => []OneGroupPerMessage
<1>1. PathInv => OneGroupPerMessage
    BY RecordSent DEF OneGroupPerMessage, Sent, Served
<1> QED
    BY <1>1, PathInvariant, PTL

\* An authoritative message has a record of each family asked for, also when polls
\* come between the lookups of an ANY, and only a cache's own name gets one without
\* an address.
THEOREM AnswersAreComplete == Spec => []AuthoritativeIsComplete
<1>1. ASSUME PathInv, NEW h \in Handlers, NEW a \in Records(handler[h].answers)
      PROVE  a.text.form = "nil" => a.via = "second"
    BY <1>1, RecordSent DEF Sent, Served
<1>2. ASSUME PathInv, NEW h \in Handlers, handler[h].aa
      PROVE  {a.fam : a \in Records(handler[h].answers)} = Wanted(handler[h].question.type)
    BY <1>2 DEF PathInv, RequestInv, Held
<1>3. PathInv => AuthoritativeIsComplete
    BY <1>1, <1>2 DEF AuthoritativeIsComplete
<1> QED
    BY <1>3, PathInvariant, PTL

\* The name a 302 for a DNS delivery service gives leads to the plain address of
\* that cache in whatever CRConfig is polled, and to none where that has none.
THEOREM RedirectsResolve == Spec => []RedirectLeadsToItsCache
<1>1. ASSUME PathInv, redirect.via = "dns", NEW fam \in Families, NEW reply \in Followed(fam)
      PROVE  Given(reply, fam) = AddressOf(redirect.host, fam)
    <2> DEFINE domain == RedirectDomain(redirect)
    <2>1. /\ domain.dot /\ domain.under = "cdn"
          /\ domain.labels = <<redirect.host, redirect.ds>>
        BY DEF RedirectDomain
    <2>2. /\ redirect.host \in DOMAIN built.servers
          /\ redirect.ds \in built.servers[redirect.host].dses
          /\ Decodes(built)
        BY <1>1, FilesAssumption DEF PathInv, RedirectInv, TablesInv
    <2> HIDE DEF domain
    <2>4. InSecondDNSMatches(built, domain) /\ Ours(domain)
        BY <2>1, <2>2 DEF InSecondDNSMatches, Ours
    <2>5. reply \in Replies(sh, NoGroup, domain, fam)
        BY <1>1 DEF Followed, domain
    <2>6. reply = GetServerName(crConfig, domain.labels[1], fam)
        BY <2>4, <2>5 DEF Replies, sh
    <2>7. reply = GetServerName(crConfig, redirect.host, fam)
        BY <2>1, <2>6
    <2> DEFINE text == Field(crConfig.servers[redirect.host], fam)
    <2>8. CASE redirect.host \notin DOMAIN crConfig.servers
        BY <2>7, <2>8 DEF GetServerName, ServFail, Refused, Given, AddressOf
    <2>9. CASE redirect.host \in DOMAIN crConfig.servers /\ text.form = "nil"
        BY <2>7, <2>9 DEF GetServerName, Refused, Given, AddressOf, ParseIP
    <2>10. CASE redirect.host \in DOMAIN crConfig.servers /\ text.form # "nil"
        <3>1. reply.rcode = "ok" /\ reply.text = text
            BY <2>7, <2>10 DEF GetServerName, Found
        <3>2. Answer(reply, fam).text = ParseIP(text)
            BY <3>1 DEF Answer
        <3> QED
            BY <2>10, <3>1, <3>2 DEF Given, AddressOf
    <2> QED
        BY <2>8, <2>9, <2>10
<1>2. PathInv => RedirectLeadsToItsCache
    BY <1>1 DEF RedirectLeadsToItsCache
<1> QED
    BY <1>2, PathInvariant, PTL

-------------------------------------------------------------------------------
(* What a SERVFAIL says. *)

\* The candidates an A question for a DNS delivery service is answered from.
Candidates(q) == DSServers(built, FirstOf(DNSMatched(built, q.domain), rank), q.zone, 4)

AsksDNSService(q) ==
    /\ q.type = "A"
    /\ ~InSecondDNSMatches(built, q.domain)
    /\ DNSMatched(built, q.domain) # {}

\* The draw could fail.
FailInv ==
    \A h \in Handlers :
        handler[h].rcode = "servfail" /\ AsksDNSService(handler[h].question)
            => NoName \in GetServer(Candidates(handler[h].question), rank, available)

LEMMA FailStep == PathInv /\ FailInv /\ [Next]_vars => FailInv'
<1> SUFFICES ASSUME PathInv, FailInv, [Next]_vars
             PROVE  FailInv'
    OBVIOUS
<1>1. built' = built /\ rank' = rank /\ available' = available
    BY DEF Next, vars, tables, PollCRConfig, PollCRStates, HTTPRequest, DNSStep, DNSQuestion,
           DNSAny, DNSAnySecond, DNSOther, DNSDone
<1>2. ASSUME UNCHANGED handler
      PROVE  FailInv'
    BY <1>1, <1>2 DEF FailInv, AsksDNSService, Candidates
<1>3. ASSUME NEW h \in Handlers, NEW m, handler' = [handler EXCEPT ![h] = m],
             m.rcode = "servfail" /\ AsksDNSService(m.question)
                => NoName \in GetServer(Candidates(m.question), rank, available)
      PROVE  FailInv'
    <2>1. \A k \in Handlers : handler'[k] = IF k = h THEN m ELSE handler[k]
        BY <1>3 DEF PathInv
    <2> QED
        BY <1>1, <1>3, <2>1 DEF FailInv, AsksDNSService, Candidates
<1>4. ASSUME NEW h \in Handlers, NEW q, NEW reply, NEW fam, NEW before, NEW last, q.type # "A",
             handler' = [handler EXCEPT ![h] = Message(q, reply, fam, before, last)]
      PROVE  FailInv'
    <2>1. Message(q, reply, fam, before, last).question = q
        BY DEF Message
    <2> QED
        BY <1>3, <1>4, <2>1 DEF AsksDNSService
<1>5. ASSUME NEW h \in Handlers, DNSQuestion(h)
      PROVE  FailInv'
    <2>1. PICK q \in Question({"A", "AAAA"}) :
            \E reply \in Replies(sh, q.zone, q.domain, IF q.type = "A" THEN 4 ELSE 6) :
                handler' = [handler EXCEPT ![h] =
                    Message(q, reply, IF q.type = "A" THEN 4 ELSE 6, <<>>, TRUE)]
        BY <1>5 DEF DNSQuestion
    <2> DEFINE fam == IF q.type = "A" THEN 4 ELSE 6
    <2>2. PICK reply \in Replies(sh, q.zone, q.domain, fam) :
            handler' = [handler EXCEPT ![h] = Message(q, reply, fam, <<>>, TRUE)]
        BY <2>1
    <2> DEFINE m == Message(q, reply, fam, <<>>, TRUE)
    <2>3. m.question = q /\ m.rcode = reply.rcode
        BY DEF Message, Fails
    <2>4. ASSUME reply.rcode = "servfail", AsksDNSService(q)
          PROVE  NoName \in GetServer(Candidates(q), rank, available)
        <3> DEFINE ds == FirstOf(DNSMatched(built, q.domain), rank)
        <3>1. reply \in DNSReplies(sh, q.zone, 4, ds)
            <4>1. reply # Refused
                BY <2>4 DEF Refused
            <4> QED
                BY <2>4, <4>1 DEF Replies, AsksDNSService, sh
        <3> QED
            BY <2>4, <3>1 DEF DNSReplies, Found, Candidates, sh
    <2> HIDE DEF m
    <2>5. handler' = [handler EXCEPT ![h] = m]
        BY <2>2 DEF m
    <2> QED
        BY <1>3, <2>3, <2>4, <2>5
<1>6. ASSUME NEW h \in Handlers, DNSAny(h)
      PROVE  FailInv'
    <2>1. PICK q \in Question({"ANY"}) : \E reply \in Replies(sh, q.zone, q.domain, 4) :
            handler' = [handler EXCEPT ![h] = Message(q, reply, 4, <<>>, FALSE)]
        BY <1>6 DEF DNSAny
    <2>2. q.type # "A"
        BY DEF Question
    <2>3. PICK reply : handler' = [handler EXCEPT ![h] = Message(q, reply, 4, <<>>, FALSE)]
        BY <2>1
    <2> QED
        BY <1>4, <2>2, <2>3
<1>7. ASSUME NEW h \in Handlers, DNSAnySecond(h)
      PROVE  FailInv'
    <2>1. handler[h].question.type # "A"
        BY <1>7 DEF PathInv, RequestInv, DNSAnySecond
    <2>2. PICK q, before : q = handler[h].question /\ before = handler[h].answers
        OBVIOUS
    <2>3. PICK reply : handler' = [handler EXCEPT ![h] = Message(q, reply, 6, before, TRUE)]
        BY <1>7, <2>2 DEF DNSAnySecond
    <2> QED
        BY <1>4, <2>1, <2>2, <2>3
<1>8. ASSUME NEW h \in Handlers, DNSOther(h)
      PROVE  FailInv'
    <2>1. PICK q \in Question({"other"}) :
            handler' = [handler EXCEPT ![h] = Message(q, Refused, 4, <<>>, TRUE)]
        BY <1>8 DEF DNSOther
    <2>2. q.type # "A"
        BY DEF Question
    <2> QED
        BY <1>4, <2>1, <2>2
<1>9. ASSUME NEW h \in Handlers, DNSDone(h)
      PROVE  FailInv'
    <2>1. Idle.rcode # "servfail"
        BY DEF Idle
    <2> QED
        BY <1>3, <1>9, <2>1 DEF DNSDone
<1>10. CASE PollCRConfig \/ PollCRStates \/ HTTPRequest \/ UNCHANGED vars
    BY <1>2, <1>10 DEF PollCRConfig, PollCRStates, HTTPRequest, vars
<1> QED
    BY <1>5, <1>6, <1>7, <1>8, <1>9, <1>10 DEF Next, DNSStep

THEOREM FailInvariant == Spec => []FailInv
<1>1. Init => FailInv
    <2>1. Idle.rcode # "servfail"
        BY DEF Idle
    <2> QED
        BY <2>1 DEF Init, FailInv
<1> QED
    BY <1>1, FailStep, PathInvariant, PTL DEF Spec

\* As the code is, an A question for a DNS delivery service gets a SERVFAIL only
\* if the client's group has no cache of it, or several of which one that can be
\* drawn is unavailable.
THEOREM FailuresNeedAnUnhealthyServer ==
    Spec => [](\A h \in Handlers :
                LET q == handler[h].question
                IN  handler[h].rcode = "servfail" /\ AsksDNSService(q)
                        => \/ Candidates(q) = {}
                           \/ NoName \in Candidates(q)
                           \/ \E s \in StartOf(Candidates(q), rank) : s \notin available)
<1>1. ASSUME NEW set, NoName \in GetServer(set, rank, available)
      PROVE  set = {} \/ NoName \in set \/ \E s \in StartOf(set, rank) : s \notin available
    <2>1. StartOf(set, rank) \subseteq set
        BY DEF StartOf
    <2> QED
        BY <1>1, <2>1 DEF GetServer
<1>2. FailInv => \A h \in Handlers :
                LET q == handler[h].question
                IN  handler[h].rcode = "servfail" /\ AsksDNSService(q)
                        => \/ Candidates(q) = {}
                           \/ NoName \in Candidates(q)
                           \/ \E s \in StartOf(Candidates(q), rank) : s \notin available
    BY <1>1 DEF FailInv
<1> QED
    BY <1>2, FailInvariant, PTL

\* The comment at shared.go:162 is right where the caches of one delivery service
\* in one group fail together: then a SERVFAIL means that none was available.
THEOREM NextServerWhereGroupsFailTogether ==
    ASSUME \A config \in Files : NoName \notin DOMAIN config.servers,
           \A config \in Files, up \in FileStates :
                \A d, g :
                    LET set == DSServers(config, d, g, 4)
                    IN  set \subseteq up \/ set \cap up = {}
    PROVE  Spec => []NextServerIfUnhealthy
<1>1. ASSUME PathInv, FailInv, NEW h \in Handlers, handler[h].rcode = "servfail",
             AsksDNSService(handler[h].question)
      PROVE  Candidates(handler[h].question) \cap available = {}
    <2> DEFINE q == handler[h].question
               d == FirstOf(DNSMatched(built, q.domain), rank)
               set == DSServers(built, d, q.zone, 4)
    <2>1. NoName \in GetServer(set, rank, available)
        BY <1>1 DEF FailInv, Candidates
    <2>2. built \in Files /\ available \in FileStates
        BY <1>1 DEF PathInv, TablesInv
    <2>3. NoName \notin set
        BY <2>2 DEF DSServers
    <2>4. set = {} \/ \E s \in set : s \notin available
        <3>1. StartOf(set, rank) \subseteq set
            BY DEF StartOf
        <3> QED
            BY <2>1, <2>3, <3>1 DEF GetServer
    <2> QED
        BY <2>2, <2>4 DEF Candidates
<1>2. PathInv /\ FailInv => NextServerIfUnhealthy
    BY <1>1 DEF NextServerIfUnhealthy, AsksDNSService, Unanswerable, Candidates
<1> QED
    BY <1>2, FailInvariant, PathInvariant, PTL
===============================================================================
