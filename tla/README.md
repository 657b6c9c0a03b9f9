# Traffic Router: specification and proofs

TLA+ modules that model the Go Traffic Router in `src/`, TLC configurations that
check them on small instances, and proofs checked by TLAPS. The source is the
reference throughout; line numbers are of the files as they stand. PROJECT.json
maps each definition to the lines it models, and lists runs, mutants, hazards,
findings and theorems.

## The system

Traffic Router answers DNS requests with the address of a cache (or, for an HTTP
delivery service, of a router) near the client, and HTTP requests with a redirect
to a cache.

| Component | State | Operations | What makes it correct |
|---|---|---|---|
| main (`traffic_router.go`) | flags, the objects below | start: load, start pollers, serve, listen for SIGHUP | a good configuration gets served |
| loadconfig, config, crconfig | none; files on disk | read and decode the files, load certificates | an error is returned, never a crash; what is put into service is what is on disk |
| czf | none | parse the zones' networks; `GetZone` | a client gets a zone its address is in |
| shared | tables built once, two atomic cells (CRConfig, CRStates) | `NewShared`, the setters, `GetServerForDomain` and what it calls | an answer fits the question, is in service, available where there is a choice |
| match, rfc | none | make a match from a string; match an FQDN | only the service meant is matched |
| poller | interval, started, stop channel, one goroutine and its timer | `Start`, `Stop`, the loop `poll` | one loop polls, and goes on polling; Stop ends it |
| pollercrconfig, pollercrstates | monitors, current monitor, the Shared to store to | `Poll`, `Reset` | failover asks each monitor, and only whole answers are published |
| srvdns, srvhttp servers | none of their own; one request per goroutine | `ServeDNS`, `ServeHTTP` | complete answers, redirects that lead to a cache |
| server pointers | an atomic pointer each | `Set`, serve | each request sees one configuration |
| certificate getter | a concurrent map | `Add`, `Get`, `Delete`, `Hosts` | a handshake finds the certificate in force |
| srvsighupreload | a channel for one signal | `Listen`, `TryReloadConfig`, the updates | no reload is lost, loads are not mixed, a failed reload changes nothing |

Interaction. `main` loads the configuration into a `Shared`, gives it to both
servers and both pollers, and becomes the SIGHUP loop. Each DNS or HTTP request
runs in its own goroutine, loads its server pointer once and works with that
Shared. Two poller goroutines store documents into the Shared's cells. A reload
makes a new Shared, then updates certificates, the two pollers, the DNS pointer
and the HTTP pointer, one after the other, while requests are served.

What is hard here: the stop handshake between two goroutines on one channel;
restarts of a loop that is still on its way out; retry and failover; tables built
from one document combined with cells holding a later one; two lookups in one
request; signals arriving during a reload; the steps of a reload; panics on data
nobody tested with. PROJECT.json lists each at its line under "hazards".

## Modules

    Poller ◄── MonitorPoll          CoverageZone ◄─┐
                                                   ├─ SharedData ◄── RequestPath
    Certificates                    HostMatch    ◄─┘

    PollService ◄·· MonitorPoll
    ConfigService ◄·· HotReload     (·· implements, the others extend)

Each `MC*` module instantiates the module after it in its name, each `*Proofs`
module proves about it; Poller is checked as part of MonitorPoll, SharedData,
CoverageZone and HostMatch as part of RequestPath, PollService and ConfigService as
what MonitorPoll and HotReload implement.

**Poller** is `poller/poller.go`. The variables are the two fields of the struct
that change, where the owner is (`idle`, or inside `Stop`), and for each goroutine
its place in `poll` and its timer. `Start`, `Stop` and `SetInterval` are the
owner's calls; `LoopBegin`, `TimerFires`, `TakeTick`, `PollReturns`, `Handshake`
and `LoopExit` are the statements of `poll` between which others may run.

**MonitorPoll** extends Poller with the `IPoller` of either package, the two being
the same code. A document is a version, a decoded object the set of versions whose
entries it holds: every attempt of one Poll decodes into the same object. A
request fails (`AskFails`), decodes in part (`AskMisfits`) or decodes
(`AskSucceeds`).

**PollService** is what MonitorPoll promises the owner of a poller and the readers of
the document, in three variables: `state` (`off`, `idle`, `busy`), the configuration
and the document. It is switched off only between two polls, configured only while
off, a poll uses one configuration, and only the end of a poll publishes. That is
what lets `UpdateCRStatesPoller` and `UpdateCRConfigPoller` write the fields of the
IPoller without a lock after Stop. `PollState` maps the rest: `off` unless started,
`busy` if a goroutine polls, otherwise `idle`. A loop not yet in its select or on its
way out of it makes no difference, and a Stop takes effect where it meets the loop.

**CoverageZone** is `czf/czf.go` as operators. An address has a family and a short
sequence of bits, a network a prefix. `GetZone` is the set of zones it may return:
Go ranges over the zones in an order of its own at each call, so with overlapping
zones the client of one request may be in another zone in the next.

**HostMatch** is `match/match.go` and `rfc/rfc.go`. A match text is a sequence of
labels and of the tokens `.*`, `\.` and `.`; the prefix and suffix tests, their
overlap in `.*\..*` and what is cut out between them are done on that sequence.
`MatchContains` looks for a text of labels and dots anywhere in the FQDN, the CDN's
domain included; `Inside`, `Starts` and `Ends` say which pieces of a domain contain
the text of another, begin and end with it. A regular expression is the set of label
sequences it matches. `ValidFQDN` is the scan with what its loop knows
after each character.

**SharedData** extends both and has no variables. It defines what `NewShared` builds
from a CRConfig and the lookups made in it. A table never changes once built, so it
is the operator that reads it from the CRConfig it was built from. A slice filled
from a Go map is a set with the rank random iteration gave its members; the draw of
`getServer` is the set of servers it may return. An FQDN is a sequence of labels
under the CDN domain, under one that only ends in the same letters, or elsewhere. An
address field is a text of some form and family; `ParseIPOrCIDR`, with which the
lists are built, also takes one with a prefix length (`Parses`), `net.ParseIP`, which
the records are filled with, does not (`ParseIP`).

**RequestPath** runs both servers over one Shared while pollers store into its
cells. A DNS goroutine makes one lookup per step, because a poll may come between
the two lookups of an ANY question; the client's zone is looked up once, before
them. Clients ask for fixed FQDNs and for those the latest redirect names, which
closes the flow of the comment at shared.go:641.

**HotReload** is startup and reload. A configuration has five parts, the four files
and the directory of certificates, and a part on disk is the number of the edit that
wrote it and what it makes of a load: `good`, `broken`, a zone network that does not
parse, a CRConfig without domain name, or one NewShared panics on. `Read` and
`ReadFails` are the calls of LoadConfig, part by part, with `EditFile` and `Sighup`
between any two of them; `After` is their order. What is in service (both servers,
the certificates, the Shared each poller stores to) is the edit each of its parts
was read at. So a load may mix parts that were never on disk together; what is
checked is that this lasts no longer than until a SIGHUP sent after the edits is
served. Of each poller it has what PollService has, `off`, `idle` or `busy`:
`UpdatePoller` waits in Stop until the Poll under way has ended (`StopMayReturn`),
and with the Stop of the source for ever.

**ConfigService** is what HotReload promises those who send requests, in three
variables: both servers start on one configuration, DNS moves first and only
forward, HTTP moves only to what DNS serves and does so before DNS moves again, and
it does. `up` is mapped to `proc = "running"`, `dns` and `http` to themselves.

**Certificates** opens the step `UpdateCerts` of HotReload, and `LoadCerts`. The
`.crt` and the `.key` of a host are each the number of the pair they belong to, and
`WriteFile` replaces one of them at any time. `ListDir`, `ReadCrt` and `ReadKey` are
LoadCerts; `TakeHosts`, `Delete` and `Add` are UpdateCerts, host by host in any
order; `HandshakeBegins`, `Look` and `HandshakeEnds` are one TLS handshake, with one
name looked up per `Look`. A search carries two histories for the properties: the
hosts that were in service when it began and that every reload since has loaded
again (`kept`), and the last load whose update was over by then (`since`).

### Two constants that say how the code stands

As it is, the program cannot get far: `NewShared` stores through nil pointers
(shared.go:111), and `Stop` receives where it ought to send (poller.go:64). The
source is `CellsAllocated = FALSE` and `StopSends = FALSE`. Everything behind these
two lines would be out of reach if the models stopped there, so each is a named
constant, and a run with the value TRUE asks what the rest of the code does once
that line is corrected; no run has `CellsAllocated` FALSE, `NeverServes` says all there
is to it. RequestPath takes the cells to exist, for the same reason. The proofs hold
for both values.

## Runs

| Run | States | Shows |
|---|---|---|
| monitor_poll_as_is | 1,198 | The source. Lists of no, two and three monitors, one of which always answers well. Failover, publication, polling goes on. |
| monitor_poll_restarts | 88,482 | StopSends TRUE: the list shrinks and grows across restarts, and two goroutine identities let an old loop exit while the next one polls. One loop polls, exits never block, Stop returns, the index stays in range and is reset only when quiet; PollService is implemented. |
| request_path | 62,448 | Four caches in one group and one in a group whose networks overlap it, two routers, three services, two files, a later CRConfig that has lost a cache and the routers, CRStates of the file and polled ones, two iteration orders, two zone files of which one does not parse, clients in both groups, in one, in none and without an address. What is answered, by caches and by routers, fits question and client, the two records of an ANY belong together, a redirect leads to its cache's address or to none. |
| hot_reload | 159,240 | Both constants TRUE; three edits, the first being the files at startup: one in service, one being read, one written meanwhile; either poller may be in a Poll when a reload comes to stop it. ConfigService is implemented. |
| certificates | 289,556 | A literal and wildcard hosts, two pairs where it matters, two loads, one client that asks for names under them or for none. Handshakes miss no host that stays and get nothing withdrawn; what is in service is of one load. |

Bounds: the identities, sets and lists above, `MaxEdits`, `MaxPair` and `MaxLoads`.
Three edits let one part be newer than what is being read and another older; two
loads are the one a search begins under and the one that changes the map below it;
one client suffices, searches writing nothing. `tried` counts to one more than the
length of the list, all the code compares it with. One DNS goroutine suffices in
RequestPath: the lookups write nothing that another request reads, except the
redirect, which HTTPRequest keeps. Four caches of a group give a draw a first, a
last and a middle candidate, and one out of service. Two iteration orders make
either service the first match and move the last candidate. The proofs need none of
these bounds.

The violation runs show where a comment, a log message or a doc and the code part:

| Run | What the code does instead |
|---|---|
| reload_panic | a CRConfig with one entry it cannot handle takes the process down in a reload |
| reload_blocked | a reload blocks in Stop for ever |
| all_monitors_failed | a Poll whose monitors have all failed goes on at once, without an interval |
| mixed_answers | an answer is published together with parts of a failed one |
| redirect_http_service | HTTP clients of an HTTP service are redirected to a router |
| unhealthy_draw | the draw gives up if its first pick is unavailable |
| stale_availability | draws go by the CRStates file, whatever has been polled since |

Reading the code for the models turned up more that needs no run to see. NewShared
stores through nil pointers, so that the process panics on every good configuration
at startup, though shared.go:92 has it return nil on a fatal error; `NeverServes`
proves what comes of it. A host whose key pair is being replaced, file by file,
when a reload reads it is skipped and then deleted from the running server
(config.go:66, srvsighupreload/server.go:88). A name that moves from a certificate
of its own to one of a wildcard, or back, in one reload may get none in between,
because the old host is deleted before the new one is added; `KeptHostAnswers` is
about hosts that stay. A wildcard match with an empty label between its dots matches
every domain (match.go:15). The
certificates loaded at startup are not served before the first reload
(traffic_router.go:57). A cache that the polled CRConfig has lost is still in the
table of second lookups, which then fail, though shared.go:478 holds that it should
never happen; the second lookup is used by the HTTP server, against shared.go:472,
and hands out the address field as text (shared.go:488), so that a cache whose field
has a prefix length gets a record without an address, although the lists of its
services take that field. A domain that only
ends in the letters of the CDN domain is answered (shared.go:449). `ValidFQDN`
refuses every name but the empty one (rfc.go:16), so that no match is ever a literal
of its own text: `NoMatchIsLiteral`.

## Fairness

Goroutines are scheduled and timers fire: weak fairness of each loop's steps, of the
main goroutine's in HotReload (`MainStep`), and of each search's in Certificates. The
handshake of a Stop that sends has strong fairness, in Poller and as `UpdatePollers`
in HotReload: the loop comes back to its select again and again, and select chooses
at random among what is ready.

That a request or a Poll returns is a hypothesis and not a fact about the code:
`http.Get` has no timeout, and a Poll whose monitors all fail has no end. In
MonitorPoll it is the conjunct `RequestsReturn`, and `PollEnds` and `StopReturns` are
checked for lists with a reliable monitor; in HotReload it is the conjunct
`PollsReturn`, which is what `PollEnds` of MonitorPoll concludes. Without it
`SighupServed` fails: the reload stays in Stop. No fairness is assumed of the owner,
the operator, the signals or the clients.

## Proofs

`PollerProofs`, for any goroutines and intervals. `PollerInv` adds to `OnePollLoop`
and the types that a waiting or exiting loop's timer is not off: `DrainNeverBlocks`
alone is not inductive, because a handshake turns a waiting loop into an exiting
one.

`MonitorPollProofs`, for any monitors and lists of any length. `PollsAsPoller`
proves that MonitorPoll implements `PollerSpec`. `IndexInv`: the index is below the
length of the list whenever the Poller is started; lists change only while it is
stopped, and Start resets the index. `FailoverInv`: every position a Poll has
passed, going backwards from the index round the list, holds a monitor that is not
reliable. A Poll that passed as many as the list has would have passed all
(`AllPassed`), so it is not reliable anywhere, which contradicts `SomeReliable`;
hence `FailoverBounded`. `DocumentInv` gives `FileNeverMixedIn`.
`ImplementsPollService` is the refinement of PollService, step by step: `OnePollLoop`
is what lets `PollState` follow from the place of the one loop (`PollerOnlyStep`), so
that a Stop meets its loop only between Polls; and a Poll publishes only under a list
that has monitors (`AnswerOfThisList`).

`HotReloadProofs`, for any number of edits of any parts. `BootInv` says what there
is before the servers start; `StageInv` for each step of a reload which services have
been moved; `OrderInv` that every part read is at least as new as the one in service
and none newer than the disk; `SignalInv` that of the edits the latest SIGHUP found
either a signal still waits, or each part already read was read since. The last is
what makes `NoReloadLost` inductive: a part read before the edit is only harmless
because a signal sent after the edit is then still in the channel. Together they give
`OneGenerationInService`, `NoReloadLost` and `ServersMoveForward`, and
`ServesAsConfigService`: each step of HotReload is a step of ConfigService or leaves
`up`, `dns` and `http` alone.

`CertificatesProofs`, for any hosts, names, clients, pairs and loads. `UpdateInv`: a
host that is neither to be deleted nor to be added stands as it was loaded, and
`LoadInv` bounds the load each certificate is of; they give `NeverRetired`.
`SearchInv`: a host a search has kept is in the map throughout, so it is not among
the names the search has passed. `DirectoryInv`: as long as no file is written, the
map LoadCerts fills agrees with the directory as far as it has read.
`GenerationInv` says which load a certificate in service is of, by whether UpdateCerts
has come to its host yet; that nothing is added before the last stale host is gone
gives `OneLoadInService`.

`RequestPathProofs`, for any CRConfigs, zone files, clients, domains and orders. The
tables are never written, so what a lookup promised when its record was appended
(`Sent`) holds as long as the record is there: what the record is of (`Served`), and
that it came from the table, and for the cache or service, that the tables alone give
the domain (`Source`). The lemmas say what each lookup returns: `GetServerDraws`,
`GetRouterDraws`, `ListedHasAddress`, and from them `ReplySent`, for whichever table
answers. `MessageInv` carries that through ServeDNS: a message begun for an ANY holds
exactly an IPv4 record, a finished authoritative one the families asked for.
`RedirectInv` keeps that a redirect for a DNS service names an entry of the tables the
second lookup's names were built from. All six properties and the types follow from
their conjunction `PathInv`.

`SharedDataProofs` is about the lookups alone, for any tables. The order of a Go map
decides three things. Which server is last in its group: a group in which it alone is
available answers nobody (`LastDoesNotHelp`), and of routers in one group the last
never serves (`LastRouterNeverServes`), while routers in two groups all do
(`SpreadRoutersAllServe`, for an order that has a last router in each). Which zone a client is in: nothing, where no two zones overlap
(`ApartZonesAreUnique`). Which service a domain is matched to: nothing, among HTTP
services that are wildcards of labels of their own (`WildcardsLeaveNoChoice`, from
`WildcardIsOneName`). `OneMatchPanics` finds the one match text NewShared panics on,
`NoMatchIsLiteral` that no match is a literal.

The assumptions are the named ASSUMEs of the modules, which each run evaluates.
Assumed of the CRConfig files is what decoding makes of them (`Decodes`): an address
field is a text or nil, a server's services have names. FilesAssumption excludes
the entries NewShared panics on.

### The code as it is

The two constants have the value of the source in these, and nothing else is assumed:

| Theorem | For every instance |
|---|---|
| NeverServes | with the nil cells, the process never gets to its servers |
| StopBlocksItsCaller | with the Stop that receives, a Stop that waits waits for ever |
| NothingStopsThePoller, MonitorsAreForLife | a poller once started keeps its interval and its monitors |
| ReloadsChangeNothing | what is served is the first load for life; the first reload that loads hangs |
| FailuresNeedAnUnhealthyServer | a SERVFAIL for a DNS service means an empty group or one unavailable cache that can be drawn |

Most are what a violation run shows on one trace, stated of all.

### What the violated promises need

Three of the promises that the violation runs refute are proved under the hypothesis
that is missing, so that each is known to fail for that reason and no other:

| Promise | Holds if | Theorem |
|---|---|---|
| AllFailedEndsPoll | each list is empty or names a monitor that always answers well | RetriesEndWithAReliableMonitor |
| PublishedFromOneAnswer | no answer decodes in part, through any failed requests and failover | AnswersMixOnlyAfterMisfits |
| NextServerIfUnhealthy | the caches of a service in one group fail together | NextServerWhereGroupsFailTogether |

`ReloadDoesNotCrash` is not among them: what NewShared panics on is in HotReload a
kind of content by definition, so that a theorem would say no more than the
definition. `ReloadReachesServers` is liveness. `HTTPServiceRedirectsToCache` and
`AvailablePerMonitor` have no such hypothesis but that the case does not arise.

### Only model-checked

Liveness (`StopReturns`, `KeepsPolling`, `PollEnds`, `SighupServed`, `SearchEnds`, and
that HTTP catches up in `ServesAsPromised`), which is out of the prover's reach. The
proof of HotReload against ConfigService is of the initial states and the steps. Every
safety property of the passing runs is proved. That `FirstOf` and `LastOf` name an
element is not: the least element of a finite set needs induction.

## Abstractions, and what is not modelled

- HotReload replaces the certificates in one step, which Certificates opens; a part
  is read in one step, so a file rewritten in place while it is decoded counts as
  broken, or as either version.
- The paths in the configuration file are the same in every edit.
- Certificates knows of a reload only that it gets to LoadCerts, and that it may end
  there. What a certificate says is not looked at, by the code either.
- A poller's restart is one step of HotReload, once its Stop may return; Poller has
  its parts. The pollers' stores do not appear in HotReload, only whether a Poll is
  under way and which Shared it stores to.
- The listeners: one that cannot bind ends the process.
- Match texts are sequences of labels and tokens; regular expressions are the set of
  label sequences they match. A label is one letter to `ValidFQDN`.
- A zone file's coordinates, revision and customer name, which nothing reads.
- Path, query, TTL and logging. The CDN domain name is fixed. A cache group named
  by the empty string, which would be that of clients in no zone, is left out.
- Vendored code: the DNS library passes on messages with one question only.

## Plan

Open, in order of what they would add:

1. Certificates as the refinement of HotReload's `UpdateCerts`: the map mapped to the
   configuration it mirrors once `Updated` is reached; from it, that a poller's
   PollService and the reload's ConfigService compose.
2. HotReload over Poller: the restart of a poller in the steps of Stop and Start, and
   what the Poll a Stop waits for stores into the Shared of the load before.
3. The four listeners, as far as one that cannot bind ends the process under a
   reload.
