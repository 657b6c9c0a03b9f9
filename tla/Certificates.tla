----------------------------- MODULE Certificates -----------------------------
(***************************************************************************)
(* config/config.go (LoadCerts), srvsighupreload/server.go (UpdateCerts)   *)
(* and srvhttp/certgetter.go: how certificates get from a directory into   *)
(* TLS handshakes.                                                         *)
(*                                                                         *)
(* The main goroutine reads the directory file by file while an operator   *)
(* may be replacing files, and then changes the CertGetter's map host by   *)
(* host while handshakes, each in a goroutine of its own, search it name   *)
(* by name.                                                                *)
(*                                                                         *)
(* A host name is a sequence of labels; the host of a wildcard certificate *)
(* begins with Star, which its file name writes as "#".  A file is the     *)
(* number of the key pair it belongs to, 0 when it does not exist.         *)
(***************************************************************************)
EXTENDS Integers, Sequences

CONSTANTS
    Labels,     \* what host names are made of
    Star,       \* the label of a wildcard
    Hosts,      \* the hosts there may be files for
    Asked,      \* the server names clients ask for; <<>> without one
    Clients,    \* the goroutines in a handshake
    MaxPair,    \* bound: how many key pairs each host gets
    MaxLoads    \* bound: how many times the certificates are loaded

ASSUME CertificatesAssumption ==
    /\ Star \in Labels
    /\ Hosts \cup Asked \subseteq Seq(Labels)
    /\ MaxPair \in [Hosts -> Nat \ {0}]
    /\ MaxLoads \in Nat

VARIABLES
    crt, key,   \* the files on disk, by host
    pc,         \* what the main goroutine does next
    unread,     \* the .key files LoadCerts has listed and not read
    half,       \* the host whose .crt was read last, and the pair it is of
    certs,      \* the map LoadCerts fills, the pair loaded for each host
    stale,      \* the hosts UpdateCerts has still to delete
    fresh,      \* the hosts UpdateCerts has still to add
    store,      \* the CertGetter's map: pair and number of the load, by host
    loads,      \* the number of the load under way or done last
    handshake,  \* each client's search
    untouched   \* history: no file was written since the listing of the load that
                \* is under way or was put into service last

files == <<crt, key>>
reading == <<unread, half, certs>>
updating == <<stale, fresh>>
vars == <<files, pc, reading, updating, store, loads, handshake, untouched>>

Pairs(h) == 0 .. MaxPair[h]

NoHalf == [host |-> <<>>, pair |-> 0]
NoCerts == [h \in Hosts |-> 0]
NoCert == [pair |-> 0, load |-> 0]
NoSearch == [pc |-> "idle", name |-> <<>>, at |-> 1, load |-> 0,
             kept |-> {}, since |-> 0]

\* The certificates of main are loaded by LoadConfig and then forgotten: the
\* CertGetter is empty when the process starts to serve, whatever is on disk.
Init ==
    /\ crt \in [Hosts -> {0, 1}]
    /\ key = crt
    /\ pc = "idle"
    /\ unread = {} /\ half = NoHalf /\ certs = NoCerts
    /\ stale = {} /\ fresh = {}
    /\ store = [h \in Hosts |-> NoCert]
    /\ loads = 0
    /\ handshake = [c \in Clients |-> NoSearch]
    /\ untouched = FALSE

-------------------------------------------------------------------------------
(* The operator. *)

Larger(m, n) == IF m > n THEN m ELSE n

\* A file is removed, or replaced by that of a new pair or of the pair the other
\* file is of already.
Contents(h) == ({0, crt[h], key[h], 1 + Larger(crt[h], key[h])}) \cap Pairs(h)

WriteFile(h) ==
    /\ \/ \E pair \in Contents(h) \ {crt[h]} :
            crt' = [crt EXCEPT ![h] = pair] /\ UNCHANGED key
       \/ \E pair \in Contents(h) \ {key[h]} :
            key' = [key EXCEPT ![h] = pair] /\ UNCHANGED crt
    /\ untouched' = FALSE
    /\ UNCHANGED <<pc, reading, updating, store, loads, handshake>>

-------------------------------------------------------------------------------
(* LoadCerts. *)

\* A reload gets to LoadCerts and lists the directory.
ListDir ==
    /\ pc = "idle"
    /\ loads < MaxLoads
    /\ pc' = "pairs"
    /\ unread' = {h \in Hosts : key[h] # 0}
    /\ half' = NoHalf
    /\ certs' = NoCerts
    /\ loads' = loads + 1
    /\ untouched' = TRUE
    /\ UNCHANGED <<files, updating, store, handshake>>

\* LoadX509KeyPair reads the .crt; if there is none the host is skipped.
ReadCrt(h) ==
    /\ pc = "pairs"
    /\ half = NoHalf
    /\ h \in unread
    /\ IF crt[h] = 0
       THEN unread' = unread \ {h} /\ UNCHANGED half
       ELSE half' = [host |-> h, pair |-> crt[h]] /\ UNCHANGED unread
    /\ UNCHANGED <<files, pc, certs, updating, store, loads, handshake, untouched>>

\* Mutant: a certificate is taken without its key.
PairIsRead(h) == half.pair # 0

\* The two files are of one pair.
PairIsWhole(h) == key[h] = half.pair

\* Then the .key; files of two pairs fail and the host is skipped.
ReadKey ==
    /\ pc = "pairs"
    /\ half # NoHalf
    /\ LET h == half.host
       IN  /\ certs' = [certs EXCEPT ![h] = IF PairIsWhole(h) THEN half.pair ELSE 0]
           /\ unread' = unread \ {h}
    /\ half' = NoHalf
    /\ UNCHANGED <<files, pc, updating, store, loads, handshake, untouched>>

\* All pairs are read, but NewShared returns nil and the reload is over.
LoadRejected ==
    /\ pc = "pairs"
    /\ unread = {}
    /\ pc' = "idle"
    /\ certs' = NoCerts
    /\ loads' = loads - 1
    /\ untouched' = FALSE
    /\ UNCHANGED <<files, unread, half, updating, store, handshake>>

-------------------------------------------------------------------------------
(* UpdateCerts. *)

InService == {h \in Hosts : store[h] # NoCert}
Loaded == {h \in Hosts : certs[h] # 0}

\* Mutant: the map is emptied and filled again.
EverythingThere == InService

\* Mutant: nothing is ever deleted.
NothingStale == {}

\* The hosts in the getter that the new map does not have.
Stale == InService \ Loaded

\* Hosts returns; nobody else changes the map while it ranges over it.
TakeHosts ==
    /\ pc = "pairs"
    /\ unread = {}
    /\ pc' = "update"
    /\ stale' = Stale
    /\ fresh' = Loaded
    /\ handshake' = [c \in Clients |->
                        [handshake[c] EXCEPT !.kept = @ \cap Loaded]]
    /\ UNCHANGED <<files, reading, store, loads, untouched>>

\* In whatever order Go ranges over the hosts.
Delete(h) ==
    /\ pc = "update"
    /\ h \in stale
    /\ stale' = stale \ {h}
    /\ store' = [store EXCEPT ![h] = NoCert]
    /\ UNCHANGED <<files, pc, reading, fresh, loads, handshake, untouched>>

\* Mutant: the certificates are added before the stale ones are deleted.
AddAtOnce(h) ==
    /\ pc = "update"
    /\ h \in fresh
    /\ fresh' = fresh \ {h}
    /\ store' = [store EXCEPT ![h] = [pair |-> certs[h], load |-> loads]]
    /\ UNCHANGED <<files, pc, reading, stale, loads, handshake, untouched>>

\* After the last Delete, in whatever order Go ranges over the certificates.
Add(h) ==
    /\ pc = "update"
    /\ stale = {}
    /\ h \in fresh
    /\ fresh' = fresh \ {h}
    /\ store' = [store EXCEPT ![h] = [pair |-> certs[h], load |-> loads]]
    /\ UNCHANGED <<files, pc, reading, stale, loads, handshake, untouched>>

Updated ==
    /\ pc = "update"
    /\ stale = {}
    /\ fresh = {}
    /\ pc' = "idle"
    /\ certs' = NoCerts
    /\ UNCHANGED <<files, unread, half, updating, store, loads, handshake, untouched>>

-------------------------------------------------------------------------------
(* Get.  The history a search carries: the hosts that were in the map when   *)
(* it began and that no update since leaves out, and the last load whose     *)
(* update was over when it began.                                            *)

\* The names looked up for a server name: itself, then each wildcard upwards.
Path(name) ==
    [i \in 1 .. Larger(1, Len(name)) |->
        IF i = 1 THEN name ELSE <<Star>> \o SubSeq(name, i, Len(name))]

HandshakeBegins(c) ==
    /\ handshake[c].pc = "idle"
    /\ \E name \in Asked :
        handshake' = [handshake EXCEPT ![c] =
            [NoSearch EXCEPT
                !.pc = "search",
                !.name = name,
                !.kept = IF pc = "update" THEN InService \cap Loaded ELSE InService,
                !.since = IF pc = "idle" THEN loads ELSE loads - 1]]
    /\ UNCHANGED <<files, pc, reading, updating, store, loads, untouched>>

\* Mutant: the name is not cut at the dot.
SameName(at) == at

\* Mutant: it is cut at the second dot.
NameAfterNext(at) == at + 2

\* No dot is left in the name.
LastName(search) == search.at = Len(Path(search.name))

\* fqdn = fqdn[dotI+1:]
NextName(at) == at + 1

\* Where a search is after one Load of the map.
AfterLoad(search) ==
    LET host == Path(search.name)[search.at]
    IN  IF host \in InService
        THEN [search EXCEPT !.pc = "found", !.load = store[host].load]
        ELSE IF LastName(search) THEN [search EXCEPT !.pc = "none"]
        ELSE [search EXCEPT !.at = NextName(@)]

Look(c) ==
    /\ handshake[c].pc = "search"
    /\ handshake' = [handshake EXCEPT ![c] = AfterLoad(@)]
    /\ UNCHANGED <<files, pc, reading, updating, store, loads, untouched>>

HandshakeEnds(c) ==
    /\ handshake[c].pc \in {"found", "none"}
    /\ handshake' = [handshake EXCEPT ![c] = NoSearch]
    /\ UNCHANGED <<files, pc, reading, updating, store, loads, untouched>>

-------------------------------------------------------------------------------
Load ==
    \/ ListDir
    \/ \E h \in Hosts : ReadCrt(h)
    \/ ReadKey
    \/ LoadRejected

Update ==
    \/ TakeHosts
    \/ \E h \in Hosts : Delete(h)
    \/ \E h \in Hosts : Add(h)
    \/ Updated

Handshake(c) ==
    \/ HandshakeBegins(c)
    \/ Look(c)
    \/ HandshakeEnds(c)

Next ==
    \/ \E h \in Hosts : WriteFile(h)
    \/ Load
    \/ Update
    \/ \E c \in Clients : Handshake(c)

Spec == Init /\ [][Next]_vars

\* The goroutines of handshakes are scheduled.
FairSpec == Spec /\ \A c \in Clients : WF_vars(Look(c))

-------------------------------------------------------------------------------
(* Properties. *)

TypeOK ==
    /\ crt \in [Hosts -> Nat] /\ key \in [Hosts -> Nat] /\ certs \in [Hosts -> Nat]
    /\ \A h \in Hosts : {crt[h], key[h], certs[h]} \subseteq Pairs(h)
    /\ pc \in {"idle", "pairs", "update"}
    /\ unread \subseteq Hosts
    /\ half = NoHalf \/ half \in [host : unread, pair : Nat \ {0}]
    /\ stale \subseteq Hosts /\ fresh \subseteq Hosts
    /\ store \in [Hosts -> [pair : Nat, load : 0 .. MaxLoads]]
    /\ loads \in 0 .. MaxLoads
    /\ \A c \in Clients :
        /\ handshake[c].pc \in {"idle", "search", "found", "none"}
        /\ handshake[c].at \in DOMAIN Path(handshake[c].name)
    /\ untouched \in BOOLEAN

\* The names a search has looked up in vain.
Passed(search) ==
    {Path(search.name)[i] :
        i \in 1 .. IF search.pc = "none" THEN search.at ELSE search.at - 1}

\* A host that was in service when a handshake began, and that each reload since
\* has loaded again, is not missed: the handshake gets its certificate or one
\* for a name closer to the one asked for, while UpdateCerts changes the map
\* under its search.
KeptHostAnswers ==
    \A c \in Clients :
        handshake[c].pc \in {"found", "none"}
            => Passed(handshake[c]) \cap handshake[c].kept = {}

\* A certificate that a reload has replaced or withdrawn is never given to a
\* handshake that begins after that reload is over.
NeverRetired ==
    \A c \in Clients :
        handshake[c].pc = "found" => handshake[c].load >= handshake[c].since

\* The certificates in service are those of one load, the last one that was not
\* rejected, except while UpdateCerts moves them to the next; and that puts no
\* certificate into service before every host the new load leaves out is gone.
\* HotReload may take UpdateCerts for one step because of this.
OneLoadInService ==
    /\ pc # "update" =>
        \A h \in InService : store[h].load = IF pc = "idle" THEN loads ELSE loads - 1
    /\ pc = "update" =>
        \A h \in InService :
            /\ store[h].load \in {loads - 1, loads}
            /\ store[h].load = loads => InService \subseteq Loaded

\* After a reload under which no file changed exactly the pairs on disk are in
\* service: no half-replaced pair, none that is gone, and none is missing.
StoreMirrorsDirectory ==
    pc = "idle" /\ untouched =>
        \A h \in Hosts : store[h].pair = IF crt[h] = key[h] THEN crt[h] ELSE 0

\* A search ends, found or not.
SearchEnds ==
    \A c \in Clients : handshake[c].pc = "search" ~> handshake[c].pc # "search"
===============================================================================
