-------------------------- MODULE CertificatesProofs --------------------------
(***************************************************************************)
(* Proofs about Certificates, for any hosts, names, clients and numbers of *)
(* pairs and loads.                                                        *)
(*                                                                         *)
(* What is in the map is known from where UpdateCerts is: a host that is   *)
(* neither to be deleted nor to be added stands as it was loaded           *)
(* (UpdateInv), and one that is left is of the load before (LoadInv).  A   *)
(* host a search has kept is in the map all along, so that it is not among *)
(* the names the search has passed (SearchInv).  Under untouched files the *)
(* map LoadCerts fills agrees with the directory as far as it has read     *)
(* (DirectoryInv).                                                         *)
(***************************************************************************)
EXTENDS Certificates, TLAPS

SearchType ==
    [pc : {"idle", "search", "found", "none"}, name : Asked \cup {<<>>}, at : Nat,
     load : Nat, kept : SUBSET Hosts, since : Nat]

FileType ==
    /\ crt \in [Hosts -> Nat]
    /\ key \in [Hosts -> Nat]
    /\ \A h \in Hosts : crt[h] <= MaxPair[h] /\ key[h] <= MaxPair[h]
    /\ untouched \in BOOLEAN

LoadType ==
    /\ pc \in {"idle", "pairs", "update"}
    /\ unread \in SUBSET Hosts
    /\ half # NoHalf =>
        /\ half \in [host : unread, pair : Nat \ {0}]
        /\ half.pair <= MaxPair[half.host]
    /\ certs \in [Hosts -> Nat]
    /\ \A h \in Hosts : certs[h] <= MaxPair[h]

StoreType ==
    /\ stale \in SUBSET Hosts
    /\ fresh \in SUBSET Hosts
    /\ store \in [Hosts -> [pair : Nat, load : 0 .. MaxLoads]]
    /\ loads \in 0 .. MaxLoads

SearchesType ==
    /\ handshake \in [Clients -> SearchType]
    /\ \A c \in Clients : handshake[c].at \in DOMAIN Path(handshake[c].name)

\* TypeOK and the types it leaves out.
TypeInv == FileType /\ LoadType /\ StoreType /\ SearchesType

\* How far UpdateCerts has got.
UpdateInv ==
    pc = "update" =>
        /\ unread = {}
        /\ stale \cap Loaded = {}
        /\ fresh \subseteq Loaded
        /\ \A h \in Hosts \ (stale \cup fresh) : store[h].pair = certs[h]

\* The loads whose update is over.
Completed == IF pc = "idle" THEN loads ELSE loads - 1

\* Certificates in service are of the latest completed load, or of the one under
\* way if their host is done with.
LoadInv ==
    /\ pc # "idle" => loads > 0
    /\ \A h \in InService :
        /\ store[h].load >= Completed
        /\ pc = "update" /\ h \notin stale \cup fresh => store[h].load = loads
    /\ \A c \in Clients :
        /\ handshake[c].since <= Completed
        /\ handshake[c].pc = "found" => handshake[c].load >= handshake[c].since

\* What a search has kept is there, will be there, and is ahead of it.
SearchInv ==
    \A c \in Clients :
        /\ handshake[c].kept \subseteq InService
        /\ pc = "update" => handshake[c].kept \subseteq Loaded
        /\ Passed(handshake[c]) \cap handshake[c].kept = {}

\* The pair a host has on disk, 0 without a whole one.
OnDisk(h) == IF crt[h] = key[h] THEN crt[h] ELSE 0

\* What has been loaded, and put into service, of the directory as it is.
DirectoryInv ==
    /\ pc = "pairs" => \A h \in unread : certs[h] = 0
    /\ untouched /\ pc = "pairs" =>
        /\ \A h \in unread : key[h] # 0
        /\ \A h \in Hosts \ unread : certs[h] = OnDisk(h)
        /\ half # NoHalf => half.pair = crt[half.host]
    /\ untouched /\ pc = "update" => \A h \in Hosts : certs[h] = OnDisk(h)
    /\ untouched /\ pc = "idle" => \A h \in Hosts : store[h].pair = OnDisk(h)

CertificatesInv == TypeInv /\ UpdateInv /\ LoadInv /\ SearchInv /\ DirectoryInv

-------------------------------------------------------------------------------
(* Lemmas about the path of a search. *)

\* A server name is looked up once for itself and once for each label but one.
LEMMA PathLength ==
    ASSUME NEW name \in Asked \cup {<<>>}
    PROVE  /\ Len(name) \in Nat
           /\ DOMAIN Path(name) = 1 .. Larger(1, Len(name))
           /\ Len(Path(name)) = Larger(1, Len(name))
           /\ Larger(1, Len(name)) \in Nat \ {0}
<1>1. Len(name) \in Nat
    BY CertificatesAssumption
<1>2. Larger(1, Len(name)) \in Nat \ {0}
    BY <1>1 DEF Larger
<1>3. DOMAIN Path(name) = 1 .. Larger(1, Len(name))
    BY DEF Path
<1>4. Len(Path(name)) = Larger(1, Len(name))
    BY <1>2 DEF Path
<1>5. QED
    BY <1>1, <1>2, <1>3, <1>4

\* The records a search goes through.
LEMMA SearchUpdates ==
    ASSUME NEW s \in SearchType, NEW n \in Nat
    PROVE  /\ [s EXCEPT !.pc = "none"] \in SearchType
           /\ [s EXCEPT !.at = n] \in SearchType
           /\ [s EXCEPT !.pc = "found", !.load = n] \in SearchType
<1>1. [s EXCEPT !.pc = "none"] \in SearchType
    BY DEF SearchType
<1>2. [s EXCEPT !.at = n] \in SearchType
    BY DEF SearchType
<1>3. [s EXCEPT !.pc = "found", !.load = n] \in SearchType
    BY DEF SearchType
<1>4. QED
    BY <1>1, <1>2, <1>3

-------------------------------------------------------------------------------
(* The steps, one lemma for each part of the invariant. *)

\* Every step keeps the types.
LEMMA TypeStep == TypeInv /\ UpdateInv /\ LoadInv /\ [Next]_vars => TypeInv'
<1> SUFFICES ASSUME TypeInv, UpdateInv, LoadInv, [Next]_vars
             PROVE  TypeInv'
    OBVIOUS
<1> USE CertificatesAssumption DEF TypeInv
<1>1. CASE \E h \in Hosts : WriteFile(h)
    <2> PICK h \in Hosts : WriteFile(h)
        BY <1>1
    <2>1. \A pair \in Contents(h) : pair \in Nat /\ pair <= MaxPair[h]
        BY DEF Contents, Pairs
    <2>2. FileType'
        <3>1. CASE \E pair \in Contents(h) : crt' = [crt EXCEPT ![h] = pair] /\ UNCHANGED key
            BY <2>1, <3>1 DEF FileType, WriteFile
        <3>2. CASE \E pair \in Contents(h) : key' = [key EXCEPT ![h] = pair] /\ UNCHANGED crt
            BY <2>1, <3>2 DEF FileType, WriteFile
        <3>3. QED
            BY <3>1, <3>2 DEF WriteFile
    <2>3. UNCHANGED <<pc, reading, updating, store, loads, handshake>>
        BY DEF WriteFile
    <2>4. QED
        BY <2>2, <2>3 DEF LoadType, StoreType, SearchesType, reading, updating
<1>2. CASE ListDir
    BY <1>2 DEF ListDir, FileType, LoadType, StoreType, SearchesType, files, updating, NoCerts
<1>3. CASE \E h \in Hosts : ReadCrt(h)
    BY <1>3 DEF ReadCrt, FileType, LoadType, StoreType, SearchesType, files, updating, NoHalf
<1>4. CASE ReadKey
    <2>1. half \in [host : unread, pair : Nat \ {0}] /\ half.pair <= MaxPair[half.host]
        BY <1>4 DEF ReadKey, LoadType
    <2>2. half.host \in Hosts
        BY <2>1 DEF LoadType
    <2>3. LoadType'
        BY <1>4, <2>1, <2>2 DEF ReadKey, LoadType
    <2>4. QED
        BY <1>4, <2>3 DEF ReadKey, FileType, StoreType, SearchesType, files, updating
<1>5. CASE LoadRejected
    <2>1. loads' \in 0 .. MaxLoads
        BY <1>5 DEF LoadRejected, LoadInv, StoreType
    <2>2. LoadType'
        BY <1>5 DEF LoadRejected, LoadType, NoCerts
    <2>3. QED
        BY <1>5, <2>1, <2>2 DEF LoadRejected, FileType, StoreType, SearchesType, files, updating
<1>6. CASE TakeHosts
    <2>1. SearchesType'
        <3>1. \A c \in Clients : handshake'[c] = [handshake[c] EXCEPT !.kept = @ \cap Loaded]
            BY <1>6 DEF TakeHosts
        <3>2. \A c \in Clients : handshake[c] \in SearchType
            BY DEF SearchesType
        <3>3. ASSUME NEW c \in Clients
              PROVE  handshake'[c] \in SearchType
            <4>1. handshake[c].kept \cap Loaded \in SUBSET Hosts
                BY DEF Loaded
            <4>2. handshake[c] \in SearchType /\ handshake'[c] = [handshake[c] EXCEPT !.kept = @ \cap Loaded]
                BY <3>1, <3>2
            <4>3. QED
                BY <4>1, <4>2 DEF SearchType
        <3>4. \A c \in Clients : handshake'[c].at = handshake[c].at /\ handshake'[c].name = handshake[c].name
            BY <3>1, <3>2 DEF SearchType
        <3>5. handshake' \in [Clients -> SearchType]
            BY <1>6, <3>3 DEF TakeHosts
        <3>6. QED
            BY <3>4, <3>5 DEF SearchesType
    <2>2. QED
        BY <1>6, <2>1 DEF TakeHosts, FileType, LoadType, StoreType, files, reading, Stale,
            InService, Loaded
<1>7. CASE \E h \in Hosts : Delete(h)
    BY <1>7 DEF Delete, FileType, LoadType, StoreType, SearchesType, files, reading, NoCert
<1>8. CASE \E h \in Hosts : Add(h)
    BY <1>8 DEF Add, FileType, LoadType, StoreType, SearchesType, files, reading
<1>9. CASE Updated
    BY <1>9 DEF Updated, FileType, LoadType, StoreType, SearchesType, files, updating, NoCerts
<1>10. CASE \E c \in Clients : HandshakeBegins(c)
    <2> PICK c \in Clients : HandshakeBegins(c)
        BY <1>10
    <2>1. PICK name \in Asked : handshake' = [handshake EXCEPT ![c] =
            [NoSearch EXCEPT
                !.pc = "search",
                !.name = name,
                !.kept = IF pc = "update" THEN InService \cap Loaded ELSE InService,
                !.since = IF pc = "idle" THEN loads ELSE loads - 1]]
        BY DEF HandshakeBegins
    <2>2. handshake'[c] \in SearchType /\ handshake'[c].name = name /\ handshake'[c].at = 1
        <3>1. (IF pc = "idle" THEN loads ELSE loads - 1) \in Nat
            BY DEF StoreType, LoadInv
        <3>2. (IF pc = "update" THEN InService \cap Loaded ELSE InService) \in SUBSET Hosts
            BY DEF InService
        <3>3. QED
            BY <2>1, <3>1, <3>2 DEF NoSearch, SearchType, SearchesType
    <2>3. SearchesType'
        BY <2>1, <2>2, PathLength DEF SearchesType
    <2>4. QED
        BY <2>3 DEF HandshakeBegins, FileType, LoadType, StoreType, files, reading, updating
<1>11. CASE \E c \in Clients : Look(c)
    <2> PICK c \in Clients : Look(c)
        BY <1>11
    <2> DEFINE search == handshake[c]
    <2>1. search \in SearchType /\ search.at \in DOMAIN Path(search.name)
        BY DEF SearchesType
    <2>2. AfterLoad(search) \in SearchType /\ AfterLoad(search).name = search.name
        <3> DEFINE host == Path(search.name)[search.at]
        <3>1. host \in InService => store[host].load \in Nat
            BY DEF InService, StoreType
        <3>2. search.at + 1 \in Nat
            BY <2>1 DEF SearchType
        <3>3. CASE host \in InService
            BY <2>1, <3>1, <3>3, SearchUpdates DEF AfterLoad, SearchType
        <3>4. CASE host \notin InService
            BY <2>1, <3>2, <3>4, SearchUpdates DEF AfterLoad, NextName, SearchType
        <3>5. QED
            BY <3>3, <3>4
    <2>3. AfterLoad(search).at \in DOMAIN Path(search.name)
        <3>1. search.name \in Asked \cup {<<>>} /\ search.at \in Nat
            BY <2>1 DEF SearchType
        <3>2. CASE AfterLoad(search).at = search.at
            BY <2>1, <3>2
        <3>3. CASE AfterLoad(search).at # search.at
            <4>1. AfterLoad(search) = [search EXCEPT !.at = search.at + 1] /\ ~LastName(search)
                BY <2>1, <3>3 DEF AfterLoad, NextName, SearchType
            <4>2. AfterLoad(search).at = search.at + 1
                BY <2>1, <4>1 DEF SearchType
            <4>3. QED
                BY <2>1, <3>1, <4>1, <4>2, PathLength DEF LastName
        <3>4. QED
            BY <3>2, <3>3
    <2>4. SearchesType'
        BY <2>2, <2>3 DEF Look, SearchesType
    <2>5. QED
        BY <2>4 DEF Look, FileType, LoadType, StoreType, files, reading, updating
<1>12. CASE \E c \in Clients : HandshakeEnds(c)
    <2> PICK c \in Clients : HandshakeEnds(c)
        BY <1>12
    <2>1. NoSearch \in SearchType /\ NoSearch.at = 1 /\ NoSearch.name = <<>>
        BY DEF NoSearch, SearchType
    <2>2. SearchesType'
        BY <2>1, PathLength DEF HandshakeEnds, SearchesType
    <2>3. QED
        BY <2>2 DEF HandshakeEnds, FileType, LoadType, StoreType, files, reading, updating
<1>13. CASE UNCHANGED vars
    BY <1>13 DEF vars, FileType, LoadType, StoreType, SearchesType, files, reading, updating
<1>14. QED
    BY <1>1, <1>2, <1>3, <1>4, <1>5, <1>6, <1>7, <1>8, <1>9, <1>10, <1>11, <1>12, <1>13
    DEF Next, Load, Update, Handshake

\* The steps that change neither the map nor what is to be done with it.
LEMMA Aside ==
    ASSUME \/ \E h \in Hosts : WriteFile(h)
           \/ \E c \in Clients : Handshake(c)
           \/ UNCHANGED vars
    PROVE  UNCHANGED <<pc, reading, updating, store, loads>>
<1>1. CASE \E h \in Hosts : WriteFile(h)
    BY <1>1 DEF WriteFile
<1>2. CASE \E c \in Clients : Handshake(c)
    BY <1>2 DEF Handshake, HandshakeBegins, Look, HandshakeEnds
<1>3. CASE UNCHANGED vars
    BY <1>3 DEF vars
<1>4. QED
    BY <1>1, <1>2, <1>3

\* UpdateCerts does with each host what it has to, and nothing else.
LEMMA UpdateStep == TypeInv /\ UpdateInv /\ [Next]_vars => UpdateInv'
<1> SUFFICES ASSUME TypeInv, UpdateInv, [Next]_vars
             PROVE  UpdateInv'
    OBVIOUS
<1> USE DEF TypeInv, UpdateInv
<1>1. CASE \/ \E h \in Hosts : WriteFile(h)
           \/ \E c \in Clients : Handshake(c)
           \/ UNCHANGED vars
    BY <1>1, Aside DEF reading, updating, Loaded
<1>2. CASE Load
    BY <1>2 DEF Load, ListDir, ReadCrt, ReadKey, LoadRejected
<1>3. CASE TakeHosts
    <2>1. \A h \in Hosts \ (Stale \cup Loaded) : store[h].pair = certs[h]
        BY DEF Stale, Loaded, InService, NoCert, LoadType, StoreType
    <2>2. QED
        BY <1>3, <2>1 DEF TakeHosts, Stale, Loaded, reading
<1>4. CASE \E h \in Hosts : Delete(h)
    <2> PICK h \in Hosts : Delete(h)
        BY <1>4
    <2>1. certs[h] = 0 /\ store'[h].pair = 0
        BY DEF Delete, Loaded, StoreType, NoCert
    <2>2. QED
        BY <2>1 DEF Delete, Loaded, StoreType, reading
<1>5. CASE \E h \in Hosts : Add(h)
    <2> PICK h \in Hosts : Add(h)
        BY <1>5
    <2>1. store'[h].pair = certs[h]
        BY DEF Add, StoreType
    <2>2. QED
        BY <2>1 DEF Add, Loaded, StoreType, reading
<1>6. CASE Updated
    BY <1>6 DEF Updated
<1>7. QED
    BY <1>1, <1>2, <1>3, <1>4, <1>5, <1>6 DEF Next, Update

\* Certificates and handshakes keep up with the loads.
LEMMA LoadStep == TypeInv /\ UpdateInv /\ LoadInv /\ [Next]_vars => LoadInv'
<1> SUFFICES ASSUME TypeInv, UpdateInv, LoadInv, [Next]_vars
             PROVE  LoadInv'
    OBVIOUS
<1> USE DEF TypeInv, LoadInv, Completed
<1>0. loads \in Nat
    BY CertificatesAssumption DEF StoreType
<1>1. CASE (\E h \in Hosts : WriteFile(h)) \/ UNCHANGED vars
    <2>1. UNCHANGED handshake
        BY <1>1 DEF WriteFile, vars
    <2>2. QED
        BY <1>1, <2>1, Aside DEF updating, InService
<1>2. CASE Load
    <2>1. UNCHANGED <<updating, store, handshake>> /\ pc' # "update"
        BY <1>2 DEF Load, ListDir, ReadCrt, ReadKey, LoadRejected, LoadType
    <2>2. Completed' = Completed /\ (pc' # "idle" => loads' > 0)
        BY <1>0, <1>2 DEF Load, ListDir, ReadCrt, ReadKey, LoadRejected
    <2>3. QED
        BY <2>1, <2>2 DEF updating, InService
<1>3. CASE TakeHosts
    <2>1. UNCHANGED <<store, loads>> /\ Completed' = Completed /\ loads > 0
        BY <1>3 DEF TakeHosts
    <2>2. \A h \in InService : h \in (stale \cup fresh)'
        BY <1>3 DEF TakeHosts, Stale
    <2>3. \A c \in Clients : /\ handshake'[c].since = handshake[c].since
                             /\ handshake'[c].pc = handshake[c].pc
                             /\ handshake'[c].load = handshake[c].load
        BY <1>3 DEF TakeHosts, SearchesType, SearchType
    <2>4. QED
        BY <2>1, <2>2, <2>3 DEF InService
<1>4. CASE \E h \in Hosts : Delete(h)
    <2> PICK h \in Hosts : Delete(h)
        BY <1>4
    <2>1. store'[h] = NoCert /\ \A g \in Hosts \ {h} : store'[g] = store[g]
        BY DEF Delete, StoreType
    <2>2. \A g \in InService' : g \in Hosts \ {h} /\ g \in InService /\ store'[g] = store[g]
        BY <2>1 DEF InService
    <2>3. UNCHANGED <<pc, loads, handshake, fresh>> /\ stale' = stale \ {h}
        BY DEF Delete
    <2>4. \A g \in InService' :
            /\ store'[g].load >= Completed
            /\ pc' = "update" /\ g \notin (stale \cup fresh)' => store'[g].load = loads'
        BY <2>2, <2>3
    <2>5. QED
        BY <2>3, <2>4
<1>5. CASE \E h \in Hosts : Add(h)
    <2> PICK h \in Hosts : Add(h)
        BY <1>5
    <2>1. store'[h].load = loads /\ \A g \in Hosts \ {h} : store'[g] = store[g]
        BY DEF Add, StoreType
    <2>2. \A g \in InService' \ {h} : g \in InService /\ store'[g] = store[g]
        BY <2>1 DEF InService
    <2>3. UNCHANGED <<pc, loads, handshake, stale>> /\ fresh' = fresh \ {h} /\ pc = "update"
        BY DEF Add
    <2>4. ASSUME NEW g \in InService'
          PROVE  /\ store'[g].load >= Completed
                 /\ g \notin (stale \cup fresh)' => store'[g].load = loads
        <3>1. CASE g = h
            BY <1>0, <2>1, <2>3, <3>1
        <3>2. CASE g # h
            BY <2>2, <2>3, <3>2
        <3>3. QED
            BY <3>1, <3>2
    <2>5. QED
        BY <2>3, <2>4
<1>6. CASE Updated
    <2>1. UNCHANGED <<store, loads, handshake>> /\ pc = "update" /\ pc' = "idle" /\ stale = {} /\ fresh = {}
        BY <1>6 DEF Updated
    <2>2. \A h \in InService : store[h].load = loads
        BY <2>1
    <2>3. \A c \in Clients : handshake[c].since <= loads
        BY <1>0, <2>1 DEF SearchesType, SearchType
    <2>4. QED
        BY <1>0, <2>1, <2>2, <2>3 DEF InService
<1>7. CASE \E c \in Clients : Handshake(c)
    <2> PICK c \in Clients : Handshake(c)
        BY <1>7
    <2>1. UNCHANGED <<pc, reading, updating, store, loads>>
        BY <1>7, Aside
    <2>2. \A d \in Clients \ {c} : handshake'[d] = handshake[d]
        BY DEF Handshake, HandshakeBegins, Look, HandshakeEnds, SearchesType
    <2>3. /\ handshake'[c].since <= Completed
          /\ handshake'[c].pc = "found" => handshake'[c].load >= handshake'[c].since
        <3>1. CASE HandshakeBegins(c)
            BY <1>0, <3>1 DEF HandshakeBegins, NoSearch, SearchesType
        <3>2. CASE Look(c)
            <4> DEFINE host == Path(handshake[c].name)[handshake[c].at]
            <4>1. handshake'[c] = AfterLoad(handshake[c]) /\ handshake[c].pc = "search"
                BY <3>2 DEF Look, SearchesType
            <4>2. handshake[c] \in SearchType
                BY DEF SearchesType
            <4>3. CASE host \in InService
                <5>1. store[host].load >= Completed /\ store[host].load \in Nat
                    BY <4>3 DEF InService, StoreType
                <5>2. /\ handshake'[c].load = store[host].load
                      /\ handshake'[c].since = handshake[c].since
                    BY <4>1, <4>2, <4>3 DEF AfterLoad, SearchType
                <5>3. handshake[c].since \in Nat /\ Completed \in Int
                    BY <1>0, <4>2 DEF SearchType
                <5>4. QED
                    BY <5>1, <5>2, <5>3
            <4>4. CASE host \notin InService
                BY <4>1, <4>2, <4>4 DEF AfterLoad, SearchType
            <4>5. QED
                BY <4>3, <4>4
        <3>3. CASE HandshakeEnds(c)
            BY <1>0, <3>3 DEF HandshakeEnds, NoSearch, SearchesType
        <3>4. QED
            BY <3>1, <3>2, <3>3 DEF Handshake
    <2>4. QED
        BY <2>1, <2>2, <2>3 DEF updating, InService
<1>8. QED
    BY <1>1, <1>2, <1>3, <1>4, <1>5, <1>6, <1>7 DEF Next, Update

\* One Load of the map leaves no kept host behind.
LEMMA LookPasses ==
    ASSUME NEW s \in SearchType, s.pc = "search", s.at \in DOMAIN Path(s.name),
           s.kept \subseteq InService, Passed(s) \cap s.kept = {}
    PROVE  /\ AfterLoad(s).kept = s.kept
           /\ Passed(AfterLoad(s)) \cap s.kept = {}
<1> DEFINE path == Path(s.name)
           host == path[s.at]
<1>1. s.at \in Nat /\ s.name \in Asked \cup {<<>>}
    BY DEF SearchType
<1>2. s.at >= 1
    BY <1>1, PathLength
<1>3. AfterLoad(s).name = s.name /\ AfterLoad(s).kept = s.kept
    BY DEF AfterLoad, SearchType
<1>4. {path[i] : i \in 1 .. s.at - 1} \cap s.kept = {}
    BY DEF Passed
<1>5. CASE host \in InService
    <2>1. AfterLoad(s).pc = "found" /\ AfterLoad(s).at = s.at
        BY <1>5 DEF AfterLoad, SearchType
    <2>2. QED
        BY <1>3, <1>4, <2>1 DEF Passed
<1>6. CASE host \notin InService
    <2>1. host \notin s.kept
        BY <1>6
    <2>2. \A i \in 1 .. s.at : i \in 1 .. s.at - 1 \/ i = s.at
        BY <1>1, <1>2
    <2>3. {path[i] : i \in 1 .. s.at} \cap s.kept = {}
        BY <1>4, <2>1, <2>2
    <2>4. \/ AfterLoad(s).pc = "none" /\ AfterLoad(s).at = s.at
          \/ AfterLoad(s).pc = "search" /\ AfterLoad(s).at = s.at + 1
        BY <1>6 DEF AfterLoad, NextName, SearchType
    <2>5. (s.at + 1) - 1 = s.at
        BY <1>1
    <2>6. Passed(AfterLoad(s)) = {path[i] : i \in 1 .. s.at}
        <3>1. CASE AfterLoad(s).pc = "none" /\ AfterLoad(s).at = s.at
            BY <1>3, <3>1 DEF Passed
        <3>2. CASE AfterLoad(s).pc = "search" /\ AfterLoad(s).at = s.at + 1
            BY <1>3, <2>5, <3>2 DEF Passed
        <3>3. QED
            BY <2>4, <3>1, <3>2
    <2>7. QED
        BY <1>3, <2>3, <2>6
<1>7. QED
    BY <1>5, <1>6

\* No step takes a kept host away, or a search past one.
LEMMA SearchStep == TypeInv /\ UpdateInv /\ SearchInv /\ [Next]_vars => SearchInv'
<1> SUFFICES ASSUME TypeInv, UpdateInv, SearchInv, [Next]_vars
             PROVE  SearchInv'
    OBVIOUS
<1> USE DEF SearchInv
<1>1. CASE (\E h \in Hosts : WriteFile(h)) \/ UNCHANGED vars
    <2>1. UNCHANGED handshake
        BY <1>1 DEF WriteFile, vars
    <2>2. QED
        BY <1>1, <2>1, Aside DEF InService, Loaded, reading
<1>2. CASE Load \/ Updated
    <2>1. pc' # "update" /\ UNCHANGED <<store, handshake>>
        BY <1>2 DEF Load, ListDir, ReadCrt, ReadKey, LoadRejected, Updated, TypeInv, LoadType
    <2>2. QED
        BY <2>1 DEF InService
<1>3. CASE TakeHosts
    <2>1. UNCHANGED <<store, certs>>
        BY <1>3 DEF TakeHosts, reading
    <2>2. ASSUME NEW c \in Clients
          PROVE  /\ handshake'[c].kept = handshake[c].kept \cap Loaded
                 /\ Passed(handshake'[c]) = Passed(handshake[c])
        <3>1. /\ handshake[c] \in SearchType
              /\ handshake'[c] = [handshake[c] EXCEPT !.kept = @ \cap Loaded]
            BY <1>3 DEF TakeHosts, TypeInv, SearchesType
        <3>2. QED
            BY <3>1 DEF SearchType, Passed
    <2>3. QED
        BY <2>1, <2>2 DEF InService, Loaded
<1>4. CASE \E h \in Hosts : Delete(h)
    <2> PICK h \in Hosts : Delete(h)
        BY <1>4
    <2>1. /\ pc = "update" /\ h \notin Loaded /\ UNCHANGED <<pc, certs, handshake>>
          /\ \A g \in Hosts \ {h} : store'[g] = store[g]
        BY DEF Delete, reading, UpdateInv, TypeInv, StoreType
    <2>2. \A g \in Loaded \cap InService : g \in InService'
        BY <2>1 DEF InService, Loaded
    <2>3. Loaded' = Loaded
        BY <2>1 DEF Loaded
    <2>4. QED
        BY <2>1, <2>2, <2>3
<1>5. CASE \E h \in Hosts : Add(h)
    <2> PICK h \in Hosts : Add(h)
        BY <1>5
    <2>1. /\ UNCHANGED <<pc, certs, handshake>>
          /\ certs[h] # 0 /\ store'[h].pair = certs[h]
          /\ \A g \in Hosts \ {h} : store'[g] = store[g]
        BY DEF Add, reading, UpdateInv, Loaded, TypeInv, StoreType
    <2>2. store'[h] # NoCert
        BY <2>1 DEF NoCert
    <2>3. InService \subseteq InService' /\ Loaded' = Loaded
        BY <2>1, <2>2 DEF InService, Loaded
    <2>4. QED
        BY <2>1, <2>3
<1>6. CASE \E c \in Clients : Handshake(c)
    <2> PICK c \in Clients : Handshake(c)
        BY <1>6
    <2>1. UNCHANGED <<pc, reading, updating, store, loads>>
        BY <1>6, Aside
    <2>2. InService' = InService /\ Loaded' = Loaded
        BY <2>1 DEF InService, Loaded, reading
    <2>3. \A d \in Clients \ {c} : handshake'[d] = handshake[d]
        BY DEF Handshake, HandshakeBegins, Look, HandshakeEnds, TypeInv, SearchesType
    <2>4. /\ handshake'[c].kept \subseteq InService
          /\ pc = "update" => handshake'[c].kept \subseteq Loaded
          /\ Passed(handshake'[c]) \cap handshake'[c].kept = {}
        <3>1. CASE HandshakeBegins(c)
            <4>1. /\ handshake'[c].pc = "search" /\ handshake'[c].at = 1
                  /\ handshake'[c].kept =
                        IF pc = "update" THEN InService \cap Loaded ELSE InService
                BY <3>1 DEF HandshakeBegins, NoSearch, TypeInv, SearchesType
            <4>2. Passed(handshake'[c]) = {}
                BY <4>1 DEF Passed
            <4>3. QED
                BY <4>1, <4>2
        <3>2. CASE Look(c)
            <4>1. /\ handshake[c] \in SearchType /\ handshake[c].pc = "search"
                  /\ handshake[c].at \in DOMAIN Path(handshake[c].name)
                  /\ handshake'[c] = AfterLoad(handshake[c])
                BY <3>2 DEF Look, TypeInv, SearchesType
            <4>2. QED
                BY <4>1, LookPasses
        <3>3. CASE HandshakeEnds(c)
            <4>1. handshake'[c].kept = {}
                BY <3>3 DEF HandshakeEnds, NoSearch, TypeInv, SearchesType
            <4>2. QED
                BY <4>1
        <3>4. QED
            BY <3>1, <3>2, <3>3 DEF Handshake
    <2>5. QED
        BY <2>1, <2>2, <2>3, <2>4
<1>7. QED
    BY <1>1, <1>2, <1>3, <1>4, <1>5, <1>6 DEF Next, Update

\* While no file changes, what is loaded and then in service is what is on disk.
LEMMA DirectoryStep ==
    TypeInv /\ UpdateInv /\ DirectoryInv /\ [Next]_vars => DirectoryInv'
<1> SUFFICES ASSUME TypeInv, UpdateInv, DirectoryInv, [Next]_vars
             PROVE  DirectoryInv'
    OBVIOUS
<1> USE DEF DirectoryInv, TypeInv
<1>1. CASE \E h \in Hosts : WriteFile(h)
    <2>1. UNCHANGED <<pc, unread, certs>> /\ ~untouched'
        BY <1>1 DEF WriteFile, reading
    <2>2. QED
        BY <2>1
<1>2. CASE \/ \E c \in Clients : Handshake(c)
           \/ UNCHANGED vars
    <2>1. UNCHANGED <<files, untouched>>
        BY <1>2 DEF Handshake, HandshakeBegins, Look, HandshakeEnds, vars
    <2>2. QED
        BY <1>2, <2>1, Aside DEF files, reading, OnDisk
<1>3. CASE ListDir
    BY <1>3 DEF ListDir, files, NoCerts, NoHalf, OnDisk, FileType
<1>4. CASE \E h \in Hosts : ReadCrt(h)
    <2> PICK h \in Hosts : ReadCrt(h)
        BY <1>4
    <2>1. /\ pc = "pairs" /\ h \in unread /\ half = NoHalf
          /\ UNCHANGED <<files, pc, certs, untouched>>
        BY DEF ReadCrt
    <2>2. CASE crt[h] = 0 /\ unread' = unread \ {h} /\ UNCHANGED half
        <3>1. untouched => certs[h] = OnDisk(h)
            BY <2>1, <2>2 DEF OnDisk
        <3>2. QED
            BY <2>1, <2>2, <3>1 DEF OnDisk, files
    <2>3. CASE half' = [host |-> h, pair |-> crt[h]] /\ UNCHANGED unread
        BY <2>1, <2>3 DEF OnDisk, files
    <2>4. QED
        BY <2>2, <2>3 DEF ReadCrt
<1>5. CASE ReadKey
    <2> DEFINE h == half.host
    <2>1. h \in unread /\ h \in Hosts
        BY <1>5 DEF ReadKey, LoadType
    <2>2. /\ pc = "pairs" /\ half # NoHalf /\ half' = NoHalf /\ unread' = unread \ {h}
          /\ certs' = [certs EXCEPT ![h] = IF key[h] = half.pair THEN half.pair ELSE 0]
          /\ UNCHANGED <<files, pc, untouched>>
        BY <1>5 DEF ReadKey, PairIsWhole
    <2>3. untouched => certs'[h] = OnDisk(h)
        BY <2>1, <2>2 DEF OnDisk, LoadType
    <2>4. \A g \in Hosts \ {h} : certs'[g] = certs[g]
        BY <2>1, <2>2 DEF LoadType
    <2>5. \A g \in Hosts : OnDisk(g)' = OnDisk(g)
        BY <2>2 DEF OnDisk, files
    <2>6. \A g \in unread' : certs'[g] = 0
        BY <2>1, <2>2, <2>4 DEF LoadType
    <2>7. untouched => \A g \in Hosts \ unread' : certs'[g] = OnDisk(g)
        BY <2>1, <2>2, <2>3, <2>4
    <2>8. QED
        BY <2>2, <2>5, <2>6, <2>7 DEF files
<1>6. CASE LoadRejected
    BY <1>6 DEF LoadRejected
<1>7. CASE TakeHosts
    BY <1>7 DEF TakeHosts, files, reading, OnDisk
<1>8. CASE (\E h \in Hosts : Delete(h)) \/ \E h \in Hosts : Add(h)
    <2>1. pc = "update" /\ UNCHANGED <<files, pc, certs, untouched>>
        BY <1>8 DEF Delete, Add, reading
    <2>2. QED
        BY <2>1 DEF files, OnDisk
<1>9. CASE Updated
    <2>1. /\ pc = "update" /\ pc' = "idle" /\ UNCHANGED <<files, store, untouched>>
          /\ \A h \in Hosts : store[h].pair = certs[h]
        BY <1>9 DEF Updated, UpdateInv
    <2>2. QED
        BY <2>1 DEF files, OnDisk
<1>10. QED
    BY <1>1, <1>2, <1>3, <1>4, <1>5, <1>6, <1>7, <1>8, <1>9 DEF Next, Load, Update

-------------------------------------------------------------------------------
\* Each host has the files of its first pair, or none.
LEMMA FilesAtFirst == Init => FileType
<1> SUFFICES ASSUME Init
             PROVE  FileType
    OBVIOUS
<1>1. crt \in [Hosts -> {0, 1}] /\ key = crt /\ untouched = FALSE
    BY DEF Init
<1>2. \A h \in Hosts : MaxPair[h] \in Nat \ {0}
    BY CertificatesAssumption
<1>3. \A h \in Hosts : crt[h] <= MaxPair[h]
    BY <1>1, <1>2
<1>4. crt \in [Hosts -> Nat]
    BY <1>1
<1>5. QED
    BY <1>1, <1>3, <1>4 DEF FileType

\* The strengthened invariant holds whatever the operator and the clients do.
THEOREM CertificatesInvariant == Spec => []CertificatesInv
<1>1. Init => CertificatesInv
    <2> SUFFICES ASSUME Init
                 PROVE  CertificatesInv
        OBVIOUS
    <2> USE CertificatesAssumption DEF Init
    <2>1. NoSearch \in SearchType /\ NoSearch.name = <<>> /\ NoSearch.at = 1
        BY DEF NoSearch, SearchType
    <2>2. SearchesType
        BY <2>1, PathLength DEF SearchesType
    <2>3. TypeInv
        <3>1. FileType
            BY FilesAtFirst
        <3>2. LoadType
            BY DEF LoadType, NoCerts
        <3>3. NoCert \in [pair : Nat, load : 0 .. MaxLoads]
            BY DEF NoCert
        <3>4. StoreType
            BY <3>3 DEF StoreType
        <3>5. QED
            BY <2>2, <3>1, <3>2, <3>4 DEF TypeInv
    <2>4. InService = {}
        BY DEF InService
    <2>5. \A c \in Clients : /\ handshake[c].pc = "idle" /\ handshake[c].since = 0
                             /\ handshake[c].kept = {}
        BY DEF NoSearch
    <2>6. UpdateInv /\ LoadInv /\ SearchInv /\ DirectoryInv
        BY <2>4, <2>5 DEF UpdateInv, LoadInv, Completed, SearchInv, DirectoryInv
    <2>7. QED
        BY <2>3, <2>6 DEF CertificatesInv
<1>2. CertificatesInv /\ [Next]_vars => CertificatesInv'
    BY TypeStep, UpdateStep, LoadStep, SearchStep, DirectoryStep DEF CertificatesInv
<1>3. QED
    BY <1>1, <1>2, PTL DEF Spec

\* Type correctness.
THEOREM TypeCorrect == Spec => []TypeOK
<1>1. CertificatesInv => TypeOK
    <2> SUFFICES ASSUME CertificatesInv
                 PROVE  TypeOK
        OBVIOUS
    <2>1. \A h \in Hosts : {crt[h], key[h], certs[h]} \subseteq Pairs(h)
        BY CertificatesAssumption DEF CertificatesInv, TypeInv, FileType, LoadType, Pairs
    <2>2. QED
        BY <2>1 DEF CertificatesInv, TypeInv, FileType, LoadType, StoreType, SearchesType,
            SearchType, TypeOK
<1>2. QED
    BY <1>1, CertificatesInvariant, PTL

\* No search misses a host that stays in service, at whatever step of however
\* many reloads it looks.
THEOREM KeptHostsAnswer == Spec => []KeptHostAnswers
<1>1. CertificatesInv => KeptHostAnswers
    BY DEF CertificatesInv, SearchInv, KeptHostAnswers
<1>2. QED
    BY <1>1, CertificatesInvariant, PTL

\* No handshake gets a certificate that was replaced or withdrawn before it began.
THEOREM RetiredStayRetired == Spec => []NeverRetired
<1>1. CertificatesInv => NeverRetired
    BY DEF CertificatesInv, LoadInv, NeverRetired
<1>2. QED
    BY <1>1, CertificatesInvariant, PTL

\* A reload under which no file changed serves exactly the whole pairs on disk.
THEOREM DirectoryIsServed == Spec => []StoreMirrorsDirectory
<1>1. CertificatesInv => StoreMirrorsDirectory
    BY DEF CertificatesInv, DirectoryInv, StoreMirrorsDirectory, OnDisk
<1>2. QED
    BY <1>1, CertificatesInvariant, PTL

-------------------------------------------------------------------------------
(* Which load a certificate in service is of. *)

\* While UpdateCerts is at it, what it has not come to is of the load before, and
\* what it has added came after the last deletion.
GenerationInv ==
    /\ \A h \in InService : store[h].pair # 0
    /\ pc # "update" => \A h \in InService : store[h].load = Completed
    /\ pc = "update" =>
        \A h \in InService :
            IF h \in stale \cup fresh
            THEN store[h].load = loads - 1
            ELSE stale = {} /\ store[h].load = loads

\* Every step keeps the loads in service apart.
LEMMA GenerationStep ==
    TypeInv /\ UpdateInv /\ LoadInv /\ GenerationInv /\ [Next]_vars => GenerationInv'
<1> SUFFICES ASSUME TypeInv, UpdateInv, LoadInv, GenerationInv, [Next]_vars
             PROVE  GenerationInv'
    OBVIOUS
<1> USE DEF GenerationInv, Completed
<1>0. loads \in Nat /\ StoreType
    BY CertificatesAssumption DEF TypeInv, StoreType
<1>1. CASE \/ \E h \in Hosts : WriteFile(h)
           \/ \E c \in Clients : Handshake(c)
           \/ UNCHANGED vars
    BY <1>1, Aside DEF updating, InService
<1>2. CASE Load
    <2>1. UNCHANGED store /\ pc # "update" /\ pc' # "update"
        BY <1>2 DEF Load, ListDir, ReadCrt, ReadKey, LoadRejected
    <2>2. Completed' = Completed
        BY <1>0, <1>2 DEF Load, ListDir, ReadCrt, ReadKey, LoadRejected
    <2>3. QED
        BY <2>1, <2>2 DEF InService
<1>3. CASE TakeHosts
    <2>1. \A h \in InService : h \in Stale \cup Loaded
        BY DEF Stale
    <2>2. QED
        BY <1>3, <2>1 DEF TakeHosts, InService
<1>4. CASE \E h \in Hosts : Delete(h)
    <2> PICK h \in Hosts : Delete(h)
        BY <1>4
    <2>1. /\ pc = "update" /\ h \in stale /\ stale' = stale \ {h}
          /\ store'[h] = NoCert /\ \A g \in Hosts \ {h} : store'[g] = store[g]
          /\ UNCHANGED <<pc, fresh, loads>>
        BY <1>0 DEF Delete, StoreType
    <2>2. ASSUME NEW g \in InService'
          PROVE  /\ store'[g].pair # 0
                 /\ g \in (stale \cup fresh)' /\ store'[g].load = loads - 1
        <3>1. g # h /\ g \in InService /\ store'[g] = store[g]
            BY <2>1 DEF InService
        <3>2. g \in stale \cup fresh
            BY <2>1, <3>1
        <3>3. QED
            BY <2>1, <3>1, <3>2
    <2>3. QED
        BY <2>1, <2>2
<1>5. CASE \E h \in Hosts : Add(h)
    <2> PICK h \in Hosts : Add(h)
        BY <1>5
    <2>1. /\ pc = "update" /\ stale = {} /\ h \in fresh /\ fresh' = fresh \ {h}
          /\ store'[h] = [pair |-> certs[h], load |-> loads]
          /\ \A g \in Hosts \ {h} : store'[g] = store[g]
          /\ UNCHANGED <<pc, stale, loads>>
        BY <1>0 DEF Add, StoreType
    <2>2. certs[h] # 0
        BY <2>1 DEF UpdateInv, Loaded
    <2>3. ASSUME NEW g \in InService'
          PROVE  /\ store'[g].pair # 0
                 /\ IF g \in (stale \cup fresh)'
                    THEN store'[g].load = loads - 1
                    ELSE stale' = {} /\ store'[g].load = loads
        <3>1. CASE g = h
            BY <2>1, <2>2, <3>1
        <3>2. CASE g # h
            BY <2>1, <3>2 DEF InService
        <3>3. QED
            BY <3>1, <3>2
    <2>4. QED
        BY <2>1, <2>3
<1>6. CASE Updated
    <2>1. /\ UNCHANGED <<store, loads>> /\ pc = "update" /\ pc' = "idle"
          /\ stale = {} /\ fresh = {}
        BY <1>6 DEF Updated
    <2>2. QED
        BY <2>1 DEF InService
<1>7. QED
    BY <1>1, <1>2, <1>3, <1>4, <1>5, <1>6 DEF Next, Update

\* What is in service is of one load between the updates, and of the load before
\* or the one under way in an update, with the hosts left out gone before the
\* first of the new certificates: however many hosts there are.
THEOREM OneLoad == Spec => []OneLoadInService
<1>1. Init => GenerationInv
    BY DEF Init, GenerationInv, InService
<1>2. CertificatesInv /\ GenerationInv /\ [Next]_vars => GenerationInv'
    BY GenerationStep DEF CertificatesInv
<1>3. ASSUME CertificatesInv, GenerationInv
      PROVE  OneLoadInService
    <2>1. CASE pc # "update"
        BY <1>3, <2>1 DEF GenerationInv, Completed, OneLoadInService
    <2>2. CASE pc = "update"
        <3>1. loads \in Nat
            BY <1>3, CertificatesAssumption DEF CertificatesInv, TypeInv, StoreType
        <3>2. ASSUME stale = {}, NEW g \in InService
              PROVE  g \in Loaded
            <4>1. CASE g \in fresh
                BY <1>3, <2>2, <4>1 DEF CertificatesInv, UpdateInv
            <4>2. CASE g \notin fresh
                BY <1>3, <2>2, <3>2, <4>2
                DEF CertificatesInv, UpdateInv, GenerationInv, InService, Loaded
            <4>3. QED
                BY <4>1, <4>2
        <3>3. ASSUME NEW h \in InService
              PROVE  /\ store[h].load \in {loads - 1, loads}
                     /\ store[h].load = loads => stale = {}
            BY <1>3, <2>2, <3>1 DEF GenerationInv
        <3>4. QED
            BY <2>2, <3>2, <3>3 DEF OneLoadInService
    <2>3. QED
        BY <2>1, <2>2
<1>4. QED
    BY <1>1, <1>2, <1>3, CertificatesInvariant, PTL DEF Spec
===============================================================================
