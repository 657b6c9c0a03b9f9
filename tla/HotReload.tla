------------------------------- MODULE HotReload ------------------------------
(***************************************************************************)
(* traffic_router.go, loadconfig/loadconfig.go with what it reads, and     *)
(* srvsighupreload/server.go with the two ptr.go: how a configuration gets *)
(* into service, at startup and on SIGHUP.                                 *)
(*                                                                         *)
(* A configuration has five parts, each a file or the directory of         *)
(* certificates, which LoadConfig reads one after the other while an       *)
(* operator may be writing them.  A part is the number of the edit that    *)
(* wrote it and what it makes of the load.  What is made from one load     *)
(* (Shared, certificates, the pollers' targets) carries the edit each part *)
(* was read at, 0 standing for none.  The DNS and HTTP servers load their  *)
(* ServerPtr once per request, so whole requests are answered from what    *)
(* dns and http say.  The goroutines of the pollers are as module          *)
(* PollService has them: in a Poll or not, which is what a Stop waits for. *)
(* All other steps but the environment's are those of the main goroutine.  *)
(*                                                                         *)
(* Two constants say how the code stands; both are FALSE for the source.   *)
(***************************************************************************)
EXTENDS Naturals

CONSTANTS
    CellsAllocated, \* Shared.crStates and Shared.crConfig point somewhere when
                    \* NewShared stores through them; in the source they are nil
    StopSends,      \* Poller.Stop can be answered, see module Poller
    Written,        \* bound: what the operator may write, by part
    MaxEdits        \* bound: the number of the last edit; 1 is the files at startup

Parts == {"config", "czf", "crconfig", "crstates", "certs"}
Pollers == {"statesPoller", "configPoller"}

\* What a part can be.  A "broken" one cannot be opened or decoded, or as a
\* directory listed; the networks of a czf may not parse; NewShared gives up on a
\* crconfig without a domain name, and panics on one with a malformed entry
\* (SharedData!BuildPanics).  The config names the pollers it has an interval for.
Kinds == {"good", "broken", "badNetwork", "noDomain", "poison"}

Contents(p) ==
    [kind : {"good", "broken"} \cup {k \in {"badNetwork"} : p = "czf"}
                                \cup {k \in {"noDomain", "poison"} : p = "crconfig"},
     polls : {polls \in SUBSET Pollers : p = "config" \/ polls = {}}]

ASSUME HotReloadAssumption ==
    /\ CellsAllocated \in BOOLEAN
    /\ StopSends \in BOOLEAN
    /\ \A p \in Parts : Written[p] \subseteq Contents(p)
    /\ MaxEdits \in Nat \ {0}

VARIABLES
    proc,       \* "running", "exited" (os.Exit, or killed by SIGHUP) or "crashed"
    pc,         \* what the main goroutine does next; a part is one LoadConfig reads
    file,       \* the parts on disk
    edits,      \* how many edits there were
    read,       \* what the load under way has read
    signals,    \* SIGHUPs in Listen's channel
    dns, http,  \* the configuration each ServerPtr's Shared was made from
    certs,      \* that of the certificates in the CertGetter
    target,     \* that of the Shared each poller stores to
    poller,     \* each Poller: "off", or started and in its select ("idle") or in a
                \* Poll ("busy")
    asked       \* history: the number of edits at the latest SIGHUP

disk == <<file, edits>>
services == <<dns, http, certs, target, poller>>
vars == <<proc, pc, disk, read, signals, services, asked>>

Nothing == [p \in Parts |-> 0]
Unread == [p \in Parts |-> [edit |-> 0, kind |-> "broken", polls |-> {}]]

Version == [edit : Nat, kind : Kinds, polls : SUBSET Pollers]

\* What edit n may write to a part.
Edition(p, n) == {[edit |-> n, kind |-> c.kind, polls |-> c.polls] : c \in Written[p]}

\* The edits some files were written by.
Edits(files) == [p \in Parts |-> files[p].edit]

Init ==
    /\ proc = "running"
    /\ pc = "config"
    /\ file \in [Parts -> UNION {Edition(p, 1) : p \in Parts}]
    /\ \A p \in Parts : file[p] \in Edition(p, 1)
    /\ edits = 1
    /\ read = Unread
    /\ signals = 0
    /\ dns = Nothing /\ http = Nothing /\ certs = Nothing
    /\ target = [p \in Pollers |-> Nothing]
    /\ poller = [p \in Pollers |-> "off"]
    /\ asked = 0

\* main has not got to its servers.
Booting == dns = Nothing

-------------------------------------------------------------------------------
(* The environment. *)

\* An operator writes one of the files.
EditFile(p) ==
    /\ proc = "running"
    /\ edits < MaxEdits
    /\ edits' = edits + 1
    /\ \E version \in Edition(p, edits + 1) : file' = [file EXCEPT ![p] = version]
    /\ UNCHANGED <<proc, pc, read, signals, services, asked>>

\* Mutant: an unbuffered channel, on which Notify does not wait either.
DeliverUnbuffered == IF pc = "listen" THEN 1 ELSE signals

\* Mutant: every signal is queued.
DeliverQueued == signals + 1

\* signal.Notify sends without blocking on a channel with room for one.
Deliver == 1

\* Before Notify SIGHUP has its default effect and ends the process.
Sighup ==
    /\ proc = "running"
    /\ asked' = edits
    /\ IF Booting \/ pc = "serving"
       THEN proc' = "exited" /\ UNCHANGED signals
       ELSE signals' = Deliver /\ UNCHANGED proc
    /\ UNCHANGED <<pc, disk, read, services>>

-------------------------------------------------------------------------------
(* LoadConfig, called by main and by TryReloadConfig. *)

Running(at) == proc = "running" /\ pc = at

After(p) ==
    CASE p = "config"   -> "czf"
      [] p = "czf"      -> "crconfig"
      [] p = "crconfig" -> "crstates"
      [] p = "crstates" -> "certs"
      [] p = "certs"    -> "newShared"

\* The networks of the czf are parsed between the crstates and the certificates.
Loads(p) ==
    /\ file[p].kind # "broken"
    /\ p = "certs" => read["czf"].kind # "badNetwork"

Read(p) ==
    /\ Running(p)
    /\ Loads(p)
    /\ read' = [read EXCEPT ![p] = file[p]]
    /\ pc' = After(p)
    /\ UNCHANGED <<proc, disk, signals, services, asked>>

\* An error: main exits, a reload is over.
GiveUp ==
    /\ IF Booting
       THEN proc' = "exited" /\ UNCHANGED <<pc, read>>
       ELSE pc' = "listen" /\ read' = Unread /\ UNCHANGED proc
    /\ UNCHANGED <<disk, signals, services, asked>>

ReadFails(p) ==
    /\ Running(p)
    /\ ~Loads(p)
    /\ GiveUp

\* NewShared gets to its end.
SharedIsMade(kind) == kind = "good" /\ CellsAllocated

\* NewShared returns nil.
NoShared ==
    /\ Running("newShared")
    /\ read["crconfig"].kind = "noDomain"
    /\ GiveUp

NewSharedPanics ==
    /\ Running("newShared")
    /\ read["crconfig"].kind # "noDomain"
    /\ ~SharedIsMade(read["crconfig"].kind)
    /\ proc' = "crashed"
    /\ UNCHANGED <<pc, disk, read, signals, services, asked>>

\* The rest of main up to Listen.  The CertGetter is new and empty.  A poller
\* without interval does not start, which main takes for fatal.
MainServes ==
    /\ read["config"].polls = Pollers
    /\ pc' = "serving"
    /\ dns' = Edits(read)
    /\ http' = Edits(read)
    /\ target' = [p \in Pollers |-> Edits(read)]
    /\ poller' = [p \in Pollers |-> "idle"]
    /\ read' = Unread
    /\ UNCHANGED <<proc, disk, signals, certs, asked>>

MainExits ==
    /\ read["config"].polls # Pollers
    /\ GiveUp

\* LoadConfig returns.
Loaded ==
    /\ Running("newShared")
    /\ SharedIsMade(read["crconfig"].kind)
    /\ \/ Booting /\ (MainServes \/ MainExits)
       \/ /\ ~Booting
          /\ pc' = "updateCerts"
          /\ UNCHANGED <<proc, disk, read, signals, services, asked>>

LoadConfig ==
    \/ \E p \in Parts : Read(p)
    \/ \E p \in Parts : ReadFails(p)
    \/ NoShared
    \/ NewSharedPanics
    \/ Loaded

-------------------------------------------------------------------------------
(* Listen and TryReloadConfig. *)

\* Listen installs its channel.
Listen ==
    /\ Running("serving")
    /\ pc' = "listen"
    /\ UNCHANGED <<proc, disk, read, signals, services, asked>>

TakeSignal ==
    /\ Running("listen")
    /\ signals = 1
    /\ signals' = 0
    /\ pc' = "config"
    /\ UNCHANGED <<proc, disk, read, services, asked>>

\* The certificates, host by host: see module Certificates.
UpdateCerts ==
    /\ Running("updateCerts")
    /\ certs' = Edits(read)
    /\ pc' = "statesPoller"
    /\ UNCHANGED <<proc, disk, read, signals, dns, http, target, poller, asked>>

\* Mutant: the Poller is restarted around the old Shared.
OldTarget(p) == target[p]

\* crStatesIPoller.Shared = shared
NewTarget(p) == Edits(read)

\* A call of Stop returns: at once with ErrNotStarted, or when the goroutine, back
\* in its select from the Poll it may have been in, answers it, if it can.
StopMayReturn(p) ==
    \/ poller[p] = "off"
    \/ StopSends /\ poller[p] = "idle"

\* Stop, the assignments, Start: up to where Stop returns main only waits, so that
\* all is one step.  Start without an interval leaves the poller stopped.
UpdatePoller(p, next) ==
    /\ Running(p)
    /\ StopMayReturn(p)
    /\ target' = [target EXCEPT ![p] = NewTarget(p)]
    /\ poller' = [poller EXCEPT ![p] = IF p \in read["config"].polls THEN "idle" ELSE "off"]
    /\ pc' = next
    /\ UNCHANGED <<proc, disk, read, signals, dns, http, certs, asked>>

\* Mutant: dnsSrv.Set is missing, the DNS server stays on its old Server.
SetDNSForgotten ==
    /\ Running("setDNS")
    /\ pc' = "setHTTP"
    /\ UNCHANGED <<proc, disk, read, signals, services, asked>>

SetDNS ==
    /\ Running("setDNS")
    /\ dns' = Edits(read)
    /\ pc' = "setHTTP"
    /\ UNCHANGED <<proc, disk, read, signals, http, certs, target, poller, asked>>

\* Mutant: httpSrv.Set is missing.
SetHTTPForgotten ==
    /\ Running("setHTTP")
    /\ pc' = "listen"
    /\ read' = Unread
    /\ UNCHANGED <<proc, disk, signals, services, asked>>

SetHTTP ==
    /\ Running("setHTTP")
    /\ http' = Edits(read)
    /\ pc' = "listen"
    /\ read' = Unread
    /\ UNCHANGED <<proc, disk, signals, dns, certs, target, poller, asked>>

-------------------------------------------------------------------------------
(* The goroutines of the pollers, see modules Poller and MonitorPoll. *)

\* The timer of a poller ticks.
PollBegins(p) ==
    /\ proc = "running"
    /\ poller[p] = "idle"
    /\ poller' = [poller EXCEPT ![p] = "busy"]
    /\ UNCHANGED <<proc, pc, disk, read, signals, dns, http, certs, target, asked>>

\* Poll returns; what it stored is in the Shared it is the target of.
PollEnds(p) ==
    /\ proc = "running"
    /\ poller[p] = "busy"
    /\ poller' = [poller EXCEPT ![p] = "idle"]
    /\ UNCHANGED <<proc, pc, disk, read, signals, dns, http, certs, target, asked>>

-------------------------------------------------------------------------------
UpdatePollers ==
    \/ UpdatePoller("statesPoller", "configPoller")
    \/ UpdatePoller("configPoller", "setDNS")

\* What main does without waiting for another goroutine.
MainStep ==
    \/ LoadConfig
    \/ Listen
    \/ TakeSignal
    \/ UpdateCerts
    \/ SetDNS
    \/ SetHTTP

Next ==
    \/ \E p \in Parts : EditFile(p)
    \/ Sighup
    \/ \E p \in Pollers : PollBegins(p) \/ PollEnds(p)
    \/ MainStep
    \/ UpdatePollers

Spec == Init /\ [][Next]_vars

\* The main goroutine is scheduled.  A loop that keeps coming back to its select
\* meets a waiting Stop: select chooses among the ready cases at random.
Scheduling == WF_vars(MainStep) /\ SF_vars(UpdatePollers)

\* A Poll ends.  Not a fact about the code: a Poll whose monitors all fail goes on
\* (poller.go:49), and http.Get has no timeout.  It is what MonitorPoll!PollEnds
\* concludes from a monitor that answers well and requests that return, and the
\* hypothesis under which liveness is judged here.
PollsReturn == \A p \in Pollers : WF_vars(PollEnds(p))

FairSpec == Spec /\ Scheduling /\ PollsReturn

-------------------------------------------------------------------------------
(* Properties. *)

Good == \A p \in Parts : file[p].kind = "good"
OnDisk == Edits(file)

TypeOK ==
    /\ proc \in {"running", "exited", "crashed"}
    /\ pc \in Parts \cup Pollers \cup
              {"newShared", "serving", "listen", "updateCerts", "setDNS", "setHTTP"}
    /\ file \in [Parts -> Version] /\ read \in [Parts -> Version]
    /\ edits \in 1 .. MaxEdits
    /\ signals \in {0, 1}
    /\ {dns, http, certs} \subseteq [Parts -> Nat]
    /\ target \in [Pollers -> [Parts -> Nat]]
    /\ poller \in [Pollers -> {"off", "idle", "busy"}]
    /\ asked \in 0 .. edits

\* No reload is lost, and none is torn: with no signal waiting and no file
\* written since the latest SIGHUP, files that load are in service exactly as
\* they are on disk, in both servers, in the pollers and in the certificates,
\* however many signals came, and whatever was written, while an earlier reload
\* was reading part by part.
NoReloadLost ==
    Running("listen") /\ signals = 0 /\ asked = edits /\ Good =>
        /\ dns = OnDisk /\ http = OnDisk /\ certs = OnDisk
        /\ \A p \in Pollers : target[p] = OnDisk

\* Between reloads everything in service is of one load: both servers, the Shared
\* each poller stores to, and the certificates once any are there.  A poller
\* left on an old Shared would feed data nobody reads.
OneGenerationInService ==
    pc = "listen" =>
        /\ http = dns
        /\ \A p \in Pollers : target[p] = dns
        /\ certs \in {Nothing, dns}

\* A SIGHUP is honoured: files that load and that it finds get into both servers,
\* unless newer files are written or the process ends, however many signals, and
\* reloads of files that did not load, come before, and whatever Poll the reload
\* finds under way, if only each Poll ends (PollsReturn).
SighupServed ==
    proc = "running" /\ asked = edits /\ Good
        ~> \/ dns = OnDisk /\ http = OnDisk
           \/ asked # edits
           \/ proc # "running"

\* No request is answered from an older part after a newer one, although a load
\* may mix parts of several edits: the servers only ever move forward.
ServersMoveForward ==
    [][\A p \in Parts : dns'[p] >= dns[p] /\ http'[p] >= http[p] /\ dns'[p] >= http'[p]]_vars

\* Those who send requests see the service of module ConfigService: a reload that
\* has moved DNS gets HTTP to follow, before it moves DNS again.
Service == INSTANCE ConfigService WITH up <- proc = "running"
ServesAsPromised == Service!FairSpec

-------------------------------------------------------------------------------
(* What the documentation says and the code does not do. *)

\* srvsighupreload/server.go:54: TryReloadConfig attempts to "set the server
\* pointers to its reloaded state": a reload that has loaded gets there.
ReloadReachesServers == pc = "updateCerts" ~> pc = "listen"

\* srvsighupreload/server.go:55: "On error, logs but leaves the servers serving
\* what they were before, does not crash or stop."
ReloadDoesNotCrash == ~Booting => proc # "crashed"
===============================================================================
