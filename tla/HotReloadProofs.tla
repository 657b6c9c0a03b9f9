--------------------------- MODULE HotReloadProofs ----------------------------
(***************************************************************************)
(* Proofs about HotReload, for any number of edits, whatever they write,   *)
(* pointer cells that exist or not, and a Stop that is answered or not.    *)
(*                                                                         *)
(* The argument follows the main goroutine.  What is in service is of one  *)
(* load up to UpdateCerts; from there on each step has moved its own       *)
(* service to what was read, and the steps to come have not (StageInv).    *)
(* What was read is never older than what is in service, part by part      *)
(* (OrderInv).  A SIGHUP that came after the last edit either still waits  *)
(* in the channel, or was taken before the first part was read, so that    *)
(* every part read since is as it is on disk (SignalInv).                  *)
(***************************************************************************)
EXTENDS HotReload, TLAPS

Loading == pc \in Parts \cup {"newShared"}

\* The steps of a reload that has loaded.
Applying == pc \in Pollers \cup {"updateCerts", "setDNS", "setHTTP"}

\* The parts LoadConfig has read when the main goroutine is at a step.
ReadAt(at) ==
    {p \in Parts :
        \/ p = "config"   /\ at \in {"czf", "crconfig", "crstates", "certs"}
        \/ p = "czf"      /\ at \in {"crconfig", "crstates", "certs"}
        \/ p = "crconfig" /\ at \in {"crstates", "certs"}
        \/ p = "crstates" /\ at = "certs"
        \/ at \in Pollers \cup {"newShared", "updateCerts", "setDNS", "setHTTP"}}

BootInv ==
    /\ Booting => /\ Loading
                  /\ signals = 0
                  /\ proc = "running" => asked = 0
    /\ pc = "serving" /\ proc = "running" => asked = 0

\* How far the reload has got, service by service.
StageInv ==
    /\ pc = "setHTTP" => dns = Edits(read)
    /\ pc # "setHTTP" => http = dns
    /\ pc \in Pollers \cup {"setDNS", "setHTTP"} => certs = Edits(read)
    /\ pc \notin Pollers \cup {"setDNS", "setHTTP"} => certs \in {Nothing, dns}
    /\ pc \in {"configPoller", "setDNS", "setHTTP"} => target["statesPoller"] = Edits(read)
    /\ pc \notin {"configPoller", "setDNS", "setHTTP"} => target["statesPoller"] = dns
    /\ pc \in {"setDNS", "setHTTP"} => target["configPoller"] = Edits(read)
    /\ pc \notin {"setDNS", "setHTTP"} => target["configPoller"] = dns

\* Nothing in service is newer than what was read since, or is on disk.
OrderInv ==
    \A p \in Parts :
        /\ http[p] <= dns[p]
        /\ dns[p] <= file[p].edit
        /\ 0 < file[p].edit
        /\ file[p].edit <= edits
        /\ p \in ReadAt(pc) => /\ dns[p] <= read[p].edit
                               /\ 0 < read[p].edit
                               /\ read[p].edit <= file[p].edit

\* What the latest SIGHUP asked for is still to come, is being read, or is served.
SignalInv ==
    proc = "running" /\ signals = 0 /\ asked = edits =>
        /\ \A p \in ReadAt(pc) : read[p] = file[p]
        /\ pc = "listen" /\ Good => dns = OnDisk /\ certs = OnDisk

ReloadInv == TypeOK /\ BootInv /\ StageInv /\ OrderInv /\ SignalInv

\* How a load ends: with an error, at startup, in a reload.
LoadStops ==
    \/ \E p \in Parts : ReadFails(p)
    \/ NoShared
    \/ Loaded /\ Booting /\ MainExits
Starts == Loaded /\ Booting /\ MainServes
Returns == Loaded /\ ~Booting

\* A Poll begins or ends.
PollMoves == \E p \in Pollers : PollBegins(p) \/ PollEnds(p)

-------------------------------------------------------------------------------
(* The operators. *)

\* What is written to a part is well-formed, and numbered by the edit.
LEMMA EditionType ==
    ASSUME NEW p \in Parts, NEW n \in Nat, NEW version \in Edition(p, n)
    PROVE  version \in Version /\ version.edit = n
<1>1. PICK c \in Written[p] : version = [edit |-> n, kind |-> c.kind, polls |-> c.polls]
    BY DEF Edition
<1>2. c \in Contents(p)
    BY HotReloadAssumption
<1>3. c.kind \in Kinds /\ c.polls \in SUBSET Pollers
    BY <1>2 DEF Contents, Kinds
<1>4. QED
    BY <1>1, <1>3 DEF Version

\* LoadConfig reads the parts in their order.
LEMMA ReadInOrder ==
    ASSUME NEW p \in Parts
    PROVE  /\ After(p) \in Parts \cup {"newShared"}
           /\ ReadAt(After(p)) = ReadAt(p) \cup {p}
           /\ p \notin ReadAt(p)
BY DEF Parts, After, ReadAt, Pollers

\* Nothing is read yet before the first part, nor outside of a load.
LEMMA ReadNothing == \A at \in {"config", "serving", "listen"} : ReadAt(at) = {}
BY DEF ReadAt, Parts, Pollers

\* Nothing more is read once the last part is.
LEMMA ReadAll ==
    \A at \in Pollers \cup {"newShared", "updateCerts", "setDNS", "setHTTP"} :
        ReadAt(at) = Parts
BY DEF ReadAt, Parts, Pollers

\* The edits some files were written by.
LEMMA EditsType ==
    ASSUME NEW files \in [Parts -> Version]
    PROVE  /\ Edits(files) \in [Parts -> Nat]
           /\ \A p \in Parts : Edits(files)[p] = files[p].edit
BY DEF Edits, Version

\* A read is of a part LoadConfig has got to; an error ends the load before
\* anything in service changes, and only if some part is not good.
LEMMA LoadEnds ==
    ASSUME TypeOK, LoadStops
    PROVE  /\ GiveUp
           /\ Loading
           /\ proc = "running"
           /\ ~Booting => \E p \in Parts :
                \/ file[p].kind # "good"
                \/ p \in ReadAt(pc) /\ read[p].kind # "good"
<1>1. CASE \E p \in Parts : ReadFails(p)
    <2> PICK p \in Parts : ReadFails(p)
        BY <1>1
    <2>1. pc = p /\ proc = "running" /\ GiveUp /\ ~Loads(p)
        BY DEF ReadFails, Running
    <2>2. CASE file[p].kind = "broken"
        <3>1. file[p].kind # "good"
            BY <2>2
        <3>2. QED
            BY <2>1, <3>1 DEF Loading
    <2>3. CASE p = "certs" /\ read["czf"].kind = "badNetwork"
        <3>1. "czf" \in Parts /\ "czf" \in ReadAt("certs")
            BY DEF Parts, ReadAt
        <3>2. QED
            BY <2>1, <2>3, <3>1 DEF Loading
    <2>4. QED
        BY <2>1, <2>2, <2>3 DEF Loads
<1>2. CASE NoShared
    <2>1. "crconfig" \in Parts /\ "crconfig" \in ReadAt("newShared")
        BY DEF Parts, ReadAt, Pollers
    <2>2. QED
        BY <1>2, <2>1 DEF NoShared, Running, Loading
<1>3. CASE Loaded /\ Booting /\ MainExits
    BY <1>3 DEF Loaded, MainExits, Running, Loading
<1>4. QED
    BY <1>1, <1>2, <1>3 DEF LoadStops

-------------------------------------------------------------------------------
(* The steps, one lemma for each part of the invariant. *)

\* What a step may be.
LEMMA Steps ==
    [Next]_vars =>
        \/ \E p \in Parts : EditFile(p)
        \/ Sighup
        \/ PollMoves
        \/ \E p \in Parts : Read(p)
        \/ LoadStops \/ NewSharedPanics \/ Starts \/ Returns
        \/ Listen \/ TakeSignal
        \/ UpdateCerts
        \/ UpdatePoller("statesPoller", "configPoller")
        \/ UpdatePoller("configPoller", "setDNS")
        \/ SetDNS \/ SetHTTP
        \/ UNCHANGED vars
<1>1. Loaded => LoadStops \/ Starts \/ Returns
    BY DEF Loaded, LoadStops, Starts, Returns
<1>2. NoShared => LoadStops
    BY DEF LoadStops
<1>3. (\E p \in Parts : ReadFails(p)) => LoadStops
    BY DEF LoadStops
<1>4. QED
    BY <1>1, <1>2, <1>3 DEF Next, MainStep, LoadConfig, UpdatePollers, PollMoves

\* Every step keeps the types.
LEMMA TypeStep == TypeOK /\ [Next]_vars => TypeOK'
<1> SUFFICES ASSUME TypeOK, [Next]_vars
             PROVE  TypeOK'
    OBVIOUS
<1> USE DEF TypeOK
<1>1. Edits(read) \in [Parts -> Nat]
    BY EditsType
<1>2. Unread \in [Parts -> Version]
    BY DEF Unread, Version, Kinds
<1>3. CASE \E p \in Parts : EditFile(p)
    <2> PICK p \in Parts : EditFile(p)
        BY <1>3
    <2>1. PICK version \in Edition(p, edits + 1) : file' = [file EXCEPT ![p] = version]
        BY DEF EditFile
    <2>2. edits \in Nat /\ edits < MaxEdits /\ MaxEdits \in Nat
        BY HotReloadAssumption DEF EditFile
    <2>3. version \in Version
        BY <2>2, EditionType
    <2>4. edits' \in 1 .. MaxEdits /\ asked \in 0 .. edits'
        BY <2>2 DEF EditFile, services
    <2>5. QED
        BY <2>1, <2>3, <2>4 DEF EditFile, services
<1>4. CASE Sighup
    BY <1>4 DEF Sighup, Deliver, services, disk
<1>5. CASE \E p \in Parts : Read(p)
    <2> PICK p \in Parts : Read(p)
        BY <1>5
    <2>1. pc' \in Parts \cup {"newShared"}
        BY ReadInOrder DEF Read
    <2>2. QED
        BY <2>1 DEF Read, services, disk
<1>6. CASE LoadStops
    <2>1. GiveUp
        BY <1>6, LoadEnds
    <2>2. QED
        BY <2>1, <1>2 DEF GiveUp, services, disk
<1>7. CASE NewSharedPanics
    BY <1>7 DEF NewSharedPanics, services, disk
<1>8. CASE Starts
    BY <1>8, <1>1, <1>2 DEF Starts, Loaded, MainServes, disk
<1>9. CASE Returns
    BY <1>9 DEF Returns, Loaded, services, disk
<1>10. CASE Listen
    BY <1>10 DEF Listen, services, disk
<1>11. CASE TakeSignal
    BY <1>11 DEF TakeSignal, services, disk, Parts
<1>12. CASE UpdateCerts
    BY <1>12, <1>1 DEF UpdateCerts, disk, Pollers
<1>13. CASE UpdatePoller("statesPoller", "configPoller")
    BY <1>13, <1>1 DEF UpdatePoller, NewTarget, disk, Pollers
<1>14. CASE UpdatePoller("configPoller", "setDNS")
    BY <1>14, <1>1 DEF UpdatePoller, NewTarget, disk, Pollers
<1>15. CASE SetDNS
    BY <1>15, <1>1 DEF SetDNS, disk
<1>16. CASE SetHTTP
    BY <1>16, <1>1, <1>2 DEF SetHTTP, disk
<1>17. CASE UNCHANGED vars
    BY <1>17 DEF vars, services, disk
<1>18. CASE PollMoves
    BY <1>18 DEF PollMoves, PollBegins, PollEnds, disk
<1>19. QED
    BY <1>3, <1>4, <1>5, <1>6, <1>7, <1>8, <1>9, <1>10, <1>11, <1>12, <1>13, <1>14, <1>15,
       <1>16, <1>17, <1>18, Steps

\* A SIGHUP before Listen ends the process.
LEMMA BootStep ==
    TypeOK /\ BootInv /\ OrderInv /\ [Next]_vars => BootInv'
<1> SUFFICES ASSUME TypeOK, BootInv, OrderInv, [Next]_vars
             PROVE  BootInv'
    OBVIOUS
<1> USE DEF BootInv, Booting, Loading
<1>1. pc \in Pollers \cup {"newShared", "updateCerts", "setDNS", "setHTTP"}
        => Edits(read) # Nothing
    <2> SUFFICES ASSUME pc \in Pollers \cup {"newShared", "updateCerts", "setDNS", "setHTTP"}
                 PROVE  Edits(read) # Nothing
        OBVIOUS
    <2>1. "czf" \in Parts /\ "czf" \in ReadAt(pc)
        BY ReadAll DEF Parts
    <2>2. Edits(read)["czf"] > 0
        BY <2>1, EditsType DEF OrderInv, TypeOK, Version
    <2>3. QED
        BY <2>1, <2>2 DEF Nothing
<1>2. CASE UNCHANGED <<proc, pc, dns, signals, asked>>
    BY <1>2
<1>3. CASE Sighup
    BY <1>3 DEF Sighup, Deliver, services
<1>4. CASE \E p \in Parts : Read(p)
    <2> PICK p \in Parts : Read(p)
        BY <1>4
    <2>1. pc' \in Parts \cup {"newShared"} /\ pc \in Parts
        BY ReadInOrder DEF Read, Running
    <2>2. pc' # "serving"
        BY <2>1 DEF Parts
    <2>3. QED
        BY <2>1, <2>2 DEF Read, Running, services
<1>5. CASE LoadStops
    <2>1. GiveUp /\ Loading /\ proc = "running"
        BY <1>5, LoadEnds
    <2>2. QED
        BY <2>1 DEF GiveUp, services
<1>6. CASE NewSharedPanics
    BY <1>6 DEF NewSharedPanics, Running, services
<1>7. CASE Starts
    BY <1>7, <1>1 DEF Starts, Loaded, MainServes, Running
<1>8. CASE Returns
    BY <1>8 DEF Returns, Loaded, Running, services
<1>9. CASE Listen
    BY <1>9 DEF Listen, Running, services, Parts
<1>10. CASE TakeSignal
    BY <1>10 DEF TakeSignal, Running, services, Parts
<1>11. CASE UpdateCerts \/ UpdatePoller("statesPoller", "configPoller")
            \/ UpdatePoller("configPoller", "setDNS")
    BY <1>11 DEF UpdateCerts, UpdatePoller, Running, Parts
<1>12. CASE SetDNS
    BY <1>12, <1>1 DEF SetDNS, Running, Parts
<1>13. CASE SetHTTP
    BY <1>13 DEF SetHTTP, Running, Parts
<1>14. QED
    BY <1>2, <1>3, <1>4, <1>5, <1>6, <1>7, <1>8, <1>9, <1>10, <1>11, <1>12, <1>13, Steps
    DEF EditFile, PollMoves, PollBegins, PollEnds, vars, services

\* Every step moves at most the service whose turn it is.
LEMMA StageStep == TypeOK /\ BootInv /\ StageInv /\ [Next]_vars => StageInv'
<1> SUFFICES ASSUME TypeOK, BootInv, StageInv, [Next]_vars
             PROVE  StageInv'
    OBVIOUS
<1> USE DEF StageInv, Parts, Pollers
<1>1. CASE UNCHANGED <<pc, read, dns, http, certs, target>>
    BY <1>1 DEF Edits
<1>2. CASE \E p \in Parts : Read(p)
    <2> PICK p \in Parts : Read(p)
        BY <1>2
    <2>1. pc' \in Parts \cup {"newShared"} /\ pc = p
        BY ReadInOrder DEF Read, Running
    <2>2. QED
        BY <2>1 DEF Read, services
<1>3. CASE LoadStops
    <2>1. GiveUp /\ Loading
        BY <1>3, LoadEnds
    <2>2. QED
        BY <2>1 DEF GiveUp, Loading, services
<1>4. CASE Starts
    BY <1>4 DEF Starts, Loaded, MainServes, Running, Booting
<1>5. CASE Returns
    BY <1>5 DEF Returns, Loaded, Running, services, Edits
<1>6. CASE Listen
    BY <1>6 DEF Listen, Running, services
<1>7. CASE TakeSignal
    BY <1>7 DEF TakeSignal, Running, services
<1>8. CASE UpdateCerts
    BY <1>8 DEF UpdateCerts, Running, Edits
<1>9. CASE UpdatePoller("statesPoller", "configPoller")
    BY <1>9 DEF UpdatePoller, NewTarget, Running, Edits, TypeOK
<1>10. CASE UpdatePoller("configPoller", "setDNS")
    BY <1>10 DEF UpdatePoller, NewTarget, Running, Edits, TypeOK
<1>11. CASE SetDNS
    BY <1>11 DEF SetDNS, Running, Edits
<1>12. CASE SetHTTP
    BY <1>12 DEF SetHTTP, Running
<1>13. QED
    BY <1>1, <1>2, <1>3, <1>4, <1>5, <1>6, <1>7, <1>8, <1>9, <1>10, <1>11, <1>12, Steps
    DEF EditFile, Sighup, PollMoves, PollBegins, PollEnds, NewSharedPanics, vars, services

\* Every step keeps what is in service no newer than what it was made from.
LEMMA OrderStep ==
    TypeOK /\ BootInv /\ StageInv /\ OrderInv /\ [Next]_vars => OrderInv'
<1> SUFFICES ASSUME TypeOK, BootInv, StageInv, OrderInv, [Next]_vars
             PROVE  OrderInv'
    OBVIOUS
<1> USE DEF OrderInv
<1> DEFINE Ordered(p) == /\ http[p] <= dns[p]
                         /\ dns[p] <= file[p].edit
                         /\ 0 < file[p].edit
                         /\ file[p].edit <= edits
           Fresh(p) == /\ dns[p] <= read[p].edit
                       /\ 0 < read[p].edit
                       /\ read[p].edit <= file[p].edit
<1>1. \A p \in Parts : /\ http[p] \in Nat /\ dns[p] \in Nat
                       /\ file[p].edit \in Nat /\ read[p].edit \in Nat
                       /\ Edits(read)[p] = read[p].edit
    BY DEF TypeOK, Version, Edits
<1>2. edits \in Nat
    BY DEF TypeOK
<1>3. CASE UNCHANGED <<dns, http, file, edits>> /\ UNCHANGED read /\ ReadAt(pc)' \subseteq ReadAt(pc)
    BY <1>3
<1>4. CASE UNCHANGED <<dns, http, file, edits>> /\ ReadAt(pc)' = {}
    BY <1>4
<1>5. CASE \E p \in Parts : EditFile(p)
    <2> PICK p \in Parts : EditFile(p)
        BY <1>5
    <2>1. PICK version \in Edition(p, edits + 1) : file' = [file EXCEPT ![p] = version]
        BY DEF EditFile
    <2>2. version.edit = edits + 1
        BY <1>2, EditionType
    <2>3. edits' = edits + 1 /\ UNCHANGED <<pc, read, dns, http>>
        BY DEF EditFile, services
    <2>4. file'[p].edit = edits + 1 /\ \A q \in Parts \ {p} : file'[q] = file[q]
        BY <2>1, <2>2 DEF TypeOK
    <2>5. ASSUME NEW q \in Parts
          PROVE  file[q].edit <= file'[q].edit /\ file'[q].edit <= edits'
        BY <1>1, <1>2, <2>3, <2>4, <2>5
    <2>6. \A q \in Parts : file'[q].edit \in Nat
        BY <1>1, <1>2, <2>4
    <2>7. QED
        BY <1>1, <2>3, <2>5, <2>6
<1>6. CASE \E p \in Parts : Read(p)
    <2> PICK p \in Parts : Read(p)
        BY <1>6
    <2>1. /\ ReadAt(pc)' = ReadAt(pc) \cup {p}
          /\ UNCHANGED <<dns, http, file, edits>>
          /\ read' = [read EXCEPT ![p] = file[p]]
        BY ReadInOrder DEF Read, Running, services, disk
    <2>2. read'[p] = file[p] /\ \A q \in Parts \ {p} : read'[q] = read[q]
        BY <2>1 DEF TypeOK
    <2>3. QED
        BY <1>1, <2>1, <2>2
<1>7. CASE Starts
    <2>1. /\ pc = "newShared" /\ pc' = "serving"
          /\ dns' = Edits(read) /\ http' = Edits(read) /\ UNCHANGED <<file, edits>>
        BY <1>7 DEF Starts, Loaded, MainServes, Running, disk
    <2>2. ReadAt(pc) = Parts /\ ReadAt(pc)' = {}
        BY <2>1, ReadAll, ReadNothing
    <2>3. QED
        BY <1>1, <1>2, <2>1, <2>2
<1>8. CASE SetDNS
    <2>1. /\ pc = "setDNS" /\ pc' = "setHTTP"
          /\ dns' = Edits(read) /\ UNCHANGED <<file, edits, read, http>>
        BY <1>8 DEF SetDNS, Running, disk
    <2>2. ReadAt(pc) = Parts
        BY <2>1, ReadAll
    <2>3. QED
        BY <1>1, <1>2, <2>1, <2>2
<1>9. CASE SetHTTP
    <2>1. /\ pc = "setHTTP" /\ pc' = "listen"
          /\ http' = Edits(read) /\ UNCHANGED <<file, edits, dns>>
        BY <1>9 DEF SetHTTP, Running, disk
    <2>2. ReadAt(pc)' = {} /\ dns = Edits(read)
        BY <2>1, ReadNothing DEF StageInv
    <2>3. QED
        BY <1>1, <1>2, <2>1, <2>2
<1>10. CASE LoadStops
    <2>1. GiveUp /\ Loading
        BY <1>10, LoadEnds
    <2>2. CASE Booting
        <3>1. UNCHANGED <<pc, read, dns, http, file, edits>>
            BY <2>1, <2>2 DEF GiveUp, services, disk
        <3>2. QED
            BY <1>3, <3>1
    <2>3. CASE ~Booting
        <3>1. pc' = "listen" /\ UNCHANGED <<dns, http, file, edits>>
            BY <2>1, <2>3 DEF GiveUp, services, disk
        <3>2. QED
            BY <1>4, <3>1, ReadNothing
    <2>4. QED
        BY <2>2, <2>3
<1>11. CASE Returns
    BY <1>11, <1>3, ReadAll DEF Returns, Loaded, Running, services, disk
<1>12. CASE Listen
    BY <1>12, <1>4, ReadNothing DEF Listen, services, disk
<1>13. CASE TakeSignal
    BY <1>13, <1>4, ReadNothing DEF TakeSignal, services, disk
<1>14. CASE UpdateCerts
    BY <1>14, <1>3, ReadAll DEF UpdateCerts, Running, disk, Pollers
<1>15. CASE UpdatePoller("statesPoller", "configPoller")
    BY <1>15, <1>3, ReadAll DEF UpdatePoller, Running, disk, Pollers
<1>16. CASE UpdatePoller("configPoller", "setDNS")
    BY <1>16, <1>3, ReadAll DEF UpdatePoller, Running, disk, Pollers
<1>17. CASE Sighup \/ PollMoves \/ NewSharedPanics \/ UNCHANGED vars
    BY <1>17, <1>3
    DEF Sighup, PollMoves, PollBegins, PollEnds, NewSharedPanics, vars, services, disk
<1>18. QED
    BY <1>5, <1>6, <1>7, <1>8, <1>9, <1>10, <1>11, <1>12, <1>13, <1>14, <1>15, <1>16, <1>17,
       Steps

\* Every step keeps the latest SIGHUP waiting, or honours it.
LEMMA SignalStep == ReloadInv /\ [Next]_vars => SignalInv'
<1> SUFFICES ASSUME ReloadInv, [Next]_vars
             PROVE  SignalInv'
    OBVIOUS
<1> USE DEF ReloadInv, SignalInv
<1>1. TypeOK
    OBVIOUS
<1>2. CASE proc' # "running"
    BY <1>2
<1>3. CASE /\ proc = "running"
           /\ UNCHANGED <<signals, asked, edits, file, read>>
           /\ pc' # "listen" /\ ReadAt(pc') \subseteq ReadAt(pc)
    BY <1>3 DEF ReadAt
<1>4. CASE \E p \in Parts : EditFile(p)
    <2>1. edits' = edits + 1 /\ asked' = asked
        BY <1>4 DEF EditFile
    <2>2. asked <= edits /\ asked \in Nat /\ edits \in Nat
        BY <1>1 DEF TypeOK
    <2>3. asked' # edits'
        BY <2>1, <2>2
    <2>4. QED
        BY <2>3
<1>5. CASE Sighup
    BY <1>5, <1>2 DEF Sighup, Deliver
<1>6. CASE \E p \in Parts : Read(p)
    <2> PICK p \in Parts : Read(p)
        BY <1>6
    <2>1. /\ pc' \in Parts \cup {"newShared"}
          /\ ReadAt(pc') = ReadAt(pc) \cup {p}
          /\ UNCHANGED <<signals, asked, edits, file>>
          /\ proc = "running"
          /\ read' = [read EXCEPT ![p] = file[p]]
        BY ReadInOrder DEF Read, Running, services, disk
    <2>2. read'[p] = file[p] /\ \A q \in Parts \ {p} : read'[q] = read[q]
        BY <1>1, <2>1 DEF TypeOK
    <2>3. pc' # "listen"
        BY <2>1 DEF Parts
    <2>4. QED
        BY <2>1, <2>2, <2>3 DEF ReadAt
<1>7. CASE LoadStops
    <2>1. GiveUp /\ Loading
        BY <1>1, <1>7, LoadEnds
    <2>2. CASE Booting
        BY <1>2, <2>1, <2>2 DEF GiveUp
    <2>3. CASE ~Booting
        <3>1. /\ proc = "running"
              /\ pc' = "listen" /\ UNCHANGED <<signals, asked, edits, file>>
            BY <1>1, <1>7, <2>1, <2>3, LoadEnds DEF GiveUp, disk
        <3>2. PICK p \in Parts : \/ file[p].kind # "good"
                                 \/ p \in ReadAt(pc) /\ read[p].kind # "good"
            BY <1>1, <1>7, <2>3, LoadEnds
        <3>3. signals = 0 /\ asked = edits => ~Good
            BY <3>1, <3>2 DEF Good
        <3>4. ReadAt(pc') = {} /\ Good' = Good
            BY <3>1, ReadNothing DEF Good
        <3>5. QED
            BY <3>1, <3>3, <3>4 DEF ReadAt
    <2>4. QED
        BY <2>2, <2>3
<1>8. CASE Starts \/ Listen
    <2>1. proc = "running" => asked' = 0
        BY <1>8 DEF Starts, Loaded, Listen, MainServes, Running, BootInv, services
    <2>2. edits' = edits /\ edits # 0
        BY <1>1, <1>8 DEF Starts, Loaded, MainServes, Listen, disk, TypeOK
    <2>3. proc = "running"
        BY <1>8 DEF Starts, Loaded, Listen, Running
    <2>4. QED
        BY <2>1, <2>2, <2>3
<1>9. CASE Returns
    BY <1>9, <1>3 DEF Returns, Loaded, Running, disk, ReadAt, Pollers
<1>10. CASE NewSharedPanics
    BY <1>10, <1>2 DEF NewSharedPanics
<1>11. CASE TakeSignal
    <2>1. pc' = "config" /\ ReadAt(pc') = {}
        BY <1>11, ReadNothing DEF TakeSignal
    <2>2. QED
        BY <2>1 DEF ReadAt
<1>12. CASE UpdateCerts
    BY <1>12, <1>3, ReadAll DEF UpdateCerts, Running, disk, Pollers
<1>13. CASE UpdatePoller("statesPoller", "configPoller")
    BY <1>13, <1>3, ReadAll DEF UpdatePoller, Running, disk, Pollers
<1>14. CASE UpdatePoller("configPoller", "setDNS")
    BY <1>14, <1>3, ReadAll DEF UpdatePoller, Running, disk, Pollers
<1>15. CASE SetDNS
    BY <1>15, <1>3, ReadAll DEF SetDNS, Running, disk
<1>16. CASE SetHTTP
    <2>1. /\ proc = "running" /\ pc = "setHTTP" /\ pc' = "listen"
          /\ UNCHANGED <<signals, asked, edits, file, dns, certs>>
        BY <1>16 DEF SetHTTP, Running, disk
    <2>2. ReadAt(pc) = Parts /\ ReadAt(pc') = {}
        BY <2>1, ReadAll, ReadNothing
    <2>3. dns = Edits(read) /\ certs = Edits(read)
        BY <2>1 DEF StageInv
    <2>4. signals = 0 /\ asked = edits => Edits(read) = OnDisk
        BY <2>1, <2>2 DEF OnDisk, Edits
    <2>5. QED
        BY <2>1, <2>2, <2>3, <2>4 DEF OnDisk, Edits, ReadAt
<1>17. CASE PollMoves \/ UNCHANGED vars
    <2>1. UNCHANGED <<proc, pc, file, edits, read, signals, dns, certs, asked>>
        BY <1>17 DEF PollMoves, PollBegins, PollEnds, vars, services, disk
    <2>2. QED
        BY <2>1 DEF Good, OnDisk, Edits, ReadAt
<1>18. QED
    BY <1>4, <1>5, <1>6, <1>7, <1>8, <1>9, <1>10, <1>11, <1>12, <1>13, <1>14, <1>15, <1>16,
       <1>17, Steps

-------------------------------------------------------------------------------
\* The strengthened invariant holds from the start of the process to its end.
THEOREM ReloadInvariant == Spec => []ReloadInv
<1>1. Init => ReloadInv
    <2> SUFFICES ASSUME Init
                 PROVE  ReloadInv
        OBVIOUS
    <2> USE DEF Init
    <2>1. \A p \in Parts : file[p] \in Version /\ file[p].edit = 1
        BY EditionType
    <2>2. Unread \in [Parts -> Version] /\ Nothing \in [Parts -> Nat]
        BY DEF Unread, Nothing, Version, Kinds
    <2>3. TypeOK
        BY <2>1, <2>2, HotReloadAssumption DEF TypeOK, Parts
    <2>4. ReadAt(pc) = {}
        BY ReadNothing
    <2>5. BootInv /\ StageInv
        BY DEF BootInv, StageInv, Loading, Parts, Pollers
    <2>6. OrderInv /\ SignalInv
        BY <2>1, <2>4 DEF OrderInv, SignalInv, Nothing
    <2>7. QED
        BY <2>3, <2>5, <2>6 DEF ReloadInv
<1>2. ReloadInv /\ [Next]_vars => ReloadInv'
    BY TypeStep, BootStep, StageStep, OrderStep, SignalStep DEF ReloadInv
<1>3. QED
    BY <1>1, <1>2, PTL DEF Spec

\* Type correctness.
THEOREM TypeCorrect == Spec => []TypeOK
<1>1. ReloadInv => TypeOK
    BY DEF ReloadInv
<1>2. QED
    BY <1>1, ReloadInvariant, PTL

\* Between reloads both servers and both pollers work with what one load read.
THEOREM OneGeneration == Spec => []OneGenerationInService
<1>1. ReloadInv => OneGenerationInService
    BY DEF ReloadInv, StageInv, OneGenerationInService, Pollers
<1>2. QED
    BY <1>1, ReloadInvariant, PTL

\* A SIGHUP that finds good files gets them into service as they are, at whatever
\* step of an earlier reload the signal arrives and whichever parts were written
\* under it.
THEOREM ReloadsAreNotLost == Spec => []NoReloadLost
<1>1. ReloadInv => NoReloadLost
    <2> SUFFICES ASSUME ReloadInv, Running("listen"), signals = 0, asked = edits, Good
                 PROVE  /\ dns = OnDisk /\ http = OnDisk /\ certs = OnDisk
                        /\ \A p \in Pollers : target[p] = OnDisk
        BY DEF NoReloadLost
    <2>1. pc = "listen" /\ dns = OnDisk /\ certs = OnDisk
        BY DEF ReloadInv, SignalInv, Running
    <2>2. QED
        BY <2>1 DEF ReloadInv, StageInv, Pollers
<1>2. QED
    BY <1>1, ReloadInvariant, PTL

\* What a step does to the servers.
LEMMA ServersStep ==
    ReloadInv /\ [Next]_vars =>
        \/ /\ proc = "running" /\ dns = Nothing /\ http = Nothing
           /\ dns' = Edits(read) /\ http' = dns' /\ dns' # Nothing
           /\ proc' = proc
        \/ /\ proc = "running" /\ dns # Nothing /\ http = dns
           /\ dns' = Edits(read) /\ \A p \in Parts : dns'[p] >= dns[p]
           /\ http' = http /\ proc' = proc
        \/ /\ proc = "running" /\ dns' = dns /\ http' = dns /\ proc' = proc
        \/ dns' = dns /\ http' = http /\ proc' \in {proc, "exited", "crashed"}
<1> SUFFICES ASSUME ReloadInv, [Next]_vars
             PROVE  \/ /\ proc = "running" /\ dns = Nothing /\ http = Nothing
                       /\ dns' = Edits(read) /\ http' = dns' /\ dns' # Nothing
                       /\ proc' = proc
                    \/ /\ proc = "running" /\ dns # Nothing /\ http = dns
                       /\ dns' = Edits(read) /\ \A p \in Parts : dns'[p] >= dns[p]
                       /\ http' = http /\ proc' = proc
                    \/ /\ proc = "running" /\ dns' = dns /\ http' = dns /\ proc' = proc
                    \/ dns' = dns /\ http' = http /\ proc' \in {proc, "exited", "crashed"}
    OBVIOUS
<1> USE DEF ReloadInv
<1>1. \A p \in Parts : Edits(read)[p] = read[p].edit /\ dns[p] \in Nat /\ read[p].edit \in Nat
    BY DEF TypeOK, Version, Edits
<1>2. CASE Starts
    <2>1. /\ proc = "running" /\ pc = "newShared" /\ dns = Nothing
          /\ dns' = Edits(read) /\ http' = dns' /\ proc' = proc
        BY <1>2 DEF Starts, Loaded, MainServes, Running, Booting
    <2>2. "czf" \in ReadAt(pc) /\ "czf" \in Parts
        BY <2>1, ReadAll DEF Parts
    <2>3. Edits(read)["czf"] # Nothing["czf"]
        BY <1>1, <2>2 DEF OrderInv, Nothing
    <2>4. http = Nothing
        BY <2>1 DEF StageInv
    <2>5. QED
        BY <2>1, <2>3, <2>4
<1>3. CASE SetDNS
    <2>1. /\ proc = "running" /\ pc = "setDNS"
          /\ dns' = Edits(read) /\ http' = http /\ proc' = proc
        BY <1>3 DEF SetDNS, Running
    <2>2. ReadAt(pc) = Parts /\ dns # Nothing
        BY <2>1, ReadAll DEF BootInv, Booting, Loading, Parts
    <2>3. \A p \in Parts : dns'[p] >= dns[p]
        BY <1>1, <2>1, <2>2 DEF OrderInv
    <2>4. http = dns
        BY <2>1 DEF StageInv
    <2>5. QED
        BY <2>1, <2>2, <2>3, <2>4
<1>4. CASE SetHTTP
    <2>1. /\ proc = "running" /\ pc = "setHTTP"
          /\ dns' = dns /\ http' = Edits(read) /\ proc' = proc
        BY <1>4 DEF SetHTTP, Running
    <2>2. QED
        BY <2>1 DEF StageInv
<1>5. CASE LoadStops
    <2>1. GiveUp
        BY <1>5, LoadEnds
    <2>2. QED
        BY <2>1 DEF GiveUp, services
<1>6. CASE Returns \/ NewSharedPanics
    BY <1>6 DEF Returns, Loaded, NewSharedPanics, services, Booting
<1>7. CASE \/ \E p \in Parts : EditFile(p) \/ Read(p)
           \/ Sighup \/ Listen \/ TakeSignal
    BY <1>7 DEF EditFile, Read, Sighup, Listen, TakeSignal, services
<1>8. CASE \/ UpdateCerts
           \/ UpdatePoller("statesPoller", "configPoller")
           \/ UpdatePoller("configPoller", "setDNS")
           \/ PollMoves
           \/ UNCHANGED vars
    BY <1>8 DEF UpdateCerts, UpdatePoller, PollMoves, PollBegins, PollEnds, vars, services
<1>9. QED
    BY <1>2, <1>3, <1>4, <1>5, <1>6, <1>7, <1>8, Steps

\* No part in service is ever replaced by an older one, and HTTP never gets ahead
\* of DNS.
THEOREM ServersOnlyMoveForward == Spec => ServersMoveForward
<1>1. ReloadInv /\ [Next]_vars
        => [\A p \in Parts : dns'[p] >= dns[p] /\ http'[p] >= http[p] /\ dns'[p] >= http'[p]]_vars
    <2> SUFFICES ASSUME ReloadInv, [Next]_vars, NEW p \in Parts
                 PROVE  dns'[p] >= dns[p] /\ http'[p] >= http[p] /\ dns'[p] >= http'[p]
        OBVIOUS
    <2>1. /\ http[p] <= dns[p]
          /\ http[p] \in Nat /\ dns[p] \in Nat /\ Edits(read)[p] \in Nat
          /\ Nothing[p] = 0
        BY EditsType DEF ReloadInv, OrderInv, TypeOK, Nothing
    <2>2. QED
        BY <2>1, ServersStep
<1>2. QED
    BY <1>1, ReloadInvariant, PTL DEF Spec, ServersMoveForward

\* Those who send requests see the service that ConfigService promises, as far as
\* safety goes: whatever is read, and however often, between two moves of DNS.
THEOREM ServesAsConfigService == Spec => Service!Spec
<1>1. Init => Service!Init
    BY DEF Init, Service!Init, Nothing, Service!Nothing
<1>2. ReloadInv /\ [Next]_vars => [Service!Next]_(Service!vars)
    <2> SUFFICES ASSUME ReloadInv, [Next]_vars
                 PROVE  [Service!Next]_(Service!vars)
        OBVIOUS
    <2> USE DEF Service!Next, Service!vars, Service!Nothing, Nothing, Service!Configurations
    <2>1. Edits(read) \in [Parts -> Nat]
        BY EditsType DEF ReloadInv, TypeOK
    <2>2. CASE proc = "running" /\ dns = Nothing /\ http = Nothing
               /\ dns' = Edits(read) /\ http' = dns' /\ dns' # Nothing /\ proc' = proc
        BY <2>1, <2>2 DEF Service!Start
    <2>3. CASE proc = "running" /\ dns # Nothing /\ http = dns
               /\ dns' = Edits(read) /\ (\A p \in Parts : dns'[p] >= dns[p])
               /\ http' = http /\ proc' = proc
        BY <2>1, <2>3 DEF Service!Advance
    <2>4. CASE proc = "running" /\ dns' = dns /\ http' = dns /\ proc' = proc
        BY <2>4 DEF Service!CatchUp
    <2>5. CASE dns' = dns /\ http' = http /\ proc' \in {proc, "exited", "crashed"}
        BY <2>5 DEF Service!End
    <2>6. QED
        BY <2>2, <2>3, <2>4, <2>5, ServersStep
<1>3. QED
    BY <1>1, <1>2, ReloadInvariant, PTL DEF Spec, Service!Spec

-------------------------------------------------------------------------------
(* The program as it stands. *)

\* With the nil cells of shared.go NewShared never returns a Shared, so that the
\* process never gets to its servers, whatever files it finds and is given, although
\* shared.go:92 has it return nil on a fatal error.
THEOREM NeverServes == ~CellsAllocated => (Spec => []Booting)
<1> SUFFICES ASSUME ~CellsAllocated
             PROVE  Spec => []Booting
    OBVIOUS
<1>1. Init => Booting
    BY DEF Init, Booting
<1>2. ASSUME ReloadInv, Booting, [Next]_vars
      PROVE  Booting'
    <2>1. Loading
        BY <1>2 DEF ReloadInv, BootInv
    <2>2. ~Starts /\ ~Returns
        BY DEF Starts, Returns, Loaded, SharedIsMade
    <2>3. ~SetDNS
        BY <2>1 DEF SetDNS, Running, Loading, Parts
    <2>4. CASE UNCHANGED dns
        BY <1>2, <2>4 DEF Booting
    <2>5. CASE LoadStops
        BY <1>2, <2>4, <2>5, LoadEnds DEF ReloadInv, GiveUp, services
    <2>6. CASE (\E p \in Parts : EditFile(p) \/ Read(p)) \/ Sighup \/ PollMoves
               \/ NewSharedPanics
        BY <2>4, <2>6
        DEF EditFile, Read, Sighup, PollMoves, PollBegins, PollEnds, NewSharedPanics, services
    <2>7. CASE \/ UpdatePoller("statesPoller", "configPoller")
               \/ UpdatePoller("configPoller", "setDNS")
               \/ UpdateCerts \/ SetHTTP \/ Listen \/ TakeSignal \/ UNCHANGED vars
        BY <2>4, <2>7
        DEF UpdatePoller, UpdateCerts, SetHTTP, Listen, TakeSignal, vars, services
    <2>8. QED
        BY <1>2, <2>2, <2>3, <2>5, <2>6, <2>7, Steps
<1>3. QED
    BY <1>1, <1>2, ReloadInvariant, PTL DEF Spec

\* What is in service, but for the certificates, is what the process started with,
\* and no poller is ever restarted.
FirstLoadForLife == [][~Booting => UNCHANGED <<dns, http, target>>]_vars

\* A reload that has loaded comes to the first poller and stays there.
ReloadHangs == [][pc = "statesPoller" => UNCHANGED <<pc, dns, http, certs, target>>]_vars

\* Once the process serves neither poller is ever off, and no reload gets past the
\* first.
StuckInv ==
    ~Booting =>
        /\ \A p \in Pollers : poller[p] # "off"
        /\ pc \notin {"configPoller", "setDNS", "setHTTP"}

\* The Stop of the first poller is not answered.
LEMMA NoPollerUpdated ==
    ASSUME ~StopSends, ReloadInv, StuckInv
    PROVE  /\ \A next : ~UpdatePoller("statesPoller", next)
           /\ \A next : ~UpdatePoller("configPoller", next)
           /\ ~SetDNS /\ ~SetHTTP
<1>1. Booting => pc \in Parts \cup {"newShared"}
    BY DEF ReloadInv, BootInv, Loading
<1>2. pc \notin {"configPoller", "setDNS", "setHTTP"}
    BY <1>1 DEF StuckInv, Parts
<1>3. pc = "statesPoller" => ~StopMayReturn("statesPoller")
    BY <1>1 DEF StuckInv, StopMayReturn, Parts, Pollers
<1>4. QED
    BY <1>2, <1>3 DEF UpdatePoller, SetDNS, SetHTTP, Running

\* Each other step leaves the pollers on and the reload short of the second.
LEMMA StuckStep ==
    ASSUME ~StopSends, ReloadInv, StuckInv, [Next]_vars
    PROVE  /\ StuckInv'
           /\ ~Booting => UNCHANGED <<dns, http, target>>
           /\ pc = "statesPoller" => UNCHANGED <<pc, dns, http, certs, target>>
<1>a. Booting => pc # "statesPoller"
    BY DEF ReloadInv, BootInv, Loading, Parts
<1>1. CASE Starts
    BY <1>1, <1>a DEF Starts, Loaded, MainServes, StuckInv, Running
<1>2. CASE \E p \in Parts : Read(p)
    <2> PICK p \in Parts : Read(p)
        BY <1>2
    <2>1. pc = p /\ pc' \in Parts \cup {"newShared"} /\ UNCHANGED services
        BY ReadInOrder DEF Read, Running
    <2>2. QED
        BY <2>1 DEF services, StuckInv, Booting, Parts
<1>3. CASE LoadStops
    <2>1. GiveUp /\ Loading
        BY <1>3, LoadEnds DEF ReloadInv
    <2>2. pc' \in {pc, "listen"} /\ UNCHANGED services /\ pc # "statesPoller"
        BY <2>1 DEF GiveUp, Loading, Parts
    <2>3. QED
        BY <2>2 DEF services, StuckInv, Booting
<1>4. CASE UpdateCerts
    <2>1. /\ pc = "updateCerts" /\ pc' = "statesPoller"
          /\ UNCHANGED <<dns, http, target, poller>>
        BY <1>4 DEF UpdateCerts, Running
    <2>2. QED
        BY <2>1 DEF StuckInv, Booting
<1>5. CASE Returns \/ Listen \/ TakeSignal
    <2>1. /\ pc \in {"newShared", "serving", "listen"}
          /\ pc' \in {"updateCerts", "listen", "config"}
          /\ UNCHANGED services
        BY <1>5 DEF Returns, Loaded, Listen, TakeSignal, Running
    <2>2. QED
        BY <2>1 DEF services, StuckInv, Booting
<1>6. CASE (\E p \in Parts : EditFile(p)) \/ Sighup \/ NewSharedPanics \/ UNCHANGED vars
    <2>1. UNCHANGED <<pc, services>>
        BY <1>6 DEF EditFile, Sighup, NewSharedPanics, vars
    <2>2. QED
        BY <2>1 DEF services, StuckInv, Booting
<1>7. CASE PollMoves
    <2>1. PICK p \in Pollers : PollBegins(p) \/ PollEnds(p)
        BY <1>7 DEF PollMoves
    <2>2. /\ UNCHANGED <<pc, dns, http, certs, target>>
          /\ \E now \in {"idle", "busy"} : poller' = [poller EXCEPT ![p] = now]
        BY <2>1 DEF PollBegins, PollEnds
    <2>3. ~Booting => \A q \in Pollers : poller'[q] # "off"
        BY <2>2 DEF StuckInv, ReloadInv, TypeOK
    <2>4. QED
        BY <2>2, <2>3 DEF StuckInv, Booting
<1>8. QED
    BY <1>1, <1>2, <1>3, <1>4, <1>5, <1>6, <1>7, NoPollerUpdated, Steps

\* With the Stop of poller.go:64 no reload ever changes what requests are
\* answered from, nor where the pollers store what they poll: if the process
\* ever serves, it serves its first configuration to its end.  The first SIGHUP
\* that finds files which load leaves the goroutine that would take the next one
\* in Stop.  This is ReloadBlocked, whatever is written and however often.
THEOREM ReloadsChangeNothing == ~StopSends => (Spec => FirstLoadForLife /\ ReloadHangs)
<1> SUFFICES ASSUME ~StopSends
             PROVE  Spec => FirstLoadForLife /\ ReloadHangs
    OBVIOUS
<1>1. Init => StuckInv
    BY DEF Init, StuckInv, Booting
<1>2. ReloadInv /\ StuckInv /\ [Next]_vars => StuckInv'
    BY StuckStep
<1>3. ReloadInv /\ StuckInv /\ [Next]_vars
        => [~Booting => UNCHANGED <<dns, http, target>>]_vars
    BY StuckStep
<1>4. ReloadInv /\ StuckInv /\ [Next]_vars
        => [pc = "statesPoller" => UNCHANGED <<pc, dns, http, certs, target>>]_vars
    BY StuckStep
<1>5. QED
    BY <1>1, <1>2, <1>3, <1>4, ReloadInvariant, PTL DEF Spec, FirstLoadForLife, ReloadHangs
===============================================================================
