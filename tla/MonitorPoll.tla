----------------------------- MODULE MonitorPoll ------------------------------
(***************************************************************************)
(* pollercrconfig/poller.go and pollercrstates/poller.go, which differ     *)
(* only in the type they decode and the cell of Shared they store to: the  *)
(* IPoller whose Poll asks the Traffic Monitors, in turn, for a document   *)
(* and publishes the first one that decodes.                               *)
(*                                                                         *)
(* The IPoller is driven by the Poller it EXTENDS.  A document is a        *)
(* version; a decoded object is the set of versions whose entries it       *)
(* holds, because every attempt of one Poll decodes into the same object:  *)
(* encoding/json adds to the maps it finds there.                          *)
(***************************************************************************)
EXTENDS Poller, Sequences

CONSTANTS
    Monitors,   \* the FQDNs of Traffic Monitors
    Lists,      \* the values the configuration gives IPoller.Monitors
    Reliable,   \* the monitors that answer every request with a good document
    Versions,   \* the documents monitors serve while the program runs
    FileVersion \* the document the program read from its file at startup

ASSUME MonitorPollAssumption ==
    /\ Lists \subseteq Seq(Monitors)
    /\ FileVersion \notin Versions

VARIABLES
    monitors,   \* IPoller.Monitors
    cur,        \* IPoller.currentMonitor, an index from 0
    tried,      \* triedMonitors of each loop's Poll
    object,     \* crConfig, or crStates, of each loop's Poll
    published   \* the object Shared holds

pollVars == <<monitors, cur, tried, object, published>>
vars == <<pollerVars, pollVars>>

\* Poll compares triedMonitors with len(Monitors) only, so the model counts
\* up to one more and stays there.
TriedAtMost(list) == Len(list) + 1

TypeOK ==
    /\ PollerTypeOK
    /\ monitors \in Lists
    /\ cur \in Nat
    /\ tried \in [Loops -> Nat]
    /\ object \in [Loops -> SUBSET Versions]
    /\ published \in SUBSET (Versions \cup {FileVersion})

Init ==
    /\ PollerInit
    /\ monitors \in Lists
    /\ cur = 0
    /\ tried = [l \in Loops |-> 0]
    /\ object = [l \in Loops |-> {}]
    /\ published = {FileVersion}

-------------------------------------------------------------------------------
(* The owner. *)

\* Mutant: currentMonitor keeps its value when the poller starts again.
KeepCurrent == cur

\* IPoller.Reset.
Reset == 0

\* Start, which calls Reset before it starts the goroutine.
StartPolling ==
    /\ Start
    /\ cur' = Reset
    /\ UNCHANGED <<monitors, tried, object, published>>

\* Update{CRStates,CRConfig}Poller between Stop and Start: new Monitors, new
\* Interval.  (The new Shared is the business of HotReload.)
Reconfigure ==
    /\ SetInterval
    /\ monitors' \in Lists
    /\ UNCHANGED <<cur, tried, object, published>>

-------------------------------------------------------------------------------
(* Poll. *)

\* The tick: Poll enters with fresh local variables.
PollBegins(l) ==
    /\ TakeTick(l)
    /\ tried' = [tried EXCEPT ![l] = 0]
    /\ object' = [object EXCEPT ![l] = {}]
    /\ UNCHANGED <<monitors, cur, published>>

\* len(po.Monitors) == 0: nobody to ask.
NoMonitors(l) ==
    /\ PollReturns(l)
    /\ monitors = <<>>
    /\ UNCHANGED pollVars

Asked == monitors[cur + 1]

\* Mutant: failover knows a first monitor and a second only.
PrimaryAndBackup == IF cur = 0 THEN 1 ELSE 0

\* Mutant: the list is walked backwards, without wrapping round.
PreviousMonitor == cur - 1

\* po.currentMonitor = (po.currentMonitor + 1) % len(po.Monitors)
NextMonitor == (cur + 1) % Len(monitors)

\* One request to the current monitor: the index moves on, whatever happens.
Ask(l) ==
    /\ loop[l] = "polling"
    /\ cur < Len(monitors)
    /\ cur' = NextMonitor
    /\ tried' = [tried EXCEPT ![l] =
                    IF @ < TriedAtMost(monitors) THEN @ + 1 ELSE @]
    /\ UNCHANGED monitors

\* Mutant: a body that only partly decodes is published, and the Poll goes on.
AskMisfitsPublishing(l) ==
    /\ Ask(l)
    /\ Asked \notin Reliable
    /\ \E v \in Versions :
        /\ object' = [object EXCEPT ![l] = @ \cup {v}]
        /\ published' = object[l] \cup {v}
    /\ UNCHANGED pollerVars

\* http.Get fails, or the body is not JSON: nothing is decoded, continue.
\* The loop has no other way on than the next monitor, also when
\* triedMonitors = len(Monitors): that test only logs.
AskFails(l) ==
    /\ Ask(l)
    /\ Asked \notin Reliable
    /\ UNCHANGED <<pollerVars, object, published>>

\* A field of the body has another type: encoding/json decodes all the others
\* into the object, then reports the error; continue.
AskMisfits(l) ==
    /\ Ask(l)
    /\ Asked \notin Reliable
    /\ \E v \in Versions : object' = [object EXCEPT ![l] = @ \cup {v}]
    /\ UNCHANGED <<pollerVars, published>>

\* What a body that decodes may hold.  The status code is not looked at, so
\* the JSON of an error page, with none of the entries, decodes as well.
Documents(m) ==
    {{v} : v \in Versions} \cup (IF m \in Reliable THEN {} ELSE {{}})

\* Mutant: the answer is decoded into the object in service.
DecodedInPlace(l, document) == published \cup document

\* The object after the last decode of this Poll.
Decoded(l, document) == object[l] \cup document

\* The body decodes: break, then SetCRConfig or SetCRStates stores the object.
AskSucceeds(l) ==
    /\ Ask(l)
    /\ \E document \in Documents(Asked) : published' = Decoded(l, document)
    /\ PollReturns(l)
    /\ UNCHANGED object

-------------------------------------------------------------------------------
\* What the Poller does without its IPoller.
PollerOnly ==
    /\ \/ Stop
       \/ \E l \in Loops : LoopBegin(l) \/ TimerFires(l) \/ Handshake(l) \/ LoopExit(l)
    /\ UNCHANGED pollVars

PollStep(l) ==
    \/ NoMonitors(l)
    \/ AskFails(l)
    \/ AskMisfits(l)
    \/ AskSucceeds(l)

Next ==
    \/ StartPolling
    \/ Reconfigure
    \/ PollerOnly
    \/ \E l \in Loops : PollBegins(l) \/ PollStep(l)

Spec == Init /\ [][Next]_vars

\* A request to a monitor is answered or fails.  Not a fact about the code
\* (http.Get has no timeout): the hypothesis under which liveness is judged.
RequestsReturn == \A l \in Loops : WF_vars(PollStep(l))

\* The runtime schedules every goroutine and fires every timer.  A loop that
\* keeps coming back to its select meets a waiting Stop: select chooses among
\* the ready cases at random, and Stop is ready each time.
LoopScheduling ==
    \A l \in Loops :
        /\ WF_vars(LoopBegin(l) /\ UNCHANGED pollVars)
        /\ WF_vars(TimerFires(l) /\ UNCHANGED pollVars)
        /\ WF_vars(PollBegins(l))
        /\ SF_vars(Handshake(l) /\ UNCHANGED pollVars)
        /\ WF_vars(LoopExit(l) /\ UNCHANGED pollVars)

FairSpec == Spec /\ LoopScheduling /\ RequestsReturn

-------------------------------------------------------------------------------
(* What the owner and the readers of Shared rely on. *)

\* Where the Poller is, seen from outside: a loop on its way out of poll, or
\* not yet in its select, makes no difference.
PollState ==
    IF ~started THEN "off"
    ELSE IF \E l \in Loops : loop[l] = "polling" THEN "busy"
    ELSE "idle"

\* What a Poll may publish with these monitors: nothing, with none to ask.
MayPublish == [list \in Lists |-> IF list = <<>> THEN {} ELSE SUBSET Versions]

Service == INSTANCE PollService WITH
    state <- PollState, config <- monitors,
    Configurations <- Lists, Answers <- MayPublish, File <- {FileVersion}

\* The pollers do what PollService promises.  A Stop that has returned leaves
\* no Poll under way, so that UpdateCRConfigPoller and UpdateCRStatesPoller
\* change the fields of an IPoller nobody reads; nothing is published behind
\* the owner's back; and a Poll asks the monitors of one list to its end.
PollsAsPromised == Service!Spec

-------------------------------------------------------------------------------
(* Properties. *)

\* One monitor in the list always answers well.
SomeReliable == \E i \in DOMAIN monitors : monitors[i] \in Reliable

\* po.Monitors[po.currentMonitor] is in range in every Poll: a shorter list
\* never meets the index of a longer one.
IndexInRange ==
    \A l \in Loops :
        loop[l] = "polling" /\ monitors # <<>> => cur < Len(monitors)

\* Failover is bounded: if one monitor of the list answers well, a Poll asks
\* each monitor at most once, wherever the last Poll left currentMonitor.
FailoverBounded ==
    SomeReliable =>
        \A l \in Loops : loop[l] = "polling" => tried[l] < Len(monitors)

\* What a poll publishes replaces the document read from the file as a whole:
\* no published object mixes entries of the file with a monitor's.
FileNeverMixedIn == FileVersion \in published => published = {FileVersion}

\* Reset touches currentMonitor, which a Poll reads and advances without a
\* lock, only while no goroutine polls.
ResetWhenQuiet ==
    [][cur' # cur => Active(loop) = {} \/ cur' = NextMonitor]_vars

\* Shared changes only in the step that ends a Poll with a decoded answer: a
\* request that fails, whatever it left in the object, publishes nothing.
PublishEndsPoll ==
    [][published' # published =>
        \E l \in Loops : loop[l] = "polling" /\ loop'[l] = "waiting"]_vars

\* With one monitor that answers well, each Poll ends.
PollEnds ==
    \A l \in Loops : loop[l] = "polling" /\ SomeReliable ~> loop[l] # "polling"

\* A loop that waits for its timer polls, or is told to stop: the timer is
\* running again after every Poll, also while the owner is blocked in Stop.
KeepsPolling ==
    \A l \in Loops : loop[l] = "waiting" ~> loop[l] \in {"polling", "exiting"}

\* A call of Stop returns, whatever the loop is doing, if a Poll under way ends:
\* with one monitor that answers well, or none to ask.
StopReturns ==
    owner = "stopping" /\ (SomeReliable \/ monitors = <<>>) ~> owner = "idle"

\* poller.go:51 logs "all monitors failed, CRConfig Poll failed! Trying again
\* after interval.": a Poll asks no monitor once all have failed.
AllFailedEndsPoll ==
    \A l \in Loops : loop[l] = "polling" => tried[l] <= Len(monitors)

\* poller.go:66 logs "decoding CRConfig from monitor ..., trying next monitor":
\* what is published is the next monitor's answer, with nothing of the answer
\* that failed.
PublishedFromOneAnswer == \A v, w \in published : v = w
===============================================================================
